------------------------------ MODULE Payment ------------------------------
(***************************************************************************)
(* What a deposit by M-Pesa promises, leg by leg, whatever carries it out: *)
(* a leg is booked once and stays booked, a customer is prompted only for  *)
(* a booked leg, decides each prompt once, and a leg is credited only when *)
(* one of its prompts was paid.                                            *)
(***************************************************************************)
EXTENDS Naturals

CONSTANTS Txns,        \* the legs
          Checkouts    \* the prompts; k[1] is the leg that k is for

VARIABLES booked,      \* legs with a transaction
          prompt,      \* what became of each prompt
          credits      \* how often each leg was credited

Init ==
    /\ booked = {}
    /\ prompt = [k \in Checkouts |-> "none"]
    /\ credits = [t \in Txns |-> 0]

Book(t) ==
    /\ t \notin booked
    /\ booked' = booked \cup {t}
    /\ UNCHANGED <<prompt, credits>>

Ask(k) ==
    /\ prompt[k] = "none" /\ k[1] \in booked
    /\ prompt' = [prompt EXCEPT ![k] = "open"]
    /\ UNCHANGED <<booked, credits>>

Decide(k, decision) ==
    /\ prompt[k] = "open"
    /\ prompt' = [prompt EXCEPT ![k] = decision]
    /\ UNCHANGED <<booked, credits>>

Credit(t) ==
    /\ \E k \in Checkouts : k[1] = t /\ prompt[k] = "paid"
    /\ credits' = [credits EXCEPT ![t] = @ + 1]
    /\ UNCHANGED <<booked, prompt>>

Next ==
    \/ \E t \in Txns : Book(t) \/ Credit(t)
    \/ \E k \in Checkouts : Ask(k) \/ \E decision \in {"paid", "declined"} : Decide(k, decision)

Spec == Init /\ [][Next]_<<booked, prompt, credits>>
=============================================================================
