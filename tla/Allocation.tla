----------------------------- MODULE Allocation -----------------------------
(***************************************************************************)
(* AllocateFunds of api/handlers/allocation.go: how much of a balance is   *)
(* to be sent to each of N bookies.  A first loop gives each bookie its    *)
(* share of the allocatable amount, raised to its minimum, cut to its      *)
(* maximum and dropped when tiny; a second one hands out what is left by   *)
(* descending score.  Each iteration is an action.                         *)
(*                                                                         *)
(* The floats are kept as exact fractions: a reserve in percent, beta in   *)
(* tenths, log returns and volatilities as integers in units of a          *)
(* millionth.                                                              *)
(***************************************************************************)
EXTENDS Split, FiniteSets, Functions

CONSTANTS
    N,         \* the number of bookies
    Inputs     \* the arguments the function is called with

Bookies == 1 .. N

ASSUME AllocationAssumption ==
    /\ N \in Nat \ {0}
    /\ Inputs \subseteq
         [balance : Nat, reserve : Nat, beta : 0 .. 10, minSend : Nat,
          bookies : [Bookies -> [min : Nat, max : Nat, ret : Int, vol : Nat]]]

VARIABLES
    input,         \* the arguments
    pc,            \* the loop the function is in
    next,          \* the bookie the first loop is at
    allocatable,   \* the balance without the reserve
    remaining,     \* what is left of it
    score,         \* scores, as parts of their sum
    amount,        \* AmountToSend of each bookie
    used,          \* bookies whose score the second loop replaced by -1
    raised         \* history: bookies whose share was raised to the minimum

vars == <<input, pc, next, allocatable, remaining, score, amount, used, raised>>

Init ==
    /\ input \in Inputs
    /\ pc = "start" /\ next = 1
    /\ allocatable = 0 /\ remaining = 0
    /\ score = [b \in Bookies |-> 0]
    /\ amount = [b \in Bookies |-> 0]
    /\ used = {} /\ raised = {}

AtLeast(bound, value) == IF value < bound THEN bound ELSE value
AtMost(bound, value) == IF value > bound THEN bound ELSE value

(* perf: the positive parts of the returns, or equal weights if there are  *)
(* none.                                                                   *)
Perf(b) ==
    LET positive == [i \in Bookies |-> AtLeast(0, input.bookies[i].ret)]
    IN  IF SumFunction(positive) = 0 THEN 1 ELSE positive[b]

(* risk: the inverse volatilities, here times the product of them all.     *)
Risk(b) ==
    LET vol == [i \in Bookies |-> AtLeast(1, input.bookies[i].vol)]
    IN  FoldFunction(LAMBDA x, y : x * y, 1, vol) \div vol[b]

(* The score of a bookie, beta of perf and 1 - beta of risk, both as parts *)
(* of their sums, times both sums and ten.                                 *)
PerfWhole == SumFunction([b \in Bookies |-> Perf(b)])
RiskWhole == SumFunction([b \in Bookies |-> Risk(b)])
Score(b) == input.beta * Perf(b) * RiskWhole + (10 - input.beta) * Risk(b) * PerfWhole

(* The reserve is set aside and the scores are computed; without anything  *)
(* to allocate the plan is nil.                                            *)
Begin ==
    /\ pc = "start"
    /\ \E short \in BOOLEAN :
         allocatable' = input.balance - LegAmount(input.balance, input.reserve, 100, short)
    /\ remaining' = allocatable'
    /\ score' = [b \in Bookies |-> Score(b)]
    /\ pc' = IF allocatable' > 0 THEN "shares" ELSE "done"
    /\ UNCHANGED <<input, next, amount, used, raised>>

(* Variant of AtMinimum: a share below the minimum is kept.                *)
AsItIs(b, share) == share

(* "if below min, round up to min if funds permit, otherwise zero"         *)
AtMinimum(b, share) ==
    IF share > 0 /\ share < input.bookies[b].min
    THEN IF remaining >= input.bookies[b].min THEN input.bookies[b].min ELSE 0
    ELSE share

(* Variant of Limited: no maximum.                                         *)
NoMaximum(b, share) == IF share < input.minSend THEN 0 ELSE share

(* The maximum, and "skip tiny transfers".                                 *)
Limited(b, share) ==
    LET capped == AtMost(input.bookies[b].max, share)
    IN  IF capped < input.minSend THEN 0 ELSE capped

(* One iteration of the first loop.                                        *)
GiveShare ==
    /\ pc = "shares"
    /\ \E short \in BOOLEAN :
         LET share == LegAmount(allocatable, score[next], SumFunction(score), short)
             sent == Limited(next, AtMinimum(next, share))
         IN  /\ amount' = [amount EXCEPT ![next] = sent]
             /\ remaining' = remaining - sent
             /\ raised' = IF AtMinimum(next, share) > share THEN raised \cup {next} ELSE raised
    /\ next' = next + 1
    /\ pc' = IF next < N THEN "shares" ELSE "remainder"
    /\ UNCHANGED <<input, allocatable, score, used>>

(* Variant of IsTop: any bookie that was not served.                       *)
IsUnused(b) == b \notin used

(* The highest score that is left; scores that are equal as fractions may  *)
(* differ by a rounding of the floats, either way.                         *)
IsTop(b) == b \notin used /\ \A d \in Bookies \ used : ~(score[d] > score[b])

Room(b) == input.bookies[b].max - amount[b]

(* One iteration of the second loop, which ends with the remainder, with   *)
(* the bookies, or at a bookie that is full already.                       *)
GiveRemainder ==
    /\ pc = "remainder" /\ remaining > 0
    /\ \E b \in Bookies :
         LET inc == AtMost(Room(b), remaining) IN
         /\ IsTop(b)
         /\ IF inc <= 0
            THEN pc' = "done" /\ UNCHANGED <<amount, remaining, used>>
            ELSE /\ amount' = [amount EXCEPT ![b] = @ + inc]
                 /\ remaining' = remaining - inc
                 /\ used' = used \cup {b}
                 /\ pc' = IF used' = Bookies THEN "done" ELSE pc
    /\ UNCHANGED <<input, next, allocatable, score, raised>>

(* Nothing is left, or more was given than there was.                      *)
Finish ==
    /\ pc = "remainder" /\ remaining <= 0
    /\ pc' = "done"
    /\ UNCHANGED <<input, next, allocatable, remaining, score, amount, used, raised>>

Next == Begin \/ GiveShare \/ GiveRemainder \/ Finish

Spec == Init /\ [][Next]_vars
-----------------------------------------------------------------------------
(* Types, and no bookie is sent more than its maximum.                     *)
TypeOK ==
    /\ input \in Inputs
    /\ pc \in {"start", "shares", "remainder", "done"}
    /\ next \in 1 .. N + 1
    /\ allocatable \in Int /\ remaining \in Int
    /\ DOMAIN score = Bookies
    /\ amount \in [Bookies -> Nat]
    /\ \A b \in Bookies : amount[b] <= input.bookies[b].max
    /\ used \subseteq Bookies /\ raised \subseteq Bookies

Full(b) == amount[b] = input.bookies[b].max

(* Planned is what all bookies are to be sent.                             *)
Planned == SumFunction(amount)

(* The books of the two loops agree, and only minimums break the budget:   *)
(* floors, caps, dropped amounts and the remainder keep the plan within    *)
(* the allocatable amount, and what it exceeds it by is no more than what  *)
(* shares were raised by.  A reserve above the balance leaves nothing.     *)
OnlyMinimumsOverspend ==
    /\ Planned + remaining = allocatable
    /\ Planned - AtLeast(0, allocatable) <=
         SumFunction([b \in raised |->
            input.bookies[b].min - (allocatable * score[b]) \div SumFunction(score)])

(* The second loop checks neither the minimum nor minSend.  All the same   *)
(* one bookie at most, the last one served, is sent less than one of them  *)
(* without being full.                                                     *)
IsSmall(b) ==
    /\ 0 < amount[b] /\ ~Full(b)
    /\ amount[b] < input.minSend \/ amount[b] < input.bookies[b].min

OneSmallAmount ==
    \A b \in Bookies : IsSmall(b) =>
        /\ remaining = 0 /\ b \in used
        /\ \A d \in Bookies : IsSmall(d) => d = b

(* The remainder goes by score: it reaches a bookie only when all with a   *)
(* higher score are full, and some of it stays only when such a bookie is  *)
(* full itself, whatever room the others have.                             *)
RemainderByScore ==
    LET higherAreFull(b) == \A d \in Bookies : score[d] > score[b] => Full(d)
    IN  /\ \A b \in used : higherAreFull(b)
        /\ pc = "done" /\ remaining > 0 => \E b \in Bookies : Full(b) /\ higherAreFull(b)
-----------------------------------------------------------------------------
(* "Reserve buffer", "if funds permit": the plan leaves the reserve alone. *)
ReserveIsKept == pc = "done" => Planned <= AtLeast(0, allocatable)
=============================================================================
