-------------------------- MODULE AllocationProofs --------------------------
(***************************************************************************)
(* What TLAPS proves of Allocation, for every number of bookies and all    *)
(* arguments: its types and caps, where small amounts come from, the order *)
(* in which the remainder is given, and that only the minimums of raised   *)
(* bookies spend more than the budget.                                     *)
(***************************************************************************)
EXTENDS Allocation, Sums

(* The arguments of a call.                                                *)
LEMMA InputType ==
    ASSUME input \in Inputs, NEW b \in Bookies
    PROVE  /\ input.balance \in Nat /\ input.minSend \in Nat
           /\ input.bookies[b].min \in Nat /\ input.bookies[b].max \in Nat
  BY AllocationAssumption DEF AllocationAssumption

(* A share after minimum, maximum and minSend is within the maximum; it is *)
(* below the minimum or minSend only when it is nothing or the maximum.    *)
LEMMA LimitedType ==
    ASSUME input \in Inputs, NEW b \in Bookies, NEW share \in Nat
    PROVE  LET sent == Limited(b, AtMinimum(b, share)) IN
           /\ sent \in Nat /\ sent <= input.bookies[b].max
           /\ \/ sent = 0
              \/ sent = input.bookies[b].max
              \/ sent >= input.minSend /\ sent >= input.bookies[b].min
<1> DEFINE low == AtMinimum(b, share)
<1>1. low \in Nat /\ (low = 0 \/ low >= input.bookies[b].min)
  BY InputType DEF AtMinimum
<1> QED
  BY <1>1, InputType DEF Limited, AtMost

(* Until the first loop is over there is a bookie for it to look at.       *)
AtBookie == pc \in {"start", "shares"} => next \in Bookies

(* The arguments, the loops and the books are well typed after each step.  *)
LEMMA NextTypeOK == TypeOK /\ AtBookie /\ [Next]_vars => TypeOK' /\ AtBookie'
<1> SUFFICES ASSUME TypeOK, AtBookie, [Next]_vars PROVE TypeOK' /\ AtBookie'
  OBVIOUS
<1> USE AllocationAssumption DEF AllocationAssumption
<1>1. CASE Begin
  <2>1. PICK short \in BOOLEAN :
          allocatable' = input.balance - LegAmount(input.balance, input.reserve, 100, short)
    BY <1>1 DEF Begin
  <2>2. allocatable' \in Int /\ remaining' \in Int
    BY <1>1, <2>1, LegAmountType, InputType DEF Begin, TypeOK
  <2>3. pc' \in {"shares", "done"}
    BY <1>1 DEF Begin, TypeOK
  <2> QED
    BY <1>1, <2>2, <2>3 DEF Begin, TypeOK, AtBookie, Bookies
<1>2. CASE GiveShare
  <2>1. next \in Bookies
    BY <1>2 DEF GiveShare, AtBookie
  <2>2. PICK short \in BOOLEAN :
          LET share == LegAmount(allocatable, score[next], SumFunction(score), short)
              sent == Limited(next, AtMinimum(next, share))
          IN  /\ amount' = [amount EXCEPT ![next] = sent]
              /\ remaining' = remaining - sent
              /\ raised' = IF AtMinimum(next, share) > share THEN raised \cup {next}
                                                             ELSE raised
    BY <1>2 DEF GiveShare
  <2>3. PICK sent \in Nat : /\ sent <= input.bookies[next].max
                            /\ amount' = [amount EXCEPT ![next] = sent]
                            /\ remaining' = remaining - sent
    BY <2>1, <2>2, LegAmountType, LimitedType DEF TypeOK
  <2>4. raised' \subseteq Bookies
    BY <2>1, <2>2 DEF TypeOK
  <2>5. next' \in 1 .. N + 1 /\ pc' \in {"shares", "remainder"} /\ AtBookie'
    BY <1>2, <2>1 DEF GiveShare, AtBookie, Bookies
  <2> QED
    BY <1>2, <2>1, <2>3, <2>4, <2>5 DEF GiveShare, TypeOK
<1>3. CASE GiveRemainder
  <2>1. PICK b \in Bookies :
          LET inc == AtMost(Room(b), remaining) IN
          IF inc <= 0
          THEN pc' = "done" /\ UNCHANGED <<amount, remaining, used>>
          ELSE /\ amount' = [amount EXCEPT ![b] = @ + inc]
               /\ remaining' = remaining - inc
               /\ used' = used \cup {b}
               /\ pc' = IF used' = Bookies THEN "done" ELSE pc
    BY <1>3 DEF GiveRemainder
  <2>2. AtMost(Room(b), remaining) \in Int /\ AtMost(Room(b), remaining) <= Room(b)
    BY InputType DEF AtMost, Room, TypeOK
  <2>3. amount' \in [Bookies -> Nat] /\ \A d \in Bookies : amount'[d] <= input.bookies[d].max
    BY <2>1, <2>2, InputType DEF TypeOK, Room
  <2>4. remaining' \in Int /\ used' \subseteq Bookies /\ pc' \in {"remainder", "done"}
    BY <1>3, <2>1, <2>2 DEF TypeOK, GiveRemainder
  <2> QED
    BY <1>3, <2>3, <2>4 DEF GiveRemainder, TypeOK, AtBookie
<1>4. CASE Finish
  BY <1>4 DEF Finish, TypeOK, AtBookie
<1>5. CASE UNCHANGED vars
  BY <1>5 DEF vars, TypeOK, AtBookie
<1> QED
  BY <1>1, <1>2, <1>3, <1>4, <1>5 DEF Next

(* A call starts with nothing given.                                       *)
LEMMA InitTypeOK == Init => TypeOK /\ AtBookie
<1> SUFFICES ASSUME Init PROVE TypeOK /\ AtBookie
  OBVIOUS
<1>1. \A b \in Bookies : 0 <= input.bookies[b].max
  BY InputType DEF Init
<1>2. 1 \in Bookies /\ 1 \in 1 .. N + 1
  BY AllocationAssumption DEF AllocationAssumption, Bookies
<1>3. amount \in [Bookies -> Nat] /\ \A b \in Bookies : amount[b] <= input.bookies[b].max
  BY <1>1 DEF Init
<1>4. DOMAIN score = Bookies
  BY DEF Init
<1> QED
  BY <1>2, <1>3, <1>4 DEF Init, TypeOK, AtBookie

(* Every state of AllocateFunds is well typed and no bookie gets more than *)
(* its maximum, for any bookies, balances and rounding.                    *)
THEOREM TypeCorrect == Spec => []TypeOK
<1>1. Init => TypeOK /\ AtBookie
  BY InitTypeOK
<1>2. (TypeOK /\ AtBookie) /\ [Next]_vars => (TypeOK /\ AtBookie)'
  BY NextTypeOK
<1> QED
  BY <1>1, <1>2, PTL DEF Spec
-----------------------------------------------------------------------------
(* While something remains, nobody has a small amount and all that were    *)
(* given of the remainder are full; before the second loop nobody was.     *)
RestInv ==
    /\ pc \in {"start", "shares"} => used = {}
    /\ remaining > 0 => /\ \A b \in used : Full(b)
                        /\ \A b \in Bookies : ~IsSmall(b)

AllocInv == TypeOK /\ AtBookie /\ RestInv /\ OneSmallAmount /\ RemainderByScore

(* The start sets nothing but the books and the scores: nobody has a small *)
(* amount as nobody was given of the remainder.                            *)
LEMMA BeginInv ==
    ASSUME AllocInv, Begin
    PROVE  RestInv' /\ OneSmallAmount' /\ RemainderByScore'
<1>1. used' = {} /\ used = {} /\ amount' = amount /\ input' = input
  BY DEF Begin, AllocInv, RestInv
<1>2. \A b \in Bookies : ~IsSmall(b)
  BY <1>1 DEF AllocInv, OneSmallAmount
<1>3. \A b \in Bookies : ~IsSmall(b)'
  BY <1>1, <1>2 DEF IsSmall, Full
<1>4. ~(pc' = "done" /\ remaining' > 0)
  <2>1. PICK n \in Int : allocatable' = n
    BY LegAmountType, InputType DEF Begin, AllocInv, TypeOK
  <2> QED  BY <2>1 DEF Begin
<1> QED
  BY <1>1, <1>3, <1>4 DEF RestInv, OneSmallAmount, RemainderByScore

(* The first loop leaves no small amount behind: what it gives is nothing, *)
(* the maximum, or as much as the minimum and minSend.                     *)
LEMMA GiveShareInv ==
    ASSUME AllocInv, GiveShare
    PROVE  RestInv' /\ OneSmallAmount' /\ RemainderByScore'
<1>1. used' = {} /\ used = {} /\ input' = input /\ pc' # "done"
  BY DEF GiveShare, AllocInv, RestInv
<1>2. \A b \in Bookies : ~IsSmall(b)
  BY <1>1 DEF AllocInv, OneSmallAmount
<1>3. next \in Bookies
  BY DEF GiveShare, AllocInv, AtBookie
<1>4. PICK sent \in Nat :
        /\ amount' = [amount EXCEPT ![next] = sent]
        /\ \/ sent = 0
           \/ sent = input.bookies[next].max
           \/ sent >= input.minSend /\ sent >= input.bookies[next].min
  BY <1>3, LegAmountType, LimitedType DEF GiveShare, AllocInv, TypeOK
<1>5. ASSUME NEW b \in Bookies PROVE ~IsSmall(b)'
  <2>1. CASE b = next
    BY <1>1, <1>3, <1>4, <2>1, InputType DEF IsSmall, Full, AllocInv, TypeOK
  <2>2. CASE b # next
    BY <1>1, <1>2, <1>4, <2>2 DEF IsSmall, Full, AllocInv, TypeOK
  <2> QED  BY <2>1, <2>2
<1> QED
  BY <1>1, <1>5 DEF RestInv, OneSmallAmount, RemainderByScore

(* The second loop gives only while something remains, so while all it has *)
(* served are full: the bookie it comes to has no higher one that has room *)
(* left.  It makes that one full too or gives it all that remains.         *)
LEMMA GiveRemainderInv ==
    ASSUME AllocInv, GiveRemainder
    PROVE  RestInv' /\ OneSmallAmount' /\ RemainderByScore'
<1> DEFINE higherAreFull(b) == \A d \in Bookies : score[d] > score[b] => Full(d)
<1>1. /\ TypeOK /\ remaining \in Int /\ remaining > 0
      /\ input' = input /\ score' = score /\ pc = "remainder"
  BY DEF GiveRemainder, AllocInv, TypeOK
<1>2. /\ \A b \in used : Full(b)
      /\ \A b \in Bookies : ~IsSmall(b)
      /\ \A b \in used : higherAreFull(b)
  BY <1>1 DEF AllocInv, RestInv, RemainderByScore
<1>3. PICK b \in Bookies :
        /\ IsTop(b)
        /\ LET inc == AtMost(Room(b), remaining) IN
           IF inc <= 0
           THEN pc' = "done" /\ UNCHANGED <<amount, remaining, used>>
           ELSE /\ amount' = [amount EXCEPT ![b] = @ + inc]
                /\ remaining' = remaining - inc
                /\ used' = used \cup {b}
                /\ pc' = IF used' = Bookies THEN "done" ELSE pc
  BY DEF GiveRemainder
<1>4. b \notin used /\ higherAreFull(b)
  BY <1>2, <1>3 DEF IsTop
<1> DEFINE inc == AtMost(Room(b), remaining)
<1>5. /\ amount[b] \in Nat /\ input.bookies[b].max \in Nat
      /\ amount[b] <= input.bookies[b].max
  BY <1>1, InputType DEF TypeOK
<1>6. CASE inc <= 0
  <2>1. pc' = "done" /\ amount' = amount /\ remaining' = remaining /\ used' = used
    BY <1>3, <1>6
  <2>2. Full(b)
    BY <1>1, <1>5, <1>6 DEF AtMost, Room, Full
  <2>3. \A d \in Bookies : (Full(d)' <=> Full(d)) /\ (IsSmall(d)' <=> IsSmall(d))
    BY <1>1, <2>1 DEF Full, IsSmall
  <2>4. used \subseteq Bookies
    BY <1>1 DEF TypeOK
  <2>5. RestInv' /\ OneSmallAmount'
    BY <1>1, <1>2, <2>1, <2>3, <2>4 DEF RestInv, OneSmallAmount
  <2>6. RemainderByScore'
    BY <1>1, <1>2, <1>4, <2>1, <2>2, <2>3, <2>4 DEF RemainderByScore
  <2> QED  BY <2>5, <2>6
<1>7. CASE ~(inc <= 0)
  <2>1. /\ amount' = [amount EXCEPT ![b] = @ + inc] /\ remaining' = remaining - inc
        /\ used' = used \cup {b} /\ pc' \in {"remainder", "done"}
        /\ pc' = "done" => used' = Bookies
    BY <1>1, <1>3, <1>7
  <2>2. inc \in Int /\ (inc = remaining \/ inc = Room(b))
    BY <1>1, <1>5 DEF AtMost, Room
  <2>3. ~Full(b)
    BY <1>1, <1>5, <1>7 DEF AtMost, Room, Full
  <2>4. \A d \in Bookies : d # b => (Full(d)' <=> Full(d)) /\ (IsSmall(d)' <=> IsSmall(d))
    BY <1>1, <2>1 DEF Full, IsSmall, TypeOK
  <2>5. remaining' = 0 \/ Full(b)'
    BY <1>1, <1>5, <2>1, <2>2 DEF Full, Room, TypeOK
  <2>6. used \subseteq Bookies
    BY <1>1 DEF TypeOK
  <2>7. \A d \in used : Full(d)'
    BY <1>2, <1>4, <2>4, <2>6
  <2>8. RestInv'
    <3>1. remaining' > 0 => Full(b)'
      BY <2>5
    <3>2. Full(b)' => ~IsSmall(b)'
      BY DEF IsSmall
    <3> QED
      BY <1>2, <2>1, <2>4, <2>7, <3>1, <3>2 DEF RestInv
  <2>9. OneSmallAmount'
    <3>1. \A d \in Bookies : IsSmall(d)' => d = b /\ remaining' = 0
      BY <1>2, <2>4, <2>5 DEF IsSmall
    <3> QED  BY <2>1, <3>1 DEF OneSmallAmount
  <2>10. RemainderByScore'
    <3>1. \A e \in used', d \in Bookies : score'[d] > score'[e] => Full(d)'
      BY <1>1, <1>2, <1>4, <2>1, <2>3, <2>4
    <3>2. ASSUME pc' = "done", remaining' > 0
          PROVE  \E e \in Bookies : Full(e)' /\ \A d \in Bookies : score'[d] > score'[e] => Full(d)'
      BY <2>1, <2>5, <3>1, <3>2
    <3> QED  BY <3>1, <3>2 DEF RemainderByScore
  <2> QED  BY <2>8, <2>9, <2>10
<1> QED  BY <1>6, <1>7

(* Every step keeps the invariant; the last only leaves the second loop.   *)
LEMMA NextAllocInv == AllocInv /\ [Next]_vars => AllocInv'
<1> SUFFICES ASSUME AllocInv, [Next]_vars PROVE AllocInv'
  OBVIOUS
<1>1. TypeOK' /\ AtBookie'
  BY NextTypeOK DEF AllocInv
<1>2. RestInv' /\ OneSmallAmount' /\ RemainderByScore'
  <2>1. CASE Finish
    <3>1. UNCHANGED <<input, remaining, score, amount, used>> /\ pc' = "done" /\ ~(remaining > 0)
      BY <2>1 DEF Finish, AllocInv, TypeOK
    <3>2. \A d \in Bookies : (Full(d)' <=> Full(d)) /\ (IsSmall(d)' <=> IsSmall(d))
      BY <3>1 DEF Full, IsSmall
    <3> QED
      BY <3>1, <3>2 DEF AllocInv, RestInv, OneSmallAmount, RemainderByScore
  <2>2. CASE UNCHANGED vars
    <3>1. \A d \in Bookies : (Full(d)' <=> Full(d)) /\ (IsSmall(d)' <=> IsSmall(d))
      BY <2>2 DEF vars, Full, IsSmall
    <3>2. used \subseteq Bookies
      BY DEF AllocInv, TypeOK
    <3> QED
      BY <2>2, <3>1, <3>2 DEF vars, AllocInv, RestInv, OneSmallAmount, RemainderByScore
  <2> QED
    BY <2>1, <2>2, BeginInv, GiveShareInv, GiveRemainderInv DEF Next
<1> QED
  BY <1>1, <1>2 DEF AllocInv

(* The invariant holds of the start.                                       *)
LEMMA InitAllocInv == Init => AllocInv
  BY InitTypeOK DEF Init, AllocInv, RestInv, OneSmallAmount, RemainderByScore, IsSmall

(* Although the second loop checks neither, at most one amount is below    *)
(* the minimum or minSend without being the maximum.                       *)
THEOREM SmallAmountIsLast == Spec => []OneSmallAmount
<1>1. AllocInv => OneSmallAmount
  BY DEF AllocInv
<1> QED
  BY <1>1, InitAllocInv, NextAllocInv, PTL DEF Spec

(* The remainder is given by descending score, whatever the scores.        *)
THEOREM RemainderGoesByScore == Spec => []RemainderByScore
<1>1. AllocInv => RemainderByScore
  BY DEF AllocInv
<1> QED
  BY <1>1, InitAllocInv, NextAllocInv, PTL DEF Spec
-----------------------------------------------------------------------------
(* The budget.  A share is the floor of its part of the allocatable amount *)
(* or, as long as the first loop runs, the minimum it was raised to.       *)
FloorShare(b) == (allocatable * score[b]) \div SumFunction(score)

ScoresAreParts ==
    pc # "start" => score \in [Bookies -> Nat] /\ SumFunction(score) \in Nat \ {0}

SharesInBudget ==
    pc = "shares" =>
        /\ allocatable \in Nat
        /\ \A b \in Bookies : b >= next => b \notin raised /\ amount[b] = 0
        /\ \A b \in Bookies :
             amount[b] <= IF b \in raised THEN input.bookies[b].min ELSE FloorShare(b)

RaisesAreUp ==
    /\ pc = "start" =>
          /\ raised = {} /\ amount = [b \in Bookies |-> 0]
          /\ allocatable = 0 /\ remaining = 0
    /\ \A b \in raised : FloorShare(b) <= input.bookies[b].min

BudgetInv ==
    ScoresAreParts /\ SharesInBudget /\ RaisesAreUp /\ OnlyMinimumsOverspend

LEMMA BookiesAreFinite == IsFiniteSet(Bookies) /\ 1 \in Bookies
  BY AllocationAssumption, FS_Interval DEF AllocationAssumption, Bookies

(* Amounts within their floors, but for some that are raised, exceed the   *)
(* whole by no more than those were raised by.                             *)
LEMMA RaisesBoundExcess ==
    ASSUME NEW S, IsFiniteSet(S), NEW given \in [S -> Nat], NEW part \in [S -> Nat],
           NEW whole \in Nat, SumFunctionOnSet(part, S) \in Nat \ {0},
           NEW floor \in [S -> Nat], NEW R \in SUBSET S, NEW up \in [R -> Int],
           \A x \in S : SumFunctionOnSet(part, S) * floor[x] <= whole * part[x],
           \A x \in S : given[x] <= IF x \in R THEN floor[x] + up[x] ELSE floor[x]
    PROVE  SumFunctionOnSet(given, S) - whole <= SumFunctionOnSet(up, R)
<1> DEFINE ups == [x \in S |-> IF x \in R THEN up[x] ELSE 0]
           bound == [x \in S |-> floor[x] + ups[x]]
<1>1. \A x \in S : /\ floor[x] \in Int /\ ups[x] \in Int /\ bound[x] = floor[x] + ups[x]
                   /\ given[x] \in Int /\ bound[x] \in Int /\ given[x] <= bound[x]
                   /\ x \notin R => ups[x] = 0
  OBVIOUS
<1>2. IsFiniteSet(R) /\ \A x \in R : ups[x] \in Int /\ ups[x] = up[x]
  BY FS_Subset
<1>3. PICK u, b : u = ups /\ b = bound
  OBVIOUS
<1>4. SumFunctionOnSet(given, S) <= SumFunctionOnSet(b, S)
  BY <1>1, <1>3, SumMonotonic
<1>5. SumFunctionOnSet(b, S) = SumFunctionOnSet(floor, S) + SumFunctionOnSet(u, S)
  BY <1>1, <1>3, SumPlus
<1>6. SumFunctionOnSet(u, S) = SumFunctionOnSet(u, R)
  BY <1>1, <1>3, SumOnSubset
<1>7. SumFunctionOnSet(u, R) = SumFunctionOnSet(up, R)
  BY <1>2, <1>3, SumSame
<1>8. SumFunctionOnSet(floor, S) <= whole
  BY SplitIsWithinAmount
<1>9. /\ SumFunctionOnSet(given, S) \in Int /\ SumFunctionOnSet(floor, S) \in Int
      /\ SumFunctionOnSet(u, S) \in Int
  BY <1>1, <1>3, SumIsInt
<1> QED  BY <1>4, <1>5, <1>6, <1>7, <1>8, <1>9

(* Performance and risk are positive in sum.                               *)
LEMMA PerfIsPart ==
    ASSUME input \in Inputs
    PROVE  (\A b \in Bookies : Perf(b) \in Nat) /\ PerfWhole \in Nat \ {0}
<1> DEFINE positive == [i \in Bookies |-> AtLeast(0, input.bookies[i].ret)]
           perf == [b \in Bookies |-> Perf(b)]
<1>1. \A b \in Bookies : input.bookies[b].ret \in Int
  BY AllocationAssumption DEF AllocationAssumption
<1>2. \A b \in Bookies : positive[b] \in Nat
  BY <1>1 DEF AtLeast
<1>3. DOMAIN positive = Bookies /\ DOMAIN perf = Bookies
  OBVIOUS
<1>4. PICK p, q : p = positive /\ q = perf
  OBVIOUS
<1>5. SumFunctionOnSet(p, Bookies) \in Nat
  BY <1>2, <1>4, BookiesAreFinite, SumIsNat
<1>6. SumFunction(positive) = SumFunctionOnSet(p, Bookies) /\ PerfWhole = SumFunctionOnSet(q, Bookies)
  BY <1>3, <1>4 DEF SumFunction, PerfWhole
<1>7. CASE SumFunctionOnSet(p, Bookies) = 0
  <2>1. \A b \in Bookies : Perf(b) = 1
    BY <1>6, <1>7 DEF Perf
  <2>2. \A b \in Bookies : q[b] \in Nat /\ q[b] > 0
    BY <1>4, <2>1
  <2>3. SumFunctionOnSet(q, Bookies) \in Nat \ {0}
    BY <2>2, BookiesAreFinite, SumIsPositive
  <2> QED  BY <1>6, <2>1, <2>3
<1>8. CASE SumFunctionOnSet(p, Bookies) # 0
  <2>1. \A b \in Bookies : Perf(b) = positive[b]
    BY <1>6, <1>8 DEF Perf
  <2>2. q = p
    BY <1>3, <1>4, <2>1
  <2> QED  BY <1>2, <1>5, <1>6, <1>8, <2>1, <2>2
<1> QED  BY <1>7, <1>8

LEMMA RiskIsPart ==
    ASSUME input \in Inputs
    PROVE  (\A b \in Bookies : Risk(b) \in Nat \ {0}) /\ RiskWhole \in Nat \ {0}
<1> DEFINE vol == [i \in Bookies |-> AtLeast(1, input.bookies[i].vol)]
           product == FoldFunction(LAMBDA x, y : x * y, 1, vol)
           risk == [b \in Bookies |-> Risk(b)]
<1>1. \A b \in Bookies : input.bookies[b].vol \in Nat
  BY AllocationAssumption DEF AllocationAssumption
<1>2. vol \in [Bookies -> Nat \ {0}]
  BY <1>1 DEF AtLeast
<1>3. PICK v : v = vol
  OBVIOUS
<1>4. PICK p : p = FoldFunction(LAMBDA x, y : x * y, 1, v)
  OBVIOUS
<1>5. p \in Nat \ {0} /\ \A b \in Bookies : v[b] <= p
  BY <1>2, <1>3, <1>4, BookiesAreFinite, ProductIsPositive
<1>6. \A n \in Nat \ {0} : n <= p => p \div n \in Nat \ {0}
  BY <1>5
<1>7. ASSUME NEW b \in Bookies PROVE Risk(b) \in Nat \ {0}
  <2>1. Risk(b) = p \div v[b]
    BY <1>3, <1>4 DEF Risk
  <2>2. v[b] \in Nat \ {0} /\ v[b] <= p
    BY <1>2, <1>3, <1>5
  <2> QED  BY <1>6, <2>1, <2>2
<1>8. PICK r : r = risk
  OBVIOUS
<1>9. \A b \in Bookies : r[b] \in Nat /\ r[b] > 0
  BY <1>7, <1>8
<1>10. SumFunctionOnSet(r, Bookies) \in Nat \ {0}
  BY <1>9, BookiesAreFinite, SumIsPositive
<1>11. RiskWhole = SumFunctionOnSet(r, Bookies)
  <2>1. DOMAIN risk = Bookies
    OBVIOUS
  <2> QED  BY <1>8, <2>1 DEF RiskWhole, SumFunction
<1> QED  BY <1>7, <1>10, <1>11

(* The scores are parts of a positive whole, whatever beta.                *)
LEMMA ScoreIsPart ==
    ASSUME input \in Inputs, NEW s, s = [b \in Bookies |-> Score(b)]
    PROVE  s \in [Bookies -> Nat] /\ SumFunction(s) \in Nat \ {0}
<1>1. PICK beta \in 0 .. 10 : beta = input.beta
  BY AllocationAssumption DEF AllocationAssumption
<1>2. PICK P \in Nat \ {0}, R \in Nat \ {0} : P = PerfWhole /\ R = RiskWhole
  BY PerfIsPart, RiskIsPart
<1>3. \A x, y \in Nat : x * y \in Nat /\ (x > 0 /\ y > 0 => x * y > 0)
  OBVIOUS
<1>4. ASSUME NEW b \in Bookies
      PROVE  /\ s[b] \in Nat
             /\ beta < 10 \/ Perf(b) > 0 => s[b] > 0
  <2>1. PICK x \in Nat, y \in Nat \ {0} : x = Perf(b) /\ y = Risk(b)
    BY PerfIsPart, RiskIsPart
  <2>2. s[b] = beta * x * R + (10 - beta) * y * P
    BY <1>1, <1>2, <2>1 DEF Score
  <2>3. /\ beta * x \in Nat /\ (beta > 0 /\ x > 0 => beta * x > 0)
        /\ (10 - beta) * y \in Nat /\ (10 - beta > 0 => (10 - beta) * y > 0)
    BY <1>3
  <2>4. PICK m \in Nat, n \in Nat : m = beta * x /\ n = (10 - beta) * y
    BY <2>3
  <2>5. m * R \in Nat /\ n * P \in Nat /\ (m > 0 => m * R > 0) /\ (n > 0 => n * P > 0)
    BY <1>3
  <2>6. s[b] = m * R + n * P
    BY <2>2, <2>4
  <2>7. beta < 10 \/ x > 0 => m > 0 \/ n > 0
    BY <2>3, <2>4
  <2> QED  BY <2>1, <2>5, <2>6, <2>7
<1>5. DOMAIN s = Bookies /\ \A b \in Bookies : s[b] \in Nat
  BY <1>4
<1>6. \E b \in Bookies : s[b] > 0
  <2>1. CASE beta < 10
    BY <1>4, <2>1, BookiesAreFinite
  <2>2. CASE \E b \in Bookies : Perf(b) > 0
    BY <1>4, <2>2
  <2>3. CASE \A b \in Bookies : ~(Perf(b) > 0)
    <3>1. PICK f : f = [b \in Bookies |-> Perf(b)]
      OBVIOUS
    <3>2. \A b \in Bookies : f[b] = 0
      BY <2>3, <3>1, PerfIsPart
    <3>3. SumFunctionOnSet(f, Bookies) = 0
      BY <3>2, BookiesAreFinite, SumZero
    <3>4. PerfWhole = SumFunctionOnSet(f, Bookies)
      BY <3>1 DEF PerfWhole, SumFunction
    <3> QED  BY <1>2, <3>3, <3>4
  <2> QED  BY <2>2, <2>3
<1>7. SumFunctionOnSet(s, Bookies) \in Nat \ {0}
  BY <1>5, <1>6, BookiesAreFinite, SumIsPositive
<1>8. s \in [Bookies -> Nat]
  <2>1. s = [b \in Bookies |-> s[b]]
    OBVIOUS
  <2> QED  BY <1>5, <2>1
<1> QED  BY <1>5, <1>7, <1>8 DEF SumFunction

(* What a bookie was raised by, as OnlyMinimumsOverspend has it.           *)
Raises ==
    [b \in raised |->
       input.bookies[b].min - (allocatable * score[b]) \div SumFunction(score)]

ExcessBound == Planned - AtLeast(0, allocatable) <= SumFunction(Raises)

(* The start gives nobody anything.                                        *)
LEMMA BeginBudget ==
    ASSUME TypeOK, BudgetInv, Begin
    PROVE  BudgetInv'
<1>1. PICK n \in Int : allocatable' = n
  BY LegAmountType, InputType DEF Begin, TypeOK
<1>2. /\ raised = {} /\ raised' = {} /\ input' = input /\ remaining' = n
      /\ amount' = [b \in Bookies |-> 0] /\ pc' \in {"shares", "done"}
      /\ pc' = "shares" => n \in Nat
  BY <1>1 DEF BudgetInv, RaisesAreUp, Begin
<1>3. PICK s : s = [b \in Bookies |-> Score(b)]
  OBVIOUS
<1>4. score' = s
  BY <1>3 DEF Begin
<1>5. s \in [Bookies -> Nat] /\ SumFunction(s) \in Nat \ {0}
  BY <1>3, ScoreIsPart DEF TypeOK
<1>6. ScoresAreParts'
  BY <1>4, <1>5 DEF ScoresAreParts
<1>7. SharesInBudget'
  <2> SUFFICES ASSUME pc' = "shares", NEW b \in Bookies PROVE 0 <= FloorShare(b)'
    BY <1>1, <1>2 DEF SharesInBudget
  <2>1. PICK w \in Nat \ {0} : w = SumFunction(s)
    BY <1>5
  <2>2. (n * s[b]) \div w \in Nat
    BY <1>2, <1>5, LegIsNearShare
  <2> QED  BY <1>1, <1>4, <2>1, <2>2 DEF FloorShare
<1>8. RaisesAreUp'
  BY <1>2 DEF RaisesAreUp
<1>9. OnlyMinimumsOverspend'
  <2>1. PICK given : given = [b \in Bookies |-> 0]
    OBVIOUS
  <2>2. SumFunctionOnSet(given, Bookies) = 0
    BY <2>1, BookiesAreFinite, SumZero
  <2>3. Planned' = 0
    BY <1>2, <2>1, <2>2 DEF Planned, SumFunction
  <2>4. SumFunction(Raises)' = 0
    BY <1>2, SumEmpty DEF Raises, SumFunction
  <2>5. ExcessBound'
    BY <1>1, <2>3, <2>4 DEF ExcessBound, AtLeast
  <2> QED  BY <1>1, <1>2, <2>3, <2>5 DEF OnlyMinimumsOverspend, ExcessBound, Raises
<1> QED  BY <1>6, <1>7, <1>8, <1>9 DEF BudgetInv

(* A share goes over its floor only when it is raised, and what is raised  *)
(* is raised to a minimum at or above the floor.                           *)
LEMMA ShareIsBounded ==
    ASSUME TypeOK, NEW b \in Bookies, NEW share \in Nat, NEW floor \in Nat,
           share <= floor, floor <= share + 1
    PROVE  LET sent == Limited(b, AtMinimum(b, share)) IN
           /\ AtMinimum(b, share) > share =>
                 sent <= input.bookies[b].min /\ floor <= input.bookies[b].min
           /\ ~(AtMinimum(b, share) > share) => sent <= floor
<1>1. PICK low \in Nat, m \in Nat, top \in Nat, least \in Nat :
        /\ low = AtMinimum(b, share) /\ m = input.bookies[b].min
        /\ top = input.bookies[b].max /\ least = input.minSend
  BY InputType DEF TypeOK, AtMinimum
<1>2. low > share => low = m /\ share < m
  BY <1>1 DEF AtMinimum
<1>3. Limited(b, low) <= low
  BY <1>1 DEF Limited, AtMost
<1>4. Limited(b, low) \in Nat
  BY <1>1 DEF Limited, AtMost
<1> QED  BY <1>1, <1>2, <1>3, <1>4

(* The first loop keeps the books and gives floors, or minimums.           *)
LEMMA GiveShareBudget ==
    ASSUME TypeOK, AtBookie, BudgetInv, GiveShare
    PROVE  BudgetInv'
<1>1. /\ next \in Bookies /\ next \in Int /\ next' = next + 1 /\ pc = "shares" /\ pc' # "start"
      /\ UNCHANGED <<input, allocatable, score, used>>
  BY DEF GiveShare, AtBookie, TypeOK
<1>2. PICK w \in Nat \ {0}, n \in Nat : w = SumFunction(score) /\ n = allocatable
  BY <1>1 DEF BudgetInv, ScoresAreParts, SharesInBudget
<1>3. score \in [Bookies -> Nat] /\ amount \in [Bookies -> Nat] /\ raised \subseteq Bookies
  BY <1>1 DEF BudgetInv, ScoresAreParts, TypeOK
<1>4. PICK short \in BOOLEAN :
        LET share == LegAmount(allocatable, score[next], SumFunction(score), short)
            sent == Limited(next, AtMinimum(next, share))
        IN  /\ amount' = [amount EXCEPT ![next] = sent]
            /\ remaining' = remaining - sent
            /\ raised' = IF AtMinimum(next, share) > share THEN raised \cup {next} ELSE raised
  BY DEF GiveShare
<1>5. ASSUME NEW b \in Bookies
      PROVE  FloorShare(b) \in Nat /\ w * FloorShare(b) <= n * score[b]
  BY <1>2, <1>3, LegIsNearShare DEF FloorShare
<1>6. PICK share \in Nat : share = LegAmount(n, score[next], w, short)
  BY LegAmountType
<1>7. share <= FloorShare(next) /\ FloorShare(next) <= share + 1
  BY <1>1, <1>2, <1>3, <1>6, LegIsNearShare DEF FloorShare
<1>8. PICK sent \in Nat : sent = Limited(next, AtMinimum(next, share))
  BY <1>1, LimitedType DEF TypeOK
<1>9. /\ amount' = [amount EXCEPT ![next] = sent] /\ remaining' = remaining - sent
      /\ raised' = IF AtMinimum(next, share) > share THEN raised \cup {next} ELSE raised
  BY <1>2, <1>4, <1>6, <1>8
<1>10. /\ next \in raised' => sent <= input.bookies[next].min
                               /\ FloorShare(next) <= input.bookies[next].min
       /\ next \notin raised' => sent <= FloorShare(next)
  <2>1. next \notin raised
    BY <1>1 DEF BudgetInv, SharesInBudget
  <2>2. FloorShare(next) \in Nat
    BY <1>1, <1>5
  <2> QED  BY <1>1, <1>7, <1>8, <1>9, <2>1, <2>2, ShareIsBounded
<1>11. amount[next] = 0 /\ \A b \in Bookies : b # next => amount'[b] = amount[b]
                                                       /\ (b \in raised' <=> b \in raised)
  BY <1>1, <1>3, <1>9 DEF BudgetInv, SharesInBudget
<1>12. \A b \in Bookies : FloorShare(b)' = FloorShare(b)
  BY <1>1 DEF FloorShare
<1>13. amount' \in [Bookies -> Nat] /\ amount'[next] = sent /\ raised' \subseteq Bookies
  BY <1>1, <1>3, <1>9
<1>14. ASSUME NEW b \in Bookies
       PROVE  amount'[b] <= IF b \in raised' THEN input.bookies[b].min ELSE FloorShare(b)
  <2>1. CASE b = next
    BY <1>10, <1>13, <2>1
  <2>2. CASE b # next
    <3>1. amount[b] <= IF b \in raised THEN input.bookies[b].min ELSE FloorShare(b)
      BY <1>1 DEF BudgetInv, SharesInBudget
    <3> QED  BY <1>11, <2>2, <3>1
  <2> QED  BY <2>1, <2>2
<1>15. ScoresAreParts'
  BY <1>1 DEF BudgetInv, ScoresAreParts
<1>16. SharesInBudget'
  <2>1. \A b \in Bookies : b >= next' => b >= next /\ b # next
    BY <1>1 DEF Bookies
  <2>2. \A b \in Bookies : b >= next' => b \notin raised' /\ amount'[b] = 0
    BY <1>1, <1>11, <2>1 DEF BudgetInv, SharesInBudget
  <2> QED  BY <1>1, <1>2, <1>12, <1>14, <2>2 DEF SharesInBudget
<1>17. \A b \in raised' : FloorShare(b) <= input.bookies[b].min
  BY <1>10, <1>11, <1>13 DEF BudgetInv, RaisesAreUp
<1>18. RaisesAreUp'
  BY <1>1, <1>12, <1>13, <1>17 DEF RaisesAreUp
<1>19. Planned' = Planned + sent /\ Planned \in Int
  <2>1. PICK given : given = [amount EXCEPT ![next] = sent]
    OBVIOUS
  <2>2. SumFunction(given) = SumFunction(amount) - amount[next] + sent /\ SumFunction(amount) \in Int
    <3>1. /\ amount \in [Bookies -> Int] /\ given \in [Bookies -> Int] /\ given[next] = sent
          /\ \A b \in Bookies \ {next} : given[b] = amount[b]
      BY <1>1, <1>3, <2>1
    <3>2. PICK x \in Bookies : x = next
      BY <1>1
    <3>3. SumFunction(given) = SumFunction(amount) - amount[x] + given[x] /\ SumFunction(amount) \in Int
      BY <3>1, <3>2, BookiesAreFinite, SumUpdate
    <3> QED  BY <3>1, <3>2, <3>3
  <2> QED  BY <1>9, <1>11, <2>1, <2>2 DEF Planned
<1>20. ExcessBound'
  <2>1. PICK given, R : given = amount' /\ R = raised'
    OBVIOUS
  <2>2. PICK floor, up :
          /\ floor = [b \in Bookies |-> FloorShare(b)]
          /\ up = [b \in R |-> input.bookies[b].min - FloorShare(b)]
    OBVIOUS
  <2>3. floor \in [Bookies -> Nat] /\ given \in [Bookies -> Nat] /\ R \in SUBSET Bookies
    BY <1>5, <1>13, <2>1, <2>2
  <2>4. ASSUME NEW b \in Bookies PROVE input.bookies[b].min \in Int
    BY InputType DEF TypeOK
  <2>5. up \in [R -> Int] /\ \A b \in R : floor[b] + up[b] = input.bookies[b].min
    BY <1>5, <2>2, <2>3, <2>4
  <2>6. SumFunctionOnSet(score, Bookies) = w
    BY <1>2, <1>3 DEF SumFunction
  <2>7. \A b \in Bookies : SumFunctionOnSet(score, Bookies) * floor[b] <= n * score[b]
    BY <1>5, <2>2, <2>6
  <2>8. \A b \in Bookies : given[b] <= IF b \in R THEN floor[b] + up[b] ELSE floor[b]
    BY <1>14, <2>1, <2>2, <2>5
  <2>9. SumFunctionOnSet(given, Bookies) - n <= SumFunctionOnSet(up, R)
    BY <1>3, <2>3, <2>5, <2>6, <2>7, <2>8, BookiesAreFinite, RaisesBoundExcess
  <2>10. Planned' = SumFunctionOnSet(given, Bookies)
    BY <1>13, <2>1 DEF Planned, SumFunction
  <2>11. Raises' = up
    BY <1>1, <2>1, <2>2 DEF Raises, FloorShare
  <2>12. SumFunction(Raises)' = SumFunctionOnSet(up, R)
    BY <2>2, <2>11 DEF SumFunction
  <2>13. AtLeast(0, allocatable)' = n
    BY <1>1, <1>2 DEF AtLeast
  <2> QED  BY <2>9, <2>10, <2>12, <2>13 DEF ExcessBound
<1>21. Planned + remaining = allocatable /\ remaining \in Int
  BY DEF BudgetInv, OnlyMinimumsOverspend, TypeOK
<1>22. OnlyMinimumsOverspend'
  BY <1>1, <1>2, <1>9, <1>19, <1>20, <1>21 DEF OnlyMinimumsOverspend, ExcessBound, Raises
<1> QED  BY <1>15, <1>16, <1>18, <1>22 DEF BudgetInv

(* The second loop gives no more than remains.                             *)
LEMMA GiveRemainderBudget ==
    ASSUME TypeOK, BudgetInv, GiveRemainder
    PROVE  BudgetInv'
<1>1. PICK b \in Bookies :
        LET inc == AtMost(Room(b), remaining) IN
        IF inc <= 0
        THEN pc' = "done" /\ UNCHANGED <<amount, remaining, used>>
        ELSE /\ amount' = [amount EXCEPT ![b] = @ + inc]
             /\ remaining' = remaining - inc
             /\ used' = used \cup {b}
             /\ pc' = IF used' = Bookies THEN "done" ELSE pc
  BY DEF GiveRemainder
<1>2. /\ pc = "remainder" /\ pc' \in {"remainder", "done"} /\ remaining > 0
      /\ UNCHANGED <<input, allocatable, score, raised>>
  BY <1>1 DEF GiveRemainder
<1>3. PICK inc \in Int : inc = AtMost(Room(b), remaining) /\ inc <= remaining
  BY InputType DEF AtMost, Room, TypeOK
<1>4. Planned + remaining = allocatable /\ remaining \in Int /\ allocatable \in Int
  BY DEF BudgetInv, OnlyMinimumsOverspend, TypeOK
<1>5. amount \in [Bookies -> Int] /\ DOMAIN amount = Bookies
  BY DEF TypeOK
<1>6. Planned \in Int
  <2>1. SumFunctionOnSet(amount, Bookies) \in Int
    BY <1>5, BookiesAreFinite, SumIsInt
  <2> QED  BY <1>5, <2>1 DEF Planned, SumFunction
<1>7. /\ Planned' + remaining' = allocatable'
      /\ Planned' \in Int
      /\ Planned' = Planned \/ Planned' <= allocatable'
  <2>1. CASE inc <= 0
    BY <1>1, <1>2, <1>3, <1>4, <1>6, <2>1 DEF Planned
  <2>2. CASE ~(inc <= 0)
    <3>0. PICK sent \in Int : sent = amount[b] + inc
      BY <1>5
    <3>1. PICK given : given = [amount EXCEPT ![b] = sent]
      OBVIOUS
    <3>2. SumFunction(given) = SumFunction(amount) - amount[b] + sent
      <4>1. /\ given \in [Bookies -> Int] /\ given[b] = sent
            /\ \A d \in Bookies \ {b} : given[d] = amount[d]
        BY <1>5, <3>1
      <4> QED  BY <1>5, <4>1, BookiesAreFinite, SumUpdate
    <3>3. amount' = given /\ remaining' = remaining - inc
      BY <1>1, <1>3, <2>2, <3>0, <3>1
    <3>4. Planned' = Planned + inc
      <4>1. amount[b] \in Int /\ SumFunction(amount) \in Int
        BY <1>5, <1>6 DEF Planned
      <4> QED  BY <3>0, <3>2, <3>3, <4>1 DEF Planned
    <3> QED  BY <1>2, <1>3, <1>4, <1>6, <3>3, <3>4
  <2> QED  BY <2>1, <2>2
<1>8. Raises' = Raises /\ SumFunction(Raises)' = SumFunction(Raises)
  BY <1>2 DEF Raises
<1>9. ExcessBound'
  <2>1. PICK R, up : R = raised /\ up = Raises
    OBVIOUS
  <2>2. IsFiniteSet(R) /\ R \subseteq Bookies
    BY <2>1, BookiesAreFinite, FS_Subset DEF TypeOK
  <2>3. ASSUME NEW d \in R PROVE up[d] \in Nat
    <3>1. PICK w \in Nat \ {0} : w = SumFunction(score)
      BY <1>2 DEF BudgetInv, ScoresAreParts
    <3>2. score[d] \in Nat /\ input.bookies[d].min \in Int
      BY <1>2, <2>2, InputType DEF BudgetInv, ScoresAreParts, TypeOK
    <3>3. FloorShare(d) \in Int
      <4>1. \A x \in Int : x \div w \in Int
        OBVIOUS
      <4>2. allocatable * score[d] \in Int
        BY <1>4, <3>2
      <4> QED  BY <3>1, <4>1, <4>2 DEF FloorShare
    <3>4. FloorShare(d) <= input.bookies[d].min
      BY <2>1 DEF BudgetInv, RaisesAreUp
    <3>5. up[d] = input.bookies[d].min - FloorShare(d)
      BY <2>1 DEF Raises, FloorShare
    <3> QED  BY <3>2, <3>3, <3>4, <3>5
  <2>4. SumFunctionOnSet(up, R) \in Nat
    BY <2>2, <2>3, SumIsNat
  <2>5. SumFunction(Raises) = SumFunctionOnSet(up, R)
    BY <2>1 DEF Raises, SumFunction
  <2>6. CASE Planned' = Planned
    BY <1>2, <1>8, <2>6 DEF BudgetInv, OnlyMinimumsOverspend, ExcessBound, Raises, AtLeast
  <2>7. CASE Planned' <= allocatable'
    BY <1>2, <1>4, <1>7, <1>8, <2>4, <2>5, <2>7 DEF ExcessBound, AtLeast
  <2> QED  BY <1>7, <2>6, <2>7
<1>10. OnlyMinimumsOverspend'
  BY <1>7, <1>9 DEF OnlyMinimumsOverspend, ExcessBound, Raises
<1>11. ScoresAreParts' /\ SharesInBudget' /\ RaisesAreUp'
  <2>1. \A d \in raised : FloorShare(d)' = FloorShare(d)
    BY <1>2 DEF FloorShare
  <2> QED  BY <1>2, <2>1 DEF BudgetInv, ScoresAreParts, SharesInBudget, RaisesAreUp
<1> QED  BY <1>10, <1>11 DEF BudgetInv

LEMMA InitBudgetInv == Init => BudgetInv
<1> SUFFICES ASSUME Init PROVE BudgetInv
  OBVIOUS
<1>1. Planned = 0
  <2>1. \A b \in Bookies : amount[b] = 0
    BY DEF Init
  <2>2. SumFunctionOnSet(amount, Bookies) = 0
    BY <2>1, BookiesAreFinite, SumZero
  <2> QED  BY <2>2 DEF Init, Planned, SumFunction
<1>2. SumFunction(Raises) = 0
  BY SumEmpty DEF Init, Raises, SumFunction
<1>3. OnlyMinimumsOverspend
  BY <1>1, <1>2 DEF Init, OnlyMinimumsOverspend, Raises, AtLeast
<1> QED  BY <1>3 DEF Init, BudgetInv, ScoresAreParts, SharesInBudget, RaisesAreUp

(* For any bookies, balances, reserves and rounding the books of the loops *)
(* agree, and the plan exceeds what may be allocated by no more than what  *)
(* shares were raised by to a minimum.                                     *)
THEOREM MinimumsBoundOverspend == Spec => []OnlyMinimumsOverspend
<1> DEFINE Inv == TypeOK /\ AtBookie /\ BudgetInv
<1>1. Init => Inv
  BY InitTypeOK, InitBudgetInv
<1>2. Inv /\ [Next]_vars => Inv'
  <2> SUFFICES ASSUME Inv, [Next]_vars PROVE BudgetInv'
    BY NextTypeOK
  <2>1. CASE Finish \/ UNCHANGED vars
    <3>1. /\ UNCHANGED <<input, next, allocatable, remaining, score, amount, raised>>
          /\ \/ pc' = pc
             \/ pc' = "done" /\ pc # "start"
      <4>1. CASE Finish
        BY <4>1 DEF Finish
      <4>2. CASE UNCHANGED vars
        BY <4>2 DEF vars
      <4> QED  BY <2>1, <4>1, <4>2
    <3>2. \A b : FloorShare(b)' = FloorShare(b)
      BY <3>1 DEF FloorShare
    <3>3. Planned' = Planned
      BY <3>1 DEF Planned
    <3>4. OnlyMinimumsOverspend'
      BY <3>1, <3>3 DEF BudgetInv, OnlyMinimumsOverspend, AtLeast
    <3> QED
      BY <3>1, <3>2, <3>4 DEF BudgetInv, ScoresAreParts, SharesInBudget, RaisesAreUp
  <2> QED
    BY <2>1, BeginBudget, GiveShareBudget, GiveRemainderBudget DEF Next
<1>3. Inv => OnlyMinimumsOverspend
  BY DEF BudgetInv
<1> QED
  BY <1>1, <1>2, <1>3, PTL DEF Spec
=============================================================================
