----------------------------- MODULE ThrottleProofs -----------------------------
(* The token bucket keeps its promises for every capacity, rate and cost.  *)
EXTENDS Throttle, TLAPS

IInv == TypeOK /\ WindowBound /\ Budget

(* Units add up over adjacent stretches of time.                           *)
LEMMA Adjacent ==
  ASSUME NEW a \in Int, NEW b \in Int, NEW c \in Int, NEW r \in Int
  PROVE  (b - a) * r + (c - b) * r = (c - a) * r
  BY SMT

(* A refill never takes units away, fills the bucket at most, and adds no  *)
(* more than what the clock brought.                                       *)
LEMMA RefillBounds ==
  ASSUME TypeOK
  PROVE  /\ Refilled \in 0 .. Capacity
         /\ tokens <= Refilled
         /\ Refilled <= tokens + (now - last_refill) * Rate
<1> DEFINE added == (now - last_refill) * Rate
<1>1. tokens \in 0 .. Capacity /\ now - last_refill \in Nat
  BY DEF TypeOK
<1>2. added \in Nat
  BY <1>1, BucketAssumption, SMT
<1>3. Refilled = IF Capacity <= tokens + added THEN Capacity ELSE tokens + added
  BY DEF Refilled, Least
<1> HIDE DEF added
<1>4. CASE Capacity <= tokens + added
  BY <1>1, <1>2, <1>3, <1>4, BucketAssumption DEF added
<1>5. CASE ~ Capacity <= tokens + added
  BY <1>1, <1>2, <1>3, <1>5, BucketAssumption DEF added
<1> QED
  BY <1>4, <1>5

LEMMA InitIInv == Init => IInv
<1> SUFFICES ASSUME Init PROVE IInv
  OBVIOUS
<1>1. TypeOK
  BY BucketAssumption, HorizonAssumption DEF Init, TypeOK, None
<1>2. DOMAIN passed = {}
  BY DEF Init
<1> QED
  BY <1>1, <1>2 DEF IInv, WindowBound, Budget

(* The messages that passed so far, and the one that passes now, stay      *)
(* within the budget of every earlier one.                                 *)
LEMMA PassStep == ASSUME IInv, Pass PROVE IInv'
<1> USE DEF IInv
<1>1. /\ Refilled \in 0 .. Capacity
      /\ Refilled <= tokens + (now - last_refill) * Rate
  BY RefillBounds
<1>2. /\ tokens' = Refilled - Cost /\ Cost <= Refilled
      /\ last_refill' = now /\ now' = now /\ promise' = None
      /\ passed' = Append(passed, now)
  BY DEF Pass
<1>3. /\ now \in Nat /\ last_refill \in 0 .. now /\ passed \in Seq(Nat)
      /\ tokens \in 0 .. Capacity /\ Len(passed) \in Nat
      /\ Capacity \in Nat /\ Rate \in Nat /\ Cost \in Nat
  BY BucketAssumption DEF TypeOK
<1>4. /\ Len(passed') = Len(passed) + 1
      /\ DOMAIN passed' = 1 .. Len(passed) + 1
      /\ passed'[Len(passed) + 1] = now
      /\ \A i \in 1 .. Len(passed) : passed'[i] = passed[i] /\ passed[i] \in Nat
      /\ passed' \in Seq(Nat)
  BY <1>2, <1>3
<1>5. TypeOK'
  BY <1>1, <1>2, <1>3, <1>4 DEF TypeOK, None
<1>6. Budget'
  <2> SUFFICES ASSUME NEW i \in 1 .. Len(passed) + 1
               PROVE  /\ passed'[i] <= now
                      /\ (Len(passed) + 1 - i + 1) * Cost + (Refilled - Cost)
                           <= Capacity + (now - passed'[i]) * Rate
    BY <1>2, <1>4 DEF Budget
  <2>1. CASE i = Len(passed) + 1
    <3>1. Len(passed) + 1 - i + 1 = 1 /\ now - passed'[i] = 0
      BY <2>1, <1>3, <1>4
    <3>2. 1 * Cost + (Refilled - Cost) <= Capacity + 0 * Rate
      BY <1>1, <1>3
    <3> QED
      BY <2>1, <3>1, <3>2, <1>3, <1>4
  <2>2. CASE i \in 1 .. Len(passed)
    <3> DEFINE spent == (Len(passed) - i + 1) * Cost
               since == (last_refill - passed[i]) * Rate
               added == (now - last_refill) * Rate
    <3>1. passed[i] <= last_refill /\ spent + tokens <= Capacity + since
      BY <2>2, <1>3 DEF Budget
    <3>2. passed[i] \in Nat /\ passed'[i] = passed[i]
      BY <2>2, <1>4
    <3>3. since + added = (now - passed[i]) * Rate
      BY <3>2, <1>3, Adjacent
    <3>4. (Len(passed) + 1 - i + 1) * Cost = spent + Cost
      BY <2>2, <1>3
    <3>5. spent \in Int /\ since \in Int /\ added \in Int
      BY <2>2, <1>3, <3>2
    <3>6. Refilled <= tokens + added
      BY <1>1
    <3> HIDE DEF spent, since, added
    <3>7. spent + Cost + (Refilled - Cost) <= Capacity + (since + added)
      BY <3>1, <3>5, <3>6, <1>1, <1>3
    <3>8. Refilled - Cost \in Int /\ passed[i] <= now
      BY <3>1, <3>2, <1>1, <1>3
    <3>9. (Len(passed) + 1 - i + 1) * Cost + (Refilled - Cost)
            <= Capacity + (now - passed[i]) * Rate
      BY <3>3, <3>4, <3>7
    <3> QED
      BY <3>2, <3>8, <3>9
  <2> QED
    BY <2>1, <2>2, <1>3
<1>7. WindowBound'
  <2> SUFFICES ASSUME NEW j \in 1 .. Len(passed) + 1, NEW i \in 1 .. j
               PROVE  (j - i + 1) * Cost <= Capacity + (passed'[j] - passed'[i]) * Rate
    BY <1>4 DEF WindowBound
  <2>1. CASE j \in 1 .. Len(passed)
    <3>1. i \in 1 .. Len(passed) /\ passed'[i] = passed[i] /\ passed'[j] = passed[j]
      BY <2>1, <1>3, <1>4
    <3>2. j \in DOMAIN passed
      BY <2>1, <1>3
    <3>3. (j - i + 1) * Cost <= Capacity + (passed[j] - passed[i]) * Rate
      BY <3>2 DEF WindowBound
    <3> QED
      BY <3>1, <3>3
  <2>2. CASE j = Len(passed) + 1
    <3> DEFINE taken == (j - i + 1) * Cost
               income == (now - passed'[i]) * Rate
    <3>1. taken + (Refilled - Cost) <= Capacity + income
      BY <1>2, <1>4, <1>6, <2>2 DEF Budget
    <3>2. taken \in Int /\ income \in Int /\ Refilled - Cost >= 0
      <4>1. passed'[i] \in Nat
        BY <2>2, <1>3, <1>4
      <4> QED
        BY <4>1, <1>1, <1>2, <1>3
    <3>3. passed'[j] = now
      BY <2>2, <1>4
    <3> HIDE DEF taken, income
    <3>4. taken <= Capacity + income
      BY <3>1, <3>2, <1>1, <1>3
    <3> QED
      BY <3>3, <3>4 DEF taken, income
  <2> QED
    BY <2>1, <2>2, <1>3
<1> QED
  BY <1>5, <1>6, <1>7

(* A refused message only brings the refill up to date.                    *)
LEMMA DropStep == ASSUME IInv, Drop PROVE IInv'
<1> USE DEF IInv
<1>1. /\ Refilled \in 0 .. Capacity
      /\ Refilled <= tokens + (now - last_refill) * Rate
  BY RefillBounds
<1>2. /\ tokens' = Refilled /\ last_refill' = now /\ now' = now
      /\ passed' = passed /\ promise' = now + Wait(Cost - Refilled)
      /\ Refilled < Cost
  BY DEF Drop
<1>3. /\ now \in Nat /\ last_refill \in 0 .. now /\ passed \in Seq(Nat)
      /\ tokens \in 0 .. Capacity /\ Len(passed) \in Nat
      /\ Capacity \in Nat /\ Rate \in Nat \ {0} /\ Cost \in Nat
  BY BucketAssumption DEF TypeOK
<1>4. Wait(Cost - Refilled) \in Nat
  <2>1. Cost - Refilled + Rate - 1 \in Nat
    BY <1>1, <1>2, <1>3
  <2> QED
    BY <2>1, <1>3 DEF Wait
<1>5. TypeOK'
  BY <1>1, <1>2, <1>3, <1>4 DEF TypeOK
<1>6. Budget'
  <2> SUFFICES ASSUME NEW i \in DOMAIN passed
               PROVE  /\ passed[i] <= now
                      /\ (Len(passed) - i + 1) * Cost + Refilled
                           <= Capacity + (now - passed[i]) * Rate
    BY <1>2 DEF Budget
  <2> DEFINE spent == (Len(passed) - i + 1) * Cost
             since == (last_refill - passed[i]) * Rate
             added == (now - last_refill) * Rate
  <2>1. passed[i] <= last_refill /\ spent + tokens <= Capacity + since
    BY DEF Budget
  <2>2. passed[i] \in Nat /\ i \in Int
    BY <1>3
  <2>3. since + added = (now - passed[i]) * Rate
    BY <2>2, <1>3, Adjacent
  <2>4. spent \in Int /\ since \in Int /\ added \in Int
    BY <2>2, <1>3
  <2>5. Refilled <= tokens + added
    BY <1>1
  <2> HIDE DEF spent, since, added
  <2>6. spent + Refilled <= Capacity + (since + added)
    BY <2>1, <2>4, <2>5, <1>1, <1>3
  <2> QED
    BY <2>1, <2>2, <2>3, <2>6, <1>3 DEF spent
<1>7. WindowBound'
  BY <1>2 DEF WindowBound
<1> QED
  BY <1>5, <1>6, <1>7

LEMMA NextIInv == IInv /\ [Next]_vars => IInv'
<1> SUFFICES ASSUME IInv, [Next]_vars PROVE IInv'
  OBVIOUS
<1>1. CASE Tick
  BY <1>1 DEF IInv, Tick, bucket, TypeOK, WindowBound, Budget
<1>2. CASE Pass
  BY <1>2, PassStep
<1>3. CASE Drop
  BY <1>3, DropStep
<1>4. CASE UNCHANGED vars
  BY <1>4 DEF IInv, vars, bucket, TypeOK, WindowBound, Budget
<1> QED
  BY <1>1, <1>2, <1>3, <1>4 DEF Next

(* The inductive invariant of the bucket holds in every run.               *)
THEOREM BucketInvariant == Spec => []IInv
  BY InitIInv, NextIInv, PTL DEF Spec

(* The bucket never goes into debt and never overflows (throttle.py:43-62). *)
THEOREM BucketTypeCorrect == Spec => []TypeOK
<1>1. IInv => TypeOK
  BY DEF IInv
<1> QED
  BY <1>1, BucketInvariant, PTL

(* For every capacity, rate and cost, no window of time lets through more  *)
(* messages than the burst and the rate allow.                             *)
THEOREM RateLimited == Spec => []WindowBound
<1>1. IInv => WindowBound
  BY DEF IInv
<1> QED
  BY <1>1, BucketInvariant, PTL

(* What was let through since any earlier message, together with what is   *)
(* left in the bucket, was paid by a full bucket and the clock.            *)
THEOREM SpendingCovered == Spec => []Budget
<1>1. IInv => Budget
  BY DEF IInv
<1> QED
  BY <1>1, BucketInvariant, PTL
--------------------------------------------------------------------------------
(* Why WaitSuffices holds: the bucket and the clock up to the promised     *)
(* time make up the price of a message.                                    *)
Kept ==
  promise # None =>
    promise >= last_refill /\ Cost <= tokens + (promise - last_refill) * Rate

(* Rounding up: as many ticks as wait_time says bring the missing units.   *)
LEMMA WaitIsEnough ==
  ASSUME NEW n \in Nat
  PROVE  Wait(n) \in Nat /\ n <= Wait(n) * Rate
<1>1. Rate \in Nat \ {0} /\ n + Rate - 1 \in Nat
  BY BucketAssumption
<1>2. /\ (n + Rate - 1) \div Rate \in Nat
      /\ n + Rate - 1 = Rate * ((n + Rate - 1) \div Rate) + ((n + Rate - 1) % Rate)
      /\ (n + Rate - 1) % Rate \in 0 .. Rate - 1
  BY <1>1, SMTT(30)
<1> QED
  BY <1>1, <1>2 DEF Wait

LEMMA InitKept == Init => Kept
  BY DEF Init, Kept

LEMMA NextKept == IInv /\ Kept /\ [Next]_vars => Kept'
<1> SUFFICES ASSUME IInv, Kept, [Next]_vars PROVE Kept'
  OBVIOUS
<1>1. CASE Tick
  BY <1>1 DEF Tick, bucket, Kept
<1>2. CASE Pass
  BY <1>2 DEF Pass, Kept
<1>3. CASE Drop
  <2>1. Refilled \in 0 .. Capacity /\ Refilled < Cost
    BY <1>3, RefillBounds DEF Drop, IInv
  <2> DEFINE n == Cost - Refilled
  <2>2. n \in Nat /\ n + Refilled = Cost
    BY <2>1, BucketAssumption
  <2>3. Wait(n) \in Nat /\ n <= Wait(n) * Rate
    BY <2>2, WaitIsEnough
  <2>4. now \in Nat /\ Rate \in Nat
    BY BucketAssumption DEF IInv, TypeOK
  <2>5. tokens' = Refilled /\ last_refill' = now /\ promise' = now + Wait(n)
    BY <1>3 DEF Drop
  <2> HIDE DEF n
  <2>6. promise' - last_refill' = Wait(n) /\ promise' >= last_refill'
    BY <2>3, <2>4, <2>5
  <2>7. Wait(n) * Rate \in Nat
    BY <2>3, <2>4
  <2>8. Cost <= Refilled + Wait(n) * Rate
    BY <2>1, <2>2, <2>3, <2>7
  <2> QED
    BY <2>5, <2>6, <2>8 DEF Kept
<1>4. CASE UNCHANGED vars
  BY <1>4 DEF vars, bucket, Kept
<1> QED
  BY <1>1, <1>2, <1>3, <1>4 DEF Next

LEMMA KeptSuffices == IInv /\ Kept => WaitSuffices
<1> SUFFICES ASSUME IInv, Kept, promise # None, now >= promise
             PROVE  Refilled >= Cost
  BY DEF WaitSuffices
<1>1. /\ promise \in Nat /\ now \in Nat /\ last_refill \in 0 .. now
      /\ tokens \in 0 .. Capacity /\ Rate \in Nat /\ Cost \in Nat
      /\ Capacity \in Nat /\ Cost <= Capacity
  BY BucketAssumption DEF IInv, TypeOK
<1> DEFINE early == (promise - last_refill) * Rate
           late  == (now - last_refill) * Rate
<1>2. Cost <= tokens + early
  BY DEF Kept
<1>3. (now - promise) * Rate \in Nat
  BY <1>1
<1>4. early + (now - promise) * Rate = late
  BY <1>1, Adjacent
<1>5. early \in Int /\ late \in Int
  BY <1>1
<1>6. Refilled = IF Capacity <= tokens + late THEN Capacity ELSE tokens + late
  BY DEF Refilled, Least
<1> HIDE DEF early, late
<1>7. Cost <= tokens + late
  BY <1>1, <1>2, <1>3, <1>4, <1>5
<1> QED
  BY <1>1, <1>5, <1>6, <1>7

(* For every capacity, rate and cost, the wait_time of a refusal is long   *)
(* enough.                                                                 *)
THEOREM WaitIsHonest == Spec => []WaitSuffices
  BY InitIInv, NextIInv, InitKept, NextKept, KeptSuffices, PTL DEF Spec
================================================================================
