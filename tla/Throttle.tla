-------------------------------- MODULE Throttle --------------------------------
(***************************************************************************)
(* MessageThrottle and its AsyncTokenBucket for one group: the middleware  *)
(* keeps a bucket per chat and the buckets share nothing.  Time and tokens *)
(* are integers: a token is Cost units, and a tick of the clock adds Rate  *)
(* units.  The code's 20 a minute and burst of 5 are Cost = 3, Rate = 1    *)
(* and Capacity = 15 with a tick of one second.                            *)
(*                                                                         *)
(* consume runs under a lock and awaits nothing inside it, so a message is *)
(* one step.  Rounding of the floats is not modelled.                      *)
(***************************************************************************)
EXTENDS Integers, Sequences

CONSTANTS Capacity,  \* units in a full bucket
          Rate,      \* units added per tick
          Cost,      \* units a message takes
          Horizon    \* bound: the clock stops here

ASSUME BucketAssumption ==
  /\ Capacity \in Nat /\ Rate \in Nat \ {0} /\ Cost \in Nat \ {0}
  /\ Cost <= Capacity
ASSUME HorizonAssumption == Horizon \in Nat

VARIABLES tokens,       \* units at the time of the last refill
          last_refill,
          now           \* time.monotonic()

\* History variables, read by the properties only.
VARIABLES passed,       \* times of the messages handed to a handler
          promise       \* when the last refusal said a message would pass

None == -1

bucket == <<tokens, last_refill>>
vars   == <<bucket, now, passed, promise>>

Least(a, b) == IF a <= b THEN a ELSE b

Init ==
  /\ tokens = Capacity
  /\ now \in 0 .. Horizon
  /\ last_refill = now
  /\ passed = <<>>
  /\ promise = None
--------------------------------------------------------------------------------
Tick ==
  /\ now < Horizon
  /\ now' = now + 1
  /\ UNCHANGED <<bucket, passed, promise>>

\* Faulty variant: the capacity does not cap the refill.
RefilledUncapped == tokens + (now - last_refill) * Rate

\* What _refill leaves in the bucket.
Refilled == Least(Capacity, tokens + (now - last_refill) * Rate)

\* Faulty variant: the wait is rounded down.
WaitRoundedDown(needed) == needed \div Rate

\* wait_time = tokens_needed / refill_rate, in whole ticks.
Wait(needed) == (needed + Rate - 1) \div Rate

\* Faulty variants: the tokens are not compared with the price; last_refill
\* stays behind.
PassAlways ==
  /\ tokens' = Refilled - Cost
  /\ last_refill' = now
  /\ passed' = Append(passed, now)
  /\ promise' = None
  /\ UNCHANGED now
PassForgetsTime ==
  /\ Refilled >= Cost
  /\ tokens' = Refilled - Cost
  /\ passed' = Append(passed, now)
  /\ promise' = None
  /\ UNCHANGED <<last_refill, now>>

Pass ==
  /\ Refilled >= Cost
  /\ tokens' = Refilled - Cost
  /\ last_refill' = now
  /\ passed' = Append(passed, now)
  /\ promise' = None
  /\ UNCHANGED now

Drop ==
  /\ Refilled < Cost
  /\ tokens' = Refilled
  /\ last_refill' = now
  /\ promise' = now + Wait(Cost - Refilled)
  /\ UNCHANGED <<now, passed>>

Next == Tick \/ Pass \/ Drop

Spec == Init /\ [][Next]_vars
--------------------------------------------------------------------------------
(* The bucket holds no debt and no more than its capacity; the clock never *)
(* runs behind the last refill.                                            *)
TypeOK ==
  /\ tokens \in 0 .. Capacity
  /\ now \in Nat /\ last_refill \in 0 .. now
  /\ passed \in Seq(Nat)
  /\ promise \in Nat \cup {None}

(* In every window of time the group gets a burst and the rate at most: n  *)
(* messages between the i-th and the j-th take no more units than a full   *)
(* bucket and what the clock added between the two (throttle.py:43-62).    *)
WindowBound ==
  \A j \in DOMAIN passed : \A i \in 1 .. j :
    (j - i + 1) * Cost <= Capacity + (passed[j] - passed[i]) * Rate

(* Why WindowBound holds: what was spent since the i-th message and what   *)
(* is still in the bucket came from a full bucket and the clock.           *)
Budget ==
  \A i \in DOMAIN passed :
    /\ passed[i] <= last_refill
    /\ (Len(passed) - i + 1) * Cost + tokens
         <= Capacity + (last_refill - passed[i]) * Rate

(* The wait_time of the last refusal is long enough: once it has passed,   *)
(* the bucket pays for a message, although the refusal itself moved        *)
(* last_refill (throttle.py:49, 65-67).                                    *)
WaitSuffices == promise # None /\ now >= promise => Refilled >= Cost
================================================================================
