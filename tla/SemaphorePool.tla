------------------------------ MODULE SemaphorePool ------------------------------
(***************************************************************************)
(* The process-wide pool of permits that start_stream of every group goes  *)
(* through: SemaphorePool, its context manager and the asyncio.Semaphore   *)
(* under it, which hands a freed permit to the task that waits longest.    *)
(* stream_engine.py:78 is taken with its await (see AcquireAwaited in      *)
(* StreamTasks).  A start is cancelled when another task stops the         *)
(* watchdog of the group whose monitor does the start.                     *)
(***************************************************************************)
EXTENDS Integers, FiniteSets, Sequences, SequencesExt

CONSTANTS Group, MaxStreams

ASSUME MaxStreamsAssumption == MaxStreams \in Nat \ {0}

VARIABLES value,         \* Semaphore._value
          waiters,       \* Semaphore._waiters: groups queued for a permit
          active_count,  \* SemaphorePool._active_count
          at             \* where start_stream of the group is

vars == <<value, waiters, active_count, at>>

Places == {"out", "waiting", "granted", "inside"}

Init ==
  /\ value = MaxStreams
  /\ waiters = <<>>
  /\ active_count = 0
  /\ at = [g \in Group |-> "out"]

\* The first n of the queued groups get a permit each of the `free` ones;
\* `places` and `queued` are without the group that leaves or enters.
Grant(n, free, places, queued) ==
  /\ value' = free - n
  /\ waiters' = SubSeq(queued, n + 1, Len(queued))
  /\ at' = [h \in Group |-> IF h \in ToSet(SubSeq(queued, 1, n)) THEN "granted" ELSE places[h]]

\* Semaphore.release wakes one; acquire, when its wait ends, as many as it can.
WakeOne(free, places, queued) == Grant(Min({1, Len(queued)}), free, places, queued)
WakeAll(free, places, queued) == Grant(Min({free, Len(queued)}), free, places, queued)

\* Faulty variant: the permits are not limited.
StartUnchecked(g) ==
  /\ at[g] = "out"
  /\ value' = value - 1
  /\ active_count' = active_count + 1
  /\ at' = [at EXCEPT ![g] = "inside"]
  /\ UNCHANGED waiters

\* Semaphore.locked: also while a task that was granted a permit has not run.
Locked == value = 0 \/ \E h \in Group : at[h] \in {"waiting", "granted"}

\* __aenter__
Start(g) ==
  /\ at[g] = "out"
  /\ IF ~ Locked
     THEN /\ value' = value - 1
          /\ active_count' = active_count + 1
          /\ at' = [at EXCEPT ![g] = "inside"]
          /\ UNCHANGED waiters
     ELSE /\ waiters' = Append(waiters, g)
          /\ at' = [at EXCEPT ![g] = "waiting"]
          /\ UNCHANGED <<value, active_count>>

\* The task that got the permit runs again and is counted.
Enter(g) ==
  /\ at[g] = "granted"
  /\ WakeAll(value, [at EXCEPT ![g] = "inside"], waiters)
  /\ active_count' = active_count + 1

\* Faulty variants: a start is not counted down; the permit is kept.
LeaveUncounted(g) ==
  /\ at[g] = "inside"
  /\ WakeOne(value + 1, [at EXCEPT ![g] = "out"], waiters)
  /\ UNCHANGED active_count
LeaveHolding(g) ==
  /\ at[g] = "inside"
  /\ at' = [at EXCEPT ![g] = "out"]
  /\ UNCHANGED <<value, waiters>>
  /\ active_count' = active_count - 1

\* __aexit__: start_stream is over, with or without a stream.
Leave(g) ==
  /\ at[g] = "inside"
  /\ WakeOne(value + 1, [at EXCEPT ![g] = "out"], waiters)
  /\ active_count' = IF active_count > 0 THEN active_count - 1 ELSE 0

\* A cancelled waiter leaves the queue, or gives back what it was granted.
CancelWait(g) ==
  /\ \/ /\ at[g] = "waiting"
        /\ \E i \in DOMAIN waiters :
             /\ waiters[i] = g
             /\ WakeAll(value, [at EXCEPT ![g] = "out"], RemoveAt(waiters, i))
     \/ /\ at[g] = "granted"
        /\ WakeAll(value + 1, [at EXCEPT ![g] = "out"], waiters)
  /\ UNCHANGED active_count

Next ==
  \E g \in Group :
    Start(g) \/ Enter(g) \/ CancelWait(g) \/ Leave(g)

\* start_stream's body ends: every operation in it returns, fails or is cut off.
Spec ==
  /\ Init /\ [][Next]_vars
  /\ \A g \in Group : WF_vars(Enter(g)) /\ WF_vars(Leave(g))
----------------------------------------------------------------------------------
(* Every variable stays in its range. *)
TypeOK ==
  /\ value \in 0 .. MaxStreams
  /\ waiters \in Seq(Group)
  /\ active_count \in 0 .. MaxStreams
  /\ at \in [Group -> Places]

AtPlaces(S) == {g \in Group : at[g] \in S}

(* No permit is lost or made up, whichever way a start ends: each is free, *)
(* on its way to a task, or held by a start, and active_count counts the   *)
(* latter although it is kept apart from the semaphore and clipped at 0    *)
(* (semaphore_pool.py:60-66, 86-108).                                      *)
Balanced ==
  /\ value + Cardinality(AtPlaces({"granted", "inside"})) = MaxStreams
  /\ active_count = Cardinality(AtPlaces({"inside"}))

(* A start that has to wait gets its permit, unless it is cancelled: the   *)
(* queue is first come, first served.                                      *)
EveryStartEnters == \A g \in Group : at[g] = "waiting" ~> at[g] # "waiting"
==================================================================================
