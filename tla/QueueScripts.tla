----------------------------- MODULE QueueScripts -----------------------------
(***************************************************************************)
(* The two Redis lists of one group and the Lua scripts that change them.  *)
(* Redis runs a script as one step, so each script is one action.  The     *)
(* promote script is never registered (queue_manager.py:50-54) and is not  *)
(* here.                                                                   *)
(***************************************************************************)
EXTENDS Sequences, SequencesExt

VARIABLES queue,   \* list queue:{group}, index 1 is the LEFT end
          shadow   \* list of delivered tracks, index 1 is the LEFT end

lists == <<queue, shadow>>

\* Redis LREM s 1 e: the first e from the LEFT goes; without an e, nothing.
LREM(s, e) ==
  IF e \in ToSet(s) THEN RemoveAt(s, Min({i \in DOMAIN s : s[i] = e})) ELSE s

\* Faulty variant: LPUSH.
EnqueueAtHead(t) == queue' = <<t>> \o queue /\ UNCHANGED shadow

EnqueueScript(t) == queue' = Append(queue, t) /\ UNCHANGED shadow

\* Faulty variant: LINDEX, so that the track stays listed.
DequeueWithoutPop == UNCHANGED queue /\ shadow' = <<Head(queue)>> \o shadow

\* LMOVE queue shadow LEFT LEFT
DequeueScript == queue' = Tail(queue) /\ shadow' = <<Head(queue)>> \o shadow

AckScript(t) == shadow' = LREM(shadow, t) /\ UNCHANGED queue

\* Faulty variants: the result of LREM is not tested; it is pushed in place of
\* the track; the track goes to the RIGHT end.
NackUntested(t) == shadow' = LREM(shadow, t) /\ queue' = <<t>> \o queue
NackPushesCount(t) ==
  /\ shadow' = LREM(shadow, t)
  /\ queue' = IF t \in ToSet(shadow) THEN <<1>> \o queue ELSE queue
NackAtTail(t) ==
  /\ shadow' = LREM(shadow, t)
  /\ queue' = IF t \in ToSet(shadow) THEN Append(queue, t) ELSE queue

\* The track goes back to the LEFT end only if LREM removed it; no length check.
NackScript(t) ==
  /\ shadow' = LREM(shadow, t)
  /\ queue' = IF t \in ToSet(shadow) THEN <<t>> \o queue ELSE queue

ClearScript == queue' = <<>> /\ shadow' = <<>>
===============================================================================
