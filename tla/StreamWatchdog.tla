----------------------------- MODULE StreamWatchdog -----------------------------
(***************************************************************************)
(* StreamWatchdog, SeekResumeRecovery and the engine's _on_track_end: what *)
(* the monitor task of FFmpeg process p does.                              *)
(***************************************************************************)
EXTENDS StreamEngine

\* The task made by create_task(watch(..)) runs: it makes the monitor task and
\* overwrites the group's entry in _tasks.
Watch(p) ==
  /\ Runs(p, "scheduled")
  /\ wtask' = p
  /\ Goto(p, "polling")
  /\ UNCHANGED <<stored, registry, proc, permits, history, cancelled>>

\* The process has exited, but the group has no stream any more: _on_track_end
\* returns, and so does a recovery that fails and the stop_stream after it.
StreamGone(p) ==
  /\ Runs(p, "polling")
  /\ proc[p] \in Exited
  /\ registry = None
  /\ End(p)
  /\ UNCHANGED <<stored, registry, proc, permits, history, cancelled>>

(* Return code 0: _on_track_end. *)

TrackEnds(p) ==
  /\ Runs(p, "polling")
  /\ ExitedWell(p)
  /\ registry # None
  /\ Goto(p, "dequeuing")
  /\ UNCHANGED <<engine, cancelled>>

\* Faulty variant: the popped track is not started.
DequeueOnly(p) ==
  /\ Runs(p, "dequeuing")
  /\ IF queue = <<>> THEN UNCHANGED lists ELSE DequeueScript
  /\ Become(p, At("stopping"))
  /\ UNCHANGED <<engine, cancelled>>

\* With a next track: stop_stream, then start_stream; without: stop_stream.
DequeueNext(p) ==
  /\ Runs(p, "dequeuing")
  /\ IF queue = <<>>
     THEN /\ Become(p, At("stopping"))
          /\ UNCHANGED lists
     ELSE /\ DequeueScript
          /\ Become(p, [At("stopping") EXCEPT !.then = "start", !.track = Head(queue)])
  /\ UNCHANGED <<engine, cancelled>>

(* Any other return code: attempt_recovery. *)

\* Faulty variant: only the group's registered monitor reacts.
CrashSeenByOwner(p) ==
  /\ Runs(p, "polling")
  /\ ExitedBadly(p)
  /\ registry # None /\ wtask = p
  /\ Become(p, [At("respawning") EXCEPT !.entry = registry.entry, !.track = registry.track])
  /\ UNCHANGED <<engine, cancelled>>

CrashSeen(p) ==
  /\ Runs(p, "polling")
  /\ ExitedBadly(p)
  /\ registry # None
  /\ Become(p, [At("respawning") EXCEPT !.entry = registry.entry, !.track = registry.track])
  /\ UNCHANGED <<engine, cancelled>>

Respawn(p) ==
  /\ Runs(p, "respawning")
  /\ \E n \in Proc :
       /\ SpawnProc(n, task[p].track)
       /\ Become(p, [task[p] EXCEPT !.at = "swapping", !.proc = n])
  /\ UNCHANGED <<stored, registry, wtask, permits, starts, cancelled>>

\* attempt_recovery returns False; the monitor calls stop_stream.
RecoveryFails(p) ==
  /\ \/ Runs(p, "respawning") /\ MayFailToSpawn
     \/ Runs(p, "swapping") /\ "voice" \in Faults
  /\ Become(p, At("stopping"))
  /\ UNCHANGED <<engine, cancelled>>

\* Faulty variant: the new process is not watched.
RewatchedNot(p) ==
  /\ task' = [task EXCEPT ![p] = At("done")]
  /\ wtask' = None

\* Schedule watch(new_proc), return True; the monitor loop ends.
Rewatched(p) ==
  /\ task' = [task EXCEPT ![p] = At("done"), ![task[p].proc] = At("scheduled")]
  /\ wtask' = None

\* Faulty variant: the entry is looked up again after the awaits.
SwapByGroup(p) ==
  /\ Runs(p, "swapping")
  /\ registry' = IF registry # None THEN [registry EXCEPT !.proc = task[p].proc] ELSE registry
  /\ IF wtask = None
     THEN Rewatched(p) /\ UNCHANGED cancelled
     ELSE StopWatchdog(p, [task[p] EXCEPT !.then = "rewatch"]) /\ UNCHANGED wtask
  /\ UNCHANGED <<stored, proc, permits, history>>

\* pytgcalls plays the new process; the entry found before the awaits, which
\* may not be registered any more, gets it; then watchdog.stop.
Swap(p) ==
  /\ Runs(p, "swapping")
  /\ registry' = IF registry # None /\ registry.entry = task[p].entry
                 THEN [registry EXCEPT !.proc = task[p].proc] ELSE registry
  /\ IF wtask = None
     THEN Rewatched(p) /\ UNCHANGED cancelled
     ELSE StopWatchdog(p, [task[p] EXCEPT !.then = "rewatch"]) /\ UNCHANGED wtask
  /\ UNCHANGED <<stored, proc, permits, history>>

Rewatch(p) ==
  /\ WatchdogStopped(p)
  /\ task[p].then = "rewatch"
  /\ Rewatched(p)
  /\ UNCHANGED <<stored, registry, proc, permits, history, cancelled>>

\* The steps that leave the Redis lists alone.
MonitorStep(p) ==
  \/ Watch(p) \/ StreamGone(p) \/ CrashSeen(p) \/ TrackEnds(p)
  \/ Respawn(p) \/ RecoveryFails(p) \/ Swap(p) \/ Rewatch(p) \/ Cancelled(p)
================================================================================
