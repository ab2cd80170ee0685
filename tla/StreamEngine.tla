------------------------------ MODULE StreamEngine ------------------------------
(***************************************************************************)
(* ConcreteStreamEngine: start_stream, stop_stream and the read-modify-    *)
(* writes of the playback state, for a calling task t.  Loop mode, volume, *)
(* positions, the tmpfs copy and the voice chat itself are left out: no    *)
(* property is about them and no branch depends on them (the loop mode in  *)
(* Redis is always NONE, because /loop never writes it).                   *)
(***************************************************************************)
EXTENDS StreamTasks

(* start_stream *)

\* `async with self._semaphore_pool.acquire(..)`: acquire is a coroutine, so
\* without an await the statement raises and start_stream returns False.
Acquire(t) ==
  /\ Runs(t, "acquiring")
  /\ IF AcquireAwaited
     THEN /\ permits > 0
          /\ permits' = permits - 1
          /\ Goto(t, "spawning")
          /\ UNCHANGED wtask
     ELSE End(t) /\ UNCHANGED permits
  /\ UNCHANGED <<stored, registry, proc, history, cancelled>>

\* Unused processes run out where the model is bounded: the spawn then fails.
MayFailToSpawn == "spawn" \in Faults \/ \A p \in Proc : proc[p] # "unused"

SpawnProc(p, track) ==
  /\ proc[p] = "unused"
  /\ proc' = [proc EXCEPT ![p] = "run"]
  /\ audio' = [audio EXCEPT ![p] = track]

Spawn(t) ==
  /\ Runs(t, "spawning")
  /\ \E p \in Proc :
       /\ SpawnProc(p, task[t].track)
       /\ Become(t, [task[t] EXCEPT !.at = "playing", !.proc = p])
  /\ starts' = [starts EXCEPT ![task[t].track] = @ + 1]
  /\ UNCHANGED <<stored, registry, wtask, permits, cancelled>>

\* Faulty variant: the permit is kept when the body raises.
StartFailsHolding(t) ==
  /\ \/ Runs(t, "spawning") /\ MayFailToSpawn
     \/ Runs(t, "playing") /\ "voice" \in Faults
     \/ Runs(t, "saving") /\ "redis" \in Faults
  /\ End(t)
  /\ UNCHANGED <<stored, registry, proc, permits, history, cancelled>>

\* An exception inside the body: False is returned, a spawned FFmpeg runs on.
StartFails(t) ==
  /\ \/ Runs(t, "spawning") /\ MayFailToSpawn
     \/ Runs(t, "playing") /\ "voice" \in Faults
     \/ Runs(t, "saving") /\ "redis" \in Faults
  /\ permits' = permits + 1
  /\ End(t)
  /\ UNCHANGED <<stored, registry, proc, history, cancelled>>

PlayAudio(t) ==
  /\ Runs(t, "playing")
  /\ registry' = [entry |-> task[t].proc, proc |-> task[t].proc, track |-> task[t].track]
  /\ Goto(t, "saving")
  /\ UNCHANGED <<stored, proc, wtask, permits, history, cancelled>>

SavePlaying(t) ==
  /\ Runs(t, "saving")
  /\ stored' = [status |-> "playing", track |-> task[t].track]
  /\ Goto(t, "launching")
  /\ UNCHANGED <<registry, proc, wtask, permits, history, cancelled>>

\* create_task(watch(..)), leave the semaphore, return True.
Launch(t) ==
  /\ Runs(t, "launching")
  /\ task' = [task EXCEPT ![t] = At("done"), ![task[t].proc] = At("scheduled")]
  /\ wtask' = WtaskAfter(t)
  /\ permits' = permits + 1
  /\ UNCHANGED <<stored, registry, proc, history, cancelled>>
--------------------------------------------------------------------------------
(* stop_stream; what the caller does next is in task[t].then. *)

StopReturns(t) ==
  CASE task[t].then = "start"   -> Goto(t, "acquiring") /\ UNCHANGED wtask
    [] task[t].then = "dequeue" -> Goto(t, "dequeuing") /\ UNCHANGED wtask
    [] OTHER                    -> End(t)

NoActiveStream(t) ==
  /\ Runs(t, "stopping")
  /\ registry = None
  /\ StopReturns(t)
  /\ UNCHANGED <<stored, registry, proc, permits, history, cancelled>>

\* terminate() of an exited process does nothing while asyncio has the process.
Terminate(t) ==
  /\ Runs(t, "stopping")
  /\ registry # None
  /\ proc[registry.proc] \notin Dropped
  /\ proc' = [proc EXCEPT ![registry.proc] = IF @ = "run" THEN "termed" ELSE @]
  /\ Become(t, [task[t] EXCEPT !.at = "reaping", !.proc = registry.proc])
  /\ UNCHANGED <<stored, registry, wtask, permits, history, cancelled>>

\* Once asyncio has dropped the exited process, terminate() raises
\* ProcessLookupError.  That it has by now is decided here; it stays so.
TerminateRaises(t) ==
  /\ Runs(t, "stopping")
  /\ registry # None
  /\ proc[registry.proc] \in Exited
  /\ proc' = [proc EXCEPT ![registry.proc] = Drops(@)]
  /\ End(t)
  /\ UNCHANGED <<stored, registry, permits, history, cancelled>>

StopFails(t) ==
  /\ \/ Runs(t, "leaving") /\ "voice" \in Faults
     \/ Runs(t, "idling") /\ "redis" \in Faults
     \/ Runs(t, "dropping") /\ registry = None  \* del raises KeyError
  /\ End(t)
  /\ UNCHANGED <<stored, registry, proc, permits, history, cancelled>>

Reap(t) ==
  /\ Runs(t, "reaping")
  /\ proc[task[t].proc] \in Exited
  /\ Become(t, [task[t] EXCEPT !.at = "leaving", !.proc = None])
  /\ UNCHANGED <<engine, cancelled>>

\* The voice chat is left; then watchdog.stop.
Leave(t) ==
  /\ Runs(t, "leaving")
  /\ IF wtask = None THEN Goto(t, "idling") /\ UNCHANGED cancelled
                     ELSE StopWatchdog(t, task[t])
  /\ UNCHANGED engine

Unwatched(t) ==
  /\ WatchdogStopped(t)
  /\ task[t].then # "rewatch"
  /\ Become(t, [task[t] EXCEPT !.at = "idling", !.target = None])
  /\ UNCHANGED <<engine, cancelled>>

SaveIdle(t) ==
  /\ Runs(t, "idling")
  /\ stored' = Idle
  /\ Goto(t, "dropping")
  /\ UNCHANGED <<registry, proc, wtask, permits, history, cancelled>>

Drop(t) ==
  /\ Runs(t, "dropping")
  /\ registry # None
  /\ registry' = None
  /\ StopReturns(t)
  /\ UNCHANGED <<stored, proc, permits, history, cancelled>>
--------------------------------------------------------------------------------
(* pause_stream and resume_stream, with the wanted status in task[t].then, *)
(* and the SET that ends them and set_volume.                              *)

FindStream(t) ==
  /\ Runs(t, "toggling")
  /\ IF registry = None THEN End(t) ELSE Goto(t, "rereading") /\ UNCHANGED wtask
  /\ UNCHANGED <<stored, registry, proc, permits, history, cancelled>>

\* pytgcalls has paused or resumed; get_state reads Redis again.
Reread(t) ==
  /\ Runs(t, "rereading")
  /\ Become(t, [task[t] EXCEPT !.at = "writing",
                               !.snap = [stored EXCEPT !.status = task[t].then]])
  /\ UNCHANGED <<engine, cancelled>>

WriteBack(t) ==
  /\ Runs(t, "writing")
  /\ stored' = task[t].snap
  /\ End(t)
  /\ UNCHANGED <<registry, proc, permits, history, cancelled>>

ToggleFails(t) ==
  /\ \/ Runs(t, "rereading") /\ "voice" \in Faults
     \/ Runs(t, "writing") /\ "redis" \in Faults
  /\ End(t)
  /\ UNCHANGED <<stored, registry, proc, permits, history, cancelled>>

EngineStep(t) ==
  \/ Acquire(t) \/ Spawn(t) \/ StartFails(t) \/ PlayAudio(t) \/ SavePlaying(t) \/ Launch(t)
  \/ NoActiveStream(t) \/ Terminate(t) \/ TerminateRaises(t) \/ StopFails(t)
  \/ Reap(t) \/ Leave(t) \/ Unwatched(t) \/ SaveIdle(t) \/ Drop(t)
  \/ FindStream(t) \/ Reread(t) \/ WriteBack(t) \/ ToggleFails(t)
================================================================================
