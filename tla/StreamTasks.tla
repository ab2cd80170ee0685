------------------------------ MODULE StreamTasks ------------------------------
(***************************************************************************)
(* What the coroutines of one group share: the registry of the stream      *)
(* engine, the playback state in Redis, the FFmpeg subprocesses, the       *)
(* watchdog's task table and the permits of the semaphore pool.            *)
(*                                                                         *)
(* A task is a command handler or the watchdog's monitor of one FFmpeg     *)
(* process.  asyncio switches tasks only at an await, so an action is the  *)
(* completion of the operation a task awaits and the code up to its next   *)
(* await; task[t].at names the awaited operation.  The effect of a Redis   *)
(* command and the code after its reply are two actions where other tasks  *)
(* could tell the difference.                                              *)
(***************************************************************************)
EXTENDS Integers, FiniteSets, QueueScripts

CONSTANTS Cmd,            \* command messages; a /play brings a track of its own
          Proc,           \* FFmpeg subprocesses, and the monitor of each
          None,           \* no stream, no process, no task, no track
          MaxPermits,     \* SemaphorePool._max_streams
          Faults,         \* the external operations that may fail, see below
          AcquireAwaited  \* FALSE: stream_engine.py:78 as it stands; TRUE: awaited

FaultKinds == {"spawn",     \* file missing, tmpfs or create_subprocess_exec fails
               "voice",     \* pytgcalls raises
               "redis"}     \* the SET of the playback state raises

ASSUME PermitsAssumption == MaxPermits \in Nat \ {0}
ASSUME TaskAssumption == Cmd \cap Proc = {} /\ None \notin Cmd \cup Proc
ASSUME FaultsAssumption == Faults \subseteq FaultKinds

VARIABLES stored,    \* PlaybackState in Redis: status and current track
          registry,  \* _active_streams[group]: entry, its process and track
          proc,      \* state of each FFmpeg process
          wtask,     \* StreamWatchdog._tasks[group]
          permits,   \* free permits of the semaphore
          task,      \* per task: the await it is at, and its local variables
          cancelled  \* tasks with a cancellation on its way

\* History variables, read by the properties only.
VARIABLES starts,    \* how often start_stream spawned a process for the track
          audio      \* the track each process decodes

history == <<starts, audio>>
engine  == <<stored, registry, proc, wtask, permits, history>>
tvars   == <<task, cancelled>>

Task   == Cmd \cup Proc
Idle   == [status |-> "idle", track |-> None]
Stored == [status : {"idle", "playing", "paused"}, track : Cmd \cup {None}]
Entry  == [entry : Proc, proc : Proc, track : Cmd]

\* An exited process has its return code, 0 or another.  asyncio drops it once
\* its pipe has been read to the end, which may be long after the exit.
Codes   == {"ok", "err"}
Dropped == {"ok dropped", "err dropped"}
Exited  == Codes \cup Dropped

Drops(state)    == IF state \in {"ok", "ok dropped"} THEN "ok dropped" ELSE "err dropped"
ExitedWell(p)   == proc[p] \in {"ok", "ok dropped"}
ExitedBadly(p)  == proc[p] \in {"err", "err dropped"}

ASSUME NoneAssumption == None \notin Entry

InStart  == {"spawning", "playing", "saving", "launching"}
InStop   == {"stopping", "reaping", "leaving", "cancelling", "idling", "dropping"}
Awaits   == InStart \cup InStop \cup
              {"off", "done", "scheduled", "polling", "respawning", "swapping",
               "enqueuing", "dequeuing", "acquiring",
               "toggling", "rereading", "writing"}

TaskState == [at     : Awaits,
              then   : {"return", "dequeue", "start", "rewatch", "playing", "paused"},
              track  : Cmd \cup {None},    \* track to start or to recover
              proc   : Proc \cup {None},   \* ffmpeg_proc or new_proc
              entry  : Proc \cup {None},   \* the registry entry recovery holds
              target : Task \cup {None},   \* task awaited by watchdog.stop
              snap   : Stored]             \* state read by get_state

At(where) == [at |-> where, then |-> "return", track |-> None, proc |-> None,
              entry |-> None, target |-> None, snap |-> Idle]

TasksInit ==
  /\ stored = Idle /\ registry = None /\ wtask = None
  /\ proc = [p \in Proc |-> "unused"]
  /\ permits = MaxPermits
  /\ task = [t \in Task |-> At("off")]
  /\ cancelled = {}
  /\ starts = [c \in Cmd |-> 0] /\ audio = [p \in Proc |-> None]

\* Task t runs: it is at `where` and no cancellation is delivered to it.
Runs(t, where) == task[t].at = where /\ t \notin cancelled

Become(t, r) == task' = [task EXCEPT ![t] = r]
Goto(t, where) == Become(t, [task[t] EXCEPT !.at = where])

\* Faulty variant: no finally clause.
WtaskKept(t) == wtask

\* The finally clause of _monitor_loop drops the group's entry, whoever's it is.
WtaskAfter(t) == IF t \in Proc THEN None ELSE wtask

\* The coroutine returns, or an exception ends it.
End(t) == Become(t, At("done")) /\ wtask' = WtaskAfter(t)

\* Faulty variants: a permit is released wherever the task was; it is not
\* released by a cancellation.
CancelledReleasing(t) ==
  /\ t \in cancelled
  /\ permits' = permits + 1
  /\ cancelled' = cancelled \ {t}
  /\ End(t)
  /\ UNCHANGED <<stored, registry, proc, history>>
CancelledHolding(t) ==
  /\ t \in cancelled
  /\ cancelled' = cancelled \ {t}
  /\ End(t)
  /\ UNCHANGED <<stored, registry, proc, permits, history>>

\* CancelledError at the await: `async with` gives the permit back.
Cancelled(t) ==
  /\ t \in cancelled
  /\ permits' = permits + (IF task[t].at \in InStart THEN 1 ELSE 0)
  /\ cancelled' = cancelled \ {t}
  /\ End(t)
  /\ UNCHANGED <<stored, registry, proc, history>>

\* watchdog.stop of a registered task: cancel it and await it.  A task inside
\* this await swallows the cancellation, so one that cancels itself goes on.
StopWatchdog(t, r) ==
  /\ Become(t, [r EXCEPT !.at = "cancelling", !.target = wtask])
  /\ cancelled' = IF wtask = t \/ task[wtask].at = "cancelling"
                  THEN cancelled ELSE cancelled \cup {wtask}

WatchdogStopped(t) ==
  /\ Runs(t, "cancelling")
  /\ task[t].target = t \/ task[task[t].target].at = "done"
================================================================================
