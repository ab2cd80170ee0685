-------------------------------- MODULE Jukebox --------------------------------
(***************************************************************************)
(* One group of the jukebox: the command handlers of gateway/commands, the *)
(* stream engine, the watchdog, the Redis queue and the environment that   *)
(* ends FFmpeg processes and restarts the bot.  aiogram runs every handler *)
(* as a task of its own, so the handlers of a group interleave.            *)
(***************************************************************************)
EXTENDS StreamWatchdog

CONSTANTS Kinds,        \* the commands users send
          Schedule,     \* how coroutines may overlap, see below
          MaxQueue,     \* max_size of the enqueue script
          MaxCrashes,   \* bound: FFmpeg processes that crash
          MaxRestarts   \* bound: restarts of the bot

CommandKinds == {"play", "skip", "stop", "pause", "resume", "volume"}

Schedules == {"any",    \* as the event loop allows
              "serial", \* users send one command at a time
              "alone"}  \* no two coroutines are in the middle of something

ASSUME KindsAssumption == Kinds \subseteq CommandKinds /\ Schedule \in Schedules
ASSUME BoundsAssumption == MaxQueue \in Nat \ {0} /\ MaxCrashes \in Nat /\ MaxRestarts \in Nat

VARIABLES crashes, restarts,
          turn   \* tasks that may still step before a watch just scheduled does

env  == <<crashes, restarts>>
vars == <<lists, engine, tvars, env, turn>>

Init ==
  /\ TasksInit
  /\ queue = <<>> /\ shadow = <<>>
  /\ crashes = 0 /\ restarts = 0
  /\ turn = Task
--------------------------------------------------------------------------------
(* The handlers up to their first access to shared state, most of them the *)
(* reply of get_state.                                                     *)

Running(t) == task[t].at \notin {"off", "done"}

Received(c, kind) ==
  /\ kind \in Kinds
  /\ task[c].at = "off"
  /\ Schedule = "serial" => \A d \in Cmd : ~ Running(d)

PlayCmd(c) ==
  /\ Received(c, "play")
  /\ Become(c, IF stored.status = "idle" THEN [At("acquiring") EXCEPT !.track = c]
                                         ELSE At("enqueuing"))
  /\ UNCHANGED <<lists, engine, cancelled, env>>

\* enqueue raises when the queue is full.
EnqueueTrack(c) ==
  /\ Runs(c, "enqueuing")
  /\ IF Len(queue) < MaxQueue THEN EnqueueScript(c) ELSE UNCHANGED lists
  /\ End(c)
  /\ UNCHANGED <<stored, registry, proc, permits, history, cancelled, env>>

\* Without a current track, reading its id raises.
SkipCmd(c) ==
  /\ Received(c, "skip")
  /\ Become(c, IF stored.status = "idle" \/ stored.track = None THEN At("done")
               ELSE [At("stopping") EXCEPT !.then = "dequeue"])
  /\ UNCHANGED <<lists, engine, cancelled, env>>

SkipToNext(c) ==
  /\ Runs(c, "dequeuing")
  /\ IF queue = <<>>
     THEN Become(c, At("done")) /\ UNCHANGED lists
     ELSE /\ DequeueScript
          /\ Become(c, [At("acquiring") EXCEPT !.track = Head(queue)])
  /\ UNCHANGED <<engine, cancelled, env>>

StopCmd(c) ==
  /\ Received(c, "stop")
  /\ ClearScript
  /\ Become(c, At("stopping"))
  /\ UNCHANGED <<engine, cancelled, env>>

\* /pause goes on if the state says playing, /resume if it says paused.
ToggleCmd(c, kind, from, to) ==
  /\ Received(c, kind)
  /\ Become(c, IF stored.status = from THEN [At("toggling") EXCEPT !.then = to]
                                       ELSE At("done"))
  /\ UNCHANGED <<lists, engine, cancelled, env>>

VolumeCmd(c) ==
  /\ Received(c, "volume")
  /\ Become(c, [At("writing") EXCEPT !.snap = stored])
  /\ UNCHANGED <<lists, engine, cancelled, env>>

Command(c) ==
  \/ PlayCmd(c) \/ SkipCmd(c) \/ StopCmd(c) \/ VolumeCmd(c)
  \/ ToggleCmd(c, "pause", "playing", "paused")
  \/ ToggleCmd(c, "resume", "paused", "playing")
--------------------------------------------------------------------------------
(* The environment *)

Exits(p, state, code) ==
  /\ proc[p] = state
  /\ proc' = [proc EXCEPT ![p] = code]
  /\ UNCHANGED <<lists, stored, registry, wtask, permits, history, tvars, restarts>>

Finish(p) == Exits(p, "run", "ok") /\ UNCHANGED crashes

Crash(p) == crashes < MaxCrashes /\ Exits(p, "run", "err") /\ crashes' = crashes + 1

\* A terminated FFmpeg ends, after the kill at the latest, with some code.
ExitOnSignal(p) == (\E code \in Codes : Exits(p, "termed", code)) /\ UNCHANGED crashes

\* The container restarts: memory and subprocesses are gone, Redis stays.
Restart ==
  /\ restarts < MaxRestarts
  /\ restarts' = restarts + 1
  /\ registry' = None /\ wtask' = None /\ permits' = MaxPermits /\ cancelled' = {}
  /\ task' = [t \in Task |-> IF Running(t) THEN At("done") ELSE task[t]]
  /\ proc' = [p \in Proc |-> IF proc[p] = "unused" THEN "unused" ELSE "err"]
  /\ UNCHANGED <<lists, stored, history, crashes>>

QuietStep(t) ==
  (EngineStep(t) \/ (t \in Proc /\ MonitorStep(t))) /\ UNCHANGED <<lists, env>>

Step(t) ==
  \/ QuietStep(t)
  \/ t \in Proc /\ DequeueNext(t) /\ UNCHANGED env
  \/ t \in Cmd /\ (EnqueueTrack(t) \/ SkipToNext(t))

Scheduled == {p \in Proc : task[p].at = "scheduled"}

\* create_task puts watch at the end of the event loop's queue: until it runs,
\* every other task takes a step at most, if it was ready at that time.
InTurn(t) ==
  /\ Scheduled # {} => t \in turn \cup Scheduled
  /\ turn' = IF Scheduled' = {} THEN Task
             ELSE (IF Scheduled = {} THEN Task ELSE turn) \ {t}

TaskStep(t) == (Step(t) \/ (t \in Cmd /\ Command(t))) /\ InTurn(t)

Environment ==
  \/ UNCHANGED turn /\ \E p \in Proc : Finish(p) \/ Crash(p) \/ ExitOnSignal(p)
  \/ Restart /\ turn' = Task

\* Tasks in the middle of a command or of handling an exit.
Busy == {t \in Task : task[t].at \notin {"off", "done", "polling"}}

Next ==
  /\ Environment \/ \E t \in Task : TaskStep(t)
  /\ Schedule = "alone" => Cardinality(Busy') <= 1

\* The event loop runs every task whose operation has completed, and a process
\* told to end does; nothing makes a user send a command or a track end.
Spec ==
  /\ Init /\ [][Next]_vars
  /\ \A t \in Task : WF_vars(Step(t) /\ InTurn(t))
  /\ \A p \in Proc : WF_vars(UNCHANGED turn /\ ExitOnSignal(p))
--------------------------------------------------------------------------------
(* Every variable stays in its range. *)
TypeOK ==
  /\ queue \in Seq(Cmd) /\ shadow \in Seq(Cmd)
  /\ stored \in Stored
  /\ registry \in Entry \cup {None}
  /\ proc \in [Proc -> {"unused", "run", "termed"} \cup Exited]
  /\ wtask \in Proc \cup {None}
  /\ permits \in 0 .. MaxPermits
  /\ task \in [Task -> TaskState]
  /\ cancelled \subseteq Proc
  /\ starts \in [Cmd -> Nat] /\ audio \in [Proc -> Cmd \cup {None}]
  /\ turn \subseteq Task
  /\ crashes \in 0 .. MaxCrashes /\ restarts \in 0 .. MaxRestarts

(* The permits of the semaphore pool are exactly accounted for by the      *)
(* tasks inside start_stream's body, through every early return, exception *)
(* and cancellation there (semaphore_pool.py __aenter__/__aexit__).        *)
PermitsBalanced == permits + Cardinality({t \in Task : task[t].at \in InStart}) = MaxPermits

(* No track is played twice: skip and _on_track_end may pop the queue at   *)
(* the same time, and a track is started once or waits once, not both.     *)
PlayedOnce ==
  \A c \in Cmd : starts[c] + Cardinality({i \in DOMAIN queue : queue[i] = c}) <= 1

(* _tasks never names a monitor that has ended, so the cancel of           *)
(* watchdog.stop reaches a live task (watchdog.py:112-115, 119-124).       *)
WatchEntryLive == wtask # None => Running(wtask) /\ task[wtask].at # "scheduled"

(* The registered process decodes the registered track: a recovery that    *)
(* finishes late, after the next track was started, changes the dictionary *)
(* it found at first and not the one registered now (recovery.py:63,142).  *)
RegistryPlaysItsTrack == registry # None => audio[registry.proc] = registry.track

(* No handler waits for ever: not for a permit, not for the watchdog task  *)
(* it cancelled, not for a process it terminated.                          *)
CommandsEnd == \A c \in Cmd : Running(c) ~> ~ Running(c)

(* The monitor of an exited process takes notice and ends, or is cancelled *)
(* by whoever took the stream over; no monitor waits for ever on another.  *)
ExitNoticed == \A p \in Proc : (Running(p) /\ proc[p] \in Exited) ~> ~ Running(p)
--------------------------------------------------------------------------------
(* Nothing is going on: no task is busy, no watch is scheduled and no      *)
(* monitor has an exit to notice.                                          *)
Quiet ==
  /\ Busy = {}
  /\ \A p \in Proc : Running(p) => task[p].at = "polling" /\ proc[p] \notin Exited

Live(p) == proc[p] = "run"

\* terminate() raised for the registered process: stop_stream can never finish.
DeadStream == registry # None /\ proc[registry.proc] \in Dropped

(* When its coroutines do not overlap, the engine keeps its four records   *)
(* in agreement: the playback state in Redis names the registered track,   *)
(* one FFmpeg runs, it is the registered one and its monitor is the one    *)
(* watchdog.stop would cancel; idle means none of them (stream_engine.py   *)
(* start_stream, stop_stream; recovery.py).  The one exception is a        *)
(* stop_stream whose terminate() raised (stream_engine.py:200): registry   *)
(* and Redis then agree on a stream that has no FFmpeg and no monitor.     *)
Agreement ==
  Quiet =>
    IF registry = None
    THEN stored = Idle /\ wtask = None /\ \A p \in Proc : ~ Live(p)
    ELSE /\ stored.status # "idle" /\ stored.track = registry.track
         /\ IF DeadStream
            THEN wtask = None /\ \A p \in Proc : ~ Live(p)
            ELSE wtask = registry.proc /\ \A p \in Proc : Live(p) <=> p = registry.proc

\* Tracks that the queue handed out and nobody started.
Lost == {c \in ToSet(shadow) : starts[c] # 1}

(* And then a track is forgotten only with the stream before it: a track   *)
(* handed out by the queue was started, but for a single one if terminate()*)
(* raised for the stream it was to follow (stream_engine.py:379-385); and  *)
(* no track waits in an idle group, so the queue stalls behind a dead      *)
(* stream only (play.py:97-118 against _on_track_end's look at the queue). *)
NoneForgotten ==
  Quiet =>
    /\ IF DeadStream THEN \E c \in Cmd : Lost \subseteq {c} ELSE Lost = {}
    /\ registry = None => queue = <<>>
--------------------------------------------------------------------------------
(* What the documents say of the program and the code does not do.         *)

(* "Callback when track finishes normally. Dequeues next track and starts  *)
(* playback." (stream_engine.py:351-354): what was dequeued was started.   *)
NextTrackStarts == Quiet => Lost = {}

(* "One subprocess per group" (architecture document, FFmpegProcess).      *)
OneProcessPerGroup == Cardinality({p \in Proc : Live(p)}) <= 1
================================================================================
