----------------------------- MODULE JukeboxProofs -----------------------------
(***************************************************************************)
(* Proofs about Jukebox for every set of commands and processes, every     *)
(* number of permits, every fault and every schedule, with any number of   *)
(* crashes and restarts.  The invariant JInv says what a task may count on *)
(* after an await: its locals, the process it spawned, the track it holds. *)
(* AloneInv, in the second half, says what it finds there if no coroutine  *)
(* overlaps with it and no external call fails.  That terminate() raises   *)
(* for an exited process is no such failure: it is part of every theorem.  *)
(***************************************************************************)
EXTENDS Jukebox, ListLemmas

\* A task on its way to start the track it holds.
Starting(r) == \/ r.at \in {"acquiring", "spawning"}
               \/ r.at \in InStop /\ r.then = "start"

\* A task that spawned a process and has not scheduled its watch yet.
Attached(r) == \/ r.at \in {"playing", "saving", "launching", "swapping"}
               \/ r.at = "cancelling" /\ r.then = "rewatch"

\* The local variables a task needs where it is.
LocalOK(r) ==
  /\ (Starting(r) \/ r.at \in InStart \cup {"respawning", "swapping"}) => r.track \in Cmd
  /\ Attached(r) => r.proc \in Proc
  /\ r.at \in {"respawning", "swapping"} => r.entry \in Proc
  /\ r.at \in {"toggling", "rereading"} => r.then \in {"playing", "paused"}
  /\ r.at \in {"stopping", "reaping", "leaving"} => r.then # "rewatch"

\* The tasks inside start_stream's `async with`.
Inside == {t \in Task : task[t].at \in InStart}

\* The types of what the tasks share; a track is started once at most.
Shared ==
  /\ queue \in Seq(Cmd) /\ shadow \in Seq(Cmd)
  /\ stored \in Stored
  /\ registry \in Entry \cup {None}
  /\ proc \in [Proc -> {"unused", "run", "termed"} \cup Exited]
  /\ wtask \in Proc \cup {None}
  /\ cancelled \subseteq Proc
  /\ starts \in [Cmd -> {0, 1}] /\ audio \in [Proc -> Cmd \cup {None}]

Locals == task \in [Task -> TaskState] /\ \A t \in Task : LocalOK(task[t])

Permits == /\ permits \in Nat /\ IsFiniteSet(Inside)
           /\ permits + Cardinality(Inside) = MaxPermits

\* A process has no monitor before its watch is scheduled, which is up to the
\* one task that spawned it.
NewProcs ==
  /\ \A p \in Proc : proc[p] = "unused" => task[p].at = "off"
  /\ \A t \in Task : Attached(task[t]) => /\ proc[task[t].proc] # "unused"
                                          /\ task[task[t].proc].at = "off"
  /\ \A t, u \in Task :
       Attached(task[t]) /\ Attached(task[u]) /\ task[t].proc = task[u].proc => t = u

Decodes(p, c) == proc[p] # "unused" /\ audio[p] = c

\* The entry of the registered stream, and the process that took it over in a
\* recovery, decode the registered track.
RegistryDecodes ==
  registry # None => /\ Decodes(registry.entry, registry.track)
                     /\ Decodes(registry.proc, registry.track)

\* A task has the process it spawned, or found, decode its own track.
TasksDecode ==
  \A t \in Task :
    /\ task[t].at \in {"playing", "swapping"} => Decodes(task[t].proc, task[t].track)
    /\ task[t].at \in {"respawning", "swapping"} => Decodes(task[t].entry, task[t].track)

\* The command has not handed its track to anybody.
Fresh(c) == task[c].at \in {"off", "enqueuing"}

Unplayed(c) == starts[c] = 0 /\ ~ Fresh(c)

\* A track is with its command, in the queue once, with one task that will
\* start it, or started: never in two of these places.
OneOfEach ==
  /\ IsInjective(queue)
  /\ \A c \in Cmd : Fresh(c) => starts[c] = 0
  /\ \A i \in DOMAIN queue : Unplayed(queue[i])
  /\ \A t \in Task : Starting(task[t]) => /\ Unplayed(task[t].track)
                                          /\ task[t].track \notin ToSet(queue)
  /\ \A t, u \in Task :
       Starting(task[t]) /\ Starting(task[u]) /\ task[t].track = task[u].track => t = u

\* A cancellation is on its way to a task that was created.
CancelledLive == \A t \in cancelled : task[t].at # "off"

JInv == /\ Shared /\ Locals /\ Permits /\ WatchEntryLive /\ CancelledLive
        /\ NewProcs /\ RegistryDecodes /\ TasksDecode /\ OneOfEach
--------------------------------------------------------------------------------
(* A command task is no monitor, and None is no task.                      *)
LEMMA TaskSorts ==
  /\ Cmd \subseteq Task /\ Proc \subseteq Task
  /\ \A c \in Cmd : c \notin Proc
  /\ None \notin Cmd /\ None \notin Proc /\ None \notin Task
BY TaskAssumption DEF Task

(* A task that starts at a new await has no locals.                        *)
LEMMA AtLemma ==
  ASSUME NEW w \in Awaits
  PROVE  /\ At(w) \in TaskState
         /\ At(w).at = w /\ At(w).then = "return"
BY DEF At, TaskState, Stored, Idle

(* A task that goes to another await keeps its locals.                     *)
LEMMA GotoLemma ==
  ASSUME NEW s \in TaskState, NEW w \in Awaits
  PROVE  /\ [s EXCEPT !.at = w] \in TaskState
         /\ [s EXCEPT !.at = w].at = w
         /\ [s EXCEPT !.at = w].then = s.then
         /\ [s EXCEPT !.at = w].track = s.track
         /\ [s EXCEPT !.at = w].proc = s.proc
         /\ [s EXCEPT !.at = w].entry = s.entry
BY DEF TaskState

(* One task changes.                                                       *)
LEMMA BecomeLemma ==
  ASSUME JInv, NEW t \in Task, NEW r \in TaskState, Become(t, r)
  PROVE  /\ task' \in [Task -> TaskState]
         /\ task'[t] = r
         /\ \A u \in Task : u # t => task'[u] = task[u]
BY DEF JInv, Locals, Become
--------------------------------------------------------------------------------
(* Each part of the invariant when one task changes.                       *)

(* The locals of the others do not change.                                 *)
LEMMA LocalsMove ==
  ASSUME JInv, NEW t \in Task, NEW r \in TaskState, Become(t, r), LocalOK(r)
  PROVE  Locals'
<1>1. ASSUME NEW u \in Task PROVE LocalOK(task[u])'
  <2>1. LocalOK(task[u]) /\ (task'[u] = r \/ task'[u] = task[u])
    BY BecomeLemma DEF JInv, Locals
  <2> QED  BY <2>1 DEF LocalOK, Starting, Attached
<1> QED
  BY <1>1, BecomeLemma DEF Locals

(* The permit comes back when the task leaves start_stream's body.         *)
LEMMA PermitsMove ==
  ASSUME JInv, NEW t \in Task, NEW r \in TaskState, Become(t, r),
         r.at \in InStart => task[t].at \in InStart,
         permits' = permits + (IF task[t].at \in InStart /\ r.at \notin InStart
                               THEN 1 ELSE 0)
  PROVE  Permits'
<1>1. /\ permits \in Nat /\ IsFiniteSet(Inside) /\ MaxPermits \in Nat
      /\ permits + Cardinality(Inside) = MaxPermits
  BY PermitsAssumption DEF JInv, Permits
<1>2. CASE task[t].at \in InStart /\ r.at \notin InStart
  <2>1. Inside' = Inside \ {t} /\ t \in Inside
    BY <1>2, BecomeLemma DEF Inside
  <2>2. /\ IsFiniteSet(Inside') /\ Cardinality(Inside) \in Nat
        /\ Cardinality(Inside') = Cardinality(Inside) - 1
    BY <1>1, <2>1, FS_RemoveElement, FS_CardinalityType
  <2>3. permits' = permits + 1
    BY <1>2
  <2> QED  BY <1>1, <2>2, <2>3 DEF Permits
<1>3. CASE ~(task[t].at \in InStart /\ r.at \notin InStart)
  <2>1. Inside' = Inside
    BY <1>3, BecomeLemma DEF Inside
  <2>2. permits' = permits
    BY <1>1, <1>3
  <2> QED  BY <1>1, <2>1, <2>2 DEF Permits
<1> QED
  BY <1>2, <1>3

(* The group's entry is dropped, or its monitor does not end.              *)
LEMMA WatchMove ==
  ASSUME JInv, NEW t \in Task, NEW r \in TaskState, Become(t, r),
         \/ wtask' = None
         \/ wtask' = wtask /\ (t \in Cmd \/ r.at \notin {"off", "done", "scheduled"})
  PROVE  WatchEntryLive'
<1> SUFFICES ASSUME wtask' # None
             PROVE  task'[wtask'].at \notin {"off", "done", "scheduled"}
  BY DEF WatchEntryLive, Running
<1>1. wtask' = wtask /\ wtask \in Proc /\ wtask \in Task
  BY TaskSorts DEF JInv, Shared
<1>2. task[wtask].at \notin {"off", "done", "scheduled"}
  BY <1>1 DEF JInv, WatchEntryLive, Running
<1> QED
  BY <1>1, <1>2, BecomeLemma, TaskSorts

(* Only the live monitor of the group is cancelled.                        *)
LEMMA CancelledMove ==
  ASSUME JInv, NEW t \in Task, NEW r \in TaskState, Become(t, r), r.at # "off",
         Shared', cancelled' \subseteq cancelled \cup {wtask}
  PROVE  CancelledLive'
<1> SUFFICES ASSUME NEW u \in cancelled' PROVE task'[u].at # "off"
  BY DEF CancelledLive
<1>1. u \in Proc /\ u \in Task /\ u # None /\ u \in cancelled \cup {wtask}
  BY TaskSorts DEF Shared
<1>2. task[u].at # "off"
  BY <1>1 DEF JInv, CancelledLive, WatchEntryLive, Running
<1> QED
  BY <1>1, <1>2, BecomeLemma

(* No process is gained.                                                   *)
LEMMA NewProcsMove ==
  ASSUME JInv, NEW t \in Task, NEW r \in TaskState, Become(t, r),
         t \in Cmd \/ task[t].at # "off",
         \A p \in Proc : proc'[p] = "unused" <=> proc[p] = "unused",
         Attached(r) => Attached(task[t]) /\ r.proc = task[t].proc
  PROVE  NewProcs'
<1>1. ASSUME NEW p \in Proc, proc'[p] = "unused" PROVE task'[p].at = "off"
  BY <1>1, BecomeLemma, TaskSorts DEF JInv, NewProcs
<1>2. ASSUME NEW u \in Task, Attached(task'[u])
      PROVE  /\ Attached(task[u]) /\ task'[u].proc = task[u].proc
             /\ task[u].proc \in Proc
  <2>1. Attached(task[u]) /\ task'[u].proc = task[u].proc
    BY <1>2, BecomeLemma
  <2>2. LocalOK(task[u])
    BY DEF JInv, Locals
  <2> QED  BY <2>1, <2>2 DEF LocalOK
<1>3. ASSUME NEW u \in Task, Attached(task'[u])
      PROVE  proc'[task'[u].proc] # "unused" /\ task'[task'[u].proc].at = "off"
  <2> DEFINE p == task[u].proc
  <2>1. task'[u].proc = p /\ p \in Proc /\ p \in Task /\ p \notin Cmd
    BY <1>2, <1>3, TaskSorts
  <2>2. proc[p] # "unused" /\ task[p].at = "off"
    BY <1>2, <1>3 DEF JInv, NewProcs
  <2> QED  BY <2>1, <2>2, BecomeLemma
<1>4. ASSUME NEW u \in Task, NEW v \in Task, Attached(task'[u]), Attached(task'[v]),
             task'[u].proc = task'[v].proc
      PROVE  u = v
  BY <1>2, <1>4 DEF JInv, NewProcs
<1> QED
  BY <1>1, <1>3, <1>4 DEF NewProcs

\* No new process, no process lost, and each decodes what it did.
SameProcs == /\ \A p \in Proc : proc'[p] = "unused" <=> proc[p] = "unused"
             /\ audio' = audio

(* The registered stream stays or is dropped.                              *)
LEMMA RegistryStays ==
  ASSUME JInv, SameProcs, registry' \in {registry, None}
  PROVE  RegistryDecodes'
<1> SUFFICES ASSUME registry' # None
             PROVE  /\ Decodes(registry.entry, registry.track)'
                    /\ Decodes(registry.proc, registry.track)'
  BY DEF RegistryDecodes
<1>1. registry' = registry /\ registry \in Entry
  BY DEF JInv, Shared
<1>2. registry.entry \in Proc /\ registry.proc \in Proc
  BY <1>1 DEF Entry
<1> QED
  BY <1>1, <1>2 DEF JInv, RegistryDecodes, Decodes, SameProcs

(* No track is gained to decode.                                           *)
LEMMA TasksDecodeMove ==
  ASSUME JInv, NEW t \in Task, NEW r \in TaskState, Become(t, r), SameProcs,
         r.at \notin {"playing", "respawning", "swapping"}
  PROVE  TasksDecode'
<1> SUFFICES ASSUME NEW u \in Task, task'[u].at \in {"playing", "respawning", "swapping"}
             PROVE  /\ task'[u].at \in {"playing", "swapping"}
                         => Decodes(task[u].proc, task[u].track)'
                    /\ task'[u].at \in {"respawning", "swapping"}
                         => Decodes(task[u].entry, task[u].track)'
  BY DEF TasksDecode
<1>1. task'[u] = task[u]
  BY BecomeLemma
<1>2. LocalOK(task[u])
  BY DEF JInv, Locals
<1> QED
  BY <1>1, <1>2 DEF JInv, TasksDecode, Decodes, SameProcs, LocalOK, Attached

(* No track is gained to start, and none is queued.                        *)
LEMMA OneOfEachMove ==
  ASSUME JInv, NEW t \in Task, NEW r \in TaskState, Become(t, r),
         r.at = "off" => task[t].at = "off",
         r.at = "enqueuing" => task[t].at = "off",
         Starting(r) => Starting(task[t]) /\ r.track = task[t].track,
         queue' \in {queue, <<>>}, starts' = starts
  PROVE  OneOfEach'
<1>1. \A c \in Cmd : Fresh(c)' => Fresh(c)
  BY BecomeLemma, TaskSorts DEF Fresh
<1>2. \A c \in Cmd : Unplayed(c) => Unplayed(c)'
  BY <1>1 DEF Unplayed
<1>3. IsInjective(queue') /\ ToSet(queue') \subseteq ToSet(queue)
  BY DEF JInv, OneOfEach, IsInjective, ToSet
<1>4. \A i \in DOMAIN queue' : i \in DOMAIN queue /\ queue'[i] = queue[i] /\ queue[i] \in Cmd
  BY ElementOfSeq, LenProperties DEF JInv, Shared
<1>5. ASSUME NEW u \in Task, Starting(task'[u])
      PROVE  Starting(task[u]) /\ task'[u].track = task[u].track /\ task[u].track \in Cmd
  <2>1. Starting(task[u]) /\ task'[u].track = task[u].track
    BY <1>5, BecomeLemma
  <2>2. LocalOK(task[u])
    BY DEF JInv, Locals
  <2> QED  BY <2>1, <2>2 DEF LocalOK
<1>6. ASSUME NEW c \in Cmd, Fresh(c)' PROVE starts'[c] = 0
  BY <1>1, <1>6 DEF JInv, OneOfEach
<1>7. ASSUME NEW i \in DOMAIN queue' PROVE Unplayed(queue[i])'
  <2>1. Unplayed(queue[i])
    BY <1>4, <1>7 DEF JInv, OneOfEach
  <2> QED  BY <1>2, <1>4, <1>7, <2>1 DEF Unplayed, Fresh
<1>8. ASSUME NEW u \in Task, Starting(task'[u])
      PROVE  Unplayed(task[u].track)' /\ task'[u].track \notin ToSet(queue')
  <2>1. Unplayed(task[u].track) /\ task[u].track \notin ToSet(queue)
    BY <1>5, <1>8 DEF JInv, OneOfEach
  <2> QED  BY <1>2, <1>3, <1>5, <1>8, <2>1 DEF Unplayed, Fresh
<1>9. ASSUME NEW u \in Task, NEW v \in Task, Starting(task'[u]), Starting(task'[v]),
             task'[u].track = task'[v].track
      PROVE  u = v
  BY <1>5, <1>9 DEF JInv, OneOfEach
<1> QED
  BY <1>3, <1>6, <1>7, <1>8, <1>9 DEF OneOfEach
--------------------------------------------------------------------------------
(* The calm steps: a task goes on with what it holds.                      *)

Calm(t, r) ==
  /\ r \in TaskState /\ LocalOK(r)
  /\ Become(t, r)
  /\ t \in Cmd \/ task[t].at # "off"
  /\ r.at \notin {"off", "playing", "respawning", "swapping"}
  /\ r.at = "enqueuing" => task[t].at = "off"
  /\ Attached(r) => Attached(task[t]) /\ r.proc = task[t].proc
  /\ Starting(r) => Starting(task[t]) /\ r.track = task[t].track

\* The records shared by all tasks lose a stream or a queue at most.
Undisturbed ==
  /\ Shared' /\ SameProcs
  /\ queue' \in {queue, <<>>} /\ registry' \in {registry, None}
  /\ starts' = starts
  /\ cancelled' \subseteq cancelled \cup {wtask}

(* What a calm step keeps.                                                 *)
LEMMA CalmParts ==
  ASSUME JInv, NEW t \in Task, NEW r, Calm(t, r), Undisturbed
  PROVE  /\ Shared' /\ Locals' /\ CancelledLive' /\ NewProcs'
         /\ RegistryDecodes' /\ TasksDecode' /\ OneOfEach'
<1>1. r \in TaskState /\ LocalOK(r) /\ Become(t, r) /\ r.at # "off"
  BY DEF Calm
<1>2. Locals'
  BY <1>1, LocalsMove
<1>3. NewProcs'
  BY <1>1, NewProcsMove DEF Calm, Undisturbed, SameProcs
<1>4. RegistryDecodes'
  BY RegistryStays DEF Undisturbed
<1>5. TasksDecode'
  BY <1>1, TasksDecodeMove DEF Calm, Undisturbed
<1>6. OneOfEach'
  BY <1>1, OneOfEachMove DEF Calm, Undisturbed
<1>7. CancelledLive'
  BY <1>1, CancelledMove DEF Undisturbed
<1> QED
  BY <1>2, <1>3, <1>4, <1>5, <1>6, <1>7 DEF Undisturbed

(* With the permits and the group's entry a calm step keeps everything.    *)
LEMMA CalmStep ==
  ASSUME JInv, NEW t \in Task, NEW r, Calm(t, r), Undisturbed,
         r.at \in InStart => task[t].at \in InStart,
         permits' = permits + (IF task[t].at \in InStart /\ r.at \notin InStart
                               THEN 1 ELSE 0),
         \/ wtask' = None
         \/ wtask' = wtask /\ (t \in Cmd \/ r.at \notin {"done", "scheduled"})
  PROVE  JInv'
<1>1. r \in TaskState /\ Become(t, r) /\ r.at # "off"
  BY DEF Calm
<1>2. Permits'
  BY <1>1, PermitsMove
<1>3. WatchEntryLive'
  BY <1>1, WatchMove
<1> QED
  BY <1>2, <1>3, CalmParts DEF JInv

(* A task that ends lets go of what it held.                               *)
LEMMA EndStep ==
  ASSUME JInv, NEW t \in Task, t \in Cmd \/ task[t].at # "off", End(t), Undisturbed,
         permits' = permits + (IF task[t].at \in InStart THEN 1 ELSE 0)
  PROVE  JInv'
<1> DEFINE r == At("done")
<1>1. r \in TaskState /\ r.at = "done" /\ r.then = "return"
  BY AtLemma DEF Awaits
<1>2. Become(t, r) /\ (wtask' = None \/ (wtask' = wtask /\ t \in Cmd))
  BY DEF End, WtaskAfter, Task
<1> HIDE DEF r
<1>3. Calm(t, r) /\ r.at \notin InStart
  BY <1>1, <1>2 DEF Calm, LocalOK, Starting, Attached, InStart, InStop
<1> QED
  BY <1>2, <1>3, CalmStep
--------------------------------------------------------------------------------
(* start_stream *)

(* acquire takes a permit, or raises for want of an await.                 *)
LEMMA AcquireKeeps ==
  ASSUME JInv, NEW t \in Task, Acquire(t), UNCHANGED lists
  PROVE  JInv'
<1>1. /\ task[t].at = "acquiring" /\ task[t] \in TaskState /\ LocalOK(task[t])
      /\ permits \in Nat
  BY DEF Acquire, Runs, JInv, Locals, Permits
<1>2. CASE ~ AcquireAwaited
  <2>1. Undisturbed /\ End(t) /\ permits' = permits
    BY <1>2
       DEF Acquire, End, WtaskAfter, Undisturbed, SameProcs, JInv, Shared, lists, history
  <2> QED  BY <1>1, <2>1, EndStep DEF InStart
<1>3. CASE AcquireAwaited
  <2> DEFINE r == [task[t] EXCEPT !.at = "spawning"]
  <2>1. /\ permits > 0 /\ permits' = permits - 1 /\ Become(t, r) /\ wtask' = wtask
        /\ Undisturbed
    BY <1>3 DEF Acquire, Goto, Undisturbed, SameProcs, JInv, Shared, lists, history
  <2>2. r \in TaskState /\ r.at = "spawning" /\ r.track = task[t].track
    BY <1>1, GotoLemma DEF Awaits, InStart
  <2> HIDE DEF r
  <2>3. Calm(t, r)
    BY <1>1, <2>1, <2>2 DEF Calm, LocalOK, Starting, Attached, InStart, InStop
  <2>4. WatchEntryLive'
    BY <2>1, <2>2, WatchMove
  <2>5. Inside' = Inside \cup {t} /\ t \notin Inside
    BY <1>1, <2>1, <2>2, BecomeLemma DEF Inside, InStart
  <2>6. /\ IsFiniteSet(Inside) /\ permits + Cardinality(Inside) = MaxPermits
        /\ IsFiniteSet(Inside') /\ Cardinality(Inside') = Cardinality(Inside) + 1
        /\ Cardinality(Inside) \in Nat
    BY <2>5, FS_AddElement, FS_CardinalityType DEF JInv, Permits
  <2>7. Permits'
    BY <1>1, <2>1, <2>6 DEF Permits
  <2> QED  BY <2>1, <2>3, <2>4, <2>7, CalmParts DEF JInv
<1> QED
  BY <1>2, <1>3

(* What a new process does to the parts that know it.                      *)
LEMMA NewProcess ==
  ASSUME JInv, NEW t \in Task, NEW r \in TaskState, Become(t, r),
         NEW p \in Proc, SpawnProc(p, r.track), r.proc = p, r.track \in Cmd,
         task[t].at \in {"spawning", "respawning"},
         r.at \in {"playing", "swapping"},
         r.at = "swapping" => Decodes(r.entry, r.track) /\ r.entry \in Proc
  PROVE  NewProcs' /\ TasksDecode'
<1>1. /\ proc[p] = "unused" /\ proc'[p] = "run" /\ audio'[p] = r.track
      /\ \A q \in Proc : q # p => proc'[q] = proc[q] /\ audio'[q] = audio[q]
      /\ task[p].at = "off"
  BY DEF SpawnProc, JInv, Shared, NewProcs
<1>2. t # p /\ task'[t] = r /\ p \in Task /\ \A u \in Task : u # t => task'[u] = task[u]
  BY <1>1, BecomeLemma, TaskSorts
<1>3. \A q \in Proc : proc[q] # "unused" => proc'[q] # "unused" /\ q # p
  BY <1>1
<1>4. ASSUME NEW u \in Task, u # t, Attached(task'[u])
      PROVE  /\ task'[u] = task[u] /\ Attached(task[u]) /\ task[u].proc \in Proc
             /\ proc[task[u].proc] # "unused" /\ task[task[u].proc].at = "off"
  <2>1. task'[u] = task[u] /\ Attached(task[u]) /\ LocalOK(task[u])
    BY <1>2, <1>4 DEF JInv, Locals
  <2> QED  BY <2>1 DEF JInv, NewProcs, LocalOK
<1>5. NewProcs'
  <2>1. ASSUME NEW q \in Proc, proc'[q] = "unused" PROVE task'[q].at = "off"
    <3>1. proc[q] = "unused" /\ task[q].at = "off" /\ q \in Task
      BY <1>1, <2>1, TaskSorts DEF JInv, NewProcs
    <3> QED  BY <1>2, <3>1
  <2>2. ASSUME NEW u \in Task, Attached(task'[u])
        PROVE  proc'[task'[u].proc] # "unused" /\ task'[task'[u].proc].at = "off"
    <3>1. CASE u = t
      BY <1>1, <1>2, <3>1
    <3>2. CASE u # t
      <4>1. task[u].proc # t /\ task[u].proc \in Task
        BY <1>4, <2>2, <3>2, TaskSorts
      <4> QED  BY <1>2, <1>3, <1>4, <2>2, <3>2, <4>1
    <3> QED  BY <3>1, <3>2
  <2>3. ASSUME NEW u \in Task, NEW v \in Task, Attached(task'[u]), Attached(task'[v]),
               task'[u].proc = task'[v].proc
        PROVE  u = v
    <3>1. CASE u # t /\ v # t
      BY <1>4, <2>3, <3>1 DEF JInv, NewProcs
    <3>2. CASE u = t /\ v # t
      BY <1>1, <1>2, <1>4, <2>3, <3>2
    <3>3. CASE u # t /\ v = t
      BY <1>1, <1>2, <1>4, <2>3, <3>3
    <3> QED  BY <3>1, <3>2, <3>3
  <2> QED  BY <2>1, <2>2, <2>3 DEF NewProcs
<1>6. \A q \in Proc, c \in Cmd : Decodes(q, c) => Decodes(q, c)'
  BY <1>1, <1>3 DEF Decodes
<1>7. TasksDecode'
  <2>1. ASSUME NEW u \in Task, task'[u].at \in {"playing", "swapping"}
        PROVE  Decodes(task[u].proc, task[u].track)'
    <3>1. CASE u = t
      BY <1>1, <1>2, <3>1 DEF Decodes
    <3>2. CASE u # t
      <4>1. task'[u] = task[u] /\ LocalOK(task[u])
        BY <1>2, <3>2 DEF JInv, Locals
      <4>2. /\ Decodes(task[u].proc, task[u].track)
            /\ task[u].proc \in Proc /\ task[u].track \in Cmd
        BY <2>1, <4>1 DEF JInv, TasksDecode, LocalOK, Attached, InStart
      <4> QED  BY <1>6, <4>1, <4>2 DEF Decodes
    <3> QED  BY <3>1, <3>2
  <2>2. ASSUME NEW u \in Task, task'[u].at \in {"respawning", "swapping"}
        PROVE  Decodes(task[u].entry, task[u].track)'
    <3>1. CASE u = t
      BY <1>2, <1>6, <2>2, <3>1 DEF Decodes
    <3>2. CASE u # t
      <4>1. task'[u] = task[u] /\ LocalOK(task[u])
        BY <1>2, <3>2 DEF JInv, Locals
      <4>2. /\ Decodes(task[u].entry, task[u].track)
            /\ task[u].entry \in Proc /\ task[u].track \in Cmd
        BY <2>2, <4>1 DEF JInv, TasksDecode, LocalOK, Attached, InStart
      <4> QED  BY <1>6, <4>1, <4>2 DEF Decodes
    <3> QED  BY <3>1, <3>2
  <2> QED  BY <2>1, <2>2 DEF TasksDecode
<1> QED
  BY <1>5, <1>7

(* Nor does it touch the process of the registered stream.                 *)
LEMMA RegistryOutlivesSpawn ==
  ASSUME JInv, NEW p \in Proc, NEW c, SpawnProc(p, c), registry' = registry
  PROVE  RegistryDecodes'
<1> SUFFICES ASSUME registry # None
             PROVE  /\ Decodes(registry.entry, registry.track)'
                    /\ Decodes(registry.proc, registry.track)'
  BY DEF RegistryDecodes
<1>1. /\ registry.entry \in Proc /\ registry.proc \in Proc
      /\ Decodes(registry.entry, registry.track) /\ Decodes(registry.proc, registry.track)
  BY DEF JInv, Shared, Entry, RegistryDecodes
<1> QED
  BY <1>1 DEF Decodes, SpawnProc, JInv, Shared

(* The track is started: nobody else holds it, and it does not wait.       *)
LEMMA SpawnKeeps ==
  ASSUME JInv, NEW t \in Task, Spawn(t), UNCHANGED lists
  PROVE  JInv'
<1> DEFINE c == task[t].track
<1>1. /\ task[t].at = "spawning" /\ task[t] \in TaskState /\ Starting(task[t])
      /\ c \in Cmd /\ starts[c] = 0 /\ ~ Fresh(c) /\ c \notin ToSet(queue)
      /\ permits \in Nat
  BY DEF Spawn, Runs, JInv, Locals, Permits, LocalOK, Starting, OneOfEach, Unplayed
<1>2. PICK p \in Proc : /\ SpawnProc(p, c)
                        /\ Become(t, [task[t] EXCEPT !.at = "playing", !.proc = p])
  BY DEF Spawn
<1> DEFINE r == [task[t] EXCEPT !.at = "playing", !.proc = p]
<1>3. r \in TaskState /\ r.at = "playing" /\ r.proc = p /\ r.track = c
  BY <1>1 DEF TaskState, Awaits, InStart
<1>4. /\ Become(t, r)
      /\ starts' = [starts EXCEPT ![c] = @ + 1]
      /\ UNCHANGED <<stored, registry, wtask, permits, cancelled, queue, shadow>>
  BY <1>2 DEF Spawn, lists
<1> HIDE DEF r, c
<1>5. Shared'
  <2>1. starts' \in [Cmd -> {0, 1}]
    BY <1>1, <1>4 DEF JInv, Shared
  <2>2. proc' \in [Proc -> {"unused", "run", "termed"} \cup Exited]
    BY <1>2 DEF SpawnProc, JInv, Shared
  <2>3. audio' \in [Proc -> Cmd \cup {None}]
    BY <1>1, <1>2 DEF SpawnProc, JInv, Shared
  <2> QED  BY <1>4, <2>1, <2>2, <2>3 DEF JInv, Shared
<1>6. LocalOK(r)
  BY <1>1, <1>3 DEF LocalOK, Starting, Attached, InStop
<1>7. Locals'
  BY <1>3, <1>4, <1>6, LocalsMove
<1>8. Permits'
  BY <1>1, <1>3, <1>4, PermitsMove DEF InStart
<1>9. WatchEntryLive'
  BY <1>3, <1>4, WatchMove
<1>10. NewProcs' /\ TasksDecode'
  BY <1>1, <1>2, <1>3, <1>4, NewProcess
<1>11. RegistryDecodes'
  BY <1>2, <1>4, RegistryOutlivesSpawn
<1>12. OneOfEach'
  <2>1. \A d \in Cmd : Fresh(d)' <=> Fresh(d)
    BY <1>1, <1>3, <1>4, BecomeLemma, TaskSorts DEF Fresh
  <2>2. \A d \in Cmd : d # c => starts'[d] = starts[d]
    BY <1>1, <1>4 DEF JInv, Shared
  <2>3. \A d \in Cmd : d # c /\ Unplayed(d) => Unplayed(d)'
    BY <2>1, <2>2 DEF Unplayed
  <2>4. \A d \in Cmd : Fresh(d)' => starts'[d] = 0
    BY <1>1, <2>1, <2>2 DEF JInv, OneOfEach
  <2>5. ASSUME NEW i \in DOMAIN queue PROVE Unplayed(queue[i])'
    <3>1. queue[i] \in Cmd /\ queue[i] # c
      BY <1>1, ElementOfSeq, LenProperties DEF JInv, Shared, ToSet
    <3>2. Unplayed(queue[i])
      BY DEF JInv, OneOfEach
    <3> QED  BY <1>4, <2>3, <3>1, <3>2 DEF Unplayed, Fresh
  <2>6. ASSUME NEW u \in Task, Starting(task'[u])
        PROVE  u # t /\ task'[u] = task[u] /\ Starting(task[u]) /\ task[u].track \in Cmd \ {c}
    <3>1. u # t
      BY <1>3, <1>4, <2>6, BecomeLemma DEF Starting, InStop
    <3>2. task'[u] = task[u] /\ LocalOK(task[u])
      BY <1>3, <1>4, <3>1, BecomeLemma DEF JInv, Locals
    <3> QED  BY <1>1, <2>6, <3>1, <3>2 DEF JInv, OneOfEach, LocalOK, c
  <2>7. ASSUME NEW u \in Task, Starting(task'[u])
        PROVE  Unplayed(task[u].track)' /\ task'[u].track \notin ToSet(queue')
    <3>1. Unplayed(task[u].track) /\ task[u].track \notin ToSet(queue)
      BY <2>6, <2>7 DEF JInv, OneOfEach
    <3> QED  BY <1>4, <2>3, <2>6, <2>7, <3>1 DEF Unplayed, Fresh
  <2>8. ASSUME NEW u \in Task, NEW v \in Task, Starting(task'[u]), Starting(task'[v]),
               task'[u].track = task'[v].track
        PROVE  u = v
    BY <2>6, <2>8 DEF JInv, OneOfEach
  <2>9. IsInjective(queue') /\ queue' = queue
    BY <1>4 DEF JInv, OneOfEach
  <2> QED  BY <2>4, <2>5, <2>7, <2>8, <2>9 DEF OneOfEach
<1>13. CancelledLive'
  BY <1>3, <1>4, <1>5, CancelledMove
<1> QED
  BY <1>5, <1>7, <1>8, <1>9, <1>10, <1>11, <1>12, <1>13 DEF JInv

(* An exception in start_stream's body gives the permit back.              *)
LEMMA StartFailsKeeps ==
  ASSUME JInv, NEW t \in Task, StartFails(t), UNCHANGED lists
  PROVE  JInv'
<1>1. /\ task[t].at \in {"spawning", "playing", "saving"} /\ End(t)
      /\ permits' = permits + 1
  BY DEF StartFails, Runs
<1>2. Undisturbed
  BY DEF StartFails, End, WtaskAfter, Undisturbed, SameProcs, JInv, Shared, lists, history
<1> QED
  BY <1>1, <1>2, EndStep DEF InStart

(* The new stream is registered with the process that decodes its track.   *)
LEMMA PlayAudioKeeps ==
  ASSUME JInv, NEW t \in Task, PlayAudio(t), UNCHANGED lists
  PROVE  JInv'
<1> DEFINE r == [task[t] EXCEPT !.at = "saving"]
           e == [entry |-> task[t].proc, proc |-> task[t].proc, track |-> task[t].track]
<1>1. /\ task[t].at = "playing" /\ task[t] \in TaskState /\ LocalOK(task[t])
      /\ permits \in Nat
  BY DEF PlayAudio, Runs, JInv, Locals, Permits
<1>2. /\ Become(t, r) /\ registry' = e
      /\ UNCHANGED <<stored, proc, wtask, permits, starts, audio, cancelled, queue, shadow>>
  BY DEF PlayAudio, Goto, history, lists
<1>3. /\ task[t].proc \in Proc /\ task[t].track \in Cmd
      /\ Decodes(task[t].proc, task[t].track)
  BY <1>1 DEF LocalOK, Attached, InStart, JInv, TasksDecode
<1>4. /\ e \in Entry /\ e.entry = task[t].proc /\ e.proc = task[t].proc
      /\ e.track = task[t].track
  BY <1>3 DEF Entry
<1>5. /\ r \in TaskState /\ r.at = "saving" /\ r.then = task[t].then
      /\ r.track = task[t].track /\ r.proc = task[t].proc
  BY <1>1, GotoLemma DEF Awaits, InStart
<1> HIDE DEF r, e
<1>6. LocalOK(r) /\ Attached(r) /\ Attached(task[t]) /\ ~ Starting(r)
  BY <1>1, <1>3, <1>5 DEF LocalOK, Starting, Attached, InStop
<1>7. Shared'
  BY <1>2, <1>4 DEF JInv, Shared
<1>8. Locals'
  BY <1>2, <1>5, <1>6, LocalsMove
<1>9. Permits'
  BY <1>1, <1>2, <1>5, PermitsMove DEF InStart
<1>10. WatchEntryLive'
  BY <1>2, <1>5, WatchMove
<1>11. NewProcs'
  BY <1>1, <1>2, <1>5, <1>6, NewProcsMove
<1>12. SameProcs
  BY <1>2 DEF SameProcs
<1>13. RegistryDecodes'
  BY <1>2, <1>3, <1>4 DEF RegistryDecodes, Decodes
<1>14. TasksDecode'
  BY <1>2, <1>5, <1>12, TasksDecodeMove
<1>15. OneOfEach'
  BY <1>1, <1>2, <1>5, <1>6, OneOfEachMove
<1>16. CancelledLive'
  BY <1>2, <1>5, <1>7, CancelledMove
<1> QED
  BY <1>7, <1>8, <1>9, <1>10, <1>11, <1>13, <1>14, <1>15, <1>16 DEF JInv

(* The playback state is written before the watch is scheduled.            *)
LEMMA SavePlayingKeeps ==
  ASSUME JInv, NEW t \in Task, SavePlaying(t), UNCHANGED lists
  PROVE  JInv'
<1> DEFINE r == [task[t] EXCEPT !.at = "launching"]
<1>1. /\ task[t].at = "saving" /\ task[t] \in TaskState /\ LocalOK(task[t])
      /\ permits \in Nat /\ task[t].track \in Cmd
  BY DEF SavePlaying, Runs, JInv, Locals, Permits, LocalOK, InStart
<1>2. Become(t, r) /\ permits' = permits /\ wtask' = wtask
  BY DEF SavePlaying, Goto
<1>3. /\ r \in TaskState /\ r.at = "launching" /\ r.then = task[t].then
      /\ r.track = task[t].track /\ r.proc = task[t].proc
  BY <1>1, GotoLemma DEF Awaits, InStart
<1> HIDE DEF r
<1>4. Calm(t, r)
  BY <1>1, <1>2, <1>3 DEF Calm, LocalOK, Starting, Attached, InStart, InStop
<1>5. Undisturbed
  BY <1>1 DEF SavePlaying, Undisturbed, SameProcs, JInv, Shared, Stored, lists, history
<1> QED
  BY <1>1, <1>2, <1>3, <1>4, <1>5, CalmStep DEF InStart

(* A task ends and the watch of the process it spawned is scheduled: that  *)
(* process never had a task.                                               *)
LEMMA WatchScheduled ==
  ASSUME JInv, NEW t \in Task, Attached(task[t]),
         task' = [task EXCEPT ![t] = At("done"), ![task[t].proc] = At("scheduled")],
         wtask' \in {None, WtaskAfter(t)},
         UNCHANGED <<proc, queue, starts, audio, cancelled>>
  PROVE  /\ Locals' /\ WatchEntryLive' /\ CancelledLive' /\ NewProcs' /\ TasksDecode' /\ OneOfEach'
         /\ Inside' = Inside \ {t}
<1> DEFINE n == task[t].proc
<1>1. /\ n \in Proc /\ n \in Task /\ task[n].at = "off" /\ proc[n] # "unused"
      /\ n \notin Cmd /\ task \in [Task -> TaskState]
  BY TaskSorts DEF JInv, Locals, LocalOK, NewProcs
<1>2. n # t
  BY <1>1 DEF Attached
<1>3. /\ At("done") \in TaskState /\ At("done").at = "done" /\ At("done").then = "return"
      /\ At("scheduled") \in TaskState /\ At("scheduled").at = "scheduled"
      /\ At("scheduled").then = "return"
  BY AtLemma DEF Awaits
<1> HIDE DEF n
<1>4. /\ task' \in [Task -> TaskState]
      /\ task'[t] = At("done") /\ task'[n] = At("scheduled")
      /\ \A u \in Task : u # t /\ u # n => task'[u] = task[u]
  BY <1>1, <1>2, <1>3 DEF n
<1>5. \A u \in Task : \/ task'[u] = task[u] /\ u # t /\ u # n
                      \/ task'[u].at \in {"done", "scheduled"} /\ u \in {t, n}
  BY <1>3, <1>4
<1>6. \A u \in Task : Attached(task'[u]) \/ Starting(task'[u])
                         \/ task'[u].at \in InStart \cup {"respawning", "swapping"}
                         => u # t /\ u # n /\ task'[u] = task[u]
  BY <1>5 DEF Attached, Starting, InStart, InStop
<1>7. Locals'
  <2>1. ASSUME NEW u \in Task PROVE LocalOK(task[u])'
    <3>1. LocalOK(task[u])
      BY DEF JInv, Locals
    <3> QED  BY <1>5, <3>1 DEF LocalOK, Starting, Attached, InStart, InStop
  <2> QED  BY <1>4, <2>1 DEF Locals
<1>8. WatchEntryLive'
  <2> SUFFICES ASSUME wtask' # None PROVE task'[wtask'].at \notin {"off", "done", "scheduled"}
    BY DEF WatchEntryLive, Running
  <2>1. wtask' = wtask /\ t \notin Proc /\ wtask \in Proc /\ wtask \in Task
    BY TaskSorts DEF WtaskAfter, JInv, Shared
  <2>2. task[wtask].at \notin {"off", "done", "scheduled"}
    BY <2>1 DEF JInv, WatchEntryLive, Running
  <2> QED  BY <1>1, <1>4, <2>1, <2>2
<1>9. NewProcs'
  <2>1. ASSUME NEW p \in Proc, proc'[p] = "unused" PROVE task'[p].at = "off"
    <3>1. p \in Task /\ task[p].at = "off" /\ p # n
      BY <1>1, <2>1, TaskSorts DEF JInv, NewProcs
    <3>2. p # t
      BY <3>1 DEF Attached
    <3> QED  BY <1>4, <3>1, <3>2
  <2>2. ASSUME NEW u \in Task, Attached(task'[u])
        PROVE  /\ task'[u] = task[u] /\ u # t /\ u # n /\ task[u].proc # n
               /\ task[u].proc \in Proc /\ task[u].proc \in Task
               /\ proc[task[u].proc] # "unused" /\ task[task[u].proc].at = "off"
    <3>1. task'[u] = task[u] /\ u # t /\ u # n
      BY <1>6, <2>2
    <3>2. Attached(task[u]) /\ LocalOK(task[u])
      BY <2>2, <3>1 DEF JInv, Locals
    <3> QED  BY <3>1, <3>2, TaskSorts DEF JInv, NewProcs, LocalOK, n
  <2>3. ASSUME NEW u \in Task, Attached(task'[u])
        PROVE  proc'[task'[u].proc] # "unused" /\ task'[task'[u].proc].at = "off"
    <3>1. task[u].proc # t
      BY <2>2, <2>3 DEF Attached
    <3> QED  BY <1>4, <2>2, <2>3, <3>1
  <2>4. ASSUME NEW u \in Task, NEW v \in Task, Attached(task'[u]), Attached(task'[v]),
               task'[u].proc = task'[v].proc
        PROVE  u = v
    BY <2>2, <2>4 DEF JInv, NewProcs
  <2> QED  BY <2>1, <2>3, <2>4 DEF NewProcs
<1>10. TasksDecode'
  <2>1. ASSUME NEW u \in Task, task'[u].at \in {"playing", "respawning", "swapping"}
        PROVE  task'[u] = task[u]
    BY <1>5, <2>1
  <2> QED  BY <2>1 DEF JInv, TasksDecode, Decodes
<1>11. OneOfEach'
  <2>1. \A c \in Cmd : Fresh(c)' => Fresh(c)
    BY <1>5, TaskSorts DEF Fresh
  <2>2. \A c \in Cmd : Unplayed(c) => Unplayed(c)'
    BY <2>1 DEF Unplayed
  <2>3. \A c \in Cmd : Fresh(c)' => starts'[c] = 0
    BY <2>1 DEF JInv, OneOfEach
  <2>4. ASSUME NEW i \in DOMAIN queue PROVE Unplayed(queue[i])'
    <3>1. queue[i] \in Cmd /\ Unplayed(queue[i])
      BY ElementOfSeq, LenProperties DEF JInv, Shared, OneOfEach
    <3> QED  BY <2>2, <3>1 DEF Unplayed, Fresh
  <2>5. ASSUME NEW u \in Task, Starting(task'[u])
        PROVE  task'[u] = task[u] /\ Starting(task[u]) /\ task[u].track \in Cmd
    <3>1. task'[u] = task[u] /\ LocalOK(task[u])
      BY <1>6, <2>5 DEF JInv, Locals
    <3> QED  BY <2>5, <3>1 DEF LocalOK
  <2>6. ASSUME NEW u \in Task, Starting(task'[u])
        PROVE  Unplayed(task[u].track)' /\ task'[u].track \notin ToSet(queue')
    <3>1. Unplayed(task[u].track) /\ task[u].track \notin ToSet(queue)
      BY <2>5, <2>6 DEF JInv, OneOfEach
    <3> QED  BY <2>2, <2>5, <2>6, <3>1 DEF Unplayed, Fresh
  <2>7. ASSUME NEW u \in Task, NEW v \in Task, Starting(task'[u]), Starting(task'[v]),
               task'[u].track = task'[v].track
        PROVE  u = v
    BY <2>5, <2>7 DEF JInv, OneOfEach
  <2> QED  BY <2>3, <2>4, <2>6, <2>7 DEF JInv, OneOfEach
<1>12. Inside' = Inside \ {t}
  <2>1. \A u \in Task : task'[u].at \in InStart <=> (task[u].at \in InStart /\ u # t)
    BY <1>1, <1>3, <1>4, <1>5 DEF InStart
  <2> QED  BY <2>1 DEF Inside
<1>13. CancelledLive'
  <2> SUFFICES ASSUME NEW u \in cancelled PROVE task'[u].at # "off"
    BY DEF CancelledLive
  <2>1. u \in Task /\ task[u].at # "off"
    BY TaskSorts DEF JInv, Shared, CancelledLive
  <2> QED  BY <1>5, <2>1
<1> QED
  BY <1>7, <1>8, <1>9, <1>10, <1>11, <1>12, <1>13

(* start_stream returns: the permit is back, the watch is scheduled.       *)
LEMMA LaunchKeeps ==
  ASSUME JInv, NEW t \in Task, Launch(t), UNCHANGED lists
  PROVE  JInv'
<1>1. /\ task[t].at = "launching" /\ Attached(task[t])
      /\ task' = [task EXCEPT ![t] = At("done"), ![task[t].proc] = At("scheduled")]
      /\ wtask' = WtaskAfter(t) /\ permits' = permits + 1
      /\ UNCHANGED <<stored, registry, proc, starts, audio, cancelled, queue, shadow>>
  BY DEF Launch, Runs, Attached, history, lists
<1>2. /\ Locals' /\ WatchEntryLive' /\ CancelledLive' /\ NewProcs'
      /\ TasksDecode' /\ OneOfEach'
      /\ Inside' = Inside \ {t}
  BY <1>1, WatchScheduled
<1>3. t \in Inside
  BY <1>1 DEF Inside, InStart
<1>4. /\ permits \in Nat /\ IsFiniteSet(Inside)
      /\ permits + Cardinality(Inside) = MaxPermits
      /\ IsFiniteSet(Inside') /\ Cardinality(Inside') = Cardinality(Inside) - 1
      /\ Cardinality(Inside) \in Nat
  BY <1>2, <1>3, FS_RemoveElement, FS_CardinalityType DEF JInv, Permits
<1>5. Permits'
  BY <1>1, <1>4 DEF Permits
<1>6. Shared'
  BY <1>1 DEF JInv, Shared, WtaskAfter
<1>7. RegistryDecodes'
  BY <1>1, RegistryStays DEF SameProcs
<1> QED
  BY <1>2, <1>5, <1>6, <1>7 DEF JInv
--------------------------------------------------------------------------------
(* stop_stream *)

(* Where the caller of stop_stream goes on.                                *)
LEMMA StopReturnsKeeps ==
  ASSUME JInv, NEW t \in Task, task[t].at \in {"stopping", "dropping"}, StopReturns(t),
         Undisturbed, permits' = permits
  PROVE  JInv'
<1>1. task[t] \in TaskState /\ LocalOK(task[t]) /\ permits \in Nat
  BY DEF JInv, Locals, Permits
<1>2. CASE task[t].then = "start"
  <2> DEFINE r == [task[t] EXCEPT !.at = "acquiring"]
  <2>1. Become(t, r) /\ wtask' = wtask
    BY <1>2 DEF StopReturns, Goto
  <2>2. r \in TaskState /\ r.at = "acquiring" /\ r.track = task[t].track
    BY <1>1, GotoLemma DEF Awaits
  <2> HIDE DEF r
  <2>3. Calm(t, r)
    BY <1>1, <1>2, <2>1, <2>2 DEF Calm, LocalOK, Starting, Attached, InStart, InStop
  <2> QED  BY <1>1, <2>1, <2>2, <2>3, CalmStep DEF InStart
<1>3. CASE task[t].then = "dequeue"
  <2> DEFINE r == [task[t] EXCEPT !.at = "dequeuing"]
  <2>1. Become(t, r) /\ wtask' = wtask
    BY <1>3 DEF StopReturns, Goto
  <2>2. r \in TaskState /\ r.at = "dequeuing"
    BY <1>1, GotoLemma DEF Awaits
  <2> HIDE DEF r
  <2>3. Calm(t, r)
    BY <1>1, <2>1, <2>2 DEF Calm, LocalOK, Starting, Attached, InStart, InStop
  <2> QED  BY <1>1, <2>1, <2>2, <2>3, CalmStep DEF InStart
<1>4. CASE task[t].then \notin {"start", "dequeue"}
  <2>1. End(t)
    BY <1>4 DEF StopReturns
  <2> QED  BY <1>1, <2>1, EndStep DEF InStart
<1> QED
  BY <1>2, <1>3, <1>4

(* The steps inside stop_stream carry the next track along.                *)
LEMMA StopGoesOn ==
  ASSUME JInv, NEW t \in Task, NEW r \in TaskState, Become(t, r),
         task[t].at \in InStop, r.at \in InStop,
         r.then = task[t].then, r.track = task[t].track,
         r.at \in {"stopping", "reaping", "leaving", "cancelling"} => r.then # "rewatch",
         Undisturbed, permits' = permits, wtask' = wtask
  PROVE  JInv'
<1>1. LocalOK(task[t]) /\ permits \in Nat
  BY DEF JInv, Locals, Permits
<1>2. Calm(t, r)
  BY <1>1 DEF Calm, LocalOK, Starting, Attached, InStart, InStop
<1> QED
  BY <1>1, <1>2, CalmStep DEF InStart, InStop

(* Every step of stop_stream, its failures included.                       *)
LEMMA StopStreamKeeps ==
  ASSUME JInv, NEW t \in Task, UNCHANGED lists,
         \/ NoActiveStream(t) \/ Terminate(t) \/ TerminateRaises(t) \/ StopFails(t)
         \/ Reap(t) \/ Leave(t) \/ Unwatched(t) \/ SaveIdle(t) \/ Drop(t)
  PROVE  JInv'
<1>1. /\ task[t] \in TaskState /\ LocalOK(task[t]) /\ permits \in Nat
      /\ None \notin Proc /\ t \in Task
  BY TaskSorts DEF JInv, Locals, Permits
<1>2. CASE NoActiveStream(t)
  <2>1. task[t].at = "stopping" /\ StopReturns(t) /\ permits' = permits
    BY <1>2 DEF NoActiveStream, Runs
  <2>2. wtask' \in Proc \cup {None}
    BY <2>1 DEF StopReturns, End, WtaskAfter, JInv, Shared
  <2>3. Undisturbed
    BY <1>2, <2>2 DEF NoActiveStream, Undisturbed, SameProcs, JInv, Shared, lists, history
  <2> QED  BY <2>1, <2>3, StopReturnsKeeps
<1>3. CASE Terminate(t)
  <2> DEFINE r == [task[t] EXCEPT !.at = "reaping", !.proc = registry.proc]
  <2>1. /\ task[t].at = "stopping" /\ Become(t, r) /\ registry # None
        /\ permits' = permits /\ wtask' = wtask /\ registry.proc \in Proc
    BY <1>3 DEF Terminate, Runs, JInv, Shared, Entry
  <2>2. /\ r \in TaskState /\ r.at = "reaping" /\ r.then = task[t].then
        /\ r.track = task[t].track
    BY <1>1, <2>1 DEF TaskState, Awaits, InStop
  <2> HIDE DEF r
  <2>3. Undisturbed
    <3>1. /\ proc' = [proc EXCEPT ![registry.proc] = IF @ = "run" THEN "termed" ELSE @]
          /\ UNCHANGED <<stored, registry, wtask, permits, starts, audio, cancelled, queue, shadow>>
      BY <1>3 DEF Terminate, history, lists
    <3>2. proc' \in [Proc -> {"unused", "run", "termed"} \cup Exited]
      BY <2>1, <3>1 DEF JInv, Shared
    <3>3. \A p \in Proc : proc'[p] = "unused" <=> proc[p] = "unused"
      BY <2>1, <3>1 DEF JInv, Shared
    <3> QED  BY <3>1, <3>2, <3>3 DEF Undisturbed, SameProcs, JInv, Shared
  <2>4. r.then # "rewatch"
    BY <1>1, <2>1, <2>2 DEF LocalOK
  <2> QED  BY <2>1, <2>2, <2>3, <2>4, StopGoesOn DEF InStop
<1>4. CASE StopFails(t)
  <2>1. /\ task[t].at \in {"stopping", "leaving", "idling", "dropping"} /\ End(t)
        /\ permits' = permits
    BY <1>4 DEF StopFails, Runs
  <2>2. Undisturbed
    BY <1>4, <2>1
       DEF StopFails, End, WtaskAfter, Undisturbed, SameProcs, JInv, Shared, lists, history
  <2> QED  BY <1>1, <2>1, <2>2, EndStep DEF InStart
<1>5. CASE Reap(t)
  <2> DEFINE r == [task[t] EXCEPT !.at = "leaving", !.proc = None]
  <2>1. /\ task[t].at = "reaping" /\ Become(t, r)
        /\ UNCHANGED <<engine, cancelled, queue, shadow>>
    BY <1>5 DEF Reap, Runs, lists
  <2>2. /\ r \in TaskState /\ r.at = "leaving" /\ r.then = task[t].then
        /\ r.track = task[t].track
    BY <1>1 DEF TaskState, Awaits, InStop
  <2> HIDE DEF r
  <2>3. Undisturbed /\ permits' = permits /\ wtask' = wtask
    BY <2>1 DEF Undisturbed, SameProcs, JInv, Shared, engine, history
  <2>4. r.then # "rewatch"
    BY <1>1, <2>1, <2>2 DEF LocalOK
  <2> QED  BY <2>1, <2>2, <2>3, <2>4, StopGoesOn DEF InStop
<1>6. CASE Leave(t)
  <2>1. /\ task[t].at = "leaving" /\ task[t].then # "rewatch"
        /\ UNCHANGED <<engine, queue, shadow>>
    BY <1>1, <1>6 DEF Leave, Runs, LocalOK, lists
  <2>2. CASE wtask = None
    <3> DEFINE r == [task[t] EXCEPT !.at = "idling"]
    <3>1. Become(t, r) /\ cancelled' = cancelled
      BY <1>6, <2>2 DEF Leave, Goto
    <3>2. /\ r \in TaskState /\ r.at = "idling" /\ r.then = task[t].then
          /\ r.track = task[t].track
      BY <1>1, GotoLemma DEF Awaits, InStop
    <3> HIDE DEF r
    <3>3. Undisturbed /\ permits' = permits /\ wtask' = wtask
      BY <2>1, <3>1 DEF Undisturbed, SameProcs, JInv, Shared, engine, history
    <3> QED  BY <2>1, <3>1, <3>2, <3>3, StopGoesOn DEF InStop
  <2>3. CASE wtask # None
    <3> DEFINE r == [task[t] EXCEPT !.at = "cancelling", !.target = wtask]
    <3>1. Become(t, r) /\ cancelled' \in {cancelled, cancelled \cup {wtask}} /\ wtask \in Proc
      BY <1>6, <2>3 DEF Leave, StopWatchdog, JInv, Shared
    <3>2. /\ r \in TaskState /\ r.at = "cancelling" /\ r.then = task[t].then
          /\ r.track = task[t].track
      BY <1>1, <3>1 DEF TaskState, Awaits, InStop, Task
    <3> HIDE DEF r
    <3>3. cancelled' \subseteq Proc /\ cancelled' \subseteq cancelled \cup {wtask}
      BY <3>1 DEF JInv, Shared
    <3>4. Undisturbed /\ permits' = permits /\ wtask' = wtask
      BY <2>1, <3>3 DEF Undisturbed, SameProcs, JInv, Shared, engine, history
    <3> QED  BY <2>1, <3>1, <3>2, <3>4, StopGoesOn DEF InStop
  <2> QED  BY <2>2, <2>3
<1>7. CASE Unwatched(t)
  <2> DEFINE r == [task[t] EXCEPT !.at = "idling", !.target = None]
  <2>1. /\ task[t].at = "cancelling" /\ Become(t, r)
        /\ UNCHANGED <<engine, cancelled, queue, shadow>>
    BY <1>7 DEF Unwatched, WatchdogStopped, Runs, lists
  <2>2. /\ r \in TaskState /\ r.at = "idling" /\ r.then = task[t].then
        /\ r.track = task[t].track
    BY <1>1 DEF TaskState, Awaits, InStop
  <2> HIDE DEF r
  <2>3. Undisturbed /\ permits' = permits /\ wtask' = wtask
    BY <2>1 DEF Undisturbed, SameProcs, JInv, Shared, engine, history
  <2> QED  BY <2>1, <2>2, <2>3, StopGoesOn DEF InStop
<1>8. CASE SaveIdle(t)
  <2> DEFINE r == [task[t] EXCEPT !.at = "dropping"]
  <2>1. /\ task[t].at = "idling" /\ Become(t, r) /\ stored' = Idle
        /\ UNCHANGED <<registry, proc, wtask, permits, history, cancelled, queue, shadow>>
    BY <1>8 DEF SaveIdle, Runs, Goto, lists
  <2>2. /\ r \in TaskState /\ r.at = "dropping" /\ r.then = task[t].then
        /\ r.track = task[t].track
    BY <1>1, GotoLemma DEF Awaits, InStop
  <2> HIDE DEF r
  <2>3. Idle \in Stored
    BY DEF Idle, Stored
  <2>4. Undisturbed /\ permits' = permits /\ wtask' = wtask
    BY <2>1, <2>3 DEF Undisturbed, SameProcs, JInv, Shared, history
  <2> QED  BY <2>1, <2>2, <2>4, StopGoesOn DEF InStop
<1>9. CASE Drop(t)
  <2>1. task[t].at = "dropping" /\ StopReturns(t) /\ permits' = permits
    BY <1>9 DEF Drop, Runs
  <2>2. wtask' \in Proc \cup {None}
    BY <2>1 DEF StopReturns, End, WtaskAfter, JInv, Shared
  <2>3. Undisturbed
    BY <1>9, <2>2 DEF Drop, Undisturbed, SameProcs, JInv, Shared, lists, history
  <2> QED  BY <2>1, <2>3, StopReturnsKeeps
<1>10. CASE TerminateRaises(t)
  <2>1. /\ task[t].at = "stopping" /\ End(t) /\ permits' = permits /\ registry # None
        /\ registry.proc \in Proc /\ proc[registry.proc] \in Exited
        /\ proc' = [proc EXCEPT ![registry.proc] = Drops(@)]
        /\ UNCHANGED <<stored, registry, starts, audio, cancelled, queue, shadow>>
    BY <1>10 DEF TerminateRaises, Runs, JInv, Shared, Entry, history, lists
  <2>2. /\ proc' \in [Proc -> {"unused", "run", "termed"} \cup Exited]
        /\ \A p \in Proc : proc'[p] = "unused" <=> proc[p] = "unused"
    BY <2>1 DEF JInv, Shared, Drops, Exited, Codes, Dropped
  <2>3. wtask' \in Proc \cup {None}
    BY <2>1 DEF End, WtaskAfter, JInv, Shared
  <2>4. Undisturbed
    BY <2>1, <2>2, <2>3 DEF Undisturbed, SameProcs, JInv, Shared
  <2> QED  BY <1>1, <2>1, <2>4, EndStep DEF InStart
<1> QED
  BY <1>2, <1>3, <1>4, <1>5, <1>6, <1>7, <1>8, <1>9, <1>10
--------------------------------------------------------------------------------
(* pause_stream, resume_stream and the SET of the playback state           *)

(* Every step of a pause, a resume and a volume change.                    *)
LEMMA ToggleKeeps ==
  ASSUME JInv, NEW t \in Task, UNCHANGED lists,
         FindStream(t) \/ Reread(t) \/ WriteBack(t) \/ ToggleFails(t)
  PROVE  JInv'
<1>1. /\ task[t] \in TaskState /\ LocalOK(task[t]) /\ permits \in Nat
  BY DEF JInv, Locals, Permits
<1>2. CASE FindStream(t)
  <2>1. task[t].at = "toggling" /\ permits' = permits
    BY <1>2 DEF FindStream, Runs
  <2>2. CASE registry = None
    <3>1. End(t)
      BY <1>2, <2>2 DEF FindStream
    <3>2. Undisturbed
      BY <1>2, <3>1
         DEF FindStream, End, WtaskAfter, Undisturbed, SameProcs, JInv, Shared, lists, history
    <3> QED  BY <1>1, <2>1, <3>1, <3>2, EndStep DEF InStart
  <2>3. CASE registry # None
    <3> DEFINE r == [task[t] EXCEPT !.at = "rereading"]
    <3>1. Become(t, r) /\ wtask' = wtask
      BY <1>2, <2>3 DEF FindStream, Goto
    <3>2. r \in TaskState /\ r.at = "rereading" /\ r.then = task[t].then
      BY <1>1, GotoLemma DEF Awaits
    <3> HIDE DEF r
    <3>3. Calm(t, r)
      BY <1>1, <2>1, <3>1, <3>2 DEF Calm, LocalOK, Starting, Attached, InStart, InStop
    <3>4. Undisturbed
      BY <1>2, <3>1 DEF FindStream, Undisturbed, SameProcs, JInv, Shared, lists, history
    <3> QED  BY <1>1, <2>1, <3>1, <3>2, <3>3, <3>4, CalmStep DEF InStart
  <2> QED  BY <2>2, <2>3
<1>3. CASE Reread(t)
  <2> DEFINE s == [stored EXCEPT !.status = task[t].then]
             r == [task[t] EXCEPT !.at = "writing", !.snap = s]
  <2>1. /\ task[t].at = "rereading" /\ Become(t, r)
        /\ UNCHANGED <<engine, cancelled, queue, shadow>>
    BY <1>3 DEF Reread, Runs, lists
  <2>2. s \in Stored
    BY <1>1, <2>1 DEF LocalOK, JInv, Shared, Stored
  <2> HIDE DEF s
  <2>3. r \in TaskState /\ r.at = "writing"
    BY <1>1, <2>2 DEF TaskState, Awaits
  <2> HIDE DEF r
  <2>4. Calm(t, r)
    BY <1>1, <2>1, <2>3 DEF Calm, LocalOK, Starting, Attached, InStart, InStop
  <2>5. Undisturbed /\ permits' = permits /\ wtask' = wtask
    BY <2>1 DEF Undisturbed, SameProcs, JInv, Shared, engine, history
  <2> QED  BY <1>1, <2>1, <2>3, <2>4, <2>5, CalmStep DEF InStart
<1>4. CASE WriteBack(t)
  <2>1. task[t].at = "writing" /\ End(t) /\ permits' = permits /\ stored' \in Stored
    BY <1>1, <1>4 DEF WriteBack, Runs, TaskState
  <2>2. Undisturbed
    BY <1>4, <2>1
       DEF WriteBack, End, WtaskAfter, Undisturbed, SameProcs, JInv, Shared, lists, history
  <2> QED  BY <1>1, <2>1, <2>2, EndStep DEF InStart
<1>5. CASE ToggleFails(t)
  <2>1. task[t].at \in {"rereading", "writing"} /\ End(t) /\ permits' = permits
    BY <1>5 DEF ToggleFails, Runs
  <2>2. Undisturbed
    BY <1>5, <2>1
       DEF ToggleFails, End, WtaskAfter, Undisturbed, SameProcs, JInv, Shared, lists, history
  <2> QED  BY <1>1, <2>1, <2>2, EndStep DEF InStart
<1> QED
  BY <1>2, <1>3, <1>4, <1>5
--------------------------------------------------------------------------------
(* The monitor of a process                                                *)

(* A recovery watches its new process in place of the crashed one.         *)
LEMMA RewatchedKeeps ==
  ASSUME JInv, NEW p \in Proc, Attached(task[p]), task[p].at \notin InStart, Rewatched(p),
         Shared', RegistryDecodes',
         UNCHANGED <<proc, queue, starts, audio, cancelled, permits>>
  PROVE  JInv'
<1>1. p \in Task /\ p \notin Inside
  BY TaskSorts DEF Inside
<1>2. /\ Locals' /\ WatchEntryLive' /\ CancelledLive' /\ NewProcs'
      /\ TasksDecode' /\ OneOfEach' /\ Inside' = Inside \ {p}
  BY <1>1, WatchScheduled DEF Rewatched
<1>3. Inside' = Inside
  BY <1>1, <1>2
<1>4. Permits'
  BY <1>3 DEF JInv, Permits
<1> QED
  BY <1>2, <1>4 DEF JInv

(* The registered stream gets the new process only if it is the one that   *)
(* the recovery found, and that process decodes its track.                 *)
LEMMA SwapKeeps ==
  ASSUME JInv, NEW p \in Proc, Swap(p), UNCHANGED lists
  PROVE  JInv'
<1>1. /\ p \in Task /\ task[p].at = "swapping" /\ Attached(task[p])
      /\ task[p] \in TaskState /\ LocalOK(task[p])
      /\ task[p].proc \in Proc /\ task[p].entry \in Proc /\ task[p].track \in Cmd
      /\ Decodes(task[p].proc, task[p].track) /\ Decodes(task[p].entry, task[p].track)
      /\ permits \in Nat
  BY TaskSorts DEF Swap, Runs, JInv, Locals, Permits, LocalOK, Attached, TasksDecode
<1>2. UNCHANGED <<stored, proc, permits, starts, audio, queue, shadow>>
  BY DEF Swap, history, lists
<1>3. registry' \in Entry \cup {None} /\ RegistryDecodes'
  <2>1. CASE registry # None /\ registry.entry = task[p].entry
    <3>1. /\ registry \in Entry /\ registry' = [registry EXCEPT !.proc = task[p].proc]
      BY <2>1 DEF Swap, JInv, Shared
    <3>2. /\ registry' \in Entry /\ registry'.entry = registry.entry
          /\ registry'.track = registry.track /\ registry'.proc = task[p].proc
      BY <1>1, <3>1 DEF Entry
    <3>3. Decodes(registry.entry, registry.track) /\ registry.track = task[p].track
      BY <1>1, <2>1 DEF JInv, RegistryDecodes, Decodes
    <3> QED  BY <1>1, <1>2, <2>1, <3>2, <3>3 DEF RegistryDecodes, Decodes
  <2>2. CASE ~(registry # None /\ registry.entry = task[p].entry)
    <3>1. registry' = registry
      BY <2>2 DEF Swap
    <3> QED  BY <1>2, <3>1 DEF JInv, Shared, RegistryDecodes, Decodes
  <2> QED  BY <2>1, <2>2
<1>4. CASE wtask = None
  <2>1. Rewatched(p) /\ cancelled' = cancelled
    BY <1>4 DEF Swap
  <2>2. Shared'
    BY <1>2, <1>3, <2>1 DEF JInv, Shared, Rewatched
  <2> QED  BY <1>1, <1>2, <1>3, <2>1, <2>2, RewatchedKeeps DEF InStart
<1>5. CASE wtask # None
  <2> DEFINE r == [[task[p] EXCEPT !.then = "rewatch"] EXCEPT !.at = "cancelling", !.target = wtask]
  <2>1. /\ Become(p, r) /\ wtask' = wtask /\ wtask \in Proc
        /\ cancelled' \in {cancelled, cancelled \cup {wtask}}
    BY <1>5 DEF Swap, StopWatchdog, JInv, Shared
  <2>2. /\ r \in TaskState /\ r.at = "cancelling" /\ r.then = "rewatch"
        /\ r.track = task[p].track /\ r.proc = task[p].proc
    BY <1>1, <2>1 DEF TaskState, Awaits, InStop, Task
  <2> HIDE DEF r
  <2>3. LocalOK(r) /\ ~ Starting(r)
    BY <1>1, <2>2 DEF LocalOK, Starting, Attached, InStart, InStop
  <2>4. Shared'
    BY <1>2, <1>3, <2>1 DEF JInv, Shared
  <2>5. Locals'
    BY <1>1, <2>1, <2>2, <2>3, LocalsMove
  <2>6. Permits'
    BY <1>1, <1>2, <2>1, <2>2, PermitsMove DEF InStart
  <2>7. WatchEntryLive'
    BY <1>1, <2>1, <2>2, WatchMove
  <2>8. CancelledLive'
    BY <1>1, <2>1, <2>2, <2>4, CancelledMove
  <2>9. NewProcs'
    BY <1>1, <1>2, <2>1, <2>2, NewProcsMove
  <2>10. TasksDecode'
    BY <1>1, <1>2, <2>1, <2>2, TasksDecodeMove DEF SameProcs
  <2>11. OneOfEach'
    BY <1>1, <1>2, <2>1, <2>2, <2>3, OneOfEachMove
  <2> QED
    BY <1>3, <2>4, <2>5, <2>6, <2>7, <2>8, <2>9, <2>10, <2>11 DEF JInv
<1> QED
  BY <1>4, <1>5

(* A dead process whose exit is seen starts a recovery of what is          *)
(* registered.                                                             *)
LEMMA CrashSeenKeeps ==
  ASSUME JInv, NEW p \in Proc, CrashSeen(p), UNCHANGED lists
  PROVE  JInv'
<1> DEFINE r == [At("respawning") EXCEPT !.entry = registry.entry, !.track = registry.track]
<1>1. /\ p \in Task /\ task[p].at = "polling" /\ registry # None /\ Become(p, r)
      /\ UNCHANGED <<stored, registry, proc, wtask, permits, starts, audio, cancelled,
                     queue, shadow>>
  BY TaskSorts DEF CrashSeen, Runs, engine, history, lists
<1>2. /\ registry.entry \in Proc /\ registry.track \in Cmd
      /\ Decodes(registry.entry, registry.track)
  BY <1>1 DEF JInv, Shared, Entry, RegistryDecodes
<1>3. /\ r \in TaskState /\ r.at = "respawning" /\ r.then = "return"
      /\ r.entry = registry.entry /\ r.track = registry.track
  BY <1>2 DEF At, TaskState, Awaits, Stored, Idle
<1> HIDE DEF r
<1>4. LocalOK(r) /\ ~ Attached(r) /\ ~ Starting(r)
  BY <1>2, <1>3 DEF LocalOK, Starting, Attached, InStart, InStop
<1>5. Shared'
  BY <1>1 DEF JInv, Shared
<1>6. Locals'
  BY <1>1, <1>3, <1>4, LocalsMove
<1>7. Permits'
  <2>1. permits \in Nat
    BY DEF JInv, Permits
  <2> QED  BY <1>1, <1>3, <2>1, PermitsMove DEF InStart
<1>8. WatchEntryLive'
  BY <1>1, <1>3, WatchMove
<1>9. CancelledLive'
  BY <1>1, <1>3, <1>5, CancelledMove
<1>10. NewProcs'
  BY <1>1, <1>3, <1>4, NewProcsMove
<1>11. RegistryDecodes'
  BY <1>1, RegistryStays DEF SameProcs
<1>12. TasksDecode'
  <2>1. ASSUME NEW u \in Task, task'[u].at \in {"playing", "swapping"}
        PROVE  Decodes(task[u].proc, task[u].track)'
    <3>1. task'[u] = task[u]
      BY <1>1, <1>3, <2>1, BecomeLemma
    <3> QED  BY <1>1, <2>1, <3>1 DEF JInv, TasksDecode, Decodes
  <2>2. ASSUME NEW u \in Task, task'[u].at \in {"respawning", "swapping"}
        PROVE  Decodes(task[u].entry, task[u].track)'
    <3>1. CASE u = p
      BY <1>1, <1>2, <1>3, <3>1, BecomeLemma DEF Decodes
    <3>2. CASE u # p
      BY <1>1, <1>3, <2>2, <3>2, BecomeLemma DEF JInv, TasksDecode, Decodes
    <3> QED  BY <3>1, <3>2
  <2> QED  BY <2>1, <2>2 DEF TasksDecode
<1>13. OneOfEach'
  BY <1>1, <1>3, <1>4, OneOfEachMove
<1> QED
  BY <1>5, <1>6, <1>7, <1>8, <1>9, <1>10, <1>11, <1>12, <1>13 DEF JInv

(* A recovery spawns a process for the track it found registered.          *)
LEMMA RespawnKeeps ==
  ASSUME JInv, NEW p \in Proc, Respawn(p), UNCHANGED lists
  PROVE  JInv'
<1> DEFINE c == task[p].track
<1>1. /\ p \in Task /\ task[p].at = "respawning" /\ task[p] \in TaskState
      /\ LocalOK(task[p]) /\ c \in Cmd /\ task[p].entry \in Proc
      /\ Decodes(task[p].entry, c) /\ permits \in Nat
  BY TaskSorts DEF Respawn, Runs, JInv, Locals, Permits, LocalOK, TasksDecode
<1>2. PICK n \in Proc : /\ SpawnProc(n, c)
                        /\ Become(p, [task[p] EXCEPT !.at = "swapping", !.proc = n])
  BY DEF Respawn
<1> DEFINE r == [task[p] EXCEPT !.at = "swapping", !.proc = n]
<1>3. /\ r \in TaskState /\ r.at = "swapping" /\ r.proc = n /\ r.track = c
      /\ r.entry = task[p].entry
  BY <1>1 DEF TaskState, Awaits
<1>4. /\ Become(p, r)
      /\ UNCHANGED <<stored, registry, wtask, permits, starts, cancelled, queue, shadow>>
  BY <1>2 DEF Respawn, lists
<1> HIDE DEF r, c
<1>5. Shared'
  <2>1. proc' \in [Proc -> {"unused", "run", "termed"} \cup Exited]
    BY <1>2 DEF SpawnProc, JInv, Shared
  <2>2. audio' \in [Proc -> Cmd \cup {None}]
    BY <1>1, <1>2 DEF SpawnProc, JInv, Shared
  <2> QED  BY <1>4, <2>1, <2>2 DEF JInv, Shared
<1>6. LocalOK(r) /\ ~ Starting(r)
  BY <1>1, <1>3 DEF LocalOK, Starting, Attached, InStart, InStop
<1>7. Locals'
  BY <1>1, <1>3, <1>4, <1>6, LocalsMove
<1>8. Permits'
  BY <1>1, <1>3, <1>4, PermitsMove DEF InStart
<1>9. WatchEntryLive'
  BY <1>1, <1>3, <1>4, WatchMove
<1>10. NewProcs' /\ TasksDecode'
  BY <1>1, <1>2, <1>3, <1>4, NewProcess
<1>11. RegistryDecodes'
  BY <1>2, <1>4, RegistryOutlivesSpawn
<1>12. CancelledLive'
  BY <1>1, <1>3, <1>4, <1>5, CancelledMove
<1>13. OneOfEach'
  BY <1>1, <1>3, <1>4, <1>6, OneOfEachMove
<1> QED
  BY <1>5, <1>7, <1>8, <1>9, <1>10, <1>11, <1>12, <1>13 DEF JInv

(* The new monitor takes the group's entry.                                *)
LEMMA WatchKeeps ==
  ASSUME JInv, NEW p \in Proc, Watch(p), UNCHANGED lists
  PROVE  JInv'
<1> DEFINE r == [task[p] EXCEPT !.at = "polling"]
<1>1. /\ p \in Task /\ task[p].at = "scheduled" /\ task[p] \in TaskState
      /\ LocalOK(task[p]) /\ permits \in Nat
  BY TaskSorts DEF Watch, Runs, JInv, Locals, Permits
<1>2. /\ Become(p, r) /\ wtask' = p
      /\ UNCHANGED <<stored, registry, proc, permits, starts, audio, cancelled, queue, shadow>>
  BY DEF Watch, Goto, history, lists
<1>3. r \in TaskState /\ r.at = "polling"
  BY <1>1, GotoLemma DEF Awaits
<1> HIDE DEF r
<1>4. Calm(p, r)
  BY <1>1, <1>2, <1>3 DEF Calm, LocalOK, Starting, Attached, InStart, InStop
<1>5. Undisturbed
  BY <1>2 DEF Undisturbed, SameProcs, JInv, Shared
<1>6. Permits'
  BY <1>1, <1>2, <1>3, PermitsMove DEF InStart
<1>7. WatchEntryLive'
  BY <1>1, <1>2, <1>3, BecomeLemma DEF WatchEntryLive, Running
<1> QED
  BY <1>1, <1>4, <1>5, <1>6, <1>7, CalmParts DEF JInv

(* Every step of a monitor.                                                *)
LEMMA MonitorKeeps ==
  ASSUME JInv, NEW p \in Proc, MonitorStep(p), UNCHANGED lists
  PROVE  JInv'
<1>1. /\ p \in Task /\ task[p] \in TaskState /\ LocalOK(task[p]) /\ permits \in Nat
  BY TaskSorts DEF JInv, Locals, Permits
<1>2. CASE Watch(p) \/ CrashSeen(p) \/ Respawn(p) \/ Swap(p)
  BY <1>2, WatchKeeps, CrashSeenKeeps, RespawnKeeps, SwapKeeps
<1>3. CASE StreamGone(p)
  <2>1. task[p].at = "polling" /\ End(p) /\ permits' = permits
    BY <1>3 DEF StreamGone, Runs
  <2>2. Undisturbed
    BY <1>3, <2>1
       DEF StreamGone, End, WtaskAfter, Undisturbed, SameProcs, JInv, Shared, lists, history
  <2> QED  BY <1>1, <2>1, <2>2, EndStep DEF InStart
<1>4. CASE TrackEnds(p)
  <2> DEFINE r == [task[p] EXCEPT !.at = "dequeuing"]
  <2>1. /\ task[p].at = "polling" /\ Become(p, r)
        /\ UNCHANGED <<engine, cancelled, queue, shadow>>
    BY <1>4 DEF TrackEnds, Runs, Goto, lists
  <2>2. r \in TaskState /\ r.at = "dequeuing"
    BY <1>1, GotoLemma DEF Awaits
  <2> HIDE DEF r
  <2>3. Calm(p, r)
    BY <1>1, <2>1, <2>2 DEF Calm, LocalOK, Starting, Attached, InStart, InStop
  <2>4. Undisturbed /\ permits' = permits /\ wtask' = wtask
    BY <2>1 DEF Undisturbed, SameProcs, JInv, Shared, engine, history
  <2> QED  BY <1>1, <2>1, <2>2, <2>3, <2>4, CalmStep DEF InStart
<1>5. CASE RecoveryFails(p)
  <2> DEFINE r == At("stopping")
  <2>1. /\ task[p].at \in {"respawning", "swapping"} /\ Become(p, r)
        /\ UNCHANGED <<engine, cancelled, queue, shadow>>
    BY <1>5 DEF RecoveryFails, Runs, lists
  <2>2. r \in TaskState /\ r.at = "stopping" /\ r.then = "return"
    BY AtLemma DEF Awaits, InStop
  <2> HIDE DEF r
  <2>3. Calm(p, r)
    BY <1>1, <2>1, <2>2 DEF Calm, LocalOK, Starting, Attached, InStart, InStop
  <2>4. Undisturbed /\ permits' = permits /\ wtask' = wtask
    BY <2>1 DEF Undisturbed, SameProcs, JInv, Shared, engine, history
  <2> QED  BY <1>1, <2>1, <2>2, <2>3, <2>4, CalmStep DEF InStart
<1>6. CASE Rewatch(p)
  <2>1. /\ task[p].at = "cancelling" /\ Attached(task[p]) /\ Rewatched(p)
        /\ UNCHANGED <<stored, registry, proc, permits, starts, audio, cancelled, queue, shadow>>
    BY <1>6 DEF Rewatch, WatchdogStopped, Runs, Attached, history, lists
  <2>2. Shared'
    BY <2>1 DEF JInv, Shared, Rewatched
  <2>3. RegistryDecodes'
    BY <2>1, RegistryStays DEF SameProcs
  <2> QED  BY <2>1, <2>2, <2>3, RewatchedKeeps DEF InStart
<1>7. CASE Cancelled(p)
  <2>1. /\ task[p].at # "off" /\ End(p)
        /\ permits' = permits + (IF task[p].at \in InStart THEN 1 ELSE 0)
    BY <1>7 DEF Cancelled, JInv, CancelledLive
  <2>2. Undisturbed
    BY <1>7, <2>1
       DEF Cancelled, End, WtaskAfter, Undisturbed, SameProcs, JInv, Shared, lists, history
  <2> QED  BY <1>1, <2>1, <2>2, EndStep
<1> QED
  BY <1>2, <1>3, <1>4, <1>5, <1>6, <1>7 DEF MonitorStep
--------------------------------------------------------------------------------
(* The handlers and the queue                                              *)

(* A track popped from the queue has one holder, the task that popped it.  *)
LEMMA PopKeeps ==
  ASSUME JInv, NEW t \in Task, task[t].at = "dequeuing", queue # <<>>, DequeueScript,
         NEW r \in TaskState, Become(t, r), LocalOK(r), Starting(r), r.track = Head(queue),
         r.at \in {"acquiring", "stopping"}, UNCHANGED <<engine, cancelled>>
  PROVE  JInv'
<1> DEFINE c == Head(queue)
<1>1. /\ permits \in Nat /\ queue \in Seq(Cmd) /\ shadow \in Seq(Cmd) /\ IsInjective(queue)
      /\ UNCHANGED <<stored, registry, proc, wtask, permits, starts, audio, cancelled>>
      /\ queue' = Tail(queue) /\ shadow' = <<c>> \o shadow
  BY DEF JInv, Permits, Shared, OneOfEach, engine, history, DequeueScript
<1>2. /\ c \in Cmd /\ c \in ToSet(queue) /\ queue' \in Seq(Cmd) /\ IsInjective(queue')
      /\ ToSet(queue') = ToSet(queue) \ {c} /\ shadow' \in Seq(Cmd)
  BY <1>1, TailLemma, PushLemma
<1> HIDE DEF c
<1>3. ~ Attached(r)
  BY DEF Attached
<1>4. \A d \in ToSet(queue) : Unplayed(d) /\ d \in Cmd
  BY <1>1, ElementOfSeq, LenProperties DEF JInv, OneOfEach, ToSet
<1>5. Shared'
  BY <1>1, <1>2 DEF JInv, Shared
<1>6. Locals'
  BY LocalsMove
<1>7. Permits'
  <2>1. r.at \notin InStart /\ task[t].at \notin InStart /\ permits' = permits + 0
    BY <1>1 DEF InStart
  <2> QED  BY <2>1, PermitsMove
<1>8. WatchEntryLive'
  BY <1>1, WatchMove
<1>9. CancelledLive'
  BY <1>1, <1>5, CancelledMove
<1>10. NewProcs'
  BY <1>1, <1>3, NewProcsMove
<1>11. SameProcs
  BY <1>1 DEF SameProcs
<1>12. RegistryDecodes'
  BY <1>1, <1>11, RegistryStays
<1>13. TasksDecode'
  BY <1>11, TasksDecodeMove
<1>14. OneOfEach'
  <2>1. \A d \in Cmd : Fresh(d)' => Fresh(d)
    BY BecomeLemma, TaskSorts DEF Fresh
  <2>2. \A d \in Cmd : Unplayed(d) => Unplayed(d)'
    BY <1>1, <2>1 DEF Unplayed
  <2>3. \A d \in Cmd : Fresh(d)' => starts'[d] = 0
    BY <1>1, <2>1 DEF JInv, OneOfEach
  <2>4. ASSUME NEW i \in DOMAIN queue' PROVE Unplayed(queue[i])'
    <3>1. queue'[i] \in ToSet(queue)
      BY <1>2 DEF ToSet
    <3> QED  BY <1>4, <2>2, <3>1 DEF Unplayed, Fresh
  <2>5. ASSUME NEW u \in Task, Starting(task'[u])
        PROVE  \/ u = t /\ task'[u].track = c
               \/ /\ u # t /\ task'[u] = task[u] /\ Starting(task[u])
                  /\ task[u].track \in Cmd /\ task[u].track \notin ToSet(queue)
                  /\ Unplayed(task[u].track)
    <3>1. CASE u = t
      BY <3>1, BecomeLemma DEF c
    <3>2. CASE u # t
      <4>1. task'[u] = task[u] /\ Starting(task[u]) /\ LocalOK(task[u])
        BY <2>5, <3>2, BecomeLemma DEF JInv, Locals
      <4> QED  BY <3>2, <4>1 DEF JInv, OneOfEach, LocalOK
    <3> QED  BY <3>1, <3>2
  <2>6. ASSUME NEW u \in Task, Starting(task'[u])
        PROVE  Unplayed(task[u].track)' /\ task'[u].track \notin ToSet(queue')
    <3>1. task'[u].track \in Cmd /\ Unplayed(task'[u].track) /\ task'[u].track \notin ToSet(queue')
      BY <1>2, <1>4, <2>5, <2>6
    <3> QED  BY <2>2, <3>1 DEF Unplayed, Fresh
  <2>7. ASSUME NEW u \in Task, NEW v \in Task, Starting(task'[u]), Starting(task'[v]),
               task'[u].track = task'[v].track
        PROVE  u = v
    BY <1>2, <2>5, <2>7 DEF JInv, OneOfEach
  <2> QED  BY <1>2, <2>3, <2>4, <2>6, <2>7 DEF OneOfEach
<1> QED
  BY <1>5, <1>6, <1>7, <1>8, <1>9, <1>10, <1>12, <1>13, <1>14 DEF JInv

(* _on_track_end takes the next track.                                     *)
LEMMA DequeueNextKeeps ==
  ASSUME JInv, NEW p \in Proc, DequeueNext(p)
  PROVE  JInv'
<1>1. p \in Task /\ task[p].at = "dequeuing" /\ permits \in Nat
  BY TaskSorts DEF DequeueNext, Runs, JInv, Permits
<1>2. CASE queue = <<>>
  <2> DEFINE r == At("stopping")
  <2>1. Become(p, r) /\ UNCHANGED <<engine, cancelled, queue, shadow>>
    BY <1>2 DEF DequeueNext, lists
  <2>2. r \in TaskState /\ r.at = "stopping" /\ r.then = "return"
    BY AtLemma DEF Awaits, InStop
  <2> HIDE DEF r
  <2>3. Calm(p, r)
    BY <1>1, <2>1, <2>2 DEF Calm, LocalOK, Starting, Attached, InStart, InStop
  <2>4. Undisturbed /\ permits' = permits /\ wtask' = wtask
    BY <2>1 DEF Undisturbed, SameProcs, JInv, Shared, engine, history
  <2> QED  BY <1>1, <2>1, <2>2, <2>3, <2>4, CalmStep DEF InStart
<1>3. CASE queue # <<>>
  <2> DEFINE r == [At("stopping") EXCEPT !.then = "start", !.track = Head(queue)]
  <2>1. Become(p, r) /\ DequeueScript /\ UNCHANGED <<engine, cancelled>>
    BY <1>3 DEF DequeueNext
  <2>2. Head(queue) \in Cmd
    BY <1>3, TailLemma DEF JInv, Shared
  <2>3. /\ r \in TaskState /\ r.at = "stopping" /\ r.then = "start"
        /\ r.track = Head(queue)
    BY <2>2 DEF At, TaskState, Awaits, InStop, Stored, Idle
  <2> HIDE DEF r
  <2>4. LocalOK(r) /\ Starting(r)
    BY <2>2, <2>3 DEF LocalOK, Starting, Attached, InStart, InStop
  <2> QED  BY <1>1, <1>3, <2>1, <2>3, <2>4, PopKeeps
<1> QED
  BY <1>2, <1>3

(* /skip takes the next track.                                             *)
LEMMA SkipToNextKeeps ==
  ASSUME JInv, NEW c \in Cmd, SkipToNext(c)
  PROVE  JInv'
<1>1. c \in Task /\ task[c].at = "dequeuing" /\ permits \in Nat
  BY TaskSorts DEF SkipToNext, Runs, JInv, Permits
<1>2. CASE queue = <<>>
  <2> DEFINE r == At("done")
  <2>1. Become(c, r) /\ UNCHANGED <<engine, cancelled, queue, shadow>>
    BY <1>2 DEF SkipToNext, lists
  <2>2. r \in TaskState /\ r.at = "done" /\ r.then = "return"
    BY AtLemma DEF Awaits
  <2> HIDE DEF r
  <2>3. Calm(c, r)
    BY <1>1, <2>1, <2>2 DEF Calm, LocalOK, Starting, Attached, InStart, InStop
  <2>4. Undisturbed /\ permits' = permits /\ wtask' = wtask
    BY <2>1 DEF Undisturbed, SameProcs, JInv, Shared, engine, history
  <2> QED  BY <1>1, <2>1, <2>2, <2>3, <2>4, CalmStep DEF InStart
<1>3. CASE queue # <<>>
  <2> DEFINE r == [At("acquiring") EXCEPT !.track = Head(queue)]
  <2>1. Become(c, r) /\ DequeueScript /\ UNCHANGED <<engine, cancelled>>
    BY <1>3 DEF SkipToNext
  <2>2. Head(queue) \in Cmd
    BY <1>3, TailLemma DEF JInv, Shared
  <2>3. /\ r \in TaskState /\ r.at = "acquiring" /\ r.track = Head(queue)
    BY <2>2 DEF At, TaskState, Awaits, Stored, Idle
  <2> HIDE DEF r
  <2>4. LocalOK(r) /\ Starting(r)
    BY <2>2, <2>3 DEF LocalOK, Starting, Attached, InStart, InStop
  <2> QED  BY <1>1, <1>3, <2>1, <2>3, <2>4, PopKeeps
<1> QED
  BY <1>2, <1>3

(* A track whose command has not got further is nowhere else.              *)
LEMMA FreshUnheld ==
  ASSUME JInv, NEW c \in Cmd, Fresh(c)
  PROVE  /\ starts[c] = 0 /\ c \notin ToSet(queue)
         /\ \A u \in Task : Starting(task[u]) => task[u].track # c
<1>1. c \notin ToSet(queue)
  BY DEF JInv, OneOfEach, Unplayed, ToSet
<1> QED
  BY <1>1 DEF JInv, OneOfEach, Unplayed

(* /play of a group that plays queues its track.                           *)
LEMMA EnqueueTrackKeeps ==
  ASSUME JInv, NEW c \in Cmd, EnqueueTrack(c)
  PROVE  JInv'
<1>1. /\ c \in Task /\ task[c].at = "enqueuing" /\ End(c) /\ permits \in Nat
      /\ UNCHANGED <<stored, registry, proc, permits, starts, audio, cancelled>>
  BY TaskSorts DEF EnqueueTrack, Runs, JInv, Permits, history
<1>2. CASE ~(Len(queue) < MaxQueue)
  <2>1. UNCHANGED lists
    BY <1>2 DEF EnqueueTrack
  <2>2. Undisturbed
    BY <1>1, <2>1 DEF End, WtaskAfter, Undisturbed, SameProcs, JInv, Shared, lists
  <2> QED  BY <1>1, <2>2, EndStep DEF InStart
<1>3. CASE Len(queue) < MaxQueue
  <2> DEFINE r == At("done")
  <2>1. /\ queue' = Append(queue, c) /\ shadow' = shadow /\ Become(c, r)
        /\ wtask' = wtask
    BY <1>1, <1>3, TaskSorts DEF EnqueueTrack, EnqueueScript, End, WtaskAfter
  <2>2. r \in TaskState /\ r.at = "done" /\ r.then = "return"
    BY AtLemma DEF Awaits
  <2> HIDE DEF r
  <2>3. LocalOK(r) /\ ~ Attached(r) /\ ~ Starting(r)
    BY <2>2 DEF LocalOK, Starting, Attached, InStart, InStop
  <2>4. Fresh(c) /\ queue \in Seq(Cmd) /\ IsInjective(queue)
    BY <1>1 DEF Fresh, JInv, Shared, OneOfEach
  <2>5. /\ starts[c] = 0 /\ c \notin ToSet(queue)
        /\ \A u \in Task : Starting(task[u]) => task[u].track # c
    BY <2>4, FreshUnheld
  <2>6. /\ queue' \in Seq(Cmd) /\ ToSet(queue') = ToSet(queue) \cup {c}
        /\ IsInjective(queue')
    BY <2>1, <2>4, <2>5, AppendLemma
  <2>7. Shared'
    BY <1>1, <2>1, <2>6 DEF JInv, Shared
  <2>8. Locals'
    BY <1>1, <2>1, <2>2, <2>3, LocalsMove
  <2>9. Permits'
    <3>1. r.at \notin InStart /\ task[c].at \notin InStart /\ permits' = permits + 0
      BY <1>1, <2>2 DEF InStart
    <3> QED  BY <1>1, <2>1, <2>2, <3>1, PermitsMove
  <2>10. WatchEntryLive'
    BY <1>1, <2>1, <2>2, WatchMove
  <2>11. CancelledLive'
    BY <1>1, <2>1, <2>2, <2>7, CancelledMove
  <2>12. NewProcs'
    BY <1>1, <2>1, <2>2, <2>3, NewProcsMove
  <2>13. SameProcs
    BY <1>1 DEF SameProcs
  <2>14. RegistryDecodes'
    BY <1>1, <2>13, RegistryStays
  <2>15. TasksDecode'
    BY <1>1, <2>1, <2>2, <2>13, TasksDecodeMove
  <2>16. OneOfEach'
    <3>1. \A d \in Cmd : Fresh(d)' => Fresh(d) /\ d # c
      BY <1>1, <2>1, <2>2, BecomeLemma, TaskSorts DEF Fresh
    <3>2. \A d \in Cmd : Unplayed(d) \/ d = c => Unplayed(d)'
      BY <1>1, <2>5, <3>1 DEF Unplayed
    <3>3. \A d \in Cmd : Fresh(d)' => starts'[d] = 0
      BY <1>1, <3>1 DEF JInv, OneOfEach
    <3>4. \A d \in ToSet(queue) : Unplayed(d) /\ d \in Cmd
      BY <2>4, ElementOfSeq, LenProperties DEF JInv, OneOfEach, ToSet
    <3>5. ASSUME NEW i \in DOMAIN queue' PROVE Unplayed(queue[i])'
      <4>1. queue'[i] \in ToSet(queue) \cup {c}
        BY <2>6 DEF ToSet
      <4> QED  BY <3>2, <3>4, <4>1 DEF Unplayed, Fresh
    <3>6. ASSUME NEW u \in Task, Starting(task'[u])
          PROVE  task'[u] = task[u] /\ Starting(task[u]) /\ task[u].track \in Cmd \ {c}
      <4>1. task'[u] = task[u] /\ LocalOK(task[u])
        BY <1>1, <2>1, <2>2, <2>3, <3>6, BecomeLemma DEF JInv, Locals
      <4> QED  BY <2>5, <3>6, <4>1 DEF LocalOK
    <3>7. ASSUME NEW u \in Task, Starting(task'[u])
          PROVE  Unplayed(task[u].track)' /\ task'[u].track \notin ToSet(queue')
      <4>1. Unplayed(task[u].track) /\ task[u].track \notin ToSet(queue)
        BY <3>6, <3>7 DEF JInv, OneOfEach
      <4> QED  BY <2>6, <3>2, <3>6, <3>7, <4>1 DEF Unplayed, Fresh
    <3>8. ASSUME NEW u \in Task, NEW v \in Task, Starting(task'[u]), Starting(task'[v]),
                 task'[u].track = task'[v].track
          PROVE  u = v
      BY <3>6, <3>8 DEF JInv, OneOfEach
    <3> QED  BY <2>6, <3>3, <3>5, <3>7, <3>8 DEF OneOfEach
  <2> QED
    BY <2>7, <2>8, <2>9, <2>10, <2>11, <2>12, <2>14, <2>15, <2>16 DEF JInv
<1> QED
  BY <1>2, <1>3

(* /play of a group that looks idle holds its own track.                   *)
LEMMA PlayAtOnceKeeps ==
  ASSUME JInv, NEW c \in Cmd, task[c].at = "off",
         Become(c, [At("acquiring") EXCEPT !.track = c]),
         UNCHANGED <<lists, engine, cancelled>>
  PROVE  JInv'
<1> DEFINE r == [At("acquiring") EXCEPT !.track = c]
<1>1. /\ c \in Task /\ permits \in Nat /\ Become(c, r)
      /\ UNCHANGED <<stored, registry, proc, wtask, permits, starts, audio, cancelled,
                     queue, shadow>>
  BY TaskSorts DEF JInv, Permits, engine, history, lists
<1>2. r \in TaskState /\ r.at = "acquiring" /\ r.track = c
  BY DEF At, TaskState, Awaits, Stored, Idle
<1> HIDE DEF r
<1>3. LocalOK(r) /\ ~ Attached(r)
  BY <1>2 DEF LocalOK, Attached, InStart, InStop
<1>4. /\ starts[c] = 0 /\ c \notin ToSet(queue)
      /\ \A u \in Task : Starting(task[u]) => task[u].track # c
  BY FreshUnheld DEF Fresh
<1>5. Shared'
  BY <1>1 DEF JInv, Shared
<1>6. Locals'
  BY <1>1, <1>2, <1>3, LocalsMove
<1>7. Permits'
  <2>1. r.at \notin InStart /\ task[c].at \notin InStart /\ permits' = permits + 0
    BY <1>1, <1>2 DEF InStart
  <2> QED  BY <1>1, <1>2, <2>1, PermitsMove
<1>8. WatchEntryLive'
  BY <1>1, <1>2, WatchMove
<1>9. CancelledLive'
  BY <1>1, <1>2, <1>5, CancelledMove
<1>10. NewProcs'
  BY <1>1, <1>2, <1>3, NewProcsMove
<1>11. SameProcs
  BY <1>1 DEF SameProcs
<1>12. RegistryDecodes'
  BY <1>1, <1>11, RegistryStays
<1>13. TasksDecode'
  BY <1>1, <1>2, <1>11, TasksDecodeMove
<1>14. OneOfEach'
  <2>1. \A d \in Cmd : Fresh(d)' => Fresh(d) /\ d # c
    BY <1>1, <1>2, BecomeLemma, TaskSorts DEF Fresh
  <2>2. \A d \in Cmd : Unplayed(d) \/ d = c => Unplayed(d)'
    BY <1>1, <1>4, <2>1 DEF Unplayed
  <2>3. \A d \in Cmd : Fresh(d)' => starts'[d] = 0
    BY <1>1, <2>1 DEF JInv, OneOfEach
  <2>4. ASSUME NEW i \in DOMAIN queue PROVE Unplayed(queue[i])'
    <3>1. queue[i] \in Cmd /\ Unplayed(queue[i])
      BY ElementOfSeq, LenProperties DEF JInv, Shared, OneOfEach
    <3> QED  BY <1>1, <2>2, <3>1 DEF Unplayed, Fresh
  <2>5. ASSUME NEW u \in Task, Starting(task'[u])
        PROVE  \/ u = c /\ task'[u].track = c
               \/ /\ u # c /\ task'[u] = task[u] /\ Starting(task[u])
                  /\ task[u].track \in Cmd \ {c} /\ task[u].track \notin ToSet(queue)
                  /\ Unplayed(task[u].track)
    <3>1. CASE u = c
      BY <1>1, <1>2, <3>1, BecomeLemma
    <3>2. CASE u # c
      <4>1. task'[u] = task[u] /\ Starting(task[u]) /\ LocalOK(task[u])
        BY <1>1, <1>2, <2>5, <3>2, BecomeLemma DEF JInv, Locals
      <4> QED  BY <1>4, <3>2, <4>1 DEF JInv, OneOfEach, LocalOK
    <3> QED  BY <3>1, <3>2
  <2>6. ASSUME NEW u \in Task, Starting(task'[u])
        PROVE  Unplayed(task[u].track)' /\ task'[u].track \notin ToSet(queue')
    <3>1. /\ task'[u].track \in Cmd /\ task'[u].track \notin ToSet(queue')
          /\ Unplayed(task'[u].track) \/ task'[u].track = c
      BY <1>1, <1>4, <2>5, <2>6
    <3> QED  BY <2>2, <3>1 DEF Unplayed, Fresh
  <2>7. ASSUME NEW u \in Task, NEW v \in Task, Starting(task'[u]), Starting(task'[v]),
               task'[u].track = task'[v].track
        PROVE  u = v
    BY <2>5, <2>7 DEF JInv, OneOfEach
  <2> QED  BY <1>1, <2>3, <2>4, <2>6, <2>7 DEF JInv, OneOfEach
<1> QED
  BY <1>5, <1>6, <1>7, <1>8, <1>9, <1>10, <1>12, <1>13, <1>14 DEF JInv

(* The first step of every handler.                                        *)
LEMMA CommandKeeps ==
  ASSUME JInv, NEW c \in Cmd, Command(c)
  PROVE  JInv'
<1>1. c \in Task /\ permits \in Nat /\ stored \in Stored
  BY TaskSorts DEF JInv, Permits, Shared
<1>2. ASSUME NEW r \in TaskState, task[c].at = "off", Become(c, r), LocalOK(r),
             r.at \in {"done", "enqueuing", "stopping", "toggling", "writing"},
             ~ Starting(r), queue' \in {queue, <<>>}, shadow' \in {shadow, <<>>},
             UNCHANGED <<engine, cancelled>>
      PROVE  JInv'
  <2>1. Calm(c, r) /\ r.at \notin InStart /\ task[c].at \notin InStart
    BY <1>2 DEF Calm, Attached, InStart
  <2>2. <<>> \in Seq(Cmd)
    OBVIOUS
  <2>3. queue' \in Seq(Cmd) /\ shadow' \in Seq(Cmd)
    BY <1>2, <2>2 DEF JInv, Shared
  <2>4. Undisturbed /\ permits' = permits /\ wtask' = wtask
    BY <1>2, <2>3 DEF Undisturbed, SameProcs, JInv, Shared, engine, history
  <2> QED  BY <1>1, <1>2, <2>1, <2>4, CalmStep
<1>3. \A w \in {"done", "enqueuing", "stopping"} :
        /\ At(w) \in TaskState /\ LocalOK(At(w)) /\ ~ Starting(At(w)) /\ At(w).at = w
  <2> SUFFICES ASSUME NEW w \in {"done", "enqueuing", "stopping"}
               PROVE  /\ At(w) \in TaskState /\ LocalOK(At(w)) /\ ~ Starting(At(w))
                      /\ At(w).at = w
    OBVIOUS
  <2>1. w \in Awaits
    BY DEF Awaits, InStop
  <2>2. At(w) \in TaskState /\ At(w).at = w /\ At(w).then = "return"
    BY <2>1, AtLemma
  <2> QED  BY <2>2 DEF LocalOK, Starting, Attached, InStart, InStop
<1>4. CASE PlayCmd(c)
  <2>1. task[c].at = "off" /\ UNCHANGED <<lists, engine, cancelled>>
    BY <1>4 DEF PlayCmd, Received
  <2>2. CASE stored.status = "idle"
    BY <1>4, <2>1, <2>2, PlayAtOnceKeeps DEF PlayCmd
  <2>3. CASE stored.status # "idle"
    <3>1. Become(c, At("enqueuing"))
      BY <1>4, <2>3 DEF PlayCmd
    <3> QED  BY <1>2, <1>3, <2>1, <3>1 DEF lists
  <2> QED  BY <2>2, <2>3
<1>5. CASE SkipCmd(c)
  <2>1. task[c].at = "off" /\ UNCHANGED <<queue, shadow, engine, cancelled>>
    BY <1>5 DEF SkipCmd, Received, lists
  <2>2. CASE stored.status = "idle" \/ stored.track = None
    <3>1. Become(c, At("done"))
      BY <1>5, <2>2 DEF SkipCmd
    <3> QED  BY <1>2, <1>3, <2>1, <3>1
  <2>3. CASE ~(stored.status = "idle" \/ stored.track = None)
    <3> DEFINE r == [At("stopping") EXCEPT !.then = "dequeue"]
    <3>1. Become(c, r)
      BY <1>5, <2>3 DEF SkipCmd
    <3>2. r \in TaskState /\ r.at = "stopping" /\ r.then = "dequeue"
      BY DEF At, TaskState, Awaits, InStop, Stored, Idle
    <3> HIDE DEF r
    <3>3. LocalOK(r) /\ ~ Starting(r)
      BY <3>2 DEF LocalOK, Starting, Attached, InStart, InStop
    <3> QED  BY <1>2, <2>1, <3>1, <3>2, <3>3
  <2> QED  BY <2>2, <2>3
<1>6. CASE StopCmd(c)
  <2>1. /\ task[c].at = "off" /\ UNCHANGED <<engine, cancelled>>
        /\ queue' = <<>> /\ shadow' = <<>> /\ Become(c, At("stopping"))
    BY <1>6 DEF StopCmd, Received, ClearScript
  <2> QED  BY <1>2, <1>3, <2>1
<1>7. CASE VolumeCmd(c)
  <2> DEFINE r == [At("writing") EXCEPT !.snap = stored]
  <2>1. /\ task[c].at = "off" /\ UNCHANGED <<queue, shadow, engine, cancelled>> /\ Become(c, r)
    BY <1>7 DEF VolumeCmd, Received, lists
  <2>2. r \in TaskState /\ r.at = "writing"
    BY <1>1 DEF At, TaskState, Awaits
  <2> HIDE DEF r
  <2>3. LocalOK(r) /\ ~ Starting(r)
    BY <2>2 DEF LocalOK, Starting, Attached, InStart, InStop
  <2> QED  BY <1>2, <2>1, <2>2, <2>3
<1>8. ASSUME NEW kind, NEW from, NEW to \in {"playing", "paused"}, ToggleCmd(c, kind, from, to)
      PROVE  JInv'
  <2>1. task[c].at = "off" /\ UNCHANGED <<queue, shadow, engine, cancelled>>
    BY <1>8 DEF ToggleCmd, Received, lists
  <2>2. CASE stored.status = from
    <3> DEFINE r == [At("toggling") EXCEPT !.then = to]
    <3>1. Become(c, r)
      BY <1>8, <2>2 DEF ToggleCmd
    <3>2. r \in TaskState /\ r.at = "toggling" /\ r.then = to
      BY DEF At, TaskState, Awaits, Stored, Idle
    <3> HIDE DEF r
    <3>3. LocalOK(r) /\ ~ Starting(r)
      BY <3>2 DEF LocalOK, Starting, Attached, InStart, InStop
    <3> QED  BY <1>2, <2>1, <3>1, <3>2, <3>3
  <2>3. CASE stored.status # from
    <3>1. Become(c, At("done"))
      BY <1>8, <2>3 DEF ToggleCmd
    <3> QED  BY <1>2, <1>3, <2>1, <3>1
  <2> QED  BY <2>2, <2>3
<1> QED
  BY <1>4, <1>5, <1>6, <1>7, <1>8 DEF Command
--------------------------------------------------------------------------------
(* The environment                                                         *)

(* An FFmpeg process ends.                                                 *)
LEMMA ExitKeeps ==
  ASSUME JInv, NEW p \in Proc, NEW state \in {"run", "termed"}, NEW code \in Codes,
         Exits(p, state, code)
  PROVE  JInv'
<1>1. /\ proc[p] = state /\ proc' = [proc EXCEPT ![p] = code]
      /\ UNCHANGED <<queue, shadow, stored, registry, wtask, permits, starts, audio,
                     task, cancelled>>
  BY DEF Exits, lists, history, tvars
<1>2. proc' \in [Proc -> {"unused", "run", "termed"} \cup Exited]
  BY <1>1 DEF JInv, Shared, Exited
<1>3. SameProcs
  BY <1>1 DEF SameProcs, JInv, Shared, Codes
<1>4. Shared' /\ Locals' /\ Permits' /\ WatchEntryLive' /\ CancelledLive'
  <2>1. Shared'
    BY <1>1, <1>2 DEF JInv, Shared
  <2>2. Locals'
    BY <1>1 DEF JInv, Locals
  <2>3. Permits'
    BY <1>1 DEF JInv, Permits, Inside
  <2>4. WatchEntryLive' /\ CancelledLive'
    BY <1>1 DEF JInv, WatchEntryLive, CancelledLive, Running
  <2> QED  BY <2>1, <2>2, <2>3, <2>4
<1>5. NewProcs'
  <2>1. ASSUME NEW q \in Proc, proc'[q] = "unused" PROVE task'[q].at = "off"
    BY <1>1, <1>3, <2>1 DEF JInv, NewProcs, SameProcs
  <2>2. ASSUME NEW u \in Task, Attached(task'[u])
        PROVE  proc'[task'[u].proc] # "unused" /\ task'[task'[u].proc].at = "off"
    <3>1. task[u].proc \in Proc
      BY <1>1, <2>2 DEF JInv, Locals, LocalOK
    <3> QED  BY <1>1, <1>3, <2>2, <3>1 DEF JInv, NewProcs, SameProcs
  <2>3. ASSUME NEW u \in Task, NEW v \in Task, Attached(task'[u]), Attached(task'[v]),
               task'[u].proc = task'[v].proc
        PROVE  u = v
    BY <1>1, <2>3 DEF JInv, NewProcs
  <2> QED  BY <2>1, <2>2, <2>3 DEF NewProcs
<1>6. RegistryDecodes'
  BY <1>1, <1>3, RegistryStays
<1>7. TasksDecode'
  <2>1. ASSUME NEW u \in Task, task'[u].at \in {"playing", "swapping"}
        PROVE  Decodes(task[u].proc, task[u].track)'
    <3>1. task[u].proc \in Proc
      BY <1>1, <2>1 DEF JInv, Locals, LocalOK, Attached
    <3> QED  BY <1>1, <1>3, <2>1, <3>1 DEF JInv, TasksDecode, Decodes, SameProcs
  <2>2. ASSUME NEW u \in Task, task'[u].at \in {"respawning", "swapping"}
        PROVE  Decodes(task[u].entry, task[u].track)'
    <3>1. task[u].entry \in Proc
      BY <1>1, <2>2 DEF JInv, Locals, LocalOK
    <3> QED  BY <1>1, <1>3, <2>2, <3>1 DEF JInv, TasksDecode, Decodes, SameProcs
  <2> QED  BY <2>1, <2>2 DEF TasksDecode
<1>8. OneOfEach'
  BY <1>1 DEF JInv, OneOfEach, Unplayed, Fresh
<1> QED
  BY <1>4, <1>5, <1>6, <1>7, <1>8 DEF JInv

(* A restart of the bot: every coroutine is gone, Redis and its queue stay. *)
LEMMA RestartKeeps ==
  ASSUME JInv, Restart
  PROVE  JInv'
<1>1. /\ registry' = None /\ wtask' = None /\ permits' = MaxPermits /\ cancelled' = {}
      /\ task' = [t \in Task |-> IF Running(t) THEN At("done") ELSE task[t]]
      /\ proc' = [p \in Proc |-> IF proc[p] = "unused" THEN "unused" ELSE "err"]
      /\ UNCHANGED <<queue, shadow, stored, starts, audio>>
  BY DEF Restart, lists, history
<1>2. At("done") \in TaskState /\ At("done").at = "done" /\ At("done").then = "return"
  BY AtLemma DEF Awaits
<1>3. \A u \in Task : /\ task'[u] \in TaskState
                      /\ \/ task'[u].at = "done"
                         \/ task'[u].at = "off" /\ task'[u] = task[u]
                      /\ task[u].at = "off" => task'[u].at = "off"
  BY <1>1, <1>2 DEF Running, JInv, Locals
<1>4. \A u \in Task : ~ Attached(task'[u]) /\ ~ Starting(task'[u])
                      /\ task'[u].at \notin InStart \cup {"respawning", "swapping"}
  BY <1>3 DEF Attached, Starting, InStart, InStop
<1>5. Shared'
  <2>1. proc' \in [Proc -> {"unused", "run", "termed"} \cup Exited]
    BY <1>1 DEF Exited, Codes
  <2> QED  BY <1>1, <2>1 DEF JInv, Shared
<1>6. Locals'
  <2>1. task' \in [Task -> TaskState]
    BY <1>1, <1>3
  <2>2. ASSUME NEW u \in Task PROVE LocalOK(task[u])'
    BY <1>3, <1>4 DEF LocalOK
  <2> QED  BY <2>1, <2>2 DEF Locals
<1>7. Permits'
  <2>1. Inside' = {}
    BY <1>4 DEF Inside
  <2> QED  BY <1>1, <2>1, PermitsAssumption, FS_EmptySet DEF Permits
<1>8. WatchEntryLive' /\ CancelledLive' /\ RegistryDecodes'
  BY <1>1 DEF WatchEntryLive, CancelledLive, RegistryDecodes
<1>9. NewProcs'
  <2>1. ASSUME NEW p \in Proc, proc'[p] = "unused" PROVE task'[p].at = "off"
    <3>1. proc[p] = "unused" /\ p \in Task
      BY <1>1, <2>1, TaskSorts
    <3> QED  BY <1>3, <3>1 DEF JInv, NewProcs
  <2> QED  BY <1>4, <2>1 DEF NewProcs
<1>10. TasksDecode'
  BY <1>3 DEF TasksDecode
<1>11. OneOfEach'
  <2>1. \A d \in Cmd : Fresh(d)' => Fresh(d)
    BY <1>3, TaskSorts DEF Fresh
  <2>2. \A d \in Cmd : Fresh(d)' => starts'[d] = 0
    BY <1>1, <2>1 DEF JInv, OneOfEach
  <2>3. ASSUME NEW i \in DOMAIN queue PROVE Unplayed(queue[i])'
    <3>1. queue[i] \in Cmd /\ Unplayed(queue[i])
      BY ElementOfSeq, LenProperties DEF JInv, Shared, OneOfEach
    <3> QED  BY <1>1, <2>1, <3>1 DEF Unplayed, Fresh
  <2> QED  BY <1>1, <1>4, <2>2, <2>3 DEF JInv, OneOfEach
<1> QED
  BY <1>5, <1>6, <1>7, <1>8, <1>9, <1>10, <1>11 DEF JInv
--------------------------------------------------------------------------------
(* The whole system                                                        *)

\* The bounds of the environment and the turns of the event loop.
EnvOK == turn \subseteq Task /\ crashes \in 0 .. MaxCrashes /\ restarts \in 0 .. MaxRestarts

(* Nothing has happened yet.                                               *)
LEMMA InitJInv == Init => JInv /\ EnvOK
<1> SUFFICES ASSUME Init PROVE JInv /\ EnvOK
  OBVIOUS
<1>1. /\ queue = <<>> /\ shadow = <<>> /\ stored = Idle /\ registry = None /\ wtask = None
      /\ proc = [p \in Proc |-> "unused"] /\ permits = MaxPermits
      /\ task = [t \in Task |-> At("off")] /\ cancelled = {}
      /\ starts = [c \in Cmd |-> 0] /\ audio = [p \in Proc |-> None]
  BY DEF Init, TasksInit
<1>2. At("off") \in TaskState /\ At("off").at = "off" /\ At("off").then = "return"
  BY AtLemma DEF Awaits
<1>3. Shared
  BY <1>1 DEF Shared, Stored, Idle
<1>4. \A t \in Task : task[t] \in TaskState /\ task[t].at = "off"
  BY <1>1, <1>2
<1>5. \A t \in Task : LocalOK(task[t]) /\ ~ Attached(task[t]) /\ ~ Starting(task[t])
  BY <1>4 DEF LocalOK, Attached, Starting, InStart, InStop
<1>6. Locals
  BY <1>1, <1>2, <1>5 DEF Locals
<1>7. Permits
  <2>1. Inside = {}
    BY <1>4 DEF Inside, InStart
  <2> QED  BY <1>1, <2>1, PermitsAssumption, FS_EmptySet DEF Permits
<1>8. WatchEntryLive /\ CancelledLive /\ RegistryDecodes
  BY <1>1 DEF WatchEntryLive, CancelledLive, RegistryDecodes
<1>9. NewProcs
  BY <1>4, <1>5, TaskSorts DEF NewProcs
<1>10. TasksDecode
  BY <1>4 DEF TasksDecode
<1>11. OneOfEach
  BY <1>1, <1>5 DEF OneOfEach, IsInjective
<1>12. EnvOK
  BY BoundsAssumption DEF Init, EnvOK
<1> QED
  BY <1>3, <1>6, <1>7, <1>8, <1>9, <1>10, <1>11, <1>12 DEF JInv

(* Every step of the group keeps the invariant.                            *)
LEMMA NextJInv == JInv /\ [Next]_vars => JInv'
<1> SUFFICES ASSUME JInv, [Next]_vars PROVE JInv'
  OBVIOUS
<1>1. ASSUME NEW t \in Task, EngineStep(t), UNCHANGED lists PROVE JInv'
  <2>1. CASE Acquire(t) \/ Spawn(t) \/ StartFails(t) \/ PlayAudio(t) \/ SavePlaying(t) \/ Launch(t)
    BY <1>1, <2>1, AcquireKeeps, SpawnKeeps, StartFailsKeeps, PlayAudioKeeps,
       SavePlayingKeeps, LaunchKeeps
  <2>2. CASE \/ NoActiveStream(t) \/ Terminate(t) \/ TerminateRaises(t) \/ StopFails(t)
             \/ Reap(t) \/ Leave(t) \/ Unwatched(t) \/ SaveIdle(t) \/ Drop(t)
    BY <1>1, <2>2, StopStreamKeeps
  <2>3. CASE FindStream(t) \/ Reread(t) \/ WriteBack(t) \/ ToggleFails(t)
    BY <1>1, <2>3, ToggleKeeps
  <2> QED  BY <1>1, <2>1, <2>2, <2>3 DEF EngineStep
<1>2. ASSUME NEW t \in Task, TaskStep(t) PROVE JInv'
  BY <1>1, <1>2, MonitorKeeps, DequeueNextKeeps, EnqueueTrackKeeps, SkipToNextKeeps, CommandKeeps
     DEF TaskStep, Step, QuietStep
<1>3. CASE Environment
  BY <1>3, ExitKeeps, RestartKeeps DEF Environment, Finish, Crash, ExitOnSignal, Codes
<1>4. CASE UNCHANGED vars
  <2>1. UNCHANGED <<queue, shadow, stored, registry, proc, wtask, permits, starts,
                    audio, task, cancelled>>
    BY <1>4 DEF vars, lists, engine, history, tvars
  <2>2. Shared' /\ Locals'
    BY <2>1 DEF JInv, Shared, Locals
  <2>3. Permits' /\ WatchEntryLive' /\ CancelledLive'
    BY <2>1 DEF JInv, Permits, Inside, WatchEntryLive, CancelledLive, Running
  <2>4. NewProcs' /\ RegistryDecodes' /\ TasksDecode'
    BY <2>1 DEF JInv, NewProcs, RegistryDecodes, TasksDecode, Decodes
  <2>5. OneOfEach'
    BY <2>1 DEF JInv, OneOfEach, Unplayed, Fresh
  <2> QED  BY <2>2, <2>3, <2>4, <2>5 DEF JInv
<1> QED
  BY <1>2, <1>3, <1>4 DEF Next

(* The bounds of the environment are kept.                                 *)
LEMMA NextEnvOK == EnvOK /\ [Next]_vars => EnvOK'
<1> SUFFICES ASSUME EnvOK, [Next]_vars PROVE EnvOK'
  OBVIOUS
<1>1. ASSUME NEW t \in Task, TaskStep(t) PROVE EnvOK'
  <2>1. UNCHANGED env
    BY <1>1
       DEF TaskStep, Step, QuietStep, EnqueueTrack, SkipToNext, Command, PlayCmd, SkipCmd,
                StopCmd, VolumeCmd, ToggleCmd
  <2>2. turn' \subseteq Task
    BY <1>1 DEF TaskStep, InTurn, EnvOK
  <2> QED  BY <2>1, <2>2 DEF EnvOK, env
<1>2. CASE Environment
  <2>1. turn' \subseteq Task
    BY <1>2 DEF Environment, EnvOK
  <2>2. restarts' \in 0 .. MaxRestarts
    BY <1>2, BoundsAssumption
       DEF Environment, Finish, Crash, ExitOnSignal, Exits, Restart, EnvOK
  <2>3. crashes' \in 0 .. MaxCrashes
    BY <1>2, BoundsAssumption
       DEF Environment, Finish, Crash, ExitOnSignal, Exits, Restart, EnvOK
  <2> QED  BY <2>1, <2>2, <2>3 DEF EnvOK
<1>3. CASE UNCHANGED vars
  BY <1>3 DEF vars, env, EnvOK
<1> QED
  BY <1>1, <1>2, <1>3 DEF Next

(* The inductive invariant holds in every run of the group, whatever the   *)
(* schedule, the faults and the number of commands and processes.          *)
THEOREM JukeboxInvariant == Spec => [](JInv /\ EnvOK)
<1>1. Init => JInv /\ EnvOK
  BY InitJInv
<1>2. JInv /\ EnvOK /\ [Next]_vars => JInv' /\ EnvOK'
  BY NextJInv, NextEnvOK
<1> QED
  BY <1>1, <1>2, PTL DEF Spec

(* Every variable of the engine, the watchdog and the tasks stays in its   *)
(* range: the semaphore never hands out more permits than it has, and a    *)
(* step finds the locals it needs.                                         *)
THEOREM JukeboxTypeCorrect == Spec => []TypeOK
<1>1. JInv /\ EnvOK => TypeOK
  <2> SUFFICES ASSUME JInv, EnvOK PROVE TypeOK
    OBVIOUS
  <2>1. /\ permits \in Nat /\ Cardinality(Inside) \in Nat /\ MaxPermits \in Nat
        /\ permits + Cardinality(Inside) = MaxPermits
    BY FS_CardinalityType, PermitsAssumption DEF JInv, Permits
  <2>2. permits \in 0 .. MaxPermits
    BY <2>1
  <2>3. starts \in [Cmd -> Nat]
    BY DEF JInv, Shared
  <2> QED  BY <2>2, <2>3 DEF TypeOK, EnvOK, JInv, Shared, Locals
<1> QED
  BY <1>1, JukeboxInvariant, PTL

(* No path through start_stream keeps a permit or gives one back twice:    *)
(* neither its early return, its exceptions nor a cancellation.            *)
THEOREM PermitsAccounted == Spec => []PermitsBalanced
<1>1. JInv => PermitsBalanced
  BY DEF JInv, Permits, PermitsBalanced, Inside
<1> QED
  BY <1>1, JukeboxInvariant, PTL

(* A track is started once or waits once, however /play, /skip, /stop and  *)
(* the ends of tracks interleave and whenever the bot restarts.            *)
THEOREM NoTrackTwice == Spec => []PlayedOnce
<1>1. JInv => PlayedOnce
  <2> SUFFICES ASSUME JInv, NEW c \in Cmd
               PROVE  starts[c] + Cardinality({i \in DOMAIN queue : queue[i] = c}) <= 1
    BY DEF PlayedOnce
  <2>1. starts[c] \in {0, 1}
    BY DEF JInv, Shared
  <2>2. CASE c \in ToSet(queue)
    <3>1. PICK k \in DOMAIN queue : queue[k] = c
      BY <2>2 DEF ToSet
    <3>2. {i \in DOMAIN queue : queue[i] = c} = {k}
      BY <3>1 DEF JInv, OneOfEach, IsInjective
    <3>3. starts[c] = 0
      BY <3>1 DEF JInv, OneOfEach, Unplayed
    <3>4. Cardinality({k}) = 1
      BY FS_Singleton
    <3> QED  BY <3>2, <3>3, <3>4
  <2>3. CASE c \notin ToSet(queue)
    <3>1. {i \in DOMAIN queue : queue[i] = c} = {}
      BY <2>3 DEF ToSet
    <3> QED  BY <2>1, <3>1, FS_EmptySet
  <2> QED  BY <2>2, <2>3
<1> QED
  BY <1>1, JukeboxInvariant, PTL

(* What watchdog.stop cancels is a monitor that has started and not ended. *)
THEOREM WatchEntryStaysLive == Spec => []WatchEntryLive
<1>1. JInv => WatchEntryLive
  BY DEF JInv
<1> QED
  BY <1>1, JukeboxInvariant, PTL

(* A recovery that outlives its stream never puts its process into the     *)
(* entry of another track.                                                 *)
THEOREM RegistryStaysTrue == Spec => []RegistryPlaysItsTrack
<1>1. JInv => RegistryPlaysItsTrack
  BY DEF JInv, RegistryDecodes, Decodes, RegistryPlaysItsTrack
<1> QED
  BY <1>1, JukeboxInvariant, PTL
--------------------------------------------------------------------------------
(* The code as it stands: acquire is not awaited                           *)

\* No FFmpeg was ever spawned, no stream registered and no monitor made.
Mute == /\ registry = None
        /\ \A p \in Proc : proc[p] = "unused" /\ task[p].at = "off"
        /\ \A c \in Cmd : task[c].at \notin InStart

(* A command that stays out of start_stream's body keeps it so.            *)
LEMMA CommandStaysMute ==
  ASSUME JInv, Mute, NEW c \in Cmd, NEW r \in TaskState, Become(c, r),
         r.at \notin InStart, UNCHANGED <<registry, proc>>
  PROVE  Mute'
BY TaskSorts, BecomeLemma DEF Mute

(* No step of the engine takes a command into start_stream's body.         *)
LEMMA EngineStaysMute ==
  ASSUME JInv, Mute, AcquireAwaited = FALSE, NEW c \in Cmd, EngineStep(c)
  PROVE  Mute'
<1>1. /\ task[c] \in TaskState /\ task[c].at \notin InStart
      /\ registry = None /\ stored \in Stored /\ wtask \in Proc \cup {None}
  BY TaskSorts DEF JInv, Shared, Locals, Mute
<1>2. \A w \in Awaits : /\ At(w) \in TaskState /\ At(w).at = w
                        /\ [task[c] EXCEPT !.at = w] \in TaskState
                        /\ [task[c] EXCEPT !.at = w].at = w
  BY <1>1, AtLemma, GotoLemma
<1>3. ASSUME NEW w \in Awaits \ InStart, Goto(c, w) \/ Become(c, At(w)),
             UNCHANGED <<registry, proc>>
      PROVE  Mute'
  BY <1>2, <1>3, CommandStaysMute DEF Goto
<1>4. {"done", "acquiring", "dequeuing", "idling", "dropping", "rereading"} \subseteq Awaits \ InStart
  BY DEF Awaits, InStart, InStop
<1>5. CASE Acquire(c)
  BY <1>3, <1>4, <1>5 DEF Acquire, End
<1>6. CASE NoActiveStream(c)
  <2>1. Become(c, At("done")) \/ Goto(c, "acquiring") \/ Goto(c, "dequeuing")
    BY <1>6 DEF NoActiveStream, StopReturns, End
  <2> QED  BY <1>3, <1>4, <1>6, <2>1 DEF NoActiveStream
<1>7. CASE StartFails(c) \/ StopFails(c) \/ ToggleFails(c) \/ FindStream(c) \/ WriteBack(c)
  BY <1>1, <1>3, <1>4, <1>7
     DEF StartFails, StopFails, ToggleFails, FindStream, WriteBack, End
<1>8. CASE SaveIdle(c)
  BY <1>3, <1>4, <1>8 DEF SaveIdle
<1>9. CASE Reap(c) \/ Unwatched(c) \/ Reread(c)
  <2> DEFINE reaped == [task[c] EXCEPT !.at = "leaving", !.proc = None]
             unwatched == [task[c] EXCEPT !.at = "idling", !.target = None]
             read(s) == [task[c] EXCEPT !.at = "writing", !.snap = s]
  <2>0. {"leaving", "idling", "writing"} \subseteq Awaits \ InStart
    BY DEF Awaits, InStart, InStop
  <2>1. /\ reaped \in TaskState /\ reaped.at \notin InStart
        /\ unwatched \in TaskState /\ unwatched.at \notin InStart
        /\ \A s \in Stored : read(s) \in TaskState /\ read(s).at \notin InStart
    <3>1. reaped \in TaskState /\ reaped.at \notin InStart
      BY <1>1, <2>0 DEF TaskState
    <3>2. unwatched \in TaskState /\ unwatched.at \notin InStart
      BY <1>1, <2>0 DEF TaskState
    <3>3. ASSUME NEW s \in Stored PROVE read(s) \in TaskState /\ read(s).at \notin InStart
      BY <1>1, <2>0 DEF TaskState
    <3> QED  BY <3>1, <3>2, <3>3
  <2>2. CASE Reap(c)
    BY <2>1, <2>2, CommandStaysMute DEF Reap, engine
  <2>3. CASE Unwatched(c)
    BY <2>1, <2>3, CommandStaysMute DEF Unwatched, engine
  <2>4. CASE Reread(c)
    <3>1. task[c].then \in {"playing", "paused"}
      BY <2>4, TaskSorts DEF Reread, Runs, JInv, Locals, LocalOK
    <3>2. [stored EXCEPT !.status = task[c].then] \in Stored
      BY <1>1, <3>1 DEF Stored
    <3> QED  BY <2>1, <2>4, <3>2, CommandStaysMute DEF Reread, engine
  <2> QED  BY <1>9, <2>2, <2>3, <2>4
<1>10. CASE Leave(c)
  <2>1. CASE wtask = None
    BY <1>3, <1>4, <1>10, <2>1 DEF Leave, engine
  <2>2. CASE wtask # None
    <3> DEFINE r == [task[c] EXCEPT !.at = "cancelling", !.target = wtask]
    <3>1. "cancelling" \in Awaits \ InStart /\ wtask \in Task \cup {None}
      BY <1>1, TaskSorts DEF Awaits, InStart, InStop
    <3>2. r \in TaskState /\ r.at \notin InStart
      BY <1>1, <3>1 DEF TaskState
    <3> QED  BY <1>10, <2>2, <3>2, CommandStaysMute DEF Leave, StopWatchdog, engine
  <2> QED  BY <2>1, <2>2
<1>11. /\ ~ Spawn(c) /\ ~ PlayAudio(c) /\ ~ SavePlaying(c) /\ ~ Launch(c)
       /\ ~ Terminate(c) /\ ~ TerminateRaises(c) /\ ~ Drop(c)
  BY <1>1 DEF Spawn, PlayAudio, SavePlaying, Launch, Terminate, TerminateRaises, Drop,
              Runs, InStart
<1> QED
  BY <1>5, <1>6, <1>7, <1>8, <1>9, <1>10, <1>11 DEF EngineStep

(* There is no monitor that could act, and no process that could exit.     *)
LEMMA NextStaysMute ==
  ASSUME JInv, Mute, AcquireAwaited = FALSE, [Next]_vars
  PROVE  Mute'
<1>1. CASE UNCHANGED vars
  BY <1>1 DEF vars, engine, tvars, Mute
<1>2. ASSUME NEW p \in Proc PROVE ~ Step(p)
  <2>1. /\ task[p].at = "off" /\ p \notin cancelled
    BY TaskSorts DEF Mute, JInv, CancelledLive
  <2>2. ~ EngineStep(p)
    BY <2>1 DEF EngineStep, Acquire, Spawn, StartFails, PlayAudio, SavePlaying, Launch,
                NoActiveStream, Terminate, TerminateRaises, StopFails, Reap, Leave,
                Unwatched, WatchdogStopped, SaveIdle, Drop, FindStream, Reread, WriteBack,
                ToggleFails, Runs
  <2>3. ~ MonitorStep(p) /\ ~ DequeueNext(p)
    BY <2>1 DEF MonitorStep, Watch, StreamGone, CrashSeen, TrackEnds, Respawn,
                RecoveryFails, Swap, Rewatch, WatchdogStopped, Cancelled, DequeueNext, Runs
  <2> QED  BY <2>2, <2>3, TaskSorts DEF Step, QuietStep
<1>3. ASSUME NEW c \in Cmd, NEW w \in Awaits \ InStart, Become(c, At(w)),
             UNCHANGED <<registry, proc>>
      PROVE  Mute'
  BY <1>3, AtLemma, CommandStaysMute
<1>4. {"done", "acquiring", "stopping", "enqueuing", "toggling", "writing"} \subseteq Awaits \ InStart
  BY DEF Awaits, InStart, InStop
<1>5. ASSUME NEW c \in Cmd, NEW c2 \in Cmd, Become(c, [At("acquiring") EXCEPT !.track = c2]),
             UNCHANGED <<registry, proc>>
      PROVE  Mute'
  <2>1. /\ [At("acquiring") EXCEPT !.track = c2] \in TaskState
        /\ [At("acquiring") EXCEPT !.track = c2].at \notin InStart
    BY <1>4 DEF At, TaskState, Stored, Idle, InStart
  <2> QED  BY <1>5, <2>1, CommandStaysMute
<1>6. ASSUME NEW c \in Cmd, Step(c) PROVE Mute'
  <2>1. CASE EngineStep(c)
    BY <1>6, <2>1, EngineStaysMute
  <2>2. CASE EnqueueTrack(c)
    BY <1>3, <1>4, <2>2 DEF EnqueueTrack, End
  <2>3. CASE SkipToNext(c)
    <3>1. CASE queue = <<>>
      BY <1>3, <1>4, <2>3, <3>1 DEF SkipToNext, engine
    <3>2. CASE queue # <<>>
      <4>1. Head(queue) \in Cmd
        BY <3>2 DEF JInv, Shared
      <4> QED  BY <1>5, <2>3, <3>2, <4>1 DEF SkipToNext, engine
    <3> QED  BY <3>1, <3>2
  <2> QED  BY <1>6, <2>1, <2>2, <2>3, TaskSorts DEF Step, QuietStep
<1>7. ASSUME NEW c \in Cmd, Command(c) PROVE Mute'
  <2>1. CASE PlayCmd(c)
    BY <1>3, <1>4, <1>5, <2>1 DEF PlayCmd, engine
  <2>2. CASE SkipCmd(c)
    <3>1. CASE stored.status = "idle" \/ stored.track = None
      BY <1>3, <1>4, <2>2, <3>1 DEF SkipCmd, engine
    <3>2. CASE ~ (stored.status = "idle" \/ stored.track = None)
      <4> DEFINE r == [At("stopping") EXCEPT !.then = "dequeue"]
      <4>1. r \in TaskState /\ r.at \notin InStart
        BY <1>4 DEF At, TaskState, Stored, Idle, InStart
      <4> QED  BY <2>2, <3>2, <4>1, CommandStaysMute DEF SkipCmd, engine
    <3> QED  BY <3>1, <3>2
  <2>3. CASE StopCmd(c)
    BY <1>3, <1>4, <2>3 DEF StopCmd, engine
  <2>4. CASE VolumeCmd(c)
    <3> DEFINE r == [At("writing") EXCEPT !.snap = stored]
    <3>1. r \in TaskState /\ r.at \notin InStart
      BY <1>4 DEF At, TaskState, Stored, Idle, InStart, JInv, Shared
    <3> QED  BY <2>4, <3>1, CommandStaysMute DEF VolumeCmd, engine
  <2>5. ASSUME NEW kind, NEW from, NEW to \in {"playing", "paused"}, ToggleCmd(c, kind, from, to)
        PROVE  Mute'
    <3> DEFINE r == [At("toggling") EXCEPT !.then = to]
    <3>1. r \in TaskState /\ r.at \notin InStart
      BY <1>4 DEF At, TaskState, Stored, Idle, InStart
    <3> QED  BY <1>3, <1>4, <2>5, <3>1, CommandStaysMute DEF ToggleCmd, engine
  <2> QED  BY <1>7, <2>1, <2>2, <2>3, <2>4, <2>5 DEF Command
<1>8. CASE Environment
  <2>1. \A p \in Proc : ~ Finish(p) /\ ~ Crash(p) /\ ~ ExitOnSignal(p)
    BY DEF Mute, Finish, Crash, ExitOnSignal, Exits
  <2>2. Restart
    BY <1>8, <2>1 DEF Environment
  <2>3. \A t \in Task : task'[t] = task[t] \/ task'[t] = At("done")
    BY <2>2 DEF Restart
  <2>4. At("done").at \notin InStart
    BY <1>4, AtLemma
  <2>5. \A p \in Proc : task'[p] = task[p] /\ proc'[p] = "unused"
    BY <2>2, TaskSorts DEF Restart, Mute, Running
  <2> QED  BY <2>2, <2>3, <2>4, <2>5, TaskSorts DEF Restart, Mute
<1>9. ASSUME NEW t \in Task, TaskStep(t) PROVE Mute'
  BY <1>2, <1>6, <1>7, <1>9 DEF TaskStep, Task
<1> QED
  BY <1>1, <1>8, <1>9 DEF Next

(* As long as stream_engine.py:78 enters acquire's coroutine un-awaited,   *)
(* nothing is ever played: no command, no track end, no recovery and no    *)
(* restart gets an FFmpeg spawned, although "Automatic playback start if   *)
(* idle" is what play.py:24 says.                                          *)
THEOREM UnawaitedStaysMute ==
  ASSUME AcquireAwaited = FALSE
  PROVE  Spec => [](\A p \in Proc : proc[p] = "unused")
<1>1. Init => Mute
  BY AtLemma, TaskSorts DEF Init, TasksInit, Mute, InStart, Awaits
<1>2. JInv /\ Mute /\ [Next]_vars => Mute'
  BY NextStaysMute
<1>3. Mute => \A p \in Proc : proc[p] = "unused"
  BY DEF Mute
<1> QED
  BY <1>1, <1>2, <1>3, JukeboxInvariant, PTL DEF Spec
--------------------------------------------------------------------------------
(* Nothing overlaps and no external call fails                             *)

\* Coroutines do not overlap, no external call fails, the bot stays up, and
\* acquire is awaited.
Unhindered == /\ Schedule = "alone" /\ Faults = {} /\ MaxRestarts = 0
               /\ AcquireAwaited = TRUE

\* The model's stock of FFmpeg processes is a bound of its own: the code's does
\* not run out.
SpareProc == (\E t \in Task : task[t].at \in {"spawning", "respawning"})
               => \E p \in Proc : proc[p] = "unused"

\* No FFmpeg runs, not even on its way out; none but p does, and nobody told p
\* to end.
Silent      == \A q \in Proc : proc[q] \notin {"run", "termed"}
OnlyRuns(p) == /\ \A q \in Proc : proc[q] \in {"run", "termed"} => q = p
               /\ proc[p] # "termed"

\* Redis names the registered track.
Playing == registry # None /\ stored.status # "idle" /\ stored.track = registry.track

\* The four records agree, unless a monitor left a dead stream behind.
Steady ==
  /\ registry = None => stored = Idle /\ wtask = None /\ Silent /\ queue = <<>>
  /\ registry # None => /\ Playing /\ OnlyRuns(registry.proc)
                        /\ wtask = registry.proc \/ (wtask = None /\ DeadStream)

\* The group has no monitor but t, if t is one.
OnlyOwn(t) == wtask = IF t \in Proc THEN t ELSE None

\* A monitor stops the stream it watches, a command any.
MayStop(t) == wtask = registry.proc /\ (t \in Proc => wtask = t)

\* What the one busy task t finds, by the await it is at.
StopStage(t, r) ==
  /\ r.at = "stopping" => Steady /\ (t \in Proc => wtask = t)
  /\ r.at = "reaping" => /\ Playing /\ MayStop(t) /\ r.proc = registry.proc
                         /\ \A q \in Proc : /\ proc[q] # "run"
                                            /\ proc[q] = "termed" => q = registry.proc
  /\ r.at = "leaving" => Playing /\ MayStop(t) /\ Silent
  /\ r.at = "cancelling" /\ r.then # "rewatch" =>
       /\ Playing /\ Silent
       /\ IF t \in Proc THEN wtask = t /\ r.target = t
          ELSE r.target \in Proc /\ wtask \in {None, r.target}
  /\ r.at = "idling" => Playing /\ Silent /\ OnlyOwn(t)
  /\ r.at = "dropping" => registry # None /\ stored = Idle /\ Silent /\ OnlyOwn(t)
  /\ r.at \in InStop /\ r.then = "dequeue" => t \in Cmd
  /\ r.at \in InStop /\ r.then = "start" => t \in Proc
  /\ r.at \in InStop /\ r.then \notin {"dequeue", "start"} =>
       queue = <<>> \/ (r.at = "cancelling" /\ r.then = "rewatch")

StartStage(t, r) ==
  /\ r.at \in {"acquiring", "spawning"} \/ (r.at = "dequeuing" /\ t \in Cmd) =>
       registry = None /\ stored = Idle /\ Silent /\ OnlyOwn(t)
  /\ r.at = "playing" => registry = None /\ stored = Idle /\ OnlyRuns(r.proc) /\ OnlyOwn(t)
  /\ r.at \in {"saving", "launching"} =>
       /\ registry # None /\ registry.proc = r.proc /\ registry.track = r.track
       /\ OnlyRuns(r.proc) /\ OnlyOwn(t)
       /\ r.at = "saving" => stored = Idle
       /\ r.at = "launching" => Playing
  /\ r.at = "scheduled" => t \in Proc /\ Playing /\ registry.proc = t /\ wtask = None /\ OnlyRuns(t)

MonitorStage(t, r) ==
  /\ r.at = "dequeuing" /\ t \in Proc => Steady /\ wtask = t
  /\ r.at = "respawning" => /\ Steady /\ wtask = t /\ t \in Proc /\ proc[t] \in Exited
                            /\ r.entry = registry.entry /\ r.track = registry.track
  /\ r.at = "swapping" => /\ Playing /\ wtask = t /\ t \in Proc
                          /\ r.entry = registry.entry /\ OnlyRuns(r.proc)
  /\ r.at = "cancelling" /\ r.then = "rewatch" =>
       /\ Playing /\ wtask = t /\ t \in Proc /\ r.target = t
       /\ registry.proc = r.proc /\ OnlyRuns(r.proc)

CommandStage(t, r) ==
  /\ r.at \in {"enqueuing", "toggling", "rereading"} => t \in Cmd /\ Steady /\ registry # None
  /\ r.at = "writing" =>
       /\ t \in Cmd /\ Steady
       /\ registry = None => r.snap = Idle
       /\ registry # None => r.snap.status # "idle" /\ r.snap.track = registry.track

\* Only a command that waits for the group's monitor has cancelled it.
CancelStage(t, r) ==
  cancelled \subseteq IF r.at = "cancelling" /\ t \in Cmd THEN {wtask} ELSE {}

\* Past terminate(), or with a process just spawned, the stream is not dead.
AliveStage(t, r) ==
  /\ r.at \in InStart \cup InStop \cup {"acquiring", "scheduled"} /\ r.at # "stopping" =>
       ~ DeadStream
  /\ r.at \in {"playing", "swapping"} => proc[r.proc] \notin Dropped

Stage(t, r) == /\ StopStage(t, r) /\ StartStage(t, r) /\ MonitorStage(t, r)
               /\ CommandStage(t, r) /\ CancelStage(t, r) /\ AliveStage(t, r)

\* Handed out by the queue, not started and on nobody's way to be.
Astray == {c \in ToSet(shadow) :
             starts[c] # 1 /\ \A t \in Task : ~ (Starting(task[t]) /\ task[t].track = c)}

\* The monitor of a stream that is dead by now was to start it.
HandedOut == /\ Astray # {} => DeadStream /\ wtask = None
             /\ \A c, d \in Astray : c = d

Solo == IsFiniteSet(Busy) /\ \A t, u \in Busy : t = u

AloneInv ==
  /\ Solo
  /\ \A p \in Proc : task[p].at = "polling" => p = wtask
  /\ Busy = {} => Steady /\ cancelled = {}
  /\ \A t \in Busy : Stage(t, task[t])
  /\ HandedOut
--------------------------------------------------------------------------------
(* Steps of one task when nothing overlaps                                 *)

\* A task with this record is busy.
BusyAt(r) == r.at \notin {"off", "done", "polling"}

(* At most one task is busy after the step, too.                           *)
LEMMA SoloNext ==
  ASSUME Solo, NEW x, NEW y, Busy' \subseteq Busy \cup {x, y}, Cardinality(Busy') <= 1
  PROVE  Solo'
<1>1. IsFiniteSet(Busy \cup {x, y})
  <2>1. IsFiniteSet((Busy \cup {x}) \cup {y})
    BY FS_AddElement DEF Solo
  <2>2. (Busy \cup {x}) \cup {y} = Busy \cup {x, y}
    OBVIOUS
  <2> QED  BY <2>1, <2>2
<1>2. IsFiniteSet(Busy')
  BY <1>1, FS_Subset
<1>3. Cardinality(Busy') \in Nat
  BY <1>2, FS_CardinalityType
<1>4. Cardinality(Busy') = 0 \/ Cardinality(Busy') = 1
  BY <1>3
<1>5. \A t, u \in Busy' : t = u
  BY <1>2, <1>4, FS_EmptySet, FS_Singleton
<1> QED
  BY <1>2, <1>5 DEF Solo

(* The busy task has the stage to itself.                                  *)
LEMMA BusyTask ==
  ASSUME JInv, AloneInv, NEW t \in Task, BusyAt(task[t])
  PROVE  /\ Busy = {t} /\ Stage(t, task[t]) /\ task[t] \in TaskState
         /\ cancelled = {} \/ (task[t].at = "cancelling" /\ t \in Cmd /\ cancelled \subseteq {wtask})
         /\ t \notin cancelled
<1>1. t \in Busy
  BY DEF Busy, BusyAt
<1>2. Stage(t, task[t]) /\ task[t] \in TaskState
  BY <1>1 DEF AloneInv, JInv, Locals
<1>3. Busy = {t}
  BY <1>1 DEF AloneInv, Solo
<1>4. cancelled \subseteq IF task[t].at = "cancelling" /\ t \in Cmd THEN {wtask} ELSE {}
  BY <1>2 DEF Stage, CancelStage, AliveStage
<1>5. t \in Cmd => wtask # t
  BY TaskSorts DEF JInv, Shared
<1> QED
  BY <1>2, <1>3, <1>4, <1>5

(* What was handed out stays accounted for when one task moves.            *)
LEMMA HandedMove ==
  ASSUME JInv, AloneInv, NEW t \in Task, NEW r \in TaskState, Become(t, r),
         \A c \in ToSet(shadow') : c \in ToSet(shadow) \/ (Starting(r) /\ r.track = c),
         \A c \in Cmd : starts[c] = 1 => starts'[c] = 1,
         Starting(task[t]) => \/ Starting(r) /\ r.track = task[t].track
                              \/ starts'[task[t].track] = 1,
         DeadStream /\ wtask = None => DeadStream' /\ wtask' = None
  PROVE  HandedOut'
<1> SUFFICES ASSUME NEW c \in ToSet(shadow'), starts'[c] # 1, c \notin Astray
             PROVE  \E u \in Task : Starting(task'[u]) /\ task'[u].track = c
  <2>1. Astray' \subseteq Astray
    BY DEF Astray
  <2> QED  BY <2>1 DEF AloneInv, HandedOut
<1>1. task'[t] = r /\ \A u \in Task : u # t => task'[u] = task[u]
  BY BecomeLemma
<1>2. CASE Starting(r) /\ r.track = c
  BY <1>1, <1>2
<1>3. CASE c \in ToSet(shadow)
  <2>1. c \in Cmd
    BY <1>3, ElementOfSeq, LenProperties DEF JInv, Shared, ToSet
  <2>2. PICK u \in Task : Starting(task[u]) /\ task[u].track = c
    BY <1>3, <2>1 DEF Astray
  <2>3. CASE u = t
    BY <1>1, <2>2, <2>3
  <2>4. CASE u # t
    BY <1>1, <2>2, <2>4
  <2> QED  BY <2>3, <2>4
<1> QED
  BY <1>2, <1>3

(* The busy task goes on, or comes to rest; or a task gets busy when none  *)
(* is.                                                                     *)
LEMMA AloneMove ==
  ASSUME JInv, AloneInv, NEW t \in Task, NEW r \in TaskState, Become(t, r), Solo', HandedOut',
         BusyAt(task[t]) \/ BusyAt(r),
         wtask' = wtask \/ wtask \in {t, None},
         r.at = "polling" => wtask' = t,
         BusyAt(r) => Stage(t, r)',
         ~ BusyAt(r) => Steady' /\ cancelled' = {}
  PROVE  AloneInv'
<1>1. task'[t] = r /\ \A u \in Task : u # t => task'[u] = task[u]
  BY BecomeLemma
<1>2. \A u \in Task : u # t => ~ BusyAt(task[u])
  <2>1. CASE BusyAt(task[t])
    BY <2>1, BusyTask DEF Busy, BusyAt
  <2>2. CASE BusyAt(r)
    <3>1. t \in Busy'
      BY <1>1, <2>2 DEF Busy, BusyAt
    <3> QED  BY <1>1, <3>1 DEF Solo, Busy, BusyAt
  <2> QED  BY <2>1, <2>2
<1>3. Busy' = IF BusyAt(r) THEN {t} ELSE {}
  BY <1>1, <1>2 DEF Busy, BusyAt
<1>4. ASSUME NEW p \in Proc, task'[p].at = "polling" PROVE p = wtask'
  <2>1. p \in Task /\ p # None
    BY TaskSorts
  <2>2. CASE p = t
    BY <1>1, <1>4, <2>2
  <2>3. CASE p # t
    BY <1>1, <1>4, <2>1, <2>3 DEF AloneInv
  <2> QED  BY <2>2, <2>3
<1>5. \A u \in Busy' : Stage(u, task[u])'
  <2> SUFFICES ASSUME BusyAt(r) PROVE Stage(t, task[t])'
    BY <1>3
  <2>1. Stage(t, r)'
    OBVIOUS
  <2> QED
    BY <1>1, <2>1
       DEF Stage, StopStage, StartStage, MonitorStage, CommandStage, CancelStage, AliveStage
<1> QED
  BY <1>3, <1>4, <1>5 DEF AloneInv
--------------------------------------------------------------------------------
(* start_stream when nothing overlaps                                      *)

\* The permit is taken and FFmpeg is about to be spawned.
LEMMA AcquireAlone ==
  ASSUME JInv, AloneInv, Unhindered, NEW t \in Task, Acquire(t), UNCHANGED lists, Solo'
  PROVE  AloneInv'
<1> SUFFICES ASSUME NEW r, r = [task[t] EXCEPT !.at = "spawning"] PROVE AloneInv'
  OBVIOUS
<1>1. /\ task[t].at = "acquiring" /\ Become(t, r)
      /\ UNCHANGED <<queue, shadow, stored, registry, proc, wtask, starts, cancelled>>
  BY DEF Acquire, Runs, Goto, Unhindered, history, lists
<1>2. /\ Stage(t, task[t]) /\ cancelled = {} /\ BusyAt(task[t])
      /\ task[t] \in TaskState
  BY <1>1, BusyTask DEF BusyAt
<1>3. r \in TaskState /\ r.at = "spawning" /\ r.then = task[t].then /\ r.track = task[t].track
  BY <1>2, GotoLemma DEF Awaits, InStart
<1>4. Stage(t, r)'
  BY <1>1, <1>2, <1>3 DEF Stage, StopStage, StartStage, MonitorStage, CommandStage,
                          CancelStage, AliveStage, DeadStream, InStart,
     InStop, Silent, OnlyOwn
<1>5. HandedOut'
  BY <1>1, <1>3, HandedMove DEF DeadStream, Starting
<1> QED
  BY <1>1, <1>2, <1>3, <1>4, <1>5, AloneMove DEF BusyAt

\* The one FFmpeg process that runs is the one just spawned.
LEMMA SpawnAlone ==
  ASSUME JInv, AloneInv, NEW t \in Task, Spawn(t), UNCHANGED lists, Solo'
  PROVE  AloneInv'
<1>1. PICK p \in Proc : /\ SpawnProc(p, task[t].track)
                        /\ Become(t, [task[t] EXCEPT !.at = "playing", !.proc = p])
  BY DEF Spawn
<1> SUFFICES ASSUME NEW r, r = [task[t] EXCEPT !.at = "playing", !.proc = p] PROVE AloneInv'
  OBVIOUS
<1>2. /\ task[t].at = "spawning" /\ Become(t, r)
      /\ UNCHANGED <<queue, shadow, stored, registry, wtask, cancelled>>
      /\ proc' = [proc EXCEPT ![p] = "run"]
      /\ starts' = [starts EXCEPT ![task[t].track] = @ + 1]
  BY <1>1 DEF Spawn, Runs, lists, SpawnProc
<1>3. /\ Stage(t, task[t]) /\ cancelled = {} /\ BusyAt(task[t])
      /\ task[t] \in TaskState /\ proc \in [Proc -> {"unused", "run", "termed"} \cup Exited]
  BY <1>2, BusyTask DEF BusyAt, JInv, Shared
<1>4. /\ r \in TaskState /\ r.at = "playing" /\ r.then = task[t].then /\ r.track = task[t].track
      /\ r.proc = p
  BY <1>3 DEF TaskState, Awaits, InStart
<1>5. proc'[p] = "run" /\ \A q \in Proc \ {p} : proc'[q] = proc[q]
  BY <1>2, <1>3
<1>6. Stage(t, r)'
  BY <1>2, <1>3, <1>4, <1>5 DEF Stage, StopStage, StartStage, MonitorStage, CommandStage,
     CancelStage, AliveStage, DeadStream, InStop, InStart, Silent, OnlyOwn, OnlyRuns,
     DeadStream, Dropped
<1>7. task[t].track \in Cmd /\ starts'[task[t].track] = 1
      /\ \A c \in Cmd : starts[c] = 1 => starts'[c] = 1
  <2>1. Starting(task[t]) /\ task[t].track \in Cmd /\ starts \in [Cmd -> {0, 1}]
    BY <1>2 DEF Starting, JInv, Locals, LocalOK, Shared
  <2>2. starts[task[t].track] = 0
    BY <2>1 DEF JInv, OneOfEach, Unplayed
  <2> QED  BY <1>2, <2>1, <2>2
<1>8. HandedOut'
  <2>1. ~ DeadStream
    BY <1>2, <1>3 DEF Stage, AliveStage, InStart
  <2> QED  BY <1>2, <1>4, <1>7, <2>1, HandedMove
<1> QED
  BY <1>2, <1>3, <1>4, <1>6, <1>8, AloneMove DEF BusyAt

\* The stream is registered; Redis still says idle.
LEMMA PlayAudioAlone ==
  ASSUME JInv, AloneInv, NEW t \in Task, PlayAudio(t), UNCHANGED lists, Solo'
  PROVE  AloneInv'
<1> SUFFICES ASSUME NEW r, r = [task[t] EXCEPT !.at = "saving"] PROVE AloneInv'
  OBVIOUS
<1>1. /\ task[t].at = "playing" /\ Become(t, r)
      /\ UNCHANGED <<queue, shadow, stored, proc, wtask, starts, cancelled>>
      /\ registry' = [entry |-> task[t].proc, proc |-> task[t].proc, track |-> task[t].track]
  BY DEF PlayAudio, Runs, Goto, history, lists
<1>2. /\ Stage(t, task[t]) /\ cancelled = {} /\ BusyAt(task[t])
      /\ task[t] \in TaskState /\ task[t].proc \in Proc /\ task[t].track \in Cmd
  BY <1>1, BusyTask DEF BusyAt, JInv, Locals, LocalOK, Attached, InStart
<1>3. /\ r \in TaskState /\ r.at = "saving" /\ r.then = task[t].then /\ r.track = task[t].track
      /\ r.proc = task[t].proc
  BY <1>2, GotoLemma DEF Awaits, InStart
<1>4. registry' # None /\ registry'.proc = r.proc /\ registry'.track = r.track
  BY <1>1, <1>2, <1>3, NoneAssumption DEF Entry
<1>5. Stage(t, r)'
  <2>1. proc[task[t].proc] \notin Dropped
    BY <1>1, <1>2 DEF Stage, AliveStage
  <2>2. AliveStage(t, r)'
    BY <1>1, <1>3, <1>4, <2>1 DEF AliveStage, DeadStream
  <2> QED
    BY <1>1, <1>2, <1>3, <1>4, <2>2 DEF Stage, StopStage, StartStage, MonitorStage, CommandStage,
       CancelStage, InStop, Silent, OnlyOwn, OnlyRuns
<1>6. HandedOut'
  <2>1. ~ DeadStream
    BY <1>1, <1>2 DEF Stage, AliveStage, InStart
  <2> QED  BY <1>1, <1>3, <2>1, HandedMove DEF Starting, InStop
<1> QED
  BY <1>1, <1>2, <1>3, <1>5, <1>6, AloneMove DEF BusyAt

\* Redis names the registered track.
LEMMA SavePlayingAlone ==
  ASSUME JInv, AloneInv, NEW t \in Task, SavePlaying(t), UNCHANGED lists, Solo'
  PROVE  AloneInv'
<1> SUFFICES ASSUME NEW r, r = [task[t] EXCEPT !.at = "launching"] PROVE AloneInv'
  OBVIOUS
<1>1. /\ task[t].at = "saving" /\ Become(t, r)
      /\ UNCHANGED <<queue, shadow, registry, proc, wtask, starts, cancelled>>
      /\ stored' = [status |-> "playing", track |-> task[t].track]
  BY DEF SavePlaying, Runs, Goto, history, lists
<1>2. /\ Stage(t, task[t]) /\ cancelled = {} /\ BusyAt(task[t]) /\ task[t] \in TaskState
  BY <1>1, BusyTask DEF BusyAt
<1>3. /\ r \in TaskState /\ r.at = "launching" /\ r.then = task[t].then /\ r.track = task[t].track
      /\ r.proc = task[t].proc
  BY <1>2, GotoLemma DEF Awaits, InStart
<1>4. stored'.status = "playing" /\ stored'.track = r.track
  BY <1>1, <1>3
<1>5. Stage(t, r)'
  BY <1>1, <1>2, <1>3, <1>4 DEF Stage, StopStage, StartStage, MonitorStage, CommandStage,
     CancelStage, AliveStage, DeadStream, InStop, InStart, Silent, OnlyOwn, OnlyRuns, Playing
<1>6. HandedOut'
  BY <1>1, <1>3, HandedMove DEF DeadStream, Starting, InStop
<1> QED
  BY <1>1, <1>2, <1>3, <1>5, <1>6, AloneMove DEF BusyAt

(* The busy task ends and leaves a scheduled watch behind.                 *)
LEMMA AloneHandsOver ==
  ASSUME JInv, AloneInv, NEW t \in Task, NEW n \in Proc, BusyAt(task[t]), task[n].at = "off",
         task' = [task EXCEPT ![t] = At("done"), ![n] = At("scheduled")], wtask' = None,
         UNCHANGED <<lists, stored, registry, proc, starts, cancelled>>, ~ DeadStream,
         ~ Starting(task[t]), cancelled = {}, wtask \in {t, None},
         Playing', registry'.proc = n, OnlyRuns(n)', Solo'
  PROVE  AloneInv'
<1>1. n \in Task /\ n # t /\ task \in [Task -> TaskState]
  BY TaskSorts DEF BusyAt, JInv, Locals
<1>2. /\ task'[t] = At("done") /\ task'[n] = At("scheduled")
      /\ \A u \in Task \ {t, n} : task'[u] = task[u]
  BY <1>1
<1>3. /\ At("done").at = "done" /\ At("scheduled").at = "scheduled"
      /\ At("scheduled").then = "return"
  BY AtLemma DEF Awaits
<1>4. Busy' = {n}
  BY <1>1, <1>2, <1>3, BusyTask DEF Busy, BusyAt
<1>5. ASSUME NEW p \in Proc PROVE task'[p].at # "polling"
  <2>1. p \in Task /\ p # None
    BY TaskSorts
  <2>2. CASE p \in {t, n}
    BY <1>2, <1>3, <2>2
  <2>3. CASE p \notin {t, n}
    BY <1>2, <2>1, <2>3 DEF AloneInv
  <2> QED  BY <2>2, <2>3
<1>6. Stage(n, task[n])'
  BY <1>2, <1>3, TaskSorts DEF Stage, StopStage, StartStage, MonitorStage, CommandStage,
     CancelStage, AliveStage, DeadStream, InStop, InStart, InStart, Playing, OnlyRuns,
     DeadStream
<1>7. HandedOut'
  <2> SUFFICES ASSUME NEW c \in ToSet(shadow), starts[c] # 1
               PROVE  \E u \in Task : Starting(task'[u]) /\ task'[u].track = c
    BY DEF HandedOut, Astray, lists
  <2>1. PICK u \in Task : Starting(task[u]) /\ task[u].track = c
    BY DEF AloneInv, HandedOut, Astray
  <2>2. u # t /\ u # n
    BY <2>1 DEF Starting, InStop
  <2> QED  BY <1>2, <2>1, <2>2
<1> QED
  BY <1>4, <1>5, <1>6, <1>7 DEF AloneInv

\* start_stream ends with the watch of its process scheduled.
LEMMA LaunchAlone ==
  ASSUME JInv, AloneInv, NEW t \in Task, Launch(t), UNCHANGED lists, Solo'
  PROVE  AloneInv'
<1>1. /\ task[t].at = "launching" /\ wtask' = WtaskAfter(t)
      /\ UNCHANGED <<stored, registry, proc, starts, cancelled>>
      /\ task' = [task EXCEPT ![t] = At("done"), ![task[t].proc] = At("scheduled")]
  BY DEF Launch, Runs, history
<1>2. /\ Stage(t, task[t]) /\ cancelled = {} /\ BusyAt(task[t]) /\ ~ Starting(task[t])
  BY <1>1, BusyTask DEF BusyAt, Starting, InStop
<1>3. task[t].proc \in Proc /\ task[task[t].proc].at = "off"
  BY <1>1 DEF JInv, Locals, LocalOK, Attached, NewProcs
<1>4. /\ registry # None /\ registry.proc = task[t].proc /\ OnlyRuns(task[t].proc)
      /\ Playing /\ OnlyOwn(t)
  BY <1>1, <1>2 DEF Stage, StartStage
<1>5. wtask' = None /\ wtask \in {t, None}
  BY <1>1, <1>4 DEF WtaskAfter, OnlyOwn
<1>6. Playing' /\ registry'.proc = task[t].proc
  BY <1>1, <1>4 DEF Playing
<1>7. PICK n \in Proc : n = task[t].proc
  BY <1>3
<1>8. OnlyRuns(n)'
  BY <1>1, <1>4, <1>7 DEF OnlyRuns
<1>9. ~ DeadStream
  BY <1>1, <1>2 DEF Stage, AliveStage, InStart
<1> QED
  BY <1>1, <1>2, <1>3, <1>5, <1>6, <1>7, <1>8, <1>9, AloneHandsOver
--------------------------------------------------------------------------------
(* stop_stream when nothing overlaps                                       *)

\* stop_stream returns with everything stopped.
LEMMA StopReturnsAlone ==
  ASSUME JInv, AloneInv, NEW t \in Task, task[t].at \in {"stopping", "dropping"}, StopReturns(t),
         UNCHANGED <<lists, starts, cancelled>>,
         registry' = None, stored' = Idle, Silent', wtask = IF t \in Proc THEN t ELSE None,
         ~ DeadStream, Solo'
  PROVE  AloneInv'
<1>1. /\ Stage(t, task[t]) /\ cancelled = {} /\ BusyAt(task[t]) /\ task[t] \in TaskState
      /\ UNCHANGED <<queue, shadow>>
  BY BusyTask DEF BusyAt, lists
<1>2. CASE task[t].then = "start"
  <2> SUFFICES ASSUME NEW r, r = [task[t] EXCEPT !.at = "acquiring"] PROVE AloneInv'
    OBVIOUS
  <2>1. Become(t, r) /\ wtask' = wtask
    BY <1>2 DEF StopReturns, Goto
  <2>2. r \in TaskState /\ r.at = "acquiring" /\ r.track = task[t].track
    BY <1>1, GotoLemma DEF Awaits
  <2>3. Stage(t, r)'
    BY <1>1, <2>1, <2>2 DEF Stage, StopStage, StartStage, MonitorStage, CommandStage,
                            CancelStage, AliveStage, DeadStream, InStart,
       InStop, Silent, OnlyOwn
  <2>4. HandedOut'
    BY <1>1, <2>1, <2>2, HandedMove DEF DeadStream, Starting
  <2> QED
    BY <1>1, <2>1, <2>2, <2>3, <2>4, AloneMove DEF BusyAt
<1>3. CASE task[t].then = "dequeue"
  <2> SUFFICES ASSUME NEW r, r = [task[t] EXCEPT !.at = "dequeuing"] PROVE AloneInv'
    OBVIOUS
  <2>1. Become(t, r) /\ wtask' = wtask
    BY <1>3 DEF StopReturns, Goto
  <2>2. r \in TaskState /\ r.at = "dequeuing" /\ t \in Cmd
    BY <1>1, <1>3, GotoLemma DEF Awaits, Stage, StopStage, InStop
  <2>3. Stage(t, r)'
    BY <1>1, <2>1, <2>2, TaskSorts DEF Stage, StopStage, StartStage, MonitorStage, CommandStage,
       CancelStage, AliveStage, DeadStream, InStop, InStart, Silent, OnlyOwn
  <2>4. ~ Starting(task[t])
    BY <1>3 DEF Starting
  <2>5. HandedOut'
    BY <1>1, <2>1, <2>2, <2>4, HandedMove DEF DeadStream
  <2> QED
    BY <1>1, <2>1, <2>2, <2>3, <2>5, AloneMove DEF BusyAt
<1>4. CASE task[t].then \notin {"start", "dequeue"}
  <2>1. Become(t, At("done")) /\ wtask' = None
    BY <1>4 DEF StopReturns, End, WtaskAfter
  <2>2. At("done") \in TaskState /\ At("done").at = "done"
    BY AtLemma DEF Awaits
  <2>3. queue = <<>>
    BY <1>1, <1>4 DEF Stage, StopStage, InStop
  <2>4. Steady' /\ cancelled' = {}
    BY <1>1, <2>1, <2>3 DEF Steady, Silent
  <2>5. ~ Starting(task[t])
    BY <1>4 DEF Starting
  <2>6. HandedOut'
    BY <1>1, <2>1, <2>2, <2>5, HandedMove DEF DeadStream
  <2> QED
    BY <1>1, <2>1, <2>2, <2>4, <2>6, AloneMove DEF BusyAt
<1> QED
  BY <1>2, <1>3, <1>4

\* stop_stream without a stream finds everything stopped.
LEMMA NoActiveStreamAlone ==
  ASSUME JInv, AloneInv, NEW t \in Task, NoActiveStream(t), UNCHANGED lists, Solo'
  PROVE  AloneInv'
<1>1. /\ task[t].at = "stopping" /\ registry = None /\ StopReturns(t)
      /\ UNCHANGED <<stored, registry, proc, starts, cancelled>>
  BY DEF NoActiveStream, Runs, history
<1>2. Steady /\ (t \in Proc => wtask = t)
  BY <1>1, BusyTask DEF BusyAt, Stage, StopStage
<1>3. stored = Idle /\ wtask = None /\ Silent /\ t \notin Proc
  BY <1>1, <1>2, TaskSorts DEF Steady
<1> QED
  BY <1>1, <1>3, StopReturnsAlone DEF Silent, DeadStream

\* The entry is dropped last.
LEMMA DropAlone ==
  ASSUME JInv, AloneInv, NEW t \in Task, Drop(t), UNCHANGED lists, Solo'
  PROVE  AloneInv'
<1>1. /\ task[t].at = "dropping" /\ registry' = None /\ StopReturns(t)
      /\ UNCHANGED <<stored, proc, starts, cancelled>>
  BY DEF Drop, Runs, history
<1>2. stored = Idle /\ Silent /\ OnlyOwn(t) /\ ~ DeadStream
  BY <1>1, BusyTask DEF BusyAt, Stage, StopStage, AliveStage, DeadStream, InStop, InStart
<1> QED
  BY <1>1, <1>2, StopReturnsAlone DEF Silent, OnlyOwn

\* The registered process is told to end; no other runs.
LEMMA TerminateAlone ==
  ASSUME JInv, AloneInv, NEW t \in Task, Terminate(t), UNCHANGED lists, Solo'
  PROVE  AloneInv'
<1> SUFFICES ASSUME NEW r, r = [task[t] EXCEPT !.at = "reaping", !.proc = registry.proc]
    PROVE  AloneInv'
  OBVIOUS
<1>1. /\ task[t].at = "stopping" /\ Become(t, r)
      /\ UNCHANGED <<queue, shadow, stored, registry, wtask, starts, cancelled>>
      /\ registry # None /\ proc[registry.proc] \notin Dropped
      /\ proc' = [proc EXCEPT ![registry.proc] = IF @ = "run" THEN "termed" ELSE @]
  BY DEF Terminate, Runs, Goto, history, lists, engine
<1>2. /\ Stage(t, task[t]) /\ cancelled = {} /\ BusyAt(task[t]) /\ task[t] \in TaskState
  BY <1>1, BusyTask DEF BusyAt
<1>3. registry.proc \in Proc /\ Steady /\ (t \in Proc => wtask = t) /\ ~ DeadStream
  BY <1>1, <1>2 DEF JInv, Shared, Entry, Stage, StopStage, DeadStream
<1>4. /\ r \in TaskState /\ r.at = "reaping" /\ r.then = task[t].then /\ r.track = task[t].track
      /\ r.proc = registry.proc
  BY <1>2, <1>3 DEF TaskState, Awaits, InStop
<1>5. /\ proc'[registry.proc] # "run"
      /\ \A q \in Proc \ {registry.proc} : proc'[q] \notin {"run", "termed"}
  <2>1. \A q \in Proc \ {registry.proc} : proc'[q] = proc[q]
    BY <1>1 DEF JInv, Shared
  <2>2. proc'[registry.proc] = IF proc[registry.proc] = "run" THEN "termed" ELSE proc[registry.proc]
    BY <1>1, <1>3 DEF JInv, Shared
  <2>3. OnlyRuns(registry.proc)
    BY <1>1, <1>3 DEF Steady
  <2> QED  BY <2>1, <2>2, <2>3 DEF OnlyRuns
<1>6. Playing' /\ MayStop(t)'
  BY <1>1, <1>3 DEF Steady, Playing, MayStop
<1>7. AliveStage(t, r)'
  <2>1. proc'[registry.proc] \notin Dropped
    BY <1>1, <1>3 DEF JInv, Shared, Dropped
  <2> QED  BY <1>1, <1>4, <2>1 DEF AliveStage, DeadStream
<1>8. Stage(t, r)'
  BY <1>1, <1>2, <1>3, <1>4, <1>5, <1>6, <1>7 DEF Stage, StopStage, StartStage, MonitorStage,
     CommandStage, CancelStage, InStop
<1>9. HandedOut'
  BY <1>1, <1>3, <1>4, HandedMove DEF Starting, InStop
<1> QED
  BY <1>1, <1>2, <1>4, <1>8, <1>9, AloneMove DEF BusyAt

\* terminate() raises: the stream stays registered, without its process and,
\* where it was the monitor that stopped it, without its monitor.  The track the
\* monitor popped is the only one to go astray: afterwards nobody pops another.
LEMMA TerminateRaisesAlone ==
  ASSUME JInv, AloneInv, NEW t \in Task, TerminateRaises(t), UNCHANGED lists, Solo'
  PROVE  AloneInv'
<1> SUFFICES ASSUME NEW r, r = At("done") PROVE AloneInv'
  OBVIOUS
<1>1. /\ task[t].at = "stopping" /\ Become(t, r) /\ wtask' = WtaskAfter(t)
      /\ UNCHANGED <<queue, shadow, stored, registry, starts, cancelled>>
      /\ registry # None /\ proc[registry.proc] \in Exited
      /\ proc' = [proc EXCEPT ![registry.proc] = Drops(@)]
  BY DEF TerminateRaises, Runs, End, history, lists
<1>2. /\ Stage(t, task[t]) /\ cancelled = {} /\ BusyAt(task[t]) /\ task[t] \in TaskState
  BY <1>1, BusyTask DEF BusyAt
<1>3. /\ registry.proc \in Proc /\ Playing /\ OnlyRuns(registry.proc)
      /\ wtask = registry.proc \/ (wtask = None /\ DeadStream)
      /\ t \in Proc => wtask = t /\ wtask # None
      /\ task[t].then = "start" => t \in Proc
  BY <1>1, <1>2, TaskSorts DEF JInv, Shared, Entry, Stage, StopStage, Steady, InStop
<1>4. r \in TaskState /\ r.at = "done"
  BY AtLemma DEF Awaits
<1>5. /\ proc'[registry.proc] \in Dropped
      /\ \A q \in Proc \ {registry.proc} : proc'[q] = proc[q]
  BY <1>1, <1>3 DEF JInv, Shared, Drops, Dropped
<1>6. DeadStream'
  BY <1>1, <1>5 DEF DeadStream
<1>7. OnlyRuns(registry.proc)'
  BY <1>1, <1>3, <1>5 DEF OnlyRuns, Dropped
<1>8. wtask' = IF t \in Proc THEN None ELSE wtask
  BY <1>1 DEF WtaskAfter
<1>9. Steady' /\ cancelled' = {}
  BY <1>1, <1>2, <1>3, <1>6, <1>7, <1>8 DEF Steady, Playing
<1>10. HandedOut'
  <2>1. CASE Starting(task[t])
    <3>1. t \in Proc /\ wtask' = None /\ Astray = {}
      BY <1>1, <1>3, <1>8, <2>1 DEF Starting, AloneInv, HandedOut
    <3>2. \A u \in Task : u # t => task'[u] = task[u]
      BY <1>1, <1>4, BecomeLemma
    <3>3. \A c \in Astray' : c = task[t].track
      BY <1>1, <3>1, <3>2 DEF Astray
    <3> QED  BY <1>6, <3>1, <3>3 DEF HandedOut
  <2>2. CASE ~ Starting(task[t])
    BY <1>1, <1>3, <1>4, <1>6, <1>8, <2>2, HandedMove
  <2> QED  BY <2>1, <2>2
<1> QED
  BY <1>1, <1>2, <1>3, <1>4, <1>8, <1>9, <1>10, AloneMove DEF BusyAt

\* The process that was told to end has ended.
LEMMA ReapAlone ==
  ASSUME JInv, AloneInv, NEW t \in Task, Reap(t), UNCHANGED lists, Solo'
  PROVE  AloneInv'
<1> SUFFICES ASSUME NEW r, r = [task[t] EXCEPT !.at = "leaving", !.proc = None] PROVE AloneInv'
  OBVIOUS
<1>1. /\ task[t].at = "reaping" /\ Become(t, r)
      /\ UNCHANGED <<queue, shadow, stored, registry, proc, wtask, starts, cancelled>>
      /\ proc[task[t].proc] \in Exited
  BY DEF Reap, Runs, Goto, history, lists, engine
<1>2. /\ Stage(t, task[t]) /\ cancelled = {} /\ BusyAt(task[t]) /\ task[t] \in TaskState
  BY <1>1, BusyTask DEF BusyAt
<1>3. r \in TaskState /\ r.at = "leaving" /\ r.then = task[t].then /\ r.track = task[t].track
  BY <1>2 DEF TaskState, Awaits, InStop
<1>4. Playing' /\ MayStop(t)' /\ Silent'
  BY <1>1, <1>2 DEF Stage, StopStage, Playing, MayStop, Silent, Exited, Codes, Dropped
<1>5. Stage(t, r)'
  BY <1>1, <1>2, <1>3, <1>4 DEF Stage, StopStage, StartStage, MonitorStage, CommandStage,
     CancelStage, AliveStage, DeadStream, InStop, InStart
<1>6. HandedOut'
  BY <1>1, <1>3, HandedMove DEF DeadStream, Starting, InStop
<1> QED
  BY <1>1, <1>2, <1>3, <1>5, <1>6, AloneMove DEF BusyAt

(* The monitor that a command cancels is another task; a monitor cancels   *)
(* itself, which changes nothing.                                          *)
LEMMA LeaveAlone ==
  ASSUME JInv, AloneInv, NEW t \in Task, Leave(t), UNCHANGED lists, Solo'
  PROVE  AloneInv'
<1> SUFFICES ASSUME NEW r, r = [task[t] EXCEPT !.at = "cancelling", !.target = wtask]
    PROVE  AloneInv'
  OBVIOUS
<1>1. /\ task[t].at = "leaving" /\ UNCHANGED <<queue, shadow, stored, registry, proc,
                                               wtask, starts>>
  BY DEF Leave, Runs, history, lists, engine
<1>2. /\ Stage(t, task[t]) /\ cancelled = {} /\ BusyAt(task[t]) /\ task[t] \in TaskState
  BY <1>1, BusyTask DEF BusyAt
<1>3. Playing /\ MayStop(t) /\ Silent /\ registry.proc \in Proc /\ registry.proc # None
  BY <1>1, <1>2, TaskSorts DEF Stage, StopStage, JInv, Shared, Entry, Playing
<1>4. /\ wtask \in Proc /\ wtask # None
      /\ IF t \in Proc THEN wtask = t ELSE wtask # t
  BY <1>3, TaskSorts DEF MayStop
<1>5. /\ Become(t, r)
      /\ cancelled' \subseteq IF t \in Cmd THEN {wtask} ELSE {}
  <2>1. StopWatchdog(t, task[t])
    BY <1>4 DEF Leave
  <2>2. Become(t, r)
    BY <2>1 DEF StopWatchdog
  <2>3. cancelled' = IF wtask = t \/ task[wtask].at = "cancelling"
                    THEN cancelled ELSE cancelled \cup {wtask}
    BY <2>1 DEF StopWatchdog
  <2> QED  BY <1>2, <1>4, <2>2, <2>3 DEF Task
<1>6. /\ r \in TaskState /\ r.at = "cancelling" /\ r.then = task[t].then /\ r.track = task[t].track
      /\ r.target = wtask /\ r.then # "rewatch"
  <2>1. task[t].then # "rewatch"
    BY <1>1 DEF JInv, Locals, LocalOK
  <2> QED  BY <1>2, <1>4, <2>1 DEF TaskState, Awaits, InStop, Task
<1>7. Stage(t, r)'
  BY <1>1, <1>2, <1>3, <1>4, <1>5, <1>6 DEF Stage, StopStage, StartStage, MonitorStage,
     CommandStage, CancelStage, AliveStage, DeadStream, InStop, InStart, Playing, Silent
<1>8. HandedOut'
  BY <1>1, <1>5, <1>6, HandedMove DEF DeadStream, Starting, InStop
<1> QED
  BY <1>1, <1>2, <1>5, <1>6, <1>7, <1>8, AloneMove DEF BusyAt

\* The monitor has ended, or is the one that stops the stream.
LEMMA UnwatchedAlone ==
  ASSUME JInv, AloneInv, NEW t \in Task, Unwatched(t), UNCHANGED lists, Solo'
  PROVE  AloneInv'
<1> SUFFICES ASSUME NEW r, r = [task[t] EXCEPT !.at = "idling", !.target = None] PROVE AloneInv'
  OBVIOUS
<1>1. /\ task[t].at = "cancelling" /\ task[t].then # "rewatch" /\ Become(t, r)
      /\ UNCHANGED <<queue, shadow, stored, registry, proc, wtask, starts, cancelled>>
      /\ task[t].target = t \/ task[task[t].target].at = "done"
  BY DEF Unwatched, WatchdogStopped, Runs, history, lists, engine
<1>2. /\ Stage(t, task[t]) /\ BusyAt(task[t]) /\ task[t] \in TaskState
  BY <1>1, BusyTask DEF BusyAt
<1>3. Playing /\ Silent
  BY <1>1, <1>2 DEF Stage, StopStage
<1>4. OnlyOwn(t) /\ cancelled = {}
  <2>1. CASE t \in Proc
    BY <1>1, <1>2, <2>1, TaskSorts DEF Stage, StopStage, CancelStage, AliveStage, OnlyOwn
  <2>2. CASE t \in Cmd
    <3>1. /\ t \notin Proc /\ task[t].target \in Proc /\ wtask \in {None, task[t].target}
          /\ cancelled \subseteq {wtask}
      BY <1>1, <1>2, <2>2, TaskSorts DEF Stage, StopStage, CancelStage, AliveStage
    <3>2. task[task[t].target].at = "done"
      BY <1>1, <3>1
    <3>3. wtask = None
      BY <3>1, <3>2 DEF JInv, WatchEntryLive, Running
    <3>4. cancelled = {}
      BY <3>1, <3>3, TaskSorts DEF JInv, Shared
    <3> QED  BY <3>1, <3>3, <3>4 DEF OnlyOwn
  <2> QED  BY <2>1, <2>2 DEF Task
<1>5. r \in TaskState /\ r.at = "idling" /\ r.then = task[t].then /\ r.track = task[t].track
  BY <1>2 DEF TaskState, Awaits, InStop
<1>6. Stage(t, r)'
  BY <1>1, <1>2, <1>3, <1>4, <1>5 DEF Stage, StopStage, StartStage, MonitorStage, CommandStage,
     CancelStage, AliveStage, DeadStream, InStop, InStart, Playing, Silent, OnlyOwn
<1>7. HandedOut'
  BY <1>1, <1>5, HandedMove DEF DeadStream, Starting, InStop
<1> QED
  BY <1>1, <1>2, <1>5, <1>6, <1>7, AloneMove DEF BusyAt

\* Redis says idle, the entry is still there.
LEMMA SaveIdleAlone ==
  ASSUME JInv, AloneInv, NEW t \in Task, SaveIdle(t), UNCHANGED lists, Solo'
  PROVE  AloneInv'
<1> SUFFICES ASSUME NEW r, r = [task[t] EXCEPT !.at = "dropping"] PROVE AloneInv'
  OBVIOUS
<1>1. /\ task[t].at = "idling" /\ Become(t, r)
      /\ UNCHANGED <<queue, shadow, registry, proc, wtask, starts, cancelled>>
      /\ stored' = Idle
  BY DEF SaveIdle, Runs, Goto, history, lists
<1>2. /\ Stage(t, task[t]) /\ cancelled = {} /\ BusyAt(task[t]) /\ task[t] \in TaskState
  BY <1>1, BusyTask DEF BusyAt
<1>3. r \in TaskState /\ r.at = "dropping" /\ r.then = task[t].then /\ r.track = task[t].track
  BY <1>2, GotoLemma DEF Awaits, InStop
<1>4. Stage(t, r)'
  BY <1>1, <1>2, <1>3 DEF Stage, StopStage, StartStage, MonitorStage, CommandStage,
     CancelStage, AliveStage, DeadStream, InStop, InStart, Silent, OnlyOwn, Playing
<1>5. HandedOut'
  BY <1>1, <1>3, HandedMove DEF DeadStream, Starting, InStop
<1> QED
  BY <1>1, <1>2, <1>3, <1>4, <1>5, AloneMove DEF BusyAt
--------------------------------------------------------------------------------
(* pause_stream, resume_stream and set_volume when nothing overlaps        *)

\* A stream to pause or resume is there.
LEMMA FindStreamAlone ==
  ASSUME JInv, AloneInv, NEW t \in Task, FindStream(t), UNCHANGED lists, Solo'
  PROVE  AloneInv'
<1> SUFFICES ASSUME NEW r, r = [task[t] EXCEPT !.at = "rereading"] PROVE AloneInv'
  OBVIOUS
<1>1. /\ task[t].at = "toggling"
      /\ UNCHANGED <<queue, shadow, stored, registry, proc, starts, cancelled>>
  BY DEF FindStream, Runs, history, lists
<1>2. /\ Stage(t, task[t]) /\ cancelled = {} /\ BusyAt(task[t]) /\ task[t] \in TaskState
  BY <1>1, BusyTask DEF BusyAt
<1>3. t \in Cmd /\ Steady /\ registry # None
  BY <1>1, <1>2 DEF Stage, CommandStage
<1>4. Become(t, r) /\ wtask' = wtask
  BY <1>3 DEF FindStream, Goto
<1>5. r \in TaskState /\ r.at = "rereading"
  BY <1>2, GotoLemma DEF Awaits
<1>6. Steady'
  BY <1>1, <1>3, <1>4 DEF Steady, Playing, OnlyRuns, Silent, DeadStream
<1>7. Stage(t, r)'
  BY <1>1, <1>2, <1>3, <1>5, <1>6 DEF Stage, StopStage, StartStage, MonitorStage, CommandStage,
     CancelStage, AliveStage, DeadStream, InStop, InStart
<1>8. HandedOut'
  BY <1>1, <1>4, <1>5, HandedMove DEF DeadStream, Starting, InStop
<1> QED
  BY <1>1, <1>2, <1>4, <1>5, <1>7, <1>8, AloneMove DEF BusyAt

\* The state that is read again is the one found first.
LEMMA RereadAlone ==
  ASSUME JInv, AloneInv, NEW t \in Task, Reread(t), UNCHANGED lists, Solo'
  PROVE  AloneInv'
<1> SUFFICES ASSUME NEW r, r = [task[t] EXCEPT !.at = "writing",
                                               !.snap = [stored EXCEPT !.status = task[t].then]]
             PROVE  AloneInv'
  OBVIOUS
<1>1. /\ task[t].at = "rereading" /\ Become(t, r)
      /\ UNCHANGED <<queue, shadow, stored, registry, proc, wtask, starts, cancelled>>
  BY DEF Reread, Runs, history, lists, engine
<1>2. /\ Stage(t, task[t]) /\ cancelled = {} /\ BusyAt(task[t]) /\ task[t] \in TaskState
  BY <1>1, BusyTask DEF BusyAt
<1>3. t \in Cmd /\ Steady /\ registry # None
  BY <1>1, <1>2 DEF Stage, CommandStage
<1>4. /\ stored \in Stored /\ task[t].then \in {"playing", "paused"}
  BY <1>1 DEF JInv, Shared, Locals, LocalOK
<1>5. /\ r \in TaskState /\ r.at = "writing"
      /\ r.snap.status # "idle" /\ r.snap.track = stored.track
  BY <1>2, <1>4 DEF TaskState, Stored, Awaits
<1>6. Steady'
  BY <1>1, <1>3 DEF Steady, Playing, OnlyRuns, Silent, DeadStream
<1>7. Stage(t, r)'
  BY <1>1, <1>2, <1>3, <1>5, <1>6 DEF Stage, StopStage, StartStage, MonitorStage, CommandStage,
     CancelStage, AliveStage, DeadStream, InStop, InStart, Steady, Playing
<1>8. HandedOut'
  BY <1>1, <1>5, HandedMove DEF DeadStream, Starting, InStop
<1> QED
  BY <1>1, <1>2, <1>5, <1>7, <1>8, AloneMove DEF BusyAt

\* Nobody changed the state between its read and its write.
LEMMA WriteBackAlone ==
  ASSUME JInv, AloneInv, NEW t \in Task, WriteBack(t), UNCHANGED lists, Solo'
  PROVE  AloneInv'
<1>1. /\ task[t].at = "writing" /\ Become(t, At("done")) /\ wtask' = WtaskAfter(t)
      /\ UNCHANGED <<queue, shadow, registry, proc, starts, cancelled>>
      /\ stored' = task[t].snap
  BY DEF WriteBack, Runs, End, history, lists
<1>2. /\ Stage(t, task[t]) /\ cancelled = {} /\ BusyAt(task[t])
  BY <1>1, BusyTask DEF BusyAt
<1>3. /\ t \in Cmd /\ Steady
      /\ registry = None => stored' = Idle
      /\ registry # None => stored'.status # "idle" /\ stored'.track = registry.track
  BY <1>1, <1>2 DEF Stage, CommandStage
<1>4. wtask' = wtask
  BY <1>1, <1>3, TaskSorts DEF WtaskAfter
<1>5. At("done") \in TaskState /\ At("done").at = "done"
  BY AtLemma DEF Awaits
<1>6. Steady' /\ cancelled' = {}
  BY <1>1, <1>2, <1>3, <1>4 DEF Steady, Playing, OnlyRuns, Silent, DeadStream
<1>7. HandedOut'
  BY <1>1, <1>4, <1>5, HandedMove DEF DeadStream, Starting, InStop
<1> QED
  BY <1>1, <1>2, <1>4, <1>5, <1>6, <1>7, AloneMove DEF BusyAt

--------------------------------------------------------------------------------
(* The monitor when nothing overlaps                                       *)

(* No task was busy before one gets busy.                                  *)
LEMMA RestBefore ==
  ASSUME JInv, AloneInv, NEW t \in Task, NEW r \in TaskState, Become(t, r), Solo',
         ~ BusyAt(task[t]), BusyAt(r)
  PROVE  Busy = {} /\ Steady /\ cancelled = {}
<1>1. task'[t] = r /\ \A u \in Task : u # t => task'[u] = task[u]
  BY BecomeLemma
<1>2. t \in Busy'
  BY <1>1 DEF Busy, BusyAt
<1>3. ASSUME NEW u \in Busy PROVE FALSE
  <2>1. u # t /\ u \in Busy'
    BY <1>1, <1>3 DEF Busy, BusyAt
  <2> QED  BY <1>2, <2>1 DEF Solo
<1> QED
  BY <1>3 DEF AloneInv

(* While a monitor polls there is a stream.                                *)
LEMMA PollingHasStream ==
  ASSUME JInv, AloneInv, NEW p \in Proc, task[p].at = "polling"
  PROVE  registry # None /\ wtask = p
<1>1. wtask = p /\ p # None /\ p \in Task /\ ~ BusyAt(task[p])
  BY TaskSorts DEF AloneInv, BusyAt
<1>2. CASE Busy = {}
  BY <1>1, <1>2 DEF AloneInv, Steady
<1>3. ASSUME NEW u \in Busy PROVE registry # None
  <2>1. Stage(u, task[u]) /\ u # p /\ u \in Task /\ BusyAt(task[u]) /\ task[u].at \in Awaits
    BY <1>1, <1>3 DEF AloneInv, Busy, BusyAt, JInv, Locals, TaskState
  <2>2. wtask \notin {u, None}
    BY <1>1, <2>1
  <2>3. Steady => registry # None
    BY <2>2 DEF Steady
  <2>4. ~ OnlyOwn(u)
    BY <2>2 DEF OnlyOwn
  <2>5. CASE task[u].at \in InStop
    BY <2>1, <2>3, <2>4, <2>5 DEF Stage, StopStage, MonitorStage, Playing, InStop
  <2>6. CASE task[u].at \in InStart \cup {"acquiring", "scheduled"}
    BY <2>1, <2>4, <2>6 DEF Stage, StartStage, Playing, InStart
  <2>7. CASE task[u].at \in {"respawning", "swapping", "dequeuing"}
    BY <2>1, <2>3, <2>4, <2>7 DEF Stage, StartStage, MonitorStage, Playing, Task
  <2>8. CASE task[u].at \in {"enqueuing", "toggling", "rereading", "writing"}
    BY <2>1, <2>3, <2>8 DEF Stage, CommandStage
  <2> QED
    BY <2>1, <2>5, <2>6, <2>7, <2>8 DEF Awaits, BusyAt
<1> QED
  BY <1>1, <1>2, <1>3

\* watch registers the monitor of the registered process.
LEMMA WatchAlone ==
  ASSUME JInv, AloneInv, NEW p \in Proc, Watch(p), UNCHANGED lists, Solo'
  PROVE  AloneInv'
<1> SUFFICES ASSUME NEW r, r = [task[p] EXCEPT !.at = "polling"] PROVE AloneInv'
  OBVIOUS
<1>1. /\ p \in Task /\ task[p].at = "scheduled" /\ Become(p, r) /\ wtask' = p
      /\ UNCHANGED <<queue, shadow, stored, registry, proc, starts, cancelled>>
  BY TaskSorts DEF Watch, Runs, Goto, history, lists
<1>2. /\ Stage(p, task[p]) /\ cancelled = {} /\ BusyAt(task[p]) /\ task[p] \in TaskState
  BY <1>1, BusyTask DEF BusyAt
<1>3. Playing /\ registry.proc = p /\ wtask = None /\ OnlyRuns(p)
  BY <1>1, <1>2 DEF Stage, StartStage
<1>4. r \in TaskState /\ r.at = "polling"
  BY <1>2, GotoLemma DEF Awaits
<1>5. Steady' /\ cancelled' = {}
  BY <1>1, <1>2, <1>3 DEF Steady, Playing, OnlyRuns, DeadStream
<1>6. HandedOut'
  <2>1. ~ DeadStream
    BY <1>1, <1>2 DEF Stage, AliveStage
  <2> QED  BY <1>1, <1>4, <2>1, HandedMove DEF Starting, InStop
<1> QED
  BY <1>1, <1>2, <1>3, <1>4, <1>5, <1>6, AloneMove DEF BusyAt

\* A crash is noticed by the registered monitor.
LEMMA CrashSeenAlone ==
  ASSUME JInv, AloneInv, NEW p \in Proc, CrashSeen(p), UNCHANGED lists, Solo'
  PROVE  AloneInv'
<1> SUFFICES ASSUME NEW r, r = [At("respawning") EXCEPT !.entry = registry.entry,
                                                        !.track = registry.track]
             PROVE  AloneInv'
  OBVIOUS
<1>1. /\ p \in Task /\ task[p].at = "polling" /\ Become(p, r) /\ registry # None
      /\ proc[p] \in Exited
      /\ UNCHANGED <<queue, shadow, stored, registry, proc, wtask, starts, cancelled>>
  BY TaskSorts DEF CrashSeen, ExitedBadly, Exited, Codes, Dropped, Runs, history, lists, engine
<1>2. /\ r \in TaskState /\ r.at = "respawning"
      /\ r.entry = registry.entry /\ r.track = registry.track
  <2>1. registry.entry \in Proc /\ registry.track \in Cmd
    BY <1>1 DEF JInv, Shared, Entry
  <2> QED
    BY <2>1 DEF At, TaskState, Awaits, Stored, Idle
<1>3. Steady /\ cancelled = {} /\ ~ BusyAt(task[p]) /\ wtask = p
  BY <1>1, <1>2, RestBefore, PollingHasStream DEF BusyAt
<1>4. Steady'
  BY <1>1, <1>3 DEF Steady, Playing, OnlyRuns, Silent, DeadStream
<1>5. Stage(p, r)'
  BY <1>1, <1>2, <1>3, <1>4 DEF Stage, StopStage, StartStage, MonitorStage, CommandStage,
     CancelStage, AliveStage, DeadStream, InStop, InStart, Exited
<1>6. HandedOut'
  BY <1>1, <1>2, HandedMove DEF DeadStream, Starting, InStop
<1> QED
  BY <1>1, <1>2, <1>5, <1>6, AloneMove DEF BusyAt

\* The end of a track is noticed by the registered monitor.
LEMMA TrackEndsAlone ==
  ASSUME JInv, AloneInv, NEW p \in Proc, TrackEnds(p), UNCHANGED lists, Solo'
  PROVE  AloneInv'
<1> SUFFICES ASSUME NEW r, r = [task[p] EXCEPT !.at = "dequeuing"] PROVE AloneInv'
  OBVIOUS
<1>1. /\ p \in Task /\ p \notin Cmd /\ task[p].at = "polling" /\ Become(p, r)
      /\ UNCHANGED <<queue, shadow, stored, registry, proc, wtask, starts, cancelled>>
  BY TaskSorts DEF TrackEnds, Runs, Goto, history, lists, engine
<1>2. r \in TaskState /\ r.at = "dequeuing"
  BY <1>1, GotoLemma DEF Awaits, JInv, Locals
<1>3. Steady /\ cancelled = {} /\ wtask = p
  BY <1>1, <1>2, RestBefore, PollingHasStream DEF BusyAt
<1>4. Steady'
  BY <1>1, <1>3 DEF Steady, Playing, OnlyRuns, Silent, DeadStream
<1>5. Stage(p, r)'
  BY <1>1, <1>2, <1>3, <1>4 DEF Stage, StopStage, StartStage, MonitorStage, CommandStage,
     CancelStage, AliveStage, DeadStream, InStop, InStart
<1>6. HandedOut'
  BY <1>1, <1>2, HandedMove DEF DeadStream, Starting, InStop
<1> QED
  BY <1>1, <1>2, <1>5, <1>6, AloneMove DEF BusyAt

\* Recovery spawns a process after the death of the former one.
LEMMA RespawnAlone ==
  ASSUME JInv, AloneInv, NEW p \in Proc, Respawn(p), UNCHANGED lists, Solo'
  PROVE  AloneInv'
<1>1. PICK n \in Proc : /\ SpawnProc(n, task[p].track)
                        /\ Become(p, [task[p] EXCEPT !.at = "swapping", !.proc = n])
  BY DEF Respawn
<1> SUFFICES ASSUME NEW r, r = [task[p] EXCEPT !.at = "swapping", !.proc = n] PROVE AloneInv'
  OBVIOUS
<1>2. /\ p \in Task /\ task[p].at = "respawning" /\ Become(p, r)
      /\ UNCHANGED <<queue, shadow, stored, registry, wtask, starts, cancelled>>
      /\ proc' = [proc EXCEPT ![n] = "run"]
  BY <1>1, TaskSorts DEF Respawn, Runs, lists, SpawnProc
<1>3. /\ Stage(p, task[p]) /\ cancelled = {} /\ BusyAt(task[p]) /\ task[p] \in TaskState
  BY <1>2, BusyTask DEF BusyAt
<1>4. /\ r \in TaskState /\ r.at = "swapping" /\ r.entry = task[p].entry /\ r.proc = n
  BY <1>3 DEF TaskState, Awaits
<1>5. /\ Steady /\ wtask = p /\ proc[p] \in Exited /\ task[p].entry = registry.entry
      /\ registry # None
  BY <1>2, <1>3, TaskSorts DEF Stage, MonitorStage, Steady
<1>6. OnlyRuns(n)'
  <2>1. proc'[n] = "run" /\ \A q \in Proc \ {n} : proc'[q] = proc[q]
    BY <1>2 DEF JInv, Shared
  <2>2. Silent
    BY <1>5, TaskSorts DEF Steady, OnlyRuns, Silent, Exited, Codes, Dropped
  <2> QED  BY <2>1, <2>2 DEF OnlyRuns, Silent
<1>7. Playing' /\ wtask' = p /\ registry'.entry = r.entry
  BY <1>2, <1>4, <1>5 DEF Steady, Playing
<1>8. AliveStage(p, r)'
  <2>1. proc'[n] \notin Dropped
    BY <1>2 DEF JInv, Shared, Dropped
  <2> QED  BY <1>4, <2>1 DEF AliveStage, InStart, InStop
<1>9. Stage(p, r)'
  BY <1>2, <1>3, <1>4, <1>6, <1>7, <1>8 DEF Stage, StopStage, StartStage, MonitorStage,
                              CommandStage,
     CancelStage, InStop, OnlyRuns
<1>10. HandedOut'
  BY <1>2, <1>4, <1>5, TaskSorts, HandedMove DEF Starting, InStop
<1> QED
  BY <1>2, <1>3, <1>4, <1>9, <1>10, AloneMove DEF BusyAt

\* The entry that recovery found is the one registered.
LEMMA SwapAlone ==
  ASSUME JInv, AloneInv, NEW p \in Proc, Swap(p), UNCHANGED lists, Solo'
  PROVE  AloneInv'
<1> SUFFICES ASSUME NEW r, r = [task[p] EXCEPT !.then = "rewatch", !.at = "cancelling",
                                               !.target = wtask]
             PROVE  AloneInv'
  OBVIOUS
<1>1. /\ p \in Task /\ p # None /\ p \notin Cmd /\ task[p].at = "swapping"
      /\ UNCHANGED <<queue, shadow, stored, proc, starts>>
  BY TaskSorts DEF Swap, Runs, lists, history
<1>2. /\ Stage(p, task[p]) /\ cancelled = {} /\ BusyAt(task[p]) /\ task[p] \in TaskState
      /\ task[p].proc \in Proc
  BY <1>1, BusyTask DEF BusyAt, JInv, Locals, LocalOK, Attached
<1>3. Playing /\ wtask = p /\ task[p].entry = registry.entry /\ OnlyRuns(task[p].proc)
  BY <1>1, <1>2 DEF Stage, MonitorStage
<1>4. /\ registry' = [registry EXCEPT !.proc = task[p].proc] /\ wtask' = wtask
      /\ StopWatchdog(p, [task[p] EXCEPT !.then = "rewatch"])
  BY <1>1, <1>3 DEF Swap, Playing
<1>5. Become(p, r) /\ cancelled' = cancelled
  BY <1>2, <1>3, <1>4 DEF StopWatchdog, TaskState
<1>6. /\ r \in TaskState /\ r.at = "cancelling" /\ r.then = "rewatch" /\ r.target = p
      /\ r.proc = task[p].proc
  BY <1>1, <1>2, <1>3 DEF TaskState, Awaits, InStop
<1>7. registry \in Entry
  BY <1>3 DEF JInv, Shared, Playing
<1>8. /\ registry' \in Entry /\ registry'.proc = r.proc /\ registry'.track = registry.track
  BY <1>2, <1>4, <1>6, <1>7 DEF Entry
<1>9. Playing'
  BY <1>1, <1>3, <1>8, NoneAssumption DEF Playing
<1>10. OnlyRuns(task[p].proc) /\ r.proc = task[p].proc /\ proc' = proc
  BY <1>1, <1>3, <1>6
<1>11. Stage(p, r)'
  <2>1. proc[task[p].proc] \notin Dropped
    BY <1>1, <1>2 DEF Stage, AliveStage
  <2>2. AliveStage(p, r)'
    BY <1>6, <1>8, <1>10, <2>1 DEF AliveStage, DeadStream
  <2> QED
    BY <1>1, <1>2, <1>3, <1>4, <1>5, <1>6, <1>8, <1>9, <1>10, <2>2 DEF Stage, StopStage, StartStage,
       MonitorStage, CommandStage, CancelStage, InStop, OnlyRuns
<1>12. HandedOut'
  BY <1>1, <1>3, <1>5, <1>6, HandedMove DEF Starting, InStop
<1> QED
  BY <1>1, <1>2, <1>4, <1>5, <1>6, <1>11, <1>12, AloneMove DEF BusyAt

\* Recovery ends with the watch of the new process scheduled.
LEMMA RewatchAlone ==
  ASSUME JInv, AloneInv, NEW p \in Proc, Rewatch(p), UNCHANGED lists, Solo'
  PROVE  AloneInv'
<1>1. /\ p \in Task /\ p \notin Cmd /\ task[p].at = "cancelling" /\ task[p].then = "rewatch"
      /\ UNCHANGED <<stored, registry, proc, starts, cancelled>> /\ wtask' = None
      /\ task' = [task EXCEPT ![p] = At("done"), ![task[p].proc] = At("scheduled")]
  BY TaskSorts DEF Rewatch, Rewatched, WatchdogStopped, Runs, history
<1>2. /\ Stage(p, task[p]) /\ cancelled = {} /\ BusyAt(task[p]) /\ ~ Starting(task[p])
  BY <1>1, BusyTask DEF BusyAt, Starting, InStop
<1>3. task[p].proc \in Proc /\ task[task[p].proc].at = "off"
  BY <1>1 DEF JInv, Locals, LocalOK, Attached, NewProcs
<1>4. Playing /\ wtask = p /\ registry.proc = task[p].proc /\ OnlyRuns(task[p].proc)
  BY <1>1, <1>2 DEF Stage, MonitorStage
<1>5. Playing' /\ registry'.proc = task[p].proc
  BY <1>1, <1>4 DEF Playing
<1>6. PICK n \in Proc : n = task[p].proc
  BY <1>3
<1>7. OnlyRuns(n)'
  BY <1>1, <1>4, <1>6 DEF OnlyRuns
<1>8. ~ DeadStream
  BY <1>1, <1>2 DEF Stage, AliveStage, DeadStream, InStop, InStart
<1> QED
  BY <1>1, <1>2, <1>3, <1>4, <1>5, <1>6, <1>7, <1>8, AloneHandsOver

\* A cancelled monitor ends, and the command that waits for it sees its end.
LEMMA CancelledAlone ==
  ASSUME JInv, AloneInv, NEW p \in Proc, Cancelled(p), UNCHANGED lists, Solo'
  PROVE  AloneInv'
<1>1. /\ p \in Task /\ p \notin Cmd /\ p # None /\ p \in cancelled
      /\ UNCHANGED <<queue, shadow, stored, registry, proc, starts>>
      /\ cancelled' = cancelled \ {p} /\ Become(p, At("done")) /\ wtask' = None
  BY TaskSorts DEF Cancelled, End, WtaskAfter, lists, history
<1>2. PICK u \in Busy : TRUE
  BY <1>1 DEF AloneInv
<1>3. u \in Task /\ BusyAt(task[u])
  BY <1>2 DEF Busy, BusyAt
<1>4. /\ u \in Cmd /\ u \notin Proc /\ task[u].at = "cancelling" /\ cancelled \subseteq {wtask}
      /\ Stage(u, task[u]) /\ Busy = {u} /\ u # p
  BY <1>1, <1>3, BusyTask, TaskSorts
<1>5. /\ wtask = p /\ cancelled' = {}
  BY <1>1, <1>4
<1>6. /\ task'[p].at = "done" /\ task'[p] \in TaskState
      /\ \A w \in Task : w # p => task'[w] = task[w]
  BY <1>1, AtLemma, BecomeLemma DEF Awaits
<1>7. Busy' = {u}
  BY <1>3, <1>4, <1>6 DEF Busy, BusyAt
<1>8. task[u].then # "rewatch" /\ Playing /\ Silent /\ task[u].target \in Proc
      /\ wtask \in {None, task[u].target}
  BY <1>1, <1>4 DEF Stage, StopStage, MonitorStage
<1>9. Stage(u, task[u])'
  <2>1. task'[u] = task[u]
    BY <1>3, <1>4, <1>6
  <2>2. Playing' /\ Silent'
    BY <1>1, <1>8 DEF Playing, Silent
  <2> QED
    BY <1>1, <1>4, <1>5, <1>8, <2>1, <2>2 DEF Stage, StopStage, StartStage, MonitorStage,
       CommandStage, CancelStage, AliveStage, DeadStream, InStop, InStart
<1>10. ASSUME NEW q \in Proc, task'[q].at = "polling" PROVE q = wtask'
  <2>1. q \in Task /\ q # p
    BY <1>6, <1>10, TaskSorts
  <2> QED  BY <1>5, <1>6, <1>10, <2>1 DEF AloneInv
<1>11. HandedOut'
  <2>1. ~ Starting(task[p])
    BY <1>1, <1>4, <1>7 DEF Busy, BusyAt, Starting, InStop
  <2>2. At("done") \in TaskState
    BY AtLemma DEF Awaits
  <2> QED
    BY <1>1, <1>5, <2>1, <2>2, HandedMove
<1> QED
  BY <1>7, <1>9, <1>10, <1>11 DEF AloneInv

--------------------------------------------------------------------------------
(* The queue and the commands when nothing overlaps                        *)

\* What the Lua script of dequeue hands out.
LEMMA PopLemma ==
  ASSUME JInv, queue # <<>>, DequeueScript
  PROVE  /\ Head(queue) \in Cmd
         /\ \A c \in ToSet(shadow') : c \in ToSet(shadow) \/ c = Head(queue)
<1>1. queue \in Seq(Cmd) /\ shadow \in Seq(Cmd)
  BY DEF JInv, Shared
<1>2. Head(queue) \in Cmd
  BY <1>1, TailLemma
<1>3. ToSet(shadow') = ToSet(shadow) \cup {Head(queue)}
  BY <1>1, <1>2, PushLemma DEF DequeueScript
<1> QED
  BY <1>2, <1>3

\* The monitor pops the next track, then stops the stream.
LEMMA DequeueNextAlone ==
  ASSUME JInv, AloneInv, NEW p \in Proc, DequeueNext(p), Solo'
  PROVE  AloneInv'
<1>1. /\ p \in Task /\ p \notin Cmd /\ p # None /\ task[p].at = "dequeuing"
      /\ UNCHANGED <<stored, registry, proc, wtask, starts, cancelled>>
  BY TaskSorts DEF DequeueNext, Runs, engine, history
<1>2. /\ Stage(p, task[p]) /\ cancelled = {} /\ BusyAt(task[p])
  BY <1>1, BusyTask DEF BusyAt
<1>3. Steady /\ wtask = p /\ registry # None
  BY <1>1, <1>2 DEF Stage, MonitorStage, Steady
<1>4. Steady'
  BY <1>1, <1>3 DEF Steady, Playing, OnlyRuns, Silent, DeadStream
<1>5. ~ Starting(task[p])
  BY <1>1 DEF Starting, InStop
<1>6. CASE queue = <<>>
  <2> SUFFICES ASSUME NEW r, r = At("stopping") PROVE AloneInv'
    OBVIOUS
  <2>1. Become(p, r) /\ queue' = queue /\ shadow' = shadow
    BY <1>6 DEF DequeueNext, lists
  <2>2. r \in TaskState /\ r.at = "stopping" /\ r.then = "return"
    BY AtLemma DEF Awaits, InStop
  <2>3. Stage(p, r)'
    BY <1>1, <1>2, <1>3, <1>4, <1>6, <2>1, <2>2 DEF Stage, StopStage, StartStage, MonitorStage,
       CommandStage, CancelStage, AliveStage, DeadStream, InStop, InStart
  <2>4. HandedOut'
    BY <1>1, <1>3, <1>5, <2>1, <2>2, HandedMove
  <2> QED
    BY <1>1, <1>2, <2>1, <2>2, <2>3, <2>4, AloneMove DEF BusyAt
<1>7. CASE queue # <<>>
  <2> SUFFICES ASSUME NEW r, r = [At("stopping") EXCEPT !.then = "start", !.track = Head(queue)]
               PROVE  AloneInv'
    OBVIOUS
  <2>1. Become(p, r) /\ DequeueScript
    BY <1>7 DEF DequeueNext
  <2>2. /\ Head(queue) \in Cmd
        /\ \A c \in ToSet(shadow') : c \in ToSet(shadow) \/ c = Head(queue)
    BY <1>7, <2>1, PopLemma
  <2>3. r \in TaskState /\ r.at = "stopping" /\ r.then = "start" /\ r.track = Head(queue)
    BY <2>2 DEF At, TaskState, Awaits, InStop, Stored, Idle
  <2>4. Stage(p, r)'
    BY <1>1, <1>2, <1>3, <1>4, <2>1, <2>3 DEF Stage, StopStage, StartStage, MonitorStage,
       CommandStage, CancelStage, AliveStage, DeadStream, InStop, InStart
  <2>5. HandedOut'
    BY <1>1, <1>3, <1>5, <2>1, <2>2, <2>3, HandedMove DEF Starting, InStop
  <2> QED
    BY <1>1, <1>2, <2>1, <2>3, <2>4, <2>5, AloneMove DEF BusyAt
<1> QED
  BY <1>6, <1>7

\* A skip pops the next track after the stop.
LEMMA SkipToNextAlone ==
  ASSUME JInv, AloneInv, NEW c \in Cmd, SkipToNext(c), Solo'
  PROVE  AloneInv'
<1>1. /\ c \in Task /\ c \notin Proc /\ task[c].at = "dequeuing"
      /\ UNCHANGED <<stored, registry, proc, wtask, starts, cancelled>>
  BY TaskSorts DEF SkipToNext, Runs, engine, history
<1>2. /\ Stage(c, task[c]) /\ cancelled = {} /\ BusyAt(task[c])
  BY <1>1, BusyTask DEF BusyAt
<1>3. registry = None /\ stored = Idle /\ Silent /\ OnlyOwn(c) /\ wtask = None
  BY <1>1, <1>2 DEF Stage, StartStage, OnlyOwn
<1>4. ~ Starting(task[c])
  BY <1>1 DEF Starting, InStop
<1>5. CASE queue = <<>>
  <2>1. Become(c, At("done")) /\ queue' = queue /\ shadow' = shadow
    BY <1>5 DEF SkipToNext, lists
  <2>2. At("done") \in TaskState /\ At("done").at = "done"
    BY AtLemma DEF Awaits
  <2>3. Steady' /\ cancelled' = {}
    BY <1>1, <1>2, <1>3, <1>5, <2>1 DEF Steady, Silent
  <2>4. HandedOut'
    BY <1>1, <1>3, <1>4, <2>1, <2>2, HandedMove DEF DeadStream
  <2> QED
    BY <1>1, <1>2, <2>1, <2>2, <2>3, <2>4, AloneMove DEF BusyAt
<1>6. CASE queue # <<>>
  <2> SUFFICES ASSUME NEW r, r = [At("acquiring") EXCEPT !.track = Head(queue)]
               PROVE  AloneInv'
    OBVIOUS
  <2>1. Become(c, r) /\ DequeueScript
    BY <1>6 DEF SkipToNext
  <2>2. /\ Head(queue) \in Cmd
        /\ \A d \in ToSet(shadow') : d \in ToSet(shadow) \/ d = Head(queue)
    BY <1>6, <2>1, PopLemma
  <2>3. r \in TaskState /\ r.at = "acquiring" /\ r.track = Head(queue)
    BY <2>2 DEF At, TaskState, Awaits, Stored, Idle
  <2>4. Stage(c, r)'
    BY <1>1, <1>2, <1>3, <2>1, <2>3 DEF Stage, StopStage, StartStage, MonitorStage,
       CommandStage, CancelStage, AliveStage, DeadStream, InStop, InStart, Silent, OnlyOwn
  <2>5. HandedOut'
    BY <1>1, <1>3, <1>4, <2>1, <2>2, <2>3, HandedMove DEF DeadStream, Starting
  <2> QED
    BY <1>1, <1>2, <2>1, <2>3, <2>4, <2>5, AloneMove DEF BusyAt
<1> QED
  BY <1>5, <1>6

\* The stream that /play found is still there.
LEMMA EnqueueTrackAlone ==
  ASSUME JInv, AloneInv, NEW c \in Cmd, EnqueueTrack(c), Solo'
  PROVE  AloneInv'
<1>1. /\ c \in Task /\ c \notin Proc /\ task[c].at = "enqueuing" /\ shadow' = shadow
      /\ UNCHANGED <<stored, registry, proc, wtask, starts, cancelled>>
      /\ Become(c, At("done"))
  BY TaskSorts DEF EnqueueTrack, EnqueueScript, Runs, lists, history, End, WtaskAfter
<1>2. /\ Stage(c, task[c]) /\ cancelled = {} /\ BusyAt(task[c])
  BY <1>1, BusyTask DEF BusyAt
<1>3. Steady /\ registry # None
  BY <1>1, <1>2 DEF Stage, CommandStage
<1>4. Steady' /\ cancelled' = {}
  BY <1>1, <1>2, <1>3 DEF Steady, Playing, OnlyRuns, DeadStream
<1>5. At("done") \in TaskState /\ At("done").at = "done"
  BY AtLemma DEF Awaits
<1>6. HandedOut'
  BY <1>1, <1>5, HandedMove DEF DeadStream, Starting, InStop
<1> QED
  BY <1>1, <1>2, <1>4, <1>5, <1>6, AloneMove DEF BusyAt

\* A handler that finds nothing to do: nothing changes.
LEMMA DoneAtOnce ==
  ASSUME JInv, AloneInv, NEW c \in Cmd, task[c].at = "off", Become(c, At("done")),
         UNCHANGED <<lists, engine, cancelled>>
  PROVE  AloneInv'
<1>1. /\ c \in Task /\ c \notin Proc
      /\ UNCHANGED <<queue, shadow, stored, registry, proc, wtask, starts, cancelled>>
      /\ At("done") \in TaskState /\ At("done").at = "done"
  BY TaskSorts, AtLemma DEF lists, engine, history, Awaits
<1>2. /\ task'[c].at = "done" /\ \A u \in Task : u # c => task'[u] = task[u]
  BY <1>1, BecomeLemma
<1>3. Busy' = Busy /\ c \notin Busy
  BY <1>1, <1>2 DEF Busy
<1>4. Solo'
  BY <1>3 DEF AloneInv, Solo
<1>5. ASSUME NEW u \in Busy PROVE Stage(u, task[u])'
  <2>1. task'[u] = task[u] /\ Stage(u, task[u])
    BY <1>2, <1>3, <1>5 DEF AloneInv, Busy
  <2> QED
    BY <1>1, <2>1 DEF Stage, StopStage, StartStage, MonitorStage, CommandStage,
                      CancelStage, AliveStage, DeadStream, InStart,
       Steady, Playing, Silent, OnlyRuns, OnlyOwn, MayStop, DeadStream
<1>6. ASSUME Busy = {} PROVE Steady' /\ cancelled' = {}
  BY <1>1, <1>6 DEF AloneInv, Steady, Playing, Silent, OnlyRuns, DeadStream
<1>7. \A p \in Proc : task'[p].at = "polling" => p = wtask'
  BY <1>1, <1>2, TaskSorts DEF AloneInv
<1>8. HandedOut'
  BY <1>1, HandedMove DEF DeadStream, Starting, InStop
<1> QED
  BY <1>3, <1>4, <1>5, <1>6, <1>7, <1>8 DEF AloneInv

\* A handler starts when nothing is going on, or does nothing.
LEMMA CommandAlone ==
  ASSUME JInv, AloneInv, NEW c \in Cmd, Command(c), Solo'
  PROVE  AloneInv'
<1>1. c \in Task /\ c \notin Proc /\ task[c].at = "off" /\ ~ BusyAt(task[c])
      /\ UNCHANGED <<engine, cancelled>>
      /\ UNCHANGED <<stored, registry, proc, wtask, starts>>
  BY TaskSorts DEF Command, PlayCmd, SkipCmd, StopCmd, VolumeCmd, ToggleCmd, Received, BusyAt,
     engine, history
<1>2. ~ Starting(task[c])
  BY <1>1 DEF Starting, InStop
<1>3. ASSUME NEW r \in TaskState, Become(c, r), BusyAt(r), r.at # "polling",
             \A d \in ToSet(shadow') : d \in ToSet(shadow),
             Busy = {} /\ Steady /\ cancelled = {} => Stage(c, r)'
      PROVE  AloneInv'
  <2>1. Busy = {} /\ Steady /\ cancelled = {}
    BY <1>1, <1>3, RestBefore
  <2>2. HandedOut'
    BY <1>1, <1>2, <1>3, HandedMove DEF DeadStream
  <2> QED
    BY <1>1, <1>3, <2>1, <2>2, AloneMove
<1>4. Steady /\ (queue' = queue \/ queue' = <<>>) => Steady'
  BY <1>1 DEF Steady, Playing, Silent, OnlyRuns, DeadStream
<1>5. CASE PlayCmd(c)
  <2>1. queue' = queue /\ shadow' = shadow
    BY <1>5 DEF PlayCmd, lists
  <2>2. CASE stored.status = "idle"
    <3> SUFFICES ASSUME NEW r, r = [At("acquiring") EXCEPT !.track = c] PROVE AloneInv'
      OBVIOUS
    <3>1. Become(c, r)
      BY <1>5, <2>2 DEF PlayCmd
    <3>2. r \in TaskState /\ r.at = "acquiring"
      BY DEF At, TaskState, Awaits, Stored, Idle
    <3>3. ASSUME Steady, cancelled = {} PROVE Stage(c, r)'
      <4>1. registry = None /\ stored = Idle /\ wtask = None /\ Silent
        BY <2>2, <3>3 DEF Steady, Playing
      <4> QED
        BY <1>1, <2>1, <3>2, <3>3, <4>1 DEF Stage, StopStage, StartStage, MonitorStage,
           CommandStage, CancelStage, AliveStage, DeadStream, InStop, InStart, Silent, OnlyOwn
    <3> QED
      BY <1>3, <2>1, <3>1, <3>2, <3>3 DEF BusyAt
  <2>3. CASE stored.status # "idle"
    <3> SUFFICES ASSUME NEW r, r = At("enqueuing") PROVE AloneInv'
      OBVIOUS
    <3>1. Become(c, r)
      BY <1>5, <2>3 DEF PlayCmd
    <3>2. r \in TaskState /\ r.at = "enqueuing"
      BY AtLemma DEF Awaits
    <3>3. ASSUME Steady, cancelled = {} PROVE Stage(c, r)'
      <4>1. registry # None
        BY <2>3, <3>3 DEF Steady, Idle
      <4> QED
        BY <1>1, <1>4, <2>1, <3>2, <3>3, <4>1 DEF Stage, StopStage, StartStage, MonitorStage,
           CommandStage, CancelStage, AliveStage, DeadStream, InStop, InStart
    <3> QED
      BY <1>3, <2>1, <3>1, <3>2, <3>3 DEF BusyAt
  <2> QED
    BY <2>2, <2>3
<1>6. CASE SkipCmd(c)
  <2>1. queue' = queue /\ shadow' = shadow /\ UNCHANGED lists
    BY <1>6 DEF SkipCmd, lists
  <2>2. CASE Become(c, At("done"))
    BY <1>1, <2>1, <2>2, DoneAtOnce
  <2>3. CASE Become(c, [At("stopping") EXCEPT !.then = "dequeue"])
    <3> SUFFICES ASSUME NEW r, r = [At("stopping") EXCEPT !.then = "dequeue"] PROVE AloneInv'
      OBVIOUS
    <3>1. r \in TaskState /\ r.at = "stopping" /\ r.then = "dequeue"
      BY DEF At, TaskState, Awaits, InStop, Stored, Idle
    <3>2. ASSUME Steady, cancelled = {} PROVE Stage(c, r)'
      BY <1>1, <1>4, <2>1, <3>1, <3>2 DEF Stage, StopStage, StartStage, MonitorStage,
         CommandStage, CancelStage, AliveStage, DeadStream, InStop, InStart
    <3> QED
      BY <1>3, <2>1, <2>3, <3>1, <3>2 DEF BusyAt
  <2> QED
    BY <1>6, <2>2, <2>3 DEF SkipCmd
<1>7. CASE StopCmd(c)
  <2> SUFFICES ASSUME NEW r, r = At("stopping") PROVE AloneInv'
    OBVIOUS
  <2>1. Become(c, r) /\ queue' = <<>> /\ shadow' = <<>>
    BY <1>7 DEF StopCmd, ClearScript
  <2>2. r \in TaskState /\ r.at = "stopping" /\ r.then = "return"
    BY AtLemma DEF Awaits, InStop
  <2>3. ASSUME Steady, cancelled = {} PROVE Stage(c, r)'
    BY <1>1, <1>4, <2>1, <2>2, <2>3 DEF Stage, StopStage, StartStage, MonitorStage,
       CommandStage, CancelStage, AliveStage, DeadStream, InStop, InStart
  <2>4. ToSet(shadow') = {}
    BY <2>1 DEF ToSet
  <2> QED
    BY <1>3, <2>1, <2>2, <2>3, <2>4 DEF BusyAt
<1>8. CASE VolumeCmd(c)
  <2> SUFFICES ASSUME NEW r, r = [At("writing") EXCEPT !.snap = stored] PROVE AloneInv'
    OBVIOUS
  <2>1. Become(c, r) /\ queue' = queue /\ shadow' = shadow
    BY <1>8 DEF VolumeCmd, lists
  <2>2. r \in TaskState /\ r.at = "writing" /\ r.snap = stored
    BY DEF At, TaskState, Awaits, Stored, Idle, JInv, Shared
  <2>3. ASSUME Steady, cancelled = {} PROVE Stage(c, r)'
    BY <1>1, <1>4, <2>1, <2>2, <2>3 DEF Stage, StopStage, StartStage, MonitorStage,
       CommandStage, CancelStage, AliveStage, DeadStream, InStop, InStart, Steady, Playing
  <2> QED
    BY <1>3, <2>1, <2>2, <2>3 DEF BusyAt
<1>9. ASSUME NEW kind, NEW from \in {"playing", "paused"}, NEW to \in {"playing", "paused"},
             ToggleCmd(c, kind, from, to)
      PROVE  AloneInv'
  <2>1. queue' = queue /\ shadow' = shadow /\ UNCHANGED lists
    BY <1>9 DEF ToggleCmd, lists
  <2>2. CASE stored.status # from
    <3>1. Become(c, At("done"))
      BY <1>9, <2>2 DEF ToggleCmd
    <3> QED
      BY <1>1, <2>1, <3>1, DoneAtOnce
  <2>3. CASE stored.status = from
    <3> SUFFICES ASSUME NEW r, r = [At("toggling") EXCEPT !.then = to] PROVE AloneInv'
      OBVIOUS
    <3>1. Become(c, r)
      BY <1>9, <2>3 DEF ToggleCmd
    <3>2. r \in TaskState /\ r.at = "toggling"
      BY <1>9 DEF At, TaskState, Awaits, Stored, Idle
    <3>3. ASSUME Steady, cancelled = {} PROVE Stage(c, r)'
      <4>1. registry # None
        BY <1>9, <2>3, <3>3 DEF Steady, Idle
      <4> QED
        BY <1>1, <1>4, <2>1, <3>2, <3>3, <4>1 DEF Stage, StopStage, StartStage, MonitorStage,
           CommandStage, CancelStage, AliveStage, DeadStream, InStop, InStart
    <3> QED
      BY <1>3, <2>1, <3>1, <3>2, <3>3 DEF BusyAt
  <2> QED
    BY <2>2, <2>3
<1> QED
  BY <1>5, <1>6, <1>7, <1>8, <1>9 DEF Command
--------------------------------------------------------------------------------
(* The whole system when nothing overlaps                                  *)

\* FFmpeg processes end, told to or not.
LEMMA ExitsAlone ==
  ASSUME JInv, AloneInv, NEW p \in Proc, NEW code \in Codes, NEW was \in {"run", "termed"},
         Exits(p, was, code)
  PROVE  AloneInv'
<1>1. /\ UNCHANGED <<queue, shadow, stored, registry, wtask, starts, task, cancelled>>
      /\ proc[p] = was /\ proc' = [proc EXCEPT ![p] = code]
  BY DEF Exits, lists, history, tvars
<1>2. /\ \A q \in Proc : proc'[q] = IF q = p THEN code ELSE proc[q]
      /\ code \in Exited /\ code \notin {"run", "termed"} \cup Dropped
      /\ proc[p] \notin Dropped
  BY <1>1 DEF JInv, Shared, Exited, Codes, Dropped
<1>3. Busy' = Busy /\ Solo'
  BY <1>1 DEF AloneInv, Solo, Busy
<1>4. /\ Silent => Silent'
      /\ \A q \in Proc : OnlyRuns(q) => OnlyRuns(q)'
  BY <1>2 DEF Silent, OnlyRuns
<1>5. Playing => Playing'
  BY <1>1 DEF Playing
<1>6. DeadStream' <=> DeadStream
  <2>1. registry # None => registry.proc \in Proc
    BY DEF JInv, Shared, Entry
  <2> QED  BY <1>1, <1>2, <2>1 DEF DeadStream
<1>7. Steady => Steady'
  <2>1. registry # None => registry.proc \in Proc
    BY DEF JInv, Shared, Entry
  <2> QED
    BY <1>1, <1>2, <1>4, <1>5, <1>6, <2>1 DEF Steady
<1>8. ASSUME NEW t \in Busy PROVE Stage(t, task[t])'
  <2>1. /\ t \in Task /\ Stage(t, task[t]) /\ LocalOK(task[t]) /\ task[t] \in TaskState
        /\ task'[t] = task[t] /\ Busy' = Busy
    BY <1>1, <1>3, <1>8 DEF AloneInv, Busy, JInv, Locals
  <2>2. AliveStage(t, task[t])'
    <3>1. task[t].at \in {"playing", "swapping"} => task[t].proc \in Proc
      BY <2>1 DEF LocalOK, Attached
    <3> QED  BY <1>2, <1>6, <2>1, <3>1 DEF Stage, AliveStage
  <2>3. CASE task[t].at \in InStop
    <3>1. StopStage(t, task[t])'
      BY <1>1, <1>2, <1>4, <1>5, <1>7, <2>1, <2>3 DEF Stage, StopStage, MayStop, OnlyOwn
    <3>2. MonitorStage(t, task[t])'
      <4>1. Attached(task[t]) => task[t].proc \in Proc
        BY <2>1 DEF LocalOK
      <4> QED
        BY <1>1, <1>4, <1>5, <2>1, <2>3, <4>1
           DEF Stage, MonitorStage, InStop, Attached, OnlyRuns
    <3> QED
      BY <1>1, <2>1, <2>3, <2>2, <3>1, <3>2 DEF Stage, StartStage, CommandStage, CancelStage, InStop
  <2>4. CASE task[t].at \notin InStop
    <3>1. Attached(task[t]) => task[t].proc \in Proc
      BY <2>1 DEF LocalOK
    <3>2. StartStage(t, task[t])'
      BY <1>1, <1>2, <1>4, <1>5, <2>1, <2>4, <3>1 DEF Stage, StartStage, OnlyOwn, OnlyRuns, Attached
    <3>3. MonitorStage(t, task[t])'
      BY <1>1, <1>2, <1>4, <1>5, <1>7, <2>1, <2>4, <3>1
         DEF Stage, MonitorStage, OnlyRuns, Attached, InStop
    <3>4. CommandStage(t, task[t])' /\ CancelStage(t, task[t])' /\ StopStage(t, task[t])'
      BY <1>1, <1>7, <2>1, <2>4 DEF Stage, CommandStage, CancelStage, StopStage, InStop
    <3> QED
      BY <2>2, <3>2, <3>3, <3>4 DEF Stage
  <2> QED
    BY <2>3, <2>4
<1> QED
  BY <1>1, <1>3, <1>7, <1>8, <1>6 DEF AloneInv, HandedOut, Astray

\* No external call fails: these steps are not taken.
LEMMA NothingFails ==
  ASSUME JInv, AloneInv, Unhindered, SpareProc, NEW t \in Task
  PROVE  /\ ~ StartFails(t) /\ ~ StopFails(t) /\ ~ ToggleFails(t)
         /\ ~ RecoveryFails(t)
         /\ t \in Proc => ~ StreamGone(t)
<1>1. ~ StartFails(t)
  BY DEF StartFails, Runs, MayFailToSpawn, Unhindered, SpareProc
<1>2. ~ RecoveryFails(t)
  BY DEF RecoveryFails, Runs, MayFailToSpawn, Unhindered, SpareProc
<1>3. ~ ToggleFails(t)
  BY DEF ToggleFails, Unhindered
<1>4. ~ StopFails(t)
  <2> SUFFICES ASSUME task[t].at = "dropping", registry = None PROVE FALSE
    BY DEF StopFails, Runs, Unhindered
  <2>1. Stage(t, task[t])
    BY BusyTask DEF BusyAt
  <2> QED
    BY <2>1 DEF Stage, StopStage
<1>5. t \in Proc => ~ StreamGone(t)
  BY PollingHasStream DEF StreamGone, Runs
<1> QED
  BY <1>1, <1>2, <1>3, <1>4, <1>5

\* Every step keeps the invariant.
LEMMA NextAlone ==
  ASSUME JInv, EnvOK, AloneInv, Unhindered, SpareProc, [Next]_vars
  PROVE  AloneInv'
<1>1. ASSUME NEW t \in Task, TaskStep(t), Cardinality(Busy') <= 1 PROVE AloneInv'
  <2>1. Solo'
    <3>1. \E n : \A u \in Task \ {t, n} : task'[u] = task[u]
      BY <1>1 DEF TaskStep, Step, QuietStep, EngineStep, MonitorStep, Command, Acquire, Spawn,
         StartFails, PlayAudio, SavePlaying, Launch, NoActiveStream, Terminate,
         TerminateRaises, StopFails, Reap,
         Leave, Unwatched, SaveIdle, Drop, FindStream, Reread, WriteBack, ToggleFails, StopReturns,
         Goto, End, Become, StopWatchdog, Watch, StreamGone, CrashSeen, TrackEnds, Respawn,
         RecoveryFails, Swap, Rewatch, Rewatched, Cancelled, DequeueNext, EnqueueTrack, SkipToNext,
         PlayCmd, SkipCmd, StopCmd, VolumeCmd, ToggleCmd, JInv, Locals
    <3>2. PICK n : \A u \in Task \ {t, n} : task'[u] = task[u]
      BY <3>1
    <3>3. Busy' \subseteq Busy \cup {t, n}
      BY <3>2 DEF Busy
    <3> QED
      BY <1>1, <3>3, SoloNext DEF AloneInv
  <2>2. CASE EngineStep(t) /\ UNCHANGED lists
    BY <2>1, <2>2, AcquireAlone, SpawnAlone, PlayAudioAlone, SavePlayingAlone, LaunchAlone,
       NoActiveStreamAlone, TerminateAlone, TerminateRaisesAlone, ReapAlone, LeaveAlone, UnwatchedAlone, SaveIdleAlone,
       DropAlone, FindStreamAlone, RereadAlone, WriteBackAlone, NothingFails DEF EngineStep
  <2>3. CASE t \in Proc /\ MonitorStep(t) /\ UNCHANGED lists
    BY <2>1, <2>3, WatchAlone, CrashSeenAlone, TrackEndsAlone, RespawnAlone, SwapAlone,
       RewatchAlone, CancelledAlone, NothingFails DEF MonitorStep
  <2>4. CASE t \in Proc /\ DequeueNext(t)
    BY <2>1, <2>4, DequeueNextAlone
  <2>5. CASE t \in Cmd /\ (EnqueueTrack(t) \/ SkipToNext(t) \/ Command(t))
    BY <2>1, <2>5, EnqueueTrackAlone, SkipToNextAlone, CommandAlone
  <2> QED
    BY <1>1, <2>2, <2>3, <2>4, <2>5 DEF TaskStep, Step, QuietStep
<1>2. CASE Environment
  <2>1. ~ Restart
    BY DEF Restart, EnvOK, Unhindered
  <2>2. PICK p \in Proc : Finish(p) \/ Crash(p) \/ ExitOnSignal(p)
    BY <1>2, <2>1 DEF Environment
  <2> QED
    BY <2>2, ExitsAlone DEF Finish, Crash, ExitOnSignal, Codes
<1>3. CASE UNCHANGED vars
  <2>1. UNCHANGED <<queue, shadow, stored, registry, proc, wtask, starts, task, cancelled>>
    BY <1>3 DEF vars, lists, engine, history, tvars
  <2>2. Busy' = Busy /\ Solo' /\ HandedOut'
    BY <2>1 DEF AloneInv, Solo, Busy, HandedOut, Astray, DeadStream
  <2>3. ASSUME NEW u \in Busy PROVE Stage(u, task[u])'
    BY <2>1, <2>3 DEF AloneInv, Stage, StopStage, StartStage, MonitorStage, CommandStage,
       CancelStage, AliveStage, Steady, Playing, Silent, OnlyRuns, OnlyOwn, MayStop, DeadStream
  <2>4. Busy = {} => Steady' /\ cancelled' = {}
    BY <2>1 DEF AloneInv, Steady, Playing, Silent, OnlyRuns, DeadStream
  <2> QED
    BY <2>1, <2>2, <2>3, <2>4 DEF AloneInv
<1> QED
  BY <1>1, <1>2, <1>3 DEF Next, Unhindered

\* Nothing has happened yet.
LEMMA InitAlone == Init => AloneInv
<1> SUFFICES ASSUME Init PROVE AloneInv
  OBVIOUS
<1>1. /\ queue = <<>> /\ shadow = <<>> /\ stored = Idle /\ registry = None /\ wtask = None
      /\ cancelled = {}
      /\ \A p \in Proc : proc[p] = "unused"
      /\ \A t \in Task : task[t].at = "off"
  BY AtLemma DEF Init, TasksInit, Awaits
<1>2. Busy = {} /\ Solo
  BY <1>1, FS_EmptySet DEF Busy, Solo
<1>3. Steady
  BY <1>1 DEF Steady, Silent
<1>4. HandedOut
  BY <1>1 DEF HandedOut, Astray, ToSet
<1>5. \A p \in Proc : task[p].at # "polling"
  BY <1>1 DEF Task
<1> QED
  BY <1>1, <1>2, <1>3, <1>4, <1>5 DEF AloneInv

--------------------------------------------------------------------------------
(* The stock of processes                                                  *)

Used == {p \in Proc : proc[p] # "unused"}

\* A step takes one process from the stock at most.
LEMMA OneMoreUsed ==
  ASSUME JInv, [Next]_vars
  PROVE  \E x : Used' \subseteq Used \cup {x}
<1>1. proc \in [Proc -> {"unused", "run", "termed"} \cup Exited] /\ registry \in Entry \cup {None}
  BY DEF JInv, Shared
<1>2. ASSUME proc' = proc PROVE Used' \subseteq Used
  BY <1>2 DEF Used
<1>3. ASSUME NEW t \in Task, Spawn(t) \/ Respawn(t) PROVE \E x : Used' \subseteq Used \cup {x}
  <2>1. PICK x \in Proc : proc' = [proc EXCEPT ![x] = "run"]
    BY <1>3 DEF Spawn, Respawn, SpawnProc
  <2>2. Used' \subseteq Used \cup {x}
    BY <1>1, <2>1 DEF Used
  <2> QED
    BY <2>2
<1>4. ASSUME NEW t \in Task, Terminate(t) PROVE Used' \subseteq Used
  <2>1. proc' = [proc EXCEPT ![registry.proc] = IF @ = "run" THEN "termed" ELSE @]
    BY <1>4 DEF Terminate
  <2> QED
    BY <1>1, <2>1 DEF Used
<1>5. ASSUME NEW t \in Task, TerminateRaises(t) PROVE Used' \subseteq Used
  <2>1. /\ proc' = [proc EXCEPT ![registry.proc] = Drops(@)]
        /\ registry # None /\ proc[registry.proc] \in Exited
    BY <1>5 DEF TerminateRaises
  <2>2. registry.proc \in Proc /\ proc[registry.proc] # "unused"
    BY <1>1, <2>1 DEF Entry, Exited, Codes, Dropped
  <2> QED
    BY <1>1, <2>1, <2>2 DEF Used
<1>6. ASSUME NEW t \in Task, EngineStep(t), ~ Spawn(t), ~ Terminate(t), ~ TerminateRaises(t)
      PROVE  proc' = proc
  BY <1>6 DEF EngineStep, Acquire, StartFails, PlayAudio, SavePlaying, Launch, NoActiveStream,
     StopFails, Reap, Leave, Unwatched, SaveIdle, Drop, FindStream, Reread, WriteBack, ToggleFails,
     engine
<1>7. ASSUME NEW t \in Task, MonitorStep(t), ~ Respawn(t) PROVE proc' = proc
  BY <1>7 DEF MonitorStep, Watch, StreamGone, CrashSeen, TrackEnds, RecoveryFails, Swap, Rewatch,
     Cancelled, engine
<1>8. ASSUME NEW t \in Task,
             DequeueNext(t) \/ EnqueueTrack(t) \/ SkipToNext(t) \/ Command(t)
      PROVE  proc' = proc
  BY <1>8 DEF DequeueNext, EnqueueTrack, SkipToNext, Command, PlayCmd, SkipCmd, StopCmd, ToggleCmd,
     VolumeCmd, engine
<1>9. CASE \E t \in Task : TaskStep(t)
  <2>1. PICK t \in Task : TaskStep(t)
    BY <1>9
  <2> QED
    BY <1>2, <1>3, <1>4, <1>6, <1>7, <1>8, <1>5, <2>1 DEF TaskStep, Step, QuietStep
<1>10. CASE Environment
  <2>1. ASSUME NEW p \in Proc, Finish(p) \/ Crash(p) \/ ExitOnSignal(p) PROVE Used' \subseteq Used
    <3>1. PICK code : proc' = [proc EXCEPT ![p] = code] /\ proc[p] \in {"run", "termed"}
      BY <2>1 DEF Finish, Crash, ExitOnSignal, Exits
    <3> QED
      BY <1>1, <3>1 DEF Used
  <2>2. ASSUME Restart PROVE Used' \subseteq Used
    BY <2>2 DEF Restart, Used
  <2> QED
    BY <1>10, <2>1, <2>2 DEF Environment
<1>11. CASE UNCHANGED vars
  BY <1>2, <1>11 DEF vars, engine
<1> QED
  BY <1>9, <1>10, <1>11 DEF Next

\* Where the bound on processes is lifted, the stock never runs out, whatever
\* the commands, the faults and the crashes: the hypothesis of the theorems
\* below says no more than that FFmpeg can be started (recovery.py:117-121,
\* stream_engine.py:114-118).
THEOREM SpareProcsLast ==
  ASSUME ~ IsFiniteSet(Proc)
  PROVE  Spec => []SpareProc
<1>1. Init => IsFiniteSet(Used)
  <2> SUFFICES ASSUME Init PROVE IsFiniteSet(Used)
    OBVIOUS
  <2>1. Used = {}
    BY DEF Init, TasksInit, Used
  <2> QED
    BY <2>1, FS_EmptySet
<1>2. ASSUME JInv, IsFiniteSet(Used), [Next]_vars PROVE IsFiniteSet(Used')
  <2>1. PICK x : Used' \subseteq Used \cup {x}
    BY <1>2, OneMoreUsed
  <2>2. IsFiniteSet(Used \cup {x})
    BY <1>2, FS_AddElement
  <2> QED
    BY <2>1, <2>2, FS_Subset
<1>3. ASSUME IsFiniteSet(Used) PROVE SpareProc
  <2>1. Used # Proc
    BY <1>3
  <2> QED
    BY <2>1 DEF Used, SpareProc
<1>4. JInv /\ IsFiniteSet(Used) /\ [Next]_vars => IsFiniteSet(Used)'
  BY <1>2
<1>5. IsFiniteSet(Used) => SpareProc
  BY <1>3
<1> QED
  BY <1>1, <1>4, <1>5, JukeboxInvariant, PTL DEF Spec

\* When coroutines do not overlap and no external call fails, every await of
\* start_stream, stop_stream, attempt_recovery and the handlers finds the group's
\* records as its coroutine left them (stream_engine.py:78-226, recovery.py:63-164);
\* terminate() may raise for an exited FFmpeg at every stop_stream, and what that
\* leaves behind is part of the invariant.
THEOREM AloneInvariant ==
  ASSUME Unhindered
  PROVE  Spec /\ []SpareProc => []AloneInv
<1>1. Init => AloneInv
  BY InitAlone
<1>2. JInv /\ EnvOK /\ AloneInv /\ SpareProc /\ [Next]_vars => AloneInv'
  BY NextAlone
<1> QED
  BY <1>1, <1>2, JukeboxInvariant, PTL DEF Spec

\* Then the state in Redis, the registry, the watchdog and the running FFmpeg
\* agree whenever nothing is going on, or else terminate() raised for the
\* registered stream, which Redis and the registry go on to name although it has
\* no FFmpeg and no monitor (stream_engine.py:200, watchdog.py:108-115).
THEOREM RecordsAgree ==
  ASSUME Unhindered
  PROVE  Spec /\ []SpareProc => []Agreement
<1>1. JInv /\ AloneInv => Agreement
  <2> SUFFICES ASSUME JInv, AloneInv, Quiet
               PROVE  IF registry = None
                      THEN stored = Idle /\ wtask = None /\ \A p \in Proc : ~ Live(p)
                      ELSE /\ stored.status # "idle" /\ stored.track = registry.track
                           /\ IF DeadStream
                              THEN wtask = None /\ \A p \in Proc : ~ Live(p)
                              ELSE /\ wtask = registry.proc
                                   /\ \A p \in Proc : Live(p) <=> p = registry.proc
    BY DEF Agreement
  <2>1. Steady
    BY DEF Quiet, AloneInv
  <2>2. CASE registry = None
    BY <2>1, <2>2 DEF Steady, Silent, Live
  <2>3. CASE registry # None
    <3>1. /\ Playing /\ OnlyRuns(registry.proc) /\ registry.proc \in Proc
          /\ wtask = registry.proc \/ (wtask = None /\ DeadStream)
      BY <2>1, <2>3 DEF Steady, JInv, Shared, Entry
    <3>2. wtask = registry.proc => proc[registry.proc] \notin Exited
      <4> SUFFICES ASSUME wtask = registry.proc PROVE proc[registry.proc] \notin Exited
        OBVIOUS
      <4>1. Running(wtask) /\ wtask # None
        BY <3>1, TaskSorts DEF JInv, WatchEntryLive
      <4> QED  BY <3>1, <4>1 DEF Quiet
    <3>3. CASE DeadStream
      <4>1. proc[registry.proc] \in Dropped /\ wtask = None
        BY <3>1, <3>2, <3>3 DEF DeadStream, Exited
      <4> QED
        BY <2>3, <3>1, <3>3, <4>1 DEF Playing, OnlyRuns, Live, Dropped
    <3>4. CASE ~ DeadStream
      <4>1. proc[registry.proc] # "unused"
        BY <2>3 DEF JInv, RegistryDecodes, Decodes
      <4>2. wtask = registry.proc /\ proc[registry.proc] = "run"
        BY <3>1, <3>2, <3>4, <4>1 DEF JInv, Shared, OnlyRuns
      <4> QED
        BY <2>3, <3>1, <3>4, <4>2 DEF Playing, OnlyRuns, Live
    <3> QED
      BY <3>3, <3>4
  <2> QED
    BY <2>2, <2>3
<1> QED
  BY <1>1, AloneInvariant, JukeboxInvariant, PTL

\* And every track that the queue handed out was started, but for one at most,
\* and that only behind a stream for which terminate() raised; no track waits
\* while the group is idle (play.py:97-118, stream_engine.py:372-394).
THEOREM NoTrackForgotten ==
  ASSUME Unhindered
  PROVE  Spec /\ []SpareProc => []NoneForgotten
<1>1. JInv /\ AloneInv => NoneForgotten
  <2> SUFFICES ASSUME JInv, AloneInv, Quiet
               PROVE  /\ IF DeadStream THEN \E c \in Cmd : Lost \subseteq {c} ELSE Lost = {}
                      /\ registry = None => queue = <<>>
    BY DEF NoneForgotten
  <2>1. Steady /\ Busy = {}
    BY DEF Quiet, AloneInv
  <2>2. \A t \in Task : ~ Starting(task[t])
    BY <2>1 DEF Busy, Starting, InStop
  <2>3. Lost = Astray
    BY <2>2 DEF Lost, Astray
  <2>4. Lost # {} => DeadStream
    BY <2>3 DEF AloneInv, HandedOut
  <2>5. ASSUME DeadStream PROVE \E c \in Cmd : Lost \subseteq {c}
    <3>1. registry.track \in Cmd
      BY <2>5 DEF DeadStream, JInv, Shared, Entry
    <3>2. ASSUME NEW c \in Lost PROVE c \in Cmd /\ Lost \subseteq {c}
      <4>1. c \in Cmd
        BY <3>2, ElementOfSeq, LenProperties DEF Lost, JInv, Shared, ToSet
      <4>2. Lost \subseteq {c}
        BY <2>3, <3>2 DEF AloneInv, HandedOut
      <4> QED  BY <4>1, <4>2
    <3> QED  BY <3>1, <3>2
  <2> QED
    BY <2>1, <2>4, <2>5 DEF Steady
<1> QED
  BY <1>1, AloneInvariant, JukeboxInvariant, PTL
================================================================================
