# Telegram music jukebox: specification and verification

TLA+ modules of the jukebox under `src/`, TLC configurations that model-check
them on small instances, and proofs checked by TLAPS. The reference is the
Python and Lua code; documents are quoted only where the code contradicts them.

## 1. Inventory

| Component | State | Operations | Talks to |
|---|---|---|---|
| Queue manager, Lua scripts (`state/queue_manager.py`, `state/lua_scripts.py`) | per group two Redis lists: the queue and the shadow list of delivered tracks | enqueue, dequeue, ack, nack, clear; peek, get_queue, queue_length | Redis |
| Stream engine (`streaming/stream_engine.py`) | `_active_streams`, the `PlaybackState` in Redis | start_stream, stop_stream, pause, resume, set_volume, get_state, `_on_track_end` | FFmpeg, pytgcalls, Redis, queue, watchdog, semaphore, tmpfs |
| Watchdog (`streaming/watchdog.py`) | `_tasks`: one monitor task per group | watch, monitor loop, stop | the engine, both ways |
| Recovery (`streaming/recovery.py`) | none | attempt_recovery | the engine's registry, watchdog, FFmpeg |
| Semaphore pool (`streaming/semaphore_pool.py`) | permits of the process, `_active_count` | acquire, enter, exit | start_stream of all groups |
| Commands (`gateway/commands/*`, `command_broker.py`) | none | play, skip, stop, pause, resume, volume, loop, queue, np | engine and queue |
| Throttle (`gateway/throttle.py`) | one token bucket per chat | consume | outer middleware of every message |
| Acquisition (`acquisition/*`) | download locks, cache metadata, LRU set, files, tmpfs files and active set | download, get, put, evict_lru, activate, deactivate | Redis, disk, yt-dlp |
| Presentation (`queue.py`, `nowplaying.py`) | none | pages, progress bar | engine and queue, reading |
| Permissions, Telegram gateway, Redis client, keys, serialization, settings, logging | configuration only | | |

The packages `broker`, `cache`, `download`, `queue`, `redis`, `stream`,
`pubsub`, `models`, `interfaces`, `logging`, `main.py` and `scripts` hold empty
files of a planned layout. `domain/enums.py` ends its first class with stray
Markdown fences (lines 20-21) and `CommandBroker` does not inject the download
worker (line 32); the models take both as repaired, since nothing runs otherwise.

What is hard here:

* **Interleaving.** aiogram runs each message as a task; the monitor of every
  FFmpeg process is a task; nothing locks a group. A coroutine that awaits
  Redis, pytgcalls or a process finds a changed world after it.
* **Cancellation and mutual waiting.** `watchdog.stop` cancels the monitor and
  awaits it; the monitor itself calls it at a track end, so a task may cancel
  and await itself, or await a task that is in the middle of a stop.
* **Partial failure.** `start_stream` and `stop_stream` have five external calls
  each; an exception leaves what came before it.
* **Two-step operations on Redis.** `ack`, `nack` and every change of the
  playback state read in one round trip and write in another.
* **Restarts.** Redis outlives the bot; processes and the registry do not.
* **Files shared without a count of users.** Cached and staged files are named
  by the hash of the URL; one task looks for a file, another removes it.
* **Three records of one thing.** A cached file has metadata, a member of the
  LRU set and a file; a staged one has a file and a member of the active set.
* **Arithmetic.** Admission to the queue, refill of the bucket, the position of
  a stream through pauses and recoveries.

`PROJECT.json` lists these hazards line by line with the properties about them.

## 2. Modules

```
LeaseQueue <--implements-- QueueManager --EXTENDS--> QueueScripts
                           QueueManagerProofs            ^
                                                         |
   Jukebox -> StreamWatchdog -> StreamEngine -> StreamTasks
   JukeboxProofs
   DownloadWorker -> CacheManager      SemaphorePool
   DownloadWorkerProofs                SemaphorePoolProofs
   PlaybackPosition                    TmpfsOverlay            Throttle
   PlaybackPositionProofs              TmpfsOverlayProofs      ThrottleProofs
```

A module `XProofs` EXTENDS `X` and holds the theorems about it, `ListLemmas` the
facts about sequences that four of them need, `MCX` the constants of the runs.

### Queue: `QueueScripts`, `QueueManager`, `LeaseQueue`

`queue` and `shadow` are the two lists of one group, index 1 the left end. Keys
hold the group id, so groups do not meet. A Lua script is atomic in Redis and
is one operator of `QueueScripts`, shared with the jukebox. `QueueManager` adds
the calls: enqueue, dequeue and clear are one script, `ack` and `nack` are
`LookUp` (the LRANGE) and `Ack` or `Nack` (the script), and other clients act
in between; `Abort` is a task cancelled or a Redis failure between the two. The
LRANGE gives the serialized bytes; a track has a fresh `uuid4` and msgpack is
deterministic, so tracks stand for their bytes. History variables (`ticket`,
`deliveries`, `acked`, ...) record what happened.

`LeaseQueue` is the promise: accepted tracks wait in order, a handed out track
is leased until settled, a returned track is handed out before any new one, the
latest first. It knows nothing of lists and round trips.

### Streams of one group: `StreamTasks`, `StreamEngine`, `StreamWatchdog`, `Jukebox`

asyncio switches tasks only at an await. An action is therefore the completion
of the operation a task awaits together with the code up to its next await;
`task[t].at` names the awaited operation:

| `at` | await | code |
|---|---|---|
| acquiring, spawning, playing, saving, launching | semaphore, tmpfs copy and subprocess, pytgcalls.play, SET, its reply | start_stream 78-176 |
| stopping, reaping, leaving, cancelling, idling, dropping | entry, proc.wait, leave_group_call, watchdog task, SET, its reply | stop_stream 190-226 |
| toggling, rereading, writing | pytgcalls, GET, SET | pause_stream, resume_stream, set_volume |
| scheduled, polling | create_task, sleep | watch, monitor loop |
| respawning, swapping | subprocess, pytgcalls | attempt_recovery 117-164 |
| enqueuing, dequeuing | script | play, skip, `_on_track_end` |

A task is a command message (`Cmd`, which also names the track a /play brings)
or the monitor of an FFmpeg process (`Proc`). What they share is the code's
shared state: `stored` (the state in Redis), `registry` (`_active_streams`),
`proc` (the processes), `wtask` (`StreamWatchdog._tasks`), `permits`, and the
two lists. `registry.entry` is the identity of the dictionary, because recovery
keeps a reference to it over its awaits and changes it afterwards.

`cancelled` holds tasks with a cancellation on its way. asyncio's rules are
kept: the cancellation is delivered at the task's await; a task that sits in
`watchdog.stop`'s own `await task` swallows it (`except CancelledError: pass`),
which is also how a monitor survives awaiting itself. A Redis command already
sent when its task is cancelled counts as carried out before, or not at all.

`turn` is the event loop's order, as far as it matters: `create_task(watch(..))`
is put at the end of the ready queue, so every other task takes at most one
step before `watch` registers the monitor. Without it TLC would find a watch
that is delayed for longer than asyncio can delay it.

A process that has exited has its return code (`"ok"` or `"err"`) and is later
*dropped* by asyncio (`"ok dropped"`, `"err dropped"`), when its pipe has been
read to the end too. `terminate()` of a process does nothing between the two and
raises `ProcessLookupError` after the second, so `stop_stream` of an FFmpeg that
has exited takes either `Terminate` or `TerminateRaises`, in every run and every
theorem: at the ordinary end of a track the raise is the usual case and no fault.
When asyncio drops a process nobody sees before `terminate()` is called, so
`TerminateRaises` decides it there and records it.

Constants:

* `AcquireAwaited`. `start_stream` uses `async with pool.acquire(..)` where
  `acquire` is a coroutine function; the statement raises, and `start_stream`
  always returns False. `FALSE` is the code as it stands: `UnawaitedStaysMute`
  (section 5) proves that no FFmpeg is ever spawned then. The runs take `TRUE`,
  the statement with its `await`, since otherwise nothing behind it could be
  examined.
* `Faults`: which external calls may fail (spawn, voice chat, Redis SET of the
  state). The remaining ones (GETs, the scripts of the queue) are taken to succeed.
* `Schedule`: `"any"` as the event loop allows; `"serial"`: a command starts
  when the last one is done, monitors still interleave; `"alone"`: no two
  coroutines are in the middle of something.
* `MaxCrashes`, `MaxRestarts`, `Proc`: bounds on crashes, restarts, processes.
  When the processes run out, a spawn fails, which the code handles. (The proofs
  also speak of an unbounded `Proc`.)

Left out here: positions and seek offsets (`PlaybackPosition`), the staged file
(`TmpfsOverlay`; its failure is part of `spawn`), the volume value, the voice
chat. /loop changes a local object and
never stores it, so the loop branches of `_on_track_end` cannot be reached.

### `SemaphorePool`

The permits across groups, which one group's model cannot show: who waits, in
which order, a wait that is cancelled as it is granted, and `_active_count` kept
apart from the semaphore. asyncio's semaphore is modelled as in Python 3.12, the
version of the Dockerfile: first in, first out, and a new start queues as long
as a task that was granted a permit has not run.

### `Throttle`

The token bucket of one chat in integers: a token is `Cost` units, a tick adds
`Rate` units. 20 a minute with a burst of 5 is `Cost = 3`, `Rate = 1`,
`Capacity = 15` with a tick of a second. Float rounding is not modelled.

### `CacheManager`, `DownloadWorker`

A task is a /play handler inside `download`; `task[t].at` is the Redis command
or the look at the disk it performs next, so other tasks act between any two:

| `at` | step | code |
|---|---|---|
| reading, looking, touching | HGETALL, `exists`, ZADD | `get` 52-72 |
| locking, fetching, checking | SET NX PX, yt-dlp, `exists` | `download` 161-214 |
| releasing, answering | DEL, on the way out with an error, with a path | `download` 216-246 |
| writing, ranking, listing, summing | HSET, ZADD, ZRANGE, HGET each | `put`, `get_total_size` |
| choosing, inspecting, finding, unlinking, deleting, removing | ZRANGE 0 0, HGETALL, `exists`, unlink, DEL, ZREM | `evict_lru`; the last two also `get` 67-68 |

`meta`, `lru` and `files` are the three records of the cache, `locks` the keys
`lock:dl`. A path and a size are functions of the hash, so metadata is a set of
hashes; ZADD with the current time puts its member last (clocks do not run
backwards between two calls). The two calls of yt-dlp are one step that leaves a
whole file or raises. `Faults` brings a lock that outlives its TTL, a Redis
command that raises, and a restart, `MaxFaults` bounds them together.

`AnswersHold` is about every path that `download` returns: of a file it found in
the cache, and of one it fetched and put there. Between the two a put evicts, and
so may others. A put that has the cache to itself never evicts its own file,
whatever it finds in Redis and on the disk. The other paths are those of files
that an eviction chose since the call began (`hunted`): one of another task, or
one's own in a put that was not alone (`crowded`), since a look of another task
at the cache moves the file it found behind the new one.

What TLC shows of the cache, and why the properties carry their conditions
(`expired`, `broken`, `clashed`, `crowded` and `hunted` are history variables,
read by nothing else):

* an evictor's DEL or ZREM that follows a new download of the same hash removes
  the new metadata or member: a file that is not counted and never evicted
  (`clashed`: one task removes a hash that another is about);
* a put cut off between HSET and the comparison of the size leaves the limit
  exceeded until the next put (`broken`);
* two evictors choose the same victim and the unlink of the second raises
  through `put`: its download is answered as failed although its file is there;
* a file may be evicted by another task while its own is still in its put, and
  `download` then answers with a path of nothing (`hunted`);
* a returned path may be evicted before it is played: nothing keeps it, and
  `AnswersHold` ends with the return.

### `TmpfsOverlay`

All groups over one tmpfs. `stream[g]` follows the stream of a group from
`activate` through FFmpeg, crashes and recoveries to `deactivate`; its commands
follow each other here, since `Jukebox` has their overlap. A copy is two steps of
a thread (open, which truncates, and end), with the writer that opened the file
last; `NoSpace` is the copy for which the free space is no longer there.
`shared` (two groups handled the hash at a time) and `broken` (a copy or start of it
was broken off) record what the code has no protection against: a second group
plays a partial copy, a stop removes the file under another group and then the
other's stop fails at its unlink and keeps its registry entry, a leftover of a
failed copy is played by later streams.

### `PlaybackPosition`

The arithmetic of `start_time`, `seek_offset` and `paused_at` against `audio`, the
second that is heard. FFmpeg reads in real time and stands still in a paused
voice chat; the pause is heard when pytgcalls answers. `cmd` holds /pause and
/resume between their reads and writes; `held` is false when the entry they
hold was removed in between. A restarted FFmpeg begins at the seek position
within the file. `muddled` records what makes the position wrong in the code: a
second /pause of a paused stream (`paused_at` is overwritten), two overlapping
resumes (both shift `start_time`), and a command that outlives its stream. The
bar of /np is `Filled`; a track from the cache has duration 0 and an empty bar.

Each module also holds *faulty variants* of some operators, marked as such:
plausible bugs, against which each property is tried out (`mutants` in
`PROJECT.json`). No action uses them.

## 3. Runs

| Run | Instance | What it shows |
|---|---|---|
| `queue` | 4 tracks, 2 clients, limit 2, 2 deliveries of a track | `Conservation`, `Order`, `NoOvertaking`, `AdmissionBound`; refinement of `LeaseQueue` (`ImplementsLeaseQueue`) |
| `jukebox` | 3 commands, 3 processes, 1 permit, all of `Faults`, any schedule, 1 restart | what holds without any lock: `PermitsBalanced`, `PlayedOnce`, `WatchEntryLive`, `RegistryPlaysItsTrack` |
| `jukebox_alone` | 4 commands of all kinds, 5 processes, 1 crash, no overlap, nothing but `terminate()` raises | `Agreement` of registry, Redis, processes and watchdog; `NoneForgotten` |
| `jukebox_live` | 2 commands, 2 processes, all of `Faults`, 1 crash | `CommandsEnd`, `ExitNoticed` |
| `semaphore` | 4 groups, 2 permits | `Balanced`, `EveryStartEnters` |
| `acquisition` | 2 tasks, 2 files of sizes 1 and 2, limit 2, 3 downloads, 1 fault of any kind | `Deduplicated`, `LocksHeld`, `Coherent`, `LimitKept`, `AnswersHold`, `DownloadsEnd` |
| `tmpfs` | 2 groups, 2 tracks, room for 1, failing starts and restarts | `WholeFile`, `MarkedIsWhole`, `StopsEnd`, `NothingLeft` |
| `position` | 2 commands, a track of 4 s, a heartbeat of 2 s, 6 s of time | `InStep`, `BarFits`, `SkipsLittle` |
| `throttle` | the code's rate and burst, 8 ticks of 2 s | `WindowBound`, `Budget`, `WaitSuffices` |

Why the bounds are enough: four tracks over a limit of two give a full queue, a
refusal and a nack over the limit, and two clients give every pair of half
done acks and nacks; a track has to be delivered twice for a stale one. Three
commands and three processes give two tracks in conflict beside a third that
changes them, and one permit makes starts wait for each other. A tick of two
seconds adds two thirds of a token, so waits are rounded; sixteen seconds empty
and refill the bucket. Two files that do not fit together make every download
evict, from any cache that fits the limit, and three downloads let a hash be
fetched, evicted and fetched again; without faults three files and two tasks
give the same result. Room for one staged file makes the fallback to the cache, the
lost race for space and the sharing of a file happen; three groups without
faults hold too. Six seconds over a track of four reach a recovery beyond the
end of the track. The runs of the jukebox do not check for deadlock: the
commands of an instance are finite, so the system comes to rest when they are
used up. `CommandsEnd` and `ExitNoticed` say that nothing rests in the middle.
`acquisition` and `position` end with their downloads and their clock; `tmpfs`
does check for deadlock.
Symmetry is used where only safety is checked.

`Agreement` and `NoneForgotten` are checked without overlap because with it
they do not hold: the violated statements below are what is left of them. They
name the one exception that the code makes even then, a *dead stream*: once
`terminate()` has raised, the registry and Redis go on naming a stream that has
no FFmpeg and no monitor, and the track popped to follow it is forgotten.
`Agreement` says that the records agree on this too, `NoneForgotten` that it is
one track at most. That it is one at all is the finding `next_track`.

### Where code and documents disagree

Each of these runs checks one statement of the documents and TLC finds it
violated; `findings` in `PROJECT.json` quotes the lines.

| Run | Statement | What happens |
|---|---|---|
| `next_track` | a track end "dequeues next track and starts playback" | `terminate()` of the exited FFmpeg raises between the two, and `_monitor_loop` swallows it |
| `one_process` | one subprocess per group | /play while a track change is between stop and start |
| `no_duplicates` | the lock prevents duplicate downloads | the cache is not looked at again once the lock is taken |

Read in the code and visible in the models, without a run of its own: the
un-awaited `acquire` (play.py:24 "Automatic playback start if idle"), which is a
theorem instead; a /stop while another task is about to spawn leaves an FFmpeg that no entry names
(stream_engine.py:187 "Stop current stream immediately"); a /play that read
"playing" just before the last track ended queues a track in an idle group;
nothing re-queues the shadow list at start-up (docs/redis-schema.md:117 says so);
the permit of the semaphore is held only while a stream starts
(semaphore_pool.py:3 "capping max simultaneous streams");
`MAX_RECOVERY_ATTEMPTS` is read by nobody; no caller of `ack` or `nack` exists,
so the shadow list only empties by /stop; a nack ignores the length limit; a
late ack settles a later delivery of the same track; and a /pause over a /stop
writes a paused state without a track.

## 4. Fairness

`CommandsEnd` and `ExitNoticed` assume weak fairness of every task's step (the
event loop runs a task whose operation has completed, and each awaited
operation completes or fails) and of the exit of a terminated process (stop_stream
kills it after 5 s). Nothing is assumed of users, of the end of a track, of
crashes or of failures. `DownloadsEnd` assumes weak fairness of each
task's step: Redis answers or raises, yt-dlp returns or raises, threads of the
executor end; nothing is assumed of faults or of who asks for downloads.
`EveryStartEnters` assumes that a started
`start_stream` body ends and that a task that was granted a permit runs.
Cancellation is never required to happen.

## 5. Proofs

Every invariant and every action property of the passing runs is a theorem,
for every value of the constants: any sets of tracks, tasks, groups and URLs,
any limits, and any number of faults. A run shows that a statement is not empty
on a small instance, the theorem that the instance was not too small. The
assumptions are those the modules state of their constants (limits are naturals,
`None` is nothing else, a file fits the cache), nothing more, but for the two
statements about the jukebox without overlap, see there. `theorems` in
`PROJECT.json` pairs each theorem with its property.

The pattern is the same throughout: a property is seldom inductive, so a
conjunction is found that is, and each action is shown to keep each part that
it can disturb. What follows is why the added parts are needed.

### Lists: `ListLemmas`

What Append, a push to the left, Tail, the removal of one element and a split
into front and rest do to the elements of a list, their number and their
order. A list that holds each element once has as many elements as its set.

### Queue: `QueueManagerProofs`

`IInv` is `TypeOK`, `Conservation`, `Order`, `NoOvertaking` and
`AdmissionBound`. `NoOvertaking` needs `Order` (the list is returned tracks
followed by never delivered ones in the order of their tickets), which needs
`Conservation` (a track is in one place once), which needs the types.

`ImplementsLeases` is the refinement of `LeaseQueue`, safety and steps. `Order`
is also what makes the mapping possible: as the returned tracks lead the list,
their number says where it splits, into what `LeaseQueue` calls `returned` and
`waiting`. Enqueue, dequeue, the ack or nack of a leased track and clear map to
the action of that name, everything else (a look-up, a refusal, an ack or
nack that comes too late, a broken off call) to a stutter.

### Throttle and position

`WindowBound` follows from `Budget`: what was spent since the i-th passed message
plus what is in the bucket is at most a full bucket and what the clock added.

`InStep` alone is not inductive: it needs that the voice chat is paused exactly
when the entry says so (`PauseRecorded`), that no time that was read lies in the
future, and how far the position runs ahead while FFmpeg is dead (`DeadInStep`,
`SeekInStep`). Three lemmas say what a pause, a resume and a second do to the
position; `BarFits` adds a lemma about a proportion.

### Semaphore: `SemaphorePoolProofs`

`PoolInv`: the queue of the semaphore holds exactly the waiting starts, each
once; the free permits and those granted or in use make up all; the count is the
number of starts inside. The first part is what a cancellation needs, which
removes one waiter from the middle of the queue and may pass its permit on. The
number of groups may be infinite, since only finitely many hold a permit.

### Streams of one group: `JukeboxProofs`

`JInv` is what a task may count on after an await, for any schedule and all
faults. Its parts:

* `Shared`, `Locals`: types, and that a task has the locals that its place needs.
* `Permits`: the free permits and the tasks inside the `async with` make up all.
* `WatchEntryLive`, `CancelledLive`: the entry of `_tasks` has started and not
  ended, and a cancellation goes to a task that exists. The finally clause of
  any monitor drops the group's entry, so the entry is never a dead one; that
  it may be dropped too early shows in `Agreement`, not here.
* `NewProcs`: a process has no monitor before the one task that spawned it
  schedules its watch. Without it a watch could overwrite a running monitor.
* `RegistryDecodes`, `TasksDecode`: the entry, and the process which took it
  over, decode the registered track; a task in `start_stream` or a recovery has
  the process it spawned or found decode its own track. `RegistryPlaysItsTrack`
  needs both, because a recovery changes the entry it found before its awaits.
* `OneOfEach`: a track is with its command, once in the queue, with one task on
  its way to start it, or started. `PlayedOnce` follows.

`Agreement` and `NoneForgotten` need that nothing overlaps and that no spawn,
voice chat call or SET fails. `RecordsAgree` and `NoTrackForgotten` prove them
from `Unhindered` (`Schedule = "alone"`, `Faults = {}`, no restarts, `acquire`
awaited, any number of crashes of FFmpeg) by `AloneInv`: at most one task is
busy; when none is, the four records agree, on a dead stream if a `terminate()`
raised; and for each await of the busy one, which of them it has changed by then
(`Stage`). A dead stream has no monitor, so no later step dequeues behind it:
every stop raises again, and only a restart ends it. This is why one track at
most is forgotten. Their second hypothesis, `[]SpareProc`, says that a
spawn finds an unused process, which is about the bound of the model and not
about the code: `SpareProcsLast` proves it of every behaviour when `Proc` is
infinite, and the instance of `jukebox_alone` never needs more than its five.

`UnawaitedStaysMute` is the statement with `AcquireAwaited = FALSE`, for every
schedule and all faults: nothing gets past `acquiring`, so no process, registry
entry or monitor ever exists for the rest of the code to act on.

### Downloads and cache: `DownloadWorkerProofs`

`Deduplicated` and `LocksHeld` need `Owns`: whoever is inside the try block has
the lock, unless a lock of that URL expired; and that needs `Roles`: a task that
is up has a hash, and evicts only between acquiring and releasing (a `get` that
removes a stale entry uses the same steps outside).

`CacheInv` is behind `Coherent`. For a hash that nothing broke
off and that no two tasks clashed about, the three records differ only in ways
that name the task which will go on (`Settled`: metadata without a file has
someone about to delete it, a file without metadata someone about to write it),
and what a task found or wrote still holds (`TaskOK`). The lemma `OneTaskSteps`
carries the argument: a step is about one hash, and it disturbs another task
only where the two clash, so it is enough to look at the task that steps.

`LimitKept` is not local: it speaks of a sum over files that others add to and
remove from while it is computed. Its invariant `Measured` says that the files
fit the limit, or some task is to measure them from a new list, or some task has
counted every file that is not still before it in its list. A download that
adds a file is to measure; an eviction is to measure again; and by `CacheInv` a
list or a size that misses a file has another task about to measure it. The
bytes of a set of files are the number of pairs of a file and a place in it,
which needs no recursion.

`AnswersHold` has an invariant of its own, `AnswersInv`: the file that a task
found or fetched is there as long as no eviction chose it, since only an
evictor's unlink removes files; and a put that is alone chooses another one
(`PutOK`). Its file is the youngest of the LRU set from its ZADD on, so it can be
the oldest only as the last one left; but then the measured size is that of its
file at most, which fits the limit, and the eviction ends before it chooses
again. This uses nothing of `CacheInv`: it holds from any records that crashes
and clashes left.

### Staged files: `TmpfsOverlayProofs`

`OverlayInv` says who answers for a file: what is in the tmpfs has a stream that
writes it or will remove it (`PresentIsOwned`), a mark in the active set has one
that will unmark it (`ActiveIsOwned`), a copy of a track that one group handles
has the file to itself (`CopyIsOwn`), and nobody removes a file between the look
and the unlink unless groups share the track (`UnlinkFinds`). `NothingLeft`
follows when all streams have ended, also for tracks that groups shared.

### Only model-checked

* Liveness: `CommandsEnd`, `ExitNoticed`, `EveryStartEnters`, `DownloadsEnd`.
  Fairness and ENABLED are beyond the proof system here.
* The fairness of `LeaseQueue`: it has none; its safety and steps are proved.
* The violated statements of section 3, which are counterexamples.

## 6. Plan

Done: the queue with its abstract specification, the streams of a group, the
semaphore pool, the throttle, the position, the downloads with the cache and the
staged files, each with the proofs of its safety properties.

Next:

1. The staged file inside the interleavings of one group's commands
   (`TmpfsOverlay` under `Jukebox`), on an instance small enough for TLC.

Not modelled and why: permissions and the Telegram gateway (answers of a remote
service, no state of their own), the queue pages (they format one read of the
list and change nothing), Redis client, keys and serialization (taken as
an injective key per group and a faithful round trip), settings, logging and
interfaces (no behaviour), the empty packages; inside the modelled parts the
partial files of an interrupted yt-dlp, float rounding, the playback volume
and /loop, which changes a local object only.
