----------------------------- MODULE DownloadWorker -----------------------------
(***************************************************************************)
(* Downloads for /play: look in the cache, take the lock of the URL, fetch *)
(* the file with yt-dlp in two calls to an executor, put it in the cache,  *)
(* delete the lock.  The lock is a key with a TTL and the same value for   *)
(* everyone; who set it is known to the properties only.                   *)
(***************************************************************************)
EXTENDS CacheManager

CONSTANTS MaxRequests,  \* bound on the number of downloads asked for
          Faults,       \* what may go wrong beside yt-dlp
          MaxFaults     \* bound on how often it does

FaultKinds == {"expire",   \* a lock outlives its TTL
               "redis",    \* a Redis command raises
               "restart"}  \* the process dies; Redis and the disk keep their state

ASSUME WorkerAssumption == /\ {MaxRequests, MaxFaults} \subseteq Nat
                           /\ Faults \subseteq FaultKinds

VARIABLE locks  \* lock:dl:{sha256}: the task that set the key, or None

\* History variables: the first two bound the model, properties read the others.
VARIABLES requests,  \* how many downloads were asked for
          faults,    \* how many faults there were
          expired,   \* hashes with a lock that expired
          broken,    \* hashes whose handling was broken off
          clashed,   \* hashes that one task removed while another used them
          crowded,   \* tasks that were not alone with the cache since they began
          hunted     \* tasks whose file an eviction chose since, see below

history == <<requests, faults, expired, broken>>
vars    == <<cache, task, locks, history, clashed, crowded, hunted>>

InTry     == {"fetching", "checking", "writing", "ranking", "listing",
              "summing", "choosing", "inspecting", "finding", "unlinking"}
Finally   == {"releasing", "answering"}
Inside(t) == task[t].at \in InTry \cup Finally \/ task[t].evicting

\* DEL and ZREM of h by one task while another is about h.
Clashes == {h \in Hash : \E t, u \in Task :
                t # u /\ task[t].victim = h /\ task[u].hash = h}

Crowded(t) == \E u \in Task \ {t} : task[u] # Asleep

\* An eviction has chosen the file that t is about and not got past its unlink:
\* that of another task, or its own when another task moved the LRU order.
Hunted(t) == \E u \in Task : /\ u # t \/ t \in crowded
                             /\ task[u].at \in {"inspecting", "finding", "unlinking"}
                             /\ task[u].victim = task[t].hash

Init ==
    /\ \E S \in SUBSET Hash :
          IsFiniteSet(S) /\ Bytes(S) <= MaxBytes /\ \E order \in SetToSeqs(S) : Warm(order)
    /\ task = Task0
    /\ locks = [h \in Hash |-> None]
    /\ requests = 0 /\ faults = 0
    /\ expired = {} /\ broken = {} /\ clashed = {} /\ crowded = {} /\ hunted = {}
-----------------------------------------------------------------------------
Request(t, h) ==
    /\ At(t, "asleep") /\ requests < MaxRequests
    /\ task' = [task EXCEPT ![t].at = "reading", ![t].hash = h]
    /\ requests' = requests + 1
    /\ UNCHANGED <<cache, locks, faults, expired, broken>>

AcquireAnyway(t) ==   \* faulty: SET without NX
    /\ At(t, "locking")
    /\ locks' = [locks EXCEPT ![task[t].hash] = t] /\ Go(t, "fetching")
    /\ UNCHANGED <<cache, history>>

AcquirePolling(t) ==   \* faulty: who does not get the lock waits for it
    /\ At(t, "locking")
    /\ locks[task[t].hash] = None
    /\ locks' = [locks EXCEPT ![task[t].hash] = t] /\ Go(t, "fetching")
    /\ UNCHANGED <<cache, history>>

\* SET NX PX.  Who does not get the lock gives up.
AcquireLock(t) ==
    /\ At(t, "locking")
    /\ LET h == task[t].hash
       IN IF locks[h] = None
          THEN locks' = [locks EXCEPT ![h] = t] /\ Go(t, "fetching")
          ELSE Sleep(t) /\ UNCHANGED locks
    /\ UNCHANGED <<cache, history>>

\* The two calls of yt-dlp, one for the metadata and one for the file; either
\* may raise.
FetchUnguarded(t) ==   \* faulty: what raises here is not followed by the finally clause
    /\ At(t, "fetching")
    /\ \/ files' = files \cup {task[t].hash} /\ Go(t, "checking")
       \/ Sleep(t) /\ UNCHANGED files
    /\ UNCHANGED <<meta, lru, locks, history>>

Fetch(t) ==
    /\ At(t, "fetching")
    /\ \/ files' = files \cup {task[t].hash} /\ Go(t, "checking")
       \/ Go(t, "releasing") /\ UNCHANGED files
    /\ UNCHANGED <<meta, lru, locks, history>>

\* Back from the executor: the file is looked for, and its size read.
CheckFile(t) ==
    /\ At(t, "checking")
    /\ Go(t, IF task[t].hash \in files THEN "writing" ELSE "releasing")
    /\ UNCHANGED <<cache, locks, history>>

\* DEL, whoever has set the key; then download returns.
ReleaseLock(t) ==
    /\ task[t].at \in Finally
    /\ locks' = [locks EXCEPT ![task[t].hash] = None]
    /\ Sleep(t)
    /\ UNCHANGED <<cache, history>>

UseCache(t) == CacheStep(t) /\ UNCHANGED <<locks, history>>

Step(t) == \/ UseCache(t)
           \/ AcquireLock(t) \/ Fetch(t) \/ CheckFile(t) \/ ReleaseLock(t)
-----------------------------------------------------------------------------
Fault(kind) == kind \in Faults /\ faults < MaxFaults /\ faults' = faults + 1

Expire(h) ==
    /\ Fault("expire") /\ locks[h] # None
    /\ locks' = [locks EXCEPT ![h] = None]
    /\ expired' = expired \cup {h}
    /\ UNCHANGED <<cache, task, requests, broken>>

BreakOff(T) ==
    broken' = broken \cup {h \in Hash : \E t \in T : h \in {task[t].hash, task[t].victim}}

\* Task t waits for the reply to a Redis command.
AtCommand(t) == /\ ~ task[t].at \in {"asleep", "looking", "fetching",
                                      "checking", "finding", "unlinking"}
                /\ At(t, "summing") => task[t].left # <<>>

\* A Redis command raises: from the try block to the finally clause, from
\* elsewhere to the handler of /play.
Interrupt(t) ==
    /\ Fault("redis")
    /\ AtCommand(t)
    /\ IF Inside(t) /\ task[t].at \notin Finally THEN Go(t, "releasing") ELSE Sleep(t)
    /\ BreakOff({t})
    /\ UNCHANGED <<cache, locks, requests, expired>>

Restart ==
    /\ Fault("restart") /\ task # Task0
    /\ task' = Task0
    /\ BreakOff(Task)
    /\ UNCHANGED <<cache, locks, requests, expired>>

\* Every step is recorded in the history.
Observe == /\ clashed' = clashed \cup Clashes'
           /\ crowded' = {t \in Task : task'[t] # Asleep /\ (t \in crowded \/ Crowded(t)')}
           /\ hunted' = {t \in Task : task'[t] # Asleep /\ (t \in hunted \/ Hunted(t)')}

Next == /\ \/ \E t \in Task, h \in Hash : Request(t, h)
           \/ \E t \in Task : Step(t) \/ Interrupt(t)
           \/ \E h \in Hash : Expire(h)
           \/ Restart
        /\ Observe

\* Redis answers, yt-dlp returns or raises, and threads of the executor end.
Fairness == \A t \in Task : WF_vars(Step(t) /\ Observe)

Spec == Init /\ [][Next]_vars /\ Fairness
-----------------------------------------------------------------------------
Quiet == task = Task0

TypeOK ==
    /\ meta \subseteq Hash /\ files \subseteq Hash
    /\ IsInjective(lru) /\ ToSet(lru) \subseteq Hash
    /\ task \in [Task -> [at : Steps, hash : Hash \cup {None}, victim : Hash \cup {None},
                          evicting : BOOLEAN, left : Seq(Hash), total : Nat]]
    /\ locks \in [Hash -> Task \cup {None}]
    /\ requests \in 0..MaxRequests /\ faults \in 0..MaxFaults
    /\ expired \cup broken \cup clashed \subseteq Hash
    /\ crowded \subseteq Task /\ hunted \subseteq Task

\* Two tasks are never between acquiring and releasing the lock of one URL,
\* unless a lock of that URL has expired (download_worker.py:74-99, 245).
Deduplicated ==
    \A t, u \in Task : t # u /\ Inside(t) /\ Inside(u) /\ task[t].hash = task[u].hash
                         => task[t].hash \in expired

\* A lock is held by a task on its way to the finally clause: no return and no
\* exception of download leaves it (download_worker.py:169-246), a crash or a
\* failed DEL does.
LocksHeld ==
    \A h \in Hash \ broken :
        locks[h] # None => Inside(locks[h]) /\ task[locks[h]].hash = h

\* When nobody downloads, the metadata, the LRU set and the files know of the
\* same hashes, except those that a task removed while another was about them
\* (cache_manager.py:64-72, 93-106, 137-165).
Coherent ==
    Quiet => \A h \in Hash \ (broken \cup clashed) :
                /\ h \in meta <=> h \in files
                /\ h \in meta <=> h \in ToSet(lru)

\* download returns a path, of a file found in the cache or of one it fetched and
\* put there, only while the file exists, unless since the call began another
\* task's eviction has chosen that file, or its own has when it was not alone: a
\* put never evicts what it has just put by itself, whatever files, metadata and
\* LRU order it starts from (cache_manager.py:64-76, 93-169,
\* download_worker.py:148-228).
Answered(t) == (At(t, "touching") \/ At(t, "answering")) /\ task'[t] = Asleep
AnswersHold ==
    [][\A t \in Task : Answered(t) /\ t \notin hunted => task[t].hash \in files']_vars

\* When nobody downloads, the files other than those fill the size limit at
\* most, however puts and evictions overlapped (cache_manager.py:116-193).
LimitKept == Quiet /\ broken = {} => Bytes(files \ clashed) <= MaxBytes

\* Every download ends, and the loop of evict_lru with it
\* (cache_manager.py:131-169, download_worker.py:121-246).
DownloadsEnd == \A t \in Task : ~At(t, "asleep") ~> At(t, "asleep")

\* README.md:157: the lock "Prevents duplicate downloads across workers/nodes".
NoDuplicates ==
    [][\A t \in Task : At(t, "locking") /\ task'[t].at = "fetching" =>
           ~ (task[t].hash \in meta /\ task[t].hash \in files)]_vars
=============================================================================
