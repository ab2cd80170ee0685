------------------------------ MODULE CacheManager ------------------------------
(***************************************************************************)
(* The audio cache: a metadata hash per URL and one LRU sorted set in      *)
(* Redis, and the files in the download directory.  Every Redis command is *)
(* atomic, the methods are not: an action is one command, or the code      *)
(* between two of them where it looks at the disk.  task[t].at names the   *)
(* command or look that task t performs next.                              *)
(*                                                                         *)
(* A file's name and size are functions of its URL's hash, so the          *)
(* metadata is the set of hashes that have any; ZADD with the time of the  *)
(* call puts its member at the young end of the LRU order.                 *)
(***************************************************************************)
EXTENDS Integers, FiniteSets, SequencesExt

CONSTANTS Hash,      \* url_to_sha256 of the URLs asked for
          Task,      \* handlers of /play
          Size,      \* st_size of the file of each hash
          MaxBytes,  \* MAX_CACHE_SIZE_BYTES
          None       \* no hash, no task

ASSUME CacheAssumption == /\ MaxBytes \in Nat
                          /\ Size \in [Hash -> 1..MaxBytes]
                          /\ None \notin Hash \cup Task

VARIABLES meta,   \* hashes with a metadata hash in Redis
          lru,    \* the sorted set cache:lru, oldest first
          files,  \* hashes whose file is in the download directory
          task    \* per task: the step it is at, and its local variables

cache == <<meta, lru, files>>

Steps == {"asleep",
          "reading", "looking", "touching",                           \* get
          "locking", "fetching", "checking",                          \* download
          "releasing", "answering",   \* its finally clause: an error or a path returned
          "writing", "ranking", "listing", "summing",                 \* put
          "choosing", "inspecting", "finding", "unlinking",           \* evict_lru
          "deleting", "removing"}                                     \* evict_lru, get

Asleep   == [at |-> "asleep", hash |-> None, victim |-> None, evicting |-> FALSE,
             left |-> <<>>, total |-> 0]
Task0    == [t \in Task |-> Asleep]
At(t, s) == task[t].at = s
Go(t, s) == task' = [task EXCEPT ![t].at = s]
Sleep(t) == task' = [task EXCEPT ![t] = Asleep]

Warm(order) == /\ lru = order
               /\ meta = ToSet(order)
               /\ files = ToSet(order)
\* What the files of S occupy: a byte is a file and a place in it.
Bytes(S) == Cardinality({b \in S \X (1..MaxBytes) : b[2] <= Size[b[1]]})
-----------------------------------------------------------------------------
(* get *)

\* HGETALL of the metadata.
ReadMeta(t) ==
    /\ At(t, "reading")
    /\ Go(t, IF task[t].hash \in meta THEN "looking" ELSE "locking")
    /\ UNCHANGED cache

LookForFileNot(t) ==   \* faulty: the metadata is trusted
    /\ At(t, "looking")
    /\ Go(t, "touching")
    /\ UNCHANGED cache

\* The file is looked for after the reply; what is stale is removed.
LookForFile(t) ==
    /\ At(t, "looking")
    /\ IF task[t].hash \in files
       THEN Go(t, "touching")
       ELSE task' = [task EXCEPT ![t].at = "deleting", ![t].victim = task[t].hash]
    /\ UNCHANGED cache

\* ZADD, whatever happened to the entry since; then the path is returned.
Touch(t) ==
    /\ At(t, "touching")
    /\ lru' = Append(RemoveFirst(lru, task[t].hash), task[t].hash)
    /\ Sleep(t)
    /\ UNCHANGED <<meta, files>>
-----------------------------------------------------------------------------
(* put *)

WriteMeta(t) ==
    /\ At(t, "writing")
    /\ meta' = meta \cup {task[t].hash}
    /\ Go(t, "ranking")
    /\ UNCHANGED <<lru, files>>

RankAgain(t) ==   \* faulty: a list in place of the sorted set
    /\ At(t, "ranking")
    /\ lru' = Append(lru, task[t].hash)
    /\ Go(t, "listing")
    /\ UNCHANGED <<meta, files>>

Rank(t) ==
    /\ At(t, "ranking")
    /\ lru' = Append(RemoveFirst(lru, task[t].hash), task[t].hash)
    /\ Go(t, "listing")
    /\ UNCHANGED <<meta, files>>

(* get_total_size: the members once, then the size of each in turn *)

List(t) ==
    /\ At(t, "listing")
    /\ task' = [task EXCEPT ![t].at = "summing", ![t].left = lru, ![t].total = 0]
    /\ UNCHANGED cache

AddSize(t) ==
    /\ At(t, "summing") /\ task[t].left # <<>>
    /\ LET h == Head(task[t].left)
       IN task' = [task EXCEPT ![t].left = Tail(@),
                               ![t].total = @ + (IF h \in meta THEN Size[h] ELSE 0)]
    /\ UNCHANGED cache

OverLimitFull(t) ==   \* faulty: a cache that is just full is over the limit
    /\ At(t, "summing") /\ task[t].left = <<>> /\ task[t].total >= MaxBytes
    /\ task' = [task EXCEPT ![t].at = IF task[t].evicting THEN "choosing" ELSE "listing",
                            ![t].evicting = TRUE, ![t].total = 0]
    /\ UNCHANGED cache

\* put compares the size and calls evict_lru, which computes it again.
OverLimit(t) ==
    /\ At(t, "summing") /\ task[t].left = <<>> /\ task[t].total > MaxBytes
    /\ task' = [task EXCEPT ![t].at = IF task[t].evicting THEN "choosing" ELSE "listing",
                            ![t].evicting = TRUE, ![t].total = 0]
    /\ UNCHANGED cache

WithinLimitLoosely(t) ==   \* faulty: the limit is exceeded by one
    /\ At(t, "summing") /\ task[t].left = <<>> /\ task[t].total <= MaxBytes + 1
    /\ Go(t, "answering")
    /\ UNCHANGED cache

\* put returns to download, which returns the path it found before.
WithinLimit(t) ==
    /\ At(t, "summing") /\ task[t].left = <<>> /\ task[t].total <= MaxBytes
    /\ Go(t, "answering")
    /\ UNCHANGED cache
-----------------------------------------------------------------------------
(* evict_lru *)

\* ZRANGE 0 0; with nothing to evict, evict_lru and put return.
ChooseOldest(t) ==
    /\ At(t, "choosing")
    /\ IF lru = <<>>
       THEN Go(t, "answering")
       ELSE task' = [task EXCEPT ![t].at = "inspecting", ![t].victim = Head(lru)]
    /\ UNCHANGED cache

InspectNot(t) ==   \* faulty: the entry is evicted, its file stays
    /\ At(t, "inspecting")
    /\ Go(t, "deleting")
    /\ UNCHANGED cache

\* HGETALL of the victim.
Inspect(t) ==
    /\ At(t, "inspecting")
    /\ Go(t, IF task[t].victim \in meta THEN "finding" ELSE "deleting")
    /\ UNCHANGED cache

FindFile(t) ==
    /\ At(t, "finding")
    /\ Go(t, IF task[t].victim \in files THEN "unlinking" ELSE "deleting")
    /\ UNCHANGED cache

\* unlink in a thread; a file removed by another eviction raises
\* FileNotFoundError through put into download, which gives up.
Unlink(t) ==
    /\ At(t, "unlinking")
    /\ files' = files \ {task[t].victim}
    /\ Go(t, IF task[t].victim \in files THEN "deleting" ELSE "releasing")
    /\ UNCHANGED <<meta, lru>>

\* DEL of the metadata, for an eviction and for a get that found no file.
Delete(t) ==
    /\ At(t, "deleting")
    /\ meta' = meta \ {task[t].victim}
    /\ Go(t, "removing")
    /\ UNCHANGED <<lru, files>>

\* ZREM; an eviction measures again, a get goes on as a miss.
RemoveMember(t) ==
    /\ At(t, "removing")
    /\ lru' = RemoveFirst(lru, task[t].victim)
    /\ task' = [task EXCEPT ![t].at = IF task[t].evicting THEN "listing" ELSE "locking",
                            ![t].victim = None]
    /\ UNCHANGED <<meta, files>>

CacheStep(t) ==
    \/ ReadMeta(t) \/ LookForFile(t) \/ Touch(t)
    \/ WriteMeta(t) \/ Rank(t) \/ List(t) \/ AddSize(t)
    \/ OverLimit(t) \/ WithinLimit(t)
    \/ ChooseOldest(t) \/ Inspect(t) \/ FindFile(t) \/ Unlink(t)
    \/ Delete(t) \/ RemoveMember(t)
================================================================================
