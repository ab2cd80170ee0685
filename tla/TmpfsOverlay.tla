------------------------------ MODULE TmpfsOverlay ------------------------------
(***************************************************************************)
(* The staging area in RAM: the files in tmpfs, which all groups share by  *)
(* the hash of their URL, the set tmpfs:active in Redis, and the streams   *)
(* that copy files in, read them, look for them after a crash and remove   *)
(* them.  The commands of one group follow each other here (Jukebox lets   *)
(* them overlap); those of different groups overlap at every await and at  *)
(* every step of a thread.  The cache below removes and stores source      *)
(* files at any time.                                                      *)
(*                                                                         *)
(* A copy truncates its target when it opens it, so the target is whole    *)
(* when the copy that opened it last has ended.  Every file fills one unit *)
(* of the tmpfs, a partial one fills some part of it.                      *)
(***************************************************************************)
EXTENDS Integers, FiniteSets

CONSTANTS Group,     \* Telegram groups, at most one stream each
          Hash,      \* sha256 of the tracks
          None,
          Capacity,  \* files that fit into the tmpfs
          Faults     \* subset of {"spawn", "restart"}

ASSUME OverlayAssumption == /\ Capacity \in Nat
                            /\ None \notin Group \cup Hash
                            /\ Faults \subseteq {"spawn", "restart"}

VARIABLES source,  \* hashes whose file is in the cache
          tmp,     \* the tmpfs file of each hash: "none", "part" or "whole"
          writer,  \* the group whose copy opened the partial file last
          active,  \* the set tmpfs:active
          stream   \* per group: where it is, its track's hash, the path it plays,
                   \* and whether FFmpeg is started again

\* History variables, read by the properties only.
VARIABLES shared,  \* hashes that two groups have handled at a time
          broken   \* hashes with a copy or a start that was broken off

files == <<tmp, writer>>
vars  == <<source, files, active, stream, shared, broken>>

Off == [at |-> "off", hash |-> None, path |-> "none", again |-> FALSE]
At(g, s)    == stream[g].at = s
Go(g, s)    == stream' = [stream EXCEPT ![g].at = s]
Play(g, p)  == stream' = [stream EXCEPT ![g].at = "opening", ![g].path = p]
End(g)      == stream' = [stream EXCEPT ![g] = Off]
Whole       == {h \in Hash : tmp[h] = "whole"}
Present     == {h \in Hash : tmp[h] # "none"}
BreakOff(S) == broken' = broken \cup S

Init ==
    /\ source \in SUBSET Hash
    /\ tmp = [h \in Hash |-> "none"] /\ writer = [h \in Hash |-> None]
    /\ active = {}
    /\ stream = [g \in Group |-> Off]
    /\ shared = {} /\ broken = {}
-----------------------------------------------------------------------------
(* activate, in start_stream; without a source it raises at once *)

Begin(g, h, s, p) ==
    stream' = [stream EXCEPT ![g] = [at |-> s, hash |-> h, path |-> p, again |-> FALSE]]

\* The look at the disk and the test of the free space are one step.
Activate(g, h) ==
    /\ At(g, "off") /\ h \in source
    /\ \/ h \in Present /\ Begin(g, h, "opening", "tmp")
       \/ h \notin Present /\ Cardinality(Whole) < Capacity /\ Begin(g, h, "copying", "tmp")
       \/ h \notin Present /\ Cardinality(Present) >= Capacity /\ Begin(g, h, "opening", "cache")
    /\ UNCHANGED <<source, files, active, broken>>

CopyUnseen(g) ==   \* faulty: the copy is not awaited
    /\ At(g, "copying")
    /\ LET h == stream[g].hash
       IN IF h \in source
          THEN /\ tmp' = [tmp EXCEPT ![h] = "part"]
               /\ writer' = [writer EXCEPT ![h] = g]
               /\ Go(g, "marking")
          ELSE End(g) /\ UNCHANGED files
    /\ UNCHANGED <<source, active, broken>>

MarkThenCopy(g) ==   \* faulty: SADD comes before the copy
    /\ At(g, "copying")
    /\ LET h == stream[g].hash
       IN /\ active' = active \cup {h}
          /\ IF h \in source
             THEN /\ tmp' = [tmp EXCEPT ![h] = "part"]
                  /\ writer' = [writer EXCEPT ![h] = g]
                  /\ Go(g, "writing")
             ELSE End(g) /\ UNCHANGED files
    /\ UNCHANGED <<source, broken>>

\* copy2 in a thread opens both files, ...
OpenCopy(g) ==
    /\ At(g, "copying")
    /\ LET h == stream[g].hash
       IN IF h \in source
          THEN /\ tmp' = [tmp EXCEPT ![h] = "part"]
               /\ writer' = [writer EXCEPT ![h] = g]
               /\ Go(g, "writing")
          ELSE End(g) /\ UNCHANGED files
    /\ UNCHANGED <<source, active, broken>>

\* ... and copies the times of the file at the end, which raises when the file
\* is no longer there.
EndCopy(g) ==
    /\ At(g, "writing")
    /\ LET h == stream[g].hash
       IN IF h \notin Present THEN End(g) /\ UNCHANGED files
          ELSE /\ Go(g, "marking")
               /\ IF writer[h] = g
                  THEN /\ Cardinality(Whole) < Capacity
                       /\ tmp' = [tmp EXCEPT ![h] = "whole"]
                       /\ writer' = [writer EXCEPT ![h] = None]
                  ELSE UNCHANGED files
    /\ UNCHANGED <<source, active, broken>>

\* The space that was free at the test is used by another copy.
NoSpace(g) ==
    /\ At(g, "writing") /\ Cardinality(Present) > Capacity
    /\ LET h == stream[g].hash
       IN writer' = [writer EXCEPT ![h] = IF @ = g THEN None ELSE @] /\ BreakOff({h})
    /\ End(g)
    /\ UNCHANGED <<source, tmp, active>>

MarkPath(g) ==   \* faulty: SADD of the path
    /\ At(g, "marking")
    /\ active' = active \cup {stream[g].path}
    /\ Play(g, "tmp")
    /\ UNCHANGED <<source, files, broken>>

\* SADD; then FFmpeg is spawned.
Mark(g) ==
    /\ At(g, "marking")
    /\ active' = active \cup {stream[g].hash}
    /\ Play(g, "tmp")
    /\ UNCHANGED <<source, files, broken>>

\* start_stream gives up after activate without a deactivate; a recovery that
\* fails ends with stop_stream.
SpawnFails(g) ==
    /\ "spawn" \in Faults /\ At(g, "opening")
    /\ IF stream[g].again
       THEN Go(g, "failed") /\ UNCHANGED broken
       ELSE End(g) /\ BreakOff({stream[g].hash})
    /\ UNCHANGED <<source, files, active>>
-----------------------------------------------------------------------------
(* FFmpeg, and its recovery by the watchdog *)

OpenFile(g) ==
    /\ At(g, "opening")
    /\ Go(g, IF stream[g].hash \in IF stream[g].path = "tmp" THEN Present ELSE source
             THEN "playing" ELSE "crashed")
    /\ UNCHANGED <<source, files, active, broken>>

Crash(g) ==
    /\ At(g, "playing") /\ Go(g, "crashed")
    /\ UNCHANGED <<source, files, active, broken>>

\* The cached file must exist.  No count of the attempts is kept.
AttemptRecovery(g) ==
    /\ At(g, "crashed")
    /\ stream' = [stream EXCEPT ![g].at = IF stream[g].hash \in source THEN "asking" ELSE "failed",
                                ![g].again = TRUE]
    /\ UNCHANGED <<source, files, active, broken>>

\* SISMEMBER chooses between the tmpfs and the cache.
IsActive(g) ==
    /\ At(g, "asking")
    /\ Play(g, IF stream[g].hash \in active THEN "tmp" ELSE "cache")
    /\ UNCHANGED <<source, files, active, broken>>
-----------------------------------------------------------------------------
(* deactivate, in stop_stream *)

DeactivateUnseen(g) ==   \* faulty: it does not look whether the file exists
    /\ stream[g].at \in {"opening", "playing", "failed"}
    /\ Go(g, "unlinking")
    /\ UNCHANGED <<source, files, active, broken>>

DeactivateOther(g) ==   \* faulty: it looks for another extension than activate used
    /\ stream[g].at \in {"opening", "playing", "failed"}
    /\ Go(g, "unmarking")
    /\ UNCHANGED <<source, files, active, broken>>

Deactivate(g) ==
    /\ stream[g].at \in {"opening", "playing", "failed"}
    /\ Go(g, IF stream[g].hash \in Present THEN "unlinking" ELSE "unmarking")
    /\ UNCHANGED <<source, files, active, broken>>

\* unlink in a thread.  If the file is gone it raises through stop_stream: the
\* group keeps the entry of a terminated process.
Unlink(g) ==
    /\ At(g, "unlinking")
    /\ Go(g, IF stream[g].hash \in Present THEN "unmarking" ELSE "stuck")
    /\ tmp' = [tmp EXCEPT ![stream[g].hash] = "none"]
    /\ writer' = [writer EXCEPT ![stream[g].hash] = None]
    /\ UNCHANGED <<source, active, broken>>

Unmark(g) ==
    /\ At(g, "unmarking")
    /\ active' = active \ {stream[g].hash}
    /\ End(g)
    /\ UNCHANGED <<source, files, broken>>
-----------------------------------------------------------------------------
(* The environment: the cache, and a restart of the process *)

CacheChanges ==
    /\ \E h \in Hash : source' \in {source \cup {h}, source \ {h}}
    /\ UNCHANGED <<files, active, stream, broken>>

Restart ==
    /\ "restart" \in Faults
    /\ stream' = [g \in Group |-> Off]
    /\ writer' = [h \in Hash |-> None]
    /\ BreakOff({stream[g].hash : g \in Group} \ {None})
    /\ UNCHANGED <<source, tmp, active>>

Step(g) == \/ \E h \in Hash : Activate(g, h)
           \/ OpenCopy(g) \/ EndCopy(g) \/ NoSpace(g) \/ Mark(g) \/ SpawnFails(g)
           \/ OpenFile(g) \/ Crash(g) \/ AttemptRecovery(g) \/ IsActive(g)
           \/ Deactivate(g) \/ Unlink(g) \/ Unmark(g)

Sharing == {h \in Hash : \E g, k \in Group : g # k /\ stream[g].hash = h /\ stream[k].hash = h}

Next == /\ (\E g \in Group : Step(g)) \/ CacheChanges \/ Restart
        /\ shared' = shared \cup Sharing'

Spec == Init /\ [][Next]_vars
-----------------------------------------------------------------------------
Places == {"off", "copying", "writing", "marking", "opening", "playing", "crashed",
           "asking", "failed", "unlinking", "unmarking", "stuck"}
Alone(h) == h \notin shared \cup broken

TypeOK ==
    /\ source \cup active \cup shared \cup broken \subseteq Hash
    /\ tmp \in [Hash -> {"none", "part", "whole"}]
    /\ writer \in [Hash -> Group \cup {None}]
    /\ stream \in [Group -> [at : Places, hash : Hash \cup {None},
                             path : {"none", "tmp", "cache"}, again : BOOLEAN]]

\* A stream that plays from the tmpfs has a whole file there from before FFmpeg
\* opens it until its own stop, through crashes and recoveries, if no other
\* group handled the track and no earlier copy of it was broken off
\* (tmpfs_overlay.py:75-111, recovery.py:85-96).
WholeFile ==
    \A g \in Group : stream[g].at \in {"opening", "playing"} /\ stream[g].path = "tmp"
                        /\ Alone(stream[g].hash) => stream[g].hash \in Whole

\* What the active set says is what a recovery finds on the disk, outside of a
\* deactivation (tmpfs_overlay.py:99-102, 122-131).
MarkedIsWhole ==
    \A h \in active : Alone(h) /\ ~(\E g \in Group : At(g, "unmarking") /\ stream[g].hash = h)
                         => h \in Whole

\* A stop fails at the unlink only for a track that groups shared
\* (tmpfs_overlay.py:125-126).
StopsEnd == \A g \in Group : At(g, "stuck") => stream[g].hash \in shared

\* When all streams have ended no RAM is in use and no track is marked, even
\* if groups shared tracks, except for copies and starts that were broken off
\* (tmpfs_overlay.py:122-131, stream_engine.py:213-217).
NothingLeft ==
    (\A g \in Group : At(g, "off")) => Present \cup active \subseteq broken
=============================================================================
