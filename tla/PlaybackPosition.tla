---------------------------- MODULE PlaybackPosition ----------------------------
(***************************************************************************)
(* Where in its track a stream is.  The engine does not ask FFmpeg: it     *)
(* computes the position from the time of the start, the offset of the     *)
(* last seek and the time of the pause.  A recovery seeks to it and /np    *)
(* draws it as a bar of cells.                                             *)
(*                                                                         *)
(* /pause and /resume wait for pytgcalls between reading and writing these *)
(* fields, and any number of them overlap.  FFmpeg reads in real time      *)
(* (-re) and stands still while the voice chat is paused.                  *)
(***************************************************************************)
EXTENDS Integers

CONSTANTS Cmd,        \* handlers of /pause and /resume
          Length,     \* seconds of audio in the file
          Duration,   \* duration_seconds of the Track, zero from the cache
          Heartbeat,  \* HEARTBEAT_INTERVAL of the watchdog
          Width,      \* cells of the progress bar
          MaxTime     \* bound on the clock

ASSUME PositionAssumption ==
    {Length, Heartbeat, Width} \subseteq Nat \ {0} /\ {Duration, MaxTime} \subseteq Nat

Unset == -1  \* None, for paused_at

VARIABLES now,         \* time.monotonic
          start_time, seek_offset, paused_at,  \* the fields of the registry entry
          ffmpeg,      \* "none", "running", "dead", "ended" or "respawning"
          due,         \* time until the monitor looks, once FFmpeg has exited
          seek,        \* position_seconds of attempt_recovery
          paused,      \* whether the voice chat is paused
          audio,       \* the second of the track that is heard
          cmd          \* per command: what it waits for, the paused_at it read, and
                       \* whether the entry it holds is still the registered one

\* History variable: since FFmpeg was last started a pause was paused again, a
\* resume used a paused_at that had changed, or a command of the stream before
\* reached this one, or FFmpeg was asked to seek before the beginning.
VARIABLE muddled

fields  == <<start_time, seek_offset, paused_at>>
process == <<ffmpeg, due, seek>>
vars    == <<now, fields, process, paused, audio, cmd, muddled>>

Idle == [at |-> "idle", read |-> Unset, held |-> TRUE]

\* _get_current_position
Position == (IF paused_at # Unset THEN paused_at ELSE now) - start_time + seek_offset

\* _build_progress_bar
FilledByOneMore ==   \* faulty: scaled to one cell more than there are
    IF Duration = 0 THEN 0 ELSE (Position * (Width + 1)) \div Duration

Filled == IF Duration = 0 THEN 0 ELSE (Position * Width) \div Duration

Init ==
    /\ now = 0
    /\ start_time = 0 /\ seek_offset = 0 /\ paused_at = Unset
    /\ ffmpeg = "none" /\ due = 0 /\ seek = 0
    /\ paused = FALSE /\ audio = 0 /\ muddled = FALSE
    /\ cmd = [c \in Cmd |-> Idle]
-----------------------------------------------------------------------------
\* start_stream: a new entry, after the call to play.
Start ==
    /\ ffmpeg = "none"
    /\ start_time' = now /\ seek_offset' = 0 /\ paused_at' = Unset
    /\ ffmpeg' = "running" /\ paused' = FALSE /\ audio' = 0 /\ muddled' = FALSE
    /\ UNCHANGED <<now, due, seek, cmd>>

\* stop_stream, by a command, at the end of the track or after a failed recovery:
\* the entry is gone, a command that holds it writes into the void.
Stop ==
    /\ ffmpeg # "none"
    /\ ffmpeg' = "none" /\ due' = 0 /\ seek' = 0
    /\ start_time' = 0 /\ seek_offset' = 0 /\ paused_at' = Unset
    /\ paused' = FALSE /\ audio' = 0 /\ muddled' = FALSE
    /\ cmd' = [c \in Cmd |-> IF cmd[c] = Idle THEN Idle ELSE [cmd[c] EXCEPT !.held = FALSE]]
    /\ UNCHANGED now

AskPause(c) ==
    /\ cmd[c] = Idle /\ ffmpeg # "none"
    /\ cmd' = [cmd EXCEPT ![c].at = "pausing"]
    /\ UNCHANGED <<now, fields, process, paused, audio, muddled>>

Pause(c) ==
    /\ cmd[c].at = "pausing"
    /\ cmd' = [cmd EXCEPT ![c] = Idle]
    /\ paused' = TRUE
    /\ paused_at' = IF cmd[c].held THEN now ELSE paused_at
    /\ muddled' = (muddled \/ paused_at # Unset \/ ~cmd[c].held)
    /\ UNCHANGED <<now, start_time, seek_offset, process, audio>>

AskResume(c) ==
    /\ cmd[c] = Idle /\ ffmpeg # "none"
    /\ cmd' = [cmd EXCEPT ![c] = [at |-> "resuming", read |-> paused_at, held |-> TRUE]]
    /\ UNCHANGED <<now, fields, process, paused, audio, muddled>>

ResumeBackwards(c) ==   \* faulty: the operands of the difference are swapped
    /\ cmd[c].at = "resuming"
    /\ cmd' = [cmd EXCEPT ![c] = Idle]
    /\ paused' = FALSE
    /\ IF cmd[c].read # Unset /\ cmd[c].held
       THEN start_time' = start_time + (cmd[c].read - now) /\ paused_at' = Unset
       ELSE UNCHANGED <<start_time, paused_at>>
    /\ muddled' = (muddled \/ paused_at # cmd[c].read \/ ~cmd[c].held)
    /\ UNCHANGED <<now, seek_offset, process, audio>>

Resume(c) ==
    /\ cmd[c].at = "resuming"
    /\ cmd' = [cmd EXCEPT ![c] = Idle]
    /\ paused' = FALSE
    /\ IF cmd[c].read # Unset /\ cmd[c].held
       THEN start_time' = start_time + (now - cmd[c].read) /\ paused_at' = Unset
       ELSE UNCHANGED <<start_time, paused_at>>
    /\ muddled' = (muddled \/ paused_at # cmd[c].read \/ ~cmd[c].held)
    /\ UNCHANGED <<now, seek_offset, process, audio>>
-----------------------------------------------------------------------------
Exit(how) == /\ ffmpeg = "running"
             /\ ffmpeg' = how /\ due' = Heartbeat
             /\ UNCHANGED <<now, fields, seek, paused, audio, cmd, muddled>>

Crash == Exit("dead")
Finish == audio = Length /\ Exit("ended")

\* attempt_recovery: the position to seek to, ...
SeekLate ==   \* faulty: the delay of the heartbeat is added once more
    /\ ffmpeg = "dead"
    /\ seek' = Position + (Heartbeat - due)
    /\ ffmpeg' = "respawning" /\ due' = 0
    /\ UNCHANGED <<now, fields, paused, audio, cmd, muddled>>

SeekPosition ==
    /\ ffmpeg = "dead"
    /\ seek' = Position
    /\ ffmpeg' = "respawning" /\ due' = 0
    /\ UNCHANGED <<now, fields, paused, audio, cmd, muddled>>

\* (FFmpeg starts at the beginning for a position before it, and ends at once for
\* one beyond the end)
Reached == CASE seek < 0 -> 0 [] seek \in 0..Length -> seek [] OTHER -> Length

\* ... and the entry, when pytgcalls plays the new process.
SwapKeepingPause ==   \* faulty: paused_at is not reset
    /\ ffmpeg = "respawning"
    /\ start_time' = now /\ seek_offset' = seek /\ seek' = 0
    /\ ffmpeg' = "running" /\ paused' = FALSE /\ muddled' = (seek < 0)
    /\ audio' = Reached
    /\ UNCHANGED <<now, paused_at, due, cmd>>

Swap ==
    /\ ffmpeg = "respawning"
    /\ start_time' = now /\ seek_offset' = seek /\ seek' = 0 /\ paused_at' = Unset
    /\ ffmpeg' = "running" /\ paused' = FALSE /\ muddled' = (seek < 0)
    /\ audio' = Reached
    /\ UNCHANGED <<now, due, cmd>>

\* The monitor looks every Heartbeat; FFmpeg exits at the end of its input.
Tick ==
    /\ now < MaxTime
    /\ ffmpeg \in {"dead", "ended"} => due > 0
    /\ ffmpeg = "running" => paused \/ audio < Length
    /\ now' = now + 1
    /\ audio' = IF ffmpeg = "running" /\ ~paused THEN audio + 1 ELSE audio
    /\ due' = IF due > 0 THEN due - 1 ELSE 0
    /\ UNCHANGED <<fields, ffmpeg, seek, paused, cmd, muddled>>

Next == \/ Tick \/ Start \/ Stop \/ Crash \/ Finish \/ SeekPosition \/ Swap
        \/ \E c \in Cmd : AskPause(c) \/ Pause(c) \/ AskResume(c) \/ Resume(c)

Spec == Init /\ [][Next]_vars
-----------------------------------------------------------------------------
TimesOK ==
    /\ now \in 0..MaxTime /\ due \in 0..Heartbeat /\ audio \in 0..Length
    /\ start_time \in Nat /\ seek_offset \in Int /\ seek \in Int
    /\ paused_at \in 0..MaxTime \cup {Unset}

TasksOK ==
    /\ ffmpeg \in {"none", "running", "dead", "ended", "respawning"}
    /\ paused \in BOOLEAN /\ muddled \in BOOLEAN
    /\ cmd \in [Cmd -> [at : {"idle", "pausing", "resuming"},
                        read : 0..MaxTime \cup {Unset}, held : BOOLEAN]]

TypeOK == TimesOK /\ TasksOK

\* The second that is heard is the computed position, or the end if that is
\* beyond it, through pauses, crashes and seeks; unless a pause was paused again,
\* a resume used a paused_at that had changed or a command of the stream before
\* came late (stream_engine.py:153-160, 242-273, 325-340, recovery.py:143-147).
InStep == ffmpeg = "running" /\ ~muddled
            => audio = IF Position < Length THEN Position ELSE Length

\* A recovery never plays a second twice and skips no more than one heartbeat
\* (recovery.py:73-76, 143-147, watchdog.py:68-93).
SkipsLittle ==
    [][ffmpeg = "respawning" /\ ffmpeg' = "running" /\ ~muddled
         => audio <= audio' /\ audio' <= audio + Heartbeat]_vars

\* While a track whose length is known is heard, the bar of /np is never full:
\* no pause or recovery makes it wider than its cells (nowplaying.py:91-97).
BarFits == ffmpeg = "running" /\ ~muddled /\ audio < Length /\ Duration >= Length
             => Filled \in 0..Width - 1
=============================================================================
