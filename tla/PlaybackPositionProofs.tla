------------------------- MODULE PlaybackPositionProofs -------------------------
(***************************************************************************)
(* For a track of any length, any heartbeat, any number of commands and as *)
(* long as the clock runs: the position the engine computes is the second  *)
(* that is heard, and what follows from it for recoveries and the bar.     *)
(***************************************************************************)
EXTENDS PlaybackPosition, TLAPS

\* No time that was read lies in the future.
ReadInThePast == paused_at <= now /\ \A c \in Cmd : cmd[c].read <= now

\* The voice chat is paused when the entry says so.
PauseRecorded == ffmpeg = "running" /\ ~muddled => (paused <=> paused_at # Unset)

\* x, to which a recovery is to seek, is what comes after the audio that was
\* heard, and no more than the delay s after it, or at the end.
Follows(x, s) == audio <= x /\ (x <= audio + s \/ audio = Length)

DeadInStep == ffmpeg = "dead" /\ ~muddled => Follows(Position, Heartbeat - due)
SeekInStep == ffmpeg = "respawning" /\ ~muddled => Follows(seek, Heartbeat)

IInv == TypeOK /\ ReadInThePast /\ PauseRecorded /\ InStep /\ DeadInStep /\ SeekInStep

\* The types, with the numbers spelled out for the arithmetic.
LEMMA Numbers ==
    ASSUME TypeOK
    PROVE  /\ now \in Int /\ due \in Int /\ start_time \in Int /\ seek_offset \in Int
           /\ seek \in Int /\ audio \in Int /\ paused_at \in Int
           /\ Length \in Int /\ Heartbeat \in Int /\ MaxTime \in Int /\ Length > 0 /\ Heartbeat > 0
           /\ Position \in Int
           /\ \A c \in Cmd : cmd[c].read \in Int
    BY PositionAssumption DEF TypeOK, TimesOK, TasksOK, Position, Unset

\* Nothing is heard at the start.
LEMMA InitIInv == Init => IInv
<1> SUFFICES ASSUME Init PROVE IInv
    OBVIOUS
<1>1. TimesOK
    BY PositionAssumption DEF Init, TimesOK
<1>2. TasksOK
    BY DEF Init, TasksOK, Idle
<1>3. ReadInThePast
    BY DEF Init, ReadInThePast, Idle, Unset
<1>4. ffmpeg = "none"
    BY DEF Init
<1> QED
    BY <1>1, <1>2, <1>3, <1>4 DEF IInv, TypeOK, PauseRecorded, InStep, DeadInStep, SeekInStep

\* Each action keeps the types and reads no time from the future.
LEMMA TypesKept ==
    ASSUME TypeOK, ReadInThePast, [Next]_vars
    PROVE  TypeOK' /\ ReadInThePast'
<1>0. /\ now \in Int /\ due \in Int /\ start_time \in Int /\ seek_offset \in Int
      /\ seek \in Int /\ audio \in Int /\ paused_at \in Int
      /\ Length \in Int /\ Heartbeat \in Int /\ MaxTime \in Int /\ Length > 0 /\ Heartbeat > 0
      /\ Position \in Int
      /\ \A c \in Cmd : cmd[c].read \in Int
    BY Numbers
<1>1. CASE Tick
  <2>1. TimesOK'
    BY <1>0, <1>1 DEF TypeOK, TimesOK, TasksOK, ReadInThePast, Tick, fields
  <2>2. TasksOK'
    BY <1>0, <1>1 DEF TypeOK, TimesOK, TasksOK, Idle, Tick, fields
  <2>3. ReadInThePast'
    BY <1>0, <1>1 DEF TypeOK, TimesOK, TasksOK, ReadInThePast, Idle, Unset, Tick, fields
  <2> QED
    BY <2>1, <2>2, <2>3 DEF TypeOK
<1>2. CASE Start
  <2>1. TimesOK'
    BY <1>0, <1>2 DEF TypeOK, TimesOK, TasksOK, ReadInThePast, Start
  <2>2. TasksOK'
    BY <1>0, <1>2 DEF TypeOK, TimesOK, TasksOK, Idle, Start
  <2>3. ReadInThePast'
    BY <1>0, <1>2 DEF TypeOK, TimesOK, TasksOK, ReadInThePast, Idle, Unset, Start
  <2> QED
    BY <2>1, <2>2, <2>3 DEF TypeOK
<1>3. CASE Stop
  <2>1. TimesOK'
    BY <1>0, <1>3 DEF TypeOK, TimesOK, TasksOK, ReadInThePast, Stop
  <2>2. TasksOK'
    BY <1>0, <1>3 DEF TypeOK, TimesOK, TasksOK, Idle, Stop
  <2>3. ReadInThePast'
    BY <1>0, <1>3 DEF TypeOK, TimesOK, TasksOK, ReadInThePast, Idle, Unset, Stop
  <2> QED
    BY <2>1, <2>2, <2>3 DEF TypeOK
<1>4. CASE Crash
  <2>1. TimesOK'
    BY <1>0, <1>4 DEF TypeOK, TimesOK, TasksOK, ReadInThePast, Crash, Exit, fields
  <2>2. TasksOK'
    BY <1>0, <1>4 DEF TypeOK, TimesOK, TasksOK, Idle, Crash, Exit, fields
  <2>3. ReadInThePast'
    BY <1>0, <1>4 DEF TypeOK, TimesOK, TasksOK, ReadInThePast, Idle, Unset, Crash, Exit, fields
  <2> QED
    BY <2>1, <2>2, <2>3 DEF TypeOK
<1>5. CASE Finish
  <2>1. TimesOK'
    BY <1>0, <1>5 DEF TypeOK, TimesOK, TasksOK, ReadInThePast, Finish, Exit, fields
  <2>2. TasksOK'
    BY <1>0, <1>5 DEF TypeOK, TimesOK, TasksOK, Idle, Finish, Exit, fields
  <2>3. ReadInThePast'
    BY <1>0, <1>5 DEF TypeOK, TimesOK, TasksOK, ReadInThePast, Idle, Unset, Finish, Exit, fields
  <2> QED
    BY <2>1, <2>2, <2>3 DEF TypeOK
<1>6. CASE SeekPosition
  <2>1. TimesOK'
    BY <1>0, <1>6 DEF TypeOK, TimesOK, TasksOK, ReadInThePast, SeekPosition, fields
  <2>2. TasksOK'
    BY <1>0, <1>6 DEF TypeOK, TimesOK, TasksOK, Idle, SeekPosition, fields
  <2>3. ReadInThePast'
    BY <1>0, <1>6 DEF TypeOK, TimesOK, TasksOK, ReadInThePast, Idle, Unset, SeekPosition, fields
  <2> QED
    BY <2>1, <2>2, <2>3 DEF TypeOK
<1>7. CASE Swap
  <2>1. TimesOK'
    BY <1>0, <1>7 DEF TypeOK, TimesOK, TasksOK, ReadInThePast, Swap, Reached
  <2>2. TasksOK'
    <3>1. muddled' \in BOOLEAN
      BY <1>7 DEF Swap
    <3> QED
      BY <3>1, <1>7 DEF TypeOK, TasksOK, Swap
  <2>3. ReadInThePast'
    BY <1>0, <1>7 DEF TypeOK, TimesOK, TasksOK, ReadInThePast, Idle, Unset, Swap, Reached
  <2> QED
    BY <2>1, <2>2, <2>3 DEF TypeOK
<1>8. ASSUME NEW c \in Cmd, AskPause(c) PROVE TypeOK' /\ ReadInThePast'
  <2>1. TimesOK'
    BY <1>0, <1>8 DEF TypeOK, TimesOK, TasksOK, ReadInThePast, AskPause, fields, process
  <2>2. TasksOK'
    BY <1>0, <1>8 DEF TypeOK, TimesOK, TasksOK, Idle, AskPause, fields, process
  <2>3. ReadInThePast'
    BY <1>0, <1>8 DEF TypeOK, TimesOK, TasksOK, ReadInThePast, Idle, Unset, AskPause, fields, process
  <2> QED
    BY <2>1, <2>2, <2>3 DEF TypeOK
<1>9. ASSUME NEW c \in Cmd, Pause(c) PROVE TypeOK' /\ ReadInThePast'
  <2>1. TimesOK'
    BY <1>0, <1>9 DEF TypeOK, TimesOK, TasksOK, ReadInThePast, Pause, process
  <2>2. TasksOK'
    BY <1>0, <1>9 DEF TypeOK, TimesOK, TasksOK, Idle, Pause, process
  <2>3. ReadInThePast'
    BY <1>0, <1>9 DEF TypeOK, TimesOK, TasksOK, ReadInThePast, Idle, Unset, Pause, process
  <2> QED
    BY <2>1, <2>2, <2>3 DEF TypeOK
<1>10. ASSUME NEW c \in Cmd, AskResume(c) PROVE TypeOK' /\ ReadInThePast'
  <2>1. TimesOK'
    BY <1>0, <1>10 DEF TypeOK, TimesOK, TasksOK, ReadInThePast, AskResume, fields, process
  <2>2. TasksOK'
    BY <1>0, <1>10 DEF TypeOK, TimesOK, TasksOK, Idle, AskResume, fields, process
  <2>3. ReadInThePast'
    BY <1>0, <1>10 DEF TypeOK, TimesOK, TasksOK, ReadInThePast, Idle, Unset, AskResume, fields, process
  <2> QED
    BY <2>1, <2>2, <2>3 DEF TypeOK
<1>11. ASSUME NEW c \in Cmd, Resume(c) PROVE TypeOK' /\ ReadInThePast'
  <2>1. TimesOK'
    BY <1>0, <1>11 DEF TypeOK, TimesOK, TasksOK, ReadInThePast, Resume, process
  <2>2. TasksOK'
    BY <1>0, <1>11 DEF TypeOK, TimesOK, TasksOK, Idle, Resume, process
  <2>3. ReadInThePast'
    BY <1>0, <1>11 DEF TypeOK, TimesOK, TasksOK, ReadInThePast, Idle, Unset, Resume, process
  <2> QED
    BY <2>1, <2>2, <2>3 DEF TypeOK
<1>12. CASE UNCHANGED vars
  <2>1. TimesOK'
    BY <1>0, <1>12 DEF TypeOK, TimesOK, TasksOK, ReadInThePast, vars, fields, process
  <2>2. TasksOK'
    BY <1>0, <1>12 DEF TypeOK, TimesOK, TasksOK, Idle, vars, fields, process
  <2>3. ReadInThePast'
    BY <1>0, <1>12 DEF TypeOK, TimesOK, TasksOK, ReadInThePast, Idle, Unset, vars, fields, process
  <2> QED
    BY <2>1, <2>2, <2>3 DEF TypeOK
<1> QED
    BY <1>1, <1>2, <1>3, <1>4, <1>5, <1>6, <1>7, <1>8, <1>9, <1>10, <1>11, <1>12 DEF Next

-----------------------------------------------------------------------------
\* What the actions do to the position.

\* A pause that is recorded does not move it.
LEMMA PauseStands ==
    ASSUME TypeOK, NEW c \in Cmd, Pause(c), ~muddled'
    PROVE  Position' = Position /\ paused' /\ paused_at' # Unset /\ ~muddled
<1>0. /\ now \in Int /\ now >= 0 /\ start_time \in Int /\ seek_offset \in Int /\ paused_at \in Int
    BY DEF TypeOK, TimesOK, Unset
<1>1. paused_at = Unset /\ cmd[c].held /\ ~muddled
    BY DEF Pause, TypeOK, TasksOK
<1> QED
    BY <1>0, <1>1 DEF Pause, Position, Unset

\* A resume that shifts the start by the pause it read does not either.
LEMMA ResumeStands ==
    ASSUME TypeOK, NEW c \in Cmd, Resume(c), ~muddled'
    PROVE  Position' = Position /\ ~paused' /\ paused_at' = Unset /\ ~muddled
<1>0. /\ now \in Int /\ now >= 0 /\ start_time \in Int /\ seek_offset \in Int /\ paused_at \in Int
    BY DEF TypeOK, TimesOK, Unset
<1>1. paused_at = cmd[c].read /\ cmd[c].held /\ ~muddled
    BY DEF Resume, TypeOK, TasksOK
<1> QED
    BY <1>0, <1>1 DEF Resume, Position, Unset

\* A second takes it on by one, unless the entry is paused.
LEMMA TickMoves ==
    ASSUME TypeOK, Tick
    PROVE  Position' = IF paused_at # Unset THEN Position ELSE Position + 1
<1>0. /\ now \in Int /\ start_time \in Int /\ seek_offset \in Int /\ paused_at \in Int
    BY DEF TypeOK, TimesOK, Unset
<1> QED
    BY <1>0 DEF Tick, Position, fields
-----------------------------------------------------------------------------
\* Each action keeps the position in step.
LEMMA StepKept ==
    ASSUME IInv, [Next]_vars
    PROVE  (PauseRecorded /\ InStep /\ DeadInStep /\ SeekInStep)'
<1> DEFINE Good == PauseRecorded /\ InStep /\ DeadInStep /\ SeekInStep
<1>0. /\ now \in Int /\ due \in Int /\ start_time \in Int /\ seek_offset \in Int
      /\ seek \in Int /\ audio \in Int /\ paused_at \in Int
      /\ Length \in Int /\ Heartbeat \in Int /\ MaxTime \in Int /\ Length > 0 /\ Heartbeat > 0
      /\ Position \in Int
    BY Numbers DEF IInv
<1>t. TypeOK /\ TimesOK /\ TasksOK /\ 0 <= audio /\ audio <= Length /\ 0 <= due /\ 0 <= now
    BY <1>0 DEF IInv, TypeOK, TimesOK
<1>1. CASE Tick
  <2>0. Position' = IF paused_at # Unset THEN Position ELSE Position + 1
    BY <1>1, <1>t, TickMoves
  <2>1. PauseRecorded'
    BY <1>1 DEF IInv, PauseRecorded, Tick, fields
  <2>2. InStep'
    BY <1>1, <1>0, <1>t, <2>0 DEF IInv, InStep, PauseRecorded, Tick, fields
  <2>3. DeadInStep'
    BY <1>1, <1>0, <1>t, <2>0 DEF IInv, DeadInStep, Follows, Tick, fields
  <2>4. SeekInStep'
    BY <1>1, <1>0, <1>t DEF IInv, SeekInStep, Follows, Tick
  <2> QED
    BY <2>1, <2>2, <2>3, <2>4
<1>2. CASE Start
  <2>1. ffmpeg' = "running" /\ ~paused' /\ paused_at' = Unset
    BY <1>2 DEF Start
  <2>2. Position' = 0
    BY <1>2, <1>0 DEF Start, Position
  <2> QED
    BY <1>2, <1>0, <2>1, <2>2 DEF Start, PauseRecorded, InStep, DeadInStep, SeekInStep
<1>3. CASE Stop
    BY <1>3 DEF Stop, PauseRecorded, InStep, DeadInStep, SeekInStep
<1>4. CASE Crash
  <2>1. Position' = Position
    BY <1>4 DEF Crash, Exit, fields, Position
  <2> QED
    BY <1>4, <1>0, <1>t, <2>1
    DEF IInv, Crash, Exit, InStep, PauseRecorded, DeadInStep, SeekInStep, Follows
<1>5. CASE Finish
    BY <1>5 DEF Finish, Exit, PauseRecorded, InStep, DeadInStep, SeekInStep
<1>6. CASE SeekPosition
    BY <1>6, <1>0, <1>t
    DEF IInv, SeekPosition, PauseRecorded, InStep, DeadInStep, SeekInStep, Follows
<1>7. CASE Swap
  <2>1. Position' = seek /\ ffmpeg' = "running" /\ ~paused' /\ paused_at' = Unset
    BY <1>7, <1>0 DEF Swap, Position
  <2>2. ~muddled' => seek >= 0
    <3>1. muddled' = (seek < 0)
      BY <1>7 DEF Swap
    <3>2. CASE seek < 0
      BY <3>1, <3>2
    <3>3. CASE ~ (seek < 0)
      BY <3>3, <1>0
    <3> QED
      BY <3>2, <3>3
  <2> QED
    BY <1>7, <1>0, <2>1, <2>2
    DEF Swap, Reached, PauseRecorded, InStep, DeadInStep, SeekInStep
<1>8. ASSUME NEW c \in Cmd, AskPause(c) PROVE Good'
  <2>1. Position' = Position
    BY <1>8 DEF AskPause, fields, Position
  <2> QED
    BY <1>8, <2>1
    DEF IInv, AskPause, fields, process, PauseRecorded, InStep, DeadInStep, SeekInStep, Follows
<1>9. ASSUME NEW c \in Cmd, Pause(c) PROVE Good'
  <2>1. CASE ~muddled'
    BY <1>9, <1>t, <2>1, PauseStands
    DEF IInv, Pause, process, PauseRecorded, InStep, DeadInStep, SeekInStep, Follows
  <2> QED
    BY <2>1 DEF PauseRecorded, InStep, DeadInStep, SeekInStep
<1>10. ASSUME NEW c \in Cmd, AskResume(c) PROVE Good'
  <2>1. Position' = Position
    BY <1>10 DEF AskResume, fields, Position
  <2> QED
    BY <1>10, <2>1
    DEF IInv, AskResume, fields, process, PauseRecorded, InStep, DeadInStep, SeekInStep, Follows
<1>11. ASSUME NEW c \in Cmd, Resume(c) PROVE Good'
  <2>1. CASE ~muddled'
    BY <1>11, <1>t, <2>1, ResumeStands
    DEF IInv, Resume, process, PauseRecorded, InStep, DeadInStep, SeekInStep, Follows
  <2> QED
    BY <2>1 DEF PauseRecorded, InStep, DeadInStep, SeekInStep
<1>12. CASE UNCHANGED vars
  <2>1. Position' = Position
    BY <1>12 DEF vars, fields, Position
  <2> QED
    BY <1>12, <2>1
    DEF IInv, vars, fields, process, PauseRecorded, InStep, DeadInStep, SeekInStep, Follows
<1> QED
    BY <1>1, <1>2, <1>3, <1>4, <1>5, <1>6, <1>7, <1>8, <1>9, <1>10, <1>11, <1>12 DEF Next
-----------------------------------------------------------------------------
\* The inductive invariant.
THEOREM PositionInvariant == Spec => []IInv
<1>1. Init => IInv
    BY InitIInv
<1>2. IInv /\ [Next]_vars => IInv'
    BY TypesKept, StepKept DEF IInv
<1> QED
    BY <1>1, <1>2, PTL DEF Spec

\* Every field keeps its type: no pause or resume puts a time into the future or
\* moves the start before the beginning (stream_engine.py:242-273).
THEOREM PositionTypeCorrect == Spec => []TypeOK
<1>1. IInv => TypeOK
    BY DEF IInv
<1> QED
    BY <1>1, PositionInvariant, PTL

\* The computed position is the second that is heard, for a track of any length
\* (stream_engine.py:325-340).
THEOREM PositionIsHeard == Spec => []InStep
<1>1. IInv => InStep
    BY DEF IInv
<1> QED
    BY <1>1, PositionInvariant, PTL

\* A recovery repeats nothing and skips at most what the heartbeat waited
\* (recovery.py:73-76, 143-147).
THEOREM RecoveriesSkipLittle == Spec => SkipsLittle
<1> DEFINE Skip == ffmpeg = "respawning" /\ ffmpeg' = "running" /\ ~muddled
                     => audio <= audio' /\ audio' <= audio + Heartbeat
<1>1. IInv /\ [Next]_vars => [Skip]_vars
  <2> SUFFICES ASSUME IInv, Next, ffmpeg = "respawning", ffmpeg' = "running", ~muddled
               PROVE  audio <= audio' /\ audio' <= audio + Heartbeat
      BY DEF Skip
  <2>1. /\ seek \in Int /\ audio \in Int /\ Length \in Int /\ Heartbeat \in Int /\ Heartbeat > 0
        /\ 0 <= audio /\ audio <= Length
      BY Numbers DEF IInv, TypeOK, TimesOK
  <2>2. Follows(seek, Heartbeat)
      BY DEF IInv, SeekInStep
  <2>3. CASE Swap
      BY <2>1, <2>2, <2>3 DEF Swap, Reached, Follows
  <2>4. audio' = audio \/ Swap
      BY DEF Next, Tick, Start, Stop, Crash, Finish, Exit, SeekPosition,
             AskPause, Pause, AskResume, Resume
  <2> QED
      BY <2>1, <2>3, <2>4
<1> QED
    BY <1>1, PositionInvariant, PTL DEF Spec, SkipsLittle

\* A proportion of less than one fills fewer cells than there are.
LEMMA Proportion ==
    ASSUME NEW x \in Nat, NEW d \in Nat \ {0}, NEW w \in Nat \ {0}, x < d
    PROVE  (x * w) \div d \in 0..w - 1
<1> DEFINE q == (x * w) \div d
<1>1. x * w \in Nat /\ x * w < d * w
    BY Z3
<1>2. q \in Int /\ d * q <= x * w /\ x * w < d * (q + 1)
    BY <1>1
<1> HIDE DEF q
<1>3. d * q < d * w
    BY <1>1, <1>2
<1>4. q < w
    BY <1>2, <1>3, Z3
<1>5. q >= 0
    BY <1>1, <1>2, Z3
<1> QED
    BY <1>2, <1>4, <1>5 DEF q

\* The bar of /np has empty cells as long as a track of known length is heard
\* (nowplaying.py:91-97).
THEOREM BarAlwaysFits == Spec => []BarFits
<1>1. IInv => BarFits
  <2> SUFFICES ASSUME IInv, ffmpeg = "running", ~muddled, audio < Length, Duration >= Length
               PROVE  Filled \in 0..Width - 1
      BY DEF BarFits
  <2>1. /\ Position = audio /\ audio \in Nat
        /\ Duration \in Nat \ {0} /\ Width \in Nat \ {0} /\ audio < Duration
      BY Numbers, PositionAssumption DEF IInv, InStep, TypeOK, TimesOK
  <2> QED
      BY <2>1, Proportion DEF Filled
<1> QED
    BY <1>1, PositionInvariant, PTL
=============================================================================
