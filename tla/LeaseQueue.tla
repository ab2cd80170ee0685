------------------------------ MODULE LeaseQueue ------------------------------
(***************************************************************************)
(* What the per-group track queue promises, without saying how: accepted   *)
(* tracks wait in the order they were accepted; a track handed to a        *)
(* consumer is leased to it until it is settled; a returned track is       *)
(* handed out again before any track that was never handed out.            *)
(* QueueManager.tla is shown to implement this module.                     *)
(***************************************************************************)
EXTENDS Sequences, SequencesExt

CONSTANT Track

VARIABLES waiting,    \* accepted and never handed out, oldest first
          returned,   \* handed out and given back, the latest first
          leased,     \* handed out and not settled
          finished    \* acknowledged, or thrown away by a clear

lqVars == <<waiting, returned, leased, finished>>

Known == ToSet(waiting) \cup ToSet(returned) \cup leased \cup finished

LQInit == waiting = <<>> /\ returned = <<>> /\ leased = {} /\ finished = {}

\* A new track is accepted behind every track that waits.
Accept(t) ==
  /\ t \notin Known
  /\ waiting' = Append(waiting, t)
  /\ UNCHANGED <<returned, leased, finished>>

\* The latest returned track is handed out first.
LeaseReturned ==
  /\ returned # <<>>
  /\ leased' = leased \cup {Head(returned)}
  /\ returned' = Tail(returned)
  /\ UNCHANGED <<waiting, finished>>

\* With nothing returned, the oldest waiting track is handed out.
LeaseWaiting ==
  /\ returned = <<>>
  /\ waiting # <<>>
  /\ leased' = leased \cup {Head(waiting)}
  /\ waiting' = Tail(waiting)
  /\ UNCHANGED <<returned, finished>>

Finish(t) ==
  /\ t \in leased
  /\ leased' = leased \ {t}
  /\ finished' = finished \cup {t}
  /\ UNCHANGED <<waiting, returned>>

GiveBack(t) ==
  /\ t \in leased
  /\ leased' = leased \ {t}
  /\ returned' = <<t>> \o returned
  /\ UNCHANGED <<waiting, finished>>

DropAll ==
  /\ waiting' = <<>> /\ returned' = <<>> /\ leased' = {}
  /\ finished' = Known

LQNext ==
  \/ \E t \in Track : Accept(t) \/ Finish(t) \/ GiveBack(t)
  \/ LeaseReturned
  \/ LeaseWaiting
  \/ DropAll

LQSpec == LQInit /\ [][LQNext]_lqVars
===============================================================================
