----------------------------- MODULE QueueManager -----------------------------
(***************************************************************************)
(* The Redis track queue of one group: ConcreteQueueManager and the Lua    *)
(* scripts it runs.  Every key it touches holds the group id               *)
(* (state/keys.py), so groups share nothing and one group is modelled.     *)
(*                                                                         *)
(* A Lua script is one atomic step of Redis.  enqueue, dequeue and clear   *)
(* are one script each.  ack and nack are two round trips: an LRANGE of    *)
(* the shadow list finds the serialized track, and a script then removes   *)
(* those bytes; other clients run in between.                              *)
(***************************************************************************)
EXTENDS Integers, QueueScripts

CONSTANTS Track,          \* tracks; Track.create gives each a fresh uuid4
          Client,         \* tasks that may be inside ack or nack
          NoCall,         \* value of call[c] outside ack and nack
          MaxQueue,       \* max_size of the enqueue script, 100 in the code
          MaxDeliveries   \* bound: a track delivered this often is not nacked

VARIABLE  call        \* per client: what its LRANGE found, or NoCall

\* History variables: read by the properties, never by an action's guard
\* except for the freshness of a track and the bound on deliveries.
VARIABLES ticket,     \* order in which tracks were accepted, 0: not accepted
          issued,     \* number of tracks accepted
          refused,    \* tracks whose enqueue raised ValueError
          deliveries, \* how often the track was dequeued
          acked,      \* tracks removed by an ack
          cleared     \* tracks removed by a clear

history == <<ticket, issued, refused, deliveries, acked, cleared>>
vars    == <<queue, shadow, call, history>>

Call == [op : {"ack", "nack"}, track : Track]

ASSUME MaxQueueAssumption == MaxQueue \in Nat \ {0}
ASSUME NoCallAssumption == NoCall \notin Call

Accepted  == {t \in Track : ticket[t] > 0}
Delivered == {t \in Track : deliveries[t] > 0}

Init ==
  /\ queue = <<>> /\ shadow = <<>>
  /\ call = [c \in Client |-> NoCall]
  /\ ticket = [t \in Track |-> 0] /\ issued = 0
  /\ deliveries = [t \in Track |-> 0]
  /\ refused = {} /\ acked = {} /\ cleared = {}
-------------------------------------------------------------------------------
(* enqueue: ValueError when the list is full, one fresh track per call. *)

IsNew(t) == t \notin Accepted \cup refused

\* Faulty variant: the limit is off by one.
EnqueueOneMore(t) ==
  /\ IsNew(t)
  /\ Len(queue) <= MaxQueue
  /\ EnqueueScript(t)
  /\ issued' = issued + 1
  /\ ticket' = [ticket EXCEPT ![t] = issued + 1]
  /\ UNCHANGED <<call, refused, deliveries, acked, cleared>>

Enqueue(t) ==
  /\ IsNew(t)
  /\ Len(queue) < MaxQueue
  /\ EnqueueScript(t)
  /\ issued' = issued + 1
  /\ ticket' = [ticket EXCEPT ![t] = issued + 1]
  /\ UNCHANGED <<call, refused, deliveries, acked, cleared>>

RefuseEnqueue(t) ==
  /\ IsNew(t)
  /\ Len(queue) >= MaxQueue
  /\ refused' = refused \cup {t}
  /\ UNCHANGED <<lists, call, ticket, issued, deliveries, acked, cleared>>

\* dequeue on an empty list returns None and changes nothing.
Dequeue ==
  /\ queue # <<>>
  /\ DequeueScript
  /\ deliveries' = [deliveries EXCEPT ![Head(queue)] = @ + 1]
  /\ UNCHANGED <<call, ticket, issued, refused, acked, cleared>>

Clear ==
  /\ ClearScript
  /\ cleared' = cleared \cup ToSet(queue) \cup ToSet(shadow)
  /\ UNCHANGED <<call, ticket, issued, refused, deliveries, acked>>

\* First half of ack and nack: the LRANGE; not found returns False at once.
LookUp(c, op, t) ==
  /\ call[c] = NoCall
  /\ t \in ToSet(shadow)
  /\ op = "nack" => deliveries[t] < MaxDeliveries
  /\ call' = [call EXCEPT ![c] = [op |-> op, track |-> t]]
  /\ UNCHANGED <<lists, history>>

\* Second half of ack; it returns False when another client was faster.
Ack(c) ==
  /\ call[c] # NoCall
  /\ call[c].op = "ack"
  /\ AckScript(call[c].track)
  /\ acked' = acked \cup ({call[c].track} \cap ToSet(shadow))
  /\ call' = [call EXCEPT ![c] = NoCall]
  /\ UNCHANGED <<ticket, issued, refused, deliveries, cleared>>

\* Second half of nack.
Nack(c) ==
  /\ call[c] # NoCall
  /\ call[c].op = "nack"
  /\ NackScript(call[c].track)
  /\ call' = [call EXCEPT ![c] = NoCall]
  /\ UNCHANGED history

\* The task is cancelled, or Redis fails, between the two round trips.
Abort(c) ==
  /\ call[c] # NoCall
  /\ call' = [call EXCEPT ![c] = NoCall]
  /\ UNCHANGED <<lists, history>>

Next ==
  \/ \E t \in Track : Enqueue(t) \/ RefuseEnqueue(t)
  \/ Dequeue
  \/ Clear
  \/ \E c \in Client :
       \/ \E op \in {"ack", "nack"}, t \in Track : LookUp(c, op, t)
       \/ Ack(c)
       \/ Nack(c)
       \/ Abort(c)

Spec == Init /\ [][Next]_vars
-------------------------------------------------------------------------------
(* Every variable stays in its range: the two lists hold tracks, a client  *)
(* in ack or nack remembers a track, counters are naturals.                *)
TypeOK ==
  /\ queue \in Seq(Track) /\ shadow \in Seq(Track)
  /\ call \in [Client -> Call \cup {NoCall}]
  /\ ticket \in [Track -> Nat] /\ issued \in Nat
  /\ deliveries \in [Track -> Nat]
  /\ refused \subseteq Track /\ acked \subseteq Track /\ cleared \subseteq Track

(* No accepted track is ever lost or doubled, whatever the two-step acks   *)
(* and nacks of several clients do to each other: it is in exactly one of  *)
(* the queue, the shadow list, the acked and the cleared tracks, and no    *)
(* list holds it twice (queue_manager.py ack/nack, clear; NACK_SCRIPT's    *)
(* test of the LREM count).                                                *)
NoListTwice == IsInjective(queue) /\ IsInjective(shadow)
Apart ==
  /\ ToSet(queue) \cap ToSet(shadow) = {}
  /\ (ToSet(queue) \cup ToSet(shadow)) \cap (acked \cup cleared) = {}
  /\ acked \cap cleared = {}
NothingLost == Accepted = ToSet(queue) \cup ToSet(shadow) \cup acked \cup cleared
Conservation == NoListTwice /\ Apart /\ NothingLost

(* Tracks are first handed out in the order in which they were accepted:   *)
(* once a track was dequeued, every track accepted before it was dequeued  *)
(* or thrown away by a clear, even with nacked tracks pushed to the head.  *)
NoOvertaking ==
  \A t \in Delivered : \A s \in Accepted :
    ticket[s] < ticket[t] => s \in Delivered \cup cleared

(* Why NoOvertaking holds.  The list is the returned tracks followed by    *)
(* the never delivered ones in the order of their tickets; what left it    *)
(* without a clear was delivered.                                          *)
Order ==
  /\ \A t \in Track : ticket[t] <= issued
  /\ ToSet(shadow) \cup acked \subseteq Delivered
  /\ Delivered \subseteq Accepted
  /\ \A i, j \in DOMAIN queue :
       i < j => \/ queue[i] \in Delivered
                \/ /\ queue[j] \notin Delivered
                   /\ ticket[queue[i]] < ticket[queue[j]]

(* The script refuses new tracks by the length of the whole list, so the   *)
(* never delivered tracks in it never exceed the limit, although nacks may *)
(* push the list itself over it.                                           *)
AdmissionBound == Cardinality(ToSet(queue) \ Delivered) <= MaxQueue

IInv == TypeOK /\ Conservation /\ Order /\ NoOvertaking /\ AdmissionBound

(* The two lists implement the abstract queue of leases.  The returned     *)
(* tracks lead the list (Order), so their number says where it splits.     *)
ReturnedLen == Cardinality({i \in DOMAIN queue : queue[i] \in Delivered})
Returned    == SubSeq(queue, 1, ReturnedLen)
Waiting     == SubSeq(queue, ReturnedLen + 1, Len(queue))

Lease == INSTANCE LeaseQueue WITH
  waiting <- Waiting, returned <- Returned,
  leased <- ToSet(shadow), finished <- acked \cup cleared

ImplementsLeaseQueue == Lease!LQSpec
===============================================================================
