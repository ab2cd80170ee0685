-------------------------- MODULE QueueManagerProofs --------------------------
(***************************************************************************)
(* Proofs about QueueManager for every set of tracks and clients and every *)
(* limit: the types, the conservation of tracks, the order in which tracks *)
(* are first handed out, and that the two lists implement LeaseQueue: each *)
(* of their steps is a step of the abstract queue, or changes nothing it   *)
(* sees.                                                                   *)
(***************************************************************************)
EXTENDS QueueManager, ListLemmas, WellFoundedInduction

(* LREM of an absent element changes nothing. *)
LEMMA RemoveAbsent ==
  ASSUME NEW S, NEW s \in Seq(S), NEW e, e \notin ToSet(s)
  PROVE  LREM(s, e) = s
BY DEF LREM

(* LREM takes a listed element out of a list without duplicates, and       *)
(* nothing else.                                                           *)
LEMMA RemoveListed ==
  ASSUME NEW S, NEW s \in Seq(S), NEW e \in ToSet(s), IsInjective(s)
  PROVE  /\ LREM(s, e) \in Seq(S)
         /\ IsInjective(LREM(s, e))
         /\ ToSet(LREM(s, e)) = ToSet(s) \ {e}
<1>1. PICK k \in DOMAIN s : s[k] = e
  BY DEF ToSet
<1>2. {i \in DOMAIN s : s[i] = e} = {k} /\ k \in Int
  BY <1>1, LenProperties DEF IsInjective
<1>3. Min({k}) = k
  BY <1>2 DEF Min
<1>4. LREM(s, e) = RemoveAt(s, k)
  BY <1>2, <1>3 DEF LREM
<1> QED
  BY <1>1, <1>4, RemoveAtLemma
-------------------------------------------------------------------------------
(* The initial state has all the parts of the invariant. *)
LEMMA InitIInv == Init => IInv
<1> SUFFICES ASSUME Init PROVE IInv
  OBVIOUS
<1>1. ToSet(<<>>) = {} /\ DOMAIN <<>> = {}
  BY DEF ToSet
<1>2. TypeOK
  BY DEF Init, TypeOK
<1>3. Conservation
  BY <1>1 DEF Init, Conservation, NoListTwice, Apart, NothingLost, Accepted, IsInjective
<1>4. Delivered = {} /\ Accepted = {}
  BY DEF Init, Delivered, Accepted
<1>5. Order
  BY <1>1, <1>4 DEF Init, Order
<1>6. NoOvertaking
  BY <1>4 DEF NoOvertaking
<1>7. AdmissionBound
  <2>1. ToSet(queue) \ Delivered = {}
    BY <1>1 DEF Init
  <2> QED  BY <2>1, MaxQueueAssumption, FS_EmptySet DEF AdmissionBound
<1> QED
  BY <1>2, <1>3, <1>5, <1>6, <1>7 DEF IInv
-------------------------------------------------------------------------------
(* enqueue keeps the invariant: the new track goes behind all others.      *)
LEMMA EnqueueStep ==
  ASSUME IInv, NEW t \in Track, Enqueue(t)
  PROVE  IInv'
<1> USE DEF IInv
<1>1. /\ queue' = Append(queue, t)
      /\ shadow' = shadow
      /\ ticket' = [ticket EXCEPT ![t] = issued + 1]
      /\ issued' = issued + 1
      /\ UNCHANGED <<call, refused, deliveries, acked, cleared>>
      /\ Len(queue) < MaxQueue
      /\ t \notin Accepted
  BY DEF Enqueue, EnqueueScript, IsNew
<1>2. TypeOK'
  BY <1>1, AppendLemma DEF TypeOK
<1>3. t \notin ToSet(queue) \cup ToSet(shadow) \cup acked \cup cleared
  BY <1>1 DEF Conservation, NothingLost
<1>4. /\ ToSet(queue') = ToSet(queue) \cup {t}
      /\ IsInjective(queue')
  BY <1>1, <1>3, AppendLemma DEF TypeOK, Conservation, NoListTwice
<1>5. Accepted' = Accepted \cup {t} /\ Delivered' = Delivered
  BY <1>1 DEF Accepted, Delivered, TypeOK
<1>6. Conservation'
  BY <1>1, <1>3, <1>4, <1>5 DEF Conservation, NoListTwice, Apart, NothingLost
<1>7. t \notin Delivered
  BY <1>1 DEF Order
<1>8. Order'
  <2>1. \A s \in Track : ticket'[s] <= issued'
    BY <1>1 DEF TypeOK, Order
  <2>2. (ToSet(shadow) \cup acked \subseteq Delivered)' /\ (Delivered \subseteq Accepted)'
    BY <1>1, <1>5 DEF Order
  <2>3. ASSUME NEW i \in DOMAIN queue', NEW j \in DOMAIN queue', i < j,
               queue'[i] \notin Delivered
        PROVE  queue'[j] \notin Delivered /\ ticket'[queue'[i]] < ticket'[queue'[j]]
    <3>1. /\ Len(queue) \in Nat /\ DOMAIN queue = 1 .. Len(queue)
          /\ DOMAIN queue' = 1 .. Len(queue) + 1
          /\ \A k \in 1 .. Len(queue) : queue'[k] = queue[k]
          /\ queue'[Len(queue) + 1] = t
      BY <1>1, AppendProperties, LenProperties DEF TypeOK
    <3>2. i \in DOMAIN queue /\ queue'[i] = queue[i]
      BY <2>3, <3>1
    <3>3. queue[i] \in Track /\ queue[i] # t
      BY <1>3, <3>1, <3>2, ElementOfSeq DEF ToSet, TypeOK
    <3>4. CASE j = Len(queue) + 1
      <4>1. ticket'[queue[i]] = ticket[queue[i]] /\ ticket'[t] = issued + 1
        BY <1>1, <3>3 DEF TypeOK
      <4>2. ticket[queue[i]] <= issued /\ ticket[queue[i]] \in Nat /\ issued \in Nat
        BY <3>3 DEF Order, TypeOK
      <4> QED  BY <1>7, <3>1, <3>2, <3>4, <4>1, <4>2
    <3>5. CASE j \in DOMAIN queue
      <4>1. queue'[j] = queue[j] /\ queue[j] \in Track /\ queue[j] # t
        BY <1>3, <3>1, <3>5, ElementOfSeq DEF ToSet, TypeOK
      <4>2. queue[j] \notin Delivered /\ ticket[queue[i]] < ticket[queue[j]]
        BY <2>3, <3>2, <3>5 DEF Order
      <4> QED  BY <1>1, <3>2, <3>3, <4>1, <4>2 DEF TypeOK
    <3> QED  BY <3>1, <3>4, <3>5
  <2> QED  BY <1>5, <2>1, <2>2, <2>3 DEF Order
<1>9. NoOvertaking'
  <2> SUFFICES ASSUME NEW d \in Delivered, NEW s \in Accepted \cup {t},
                      ticket'[s] < ticket'[d]
               PROVE  s \in Delivered \cup cleared
    BY <1>1, <1>5 DEF NoOvertaking
  <2>1. d \in Track /\ d # t /\ ticket'[d] = ticket[d] /\ ticket[d] <= issued
    BY <1>1, <1>7 DEF Order, Delivered, TypeOK
  <2>2. s # t
    BY <1>1, <2>1 DEF TypeOK
  <2>3. s \in Accepted /\ ticket'[s] = ticket[s]
    BY <1>1, <2>2 DEF Accepted, TypeOK
  <2> QED  BY <2>1, <2>3 DEF NoOvertaking
<1>10. AdmissionBound'
  <2>1. Len(queue') = Len(queue) + 1 /\ queue' \in Seq(Track)
    BY <1>1, AppendProperties DEF TypeOK
  <2>2. /\ IsFiniteSet(ToSet(queue')) /\ Cardinality(ToSet(queue')) \in Nat
        /\ Cardinality(ToSet(queue')) <= Len(queue')
    BY <2>1, ListCardinality
  <2>3. /\ Cardinality(ToSet(queue') \ Delivered') <= Cardinality(ToSet(queue'))
        /\ IsFiniteSet(ToSet(queue') \ Delivered')
    BY <2>2, FS_Subset
  <2>4. Cardinality(ToSet(queue') \ Delivered') \in Nat
    BY <2>3, FS_CardinalityType
  <2>5. Len(queue) \in Nat
    BY LenProperties DEF TypeOK
  <2> QED  BY <1>1, <2>1, <2>2, <2>3, <2>4, <2>5, MaxQueueAssumption DEF AdmissionBound
<1> QED
  BY <1>2, <1>6, <1>8, <1>9, <1>10

(* dequeue keeps the invariant: its head is a returned track, or the       *)
(* oldest that waits.                                                      *)
LEMMA DequeueStep ==
  ASSUME IInv, Dequeue
  PROVE  IInv'
<1> USE DEF IInv
<1> DEFINE h == Head(queue)
<1>1. /\ queue # <<>>
      /\ queue' = Tail(queue)
      /\ shadow' = <<h>> \o shadow
      /\ deliveries' = [deliveries EXCEPT ![h] = @ + 1]
      /\ UNCHANGED <<call, ticket, issued, refused, acked, cleared>>
  BY DEF Dequeue, DequeueScript
<1>2. /\ h \in Track /\ h \in ToSet(queue) /\ h = queue[1]
      /\ queue' \in Seq(Track) /\ IsInjective(queue')
      /\ ToSet(queue') = ToSet(queue) \ {h}
  BY <1>1, TailLemma DEF TypeOK, Conservation, NoListTwice
<1>3. h \notin ToSet(shadow) \cup acked \cup cleared
  BY <1>2 DEF Conservation, Apart
<1>4. /\ shadow' \in Seq(Track) /\ IsInjective(shadow')
      /\ ToSet(shadow') = ToSet(shadow) \cup {h}
  BY <1>1, <1>2, <1>3, PushLemma DEF TypeOK, Conservation, NoListTwice
<1>5. TypeOK'
  BY <1>1, <1>2, <1>4 DEF TypeOK
<1>6. Delivered' = Delivered \cup {h} /\ Accepted' = Accepted
  <2>1. \A t \in Track : deliveries'[t] = IF t = h THEN deliveries[t] + 1 ELSE deliveries[t]
    BY <1>1, <1>2 DEF TypeOK
  <2>2. Delivered' = Delivered \cup {h}
    BY <1>2, <2>1 DEF Delivered, TypeOK
  <2> QED  BY <1>1, <2>2 DEF Accepted
<1>7. Conservation'
  BY <1>1, <1>2, <1>3, <1>4, <1>6 DEF Conservation, NoListTwice, Apart, NothingLost
<1>8. /\ Len(queue) \in Nat \ {0} /\ DOMAIN queue = 1 .. Len(queue)
      /\ DOMAIN queue' = 1 .. Len(queue) - 1
      /\ \A i \in 1 .. Len(queue) - 1 : queue'[i] = queue[i + 1]
  BY <1>1, TailLemma, LenProperties, EmptySeq DEF TypeOK
<1>9. Order'
  <2>1. (\A t \in Track : ticket[t] <= issued)'
    BY <1>1 DEF Order
  <2>2. (ToSet(shadow) \cup acked \subseteq Delivered)' /\ (Delivered \subseteq Accepted)'
    BY <1>1, <1>2, <1>4, <1>6 DEF Order, Conservation, NothingLost
  <2>3. ASSUME NEW i \in DOMAIN queue', NEW j \in DOMAIN queue', i < j,
               queue'[i] \notin Delivered'
        PROVE  queue'[j] \notin Delivered' /\ ticket[queue'[i]] < ticket[queue'[j]]
    <3>1. /\ i + 1 \in DOMAIN queue /\ j + 1 \in DOMAIN queue /\ i + 1 < j + 1
          /\ queue'[i] = queue[i + 1] /\ queue'[j] = queue[j + 1]
      BY <1>8, <2>3
    <3>2. queue[j + 1] \notin Delivered /\ ticket[queue[i + 1]] < ticket[queue[j + 1]]
      BY <1>6, <2>3, <3>1 DEF Order
    <3>3. queue'[j] # h
      BY <1>2 DEF ToSet
    <3> QED  BY <1>6, <3>1, <3>2, <3>3
  <2> QED  BY <1>1, <2>1, <2>2, <2>3 DEF Order
<1>10. NoOvertaking'
  <2> SUFFICES ASSUME NEW d \in Delivered \cup {h}, NEW s \in Accepted,
                      ticket[s] < ticket[d], s \notin Delivered \cup {h} \cup cleared
               PROVE  FALSE
    BY <1>1, <1>6 DEF NoOvertaking
  <2>1. d = h /\ h \notin Delivered
    BY DEF NoOvertaking
  <2>2. s \in ToSet(queue)
    BY DEF Conservation, NothingLost, Order
  <2>3. PICK i \in DOMAIN queue : queue[i] = s
    BY <2>2 DEF ToSet
  <2>4. 1 \in DOMAIN queue /\ 1 < i
    BY <1>2, <1>8, <2>3
  <2>5. ticket[h] < ticket[s]
    BY <1>2, <2>1, <2>3, <2>4 DEF Order
  <2>6. ticket[h] \in Nat /\ ticket[s] \in Nat
    BY <1>2 DEF TypeOK, Accepted
  <2> QED  BY <2>1, <2>5, <2>6
<1>11. AdmissionBound'
  <2>1. IsFiniteSet(ToSet(queue) \ Delivered)
    BY ListCardinality, FS_Subset DEF TypeOK
  <2>2. ToSet(queue') \ Delivered' \subseteq ToSet(queue) \ Delivered
    BY <1>2, <1>6
  <2>3. /\ Cardinality(ToSet(queue') \ Delivered') <= Cardinality(ToSet(queue) \ Delivered)
        /\ IsFiniteSet(ToSet(queue') \ Delivered')
    BY <2>1, <2>2, FS_Subset
  <2>4. /\ Cardinality(ToSet(queue') \ Delivered') \in Nat
        /\ Cardinality(ToSet(queue) \ Delivered) \in Nat
    BY <2>1, <2>3, FS_CardinalityType
  <2> QED  BY <2>3, <2>4, MaxQueueAssumption DEF AdmissionBound
<1> QED
  BY <1>5, <1>7, <1>9, <1>10, <1>11

(* clear keeps the invariant: both lists empty into the cleared tracks.    *)
LEMMA ClearStep ==
  ASSUME IInv, Clear
  PROVE  IInv'
<1> USE DEF IInv
<1>1. /\ queue' = <<>> /\ shadow' = <<>>
      /\ cleared' = cleared \cup ToSet(queue) \cup ToSet(shadow)
      /\ UNCHANGED <<call, ticket, issued, refused, deliveries, acked>>
  BY DEF Clear, ClearScript
<1>2. ToSet(<<>>) = {} /\ DOMAIN <<>> = {}
  BY DEF ToSet
<1>3. TypeOK'
  BY <1>1, RangeOfSeq DEF TypeOK, ToSet, Range
<1>4. Delivered' = Delivered /\ Accepted' = Accepted
  BY <1>1 DEF Delivered, Accepted
<1>5. Conservation'
  BY <1>1, <1>2, <1>4 DEF Conservation, NoListTwice, Apart, NothingLost, IsInjective
<1>6. Order'
  BY <1>1, <1>2, <1>4 DEF Order
<1>7. NoOvertaking'
  BY <1>1, <1>4 DEF NoOvertaking
<1>8. AdmissionBound'
  <2>1. ToSet(queue') \ Delivered' = {}
    BY <1>1, <1>2
  <2> QED  BY <2>1, MaxQueueAssumption, FS_EmptySet DEF AdmissionBound
<1> QED
  BY <1>3, <1>5, <1>6, <1>7, <1>8

(* The second half of ack keeps the invariant: a track it removes was in   *)
(* the shadow list, so it was nowhere else.                                *)
LEMMA AckStep ==
  ASSUME IInv, NEW c \in Client, Ack(c)
  PROVE  IInv'
<1> USE DEF IInv
<1> DEFINE t == call[c].track
<1>1. /\ queue' = queue
      /\ shadow' = LREM(shadow, t)
      /\ acked' = acked \cup ({t} \cap ToSet(shadow))
      /\ call' = [call EXCEPT ![c] = NoCall]
      /\ UNCHANGED <<ticket, issued, refused, deliveries, cleared>>
  BY DEF Ack, AckScript
<1>2. t \in Track
  BY DEF Ack, TypeOK, Call
<1> HIDE DEF t
<1>3. /\ shadow' \in Seq(Track) /\ IsInjective(shadow')
      /\ ToSet(shadow') = ToSet(shadow) \ {t}
  <2>1. CASE t \in ToSet(shadow)
    BY <1>1, <2>1, RemoveListed DEF TypeOK, Conservation, NoListTwice
  <2>2. CASE t \notin ToSet(shadow)
    BY <1>1, <2>2, RemoveAbsent DEF TypeOK, Conservation, NoListTwice
  <2> QED  BY <2>1, <2>2
<1>4. TypeOK'
  BY <1>1, <1>2, <1>3 DEF TypeOK
<1>5. Delivered' = Delivered /\ Accepted' = Accepted
  BY <1>1 DEF Delivered, Accepted
<1>6. Conservation'
  BY <1>1, <1>3, <1>5 DEF Conservation, NoListTwice, Apart, NothingLost
<1>7. Order'
  BY <1>1, <1>3, <1>5 DEF Order
<1>8. NoOvertaking' /\ AdmissionBound'
  BY <1>1, <1>5 DEF NoOvertaking, AdmissionBound
<1> QED
  BY <1>4, <1>6, <1>7, <1>8

(* The second half of nack keeps the invariant: the script pushes the      *)
(* track only if its LREM took it out of the shadow list.                  *)
LEMMA NackStep ==
  ASSUME IInv, NEW c \in Client, Nack(c)
  PROVE  IInv'
<1> USE DEF IInv
<1> DEFINE t == call[c].track
<1>1. /\ shadow' = LREM(shadow, t)
      /\ queue' = IF t \in ToSet(shadow) THEN <<t>> \o queue ELSE queue
      /\ call' = [call EXCEPT ![c] = NoCall]
      /\ UNCHANGED history
  BY DEF Nack, NackScript
<1>2. t \in Track
  BY DEF Nack, TypeOK, Call
<1> HIDE DEF t
<1>3. UNCHANGED <<ticket, issued, refused, deliveries, acked, cleared>>
  BY <1>1 DEF history
<1>4. Delivered' = Delivered /\ Accepted' = Accepted
  BY <1>3 DEF Delivered, Accepted
<1>5. CASE t \notin ToSet(shadow)
  <2>1. shadow' = shadow /\ queue' = queue
    BY <1>1, <1>5, RemoveAbsent DEF TypeOK
  <2>2. TypeOK'
    BY <1>1, <1>3, <2>1 DEF TypeOK
  <2> QED
    BY <1>3, <1>4, <2>1, <2>2
       DEF Conservation, NoListTwice, Apart, NothingLost, Order, NoOvertaking, AdmissionBound
<1>6. CASE t \in ToSet(shadow)
  <2>1. /\ shadow' \in Seq(Track) /\ IsInjective(shadow')
        /\ ToSet(shadow') = ToSet(shadow) \ {t}
    BY <1>1, <1>6, RemoveListed DEF TypeOK, Conservation, NoListTwice
  <2>2. t \notin ToSet(queue) /\ t \in Delivered
    BY <1>6 DEF Conservation, Apart, Order
  <2>3. /\ queue' \in Seq(Track) /\ IsInjective(queue')
        /\ ToSet(queue') = ToSet(queue) \cup {t}
        /\ Len(queue') = Len(queue) + 1
        /\ queue'[1] = t
        /\ \A i \in 1 .. Len(queue) : queue'[i + 1] = queue[i]
    BY <1>1, <1>2, <1>6, <2>2, PushLemma DEF TypeOK, Conservation, NoListTwice
  <2>4. TypeOK'
    BY <1>1, <1>2, <1>3, <2>1, <2>3 DEF TypeOK
  <2>5. Conservation'
    BY <1>3, <1>4, <1>6, <2>1, <2>3 DEF Conservation, NoListTwice, Apart, NothingLost
  <2>6. Order'
    <3>1. (\A s \in Track : ticket[s] <= issued)'
      BY <1>3 DEF Order
    <3>2. (ToSet(shadow) \cup acked \subseteq Delivered)' /\ (Delivered \subseteq Accepted)'
      BY <1>3, <1>4, <2>1 DEF Order
    <3>3. ASSUME NEW i \in DOMAIN queue', NEW j \in DOMAIN queue', i < j,
                 queue'[i] \notin Delivered
          PROVE  queue'[j] \notin Delivered /\ ticket[queue'[i]] < ticket[queue'[j]]
      <4>1. /\ Len(queue) \in Nat /\ DOMAIN queue = 1 .. Len(queue)
            /\ DOMAIN queue' = 1 .. Len(queue) + 1
        BY <2>3, LenProperties DEF TypeOK
      <4>2. i # 1
        BY <2>2, <2>3, <3>3
      <4>3. /\ i - 1 \in DOMAIN queue /\ j - 1 \in DOMAIN queue /\ i - 1 < j - 1
            /\ (i - 1) + 1 = i /\ (j - 1) + 1 = j
        BY <3>3, <4>1, <4>2
      <4>4. queue'[i] = queue[i - 1] /\ queue'[j] = queue[j - 1]
        BY <2>3, <4>1, <4>3
      <4> QED  BY <3>3, <4>3, <4>4 DEF Order
    <3> QED  BY <1>3, <1>4, <3>1, <3>2, <3>3 DEF Order
  <2>7. NoOvertaking'
    BY <1>3, <1>4 DEF NoOvertaking
  <2>8. AdmissionBound'
    <3>1. ToSet(queue') \ Delivered' = ToSet(queue) \ Delivered
      BY <1>4, <2>2, <2>3
    <3> QED  BY <3>1 DEF AdmissionBound
  <2> QED
    BY <2>4, <2>5, <2>6, <2>7, <2>8
<1> QED
  BY <1>5, <1>6

(* A refused track, the LRANGE half of a call and an aborted call leave    *)
(* the lists and what they mean alone.                                     *)
LEMMA QuietStep ==
  ASSUME IInv, TypeOK', UNCHANGED <<lists, ticket, issued, deliveries, acked, cleared>>
  PROVE  IInv'
<1>1. UNCHANGED <<queue, shadow, ticket, issued, deliveries, acked, cleared>>
  BY DEF lists
<1>2. Delivered' = Delivered /\ Accepted' = Accepted
  BY <1>1 DEF Delivered, Accepted
<1> QED
  BY <1>1, <1>2 DEF IInv, Conservation, NoListTwice, Apart, NothingLost, Order,
                    NoOvertaking, AdmissionBound

(* Every step of the queue keeps the invariant.                            *)
LEMMA NextIInv == IInv /\ [Next]_vars => IInv'
<1> SUFFICES ASSUME IInv, [Next]_vars PROVE IInv'
  OBVIOUS
<1>1. ASSUME NEW t \in Track, Enqueue(t) PROVE IInv'
  BY <1>1, EnqueueStep
<1>2. ASSUME NEW t \in Track, RefuseEnqueue(t) PROVE IInv'
  <2>1. TypeOK'
    BY <1>2 DEF RefuseEnqueue, IInv, TypeOK, lists
  <2> QED  BY <1>2, <2>1, QuietStep DEF RefuseEnqueue
<1>3. CASE Dequeue
  BY <1>3, DequeueStep
<1>4. CASE Clear
  BY <1>4, ClearStep
<1>5. ASSUME NEW c \in Client, NEW op \in {"ack", "nack"}, NEW t \in Track,
             LookUp(c, op, t)
      PROVE  IInv'
  <2>1. TypeOK'
    BY <1>5 DEF LookUp, IInv, TypeOK, Call, lists, history
  <2> QED  BY <1>5, <2>1, QuietStep DEF LookUp, history
<1>6. ASSUME NEW c \in Client, Ack(c) PROVE IInv'
  BY <1>6, AckStep
<1>7. ASSUME NEW c \in Client, Nack(c) PROVE IInv'
  BY <1>7, NackStep
<1>8. ASSUME NEW c \in Client, Abort(c) PROVE IInv'
  <2>1. TypeOK'
    BY <1>8 DEF Abort, IInv, TypeOK, lists, history
  <2> QED  BY <1>8, <2>1, QuietStep DEF Abort, history
<1>9. CASE UNCHANGED vars
  <2>1. TypeOK'
    BY <1>9 DEF IInv, TypeOK, vars, history
  <2> QED  BY <1>9, <2>1, QuietStep DEF vars, lists, history
<1> QED
  BY <1>1, <1>2, <1>3, <1>4, <1>5, <1>6, <1>7, <1>8, <1>9 DEF Next

(* The inductive invariant holds in every behaviour of the queue.          *)
THEOREM QueueInvariant == Spec => []IInv
<1>1. Init => IInv
  BY InitIInv
<1>2. IInv /\ [Next]_vars => IInv'
  BY NextIInv
<1> QED
  BY <1>1, <1>2, PTL DEF Spec

(* The lists, the calls and the histories keep their types.                *)
THEOREM TypeCorrect == Spec => []TypeOK
<1>1. IInv => TypeOK
  BY DEF IInv
<1> QED
  BY <1>1, QueueInvariant, PTL

(* No accepted track is lost or doubled, for any number of tracks and of   *)
(* clients acknowledging and returning tracks at the same time.            *)
THEOREM TracksConserved == Spec => []Conservation
<1>1. IInv => Conservation
  BY DEF IInv
<1> QED
  BY <1>1, QueueInvariant, PTL

(* No track is handed out for the first time before one accepted earlier.  *)
THEOREM FirstComeFirstServed == Spec => []NoOvertaking
<1>1. IInv => NoOvertaking
  BY DEF IInv
<1> QED
  BY <1>1, QueueInvariant, PTL

(* The never delivered tracks in the queue never exceed the limit.         *)
THEOREM AdmissionBounded == Spec => []AdmissionBound
<1>1. IInv => AdmissionBound
  BY DEF IInv
<1> QED
  BY <1>1, QueueInvariant, PTL

(* The list is the returned tracks and then the others in the order in     *)
(* which they were accepted: whatever acks, nacks and clears interleave,   *)
(* the two scripts that push at different ends never mix them.             *)
THEOREM QueueStaysOrdered == Spec => []Order
<1>1. IInv => Order
  BY DEF IInv
<1> QED
  BY <1>1, QueueInvariant, PTL
-------------------------------------------------------------------------------
(* The order of the list splits it: before its first track that was never  *)
(* delivered.                                                              *)
LEMMA OrderSplits ==
  ASSUME IInv
  PROVE  Splits(queue, Delivered, ReturnedLen)
<1>1. queue \in Seq(Track) /\ Len(queue) \in Nat /\ DOMAIN queue = 1 .. Len(queue)
  BY LenProperties DEF IInv, TypeOK
<1> DEFINE New == {i \in 1 .. Len(queue) + 1 : i = Len(queue) + 1 \/ queue[i] \notin Delivered}
<1>2. PICK m \in New : \A i \in New : ~(<<i, m>> \in OpToRel(<, Nat))
  <2>1. New \subseteq Nat /\ New # {}
    BY <1>1
  <2> HIDE DEF New
  <2> QED  BY <2>1, NatLessThanWellFounded, WFMin, Zenon
<1>3. ASSUME NEW i \in New PROVE m <= i
  <2>1. i \in Nat /\ m \in Nat /\ <<i, m>> \in Nat \X Nat
    BY <1>1
  <2>2. ~(i < m)
    BY <1>2, <2>1 DEF OpToRel
  <2> QED  BY <2>1, <2>2
<1>4. Splits(queue, Delivered, m - 1)
  <2>1. m - 1 \in 0 .. Len(queue)
    BY <1>1
  <2>2. ASSUME NEW i \in DOMAIN queue, i <= m - 1 PROVE queue[i] \in Delivered
    BY <1>1, <1>3, <2>2
  <2>3. ASSUME NEW i \in DOMAIN queue, ~(i <= m - 1) PROVE queue[i] \notin Delivered
    <3>1. m \in DOMAIN queue /\ queue[m] \notin Delivered /\ (m = i \/ m < i)
      BY <1>1, <2>3
    <3> QED  BY <3>1 DEF IInv, Order
  <2> QED  BY <2>1, <2>2, <2>3 DEF Splits
<1> QED
  BY <1>1, <1>4, SplitIsCount DEF ReturnedLen

\* What the mapped variables are, in terms of the list.
Parted ==
  /\ queue \in Seq(Track) /\ Len(queue) \in Nat /\ DOMAIN queue = 1 .. Len(queue)
  /\ \A i \in DOMAIN queue : queue[i] \in Track
  /\ ReturnedLen \in 0 .. Len(queue)
  /\ \A i \in DOMAIN queue : queue[i] \in Delivered <=> i <= ReturnedLen
  /\ Returned \in Seq(Track) /\ Len(Returned) = ReturnedLen
  /\ \A i \in 1 .. ReturnedLen : Returned[i] = queue[i]
  /\ Waiting \in Seq(Track) /\ Len(Waiting) = Len(queue) - ReturnedLen
  /\ \A i \in 1 .. Len(queue) - ReturnedLen : Waiting[i] = queue[ReturnedLen + i]

(* The invariant parts the list.                                           *)
LEMMA IInvParts == IInv => Parted
<1> SUFFICES ASSUME IInv PROVE Parted
  OBVIOUS
<1>1. queue \in Seq(Track) /\ Len(queue) \in Nat /\ DOMAIN queue = 1 .. Len(queue)
  BY LenProperties DEF IInv, TypeOK
<1>2. ReturnedLen \in 0 .. Len(queue) /\ \A i \in DOMAIN queue : queue[i] \in Delivered <=> i <= ReturnedLen
  BY OrderSplits DEF Splits
<1> QED
  BY <1>1, <1>2, FrontAndRest, ElementOfSeq DEF Returned, Waiting, Parted

(* The abstract queue knows the accepted tracks.                           *)
LEMMA KnownAreAccepted ==
  ASSUME IInv
  PROVE  Lease!Known = Accepted
<1>1. \A s : Lease!ToSet(s) = ToSet(s)
  BY DEF ToSet, Lease!ToSet
<1>2. ToSet(Returned) \cup ToSet(Waiting) = ToSet(queue)
  BY IInvParts, FrontAndRestHoldAll DEF Returned, Waiting, Parted
<1> QED
  BY <1>1, <1>2 DEF Lease!Known, IInv, Conservation, NothingLost

(* The parts in the next state.                                            *)
LEMMA PartsNext == IInv' => Parted'
  BY IInvParts, PTL
-------------------------------------------------------------------------------
(* Empty lists implement the empty queue.                                  *)
LEMMA InitImplements == Init => Lease!LQInit
<1> SUFFICES ASSUME Init PROVE Lease!LQInit
  OBVIOUS
<1>1. Parted
  BY InitIInv, IInvParts
<1>2. queue = <<>> /\ shadow = <<>> /\ acked = {} /\ cleared = {} /\ Len(queue) = 0
  BY DEF Init
<1>3. Returned = <<>> /\ Waiting = <<>>
  BY <1>1, <1>2, EmptySeq DEF Parted
<1> QED
  BY <1>2, <1>3 DEF Lease!LQInit, ToSet

(* enqueue accepts the track: the front stays, the rest grows at its end.  *)
LEMMA EnqueueAccepts ==
  ASSUME IInv, IInv', NEW t \in Track, Enqueue(t)
  PROVE  Lease!Accept(t)
<1>1. Parted /\ Parted'
  BY IInvParts, PartsNext
<1>2. /\ queue' = Append(queue, t) /\ shadow' = shadow
      /\ UNCHANGED <<deliveries, acked, cleared>> /\ t \notin Accepted
  BY DEF Enqueue, EnqueueScript, IsNew
<1>3. Delivered' = Delivered /\ t \notin Delivered
  BY <1>2 DEF Delivered, IInv, Order
<1> DEFINE n == ReturnedLen
           L == Len(queue)
<1>4. /\ n \in Nat /\ L \in Nat /\ n <= L /\ queue \in Seq(Track) /\ queue' \in Seq(Track)
      /\ Len(queue') = L + 1 /\ DOMAIN queue' = 1 .. L + 1
      /\ \A i \in 1 .. L : queue'[i] = queue[i]
      /\ queue'[L + 1] = t
  BY <1>1, <1>2, AppendProperties DEF Parted
<1> HIDE DEF n, L
<1>5. Splits(queue', Delivered', n)
  BY <1>1, <1>3, <1>4 DEF Splits, Parted, n, L
<1>6. ReturnedLen' = n
  BY <1>4, <1>5, SplitIsCount DEF ReturnedLen
<1>7. Returned' = Returned
  <2>1. /\ Returned' \in Seq(Track) /\ Returned \in Seq(Track)
        /\ Len(Returned') = n /\ Len(Returned) = n
        /\ \A i \in 1 .. n : Returned'[i] = queue'[i] /\ Returned[i] = queue[i]
    BY <1>1, <1>6 DEF Parted, n
  <2>2. ASSUME NEW i \in 1 .. n PROVE Returned'[i] = Returned[i]
    BY <1>4, <2>1
  <2> QED  BY <2>1, <2>2, SeqEqual
<1>8. Waiting' = Append(Waiting, t)
  <2>1. /\ Waiting' \in Seq(Track) /\ Waiting \in Seq(Track)
        /\ Len(Waiting') = L + 1 - n /\ Len(Waiting) = L - n
        /\ \A i \in 1 .. L + 1 - n : Waiting'[i] = queue'[n + i]
        /\ \A i \in 1 .. L - n : Waiting[i] = queue[n + i]
    BY <1>1, <1>4, <1>6 DEF Parted, n, L
  <2>2. /\ Append(Waiting, t) \in Seq(Track) /\ Len(Append(Waiting, t)) = L + 1 - n
        /\ \A i \in 1 .. L - n : Append(Waiting, t)[i] = Waiting[i]
        /\ Append(Waiting, t)[L + 1 - n] = t
    BY <1>4, <2>1, AppendProperties
  <2>3. ASSUME NEW i \in 1 .. L + 1 - n PROVE Waiting'[i] = Append(Waiting, t)[i]
    <3>1. CASE i = L + 1 - n
      BY <1>4, <2>1, <2>2, <3>1
    <3>2. CASE i \in 1 .. L - n
      <4>1. n + i \in 1 .. L /\ i \in 1 .. L + 1 - n
        BY <1>4, <3>2
      <4>2. Waiting'[i] = queue'[n + i] /\ Waiting[i] = queue[n + i]
        BY <2>1, <3>2, <4>1
      <4>3. queue'[n + i] = queue[n + i] /\ Append(Waiting, t)[i] = Waiting[i]
        BY <1>4, <2>2, <3>2, <4>1
      <4> QED  BY <4>2, <4>3
    <3>3. i = L + 1 - n \/ i \in 1 .. L - n
      BY <1>4
    <3> QED  BY <3>1, <3>2, <3>3
  <2> QED  BY <2>1, <2>2, <2>3, SeqEqual
<1> QED
  BY <1>2, <1>7, <1>8, KnownAreAccepted DEF Lease!Accept

(* dequeue leases the head: a returned track if there is one, otherwise    *)
(* the one that waits longest.                                             *)
LEMMA DequeueLeases ==
  ASSUME IInv, IInv', Dequeue
  PROVE  Lease!LeaseReturned \/ Lease!LeaseWaiting
<1>1. Parted /\ Parted'
  BY IInvParts, PartsNext
<1> DEFINE h == Head(queue)
           n == ReturnedLen
           L == Len(queue)
<1>2. /\ queue # <<>> /\ queue' = Tail(queue) /\ shadow' = <<h>> \o shadow
      /\ deliveries' = [deliveries EXCEPT ![h] = @ + 1]
      /\ UNCHANGED <<ticket, acked, cleared>>
  BY DEF Dequeue, DequeueScript
<1>3. /\ L \in Nat \ {0} /\ h = queue[1] /\ h \in Track /\ n \in 0 .. L
      /\ queue \in Seq(Track) /\ queue' \in Seq(Track)
      /\ Len(queue') = L - 1 /\ DOMAIN queue' = 1 .. L - 1
      /\ \A i \in 1 .. L - 1 : queue'[i] = queue[i + 1]
  BY <1>1, <1>2, TailLemma, EmptySeq DEF Parted
<1>4. ASSUME NEW i \in 1 .. L - 1 PROVE queue[i + 1] # h
  <2>1. i + 1 \in 1 .. L /\ 1 \in 1 .. L /\ i + 1 # 1
    BY <1>3
  <2>2. i + 1 \in DOMAIN queue /\ 1 \in DOMAIN queue
    BY <1>1, <2>1 DEF Parted
  <2>3. IsInjective(queue)
    BY DEF IInv, Conservation, NoListTwice
  <2> QED  BY <1>3, <2>1, <2>2, <2>3 DEF IsInjective
<1>6. ToSet(shadow') = ToSet(shadow) \cup {h}
  BY <1>2, <1>3, PushLemma DEF IInv, TypeOK
<1> HIDE DEF h
<1>5. Delivered' = Delivered \cup {h}
  <2>1. deliveries \in [Track -> Nat]
    BY DEF IInv, TypeOK
  <2>2. \A t \in Track : deliveries'[t] = IF t = h THEN deliveries[t] + 1 ELSE deliveries[t]
    BY <1>2, <1>3, <2>1
  <2> QED  BY <1>3, <2>1, <2>2 DEF Delivered
<1> HIDE DEF n, L
<1>7. ASSUME NEW i \in 1 .. L - 1 PROVE queue'[i] \in Delivered' <=> i + 1 <= n
  <2>1. i + 1 \in 1 .. L /\ queue'[i] = queue[i + 1] /\ queue[i + 1] # h
    BY <1>3, <1>4
  <2>2. queue[i + 1] \in Delivered <=> i + 1 <= n
    BY <1>1, <2>1 DEF Parted, n, L
  <2> QED  BY <1>5, <2>1, <2>2
<1>8. /\ Returned \in Seq(Track) /\ Len(Returned) = n
      /\ Returned' \in Seq(Track) /\ Len(Returned') = ReturnedLen'
      /\ Waiting \in Seq(Track) /\ Len(Waiting) = L - n
      /\ Waiting' \in Seq(Track) /\ Len(Waiting') = (L - 1) - ReturnedLen'
      /\ \A i \in 1 .. n : Returned[i] = queue[i]
      /\ \A i \in 1 .. ReturnedLen' : Returned'[i] = queue'[i]
      /\ \A i \in 1 .. L - n : Waiting[i] = queue[n + i]
      /\ \A i \in 1 .. (L - 1) - ReturnedLen' : Waiting'[i] = queue'[ReturnedLen' + i]
  BY <1>1, <1>3 DEF Parted, n, L
<1>9. CASE n > 0
  <2>1. Splits(queue', Delivered', n - 1)
    BY <1>3, <1>7, <1>9 DEF Splits
  <2>2. ReturnedLen' = n - 1
    BY <1>3, <2>1, SplitIsCount DEF ReturnedLen
  <2>3. /\ Returned # <<>> /\ Head(Returned) = Returned[1] /\ Tail(Returned) \in Seq(Track)
        /\ Len(Tail(Returned)) = n - 1
        /\ \A i \in 1 .. n - 1 : Tail(Returned)[i] = Returned[i + 1]
    <3>1. Returned # <<>>
      BY <1>3, <1>8, <1>9, EmptySeq
    <3> QED  BY <1>3, <1>8, <3>1, TailLemma
  <2>4. Head(Returned) = h
    BY <1>3, <1>8, <1>9, <2>3
  <2>5. Returned' = Tail(Returned)
    <3>1. ASSUME NEW i \in 1 .. n - 1 PROVE Returned'[i] = Tail(Returned)[i]
      <4>1. i \in 1 .. L - 1 /\ i + 1 \in 1 .. n
        BY <1>3
      <4>2. Returned'[i] = queue'[i] /\ Returned[i + 1] = queue[i + 1]
        BY <1>8, <2>2, <4>1
      <4> QED  BY <1>3, <2>3, <4>1, <4>2
    <3> QED  BY <1>8, <2>2, <2>3, <3>1, SeqEqual
  <2>6. Waiting' = Waiting
    <3>1. ASSUME NEW i \in 1 .. L - n PROVE Waiting'[i] = Waiting[i]
      <4>1. /\ i \in 1 .. (L - 1) - (n - 1) /\ (n - 1) + i \in 1 .. L - 1
            /\ ((n - 1) + i) + 1 = n + i
        BY <1>3, <1>9
      <4>2. Waiting'[i] = queue'[(n - 1) + i] /\ Waiting[i] = queue[n + i]
        BY <1>8, <2>2, <4>1
      <4> QED  BY <1>3, <4>1, <4>2
    <3>2. (L - 1) - (n - 1) = L - n
      BY <1>3
    <3> QED  BY <1>8, <2>2, <3>1, <3>2, SeqEqual
  <2> QED
    BY <1>2, <1>6, <2>3, <2>4, <2>5, <2>6 DEF Lease!LeaseReturned
<1>10. CASE n = 0
  <2>1. Splits(queue', Delivered', 0)
    BY <1>3, <1>7, <1>10 DEF Splits
  <2>2. ReturnedLen' = 0
    BY <1>3, <2>1, SplitIsCount DEF ReturnedLen
  <2>3. Returned = <<>> /\ Returned' = <<>>
    BY <1>8, <1>10, <2>2, EmptySeq
  <2>4. /\ Waiting # <<>> /\ Head(Waiting) = Waiting[1] /\ Tail(Waiting) \in Seq(Track)
        /\ Len(Tail(Waiting)) = L - 1
        /\ \A i \in 1 .. L - 1 : Tail(Waiting)[i] = Waiting[i + 1]
    <3>1. Len(Waiting) = L
      BY <1>3, <1>8, <1>10
    <3>2. Waiting # <<>>
      BY <1>3, <3>1, EmptySeq
    <3> QED  BY <1>3, <1>8, <3>1, <3>2, TailLemma
  <2>5. Head(Waiting) = h
    BY <1>3, <1>8, <1>10, <2>4
  <2>6. Waiting' = Tail(Waiting)
    <3>1. (L - 1) - 0 = L - 1 /\ L - 0 = L
      BY <1>3
    <3>2. ASSUME NEW i \in 1 .. L - 1 PROVE Waiting'[i] = Tail(Waiting)[i]
      <4>1. i + 1 \in 1 .. L /\ 0 + i = i /\ 0 + (i + 1) = i + 1
        BY <1>3
      <4>2. Waiting'[i] = queue'[i] /\ Waiting[i + 1] = queue[i + 1]
        BY <1>8, <1>10, <2>2, <3>1, <4>1
      <4> QED  BY <1>3, <2>4, <4>1, <4>2
    <3> QED  BY <1>8, <2>2, <2>4, <3>1, <3>2, SeqEqual
  <2> QED
    BY <1>2, <1>6, <2>3, <2>4, <2>5, <2>6 DEF Lease!LeaseWaiting
<1> QED
  BY <1>3, <1>9, <1>10

(* clear drops everything that is known.                                   *)
LEMMA ClearDrops ==
  ASSUME IInv, IInv', Clear
  PROVE  Lease!DropAll
<1>1. Parted'
  BY PartsNext
<1>2. /\ queue' = <<>> /\ shadow' = <<>> /\ acked' = acked
      /\ cleared' = cleared \cup ToSet(queue) \cup ToSet(shadow)
  BY DEF Clear, ClearScript
<1>3. Returned' = <<>> /\ Waiting' = <<>>
  <2>1. Len(queue') = 0
    BY <1>2
  <2> QED  BY <1>1, <2>1, EmptySeq DEF Parted
<1>4. acked' \cup cleared' = Lease!Known /\ ToSet(shadow') = {}
  BY <1>2, KnownAreAccepted DEF IInv, Conservation, NothingLost, ToSet
<1> QED
  BY <1>3, <1>4 DEF Lease!DropAll

\* The mapped variables do not change.
Stutters == UNCHANGED Lease!lqVars

(* A step that leaves the lists and the histories alone is a stutter.      *)
LEMMA QuietStutters ==
  ASSUME UNCHANGED <<queue, shadow, deliveries, acked, cleared>>
  PROVE  Stutters
<1>1. Delivered' = Delivered
  BY DEF Delivered
<1>2. ReturnedLen' = ReturnedLen
  BY <1>1 DEF ReturnedLen
<1>3. Returned' = Returned /\ Waiting' = Waiting
  BY <1>2 DEF Returned, Waiting
<1> QED
  BY <1>3 DEF Stutters, Lease!lqVars

(* ack finishes a lease, unless another client was faster.                 *)
LEMMA AckFinishes ==
  ASSUME IInv, NEW c \in Client, Ack(c)
  PROVE  (\E t \in Track : Lease!Finish(t)) \/ Stutters
<1> DEFINE t == call[c].track
<1>1. /\ queue' = queue /\ shadow' = LREM(shadow, t) /\ t \in Track
      /\ acked' = acked \cup ({t} \cap ToSet(shadow))
      /\ UNCHANGED <<deliveries, cleared>>
  BY DEF Ack, AckScript, IInv, TypeOK, Call
<1> HIDE DEF t
<1>2. CASE t \notin ToSet(shadow)
  <2>1. shadow' = shadow /\ acked' = acked
    BY <1>1, <1>2, RemoveAbsent DEF IInv, TypeOK
  <2> QED  BY <1>1, <2>1, QuietStutters
<1>3. CASE t \in ToSet(shadow)
  <2>1. ToSet(shadow') = ToSet(shadow) \ {t}
    BY <1>1, <1>3, RemoveListed DEF IInv, TypeOK, Conservation, NoListTwice
  <2>2. Delivered' = Delivered
    BY <1>1 DEF Delivered
  <2>3. ReturnedLen' = ReturnedLen
    BY <1>1, <2>2 DEF ReturnedLen
  <2>4. Returned' = Returned /\ Waiting' = Waiting
    BY <1>1, <2>3 DEF Returned, Waiting
  <2>5. acked' \cup cleared' = (acked \cup cleared) \cup {t}
    BY <1>1, <1>3
  <2> QED  BY <1>1, <1>3, <2>1, <2>4, <2>5 DEF Lease!Finish
<1> QED
  BY <1>2, <1>3

(* nack gives a lease back, unless another client was faster.              *)
LEMMA NackGivesBack ==
  ASSUME IInv, IInv', NEW c \in Client, Nack(c)
  PROVE  (\E t \in Track : Lease!GiveBack(t)) \/ Stutters
<1> DEFINE t == call[c].track
<1>1. /\ shadow' = LREM(shadow, t) /\ t \in Track
      /\ queue' = IF t \in ToSet(shadow) THEN <<t>> \o queue ELSE queue
      /\ UNCHANGED <<deliveries, acked, cleared>>
  BY DEF Nack, NackScript, IInv, TypeOK, Call, history
<1> HIDE DEF t
<1>2. CASE t \notin ToSet(shadow)
  <2>1. shadow' = shadow /\ queue' = queue
    BY <1>1, <1>2, RemoveAbsent DEF IInv, TypeOK
  <2> QED  BY <1>1, <2>1, QuietStutters
<1>3. CASE t \in ToSet(shadow)
  <2>1. Parted /\ Parted'
    BY IInvParts, PartsNext
  <2> DEFINE n == ReturnedLen
             L == Len(queue)
  <2>2. ToSet(shadow') = ToSet(shadow) \ {t}
    BY <1>1, <1>3, RemoveListed DEF IInv, TypeOK, Conservation, NoListTwice
  <2>3. Delivered' = Delivered /\ t \in Delivered
    BY <1>1, <1>3 DEF Delivered, IInv, Order
  <2>4. /\ L \in Nat /\ n \in 0 .. L /\ queue \in Seq(Track) /\ queue' \in Seq(Track)
        /\ Len(queue') = L + 1 /\ DOMAIN queue' = 1 .. L + 1 /\ queue'[1] = t
        /\ \A i \in 1 .. L : queue'[i + 1] = queue[i]
    BY <1>1, <1>3, <2>1, PushLemma DEF Parted
  <2>5. \A i \in 1 .. L : queue[i] \in Delivered <=> i <= n
    BY <2>1 DEF Parted
  <2> HIDE DEF n, L
  <2>6. Splits(queue', Delivered', n + 1)
    <3>1. ASSUME NEW i \in 2 .. L + 1 PROVE queue'[i] \in Delivered <=> i <= n + 1
      <4>1. i - 1 \in 1 .. L /\ (i - 1) + 1 = i
        BY <2>4
      <4>2. queue'[i] = queue[i - 1]
        BY <2>4, <4>1
      <4> QED  BY <2>4, <2>5, <4>1, <4>2
    <3>2. queue'[1] \in Delivered /\ 1 <= n + 1
      BY <2>3, <2>4
    <3>3. n + 1 \in 0 .. Len(queue') /\ \A i \in DOMAIN queue' : i = 1 \/ i \in 2 .. L + 1
      BY <2>4
    <3> QED  BY <2>3, <3>1, <3>2, <3>3 DEF Splits
  <2>7. ReturnedLen' = n + 1
    BY <2>4, <2>6, SplitIsCount DEF ReturnedLen
  <2>8. /\ Returned \in Seq(Track) /\ Len(Returned) = n
        /\ Returned' \in Seq(Track) /\ Len(Returned') = n + 1
        /\ Waiting \in Seq(Track) /\ Len(Waiting) = L - n
        /\ Waiting' \in Seq(Track) /\ Len(Waiting') = (L + 1) - (n + 1)
        /\ \A i \in 1 .. n : Returned[i] = queue[i]
        /\ \A i \in 1 .. n + 1 : Returned'[i] = queue'[i]
        /\ \A i \in 1 .. L - n : Waiting[i] = queue[n + i]
        /\ \A i \in 1 .. (L + 1) - (n + 1) : Waiting'[i] = queue'[(n + 1) + i]
    BY <2>1, <2>4, <2>7 DEF Parted, n, L
  <2>9. Returned' = <<t>> \o Returned
    <3>1. /\ <<t>> \o Returned \in Seq(Track) /\ Len(<<t>> \o Returned) = n + 1
          /\ (<<t>> \o Returned)[1] = t
          /\ \A i \in 1 .. n : (<<t>> \o Returned)[i + 1] = Returned[i]
      BY <1>1, <2>8, PushLemma
    <3>2. ASSUME NEW i \in 1 .. n + 1 PROVE Returned'[i] = (<<t>> \o Returned)[i]
      <4>1. CASE i = 1
        BY <2>4, <2>8, <3>1, <4>1
      <4>2. CASE i # 1
        <5>1. i - 1 \in 1 .. n /\ (i - 1) + 1 = i /\ i - 1 \in 1 .. L
          BY <2>4, <4>2
        <5>2. Returned'[i] = queue'[i] /\ queue'[i] = queue[i - 1]
          BY <2>4, <2>8, <5>1
        <5>3. (<<t>> \o Returned)[i] = Returned[i - 1] /\ Returned[i - 1] = queue[i - 1]
          BY <2>8, <3>1, <5>1
        <5> QED  BY <5>2, <5>3
      <4> QED  BY <4>1, <4>2
    <3> QED  BY <2>8, <3>1, <3>2, SeqEqual
  <2>10. Waiting' = Waiting
    <3>1. ASSUME NEW i \in 1 .. L - n PROVE Waiting'[i] = Waiting[i]
      <4>1. /\ i \in 1 .. (L + 1) - (n + 1) /\ n + i \in 1 .. L /\ (n + i) + 1 = (n + 1) + i
        BY <2>4
      <4>2. Waiting'[i] = queue'[(n + 1) + i] /\ Waiting[i] = queue[n + i]
        BY <2>8, <4>1
      <4> QED  BY <2>4, <4>1, <4>2
    <3>2. (L + 1) - (n + 1) = L - n
      BY <2>4
    <3> QED  BY <2>8, <3>1, <3>2, SeqEqual
  <2> QED
    BY <1>1, <1>3, <2>2, <2>9, <2>10 DEF Lease!GiveBack
<1> QED
  BY <1>2, <1>3
-------------------------------------------------------------------------------
(* Every step of the queue is a step of the abstract queue or a stutter.   *)
LEMMA NextImplements == IInv /\ IInv' /\ [Next]_vars => [Lease!LQNext]_(Lease!lqVars)
<1> SUFFICES ASSUME IInv, IInv', [Next]_vars PROVE Lease!LQNext \/ Stutters
  BY DEF Stutters
<1> USE DEF Lease!LQNext
<1>1. ASSUME NEW t \in Track, Enqueue(t) PROVE Lease!LQNext
  BY <1>1, EnqueueAccepts
<1>2. ASSUME NEW t \in Track, RefuseEnqueue(t) PROVE Stutters
  BY <1>2, QuietStutters DEF RefuseEnqueue, lists
<1>3. CASE Dequeue
  BY <1>3, DequeueLeases
<1>4. CASE Clear
  BY <1>4, ClearDrops
<1>5. ASSUME NEW c \in Client, NEW op \in {"ack", "nack"}, NEW t \in Track,
             LookUp(c, op, t)
      PROVE  Stutters
  BY <1>5, QuietStutters DEF LookUp, lists, history
<1>6. ASSUME NEW c \in Client, Ack(c) PROVE Lease!LQNext \/ Stutters
  BY <1>6, AckFinishes
<1>7. ASSUME NEW c \in Client, Nack(c) PROVE Lease!LQNext \/ Stutters
  BY <1>7, NackGivesBack
<1>8. ASSUME NEW c \in Client, Abort(c) PROVE Stutters
  BY <1>8, QuietStutters DEF Abort, lists, history
<1>9. CASE UNCHANGED vars
  BY <1>9, QuietStutters DEF vars, history
<1> QED
  BY <1>1, <1>2, <1>3, <1>4, <1>5, <1>6, <1>7, <1>8, <1>9 DEF Next

(* The Redis lists and their scripts keep the promise of the abstract      *)
(* queue of leases, whatever clients do between the two halves of a call.  *)
THEOREM ImplementsLeases == Spec => ImplementsLeaseQueue
<1>1. Init => Lease!LQInit
  BY InitImplements
<1>2. IInv /\ IInv' /\ [Next]_vars => [Lease!LQNext]_(Lease!lqVars)
  BY NextImplements
<1> QED
  BY <1>1, <1>2, QueueInvariant, PTL DEF Spec, ImplementsLeaseQueue, Lease!LQSpec
===============================================================================
