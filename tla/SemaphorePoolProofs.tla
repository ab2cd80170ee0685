--------------------------- MODULE SemaphorePoolProofs ---------------------------
(***************************************************************************)
(* The permits balance for every set of groups, also an infinite one, and  *)
(* every number of permits.  Granting changes the queue, the places and    *)
(* the number of free permits together; what that needs is that the queue  *)
(* holds exactly the waiting groups, each once.                            *)
(***************************************************************************)
EXTENDS SemaphorePool, ListLemmas

\* The queue and the places agree.
QueueOK(queued, places) ==
  /\ queued \in Seq(Group)
  /\ places \in [Group -> Places]
  /\ IsInjective(queued)
  /\ ToSet(queued) = {g \in Group : places[g] = "waiting"}

Holders(places) == {g \in Group : places[g] \in {"granted", "inside"}}
Inside(places)  == {g \in Group : places[g] = "inside"}

\* Every permit is free or has a holder.
PermitsOK(free, places) ==
  /\ free \in Nat
  /\ IsFiniteSet(Holders(places))
  /\ free + Cardinality(Holders(places)) = MaxStreams

\* The count of active starts is right.
CountOK(count, places) == count = Cardinality(Inside(places))

PoolInv ==
  /\ QueueOK(waiters, at)
  /\ PermitsOK(value, at)
  /\ CountOK(active_count, at)
----------------------------------------------------------------------------------
(* What holds of the places bounds both counts. *)
LEMMA CountsBounded ==
  ASSUME NEW free, NEW places, PermitsOK(free, places)
  PROVE  /\ free \in 0 .. MaxStreams
         /\ IsFiniteSet(Inside(places))
         /\ Cardinality(Inside(places)) \in 0 .. MaxStreams
<1>1. Inside(places) \subseteq Holders(places)
  BY DEF Inside, Holders
<1>2. /\ IsFiniteSet(Inside(places))
      /\ Cardinality(Inside(places)) <= Cardinality(Holders(places))
  BY <1>1, FS_Subset DEF PermitsOK
<1>3. Cardinality(Holders(places)) \in Nat /\ Cardinality(Inside(places)) \in Nat
  BY <1>2, FS_CardinalityType DEF PermitsOK
<1>4. free + Cardinality(Holders(places)) = MaxStreams /\ free \in Nat /\ MaxStreams \in Nat
  BY MaxStreamsAssumption DEF PermitsOK
<1> QED
  BY <1>2, <1>3, <1>4

(* One group is moved from a place that holds a permit to one that does    *)
(* not, or the other way.                                                  *)
LEMMA OneHolderLess ==
  ASSUME NEW free, NEW places \in [Group -> Places], PermitsOK(free, places),
         NEW g \in Holders(places), NEW s \in Places \ {"granted", "inside"}
  PROVE  PermitsOK(free + 1, [places EXCEPT ![g] = s])
<1> DEFINE after == [places EXCEPT ![g] = s]
<1>1. Holders(after) = Holders(places) \ {g}
  BY DEF Holders
<1>2. /\ IsFiniteSet(Holders(after))
      /\ Cardinality(Holders(after)) = Cardinality(Holders(places)) - 1
  BY <1>1, FS_RemoveElement DEF PermitsOK
<1>3. Cardinality(Holders(places)) \in Nat
  BY FS_CardinalityType DEF PermitsOK
<1> HIDE DEF after
<1> QED
  BY <1>2, <1>3 DEF PermitsOK, after

(* The front of the queue is granted a permit each: queue, places and free *)
(* permits stay in step, and nobody enters.                                *)
LEMMA GrantKeeps ==
  ASSUME NEW free, NEW places, NEW queued, NEW n \in 0 .. Len(queued),
         QueueOK(queued, places), PermitsOK(free, places), n <= free,
         Grant(n, free, places, queued)
  PROVE  /\ QueueOK(waiters', at')
         /\ PermitsOK(value', at')
         /\ Inside(at') = Inside(places)
<1> DEFINE front == ToSet(SubSeq(queued, 1, n))
           rest  == ToSet(SubSeq(queued, n + 1, Len(queued)))
<1>1. /\ queued \in Seq(Group) /\ IsInjective(queued) /\ places \in [Group -> Places]
      /\ ToSet(queued) = {g \in Group : places[g] = "waiting"}
  BY DEF QueueOK
<1>2. /\ n \in Nat /\ free \in Nat /\ n <= free
  BY <1>1, LenProperties DEF PermitsOK
<1>3. /\ front \cup rest = ToSet(queued) /\ front \cap rest = {}
      /\ IsFiniteSet(front) /\ Cardinality(front) = n
      /\ SubSeq(queued, n + 1, Len(queued)) \in Seq(Group)
      /\ IsInjective(SubSeq(queued, n + 1, Len(queued)))
  BY <1>1, FrontAndRest, FrontAndRestHoldAll, FrontAndRestApart
<1>4. /\ value' = free - n
      /\ waiters' = SubSeq(queued, n + 1, Len(queued))
      /\ at' = [h \in Group |-> IF h \in front THEN "granted" ELSE places[h]]
      /\ ToSet(waiters') = rest
  BY DEF Grant
<1> HIDE DEF front, rest
<1>5. \A h \in Group : at'[h] = IF h \in front THEN "granted" ELSE places[h]
  BY <1>4
<1>6. \A h \in front : h \in Group /\ places[h] = "waiting"
  BY <1>1, <1>3
<1>7. at' \in [Group -> Places]
  BY <1>1, <1>4 DEF Places
<1>8. ToSet(waiters') = {g \in Group : at'[g] = "waiting"}
  BY <1>1, <1>3, <1>4, <1>5
<1>9. Holders(at') = Holders(places) \cup front
  BY <1>5, <1>6 DEF Holders
<1>10. Holders(places) \cap front = {}
  BY <1>6 DEF Holders
<1>11. /\ IsFiniteSet(Holders(at'))
       /\ Cardinality(Holders(at')) = Cardinality(Holders(places)) + n
  <2>1. IsFiniteSet(Holders(places)) /\ IsFiniteSet(front)
    BY <1>3 DEF PermitsOK
  <2>2. /\ IsFiniteSet(Holders(places) \cup front)
        /\ Cardinality(Holders(places) \cup front)
             = Cardinality(Holders(places)) + Cardinality(front)
               - Cardinality(Holders(places) \cap front)
    BY <2>1, FS_Union
  <2>3. Cardinality(Holders(places) \cap front) = 0
    BY <1>10, FS_EmptySet
  <2>4. Cardinality(Holders(places)) \in Nat /\ Cardinality(front) = n
    BY <2>1, <1>3, FS_CardinalityType
  <2> QED  BY <1>2, <1>9, <2>2, <2>3, <2>4
<1>12. Inside(at') = Inside(places)
  BY <1>5, <1>6 DEF Inside
<1>13. PermitsOK(value', at')
  <2>1. Cardinality(Holders(places)) \in Nat
    BY FS_CardinalityType DEF PermitsOK
  <2>2. free - n \in Nat
    BY <1>2
  <2>3. free + Cardinality(Holders(places)) = MaxStreams
    BY DEF PermitsOK
  <2>4. (free - n) + (Cardinality(Holders(places)) + n) = MaxStreams
    BY <1>2, <2>1, <2>3
  <2> QED  BY <1>4, <1>11, <2>2, <2>4 DEF PermitsOK
<1> QED
  BY <1>3, <1>4, <1>7, <1>8, <1>12, <1>13 DEF QueueOK

(* Both ways to wake grant no more than is free and is waited for.         *)
LEMMA MinOfTwo ==
  ASSUME NEW a \in Nat, NEW b \in Nat
  PROVE  Min({a, b}) \in Nat /\ Min({a, b}) <= a /\ Min({a, b}) <= b
<1>1. \E x \in {a, b} : \A y \in {a, b} : x <= y
  <2>1. CASE a <= b
    BY <2>1
  <2>2. CASE b <= a
    BY <2>2
  <2> QED  BY <2>1, <2>2
<1>2. Min({a, b}) \in {a, b} /\ \A y \in {a, b} : Min({a, b}) <= y
  BY <1>1 DEF Min
<1> QED
  BY <1>2

LEMMA WakeKeeps ==
  ASSUME NEW free, NEW places, NEW queued, QueueOK(queued, places), PermitsOK(free, places),
         \/ WakeAll(free, places, queued)
         \/ free # 0 /\ WakeOne(free, places, queued)
  PROVE  /\ QueueOK(waiters', at')
         /\ PermitsOK(value', at')
         /\ Inside(at') = Inside(places)
<1>1. free \in Nat /\ Len(queued) \in Nat
  BY LenProperties DEF QueueOK, PermitsOK
<1>2. PICK n \in 0 .. Len(queued) : n <= free /\ Grant(n, free, places, queued)
  <2>1. CASE WakeAll(free, places, queued)
    BY <1>1, <2>1, MinOfTwo DEF WakeAll
  <2>2. CASE free # 0 /\ WakeOne(free, places, queued)
    <3>1. 1 <= free
      BY <1>1, <2>2
    <3>2. /\ Min({1, Len(queued)}) \in 0 .. Len(queued)
          /\ Min({1, Len(queued)}) <= 1
      BY <1>1, MinOfTwo
    <3>3. Min({1, Len(queued)}) <= free
      BY <1>1, <3>1, <3>2
    <3> QED  BY <2>2, <3>2, <3>3 DEF WakeOne
  <2> QED  BY <2>1, <2>2
<1> QED
  BY <1>2, GrantKeeps
----------------------------------------------------------------------------------
LEMMA InitOK == Init => PoolInv
<1> SUFFICES ASSUME Init PROVE PoolInv
  OBVIOUS
<1>1. QueueOK(waiters, at)
  <2>1. waiters \in Seq(Group) /\ DOMAIN waiters = {} /\ ToSet(waiters) = {}
    BY DEF Init, ToSet
  <2> QED  BY <2>1 DEF Init, QueueOK, Places, IsInjective
<1>2. Holders(at) = {} /\ Inside(at) = {}
  BY DEF Init, Holders, Inside
<1>3. PermitsOK(value, at) /\ CountOK(active_count, at)
  BY <1>2, FS_EmptySet, MaxStreamsAssumption DEF Init, PermitsOK, CountOK
<1> QED
  BY <1>1, <1>3 DEF PoolInv

(* A start that finds a permit free and nobody waiting takes it; any other *)
(* goes to the end of the queue.                                           *)
LEMMA StartOK ==
  ASSUME PoolInv, NEW g \in Group, Start(g)
  PROVE  PoolInv'
<1>1. /\ QueueOK(waiters, at) /\ PermitsOK(value, at) /\ CountOK(active_count, at)
      /\ at[g] = "out" /\ at \in [Group -> Places]
  BY DEF PoolInv, QueueOK, Start
<1>2. CASE ~ Locked
  <2>1. /\ value' = value - 1 /\ active_count' = active_count + 1
        /\ at' = [at EXCEPT ![g] = "inside"] /\ waiters' = waiters
    BY <1>2 DEF Start
  <2>2. value \in Nat \ {0} /\ value' \in Nat
    BY <1>1, <1>2, <2>1 DEF Locked, PermitsOK
  <2>3. Holders(at') = Holders(at) \cup {g} /\ Inside(at') = Inside(at) \cup {g}
    BY <1>1, <2>1 DEF Holders, Inside
  <2>4. g \notin Holders(at) /\ g \notin Inside(at)
    BY <1>1 DEF Holders, Inside
  <2>5. IsFiniteSet(Holders(at)) /\ IsFiniteSet(Inside(at))
    BY <1>1, CountsBounded DEF PermitsOK
  <2>6. /\ Cardinality(Holders(at)) \in Nat /\ Cardinality(Inside(at)) \in Nat
        /\ Cardinality(Holders(at')) = Cardinality(Holders(at)) + 1
        /\ Cardinality(Inside(at')) = Cardinality(Inside(at)) + 1
        /\ IsFiniteSet(Holders(at'))
    <3>1. /\ IsFiniteSet(Holders(at) \cup {g})
          /\ Cardinality(Holders(at) \cup {g}) = Cardinality(Holders(at)) + 1
      BY <2>4, <2>5, FS_AddElement
    <3>2. Cardinality(Inside(at) \cup {g}) = Cardinality(Inside(at)) + 1
      BY <2>4, <2>5, FS_AddElement
    <3>3. Cardinality(Holders(at)) \in Nat /\ Cardinality(Inside(at)) \in Nat
      BY <2>5, FS_CardinalityType
    <3> QED  BY <2>3, <3>1, <3>2, <3>3
  <2>7. PermitsOK(value', at')
    <3>1. value + Cardinality(Holders(at)) = MaxStreams
      BY <1>1 DEF PermitsOK
    <3>2. value' + Cardinality(Holders(at')) = MaxStreams
      BY <2>1, <2>2, <2>6, <3>1
    <3> QED  BY <2>2, <2>6, <3>2 DEF PermitsOK
  <2>8. CountOK(active_count', at')
    BY <1>1, <2>1, <2>6 DEF CountOK
  <2>9. QueueOK(waiters', at')
    <3>1. /\ at' \in [Group -> Places]
          /\ {h \in Group : at'[h] = "waiting"} = {h \in Group : at[h] = "waiting"}
      BY <1>1, <2>1 DEF Places
    <3> QED  BY <1>1, <2>1, <3>1 DEF QueueOK
  <2> QED  BY <2>7, <2>8, <2>9 DEF PoolInv
<1>3. CASE Locked
  <2>1. /\ waiters' = Append(waiters, g) /\ at' = [at EXCEPT ![g] = "waiting"]
        /\ value' = value /\ active_count' = active_count
    BY <1>3 DEF Start
  <2>2. Holders(at') = Holders(at) /\ Inside(at') = Inside(at)
    BY <1>1, <2>1 DEF Holders, Inside
  <2>3. QueueOK(waiters', at')
    <3>1. /\ at' \in [Group -> Places]
          /\ {h \in Group : at'[h] = "waiting"} = {h \in Group : at[h] = "waiting"} \cup {g}
      BY <1>1, <2>1 DEF Places
    <3>2. /\ waiters \in Seq(Group) /\ IsInjective(waiters)
          /\ ToSet(waiters) = {h \in Group : at[h] = "waiting"}
          /\ g \notin ToSet(waiters)
      BY <1>1 DEF QueueOK
    <3>3. /\ waiters' \in Seq(Group) /\ IsInjective(waiters')
          /\ ToSet(waiters') = ToSet(waiters) \cup {g}
      BY <2>1, <3>2, AppendLemma
    <3> QED  BY <3>1, <3>2, <3>3 DEF QueueOK
  <2> QED  BY <1>1, <2>1, <2>2, <2>3 DEF PoolInv, PermitsOK, CountOK
<1> QED
  BY <1>2, <1>3

(* A granted task that runs is counted, and passes on what else is free.   *)
LEMMA EnterOK ==
  ASSUME PoolInv, NEW g \in Group, Enter(g)
  PROVE  PoolInv'
<1> DEFINE places == [at EXCEPT ![g] = "inside"]
<1>1. /\ QueueOK(waiters, at) /\ PermitsOK(value, at) /\ CountOK(active_count, at)
      /\ at[g] = "granted" /\ at \in [Group -> Places]
      /\ WakeAll(value, places, waiters) /\ active_count' = active_count + 1
  BY DEF PoolInv, QueueOK, Enter
<1>2. Holders(places) = Holders(at) /\ Inside(places) = Inside(at) \cup {g}
  BY <1>1 DEF Holders, Inside
<1>3. /\ places \in [Group -> Places]
      /\ {h \in Group : places[h] = "waiting"} = {h \in Group : at[h] = "waiting"}
  BY <1>1 DEF Places
<1> HIDE DEF places
<1>4. QueueOK(waiters, places) /\ PermitsOK(value, places)
  BY <1>1, <1>2, <1>3 DEF QueueOK, PermitsOK
<1>5. /\ QueueOK(waiters', at') /\ PermitsOK(value', at')
      /\ Inside(at') = Inside(at) \cup {g}
  BY <1>1, <1>2, <1>4, WakeKeeps
<1>6. IsFiniteSet(Inside(at)) /\ g \notin Inside(at)
  BY <1>1, CountsBounded DEF Inside
<1>7. Cardinality(Inside(at) \cup {g}) = Cardinality(Inside(at)) + 1
  BY <1>6, FS_AddElement
<1> QED
  BY <1>1, <1>5, <1>7 DEF PoolInv, CountOK

(* A start that is over gives its permit to the first in the queue.        *)
LEMMA LeaveOK ==
  ASSUME PoolInv, NEW g \in Group, Leave(g)
  PROVE  PoolInv'
<1> DEFINE places == [at EXCEPT ![g] = "out"]
<1>1. /\ QueueOK(waiters, at) /\ PermitsOK(value, at) /\ CountOK(active_count, at)
      /\ at[g] = "inside" /\ at \in [Group -> Places]
      /\ WakeOne(value + 1, places, waiters)
      /\ active_count' = IF active_count > 0 THEN active_count - 1 ELSE 0
  BY DEF PoolInv, QueueOK, Leave
<1>2. PermitsOK(value + 1, places)
  BY <1>1, OneHolderLess DEF Holders, Places
<1>3. /\ places \in [Group -> Places]
      /\ {h \in Group : places[h] = "waiting"} = {h \in Group : at[h] = "waiting"}
      /\ Inside(places) = Inside(at) \ {g}
  BY <1>1 DEF Places, Inside
<1> HIDE DEF places
<1>4. QueueOK(waiters, places)
  BY <1>1, <1>3 DEF QueueOK
<1>5. value + 1 # 0
  BY <1>1 DEF PermitsOK
<1>6. /\ QueueOK(waiters', at') /\ PermitsOK(value', at')
      /\ Inside(at') = Inside(at) \ {g}
  BY <1>1, <1>2, <1>3, <1>4, <1>5, WakeKeeps
<1>7. IsFiniteSet(Inside(at)) /\ g \in Inside(at)
  BY <1>1, CountsBounded DEF Inside
<1>8. /\ Cardinality(Inside(at) \ {g}) = Cardinality(Inside(at)) - 1
      /\ Cardinality(Inside(at)) \in Nat /\ Cardinality(Inside(at) \ {g}) \in Nat
  BY <1>7, FS_RemoveElement, FS_CardinalityType
<1>9. active_count' = Cardinality(Inside(at)) - 1
  BY <1>1, <1>8 DEF CountOK
<1> QED
  BY <1>6, <1>8, <1>9 DEF PoolInv, CountOK

(* A cancelled task leaves the queue, or gives back its permit.            *)
LEMMA CancelWaitOK ==
  ASSUME PoolInv, NEW g \in Group, CancelWait(g)
  PROVE  PoolInv'
<1> DEFINE places == [at EXCEPT ![g] = "out"]
<1>1. /\ QueueOK(waiters, at) /\ PermitsOK(value, at) /\ CountOK(active_count, at)
      /\ at \in [Group -> Places] /\ active_count' = active_count
  BY DEF PoolInv, QueueOK, CancelWait
<1>2. places \in [Group -> Places] /\ places[g] = "out" /\ \A h \in Group : h # g => places[h] = at[h]
  BY <1>1 DEF Places
<1>3. CASE \E i \in DOMAIN waiters :
             at[g] = "waiting" /\ waiters[i] = g /\ WakeAll(value, places, RemoveAt(waiters, i))
  <2>1. PICK i \in DOMAIN waiters :
          at[g] = "waiting" /\ waiters[i] = g /\ WakeAll(value, places, RemoveAt(waiters, i))
    BY <1>3
  <2> HIDE DEF places
  <2>2. Holders(places) = Holders(at) /\ Inside(places) = Inside(at)
    BY <1>2, <2>1 DEF Holders, Inside
  <2>3. /\ waiters \in Seq(Group) /\ IsInjective(waiters)
        /\ ToSet(waiters) = {h \in Group : at[h] = "waiting"}
    BY <1>1 DEF QueueOK
  <2>4. /\ RemoveAt(waiters, i) \in Seq(Group) /\ IsInjective(RemoveAt(waiters, i))
        /\ ToSet(RemoveAt(waiters, i)) = ToSet(waiters) \ {g}
    BY <2>1, <2>3, RemoveAtLemma
  <2>5. {h \in Group : places[h] = "waiting"} = ToSet(waiters) \ {g}
    BY <1>2, <2>3
  <2>6. QueueOK(RemoveAt(waiters, i), places) /\ PermitsOK(value, places)
    BY <1>1, <1>2, <2>2, <2>4, <2>5 DEF QueueOK, PermitsOK
  <2>7. /\ QueueOK(waiters', at') /\ PermitsOK(value', at') /\ Inside(at') = Inside(at)
    BY <2>1, <2>2, <2>6, WakeKeeps
  <2> QED  BY <1>1, <2>7 DEF PoolInv, CountOK
<1>4. CASE at[g] = "granted" /\ WakeAll(value + 1, places, waiters)
  <2>1. PermitsOK(value + 1, places)
    BY <1>1, <1>4, OneHolderLess DEF Holders, Places
  <2> HIDE DEF places
  <2>2. /\ {h \in Group : places[h] = "waiting"} = {h \in Group : at[h] = "waiting"}
        /\ Inside(places) = Inside(at)
    BY <1>2, <1>4 DEF Inside
  <2>3. QueueOK(waiters, places)
    BY <1>1, <1>2, <2>2 DEF QueueOK
  <2>4. /\ QueueOK(waiters', at') /\ PermitsOK(value', at') /\ Inside(at') = Inside(at)
    BY <1>4, <2>1, <2>2, <2>3, WakeKeeps
  <2> QED  BY <1>1, <2>4 DEF PoolInv, CountOK
<1> QED
  BY <1>3, <1>4 DEF CancelWait
----------------------------------------------------------------------------------
(* The queue of asyncio.Semaphore holds the starts that wait, each once;   *)
(* the permits and the count of active starts are right, whichever way the *)
(* starts end (semaphore_pool.py:86-108).                                  *)
THEOREM PoolInvariant == Spec => []PoolInv
<1>1. PoolInv /\ [Next]_vars => PoolInv'
  <2> SUFFICES ASSUME PoolInv, [Next]_vars PROVE PoolInv'
    OBVIOUS
  <2>1. CASE Next
    <3>1. PICK g \in Group : Start(g) \/ Enter(g) \/ CancelWait(g) \/ Leave(g)
      BY <2>1 DEF Next
    <3> QED  BY <3>1, StartOK, EnterOK, CancelWaitOK, LeaveOK
  <2>2. CASE UNCHANGED vars
    BY <2>2 DEF vars, PoolInv, QueueOK, PermitsOK, CountOK, Holders, Inside
  <2> QED  BY <2>1, <2>2
<1> QED
  BY InitOK, <1>1, PTL DEF Spec

(* No permit is lost or made up by a start that succeeds, fails or is      *)
(* cancelled while it waits, and active_count is the number of starts      *)
(* inside: the clip at 0 in __aexit__ never hides a miscount               *)
(* (semaphore_pool.py:60-66, 86-108).                                      *)
THEOREM PoolBalanced == Spec => []Balanced
<1>1. PoolInv => Balanced
  <2>1. AtPlaces({"granted", "inside"}) = Holders(at) /\ AtPlaces({"inside"}) = Inside(at)
    BY DEF AtPlaces, Holders, Inside
  <2> QED  BY <2>1 DEF PoolInv, PermitsOK, CountOK, Balanced
<1> QED
  BY PoolInvariant, <1>1, PTL

(* The semaphore never goes below zero or above its size, and no more      *)
(* starts are active at once than max_concurrent_streams allows            *)
(* (semaphore_pool.py:25-41).                                              *)
THEOREM PoolTypeCorrect == Spec => []TypeOK
<1>1. PoolInv => TypeOK
  <2> SUFFICES ASSUME PoolInv PROVE TypeOK
    OBVIOUS
  <2>1. /\ value \in 0 .. MaxStreams
        /\ Cardinality(Inside(at)) \in 0 .. MaxStreams
    BY CountsBounded DEF PoolInv
  <2> QED  BY <2>1 DEF PoolInv, QueueOK, CountOK, TypeOK
<1> QED
  BY PoolInvariant, <1>1, PTL
==================================================================================
