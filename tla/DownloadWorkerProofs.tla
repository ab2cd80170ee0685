-------------------------- MODULE DownloadWorkerProofs --------------------------
(***************************************************************************)
(* Downloads and the cache, for any URLs, any number of handlers and of    *)
(* faults.  The lock: unless it expires nobody shares it, and unless       *)
(* handling is broken off nobody leaves it behind; the cache enters only   *)
(* by keeping a task inside, or outside, the try block.  The cache: its    *)
(* three records differ only where a task is about to go on, while the     *)
(* files exceed the limit some task is to measure them, and a put that is  *)
(* alone never evicts the file it has just put.                            *)
(***************************************************************************)
EXTENDS DownloadWorker, ListLemmas

\* The local variables of a task, whatever the cache puts in the last three.
Record(r) == [at |-> r.at, hash |-> r.hash, victim |-> r.victim,
              evicting |-> r.evicting, left |-> r.left, total |-> r.total]

\* A task that is up has a hash, and evicts in the try block only.
Role(r) == /\ r = Record(r)
           /\ r.at \in Steps
           /\ r.hash \in Hash \cup {None}
           /\ r.evicting \in BOOLEAN
           /\ r.at # "asleep" => r.hash \in Hash
           /\ r.evicting = TRUE => r.at \in InTry \cup Finally \cup {"deleting", "removing"}
           /\ r.at \in {"choosing", "inspecting", "finding", "unlinking"} => r.evicting = TRUE

Roles == /\ DOMAIN task = Task
         /\ task = [t \in Task |-> task[t]]
         /\ \A t \in Task : Role(task[t])

\* Who is inside has the lock, until a lock of that URL expires.
Owns == \A t \in Task : Inside(t) /\ task[t].hash \notin expired
                           => locks[task[t].hash] = t

IInv == Roles /\ locks \in [Hash -> Task \cup {None}] /\ Owns /\ LocksHeld

\* At first all sleep.
LEMMA InitIInv == Init => IInv
<1> SUFFICES ASSUME Init PROVE IInv
    OBVIOUS
<1>1. \A t \in Task : task[t] = Asleep
    BY DEF Init, Task0
<1>2. Roles
    BY <1>1 DEF Init, Task0, Roles, Role, Record, Asleep, Steps, InTry, Finally
<1>3. locks = [h \in Hash |-> None]
    BY DEF Init
<1>4. \A t \in Task : ~Inside(t)
    BY <1>1 DEF Inside, InTry, Finally, Asleep
<1> QED
    BY <1>2, <1>3, <1>4 DEF IInv, Owns, LocksHeld

\* One task changes, to a record that has a role.
LEMMA OneMoves ==
    ASSUME Roles, NEW t \in Task, NEW r, task' = [task EXCEPT ![t] = r], Role(r)
    PROVE  Roles' /\ task'[t] = r /\ \A u \in Task \ {t} : task'[u] = task[u]
<1>1. DOMAIN task = Task /\ task = [u \in Task |-> task[u]] /\ \A u \in Task : Role(task[u])
    BY DEF Roles
<1>2. task' = [u \in Task |-> IF u = t THEN r ELSE task[u]]
    BY <1>1
<1>3. Roles'
    BY <1>1, <1>2 DEF Roles
<1> QED
    BY <1>2, <1>3

\* Asleep is a role, outside of the try block.
LEMMA AsleepIsARole == Role(Asleep) /\ Asleep.at = "asleep" /\ Asleep.evicting = FALSE
    BY DEF Role, Record, Asleep, Steps

\* A task that goes to a step keeps its local variables.
LEMMA GoStays ==
    ASSUME Roles, NEW t \in Task, NEW s \in Steps \ {"asleep"}, Go(t, s), ~At(t, "asleep"),
           task[t].evicting = TRUE => s \in InTry \cup Finally \cup {"deleting", "removing"},
           s \in {"choosing", "inspecting", "finding", "unlinking"} => task[t].evicting = TRUE
    PROVE  /\ Roles'
           /\ \A u \in Task \ {t} : task'[u] = task[u]
           /\ task'[t].at = s
           /\ task'[t].hash = task[t].hash
           /\ task'[t].evicting = task[t].evicting
<1> DEFINE r == [task[t] EXCEPT !.at = s]
<1>1. task' = [task EXCEPT ![t] = r]
    BY DEF Go
<1>2. Role(task[t])
    BY DEF Roles
<1>3. r = [at |-> s, hash |-> task[t].hash, victim |-> task[t].victim,
            evicting |-> task[t].evicting, left |-> task[t].left, total |-> task[t].total]
    BY <1>2 DEF Role, Record
<1>4. r.at = s /\ r.hash = task[t].hash /\ r.evicting = task[t].evicting
    BY <1>3
<1> HIDE DEF r
<1>5. Role(r)
    BY <1>2, <1>3 DEF Role, Record, At
<1> QED
    BY <1>1, <1>4, <1>5, OneMoves

\* A step of the cache is a step of one task, which stays where it is as to
\* the try block, and inside it keeps its hash.
LEMMA CacheStepStays ==
    ASSUME Roles, NEW t \in Task, CacheStep(t)
    PROVE  /\ Roles'
           /\ \A u \in Task \ {t} : task'[u] = task[u]
           /\ Inside(t)' <=> Inside(t)
           /\ Inside(t) => task'[t].hash = task[t].hash
<1>0. Role(task[t]) /\ DOMAIN task = Task
    BY DEF Roles
<1>1. CASE ReadMeta(t)
  <2> DEFINE s == IF task[t].hash \in meta THEN "looking" ELSE "locking"
  <2>1. Go(t, s) /\ ~At(t, "asleep")
    BY <1>1 DEF ReadMeta, At
  <2>2. s \in Steps \ {"asleep"}
    BY DEF Steps
  <2>3. /\ task[t].evicting = TRUE => s \in InTry \cup Finally \cup {"deleting", "removing"}
        /\ s \in {"choosing", "inspecting", "finding", "unlinking"} => task[t].evicting = TRUE
    BY <1>0, <1>1 DEF ReadMeta, At, Role, InTry, Finally
  <2>4. task[t].at \in InTry \cup Finally \/ task[t].evicting = TRUE
          <=> s \in InTry \cup Finally \/ task[t].evicting = TRUE
    BY <1>0, <1>1 DEF ReadMeta, At, Role, InTry, Finally
  <2> HIDE DEF s
  <2> QED
    BY <1>0, <2>1, <2>2, <2>3, <2>4, GoStays DEF Inside, Role
<1>2. CASE LookForFile(t)
  <2> DEFINE r == [at |-> IF task[t].hash \in files THEN "touching" ELSE "deleting",
                   hash |-> task[t].hash,
                   victim |-> IF task[t].hash \in files THEN task[t].victim
                                                       ELSE task[t].hash,
                   evicting |-> task[t].evicting, left |-> task[t].left, total |-> task[t].total]
  <2>1. task' = [task EXCEPT ![t] = r]
    BY <1>0, <1>2 DEF LookForFile, At, Go, Role, Record
  <2>2. /\ Role(r)
        /\ r.hash = task[t].hash
        /\ task[t].at \in InTry \cup Finally \/ task[t].evicting = TRUE
             <=> r.at \in InTry \cup Finally \/ r.evicting = TRUE
    BY <1>0, <1>2 DEF LookForFile, At, Role, Record, InTry, Finally, Steps
  <2> HIDE DEF r
  <2> QED
    BY <1>0, <2>1, <2>2, OneMoves DEF Inside, Role
<1>3. CASE Touch(t)
  <2>1. task' = [task EXCEPT ![t] = Asleep]
    BY <1>3 DEF Touch, Sleep
  <2>2. ~Inside(t)
    BY <1>0, <1>3 DEF Touch, At, Role, Inside, InTry, Finally
  <2> QED
    BY <2>1, <2>2, AsleepIsARole, OneMoves DEF Inside, InTry, Finally
<1>4. CASE WriteMeta(t)
  <2> DEFINE s == "ranking"
  <2>1. Go(t, s) /\ ~At(t, "asleep")
    BY <1>4 DEF WriteMeta, At
  <2>2. s \in Steps \ {"asleep"}
    BY DEF Steps
  <2>3. /\ task[t].evicting = TRUE => s \in InTry \cup Finally \cup {"deleting", "removing"}
        /\ s \in {"choosing", "inspecting", "finding", "unlinking"} => task[t].evicting = TRUE
    BY <1>0, <1>4 DEF WriteMeta, At, Role, InTry, Finally
  <2>4. task[t].at \in InTry \cup Finally \/ task[t].evicting = TRUE
          <=> s \in InTry \cup Finally \/ task[t].evicting = TRUE
    BY <1>0, <1>4 DEF WriteMeta, At, Role, InTry, Finally
  <2> HIDE DEF s
  <2> QED
    BY <1>0, <2>1, <2>2, <2>3, <2>4, GoStays DEF Inside, Role
<1>5. CASE Rank(t)
  <2> DEFINE s == "listing"
  <2>1. Go(t, s) /\ ~At(t, "asleep")
    BY <1>5 DEF Rank, At
  <2>2. s \in Steps \ {"asleep"}
    BY DEF Steps
  <2>3. /\ task[t].evicting = TRUE => s \in InTry \cup Finally \cup {"deleting", "removing"}
        /\ s \in {"choosing", "inspecting", "finding", "unlinking"} => task[t].evicting = TRUE
    BY <1>0, <1>5 DEF Rank, At, Role, InTry, Finally
  <2>4. task[t].at \in InTry \cup Finally \/ task[t].evicting = TRUE
          <=> s \in InTry \cup Finally \/ task[t].evicting = TRUE
    BY <1>0, <1>5 DEF Rank, At, Role, InTry, Finally
  <2> HIDE DEF s
  <2> QED
    BY <1>0, <2>1, <2>2, <2>3, <2>4, GoStays DEF Inside, Role
<1>6. CASE List(t)
  <2> DEFINE r == [at |-> "summing", hash |-> task[t].hash, victim |-> task[t].victim,
                   evicting |-> task[t].evicting, left |-> lru, total |-> 0]
  <2>1. task' = [task EXCEPT ![t] = r]
    <3>1. task'[t] = r
      BY <1>0, <1>6 DEF List, At, Role, Record
    <3>2. DOMAIN task' = Task /\ task' = [u \in Task |-> task'[u]]
      BY <1>0, <1>6 DEF List
    <3>3. \A u \in Task \ {t} : task'[u] = task[u]
      BY <1>0, <1>6 DEF List
    <3> QED
      BY <1>0, <3>1, <3>2, <3>3
  <2>2. /\ Role(r)
        /\ r.hash = task[t].hash
        /\ task[t].at \in InTry \cup Finally \/ task[t].evicting = TRUE
             <=> r.at \in InTry \cup Finally \/ r.evicting = TRUE
    BY <1>0, <1>6 DEF List, At, Role, Record, InTry, Finally, Steps
  <2> HIDE DEF r
  <2> QED
    BY <1>0, <2>1, <2>2, OneMoves DEF Inside, Role
<1>7. CASE AddSize(t)
  <2> DEFINE r == [at |-> task[t].at, hash |-> task[t].hash, victim |-> task[t].victim,
                   evicting |-> task[t].evicting, left |-> Tail(task[t].left),
                   total |-> task[t].total + (IF Head(task[t].left) \in meta
                                              THEN Size[Head(task[t].left)] ELSE 0)]
  <2>1. task' = [task EXCEPT ![t] = r]
    <3>1. task'[t] = r
      BY <1>0, <1>7 DEF AddSize, At, Role, Record
    <3>2. DOMAIN task' = Task /\ task' = [u \in Task |-> task'[u]]
      BY <1>0, <1>7 DEF AddSize
    <3>3. \A u \in Task \ {t} : task'[u] = task[u]
      BY <1>0, <1>7 DEF AddSize
    <3> QED
      BY <1>0, <3>1, <3>2, <3>3
  <2>2. /\ Role(r)
        /\ r.hash = task[t].hash
        /\ task[t].at \in InTry \cup Finally \/ task[t].evicting = TRUE
             <=> r.at \in InTry \cup Finally \/ r.evicting = TRUE
    BY <1>0, <1>7 DEF AddSize, At, Role, Record, InTry, Finally, Steps
  <2> HIDE DEF r
  <2> QED
    BY <1>0, <2>1, <2>2, OneMoves DEF Inside, Role
<1>8. CASE OverLimit(t)
  <2> DEFINE r == [at |-> IF task[t].evicting THEN "choosing" ELSE "listing",
                   hash |-> task[t].hash, victim |-> task[t].victim,
                   evicting |-> TRUE, left |-> task[t].left, total |-> 0]
  <2>1. task' = [task EXCEPT ![t] = r]
    <3>1. task'[t] = r
      BY <1>0, <1>8 DEF OverLimit, At, Role, Record
    <3>2. DOMAIN task' = Task /\ task' = [u \in Task |-> task'[u]]
      BY <1>0, <1>8 DEF OverLimit
    <3>3. \A u \in Task \ {t} : task'[u] = task[u]
      BY <1>0, <1>8 DEF OverLimit
    <3> QED
      BY <1>0, <3>1, <3>2, <3>3
  <2>2. /\ Role(r)
        /\ r.hash = task[t].hash
        /\ task[t].at \in InTry \cup Finally \/ task[t].evicting = TRUE
             <=> r.at \in InTry \cup Finally \/ r.evicting = TRUE
    BY <1>0, <1>8 DEF OverLimit, At, Role, Record, InTry, Finally, Steps
  <2> HIDE DEF r
  <2> QED
    BY <1>0, <2>1, <2>2, OneMoves DEF Inside, Role
<1>9. CASE WithinLimit(t)
  <2> DEFINE s == "answering"
  <2>1. Go(t, s) /\ ~At(t, "asleep")
    BY <1>9 DEF WithinLimit, At
  <2>2. s \in Steps \ {"asleep"}
    BY DEF Steps
  <2>3. /\ task[t].evicting = TRUE => s \in InTry \cup Finally \cup {"deleting", "removing"}
        /\ s \in {"choosing", "inspecting", "finding", "unlinking"} => task[t].evicting = TRUE
    BY <1>0, <1>9 DEF WithinLimit, At, Role, InTry, Finally
  <2>4. task[t].at \in InTry \cup Finally \/ task[t].evicting = TRUE
          <=> s \in InTry \cup Finally \/ task[t].evicting = TRUE
    BY <1>0, <1>9 DEF WithinLimit, At, Role, InTry, Finally
  <2> HIDE DEF s
  <2> QED
    BY <1>0, <2>1, <2>2, <2>3, <2>4, GoStays DEF Inside, Role
<1>10. CASE ChooseOldest(t)
  <2> DEFINE r == [at |-> IF lru = <<>> THEN "answering" ELSE "inspecting",
                   hash |-> task[t].hash,
                   victim |-> IF lru = <<>> THEN task[t].victim ELSE Head(lru),
                   evicting |-> task[t].evicting, left |-> task[t].left, total |-> task[t].total]
  <2>1. task' = [task EXCEPT ![t] = r]
    BY <1>0, <1>10 DEF ChooseOldest, At, Go, Role, Record
  <2>2. /\ Role(r)
        /\ r.hash = task[t].hash
        /\ task[t].at \in InTry \cup Finally \/ task[t].evicting = TRUE
             <=> r.at \in InTry \cup Finally \/ r.evicting = TRUE
    BY <1>0, <1>10 DEF ChooseOldest, At, Role, Record, InTry, Finally, Steps
  <2> HIDE DEF r
  <2> QED
    BY <1>0, <2>1, <2>2, OneMoves DEF Inside, Role
<1>11. CASE Inspect(t)
  <2> DEFINE s == IF task[t].victim \in meta THEN "finding" ELSE "deleting"
  <2>1. Go(t, s) /\ ~At(t, "asleep")
    BY <1>11 DEF Inspect, At
  <2>2. s \in Steps \ {"asleep"}
    BY DEF Steps
  <2>3. /\ task[t].evicting = TRUE => s \in InTry \cup Finally \cup {"deleting", "removing"}
        /\ s \in {"choosing", "inspecting", "finding", "unlinking"} => task[t].evicting = TRUE
    BY <1>0, <1>11 DEF Inspect, At, Role, InTry, Finally
  <2>4. task[t].at \in InTry \cup Finally \/ task[t].evicting = TRUE
          <=> s \in InTry \cup Finally \/ task[t].evicting = TRUE
    BY <1>0, <1>11 DEF Inspect, At, Role, InTry, Finally
  <2> HIDE DEF s
  <2> QED
    BY <1>0, <2>1, <2>2, <2>3, <2>4, GoStays DEF Inside, Role
<1>12. CASE FindFile(t)
  <2> DEFINE s == IF task[t].victim \in files THEN "unlinking" ELSE "deleting"
  <2>1. Go(t, s) /\ ~At(t, "asleep")
    BY <1>12 DEF FindFile, At
  <2>2. s \in Steps \ {"asleep"}
    BY DEF Steps
  <2>3. /\ task[t].evicting = TRUE => s \in InTry \cup Finally \cup {"deleting", "removing"}
        /\ s \in {"choosing", "inspecting", "finding", "unlinking"} => task[t].evicting = TRUE
    BY <1>0, <1>12 DEF FindFile, At, Role, InTry, Finally
  <2>4. task[t].at \in InTry \cup Finally \/ task[t].evicting = TRUE
          <=> s \in InTry \cup Finally \/ task[t].evicting = TRUE
    BY <1>0, <1>12 DEF FindFile, At, Role, InTry, Finally
  <2> HIDE DEF s
  <2> QED
    BY <1>0, <2>1, <2>2, <2>3, <2>4, GoStays DEF Inside, Role
<1>13. CASE Unlink(t)
  <2> DEFINE s == IF task[t].victim \in files THEN "deleting" ELSE "releasing"
  <2>1. Go(t, s) /\ ~At(t, "asleep")
    BY <1>13 DEF Unlink, At
  <2>2. s \in Steps \ {"asleep"}
    BY DEF Steps
  <2>3. /\ task[t].evicting = TRUE => s \in InTry \cup Finally \cup {"deleting", "removing"}
        /\ s \in {"choosing", "inspecting", "finding", "unlinking"} => task[t].evicting = TRUE
    BY <1>0, <1>13 DEF Unlink, At, Role, InTry, Finally
  <2>4. task[t].at \in InTry \cup Finally \/ task[t].evicting = TRUE
          <=> s \in InTry \cup Finally \/ task[t].evicting = TRUE
    BY <1>0, <1>13 DEF Unlink, At, Role, InTry, Finally
  <2> HIDE DEF s
  <2> QED
    BY <1>0, <2>1, <2>2, <2>3, <2>4, GoStays DEF Inside, Role
<1>14. CASE Delete(t)
  <2> DEFINE s == "removing"
  <2>1. Go(t, s) /\ ~At(t, "asleep")
    BY <1>14 DEF Delete, At
  <2>2. s \in Steps \ {"asleep"}
    BY DEF Steps
  <2>3. /\ task[t].evicting = TRUE => s \in InTry \cup Finally \cup {"deleting", "removing"}
        /\ s \in {"choosing", "inspecting", "finding", "unlinking"} => task[t].evicting = TRUE
    BY <1>0, <1>14 DEF Delete, At, Role, InTry, Finally
  <2>4. task[t].at \in InTry \cup Finally \/ task[t].evicting = TRUE
          <=> s \in InTry \cup Finally \/ task[t].evicting = TRUE
    BY <1>0, <1>14 DEF Delete, At, Role, InTry, Finally
  <2> HIDE DEF s
  <2> QED
    BY <1>0, <2>1, <2>2, <2>3, <2>4, GoStays DEF Inside, Role
<1>15. CASE RemoveMember(t)
  <2> DEFINE r == [at |-> IF task[t].evicting THEN "listing" ELSE "locking",
                   hash |-> task[t].hash, victim |-> None,
                   evicting |-> task[t].evicting, left |-> task[t].left, total |-> task[t].total]
  <2>1. task' = [task EXCEPT ![t] = r]
    <3>1. task'[t] = r
      BY <1>0, <1>15 DEF RemoveMember, At, Role, Record
    <3>2. DOMAIN task' = Task /\ task' = [u \in Task |-> task'[u]]
      BY <1>0, <1>15 DEF RemoveMember
    <3>3. \A u \in Task \ {t} : task'[u] = task[u]
      BY <1>0, <1>15 DEF RemoveMember
    <3> QED
      BY <1>0, <3>1, <3>2, <3>3
  <2>2. /\ Role(r)
        /\ r.hash = task[t].hash
        /\ task[t].at \in InTry \cup Finally \/ task[t].evicting = TRUE
             <=> r.at \in InTry \cup Finally \/ r.evicting = TRUE
    BY <1>0, <1>15 DEF RemoveMember, At, Role, Record, InTry, Finally, Steps
  <2> HIDE DEF r
  <2> QED
    BY <1>0, <2>1, <2>2, OneMoves DEF Inside, Role
<1> QED
    BY <1>1, <1>2, <1>3, <1>4, <1>5, <1>6, <1>7, <1>8, <1>9, <1>10, <1>11, <1>12,
       <1>13, <1>14, <1>15 DEF CacheStep

\* A task that neither enters nor leaves disturbs nothing.
LEMMA StayingIsHarmless ==
    ASSUME IInv, NEW t \in Task,
           Roles', \A u \in Task \ {t} : task'[u] = task[u],
           Inside(t)' <=> Inside(t), Inside(t) => task'[t].hash = task[t].hash,
           locks' = locks, expired' = expired, broken \subseteq broken'
    PROVE  IInv'
<1>1. \A u \in Task : Inside(u)' <=> Inside(u)
    BY DEF Inside
<1>2. \A u \in Task : Inside(u) => task'[u].hash = task[u].hash
    OBVIOUS
<1>3. Owns'
    BY <1>1, <1>2 DEF IInv, Owns
<1>4. LocksHeld'
    BY <1>1, <1>2 DEF IInv, LocksHeld
<1> QED
    BY <1>3, <1>4 DEF IInv

\* Each action preserves the invariant.
LEMMA NextKeepsIInv ==
    ASSUME IInv, [Next]_vars
    PROVE  IInv'
<1>0. /\ Roles /\ DOMAIN task = Task /\ \A t \in Task : Role(task[t])
      /\ locks \in [Hash -> Task \cup {None}] /\ Owns /\ LocksHeld /\ None \notin Task
    BY CacheAssumption DEF IInv, Roles
<1>1. ASSUME NEW t \in Task, NEW h \in Hash, Request(t, h) PROVE IInv'
  <2> DEFINE r == [at |-> "reading", hash |-> h, victim |-> task[t].victim,
                   evicting |-> task[t].evicting, left |-> task[t].left,
                   total |-> task[t].total]
  <2>1. Role(task[t])
    BY <1>0
  <2>2. Role(r) /\ r.at = "reading" /\ r.evicting = task[t].evicting
    BY <1>1, <2>1 DEF Role, Record, Request, At, Steps, InTry, Finally
  <2>3. task' = [task EXCEPT ![t] = r]
    <3>1. task'[t] = r
      BY <1>0, <1>1, <2>1 DEF Request, Role, Record
    <3>2. DOMAIN task' = Task /\ task' = [u \in Task |-> task'[u]]
      BY <1>0, <1>1 DEF Request
    <3>3. \A u \in Task \ {t} : task'[u] = task[u]
      BY <1>0, <1>1 DEF Request
    <3> QED
      BY <1>0, <3>1, <3>2, <3>3
  <2> HIDE DEF r
  <2>4. Roles' /\ task'[t] = r /\ \A u \in Task \ {t} : task'[u] = task[u]
    BY <1>0, <2>2, <2>3, OneMoves
  <2>5. ~Inside(t) /\ ~Inside(t)'
    BY <1>0, <1>1, <2>2, <2>4 DEF Request, At, Role, Inside, InTry, Finally
  <2> QED
    BY <1>1, <2>4, <2>5, StayingIsHarmless DEF Request
<1>2. ASSUME NEW t \in Task, UseCache(t) PROVE IInv'
  <2>1. CacheStep(t) /\ locks' = locks /\ expired' = expired /\ broken' = broken
    BY <1>2 DEF UseCache, history
  <2> QED
    BY <1>0, <2>1, CacheStepStays, StayingIsHarmless
<1>3. ASSUME NEW t \in Task, AcquireLock(t) PROVE IInv'
  <2> DEFINE h == task[t].hash
  <2>1. /\ h \in Hash /\ ~Inside(t) /\ expired' = expired /\ broken' = broken
        /\ task[t].evicting # TRUE
    BY <1>0, <1>3 DEF AcquireLock, At, Role, Inside, InTry, Finally, history
  <2>2. CASE locks[h] = None
    <3>1. Go(t, "fetching") /\ locks' = [locks EXCEPT ![h] = t]
      BY <1>3, <2>2 DEF AcquireLock
    <3>2. /\ Roles' /\ \A u \in Task \ {t} : task'[u] = task[u]
          /\ task'[t].at = "fetching" /\ task'[t].hash = h
      BY <1>0, <1>3, <2>1, <3>1, GoStays DEF AcquireLock, At, Steps
    <3>3. Inside(t)' /\ \A u \in Task \ {t} : Inside(u)' <=> Inside(u)
      BY <3>2 DEF Inside, InTry, Finally
    <3> HIDE DEF h
    <3>4. Owns'
      BY <1>0, <2>1, <2>2, <3>1, <3>2, <3>3 DEF Owns
    <3>5. LocksHeld'
      BY <1>0, <2>1, <2>2, <3>1, <3>2, <3>3 DEF LocksHeld
    <3> QED
      BY <1>0, <3>1, <3>2, <3>4, <3>5 DEF IInv
  <2>3. CASE locks[h] # None
    <3>1. task' = [task EXCEPT ![t] = Asleep] /\ locks' = locks
      BY <1>3, <2>3 DEF AcquireLock, Sleep
    <3>2. Roles' /\ task'[t] = Asleep /\ \A u \in Task \ {t} : task'[u] = task[u]
      BY <1>0, <3>1, AsleepIsARole, OneMoves
    <3>3. ~Inside(t)'
      BY <3>2, AsleepIsARole DEF Inside, InTry, Finally
    <3> QED
      BY <2>1, <3>1, <3>2, <3>3, StayingIsHarmless
  <2> QED
    BY <2>2, <2>3
<1>4. ASSUME NEW t \in Task, Fetch(t) PROVE IInv'
  <2>1. \E s \in {"checking", "releasing"} : Go(t, s)
    BY <1>4 DEF Fetch
  <2>2. /\ Roles' /\ \A u \in Task \ {t} : task'[u] = task[u]
        /\ task'[t].at \in {"checking", "releasing"} /\ task'[t].hash = task[t].hash
    BY <1>0, <1>4, <2>1, GoStays DEF Fetch, At, Steps, InTry, Finally
  <2>3. Inside(t) /\ Inside(t)'
    BY <1>4, <2>2 DEF Fetch, At, Inside, InTry, Finally
  <2> QED
    BY <1>4, <2>2, <2>3, StayingIsHarmless DEF Fetch, history
<1>5. ASSUME NEW t \in Task, CheckFile(t) PROVE IInv'
  <2>1. \E s \in {"writing", "releasing"} : Go(t, s)
    BY <1>5 DEF CheckFile
  <2>2. /\ Roles' /\ \A u \in Task \ {t} : task'[u] = task[u]
        /\ task'[t].at \in {"writing", "releasing"} /\ task'[t].hash = task[t].hash
    BY <1>0, <1>5, <2>1, GoStays DEF CheckFile, At, Steps, InTry, Finally
  <2>3. Inside(t) /\ Inside(t)'
    BY <1>5, <2>2 DEF CheckFile, At, Inside, InTry, Finally
  <2> QED
    BY <1>5, <2>2, <2>3, StayingIsHarmless DEF CheckFile, history
<1>6. ASSUME NEW t \in Task, ReleaseLock(t) PROVE IInv'
  <2> DEFINE h == task[t].hash
  <2>1. /\ h \in Hash /\ Inside(t) /\ expired' = expired /\ broken' = broken
        /\ locks' = [locks EXCEPT ![h] = None] /\ task' = [task EXCEPT ![t] = Asleep]
    BY <1>0, <1>6 DEF ReleaseLock, At, Sleep, Role, Inside, InTry, Finally, history
  <2>2. Roles' /\ task'[t] = Asleep /\ \A u \in Task \ {t} : task'[u] = task[u]
    BY <1>0, <2>1, AsleepIsARole, OneMoves
  <2>3. ~Inside(t)' /\ \A u \in Task \ {t} : Inside(u)' <=> Inside(u)
    BY <2>2, AsleepIsARole DEF Inside, InTry, Finally
  <2>4. \A k \in Hash \ (broken \cup {h}) : locks[k] # t
    BY <1>0 DEF LocksHeld
  <2> HIDE DEF h
  <2>5. Owns'
    <3> SUFFICES ASSUME NEW u \in Task, Inside(u)', task'[u].hash \notin expired'
                 PROVE  locks'[task'[u].hash] = u
      BY DEF Owns
    <3>1. u # t /\ Inside(u) /\ task'[u] = task[u] /\ task[u].hash \notin expired
      BY <2>1, <2>2, <2>3
    <3>2. locks[task[u].hash] = u
      BY <1>0, <3>1 DEF Owns
    <3>3. task[u].hash # h
      BY <1>0, <2>1, <3>1, <3>2 DEF Owns, h
    <3>4. task[u].hash \in Hash
      BY <1>0, <3>1 DEF Role, Inside, InTry, Finally
    <3> QED
      BY <1>0, <2>1, <3>1, <3>2, <3>3, <3>4
  <2>6. LocksHeld'
    BY <1>0, <2>1, <2>2, <2>3, <2>4 DEF LocksHeld
  <2> QED
    BY <1>0, <2>1, <2>2, <2>5, <2>6 DEF IInv
<1>7. ASSUME NEW t \in Task, Interrupt(t) PROVE IInv'
  <2>1. /\ locks' = locks /\ expired' = expired
        /\ broken' = broken \cup {h \in Hash : h \in {task[t].hash, task[t].victim}}
    BY <1>7 DEF Interrupt, BreakOff
  <2>2. CASE Inside(t) /\ task[t].at \notin Finally
    <3>1. Go(t, "releasing") /\ ~At(t, "asleep")
      BY <1>7, <2>2 DEF Interrupt, AtCommand, At
    <3>2. /\ Roles' /\ \A u \in Task \ {t} : task'[u] = task[u]
          /\ task'[t].at = "releasing" /\ task'[t].hash = task[t].hash
      BY <1>0, <3>1, GoStays DEF Steps, Finally
    <3>3. Inside(t)'
      BY <3>2 DEF Inside, Finally
    <3> QED
      BY <2>1, <2>2, <3>2, <3>3, StayingIsHarmless
  <2>3. CASE ~(Inside(t) /\ task[t].at \notin Finally)
    <3>1. task' = [task EXCEPT ![t] = Asleep]
      BY <1>7, <2>3 DEF Interrupt, Sleep
    <3>2. Roles' /\ task'[t] = Asleep /\ \A u \in Task \ {t} : task'[u] = task[u]
      BY <1>0, <3>1, AsleepIsARole, OneMoves
    <3>3. ~Inside(t)' /\ \A u \in Task \ {t} : Inside(u)' <=> Inside(u)
      BY <3>2, AsleepIsARole DEF Inside, InTry, Finally
    <3>4. Owns'
      BY <1>0, <2>1, <3>2, <3>3 DEF Owns
    <3>5. LocksHeld'
      BY <1>0, <2>1, <3>2, <3>3 DEF LocksHeld
    <3> QED
      BY <1>0, <2>1, <3>2, <3>4, <3>5 DEF IInv
  <2> QED
    BY <2>2, <2>3
<1>8. ASSUME NEW h \in Hash, Expire(h) PROVE IInv'
  <2>1. /\ locks' = [locks EXCEPT ![h] = None] /\ expired' = expired \cup {h}
        /\ task' = task /\ broken' = broken
    BY <1>8 DEF Expire
  <2>2. Roles' /\ \A t \in Task : Inside(t)' <=> Inside(t)
    BY <1>0, <2>1 DEF Roles, Inside
  <2>3. \A t \in Task : Inside(t) => task[t].hash \in Hash
    BY <1>0 DEF Role, Inside, InTry, Finally
  <2>4. Owns'
    BY <1>0, <2>1, <2>2, <2>3 DEF Owns
  <2>5. LocksHeld'
    BY <1>0, <2>1, <2>2 DEF LocksHeld
  <2> QED
    BY <1>0, <2>1, <2>2, <2>4, <2>5 DEF IInv
<1>9. CASE Restart
  <2>1. /\ locks' = locks /\ expired' = expired /\ task' = Task0
        /\ broken' = broken \cup {h \in Hash : \E t \in Task :
                                      h \in {task[t].hash, task[t].victim}}
    BY <1>9 DEF Restart, BreakOff
  <2>2. Roles' /\ \A t \in Task : ~Inside(t)'
    BY <2>1, AsleepIsARole DEF Task0, Roles, Inside, InTry, Finally
  <2>3. Owns'
    BY <2>2 DEF Owns
  <2>4. LocksHeld'
    BY <1>0, <2>1 DEF LocksHeld
  <2> QED
    BY <1>0, <2>1, <2>2, <2>3, <2>4 DEF IInv
<1>10. CASE UNCHANGED vars
  <2>1. task' = task /\ locks' = locks /\ expired' = expired /\ broken' = broken
    BY <1>10 DEF vars, history
  <2> QED
    BY <1>0, <2>1 DEF IInv, Roles, Owns, LocksHeld, Inside
<1> QED
    BY <1>1, <1>2, <1>3, <1>4, <1>5, <1>6, <1>7, <1>8, <1>9, <1>10 DEF Next, Step

\* The invariant of the lock.
THEOREM LockInvariant == Spec => []IInv
<1>1. IInv /\ [Next]_vars => IInv'
    BY NextKeepsIInv
<1> QED
    BY InitIInv, <1>1, PTL DEF Spec

\* The lock of a URL keeps two tasks from handling it at once as long as no
\* lock of that URL expires (download_worker.py:74-99, 245).
THEOREM DownloadsDeduplicated == Spec => []Deduplicated
<1>1. IInv => Deduplicated
    BY DEF IInv, Owns, Deduplicated
<1> QED
    BY LockInvariant, <1>1, PTL

\* No return and no exception of download leaves the lock behind
\* (download_worker.py:169-246).
THEOREM LocksAlwaysHeld == Spec => []LocksHeld
<1>1. IInv => LocksHeld
    BY DEF IInv
<1> QED
    BY LockInvariant, <1>1, PTL
---------------------------------------------------------------------------------
(* Types *)

TaskRecord == [at : Steps, hash : Hash \cup {None}, victim : Hash \cup {None},
               evicting : BOOLEAN, left : Seq(Hash), total : Nat]

TypeInv == TypeOK /\ lru \in Seq(Hash)

\* Task t is afterwards at s, about h, and removes v; the others stay.
Becomes(t, s, h, v) ==
    /\ task'[t].at = s /\ task'[t].hash = h /\ task'[t].victim = v
    /\ \A u \in Task \ {t} : task'[u] = task[u]

Typed(t, s, h, v) == task' \in [Task -> TaskRecord] /\ Becomes(t, s, h, v)

(* Go and Sleep keep the types of the local variables.                     *)
LEMMA GoAndSleep ==
    ASSUME TypeInv, NEW t \in Task
    PROVE  /\ \A s \in Steps : Go(t, s) => Typed(t, s, task[t].hash, task[t].victim)
           /\ Sleep(t) => Typed(t, "asleep", None, None)
<1>1. task \in [Task -> TaskRecord] /\ task[t] \in TaskRecord
    BY DEF TypeInv, TypeOK, TaskRecord
<1>2. ASSUME NEW s \in Steps, Go(t, s) PROVE Typed(t, s, task[t].hash, task[t].victim)
    BY <1>1, <1>2 DEF Go, Typed, Becomes, TaskRecord
<1>3. ASSUME Sleep(t) PROVE Typed(t, "asleep", None, None)
  <2>1. Asleep \in TaskRecord
    BY DEF Asleep, TaskRecord, Steps
  <2> QED
    BY <1>1, <1>3, <2>1 DEF Sleep, Typed, Becomes, Asleep
<1> QED
    BY <1>2, <1>3

(* What each step of the cache does to its task, and to the cache.         *)
LEMMA CacheStepEffect ==
    ASSUME TypeInv, Roles, NEW t \in Task, CacheStep(t), NEW h, h = task[t].hash,
           NEW v, v = task[t].victim
    PROVE  /\ h \in Hash
           /\ v \in Hash \cup {None}
           /\ \/ /\ ReadMeta(t)
                 /\ Typed(t, IF h \in meta THEN "looking" ELSE "locking", h, v)
              \/ /\ LookForFile(t)
                 /\ IF h \in files THEN Typed(t, "touching", h, v) ELSE Typed(t, "deleting", h, h)
              \/ Touch(t) /\ Typed(t, "asleep", None, None)
              \/ WriteMeta(t) /\ Typed(t, "ranking", h, v)
              \/ Rank(t) /\ Typed(t, "listing", h, v)
              \/ List(t) /\ Typed(t, "summing", h, v)
              \/ AddSize(t) /\ Typed(t, "summing", h, v)
              \/ OverLimit(t) /\ \E s \in {"choosing", "listing"} : Typed(t, s, h, v)
              \/ WithinLimit(t) /\ Typed(t, "answering", h, v)
              \/ /\ ChooseOldest(t)
                 /\ \/ lru = <<>> /\ Typed(t, "answering", h, v)
                    \/ \E x \in Hash : Typed(t, "inspecting", h, x)
              \/ /\ Inspect(t)
                 /\ Typed(t, IF v \in meta THEN "finding" ELSE "deleting", h, v)
              \/ /\ FindFile(t)
                 /\ Typed(t, IF v \in files THEN "unlinking" ELSE "deleting", h, v)
              \/ /\ Unlink(t)
                 /\ Typed(t, IF v \in files THEN "deleting" ELSE "releasing", h, v)
              \/ Delete(t) /\ Typed(t, "removing", h, v)
              \/ /\ RemoveMember(t)
                 /\ \E s \in {"listing", "locking"} : Typed(t, s, h, None)
<1>1. /\ task \in [Task -> TaskRecord] /\ task[t] \in TaskRecord
      /\ lru \in Seq(Hash) /\ Role(task[t])
    BY DEF TypeInv, TypeOK, TaskRecord, Roles
<1>2. h \in Hash /\ v \in Hash \cup {None}
  <2>1. task[t].at # "asleep"
    BY DEF CacheStep, ReadMeta, LookForFile, Touch, WriteMeta, Rank, List, AddSize, OverLimit,
           WithinLimit, ChooseOldest, Inspect, FindFile, Unlink, Delete, RemoveMember, At
  <2> QED
    BY <1>1, <2>1 DEF Role, TaskRecord
<1>3. /\ \A s \in Steps : Go(t, s) => Typed(t, s, h, v)
      /\ Sleep(t) => Typed(t, "asleep", None, None)
    BY GoAndSleep
<1>4. /\ {"looking", "locking", "touching", "deleting", "ranking", "listing", "summing"} \subseteq Steps
      /\ {"choosing", "releasing", "answering", "inspecting", "finding", "unlinking", "removing"}
           \subseteq Steps
    BY DEF Steps
<1>5. CASE ReadMeta(t)
    BY <1>2, <1>3, <1>4, <1>5 DEF ReadMeta
<1>6. CASE LookForFile(t)
  <2>1. CASE h \in files
    BY <1>2, <1>3, <1>4, <1>6, <2>1 DEF LookForFile
  <2>2. CASE h \notin files
    <3>1. task' = [task EXCEPT ![t].at = "deleting", ![t].victim = h]
      BY <1>6, <2>2 DEF LookForFile
    <3>2. Typed(t, "deleting", h, h)
      BY <1>1, <1>2, <3>1 DEF Typed, Becomes, TaskRecord, Steps
    <3> QED
      BY <1>2, <1>6, <2>2, <3>2
  <2> QED
    BY <2>1, <2>2
<1>7. CASE Touch(t)
    BY <1>2, <1>3, <1>7 DEF Touch
<1>8. CASE WriteMeta(t)
    BY <1>2, <1>3, <1>4, <1>8 DEF WriteMeta
<1>9. CASE Rank(t)
    BY <1>2, <1>3, <1>4, <1>9 DEF Rank
<1>10. CASE List(t)
  <2>1. Typed(t, "summing", h, v)
    BY <1>1, <1>4, <1>10 DEF List, Typed, Becomes, TaskRecord
  <2> QED
    BY <1>2, <1>10, <2>1
<1>11. CASE AddSize(t)
  <2> DEFINE n == IF Head(task[t].left) \in meta THEN Size[Head(task[t].left)] ELSE 0
             r == [task[t] EXCEPT !.left = Tail(task[t].left), !.total = task[t].total + n]
  <2>1. task[t].left \in Seq(Hash) /\ task[t].left # <<>> /\ task[t].total \in Nat
    BY <1>1, <1>11 DEF AddSize, TaskRecord
  <2>2. Tail(task[t].left) \in Seq(Hash) /\ Head(task[t].left) \in Hash
    BY <2>1, TailLemma
  <2>3. n \in Nat
    BY <2>2, CacheAssumption
  <2>4. task[t].total + n \in Nat
    BY <2>1, <2>3
  <2>5. task' = [task EXCEPT ![t] = r]
    BY <1>1, <1>11 DEF AddSize
  <2> HIDE DEF n
  <2>6. r \in TaskRecord /\ r.at = "summing" /\ r.hash = h /\ r.victim = v
    BY <1>1, <1>11, <2>2, <2>4 DEF TaskRecord, AddSize, At
  <2> HIDE DEF r
  <2>7. Typed(t, "summing", h, v)
    BY <1>1, <2>5, <2>6 DEF Typed, Becomes
  <2> QED
    BY <1>2, <1>11, <2>7
<1>12. CASE OverLimit(t)
  <2>1. PICK s \in {"choosing", "listing"} :
            task' = [task EXCEPT ![t].at = s, ![t].evicting = TRUE, ![t].total = 0]
    BY <1>12 DEF OverLimit
  <2>2. Typed(t, s, h, v)
    BY <1>1, <1>4, <2>1 DEF Typed, Becomes, TaskRecord
  <2> QED
    BY <1>2, <1>12, <2>2
<1>13. CASE WithinLimit(t)
    BY <1>2, <1>3, <1>4, <1>13 DEF WithinLimit
<1>14. CASE ChooseOldest(t)
  <2>1. CASE lru = <<>>
    BY <1>2, <1>3, <1>4, <1>14, <2>1 DEF ChooseOldest
  <2>2. CASE lru # <<>>
    <3>1. Head(lru) \in Hash
      BY <1>1, <2>2, TailLemma
    <3>2. PICK x \in Hash :
              task' = [task EXCEPT ![t].at = "inspecting", ![t].victim = x]
      BY <1>14, <2>2, <3>1 DEF ChooseOldest
    <3>3. Typed(t, "inspecting", h, x)
      BY <1>1, <3>2 DEF Typed, Becomes, TaskRecord, Steps
    <3> QED
      BY <1>2, <1>14, <3>3
  <2> QED
    BY <2>1, <2>2
<1>15. CASE Inspect(t)
    BY <1>2, <1>3, <1>4, <1>15 DEF Inspect
<1>16. CASE FindFile(t)
    BY <1>2, <1>3, <1>4, <1>16 DEF FindFile
<1>17. CASE Unlink(t)
    BY <1>2, <1>3, <1>4, <1>17 DEF Unlink
<1>18. CASE Delete(t)
    BY <1>2, <1>3, <1>4, <1>18 DEF Delete
<1>19. CASE RemoveMember(t)
  <2>1. PICK s \in {"listing", "locking"} :
            task' = [task EXCEPT ![t].at = s, ![t].victim = None]
    BY <1>19 DEF RemoveMember
  <2>2. Typed(t, s, h, None)
    BY <1>1, <1>4, <2>1 DEF Typed, Becomes, TaskRecord
  <2> QED
    BY <1>2, <1>19, <2>2
<1> QED
    BY <1>5, <1>6, <1>7, <1>8, <1>9, <1>10, <1>11, <1>12, <1>13, <1>14, <1>15, <1>16, <1>17,
       <1>18, <1>19 DEF CacheStep

(* What each step of a download, and an interruption of it, does to the    *)
(* task.                                                                   *)
LEMMA WorkerStepEffect ==
    ASSUME TypeInv, Roles, NEW t \in Task, NEW h, h = task[t].hash, NEW v, v = task[t].victim
    PROVE  /\ \A x \in Hash : Request(t, x) => Typed(t, "reading", x, v)
           /\ AcquireLock(t) => \/ Typed(t, "fetching", h, v) \/ Typed(t, "asleep", None, None)
           /\ Fetch(t) => /\ h \in Hash
                          /\ \/ Typed(t, "checking", h, v) /\ files' = files \cup {h}
                             \/ Typed(t, "releasing", h, v) /\ files' = files
           /\ CheckFile(t) =>
                /\ h \in Hash
                /\ Typed(t, IF h \in files THEN "writing" ELSE "releasing", h, v)
           /\ ReleaseLock(t) => h \in Hash /\ Typed(t, "asleep", None, None)
           /\ Interrupt(t) => \/ Typed(t, "releasing", h, v) \/ Typed(t, "asleep", None, None)
<1>1. /\ task \in [Task -> TaskRecord] /\ task[t] \in TaskRecord /\ Role(task[t])
    BY DEF TypeInv, TypeOK, TaskRecord, Roles
<1>2. /\ \A s \in Steps : Go(t, s) => Typed(t, s, h, v)
      /\ Sleep(t) => Typed(t, "asleep", None, None)
    BY GoAndSleep
<1>3. {"reading", "fetching", "checking", "writing", "releasing"} \subseteq Steps
    BY DEF Steps
<1>4. ASSUME NEW x \in Hash, Request(t, x) PROVE Typed(t, "reading", x, v)
  <2>1. task' = [task EXCEPT ![t].at = "reading", ![t].hash = x]
    BY <1>4 DEF Request
  <2> QED
    BY <1>1, <2>1 DEF Typed, Becomes, TaskRecord, Steps
<1>5. Fetch(t) \/ CheckFile(t) \/ ReleaseLock(t) => h \in Hash
    BY <1>1 DEF Fetch, CheckFile, ReleaseLock, At, Role, Finally
<1>6. AcquireLock(t) => \/ Typed(t, "fetching", h, v) \/ Typed(t, "asleep", None, None)
    BY <1>2, <1>3 DEF AcquireLock
<1>7. Fetch(t) => \/ Typed(t, "checking", h, v) /\ files' = files \cup {h}
                  \/ Typed(t, "releasing", h, v) /\ files' = files
    BY <1>2, <1>3 DEF Fetch
<1>8. CheckFile(t) => Typed(t, IF h \in files THEN "writing" ELSE "releasing", h, v)
    BY <1>2, <1>3 DEF CheckFile
<1>9. ReleaseLock(t) => Typed(t, "asleep", None, None)
    BY <1>2 DEF ReleaseLock
<1>10. Interrupt(t) => \/ Typed(t, "releasing", h, v) \/ Typed(t, "asleep", None, None)
    BY <1>2, <1>3 DEF Interrupt
<1> QED
    BY <1>4, <1>5, <1>6, <1>7, <1>8, <1>9, <1>10

(* ZADD and ZREM keep the sorted set a list without repetitions.           *)
LEMMA SortedSet ==
    ASSUME TypeInv, NEW h
    PROVE  /\ h \in Hash => LET r == Append(RemoveFirst(lru, h), h)
                            IN /\ r \in Seq(Hash) /\ IsInjective(r)
                               /\ ToSet(r) = ToSet(lru) \cup {h}
           /\ LET r == RemoveFirst(lru, h)
              IN r \in Seq(Hash) /\ IsInjective(r) /\ ToSet(r) = ToSet(lru) \ {h}
<1>1. lru \in Seq(Hash) /\ IsInjective(lru)
    BY DEF TypeInv, TypeOK
<1> DEFINE r == RemoveFirst(lru, h)
<1>2. r \in Seq(Hash) /\ IsInjective(r) /\ ToSet(r) = ToSet(lru) \ {h}
    BY <1>1, RemoveFirstLemma
<1> HIDE DEF r
<1>3. ASSUME h \in Hash
      PROVE  /\ Append(r, h) \in Seq(Hash) /\ IsInjective(Append(r, h))
             /\ ToSet(Append(r, h)) = ToSet(r) \cup {h}
  <2>1. h \notin ToSet(r)
    BY <1>2
  <2> QED
    BY <1>2, <1>3, <2>1, AppendLemma
<1>4. ASSUME h \in Hash PROVE ToSet(Append(r, h)) = ToSet(lru) \cup {h}
    BY <1>2, <1>3, <1>4
<1> QED
    BY <1>2, <1>3, <1>4 DEF r

(* What a step of the cache does to the cache: it adds its task's hash or  *)
(* removes its task's victim.                                              *)
LEMMA CacheEffect ==
    ASSUME TypeInv, Roles, NEW t \in Task, CacheStep(t), NEW h, h = task[t].hash,
           NEW v, v = task[t].victim
    PROVE  /\ lru' \in Seq(Hash) /\ IsInjective(lru')
           /\ meta' = IF WriteMeta(t) THEN meta \cup {h}
                      ELSE IF Delete(t) THEN meta \ {v} ELSE meta
           /\ files' = IF Unlink(t) THEN files \ {v} ELSE files
           /\ ToSet(lru') = IF Touch(t) \/ Rank(t) THEN ToSet(lru) \cup {h}
                            ELSE IF RemoveMember(t) THEN ToSet(lru) \ {v} ELSE ToSet(lru)
<1>1. lru \in Seq(Hash) /\ IsInjective(lru) /\ h \in Hash
    BY CacheStepEffect DEF TypeInv, TypeOK
<1>2. CASE task[t].at \notin {"touching", "writing", "ranking", "unlinking", "deleting", "removing"}
  <2>1. UNCHANGED cache
    BY <1>2 DEF CacheStep, ReadMeta, LookForFile, Touch, WriteMeta, Rank, List, AddSize, OverLimit,
           WithinLimit, ChooseOldest, Inspect, FindFile, Unlink, Delete, RemoveMember, At
  <2>2. ~WriteMeta(t) /\ ~Delete(t) /\ ~Unlink(t) /\ ~Touch(t) /\ ~Rank(t) /\ ~RemoveMember(t)
    BY <1>2 DEF WriteMeta, Delete, Unlink, Touch, Rank, RemoveMember, At
  <2> QED
    BY <1>1, <2>1, <2>2 DEF cache
<1>3. CASE At(t, "touching") \/ At(t, "ranking")
  <2>1. Touch(t) \/ Rank(t)
    BY <1>3 DEF CacheStep, ReadMeta, LookForFile, Touch, WriteMeta, Rank, List, AddSize, OverLimit,
           WithinLimit, ChooseOldest, Inspect, FindFile, Unlink, Delete, RemoveMember, At
  <2>2. lru' = Append(RemoveFirst(lru, h), h) /\ meta' = meta /\ files' = files
    BY <2>1 DEF Touch, Rank
  <2>3. ~WriteMeta(t) /\ ~Delete(t) /\ ~Unlink(t)
    BY <1>3 DEF WriteMeta, Delete, Unlink, At
  <2> QED
    BY <1>1, <2>1, <2>2, <2>3, SortedSet
<1>4. CASE At(t, "writing")
  <2>1. WriteMeta(t)
    BY <1>4 DEF CacheStep, ReadMeta, LookForFile, Touch, WriteMeta, Rank, List, AddSize, OverLimit,
           WithinLimit, ChooseOldest, Inspect, FindFile, Unlink, Delete, RemoveMember, At
  <2>2. meta' = meta \cup {h} /\ lru' = lru /\ files' = files
    BY <2>1 DEF WriteMeta
  <2>3. ~Unlink(t) /\ ~Touch(t) /\ ~Rank(t) /\ ~RemoveMember(t)
    BY <1>4 DEF Unlink, Touch, Rank, RemoveMember, At
  <2> QED
    BY <1>1, <2>1, <2>2, <2>3
<1>5. CASE At(t, "unlinking")
  <2>1. Unlink(t)
    BY <1>5 DEF CacheStep, ReadMeta, LookForFile, Touch, WriteMeta, Rank, List, AddSize, OverLimit,
           WithinLimit, ChooseOldest, Inspect, FindFile, Unlink, Delete, RemoveMember, At
  <2>2. files' = files \ {v} /\ lru' = lru /\ meta' = meta
    BY <2>1 DEF Unlink
  <2>3. ~WriteMeta(t) /\ ~Delete(t) /\ ~Touch(t) /\ ~Rank(t) /\ ~RemoveMember(t)
    BY <1>5 DEF WriteMeta, Delete, Touch, Rank, RemoveMember, At
  <2> QED
    BY <1>1, <2>1, <2>2, <2>3
<1>6. CASE At(t, "deleting")
  <2>1. Delete(t)
    BY <1>6 DEF CacheStep, ReadMeta, LookForFile, Touch, WriteMeta, Rank, List, AddSize, OverLimit,
           WithinLimit, ChooseOldest, Inspect, FindFile, Unlink, Delete, RemoveMember, At
  <2>2. meta' = meta \ {v} /\ lru' = lru /\ files' = files
    BY <2>1 DEF Delete
  <2>3. ~WriteMeta(t) /\ ~Unlink(t) /\ ~Touch(t) /\ ~Rank(t) /\ ~RemoveMember(t)
    BY <1>6 DEF WriteMeta, Unlink, Touch, Rank, RemoveMember, At
  <2> QED
    BY <1>1, <2>1, <2>2, <2>3
<1>7. CASE At(t, "removing")
  <2>1. RemoveMember(t)
    BY <1>7 DEF CacheStep, ReadMeta, LookForFile, Touch, WriteMeta, Rank, List, AddSize, OverLimit,
           WithinLimit, ChooseOldest, Inspect, FindFile, Unlink, Delete, RemoveMember, At
  <2>2. lru' = RemoveFirst(lru, v) /\ meta' = meta /\ files' = files
    BY <2>1 DEF RemoveMember
  <2>3. ~WriteMeta(t) /\ ~Delete(t) /\ ~Unlink(t) /\ ~Touch(t) /\ ~Rank(t)
    BY <1>7 DEF WriteMeta, Delete, Unlink, Touch, Rank, At
  <2> QED
    BY <1>1, <2>1, <2>2, <2>3, SortedSet
<1> QED
    BY <1>2, <1>3, <1>4, <1>5, <1>6, <1>7 DEF At

(* Each step keeps the types.                                              *)
LEMMA NextKeepsTypes ==
    ASSUME TypeInv, Roles, [Next]_vars
    PROVE  TypeInv'
<1>1. /\ meta \subseteq Hash /\ files \subseteq Hash /\ lru \in Seq(Hash) /\ IsInjective(lru)
      /\ task \in [Task -> TaskRecord] /\ locks \in [Hash -> Task \cup {None}]
      /\ requests \in 0..MaxRequests /\ faults \in 0..MaxFaults
      /\ expired \subseteq Hash /\ broken \subseteq Hash /\ clashed \subseteq Hash
      /\ crowded \subseteq Task /\ hunted \subseteq Task
    BY DEF TypeInv, TypeOK, TaskRecord
<1>2. CASE UNCHANGED vars
    BY <1>2 DEF vars, cache, history, TypeInv, TypeOK
<1>3. CASE Next
  <2>1. clashed' \subseteq Hash /\ crowded' \subseteq Task /\ hunted' \subseteq Task
    BY <1>1, <1>3 DEF Next, Observe, Clashes
  <2>2. locks' \in [Hash -> Task \cup {None}]
    BY <1>1, <1>3 DEF Next, Step, UseCache, Request, AcquireLock, Fetch, CheckFile, ReleaseLock,
       Interrupt, Expire, Restart
  <2>3. requests' \in 0..MaxRequests /\ faults' \in 0..MaxFaults
    <3>1. /\ \/ requests' = requests
             \/ requests < MaxRequests /\ requests' = requests + 1
          /\ \/ faults' = faults
             \/ faults < MaxFaults /\ faults' = faults + 1
      BY <1>3 DEF Next, Step, UseCache, Request, AcquireLock, Fetch, CheckFile, ReleaseLock,
         Interrupt, Expire, Restart, Fault, history
    <3>2. MaxRequests \in Nat /\ MaxFaults \in Nat
      BY WorkerAssumption
    <3> QED
      BY <1>1, <3>1, <3>2
  <2>4. expired' \subseteq Hash /\ broken' \subseteq Hash
    BY <1>1, <1>3 DEF Next, Step, UseCache, Request, AcquireLock, Fetch, CheckFile, ReleaseLock,
       Interrupt, Expire, Restart, BreakOff, history
  <2>5. /\ task' \in [Task -> TaskRecord]
        /\ meta' \subseteq Hash /\ files' \subseteq Hash /\ lru' \in Seq(Hash) /\ IsInjective(lru')
    <3>1. ASSUME NEW t \in Task, CacheStep(t)
          PROVE  /\ task' \in [Task -> TaskRecord] /\ meta' \subseteq Hash
                 /\ files' \subseteq Hash /\ lru' \in Seq(Hash) /\ IsInjective(lru')
      <4>1. task' \in [Task -> TaskRecord] /\ task[t].hash \in Hash
        BY <3>1, CacheStepEffect DEF Typed
      <4> QED
        BY <1>1, <3>1, <4>1, CacheEffect
    <3>2. ASSUME NEW t \in Task, NEW h \in Hash, Request(t, h)
          PROVE  task' \in [Task -> TaskRecord]
      BY <3>2, WorkerStepEffect DEF Typed
    <3>3. ASSUME NEW t \in Task, Fetch(t)
          PROVE  task' \in [Task -> TaskRecord] /\ files' \subseteq Hash
      BY <1>1, <3>3, WorkerStepEffect DEF Typed
    <3>4. ASSUME NEW t \in Task, AcquireLock(t) \/ CheckFile(t) \/ ReleaseLock(t) \/ Interrupt(t)
          PROVE  task' \in [Task -> TaskRecord]
      BY <3>4, WorkerStepEffect DEF Typed
    <3>5. ASSUME Restart PROVE task' \in [Task -> TaskRecord]
      BY <3>5 DEF Restart, Task0, Asleep, TaskRecord, Steps
    <3>6. CASE \E t \in Task, h \in Hash : Request(t, h)
      BY <1>1, <3>2, <3>6 DEF Request, cache
    <3>7. CASE \E t \in Task : Step(t) \/ Interrupt(t)
      BY <1>1, <3>1, <3>3, <3>4, <3>7
         DEF Step, UseCache, AcquireLock, Fetch, CheckFile, ReleaseLock, Interrupt, cache
    <3>8. CASE Restart \/ \E h \in Hash : Expire(h)
      BY <1>1, <3>5, <3>8 DEF Restart, Expire, cache
    <3> QED
      BY <1>3, <3>6, <3>7, <3>8 DEF Next
  <2> QED
    BY <2>1, <2>2, <2>3, <2>4, <2>5, ElementOfSeq, LenProperties
       DEF TypeInv, TypeOK, TaskRecord, ToSet
<1> QED
    BY <1>2, <1>3

LEMMA InitTypes == Init => TypeInv
<1> SUFFICES ASSUME Init PROVE TypeInv
    OBVIOUS
<1>1. PICK S \in SUBSET Hash : IsFiniteSet(S) /\ \E order \in SetToSeqs(S) : Warm(order)
    BY DEF Init
<1>2. PICK order \in SetToSeqs(S) : Warm(order)
    BY <1>1
<1>3. Cardinality(S) \in Nat
    BY <1>1, FS_CardinalityType
<1>4. order \in [1..Cardinality(S) -> S] /\ IsInjective(order)
    BY <1>2 DEF SetToSeqs, IsInjective
<1>5. order \in Seq(Hash) /\ ToSet(order) \subseteq Hash
    BY <1>3, <1>4 DEF ToSet
<1>6. task \in [Task -> TaskRecord]
    BY DEF Init, Task0, Asleep, TaskRecord, Steps
<1> QED
    BY <1>2, <1>4, <1>5, <1>6, WorkerAssumption DEF Init, Warm, TypeInv, TypeOK, TaskRecord

\* Every variable stays in its range; in particular the sorted set holds each
\* hash once (cache_manager.py:81-106, 137-169).
THEOREM DownloadTypeCorrect == Spec => []TypeOK
<1>1. TypeInv /\ IInv /\ [Next]_vars => TypeInv'
    BY NextKeepsTypes DEF IInv
<1>2. TypeInv => TypeOK
    BY DEF TypeInv
<1> QED
    BY InitTypes, <1>1, <1>2, LockInvariant, PTL DEF Spec
---------------------------------------------------------------------------------
(* The cache *)

Ranked  == ToSet(lru)
Free(h) == h \notin broken \cup clashed

\* What differs between the metadata, the files and the sorted set is the
\* business of a task that will go on with it.
Settled(h) ==
    /\ h \in meta /\ h \notin files =>
         \E t \in Task : At(t, "deleting") /\ task[t].victim = h
    /\ h \in files /\ h \notin meta =>
         \E t \in Task : (At(t, "checking") \/ At(t, "writing")) /\ task[t].hash = h
    /\ h \in meta /\ h \notin Ranked =>
         \E t \in Task : At(t, "ranking") /\ task[t].hash = h
    /\ h \in Ranked /\ h \notin meta =>
         \E t \in Task : At(t, "removing") /\ task[t].victim = h

\* What a task found or wrote still holds.
TaskOK(t) ==
    /\ Free(task[t].hash) =>
         /\ At(t, "checking") \/ At(t, "writing") => task[t].hash \in files
         /\ At(t, "looking") \/ At(t, "touching") \/ At(t, "ranking") => task[t].hash \in meta
    /\ Free(task[t].victim) =>
         /\ At(t, "deleting") \/ At(t, "removing") => task[t].victim \notin files
         /\ At(t, "removing") => task[t].victim \notin meta

CacheInv ==
    /\ Clashes \subseteq clashed
    /\ \A t \in Task : TaskOK(t)
    /\ \A h \in Hash : Free(h) => Settled(h)

\* A step is about x only: the cache keeps everything else.
OnlyAbout(x) ==
    /\ meta \ {x} = meta' \ {x} /\ files \ {x} = files' \ {x} /\ Ranked \ {x} = Ranked' \ {x}
AddsOnly    == meta \subseteq meta' /\ files \subseteq files' /\ Ranked \subseteq Ranked'
RemovesOnly == meta' \subseteq meta /\ files' \subseteq files /\ Ranked' \subseteq Ranked

(* A step of one task disturbs another task only where they clash: so it   *)
(* is enough to look at that task, and at the hash that the step is about. *)
LEMMA OneTaskSteps ==
    ASSUME TypeInv, Roles, CacheInv, NEW t \in Task, NEW x,
           NEW h, h = task[t].hash, NEW v, v = task[t].victim,
           \A u \in Task \ {t} : task'[u] = task[u],
           broken \subseteq broken', Observe,
           OnlyAbout(x),
           \/ x = h /\ h \in Hash /\ AddsOnly
           \/ x = v /\ RemovesOnly
           \/ AddsOnly /\ RemovesOnly,
           (At(t, "checking") \/ At(t, "writing") \/ At(t, "ranking")) /\ h # x => h \in broken',
           (At(t, "deleting") \/ At(t, "removing")) /\ v \in Hash \ {x} => v \in broken',
           TaskOK(t)',
           x \in Hash /\ Free(x)' => Settled(x)'
    PROVE  CacheInv'
<1>1. /\ Clashes \subseteq clashed /\ \A u \in Task : TaskOK(u)
      /\ \A y \in Hash : Free(y) => Settled(y)
      /\ meta \subseteq Hash /\ files \subseteq Hash
    BY DEF CacheInv, TypeInv, TypeOK
<1>2. Clashes' \subseteq clashed' /\ clashed \subseteq clashed'
    BY DEF Observe
<1>3. \A y : Free(y)' => Free(y)
    BY <1>2 DEF Free
<1>4. ASSUME NEW u \in Task, u # t PROVE TaskOK(u)'
  <2> DEFINE y == task[u].hash
             z == task[u].victim
  <2>1. task'[u] = task[u] /\ TaskOK(u)
    BY <1>1, <1>4
  <2>2. Role(task[u])
    BY DEF Roles
  <2>3. At(u, "checking") \/ At(u, "writing") \/ At(u, "looking") \/ At(u, "touching")
          \/ At(u, "ranking") => y \in Hash
    BY <2>2 DEF Role, At
  <2>4. y \in Hash /\ y = v => y \in clashed
    BY <1>1, <1>4 DEF Clashes
  <2>5. z \in Hash /\ z = h => z \in clashed
    BY <1>1, <1>4 DEF Clashes
  <2>6. y \in Hash /\ y \notin clashed => /\ y \in files => y \in files'
                                          /\ y \in meta => y \in meta'
    BY <2>4 DEF OnlyAbout, AddsOnly, RemovesOnly
  <2>7. z \notin clashed => /\ z \notin files => z \notin files'
                            /\ z \notin meta => z \notin meta'
    <3>1. CASE x = h /\ h \in Hash
      <4>1. z \notin clashed => z # x
        BY <2>5, <3>1
      <4> QED
        BY <4>1 DEF OnlyAbout
    <3>2. CASE RemovesOnly
      BY <3>2 DEF RemovesOnly
    <3> QED
      BY <3>1, <3>2
  <2> QED
    <3>1. task'[u].at = task[u].at /\ task'[u].hash = y /\ task'[u].victim = z
      BY <2>1
    <3>2. y \notin broken' \cup clashed' => y \notin broken \cup clashed
      BY <1>2
    <3>3. z \notin broken' \cup clashed' => z \notin broken \cup clashed
      BY <1>2
    <3>4. /\ Free(y) /\ (At(u, "checking") \/ At(u, "writing")) => y \in files /\ y \in files'
          /\ Free(y) /\ (At(u, "looking") \/ At(u, "touching") \/ At(u, "ranking"))
               => y \in meta /\ y \in meta'
      BY <2>1, <2>3, <2>6 DEF TaskOK, Free
    <3>5. /\ Free(z) /\ (At(u, "deleting") \/ At(u, "removing")) => z \notin files'
          /\ Free(z) /\ At(u, "removing") => z \notin meta'
      BY <2>1, <2>7 DEF TaskOK, Free
    <3> HIDE DEF y, z
    <3> QED
      BY <3>1, <3>2, <3>3, <3>4, <3>5, <1>2 DEF TaskOK, At, Free
<1>5. ASSUME NEW y \in Hash, y # x, Free(y)' PROVE Settled(y)'
  <2>1. Settled(y) /\ y \notin broken'
    BY <1>1, <1>3, <1>5 DEF Free
  <2>2. /\ y \in meta' <=> y \in meta
        /\ y \in files' <=> y \in files
        /\ y \in Ranked' <=> y \in Ranked
    BY <1>5 DEF OnlyAbout
  <2>3. /\ ~ ((At(t, "checking") \/ At(t, "writing") \/ At(t, "ranking")) /\ h = y)
        /\ ~ ((At(t, "deleting") \/ At(t, "removing")) /\ v = y)
    BY <1>5, <2>1
  <2> QED
    BY <2>1, <2>2, <2>3 DEF Settled, At
<1> QED
    BY <1>2, <1>4, <1>5 DEF CacheInv

(* A step that leaves the cache alone and ends no business of its task.    *)
LEMMA QuietStep ==
    ASSUME TypeInv, Roles, CacheInv, NEW t \in Task,
           \A u \in Task \ {t} : task'[u] = task[u],
           broken \subseteq broken', Observe,
           meta' = meta, files' = files, lru' = lru,
           At(t, "checking") \/ At(t, "writing") \/ At(t, "ranking") => task[t].hash \in broken',
           (At(t, "deleting") \/ At(t, "removing")) /\ task[t].victim \in Hash
               => task[t].victim \in broken',
           TaskOK(t)'
    PROVE  CacheInv'
<1>1. None \notin Hash
    BY CacheAssumption
<1>2. OnlyAbout(None) /\ AddsOnly /\ RemovesOnly
    BY DEF OnlyAbout, AddsOnly, RemovesOnly, Ranked
<1> QED
    BY <1>1, <1>2, OneTaskSteps

(* The steps of the cache.                                                 *)
LEMMA CacheStepKeeps ==
    ASSUME TypeInv, Roles, CacheInv, NEW t \in Task, CacheStep(t), broken' = broken, Observe,
           NEW h, h = task[t].hash, NEW v, v = task[t].victim
    PROVE  CacheInv'
<1>1. /\ Clashes \subseteq clashed /\ clashed \subseteq clashed' /\ TaskOK(t)
      /\ \A y \in Hash : Free(y) => Settled(y)
      /\ \A y : Free(y)' => Free(y)
      /\ meta \subseteq Hash /\ files \subseteq Hash
    BY DEF CacheInv, Observe, Free, TypeInv, TypeOK
<1>2. h \in Hash /\ v \in Hash \cup {None}
    BY CacheStepEffect
<1>3. /\ meta' = IF WriteMeta(t) THEN meta \cup {h}
                 ELSE IF Delete(t) THEN meta \ {v} ELSE meta
      /\ files' = IF Unlink(t) THEN files \ {v} ELSE files
      /\ Ranked' = IF Touch(t) \/ Rank(t) THEN Ranked \cup {h}
                   ELSE IF RemoveMember(t) THEN Ranked \ {v} ELSE Ranked
    BY CacheEffect DEF Ranked
<1>4. \A s, y, z : Typed(t, s, y, z) =>
        /\ task'[t].at = s /\ task'[t].hash = y /\ task'[t].victim = z
        /\ \A u \in Task \ {t} : task'[u] = task[u]
    BY DEF Typed, Becomes
<1>5. ASSUME NEW s, NEW y, NEW z, Typed(t, s, y, z), meta' = meta, files' = files, lru' = lru,
             ~ (At(t, "checking") \/ At(t, "writing") \/ At(t, "ranking")
                  \/ At(t, "deleting") \/ At(t, "removing")), TaskOK(t)'
      PROVE  CacheInv'
    BY <1>4, <1>5, QuietStep
<1>6. ASSUME NEW s, NEW y, NEW z, Typed(t, s, y, z),
             s \in {"asleep", "locking", "releasing", "answering", "listing", "summing",
                    "choosing", "inspecting", "finding", "unlinking"}
      PROVE  TaskOK(t)'
    BY <1>4, <1>6 DEF TaskOK, At
<1>7. CASE ReadMeta(t)
  <2>1. Typed(t, IF h \in meta THEN "looking" ELSE "locking", h, v) /\ UNCHANGED cache
      BY <1>7, CacheStepEffect DEF ReadMeta, LookForFile, Touch, WriteMeta, Rank, List, AddSize,
         OverLimit, WithinLimit, ChooseOldest, Inspect, FindFile, Unlink, Delete, RemoveMember, At
  <2>2. TaskOK(t)'
    BY <1>4, <2>1 DEF TaskOK, At, cache
  <2> QED
    BY <1>5, <1>7, <2>1, <2>2 DEF ReadMeta, At, cache
<1>8. CASE LookForFile(t)
  <2>1. /\ IF h \in files THEN Typed(t, "touching", h, v) ELSE Typed(t, "deleting", h, h)
        /\ UNCHANGED cache
      BY <1>8, CacheStepEffect DEF ReadMeta, LookForFile, Touch, WriteMeta, Rank, List, AddSize,
         OverLimit, WithinLimit, ChooseOldest, Inspect, FindFile, Unlink, Delete, RemoveMember, At
  <2>2. Free(h) => h \in meta
    BY <1>1, <1>8 DEF TaskOK, LookForFile
  <2>3. TaskOK(t)'
    BY <1>1, <1>4, <2>1, <2>2 DEF TaskOK, At, cache, Free
  <2> QED
    BY <1>5, <1>8, <2>1, <2>3 DEF LookForFile, At, cache
<1>9. CASE List(t) \/ AddSize(t) \/ OverLimit(t) \/ WithinLimit(t) \/ ChooseOldest(t)
  <2>1. UNCHANGED cache /\ (At(t, "listing") \/ At(t, "summing") \/ At(t, "choosing"))
    BY <1>9 DEF List, AddSize, OverLimit, WithinLimit, ChooseOldest
  <2>2. \/ Typed(t, "summing", h, v) \/ Typed(t, "choosing", h, v)
        \/ Typed(t, "listing", h, v) \/ Typed(t, "answering", h, v)
        \/ \E y \in Hash : Typed(t, "inspecting", h, y)
    BY <2>1, CacheStepEffect DEF ReadMeta, LookForFile, Touch, WriteMeta, Rank, List, AddSize,
         OverLimit, WithinLimit, ChooseOldest, Inspect, FindFile, Unlink, Delete, RemoveMember, At
  <2>3. PICK s, z : /\ Typed(t, s, h, z)
                    /\ s \in {"answering", "listing", "summing", "choosing", "inspecting"}
    BY <2>2
  <2>4. TaskOK(t)'
    BY <1>6, <2>3
  <2> QED
    BY <1>5, <2>1, <2>3, <2>4 DEF At, cache
<1>10. CASE Inspect(t)
  <2>1. Typed(t, IF v \in meta THEN "finding" ELSE "deleting", h, v) /\ UNCHANGED cache
      BY <1>10, CacheStepEffect DEF ReadMeta, LookForFile, Touch, WriteMeta, Rank, List, AddSize,
         OverLimit, WithinLimit, ChooseOldest, Inspect, FindFile, Unlink, Delete, RemoveMember, At
  <2>2. v \notin meta /\ Free(v) => v \notin files
    <3> SUFFICES ASSUME v \notin meta, Free(v), v \in files PROVE FALSE
      OBVIOUS
    <3>1. PICK u \in Task : (At(u, "checking") \/ At(u, "writing")) /\ task[u].hash = v
      BY <1>1 DEF Settled
    <3>2. u # t /\ v \in Hash
      BY <1>1, <1>10, <3>1 DEF Inspect, At
    <3>3. v \in clashed
      BY <1>1, <3>1, <3>2 DEF Clashes
    <3> QED
      BY <3>3 DEF Free
  <2>3. TaskOK(t)'
    BY <1>1, <1>4, <2>1, <2>2 DEF TaskOK, At, cache, Free
  <2> QED
    BY <1>5, <1>10, <2>1, <2>3 DEF Inspect, At, cache
<1>11. CASE FindFile(t)
  <2>1. Typed(t, IF v \in files THEN "unlinking" ELSE "deleting", h, v) /\ UNCHANGED cache
      BY <1>11, CacheStepEffect DEF ReadMeta, LookForFile, Touch, WriteMeta, Rank, List, AddSize,
         OverLimit, WithinLimit, ChooseOldest, Inspect, FindFile, Unlink, Delete, RemoveMember, At
  <2>2. TaskOK(t)'
    BY <1>4, <2>1 DEF TaskOK, At, cache
  <2> QED
    BY <1>5, <1>11, <2>1, <2>2 DEF FindFile, At, cache
<1>12. ASSUME NEW s, NEW z, NEW y, Typed(t, s, y, z), OnlyAbout(h), AddsOnly,
              At(t, "touching") \/ At(t, "writing") \/ At(t, "ranking"),
              TaskOK(t)', Free(h)' => Settled(h)'
       PROVE  CacheInv'
  <2>1. /\ ~ (At(t, "deleting") \/ At(t, "removing"))
        /\ \A u \in Task \ {t} : task'[u] = task[u]
    BY <1>4, <1>12 DEF At
  <2> QED
    BY <1>2, <1>12, <2>1, OneTaskSteps
<1>13. ASSUME NEW s, NEW z, NEW y, Typed(t, s, y, z), OnlyAbout(v), RemovesOnly,
              At(t, "unlinking") \/ At(t, "deleting") \/ At(t, "removing"),
              TaskOK(t)', v \in Hash /\ Free(v)' => Settled(v)'
       PROVE  CacheInv'
  <2>1. /\ ~ (At(t, "checking") \/ At(t, "writing") \/ At(t, "ranking"))
        /\ \A u \in Task \ {t} : task'[u] = task[u]
    BY <1>4, <1>13 DEF At
  <2> QED
    BY <1>2, <1>13, <2>1, OneTaskSteps
<1>14. CASE Touch(t)
  <2>1. /\ Typed(t, "asleep", None, None) /\ At(t, "touching")
        /\ meta' = meta /\ files' = files /\ Ranked' = Ranked \cup {h}
    BY <1>3, <1>14, CacheStepEffect DEF ReadMeta, LookForFile, Touch, WriteMeta, Rank, List, AddSize,
         OverLimit, WithinLimit, ChooseOldest, Inspect, FindFile, Unlink, Delete, RemoveMember, At
  <2>2. Free(h) => h \in meta
    BY <1>1, <2>1 DEF TaskOK
  <2>3. OnlyAbout(h) /\ AddsOnly
    BY <2>1 DEF OnlyAbout, AddsOnly, RemovesOnly
  <2>4. TaskOK(t)'
    BY <1>6, <2>1
  <2>5. ASSUME Free(h)' PROVE Settled(h)'
    <3>1. Settled(h) /\ Free(h)
      BY <1>1, <1>2, <2>5
    <3>2. \A u \in Task \ {t} : task'[u] = task[u]
      BY <1>4, <2>1
    <3> QED
      BY <2>1, <2>2, <3>1, <3>2 DEF Settled, At
  <2> QED
    BY <1>12, <2>1, <2>3, <2>4, <2>5
<1>15. CASE Rank(t)
  <2>1. /\ Typed(t, "listing", h, v) /\ At(t, "ranking")
        /\ meta' = meta /\ files' = files /\ Ranked' = Ranked \cup {h}
    BY <1>3, <1>15, CacheStepEffect DEF ReadMeta, LookForFile, Touch, WriteMeta, Rank, List, AddSize,
         OverLimit, WithinLimit, ChooseOldest, Inspect, FindFile, Unlink, Delete, RemoveMember, At
  <2>2. Free(h) => h \in meta
    BY <1>1, <2>1 DEF TaskOK
  <2>3. OnlyAbout(h) /\ AddsOnly
    BY <2>1 DEF OnlyAbout, AddsOnly, RemovesOnly
  <2>4. TaskOK(t)'
    BY <1>6, <2>1
  <2>5. ASSUME Free(h)' PROVE Settled(h)'
    <3>1. Settled(h) /\ Free(h)
      BY <1>1, <1>2, <2>5
    <3>2. \A u \in Task \ {t} : task'[u] = task[u]
      BY <1>4, <2>1
    <3> QED
      BY <2>1, <2>2, <3>1, <3>2 DEF Settled, At
  <2> QED
    BY <1>12, <2>1, <2>3, <2>4, <2>5
<1>16. CASE WriteMeta(t)
  <2>1. /\ Typed(t, "ranking", h, v) /\ At(t, "writing")
        /\ meta' = meta \cup {h} /\ files' = files /\ Ranked' = Ranked
    BY <1>3, <1>16, CacheStepEffect DEF ReadMeta, LookForFile, Touch, WriteMeta, Rank, List, AddSize,
         OverLimit, WithinLimit, ChooseOldest, Inspect, FindFile, Unlink, Delete, RemoveMember, At
  <2>2. Free(h) => h \in files
    BY <1>1, <2>1 DEF TaskOK
  <2>3. OnlyAbout(h) /\ AddsOnly
    BY <2>1 DEF OnlyAbout, AddsOnly, RemovesOnly
  <2>4. TaskOK(t)'
    BY <1>4, <2>1 DEF TaskOK, At
  <2>5. ASSUME Free(h)' PROVE Settled(h)'
    <3>1. task'[t].at = "ranking" /\ task'[t].hash = h /\ Free(h)
      BY <1>1, <1>4, <2>1, <2>5
    <3> QED
      BY <2>1, <2>2, <3>1 DEF Settled, At
  <2> QED
    BY <1>12, <2>1, <2>3, <2>4, <2>5
<1>17. CASE Unlink(t)
  <2>1. /\ Typed(t, IF v \in files THEN "deleting" ELSE "releasing", h, v) /\ At(t, "unlinking")
        /\ meta' = meta /\ files' = files \ {v} /\ Ranked' = Ranked
    BY <1>3, <1>17, CacheStepEffect DEF ReadMeta, LookForFile, Touch, WriteMeta, Rank, List, AddSize,
         OverLimit, WithinLimit, ChooseOldest, Inspect, FindFile, Unlink, Delete, RemoveMember, At
  <2>3. OnlyAbout(v) /\ RemovesOnly
    BY <2>1 DEF OnlyAbout, AddsOnly, RemovesOnly
  <2>4. TaskOK(t)'
    BY <1>4, <2>1 DEF TaskOK, At
  <2>5. ASSUME v \in Hash, Free(v)' PROVE Settled(v)'
    <3>1. Settled(v) /\ Free(v)
      BY <1>1, <2>5
    <3>2. /\ \A u \in Task \ {t} : task'[u] = task[u]
          /\ v \in files => task'[t].at = "deleting" /\ task'[t].victim = v
      BY <1>4, <2>1
    <3> QED
      BY <2>1, <3>1, <3>2 DEF Settled, At
  <2> QED
    BY <1>13, <2>1, <2>3, <2>4, <2>5
<1>18. CASE Delete(t)
  <2>1. /\ Typed(t, "removing", h, v) /\ At(t, "deleting")
        /\ meta' = meta \ {v} /\ files' = files /\ Ranked' = Ranked
    BY <1>3, <1>18, CacheStepEffect DEF ReadMeta, LookForFile, Touch, WriteMeta, Rank, List, AddSize,
         OverLimit, WithinLimit, ChooseOldest, Inspect, FindFile, Unlink, Delete, RemoveMember, At
  <2>2. Free(v) => v \notin files
    BY <1>1, <2>1 DEF TaskOK
  <2>3. OnlyAbout(v) /\ RemovesOnly
    BY <2>1 DEF OnlyAbout, AddsOnly, RemovesOnly
  <2>4. TaskOK(t)'
    BY <1>1, <1>4, <2>1, <2>2 DEF TaskOK, At, Free
  <2>5. ASSUME v \in Hash, Free(v)' PROVE Settled(v)'
    <3>1. task'[t].at = "removing" /\ task'[t].victim = v /\ Free(v)
      BY <1>1, <1>4, <2>1, <2>5
    <3> QED
      BY <2>1, <2>2, <3>1 DEF Settled, At
  <2> QED
    BY <1>13, <2>1, <2>3, <2>4, <2>5
<1>19. CASE RemoveMember(t)
  <2>1. /\ \E s \in {"listing", "locking"} : Typed(t, s, h, None)
        /\ At(t, "removing")
        /\ meta' = meta /\ files' = files /\ Ranked' = Ranked \ {v}
    BY <1>3, <1>19, CacheStepEffect DEF ReadMeta, LookForFile, Touch, WriteMeta, Rank, List, AddSize,
         OverLimit, WithinLimit, ChooseOldest, Inspect, FindFile, Unlink, Delete, RemoveMember, At
  <2>2. Free(v) => v \notin files /\ v \notin meta
    BY <1>1, <2>1 DEF TaskOK
  <2>3. OnlyAbout(v) /\ RemovesOnly
    BY <2>1 DEF OnlyAbout, AddsOnly, RemovesOnly
  <2>4. TaskOK(t)'
    BY <1>6, <2>1
  <2>5. ASSUME v \in Hash, Free(v)' PROVE Settled(v)'
    BY <1>1, <2>1, <2>2, <2>5 DEF Settled
  <2> QED
    BY <1>13, <2>1, <2>3, <2>4, <2>5
<1> QED
    BY <1>7, <1>8, <1>9, <1>10, <1>11, <1>14, <1>15, <1>16, <1>17, <1>18, <1>19 DEF CacheStep

(* The steps of a download outside the cache, and an interruption of it.   *)
LEMMA WorkerStepKeeps ==
    ASSUME TypeInv, Roles, CacheInv, NEW t \in Task, NEW h, h = task[t].hash,
           NEW v, v = task[t].victim, Observe,
           \/ /\ broken' = broken
              /\ \/ AcquireLock(t) \/ Fetch(t) \/ CheckFile(t) \/ ReleaseLock(t)
                 \/ \E x \in Hash : Request(t, x)
           \/ Interrupt(t)
    PROVE  CacheInv'
<1>1. /\ Clashes \subseteq clashed /\ clashed \subseteq clashed' /\ TaskOK(t)
      /\ \A y \in Hash : Free(y) => Settled(y)
      /\ \A y : Free(y)' => Free(y)
      /\ h \in Hash \cup {None} /\ v \in Hash \cup {None}
    BY DEF CacheInv, Observe, Free, TypeInv, TypeOK, Interrupt, BreakOff
<1>2. \A s, y, z : Typed(t, s, y, z) =>
        /\ task'[t].at = s /\ task'[t].hash = y /\ task'[t].victim = z
        /\ \A u \in Task \ {t} : task'[u] = task[u]
    BY DEF Typed, Becomes
<1>3. ASSUME NEW s, NEW y, NEW z, Typed(t, s, y, z),
             s \in {"asleep", "reading", "fetching", "releasing"}
      PROVE  TaskOK(t)'
    BY <1>2, <1>3 DEF TaskOK, At
<1>4. CASE AcquireLock(t) \/ ReleaseLock(t) \/ \E x \in Hash : Request(t, x)
  <2>1. PICK s, y, z : Typed(t, s, y, z) /\ s \in {"asleep", "reading", "fetching", "releasing"}
    BY <1>4, WorkerStepEffect
  <2>2. /\ UNCHANGED cache /\ broken' = broken
        /\ At(t, "locking") \/ At(t, "releasing") \/ At(t, "answering") \/ At(t, "asleep")
    BY <1>4 DEF AcquireLock, ReleaseLock, Request, Finally, At, history
  <2>3. TaskOK(t)'
    BY <1>3, <2>1
  <2> QED
    BY <1>2, <2>1, <2>2, <2>3, QuietStep DEF At, cache
<1>5. CASE Interrupt(t)
  <2>1. PICK s, y, z : Typed(t, s, y, z) /\ s \in {"asleep", "reading", "fetching", "releasing"}
    BY <1>5, WorkerStepEffect
  <2>2. UNCHANGED cache /\ broken \subseteq broken'
    BY <1>5 DEF Interrupt, BreakOff
  <2>3. /\ h \in Hash => h \in broken'
        /\ v \in Hash => v \in broken'
    BY <1>5 DEF Interrupt, BreakOff
  <2>4. At(t, "checking") \/ At(t, "writing") \/ At(t, "ranking") => h \in Hash
    BY DEF Roles, Role, At
  <2>5. TaskOK(t)'
    BY <1>3, <2>1
  <2> QED
    BY <1>2, <2>1, <2>2, <2>3, <2>4, <2>5, QuietStep DEF cache
<1>6. CASE Fetch(t) /\ files' = files
  <2>1. PICK s, y, z : Typed(t, s, y, z)
    BY <1>6, WorkerStepEffect
  <2>2. UNCHANGED cache /\ broken' = broken /\ At(t, "fetching")
    BY <1>6 DEF Fetch, history, cache
  <2>3. h \in Hash /\ \/ Typed(t, "checking", h, v) /\ files' = files \cup {h}
                      \/ Typed(t, "releasing", h, v)
    BY <1>6, WorkerStepEffect
  <2>4. TaskOK(t)'
    <3>1. CASE Typed(t, "releasing", h, v)
      BY <1>3, <3>1
    <3>2. CASE Typed(t, "checking", h, v) /\ h \in files'
      BY <1>2, <3>2 DEF TaskOK, At
    <3> QED
      BY <2>3, <3>1, <3>2
  <2> QED
    BY <1>2, <2>1, <2>2, <2>4, QuietStep DEF At, cache
<1>7. CASE Fetch(t) /\ files' # files
  <2>1. h \in Hash /\ Typed(t, "checking", h, v) /\ files' = files \cup {h}
    BY <1>7, WorkerStepEffect
  <2>2. meta' = meta /\ lru' = lru /\ broken' = broken /\ At(t, "fetching")
    BY <1>7 DEF Fetch, history
  <2>3. TaskOK(t)'
    BY <1>2, <2>1 DEF TaskOK, At
  <2>4. Ranked' = Ranked
    BY <2>2 DEF Ranked
  <2>5. OnlyAbout(h) /\ AddsOnly
    BY <2>1, <2>2, <2>4 DEF OnlyAbout, AddsOnly
  <2>6. ASSUME Free(h)' PROVE Settled(h)'
    <3>1. Settled(h) /\ Free(h)
      BY <1>1, <2>1, <2>6
    <3>2. /\ \A u \in Task \ {t} : task'[u] = task[u]
          /\ task'[t].at = "checking" /\ task'[t].hash = h
      BY <1>2, <2>1
    <3> QED
      BY <2>1, <2>2, <2>4, <3>1, <3>2 DEF Settled, At
  <2> QED
    BY <1>2, <2>1, <2>2, <2>3, <2>5, <2>6, OneTaskSteps DEF At
<1>8. CASE CheckFile(t)
  <2>1. /\ h \in Hash
        /\ Typed(t, IF h \in files THEN "writing" ELSE "releasing", h, v)
    BY <1>8, WorkerStepEffect
  <2>2. UNCHANGED cache /\ broken' = broken /\ At(t, "checking")
    BY <1>8 DEF CheckFile, history
  <2>3. Free(h) => h \in files
    BY <1>1, <2>2 DEF TaskOK
  <2>4. TaskOK(t)'
    BY <1>2, <2>1, <2>2 DEF TaskOK, At, cache
  <2>5. meta' = meta /\ files' = files /\ Ranked' = Ranked
    BY <2>2 DEF cache, Ranked
  <2>6. OnlyAbout(h) /\ AddsOnly
    BY <2>5 DEF OnlyAbout, AddsOnly
  <2>7. ASSUME Free(h)' PROVE Settled(h)'
    <3>1. Settled(h) /\ Free(h)
      BY <1>1, <2>1, <2>7
    <3>2. /\ \A u \in Task \ {t} : task'[u] = task[u]
          /\ task'[t].at = "writing" /\ task'[t].hash = h
      BY <1>2, <2>1, <2>3, <3>1
    <3> QED
      BY <2>2, <2>3, <2>5, <3>1, <3>2 DEF Settled, At
  <2> QED
    BY <1>2, <2>1, <2>2, <2>4, <2>6, <2>7, OneTaskSteps DEF At
<1> QED
    BY <1>4, <1>5, <1>6, <1>7, <1>8

(* Each step keeps the invariant of the cache.                             *)
LEMMA NextKeepsCache ==
    ASSUME TypeInv, Roles, CacheInv, [Next]_vars
    PROVE  CacheInv'
<1>1. CASE UNCHANGED vars
    BY <1>1 DEF vars, cache, history, CacheInv, TaskOK, Settled, Ranked, Free, Clashes, At
<1>2. CASE Observe /\ \E h \in Hash : Expire(h)
  <2>1. meta' = meta /\ files' = files /\ lru' = lru /\ task' = task /\ broken' = broken
    BY <1>2 DEF Expire, cache
  <2>2. clashed' = clashed
    BY <1>2, <2>1 DEF Observe, Clashes, CacheInv
  <2> QED
    BY <2>1, <2>2 DEF CacheInv, TaskOK, Settled, Ranked, Free, Clashes, At
<1>3. CASE Restart /\ Observe
  <2>1. /\ meta' = meta /\ files' = files /\ lru' = lru
        /\ \A t \in Task : task'[t] = Asleep
        /\ broken' = broken \cup {h \in Hash : \E t \in Task : h \in {task[t].hash, task[t].victim}}
    BY <1>3 DEF Restart, BreakOff, Task0, cache
  <2>2. clashed \subseteq clashed' /\ Clashes' \subseteq clashed'
    BY <1>3 DEF Observe
  <2>3. \A t \in Task : TaskOK(t)'
    BY <2>1 DEF TaskOK, At, Asleep
  <2>4. ASSUME NEW h \in Hash, Free(h)' PROVE Settled(h)'
    <3>1. Free(h) /\ \A t \in Task : task[t].hash # h /\ task[t].victim # h
      BY <2>1, <2>2, <2>4 DEF Free
    <3>2. Settled(h)
      BY <3>1 DEF CacheInv
    <3> QED
      BY <2>1, <3>1, <3>2 DEF Settled, Ranked
  <2> QED
    BY <2>2, <2>3, <2>4 DEF CacheInv
<1>4. CASE Observe /\ \E t \in Task : Step(t) \/ Interrupt(t) \/ \E h \in Hash : Request(t, h)
  <2>1. PICK t \in Task : Step(t) \/ Interrupt(t) \/ \E h \in Hash : Request(t, h)
    BY <1>4
  <2>2. CASE UseCache(t)
    BY <1>4, <2>2, CacheStepKeeps DEF UseCache, history
  <2>3. CASE Interrupt(t)
    BY <1>4, <2>3, WorkerStepKeeps
  <2>4. CASE \/ AcquireLock(t) \/ Fetch(t) \/ CheckFile(t) \/ ReleaseLock(t)
             \/ \E h \in Hash : Request(t, h)
    <3>1. broken' = broken
      BY <2>4 DEF AcquireLock, Fetch, CheckFile, ReleaseLock, Request, history
    <3> QED
      BY <1>4, <2>4, <3>1, WorkerStepKeeps
  <2> QED
    BY <2>1, <2>2, <2>3, <2>4 DEF Step
<1> QED
    BY <1>1, <1>2, <1>3, <1>4 DEF Next

LEMMA InitCache == Init => CacheInv
<1> SUFFICES ASSUME Init PROVE CacheInv
    OBVIOUS
<1>1. meta = Ranked /\ files = Ranked
    BY DEF Init, Warm, Ranked
<1>2. \A t \in Task : task[t] = Asleep
    BY DEF Init, Task0
<1>3. Clashes = {}
    BY <1>2, CacheAssumption DEF Clashes, Asleep
<1>4. \A t \in Task : TaskOK(t)
    BY <1>2 DEF TaskOK, At, Asleep
<1>5. \A h \in Hash : Settled(h)
    BY <1>1 DEF Settled
<1> QED
    BY <1>3, <1>4, <1>5 DEF CacheInv

\* The metadata, the files and the sorted set differ only about a hash that some
\* task is about to go on with, and what a task found or wrote still holds:
\* outside the hashes whose handling was broken off, and those that one task
\* removed while another used them (cache_manager.py:64-106, 137-165).
THEOREM CacheInvariant == Spec => []CacheInv
<1>1. TypeInv /\ IInv /\ CacheInv /\ [Next]_vars => CacheInv'
    BY NextKeepsCache DEF IInv
<1>2. TypeInv /\ IInv /\ [Next]_vars => TypeInv'
    BY NextKeepsTypes DEF IInv
<1> QED
    BY InitTypes, InitCache, <1>1, <1>2, LockInvariant, PTL DEF Spec

\* When nobody downloads, the metadata, the sorted set and the files know of the
\* same hashes, except those (cache_manager.py:64-72, 93-106, 137-165).
THEOREM CacheCoherent == Spec => []Coherent
<1>1. ASSUME CacheInv PROVE Coherent
  <2> SUFFICES ASSUME Quiet, NEW h \in Hash \ (broken \cup clashed)
               PROVE  (h \in meta <=> h \in files) /\ (h \in meta <=> h \in ToSet(lru))
    BY DEF Coherent
  <2>1. \A t \in Task : task[t].at = "asleep"
    BY DEF Quiet, Task0, Asleep
  <2>2. Settled(h)
    BY <1>1 DEF CacheInv, Free
  <2> QED
    BY <2>1, <2>2 DEF Settled, At, Ranked
<1> QED
    BY CacheInvariant, <1>1, PTL
---------------------------------------------------------------------------------
(* The size limit *)

\* What is on the disk and not left there by a clash.
Counting == files \ clashed

\* Task t is to compare the size of the cache with the limit, from a new list.
WillMeasure(t) ==
    \/ task[t].at \in {"writing", "ranking", "listing", "choosing", "inspecting", "finding"}
    \/ At(t, "checking") /\ task[t].hash \in files
    \/ At(t, "unlinking") /\ task[t].victim \in files
    \/ (At(t, "deleting") \/ At(t, "removing")) /\ task[t].evicting = TRUE

\* Task t has counted every file that is not still before it.
Counted(t) == /\ At(t, "summing")
              /\ task[t].total >= Bytes(Counting \ ToSet(task[t].left))

Measured == broken = {} => \/ Bytes(Counting) <= MaxBytes
                           \/ \E t \in Task : WillMeasure(t) \/ Counted(t)

(* The bytes of finitely many files can be counted; fewer files have no    *)
(* more, and a file brings its size at most.                               *)
LEMMA BytesOf ==
    ASSUME NEW S \in SUBSET Hash, IsFiniteSet(S)
    PROVE  /\ Bytes(S) \in Nat
           /\ \A T \in SUBSET S : Bytes(T) \in Nat /\ Bytes(T) <= Bytes(S)
           /\ \A h \in Hash : /\ Bytes(S \cup {h}) \in Nat
                              /\ Bytes(S \cup {h}) <= Bytes(S) + Size[h]
<1> DEFINE Places(T) == {b \in T \X (1..MaxBytes) : b[2] <= Size[b[1]]}
<1>1. MaxBytes \in Nat /\ Size \in [Hash -> 1..MaxBytes]
    BY CacheAssumption
<1>2. IsFiniteSet(1..MaxBytes)
    BY <1>1, FS_Interval
<1>3. ASSUME NEW T \in SUBSET Hash, IsFiniteSet(T)
      PROVE  IsFiniteSet(Places(T)) /\ Bytes(T) = Cardinality(Places(T)) /\ Bytes(T) \in Nat
  <2>1. IsFiniteSet(T \X (1..MaxBytes))
    BY <1>2, <1>3, FS_Product
  <2>2. IsFiniteSet(Places(T))
    BY <2>1, FS_Subset
  <2>3. Bytes(T) = Cardinality(Places(T))
    BY DEF Bytes
  <2>4. Cardinality(Places(T)) \in Nat
    BY <2>2, FS_CardinalityType
  <2> QED
    BY <2>2, <2>3, <2>4
<1>4. ASSUME NEW T \in SUBSET S PROVE Bytes(T) \in Nat /\ Bytes(T) <= Bytes(S)
  <2>1. IsFiniteSet(T)
    BY <1>4, FS_Subset
  <2>2. Places(T) \in SUBSET Places(S)
    OBVIOUS
  <2>3. IsFiniteSet(Places(S)) /\ Bytes(S) = Cardinality(Places(S))
    BY <1>3
  <2>4. Bytes(T) = Cardinality(Places(T)) /\ Bytes(T) \in Nat
    BY <1>3, <2>1
  <2> HIDE DEF Places
  <2>5. Cardinality(Places(T)) <= Cardinality(Places(S))
    BY <2>2, <2>3, FS_Subset
  <2> QED
    BY <2>3, <2>4, <2>5
<1>5. ASSUME NEW h \in Hash
      PROVE  Bytes(S \cup {h}) \in Nat /\ Bytes(S \cup {h}) <= Bytes(S) + Size[h]
  <2> DEFINE One == {h} \X (1..Size[h])
  <2>1. Size[h] \in 1..MaxBytes /\ Size[h] \in Nat
    BY <1>1
  <2>2. IsFiniteSet(1..Size[h]) /\ Cardinality(1..Size[h]) = Size[h]
    BY <2>1, FS_Interval
  <2>3. IsFiniteSet({h}) /\ Cardinality({h}) = 1
    BY FS_Singleton
  <2>4. IsFiniteSet(One) /\ Cardinality(One) = 1 * Size[h]
    BY <2>2, <2>3, FS_Product
  <2>5. IsFiniteSet(S \cup {h})
    BY FS_AddElement
  <2>6. /\ IsFiniteSet(Places(S)) /\ Bytes(S) = Cardinality(Places(S)) /\ Bytes(S) \in Nat
        /\ IsFiniteSet(Places(S \cup {h})) /\ Bytes(S \cup {h}) = Cardinality(Places(S \cup {h}))
        /\ Bytes(S \cup {h}) \in Nat
    BY <1>3, <2>5
  <2>7. Places(S \cup {h}) \subseteq Places(S) \cup One
    BY <2>1
  <2> HIDE DEF Places, One
  <2>8. /\ IsFiniteSet(Places(S) \cup One)
        /\ Cardinality(Places(S) \cup One)
             = Cardinality(Places(S)) + Cardinality(One) - Cardinality(Places(S) \cap One)
    BY <2>4, <2>6, FS_Union
  <2>9. Cardinality(Places(S) \cap One) \in Nat
    BY <2>4, FS_Intersection, FS_CardinalityType
  <2>10. Cardinality(Places(S \cup {h})) <= Cardinality(Places(S) \cup One)
    BY <2>7, <2>8, FS_Subset
  <2> QED
    BY <2>1, <2>4, <2>6, <2>8, <2>9, <2>10
<1> QED
    BY <1>3, <1>4, <1>5

LEMMA NoFilesNoBytes == Bytes({}) = 0
<1>1. {b \in {} \X (1..MaxBytes) : b[2] <= Size[b[1]]} = {}
    OBVIOUS
<1> QED
    BY <1>1, FS_EmptySet DEF Bytes

(* Fewer files fit the limit as well, and what was counted stays counted.  *)
LEMMA FewerFiles ==
    ASSUME TypeInv, IsFiniteSet(files), Counting' \in SUBSET Counting, Bytes(Counting) <= MaxBytes
    PROVE  Bytes(Counting)' <= MaxBytes
<1>1. Counting \in SUBSET Hash /\ IsFiniteSet(Counting)
    BY FS_Difference DEF Counting, TypeInv, TypeOK
<1>2. Bytes(Counting') <= Bytes(Counting) /\ Bytes(Counting) \in Nat /\ Bytes(Counting') \in Nat
    BY <1>1, BytesOf
<1>3. MaxBytes \in Nat
    BY CacheAssumption
<1> QED
    BY <1>2, <1>3 DEF Bytes

LEMMA CountedStays ==
    ASSUME TypeInv, IsFiniteSet(files), Counting' \in SUBSET Counting,
           NEW u \in Task, task'[u] = task[u], Counted(u)
    PROVE  Counted(u)'
<1>1. Counting \in SUBSET Hash /\ IsFiniteSet(Counting)
    BY FS_Difference DEF Counting, TypeInv, TypeOK
<1>2. task[u].total \in Nat
    BY DEF TypeInv, TypeOK
<1> DEFINE L == ToSet(task[u].left)
<1> HIDE DEF L
<1>3. Counting' \ L \in SUBSET (Counting \ L) /\ Counting \ L \in SUBSET Hash
    BY <1>1
<1>4. IsFiniteSet(Counting \ L)
    BY <1>1, FS_Difference
<1>5. /\ Bytes(Counting' \ L) <= Bytes(Counting \ L)
      /\ Bytes(Counting \ L) \in Nat /\ Bytes(Counting' \ L) \in Nat
    BY <1>3, <1>4, BytesOf
<1>6. task[u].total >= Bytes(Counting \ L) /\ At(u, "summing")
    BY DEF Counted, L
<1>7. task[u].total >= Bytes(Counting' \ L)
    BY <1>2, <1>5, <1>6
<1> QED
    BY <1>6, <1>7 DEF Counted, At, L, Bytes

(* A measurement goes on while other tasks act, as long as they add no     *)
(* file; so it is enough to look at the task that takes a step.            *)
LEMMA MeasuringGoesOn ==
    ASSUME TypeInv, IsFiniteSet(files), Measured, NEW t \in Task,
           \A u \in Task \ {t} : task'[u] = task[u],
           broken' = broken, files' = files, clashed \subseteq clashed',
           broken = {} /\ (WillMeasure(t) \/ Counted(t)) => Measured'
    PROVE  Measured'
<1>1. Counting' \in SUBSET Counting
    BY DEF Counting
<1>2. ASSUME NEW u \in Task, u # t, WillMeasure(u) PROVE WillMeasure(u)'
    BY <1>2 DEF WillMeasure, At
<1>3. ASSUME NEW u \in Task, u # t, Counted(u) PROVE Counted(u)'
    BY <1>1, <1>3, CountedStays
<1>4. Bytes(Counting) <= MaxBytes => Bytes(Counting)' <= MaxBytes
    BY <1>1, FewerFiles
<1> QED
    BY <1>2, <1>3, <1>4 DEF Measured

(* A list of the sorted set misses no file, unless its task will measure.  *)
LEMMA UnlistedIsMeasured ==
    ASSUME TypeInv, CacheInv, broken = {}, NEW h \in Counting, h \notin meta \/ h \notin Ranked
    PROVE  \E t \in Task : /\ WillMeasure(t) /\ task[t].hash = h
                           /\ task[t].at \in {"checking", "writing", "ranking"}
<1>1. h \in files /\ Settled(h)
    BY DEF Counting, CacheInv, Free, TypeInv, TypeOK
<1> QED
    BY <1>1 DEF Settled, WillMeasure, At

(* What a step of a task does to the variables that are about measuring.   *)
LEMMA GoKeepsLocals ==
    ASSUME TypeInv, NEW t \in Task, NEW s, Go(t, s)
    PROVE  /\ task'[t].at = s /\ task'[t].hash = task[t].hash /\ task'[t].victim = task[t].victim
           /\ task'[t].evicting = task[t].evicting
    BY DEF Go, TypeInv, TypeOK

LEMMA CacheStepMeasures ==
    ASSUME TypeInv, Roles, CacheInv, IsFiniteSet(files), Measured, NEW t \in Task,
           CacheStep(t), broken' = broken, clashed \subseteq clashed',
           NEW h, h = task[t].hash, NEW v, v = task[t].victim
    PROVE  Measured'
<1>1. /\ h \in Hash /\ v \in Hash \cup {None}
      /\ \A u \in Task \ {t} : task'[u] = task[u]
      /\ files' = IF Unlink(t) THEN files \ {v} ELSE files
      /\ task[t] \in TaskRecord /\ Role(task[t])
  <2>1. task[t] \in TaskRecord /\ Role(task[t])
    BY DEF TypeInv, TypeOK, TaskRecord, Roles
  <2>2. h \in Hash /\ v \in Hash \cup {None} /\ \E s, y, z : Typed(t, s, y, z)
    BY CacheStepEffect
  <2>3. files' = IF Unlink(t) THEN files \ {v} ELSE files
    BY CacheEffect
  <2>4. \A u \in Task \ {t} : task'[u] = task[u]
    BY <2>2 DEF Typed, Becomes
  <2> QED
    BY <2>1, <2>2, <2>3, <2>4
<1>2. ASSUME WillMeasure(t)' \/ Counted(t)' PROVE Measured'
    BY <1>2 DEF Measured
<1>3. ASSUME ~WillMeasure(t), ~Counted(t), files' = files PROVE Measured'
    BY <1>1, <1>3, MeasuringGoesOn
<1>4. CASE ReadMeta(t) \/ LookForFile(t) \/ Touch(t)
  <2>1. ~WillMeasure(t) /\ ~Counted(t) /\ files' = files
    BY <1>4 DEF ReadMeta, LookForFile, Touch, WillMeasure, Counted, At, cache
  <2> QED
    BY <1>3, <2>1
<1>5. CASE WriteMeta(t)
    BY <1>2, <1>5, GoKeepsLocals DEF WriteMeta, WillMeasure
<1>6. CASE Rank(t)
    BY <1>2, <1>6, GoKeepsLocals DEF Rank, WillMeasure
<1>7. CASE List(t)
  <2>1. /\ task'[t].at = "summing" /\ task'[t].left = lru /\ task'[t].total = 0
        /\ files' = files /\ At(t, "listing")
    BY <1>7 DEF List, TypeInv, TypeOK, cache
  <2>2. CASE \E x \in Counting : x \notin Ranked /\ broken = {}
    <3>1. PICK u \in Task : /\ WillMeasure(u)
                            /\ task[u].at \in {"checking", "writing", "ranking"}
      BY <2>2, UnlistedIsMeasured
    <3>2. u # t
      BY <2>1, <3>1 DEF At
    <3>3. task'[u] = task[u]
      BY <1>1, <3>2
    <3>4. WillMeasure(u)'
      BY <2>1, <3>1, <3>3 DEF WillMeasure, At
    <3> QED
      BY <3>4 DEF Measured
  <2>3. CASE Counting \subseteq Ranked
    <3>1. Counting' \ ToSet(lru) = {}
      BY <2>1, <2>3 DEF Counting, Ranked
    <3>2. Bytes(Counting' \ ToSet(lru)) = 0
      BY <3>1, NoFilesNoBytes
    <3>3. Counted(t)'
      BY <2>1, <3>2 DEF Counted, At, Bytes
    <3> QED
      BY <1>2, <3>3
  <2> QED
    BY <2>2, <2>3 DEF Measured
<1>8. CASE AddSize(t)
  <2> DEFINE x == Head(task[t].left)
             L == ToSet(task[t].left)
             M == ToSet(Tail(task[t].left))
             n == IF x \in meta THEN Size[x] ELSE 0
  <2>1. /\ At(t, "summing") /\ files' = files /\ task[t].left # <<>>
        /\ task[t].left \in Seq(Hash) /\ task[t].total \in Nat
    BY <1>1, <1>8 DEF AddSize, cache, TaskRecord
  <2>2. /\ task'[t].at = "summing" /\ task'[t].left = Tail(task[t].left)
        /\ task'[t].total = task[t].total + n
    <3>1. task \in [Task -> TaskRecord]
      BY DEF TypeInv, TypeOK, TaskRecord
    <3> QED
      BY <1>8, <2>1, <3>1 DEF AddSize, At, TaskRecord
  <2>3. x \in Hash /\ L \subseteq M \cup {x}
    <3> SUFFICES ASSUME NEW q, q = task[t].left
                 PROVE  Head(q) \in Hash /\ ToSet(q) \subseteq ToSet(Tail(q)) \cup {Head(q)}
      OBVIOUS
    <3>1. /\ q \in Seq(Hash) /\ q # <<>> /\ DOMAIN q = 1 .. Len(q) /\ Len(q) \in Nat
          /\ Head(q) = q[1]
      BY <2>1, LenProperties
    <3>2. /\ Head(q) \in Hash /\ Tail(q) \in Seq(Hash) /\ Len(Tail(q)) = Len(q) - 1
          /\ \A i \in 1 .. Len(q) - 1 : Tail(q)[i] = q[i + 1]
      BY <3>1, TailLemma
    <3>3. DOMAIN Tail(q) = 1 .. Len(q) - 1
      BY <3>2, LenProperties
    <3>4. ASSUME NEW i \in 1 .. Len(q), i # 1 PROVE q[i] \in ToSet(Tail(q))
      <4>1. i - 1 \in 1 .. Len(q) - 1 /\ (i - 1) + 1 = i
        BY <3>1, <3>4
      <4>2. Tail(q)[i - 1] = q[i]
        BY <3>2, <4>1
      <4> QED
        BY <3>3, <4>1, <4>2 DEF ToSet
    <3>5. ToSet(q) = {q[i] : i \in 1 .. Len(q)}
      BY <3>1 DEF ToSet
    <3> QED
      BY <3>1, <3>2, <3>4, <3>5
  <2> HIDE DEF x, L, M
  <2>4. ASSUME broken = {}, WillMeasure(t) \/ Counted(t) PROVE Measured'
    <3>1. At(t, "summing") /\ task[t].total >= Bytes(Counting \ L)
      BY <2>1, <2>4 DEF WillMeasure, Counted, At, L
    <3>2. Counting \in SUBSET Hash /\ IsFiniteSet(Counting) /\ Counting' \subseteq Counting
      BY <2>1, FS_Difference DEF Counting, TypeInv, TypeOK
    <3>3. Counting \ L \in SUBSET Hash /\ IsFiniteSet(Counting \ L)
      BY <3>2, FS_Difference
    <3>4. CASE x \in meta \/ x \notin Counting
      <4>1. n \in Nat /\ n = IF x \in meta THEN Size[x] ELSE 0
        BY <2>3, CacheAssumption
      <4> HIDE DEF n
      <4> DEFINE R == IF x \in meta THEN (Counting \ L) \cup {x} ELSE Counting \ L
      <4>2. R \in SUBSET Hash /\ IsFiniteSet(R)
        BY <2>3, <3>3, FS_AddElement
      <4>3. Counting' \ M \in SUBSET R
        BY <2>3, <3>2, <3>4
      <4>4. Bytes(R) \in Nat /\ Bytes(R) <= Bytes(Counting \ L) + n /\ Bytes(Counting \ L) \in Nat
        BY <2>3, <3>3, <4>1, BytesOf
      <4> HIDE DEF R
      <4>5. Bytes(Counting' \ M) \in Nat /\ Bytes(Counting' \ M) <= Bytes(R)
        BY <4>2, <4>3, BytesOf
      <4>6. task[t].total + n >= Bytes(Counting' \ M)
        BY <2>1, <3>1, <4>1, <4>4, <4>5
      <4>7. Counted(t)'
        BY <2>2, <4>6 DEF Counted, At, M, Bytes
      <4> QED
        BY <1>2, <4>7
    <3>5. CASE x \notin meta /\ x \in Counting
      <4>1. PICK u \in Task : /\ WillMeasure(u)
                              /\ task[u].at \in {"checking", "writing", "ranking"}
        BY <2>4, <3>5, UnlistedIsMeasured
      <4>2. u # t
        BY <3>1, <4>1 DEF At
      <4>3. task'[u] = task[u]
        BY <1>1, <4>2
      <4>4. WillMeasure(u)'
        BY <2>1, <4>1, <4>3 DEF WillMeasure, At
      <4> QED
        BY <4>4 DEF Measured
    <3> QED
      BY <3>4, <3>5
  <2> QED
    BY <1>1, <2>1, <2>4, MeasuringGoesOn
<1>9. CASE OverLimit(t)
  <2>1. WillMeasure(t)'
    BY <1>9 DEF OverLimit, WillMeasure, TypeInv, TypeOK
  <2> QED
    BY <1>2, <2>1
<1>10. CASE WithinLimit(t)
  <2>1. /\ At(t, "summing") /\ task[t].left = <<>> /\ task[t].total <= MaxBytes
        /\ files' = files /\ task[t].total \in Nat
    BY <1>1, <1>10 DEF WithinLimit, cache, TaskRecord
  <2>2. ASSUME WillMeasure(t) \/ Counted(t) PROVE Measured'
    <3>1. task[t].total >= Bytes(Counting \ ToSet(task[t].left))
      BY <2>1, <2>2 DEF WillMeasure, Counted, At
    <3>2. Counting \ ToSet(task[t].left) = Counting
      BY <2>1 DEF ToSet
    <3>3. Counting \in SUBSET Hash /\ IsFiniteSet(Counting) /\ Counting' \in SUBSET Counting
      BY <2>1, FS_Difference DEF Counting, TypeInv, TypeOK
    <3>4. Bytes(Counting) \in Nat /\ Bytes(Counting') \in Nat /\ Bytes(Counting') <= Bytes(Counting)
      BY <3>3, BytesOf
    <3>5. Bytes(Counting') <= MaxBytes
      <4>1. task[t].total >= Bytes(Counting) /\ MaxBytes \in Nat
        BY <3>1, <3>2, CacheAssumption
      <4> QED
        BY <2>1, <3>4, <4>1
    <3> QED
      BY <3>5 DEF Measured, Bytes
  <2> QED
    BY <1>1, <2>1, <2>2, MeasuringGoesOn
<1>11. CASE ChooseOldest(t) /\ lru # <<>>
  <2>1. task'[t].at = "inspecting"
    BY <1>11 DEF ChooseOldest, TypeInv, TypeOK
  <2> QED
    BY <1>2, <2>1 DEF WillMeasure
<1>12. CASE ChooseOldest(t) /\ lru = <<>>
  <2>1. At(t, "choosing") /\ files' = files /\ Ranked = {}
    BY <1>12 DEF ChooseOldest, cache, Ranked, ToSet
  <2>2. ASSUME broken = {} PROVE Measured'
    <3>1. CASE Counting # {}
      <4>1. PICK u \in Task : /\ WillMeasure(u)
                              /\ task[u].at \in {"checking", "writing", "ranking"}
        BY <2>1, <2>2, <3>1, UnlistedIsMeasured
      <4>2. u # t
        BY <2>1, <4>1 DEF At
      <4>3. task'[u] = task[u]
        BY <1>1, <4>2
      <4>4. WillMeasure(u)'
        BY <2>1, <4>1, <4>3 DEF WillMeasure, At
      <4> QED
        BY <4>4 DEF Measured
    <3>2. CASE Counting = {}
      <4>1. Counting' = {}
        BY <2>1, <3>2 DEF Counting
      <4>2. Bytes(Counting') <= MaxBytes
        BY <4>1, NoFilesNoBytes, CacheAssumption
      <4> QED
        BY <4>2 DEF Measured, Bytes
    <3> QED
      BY <3>1, <3>2
  <2> QED
    BY <1>1, <2>1, <2>2, MeasuringGoesOn
<1>13. CASE Inspect(t) \/ FindFile(t)
  <2>1. task[t].evicting = TRUE /\ files' = files
    BY <1>1, <1>13 DEF Inspect, FindFile, At, Role, cache
  <2>2. task'[t].evicting = TRUE /\ task'[t].victim = v
    BY <1>13, <2>1, GoKeepsLocals DEF Inspect, FindFile
  <2>3. \/ task'[t].at \in {"finding", "deleting"}
        \/ task'[t].at = "unlinking" /\ v \in files
    BY <1>13, GoKeepsLocals DEF Inspect, FindFile
  <2> QED
    BY <1>2, <2>1, <2>2, <2>3 DEF WillMeasure, At
<1>14. CASE Unlink(t) /\ v \in files
  <2>1. task[t].evicting = TRUE
    BY <1>1, <1>14 DEF Unlink, At, Role
  <2>2. task'[t].evicting = TRUE /\ task'[t].at = "deleting"
    BY <1>14, <2>1, GoKeepsLocals DEF Unlink
  <2> QED
    BY <1>2, <2>2 DEF WillMeasure, At
<1>15. CASE Unlink(t) /\ v \notin files
  <2>1. ~WillMeasure(t) /\ ~Counted(t) /\ files' = files
    BY <1>15 DEF Unlink, WillMeasure, Counted, At
  <2> QED
    BY <1>3, <2>1
<1>16. CASE (Delete(t) \/ RemoveMember(t)) /\ task[t].evicting = FALSE
  <2>1. ~WillMeasure(t) /\ ~Counted(t) /\ files' = files
    BY <1>16 DEF Delete, RemoveMember, WillMeasure, Counted, At
  <2> QED
    BY <1>3, <2>1
<1>17. CASE Delete(t) /\ task[t].evicting = TRUE
  <2>1. task'[t].at = "removing" /\ task'[t].evicting = TRUE
    BY <1>17, GoKeepsLocals DEF Delete
  <2> QED
    BY <1>2, <2>1 DEF WillMeasure, At
<1>18. CASE RemoveMember(t) /\ task[t].evicting = TRUE
  <2>1. task'[t].at = "listing"
    BY <1>18 DEF RemoveMember, TypeInv, TypeOK
  <2> QED
    BY <1>2, <2>1 DEF WillMeasure
<1>19. task[t].evicting = TRUE \/ task[t].evicting = FALSE
    BY <1>1 DEF TaskRecord
<1> QED
    BY <1>4, <1>5, <1>6, <1>7, <1>8, <1>9, <1>10, <1>11, <1>12, <1>13, <1>14, <1>15, <1>16,
       <1>17, <1>18, <1>19 DEF CacheStep

(* Each step keeps what is measured, and the files finite.                 *)
LEMMA NextMeasures ==
    ASSUME TypeInv, Roles, CacheInv, IsFiniteSet(files), Measured, [Next]_vars
    PROVE  IsFiniteSet(files)' /\ Measured'
<1>1. CASE UNCHANGED vars
    BY <1>1 DEF vars, cache, history, Measured, WillMeasure, Counted, Counting, Bytes, At
<1>2. CASE Observe /\ \E t \in Task : UseCache(t)
  <2>1. PICK t \in Task : UseCache(t)
    BY <1>2
  <2>2. CacheStep(t) /\ broken' = broken /\ clashed \subseteq clashed'
    BY <1>2, <2>1 DEF UseCache, history, Observe
  <2>3. Measured'
    BY <2>2, CacheStepMeasures
  <2>4. files' \in SUBSET files
    BY <2>2, CacheEffect
  <2> QED
    BY <2>3, <2>4, FS_Subset
<1>3. CASE Observe /\ \E t \in Task : Interrupt(t)
  <2>1. PICK t \in Task : Interrupt(t)
    BY <1>3
  <2>2. task[t].hash \in Hash /\ files' = files
    BY <2>1 DEF Interrupt, AtCommand, Roles, Role, cache
  <2>3. broken' # {}
    BY <2>1, <2>2 DEF Interrupt, BreakOff
  <2> QED
    BY <2>2, <2>3 DEF Measured
<1>4. CASE Observe /\ Restart
  <2>1. files' = files
    BY <1>4 DEF Restart, cache
  <2>2. CASE \E t \in Task : task[t].hash \in Hash
    <3>1. broken' # {}
      BY <1>4, <2>2 DEF Restart, BreakOff
    <3> QED
      BY <2>1, <3>1 DEF Measured
  <2>3. CASE \A t \in Task : task[t].hash \notin Hash
    <3>1. \A t \in Task : At(t, "asleep")
      BY <2>3 DEF Roles, Role, At
    <3>2. broken = {} => Bytes(Counting) <= MaxBytes
      BY <3>1 DEF Measured, WillMeasure, Counted, At
    <3>3. broken \subseteq broken' /\ Counting' \in SUBSET Counting
      BY <1>4, <2>1 DEF Restart, BreakOff, Observe, Counting
    <3> QED
      BY <2>1, <3>2, <3>3, FewerFiles DEF Measured
  <2> QED
    BY <2>2, <2>3
<1>5. CASE Observe /\ \E h \in Hash : Expire(h)
  <2>1. /\ files' = files /\ task' = task /\ broken' = broken
        /\ Counting' \in SUBSET Counting /\ clashed \subseteq clashed'
    BY <1>5 DEF Expire, cache, Observe, Counting
  <2>2. CASE \E t \in Task : WillMeasure(t) \/ Counted(t)
    <3>1. PICK t \in Task : WillMeasure(t) \/ Counted(t)
      BY <2>2
    <3>2. CASE WillMeasure(t)
      BY <2>1, <3>2 DEF WillMeasure, At, Measured
    <3>3. CASE Counted(t)
      BY <2>1, <3>3, CountedStays DEF Measured
    <3> QED
      BY <3>1, <3>2, <3>3
  <2>3. CASE ~ \E t \in Task : WillMeasure(t) \/ Counted(t)
    BY <2>1, <2>3, FewerFiles DEF Measured
  <2> QED
    BY <2>1, <2>2, <2>3
<1>6. CASE /\ Observe
           /\ \E t \in Task : \/ AcquireLock(t) \/ Fetch(t) \/ CheckFile(t) \/ ReleaseLock(t)
                              \/ \E h \in Hash : Request(t, h)
  <2>1. PICK t \in Task : \/ AcquireLock(t) \/ Fetch(t) \/ CheckFile(t) \/ ReleaseLock(t)
                          \/ \E h \in Hash : Request(t, h)
    BY <1>6
  <2> DEFINE h == task[t].hash
             v == task[t].victim
  <2> HIDE DEF h, v
  <2>2. broken' = broken /\ clashed \subseteq clashed'
    BY <1>6, <2>1 DEF AcquireLock, Fetch, CheckFile, ReleaseLock, Request, history, Observe
  <2>3. \A u \in Task \ {t} : task'[u] = task[u]
    BY <2>1, WorkerStepEffect DEF Typed, Becomes
  <2>4. CASE files' = files
    <3>1. CASE CheckFile(t) /\ task[t].hash \in files
      <4>1. task'[t].at = "writing"
        BY <3>1, GoKeepsLocals DEF CheckFile
      <4>2. WillMeasure(t)'
        BY <4>1 DEF WillMeasure
      <4> QED
        BY <2>4, <4>2 DEF Measured
    <3>2. CASE ~(CheckFile(t) /\ task[t].hash \in files)
      <4>1. ~WillMeasure(t) /\ ~Counted(t)
        BY <2>1, <3>2 DEF AcquireLock, Fetch, CheckFile, ReleaseLock, Request, WillMeasure, Counted, At,
           Finally
      <4> QED
        BY <2>2, <2>3, <2>4, <4>1, MeasuringGoesOn
    <3> QED
      BY <3>1, <3>2
  <2>5. CASE files' # files
    <3>1. Fetch(t)
      BY <2>1, <2>5 DEF AcquireLock, CheckFile, ReleaseLock, Request, cache
    <3>2. /\ Go(t, "checking") /\ files' = files \cup {task[t].hash}
      BY <2>5, <3>1 DEF Fetch
    <3>3. WillMeasure(t)'
      BY <3>2, GoKeepsLocals DEF WillMeasure, At
    <3> QED
      BY <3>2, <3>3, FS_AddElement DEF Measured
  <2> QED
    BY <2>4, <2>5
<1> QED
    BY <1>1, <1>2, <1>3, <1>4, <1>5, <1>6 DEF Next, Step

LEMMA InitMeasures == Init => IsFiniteSet(files) /\ Measured
<1> SUFFICES ASSUME Init PROVE IsFiniteSet(files) /\ Measured
    OBVIOUS
<1>1. PICK S \in SUBSET Hash : /\ IsFiniteSet(S) /\ Bytes(S) <= MaxBytes
                               /\ \E order \in SetToSeqs(S) : Warm(order)
    BY DEF Init
<1>2. PICK order \in SetToSeqs(S) : Warm(order)
    BY <1>1
<1>3. order \in [1..Cardinality(S) -> S]
    BY <1>2 DEF SetToSeqs
<1>4. files \in SUBSET S /\ Counting \in SUBSET S
    BY <1>2, <1>3 DEF Init, Warm, Counting, ToSet
<1>5. IsFiniteSet(files)
    BY <1>1, <1>4, FS_Subset
<1>6. Bytes(Counting) <= Bytes(S) /\ Bytes(Counting) \in Nat /\ Bytes(S) \in Nat
    BY <1>1, <1>4, BytesOf
<1>7. Bytes(Counting) <= MaxBytes
    BY <1>1, <1>6, CacheAssumption
<1> QED
    BY <1>5, <1>7 DEF Measured

\* When nobody downloads, the files fill the size limit at most, however puts
\* and evictions overlapped: outside the hashes that one task removed while
\* another used them, and as long as no handling was broken off
\* (cache_manager.py:116-193).
THEOREM CacheLimitKept == Spec => []LimitKept
<1> DEFINE Kept == IsFiniteSet(files) /\ Measured
<1>1. TypeInv /\ IInv /\ CacheInv /\ Kept /\ [Next]_vars => Kept'
    BY NextMeasures DEF IInv
<1>2. TypeInv /\ IInv /\ [Next]_vars => TypeInv'
    BY NextKeepsTypes DEF IInv
<1>3. Init => Kept
    BY InitMeasures
<1>4. ASSUME Kept PROVE LimitKept
  <2> SUFFICES ASSUME Quiet, broken = {} PROVE Bytes(files \ clashed) <= MaxBytes
    BY DEF LimitKept
  <2>1. \A t \in Task : task[t].at = "asleep"
    BY DEF Quiet, Task0, Asleep
  <2> QED
    BY <1>4, <2>1 DEF Measured, WillMeasure, Counted, At, Counting
<1> HIDE DEF Kept
<1> QED
    BY InitTypes, CacheInvariant, LockInvariant, <1>1, <1>2, <1>3, <1>4, PTL DEF Spec
---------------------------------------------------------------------------------
(* The answers *)

Evicting(t) == task[t].at \in {"deleting", "removing"} /\ task[t].evicting = TRUE

\* Task t is in put, and has given its file its place in the sorted set.
Ranking(t) == \/ task[t].at \in {"listing", "summing", "choosing",
                                 "inspecting", "finding", "unlinking"}
              \/ Evicting(t)

\* Task t has found its file, and did not give up since.
Found(t) == task[t].at \in {"touching", "writing", "ranking", "answering"} \/ Ranking(t)

\* A put that is alone: its file is the youngest, and by itself within the
\* limit, so that the oldest is another one whenever there is one to evict.
PutOK(t) ==
    /\ Ranking(t) => lru # <<>> /\ lru[Len(lru)] = task[t].hash
    /\ At(t, "summing") /\ lru = <<task[t].hash>> =>
         \/ task[t].left = <<task[t].hash>> /\ task[t].total = 0
         \/ task[t].left = <<>> /\ task[t].total <= Size[task[t].hash]
    /\ At(t, "choosing") => lru # <<task[t].hash>>
    /\ task[t].at \in {"inspecting", "finding", "unlinking"} \/ Evicting(t)
         => task[t].victim # task[t].hash

AnswersInv ==
    /\ \A t \in Task \ hunted :
          task[t] # Asleep => ~Hunted(t) /\ (Found(t) => task[t].hash \in files)
    /\ \A t \in Task \ crowded : task[t] # Asleep => ~Crowded(t) /\ PutOK(t)

(* Only an eviction removes a file, its victim's.                          *)
LEMMA FilesLost ==
    ASSUME Next, NEW f \in files \ files'
    PROVE  \E u \in Task : Unlink(u) /\ f = task[u].victim
<1>1. CASE \E u \in Task : Unlink(u)
    BY <1>1 DEF Unlink
<1>2. CASE ~ \E u \in Task : Unlink(u)
  <2>1. files \subseteq files'
    BY <1>2 DEF Next, Step, UseCache, CacheStep, Request, Interrupt, Expire, Restart, AcquireLock,
       Fetch, CheckFile, ReleaseLock, ReadMeta, LookForFile, Touch, WriteMeta, Rank, List, AddSize,
       OverLimit, WithinLimit, ChooseOldest, Inspect, FindFile, Delete, RemoveMember, cache
  <2> QED
    BY <2>1
<1> QED
    BY <1>1, <1>2

(* A task outside put keeps what is required of one in it.                 *)
LEMMA OutsidePut ==
    ASSUME NEW t, ~Ranking(t)
    PROVE  PutOK(t)
BY DEF PutOK, Ranking, At

(* The first of several files is not the youngest.                         *)
LEMMA OldestIsAnother ==
    ASSUME NEW q \in Seq(Hash), IsInjective(q), q # <<>>, NEW h, q[Len(q)] = h, q # <<h>>
    PROVE  Head(q) # h
<1>1. Len(q) \in Nat \ {0} /\ DOMAIN q = 1 .. Len(q) /\ Head(q) = q[1]
    BY EmptySeq, LenProperties
<1>2. CASE Len(q) = 1
  <2>1. q = <<h>>
    BY <1>1, <1>2
  <2> QED
    BY <2>1
<1>3. CASE Len(q) # 1
  <2>1. 1 \in DOMAIN q /\ Len(q) \in DOMAIN q
    BY <1>1
  <2> QED
    BY <1>1, <1>3, <2>1 DEF IsInjective
<1> QED
    BY <1>2, <1>3

(* A put that is alone goes on so.                                         *)
LEMMA CacheStepPut ==
    ASSUME TypeInv, Roles, NEW t \in Task, CacheStep(t), PutOK(t), NEW h, h = task[t].hash
    PROVE  PutOK(t)'
<1>1. /\ task \in [Task -> TaskRecord] /\ task[t] \in TaskRecord /\ Role(task[t])
      /\ lru \in Seq(Hash) /\ IsInjective(lru) /\ h \in Hash
    BY CacheStepEffect DEF TypeInv, TypeOK, TaskRecord, Roles
<1>2. ASSUME ~Ranking(t)' PROVE PutOK(t)'
    BY <1>2, OutsidePut DEF PutOK, Ranking, Evicting, At
<1>3. ASSUME Ranking(t) PROVE lru # <<>> /\ lru[Len(lru)] = h
    BY <1>3 DEF PutOK
<1>4. CASE ReadMeta(t)
  <2>1. task'[t].at \in {"looking", "locking"}
    BY <1>4, GoKeepsLocals DEF ReadMeta
  <2> QED
    BY <1>2, <2>1 DEF Ranking, Evicting
<1>5. CASE LookForFile(t)
  <2>1. task[t].evicting # TRUE
    BY <1>1, <1>5 DEF LookForFile, At, Role, InTry, Finally
  <2>2. task'[t].at \in {"touching", "deleting"} /\ task'[t].evicting = task[t].evicting
    BY <1>1, <1>5 DEF LookForFile, Go, TaskRecord
  <2> QED
    BY <1>2, <2>1, <2>2 DEF Ranking, Evicting
<1>6. CASE Touch(t)
  <2>1. task'[t].at = "asleep"
    BY <1>1, <1>6 DEF Touch, Sleep, Asleep
  <2> QED
    BY <1>2, <2>1 DEF Ranking, Evicting
<1>7. CASE WriteMeta(t)
  <2>1. task'[t].at = "ranking"
    BY <1>7, GoKeepsLocals DEF WriteMeta
  <2> QED
    BY <1>2, <2>1 DEF Ranking, Evicting
<1>8. CASE WithinLimit(t)
  <2>1. task'[t].at = "answering"
    BY <1>8, GoKeepsLocals DEF WithinLimit
  <2> QED
    BY <1>2, <2>1 DEF Ranking, Evicting
<1>9. CASE Rank(t)
  <2>1. task'[t].at = "listing" /\ task'[t].hash = h
    BY <1>9, GoKeepsLocals DEF Rank
  <2> DEFINE r == RemoveFirst(lru, h)
  <2>2. r \in Seq(Hash) /\ lru' = Append(r, h)
    BY <1>1, <1>9, RemoveFirstLemma DEF Rank
  <2> HIDE DEF r
  <2>3. lru' # <<>> /\ lru'[Len(lru')] = h
    <3>1. Len(lru') = Len(r) + 1 /\ lru'[Len(r) + 1] = h /\ Len(r) \in Nat
      BY <1>1, <2>2, AppendProperties, LenProperties
    <3> QED
      BY <3>1
  <2> QED
    BY <2>1, <2>3 DEF PutOK, Ranking, Evicting, At
<1>10. CASE List(t)
  <2>1. /\ task'[t].at = "summing" /\ task'[t].hash = h /\ task'[t].left = lru
        /\ task'[t].total = 0 /\ lru' = lru /\ Ranking(t)
    BY <1>1, <1>10 DEF List, TaskRecord, At, Ranking, cache
  <2>2. lru # <<>> /\ lru[Len(lru)] = h
    BY <1>3, <2>1
  <2> QED
    BY <2>1, <2>2 DEF PutOK, Ranking, Evicting, At
<1>11. CASE AddSize(t)
  <2> DEFINE n == IF Head(task[t].left) \in meta THEN Size[Head(task[t].left)] ELSE 0
  <2>1. /\ At(t, "summing") /\ task[t].left # <<>> /\ lru' = lru
        /\ task'[t].at = "summing" /\ task'[t].hash = h
        /\ task'[t].left = Tail(task[t].left)
        /\ task'[t].total = task[t].total + n
    BY <1>1, <1>11 DEF AddSize, At, TaskRecord, cache
  <2>2. lru # <<>> /\ lru[Len(lru)] = h
    BY <1>3, <2>1 DEF Ranking, At
  <2>3. ASSUME lru = <<h>> PROVE task'[t].left = <<>> /\ task'[t].total <= Size[h]
    <3>1. task[t].left = <<h>> /\ task[t].total = 0
      BY <2>1, <2>3 DEF PutOK
    <3>2. Head(<<h>>) = h /\ Tail(<<h>>) = <<>>
      OBVIOUS
    <3>3. n = IF h \in meta THEN Size[h] ELSE 0
      BY <3>1, <3>2
    <3> HIDE DEF n
    <3>4. n <= Size[h] /\ n \in Nat
      BY <1>1, <3>3, CacheAssumption
    <3> QED
      BY <2>1, <3>1, <3>2, <3>4
  <2> HIDE DEF n
  <2> QED
    BY <2>1, <2>2, <2>3 DEF PutOK, Ranking, Evicting, At
<1>12. CASE OverLimit(t)
  <2>1. /\ At(t, "summing") /\ task[t].left = <<>> /\ task[t].total > MaxBytes
        /\ lru' = lru /\ task'[t].hash = h
        /\ task'[t].at = IF task[t].evicting THEN "choosing" ELSE "listing"
    BY <1>1, <1>12 DEF OverLimit, At, TaskRecord, cache
  <2>2. lru # <<>> /\ lru[Len(lru)] = h
    BY <1>3, <2>1 DEF Ranking, At
  <2>3. lru # <<h>>
    <3>1. ASSUME lru = <<h>> PROVE task[t].total <= Size[h]
      BY <2>1, <3>1 DEF PutOK
    <3>2. Size[h] <= MaxBytes /\ Size[h] \in Int /\ MaxBytes \in Int /\ task[t].total \in Int
      BY <1>1, CacheAssumption DEF TaskRecord
    <3> QED
      BY <2>1, <3>1, <3>2
  <2> QED
    BY <2>1, <2>2, <2>3 DEF PutOK, Ranking, Evicting, At
<1>13. CASE ChooseOldest(t)
  <2>1. lru # <<>> /\ lru[Len(lru)] = h /\ lru # <<h>>
    BY <1>3, <1>13 DEF ChooseOldest, Ranking, At, PutOK
  <2>2. /\ task'[t].at = "inspecting" /\ task'[t].hash = h /\ task'[t].victim = Head(lru)
        /\ lru' = lru
    BY <1>1, <1>13, <2>1 DEF ChooseOldest, TaskRecord, cache
  <2>3. Head(lru) # h
    BY <1>1, <2>1, OldestIsAnother
  <2> QED
    BY <2>1, <2>2, <2>3 DEF PutOK, Ranking, Evicting, At
<1>14. CASE Inspect(t) \/ FindFile(t) \/ Unlink(t)
  <2>1. /\ task'[t].at \in {"finding", "unlinking", "deleting", "releasing"} /\ task'[t].hash = h
        /\ task'[t].victim = task[t].victim /\ lru' = lru
        /\ task[t].at \in {"inspecting", "finding", "unlinking"}
    BY <1>14, GoKeepsLocals DEF Inspect, FindFile, Unlink, At, cache
  <2>2. lru # <<>> /\ lru[Len(lru)] = h
    BY <1>3, <2>1 DEF Ranking
  <2>3. task[t].victim # h
    BY <2>1 DEF PutOK
  <2> QED
    BY <2>1, <2>2, <2>3 DEF PutOK, At
<1>15. CASE Delete(t)
  <2>1. /\ task'[t].at = "removing" /\ task'[t].hash = h /\ task'[t].victim = task[t].victim
        /\ task'[t].evicting = task[t].evicting /\ lru' = lru /\ At(t, "deleting")
    BY <1>15, GoKeepsLocals DEF Delete
  <2>2. CASE task[t].evicting = TRUE
    <3>1. Evicting(t)
      BY <2>1, <2>2 DEF Evicting, At
    <3>2. lru # <<>> /\ lru[Len(lru)] = h /\ task[t].victim # h
      BY <1>3, <3>1 DEF Ranking, PutOK
    <3> QED
      BY <2>1, <3>2 DEF PutOK, At
  <2>3. CASE task[t].evicting # TRUE
    BY <1>2, <2>1, <2>3 DEF Ranking, Evicting
  <2> QED
    BY <2>2, <2>3
<1>16. CASE RemoveMember(t)
  <2>1. /\ task'[t].at = IF task[t].evicting THEN "listing" ELSE "locking"
        /\ task'[t].hash = h /\ lru' = RemoveFirst(lru, task[t].victim) /\ At(t, "removing")
    BY <1>1, <1>16 DEF RemoveMember, TaskRecord
  <2>2. CASE task[t].evicting = TRUE
    <3>1. Evicting(t)
      BY <2>1, <2>2 DEF Evicting, At
    <3>2. lru # <<>> /\ lru[Len(lru)] = h /\ task[t].victim # h
      BY <1>3, <3>1 DEF Ranking, PutOK
    <3>3. lru' # <<>> /\ lru'[Len(lru')] = h
      BY <1>1, <2>1, <3>2, LastStays
    <3> QED
      BY <2>1, <2>2, <3>3 DEF PutOK, Ranking, Evicting, At
  <2>3. CASE task[t].evicting # TRUE
    BY <1>2, <2>1, <2>3 DEF Ranking, Evicting
  <2> QED
    BY <2>2, <2>3
<1> QED
    BY <1>4, <1>5, <1>6, <1>7, <1>8, <1>9, <1>10, <1>11, <1>12, <1>13, <1>14, <1>15, <1>16
       DEF CacheStep

(* What a step of its own has found, a task had found before, or looks at. *)
LEMMA CacheStepFinds ==
    ASSUME TypeInv, Roles, NEW t \in Task, CacheStep(t), Found(t)', NEW h, h = task[t].hash
    PROVE  task'[t].hash = h /\ (Found(t) \/ h \in files)
<1>1. /\ task \in [Task -> TaskRecord] /\ task[t] \in TaskRecord /\ Role(task[t])
    BY DEF TypeInv, TypeOK, TaskRecord, Roles
<1>2. task'[t].at # "asleep"
    BY DEF Found, Ranking, Evicting
<1>3. task'[t].hash = h
    BY <1>2, CacheStepEffect DEF Typed, Becomes
<1>4. CASE Ranking(t) \/ WriteMeta(t) \/ Rank(t)
    BY <1>3, <1>4 DEF Found, WriteMeta, Rank, At
<1>5. CASE ReadMeta(t) \/ Touch(t)
  <2>1. task'[t].at \in {"looking", "locking", "asleep"}
    BY <1>1, <1>5, GoKeepsLocals DEF ReadMeta, Touch, Sleep, Asleep
  <2> QED
    BY <2>1 DEF Found, Ranking, Evicting
<1>6. CASE LookForFile(t)
  <2>1. task[t].evicting # TRUE
    BY <1>1, <1>6 DEF LookForFile, At, Role, InTry, Finally
  <2>2. /\ h \notin files => task'[t].at = "deleting"
        /\ task'[t].evicting = task[t].evicting
    BY <1>1, <1>6 DEF LookForFile, Go, TaskRecord
  <2> QED
    BY <1>3, <2>1, <2>2 DEF Found, Ranking, Evicting
<1>7. CASE (Delete(t) \/ RemoveMember(t)) /\ ~Ranking(t)
  <2>1. task[t].evicting # TRUE
    BY <1>7 DEF Delete, RemoveMember, Ranking, Evicting, At
  <2>2. CASE Delete(t)
    <3>1. task'[t].at = "removing" /\ task'[t].evicting = task[t].evicting
      BY <2>2, GoKeepsLocals DEF Delete
    <3> QED
      BY <2>1, <3>1 DEF Found, Ranking, Evicting
  <2>3. CASE RemoveMember(t)
    <3>1. task'[t].at = "locking"
      BY <1>1, <2>1, <2>3 DEF RemoveMember, TaskRecord
    <3> QED
      BY <3>1 DEF Found, Ranking, Evicting
  <2> QED
    BY <1>7, <2>2, <2>3
<1>8. ASSUME ~Ranking(t)
      PROVE  ReadMeta(t) \/ LookForFile(t) \/ Touch(t) \/ WriteMeta(t) \/ Rank(t)
               \/ Delete(t) \/ RemoveMember(t)
    BY <1>8 DEF CacheStep, List, AddSize, OverLimit, WithinLimit, ChooseOldest, Inspect, FindFile,
       Unlink, Ranking, At
<1> QED
    BY <1>3, <1>4, <1>5, <1>6, <1>7, <1>8

(* The other steps of a task end outside put, and find a file by looking.  *)
LEMMA WorkerStepFinds ==
    ASSUME TypeInv, Roles, NEW t \in Task, NEW h, h = task[t].hash,
           \/ AcquireLock(t) \/ Fetch(t) \/ CheckFile(t) \/ ReleaseLock(t) \/ Interrupt(t)
           \/ \E x \in Hash : Request(t, x)
    PROVE  /\ \A u \in Task \ {t} : task'[u] = task[u]
           /\ ~Ranking(t)'
           /\ Found(t)' => task'[t].hash = h /\ h \in files
<1>1. \A s, y, z : Typed(t, s, y, z) =>
        /\ task'[t].at = s /\ task'[t].hash = y
        /\ \A u \in Task \ {t} : task'[u] = task[u]
    BY DEF Typed, Becomes
<1>2. CASE CheckFile(t)
  <2>1. Typed(t, IF h \in files THEN "writing" ELSE "releasing", h, task[t].victim)
    BY <1>2, WorkerStepEffect
  <2> QED
    BY <1>1, <2>1 DEF Found, Ranking, Evicting
<1>3. CASE ~CheckFile(t)
  <2>1. PICK s, y, z : /\ Typed(t, s, y, z)
                       /\ s \in {"reading", "fetching", "checking", "releasing", "asleep"}
    BY <1>3, WorkerStepEffect
  <2> QED
    BY <1>1, <2>1 DEF Found, Ranking, Evicting
<1> QED
    BY <1>2, <1>3

(* Each step is one of a task, or leaves the tasks, the LRU order and the  *)
(* files alone, or ends all tasks.                                         *)
LEMMA WhoseStep ==
    ASSUME TypeInv, Roles, Next
    PROVE  \/ \E t \in Task : /\ \/ CacheStep(t)
                                 \/ AcquireLock(t) \/ Fetch(t) \/ CheckFile(t) \/ ReleaseLock(t)
                                 \/ Interrupt(t) \/ \E x \in Hash : Request(t, x)
                              /\ \A u \in Task \ {t} : task'[u] = task[u]
           \/ task' = task /\ UNCHANGED cache
           \/ \A t \in Task : task'[t] = Asleep
<1>1. ASSUME NEW t \in Task, CacheStep(t)
      PROVE  \A u \in Task \ {t} : task'[u] = task[u]
    BY <1>1, CacheStepStays
<1>2. ASSUME NEW t \in Task, \/ AcquireLock(t) \/ Fetch(t) \/ CheckFile(t) \/ ReleaseLock(t)
                             \/ Interrupt(t) \/ \E x \in Hash : Request(t, x)
      PROVE  \A u \in Task \ {t} : task'[u] = task[u]
    BY <1>2, WorkerStepFinds
<1>3. (\E h \in Hash : Expire(h)) => task' = task /\ UNCHANGED cache
    BY DEF Expire
<1>4. Restart => \A t \in Task : task'[t] = Asleep
    BY DEF Restart, Task0
<1> QED
    BY <1>1, <1>2, <1>3, <1>4 DEF Next, Step, UseCache

(* Each step keeps what is required of the answers.                        *)
LEMMA NextKeepsAnswers ==
    ASSUME TypeInv, Roles, AnswersInv, [Next]_vars
    PROVE  AnswersInv'
<1>1. CASE UNCHANGED vars
  <2>1. /\ task' = task /\ lru' = lru /\ files' = files /\ hunted' = hunted /\ crowded' = crowded
    BY <1>1 DEF vars, cache
  <2> QED
    BY <2>1 DEF AnswersInv, Hunted, Crowded, Found, PutOK, Ranking, Evicting, At
<1>2. CASE Next
  <2>1. /\ \A t \in Task : t \in crowded \/ Crowded(t)' => task'[t] = Asleep \/ t \in crowded'
        /\ \A t \in Task : t \in hunted \/ Hunted(t)' => task'[t] = Asleep \/ t \in hunted'
    BY <1>2 DEF Next, Observe
  <2>2. ASSUME NEW t \in Task \ hunted', task'[t] # Asleep, Found(t)'
        PROVE  task'[t].hash \in files'
    <3> DEFINE h == task[t].hash
    <3>1. t \notin hunted
      BY <2>1, <2>2
    <3>2. ASSUME task[t] # Asleep, Found(t) PROVE h \in files /\ ~Hunted(t)
      BY <3>1, <3>2 DEF AnswersInv
    <3>3. CASE task'[t] = task[t]
      <4>1. Found(t)
        BY <2>2, <3>3 DEF Found, Ranking, Evicting
      <4>2. h \in files /\ ~Hunted(t)
        BY <2>2, <3>2, <3>3, <4>1
      <4>3. ASSUME h \notin files' PROVE FALSE
        <5>1. PICK u \in Task : Unlink(u) /\ h = task[u].victim
          BY <1>2, <4>2, <4>3, FilesLost
        <5>2. u # t
          <6>1. ASSUME u = t PROVE FALSE
            <7>1. task'[t].at \in {"deleting", "releasing"} /\ task[t].at = "unlinking"
              BY <5>1, <6>1, GoKeepsLocals DEF Unlink, At
            <7> QED
              BY <3>3, <7>1
          <6> QED
            BY <6>1
        <5>3. task[u].at = "unlinking"
          BY <5>1 DEF Unlink, At
        <5> QED
          BY <4>2, <5>1, <5>2, <5>3 DEF Hunted
      <4> QED
        BY <3>3, <4>3
    <3>4. CASE task'[t] # task[t]
      <4>1. \/ CacheStep(t)
            \/ AcquireLock(t) \/ Fetch(t) \/ CheckFile(t) \/ ReleaseLock(t)
            \/ Interrupt(t) \/ \E x \in Hash : Request(t, x)
        BY <1>2, <2>2, <3>4, WhoseStep
      <4>2. CASE ~CacheStep(t)
        <5>1. task'[t].hash = h /\ h \in files
          BY <2>2, <4>1, <4>2, WorkerStepFinds
        <5>2. ~Unlink(t)
          BY <4>2 DEF CacheStep
        <5>3. ASSUME h \notin files' PROVE FALSE
          <6>1. PICK u \in Task : Unlink(u) /\ u # t
            BY <1>2, <5>1, <5>2, <5>3, FilesLost
          <6>2. task'[u] # task[u]
            BY <6>1, GoKeepsLocals DEF Unlink, At
          <6> QED
            BY <4>1, <4>2, <6>1, <6>2, WorkerStepFinds
        <5> QED
          BY <5>1, <5>3
      <4>3. CASE CacheStep(t)
        <5>1. task'[t].hash = h /\ (Found(t) \/ h \in files)
          BY <2>2, <4>3, CacheStepFinds
        <5>2. task[t] # Asleep
          <6>1. task[t].at # "asleep"
            BY <4>3 DEF CacheStep, ReadMeta, LookForFile, Touch, WriteMeta, Rank, List, AddSize,
               OverLimit, WithinLimit, ChooseOldest, Inspect, FindFile, Unlink, Delete,
               RemoveMember, At
          <6> QED
            BY <6>1 DEF Asleep
        <5>3. h \in files
          BY <3>2, <5>1, <5>2
        <5>4. files' = IF Unlink(t) THEN files \ {task[t].victim} ELSE files
          BY <4>3, CacheEffect
        <5>5. CASE Unlink(t)
          <6>1. task[t].at = "unlinking"
            BY <5>5 DEF Unlink, At
          <6>2. CASE t \in crowded
            <7>1. Found(t)
              BY <6>1 DEF Found, Ranking
            <7>2. ~Hunted(t)
              BY <3>2, <5>2, <7>1
            <7>3. task[t].victim # h
              BY <6>1, <6>2, <7>2 DEF Hunted
            <7> QED
              BY <5>1, <5>3, <5>4, <7>3
          <6>3. CASE t \notin crowded
            <7>1. task[t].victim # h
              BY <5>2, <6>1, <6>3 DEF AnswersInv, PutOK
            <7> QED
              BY <5>1, <5>3, <5>4, <7>1
          <6> QED
            BY <6>2, <6>3
        <5>6. CASE ~Unlink(t)
          BY <5>1, <5>3, <5>4, <5>6
        <5> QED
          BY <5>5, <5>6
      <4> QED
        BY <4>2, <4>3
    <3> QED
      BY <3>3, <3>4
  <2>3. ASSUME NEW t \in Task \ crowded', task'[t] # Asleep
        PROVE  PutOK(t)'
    <3>1. t \notin crowded /\ ~Crowded(t)'
      BY <2>1, <2>3
    <3>2. \A u \in Task \ {t} : task'[u] = Asleep
      BY <3>1 DEF Crowded
    <3>3. CASE CacheStep(t)
      <4>1. task[t].at # "asleep"
        BY <3>3 DEF CacheStep, ReadMeta, LookForFile, Touch, WriteMeta, Rank, List, AddSize,
           OverLimit, WithinLimit, ChooseOldest, Inspect, FindFile, Unlink, Delete,
           RemoveMember, At
      <4>2. PutOK(t)
        BY <3>1, <4>1 DEF AnswersInv, Asleep
      <4> QED
        BY <3>3, <4>2, CacheStepPut
    <3>4. CASE \/ AcquireLock(t) \/ Fetch(t) \/ CheckFile(t) \/ ReleaseLock(t) \/ Interrupt(t)
               \/ \E x \in Hash : Request(t, x)
      <4>1. ~Ranking(t)'
        BY <3>4, WorkerStepFinds
      <4> QED
        BY <4>1 DEF PutOK, Ranking, At
    <3>5. CASE task' = task /\ UNCHANGED cache
      <4>1. PutOK(t)
        BY <2>3, <3>1, <3>5 DEF AnswersInv
      <4> QED
        BY <3>5, <4>1 DEF PutOK, Ranking, Evicting, At, cache
    <3>6. ASSUME NEW u \in Task \ {t},
                 \/ CacheStep(u)
                 \/ AcquireLock(u) \/ Fetch(u) \/ CheckFile(u) \/ ReleaseLock(u)
                 \/ Interrupt(u) \/ \E x \in Hash : Request(u, x),
                 \A w \in Task \ {u} : task'[w] = task[w]
          PROVE  FALSE
      <4>1. task'[t] = task[t]
        BY <3>6
      <4>2. task[u] = Asleep
        BY <2>3, <3>1, <4>1 DEF AnswersInv, Crowded
      <4>3. ~CacheStep(u)
        BY <4>2 DEF CacheStep, ReadMeta, LookForFile, Touch, WriteMeta, Rank, List, AddSize,
           OverLimit, WithinLimit, ChooseOldest, Inspect, FindFile, Unlink, Delete,
           RemoveMember, At, Asleep
      <4>4. ~(AcquireLock(u) \/ Fetch(u) \/ CheckFile(u) \/ ReleaseLock(u) \/ Interrupt(u))
        BY <4>2 DEF AcquireLock, Fetch, CheckFile, ReleaseLock, Interrupt, AtCommand, Finally,
           At, Asleep
      <4>5. PICK x \in Hash : Request(u, x)
        BY <3>6, <4>3, <4>4
      <4>6. task'[u].at = "reading"
        BY <4>5, WorkerStepEffect DEF Typed, Becomes
      <4> QED
        BY <3>2, <4>6 DEF Asleep
    <3> QED
      BY <1>2, <2>3, <3>3, <3>4, <3>5, <3>6, WhoseStep
  <2> QED
    BY <2>1, <2>2, <2>3 DEF AnswersInv
<1> QED
    BY <1>1, <1>2

\* While a download has found or fetched its file and no eviction has chosen it,
\* the file is there; the put of a download that is alone leaves its file the
\* youngest, and chooses another one (cache_manager.py:64-76, 81-169).
THEOREM AnswersInvariant == Spec => []AnswersInv
<1>1. Init => AnswersInv
    BY DEF Init, Task0, AnswersInv
<1>2. TypeInv /\ IInv /\ AnswersInv /\ [Next]_vars => AnswersInv'
    BY NextKeepsAnswers DEF IInv
<1>3. TypeInv /\ IInv /\ [Next]_vars => TypeInv'
    BY NextKeepsTypes DEF IInv
<1> QED
    BY InitTypes, LockInvariant, <1>1, <1>2, <1>3, PTL DEF Spec

\* A path is returned only of a file that exists, from the cache or after a
\* download, unless since the call began another task's eviction has chosen the
\* file, or its own has when it was not alone (cache_manager.py:64-76, 93-169,
\* download_worker.py:148-228).
THEOREM AnswersAreFiles == Spec => AnswersHold
<1> DEFINE AnswersStep == \A t \in Task : Answered(t) /\ t \notin hunted
                                           => task[t].hash \in files'
<1>1. ASSUME TypeInv, Roles, AnswersInv, [Next]_vars PROVE [AnswersStep]_vars
  <2> SUFFICES ASSUME Next, NEW t \in Task, Answered(t), t \notin hunted
               PROVE  task[t].hash \in files'
    BY <1>1
  <2>1. At(t, "touching") \/ At(t, "answering")
    BY DEF Answered
  <2>2. task[t] # Asleep /\ Found(t) /\ task[t].at # "unlinking"
    BY <2>1 DEF At, Asleep, Found
  <2>3. task[t].hash \in files /\ ~Hunted(t)
    BY <1>1, <2>2 DEF AnswersInv
  <2>4. ASSUME task[t].hash \notin files' PROVE FALSE
    <3>1. PICK u \in Task : Unlink(u) /\ task[t].hash = task[u].victim
      BY <2>3, <2>4, FilesLost
    <3>2. task[u].at = "unlinking" /\ u # t
      BY <2>2, <3>1 DEF Unlink, At
    <3> QED
      BY <2>3, <3>1, <3>2 DEF Hunted
  <2> QED
    BY <2>4
<1>2. TypeInv /\ IInv /\ AnswersInv /\ [Next]_vars => [AnswersStep]_vars
    BY <1>1 DEF IInv
<1>3. TypeInv /\ IInv /\ [Next]_vars => TypeInv'
    BY NextKeepsTypes DEF IInv
<1> QED
    BY InitTypes, AnswersInvariant, LockInvariant, <1>2, <1>3, PTL DEF Spec, AnswersHold
=================================================================================
