-------------------------- MODULE PropertyCacheProofs --------------------------
(***************************************************************************)
(* Proofs about PropertyCache, for any number of requests and any set of   *)
(* lists.  A reader at work holds its key's lock unless the lock ran out,  *)
(* and what a request is about to store is what the database holds unless  *)
(* a write came between.                                                   *)
(***************************************************************************)
EXTENDS PropertyCache, TLAPS

USE CacheAssumption

Locked ==
  \A r \in Requests :
    pc[r] \in Filling => task[r].key \in lock \cup overran

\* What r carries is the answer of the database, or nothing, or it was raced.
Carried ==
  \A r \in Requests :
    /\ pc[r] = "write" => task[r].op \in Ops \ {"read"}
    /\ pc[r] \in {"reread", "set"} => task[r].op = "update"
    /\ pc[r] = "fill" =>
         task[r].seen = version[task[r].key] \/ task[r].key \in raced
    /\ pc[r] \in {"del", "set"} /\ task[r].op = "update" =>
         task[r].seen \in {None, version[Detail]} \/ Detail \in raced

Inv == TypeOK /\ Locked /\ OneReaderFills /\ Carried /\ StaleOnlyAfterRace

-----------------------------------------------------------------------------
(* Types *)

LEMMA InitInv == Init => Inv
BY DEF Init, Inv, TypeOK, Locked, OneReaderFills, Carried, StaleOnlyAfterRace, Stale,
       Filling, Labels, Task, Keys, None

\* Every step keeps the types.
LEMMA TypeStep == TypeOK /\ [Next]_vars => TypeOK'
<1> SUFFICES ASSUME TypeOK, [Next]_vars PROVE TypeOK'
  OBVIOUS
<1> USE DEF TypeOK, Labels, Task, GoTo, Store, None, dbVars, redisVars, histVars
<1>1. ASSUME NEW r \in Requests, BeginRead(r) PROVE TypeOK'
  BY <1>1 DEF BeginRead, Ops
<1>2. ASSUME NEW r \in Requests, BeginWrite(r) PROVE TypeOK'
  BY <1>2 DEF BeginWrite, Keys
<1>3. ASSUME NEW r \in Requests, ReadStep(r) PROVE TypeOK'
  <2>1. CASE Get(r) \/ AcquireLock(r)
    BY <2>1 DEF Get, AcquireLock
  <2>2. CASE Query(r)
    BY <2>2 DEF Query
  <2>3. CASE Fill(r)
    BY <2>3 DEF Fill
  <2>4. CASE ReleaseLock(r)
    BY <2>4 DEF ReleaseLock
  <2> QED BY <1>3, <2>1, <2>2, <2>3, <2>4 DEF ReadStep
<1>4. ASSUME NEW r \in Requests, WriteStep(r) PROVE TypeOK'
  <2>1. CASE Write(r)
    <3>1. version' \in [Keys -> Nat \ {None}]
      BY <2>1 DEF Write
    <3>4. exists' \in BOOLEAN
      BY <2>1 DEF Write
    <3>2. raced' \subseteq Keys
      BY <2>1 DEF Write, Touches, Keys
    <3>3. pc' \in [Requests -> Labels]
      BY <2>1 DEF Write
    <3> QED BY <2>1, <3>1, <3>2, <3>3, <3>4 DEF Write
  <2>2. CASE Reread(r)
    BY <2>2 DEF Reread, Keys
  <2>3. CASE DelDetail(r)
    BY <2>3 DEF DelDetail, Keys
  <2>4. CASE SetDetail(r)
    BY <2>4 DEF SetDetail, Keys
  <2>5. CASE Scan(r)
    BY <2>5 DEF Scan, Keys
  <2> QED BY <1>4, <2>1, <2>2, <2>3, <2>4, <2>5 DEF WriteStep
<1>5. ASSUME NEW r \in Requests, Crash(r) PROVE TypeOK'
  BY <1>5 DEF Crash, Owes, Keys
<1>6. ASSUME NEW k \in Keys, Redis(k) PROVE TypeOK'
  BY <1>6 DEF Redis, ExpireValue, ExpireLock, DeleteDoomed, Keys
<1>7. CASE UNCHANGED vars
  BY <1>7 DEF vars
<1> QED BY <1>1, <1>2, <1>3, <1>4, <1>5, <1>6, <1>7 DEF Next, Step

-----------------------------------------------------------------------------
(* The lock *)

LEMMA LockStep ==
  ASSUME TypeOK, Locked, OneReaderFills, [Next]_vars
  PROVE  Locked' /\ OneReaderFills'
<1> USE DEF TypeOK, Task, Locked, OneReaderFills, Filling, GoTo, dbVars, redisVars, histVars
<1>1. ASSUME NEW r \in Requests, BeginRead(r) \/ BeginWrite(r) \/ Get(r) \/ Query(r)
      PROVE Locked' /\ OneReaderFills'
  BY <1>1 DEF BeginRead, BeginWrite, Get, Query
<1>2. ASSUME NEW r \in Requests, AcquireLock(r) PROVE Locked' /\ OneReaderFills'
  BY <1>2 DEF AcquireLock
<1>3. ASSUME NEW r \in Requests, Fill(r) PROVE Locked' /\ OneReaderFills'
  BY <1>3 DEF Fill
<1>4. ASSUME NEW r \in Requests, ReleaseLock(r) PROVE Locked' /\ OneReaderFills'
  BY <1>4 DEF ReleaseLock
<1>5. ASSUME NEW r \in Requests, WriteStep(r) PROVE Locked' /\ OneReaderFills'
  BY <1>5 DEF WriteStep, Write, Reread, DelDetail, SetDetail, Scan
<1>6. ASSUME NEW r \in Requests, Crash(r) PROVE Locked' /\ OneReaderFills'
  BY <1>6 DEF Crash
<1>7. ASSUME NEW k \in Keys, ExpireLock(k) PROVE Locked' /\ OneReaderFills'
  BY <1>7 DEF ExpireLock
<1>8. ASSUME NEW k \in Keys, ExpireValue(k) \/ DeleteDoomed(k)
      PROVE Locked' /\ OneReaderFills'
  BY <1>8 DEF ExpireValue, DeleteDoomed
<1>9. CASE UNCHANGED vars
  BY <1>9 DEF vars
<1> QED
  <2> HIDE DEF TypeOK, Locked, OneReaderFills
  <2> QED BY <1>1, <1>2, <1>3, <1>4, <1>5, <1>6, <1>7, <1>8, <1>9 DEF Next, Step, ReadStep,
             Redis

-----------------------------------------------------------------------------
(* Stale entries *)

LEMMA CarriedStep ==
  ASSUME TypeOK, Carried, [Next]_vars
  PROVE  Carried'
<1> USE DEF TypeOK, Task, Carried, GoTo, dbVars, redisVars, histVars
<1>1. ASSUME NEW r \in Requests, BeginRead(r) \/ BeginWrite(r) PROVE Carried'
  BY <1>1 DEF BeginRead, BeginWrite
<1>2. ASSUME NEW r \in Requests, Get(r) \/ AcquireLock(r) \/ Fill(r) \/ ReleaseLock(r)
      PROVE Carried'
  BY <1>2 DEF Get, AcquireLock, Fill, ReleaseLock
<1>3. ASSUME NEW r \in Requests, Query(r) PROVE Carried'
  BY <1>3 DEF Query
<1>4. ASSUME NEW r \in Requests, Write(r) PROVE Carried'
  <2>1. \A k \in Keys, q \in Requests \ {r} :
          Carries(q, k) => version'[k] = version[k] \/ k \in raced'
    BY <1>4 DEF Write
  <2>2. pc[r] = "write" /\ pc'[r] \notin {"fill", "set"}
    BY <1>4 DEF Write
  <2>3. pc'[r] = "reread" => task[r].op = "update"
    BY <1>4 DEF Write
  <2>4. /\ raced \subseteq raced' /\ task' = task
        /\ \A q \in Requests \ {r} : pc'[q] = pc[q]
        /\ pc'[r] = "del" => task[r].op = "delete"
    BY <1>4 DEF Write
  <2> QED BY <2>1, <2>2, <2>3, <2>4 DEF Carries, Keys
<1>5. ASSUME NEW r \in Requests, Reread(r) PROVE Carried'
  BY <1>5 DEF Reread
<1>6. ASSUME NEW r \in Requests, DelDetail(r) PROVE Carried'
  BY <1>6 DEF DelDetail
<1>7. ASSUME NEW r \in Requests, SetDetail(r) \/ Scan(r) \/ Crash(r) PROVE Carried'
  BY <1>7 DEF SetDetail, Scan, Crash
<1>8. ASSUME NEW k \in Keys, Redis(k) PROVE Carried'
  BY <1>8 DEF Redis, ExpireValue, ExpireLock, DeleteDoomed
<1>9. CASE UNCHANGED vars
  BY <1>9 DEF vars
<1> QED
  <2> HIDE DEF TypeOK, Carried
  <2> QED BY <1>1, <1>2, <1>3, <1>4, <1>5, <1>6, <1>7, <1>8, <1>9 DEF Next, Step, ReadStep,
             WriteStep

\* Every step keeps stale entries to the named races.
LEMMA StaleStep ==
  ASSUME TypeOK, Carried, StaleOnlyAfterRace, [Next]_vars
  PROVE  StaleOnlyAfterRace'
<1> USE DEF TypeOK, Task, StaleOnlyAfterRace, Stale, Owes, GoTo, Store, None, dbVars,
            redisVars, histVars
<1>1. ASSUME NEW r \in Requests,
             BeginRead(r) \/ BeginWrite(r) \/ Get(r) \/ AcquireLock(r) \/ Query(r)
               \/ ReleaseLock(r)
      PROVE StaleOnlyAfterRace'
  BY <1>1 DEF BeginRead, BeginWrite, Get, AcquireLock, Query, ReleaseLock
<1>2. ASSUME NEW r \in Requests, Fill(r) PROVE StaleOnlyAfterRace'
  BY <1>2 DEF Fill, Carried
<1>3. ASSUME NEW r \in Requests, Write(r) PROVE StaleOnlyAfterRace'
  <2> SUFFICES ASSUME NEW k \in Keys, Stale(k)'
               PROVE  k \in (raced \cup doomed)' \/ \E q \in Requests : k \in Owes(q)'
    OBVIOUS
  <2>1. pc[r] = "write" /\ \A q \in Requests \ {r} : Owes(q)' = Owes(q)
    BY <1>3 DEF Write
  <2>2. raced \subseteq raced' /\ doomed' = doomed /\ cache' = cache
    BY <1>3 DEF Write
  <2>3. CASE Stale(k)
    BY <2>1, <2>2, <2>3
  <2>4. CASE ~Stale(k)
    <3>1. version'[k] # version[k]
      BY <2>2, <2>4
    <3>2. k \in Touches(task[r].op) /\ (exists \/ task[r].op = "create")
      BY <1>3, <3>1 DEF Write
    <3>3. CASE k \notin Invalidates(task[r].op)
      BY <1>3, <3>2, <3>3 DEF Write
    <3>4. CASE k \in Invalidates(task[r].op)
      <4>1. task[r].op \in {"update", "delete", "create", "image"}
        BY <2>1, <3>4 DEF Invalidates, Carried, Ops
      <4>2. pc'[r] = IF task[r].op = "update" THEN "reread"
                     ELSE IF task[r].op = "delete" THEN "del" ELSE "scan"
        BY <1>3, <3>2, <4>1 DEF Write
      <4>3. task[r].op \in {"create", "image"} => k \in Lists
        BY <3>4 DEF Invalidates
      <4>4. k \in Owes(r)'
        BY <4>1, <4>2, <4>3 DEF Keys
      <4> QED BY <4>4
    <3> QED BY <3>3, <3>4
  <2> QED BY <2>3, <2>4
<1>4. ASSUME NEW r \in Requests, Reread(r) PROVE StaleOnlyAfterRace'
  BY <1>4 DEF Reread
<1>5. ASSUME NEW r \in Requests, DelDetail(r) PROVE StaleOnlyAfterRace'
  BY <1>5 DEF DelDetail, Keys
<1>6. ASSUME NEW r \in Requests, SetDetail(r) PROVE StaleOnlyAfterRace'
  BY <1>6 DEF SetDetail, Carried, Keys
<1>7. ASSUME NEW r \in Requests, Scan(r) PROVE StaleOnlyAfterRace'
  BY <1>7 DEF Scan, Keys
<1>8. ASSUME NEW r \in Requests, Crash(r) PROVE StaleOnlyAfterRace'
  BY <1>8 DEF Crash
<1>9. ASSUME NEW k \in Keys, Redis(k) PROVE StaleOnlyAfterRace'
  BY <1>9 DEF Redis, ExpireValue, ExpireLock, DeleteDoomed
<1>10. CASE UNCHANGED vars
  BY <1>10 DEF vars
<1> QED
  <2> HIDE DEF TypeOK, StaleOnlyAfterRace
  <2> QED BY <1>1, <1>2, <1>3, <1>4, <1>5, <1>6, <1>7, <1>8, <1>9, <1>10 DEF Next, Step,
             ReadStep, WriteStep

-----------------------------------------------------------------------------
(* The theorems *)

LEMMA InvAlways == Spec => []Inv
<1>1. Inv /\ [Next]_vars => Inv'
  BY TypeStep, LockStep, CarriedStep, StaleStep DEF Inv
<1> QED BY <1>1, InitInv, PTL DEF Spec

\* The keys, locks and requests keep their types.
THEOREM TypeCorrect == Spec => []TypeOK
<1>1. Inv => TypeOK
  BY DEF Inv
<1> QED BY <1>1, InvAlways, PTL

\* One reader at a time fills a key whose lock has not run out.
THEOREM OneReaderSafe == Spec => []OneReaderFills
<1>1. Inv => OneReaderFills
  BY DEF Inv
<1> QED BY <1>1, InvAlways, PTL

\* What is stale was raced, or its writer is on the way to drop it.
THEOREM StaleSafe == Spec => []StaleOnlyAfterRace
<1>1. Inv => StaleOnlyAfterRace
  BY DEF Inv
<1> QED BY <1>1, InvAlways, PTL

=============================================================================
