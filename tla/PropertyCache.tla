---------------------------- MODULE PropertyCache ----------------------------
(***************************************************************************)
(* The Redis cache of listings: one entry for a listing's page and one for *)
(* each query over the listings, filled by readers behind a lock with a    *)
(* time to live, dropped or refilled by writers, and left alone by the     *)
(* writers that do not know of it.                                         *)
(*                                                                         *)
(* A request is a process and an action is one awaited call.  What a key   *)
(* should hold is a version number: every write that changes the answer to *)
(* a key raises the key's version.                                         *)
(***************************************************************************)
EXTENDS Naturals, FiniteSets

CONSTANTS
  Requests,
  Detail,     \* the key PROPERTY:<id> of one listing
  Lists,      \* keys PROPERTIES:<query> whose answers contain the listing
  MayAsk      \* [Requests -> SUBSET Ops]: bounds what a request may be

Keys == {Detail} \cup Lists

Ops == {"read", "update", "delete", "create", "image", "admin", "review"}

ASSUME CacheAssumption ==
  /\ Detail \notin Lists
  /\ MayAsk \in [Requests -> SUBSET Ops]

VARIABLES
  version,   \* the version of the answer to each key in the database
  exists,    \* the listing's row is there
  cache,     \* the cached version of each key; None where there is no entry
  lock,      \* the keys lock:<key>
  timed,     \* the values and locks that have a time to live
  doomed,    \* keys a scan has returned and not yet deleted
  pc, task,
  overran,   \* history: keys whose lock ran out while its reader was at work
  raced      \* history: keys written behind a read under way, written without
             \* an invalidation, or whose invalidation failed

dbVars    == <<version, exists>>
redisVars == <<cache, lock, timed, doomed>>
histVars  == <<overran, raced>>
vars == <<dbVars, redisVars, pc, task, histVars>>

-----------------------------------------------------------------------------
(* Values *)

None == 0

Labels == {"idle", "get", "lock", "query", "fill", "release", "write",
           "reread", "del", "set", "scan", "done"}

\* A reader between acquireLock and releaseLock.
Filling == {"query", "fill", "release"}

Task == [op : Ops \cup {"none"}, key : Keys, seen : Nat]

TypeOK ==
  /\ version \in [Keys -> Nat \ {None}] /\ exists \in BOOLEAN
  /\ cache \in [Keys -> Nat]
  /\ lock \subseteq Keys /\ doomed \subseteq Lists
  /\ timed \subseteq {"value", "lock"} \X Keys
  /\ pc \in [Requests -> Labels] /\ task \in [Requests -> Task]
  /\ overran \subseteq Keys /\ raced \subseteq Keys

-----------------------------------------------------------------------------
(* Operators *)

\* The keys whose answer a write changes.  A listing's page shows its images and
\* reviews, the lists do not (property.repository.ts:73, 90-126).
Touches(op) ==
  (IF op # "create" THEN {Detail} ELSE {})
    \cup (IF op \notin {"image", "review"} THEN Lists ELSE {})

\* The keys its handler drops afterwards.
Invalidates(op) ==
  (IF op \in {"update", "delete"} THEN {Detail} ELSE {})
    \cup (IF op \notin {"admin", "review"} THEN Lists ELSE {})

\* r read key k before now and is about to store what it saw.
Carries(r, k) ==
  \/ pc[r] = "fill" /\ task[r].key = k
  \/ pc[r] \in {"del", "set"} /\ task[r].op = "update" /\ k = Detail

\* The keys a writer has still to drop.
Owes(r) ==
  (IF pc[r] \in {"reread", "del", "set"} THEN {Detail} ELSE {})
    \cup (IF pc[r] \in {"reread", "del", "set", "scan"} THEN Lists ELSE {})

Stale(k) == cache[k] \notin {None, version[k]}

\* Mutant of Store: SET without EX, so that the entry never runs out.
MutStore(k, v) ==
  /\ cache' = [cache EXCEPT ![k] = v]
  /\ UNCHANGED timed

Store(k, v) ==
  /\ cache' = [cache EXCEPT ![k] = v]
  /\ timed' = timed \cup {<<"value", k>>}

GoTo(r, l) == pc' = [pc EXCEPT ![r] = l]

-----------------------------------------------------------------------------
(* Readers: getPropertyById and getProperties *)

BeginRead(r) ==
  /\ pc[r] = "idle" /\ "read" \in MayAsk[r]
  /\ \E k \in Keys : task' = [task EXCEPT ![r] = [op |-> "read", key |-> k,
                                                  seen |-> None]]
  /\ GoTo(r, "get")
  /\ UNCHANGED <<dbVars, redisVars, histVars>>

Get(r) ==
  /\ pc[r] = "get"
  /\ GoTo(r, IF cache[task[r].key] # None THEN "done" ELSE "lock")
  /\ UNCHANGED <<dbVars, redisVars, task, histVars>>

\* Mutant of AcquireLock: SET without NX.
MutAcquireLock(r) ==
  /\ pc[r] = "lock"
  /\ lock' = lock \cup {task[r].key}
  /\ timed' = timed \cup {<<"lock", task[r].key>>}
  /\ GoTo(r, "query")
  /\ UNCHANGED <<dbVars, cache, doomed, task, histVars>>

\* Mutant of AcquireLock: SET without EX, so that the lock of a dead reader stays.
MutForeverLock(r) ==
  LET k == task[r].key
  IN  /\ pc[r] = "lock"
      /\ IF k \in lock
           THEN GoTo(r, "get") /\ UNCHANGED lock
           ELSE lock' = lock \cup {k} /\ GoTo(r, "query")
      /\ UNCHANGED <<dbVars, cache, timed, doomed, task, histVars>>

\* SET NX EX; who does not get the lock sleeps for 100 ms and starts again.
AcquireLock(r) ==
  LET k == task[r].key
  IN  /\ pc[r] = "lock"
      /\ IF k \in lock
           THEN GoTo(r, "get") /\ UNCHANGED <<lock, timed>>
           ELSE /\ lock' = lock \cup {k}
                /\ timed' = timed \cup {<<"lock", k>>}
                /\ GoTo(r, "query")
      /\ UNCHANGED <<dbVars, cache, doomed, task, histVars>>

\* findProperty or findProperties; a listing that is gone is an error, and the
\* finally block releases the lock.
Query(r) ==
  LET k == task[r].key
  IN  /\ pc[r] = "query"
      /\ task' = [task EXCEPT ![r].seen = version[k]]
      /\ GoTo(r, IF k = Detail /\ ~exists THEN "release" ELSE "fill")
      /\ UNCHANGED <<dbVars, redisVars, histVars>>

Fill(r) ==
  /\ pc[r] = "fill"
  /\ \/ Store(task[r].key, task[r].seen)
     \/ UNCHANGED <<cache, timed>>            \* set fails: finally goes on
  /\ GoTo(r, "release")
  /\ UNCHANGED <<dbVars, lock, doomed, task, histVars>>

\* del, whoever holds the lock by now.
ReleaseLock(r) ==
  LET k == task[r].key
  IN  /\ pc[r] = "release"
      /\ lock' = lock \ {k}
      /\ timed' = timed \ {<<"lock", k>>}
      /\ GoTo(r, "done")
      /\ UNCHANGED <<dbVars, cache, doomed, task, histVars>>

-----------------------------------------------------------------------------
(* Writers *)

BeginWrite(r) ==
  /\ pc[r] = "idle"
  /\ \E op \in MayAsk[r] \ {"read"} :
       /\ op \in {"update", "delete", "admin", "image", "review"} => exists
       /\ task' = [task EXCEPT ![r] = [op |-> op, key |-> Detail, seen |-> None]]
  /\ GoTo(r, "write")
  /\ UNCHANGED <<dbVars, redisVars, histVars>>

\* The statement that changes the database.  Prisma's update and delete throw
\* when the row is gone.
Write(r) ==
  LET op == task[r].op
  IN  /\ pc[r] = "write"
      /\ IF ~exists /\ op # "create"
           THEN GoTo(r, "done") /\ UNCHANGED <<dbVars, raced>>
           ELSE /\ version' = [k \in Keys |-> IF k \in Touches(op)
                                                THEN version[k] + 1 ELSE version[k]]
                /\ exists' = (exists /\ op # "delete")
                /\ raced' = raced \cup (Touches(op) \ Invalidates(op))
                             \cup {k \in Touches(op) :
                                     \E q \in Requests \ {r} : Carries(q, k)}
                /\ GoTo(r, IF op = "update" THEN "reread"
                           ELSE IF op = "delete" THEN "del"
                           ELSE IF op \in {"create", "image"} THEN "scan"
                           ELSE "done")
      /\ UNCHANGED <<redisVars, task, overran>>

\* updateProperty reads the listing again with its relations.
Reread(r) ==
  /\ pc[r] = "reread"
  /\ task' = [task EXCEPT ![r].seen = IF exists THEN version[Detail] ELSE None]
  /\ GoTo(r, "del")
  /\ UNCHANGED <<dbVars, redisVars, histVars>>

\* Mutant of DelDetail: a deletion forgets the listing's page.
MutDelDetail(r) ==
  /\ pc[r] = "del"
  /\ GoTo(r, IF task[r].op = "update" THEN "set" ELSE "scan")
  /\ UNCHANGED <<dbVars, redisVars, task, histVars>>

\* del(key); when it fails the error is caught and the set is left out as well.
DelDetail(r) ==
  /\ pc[r] = "del"
  /\ \/ /\ cache' = [cache EXCEPT ![Detail] = None]
        /\ GoTo(r, IF task[r].op = "update" THEN "set" ELSE "scan")
        /\ UNCHANGED raced
     \/ /\ raced' = raced \cup {Detail}
        /\ GoTo(r, "scan")
        /\ UNCHANGED cache
  /\ UNCHANGED <<dbVars, lock, timed, doomed, task, overran>>

\* set(key, what was read), without the readers' lock; null counts as a miss.
SetDetail(r) ==
  /\ pc[r] = "set"
  /\ \/ Store(Detail, task[r].seen) /\ UNCHANGED raced
     \/ raced' = raced \cup {Detail} /\ UNCHANGED <<cache, timed>>
  /\ GoTo(r, "scan")
  /\ UNCHANGED <<dbVars, lock, doomed, task, overran>>

\* scanAndDelete returns at the end of the scan; the deletes it started in the
\* stream's callback are not awaited.
Scan(r) ==
  /\ pc[r] = "scan"
  /\ \/ doomed' = doomed \cup {k \in Lists : cache[k] # None} /\ UNCHANGED raced
     \/ raced' = raced \cup Lists /\ UNCHANGED doomed
  /\ GoTo(r, "done")
  /\ UNCHANGED <<dbVars, cache, lock, timed, task, overran>>

DeleteDoomed(k) ==
  /\ k \in doomed
  /\ doomed' = doomed \ {k}
  /\ \/ /\ cache' = [cache EXCEPT ![k] = None]
        /\ timed' = timed \ {<<"value", k>>}
        /\ UNCHANGED raced
     \/ raced' = raced \cup {k} /\ UNCHANGED <<cache, timed>>   \* it fails
  /\ UNCHANGED <<dbVars, lock, pc, task, overran>>

-----------------------------------------------------------------------------
(* Time and failures *)

\* 300 seconds and up to a fifth more.
ExpireValue(k) ==
  /\ cache[k] # None /\ <<"value", k>> \in timed
  /\ cache' = [cache EXCEPT ![k] = None]
  /\ timed' = timed \ {<<"value", k>>}
  /\ UNCHANGED <<dbVars, lock, doomed, pc, task, histVars>>

\* Ten seconds, whether its reader is done or not.
ExpireLock(k) ==
  /\ k \in lock /\ <<"lock", k>> \in timed
  /\ lock' = lock \ {k}
  /\ timed' = timed \ {<<"lock", k>>}
  /\ overran' = IF \E r \in Requests : pc[r] \in Filling /\ task[r].key = k
                  THEN overran \cup {k} ELSE overran
  /\ UNCHANGED <<dbVars, cache, doomed, pc, task, raced>>

\* The process dies; a reader's lock and a writer's stale entries stay behind.
Crash(r) ==
  /\ pc[r] \notin {"idle", "done"}
  /\ GoTo(r, "done")
  /\ raced' = raced \cup Owes(r)
  /\ UNCHANGED <<dbVars, redisVars, task, overran>>

-----------------------------------------------------------------------------

Init ==
  /\ version = [k \in Keys |-> 1] /\ exists = TRUE
  /\ cache = [k \in Keys |-> None]
  /\ lock = {} /\ timed = {} /\ doomed = {}
  /\ pc = [r \in Requests |-> "idle"]
  /\ task = [r \in Requests |-> [op |-> "none", key |-> Detail, seen |-> None]]
  /\ overran = {} /\ raced = {}

ReadStep(r)  == Get(r) \/ AcquireLock(r) \/ Query(r) \/ Fill(r) \/ ReleaseLock(r)
WriteStep(r) == Write(r) \/ Reread(r) \/ DelDetail(r) \/ SetDetail(r) \/ Scan(r)
Step(r)      == ReadStep(r) \/ WriteStep(r)

Redis(k) == ExpireValue(k) \/ ExpireLock(k) \/ DeleteDoomed(k)

Next ==
  \/ \E r \in Requests : BeginRead(r) \/ BeginWrite(r) \/ Step(r) \/ Crash(r)
  \/ \E k \in Keys : Redis(k)

Spec == Init /\ [][Next]_vars

\* A request that has begun goes on, Redis drops what has run out and carries
\* out the deletes it was sent.
Fairness ==
  /\ \A r \in Requests : WF_vars(Step(r))
  /\ \A k \in Keys : /\ WF_vars(ExpireValue(k))
                     /\ WF_vars(ExpireLock(k))
                     /\ WF_vars(DeleteDoomed(k))

FairSpec == Spec /\ Fairness

-----------------------------------------------------------------------------
(* Properties *)

\* Cache stampede prevention: as long as no lock has run out under its reader, one
\* reader at a time asks the database for a key (cache.ts:53, README.md:211).
OneReaderFills ==
  \A r, q \in Requests :
    pc[r] \in Filling /\ pc[q] \in Filling /\ task[r].key = task[q].key
      => r = q \/ task[r].key \in overran

\* An entry is out of date only while its writer has not got to it, unless the
\* write fell between another request's read and its fill, the writer leaves the
\* cache alone, or an invalidation failed (property.service.ts:479-488).
StaleOnlyAfterRace ==
  \A k \in Keys :
    Stale(k) => \/ k \in raced \cup doomed
                \/ \E r \in Requests : k \in Owes(r)

\* Every reader is answered: also who waits for the lock of a reader that died
\* (property.service.ts:244-267).
EveryReaderReturns ==
  \A r \in Requests : pc[r] = "get" ~> pc[r] = "done"

\* When the writers have stopped, what the cache holds becomes true and stays so,
\* whatever raced before: every entry has a time to live (cache.ts:19-26).
CacheConverges == <>[](\A k \in Keys : ~Stale(k))
=============================================================================
