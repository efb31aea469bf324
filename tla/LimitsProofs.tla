----------------------------- MODULE LimitsProofs -----------------------------
(***************************************************************************)
(* Proofs about Limits, for any set of requests and places, any number of  *)
(* cycles and any limits.  The invariant follows a request from its check  *)
(* to what it creates: who has read a counter and is not overtaken has     *)
(* read its value (Room), and nobody creates twice (Origins).              *)
(***************************************************************************)
EXTENDS Limits, FiniteSetTheorems, TLAPS

USE LimitsAssumption DEF PackageRecords

Steady ==
  \A r \in Requests :
    /\ pc[r] # "idle" => task[r].place \in Places
    /\ task[r].cycle <= cycle
    /\ pc[r] \in {"exists", "insert"} => task[r].kind = "listing"
    /\ pc[r] \in {"featured", "intent"} => task[r].kind = "featured"

\* What a request leaves behind, it leaves once.
Origins ==
  /\ \A x \in created : pc[x.by] = "done" /\ x.kind = task[x.by].kind
  /\ \A i \in intents : pc[i.by] = "done" /\ task[i.by].kind = "featured"
  /\ \A i, j \in intents : i.by = j.by => i = j
  /\ \A x \in created : x.kind = "featured" => \E i \in paid : i.by = x.by

OneIntentPerDay ==
  \A i, j \in intents : i.place = j.place /\ i.day = j.day => i = j

Blinded ==
  \A r \in Requests, l \in Listings :
    pc[r] = "insert" /\ task[r].place = l.place => r \in blind

Counted == IsFiniteSet(created) /\ UsageCounted

Room ==
  \A k \in Kinds : \A r \in Counting(k) \ (late \cup unseen) :
    task[r].cycle = 0 => used[k][0] < Limit[k][0]

Inv ==
  /\ TypeOK /\ Steady /\ Origins /\ OneIntentPerDay /\ Counted
  /\ Blinded /\ DuplicatesOnlyOvertaken /\ Room /\ LimitHoldsUnlessOvertaken

-----------------------------------------------------------------------------
(* The steps, by what they do to what was created *)

\* Nothing is created.
Quiet == UNCHANGED <<created, used, late>>

\* What r creates of kind k at p.
Creation(r, k, p) == [kind |-> k, by |-> r, place |-> p, cycle |-> cycle]

Creates(r, k, p) ==
  /\ Commit(r, k, p)
  /\ cycle \in packages
  /\ r \in Counting(k) /\ k \in Kinds /\ p \in Places
  /\ \A x \in created : x.by # r
  /\ UNCHANGED <<subVars, removed, today, intents, task, unseen>>

\* An insert creates one listing.
LEMMA InsertCreates ==
  ASSUME TypeOK, Steady, Origins, NEW r \in Requests, Insert(r)
  PROVE  Quiet \/ Creates(r, "listing", task[r].place)
BY DEF TypeOK, Steady, Origins, Insert, Quiet, Creates, Counting, Kinds, subVars, rowVars,
       stripeVars

\* A payment features one listing.
LEMMA PayCreates ==
  ASSUME TypeOK, Steady, Origins, NEW i \in intents, PayIntent(i)
  PROVE  Creates(i.by, "featured", i.place)
<1>1. i.by \in Requests /\ i.place \in Places
  BY DEF TypeOK, Intent
<1>2. \A x \in created : x.by # i.by
  BY DEF TypeOK, Intent, Origins, PayIntent
<1>3. i.by \in Counting("featured")
  BY <1>1 DEF Counting, PayIntent, Kinds
<1> QED BY <1>1, <1>2, <1>3 DEF Creates, PayIntent, Kinds, subVars, rowVars, stripeVars

\* A step creates one thing, or nothing that is counted.
LEMMA Steps ==
  ASSUME TypeOK, Steady, Origins, [Next]_vars
  PROVE  \/ Quiet
         \/ \E r \in Requests, k \in Kinds, p \in Places : Creates(r, k, p)
<1> USE DEF Quiet, vars, rowVars
<1>1. ASSUME NEW r \in Requests, Insert(r)
      PROVE  Quiet \/ \E q \in Requests, k \in Kinds, p \in Places : Creates(q, k, p)
  BY <1>1, InsertCreates DEF Creates
<1>2. ASSUME NEW r \in Requests, Serve(r), ~ Insert(r) PROVE Quiet
  BY <1>2 DEF Serve, Ask, ReadLimit, ReadUsage, CheckExists, CheckFeatured, CreateIntent,
         histVars
<1>3. ASSUME NEW i \in intents, PayIntent(i)
      PROVE  \E q \in Requests, k \in Kinds, p \in Places : Creates(q, k, p)
  BY <1>3, PayCreates DEF TypeOK, Intent, Creates
<1>4. ASSUME NEW l \in created, DeleteListing(l) PROVE Quiet
  BY <1>4 DEF DeleteListing, histVars
<1>5. CASE NextDay \/ EndPeriod \/ RenewSubscription \/ CreateRecord
  BY <1>5 DEF NextDay, EndPeriod, RenewSubscription, CreateRecord, histVars
<1>6. CASE UNCHANGED vars
  BY <1>6 DEF histVars
<1> QED BY <1>1, <1>2, <1>3, <1>4, <1>5, <1>6 DEF Next

-----------------------------------------------------------------------------
(* Types *)

LEMMA InitInv == Init => Inv
<1> SUFFICES ASSUME Init PROVE Inv
  OBVIOUS
<1>1. TypeOK
  BY DEF Init, TypeOK, Labels, Task, Cycles, Kinds
<1>2. Steady /\ Origins /\ OneIntentPerDay /\ Blinded /\ DuplicatesOnlyOvertaken
  BY DEF Init, Steady, Origins, OneIntentPerDay, Blinded, DuplicatesOnlyOvertaken, Listings
<1>3. \A k \in Kinds, c \in Cycles : InCycle(k, c) = {}
  BY DEF Init, InCycle
<1>4. Counted
  BY <1>3, FS_EmptySet DEF Init, Counted, UsageCounted
<1>5. Room
  BY DEF Init, Room, Counting
<1>6. LimitHoldsUnlessOvertaken
  <2> SUFFICES ASSUME NEW k \in Kinds
      PROVE  Cardinality({x \in InCycle(k, 0) : x.by \notin late \cup unseen}) <= Limit[k][0]
    BY DEF LimitHoldsUnlessOvertaken
  <2>1. {x \in InCycle(k, 0) : x.by \notin late \cup unseen} = {}
    BY DEF Init, InCycle
  <2>2. Limit[k][0] \in Nat
    OBVIOUS
  <2> HIDE LimitsAssumption
  <2> QED BY <2>1, <2>2, FS_EmptySet
<1> QED BY <1>1, <1>2, <1>4, <1>5, <1>6 DEF Inv

\* A step that creates keeps the types of what it writes.
LEMMA CreateTypes ==
  ASSUME TypeOK, NEW r \in Requests, NEW k \in Kinds, NEW p \in Places, Commit(r, k, p)
  PROVE  /\ created' \subseteq Created
         /\ used' \in [Kinds -> [Cycles -> Nat]]
         /\ late' \subseteq Requests
<1>1. created' \subseteq Created
  BY DEF TypeOK, Commit, Created
<1>3. used' \in [Kinds -> [Cycles -> Nat]]
  BY DEF TypeOK, Commit
<1>4. \A i \in intents : i.by \in Requests
  BY DEF TypeOK, Intent
<1>5. late' \subseteq Requests
  BY <1>4 DEF TypeOK, Commit, Counting
<1> QED BY <1>1, <1>3, <1>5

\* Every step keeps the types.
LEMMA TypeStep == TypeOK /\ Steady /\ Origins /\ [Next]_vars => TypeOK'
<1> SUFFICES ASSUME TypeOK, Steady, Origins, [Next]_vars PROVE TypeOK'
  OBVIOUS
<1> USE DEF TypeOK, Labels, GoTo, subVars, rowVars, stripeVars, histVars
<1>1. ASSUME NEW r \in Requests, Ask(r) PROVE TypeOK'
  BY <1>1 DEF Ask, Task
<1>2. ASSUME NEW r \in Requests, ReadLimit(r) PROVE TypeOK'
  BY <1>2 DEF ReadLimit, Task
<1>3. ASSUME NEW r \in Requests, ReadUsage(r) PROVE TypeOK'
  BY <1>3 DEF ReadUsage
<1>4. ASSUME NEW r \in Requests, CheckExists(r) \/ CheckFeatured(r) PROVE TypeOK'
  BY <1>4 DEF CheckExists, CheckFeatured
<1>5. ASSUME NEW r \in Requests, Insert(r) PROVE TypeOK'
  <2>1. CASE Creates(r, "listing", task[r].place)
    <3>1. /\ created' \subseteq Created
          /\ used' \in [Kinds -> [Cycles -> Nat]]
          /\ late' \subseteq Requests
      BY <2>1, CreateTypes DEF Creates
    <3> QED BY <1>5, <3>1 DEF Insert
  <2>2. CASE Quiet
    BY <1>5, <2>2 DEF Insert, Quiet
  <2> QED BY <1>5, <2>1, <2>2, InsertCreates
<1>6. ASSUME NEW r \in Requests, CreateIntent(r) PROVE TypeOK'
  BY <1>6 DEF CreateIntent, Intent, Steady
<1>7. ASSUME NEW i \in intents, PayIntent(i) PROVE TypeOK'
  <2>1. Creates(i.by, "featured", i.place) /\ i.by \in Requests
    BY <1>7, PayCreates DEF Intent
  <2>2. /\ created' \subseteq Created
        /\ used' \in [Kinds -> [Cycles -> Nat]]
        /\ late' \subseteq Requests
    BY <2>1, CreateTypes DEF Creates
  <2> QED BY <1>7, <2>2 DEF PayIntent
<1>8. ASSUME NEW l \in created, DeleteListing(l) PROVE TypeOK'
  BY <1>8 DEF DeleteListing, Created
<1>9. CASE NextDay \/ EndPeriod \/ RenewSubscription \/ CreateRecord
  <2>1. CASE NextDay
    <3>1. today + 1 \in 0 .. MaxDay
      BY <2>1 DEF NextDay
    <3> QED BY <2>1, <3>1 DEF NextDay
  <2>2. CASE EndPeriod
    <3>1. period + 1 \in Cycles
      BY <2>2 DEF EndPeriod, Cycles
    <3> QED BY <2>2, <3>1 DEF EndPeriod
  <2>3. CASE RenewSubscription \/ CreateRecord
    BY <2>3 DEF RenewSubscription, CreateRecord
  <2> QED BY <1>9, <2>1, <2>2, <2>3
<1>10. CASE UNCHANGED vars
  BY <1>10 DEF vars
<1> QED
  <2> HIDE DEF TypeOK
  <2> QED BY <1>1, <1>2, <1>3, <1>4, <1>5, <1>6, <1>7, <1>8, <1>9, <1>10 DEF Next, Serve

-----------------------------------------------------------------------------
(* Requests, and what they leave behind *)

LEMMA SteadyStep ==
  ASSUME TypeOK, Steady, [Next]_vars
  PROVE  Steady'
<1> USE DEF TypeOK, Task, Cycles, Kinds, Steady, GoTo, subVars, rowVars, stripeVars, histVars
<1>0. \A q \in Requests : task[q].cycle \in Nat /\ task[q] \in Task
  OBVIOUS
<1>1. ASSUME NEW r \in Requests, Ask(r) PROVE Steady'
  BY <1>1 DEF Ask
<1>11. ASSUME NEW r \in Requests, ReadLimit(r) PROVE Steady'
  BY <1>0, <1>11 DEF ReadLimit
<1>2. ASSUME NEW r \in Requests, ReadUsage(r) PROVE Steady'
  BY <1>2 DEF ReadUsage
<1>3. ASSUME NEW r \in Requests, CheckExists(r) PROVE Steady'
  <2>1. pc[r] = "exists" /\ pc'[r] \in {"insert", "done"} /\ UNCHANGED <<task, cycle>>
    BY <1>3 DEF CheckExists
  <2>2. \A q \in Requests \ {r} : pc'[q] = pc[q]
    BY <1>3 DEF CheckExists
  <2> QED BY <2>1, <2>2
<1>14. ASSUME NEW r \in Requests, CheckFeatured(r) PROVE Steady'
  <2>1. pc[r] = "featured" /\ pc'[r] \in {"intent", "done"} /\ UNCHANGED <<task, cycle>>
    BY <1>14 DEF CheckFeatured
  <2>2. \A q \in Requests \ {r} : pc'[q] = pc[q]
    BY <1>14 DEF CheckFeatured
  <2> QED BY <2>1, <2>2
<1>12. ASSUME NEW r \in Requests, Insert(r) \/ CreateIntent(r) PROVE Steady'
  <2>1. pc[r] \in {"insert", "intent"} /\ pc'[r] = "done" /\ UNCHANGED <<task, cycle>>
    BY <1>12 DEF Insert, CreateIntent
  <2>2. \A q \in Requests \ {r} : pc'[q] = pc[q]
    BY <1>12 DEF Insert, CreateIntent
  <2> QED BY <2>1, <2>2
<1>4. CASE (\E i \in intents : PayIntent(i)) \/ (\E l \in created : DeleteListing(l))
  BY <1>4 DEF PayIntent, DeleteListing
<1>5. CASE NextDay \/ EndPeriod \/ CreateRecord
  BY <1>5 DEF NextDay, EndPeriod, CreateRecord
<1>13. CASE RenewSubscription
  <2>1. \A q \in Requests : task[q].cycle <= cycle'
    BY <1>0, <1>13 DEF RenewSubscription
  <2> QED BY <1>13, <2>1 DEF RenewSubscription
<1>6. CASE UNCHANGED vars
  BY <1>6 DEF vars
<1> QED
  <2> HIDE DEF TypeOK, Steady
  <2> QED BY <1>1, <1>2, <1>3, <1>4, <1>5, <1>6, <1>11, <1>12, <1>13, <1>14
             DEF Next, Serve

\* Every step keeps whose request a listing or an intent came from.
LEMMA OriginsStep ==
  ASSUME TypeOK, Steady, Origins, OneIntentPerDay, [Next]_vars
  PROVE  Origins' /\ OneIntentPerDay'
<1> USE DEF TypeOK, Task, Created, Intent, Steady, Origins, OneIntentPerDay, GoTo, subVars,
            rowVars, stripeVars, histVars
<1>1. ASSUME NEW r \in Requests, Ask(r) PROVE Origins' /\ OneIntentPerDay'
  BY <1>1 DEF Ask
<1>10. ASSUME NEW r \in Requests, ReadLimit(r) PROVE Origins' /\ OneIntentPerDay'
  <2>1. \A q \in Requests : task'[q].kind = task[q].kind
    BY <1>10 DEF ReadLimit
  <2>2. \A q \in Requests : pc[q] = "done" => pc'[q] = "done"
    BY <1>10 DEF ReadLimit
  <2>3. UNCHANGED <<created, intents, paid>>
    BY <1>10 DEF ReadLimit
  <2> QED BY <2>1, <2>2, <2>3
<1>2. ASSUME NEW r \in Requests, ReadUsage(r) PROVE Origins' /\ OneIntentPerDay'
  BY <1>2 DEF ReadUsage
<1>3. ASSUME NEW r \in Requests, CheckExists(r) \/ CheckFeatured(r)
      PROVE Origins' /\ OneIntentPerDay'
  BY <1>3 DEF CheckExists, CheckFeatured
<1>4. ASSUME NEW r \in Requests, Insert(r) PROVE Origins' /\ OneIntentPerDay'
  <2>1. \A x \in created' : x \in created \/ (x.by = r /\ x.kind = "listing")
    BY <1>4 DEF Insert, Commit
  <2>2. task[r].kind = "listing" /\ pc'[r] = "done" /\ UNCHANGED <<task, intents, paid>>
    BY <1>4 DEF Insert
  <2>3. \A q \in Requests : pc[q] = "done" => pc'[q] = "done"
    BY <1>4 DEF Insert
  <2> QED BY <2>1, <2>2, <2>3
<1>5. ASSUME NEW r \in Requests, CreateIntent(r) PROVE Origins' /\ OneIntentPerDay'
  BY <1>5 DEF CreateIntent
<1>6. ASSUME NEW i \in intents, PayIntent(i) PROVE Origins' /\ OneIntentPerDay'
  BY <1>6 DEF PayIntent, Commit
<1>7. ASSUME NEW l \in created, DeleteListing(l) PROVE Origins' /\ OneIntentPerDay'
  BY <1>7 DEF DeleteListing
<1>8. CASE NextDay \/ EndPeriod \/ RenewSubscription \/ CreateRecord
  BY <1>8 DEF NextDay, EndPeriod, RenewSubscription, CreateRecord
<1>9. CASE UNCHANGED vars
  BY <1>9 DEF vars
<1> QED
  <2> HIDE DEF TypeOK, Origins, OneIntentPerDay
  <2> QED BY <1>1, <1>2, <1>3, <1>4, <1>5, <1>6, <1>7, <1>8, <1>9, <1>10 DEF Next,
             Serve

-----------------------------------------------------------------------------
(* Duplicates *)

LEMMA BlindedStep ==
  ASSUME TypeOK, Steady, Origins, Blinded, DuplicatesOnlyOvertaken, [Next]_vars
  PROVE  Blinded' /\ DuplicatesOnlyOvertaken'
<1> USE DEF TypeOK, Created, Blinded, DuplicatesOnlyOvertaken, Listings, GoTo, subVars,
            rowVars, stripeVars, histVars
<1>1. ASSUME NEW r \in Requests, Ask(r) \/ ReadLimit(r)
      PROVE Blinded' /\ DuplicatesOnlyOvertaken'
  BY <1>1 DEF Ask, ReadLimit
<1>2. ASSUME NEW r \in Requests, ReadUsage(r) PROVE Blinded' /\ DuplicatesOnlyOvertaken'
  BY <1>2 DEF ReadUsage
<1>3. ASSUME NEW r \in Requests, CheckExists(r) \/ CheckFeatured(r) \/ CreateIntent(r)
      PROVE Blinded' /\ DuplicatesOnlyOvertaken'
  BY <1>3 DEF CheckExists, CheckFeatured, CreateIntent
<1>4. ASSUME NEW r \in Requests, Insert(r) PROVE Blinded' /\ DuplicatesOnlyOvertaken'
  BY <1>4 DEF Insert, Commit, Origins
<1>5. ASSUME NEW i \in intents, PayIntent(i) PROVE Blinded' /\ DuplicatesOnlyOvertaken'
  BY <1>5 DEF PayIntent, Commit
<1>6. ASSUME NEW l \in created, DeleteListing(l) PROVE Blinded' /\ DuplicatesOnlyOvertaken'
  BY <1>6 DEF DeleteListing
<1>7. CASE NextDay \/ EndPeriod \/ RenewSubscription \/ CreateRecord
  BY <1>7 DEF NextDay, EndPeriod, RenewSubscription, CreateRecord
<1>8. CASE UNCHANGED vars
  BY <1>8 DEF vars
<1> QED
  <2> HIDE DEF TypeOK, Blinded, DuplicatesOnlyOvertaken
  <2> QED BY <1>1, <1>2, <1>3, <1>4, <1>5, <1>6, <1>7, <1>8 DEF Next, Serve

-----------------------------------------------------------------------------
(* Counters and limits *)

\* What r creates was not there, and goes into one set of InCycle.
LEMMA InCycleGrows ==
  ASSUME TypeOK, NEW r \in Requests, NEW k \in Kinds, NEW p \in Places, Creates(r, k, p)
  PROVE  /\ Creation(r, k, p) \notin created
         /\ \A j \in Kinds, c \in Cycles :
              InCycle(j, c)' = IF j = k /\ c = cycle THEN InCycle(j, c) \cup {Creation(r, k, p)}
                               ELSE InCycle(j, c)
<1>1. created' = created \cup {Creation(r, k, p)}
  BY DEF Creates, Commit, Creation
<1>2. /\ Creation(r, k, p).by = r /\ Creation(r, k, p).kind = k
      /\ Creation(r, k, p).cycle = cycle
  BY DEF Creation
<1>3. Creation(r, k, p) \notin created
  BY <1>2 DEF Creates
<1> HIDE DEF Creation
<1>4. \A j \in Kinds, c \in Cycles :
        j = k /\ c = cycle => InCycle(j, c)' = InCycle(j, c) \cup {Creation(r, k, p)}
  BY <1>1, <1>2 DEF InCycle
<1>5. \A j \in Kinds, c \in Cycles :
        ~ (j = k /\ c = cycle) => InCycle(j, c)' = InCycle(j, c)
  BY <1>1, <1>2 DEF InCycle
<1> QED BY <1>3, <1>4, <1>5

\* Every step keeps the counters equal to what was created.
LEMMA CountedStep ==
  ASSUME TypeOK, Steady, Origins, Counted, [Next]_vars
  PROVE  Counted'
<1>1. CASE Quiet
  BY <1>1 DEF Quiet, Counted, UsageCounted, InCycle
<1>2. ASSUME NEW r \in Requests, NEW k \in Kinds, NEW p \in Places, Creates(r, k, p)
      PROVE  Counted'
  <2>1. IsFiniteSet(created')
    BY <1>2, FS_AddElement DEF Counted, Creates, Commit
  <2>2. ASSUME NEW j \in Kinds, NEW c \in Cycles
        PROVE  used'[j][c] = Cardinality(InCycle(j, c)')
    <3>1. IsFiniteSet(InCycle(j, c)) /\ Creation(r, k, p) \notin InCycle(j, c)
      BY <1>2, InCycleGrows, FS_Subset DEF Counted, InCycle
    <3>2. used[j][c] = Cardinality(InCycle(j, c))
      BY DEF Counted, UsageCounted
    <3>3. CASE j = k /\ c = cycle
      <4>1. InCycle(j, c)' = InCycle(j, c) \cup {Creation(r, k, p)}
        BY <1>2, <3>3, InCycleGrows
      <4>2. Cardinality(InCycle(j, c)') = Cardinality(InCycle(j, c)) + 1
        BY <3>1, <4>1, FS_AddElement
      <4>3. used'[j][c] = used[j][c] + 1
        BY <1>2, <3>3 DEF Creates, Commit, TypeOK
      <4> QED BY <3>2, <4>2, <4>3
    <3>4. CASE ~ (j = k /\ c = cycle)
      <4>1. used'[j][c] = used[j][c]
        BY <1>2, <3>4 DEF Creates, Commit, TypeOK
      <4> QED BY <1>2, <3>2, <3>4, <4>1, InCycleGrows
    <3> QED BY <3>3, <3>4
  <2> QED BY <2>1, <2>2 DEF Counted, UsageCounted
<1> QED BY <1>1, <1>2, Steps

\* Every step keeps room under the limit for who passed the check and was not overtaken.
LEMMA RoomStep ==
  ASSUME TypeOK, Steady, Origins, Room, [Next]_vars
  PROVE  Room'
<1> USE DEF TypeOK, Task, Created, Intent, Kinds, Room, Counting, GoTo, subVars, rowVars,
            stripeVars, histVars
<1>1. ASSUME NEW r \in Requests, Ask(r) PROVE Room'
  BY <1>1 DEF Ask, Origins
<1>2. ASSUME NEW r \in Requests, ReadLimit(r) PROVE Room'
  BY <1>2 DEF ReadLimit, Origins
<1>3. ASSUME NEW r \in Requests, ReadUsage(r) PROVE Room'
  BY <1>3 DEF ReadUsage, CheckedUsage, Covered
<1>4. ASSUME NEW r \in Requests, CheckExists(r) \/ CheckFeatured(r) \/ CreateIntent(r)
      PROVE Room'
  BY <1>4 DEF CheckExists, CheckFeatured, CreateIntent, Steady
<1>5. ASSUME NEW r \in Requests, Insert(r) PROVE Room'
  BY <1>5 DEF Insert, Commit, Origins, Steady
<1>6. ASSUME NEW i \in intents, PayIntent(i) PROVE Room'
  BY <1>6 DEF PayIntent, Commit, Origins
<1>7. ASSUME NEW l \in created, DeleteListing(l) PROVE Room'
  BY <1>7 DEF DeleteListing
<1>8. CASE NextDay \/ EndPeriod \/ RenewSubscription \/ CreateRecord
  BY <1>8 DEF NextDay, EndPeriod, RenewSubscription, CreateRecord
<1>9. CASE UNCHANGED vars
  BY <1>9 DEF vars
<1> QED
  <2> HIDE DEF TypeOK, Room
  <2> QED BY <1>1, <1>2, <1>3, <1>4, <1>5, <1>6, <1>7, <1>8, <1>9 DEF Next, Serve

\* What was created in the trial on readings that held.
Clean(k) == {x \in InCycle(k, 0) : x.by \notin late \cup unseen}

\* Every step keeps what was created unovertaken within the limit.
LEMMA LimitStep ==
  ASSUME Inv, [Next]_vars
  PROVE  LimitHoldsUnlessOvertaken'
<1> SUFFICES ASSUME NEW k \in Kinds PROVE Cardinality(Clean(k)') <= Limit[k][0]
  BY DEF LimitHoldsUnlessOvertaken, Clean
<1>1. 0 \in Cycles /\ Limit[k][0] \in Nat
  BY DEF Cycles
<1>2. /\ IsFiniteSet(Clean(k)) /\ Cardinality(Clean(k)) \in Nat
      /\ Cardinality(Clean(k)) <= Limit[k][0]
  BY FS_Subset, FS_CardinalityType DEF Inv, Counted, Clean, InCycle, LimitHoldsUnlessOvertaken
<1>3. unseen \subseteq unseen' /\ late \subseteq late'
  BY DEF Next, Serve, Ask, ReadLimit, ReadUsage, CheckExists, CheckFeatured, CreateIntent,
         Insert, PayIntent, Commit, DeleteListing, NextDay, EndPeriod, RenewSubscription,
         CreateRecord, vars, histVars
<1>4. ASSUME Clean(k)' \subseteq Clean(k)
      PROVE  Cardinality(Clean(k)') <= Limit[k][0]
  <2>1. Cardinality(Clean(k)') <= Cardinality(Clean(k)) /\ IsFiniteSet(Clean(k)')
    BY <1>2, <1>4, FS_Subset
  <2>2. Cardinality(Clean(k)') \in Nat
    BY <2>1, FS_CardinalityType
  <2> QED BY <1>1, <1>2, <2>1, <2>2
<1>5. CASE Quiet
  BY <1>3, <1>4, <1>5 DEF Quiet, Clean, InCycle
<1>6. ASSUME NEW r \in Requests, NEW j \in Kinds, NEW p \in Places, Creates(r, j, p)
      PROVE  Cardinality(Clean(k)') <= Limit[k][0]
  <2>1. CASE j = k /\ cycle = 0 /\ r \notin late \cup unseen
    <3>1. task[r].cycle = 0
      BY <2>1 DEF Inv, TypeOK, Task, Cycles, Steady
    <3>2. used[k][0] < Limit[k][0]
      BY <1>6, <2>1, <3>1 DEF Inv, Room, Creates
    <3>3. used'[k][0] = used[k][0] + 1 /\ used[k][0] \in Nat
      BY <1>1, <1>6, <2>1 DEF Inv, TypeOK, Creates, Commit
    <3>4. Counted'
      BY CountedStep DEF Inv
    <3>5. /\ Clean(k)' \subseteq InCycle(k, 0)' /\ IsFiniteSet(InCycle(k, 0)')
          /\ Cardinality(InCycle(k, 0)') = used'[k][0]
      BY <1>1, <3>4, FS_Subset DEF Clean, Counted, UsageCounted, InCycle
    <3>6. Cardinality(Clean(k)') <= used'[k][0] /\ IsFiniteSet(Clean(k)')
      BY <3>5, FS_Subset
    <3>7. Cardinality(Clean(k)') \in Nat
      BY <3>6, FS_CardinalityType
    <3> QED BY <1>1, <3>2, <3>3, <3>6, <3>7
  <2>2. CASE ~ (j = k /\ cycle = 0 /\ r \notin late \cup unseen)
    <3>1. \A x \in InCycle(k, 0)' : x \in InCycle(k, 0) \/ x.by = r
      BY <1>6 DEF Creates, Commit, InCycle
    <3>2. InCycle(k, 0)' \subseteq InCycle(k, 0) \/ r \in late \cup unseen
      BY <1>1, <1>6, <2>2, InCycleGrows DEF Inv
    <3> QED BY <1>3, <1>4, <3>1, <3>2 DEF Clean
  <2> QED BY <2>1, <2>2
<1> QED BY <1>5, <1>6, Steps DEF Inv

-----------------------------------------------------------------------------
(* The theorems *)

LEMMA InvAlways == Spec => []Inv
<1>1. Inv /\ [Next]_vars => Inv'
  BY TypeStep, SteadyStep, OriginsStep, BlindedStep, CountedStep, RoomStep, LimitStep DEF Inv
<1> QED BY <1>1, InitInv, PTL DEF Spec

\* Every request, counter, listing and intent keeps its type.
THEOREM TypeCorrect == Spec => []TypeOK
<1>1. Inv => TypeOK
  BY DEF Inv
<1> QED BY <1>1, InvAlways, PTL

\* Every creation is counted once, in its own cycle, whatever renewals interleave.
THEOREM UsageSafe == Spec => []UsageCounted
<1>1. Inv => UsageCounted
  BY DEF Inv, Counted
<1> QED BY <1>1, InvAlways, PTL

\* Only requests that overlapped, or found no record, go beyond the limit.
THEOREM LimitSafe == Spec => []LimitHoldsUnlessOvertaken
<1>1. Inv => LimitHoldsUnlessOvertaken
  BY DEF Inv
<1> QED BY <1>1, InvAlways, PTL

\* Only requests that overlapped list the same place twice.
THEOREM DuplicatesSafe == Spec => []DuplicatesOnlyOvertaken
<1>1. Inv => DuplicatesOnlyOvertaken
  BY DEF Inv
<1> QED BY <1>1, InvAlways, PTL

\* A listing is charged once for a day, however many requests ask for it.
THEOREM FeaturedSafe == Spec => []FeaturedOncePerDay
<1>1. Inv => FeaturedOncePerDay
  BY DEF Inv, TypeOK, OneIntentPerDay, FeaturedOncePerDay
<1> QED BY <1>1, InvAlways, PTL

=============================================================================
