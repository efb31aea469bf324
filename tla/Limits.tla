-------------------------------- MODULE Limits --------------------------------
(***************************************************************************)
(* What an agent's plan allows in a billing cycle: new listings and        *)
(* featured listings.  Both are checked in a middleware and counted much   *)
(* later: a listing in the transaction of createProperty, a featured       *)
(* listing when its payment intent has been paid.                          *)
(*                                                                         *)
(* A request is a process and an action is one awaited call.  The          *)
(* subscription itself lives (what ends it is in Billing), and renewals    *)
(* arrive as the two writes of handleInvoicePaid.                          *)
(***************************************************************************)
EXTENDS Naturals, FiniteSets

CONSTANTS
  Requests,
  Places,       \* addresses and types of listings
  MaxCycle,     \* bound on the billing cycles; cycle 0 is the trial
  MaxDay,       \* bound on the days on which intents are made
  Limit,        \* [Kinds -> [Cycles -> limit]], NoLimit for null
  NoLimit, Unset,
  MayAsk        \* [Requests -> SUBSET Kinds]: bounds what a request may be

Kinds == {"listing", "featured"}

Cycles == 0 .. MaxCycle

ASSUME LimitsAssumption ==
  /\ MaxCycle \in Nat /\ MaxDay \in Nat
  /\ NoLimit \notin Nat /\ Unset \notin Places
  /\ Limit \in [Kinds -> [Cycles -> Nat \cup {NoLimit}]]
  /\ \A k \in Kinds : Limit[k][0] \in Nat
  /\ MayAsk \in [Requests -> SUBSET Kinds]

VARIABLES
  cycle,      \* subscription.subscriptionCycleId
  period,     \* the billing period the clock is in
  packages,   \* the cycles that have a PackageRecord
  used,       \* propertiesUsed and featuredListingsUsed of each record
  created,    \* what was created: the listings and the featured listings
  removed,    \* the listings deleted since, by their request
  intents,    \* payment intents of Stripe for featured listings
  paid,       \* the intents whose payment has been booked
  today,
  pc, task,
  late,       \* history: requests whose reading of the counter was overtaken
  unseen,     \* history: requests whose check found no record
  blind       \* history: requests whose look for a duplicate was overtaken by one

subVars   == <<cycle, period, packages>>
rowVars   == <<used, created, removed>>
stripeVars == <<intents, paid, today>>
histVars  == <<late, unseen, blind>>
vars == <<subVars, rowVars, stripeVars, pc, task, histVars>>

-----------------------------------------------------------------------------
(* Values *)

Labels == {"idle", "limit", "usage", "exists", "insert", "featured", "intent", "done"}

Task == [kind : Kinds, place : Places \cup {Unset}, cycle : Cycles]

\* by is the request, for a featured listing the one whose intent was paid.
Created == [kind : Kinds, by : Requests, place : Places, cycle : Cycles]

\* propertiesUsed and featuredListingsUsed, by the cycle's id, which is unique.
PackageRecords == [Kinds -> [Cycles -> Nat]]

Intent == [by : Requests, place : Places, day : 0 .. MaxDay]

TypeOK ==
  /\ cycle \in Cycles /\ period \in Cycles
  /\ packages \subseteq Cycles
  /\ used \in PackageRecords
  /\ created \subseteq Created /\ removed \subseteq Requests
  /\ intents \subseteq Intent /\ paid \subseteq intents
  /\ today \in 0 .. MaxDay
  /\ pc \in [Requests -> Labels] /\ task \in [Requests -> Task]
  /\ late \subseteq Requests /\ unseen \subseteq Requests /\ blind \subseteq Requests

-----------------------------------------------------------------------------
(* Operators *)

GoTo(r, l) == pc' = [pc EXCEPT ![r] = l]

\* The listings that are there, and those with an active featured listing: no
\* job ever ends one (payment.service.ts does not pass its id).
Listings == {c \in created : c.kind = "listing" /\ c.by \notin removed}
FeaturedPlaces == {c.place : c \in {d \in created : d.kind = "featured"}}

\* The record the middleware finds.  The trial's covers the trial; that of an
\* invoice starts and ends at the end of its period, an instant left out here.
Covered(c) == c = 0 /\ c \in packages /\ period = 0

CheckedUsage(k, c) == IF Covered(c) THEN used[k][c] ELSE 0

\* Requests that have read the counter of kind k and will still count on it.
Counting(k) ==
  {r \in Requests : task[r].kind = k /\ pc[r] \in {"exists", "insert", "featured", "intent"}}
    \cup {i.by : i \in {j \in intents \ paid : k = "featured"}}

\* r creates x of kind k in a cycle that has a record, together with its count.
Commit(r, k, p) ==
  /\ created' = created \cup {[kind |-> k, by |-> r, place |-> p, cycle |-> cycle]}
  /\ used' = [used EXCEPT ![k][cycle] = @ + 1]
  /\ late' = late \cup (Counting(k) \ {r})

-----------------------------------------------------------------------------
(* The middlewares *)

\* requiredActiveSubscription
Ask(r) ==
  /\ pc[r] = "idle"
  /\ \E k \in MayAsk[r], p \in Places :
       task' = [task EXCEPT ![r] = [kind |-> k, place |-> p, cycle |-> cycle]]
  /\ GoTo(r, "limit")
  /\ UNCHANGED <<subVars, rowVars, stripeVars, histVars>>

\* checkPropertyLimit, checkFeaturedListingLimit: the subscription's row.
ReadLimit(r) ==
  /\ pc[r] = "limit"
  /\ task' = [task EXCEPT ![r].cycle = cycle]
  /\ GoTo(r, IF Limit[task[r].kind][cycle] # NoLimit THEN "usage"
             ELSE IF task[r].kind = "listing" THEN "exists" ELSE "featured")
  /\ UNCHANGED <<subVars, rowVars, stripeVars, histVars>>

\* Mutant of ReadUsage: the limit itself passes.
MutReadUsage(r) ==
  LET k == task[r].kind
      c == task[r].cycle
  IN  /\ pc[r] = "usage"
      /\ IF CheckedUsage(k, c) > Limit[k][c]
           THEN GoTo(r, "done") /\ UNCHANGED unseen
           ELSE /\ GoTo(r, IF k = "listing" THEN "exists" ELSE "featured")
                /\ unseen' = IF Covered(c) THEN unseen ELSE unseen \cup {r}
      /\ UNCHANGED <<subVars, rowVars, stripeVars, task, late, blind>>

\* The record of that cycle.
ReadUsage(r) ==
  LET k == task[r].kind
      c == task[r].cycle
  IN  /\ pc[r] = "usage"
      /\ IF CheckedUsage(k, c) >= Limit[k][c]
           THEN GoTo(r, "done") /\ UNCHANGED unseen
           ELSE /\ GoTo(r, IF k = "listing" THEN "exists" ELSE "featured")
                /\ unseen' = IF Covered(c) THEN unseen ELSE unseen \cup {r}
      /\ UNCHANGED <<subVars, rowVars, stripeVars, task, late, blind>>

-----------------------------------------------------------------------------
(* createProperty, deleteProperty *)

\* Mutant of CheckExists: the look misses the listings of other
\* requests.
MutCheckExists(r) ==
  /\ pc[r] = "exists"
  /\ GoTo(r, IF \E l \in Listings : l.place = task[r].place /\ l.by = r THEN "done" ELSE "insert")
  /\ UNCHANGED <<subVars, rowVars, stripeVars, task, histVars>>

CheckExists(r) ==
  /\ pc[r] = "exists"
  /\ GoTo(r, IF \E l \in Listings : l.place = task[r].place THEN "done" ELSE "insert")
  /\ UNCHANGED <<subVars, rowVars, stripeVars, task, histVars>>

\* Mutant of Insert: a cycle without a record creates the listing uncounted.
MutInsert(r) ==
  /\ pc[r] = "insert"
  /\ IF cycle \in packages
       THEN /\ Commit(r, "listing", task[r].place)
            /\ blind' = blind \cup {q \in Requests \ {r} :
                          pc[q] = "insert" /\ task[q].place = task[r].place}
       ELSE /\ created' = created \cup {[kind |-> "listing", by |-> r,
                                         place |-> task[r].place, cycle |-> cycle]}
            /\ UNCHANGED <<used, late, blind>>
  /\ GoTo(r, "done")
  /\ UNCHANGED <<subVars, removed, stripeVars, task, unseen>>

\* One transaction: the listing and the counter of the record of the cycle the
\* subscription has by now; without that record nothing happens.
Insert(r) ==
  /\ pc[r] = "insert"
  /\ IF cycle \in packages
       THEN /\ Commit(r, "listing", task[r].place)
            /\ blind' = blind \cup {q \in Requests \ {r} :
                          pc[q] = "insert" /\ task[q].place = task[r].place}
       ELSE UNCHANGED <<created, used, late, blind>>
  /\ GoTo(r, "done")
  /\ UNCHANGED <<subVars, removed, stripeVars, task, unseen>>

\* The counter stays as it is.
DeleteListing(l) ==
  /\ l \in Listings
  /\ removed' = removed \cup {l.by}
  /\ UNCHANGED <<subVars, used, created, stripeVars, pc, task, histVars>>

-----------------------------------------------------------------------------
(* createFeaturedListing, and its payment *)

CheckFeatured(r) ==
  /\ pc[r] = "featured"
  /\ GoTo(r, IF task[r].place \in FeaturedPlaces THEN "done" ELSE "intent")
  /\ UNCHANGED <<subVars, rowVars, stripeVars, task, histVars>>

\* Mutant of CreateIntent: no idempotency key.
MutCreateIntent(r) ==
  /\ pc[r] = "intent"
  /\ intents' = intents \cup {[by |-> r, place |-> task[r].place, day |-> today]}
  /\ GoTo(r, "done")
  /\ UNCHANGED <<subVars, rowVars, paid, today, task, histVars>>

\* The idempotency key of Stripe names the listing and the day.
CreateIntent(r) ==
  /\ pc[r] = "intent"
  /\ intents' = IF \E i \in intents : i.place = task[r].place /\ i.day = today
                THEN intents
                ELSE intents \cup {[by |-> r, place |-> task[r].place, day |-> today]}
  /\ GoTo(r, "done")
  /\ UNCHANGED <<subVars, rowVars, paid, today, task, histVars>>

\* The transaction of handleFeaturedListingPayment, once per intent.
PayIntent(i) ==
  /\ i \in intents \ paid
  /\ cycle \in packages
  /\ Commit(i.by, "featured", i.place)
  /\ paid' = paid \cup {i}
  /\ UNCHANGED <<subVars, removed, intents, today, pc, task, unseen, blind>>

NextDay ==
  /\ today < MaxDay /\ today' = today + 1
  /\ UNCHANGED <<subVars, rowVars, intents, paid, pc, task, histVars>>

-----------------------------------------------------------------------------
(* Renewal: the period ends, handleInvoicePaid moves the subscription to the
   new cycle and then creates its record. *)

EndPeriod ==
  /\ period < MaxCycle /\ period = cycle
  /\ period' = period + 1
  /\ UNCHANGED <<cycle, packages, rowVars, stripeVars, pc, task, histVars>>

RenewSubscription ==
  /\ cycle < period
  /\ cycle' = period
  /\ UNCHANGED <<period, packages, rowVars, stripeVars, pc, task, histVars>>

CreateRecord ==
  /\ cycle \notin packages
  /\ packages' = packages \cup {cycle}
  /\ UNCHANGED <<cycle, period, rowVars, stripeVars, pc, task, histVars>>

-----------------------------------------------------------------------------

Init ==
  /\ cycle = 0 /\ period = 0 /\ packages = {0}
  /\ used = [k \in Kinds |-> [c \in Cycles |-> 0]]
  /\ created = {} /\ removed = {}
  /\ intents = {} /\ paid = {} /\ today = 0
  /\ pc = [r \in Requests |-> "idle"]
  /\ task = [r \in Requests |-> [kind |-> "listing", place |-> Unset, cycle |-> 0]]
  /\ late = {} /\ unseen = {} /\ blind = {}

Serve(r) ==
  \/ Ask(r) \/ ReadLimit(r) \/ ReadUsage(r) \/ CheckExists(r) \/ Insert(r)
  \/ CheckFeatured(r) \/ CreateIntent(r)

Next ==
  \/ \E r \in Requests : Serve(r)
  \/ \E l \in created : DeleteListing(l)
  \/ \E i \in intents : PayIntent(i)
  \/ NextDay \/ EndPeriod \/ RenewSubscription \/ CreateRecord

Spec == Init /\ [][Next]_vars

-----------------------------------------------------------------------------
(* Safety *)

InCycle(k, c) == {x \in created : x.kind = k /\ x.cycle = c}

(***************************************************************************)
(* The counters of createProperty and handleFeaturedListingPayment: every  *)
(* creation is counted once, in the cycle it happened in, through renewals *)
(* that land between a request's check and its transaction.                *)
(***************************************************************************)
UsageCounted ==
  \A k \in Kinds, c \in Cycles : used[k][c] = Cardinality(InCycle(k, c))

(***************************************************************************)
(* checkPropertyLimit, checkFeaturedListingLimit: what was created in a    *)
(* cycle on a reading of its counter that nobody overtook stays within the *)
(* limit.  What goes beyond it is the work of requests that overlapped, or *)
(* whose check found no record for the day.                                *)
(***************************************************************************)
LimitHoldsUnlessOvertaken ==
  \A k \in Kinds :
     Cardinality({x \in InCycle(k, 0) : x.by \notin late \cup unseen}) <= Limit[k][0]

(***************************************************************************)
(* createProperty looks for a listing of the same agent, address and type  *)
(* and has no unique index behind the look: two of them are there only     *)
(* when the requests overlapped.                                           *)
(***************************************************************************)
DuplicatesOnlyOvertaken ==
  \A x, y \in Listings :
     x # y /\ x.place = y.place => x.by \in blind \/ y.by \in blind

(***************************************************************************)
(* createFeaturedListing: repeated or overlapping requests of one day      *)
(* charge for a listing once.  Only an intent of another day, unpaid when  *)
(* the listing was looked up, features it again.                           *)
(***************************************************************************)
FeaturedOncePerDay ==
  \A i, j \in paid : i.place = j.place /\ i.day = j.day => i = j

=============================================================================
