------------------------------- MODULE Webhooks -------------------------------
(***************************************************************************)
(* Stripe webhooks: the pipeline of handleWebhook (idempotency key, stored *)
(* event, handler, key, status) and the handlers of every event type, for  *)
(* one agent's subscription, package records, payments, featured listings  *)
(* and listings.                                                           *)
(*                                                                         *)
(* A delivery is an HTTP request of Stripe.  Stripe delivers events in any *)
(* order, again when it got no 2xx answer, and sometimes twice; so every   *)
(* delivery may be of any event, and deliveries interleave between awaited *)
(* calls.  One action is one awaited call; the catch block of              *)
(* handleWebhook is the label "failed".  E-mails are left out.             *)
(***************************************************************************)
EXTENDS Integers, FiniteSets, Functions

CONSTANTS
  Deliveries,
  Events,       \* Stripe events; an event's id also stands for its invoice or intent
  Kind,         \* [Events -> Kinds]
  StripeSubs, SubOf,    \* the Stripe subscription an event is about
  Cycles, CycleOf,      \* generateSubscriptionCycleId of an invoice
  TrialCycle,   \* that of the trial, which no invoice has
  NewStatus,    \* what statusMap makes of an "updated" event's status, or Unset
  Properties,
  Unset,
  MaxFaults     \* bound on crashes and failed calls

\* A "notice" changes nothing: an event of a type that is not handled, one that
\* only sends an e-mail, a payment intent that is not for a featured listing.
Kinds == {"paid", "paymentFailed", "updated", "cancelled", "cancelledUnpaid",
          "notice", "featured", "featuredFailed"}

SubscriptionStatus ==
  {"ACTIVE", "INCOMPLETE", "TRIAL", "EXPIRED", "CANCELLED", "PAST_DUE", "GRACE_PERIOD"}

ASSUME WebhookAssumption ==
  /\ Kind \in [Events -> Kinds]
  /\ SubOf \in [Events -> StripeSubs]
  /\ CycleOf \in [Events -> Cycles \ {TrialCycle}]
  /\ TrialCycle \in Cycles
  /\ NewStatus \in [Events -> {"ACTIVE", "TRIAL", "PAST_DUE", "CANCELLED", Unset}]
  /\ Unset \notin SubscriptionStatus /\ Unset \notin Cycles /\ Unset \notin Events
  /\ MaxFaults \in Nat

\* Invoices, and with them the cycles of a behaviour, are finite in number.
ASSUME CyclesFinite == IsFiniteSet(Cycles)

VARIABLES
  subscription, \* the agent's Subscription row
  packages,     \* PackageRecord: the cycles that have one (the id is unique)
  usage,        \* featuredListingsUsed of each package record
  payments,     \* SUCCEEDED payments by stripePaymentId (unique)
  failures,     \* FAILED payments, which have no stripePaymentId
  featured,     \* the number of FeaturedListing rows of a payment intent
  listing,      \* property.status
  jobs,         \* the delayed jobs in the subscription queue, by name
  webhook,      \* WebhookEvent.status, or "none"
  key,          \* the Redis keys webhook:processed:<event>
  pc, event,    \* where each delivery is, and with what
  seen,         \* the subscription row as its handler has read it
  faults,
  effects,      \* history: how often an event has changed the books
  troubled      \* history: events two deliveries handled at once, a delivery of
                \* which did not get through, or whose key has expired

vars == <<subscription, packages, usage, payments, failures, featured, listing,
          jobs, webhook, key, pc, event, seen, faults, effects, troubled>>

books    == <<subscription, packages, usage, payments, failures, featured,
              listing, jobs>>
progress == <<event, seen, troubled>>

-----------------------------------------------------------------------------
(* Values *)

Subscription ==
  [status : SubscriptionStatus \cup {"NONE"}, stripe : StripeSubs,
   dunning : Nat, cycle : Cycles, grace : BOOLEAN]

PropertyStatus == {"DRAFT", "ACTIVE", "PENDING", "SOLD", "RENTED", "INACTIVE"}

WebhookEvent == {"none", "PENDING", "PROCESSED", "FAILED"}

JobNames == {"gracePeriodExpired", "featuredListingExpired"}

\* The labels inside the try of handleWebhook.
Handling == {"handle", "activate", "package", "pay", "reactivate", "dun",
             "recordFailure", "feature", "expiryJob", "featureFailure", "grace",
             "graceJob", "cancel", "sync", "setKey", "mark"}

\* "done" is a 200, "error" anything Stripe takes for a failure.
Labels == Handling \cup {"idle", "key", "store", "failed", "done", "error"}

TypeOK ==
  /\ subscription \in Subscription
  /\ packages \subseteq Cycles
  /\ usage \in [Cycles -> Nat]
  /\ payments \subseteq Events
  /\ failures \in [Events -> Nat]
  /\ featured \in [Events -> Nat]
  /\ listing \in [Properties -> PropertyStatus]
  /\ jobs \in [JobNames -> Nat]
  /\ webhook \in [Events -> WebhookEvent]
  /\ key \subseteq Events
  /\ pc \in [Deliveries -> Labels]
  /\ event \in [Deliveries -> Events \cup {Unset}]
  /\ seen \in [Deliveries -> Subscription]
  /\ faults \in Nat
  /\ effects \in [Events -> Nat]
  /\ troubled \subseteq Events

-----------------------------------------------------------------------------
(* Operators *)

\* findOne({ stripeSubscriptionId })
Known(e) == subscription.status # "NONE" /\ subscription.stripe = SubOf[e]

Goto(d, label) == pc' = [pc EXCEPT ![d] = label]

\* Delivery d, which is at a label, has event e in hand.
At(d, label, e) == pc[d] = label /\ event[d] = e

Counted(e) == effects' = [effects EXCEPT ![e] = @ + 1]

\* The first write of the handlers of a known subscription's events.
FirstWrite ==
  {<<"paid", "activate">>, <<"paymentFailed", "dun">>, <<"cancelled", "cancel">>,
   <<"cancelledUnpaid", "grace">>, <<"updated", "sync">>}

AboutSubscription ==
  {"paid", "paymentFailed", "cancelled", "cancelledUnpaid", "updated"}

-----------------------------------------------------------------------------
(* The pipeline *)

Deliver(d) ==
  /\ pc[d] = "idle"
  /\ \E e \in Events : event' = [event EXCEPT ![d] = e]
  /\ Goto(d, "key")
  /\ UNCHANGED <<books, webhook, key, seen, faults, effects, troubled>>

\* redis.get: an event whose key is set is answered at once.
ReadKey(d, e) ==
  /\ At(d, "key", e)
  /\ \/ e \in key /\ Goto(d, "done") /\ UNCHANGED troubled
     \/ /\ e \notin key
        /\ Goto(d, "store")
        /\ troubled' = IF \E x \in Deliveries \ {d} :
                              event[x] = e /\ pc[x] \notin {"idle", "key", "done", "error"}
                         THEN troubled \cup {e} ELSE troubled
  /\ UNCHANGED <<books, webhook, key, event, seen, faults, effects>>

\* findByEventId compares the event's id with the row's own id and finds
\* nothing, whatever the row's status; the upsert makes it PENDING again.
Store(d, e) ==
  /\ At(d, "store", e)
  /\ webhook' = [webhook EXCEPT ![e] = "PENDING"]
  /\ Goto(d, "handle")
  /\ UNCHANGED <<books, key, progress, faults, effects>>

\* handleTrialWillEnd looks the subscription and its user up and mails: a failure
\* to queue the mail is caught.  Like an event nobody handles it changes nothing.
Notify(d, e) ==
  /\ At(d, "handle", e)
  /\ Kind[e] = "notice" /\ Goto(d, "setKey")
  /\ UNCHANGED <<books, webhook, key, progress, faults, effects>>

\* The switch, and the handler's look-up of the subscription.  An update event
\* of an unknown subscription goes on to update id undefined, which throws.
Dispatch(d, e) ==
  /\ At(d, "handle", e)
  /\ \/ Kind[e] = "featured" /\ Goto(d, "feature") /\ UNCHANGED seen
     \/ Kind[e] = "featuredFailed" /\ Goto(d, "featureFailure") /\ UNCHANGED seen
     \/ /\ Known(e)
        /\ seen' = [seen EXCEPT ![d] = subscription]
        /\ \E label \in Handling : <<Kind[e], label>> \in FirstWrite /\ Goto(d, label)
     \/ /\ Kind[e] \in AboutSubscription /\ ~ Known(e)
        /\ Goto(d, IF Kind[e] = "updated" THEN "failed" ELSE "setKey")
        /\ UNCHANGED seen
  /\ UNCHANGED <<books, webhook, key, event, troubled, faults, effects>>

\* Mutant of SetKey: the key is never set.
SetNoKey(d, e) ==
  /\ At(d, "setKey", e)
  /\ Goto(d, "mark")
  /\ UNCHANGED <<books, webhook, key, progress, faults, effects>>

SetKey(d, e) ==
  /\ At(d, "setKey", e)
  /\ key' = key \cup {e}
  /\ Goto(d, "mark")
  /\ UNCHANGED <<books, webhook, progress, faults, effects>>

MarkProcessed(d, e) ==
  /\ At(d, "mark", e)
  /\ webhook' = [webhook EXCEPT ![e] = "PROCESSED"]
  /\ Goto(d, "done")
  /\ UNCHANGED <<books, key, progress, faults, effects>>

\* The catch block: the error is stored, or lost when that fails too, and the
\* answer is 200 in any case.
MarkFailed(d, e) ==
  /\ At(d, "failed", e)
  /\ \/ webhook' = [webhook EXCEPT ![e] = "FAILED"] /\ UNCHANGED faults
     \/ faults < MaxFaults /\ faults' = faults + 1 /\ UNCHANGED webhook
  /\ troubled' = troubled \cup {e}
  /\ Goto(d, "done")
  /\ UNCHANGED <<books, key, event, seen, effects>>

\* The key lives for 23.5 hours, longer than any handler.
ExpireKey(e) ==
  /\ \A d \in Deliveries : pc[d] \in {"idle", "done", "error"}
  /\ e \in key /\ key' = key \ {e}
  /\ troubled' = troubled \cup {e}
  /\ UNCHANGED <<books, webhook, pc, event, seen, faults, effects>>

\* A call fails, before or after its effect (which is a failure of the next
\* call).  Inside the try the catch block takes over.
Throw(d, e) ==
  /\ event[d] = e /\ pc[d] \in Handling
  /\ faults < MaxFaults /\ faults' = faults + 1
  /\ Goto(d, "failed")
  /\ UNCHANGED <<books, webhook, key, progress, effects>>

\* The process dies, or a call before the try fails: no 2xx for Stripe.
Die(d, e) ==
  /\ event[d] = e /\ pc[d] \notin {"idle", "done", "error"}
  /\ faults < MaxFaults /\ faults' = faults + 1
  /\ troubled' = troubled \cup {e}
  /\ Goto(d, "error")
  /\ UNCHANGED <<books, webhook, key, event, seen, effects>>

-----------------------------------------------------------------------------
(* invoice.paid *)

Activate(d, e) ==
  /\ At(d, "activate", e)
  /\ subscription' = [status |-> "ACTIVE", stripe |-> subscription.stripe,
                      dunning |-> 0, cycle |-> CycleOf[e], grace |-> FALSE]
  /\ Counted(e)
  /\ Goto(d, "package")
  /\ UNCHANGED <<packages, usage, payments, failures, featured, listing, jobs,
                 webhook, key, progress, faults>>

\* Mutant of CreatePackage: the record is that of the cycle the handler has read.
CreatePackageOfSeen(d, e) ==
  /\ At(d, "package", e)
  /\ Goto(d, "pay")
  /\ packages' = packages \cup {seen[d].cycle}
  /\ UNCHANGED <<subscription, usage, payments, failures, featured, listing,
                 jobs, webhook, key, progress, faults, effects>>

\* Mutant of CreatePackage: a record that is there already counts as success.
CreatePackageOrSkip(d, e) ==
  /\ At(d, "package", e)
  /\ Goto(d, IF CycleOf[e] \in packages THEN "setKey" ELSE "pay")
  /\ packages' = packages \cup {CycleOf[e]}
  /\ UNCHANGED <<subscription, usage, payments, failures, featured, listing,
                 jobs, webhook, key, progress, faults, effects>>

\* A second package record of a cycle violates the unique index and throws.
CreatePackage(d, e) ==
  /\ At(d, "package", e)
  /\ \/ CycleOf[e] \notin packages /\ Goto(d, "pay")
     \/ CycleOf[e] \in packages /\ Goto(d, "failed")
  /\ packages' = packages \cup {CycleOf[e]}
  /\ UNCHANGED <<subscription, usage, payments, failures, featured, listing,
                 jobs, webhook, key, progress, faults, effects>>

\* Listings come back when the subscription was past due as it was read.
RecordPayment(d, e) ==
  /\ At(d, "pay", e)
  /\ \/ e \in payments /\ Goto(d, "failed")
     \/ /\ e \notin payments
        /\ Goto(d, IF seen[d].status = "PAST_DUE" THEN "reactivate" ELSE "setKey")
  /\ payments' = payments \cup {e}
  /\ UNCHANGED <<subscription, packages, usage, failures, featured, listing,
                 jobs, webhook, key, progress, faults, effects>>

Reactivate(d, e) ==
  /\ At(d, "reactivate", e)
  /\ listing' = [p \in Properties |->
                   IF listing[p] = "INACTIVE" THEN "ACTIVE" ELSE listing[p]]
  /\ Goto(d, "setKey")
  /\ UNCHANGED <<subscription, packages, usage, payments, failures, featured,
                 jobs, webhook, key, progress, faults, effects>>

-----------------------------------------------------------------------------
(* invoice.payment_failed, customer.subscription.updated and .deleted *)

\* The counter is the one that was read, plus one.
Dun(d, e) ==
  /\ At(d, "dun", e)
  /\ subscription' = [status |-> "PAST_DUE", stripe |-> subscription.stripe,
                      dunning |-> seen[d].dunning + 1,
                      cycle |-> subscription.cycle, grace |-> subscription.grace]
  /\ Counted(e)
  /\ Goto(d, "recordFailure")
  /\ UNCHANGED <<packages, usage, payments, failures, featured, listing, jobs,
                 webhook, key, progress, faults>>

RecordFailure(d, e) ==
  /\ At(d, "recordFailure", e)
  /\ failures' = [failures EXCEPT ![e] = @ + 1]
  /\ Goto(d, "setKey")
  /\ UNCHANGED <<subscription, packages, usage, payments, featured, listing,
                 jobs, webhook, key, progress, faults, effects>>

Sync(d, e) ==
  /\ At(d, "sync", e)
  /\ subscription' = [subscription EXCEPT !.status =
                        IF NewStatus[e] # Unset THEN NewStatus[e] ELSE seen[d].status]
  /\ Counted(e)
  /\ Goto(d, "setKey")
  /\ UNCHANGED <<packages, usage, payments, failures, featured, listing, jobs,
                 webhook, key, progress, faults>>

\* Cancelled by Stripe because nobody paid: a week of grace.
StartGrace(d, e) ==
  /\ At(d, "grace", e)
  /\ subscription' = [status |-> "CANCELLED", stripe |-> subscription.stripe,
                      dunning |-> subscription.dunning,
                      cycle |-> subscription.cycle, grace |-> TRUE]
  /\ Counted(e)
  /\ Goto(d, "graceJob")
  /\ UNCHANGED <<packages, usage, payments, failures, featured, listing, jobs,
                 webhook, key, progress, faults>>

\* A failure to queue the job is caught.
AddGraceJob(d, e) ==
  /\ At(d, "graceJob", e)
  /\ \/ jobs' = [jobs EXCEPT !["gracePeriodExpired"] = @ + 1] /\ UNCHANGED faults
     \/ faults < MaxFaults /\ faults' = faults + 1 /\ UNCHANGED jobs
  /\ Goto(d, "cancel")
  /\ UNCHANGED <<subscription, packages, usage, payments, failures, featured,
                 listing, webhook, key, progress, effects>>

Cancel(d, e) ==
  /\ At(d, "cancel", e)
  /\ subscription' = [subscription EXCEPT !.status = "CANCELLED"]
  /\ IF Kind[e] = "cancelled" THEN Counted(e) ELSE UNCHANGED effects
  /\ Goto(d, "setKey")
  /\ UNCHANGED <<packages, usage, payments, failures, featured, listing, jobs,
                 webhook, key, progress, faults>>

-----------------------------------------------------------------------------
(* payment_intent.succeeded and .payment_failed *)

\* Mutant of Feature: the payment is not looked at again.
FeatureAgain(d, e) ==
  /\ At(d, "feature", e)
  /\ featured' = [featured EXCEPT ![e] = @ + 1]
  /\ payments' = payments \cup {e}
  /\ usage' = IF subscription.status # "NONE"
              THEN [usage EXCEPT ![subscription.cycle] = @ + 1] ELSE usage
  /\ Counted(e) /\ Goto(d, "expiryJob")
  /\ UNCHANGED <<subscription, packages, failures, listing, jobs, webhook, key,
                 progress, faults>>

\* Mutant of Feature: the counter is updated outside the transaction.
FeatureUncounted(d, e) ==
  /\ At(d, "feature", e)
  /\ \/ e \in payments /\ Goto(d, "failed") /\ UNCHANGED <<featured, payments, effects>>
     \/ /\ e \notin payments
        /\ featured' = [featured EXCEPT ![e] = @ + 1]
        /\ payments' = payments \cup {e}
        /\ Counted(e) /\ Goto(d, "expiryJob")
  /\ usage' = IF subscription.status # "NONE"
              THEN [usage EXCEPT ![subscription.cycle] = @ + 1] ELSE usage
  /\ UNCHANGED <<subscription, packages, failures, listing, jobs, webhook, key,
                 progress, faults>>

\* One transaction: the featured listing, its payment (whose id is unique) and
\* the package record's counter, or nothing.
Feature(d, e) ==
  /\ At(d, "feature", e)
  /\ \/ /\ e \in payments \/ (subscription.status # "NONE" /\ subscription.cycle \notin packages)
        /\ Goto(d, "failed")
        /\ UNCHANGED <<featured, payments, usage, effects>>
     \/ /\ e \notin payments
        /\ subscription.status # "NONE" => subscription.cycle \in packages
        /\ featured' = [featured EXCEPT ![e] = @ + 1]
        /\ payments' = payments \cup {e}
        /\ usage' = IF subscription.status # "NONE"
                    THEN [usage EXCEPT ![subscription.cycle] = @ + 1] ELSE usage
        /\ Counted(e) /\ Goto(d, "expiryJob")
  /\ UNCHANGED <<subscription, packages, failures, listing, jobs, webhook, key,
                 progress, faults>>

\* The job of the listing's end; a failure to queue it, or to save its id, is
\* caught.  What is read after it is only for the mail.
AddExpiryJob(d, e) ==
  /\ At(d, "expiryJob", e)
  /\ \/ jobs' = [jobs EXCEPT !["featuredListingExpired"] = @ + 1] /\ UNCHANGED faults
     \/ faults < MaxFaults /\ faults' = faults + 1 /\ UNCHANGED jobs
  /\ Goto(d, "setKey")
  /\ UNCHANGED <<subscription, packages, usage, payments, failures, featured,
                 listing, webhook, key, progress, effects>>

\* A failed payment has no payment id: nothing makes it unique.
RecordFeaturedFailure(d, e) ==
  /\ At(d, "featureFailure", e)
  /\ failures' = [failures EXCEPT ![e] = @ + 1]
  /\ Counted(e)
  /\ Goto(d, "setKey")
  /\ UNCHANGED <<subscription, packages, usage, payments, featured, listing,
                 jobs, webhook, key, progress, faults>>

-----------------------------------------------------------------------------
(* The subscription queue *)

\* The grace period's job stops at "if (userId) return", which holds, and the
\* other one for want of a featuredListingId, which its data does not have: no
\* listing is deactivated, and none stops being featured.
RunJob(n) ==
  /\ jobs[n] > 0
  /\ jobs' = [jobs EXCEPT ![n] = @ - 1]
  /\ UNCHANGED <<subscription, packages, usage, payments, failures, featured,
                 listing, webhook, key, pc, progress, faults, effects>>

-----------------------------------------------------------------------------

\* The agent has no subscription, or is on trial with the trial's package.
Init ==
  /\ \E s \in StripeSubs, status \in {"TRIAL", "NONE"} :
       /\ subscription = [status |-> status, stripe |-> s, dunning |-> 0,
                          cycle |-> TrialCycle, grace |-> FALSE]
       /\ packages = IF status = "TRIAL" THEN {TrialCycle} ELSE {}
  /\ usage = [c \in Cycles |-> 0]
  /\ payments = {}
  /\ failures = [e \in Events |-> 0]
  /\ featured = [e \in Events |-> 0]
  /\ listing \in [Properties -> {"ACTIVE", "INACTIVE"}]
  /\ jobs = [n \in JobNames |-> 0]
  /\ webhook = [e \in Events |-> "none"]
  /\ key = {}
  /\ pc = [d \in Deliveries |-> "idle"]
  /\ event = [d \in Deliveries |-> Unset]
  /\ seen = [d \in Deliveries |-> subscription]
  /\ faults = 0
  /\ effects = [e \in Events |-> 0]
  /\ troubled = {}

Handle(d, e) ==
  \/ Activate(d, e) \/ CreatePackage(d, e) \/ RecordPayment(d, e) \/ Reactivate(d, e)
  \/ Dun(d, e) \/ RecordFailure(d, e) \/ Sync(d, e)
  \/ StartGrace(d, e) \/ AddGraceJob(d, e) \/ Cancel(d, e)
  \/ Feature(d, e) \/ AddExpiryJob(d, e) \/ RecordFeaturedFailure(d, e)

Process(d, e) ==
  \/ ReadKey(d, e) \/ Store(d, e) \/ Notify(d, e) \/ Dispatch(d, e) \/ Handle(d, e)
  \/ SetKey(d, e) \/ MarkProcessed(d, e) \/ MarkFailed(d, e)

Next ==
  \/ \E d \in Deliveries :
        \/ Deliver(d)
        \/ \E e \in Events : Process(d, e) \/ Throw(d, e) \/ Die(d, e)
  \/ \E e \in Events : ExpireKey(e)
  \/ \E n \in JobNames : RunJob(n)

Spec == Init /\ [][Next]_vars

-----------------------------------------------------------------------------
(* Safety *)

FeaturedEvents == {e \in Events : Kind[e] = "featured"}

(***************************************************************************)
(* handleFeaturedListingPayment: a payment intent buys one featured        *)
(* listing and is booked once, however often and however concurrently its  *)
(* event is handled.  The event's own idempotency does not give this; the  *)
(* unique payment id inside the transaction does.                          *)
(***************************************************************************)
FeaturedOnce ==
  \A e \in FeaturedEvents : featured[e] = IF e \in payments THEN 1 ELSE 0

\* The package records of an agent's cycles together count every featured
\* listing once: the counter and the listing commit or roll back together.
UsageIsFeatured ==
  subscription.status # "NONE" =>
     FoldFunction(+, 0, usage) = Cardinality(payments \cap FeaturedEvents)

(***************************************************************************)
(* handleInvoicePaid moves the subscription to its new cycle before it     *)
(* creates that cycle's package record, on which createProperty and the    *)
(* featured payments count.  While nothing fails the record is there, or   *)
(* about to be created, through every interleaving of invoices.            *)
(***************************************************************************)
CycleHasPackage ==
  subscription.status # "NONE" =>
     \/ faults > 0
     \/ subscription.cycle \in packages
     \/ \E d \in Deliveries : pc[d] = "package" /\ CycleOf[event[d]] = subscription.cycle

(***************************************************************************)
(* handleWebhook: an event that counts as processed, by its key or by its  *)
(* stored status, has been booked: no crash, error or duplicate makes the  *)
(* pipeline skip an invoice it has not recorded.                           *)
(***************************************************************************)
ProcessedIsBooked ==
  \A e \in Events :
     /\ e \in key \/ webhook[e] = "PROCESSED"
     /\ Kind[e] = "paid" /\ Known(e)
     => e \in payments

(***************************************************************************)
(* handleWebhook: deliveries of one event that do not overlap, of which    *)
(* none fails and which come before its key expires change the books once, *)
(* however many there are.                                                 *)
(***************************************************************************)
AppliedAgainOnlyAfterTrouble ==
  \A e \in Events : effects[e] > 1 => e \in troubled

=============================================================================
