-------------------------------- MODULE Billing --------------------------------
(***************************************************************************)
(* One agent's billing: the Stripe customer and its cards, the Stripe      *)
(* subscriptions, and the Subscription row that follows them through the   *)
(* requests of SubscriptionService, the nightly reconciliation and the     *)
(* events of Stripe.                                                       *)
(*                                                                         *)
(* A request (or a run of the reconciliation) is a process and an action   *)
(* is one awaited call.  Every operation writes to Stripe first and to the *)
(* row afterwards, with no transaction around the two.  Of a webhook only  *)
(* what it does to the row's status is here: its handler finds the row by  *)
(* the Stripe id in one call and writes it by the row's own id in another. *)
(* Its pipeline is the module Webhooks.  Prices, dates, e-mails and the    *)
(* trial's package record are left out, and of the listings that a         *)
(* downgrade trims only the time it takes.  So are the jobs                *)
(* trialEndingReminder and gracePeriodExpired, which return at once: the   *)
(* one is queued without a subscriptionId, the other with a userId.        *)
(***************************************************************************)
EXTENDS Naturals, FiniteSets

CONSTANTS
  Requests,   \* also the names of the customers and subscriptions they create
  Cards,
  MayAsk,     \* [Requests -> SUBSET Ops]: bounds what a request may be
  Unset,
  MaxEvents,  \* bound on the changes Stripe makes and reports
  MaxFaults   \* bound on failed calls and dead processes

Ops == {"setup", "addCard", "setDefault", "deleteCard", "confirm", "resubscribe",
        "cancelNow", "cancelLater", "resume", "changePlan", "reconcile"}

Plans == {"BASIC", "PREMIUM"}

ASSUME BillingAssumption ==
  /\ MayAsk \in [Requests -> SUBSET Ops]
  /\ Unset \notin Requests /\ Unset \notin Cards
  /\ MaxEvents \in Nat /\ MaxFaults \in Nat

VARIABLES
  user,        \* user.stripeCustomerId
  customers,   \* the customers Stripe has
  owner,       \* the customer each card is attached to
  default,     \* each customer's default card
  subs,        \* the subscriptions Stripe has
  keys,        \* idempotency keys of subscriptions.create, with their answers
  row,         \* the Subscription row
  events,      \* events of Stripe on their way
  changes,     \* the number of changes Stripe has made
  handlers,    \* handlers that have found the row and not written it yet
  latest,      \* the last change of each subscription that was handled or lost
  pc, task, faults,
  crossed,     \* history: a card was detached after the default had changed
  stray,       \* history: live subscriptions the row lost or never got
  misled,      \* history: subscriptions whose row was last written from old news
  drifted      \* history: what two overlapping changes, or half a change, left

stripeVars  == <<customers, owner, default, subs, keys, events, changes>>
rowVars     == <<user, row, handlers, latest>>
histVars    == <<crossed, stray, misled, drifted>>
vars == <<stripeVars, rowVars, pc, task, faults, histVars>>

-----------------------------------------------------------------------------
(* Values *)

Status == {"ACTIVE", "TRIAL", "PAST_DUE", "CANCELLED", "INCOMPLETE"}

\* The states of a subscription in Stripe, by the names of the row's; the row has
\* none for a first payment that never came.
StripeStatus == Status \cup {"INCOMPLETE_EXPIRED"}

Sub == [state : StripeStatus \cup {"none"}, plan : Plans, atEnd : BOOLEAN]

\* Two states are final.
Live(s) == subs[s].state \notin {"none", "CANCELLED", "INCOMPLETE_EXPIRED"}

Row == [status : Status \cup {"NONE"}, stripe : Requests \cup {Unset}, plan : Plans,
        cancelRequested : BOOLEAN]

\* unpaid: Stripe ends the subscription for want of payment.
Event == [sub : Requests, status : StripeStatus, number : 1 .. MaxEvents,
          unpaid : BOOLEAN]

\* A handler has its event, and the status it is going to write.
Handler == [sub : Requests, status : StripeStatus, number : 1 .. MaxEvents,
            unpaid : BOOLEAN, writes : Status]

Labels == {"idle", "customer", "saveCustomer", "attach", "default", "detach",
           "subscribe", "create", "update", "stripe", "rowCancelled", "rowFlag",
           "downgrade", "rowPlan", "retrieve", "sync", "done"}

\* What a process was asked and has read: the customer, a card, the
\* subscription, the plan it had and the plan wanted, the status read (later
\* the one Stripe gave), and the news of the subscription there were by then.
Task == [op : Ops \cup {"none"}, customer : Requests \cup {Unset},
         card : Cards \cup {Unset}, seenDefault : Cards \cup {Unset},
         sub : Requests \cup {Unset}, old : Plans, plan : Plans,
         status : Status \cup {"NONE"}, heard : 0 .. MaxEvents]

NoTask == [op |-> "none", customer |-> Unset, card |-> Unset, seenDefault |-> Unset,
           sub |-> Unset, old |-> "BASIC", plan |-> "BASIC", status |-> "NONE",
           heard |-> 0]

TypeOK ==
  /\ user \in customers \cup {Unset} /\ customers \subseteq Requests
  /\ owner \in [Cards -> Requests \cup {Unset}]
  /\ default \in [Requests -> Cards \cup {Unset}]
  /\ subs \in [Requests -> Sub]
  /\ keys \subseteq {"confirm", "resubscribe"} \X Plans \X Requests
  /\ row \in Row
  /\ events \subseteq Event /\ handlers \subseteq Handler
  /\ changes \in 0 .. MaxEvents
  /\ latest \in [Requests -> 0 .. MaxEvents]
  /\ pc \in [Requests -> Labels] /\ task \in [Requests -> Task]
  /\ faults \in 0 .. MaxFaults
  /\ crossed \in BOOLEAN
  /\ stray \subseteq Requests /\ misled \subseteq Requests
  /\ drifted \subseteq {"plan", "cancel"}

-----------------------------------------------------------------------------
(* Operators *)

GoTo(r, l) == pc' = [pc EXCEPT ![r] = l]

Finish(r) ==
  /\ pc' = [pc EXCEPT ![r] = "done"]
  /\ task' = [task EXCEPT ![r] = NoTask]

May(r, op) == pc[r] = "idle" /\ op \in MayAsk[r]

\* A subscription's change, and the event that reports it.
Change(s, sub, unpaid) ==
  /\ changes < MaxEvents /\ changes' = changes + 1
  /\ subs' = [subs EXCEPT ![s] = sub]
  /\ events' = events \cup {[sub |-> s, status |-> sub.state, number |-> changes + 1,
                              unpaid |-> unpaid]}

\* The events that have not been written to the row yet.
Pending == events \cup handlers

\* e is handled or lost: whatever is older will be old news.
Hears(e) == latest' = [latest EXCEPT ![e.sub] = IF e.number > @ THEN e.number ELSE @]

\* r has changed x in Stripe and not yet in the row.
Halfway(r, x) ==
  \/ x = "plan" /\ pc[r] \in {"downgrade", "rowPlan"}
  \/ x = "cancel" /\ pc[r] = "rowFlag"

Others(r, x) == \E q \in Requests \ {r} : Halfway(q, x)

\* A change of x ends, with others under way or on another subscription by now.
Settles(r, x) ==
  drifted' = IF Others(r, x) \/ row.stripe # task[r].sub
             THEN drifted \cup {x} ELSE drifted

\* What an operation on the row reads when it begins.
Reads(r, op, p) ==
  task' = [task EXCEPT ![r] = [NoTask EXCEPT
             !.op = op, !.sub = row.stripe, !.old = row.plan, !.plan = p,
             !.status = row.status]]

-----------------------------------------------------------------------------
(* The customer: setupIntent and initiatePaymentMethod *)

\* Mutant of AskSetup: the id is stored before Stripe has made the customer.
MutAskSetup(r) ==
  /\ \/ May(r, "setup") /\ row.status \notin {"ACTIVE", "TRIAL"}
     \/ May(r, "addCard")
  /\ user = Unset
  /\ GoTo(r, "saveCustomer")
  /\ UNCHANGED <<stripeVars, rowVars, task, faults, histVars>>

\* setupIntent refuses who has a subscription, initiatePaymentMethod does not.
AskSetup(r) ==
  /\ \/ May(r, "setup") /\ row.status \notin {"ACTIVE", "TRIAL"}
     \/ May(r, "addCard")
  /\ user = Unset
  /\ GoTo(r, "customer")
  /\ UNCHANGED <<stripeVars, rowVars, task, faults, histVars>>

CreateCustomer(r) ==
  /\ pc[r] = "customer"
  /\ customers' = customers \cup {r}
  /\ GoTo(r, "saveCustomer")
  /\ UNCHANGED <<owner, default, subs, keys, events, changes, rowVars, task, faults,
                 histVars>>

SaveCustomer(r) ==
  /\ pc[r] = "saveCustomer"
  /\ user' = r
  /\ GoTo(r, "done")
  /\ UNCHANGED <<stripeVars, row, handlers, latest, task, faults, histVars>>

\* The client completes a setup intent: Stripe attaches the card.
CompleteSetup(k, c) ==
  /\ k \in customers /\ k = user /\ owner[c] = Unset
  /\ owner' = [owner EXCEPT ![c] = k]
  /\ UNCHANGED <<customers, default, subs, keys, events, changes, rowVars, pc, task,
                 faults, histVars>>

-----------------------------------------------------------------------------
(* Cards: confirmAddPaymentMethod, setDefaultPaymentMethod, deletePaymentMethod *)

\* A card with the fingerprint of an attached one is only made the default.
AskAddCard(r) ==
  /\ May(r, "addCard") /\ user # Unset
  /\ \E c \in Cards :
       /\ owner[c] \in {Unset, user}
       /\ task' = [task EXCEPT ![r].customer = user, ![r].card = c]
       /\ GoTo(r, IF owner[c] = user THEN "default" ELSE "attach")
  /\ UNCHANGED <<stripeVars, rowVars, faults, histVars>>

\* A card that is attached elsewhere by now is refused.
Attach(r) ==
  LET c == task[r].card
  IN  /\ pc[r] = "attach"
      /\ IF owner[c] \in {Unset, task[r].customer}
           THEN /\ owner' = [owner EXCEPT ![c] = task[r].customer]
                /\ GoTo(r, "default")
                /\ UNCHANGED task
           ELSE Finish(r) /\ UNCHANGED owner
      /\ UNCHANGED <<customers, default, subs, keys, events, changes, rowVars,
                     faults, histVars>>

AskDefault(r) ==
  /\ May(r, "setDefault") /\ user # Unset
  /\ \E c \in Cards :
       /\ owner[c] = user
       /\ task' = [task EXCEPT ![r].customer = user, ![r].card = c]
  /\ GoTo(r, "default")
  /\ UNCHANGED <<stripeVars, rowVars, faults, histVars>>

\* Stripe refuses a default that is not attached to the customer.
SetDefault(r) ==
  LET k == task[r].customer
  IN  /\ pc[r] = "default"
      /\ default' = [default EXCEPT ![k] =
                       IF owner[task[r].card] = k THEN task[r].card ELSE @]
      /\ IF task[r].op = "confirm" /\ owner[task[r].card] = k
           THEN GoTo(r, "subscribe") /\ UNCHANGED task
           ELSE Finish(r)
      /\ UNCHANGED <<customers, owner, subs, keys, events, changes, rowVars, faults,
                     histVars>>

\* Mutant of AskDeleteCard: the default card may be deleted.
MutAskDeleteCard(r) ==
  /\ May(r, "deleteCard") /\ user # Unset
  /\ \E c \in Cards :
       /\ owner[c] = user
       /\ task' = [task EXCEPT ![r].customer = user, ![r].card = c,
                               ![r].seenDefault = default[user]]
  /\ GoTo(r, "detach")
  /\ UNCHANGED <<stripeVars, rowVars, faults, histVars>>

\* The card must be the customer's and not the default one.
AskDeleteCard(r) ==
  /\ May(r, "deleteCard") /\ user # Unset
  /\ \E c \in Cards :
       /\ owner[c] = user /\ default[user] # c
       /\ task' = [task EXCEPT ![r].customer = user, ![r].card = c,
                               ![r].seenDefault = default[user]]
  /\ GoTo(r, "detach")
  /\ UNCHANGED <<stripeVars, rowVars, faults, histVars>>

\* Stripe clears a default that is detached.
Detach(r) ==
  LET c == task[r].card
      k == task[r].customer
  IN  /\ pc[r] = "detach"
      /\ owner' = [owner EXCEPT ![c] = Unset]
      /\ default' = [default EXCEPT ![k] = IF @ = c THEN Unset ELSE @]
      /\ crossed' = (crossed \/ default[k] # task[r].seenDefault)
      /\ Finish(r)
      /\ UNCHANGED <<customers, subs, keys, events, changes, rowVars, faults,
                     stray, misled, drifted>>

-----------------------------------------------------------------------------
(* A subscription begins: confirmSubscription and resubscribe *)

\* The set-up intent of card c succeeded, and the row does not exist.
AskConfirm(r) ==
  /\ May(r, "confirm") /\ user # Unset /\ row.status = "NONE"
  /\ \E c \in Cards, p \in Plans :
       /\ owner[c] = user
       /\ task' = [task EXCEPT ![r] = [NoTask EXCEPT
                     !.op = "confirm", !.customer = user, !.card = c, !.plan = p]]
  /\ GoTo(r, "default")
  /\ UNCHANGED <<stripeVars, rowVars, faults, histVars>>

\* A row that is neither ACTIVE nor TRIAL, whatever its subscription is.
AskResubscribe(r) ==
  /\ May(r, "resubscribe") /\ user # Unset
  /\ row.status \notin {"NONE", "ACTIVE", "TRIAL"}
  /\ default[user] # Unset
  /\ \E p \in Plans :
       task' = [task EXCEPT ![r] = [NoTask EXCEPT
                  !.op = "resubscribe", !.customer = user, !.plan = p]]
  /\ GoTo(r, "subscribe")
  /\ UNCHANGED <<stripeVars, rowVars, faults, histVars>>

\* Stripe keeps one answer per idempotency key, for a day: it may forget the key
\* of a request that is long done.  A call with a key it knows and other
\* parameters (the trial's end, the card, the duration) is refused.
Subscribe(r) ==
  LET kind  == task[r].op
      known == {k \in keys : k[1] = kind /\ k[2] = task[r].plan}
      next  == IF kind = "confirm" THEN "create" ELSE "update"
  IN  /\ pc[r] = "subscribe"
      /\ \/ /\ \A k \in known : pc[k[3]] = "done"
            /\ keys' = (keys \ known) \cup {<<kind, task[r].plan, r>>}
            /\ subs' = [subs EXCEPT ![r] =
                 [state  |-> IF kind = "confirm" THEN "TRIAL" ELSE "INCOMPLETE",
                  plan |-> task[r].plan, atEnd |-> FALSE]]
            /\ task' = [task EXCEPT ![r].sub = r]
            /\ GoTo(r, next)
         \/ /\ \E k \in known : task' = [task EXCEPT ![r].sub = k[3]]
            /\ GoTo(r, next)
            /\ UNCHANGED <<keys, subs>>
         \/ /\ known # {}
            /\ Finish(r)
            /\ UNCHANGED <<keys, subs>>
      /\ UNCHANGED <<customers, owner, default, events, changes, rowVars, faults,
                     histVars>>

\* The row's userId is unique: the second creation throws.
CreateRow(r) ==
  LET s == task[r].sub
  IN  /\ pc[r] = "create"
      /\ IF row.status = "NONE"
           THEN /\ row' = [status |-> "TRIAL", stripe |-> s, plan |-> task[r].plan,
                           cancelRequested |-> FALSE]
                /\ misled' = IF latest[s] > 0 THEN misled \cup {s} ELSE misled
                /\ stray' = stray \ {s}
           ELSE /\ stray' = stray \cup ({s} \ {row.stripe})
                /\ UNCHANGED <<row, misled>>
      /\ Finish(r)
      /\ UNCHANGED <<stripeVars, user, handlers, latest, faults, crossed, drifted>>

\* Mutant of UpdateRow: the row keeps the id of the old subscription.
MutUpdateRow(r) ==
  LET s == task[r].sub
  IN  /\ pc[r] = "update"
      /\ row' = [row EXCEPT !.status = "INCOMPLETE", !.plan = task[r].plan]
      /\ drifted' = drifted \cup {x \in {"plan"} : subs[s].plan # task[r].plan}
      /\ Finish(r)
      /\ UNCHANGED <<stripeVars, user, handlers, latest, faults, crossed, stray, misled>>

\* The row is given the new subscription; the old one is left as it is, and so
\* is cancelRequested.
UpdateRow(r) ==
  LET s == task[r].sub
  IN  /\ pc[r] = "update"
      /\ row' = [row EXCEPT !.status = "INCOMPLETE", !.stripe = s,
                            !.plan = task[r].plan]
      /\ stray' = (stray \cup {row.stripe}) \ {s}
      /\ drifted' = drifted
           \cup {x \in {"cancel"} : row.cancelRequested # subs[s].atEnd}
           \cup {x \in {"plan"} : subs[s].plan # task[r].plan}
      /\ misled' = IF latest[s] > 0 THEN misled \cup {s} ELSE misled
      /\ Finish(r)
      /\ UNCHANGED <<stripeVars, user, handlers, latest, faults, crossed>>

-----------------------------------------------------------------------------
(* A subscription changes: cancelSubscription, resumeSubscription, changePlan *)

\* Who asks to cancel at the end of the period may have asked before.
AskCancel(r) ==
  /\ row.status \notin {"NONE", "CANCELLED"}
  /\ \E op \in {"cancelNow", "cancelLater"} : May(r, op) /\ Reads(r, op, row.plan)
  /\ GoTo(r, "stripe")
  /\ UNCHANGED <<stripeVars, rowVars, faults, histVars>>

\* Whatever the row's status is.
AskResume(r) ==
  /\ May(r, "resume") /\ row.cancelRequested
  /\ Reads(r, "resume", row.plan)
  /\ GoTo(r, "stripe")
  /\ UNCHANGED <<stripeVars, rowVars, faults, histVars>>

AskChangePlan(r) ==
  /\ May(r, "changePlan") /\ row.status # "NONE"
  /\ \E p \in Plans \ {row.plan} : Reads(r, "changePlan", p)
  /\ GoTo(r, "stripe")
  /\ UNCHANGED <<stripeVars, rowVars, faults, histVars>>

\* Stripe refuses every change of a subscription it has cancelled.
Refused(r) ==
  /\ pc[r] = "stripe" /\ ~Live(task[r].sub)
  /\ Finish(r)
  /\ UNCHANGED <<stripeVars, rowVars, faults, histVars>>

StripeCancels(r) ==
  LET s == task[r].sub
  IN  /\ pc[r] = "stripe" /\ task[r].op = "cancelNow" /\ Live(s)
      /\ Change(s, [subs[s] EXCEPT !.state = "CANCELLED"], FALSE)
      /\ GoTo(r, "rowCancelled")
      /\ UNCHANGED <<customers, owner, default, keys, rowVars, task, faults, histVars>>

\* The listings it deactivates next are in the module Marketplace.
CancelRow(r) ==
  /\ pc[r] = "rowCancelled"
  /\ row' = [row EXCEPT !.status = "CANCELLED"]
  /\ misled' = misled \cup ({row.stripe} \ {task[r].sub})
  /\ Finish(r)
  /\ UNCHANGED <<stripeVars, user, handlers, latest, faults, crossed, stray, drifted>>

StripeFlags(r) ==
  LET s == task[r].sub
  IN  /\ pc[r] = "stripe" /\ task[r].op \in {"cancelLater", "resume"} /\ Live(s)
      /\ subs' = [subs EXCEPT ![s].atEnd = task[r].op = "cancelLater"]
      /\ GoTo(r, "rowFlag")
      /\ UNCHANGED <<customers, owner, default, keys, events, changes, rowVars, task,
                     faults, histVars>>

\* Mutant of FlagRow: a resumption leaves the wish to end on the row.
MutFlagRow(r) ==
  /\ pc[r] = "rowFlag"
  /\ row' = [row EXCEPT !.cancelRequested = TRUE]
  /\ Settles(r, "cancel")
  /\ Finish(r)
  /\ UNCHANGED <<stripeVars, user, handlers, latest, faults, crossed, stray, misled>>

FlagRow(r) ==
  /\ pc[r] = "rowFlag"
  /\ row' = [row EXCEPT !.cancelRequested = task[r].op = "cancelLater"]
  /\ Settles(r, "cancel")
  /\ Finish(r)
  /\ UNCHANGED <<stripeVars, user, handlers, latest, faults, crossed, stray, misled>>

\* handleDowngrade comes before the row is written.
StripeChangesPlan(r) ==
  LET t == task[r]
  IN  /\ pc[r] = "stripe" /\ t.op = "changePlan" /\ Live(t.sub)
      /\ subs' = [subs EXCEPT ![t.sub].plan = t.plan]
      /\ GoTo(r, IF t.old = "PREMIUM" /\ t.plan = "BASIC" THEN "downgrade"
                                                         ELSE "rowPlan")
      /\ UNCHANGED <<customers, owner, default, keys, events, changes, rowVars, task,
                     faults, histVars>>

HandleDowngrade(r) ==
  /\ pc[r] = "downgrade"
  /\ GoTo(r, "rowPlan")
  /\ UNCHANGED <<stripeVars, rowVars, task, faults, histVars>>

ChangeRowPlan(r) ==
  /\ pc[r] = "rowPlan"
  /\ row' = [row EXCEPT !.plan = task[r].plan]
  /\ Settles(r, "plan")
  /\ Finish(r)
  /\ UNCHANGED <<stripeVars, user, handlers, latest, faults, crossed, stray, misled>>

-----------------------------------------------------------------------------
(* The nightly reconciliation *)

AskReconcile(r) ==
  /\ May(r, "reconcile") /\ row.status \in {"ACTIVE", "TRIAL"}
  /\ Reads(r, "reconcile", row.plan)
  /\ GoTo(r, "retrieve")
  /\ UNCHANGED <<stripeVars, rowVars, faults, histVars>>

\* The table of states has "cancelled" where Stripe says "canceled": of a
\* cancelled subscription it keeps the status it read.
Retrieve(r) ==
  LET s == task[r].sub
      stripeStatus == IF Live(s) THEN subs[s].state ELSE task[r].status
  IN  /\ pc[r] = "retrieve"
      /\ IF stripeStatus = task[r].status
           THEN Finish(r)
           ELSE /\ task' = [task EXCEPT ![r].status = stripeStatus,
                                        ![r].heard = latest[s]]
                /\ GoTo(r, "sync")
      /\ UNCHANGED <<stripeVars, rowVars, faults, histVars>>

\* By the row's id, whatever it says by now.
Sync(r) ==
  LET s == task[r].sub
  IN  /\ pc[r] = "sync"
      /\ row' = [row EXCEPT !.status = task[r].status]
      /\ misled' = IF row.stripe # s \/ latest[s] > task[r].heard
                   THEN misled \cup {row.stripe} ELSE misled \ {s}
      /\ Finish(r)
      /\ UNCHANGED <<stripeVars, user, handlers, latest, faults, crossed, stray, drifted>>

-----------------------------------------------------------------------------
(* Stripe's own changes, their events, and failures *)

Moves(sub) ==
  CASE sub.state = "TRIAL"      -> {"ACTIVE", "CANCELLED"}
    [] sub.state = "ACTIVE"     -> {"PAST_DUE"}
                                   \cup (IF sub.atEnd THEN {"CANCELLED"} ELSE {})
    [] sub.state = "PAST_DUE"   -> {"ACTIVE", "CANCELLED"}
    [] sub.state = "INCOMPLETE" -> {"ACTIVE", "INCOMPLETE_EXPIRED"}
    [] OTHER                    -> {}

StripeMoves(s) ==
  /\ \E to \in Moves(subs[s]) :
       Change(s, [subs[s] EXCEPT !.state = to],
              subs[s].state = "PAST_DUE" /\ to = "CANCELLED")
  /\ UNCHANGED <<customers, owner, default, keys, rowVars, pc, task, faults, histVars>>

\* Mutant of FindRow: only a row that the reconciliation looks at is found.
MutFindRow(e) ==
  /\ e \in events
  /\ events' = events \ {e}
  /\ IF row.stripe = e.sub /\ row.status \in {"ACTIVE", "TRIAL"}
       THEN /\ handlers' = handlers \cup
                 {[sub |-> e.sub, status |-> e.status, number |-> e.number,
                   unpaid |-> e.unpaid,
                   writes |-> IF e.status = "INCOMPLETE_EXPIRED" THEN row.status
                                                                 ELSE e.status]}
            /\ UNCHANGED latest
       ELSE Hears(e) /\ UNCHANGED handlers
  /\ UNCHANGED <<customers, owner, default, subs, keys, changes, user, row, pc, task,
                 faults, histVars>>

\* handleSubscriptionUpdated, handleStripeDeleted, handleInvoicePaid and
\* handleInvoicePaymentFailed find the row by the Stripe id; an event that finds
\* none is lost.  For a state it has no name for the first keeps the status read.
FindRow(e) ==
  /\ e \in events
  /\ events' = events \ {e}
  /\ IF row.stripe = e.sub
       THEN /\ handlers' = handlers \cup
                 {[sub |-> e.sub, status |-> e.status, number |-> e.number,
                   unpaid |-> e.unpaid,
                   writes |-> IF e.status = "INCOMPLETE_EXPIRED" THEN row.status
                                                                 ELSE e.status]}
            /\ UNCHANGED latest
       ELSE Hears(e) /\ UNCHANGED handlers
  /\ UNCHANGED <<customers, owner, default, subs, keys, changes, user, row, pc, task,
                 faults, histVars>>

\* What h is going to write is no news of the subscription the row has now.
Old(h) ==
  \/ row.stripe # h.sub \/ h.number < latest[h.sub]
  \/ h.status = "INCOMPLETE_EXPIRED" /\ row.status # h.writes

\* Mutant of WriteRow: only an end for want of payment ends the row.
MutWriteEnd(h) ==
  /\ h \in handlers
  /\ row' = [row EXCEPT !.status = IF h.status = "CANCELLED" /\ ~ h.unpaid
                                   THEN @ ELSE h.writes]
  /\ handlers' = (handlers \ {h})
       \cup {again \in {[h EXCEPT !.unpaid = FALSE]} : h.unpaid}
  /\ Hears(h)
  /\ misled' = IF Old(h) THEN misled \cup {row.stripe}
               ELSE misled \ {s \in {h.sub} : h.writes = h.status}
  /\ UNCHANGED <<stripeVars, user, pc, task, faults, crossed, stray, drifted>>

\* By the row's id, whatever its subscription is by now.  handleStripeDeleted
\* writes twice when it was for want of payment.
WriteRow(h) ==
  /\ h \in handlers
  /\ row' = [row EXCEPT !.status = h.writes]
  /\ handlers' = (handlers \ {h})
       \cup {again \in {[h EXCEPT !.unpaid = FALSE]} : h.unpaid}
  /\ Hears(h)
  /\ misled' = IF Old(h) THEN misled \cup {row.stripe}
               ELSE misled \ {s \in {h.sub} : h.writes = h.status}
  /\ UNCHANGED <<stripeVars, user, pc, task, faults, crossed, stray, drifted>>

\* A call of a handler throws: Stripe is answered 200 and does not send it again.
LoseEvent(e) ==
  /\ e \in Pending /\ faults < MaxFaults
  /\ faults' = faults + 1
  /\ events' = events \ {e} /\ handlers' = handlers \ {e}
  /\ Hears(e)
  /\ misled' = misled \cup {e.sub}
  /\ UNCHANGED <<customers, owner, default, subs, keys, changes, user, row, pc, task,
                 crossed, stray, drifted>>

\* A call throws, or the process dies: nothing that follows is done.
Fail(r) ==
  /\ faults < MaxFaults /\ pc[r] \notin {"idle", "done"}
  /\ faults' = faults + 1
  /\ stray' = IF pc[r] \in {"create", "update"}
              THEN stray \cup ({task[r].sub} \ {row.stripe}) ELSE stray
  /\ drifted' = drifted \cup {x \in {"plan", "cancel"} : Halfway(r, x)}
  /\ Finish(r)
  /\ UNCHANGED <<stripeVars, rowVars, crossed, misled>>

-----------------------------------------------------------------------------
Init ==
  /\ user = Unset /\ customers = {}
  /\ owner = [c \in Cards |-> Unset] /\ default = [k \in Requests |-> Unset]
  /\ subs = [s \in Requests |-> [state |-> "none", plan |-> "BASIC", atEnd |-> FALSE]]
  /\ keys = {}
  /\ row = [status |-> "NONE", stripe |-> Unset, plan |-> "BASIC",
            cancelRequested |-> FALSE]
  /\ events = {} /\ handlers = {} /\ changes = 0 /\ latest = [s \in Requests |-> 0]
  /\ pc = [r \in Requests |-> "idle"] /\ task = [r \in Requests |-> NoTask]
  /\ faults = 0 /\ crossed = FALSE
  /\ stray = {} /\ misled = {} /\ drifted = {}

CardStep(r) ==
  \/ AskSetup(r) \/ CreateCustomer(r) \/ SaveCustomer(r)
  \/ AskAddCard(r) \/ Attach(r) \/ AskDefault(r) \/ SetDefault(r)
  \/ AskDeleteCard(r) \/ Detach(r)

SubscriptionStep(r) ==
  \/ AskConfirm(r) \/ AskResubscribe(r) \/ Subscribe(r) \/ CreateRow(r) \/ UpdateRow(r)
  \/ AskCancel(r) \/ AskResume(r) \/ AskChangePlan(r) \/ Refused(r)
  \/ StripeCancels(r) \/ CancelRow(r) \/ StripeFlags(r) \/ FlagRow(r)
  \/ StripeChangesPlan(r) \/ HandleDowngrade(r) \/ ChangeRowPlan(r)
  \/ AskReconcile(r) \/ Retrieve(r) \/ Sync(r)

Next ==
  \/ \E r \in Requests : CardStep(r) \/ SubscriptionStep(r) \/ Fail(r)
  \/ \E k \in Requests, c \in Cards : CompleteSetup(k, c)
  \/ \E s \in Requests : StripeMoves(s)
  \/ \E e \in events : FindRow(e)
  \/ \E h \in handlers : WriteRow(h)
  \/ \E e \in Pending : LoseEvent(e)

Spec == Init /\ [][Next]_vars

-----------------------------------------------------------------------------
(* Properties *)

\* deletePaymentMethod never takes the card the next invoice is charged to:
\* a customer who has a default card keeps one, unless the default moved to the
\* card between the check and the call that detaches it.
DefaultKept ==
  [][\A k \in Requests :
       default[k] # Unset => default'[k] # Unset \/ crossed']_vars

\* Nobody pays for a subscription the application does not know: one that lives
\* in Stripe is the row's, or is about to be, or was left behind when a failure,
\* a second confirmation or a resubscription kept its id from the row.
LiveIsOurs ==
  \A s \in Requests : Live(s) =>
    \/ row.stripe = s \/ s \in stray
    \/ \E r \in Requests : pc[r] \in {"create", "update"} /\ task[r].sub = s

\* Nobody keeps a plan for nothing: while the row says ACTIVE or TRIAL the
\* subscription lives, or the event that ends it is on its way or in a handler.
\* Excepted is a row that was last written from old news, until newer news in
\* order or a reconciliation puts it right: from an event overtaken by a newer
\* one, by whoever read the row before it was given another subscription (a
\* handler, a cancellation, a reconciliation), or not at all where a handler
\* failed, which nobody repeats.
EntitledIsLive ==
  row.status \in {"ACTIVE", "TRIAL"} =>
    \/ Live(row.stripe) \/ row.stripe \in misled
    \/ \E e \in Pending : e.sub = row.stripe /\ e.status = "CANCELLED"

\* Who pays gets the plan: while the row's subscription is active the row is
\* ACTIVE or will hear of it, with the same exceptions.
PaidIsEntitled ==
  row.status # "NONE" /\ subs[row.stripe].state = "ACTIVE" =>
    \/ row.status = "ACTIVE" \/ row.stripe \in misled
    \/ \E e \in Pending : e.sub = row.stripe /\ e.status = "ACTIVE"

\* The row's plan and its wish to end are Stripe's, except while a change is
\* between the two, after a change that stopped there or overlapped another, and
\* after a resubscription, which forgets to clear the wish.
RowFollowsStripe ==
  row.status # "NONE" =>
    /\ \/ row.plan = subs[row.stripe].plan \/ "plan" \in drifted
       \/ \E r \in Requests : Halfway(r, "plan")
    /\ \/ row.cancelRequested = subs[row.stripe].atEnd \/ "cancel" \in drifted
       \/ \E r \in Requests : Halfway(r, "cancel")

=============================================================================
