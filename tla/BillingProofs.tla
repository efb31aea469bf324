---------------------------- MODULE BillingProofs ----------------------------
(***************************************************************************)
(* Proofs about Billing: the default card stays, live subscriptions are    *)
(* known, and row and Stripe agree but for the cases the properties name,  *)
(* for any number of requests, cards, changes of Stripe and failures.      *)
(*                                                                         *)
(* That the row hears of what Stripe did is not inductive: events arrive   *)
(* in any order, and are written by handlers that read the row before.     *)
(* Reported adds that the newest event about a subscription tells its      *)
(* state, on its way or in a handler, or has been heard and every other    *)
(* one is older; Carried the same of what a reconciliation has retrieved;  *)
(* and NeverBegun that no event ever puts right the row of a subscription  *)
(* whose first payment did not come.                                       *)
(***************************************************************************)
EXTENDS Billing, TLAPS

USE BillingAssumption

\* The calls of an operation on a row that exists.
OnRow == {"stripe", "rowCancelled", "rowFlag", "downgrade", "rowPlan", "retrieve", "sync"}

\* What a process carries at each of its calls.
Held ==
  \A r \in Requests :
    /\ pc[r] = "saveCustomer" => r \in customers
    /\ pc[r] \in {"attach", "default", "detach"} =>
         task[r].customer \in Requests /\ task[r].card \in Cards
    /\ pc[r] = "detach" => task[r].card # task[r].seenDefault
    /\ pc[r] = "subscribe" => task[r].op \in {"confirm", "resubscribe"}
    /\ pc[r] \in {"create", "update"} \cup OnRow =>
         task[r].sub \in Requests /\ subs[task[r].sub].state # "none"
    /\ pc[r] = "rowCancelled" => subs[task[r].sub].state = "CANCELLED"
    /\ pc[r] = "sync" => task[r].status # "NONE"
    /\ subs[r].state # "none" => pc[r] \in {"create", "update", "done"}

\* The row names a subscription that was made; before there is one, nothing but
\* confirmations is under way, and no subscription has been changed.
Rows ==
  /\ \A k \in keys : subs[k[3]].state # "none"
  /\ row.status # "NONE" => row.stripe \in Requests /\ subs[row.stripe].state # "none"
  /\ row.status = "NONE" =>
       /\ row.stripe = Unset /\ ~ row.cancelRequested
       /\ \A r \in Requests : /\ pc[r] \notin {"update"} \cup OnRow
                              /\ pc[r] = "subscribe" => task[r].op = "confirm"
                              /\ pc[r] = "create" =>
                                   /\ subs[task[r].sub].plan = task[r].plan
                                   /\ ~ subs[task[r].sub].atEnd
       /\ \A k \in keys : subs[k[3]].plan = k[2] /\ ~ subs[k[3]].atEnd

Numbered ==
  /\ events \cap handlers = {}
  /\ \A e \in Pending : e.number <= changes
  /\ \A e, f \in Pending : e.number = f.number => e = f
  /\ \A s \in Requests : latest[s] <= changes
  /\ \A r \in Requests : task[r].heard <= changes

\* A handler writes what its event says, but for the state the row cannot have.
Handled ==
  \A h \in handlers :
    /\ h.status # "INCOMPLETE_EXPIRED" => h.writes = h.status
    /\ row.status # "NONE"

\* Whatever is on its way about s is older than what was heard.
Heard(s) == \A e \in Pending : e.sub = s => e.number < latest[s]

\* The newest event about s reports its state.
Awaited(s) ==
  \E e \in Pending : /\ e.sub = s /\ e.status = subs[s].state
                     /\ \A f \in Pending : f.sub = s => f.number <= e.number

Reported ==
  \A s \in Requests : subs[s].state \in {"ACTIVE", "PAST_DUE", "CANCELLED"} =>
    Awaited(s) \/ (Heard(s) /\ latest[s] > 0)

\* Of a subscription whose first payment never came nobody says that it is paid,
\* and its row says so only by mistake: no event will put the row right.
Unpaid(s) ==
  /\ \A e \in Pending : e.sub = s => e.status = "INCOMPLETE_EXPIRED"
  /\ row.stripe = s /\ row.status \in {"ACTIVE", "TRIAL"} => s \in misled
  /\ \A k \in keys : k[1] = "confirm" => k[3] # s
  /\ \A r \in Requests :
       /\ pc[r] = "sync" /\ task[r].sub = s => task[r].status \notin {"ACTIVE", "TRIAL"}
       /\ pc[r] = "create" => task[r].sub # s

NeverBegun ==
  \A s \in Requests :
    subs[s].state \in {"none", "INCOMPLETE", "INCOMPLETE_EXPIRED"} => Unpaid(s)

\* The reconciliation carries the state of the subscription, or there are news.
Carried ==
  \A r \in Requests : pc[r] = "sync" =>
    LET s == task[r].sub
    IN  \/ task[r].status = subs[s].state
        \/ latest[s] > task[r].heard
        \/ \E e \in Pending : e.sub = s /\ e.number > task[r].heard

\* What a process has changed in Stripe is so there, unless others change it too.
Halves ==
  \A r \in Requests :
    /\ Halfway(r, "plan") =>
         \/ subs[task[r].sub].plan = task[r].plan
         \/ "plan" \in drifted \/ Others(r, "plan")
    /\ Halfway(r, "cancel") =>
         \/ subs[task[r].sub].atEnd = (task[r].op = "cancelLater")
         \/ "cancel" \in drifted \/ Others(r, "cancel")

Inv ==
  /\ TypeOK /\ Held /\ Rows /\ Numbered /\ Handled /\ Reported /\ NeverBegun
  /\ Carried /\ Halves
  /\ LiveIsOurs /\ EntitledIsLive /\ PaidIsEntitled /\ RowFollowsStripe

-----------------------------------------------------------------------------
(* The steps of a process that change neither row nor subscriptions *)

books == <<subs, keys, events, changes, row, handlers, latest, misled>>

\* What r carries to label l agrees with Held and Rows.
Fits(r, t, l) ==
  /\ l \notin {"idle", "create", "update", "rowCancelled", "rowFlag", "downgrade"}
  /\ l = "saveCustomer" => r \in customers'
  /\ l \in {"attach", "default", "detach"} => t.customer \in Requests /\ t.card \in Cards
  /\ l = "detach" => t.card # t.seenDefault
  /\ l = "subscribe" => \/ t.op = "confirm"
                        \/ t.op = "resubscribe" /\ row.status # "NONE"
  /\ l \in {"stripe", "retrieve", "sync"} =>
       t.sub \in Requests /\ subs[t.sub].state # "none" /\ row.status # "NONE"
  /\ l = "sync" => t.status = subs[t.sub].state
  /\ l = "rowPlan" => pc[r] = "downgrade" /\ t = task[r]
  /\ t.heard <= changes

\* r goes on; what it gives up half way is put down as such.
Walks(r) ==
  /\ UNCHANGED books
  /\ customers \subseteq customers' /\ customers' \subseteq Requests
  /\ stray \subseteq stray' /\ stray' \subseteq Requests
  /\ drifted \subseteq drifted' /\ drifted' \subseteq {"plan", "cancel"}
  /\ subs[r].state # "none" => pc[r] \in {"create", "update", "done"}
  /\ pc[r] \in {"create", "update"} => task[r].sub \in stray' \cup {row.stripe}
  /\ \E t \in Task, l \in Labels :
       /\ Fits(r, t, l)
       /\ task' = [task EXCEPT ![r] = t]
       /\ pc' = [pc EXCEPT ![r] = l]
       /\ subs[r].state # "none" => l = "done"
       /\ \A x \in {"plan", "cancel"} : Halfway(r, x) => x \in drifted' \/ l = "rowPlan"

\* The task of a process that carries nothing is a task.
LEMMA NoTaskTyped == NoTask \in Task
BY DEF NoTask, Task, Ops, Plans, Status

\* What an operation reads of the row when it begins is a task.
LEMMA ReadsTask ==
  ASSUME TypeOK, NEW r \in Requests, NEW op \in Ops, NEW p \in Plans, Reads(r, op, p)
  PROVE  \E t \in Task : /\ task' = [task EXCEPT ![r] = t]
                         /\ t.sub = row.stripe /\ t.heard = 0
<1> DEFINE a == [NoTask EXCEPT !.op = op, !.sub = row.stripe, !.old = row.plan]
           t == [a EXCEPT !.plan = p, !.status = row.status]
<1>1. task' = [task EXCEPT ![r] = t]
  BY DEF Reads
<1>2. row.stripe \in Requests \cup {Unset} /\ row.plan \in Plans
      /\ row.status \in Status \cup {"NONE"}
  BY DEF TypeOK, Row
<1>3. a \in Task /\ a.sub = row.stripe /\ a.heard = 0
  BY <1>2, NoTaskTyped DEF Task, NoTask
<1> HIDE DEF a
<1>4. t \in Task /\ t.sub = row.stripe /\ t.heard = 0
  BY <1>2, <1>3 DEF Task
<1> QED BY <1>1, <1>4

\* Every request to the cards, every first reading, every refusal and every
\* failure is a walk.
LEMMA RequestsWalk ==
  ASSUME TypeOK, Held, Rows, Numbered, NEW r \in Requests,
         \/ AskSetup(r) \/ CreateCustomer(r) \/ SaveCustomer(r)
         \/ AskAddCard(r) \/ Attach(r) \/ AskDefault(r) \/ SetDefault(r)
         \/ AskDeleteCard(r) \/ Detach(r) \/ AskConfirm(r) \/ AskResubscribe(r)
         \/ AskCancel(r) \/ AskResume(r) \/ AskChangePlan(r) \/ Refused(r)
         \/ HandleDowngrade(r) \/ AskReconcile(r) \/ Retrieve(r) \/ Fail(r)
         \/ Subscribe(r) /\ pc'[r] = "done"
  PROVE  Walks(r)
<1> USE DEF Walks, Fits, GoTo, Finish, May, Reads, books, stripeVars, rowVars, histVars,
            TypeOK, Labels
<1>a. task[r] \in Task /\ row \in Row /\ NoTask \in Task
  BY NoTaskTyped
<1>b. task[r].heard <= changes /\ NoTask.heard <= changes /\ NoTask.heard = 0
  BY DEF Numbered, NoTask
<1>c. subs[r].state # "none" => pc[r] \in {"create", "update", "done"}
  BY DEF Held
<1>1. CASE AskSetup(r)
  BY <1>1, <1>a, <1>b, <1>c DEF AskSetup, Halfway
<1>2. CASE CreateCustomer(r)
  BY <1>2, <1>a, <1>b, <1>c DEF CreateCustomer, Halfway
<1>3. CASE SaveCustomer(r)
  BY <1>3, <1>a, <1>b, <1>c DEF SaveCustomer, Halfway
<1>4. CASE AskAddCard(r)
  <2>1. PICK c \in Cards :
          task' = [task EXCEPT ![r].customer = user, ![r].card = c]
    BY <1>4 DEF AskAddCard
  <2>2. user \in Requests
    BY <1>4 DEF AskAddCard
  <2> DEFINE t == [task[r] EXCEPT !.customer = user, !.card = c]
  <2>3. /\ t \in Task /\ t.customer = user /\ t.card = c /\ t.heard = task[r].heard
        /\ task' = [task EXCEPT ![r] = t]
    BY <1>a, <2>1, <2>2 DEF Task
  <2> HIDE DEF t
  <2> QED BY <1>4, <1>b, <1>c, <2>1, <2>2, <2>3 DEF AskAddCard, Halfway
<1>5. CASE Attach(r)
  <2>1. task[r].customer \in Requests /\ task[r].card \in Cards
    BY <1>5 DEF Attach, Held
  <2>2. task' = [task EXCEPT ![r] = task[r]] \/ task' = [task EXCEPT ![r] = NoTask]
    BY <1>5 DEF Attach
  <2>3. CASE task' = task
    BY <1>5, <1>a, <1>b, <1>c, <2>1, <2>3 DEF Attach, Halfway
  <2>4. CASE task' # task
    BY <1>5, <1>a, <1>b, <1>c, <2>1, <2>4 DEF Attach, Halfway
  <2> QED BY <2>3, <2>4
<1>6. CASE AskDefault(r)
  <2>1. PICK c \in Cards :
          task' = [task EXCEPT ![r].customer = user, ![r].card = c]
    BY <1>6 DEF AskDefault
  <2>2. user \in Requests
    BY <1>6 DEF AskDefault
  <2> DEFINE t == [task[r] EXCEPT !.customer = user, !.card = c]
  <2>3. /\ t \in Task /\ t.customer = user /\ t.card = c /\ t.heard = task[r].heard
        /\ task' = [task EXCEPT ![r] = t]
    BY <1>a, <2>1, <2>2 DEF Task
  <2> HIDE DEF t
  <2> QED BY <1>6, <1>b, <1>c, <2>1, <2>2, <2>3 DEF AskDefault, Halfway
<1>7. CASE SetDefault(r)
  BY <1>7, <1>a, <1>b, <1>c DEF SetDefault, Halfway, Held
<1>8. CASE AskDeleteCard(r)
  <2>1. PICK c \in Cards :
          task' = [task EXCEPT ![r].customer = user, ![r].card = c,
                               ![r].seenDefault = default[user]] /\ default[user] # c
    BY <1>8 DEF AskDeleteCard
  <2>2. user \in Requests
    BY <1>8 DEF AskDeleteCard
  <2> DEFINE t == [task[r] EXCEPT !.customer = user, !.card = c,
                              !.seenDefault = default[user]]
  <2>3. /\ t \in Task /\ t.customer = user /\ t.card = c /\ t.heard = task[r].heard
        /\ task' = [task EXCEPT ![r] = t] /\ t.seenDefault = default[user]
    BY <1>a, <2>1, <2>2 DEF Task
  <2> HIDE DEF t
  <2> QED BY <1>8, <1>b, <1>c, <2>1, <2>2, <2>3 DEF AskDeleteCard, Halfway
<1>9. CASE Detach(r)
  BY <1>9, <1>a, <1>b, <1>c DEF Detach, Halfway
<1>10. CASE AskConfirm(r)
  <2>1. PICK c \in Cards, p \in Plans :
          task' = [task EXCEPT ![r] = [NoTask EXCEPT
                     !.op = "confirm", !.customer = user, !.card = c, !.plan = p]]
    BY <1>10 DEF AskConfirm
  <2> DEFINE t == [NoTask EXCEPT !.op = "confirm", !.customer = user, !.card = c, !.plan = p]
  <2>2. user \in Requests /\ row.status = "NONE" /\ pc[r] = "idle"
    BY <1>10 DEF AskConfirm
  <2>3. /\ t \in Task /\ task' = [task EXCEPT ![r] = t] /\ t.heard = 0
        /\ t.customer \in Requests /\ t.card \in Cards
    BY <1>a, <2>1, <2>2 DEF Task, NoTask, Ops
  <2>4. Fits(r, t, "default")
    BY <1>b, <2>2, <2>3
  <2>5. /\ UNCHANGED <<books, customers, stray, drifted>>
        /\ pc' = [pc EXCEPT ![r] = "default"]
    BY <1>10 DEF AskConfirm
  <2> HIDE DEF t
  <2> QED BY <1>c, <2>2, <2>3, <2>4, <2>5 DEF Halfway
<1>11. CASE AskResubscribe(r)
  <2>1. PICK p \in Plans :
          task' = [task EXCEPT ![r] = [NoTask EXCEPT
                     !.op = "resubscribe", !.customer = user, !.plan = p]]
    BY <1>11 DEF AskResubscribe
  <2> DEFINE t == [NoTask EXCEPT !.op = "resubscribe", !.customer = user, !.plan = p]
  <2>2. /\ t \in Task /\ task' = [task EXCEPT ![r] = t] /\ t.heard = 0
        /\ t.op = "resubscribe"
    BY <1>a, <2>1 DEF Task, NoTask, Ops
  <2> HIDE DEF t
  <2> QED BY <1>11, <1>b, <1>c, <2>2 DEF AskResubscribe, Halfway
<1>12. CASE AskCancel(r)
  <2>1. PICK op \in Ops, p \in Plans : Reads(r, op, p)
    BY <1>12, <1>a DEF AskCancel, Ops, Row
  <2>2. PICK t \in Task : /\ task' = [task EXCEPT ![r] = t]
                         /\ t.sub = row.stripe /\ t.heard = 0
    BY <2>1, ReadsTask
  <2> QED BY <1>12, <1>b, <1>c, <2>2 DEF AskCancel, Halfway, Rows
<1>13. CASE AskResume(r)
  <2>1. PICK op \in Ops, p \in Plans : Reads(r, op, p)
    BY <1>13, <1>a DEF AskResume, Ops, Row
  <2>2. PICK t \in Task : /\ task' = [task EXCEPT ![r] = t]
                         /\ t.sub = row.stripe /\ t.heard = 0
    BY <2>1, ReadsTask
  <2> QED BY <1>13, <1>b, <1>c, <2>2 DEF AskResume, Halfway, Rows
<1>14. CASE AskChangePlan(r)
  <2>1. PICK op \in Ops, p \in Plans : Reads(r, op, p)
    BY <1>14, <1>a DEF AskChangePlan, Ops, Row
  <2>2. PICK t \in Task : /\ task' = [task EXCEPT ![r] = t]
                         /\ t.sub = row.stripe /\ t.heard = 0
    BY <2>1, ReadsTask
  <2> QED BY <1>14, <1>b, <1>c, <2>2 DEF AskChangePlan, Halfway, Rows
<1>15. CASE Refused(r)
  BY <1>15, <1>a, <1>b, <1>c DEF Refused, Halfway, NoTask
<1>16. CASE HandleDowngrade(r)
  BY <1>16, <1>a, <1>b, <1>c DEF HandleDowngrade, Halfway
<1>17. CASE AskReconcile(r)
  <2>1. PICK op \in Ops, p \in Plans : Reads(r, op, p)
    BY <1>17, <1>a DEF AskReconcile, Ops, Row
  <2>2. PICK t \in Task : /\ task' = [task EXCEPT ![r] = t]
                         /\ t.sub = row.stripe /\ t.heard = 0
    BY <2>1, ReadsTask
  <2> QED BY <1>17, <1>b, <1>c, <2>2 DEF AskReconcile, Halfway, Rows
<1>18. CASE Retrieve(r)
  <2>1. /\ task[r].sub \in Requests /\ subs[task[r].sub].state # "none"
        /\ row.status # "NONE"
    BY <1>18 DEF Retrieve, Held, OnRow, Rows
  <2>2. CASE pc' = [pc EXCEPT ![r] = "done"] /\ task' = [task EXCEPT ![r] = NoTask]
    BY <1>18, <1>a, <1>b, <1>c, <2>1, <2>2 DEF Retrieve, Halfway
  <2>3. CASE /\ Live(task[r].sub) /\ pc' = [pc EXCEPT ![r] = "sync"]
             /\ task' = [task EXCEPT ![r].status = subs[task[r].sub].state,
                                     ![r].heard = latest[task[r].sub]]
    <3> DEFINE t == [task[r] EXCEPT !.status = subs[task[r].sub].state,
                                    !.heard = latest[task[r].sub]]
    <3>1. /\ t \in Task /\ task' = [task EXCEPT ![r] = t] /\ t.sub = task[r].sub
          /\ t.status = subs[task[r].sub].state /\ t.heard = latest[task[r].sub]
      BY <1>a, <2>1, <2>3 DEF Task, Live, Sub, StripeStatus
    <3>2. t.heard <= changes
      BY <2>1, <3>1 DEF Numbered
    <3> HIDE DEF t
    <3> QED BY <1>18, <1>c, <2>1, <2>3, <3>1, <3>2 DEF Retrieve, Halfway
  <2> QED BY <1>18, <2>2, <2>3 DEF Retrieve
<1>19. CASE Fail(r)
  <2>1. /\ pc' = [pc EXCEPT ![r] = "done"] /\ task' = [task EXCEPT ![r] = NoTask]
        /\ UNCHANGED <<books, customers>>
    BY <1>19 DEF Fail
  <2>2. /\ stray \subseteq stray' /\ stray' \subseteq Requests
        /\ pc[r] \in {"create", "update"} => task[r].sub \in stray' \cup {row.stripe}
    BY <1>19 DEF Fail, Held
  <2>3. /\ drifted \subseteq drifted' /\ drifted' \subseteq {"plan", "cancel"}
        /\ \A x \in {"plan", "cancel"} : Halfway(r, x) => x \in drifted'
    BY <1>19 DEF Fail
  <2> QED BY <1>a, <1>b, <1>c, <2>1, <2>2, <2>3
<1>20. CASE Subscribe(r) /\ pc'[r] = "done"
  BY <1>20, <1>a, <1>b, <1>c DEF Subscribe, Halfway
<1> QED BY <1>1, <1>2, <1>3, <1>4, <1>5, <1>6, <1>7, <1>8, <1>9, <1>10, <1>11, <1>12, <1>13,
           <1>14, <1>15, <1>16, <1>17, <1>18, <1>19, <1>20

\* Steps that change nothing the invariant speaks of.
Stays == UNCHANGED <<books, customers, pc, task, stray, drifted>>

\* Subscription s, which lives, is changed: either its state, with an event that
\* reports it, or its plan or its end.
Restated(s) ==
  /\ Live(s) /\ subs'[s].state # "none"
  /\ \A q \in Requests \ {s} : subs'[q] = subs[q]
  /\ UNCHANGED <<keys, row, handlers, latest, misled, customers, stray, drifted, task>>
  /\ \A q \in Requests :
       \/ pc'[q] = pc[q]
       \/ pc[q] = "stripe" /\ pc'[q] \in {"rowCancelled", "rowFlag", "downgrade", "rowPlan"}
  /\ \/ UNCHANGED <<events, changes>> /\ subs'[s].state = subs[s].state
     \/ /\ changes' = changes + 1
        /\ \E n : /\ n.sub = s /\ n.status = subs'[s].state /\ n.number = changes + 1
                  /\ events' = events \cup {n}
        /\ subs'[s].state \in {"INCOMPLETE", "INCOMPLETE_EXPIRED"} =>
             subs'[s].state = "INCOMPLETE_EXPIRED" /\ subs[s].state = "INCOMPLETE"
        /\ subs'[s].plan = subs[s].plan /\ subs'[s].atEnd = subs[s].atEnd
        /\ \A q \in Requests : pc'[q] \in {"rowFlag", "downgrade", "rowPlan"} => pc'[q] = pc[q]

\* cancelSubscription, resumeSubscription and changePlan change the live
\* subscription that the process carries.
LEMMA StripeRestates ==
  ASSUME TypeOK, Held, NEW r \in Requests,
         StripeCancels(r) \/ StripeFlags(r) \/ StripeChangesPlan(r)
  PROVE  task[r].sub \in Requests /\ Restated(task[r].sub)
<1> DEFINE s == task[r].sub
<1>1. s \in Requests /\ subs[s] \in Sub
  BY DEF StripeCancels, StripeFlags, StripeChangesPlan, Held, OnRow, TypeOK
<1> USE DEF Restated, rowVars, histVars, GoTo, TypeOK, Sub
<1>2. CASE StripeCancels(r)
  BY <1>1, <1>2 DEF StripeCancels, Change
<1>3. CASE StripeFlags(r)
  BY <1>1, <1>3 DEF StripeFlags, Live
<1>4. CASE StripeChangesPlan(r)
  BY <1>1, <1>4 DEF StripeChangesPlan, Live
<1> QED BY <1>1, <1>2, <1>3, <1>4

\* So does Stripe of its own accord.
LEMMA MovesRestate ==
  ASSUME TypeOK, NEW s \in Requests, StripeMoves(s)
  PROVE  Restated(s) /\ pc' = pc
<1>1. PICK to \in Moves(subs[s]), paid \in BOOLEAN :
        Change(s, [subs[s] EXCEPT !.state = to], paid)
  BY DEF StripeMoves
<1>2. /\ Live(s) /\ to # "none" /\ to \in StripeStatus
      /\ to # "INCOMPLETE"
      /\ to = "INCOMPLETE_EXPIRED" => subs[s].state = "INCOMPLETE"
  BY <1>1 DEF Moves, Live, Status, StripeStatus, TypeOK, Sub
<1> DEFINE n == [sub |-> s, status |-> to, number |-> changes + 1, unpaid |-> paid]
<1>3. /\ subs'[s].state = to /\ subs'[s].plan = subs[s].plan /\ subs'[s].atEnd = subs[s].atEnd
      /\ \A q \in Requests \ {s} : subs'[q] = subs[q]
      /\ changes' = changes + 1
  BY <1>1 DEF Change, TypeOK, Sub
<1>4. n.sub = s /\ n.status = to /\ n.number = changes + 1
  OBVIOUS
<1>5. events' = events \cup {n}
  BY <1>1 DEF Change, TypeOK, Sub
<1> HIDE DEF n
<1>6. UNCHANGED <<keys, row, handlers, latest, misled, customers, stray, drifted, task, pc>>
  BY DEF StripeMoves, rowVars, histVars
<1> QED BY <1>2, <1>3, <1>4, <1>5, <1>6 DEF Restated

\* A step with an event: to its handler, from there to the row, or nowhere.
Handles(e) == FindRow(e) \/ WriteRow(e) \/ LoseEvent(e)

\* What they have in common: the event goes, and is heard, or its news stays.
Passes(e) ==
  /\ UNCHANGED <<customers, subs, keys, changes, pc, task, stray, drifted>>
  /\ row'.stripe = row.stripe /\ row'.plan = row.plan
  /\ row'.cancelRequested = row.cancelRequested
  /\ row'.status = "NONE" <=> row.status = "NONE"
  /\ \/ Pending' = Pending \ {e} /\ Hears(e)
     \/ /\ latest' = latest \/ Hears(e)
        /\ \E h : /\ h.sub = e.sub /\ h.status = e.status /\ h.number = e.number
                  /\ Pending' = (Pending \ {e}) \cup {h}

LEMMA HandlesPasses ==
  ASSUME TypeOK, Rows, Numbered, Handled, NEW e \in Pending, Handles(e)
  PROVE  Passes(e)
<1>0. row \in Row /\ events \cap handlers = {} /\ handlers \subseteq Handler
  BY DEF TypeOK, Numbered
<1>1. CASE FindRow(e)
  <2>1. e \in events /\ e \notin handlers /\ events' = events \ {e}
    BY <1>0, <1>1 DEF FindRow
  <2>2. CASE row.stripe = e.sub
    <3>1. /\ latest' = latest
          /\ \E h : /\ h.sub = e.sub /\ h.status = e.status /\ h.number = e.number
                    /\ handlers' = handlers \cup {h}
      BY <1>1, <2>2 DEF FindRow
    <3>2. PICK h : /\ h.sub = e.sub /\ h.status = e.status /\ h.number = e.number
                   /\ handlers' = handlers \cup {h}
      BY <3>1
    <3>3. Pending' = (Pending \ {e}) \cup {h}
      BY <2>1, <3>2 DEF Pending
    <3>4. UNCHANGED <<customers, subs, keys, changes, pc, task, stray, drifted, row>>
      BY <1>1 DEF FindRow, histVars
    <3> QED BY <3>1, <3>2, <3>3, <3>4 DEF Passes
  <2>3. CASE row.stripe # e.sub
    <3>1. Pending' = Pending \ {e}
      BY <1>1, <2>1, <2>3 DEF FindRow, Pending
    <3>2. /\ Hears(e)
          /\ UNCHANGED <<customers, subs, keys, changes, pc, task, stray, drifted, row>>
      BY <1>1, <2>3 DEF FindRow, histVars
    <3> QED BY <3>1, <3>2 DEF Passes
  <2> QED BY <2>2, <2>3
<1>2. CASE WriteRow(e)
  <2>1. e \in handlers /\ e \notin events /\ e \in Handler
    BY <1>0, <1>2 DEF WriteRow
  <2>2. /\ Hears(e)
        /\ UNCHANGED <<customers, subs, keys, changes, pc, task, stray, drifted, events>>
    BY <1>2 DEF WriteRow, stripeVars
  <2>3. /\ row'.stripe = row.stripe /\ row'.plan = row.plan
        /\ row'.cancelRequested = row.cancelRequested
        /\ row'.status = "NONE" <=> row.status = "NONE"
    BY <1>0, <1>2, <2>1 DEF WriteRow, Row, Handler, Status, Handled
  <2>4. CASE e.unpaid
    <3> DEFINE h == [e EXCEPT !.unpaid = FALSE]
    <3>1. h.sub = e.sub /\ h.status = e.status /\ h.number = e.number
      BY <2>1 DEF Handler
    <3>2. handlers' = (handlers \ {e}) \cup {h}
      BY <1>2, <2>4 DEF WriteRow
    <3> HIDE DEF h
    <3>3. Pending' = (Pending \ {e}) \cup {h}
      BY <2>1, <2>2, <3>2 DEF Pending
    <3> QED BY <2>2, <2>3, <3>1, <3>3 DEF Passes
  <2>5. CASE ~ e.unpaid
    <3>1. handlers' = handlers \ {e}
      BY <1>2, <2>5 DEF WriteRow
    <3>2. Pending' = Pending \ {e}
      BY <2>1, <2>2, <3>1 DEF Pending
    <3> QED BY <2>2, <2>3, <3>2 DEF Passes
  <2> QED BY <2>4, <2>5
<1>3. CASE LoseEvent(e)
  <2>1. Pending' = Pending \ {e}
    BY <1>3 DEF LoseEvent, Pending
  <2> QED BY <1>3, <2>1 DEF LoseEvent, Passes
<1> QED BY <1>1, <1>2, <1>3 DEF Handles

\* The steps of a process that write the row or the subscriptions.
Writes(r) ==
  \/ Subscribe(r) /\ pc'[r] # "done"
  \/ CreateRow(r) \/ UpdateRow(r) \/ CancelRow(r) \/ FlagRow(r) \/ ChangeRowPlan(r)
  \/ Sync(r) \/ StripeCancels(r) \/ StripeFlags(r) \/ StripeChangesPlan(r)

\* Every step is a stutter, a walk, or one of those that write row or subscriptions.
LEMMA NextCases ==
  ASSUME TypeOK, Held, Rows, Numbered, [Next]_vars
  PROVE  \/ Stays
         \/ \E r \in Requests : Walks(r) \/ Writes(r)
         \/ \E s \in Requests : StripeMoves(s)
         \/ \E e \in Pending : Handles(e)
<1>1. (\E k \in Requests, c \in Cards : CompleteSetup(k, c)) => Stays
  BY DEF CompleteSetup, Stays, books, rowVars, histVars
<1>2. UNCHANGED vars => Stays
  BY DEF vars, Stays, books, stripeVars, rowVars, histVars
<1>3. ASSUME NEW r \in Requests, CardStep(r) \/ SubscriptionStep(r) \/ Fail(r)
      PROVE  Walks(r) \/ Writes(r)
  BY <1>3, RequestsWalk DEF CardStep, SubscriptionStep, Writes
<1>4. (\E e \in events : FindRow(e)) \/ (\E h \in handlers : WriteRow(h))
      \/ (\E e \in Pending : LoseEvent(e)) => \E e \in Pending : Handles(e)
  BY DEF Handles, Pending
<1> QED BY <1>1, <1>2, <1>3, <1>4 DEF Next

-----------------------------------------------------------------------------
(* Types *)

\* The initial state satisfies the invariant.
LEMMA InitInv == Init => Inv
<1> SUFFICES ASSUME Init PROVE Inv
  OBVIOUS
<1>1. TypeOK
  <2>1. /\ subs \in [Requests -> Sub] /\ row \in Row
        /\ task \in [Requests -> Task] /\ pc \in [Requests -> Labels]
    BY NoTaskTyped DEF Init, Sub, Row, Plans, Status, StripeStatus, Labels
  <2>2. 0 \in 0 .. MaxEvents /\ 0 \in 0 .. MaxFaults
    BY DEF BillingAssumption
  <2> QED BY <2>1, <2>2 DEF Init, TypeOK
<1>2. Held /\ Rows /\ Numbered /\ Handled /\ Reported /\ NeverBegun /\ Carried /\ Halves
  BY DEF Init, Held, Rows, Numbered, Handled, Reported, NeverBegun, Unpaid, Carried, Halves,
         OnRow, NoTask, Halfway, Pending
<1>3. LiveIsOurs /\ EntitledIsLive /\ PaidIsEntitled /\ RowFollowsStripe
  BY DEF Init, LiveIsOurs, EntitledIsLive, PaidIsEntitled, RowFollowsStripe, Live
<1> QED BY <1>1, <1>2, <1>3 DEF Inv

\* Every step keeps the types.
LEMMA TypeStep ==
  TypeOK /\ Held /\ Rows /\ Numbered /\ Handled /\ [Next]_vars => TypeOK'
<1> SUFFICES ASSUME TypeOK, Held, Rows, Numbered, Handled, [Next]_vars PROVE TypeOK'
  OBVIOUS
<1> USE DEF stripeVars, rowVars, histVars, GoTo, Finish
<1>0. NoTask \in Task
  BY NoTaskTyped
<1>1. ASSUME NEW r \in Requests, Walks(r), CardStep(r) \/ SubscriptionStep(r) \/ Fail(r),
             ~ (\/ Subscribe(r) \/ CreateRow(r) \/ UpdateRow(r) \/ StripeCancels(r)
                \/ CancelRow(r) \/ StripeFlags(r) \/ FlagRow(r)
                \/ StripeChangesPlan(r) \/ ChangeRowPlan(r) \/ Sync(r))
      PROVE  TypeOK'
  <2>1. task' \in [Requests -> Task] /\ pc' \in [Requests -> Labels]
    BY <1>1 DEF Walks, TypeOK
  <2>2. /\ subs' \in [Requests -> Sub] /\ keys' = keys /\ row' \in Row /\ events' \subseteq Event
        /\ handlers' \subseteq Handler
        /\ changes' \in 0 .. MaxEvents /\ latest' \in [Requests -> 0 .. MaxEvents]
        /\ misled' \subseteq Requests /\ stray' \subseteq Requests
        /\ drifted' \subseteq {"plan", "cancel"} /\ customers' \subseteq Requests
    BY <1>1 DEF Walks, books, TypeOK
  <2>3. user' \in customers' \cup {Unset}
    <3>1. CASE SaveCustomer(r)
      BY <3>1 DEF SaveCustomer, TypeOK, Held
    <3>2. CASE ~ SaveCustomer(r)
      <4>1. user' = user
        BY <1>1, <3>2 DEF CardStep, SubscriptionStep, AskSetup, CreateCustomer,
           AskAddCard, Attach, AskDefault, SetDefault, AskDeleteCard, Detach,
           AskConfirm, AskResubscribe, AskCancel, AskResume, AskChangePlan, Refused,
           HandleDowngrade, AskReconcile, Retrieve, Fail
      <4> QED BY <1>1, <4>1 DEF Walks, TypeOK
    <3> QED BY <3>1, <3>2
  <2>4. owner' \in [Cards -> Requests \cup {Unset}] /\ default' \in [Requests -> Cards \cup {Unset}]
    <3>1. CASE Attach(r) \/ SetDefault(r) \/ Detach(r)
      <4>1. pc[r] \in {"attach", "default", "detach"}
        BY <3>1 DEF Attach, SetDefault, Detach
      <4>2. task[r].customer \in Requests /\ task[r].card \in Cards
        BY <4>1 DEF Held
      <4>3. CASE Attach(r)
        BY <4>2, <4>3 DEF Attach, TypeOK
      <4>4. CASE SetDefault(r)
        BY <4>2, <4>4 DEF SetDefault, TypeOK
      <4>5. CASE Detach(r)
        BY <4>2, <4>5 DEF Detach, TypeOK
      <4> QED BY <3>1, <4>3, <4>4, <4>5
    <3>2. CASE ~ (Attach(r) \/ SetDefault(r) \/ Detach(r))
      BY <1>1, <3>2 DEF TypeOK, CardStep, SubscriptionStep, AskSetup, CreateCustomer,
       SaveCustomer, AskAddCard, AskDefault, AskDeleteCard,
       AskConfirm, AskResubscribe, AskCancel, AskResume, AskChangePlan, Refused,
       HandleDowngrade, AskReconcile, Retrieve, Fail
    <3> QED BY <3>1, <3>2
  <2>5. faults' \in 0 .. MaxFaults /\ crossed' \in BOOLEAN
    <3>1. CASE Fail(r) \/ Detach(r)
      <4>1. CASE Fail(r)
        BY <4>1 DEF Fail, TypeOK, BillingAssumption
      <4>2. CASE Detach(r)
        BY <4>2 DEF Detach, TypeOK
      <4> QED BY <3>1, <4>1, <4>2
    <3>2. CASE ~ (Fail(r) \/ Detach(r))
      BY <1>1, <3>2 DEF TypeOK, CardStep, SubscriptionStep, AskSetup, CreateCustomer,
       SaveCustomer, AskAddCard, Attach, SetDefault, AskDefault, AskDeleteCard,
       AskConfirm, AskResubscribe, AskCancel, AskResume, AskChangePlan, Refused,
       HandleDowngrade, AskReconcile, Retrieve
    <3> QED BY <3>1, <3>2
  <2> QED BY <2>1, <2>2, <2>3, <2>4, <2>5 DEF TypeOK
<1>2. ASSUME NEW r \in Requests,
             \/ Subscribe(r) \/ CreateRow(r) \/ UpdateRow(r) \/ StripeCancels(r)
             \/ CancelRow(r) \/ StripeFlags(r) \/ FlagRow(r)
             \/ StripeChangesPlan(r) \/ ChangeRowPlan(r) \/ Sync(r)
      PROVE  TypeOK'
  <2> USE DEF TypeOK, Labels
  <2>0. task[r] \in Task /\ row \in Row
    OBVIOUS
  <2>1. CASE Subscribe(r)
    <3>1. task[r].op \in {"confirm", "resubscribe"} /\ task[r].plan \in Plans
      BY <2>0, <2>1 DEF Subscribe, Task, Held
    <3>2. pc' \in [Requests -> Labels]
      BY <2>1 DEF Subscribe
    <3>3. keys' \subseteq {"confirm", "resubscribe"} \X Plans \X Requests
      BY <2>1, <3>1 DEF Subscribe
    <3>4. subs' \in [Requests -> Sub]
      <4> DEFINE new == [state  |-> IF task[r].op = "confirm" THEN "TRIAL" ELSE "INCOMPLETE",
                         plan |-> task[r].plan, atEnd |-> FALSE]
      <4>1. new \in Sub
        BY <3>1 DEF Sub, Status, StripeStatus
      <4>2. subs' = subs \/ subs' = [subs EXCEPT ![r] = new]
        BY <2>1 DEF Subscribe
      <4> HIDE DEF new
      <4> QED BY <4>1, <4>2
    <3>5. task' \in [Requests -> Task]
      <4>1. ASSUME NEW s \in Requests, task' = [task EXCEPT ![r].sub = s]
            PROVE  task' \in [Requests -> Task]
        <5>1. [task[r] EXCEPT !.sub = s] \in Task
          BY <2>0 DEF Task
        <5> QED BY <4>1, <5>1
      <4>2. CASE task' = [task EXCEPT ![r] = NoTask]
        BY <1>0, <4>2
      <4>3. \/ task' = [task EXCEPT ![r] = NoTask]
            \/ \E s \in Requests : task' = [task EXCEPT ![r].sub = s]
        BY <2>1 DEF Subscribe
      <4> QED BY <4>1, <4>2, <4>3
    <3> QED BY <2>1, <3>2, <3>3, <3>4, <3>5 DEF Subscribe
  <2>2. CASE CreateRow(r)
    <3>1. task[r].sub \in Requests /\ task[r].plan \in Plans
      BY <2>0, <2>2 DEF CreateRow, Held, Task
    <3>2. row' \in Row
      <4>1. [status |-> "TRIAL", stripe |-> task[r].sub, plan |-> task[r].plan,
             cancelRequested |-> FALSE] \in Row
        BY <3>1 DEF Row, Status
      <4> QED BY <2>0, <2>2, <4>1 DEF CreateRow
    <3> QED BY <1>0, <2>2, <3>1, <3>2 DEF CreateRow
  <2>3. CASE UpdateRow(r)
    <3>1. /\ task[r].sub \in Requests /\ task[r].plan \in Plans
          /\ row.stripe \in Requests
      BY <2>0, <2>3 DEF UpdateRow, Held, Rows, Task, Row
    <3>2. row' \in Row
      BY <2>0, <2>3, <3>1 DEF UpdateRow, Row, Status
    <3>3. drifted' \subseteq {"plan", "cancel"} /\ misled' \subseteq Requests
          /\ stray' \subseteq Requests
      BY <2>3, <3>1 DEF UpdateRow
    <3> QED BY <1>0, <2>3, <3>2, <3>3 DEF UpdateRow
  <2>4. CASE StripeCancels(r)
    <3> DEFINE s == task[r].sub
    <3>1. s \in Requests /\ subs[s] \in Sub
      BY <2>4 DEF StripeCancels, Held, OnRow
    <3>2. [subs[s] EXCEPT !.state = "CANCELLED"] \in Sub
      BY <3>1 DEF Sub, Status, StripeStatus
    <3>3. subs' \in [Requests -> Sub] /\ changes' \in 0 .. MaxEvents
          /\ changes + 1 \in 1 .. MaxEvents
      BY <2>4, <3>1, <3>2 DEF StripeCancels, Change, BillingAssumption
    <3>4. events' \subseteq Event
      <4>1. [sub |-> s, status |-> "CANCELLED", number |-> changes + 1, unpaid |-> FALSE]
              \in Event
        BY <3>1, <3>3 DEF Event, Status, StripeStatus
      <4> QED BY <2>4, <3>1, <4>1 DEF StripeCancels, Change, Sub
    <3> QED BY <2>4, <3>3, <3>4 DEF StripeCancels
  <2>5. CASE CancelRow(r)
    BY <2>0, <2>5, <1>0 DEF CancelRow, Row, Status, Rows, OnRow
  <2>6. CASE StripeFlags(r)
    <3>1. task[r].sub \in Requests /\ subs[task[r].sub] \in Sub
      BY <2>6 DEF StripeFlags, Held, OnRow
    <3>2. subs' \in [Requests -> Sub]
      BY <2>6, <3>1 DEF StripeFlags, Sub
    <3> QED BY <2>6, <3>2 DEF StripeFlags
  <2>7. CASE FlagRow(r)
    BY <2>0, <2>7, <1>0 DEF FlagRow, Row, Settles
  <2>8. CASE StripeChangesPlan(r)
    <3>1. /\ task[r].sub \in Requests /\ subs[task[r].sub] \in Sub
          /\ task[r].plan \in Plans
      BY <2>0, <2>8 DEF StripeChangesPlan, Held, OnRow, Task
    <3>2. subs' \in [Requests -> Sub]
      BY <2>8, <3>1 DEF StripeChangesPlan, Sub
    <3> QED BY <2>8, <3>2 DEF StripeChangesPlan
  <2>9. CASE ChangeRowPlan(r)
    BY <2>0, <2>9, <1>0 DEF ChangeRowPlan, Row, Settles, Task
  <2>10. CASE Sync(r)
    BY <2>0, <2>10, <1>0 DEF Sync, Row, Task, Rows, OnRow
  <2> QED BY <1>2, <2>1, <2>2, <2>3, <2>4, <2>5, <2>6, <2>7, <2>8, <2>9, <2>10
<1>3. ASSUME NEW k \in Requests, NEW c \in Cards, CompleteSetup(k, c) PROVE TypeOK'
  BY <1>3 DEF CompleteSetup, TypeOK
<1>4. ASSUME NEW s \in Requests, StripeMoves(s) PROVE TypeOK'
  <2>1. PICK to \in Moves(subs[s]), unpaid \in BOOLEAN :
          Change(s, [subs[s] EXCEPT !.state = to], unpaid)
    BY <1>4 DEF StripeMoves
  <2>2. to \in StripeStatus
    BY <2>1 DEF Moves, Status, StripeStatus
  <2>3. [subs[s] EXCEPT !.state = to] \in Sub
    BY <2>2 DEF Sub, TypeOK
  <2>4. changes + 1 \in 1 .. MaxEvents /\ changes' = changes + 1
    BY <2>1 DEF Change, TypeOK, BillingAssumption
  <2>5. [sub |-> s, status |-> to, number |-> changes + 1, unpaid |-> unpaid] \in Event
    BY <2>2, <2>4 DEF Event
  <2>6. events' \subseteq Event /\ subs' \in [Requests -> Sub]
    BY <2>1, <2>3, <2>5 DEF Change, TypeOK, Sub
  <2> QED BY <1>4, <2>4, <2>6 DEF StripeMoves, TypeOK
<1>5. ASSUME NEW e \in Pending, Handles(e) PROVE TypeOK'
  <2>0. /\ row \in Row /\ events \subseteq Event /\ handlers \subseteq Handler
        /\ latest \in [Requests -> 0 .. MaxEvents]
        /\ e.sub \in Requests /\ e.number \in 0 .. MaxEvents
    BY DEF TypeOK, Pending, Event, Handler
  <2>1. Hears(e) => latest' \in [Requests -> 0 .. MaxEvents]
    BY <2>0 DEF Hears
  <2>2. CASE FindRow(e)
    <3>1. row.stripe = e.sub => row.status \in Status
      BY <2>0 DEF Rows, Row, BillingAssumption
    <3>2. e \in Event
      BY <2>0, <2>2 DEF FindRow
    <3>3. handlers' \subseteq Handler
      <4> DEFINE h == [sub |-> e.sub, status |-> e.status, number |-> e.number,
                       unpaid |-> e.unpaid,
                       writes |-> IF e.status = "INCOMPLETE_EXPIRED" THEN row.status
                                                                     ELSE e.status]
      <4>1. row.stripe = e.sub => h \in Handler
        BY <3>1, <3>2 DEF Handler, Event, StripeStatus
      <4>2. handlers' = handlers \/ (row.stripe = e.sub /\ handlers' = handlers \cup {h})
        BY <2>2 DEF FindRow
      <4> HIDE DEF h
      <4> QED BY <2>0, <4>1, <4>2
    <3>4. latest' = latest \/ Hears(e)
      BY <2>2 DEF FindRow
    <3> QED BY <2>1, <2>2, <3>3, <3>4 DEF FindRow, TypeOK
  <2>3. CASE WriteRow(e)
    <3>1. e \in Handler /\ Hears(e)
      BY <2>0, <2>3 DEF WriteRow
    <3>2. [e EXCEPT !.unpaid = FALSE] \in Handler /\ e.writes \in Status
      BY <3>1 DEF Handler
    <3>3. row' \in Row
      BY <2>0, <2>3, <3>2 DEF WriteRow, Row
    <3>4. handlers' \subseteq Handler
      BY <2>0, <2>3, <3>2 DEF WriteRow
    <3>5. misled' \subseteq Requests
      <4>1. row.status # "NONE"
        BY <2>3 DEF WriteRow, Handled
      <4>2. row.stripe \in Requests
        BY <4>1 DEF Rows
      <4> QED BY <2>3, <4>2 DEF WriteRow, TypeOK
    <3> QED BY <2>1, <2>3, <3>1, <3>3, <3>4, <3>5 DEF WriteRow, TypeOK
  <2>4. CASE LoseEvent(e)
    <3>1. faults' \in 0 .. MaxFaults /\ misled' \subseteq Requests /\ Hears(e)
          /\ events' \subseteq Event /\ handlers' \subseteq Handler
      BY <2>0, <2>4 DEF LoseEvent, TypeOK, BillingAssumption
    <3> QED BY <2>1, <2>4, <3>1 DEF LoseEvent, TypeOK
  <2> QED BY <1>5, <2>2, <2>3, <2>4 DEF Handles
<1>6. CASE UNCHANGED vars
  BY <1>6 DEF vars, TypeOK
<1>7. (\E e \in events : FindRow(e)) \/ (\E h \in handlers : WriteRow(h))
      \/ (\E e \in Pending : LoseEvent(e)) => \E e \in Pending : Handles(e)
  BY DEF Handles, Pending
<1> QED BY <1>1, <1>2, <1>3, <1>4, <1>5, <1>6, <1>7, RequestsWalk
        DEF Next, CardStep, SubscriptionStep

-----------------------------------------------------------------------------
(* The other parts of the invariant, each over the cases of NextCases *)

\* A call that writes the row is the last of its process.
LEMMA RowWritten ==
  ASSUME NEW r \in Requests,
         \/ CreateRow(r) \/ UpdateRow(r) \/ CancelRow(r) \/ FlagRow(r)
         \/ ChangeRowPlan(r) \/ Sync(r)
  PROVE  /\ pc' = [pc EXCEPT ![r] = "done"] /\ task' = [task EXCEPT ![r] = NoTask]
         /\ UNCHANGED <<customers, subs, keys, events, changes, handlers, latest>>
BY DEF CreateRow, UpdateRow, CancelRow, FlagRow, ChangeRowPlan, Sync, stripeVars, Finish

\* What processes carry stays true until they end: no subscription is unmade, and
\* a cancelled one stays cancelled.
LEMMA HeldStep ==
  TypeOK /\ Held /\ Rows /\ Numbered /\ Handled /\ [Next]_vars => Held'
<1> SUFFICES ASSUME TypeOK, Held, Rows, Numbered, Handled, [Next]_vars PROVE Held'
  OBVIOUS
<1> USE DEF TypeOK, GoTo, Finish, OnRow
<1>1. CASE Stays
  BY <1>1 DEF Stays, books, Held
<1>2. ASSUME NEW r \in Requests, Walks(r) PROVE Held'
  <2>1. PICK t \in Task, l \in Labels :
          /\ Fits(r, t, l) /\ task' = [task EXCEPT ![r] = t]
          /\ pc' = [pc EXCEPT ![r] = l]
          /\ subs[r].state # "none" => l = "done"
    BY <1>2 DEF Walks
  <2>2. UNCHANGED <<subs, keys>> /\ customers \subseteq customers'
    BY <1>2 DEF Walks, books
  <2>3. /\ task'[r] = t /\ pc'[r] = l
        /\ \A q \in Requests \ {r} : task'[q] = task[q] /\ pc'[q] = pc[q]
    BY <2>1
  <2>4. t.sub \in Requests => subs[t.sub].state # "NONE"
    BY DEF Sub, Status, StripeStatus
  <2>5. l \in {"rowPlan"} => t.sub \in Requests /\ subs[t.sub].state # "none"
    BY <2>1 DEF Fits, Held
  <2> SUFFICES ASSUME NEW q \in Requests PROVE Held!(q)'
    BY DEF Held
  <2>6. CASE q = r
    BY <2>1, <2>2, <2>3, <2>4, <2>5, <2>6 DEF Fits, Labels
  <2>7. CASE q # r
    BY <2>2, <2>3, <2>7 DEF Held
  <2> QED BY <2>6, <2>7
<1>3. ASSUME NEW r \in Requests, Subscribe(r), pc'[r] # "done" PROVE Held'
  <2>0. task[r].op \in {"confirm", "resubscribe"} /\ pc[r] = "subscribe"
        /\ subs[r].state = "none" /\ customers' = customers
    BY <1>3 DEF Subscribe, Held
  <2>1. PICK s \in Requests :
          /\ task' = [task EXCEPT ![r].sub = s] /\ subs'[s].state # "none"
          /\ \A q \in Requests \ {r} : subs'[q] = subs[q]
    <3> DEFINE known == {k \in keys : k[1] = task[r].op /\ k[2] = task[r].plan}
               new == [state  |-> IF task[r].op = "confirm" THEN "TRIAL" ELSE "INCOMPLETE",
                       plan |-> task[r].plan, atEnd |-> FALSE]
    <3>1. \/ /\ task' = [task EXCEPT ![r].sub = r]
             /\ subs' = [subs EXCEPT ![r] = new]
          \/ /\ \E k \in known : task' = [task EXCEPT ![r].sub = k[3]]
             /\ UNCHANGED <<keys, subs>>
      BY <1>3 DEF Subscribe
    <3>2. ASSUME NEW k \in known
          PROVE  k[3] \in Requests /\ subs[k[3]].state # "none"
      BY DEF Rows
    <3>3. new.state # "none"
      OBVIOUS
    <3> HIDE DEF new, known
    <3>4. CASE UNCHANGED <<keys, subs>> /\ \E k \in known : task' = [task EXCEPT ![r].sub = k[3]]
      <4>1. PICK k \in known : task' = [task EXCEPT ![r].sub = k[3]]
        BY <3>4
      <4>2. k[3] \in Requests /\ subs'[k[3]].state # "none"
        BY <3>2, <3>4
      <4> QED BY <3>4, <4>1, <4>2
    <3>5. CASE /\ task' = [task EXCEPT ![r].sub = r]
               /\ subs' = [subs EXCEPT ![r] = new]
      BY <3>3, <3>5
    <3> QED BY <3>1, <3>4, <3>5
  <2>2. pc' = [pc EXCEPT ![r] = IF task[r].op = "confirm" THEN "create" ELSE "update"]
    BY <1>3 DEF Subscribe
  <2>3. /\ task'[r].sub = s /\ task'[r].plan = task[r].plan
        /\ \A q \in Requests \ {r} : task'[q] = task[q] /\ pc'[q] = pc[q]
    BY <2>1, <2>2 DEF Task
  <2>4. pc'[r] = IF task[r].op = "confirm" THEN "create" ELSE "update"
    BY <2>2
  <2> QED BY <2>0, <2>1, <2>3, <2>4 DEF Held
<1>4. ASSUME NEW r \in Requests,
             \/ CreateRow(r) \/ UpdateRow(r) \/ CancelRow(r) \/ FlagRow(r)
             \/ ChangeRowPlan(r) \/ Sync(r)
      PROVE  Held'
  <2>1. /\ UNCHANGED <<subs, keys, customers>>
        /\ pc' = [pc EXCEPT ![r] = "done"] /\ task' = [task EXCEPT ![r] = NoTask]
    BY <1>4, RowWritten
  <2> QED BY <2>1 DEF Held
<1>5. ASSUME NEW r \in Requests, StripeCancels(r) \/ StripeFlags(r) \/ StripeChangesPlan(r)
      PROVE  Held'
  <2>1. task[r].sub \in Requests /\ Restated(task[r].sub) /\ pc[r] = "stripe"
    BY <1>5, StripeRestates DEF StripeCancels, StripeFlags, StripeChangesPlan
  <2>2. /\ task' = task /\ \A q \in Requests \ {r} : pc'[q] = pc[q]
        /\ pc'[r] \in {"rowCancelled", "rowFlag", "downgrade", "rowPlan"}
        /\ pc'[r] = "rowCancelled" => subs'[task[r].sub].state = "CANCELLED"
    BY <1>5, <2>1 DEF StripeCancels, StripeFlags, StripeChangesPlan, Change, Sub
  <2>3. \A q \in Requests :
          /\ subs'[q].state = "none" <=> subs[q].state = "none"
          /\ subs[q].state = "CANCELLED" => subs'[q].state = "CANCELLED"
    BY <2>1 DEF Restated, Live
  <2> QED BY <2>1, <2>2, <2>3 DEF Held, Restated
<1>6. ASSUME NEW s \in Requests, StripeMoves(s) PROVE Held'
  <2>1. Restated(s) /\ pc' = pc
    BY <1>6, MovesRestate
  <2>2. \A q \in Requests :
          /\ subs'[q].state = "none" <=> subs[q].state = "none"
          /\ subs[q].state = "CANCELLED" => subs'[q].state = "CANCELLED"
    BY <2>1 DEF Restated, Live
  <2> QED BY <2>1, <2>2 DEF Held, Restated
<1>7. ASSUME NEW e \in Pending, Handles(e) PROVE Held'
  <2>1. UNCHANGED <<customers, subs, pc, task>>
    BY <1>7, HandlesPasses DEF Passes
  <2> QED BY <2>1 DEF Held
<1> QED BY <1>1, <1>2, <1>3, <1>4, <1>5, <1>6, <1>7, NextCases DEF Writes

\* Until the first row is created only confirmations write, and none changes a
\* subscription that was made.
LEMMA RowsStep ==
  TypeOK /\ Held /\ Rows /\ Numbered /\ Handled /\ [Next]_vars => Rows'
<1> SUFFICES ASSUME TypeOK, Held, Rows, Numbered, Handled, [Next]_vars PROVE Rows'
  OBVIOUS
<1> USE DEF TypeOK, GoTo, Finish, OnRow
<1>0. \A k \in keys : k[3] \in Requests
  OBVIOUS
<1>1. CASE Stays
  BY <1>1 DEF Stays, books, Rows
<1>2. ASSUME NEW r \in Requests, Walks(r) PROVE Rows'
  <2>1. PICK t \in Task, l \in Labels :
          /\ Fits(r, t, l) /\ task' = [task EXCEPT ![r] = t]
          /\ pc' = [pc EXCEPT ![r] = l]
    BY <1>2 DEF Walks
  <2>2. /\ UNCHANGED <<subs, keys, row>> /\ task'[r] = t /\ pc'[r] = l
        /\ \A q \in Requests \ {r} : task'[q] = task[q] /\ pc'[q] = pc[q]
    BY <1>2, <2>1 DEF Walks, books
  <2>3. row.status = "NONE" => /\ l \notin {"update"} \cup OnRow
                               /\ l = "subscribe" => t.op = "confirm"
                               /\ l # "create"
    BY <2>1 DEF Fits, Rows
  <2>4. ASSUME NEW q \in Requests, row.status = "NONE"
        PROVE  /\ pc'[q] \notin {"update"} \cup OnRow
               /\ pc'[q] = "subscribe" => task'[q].op = "confirm"
               /\ pc'[q] = "create" => /\ subs'[task'[q].sub].plan = task'[q].plan
                                       /\ ~ subs'[task'[q].sub].atEnd
    <3>1. CASE q = r
      BY <2>2, <2>3, <2>4, <3>1
    <3>2. CASE q # r
      BY <2>2, <2>4, <3>2 DEF Rows
    <3> QED BY <3>1, <3>2
  <2>5. UNCHANGED <<subs, keys, row>>
    BY <2>2
  <2> QED BY <2>4, <2>5 DEF Rows
<1>3. ASSUME NEW r \in Requests, Subscribe(r), pc'[r] # "done" PROVE Rows'
  <2>0. pc[r] = "subscribe" /\ subs[r].state = "none" /\ row' = row
    BY <1>3 DEF Subscribe, Held, rowVars
  <2>1. pc' = [pc EXCEPT ![r] = IF task[r].op = "confirm" THEN "create" ELSE "update"]
    BY <1>3 DEF Subscribe
  <2>2. \A q \in Requests \ {r} : task'[q] = task[q] /\ pc'[q] = pc[q]
    BY <1>3 DEF Subscribe
  <2>3. pc'[r] = IF task[r].op = "confirm" THEN "create" ELSE "update"
    BY <2>1
  <2>4. CASE UNCHANGED <<keys, subs>>
    <3>1. PICK k \in keys : k[2] = task[r].plan /\ task' = [task EXCEPT ![r].sub = k[3]]
      <4>1. subs'[r].state = "none"
        BY <2>0, <2>4
      <4> QED BY <1>3, <2>4, <4>1 DEF Subscribe
    <3>2. task'[r].sub = k[3] /\ task'[r].plan = task[r].plan
      BY <3>1 DEF Task
    <3> QED BY <2>0, <2>2, <2>3, <2>4, <3>1, <3>2 DEF Rows
  <2>5. CASE ~ UNCHANGED <<keys, subs>>
    <3>1. /\ keys' \subseteq keys \cup {<<task[r].op, task[r].plan, r>>}
          /\ subs'[r].plan = task[r].plan /\ subs'[r].atEnd = FALSE
          /\ task'[r].sub = r /\ task'[r].plan = task[r].plan
          /\ subs'[r].state # "none"
          /\ \A q \in Requests \ {r} : subs'[q] = subs[q]
      BY <1>3, <2>5 DEF Subscribe, Task
    <3>2. \A k \in keys : k[3] # r
      BY <2>0 DEF Rows
    <3>3. \A k \in keys' : \/ k \in keys /\ subs'[k[3]] = subs[k[3]]
                           \/ k[2] = task[r].plan /\ k[3] = r
      BY <1>0, <3>1, <3>2
    <3>4. row.status # "NONE" => subs'[row.stripe] = subs[row.stripe]
      BY <2>0, <3>1 DEF Rows
    <3>5. \A q \in Requests \ {r} : pc[q] = "create" => subs'[task[q].sub] = subs[task[q].sub]
      BY <2>0, <3>1 DEF Held
    <3> QED BY <2>0, <2>2, <2>3, <3>1, <3>3, <3>4, <3>5 DEF Rows
  <2> QED BY <2>4, <2>5
<1>4. ASSUME NEW r \in Requests,
             \/ CreateRow(r) \/ UpdateRow(r) \/ CancelRow(r) \/ FlagRow(r)
             \/ ChangeRowPlan(r) \/ Sync(r)
      PROVE  Rows'
  <2>1. /\ UNCHANGED <<subs, keys>>
        /\ pc' = [pc EXCEPT ![r] = "done"] /\ task' = [task EXCEPT ![r] = NoTask]
    BY <1>4, RowWritten
  <2>2. row' = row \/ (/\ row'.status # "NONE" /\ row'.stripe \in Requests
                       /\ subs[row'.stripe].state # "none")
    <3>1. task[r].sub \in Requests /\ subs[task[r].sub].state # "none"
      BY <1>4 DEF CreateRow, UpdateRow, CancelRow, FlagRow, ChangeRowPlan, Sync, Held
    <3>2. CASE CreateRow(r)
      BY <3>1, <3>2 DEF CreateRow
    <3>3. CASE UpdateRow(r)
      BY <3>1, <3>3 DEF UpdateRow, Row
    <3>4. CASE CancelRow(r)
      BY <3>4 DEF CancelRow, Row, Rows
    <3>5. CASE FlagRow(r)
      BY <3>5 DEF FlagRow, Row, Rows
    <3>6. CASE ChangeRowPlan(r)
      BY <3>6 DEF ChangeRowPlan, Row, Rows
    <3>7. CASE Sync(r)
      BY <3>7 DEF Sync, Row, Rows, Held
    <3> QED BY <1>4, <3>2, <3>3, <3>4, <3>5, <3>6, <3>7
  <2> QED BY <2>1, <2>2 DEF Rows
<1>5. ASSUME NEW s \in Requests, Restated(s),
             row.status = "NONE" => pc' = pc /\ subs'[s].plan = subs[s].plan
                                             /\ subs'[s].atEnd = subs[s].atEnd
      PROVE  Rows'
  <2>1. \A q \in Requests : subs'[q].state = "none" <=> subs[q].state = "none"
    BY <1>5 DEF Restated, Live
  <2>2. UNCHANGED <<keys, row, task>>
    BY <1>5 DEF Restated
  <2>3. row.status = "NONE" => \A q \in Requests : /\ subs'[q].plan = subs[q].plan
                                                   /\ subs'[q].atEnd = subs[q].atEnd
    BY <1>5 DEF Restated
  <2>4. \A q \in Requests : pc[q] = "create" => task[q].sub \in Requests
    BY DEF Held
  <2> QED BY <1>0, <1>5, <2>1, <2>2, <2>3, <2>4 DEF Rows
<1>6. ASSUME NEW r \in Requests, StripeCancels(r) \/ StripeFlags(r) \/ StripeChangesPlan(r)
      PROVE  Rows'
  <2>1. row.status # "NONE"
    BY <1>6 DEF StripeCancels, StripeFlags, StripeChangesPlan, Rows
  <2> QED BY <1>5, <1>6, <2>1, StripeRestates
<1>7. ASSUME NEW s \in Requests, StripeMoves(s) PROVE Rows'
  <2>1. subs'[s].plan = subs[s].plan /\ subs'[s].atEnd = subs[s].atEnd
    BY <1>7 DEF StripeMoves, Change, Sub
  <2> QED BY <1>5, <1>7, <2>1, MovesRestate
<1>8. ASSUME NEW e \in Pending, Handles(e) PROVE Rows'
  <2>1. /\ UNCHANGED <<subs, keys, pc, task>> /\ row'.stripe = row.stripe
        /\ row'.cancelRequested = row.cancelRequested
        /\ row'.status = "NONE" <=> row.status = "NONE"
    BY <1>8, HandlesPasses DEF Passes
  <2> QED BY <2>1 DEF Rows
<1> QED BY <1>1, <1>2, <1>3, <1>4, <1>6, <1>7, <1>8, NextCases DEF Writes

\* Events are numbered as Stripe made the changes, and none is heard before.
LEMMA NumberedStep ==
  TypeOK /\ Held /\ Rows /\ Numbered /\ Handled /\ [Next]_vars => Numbered'
<1> SUFFICES ASSUME TypeOK, Held, Rows, Numbered, Handled, [Next]_vars PROVE Numbered'
  OBVIOUS
<1> USE DEF GoTo, Finish
<1>0. /\ changes \in Nat /\ latest \in [Requests -> Nat]
      /\ \A e \in Pending : e.number \in Nat /\ e.sub \in Requests
      /\ task \in [Requests -> Task]
  BY DEF TypeOK, Event, Handler, Pending
<1>1. CASE Stays
  BY <1>1 DEF Stays, books, Numbered, Pending
<1>2. ASSUME NEW r \in Requests, Walks(r) PROVE Numbered'
  <2>1. PICK t \in Task : t.heard <= changes /\ task' = [task EXCEPT ![r] = t]
    BY <1>2 DEF Walks, Fits
  <2>2. \A q \in Requests : task'[q].heard <= changes
    BY <1>0, <2>1 DEF Numbered
  <2> QED BY <1>2, <2>2 DEF Numbered, Walks, books, Pending
<1>3. ASSUME NEW r \in Requests, Subscribe(r), pc'[r] # "done" PROVE Numbered'
  <2>1. UNCHANGED <<events, handlers, changes, latest>>
    BY <1>3 DEF Subscribe, rowVars
  <2>2. \/ \E s : task' = [task EXCEPT ![r].sub = s]
        \/ pc' = [pc EXCEPT ![r] = "done"]
    BY <1>3 DEF Subscribe
  <2>3. \A q \in Requests : task'[q].heard = task[q].heard
    BY <1>0, <1>3, <2>2 DEF Task, TypeOK
  <2> QED BY <2>1, <2>3 DEF Numbered, Pending
<1>4. ASSUME NEW r \in Requests,
             \/ CreateRow(r) \/ UpdateRow(r) \/ CancelRow(r) \/ FlagRow(r)
             \/ ChangeRowPlan(r) \/ Sync(r)
      PROVE  Numbered'
  <2>1. UNCHANGED <<events, handlers, changes, latest>> /\ task' = [task EXCEPT ![r] = NoTask]
    BY <1>4, RowWritten
  <2>2. \A q \in Requests : task'[q] = task[q] \/ task'[q].heard = 0
    BY <1>0, <2>1 DEF NoTask
  <2> QED BY <1>0, <2>1, <2>2 DEF Numbered, Pending
<1>5. ASSUME NEW s \in Requests, Restated(s) PROVE Numbered'
  <2>1. UNCHANGED <<task, handlers, latest>>
    BY <1>5 DEF Restated
  <2>2. CASE UNCHANGED <<events, changes>>
    BY <2>1, <2>2 DEF Numbered, Pending
  <2>3. ASSUME NEW n, n.number = changes + 1, changes' = changes + 1,
               events' = events \cup {n}
        PROVE  Numbered'
    <3>1. Pending' = Pending \cup {n} /\ n \notin Pending
      BY <1>0, <2>1, <2>3 DEF Pending, Numbered
    <3>2. \A e \in Pending : e.number < n.number
      BY <1>0, <2>3 DEF Numbered
    <3>3. events' \cap handlers' = {}
      BY <2>1, <2>3, <3>1 DEF Pending, Numbered
    <3>4. \A e, f \in Pending' : e.number = f.number => e = f
      BY <1>0, <3>1, <3>2 DEF Numbered
    <3> QED BY <1>0, <2>1, <2>3, <3>1, <3>3, <3>4 DEF Numbered, Task
  <2> QED BY <1>5, <2>2, <2>3 DEF Restated
<1>6. ASSUME NEW r \in Requests, StripeCancels(r) \/ StripeFlags(r) \/ StripeChangesPlan(r)
      PROVE  Numbered'
  BY <1>5, <1>6, StripeRestates
<1>7. ASSUME NEW s \in Requests, StripeMoves(s) PROVE Numbered'
  BY <1>5, <1>7, MovesRestate
<1>8. ASSUME NEW e \in Pending, Handles(e) PROVE Numbered'
  <2>1. Passes(e)
    BY <1>8, HandlesPasses
  <2>2. UNCHANGED <<changes, task>> /\ \A s \in Requests : latest'[s] \in {latest[s], e.number}
    BY <1>0, <2>1 DEF Passes, Hears
  <2>3. /\ \A f \in Pending' : f.number <= changes
        /\ \A f, g \in Pending' : f.number = g.number => f = g
    <3>1. CASE Pending' = Pending \ {e}
      BY <3>1 DEF Numbered
    <3>2. ASSUME NEW h, h.number = e.number, Pending' = (Pending \ {e}) \cup {h}
          PROVE  /\ \A f \in Pending' : f.number <= changes
                 /\ \A f, g \in Pending' : f.number = g.number => f = g
      <4>1. \A f \in Pending \ {e} : f.number # h.number
        BY <3>2 DEF Numbered
      <4> QED BY <3>2, <4>1 DEF Numbered
    <3> QED BY <2>1, <3>1, <3>2 DEF Passes
  <2>4. events' \cap handlers' = {}
    <3>1. CASE FindRow(e)
      <4>1. /\ e \in events /\ events' = events \ {e}
            /\ \/ handlers' = handlers
               \/ \E h : h.number = e.number /\ handlers' = handlers \cup {h}
        BY <3>1 DEF FindRow
      <4>2. \A f \in events \ {e} : f.number # e.number
        BY DEF Numbered, Pending
      <4> QED BY <4>1, <4>2 DEF Numbered
    <3>2. CASE WriteRow(e)
      <4>1. e \in handlers /\ e \notin events /\ events' = events
        BY <3>2 DEF WriteRow, stripeVars, Numbered
      <4>2. \A f \in events : f.number # e.number
        BY <4>1 DEF Numbered, Pending
      <4>3. [e EXCEPT !.unpaid = FALSE].number = e.number
        BY <4>1 DEF TypeOK, Handler
      <4>4. handlers' \subseteq handlers \cup {[e EXCEPT !.unpaid = FALSE]}
        BY <3>2 DEF WriteRow
      <4> QED BY <4>1, <4>2, <4>3, <4>4 DEF Numbered
    <3>3. CASE LoseEvent(e)
      BY <3>3 DEF LoseEvent, Numbered
    <3> QED BY <1>8, <3>1, <3>2, <3>3 DEF Handles
  <2> QED BY <1>0, <2>2, <2>3, <2>4 DEF Numbered
<1> QED BY <1>1, <1>2, <1>3, <1>4, <1>6, <1>7, <1>8, NextCases DEF Writes

\* What a handler writes is fixed when it finds the row, and the row stays.
LEMMA HandledStep ==
  TypeOK /\ Held /\ Rows /\ Numbered /\ Handled /\ [Next]_vars => Handled'
<1> SUFFICES ASSUME TypeOK, Held, Rows, Numbered, Handled, [Next]_vars PROVE Handled'
  OBVIOUS
<1>0. row \in Row /\ handlers \subseteq Handler
  BY DEF TypeOK
<1>1. ASSUME handlers' = handlers, row'.status = "NONE" => row.status = "NONE"
      PROVE  Handled'
  BY <1>1 DEF Handled
<1>2. CASE Stays
  BY <1>1, <1>2 DEF Stays, books
<1>3. ASSUME NEW r \in Requests, Walks(r) PROVE Handled'
  BY <1>1, <1>3 DEF Walks, books
<1>4. ASSUME NEW r \in Requests, Subscribe(r) PROVE Handled'
  BY <1>1, <1>4 DEF Subscribe, rowVars
<1>5. ASSUME NEW r \in Requests,
             \/ CreateRow(r) \/ UpdateRow(r) \/ CancelRow(r) \/ FlagRow(r)
             \/ ChangeRowPlan(r) \/ Sync(r)
      PROVE  Handled'
  <2>1. handlers' = handlers
    BY <1>5, RowWritten
  <2>2. row'.status = "NONE" => row.status = "NONE"
    <3>1. CASE CreateRow(r)
      BY <3>1 DEF CreateRow
    <3>2. CASE UpdateRow(r) \/ CancelRow(r)
      BY <1>0, <3>2 DEF UpdateRow, CancelRow, Row
    <3>3. CASE FlagRow(r) \/ ChangeRowPlan(r)
      BY <1>0, <3>3 DEF FlagRow, ChangeRowPlan, Row
    <3>4. CASE Sync(r)
      BY <1>0, <3>4 DEF Sync, Row, Held
    <3> QED BY <1>5, <3>1, <3>2, <3>3, <3>4
  <2> QED BY <1>1, <2>1, <2>2
<1>6. ASSUME NEW s \in Requests, Restated(s) PROVE Handled'
  BY <1>1, <1>6 DEF Restated
<1>7. ASSUME NEW r \in Requests, StripeCancels(r) \/ StripeFlags(r) \/ StripeChangesPlan(r)
      PROVE  Handled'
  BY <1>6, <1>7, StripeRestates
<1>8. ASSUME NEW s \in Requests, StripeMoves(s) PROVE Handled'
  BY <1>6, <1>8, MovesRestate
<1>9. ASSUME NEW e \in Pending, Handles(e) PROVE Handled'
  <2>1. row'.status = "NONE" <=> row.status = "NONE"
    BY <1>9, HandlesPasses DEF Passes
  <2>2. CASE FindRow(e)
    <3>1. row.stripe = e.sub => row.status # "NONE"
      <4>1. e.sub \in Requests
        BY DEF TypeOK, Pending, Event, Handler
      <4> QED BY <4>1 DEF Rows, BillingAssumption
    <3>2. \/ handlers' = handlers
          \/ /\ row.stripe = e.sub
             /\ \E h : /\ h.status # "INCOMPLETE_EXPIRED" => h.writes = h.status
                       /\ handlers' = handlers \cup {h}
      BY <2>2 DEF FindRow
    <3> QED BY <2>1, <3>1, <3>2 DEF Handled
  <2>3. CASE WriteRow(e)
    <3> DEFINE h == [e EXCEPT !.unpaid = FALSE]
    <3>1. e \in handlers /\ h.status = e.status /\ h.writes = e.writes
      BY <1>0, <2>3 DEF WriteRow, Handler
    <3>2. handlers' \subseteq handlers \cup {h}
      BY <2>3 DEF WriteRow
    <3> HIDE DEF h
    <3> QED BY <2>1, <3>1, <3>2 DEF Handled
  <2>4. CASE LoseEvent(e)
    BY <2>1, <2>4 DEF LoseEvent, Handled
  <2> QED BY <1>9, <2>2, <2>3, <2>4 DEF Handles
<1> QED BY <1>2, <1>3, <1>4, <1>5, <1>7, <1>8, <1>9, NextCases DEF Writes

\* The newest event of a subscription tells its state, on its way or heard.
LEMMA ReportedStep ==
  TypeOK /\ Held /\ Rows /\ Numbered /\ Handled /\ Reported /\ [Next]_vars => Reported'
<1> SUFFICES ASSUME TypeOK, Held, Rows, Numbered, Handled, Reported, [Next]_vars PROVE Reported'
  OBVIOUS
<1>0. /\ changes \in Nat /\ latest \in [Requests -> Nat] /\ subs \in [Requests -> Sub]
      /\ \A e \in Pending : e.number \in Nat \ {0} /\ e.sub \in Requests
      /\ \A e \in Pending : e.number <= changes
  BY DEF TypeOK, Event, Handler, Pending, Numbered
<1>1. ASSUME Pending' = Pending, latest' = latest,
             \A s \in Requests : \/ subs'[s].state = subs[s].state
                                 \/ subs'[s].state \in {"TRIAL", "INCOMPLETE"}
      PROVE  Reported'
  BY <1>1 DEF Reported, Awaited, Heard
<1>2. CASE Stays
  BY <1>1, <1>2 DEF Stays, books, Pending
<1>3. ASSUME NEW r \in Requests, Walks(r) PROVE Reported'
  BY <1>1, <1>3 DEF Walks, books, Pending
<1>4. ASSUME NEW r \in Requests, Subscribe(r) PROVE Reported'
  <2>1. Pending' = Pending /\ latest' = latest
    BY <1>4 DEF Subscribe, rowVars, Pending
  <2>2. \A s \in Requests : \/ subs'[s].state = subs[s].state
                            \/ subs'[s].state \in {"TRIAL", "INCOMPLETE"}
    BY <1>0, <1>4 DEF Subscribe
  <2> QED BY <1>1, <2>1, <2>2
<1>5. ASSUME NEW r \in Requests,
             \/ CreateRow(r) \/ UpdateRow(r) \/ CancelRow(r) \/ FlagRow(r)
             \/ ChangeRowPlan(r) \/ Sync(r)
      PROVE  Reported'
  <2>1. Pending' = Pending /\ latest' = latest /\ subs' = subs
    BY <1>5, RowWritten DEF Pending
  <2> QED BY <1>1, <2>1
<1>6. ASSUME NEW s \in Requests, Restated(s) PROVE Reported'
  <2>1. latest' = latest /\ \A q \in Requests \ {s} : subs'[q] = subs[q]
    BY <1>6 DEF Restated
  <2>2. CASE UNCHANGED <<events, handlers>> /\ subs'[s].state = subs[s].state
    <3>1. Pending' = Pending
      BY <2>2 DEF Pending
    <3> QED BY <1>1, <2>1, <2>2, <3>1
  <2>3. ASSUME NEW n, n.sub = s, n.status = subs'[s].state, n.number = changes + 1,
               Pending' = Pending \cup {n}
        PROVE  Reported'
    <3>1. Awaited(s)'
      BY <1>0, <2>3 DEF Awaited
    <3>2. \A q \in Requests \ {s} : Awaited(q) => Awaited(q)'
      BY <2>1, <2>3 DEF Awaited
    <3>3. \A q \in Requests \ {s} : Heard(q) => Heard(q)'
      BY <2>1, <2>3 DEF Heard
    <3> QED BY <2>1, <3>1, <3>2, <3>3 DEF Reported
  <2>4. \A n : UNCHANGED handlers /\ events' = events \cup {n} => Pending' = Pending \cup {n}
    BY DEF Pending
  <2> QED BY <1>6, <2>2, <2>3, <2>4 DEF Restated
<1>7. ASSUME NEW r \in Requests, StripeCancels(r) \/ StripeFlags(r) \/ StripeChangesPlan(r)
      PROVE  Reported'
  BY <1>6, <1>7, StripeRestates
<1>8. ASSUME NEW s \in Requests, StripeMoves(s) PROVE Reported'
  BY <1>6, <1>8, MovesRestate
<1>9. ASSUME NEW e \in Pending, Handles(e) PROVE Reported'
  <2>0. Passes(e) /\ subs' = subs
    BY <1>9, HandlesPasses DEF Passes
  <2> SUFFICES ASSUME NEW s \in Requests,
                      subs[s].state \in {"ACTIVE", "PAST_DUE", "CANCELLED"}
               PROVE  Awaited(s)' \/ (Heard(s)' /\ latest'[s] > 0)
    BY <2>0 DEF Reported
  <2>1. /\ latest' \in [Requests -> Nat] /\ latest'[s] >= latest[s]
        /\ Hears(e) => latest'[e.sub] >= e.number
        /\ s # e.sub => latest'[s] = latest[s]
    BY <1>0, <2>0 DEF Passes, Hears
\* The news of e stays.
  <2>2. ASSUME NEW h, h.sub = e.sub, h.status = e.status, h.number = e.number,
               Pending' = (Pending \ {e}) \cup {h}
        PROVE  Awaited(s)' \/ (Heard(s)' /\ latest'[s] > 0)
    <3>1. CASE Awaited(s)
      <4>1. PICK f \in Pending : /\ f.sub = s /\ f.status = subs[s].state
                                 /\ \A g \in Pending : g.sub = s => g.number <= f.number
        BY <3>1 DEF Awaited
      <4>2. \E f2 \in Pending' : f2.sub = s /\ f2.status = subs[s].state
                                /\ f2.number = f.number
        BY <2>2, <4>1
      <4>3. \A g \in Pending' : g.sub = s => g.number <= f.number
        BY <2>2, <4>1
      <4> QED BY <2>0, <4>2, <4>3 DEF Awaited
    <3>2. CASE Heard(s) /\ latest[s] > 0
      <4>1. \A g \in Pending' : g.sub = s => g.number < latest[s]
        BY <2>2, <3>2 DEF Heard
      <4>2. \A g \in Pending' : g.number \in Nat
        BY <1>0, <2>2
      <4> QED BY <1>0, <2>1, <3>2, <4>1, <4>2 DEF Heard
    <3> QED BY <3>1, <3>2 DEF Reported
\* e goes, and is heard.
  <2>3. CASE Pending' = Pending \ {e} /\ Hears(e)
    <3>1. CASE Awaited(s)
      <4>1. PICK f \in Pending : /\ f.sub = s /\ f.status = subs[s].state
                                 /\ \A g \in Pending : g.sub = s => g.number <= f.number
        BY <3>1 DEF Awaited
      <4>2. CASE f = e
        <5>1. \A g \in Pending' : g.sub = s => g.number < e.number
          BY <1>0, <2>3, <4>1, <4>2 DEF Numbered
        <5> QED BY <1>0, <2>1, <2>3, <4>1, <4>2, <5>1 DEF Heard
      <4>3. CASE f # e
        BY <2>0, <2>3, <4>1, <4>3 DEF Awaited
      <4> QED BY <4>2, <4>3
    <3>2. CASE Heard(s) /\ latest[s] > 0
      BY <1>0, <2>1, <2>3, <3>2 DEF Heard
    <3> QED BY <3>1, <3>2 DEF Reported
  <2> QED BY <2>0, <2>2, <2>3 DEF Passes
<1> QED BY <1>2, <1>3, <1>4, <1>5, <1>7, <1>8, <1>9, NextCases DEF Writes

\* What a reconciliation has retrieved is so, or there are news it will be
\* written over.
LEMMA CarriedStep ==
  TypeOK /\ Held /\ Rows /\ Numbered /\ Handled /\ Carried /\ [Next]_vars => Carried'
<1> SUFFICES ASSUME TypeOK, Held, Rows, Numbered, Handled, Carried, [Next]_vars PROVE Carried'
  OBVIOUS
<1> USE DEF GoTo, Finish
<1>0. /\ changes \in Nat /\ latest \in [Requests -> Nat] /\ subs \in [Requests -> Sub]
      /\ \A e \in Pending : e.number \in Nat /\ e.sub \in Requests
      /\ task \in [Requests -> Task] /\ pc \in [Requests -> Labels]
      /\ \A r \in Requests : task[r].heard \in Nat
  BY DEF TypeOK, Event, Handler, Pending, Task
<1>a. \A r \in Requests : pc[r] = "sync" => /\ task[r].sub \in Requests
                                            /\ subs[task[r].sub].state # "none"
  BY DEF Held, OnRow
<1>1. CASE Stays
  BY <1>1 DEF Stays, books, Carried, Pending
<1>2. ASSUME NEW r \in Requests, Walks(r) PROVE Carried'
  <2>1. PICK t \in Task, l \in Labels :
          /\ l = "sync" => t.status = subs[t.sub].state
          /\ task' = [task EXCEPT ![r] = t] /\ pc' = [pc EXCEPT ![r] = l]
    BY <1>2 DEF Walks, Fits
  <2>2. UNCHANGED <<subs, latest>> /\ Pending' = Pending
    BY <1>2 DEF Walks, books, Pending
  <2>3. /\ task'[r] = t /\ pc'[r] = l
        /\ \A q \in Requests \ {r} : task'[q] = task[q] /\ pc'[q] = pc[q]
    BY <1>0, <2>1
  <2> QED BY <2>1, <2>2, <2>3 DEF Carried
<1>3. ASSUME NEW r \in Requests, Writes(r),
             \/ Subscribe(r) \/ CreateRow(r) \/ UpdateRow(r) \/ CancelRow(r) \/ FlagRow(r)
             \/ ChangeRowPlan(r) \/ Sync(r)
      PROVE  Carried'
  <2>1. Pending' = Pending /\ latest' = latest
    <3>1. CASE Subscribe(r)
      BY <3>1 DEF Subscribe, rowVars, Pending
    <3>2. CASE ~ Subscribe(r)
      BY <1>3, <3>2, RowWritten DEF Pending
    <3> QED BY <3>1, <3>2
  <2>2. /\ \A q \in Requests \ {r} : task'[q] = task[q] /\ pc'[q] = pc[q]
        /\ pc'[r] # "sync"
    <3>1. CASE Subscribe(r)
      BY <1>0, <3>1 DEF Subscribe
    <3>2. CASE ~ Subscribe(r)
      <4>1. pc' = [pc EXCEPT ![r] = "done"] /\ task' = [task EXCEPT ![r] = NoTask]
        BY <1>3, <3>2, RowWritten
      <4> QED BY <1>0, <4>1
    <3> QED BY <3>1, <3>2
  <2>4. \A s \in Requests : subs[s].state # "none" => subs'[s] = subs[s]
    <3>1. CASE Subscribe(r)
      <4>1. subs[r].state = "none"
        BY <3>1 DEF Subscribe, Held
      <4> QED BY <1>0, <3>1, <4>1 DEF Subscribe
    <3>2. CASE ~ Subscribe(r)
      BY <1>3, <3>2, RowWritten
    <3> QED BY <3>1, <3>2
  <2> QED BY <1>a, <2>1, <2>2, <2>4 DEF Carried
<1>4. ASSUME NEW s \in Requests, Restated(s) PROVE Carried'
  <2>1. /\ task' = task /\ latest' = latest
        /\ \A q \in Requests : pc'[q] = "sync" => pc[q] = "sync"
        /\ \A q \in Requests \ {s} : subs'[q] = subs[q]
    BY <1>4 DEF Restated
  <2>2. CASE UNCHANGED <<events, handlers>> /\ subs'[s].state = subs[s].state
    BY <1>a, <2>1, <2>2 DEF Carried, Pending
  <2>3. ASSUME NEW n, n.sub = s, n.number = changes + 1, Pending' = Pending \cup {n}
        PROVE  Carried'
    <3>1. \A q \in Requests : task[q].heard < n.number
      BY <1>0, <2>3 DEF Numbered
    <3> QED BY <1>a, <2>1, <2>3, <3>1 DEF Carried
  <2>4. \A n : UNCHANGED handlers /\ events' = events \cup {n} => Pending' = Pending \cup {n}
    BY DEF Pending
  <2> QED BY <1>4, <2>2, <2>3, <2>4 DEF Restated
<1>5. ASSUME NEW r \in Requests, StripeCancels(r) \/ StripeFlags(r) \/ StripeChangesPlan(r)
      PROVE  Carried'
  BY <1>4, <1>5, StripeRestates
<1>6. ASSUME NEW s \in Requests, StripeMoves(s) PROVE Carried'
  BY <1>4, <1>6, MovesRestate
<1>7. ASSUME NEW e \in Pending, Handles(e) PROVE Carried'
  <2>1. Passes(e) /\ UNCHANGED <<subs, pc, task>>
    BY <1>7, HandlesPasses DEF Passes
  <2>2. /\ latest' \in [Requests -> Nat] /\ \A s \in Requests : latest'[s] >= latest[s]
        /\ Hears(e) => latest'[e.sub] >= e.number
    BY <1>0, <2>1 DEF Passes, Hears
  <2>3. \A f \in Pending : \/ latest'[f.sub] >= f.number
                            \/ \E g \in Pending' : g.sub = f.sub /\ g.number = f.number
    BY <1>0, <2>1, <2>2 DEF Passes
  <2> QED BY <1>0, <1>a, <2>1, <2>2, <2>3 DEF Carried
<1> QED BY <1>1, <1>2, <1>3, <1>5, <1>6, <1>7, NextCases DEF Writes

\* While two change x at once, neither is sure of what it wrote.
LEMMA HalvesStep ==
  TypeOK /\ Held /\ Rows /\ Numbered /\ Handled /\ Halves /\ [Next]_vars => Halves'
<1> SUFFICES ASSUME TypeOK, Held, Rows, Numbered, Handled, Halves, [Next]_vars PROVE Halves'
  OBVIOUS
<1> USE DEF GoTo, Finish
<1>0. /\ subs \in [Requests -> Sub] /\ task \in [Requests -> Task]
      /\ pc \in [Requests -> Labels] /\ drifted \subseteq {"plan", "cancel"}
  BY DEF TypeOK
<1>a. \A q \in Requests : Halfway(q, "plan") \/ Halfway(q, "cancel") =>
        task[q].sub \in Requests /\ subs[task[q].sub].state # "none"
  BY DEF Halfway, Held, OnRow
<1>1. CASE Stays
  BY <1>1 DEF Stays, books, Halves, Others, Halfway
<1>2. ASSUME NEW r \in Requests, Walks(r) PROVE Halves'
  <2>1. PICK t \in Task, l \in Labels :
          /\ l \notin {"rowFlag", "downgrade"}
          /\ l = "rowPlan" => pc[r] = "downgrade" /\ t = task[r]
          /\ task' = [task EXCEPT ![r] = t] /\ pc' = [pc EXCEPT ![r] = l]
          /\ \A x \in {"plan", "cancel"} : Halfway(r, x) => x \in drifted' \/ l = "rowPlan"
    BY <1>2 DEF Walks, Fits
  <2>2. subs' = subs /\ drifted \subseteq drifted'
    BY <1>2 DEF Walks, books
  <2>3. /\ task'[r] = t /\ pc'[r] = l
        /\ \A q \in Requests \ {r} : task'[q] = task[q] /\ pc'[q] = pc[q]
    BY <1>0, <2>1
  <2>4. \A x \in {"plan", "cancel"}, q \in Requests :
          /\ Halfway(q, x) => Halfway(q, x)' \/ x \in drifted'
          /\ Halfway(q, x)' => Halfway(q, x) /\ task'[q] = task[q]
    BY <2>1, <2>3 DEF Halfway
  <2>5. \A x \in {"plan", "cancel"}, q \in Requests :
          Others(q, x) => Others(q, x)' \/ x \in drifted'
    BY <2>4 DEF Others
  <2> QED BY <2>2, <2>4, <2>5 DEF Halves
\* r begins or ends something that is not half way.
<1>3. ASSUME NEW r \in Requests, \A x \in {"plan", "cancel"} : ~ Halfway(r, x),
             pc'[r] \notin {"downgrade", "rowPlan", "rowFlag"},
             \A q \in Requests \ {r} : task'[q] = task[q] /\ pc'[q] = pc[q],
             drifted \subseteq drifted',
             \A s \in Requests : subs[s].state # "none" =>
               subs'[s].plan = subs[s].plan /\ subs'[s].atEnd = subs[s].atEnd
      PROVE  Halves'
  <2>1. \A x \in {"plan", "cancel"}, q \in Requests :
          /\ Halfway(q, x) => Halfway(q, x)'
          /\ Halfway(q, x)' => Halfway(q, x) /\ task'[q] = task[q]
    BY <1>3 DEF Halfway
  <2>2. \A x \in {"plan", "cancel"}, q \in Requests : Others(q, x) => Others(q, x)'
    BY <2>1 DEF Others
  <2> QED BY <1>3, <1>a, <2>1, <2>2 DEF Halves
<1>4. ASSUME NEW r \in Requests, Subscribe(r), pc'[r] # "done" PROVE Halves'
  <2>1. subs[r].state = "none" /\ pc[r] = "subscribe"
    BY <1>4 DEF Subscribe, Held
  <2>2. /\ \A q \in Requests \ {r} : /\ task'[q] = task[q] /\ pc'[q] = pc[q]
                                     /\ subs'[q] = subs[q]
        /\ drifted' = drifted /\ pc'[r] \in {"create", "update"}
    BY <1>0, <1>4 DEF Subscribe, histVars
  <2> QED BY <1>3, <2>1, <2>2 DEF Halfway
<1>5. ASSUME NEW r \in Requests, CreateRow(r) \/ UpdateRow(r) \/ CancelRow(r) \/ Sync(r)
      PROVE  Halves'
  <2>1. /\ pc[r] \in {"create", "update", "rowCancelled", "sync"}
        /\ pc' = [pc EXCEPT ![r] = "done"] /\ task' = [task EXCEPT ![r] = NoTask]
        /\ subs' = subs /\ drifted \subseteq drifted'
    BY <1>5 DEF CreateRow, UpdateRow, CancelRow, Sync, stripeVars
  <2> QED BY <1>0, <1>3, <2>1 DEF Halfway
<1>6. ASSUME NEW r \in Requests, NEW x \in {"plan", "cancel"}, NEW y \in {"plan", "cancel"},
             x # y, Halfway(r, x), ~ Halfway(r, y),
             Others(r, x) => x \in drifted', drifted \subseteq drifted', subs' = subs,
             pc' = [pc EXCEPT ![r] = "done"], task' = [task EXCEPT ![r] = NoTask]
      PROVE  Halves'
  <2>1. \A z \in {"plan", "cancel"}, q \in Requests :
          /\ Halfway(q, z)' => Halfway(q, z) /\ task'[q] = task[q] /\ q # r
          /\ Halfway(q, y) => Halfway(q, y)'
    BY <1>0, <1>6 DEF Halfway
  <2>2. \A q \in Requests : /\ Halfway(q, x)' => x \in drifted'
                            /\ Others(q, y) => Others(q, y)'
    BY <1>6, <2>1 DEF Others
  <2> QED BY <1>6, <2>1, <2>2 DEF Halves
<1>7. ASSUME NEW r \in Requests, FlagRow(r) PROVE Halves'
  <2>1. Halfway(r, "cancel") /\ ~ Halfway(r, "plan")
    BY <1>7 DEF FlagRow, Halfway
  <2>2. /\ Others(r, "cancel") => "cancel" \in drifted'
        /\ drifted \subseteq drifted' /\ subs' = subs
        /\ pc' = [pc EXCEPT ![r] = "done"] /\ task' = [task EXCEPT ![r] = NoTask]
    BY <1>7 DEF FlagRow, Settles, stripeVars
  <2> QED BY <1>6, <2>1, <2>2
<1>8. ASSUME NEW r \in Requests, ChangeRowPlan(r) PROVE Halves'
  <2>1. Halfway(r, "plan") /\ ~ Halfway(r, "cancel")
    BY <1>8 DEF ChangeRowPlan, Halfway
  <2>2. /\ Others(r, "plan") => "plan" \in drifted'
        /\ drifted \subseteq drifted' /\ subs' = subs
        /\ pc' = [pc EXCEPT ![r] = "done"] /\ task' = [task EXCEPT ![r] = NoTask]
    BY <1>8 DEF ChangeRowPlan, Settles, stripeVars
  <2> QED BY <1>6, <2>1, <2>2
<1>9. ASSUME NEW r \in Requests, StripeCancels(r) PROVE Halves'
  <2>1. /\ \A s \in Requests : subs'[s].plan = subs[s].plan /\ subs'[s].atEnd = subs[s].atEnd
        /\ drifted' = drifted /\ task' = task
        /\ pc[r] = "stripe" /\ pc' = [pc EXCEPT ![r] = "rowCancelled"]
    BY <1>0, <1>9 DEF StripeCancels, Change, histVars, Sub
  <2> QED BY <1>0, <1>3, <2>1 DEF Halfway
\* r is now half way with x: whoever was is not alone any more.
<1>10. ASSUME NEW r \in Requests, NEW x \in {"plan", "cancel"}, NEW y \in {"plan", "cancel"},
              x # y, pc[r] = "stripe", Halfway(r, x)', ~ Halfway(r, y)',
              \A q \in Requests \ {r} : pc'[q] = pc[q],
              task' = task, drifted' = drifted,
              x = "plan" => /\ subs'[task[r].sub].plan = task[r].plan
                            /\ \A s \in Requests : subs'[s].atEnd = subs[s].atEnd,
              x = "cancel" => /\ subs'[task[r].sub].atEnd = (task[r].op = "cancelLater")
                              /\ \A s \in Requests : subs'[s].plan = subs[s].plan
       PROVE  Halves'
  <2>1. \A q \in Requests \ {r} : Halfway(q, x)' => Others(q, x)'
    BY <1>10 DEF Others
  <2>2. \A q \in Requests : /\ Halfway(q, y)' <=> Halfway(q, y)
                            /\ Others(q, y) => Others(q, y)'
    BY <1>10 DEF Others, Halfway
  <2>3. CASE x = "plan"
    <3>1. \A q \in Requests : Halfway(q, "plan")' =>
            \/ subs'[task'[q].sub].plan = task'[q].plan \/ Others(q, "plan")'
      BY <1>10, <2>1, <2>3
    <3>2. \A q \in Requests : Halfway(q, "cancel")' =>
            \/ subs'[task'[q].sub].atEnd = (task'[q].op = "cancelLater")
            \/ "cancel" \in drifted' \/ Others(q, "cancel")'
      BY <1>10, <1>a, <2>2, <2>3 DEF Halves
    <3> QED BY <3>1, <3>2 DEF Halves
  <2>4. CASE x = "cancel"
    <3>1. \A q \in Requests : Halfway(q, "cancel")' =>
            \/ subs'[task'[q].sub].atEnd = (task'[q].op = "cancelLater")
            \/ Others(q, "cancel")'
      BY <1>10, <2>1, <2>4
    <3>2. \A q \in Requests : Halfway(q, "plan")' =>
            \/ subs'[task'[q].sub].plan = task'[q].plan
            \/ "plan" \in drifted' \/ Others(q, "plan")'
      BY <1>10, <1>a, <2>2, <2>4 DEF Halves
    <3> QED BY <3>1, <3>2 DEF Halves
  <2> QED BY <2>3, <2>4
<1>11. ASSUME NEW r \in Requests, StripeFlags(r) PROVE Halves'
  <2>0. task[r].sub \in Requests
    BY <1>11 DEF StripeFlags, Held, OnRow
  <2>1. /\ pc[r] = "stripe" /\ pc' = [pc EXCEPT ![r] = "rowFlag"]
        /\ task' = task /\ drifted' = drifted
        /\ subs'[task[r].sub].atEnd = (task[r].op = "cancelLater")
        /\ \A s \in Requests : subs'[s].plan = subs[s].plan
    BY <1>0, <1>11, <2>0 DEF StripeFlags, histVars, Sub
  <2>2. Halfway(r, "cancel")' /\ ~ Halfway(r, "plan")'
    BY <1>0, <2>1 DEF Halfway
  <2> QED BY <1>0, <1>10, <2>1, <2>2
<1>12. ASSUME NEW r \in Requests, StripeChangesPlan(r) PROVE Halves'
  <2>0. task[r].sub \in Requests
    BY <1>12 DEF StripeChangesPlan, Held, OnRow
  <2>1. /\ pc[r] = "stripe" /\ pc'[r] \in {"downgrade", "rowPlan"}
        /\ \A q \in Requests \ {r} : pc'[q] = pc[q]
        /\ task' = task /\ drifted' = drifted
        /\ subs'[task[r].sub].plan = task[r].plan
        /\ \A s \in Requests : subs'[s].atEnd = subs[s].atEnd
    BY <1>0, <1>12, <2>0 DEF StripeChangesPlan, histVars, Sub
  <2>2. Halfway(r, "plan")' /\ ~ Halfway(r, "cancel")'
    BY <2>1 DEF Halfway
  <2> QED BY <1>10, <2>1, <2>2
<1>13. ASSUME NEW s \in Requests, StripeMoves(s) PROVE Halves'
  <2>1. /\ \A q \in Requests : subs'[q].plan = subs[q].plan /\ subs'[q].atEnd = subs[q].atEnd
        /\ UNCHANGED <<pc, task, drifted>>
    BY <1>0, <1>13 DEF StripeMoves, Change, histVars, Sub
  <2> QED BY <1>a, <2>1 DEF Halves, Others, Halfway
<1>14. ASSUME NEW e \in Pending, Handles(e) PROVE Halves'
  <2>1. UNCHANGED <<subs, pc, task, drifted>>
    BY <1>14, HandlesPasses DEF Passes
  <2> QED BY <2>1 DEF Halves, Others, Halfway
<1> QED BY <1>1, <1>2, <1>4, <1>5, <1>7, <1>8, <1>9, <1>11, <1>12, <1>13, <1>14, NextCases
        DEF Writes

\* A live subscription is made by a process that carries its id to the row; the id
\* that a row gives up is put down as stray.
LEMMA LiveStep ==
  TypeOK /\ Held /\ Rows /\ Numbered /\ Handled /\ LiveIsOurs /\ [Next]_vars => LiveIsOurs'
<1> SUFFICES ASSUME TypeOK, Held, Rows, Numbered, Handled, LiveIsOurs, [Next]_vars
             PROVE  LiveIsOurs'
  OBVIOUS
<1> USE DEF GoTo, Finish
<1> DEFINE Carries(q, s) == pc[q] \in {"create", "update"} /\ task[q].sub = s
<1>0. /\ subs \in [Requests -> Sub] /\ task \in [Requests -> Task] /\ row \in Row
      /\ pc \in [Requests -> Labels]
  BY DEF TypeOK
<1>1. CASE Stays
  BY <1>1 DEF Stays, books, LiveIsOurs, Live
<1>2. ASSUME NEW r \in Requests, Walks(r) PROVE LiveIsOurs'
  <2>1. /\ UNCHANGED <<subs, row>> /\ stray \subseteq stray'
        /\ \A q \in Requests \ {r} : task'[q] = task[q] /\ pc'[q] = pc[q]
    BY <1>2 DEF Walks, books
  <2>2. \A s \in Requests : Carries(r, s) => s \in stray' \/ row.stripe = s
    BY <1>2 DEF Walks
  <2> QED BY <2>1, <2>2 DEF LiveIsOurs, Live
<1>3. ASSUME NEW r \in Requests, Subscribe(r), pc'[r] # "done" PROVE LiveIsOurs'
  <2>1. /\ UNCHANGED <<row, stray>> /\ pc[r] = "subscribe"
        /\ \A q \in Requests \ {r} : /\ task'[q] = task[q] /\ pc'[q] = pc[q]
                                     /\ subs'[q] = subs[q]
    BY <1>0, <1>3 DEF Subscribe, rowVars, histVars
  <2>2. subs' = subs \/ (task'[r].sub = r /\ pc'[r] \in {"create", "update"})
    BY <1>0, <1>3 DEF Subscribe, Task
  <2> QED BY <2>1, <2>2 DEF LiveIsOurs, Live
<1>4. ASSUME NEW r \in Requests, CreateRow(r) PROVE LiveIsOurs'
  <2>1. /\ subs' = subs /\ \A q \in Requests \ {r} : task'[q] = task[q] /\ pc'[q] = pc[q]
        /\ task[r].sub \in Requests
    <3>1. pc' = [pc EXCEPT ![r] = "done"] /\ task' = [task EXCEPT ![r] = NoTask]
          /\ subs' = subs
      BY <1>4, RowWritten
    <3>2. task[r].sub \in Requests
      BY <1>4 DEF CreateRow, Held
    <3> QED BY <1>0, <3>1, <3>2
  <2>2. CASE row.status = "NONE"
    <3>1. /\ row'.stripe = task[r].sub /\ stray' = stray \ {task[r].sub}
          /\ row.stripe \notin Requests
      BY <1>4, <2>2 DEF CreateRow, Rows, BillingAssumption
    <3> QED BY <2>1, <3>1 DEF LiveIsOurs, Live
  <2>3. CASE row.status # "NONE"
    BY <1>4, <2>1, <2>3 DEF CreateRow, LiveIsOurs, Live
  <2> QED BY <2>2, <2>3
<1>5. ASSUME NEW r \in Requests, UpdateRow(r) PROVE LiveIsOurs'
  <2>1. /\ subs' = subs /\ \A q \in Requests \ {r} : task'[q] = task[q] /\ pc'[q] = pc[q]
        /\ row'.stripe = task[r].sub /\ stray' = (stray \cup {row.stripe}) \ {task[r].sub}
    BY <1>0, <1>5 DEF UpdateRow, stripeVars, Row
  <2> QED BY <2>1 DEF LiveIsOurs, Live
<1>6. ASSUME NEW r \in Requests, CancelRow(r) \/ FlagRow(r) \/ ChangeRowPlan(r) \/ Sync(r)
      PROVE  LiveIsOurs'
  <2>1. /\ UNCHANGED <<subs, stray>> /\ row'.stripe = row.stripe
        /\ pc[r] \notin {"create", "update"}
    <3>1. UNCHANGED subs
      BY <1>6, RowWritten
    <3>2. UNCHANGED stray /\ pc[r] \notin {"create", "update"}
      BY <1>6 DEF CancelRow, FlagRow, ChangeRowPlan, Sync
    <3>3. row'.stripe = row.stripe
      BY <1>0, <1>6 DEF CancelRow, FlagRow, ChangeRowPlan, Sync, Row
    <3> QED BY <3>1, <3>2, <3>3
  <2>2. \A q \in Requests \ {r} : task'[q] = task[q] /\ pc'[q] = pc[q]
    <3>1. pc' = [pc EXCEPT ![r] = "done"] /\ task' = [task EXCEPT ![r] = NoTask]
      BY <1>6, RowWritten
    <3> QED BY <1>0, <3>1
  <2> QED BY <2>1, <2>2 DEF LiveIsOurs, Live
<1>7. ASSUME NEW s \in Requests, Restated(s) PROVE LiveIsOurs'
  <2>1. \A q \in Requests : Live(q)' => Live(q)
    BY <1>7 DEF Restated, Live
  <2>2. /\ UNCHANGED <<row, stray, task>>
        /\ \A q \in Requests : pc[q] \in {"create", "update"} => pc'[q] = pc[q]
    BY <1>7 DEF Restated
  <2> QED BY <2>1, <2>2 DEF LiveIsOurs
<1>8. ASSUME NEW r \in Requests, StripeCancels(r) \/ StripeFlags(r) \/ StripeChangesPlan(r)
      PROVE  LiveIsOurs'
  BY <1>7, <1>8, StripeRestates
<1>9. ASSUME NEW s \in Requests, StripeMoves(s) PROVE LiveIsOurs'
  BY <1>7, <1>9, MovesRestate
<1>10. ASSUME NEW e \in Pending, Handles(e) PROVE LiveIsOurs'
  <2>1. UNCHANGED <<subs, stray, pc, task>> /\ row'.stripe = row.stripe
    BY <1>10, HandlesPasses DEF Passes
  <2> QED BY <2>1 DEF LiveIsOurs, Live
<1> QED BY <1>1, <1>2, <1>3, <1>4, <1>5, <1>6, <1>8, <1>9, <1>10, NextCases DEF Writes

\* What was on its way about s when a number was heard, and is newer, is reported.
LEMMA NewsAwaited ==
  ASSUME TypeOK, Reported, NEW s \in Requests,
         subs[s].state \in {"ACTIVE", "PAST_DUE", "CANCELLED"},
         latest[s] = 0 \/ \E e \in Pending : e.sub = s /\ e.number >= latest[s]
  PROVE  Awaited(s)
<1>1. latest[s] \in Nat /\ \A e \in Pending : e.number \in Nat
  BY DEF TypeOK, Event, Handler, Pending
<1> QED BY <1>1 DEF Reported, Heard

\* Nothing says of a subscription that never began that it is paid: what the row
\* was wrongly given stays put down in misled.
LEMMA NeverBegunStep == Inv /\ [Next]_vars => NeverBegun'
<1> SUFFICES ASSUME Inv, [Next]_vars PROVE NeverBegun'
  OBVIOUS
<1> USE DEF GoTo, Finish
<1>0. /\ subs \in [Requests -> Sub] /\ task \in [Requests -> Task] /\ row \in Row
      /\ pc \in [Requests -> Labels]
  BY DEF Inv, TypeOK
<1>a. TypeOK /\ Held /\ Rows /\ Numbered /\ Handled /\ NeverBegun
  BY DEF Inv
<1> DEFINE Not == {"none", "INCOMPLETE", "INCOMPLETE_EXPIRED"}
\* Neither the row nor what is said of the subscriptions changes.
<1>1. ASSUME Pending' = Pending, UNCHANGED <<misled, keys>>,
             row'.status = row.status, row'.stripe = row.stripe,
             \A s \in Requests : subs'[s].state \in Not => subs[s].state = subs'[s].state,
             \A q \in Requests : /\ pc'[q] = "sync" => pc[q] = "sync" /\ task'[q] = task[q]
                                 /\ pc'[q] = "create" => pc[q] = "create" /\ task'[q] = task[q]
      PROVE  NeverBegun'
  BY <1>1, <1>a DEF NeverBegun, Unpaid
<1>2. CASE Stays
  BY <1>1, <1>2 DEF Stays, books, Pending
<1>3. ASSUME NEW r \in Requests, Walks(r) PROVE NeverBegun'
  <2>1. PICK t \in Task, l \in Labels :
          /\ l # "create"
          /\ l = "sync" => t.status = subs[t.sub].state
          /\ task' = [task EXCEPT ![r] = t] /\ pc' = [pc EXCEPT ![r] = l]
    BY <1>3 DEF Walks, Fits
  <2>2. /\ task'[r] = t /\ pc'[r] = l
        /\ \A q \in Requests \ {r} : task'[q] = task[q] /\ pc'[q] = pc[q]
    BY <1>0, <2>1
  <2>3. UNCHANGED <<subs, keys, row, misled>> /\ Pending' = Pending
    BY <1>3 DEF Walks, books, Pending
  <2> SUFFICES ASSUME NEW s \in Requests, subs[s].state \in Not PROVE Unpaid(s)'
    BY <2>3 DEF NeverBegun
  <2>4. Unpaid(s)
    BY <1>a DEF NeverBegun
  <2>5. ASSUME NEW q \in Requests
        PROVE  /\ pc'[q] = "sync" /\ task'[q].sub = s =>
                    task'[q].status \notin {"ACTIVE", "TRIAL"}
               /\ pc'[q] = "create" => task'[q].sub # s
    <3>1. CASE q = r
      BY <2>1, <2>2, <3>1
    <3>2. CASE q # r
      BY <2>2, <2>4, <3>2 DEF Unpaid
    <3> QED BY <3>1, <3>2
  <2> QED BY <2>3, <2>4, <2>5 DEF Unpaid
<1>4. ASSUME NEW r \in Requests, Subscribe(r), pc'[r] # "done" PROVE NeverBegun'
  <2>1. /\ Pending' = Pending /\ UNCHANGED <<row, misled>>
        /\ pc[r] = "subscribe" /\ subs[r].state = "none"
        /\ task[r].op \in {"confirm", "resubscribe"}
    BY <1>4, <1>a DEF Subscribe, rowVars, histVars, Held, Pending
  <2>2. /\ \A q \in Requests \ {r} : /\ task'[q] = task[q] /\ pc'[q] = pc[q]
                                     /\ subs'[q] = subs[q]
        /\ pc'[r] = (IF task[r].op = "confirm" THEN "create" ELSE "update")
    BY <1>0, <1>4 DEF Subscribe
  <2>3. CASE UNCHANGED <<keys, subs>>
    <3>1. PICK k \in keys : k[1] = task[r].op /\ task' = [task EXCEPT ![r].sub = k[3]]
      <4>1. subs'[r].state = "none"
        BY <2>1, <2>3
      <4> QED BY <1>4, <1>0, <2>3, <4>1 DEF Subscribe
    <3>2. task'[r].sub = k[3]
      BY <1>0, <3>1 DEF Task
    <3> QED BY <1>a, <2>1, <2>2, <2>3, <3>1, <3>2 DEF NeverBegun, Unpaid
  <2>4. CASE ~ UNCHANGED <<keys, subs>>
    <3>1. /\ keys' \subseteq keys \cup {<<task[r].op, task[r].plan, r>>}
          /\ subs'[r].state = IF task[r].op = "confirm" THEN "TRIAL" ELSE "INCOMPLETE"
          /\ task'[r].sub = r
      BY <1>0, <1>4, <2>4 DEF Subscribe, Task
    <3> SUFFICES ASSUME NEW s \in Requests, subs'[s].state \in Not
                 PROVE  Unpaid(s)'
      BY DEF NeverBegun
    <3>2. /\ subs[s].state \in Not
          /\ s = r => task[r].op = "resubscribe"
      BY <2>1, <2>2, <3>1
    <3>3. \A k \in keys' : k[1] = "confirm" => k[3] # s
      BY <1>a, <3>1, <3>2 DEF NeverBegun, Unpaid
    <3>4. ASSUME NEW q \in Requests
          PROVE  /\ pc'[q] = "sync" /\ task'[q].sub = s =>
                      task'[q].status \notin {"ACTIVE", "TRIAL"}
                 /\ pc'[q] = "create" => task'[q].sub # s
      <4>1. CASE q = r
        BY <2>2, <3>1, <3>2, <4>1
      <4>2. CASE q # r
        BY <1>a, <2>2, <3>2, <4>2 DEF NeverBegun, Unpaid
      <4> QED BY <4>1, <4>2
    <3> QED BY <1>a, <2>1, <3>2, <3>3, <3>4 DEF NeverBegun, Unpaid
  <2> QED BY <2>3, <2>4
\* A call that writes the row.
<1>5. ASSUME NEW r \in Requests,
             \/ CreateRow(r) \/ UpdateRow(r) \/ CancelRow(r) \/ FlagRow(r)
             \/ ChangeRowPlan(r) \/ Sync(r),
             \A s \in Requests : subs[s].state \in Not =>
               (row'.stripe = s /\ row'.status \in {"ACTIVE", "TRIAL"} => s \in misled')
      PROVE  NeverBegun'
  <2>1. /\ UNCHANGED <<subs, keys>> /\ Pending' = Pending
        /\ pc' = [pc EXCEPT ![r] = "done"] /\ task' = [task EXCEPT ![r] = NoTask]
    BY <1>5, RowWritten DEF Pending
  <2>2. pc'[r] = "done" /\ \A q \in Requests \ {r} : task'[q] = task[q] /\ pc'[q] = pc[q]
    BY <1>0, <2>1
  <2> SUFFICES ASSUME NEW s \in Requests, subs[s].state \in Not PROVE Unpaid(s)'
    BY <2>1 DEF NeverBegun
  <2>3. Unpaid(s)
    BY <1>a DEF NeverBegun
  <2>4. row'.stripe = s /\ row'.status \in {"ACTIVE", "TRIAL"} => s \in misled'
    BY <1>5
  <2>5. ASSUME NEW q \in Requests
        PROVE  /\ pc'[q] = "sync" /\ task'[q].sub = s =>
                    task'[q].status \notin {"ACTIVE", "TRIAL"}
               /\ pc'[q] = "create" => task'[q].sub # s
    BY <2>2, <2>3 DEF Unpaid
  <2>6. /\ \A e \in Pending' : e.sub = s => e.status = "INCOMPLETE_EXPIRED"
        /\ \A k \in keys' : k[1] = "confirm" => k[3] # s
    BY <2>1, <2>3 DEF Unpaid
  <2> QED BY <2>4, <2>5, <2>6 DEF Unpaid
<1>6. ASSUME NEW r \in Requests, CreateRow(r) PROVE NeverBegun'
  <2>1. CASE row.status = "NONE"
    <3>1. row'.stripe = task[r].sub
      BY <1>6, <2>1 DEF CreateRow
    <3>2. \A s \in Requests : subs[s].state \in Not => task[r].sub # s
      BY <1>6, <1>a DEF CreateRow, NeverBegun, Unpaid
    <3> QED BY <1>5, <1>6, <3>1, <3>2
  <2>2. CASE row.status # "NONE"
    <3>1. UNCHANGED <<row, misled>>
      BY <1>6, <2>2 DEF CreateRow
    <3> QED BY <1>5, <1>6, <1>a, <3>1 DEF NeverBegun, Unpaid
  <2> QED BY <2>1, <2>2
<1>7. ASSUME NEW r \in Requests, UpdateRow(r) \/ CancelRow(r) PROVE NeverBegun'
  BY <1>0, <1>5, <1>7 DEF UpdateRow, CancelRow, Row
<1>8. ASSUME NEW r \in Requests, FlagRow(r) \/ ChangeRowPlan(r) PROVE NeverBegun'
  <2>1. row'.status = row.status /\ row'.stripe = row.stripe /\ misled' = misled
    BY <1>0, <1>8 DEF FlagRow, ChangeRowPlan, Row
  <2> QED BY <1>5, <1>8, <1>a, <2>1 DEF NeverBegun, Unpaid
<1>9. ASSUME NEW r \in Requests, Sync(r) PROVE NeverBegun'
  <2>1. /\ row'.status = task[r].status /\ row'.stripe = row.stripe /\ pc[r] = "sync"
        /\ row.stripe # task[r].sub => row.stripe \in misled'
    BY <1>0, <1>9 DEF Sync, Row
  <2> QED BY <1>5, <1>9, <1>a, <2>1 DEF NeverBegun, Unpaid
<1>10. ASSUME NEW s \in Requests, Restated(s) PROVE NeverBegun'
  <2>1. /\ UNCHANGED <<keys, row, handlers, misled, task>>
        /\ \A q \in Requests \ {s} : subs'[q] = subs[q]
        /\ \A q \in Requests : pc'[q] \in {"sync", "create"} => pc[q] = pc'[q]
        /\ subs'[s].state # "none"
    BY <1>10 DEF Restated
  <2>2. CASE UNCHANGED events /\ subs'[s].state = subs[s].state
    <3>1. Pending' = Pending
      BY <2>1, <2>2 DEF Pending
    <3> QED BY <1>1, <2>1, <2>2, <3>1
  <2>3. ASSUME NEW n, n.sub = s, n.status = subs'[s].state, events' = events \cup {n},
               subs'[s].state \in {"INCOMPLETE", "INCOMPLETE_EXPIRED"} =>
                 subs'[s].state = "INCOMPLETE_EXPIRED" /\ subs[s].state = "INCOMPLETE"
        PROVE  NeverBegun'
    <3>1. Pending' = Pending \cup {n}
      BY <2>1, <2>3 DEF Pending
    <3>2. \A q \in Requests : subs'[q].state \in Not => subs[q].state \in Not
      BY <2>1, <2>3
    <3>3. \A q \in Requests : subs'[q].state \in Not =>
            \A e \in Pending' : e.sub = q => e.status = "INCOMPLETE_EXPIRED"
      BY <1>a, <2>1, <2>3, <3>1, <3>2 DEF NeverBegun, Unpaid
    <3> QED BY <1>a, <2>1, <3>2, <3>3 DEF NeverBegun, Unpaid
  <2> QED BY <1>10, <2>2, <2>3 DEF Restated
<1>11. ASSUME NEW r \in Requests, StripeCancels(r) \/ StripeFlags(r) \/ StripeChangesPlan(r)
       PROVE  NeverBegun'
  BY <1>10, <1>11, <1>a, StripeRestates
<1>12. ASSUME NEW s \in Requests, StripeMoves(s) PROVE NeverBegun'
  BY <1>10, <1>12, <1>a, MovesRestate
<1>13. ASSUME NEW e \in Pending, Handles(e) PROVE NeverBegun'
  <2>1. /\ UNCHANGED <<subs, keys, pc, task>> /\ row'.stripe = row.stripe
        /\ \A f \in Pending' : \E g \in Pending : f.sub = g.sub /\ f.status = g.status
    BY <1>13, <1>a, HandlesPasses DEF Passes
  <2>2. ASSUME NEW s \in Requests, subs[s].state \in Not, row'.stripe = s,
               row'.status \in {"ACTIVE", "TRIAL"}
        PROVE  s \in misled'
    <3>1. CASE FindRow(e) \/ LoseEvent(e)
      <4>1. row' = row /\ misled \subseteq misled'
        BY <3>1 DEF FindRow, LoseEvent, histVars
      <4> QED BY <1>a, <2>2, <4>1 DEF NeverBegun, Unpaid
    <3>2. CASE WriteRow(e) /\ Old(e)
      BY <2>1, <2>2, <3>2 DEF WriteRow
    <3>3. CASE WriteRow(e) /\ ~ Old(e)
      <4>1. row.stripe = e.sub /\ e \in handlers
        BY <3>3 DEF WriteRow, Old
      <4>2. e.status = "INCOMPLETE_EXPIRED" /\ e.writes \in Status
        BY <1>a, <2>1, <2>2, <4>1 DEF NeverBegun, Unpaid, TypeOK, Handler
      <4>3. row.status = e.writes /\ e.writes # e.status
        BY <3>3, <4>2 DEF Old, Status
      <4>4. row'.status = row.status /\ misled' = misled
        BY <1>0, <3>3, <4>3 DEF WriteRow, Row
      <4> QED BY <1>a, <2>1, <2>2, <4>4 DEF NeverBegun, Unpaid
    <3> QED BY <1>13, <3>1, <3>2, <3>3 DEF Handles
  <2> QED BY <1>a, <2>1, <2>2 DEF NeverBegun, Unpaid
<1> QED BY <1>2, <1>3, <1>4, <1>6, <1>7, <1>8, <1>9, <1>11, <1>12, <1>13, <1>a, NextCases
        DEF Writes

\* Both of row and subscription, for the states ACTIVE and CANCELLED at once.
LEMMA EntitledStep ==
  Inv /\ NeverBegun' /\ [Next]_vars => EntitledIsLive' /\ PaidIsEntitled'
<1> SUFFICES ASSUME Inv, NeverBegun', [Next]_vars PROVE EntitledIsLive' /\ PaidIsEntitled'
  OBVIOUS
<1> USE DEF GoTo, Finish
<1>0. /\ subs \in [Requests -> Sub] /\ task \in [Requests -> Task] /\ row \in Row
      /\ pc \in [Requests -> Labels] /\ changes \in Nat /\ latest \in [Requests -> Nat]
      /\ \A e \in Pending : e.number \in Nat /\ e.sub \in Requests
      /\ \A q \in Requests : task[q].heard \in Nat
  BY DEF Inv, TypeOK, Event, Handler, Pending, Task
<1>a. TypeOK /\ Held /\ Rows /\ Numbered /\ Handled /\ Reported /\ Carried
      /\ EntitledIsLive /\ PaidIsEntitled
  BY DEF Inv
<1>b. row.status # "NONE" => row.stripe \in Requests /\ subs[row.stripe].state # "none"
  BY <1>a DEF Rows
\* The row's subscription is live, and not active, or never began.
<1>c. ASSUME NEW s \in Requests, row'.stripe = s, subs'[s].state # "none",
             subs'[s].state \notin {"ACTIVE", "PAST_DUE", "CANCELLED"}
      PROVE  EntitledIsLive' /\ PaidIsEntitled'
  <2>1. Live(s)' \/ subs'[s].state = "INCOMPLETE_EXPIRED"
    BY <1>c DEF Live
  <2> QED BY <1>c, <2>1 DEF EntitledIsLive, PaidIsEntitled, NeverBegun, Unpaid
\* What became of the row's subscription is still to be written.
<1>d. ASSUME NEW s \in Requests, row'.stripe = s, NEW f \in Pending',
             f.sub = s, f.status = subs'[s].state,
             subs'[s].state \in {"ACTIVE", "PAST_DUE", "CANCELLED"}
      PROVE  EntitledIsLive' /\ PaidIsEntitled'
  <2>1. Live(s)' \/ subs'[s].state = "CANCELLED"
    BY <1>d DEF Live
  <2>2. \E e \in Pending' : e.sub = row'.stripe /\ e.status = subs'[row'.stripe].state
    BY <1>d
  <2>3. EntitledIsLive'
    BY <1>d, <2>1, <2>2 DEF EntitledIsLive
  <2>4. PaidIsEntitled'
    BY <1>d, <2>2 DEF PaidIsEntitled
  <2> QED BY <2>3, <2>4
\* The row says what the subscription is.
<1>e. ASSUME NEW s \in Requests, row'.stripe = s, row'.status = subs'[s].state
      PROVE  EntitledIsLive' /\ PaidIsEntitled'
  BY <1>e DEF EntitledIsLive, PaidIsEntitled, Live
\* Nothing that the two properties speak of changes.
<1>1. ASSUME Pending' = Pending, misled' = misled,
             row'.status = row.status, row'.stripe = row.stripe,
             row.status # "NONE" => subs'[row.stripe].state = subs[row.stripe].state
      PROVE  EntitledIsLive' /\ PaidIsEntitled'
  BY <1>1, <1>a DEF EntitledIsLive, PaidIsEntitled, Live
<1>2. CASE Stays
  BY <1>1, <1>2 DEF Stays, books, Pending
<1>3. ASSUME NEW r \in Requests, Walks(r) PROVE EntitledIsLive' /\ PaidIsEntitled'
  BY <1>1, <1>3 DEF Walks, books, Pending
<1>4. ASSUME NEW r \in Requests, Subscribe(r) PROVE EntitledIsLive' /\ PaidIsEntitled'
  <2>1. Pending' = Pending /\ UNCHANGED <<misled, row>> /\ subs[r].state = "none"
    BY <1>4, <1>a DEF Subscribe, rowVars, histVars, Held, Pending
  <2>2. \A q \in Requests \ {r} : subs'[q] = subs[q]
    BY <1>0, <1>4 DEF Subscribe
  <2> QED BY <1>1, <1>b, <2>1, <2>2
\* A row that is given s: what it does not know of s is still to come.
<1>5. ASSUME NEW s \in Requests, subs[s].state # "none",
             UNCHANGED <<subs, latest>>, Pending' = Pending, row'.stripe = s,
             latest[s] > 0 => s \in misled'
      PROVE  EntitledIsLive' /\ PaidIsEntitled'
  <2>1. CASE latest[s] > 0
    BY <1>5, <2>1 DEF EntitledIsLive, PaidIsEntitled
  <2>2. CASE latest[s] = 0 /\ subs[s].state \in {"ACTIVE", "PAST_DUE", "CANCELLED"}
    <3>1. Awaited(s)
      BY <1>a, <2>2, NewsAwaited
    <3>2. PICK f \in Pending : f.sub = s /\ f.status = subs[s].state
      BY <3>1 DEF Awaited
    <3> QED BY <1>5, <1>d, <2>2, <3>2
  <2>3. CASE subs[s].state \notin {"ACTIVE", "PAST_DUE", "CANCELLED"}
    BY <1>5, <1>c, <2>3
  <2> QED BY <1>0, <2>1, <2>2, <2>3
<1>6. ASSUME NEW r \in Requests, CreateRow(r) PROVE EntitledIsLive' /\ PaidIsEntitled'
  <2>1. task[r].sub \in Requests /\ subs[task[r].sub].state # "none"
        /\ UNCHANGED <<subs, latest>> /\ Pending' = Pending
    BY <1>6, <1>a DEF CreateRow, Held, stripeVars, Pending
  <2>2. CASE row.status = "NONE"
    BY <1>5, <1>6, <2>1, <2>2 DEF CreateRow
  <2>3. CASE row.status # "NONE"
    BY <1>1, <1>6, <2>1, <2>3 DEF CreateRow
  <2> QED BY <2>2, <2>3
<1>7. ASSUME NEW r \in Requests, UpdateRow(r) PROVE EntitledIsLive' /\ PaidIsEntitled'
  <2>1. /\ task[r].sub \in Requests /\ subs[task[r].sub].state # "none"
        /\ UNCHANGED <<subs, latest>> /\ Pending' = Pending /\ row'.stripe = task[r].sub
        /\ latest[task[r].sub] > 0 => task[r].sub \in misled'
    BY <1>0, <1>7, <1>a DEF UpdateRow, Held, stripeVars, Row, Pending
  <2> QED BY <1>5, <2>1
<1>8. ASSUME NEW r \in Requests, CancelRow(r) PROVE EntitledIsLive' /\ PaidIsEntitled'
  <2>1. /\ subs[task[r].sub].state = "CANCELLED" /\ subs' = subs
        /\ row'.status = "CANCELLED" /\ row'.stripe = row.stripe
        /\ row.stripe = task[r].sub \/ row.stripe \in misled'
    BY <1>0, <1>8, <1>a DEF CancelRow, Held, stripeVars, Row
  <2> QED BY <2>1 DEF EntitledIsLive, PaidIsEntitled
<1>9. ASSUME NEW r \in Requests, FlagRow(r) \/ ChangeRowPlan(r)
      PROVE  EntitledIsLive' /\ PaidIsEntitled'
  <2>1. /\ UNCHANGED <<subs, misled>> /\ Pending' = Pending
        /\ row'.status = row.status /\ row'.stripe = row.stripe
    BY <1>0, <1>9 DEF FlagRow, ChangeRowPlan, stripeVars, Row, Pending
  <2> QED BY <1>1, <2>1
<1>10. ASSUME NEW r \in Requests, Sync(r) PROVE EntitledIsLive' /\ PaidIsEntitled'
  <2> DEFINE s == task[r].sub
  <2>1. /\ s \in Requests /\ subs[s].state # "none" /\ subs' = subs /\ Pending' = Pending
        /\ row'.status = task[r].status /\ row'.stripe = row.stripe
        /\ row.stripe # s \/ latest[s] > task[r].heard => row.stripe \in misled'
    BY <1>0, <1>10, <1>a DEF Sync, Held, OnRow, stripeVars, Row, Pending
  <2>2. CASE row.stripe # s \/ latest[s] > task[r].heard
    BY <2>1, <2>2 DEF EntitledIsLive, PaidIsEntitled
  <2>3. CASE row.stripe = s /\ task[r].status = subs[s].state
    BY <1>e, <2>1, <2>3
  <2>4. CASE /\ row.stripe = s /\ ~ (latest[s] > task[r].heard)
             /\ \E e \in Pending : e.sub = s /\ e.number > task[r].heard
    <3>1. \E e \in Pending : e.sub = s /\ e.number >= latest[s]
      BY <1>0, <2>1, <2>4
    <3>2. CASE subs[s].state \in {"ACTIVE", "PAST_DUE", "CANCELLED"}
      <4>1. Awaited(s)
        BY <1>a, <2>1, <3>1, <3>2, NewsAwaited
      <4>2. PICK f \in Pending : f.sub = s /\ f.status = subs[s].state
        BY <4>1 DEF Awaited
      <4> QED BY <1>d, <2>1, <2>4, <3>2, <4>2
    <3>3. CASE subs[s].state \notin {"ACTIVE", "PAST_DUE", "CANCELLED"}
      BY <1>c, <2>1, <2>4, <3>3
    <3> QED BY <3>2, <3>3
  <2> QED BY <1>10, <1>a, <2>2, <2>3, <2>4 DEF Carried, Sync
<1>11. ASSUME NEW s \in Requests, Restated(s) PROVE EntitledIsLive' /\ PaidIsEntitled'
  <2>1. /\ UNCHANGED <<row, handlers, misled>>
        /\ \A q \in Requests \ {s} : subs'[q] = subs[q]
        /\ subs'[s].state # "none"
    BY <1>11 DEF Restated
  <2>2. CASE UNCHANGED events /\ subs'[s].state = subs[s].state
    <3>1. Pending' = Pending
      BY <2>1, <2>2 DEF Pending
    <3> QED BY <1>1, <1>b, <2>1, <2>2, <3>1
  <2>3. ASSUME NEW n, n.sub = s, n.status = subs'[s].state, events' = events \cup {n}
        PROVE  EntitledIsLive' /\ PaidIsEntitled'
    <3>0. Pending' = Pending \cup {n}
      BY <2>1, <2>3 DEF Pending
    <3>1. CASE row.stripe = s /\ subs'[s].state \in {"ACTIVE", "PAST_DUE", "CANCELLED"}
      BY <1>d, <2>1, <2>3, <3>0, <3>1
    <3>2. CASE row.stripe = s /\ subs'[s].state \notin {"ACTIVE", "PAST_DUE", "CANCELLED"}
      BY <1>c, <2>1, <3>2
    <3>3. CASE row.stripe # s
      BY <1>a, <1>b, <2>1, <3>0, <3>3 DEF EntitledIsLive, PaidIsEntitled, Live
    <3> QED BY <3>1, <3>2, <3>3
  <2> QED BY <1>11, <2>2, <2>3 DEF Restated
<1>12. ASSUME NEW r \in Requests, StripeCancels(r) \/ StripeFlags(r) \/ StripeChangesPlan(r)
       PROVE  EntitledIsLive' /\ PaidIsEntitled'
  BY <1>11, <1>12, <1>a, StripeRestates
<1>13. ASSUME NEW s \in Requests, StripeMoves(s) PROVE EntitledIsLive' /\ PaidIsEntitled'
  BY <1>11, <1>13, <1>a, MovesRestate
<1>14. ASSUME NEW e \in Pending, Handles(e) PROVE EntitledIsLive' /\ PaidIsEntitled'
  <2>1. Passes(e) /\ subs' = subs /\ row'.stripe = row.stripe
    BY <1>14, <1>a, HandlesPasses DEF Passes
  <2>2. CASE FindRow(e)
    <3>1. row' = row /\ misled' = misled
      BY <2>2 DEF FindRow, histVars
    <3>2. \A f \in Pending : f.sub = row.stripe =>
            \E g \in Pending' : g.sub = f.sub /\ g.status = f.status
      <4>1. CASE row.stripe = e.sub
        <5>1. \E h : /\ h.sub = e.sub /\ h.status = e.status
                    /\ events' = events \ {e} /\ handlers' = handlers \cup {h}
          BY <2>2, <4>1 DEF FindRow
        <5> QED BY <5>1 DEF Pending
      <4>2. CASE row.stripe # e.sub
        BY <2>1, <4>2 DEF Passes
      <4> QED BY <4>1, <4>2
    <3> QED BY <1>a, <2>1, <3>1, <3>2 DEF EntitledIsLive, PaidIsEntitled, Live
  <2>3. CASE LoseEvent(e)
    <3>1. row' = row /\ misled' = misled \cup {e.sub} /\ Pending' = Pending \ {e}
      BY <2>3 DEF LoseEvent, Pending
    <3>2. CASE row.stripe = e.sub
      BY <3>1, <3>2 DEF EntitledIsLive, PaidIsEntitled
    <3>3. CASE row.stripe # e.sub
      BY <1>a, <2>1, <3>1, <3>3 DEF EntitledIsLive, PaidIsEntitled, Live
    <3> QED BY <3>2, <3>3
  <2>4. CASE WriteRow(e) /\ Old(e)
    <3>1. row'.stripe \in misled'
      BY <2>1, <2>4 DEF WriteRow
    <3> QED BY <3>1 DEF EntitledIsLive, PaidIsEntitled
  <2>5. CASE WriteRow(e) /\ ~ Old(e)
    <3> DEFINE s == e.sub
    <3>1. /\ row.stripe = s /\ ~ (e.number < latest[s]) /\ e \in handlers
          /\ s \in Requests /\ subs[s].state # "none" /\ row'.status = e.writes
      BY <1>0, <1>a, <1>b, <2>5 DEF WriteRow, Old, Row, Handled
    <3>2. CASE subs[s].state \in {"ACTIVE", "PAST_DUE", "CANCELLED"}
      <4>1. Awaited(s)
        BY <1>0, <1>a, <3>1, <3>2, NewsAwaited
      <4>2. PICK f \in Pending : f.sub = s /\ f.status = subs[s].state
        BY <4>1 DEF Awaited
      <4>3. CASE f = e
        <5>1. row'.status = subs[s].state
          BY <1>a, <3>1, <3>2, <4>2, <4>3 DEF Handled
        <5> QED BY <1>e, <2>1, <3>1, <5>1
      <4>4. CASE f # e
        <5>1. f \in Pending'
          BY <2>1, <4>2, <4>4 DEF Passes
        <5> QED BY <1>d, <2>1, <3>1, <3>2, <4>2, <5>1
      <4> QED BY <4>3, <4>4
    <3>3. CASE subs[s].state \notin {"ACTIVE", "PAST_DUE", "CANCELLED"}
      BY <1>c, <2>1, <3>1, <3>3
    <3> QED BY <3>2, <3>3
  <2> QED BY <1>14, <2>2, <2>3, <2>4, <2>5 DEF Handles
<1> QED BY <1>2, <1>3, <1>4, <1>6, <1>7, <1>8, <1>9, <1>10, <1>12, <1>13, <1>14, <1>a,
           NextCases DEF Writes

\* Plan and end of the row are written after Stripe's by the same process.
LEMMA FollowsStep == Inv /\ [Next]_vars => RowFollowsStripe'
<1> SUFFICES ASSUME Inv, [Next]_vars PROVE RowFollowsStripe'
  OBVIOUS
<1> USE DEF GoTo, Finish
<1>0. /\ subs \in [Requests -> Sub] /\ task \in [Requests -> Task] /\ row \in Row
      /\ pc \in [Requests -> Labels] /\ drifted \subseteq {"plan", "cancel"}
  BY DEF Inv, TypeOK
<1>a. TypeOK /\ Held /\ Rows /\ Numbered /\ Handled /\ Halves /\ RowFollowsStripe
  BY DEF Inv
<1>b. row.status # "NONE" => row.stripe \in Requests /\ subs[row.stripe].state # "none"
  BY <1>a DEF Rows
\* Neither plan nor end of row and subscription changes.
<1>1. ASSUME row'.stripe = row.stripe, row'.plan = row.plan,
             row'.cancelRequested = row.cancelRequested,
             row'.status # "NONE" => row.status # "NONE",
             row.status # "NONE" => /\ subs'[row.stripe].plan = subs[row.stripe].plan
                                    /\ subs'[row.stripe].atEnd = subs[row.stripe].atEnd,
             drifted \subseteq drifted',
             \A x \in {"plan", "cancel"}, q \in Requests :
               Halfway(q, x) => Halfway(q, x)' \/ x \in drifted'
      PROVE  RowFollowsStripe'
  <2> SUFFICES ASSUME row.status # "NONE" PROVE RowFollowsStripe'
    BY <1>1 DEF RowFollowsStripe
  <2>1. (\E q \in Requests : Halfway(q, "plan")) =>
          "plan" \in drifted' \/ \E q \in Requests : Halfway(q, "plan")'
    BY <1>1
  <2>2. (\E q \in Requests : Halfway(q, "cancel")) =>
          "cancel" \in drifted' \/ \E q \in Requests : Halfway(q, "cancel")'
    BY <1>1
  <2> QED BY <1>1, <1>a, <2>1, <2>2 DEF RowFollowsStripe
<1>2. CASE Stays
  BY <1>1, <1>2 DEF Stays, books, Halfway
<1>3. ASSUME NEW r \in Requests, Walks(r) PROVE RowFollowsStripe'
  <2>1. PICK l \in Labels :
          /\ l = "rowPlan" => pc[r] = "downgrade"
          /\ pc' = [pc EXCEPT ![r] = l]
          /\ \A x \in {"plan", "cancel"} : Halfway(r, x) => x \in drifted' \/ l = "rowPlan"
    BY <1>3 DEF Walks, Fits
  <2>2. \A x \in {"plan", "cancel"}, q \in Requests :
          Halfway(q, x) => Halfway(q, x)' \/ x \in drifted'
    BY <1>0, <2>1 DEF Halfway
  <2>3. UNCHANGED <<subs, row>> /\ drifted \subseteq drifted'
    BY <1>3 DEF Walks, books
  <2> QED BY <1>1, <2>2, <2>3
<1>4. ASSUME NEW r \in Requests, Subscribe(r), pc'[r] # "done" PROVE RowFollowsStripe'
  <2>1. UNCHANGED <<row, drifted>> /\ subs[r].state = "none" /\ pc[r] = "subscribe"
    BY <1>4, <1>a DEF Subscribe, rowVars, histVars, Held
  <2>2. \A q \in Requests \ {r} : subs'[q] = subs[q] /\ pc'[q] = pc[q]
    BY <1>0, <1>4 DEF Subscribe
  <2>3. row.status # "NONE" => subs'[row.stripe] = subs[row.stripe]
    BY <1>b, <2>1, <2>2
  <2>4. \A x \in {"plan", "cancel"}, q \in Requests : Halfway(q, x) => Halfway(q, x)'
    BY <2>1, <2>2 DEF Halfway
  <2> QED BY <1>1, <2>1, <2>3, <2>4
<1>5. ASSUME NEW r \in Requests, CreateRow(r) PROVE RowFollowsStripe'
  <2>1. UNCHANGED subs /\ pc' = [pc EXCEPT ![r] = "done"]
    BY <1>5, RowWritten
  <2>2. pc[r] = "create" /\ drifted' = drifted
    BY <1>5 DEF CreateRow
  <2>3. CASE row.status = "NONE"
    <3>1. subs[task[r].sub].plan = task[r].plan /\ ~ subs[task[r].sub].atEnd
      BY <1>a, <2>2, <2>3 DEF Rows
    <3>2. subs[task[r].sub].atEnd \in BOOLEAN
      BY <1>0, <1>a, <2>2 DEF Held, Sub
    <3>3. /\ row'.stripe = task[r].sub /\ row'.plan = task[r].plan
          /\ row'.cancelRequested = FALSE
      BY <1>5, <2>3 DEF CreateRow
    <3> QED BY <2>1, <3>1, <3>2, <3>3 DEF RowFollowsStripe
  <2>4. CASE row.status # "NONE"
    <3>1. row' = row
      BY <1>5, <2>4 DEF CreateRow
    <3>2. \A x \in {"plan", "cancel"}, q \in Requests : Halfway(q, x) => Halfway(q, x)'
      BY <1>0, <2>1, <2>2 DEF Halfway
    <3> QED BY <1>1, <2>1, <2>2, <3>1, <3>2
  <2> QED BY <2>3, <2>4
<1>6. ASSUME NEW r \in Requests, UpdateRow(r) PROVE RowFollowsStripe'
  <2>1. UNCHANGED subs
    BY <1>6, RowWritten
  <2>2. /\ row'.stripe = task[r].sub /\ row'.plan = task[r].plan
        /\ row'.cancelRequested = row.cancelRequested
    BY <1>0, <1>6 DEF UpdateRow, Row
  <2>3. /\ row.cancelRequested # subs[task[r].sub].atEnd => "cancel" \in drifted'
        /\ subs[task[r].sub].plan # task[r].plan => "plan" \in drifted'
    BY <1>6 DEF UpdateRow
  <2> QED BY <2>1, <2>2, <2>3 DEF RowFollowsStripe
<1>7. ASSUME NEW r \in Requests, CancelRow(r) \/ Sync(r) PROVE RowFollowsStripe'
  <2>1. UNCHANGED subs /\ pc' = [pc EXCEPT ![r] = "done"]
    BY <1>7, RowWritten
  <2>2. /\ pc[r] \in {"rowCancelled", "sync"} /\ drifted' = drifted
        /\ row.status # "NONE"
    BY <1>7, <1>a DEF CancelRow, Sync, Rows, OnRow
  <2>3. /\ row'.stripe = row.stripe /\ row'.plan = row.plan
        /\ row'.cancelRequested = row.cancelRequested
    BY <1>0, <1>7 DEF CancelRow, Sync, Row
  <2>4. \A x \in {"plan", "cancel"}, q \in Requests : Halfway(q, x) => Halfway(q, x)'
    BY <1>0, <2>1, <2>2 DEF Halfway
  <2> QED BY <1>1, <2>1, <2>2, <2>3, <2>4
<1>8. ASSUME NEW r \in Requests, FlagRow(r) PROVE RowFollowsStripe'
  <2>1. UNCHANGED subs /\ pc' = [pc EXCEPT ![r] = "done"]
    BY <1>8, RowWritten
  <2>2. /\ pc[r] = "rowFlag" /\ Halfway(r, "cancel") /\ row.status # "NONE"
        /\ drifted \subseteq drifted'
        /\ Others(r, "cancel") \/ row.stripe # task[r].sub => "cancel" \in drifted'
    BY <1>8, <1>a DEF FlagRow, Settles, Rows, OnRow, Halfway
  <2>3. /\ row'.stripe = row.stripe /\ row'.plan = row.plan
        /\ row'.cancelRequested = (task[r].op = "cancelLater")
    BY <1>0, <1>8 DEF FlagRow, Row
  <2>4. row'.cancelRequested = subs[row.stripe].atEnd \/ "cancel" \in drifted'
    BY <1>a, <2>2, <2>3 DEF Halves
  <2>5. \A q \in Requests : Halfway(q, "plan") => Halfway(q, "plan")'
    BY <1>0, <2>1, <2>2 DEF Halfway
  <2> QED BY <1>a, <2>1, <2>2, <2>3, <2>4, <2>5 DEF RowFollowsStripe
<1>9. ASSUME NEW r \in Requests, ChangeRowPlan(r) PROVE RowFollowsStripe'
  <2>1. UNCHANGED subs /\ pc' = [pc EXCEPT ![r] = "done"]
    BY <1>9, RowWritten
  <2>2. /\ pc[r] = "rowPlan" /\ Halfway(r, "plan") /\ row.status # "NONE"
        /\ drifted \subseteq drifted'
        /\ Others(r, "plan") \/ row.stripe # task[r].sub => "plan" \in drifted'
    BY <1>9, <1>a DEF ChangeRowPlan, Settles, Rows, OnRow, Halfway
  <2>3. /\ row'.stripe = row.stripe /\ row'.plan = task[r].plan
        /\ row'.cancelRequested = row.cancelRequested
    BY <1>0, <1>9 DEF ChangeRowPlan, Row
  <2>4. row'.plan = subs[row.stripe].plan \/ "plan" \in drifted'
    BY <1>a, <2>2, <2>3 DEF Halves
  <2>5. \A q \in Requests : Halfway(q, "cancel") => Halfway(q, "cancel")'
    BY <1>0, <2>1, <2>2 DEF Halfway
  <2> QED BY <1>a, <2>1, <2>2, <2>3, <2>4, <2>5 DEF RowFollowsStripe
<1>10. ASSUME NEW r \in Requests, StripeCancels(r) PROVE RowFollowsStripe'
  <2>1. /\ \A q \in Requests : subs'[q].plan = subs[q].plan /\ subs'[q].atEnd = subs[q].atEnd
        /\ UNCHANGED <<row, drifted>>
        /\ pc[r] = "stripe" /\ pc' = [pc EXCEPT ![r] = "rowCancelled"]
    BY <1>0, <1>10 DEF StripeCancels, Change, rowVars, histVars, Sub
  <2>2. \A x \in {"plan", "cancel"}, q \in Requests : Halfway(q, x) => Halfway(q, x)'
    BY <1>0, <2>1 DEF Halfway
  <2> QED BY <1>1, <1>b, <2>1, <2>2
<1>11. ASSUME NEW r \in Requests, StripeFlags(r) PROVE RowFollowsStripe'
  <2>1. /\ \A q \in Requests : subs'[q].plan = subs[q].plan
        /\ UNCHANGED <<row, drifted>>
        /\ pc[r] = "stripe" /\ pc' = [pc EXCEPT ![r] = "rowFlag"]
    BY <1>0, <1>11 DEF StripeFlags, rowVars, histVars, Sub
  <2>2. /\ Halfway(r, "cancel")'
        /\ \A q \in Requests : Halfway(q, "plan") => Halfway(q, "plan")'
    BY <1>0, <2>1 DEF Halfway
  <2> QED BY <1>a, <1>b, <2>1, <2>2 DEF RowFollowsStripe
<1>12. ASSUME NEW r \in Requests, StripeChangesPlan(r) PROVE RowFollowsStripe'
  <2>1. /\ \A q \in Requests : subs'[q].atEnd = subs[q].atEnd
        /\ UNCHANGED <<row, drifted>>
        /\ pc[r] = "stripe" /\ pc'[r] \in {"downgrade", "rowPlan"}
        /\ \A q \in Requests \ {r} : pc'[q] = pc[q]
    BY <1>0, <1>12 DEF StripeChangesPlan, rowVars, histVars, Sub
  <2>2. /\ Halfway(r, "plan")'
        /\ \A q \in Requests : Halfway(q, "cancel") => Halfway(q, "cancel")'
    BY <1>0, <2>1 DEF Halfway
  <2> QED BY <1>a, <1>b, <2>1, <2>2 DEF RowFollowsStripe
<1>13. ASSUME NEW s \in Requests, StripeMoves(s) PROVE RowFollowsStripe'
  <2>1. /\ \A q \in Requests : subs'[q].plan = subs[q].plan /\ subs'[q].atEnd = subs[q].atEnd
        /\ UNCHANGED <<row, pc, drifted>>
    BY <1>0, <1>13 DEF StripeMoves, Change, rowVars, histVars, Sub
  <2> QED BY <1>1, <1>b, <2>1 DEF Halfway
<1>14. ASSUME NEW e \in Pending, Handles(e) PROVE RowFollowsStripe'
  <2>1. /\ UNCHANGED <<subs, pc, drifted>> /\ row'.stripe = row.stripe
        /\ row'.plan = row.plan /\ row'.cancelRequested = row.cancelRequested
        /\ row'.status # "NONE" => row.status # "NONE"
    BY <1>14, <1>a, HandlesPasses DEF Passes
  <2> QED BY <1>1, <2>1 DEF Halfway
<1> QED BY <1>2, <1>3, <1>4, <1>5, <1>6, <1>7, <1>8, <1>9, <1>10, <1>11, <1>12, <1>13, <1>14,
           <1>a, NextCases DEF Writes

-----------------------------------------------------------------------------
(* The theorems *)

\* The strengthened invariant holds of every run.
THEOREM Invariance == Spec => []Inv
<1>1. Inv /\ [Next]_vars => Inv'
  BY TypeStep, HeldStep, RowsStep, NumberedStep, HandledStep, ReportedStep, NeverBegunStep,
     CarriedStep, HalvesStep, LiveStep, EntitledStep, FollowsStep DEF Inv
<1> QED BY InitInv, <1>1, PTL DEF Spec

\* The state is always of its type.
THEOREM TypeCorrect == Spec => []TypeOK
<1>1. Inv => TypeOK
  BY DEF Inv
<1> QED BY Invariance, <1>1, PTL

\* Nobody pays for a subscription the application does not know, but those that
\* stray names.
THEOREM LiveOnesKnown == Spec => []LiveIsOurs
<1>1. Inv => LiveIsOurs
  BY DEF Inv
<1> QED BY Invariance, <1>1, PTL

\* Nobody keeps a plan for nothing, but where the last that was written was old
\* news, for the reasons that EntitledIsLive names.
THEOREM NothingForFree == Spec => []EntitledIsLive
<1>1. Inv => EntitledIsLive
  BY DEF Inv
<1> QED BY Invariance, <1>1, PTL

\* Who pays gets the plan, with the same exceptions.
THEOREM PaidFor == Spec => []PaidIsEntitled
<1>1. Inv => PaidIsEntitled
  BY DEF Inv
<1> QED BY Invariance, <1>1, PTL

\* Row and Stripe agree on plan and end, but for halves and overlaps.
THEOREM RowFollows == Spec => []RowFollowsStripe
<1>1. Inv => RowFollowsStripe
  BY DEF Inv
<1> QED BY Invariance, <1>1, PTL

\* Whoever has a default card keeps one: SetDefault sets a card that the request
\* carries, and Detach clears only a card that was not the default when asked.
THEOREM DefaultStays == Spec => DefaultKept
<1> DEFINE Keeps == \A k \in Requests :
                      default[k] # Unset => default'[k] # Unset \/ crossed'
<1>1. Inv /\ [Next]_vars => Keeps
  <2> SUFFICES ASSUME Inv, [Next]_vars PROVE Keeps
    OBVIOUS
  <2>0. /\ default \in [Requests -> Cards \cup {Unset}] /\ Held
    BY DEF Inv, TypeOK
  <2>1. CASE UNCHANGED default
    BY <2>1
  <2>2. ASSUME NEW r \in Requests, SetDefault(r) PROVE Keeps
    <3>1. task[r].customer \in Requests /\ task[r].card \in Cards
      BY <2>0, <2>2 DEF SetDefault, Held
    <3>2. \A k \in Requests : default'[k] \in {default[k], task[r].card}
      BY <2>0, <2>2, <3>1 DEF SetDefault
    <3> QED BY <3>1, <3>2 DEF BillingAssumption
  <2>3. ASSUME NEW r \in Requests, Detach(r) PROVE Keeps
    <3>1. task[r].card # task[r].seenDefault
      BY <2>0, <2>3 DEF Detach, Held
    <3>2. \A k \in Requests : \/ default'[k] = default[k]
                              \/ k = task[r].customer /\ default[k] = task[r].card
      BY <2>0, <2>3 DEF Detach
    <3>3. crossed' = (crossed \/ default[task[r].customer] # task[r].seenDefault)
      BY <2>3 DEF Detach
    <3> QED BY <3>1, <3>2, <3>3
  <2>4. CASE \E k \in Requests, c \in Cards : CompleteSetup(k, c)
    BY <2>1, <2>4 DEF CompleteSetup
  <2>5. CASE \/ \E s \in Requests : StripeMoves(s)
             \/ \E e \in events : FindRow(e)
             \/ \E h \in handlers : WriteRow(h)
             \/ \E e \in Pending : LoseEvent(e)
    BY <2>1, <2>5 DEF StripeMoves, FindRow, WriteRow, LoseEvent, stripeVars
  <2>6. CASE UNCHANGED vars
    BY <2>1, <2>6 DEF vars, stripeVars
  <2>7. ASSUME NEW r \in Requests, CardStep(r), ~ SetDefault(r), ~ Detach(r) PROVE Keeps
    <3>1. UNCHANGED default
      BY <2>7 DEF CardStep, AskSetup, CreateCustomer, SaveCustomer, AskAddCard, Attach,
                  AskDefault, AskDeleteCard, stripeVars
    <3> QED BY <2>1, <3>1
  <2>8. ASSUME NEW r \in Requests, SubscriptionStep(r) \/ Fail(r) PROVE Keeps
    <3>1. UNCHANGED default
      BY <2>8 DEF SubscriptionStep, AskConfirm, AskResubscribe, Subscribe, CreateRow,
                  UpdateRow, AskCancel, AskResume, AskChangePlan, Refused, StripeCancels,
                  CancelRow, StripeFlags, FlagRow, StripeChangesPlan, HandleDowngrade,
                  ChangeRowPlan, AskReconcile, Retrieve, Sync, Fail, stripeVars
    <3> QED BY <2>1, <3>1
  <2> QED BY <2>2, <2>3, <2>4, <2>5, <2>6, <2>7, <2>8 DEF Next
<1>2. Inv /\ [Next]_vars => [Keeps]_vars
  BY <1>1
<1> QED BY Invariance, <1>2, PTL DEF Spec, DefaultKept

=============================================================================
