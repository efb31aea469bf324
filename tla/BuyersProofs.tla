----------------------------- MODULE BuyersProofs -----------------------------
(***************************************************************************)
(* Proofs about Buyers, for every set of requests, buyers, listings and    *)
(* visits, every limit a list may be asked for, and any number of changes  *)
(* agents make meanwhile.                                                  *)
(***************************************************************************)
EXTENDS Buyers, Integers, FiniteSetTheorems, TLAPS

USE BuyersAssumption

-----------------------------------------------------------------------------
(* Lemmas about the operators *)

\* What every list of the API may be asked.
LEMMA QueryParts ==
  ASSUME NEW q \in Query
  PROVE  /\ q.sort \in Sorts /\ q.max \in Filtered
         /\ q.limit \in Limits /\ q.default \in Nat \ {0}
<1>1. ASSUME NEW sorts \in SUBSET Sorts, NEW filters \in SUBSET Filtered,
             NEW default \in Nat \ {0}, q \in List(sorts, filters, default)
      PROVE  /\ q.sort \in Sorts /\ q.max \in Filtered
             /\ q.limit \in Limits /\ q.default \in Nat \ {0}
  BY <1>1 DEF List
<1>2. /\ {"DateAsc"} \in SUBSET Sorts /\ {"DateDsc"} \in SUBSET Sorts
      /\ {"None"} \in SUBSET Sorts /\ Sorts \ {"None"} \in SUBSET Sorts
  BY DEF Sorts
<1>3. {Unset} \in SUBSET Filtered /\ Filtered \in SUBSET Filtered
  BY DEF Filtered
<1>4. DefaultLimit \in Nat \ {0} /\ AdminLimit \in Nat \ {0}
  OBVIOUS
<1>5. CASE q \in GetPropertiesReview
  BY <1>5 DEF GetPropertiesReview, Sorts, Filtered
<1>6. q \in GetPropertiesReview \/
      \E sorts \in SUBSET Sorts, filters \in SUBSET Filtered, default \in Nat \ {0} :
         q \in List(sorts, filters, default)
  <2>1. CASE q \in FindProperties \cup GetFeaturedListing \cup GetSavedProperty
                   \cup GetBookings \cup GetPayments
    BY <1>2, <1>3, <1>4, <2>1
       DEF FindProperties, GetFeaturedListing, GetSavedProperty, GetBookings, GetPayments
  <2>2. CASE q \in GetUsers \cup AdminProperties \cup AdminBookings
                   \cup AdminSubscriptions \cup AdminPayments \cup GetWebhooks
    BY <1>2, <1>3, <1>4, <2>2
       DEF GetUsers, AdminProperties, AdminBookings, AdminSubscriptions, AdminPayments,
           GetWebhooks
  <2> QED BY <2>1, <2>2 DEF Query
<1> QED BY <1>1, <1>5, <1>6

\* A page has room for a row.
LEMMA LimitIsPositive ==
  ASSUME NEW q \in Query
  PROVE  Limit(q) \in Nat \ {0}
BY QueryParts DEF Limit

\* Rounding up: the pages hold every row of the total.
LEMMA PagesCover ==
  ASSUME NEW l \in Nat \ {0}, NEW n \in Nat, NEW page \in Nat,
         page >= (n + l - 1) \div l
  PROVE  n <= page * l
<1> DEFINE d == (n + l - 1) \div l
           m == (n + l - 1) % l
<1>1. n + l - 1 \in Nat
  OBVIOUS
<1>2. d \in Nat /\ m \in 0 .. l - 1 /\ n + l - 1 = l * d + m
  BY <1>1, Z3
<1> HIDE DEF d, m
<1>3. n <= l * d
  BY <1>2
<1>4. l * d <= l * page
  BY <1>2 DEF d
<1>5. page * l = l * page
  OBVIOUS
<1> QED BY <1>2, <1>3, <1>4, <1>5

\* The rows the order puts before p.
Ahead(table, q, p) ==
  {x \in Matching(table, q) : Before(table[x], table[p], q.sort)}

\* In an order without ties a row comes right after those the order puts before
\* it.
LEMMA PlaceInOrder ==
  ASSUME NEW q \in Query, NEW o \in Orders(q), ~ Tied(q),
         IsFiniteSet(Matching(listing, q)), NEW p \in Matching(listing, q)
  PROVE  \E i \in DOMAIN o : o[i] = p /\ Cardinality(Ahead(listing, q, p)) = i - 1
<1> DEFINE rows == Matching(listing, q)
           n    == Cardinality(rows)
<1>1. n \in Nat
  BY FS_CardinalityType
<1>2. /\ o \in [1 .. n -> rows]
      /\ \A i, j \in 1 .. n : i # j => o[i] # o[j]
      /\ \A i, j \in 1 .. n : Before(listing[o[i]], listing[o[j]], q.sort) => i < j
  BY DEF Orders
<1>3. \A i, j \in 1 .. n :
        i # j => \/ Before(listing[o[i]], listing[o[j]], q.sort)
                 \/ Before(listing[o[j]], listing[o[i]], q.sort)
  BY <1>2 DEF Tied
<1> HIDE DEF n, rows
<1>4. o \in Surjection(1 .. n, rows)
  <2>1. o \in Injection(1 .. n, rows)
    BY <1>2 DEF Injection, IsInjective
  <2>2. Cardinality(1 .. n) = n
    BY <1>1, FS_Interval
  <2>3. IsFiniteSet(rows) /\ Cardinality(rows) = n
    BY DEF rows, n
  <2> QED BY <2>1, <2>2, <2>3, FS_Injection
<1>5. PICK i \in 1 .. n : o[i] = p
  BY <1>4 DEF Surjection, rows
<1> DEFINE first == [j \in 1 .. i - 1 |-> o[j]]
<1>6. i - 1 \in Nat /\ 1 .. i - 1 \subseteq 1 .. n
  BY <1>1
<1>7. \A j \in 1 .. i - 1 : o[j] \in Ahead(listing, q, p)
  <2> SUFFICES ASSUME NEW j \in 1 .. i - 1 PROVE o[j] \in Ahead(listing, q, p)
    OBVIOUS
  <2>1. j \in 1 .. n /\ j # i /\ ~ (i < j)
    BY <1>6
  <2>2. Before(listing[o[j]], listing[o[i]], q.sort)
    BY <1>2, <1>3, <2>1
  <2>3. o[j] \in rows
    BY <1>2, <2>1
  <2> QED BY <1>5, <2>2, <2>3 DEF Ahead, rows
<1>8. \A x \in Ahead(listing, q, p) : \E j \in 1 .. i - 1 : o[j] = x
  <2> SUFFICES ASSUME NEW x \in Ahead(listing, q, p) PROVE \E j \in 1 .. i - 1 : o[j] = x
    OBVIOUS
  <2>1. PICK j \in 1 .. n : o[j] = x
    BY <1>4 DEF Surjection, Ahead, rows
  <2>2. j < i
    BY <1>2, <1>5, <2>1 DEF Ahead
  <2> QED BY <1>1, <2>1, <2>2
<1>9. first \in Bijection(1 .. i - 1, Ahead(listing, q, p))
  <2>1. first \in [1 .. i - 1 -> Ahead(listing, q, p)]
    BY <1>7
  <2>2. \A a, b \in 1 .. i - 1 : first[a] = first[b] => a = b
    BY <1>2, <1>6
  <2>3. \A x \in Ahead(listing, q, p) : \E j \in 1 .. i - 1 : first[j] = x
    BY <1>8
  <2> QED BY <2>1, <2>2, <2>3 DEF Bijection, Injection, IsInjective, Surjection
<1>10. ExistsBijection(1 .. i - 1, Ahead(listing, q, p))
  BY <1>9 DEF ExistsBijection
<1>11. Cardinality(Ahead(listing, q, p)) = i - 1
  BY <1>6, <1>10, FS_CountingElements
<1>12. i \in DOMAIN o
  BY <1>2
<1> QED BY <1>5, <1>11, <1>12

\* A row is not ahead of itself.
LEMMA AheadIsLess ==
  ASSUME NEW q \in Query, IsFiniteSet(Matching(listing, q)),
         NEW p \in Matching(listing, q), listing \in [Properties -> Listing]
  PROVE  /\ Cardinality(Ahead(listing, q, p)) \in Nat /\ Cardinality(Matching(listing, q)) \in Nat
         /\ Cardinality(Ahead(listing, q, p)) < Cardinality(Matching(listing, q))
<1>1. Ahead(listing, q, p) \in SUBSET Matching(listing, q)
  BY DEF Ahead
<1>2. p \notin Ahead(listing, q, p)
  <2>1. listing[p] \in Listing
    BY DEF Matching
  <2>2. listing[p].price \in Nat /\ listing[p].at \in Nat
    <3>1. listing[p].price \in Prices /\ listing[p].at \in 0 .. MaxChanges
      BY <2>1 DEF Listing
    <3>2. listing[p].price \in Nat
      BY <3>1, BuyersAssumption
    <3>3. listing[p].at \in Nat
      BY <3>1, BuyersAssumption
    <3> QED BY <3>2, <3>3
  <2> QED BY <2>2 DEF Ahead, Before
<1>3. Ahead(listing, q, p) # Matching(listing, q)
  BY <1>2
<1> QED BY <1>1, <1>3, FS_Subset, FS_CardinalityType

-----------------------------------------------------------------------------
(* Types *)

Existing == {p \in Properties : Exists(p)}

\* Listings come one by one, at a time of their own, and each is a change.
TableOK ==
  /\ IsFiniteSet(Existing)
  /\ created <= changes
  /\ \A p \in Existing : listing[p].at > 0

\* What a label says of the task that is there.
TaskOK(r) ==
  LET t == task[r]
  IN  /\ pc[r] \in {"listing", "insert", "remove", "visit", "create"}
           => t.by \in Buyers /\ t.about \in Properties
      /\ pc[r] \in {"visit", "create", "update", "delete"} => t.visit \in Visits
      /\ pc[r] \in {"update", "delete"} => t.review \in Requests
      /\ pc[r] = "create" => t.visit \in completed /\ VisitOf[t.visit].buyer = t.by
      /\ pc[r] = "page" => t.page > 0

TasksOK == \A r \in Requests : TaskOK(r)

\* A review on record has an id, and is of a visit of its author's.
ReviewOK ==
  /\ \A v \in Visits : reviews[v] # NoReview => reviews[v].id \in Requests
  /\ ReviewedIsVisited

BaseInv == TypeOK /\ TableOK /\ TasksOK /\ ReviewOK

\* The matching rows are in the table.
LEMMA MatchingIsFinite ==
  ASSUME TableOK, NEW q
  PROVE  IsFiniteSet(Matching(listing, q))
<1>1. Matching(listing, q) \in SUBSET Existing
  BY DEF Matching, Matches, Existing, Exists
<1> QED BY <1>1, FS_Subset DEF TableOK

\* A buyer's request, a change an agent makes, and time are all there is.
AgentStep ==
  \/ \E p \in Properties, price \in Prices :
       \/ Create(p, price)
       \/ \E status \in Statuses \ {"none"} : Update(p, status, price)
  \/ \E p \in Properties : Delete(p)

TimeStep == \E v \in Visits : Visit(v) \/ Age(v)

\* A step is a buyer's, an agent's, or time's.
LEMMA Steps ==
  ASSUME [Next]_vars
  PROVE  \/ \E r \in Requests : BuyerStep(r)
         \/ AgentStep \/ TimeStep
         \/ UNCHANGED vars
BY DEF Next, AgentStep, TimeStep

\* The Property table goes from one well-formed state to another.
LEMMA TableWritten ==
  ASSUME TypeOK, TableOK, AgentStep
  PROVE  /\ listing' \in [Properties -> Listing]
         /\ created' \in 0 .. MaxChanges /\ changes' \in 0 .. MaxChanges
         /\ TableOK'
         /\ Becomes(listing')
         /\ \A p \in Existing : listing'[p].at = listing[p].at
<1> USE DEF TypeOK, TableOK
<1>1. ASSUME NEW p \in Properties, NEW price \in Prices, Create(p, price)
      PROVE  /\ listing' \in [Properties -> Listing]
             /\ created' \in 0 .. MaxChanges /\ changes' \in 0 .. MaxChanges
             /\ TableOK'
             /\ Becomes(listing')
             /\ \A x \in Existing : listing'[x].at = listing[x].at
  <2> DEFINE new == [status |-> "DRAFT", price |-> price, at |-> created + 1]
  <2>1. /\ Becomes([listing EXCEPT ![p] = new])
        /\ listing' = [listing EXCEPT ![p] = new]
        /\ listing[p].at = 0
        /\ created' = created + 1 /\ changes < MaxChanges /\ changes' = changes + 1
    BY <1>1 DEF Create, Becomes
  <2>2. created' \in 1 .. MaxChanges /\ changes' \in 0 .. MaxChanges
        /\ created' <= changes'
    BY <2>1
  <2>3. new \in Listing
    BY <2>1, <2>2 DEF Listing, Statuses
  <2> HIDE DEF new
  <2>4. listing' \in [Properties -> Listing]
    BY <2>1, <2>3
  <2>5. \A x \in Properties : listing'[x] = IF x = p THEN new ELSE listing[x]
    BY <2>1
  <2>6. p \notin Existing
    BY <2>1
  <2>7. Existing' = Existing \cup {p}
    BY <2>5 DEF Existing, Exists, new
  <2>8. IsFiniteSet(Existing')
    BY <2>7, FS_AddElement
  <2>9. \A x \in Existing : listing'[x].at = listing[x].at
    BY <2>5, <2>6 DEF Existing
  <2>10. \A x \in Existing' : listing'[x].at > 0
    BY <2>2, <2>1, <2>5, <2>7, <2>9 DEF new
  <2> QED BY <2>1, <2>2, <2>4, <2>8, <2>9, <2>10
<1>2. ASSUME NEW p \in Properties, NEW price \in Prices,
             NEW status \in Statuses \ {"none"}, Update(p, status, price)
      PROVE  /\ listing' \in [Properties -> Listing]
             /\ created' \in 0 .. MaxChanges /\ changes' \in 0 .. MaxChanges
             /\ TableOK'
             /\ Becomes(listing')
             /\ \A x \in Existing : listing'[x].at = listing[x].at
  <2>1. /\ Becomes([listing EXCEPT ![p].status = status, ![p].price = price])
        /\ listing' = [listing EXCEPT ![p].status = status, ![p].price = price]
        /\ Exists(p)
        /\ created' = created /\ changes < MaxChanges /\ changes' = changes + 1
    BY <1>2 DEF Update, Becomes
  <2>2. created' \in 0 .. MaxChanges /\ changes' \in 0 .. MaxChanges
        /\ created' <= changes'
    BY <2>1
  <2>3. listing[p] \in Listing
    OBVIOUS
  <2> DEFINE new == [listing[p] EXCEPT !.status = status, !.price = price]
  <2>4. new \in Listing
    BY <2>3 DEF Listing
  <2>5. listing' = [listing EXCEPT ![p] = new]
    BY <2>1, Zenon
  <2>6. new.status # "none" /\ new.at = listing[p].at
    BY <2>3 DEF Listing
  <2> HIDE DEF new
  <2>7. listing' \in [Properties -> Listing]
    BY <2>4, <2>5
  <2>8. \A x \in Properties : listing'[x] = IF x = p THEN new ELSE listing[x]
    BY <2>5
  <2>9. Existing' = Existing
    BY <2>1, <2>6, <2>8 DEF Existing, Exists
  <2>10. \A x \in Properties : listing'[x].at = listing[x].at
    BY <2>6, <2>8
  <2>11. TableOK'
    BY <2>2, <2>9, <2>10 DEF Existing
  <2> QED BY <2>1, <2>2, <2>7, <2>10, <2>11 DEF Existing
<1>3. ASSUME NEW p \in Properties, Delete(p)
      PROVE  /\ listing' \in [Properties -> Listing]
             /\ created' \in 0 .. MaxChanges /\ changes' \in 0 .. MaxChanges
             /\ TableOK'
             /\ Becomes(listing')
             /\ \A x \in Existing : listing'[x].at = listing[x].at
  <2>1. /\ Becomes([listing EXCEPT ![p].status = "none"])
        /\ listing' = [listing EXCEPT ![p].status = "none"]
        /\ created' = created /\ changes < MaxChanges /\ changes' = changes + 1
    BY <1>3 DEF Delete, Becomes
  <2>2. created' \in 0 .. MaxChanges /\ changes' \in 0 .. MaxChanges
        /\ created' <= changes'
    BY <2>1
  <2>3. listing[p] \in Listing
    OBVIOUS
  <2> DEFINE new == [listing[p] EXCEPT !.status = "none"]
  <2>4. new \in Listing
    BY <2>3 DEF Listing, Statuses
  <2>5. new.status = "none" /\ new.at = listing[p].at
    BY <2>3 DEF Listing
  <2>6. listing' = [listing EXCEPT ![p] = new]
    BY <2>1
  <2> HIDE DEF new
  <2>7. listing' \in [Properties -> Listing]
    BY <2>4, <2>6
  <2>8. \A x \in Properties : listing'[x] = IF x = p THEN new ELSE listing[x]
    BY <2>6
  <2>9. Existing' \in SUBSET Existing
    BY <2>5, <2>8 DEF Existing, Exists
  <2>10. \A x \in Properties : listing'[x].at = listing[x].at
    BY <2>5, <2>8
  <2>11. TableOK'
    BY <2>2, <2>9, <2>10, FS_Subset DEF Existing
  <2> QED BY <2>1, <2>2, <2>7, <2>10, <2>11 DEF Existing
<1> QED BY <1>1, <1>2, <1>3 DEF AgentStep

\* An idle request asks for nothing.
LEMMA NoTaskType == NoTask \in Task
<1>1. AnyQuery \in GetFeaturedListing
  BY DEF AnyQuery, GetFeaturedListing, List, Filtered
<1>2. AnyQuery \in Query
  BY <1>1 DEF Query
<1> QED BY <1>2 DEF NoTask, Task

\* A step of one request leaves the others where they are.
LEMMA OneMoves ==
  ASSUME TypeOK, TasksOK, NEW r \in Requests, NEW l \in Labels, NEW t \in Task,
         pc' = [pc EXCEPT ![r] = l], task' = [task EXCEPT ![r] = t],
         completed' = completed,
         /\ l \in {"listing", "insert", "remove", "visit", "create"}
              => t.by \in Buyers /\ t.about \in Properties,
         l \in {"visit", "create", "update", "delete"} => t.visit \in Visits,
         l \in {"update", "delete"} => t.review \in Requests,
         l = "create" => t.visit \in completed /\ VisitOf[t.visit].buyer = t.by,
         l = "page" => t.page > 0
  PROVE  /\ pc' \in [Requests -> Labels] /\ task' \in [Requests -> Task]
         /\ TasksOK'
<1>1. pc' \in [Requests -> Labels] /\ task' \in [Requests -> Task]
  BY DEF TypeOK
<1>2. ASSUME NEW x \in Requests PROVE TaskOK(x)'
  <2>1. CASE x = r
    <3>1. pc'[x] = l /\ task'[x] = t
      BY <2>1 DEF TypeOK
    <3> QED BY <3>1 DEF TaskOK
  <2>2. CASE x # r
    <3>1. pc'[x] = pc[x] /\ task'[x] = task[x]
      BY <2>2 DEF TypeOK
    <3>2. TaskOK(x)
      BY DEF TasksOK
    <3> QED BY <3>1, <3>2 DEF TaskOK
  <2> QED BY <2>1, <2>2
<1> QED BY <1>1, <1>2 DEF TasksOK

\* A request that has finished.
LEMMA OneFinishes ==
  ASSUME TypeOK, TasksOK, NEW r \in Requests, Finish(r), completed' = completed
  PROVE  /\ pc' \in [Requests -> Labels] /\ task' \in [Requests -> Task]
         /\ TasksOK'
<1>1. /\ pc' = [pc EXCEPT ![r] = "done"] /\ task' = [task EXCEPT ![r] = task[r]]
      /\ task[r] \in Task /\ "done" \in Labels
  BY DEF Finish, GoTo, TypeOK, Labels
<1> QED BY <1>1, OneMoves

\* A request begins with a task that has what its first label needs.
LEMMA OneBegins ==
  ASSUME TypeOK, TasksOK, NEW r \in Requests, NEW op, NEW t \in Task,
         NEW l \in Labels \ {"create"}, Begins(r, op, t, l), completed' = completed,
         /\ l \in {"listing", "insert", "remove", "visit"}
              => t.by \in Buyers /\ t.about \in Properties,
         l \in {"visit", "update", "delete"} => t.visit \in Visits,
         l \in {"update", "delete"} => t.review \in Requests,
         l = "page" => t.page > 0
  PROVE  /\ pc' \in [Requests -> Labels] /\ task' \in [Requests -> Task]
         /\ TasksOK'
<1>1. pc' = [pc EXCEPT ![r] = l] /\ task' = [task EXCEPT ![r] = t]
  BY DEF Begins, GoTo
<1> QED BY <1>1, OneMoves

\* The steps of a walk move the task alone.
LEMMA WalkTypes ==
  ASSUME BaseInv, NEW r \in Requests,
         AskSearch(r) \/ ReadRows(r) \/ ReadTotal(r) \/ TurnPage(r)
  PROVE  /\ pc' \in [Requests -> Labels] /\ task' \in [Requests -> Task]
         /\ TasksOK'
<1> USE DEF BaseInv
<1>1. CASE AskSearch(r)
  <2>1. PICK q \in Query :
          Begins(r, "search", [NoTask EXCEPT !.query = q, !.open = {"rows", "total"},
                                             !.kept = Matching(listing, q)], "page")
    BY <1>1 DEF AskSearch
  <2> DEFINE t == [NoTask EXCEPT !.query = q, !.open = {"rows", "total"},
                                 !.kept = Matching(listing, q)]
  <2>2. Matching(listing, q) \in SUBSET Properties
    BY DEF Matching
  <2>3. t \in Task
    BY NoTaskType, <2>2 DEF Task
  <2>4. t.page > 0
    BY DEF NoTask
  <2> HIDE DEF t
  <2>5. "page" \in Labels \ {"create"} /\ completed' = completed
    BY <1>1 DEF Labels, AskSearch, tableVars
  <2>6. Begins(r, "search", t, "page")
    BY <2>1 DEF t
  <2> QED BY <2>3, <2>4, <2>5, <2>6, OneBegins
<1>2. CASE ReadRows(r)
  <2>1. PICK o \in Orders(task[r].query) :
          task' = [task EXCEPT ![r].open = @ \ {"rows"},
                               ![r].seen = @ \cup Page(o, task[r].query, task[r].page),
                               ![r].shaken = @ \/ Tied(task[r].query)]
    BY <1>2 DEF ReadRows
  <2> DEFINE t == [task[r] EXCEPT !.open = @ \ {"rows"},
                                  !.seen = @ \cup Page(o, task[r].query, task[r].page),
                                  !.shaken = @ \/ Tied(task[r].query)]
  <2>2. task[r] \in Task /\ TaskOK(r) /\ pc[r] = "page"
    BY <1>2 DEF TypeOK, TasksOK, ReadRows
  <2>3. Page(o, task[r].query, task[r].page) \in SUBSET Properties
    BY DEF Page, Orders, Matching
  <2>4. Tied(task[r].query) \in BOOLEAN
    BY DEF Tied
  <2>5. t \in Task /\ t.page = task[r].page
    BY <2>2, <2>3, <2>4 DEF Task
  <2>6. task' = [task EXCEPT ![r] = t]
    BY <2>1, Zenon
  <2> HIDE DEF t
  <2>7. pc' = [pc EXCEPT ![r] = "page"] /\ completed' = completed
    BY <1>2, <2>2 DEF ReadRows, tableVars, TypeOK
  <2>8. t.page > 0 /\ "page" \in Labels
    BY <2>2, <2>5 DEF TaskOK, Labels
  <2> QED BY <2>5, <2>6, <2>7, <2>8, OneMoves
<1>3. CASE ReadTotal(r)
  <2> DEFINE t == [task[r] EXCEPT !.open = @ \ {"total"},
                                  !.total = Cardinality(Matching(listing, task[r].query))]
  <2>1. task' = [task EXCEPT ![r] = t]
    BY <1>3, Zenon DEF ReadTotal
  <2>2. task[r] \in Task /\ TaskOK(r) /\ pc[r] = "page"
    BY <1>3 DEF TypeOK, TasksOK, ReadTotal
  <2>3. Cardinality(Matching(listing, task[r].query)) \in Nat
    BY MatchingIsFinite, FS_CardinalityType
  <2>4. t \in Task /\ t.page = task[r].page
    BY <2>2, <2>3 DEF Task
  <2> HIDE DEF t
  <2>5. pc' = [pc EXCEPT ![r] = "page"] /\ completed' = completed
    BY <1>3, <2>2 DEF ReadTotal, tableVars, TypeOK
  <2>6. t.page > 0 /\ "page" \in Labels
    BY <2>2, <2>4 DEF TaskOK, Labels
  <2> QED BY <2>1, <2>4, <2>5, <2>6, OneMoves
<1>4. CASE TurnPage(r)
  <2>1. completed' = completed
    BY <1>4 DEF TurnPage, tableVars
  <2>2. CASE Finish(r)
    BY <2>1, <2>2, OneFinishes
  <2>3. CASE ~ Finish(r)
    <3> DEFINE t == [task[r] EXCEPT !.page = @ + 1, !.open = {"rows", "total"}]
    <3>1. task' = [task EXCEPT ![r] = t] /\ pc' = pc /\ pc[r] = "page"
      <4>1. /\ task' = [task EXCEPT ![r].page = @ + 1, ![r].open = {"rows", "total"}]
            /\ pc' = pc /\ pc[r] = "page"
        BY <1>4, <2>3 DEF TurnPage
      <4> QED BY <4>1, Zenon
    <3>2. task[r] \in Task /\ TaskOK(r)
      BY DEF TypeOK, TasksOK
    <3>3. task[r].page \in Nat
      BY <3>2 DEF Task
    <3>4. t \in Task /\ t.page = task[r].page + 1
      <4> DEFINE n == task[r].page + 1
      <4>1. n \in Nat
        BY <3>3
      <4> HIDE DEF n
      <4>2. [task[r] EXCEPT !.page = n, !.open = {"rows", "total"}] \in Task
        BY <3>2, <4>1 DEF Task
      <4>3. [task[r] EXCEPT !.page = n, !.open = {"rows", "total"}].page = n
        BY <3>2 DEF Task
      <4> QED BY <4>2, <4>3 DEF n
    <3> HIDE DEF t
    <3>5. pc' = [pc EXCEPT ![r] = "page"]
      BY <3>1 DEF TypeOK
    <3>6. t.page > 0 /\ "page" \in Labels
      BY <3>3, <3>4 DEF Labels
    <3> QED BY <2>1, <3>1, <3>4, <3>5, <3>6, OneMoves
  <2> QED BY <2>2, <2>3
<1> QED BY <1>1, <1>2, <1>3, <1>4

\* The other requests of buyers: the tasks they leave behind.
LEMMA AskTypes ==
  ASSUME BaseInv, NEW r \in Requests,
         \/ AskSave(r) \/ AskUnsave(r) \/ AskReview(r) \/ AskEdit(r) \/ AskUnreview(r)
  PROVE  /\ pc' \in [Requests -> Labels] /\ task' \in [Requests -> Task]
         /\ TasksOK'
<1> USE DEF BaseInv
<1>a. completed' = completed
  BY DEF AskSave, AskUnsave, AskReview, AskEdit, AskUnreview, tableVars
<1>1. CASE AskSave(r)
  <2>1. PICK b \in Buyers, p \in Properties :
          Begins(r, "save", [NoTask EXCEPT !.by = b, !.about = p], "listing")
    BY <1>1 DEF AskSave
  <2> DEFINE t == [NoTask EXCEPT !.by = b, !.about = p]
  <2>2. t \in Task /\ t.by = b /\ t.about = p
    BY NoTaskType DEF Task
  <2> HIDE DEF t
  <2>3. Begins(r, "save", t, "listing") /\ "listing" \in Labels \ {"create"}
    BY <2>1 DEF t, Labels
  <2> QED BY <1>a, <2>2, <2>3, OneBegins
<1>2. CASE AskUnsave(r)
  <2>1. PICK s \in saved :
          Begins(r, "unsave", [NoTask EXCEPT !.by = s[1], !.about = s[2]], "remove")
    BY <1>2 DEF AskUnsave
  <2>2. s[1] \in Buyers /\ s[2] \in Properties
    BY DEF TypeOK
  <2> DEFINE t == [NoTask EXCEPT !.by = s[1], !.about = s[2]]
  <2>3. t \in Task /\ t.by = s[1] /\ t.about = s[2]
    BY <2>2, NoTaskType DEF Task
  <2> HIDE DEF t
  <2>4. Begins(r, "unsave", t, "remove") /\ "remove" \in Labels \ {"create"}
    BY <2>1 DEF t, Labels
  <2> QED BY <1>a, <2>2, <2>3, <2>4, OneBegins
<1>3. CASE AskReview(r)
  <2>1. PICK b \in Buyers, p \in Properties, v \in Visits :
          Begins(r, "review", [NoTask EXCEPT !.by = b, !.about = p, !.visit = v], "visit")
    BY <1>3 DEF AskReview
  <2> DEFINE t == [NoTask EXCEPT !.by = b, !.about = p, !.visit = v]
  <2>2. t \in Task /\ t.by = b /\ t.about = p /\ t.visit = v
    BY NoTaskType DEF Task
  <2> HIDE DEF t
  <2>3. Begins(r, "review", t, "visit") /\ "visit" \in Labels \ {"create"}
    BY <2>1 DEF t, Labels
  <2> QED BY <1>a, <2>2, <2>3, OneBegins
<1>4. CASE AskEdit(r) \/ AskUnreview(r)
  <2>1. PICK v \in Visits :
          /\ reviews[v] # NoReview
          /\ \/ Begins(r, "edit", [NoTask EXCEPT !.visit = v, !.review = reviews[v].id],
                       "update")
             \/ Begins(r, "unreview", [NoTask EXCEPT !.visit = v, !.review = reviews[v].id],
                       "delete")
    BY <1>4 DEF AskEdit, AskUnreview
  <2>2. reviews[v].id \in Requests
    BY <2>1 DEF ReviewOK
  <2> DEFINE t == [NoTask EXCEPT !.visit = v, !.review = reviews[v].id]
  <2>3. t \in Task /\ t.visit = v /\ t.review = reviews[v].id
    BY <2>2, NoTaskType DEF Task
  <2>4. Begins(r, "edit", t, "update") \/ Begins(r, "unreview", t, "delete")
    BY <2>1
  <2> HIDE DEF t
  <2>5. "update" \in Labels \ {"create"} /\ "delete" \in Labels \ {"create"}
    BY DEF Labels
  <2>6. CASE Begins(r, "edit", t, "update")
    BY <1>a, <2>2, <2>3, <2>5, <2>6, OneBegins
  <2>7. CASE Begins(r, "unreview", t, "delete")
    BY <1>a, <2>2, <2>3, <2>5, <2>7, OneBegins
  <2> QED BY <2>4, <2>6, <2>7
<1> QED BY <1>1, <1>2, <1>3, <1>4

\* What the checks of a listing and of a booking leave in the requests.
LEMMA CheckTypes ==
  ASSUME BaseInv, NEW r \in Requests, CheckListing(r) \/ CheckVisit(r)
  PROVE  /\ pc' \in [Requests -> Labels] /\ task' \in [Requests -> Task]
         /\ TasksOK'
<1> USE DEF BaseInv
<1>a. completed' = completed /\ task[r] \in Task /\ TaskOK(r)
  BY DEF CheckListing, CheckVisit, tableVars, TypeOK, TasksOK
<1>1. CASE Finish(r)
  BY <1>1, <1>a, OneFinishes
<1>2. CASE CheckListing(r) /\ ~ Finish(r)
  <2>1. pc' = [pc EXCEPT ![r] = "insert"] /\ task' = task /\ pc[r] = "listing"
    BY <1>2 DEF CheckListing, GoTo
  <2>2. task' = [task EXCEPT ![r] = task[r]] /\ "insert" \in Labels
    BY <2>1 DEF TypeOK, Labels
  <2>3. task[r].by \in Buyers /\ task[r].about \in Properties
    BY <1>a, <2>1 DEF TaskOK
  <2> QED BY <1>a, <2>1, <2>2, <2>3, OneMoves
<1>3. CASE CheckVisit(r) /\ ~ Finish(r)
  <2>1. /\ pc' = [pc EXCEPT ![r] = "create"] /\ task' = task /\ pc[r] = "visit"
        /\ task[r].visit \in completed /\ VisitOf[task[r].visit].buyer = task[r].by
    BY <1>3 DEF CheckVisit, GoTo
  <2>2. task' = [task EXCEPT ![r] = task[r]] /\ "create" \in Labels
    BY <2>1 DEF TypeOK, Labels
  <2>3. /\ task[r].by \in Buyers /\ task[r].about \in Properties
        /\ task[r].visit \in Visits
    BY <1>a, <2>1 DEF TaskOK
  <2> QED BY <1>a, <2>1, <2>2, <2>3, OneMoves
<1> QED BY <1>1, <1>2, <1>3

-----------------------------------------------------------------------------
(* Reviews *)

LEMMA NoReviewType == NoReview \in Review
BY DEF NoReview, Review

\* A review that keeps its id, its author and its listing keeps its right to be.
LEMMA ReviewRewritten ==
  ASSUME BaseInv, NEW v \in Visits, NEW x \in Review,
         reviews' = [reviews EXCEPT ![v] = x],
         reviews[v] # NoReview,
         x.id = reviews[v].id /\ x.by = reviews[v].by /\ x.about = reviews[v].about,
         completed \subseteq completed'
  PROVE  ReviewOK'
<1>1. \A w \in Visits :
        /\ reviews'[w].id = reviews[w].id /\ reviews'[w].by = reviews[w].by
        /\ reviews'[w].about = reviews[w].about
        /\ reviews'[w] # NoReview => reviews[w] # NoReview
  BY DEF BaseInv, TypeOK
<1> QED BY <1>1 DEF BaseInv, ReviewOK, ReviewedIsVisited

\* deleteReview: a table without one of its reviews.
LEMMA ReviewRemoved ==
  ASSUME BaseInv, NEW v \in Visits, reviews' = [reviews EXCEPT ![v] = NoReview],
         completed' = completed
  PROVE  ReviewOK'
<1>1. ASSUME NEW w \in Visits
      PROVE  reviews'[w] = IF w = v THEN NoReview ELSE reviews[w]
  BY DEF BaseInv, TypeOK
<1>2. \A w \in Visits : reviews[w] # NoReview => reviews[w].by \in Buyers
  <2>1. \A w \in Visits : VisitOf[w].buyer \in Buyers
    OBVIOUS
  <2> QED BY <2>1 DEF BaseInv, ReviewOK, ReviewedIsVisited
<1>3. NoReview.by = Unset /\ Unset \notin Buyers
  BY DEF NoReview
<1>4. ASSUME NEW w \in Visits, reviews'[w] # NoReview
      PROVE  /\ reviews'[w].id \in Requests
             /\ w \in completed' /\ VisitOf[w].buyer = reviews'[w].by
             /\ \A u \in Visits \ {w} : <<reviews'[u].by, reviews'[u].about>>
                                        # <<reviews'[w].by, reviews'[w].about>>
  <2>1. w # v /\ reviews'[w] = reviews[w] /\ reviews[w] # NoReview
    BY <1>1, <1>4
  <2>2. /\ reviews[w].id \in Requests
        /\ w \in completed /\ VisitOf[w].buyer = reviews[w].by
    BY <2>1 DEF BaseInv, ReviewOK, ReviewedIsVisited
  <2>3. ASSUME NEW u \in Visits \ {w}
        PROVE  <<reviews'[u].by, reviews'[u].about>> # <<reviews'[w].by, reviews'[w].about>>
    <3>1. CASE u = v
      BY <1>1, <1>2, <1>3, <2>1, <3>1
    <3>2. CASE u # v
      <4>1. reviews'[u] = reviews[u]
        BY <1>1, <3>2
      <4> QED BY <2>1, <4>1 DEF BaseInv, ReviewOK, ReviewedIsVisited
    <3> QED BY <3>1, <3>2
  <2> QED BY <2>1, <2>2, <2>3
<1> QED BY <1>4 DEF ReviewOK, ReviewedIsVisited

\* A new review is of a visit of its author's, the author's first of the listing.
LEMMA ReviewAdded ==
  ASSUME BaseInv, NEW v \in Visits, NEW x \in Review,
         reviews' = [reviews EXCEPT ![v] = x],
         x.id \in Requests, v \in completed, VisitOf[v].buyer = x.by,
         \A w \in Visits : ~ (reviews[w].by = x.by /\ reviews[w].about = x.about),
         completed' = completed
  PROVE  ReviewOK'
<1>1. ASSUME NEW w \in Visits
      PROVE  reviews'[w] = IF w = v THEN x ELSE reviews[w]
  BY DEF BaseInv, TypeOK
<1>2. ASSUME NEW w \in Visits, reviews'[w] # NoReview
      PROVE  /\ reviews'[w].id \in Requests
             /\ w \in completed' /\ VisitOf[w].buyer = reviews'[w].by
             /\ \A u \in Visits \ {w} : <<reviews'[u].by, reviews'[u].about>>
                                        # <<reviews'[w].by, reviews'[w].about>>
  <2>1. CASE w = v
    <3>1. \A u \in Visits \ {w} : reviews'[u] = reviews[u]
      BY <1>1, <2>1
    <3> QED BY <1>1, <2>1, <3>1
  <2>2. CASE w # v
    <3>1. reviews'[w] = reviews[w] /\ reviews'[v] = x
      BY <1>1, <2>2
    <3>2. /\ reviews[w].id \in Requests
          /\ w \in completed /\ VisitOf[w].buyer = reviews[w].by
          /\ \A u \in Visits \ {w} : <<reviews[u].by, reviews[u].about>>
                                     # <<reviews[w].by, reviews[w].about>>
      BY <1>2, <3>1 DEF BaseInv, ReviewOK, ReviewedIsVisited
    <3>3. \A u \in Visits \ {w, v} : reviews'[u] = reviews[u]
      BY <1>1
    <3> QED BY <3>1, <3>2, <3>3
  <2> QED BY <2>1, <2>2
<1> QED BY <1>2 DEF ReviewOK, ReviewedIsVisited

\* createReview keeps what is known of reviews and types.
LEMMA CreateStep ==
  ASSUME BaseInv, NEW r \in Requests, CreateReview(r)
  PROVE  reviews' \in [Visits -> Review] /\ ReviewOK'
<1>1. /\ pc[r] = "create" /\ task[r] \in Task /\ TaskOK(r)
      /\ completed' = completed /\ reviews \in [Visits -> Review]
  BY DEF CreateReview, tableVars, BaseInv, TypeOK, TasksOK
<1> DEFINE t == task[r]
           new == /\ reviews[t.visit] = NoReview /\ Exists(t.about)
                  /\ \A v \in Visits : ~(reviews[v].by = t.by /\ reviews[v].about = t.about)
           x == [id |-> r, by |-> t.by, about |-> t.about, rating |-> "good", old |-> FALSE]
<1>2. /\ t.by \in Buyers /\ t.about \in Properties /\ t.visit \in Visits
      /\ t.visit \in completed /\ VisitOf[t.visit].buyer = t.by
  BY <1>1 DEF TaskOK
<1>3. x \in Review
  BY <1>2 DEF Review
<1>4. reviews' = [reviews EXCEPT ![t.visit] = IF new THEN x ELSE @]
  BY DEF CreateReview
<1>5. x.id = r /\ x.by = t.by /\ x.about = t.about
  OBVIOUS
<1>6. CASE new
  <2>1. \A v \in Visits : ~(reviews[v].by = x.by /\ reviews[v].about = x.about)
    BY <1>5, <1>6
  <2>2. reviews' = [reviews EXCEPT ![t.visit] = x]
    BY <1>4, <1>6
  <2> HIDE DEF x, new, t
  <2>3. ReviewOK'
    BY <1>1, <1>2, <1>3, <1>5, <2>1, <2>2, ReviewAdded
  <2> QED BY <1>1, <1>2, <1>3, <2>2, <2>3
<1>7. CASE ~ new
  <2> HIDE DEF x, new
  <2>1. reviews' = reviews
    BY <1>1, <1>4, <1>7
  <2> QED BY <1>1, <2>1 DEF BaseInv, ReviewOK, ReviewedIsVisited
<1> QED BY <1>6, <1>7

\* updateReview rewrites a rating and nothing that is asked of a review.
LEMMA UpdateStep ==
  ASSUME BaseInv, NEW r \in Requests, UpdateReview(r)
  PROVE  reviews' \in [Visits -> Review] /\ ReviewOK'
<1> DEFINE v == task[r].visit
<1>1. /\ v \in Visits /\ task[r].review \in Requests
      /\ completed' = completed /\ reviews \in [Visits -> Review]
  BY DEF UpdateReview, tableVars, BaseInv, TypeOK, TasksOK, TaskOK
<1>2. reviews' = [reviews EXCEPT ![v].rating =
                    IF reviews[v].id = task[r].review THEN "bad" ELSE @]
  BY DEF UpdateReview
<1> HIDE DEF v
<1>3. reviews[v] \in Review
  BY <1>1
<1>4. CASE reviews[v].id = task[r].review
  <2> DEFINE x == [reviews[v] EXCEPT !.rating = "bad"]
  <2>1. reviews' = [reviews EXCEPT ![v] = x]
    BY <1>2, <1>4, Zenon
  <2>2. x \in Review /\ x.id = reviews[v].id /\ x.by = reviews[v].by
        /\ x.about = reviews[v].about
    BY <1>3 DEF Review
  <2>3. reviews[v] # NoReview
    BY <1>1, <1>4 DEF NoReview
  <2> HIDE DEF x
  <2>4. ReviewOK'
    BY <1>1, <2>1, <2>2, <2>3, ReviewRewritten
  <2> QED BY <1>1, <2>1, <2>2, <2>4
<1>5. CASE reviews[v].id # task[r].review
  <2>1. reviews' = reviews
    <3>1. [reviews[v] EXCEPT !.rating = reviews[v].rating] = reviews[v]
      BY <1>3 DEF Review
    <3>2. reviews' = [reviews EXCEPT ![v] =
                        [reviews[v] EXCEPT !.rating = reviews[v].rating]]
      BY <1>2, <1>5, Zenon
    <3> QED BY <1>1, <3>1, <3>2
  <2> QED BY <1>1, <2>1 DEF BaseInv, ReviewOK, ReviewedIsVisited
<1> QED BY <1>4, <1>5

\* deleteReview takes a review away, if it is still the one that was read.
LEMMA DeleteStep ==
  ASSUME BaseInv, NEW r \in Requests, DeleteReview(r)
  PROVE  reviews' \in [Visits -> Review] /\ ReviewOK'
<1> DEFINE v == task[r].visit
<1>1. /\ v \in Visits
      /\ completed' = completed /\ reviews \in [Visits -> Review]
  BY DEF DeleteReview, tableVars, BaseInv, TypeOK, TasksOK, TaskOK
<1>2. reviews' = [reviews EXCEPT ![v] =
                    IF reviews[v].id = task[r].review THEN NoReview ELSE @]
  BY DEF DeleteReview
<1> HIDE DEF v
<1>3. CASE reviews[v].id = task[r].review
  <2>1. reviews' = [reviews EXCEPT ![v] = NoReview]
    BY <1>2, <1>3
  <2>2. ReviewOK'
    BY <1>1, <2>1, ReviewRemoved
  <2> QED BY <1>1, <2>1, <2>2, NoReviewType
<1>4. CASE reviews[v].id # task[r].review
  <2>1. reviews' = reviews
    BY <1>1, <1>2, <1>4
  <2> QED BY <1>1, <2>1 DEF BaseInv, ReviewOK, ReviewedIsVisited
<1> QED BY <1>3, <1>4

\* Time makes a review old and nothing else.
LEMMA AgeStep ==
  ASSUME BaseInv, NEW v \in Visits, Age(v)
  PROVE  reviews' \in [Visits -> Review] /\ ReviewOK'
<1>1. /\ reviews[v] # NoReview /\ reviews' = [reviews EXCEPT ![v].old = TRUE]
      /\ completed' = completed /\ reviews \in [Visits -> Review]
  BY DEF Age, tableVars, BaseInv, TypeOK
<1> DEFINE x == [reviews[v] EXCEPT !.old = TRUE]
<1>2. reviews' = [reviews EXCEPT ![v] = x]
  BY <1>1, Zenon
<1>3. x \in Review /\ x.id = reviews[v].id /\ x.by = reviews[v].by
      /\ x.about = reviews[v].about
  <2>1. reviews[v] \in Review
    BY <1>1
  <2> QED BY <2>1 DEF Review
<1> HIDE DEF x
<1>4. ReviewOK'
  BY <1>1, <1>2, <1>3, ReviewRewritten
<1> QED BY <1>1, <1>2, <1>3, <1>4

\* What agents do changes the history of the walks, and no other part of a task.
LEMMA BecomesTasks ==
  ASSUME BaseInv, NEW t, Becomes(t)
  PROVE  /\ pc' = pc /\ task' \in [Requests -> Task] /\ TasksOK'
         /\ \A r \in Requests :
              /\ pc[r] # "page" => task'[r] = task[r]
              /\ pc[r] = "page" =>
                   LET q == task[r].query
                   IN  /\ task'[r].query = q /\ task'[r].page = task[r].page
                       /\ task'[r].open = task[r].open /\ task'[r].total = task[r].total
                       /\ task'[r].seen = task[r].seen
                       /\ task'[r].kept = task[r].kept \cap Matching(t, q)
                       /\ ~ task'[r].shaken =>
                            /\ ~ task[r].shaken
                            /\ \A p \in Matching(listing, q) :
                                 /\ p \in Matching(t, q)
                                 /\ q.sort \in {"PriceAsc", "PriceDsc"}
                                      => t[p].price = listing[p].price
                            /\ task[r].open = {"rows"}
                                 => Matching(t, q) \subseteq Matching(listing, q)
<1>1. pc' = pc /\ completed' = completed
  BY DEF Becomes
<1> DEFINE shaken(r) ==
             LET q == task[r].query
             IN  \/ task[r].shaken
                 \/ \E p \in Matching(listing, q) :
                       \/ p \notin Matching(t, q)
                       \/ /\ q.sort \in {"PriceAsc", "PriceDsc"}
                          /\ t[p].price # listing[p].price
                 \/ /\ task[r].open = {"rows"}
                    /\ ~(Matching(t, q) \subseteq Matching(listing, q))
           new(r) == [task[r] EXCEPT !.kept = @ \cap Matching(t, task[r].query),
                                     !.shaken = shaken(r)]
<1>2. task' = [r \in Requests |-> IF pc[r] # "page" THEN task[r] ELSE new(r)]
  BY DEF Becomes
<1>3. ASSUME NEW r \in Requests PROVE shaken(r) \in BOOLEAN
  <2>1. task[r].shaken \in BOOLEAN
    BY DEF BaseInv, TypeOK, Task
  <2> QED BY <2>1
<1>4. ASSUME NEW r \in Requests
      PROVE  /\ new(r) \in Task
             /\ new(r).query = task[r].query /\ new(r).page = task[r].page
             /\ new(r).open = task[r].open /\ new(r).total = task[r].total
             /\ new(r).seen = task[r].seen
             /\ new(r).kept = task[r].kept \cap Matching(t, task[r].query)
             /\ new(r).shaken = shaken(r)
  <2>1. task[r] \in Task
    BY DEF BaseInv, TypeOK
  <2>2. shaken(r) \in BOOLEAN
    BY <1>3
  <2> HIDE DEF shaken
  <2> QED BY <2>1, <2>2 DEF Task
<1> HIDE DEF new
<1>5. \A r \in Requests : task'[r] = IF pc[r] # "page" THEN task[r] ELSE new(r)
  BY <1>2
<1>6. task' \in [Requests -> Task]
  BY <1>2, <1>4 DEF BaseInv, TypeOK
<1>7. TasksOK'
  <2> SUFFICES ASSUME NEW r \in Requests PROVE TaskOK(r)'
    BY DEF TasksOK
  <2>1. TaskOK(r)
    BY DEF BaseInv, TasksOK
  <2>2. CASE pc[r] # "page"
    BY <1>1, <1>5, <2>1, <2>2 DEF TaskOK
  <2>3. CASE pc[r] = "page"
    <3>1. task'[r].page = task[r].page
      BY <1>4, <1>5, <2>3
    <3> QED BY <1>1, <2>1, <2>3, <3>1 DEF TaskOK
  <2> QED BY <2>2, <2>3
<1>8. ASSUME NEW r \in Requests, pc[r] = "page"
      PROVE  LET q == task[r].query
             IN  /\ task'[r].query = q /\ task'[r].page = task[r].page
                 /\ task'[r].open = task[r].open /\ task'[r].total = task[r].total
                 /\ task'[r].seen = task[r].seen
                 /\ task'[r].kept = task[r].kept \cap Matching(t, q)
                 /\ ~ task'[r].shaken =>
                      /\ ~ task[r].shaken
                      /\ \A p \in Matching(listing, q) :
                           /\ p \in Matching(t, q)
                           /\ q.sort \in {"PriceAsc", "PriceDsc"}
                                => t[p].price = listing[p].price
                      /\ task[r].open = {"rows"}
                           => Matching(t, q) \subseteq Matching(listing, q)
  BY <1>4, <1>5, <1>8
<1> QED BY <1>1, <1>5, <1>6, <1>7, <1>8

-----------------------------------------------------------------------------
(* Every step keeps the types, the tasks and the reviews *)

LEMMA BaseInit == Init => BaseInv
<1> SUFFICES ASSUME Init PROVE BaseInv
  OBVIOUS
<1>1. (CHOOSE x \in Prices : TRUE) \in Prices
  OBVIOUS
<1>2. listing \in [Properties -> Listing]
  <2> DEFINE price == CHOOSE x \in Prices : TRUE
  <2>1. [status |-> "none", price |-> price, at |-> 0] \in Listing
    <3>1. 0 \in 0 .. MaxChanges /\ "none" \in Statuses
      BY DEF Statuses
    <3> QED BY <1>1, <3>1 DEF Listing
  <2>2. listing = [p \in Properties |-> [status |-> "none", price |-> price, at |-> 0]]
    BY DEF Init
  <2> HIDE DEF price
  <2> QED BY <2>1, <2>2
<1>3. TypeOK
  <2>1. created \in 0 .. MaxChanges /\ changes \in 0 .. MaxChanges
    BY DEF Init
  <2>2. /\ completed \subseteq Visits /\ saved \subseteq Buyers \X Properties
        /\ reviews \in [Visits -> Review] /\ may \in Mixes
    BY NoReviewType DEF Init
  <2>3. pc \in [Requests -> Labels] /\ task \in [Requests -> Task]
    BY NoTaskType DEF Init, Labels
  <2> QED BY <1>2, <2>1, <2>2, <2>3 DEF TypeOK
<1>4. TableOK
  <2>1. Existing = {}
    BY DEF Init, Existing, Exists
  <2>2. created = 0 /\ changes = 0
    BY DEF Init
  <2> QED BY <2>1, <2>2, FS_EmptySet DEF TableOK
<1>5. TasksOK /\ ReviewOK
  BY DEF Init, TasksOK, TaskOK, ReviewOK, ReviewedIsVisited
<1> QED BY <1>3, <1>4, <1>5 DEF BaseInv

\* The reviews stay as long as nobody writes them, whoever else visits.
LEMMA ReviewsKept ==
  ASSUME BaseInv, reviews' = reviews, completed \subseteq completed'
  PROVE  reviews' \in [Visits -> Review] /\ ReviewOK'
BY DEF BaseInv, TypeOK, ReviewOK, ReviewedIsVisited

\* A request of a buyer leaves the table of listings and the visits alone.
LEMMA BuyerFrame ==
  ASSUME NEW r \in Requests, BuyerStep(r)
  PROVE  /\ listing' = listing /\ created' = created /\ changes' = changes
         /\ completed' = completed /\ may' = may
         /\ \/ reviews' = reviews
            \/ CreateReview(r) \/ UpdateReview(r) \/ DeleteReview(r)
BY DEF BuyerStep, AskSearch, ReadRows, ReadTotal, TurnPage, AskSave, CheckListing,
       AddSavedProperty, AskUnsave, RemoveSavedProperty, AskReview, CheckVisit,
       CreateReview, AskEdit, UpdateReview, AskUnreview, DeleteReview, Begins, Finish,
       tableVars, buyerVars

\* Every step of a buyer leaves requests that have the type of requests.
LEMMA BuyerTasks ==
  ASSUME BaseInv, NEW r \in Requests, BuyerStep(r)
  PROVE  /\ pc' \in [Requests -> Labels] /\ task' \in [Requests -> Task]
         /\ TasksOK'
<1>1. completed' = completed
  BY BuyerFrame
<1>2. CASE AskSearch(r) \/ ReadRows(r) \/ ReadTotal(r) \/ TurnPage(r)
  BY <1>2, WalkTypes
<1>3. CASE AskSave(r) \/ AskUnsave(r) \/ AskReview(r) \/ AskEdit(r) \/ AskUnreview(r)
  BY <1>3, AskTypes
<1>4. CASE CheckListing(r) \/ CheckVisit(r)
  BY <1>4, CheckTypes
<1>5. CASE \/ AddSavedProperty(r) \/ RemoveSavedProperty(r)
           \/ CreateReview(r) \/ UpdateReview(r) \/ DeleteReview(r)
  <2>1. Finish(r)
    BY <1>5 DEF AddSavedProperty, RemoveSavedProperty, CreateReview, UpdateReview,
                DeleteReview
  <2> QED BY <1>1, <2>1, OneFinishes DEF BaseInv
<1> QED BY <1>2, <1>3, <1>4, <1>5 DEF BuyerStep

\* Every step of a buyer leaves saved pairs that are pairs of a buyer and a listing.
LEMMA BuyerSaved ==
  ASSUME BaseInv, NEW r \in Requests, BuyerStep(r)
  PROVE  saved' \subseteq Buyers \X Properties
<1>a. saved \subseteq Buyers \X Properties
  BY DEF BaseInv, TypeOK
<1>1. CASE AddSavedProperty(r)
  <2>1. task[r].by \in Buyers /\ task[r].about \in Properties
    BY <1>1 DEF AddSavedProperty, BaseInv, TasksOK, TaskOK
  <2>2. saved' \subseteq saved \cup {<<task[r].by, task[r].about>>}
    BY <1>1 DEF AddSavedProperty
  <2> QED BY <1>a, <2>1, <2>2
<1>2. CASE RemoveSavedProperty(r)
  BY <1>a, <1>2 DEF RemoveSavedProperty
<1>3. CASE ~ (AddSavedProperty(r) \/ RemoveSavedProperty(r))
  <2>1. saved' = saved
    BY <1>3 DEF BuyerStep, AskSearch, ReadRows, ReadTotal, TurnPage, AskSave, CheckListing,
       AskUnsave, AskReview, CheckVisit, CreateReview, AskEdit, UpdateReview, AskUnreview,
       DeleteReview, buyerVars
  <2> QED BY <1>a, <2>1
<1> QED BY <1>1, <1>2, <1>3

\* Every step keeps the invariant the walks rest on.
LEMMA BaseStep == BaseInv /\ [Next]_vars => BaseInv'
<1> SUFFICES ASSUME BaseInv, [Next]_vars PROVE BaseInv'
  OBVIOUS
<1>a. TypeOK /\ TableOK /\ TasksOK /\ ReviewOK
  BY DEF BaseInv
<1>1. ASSUME NEW r \in Requests, BuyerStep(r) PROVE BaseInv'
  <2>1. /\ listing' = listing /\ created' = created /\ changes' = changes
        /\ completed' = completed /\ may' = may
    BY <1>1, BuyerFrame
  <2>2. reviews' \in [Visits -> Review] /\ ReviewOK'
    <3>1. CASE reviews' = reviews
      BY <2>1, <3>1, ReviewsKept
    <3>2. CASE CreateReview(r) \/ UpdateReview(r) \/ DeleteReview(r)
      BY <3>2, CreateStep, UpdateStep, DeleteStep
    <3> QED BY <1>1, <3>1, <3>2, BuyerFrame
  <2>3. /\ pc' \in [Requests -> Labels] /\ task' \in [Requests -> Task]
        /\ TasksOK'
    BY <1>1, BuyerTasks
  <2>4. saved' \subseteq Buyers \X Properties
    BY <1>1, BuyerSaved
  <2>5. TableOK'
    BY <1>a, <2>1 DEF TableOK, Existing, Exists
  <2>6. TypeOK'
    BY <1>a, <2>1, <2>2, <2>3, <2>4 DEF TypeOK
  <2> QED BY <2>2, <2>3, <2>5, <2>6 DEF BaseInv
<1>2. CASE AgentStep
  <2>1. /\ listing' \in [Properties -> Listing]
        /\ created' \in 0 .. MaxChanges /\ changes' \in 0 .. MaxChanges
        /\ TableOK'
        /\ Becomes(listing')
    BY <1>a, <1>2, TableWritten
  <2>2. completed' = completed /\ saved' = saved /\ reviews' = reviews /\ may' = may
    BY <2>1 DEF Becomes, buyerVars
  <2>3. pc' = pc /\ task' \in [Requests -> Task] /\ TasksOK'
    BY <2>1, BecomesTasks
  <2>4. reviews' \in [Visits -> Review] /\ ReviewOK'
    BY <2>2, ReviewsKept
  <2>5. TypeOK'
    BY <1>a, <2>1, <2>2, <2>3, <2>4 DEF TypeOK
  <2> QED BY <2>1, <2>3, <2>4, <2>5 DEF BaseInv
<1>3. ASSUME NEW v \in Visits, Visit(v) PROVE BaseInv'
  <2>1. /\ completed' = completed \cup {v}
        /\ UNCHANGED <<listing, created, changes, saved, reviews, may, pc, task>>
    BY <1>3 DEF Visit, buyerVars
  <2>2. reviews' \in [Visits -> Review] /\ ReviewOK'
    BY <2>1, ReviewsKept
  <2>3. TasksOK'
    BY <1>a, <2>1 DEF TasksOK, TaskOK
  <2>4. TableOK'
    BY <1>a, <2>1 DEF TableOK, Existing, Exists
  <2>5. TypeOK'
    BY <1>a, <2>1 DEF TypeOK
  <2> QED BY <2>2, <2>3, <2>4, <2>5 DEF BaseInv
<1>4. ASSUME NEW v \in Visits, Age(v) PROVE BaseInv'
  <2>1. UNCHANGED <<listing, created, changes, completed, saved, may, pc, task>>
    BY <1>4 DEF Age, tableVars
  <2>2. reviews' \in [Visits -> Review] /\ ReviewOK'
    BY <1>4, AgeStep
  <2>3. TasksOK'
    BY <1>a, <2>1 DEF TasksOK, TaskOK
  <2>4. TableOK'
    BY <1>a, <2>1 DEF TableOK, Existing, Exists
  <2>5. TypeOK'
    BY <1>a, <2>1, <2>2 DEF TypeOK
  <2> QED BY <2>2, <2>3, <2>4, <2>5 DEF BaseInv
<1>5. CASE UNCHANGED vars
  <2>1. UNCHANGED <<listing, created, changes, completed, saved, reviews, may, pc, task>>
    BY <1>5 DEF vars, tableVars, buyerVars
  <2>2. ReviewOK'
    BY <2>1, ReviewsKept
  <2>3. TasksOK'
    BY <1>a, <2>1 DEF TasksOK, TaskOK
  <2>4. TableOK'
    BY <1>a, <2>1 DEF TableOK, Existing, Exists
  <2>5. TypeOK'
    BY <1>a, <2>1 DEF TypeOK
  <2> QED BY <2>2, <2>3, <2>4, <2>5 DEF BaseInv
<1> QED BY <1>1, <1>2, <1>3, <1>4, <1>5, Steps DEF TimeStep

\* The tables, the requests and the reviews are what the handlers take them for: every
\* row of the Property table has its type and its number, every request carries what
\* its next call needs, and every review belongs to a visit that took place.
THEOREM BaseHolds == Spec => []BaseInv
BY BaseInit, BaseStep, PTL DEF Spec

\* Whatever buyers ask for and agents change meanwhile, every table and every
\* request keeps its type.
THEOREM TypeCorrect == Spec => []TypeOK
<1>1. BaseInv => TypeOK
  BY DEF BaseInv
<1> QED BY <1>1, BaseHolds, PTL

\* checkReview, createReview, updateReview, deleteReview: whoever has a review on
\* record has been there, once for each listing, through concurrent reviews and
\* deletions.
THEOREM ReviewsAreEarned == Spec => []ReviewedIsVisited
<1>1. BaseInv => ReviewedIsVisited
  BY DEF BaseInv, ReviewOK
<1> QED BY <1>1, BaseHolds, PTL

-----------------------------------------------------------------------------
(* A walk through a list *)

\* The pages of a walk whose rows were read.
PagesRead(t) == IF "rows" \in t.open THEN t.page - 1 ELSE t.page

\* What is known of a walk that nothing has shaken.  A row that matched all along
\* and was not given yet comes after everything the pages read so far have room
\* for: rows that come meanwhile push it back, and never forward.  The number of
\* rows read in a page is that of the rows it is told of, or was when they were
\* read: it is beyond the page as long as a row is missing.
Walk(table, t) ==
  LET q == t.query
  IN  /\ \A p \in t.kept \ t.seen :
           Cardinality(Ahead(table, q, p)) >= PagesRead(t) * Limit(q)
      /\ t.open = {"rows"} => t.total = Cardinality(Matching(table, q))
      /\ t.open = {} => t.kept \subseteq t.seen \/ t.total > t.page * Limit(q)

WalkOK(table, l, t) ==
  /\ l = "page" => t.kept \subseteq Matching(table, t.query)
  /\ l = "page" => t.shaken \/ Walk(table, t)
  /\ l # "page" => t.shaken \/ Cut(t) \/ t.kept \subseteq t.seen

WalkInv == \A r \in Requests : WalkOK(listing, pc[r], task[r])

\* A new walk has read nothing.
LEMMA WalkBegins ==
  ASSUME BaseInv, NEW r \in Requests, AskSearch(r)
  PROVE  WalkOK(listing', pc'[r], task'[r])
<1>1. PICK q \in Query :
        Begins(r, "search", [NoTask EXCEPT !.query = q, !.open = {"rows", "total"},
                                           !.kept = Matching(listing, q)], "page")
  BY DEF AskSearch
<1> DEFINE t == [NoTask EXCEPT !.query = q, !.open = {"rows", "total"},
                               !.kept = Matching(listing, q)]
<1>2. /\ t.query = q /\ t.open = {"rows", "total"} /\ t.page = 1
      /\ t.kept = Matching(listing, q)
  BY DEF NoTask
<1>3. listing' = listing /\ pc'[r] = "page" /\ task'[r] = t
  BY <1>1 DEF AskSearch, tableVars, Begins, GoTo, BaseInv, TypeOK
<1> HIDE DEF t
<1>4. PagesRead(t) * Limit(q) = 0
  <2>1. PagesRead(t) = 0 /\ Limit(q) \in Nat
    BY <1>2, LimitIsPositive DEF PagesRead
  <2> QED BY <2>1
<1>5. \A p \in t.kept \ t.seen :
        Cardinality(Ahead(listing, q, p)) >= PagesRead(t) * Limit(q)
  <2> SUFFICES ASSUME NEW p \in t.kept PROVE Cardinality(Ahead(listing, q, p)) >= 0
    BY <1>4
  <2>1. IsFiniteSet(Matching(listing, q))
    BY MatchingIsFinite DEF BaseInv
  <2>2. Cardinality(Ahead(listing, q, p)) \in Nat
    BY <1>2, <2>1, AheadIsLess DEF BaseInv, TypeOK
  <2> QED BY <2>2
<1>6. Walk(listing, t)
  BY <1>2, <1>5 DEF Walk
<1> QED BY <1>2, <1>3, <1>6 DEF WalkOK

\* The rows of a page: what is missing was put after them.
LEMMA WalkReadsRows ==
  ASSUME BaseInv, NEW r \in Requests, ReadRows(r), WalkOK(listing, pc[r], task[r])
  PROVE  WalkOK(listing', pc'[r], task'[r])
<1> DEFINE t == task[r]
           q == t.query
           l == Limit(q)
<1>1. /\ pc[r] = "page" /\ pc' = pc /\ listing' = listing /\ "rows" \in t.open
      /\ t \in Task /\ TaskOK(r)
  BY DEF ReadRows, tableVars, BaseInv, TypeOK, TasksOK
<1>2. PICK o \in Orders(q) :
        task' = [task EXCEPT ![r].open = @ \ {"rows"},
                             ![r].seen = @ \cup Page(o, q, t.page),
                             ![r].shaken = @ \/ Tied(q)]
  BY DEF ReadRows
<1>3. task'[r] = [t EXCEPT !.open = @ \ {"rows"}, !.seen = @ \cup Page(o, q, t.page),
                           !.shaken = @ \/ Tied(q)]
  BY <1>2 DEF BaseInv, TypeOK
<1> DEFINE n == task'[r]
<1>4. /\ n.query = q /\ n.page = t.page /\ n.total = t.total /\ n.kept = t.kept
      /\ n.open = t.open \ {"rows"} /\ n.seen = t.seen \cup Page(o, q, t.page)
      /\ n.shaken <=> (t.shaken \/ Tied(q))
  BY <1>1, <1>3 DEF Task
<1>5. q \in Query /\ t.page \in Nat /\ t.page > 0 /\ l \in Nat \ {0}
  BY <1>1, LimitIsPositive DEF Task, TaskOK
<1>6. IsFiniteSet(Matching(listing, q)) /\ listing \in [Properties -> Listing]
  BY MatchingIsFinite DEF BaseInv, TypeOK
<1> HIDE DEF n, l
<1>7. t.kept \subseteq Matching(listing, q)
  BY <1>1 DEF WalkOK
<1> SUFFICES ASSUME ~ n.shaken PROVE Walk(listing, n)
  BY <1>1, <1>4, <1>7 DEF WalkOK, n
<1>8. ~ Tied(q) /\ Walk(listing, t)
  BY <1>1, <1>4 DEF WalkOK
<1>9. ASSUME NEW p \in t.kept \ n.seen
      PROVE  Cardinality(Ahead(listing, q, p)) >= t.page * l
  <2>1. PICK i \in DOMAIN o : o[i] = p /\ Cardinality(Ahead(listing, q, p)) = i - 1
    BY <1>5, <1>6, <1>7, <1>8, PlaceInOrder
  <2>2. Cardinality(Matching(listing, q)) \in Nat
    BY <1>6, FS_CardinalityType
  <2>3. i \in Nat
    BY <2>1, <2>2 DEF Orders
  <2>4. i - 1 >= (t.page - 1) * l
    BY <1>1, <1>4, <1>8, <2>1 DEF Walk, PagesRead, l
  <2>5. ~ (i \in (t.page - 1) * l + 1 .. t.page * l)
    BY <1>4, <2>1 DEF Page, l
  <2> DEFINE a == (t.page - 1) * l
             b == t.page * l
  <2>6. a \in Int /\ b \in Int
    BY <1>5
  <2> HIDE DEF a, b
  <2>7. i - 1 >= a /\ ~ (i \in a + 1 .. b)
    BY <2>4, <2>5 DEF a, b
  <2>8. i - 1 >= b
    BY <2>3, <2>6, <2>7
  <2> QED BY <2>1, <2>8 DEF b
<1>10. PagesRead(n) = t.page /\ n.open # {"rows"}
  BY <1>4 DEF PagesRead
<1>11. ASSUME n.open = {}, ~ (n.kept \subseteq n.seen) PROVE n.total > n.page * l
  <2>1. t.open = {"rows"}
    BY <1>1, <1>4, <1>11
  <2>2. t.total = Cardinality(Matching(listing, q))
    BY <1>8, <2>1 DEF Walk
  <2>3. PICK p \in t.kept : p \notin n.seen
    BY <1>4, <1>11
  <2>4. /\ Cardinality(Ahead(listing, q, p)) \in Nat
        /\ Cardinality(Matching(listing, q)) \in Nat
        /\ Cardinality(Ahead(listing, q, p)) < Cardinality(Matching(listing, q))
    BY <1>5, <1>6, <1>7, AheadIsLess
  <2> DEFINE b == t.page * l
  <2>5. b \in Int /\ Cardinality(Ahead(listing, q, p)) >= b
    BY <1>5, <1>9, <2>3
  <2> HIDE DEF b
  <2>6. t.total > b
    BY <2>2, <2>4, <2>5
  <2> QED BY <1>4, <2>6 DEF b
<1> QED BY <1>4, <1>9, <1>10, <1>11 DEF Walk, l

\* The number of rows of a page.
LEMMA WalkReadsTotal ==
  ASSUME BaseInv, NEW r \in Requests, ReadTotal(r), WalkOK(listing, pc[r], task[r])
  PROVE  WalkOK(listing', pc'[r], task'[r])
<1> DEFINE t == task[r]
           q == t.query
           l == Limit(q)
<1>1. /\ pc[r] = "page" /\ pc' = pc /\ listing' = listing /\ "total" \in t.open
      /\ t \in Task /\ TaskOK(r)
  BY DEF ReadTotal, tableVars, BaseInv, TypeOK, TasksOK
<1>2. task'[r] = [t EXCEPT !.open = @ \ {"total"},
                           !.total = Cardinality(Matching(listing, q))]
  BY DEF ReadTotal, BaseInv, TypeOK
<1> DEFINE n == task'[r]
<1>3. /\ n.query = q /\ n.page = t.page /\ n.kept = t.kept /\ n.seen = t.seen
      /\ n.open = t.open \ {"total"} /\ n.total = Cardinality(Matching(listing, q))
      /\ n.shaken = t.shaken
  BY <1>1, <1>2 DEF Task
<1>4. q \in Query /\ t.page \in Nat /\ l \in Nat \ {0}
  BY <1>1, LimitIsPositive DEF Task, TaskOK
<1>5. IsFiniteSet(Matching(listing, q)) /\ listing \in [Properties -> Listing]
  BY MatchingIsFinite DEF BaseInv, TypeOK
<1> HIDE DEF n, l
<1>6. t.kept \subseteq Matching(listing, q)
  BY <1>1 DEF WalkOK
<1> SUFFICES ASSUME ~ n.shaken PROVE Walk(listing, n)
  BY <1>1, <1>3, <1>6 DEF WalkOK, n
<1>7. Walk(listing, t)
  BY <1>1, <1>3 DEF WalkOK
<1>8. PagesRead(n) = PagesRead(t)
  BY <1>3 DEF PagesRead
<1>9. ASSUME n.open = {}, ~ (n.kept \subseteq n.seen) PROVE n.total > n.page * l
  <2>1. PagesRead(t) = t.page
    BY <1>3, <1>9 DEF PagesRead
  <2>2. PICK p \in t.kept : p \notin t.seen
    BY <1>3, <1>9
  <2>3. /\ Cardinality(Ahead(listing, q, p)) \in Nat
        /\ Cardinality(Matching(listing, q)) \in Nat
        /\ Cardinality(Ahead(listing, q, p)) < Cardinality(Matching(listing, q))
    BY <1>4, <1>5, <1>6, AheadIsLess
  <2> DEFINE b == t.page * l
  <2>4. b \in Int /\ Cardinality(Ahead(listing, q, p)) >= b
    BY <1>4, <1>7, <2>1, <2>2 DEF Walk, l
  <2> HIDE DEF b
  <2>5. n.total > b
    BY <1>3, <2>3, <2>4
  <2> QED BY <1>3, <2>5 DEF b
<1> QED BY <1>3, <1>7, <1>8, <1>9 DEF Walk, l

\* A turned page: the pages read are the same, or the last one was read.
LEMMA WalkTurns ==
  ASSUME BaseInv, NEW r \in Requests, TurnPage(r), WalkOK(listing, pc[r], task[r])
  PROVE  WalkOK(listing', pc'[r], task'[r])
<1> DEFINE t == task[r]
           q == t.query
           l == Limit(q)
<1>1. /\ pc[r] = "page" /\ listing' = listing /\ t.open = {}
      /\ t \in Task /\ TaskOK(r)
  BY DEF TurnPage, tableVars, BaseInv, TypeOK, TasksOK
<1>2. q \in Query /\ t.page \in Nat /\ l \in Nat \ {0} /\ t.total \in Nat
  BY <1>1, LimitIsPositive DEF Task, TaskOK
<1>3. t.kept \subseteq Matching(listing, q) /\ (t.shaken \/ Walk(listing, t))
  BY <1>1 DEF WalkOK
<1>4. CASE q.paged /\ t.page < TotalPages(t.total, q)
  <2>1. /\ pc' = pc
        /\ task' = [task EXCEPT ![r].page = @ + 1, ![r].open = {"rows", "total"}]
    BY <1>4 DEF TurnPage
  <2>2. task'[r] = [t EXCEPT !.page = @ + 1, !.open = {"rows", "total"}]
    BY <2>1 DEF BaseInv, TypeOK
  <2> DEFINE n == task'[r]
  <2>3. /\ n.query = q /\ n.page = t.page + 1 /\ n.kept = t.kept /\ n.seen = t.seen
        /\ n.open = {"rows", "total"} /\ n.shaken = t.shaken
    BY <1>1, <2>2 DEF Task
  <2> HIDE DEF n, l
  <2>4. PagesRead(n) = PagesRead(t)
    BY <1>1, <1>2, <2>3 DEF PagesRead
  <2>5. Walk(listing, t) => Walk(listing, n)
    BY <2>3, <2>4 DEF Walk
  <2> QED BY <1>1, <1>3, <2>1, <2>3, <2>5 DEF WalkOK, n
<1>5. CASE ~ q.paged
  <2>1. pc'[r] = "done" /\ task' = task
    BY <1>5 DEF TurnPage, Finish, GoTo, BaseInv, TypeOK
  <2>2. t.page > 0
    BY <1>1 DEF TaskOK
  <2>3. ASSUME ~ Cut(t) PROVE ~ (t.total > t.page * l)
    <3>1. t.total <= l
      BY <1>2, <1>5, <2>3 DEF Cut
    <3> HIDE DEF l
    <3>2. l <= t.page * l
      <4> DEFINE b == (t.page - 1) * l
      <4>1. t.page - 1 \in Nat
        BY <1>2, <2>2
      <4>2. b >= 0 /\ b \in Int /\ t.page * l = b + l
        BY <1>2, <4>1
      <4> HIDE DEF b
      <4> QED BY <1>2, <4>2
    <3> DEFINE m == t.page * l
    <3>3. m \in Int
      BY <1>2
    <3> HIDE DEF m
    <3>4. l <= m
      BY <3>2 DEF m
    <3>5. ~ (t.total > m)
      BY <1>2, <3>1, <3>3, <3>4
    <3> QED BY <3>5 DEF m
  <2>4. Walk(listing, t) /\ ~ Cut(t) => t.kept \subseteq t.seen
    BY <1>1, <2>3 DEF Walk, l
  <2> QED BY <1>3, <2>1, <2>4 DEF WalkOK
<1>6. CASE q.paged /\ ~ (t.page < TotalPages(t.total, q))
  <2>1. pc'[r] = "done" /\ task' = task
    BY <1>6 DEF TurnPage, Finish, GoTo, BaseInv, TypeOK
  <2>2. TotalPages(t.total, q) = (t.total + l - 1) \div l
    BY DEF TotalPages
  <2> HIDE DEF l
  <2>3. t.page >= (t.total + l - 1) \div l
    <3>1. (t.total + l - 1) \div l \in Int
      BY <1>2
    <3> QED BY <1>2, <1>6, <2>2, <3>1
  <2>4. t.total <= t.page * l
    BY <1>2, <2>3, PagesCover
  <2>5. ~ (t.total > t.page * l)
    BY <1>2, <2>4
  <2>6. Walk(listing, t) => t.kept \subseteq t.seen
    BY <1>1, <2>5 DEF Walk, l
  <2> QED BY <1>3, <2>1, <2>6 DEF WalkOK
<1> QED BY <1>4, <1>5, <1>6

\* What agents do to the table puts rows before others and takes none away, in a
\* walk that it does not shake.
LEMMA WalkGoesOn ==
  ASSUME BaseInv, BaseInv', AgentStep, NEW r \in Requests,
         WalkOK(listing, pc[r], task[r])
  PROVE  WalkOK(listing', pc'[r], task'[r])
<1>1. /\ listing' \in [Properties -> Listing] /\ Becomes(listing')
      /\ \A p \in Existing : listing'[p].at = listing[p].at
  BY TableWritten DEF BaseInv
<1> DEFINE t == task[r]
           n == task'[r]
           q == t.query
           before == Matching(listing, q)
           after  == Matching(listing', q)
<1>2. pc' = pc /\ (pc[r] # "page" => n = t)
  BY <1>1, BecomesTasks
<1>3. CASE pc[r] # "page"
  BY <1>2, <1>3 DEF WalkOK
<1>4. CASE pc[r] = "page"
  <2>1. /\ n.query = q /\ n.page = t.page /\ n.open = t.open /\ n.total = t.total
        /\ n.seen = t.seen /\ n.kept = t.kept \cap after
        /\ ~ n.shaken =>
             /\ ~ t.shaken
             /\ \A p \in before :
                  /\ p \in after
                  /\ q.sort \in {"PriceAsc", "PriceDsc"}
                       => listing'[p].price = listing[p].price
             /\ t.open = {"rows"} => after \subseteq before
    BY <1>1, <1>4, BecomesTasks
  <2>2. t \in Task /\ q \in Query
    BY DEF BaseInv, TypeOK, Task
  <2>3. IsFiniteSet(before) /\ IsFiniteSet(after)
    <3>1. TableOK /\ TableOK'
      BY DEF BaseInv
    <3>2. IsFiniteSet(before)
      BY <3>1, MatchingIsFinite
    <3>3. after \in SUBSET (Existing')
      BY DEF Matching, Matches, Existing, Exists
    <3>4. IsFiniteSet(Existing')
      BY <3>1 DEF TableOK
    <3>5. IsFiniteSet(after)
      BY <3>3, <3>4, FS_Subset
    <3> QED BY <3>2, <3>5
  <2>4. before \subseteq Existing
    BY DEF Matching, Matches, Existing, Exists
  <2> SUFFICES ASSUME ~ n.shaken PROVE Walk(listing', n)
    BY <1>2, <1>4, <2>1 DEF WalkOK
  <2>5. t.kept \subseteq before /\ Walk(listing, t)
    BY <1>4, <2>1 DEF WalkOK
  <2> HIDE DEF n
  <2>6. ASSUME NEW p \in before
        PROVE  /\ Cardinality(Ahead(listing, q, p)) \in Nat
               /\ Cardinality(Ahead(listing', q, p)) \in Nat
               /\ Cardinality(Ahead(listing, q, p)) <= Cardinality(Ahead(listing', q, p))
    <3>1. Ahead(listing', q, p) \in SUBSET after
      BY DEF Ahead
    <3>2. Ahead(listing, q, p) \in SUBSET Ahead(listing', q, p)
      <4> SUFFICES ASSUME NEW x \in before, Before(listing[x], listing[p], q.sort)
                   PROVE  x \in after /\ Before(listing'[x], listing'[p], q.sort)
        BY DEF Ahead
      <4>1. x \in after
        BY <2>1
      <4>2. listing'[x].at = listing[x].at /\ listing'[p].at = listing[p].at
        BY <1>1, <2>4
      <4>3. q.sort \in {"PriceAsc", "PriceDsc"} =>
              /\ listing'[x].price = listing[x].price
              /\ listing'[p].price = listing[p].price
        BY <2>1
      <4> HIDE DEF q, before, after
      <4>4. CASE q.sort \in {"PriceAsc", "PriceDsc"}
        BY <4>1, <4>3, <4>4 DEF Before
      <4>5. CASE q.sort \notin {"PriceAsc", "PriceDsc"}
        BY <4>1, <4>2, <4>5 DEF Before
      <4> QED BY <4>4, <4>5
    <3>3. IsFiniteSet(Ahead(listing', q, p))
      BY <2>3, <3>1, FS_Subset
    <3>4. /\ Cardinality(Ahead(listing, q, p)) <= Cardinality(Ahead(listing', q, p))
          /\ IsFiniteSet(Ahead(listing, q, p))
      BY <3>2, <3>3, FS_Subset
    <3> QED BY <3>3, <3>4, FS_CardinalityType
  <2>7. \A p \in n.kept \ n.seen :
          Cardinality(Ahead(listing', q, p)) >= PagesRead(n) * Limit(q)
    <3> SUFFICES ASSUME NEW p \in t.kept \ t.seen
                 PROVE  Cardinality(Ahead(listing', q, p)) >= PagesRead(n) * Limit(q)
      BY <2>1
    <3>1. Cardinality(Ahead(listing, q, p)) >= PagesRead(t) * Limit(q)
      BY <2>5 DEF Walk
    <3>2. PagesRead(n) = PagesRead(t)
      BY <2>1 DEF PagesRead
    <3>3. PagesRead(t) \in Int /\ Limit(q) \in Int
      BY <2>2, LimitIsPositive DEF PagesRead, Task
    <3> DEFINE b == PagesRead(t) * Limit(q)
    <3>4. b \in Int /\ Cardinality(Ahead(listing, q, p)) >= b
      BY <3>1, <3>3
    <3>5. p \in before
      BY <2>5
    <3> HIDE DEF b, before, q
    <3>6. Cardinality(Ahead(listing', q, p)) >= b
      BY <2>6, <3>4, <3>5
    <3> QED BY <3>2, <3>6 DEF b
  <2>8. n.open = {"rows"} => n.total = Cardinality(after)
    <3> SUFFICES ASSUME n.open = {"rows"} PROVE n.total = Cardinality(after)
      OBVIOUS
    <3>1. after = before
      BY <2>1
    <3> QED BY <2>1, <2>5, <3>1 DEF Walk
  <2>9. n.open = {} => n.kept \subseteq n.seen \/ n.total > n.page * Limit(q)
    BY <2>1, <2>5 DEF Walk
  <2> QED BY <2>1, <2>7, <2>8, <2>9 DEF Walk
<1> QED BY <1>3, <1>4

\* The steps of a request that is no walk give it a task without rows to keep.
LEMMA NoWalk ==
  ASSUME BaseInv, NEW r \in Requests, WalkOK(listing, pc[r], task[r]), BuyerStep(r),
         ~ (AskSearch(r) \/ ReadRows(r) \/ ReadTotal(r) \/ TurnPage(r))
  PROVE  WalkOK(listing', pc'[r], task'[r])
<1>1. ASSUME AskSave(r) \/ AskUnsave(r) \/ AskReview(r) \/ AskEdit(r) \/ AskUnreview(r)
      PROVE  pc'[r] # "page" /\ task'[r].kept = {}
  <2>1. ASSUME NEW op, NEW t, NEW l \in Labels \ {"page"}, Begins(r, op, t, l), t.kept = {}
        PROVE  pc'[r] # "page" /\ task'[r].kept = {}
    BY <2>1 DEF Begins, GoTo, BaseInv, TypeOK
  <2>2. /\ "listing" \in Labels \ {"page"} /\ "remove" \in Labels \ {"page"}
        /\ "visit" \in Labels \ {"page"} /\ "update" \in Labels \ {"page"}
        /\ "delete" \in Labels \ {"page"}
    BY DEF Labels
  <2>3. CASE AskSave(r)
    <3>1. PICK b \in Buyers, p \in Properties :
            Begins(r, "save", [NoTask EXCEPT !.by = b, !.about = p], "listing")
      BY <2>3 DEF AskSave
    <3>2. [NoTask EXCEPT !.by = b, !.about = p].kept = {}
      BY DEF NoTask
    <3> QED BY <2>1, <2>2, <3>1, <3>2
  <2>4. CASE AskUnsave(r)
    <3>1. PICK s \in saved :
            Begins(r, "unsave", [NoTask EXCEPT !.by = s[1], !.about = s[2]], "remove")
      BY <2>4 DEF AskUnsave
    <3>2. [NoTask EXCEPT !.by = s[1], !.about = s[2]].kept = {}
      BY DEF NoTask
    <3> QED BY <2>1, <2>2, <3>1, <3>2
  <2>5. CASE AskReview(r)
    <3>1. PICK b \in Buyers, p \in Properties, v \in Visits :
            Begins(r, "review", [NoTask EXCEPT !.by = b, !.about = p, !.visit = v], "visit")
      BY <2>5 DEF AskReview
    <3>2. [NoTask EXCEPT !.by = b, !.about = p, !.visit = v].kept = {}
      BY DEF NoTask
    <3> QED BY <2>1, <2>2, <3>1, <3>2
  <2>6. CASE AskEdit(r) \/ AskUnreview(r)
    <3>1. PICK v \in Visits :
            \/ Begins(r, "edit", [NoTask EXCEPT !.visit = v, !.review = reviews[v].id],
                      "update")
            \/ Begins(r, "unreview", [NoTask EXCEPT !.visit = v, !.review = reviews[v].id],
                      "delete")
      BY <2>6 DEF AskEdit, AskUnreview
    <3>2. [NoTask EXCEPT !.visit = v, !.review = reviews[v].id].kept = {}
      BY DEF NoTask
    <3> QED BY <2>1, <2>2, <3>1, <3>2
  <2> QED BY <1>1, <2>3, <2>4, <2>5, <2>6
<1>2. ASSUME \/ CheckListing(r) \/ AddSavedProperty(r) \/ RemoveSavedProperty(r)
             \/ CheckVisit(r) \/ CreateReview(r) \/ UpdateReview(r) \/ DeleteReview(r)
      PROVE  pc[r] # "page" /\ pc'[r] # "page" /\ task' = task
  BY <1>2 DEF CheckListing, AddSavedProperty, RemoveSavedProperty, CheckVisit,
              CreateReview, UpdateReview, DeleteReview, Finish, GoTo, BaseInv, TypeOK
<1>3. CASE AskSave(r) \/ AskUnsave(r) \/ AskReview(r) \/ AskEdit(r) \/ AskUnreview(r)
  BY <1>1, <1>3 DEF WalkOK
<1>4. CASE \/ CheckListing(r) \/ AddSavedProperty(r) \/ RemoveSavedProperty(r)
           \/ CheckVisit(r) \/ CreateReview(r) \/ UpdateReview(r) \/ DeleteReview(r)
  BY <1>2, <1>4 DEF WalkOK
<1> QED BY <1>3, <1>4 DEF BuyerStep

\* A request moves itself alone.
LEMMA OthersStay ==
  ASSUME BaseInv, NEW r \in Requests, NEW x \in Requests \ {r}, BuyerStep(r)
  PROVE  pc'[x] = pc[x] /\ task'[x] = task[x]
<1>1. CASE \/ AskSearch(r) \/ AskSave(r) \/ AskUnsave(r) \/ AskReview(r)
           \/ AskEdit(r) \/ AskUnreview(r)
  BY <1>1 DEF AskSearch, AskSave, AskUnsave, AskReview, AskEdit, AskUnreview, Begins, GoTo,
              BaseInv, TypeOK
<1>2. CASE ReadRows(r) \/ ReadTotal(r) \/ TurnPage(r)
  BY <1>2 DEF ReadRows, ReadTotal, TurnPage, Finish, GoTo, BaseInv, TypeOK
<1>3. CASE \/ CheckListing(r) \/ AddSavedProperty(r) \/ RemoveSavedProperty(r)
           \/ CheckVisit(r) \/ CreateReview(r) \/ UpdateReview(r) \/ DeleteReview(r)
  BY <1>3 DEF CheckListing, AddSavedProperty, RemoveSavedProperty, CheckVisit,
              CreateReview, UpdateReview, DeleteReview, Finish, GoTo, BaseInv, TypeOK
<1> QED BY <1>1, <1>2, <1>3 DEF BuyerStep

\* Every step keeps what is known of every walk.
LEMMA WalkStep == BaseInv /\ BaseInv' /\ WalkInv /\ [Next]_vars => WalkInv'
<1> SUFFICES ASSUME BaseInv, BaseInv', WalkInv, [Next]_vars, NEW x \in Requests
             PROVE  WalkOK(listing', pc'[x], task'[x])
  BY DEF WalkInv
<1>a. WalkOK(listing, pc[x], task[x])
  BY DEF WalkInv
<1>1. ASSUME NEW r \in Requests, BuyerStep(r)
      PROVE  WalkOK(listing', pc'[x], task'[x])
  <2>1. CASE x # r
    <3>1. listing' = listing /\ pc'[x] = pc[x] /\ task'[x] = task[x]
      BY <1>1, <2>1, BuyerFrame, OthersStay
    <3> QED BY <1>a, <3>1
  <2>2. CASE x = r
    BY <1>1, <1>a, <2>2, WalkBegins, WalkReadsRows, WalkReadsTotal, WalkTurns, NoWalk
  <2> QED BY <2>1, <2>2
<1>2. CASE AgentStep
  BY <1>a, <1>2, WalkGoesOn
<1>3. CASE TimeStep \/ UNCHANGED vars
  <2>1. listing' = listing /\ pc' = pc /\ task' = task
    BY <1>3 DEF TimeStep, Visit, Age, vars, tableVars
  <2> QED BY <1>a, <2>1
<1> QED BY <1>1, <1>2, <1>3, Steps

\* Nobody has begun to walk.
LEMMA WalkInit == Init => WalkInv
<1> SUFFICES ASSUME Init, NEW r \in Requests PROVE WalkOK(listing, pc[r], task[r])
  BY DEF WalkInv
<1>1. pc[r] = "idle" /\ task[r].kept = {}
  BY DEF Init, NoTask
<1> QED BY <1>1 DEF WalkOK

\* findMany, turned page by page: a walk that nothing has shaken was told of a further
\* page as long as a row that matched all along has not been given to it.
THEOREM WalksHold == Spec => []WalkInv
BY BaseHolds, WalkInit, WalkStep, PTL DEF Spec

\* findMany: whoever turns pages to the last one told of has been given every row
\* that matched all along, whatever the order and the limit, and however many rows
\* agents add meanwhile, as long as none goes, moves, comes between the queries
\* of a page, or ties.
THEOREM NoneIsSkipped == Spec => []NothingSkipped
<1>1. WalkInv => NothingSkipped
  BY DEF WalkInv, WalkOK, NothingSkipped
<1> QED BY <1>1, WalksHold, PTL

=============================================================================
