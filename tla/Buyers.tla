-------------------------------- MODULE Buyers --------------------------------
(***************************************************************************)
(* What buyers do with listings beside visiting them: they page through a   *)
(* list of them, save some, and review those they have visited.             *)
(*                                                                         *)
(* A request is a process and an action is one awaited call.  A list is     *)
(* read page by page with two queries a page, one for the rows and one for  *)
(* their number, which nothing ties together, while agents publish, change  *)
(* and remove listings.  Every list of the API pages in this way, each over *)
(* its own table, for which the table of listings stands here, but that of  *)
(* a listing's reviews, which has one page; the filters are cut down to     *)
(* one, the orders and the default limits are kept.                         *)
(***************************************************************************)
EXTENDS Naturals, FiniteSets, Sequences

CONSTANTS
  Requests, Buyers, Properties,
  Visits,       \* bookings
  VisitOf,      \* [Visits -> [buyer : Buyers, property : Properties]]
  Limits,       \* limits a client may ask for, and Unset
  DefaultLimit, \* 15 in the code
  AdminLimit,   \* the default of the admin's lists, 20 in the code
  MaxLimit,     \* 100 in the code
  Prices,
  MaxChanges,   \* bound on what agents do
  Mixes,        \* bounds what the requests may be: a set of [Requests -> SUBSET Ops]
  Unset

Ops == {"search", "save", "unsave", "review", "edit", "unreview"}

ASSUME BuyersAssumption ==
  /\ VisitOf \in [Visits -> [buyer : Buyers, property : Properties]]
  /\ {DefaultLimit, AdminLimit, MaxLimit} \subseteq Nat \ {0}
  /\ Limits \subseteq (Nat \ {0}) \cup {Unset} /\ Unset \in Limits \ Nat
  /\ Prices \subseteq Nat /\ Prices # {} /\ MaxChanges \in Nat
  /\ Mixes \subseteq [Requests -> SUBSET Ops]
  /\ Unset \notin Buyers \cup Properties \cup Visits \cup Requests

VARIABLES
  listing,    \* the Property table
  created,    \* how many listings were created
  changes,
  completed,  \* the visits that took place
  saved,      \* the SavedProperty table: pairs of a buyer and a listing
  reviews,    \* the Review table, by booking, which is unique
  may,        \* the mix of this behaviour
  pc, task

tableVars == <<listing, created, changes, completed>>
buyerVars == <<saved, reviews>>
vars == <<tableVars, buyerVars, may, pc, task>>

-----------------------------------------------------------------------------
(* Values *)

\* INACTIVE is read like DRAFT, and PENDING, SOLD and RENTED like ACTIVE.
Statuses == {"none", "DRAFT", "ACTIVE"}

Listing == [status : Statuses, price : Prices, at : 0 .. MaxChanges]

\* A review goes by the request that made it.
Review == [id : Requests \cup {Unset}, by : Buyers \cup {Unset},
           about : Properties \cup {Unset}, rating : {"none", "good", "bad"},
           old : BOOLEAN]

NoReview == [id |-> Unset, by |-> Unset, about |-> Unset, rating |-> "none",
             old |-> FALSE]

\* The orders of the lists; "None" where the query names no column.  Featured_First
\* orders by a flag, as PriceAsc does by a price of two values.
Sorts == {"DateAsc", "DateDsc", "PriceAsc", "PriceDsc", "None"}

\* What a list may be asked for: the order, a filter, a limit, and the limit it
\* has when none is given; and whether a page of it may be.
List(sorts, filters, default) ==
  [sort : sorts, max : filters, limit : Limits, default : {default}, paged : {TRUE}]

Filtered == Prices \cup {Unset}

FindProperties      == List(Sorts \ {"None"}, Filtered, DefaultLimit)
GetFeaturedListing  == List({"DateAsc"}, Filtered, DefaultLimit)
GetSavedProperty    == List({"None"}, {Unset}, DefaultLimit)
GetPropertiesReview == [sort : {"None"}, max : {Unset}, limit : {Unset},
                        default : {DefaultLimit}, paged : {FALSE}]
GetBookings         == List({"None"}, Filtered, DefaultLimit)
GetPayments         == List({"DateAsc"}, Filtered, DefaultLimit)
GetUsers            == List({"DateDsc"}, Filtered, AdminLimit)
AdminProperties     == List({"DateDsc"}, Filtered, AdminLimit)
AdminBookings       == List({"DateDsc"}, Filtered, AdminLimit)
AdminSubscriptions  == List({"DateDsc"}, Filtered, AdminLimit)
AdminPayments       == List({"DateDsc"}, Filtered, AdminLimit)
GetWebhooks         == List({"DateDsc"}, {Unset}, AdminLimit)

Query ==
  FindProperties \cup GetFeaturedListing \cup GetSavedProperty
  \cup GetPropertiesReview \cup GetBookings \cup GetPayments \cup GetUsers
  \cup AdminProperties \cup AdminBookings \cup AdminSubscriptions
  \cup AdminPayments \cup GetWebhooks

\* The walk through a list: the page, the queries still open, the number of rows it
\* was told, the rows it was given; and as history the rows that matched all
\* along, and whether the walk was shaken: a row that matched went away or moved,
\* one came between the two queries of a page, or rows were tied.
Task == [by : Buyers \cup {Unset}, about : Properties \cup {Unset},
         visit : Visits \cup {Unset}, review : Requests \cup {Unset},
         query : Query, page : Nat,
         open : SUBSET {"rows", "total"}, total : Nat, seen : SUBSET Properties,
         kept : SUBSET Properties, shaken : BOOLEAN]

AnyQuery == [sort |-> "DateAsc", max |-> Unset, limit |-> Unset,
             default |-> DefaultLimit, paged |-> TRUE]

NoTask == [by |-> Unset, about |-> Unset, visit |-> Unset, review |-> Unset,
           query |-> AnyQuery, page |-> 1, open |-> {}, total |-> 0, seen |-> {}, kept |-> {},
           shaken |-> FALSE]

Labels == {"idle", "page", "listing", "insert", "remove", "visit", "create",
           "update", "delete", "done"}

TypeOK ==
  /\ listing \in [Properties -> Listing] /\ created \in 0 .. MaxChanges
  /\ changes \in 0 .. MaxChanges /\ completed \subseteq Visits
  /\ saved \subseteq Buyers \X Properties /\ reviews \in [Visits -> Review]
  /\ pc \in [Requests -> Labels] /\ task \in [Requests -> Task]
  /\ may \in Mixes

-----------------------------------------------------------------------------
(* Operators *)

GoTo(r, l) == pc' = [pc EXCEPT ![r] = l]

Finish(r) == GoTo(r, "done") /\ UNCHANGED <<task, may>>

Begins(r, op, t, l) ==
  /\ pc[r] = "idle" /\ op \in may[r]
  /\ task' = [task EXCEPT ![r] = t]
  /\ GoTo(r, l)
  /\ UNCHANGED may

Exists(p) == listing[p].status # "none"

\* findProperties: the filter, the order, the page.
Matches(row, q) == row.status # "none" /\ (q.max = Unset \/ row.price <= q.max)

Before(a, b, sort) ==
  \/ sort = "DateAsc"  /\ a.at < b.at
  \/ sort = "DateDsc"  /\ a.at > b.at
  \/ sort = "PriceAsc" /\ a.price < b.price
  \/ sort = "PriceDsc" /\ a.price > b.price

Matching(table, q) == {p \in Properties : Matches(table[p], q)}

\* The orders of the matching rows the database may choose: nothing but the
\* sorted column decides.
Orders(q) ==
  LET rows == Matching(listing, q)
      n    == Cardinality(rows)
  IN  {o \in [1 .. n -> rows] :
         /\ \A i, j \in 1 .. n : i # j => o[i] # o[j]
         /\ \A i, j \in 1 .. n : Before(listing[o[i]], listing[o[j]], q.sort) => i < j}

\* Rows the order does not tell apart come in an order of their own in every query.
Tied(q) ==
  \E p, o \in Matching(listing, q) :
     /\ p # o
     /\ ~Before(listing[p], listing[o], q.sort)
     /\ ~Before(listing[o], listing[p], q.sort)

\* findMany: the limit that counts, and the rows of a page.
Limit(q) ==
  LET asked == IF q.limit = Unset THEN q.default ELSE q.limit
  IN  IF asked < MaxLimit THEN asked ELSE MaxLimit

\* Mutant of Page: pages are counted from zero.
MutPage(o, q, page) ==
  {o[i] : i \in DOMAIN o \cap (page * Limit(q) + 1 .. (page + 1) * Limit(q))}

Page(o, q, page) ==
  {o[i] : i \in DOMAIN o \cap ((page - 1) * Limit(q) + 1 .. page * Limit(q))}

TotalPages(total, q) == (total + Limit(q) - 1) \div Limit(q)

\* The client of a list without pages is told of more rows than it may be given.
Cut(t) == ~ t.query.paged /\ t.total > Limit(t.query)

-----------------------------------------------------------------------------
(* A list, page by page until the last one told of *)

AskSearch(r) ==
  /\ \E q \in Query :
       Begins(r, "search", [NoTask EXCEPT !.query = q, !.open = {"rows", "total"},
                                          !.kept = Matching(listing, q)], "page")
  /\ UNCHANGED <<tableVars, buyerVars>>

ReadRows(r) ==
  LET t == task[r]
  IN  /\ pc[r] = "page" /\ "rows" \in t.open
      /\ \E o \in Orders(t.query) :
           task' = [task EXCEPT ![r].open = @ \ {"rows"},
                                ![r].seen = @ \cup Page(o, t.query, t.page),
                                ![r].shaken = @ \/ Tied(t.query)]
      /\ UNCHANGED <<tableVars, buyerVars, may, pc>>

\* The reviews' number is awaited after the reviews.
ReadTotal(r) ==
  LET t == task[r]
  IN  /\ pc[r] = "page" /\ "total" \in t.open
      /\ t.query.paged \/ "rows" \notin t.open
      /\ task' = [task EXCEPT ![r].open = @ \ {"total"},
                              ![r].total = Cardinality(Matching(listing, t.query))]
      /\ UNCHANGED <<tableVars, buyerVars, may, pc>>

TurnPage(r) ==
  LET t == task[r]
  IN  /\ pc[r] = "page" /\ t.open = {}
      /\ IF t.query.paged /\ t.page < TotalPages(t.total, t.query)
           THEN /\ task' = [task EXCEPT ![r].page = @ + 1,
                                        ![r].open = {"rows", "total"}]
                /\ UNCHANGED <<pc, may>>
           ELSE Finish(r)
      /\ UNCHANGED <<tableVars, buyerVars>>

-----------------------------------------------------------------------------
(* The list of saved listings *)

AskSave(r) ==
  /\ \E b \in Buyers, p \in Properties :
       /\ <<b, p>> \notin saved
       /\ Begins(r, "save", [NoTask EXCEPT !.by = b, !.about = p], "listing")
  /\ UNCHANGED <<tableVars, buyerVars>>

CheckListing(r) ==
  /\ pc[r] = "listing"
  /\ IF listing[task[r].about].status # "ACTIVE"
       THEN Finish(r)
       ELSE GoTo(r, "insert") /\ UNCHANGED <<task, may>>
  /\ UNCHANGED <<tableVars, buyerVars>>

\* Mutant of AddSavedProperty: the two ids are swapped.
MutAddSavedProperty(r) ==
  LET t == task[r]
  IN  /\ pc[r] = "insert"
      /\ saved' = saved \cup {s \in {<<t.about, t.by>>} : Exists(t.about)}
      /\ Finish(r)
      /\ UNCHANGED <<tableVars, reviews>>

\* The pair is unique, and the listing has to be there.
AddSavedProperty(r) ==
  LET t == task[r]
  IN  /\ pc[r] = "insert"
      /\ saved' = saved \cup {s \in {<<t.by, t.about>>} : Exists(t.about)}
      /\ Finish(r)
      /\ UNCHANGED <<tableVars, reviews>>

AskUnsave(r) ==
  /\ \E s \in saved :
       Begins(r, "unsave", [NoTask EXCEPT !.by = s[1], !.about = s[2]], "remove")
  /\ UNCHANGED <<tableVars, buyerVars>>

RemoveSavedProperty(r) ==
  /\ pc[r] = "remove"
  /\ saved' = saved \ {<<task[r].by, task[r].about>>}
  /\ Finish(r)
  /\ UNCHANGED <<tableVars, reviews>>

-----------------------------------------------------------------------------
(* Reviews *)

\* The pair of a listing and a booking must be new.
AskReview(r) ==
  /\ \E b \in Buyers, p \in Properties, v \in Visits :
       /\ reviews[v].about # p
       /\ Begins(r, "review", [NoTask EXCEPT !.by = b, !.about = p, !.visit = v], "visit")
  /\ UNCHANGED <<tableVars, buyerVars>>

\* Mutant of CheckVisit: whose booking it is is not asked.
MutCheckVisit(r) ==
  LET t == task[r]
  IN  /\ pc[r] = "visit"
      /\ IF t.visit \in completed
           THEN GoTo(r, "create") /\ UNCHANGED <<task, may>>
           ELSE Finish(r)
      /\ UNCHANGED <<tableVars, buyerVars>>

\* The booking is the buyer's and COMPLETED; which listing it was for is not
\* compared.
CheckVisit(r) ==
  LET t == task[r]
  IN  /\ pc[r] = "visit"
      /\ IF t.visit \in completed /\ VisitOf[t.visit].buyer = t.by
           THEN GoTo(r, "create") /\ UNCHANGED <<task, may>>
           ELSE Finish(r)
      /\ UNCHANGED <<tableVars, buyerVars>>

\* A booking has one review and a buyer one for each listing: else create throws.
CreateReview(r) ==
  LET t == task[r]
      new == /\ reviews[t.visit] = NoReview /\ Exists(t.about)
             /\ \A v \in Visits : ~(reviews[v].by = t.by /\ reviews[v].about = t.about)
  IN  /\ pc[r] = "create"
      /\ reviews' = [reviews EXCEPT ![t.visit] =
           IF new THEN [id |-> r, by |-> t.by, about |-> t.about, rating |-> "good",
                        old |-> FALSE]
                  ELSE @]
      /\ Finish(r)
      /\ UNCHANGED <<tableVars, saved>>

\* updateReview: the author's, and not older than 48 hours when it is read.
AskEdit(r) ==
  /\ \E v \in Visits :
       /\ reviews[v] # NoReview /\ ~reviews[v].old
       /\ Begins(r, "edit", [NoTask EXCEPT !.visit = v, !.review = reviews[v].id],
                 "update")
  /\ UNCHANGED <<tableVars, buyerVars>>

\* By the review's id: of one that was deleted meanwhile the update throws.
UpdateReview(r) ==
  LET t == task[r]
  IN  /\ pc[r] = "update"
      /\ reviews' = [reviews EXCEPT ![t.visit].rating =
                       IF reviews[t.visit].id = t.review THEN "bad" ELSE @]
      /\ Finish(r)
      /\ UNCHANGED <<tableVars, saved>>

AskUnreview(r) ==
  /\ \E v \in Visits :
       /\ reviews[v] # NoReview
       /\ Begins(r, "unreview", [NoTask EXCEPT !.visit = v, !.review = reviews[v].id],
                 "delete")
  /\ UNCHANGED <<tableVars, buyerVars>>

DeleteReview(r) ==
  /\ pc[r] = "delete"
  /\ reviews' = [reviews EXCEPT ![task[r].visit] =
                   IF @.id = task[r].review THEN NoReview ELSE @]
  /\ Finish(r)
  /\ UNCHANGED <<tableVars, saved>>

-----------------------------------------------------------------------------
(* Agents and time *)

\* The Property table becomes t: the walks under way learn what they lost.
Becomes(t) ==
  /\ changes < MaxChanges /\ changes' = changes + 1
  /\ listing' = t
  /\ task' = [r \in Requests |->
       LET q == task[r].query
       IN  IF pc[r] # "page" THEN task[r]
           ELSE [task[r] EXCEPT
                   !.kept = @ \cap Matching(t, q),
                   !.shaken = \/ @
                              \/ \E p \in Matching(listing, q) :
                                    \/ p \notin Matching(t, q)
                                    \/ /\ q.sort \in {"PriceAsc", "PriceDsc"}
                                       /\ t[p].price # listing[p].price
                              \/ /\ task[r].open = {"rows"}
                                 /\ ~(Matching(t, q) \subseteq Matching(listing, q))]]
  /\ UNCHANGED <<completed, buyerVars, may, pc>>

\* A new id every time.
Create(p, price) ==
  /\ listing[p].at = 0
  /\ Becomes([listing EXCEPT ![p] = [status |-> "DRAFT", price |-> price,
                                     at |-> created + 1]])
  /\ created' = created + 1

Update(p, status, price) ==
  /\ Exists(p)
  /\ Becomes([listing EXCEPT ![p].status = status, ![p].price = price])
  /\ UNCHANGED created

\* The rows that refer to it keep a listing from being deleted.
Delete(p) ==
  /\ Exists(p)
  /\ \A s \in saved : s[2] # p
  /\ \A v \in Visits : reviews[v].about # p /\ VisitOf[v].property # p
  /\ Becomes([listing EXCEPT ![p].status = "none"])
  /\ UNCHANGED created

Visit(v) ==
  /\ \E r \in Requests : "review" \in may[r]
  /\ v \notin completed /\ Exists(VisitOf[v].property)
  /\ completed' = completed \cup {v}
  /\ UNCHANGED <<listing, created, changes, buyerVars, may, pc, task>>

\* 48 hours pass.
Age(v) ==
  /\ reviews[v] # NoReview /\ ~reviews[v].old
  /\ reviews' = [reviews EXCEPT ![v].old = TRUE]
  /\ UNCHANGED <<tableVars, saved, may, pc, task>>

-----------------------------------------------------------------------------
Init ==
  /\ listing = [p \in Properties |->
                  [status |-> "none", price |-> CHOOSE x \in Prices : TRUE, at |-> 0]]
  /\ created = 0 /\ changes = 0 /\ completed = {}
  /\ saved = {} /\ reviews = [v \in Visits |-> NoReview]
  /\ may \in Mixes
  /\ pc = [r \in Requests |-> "idle"] /\ task = [r \in Requests |-> NoTask]

BuyerStep(r) ==
  \/ AskSearch(r) \/ ReadRows(r) \/ ReadTotal(r) \/ TurnPage(r)
  \/ AskSave(r) \/ CheckListing(r) \/ AddSavedProperty(r)
  \/ AskUnsave(r) \/ RemoveSavedProperty(r)
  \/ AskReview(r) \/ CheckVisit(r) \/ CreateReview(r)
  \/ AskEdit(r) \/ UpdateReview(r) \/ AskUnreview(r) \/ DeleteReview(r)

Next ==
  \/ \E r \in Requests : BuyerStep(r)
  \/ \E p \in Properties, price \in Prices :
       \/ Create(p, price)
       \/ \E status \in Statuses \ {"none"} : Update(p, status, price)
  \/ \E p \in Properties : Delete(p)
  \/ \E v \in Visits : Visit(v) \/ Age(v)

Spec == Init /\ [][Next]_vars

-----------------------------------------------------------------------------
(* Properties *)

\* findMany and the lists built on it: a client who turns pages until the last one
\* it is told of has been given every row that matched all along; what is inserted
\* meanwhile may show a row twice but hides none.  Only rows that went away or
\* moved, or that the order does not tell apart, make it skip one, or a row that
\* came after a page's number of rows was read and before its rows were; or there
\* are more reviews of a listing than the 15 getPropertiesReview gives.
NothingSkipped ==
  \A r \in Requests :
    pc[r] = "done" =>
      task[r].shaken \/ Cut(task[r]) \/ task[r].kept \subseteq task[r].seen

\* A review was written by someone who had been there: its booking took place
\* and was the author's (which listing it was for nobody asks), through deletions
\* and concurrent reviews; and no one has two reviews of one listing.
ReviewedIsVisited ==
  \A v \in Visits : reviews[v] # NoReview =>
    /\ v \in completed /\ VisitOf[v].buyer = reviews[v].by
    /\ \A w \in Visits \ {v} : <<reviews[w].by, reviews[w].about>>
                                # <<reviews[v].by, reviews[v].about>>

=============================================================================
