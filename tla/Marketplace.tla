------------------------------ MODULE Marketplace ------------------------------
(***************************************************************************)
(* What closes listings under the bookings on them: updateProperty to SOLD *)
(* or RENTED, and deactivateAgentListings, which an immediate cancellation *)
(* of the subscription and the admin's updateUserStatus run.  The module   *)
(* composes these handlers with all of Bookings.                           *)
(*                                                                         *)
(* A closing is a process of its own.  As in Bookings an action is one     *)
(* awaited call; a loop of removals from a queue is one action.            *)
(***************************************************************************)
EXTENDS Bookings

CONSTANTS
  Closings,     \* the requests that close listings
  ClosingKinds, \* what they may be
  PageLimit     \* the rows findMany returns when it is given no limit (15)

ASSUME MarketplaceAssumption ==
  /\ PageLimit \in Nat
  /\ ClosingKinds \subseteq {"close", "deactivate"}

VARIABLES
  at,       \* where each closing is
  closing   \* what it was asked and what it has read

closingVars == <<at, closing>>
allVars == <<vars, closingVars>>

-----------------------------------------------------------------------------

ClosingLabels ==
  {"idle", "readPending", "removeJobs", "readConfirmed", "removeMails", "cancelAll",
   "writeListing", "cancelPending", "closed", "deactivated", "dead"}

\* Two sets are history: held, the bookings that were live when the closing began,
\* and raced, those a confirmBooking had read PENDING and not yet written when the
\* closing cancelled.
Closing == [property : Properties \cup {Unset}, agent : Agents \cup {Unset},
            status : {"SOLD", "RENTED", "INACTIVE"}, jobs : SUBSET Requests,
            confirmed : SUBSET Requests, mails : SUBSET Requests,
            held : SUBSET Requests, raced : SUBSET Requests]

NoClosing == [property |-> Unset, agent |-> Unset, status |-> "INACTIVE", jobs |-> {},
              confirmed |-> {}, mails |-> {}, held |-> {}, raced |-> {}]

ClosingTypeOK ==
  /\ TypeOK
  /\ at \in [Closings -> ClosingLabels]
  /\ closing \in [Closings -> Closing]

Step(x, l) == at' = [at EXCEPT ![x] = l]

On(p) == {b \in LiveBookings : row[b].property = p}

\* What findMany may return of the rows in bs.
Page(bs) ==
  {q \in SUBSET bs : \/ q = bs /\ Cardinality(bs) <= PageLimit
                     \/ Cardinality(q) = PageLimit}

Ends(bs) ==
  /\ row' = [b \in Requests |->
               IF b \in bs THEN [row[b] EXCEPT !.status = "CANCELLED"] ELSE row[b]]
  /\ ended' = ended \cup bs

\* The bookings confirmBooking is about to write, whatever they are by now.
Confirming ==
  {task[r].booking : r \in {q \in Requests : pc[q] = "write" /\ task[q].op = "confirm"}}

-----------------------------------------------------------------------------
(* updateProperty to SOLD or RENTED *)

\* The transitions of updateProperty's table into these two.
BeginClosing(x) ==
  /\ at[x] = "idle" /\ "close" \in ClosingKinds
  /\ \E p \in Properties, s \in {"SOLD", "RENTED"} :
       /\ listing[p] \in {"ACTIVE", "PENDING"}
       /\ closing' = [closing EXCEPT ![x] =
            [property |-> p, agent |-> Unset, status |-> s, jobs |-> {},
             confirmed |-> {}, mails |-> {}, held |-> On(p), raced |-> {}]]
  /\ Step(x, "readPending")
  /\ UNCHANGED vars

\* Mutant of ReadPending: the pending bookings of all listings are read.
MutReadPending(x) ==
  /\ at[x] = "readPending"
  /\ \E bs \in Page({b \in Requests : row[b].status = "PENDING"}) :
       closing' = [closing EXCEPT ![x].jobs = {row[b].job : b \in bs} \ {Unset}]
  /\ Step(x, "removeJobs")
  /\ UNCHANGED vars

\* Mutant of ReadPending: a booking whose job is not saved yet is not skipped.
MutReadUnsaved(x) ==
  /\ at[x] = "readPending"
  /\ \E bs \in Page({b \in On(closing[x].property) : row[b].status = "PENDING"}) :
       closing' = [closing EXCEPT ![x].jobs = {row[b].job : b \in bs}]
  /\ Step(x, "removeJobs")
  /\ UNCHANGED vars

ReadPending(x) ==
  /\ at[x] = "readPending"
  /\ \E bs \in Page({b \in On(closing[x].property) : row[b].status = "PENDING"}) :
       closing' = [closing EXCEPT ![x].jobs = {row[b].job : b \in bs} \ {Unset}]
  /\ Step(x, "removeJobs")
  /\ UNCHANGED vars

RemoveJobs(x) ==
  /\ at[x] = "removeJobs"
  /\ job' = [j \in Requests |->
               IF j \in closing[x].jobs /\ job[j].state = "delayed"
               THEN [job[j] EXCEPT !.state = "removed"] ELSE job[j]]
  /\ Step(x, "readConfirmed")
  /\ UNCHANGED <<row, listing, lock, pc, task, claimed, mail, recorded, now, faults,
                 ended, closing>>

ReadConfirmed(x) ==
  /\ at[x] = "readConfirmed"
  /\ \E bs \in Page({b \in On(closing[x].property) : row[b].status = "CONFIRMED"}) :
       closing' = [closing EXCEPT
         ![x].confirmed = bs,
         ![x].mails = {m \in recorded : mail[m].booking \in bs}]
  /\ Step(x, "removeMails")
  /\ UNCHANGED vars

RemoveMails(x) ==
  /\ at[x] = "removeMails"
  /\ mail' = [m \in Requests |->
                IF m \in closing[x].mails /\ mail[m].state = "delayed"
                THEN [mail[m] EXCEPT !.state = "removed"] ELSE mail[m]]
  /\ Step(x, "cancelAll")
  /\ UNCHANGED <<row, listing, lock, pc, task, job, claimed, recorded, now, faults,
                 ended, closing>>

\* Mutant of CancelAll: only the bookings of the page are cancelled.
MutCancelAll(x) ==
  /\ at[x] = "cancelAll"
  /\ Ends(On(closing[x].property) \cap (closing[x].confirmed \cup closing[x].jobs))
  /\ recorded' = {m \in recorded : mail[m].booking \notin closing[x].confirmed}
  /\ closing' = [closing EXCEPT ![x].raced = Confirming]
  /\ Step(x, "writeListing")
  /\ UNCHANGED <<listing, lock, pc, task, job, claimed, mail, now, faults>>

\* The transaction: every live booking of the listing, read before or not, and
\* the reminder rows of those that were read.
CancelAll(x) ==
  /\ at[x] = "cancelAll"
  /\ Ends(On(closing[x].property))
  /\ recorded' = {m \in recorded : mail[m].booking \notin closing[x].confirmed}
  /\ closing' = [closing EXCEPT ![x].raced = Confirming]
  /\ Step(x, "writeListing")
  /\ UNCHANGED <<listing, lock, pc, task, job, claimed, mail, now, faults>>

WriteListing(x) ==
  /\ at[x] = "writeListing"
  /\ listing' = [listing EXCEPT ![closing[x].property] = closing[x].status]
  /\ Step(x, "closed")
  /\ UNCHANGED <<row, lock, pc, task, queueVars, now, faults, ended, closing>>

-----------------------------------------------------------------------------
(* deactivateAgentListings *)

\* The first update runs outside the transaction that surrounds it.
DeactivateListings(x) ==
  /\ at[x] = "idle" /\ "deactivate" \in ClosingKinds
  /\ \E a \in Agents :
       /\ listing' = [p \in Properties |->
                        IF AgentOf[p] = a /\ listing[p] \in Bookable
                        THEN "INACTIVE" ELSE listing[p]]
       /\ closing' = [closing EXCEPT ![x].agent = a]
  /\ Step(x, "cancelPending")
  /\ UNCHANGED <<row, lock, pc, task, queueVars, now, faults, ended>>

\* Confirmed bookings and the jobs of pending ones are left alone.
CancelPending(x) ==
  /\ at[x] = "cancelPending"
  /\ Ends({b \in Requests : row[b].status = "PENDING" /\ row[b].agent = closing[x].agent})
  /\ Step(x, "deactivated")
  /\ UNCHANGED <<listing, lock, pc, task, queueVars, now, faults, closing>>

\* A call fails or the process dies: what was done stays done.
AbortClosing(x) ==
  /\ at[x] \notin {"idle", "closed", "deactivated", "dead"}
  /\ Step(x, "dead")
  /\ UNCHANGED <<vars, closing>>

-----------------------------------------------------------------------------

MarketInit ==
  /\ Init
  /\ at = [x \in Closings |-> "idle"]
  /\ closing = [x \in Closings |-> NoClosing]

Close(x) ==
  \/ BeginClosing(x) \/ ReadPending(x) \/ RemoveJobs(x) \/ ReadConfirmed(x)
  \/ RemoveMails(x) \/ CancelAll(x) \/ WriteListing(x)
  \/ DeactivateListings(x) \/ CancelPending(x) \/ AbortClosing(x)

MarketNext ==
  \/ Next /\ UNCHANGED closingVars
  \/ \E x \in Closings : Close(x)

MarketSpec == MarketInit /\ [][MarketNext]_allVars

-----------------------------------------------------------------------------
(* Safety *)

(***************************************************************************)
(* updateProperty: once a closing has cancelled, no booking that was live  *)
(* on the listing when it began is live, also not those beyond the page it *)
(* has read and those that moved or changed state behind its reads.  The   *)
(* one exception is a booking that a confirmBooking had read PENDING and   *)
(* not written yet when the closing cancelled: the write asks for no       *)
(* status and makes it CONFIRMED again, on a listing that is gone.         *)
(***************************************************************************)
ClosingEndsBookings ==
  \A x \in Closings : at[x] \in {"writeListing", "closed"} =>
    \A b \in closing[x].held \cap LiveBookings :
      row[b].status = "CONFIRMED" /\ b \in closing[x].raced

(***************************************************************************)
(* updateProperty removes the auto-cancel jobs before it cancels: unless it *)
(* dies half way, a booking left without a job waits for a closing that is *)
(* about to cancel it, through reschedules and confirmations in between.   *)
(***************************************************************************)
StrippedIsCancelled ==
  \A b \in Requests :
     row[b].status = "PENDING" =>
       \/ faults > 0 \/ b \in ended \/ WillAddJob(b)
       \/ \E j \in Requests : WillCancel(j, b)
       \/ \E x \in Closings : /\ at[x] \in {"readConfirmed", "removeMails", "cancelAll"}
                              /\ closing[x].property = row[b].property
       \/ \E x \in Closings : at[x] = "dead" /\ closing[x].property = row[b].property

\* Closing listings releases slots and takes none: with it, bookings still
\* implement the agent's calendar.
MarketImplementsCalendar == Calendar!Spec

=============================================================================
