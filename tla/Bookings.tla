------------------------------- MODULE Bookings -------------------------------
(***************************************************************************)
(* Viewing appointments: the booking service, its repository, the          *)
(* cancelBooking queue and worker, and the reminder e-mails of a confirmed *)
(* booking.                                                                *)
(*                                                                         *)
(* Every HTTP request is a process.  One action of a request is one        *)
(* awaited call (a database statement, a Redis or BullMQ command) with the *)
(* code up to the next one; requests, workers, the clock and faults        *)
(* interleave freely between actions.  The reads a handler makes before    *)
(* its first write are one action, because nothing but the row it looked   *)
(* up is used later, and what it saw is kept in task[r].                   *)
(*                                                                         *)
(* A request creates at most one booking, one auto-cancel job and one pair *)
(* of reminder jobs, so the request's name is used as their identifier.    *)
(***************************************************************************)
EXTENDS Integers, FiniteSets

CONSTANTS
  Requests,        \* the HTTP requests (and so booking and job ids)
  Agents, Buyers, Properties,
  AgentOf,         \* [Properties -> Agents], property.agentId
  LockKeys,        \* the values of hashtext(agentId)
  LockKey,         \* [Agents -> LockKeys]; two agents may share a key
  Unset,           \* a null column
  PropertyMinutes, \* [Properties -> Nat \cup {Unset}], property.viewingDuration
  AgentMinutes,    \* [Agents -> Nat \cup {Unset}], user.defaultViewingDuration
  DefaultMinutes,  \* the last resort of the ?? chain
  Starts,          \* the start times a client may ask for
  CancelDelay,     \* an agent's time to confirm (48 hours)
  ReminderDelay,   \* the reminder delay (24 hours)
  Horizon,         \* the clock stops here; Horizon stands for all later time
  MaxAttempts,     \* attempts of a cancelBooking job
  MaxFaults,       \* bound on crashes and failed calls
  ListingStatuses  \* the statuses an admin gives a property

ASSUME BookingAssumption ==
  /\ AgentOf \in [Properties -> Agents]
  /\ LockKey \in [Agents -> LockKeys]
  /\ PropertyMinutes \in [Properties -> Nat \cup {Unset}]
  /\ AgentMinutes \in [Agents -> Nat \cup {Unset}]
  /\ DefaultMinutes \in Nat
  /\ Starts \subseteq Nat
  /\ CancelDelay \in Nat /\ ReminderDelay \in Nat /\ Horizon \in Nat
  /\ MaxAttempts \in Nat /\ MaxFaults \in Nat
  /\ ListingStatuses \subseteq {"DRAFT", "ACTIVE", "PENDING", "SOLD", "RENTED", "INACTIVE"}
  /\ Unset \notin Nat /\ Unset \notin Requests /\ Unset \notin Agents
  /\ Unset \notin Buyers /\ Unset \notin Properties

VARIABLES
  row,       \* the Booking table
  listing,   \* property.status
  lock,      \* the transaction-scoped advisory locks
  pc,        \* where each request is
  task,      \* what each request was asked and what it has read
  job,       \* the cancelBooking queue
  claimed,   \* the Redis keys processed:cancelBooking:<job>
  mail,      \* the delayed reminder jobs of the e-mail queue
  recorded,  \* the BookingReminderJob table: reminder jobs on record
  now,       \* the clock
  faults,    \* crashes and failed calls so far
  ended      \* history: the bookings that were ever CANCELLED, COMPLETED or NO_SHOW

vars == <<row, listing, lock, pc, task, job, claimed, mail, recorded, now,
          faults, ended>>

queueVars == <<job, claimed, mail, recorded>>
envVars   == <<listing, now, faults>>

-----------------------------------------------------------------------------
(* Values *)

Live     == {"PENDING", "CONFIRMED"}
Terminal == {"CANCELLED", "COMPLETED", "NO_SHOW"}
Bookable == {"ACTIVE", "PENDING"}

PropertyStatus == {"DRAFT", "ACTIVE", "PENDING", "SOLD", "RENTED", "INACTIVE"}

Status == Live \cup Terminal \cup {"NONE"}

Row == [status : Status,
        agent : Agents \cup {Unset}, buyer : Buyers \cup {Unset},
        property : Properties \cup {Unset},
        start : Nat, end : Nat, job : Requests \cup {Unset}]

\* No such booking.
NoRow == [status |-> "NONE", agent |-> Unset, buyer |-> Unset,
          property |-> Unset, start |-> 0, end |-> 0, job |-> Unset]

Ops == {"create", "reschedule", "confirm", "complete", "noShow", "cancel"}

Labels == {"idle", "lock", "agentCheck", "buyerCheck", "commit", "write",
           "removeJob", "addJob", "saveJob", "remind", "record",
           "dropMail", "dropRows", "done"}

\* Inside the interactive transaction, after pg_advisory_xact_lock returned.
InTransaction == {"agentCheck", "buyerCheck", "commit"}

\* The new booking's times, or for the other operations the row as it was read.
Task == [op : Ops \cup {"none"}, booking : Requests \cup {Unset},
         agent : Agents \cup {Unset}, buyer : Buyers \cup {Unset},
         property : Properties \cup {Unset}, start : Nat, end : Nat,
         status : Status, job : Requests \cup {Unset}, mails : SUBSET Requests]

NoTask == [op |-> "none", booking |-> Unset, agent |-> Unset, buyer |-> Unset,
           property |-> Unset, start |-> 0, end |-> 0, status |-> "NONE",
           job |-> Unset, mails |-> {}]

JobStates == {"none", "delayed", "active", "claimed", "cancelling",
              "completed", "failed", "removed"}

Job == [state : JobStates, booking : Requests \cup {Unset}, due : Nat,
        attempts : Nat]

NoJob == [state |-> "none", booking |-> Unset, due |-> 0, attempts |-> 0]

Mail == [state : {"none", "delayed", "sent", "removed"},
         booking : Requests \cup {Unset}, due : Nat]

NoMail == [state |-> "none", booking |-> Unset, due |-> 0]

TypeOK ==
  /\ row \in [Requests -> Row]
  /\ listing \in [Properties -> PropertyStatus]
  /\ lock \in [LockKeys -> Requests \cup {Unset}]
  /\ pc \in [Requests -> Labels]
  /\ task \in [Requests -> Task]
  /\ job \in [Requests -> Job]
  /\ claimed \subseteq Requests
  /\ mail \in [Requests -> Mail]
  /\ recorded \subseteq Requests
  /\ now \in Nat /\ faults \in Nat
  /\ ended \subseteq Requests

-----------------------------------------------------------------------------
(* Operators *)

Overlap(x, y) == x.start < y.end /\ x.end > y.start

ViewingDuration(p) ==
  IF PropertyMinutes[p] # Unset THEN PropertyMinutes[p]
  ELSE IF AgentMinutes[AgentOf[p]] # Unset THEN AgentMinutes[AgentOf[p]]
  ELSE DefaultMinutes

\* The clock saturates: whatever is due after Horizon is due at Horizon.
After(delay) == IF now + delay > Horizon THEN Horizon ELSE now + delay

LiveBookings == {b \in Requests : row[b].status \in Live}

\* Mutant of AgentConflict: bookings that wait for the agent are forgotten.
AgentConflictConfirmedOnly(r) ==
  \E b \in LiveBookings : /\ row[b].status = "CONFIRMED"
                          /\ row[b].agent = task[r].agent
                          /\ Overlap(row[b], task[r])

\* findFirst over the live bookings of one person that overlap the wanted time.
AgentConflict(r) ==
  \E b \in LiveBookings : row[b].agent = task[r].agent /\ Overlap(row[b], task[r])

\* Mutant of BuyerConflict: only bookings of the same listing count.
BuyerConflictSameListing(r) ==
  \E b \in LiveBookings : /\ row[b].buyer = task[r].buyer
                          /\ row[b].property = task[r].property
                          /\ Overlap(row[b], task[r])

BuyerConflict(r) ==
  \E b \in LiveBookings : row[b].buyer = task[r].buyer /\ Overlap(row[b], task[r])

Goto(r, label) == pc' = [pc EXCEPT ![r] = label]

Finish(r) ==
  /\ pc' = [pc EXCEPT ![r] = "done"]
  /\ task' = [task EXCEPT ![r] = NoTask]

\* Mutant of Unlock: a session-level lock, which outlives the transaction.
UnlockNever(r) == UNCHANGED lock

\* COMMIT and ROLLBACK release the transaction's advisory locks.
Unlock(r) == lock' = [k \in LockKeys |-> IF lock[k] = r THEN Unset ELSE lock[k]]

\* What findOne (with the reminder rows, when the handler includes them) returns.
Seen(op, b, mails) ==
  [op |-> op, booking |-> b, agent |-> row[b].agent, buyer |-> row[b].buyer,
   property |-> row[b].property, start |-> row[b].start, end |-> row[b].end,
   status |-> row[b].status, job |-> row[b].job, mails |-> mails]

\* A request for a new booking.
Asked(r, p, u, s) ==
  [op |-> "create", booking |-> r, agent |-> AgentOf[p], buyer |-> u,
   property |-> p, start |-> s, end |-> s + ViewingDuration(p),
   status |-> "NONE", job |-> Unset, mails |-> {}]

\* A request for another time: the lock is that of the listing's agent.
AskedToMove(b, s) ==
  [op |-> "reschedule", booking |-> b, agent |-> AgentOf[row[b].property],
   buyer |-> row[b].buyer, property |-> row[b].property, start |-> s,
   end |-> s + ViewingDuration(row[b].property), status |-> row[b].status,
   job |-> row[b].job, mails |-> {}]

\* Row b at the times a request asks for.
Moved(b, r) ==
  [status |-> row[b].status, agent |-> row[b].agent, buyer |-> row[b].buyer,
   property |-> row[b].property, start |-> task[r].start, end |-> task[r].end,
   job |-> row[b].job]

-----------------------------------------------------------------------------
(* Requests: the reads and checks a handler makes before its first write *)

BeginCreate(r) ==
  /\ pc[r] = "idle"
  /\ \E p \in Properties, u \in Buyers, s \in Starts :
       /\ listing[p] \in Bookable
       /\ s >= now
       /\ task' = [task EXCEPT ![r] = Asked(r, p, u, s)]
  /\ Goto(r, "lock")
  /\ UNCHANGED <<row, lock, queueVars, envVars, ended>>

BeginReschedule(r) ==
  /\ pc[r] = "idle"
  /\ \E b \in Requests, s \in Starts :
       /\ row[b].status = "PENDING"
       /\ s >= now
       /\ task' = [task EXCEPT ![r] = AskedToMove(b, s)]
  /\ Goto(r, "lock")
  /\ UNCHANGED <<row, lock, queueVars, envVars, ended>>

BeginConfirm(r) ==
  /\ pc[r] = "idle"
  /\ \E b \in Requests :
       /\ row[b].status = "PENDING"
       /\ row[b].start >= now
       /\ task' = [task EXCEPT ![r] = Seen("confirm", b, {})]
  /\ Goto(r, "write")
  /\ UNCHANGED <<row, lock, queueVars, envVars, ended>>

\* completedBooking and noShowBooking share their checks.
BeginClose(r) ==
  /\ pc[r] = "idle"
  /\ \E b \in Requests, op \in {"complete", "noShow"} :
       /\ row[b].status = "CONFIRMED"
       /\ row[b].start <= now
       /\ task' = [task EXCEPT ![r] = Seen(op, b, {})]
  /\ Goto(r, "write")
  /\ UNCHANGED <<row, lock, queueVars, envVars, ended>>

BeginCancel(r) ==
  /\ pc[r] = "idle"
  /\ \E b \in LiveBookings :
       task' = [task EXCEPT ![r] =
                  Seen("cancel", b, {m \in recorded : mail[m].booking = b})]
  /\ Goto(r, "write")
  /\ UNCHANGED <<row, lock, queueVars, envVars, ended>>

-----------------------------------------------------------------------------
(* Requests: createBookingWithLock and updateBookingWithLock *)

\* Mutant of TakeLock: pg_try_advisory_xact_lock, its result ignored.
TakeLockWithoutWaiting(r) ==
  /\ pc[r] = "lock"
  /\ lock' = [lock EXCEPT ![LockKey[task[r].agent]] = r]
  /\ Goto(r, "agentCheck")
  /\ UNCHANGED <<row, task, queueVars, envVars, ended>>

TakeLock(r) ==
  /\ pc[r] = "lock"
  /\ lock[LockKey[task[r].agent]] = Unset
  /\ lock' = [lock EXCEPT ![LockKey[task[r].agent]] = r]
  /\ Goto(r, "agentCheck")
  /\ UNCHANGED <<row, task, queueVars, envVars, ended>>

\* Mutant of CheckAgent: a reschedule is not checked against the calendar.
CheckAgentOfCreate(r) ==
  /\ pc[r] = "agentCheck"
  /\ task[r].op = "create" => ~ AgentConflict(r)
  /\ Goto(r, "buyerCheck")
  /\ UNCHANGED <<row, lock, task, queueVars, envVars, ended>>

CheckAgent(r) ==
  /\ pc[r] = "agentCheck"
  /\ ~ AgentConflict(r)
  /\ Goto(r, "buyerCheck")
  /\ UNCHANGED <<row, lock, task, queueVars, envVars, ended>>

CheckBuyer(r) ==
  /\ pc[r] = "buyerCheck"
  /\ ~ BuyerConflict(r)
  /\ Goto(r, "commit")
  /\ UNCHANGED <<row, lock, task, queueVars, envVars, ended>>

\* ConflictError: the transaction rolls back and the client gets a 409.
Conflict(r) ==
  /\ \/ pc[r] = "agentCheck" /\ AgentConflict(r)
     \/ pc[r] = "buyerCheck" /\ BuyerConflict(r)
  /\ Unlock(r)
  /\ Finish(r)
  /\ UNCHANGED <<row, queueVars, envVars, ended>>

InsertBooking(r) ==
  /\ pc[r] = "commit" /\ task[r].op = "create"
  /\ row' = [row EXCEPT ![r] =
       [status |-> "PENDING", agent |-> task[r].agent, buyer |-> task[r].buyer,
        property |-> task[r].property, start |-> task[r].start,
        end |-> task[r].end, job |-> Unset]]
  /\ Unlock(r)
  /\ Goto(r, "addJob")
  /\ UNCHANGED <<task, queueVars, envVars, ended>>

MoveBooking(r) ==
  /\ pc[r] = "commit" /\ task[r].op = "reschedule"
  /\ row' = [row EXCEPT ![task[r].booking] = Moved(task[r].booking, r)]
  /\ Unlock(r)
  /\ Goto(r, "removeJob")
  /\ UNCHANGED <<task, queueVars, envVars, ended>>

-----------------------------------------------------------------------------
(* Requests: the status writes, by booking id alone *)

WriteConfirmed(r) ==
  /\ pc[r] = "write" /\ task[r].op = "confirm"
  /\ row' = [row EXCEPT ![task[r].booking].status = "CONFIRMED"]
  /\ Goto(r, "removeJob")
  /\ UNCHANGED <<lock, task, queueVars, envVars, ended>>

WriteClosed(r) ==
  /\ pc[r] = "write" /\ task[r].op \in {"complete", "noShow"}
  /\ row' = [row EXCEPT ![task[r].booking].status =
               IF task[r].op = "complete" THEN "COMPLETED" ELSE "NO_SHOW"]
  /\ ended' = ended \cup {task[r].booking}
  /\ Finish(r)
  /\ UNCHANGED <<lock, queueVars, envVars>>

\* What a cancellation still has to remove depends on the row it read.
WriteCancelled(r) ==
  /\ pc[r] = "write" /\ task[r].op = "cancel"
  /\ row' = [row EXCEPT ![task[r].booking].status = "CANCELLED"]
  /\ ended' = ended \cup {task[r].booking}
  /\ \/ task[r].status = "PENDING" /\ Goto(r, "removeJob") /\ UNCHANGED task
     \/ task[r].status = "CONFIRMED" /\ task[r].mails # {}
        /\ Goto(r, "dropMail") /\ UNCHANGED task
     \/ task[r].status = "CONFIRMED" /\ task[r].mails = {} /\ Finish(r)
  /\ UNCHANGED <<lock, queueVars, envVars>>

-----------------------------------------------------------------------------
(* Requests: the queues *)

\* cancelQueue.remove does nothing to a job a worker holds or has finished.
RemoveAutoCancel(r) ==
  /\ pc[r] = "removeJob"
  /\ job' = [j \in Requests |->
               IF j = task[r].job /\ job[j].state = "delayed"
               THEN [job[j] EXCEPT !.state = "removed"] ELSE job[j]]
  /\ \/ task[r].op = "confirm" /\ Goto(r, "remind") /\ UNCHANGED task
     \/ task[r].op = "reschedule" /\ Goto(r, "addJob") /\ UNCHANGED task
     \/ task[r].op = "cancel" /\ Finish(r)
  /\ UNCHANGED <<row, lock, claimed, mail, recorded, envVars, ended>>

\* Mutant of AddAutoCancel: the job is always about the request's own booking.
AddAutoCancelForSelf(r) ==
  /\ pc[r] = "addJob"
  /\ job' = [job EXCEPT ![r] = [state |-> "delayed", booking |-> r,
                                due |-> After(CancelDelay), attempts |-> 0]]
  /\ Goto(r, "saveJob")
  /\ UNCHANGED <<row, lock, task, claimed, mail, recorded, envVars, ended>>

AddAutoCancel(r) ==
  /\ pc[r] = "addJob"
  /\ job' = [job EXCEPT ![r] = [state |-> "delayed", booking |-> task[r].booking,
                                due |-> After(CancelDelay), attempts |-> 0]]
  /\ Goto(r, "saveJob")
  /\ UNCHANGED <<row, lock, task, claimed, mail, recorded, envVars, ended>>

\* Mutant of SaveJobId: a reschedule saves the id it has just removed.
SaveOldJobId(r) ==
  /\ pc[r] = "saveJob"
  /\ row' = [row EXCEPT ![task[r].booking].job =
               IF task[r].op = "create" THEN r ELSE task[r].job]
  /\ Finish(r)
  /\ UNCHANGED <<lock, queueVars, envVars, ended>>

SaveJobId(r) ==
  /\ pc[r] = "saveJob"
  /\ row' = [row EXCEPT ![task[r].booking].job = r]
  /\ Finish(r)
  /\ UNCHANGED <<lock, queueVars, envVars, ended>>

\* The comparison is the code's: the jobs are delayed when the reminder would
\* come after the viewing, and the e-mails go out at once when it would not.
Remind(r) ==
  /\ pc[r] = "remind"
  /\ \/ /\ now + ReminderDelay > task[r].start
        /\ mail' = [mail EXCEPT ![r] = [state |-> "delayed",
                      booking |-> task[r].booking, due |-> After(ReminderDelay)]]
        /\ Goto(r, "record")
        /\ UNCHANGED task
     \/ /\ now + ReminderDelay <= task[r].start
        /\ Finish(r)
        /\ UNCHANGED mail
  /\ UNCHANGED <<row, lock, job, claimed, recorded, envVars, ended>>

\* Mutant of RecordReminders: the rows are not written.
RecordNoReminders(r) ==
  /\ pc[r] = "record"
  /\ Finish(r)
  /\ UNCHANGED <<row, lock, job, claimed, mail, recorded, envVars, ended>>

RecordReminders(r) ==
  /\ pc[r] = "record"
  /\ recorded' = recorded \cup {r}
  /\ Finish(r)
  /\ UNCHANGED <<row, lock, job, claimed, mail, envVars, ended>>

\* emailJob.remove, inside a try: the rows are deleted whether or not it worked.
DropReminders(r) ==
  /\ pc[r] = "dropMail"
  /\ \/ /\ mail' = [m \in Requests |->
                      IF m \in task[r].mails /\ mail[m].state = "delayed"
                      THEN [mail[m] EXCEPT !.state = "removed"] ELSE mail[m]]
        /\ UNCHANGED faults
     \/ faults < MaxFaults /\ faults' = faults + 1 /\ UNCHANGED mail
  /\ Goto(r, "dropRows")
  /\ UNCHANGED <<row, lock, task, job, claimed, recorded, listing, now, ended>>

DropReminderRows(r) ==
  /\ pc[r] = "dropRows"
  /\ recorded' = {m \in recorded : mail[m].booking # task[r].booking}
  /\ Finish(r)
  /\ UNCHANGED <<row, lock, job, claimed, mail, envVars, ended>>

\* A call fails or the process dies: the handler stops where it is, and an open
\* transaction rolls back.
Abort(r) ==
  /\ pc[r] \notin {"idle", "done"}
  /\ faults < MaxFaults
  /\ faults' = faults + 1
  /\ Unlock(r)
  /\ Finish(r)
  /\ UNCHANGED <<row, queueVars, listing, now, ended>>

-----------------------------------------------------------------------------
(* The cancelBooking worker *)

WorkerStages == {"active", "claimed", "cancelling"}

SetJob(j, state) == job' = [job EXCEPT ![j].state = state]

StartJob(j) ==
  /\ job[j].state = "delayed"
  /\ job[j].due <= now
  /\ SetJob(j, "active")
  /\ UNCHANGED <<row, lock, pc, task, claimed, mail, recorded, envVars, ended>>

\* ensureIdempotency: SET NX before any of the work.
ClaimJob(j) ==
  /\ job[j].state = "active"
  /\ \/ j \notin claimed /\ claimed' = claimed \cup {j} /\ SetJob(j, "claimed")
     \/ j \in claimed /\ SetJob(j, "completed") /\ UNCHANGED claimed
  /\ UNCHANGED <<row, lock, pc, task, mail, recorded, envVars, ended>>

\* Mutant of ReadForAutoCancel: the early return is inverted.
ReadForAutoCancelInverted(j) ==
  /\ job[j].state = "claimed"
  /\ \/ row[job[j].booking].status # "PENDING" /\ SetJob(j, "cancelling")
     \/ row[job[j].booking].status = "PENDING" /\ SetJob(j, "completed")
  /\ UNCHANGED <<row, lock, pc, task, claimed, mail, recorded, envVars, ended>>

ReadForAutoCancel(j) ==
  /\ job[j].state = "claimed"
  /\ \/ row[job[j].booking].status = "PENDING" /\ SetJob(j, "cancelling")
     \/ row[job[j].booking].status # "PENDING" /\ SetJob(j, "completed")
  /\ UNCHANGED <<row, lock, pc, task, claimed, mail, recorded, envVars, ended>>

WriteAutoCancel(j) ==
  /\ job[j].state = "cancelling"
  /\ row' = [row EXCEPT ![job[j].booking].status = "CANCELLED"]
  /\ ended' = ended \cup {job[j].booking}
  /\ SetJob(j, "completed")
  /\ UNCHANGED <<lock, pc, task, claimed, mail, recorded, envVars>>

\* A call of the processor throws, or the worker dies and the job is found
\* stalled: BullMQ runs it again while attempts remain.  A failure after the
\* write only costs the e-mail, and is not told apart from completion.
FailJob(j) ==
  /\ job[j].state \in WorkerStages
  /\ faults < MaxFaults
  /\ faults' = faults + 1
  /\ job' = [job EXCEPT
       ![j].state = IF job[j].attempts + 1 < MaxAttempts THEN "delayed" ELSE "failed",
       ![j].attempts = job[j].attempts + 1]
  /\ UNCHANGED <<row, lock, pc, task, claimed, mail, recorded, listing, now, ended>>

\* The e-mail worker delivers a reminder pair that is due.
SendReminder(m) ==
  /\ mail[m].state = "delayed"
  /\ mail[m].due <= now
  /\ mail' = [mail EXCEPT ![m].state = "sent"]
  /\ UNCHANGED <<row, lock, pc, task, job, claimed, recorded, envVars, ended>>

-----------------------------------------------------------------------------
(* The clock, and the admin's updatePropertyStatus, which writes one column *)

Tick ==
  /\ now < Horizon
  /\ now' = now + 1
  /\ UNCHANGED <<row, listing, lock, pc, task, queueVars, faults, ended>>

SetListing(p) ==
  /\ \E s \in ListingStatuses : listing' = [listing EXCEPT ![p] = s]
  /\ UNCHANGED <<row, lock, pc, task, queueVars, now, faults, ended>>

-----------------------------------------------------------------------------

Init ==
  /\ row = [b \in Requests |-> NoRow]
  /\ listing = [p \in Properties |-> "ACTIVE"]
  /\ lock = [k \in LockKeys |-> Unset]
  /\ pc = [r \in Requests |-> "idle"]
  /\ task = [r \in Requests |-> NoTask]
  /\ job = [j \in Requests |-> NoJob]
  /\ claimed = {}
  /\ mail = [m \in Requests |-> NoMail]
  /\ recorded = {}
  /\ now = 0 /\ faults = 0
  /\ ended = {}

Begin(r) ==
  \/ BeginCreate(r) \/ BeginReschedule(r) \/ BeginConfirm(r)
  \/ BeginClose(r) \/ BeginCancel(r)

Continue(r) ==
  \/ TakeLock(r) \/ CheckAgent(r) \/ CheckBuyer(r) \/ Conflict(r)
  \/ InsertBooking(r) \/ MoveBooking(r)
  \/ WriteConfirmed(r) \/ WriteClosed(r) \/ WriteCancelled(r)
  \/ RemoveAutoCancel(r) \/ AddAutoCancel(r) \/ SaveJobId(r)
  \/ Remind(r) \/ RecordReminders(r) \/ DropReminders(r) \/ DropReminderRows(r)

Work(j) ==
  StartJob(j) \/ ClaimJob(j) \/ ReadForAutoCancel(j) \/ WriteAutoCancel(j)

Next ==
  \/ \E r \in Requests : Begin(r) \/ Continue(r) \/ Abort(r)
  \/ \E j \in Requests : Work(j) \/ FailJob(j) \/ SendReminder(j)
  \/ Tick
  \/ \E p \in Properties : SetListing(p)

Spec == Init /\ [][Next]_vars

(***************************************************************************)
(* A handler that has started runs on (the event loop), BullMQ hands a due *)
(* job to a worker and the worker runs on, and time passes.  No client has *)
(* to send anything, and nothing has to fail.                              *)
(***************************************************************************)
Fairness ==
  /\ \A r \in Requests : WF_vars(Continue(r))
  /\ \A j \in Requests : WF_vars(Work(j))
  /\ WF_vars(Tick)

FairSpec == Spec /\ Fairness

-----------------------------------------------------------------------------
(* Safety *)

\* The bookings that are live and always were.
Held == LiveBookings \ ended

(***************************************************************************)
(* createBookingWithLock and updateBookingWithLock: two bookings that hold *)
(* a slot of one agent never overlap, whatever the interleaving, crashes   *)
(* and lock-key collisions.  A booking that was over once and was written  *)
(* CONFIRMED again by a confirmBooking that had read it PENDING does not   *)
(* count: see NoDoubleBooking.                                             *)
(***************************************************************************)
AgentNeverDoubleBooked ==
  \A b, c \in Held :
     b # c /\ row[b].agent = row[c].agent => ~ Overlap(row[b], row[c])

\* The buyer's check runs under the agent's lock, so it covers a buyer's
\* bookings with agents behind one lock and no others.
BuyerNeverDoubleBookedBehindOneLock ==
  \A b, c \in Held :
     /\ b # c
     /\ row[b].buyer = row[c].buyer
     /\ LockKey[row[b].agent] = LockKey[row[c].agent]
     => ~ Overlap(row[b], row[c])

\* Requests that will still add a cancelBooking job for booking b.
WillAddJob(b) ==
  \E r \in Requests :
     /\ task[r].booking = b
     /\ \/ pc[r] = "addJob"
        \/ pc[r] = "removeJob" /\ task[r].op = "reschedule"

\* Jobs that will find b PENDING: not yet claimed, or claimed in this attempt.
WillCancel(j, b) ==
  /\ job[j].booking = b
  /\ \/ job[j].state \in {"delayed", "active"} /\ j \notin claimed
     \/ job[j].state \in {"claimed", "cancelling"}

(***************************************************************************)
(* createBooking, rescheduleBooking and the worker together: while nothing *)
(* fails, a booking that waits for its agent always has a job that will    *)
(* cancel it, or a request about to add one, through every reschedule.     *)
(***************************************************************************)
PendingHasAutoCancel ==
  \A b \in Requests :
     row[b].status = "PENDING" => \/ faults > 0
                                  \/ WillAddJob(b)
                                  \/ \E j \in Requests : WillCancel(j, b)

(***************************************************************************)
(* While nothing fails, the id in autoConfirmJobId, by which confirm,      *)
(* cancel and reschedule remove the job, is that of a job that still runs, *)
(* unless a reschedule is between removing it and saving the next.         *)
(***************************************************************************)
RecordedJobIsLive ==
  \A b \in Requests :
     row[b].status = "PENDING" /\ row[b].job # Unset =>
        \/ faults > 0
        \/ WillCancel(row[b].job, b)
        \/ \E r \in Requests : /\ task[r].booking = b
                               /\ task[r].op = "reschedule"
                               /\ pc[r] \in {"addJob", "saveJob"}

(***************************************************************************)
(* confirmBooking and cancelBooking: while nothing fails and its booking   *)
(* was never over, a reminder pair still to be sent is on record, where    *)
(* cancelBooking finds it, or its confirm is about to record it.           *)
(***************************************************************************)
RemindersAreOnRecord ==
  \A m \in Requests :
     mail[m].state = "delayed" /\ mail[m].booking \in Held =>
        faults > 0 \/ m \in recorded \/ pc[m] = "record"

-----------------------------------------------------------------------------
(* Why no agent is double-booked: the inductive invariant *)

BeforeCommit == {"lock"} \cup InTransaction

\* Rows that exist are complete, and have their listing's agent.
RowsComplete ==
  \A b \in Requests : row[b].status # "NONE" =>
     /\ row[b].property \in Properties
     /\ row[b].agent = AgentOf[row[b].property]
     /\ row[b].buyer \in Buyers

\* A create works on its own row, which is there from its commit on; any other
\* request and every job works on a row that exists.
TaskWellFormed(r) ==
  /\ pc[r] = "idle" => row[r].status = "NONE"
  /\ pc[r] \notin {"idle", "done"} =>
       \/ /\ task[r].op = "create" /\ task[r].booking = r
          /\ task[r].property \in Properties
          /\ task[r].agent = AgentOf[task[r].property]
          /\ task[r].buyer \in Buyers
          /\ pc[r] \in BeforeCommit \cup {"addJob", "saveJob"}
          /\ pc[r] \in BeforeCommit <=> row[r].status = "NONE"
       \/ /\ task[r].op \notin {"create", "none"}
          /\ task[r].booking \in Requests
          /\ row[task[r].booking].status # "NONE"
          /\ task[r].agent = row[task[r].booking].agent
          /\ task[r].buyer = row[task[r].booking].buyer
          /\ pc[r] \in BeforeCommit => task[r].op = "reschedule"

TasksWellFormed == \A r \in Requests : TaskWellFormed(r)

JobsWellFormed ==
  \A j \in Requests : job[j].state # "none" =>
     job[j].booking \in Requests /\ row[job[j].booking].status # "NONE"

EndedIsHistory ==
  \A b \in Requests : row[b].status \in Terminal => b \in ended

HoldsItsLock ==
  \A r \in Requests :
     pc[r] \in InTransaction => lock[LockKey[task[r].agent]] = r

\* The slot a transaction has checked stays free until it commits.
CheckedSlotIsFree ==
  \A r \in Requests, b \in Held :
     \/ ~ Overlap(row[b], task[r])
     \/ /\ pc[r] \in {"buyerCheck", "commit"} => row[b].agent # task[r].agent
        /\ pc[r] = "commit" =>
             \/ row[b].buyer # task[r].buyer
             \/ LockKey[row[b].agent] # LockKey[task[r].agent]

WellFormed == RowsComplete /\ TasksWellFormed /\ JobsWellFormed

CalendarInv ==
  /\ TypeOK /\ WellFormed
  /\ EndedIsHistory /\ HoldsItsLock /\ CheckedSlotIsFree
  /\ AgentNeverDoubleBooked /\ BuyerNeverDoubleBookedBehindOneLock

-----------------------------------------------------------------------------
(* Refinement *)

Reservations ==
  {[booking |-> b, agent |-> row[b].agent,
    start |-> row[b].start, end |-> row[b].end] : b \in Held}

Calendar == INSTANCE AgentCalendar WITH BookingIds <- Requests, held <- Reservations

\* The bookings that hold a slot implement the abstract calendar.
ImplementsCalendar == Calendar!Spec

-----------------------------------------------------------------------------
(* Liveness *)

\* Every request gets its answer, also when it waits for the agent's lock and
\* when the holder of the lock dies.
EveryRequestEnds == \A r \in Requests : pc[r] # "idle" ~> pc[r] = "done"

\* The agent's decision or the auto-cancel worker: while nothing fails, no
\* booking stays PENDING for ever, through reschedules and races with the worker.
PendingIsDecided ==
  \A b \in Requests :
     row[b].status = "PENDING" ~> row[b].status # "PENDING" \/ faults > 0

=============================================================================
