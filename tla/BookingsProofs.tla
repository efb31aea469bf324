---------------------------- MODULE BookingsProofs ----------------------------
(***************************************************************************)
(* Proofs about Bookings, for every set of requests, agents, buyers and    *)
(* listings, every assignment of lock keys and durations, and any number   *)
(* of faults; and about Marketplace, what the handlers that close listings *)
(* do to the bookings on them, for any number of closings and any page     *)
(* size.                                                                   *)
(***************************************************************************)
EXTENDS Marketplace, TLAPS

USE BookingAssumption

-----------------------------------------------------------------------------
(* Lemmas about the operators *)

\* The ?? chain of durations ends in a number.
LEMMA DurationIsNat ==
  ASSUME NEW p \in Properties
  PROVE  ViewingDuration(p) \in Nat
BY DEF ViewingDuration

\* A delay ends at a time.
LEMMA AfterIsNat ==
  ASSUME NEW delay \in Nat, now \in Nat
  PROVE  After(delay) \in Nat
BY DEF After

\* Overlap does not depend on the order of its arguments.
LEMMA OverlapSymmetric ==
  ASSUME NEW x, NEW y, x.start \in Nat, x.end \in Nat, y.start \in Nat, y.end \in Nat
  PROVE  Overlap(x, y) <=> Overlap(y, x)
BY DEF Overlap

\* findOne returns a well-typed task.
LEMMA SeenType ==
  ASSUME TypeOK, NEW op \in Ops, NEW b \in Requests, NEW mails \in SUBSET Requests
  PROVE  Seen(op, b, mails) \in Task
BY DEF TypeOK, Row, Task, Seen

\* So does the data of a new booking, and of a move.
LEMMA AskedType ==
  ASSUME NEW r \in Requests, NEW p \in Properties, NEW u \in Buyers, NEW s \in Starts
  PROVE  Asked(r, p, u, s) \in Task
BY DurationIsNat DEF Asked, Task, Ops, Status

LEMMA AskedToMoveType ==
  ASSUME TypeOK, NEW b \in Requests, NEW s \in Starts, row[b].property \in Properties
  PROVE  AskedToMove(b, s) \in Task
BY DurationIsNat DEF TypeOK, Row, AskedToMove, Task, Ops

\* A status write by id, and a job id written by id, leave a table of rows.
LEMMA StatusWriteType ==
  ASSUME TypeOK, NEW b \in Requests, NEW s \in Status,
         row' = [row EXCEPT ![b].status = s]
  PROVE  row' \in [Requests -> Row]
<1>1. row[b] \in Row
  BY DEF TypeOK
<1>2. [row[b] EXCEPT !.status = s] \in Row
  BY <1>1 DEF Row
<1> QED BY <1>2 DEF TypeOK

LEMMA JobIdWriteType ==
  ASSUME TypeOK, NEW b \in Requests, NEW j \in Requests,
         row' = [row EXCEPT ![b].job = j]
  PROVE  row' \in [Requests -> Row]
BY DEF TypeOK, Row

-----------------------------------------------------------------------------
(* Types *)

LEMMA InitType == Init => TypeOK
BY DEF Init, TypeOK, Row, NoRow, Task, NoTask, Job, NoJob, Mail, NoMail,
       JobStates, Labels, PropertyStatus, Status

\* Every step keeps the types.
LEMMA TypeStep == TypeOK /\ WellFormed /\ [Next]_vars => TypeOK'
<1> SUFFICES ASSUME TypeOK, WellFormed, [Next]_vars PROVE TypeOK'
  OBVIOUS
<1> USE DEF queueVars, envVars, Goto, Labels
<1>1. ASSUME NEW r \in Requests, BeginCreate(r) PROVE TypeOK'
  <2>1. task' \in [Requests -> Task]
    BY <1>1, AskedType DEF BeginCreate, TypeOK
  <2> QED BY <1>1, <2>1 DEF BeginCreate, TypeOK
<1>2. ASSUME NEW r \in Requests, BeginReschedule(r) PROVE TypeOK'
  <2>1. \A b \in Requests : row[b].status = "PENDING" => row[b].property \in Properties
    BY DEF WellFormed, RowsComplete
  <2>2. task' \in [Requests -> Task]
    BY <1>2, <2>1, AskedToMoveType DEF BeginReschedule, TypeOK
  <2> QED BY <1>2, <2>2 DEF BeginReschedule, TypeOK
<1>3. ASSUME NEW r \in Requests, BeginConfirm(r) PROVE TypeOK'
  BY <1>3, SeenType DEF BeginConfirm, TypeOK, Ops
<1>4. ASSUME NEW r \in Requests, BeginClose(r) PROVE TypeOK'
  BY <1>4, SeenType DEF BeginClose, TypeOK, Ops
<1>5. ASSUME NEW r \in Requests, BeginCancel(r) PROVE TypeOK'
  <2> PICK b \in LiveBookings : task' = [task EXCEPT ![r] =
                  Seen("cancel", b, {m \in recorded : mail[m].booking = b})]
    BY <1>5 DEF BeginCancel
  <2>1. Seen("cancel", b, {m \in recorded : mail[m].booking = b}) \in Task
    BY SeenType DEF LiveBookings, TypeOK, Ops
  <2> QED BY <1>5, <2>1 DEF BeginCancel, TypeOK
<1>6. ASSUME NEW r \in Requests, TakeLock(r) \/ CheckAgent(r) \/ CheckBuyer(r)
      PROVE  TypeOK'
  BY <1>6 DEF TakeLock, CheckAgent, CheckBuyer, TypeOK
<1> DEFINE Released == lock' \in [LockKeys -> Requests \cup {Unset}]
           Finished == /\ pc' \in [Requests -> Labels]
                       /\ task' \in [Requests -> Task]
<1>7. ASSUME NEW r \in Requests, Unlock(r) PROVE Released
  BY <1>7 DEF Unlock, TypeOK
<1>8. ASSUME NEW r \in Requests, Finish(r) PROVE Finished
  BY <1>8 DEF Finish, TypeOK, Task, NoTask, Status
<1> HIDE DEF Released, Finished
<1>9. ASSUME NEW r \in Requests, Conflict(r) PROVE TypeOK'
  BY <1>9, <1>7, <1>8 DEF Conflict, TypeOK, Released, Finished
<1>13. ASSUME NEW r \in Requests, pc[r] \notin {"idle", "done"}
       PROVE  task[r].booking \in Requests
  BY <1>13 DEF WellFormed, TasksWellFormed, TaskWellFormed
<1>10. ASSUME NEW r \in Requests, InsertBooking(r) PROVE TypeOK'
  <2>1. row' \in [Requests -> Row]
    BY <1>10 DEF InsertBooking, TypeOK, Row, Task, Status, Live
  <2> QED BY <1>10, <1>7, <2>1 DEF InsertBooking, TypeOK, Released
<1>11. ASSUME NEW r \in Requests, MoveBooking(r) PROVE TypeOK'
  <2>1. row' \in [Requests -> Row]
    BY <1>11, <1>13 DEF MoveBooking, Moved, TypeOK, Row, Task
  <2> QED BY <1>11, <1>7, <2>1 DEF MoveBooking, TypeOK, Released
<1>12. ASSUME NEW r \in Requests, WriteConfirmed(r) PROVE TypeOK'
  <2>1. row' \in [Requests -> Row]
    BY <1>12, <1>13, StatusWriteType DEF WriteConfirmed, Status, Live
  <2> QED BY <1>12, <2>1 DEF WriteConfirmed, TypeOK
<1>14. ASSUME NEW r \in Requests, WriteClosed(r) PROVE TypeOK'
  <2>1. row' \in [Requests -> Row]
    BY <1>14, <1>13, StatusWriteType DEF WriteClosed, Status, Terminal
  <2>2. ended' \subseteq Requests
    BY <1>14, <1>13 DEF WriteClosed, TypeOK
  <2> QED BY <1>14, <1>8, <2>1, <2>2 DEF WriteClosed, TypeOK, Finished
<1>15. ASSUME NEW r \in Requests, WriteCancelled(r) PROVE TypeOK'
  <2>1. row' \in [Requests -> Row]
    BY <1>15, <1>13, StatusWriteType DEF WriteCancelled, Status, Terminal
  <2>2. ended' \subseteq Requests
    BY <1>15, <1>13 DEF WriteCancelled, TypeOK
  <2>3. Finished
    BY <1>15, <1>8 DEF WriteCancelled, TypeOK, Finished
  <2> QED BY <1>15, <2>1, <2>2, <2>3 DEF WriteCancelled, TypeOK, Finished
<1>16. ASSUME NEW r \in Requests, RemoveAutoCancel(r) PROVE TypeOK'
  <2>1. job' \in [Requests -> Job]
    BY <1>16 DEF RemoveAutoCancel, TypeOK, Job, JobStates
  <2>2. Finished
    BY <1>16, <1>8 DEF RemoveAutoCancel, TypeOK, Finished
  <2> QED BY <1>16, <2>1, <2>2 DEF RemoveAutoCancel, TypeOK, Finished
<1>17. ASSUME NEW r \in Requests, AddAutoCancel(r) PROVE TypeOK'
  <2>1. job' \in [Requests -> Job]
    BY <1>17, AfterIsNat DEF AddAutoCancel, TypeOK, Job, JobStates, Task
  <2> QED BY <1>17, <2>1 DEF AddAutoCancel, TypeOK
<1>18. ASSUME NEW r \in Requests, SaveJobId(r) PROVE TypeOK'
  <2>1. row' \in [Requests -> Row]
    BY <1>18, <1>13, JobIdWriteType DEF SaveJobId
  <2> QED BY <1>18, <1>8, <2>1 DEF SaveJobId, TypeOK, Finished
<1>19. ASSUME NEW r \in Requests, Remind(r) PROVE TypeOK'
  <2>1. mail' \in [Requests -> Mail]
    BY <1>19, AfterIsNat DEF Remind, TypeOK, Mail, Task
  <2>2. Finished
    BY <1>19, <1>8 DEF Remind, TypeOK, Finished
  <2> QED BY <1>19, <2>1, <2>2 DEF Remind, TypeOK, Finished
<1>20. ASSUME NEW r \in Requests, RecordReminders(r) PROVE TypeOK'
  BY <1>20, <1>8 DEF RecordReminders, TypeOK, Finished
<1>21. ASSUME NEW r \in Requests, DropReminders(r) PROVE TypeOK'
  <2>1. \A m \in Requests : mail[m] \in Mail /\ [mail[m] EXCEPT !.state = "removed"] \in Mail
    BY DEF TypeOK, Mail
  <2>2. mail' \in [Requests -> Mail]
    BY <1>21, <2>1 DEF DropReminders, TypeOK
  <2>3. faults' \in Nat
    BY <1>21 DEF DropReminders, TypeOK
  <2> QED BY <1>21, <2>2, <2>3 DEF DropReminders, TypeOK
<1>22. ASSUME NEW r \in Requests, DropReminderRows(r) PROVE TypeOK'
  BY <1>22, <1>8 DEF DropReminderRows, TypeOK, Finished
<1>23. ASSUME NEW r \in Requests, Abort(r) PROVE TypeOK'
  BY <1>23, <1>7, <1>8 DEF Abort, TypeOK, Released, Finished
<1>24. ASSUME NEW j \in Requests, NEW state \in JobStates, SetJob(j, state)
       PROVE  job' \in [Requests -> Job]
  BY <1>24 DEF SetJob, TypeOK, Job
<1>25. ASSUME NEW j \in Requests, StartJob(j) \/ ReadForAutoCancel(j)
       PROVE  TypeOK'
  <2>1. job' \in [Requests -> Job]
    BY <1>25, <1>24 DEF StartJob, ReadForAutoCancel, JobStates
  <2> QED BY <1>25, <2>1 DEF StartJob, ReadForAutoCancel, TypeOK
<1>26. ASSUME NEW j \in Requests, ClaimJob(j) PROVE TypeOK'
  <2>1. job' \in [Requests -> Job]
    BY <1>26, <1>24 DEF ClaimJob, JobStates
  <2> QED BY <1>26, <2>1 DEF ClaimJob, TypeOK
<1>27. ASSUME NEW j \in Requests, WriteAutoCancel(j) PROVE TypeOK'
  <2>1. job' \in [Requests -> Job]
    BY <1>27, <1>24 DEF WriteAutoCancel, JobStates
  <2>2. row' \in [Requests -> Row]
    BY <1>27, StatusWriteType DEF WriteAutoCancel, WellFormed, JobsWellFormed, Status, Terminal
  <2>3. ended' \subseteq Requests
    BY <1>27 DEF WriteAutoCancel, TypeOK, WellFormed, JobsWellFormed
  <2> QED BY <1>27, <2>1, <2>2, <2>3 DEF WriteAutoCancel, TypeOK
<1>28. ASSUME NEW j \in Requests, FailJob(j) PROVE TypeOK'
  <2>1. job' \in [Requests -> Job]
    BY <1>28 DEF FailJob, TypeOK, Job, JobStates
  <2> QED BY <1>28, <2>1 DEF FailJob, TypeOK
<1>29. ASSUME NEW m \in Requests, SendReminder(m) PROVE TypeOK'
  <2>1. mail' \in [Requests -> Mail]
    BY <1>29 DEF SendReminder, TypeOK, Mail
  <2> QED BY <1>29, <2>1 DEF SendReminder, TypeOK
<1>30. CASE Tick
  BY <1>30 DEF Tick, TypeOK
<1>31. ASSUME NEW p \in Properties, SetListing(p) PROVE TypeOK'
  BY <1>31 DEF SetListing, TypeOK, PropertyStatus
<1>32. CASE UNCHANGED vars
  BY <1>32 DEF vars, TypeOK
<1> QED
  BY <1>1, <1>2, <1>3, <1>4, <1>5, <1>6, <1>9, <1>10, <1>11, <1>12, <1>14,
     <1>15, <1>16, <1>17, <1>18, <1>19, <1>20, <1>21, <1>22, <1>23, <1>25,
     <1>26, <1>27, <1>28, <1>29, <1>30, <1>31, <1>32
  DEF Next, Begin, Continue, Work

-----------------------------------------------------------------------------
(* Rows, tasks and jobs refer to each other correctly *)

\* What a step may do to the Booking table: rows are never deleted and keep
\* their owner, and a row appears only as the create with its name commits.
RowPersists(b) ==
  row[b].status # "NONE" =>
     /\ row'[b].status # "NONE"
     /\ row'[b].agent = row[b].agent
     /\ row'[b].buyer = row[b].buyer
     /\ row'[b].property = row[b].property

LEMMA StatusWritePersists ==
  ASSUME TypeOK, NEW c \in Requests, NEW s \in Live \cup Terminal,
         row' = [row EXCEPT ![c].status = s]
  PROVE  \A b \in Requests :
            /\ RowPersists(b)
            /\ b # c => row'[b] = row[b]
            /\ row'[b].property = row[b].property
BY DEF TypeOK, Row, RowPersists, Live, Terminal

LEMMA JobIdWritePersists ==
  ASSUME TypeOK, NEW c \in Requests, NEW j,
         row' = [row EXCEPT ![c].job = j]
  PROVE  \A b \in Requests :
            RowPersists(b) /\ row'[b].status = row[b].status
BY DEF TypeOK, Row, RowPersists

LEMMA MovePersists ==
  ASSUME TypeOK, NEW c \in Requests, NEW r \in Requests,
         row' = [row EXCEPT ![c] = Moved(c, r)]
  PROVE  \A b \in Requests :
            /\ RowPersists(b)
            /\ row'[b].status = row[b].status
            /\ b # c => row'[b] = row[b]
            /\ row'[c].start = task[r].start /\ row'[c].end = task[r].end
BY DEF TypeOK, Row, RowPersists, Moved

\* No row appears.
NoNewRow ==
  \A b \in Requests : RowPersists(b) /\ (row[b].status = "NONE" => row'[b].status = "NONE")

LEMMA RowsCompleteKept ==
  ASSUME RowsComplete, NoNewRow
  PROVE  RowsComplete'
BY DEF RowsComplete, NoNewRow, RowPersists

\* A request that takes no step stays well-formed.
LEMMA TaskKept ==
  ASSUME NEW s \in Requests, TaskWellFormed(s), \A b \in Requests : RowPersists(b),
         row[s].status = "NONE" => row'[s].status = "NONE",
         pc'[s] = pc[s], task'[s] = task[s]
  PROVE  TaskWellFormed(s)'
BY DEF TaskWellFormed, RowPersists

\* So does one that moves on, to a label that fits its operation.
LEMMA TaskMoved ==
  ASSUME NEW s \in Requests, TaskWellFormed(s), NoNewRow, task'[s] = task[s],
         pc[s] \notin {"idle", "done"}, pc'[s] \notin {"idle", "done"},
         task[s].op = "create" => /\ pc'[s] \in BeforeCommit \cup {"addJob", "saveJob"}
                                  /\ pc'[s] \in BeforeCommit <=> pc[s] \in BeforeCommit,
         pc'[s] \in BeforeCommit => pc[s] \in BeforeCommit
  PROVE  TaskWellFormed(s)'
BY DEF TaskWellFormed, NoNewRow, RowPersists

LEMMA TaskDone ==
  ASSUME NEW s \in Requests, pc'[s] = "done"
  PROVE  TaskWellFormed(s)'
BY DEF TaskWellFormed

LEMMA JobsKept ==
  ASSUME JobsWellFormed, \A b \in Requests : RowPersists(b),
         \A j \in Requests : job'[j].state = "none" \/
            (job[j].state # "none" /\ job'[j].booking = job[j].booking)
  PROVE  JobsWellFormed'
BY DEF JobsWellFormed, RowPersists

\* What is left to show of a step that adds no row.
LEMMA StepOfOne ==
  ASSUME WellFormed, NEW r \in Requests, NoNewRow, TaskWellFormed(r)',
         \A s \in Requests \ {r} : pc'[s] = pc[s] /\ task'[s] = task[s],
         \A j \in Requests : job'[j].state = "none" \/
            (job[j].state # "none" /\ job'[j].booking = job[j].booking)
  PROVE  WellFormed'
<1>1. RowsComplete'
  BY RowsCompleteKept DEF WellFormed
<1>2. \A b \in Requests : RowPersists(b)
  BY DEF NoNewRow
<1>3. \A s \in Requests \ {r} : TaskWellFormed(s)'
  BY TaskKept, <1>2 DEF WellFormed, TasksWellFormed, NoNewRow
<1>4. JobsWellFormed'
  BY JobsKept, <1>2 DEF WellFormed
<1> QED BY <1>1, <1>3, <1>4 DEF WellFormed, TasksWellFormed

LEMMA RowsUnchanged ==
  ASSUME row' = row
  PROVE  NoNewRow
BY DEF NoNewRow, RowPersists

LEMMA StatusWriteAddsNoRow ==
  ASSUME TypeOK, NEW c \in Requests, NEW s \in Live \cup Terminal,
         row[c].status # "NONE", row' = [row EXCEPT ![c].status = s]
  PROVE  NoNewRow
BY StatusWritePersists DEF NoNewRow

\* Every step keeps the references.
LEMMA WellFormedStep == TypeOK /\ WellFormed /\ [Next]_vars => WellFormed'
<1> SUFFICES ASSUME TypeOK, WellFormed, [Next]_vars PROVE WellFormed'
  OBVIOUS
<1> USE DEF queueVars, envVars, Goto
<1>t. \A r \in Requests : TaskWellFormed(r)
  BY DEF WellFormed, TasksWellFormed
<1>a. ASSUME NEW r \in Requests, NEW label,
             pc' = [pc EXCEPT ![r] = label], task' = task
      PROVE  /\ \A s \in Requests \ {r} : pc'[s] = pc[s] /\ task'[s] = task[s]
             /\ pc'[r] = label /\ task'[r] = task[r]
  BY <1>a DEF TypeOK
<1>b. ASSUME NEW r \in Requests, Finish(r)
      PROVE  /\ \A s \in Requests \ {r} : pc'[s] = pc[s] /\ task'[s] = task[s]
             /\ TaskWellFormed(r)'
  BY <1>b, TaskDone DEF TypeOK, Finish
<1>c. ASSUME NEW r \in Requests, NEW t, NEW label,
             pc' = [pc EXCEPT ![r] = label], task' = [task EXCEPT ![r] = t]
      PROVE  /\ \A s \in Requests \ {r} : pc'[s] = pc[s] /\ task'[s] = task[s]
             /\ pc'[r] = label /\ task'[r] = t
  BY <1>c DEF TypeOK
<1>d. ASSUME job' = job
      PROVE  \A j \in Requests : job'[j].state = "none" \/
                (job[j].state # "none" /\ job'[j].booking = job[j].booking)
  BY <1>d
<1>1. ASSUME NEW r \in Requests, BeginCreate(r) PROVE WellFormed'
  <2> PICK p \in Properties, u \in Buyers, s \in Starts :
             task' = [task EXCEPT ![r] = Asked(r, p, u, s)]
    BY <1>1 DEF BeginCreate
  <2>1. pc' = [pc EXCEPT ![r] = "lock"] /\ row' = row /\ job' = job /\ pc[r] = "idle"
    BY <1>1 DEF BeginCreate
  <2>a. pc'[r] = "lock" /\ task'[r] = Asked(r, p, u, s)
    BY <2>1 DEF TypeOK
  <2>2. TaskWellFormed(r)'
    BY <1>t, <2>a, <2>1 DEF TaskWellFormed, Asked, BeforeCommit
  <2> QED BY <2>1, <2>2, <1>c, <1>d, StepOfOne, RowsUnchanged
<1>2. ASSUME NEW r \in Requests, BeginReschedule(r) PROVE WellFormed'
  <2> PICK b \in Requests, s \in Starts :
             /\ row[b].status = "PENDING"
             /\ task' = [task EXCEPT ![r] = AskedToMove(b, s)]
    BY <1>2 DEF BeginReschedule
  <2>1. pc' = [pc EXCEPT ![r] = "lock"] /\ row' = row /\ job' = job
    BY <1>2 DEF BeginReschedule
  <2>2. row[b].agent = AgentOf[row[b].property]
    BY DEF WellFormed, RowsComplete
  <2>a. pc'[r] = "lock" /\ task'[r] = AskedToMove(b, s)
    BY <2>1 DEF TypeOK
  <2>b. /\ task'[r].op = "reschedule" /\ task'[r].booking = b
        /\ task'[r].agent = row[b].agent /\ task'[r].buyer = row[b].buyer
    BY <2>a, <2>2 DEF AskedToMove
  <2>3. TaskWellFormed(r)'
    BY <2>a, <2>b, <2>1 DEF TaskWellFormed
  <2> QED BY <2>1, <2>3, <1>c, <1>d, StepOfOne, RowsUnchanged
<1>3. ASSUME NEW r \in Requests, BeginConfirm(r) \/ BeginClose(r) \/ BeginCancel(r)
      PROVE  WellFormed'
  <2> PICK b \in Requests, op \in Ops, mails \in SUBSET Requests :
             /\ op \notin {"create", "none"}
             /\ row[b].status # "NONE"
             /\ task' = [task EXCEPT ![r] = Seen(op, b, mails)]
    <3>1. CASE BeginConfirm(r)
      BY <3>1 DEF BeginConfirm, Ops
    <3>2. CASE BeginClose(r)
      BY <3>2 DEF BeginClose, Ops
    <3>3. CASE BeginCancel(r)
      <4>1. \A b : {m \in recorded : mail[m].booking = b} \in SUBSET Requests
        BY DEF TypeOK
      <4> QED BY <3>3, <4>1 DEF BeginCancel, LiveBookings, Live, Ops
    <3> QED BY <1>3, <3>1, <3>2, <3>3
  <2>1. pc' = [pc EXCEPT ![r] = "write"] /\ row' = row /\ job' = job
    BY <1>3 DEF BeginConfirm, BeginClose, BeginCancel
  <2>a. pc'[r] = "write" /\ task'[r] = Seen(op, b, mails)
    BY <2>1 DEF TypeOK
  <2>b. /\ task'[r].op = op /\ task'[r].booking = b
        /\ task'[r].agent = row[b].agent /\ task'[r].buyer = row[b].buyer
    BY <2>a DEF Seen
  <2>2. TaskWellFormed(r)'
    BY <2>a, <2>b, <2>1 DEF TaskWellFormed, BeforeCommit, InTransaction
  <2> QED BY <2>1, <2>2, <1>c, <1>d, StepOfOne, RowsUnchanged
<1>4. ASSUME NEW r \in Requests, TakeLock(r) \/ CheckAgent(r) \/ CheckBuyer(r)
      PROVE  WellFormed'
  <2>1. PICK label \in InTransaction :
           pc' = [pc EXCEPT ![r] = label] /\ pc[r] \in BeforeCommit
    BY <1>4 DEF TakeLock, CheckAgent, CheckBuyer, InTransaction, BeforeCommit
  <2>2. task' = task /\ row' = row /\ job' = job
    BY <1>4 DEF TakeLock, CheckAgent, CheckBuyer
  <2>3. pc'[r] = label /\ task'[r] = task[r]
    BY <2>1, <2>2 DEF TypeOK
  <2>4. TaskWellFormed(r)'
    BY <1>t, <2>1, <2>2, <2>3 DEF TaskWellFormed, BeforeCommit, InTransaction
  <2> QED BY <2>1, <2>2, <2>4, <1>a, <1>d, StepOfOne, RowsUnchanged
<1>5. ASSUME NEW r \in Requests, Finish(r), row' = row, job' = job
      PROVE  WellFormed'
  BY <1>5, <1>b, <1>d, StepOfOne, RowsUnchanged
<1>6. ASSUME NEW r \in Requests, Conflict(r) \/ RecordReminders(r) \/
                                 DropReminderRows(r) \/ Abort(r)
      PROVE  WellFormed'
  BY <1>6, <1>5 DEF Conflict, RecordReminders, DropReminderRows, Abort
<1>7. ASSUME NEW r \in Requests, InsertBooking(r) PROVE WellFormed'
  <2>1. /\ task[r].op = "create" /\ pc[r] = "commit" /\ task' = task /\ job' = job
        /\ pc' = [pc EXCEPT ![r] = "addJob"]
    BY <1>7 DEF InsertBooking
  <2>2. /\ task[r].booking = r /\ task[r].property \in Properties
        /\ task[r].agent = AgentOf[task[r].property] /\ task[r].buyer \in Buyers
        /\ row[r].status = "NONE"
    BY <1>t, <2>1 DEF TaskWellFormed, BeforeCommit, InTransaction
  <2>3. \A b \in Requests \ {r} : row'[b] = row[b]
    BY <1>7 DEF InsertBooking, TypeOK
  <2>4. /\ row'[r].status = "PENDING" /\ row'[r].property = task[r].property
        /\ row'[r].agent = task[r].agent /\ row'[r].buyer = task[r].buyer
    BY <1>7 DEF InsertBooking, TypeOK
  <2>5. \A b \in Requests : RowPersists(b)
    BY <2>2, <2>3 DEF RowPersists
  <2>6. RowsComplete'
    BY <2>2, <2>3, <2>4 DEF WellFormed, RowsComplete
  <2>7. \A s \in Requests \ {r} : TaskWellFormed(s)'
    BY <1>t, <1>a, <2>1, <2>3, <2>5, TaskKept
  <2>8. pc'[r] = "addJob" /\ task'[r] = task[r]
    BY <2>1 DEF TypeOK
  <2>9. TaskWellFormed(r)'
    BY <2>1, <2>2, <2>4, <2>8 DEF TaskWellFormed, BeforeCommit, InTransaction
  <2>10. JobsWellFormed'
    BY <2>1, <2>5, <1>d, JobsKept DEF WellFormed
  <2> QED BY <2>6, <2>7, <2>9, <2>10 DEF WellFormed, TasksWellFormed
<1>8. ASSUME NEW r \in Requests, MoveBooking(r) PROVE WellFormed'
  <2>1. /\ task[r].op = "reschedule" /\ pc[r] = "commit" /\ task' = task /\ job' = job
        /\ pc' = [pc EXCEPT ![r] = "removeJob"]
        /\ row' = [row EXCEPT ![task[r].booking] = Moved(task[r].booking, r)]
    BY <1>8 DEF MoveBooking
  <2>2. task[r].booking \in Requests
    BY <1>t, <2>1 DEF TaskWellFormed
  <2>3. NoNewRow
    BY <2>1, <2>2, MovePersists DEF NoNewRow
  <2>4. pc'[r] = "removeJob" /\ task'[r] = task[r]
    BY <2>1 DEF TypeOK
  <2>5. TaskWellFormed(r)'
    BY <1>t, <2>1, <2>3, <2>4, TaskMoved DEF BeforeCommit, InTransaction
  <2> QED BY <2>1, <2>3, <2>5, <1>a, <1>d, StepOfOne
<1>9. ASSUME NEW r \in Requests, pc[r] = "write"
      PROVE  /\ task[r].booking \in Requests /\ row[task[r].booking].status # "NONE"
             /\ task[r].op # "create"
  BY <1>9, <1>t DEF TaskWellFormed, BeforeCommit, InTransaction
<1>10. ASSUME NEW r \in Requests, WriteConfirmed(r) PROVE WellFormed'
  <2>1. /\ pc[r] = "write" /\ task' = task /\ job' = job
        /\ pc' = [pc EXCEPT ![r] = "removeJob"]
        /\ row' = [row EXCEPT ![task[r].booking].status = "CONFIRMED"]
    BY <1>10 DEF WriteConfirmed
  <2>2. NoNewRow
    BY <2>1, <1>9, StatusWriteAddsNoRow DEF Live
  <2>3. pc'[r] = "removeJob" /\ task'[r] = task[r]
    BY <2>1 DEF TypeOK
  <2>4. TaskWellFormed(r)'
    BY <1>t, <2>1, <2>2, <2>3, <1>9, TaskMoved DEF BeforeCommit, InTransaction
  <2> QED BY <2>1, <2>2, <2>4, <1>a, <1>d, StepOfOne
<1>11. ASSUME NEW r \in Requests, WriteClosed(r) PROVE WellFormed'
  <2>1. NoNewRow
    BY <1>11, <1>9, StatusWriteAddsNoRow DEF WriteClosed, Terminal
  <2> QED BY <2>1, <1>11, <1>b, <1>d, StepOfOne DEF WriteClosed
<1>12. ASSUME NEW r \in Requests, WriteCancelled(r) PROVE WellFormed'
  <2>1. NoNewRow
    BY <1>12, <1>9, StatusWriteAddsNoRow DEF WriteCancelled, Terminal
  <2>2. job' = job
    BY <1>12 DEF WriteCancelled
  <2>3. CASE Finish(r)
    BY <2>1, <2>2, <2>3, <1>b, <1>d, StepOfOne
  <2>4. CASE task' = task /\ pc[r] = "write" /\
             \E label \in {"removeJob", "dropMail"} : pc' = [pc EXCEPT ![r] = label]
    <3> PICK label \in {"removeJob", "dropMail"} : pc' = [pc EXCEPT ![r] = label]
      BY <2>4
    <3>1. pc'[r] = label /\ task'[r] = task[r]
      BY <2>4 DEF TypeOK
    <3>2. TaskWellFormed(r)'
      BY <1>t, <2>1, <2>4, <3>1, <1>9, TaskMoved DEF BeforeCommit, InTransaction
    <3> QED BY <2>1, <2>2, <2>4, <3>2, <1>a, <1>d, StepOfOne
  <2> QED BY <1>12, <2>3, <2>4 DEF WriteCancelled
<1>13. ASSUME NEW r \in Requests, NEW label \in Labels \ {"idle", "done"},
              NoNewRow, task' = task, pc' = [pc EXCEPT ![r] = label],
              pc[r] \notin {"idle", "done"} \cup BeforeCommit,
              label \notin BeforeCommit,
              task[r].op = "create" => label \in {"addJob", "saveJob"},
              \A j \in Requests : job'[j].state = "none" \/
                 (job[j].state # "none" /\ job'[j].booking = job[j].booking)
       PROVE  WellFormed'
  <2>1. pc'[r] = label /\ task'[r] = task[r]
    BY <1>13 DEF TypeOK
  <2>2. TaskWellFormed(r)'
    BY <1>t, <1>13, <2>1, TaskMoved
  <2> QED BY <1>13, <2>2, <1>a, StepOfOne
<1>14. ASSUME NEW r \in Requests, RemoveAutoCancel(r) PROVE WellFormed'
  <2>1. /\ \A j \in Requests : job'[j].state = "none" \/
              (job[j].state # "none" /\ job'[j].booking = job[j].booking)
        /\ row' = row /\ pc[r] = "removeJob"
    BY <1>14 DEF RemoveAutoCancel, TypeOK, Job
  <2>2. CASE Finish(r)
    BY <2>1, <2>2, <1>b, StepOfOne, RowsUnchanged
  <2>3. CASE task[r].op = "confirm" /\ Goto(r, "remind") /\ UNCHANGED task
    BY <2>1, <2>3, <1>13, RowsUnchanged DEF Labels, BeforeCommit, InTransaction
  <2>4. CASE task[r].op = "reschedule" /\ Goto(r, "addJob") /\ UNCHANGED task
    BY <2>1, <2>4, <1>13, RowsUnchanged DEF Labels, BeforeCommit, InTransaction
  <2> QED BY <1>14, <2>2, <2>3, <2>4 DEF RemoveAutoCancel
<1>15. ASSUME NEW r \in Requests, AddAutoCancel(r) PROVE WellFormed'
  <2>1. /\ pc[r] = "addJob" /\ task' = task /\ row' = row
        /\ pc' = [pc EXCEPT ![r] = "saveJob"]
    BY <1>15 DEF AddAutoCancel
  <2>2. task[r].booking \in Requests /\ row[task[r].booking].status # "NONE"
    BY <1>t, <2>1 DEF TaskWellFormed, BeforeCommit, InTransaction
  <2>3. /\ job'[r].booking = task[r].booking
        /\ \A j \in Requests \ {r} : job'[j] = job[j]
    BY <1>15 DEF AddAutoCancel, TypeOK
  <2>4. JobsWellFormed'
    BY <2>1, <2>2, <2>3 DEF WellFormed, JobsWellFormed
  <2>5. pc'[r] = "saveJob" /\ task'[r] = task[r]
    BY <2>1 DEF TypeOK
  <2>6. TaskWellFormed(r)'
    BY <1>t, <2>1, <2>5, TaskMoved, RowsUnchanged DEF BeforeCommit, InTransaction
  <2>7. \A s \in Requests \ {r} : TaskWellFormed(s)'
    BY <1>t, <1>a, <2>1, TaskKept DEF RowPersists
  <2>8. RowsComplete'
    BY <2>1, RowsUnchanged, RowsCompleteKept DEF WellFormed
  <2> QED BY <2>4, <2>6, <2>7, <2>8 DEF WellFormed, TasksWellFormed
<1>16. ASSUME NEW r \in Requests, SaveJobId(r) PROVE WellFormed'
  <2>1. NoNewRow
    BY <1>16, <1>t, JobIdWritePersists
    DEF SaveJobId, NoNewRow, TaskWellFormed
  <2> QED BY <2>1, <1>16, <1>b, <1>d, StepOfOne DEF SaveJobId
<1>17. ASSUME NEW r \in Requests, Remind(r) PROVE WellFormed'
  <2>1. CASE Goto(r, "record") /\ UNCHANGED task
    <3>1. task[r].op # "create"
      BY <1>17, <1>t DEF Remind, TaskWellFormed, BeforeCommit, InTransaction
    <3> QED BY <2>1, <3>1, <1>17, <1>13, <1>d, RowsUnchanged
            DEF Remind, Labels, BeforeCommit, InTransaction
  <2> QED BY <1>17, <2>1, <1>5 DEF Remind
<1>18. ASSUME NEW r \in Requests, DropReminders(r) PROVE WellFormed'
  <2>1. task[r].op # "create"
    BY <1>18, <1>t DEF DropReminders, TaskWellFormed, BeforeCommit, InTransaction
  <2> QED BY <1>18, <2>1, <1>13, <1>d, RowsUnchanged
          DEF DropReminders, Labels, BeforeCommit, InTransaction
\* The steps of the workers and of the environment move no request.
<1>19. ASSUME NoNewRow, UNCHANGED <<pc, task>>,
              \A j \in Requests : job'[j].state = "none" \/
                 (job[j].state # "none" /\ job'[j].booking = job[j].booking)
       PROVE  WellFormed'
  <2>1. \A b \in Requests : RowPersists(b)
    BY <1>19 DEF NoNewRow
  <2>2. \A s \in Requests : TaskWellFormed(s)'
    BY <1>t, <1>19, <2>1, TaskKept DEF NoNewRow
  <2> QED BY <1>19, <2>1, <2>2, RowsCompleteKept, JobsKept
          DEF WellFormed, TasksWellFormed
<1>20. ASSUME NEW j \in Requests, StartJob(j) \/ ClaimJob(j) \/ ReadForAutoCancel(j)
       PROVE  WellFormed'
  <2>1. row' = row /\ UNCHANGED <<pc, task>> /\ job[j].state # "none"
    BY <1>20 DEF StartJob, ClaimJob, ReadForAutoCancel
  <2>2. PICK state : job' = [job EXCEPT ![j].state = state]
    BY <1>20 DEF StartJob, ClaimJob, ReadForAutoCancel, SetJob
  <2>3. \A i \in Requests : job'[i].state = "none" \/
           (job[i].state # "none" /\ job'[i].booking = job[i].booking)
    BY <2>1, <2>2 DEF TypeOK, Job
  <2> QED BY <2>1, <2>3, <1>19, RowsUnchanged
<1>21. ASSUME NEW j \in Requests, WriteAutoCancel(j) PROVE WellFormed'
  <2>1. job[j].booking \in Requests /\ row[job[j].booking].status # "NONE"
    BY <1>21 DEF WriteAutoCancel, WellFormed, JobsWellFormed
  <2>2. NoNewRow
    BY <1>21, <2>1, StatusWriteAddsNoRow DEF WriteAutoCancel, Terminal
  <2>3. \A i \in Requests : job'[i].state = "none" \/
           (job[i].state # "none" /\ job'[i].booking = job[i].booking)
    BY <1>21 DEF WriteAutoCancel, SetJob, TypeOK, Job
  <2> QED BY <1>21, <2>2, <2>3, <1>19 DEF WriteAutoCancel
<1>22. ASSUME NEW j \in Requests, FailJob(j) PROVE WellFormed'
  <2>1. \A i \in Requests : job'[i].state = "none" \/
           (job[i].state # "none" /\ job'[i].booking = job[i].booking)
    BY <1>22 DEF FailJob, WorkerStages, TypeOK, Job
  <2> QED BY <1>22, <2>1, <1>19, RowsUnchanged DEF FailJob
<1>23. ASSUME UNCHANGED <<row, pc, task, job>> PROVE WellFormed'
  BY <1>23, <1>19, <1>d, RowsUnchanged
<1>24. ASSUME NEW m \in Requests, SendReminder(m) PROVE WellFormed'
  BY <1>24, <1>23 DEF SendReminder
<1>25. CASE Tick
  BY <1>25, <1>23 DEF Tick
<1>26. ASSUME NEW p \in Properties, SetListing(p) PROVE WellFormed'
  BY <1>26, <1>23 DEF SetListing
<1>27. CASE UNCHANGED vars
  BY <1>27, <1>23 DEF vars
<1> QED
  BY <1>1, <1>2, <1>3, <1>4, <1>6, <1>7, <1>8, <1>10, <1>11, <1>12, <1>14,
     <1>15, <1>16, <1>17, <1>18, <1>20, <1>21, <1>22, <1>24, <1>25, <1>26, <1>27
  DEF Next, Begin, Continue, Work

\* Type correctness: every variable of the booking component keeps its type, and
\* rows, requests and jobs refer to each other correctly.
THEOREM TypeCorrect == Spec => [](TypeOK /\ WellFormed)
<1>1. Init => WellFormed
  BY DEF Init, WellFormed, RowsComplete, TasksWellFormed, TaskWellFormed,
         JobsWellFormed, NoRow, NoJob, NoTask
<1> QED BY <1>1, InitType, TypeStep, WellFormedStep, PTL DEF Spec

-----------------------------------------------------------------------------
(* No agent is double-booked *)

\* The steps that lead into, or on inside, a transaction.
LEMMA TransactionSteps ==
  ASSUME TypeOK, [Next]_vars, NEW s \in Requests, pc'[s] \in InTransaction
  PROVE  /\ task'[s] = task[s]
         /\ TakeLock(s) \/ CheckAgent(s) \/ CheckBuyer(s) \/ pc'[s] = pc[s]
<1> DEFINE Goal == /\ task'[s] = task[s]
                   /\ TakeLock(s) \/ CheckAgent(s) \/ CheckBuyer(s) \/ pc'[s] = pc[s]
<1> USE DEF InTransaction
<1>1. ASSUME NEW r \in Requests, NEW label, label \notin InTransaction,
             Goto(r, label), task' = task \/ \E t : task' = [task EXCEPT ![r] = t]
      PROVE  Goal
  <2>1. s # r
    BY <1>1 DEF Goto, TypeOK
  <2> QED BY <1>1, <2>1 DEF Goto, TypeOK
<1>2. ASSUME NEW r \in Requests, Finish(r) PROVE Goal
  BY <1>2 DEF Finish, TypeOK
<1>3. ASSUME NEW r \in Requests, TakeLock(r) PROVE Goal
  BY <1>3 DEF TakeLock, Goto, TypeOK
<1>4. ASSUME NEW r \in Requests, CheckAgent(r) PROVE Goal
  BY <1>4 DEF CheckAgent, Goto, TypeOK
<1>5. ASSUME NEW r \in Requests, CheckBuyer(r) PROVE Goal
  BY <1>5 DEF CheckBuyer, Goto, TypeOK
<1>6. ASSUME UNCHANGED <<pc, task>> PROVE Goal
  BY <1>6
<1> HIDE DEF Goal
<1>7. ASSUME NEW r \in Requests, Begin(r) PROVE Goal
  BY <1>7, <1>1 DEF Begin, BeginCreate, BeginReschedule, BeginConfirm, BeginClose, BeginCancel
<1>8. ASSUME NEW r \in Requests, Continue(r) PROVE Goal
  BY <1>8, <1>1, <1>2, <1>3, <1>4, <1>5
  DEF Continue, Conflict, InsertBooking, MoveBooking, WriteConfirmed, WriteClosed,
      WriteCancelled, RemoveAutoCancel, AddAutoCancel, SaveJobId, Remind,
      RecordReminders, DropReminders, DropReminderRows
<1>9. ASSUME NEW r \in Requests, Abort(r) PROVE Goal
  BY <1>9, <1>2 DEF Abort
<1>10. ASSUME NEW j \in Requests, Work(j) \/ FailJob(j) \/ SendReminder(j) PROVE Goal
  <2>1. UNCHANGED <<pc, task>>
    BY <1>10 DEF Work, StartJob, ClaimJob, ReadForAutoCancel, WriteAutoCancel,
                 FailJob, SendReminder
  <2> QED BY <2>1, <1>6
<1>11. ASSUME Tick \/ (\E p \in Properties : SetListing(p)) \/ UNCHANGED vars PROVE Goal
  BY <1>11, <1>6 DEF Tick, SetListing, vars
<1> QED BY <1>7, <1>8, <1>9, <1>10, <1>11 DEF Next, Goal

\* A request that has not committed knows its agent.
LEMMA TaskHasAgent ==
  ASSUME WellFormed, NEW r \in Requests, pc[r] \in BeforeCommit
  PROVE  task[r].agent \in Agents
<1>1. pc[r] \notin {"idle", "done"}
  BY DEF BeforeCommit, InTransaction
<1>2. CASE task[r].op = "create"
  BY <1>1, <1>2 DEF WellFormed, TasksWellFormed, TaskWellFormed
<1>3. CASE task[r].op # "create"
  BY <1>1, <1>3 DEF WellFormed, TasksWellFormed, TaskWellFormed, RowsComplete
<1> QED BY <1>2, <1>3

\* The steps that touch the locks.
LEMMA LockingSteps ==
  ASSUME [Next]_vars
  PROVE  \/ lock' = lock
         \/ \E r \in Requests :
              \/ TakeLock(r)
              \/ Unlock(r) /\ Goto(r, "addJob")
              \/ Unlock(r) /\ Goto(r, "removeJob")
              \/ Unlock(r) /\ Finish(r)
<1> USE DEF queueVars, envVars
<1>1. ASSUME NEW r \in Requests, Begin(r) PROVE lock' = lock
  BY <1>1 DEF Begin, BeginCreate, BeginReschedule, BeginConfirm, BeginClose, BeginCancel
<1>2. ASSUME NEW r \in Requests, Continue(r)
      PROVE  \/ lock' = lock \/ TakeLock(r)
             \/ Unlock(r) /\ (Goto(r, "addJob") \/ Goto(r, "removeJob") \/ Finish(r))
  BY <1>2
  DEF Continue, CheckAgent, CheckBuyer, Conflict, InsertBooking, MoveBooking,
      WriteConfirmed, WriteClosed,
      WriteCancelled, RemoveAutoCancel, AddAutoCancel, SaveJobId, Remind,
      RecordReminders, DropReminders, DropReminderRows
<1>3. ASSUME NEW r \in Requests, Abort(r) PROVE Unlock(r) /\ Finish(r)
  BY <1>3 DEF Abort
<1>4. ASSUME NEW j \in Requests, Work(j) \/ FailJob(j) \/ SendReminder(j)
      PROVE  lock' = lock
  BY <1>4 DEF Work, StartJob, ClaimJob, ReadForAutoCancel, WriteAutoCancel,
              FailJob, SendReminder
<1>5. CASE Tick \/ (\E p \in Properties : SetListing(p)) \/ UNCHANGED vars
  BY <1>5 DEF Tick, SetListing, vars
<1> QED BY <1>1, <1>2, <1>3, <1>4, <1>5 DEF Next

\* A transaction keeps the lock of its agent until it ends.
LEMMA LockStep == TypeOK /\ WellFormed /\ HoldsItsLock /\ [Next]_vars => HoldsItsLock'
<1> SUFFICES ASSUME TypeOK, WellFormed, HoldsItsLock, [Next]_vars,
                    NEW s \in Requests, pc'[s] \in InTransaction
             PROVE  lock'[LockKey[task'[s].agent]] = s
  BY DEF HoldsItsLock
<1> DEFINE key == LockKey[task[s].agent]
<1>1. task'[s] = task[s] /\ (TakeLock(s) \/ CheckAgent(s) \/ CheckBuyer(s) \/ pc'[s] = pc[s])
  BY TransactionSteps
<1>2. pc[s] \in BeforeCommit
  BY <1>1 DEF TakeLock, CheckAgent, CheckBuyer, BeforeCommit, InTransaction
<1>3. key \in LockKeys
  BY <1>2, TaskHasAgent
<1>4. CASE TakeLock(s)
  BY <1>1, <1>3, <1>4 DEF TakeLock, TypeOK
<1>5. CASE lock[key] = s
  <2>1. ASSUME NEW r \in Requests, TakeLock(r) PROVE lock'[key] = s
    BY <2>1, <1>3, <1>5 DEF TakeLock, TypeOK
  <2>2. ASSUME NEW r \in Requests, Unlock(r), r # s PROVE lock'[key] = s
    BY <2>2, <1>3, <1>5 DEF Unlock
  <2>3. ASSUME NEW r \in Requests,
               Goto(r, "addJob") \/ Goto(r, "removeJob") \/ Finish(r)
        PROVE  r # s
    BY <2>3 DEF Goto, Finish, InTransaction, TypeOK
  <2>4. \/ lock' = lock
        \/ \E r \in Requests :
              TakeLock(r) \/ (Unlock(r) /\ (Goto(r, "addJob") \/ Goto(r, "removeJob") \/ Finish(r)))
    BY LockingSteps
  <2> QED BY <1>1, <1>5, <2>1, <2>2, <2>3, <2>4
<1>6. TakeLock(s) \/ lock[key] = s
  BY <1>1 DEF CheckAgent, CheckBuyer, HoldsItsLock, InTransaction
<1>7. lock'[key] = s
  BY <1>1, <1>4, <1>5, <1>6
<1>8. LockKey[task'[s].agent] = key
  BY <1>1
<1> QED BY <1>7, <1>8

\* No booking takes a slot: what is held afterwards was held, at the same times.
CalendarKept ==
  \A b \in Held' : /\ b \in Held
                   /\ row'[b].start = row[b].start /\ row'[b].end = row[b].end
                   /\ row'[b].agent = row[b].agent /\ row'[b].buyer = row[b].buyer

\* A status write takes no slot if it ends its booking, or makes one that was
\* there live: one that has ended stays out of Held.
LEMMA StatusWriteKeepsCalendar ==
  ASSUME TypeOK, EndedIsHistory, NEW c \in Requests, row[c].status # "NONE",
         NEW s \in Live \cup Terminal, row' = [row EXCEPT ![c].status = s],
         \/ s \in Live /\ ended' = ended
         \/ s \in Terminal /\ ended' = ended \cup {c}
  PROVE  CalendarKept /\ EndedIsHistory'
<1>1. /\ row'[c].status = s
      /\ row'[c].start = row[c].start /\ row'[c].end = row[c].end
      /\ row'[c].agent = row[c].agent /\ row'[c].buyer = row[c].buyer
      /\ \A b \in Requests \ {c} : row'[b] = row[b]
  BY DEF TypeOK, Row
<1>2. c \notin ended => row[c].status \in Live
  BY DEF TypeOK, Row, Status, EndedIsHistory
<1>3. CalendarKept
  BY <1>1, <1>2 DEF CalendarKept, Held, LiveBookings, Live, Terminal
<1>4. EndedIsHistory'
  BY <1>1 DEF EndedIsHistory, Live, Terminal
<1> QED BY <1>3, <1>4

LEMMA SameRowsKeepCalendar ==
  ASSUME EndedIsHistory, row' = row, ended' = ended
  PROVE  CalendarKept /\ EndedIsHistory'
BY DEF CalendarKept, Held, LiveBookings, EndedIsHistory

\* Only the two transactions take slots.
LEMMA CalendarSteps ==
  ASSUME TypeOK, WellFormed, EndedIsHistory, [Next]_vars
  PROVE  /\ EndedIsHistory'
         /\ CalendarKept \/ \E r \in Requests : InsertBooking(r) \/ MoveBooking(r)
<1> DEFINE Kept == CalendarKept /\ EndedIsHistory'
<1>t. ASSUME NEW r \in Requests, pc[r] = "write"
      PROVE  task[r].booking \in Requests /\ row[task[r].booking].status # "NONE"
  BY <1>t DEF WellFormed, TasksWellFormed, TaskWellFormed, BeforeCommit, InTransaction
<1>1. ASSUME UNCHANGED <<row, ended>> PROVE Kept
  BY <1>1, SameRowsKeepCalendar
<1>2. ASSUME NEW r \in Requests, Begin(r) PROVE Kept
  BY <1>2, <1>1 DEF Begin, BeginCreate, BeginReschedule, BeginConfirm, BeginClose, BeginCancel
<1>3. ASSUME NEW r \in Requests, InsertBooking(r) PROVE EndedIsHistory'
  <2>1. row'[r].status = "PENDING" /\ \A b \in Requests \ {r} : row'[b] = row[b]
    BY <1>3 DEF InsertBooking, TypeOK
  <2> QED BY <1>3, <2>1 DEF InsertBooking, EndedIsHistory, Terminal
<1>4. ASSUME NEW r \in Requests, MoveBooking(r) PROVE EndedIsHistory'
  <2>1. task[r].booking \in Requests
    BY <1>4 DEF MoveBooking, WellFormed, TasksWellFormed, TaskWellFormed
  <2> QED BY <1>4, <2>1, MovePersists DEF MoveBooking, EndedIsHistory
<1>5. ASSUME NEW r \in Requests, WriteConfirmed(r) PROVE Kept
  BY <1>5, <1>t, StatusWriteKeepsCalendar DEF WriteConfirmed, Live
<1>6. ASSUME NEW r \in Requests, WriteClosed(r) PROVE Kept
  BY <1>6, <1>t, StatusWriteKeepsCalendar DEF WriteClosed, Terminal
<1>7. ASSUME NEW r \in Requests, WriteCancelled(r) PROVE Kept
  BY <1>7, <1>t, StatusWriteKeepsCalendar DEF WriteCancelled, Terminal
<1>8. ASSUME NEW r \in Requests, SaveJobId(r) PROVE Kept
  <2>1. task[r].booking \in Requests
    BY <1>8 DEF SaveJobId, WellFormed, TasksWellFormed, TaskWellFormed
  <2>2. \A b \in Requests :
          /\ row'[b].status = row[b].status
          /\ row'[b].start = row[b].start /\ row'[b].end = row[b].end
          /\ row'[b].agent = row[b].agent /\ row'[b].buyer = row[b].buyer
    BY <1>8, <2>1 DEF SaveJobId, TypeOK, Row
  <2> QED BY <1>8, <2>2
          DEF SaveJobId, CalendarKept, Held, LiveBookings, EndedIsHistory
<1>9. ASSUME NEW r \in Requests,
             \/ TakeLock(r) \/ CheckAgent(r) \/ CheckBuyer(r) \/ Conflict(r)
             \/ RemoveAutoCancel(r) \/ AddAutoCancel(r) \/ Remind(r)
             \/ RecordReminders(r) \/ DropReminders(r) \/ DropReminderRows(r)
             \/ Abort(r)
      PROVE  Kept
  BY <1>9, <1>1 DEF TakeLock, CheckAgent, CheckBuyer, Conflict, RemoveAutoCancel,
     AddAutoCancel, Remind, RecordReminders, DropReminders, DropReminderRows, Abort
<1>10. ASSUME NEW j \in Requests, WriteAutoCancel(j) PROVE Kept
  <2>1. job[j].booking \in Requests /\ row[job[j].booking].status # "NONE"
    BY <1>10 DEF WriteAutoCancel, WellFormed, JobsWellFormed
  <2> QED BY <1>10, <2>1, StatusWriteKeepsCalendar DEF WriteAutoCancel, Terminal
<1>11. ASSUME NEW j \in Requests, \/ StartJob(j) \/ ClaimJob(j) \/ ReadForAutoCancel(j)
                                  \/ FailJob(j) \/ SendReminder(j)
       PROVE  Kept
  BY <1>11, <1>1 DEF StartJob, ClaimJob, ReadForAutoCancel, FailJob, SendReminder
<1>12. ASSUME Tick \/ (\E p \in Properties : SetListing(p)) \/ UNCHANGED vars PROVE Kept
  BY <1>12, <1>1 DEF Tick, SetListing, vars
<1>13. \/ Kept
       \/ EndedIsHistory' /\ \E r \in Requests : InsertBooking(r) \/ MoveBooking(r)
  <2> HIDE DEF Kept
  <2> QED BY <1>2, <1>3, <1>4, <1>5, <1>6, <1>7, <1>8, <1>9, <1>10, <1>11, <1>12
          DEF Next, Continue, Work
<1> QED BY <1>13

LEMMA InvGivesTypes ==
  ASSUME TypeOK
  PROVE  /\ \A b \in Requests : row[b].start \in Nat /\ row[b].end \in Nat
         /\ \A r \in Requests : task[r].start \in Nat /\ task[r].end \in Nat
BY DEF TypeOK, Row, Task

\* A step that takes no slot keeps the calendar.
LEMMA KeptStep ==
  ASSUME CalendarInv, [Next]_vars, CalendarKept
  PROVE  CheckedSlotIsFree' /\ AgentNeverDoubleBooked' /\ BuyerNeverDoubleBookedBehindOneLock'
<1> USE DEF CalendarInv, CalendarKept
<1>1. AgentNeverDoubleBooked'
  BY DEF AgentNeverDoubleBooked, Overlap
<1>2. BuyerNeverDoubleBookedBehindOneLock'
  BY DEF BuyerNeverDoubleBookedBehindOneLock, Overlap
<1>3. ASSUME NEW r \in Requests, NEW b \in Held',
             pc'[r] \in {"buyerCheck", "commit"}, Overlap(row'[b], task'[r])
      PROVE  /\ row'[b].agent # task'[r].agent
             /\ pc'[r] = "commit" =>
                  \/ row'[b].buyer # task'[r].buyer
                  \/ LockKey[row'[b].agent] # LockKey[task'[r].agent]
  <2>1. /\ task'[r] = task[r]
        /\ TakeLock(r) \/ CheckAgent(r) \/ CheckBuyer(r) \/ pc'[r] = pc[r]
    BY <1>3, TransactionSteps DEF InTransaction
  <2>2. b \in Held /\ b \in Requests /\ row[b].status \in Live
    BY DEF Held, LiveBookings
  <2>3. Overlap(row[b], task[r])
    BY <1>3, <2>1 DEF Overlap
  <2>4. CASE TakeLock(r)
    BY <1>3, <2>4 DEF TakeLock, Goto, TypeOK
  <2>5. CASE CheckAgent(r)
    <3>1. pc'[r] = "buyerCheck"
      BY <2>5 DEF CheckAgent, Goto, TypeOK
    <3>2. row[b].agent # task[r].agent
      BY <2>2, <2>3, <2>5 DEF CheckAgent, AgentConflict, LiveBookings
    <3> QED BY <2>1, <2>2, <3>1, <3>2
  <2>6. CASE CheckBuyer(r)
    <3>1. row[b].buyer # task[r].buyer
      BY <2>2, <2>3, <2>6 DEF CheckBuyer, BuyerConflict, LiveBookings
    <3>2. row[b].agent # task[r].agent
      BY <2>2, <2>3, <2>6 DEF CheckBuyer, CheckedSlotIsFree
    <3> QED BY <2>1, <2>2, <3>1, <3>2
  <2>7. CASE pc'[r] = pc[r]
    BY <1>3, <2>1, <2>2, <2>3, <2>7 DEF CheckedSlotIsFree
  <2> QED BY <2>1, <2>4, <2>5, <2>6, <2>7
<1>4. CheckedSlotIsFree'
  BY <1>3 DEF CheckedSlotIsFree
<1> QED BY <1>1, <1>2, <1>4

\* A commit puts one booking where its transaction has looked, and the locks
\* keep every other transaction out of that agent's calendar.
LEMMA CommitStep ==
  ASSUME CalendarInv, NEW r \in Requests, NEW c \in Requests,
         pc[r] = "commit", pc'[r] \notin InTransaction,
         \A s \in Requests \ {r} : pc'[s] = pc[s] /\ task'[s] = task[s],
         \A b \in Requests \ {c} : row'[b] = row[b],
         row'[c].start = task[r].start, row'[c].end = task[r].end,
         row'[c].agent = task[r].agent, row'[c].buyer = task[r].buyer,
         Held' \subseteq Held \cup {c}
  PROVE  CheckedSlotIsFree' /\ AgentNeverDoubleBooked' /\ BuyerNeverDoubleBookedBehindOneLock'
<1> USE DEF CalendarInv, InTransaction
<1>1. ASSUME NEW b \in Held
      PROVE  \/ ~ Overlap(row[b], task[r])
             \/ /\ row[b].agent # task[r].agent
                /\ \/ row[b].buyer # task[r].buyer
                   \/ LockKey[row[b].agent] # LockKey[task[r].agent]
  BY DEF CheckedSlotIsFree
<1>2. \A b \in Held : b \in Requests
  BY DEF Held, LiveBookings
<1>3. \A b \in Requests : Overlap(row[b], task[r]) <=> Overlap(row'[c], row[b])
  BY InvGivesTypes DEF Overlap
<1>4. \A b \in Requests : Overlap(row[b], task[r]) <=> Overlap(row[b], row'[c])
  BY InvGivesTypes DEF Overlap
<1>5. AgentNeverDoubleBooked'
  BY <1>1, <1>2, <1>3, <1>4 DEF AgentNeverDoubleBooked
<1>6. BuyerNeverDoubleBookedBehindOneLock'
  BY <1>1, <1>2, <1>3, <1>4 DEF BuyerNeverDoubleBookedBehindOneLock
<1>7. ASSUME NEW s \in Requests \ {r}, pc[s] \in InTransaction
      PROVE  LockKey[task[s].agent] # LockKey[task[r].agent]
  BY <1>7 DEF HoldsItsLock
<1>8. CheckedSlotIsFree'
  <2> SUFFICES ASSUME NEW s \in Requests, NEW b \in Held',
                      pc'[s] \in {"buyerCheck", "commit"}, Overlap(row'[b], task'[s])
               PROVE  /\ row'[b].agent # task'[s].agent
                      /\ pc'[s] = "commit" =>
                           \/ row'[b].buyer # task'[s].buyer
                           \/ LockKey[row'[b].agent] # LockKey[task'[s].agent]
    BY DEF CheckedSlotIsFree
  <2>1. s # r /\ pc'[s] = pc[s] /\ task'[s] = task[s]
    OBVIOUS
  <2>2. CASE b = c
    BY <1>7, <2>1, <2>2
  <2>3. CASE b # c
    BY <1>2, <2>1, <2>3 DEF CheckedSlotIsFree
  <2> QED BY <2>2, <2>3
<1> QED BY <1>5, <1>6, <1>8

LEMMA InsertStep ==
  ASSUME CalendarInv, NEW r \in Requests, InsertBooking(r)
  PROVE  CheckedSlotIsFree' /\ AgentNeverDoubleBooked' /\ BuyerNeverDoubleBookedBehindOneLock'
<1>1. /\ pc[r] = "commit" /\ task' = task /\ pc' = [pc EXCEPT ![r] = "addJob"]
      /\ ended' = ended
  BY DEF InsertBooking, Goto
<1>2. /\ \A b \in Requests \ {r} : row'[b] = row[b]
      /\ row'[r].start = task[r].start /\ row'[r].end = task[r].end
      /\ row'[r].agent = task[r].agent /\ row'[r].buyer = task[r].buyer
  BY DEF InsertBooking, CalendarInv, TypeOK
<1>3. Held' \subseteq Held \cup {r}
  BY <1>1, <1>2 DEF Held, LiveBookings
<1>4. /\ pc'[r] \notin InTransaction
      /\ \A s \in Requests \ {r} : pc'[s] = pc[s] /\ task'[s] = task[s]
  BY <1>1 DEF CalendarInv, TypeOK, InTransaction
<1> QED BY <1>1, <1>2, <1>3, <1>4, CommitStep

LEMMA MoveStep ==
  ASSUME CalendarInv, NEW r \in Requests, MoveBooking(r)
  PROVE  CheckedSlotIsFree' /\ AgentNeverDoubleBooked' /\ BuyerNeverDoubleBookedBehindOneLock'
<1> DEFINE c == task[r].booking
<1>1. /\ pc[r] = "commit" /\ task[r].op = "reschedule"
      /\ task' = task /\ pc' = [pc EXCEPT ![r] = "removeJob"]
      /\ ended' = ended /\ row' = [row EXCEPT ![c] = Moved(c, r)]
  BY DEF MoveBooking, Goto
<1>2. /\ c \in Requests /\ row[c].status # "NONE"
      /\ row[c].agent = task[r].agent /\ row[c].buyer = task[r].buyer
  BY <1>1 DEF CalendarInv, WellFormed, TasksWellFormed, TaskWellFormed
<1>3. /\ \A b \in Requests \ {c} : row'[b] = row[b]
      /\ row'[c].start = task[r].start /\ row'[c].end = task[r].end
      /\ row'[c].agent = task[r].agent /\ row'[c].buyer = task[r].buyer
      /\ row'[c].status = row[c].status
  BY <1>1, <1>2 DEF Moved, CalendarInv, TypeOK
<1>4. Held' \subseteq Held \cup {c}
  BY <1>1, <1>3 DEF Held, LiveBookings
<1>5. /\ pc'[r] \notin InTransaction
      /\ \A s \in Requests \ {r} : pc'[s] = pc[s] /\ task'[s] = task[s]
  BY <1>1 DEF CalendarInv, TypeOK, InTransaction
<1> HIDE DEF c
<1> QED BY <1>1, <1>2, <1>3, <1>4, <1>5, CommitStep

LEMMA CalendarStep == CalendarInv /\ [Next]_vars => CalendarInv'
<1> SUFFICES ASSUME CalendarInv, [Next]_vars PROVE CalendarInv'
  OBVIOUS
<1>1. TypeOK' /\ WellFormed' /\ HoldsItsLock'
  BY TypeStep, WellFormedStep, LockStep DEF CalendarInv
<1>2. /\ EndedIsHistory'
      /\ CalendarKept \/ \E r \in Requests : InsertBooking(r) \/ MoveBooking(r)
  BY CalendarSteps DEF CalendarInv
<1>3. CheckedSlotIsFree' /\ AgentNeverDoubleBooked' /\ BuyerNeverDoubleBookedBehindOneLock'
  BY <1>2, KeptStep, InsertStep, MoveStep
<1> QED BY <1>1, <1>2, <1>3 DEF CalendarInv

LEMMA CalendarInit == Init => CalendarInv
<1> SUFFICES ASSUME Init PROVE CalendarInv
  OBVIOUS
<1>1. TypeOK /\ WellFormed
  BY InitType DEF Init, WellFormed, RowsComplete, TasksWellFormed, TaskWellFormed,
         JobsWellFormed, NoRow, NoJob, NoTask
<1>2. \A b \in Requests : row[b].status = "NONE"
  BY DEF Init, NoRow
<1>3. Held = {} /\ EndedIsHistory
  BY <1>2 DEF Held, LiveBookings, Live, Terminal, EndedIsHistory
<1>4. HoldsItsLock
  BY DEF Init, HoldsItsLock, InTransaction
<1> QED BY <1>1, <1>3, <1>4 DEF CalendarInv, CheckedSlotIsFree,
        AgentNeverDoubleBooked, BuyerNeverDoubleBookedBehindOneLock

\* createBookingWithLock and updateBookingWithLock keep the calendar of every
\* agent free of overlaps, with any number of requests, crashes and faults and
\* any assignment of lock keys, as long as no booking that was over is revived.
THEOREM CalendarSafe == Spec => []CalendarInv
BY CalendarInit, CalendarStep, PTL DEF Spec

\* No two bookings that hold a slot of one agent overlap: the statement that the
\* bookings_core run checks, for any number of requests, agents and listings.
THEOREM AgentSafe == Spec => []AgentNeverDoubleBooked
<1>1. CalendarInv => AgentNeverDoubleBooked
  BY DEF CalendarInv
<1> QED BY <1>1, CalendarSafe, PTL

\* The buyer's half of the conflict check covers the agents behind one lock.
THEOREM BuyerSafe == Spec => []BuyerNeverDoubleBookedBehindOneLock
<1>1. CalendarInv => BuyerNeverDoubleBookedBehindOneLock
  BY DEF CalendarInv
<1> QED BY <1>1, CalendarSafe, PTL

-----------------------------------------------------------------------------
(* The booking component implements the abstract calendar *)

\* The reservation of booking b.
Slot(b) == [booking |-> b, agent |-> row[b].agent,
            start |-> row[b].start, end |-> row[b].end]

\* What a transaction may write is a reservation that clashes with none.
LEMMA CheckedSlot ==
  ASSUME CalendarInv, NEW r \in Requests, pc[r] = "commit", NEW c \in Requests,
         NEW x, x = [booking |-> c, agent |-> task[r].agent,
                     start |-> task[r].start, end |-> task[r].end]
  PROVE  x \in Calendar!Reservation /\ \A b \in Held : ~ Calendar!Clash(x, Slot(b))
<1> USE DEF CalendarInv
<1>1. task[r].agent \in Agents /\ task[r].start \in Nat /\ task[r].end \in Nat
  BY TaskHasAgent, InvGivesTypes DEF BeforeCommit, InTransaction
<1>2. x \in Calendar!Reservation
  BY <1>1 DEF Calendar!Reservation
<1>3. ASSUME NEW b \in Held PROVE ~ Calendar!Clash(x, Slot(b))
  <2>1. ~ Overlap(row[b], task[r]) \/ row[b].agent # task[r].agent
    BY <1>3 DEF CheckedSlotIsFree
  <2>2. row[b].start \in Nat /\ row[b].end \in Nat
    BY InvGivesTypes DEF Held, LiveBookings
  <2> QED BY <1>1, <2>1, <2>2 DEF Overlap, Calendar!Clash, Calendar!Overlap, Slot
<1> QED BY <1>2, <1>3

\* A step that takes no slot releases some reservations, or none.
LEMMA KeptReleases ==
  ASSUME CalendarKept
  PROVE  Calendar!Release
BY DEF CalendarKept, Calendar!Release, Reservations

\* An insertion reserves the slot it has checked.
LEMMA InsertReserves ==
  ASSUME CalendarInv, NEW r \in Requests, InsertBooking(r)
  PROVE  Calendar!Next
<1> DEFINE new == [booking |-> r, agent |-> task[r].agent,
                   start |-> task[r].start, end |-> task[r].end]
<1>1. /\ \A b \in Requests \ {r} : row'[b] = row[b]
      /\ row'[r].start = task[r].start /\ row'[r].end = task[r].end
      /\ row'[r].agent = task[r].agent /\ row'[r].status = "PENDING"
      /\ ended' = ended /\ pc[r] = "commit"
  BY DEF InsertBooking, CalendarInv, TypeOK
<1>2. r \notin Held
  <2>1. row[r].status = "NONE"
    BY <1>1 DEF InsertBooking, CalendarInv, WellFormed, TasksWellFormed,
                TaskWellFormed, BeforeCommit, InTransaction
  <2> QED BY <2>1 DEF Held, LiveBookings, Live
<1>3. Held' = Held \/ Held' = Held \cup {r}
  BY <1>1, <1>2 DEF Held, LiveBookings, Live
<1>4. CASE Held' = Held
  <2>1. Calendar!Release
    BY <1>1, <1>2, <1>4 DEF Calendar!Release, Reservations, Held, LiveBookings
  <2> QED BY <2>1 DEF Calendar!Next
<1>5. CASE Held' = Held \cup {r}
  <2>1. Reservations' = Reservations \cup {new}
    BY <1>1, <1>2, <1>5 DEF Reservations, Held, LiveBookings
  <2>2. new \in Calendar!Reservation /\ \A b \in Held : ~ Calendar!Clash(new, Slot(b))
    BY <1>1, CheckedSlot
  <2>3. \A y \in Reservations : y.booking # new.booking /\ ~ Calendar!Clash(new, y)
    BY <1>2, <2>2 DEF Reservations, Slot
  <2>4. Calendar!Reserve(new)
    BY <2>1, <2>3 DEF Calendar!Reserve
  <2> QED BY <2>1, <2>2, <2>4 DEF Calendar!Next
<1> QED BY <1>3, <1>4, <1>5

\* A reschedule moves the reservation to the slot it has checked; when its
\* booking is over by then, the calendar does not change.
LEMMA MoveMoves ==
  ASSUME CalendarInv, NEW r \in Requests, MoveBooking(r)
  PROVE  Calendar!Next
<1> DEFINE c == task[r].booking
           new == [booking |-> c, agent |-> task[r].agent,
                   start |-> task[r].start, end |-> task[r].end]
<1>1. /\ pc[r] = "commit" /\ task[r].op = "reschedule" /\ ended' = ended
      /\ row' = [row EXCEPT ![c] = Moved(c, r)]
  BY DEF MoveBooking
<1>2. c \in Requests /\ row[c].agent = task[r].agent
  BY <1>1 DEF CalendarInv, WellFormed, TasksWellFormed, TaskWellFormed
<1>3. /\ \A b \in Requests \ {c} : row'[b] = row[b]
      /\ row'[c].start = task[r].start /\ row'[c].end = task[r].end
      /\ row'[c].agent = task[r].agent /\ row'[c].status = row[c].status
  BY <1>1, <1>2 DEF Moved, CalendarInv, TypeOK
<1>4. Held' = Held
  BY <1>1, <1>3 DEF Held, LiveBookings
<1>5. new \in Calendar!Reservation /\ \A b \in Held : ~ Calendar!Clash(new, Slot(b))
  BY <1>1, <1>2, CheckedSlot
<1> HIDE DEF c
<1>6. CASE c \notin Held
  <2>1. Calendar!Release
    BY <1>3, <1>4, <1>6 DEF Calendar!Release, Reservations, Held, LiveBookings
  <2> QED BY <2>1 DEF Calendar!Next
<1>7. CASE c \in Held
  <2>1. Slot(c) \in Reservations
    BY <1>7 DEF Reservations, Slot
  <2>2. Reservations' = (Reservations \ {Slot(c)}) \cup {new}
    BY <1>3, <1>4, <1>7 DEF Reservations, Slot, Held, LiveBookings
  <2>3. \A y \in Reservations : ~ Calendar!Clash(new, y)
    BY <1>5 DEF Reservations, Slot
  <2>4. new.booking = Slot(c).booking /\ new.agent = Slot(c).agent
    BY <1>2 DEF Slot
  <2>5. Calendar!Move(Slot(c), new)
    BY <2>2, <2>3, <2>4 DEF Calendar!Move
  <2> QED BY <1>5, <2>1, <2>2, <2>5 DEF Calendar!Next
<1> QED BY <1>6, <1>7

\* The two locked transactions, the blind status writes, the worker and every
\* fault together look to an agent like the abstract calendar: a slot is taken
\* or moved in one step, and only when nobody else has it.
THEOREM Refinement == Spec => ImplementsCalendar
<1>1. Init => Calendar!Init
  <2> SUFFICES ASSUME Init PROVE Calendar!Init
    OBVIOUS
  <2>1. \A b \in Requests : row[b].status = "NONE"
    BY DEF Init, NoRow
  <2> QED BY <2>1 DEF Calendar!Init, Reservations, Held, LiveBookings, Live
<1>2. CalendarInv /\ [Next]_vars => [Calendar!Next]_Reservations
  <2> SUFFICES ASSUME CalendarInv, [Next]_vars PROVE Calendar!Next
    OBVIOUS
  <2>1. CalendarKept \/ \E r \in Requests : InsertBooking(r) \/ MoveBooking(r)
    BY CalendarSteps DEF CalendarInv
  <2>2. Calendar!Release => Calendar!Next
    BY DEF Calendar!Next
  <2> QED BY <2>1, <2>2, KeptReleases, InsertReserves, MoveMoves
<1> QED BY <1>1, <1>2, CalendarSafe, PTL DEF Spec, ImplementsCalendar, Calendar!Spec

CalendarHolds == Calendar!TypeOK /\ Calendar!Exclusive /\ Calendar!OneEach

\* The abstract calendar keeps its promise: no two reservations in force claim one
\* agent at the same time, and no booking has two.
LEMMA CalendarIsSafe == Calendar!Spec => []CalendarHolds
<1>1. Calendar!Init => CalendarHolds
  BY DEF CalendarHolds, Calendar!Init, Calendar!TypeOK, Calendar!Exclusive,
         Calendar!OneEach
<1>2. CalendarHolds /\ [Calendar!Next]_Reservations => CalendarHolds'
  <2> SUFFICES ASSUME CalendarHolds, [Calendar!Next]_Reservations PROVE CalendarHolds'
    OBVIOUS
  <2> USE DEF CalendarHolds, Calendar!TypeOK, Calendar!Exclusive, Calendar!OneEach
  <2>1. ASSUME NEW x \in Reservations' \cap Calendar!Reservation, Calendar!Reserve(x)
        PROVE  CalendarHolds'
    BY <2>1 DEF Calendar!Reserve, Calendar!Clash, Calendar!Overlap, Calendar!Reservation
  <2>2. ASSUME NEW old \in Reservations, NEW new \in Reservations' \cap Calendar!Reservation,
               Calendar!Move(old, new)
        PROVE  CalendarHolds'
    BY <2>2 DEF Calendar!Move, Calendar!Clash, Calendar!Overlap, Calendar!Reservation
  <2>3. CASE Calendar!Release
    BY <2>3 DEF Calendar!Release
  <2>4. CASE UNCHANGED Reservations
    BY <2>4
  <2> QED BY <2>1, <2>2, <2>3, <2>4 DEF Calendar!Next
<1> QED BY <1>1, <1>2, PTL DEF Calendar!Spec

\* The calendar's promise, inherited through the refinement: this is what the
\* conflict queries of createBookingWithLock and updateBookingWithLock are for.
THEOREM CalendarPromise == Spec => [](Calendar!Exclusive /\ Calendar!OneEach)
<1>1. CalendarHolds => Calendar!Exclusive /\ Calendar!OneEach
  BY DEF CalendarHolds
<1> QED BY <1>1, Refinement, CalendarIsSafe, PTL DEF ImplementsCalendar

-----------------------------------------------------------------------------
(* Auto-cancel jobs and reminders stay with their bookings *)

\* A request adds one job, after its commit; ids on record are those of jobs
\* that were saved, and of the booking they are recorded for.
JobsKnown ==
  /\ \A r \in Requests : job[r].state # "none" => pc[r] \in {"saveJob", "done"}
  /\ \A j \in claimed : job[j].state # "none"
  /\ \A b \in Requests : row[b].job # Unset =>
       /\ row[b].job \in Requests /\ pc[row[b].job] = "done"
       /\ job[row[b].job].state # "none" /\ job[row[b].job].booking = b
  /\ \A r \in Requests : task[r].job # Unset =>
       /\ task[r].job \in Requests /\ pc[task[r].job] = "done"
       /\ job[task[r].job].state # "none"
       /\ job[task[r].job].booking = task[r].booking
  /\ \A r \in Requests : pc[r] = "saveJob" =>
       job[r].state # "none" /\ job[r].booking = task[r].booking

\* Only a reschedule removes the job of a booking that may still be pending.
OpsKnown ==
  \A r \in Requests :
    /\ pc[r] \in {"addJob", "saveJob"} => task[r].op \in {"create", "reschedule"}
    /\ pc[r] = "removeJob" =>
         task[r].op = "reschedule" \/ row[task[r].booking].status # "PENDING"
    /\ pc[r] \in {"dropMail", "dropRows"} => task[r].booking \in ended

MailsKnown ==
  \A m \in Requests : mail[m].state # "none" =>
    mail[m].booking \in Requests /\ row[mail[m].booking].status # "NONE"

\* What every step does to jobs and their ids but the two that add and save one.
Quietly ==
  /\ \A j \in Requests : /\ job'[j].booking = job[j].booking
                         /\ job'[j].state = "none" <=> job[j].state = "none"
  /\ claimed' \subseteq claimed \cup {j \in Requests : job[j].state # "none"}
  /\ \A b \in Requests : row'[b].job = row[b].job \/ row'[b].job = Unset
  /\ \A r \in Requests :
       /\ pc[r] = "done" => pc'[r] = "done"
       /\ pc[r] = "saveJob" => pc'[r] \in {"saveJob", "done"}
       /\ pc'[r] = "saveJob" => pc[r] = "saveJob" /\ task'[r].booking = task[r].booking
       /\ \/ task'[r].job = Unset
          \/ task'[r].job = task[r].job /\ task'[r].booking = task[r].booking
          \/ task'[r].booking \in Requests /\ task'[r].job = row[task'[r].booking].job

LEMMA QuietSteps ==
  ASSUME TypeOK, WellFormed, [Next]_vars
  PROVE  Quietly \/ \E r \in Requests : AddAutoCancel(r) \/ SaveJobId(r)
<1> USE DEF TypeOK, Quietly, queueVars, envVars, Goto, Finish, NoTask
<1>t. \A r \in Requests : pc[r] \notin {"idle", "done"} => task[r].booking \in Requests
  BY DEF WellFormed, TasksWellFormed, TaskWellFormed
<1>1. ASSUME NEW r \in Requests, BeginCreate(r) PROVE Quietly
  BY <1>1 DEF BeginCreate, Asked
<1>2. ASSUME NEW r \in Requests, BeginReschedule(r) PROVE Quietly
  BY <1>2 DEF BeginReschedule, AskedToMove
<1>3. ASSUME NEW r \in Requests, BeginConfirm(r) \/ BeginClose(r) PROVE Quietly
  BY <1>3 DEF BeginConfirm, BeginClose, Seen
<1>4. ASSUME NEW r \in Requests, BeginCancel(r) PROVE Quietly
  <2>1. PICK b \in LiveBookings, ms \in SUBSET Requests :
          task' = [task EXCEPT ![r] = Seen("cancel", b, ms)]
    BY <1>4 DEF BeginCancel
  <2>2. task'[r].booking = b /\ task'[r].job = row[b].job /\ b \in Requests
    BY <2>1 DEF Seen, LiveBookings
  <2>3. \A s \in Requests \ {r} : task'[s] = task[s]
    BY <2>1
  <2> QED BY <1>4, <2>2, <2>3 DEF BeginCancel
<1>5. ASSUME NEW r \in Requests, TakeLock(r) \/ CheckAgent(r) \/ CheckBuyer(r) \/ Conflict(r)
      PROVE  Quietly
  BY <1>5 DEF TakeLock, CheckAgent, CheckBuyer, Conflict
<1>6. ASSUME NEW r \in Requests, InsertBooking(r) PROVE Quietly
  BY <1>6 DEF InsertBooking
<1>7. ASSUME NEW r \in Requests, MoveBooking(r) PROVE Quietly
  BY <1>7, <1>t DEF MoveBooking, Moved
<1>8. ASSUME NEW r \in Requests, WriteConfirmed(r) \/ WriteClosed(r) PROVE Quietly
  BY <1>8, <1>t DEF WriteConfirmed, WriteClosed, Row
<1>9. ASSUME NEW r \in Requests, WriteCancelled(r) PROVE Quietly
  BY <1>9, <1>t DEF WriteCancelled, Row
<1>10. ASSUME NEW r \in Requests, RemoveAutoCancel(r) PROVE Quietly
  BY <1>10 DEF RemoveAutoCancel, Job
<1>11. ASSUME NEW r \in Requests,
             Remind(r) \/ RecordReminders(r) \/ DropReminders(r) \/ DropReminderRows(r)
       PROVE  Quietly
  BY <1>11 DEF Remind, RecordReminders, DropReminders, DropReminderRows
<1>12. ASSUME NEW r \in Requests, Abort(r) PROVE Quietly
  BY <1>12 DEF Abort
<1>13. ASSUME NEW j \in Requests, StartJob(j) \/ ClaimJob(j) \/ ReadForAutoCancel(j)
       PROVE  Quietly
  BY <1>13 DEF StartJob, ClaimJob, ReadForAutoCancel, SetJob, Job
<1>14. ASSUME NEW j \in Requests, WriteAutoCancel(j) PROVE Quietly
  BY <1>14 DEF WriteAutoCancel, SetJob, Job, Row
<1>15. ASSUME NEW j \in Requests, FailJob(j) PROVE Quietly
  <2>1. job' = [job EXCEPT ![j] = job'[j]] /\ job'[j].booking = job[j].booking
        /\ job'[j].state # "none" /\ job[j].state # "none"
    BY <1>15 DEF FailJob, Job, WorkerStages
  <2> QED BY <1>15, <2>1 DEF FailJob
<1>16. ASSUME NEW j \in Requests, SendReminder(j) PROVE Quietly
  BY <1>16 DEF SendReminder
<1>17. CASE Tick \/ (\E p \in Properties : SetListing(p)) \/ UNCHANGED vars
  BY <1>17 DEF Tick, SetListing, vars
<1> QED
  <2> HIDE DEF TypeOK, Quietly
  <2> QED BY <1>1, <1>2, <1>3, <1>4, <1>5, <1>6, <1>7, <1>8, <1>9, <1>10, <1>11, <1>12,
             <1>13, <1>14, <1>15, <1>16, <1>17 DEF Next, Begin, Continue, Work

LEMMA QuietKeepsJobs ==
  ASSUME TypeOK, JobsKnown, Quietly
  PROVE  JobsKnown'
<1>1. \A r \in Requests : job'[r].state # "none" => pc'[r] \in {"saveJob", "done"}
  BY DEF JobsKnown, Quietly
<1>2. \A j \in claimed' : job'[j].state # "none"
  BY DEF TypeOK, JobsKnown, Quietly
<1>3. \A j \in Requests :
        pc[j] = "done" /\ job[j].state # "none" =>
          /\ pc'[j] = "done" /\ job'[j].state # "none"
          /\ job'[j].booking = job[j].booking
  BY DEF Quietly
<1>4. \A b \in Requests : row'[b].job # Unset =>
       /\ row'[b].job \in Requests /\ pc'[row'[b].job] = "done"
       /\ job'[row'[b].job].state # "none" /\ job'[row'[b].job].booking = b
  BY <1>3 DEF JobsKnown, Quietly
<1>5. ASSUME NEW r \in Requests, task'[r].job # Unset
      PROVE  /\ task'[r].job \in Requests /\ pc'[task'[r].job] = "done"
             /\ job'[task'[r].job].state # "none"
             /\ job'[task'[r].job].booking = task'[r].booking
  <2>1. CASE task'[r].job = task[r].job /\ task'[r].booking = task[r].booking
    BY <1>3, <1>5, <2>1 DEF JobsKnown
  <2>2. CASE task'[r].booking \in Requests /\ task'[r].job = row[task'[r].booking].job
    BY <1>3, <1>5, <2>2 DEF JobsKnown
  <2> QED BY <1>5, <2>1, <2>2 DEF Quietly
<1>6. \A r \in Requests : pc'[r] = "saveJob" =>
        job'[r].state # "none" /\ job'[r].booking = task'[r].booking
  BY DEF JobsKnown, Quietly
<1> QED BY <1>1, <1>2, <1>4, <1>5, <1>6 DEF JobsKnown

LEMMA JobsKnownStep ==
  ASSUME TypeOK, WellFormed, JobsKnown, [Next]_vars
  PROVE  JobsKnown'
<1>1. ASSUME NEW r \in Requests, AddAutoCancel(r) PROVE JobsKnown'
  <2>1. job[r].state = "none" /\ pc[r] = "addJob"
    BY <1>1 DEF AddAutoCancel, JobsKnown
  <2>2. /\ job'[r].state = "delayed" /\ job'[r].booking = task[r].booking
        /\ \A j \in Requests \ {r} : job'[j] = job[j]
        /\ pc'[r] = "saveJob" /\ \A s \in Requests \ {r} : pc'[s] = pc[s]
        /\ UNCHANGED <<row, task, claimed>>
    BY <1>1 DEF AddAutoCancel, Goto, TypeOK, queueVars, envVars
  <2>3. \A j \in Requests : job[j].state # "none" =>
          j # r /\ job'[j] = job[j] /\ pc'[j] = pc[j]
    BY <2>1, <2>2
  <2>4. \A j \in claimed' : job'[j].state # "none"
    BY <2>2, <2>3 DEF JobsKnown, TypeOK
  <2>5. \A b \in Requests : row'[b].job # Unset =>
         /\ row'[b].job \in Requests /\ pc'[row'[b].job] = "done"
         /\ job'[row'[b].job].state # "none" /\ job'[row'[b].job].booking = b
    BY <2>2, <2>3 DEF JobsKnown
  <2>6. \A q \in Requests : task'[q].job # Unset =>
         /\ task'[q].job \in Requests /\ pc'[task'[q].job] = "done"
         /\ job'[task'[q].job].state # "none"
         /\ job'[task'[q].job].booking = task'[q].booking
    BY <2>2, <2>3 DEF JobsKnown
  <2>7. \A q \in Requests :
         /\ job'[q].state # "none" => pc'[q] \in {"saveJob", "done"}
         /\ pc'[q] = "saveJob" => job'[q].state # "none" /\ job'[q].booking = task'[q].booking
    BY <2>2 DEF JobsKnown
  <2> QED BY <2>4, <2>5, <2>6, <2>7 DEF JobsKnown
<1>2. ASSUME NEW r \in Requests, SaveJobId(r) PROVE JobsKnown'
  <2>1. task[r].booking \in Requests /\ pc[r] = "saveJob"
    BY <1>2 DEF SaveJobId, WellFormed, TasksWellFormed, TaskWellFormed
  <2>2. /\ row'[task[r].booking].job = r
        /\ \A b \in Requests \ {task[r].booking} : row'[b] = row[b]
        /\ pc'[r] = "done" /\ task'[r].job = Unset
        /\ \A s \in Requests \ {r} : pc'[s] = pc[s] /\ task'[s] = task[s]
        /\ UNCHANGED <<job, claimed>>
    BY <1>2, <2>1 DEF SaveJobId, Finish, NoTask, TypeOK, Row, queueVars, envVars
  <2>3. job[r].state # "none" /\ job[r].booking = task[r].booking
    BY <2>1 DEF JobsKnown
  <2>4. \A q \in Requests : pc[q] = "done" => pc'[q] = "done"
    BY <2>2
  <2>5. \A b \in Requests : row'[b].job # Unset =>
         /\ row'[b].job \in Requests /\ pc'[row'[b].job] = "done"
         /\ job'[row'[b].job].state # "none" /\ job'[row'[b].job].booking = b
    BY <2>2, <2>3, <2>4 DEF JobsKnown
  <2>6. \A q \in Requests : task'[q].job # Unset =>
         /\ q # r /\ task'[q] = task[q]
         /\ task'[q].job \in Requests /\ pc'[task'[q].job] = "done"
         /\ job'[task'[q].job].state # "none"
         /\ job'[task'[q].job].booking = task'[q].booking
    BY <2>2, <2>4 DEF JobsKnown
  <2> QED BY <2>1, <2>2, <2>5, <2>6 DEF JobsKnown
<1> QED BY <1>1, <1>2, QuietSteps, QuietKeepsJobs

\* Over is over, a row stays and keeps its listing, and no booking goes back to
\* pending.
Onward ==
  /\ ended \subseteq ended'
  /\ \A b \in Requests :
       row[b].status # "NONE" =>
         /\ row'[b].status # "NONE" /\ row'[b].property = row[b].property
         /\ row'[b].status = "PENDING" => row[b].status = "PENDING"

LEMMA OnwardSteps ==
  ASSUME TypeOK, WellFormed, [Next]_vars
  PROVE  Onward
<1> USE DEF Onward, TypeOK, queueVars, envVars
<1>t. \A r \in Requests : pc[r] \notin {"idle", "done"} => task[r].booking \in Requests
  BY DEF WellFormed, TasksWellFormed, TaskWellFormed
<1>1. ASSUME NEW r \in Requests, Begin(r) PROVE Onward
  BY <1>1 DEF Begin, BeginCreate, BeginReschedule, BeginConfirm, BeginClose, BeginCancel
<1>2. ASSUME NEW r \in Requests, InsertBooking(r) PROVE Onward
  <2>1. row[r].status = "NONE"
    BY <1>2 DEF InsertBooking, WellFormed, TasksWellFormed, TaskWellFormed, BeforeCommit,
           InTransaction
  <2> QED BY <1>2, <2>1 DEF InsertBooking
<1>3. ASSUME NEW r \in Requests, MoveBooking(r) \/ SaveJobId(r) PROVE Onward
  BY <1>3, <1>t DEF MoveBooking, SaveJobId, Moved, Row
<1>4. ASSUME NEW r \in Requests, WriteConfirmed(r) \/ WriteClosed(r) \/ WriteCancelled(r)
      PROVE  Onward
  BY <1>4, <1>t DEF WriteConfirmed, WriteClosed, WriteCancelled, Row
<1>5. ASSUME NEW r \in Requests,
             \/ TakeLock(r) \/ CheckAgent(r) \/ CheckBuyer(r) \/ Conflict(r)
             \/ RemoveAutoCancel(r) \/ AddAutoCancel(r) \/ Remind(r)
             \/ RecordReminders(r) \/ DropReminders(r) \/ DropReminderRows(r) \/ Abort(r)
      PROVE  Onward
  BY <1>5 DEF TakeLock, CheckAgent, CheckBuyer, Conflict, RemoveAutoCancel,
     AddAutoCancel, Remind, RecordReminders, DropReminders, DropReminderRows, Abort
<1>6. ASSUME NEW j \in Requests, WriteAutoCancel(j) PROVE Onward
  BY <1>6 DEF WriteAutoCancel, Row
<1>7. ASSUME NEW j \in Requests, \/ StartJob(j) \/ ClaimJob(j) \/ ReadForAutoCancel(j)
                                 \/ FailJob(j) \/ SendReminder(j)
      PROVE  Onward
  BY <1>7 DEF StartJob, ClaimJob, ReadForAutoCancel, FailJob, SendReminder
<1>8. CASE Tick \/ (\E p \in Properties : SetListing(p)) \/ UNCHANGED vars
  BY <1>8 DEF Tick, SetListing, vars
<1> QED
  <2> HIDE DEF Onward, TypeOK
  <2> QED BY <1>1, <1>2, <1>3, <1>4, <1>5, <1>6, <1>7, <1>8 DEF Next, Continue, Work

LEMMA OpsKnownStep ==
  ASSUME TypeOK, WellFormed, OpsKnown, [Next]_vars
  PROVE  OpsKnown'
<1> USE DEF TypeOK, OpsKnown, queueVars, envVars, Goto, Finish
<1>t. \A r \in Requests : pc[r] \notin {"idle", "done"} =>
        task[r].booking \in Requests
        /\ (pc[r] \in {"removeJob", "dropMail", "dropRows"} => row[task[r].booking].status # "NONE")
  BY DEF WellFormed, TasksWellFormed, TaskWellFormed, BeforeCommit, InTransaction
<1>u. Onward
  BY OnwardSteps
<1>v. ASSUME NEW r \in Requests,
             \A s \in Requests \ {r} : pc'[s] = pc[s] /\ task'[s] = task[s],
             /\ pc'[r] \in {"addJob", "saveJob"} => task'[r].op \in {"create", "reschedule"}
             /\ pc'[r] = "removeJob" =>
                  task'[r].op = "reschedule" \/ row'[task'[r].booking].status # "PENDING"
             /\ pc'[r] \in {"dropMail", "dropRows"} => task'[r].booking \in ended'
      PROVE  OpsKnown'
  BY <1>t, <1>u, <1>v DEF Onward
<1>w. ASSUME UNCHANGED <<pc, task>> PROVE OpsKnown'
  BY <1>t, <1>u, <1>w DEF Onward
<1>1. ASSUME NEW r \in Requests, Begin(r) PROVE OpsKnown'
  <2>1. /\ pc'[r] \in {"lock", "write"}
        /\ \A s \in Requests \ {r} : pc'[s] = pc[s] /\ task'[s] = task[s]
    <3>1. /\ \E l \in {"lock", "write"} : pc' = [pc EXCEPT ![r] = l]
          /\ \A s \in Requests \ {r} : task'[s] = task[s]
      BY <1>1 DEF Begin, BeginCreate, BeginReschedule, BeginConfirm, BeginClose, BeginCancel
    <3> QED BY <3>1
  <2> QED BY <2>1, <1>v
<1>2. ASSUME NEW r \in Requests, TakeLock(r) \/ CheckAgent(r) \/ CheckBuyer(r) \/ Conflict(r)
      PROVE  OpsKnown'
  BY <1>2, <1>v DEF TakeLock, CheckAgent, CheckBuyer, Conflict
<1>3. ASSUME NEW r \in Requests, InsertBooking(r) \/ MoveBooking(r) PROVE OpsKnown'
  BY <1>3, <1>v DEF InsertBooking, MoveBooking
<1>4. ASSUME NEW r \in Requests, WriteConfirmed(r) PROVE OpsKnown'
  <2>1. row'[task[r].booking].status = "CONFIRMED"
    BY <1>4, <1>t DEF WriteConfirmed, Row
  <2> QED BY <1>4, <1>v, <2>1 DEF WriteConfirmed
<1>5. ASSUME NEW r \in Requests, WriteClosed(r) PROVE OpsKnown'
  BY <1>5, <1>v DEF WriteClosed
<1>6. ASSUME NEW r \in Requests, WriteCancelled(r) PROVE OpsKnown'
  <2>1. row'[task[r].booking].status = "CANCELLED" /\ task[r].booking \in ended'
    BY <1>6, <1>t DEF WriteCancelled, Row
  <2>2. /\ \A s \in Requests \ {r} : pc'[s] = pc[s] /\ task'[s] = task[s]
        /\ pc'[r] \in {"removeJob", "dropMail", "done"}
        /\ pc'[r] # "done" => task'[r] = task[r]
    BY <1>6 DEF WriteCancelled
  <2> QED BY <1>v, <2>1, <2>2
<1>7. ASSUME NEW r \in Requests, RemoveAutoCancel(r) PROVE OpsKnown'
  BY <1>7, <1>v DEF RemoveAutoCancel
<1>8. ASSUME NEW r \in Requests, AddAutoCancel(r) \/ SaveJobId(r) PROVE OpsKnown'
  BY <1>8, <1>v DEF AddAutoCancel, SaveJobId
<1>9. ASSUME NEW r \in Requests,
             Remind(r) \/ RecordReminders(r) \/ DropReminders(r) \/ DropReminderRows(r)
      PROVE  OpsKnown'
  BY <1>9, <1>u, <1>v DEF Remind, RecordReminders, DropReminders, DropReminderRows, Onward
<1>10. ASSUME NEW r \in Requests, Abort(r) PROVE OpsKnown'
  BY <1>10, <1>v DEF Abort
<1>11. ASSUME NEW j \in Requests, Work(j) \/ FailJob(j) \/ SendReminder(j) PROVE OpsKnown'
  BY <1>11, <1>w DEF Work, StartJob, ClaimJob, ReadForAutoCancel, WriteAutoCancel, FailJob,
     SendReminder
<1>12. CASE Tick \/ (\E p \in Properties : SetListing(p)) \/ UNCHANGED vars
  BY <1>12, <1>w DEF Tick, SetListing, vars
<1> QED
  <2> HIDE DEF OpsKnown, TypeOK
  <2> QED BY <1>1, <1>2, <1>3, <1>4, <1>5, <1>6, <1>7, <1>8, <1>9, <1>10, <1>11, <1>12
          DEF Next, Continue

\* A booking is pending since its insertion.
LEMMA PendingComes ==
  ASSUME TypeOK, WellFormed, [Next]_vars, NEW b \in Requests, row'[b].status = "PENDING"
  PROVE  row[b].status = "PENDING" \/ InsertBooking(b)
<1> USE DEF TypeOK, queueVars, envVars
<1>t. \A r \in Requests : pc[r] \notin {"idle", "done"} => task[r].booking \in Requests
  BY DEF WellFormed, TasksWellFormed, TaskWellFormed
<1>1. ASSUME row' = row PROVE row[b].status = "PENDING"
  BY <1>1
<1>2. ASSUME NEW r \in Requests, InsertBooking(r), r # b PROVE row[b].status = "PENDING"
  BY <1>2 DEF InsertBooking
<1>3. ASSUME NEW r \in Requests, MoveBooking(r) \/ SaveJobId(r) PROVE row[b].status = "PENDING"
  BY <1>3, <1>t DEF MoveBooking, SaveJobId, Moved, Row
<1>4. ASSUME NEW r \in Requests, WriteConfirmed(r) \/ WriteClosed(r) \/ WriteCancelled(r)
      PROVE  row[b].status = "PENDING"
  <2>1. task[r].booking \in Requests
    BY <1>4, <1>t DEF WriteConfirmed, WriteClosed, WriteCancelled
  <2>2. CASE WriteConfirmed(r) \/ WriteCancelled(r)
    BY <2>1, <2>2 DEF WriteConfirmed, WriteCancelled, Row
  <2>3. CASE WriteClosed(r)
    BY <2>1, <2>3 DEF WriteClosed, Row
  <2> QED BY <1>4, <2>2, <2>3
<1>5. ASSUME NEW j \in Requests, WriteAutoCancel(j) PROVE row[b].status = "PENDING"
  BY <1>5 DEF WriteAutoCancel, Row
<1>6. \/ row' = row
      \/ \E r \in Requests : \/ InsertBooking(r) \/ MoveBooking(r) \/ SaveJobId(r)
                             \/ WriteConfirmed(r) \/ WriteClosed(r) \/ WriteCancelled(r)
      \/ \E j \in Requests : WriteAutoCancel(j)
  <2>1. ASSUME NEW r \in Requests, Begin(r) \/ Abort(r) PROVE row' = row
    BY <2>1 DEF Begin, BeginCreate, BeginReschedule, BeginConfirm, BeginClose, BeginCancel,
           Abort
  <2>2. ASSUME NEW r \in Requests,
               \/ TakeLock(r) \/ CheckAgent(r) \/ CheckBuyer(r) \/ Conflict(r)
               \/ RemoveAutoCancel(r) \/ AddAutoCancel(r) \/ Remind(r)
               \/ RecordReminders(r) \/ DropReminders(r) \/ DropReminderRows(r)
        PROVE  row' = row
    BY <2>2 DEF TakeLock, CheckAgent, CheckBuyer, Conflict, RemoveAutoCancel,
       AddAutoCancel, Remind, RecordReminders, DropReminders, DropReminderRows
  <2>3. ASSUME NEW j \in Requests, \/ StartJob(j) \/ ClaimJob(j) \/ ReadForAutoCancel(j)
                                   \/ FailJob(j) \/ SendReminder(j)
        PROVE  row' = row
    BY <2>3 DEF StartJob, ClaimJob, ReadForAutoCancel, FailJob, SendReminder
  <2>4. CASE Tick \/ (\E p \in Properties : SetListing(p)) \/ UNCHANGED vars
    BY <2>4 DEF Tick, SetListing, vars
  <2> QED BY <2>1, <2>2, <2>3, <2>4 DEF Next, Continue, Work
<1> QED BY <1>1, <1>2, <1>3, <1>4, <1>5, <1>6

\* A fault is not forgotten, and an abort or a failure is one.
LEMMA FaultsStay ==
  ASSUME TypeOK, [Next]_vars
  PROVE  /\ faults > 0 => faults' > 0
         /\ \A r \in Requests : Abort(r) \/ FailJob(r) => faults' > 0
<1> USE DEF TypeOK, queueVars, envVars
<1>1. ASSUME NEW r \in Requests, Abort(r) \/ FailJob(r) PROVE faults' > 0
  BY <1>1 DEF Abort, FailJob
<1>2. ASSUME NEW r \in Requests, DropReminders(r) PROVE faults > 0 => faults' > 0
  BY <1>2 DEF DropReminders
<1>3. ASSUME NEW r \in Requests, Begin(r) \/ (Continue(r) /\ ~ DropReminders(r))
      PROVE  faults' = faults
  BY <1>3 DEF Begin, BeginCreate, BeginReschedule, BeginConfirm, BeginClose, BeginCancel,
     Continue, TakeLock, CheckAgent, CheckBuyer, Conflict, InsertBooking, MoveBooking,
     WriteConfirmed, WriteClosed, WriteCancelled, RemoveAutoCancel, AddAutoCancel, SaveJobId,
     Remind, RecordReminders, DropReminderRows
<1>4. ASSUME NEW j \in Requests, Work(j) \/ SendReminder(j) PROVE faults' = faults
  BY <1>4 DEF Work, StartJob, ClaimJob, ReadForAutoCancel, WriteAutoCancel, SendReminder
<1>5. CASE Tick \/ (\E p \in Properties : SetListing(p)) \/ UNCHANGED vars
  BY <1>1, <1>5 DEF Tick, SetListing, vars
<1> QED
  <2> HIDE DEF TypeOK, queueVars, envVars
  <2> QED BY <1>1, <1>2, <1>3, <1>4, <1>5 DEF Next

\* A job that will find its booking pending goes on to, unless it is removed.
LEMMA WillCancelKept ==
  ASSUME TypeOK, WellFormed, JobsKnown, [Next]_vars, NEW j \in Requests, NEW b \in Requests,
         WillCancel(j, b), row'[b].status = "PENDING"
  PROVE  \/ WillCancel(j, b)' \/ faults' > 0
         \/ \E r \in Requests : RemoveAutoCancel(r) /\ task[r].job = j
<1> DEFINE Goal == \/ WillCancel(j, b)' \/ faults' > 0
                   \/ \E r \in Requests : RemoveAutoCancel(r) /\ task[r].job = j
<1> USE DEF TypeOK, WillCancel, queueVars, envVars
<1>0. job[j].state # "none" /\ job[j].booking = b
  OBVIOUS
<1>1. ASSUME UNCHANGED <<job, claimed>> PROVE Goal
  BY <1>1
<1>2. ASSUME NEW r \in Requests, RemoveAutoCancel(r) PROVE Goal
  <2>1. task[r].job # j => job'[j] = job[j]
    BY <1>2 DEF RemoveAutoCancel
  <2>2. claimed' = claimed
    BY <1>2 DEF RemoveAutoCancel
  <2> QED BY <1>2, <2>1, <2>2
<1>3. ASSUME NEW r \in Requests, AddAutoCancel(r) PROVE Goal
  <2>1. r # j
    BY <1>0, <1>3 DEF AddAutoCancel, JobsKnown
  <2> QED BY <1>3, <2>1 DEF AddAutoCancel
<1>4. ASSUME NEW k \in Requests, StartJob(k) PROVE Goal
  BY <1>4 DEF StartJob, SetJob, Job
<1>5. ASSUME NEW k \in Requests, ClaimJob(k) PROVE Goal
  BY <1>5 DEF ClaimJob, SetJob, Job
<1>6. ASSUME NEW k \in Requests, ReadForAutoCancel(k) PROVE Goal
  BY <1>6 DEF ReadForAutoCancel, SetJob, Job
<1>7. ASSUME NEW k \in Requests, WriteAutoCancel(k) PROVE Goal
  <2>1. CASE k = j
    BY <1>0, <1>7, <2>1 DEF WriteAutoCancel, Row
  <2>2. CASE k # j
    BY <1>7, <2>2 DEF WriteAutoCancel, SetJob, Job
  <2> QED BY <2>1, <2>2
<1>8. ASSUME NEW k \in Requests, FailJob(k) PROVE Goal
  BY <1>8, FaultsStay
<1>9. ASSUME NEW r \in Requests,
             Begin(r) \/ Abort(r) \/ (Continue(r) /\ ~ RemoveAutoCancel(r) /\ ~ AddAutoCancel(r))
      PROVE  Goal
  BY <1>1, <1>9 DEF Begin, BeginCreate, BeginReschedule, BeginConfirm, BeginClose, BeginCancel,
     Abort, Continue, TakeLock, CheckAgent, CheckBuyer, Conflict, InsertBooking, MoveBooking,
     WriteConfirmed, WriteClosed, WriteCancelled, SaveJobId, Remind, RecordReminders,
     DropReminders, DropReminderRows
<1>10. ASSUME Tick \/ (\E p \in Properties : SetListing(p)) \/ UNCHANGED vars
       PROVE  Goal
  BY <1>1, <1>10 DEF Tick, SetListing, vars
<1>11. ASSUME NEW m \in Requests, SendReminder(m) PROVE Goal
  BY <1>1, <1>11 DEF SendReminder
<1> QED
  <2> HIDE DEF Goal, TypeOK, WillCancel, queueVars, envVars
  <2>1. ASSUME NEW r \in Requests, Begin(r) \/ Continue(r) \/ Abort(r) PROVE Goal
    BY <1>2, <1>3, <1>9, <2>1
  <2>2. ASSUME NEW k \in Requests, Work(k) \/ FailJob(k) \/ SendReminder(k) PROVE Goal
    BY <1>4, <1>5, <1>6, <1>7, <1>8, <1>11, <2>2 DEF Work
  <2>3. Goal
    BY <1>10, <2>1, <2>2 DEF Next
  <2> QED BY <2>3 DEF Goal

\* The removal of a pending booking's job is that of a reschedule, which goes on to
\* add the next.
LEMMA RemovedForNext ==
  ASSUME TypeOK, WellFormed, JobsKnown, OpsKnown, NEW b \in Requests, NEW j \in Requests,
         WillCancel(j, b), row[b].status = "PENDING", NEW r \in Requests,
         RemoveAutoCancel(r), task[r].job = j
  PROVE  task'[r].booking = b /\ task'[r].op = "reschedule" /\ pc'[r] = "addJob"
<1>1. task[r].booking = b
  <2>1. task[r].job \in Requests /\ task[r].job # Unset
    OBVIOUS
  <2> QED BY <2>1 DEF JobsKnown, WillCancel
<1>2. task[r].op = "reschedule"
  BY <1>1 DEF OpsKnown, RemoveAutoCancel
<1> QED BY <1>1, <1>2 DEF RemoveAutoCancel, Goto, TypeOK

\* A job is on its way for b.
Awaited(b) == faults > 0 \/ WillAddJob(b) \/ \E j \in Requests : WillCancel(j, b)

\* A request in one of these labels leaves it in one way.
LEMMA AddingGoesOn ==
  ASSUME TypeOK, [Next]_vars, NEW r \in Requests, pc[r] \in {"removeJob", "addJob", "saveJob"}
  PROVE  \/ pc'[r] = pc[r] /\ task'[r] = task[r]
         \/ RemoveAutoCancel(r) \/ AddAutoCancel(r) \/ SaveJobId(r) \/ Abort(r)
<1> USE DEF TypeOK, queueVars, envVars, Goto, Finish
<1>1. ASSUME NEW s \in Requests, Begin(s) PROVE pc'[r] = pc[r] /\ task'[r] = task[r]
  BY <1>1 DEF Begin, BeginCreate, BeginReschedule, BeginConfirm, BeginClose, BeginCancel
<1>2. ASSUME NEW s \in Requests, s = r, Continue(s)
      PROVE  RemoveAutoCancel(r) \/ AddAutoCancel(r) \/ SaveJobId(r)
  BY <1>2 DEF Continue, TakeLock, CheckAgent, CheckBuyer, Conflict, InsertBooking,
     MoveBooking, WriteConfirmed, WriteClosed, WriteCancelled, Remind, RecordReminders,
     DropReminders, DropReminderRows
<1>3. ASSUME NEW s \in Requests \ {r}, Continue(s) \/ Abort(s)
      PROVE  pc'[r] = pc[r] /\ task'[r] = task[r]
  BY <1>3 DEF Continue, TakeLock, CheckAgent, CheckBuyer, Conflict, InsertBooking,
     MoveBooking, WriteConfirmed, WriteClosed, WriteCancelled, RemoveAutoCancel,
     AddAutoCancel, SaveJobId, Remind, RecordReminders, DropReminders, DropReminderRows, Abort
<1>4. ASSUME NEW j \in Requests, Work(j) \/ FailJob(j) \/ SendReminder(j)
      PROVE  pc'[r] = pc[r] /\ task'[r] = task[r]
  BY <1>4 DEF Work, StartJob, ClaimJob, ReadForAutoCancel, WriteAutoCancel, FailJob,
     SendReminder
<1>5. CASE Tick \/ (\E p \in Properties : SetListing(p)) \/ UNCHANGED vars
  BY <1>5 DEF Tick, SetListing, vars
<1> QED BY <1>1, <1>2, <1>3, <1>4, <1>5 DEF Next

LEMMA AddsJob ==
  ASSUME TypeOK, JobsKnown, NEW r \in Requests, NEW b \in Requests, AddAutoCancel(r),
         task[r].booking = b
  PROVE  WillCancel(r, b)' /\ pc'[r] = "saveJob" /\ task' = task
<1>1. r \notin claimed /\ claimed' = claimed
  BY DEF AddAutoCancel, JobsKnown
<1>2. job'[r].booking = b /\ job'[r].state = "delayed"
  BY DEF AddAutoCancel, TypeOK
<1> QED BY <1>1, <1>2 DEF AddAutoCancel, WillCancel, Goto, TypeOK

LEMMA AwaitedStep ==
  ASSUME TypeOK, WellFormed, JobsKnown, OpsKnown, [Next]_vars, NEW b \in Requests,
         row'[b].status = "PENDING", row[b].status = "PENDING" => Awaited(b)
  PROVE  Awaited(b)'
<1>1. CASE InsertBooking(b)
  <2>1. pc'[b] = "addJob" /\ task'[b].booking = b
    BY <1>1 DEF InsertBooking, Goto, TypeOK, WellFormed, TasksWellFormed, TaskWellFormed
  <2> QED BY <2>1 DEF Awaited, WillAddJob
<1>2. CASE row[b].status = "PENDING"
  <2>1. CASE faults > 0
    BY <2>1, FaultsStay DEF Awaited
  <2>2. ASSUME NEW r \in Requests, task[r].booking = b,
               pc[r] = "addJob" \/ (pc[r] = "removeJob" /\ task[r].op = "reschedule")
        PROVE  Awaited(b)'
    <3>1. CASE pc'[r] = pc[r] /\ task'[r] = task[r]
      BY <2>2, <3>1 DEF Awaited, WillAddJob
    <3>2. CASE RemoveAutoCancel(r)
      <4>1. pc'[r] = "addJob" /\ task'[r] = task[r]
        BY <2>2, <3>2 DEF RemoveAutoCancel, Goto, TypeOK
      <4> QED BY <2>2, <4>1 DEF Awaited, WillAddJob
    <3>3. CASE AddAutoCancel(r)
      <4>1. WillCancel(r, b)'
        BY <2>2, <3>3, AddsJob
      <4> QED BY <4>1 DEF Awaited
    <3>4. CASE Abort(r)
      BY <3>4, FaultsStay DEF Awaited
    <3>5. ~ SaveJobId(r)
      BY <2>2 DEF SaveJobId
    <3> QED BY <2>2, <3>1, <3>2, <3>3, <3>4, <3>5, AddingGoesOn
  <2>3. ASSUME NEW j \in Requests, WillCancel(j, b) PROVE Awaited(b)'
    <3>1. ASSUME NEW r \in Requests, RemoveAutoCancel(r), task[r].job = j PROVE Awaited(b)'
      BY <1>2, <2>3, <3>1, RemovedForNext DEF Awaited, WillAddJob
    <3> QED BY <2>3, <3>1, WillCancelKept DEF Awaited
  <2> QED BY <1>2, <2>1, <2>2, <2>3 DEF Awaited, WillAddJob
<1> QED BY <1>1, <1>2, PendingComes

\* While its id is not saved, the job of a pending booking runs.
SavedRuns ==
  \A r, b \in Requests :
    pc[r] = "saveJob" /\ task[r].booking = b /\ row[b].status = "PENDING" =>
      faults > 0 \/ WillCancel(r, b)

LEMMA SavedRunsStep ==
  ASSUME TypeOK, WellFormed, JobsKnown, SavedRuns, [Next]_vars
  PROVE  SavedRuns'
<1> SUFFICES ASSUME NEW r \in Requests, NEW b \in Requests, pc'[r] = "saveJob",
                    task'[r].booking = b, row'[b].status = "PENDING"
             PROVE  faults' > 0 \/ WillCancel(r, b)'
  BY DEF SavedRuns
<1>1. CASE AddAutoCancel(r)
  <2>1. task' = task
    BY <1>1 DEF AddAutoCancel
  <2> QED BY <1>1, <2>1, AddsJob
<1>2. CASE ~ AddAutoCancel(r)
  <2>1. pc[r] = "saveJob" /\ task[r].booking = b
    <3>1. ASSUME NEW s \in Requests, s # r, AddAutoCancel(s)
          PROVE  pc[r] = "saveJob" /\ task[r].booking = b
      BY <3>1 DEF AddAutoCancel, Goto, TypeOK
    <3>2. ASSUME NEW s \in Requests, SaveJobId(s)
          PROVE  pc[r] = "saveJob" /\ task[r].booking = b
      BY <3>2 DEF SaveJobId, Finish, TypeOK
    <3>3. CASE Quietly
      BY <3>3 DEF Quietly
    <3> QED BY <1>2, <3>1, <3>2, <3>3, QuietSteps
  <2>2. row[b].status # "NONE"
    BY <2>1 DEF WellFormed, TasksWellFormed, TaskWellFormed, BeforeCommit, InTransaction
  <2>3. row[b].status = "PENDING"
    BY <2>2, OnwardSteps DEF Onward
  <2>4. faults > 0 \/ WillCancel(r, b)
    BY <2>1, <2>3 DEF SavedRuns
  <2>5. ASSUME NEW s \in Requests, RemoveAutoCancel(s) PROVE task[s].job # r
    <3>1. r # Unset /\ pc[r] # "done"
      BY <2>1
    <3> QED BY <3>1 DEF JobsKnown
  <2>6. CASE WillCancel(r, b)
    BY <2>5, <2>6, WillCancelKept
  <2> QED BY <2>4, <2>6, FaultsStay
<1> QED BY <1>1, <1>2

\* The id on record is that of a job that runs, or its reschedule is on the way.
Kept(j, b) ==
  \/ faults > 0
  \/ WillCancel(j, b)
  \/ \E r \in Requests : /\ task[r].booking = b /\ task[r].op = "reschedule"
                         /\ pc[r] \in {"addJob", "saveJob"}

RecordedJobs ==
  \A b, j \in Requests : row[b].status = "PENDING" /\ row[b].job = j => Kept(j, b)

LEMMA RecordedJobsStep ==
  ASSUME TypeOK, WellFormed, JobsKnown, OpsKnown, SavedRuns, RecordedJobs, [Next]_vars
  PROVE  RecordedJobs'
<1> SUFFICES ASSUME NEW b \in Requests, NEW j \in Requests,
                    row'[b].status = "PENDING", row'[b].job = j
             PROVE  Kept(j, b)'
  BY DEF RecordedJobs
<1>1. ASSUME NEW r \in Requests, SaveJobId(r), task[r].booking = b PROVE Kept(j, b)'
  <2>1. /\ row'[b].job = r /\ row[b].status = "PENDING" /\ pc[r] = "saveJob"
        /\ UNCHANGED <<job, claimed, faults>>
    BY <1>1 DEF SaveJobId, TypeOK, Row, queueVars, envVars
  <2>2. faults > 0 \/ WillCancel(j, b)
    BY <1>1, <2>1 DEF SavedRuns
  <2> QED BY <2>1, <2>2 DEF Kept, WillCancel
<1>2. ASSUME \A r \in Requests : SaveJobId(r) => task[r].booking # b PROVE Kept(j, b)'
  <2>1. row[b].job = j
    <3>1. ASSUME NEW r \in Requests, AddAutoCancel(r) \/ SaveJobId(r) PROVE row'[b] = row[b]
      BY <1>2, <3>1 DEF AddAutoCancel, SaveJobId, TypeOK
    <3> QED BY <3>1, QuietSteps DEF Quietly
  <2>2. row[b].status = "PENDING"
    <3>1. InsertBooking(b) => row'[b].job = Unset
      BY DEF InsertBooking, TypeOK
    <3> QED BY <3>1, PendingComes
  <2>3. CASE faults > 0
    BY <2>3, FaultsStay DEF Kept
  <2>4. CASE WillCancel(j, b)
    <3>1. ASSUME NEW r \in Requests, RemoveAutoCancel(r), task[r].job = j PROVE Kept(j, b)'
      BY <2>2, <2>4, <3>1, RemovedForNext DEF Kept
    <3> QED BY <2>4, <3>1, WillCancelKept DEF Kept
  <2>5. ASSUME NEW r \in Requests, task[r].booking = b, task[r].op = "reschedule",
               pc[r] \in {"addJob", "saveJob"}
        PROVE  Kept(j, b)'
    <3>1. CASE pc'[r] = pc[r] /\ task'[r] = task[r]
      BY <2>5, <3>1 DEF Kept
    <3>2. CASE AddAutoCancel(r)
      <4>1. pc'[r] = "saveJob" /\ task' = task
        BY <3>2 DEF AddAutoCancel, Goto, TypeOK
      <4> QED BY <2>5, <4>1 DEF Kept
    <3>3. CASE Abort(r)
      BY <3>3, FaultsStay DEF Kept
    <3>4. ~ RemoveAutoCancel(r) /\ ~ SaveJobId(r)
      BY <1>2, <2>5 DEF RemoveAutoCancel
    <3> QED BY <2>5, <3>1, <3>2, <3>3, <3>4, AddingGoesOn
  <2> QED BY <2>1, <2>2, <2>3, <2>4, <2>5 DEF RecordedJobs, Kept
<1> QED BY <1>1, <1>2

\* What every step does to the reminders but those of their own requests.
Unreminded ==
  /\ recorded' = recorded
  /\ \A m \in Requests :
       /\ \/ mail'[m] = mail[m]
          \/ /\ mail[m].state = "delayed" /\ mail'[m].state # "delayed"
             /\ mail'[m].booking = mail[m].booking
       /\ pc[m] = "record" => pc'[m] = "record" \/ faults' > 0

LEMMA ReminderSteps ==
  ASSUME TypeOK, [Next]_vars
  PROVE  \/ Unreminded
         \/ \E r \in Requests : Remind(r) \/ RecordReminders(r) \/ DropReminderRows(r)
<1> USE DEF TypeOK, Unreminded, queueVars, envVars, Goto, Finish
<1>1. ASSUME NEW r \in Requests, Begin(r) PROVE Unreminded
  <2>1. /\ pc[r] = "idle" /\ UNCHANGED <<mail, recorded>>
        /\ \E l \in {"lock", "write"} : pc' = [pc EXCEPT ![r] = l]
    BY <1>1 DEF Begin, BeginCreate, BeginReschedule, BeginConfirm, BeginClose, BeginCancel
  <2> QED BY <2>1
<1>2. ASSUME NEW r \in Requests,
             \/ TakeLock(r) \/ CheckAgent(r) \/ CheckBuyer(r) \/ Conflict(r)
             \/ InsertBooking(r) \/ MoveBooking(r) \/ AddAutoCancel(r) \/ SaveJobId(r)
      PROVE  Unreminded
  BY <1>2 DEF TakeLock, CheckAgent, CheckBuyer, Conflict, InsertBooking, MoveBooking,
     AddAutoCancel, SaveJobId
<1>3. ASSUME NEW r \in Requests,
             \/ WriteConfirmed(r) \/ WriteClosed(r) \/ WriteCancelled(r) \/ RemoveAutoCancel(r)
      PROVE  Unreminded
  BY <1>3 DEF WriteConfirmed, WriteClosed, WriteCancelled, RemoveAutoCancel
<1>4. ASSUME NEW r \in Requests, DropReminders(r) PROVE Unreminded
  <2>1. \A m \in Requests :
          \/ mail'[m] = mail[m]
          \/ /\ mail[m].state = "delayed" /\ mail'[m].state # "delayed"
             /\ mail'[m].booking = mail[m].booking
    BY <1>4 DEF DropReminders, Mail
  <2> QED BY <1>4, <2>1 DEF DropReminders
<1>5. ASSUME NEW r \in Requests, Abort(r) PROVE Unreminded
  BY <1>5 DEF Abort
<1>6. ASSUME NEW j \in Requests, Work(j) \/ FailJob(j) PROVE Unreminded
  BY <1>6 DEF Work, StartJob, ClaimJob, ReadForAutoCancel, WriteAutoCancel, FailJob
<1>7. ASSUME NEW m \in Requests, SendReminder(m) PROVE Unreminded
  BY <1>7 DEF SendReminder, Mail
<1>8. ASSUME Tick \/ (\E p \in Properties : SetListing(p)) \/ UNCHANGED vars
      PROVE  Unreminded
  BY <1>8 DEF Tick, SetListing, vars
<1> QED
  <2> HIDE DEF TypeOK, Unreminded, queueVars, envVars, Goto, Finish
  <2> QED BY <1>1, <1>2, <1>3, <1>4, <1>5, <1>6, <1>7, <1>8 DEF Next, Continue

LEMMA MailsKnownStep ==
  ASSUME TypeOK, WellFormed, MailsKnown, [Next]_vars
  PROVE  MailsKnown'
<1>1. \A b \in Requests : row[b].status # "NONE" => row'[b].status # "NONE"
  BY OnwardSteps DEF Onward
<1>2. CASE Unreminded
  BY <1>1, <1>2 DEF Unreminded, MailsKnown
<1>3. ASSUME NEW r \in Requests, RecordReminders(r) \/ DropReminderRows(r) PROVE MailsKnown'
  BY <1>1, <1>3 DEF RecordReminders, DropReminderRows, MailsKnown
<1>4. ASSUME NEW r \in Requests, Remind(r) PROVE MailsKnown'
  <2>1. task[r].booking \in Requests /\ row[task[r].booking].status # "NONE"
    BY <1>4 DEF Remind, WellFormed, TasksWellFormed, TaskWellFormed, BeforeCommit,
           InTransaction
  <2>2. /\ mail'[r] = mail[r] \/ mail'[r].booking = task[r].booking
        /\ \A m \in Requests \ {r} : mail'[m] = mail[m]
    BY <1>4 DEF Remind, TypeOK
  <2> QED BY <1>1, <2>1, <2>2 DEF MailsKnown
<1> QED BY <1>2, <1>3, <1>4, ReminderSteps

LEMMA RemindersStep ==
  ASSUME TypeOK, WellFormed, EndedIsHistory, OpsKnown, MailsKnown, RemindersAreOnRecord,
         [Next]_vars
  PROVE  RemindersAreOnRecord'
<1> SUFFICES ASSUME NEW m \in Requests, mail'[m].state = "delayed",
                    mail'[m].booking \in Held'
             PROVE  faults' > 0 \/ m \in recorded' \/ pc'[m] = "record"
  BY DEF RemindersAreOnRecord
<1>1. ASSUME mail'[m] = mail[m] PROVE faults > 0 \/ m \in recorded \/ pc[m] = "record"
  <2>1. mail[m].booking \in Requests /\ row[mail[m].booking].status # "NONE"
    BY <1>1 DEF MailsKnown
  <2>2. mail[m].booking \notin ended
    BY <1>1, OnwardSteps DEF Onward, Held
  <2>3. mail[m].booking \in Held
    <3>1. row[mail[m].booking].status \notin Terminal
      BY <2>1, <2>2 DEF EndedIsHistory
    <3>2. row[mail[m].booking].status \in Status
      BY <2>1 DEF TypeOK, Row
    <3> QED BY <2>1, <2>2, <3>1, <3>2 DEF Held, LiveBookings, Status
  <2> QED BY <1>1, <2>3 DEF RemindersAreOnRecord
<1>2. CASE Unreminded
  <2>1. mail'[m] = mail[m] /\ recorded' = recorded
        /\ (pc[m] = "record" => pc'[m] = "record" \/ faults' > 0)
    BY <1>2 DEF Unreminded
  <2> QED BY <1>1, <2>1, FaultsStay
<1>3. ASSUME NEW r \in Requests, Remind(r)
      PROVE  faults' > 0 \/ m \in recorded' \/ pc'[m] = "record"
  <2>1. CASE mail'[m] = mail[m] /\ m # r
    BY <1>1, <1>3, <2>1, FaultsStay DEF Remind, Goto, Finish, TypeOK
  <2>2. CASE mail'[m] = mail[m] /\ m = r
    BY <1>1, <1>3, <2>2, FaultsStay DEF Remind, Goto, TypeOK
  <2>3. CASE mail'[m] # mail[m]
    BY <1>3, <2>3 DEF Remind, Goto, TypeOK
  <2> QED BY <2>1, <2>2, <2>3
<1>4. ASSUME NEW r \in Requests, RecordReminders(r)
      PROVE  faults' > 0 \/ m \in recorded' \/ pc'[m] = "record"
  <2>1. /\ mail'[m] = mail[m] /\ recorded' = recorded \cup {r}
        /\ m # r => pc'[m] = pc[m]
    BY <1>4 DEF RecordReminders, Finish, TypeOK
  <2> QED BY <1>1, <2>1, FaultsStay
<1>5. ASSUME NEW r \in Requests, DropReminderRows(r)
      PROVE  faults' > 0 \/ m \in recorded' \/ pc'[m] = "record"
  <2>1. /\ mail' = mail /\ ended' = ended
        /\ recorded' = {k \in recorded : mail[k].booking # task[r].booking}
        /\ pc[m] = "record" => pc'[m] = "record"
    BY <1>5 DEF DropReminderRows, Finish, TypeOK
  <2>2. task[r].booking \in ended
    BY <1>5 DEF OpsKnown, DropReminderRows
  <2>3. mail[m].booking # task[r].booking
    BY <2>1, <2>2 DEF Held
  <2> QED BY <1>1, <2>1, <2>3, FaultsStay
<1> QED BY <1>2, <1>3, <1>4, <1>5, ReminderSteps

\* The strengthening: where the jobs, the operations and the reminders stand, and
\* that both the job of a pending booking and the one on record are on their way.
QueueInv ==
  /\ JobsKnown /\ OpsKnown /\ MailsKnown /\ SavedRuns
  /\ PendingHasAutoCancel /\ RecordedJobs /\ RemindersAreOnRecord

LEMMA QueueInit == Init => QueueInv
<1> SUFFICES ASSUME Init PROVE QueueInv
  OBVIOUS
<1>1. /\ \A r \in Requests : /\ row[r].status = "NONE" /\ row[r].job = Unset
                             /\ pc[r] = "idle" /\ task[r].job = Unset
                             /\ job[r].state = "none" /\ mail[r].state = "none"
      /\ claimed = {}
  BY DEF Init, NoRow, NoTask, NoJob, NoMail
<1>2. JobsKnown /\ OpsKnown /\ MailsKnown
  BY <1>1 DEF JobsKnown, OpsKnown, MailsKnown
<1>3. SavedRuns /\ PendingHasAutoCancel /\ RecordedJobs /\ RemindersAreOnRecord
  BY <1>1 DEF SavedRuns, PendingHasAutoCancel, RecordedJobs, RemindersAreOnRecord
<1> QED BY <1>2, <1>3 DEF QueueInv

LEMMA QueueStep == CalendarInv /\ QueueInv /\ [Next]_vars => QueueInv'
<1> SUFFICES ASSUME CalendarInv, QueueInv, [Next]_vars PROVE QueueInv'
  OBVIOUS
<1>1. TypeOK /\ WellFormed /\ EndedIsHistory
  BY DEF CalendarInv
<1>2. /\ JobsKnown /\ OpsKnown /\ MailsKnown /\ SavedRuns
      /\ PendingHasAutoCancel /\ RecordedJobs /\ RemindersAreOnRecord
  BY DEF QueueInv
<1>3. JobsKnown' /\ OpsKnown' /\ MailsKnown'
  BY <1>1, <1>2, JobsKnownStep, OpsKnownStep, MailsKnownStep
<1>4. SavedRuns' /\ RecordedJobs' /\ RemindersAreOnRecord'
  BY <1>1, <1>2, SavedRunsStep, RecordedJobsStep, RemindersStep
<1>5. PendingHasAutoCancel'
  <2>1. \A b \in Requests : row[b].status = "PENDING" => Awaited(b)
    BY <1>2 DEF PendingHasAutoCancel, Awaited
  <2>2. \A b \in Requests : row'[b].status = "PENDING" => Awaited(b)'
    BY <1>1, <1>2, <2>1, AwaitedStep
  <2> QED BY <2>2 DEF PendingHasAutoCancel, Awaited
<1> QED BY <1>3, <1>4, <1>5 DEF QueueInv

LEMMA QueueSafe == Spec => []QueueInv
BY QueueInit, QueueStep, CalendarSafe, PTL DEF Spec

\* createBooking, rescheduleBooking and the worker: while nothing fails, a booking
\* that waits for its agent has a job that will cancel it or a request adding one.
THEOREM PendingSafe == Spec => []PendingHasAutoCancel
<1>1. QueueInv => PendingHasAutoCancel
  BY DEF QueueInv
<1> QED BY <1>1, QueueSafe, PTL

\* autoConfirmJobId names a job that still runs, except between the two writes of
\* a reschedule.
THEOREM RecordedSafe == Spec => []RecordedJobIsLive
<1>1. CalendarInv /\ QueueInv => RecordedJobIsLive
  <2> SUFFICES ASSUME CalendarInv, QueueInv, NEW b \in Requests,
                      row[b].status = "PENDING", row[b].job # Unset
               PROVE  Kept(row[b].job, b)
    BY DEF RecordedJobIsLive, Kept
  <2>1. row[b].job \in Requests
    BY DEF CalendarInv, TypeOK, Row
  <2> QED BY <2>1 DEF QueueInv, RecordedJobs
<1> QED BY <1>1, CalendarSafe, QueueSafe, PTL

\* confirmBooking and cancelBooking: a reminder that is still to be sent for a
\* booking that was never over is one that its cancellation will find.
THEOREM RemindersSafe == Spec => []RemindersAreOnRecord
<1>1. QueueInv => RemindersAreOnRecord
  BY DEF QueueInv
<1> QED BY <1>1, QueueSafe, PTL

USE MarketplaceAssumption

-----------------------------------------------------------------------------
(* What a closing leaves alone *)

\* The statuses of bookings that are live at the time are all a closing writes.
Closed(bs) ==
  /\ row' \in [Requests -> Row]
  /\ ended' \subseteq Requests /\ ended \subseteq ended'
  /\ \A b \in Requests :
       /\ row'[b].agent = row[b].agent /\ row'[b].buyer = row[b].buyer
       /\ row'[b].property = row[b].property /\ row'[b].job = row[b].job
       /\ row'[b].start = row[b].start /\ row'[b].end = row[b].end
       /\ b \in bs => /\ row[b].status \in Live /\ row'[b].status = "CANCELLED"
                      /\ b \in ended'
       /\ b \notin bs => row'[b].status = row[b].status

LEMMA EndsCloses ==
  ASSUME TypeOK, NEW bs \in SUBSET LiveBookings, Ends(bs)
  PROVE  Closed(bs)
<1>1. \A b \in Requests :
        row'[b] = IF b \in bs THEN [row[b] EXCEPT !.status = "CANCELLED"] ELSE row[b]
  BY DEF Ends
<1>2. \A b \in Requests : row[b] \in Row
  BY DEF TypeOK
<1>3. \A b \in Requests :
        /\ row'[b].agent = row[b].agent /\ row'[b].buyer = row[b].buyer
        /\ row'[b].property = row[b].property /\ row'[b].job = row[b].job
        /\ row'[b].start = row[b].start /\ row'[b].end = row[b].end
        /\ b \in bs => row'[b].status = "CANCELLED"
        /\ b \notin bs => row'[b].status = row[b].status
  BY <1>1, <1>2 DEF Row
<1>4. ASSUME NEW b \in Requests PROVE row'[b] \in Row
  <2>1. row[b] \in Row /\ "CANCELLED" \in Status
    BY <1>2 DEF Status, Terminal
  <2>2. [row[b] EXCEPT !.status = "CANCELLED"] \in Row
    BY <2>1 DEF Row
  <2> QED BY <1>1, <2>1, <2>2
<1>5. row' \in [Requests -> Row]
  BY <1>4 DEF Ends
<1> QED BY <1>3, <1>5 DEF Closed, Ends, LiveBookings, TypeOK

\* The queue loses what was read from it, and only while it is delayed.
JobsStay(js) ==
  /\ job' \in [Requests -> Job]
  /\ \A j \in Requests :
       /\ job'[j].booking = job[j].booking
       /\ \/ job'[j].state = job[j].state
          \/ j \in js /\ job[j].state = "delayed" /\ job'[j].state = "removed"

ClosingTypes ==
  at \in [Closings -> ClosingLabels] /\ closing \in [Closings -> Closing]

\* The bookings a step of closing x cancels, and the jobs it removes.
Cancels(x) ==
  IF at[x] = "cancelAll" /\ at'[x] = "writeListing" THEN On(closing[x].property)
  ELSE IF at[x] = "cancelPending" /\ at'[x] = "deactivated"
       THEN {b \in Requests : row[b].status = "PENDING" /\ row[b].agent = closing[x].agent}
       ELSE {}

Removes(x) == IF at[x] = "removeJobs" THEN closing[x].jobs ELSE {}

\* All that a closing does to the state of Bookings.
LEMMA CloseFrame ==
  ASSUME TypeOK, ClosingTypes, NEW x \in Closings, Close(x)
  PROVE  /\ TypeOK'
         /\ UNCHANGED <<pc, task, lock, claimed, now, faults>>
         /\ Cancels(x) \in SUBSET LiveBookings
         /\ Closed(Cancels(x)) /\ JobsStay(Removes(x))
<1> USE DEF ClosingTypes
<1>0. Closed({}) \/ ~ UNCHANGED <<row, ended>>
  BY DEF Closed, TypeOK
<1>1. JobsStay({}) \/ ~ UNCHANGED job
  BY DEF JobsStay, TypeOK
<1>2. UNCHANGED job => JobsStay(Removes(x))
  BY DEF JobsStay, TypeOK
<1>3. CASE BeginClosing(x) \/ ReadPending(x) \/ ReadConfirmed(x) \/ AbortClosing(x)
  <2>1. UNCHANGED vars
    BY <1>3 DEF BeginClosing, ReadPending, ReadConfirmed, AbortClosing
  <2>2. Cancels(x) = {}
    BY <1>3 DEF BeginClosing, ReadPending, ReadConfirmed, AbortClosing, Cancels, Step
  <2> QED BY <1>0, <1>2, <2>1, <2>2 DEF vars, TypeOK
<1>4. CASE RemoveJobs(x)
  <2>1. JobsStay(Removes(x))
    BY <1>4 DEF RemoveJobs, Removes, JobsStay, TypeOK, Job, JobStates
  <2>2. Cancels(x) = {}
    BY <1>4 DEF RemoveJobs, Cancels
  <2> QED BY <1>0, <1>4, <2>1, <2>2 DEF RemoveJobs, TypeOK, JobsStay
<1>5. CASE RemoveMails(x)
  <2>1. mail' \in [Requests -> Mail]
    BY <1>5 DEF RemoveMails, TypeOK, Mail
  <2>2. Cancels(x) = {}
    BY <1>5 DEF RemoveMails, Cancels
  <2> QED BY <1>0, <1>2, <1>5, <2>1, <2>2 DEF RemoveMails, TypeOK
<1>6. CASE CancelAll(x)
  <2>1. Cancels(x) = On(closing[x].property)
    BY <1>6 DEF CancelAll, Cancels, Step
  <2>2. On(closing[x].property) \in SUBSET LiveBookings
    BY DEF On
  <2>3. Closed(Cancels(x))
    BY <1>6, <2>1, <2>2, EndsCloses DEF CancelAll
  <2> QED BY <1>2, <1>6, <2>1, <2>2, <2>3 DEF CancelAll, TypeOK, Closed
<1>7. CASE CancelPending(x)
  <2>1. Cancels(x) = {b \in Requests : row[b].status = "PENDING"
                                       /\ row[b].agent = closing[x].agent}
    BY <1>7 DEF CancelPending, Cancels, Step
  <2>2. Cancels(x) \in SUBSET LiveBookings
    BY <2>1 DEF LiveBookings, Live
  <2>3. Closed(Cancels(x))
    BY <1>7, <2>1, <2>2, EndsCloses DEF CancelPending
  <2> QED BY <1>2, <1>7, <2>2, <2>3 DEF CancelPending, TypeOK, Closed, queueVars
<1>8. CASE WriteListing(x) \/ DeactivateListings(x)
  <2>1. listing' \in [Properties -> PropertyStatus]
    <3>1. closing[x].status \in PropertyStatus
      BY DEF Closing, PropertyStatus
    <3> QED BY <1>8, <3>1 DEF WriteListing, DeactivateListings, TypeOK, PropertyStatus
  <2>2. Cancels(x) = {}
    BY <1>8 DEF WriteListing, DeactivateListings, Cancels
  <2>3. UNCHANGED <<row, ended, lock, pc, task, queueVars, now, faults>>
    BY <1>8 DEF WriteListing, DeactivateListings
  <2> QED BY <1>0, <1>2, <2>1, <2>2, <2>3 DEF TypeOK, queueVars
<1> QED BY <1>3, <1>4, <1>5, <1>6, <1>7, <1>8 DEF Close

-----------------------------------------------------------------------------
(* The calendar *)

LEMMA CloseKeepsWellFormed ==
  ASSUME TypeOK, WellFormed, EndedIsHistory, ClosingTypes, NEW x \in Closings, Close(x)
  PROVE  WellFormed' /\ EndedIsHistory'
<1>1. /\ UNCHANGED <<pc, task>> /\ Closed(Cancels(x)) /\ JobsStay(Removes(x))
  BY CloseFrame
<1>2. \A b \in Requests : /\ row'[b].status = "NONE" <=> row[b].status = "NONE"
                          /\ row'[b].agent = row[b].agent
                          /\ row'[b].buyer = row[b].buyer
                          /\ row'[b].property = row[b].property
  BY <1>1 DEF Closed, Live
<1>3. RowsComplete'
  BY <1>2 DEF WellFormed, RowsComplete
<1>4. TasksWellFormed'
  <2> SUFFICES ASSUME NEW r \in Requests PROVE TaskWellFormed(r)'
    BY DEF TasksWellFormed
  <2>1. TaskWellFormed(r)
    BY DEF WellFormed, TasksWellFormed
  <2> QED BY <1>1, <1>2, <2>1 DEF TaskWellFormed
<1>5. JobsWellFormed'
  BY <1>1, <1>2 DEF WellFormed, JobsWellFormed, JobsStay
<1>6. EndedIsHistory'
  BY <1>1 DEF Closed, EndedIsHistory
<1> QED BY <1>3, <1>4, <1>5, <1>6 DEF WellFormed

LEMMA CloseKeepsCalendar ==
  ASSUME CalendarInv, ClosingTypes, NEW x \in Closings, Close(x)
  PROVE  CalendarKept /\ CalendarInv'
<1> USE DEF CalendarInv
<1>1. TypeOK' /\ WellFormed' /\ EndedIsHistory'
  BY CloseFrame, CloseKeepsWellFormed
<1>2. UNCHANGED <<pc, task, lock>> /\ Closed(Cancels(x))
  BY CloseFrame
<1>3. CalendarKept
  BY <1>2 DEF CalendarKept, Held, LiveBookings, Closed
<1>4. HoldsItsLock'
  BY <1>2 DEF HoldsItsLock
<1>5. CheckedSlotIsFree'
  BY <1>2, <1>3 DEF CalendarKept, CheckedSlotIsFree, Overlap
<1>6. AgentNeverDoubleBooked' /\ BuyerNeverDoubleBookedBehindOneLock'
  BY <1>3 DEF CalendarKept, AgentNeverDoubleBooked, BuyerNeverDoubleBookedBehindOneLock,
         Overlap
<1> QED BY <1>1, <1>3, <1>4, <1>5, <1>6

-----------------------------------------------------------------------------
(* The types of the closings *)

\* What is read of the confirmed bookings is bookings and reminder jobs.
LEMMA ReadType ==
  ASSUME NEW old \in Closing, NEW bs \in SUBSET Requests, NEW ms \in SUBSET Requests
  PROVE  [old EXCEPT !.confirmed = bs, !.mails = ms] \in Closing
BY DEF Closing

LEMMA ClosingTypesStep ==
  ASSUME TypeOK, WellFormed, ClosingTypes, NEW x \in Closings, Close(x)
  PROVE  ClosingTypes' /\ \A y \in Closings \ {x} : at'[y] = at[y] /\ closing'[y] = closing[y]
<1> USE DEF ClosingTypes, Step, ClosingLabels
<1> DEFINE Goal == /\ ClosingTypes'
                   /\ \A y \in Closings \ {x} : at'[y] = at[y] /\ closing'[y] = closing[y]
<1>1. CASE BeginClosing(x)
  <2>1. PICK p \in Properties, s \in {"SOLD", "RENTED"} :
          closing' = [closing EXCEPT ![x] =
            [property |-> p, agent |-> Unset, status |-> s, jobs |-> {},
             confirmed |-> {}, mails |-> {}, held |-> On(p), raced |-> {}]]
    BY <1>1 DEF BeginClosing
  <2>2. closing' \in [Closings -> Closing]
    BY <2>1 DEF Closing, On, LiveBookings
  <2> QED BY <1>1, <2>1, <2>2 DEF BeginClosing
<1>2. CASE ReadPending(x)
  <2>1. PICK bs \in SUBSET Requests :
          closing' = [closing EXCEPT ![x].jobs = {row[b].job : b \in bs} \ {Unset}]
    BY <1>2 DEF ReadPending, Page, On, LiveBookings
  <2>2. {row[b].job : b \in bs} \ {Unset} \subseteq Requests
    BY DEF TypeOK, Row
  <2>3. closing' \in [Closings -> Closing]
    BY <2>1, <2>2 DEF Closing
  <2> QED BY <1>2, <2>1, <2>3 DEF ReadPending
<1>3. CASE ReadConfirmed(x)
  <2>1. PICK bs \in SUBSET Requests :
          closing' = [closing EXCEPT ![x].confirmed = bs,
                                     ![x].mails = {m \in recorded : mail[m].booking \in bs}]
    BY <1>3 DEF ReadConfirmed, Page, On, LiveBookings
  <2>2. {m \in recorded : mail[m].booking \in bs} \subseteq Requests
    BY DEF TypeOK
  <2> DEFINE ms == {m \in recorded : mail[m].booking \in bs}
             old == closing[x]
             new == [old EXCEPT !.confirmed = bs, !.mails = ms]
  <2>3. closing' \in [Closings -> Closing]
    <3>1. new \in Closing
      <4>1. old \in Closing /\ ms \subseteq Requests
        BY <2>2
      <4> HIDE DEF old, ms
      <4> QED BY <4>1, ReadType
    <3>2. closing' = [closing EXCEPT ![x] = new]
      BY <2>1
    <3> HIDE DEF new
    <3> QED BY <3>1, <3>2
  <2> QED BY <1>3, <2>1, <2>3 DEF ReadConfirmed
<1>4. CASE DeactivateListings(x)
  <2>1. PICK a \in Agents : closing' = [closing EXCEPT ![x].agent = a]
    BY <1>4 DEF DeactivateListings
  <2>2. closing' \in [Closings -> Closing]
    BY <2>1 DEF Closing
  <2> QED BY <1>4, <2>1, <2>2 DEF DeactivateListings
<1>5. CASE RemoveJobs(x) \/ RemoveMails(x) \/ WriteListing(x) \/ CancelPending(x)
           \/ AbortClosing(x)
  BY <1>5 DEF RemoveJobs, RemoveMails, WriteListing, CancelPending, AbortClosing
<1>6. CASE CancelAll(x)
  <2>1. Confirming \subseteq Requests
    BY DEF Confirming, WellFormed, TasksWellFormed, TaskWellFormed
  <2>2. closing' = [closing EXCEPT ![x].raced = Confirming]
    BY <1>6 DEF CancelAll
  <2>3. closing' \in [Closings -> Closing]
    BY <2>1, <2>2 DEF Closing
  <2> QED BY <1>6, <2>2, <2>3 DEF CancelAll
<1> QED BY <1>1, <1>2, <1>3, <1>4, <1>5, <1>6 DEF Close

-----------------------------------------------------------------------------
(* The queue *)

LEMMA CloseKeepsQueue ==
  ASSUME TypeOK, WellFormed, ClosingTypes, JobsKnown, OpsKnown, NEW x \in Closings, Close(x)
  PROVE  JobsKnown' /\ OpsKnown'
<1>1. /\ UNCHANGED <<pc, task, claimed>> /\ Closed(Cancels(x)) /\ JobsStay(Removes(x))
  BY CloseFrame
<1>2. \A j \in Requests : /\ job'[j].booking = job[j].booking
                          /\ job'[j].state = "none" <=> job[j].state = "none"
  BY <1>1 DEF JobsStay
<1>3. JobsKnown'
  <2>1. \A j \in claimed' : job'[j].state # "none"
    BY <1>1, <1>2 DEF JobsKnown, TypeOK
  <2>2. \A b \in Requests : row'[b].job = row[b].job
    BY <1>1 DEF Closed
  <2>3. \A b \in Requests : row'[b].job # Unset =>
          /\ row'[b].job \in Requests /\ pc'[row'[b].job] = "done"
          /\ job'[row'[b].job].state # "none" /\ job'[row'[b].job].booking = b
    BY <1>1, <1>2, <2>2 DEF JobsKnown
  <2>4. \A r \in Requests : task'[r].job # Unset =>
          /\ task'[r].job \in Requests /\ pc'[task'[r].job] = "done"
          /\ job'[task'[r].job].state # "none"
          /\ job'[task'[r].job].booking = task'[r].booking
    BY <1>1, <1>2 DEF JobsKnown
  <2>5. \A r \in Requests :
          /\ job'[r].state # "none" => pc'[r] \in {"saveJob", "done"}
          /\ pc'[r] = "saveJob" => job'[r].state # "none" /\ job'[r].booking = task'[r].booking
    BY <1>1, <1>2 DEF JobsKnown
  <2> QED BY <2>1, <2>3, <2>4, <2>5 DEF JobsKnown
<1>4. \A r \in Requests : pc[r] = "removeJob" =>
        task[r].op = "reschedule" \/ row'[task[r].booking].status # "PENDING"
  <2> SUFFICES ASSUME NEW r \in Requests, pc[r] = "removeJob", task[r].op # "reschedule"
               PROVE  row'[task[r].booking].status # "PENDING"
    OBVIOUS
  <2>1. row[task[r].booking].status # "PENDING"
    BY DEF OpsKnown
  <2>2. task[r].booking \in Requests
    BY DEF WellFormed, TasksWellFormed, TaskWellFormed
  <2> QED BY <1>1, <2>1, <2>2 DEF Closed
<1>5. OpsKnown'
  BY <1>1, <1>4 DEF OpsKnown, Closed
<1> QED BY <1>3, <1>5

-----------------------------------------------------------------------------
(* What a closing has read, and what it ends *)

\* The bookings a closing found live exist and are of its listing, and so are
\* those whose jobs it is about to remove.
OfListing(x) ==
  /\ \A b \in closing[x].held :
       row[b].status # "NONE" /\ row[b].property = closing[x].property
  /\ at[x] = "removeJobs" =>
       \A j \in closing[x].jobs :
         job[j].state # "none" /\ row[job[j].booking].property = closing[x].property

\* Every step keeps a row, its listing and the booking of a job; and what is over
\* stays over.
Lasting ==
  /\ ended \subseteq ended'
  /\ \A b \in Requests :
       row[b].status # "NONE" =>
         /\ row'[b].status # "NONE" /\ row'[b].property = row[b].property
         /\ row'[b].status = "PENDING" => row[b].status = "PENDING"
  /\ \A j \in Requests :
       job[j].state # "none" => job'[j].state # "none" /\ job'[j].booking = job[j].booking

LEMMA NextLasts ==
  ASSUME TypeOK, WellFormed, JobsKnown, [Next]_vars
  PROVE  Lasting
<1>1. ASSUME NEW r \in Requests, AddAutoCancel(r)
      PROVE  \A j \in Requests : job[j].state # "none" => job'[j] = job[j]
  <2>1. job[r].state = "none"
    BY <1>1 DEF AddAutoCancel, JobsKnown
  <2> QED BY <1>1, <2>1 DEF AddAutoCancel, TypeOK
<1>2. ASSUME NEW r \in Requests, SaveJobId(r) PROVE job' = job
  BY <1>2 DEF SaveJobId, queueVars
<1>3. \A j \in Requests :
        job[j].state # "none" => job'[j].state # "none" /\ job'[j].booking = job[j].booking
  BY <1>1, <1>2, QuietSteps DEF Quietly
<1> QED BY <1>3, OnwardSteps DEF Lasting, Onward

LEMMA CloseLasts ==
  ASSUME TypeOK, ClosingTypes, NEW x \in Closings, Close(x)
  PROVE  Lasting
<1>1. Closed(Cancels(x)) /\ JobsStay(Removes(x))
  BY CloseFrame
<1> QED BY <1>1 DEF Lasting, Closed, JobsStay, Live

\* Only a confirmation makes a booking live that was not, one that had read it
\* pending; and a confirmation begins with a booking that is pending.
OnlyConfirmed ==
  /\ \A b \in Requests : row[b].status # "NONE" /\ row'[b].status \in Live =>
       \/ row'[b].status = row[b].status
       \/ row'[b].status = "CONFIRMED" /\ b \in Confirming
  /\ \A r \in Requests : pc'[r] = "write" /\ task'[r].op = "confirm" =>
       \/ pc[r] = "write" /\ task'[r] = task[r]
       \/ row[task'[r].booking].status = "PENDING"

LEMMA NextOnlyConfirms ==
  ASSUME TypeOK, WellFormed, [Next]_vars
  PROVE  OnlyConfirmed
<1> USE DEF OnlyConfirmed, TypeOK, queueVars, envVars, Goto, Finish
<1>t. \A r \in Requests : pc[r] \notin {"idle", "done"} => task[r].booking \in Requests
  BY DEF WellFormed, TasksWellFormed, TaskWellFormed
<1>1. ASSUME NEW r \in Requests, Begin(r) PROVE OnlyConfirmed
  <2>1. CASE BeginConfirm(r)
    <3>1. PICK b \in Requests : /\ row[b].status = "PENDING"
                                /\ task' = [task EXCEPT ![r] = Seen("confirm", b, {})]
      BY <2>1 DEF BeginConfirm
    <3>2. task'[r].booking = b /\ \A q \in Requests \ {r} : task'[q] = task[q]
      BY <3>1 DEF Seen
    <3> QED BY <2>1, <3>1, <3>2 DEF BeginConfirm
  <2>2. CASE BeginCreate(r) \/ BeginReschedule(r) \/ BeginClose(r) \/ BeginCancel(r)
    <3>1. UNCHANGED row /\ \A q \in Requests \ {r} : pc'[q] = pc[q] /\ task'[q] = task[q]
      BY <2>2 DEF BeginCreate, BeginReschedule, BeginClose, BeginCancel
    <3>2. pc'[r] # "write" \/ task'[r].op # "confirm"
      BY <2>2 DEF BeginCreate, BeginReschedule, BeginClose, BeginCancel, Seen, Asked,
         AskedToMove
    <3> QED BY <3>1, <3>2
  <2> QED BY <1>1, <2>1, <2>2 DEF Begin
<1>2. ASSUME NEW r \in Requests, InsertBooking(r) PROVE OnlyConfirmed
  <2>1. row[r].status = "NONE"
    BY <1>2 DEF InsertBooking, WellFormed, TasksWellFormed, TaskWellFormed, BeforeCommit,
           InTransaction
  <2> QED BY <1>2, <2>1 DEF InsertBooking
<1>3. ASSUME NEW r \in Requests, MoveBooking(r) \/ SaveJobId(r) PROVE OnlyConfirmed
  BY <1>3, <1>t DEF MoveBooking, SaveJobId, Moved, Row
<1>4. ASSUME NEW r \in Requests, WriteConfirmed(r) PROVE OnlyConfirmed
  <2>1. task[r].booking \in Confirming
    BY <1>4 DEF WriteConfirmed, Confirming
  <2> QED BY <1>4, <1>t, <2>1 DEF WriteConfirmed, Row
<1>5. ASSUME NEW r \in Requests, WriteClosed(r) \/ WriteCancelled(r) PROVE OnlyConfirmed
  BY <1>5, <1>t DEF WriteClosed, WriteCancelled, Row, Live
<1>6. ASSUME NEW r \in Requests,
             \/ TakeLock(r) \/ CheckAgent(r) \/ CheckBuyer(r) \/ Conflict(r)
             \/ RemoveAutoCancel(r) \/ AddAutoCancel(r) \/ Remind(r)
             \/ RecordReminders(r) \/ DropReminders(r) \/ DropReminderRows(r) \/ Abort(r)
      PROVE  OnlyConfirmed
  BY <1>6 DEF TakeLock, CheckAgent, CheckBuyer, Conflict, RemoveAutoCancel,
     AddAutoCancel, Remind, RecordReminders, DropReminders, DropReminderRows, Abort
<1>7. ASSUME NEW j \in Requests, WriteAutoCancel(j) PROVE OnlyConfirmed
  BY <1>7 DEF WriteAutoCancel, Row, Live
<1>8. ASSUME NEW j \in Requests, \/ StartJob(j) \/ ClaimJob(j) \/ ReadForAutoCancel(j)
                                 \/ FailJob(j) \/ SendReminder(j)
      PROVE  OnlyConfirmed
  BY <1>8 DEF StartJob, ClaimJob, ReadForAutoCancel, FailJob, SendReminder
<1>9. CASE Tick \/ (\E p \in Properties : SetListing(p)) \/ UNCHANGED vars
  BY <1>9 DEF Tick, SetListing, vars
<1> QED
  <2> HIDE DEF OnlyConfirmed, TypeOK
  <2> QED BY <1>1, <1>2, <1>3, <1>4, <1>5, <1>6, <1>7, <1>8, <1>9 DEF Next, Continue, Work

LEMMA CloseOnlyConfirms ==
  ASSUME TypeOK, ClosingTypes, NEW x \in Closings, Close(x)
  PROVE  OnlyConfirmed
<1>1. Closed(Cancels(x)) /\ UNCHANGED <<pc, task>>
  BY CloseFrame
<1> QED BY <1>1 DEF OnlyConfirmed, Closed, Live

LEMMA ListingKept ==
  ASSUME TypeOK, WellFormed, ClosingTypes, Lasting, NEW x \in Closings, OfListing(x),
         closing'[x].held = closing[x].held, closing'[x].property = closing[x].property,
         \/ at'[x] # "removeJobs"
         \/ at'[x] = at[x] /\ closing'[x].jobs = closing[x].jobs
  PROVE  OfListing(x)'
<1>1. \A j \in Requests : job[j].state # "none" =>
        job[j].booking \in Requests /\ row[job[j].booking].status # "NONE"
  BY DEF WellFormed, JobsWellFormed
<1>2. closing[x].held \subseteq Requests /\ closing[x].jobs \subseteq Requests
  BY DEF ClosingTypes, Closing
<1> QED BY <1>1, <1>2 DEF OfListing, Lasting

LEMMA CloseKeepsListing ==
  ASSUME TypeOK, WellFormed, JobsKnown, ClosingTypes, Lasting, NEW x \in Closings, Close(x),
         OfListing(x)
  PROVE  OfListing(x)'
<1> USE DEF ClosingTypes, Step
<1>1. CASE BeginClosing(x)
  <2>1. PICK p \in Properties : closing'[x].held = On(p) /\ closing'[x].property = p
    BY <1>1 DEF BeginClosing
  <2>2. at'[x] = "readPending" /\ row' = row
    BY <1>1 DEF BeginClosing, vars
  <2> QED BY <2>1, <2>2 DEF OfListing, On, LiveBookings, Live
<1>2. CASE ReadPending(x)
  <2>1. PICK bs \in SUBSET On(closing[x].property) :
          closing' = [closing EXCEPT ![x].jobs = {row[b].job : b \in bs} \ {Unset}]
    BY <1>2 DEF ReadPending, Page
  <2>2. closing[x] \in Closing
    OBVIOUS
  <2>3. /\ closing'[x].held = closing[x].held /\ closing'[x].property = closing[x].property
        /\ closing'[x].jobs = {row[b].job : b \in bs} \ {Unset}
    BY <2>1, <2>2 DEF Closing
  <2>4. UNCHANGED <<row, job>>
    BY <1>2 DEF ReadPending, vars
  <2>5. \A b \in bs : row[b].job # Unset =>
          /\ row[b].property = closing[x].property
          /\ job[row[b].job].state # "none" /\ job[row[b].job].booking = b
    BY DEF On, LiveBookings, JobsKnown
  <2> QED BY <2>3, <2>4, <2>5 DEF OfListing
<1>3. CASE ReadConfirmed(x) \/ DeactivateListings(x)
  <2>1. /\ closing'[x].held = closing[x].held /\ closing'[x].property = closing[x].property
        /\ at'[x] # "removeJobs"
    <3>1. CASE DeactivateListings(x)
      BY <3>1 DEF DeactivateListings, Closing
    <3>2. CASE ReadConfirmed(x)
      <4>1. PICK bs \in Page({b \in On(closing[x].property) : row[b].status = "CONFIRMED"}) :
              closing' = [closing EXCEPT ![x].confirmed = bs,
                                         ![x].mails = {m \in recorded : mail[m].booking \in bs}]
        BY <3>2 DEF ReadConfirmed
      <4>2. closing[x] \in Closing
        OBVIOUS
      <4>3. closing'[x].held = closing[x].held /\ closing'[x].property = closing[x].property
        BY <4>1, <4>2 DEF Closing
      <4> QED BY <3>2, <4>3 DEF ReadConfirmed
    <3> QED BY <1>3, <3>1, <3>2
  <2> QED BY <2>1, ListingKept
<1>4. CASE RemoveJobs(x) \/ RemoveMails(x) \/ WriteListing(x) \/ CancelPending(x)
           \/ AbortClosing(x)
  <2>1. closing' = closing /\ at'[x] # "removeJobs"
    BY <1>4 DEF RemoveJobs, RemoveMails, WriteListing, CancelPending, AbortClosing
  <2> QED BY <2>1, ListingKept
<1>5. CASE CancelAll(x)
  <2>1. closing' = [closing EXCEPT ![x].raced = Confirming] /\ at'[x] # "removeJobs"
    BY <1>5 DEF CancelAll
  <2>2. closing'[x].held = closing[x].held /\ closing'[x].property = closing[x].property
    BY <2>1 DEF Closing
  <2> QED BY <2>1, <2>2, ListingKept
<1> QED BY <1>1, <1>2, <1>3, <1>4, <1>5 DEF Close

\* Once a closing has cancelled, what it found is over, but for what is confirmed
\* by somebody who had read it before.
Spared(x, b) ==
  /\ row[b].status \in Live => row[b].status = "CONFIRMED" /\ b \in closing[x].raced
  /\ b \in Confirming => b \in closing[x].raced

EndsHeld(x) ==
  at[x] \in {"writeListing", "closed"} => \A b \in closing[x].held : Spared(x, b)

LEMMA EndsHeldKept ==
  ASSUME ClosingTypes, OnlyConfirmed, NEW x \in Closings, OfListing(x), EndsHeld(x),
         closing'[x].held = closing[x].held, closing'[x].raced = closing[x].raced,
         at'[x] \in {"writeListing", "closed"} => at[x] \in {"writeListing", "closed"}
  PROVE  EndsHeld(x)'
<1> SUFFICES ASSUME at[x] \in {"writeListing", "closed"}, NEW b \in closing[x].held
             PROVE  Spared(x, b)'
  BY DEF EndsHeld
<1>1. b \in Requests /\ row[b].status # "NONE" /\ Spared(x, b)
  BY DEF OfListing, ClosingTypes, Closing, EndsHeld
<1>2. row[b].status # "PENDING"
  BY <1>1 DEF Spared, Live
<1>3. row'[b].status \in Live => row'[b].status = "CONFIRMED" /\ b \in closing[x].raced
  BY <1>1 DEF Spared, OnlyConfirmed
<1>4. b \in Confirming' => b \in Confirming
  BY <1>2 DEF OnlyConfirmed, Confirming
<1> QED BY <1>1, <1>3, <1>4 DEF Spared

LEMMA CloseEndsHeld ==
  ASSUME TypeOK, ClosingTypes, OnlyConfirmed, NEW x \in Closings, Close(x),
         OfListing(x), EndsHeld(x)
  PROVE  EndsHeld(x)'
<1> USE DEF ClosingTypes, Step
<1>1. CASE CancelAll(x)
  <2>1. /\ closing'[x].held = closing[x].held /\ closing'[x].raced = Confirming
        /\ UNCHANGED <<pc, task>>
    <3>1. closing' = [closing EXCEPT ![x].raced = Confirming]
      BY <1>1 DEF CancelAll
    <3> QED BY <1>1, <3>1 DEF CancelAll, Closing
  <2>2. Closed(On(closing[x].property))
    <3>1. Cancels(x) = On(closing[x].property)
      BY <1>1 DEF CancelAll, Cancels
    <3> QED BY <3>1, CloseFrame
  <2>3. Confirming' = Confirming
    BY <2>1 DEF Confirming
  <2> SUFFICES ASSUME NEW b \in closing[x].held PROVE Spared(x, b)'
    BY <2>1 DEF EndsHeld
  <2>4. b \in Requests /\ row[b].property = closing[x].property
    BY DEF OfListing, Closing
  <2>5. row'[b].status \notin Live
    BY <2>2, <2>4 DEF Closed, On, LiveBookings, Live
  <2> QED BY <2>1, <2>3, <2>5 DEF Spared
<1>2. CASE WriteListing(x)
  <2>1. closing' = closing /\ at[x] = "writeListing"
    BY <1>2 DEF WriteListing
  <2> QED BY <2>1, EndsHeldKept
<1>3. CASE \/ BeginClosing(x) \/ ReadPending(x) \/ RemoveJobs(x) \/ ReadConfirmed(x)
           \/ RemoveMails(x) \/ DeactivateListings(x) \/ CancelPending(x) \/ AbortClosing(x)
  <2>1. at'[x] \notin {"writeListing", "closed"}
    BY <1>3 DEF BeginClosing, ReadPending, RemoveJobs, ReadConfirmed, RemoveMails,
           DeactivateListings, CancelPending, AbortClosing
  <2> QED BY <2>1 DEF EndsHeld
<1> QED BY <1>1, <1>2, <1>3 DEF Close

\* A closing that has removed the jobs of its listing is about to cancel, or died.
Waits(x, b) ==
  /\ at[x] \in {"readConfirmed", "removeMails", "cancelAll", "dead"}
  /\ closing[x].property = row[b].property

Covered(b) ==
  row[b].status = "PENDING" =>
    Awaited(b) \/ b \in ended \/ \E x \in Closings : Waits(x, b)

LEMMA NextKeepsCovered ==
  ASSUME TypeOK, WellFormed, JobsKnown, OpsKnown, [Next]_vars, UNCHANGED closingVars,
         NEW b \in Requests, Covered(b)
  PROVE  Covered(b)'
<1> SUFFICES ASSUME row'[b].status = "PENDING"
             PROVE  Awaited(b)' \/ b \in ended' \/ \E x \in Closings : Waits(x, b)'
  BY DEF Covered
<1>1. CASE row[b].status = "PENDING" => Awaited(b)
  BY <1>1, AwaitedStep
<1>2. CASE row[b].status = "PENDING" /\ ~ Awaited(b)
  <2>1. ended \subseteq ended' /\ row'[b].property = row[b].property
    BY <1>2, OnwardSteps DEF Onward
  <2>2. at' = at /\ closing' = closing
    BY DEF closingVars
  <2> QED BY <1>2, <2>1, <2>2 DEF Covered, Waits
<1> QED BY <1>1, <1>2

\* What a closing that waits to cancel does next.
LEMMA WaitingGoesOn ==
  ASSUME ClosingTypes, NEW x \in Closings, Close(x),
         at[x] \in {"removeJobs", "readConfirmed", "removeMails", "cancelAll", "dead"}
  PROVE  /\ closing'[x].property = closing[x].property
         /\ \/ at'[x] \in {"readConfirmed", "removeMails", "cancelAll", "dead"}
            \/ at[x] = "cancelAll" /\ at'[x] = "writeListing"
<1> USE DEF ClosingTypes, Step
<1>1. CASE ReadConfirmed(x)
  <2>1. PICK bs \in Page({b \in On(closing[x].property) : row[b].status = "CONFIRMED"}) :
          closing' = [closing EXCEPT ![x].confirmed = bs,
                                     ![x].mails = {m \in recorded : mail[m].booking \in bs}]
    BY <1>1 DEF ReadConfirmed
  <2>2. closing[x] \in Closing
    OBVIOUS
  <2>3. closing'[x].property = closing[x].property
    BY <2>1, <2>2 DEF Closing
  <2> QED BY <1>1, <2>3 DEF ReadConfirmed
<1>2. CASE RemoveJobs(x) \/ RemoveMails(x) \/ AbortClosing(x)
  BY <1>2 DEF RemoveJobs, RemoveMails, AbortClosing
<1>4. CASE CancelAll(x)
  <2>1. closing' = [closing EXCEPT ![x].raced = Confirming]
    BY <1>4 DEF CancelAll
  <2>2. closing'[x].property = closing[x].property
    BY <2>1 DEF Closing
  <2> QED BY <1>4, <2>2 DEF CancelAll
<1>3. ~ (BeginClosing(x) \/ ReadPending(x) \/ WriteListing(x) \/ DeactivateListings(x)
         \/ CancelPending(x))
  BY DEF BeginClosing, ReadPending, WriteListing, DeactivateListings, CancelPending
<1> QED BY <1>1, <1>2, <1>3, <1>4 DEF Close

LEMMA CloseKeepsCovered ==
  ASSUME TypeOK, WellFormed, ClosingTypes, Lasting, NEW x \in Closings, Close(x), OfListing(x),
         NEW b \in Requests, Covered(b)
  PROVE  Covered(b)'
<1> SUFFICES ASSUME row'[b].status = "PENDING"
             PROVE  Awaited(b)' \/ b \in ended' \/ \E y \in Closings : Waits(y, b)'
  BY DEF Covered
<1>1. /\ UNCHANGED <<pc, task, claimed, faults>>
      /\ Closed(Cancels(x)) /\ JobsStay(Removes(x))
  BY CloseFrame
<1>2. row[b].status = "PENDING" /\ b \notin Cancels(x) /\ row'[b].property = row[b].property
  BY <1>1 DEF Closed
<1>3. ASSUME NEW j \in Requests, WillCancel(j, b)
      PROVE  WillCancel(j, b)' \/ Waits(x, b)'
  <2>1. CASE job'[j].state = job[j].state
    BY <1>1, <1>3, <2>1 DEF WillCancel, JobsStay
  <2>2. CASE job'[j].state # job[j].state
    <3>1. at[x] = "removeJobs" /\ j \in closing[x].jobs
      BY <1>1, <2>2 DEF JobsStay, Removes
    <3>2. row[b].property = closing[x].property
      BY <1>3, <3>1 DEF OfListing, WillCancel
    <3>3. /\ closing'[x].property = closing[x].property
          /\ at'[x] \in {"readConfirmed", "removeMails", "cancelAll", "dead"}
      BY <3>1, WaitingGoesOn
    <3> QED BY <1>2, <3>2, <3>3 DEF Waits
  <2> QED BY <2>1, <2>2
<1>4. CASE Awaited(b)
  BY <1>1, <1>3, <1>4 DEF Awaited, WillAddJob
<1>5. CASE b \in ended
  BY <1>5 DEF Lasting
<1>6. ASSUME NEW y \in Closings, Waits(y, b) PROVE Waits(y, b)'
  <2>1. CASE y # x
    BY <1>2, <1>6, <2>1, ClosingTypesStep DEF Waits
  <2>2. CASE y = x
    <3>1. ~ (at[x] = "cancelAll" /\ at'[x] = "writeListing")
      <4>1. b \in On(closing[x].property)
        BY <1>2, <1>6, <2>2 DEF Waits, On, LiveBookings, Live
      <4> QED BY <1>2, <4>1 DEF Cancels
    <3>2. /\ closing'[x].property = closing[x].property
          /\ at'[x] \in {"readConfirmed", "removeMails", "cancelAll", "dead"}
      BY <1>6, <2>2, <3>1, WaitingGoesOn DEF Waits
    <3> QED BY <1>2, <1>6, <2>2, <3>2 DEF Waits
  <2> QED BY <2>1, <2>2
<1> QED BY <1>2, <1>4, <1>5, <1>6 DEF Covered

-----------------------------------------------------------------------------
(* The inductive invariant and what follows from it *)

MarketInv ==
  /\ CalendarInv /\ JobsKnown /\ OpsKnown /\ ClosingTypes
  /\ \A x \in Closings : OfListing(x) /\ EndsHeld(x)
  /\ \A b \in Requests : Covered(b)

LEMMA MarketStarts == MarketInit => MarketInv
<1> SUFFICES ASSUME MarketInit PROVE MarketInv
  OBVIOUS
<1>1. CalendarInv /\ QueueInv
  BY CalendarInit, QueueInit DEF MarketInit
<1>2. ClosingTypes
  BY DEF MarketInit, ClosingTypes, ClosingLabels, Closing, NoClosing
<1>3. \A x \in Closings : OfListing(x) /\ EndsHeld(x)
  BY DEF MarketInit, OfListing, EndsHeld, NoClosing
<1>4. \A b \in Requests : Covered(b)
  BY DEF MarketInit, Init, NoRow, Covered
<1> QED BY <1>1, <1>2, <1>3, <1>4 DEF MarketInv, QueueInv

LEMMA MarketStep == MarketInv /\ [MarketNext]_allVars => MarketInv'
<1> SUFFICES ASSUME MarketInv, [MarketNext]_allVars PROVE MarketInv'
  OBVIOUS
<1>1. /\ CalendarInv /\ TypeOK /\ WellFormed /\ EndedIsHistory /\ JobsKnown /\ OpsKnown
      /\ ClosingTypes
      /\ \A x \in Closings : OfListing(x) /\ EndsHeld(x)
      /\ \A b \in Requests : Covered(b)
  BY DEF MarketInv, CalendarInv
<1>2. CASE [Next]_vars /\ UNCHANGED closingVars
  <2>1. CalendarInv' /\ JobsKnown' /\ OpsKnown' /\ Lasting /\ OnlyConfirmed
    BY <1>1, <1>2, CalendarStep, JobsKnownStep, OpsKnownStep, NextLasts, NextOnlyConfirms
  <2>2. at' = at /\ closing' = closing
    BY <1>2 DEF closingVars
  <2>3. ClosingTypes'
    BY <1>1, <2>2 DEF ClosingTypes
  <2>4. \A x \in Closings : OfListing(x)' /\ EndsHeld(x)'
    BY <1>1, <2>1, <2>2, ListingKept, EndsHeldKept
  <2>5. \A b \in Requests : Covered(b)'
    BY <1>1, <1>2, NextKeepsCovered
  <2> QED BY <2>1, <2>3, <2>4, <2>5 DEF MarketInv
<1>3. ASSUME NEW x \in Closings, Close(x) PROVE MarketInv'
  <2>1. CalendarInv' /\ JobsKnown' /\ OpsKnown' /\ Lasting /\ OnlyConfirmed
    BY <1>1, <1>3, CloseKeepsCalendar, CloseKeepsQueue, CloseLasts, CloseOnlyConfirms
  <2>2. ClosingTypes' /\ \A y \in Closings \ {x} : at'[y] = at[y] /\ closing'[y] = closing[y]
    BY <1>1, <1>3, ClosingTypesStep
  <2>3. OfListing(x)' /\ EndsHeld(x)'
    BY <1>1, <1>3, <2>1, CloseKeepsListing, CloseEndsHeld
  <2>4. \A y \in Closings \ {x} : OfListing(y)' /\ EndsHeld(y)'
    BY <1>1, <2>1, <2>2, ListingKept, EndsHeldKept
  <2>5. \A b \in Requests : Covered(b)'
    BY <1>1, <1>3, <2>1, CloseKeepsCovered
  <2> QED BY <2>1, <2>2, <2>3, <2>4, <2>5 DEF MarketInv
<1>4. CASE UNCHANGED allVars
  BY <1>2, <1>4 DEF allVars
<1> QED BY <1>2, <1>3, <1>4 DEF MarketNext

LEMMA MarketSafe == MarketSpec => []MarketInv
BY MarketStarts, MarketStep, PTL DEF MarketSpec

\* The closings, composed with every request, worker and fault, keep the types.
THEOREM MarketTypeCorrect == MarketSpec => []ClosingTypeOK
<1>1. MarketInv => ClosingTypeOK
  BY DEF MarketInv, CalendarInv, ClosingTypes, ClosingTypeOK
<1> QED BY <1>1, MarketSafe, PTL

\* updateProperty to SOLD or RENTED: once it has cancelled, whatever page it has
\* read, no booking it found live on the listing is live, but one that a
\* confirmBooking had read PENDING before and writes CONFIRMED after that.
THEOREM ClosingSafe == MarketSpec => []ClosingEndsBookings
<1>1. MarketInv => ClosingEndsBookings
  BY DEF MarketInv, EndsHeld, Spared, ClosingEndsBookings, LiveBookings
<1> QED BY <1>1, MarketSafe, PTL

\* The auto-cancel jobs a closing removes are of bookings it goes on to cancel.
THEOREM StrippedSafe == MarketSpec => []StrippedIsCancelled
<1>1. MarketInv => StrippedIsCancelled
  <2> SUFFICES ASSUME NEW b \in Requests, Covered(b), row[b].status = "PENDING"
               PROVE  \/ faults > 0 \/ b \in ended \/ WillAddJob(b)
                      \/ \E j \in Requests : WillCancel(j, b)
                      \/ \E x \in Closings :
                           /\ at[x] \in {"readConfirmed", "removeMails", "cancelAll"}
                           /\ closing[x].property = row[b].property
                      \/ \E x \in Closings :
                           at[x] = "dead" /\ closing[x].property = row[b].property
    BY DEF MarketInv, StrippedIsCancelled
  <2> QED BY DEF Covered, Awaited, Waits
<1> QED BY <1>1, MarketSafe, PTL

\* With the closings too, bookings implement the agent's calendar.
THEOREM MarketRefinement == MarketSpec => MarketImplementsCalendar
<1>1. MarketInit => Calendar!Init
  <2> SUFFICES ASSUME MarketInit PROVE Calendar!Init
    OBVIOUS
  <2>1. \A b \in Requests : row[b].status = "NONE"
    BY DEF MarketInit, Init, NoRow
  <2> QED BY <2>1 DEF Calendar!Init, Reservations, Held, LiveBookings, Live
<1>2. MarketInv /\ [MarketNext]_allVars => [Calendar!Next]_Reservations
  <2> SUFFICES ASSUME MarketInv, [MarketNext]_allVars PROVE Calendar!Next
    OBVIOUS
  <2>1. CalendarInv /\ TypeOK /\ WellFormed /\ EndedIsHistory /\ ClosingTypes
    BY DEF MarketInv, CalendarInv
  <2>2. CalendarKept \/ \E r \in Requests : InsertBooking(r) \/ MoveBooking(r)
    <3>1. CASE [Next]_vars
      BY <2>1, <3>1, CalendarSteps
    <3>2. ASSUME NEW x \in Closings, Close(x) PROVE CalendarKept
      BY <2>1, <3>2, CloseKeepsCalendar
    <3>3. UNCHANGED allVars => UNCHANGED vars
      BY DEF allVars
    <3> QED BY <3>1, <3>2, <3>3 DEF MarketNext
  <2>3. Calendar!Release => Calendar!Next
    BY DEF Calendar!Next
  <2> QED BY <2>1, <2>2, <2>3, KeptReleases, InsertReserves, MoveMoves
<1> QED BY <1>1, <1>2, MarketSafe, PTL DEF MarketSpec, MarketImplementsCalendar, Calendar!Spec

\* The calendar's promise holds while listings are sold and agents deactivated under
\* their bookings as well: closing a listing frees slots and never gives one away twice.
THEOREM MarketPromise == MarketSpec => [](Calendar!Exclusive /\ Calendar!OneEach)
<1>1. CalendarHolds => Calendar!Exclusive /\ Calendar!OneEach
  BY DEF CalendarHolds
<1> QED BY <1>1, MarketRefinement, CalendarIsSafe, PTL DEF MarketImplementsCalendar

=============================================================================
