---------------------------- MODULE GalleryProofs ----------------------------
(***************************************************************************)
(* Proofs about Gallery, for any set of requests and contents.  The        *)
(* invariant adds what a process at each label holds (Held), that two      *)
(* choices of a primary image have not crossed while nothing says so       *)
(* (Ordered), that an upload which has seen an image is behind every       *)
(* deletion of the last one (Seen), and that what a job carries is stored  *)
(* (Stored).                                                               *)
(***************************************************************************)
EXTENDS Gallery, FiniteSetTheorems, TLAPS

USE GalleryAssumption

Held ==
  \A r \in Requests :
    /\ pc[r] \in {"idle", "waiting"} => attempt[r] < Attempts
    /\ pc[r] \in {"destroy", "deleteRow"} => task[r].rows = {task[r].image}
    /\ pc[r] \in {"idle", "waiting"} => task[r].up = {}

Ordered ==
  ~ crossed =>
    /\ \A q, r \in Requests : pc[q] = "set" /\ pc[r] = "set" => q = r
    /\ \A r \in Requests : pc[r] = "set" => primary = {}
    /\ \A i, j \in primary : i = j

Seen ==
  /\ status = "GONE" => images = {}
  /\ images = {} /\ SeenSome => unchosen \/ status = "GONE"

Stored == Carried \subseteq assets \cup torn

Inv == TypeOK /\ Held /\ Ordered /\ Seen /\ PrimaryChosen /\ Stored /\ RowHasFile

-----------------------------------------------------------------------------
(* Types *)

LEMMA NoTaskTyped == NoTask \in Task
BY DEF NoTask, Task, PropertyStatus

\* A process that has finished holds nothing.
LEMMA ForgetTypes ==
  ASSUME TypeOK, NEW r \in Requests, Forget(r)
  PROVE  task' \in [Requests -> Task]
BY NoTaskTyped DEF TypeOK, Forget

LEMMA InitInv == Init => Inv
<1> SUFFICES ASSUME Init PROVE Inv
  OBVIOUS
<1>1. TypeOK
  <2>1. task \in [Requests -> Task]
    BY NoTaskTyped DEF Init
  <2>2. pc \in [Requests -> Labels] /\ attempt \in [Requests -> 0 .. Attempts]
    BY DEF Init, Labels, Attempts
  <2>3. status \in PropertyStatus /\ faults \in 0 .. MaxFaults
    BY DEF Init, PropertyStatus
  <2> QED BY <2>1, <2>2, <2>3 DEF Init, TypeOK
<1>2. Held /\ Ordered /\ Seen /\ PrimaryChosen
  BY DEF Init, NoTask, Held, Ordered, Seen, SeenSome, PrimaryChosen, Attempts
<1>3. Stored /\ RowHasFile
  BY DEF Init, Stored, Carried, RowHasFile
<1> QED BY <1>1, <1>2, <1>3 DEF Inv

\* A retry leaves a request as typed as it was.
LEMMA RetryTypes ==
  ASSUME TypeOK, NEW r \in Requests, Retry(r)
  PROVE  pc' \in [Requests -> Labels] /\ task' \in [Requests -> Task]
BY ForgetTypes DEF TypeOK, Retry, GoTo, Labels, JobLabels

LEMMA FinishTypes ==
  ASSUME TypeOK, NEW r \in Requests, Finish(r)
  PROVE  pc' \in [Requests -> Labels] /\ task' \in [Requests -> Task]
BY ForgetTypes DEF TypeOK, Finish, GoTo, Labels

LEMMA Forgotten ==
  ASSUME TypeOK, NEW r \in Requests, Forget(r)
  PROVE  task'[r].up = {}
BY DEF TypeOK, Forget, NoTask

\* Every step keeps the types.
LEMMA TypeStep == TypeOK /\ Held /\ [Next]_vars => TypeOK'
<1> SUFFICES ASSUME TypeOK, Held, [Next]_vars PROVE TypeOK'
  OBVIOUS
<1> USE DEF TypeOK, GoTo, rows, jobVars, histVars
<1>1. ASSUME NEW r \in Requests, Ask(r) PROVE TypeOK'
  <2>1. task' \in [Requests -> Task]
    <3>1. CASE AskUpload(r)
      <4>1. CASE Finish(r)
        BY <4>1, FinishTypes
      <4>2. ASSUME NEW fs \in SUBSET Files, task' = [task EXCEPT ![r].files = fs]
            PROVE  task' \in [Requests -> Task]
        BY <4>2 DEF Task
      <4> QED BY <3>1, <4>1, <4>2 DEF AskUpload
    <3>2. CASE AskPrimary(r)
      BY <3>2 DEF AskPrimary, Task
    <3>3. CASE AskDeleteImage(r)
      <4>1. PICK i \in images : task' = [task EXCEPT ![r].image = i, ![r].rows = {i}]
        BY <3>3 DEF AskDeleteImage
      <4>2. [task[r] EXCEPT !.image = i, !.rows = {i}] \in Task
        BY DEF Task
      <4> QED BY <4>1, <4>2
    <3>4. CASE AskUpdate(r)
      <4>1. PICK s \in Targets : task' = [task EXCEPT ![r].read = status, ![r].target = s]
        BY <3>4 DEF AskUpdate
      <4>2. status \in PropertyStatus
        BY <3>4 DEF AskUpdate, Asked
      <4>3. [task[r] EXCEPT !.read = status, !.target = s] \in Task
        BY <4>2 DEF Task
      <4> QED BY <4>1, <4>3
    <3>5. CASE AskForce(r)
      <4>1. PICK s \in Targets : task' = [task EXCEPT ![r].read = status, ![r].target = s]
        BY <3>5 DEF AskForce
      <4>2. status \in PropertyStatus
        BY <3>5 DEF AskForce, Asked
      <4>3. [task[r] EXCEPT !.read = status, !.target = s] \in Task
        BY <4>2 DEF Task
      <4> QED BY <4>1, <4>3
    <3>6. CASE AskDeleteListing(r)
      BY <3>6 DEF AskDeleteListing
    <3> QED BY <1>1, <3>1, <3>2, <3>3, <3>4, <3>5, <3>6 DEF Ask
  <2>2. pc' \in [Requests -> Labels]
    BY <1>1 DEF Ask, AskUpload, AskPrimary, AskDeleteImage, AskUpdate, AskForce,
           AskDeleteListing, Finish, Labels, JobLabels
  <2>3. UNCHANGED <<status, rows, assets, jobVars, faults, histVars>>
    BY <1>1 DEF Ask, AskUpload, AskPrimary, AskDeleteImage, AskUpdate, AskForce,
           AskDeleteListing
  <2> QED BY <2>1, <2>2, <2>3
<1>2. ASSUME NEW r \in Requests, ClaimJob(r) PROVE TypeOK'
  BY <1>2, FinishTypes DEF ClaimJob, Held, Attempts, Labels, JobLabels
<1>3. ASSUME NEW r \in Requests, NEW f \in Files, UploadFile(r, f) PROVE TypeOK'
  <2>1. /\ [task[r] EXCEPT !.files = @ \ {f}, !.up = @ \cup {f}] \in Task
        /\ [task[r] EXCEPT !.files = @ \ {f}] \in Task
    BY DEF Task
  <2>2. task' \in [Requests -> Task] /\ pc' \in [Requests -> Labels]
    BY <1>3, <2>1 DEF UploadFile, Labels, JobLabels
  <2> QED BY <1>3, <2>2 DEF UploadFile
<1>4. ASSUME NEW r \in Requests, ReadExisting(r) PROVE TypeOK'
  <2>1. (images = {}) \in BOOLEAN
    OBVIOUS
  <2>2. [task[r] EXCEPT !.first = (images = {})] \in Task
    BY <2>1 DEF Task
  <2>3. task' \in [Requests -> Task] /\ pc' \in [Requests -> Labels]
    BY <1>4, <2>2 DEF ReadExisting, Labels, JobLabels
  <2> QED BY <1>4, <2>3 DEF ReadExisting
<1>5. ASSUME NEW r \in Requests, CreateRows(r) PROVE TypeOK'
  <2>1. task[r].up \subseteq Files
    BY DEF Task
  <2>2. images' \subseteq Image /\ images \subseteq images'
    BY <1>5, <2>1 DEF CreateRows, Image
  <2>3. pc' \in [Requests -> Labels] /\ task' \in [Requests -> Task]
    BY <1>5, RetryTypes, ForgetTypes DEF CreateRows, Labels, JobLabels
  <2> QED BY <1>5, <2>2, <2>3 DEF CreateRows
<1>6. ASSUME NEW r \in Requests, ChooseImage(r) PROVE TypeOK'
  <2>1. \A i \in images : [task[r] EXCEPT !.image = i] \in Task
    BY DEF Task
  <2>2. task' \in [Requests -> Task] /\ pc' \in [Requests -> Labels]
    BY <1>6, <2>1, FinishTypes DEF ChooseImage, Labels, JobLabels
  <2> QED BY <1>6, <2>2 DEF ChooseImage
<1>7. ASSUME NEW r \in Requests, ClearPrimary(r) PROVE TypeOK'
  BY <1>7 DEF ClearPrimary, Labels, JobLabels
<1>8. ASSUME NEW r \in Requests, SetPrimary(r) PROVE TypeOK'
  <2>1. pc' \in [Requests -> Labels] /\ task' \in [Requests -> Task]
    BY <1>8, RetryTypes, FinishTypes DEF SetPrimary
  <2> QED BY <1>8, <2>1 DEF SetPrimary
<1>9. ASSUME NEW r \in Requests, DestroyFile(r) \/ \E f \in Files : DestroyOne(r, f)
      PROVE  TypeOK'
  <2>1. task[r].rows \subseteq Image
    BY DEF Task
  <2>2. ContentOf(task[r].rows) \subseteq Files
    BY <2>1 DEF ContentOf, Image
  <2>3. \A fs : Stranded(r, fs) \subseteq fs
    BY DEF Stranded
  <2>4. torn' \subseteq Files /\ assets' \subseteq Files
    BY <1>9, <2>2, <2>3 DEF DestroyFile, DestroyOne
  <2>5. CASE DestroyFile(r)
    BY <2>4, <2>5, FinishTypes DEF DestroyFile, Labels
  <2>6. ASSUME NEW f \in Files, DestroyOne(r, f) PROVE TypeOK'
    <3>1. [task[r] EXCEPT !.files = @ \ {f}] \in Task
      BY DEF Task
    <3>2. task' \in [Requests -> Task]
      BY <2>6, <3>1 DEF DestroyOne
    <3> QED BY <2>4, <2>6, <3>2 DEF DestroyOne, Labels
  <2> QED BY <1>9, <2>5, <2>6
<1>10. ASSUME NEW r \in Requests, DeleteRow(r) PROVE TypeOK'
  <2>1. unchosen' \in BOOLEAN
    <3>1. SeenSome \in BOOLEAN
      BY DEF SeenSome
    <3> QED BY <1>10, <3>1 DEF DeleteRow
  <2> QED BY <1>10, <2>1, FinishTypes DEF DeleteRow
<1>11. ASSUME NEW r \in Requests, CheckImages(r) \/ ReadImages(r) PROVE TypeOK'
  <2>1. CASE CheckImages(r)
    BY <2>1, FinishTypes DEF CheckImages, Labels
  <2>2. CASE ReadImages(r)
    <3>1. PICK is \in SUBSET images :
            task' = [task EXCEPT ![r].rows = is, ![r].files = ContentOf(is)]
      BY <2>2 DEF ReadImages, Page
    <3>2. ContentOf(is) \subseteq Files
      BY DEF ContentOf, Image
    <3>3. [task[r] EXCEPT !.rows = is, !.files = ContentOf(is)] \in Task
      BY <3>2 DEF Task
    <3>4. task' \in [Requests -> Task]
      BY <3>1, <3>3
    <3> QED BY <2>2, <3>4 DEF ReadImages, Labels
  <2> QED BY <1>11, <2>1, <2>2
<1>12. ASSUME NEW r \in Requests, WriteStatus(r) PROVE TypeOK'
  BY <1>12, FinishTypes DEF WriteStatus, Task
<1>13. ASSUME NEW r \in Requests, DeleteListing(r) PROVE TypeOK'
  BY <1>13, FinishTypes DEF DeleteListing
<1>14. ASSUME NEW r \in Requests, KeepListing(r) \/ FailDelete(r) PROVE TypeOK'
  <2>1. ContentOf(task[r].rows) \subseteq Files
    BY DEF Task, ContentOf, Image
  <2> QED BY <1>14, <2>1, FinishTypes DEF KeepListing, FailDelete
<1>15. ASSUME NEW r \in Requests, FailJob(r) PROVE TypeOK'
  BY <1>15, RetryTypes DEF FailJob
<1>16. ASSUME NEW r \in Requests, FailPrimary(r) PROVE TypeOK'
  BY <1>16, FinishTypes DEF FailPrimary
<1>17. CASE UNCHANGED vars
  BY <1>17 DEF vars
<1> QED
  <2> HIDE DEF TypeOK
  <2> QED BY <1>1, <1>2, <1>3, <1>4, <1>5, <1>6, <1>7, <1>8, <1>9, <1>10, <1>11, <1>12,
             <1>13, <1>14, <1>15, <1>16, <1>17 DEF Next, Work, Fail

-----------------------------------------------------------------------------
(* What processes hold *)

\* A step moves one process.
LEMMA Frame ==
  ASSUME TypeOK, NEW r \in Requests, Ask(r) \/ Work(r) \/ Fail(r)
  PROVE  \A q \in Requests \ {r} :
           pc'[q] = pc[q] /\ task'[q] = task[q] /\ attempt'[q] = attempt[q]
<1> USE DEF TypeOK, GoTo, Retry, Forget, Finish, jobVars
<1>1. CASE Ask(r)
  BY <1>1 DEF Ask, AskUpload, AskPrimary, AskDeleteImage, AskUpdate, AskForce,
         AskDeleteListing
<1>2. CASE Work(r)
  <2>1. CASE \/ ClaimJob(r) \/ ReadExisting(r) \/ ChooseImage(r)
             \/ \E f \in Files : UploadFile(r, f)
    BY <2>1 DEF ClaimJob, UploadFile, ReadExisting, ChooseImage
  <2>2. CASE CreateRows(r) \/ ClearPrimary(r) \/ SetPrimary(r)
    BY <2>2 DEF CreateRows, ClearPrimary, SetPrimary
  <2>3. CASE DestroyFile(r) \/ DeleteRow(r) \/ CheckImages(r) \/ WriteStatus(r)
    BY <2>3 DEF DestroyFile, DeleteRow, CheckImages, WriteStatus
  <2>4. CASE \/ ReadImages(r) \/ DeleteListing(r) \/ KeepListing(r)
             \/ \E f \in Files : DestroyOne(r, f)
    BY <2>4 DEF ReadImages, DestroyOne, DeleteListing, KeepListing
  <2> QED BY <1>2, <2>1, <2>2, <2>3, <2>4 DEF Work
<1>3. CASE Fail(r)
  BY <1>3 DEF Fail, FailJob, FailPrimary, FailDelete
<1> QED BY <1>1, <1>2, <1>3

\* Every step keeps what each process carries.
LEMMA HeldStep == TypeOK /\ Held /\ [Next]_vars => Held'
<1> SUFFICES ASSUME TypeOK, Held, [Next]_vars PROVE Held'
  OBVIOUS
<1>1. CASE UNCHANGED vars
  BY <1>1 DEF Held, vars, jobVars
<1>2. ASSUME NEW r \in Requests, Ask(r) \/ Work(r) \/ Fail(r) PROVE Held'
  <2> SUFFICES /\ pc'[r] \in {"idle", "waiting"} => attempt'[r] < Attempts
               /\ pc'[r] \in {"destroy", "deleteRow"} => task'[r].rows = {task'[r].image}
               /\ pc'[r] \in {"idle", "waiting"} => task'[r].up = {}
    BY <1>2, Frame DEF Held
  <2> USE DEF TypeOK, Held, GoTo, Finish, jobVars
  <2>1. CASE Ask(r)
    <3>1. pc[r] = "idle" /\ UNCHANGED attempt
      BY <2>1 DEF Ask, AskUpload, AskPrimary, AskDeleteImage, AskUpdate, AskForce,
             AskDeleteListing, Asked
    <3>2. pc'[r] \in {"destroy", "deleteRow"} => AskDeleteImage(r)
      BY <2>1 DEF Ask, AskUpload, AskPrimary, AskUpdate, AskForce, AskDeleteListing
    <3>3. AskDeleteImage(r) => task'[r].rows = {task'[r].image}
      <4> SUFFICES ASSUME AskDeleteImage(r) PROVE task'[r].rows = {task'[r].image}
        OBVIOUS
      <4>1. PICK i \in images : task' = [task EXCEPT ![r].image = i, ![r].rows = {i}]
        BY DEF AskDeleteImage
      <4>2. task'[r] = [task[r] EXCEPT !.image = i, !.rows = {i}]
        BY <4>1
      <4> QED BY <4>2 DEF Task
    <3>4. pc'[r] \in {"idle", "waiting"} => task'[r].up = {}
      <4> SUFFICES ASSUME pc'[r] \in {"idle", "waiting"} PROVE task'[r].up = {}
        OBVIOUS
      <4>1. /\ AskUpload(r)
            /\ \E fs \in SUBSET Files : task' = [task EXCEPT ![r].files = fs]
        BY <2>1, <3>1 DEF Ask, AskUpload, AskPrimary, AskDeleteImage, AskUpdate, AskForce,
               AskDeleteListing
      <4>2. PICK fs \in SUBSET Files : task'[r] = [task[r] EXCEPT !.files = fs]
        BY <4>1
      <4> QED BY <3>1, <4>2 DEF Task
    <3> QED BY <3>1, <3>2, <3>3, <3>4
  <2>2. CASE \/ SetPrimary(r) \/ CreateRows(r) \/ FailJob(r)
    <3>1. pc'[r] = "waiting" => attempt'[r] < Attempts /\ Forget(r)
      BY <2>2 DEF SetPrimary, CreateRows, FailJob, Retry
    <3>2. pc'[r] \notin {"idle", "destroy", "deleteRow"}
      BY <2>2 DEF SetPrimary, CreateRows, FailJob, Retry
    <3> QED BY <3>1, <3>2, Forgotten
  <2>3. CASE \/ ClaimJob(r) \/ ReadExisting(r) \/ ChooseImage(r)
             \/ \E f \in Files : UploadFile(r, f)
    BY <2>3 DEF ClaimJob, UploadFile, ReadExisting, ChooseImage
  <2>4. CASE ClearPrimary(r) \/ FailPrimary(r) \/ FailDelete(r)
    BY <2>4 DEF ClearPrimary, FailPrimary, FailDelete
  <2>5. CASE DestroyFile(r) \/ DeleteRow(r) \/ CheckImages(r) \/ WriteStatus(r)
    BY <2>5 DEF DestroyFile, DeleteRow, CheckImages, WriteStatus
  <2>6. CASE \/ ReadImages(r) \/ DeleteListing(r) \/ KeepListing(r)
             \/ \E f \in Files : DestroyOne(r, f)
    BY <2>6 DEF ReadImages, DestroyOne, DeleteListing, KeepListing
  <2> QED BY <1>2, <2>1, <2>2, <2>3, <2>4, <2>5, <2>6 DEF Work, Fail
<1> QED BY <1>1, <1>2 DEF Next

-----------------------------------------------------------------------------
(* The primary image *)

\* The steps that neither choose nor lose a primary image.
LEMMA Aside ==
  ASSUME TypeOK, NEW r \in Requests,
         \/ Ask(r) \/ ClaimJob(r) \/ ReadExisting(r)
         \/ DestroyFile(r) \/ CheckImages(r) \/ WriteStatus(r)
         \/ ReadImages(r) \/ KeepListing(r) \/ FailDelete(r)
         \/ \E f \in Files : UploadFile(r, f) \/ DestroyOne(r, f)
  PROVE  /\ UNCHANGED <<images, primary, crossed, unchosen>>
         /\ pc[r] \notin {"create", "choose", "clear", "set"}
         /\ pc'[r] # "set"
         /\ status' = "GONE" <=> status = "GONE"
         /\ pc'[r] = "create" => ReadExisting(r)
<1> USE DEF TypeOK, GoTo, Finish, rows, histVars
<1>1. CASE Ask(r)
  BY <1>1 DEF Ask, AskUpload, AskPrimary, AskDeleteImage, AskUpdate, AskForce,
         AskDeleteListing, Asked
<1>2. CASE ClaimJob(r) \/ ReadExisting(r) \/ \E f \in Files : UploadFile(r, f)
  BY <1>2 DEF ClaimJob, UploadFile, ReadExisting
<1>3. CASE \/ DestroyFile(r) \/ CheckImages(r) \/ ReadImages(r)
           \/ \E f \in Files : DestroyOne(r, f)
  BY <1>3 DEF DestroyFile, CheckImages, ReadImages, DestroyOne
<1>4. CASE WriteStatus(r)
  BY <1>4 DEF WriteStatus, Task, PropertyStatus
<1>5. CASE KeepListing(r) \/ FailDelete(r)
  BY <1>5 DEF KeepListing, FailDelete
<1> QED BY <1>1, <1>2, <1>3, <1>4, <1>5

\* The steps that do.
Chooses(r) ==
  \/ CreateRows(r) \/ ChooseImage(r) \/ ClearPrimary(r) \/ SetPrimary(r)
  \/ DeleteRow(r) \/ DeleteListing(r) \/ FailJob(r) \/ FailPrimary(r)

\* Until calls cross, every step keeps one process between clearing and setting.
LEMMA OrderedStep == TypeOK /\ Ordered /\ [Next]_vars => Ordered'
<1> SUFFICES ASSUME TypeOK, Ordered, [Next]_vars PROVE Ordered'
  OBVIOUS
<1>1. CASE UNCHANGED vars
  BY <1>1 DEF Ordered, vars, rows, histVars
<1>2. ASSUME NEW r \in Requests, Ask(r) \/ Work(r) \/ Fail(r), ~ Chooses(r) PROVE Ordered'
  <2>1. UNCHANGED <<primary, crossed>> /\ pc'[r] # "set"
    BY <1>2, Aside DEF Work, Fail, Chooses
  <2> QED BY <1>2, <2>1, Frame DEF Ordered
<1>3. ASSUME NEW r \in Requests, Chooses(r) PROVE Ordered'
  <2> USE DEF TypeOK, Ordered, GoTo, Finish, rows, histVars
  <2>1. CASE CreateRows(r) \/ ChooseImage(r)
    BY <2>1 DEF CreateRows, ChooseImage, Retry
  <2>2. CASE ClearPrimary(r)
    BY <2>2 DEF ClearPrimary
  <2>3. CASE SetPrimary(r)
    BY <2>3 DEF SetPrimary, Retry
  <2>4. CASE DeleteRow(r) \/ DeleteListing(r)
    BY <2>4 DEF DeleteRow, DeleteListing
  <2>5. CASE FailJob(r) \/ FailPrimary(r)
    BY <2>5 DEF FailJob, FailPrimary, Retry
  <2> QED BY <1>3, <2>1, <2>2, <2>3, <2>4, <2>5 DEF Chooses
<1> QED BY <1>1, <1>2, <1>3 DEF Next, Chooses, Work, Fail

\* Every step keeps what the jobs have seen.
LEMMA SeenStep == TypeOK /\ Seen /\ [Next]_vars => Seen'
<1> SUFFICES ASSUME TypeOK, Seen, [Next]_vars PROVE Seen'
  OBVIOUS
<1>1. CASE UNCHANGED vars
  BY <1>1 DEF Seen, SeenSome, vars, rows, histVars
<1>2. ASSUME NEW r \in Requests, Ask(r) \/ Work(r) \/ Fail(r), ~ Chooses(r) PROVE Seen'
  <2>1. /\ UNCHANGED <<images, unchosen>> /\ (status' = "GONE" <=> status = "GONE")
        /\ pc'[r] = "create" => ReadExisting(r)
    BY <1>2, Aside DEF Work, Fail, Chooses
  <2>2. ReadExisting(r) => task'[r].first = (images = {})
    BY DEF ReadExisting, TypeOK, Task
  <2>3. images = {} /\ SeenSome' => SeenSome
    BY <1>2, <2>1, <2>2, Frame DEF SeenSome
  <2> QED BY <2>1, <2>3 DEF Seen
<1>3. ASSUME NEW r \in Requests, Chooses(r) PROVE Seen'
  <2> USE DEF TypeOK, Seen, SeenSome, GoTo, Forget, Finish, rows, histVars
  <2>1. CASE CreateRows(r)
    BY <2>1 DEF CreateRows, Retry
  <2>2. CASE ChooseImage(r) \/ ClearPrimary(r)
    BY <2>2 DEF ChooseImage, ClearPrimary
  <2>3. CASE SetPrimary(r)
    BY <2>3 DEF SetPrimary, Retry
  <2>4. CASE DeleteRow(r)
    BY <2>4 DEF DeleteRow
  <2>5. CASE DeleteListing(r)
    BY <2>5 DEF DeleteListing
  <2>6. CASE FailJob(r) \/ FailPrimary(r)
    BY <2>6 DEF FailJob, FailPrimary, Retry
  <2> QED BY <1>3, <2>1, <2>2, <2>3, <2>4, <2>5, <2>6 DEF Chooses
<1> QED BY <1>1, <1>2, <1>3 DEF Next, Chooses, Work, Fail

\* Every step keeps a primary image chosen, but for the named cases.
LEMMA PrimaryStep == TypeOK /\ Seen /\ PrimaryChosen /\ [Next]_vars => PrimaryChosen'
<1> SUFFICES ASSUME TypeOK, Seen, PrimaryChosen, [Next]_vars PROVE PrimaryChosen'
  OBVIOUS
<1>1. CASE UNCHANGED vars
  BY <1>1 DEF PrimaryChosen, vars, rows, histVars
<1>2. ASSUME NEW r \in Requests, Ask(r) \/ Work(r) \/ Fail(r), ~ Chooses(r)
      PROVE  PrimaryChosen'
  <2>1. UNCHANGED <<images, primary, unchosen>> /\ pc[r] \notin {"choose", "clear", "set"}
    BY <1>2, Aside DEF Work, Fail, Chooses
  <2> QED BY <1>2, <2>1, Frame DEF PrimaryChosen
<1>3. ASSUME NEW r \in Requests, Chooses(r) PROVE PrimaryChosen'
  <2> USE DEF TypeOK, PrimaryChosen, GoTo, Finish, rows, histVars
  <2>1. CASE CreateRows(r)
    BY <2>1 DEF CreateRows, Retry, Seen, SeenSome
  <2>2. CASE ChooseImage(r)
    BY <2>2 DEF ChooseImage
  <2>3. CASE ClearPrimary(r)
    BY <2>3 DEF ClearPrimary
  <2>4. CASE SetPrimary(r)
    BY <2>4 DEF SetPrimary, Retry
  <2>5. CASE DeleteRow(r)
    <3> SUFFICES ASSUME images' # {} PROVE PrimaryChosen'
      OBVIOUS
    <3>1. unchosen' = (unchosen \/ task[r].image \in primary) /\ images # {}
      BY <2>5 DEF DeleteRow
    <3>2. pc[r] = "deleteRow" /\ primary' = primary \ {task[r].image}
      BY <2>5 DEF DeleteRow
    <3>3. \A q \in Requests \ {r} : pc'[q] = pc[q]
      BY <2>5 DEF DeleteRow
    <3> QED BY <3>1, <3>2, <3>3
  <2>6. CASE DeleteListing(r)
    BY <2>6 DEF DeleteListing
  <2>7. CASE FailJob(r) \/ FailPrimary(r)
    BY <2>7 DEF FailJob, FailPrimary, Retry
  <2> QED BY <1>3, <2>1, <2>2, <2>3, <2>4, <2>5, <2>6, <2>7 DEF Chooses
<1> QED BY <1>1, <1>2, <1>3 DEF Next, Chooses, Work, Fail

-----------------------------------------------------------------------------
(* Files *)

Carriers == {q \in Requests : pc[q] \in {"upload", "existing", "create"}}

\* A file in a job's hands is one of those carried.
LEMMA InCarried ==
  \A f : f \in Carried <=> \E q \in Carriers : f \in task[q].up
BY DEF Carried, Carriers

\* What r carries after a step it carried before, or has just uploaded.
LEMMA CarriedSteps ==
  ASSUME TypeOK, Held, NEW r \in Requests, Ask(r) \/ Work(r) \/ Fail(r)
  PROVE  Carried' \subseteq Carried \cup
           {f \in Files : UploadFile(r, f) /\ f \in assets'}
<1> USE DEF TypeOK, GoTo, Finish
<1>1. r \in Carriers' =>
        ClaimJob(r) \/ ReadExisting(r) \/ \E f \in Files : UploadFile(r, f)
  <2>1. CASE Ask(r)
    BY <2>1 DEF Carriers, Ask, AskUpload, AskPrimary, AskDeleteImage, AskUpdate, AskForce,
           AskDeleteListing
  <2>2. CASE Work(r)
    BY <2>2 DEF Carriers, Work, CreateRows, ChooseImage, ClearPrimary, SetPrimary,
           DestroyFile, DeleteRow, CheckImages, WriteStatus, ReadImages, DestroyOne,
           DeleteListing, KeepListing, Retry
  <2>3. CASE Fail(r)
    BY <2>3 DEF Carriers, Fail, FailJob, FailPrimary, FailDelete, Retry
  <2> QED BY <2>1, <2>2, <2>3
<1>2. ReadExisting(r) => r \in Carriers /\ task'[r].up = task[r].up
  BY DEF ReadExisting, Carriers, Task
<1>3. r \in Carriers' /\ ClaimJob(r) => task'[r].up = {}
  BY DEF ClaimJob, Carriers, Held
<1>4. ASSUME NEW f \in Files, UploadFile(r, f)
      PROVE  /\ r \in Carriers
             /\ \/ task'[r].up = task[r].up
                \/ task'[r].up = task[r].up \cup {f} /\ f \in assets'
  <2>1. task[r] \in Task /\ r \in Carriers
    BY <1>4 DEF UploadFile, Carriers
  <2>2. CASE task' = [task EXCEPT ![r].files = @ \ {f}]
    <3>1. task'[r] = [task[r] EXCEPT !.files = @ \ {f}]
      BY <2>2
    <3> QED BY <2>1, <3>1 DEF Task
  <2>3. CASE /\ f \in assets'
             /\ task' = [task EXCEPT ![r].files = @ \ {f}, ![r].up = @ \cup {f}]
    <3>1. task'[r] = [task[r] EXCEPT !.files = @ \ {f}, !.up = @ \cup {f}]
      BY <2>3
    <3> QED BY <2>1, <2>3, <3>1 DEF Task
  <2> QED BY <1>4, <2>2, <2>3 DEF UploadFile
<1>5. \A q \in Carriers' \ {r} : q \in Carriers /\ task'[q].up = task[q].up
  BY Frame DEF Carriers
<1>6. \A f : f \in Carried' <=> \E q \in Carriers' : f \in task'[q].up
  BY DEF Carried, Carriers
<1> SUFFICES ASSUME NEW g \in Carried', g \notin Carried
             PROVE  \E f \in Files : f = g /\ UploadFile(r, f) /\ f \in assets'
  OBVIOUS
<1>7. r \in Carriers' /\ g \in task'[r].up
  BY <1>5, <1>6, InCarried
<1> QED BY <1>1, <1>2, <1>3, <1>4, <1>7, InCarried

\* The steps that change what is stored, or the rows that need it.
Stores(r) ==
  \/ CreateRows(r) \/ DestroyFile(r) \/ DeleteRow(r) \/ FailDelete(r)
  \/ ReadImages(r) \/ DeleteListing(r) \/ KeepListing(r)
  \/ \E f \in Files : UploadFile(r, f) \/ DestroyOne(r, f)

\* Steps that touch neither rows nor files.
LEMMA Still ==
  ASSUME TypeOK, NEW r \in Requests, Ask(r) \/ Work(r) \/ Fail(r), ~ Stores(r)
  PROVE  /\ UNCHANGED <<images, assets, torn>>
         /\ pc[r] \notin {"deleteRow", "destroyAll", "deleteRows"}
<1> USE DEF TypeOK, rows, histVars
<1>1. CASE Ask(r)
  BY <1>1 DEF Ask, AskUpload, AskPrimary, AskDeleteImage, AskUpdate, AskForce,
         AskDeleteListing, Asked
<1>2. CASE Work(r)
  BY <1>2 DEF Stores, Work, ClaimJob, ReadExisting, ChooseImage, ClearPrimary, SetPrimary,
         CheckImages, WriteStatus
<1>3. CASE Fail(r)
  BY <1>3 DEF Stores, Fail, FailJob, FailPrimary, JobLabels
<1> QED BY <1>1, <1>2, <1>3

\* Every step keeps a file for each row that is there or about to be created.
LEMMA StoredStep ==
  ASSUME TypeOK, Held, Stored, RowHasFile, [Next]_vars
  PROVE  Stored' /\ RowHasFile'
<1>1. CASE UNCHANGED vars
  BY <1>1 DEF Stored, Carried, RowHasFile, vars, rows, histVars
<1>2. ASSUME NEW r \in Requests, Ask(r) \/ Work(r) \/ Fail(r), ~ Stores(r)
      PROVE  Stored' /\ RowHasFile'
  <2>1. Carried' \subseteq Carried
    BY <1>2, CarriedSteps DEF Stores
  <2> QED BY <1>2, <2>1, Still, Frame DEF Stored, RowHasFile
<1>3. ASSUME NEW r \in Requests, Work(r) \/ Fail(r), Stores(r)
      PROVE  Stored' /\ RowHasFile'
  <2> DEFINE Deletes == {"deleteRow", "destroyAll", "deleteRows"}
  <2>0. \A q \in Requests \ {r} : pc'[q] = pc[q] /\ task'[q] = task[q]
    BY <1>3, Frame
  <2>1. Carried' \subseteq Carried \cup {f \in Files : UploadFile(r, f) /\ f \in assets'}
    BY <1>3, CarriedSteps
  <2>2. ASSUME NEW f \in Files, UploadFile(r, f) PROVE Stored' /\ RowHasFile'
    <3>1. /\ assets \cup torn \subseteq assets' \cup torn'
          /\ UNCHANGED images /\ pc[r] = "upload"
      BY <2>2 DEF UploadFile, rows
    <3>2. \A q \in Requests : pc[q] \in Deletes => pc'[q] = pc[q] /\ task'[q] = task[q]
      BY <2>0, <3>1
    <3> QED BY <2>1, <3>1, <3>2 DEF Stored, RowHasFile
  <2> USE DEF TypeOK, Held, Stored, RowHasFile, GoTo, Finish, rows, histVars
  <2>3. CASE CreateRows(r)
    <3>1. UNCHANGED <<assets, torn>> /\ pc[r] = "create"
      BY <2>3 DEF CreateRows
    <3>2. \A i \in images' : i \in images \/ i[1] \in task[r].up
      BY <2>3 DEF CreateRows
    <3>3. task[r].up \subseteq Carried
      BY <3>1 DEF Carried
    <3>4. Carried' \subseteq Carried
      BY <2>1, <3>1 DEF UploadFile
    <3> QED BY <2>0, <3>1, <3>2, <3>3, <3>4
  <2>4. ASSUME NEW fs, assets' = assets \ fs, torn' = torn \cup Stranded(r, fs),
               UNCHANGED images, pc[r] \in {"destroy", "destroyAll"},
               pc'[r] \in Deletes, task'[r].rows = task[r].rows
        PROVE  Stored' /\ RowHasFile'
    <3>1. assets \cup torn \subseteq assets' \cup torn' \cup fs
      BY <2>4
    <3>2. Carried \subseteq assets' \cup torn'
      BY <2>4, <3>1 DEF Stranded
    <3>3. \A i \in images \ task[r].rows : i[1] \in fs => i[1] \in torn'
      BY <2>4 DEF Stranded, ContentOf
    <3>4. Carried' \subseteq Carried
      BY <2>1, <2>4 DEF UploadFile
    <3> QED BY <2>0, <2>4, <3>1, <3>2, <3>3, <3>4
  <2>5. CASE DestroyFile(r)
    <3>1. CASE UNCHANGED <<assets, torn>>
      <4>1. UNCHANGED images /\ pc[r] = "destroy"
        BY <2>5 DEF DestroyFile
      <4> QED BY <2>0, <2>1, <3>1, <4>1 DEF UploadFile
    <3>2. CASE ~ UNCHANGED <<assets, torn>>
      BY <2>4, <2>5, <3>2 DEF DestroyFile
    <3> QED BY <3>1, <3>2
  <2>6. ASSUME NEW f \in Files, DestroyOne(r, f) PROVE Stored' /\ RowHasFile'
    <3>1. /\ UNCHANGED images /\ pc[r] = "destroyAll"
          /\ pc'[r] \in Deletes /\ task'[r].rows = task[r].rows
      BY <2>6 DEF DestroyOne, Task
    <3>2. CASE UNCHANGED <<assets, torn>>
      <4>1. Carried' \subseteq Carried
        BY <2>1, <3>1 DEF UploadFile
      <4> QED BY <2>0, <3>1, <3>2, <4>1
    <3>3. CASE assets' = assets \ {f} /\ torn' = torn \cup Stranded(r, {f})
      BY <2>4, <3>1, <3>3
    <3> QED BY <2>6, <3>2, <3>3 DEF DestroyOne
  <2>7. CASE DeleteRow(r)
    <3>1. /\ UNCHANGED <<assets, torn>> /\ pc[r] = "deleteRow"
          /\ images' = images \ task[r].rows
      BY <2>7 DEF DeleteRow
    <3> QED BY <2>0, <2>1, <3>1 DEF UploadFile
  <2>8. CASE FailDelete(r) \/ KeepListing(r)
    <3>1. /\ UNCHANGED <<images, assets>> /\ pc[r] \in Deletes
          /\ torn' = torn \cup ContentOf(task[r].rows)
      BY <2>8 DEF FailDelete, KeepListing
    <3>2. \A i \in task[r].rows : i[1] \in torn'
      BY <3>1 DEF ContentOf
    <3> QED BY <2>0, <2>1, <3>1, <3>2 DEF UploadFile
  <2>9. CASE ReadImages(r)
    <3>1. UNCHANGED <<images, assets, torn>> /\ pc[r] = "images"
      BY <2>9 DEF ReadImages
    <3> QED BY <2>0, <2>1, <3>1 DEF UploadFile
  <2>10. CASE DeleteListing(r)
    <3>1. images' = {} /\ UNCHANGED <<assets, torn>> /\ pc[r] = "deleteRows"
      BY <2>10 DEF DeleteListing
    <3> QED BY <2>1, <3>1 DEF UploadFile
  <2> QED BY <1>3, <2>2, <2>3, <2>5, <2>6, <2>7, <2>8, <2>9, <2>10 DEF Stores
<1> QED BY <1>1, <1>2, <1>3 DEF Next, Stores, Work, Fail

-----------------------------------------------------------------------------
(* The theorems *)

LEMMA InvAlways == Spec => []Inv
<1>1. Inv /\ [Next]_vars => Inv'
  BY TypeStep, HeldStep, OrderedStep, SeenStep, PrimaryStep, StoredStep DEF Inv
<1> QED BY <1>1, InitInv, PTL DEF Spec

\* Every row, file, job and request keeps its type.
THEOREM TypeCorrect == Spec => []TypeOK
<1>1. Inv => TypeOK
  BY DEF Inv
<1> QED BY <1>1, InvAlways, PTL

\* Two primary images are the work of two choices that crossed.
THEOREM PrimarySafe == Spec => []OnePrimary
<1>1. Inv => OnePrimary
  <2> SUFFICES ASSUME Inv, ~ crossed PROVE ~ (Cardinality(primary) > 1)
    BY DEF OnePrimary
  <2>1. primary = {} \/ \E i : primary = {i}
    BY DEF Inv, Ordered
  <2>2. Cardinality(primary) \in {0, 1}
    BY <2>1, FS_EmptySet, FS_Singleton
  <2> QED BY <2>2
<1> QED BY <1>1, InvAlways, PTL

\* A listing with images has a primary one, is about to, or lost it in a named way.
THEOREM ChosenSafe == Spec => []PrimaryChosen
<1>1. Inv => PrimaryChosen
  BY DEF Inv
<1> QED BY <1>1, InvAlways, PTL

\* A row has its file but for the deletions and uploads that met.
THEOREM FilesSafe == Spec => []RowHasFile
<1>1. Inv => RowHasFile
  BY DEF Inv
<1> QED BY <1>1, InvAlways, PTL

=============================================================================
