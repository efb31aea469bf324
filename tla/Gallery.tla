------------------------------- MODULE Gallery -------------------------------
(***************************************************************************)
(* The images of one listing: their rows, their files in Cloudinary, which *)
(* of them is the primary one, and what the listing's status asks of them. *)
(* Uploads run in the worker of the queue uploadPropertyImage, the rest in *)
(* HTTP requests; all of them write the same rows without a transaction.   *)
(*                                                                         *)
(* A request is a process and an action is one awaited call.  The process  *)
(* of an upload goes on as the job its request has queued, since nothing   *)
(* of the request is left but its answer.  An image is named by its        *)
(* content, of which its public id is the hash, and by the job that        *)
(* created its row.                                                        *)
(***************************************************************************)
EXTENDS Naturals, FiniteSets

CONSTANTS
  Requests,
  Files,       \* contents of images
  MayAsk,      \* [Requests -> SUBSET Ops]: bounds what a request may be
  Targets,     \* the statuses an updateProperty or an admin may ask for
  PageLimit,   \* the rows findMany returns when it is given no limit (15)
  MaxFaults    \* bound on failed calls and dead workers

Ops == {"upload", "setPrimary", "deleteImage", "update", "force", "deleteListing"}

PropertyStatus == {"DRAFT", "ACTIVE", "PENDING", "SOLD", "RENTED", "INACTIVE"}

ASSUME GalleryAssumption ==
  /\ MayAsk \in [Requests -> SUBSET Ops]
  /\ Targets \subseteq PropertyStatus
  /\ PageLimit \in Nat \ {0} /\ MaxFaults \in Nat

Attempts == 3

VARIABLES
  status,      \* property.status, or "GONE"
  images,      \* rows of PropertyImage
  primary,     \* the rows whose isPrimary is set
  assets,      \* the contents Cloudinary holds
  claimed,     \* jobs with a key processed:uploadImage:<job>
  attempt,     \* how often each job has been tried
  pc, task, faults,
  crossed,     \* history: two choices of a primary image have crossed
  unchosen,    \* history: the choice of a primary image was lost or undone
  torn         \* history: contents whose file was destroyed while a row of theirs
               \* stayed or was about to be created

rows     == <<images, primary>>
jobVars  == <<claimed, attempt>>
histVars == <<crossed, unchosen, torn>>
vars == <<status, rows, assets, jobVars, pc, task, faults, histVars>>

-----------------------------------------------------------------------------
(* Values *)

Image == Files \X Requests

\* The id of no image of this listing.
NoImage == <<>>

\* What a process has read or was asked: files to upload or to destroy, files it has
\* uploaded, whether the upload is the first, an image, the rows read, the status
\* read, the status asked for.
Task == [files : SUBSET Files, up : SUBSET Files, first : BOOLEAN,
         image : Image \cup {NoImage}, rows : SUBSET Image,
         read : PropertyStatus, target : PropertyStatus]

NoTask == [files |-> {}, up |-> {}, first |-> FALSE, image |-> NoImage, rows |-> {},
           read |-> "DRAFT", target |-> "DRAFT"]

JobLabels == {"waiting", "upload", "existing", "create", "choose", "clear", "set"}

Labels == JobLabels \cup
  {"idle", "destroy", "deleteRow", "publish", "write", "images", "destroyAll",
   "deleteRows", "done"}

TypeOK ==
  /\ status \in PropertyStatus \cup {"GONE"}
  /\ images \subseteq Image /\ primary \subseteq images
  /\ assets \subseteq Files
  /\ claimed \subseteq Requests
  /\ attempt \in [Requests -> 0 .. Attempts]
  /\ pc \in [Requests -> Labels] /\ task \in [Requests -> Task]
  /\ faults \in 0 .. MaxFaults
  /\ crossed \in BOOLEAN /\ unchosen \in BOOLEAN /\ torn \subseteq Files

-----------------------------------------------------------------------------
(* Operators *)

GoTo(r, l) == pc' = [pc EXCEPT ![r] = l]

Forget(r) == task' = [task EXCEPT ![r] = NoTask]

Finish(r) == GoTo(r, "done") /\ Forget(r)

\* The request r is asked to do op; the listing is there and the caller's.
Asked(r, op) == pc[r] = "idle" /\ op \in MayAsk[r] /\ status # "GONE"

ContentOf(is) == {i[1] : i \in is}

\* What findMany may return of the rows in is.
Page(is) ==
  {q \in SUBSET is : \/ q = is /\ Cardinality(is) <= PageLimit
                     \/ Cardinality(q) = PageLimit}

\* The table of updateProperty.
NextStatuses(s) ==
  CASE s = "DRAFT"    -> {"ACTIVE"}
    [] s = "ACTIVE"   -> {"PENDING", "RENTED", "SOLD", "INACTIVE"}
    [] s = "PENDING"  -> {"ACTIVE", "INACTIVE", "SOLD", "RENTED"}
    [] s = "INACTIVE" -> {"ACTIVE"}
    [] s = "SOLD"     -> {}
    [] s = "RENTED"   -> {"ACTIVE", "PENDING", "INACTIVE"}

\* Contents a job has uploaded and has not yet created the rows of.
Carried ==
  UNION {task[r].up : r \in {q \in Requests : pc[q] \in {"upload", "existing", "create"}}}

\* A job about to create its rows has seen images, and will choose none.
SeenSome == \E r \in Requests : pc[r] = "create" /\ ~ task[r].first

\* Contents in fs of which a row stays without a file, or is about to be created.
Stranded(r, fs) == fs \cap (Carried \cup ContentOf(images \ task[r].rows))

\* A job fails: it is tried again while it has attempts left, and knows nothing of
\* the tries before.
Retry(r) ==
  GoTo(r, IF attempt[r] < Attempts THEN "waiting" ELSE "done") /\ Forget(r)

-----------------------------------------------------------------------------
(* uploadImage and its job *)

\* The queue takes the job, or the request fails.
AskUpload(r) ==
  /\ Asked(r, "upload")
  /\ \/ /\ \E fs \in SUBSET Files \ {{}} : task' = [task EXCEPT ![r].files = fs]
        /\ GoTo(r, "waiting")
     \/ Finish(r)
  /\ UNCHANGED <<status, rows, assets, jobVars, faults, histVars>>

\* ensureIdempotency: only the first try of a job does anything.
ClaimJob(r) ==
  /\ pc[r] = "waiting"
  /\ attempt' = [attempt EXCEPT ![r] = @ + 1]
  /\ claimed' = claimed \cup {r}
  /\ IF r \in claimed THEN Finish(r) ELSE GoTo(r, "upload") /\ UNCHANGED task
  /\ UNCHANGED <<status, rows, assets, faults, histVars>>

\* The uploads of a job run side by side and end in any order.  Promise.allSettled
\* waits for all of them, and those that fail are left out.
UploadFile(r, f) ==
  /\ pc[r] = "upload" /\ f \in task[r].files
  /\ \/ /\ assets' = assets \cup {f} /\ torn' = torn \ {f}
        /\ task' = [task EXCEPT ![r].files = @ \ {f}, ![r].up = @ \cup {f}]
     \/ /\ task' = [task EXCEPT ![r].files = @ \ {f}]
        /\ UNCHANGED <<assets, torn>>
  /\ GoTo(r, IF task[r].files = {f} THEN "existing" ELSE "upload")
  /\ UNCHANGED <<status, rows, jobVars, faults, crossed, unchosen>>

\* Mutant of ReadExisting: whether the upload is the first is asked as its rows
\* are there.
MutReadExisting(r) ==
  /\ pc[r] = "existing"
  /\ task' = [task EXCEPT ![r].first = (images = {} /\ task[r].up = {})]
  /\ GoTo(r, "create")
  /\ UNCHANGED <<status, rows, assets, jobVars, faults, histVars>>

ReadExisting(r) ==
  /\ pc[r] = "existing"
  /\ task' = [task EXCEPT ![r].first = (images = {})]
  /\ GoTo(r, "create")
  /\ UNCHANGED <<status, rows, assets, jobVars, faults, histVars>>

\* Mutant of CreateRows: a row for every file of the job, uploaded or not.
MutCreateRows(r) ==
  /\ pc[r] = "create"
  /\ images' = images \cup ((Files \ ContentOf(images)) \X {r})
  /\ GoTo(r, IF task[r].first THEN "choose" ELSE "done") /\ Forget(r)
  /\ UNCHANGED <<status, primary, assets, jobVars, faults, histVars>>

\* createMany with skipDuplicates; a deleted listing violates the foreign key.
CreateRows(r) ==
  LET new == task[r].up \ ContentOf(images)
  IN  /\ pc[r] = "create"
      /\ IF status = "GONE" /\ task[r].up # {}
           THEN Retry(r) /\ UNCHANGED images
           ELSE /\ images' = images \cup (new \X {r})
                /\ GoTo(r, IF task[r].first THEN "choose" ELSE "done") /\ Forget(r)
      /\ UNCHANGED <<status, primary, assets, jobVars, faults, histVars>>

\* newImages[0] of a query without an order.
ChooseImage(r) ==
  /\ pc[r] = "choose"
  /\ IF images = {}
       THEN Finish(r)
       ELSE \E i \in images : task' = [task EXCEPT ![r].image = i] /\ GoTo(r, "clear")
  /\ UNCHANGED <<status, rows, assets, jobVars, faults, histVars>>

\* A call of the job fails, or its worker dies and the job stalls.
FailJob(r) ==
  /\ pc[r] \in JobLabels \ {"waiting"} /\ r \in claimed
  /\ faults < MaxFaults /\ faults' = faults + 1
  /\ Retry(r)
  /\ unchosen' = (unchosen \/ pc[r] \in {"choose", "clear", "set"})
  /\ UNCHANGED <<status, rows, assets, jobVars, crossed, torn>>

-----------------------------------------------------------------------------
(* setPrimaryImage, of a job or of a request *)

\* The image is not looked up.
AskPrimary(r) ==
  /\ Asked(r, "setPrimary")
  /\ \E i \in images \cup {NoImage} : task' = [task EXCEPT ![r].image = i]
  /\ GoTo(r, "clear")
  /\ UNCHANGED <<status, rows, assets, jobVars, faults, histVars>>

\* Mutant of ClearPrimary: only an image that is there is cleared.
MutClearPrimary(r) ==
  /\ pc[r] = "clear"
  /\ primary' = primary \ {task[r].image}
  /\ crossed' = (\E q \in Requests \ {r} : pc[q] = "set")
  /\ GoTo(r, "set")
  /\ UNCHANGED <<status, images, assets, jobVars, task, faults, unchosen, torn>>

ClearPrimary(r) ==
  /\ pc[r] = "clear"
  /\ primary' = {}
  /\ crossed' = (\E q \in Requests \ {r} : pc[q] = "set")
  /\ GoTo(r, "set")
  /\ UNCHANGED <<status, images, assets, jobVars, task, faults, unchosen, torn>>

\* An update of a row that is not there throws.
SetPrimary(r) ==
  /\ pc[r] = "set"
  /\ IF task[r].image \in images
       THEN /\ primary' = primary \cup {task[r].image}
            /\ unchosen' = FALSE /\ Finish(r)
       ELSE /\ unchosen' = TRUE /\ UNCHANGED primary
            /\ IF r \in claimed THEN Retry(r) ELSE Finish(r)
  /\ UNCHANGED <<status, images, assets, jobVars, faults, crossed, torn>>

\* The second update of the request fails.
FailPrimary(r) ==
  /\ pc[r] = "set" /\ r \notin claimed
  /\ faults < MaxFaults /\ faults' = faults + 1
  /\ unchosen' = TRUE
  /\ Finish(r)
  /\ UNCHANGED <<status, rows, assets, jobVars, crossed, torn>>

-----------------------------------------------------------------------------
(* deletePropertyImage *)

AskDeleteImage(r) ==
  /\ Asked(r, "deleteImage")
  /\ \E i \in images : task' = [task EXCEPT ![r].image = i, ![r].rows = {i}]
  /\ GoTo(r, "destroy")
  /\ UNCHANGED <<status, rows, assets, jobVars, faults, histVars>>

\* Cloudinary destroys the file, or throws and nothing happens.
DestroyFile(r) ==
  /\ pc[r] = "destroy"
  /\ \/ /\ assets' = assets \ ContentOf(task[r].rows)
        /\ torn' = torn \cup Stranded(r, ContentOf(task[r].rows))
        /\ GoTo(r, "deleteRow") /\ UNCHANGED task
     \/ Finish(r) /\ UNCHANGED <<assets, torn>>
  /\ UNCHANGED <<status, rows, jobVars, faults, crossed, unchosen>>

\* The row may have gone in the meantime; the deletion then throws.
DeleteRow(r) ==
  /\ pc[r] = "deleteRow"
  /\ images' = images \ {task[r].image}
  /\ primary' = primary \ {task[r].image}
  /\ unchosen' = IF images' = {} THEN SeenSome
                 ELSE unchosen \/ task[r].image \in primary
  /\ Finish(r)
  /\ UNCHANGED <<status, assets, jobVars, faults, crossed, torn>>

\* The deletion of the row fails, or the process dies; files are gone.
FailDelete(r) ==
  /\ pc[r] \in {"deleteRow", "destroyAll"}
  /\ faults < MaxFaults /\ faults' = faults + 1
  /\ torn' = torn \cup ContentOf(task[r].rows)
  /\ Finish(r)
  /\ UNCHANGED <<status, rows, assets, jobVars, crossed, unchosen>>

-----------------------------------------------------------------------------
(* updateProperty, the admin's updatePropertyStatus, deleteProperty *)

AskUpdate(r) ==
  /\ Asked(r, "update")
  /\ \E s \in Targets :
       /\ task' = [task EXCEPT ![r].read = status, ![r].target = s]
       /\ GoTo(r, IF s = "ACTIVE" THEN "publish" ELSE "write")
       /\ s = "ACTIVE" \/ s \in NextStatuses(status)
  /\ UNCHANGED <<status, rows, assets, jobVars, faults, histVars>>

\* Publishing asks for an image, then for a status that allows it.
CheckImages(r) ==
  /\ pc[r] = "publish"
  /\ IF images # {} /\ "ACTIVE" \in NextStatuses(task[r].read)
       THEN GoTo(r, "write") /\ UNCHANGED task
       ELSE Finish(r)
  /\ UNCHANGED <<status, rows, assets, jobVars, faults, histVars>>

\* An admin may write any status.
AskForce(r) ==
  /\ Asked(r, "force")
  /\ \E s \in Targets : task' = [task EXCEPT ![r].read = status, ![r].target = s]
  /\ GoTo(r, "write")
  /\ UNCHANGED <<status, rows, assets, jobVars, faults, histVars>>

WriteStatus(r) ==
  /\ pc[r] = "write"
  /\ status' = IF status = "GONE" THEN "GONE" ELSE task[r].target
  /\ Finish(r)
  /\ UNCHANGED <<rows, assets, jobVars, faults, histVars>>

AskDeleteListing(r) ==
  /\ Asked(r, "deleteListing") /\ status # "ACTIVE"
  /\ GoTo(r, "images")
  /\ UNCHANGED <<status, rows, assets, jobVars, task, faults, histVars>>

\* A page of the images: the files of the others stay for ever.
ReadImages(r) ==
  /\ pc[r] = "images"
  /\ \E is \in Page(images) :
       task' = [task EXCEPT ![r].rows = is, ![r].files = ContentOf(is)]
  /\ GoTo(r, IF images = {} THEN "deleteRows" ELSE "destroyAll")
  /\ UNCHANGED <<status, rows, assets, jobVars, faults, histVars>>

\* Side by side like the uploads; nobody looks at what has failed.
DestroyOne(r, f) ==
  /\ pc[r] = "destroyAll" /\ f \in task[r].files
  /\ task' = [task EXCEPT ![r].files = @ \ {f}]
  /\ \/ assets' = assets \ {f} /\ torn' = torn \cup Stranded(r, {f})
     \/ UNCHANGED <<assets, torn>>
  /\ GoTo(r, IF task[r].files = {f} THEN "deleteRows" ELSE "destroyAll")
  /\ UNCHANGED <<status, rows, jobVars, faults, crossed, unchosen>>

\* The rows go with the listing (onDelete: Cascade).
DeleteListing(r) ==
  /\ pc[r] = "deleteRows"
  /\ status' = "GONE" /\ images' = {} /\ primary' = {}
  /\ Finish(r)
  /\ UNCHANGED <<assets, jobVars, faults, histVars>>

\* Bookings, reviews, saved and featured entries that refer to the listing keep
\* it: the deletion throws, and the files are gone.
KeepListing(r) ==
  /\ pc[r] = "deleteRows"
  /\ torn' = torn \cup ContentOf(task[r].rows)
  /\ Finish(r)
  /\ UNCHANGED <<status, rows, assets, jobVars, faults, crossed, unchosen>>

-----------------------------------------------------------------------------

Init ==
  /\ status = "DRAFT"
  /\ images = {} /\ primary = {} /\ assets = {}
  /\ claimed = {} /\ attempt = [r \in Requests |-> 0]
  /\ pc = [r \in Requests |-> "idle"]
  /\ task = [r \in Requests |-> NoTask]
  /\ faults = 0
  /\ crossed = FALSE /\ unchosen = FALSE /\ torn = {}

Ask(r) ==
  \/ AskUpload(r) \/ AskPrimary(r) \/ AskDeleteImage(r)
  \/ AskUpdate(r) \/ AskForce(r) \/ AskDeleteListing(r)

Work(r) ==
  \/ ClaimJob(r) \/ (\E f \in Files : UploadFile(r, f)) \/ ReadExisting(r) \/ CreateRows(r)
  \/ ChooseImage(r) \/ ClearPrimary(r) \/ SetPrimary(r)
  \/ DestroyFile(r) \/ DeleteRow(r) \/ CheckImages(r) \/ WriteStatus(r)
  \/ ReadImages(r) \/ (\E f \in Files : DestroyOne(r, f)) \/ DeleteListing(r)
  \/ KeepListing(r)

Fail(r) == FailJob(r) \/ FailPrimary(r) \/ FailDelete(r)

Next == \E r \in Requests : Ask(r) \/ Work(r) \/ Fail(r)

Spec == Init /\ [][Next]_vars

-----------------------------------------------------------------------------
(* Safety *)

(***************************************************************************)
(* PropertyImageRepository.setPrimaryImage clears and sets in two updates: *)
(* a listing has one primary image at most until two calls cross, be they  *)
(* of a request and of a job, and again after the next call that does not. *)
(***************************************************************************)
OnePrimary == Cardinality(primary) > 1 => crossed

(***************************************************************************)
(* uploadImageProcessor: a listing with images has a primary image or a    *)
(* job is about to choose one, whichever of several concurrent uploads is  *)
(* the first and whatever is deleted between its calls.  The choice is     *)
(* lost only when it fails half way, when the primary image is deleted, or *)
(* when the last image is deleted behind an upload that has seen it.       *)
(***************************************************************************)
PrimaryChosen ==
  images # {} =>
     \/ primary # {} \/ unchosen
     \/ \E r \in Requests : pc[r] \in {"choose", "clear", "set"}

(***************************************************************************)
(* deletePropertyImage and deleteProperty destroy files before rows, and   *)
(* uploads create files before rows: a row has its file, unless its own    *)
(* deletion is half done or failed, or a deletion met an upload of the     *)
(* same content, be it between two of the uploads of one job.              *)
(***************************************************************************)
RowHasFile ==
  \A i \in images :
     \/ i[1] \in assets \cup torn
     \/ \E r \in Requests : /\ pc[r] \in {"deleteRow", "destroyAll", "deleteRows"}
                            /\ i \in task[r].rows

=============================================================================
