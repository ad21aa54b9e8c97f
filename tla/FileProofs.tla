------------------------------ MODULE FileProofs ------------------------------
(***************************************************************************)
(* Proofs about what is done with files: the cleanup of the containers     *)
(* (BlobCleanup) and the wizard that reads values from uploaded files      *)
(* (CustomFields).                                                         *)
(*                                                                         *)
(* The cleanup deletes nothing that a page still needs, for any number of  *)
(* containers, pages, files and faults.  What the thread has found old is  *)
(* old for good: the day a file was written never changes once it is       *)
(* listed, and a pass is never older than the day its container was opened. *)
(*                                                                         *)
(* What a wizard reports is what was saved, and an administrator's post    *)
(* harms no value it had seen, for any number of fields, windows and       *)
(* uploads.  A field that is deleted never comes back, an upload's identity *)
(* is new when it is saved, and a post that is waiting to be saved either  *)
(* saw no value of its field or leaves the field's type as it was.         *)
(***************************************************************************)
EXTENDS BlobCleanup, CustomFields, TLAPS

-----------------------------------------------------------------------------
(***************************************************************************)
(* The cleanup.                                                            *)
(***************************************************************************)

\* The file that is to go was old when its container was opened.
FoundOld == cleaner.blob # NoFile => IsBlobAged(cleaner.blob)

Began == cleaner.started <= day

CleanupInv == CleanupTypeOK /\ FoundOld /\ Began /\ OpenFilesAreKept

-----------------------------------------------------------------------------
LEMMA InitCleanupInv == CleanupInit => CleanupInv
<1> SUFFICES ASSUME CleanupInit PROVE CleanupInv
  OBVIOUS
<1>1. CleanupTypeOK
  BY CleanupAssumption DEF CleanupInit, CleanupTypeOK, Sleeping, Cleaner, Files, NoFile, Days, Used, Stored
<1>2. FoundOld /\ Began /\ OpenFilesAreKept
  BY DEF CleanupInit, FoundOld, Began, OpenFilesAreKept, Sleeping, NoFile
<1> QED
  BY <1>1, <1>2 DEF CleanupInv

\* Only the container that the thread has open loses a file, the one found old.
LEMMA WriteInv ==
  ASSUME CleanupInv, NEW w \in Pages, NEW c \in Containers, Write(w, c)
  PROVE  CleanupInv'
<1> USE CleanupAssumption DEF CleanupInv
<1>1. written' \in Files /\ written' = written + 1 /\ written \in Nat
  BY DEF Write, CleanupTypeOK, Files
<1>2. Used' \subseteq Used \cup {written'}
  BY <1>1 DEF Write, CleanupTypeOK, Used, Stored, NoFile
<1>3. CleanupTypeOK'
  BY <1>1, <1>2 DEF Write, CleanupTypeOK, Files, NoFile, Days
<1>4. \A a \in Used : modified'[a] = modified[a]
  BY <1>1 DEF Write, CleanupTypeOK, Files
<1>5. FoundOld'
  <2>1. cleaner.blob # NoFile => cleaner.blob \in Used
    BY DEF Used
  <2> QED
    BY <1>4, <2>1 DEF Write, FoundOld, IsBlobAged, DaysKept
<1>6. Began'
  BY DEF Write, Began
<1>7. OpenFilesAreKept'
  <2> SUFFICES ASSUME NEW v \in Pages, page'[v] # NoFile,
                      day' <= modified'[page'[v]] + DaysKept
               PROVE  page'[v] \in Stored'
    BY DEF OpenFilesAreKept
  <2>1. written' \in Stored' /\ Stored \subseteq Stored'
    BY DEF Write, CleanupTypeOK, Stored
  <2>2. CASE v = w
    BY <2>1, <2>2, <1>1 DEF Write, CleanupTypeOK
  <2>3. CASE v # w
    <3>1. page'[v] = page[v]
      BY <2>3 DEF Write, CleanupTypeOK
    <3>2. page[v] \in Used
      BY <3>1 DEF Used
    <3> QED
      BY <3>1, <3>2, <1>4, <2>1 DEF OpenFilesAreKept, Write
  <2> QED
    BY <2>2, <2>3
<1> QED
  BY <1>3, <1>5, <1>6, <1>7

LEMMA LeaveInv ==
  ASSUME CleanupInv, NEW w \in Pages, Leave(w)
  PROVE  CleanupInv'
<1> USE CleanupAssumption DEF CleanupInv
<1>1. Used' \subseteq Used
  <2>1. page' \in [Pages -> Files \cup {NoFile}] /\ \A v \in Pages : page'[v] \in {page[v], NoFile}
    BY DEF Leave, CleanupTypeOK
  <2>2. {page'[v] : v \in Pages} \ {NoFile} \subseteq {page[v] : v \in Pages}
    BY <2>1
  <2>3. Stored' = Stored /\ cleaner' = cleaner
    BY DEF Leave, Stored, blobVars
  <2> QED
    BY <2>2, <2>3 DEF Used
<1>2. CleanupTypeOK'
  BY <1>1 DEF Leave, CleanupTypeOK, NoFile, blobVars
<1>3. FoundOld' /\ Began'
  BY DEF Leave, FoundOld, Began, IsBlobAged, blobVars
<1>4. OpenFilesAreKept'
  BY DEF Leave, CleanupTypeOK, OpenFilesAreKept, Stored, NoFile, blobVars
<1> QED
  BY <1>2, <1>3, <1>4

\* A step of the thread that deletes nothing keeps what it knows true.
LEMMA WorksInv ==
  ASSUME CleanupInv, UNCHANGED <<blobVars, page>>, faults' \in 0 .. MaxFaults, day' = day,
         cleaner' \in Cleaner, cleaner'.left \subseteq cleaner.left \cup Stored,
         cleaner'.blob # NoFile <=> cleaner'.state = "deleting",
         cleaner'.blob # NoFile => cleaner'.blob \in cleaner.left,
         FoundOld', Began'
  PROVE  CleanupInv'
<1> USE DEF CleanupInv
<1>1. Used' \subseteq Used
  <2> SUFFICES ASSUME NEW a \in Used' PROVE a \in Used
    OBVIOUS
  <2>1. a # NoFile
    BY DEF Used
  <2>2. CASE a \in Stored' \cup {page'[w] : w \in Pages}
    BY <2>1, <2>2 DEF Used, Stored, blobVars
  <2>3. CASE a \in cleaner'.left \cup {cleaner'.blob}
    BY <2>1, <2>3 DEF Used
  <2> QED
    BY <2>2, <2>3 DEF Used
<1>2. CleanupTypeOK'
  BY <1>1 DEF CleanupTypeOK, blobVars
<1>3. OpenFilesAreKept'
  BY DEF OpenFilesAreKept, Stored, blobVars
<1> QED
  BY <1>2, <1>3

\* The thread at rest or between two containers.
LEMMA IdleCleaner ==
  ASSUME CleanupInv, day' = day, NEW s \in {"sleeping", "polling"}, NEW cs \in SUBSET Containers,
         cleaner' = [state |-> s, todo |-> cs, open |-> {}, left |-> {}, started |-> 0,
                     blob |-> NoFile]
  PROVE  /\ cleaner' \in Cleaner
         /\ cleaner'.left = {} /\ cleaner'.blob = NoFile /\ cleaner'.state # "deleting"
         /\ FoundOld' /\ Began'
<1>1. 0 \in Days /\ 0 <= day
  BY CleanupAssumption DEF Days, CleanupInv, CleanupTypeOK
<1>2. cleaner' \in Cleaner
  BY <1>1 DEF Cleaner, NoFile
<1> QED
  BY <1>1, <1>2 DEF FoundOld, Began

LEMMA PollInv == ASSUME CleanupInv, Poll PROVE CleanupInv'
<1>1. cleaner' = [state |-> "polling", todo |-> Containers, open |-> {}, left |-> {},
                  started |-> 0, blob |-> NoFile]
  BY DEF Poll, Sleeping
<1>2. /\ cleaner' \in Cleaner
      /\ cleaner'.left = {} /\ cleaner'.blob = NoFile /\ cleaner'.state # "deleting"
      /\ FoundOld' /\ Began'
  BY <1>1, IdleCleaner DEF Poll, Works
<1> QED
  BY <1>2, WorksInv DEF Poll, Works, CleanupInv, CleanupTypeOK

LEMMA OpenInv == ASSUME CleanupInv, NEW c \in Containers, Open(c) PROVE CleanupInv'
<1>1. cleaner' = [state |-> "checking", todo |-> cleaner.todo \ {c}, open |-> {c},
                  left |-> blobs[c], started |-> day, blob |-> NoFile]
  BY DEF Open
<1>2. cleaner' \in Cleaner
  BY <1>1, CleanupAssumption DEF Cleaner, CleanupInv, CleanupTypeOK
<1>3. FoundOld' /\ Began'
  BY <1>1, CleanupAssumption DEF Open, Works, Days, FoundOld, Began, CleanupInv, CleanupTypeOK
<1>4. cleaner'.left \subseteq Stored
  BY <1>1 DEF Stored
<1> QED
  BY <1>1, <1>2, <1>3, <1>4, WorksInv DEF Open, Works, CleanupInv, CleanupTypeOK

LEMMA CheckInv == ASSUME CleanupInv, NEW a \in Files, Check(a) PROVE CleanupInv'
<1> DEFINE next == [state   |-> IF IsBlobAged(a) THEN "deleting" ELSE "checking",
                    todo    |-> cleaner.todo,
                    open    |-> cleaner.open,
                    left    |-> cleaner.left \ {a},
                    started |-> cleaner.started,
                    blob    |-> IF IsBlobAged(a) THEN a ELSE NoFile]
<1>1. cleaner' = next
  BY DEF Check, CleanupInv, CleanupTypeOK, Cleaner
<1>2. next \in Cleaner
  BY DEF CleanupInv, CleanupTypeOK, Cleaner
<1>3. a # NoFile /\ a \in cleaner.left
  BY DEF Files, NoFile, Check
<1>4. FoundOld' /\ Began'
  BY <1>1 DEF Check, Works, blobVars, FoundOld, IsBlobAged, Began, CleanupInv
<1> QED
  BY <1>1, <1>2, <1>3, <1>4, WorksInv DEF Check, Works, CleanupInv, CleanupTypeOK

LEMMA NextContainerInv ==
  ASSUME CleanupInv, UNCHANGED <<blobVars, page>>, faults' \in 0 .. MaxFaults, day' = day,
         NextContainer \/ cleaner' = Sleeping
  PROVE  CleanupInv'
<1>1. cleaner.todo \in SUBSET Containers
  BY DEF CleanupInv, CleanupTypeOK, Cleaner
<1>2. \/ cleaner' = [state |-> "polling", todo |-> cleaner.todo, open |-> {}, left |-> {},
                      started |-> 0, blob |-> NoFile]
      \/ cleaner' = [state |-> "sleeping", todo |-> {}, open |-> {}, left |-> {},
                      started |-> 0, blob |-> NoFile]
  BY DEF NextContainer, Sleeping
<1>3. /\ cleaner' \in Cleaner
      /\ cleaner'.left = {} /\ cleaner'.blob = NoFile /\ cleaner'.state # "deleting"
      /\ FoundOld' /\ Began'
  BY <1>1, <1>2, IdleCleaner
<1> QED
  BY <1>3, WorksInv

LEMMA DeleteIfExistsInv == ASSUME CleanupInv, DeleteIfExists PROVE CleanupInv'
<1> USE DEF CleanupInv
<1> DEFINE next == [state   |-> "checking", todo |-> cleaner.todo, open |-> cleaner.open,
                    left    |-> cleaner.left, started |-> cleaner.started, blob |-> NoFile]
<1>1. cleaner' = next
  BY DEF DeleteIfExists, CleanupTypeOK, Cleaner
<1>2. next \in Cleaner
  BY DEF CleanupTypeOK, Cleaner
<1>3. Stored' \subseteq Stored /\ Stored \ {cleaner.blob} \subseteq Stored'
  BY DEF DeleteIfExists, CleanupTypeOK, Stored
<1>4. Used' \subseteq Used
  BY <1>1, <1>3 DEF Used, DeleteIfExists
<1>5. CleanupTypeOK'
  <2>1. blobs' \in [Containers -> SUBSET Files]
    BY DEF DeleteIfExists, CleanupTypeOK
  <2> QED
    BY <1>1, <1>2, <1>4, <2>1 DEF DeleteIfExists, CleanupTypeOK
<1>6. FoundOld' /\ Began'
  BY <1>1 DEF FoundOld, Began, DeleteIfExists
<1>7. OpenFilesAreKept'
  <2> SUFFICES ASSUME NEW w \in Pages, page[w] # NoFile, day <= modified[page[w]] + DaysKept
               PROVE  page[w] \in Stored'
    BY DEF OpenFilesAreKept, DeleteIfExists
  <2>1. page[w] \in Stored
    BY DEF OpenFilesAreKept
  <2>2. page[w] # cleaner.blob
    <3>1. page[w] \in Files /\ modified[page[w]] \in Nat /\ cleaner.started \in Nat /\ day \in Nat
      BY CleanupAssumption DEF CleanupTypeOK, Cleaner, Days, Files, NoFile
    <3>2. cleaner.blob # NoFile => modified[cleaner.blob] + DaysKept < cleaner.started
      BY DEF FoundOld, IsBlobAged
    <3> QED
      BY <3>1, <3>2 DEF Began, DaysKept
  <2> QED
    BY <2>1, <2>2, <1>3
<1> QED
  BY <1>5, <1>6, <1>7

LEMMA NewDayInv == ASSUME CleanupInv, NewDay PROVE CleanupInv'
<1> USE CleanupAssumption DEF CleanupInv
<1>1. CleanupTypeOK'
  BY DEF NewDay, CleanupTypeOK, Days, Used, Stored, blobVars
<1>2. FoundOld' /\ Began'
  BY DEF NewDay, CleanupTypeOK, FoundOld, IsBlobAged, Began, Days, Cleaner, blobVars
<1>3. OpenFilesAreKept'
  <2> SUFFICES ASSUME NEW w \in Pages, page[w] # NoFile, day + 1 <= modified[page[w]] + DaysKept
               PROVE  page[w] \in Stored
    BY DEF OpenFilesAreKept, NewDay, Stored, blobVars
  <2>1. modified[page[w]] \in Nat /\ day \in Nat
    BY DEF CleanupTypeOK, Days, Files, NoFile
  <2> QED
    BY <2>1 DEF OpenFilesAreKept, DaysKept
<1> QED
  BY <1>1, <1>2, <1>3

LEMMA CleanStepInv == ASSUME CleanupInv, Clean PROVE CleanupInv'
<1>1. CASE Poll
  BY <1>1, PollInv
<1>2. CASE \E c \in Containers : Open(c)
  BY <1>2, OpenInv
<1>3. CASE \E a \in Files : Check(a)
  BY <1>3, CheckInv
<1>4. CASE DeleteIfExists
  BY <1>4, DeleteIfExistsInv
<1>5. CASE ContainerDone \/ Sleep
  BY <1>5, NextContainerInv DEF ContainerDone, Sleep, Works, CleanupInv, CleanupTypeOK
<1> QED
  BY <1>1, <1>2, <1>3, <1>4, <1>5 DEF Clean

LEMMA FaultInv == ASSUME CleanupInv, ContainerFails \/ Restart PROVE CleanupInv'
<1>1. faults' \in 0 .. MaxFaults
  BY CleanupAssumption DEF ContainerFails, Restart, Fault, CleanupInv, CleanupTypeOK
<1> QED
  BY <1>1, NextContainerInv DEF ContainerFails, Restart, Fault

LEMMA CleanupStepInv == CleanupInv /\ [CleanupNext]_cleanupVars => CleanupInv'
<1> SUFFICES ASSUME CleanupInv, [CleanupNext]_cleanupVars PROVE CleanupInv'
  OBVIOUS
<1>1. CASE \E w \in Pages, c \in Containers : Write(w, c)
  BY <1>1, WriteInv
<1>2. CASE \E w \in Pages : Leave(w)
  BY <1>2, LeaveInv
<1>3. CASE Clean
  BY <1>3, CleanStepInv
<1>4. CASE ContainerFails \/ Restart
  BY <1>4, FaultInv
<1>5. CASE NewDay
  BY <1>5, NewDayInv
<1>6. CASE UNCHANGED cleanupVars
  BY <1>6 DEF cleanupVars, blobVars, CleanupInv, CleanupTypeOK, Used, Stored, FoundOld, IsBlobAged, Began,
              OpenFilesAreKept
<1> QED
  BY <1>1, <1>2, <1>3, <1>4, <1>5, <1>6 DEF CleanupNext

\* Every reachable state satisfies the inductive invariant.
LEMMA CleanupInvariance == CleanupSpec => []CleanupInv
<1> QED
  BY InitCleanupInv, CleanupStepInv, PTL DEF CleanupSpec

\* The cleanup's state has its type and refers to written files only.
THEOREM CleanupTypeCorrect == CleanupSpec => []CleanupTypeOK
<1>1. CleanupInv => CleanupTypeOK
  BY DEF CleanupInv
<1> QED
  BY CleanupInvariance, <1>1, PTL

\* No file is deleted that a page still links to and that is not too old,
\* whatever fails and however long a pass takes (BlobCleanup.cs,
\* AzureBlobContainer.DeleteAged).
THEOREM CleanupSparesOpenFiles == CleanupSpec => []OpenFilesAreKept
<1>1. CleanupInv => OpenFilesAreKept
  BY DEF CleanupInv
<1> QED
  BY CleanupInvariance, <1>1, PTL

-----------------------------------------------------------------------------
(***************************************************************************)
(* Custom fields.                                                          *)
(***************************************************************************)

TableTypeOK ==
  /\ type \in [Fields -> FieldTypes \cup {"unborn", "deleted"}]
  /\ values \in SUBSET Value
  /\ uploads \in 0 .. MaxUploads
  /\ \A v \in values : v.field \in Existing /\ v.origin \in 1 .. uploads

\* The wizard w has saved its upload or shows nothing of one.
Fresh(w) == w.page \in {"choose", "map", "saving"} => w.origin = 0
Rejects(w) == w.page = "reporting" \/ (w.page = "failed" /\ w.origin # 0) => w.rejected # {}

UploadOf(origin) == {v \in values : v.origin = origin}
Whole(w) == w.origin # 0 =>
  /\ w.origin \in 1 .. uploads
  /\ w.field \in Fields /\ type[w.field] # "unborn"
  /\ w.field \in Existing => UploadOf(w.origin) = Rows(w.origin, w.field, w.accepted)

WizardInv == \A u \in Uploaders :
  /\ wizard[u] \in Wizard
  /\ Fresh(wizard[u]) /\ Rejects(wizard[u]) /\ Whole(wizard[u])

\* The post r leaves what it saw of its field as it is.
Harmless(r) == \A v \in r.seen : v.field = r.field => r.op = "edit" /\ Reads(v.cell, r.type)

RequestInv == \A d \in Administrators : request[d] \in Request /\ Harmless(request[d])

Inv ==
  /\ TableTypeOK
  /\ wizard \in [Uploaders -> Wizard] /\ WizardInv
  /\ request \in [Administrators -> Request] /\ RequestInv

-----------------------------------------------------------------------------
LEMMA InvTypeOK == Inv => TypeOK
<1> SUFFICES ASSUME Inv PROVE TypeOK
  OBVIOUS
<1>1. ASSUME NEW u \in Uploaders PROVE wizard[u].origin \in 0 .. uploads
  BY DEF Inv, WizardInv, Whole, TableTypeOK
<1> QED
  BY <1>1 DEF Inv, TableTypeOK, TypeOK

LEMMA InitInv == Init => Inv
<1> SUFFICES ASSUME Init PROVE Inv
  OBVIOUS
<1> USE BoundAssumption
<1>1. TableTypeOK
  BY DEF Init, TableTypeOK
<1>2. NewWizard \in Wizard /\ Fresh(NewWizard) /\ Rejects(NewWizard) /\ Whole(NewWizard)
  BY DEF NewWizard, Unsent, Wizard, Fresh, Rejects, Whole
<1>3. NoRequest \in Request /\ Harmless(NoRequest)
  BY DEF NoRequest, Request, FieldTypes, Harmless
<1> QED
  BY <1>1, <1>2, <1>3 DEF Init, Inv, WizardInv, RequestInv

\* What becomes of a wizard when it has tested its rows.
LEMMA TestedWizard ==
  ASSUME NEW w \in Wizard, NEW f, NEW known
  PROVE  Tested(w, f, known) =
           [page |-> "saving", file |-> w.file, offered |-> w.offered, field |-> f,
            accepted |-> Passing(f, known), rejected |-> Rest(f, known), origin |-> w.origin]
<1> DEFINE turned == [w EXCEPT !.page = "saving"]
           chosen == [turned EXCEPT !.field = f]
           tested == [chosen EXCEPT !.accepted = Passing(f, known)]
<1>1. turned = [page |-> "saving", file |-> w.file, offered |-> w.offered, field |-> w.field,
                accepted |-> w.accepted, rejected |-> w.rejected, origin |-> w.origin]
  BY DEF Wizard
<1> HIDE DEF turned
<1>2. chosen = [page |-> "saving", file |-> w.file, offered |-> w.offered, field |-> f,
                accepted |-> w.accepted, rejected |-> w.rejected, origin |-> w.origin]
  BY <1>1
<1> HIDE DEF chosen
<1>3. tested = [page |-> "saving", file |-> w.file, offered |-> w.offered, field |-> f,
                accepted |-> Passing(f, known), rejected |-> w.rejected, origin |-> w.origin]
  BY <1>2
<1> HIDE DEF tested
<1>4. [tested EXCEPT !.rejected = Rest(f, known)] =
        [page |-> "saving", file |-> w.file, offered |-> w.offered, field |-> f,
         accepted |-> Passing(f, known), rejected |-> Rest(f, known), origin |-> w.origin]
  BY <1>3
<1>5. Tested(w, f, known) = [tested EXCEPT !.rejected = Rest(f, known)]
  BY Zenon DEF Tested, tested, chosen, turned
<1> QED
  BY <1>4, <1>5, Zenon

\* What becomes of it when it has saved them.
LEMMA SavedWizard ==
  ASSUME NEW w \in Wizard, NEW o
  PROVE  Saved(w, o) =
           [page |-> IF w.rejected = {} THEN "done" ELSE "reporting", file |-> w.file,
            offered |-> w.offered, field |-> w.field, accepted |-> w.accepted,
            rejected |-> w.rejected, origin |-> o]
<1> DEFINE p == IF w.rejected = {} THEN "done" ELSE "reporting"
           turned == [w EXCEPT !.page = p]
<1>1. turned = [page |-> p, file |-> w.file, offered |-> w.offered, field |-> w.field,
                accepted |-> w.accepted, rejected |-> w.rejected, origin |-> w.origin]
  BY DEF Wizard
<1> HIDE DEF turned
<1>2. [turned EXCEPT !.origin = o] =
        [page |-> p, file |-> w.file, offered |-> w.offered, field |-> w.field,
         accepted |-> w.accepted, rejected |-> w.rejected, origin |-> o]
  BY <1>1
<1>3. Saved(w, o) = [turned EXCEPT !.origin = o]
  BY Zenon DEF Saved, turned
<1> QED
  BY <1>2, <1>3, Zenon

\* A step of a wizard that saves nothing: what it shows next is fit to be shown.
LEMMA ShowInv ==
  ASSUME Inv, NEW u \in Uploaders, NEW w \in Wizard, Fresh(w), Rejects(w),
         \/ w.origin = 0
         \/ w.origin = wizard[u].origin /\ w.field = wizard[u].field
              /\ w.accepted = wizard[u].accepted,
         wizard' = [wizard EXCEPT ![u] = w], UNCHANGED <<type, values, uploads, request>>
  PROVE  Inv'
<1> USE DEF Inv
<1>1. TableTypeOK' /\ RequestInv'
  BY DEF TableTypeOK, Existing, RequestInv, Harmless
<1>2. wizard' \in [Uploaders -> Wizard]
  OBVIOUS
<1>3. \A x \in Wizard : Whole(x) => Whole(x)'
  BY DEF Whole, UploadOf, Existing
<1>4. Whole(w)
  BY DEF WizardInv, Whole
<1>5. WizardInv'
  <2> SUFFICES ASSUME NEW x \in Uploaders, NEW y \in Wizard, y = wizard'[x]
               PROVE  Fresh(y) /\ Rejects(y) /\ Whole(y)'
    BY <1>2 DEF WizardInv, Fresh, Rejects, Whole, UploadOf, Existing
  <2>1. CASE x = u
    BY <2>1, <1>3, <1>4
  <2>2. CASE x # u
    BY <2>2, <1>3 DEF WizardInv
  <2> QED
    BY <2>1, <2>2
<1> QED
  BY <1>1, <1>2, <1>5

\* A page shown again, with everything else as it was.
LEMMA TurnInv ==
  ASSUME Inv, NEW u \in Uploaders, NEW p \in {"done", "failed"}, Turn(u, p),
         p = "failed" => wizard[u].origin = 0 \/ wizard[u].page = "reporting",
         UNCHANGED <<type, values, uploads, request>>
  PROVE  Inv'
<1> DEFINE w == [page |-> p, file |-> wizard[u].file, offered |-> wizard[u].offered,
                 field |-> wizard[u].field, accepted |-> wizard[u].accepted,
                 rejected |-> wizard[u].rejected, origin |-> wizard[u].origin]
<1>1. wizard[u] \in Wizard /\ Rejects(wizard[u])
  BY DEF Inv, WizardInv
<1>2. w \in Wizard
  BY <1>1 DEF Wizard
<1>3. wizard' = [wizard EXCEPT ![u] = w]
  <2>1. w = [wizard[u] EXCEPT !.page = p]
    BY <1>1 DEF Wizard
  <2> QED
    BY <2>1 DEF Turn, Inv
<1>4. Fresh(w) /\ Rejects(w)
  BY <1>1 DEF Fresh, Rejects
<1>5. w.origin = wizard[u].origin /\ w.field = wizard[u].field /\ w.accepted = wizard[u].accepted
  OBVIOUS
<1> HIDE DEF w
<1> QED
  BY <1>2, <1>3, <1>4, <1>5, ShowInv

LEMMA MapFormFits ==
  ASSUME NEW file \in {"none", "kept", "gone"}, NEW fs \in SUBSET Fields
  PROVE  /\ MapForm(file, fs) \in Wizard /\ MapForm(file, fs).origin = 0
         /\ Fresh(MapForm(file, fs)) /\ Rejects(MapForm(file, fs))
<1>1. MapForm(file, fs) = [page |-> "map", file |-> file, offered |-> fs, field |-> NoField,
                           accepted |-> {}, rejected |-> {}, origin |-> 0]
  BY DEF MapForm, Unsent
<1> QED
  BY <1>1, BoundAssumption DEF Wizard, Fresh, Rejects

LEMMA UploadInv == ASSUME Inv, NEW u \in Uploaders, Upload(u) PROVE Inv'
<1>1. CASE wizard' = [wizard EXCEPT ![u] = MapForm("kept", Existing)]
  <2>1. Existing \in SUBSET Fields
    BY DEF Existing
  <2> QED
    BY <1>1, <2>1, MapFormFits, ShowInv DEF Upload
<1>2. CASE Turn(u, "failed")
  BY <1>2, TurnInv DEF Upload, Inv, WizardInv, Fresh
<1> QED
  BY <1>1, <1>2 DEF Upload

LEMMA FileGoesInv == ASSUME Inv, NEW u \in Uploaders, FileGoes(u) PROVE Inv'
<1> DEFINE w == [page |-> wizard[u].page, file |-> "gone", offered |-> wizard[u].offered,
                 field |-> wizard[u].field, accepted |-> wizard[u].accepted,
                 rejected |-> wizard[u].rejected, origin |-> wizard[u].origin]
<1>1. wizard[u] \in Wizard /\ Fresh(wizard[u]) /\ Rejects(wizard[u])
  BY DEF Inv, WizardInv
<1>2. w \in Wizard
  BY <1>1 DEF Wizard
<1>3. wizard' = [wizard EXCEPT ![u] = w]
  <2>1. w = [wizard[u] EXCEPT !.file = "gone"]
    BY <1>1 DEF Wizard
  <2> QED
    BY <2>1 DEF FileGoes, Inv
<1>4. Fresh(w) /\ Rejects(w)
  BY <1>1 DEF Fresh, Rejects
<1>5. w.origin = wizard[u].origin /\ w.field = wizard[u].field /\ w.accepted = wizard[u].accepted
  OBVIOUS
<1> HIDE DEF w
<1> QED
  BY <1>2, <1>3, <1>4, <1>5, ShowInv DEF FileGoes

LEMMA SubmitInv == ASSUME Inv, NEW u \in Uploaders, Submit(u) PROVE Inv'
<1>1. wizard[u] \in Wizard /\ wizard[u].origin = 0
  BY DEF Inv, WizardInv, Submit, Fresh
<1>2. CASE Turn(u, "failed")
  BY <1>1, <1>2, TurnInv DEF Submit
<1>3. CASE ~Turn(u, "failed")
  <2>1. PICK f \in wizard[u].offered \cap Existing, known \in SUBSET Cells :
          wizard' = [wizard EXCEPT ![u] = Tested(wizard[u], f, known)]
    BY <1>3 DEF Submit
  <2> DEFINE w == [page |-> "saving", file |-> wizard[u].file, offered |-> wizard[u].offered,
                   field |-> f, accepted |-> Passing(f, known), rejected |-> Rest(f, known),
                   origin |-> wizard[u].origin]
  <2>2. w \in Wizard
    BY <1>1 DEF Wizard, Passing, Rest, Existing
  <2>3. wizard' = [wizard EXCEPT ![u] = w]
    <3>1. w = Tested(wizard[u], f, known)
      BY <1>1, TestedWizard
    <3> QED
      BY <2>1, <3>1, Zenon
  <2>4. Fresh(w) /\ Rejects(w) /\ w.origin = 0
    BY <1>1 DEF Fresh, Rejects
  <2> HIDE DEF w
  <2> QED
    BY <2>2, <2>3, <2>4, ShowInv DEF Submit
<1> QED
  BY <1>2, <1>3

LEMMA OtherPagesInv ==
  ASSUME Inv, NEW u \in Uploaders, Refuse(u) \/ Report(u) \/ GoBack(u) \/ StartAgain(u)
  PROVE  Inv'
<1>1. wizard[u] \in Wizard /\ Fresh(wizard[u])
  BY DEF Inv, WizardInv
<1>2. CASE Refuse(u)
  BY <1>2, TurnInv DEF Refuse
<1>3. CASE Report(u)
  BY <1>3, TurnInv DEF Report
<1>4. CASE GoBack(u)
  <2>1. wizard[u].file \in {"none", "kept", "gone"} /\ wizard[u].offered \in SUBSET Fields
    BY <1>1 DEF Wizard
  <2> QED
    BY <1>4, <2>1, MapFormFits, ShowInv DEF GoBack
<1>5. CASE StartAgain(u)
  <2>1. NewWizard \in Wizard /\ Fresh(NewWizard) /\ Rejects(NewWizard) /\ NewWizard.origin = 0
    BY BoundAssumption DEF NewWizard, Unsent, Wizard, Fresh, Rejects
  <2> QED
    BY <1>5, <2>1, ShowInv DEF StartAgain
<1> QED
  BY <1>2, <1>3, <1>4, <1>5

\* The rows of the new upload are its own: no value had its origin before.
LEMMA StoreInv ==
  ASSUME Inv, NEW u \in Uploaders, NEW w \in Wizard, Fresh(w), Rejects(w),
         w.origin = uploads + 1, uploads < MaxUploads, w.field \in Existing,
         uploads' = w.origin, values' = values \cup Rows(w.origin, w.field, w.accepted),
         wizard' = [wizard EXCEPT ![u] = w], UNCHANGED <<type, request>>
  PROVE  Inv'
<1> USE BoundAssumption DEF Inv
<1>1. uploads \in 0 .. MaxUploads /\ w.origin \in 1 .. MaxUploads /\ uploads' \in Nat
  BY DEF TableTypeOK
<1>2. \A v \in Rows(w.origin, w.field, w.accepted) :
        v \in Value /\ v.origin = w.origin /\ v.field = w.field
  BY <1>1 DEF Rows, Value, Wizard, Existing
<1>3. Existing' = Existing
  BY DEF Existing
<1>4. TableTypeOK'
  BY <1>1, <1>2, <1>3 DEF TableTypeOK
<1>5. UploadOf(w.origin)' = Rows(w.origin, w.field, w.accepted)
  <2>1. \A v \in values : v.origin # w.origin
    BY <1>1 DEF TableTypeOK
  <2> QED
    BY <2>1, <1>2 DEF UploadOf
<1>6. \A i \in 1 .. uploads : UploadOf(i)' = UploadOf(i)
  BY <1>1, <1>2 DEF UploadOf
<1>7. Whole(w)'
  BY <1>1, <1>5 DEF Whole, Existing, FieldTypes
<1>8. \A x \in Wizard : Whole(x) => Whole(x)'
  <2> SUFFICES ASSUME NEW x \in Wizard, Whole(x), x.origin # 0 PROVE Whole(x)'
    BY DEF Whole
  <2>1. x.origin \in 1 .. uploads /\ x.origin \in 1 .. uploads'
    BY <1>1 DEF Whole
  <2> QED
    BY <2>1, <1>3, <1>6 DEF Whole
<1>9. WizardInv'
  <2> SUFFICES ASSUME NEW x \in Uploaders, NEW y \in Wizard, y = wizard'[x]
               PROVE  Fresh(y) /\ Rejects(y) /\ Whole(y)'
    BY DEF WizardInv, Fresh, Rejects, Whole, UploadOf, Existing
  <2>1. CASE x = u
    BY <2>1, <1>7
  <2>2. CASE x # u
    BY <2>2, <1>8 DEF WizardInv
  <2> QED
    BY <2>1, <2>2
<1>10. RequestInv'
  BY DEF RequestInv, Harmless
<1> QED
  BY <1>4, <1>9, <1>10

LEMMA SaveUploadInv == ASSUME Inv, NEW u \in Uploaders, SaveUpload(u) PROVE Inv'
<1>1. wizard[u] \in Wizard /\ wizard[u].origin = 0
  BY DEF Inv, WizardInv, SaveUpload, Fresh
<1>2. CASE Turn(u, "failed") /\ UNCHANGED <<values, uploads>>
  BY <1>1, <1>2, TurnInv DEF SaveUpload
<1>3. CASE ~(Turn(u, "failed") /\ UNCHANGED <<values, uploads>>)
  <2> DEFINE p == IF wizard[u].rejected = {} THEN "done" ELSE "reporting"
             w == [page |-> p, file |-> wizard[u].file, offered |-> wizard[u].offered,
                   field |-> wizard[u].field, accepted |-> wizard[u].accepted,
                   rejected |-> wizard[u].rejected, origin |-> uploads + 1]
  <2>1. /\ wizard[u].field \in Existing /\ uploads < MaxUploads
        /\ uploads' = uploads + 1
        /\ values' = values \cup Rows(uploads + 1, wizard[u].field, wizard[u].accepted)
        /\ wizard' = [wizard EXCEPT ![u] = Saved(wizard[u], uploads + 1)]
        /\ UNCHANGED <<type, request>>
    BY <1>3 DEF SaveUpload
  <2>2. wizard' = [wizard EXCEPT ![u] = w]
    <3>1. w = Saved(wizard[u], uploads + 1)
      BY <1>1, SavedWizard
    <3> QED
      BY <2>1, <3>1, Zenon
  <2>3. w \in Wizard
    BY <1>1, <2>1, BoundAssumption DEF Wizard, Inv, TableTypeOK
  <2>4. Fresh(w) /\ Rejects(w)
    BY DEF Fresh, Rejects
  <2>5. w.origin = uploads + 1 /\ w.field = wizard[u].field /\ w.accepted = wizard[u].accepted
    OBVIOUS
  <2> HIDE DEF w
  <2> QED
    BY <2>1, <2>2, <2>3, <2>4, <2>5, StoreInv
<1> QED
  BY <1>2, <1>3

-----------------------------------------------------------------------------
\* A step that leaves the tables and the wizards alone.
LEMMA LoadInv ==
  ASSUME Inv, NEW d \in Administrators, NEW r \in Request, Harmless(r),
         request' = [request EXCEPT ![d] = r], UNCHANGED <<type, values, uploads, wizard>>
  PROVE  Inv'
<1> USE DEF Inv
<1>1. TableTypeOK' /\ WizardInv'
  BY DEF TableTypeOK, Existing, WizardInv, Fresh, Rejects, Whole, UploadOf
<1>2. RequestInv' /\ request' \in [Administrators -> Request]
  BY DEF RequestInv, Harmless
<1> QED
  BY <1>1, <1>2

LEMMA LoadedInv ==
  ASSUME Inv, NEW d \in Administrators, NEW op \in {"delete", "edit"},
         NEW f \in Existing, NEW t \in FieldTypes, Load(d, op, f, t)
  PROVE  Inv'
<1> DEFINE r == [step |-> "loaded", op |-> op, field |-> f, loaded |-> type[f], type |-> t,
                 seen |-> {}]
<1>1. r \in Request
  BY DEF Request, Existing
<1>2. Harmless(r)
  BY DEF Harmless
<1>3. request' = [request EXCEPT ![d] = r] /\ UNCHANGED <<type, values, uploads, wizard>>
  BY DEF Load
<1> HIDE DEF r
<1> QED
  BY <1>1, <1>2, <1>3, LoadInv

LEMMA EditInv == ASSUME Inv, NEW d \in Administrators, Edit(d) PROVE Inv'
BY LoadedInv DEF Edit

LEMMA DeleteInv == ASSUME Inv, NEW d \in Administrators, Delete(d) PROVE Inv'
<1>1. PICK f \in Existing : Load(d, "delete", f, type[f])
  BY DEF Delete
<1>2. type[f] \in FieldTypes
  BY DEF Existing
<1> QED
  BY <1>1, <1>2, LoadedInv

LEMMA NoRequestFits == NoRequest \in Request /\ Harmless(NoRequest)
BY DEF NoRequest, Request, FieldTypes, Harmless

\* What becomes of a post when it has looked.
LEMMA LookedRequest ==
  ASSUME NEW q \in Request
  PROVE  Looked(q) = [step |-> "looked", op |-> q.op, field |-> q.field, loaded |-> q.loaded,
                      type |-> q.type, seen |-> {v \in values : Reads(v.cell, q.loaded)}]
<1> DEFINE saw == {v \in values : Reads(v.cell, q.loaded)}
           turned == [q EXCEPT !.step = "looked"]
<1> HIDE DEF saw
<1>1. turned = [step |-> "looked", op |-> q.op, field |-> q.field, loaded |-> q.loaded,
                type |-> q.type, seen |-> q.seen]
  BY DEF Request
<1> HIDE DEF turned
<1>2. [turned EXCEPT !.seen = saw] =
        [step |-> "looked", op |-> q.op, field |-> q.field, loaded |-> q.loaded,
         type |-> q.type, seen |-> saw]
  BY <1>1
<1>3. Looked(q) = [turned EXCEPT !.seen = saw]
  BY Zenon DEF Looked, turned, saw
<1> QED
  BY <1>2, <1>3, Zenon DEF saw

LEMMA LookForValuesInv == ASSUME Inv, NEW d \in Administrators, LookForValues(d) PROVE Inv'
<1> DEFINE q == request[d]
<1>1. q \in Request /\ UNCHANGED <<type, values, uploads, wizard>>
  BY DEF Inv, LookForValues
<1>2. CASE request' = [request EXCEPT ![d] = NoRequest]
  BY <1>1, <1>2, NoRequestFits, LoadInv
<1>3. CASE request' # [request EXCEPT ![d] = NoRequest]
  <2> DEFINE saw == {v \in values : Reads(v.cell, q.loaded)}
             r == [step |-> "looked", op |-> q.op, field |-> q.field, loaded |-> q.loaded,
                   type |-> q.type, seen |-> saw]
  <2>1. ~Forbids(q) /\ request' = [request EXCEPT ![d] = Looked(q)]
    BY <1>3 DEF LookForValues
  <2>2. request' = [request EXCEPT ![d] = r]
    BY <1>1, <2>1, LookedRequest, Zenon
  <2>3. saw \in SUBSET Value
    BY DEF Inv, TableTypeOK
  <2>4. r \in Request
    BY <1>1, <2>3 DEF Request
  <2>5. Harmless(r)
    <3> SUFFICES ASSUME NEW v \in saw, v.field = q.field
                 PROVE  q.op = "edit" /\ Reads(v.cell, q.type)
      BY DEF Harmless
    <3>1. v \in ValuesOf(q.field) /\ Reads(v.cell, q.loaded)
      BY DEF ValuesOf
    <3>2. q.op # "delete" /\ q.type = q.loaded
      BY <2>1, <3>1 DEF Forbids
    <3> QED
      BY <1>1, <3>1, <3>2 DEF Request
  <2> HIDE DEF r
  <2> QED
    BY <1>1, <2>2, <2>4, <2>5, LoadInv
<1> QED
  BY <1>2, <1>3

\* A change of the fields' table that brings no deleted field back and keeps the
\* values of the fields that stay.
LEMMA TableInv ==
  ASSUME Inv, type' \in [Fields -> FieldTypes \cup {"unborn", "deleted"}],
         \A f \in Fields : type'[f] = "unborn" => type[f] = "unborn",
         \A f \in Fields : f \in Existing' => f \in Existing \/ type[f] = "unborn",
         values' = {v \in values : v.field \in Existing'},
         UNCHANGED <<uploads, wizard>>
  PROVE  TableTypeOK' /\ WizardInv'
<1> USE DEF Inv
<1>1. TableTypeOK'
  BY DEF TableTypeOK
<1>2. WizardInv'
  <2> SUFFICES ASSUME NEW u \in Uploaders PROVE Whole(wizard[u])'
    BY DEF WizardInv, Fresh, Rejects
  <2>1. Whole(wizard[u]) /\ wizard[u] \in Wizard
    BY DEF WizardInv
  <2> SUFFICES ASSUME wizard[u].origin # 0, wizard[u].field \in Existing'
               PROVE  UploadOf(wizard[u].origin)'
                        = Rows(wizard[u].origin, wizard[u].field, wizard[u].accepted)
    BY <2>1 DEF Whole
  <2>2. wizard[u].field \in Existing
    BY <2>1 DEF Whole
  <2>3. \A v \in UploadOf(wizard[u].origin) : v.field = wizard[u].field
    BY <2>1, <2>2 DEF Whole, Rows
  <2> QED
    BY <2>1, <2>2, <2>3 DEF Whole, UploadOf
<1> QED
  BY <1>1, <1>2

LEMMA CreateInv == ASSUME Inv, NEW d \in Administrators, Create(d) PROVE Inv'
<1>1. PICK f \in Fields, t \in FieldTypes : type[f] = "unborn" /\ type' = [type EXCEPT ![f] = t]
  BY DEF Create
<1>2. /\ type' \in [Fields -> FieldTypes \cup {"unborn", "deleted"}]
      /\ \A g \in Fields : g # f => type'[g] = type[g]
      /\ type'[f] = t
  BY <1>1 DEF Inv, TableTypeOK
<1>3. Existing' = Existing \cup {f} /\ t # "unborn"
  BY <1>1, <1>2 DEF Existing, FieldTypes
<1>4. values' = {v \in values : v.field \in Existing'}
  BY <1>3 DEF Create, Inv, TableTypeOK
<1>5. TableTypeOK' /\ WizardInv'
  BY <1>1, <1>2, <1>3, <1>4, TableInv DEF Create
<1> QED
  BY <1>5 DEF Create, Inv, RequestInv, Harmless

LEMMA SaveInv == ASSUME Inv, NEW d \in Administrators, Save(d) PROVE Inv'
<1> DEFINE f == request[d].field
<1>1. NoRequest \in Request /\ Harmless(NoRequest)
  BY NoRequestFits
<1>2. request[d] \in Request
  BY DEF Inv
<1>3. request' \in [Administrators -> Request] /\ RequestInv'
  BY <1>1 DEF Save, Inv, RequestInv, Harmless
<1>4. CASE f \notin Existing
  <2>1. UNCHANGED <<type, values>>
    BY <1>4 DEF Save
  <2> QED
    BY <2>1, <1>3 DEF Save, Inv, TableTypeOK, Existing, WizardInv, Fresh, Rejects, Whole, UploadOf
<1>5. CASE f \in Existing
  <2>1. f \in Fields /\ type[f] # "unborn"
    BY <1>5 DEF Existing, FieldTypes
  <2>2. CASE request[d].op = "edit"
    <3>1. type' = [type EXCEPT ![f] = request[d].type] /\ values' = values
      BY <2>2, <1>5 DEF Save
    <3>2. request[d].type \in FieldTypes
      BY <1>2 DEF Request
    <3>3. /\ type' \in [Fields -> FieldTypes \cup {"unborn", "deleted"}]
          /\ \A g \in Fields : g # f => type'[g] = type[g]
          /\ type'[f] \in FieldTypes
      BY <2>1, <3>1, <3>2 DEF Inv, TableTypeOK
    <3>4. Existing' = Existing /\ type'[f] # "unborn"
      BY <1>5, <3>3 DEF Existing, FieldTypes
    <3>5. values' = {v \in values : v.field \in Existing'}
      BY <3>1, <3>4 DEF Inv, TableTypeOK
    <3>6. TableTypeOK' /\ WizardInv'
      BY <2>1, <3>3, <3>4, <3>5, TableInv DEF Save
    <3> QED
      BY <3>6, <1>3 DEF Inv, Save
  <2>3. CASE request[d].op # "edit"
    <3>1. type' = [type EXCEPT ![f] = "deleted"] /\ values' = values \ ValuesOf(f)
      BY <2>3, <1>5 DEF Save
    <3>3. /\ type' \in [Fields -> FieldTypes \cup {"unborn", "deleted"}]
          /\ \A g \in Fields : g # f => type'[g] = type[g]
          /\ type'[f] = "deleted"
      BY <2>1, <3>1 DEF Inv, TableTypeOK
    <3>4. Existing' = Existing \ {f}
      BY <3>3 DEF Existing, FieldTypes
    <3>5. values' = {v \in values : v.field \in Existing'}
      BY <3>1, <3>4 DEF Inv, TableTypeOK, ValuesOf
    <3>6. TableTypeOK' /\ WizardInv'
      BY <2>1, <3>3, <3>4, <3>5, TableInv DEF Save
    <3> QED
      BY <3>6, <1>3 DEF Inv, Save
  <2> QED
    BY <2>2, <2>3
<1> QED
  BY <1>4, <1>5

LEMMA StepInv == Inv /\ [Next]_vars => Inv'
<1> SUFFICES ASSUME Inv, [Next]_vars PROVE Inv'
  OBVIOUS
<1>1. ASSUME NEW u \in Uploaders, WizardStep(u) PROVE Inv'
  BY <1>1, UploadInv, FileGoesInv, SubmitInv, OtherPagesInv, SaveUploadInv DEF WizardStep
<1>2. ASSUME NEW d \in Administrators, FieldStep(d) PROVE Inv'
  BY <1>2, CreateInv, EditInv, DeleteInv, LookForValuesInv, SaveInv DEF FieldStep
<1>3. CASE UNCHANGED vars
  BY <1>3 DEF vars, Inv, TableTypeOK, Existing, WizardInv, Fresh, Rejects, Whole, UploadOf,
              RequestInv, Harmless
<1> QED
  BY <1>1, <1>2, <1>3 DEF Next

\* Every reachable state satisfies the inductive invariant.
LEMMA Invariance == Spec => []Inv
<1> QED
  BY InitInv, StepInv, PTL DEF Spec

\* The tables, the wizards and the posts have their types, and no value
\* outlives its field.
THEOREM TypeCorrect == Spec => []TypeOK
<1> QED
  BY Invariance, InvTypeOK, PTL

\* The page of results tells what was stored (ProcessDataFile).
THEOREM ReportsAreTrue == Spec => []ReportIsTrue
<1>1. Inv => ReportIsTrue
  BY DEF Inv, WizardInv, Whole, UploadOf, ReportIsTrue
<1> QED
  BY Invariance, <1>1, PTL

\* Only an upload with rejected rows can be stored and end on the error page
\* (HandleRowErrors, after Save).
THEOREM CleanUploadsFailWhole == Spec => []CleanUploadFailsWhole
<1>1. Inv => CleanUploadFailsWhole
  BY DEF Inv, WizardInv, Rejects, CleanUploadFailsWhole
<1> QED
  BY Invariance, <1>1, PTL

\* Edit and Delete harm no value that they saw when they looked, reading as the
\* type they had loaded.
THEOREM SeenValuesAreSafe == Spec => SeenValuesOutlive
<1> DEFINE Blamed(v) == \E d \in Administrators :
                          Save(d) /\ v.field = request[d].field /\ v \notin request[d].seen
           Safe == \A v \in values : Readable(v) /\ ~(v \in values' /\ Readable(v)') => Blamed(v)
<1>1. Inv /\ [Next]_vars => [Safe]_vars
  <2> SUFFICES ASSUME Inv, Next,
                      NEW v \in values, Readable(v), ~(v \in values' /\ Readable(v)')
               PROVE  Blamed(v)
    BY DEF vars, Readable
  <2>1. v.field \in Fields /\ v.field \in Existing /\ type[v.field] # "unborn"
    BY DEF Inv, TableTypeOK, Existing, FieldTypes
  <2>2. ASSUME NEW u \in Uploaders, WizardStep(u) PROVE FALSE
    BY <2>2 DEF WizardStep, Upload, FileGoes, Submit, Refuse, SaveUpload, Report, GoBack,
                StartAgain, Readable
  <2>3. ASSUME NEW d \in Administrators, FieldStep(d)
        PROVE  Save(d) /\ v.field = request[d].field /\ v \notin request[d].seen
    <3>1. ~Create(d)
      BY <2>1 DEF Create, Readable, Inv, TableTypeOK
    <3>2. ~Edit(d) /\ ~Delete(d) /\ ~LookForValues(d)
      BY DEF Edit, Delete, LookForValues, Load, Readable
    <3>3. Save(d)
      BY <2>3, <3>1, <3>2 DEF FieldStep
    <3>4. Harmless(request[d]) /\ request[d] \in Request
      BY DEF Inv, RequestInv
    <3>5. v.field = request[d].field
      BY <3>3, <2>1 DEF Save, Readable, ValuesOf, Inv, TableTypeOK
    <3>6. ASSUME v \in request[d].seen PROVE FALSE
      <4>1. request[d].op = "edit" /\ Reads(v.cell, request[d].type)
        BY <3>4, <3>5, <3>6 DEF Harmless
      <4>2. type' = [type EXCEPT ![v.field] = request[d].type] /\ values' = values
        BY <2>1, <3>3, <3>5, <4>1 DEF Save
      <4>3. request[d].type \in FieldTypes /\ type'[v.field] = request[d].type
        BY <2>1, <3>4, <4>2 DEF Request, Inv, TableTypeOK
      <4> QED
        BY <4>1, <4>2, <4>3 DEF Readable
    <3> QED
      BY <3>3, <3>5, <3>6
  <2> QED
    BY <2>2, <2>3 DEF Next
<1> QED
  BY Invariance, <1>1, PTL DEF SeenValuesOutlive, Spec

=============================================================================
