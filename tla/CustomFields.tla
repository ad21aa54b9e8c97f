----------------------------- MODULE CustomFields -----------------------------
(***************************************************************************)
(* Custom fields and the wizard that uploads their values from a data      *)
(* file.  The wizard stores the file in a blob, shows a form that maps its *)
(* columns to fields and, when the form is posted, downloads the file,     *)
(* tests every cell against the type of its field and saves the rows that  *)
(* pass; the others are written to a second file, after the save.  The     *)
(* posts of an administrator load the field they edit or delete, then look *)
(* for values of it, then save; nothing is locked in between, and the      *)
(* database deletes the values of a field with it.                         *)
(*                                                                         *)
(* The file has one column for a field here, and a row is its cell in that *)
(* column.  Names, categories and sources are left out.  BlobCleanup says  *)
(* when files go; here they may go at any time.                            *)
(***************************************************************************)
EXTENDS Naturals

CONSTANTS Uploaders,       \* windows with the wizard
          Administrators,  \* windows with the list of fields
          Fields,          \* the identities the table may give out
          NoField,
          MaxUploads       \* bound on the uploads that are saved

ASSUME FieldAssumption == NoField \notin Fields
ASSUME BoundAssumption == MaxUploads \in Nat

VARIABLES type,            \* type[f]: the field's, or that it is not there
          values,          \* the rows of CustomFieldValue
          uploads,         \* how many rows CustomDataOrigin has had
          wizard,          \* wizard[u]: what the window shows and sends
          request          \* request[d]: what the administrator's post has read and
                           \*   will save

vars == <<type, values, uploads, wizard, request>>

FieldTypes == {"Integer", "Text"}
Cells == {"number", "words"}
Reads(cell, t) == t = "Text" \/ cell = "number"

Value == [origin : 1 .. MaxUploads, field : Fields, cell : Cells]

Wizard == [page : {"choose", "map", "saving", "reporting", "done", "failed"},
           file : {"none", "kept", "gone"},
           offered : SUBSET Fields,      \* what the form lists
           field : Fields \cup {NoField},
           accepted : SUBSET Cells,
           rejected : SUBSET Cells,
           origin : 0 .. MaxUploads]     \* the upload that was saved, or 0

Request == [step : {"none", "loaded", "looked"},
            op : {"delete", "edit"},
            field : Fields \cup {NoField},
            loaded : FieldTypes,         \* the type it has loaded
            type : FieldTypes,           \* the type it will write
            seen : SUBSET Value]         \* the values it looked at that read as the
                                         \*   type it has loaded (history)

\* Nothing has been posted with a form that lists fs.
Unsent(page, file, fs) == [page |-> page, file |-> file, offered |-> fs, field |-> NoField,
                           accepted |-> {}, rejected |-> {}, origin |-> 0]
NewWizard == Unsent("choose", "none", {})
NoRequest == [step |-> "none", op |-> "edit", field |-> NoField, loaded |-> "Text",
              type |-> "Text", seen |-> {}]

Existing == {f \in Fields : type[f] \in FieldTypes}
ValuesOf(f) == {v \in values : v.field = f}

\* The value is what its field says it is.
Readable(v) == type[v.field] \in FieldTypes /\ Reads(v.cell, type[v.field])

\* Every variable has its type, every value belongs to a field that is there
\* and to an upload that was saved, and so does every page of results.
TypeOK ==
  /\ type \in [Fields -> FieldTypes \cup {"unborn", "deleted"}]
  /\ values \in SUBSET Value
  /\ uploads \in 0 .. MaxUploads
  /\ wizard \in [Uploaders -> Wizard]
  /\ request \in [Administrators -> Request]
  /\ \A v \in values : v.field \in Existing /\ v.origin \in 1 .. uploads
  /\ \A u \in Uploaders : wizard[u].origin \in 0 .. uploads

Init ==
  /\ type \in [Fields -> FieldTypes \cup {"unborn"}]
  /\ values = {}
  /\ uploads = 0
  /\ wizard = [u \in Uploaders |-> NewWizard]
  /\ request = [d \in Administrators |-> NoRequest]

-----------------------------------------------------------------------------
Turn(u, page) == wizard' = [wizard EXCEPT ![u].page = page]

MapForm(file, fs) == Unsent("map", file, fs)

\* UploadWizardConfirmed stores the file and shows the form that maps it, or
\* the storage fails and nobody catches the exception.
Upload(u) ==
  /\ wizard[u].page = "choose"
  /\ \/ wizard' = [wizard EXCEPT ![u] = MapForm("kept", Existing)]
     \/ Turn(u, "failed")
  /\ UNCHANGED <<type, values, uploads, request>>

\* The cleanup deletes the file.
FileGoes(u) ==
  /\ wizard[u].file = "kept"
  /\ wizard' = [wizard EXCEPT ![u].file = "gone"]
  /\ UNCHANGED <<type, values, uploads, request>>

\* The rows of known students (those the user may see) whose cell reads as the
\* field's type.
Passing(f, known) == {c \in known : Reads(c, type[f])}

\* The rest of the rows.
Rest(f, known) == Cells \ Passing(f, known)

Tested(w, f, known) == [w EXCEPT !.page = "saving", !.field = f,
                                 !.accepted = Passing(f, known), !.rejected = Rest(f, known)]

\* UploadWizard2 is posted: the file is read and its rows are tested.
Submit(u) ==
  /\ wizard[u].page = "map"
  /\ \/ /\ wizard[u].file = "kept"
        /\ \E f \in wizard[u].offered \cap Existing, known \in SUBSET Cells :
             wizard' = [wizard EXCEPT ![u] = Tested(wizard[u], f, known)]
     \/ Turn(u, "failed")
  /\ UNCHANGED <<type, values, uploads, request>>

\* CheckUploadErrors: the form does not fit the file, or the user may not
\* upload to the field; the page of results says so.
Refuse(u) ==
  /\ wizard[u].page = "map"
  /\ wizard[u].file = "kept"
  /\ Turn(u, "done")
  /\ UNCHANGED <<type, values, uploads, request>>

\* The rows of one upload.
Rows(origin, f, cells) == {[origin |-> origin, field |-> f, cell |-> c] : c \in cells}

\* The results are shown when the rejected rows, if there are any, are written.
Saved(w, origin) == [w EXCEPT !.page = IF w.rejected = {} THEN "done" ELSE "reporting",
                              !.origin = origin]

\* Slips for the mutation runs: the upload is saved under the origin before;
\* the page of results comes before the save; the field is not looked at.
SaveUnderLast(u) ==
  /\ wizard[u].page = "saving"
  /\ \/ /\ wizard[u].field \in Existing
        /\ uploads < MaxUploads
        /\ uploads' = IF uploads = 0 THEN 1 ELSE uploads
        /\ values' = values \cup Rows(uploads', wizard[u].field, wizard[u].accepted)
        /\ wizard' = [wizard EXCEPT ![u] = Saved(wizard[u], uploads')]
     \/ Turn(u, "failed") /\ UNCHANGED <<values, uploads>>
  /\ UNCHANGED <<type, request>>

SaveToAny(u) ==
  /\ wizard[u].page = "saving"
  /\ \/ /\ uploads < MaxUploads
        /\ uploads' = uploads + 1
        /\ values' = values \cup Rows(uploads', wizard[u].field, wizard[u].accepted)
        /\ wizard' = [wizard EXCEPT ![u] = Saved(wizard[u], uploads')]
     \/ Turn(u, "failed") /\ UNCHANGED <<values, uploads>>
  /\ UNCHANGED <<type, request>>

AlwaysReport(u) ==
  /\ wizard[u].page = "saving"
  /\ \/ /\ wizard[u].field \in Existing
        /\ uploads < MaxUploads
        /\ uploads' = uploads + 1
        /\ values' = values \cup Rows(uploads', wizard[u].field, wizard[u].accepted)
        /\ wizard' = [wizard EXCEPT ![u].page = "reporting", ![u].origin = uploads']
     \/ Turn(u, "failed") /\ UNCHANGED <<values, uploads>>
  /\ UNCHANGED <<type, request>>

\* Save, one transaction: it fails as a whole if the field is gone, by the
\* foreign key, or for another reason.
SaveUpload(u) ==
  /\ wizard[u].page = "saving"
  /\ \/ /\ wizard[u].field \in Existing
        /\ uploads < MaxUploads
        /\ uploads' = uploads + 1
        /\ values' = values \cup Rows(uploads', wizard[u].field, wizard[u].accepted)
        /\ wizard' = [wizard EXCEPT ![u] = Saved(wizard[u], uploads')]
     \/ Turn(u, "failed") /\ UNCHANGED <<values, uploads>>
  /\ UNCHANGED <<type, request>>

\* HandleRowErrors writes the rejected rows, when the others are saved.
Report(u) ==
  /\ wizard[u].page = "reporting"
  /\ Turn(u, "done") \/ Turn(u, "failed")
  /\ UNCHANGED <<type, values, uploads, request>>

\* The browser goes back to the form, which can be posted again.
GoBack(u) ==
  /\ wizard[u].page \in {"done", "failed"}
  /\ wizard' = [wizard EXCEPT ![u] = MapForm(wizard[u].file, wizard[u].offered)]
  /\ UNCHANGED <<type, values, uploads, request>>

StartAgain(u) ==
  /\ wizard[u].page \in {"map", "done", "failed"}
  /\ wizard' = [wizard EXCEPT ![u] = NewWizard]
  /\ UNCHANGED <<type, values, uploads, request>>

WizardStep(u) ==
  \/ Upload(u) \/ Submit(u) \/ Refuse(u) \/ SaveUpload(u) \/ Report(u)
  \/ GoBack(u) \/ StartAgain(u) \/ FileGoes(u)

-----------------------------------------------------------------------------
Create(d) ==
  /\ request[d].step = "none"
  /\ \E f \in Fields, t \in FieldTypes :
       /\ type[f] = "unborn"
       /\ type' = [type EXCEPT ![f] = t]
  /\ UNCHANGED <<values, uploads, wizard, request>>

Load(d, op, f, t) ==
  /\ request[d].step = "none"
  /\ request' = [request EXCEPT ![d] = [step |-> "loaded", op |-> op, field |-> f,
                                        loaded |-> type[f], type |-> t, seen |-> {}]]
  /\ UNCHANGED <<type, values, uploads, wizard>>

\* Edit and Delete load the field.
Edit(d) == \E f \in Existing, t \in FieldTypes : Load(d, "edit", f, t)
Delete(d) == \E f \in Existing : Load(d, "delete", f, type[f])

\* A slip for the mutation runs: a field with values is refused to Delete only.
ForbidsDelete(r) == r.op = "delete" /\ ValuesOf(r.field) # {}

\* What a value of the field forbids: to delete it, and to write another type
\* than the one that was loaded.
Forbids(r) == ValuesOf(r.field) # {} /\ (r.op = "delete" \/ r.type # r.loaded)

Looked(r) == [r EXCEPT !.step = "looked", !.seen = {v \in values : Reads(v.cell, r.loaded)}]

\* The second query of Edit and Delete looks for values of the field.
LookForValues(d) ==
  LET r == request[d]
  IN  /\ r.step = "loaded"
      /\ \/ Forbids(r) /\ request' = [request EXCEPT ![d] = NoRequest]
         \/ ~Forbids(r) /\ request' = [request EXCEPT ![d] = Looked(r)]
      /\ UNCHANGED <<type, values, uploads, wizard>>

\* Save of what Edit or Delete loaded; if the row is gone it fails and changes
\* nothing.
Save(d) ==
  LET r == request[d]
  IN  /\ r.step = "looked"
      /\ \/ r.field \notin Existing /\ UNCHANGED <<type, values>>
         \/ /\ r.field \in Existing /\ r.op = "edit"
            /\ type' = [type EXCEPT ![r.field] = r.type]
            /\ UNCHANGED values
         \/ /\ r.field \in Existing /\ r.op = "delete"
            /\ type' = [type EXCEPT ![r.field] = "deleted"]
            /\ values' = values \ ValuesOf(r.field)
      /\ request' = [request EXCEPT ![d] = NoRequest]
      /\ UNCHANGED <<uploads, wizard>>

FieldStep(d) == Create(d) \/ Edit(d) \/ Delete(d) \/ LookForValues(d) \/ Save(d)

Next == (\E u \in Uploaders : WizardStep(u)) \/ (\E d \in Administrators : FieldStep(d))

Spec == Init /\ [][Next]_vars

-----------------------------------------------------------------------------
\* The results a wizard shows are what the tables hold: the rows of its upload
\* are all that were accepted and no other, until the field is deleted.
ReportIsTrue ==
  \A u \in Uploaders : wizard[u].page = "done" /\ wizard[u].origin # 0
                         /\ wizard[u].field \in Existing
    => {v \in values : v.origin = wizard[u].origin}
         = Rows(wizard[u].origin, wizard[u].field, wizard[u].accepted)

\* An upload that ends on the error page has stored nothing if none of its rows
\* was rejected: only the file of rejected rows is written after the save.
CleanUploadFailsWhole ==
  \A u \in Uploaders : wizard[u].page = "failed" /\ wizard[u].origin # 0
    => wizard[u].rejected # {}

\* A value is lost or stops reading as its field says only by the save of a post
\* that did not see it, or saw that it does not read as the type the post had
\* loaded: it came after the look for values, or after another administrator
\* changed the type between the two queries.  A post whose look found the value
\* does it no other harm, whatever the posts and uploads of others did since.
SeenValuesOutlive ==
  [][\A v \in values : Readable(v) /\ ~(v \in values' /\ Readable(v)')
       => \E d \in Administrators :
            Save(d) /\ v.field = request[d].field /\ v \notin request[d].seen]_vars

=============================================================================
