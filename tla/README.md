# Student Success Dashboard: specifications

TLA+ specifications of the Student Success Dashboard, an ASP.NET MVC application
over Entity Framework 5 and SQL Server with which a school district and its
partners schedule services for students. They model the code under
`src/src/SSD.*`: what the managers (the business logic behind the controllers)
do to the database, what its pages do in the browser between a click and the
answer to it, and what its two background jobs do. They say which of the
properties the district relies on hold, and which do not.

## 1. Inventory

### How the program runs

A browser posts a form to a controller (`SSD.Application/Controllers`), which
validates the view model and calls one method of a manager
(`SSD.Business/Business`). A manager reads entities through a repository
(`SSD.Repositories`), checks permissions (`SSD.Security`), changes the entities
in memory and calls `RepositoryContainer.Save()` once at the end; that is one
database transaction. A manager method that throws has saved nothing. There is
no optimistic concurrency: `SetModified` writes all columns of a row as they
were loaded. Deletes of catalog rows and assignments are soft (`IsActive`),
those of requests, attendances and user roles are hard.

| Component | State | Operations | What makes it correct |
|---|---|---|---|
| Service catalog: `ProviderManager`, `ServiceTypeManager`, `ProgramManager` | rows of Provider, ServiceType, Program, ServiceOffering; schools of a program | Create, Edit, Delete of each; all reshuffle the offerings that join a provider, a type and a program | nothing a student is assigned to is withdrawn; a program is active exactly while it offers something; a closed program is at no school; deleted rows stay out of use |
| Types' privacy and categories: `ServiceTypeManager` | IsPrivate, Categories | SetPrivacy, Create, Edit | what was asked for last is what is stored |
| Scheduling: `ScheduledServiceManager` | rows of StudentAssignedOffering | Create (many students), Edit, Delete | assignments are made on active offerings; cancelled ones stay cancelled |
| Attendance: `ServiceAttendanceManager`, `IO/ServiceAttendanceFileProcessor` | rows of ServiceAttendance | Create, Edit, Delete, spreadsheet import | attendance of active assignments only; an import makes no second assignment |
| Service requests: `ServiceRequestManager` | ServiceRequest and its fulfillment history | Create, Edit, Delete | the latest fulfillment is the status shown; a request always has one |
| Approvals: `SchoolDistrictManager`, `StudentRepository` | approved providers, opt-out | AddProviders, RemoveProvider, RemoveAllProviders, SetStudentOptOutState | deleted providers are approved by nobody |
| Accounts: `AccountManager`, `UserAuditor`, `AgreementManager` | users, roles, email confirmation, access-change audit, EULA | EnsureUserEntity, Edit, Create role, UpdateActiveStatus, RequestEmailChange, ConfirmEmail, AuditLogin | every change of access is audited; an address confirmed is the address asked for last |
| Identity mapping: `ActionFilters/UserIdentityMapAttribute` | a process-wide list of users to audit | OnAuthorization | one login, one audit record |
| Custom fields: `CustomFieldManager`, `CustomFieldController` | fields, values, uploads; the pages of the upload wizard | Create, Edit, Delete, upload wizard | values of existing fields only; the results page tells what was stored |
| Blob storage: `IO/AzureBlobContainer`, `BlobCleanup` | blobs and the day each was written | upload, DeleteAged, Run | aged blobs go, those that open pages link to stay |
| ETL: `SSD.Integration.Database/Queue/StoredProcedures` | queue tables | MERGE into SSD, log, empty the queue | a sound batch arrives, wherever a run stops; when a key gets a second row |
| Query cache: `EFCachingProvider` | cached result sets and their dependencies | read, invalidate on update | no stale result after a commit |
| Security: `SSD.Security/Security/Permissions` | none | GrantAccess | decisions follow role, school and provider |
| View models: `SSD.Presentation` | none | CopyTo, CopyFrom, paging, sorting | covered where a manager depends on it |
| Listings: `Scripts/Views/DataTable.js`, the filters and `Manage` pages | filters, draws in flight, the rows shown, boxes posted at once | Refresh, draw, post of a box | once all is answered the table shows what is stored |
| Dialog: `Scripts/Views/ssd.js`, `User/Manage.js`, `StudentApproval/Manage.js`, Bootstrap's modal | the one dialog, its Submit button and its handlers | open, submit, cancel, fade | a form is posted by its own handler and saved once; the button comes back |
| Profile export: `Scripts/Views/DataFile/StudentProfileExport.js` | five lists on the page | choose, submit, export | only the list on display changes; no export without schools |

### Interactions

- The three catalog managers and `ScheduledServiceManager` share the offering
  rows: the managers withdraw offerings, scheduling makes assignments on them.
  Each withdrawal reads `StudentAssignedOffering`, each assignment reads
  `ServiceOffering`.
- Approvals and provider roles link to providers that `ProviderManager` deletes.
- Attendance, requests' fulfillments and imports link to assignments.
- Closing a program touches its schools, from four different methods.
- Every page shows its forms in one dialog with one Submit button, so the forms
  share its click handlers; the export page's five lists do too.
- A box of a listing is posted at once, and the listing is drawn again by a timer:
  posts, draws and their answers overtake one another.
- The upload wizard keeps its file in the blob container that the cleaning
  thread empties of what is older than two days.

### What is hard here

- *Protocols over several managers.* Each invariant over offerings depends on
  nine methods in three classes that were written separately.
- *Late forms.* A form is rendered from the database and posted minutes later;
  managers look selected rows up by id and mostly do not ask whether they are
  still active.
- *Interleaved requests.* Check and save of two requests interleave; nothing
  is locked and no row has a version.
- *Soft delete and reuse.* A Create with the name of an inactive row
  reactivates it, together with whatever its old links still hold.
- *Batch jobs.* Merging queues, importing spreadsheets and cleaning blobs run
  next to the site.
- *Callbacks.* A page reacts to timers, fades and answers in whatever order they
  come, and an impatient user clicks on meanwhile.

The line-by-line list of hazards is in `PROJECT.json`.

## 2. Plan

In this order; each with its runs and, where marked T, its theorems.

1. `ServiceCatalog` (T) with the abstract `OfferingLifecycle`: **built**.
2. `CatalogRequests` (T): the same operations as load, change and save steps of
   several sessions, with whole-row updates: a request that finds everything it read
   as it was is a step of `ServiceCatalog`. **built**
3. `ServiceRequests` (T): requests and their fulfillment history. **built**
4. `ServerTable`, `ToggleTable` (T): listings whose boxes are posted at once, with
   liveness. **built**
5. `Dialog`, `CrudModal` (T): the forms in the dialog, with liveness. **built**
6. `ProfileExport` (T): the lists of the export page. **built**
7. `BlobCleanup` (T) with liveness: aged blobs go eventually. **built**
8. `CustomFields` (T): fields, values and the upload wizard. **built**
9. `QueueMerge` (T): the ETL procedures with concurrent producers. **built**
10. `ServiceTypes` (T): privacy and categories across delete and re-create.
11. `Accounts` (T): users, roles, status, audit trail; email confirmation;
    `Eula`, `LoginAudit`.
12. `AttendanceImport`: spreadsheet import rows against assignments.
13. `QueryCache` (T): invalidation and eviction against concurrent readers.
14. `Permissions`, natural sort and paging as operators against reference
    definitions.

Abstract specifications worth stating: `OfferingLifecycle` (what those who
schedule rely on; built), `ServiceCatalog` itself for `CatalogRequests` (built), an append-only audit trail for `Accounts`, a read-through
without a cache for `QueryCache`.

The number of runs stays small by checking each component's properties in one run
and proving, where the prover reaches, what larger instances would show.

## 3. Modules and the code

| Module | What it is |
|---|---|
| `OfferingLifecycle` | what the catalog promises about one offering to those who schedule: an offering is made, reactivated or withdrawn, and is not withdrawn while an active assignment uses it |
| `ServiceCatalog` | the operations of `ProviderManager`, `ServiceTypeManager`, `ProgramManager`, and of scheduling and approvals where they meet the catalog; one action per manager method, atomic |
| `CatalogRequests` | the same tables, with each request of a session loading rows, deciding on what it loaded, and saving whole rows later |
| `ServiceRequests` | `ServiceRequestManager` with the edit forms that are open in browsers |
| `ServerTable` | a DataTables listing: filters, the delayed refresh, draws with their echoes |
| `ToggleTable` | the pages with boxes that are posted at once (opt-outs, favourites, private types), over `ServerTable` |
| `Dialog` | the modal plugin: shown, hidden, fading, its backdrop |
| `CrudModal` | the forms in the dialog and the handlers of its Submit button, over `Dialog` |
| `ProfileExport` | the export page's lists, chosen in the dialog, over `Dialog` |
| `BlobCleanup` | the cleaning thread call by call, with the requests that write files |
| `CustomFields` | custom fields, their values, and the upload wizard page by page |
| `QueueMerge` | `ProcessQueues`, statement by statement, with the systems that fill the queues |
| `FileProofs` | theorems of `BlobCleanup` and `CustomFields`, the two modules about uploaded files (the names of `BlobCleanup` that clash are prefixed: `CleanupSpec`, `CleanupTypeOK`) |
| `*Proofs` | theorems of the module they are named after |
| `MC*` | symmetry sets and constants for TLC |

**`ServiceCatalog`.** `provider`, `serviceType`, `program` and `offering` map the
identity of a row to `"absent"`, `"active"` or `"inactive"`: rows are never
removed. An identity stands for a name too, so that `Create` of an inactive row is
the reactivation that the managers perform, and the duplicate check of the
controllers is the guard that the row is not active. An offering is the triple
of its provider, type and program (the managers keep it unique by looking before
they add). `schools` is the link table of programs and schools; `associates` holds
whoever is linked to a provider (students by approval, user roles); `assignments`
holds the rows of `StudentAssignedOffering`. A method that throws saves nothing,
so its checks are guards. The trailing deactivation of programs that are left with
nothing to offer, and the removal of their schools, is part of every action that
withdraws offerings, as in the code. `StaleForms` chooses whether a posted form may
name rows that have been deleted since it was rendered; the managers look posted
identifiers up without asking whether the row is still active.

**`CatalogRequests`.** One session handles one request at a time: a `Load` step
reads the database, makes the checks of the method and keeps the rows that the
unit of work will write; `Save` writes them; `Abandon` is a request that fails or
never gets there. `Set` is a row given to `Update`, written with all its columns
as loaded; `Changed` is a row that is only modified in memory, of which Entity
Framework writes the columns that differ. There is no row version and no lock
in the code, and none in the model. Types and schools are left out: they add
nothing to the conflicts of providers and programs. What a request has read (`read`) is
history: the rows it looked at, the offerings it asked for students of, the programs
it looked for others' offerings of. `disturbed` is a history variable too: the sessions
of whose request a save of another has changed something that it had read. `Catalog`
is `ServiceCatalog` over these tables, with one type, no school and nobody associated;
`UndisturbedSavesAreAtomic` says that a save of a request that was not disturbed is a
step of it, even when others saved meanwhile. So the two modules divide the matter
between them: what one request does to the catalog is `ServiceCatalog`'s, and what
overlapping adds shows only in requests that rest on rows changed since. These do
harm (see the counterexamples in section 4): nothing in the code detects them.

**`ServiceRequests`.** `details[r]` is the fulfillment history of a request, the
last element the current one. `form[f]` is what the browser got from
`GenerateEditViewModel` and posts back: the request and `OriginalStatusId`. A
rejected post shows the same form again, because MVC renders hidden fields from the
posted values, and so is no step. An accepted post is one step: it loads the request
(line 147), compares (158) and saves (169) with no other post in between. Two posts that
overlap there both add a fulfillment for the same status, which the model leaves out. `asked` is a history variable: the status and
offering of the form accepted last. Time is the order of the history; see hazards
for the wall clock. The general fields of a request (type, subject, priority,
notes) are overwritten by every edit and left out.

**`ServerTable`, `ToggleTable`.** `draws` are the ajax requests of the table, with the
echo of `iDraw`; an answer with an earlier echo is dropped (`IsLatest`). Refresh
starts a timer of a second, anew if it is running (`delay`); the timer reads
the filters when it fires. The server reads what is stored at a moment between the
request and its answer (`Reads`), so an answer can be old when it is shown. A box is
changed on the page at once and posted (`Toggle`), the server stores it later
(`SavePost`), and the callback refreshes the table (`PostSucceeds`). `missed`
remembers what the code itself gives up: the last draw failed, a suggestion was taken
where the search field has the unbound `Refresh`, or a post of the type page failed.
`panel` is the scheduling page's list of favourites.

**`Dialog`, `CrudModal`.** Each opening of a form is a number, which stands for the form
and the handler it binds. `handlers` are bound to the button, `delegated` to
the elements around it; jQuery passes over delegated handlers of a disabled button
(`ClickHandlers`). A post carries who posts and which form's data (`Data`).
`patient` is a user who waits for what was asked for before clicking another link; an
impatient one may open two forms, and the properties that need patience say so.

**`ProfileExport`.** `lists` are the chosen options that the page holds and posts;
`picked` is what is selected in the dialog. Submit runs every handler that is bound,
each over the options of its own form (`Selected`).

**`BlobCleanup`.** `cleaner` is the thread: a pass opens each container, lists it,
asks each blob's age and deletes it, one storage call per step. A `BlobException` ends
the pass of its container (`ContainerFails`); any other storage error ends the
process, which the role starts again (`Restart`). Time is counted in days.

**`CustomFields`.** `wizard[u]` is an upload from its file to its page of results:
rows are tested when the form is posted (`Submit`), stored in one transaction
(`SaveUpload`), and the rejected ones are written to blob storage afterwards
(`Report`). `request[d]` is an administrator's Edit or Delete, in the three steps in
which it loads the field (`Load`), looks for values (`LookForValues`) and saves (`Save`):
another post or an upload may come between any two of them. `seen` is history: the
values the look found that read as the type the post had loaded. A cell is a number or
words, which is all that a field's type asks.

**`QueueMerge`.** `queue` and `stored` hold the rows of all five entities. A run
executes, for each entity, the merge, the log and the delete as three steps; rows
arrive and the run may be stopped in between. No queue has a unique key and of the
tables only SSD.StudentClasses has one, so a key may be queued several times and
stored several times. Two equal rows of a queue differ in `copy`, and a third does what
the second does. `stored` holds the rows of a key that differ and `several` the keys
that have more than one row, equal or not. A merge fails as a whole (`CanMerge`) when a
lookup by key finds no row (NULL, which the tables refuse) or two, when two rows of the
queue update the same row or insert the same enrollment, or when a row has no room
in `@OutputTable` (`TooLong`); the statements after it, the delete included, are
executed all the same. Students are matched by comparing the stored SIS id with the
incoming key, so `OneId` names the students whose two ids are the same; the others get
another row each time. That one student's SIS id is another's key is excluded. `batch`
is history: whether the rows that were queued when the run started are `Sound`, that
is, can be merged in the order of the procedures, and no row has come since for a queue
still to be merged.

Permissions are left out of all: a refusal changes nothing, and every
property holds or fails for users who have the permission.

## 4. What is checked

| Run | Question | Answer |
|---|---|---|
| `catalog` | does the catalog stay consistent with assignments, whatever late forms ask for, and does it implement `OfferingLifecycle`? | yes |
| `catalog_fresh` | does a closed program offer nothing, when forms are up to date (two types)? | yes; with late forms it is not so, which is why the run says `StaleForms = FALSE` |
| `deleted_provider_offers` | does a deleted provider offer nothing? | no: editing a service type revives its offerings |
| `overlapping_requests` | is a save of one of two administrators and two schedulers, of which nothing it had read was changed by the others' saves, a step of `ServiceCatalog`? | yes, and, as proved, for any number of sessions; a request of which something was changed can break the catalog |
| `requests` | do requests with two open forms show what was posted last, with a history that records each change once and is not rewritten, and does a change without notes only go back? | yes |
| `requests_two_forms` | does every change of status have notes? | no: a form posted unchanged after another changes the status back, without notes (with one form at a time it holds, and is proved) |
| `toggle_table` | does a listing end up showing what is stored, and the panel the favourites, and does a user who stops get to see it? | yes, unless the page gave up (`missed`, `panelMissed`) |
| `crud_modal` | is a crud form posted by its own handler, with its own data, saved once; is the page left usable; does Submit come back? | yes for a patient user; on the approvals page Submit may stay dead |
| `profile_export` | does Submit change only the list on display, and is nothing exported without schools? | yes, the former for a patient user |
| `blob_cleanup` | are files kept while a page links to them, for two days, and do old files go, with errors and restarts? | yes |
| `custom_fields` | do results pages tell the truth, do uploads without a rejected row that fail store nothing, and do administrators harm only values that their look did not find readable? | yes; values that came after the look, or read as a type changed since the load, are lost |
| `queue_merge` | does a key get a second row only with its first one, does a run of sound rows lose only what comes between a merge and the delete after it, and can it be run again when it is stopped? | yes, but for students whose SIS id is not their key; a batch that is not sound (a key too long for the log, a key queued twice that is stored, a missing reference) is deleted unmerged, as in the code |

Each run that ends in a violation belongs to a finding in `PROJECT.json`, which
quotes the test or message that says otherwise. Each property of a passing run has
a mutant there: a slip that a maintainer could make in the named definition and
that the run then catches. The slips are the definitions commented as such, just
before the definition they replace; nothing else uses them.

**Known counterexamples without a run.** State the promise as an invariant or an action
property and TLC shows them. In `CatalogRequests`, two overlapping deletes of two
administrators leave a program open with nothing to offer (`ProviderManager.cs:232`), and an
Edit saved after another scheduler's Delete makes the assignment active again
(`ScheduledServiceManager.cs:171`). An
assignment loaded before its provider is deleted and saved after it is active on a
withdrawn offering (`ProviderManager.cs:134`). A deleted provider can be approved
again (`SchoolDistrictManager.cs:222`). In the browser, an impatient user who opens two
forms posts the second to both addresses, can be left with a backdrop over the page, and
on the export page empties a list that is not on display: drop `patient` from the
property and TLC shows it.

**Bounds.** Two providers, one or two types and one or two programs are what the
conflicts need: an offering is a triple, a program is closed when the *last* of its
offerings goes, and a provider shares a program with one other. One school and one
associate suffice because each is linked on its own and no operation compares two
of them. Two assignments, so that cancelling one leaves another in use. In
`CatalogRequests` the sessions are the bound: two administrators and two schedulers, so
that each kind of request meets another of its kind and of every other; with them one
program and one assignment, over two providers (with two programs as well the run takes
longer than is useful, and the theorem says it of any number). In
`ServiceRequests` two requests and two forms (two requests so that one form cannot be
about all of them), three statuses, and histories of up to `MaxDetails = 4`, which a
change that goes back needs. In the other modules the bounds stand in guards:

| Bound | Limits | Why it is enough |
|---|---|---|
| `MaxDetails = 4` (3 in `requests_two_forms`) | fulfillments in a history | a change and two more after it; a change that goes back without notes needs three |
| `MaxEdits = 3`, `MaxFailures = 1`, one row, two criteria (`ToggleTable`) | the user's filters and boxes; failed answers | a box changed twice while a filter is changed in between: two posts and two draws may overtake one another; rows are stored one by one |
| `MaxOpenings = 3`, `MaxSubmits = 2`, `MaxFailures = 1` (`CrudModal`) | forms opened, clicks on Submit, failed answers | a form after a failed or cancelled one after another; a click repeated on a form already posted |
| `MaxClicks = 2`, two options of three kinds (`ProfileExport`) | clicks on one link before its answer | a list chosen, then another, with what is bound by the first left over |
| `MaxFiles = 2`, `MaxDay = 4`, `MaxFaults = 2`, two containers (`BlobCleanup`) | files written, days, storage errors and restarts | a file that ages past two days and a fresh one in the same container; a pass that lasts over midnight, one that fails and one that ends the process |
| `MaxUploads = 2`, one field, two uploaders, two administrators (`CustomFields`) | uploads saved | an upload that meets another's values, an Edit and a Delete at once; fields do not touch each other |
| `MaxQueued = 4`, one school, two teachers, two students, one class (`QueueMerge`) | rows queued at once | a school and a teacher with the student and the class that refer to them, or several rows of one key; one student of each sort (`OneId`), a teacher too long for the log beside one who is not; longer chains build up in the tables over several runs |

The other bounds are the sizes of constant sets.

**Deadlock** is checked in the runs of the catalog and in `queue_merge`, which never stop. It
is not in the others: identities of requests and uploads, days, files, clicks and
openings are finite there and run out.

**Fairness.** Liveness is stated where the code has a scheduler of its own, and only for
what that scheduler runs. `ToggleTable` and `CrudModal` assume weak fairness of the
machine: a browser runs its timers, callbacks and fades, and the server answers or the
request fails. `BlobCleanup` assumes weak fairness of the cleaning thread. Users and
administrators owe the system nothing and failures are never required; that they are
bounded says that storage and network do not fail for ever. No liveness is stated for
`QueueMerge`, because the caller of `ProcessQueues` is not in the repository, nor for
what people do on the other pages.

## 5. What is proved

All theorems hold for every value of the constants; nothing is assumed about the
sizes of the sets, but that `OneEditorLeavesNotes` is about one form. The other assumptions are those the modules
name: that null values are not values (`AskedAssumption`, `FormAssumption`, `ShownAssumption`
and the like), that bounds are numbers, and `IdAssumption` of `QueueMerge`.

**`ServiceCatalogProofs`.** The inductive invariant `IInv` is the type invariant with
`ActiveAssignmentHasActiveOffering`, `ActiveProgramHasActiveOffering` and
`InactiveProgramHasNoSchools`. They need each other's company: closing programs is
decided from offerings, and withdrawing offerings from assignments. All operations of
providers and types go through `UpdatePrograms`, so `UpdateProgramsKeeps` says once
what a reshuffle preserves, and the actions add their own rows.
`CatalogImplementsLifecycle` is the refinement: each step is a step of
`OfferingLifecycle` or a stutter, from `IInv`. `ClosedProgramsOfferNothing` adds the
assumption `~StaleForms` and, as its own strengthening, the invariant it proves.

**`CatalogRequestsProofs`.** `Asked(s, w)` says that session `s` would load the request
`w` from the tables as they are. Each of the nine kinds of request is a function of what
it reads, so a request that was asked for still is as long as everything it has read is
as it was, whatever else was saved (`StillAsked`, from one lemma per kind). This is
`UpToDate`, which with the types and `KeepsToItsRows` (which tables a session writes at
all, and that no request writes two assignments) is the inductive invariant `Inv`;
`TypeCorrect` follows for any sessions. `AskedAndSaved` shows, request by request, that
what is asked for now and written now is an action of `ServiceCatalog` (or, for the edit of
an assignment, no change), and an undisturbed request is asked for now:
`UndisturbedSavesRefineCatalog`. `WithoutConflictsRefinesCatalog` says it of whole
behaviours, and `WithoutConflictsPromisesAreKept` carries the invariant `IInv` of
`ServiceCatalogProofs` over: as long as no save changes what another request in flight
has read, any number of administrators and schedulers, overlapping as they like, leave
active assignments on active offerings and active programs with something to offer.
The hypothesis cannot go: TLC has the counterexamples above.

**`ServiceRequestsProofs`.** `IInv` is the type invariant with `ShownIsLastAsked` and
`HistoryRecordsChanges`. `Edited` says in one formula what a post makes of a history
(append, or overwrite of the last offering), `EditChanges` proves it from the two
helpers, and the invariants, `HistoryIsKept` and the notes follow from it alone.
`OneEditorLeavesNotes` assumes that there is at most one form; the strengthening it
needs is `FormShowsCurrent`, that an open form shows the current status, which is
what a second form breaks. `UnnotedChangesGoBack` says what is left with any number of
forms: each form shows a status its request has had (`FormShowsPast`).

**`ToggleTableProofs`.** The table is current when it is quiet because whatever can make it
stale leaves a draw to come: a stored value differs from what the latest draw will show
only while a post, a timer or a draw with the latest echo is on its way. The invariant
says that for the draws in flight (echoes at most `iDraw`, the latest one asked for the
present criteria and unread or read since the last save) and likewise for the panel.

**`CrudModalProofs`.** For a patient user at most one form is asked for at a time, its
handler is the only one on the button, and its posts are all by it; a form is saved once
because a live button and a post in flight exclude each other. The invariant also
relates the dialog, its fade and the handlers, from which `ClosedDialogIsInert` and
`PageStaysUsable` follow.

**`ProfileExportProofs`.** A patient user's dialog has the handler of the form it shows and
no other, and untouched options are those of the page's list; the two action properties
follow for `Submit`, the only step that changes a list.

**`FileProofs`**, of `BlobCleanup`. The file about to be deleted was old on the day the pass of its
container began, and that day is not later than today: so it is old for a page that
links to it too.

**`FileProofs`**, of `CustomFields`. Origins are handed out in order, each to one wizard, and the
values of an origin are the accepted rows of the wizard that has it while its field
is there. For what an administrator's save does, `Harmless` says that a post waiting to be
saved keeps what it saw: it edits, and its type is one that every readable value its look
found of its field reads as.

**`QueueMergeProofs`.** That a key gets a second row only together with its first needs
no invariant, only what MERGE inserts. What a run loses does: `SoundSoFar` says that the
rows it has still to merge are sound, what they refer to being stored once or queued
ahead of them, so that their merge cannot fail; `MergedOrLate` says that what is about to
be deleted was merged or came late. `Resumes` and `NothingElse` say the like of a run
that is stopped anywhere and of one that ends.

**Only model-checked.** Liveness (`CatchesUp`, `SubmitComesBack`, `OldFilesGo`), which is
out of the prover's reach. Counterexamples are TLC's. Every other property of a passing
run is a theorem.

## 6. What is not modelled

`PROJECT.json` lists every component with its status. Not yet: the modules of section 2
that are not built. Of the components that are modelled in part: favourites and
privacy only as the listings post them; the selection of students and users across
pages, print preview and layout of the pages; names, which only ever collide as the
identity of a row; `BlobCleanup.Stop`, which nothing calls. Not at all: reading and
writing of spreadsheet formats (no state of its own), the vendored provider wrappers,
tracing and query translation, the schema and deployment files, the drivers
under `automation`, and the browser libraries beyond what the site's scripts rely
on (the draws of DataTables, show and hide of the modal plugin, the delegated handlers
of jQuery, the selections of bsmSelect). Most of the repository's JavaScript is such
libraries, their examples and their documentation; the site's own scripts are about
5,400 lines, and the core of the system is C# and SQL.
