--------------------------- MODULE ServiceRequests ---------------------------
(***************************************************************************)
(* Service requests and the history of their fulfillment, as               *)
(* ServiceRequestManager and ServiceRequestController change them through  *)
(* edit forms that stay open in browsers.  The last fulfillment detail of  *)
(* a request is its current status; a detail is added when the status      *)
(* changes and the last one is overwritten when only the assigned offering *)
(* does.                                                                   *)
(*                                                                         *)
(* The history is ordered by CreateTime, a local DateTime.Now: the model   *)
(* takes a later detail to have a later time.  A post is one step: it      *)
(* loads the request, compares and saves with no other post in between.    *)
(***************************************************************************)
EXTENDS Naturals, Sequences

CONSTANTS Requests,        \* identities of ServiceRequest rows, never reused
          Statuses,
          Open,            \* the status a new request has (1)
          Offerings,       \* assigned offerings of the student
          NoOffering,
          Forms,           \* browser forms, each on one request at a time
          NoForm,
          NothingAsked,
          MaxDetails       \* bound on the details of one request

ASSUME StatusAssumption == Open \in Statuses
ASSUME FormAssumption == NoForm \notin [request : Requests, original : Statuses]
ASSUME AskedAssumption ==
  NothingAsked \notin [status : Statuses, offering : Offerings \cup {NoOffering}]

VARIABLES details,         \* details[r]: FulfillmentDetails by CreateTime, <<>> if no row
          form,            \* form[f]: what form f shows
          asked            \* asked[r]: the status and offering last asked for,
                           \*   NothingAsked before r was made (history variable)

vars == <<details, form, asked>>

Detail == [status : Statuses, offering : Offerings \cup {NoOffering}, hasNotes : BOOLEAN]
Form == [request : Requests, original : Statuses]
Asked == [status : Statuses, offering : Offerings \cup {NoOffering}]

Latest(r) == details[r][Len(details[r])]

Init ==
  /\ details = [r \in Requests |-> <<>>]
  /\ form = [f \in Forms |-> NoForm]
  /\ asked = [r \in Requests |-> NothingAsked]

-----------------------------------------------------------------------------
\* The detail CreateFulfillmentDetail builds from a form.  The status is the form's:
\* ServiceRequestModel starts with Open and refuses 0, so the code's check for 0
\* never applies.
NewDetail(status, offering, hasNotes) ==
  [status |-> status, offering |-> offering, hasNotes |-> hasNotes]

\* One request for each selected student; the form of a new request shows
\* neither status nor notes nor offering, and its model starts with Open.
Create(rs) ==
  /\ \A r \in rs : asked[r] = NothingAsked
  /\ details' = [r \in Requests |->
       IF r \in rs THEN <<NewDetail(Open, NoOffering, FALSE)>> ELSE details[r]]
  /\ asked' = [r \in Requests |->
       IF r \in rs THEN [status |-> Open, offering |-> NoOffering] ELSE asked[r]]
  /\ UNCHANGED form

\* A slip for the mutation runs: OriginalStatusId is not filled in.
OpenUnfilledForm(f, r) ==
  /\ form[f] = NoForm
  /\ details[r] # <<>>
  /\ form' = [form EXCEPT ![f] = [request |-> r, original |-> NothingAsked]]
  /\ UNCHANGED <<details, asked>>

\* GenerateEditViewModel
OpenForm(f, r) ==
  /\ form[f] = NoForm
  /\ details[r] # <<>>
  /\ form' = [form EXCEPT ![f] = [request |-> r, original |-> Latest(r).status]]
  /\ UNCHANGED <<details, asked>>

CloseForm(f) ==
  /\ form[f] # NoForm
  /\ form' = [form EXCEPT ![f] = NoForm]
  /\ UNCHANGED <<details, asked>>

CreateFulfillmentDetail(r, status, offering, hasNotes) ==
  /\ Len(details[r]) < MaxDetails
  /\ details' = [details EXCEPT ![r] = Append(@, NewDetail(status, offering, hasNotes))]

\* A detail as UpdateCurrentFulfillmentDetail stores it again.
WithOffering(d, offering) ==
  [status |-> d.status, offering |-> offering, hasNotes |-> d.hasNotes]

\* A slip for the mutation runs: the oldest detail is taken for the current.
UpdateFirstFulfillmentDetail(r, offering) ==
  details' = [details EXCEPT ![r] = [@ EXCEPT ![1] = WithOffering(details[r][1], offering)]]

UpdateCurrentFulfillmentDetail(r, offering) ==
  details' = [details EXCEPT ![r] = [@ EXCEPT ![Len(details[r])] = WithOffering(Latest(r), offering)]]

\* Slips for the mutation runs: the status is compared with the one the form
\* showed; a new status is written over the current detail; notes are not asked for.
EditAgainstForm(f, status, offering, hasNotes) ==
  LET r == form[f].request
  IN  /\ form[f] # NoForm
      /\ status # form[f].original => hasNotes
      /\ details[r] # <<>>
      /\ \/ status # form[f].original /\ CreateFulfillmentDetail(r, status, offering, hasNotes)
         \/ status = form[f].original /\ UpdateCurrentFulfillmentDetail(r, offering)
      /\ asked' = [asked EXCEPT ![r] = [status |-> status, offering |-> offering]]
      /\ form' = [form EXCEPT ![f] = NoForm]

EditInPlace(f, status, offering, hasNotes) ==
  LET r == form[f].request
  IN  /\ form[f] # NoForm
      /\ status # form[f].original => hasNotes
      /\ details[r] # <<>>
      /\ details' = [details EXCEPT ![r][Len(details[r])] =
           NewDetail(status, offering, hasNotes)]
      /\ asked' = [asked EXCEPT ![r] = [status |-> status, offering |-> offering]]
      /\ form' = [form EXCEPT ![f] = NoForm]

EditWithoutNotes(f, status, offering, hasNotes) ==
  LET r == form[f].request
  IN  /\ form[f] # NoForm
      /\ details[r] # <<>>
      /\ \/ status # Latest(r).status /\ CreateFulfillmentDetail(r, status, offering, hasNotes)
         \/ status = Latest(r).status /\ UpdateCurrentFulfillmentDetail(r, offering)
      /\ asked' = [asked EXCEPT ![r] = [status |-> status, offering |-> offering]]
      /\ form' = [form EXCEPT ![f] = NoForm]

\* The controller compares the posted status with the one the form showed and
\* then asks for notes; the manager compares it with the current one.  A form
\* that is refused is shown again as it was: no step.
Edit(f, status, offering, hasNotes) ==
  LET r == form[f].request
  IN  /\ form[f] # NoForm
      /\ status # form[f].original => hasNotes
      /\ details[r] # <<>>
      /\ \/ status # Latest(r).status /\ CreateFulfillmentDetail(r, status, offering, hasNotes)
         \/ status = Latest(r).status /\ UpdateCurrentFulfillmentDetail(r, offering)
      /\ asked' = [asked EXCEPT ![r] = [status |-> status, offering |-> offering]]
      /\ form' = [form EXCEPT ![f] = NoForm]

\* The row and, by cascade, its details are gone.
Delete(r) ==
  /\ details[r] # <<>>
  /\ details' = [details EXCEPT ![r] = <<>>]
  /\ UNCHANGED <<form, asked>>

Next ==
  \/ \E rs \in (SUBSET Requests) \ {{}} : Create(rs)
  \/ \E f \in Forms, r \in Requests : OpenForm(f, r)
  \/ \E f \in Forms : CloseForm(f)
  \/ \E f \in Forms, status \in Statuses, offering \in Offerings \cup {NoOffering},
        hasNotes \in BOOLEAN : Edit(f, status, offering, hasNotes)
  \/ \E r \in Requests : Delete(r)

Spec == Init /\ [][Next]_vars

-----------------------------------------------------------------------------
\* Every variable has its type, and a form is about a request that was made.
TypeOK ==
  /\ details \in [Requests -> Seq(Detail)]
  /\ form \in [Forms -> Form \cup {NoForm}]
  /\ asked \in [Requests -> Asked \cup {NothingAsked}]
  /\ \A r \in Requests : details[r] # <<>> => asked[r] # NothingAsked
  /\ \A f \in Forms : form[f] # NoForm => asked[form[f].request] # NothingAsked

\* The status and offering a request shows are those of the last form that
\* was accepted, even when that form was opened before others were posted.
ShownIsLastAsked ==
  \A r \in Requests : details[r] # <<>> =>
    /\ Latest(r).status = asked[r].status
    /\ Latest(r).offering = asked[r].offering

\* The history records changes: no detail repeats the status before it.
HistoryRecordsChanges ==
  \A r \in Requests : \A i \in 1 .. Len(details[r]) - 1 :
    details[r][i].status # details[r][i + 1].status

\* The controller answers "You must put in Fulfillment Notes if you changed the
\* Status" (ServiceRequestController.cs:40): each change of status has notes.
\* It compares with the status the form showed, so this needs that nobody else
\* changed the request while the form was open.
StatusChangeHasNotes ==
  \A r \in Requests : \A i \in 2 .. Len(details[r]) : details[r][i].hasNotes

\* Forms opened before another was posted escape the message, but only one way:
\* a status without notes is one the request has had before, which such a form
\* puts back unasked.
UnnotedChangeGoesBack ==
  \A r \in Requests : \A i \in 2 .. Len(details[r]) :
    details[r][i].hasNotes \/ \E j \in 1 .. i - 1 : details[r][j].status = details[r][i].status

\* As long as a request exists, a past fulfillment is never rewritten: only
\* the offering of the current one may change.
HistoryIsKept ==
  [][\A r \in Requests : details'[r] # <<>> =>
       /\ Len(details'[r]) >= Len(details[r])
       /\ \A i \in 1 .. Len(details[r]) :
            /\ i < Len(details[r]) => details'[r][i] = details[r][i]
            /\ details'[r][i].status = details[r][i].status
            /\ details'[r][i].hasNotes = details[r][i].hasNotes]_vars

=============================================================================
