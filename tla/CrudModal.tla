------------------------------ MODULE CrudModal ------------------------------
(***************************************************************************)
(* Forms in the dialog.  A link fetches a form (a GET), whose answer shows *)
(* it and binds a click handler to the one Submit button; the handlers of  *)
(* earlier forms are taken off when the dialog has faded out.  Three kinds *)
(* of forms bind differently:                                              *)
(*   crud       DisplayCrudModal: a handler on the button itself           *)
(*   roles      ManageUserRoles: a handler delegated to #main-wrap         *)
(*   removeAll  RemoveAll: shown without a GET, delegated to #modal        *)
(* The last two outlive the dialog; that they post nothing while a crud    *)
(* form is submitted is owed to jQuery, which passes over the delegated    *)
(* handlers of a disabled element.                                         *)
(*                                                                         *)
(* An opening is numbered and stands for its form and its handler.  What a *)
(* user types anew after a lost answer is another form.                    *)
(***************************************************************************)
EXTENDS Naturals, FiniteSets, Dialog

CONSTANTS NoForm,          \* the body without a form's data
          MaxOpenings,     \* bound on forms opened
          MaxSubmits,      \* bound on clicks on Submit
          MaxFailures      \* bound on posts refused and requests lost

ASSUME FormAssumption == NoForm \notin Nat
ASSUME BoundAssumption == MaxOpenings \in Nat /\ MaxSubmits \in Nat /\ MaxFailures \in Nat

VARIABLES page,
          patient,         \* the user waits until what was asked for has happened
          kind,            \* kind[o]: what opening o opened, "none" if not yet
          body,            \* the form the dialog holds
          handlers,        \* openings with a handler on the button
          delegated,       \* openings with a delegated handler
          disabled,        \* the Submit button
          wired,           \* the page has a 'hidden' handler for the dialog
          gets,            \* openings whose GET is in flight
          posts,           \* posts in flight
          saved,           \* saved[o]: posts of o's form the server has saved
          submits,
          failures,
          over             \* the session ended: the login page replaced the page

formVars == <<kind, body, handlers, delegated, disabled, wired, gets, posts,
              saved, submits, failures, over>>
vars == <<dialogVars, formVars, page, patient>>

counters == <<submits, failures>>

Openings == 1 .. MaxOpenings
Kinds == [plain |-> {"crud"}, users |-> {"crud", "roles"}, approvals |-> {"crud", "removeAll"}]
Post == [by : Openings, form : Openings \cup {NoForm}, click : Nat, saved : BOOLEAN]

FormTypeOK ==
  /\ page \in DOMAIN Kinds
  /\ kind \in [Openings -> Kinds[page] \cup {"none"}]
  /\ body \in Openings \cup {NoForm}
  /\ handlers \in SUBSET Openings
  /\ delegated \in SUBSET Openings
  /\ gets \in SUBSET Openings

FlagTypeOK == {patient, disabled, wired, over} \subseteq BOOLEAN

PostTypeOK ==
  /\ posts \in SUBSET Post
  /\ saved \in [Openings -> Nat]
  /\ submits \in Nat
  /\ failures \in Nat

TypeOK == DialogTypeOK /\ FormTypeOK /\ FlagTypeOK /\ PostTypeOK

Init ==
  /\ DialogInit
  /\ page \in DOMAIN Kinds
  /\ patient \in BOOLEAN
  /\ kind = [o \in Openings |-> "none"]
  /\ body = NoForm
  /\ handlers = {}
  /\ delegated = {}
  /\ disabled = FALSE
  /\ wired = (page # "approvals")
  /\ gets = {}
  /\ posts = {}
  /\ saved = [o \in Openings |-> 0]
  /\ submits = 0
  /\ failures = 0
  /\ over = FALSE

-----------------------------------------------------------------------------
\* A patient user has nothing in flight when clicking a link of the page.
MayOpen(o, k) ==
  /\ PageIsFree
  /\ patient => gets = {} /\ posts = {}
  /\ kind[o] = "none"
  /\ \A p \in Openings : p < o => kind[p] # "none"
  /\ k \in Kinds[page]

\* A link that is handled by DisplayCrudModal or ManageUserRoles
Open(o, k) ==
  /\ MayOpen(o, k)
  /\ k # "removeAll"
  /\ kind' = [kind EXCEPT ![o] = k]
  /\ gets' = gets \cup {o}
  /\ UNCHANGED <<wired, dialogVars, body, handlers, delegated, disabled, posts, saved, counters>>

RemoveAll(o) ==
  /\ MayOpen(o, "removeAll")
  /\ kind' = [kind EXCEPT ![o] = "removeAll"]
  /\ Show
  /\ body' = o
  /\ delegated' = delegated \cup {o}
  /\ UNCHANGED <<wired, handlers, disabled, gets, posts, saved, counters>>

\* The answer to a GET, whenever it comes.
FormArrives(o) ==
  /\ gets' = gets \ {o}
  /\ Show
  /\ body' = o
  /\ IF kind[o] = "crud"
       THEN handlers' = handlers \cup {o} /\ UNCHANGED delegated
       ELSE delegated' = delegated \cup {o} /\ UNCHANGED handlers
  /\ wired' = TRUE
  /\ UNCHANGED <<kind, disabled, posts, saved, counters>>

\* $.get has no error handler.
FormFails(o) ==
  /\ failures < MaxFailures
  /\ failures' = failures + 1
  /\ gets' = gets \ {o}
  /\ UNCHANGED <<wired, dialogVars, kind, body, handlers, delegated, disabled, posts, saved, submits>>

\* Cancel, the cross, the escape key, or a click on the backdrop
Close ==
  /\ isShown
  /\ Hide
  /\ UNCHANGED <<wired, kind, body, handlers, delegated, disabled, gets, posts, saved, counters>>

\* A slip for the mutation runs: delegated handlers run whatever the others did.
AllHandlers == handlers \cup delegated

\* Who handles a click: a handler on the button disables it, and the
\* delegated handlers of a disabled button are passed over.
ClickHandlers == IF handlers # {} THEN handlers ELSE delegated

\* What a handler sends: RemoveAll's needs no form, the others serialize
\* theirs, which crud forms share and which may not be there.
Data(o) ==
  IF kind[o] = "removeAll" THEN o
  ELSE IF body # NoForm /\ kind[body] = kind[o] THEN body ELSE NoForm

\* A slip for the mutation runs: the button is not disabled.
SubmitStaysLive ==
  /\ submits < MaxSubmits
  /\ visible
  /\ ~disabled
  /\ patient => isShown
  /\ posts' = posts \cup
       {[by |-> o, form |-> Data(o), click |-> submits, saved |-> FALSE] : o \in ClickHandlers}
  /\ submits' = submits + 1
  /\ UNCHANGED <<wired, dialogVars, kind, body, handlers, delegated, disabled, gets, saved, failures>>

\* RefreshList and the other two submit handlers.  The button can be seen,
\* and is live, while a cancelled dialog fades out.
Submit ==
  /\ submits < MaxSubmits
  /\ visible
  /\ ~disabled
  /\ patient => isShown
  /\ posts' = posts \cup
       {[by |-> o, form |-> Data(o), click |-> submits, saved |-> FALSE] : o \in ClickHandlers}
  /\ disabled' = (ClickHandlers # {})
  /\ submits' = submits + 1
  /\ UNCHANGED <<wired, dialogVars, kind, body, handlers, delegated, gets, saved, failures>>

\* The server saves the form it was sent; without data it refuses.
SavePost(p) ==
  /\ ~p.saved
  /\ p.form # NoForm
  /\ saved' = [saved EXCEPT ![p.form] = @ + 1]
  /\ posts' = (posts \ {p}) \cup
       {[by |-> p.by, form |-> p.form, click |-> p.click, saved |-> TRUE]}
  /\ UNCHANGED <<wired, dialogVars, kind, body, handlers, delegated, disabled, gets, submits, failures>>

\* The success callbacks: all hide the dialog; RefreshList's and RemoveAll's
\* take the button's handlers off, the roles' takes those of #main-wrap off
\* and enables the button at once.
PostSucceeds(p) ==
  /\ p.saved
  /\ posts' = posts \ {p}
  /\ Hide
  /\ IF kind[p.by] = "roles"
       THEN delegated' = {} /\ disabled' = FALSE /\ UNCHANGED handlers
       ELSE handlers' = {} /\ UNCHANGED <<delegated, disabled>>
  /\ UNCHANGED <<wired, kind, body, gets, saved, counters>>

\* Slips for the mutation runs: the error page is shown again, in a dialog
\* that may be closing; the button is left disabled.
ErrorCallbackShows(form) ==
  /\ body' = form
  /\ disabled' = FALSE
  /\ Show

ErrorCallbackDisabled(form) ==
  /\ body' = form
  /\ UNCHANGED <<dialogVars, disabled>>

\* The error callbacks put the answer's text into the dialog.
ErrorCallback(form) ==
  /\ body' = form
  /\ disabled' = FALSE
  /\ UNCHANGED dialogVars

\* A slip for the mutation runs: a refused form is taken out again.
PostTakenBack(p) ==
  /\ ~p.saved
  /\ p.form # NoForm
  /\ posts' = posts \ {p}
  /\ saved' = [saved EXCEPT ![p.form] = @ - 1]
  /\ ErrorCallback(p.form)
  /\ UNCHANGED <<wired, kind, handlers, delegated, gets, counters>>

\* The server sends the form back with its errors.
PostRefused(p) ==
  /\ ~p.saved
  /\ p.form = NoForm \/ failures < MaxFailures
  /\ failures' = IF p.form = NoForm THEN failures ELSE failures + 1
  /\ posts' = posts \ {p}
  /\ ErrorCallback(p.form)
  /\ UNCHANGED <<wired, kind, handlers, delegated, gets, saved, submits>>

\* No answer, before or after the form was saved: there is no text.
PostLost(p) ==
  /\ failures < MaxFailures
  /\ failures' = failures + 1
  /\ posts' = posts \ {p}
  /\ ErrorCallback(NoForm)
  /\ UNCHANGED <<wired, kind, handlers, delegated, gets, saved, submits>>

\* A slip for the mutation runs: the handler outlives the dialog.
HiddenKeepsHandlers ==
  /\ disabled' = FALSE
  /\ UNCHANGED handlers

\* The 'hidden' handlers.  The approvals page has none of its own: it is
\* given one by its first crud form.
Hidden ==
  IF wired THEN disabled' = FALSE /\ handlers' = {} ELSE UNCHANGED <<disabled, handlers>>

FadeOut ==
  /\ FadeEnds
  /\ Hidden
  /\ UNCHANGED <<wired, kind, body, delegated, gets, posts, saved, counters>>

\* The login page instead of a crud form or of an answer to one
SessionEnds ==
  /\ \/ \E o \in gets : kind[o] = "crud"
     \/ \E p \in posts : kind[p.by] = "crud"
  /\ over' = TRUE
  /\ UNCHANGED <<wired, dialogVars, kind, body, handlers, delegated, disabled, gets, posts, saved, counters>>

User ==
  \/ \E o \in Openings : (\E k \in Kinds[page] : Open(o, k)) \/ RemoveAll(o)
  \/ Close
  \/ Submit

Failure ==
  \/ \E o \in gets : FormFails(o)
  \/ \E p \in posts : PostLost(p)

\* The server, the browser's callbacks and the fade.
Machine ==
  \/ \E o \in gets : FormArrives(o)
  \/ \E p \in posts : SavePost(p) \/ PostSucceeds(p) \/ PostRefused(p)
  \/ FadeOut

Step == User \/ Failure \/ Machine

Next ==
  /\ ~over
  /\ UNCHANGED <<page, patient>>
  /\ (Step /\ UNCHANGED over) \/ SessionEnds

Answers == Machine /\ UNCHANGED <<over, page, patient>> /\ ~over

\* Requests are answered and fades end; nobody makes the user act.
Spec == Init /\ [][Next]_vars /\ WF_vars(Answers)

-----------------------------------------------------------------------------
\* A dialog that has faded out leaves no crud handler behind for the next
\* form, and a live button; only the approvals page, before its first crud
\* form, may keep the button disabled.
ClosedDialogIsInert ==
  ~isShown /\ ~closing => handlers = {} /\ (disabled => ~wired)

\* A patient user's crud form is posted by its own handler, with its own
\* data or none, and by no other: the roles and removeAll handlers that
\* earlier dialogs left do not run with it.
CrudFormsPostAlone ==
  patient => \A p, q \in posts :
    /\ kind[p.by] = "crud" => p.form \in {p.by, NoForm}
    /\ kind[p.by] = "crud" /\ p.click = q.click => p = q

\* A patient user's crud form is saved once at most, whatever posts are
\* refused or lost.
SavedOnce ==
  patient => \A o \in Openings : kind[o] = "crud" => saved[o] <= 1

\* A patient user is never locked out of the page by a forgotten backdrop.
PageStaysUsable == patient => ~stuck

\* Submit is never dead for good: a post is answered or the dialog fades,
\* unless the session ends.  The approvals page is not so lucky: approvals
\* removed before its first crud form leave it with a dead button, which
\* that form then shows.
SubmitComesBack == disabled ~> (~disabled \/ over \/ page = "approvals")

=============================================================================
