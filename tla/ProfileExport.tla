---------------------------- MODULE ProfileExport ----------------------------
(***************************************************************************)
(* The page that exports student profiles.  Each of its lists (schools,    *)
(* grades, standard fields, service types, custom fields) is chosen in a   *)
(* form of its own, shown in the one dialog: all but the standard fields'  *)
(* are fetched, and every form binds its own handler to the one Submit     *)
(* button, to be taken off when the dialog has faded out.  The lists are   *)
(* kept in the page itself and posted when the user exports.               *)
(*                                                                         *)
(* One set of options stands for those of every list.  The keyword filter  *)
(* only hides options, from the eye and not from "All", and is left out.   *)
(***************************************************************************)
EXTENDS Naturals, Dialog

CONSTANTS Kinds,           \* the lists
          Options,         \* what a form offers
          NoExport,        \* nothing has been exported
          MaxClicks        \* bound on clicks on a link that is not answered yet

ASSUME KindAssumption ==
  /\ {"schools", "standard"} \subseteq Kinds
  /\ Kinds \cap {"home", "processing", "none"} = {}
ASSUME ExportAssumption == NoExport \notin [Kinds -> SUBSET Options]
ASSUME ClickAssumption == MaxClicks \in Nat \ {0}

VARIABLES patient,         \* the user waits for what was asked for
          gets,            \* gets[k]: requests for k's form in flight
          body,            \* what the dialog holds
          picked,          \* the options selected in the dialog
          touched,         \* something was selected since the form was shown
          handlers,        \* what a click on Submit runs
          lists,           \* lists[k]: what the page shows and will post
          exportEnabled,
          exported,        \* the lists that were posted
          over             \* the page was left

formVars == <<body, picked, touched, handlers>>
pageVars == <<lists, exportEnabled, exported>>
vars == <<dialogVars, formVars, pageVars, gets, over, patient>>

Lists == [Kinds -> SUBSET Options]

FormTypeOK ==
  /\ gets \in [Kinds -> 0 .. MaxClicks]
  /\ body \in Kinds \cup {"processing", "none"}
  /\ picked \in SUBSET Options
  /\ handlers \in SUBSET (Kinds \cup {"home"})

PageTypeOK ==
  /\ lists \in Lists
  /\ exported \in Lists \cup {NoExport}

FlagTypeOK == {patient, touched, exportEnabled, over} \subseteq BOOLEAN

TypeOK == DialogTypeOK /\ FormTypeOK /\ PageTypeOK /\ FlagTypeOK

Init ==
  /\ DialogInit
  /\ patient \in BOOLEAN
  /\ gets = [k \in Kinds |-> 0]
  /\ body = "none"
  /\ picked = {}
  /\ touched = FALSE
  /\ handlers = {}
  /\ lists = [k \in Kinds |-> {}]
  /\ exportEnabled = FALSE
  /\ exported = NoExport
  /\ over = FALSE

-----------------------------------------------------------------------------
Waiting == \E k \in Kinds : gets[k] > 0

\* The links and the export button are gone once something is exported.
MayClick == PageIsFree /\ exported = NoExport /\ (patient => ~Waiting)

\* A slip for the mutation runs: a form comes up with nothing selected.
ExistingNothing(k) == {}

\* What a form comes up with: the list as the page shows it.
ExistingSelections(k) == lists[k]

ShowForm(k) ==
  /\ Show
  /\ body' = k
  /\ picked' = ExistingSelections(k)
  /\ touched' = FALSE
  /\ handlers' = handlers \cup {k}

ClickLink(k) ==
  /\ MayClick
  /\ IF k = "standard"
       THEN ShowForm(k) /\ UNCHANGED gets
       ELSE /\ gets[k] < MaxClicks
            /\ gets' = [gets EXCEPT ![k] = @ + 1]
            /\ UNCHANGED <<dialogVars, formVars>>
  /\ UNCHANGED <<pageVars, over>>

\* An answer shows its form whatever the dialog holds.
FormArrives(k) ==
  /\ gets[k] > 0
  /\ gets' = [gets EXCEPT ![k] = @ - 1]
  /\ ShowForm(k)
  /\ UNCHANGED <<pageVars, over>>

\* $.get has no error handler.
FormFails(k) ==
  /\ gets[k] > 0
  /\ gets' = [gets EXCEPT ![k] = @ - 1]
  /\ UNCHANGED <<dialogVars, formVars, pageVars, over>>

\* A slip for the mutation runs: "All" takes the option without a value too.
SelectAllWithTitle == picked' = Options \cup {NoExport}

SelectAll == picked' = Options

ClearSelections == picked' = {}

\* bsmSelect: an option is added to the selection or dropped from it.
AddOrDrop(o) == picked' = picked \cup {o} \/ picked' = picked \ {o}

Select ==
  /\ isShown
  /\ body \in Kinds
  /\ SelectAll \/ ClearSelections \/ \E o \in Options : AddOrDrop(o)
  /\ touched' = TRUE
  /\ UNCHANGED <<dialogVars, body, handlers, gets, pageVars, over>>

\* A slip for the mutation runs: the button is not disabled again.
EnableSubmitButtonForGood(schools) == exportEnabled' = (exportEnabled \/ schools # {})

EnableSubmitButton(schools) == exportEnabled' = (schools # {})

\* What the handler of k's form finds selected: the options of its own form,
\* if that is the one in the dialog.
Selected(k) == IF body = k THEN picked ELSE {}

\* A click on Submit runs every handler that is bound, in a dialog that may
\* be fading out.
Submit ==
  /\ visible
  /\ handlers # {}
  /\ lists' = [k \in Kinds |-> IF k \in handlers THEN Selected(k) ELSE lists[k]]
  /\ IF handlers \cap Kinds = {}
       THEN UNCHANGED <<dialogVars, exportEnabled>>
       ELSE Hide /\ EnableSubmitButton(lists'["schools"])
  /\ over' = ("home" \in handlers)
  /\ UNCHANGED <<formVars, gets, exported>>

\* Cancel, the cross, the escape key, or a click on the backdrop
Close ==
  /\ isShown
  /\ Hide
  /\ UNCHANGED <<formVars, gets, pageVars, over>>

\* A slip for the mutation runs: the handlers outlive the dialog.
HiddenKeepsHandlers == UNCHANGED handlers

Hidden == handlers' = {}

FadeOut ==
  /\ FadeEnds
  /\ Hidden
  /\ UNCHANGED <<body, picked, touched, gets, pageVars, over>>

\* The export button shows that the file is made, and posts the lists.
Export ==
  /\ MayClick
  /\ exportEnabled
  /\ Show
  /\ body' = "processing"
  /\ handlers' = handlers \cup {"home"}
  /\ exported' = lists
  /\ UNCHANGED <<picked, touched, gets, lists, exportEnabled, over>>

\* The login page came instead of a form.
SessionEnds ==
  /\ Waiting
  /\ over' = TRUE
  /\ UNCHANGED <<dialogVars, formVars, gets, pageVars>>

Next ==
  /\ ~over
  /\ UNCHANGED patient
  /\ \/ \E k \in Kinds : ClickLink(k) \/ FormArrives(k) \/ FormFails(k)
     \/ Select
     \/ Submit
     \/ Close
     \/ FadeOut
     \/ Export
     \/ SessionEnds

Spec == Init /\ [][Next]_vars

-----------------------------------------------------------------------------
\* Whatever forms were opened and submitted, and in whatever order answers
\* came: the export button is live just when the page lists a school, and
\* no export was posted without one.
ExportNeedsSchools ==
  /\ exportEnabled <=> lists["schools"] # {}
  /\ exported # NoExport => exported["schools"] # {}

\* A patient user's Submit changes the list of the form in the dialog and no
\* other: the handlers of the forms before it are gone.
OnlyShownListChanges ==
  [][patient => \A k \in Kinds : lists'[k] # lists[k] => body = k /\ lists'[k] = picked]_vars

\* A form that was opened and submitted untouched changes nothing.
UntouchedFormChangesNothing == [][patient /\ ~touched => lists' = lists]_vars

=============================================================================
