-------------------------- MODULE ProfileExportProofs --------------------------
(***************************************************************************)
(* Proofs about ProfileExport, for any lists, options and number of clicks *)
(* in flight: no export without a school, and a patient user's Submit      *)
(* changes the list in the dialog alone, to what was selected.             *)
(***************************************************************************)
EXTENDS ProfileExport, TLAPS

\* Handlers are those of a dialog that is shown or fading.
Up ==
  /\ visible => isShown \/ closing
  /\ handlers # {} => isShown \/ closing

\* A patient user waits for one form, with no dialog.
Calm ==
  patient =>
    /\ Waiting => ~isShown /\ ~closing
    /\ \A j, k \in Kinds : gets[j] > 0 /\ gets[k] > 0 => j = k
    /\ \A k \in Kinds : gets[k] <= 1

\* A patient user's Submit has the handler of what the dialog holds alone.
Alone ==
  patient => \A h \in handlers : h = body \/ (h = "home" /\ body = "processing")

\* A patient user's form that was not touched shows the page's list.
Fresh ==
  patient /\ ~touched => \A k \in handlers \cap Kinds : picked = lists[k]

Inv == TypeOK /\ ExportNeedsSchools /\ Up /\ Calm /\ Alone /\ Fresh

-----------------------------------------------------------------------------
\* The dialog's flags stay flags.
LEMMA DialogTypeStep == Inv /\ [Next]_vars => DialogTypeOK'
<1> SUFFICES ASSUME Inv, [Next]_vars PROVE DialogTypeOK'
  OBVIOUS
<1> USE KindAssumption, ClickAssumption DEF Inv, TypeOK, DialogTypeOK
<1>0. UNCHANGED patient
  BY DEF Next, vars
<1>1. ASSUME NEW k \in Kinds, ClickLink(k) PROVE DialogTypeOK'
  BY <1>0, <1>1 DEF ClickLink, MayClick, PageIsFree, ShowForm, ExistingSelections, Show, formVars, pageVars, dialogVars, Waiting
<1>2. ASSUME NEW k \in Kinds, FormArrives(k) PROVE DialogTypeOK'
  BY <1>0, <1>2 DEF FormArrives, ShowForm, ExistingSelections, Show, pageVars, Waiting
<1>3. ASSUME NEW k \in Kinds, FormFails(k) PROVE DialogTypeOK'
  BY <1>0, <1>3 DEF FormFails, formVars, pageVars, dialogVars, Waiting
<1>4. CASE Select
  BY <1>0, <1>4 DEF Select, SelectAll, ClearSelections, AddOrDrop, pageVars, dialogVars, Waiting
<1>5. CASE Submit
  BY <1>0, <1>5 DEF Submit, Selected, Hide, EnableSubmitButton, formVars, dialogVars, Waiting
<1>6. CASE Close
  BY <1>0, <1>6 DEF Close, Hide, formVars, pageVars, Waiting
<1>7. CASE FadeOut
  BY <1>0, <1>7 DEF FadeOut, FadeEnds, Hidden, pageVars, Waiting
<1>8. CASE Export
  BY <1>0, <1>8 DEF Export, MayClick, PageIsFree, Show, Waiting
<1>9. CASE SessionEnds
  BY <1>0, <1>9 DEF SessionEnds, formVars, pageVars, dialogVars, Waiting
<1>10. CASE UNCHANGED vars
  BY <1>0, <1>10 DEF vars, formVars, pageVars, dialogVars, Waiting
<1> QED
  BY <1>1, <1>2, <1>3, <1>4, <1>5, <1>6, <1>7, <1>8, <1>9, <1>10 DEF Next

\* Forms stay forms.
LEMMA FormTypeStep == Inv /\ [Next]_vars => FormTypeOK'
<1> SUFFICES ASSUME Inv, [Next]_vars PROVE FormTypeOK'
  OBVIOUS
<1> USE KindAssumption, ClickAssumption DEF Inv, TypeOK, FormTypeOK, PageTypeOK, Lists
<1>0. UNCHANGED patient
  BY DEF Next, vars
<1>1. ASSUME NEW k \in Kinds, ClickLink(k) PROVE FormTypeOK'
  BY <1>0, <1>1 DEF ClickLink, MayClick, PageIsFree, ShowForm, ExistingSelections, Show, formVars, pageVars, dialogVars, Waiting
<1>2. ASSUME NEW k \in Kinds, FormArrives(k) PROVE FormTypeOK'
  BY <1>0, <1>2 DEF FormArrives, ShowForm, ExistingSelections, Show, pageVars, Waiting
<1>3. ASSUME NEW k \in Kinds, FormFails(k) PROVE FormTypeOK'
  BY <1>0, <1>3 DEF FormFails, formVars, pageVars, dialogVars, Waiting
<1>4. CASE Select
  BY <1>0, <1>4 DEF Select, SelectAll, ClearSelections, AddOrDrop, pageVars, dialogVars, Waiting
<1>5. CASE Submit
  BY <1>0, <1>5 DEF Submit, Selected, Hide, EnableSubmitButton, formVars, dialogVars, Waiting
<1>6. CASE Close
  BY <1>0, <1>6 DEF Close, Hide, formVars, pageVars, Waiting
<1>7. CASE FadeOut
  BY <1>0, <1>7 DEF FadeOut, FadeEnds, Hidden, pageVars, Waiting
<1>8. CASE Export
  BY <1>0, <1>8 DEF Export, MayClick, PageIsFree, Show, Waiting
<1>9. CASE SessionEnds
  BY <1>0, <1>9 DEF SessionEnds, formVars, pageVars, dialogVars, Waiting
<1>10. CASE UNCHANGED vars
  BY <1>0, <1>10 DEF vars, formVars, pageVars, dialogVars, Waiting
<1> QED
  BY <1>1, <1>2, <1>3, <1>4, <1>5, <1>6, <1>7, <1>8, <1>9, <1>10 DEF Next

\* Lists stay lists.
LEMMA PageTypeStep == Inv /\ [Next]_vars => PageTypeOK'
<1> SUFFICES ASSUME Inv, [Next]_vars PROVE PageTypeOK'
  OBVIOUS
<1> USE KindAssumption, ClickAssumption DEF Inv, TypeOK, FormTypeOK, PageTypeOK, Lists
<1>0. UNCHANGED patient
  BY DEF Next, vars
<1>1. ASSUME NEW k \in Kinds, ClickLink(k) PROVE PageTypeOK'
  BY <1>0, <1>1 DEF ClickLink, MayClick, PageIsFree, ShowForm, ExistingSelections, Show, formVars, pageVars, dialogVars, Waiting
<1>2. ASSUME NEW k \in Kinds, FormArrives(k) PROVE PageTypeOK'
  BY <1>0, <1>2 DEF FormArrives, ShowForm, ExistingSelections, Show, pageVars, Waiting
<1>3. ASSUME NEW k \in Kinds, FormFails(k) PROVE PageTypeOK'
  BY <1>0, <1>3 DEF FormFails, formVars, pageVars, dialogVars, Waiting
<1>4. CASE Select
  BY <1>0, <1>4 DEF Select, SelectAll, ClearSelections, AddOrDrop, pageVars, dialogVars, Waiting
<1>5. CASE Submit
  BY <1>0, <1>5 DEF Submit, Selected, Hide, EnableSubmitButton, formVars, dialogVars, Waiting
<1>6. CASE Close
  BY <1>0, <1>6 DEF Close, Hide, formVars, pageVars, Waiting
<1>7. CASE FadeOut
  BY <1>0, <1>7 DEF FadeOut, FadeEnds, Hidden, pageVars, Waiting
<1>8. CASE Export
  BY <1>0, <1>8 DEF Export, MayClick, PageIsFree, Show, Waiting
<1>9. CASE SessionEnds
  BY <1>0, <1>9 DEF SessionEnds, formVars, pageVars, dialogVars, Waiting
<1>10. CASE UNCHANGED vars
  BY <1>0, <1>10 DEF vars, formVars, pageVars, dialogVars, Waiting
<1> QED
  BY <1>1, <1>2, <1>3, <1>4, <1>5, <1>6, <1>7, <1>8, <1>9, <1>10 DEF Next

\* Flags stay flags.
LEMMA FlagTypeStep == Inv /\ [Next]_vars => FlagTypeOK'
<1> SUFFICES ASSUME Inv, [Next]_vars PROVE FlagTypeOK'
  OBVIOUS
<1> USE KindAssumption, ClickAssumption DEF Inv, TypeOK, FlagTypeOK
<1>0. UNCHANGED patient
  BY DEF Next, vars
<1>1. ASSUME NEW k \in Kinds, ClickLink(k) PROVE FlagTypeOK'
  BY <1>0, <1>1 DEF ClickLink, MayClick, PageIsFree, ShowForm, ExistingSelections, Show, formVars, pageVars, dialogVars, Waiting
<1>2. ASSUME NEW k \in Kinds, FormArrives(k) PROVE FlagTypeOK'
  BY <1>0, <1>2 DEF FormArrives, ShowForm, ExistingSelections, Show, pageVars, Waiting
<1>3. ASSUME NEW k \in Kinds, FormFails(k) PROVE FlagTypeOK'
  BY <1>0, <1>3 DEF FormFails, formVars, pageVars, dialogVars, Waiting
<1>4. CASE Select
  BY <1>0, <1>4 DEF Select, SelectAll, ClearSelections, AddOrDrop, pageVars, dialogVars, Waiting
<1>5. CASE Submit
  <2>1. over' \in BOOLEAN
    <3>1. CASE "home" \in handlers
      BY <1>5, <3>1 DEF Submit
    <3>2. CASE "home" \notin handlers
      BY <1>5, <3>2 DEF Submit
    <3> QED
      BY <3>1, <3>2
  <2>2. exportEnabled' \in BOOLEAN
    <3>1. CASE handlers \cap Kinds = {}
      BY <1>5, <3>1 DEF Submit
    <3>2. CASE handlers \cap Kinds # {}
      <4>1. exportEnabled' = (lists'["schools"] # {})
        BY <1>5, <3>2, Zenon DEF Submit, EnableSubmitButton
      <4> QED
        BY <4>1, Zenon
    <3> QED
      BY <3>1, <3>2
  <2>3. UNCHANGED <<patient, touched>>
    BY <1>0, <1>5 DEF Submit, formVars
  <2> QED
    BY <2>1, <2>2, <2>3
<1>6. CASE Close
  BY <1>0, <1>6 DEF Close, Hide, formVars, pageVars, Waiting
<1>7. CASE FadeOut
  BY <1>0, <1>7 DEF FadeOut, FadeEnds, Hidden, pageVars, Waiting
<1>8. CASE Export
  BY <1>0, <1>8 DEF Export, MayClick, PageIsFree, Show, Waiting
<1>9. CASE SessionEnds
  BY <1>0, <1>9 DEF SessionEnds, formVars, pageVars, dialogVars, Waiting
<1>10. CASE UNCHANGED vars
  BY <1>0, <1>10 DEF vars, formVars, pageVars, dialogVars, Waiting
<1> QED
  BY <1>1, <1>2, <1>3, <1>4, <1>5, <1>6, <1>7, <1>8, <1>9, <1>10 DEF Next

\* The export button follows the schools.
LEMMA SchoolsStep == Inv /\ [Next]_vars => ExportNeedsSchools'
<1> SUFFICES ASSUME Inv, [Next]_vars PROVE ExportNeedsSchools'
  OBVIOUS
<1> USE KindAssumption, ClickAssumption DEF Inv, TypeOK, PageTypeOK, FlagTypeOK, Lists, ExportNeedsSchools
<1>0. UNCHANGED patient
  BY DEF Next, vars
<1>1. ASSUME NEW k \in Kinds, ClickLink(k) PROVE ExportNeedsSchools'
  BY <1>0, <1>1 DEF ClickLink, MayClick, PageIsFree, ShowForm, ExistingSelections, Show, formVars, pageVars, dialogVars, Waiting
<1>2. ASSUME NEW k \in Kinds, FormArrives(k) PROVE ExportNeedsSchools'
  BY <1>0, <1>2 DEF FormArrives, ShowForm, ExistingSelections, Show, pageVars, Waiting
<1>3. ASSUME NEW k \in Kinds, FormFails(k) PROVE ExportNeedsSchools'
  BY <1>0, <1>3 DEF FormFails, formVars, pageVars, dialogVars, Waiting
<1>4. CASE Select
  BY <1>0, <1>4 DEF Select, SelectAll, ClearSelections, AddOrDrop, pageVars, dialogVars, Waiting
<1>5. CASE Submit
  BY <1>0, <1>5 DEF Submit, Selected, Hide, EnableSubmitButton, formVars, dialogVars, Waiting
<1>6. CASE Close
  BY <1>0, <1>6 DEF Close, Hide, formVars, pageVars, Waiting
<1>7. CASE FadeOut
  BY <1>0, <1>7 DEF FadeOut, FadeEnds, Hidden, pageVars, Waiting
<1>8. CASE Export
  BY <1>0, <1>8 DEF Export, MayClick, PageIsFree, Show, Waiting
<1>9. CASE SessionEnds
  BY <1>0, <1>9 DEF SessionEnds, formVars, pageVars, dialogVars, Waiting
<1>10. CASE UNCHANGED vars
  BY <1>0, <1>10 DEF vars, formVars, pageVars, dialogVars, Waiting
<1> QED
  BY <1>1, <1>2, <1>3, <1>4, <1>5, <1>6, <1>7, <1>8, <1>9, <1>10 DEF Next

\* Handlers go when the dialog has faded out.
LEMMA UpStep == Inv /\ [Next]_vars => Up'
<1> SUFFICES ASSUME Inv, [Next]_vars PROVE Up'
  OBVIOUS
<1> USE KindAssumption, ClickAssumption DEF Inv, TypeOK, DialogTypeOK, Up
<1>0. UNCHANGED patient
  BY DEF Next, vars
<1>1. ASSUME NEW k \in Kinds, ClickLink(k) PROVE Up'
  BY <1>0, <1>1 DEF ClickLink, MayClick, PageIsFree, ShowForm, ExistingSelections, Show, formVars, pageVars, dialogVars, Waiting
<1>2. ASSUME NEW k \in Kinds, FormArrives(k) PROVE Up'
  BY <1>0, <1>2 DEF FormArrives, ShowForm, ExistingSelections, Show, pageVars, Waiting
<1>3. ASSUME NEW k \in Kinds, FormFails(k) PROVE Up'
  BY <1>0, <1>3 DEF FormFails, formVars, pageVars, dialogVars, Waiting
<1>4. CASE Select
  BY <1>0, <1>4 DEF Select, SelectAll, ClearSelections, AddOrDrop, pageVars, dialogVars, Waiting
<1>5. CASE Submit
  BY <1>0, <1>5 DEF Submit, Selected, Hide, EnableSubmitButton, formVars, dialogVars, Waiting
<1>6. CASE Close
  BY <1>0, <1>6 DEF Close, Hide, formVars, pageVars, Waiting
<1>7. CASE FadeOut
  BY <1>0, <1>7 DEF FadeOut, FadeEnds, Hidden, pageVars, Waiting
<1>8. CASE Export
  BY <1>0, <1>8 DEF Export, MayClick, PageIsFree, Show, Waiting
<1>9. CASE SessionEnds
  BY <1>0, <1>9 DEF SessionEnds, formVars, pageVars, dialogVars, Waiting
<1>10. CASE UNCHANGED vars
  BY <1>0, <1>10 DEF vars, formVars, pageVars, dialogVars, Waiting
<1> QED
  BY <1>1, <1>2, <1>3, <1>4, <1>5, <1>6, <1>7, <1>8, <1>9, <1>10 DEF Next

\* A patient user waits for one form.
LEMMA CalmStep == Inv /\ [Next]_vars => Calm'
<1> SUFFICES ASSUME Inv, [Next]_vars PROVE Calm'
  OBVIOUS
<1> USE KindAssumption, ClickAssumption DEF Inv, TypeOK, FormTypeOK, DialogTypeOK, Up, Calm
<1>0. UNCHANGED patient
  BY DEF Next, vars
<1>1. ASSUME NEW k \in Kinds, ClickLink(k) PROVE Calm'
  BY <1>0, <1>1 DEF ClickLink, MayClick, PageIsFree, ShowForm, ExistingSelections, Show, formVars, pageVars, dialogVars, Waiting
<1>2. ASSUME NEW k \in Kinds, FormArrives(k) PROVE Calm'
  BY <1>0, <1>2 DEF FormArrives, ShowForm, ExistingSelections, Show, pageVars, Waiting
<1>3. ASSUME NEW k \in Kinds, FormFails(k) PROVE Calm'
  BY <1>0, <1>3 DEF FormFails, formVars, pageVars, dialogVars, Waiting
<1>4. CASE Select
  BY <1>0, <1>4 DEF Select, SelectAll, ClearSelections, AddOrDrop, pageVars, dialogVars, Waiting
<1>5. CASE Submit
  BY <1>0, <1>5 DEF Submit, Selected, Hide, EnableSubmitButton, formVars, dialogVars, Waiting
<1>6. CASE Close
  BY <1>0, <1>6 DEF Close, Hide, formVars, pageVars, Waiting
<1>7. CASE FadeOut
  BY <1>0, <1>7 DEF FadeOut, FadeEnds, Hidden, pageVars, Waiting
<1>8. CASE Export
  BY <1>0, <1>8 DEF Export, MayClick, PageIsFree, Show, Waiting
<1>9. CASE SessionEnds
  BY <1>0, <1>9 DEF SessionEnds, formVars, pageVars, dialogVars, Waiting
<1>10. CASE UNCHANGED vars
  BY <1>0, <1>10 DEF vars, formVars, pageVars, dialogVars, Waiting
<1> QED
  BY <1>1, <1>2, <1>3, <1>4, <1>5, <1>6, <1>7, <1>8, <1>9, <1>10 DEF Next

\* A patient user's forms do not share the button.
LEMMA AloneStep == Inv /\ [Next]_vars => Alone'
<1> SUFFICES ASSUME Inv, [Next]_vars PROVE Alone'
  OBVIOUS
<1> USE KindAssumption, ClickAssumption DEF Inv, TypeOK, FormTypeOK, Up, Calm, Alone
<1>0. UNCHANGED patient
  BY DEF Next, vars
<1>1. ASSUME NEW k \in Kinds, ClickLink(k) PROVE Alone'
  BY <1>0, <1>1 DEF ClickLink, MayClick, PageIsFree, ShowForm, ExistingSelections, Show, formVars, pageVars, dialogVars, Waiting
<1>2. ASSUME NEW k \in Kinds, FormArrives(k) PROVE Alone'
  BY <1>0, <1>2 DEF FormArrives, ShowForm, ExistingSelections, Show, pageVars, Waiting
<1>3. ASSUME NEW k \in Kinds, FormFails(k) PROVE Alone'
  BY <1>0, <1>3 DEF FormFails, formVars, pageVars, dialogVars, Waiting
<1>4. CASE Select
  BY <1>0, <1>4 DEF Select, SelectAll, ClearSelections, AddOrDrop, pageVars, dialogVars, Waiting
<1>5. CASE Submit
  BY <1>0, <1>5 DEF Submit, Selected, Hide, EnableSubmitButton, formVars, dialogVars, Waiting
<1>6. CASE Close
  BY <1>0, <1>6 DEF Close, Hide, formVars, pageVars, Waiting
<1>7. CASE FadeOut
  BY <1>0, <1>7 DEF FadeOut, FadeEnds, Hidden, pageVars, Waiting
<1>8. CASE Export
  BY <1>0, <1>8 DEF Export, MayClick, PageIsFree, Show, Waiting
<1>9. CASE SessionEnds
  BY <1>0, <1>9 DEF SessionEnds, formVars, pageVars, dialogVars, Waiting
<1>10. CASE UNCHANGED vars
  BY <1>0, <1>10 DEF vars, formVars, pageVars, dialogVars, Waiting
<1> QED
  BY <1>1, <1>2, <1>3, <1>4, <1>5, <1>6, <1>7, <1>8, <1>9, <1>10 DEF Next

\* A form that was not touched stays so.
LEMMA FreshStep == Inv /\ [Next]_vars => Fresh'
<1> SUFFICES ASSUME Inv, [Next]_vars PROVE Fresh'
  OBVIOUS
<1> USE KindAssumption, ClickAssumption DEF Inv, TypeOK, FormTypeOK, PageTypeOK, FlagTypeOK, Lists, Up, Calm, Alone, Fresh
<1>0. UNCHANGED patient
  BY DEF Next, vars
<1>1. ASSUME NEW k \in Kinds, ClickLink(k) PROVE Fresh'
  BY <1>0, <1>1 DEF ClickLink, MayClick, PageIsFree, ShowForm, ExistingSelections, Show, formVars, pageVars, dialogVars, Waiting
<1>2. ASSUME NEW k \in Kinds, FormArrives(k) PROVE Fresh'
  BY <1>0, <1>2 DEF FormArrives, ShowForm, ExistingSelections, Show, pageVars, Waiting
<1>3. ASSUME NEW k \in Kinds, FormFails(k) PROVE Fresh'
  BY <1>0, <1>3 DEF FormFails, formVars, pageVars, dialogVars, Waiting
<1>4. CASE Select
  BY <1>0, <1>4 DEF Select, SelectAll, ClearSelections, AddOrDrop, pageVars, dialogVars, Waiting
<1>5. CASE Submit
  BY <1>0, <1>5 DEF Submit, Selected, Hide, EnableSubmitButton, formVars, dialogVars, Waiting
<1>6. CASE Close
  BY <1>0, <1>6 DEF Close, Hide, formVars, pageVars, Waiting
<1>7. CASE FadeOut
  BY <1>0, <1>7 DEF FadeOut, FadeEnds, Hidden, pageVars, Waiting
<1>8. CASE Export
  BY <1>0, <1>8 DEF Export, MayClick, PageIsFree, Show, Waiting
<1>9. CASE SessionEnds
  BY <1>0, <1>9 DEF SessionEnds, formVars, pageVars, dialogVars, Waiting
<1>10. CASE UNCHANGED vars
  BY <1>0, <1>10 DEF vars, formVars, pageVars, dialogVars, Waiting
<1> QED
  BY <1>1, <1>2, <1>3, <1>4, <1>5, <1>6, <1>7, <1>8, <1>9, <1>10 DEF Next

\* The page starts with empty lists and no dialog.
LEMMA InitInv == Init => Inv
<1> SUFFICES ASSUME Init PROVE Inv
  OBVIOUS
<1> USE KindAssumption, ClickAssumption DEF Init, DialogInit
<1>1. TypeOK
  <2>1. gets \in [Kinds -> 0 .. MaxClicks]
    BY DEF FormTypeOK
  <2>2. FormTypeOK
    BY <2>1 DEF FormTypeOK
  <2>3. PageTypeOK
    BY DEF PageTypeOK, Lists
  <2>4. DialogTypeOK /\ FlagTypeOK
    BY DEF DialogTypeOK, FlagTypeOK
  <2> QED
    BY <2>2, <2>3, <2>4 DEF TypeOK
<1>2. ExportNeedsSchools
  BY DEF ExportNeedsSchools
<1>3. Up /\ Calm /\ Alone /\ Fresh
  BY DEF Up, Calm, Alone, Fresh, Waiting
<1> QED
  BY <1>1, <1>2, <1>3 DEF Inv

\* Every step keeps the inductive invariant.
LEMMA InvStep == Inv /\ [Next]_vars => Inv'
BY DialogTypeStep, FormTypeStep, PageTypeStep, FlagTypeStep, SchoolsStep, UpStep,
   CalmStep, AloneStep, FreshStep DEF Inv, TypeOK

\* The inductive invariant holds in every reachable state.
LEMMA InvHolds == Spec => []Inv
BY InitInv, InvStep, PTL DEF Spec

\* Only a Submit changes lists: those whose handlers are bound.
LEMMA ListsChange ==
  ASSUME Inv, [Next]_vars, NEW k \in Kinds, lists'[k] # lists[k]
  PROVE  k \in handlers /\ lists'[k] = Selected(k)
<1>1. CASE Submit
  BY <1>1 DEF Submit
<1>2. CASE UNCHANGED lists
  BY <1>2
<1> QED
  BY <1>1, <1>2 DEF Next, vars, pageVars, ClickLink, FormArrives, FormFails, Select, Close,
     FadeOut, Export, SessionEnds

-----------------------------------------------------------------------------
\* Type correctness of the dialog, the forms and the page's lists.
THEOREM TypeCorrect == Spec => []TypeOK
<1>1. Inv => TypeOK
  BY DEF Inv
<1> QED
  BY <1>1, InvHolds, PTL

\* However forms are opened, fetched and submitted, the export button is live
\* just when a school is listed, and no export was posted without one.
THEOREM ExportsNeedSchools == Spec => []ExportNeedsSchools
<1>1. Inv => ExportNeedsSchools
  BY DEF Inv
<1> QED
  BY <1>1, InvHolds, PTL

\* A patient user's Submit changes no list but the one in the dialog: the
\* handlers of earlier forms went when their dialog had faded out.
THEOREM SubmitChangesShownList == Spec => OnlyShownListChanges
<1>1. Inv /\ [Next]_vars =>
        [patient => \A k \in Kinds : lists'[k] # lists[k] => body = k /\ lists'[k] = picked]_vars
  <2> SUFFICES ASSUME Inv, [Next]_vars, patient, NEW k \in Kinds, lists'[k] # lists[k]
               PROVE  body = k /\ lists'[k] = picked
    OBVIOUS
  <2>1. k \in handlers /\ lists'[k] = Selected(k)
    BY ListsChange
  <2>2. body = k
    BY <2>1, KindAssumption DEF Inv, Alone
  <2> QED
    BY <2>1, <2>2 DEF Selected
<1> QED
  BY <1>1, InvHolds, PTL DEF Spec, OnlyShownListChanges

\* A patient user who submits a form untouched changes nothing, however long
\* ago its list was chosen.
THEOREM UntouchedFormIsHarmless == Spec => UntouchedFormChangesNothing
<1>1. Inv /\ [Next]_vars => [patient /\ ~touched => lists' = lists]_vars
  <2> SUFFICES ASSUME Inv, [Next]_vars, patient, ~touched
               PROVE  lists' = lists
    OBVIOUS
  <2>1. ASSUME NEW k \in Kinds
        PROVE  lists'[k] = lists[k]
    <3> SUFFICES ASSUME lists'[k] # lists[k] PROVE FALSE
      OBVIOUS
    <3>1. k \in handlers /\ lists'[k] = Selected(k)
      BY ListsChange
    <3>2. body = k /\ picked = lists[k]
      BY <3>1, KindAssumption DEF Inv, Alone, Fresh
    <3> QED
      BY <3>1, <3>2 DEF Selected
  <2>2. lists \in Lists /\ lists' \in Lists
    BY PageTypeStep DEF Inv, TypeOK, PageTypeOK
  <2> QED
    BY <2>1, <2>2 DEF Lists
<1> QED
  BY <1>1, InvHolds, PTL DEF Spec, UntouchedFormChangesNothing

================================================================================
