--------------------------- MODULE CrudModalProofs ---------------------------
(***************************************************************************)
(* Proofs about CrudModal, for every number of openings, clicks on Submit  *)
(* and failures: a dialog that has faded out is inert, and a patient user  *)
(* is never locked out, posts each crud form by its own handler alone and  *)
(* has it saved once at most.                                              *)
(***************************************************************************)
EXTENDS CrudModal, TLAPS

\* An opening that has not happened is nowhere.
Used ==
  \A o \in Openings : kind[o] = "none" =>
    /\ o \notin handlers /\ o \notin delegated /\ o \notin gets
    /\ body # o /\ saved[o] = 0
    /\ \A p \in posts : p.by # o /\ p.form # o

\* A visible dialog, a crud handler and, where the page has a 'hidden'
\* handler, a disabled button belong to a dialog that is shown or fading.
Up ==
  /\ visible => isShown \/ closing
  /\ handlers # {} => wired /\ (isShown \/ closing)
  /\ disabled /\ wired => isShown \/ closing

\* A patient user's only GET finds the dialog closed and no post in flight.
Calm ==
  patient =>
    /\ ~stuck
    /\ gets # {} => posts = {} /\ ~isShown /\ ~closing
    /\ \A g, h \in gets : g = h
    /\ \A g \in gets : saved[g] = 0 /\ kind[g] # "removeAll"

\* Which handlers are bound to what.
Bound ==
  /\ \A h \in handlers : kind[h] = "crud"
  /\ \A d \in delegated : kind[d] # "crud"

\* What a post sends is of the kind of its handler.
OneKind ==
  \A p \in posts : p.form # NoForm => kind[p.form] = kind[p.by]

\* A patient user's crud handler is alone, with its own form or none, and
\* whatever is in flight was posted by it.
Alone ==
  patient => \A h \in handlers :
    /\ body \in {h, NoForm}
    /\ \A g \in handlers : g = h
    /\ \A p \in posts : p.by = h

\* A patient user's crud posts carry their own form, one to a click.
Own ==
  patient =>
    /\ \A p \in posts : p.click < submits
    /\ \A p \in posts : kind[p.by] = "crud" => p.form \in {p.by, NoForm}
    /\ \A p, q \in posts : kind[p.by] = "crud" /\ p.click = q.click => p = q

\* A patient user's crud form that has been posted cannot be posted again
\* before the post is refused.
Once ==
  patient => \A o \in Openings : kind[o] = "crud" =>
    /\ saved[o] <= 1
    /\ \A p \in posts : p.form = o => saved[o] = 0 \/ p.saved
    /\ \A p, q \in posts : p.form = o /\ q.form = o => p = q
    /\ (saved[o] > 0 \/ \E p \in posts : p.form = o) =>
         body # o \/ disabled \/ handlers = {}

Inv == TypeOK /\ Used /\ Up /\ Calm /\ Bound /\ OneKind /\ Alone /\ Own /\ Once

-----------------------------------------------------------------------------
\* The posts a click makes: one from each handler that takes it.
LEMMA Submitted ==
  ASSUME Inv, Submit
  PROVE  \E N \in SUBSET Post :
           /\ posts' = posts \cup N
           /\ \A n \in N : n.by \in ClickHandlers /\ n.form = Data(n.by)
           /\ \A n \in N : n.click = submits /\ n.saved = FALSE
           /\ \A m, n \in N : m.by = n.by => m = n
<1> DEFINE r(o) == [by |-> o, form |-> Data(o), click |-> submits, saved |-> FALSE]
           N == {r(o) : o \in ClickHandlers}
<1>1. \A o \in ClickHandlers : o \in Openings /\ Data(o) \in Openings \cup {NoForm}
  BY DEF ClickHandlers, Data, Inv, TypeOK, FormTypeOK
<1>2. submits \in Nat
  BY DEF Inv, TypeOK, PostTypeOK
<1>3. \A o \in ClickHandlers : r(o) \in Post
  BY <1>1, <1>2 DEF Post
<1>4. \A o \in ClickHandlers :
        r(o).by = o /\ r(o).form = Data(o) /\ r(o).click = submits /\ r(o).saved = FALSE
  OBVIOUS
<1>5. posts' = posts \cup N
  BY DEF Submit
<1>6. N \in SUBSET Post
  BY <1>3
<1>7. /\ \A n \in N : n.by \in ClickHandlers /\ n.form = Data(n.by)
      /\ \A n \in N : n.click = submits /\ n.saved = FALSE
      /\ \A m, n \in N : m.by = n.by => m = n
  <2>1. ASSUME NEW n \in N
        PROVE  /\ n.by \in ClickHandlers /\ n.form = Data(n.by)
               /\ n.click = submits /\ n.saved = FALSE
               /\ n = r(n.by)
    <3>1. PICK o \in ClickHandlers : n = r(o)
      OBVIOUS
    <3>2. n.by = o /\ n.form = Data(o) /\ n.click = submits /\ n.saved = FALSE
      BY <1>4, <3>1
    <3> QED
      BY <3>1, <3>2
  <2> HIDE DEF N
  <2> QED
    BY <2>1
<1> HIDE DEF N
<1> QED
  BY <1>5, <1>6, <1>7

\* No opening stands for a form without data.
LEMMA NoFormIsNone == NoForm \notin Openings
BY FormAssumption, BoundAssumption DEF Openings

\* No page has links of kind "none".
LEMMA KindsAreNone == \A p \in DOMAIN Kinds : "none" \notin Kinds[p]
BY DEF Kinds

\* The post that is saved is otherwise as it was.
LEMMA PostSaved ==
  ASSUME Inv, NEW p \in posts, SavePost(p)
  PROVE  \E n \in Post :
           /\ posts' = (posts \ {p}) \cup {n}
           /\ n.by = p.by /\ n.form = p.form /\ n.click = p.click /\ n.saved = TRUE
<1> DEFINE n == [by |-> p.by, form |-> p.form, click |-> p.click, saved |-> TRUE]
<1>1. n \in Post
  BY DEF Inv, TypeOK, PostTypeOK, Post
<1>2. posts' = (posts \ {p}) \cup {n}
  BY DEF SavePost
<1> QED
  BY <1>1, <1>2

\* The dialog's flags stay flags.
LEMMA DialogTypeStep == Inv /\ [Next]_vars => DialogTypeOK'
<1> SUFFICES ASSUME Inv, [Next]_vars PROVE DialogTypeOK'
  OBVIOUS
<1> USE NoFormIsNone, KindsAreNone DEF Inv, TypeOK, DialogTypeOK
<1>0. UNCHANGED <<page, patient>> /\ over' \in {over, TRUE}
  BY DEF Next, SessionEnds, vars, formVars
<1>1. ASSUME NEW o \in Openings, NEW k \in Kinds[page], Open(o, k) PROVE DialogTypeOK'
  BY <1>0, <1>1 DEF Open, MayOpen, PageIsFree, dialogVars, counters
<1>2. ASSUME NEW o \in Openings, RemoveAll(o) PROVE DialogTypeOK'
  BY <1>0, <1>2 DEF RemoveAll, MayOpen, PageIsFree, Show, counters
<1>3. CASE Close
  BY <1>0, <1>3 DEF Close, Hide, counters
<1>4. CASE Submit
  BY <1>0, <1>4 DEF Submit, ClickHandlers, Data, dialogVars
<1>5. ASSUME NEW o \in gets, FormFails(o) PROVE DialogTypeOK'
  BY <1>0, <1>5 DEF FormFails, dialogVars
<1>6. ASSUME NEW p \in posts, PostLost(p) PROVE DialogTypeOK'
  BY <1>0, <1>6 DEF PostLost, ErrorCallback, dialogVars
<1>7. ASSUME NEW o \in gets, FormArrives(o) PROVE DialogTypeOK'
  BY <1>0, <1>7 DEF FormArrives, Show, counters
<1>8. ASSUME NEW p \in posts, SavePost(p) PROVE DialogTypeOK'
  BY <1>0, <1>8 DEF SavePost, dialogVars, counters
<1>9. ASSUME NEW p \in posts, PostSucceeds(p) PROVE DialogTypeOK'
  BY <1>0, <1>9 DEF PostSucceeds, Hide, counters
<1>10. ASSUME NEW p \in posts, PostRefused(p) PROVE DialogTypeOK'
  BY <1>0, <1>10 DEF PostRefused, ErrorCallback, dialogVars
<1>11. CASE FadeOut
  BY <1>0, <1>11 DEF FadeOut, FadeEnds, Hidden, counters
<1>12. CASE SessionEnds
  BY <1>0, <1>12 DEF SessionEnds, dialogVars, counters
<1>13. CASE UNCHANGED vars
  BY <1>0, <1>13 DEF vars, dialogVars, formVars
<1> QED
  BY <1>1, <1>2, <1>3, <1>4, <1>5, <1>6, <1>7, <1>8, <1>9, <1>10, <1>11, <1>12, <1>13
  DEF Next, Step, User, Failure, Machine

\* Openings stay openings.
LEMMA FormTypeStep == Inv /\ [Next]_vars => FormTypeOK'
<1> SUFFICES ASSUME Inv, [Next]_vars PROVE FormTypeOK'
  OBVIOUS
<1> USE NoFormIsNone, KindsAreNone DEF Inv, TypeOK, FormTypeOK
<1>0. UNCHANGED <<page, patient>> /\ over' \in {over, TRUE}
  BY DEF Next, SessionEnds, vars, formVars
<1>1. ASSUME NEW o \in Openings, NEW k \in Kinds[page], Open(o, k) PROVE FormTypeOK'
  BY <1>0, <1>1 DEF Open, MayOpen, PageIsFree, dialogVars, counters
<1>2. ASSUME NEW o \in Openings, RemoveAll(o) PROVE FormTypeOK'
  BY <1>0, <1>2 DEF RemoveAll, MayOpen, PageIsFree, Show, counters
<1>3. CASE Close
  BY <1>0, <1>3 DEF Close, Hide, counters
<1>4. CASE Submit
  BY <1>0, <1>4 DEF Submit, ClickHandlers, Data, dialogVars
<1>5. ASSUME NEW o \in gets, FormFails(o) PROVE FormTypeOK'
  BY <1>0, <1>5 DEF FormFails, dialogVars
<1>6. ASSUME NEW p \in posts, PostLost(p) PROVE FormTypeOK'
  BY <1>0, <1>6 DEF PostLost, ErrorCallback, dialogVars, PostTypeOK, Post
<1>7. ASSUME NEW o \in gets, FormArrives(o) PROVE FormTypeOK'
  BY <1>0, <1>7 DEF FormArrives, Show, counters
<1>8. ASSUME NEW p \in posts, SavePost(p) PROVE FormTypeOK'
  BY <1>0, <1>8 DEF SavePost, dialogVars, counters
<1>9. ASSUME NEW p \in posts, PostSucceeds(p) PROVE FormTypeOK'
  BY <1>0, <1>9 DEF PostSucceeds, Hide, counters
<1>10. ASSUME NEW p \in posts, PostRefused(p) PROVE FormTypeOK'
  BY <1>0, <1>10 DEF PostRefused, ErrorCallback, dialogVars, PostTypeOK, Post
<1>11. CASE FadeOut
  BY <1>0, <1>11 DEF FadeOut, FadeEnds, Hidden, counters
<1>12. CASE SessionEnds
  BY <1>0, <1>12 DEF SessionEnds, dialogVars, counters
<1>13. CASE UNCHANGED vars
  BY <1>0, <1>13 DEF vars, dialogVars, formVars
<1> QED
  BY <1>1, <1>2, <1>3, <1>4, <1>5, <1>6, <1>7, <1>8, <1>9, <1>10, <1>11, <1>12, <1>13
  DEF Next, Step, User, Failure, Machine

\* Flags stay flags.
LEMMA FlagTypeStep == Inv /\ [Next]_vars => FlagTypeOK'
<1> SUFFICES ASSUME Inv, [Next]_vars PROVE FlagTypeOK'
  OBVIOUS
<1> USE NoFormIsNone, KindsAreNone DEF Inv, TypeOK, FlagTypeOK
<1>0. UNCHANGED <<page, patient>> /\ over' \in {over, TRUE}
  BY DEF Next, SessionEnds, vars, formVars
<1>1. ASSUME NEW o \in Openings, NEW k \in Kinds[page], Open(o, k) PROVE FlagTypeOK'
  BY <1>0, <1>1 DEF Open, MayOpen, PageIsFree, dialogVars, counters
<1>2. ASSUME NEW o \in Openings, RemoveAll(o) PROVE FlagTypeOK'
  BY <1>0, <1>2 DEF RemoveAll, MayOpen, PageIsFree, Show, counters
<1>3. CASE Close
  BY <1>0, <1>3 DEF Close, Hide, counters
<1>4. CASE Submit
  BY <1>0, <1>4 DEF Submit, ClickHandlers, Data, dialogVars
<1>5. ASSUME NEW o \in gets, FormFails(o) PROVE FlagTypeOK'
  BY <1>0, <1>5 DEF FormFails, dialogVars
<1>6. ASSUME NEW p \in posts, PostLost(p) PROVE FlagTypeOK'
  BY <1>0, <1>6 DEF PostLost, ErrorCallback, dialogVars
<1>7. ASSUME NEW o \in gets, FormArrives(o) PROVE FlagTypeOK'
  BY <1>0, <1>7 DEF FormArrives, Show, counters
<1>8. ASSUME NEW p \in posts, SavePost(p) PROVE FlagTypeOK'
  BY <1>0, <1>8 DEF SavePost, dialogVars, counters
<1>9. ASSUME NEW p \in posts, PostSucceeds(p) PROVE FlagTypeOK'
  BY <1>0, <1>9 DEF PostSucceeds, Hide, counters
<1>10. ASSUME NEW p \in posts, PostRefused(p) PROVE FlagTypeOK'
  BY <1>0, <1>10 DEF PostRefused, ErrorCallback, dialogVars
<1>11. CASE FadeOut
  BY <1>0, <1>11 DEF FadeOut, FadeEnds, Hidden, counters
<1>12. CASE SessionEnds
  BY <1>0, <1>12 DEF SessionEnds, dialogVars, counters
<1>13. CASE UNCHANGED vars
  BY <1>0, <1>13 DEF vars, dialogVars, formVars, formVars
<1> QED
  BY <1>1, <1>2, <1>3, <1>4, <1>5, <1>6, <1>7, <1>8, <1>9, <1>10, <1>11, <1>12, <1>13
  DEF Next, Step, User, Failure, Machine

\* Posts stay posts.
LEMMA PostTypeStep == Inv /\ [Next]_vars => PostTypeOK'
<1> SUFFICES ASSUME Inv, [Next]_vars PROVE PostTypeOK'
  OBVIOUS
<1> USE NoFormIsNone, KindsAreNone DEF Inv, TypeOK, FormTypeOK, PostTypeOK
<1>0. UNCHANGED <<page, patient>> /\ over' \in {over, TRUE}
  BY DEF Next, SessionEnds, vars, formVars
<1>1. ASSUME NEW o \in Openings, NEW k \in Kinds[page], Open(o, k) PROVE PostTypeOK'
  BY <1>0, <1>1 DEF Open, MayOpen, PageIsFree, dialogVars, counters
<1>2. ASSUME NEW o \in Openings, RemoveAll(o) PROVE PostTypeOK'
  BY <1>0, <1>2 DEF RemoveAll, MayOpen, PageIsFree, Show, counters
<1>3. CASE Close
  BY <1>0, <1>3 DEF Close, Hide, counters
<1>4. CASE Submit
  <2>1. PICK N \in SUBSET Post :
          /\ posts' = posts \cup N
          /\ \A n \in N : n.by \in ClickHandlers /\ n.form = Data(n.by)
          /\ \A n \in N : n.click = submits /\ n.saved = FALSE
          /\ \A m, n \in N : m.by = n.by => m = n
    BY <1>4, Submitted
  <2>2. disabled' = (ClickHandlers # {}) /\ submits' = submits + 1 /\ visible /\ ~disabled
    BY <1>4 DEF Submit
  <2>3. UNCHANGED <<page, patient, kind, body, handlers, delegated, gets, saved, failures>>
    BY <1>0, <1>4 DEF Submit
  <2> QED
    BY <2>1, <2>2, <2>3 DEF Post
<1>5. ASSUME NEW o \in gets, FormFails(o) PROVE PostTypeOK'
  BY <1>0, <1>5 DEF FormFails, dialogVars
<1>6. ASSUME NEW p \in posts, PostLost(p) PROVE PostTypeOK'
  BY <1>0, <1>6 DEF PostLost, ErrorCallback, dialogVars
<1>7. ASSUME NEW o \in gets, FormArrives(o) PROVE PostTypeOK'
  BY <1>0, <1>7 DEF FormArrives, Show, counters
<1>8. ASSUME NEW p \in posts, SavePost(p) PROVE PostTypeOK'
  <2>1. PICK n \in Post :
          /\ posts' = (posts \ {p}) \cup {n}
          /\ n.by = p.by /\ n.form = p.form /\ n.click = p.click /\ n.saved = TRUE
    BY <1>8, PostSaved
  <2>2. ~p.saved /\ p.form # NoForm /\ saved' = [saved EXCEPT ![p.form] = @ + 1]
    BY <1>8 DEF SavePost
  <2>3. UNCHANGED <<page, patient, kind, body, handlers, delegated, disabled, gets, submits, failures>>
    BY <1>0, <1>8 DEF SavePost, counters
  <2> QED
    BY <2>1, <2>2, <2>3 DEF Post
<1>9. ASSUME NEW p \in posts, PostSucceeds(p) PROVE PostTypeOK'
  BY <1>0, <1>9 DEF PostSucceeds, Hide, counters
<1>10. ASSUME NEW p \in posts, PostRefused(p) PROVE PostTypeOK'
  BY <1>0, <1>10 DEF PostRefused, ErrorCallback, dialogVars
<1>11. CASE FadeOut
  BY <1>0, <1>11 DEF FadeOut, FadeEnds, Hidden, counters
<1>12. CASE SessionEnds
  BY <1>0, <1>12 DEF SessionEnds, dialogVars, counters
<1>13. CASE UNCHANGED vars
  BY <1>0, <1>13 DEF vars, dialogVars, formVars
<1> QED
  BY <1>1, <1>2, <1>3, <1>4, <1>5, <1>6, <1>7, <1>8, <1>9, <1>10, <1>11, <1>12, <1>13
  DEF Next, Step, User, Failure, Machine

\* An opening that has not happened is still nowhere.
LEMMA UsedStep == Inv /\ [Next]_vars => Used'
<1> SUFFICES ASSUME Inv, [Next]_vars PROVE Used'
  OBVIOUS
<1> USE NoFormIsNone, KindsAreNone DEF Inv, TypeOK, FormTypeOK, PostTypeOK, Post, Used
<1>0. UNCHANGED <<page, patient>> /\ over' \in {over, TRUE}
  BY DEF Next, SessionEnds, vars, formVars
<1>1. ASSUME NEW o \in Openings, NEW k \in Kinds[page], Open(o, k) PROVE Used'
  BY <1>0, <1>1 DEF Open, MayOpen, PageIsFree, dialogVars, counters
<1>2. ASSUME NEW o \in Openings, RemoveAll(o) PROVE Used'
  BY <1>0, <1>2 DEF RemoveAll, MayOpen, PageIsFree, Show, counters
<1>3. CASE Close
  BY <1>0, <1>3 DEF Close, Hide, counters
<1>4. CASE Submit
  <2>1. PICK N \in SUBSET Post :
          /\ posts' = posts \cup N
          /\ \A n \in N : n.by \in ClickHandlers /\ n.form = Data(n.by)
          /\ \A n \in N : n.click = submits /\ n.saved = FALSE
          /\ \A m, n \in N : m.by = n.by => m = n
    BY <1>4, Submitted
  <2>2. disabled' = (ClickHandlers # {}) /\ submits' = submits + 1 /\ visible /\ ~disabled
    BY <1>4 DEF Submit
  <2>3. UNCHANGED <<page, patient, kind, body, handlers, delegated, gets, saved, failures>>
    BY <1>0, <1>4 DEF Submit
  <2> QED
    BY <2>1, <2>2, <2>3 DEF ClickHandlers, Data
<1>5. ASSUME NEW o \in gets, FormFails(o) PROVE Used'
  BY <1>0, <1>5 DEF FormFails, dialogVars
<1>6. ASSUME NEW p \in posts, PostLost(p) PROVE Used'
  BY <1>0, <1>6 DEF PostLost, ErrorCallback, dialogVars
<1>7. ASSUME NEW o \in gets, FormArrives(o) PROVE Used'
  BY <1>0, <1>7 DEF FormArrives, Show, counters
<1>8. ASSUME NEW p \in posts, SavePost(p) PROVE Used'
  <2>1. PICK n \in Post :
          /\ posts' = (posts \ {p}) \cup {n}
          /\ n.by = p.by /\ n.form = p.form /\ n.click = p.click /\ n.saved = TRUE
    BY <1>8, PostSaved
  <2>2. ~p.saved /\ p.form # NoForm /\ saved' = [saved EXCEPT ![p.form] = @ + 1]
    BY <1>8 DEF SavePost
  <2>3. UNCHANGED <<page, patient, kind, body, handlers, delegated, disabled, gets, submits, failures>>
    BY <1>0, <1>8 DEF SavePost, counters
  <2> QED
    BY <2>1, <2>2, <2>3
<1>9. ASSUME NEW p \in posts, PostSucceeds(p) PROVE Used'
  BY <1>0, <1>9 DEF PostSucceeds, Hide, counters
<1>10. ASSUME NEW p \in posts, PostRefused(p) PROVE Used'
  BY <1>0, <1>10 DEF PostRefused, ErrorCallback, dialogVars
<1>11. CASE FadeOut
  BY <1>0, <1>11 DEF FadeOut, FadeEnds, Hidden, counters
<1>12. CASE SessionEnds
  BY <1>0, <1>12 DEF SessionEnds, dialogVars, counters
<1>13. CASE UNCHANGED vars
  BY <1>0, <1>13 DEF vars, dialogVars, formVars
<1> QED
  BY <1>1, <1>2, <1>3, <1>4, <1>5, <1>6, <1>7, <1>8, <1>9, <1>10, <1>11, <1>12, <1>13
  DEF Next, Step, User, Failure, Machine

\* Handlers go when the dialog has faded out.
LEMMA UpStep == Inv /\ [Next]_vars => Up'
<1> SUFFICES ASSUME Inv, [Next]_vars PROVE Up'
  OBVIOUS
<1> USE NoFormIsNone, KindsAreNone DEF Inv, TypeOK, FormTypeOK, PostTypeOK, DialogTypeOK, FlagTypeOK, Up
<1>0. UNCHANGED <<page, patient>> /\ over' \in {over, TRUE}
  BY DEF Next, SessionEnds, vars, formVars
<1>1. ASSUME NEW o \in Openings, NEW k \in Kinds[page], Open(o, k) PROVE Up'
  BY <1>0, <1>1 DEF Open, MayOpen, PageIsFree, dialogVars, counters
<1>2. ASSUME NEW o \in Openings, RemoveAll(o) PROVE Up'
  BY <1>0, <1>2 DEF RemoveAll, MayOpen, PageIsFree, Show, counters
<1>3. CASE Close
  BY <1>0, <1>3 DEF Close, Hide, counters
<1>4. CASE Submit
  BY <1>0, <1>4 DEF Submit, ClickHandlers, Data, dialogVars
<1>5. ASSUME NEW o \in gets, FormFails(o) PROVE Up'
  BY <1>0, <1>5 DEF FormFails, dialogVars
<1>6. ASSUME NEW p \in posts, PostLost(p) PROVE Up'
  BY <1>0, <1>6 DEF PostLost, ErrorCallback, dialogVars
<1>7. ASSUME NEW o \in gets, FormArrives(o) PROVE Up'
  BY <1>0, <1>7 DEF FormArrives, Show, counters
<1>8. ASSUME NEW p \in posts, SavePost(p) PROVE Up'
  BY <1>0, <1>8 DEF SavePost, dialogVars, counters
<1>9. ASSUME NEW p \in posts, PostSucceeds(p) PROVE Up'
  BY <1>0, <1>9 DEF PostSucceeds, Hide, counters
<1>10. ASSUME NEW p \in posts, PostRefused(p) PROVE Up'
  BY <1>0, <1>10 DEF PostRefused, ErrorCallback, dialogVars
<1>11. CASE FadeOut
  BY <1>0, <1>11 DEF FadeOut, FadeEnds, Hidden, counters
<1>12. CASE SessionEnds
  BY <1>0, <1>12 DEF SessionEnds, dialogVars, counters
<1>13. CASE UNCHANGED vars
  BY <1>0, <1>13 DEF vars, dialogVars, formVars
<1> QED
  BY <1>1, <1>2, <1>3, <1>4, <1>5, <1>6, <1>7, <1>8, <1>9, <1>10, <1>11, <1>12, <1>13
  DEF Next, Step, User, Failure, Machine

\* A patient user asks for one form at a time.
LEMMA CalmStep == Inv /\ [Next]_vars => Calm'
<1> SUFFICES ASSUME Inv, [Next]_vars PROVE Calm'
  OBVIOUS
<1> USE NoFormIsNone, KindsAreNone DEF Inv, TypeOK, FormTypeOK, PostTypeOK, DialogTypeOK, FlagTypeOK, Up, Calm, Used
<1>0. UNCHANGED <<page, patient>> /\ over' \in {over, TRUE}
  BY DEF Next, SessionEnds, vars, formVars
<1>1. ASSUME NEW o \in Openings, NEW k \in Kinds[page], Open(o, k) PROVE Calm'
  BY <1>0, <1>1 DEF Open, MayOpen, PageIsFree, dialogVars, counters
<1>2. ASSUME NEW o \in Openings, RemoveAll(o) PROVE Calm'
  BY <1>0, <1>2 DEF RemoveAll, MayOpen, PageIsFree, Show, counters
<1>3. CASE Close
  BY <1>0, <1>3 DEF Close, Hide, counters
<1>4. CASE Submit
  BY <1>0, <1>4 DEF Submit, ClickHandlers, Data, dialogVars
<1>5. ASSUME NEW o \in gets, FormFails(o) PROVE Calm'
  BY <1>0, <1>5 DEF FormFails, dialogVars
<1>6. ASSUME NEW p \in posts, PostLost(p) PROVE Calm'
  BY <1>0, <1>6 DEF PostLost, ErrorCallback, dialogVars
<1>7. ASSUME NEW o \in gets, FormArrives(o) PROVE Calm'
  BY <1>0, <1>7 DEF FormArrives, Show, counters
<1>8. ASSUME NEW p \in posts, SavePost(p) PROVE Calm'
  BY <1>0, <1>8 DEF SavePost, dialogVars, counters
<1>9. ASSUME NEW p \in posts, PostSucceeds(p) PROVE Calm'
  BY <1>0, <1>9 DEF PostSucceeds, Hide, counters
<1>10. ASSUME NEW p \in posts, PostRefused(p) PROVE Calm'
  BY <1>0, <1>10 DEF PostRefused, ErrorCallback, dialogVars
<1>11. CASE FadeOut
  BY <1>0, <1>11 DEF FadeOut, FadeEnds, Hidden, counters
<1>12. CASE SessionEnds
  BY <1>0, <1>12 DEF SessionEnds, dialogVars, counters
<1>13. CASE UNCHANGED vars
  BY <1>0, <1>13 DEF vars, dialogVars, formVars
<1> QED
  BY <1>1, <1>2, <1>3, <1>4, <1>5, <1>6, <1>7, <1>8, <1>9, <1>10, <1>11, <1>12, <1>13
  DEF Next, Step, User, Failure, Machine

\* Handlers are bound as their form's kind says.
LEMMA BoundStep == Inv /\ [Next]_vars => Bound'
<1> SUFFICES ASSUME Inv, [Next]_vars PROVE Bound'
  OBVIOUS
<1> USE NoFormIsNone, KindsAreNone DEF Inv, TypeOK, FormTypeOK, PostTypeOK, Post, Used, Bound
<1>0. UNCHANGED <<page, patient>> /\ over' \in {over, TRUE}
  BY DEF Next, SessionEnds, vars, formVars
<1>1. ASSUME NEW o \in Openings, NEW k \in Kinds[page], Open(o, k) PROVE Bound'
  BY <1>0, <1>1 DEF Open, MayOpen, PageIsFree, dialogVars, counters
<1>2. ASSUME NEW o \in Openings, RemoveAll(o) PROVE Bound'
  BY <1>0, <1>2 DEF RemoveAll, MayOpen, PageIsFree, Show, counters
<1>3. CASE Close
  BY <1>0, <1>3 DEF Close, Hide, counters
<1>4. CASE Submit
  BY <1>0, <1>4 DEF Submit, ClickHandlers, Data, dialogVars
<1>5. ASSUME NEW o \in gets, FormFails(o) PROVE Bound'
  BY <1>0, <1>5 DEF FormFails, dialogVars
<1>6. ASSUME NEW p \in posts, PostLost(p) PROVE Bound'
  BY <1>0, <1>6 DEF PostLost, ErrorCallback, dialogVars
<1>7. ASSUME NEW o \in gets, FormArrives(o) PROVE Bound'
  BY <1>0, <1>7 DEF FormArrives, Show, counters
<1>8. ASSUME NEW p \in posts, SavePost(p) PROVE Bound'
  BY <1>0, <1>8 DEF SavePost, dialogVars, counters
<1>9. ASSUME NEW p \in posts, PostSucceeds(p) PROVE Bound'
  BY <1>0, <1>9 DEF PostSucceeds, Hide, counters
<1>10. ASSUME NEW p \in posts, PostRefused(p) PROVE Bound'
  BY <1>0, <1>10 DEF PostRefused, ErrorCallback, dialogVars
<1>11. CASE FadeOut
  BY <1>0, <1>11 DEF FadeOut, FadeEnds, Hidden, counters
<1>12. CASE SessionEnds
  BY <1>0, <1>12 DEF SessionEnds, dialogVars, counters
<1>13. CASE UNCHANGED vars
  BY <1>0, <1>13 DEF vars, dialogVars, formVars
<1> QED
  BY <1>1, <1>2, <1>3, <1>4, <1>5, <1>6, <1>7, <1>8, <1>9, <1>10, <1>11, <1>12, <1>13
  DEF Next, Step, User, Failure, Machine

\* Posts stay of one kind.
LEMMA DataStep == Inv /\ [Next]_vars => OneKind'
<1> SUFFICES ASSUME Inv, [Next]_vars PROVE OneKind'
  OBVIOUS
<1> USE NoFormIsNone, KindsAreNone DEF Inv, TypeOK, FormTypeOK, PostTypeOK, Post, Used, OneKind
<1>0. UNCHANGED <<page, patient>> /\ over' \in {over, TRUE}
  BY DEF Next, SessionEnds, vars, formVars
<1>1. ASSUME NEW o \in Openings, NEW k \in Kinds[page], Open(o, k) PROVE OneKind'
  BY <1>0, <1>1 DEF Open, MayOpen, PageIsFree, dialogVars, counters
<1>2. ASSUME NEW o \in Openings, RemoveAll(o) PROVE OneKind'
  BY <1>0, <1>2 DEF RemoveAll, MayOpen, PageIsFree, Show, counters
<1>3. CASE Close
  BY <1>0, <1>3 DEF Close, Hide, counters
<1>4. CASE Submit
  BY <1>0, <1>4 DEF Submit, ClickHandlers, Data, dialogVars, Post
<1>5. ASSUME NEW o \in gets, FormFails(o) PROVE OneKind'
  BY <1>0, <1>5 DEF FormFails, dialogVars
<1>6. ASSUME NEW p \in posts, PostLost(p) PROVE OneKind'
  BY <1>0, <1>6 DEF PostLost, ErrorCallback, dialogVars
<1>7. ASSUME NEW o \in gets, FormArrives(o) PROVE OneKind'
  BY <1>0, <1>7 DEF FormArrives, Show, counters
<1>8. ASSUME NEW p \in posts, SavePost(p) PROVE OneKind'
  BY <1>0, <1>8 DEF SavePost, dialogVars, counters, Post
<1>9. ASSUME NEW p \in posts, PostSucceeds(p) PROVE OneKind'
  BY <1>0, <1>9 DEF PostSucceeds, Hide, counters
<1>10. ASSUME NEW p \in posts, PostRefused(p) PROVE OneKind'
  BY <1>0, <1>10 DEF PostRefused, ErrorCallback, dialogVars
<1>11. CASE FadeOut
  BY <1>0, <1>11 DEF FadeOut, FadeEnds, Hidden, counters
<1>12. CASE SessionEnds
  BY <1>0, <1>12 DEF SessionEnds, dialogVars, counters
<1>13. CASE UNCHANGED vars
  BY <1>0, <1>13 DEF vars, dialogVars, formVars
<1> QED
  BY <1>1, <1>2, <1>3, <1>4, <1>5, <1>6, <1>7, <1>8, <1>9, <1>10, <1>11, <1>12, <1>13
  DEF Next, Step, User, Failure, Machine

\* A patient user's crud handler stays alone.
LEMMA AloneStep == Inv /\ [Next]_vars => Alone'
<1> SUFFICES ASSUME Inv, [Next]_vars PROVE Alone'
  OBVIOUS
<1> USE NoFormIsNone, KindsAreNone DEF Inv, TypeOK, FormTypeOK, PostTypeOK, Post, Used, Up, Calm, Alone, Bound, Own
<1>0. UNCHANGED <<page, patient>> /\ over' \in {over, TRUE}
  BY DEF Next, SessionEnds, vars, formVars
<1>1. ASSUME NEW o \in Openings, NEW k \in Kinds[page], Open(o, k) PROVE Alone'
  BY <1>0, <1>1 DEF Open, MayOpen, PageIsFree, dialogVars, counters
<1>2. ASSUME NEW o \in Openings, RemoveAll(o) PROVE Alone'
  BY <1>0, <1>2 DEF RemoveAll, MayOpen, PageIsFree, Show, counters
<1>3. CASE Close
  BY <1>0, <1>3 DEF Close, Hide, counters
<1>4. CASE Submit
  BY <1>0, <1>4 DEF Submit, ClickHandlers, Data, dialogVars
<1>5. ASSUME NEW o \in gets, FormFails(o) PROVE Alone'
  BY <1>0, <1>5 DEF FormFails, dialogVars
<1>6. ASSUME NEW p \in posts, PostLost(p) PROVE Alone'
  BY <1>0, <1>6 DEF PostLost, ErrorCallback, dialogVars
<1>7. ASSUME NEW o \in gets, FormArrives(o) PROVE Alone'
  BY <1>0, <1>7 DEF FormArrives, Show, counters
<1>8. ASSUME NEW p \in posts, SavePost(p) PROVE Alone'
  BY <1>0, <1>8 DEF SavePost, dialogVars, counters
<1>9. ASSUME NEW p \in posts, PostSucceeds(p) PROVE Alone'
  BY <1>0, <1>9 DEF PostSucceeds, Hide, counters
<1>10. ASSUME NEW p \in posts, PostRefused(p) PROVE Alone'
  BY <1>0, <1>10 DEF PostRefused, ErrorCallback, dialogVars
<1>11. CASE FadeOut
  BY <1>0, <1>11 DEF FadeOut, FadeEnds, Hidden, counters
<1>12. CASE SessionEnds
  BY <1>0, <1>12 DEF SessionEnds, dialogVars, counters
<1>13. CASE UNCHANGED vars
  BY <1>0, <1>13 DEF vars, dialogVars, formVars
<1> QED
  BY <1>1, <1>2, <1>3, <1>4, <1>5, <1>6, <1>7, <1>8, <1>9, <1>10, <1>11, <1>12, <1>13
  DEF Next, Step, User, Failure, Machine

\* A patient user's crud posts stay apart.
LEMMA OwnStep == Inv /\ [Next]_vars => Own'
<1> SUFFICES ASSUME Inv, [Next]_vars PROVE Own'
  OBVIOUS
<1> USE NoFormIsNone, KindsAreNone DEF Inv, TypeOK, FormTypeOK, PostTypeOK, Post, Used, Bound, Alone, Own
<1>0. UNCHANGED <<page, patient>> /\ over' \in {over, TRUE}
  BY DEF Next, SessionEnds, vars, formVars
<1>1. ASSUME NEW o \in Openings, NEW k \in Kinds[page], Open(o, k) PROVE Own'
  BY <1>0, <1>1 DEF Open, MayOpen, PageIsFree, dialogVars, counters
<1>2. ASSUME NEW o \in Openings, RemoveAll(o) PROVE Own'
  BY <1>0, <1>2 DEF RemoveAll, MayOpen, PageIsFree, Show, counters
<1>3. CASE Close
  BY <1>0, <1>3 DEF Close, Hide, counters
<1>4. CASE Submit
  <2>1. PICK N \in SUBSET Post :
          /\ posts' = posts \cup N
          /\ \A n \in N : n.by \in ClickHandlers /\ n.form = Data(n.by)
          /\ \A n \in N : n.click = submits /\ n.saved = FALSE
          /\ \A m, n \in N : m.by = n.by => m = n
    BY <1>4, Submitted
  <2>2. disabled' = (ClickHandlers # {}) /\ submits' = submits + 1 /\ visible /\ ~disabled
    BY <1>4 DEF Submit
  <2>3. UNCHANGED <<page, patient, kind, body, handlers, delegated, gets, saved, failures>>
    BY <1>0, <1>4 DEF Submit
  <2> QED
    BY <2>1, <2>2, <2>3 DEF ClickHandlers, Data
<1>5. ASSUME NEW o \in gets, FormFails(o) PROVE Own'
  BY <1>0, <1>5 DEF FormFails, dialogVars
<1>6. ASSUME NEW p \in posts, PostLost(p) PROVE Own'
  BY <1>0, <1>6 DEF PostLost, ErrorCallback, dialogVars
<1>7. ASSUME NEW o \in gets, FormArrives(o) PROVE Own'
  BY <1>0, <1>7 DEF FormArrives, Show, counters
<1>8. ASSUME NEW p \in posts, SavePost(p) PROVE Own'
  <2>1. PICK n \in Post :
          /\ posts' = (posts \ {p}) \cup {n}
          /\ n.by = p.by /\ n.form = p.form /\ n.click = p.click /\ n.saved = TRUE
    BY <1>8, PostSaved
  <2>2. ~p.saved /\ p.form # NoForm /\ saved' = [saved EXCEPT ![p.form] = @ + 1]
    BY <1>8 DEF SavePost
  <2>3. UNCHANGED <<page, patient, kind, body, handlers, delegated, disabled, gets, submits, failures>>
    BY <1>0, <1>8 DEF SavePost, counters
  <2> QED
    BY <2>1, <2>2, <2>3
<1>9. ASSUME NEW p \in posts, PostSucceeds(p) PROVE Own'
  BY <1>0, <1>9 DEF PostSucceeds, Hide, counters
<1>10. ASSUME NEW p \in posts, PostRefused(p) PROVE Own'
  BY <1>0, <1>10 DEF PostRefused, ErrorCallback, dialogVars
<1>11. CASE FadeOut
  BY <1>0, <1>11 DEF FadeOut, FadeEnds, Hidden, counters
<1>12. CASE SessionEnds
  BY <1>0, <1>12 DEF SessionEnds, dialogVars, counters
<1>13. CASE UNCHANGED vars
  BY <1>0, <1>13 DEF vars, dialogVars, formVars
<1> QED
  BY <1>1, <1>2, <1>3, <1>4, <1>5, <1>6, <1>7, <1>8, <1>9, <1>10, <1>11, <1>12, <1>13
  DEF Next, Step, User, Failure, Machine

\* A patient user's crud form is not posted again.
LEMMA OnceStep == Inv /\ [Next]_vars => Once'
<1> SUFFICES ASSUME Inv, [Next]_vars PROVE Once'
  OBVIOUS
<1> USE NoFormIsNone, KindsAreNone DEF Inv, TypeOK, FormTypeOK, PostTypeOK, Post, Used, Up, Calm, Bound, OneKind, Alone, Own, Once
<1>0. UNCHANGED <<page, patient>> /\ over' \in {over, TRUE}
  BY DEF Next, SessionEnds, vars, formVars
<1>1. ASSUME NEW o \in Openings, NEW k \in Kinds[page], Open(o, k) PROVE Once'
  BY <1>0, <1>1 DEF Open, MayOpen, PageIsFree, dialogVars, counters
<1>2. ASSUME NEW o \in Openings, RemoveAll(o) PROVE Once'
  BY <1>0, <1>2 DEF RemoveAll, MayOpen, PageIsFree, Show, counters
<1>3. CASE Close
  BY <1>0, <1>3 DEF Close, Hide, counters
<1>4. CASE Submit
  <2>1. PICK N \in SUBSET Post :
          /\ posts' = posts \cup N
          /\ \A n \in N : n.by \in ClickHandlers /\ n.form = Data(n.by)
          /\ \A n \in N : n.click = submits /\ n.saved = FALSE
          /\ \A m, n \in N : m.by = n.by => m = n
    BY <1>4, Submitted
  <2>2. disabled' = (ClickHandlers # {}) /\ submits' = submits + 1 /\ visible /\ ~disabled
    BY <1>4 DEF Submit
  <2>3. UNCHANGED <<page, patient, kind, body, handlers, delegated, gets, saved, failures>>
    BY <1>0, <1>4 DEF Submit
  <2>4. ASSUME patient, NEW o \in Openings, kind[o] = "crud", NEW n \in N, n.form = o
        PROVE  n.by = o /\ handlers = {o} /\ body = o
    <3>1. n.by \in ClickHandlers /\ n.by \in Openings /\ o # NoForm
      BY <2>1, <2>4
    <3>2. kind[n.by] = "crud" /\ body = o
      BY <2>1, <2>4, <3>1 DEF Data
    <3>3. n.by \in handlers
      BY <3>1, <3>2 DEF ClickHandlers
    <3> QED
      BY <2>4, <3>1, <3>2, <3>3
  <2>5. ASSUME patient, NEW o \in Openings, kind[o] = "crud", NEW n \in N, n.form = o
        PROVE  /\ saved[o] = 0 /\ \A q \in posts : q.form # o
               /\ \A q \in N : q.form = o => q = n
               /\ disabled'
    <3>1. n.by = o /\ handlers = {o} /\ body = o
      BY <2>4, <2>5
    <3>2. \A q \in N : q.form = o => q = n
      BY <2>1, <2>4, <2>5, <3>1
    <3>3. disabled'
      BY <2>2, <3>1 DEF ClickHandlers
    <3>4. saved[o] = 0 /\ \A q \in posts : q.form # o
      BY <2>2, <2>5, <3>1
    <3> QED
      BY <3>2, <3>3, <3>4
  <2> QED
    BY <2>1, <2>2, <2>3, <2>5
<1>5. ASSUME NEW o \in gets, FormFails(o) PROVE Once'
  BY <1>0, <1>5 DEF FormFails, dialogVars
<1>6. ASSUME NEW p \in posts, PostLost(p) PROVE Once'
  BY <1>0, <1>6 DEF PostLost, ErrorCallback, dialogVars
<1>7. ASSUME NEW o \in gets, FormArrives(o) PROVE Once'
  BY <1>0, <1>7 DEF FormArrives, Show, counters
<1>8. ASSUME NEW p \in posts, SavePost(p) PROVE Once'
  <2>1. PICK n \in Post :
          /\ posts' = (posts \ {p}) \cup {n}
          /\ n.by = p.by /\ n.form = p.form /\ n.click = p.click /\ n.saved = TRUE
    BY <1>8, PostSaved
  <2>2. ~p.saved /\ p.form # NoForm /\ saved' = [saved EXCEPT ![p.form] = @ + 1]
    BY <1>8 DEF SavePost
  <2>3. UNCHANGED <<page, patient, kind, body, handlers, delegated, disabled, gets, submits, failures>>
    BY <1>0, <1>8 DEF SavePost, counters
  <2>4. CASE patient /\ kind[p.form] = "crud"
    <3>1. \A q \in posts : q.form = p.form => q = p
      BY <2>4, <2>2
    <3>2. saved[p.form] = 0 /\ p.form \in Openings
      BY <2>4, <2>2
    <3>3. saved'[p.form] = 1 /\ \A o \in Openings : o # p.form => saved'[o] = saved[o]
      BY <2>2, <3>2
    <3>4. \A q \in posts' : q.form = p.form => q = n
      BY <2>1, <3>1
    <3>5. ASSUME NEW o \in Openings, kind[o] = "crud", o # p.form
          PROVE  /\ saved'[o] <= 1
                 /\ \A q \in posts' : q.form = o => q \in posts
                 /\ (\E q \in posts' : q.form = o) => \E q \in posts : q.form = o
      BY <2>1, <2>4, <3>3, <3>5
    <3>6. ASSUME NEW o \in Openings, kind[o] = "crud", o # p.form
          PROVE  /\ \A q \in posts' : q.form = o => saved'[o] = 0 \/ q.saved
                 /\ \A q, r \in posts' : q.form = o /\ r.form = o => q = r
                 /\ (saved'[o] > 0 \/ \E q \in posts' : q.form = o) =>
                      body # o \/ disabled \/ handlers = {}
      BY <2>4, <3>3, <3>5, <3>6
    <3>7. body # p.form \/ disabled \/ handlers = {}
      BY <2>4, <2>2
    <3> QED
      BY <2>1, <2>3, <2>4, <3>2, <3>3, <3>4, <3>5, <3>6, <3>7
  <2>5. CASE patient /\ kind[p.form] # "crud"
    <3>1. p.form \in Openings
      BY <2>2
    <3>2. ASSUME NEW o \in Openings, kind[o] = "crud"
          PROVE  /\ o # p.form /\ saved'[o] = saved[o]
                 /\ \A q \in posts' : q.form = o => q \in posts
                 /\ (\E q \in posts' : q.form = o) => \E q \in posts : q.form = o
      BY <2>1, <2>2, <2>5, <3>1, <3>2
    <3> QED
      BY <2>3, <2>5, <3>2
  <2> QED
    BY <2>3, <2>4, <2>5
<1>9. ASSUME NEW p \in posts, PostSucceeds(p) PROVE Once'
  BY <1>0, <1>9 DEF PostSucceeds, Hide, counters
<1>10. ASSUME NEW p \in posts, PostRefused(p) PROVE Once'
  BY <1>0, <1>10 DEF PostRefused, ErrorCallback, dialogVars
<1>11. CASE FadeOut
  BY <1>0, <1>11 DEF FadeOut, FadeEnds, Hidden, counters
<1>12. CASE SessionEnds
  BY <1>0, <1>12 DEF SessionEnds, dialogVars, counters
<1>13. CASE UNCHANGED vars
  BY <1>0, <1>13 DEF vars, dialogVars, formVars
<1> QED
  BY <1>1, <1>2, <1>3, <1>4, <1>5, <1>6, <1>7, <1>8, <1>9, <1>10, <1>11, <1>12, <1>13
  DEF Next, Step, User, Failure, Machine

\* The page starts with no dialog, no form and nothing in flight.
LEMMA InitInv == Init => Inv
<1> SUFFICES ASSUME Init PROVE Inv
  OBVIOUS
<1> USE DEF Init, DialogInit
<1>1. TypeOK
  BY DEF TypeOK, DialogTypeOK, FormTypeOK, FlagTypeOK, PostTypeOK
<1>2. Used
  BY NoFormIsNone DEF Used
<1>3. Up /\ Calm /\ Bound
  BY DEF Up, Calm, Bound
<1>4. OneKind /\ Alone /\ Own /\ Once
  BY DEF OneKind, Alone, Own, Once
<1> QED
  BY <1>1, <1>2, <1>3, <1>4 DEF Inv

\* Every step keeps the inductive invariant.
LEMMA InvStep == Inv /\ [Next]_vars => Inv'
BY DialogTypeStep, FormTypeStep, FlagTypeStep, PostTypeStep, UsedStep, UpStep, CalmStep, BoundStep, DataStep, AloneStep, OwnStep, OnceStep DEF Inv, TypeOK

\* The inductive invariant holds in every reachable state.
LEMMA InvHolds == Spec => []Inv
<1> QED
  BY InitInv, InvStep, PTL DEF Spec

-----------------------------------------------------------------------------
\* Type correctness of the dialog, the forms and the posts in flight.
THEOREM TypeCorrect == Spec => []TypeOK
<1>1. Inv => TypeOK
  BY DEF Inv
<1> QED
  BY <1>1, InvHolds, PTL

\* However openings, posts and fades interleave, a dialog that has faded out
\* leaves no crud handler for the next form (RefreshList's and the 'hidden'
\* handlers take them off), and a dead button only to the approvals page.
THEOREM FadedDialogIsInert == Spec => []ClosedDialogIsInert
<1>1. Inv => ClosedDialogIsInert
  BY DEF Inv, Up, ClosedDialogIsInert
<1> QED
  BY <1>1, InvHolds, PTL

\* A patient user's crud form is posted by its own handler and by no other,
\* however many roles and removeAll handlers earlier dialogs have left.
THEOREM CrudFormsAreTheirOwn == Spec => []CrudFormsPostAlone
<1>1. Inv => CrudFormsPostAlone
  BY DEF Inv, Own, OneKind, CrudFormsPostAlone
<1> QED
  BY <1>1, InvHolds, PTL

\* A patient user's crud form is saved once at most, however many clicks,
\* refusals and lost answers there are.
THEOREM CrudFormsAreSavedOnce == Spec => []SavedOnce
<1>1. Inv => SavedOnce
  BY DEF Inv, Once, SavedOnce
<1> QED
  BY <1>1, InvHolds, PTL

\* No order of a patient user's clicks, answers and fades leaves a backdrop
\* over the page.
THEOREM PatientUserIsNotLockedOut == Spec => []PageStaysUsable
<1>1. Inv => PageStaysUsable
  BY DEF Inv, Calm, PageStaysUsable
<1> QED
  BY <1>1, InvHolds, PTL

=============================================================================
