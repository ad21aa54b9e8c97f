-------------------------- MODULE ToggleTableProofs --------------------------
(***************************************************************************)
(* Proofs about ToggleTable, for every set of rows and criteria and every  *)
(* bound: first about the actions of ServerTable, then about the posts.    *)
(***************************************************************************)
EXTENDS ToggleTable, TLAPS

\* No draw is ahead of iDraw, and no two have the same echo.
Echoes ==
  /\ \A d \in draws : d.echo <= iDraw
  /\ \A d, e \in draws : d.echo = e.echo => d = e

TableInv == TableTypeOK /\ Echoes

-----------------------------------------------------------------------------
\* A new table has one draw in flight, with the latest echo.
LEMMA InitTable == TableInit => TableInv
<1> SUFFICES ASSUME TableInit PROVE TableInv
  OBVIOUS
<1>1. NewDraw(1, criteria) \in Draw
  BY DEF TableInit, NewDraw, Draw
<1>2. TableTypeOK
  BY <1>1 DEF TableInit, TableTypeOK
<1>3. Echoes
  BY DEF TableInit, Echoes, NewDraw
<1> QED
  BY <1>2, <1>3 DEF TableInv

\* A new draw is well formed and its echo is new.
LEMMA SendsDraw ==
  ASSUME TableInv, NEW c \in Criteria, SendDraw(c)
  PROVE  iDraw' \in Nat /\ draws' \in SUBSET Draw /\ missed' \in BOOLEAN /\ Echoes'
<1> DEFINE n == NewDraw(iDraw + 1, c)
<1>1. n \in Draw /\ n.echo = iDraw + 1
  BY DEF NewDraw, Draw, TableInv, TableTypeOK
<1>2. draws' = draws \cup {n} /\ iDraw' = iDraw + 1 /\ missed' = FALSE
  BY DEF SendDraw
<1> HIDE DEF n
<1>3. iDraw \in Nat /\ draws \in SUBSET Draw
  BY DEF TableInv, TableTypeOK
<1>4. \A d \in draws : d.echo \in Nat /\ d.echo <= iDraw
  BY <1>3 DEF Draw, TableInv, Echoes
<1>5. Echoes'
  BY <1>1, <1>2, <1>3, <1>4 DEF Echoes, TableInv
<1>6. iDraw' \in Nat /\ draws' \in SUBSET Draw
  BY <1>1, <1>2, <1>3
<1>7. missed' \in BOOLEAN
  BY <1>2
<1> QED
  BY <1>5, <1>6, <1>7

\* The filter's actions keep the table's invariant.
LEMMA FiltersKeepTable ==
  ASSUME TableInv, NEW c \in Criteria, ChangeCriteria(c) \/ Redraw(c) \/ PickUnbound(c)
  PROVE  TableInv'
<1>1. CASE ChangeCriteria(c)
  BY <1>1 DEF ChangeCriteria, Refresh, TableInv, TableTypeOK, Echoes
<1>2. CASE Redraw(c)
  BY <1>2, SendsDraw DEF Redraw, TableInv, TableTypeOK
<1>3. CASE PickUnbound(c)
  BY <1>3 DEF PickUnbound, TableInv, TableTypeOK, Echoes
<1> QED
  BY <1>1, <1>2, <1>3

\* So does the timer.
LEMMA TimerKeepsTable == ASSUME TableInv, TimerFires PROVE TableInv'
<1>1. criteria \in Criteria
  BY DEF TableInv, TableTypeOK
<1> QED
  BY <1>1, SendsDraw DEF TimerFires, TableInv, TableTypeOK

\* So does the server's answer, which keeps the echo.
LEMMA AnswerKeepsTable ==
  ASSUME TableInv, NEW d \in draws, NEW answer \in Answers, ServerAnswers(d, answer)
  PROVE  TableInv'
<1> DEFINE n == [echo |-> d.echo, criteria |-> d.criteria, answer |-> answer]
<1>1. d \in Draw
  BY DEF TableInv, TableTypeOK
<1>2. n \in Draw /\ n.echo = d.echo
  BY <1>1 DEF Draw
<1>3. draws' = (draws \ {d}) \cup {n}
  BY DEF ServerAnswers
<1> HIDE DEF n
<1>4. TableTypeOK'
  BY <1>2, <1>3 DEF ServerAnswers, TableInv, TableTypeOK
<1>5. Echoes'
  BY <1>2, <1>3 DEF ServerAnswers, TableInv, Echoes
<1> QED
  BY <1>4, <1>5 DEF TableInv

\* An answer that is shown has the latest echo, and stays the latest.
LEMMA ShowsLatest == ASSUME TableInv, NEW d \in draws, ShowsDraw(d) PROVE d.echo = iDraw
<1>1. d.echo \in Nat /\ d.echo <= iDraw /\ iDraw \in Nat
  BY DEF TableInv, TableTypeOK, Draw, Echoes
<1> QED
  BY <1>1 DEF ShowsDraw, IsLatest

\* The deliveries keep the table's invariant, and so do failures.
LEMMA DeliveryKeepsTable ==
  ASSUME TableInv, NEW d \in draws, ShowsDraw(d) \/ DropsDraw(d) \/ DrawFails(d)
  PROVE  TableInv'
<1>1. d \in Draw
  BY DEF TableInv, TableTypeOK
<1>2. CASE ShowsDraw(d)
  <2>1. d.echo = iDraw /\ iDraw' = iDraw
    BY <1>2, ShowsLatest DEF ShowsDraw
  <2>2. shown' \in Shown
    BY <1>1, <1>2 DEF ShowsDraw, Shown, Draw
  <2> QED
    BY <1>2, <2>1, <2>2 DEF ShowsDraw, TableInv, TableTypeOK, Echoes
<1>3. CASE DropsDraw(d)
  BY <1>3 DEF DropsDraw, TableInv, TableTypeOK, Echoes
<1>4. CASE DrawFails(d)
  BY <1>4 DEF DrawFails, TableInv, TableTypeOK, Echoes
<1> QED
  BY <1>2, <1>3, <1>4

\* A step that leaves the table's variables alone keeps its invariant.
LEMMA TableStutters == ASSUME TableInv, UNCHANGED tableVars PROVE TableInv'
BY DEF TableInv, tableVars, TableTypeOK, Echoes

-----------------------------------------------------------------------------
\* The answer of a draw that makes the table current.
Fresh(d) == d.criteria = criteria /\ d.answer \in {Unanswered, stored}

\* Unless a post, the timer or a missed draw is outstanding, the latest draw
\* will show what is stored if it is in flight, and has shown it if not.
LatestIsFresh ==
  posts = {} /\ ~delay /\ ~missed =>
    /\ \A d \in draws : d.echo = iDraw => Fresh(d)
    /\ (\A d \in draws : d.echo # iDraw) => Current

\* Likewise for the panel, whose requests are one at a time or missed.
PanelIsFresh ==
  page = "schedule" /\ posts = {} /\ ~panelMissed =>
    /\ \A g \in gets : g.answer \in {Unanswered, stored}
    /\ gets = {} => panel = stored

OneGet == ~panelMissed => \A g, h \in gets : g = h

Typed == TableInv /\ PageTypeOK
PanelInv == PanelIsFresh /\ OneGet

-----------------------------------------------------------------------------
\* A step in which the table does not move keeps the table's invariant.
LEMMA ToggleKeepsTable ==
  ASSUME Typed, NEW r \in Rows, Toggle(r)
  PROVE  TableInv'
<1> DEFINE a == [shown.answer EXCEPT ![r] = ~shown.answer[r]]
<1>1. shown \in Shown
  BY DEF Toggle, Typed, TableInv, TableTypeOK
<1>2. a \in Answers
  BY <1>1, RowAssumption DEF Shown
<1>3. shown' = [criteria |-> shown.criteria, answer |-> a]
  BY DEF Toggle
<1> HIDE DEF a
<1>4. shown' \in Shown
  BY <1>1, <1>2, <1>3 DEF Shown
<1>5. UNCHANGED <<criteria, delay, iDraw, draws, missed>>
  BY DEF Toggle
<1> QED
  BY <1>4, <1>5 DEF Typed, TableInv, TableTypeOK, Echoes

\* A post that fails or succeeds leaves the table to the timer.
LEMMA PostKeepsTable ==
  ASSUME Typed, NEW p \in posts, PostFails(p) \/ PostSucceeds(p)
  PROVE  TableInv'
<1>1. UNCHANGED <<criteria, iDraw, draws, shown>>
  BY DEF PostFails, PostSucceeds
<1>2. delay' \in BOOLEAN /\ missed' \in BOOLEAN
  BY DEF PostFails, PostSucceeds, Refresh, Typed, TableInv, TableTypeOK
<1> QED
  BY <1>1, <1>2 DEF Typed, TableInv, TableTypeOK, Echoes

LEMMA TableKept == Typed /\ [Next]_vars => TableInv'
<1> SUFFICES ASSUME Typed, [Next]_vars PROVE TableInv'
  OBVIOUS
<1>1. ASSUME NEW c \in Criteria, ChangeFilter(c) \/ ChangeOrder(c) \/ PickSuggestion(c)
      PROVE TableInv'
  BY <1>1, FiltersKeepTable DEF ChangeFilter, ChangeOrder, PickSuggestion, Typed
<1>2. ASSUME NEW d \in draws, Fails(d) \/ Shows(d) \/ Drops(d) PROVE TableInv'
  BY <1>2, DeliveryKeepsTable DEF Fails, Shows, Drops, Typed
<1>3. ASSUME NEW d \in draws, Reads(d) PROVE TableInv'
  BY <1>3, AnswerKeepsTable DEF Reads, Typed, PageTypeOK
<1>4. CASE Fires
  BY <1>4, TimerKeepsTable DEF Fires, Typed
<1>5. CASE UNCHANGED tableVars
  BY <1>5, TableStutters DEF Typed
<1>6. ASSUME NEW p \in posts, SavePost(p) PROVE TableInv'
  BY <1>5, <1>6 DEF SavePost
<1>7. ASSUME NEW g \in gets, PanelFails(g) \/ PanelAnswers(g) \/ PanelShows(g) PROVE TableInv'
  BY <1>5, <1>7 DEF PanelFails, PanelAnswers, PanelShows
<1>8. CASE UNCHANGED vars
  BY <1>5, <1>8 DEF vars
<1> QED
  BY <1>1, <1>2, <1>3, <1>4, <1>6, <1>7, <1>8, ToggleKeepsTable, PostKeepsTable
  DEF Next, User, Failure, Machine

LEMMA PageKept == Typed /\ [Next]_vars => PageTypeOK'
<1> SUFFICES ASSUME Typed, [Next]_vars PROVE PageTypeOK'
  OBVIOUS
<1> USE DEF Typed, PageTypeOK
<1>1. ASSUME NEW r \in Rows, Toggle(r) PROVE PageTypeOK'
  <2> DEFINE n == [id |-> edits, row |-> r, value |-> ~shown.answer[r], saved |-> FALSE]
  <2>1. n \in Post
    BY DEF Post
  <2>2. posts' = posts \cup {n}
    BY <1>1 DEF Toggle
  <2> HIDE DEF n
  <2>3. edits' \in Nat /\ failures' \in Nat
    BY <1>1 DEF Toggle, UserEdits
  <2> QED
    BY <1>1, <2>1, <2>2, <2>3 DEF Toggle
<1>2. ASSUME UNCHANGED serverVars, UserEdits \/ RequestFails \/ NoUser PROVE PageTypeOK'
  <2>1. edits' \in Nat /\ failures' \in Nat
    BY <1>2 DEF UserEdits, RequestFails, NoUser
  <2> QED
    BY <1>2, <2>1 DEF serverVars
<1>3. ASSUME NEW p \in posts, PostFails(p) PROVE PageTypeOK'
  <2>1. edits' \in Nat /\ failures' \in Nat
    BY <1>3 DEF PostFails, RequestFails
  <2> QED
    BY <1>3, <2>1 DEF PostFails
<1>4. ASSUME NEW p \in posts, SavePost(p) PROVE PageTypeOK'
  <2> DEFINE n == [id |-> p.id, row |-> p.row, value |-> p.value, saved |-> TRUE]
  <2>1. p \in Post
    OBVIOUS
  <2>2. n \in Post
    BY <2>1 DEF Post
  <2>3. posts' = (posts \ {p}) \cup {n}
    BY <1>4 DEF SavePost
  <2> HIDE DEF n
  <2>4. stored' \in Answers
    BY <1>4, <2>1, RowAssumption DEF SavePost, Post
  <2> QED
    BY <1>4, <2>2, <2>3, <2>4 DEF SavePost, NoUser
<1>5. ASSUME NEW p \in posts, PostSucceeds(p) PROVE PageTypeOK'
  <2> DEFINE n == [id |-> p.id, answer |-> Unanswered]
  <2>1. n \in Get
    BY DEF Get, Post
  <2>2. gets' = gets \/ gets' = gets \cup {n}
    BY <1>5 DEF PostSucceeds, UpdateFavorites
  <2> HIDE DEF n
  <2>3. panelMissed' \in BOOLEAN
    BY <1>5 DEF PostSucceeds, UpdateFavorites
  <2> QED
    BY <1>5, <2>1, <2>2, <2>3 DEF PostSucceeds, NoUser
<1>6. ASSUME NEW g \in gets, PanelFails(g) PROVE PageTypeOK'
  <2>1. edits' \in Nat /\ failures' \in Nat
    BY <1>6 DEF PanelFails, RequestFails
  <2> QED
    BY <1>6, <2>1 DEF PanelFails
<1>7. ASSUME NEW g \in gets, PanelAnswers(g) PROVE PageTypeOK'
  <2> DEFINE n == [id |-> g.id, answer |-> stored]
  <2>1. n \in Get
    BY DEF Get
  <2>2. gets' = (gets \ {g}) \cup {n}
    BY <1>7 DEF PanelAnswers
  <2> HIDE DEF n
  <2> QED
    BY <1>7, <2>1, <2>2 DEF PanelAnswers, NoUser
<1>8. ASSUME NEW g \in gets, PanelShows(g) PROVE PageTypeOK'
  <2>1. g.answer \in Answers
    BY <1>8 DEF PanelShows, Get
  <2> QED
    BY <1>8, <2>1 DEF PanelShows, NoUser
<1>9. CASE UNCHANGED vars
  BY <1>9 DEF vars
<1> QED
  BY <1>1, <1>2, <1>3, <1>4, <1>5, <1>6, <1>7, <1>8, <1>9
  DEF Next, User, Failure, Machine, ChangeFilter, ChangeOrder, PickSuggestion, Fires, Reads,
      Shows, Drops, Fails

LEMMA InitTyped == Init => Typed
<1> SUFFICES ASSUME Init PROVE Typed
  OBVIOUS
<1>1. TableInv
  BY InitTable DEF Init
<1>2. posts \in SUBSET Post /\ gets \in SUBSET Get /\ panelMissed \in BOOLEAN
  BY DEF Init
<1>3. page \in Pages /\ stored \in Answers /\ panel \in Answers /\ edits \in Nat /\ failures \in Nat
  BY DEF Init
<1> QED
  BY <1>1, <1>2, <1>3 DEF Typed, PageTypeOK

LEMMA TypedStep == Typed /\ [Next]_vars => Typed'
BY TableKept, PageKept DEF Typed

\* ToggleTable's variables have their types in every reachable state.
THEOREM TypeCorrect == Spec => []TypeOK
<1>1. Typed => TypeOK
  BY DEF Typed, TableInv, TypeOK
<1>2. QED
  BY <1>1, InitTyped, TypedStep, PTL DEF Spec

-----------------------------------------------------------------------------
\* Every step keeps the latest draw fresh.
LEMMA LatestStep == Typed /\ LatestIsFresh /\ [Next]_vars => LatestIsFresh'
<1> SUFFICES ASSUME Typed, LatestIsFresh, [Next]_vars PROVE LatestIsFresh'
  OBVIOUS
<1>0. /\ iDraw \in Nat
      /\ \A d \in draws : d \in Draw /\ d.echo \in Nat /\ d.echo <= iDraw
      /\ \A d, e \in draws : d.echo = e.echo => d = e
  BY DEF Typed, TableInv, TableTypeOK, Draw, Echoes
<1>1. ASSUME posts' # {} \/ delay' \/ missed' PROVE LatestIsFresh'
  BY <1>1 DEF LatestIsFresh
<1>2. ASSUME NEW r \in Rows, Toggle(r) PROVE LatestIsFresh'
  BY <1>1, <1>2 DEF Toggle
<1>3. ASSUME NEW c \in Criteria, ChangeFilter(c) \/ PickSuggestion(c) PROVE LatestIsFresh'
  BY <1>1, <1>3 DEF ChangeFilter, PickSuggestion, ChangeCriteria, PickUnbound, Refresh
<1>4. ASSUME SendDraw(criteria') PROVE LatestIsFresh'
  <2>1. \A d \in draws' : d.echo = iDraw' => Fresh(d)'
    BY <1>0, <1>4 DEF SendDraw, NewDraw, Fresh
  <2>2. \E d \in draws' : d.echo = iDraw'
    <3>1. NewDraw(iDraw + 1, criteria').echo = iDraw + 1
      BY DEF NewDraw
    <3> QED
      BY <1>4, <3>1 DEF SendDraw
  <2> QED
    BY <2>1, <2>2 DEF LatestIsFresh
<1>5. ASSUME NEW c \in Criteria, ChangeOrder(c) PROVE LatestIsFresh'
  BY <1>4, <1>5 DEF ChangeOrder, Redraw
<1>6. CASE Fires
  BY <1>4, <1>6 DEF Fires, TimerFires
<1>7. ASSUME NEW p \in posts, PostFails(p) \/ PostSucceeds(p) PROVE LatestIsFresh'
  BY <1>1, <1>7 DEF PostFails, PostSucceeds, Refresh
<1>8. ASSUME NEW p \in posts, SavePost(p) PROVE LatestIsFresh'
  BY <1>1, <1>8 DEF SavePost
<1>9. ASSUME NEW d \in draws, Fails(d) PROVE LatestIsFresh'
  <2>1. CASE d.echo = iDraw
    BY <1>1, <1>9, <2>1 DEF Fails, DrawFails
  <2>2. CASE d.echo # iDraw
    BY <1>9, <2>2 DEF Fails, DrawFails, serverVars, LatestIsFresh, Fresh, Current
  <2> QED
    BY <2>1, <2>2
<1>10. ASSUME NEW d \in draws, Reads(d) PROVE LatestIsFresh'
  <2> DEFINE n == [echo |-> d.echo, criteria |-> d.criteria, answer |-> stored]
  <2>1. draws' = (draws \ {d}) \cup {n} /\ n.echo = d.echo
    BY <1>10 DEF Reads, ServerAnswers
  <2>2. Fresh(d) => Fresh(n)
    BY DEF Fresh
  <2> HIDE DEF n
  <2>3. UNCHANGED <<criteria, delay, iDraw, shown, missed, posts, stored>>
    BY <1>10 DEF Reads, ServerAnswers, serverVars
  <2> QED
    BY <2>1, <2>2, <2>3 DEF LatestIsFresh, Fresh, Current
<1>11. ASSUME NEW d \in draws, Shows(d) PROVE LatestIsFresh'
  <2>1. d.echo = iDraw
    BY <1>11, ShowsLatest DEF Shows, Typed
  <2>2. \A e \in draws' : e.echo # iDraw
    BY <1>0, <1>11, <2>1 DEF Shows, ShowsDraw
  <2>3. Fresh(d) => Current'
    BY <1>11 DEF Shows, ShowsDraw, Fresh, Current, serverVars
  <2> QED
    BY <1>11, <2>1, <2>2, <2>3 DEF Shows, ShowsDraw, LatestIsFresh, serverVars
<1>12. ASSUME NEW d \in draws, Drops(d) PROVE LatestIsFresh'
  <2>1. d.echo # iDraw
    BY <1>0, <1>12 DEF Drops, DropsDraw, IsLatest
  <2> QED
    BY <1>12, <2>1 DEF Drops, DropsDraw, serverVars, LatestIsFresh, Fresh, Current
<1>13. CASE UNCHANGED <<tableVars, posts, stored>>
  BY <1>13 DEF tableVars, LatestIsFresh, Fresh, Current
<1>14. ASSUME NEW g \in gets, PanelFails(g) \/ PanelAnswers(g) \/ PanelShows(g)
       PROVE LatestIsFresh'
  BY <1>13, <1>14 DEF PanelFails, PanelAnswers, PanelShows
<1>15. CASE UNCHANGED vars
  BY <1>13, <1>15 DEF vars
<1> QED
  BY <1>2, <1>3, <1>5, <1>6, <1>7, <1>8, <1>9, <1>10, <1>11, <1>12, <1>14, <1>15
  DEF Next, User, Failure, Machine

\* A table that has settled and missed nothing shows what is stored for its
\* criteria, whatever order posts and draws were answered in.
THEOREM SettledTableIsCurrent == Spec => []QuietTableIsCurrent
<1>1. Init => LatestIsFresh
  BY DEF Init, TableInit, NewDraw, LatestIsFresh, Fresh
<1>2. LatestIsFresh => QuietTableIsCurrent
  BY DEF LatestIsFresh, QuietTableIsCurrent, Quiet, TableQuiet
<1>3. QED
  BY <1>1, <1>2, InitTyped, TypedStep, LatestStep, PTL DEF Spec

-----------------------------------------------------------------------------
\* Every step keeps the panel's invariant.
LEMMA PanelStep == Typed /\ PanelInv /\ [Next]_vars => PanelInv'
<1> SUFFICES ASSUME Typed, PanelInv, [Next]_vars PROVE PanelInv'
  OBVIOUS
<1> USE DEF PanelInv
<1>1. ASSUME NEW r \in Rows, Toggle(r) PROVE PanelInv'
  BY <1>1 DEF Toggle, PanelIsFresh, OneGet
<1>2. ASSUME UNCHANGED <<page, stored, posts, panel, gets, panelMissed>> PROVE PanelInv'
  BY <1>2 DEF PanelIsFresh, OneGet
<1>3. ASSUME NEW p \in posts, PostFails(p) PROVE PanelInv'
  BY <1>3 DEF PostFails, PanelIsFresh, OneGet
<1>4. ASSUME NEW p \in posts, SavePost(p) PROVE PanelInv'
  <2>1. posts' # {} /\ UNCHANGED <<gets, panelMissed>>
    BY <1>4 DEF SavePost
  <2> QED
    BY <2>1 DEF PanelIsFresh, OneGet
<1>5. ASSUME NEW p \in posts, PostSucceeds(p) PROVE PanelInv'
  <2> DEFINE n == [id |-> p.id, answer |-> Unanswered]
  <2>1. CASE page = "schedule"
    <3>1. gets' = gets \cup {n} /\ n.answer = Unanswered
      BY <1>5, <2>1 DEF PostSucceeds, UpdateFavorites
    <3>2. panelMissed' = (gets # {})
      BY <1>5, <2>1 DEF PostSucceeds, UpdateFavorites
    <3> HIDE DEF n
    <3>3. CASE gets = {}
      <4>1. gets' = {n}
        BY <3>1, <3>3
      <4> QED
        BY <3>1, <4>1 DEF PanelIsFresh, OneGet
    <3>4. CASE gets # {}
      BY <3>2, <3>4 DEF PanelIsFresh, OneGet
    <3> QED
      BY <3>3, <3>4
  <2>2. CASE page # "schedule"
    BY <1>5, <2>2 DEF PostSucceeds, UpdateFavorites, PanelIsFresh, OneGet
  <2> QED
    BY <2>1, <2>2
<1>6. ASSUME NEW g \in gets, PanelAnswers(g) PROVE PanelInv'
  <2> DEFINE n == [id |-> g.id, answer |-> stored]
  <2>1. gets' = (gets \ {g}) \cup {n} /\ n.answer = stored
    BY <1>6 DEF PanelAnswers
  <2>2. UNCHANGED <<page, posts, panel, panelMissed, stored>>
    BY <1>6 DEF PanelAnswers
  <2> HIDE DEF n
  <2> QED
    BY <2>1, <2>2 DEF PanelIsFresh, OneGet
<1>7. ASSUME NEW g \in gets, PanelShows(g) PROVE PanelInv'
  BY <1>7 DEF PanelShows, PanelIsFresh, OneGet
<1>8. ASSUME NEW g \in gets, PanelFails(g) PROVE PanelInv'
  BY <1>8 DEF PanelFails, PanelIsFresh, OneGet
<1>9. CASE UNCHANGED vars
  BY <1>9, <1>2 DEF vars
<1> QED
  BY <1>1, <1>2, <1>3, <1>4, <1>5, <1>6, <1>7, <1>8, <1>9
  DEF Next, User, Failure, Machine, ChangeFilter, ChangeOrder, PickSuggestion, Fires, Reads,
      Shows, Drops, Fails, serverVars

\* The panel of favorites agrees with the database once nothing is in flight,
\* if it was never asked for twice at a time and no request failed.
THEOREM SettledPanelIsCurrent == Spec => []PanelIsCurrent
<1>1. Init => PanelInv
  BY DEF Init, PanelInv, PanelIsFresh, OneGet
<1>2. PanelInv => PanelIsCurrent
  BY DEF PanelInv, PanelIsFresh, PanelIsCurrent
<1>3. QED
  BY <1>1, <1>2, InitTyped, TypedStep, PanelStep, PTL DEF Spec

=============================================================================
