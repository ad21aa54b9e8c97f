----------------------------- MODULE ServerTable -----------------------------
(***************************************************************************)
(* A listing of the site: a DataTables table whose rows come from the      *)
(* server, drawn again whenever the criteria (filters, order, page) or the *)
(* data may have changed.  Every draw is an ajax request that carries an   *)
(* increasing echo; answers may come back in any order or not at all.      *)
(*                                                                         *)
(* What a draw's answer holds is left to the modules that extend this one: *)
(* they say what the server reads and what the page does with it.          *)
(***************************************************************************)
EXTENDS Naturals, FiniteSets

CONSTANTS Criteria,        \* what a listing can be asked for
          Answers,         \* what the server can answer a draw with
          Unanswered,      \* the answer of a draw the server has not read yet
          NothingShown     \* the table of a page whose first draw is in flight

ASSUME AnswerAssumption == Unanswered \notin Answers
ASSUME ShownAssumption == NothingShown \notin [criteria : Criteria, answer : Answers]

VARIABLES criteria,        \* the filter fields, order and page as they are now
          delay,           \* Refresh's timer is running
          iDraw,           \* echo of the last draw sent, or shown
          draws,           \* draws in flight
          shown,           \* criteria and answer of the draw the table shows
          missed           \* something the table shows has changed, or its last draw
                           \*   failed, and no draw was asked for (history variable)

tableVars == <<criteria, delay, iDraw, draws, shown, missed>>

Draw == [echo : Nat, criteria : Criteria, answer : Answers \cup {Unanswered}]
Shown == [criteria : Criteria, answer : Answers]

TableTypeOK ==
  /\ criteria \in Criteria
  /\ delay \in BOOLEAN
  /\ iDraw \in Nat
  /\ draws \in SUBSET Draw
  /\ shown \in Shown \cup {NothingShown}
  /\ missed \in BOOLEAN

NewDraw(echo, c) == [echo |-> echo, criteria |-> c, answer |-> Unanswered]

\* Initialize builds the table, which asks for its first draw at once.
TableInit ==
  /\ criteria \in Criteria
  /\ delay = FALSE
  /\ iDraw = 1
  /\ draws = {NewDraw(1, criteria)}
  /\ shown = NothingShown
  /\ missed = FALSE

-----------------------------------------------------------------------------
\* _fnAjaxUpdate, for the criteria the filter fields hold by then
SendDraw(c) ==
  /\ iDraw' = iDraw + 1
  /\ draws' = draws \cup {NewDraw(iDraw + 1, c)}
  /\ missed' = FALSE

\* Refresh: the timer starts, or starts anew.
Refresh == delay' = TRUE

\* A filter whose handler calls Refresh on the table.
ChangeCriteria(c) ==
  /\ criteria' = c
  /\ Refresh
  /\ UNCHANGED <<iDraw, draws, shown, missed>>

\* Another order or page, and the user listing's filters: drawn at once.
Redraw(c) ==
  /\ criteria' = c
  /\ SendDraw(c)
  /\ UNCHANGED <<delay, shown>>

\* A suggestion taken with the mouse where the filter was given the bare
\* function Refresh: it starts a timer of the window, which finds no table.
PickUnbound(c) ==
  /\ criteria' = c
  /\ missed' = TRUE
  /\ UNCHANGED <<delay, iDraw, draws, shown>>

TimerFires ==
  /\ delay
  /\ delay' = FALSE
  /\ SendDraw(criteria)
  /\ UNCHANGED <<criteria, shown>>

ServerAnswers(d, answer) ==
  /\ d.answer = Unanswered
  /\ draws' = (draws \ {d}) \cup
       {[echo |-> d.echo, criteria |-> d.criteria, answer |-> answer]}
  /\ UNCHANGED <<criteria, delay, iDraw, shown, missed>>

\* A slip for the mutation runs: no echo is compared.
TakesAny(d) == TRUE

\* The test of _fnAjaxUpdateDraw.
IsLatest(d) == d.echo >= iDraw

\* A slip for the mutation runs: a table cleared before there is an answer.
ShowsEarly(d) ==
  /\ IsLatest(d)
  /\ iDraw' = d.echo
  /\ shown' = [criteria |-> d.criteria, answer |-> d.answer]
  /\ draws' = draws \ {d}
  /\ UNCHANGED <<criteria, delay, missed>>

\* _fnAjaxUpdateDraw, for an answer it takes and for one it drops
ShowsDraw(d) ==
  /\ d.answer # Unanswered
  /\ IsLatest(d)
  /\ iDraw' = d.echo
  /\ shown' = [criteria |-> d.criteria, answer |-> d.answer]
  /\ draws' = draws \ {d}
  /\ UNCHANGED <<criteria, delay, missed>>

DropsDraw(d) ==
  /\ d.answer # Unanswered
  /\ ~IsLatest(d)
  /\ draws' = draws \ {d}
  /\ UNCHANGED <<criteria, delay, iDraw, shown, missed>>

\* The error callback of LoadServerData tells the user at most; nothing is
\* asked again.
DrawFails(d) ==
  /\ draws' = draws \ {d}
  /\ missed' = (missed \/ d.echo = iDraw)
  /\ UNCHANGED <<criteria, delay, iDraw, shown>>

TableQuiet == ~delay /\ draws = {}

=============================================================================
