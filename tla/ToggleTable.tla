----------------------------- MODULE ToggleTable -----------------------------
(***************************************************************************)
(* The listings with a check box in each row that is posted as soon as it  *)
(* is clicked: the parental opt-outs of the approvals, the favorite        *)
(* offerings (on the offerings' own page and on the scheduling page, which *)
(* also shows the favorites in a panel), and the private service types.    *)
(* Each post is followed by a draw, which is to bring box and row together *)
(* again, whatever order posts, draws and their answers take.              *)
(***************************************************************************)
EXTENDS ServerTable

CONSTANTS Rows,
          MaxEdits,        \* bound on what the user does
          MaxFailures      \* bound on requests that fail

ASSUME RowAssumption == Answers = [Rows -> BOOLEAN]
ASSUME EditAssumption == MaxEdits \in Nat
ASSUME FailureAssumption == MaxFailures \in Nat

VARIABLES page,
          stored,          \* stored[r]: the flag in the database
          posts,           \* posts in flight
          edits,           \* what the user has done so far, counted
          failures,        \* requests that have failed, counted
          panel,           \* the favorites the panel lists
          gets,            \* requests for the panel in flight
          panelMissed      \* the panel was not asked for after a change, or by two
                           \*   requests at a time (history variable)

vars == <<tableVars, page, stored, posts, edits, failures, panel, gets, panelMissed>>

Pages == {"approval", "offering", "schedule", "type"}
Post == [id : Nat, row : Rows, value : BOOLEAN, saved : BOOLEAN]
Get == [id : Nat, answer : Answers \cup {Unanswered}]

PageTypeOK ==
  /\ page \in Pages
  /\ stored \in Answers
  /\ posts \in SUBSET Post
  /\ edits \in Nat
  /\ failures \in Nat
  /\ panel \in Answers
  /\ gets \in SUBSET Get
  /\ panelMissed \in BOOLEAN

TypeOK == TableTypeOK /\ PageTypeOK

Init ==
  /\ TableInit
  /\ page \in Pages
  /\ stored \in Answers
  /\ posts = {}
  /\ edits = 0
  /\ failures = 0
  /\ panel = stored
  /\ gets = {}
  /\ panelMissed = FALSE

-----------------------------------------------------------------------------
serverVars == <<page, stored, posts, panel, gets, panelMissed>>

UserEdits ==
  /\ edits < MaxEdits
  /\ edits' = edits + 1
  /\ UNCHANGED failures

RequestFails ==
  /\ failures < MaxFailures
  /\ failures' = failures + 1
  /\ UNCHANGED edits

NoUser == UNCHANGED <<edits, failures>>

\* The change handler posts the box as it is now.
Toggle(r) ==
  /\ UserEdits
  /\ shown # NothingShown
  /\ LET box == ~shown.answer[r]
     IN  /\ shown' = [criteria |-> shown.criteria, answer |-> [shown.answer EXCEPT ![r] = box]]
         /\ posts' = posts \cup {[id |-> edits, row |-> r, value |-> box, saved |-> FALSE]}
  /\ UNCHANGED <<criteria, delay, iDraw, draws, missed, page, stored, panel, gets, panelMissed>>

\* SetStudentOptOutState, SetFavoriteState, SetPrivacy
SavePost(p) ==
  /\ ~p.saved
  /\ stored' = [stored EXCEPT ![p.row] = p.value]
  /\ posts' = (posts \ {p}) \cup
       {[id |-> p.id, row |-> p.row, value |-> p.value, saved |-> TRUE]}
  /\ NoUser
  /\ UNCHANGED <<tableVars, page, panel, gets, panelMissed>>

\* UpdateFavorites asks for the panel as it is on the server; only the
\* scheduling page has one.
UpdateFavorites(id) ==
  IF page = "schedule"
    THEN /\ gets' = gets \cup {[id |-> id, answer |-> Unanswered]}
         /\ panelMissed' = (gets # {})
    ELSE UNCHANGED <<gets, panelMissed>>

\* Slips for the mutation runs: the table, or the panel, is left as it is.
PostSucceedsQuietly(p) ==
  /\ p.saved
  /\ posts' = posts \ {p}
  /\ UpdateFavorites(p.id)
  /\ NoUser
  /\ UNCHANGED <<tableVars, page, stored, panel>>

PostSucceedsWithoutPanel(p) ==
  /\ p.saved
  /\ posts' = posts \ {p}
  /\ Refresh
  /\ NoUser
  /\ UNCHANGED <<criteria, iDraw, draws, shown, missed, page, stored, panel, gets, panelMissed>>

PostSucceeds(p) ==
  /\ p.saved
  /\ posts' = posts \ {p}
  /\ Refresh
  /\ UpdateFavorites(p.id)
  /\ NoUser
  /\ UNCHANGED <<criteria, iDraw, draws, shown, missed, page, stored, panel>>

\* The post failed, or its answer was lost after it was saved.  The type
\* page's error handler looks for its table in the request and stops there.
PostFails(p) ==
  /\ RequestFails
  /\ posts' = posts \ {p}
  /\ panelMissed' = TRUE
  /\ IF page = "type"
       THEN missed' = TRUE /\ UNCHANGED delay
       ELSE Refresh /\ UNCHANGED missed
  /\ UNCHANGED <<criteria, iDraw, draws, shown, page, stored, panel, gets>>

\* The panel's requests: answered, shown in the order they come, or failed.
PanelAnswers(g) ==
  /\ g.answer = Unanswered
  /\ gets' = (gets \ {g}) \cup {[id |-> g.id, answer |-> stored]}
  /\ NoUser
  /\ UNCHANGED <<tableVars, page, stored, posts, panel, panelMissed>>

PanelShows(g) ==
  /\ g.answer # Unanswered
  /\ gets' = gets \ {g}
  /\ panel' = g.answer
  /\ NoUser
  /\ UNCHANGED <<tableVars, page, stored, posts, panelMissed>>

PanelFails(g) ==
  /\ RequestFails
  /\ gets' = gets \ {g}
  /\ panelMissed' = TRUE
  /\ UNCHANGED <<tableVars, page, stored, posts, panel>>

\* Filters that call Refresh on the table, and order and page.  The search
\* fields of the offerings and the types were given the bare function.
ChangeFilter(c) == UserEdits /\ ChangeCriteria(c) /\ UNCHANGED serverVars
ChangeOrder(c) == UserEdits /\ Redraw(c) /\ UNCHANGED serverVars
PickSuggestion(c) ==
  /\ UserEdits
  /\ IF page \in {"offering", "type"} THEN PickUnbound(c) ELSE ChangeCriteria(c)
  /\ UNCHANGED serverVars

Fires == TimerFires /\ NoUser /\ UNCHANGED serverVars
Reads(d) == ServerAnswers(d, stored) /\ NoUser /\ UNCHANGED serverVars
Shows(d) == ShowsDraw(d) /\ NoUser /\ UNCHANGED serverVars
Drops(d) == DropsDraw(d) /\ NoUser /\ UNCHANGED serverVars
Fails(d) == RequestFails /\ DrawFails(d) /\ UNCHANGED serverVars

User ==
  \/ \E r \in Rows : Toggle(r)
  \/ \E c \in Criteria : ChangeFilter(c) \/ ChangeOrder(c) \/ PickSuggestion(c)

Failure ==
  \/ \E p \in posts : PostFails(p)
  \/ \E g \in gets : PanelFails(g)
  \/ \E d \in draws : Fails(d)

\* The timer, the server and the callbacks of the browser.
Machine ==
  \/ Fires
  \/ \E d \in draws : Reads(d) \/ Shows(d) \/ Drops(d)
  \/ \E p \in posts : SavePost(p) \/ PostSucceeds(p)
  \/ \E g \in gets : PanelAnswers(g) \/ PanelShows(g)

Next == User \/ Failure \/ Machine

\* A browser runs its timers and callbacks, and every request is answered or
\* fails; nobody makes the user act.
Fairness == WF_vars(Machine)

Spec == Init /\ [][Next]_vars /\ Fairness

-----------------------------------------------------------------------------
Quiet == TableQuiet /\ posts = {}
Current == shown = [criteria |-> criteria, answer |-> stored]

\* Once timers, posts and draws have settled, the table shows what is stored
\* for the criteria the filters show, in whatever order two posts were saved
\* and two draws answered: unless the last draw failed, a suggestion was
\* taken on a page that then draws nothing, or a post of the type page failed.
QuietTableIsCurrent == Quiet /\ ~missed => Current

\* The panel of favorites, which has no echo, agrees with the database when
\* it was never asked for twice at a time and no request failed.
PanelIsCurrent ==
  page = "schedule" /\ posts = {} /\ gets = {} /\ ~panelMissed => panel = stored

\* A user who stops gets to see what is stored, or the page missed a draw.
CatchesUp == []<>(Current \/ missed)

=============================================================================
