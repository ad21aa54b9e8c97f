------------------------ MODULE CatalogRequestsProofs ------------------------
(***************************************************************************)
(* Proofs about overlapping requests of the catalog, for any numbers of    *)
(* providers, programs, assignments and sessions.                          *)
(*                                                                         *)
(* Asked(s, w) says that w is what session s would load now. Each of the   *)
(* nine kinds of request is a function of what it reads, so a request that *)
(* was asked for once still would be as long as everything it has read is  *)
(* as it was, whatever else has been saved. That is the invariant; what    *)
(* follows is that its save then is the operation of ServiceCatalog it was *)
(* loaded for, and with it everything that is proved of that module.       *)
(***************************************************************************)
EXTENDS CatalogRequests, TLAPS

Open == {p \in Programs : program[p] = "active"}
Listed == {r \in Providers : provider[r] = "active"}

\* The requests of the load steps, each under the checks of its method.
CreatesProvider(w) ==
  \E r \in Providers, selected \in SUBSET Open :
    /\ provider[r] = "inactive"
    /\ \A o \in Offering : o.provider = r /\ o.program \notin selected => ~InUse(o)
    /\ w = ProviderRequest(r, Set({r}, "active"), selected)

EditsProvider(w) ==
  \E r \in Providers, selected \in SUBSET Open :
    /\ provider[r] = "active"
    /\ \A o \in Offering : o.provider = r /\ o.program \notin selected => ~InUse(o)
    /\ w = ProviderRequest(r, Set({r}, provider[r]), selected)

DeletesProvider(w) ==
  \E r \in Providers :
    /\ \A o \in Offering : o.provider = r => ~InUse(o)
    /\ w = ProviderRequest(r, Changed(provider, {r}, "inactive"), {})

Of(p) == {o \in Offering : o.program = p}
By(p, rs) == {o \in Offering : o.program = p /\ o.provider \in rs}

ProgramRequest(program_, offering_, read_) ==
  [provider |-> NoRows, program |-> program_, offering |-> offering_, assignments |-> {},
   read |-> read_]

CreatesProgram(w) ==
  \E p \in Programs, rs \in SUBSET Listed :
    /\ rs # {} /\ program[p] = "inactive"
    /\ Changed(offering, By(p, rs), "active") # NoRows
    /\ w = ProgramRequest(Set({p}, "active"), Changed(offering, By(p, rs), "active"),
                          ProgramRead(p, rs, By(p, rs), {}))

EditRequest(p, rs) ==
  ProgramRequest(Set({p}, program[p]), Over(Changed(offering, By(p, rs), "active"),
                                            Set(Of(p) \ By(p, rs), "inactive")),
                 ProgramRead(p, rs, By(p, rs), Of(p) \ By(p, rs)))

EditsProgram(w) ==
  \E p \in Programs, rs \in SUBSET Listed :
    /\ rs # {} /\ program[p] = "active"
    /\ \A o \in Of(p) \ By(p, rs) : ~InUse(o)
    /\ w = EditRequest(p, rs)

DeletesProgram(w) ==
  \E p \in Programs :
    /\ \A o \in Of(p) : ~InUse(o)
    /\ w = ProgramRequest(Changed(program, {p}, "inactive"), Changed(offering, Of(p), "inactive"),
                          ProgramRead(p, {}, Of(p), Of(p)))

Schedules(w) ==
  \E o \in Offering, i \in AssignmentIds :
    /\ offering[o] = "active"
    /\ \A a \in assignments : a.id # i
    /\ w = AssignmentRequest([id |-> i, offering |-> o, isActive |-> TRUE], {o})

EditsAssignment(w) ==
  \E a \in assignments : a.isActive /\ w = AssignmentRequest(a, {})

CancelsAssignment(w) ==
  \E a \in assignments : a.isActive /\ w = AssignmentRequest([a EXCEPT !.isActive = FALSE], {})

AskedByAdministrator(w) ==
  \/ CreatesProvider(w) \/ EditsProvider(w) \/ DeletesProvider(w)
  \/ CreatesProgram(w) \/ EditsProgram(w) \/ DeletesProgram(w)

AskedByScheduler(w) == Schedules(w) \/ EditsAssignment(w) \/ CancelsAssignment(w)

Asked(s, w) ==
  \/ s \in Administrators /\ AskedByAdministrator(w)
  \/ s \in Schedulers /\ AskedByScheduler(w)

InFlight(s) == request[s] # NoRequest

\* Administrators write no assignments, schedulers nothing else, and no
\* request writes two.
LeavesCatalog(w) == w.provider = NoRows /\ w.program = NoRows /\ w.offering = NoRows

KeepsToItsRows(s, w) ==
  /\ s \notin Administrators => LeavesCatalog(w)
  /\ s \notin Schedulers => w.assignments = {}
  /\ \A a \in w.assignments, b \in w.assignments : a = b

UpToDate == \A s \in Sessions : InFlight(s) /\ s \notin disturbed => Asked(s, request[s])

Inv ==
  /\ TypeOK
  /\ \A s \in Sessions : InFlight(s) => KeepsToItsRows(s, request[s])
  /\ UpToDate

-----------------------------------------------------------------------------
\* What the rows of a request are, and a table with them written over it.
LEMMA SetRows ==
  ASSUME NEW T, NEW state
  PROVE  /\ \A x : x \in DOMAIN Set(T, state) <=> x \in T
         /\ \A x \in T : Set(T, state)[x] = state
  BY DEF Set

LEMMA SetType ==
  ASSUME NEW S, NEW T \in SUBSET S, NEW state \in RowState
  PROVE  Set(T, state) \in Rows(S)
  BY DEF Set, Rows

LEMMA ChangedRows ==
  ASSUME NEW T, NEW state, NEW table
  PROVE  /\ \A x : x \in DOMAIN Changed(table, T, state) <=> x \in T /\ table[x] # state
         /\ \A x \in T : table[x] # state => Changed(table, T, state)[x] = state
  BY DEF Set, Changed

LEMMA ChangedType ==
  ASSUME NEW S, NEW T \in SUBSET S, NEW state \in RowState, NEW table
  PROVE  Changed(table, T, state) \in Rows(S)
<1>1. {x \in T : table[x] # state} \in SUBSET S
  OBVIOUS
<1> QED
  BY <1>1, SetType DEF Changed

LEMMA NoRowsType ==
  ASSUME NEW S
  PROVE  NoRows \in Rows(S)
<1>1. "active" \in RowState /\ {} \in SUBSET S
  BY DEF RowState
<1> QED
  BY <1>1, SetType DEF NoRows

LEMMA NoRowsRows == \A x : x \notin DOMAIN NoRows
  BY DEF NoRows, Set

LEMMA RowsDomain ==
  ASSUME NEW S, NEW f \in Rows(S)
  PROVE  DOMAIN f \subseteq S /\ \A x \in DOMAIN f : f[x] \in RowState
  BY DEF Rows

LEMMA OverRows ==
  ASSUME NEW f, NEW g
  PROVE  /\ \A x : x \in DOMAIN Over(f, g) <=> x \in DOMAIN f \/ x \in DOMAIN g
         /\ \A x \in DOMAIN f : Over(f, g)[x] = f[x]
         /\ \A x \in DOMAIN g \ DOMAIN f : Over(f, g)[x] = g[x]
  BY DEF Over

LEMMA OverType ==
  ASSUME NEW S, NEW f \in Rows(S), NEW g \in Rows(S)
  PROVE  Over(f, g) \in Rows(S)
<1>1. DOMAIN f \cup DOMAIN g \in SUBSET S
  BY RowsDomain
<1>2. Over(f, g) \in [DOMAIN f \cup DOMAIN g -> RowState]
  BY RowsDomain DEF Over
<1> QED
  BY <1>1, <1>2 DEF Rows

LEMMA OverTable ==
  ASSUME NEW S, NEW f \in Rows(S), NEW table \in [S -> RowState]
  PROVE  /\ Over(f, table) \in [S -> RowState]
         /\ \A x \in S : Over(f, table)[x] = IF x \in DOMAIN f THEN f[x] ELSE table[x]
<1>1. DOMAIN f \subseteq S /\ \A x \in DOMAIN f : f[x] \in RowState
  BY RowsDomain
<1>2. DOMAIN f \cup DOMAIN table = S
  BY <1>1
<1> QED
  BY <1>1, <1>2 DEF Over

-----------------------------------------------------------------------------
\* What UpdateProviderPrograms asks for: the offerings of r are set as the
\* selection says, and the programs left idle are closed.
LEMMA ProviderRequestRows ==
  ASSUME TypeOK, NEW r \in Providers, NEW row \in Rows(Providers), NEW selected \in SUBSET Programs,
         NEW w, w = ProviderRequest(r, row, selected)
  PROVE  /\ w \in Request
         /\ w.provider = row
         /\ w.assignments = {}
         /\ \A o \in Offering : Over(w.offering, offering)[o] =
              IF o.provider # r THEN offering[o]
              ELSE IF o.program \in selected THEN "active" ELSE "inactive"
         /\ \A p \in Programs : Over(w.program, program)[p] =
              IF \A o \in Offering : o.program = p => Over(w.offering, offering)[o] # "active"
              THEN "inactive" ELSE program[p]
<1> DEFINE mine == {o \in Offering : o.provider = r}
           created == {o \in mine : o.program \in selected}
           on == Changed(offering, created, "active")
           off == Changed(offering, mine \ created, "inactive")
           change == Over(on, off)
           closed == Changed(program, IdlePrograms(change), "inactive")
           read == [providers |-> {r}, programs |-> selected \cup IdlePrograms(change),
                    offerings |-> mine, uses |-> mine \ created, idle |-> TRUE, ids |-> {}]
<1>1. w = [provider |-> row, program |-> closed, offering |-> change, assignments |-> {},
           read |-> read]
  BY DEF ProviderRequest
<1>2. "active" \in RowState /\ "inactive" \in RowState /\ "active" # "inactive"
  BY DEF RowState
<1>3. created \in SUBSET Offering /\ mine \ created \in SUBSET Offering
  OBVIOUS
<1>4. /\ on \in Rows(Offering) /\ \A x : x \in DOMAIN on <=> x \in created /\ offering[x] # "active"
      /\ \A x \in created : offering[x] # "active" => on[x] = "active"
  BY <1>2, <1>3, ChangedRows, ChangedType
<1>5. /\ off \in Rows(Offering) /\ \A x : x \in DOMAIN off <=> x \in mine \ created /\ offering[x] # "inactive"
      /\ \A x \in mine \ created : offering[x] # "inactive" => off[x] = "inactive"
  BY <1>2, <1>3, ChangedRows, ChangedType
<1> HIDE DEF on, off
<1>6. /\ change \in Rows(Offering) /\ \A x : x \in DOMAIN change <=> x \in DOMAIN on \/ x \in DOMAIN off
      /\ \A x \in DOMAIN on : change[x] = on[x]
      /\ \A x \in DOMAIN off \ DOMAIN on : change[x] = off[x]
  BY <1>4, <1>5, OverRows, OverType
<1> HIDE DEF change
<1>7. offering \in [Offering -> RowState] /\ program \in [Programs -> RowState]
  BY DEF TypeOK
<1>8. \A o \in Offering : Over(change, offering)[o] =
              IF o.provider # r THEN offering[o]
              ELSE IF o.program \in selected THEN "active" ELSE "inactive"
  <2> SUFFICES ASSUME NEW o \in Offering
               PROVE  Over(change, offering)[o] =
                        IF o.provider # r THEN offering[o]
                        ELSE IF o.program \in selected THEN "active" ELSE "inactive"
    OBVIOUS
  <2>1. Over(change, offering)[o] = IF o \in DOMAIN change THEN change[o] ELSE offering[o]
    BY <1>6, <1>7, OverTable
  <2> QED
    BY <2>1, <1>4, <1>5, <1>6
<1>9. IdlePrograms(change) \in SUBSET Programs
  BY DEF IdlePrograms
<1>10. /\ closed \in Rows(Programs)
       /\ \A p : p \in DOMAIN closed <=> p \in IdlePrograms(change) /\ program[p] # "inactive"
       /\ \A p \in IdlePrograms(change) : program[p] # "inactive" => closed[p] = "inactive"
  BY <1>2, <1>9, ChangedRows, ChangedType
<1> HIDE DEF closed
<1>11. \A p \in Programs : Over(closed, program)[p] =
         IF p \in IdlePrograms(change) THEN "inactive" ELSE program[p]
  <2> SUFFICES ASSUME NEW p \in Programs
               PROVE  Over(closed, program)[p] =
                        IF p \in IdlePrograms(change) THEN "inactive" ELSE program[p]
    OBVIOUS
  <2>1. Over(closed, program)[p] = IF p \in DOMAIN closed THEN closed[p] ELSE program[p]
    BY <1>7, <1>10, OverTable
  <2> QED
    BY <2>1, <1>10
<1>12. w \in Request
  <2>1. read \in Reading
    BY <1>9 DEF Reading
  <2> HIDE DEF read
  <2> QED
    BY <1>1, <1>6, <1>10, <2>1 DEF Request
<1> QED
  BY <1>1, <1>8, <1>11, <1>12 DEF IdlePrograms

LEMMA ProgramReading ==
  ASSUME NEW p \in Programs, NEW rs \in SUBSET Providers,
         NEW S \in SUBSET Offering, NEW T \in SUBSET Offering
  PROVE  ProgramRead(p, rs, S, T) \in Reading
  BY DEF ProgramRead, Reading

\* What an edit of a program asks for.
LEMMA EditProgramRows ==
  ASSUME TypeOK, NEW p \in Programs, NEW rs \in SUBSET Providers,
         NEW w, w = EditRequest(p, rs)
  PROVE  /\ w \in Request
         /\ w.provider = NoRows /\ w.assignments = {}
         /\ \A q \in Programs : Over(w.program, program)[q] = program[q]
         /\ \A o \in Offering : Over(w.offering, offering)[o] =
              IF o \in By(p, rs) THEN "active"
              ELSE IF o \in Of(p) THEN "inactive" ELSE offering[o]
<1> DEFINE on == Changed(offering, By(p, rs), "active")
           off == Set(Of(p) \ By(p, rs), "inactive")
           change == Over(on, off)
           row == Set({p}, program[p])
           read == ProgramRead(p, rs, By(p, rs), Of(p) \ By(p, rs))
<1>1. w = [provider |-> NoRows, program |-> row, offering |-> change, assignments |-> {},
           read |-> read]
  BY DEF EditRequest, ProgramRequest
<1>2. "active" \in RowState /\ "inactive" \in RowState /\ "active" # "inactive"
  BY DEF RowState
<1>3. By(p, rs) \in SUBSET Offering /\ Of(p) \ By(p, rs) \in SUBSET Offering
  BY DEF By, Of
<1>4. /\ on \in Rows(Offering) /\ \A x : x \in DOMAIN on <=> x \in By(p, rs) /\ offering[x] # "active"
      /\ \A x \in By(p, rs) : offering[x] # "active" => on[x] = "active"
  BY <1>2, <1>3, ChangedRows, ChangedType
<1>5. /\ off \in Rows(Offering) /\ \A x : x \in DOMAIN off <=> x \in Of(p) \ By(p, rs)
      /\ \A x \in Of(p) \ By(p, rs) : off[x] = "inactive"
  BY <1>2, <1>3, SetRows, SetType
<1> HIDE DEF on, off
<1>6. /\ change \in Rows(Offering) /\ \A x : x \in DOMAIN change <=> x \in DOMAIN on \/ x \in DOMAIN off
      /\ \A x \in DOMAIN on : change[x] = on[x]
      /\ \A x \in DOMAIN off \ DOMAIN on : change[x] = off[x]
  BY <1>4, <1>5, OverRows, OverType
<1>7. offering \in [Offering -> RowState] /\ program \in [Programs -> RowState]
  BY DEF TypeOK
<1>8. /\ row \in Rows(Programs) /\ \A q : q \in DOMAIN row <=> q = p
      /\ row[p] = program[p]
  BY <1>7, SetRows, SetType
<1> HIDE DEF change, row
<1>9. \A o \in Offering : Over(change, offering)[o] =
              IF o \in By(p, rs) THEN "active"
              ELSE IF o \in Of(p) THEN "inactive" ELSE offering[o]
  <2> SUFFICES ASSUME NEW o \in Offering
               PROVE  Over(change, offering)[o] =
                        IF o \in By(p, rs) THEN "active"
                        ELSE IF o \in Of(p) THEN "inactive" ELSE offering[o]
    OBVIOUS
  <2>1. Over(change, offering)[o] = IF o \in DOMAIN change THEN change[o] ELSE offering[o]
    BY <1>6, <1>7, OverTable
  <2> QED
    BY <2>1, <1>4, <1>5, <1>6
<1>10. \A q \in Programs : Over(row, program)[q] = program[q]
  BY <1>7, <1>8, OverTable
<1>11. NoRows \in Rows(Providers)
  BY NoRowsType
<1>12. w \in Request
  <2>1. read \in Reading
    BY <1>3, ProgramReading
  <2> HIDE DEF read
  <2> QED
    BY <1>1, <1>6, <1>8, <1>11, <2>1 DEF Request
<1>13. w.provider = NoRows /\ w.program = row /\ w.offering = change /\ w.assignments = {}
  BY <1>1
<1> QED
  BY <1>9, <1>10, <1>12, <1>13

\* What the other requests about a program ask for: one new state for some of
\* its offerings.
LEMMA ProgramRows ==
  ASSUME TypeOK, NEW p \in Programs, NEW row \in Rows(Programs), NEW T \in SUBSET Offering,
         NEW state \in {"active", "inactive"}, NEW read \in Reading,
         NEW w, w = ProgramRequest(row, Changed(offering, T, state), read)
  PROVE  /\ w \in Request
         /\ w.provider = NoRows /\ w.program = row /\ w.assignments = {}
         /\ w.offering = Changed(offering, T, state)
         /\ \A o \in Offering : Over(w.offering, offering)[o] =
              IF o \in T THEN state ELSE offering[o]
<1> DEFINE change == Changed(offering, T, state)
<1>1. w = [provider |-> NoRows, program |-> row, offering |-> change, assignments |-> {},
           read |-> read]
  BY DEF ProgramRequest
<1>2. state \in RowState
  BY DEF RowState
<1>3. /\ change \in Rows(Offering) /\ \A x : x \in DOMAIN change <=> x \in T /\ offering[x] # state
      /\ \A x \in T : offering[x] # state => change[x] = state
  BY <1>2, ChangedRows, ChangedType
<1>4. offering \in [Offering -> RowState]
  BY DEF TypeOK
<1> HIDE DEF change
<1>5. \A o \in Offering : Over(change, offering)[o] = IF o \in T THEN state ELSE offering[o]
  BY <1>3, <1>4, OverTable
<1>6. NoRows \in Rows(Providers)
  BY NoRowsType
<1> QED
  BY <1>1, <1>3, <1>5, <1>6 DEF Request, change

\* What a request about an assignment asks for.
LEMMA AssignmentRows ==
  ASSUME NEW a \in Assignment, NEW T \in SUBSET Offering, NEW w, w = AssignmentRequest(a, T)
  PROVE  w \in Request /\ LeavesCatalog(w) /\ w.assignments = {a}
<1>1. NoRows \in Rows(Providers) /\ NoRows \in Rows(Programs) /\ NoRows \in Rows(Offering)
  BY NoRowsType
<1> QED
  BY <1>1 DEF AssignmentRequest, Request, LeavesCatalog, Reading, Assignment

-----------------------------------------------------------------------------
\* The three requests about a provider are requests of UpdateProviderPrograms.
LEMMA ProviderAsked ==
  ASSUME TypeOK, NEW w, CreatesProvider(w) \/ EditsProvider(w) \/ DeletesProvider(w)
  PROVE  \E r \in Providers, row \in Rows(Providers), selected \in SUBSET Programs :
           w = ProviderRequest(r, row, selected)
<1>1. "active" \in RowState /\ "inactive" \in RowState
  BY DEF RowState
<1>2. CASE CreatesProvider(w)
  <2>1. PICK r \in Providers, selected \in SUBSET Open : w = ProviderRequest(r, Set({r}, "active"), selected)
    BY <1>2 DEF CreatesProvider
  <2>2. Set({r}, "active") \in Rows(Providers) /\ selected \in SUBSET Programs
    BY <1>1, SetType DEF Open
  <2> QED
    BY <2>1, <2>2
<1>3. CASE EditsProvider(w)
  <2>1. PICK r \in Providers, selected \in SUBSET Open : w = ProviderRequest(r, Set({r}, provider[r]), selected)
    BY <1>3 DEF EditsProvider
  <2>2. provider[r] \in RowState
    BY DEF TypeOK
  <2>3. Set({r}, provider[r]) \in Rows(Providers) /\ selected \in SUBSET Programs
    BY <2>2, SetType DEF Open
  <2> QED
    BY <2>1, <2>3
<1>4. CASE DeletesProvider(w)
  <2>1. PICK r \in Providers : w = ProviderRequest(r, Changed(provider, {r}, "inactive"), {})
    BY <1>4 DEF DeletesProvider
  <2>2. Changed(provider, {r}, "inactive") \in Rows(Providers) /\ {} \in SUBSET Programs
    BY <1>1, ChangedType
  <2> QED
    BY <2>1, <2>2
<1> QED
  BY <1>2, <1>3, <1>4

\* Every request that can be asked for is one, and keeps to its rows.
LEMMA AdministratorRequest ==
  ASSUME TypeOK, NEW w, AskedByAdministrator(w)
  PROVE  w \in Request /\ w.assignments = {}
<1>1. "active" \in RowState /\ "inactive" \in RowState
  BY DEF RowState
<1>2. \A r \in Providers, row \in Rows(Providers), selected \in SUBSET Programs :
        w = ProviderRequest(r, row, selected) => w \in Request /\ w.assignments = {}
  BY ProviderRequestRows
<1>3. \A p \in Programs, row \in Rows(Programs), T \in SUBSET Offering,
        state \in {"active", "inactive"}, read \in Reading :
          w = ProgramRequest(row, Changed(offering, T, state), read) =>
            w \in Request /\ w.assignments = {}
  BY ProgramRows
<1>4. CASE CreatesProvider(w) \/ EditsProvider(w) \/ DeletesProvider(w)
  BY <1>2, <1>4, ProviderAsked
<1>5. CASE CreatesProgram(w)
  <2>1. PICK p \in Programs, rs \in SUBSET Listed :
          w = ProgramRequest(Set({p}, "active"), Changed(offering, By(p, rs), "active"),
                             ProgramRead(p, rs, By(p, rs), {}))
    BY <1>5 DEF CreatesProgram
  <2>2. Set({p}, "active") \in Rows(Programs) /\ By(p, rs) \in SUBSET Offering
    BY <1>1, SetType DEF By
  <2>3. ProgramRead(p, rs, By(p, rs), {}) \in Reading
    BY <2>2, ProgramReading DEF Listed
  <2> QED
    BY <1>3, <2>1, <2>2, <2>3
<1>6. CASE EditsProgram(w)
  <2>1. PICK p \in Programs, rs \in SUBSET Listed :
          w = EditRequest(p, rs)
    BY <1>6 DEF EditsProgram
  <2>2. rs \in SUBSET Providers
    BY DEF Listed
  <2> QED
    BY <2>1, <2>2, EditProgramRows
<1>7. CASE DeletesProgram(w)
  <2>1. PICK p \in Programs :
          w = ProgramRequest(Changed(program, {p}, "inactive"), Changed(offering, Of(p), "inactive"),
                             ProgramRead(p, {}, Of(p), Of(p)))
    BY <1>7 DEF DeletesProgram
  <2>2. Changed(program, {p}, "inactive") \in Rows(Programs) /\ Of(p) \in SUBSET Offering
    BY <1>1, ChangedType DEF Of
  <2>3. ProgramRead(p, {}, Of(p), Of(p)) \in Reading
    BY <2>2, ProgramReading
  <2> QED
    BY <1>3, <2>1, <2>2, <2>3
<1> QED
  BY <1>4, <1>5, <1>6, <1>7 DEF AskedByAdministrator

LEMMA SchedulerRequest ==
  ASSUME TypeOK, NEW w, AskedByScheduler(w)
  PROVE  /\ w \in Request /\ LeavesCatalog(w)
         /\ \A a \in w.assignments, b \in w.assignments : a = b
<1>1. \E a \in Assignment, T \in SUBSET Offering : w = AssignmentRequest(a, T)
  <2>1. CASE Schedules(w)
    BY <2>1 DEF Schedules, Assignment
  <2>2. CASE EditsAssignment(w)
    BY <2>2 DEF EditsAssignment, TypeOK
  <2>3. CASE CancelsAssignment(w)
    <3>1. PICK a \in assignments : w = AssignmentRequest([a EXCEPT !.isActive = FALSE], {})
      BY <2>3 DEF CancelsAssignment
    <3>2. [a EXCEPT !.isActive = FALSE] \in Assignment
      BY DEF TypeOK, Assignment
    <3> QED
      BY <3>1, <3>2
  <2> QED
    BY <2>1, <2>2, <2>3 DEF AskedByScheduler
<1> QED
  BY <1>1, AssignmentRows

LEMMA AskedRequest ==
  ASSUME TypeOK, NEW s \in Sessions, NEW w, Asked(s, w)
  PROVE  w \in Request /\ KeepsToItsRows(s, w)
<1>1. CASE s \in Administrators /\ AskedByAdministrator(w)
  BY <1>1, AdministratorRequest DEF KeepsToItsRows
<1>2. CASE s \in Schedulers /\ AskedByScheduler(w)
  BY <1>2, SchedulerRequest DEF KeepsToItsRows
<1> QED
  BY <1>1, <1>2 DEF Asked

\* The load steps load what is asked for.
LEMMA AdministratorLoadsAsked ==
  ASSUME NEW s \in Administrators, AdministratorLoads(s)
  PROVE  \E w : Asked(s, w) /\ Loaded(s, w)
<1>1. SUFFICES \E w : AskedByAdministrator(w) /\ Loaded(s, w)
  BY DEF Asked
<1>2. CASE \E r \in Providers, selected \in SUBSET Open : LoadCreateProvider(s, r, selected)
  <2>1. \E w : CreatesProvider(w) /\ Loaded(s, w)
    BY <1>2 DEF LoadCreateProvider, CreatesProvider
  <2> QED
    BY <2>1 DEF AskedByAdministrator
<1>3. CASE \E r \in Providers, selected \in SUBSET Open : LoadEditProvider(s, r, selected)
  <2>1. \E w : EditsProvider(w) /\ Loaded(s, w)
    BY <1>3 DEF LoadEditProvider, EditsProvider
  <2> QED
    BY <2>1 DEF AskedByAdministrator
<1>4. CASE \E r \in Providers : LoadDeleteProvider(s, r)
  <2>1. \E w : DeletesProvider(w) /\ Loaded(s, w)
    BY <1>4 DEF LoadDeleteProvider, DeletesProvider
  <2> QED
    BY <2>1 DEF AskedByAdministrator
<1>5. CASE \E p \in Programs, rs \in (SUBSET Listed) \ {{}} : LoadCreateProgram(s, p, rs)
  <2>1. PICK p \in Programs, rs \in (SUBSET Listed) \ {{}} : LoadCreateProgram(s, p, rs)
    BY <1>5
  <2> DEFINE w == ProgramRequest(Set({p}, "active"), Changed(offering, By(p, rs), "active"),
                                 ProgramRead(p, rs, By(p, rs), {}))
  <2>2. /\ program[p] = "inactive" /\ Changed(offering, By(p, rs), "active") # NoRows
        /\ Loaded(s, w)
    BY <2>1 DEF LoadCreateProgram, By, ProgramRequest
  <2>3. CreatesProgram(w)
    BY <2>2 DEF CreatesProgram
  <2> QED
    BY <2>2, <2>3 DEF AskedByAdministrator
<1>6. CASE \E p \in Programs, rs \in (SUBSET Listed) \ {{}} : LoadEditProgram(s, p, rs)
  <2>1. PICK p \in Programs, rs \in (SUBSET Listed) \ {{}} : LoadEditProgram(s, p, rs)
    BY <1>6
  <2> DEFINE current == {o \in Offering : o.program = p}
             selected == {o \in current : o.provider \in rs}
             w == ProgramRequest(Set({p}, program[p]),
                                 Over(Changed(offering, By(p, rs), "active"),
                                      Set(Of(p) \ By(p, rs), "inactive")),
                                 ProgramRead(p, rs, By(p, rs), Of(p) \ By(p, rs)))
  <2>2. /\ program[p] = "active" /\ \A o \in current \ selected : ~InUse(o)
        /\ Loaded(s, ProgramRequest(Set({p}, program[p]),
                                    Over(Changed(offering, selected, "active"),
                                         Set(current \ selected, "inactive")),
                                    ProgramRead(p, rs, selected, current \ selected)))
    BY <2>1 DEF LoadEditProgram, ProgramRequest
  <2>3. current = Of(p) /\ selected = By(p, rs)
    BY DEF Of, By
  <2> HIDE DEF current, selected
  <2>4. /\ program[p] = "active" /\ \A o \in Of(p) \ By(p, rs) : ~InUse(o)
        /\ Loaded(s, w)
    BY <2>2, <2>3
  <2>5. EditsProgram(w)
    BY <2>4 DEF EditsProgram, EditRequest
  <2> QED
    BY <2>4, <2>5 DEF AskedByAdministrator
<1>7. CASE \E p \in Programs : LoadDeleteProgram(s, p)
  <2>1. \E w : DeletesProgram(w) /\ Loaded(s, w)
    BY <1>7 DEF LoadDeleteProgram, DeletesProgram, Of, ProgramRequest
  <2> QED
    BY <2>1 DEF AskedByAdministrator
<1> QED
  BY <1>2, <1>3, <1>4, <1>5, <1>6, <1>7 DEF AdministratorLoads, Open, Listed

LEMMA SchedulerLoadsAsked ==
  ASSUME NEW s \in Schedulers, SchedulerLoads(s)
  PROVE  \E w : Asked(s, w) /\ Loaded(s, w)
<1>1. SUFFICES \E w : AskedByScheduler(w) /\ Loaded(s, w)
  BY DEF Asked
<1>2. CASE \E o \in Offering, i \in AssignmentIds : LoadSchedule(s, o, i)
  <2>1. \E w : Schedules(w) /\ Loaded(s, w)
    BY <1>2 DEF LoadSchedule, Schedules, Reserved
  <2> QED
    BY <2>1 DEF AskedByScheduler
<1>3. CASE \E a \in assignments : LoadEditAssignment(s, a)
  <2>1. \E w : EditsAssignment(w) /\ Loaded(s, w)
    BY <1>3 DEF LoadEditAssignment, EditsAssignment
  <2> QED
    BY <2>1 DEF AskedByScheduler
<1>4. CASE \E a \in assignments : LoadDeleteAssignment(s, a)
  <2>1. \E w : CancelsAssignment(w) /\ Loaded(s, w)
    BY <1>4 DEF LoadDeleteAssignment, CancelsAssignment
  <2> QED
    BY <2>1 DEF AskedByScheduler
<1> QED
  BY <1>2, <1>3, <1>4 DEF SchedulerLoads

\* What can be asked for depends on the tables alone.
LEMMA AskedByTables ==
  ASSUME UNCHANGED tables, NEW s, NEW w
  PROVE  Asked(s, w)' <=> Asked(s, w)
  BY DEF tables, Asked, AskedByAdministrator, AskedByScheduler, CreatesProvider, EditsProvider,
         DeletesProvider, CreatesProgram, EditsProgram, DeletesProgram, Schedules, EditsAssignment,
         CancelsAssignment, ProviderRequest, IdlePrograms, EditRequest, Open, Listed, InUse

\* What it means that everything the request w has read is as it was.
LEMMA SeenSame ==
  ASSUME NEW w, Seen(w)' = Seen(w)
  PROVE  /\ \A r \in w.read.providers : provider'[r] = provider[r]
         /\ \A p \in w.read.programs : program'[p] = program[p]
         /\ \A o \in w.read.offerings : offering'[o] = offering[o]
         /\ \A o \in w.read.uses : InUse(o)' <=> InUse(o)
         /\ w.read.idle => IdlePrograms(w.offering)' = IdlePrograms(w.offering)
         /\ \A a : a.id \in w.read.ids => (a \in assignments' <=> a \in assignments)
<1>1. /\ Seen(w).provider = [r \in w.read.providers |-> provider[r]]
      /\ Seen(w)'.provider = [r \in w.read.providers |-> provider'[r]]
  BY DEF Seen
<1>2. /\ Seen(w).program = [p \in w.read.programs |-> program[p]]
      /\ Seen(w)'.program = [p \in w.read.programs |-> program'[p]]
  BY DEF Seen
<1>3. /\ Seen(w).offering = [o \in w.read.offerings |-> offering[o]]
      /\ Seen(w)'.offering = [o \in w.read.offerings |-> offering'[o]]
  BY DEF Seen
<1>4. /\ Seen(w).inUse = {o \in w.read.uses : InUse(o)}
      /\ Seen(w)'.inUse = {o \in w.read.uses : InUse(o)'}
  BY DEF Seen
<1>5. /\ Seen(w).idle = IF w.read.idle THEN IdlePrograms(w.offering) ELSE {}
      /\ Seen(w)'.idle = IF w.read.idle THEN IdlePrograms(w.offering)' ELSE {}
  BY DEF Seen
<1>6. /\ Seen(w).assignments = {a \in assignments : a.id \in w.read.ids}
      /\ Seen(w)'.assignments = {a \in assignments' : a.id \in w.read.ids}
  BY DEF Seen
<1>7. \A r \in w.read.providers : provider'[r] = provider[r]
  BY <1>1
<1>8. \A p \in w.read.programs : program'[p] = program[p]
  BY <1>2
<1>9. \A o \in w.read.offerings : offering'[o] = offering[o]
  BY <1>3
<1>10. \A o \in w.read.uses : InUse(o)' <=> InUse(o)
  BY <1>4
<1>11. w.read.idle => IdlePrograms(w.offering)' = IdlePrograms(w.offering)
  BY <1>5
<1>12. \A a : a.id \in w.read.ids => (a \in assignments' <=> a \in assignments)
  BY <1>6
<1> QED
  BY <1>7, <1>8, <1>9, <1>10, <1>11, <1>12

\* Rows that are as they were are changed by the same changes.
LEMMA ChangedSame ==
  ASSUME NEW table, NEW other, NEW T, NEW state, \A x \in T : other[x] = table[x]
  PROVE  Changed(other, T, state) = Changed(table, T, state)
<1>1. {x \in T : other[x] # state} = {x \in T : table[x] # state}
  OBVIOUS
<1> QED
  BY <1>1 DEF Changed

\* UpdateProviderPrograms asks for the same again when its rows, its uses and
\* the idle programs are as they were.
LEMMA ProviderStillAsked ==
  ASSUME NEW r, NEW row, NEW selected, NEW w, w = ProviderRequest(r, row, selected),
         Seen(w)' = Seen(w)
  PROVE  /\ w = ProviderRequest(r, row, selected)'
         /\ provider'[r] = provider[r]
         /\ \A p \in selected : program'[p] = program[p]
         /\ (\A o \in Offering : o.provider = r /\ o.program \notin selected => ~InUse(o))
              => (\A o \in Offering : o.provider = r /\ o.program \notin selected => ~InUse(o))'
<1> DEFINE mine == {o \in Offering : o.provider = r}
           created == {o \in mine : o.program \in selected}
           change == Over(Changed(offering, created, "active"),
                          Changed(offering, mine \ created, "inactive"))
<1>1. PICK ch : ch = change
  OBVIOUS
<1>2. PICK idle : idle = IdlePrograms(ch)
  OBVIOUS
<1>3. w = [provider |-> row, program |-> Changed(program, idle, "inactive"), offering |-> ch,
           assignments |-> {},
           read |-> [providers |-> {r}, programs |-> selected \cup idle, offerings |-> mine,
                     uses |-> mine \ created, idle |-> TRUE, ids |-> {}]]
  BY <1>1, <1>2 DEF ProviderRequest
<1>4. /\ w.offering = ch /\ w.read.providers = {r} /\ w.read.programs = selected \cup idle
      /\ w.read.offerings = mine /\ w.read.uses = mine \ created /\ w.read.idle
  BY <1>3
<1>5. /\ provider'[r] = provider[r]
      /\ \A p \in selected \cup idle : program'[p] = program[p]
      /\ \A o \in mine : offering'[o] = offering[o]
      /\ \A o \in mine \ created : InUse(o)' <=> InUse(o)
      /\ IdlePrograms(ch)' = IdlePrograms(ch)
  BY <1>4, SeenSame
<1>6. Changed(offering', created, "active") = Changed(offering, created, "active")
  BY <1>5, ChangedSame
<1>7. Changed(offering', mine \ created, "inactive") = Changed(offering, mine \ created, "inactive")
  BY <1>5, ChangedSame
<1>8. change' = ch
  BY <1>1, <1>6, <1>7
<1>9. IdlePrograms(change)' = idle
  BY <1>2, <1>5, <1>8 DEF IdlePrograms
<1>10. Changed(program', idle, "inactive") = Changed(program, idle, "inactive")
  BY <1>5, ChangedSame
<1>11. ProviderRequest(r, row, selected)' =
         [provider |-> row, program |-> Changed(program', idle, "inactive"), offering |-> ch,
          assignments |-> {},
          read |-> [providers |-> {r}, programs |-> selected \cup idle, offerings |-> mine,
                    uses |-> mine \ created, idle |-> TRUE, ids |-> {}]]
  BY <1>8, <1>9 DEF ProviderRequest
<1> QED
  BY <1>3, <1>5, <1>10, <1>11

LEMMA CreatesProviderStill ==
  ASSUME NEW w, CreatesProvider(w), Seen(w)' = Seen(w)
  PROVE  CreatesProvider(w)'
<1>1. PICK r \in Providers, selected \in SUBSET Open :
        /\ provider[r] = "inactive"
        /\ \A o \in Offering : o.provider = r /\ o.program \notin selected => ~InUse(o)
        /\ w = ProviderRequest(r, Set({r}, "active"), selected)
  BY DEF CreatesProvider
<1>2. /\ w = ProviderRequest(r, Set({r}, "active"), selected)'
      /\ provider'[r] = provider[r]
      /\ \A p \in selected : program'[p] = program[p]
      /\ (\A o \in Offering : o.provider = r /\ o.program \notin selected => ~InUse(o))'
  BY <1>1, ProviderStillAsked
<1>3. selected \in SUBSET Open'
  BY <1>2 DEF Open
<1> QED
  BY <1>1, <1>2, <1>3 DEF CreatesProvider

LEMMA EditsProviderStill ==
  ASSUME NEW w, EditsProvider(w), Seen(w)' = Seen(w)
  PROVE  EditsProvider(w)'
<1>1. PICK r \in Providers, selected \in SUBSET Open :
        /\ provider[r] = "active"
        /\ \A o \in Offering : o.provider = r /\ o.program \notin selected => ~InUse(o)
        /\ w = ProviderRequest(r, Set({r}, provider[r]), selected)
  BY DEF EditsProvider
<1>2. w = ProviderRequest(r, Set({r}, "active"), selected)
  BY <1>1
<1>3. /\ w = ProviderRequest(r, Set({r}, "active"), selected)'
      /\ provider'[r] = provider[r]
      /\ \A p \in selected : program'[p] = program[p]
      /\ (\A o \in Offering : o.provider = r /\ o.program \notin selected => ~InUse(o))'
  BY <1>1, <1>2, ProviderStillAsked
<1>4. selected \in SUBSET Open' /\ provider'[r] = "active"
  BY <1>1, <1>3 DEF Open
<1>5. w = ProviderRequest(r, Set({r}, provider[r]), selected)'
  BY <1>3, <1>4 DEF ProviderRequest, IdlePrograms
<1> QED
  BY <1>3, <1>4, <1>5 DEF EditsProvider

LEMMA DeletesProviderStill ==
  ASSUME NEW w, DeletesProvider(w), Seen(w)' = Seen(w)
  PROVE  DeletesProvider(w)'
<1>1. PICK r \in Providers :
        /\ \A o \in Offering : o.provider = r => ~InUse(o)
        /\ w = ProviderRequest(r, Changed(provider, {r}, "inactive"), {})
  BY DEF DeletesProvider
<1>2. PICK row : row = Changed(provider, {r}, "inactive")
  OBVIOUS
<1>3. w = ProviderRequest(r, row, {})
  BY <1>1, <1>2
<1>4. /\ w = ProviderRequest(r, row, {})'
      /\ provider'[r] = provider[r]
      /\ (\A o \in Offering : o.provider = r /\ o.program \notin {} => ~InUse(o))'
  BY <1>1, <1>3, ProviderStillAsked
<1>5. Changed(provider', {r}, "inactive") = row
  BY <1>2, <1>4, ChangedSame
<1>6. w = ProviderRequest(r, Changed(provider, {r}, "inactive"), {})'
  BY <1>4, <1>5 DEF ProviderRequest, IdlePrograms
<1> QED
  BY <1>4, <1>6 DEF DeletesProvider

\* A request about a program.
LEMMA ProgramSeenSame ==
  ASSUME NEW p, NEW rs, NEW S, NEW T, NEW row, NEW change,
         NEW w, w = ProgramRequest(row, change, ProgramRead(p, rs, S, T)), Seen(w)' = Seen(w)
  PROVE  /\ program'[p] = program[p]
         /\ \A r \in rs : provider'[r] = provider[r]
         /\ \A o \in S : offering'[o] = offering[o]
         /\ \A o \in T : InUse(o)' <=> InUse(o)
<1>1. /\ w.read.providers = rs /\ w.read.programs = {p} /\ w.read.offerings = S
      /\ w.read.uses = T
  BY DEF ProgramRequest, ProgramRead
<1> QED
  BY <1>1, SeenSame

LEMMA CreatesProgramStill ==
  ASSUME NEW w, CreatesProgram(w), Seen(w)' = Seen(w)
  PROVE  CreatesProgram(w)'
<1>1. PICK p \in Programs, rs \in SUBSET Listed :
        /\ rs # {} /\ program[p] = "inactive"
        /\ Changed(offering, By(p, rs), "active") # NoRows
        /\ w = ProgramRequest(Set({p}, "active"), Changed(offering, By(p, rs), "active"),
                              ProgramRead(p, rs, By(p, rs), {}))
  BY DEF CreatesProgram
<1>2. PICK change : change = Changed(offering, By(p, rs), "active")
  OBVIOUS
<1>3. w = ProgramRequest(Set({p}, "active"), change, ProgramRead(p, rs, By(p, rs), {}))
  BY <1>1, <1>2
<1>4. /\ program'[p] = program[p]
      /\ \A r \in rs : provider'[r] = provider[r]
      /\ \A o \in By(p, rs) : offering'[o] = offering[o]
  BY <1>3, ProgramSeenSame
<1>5. Changed(offering', By(p, rs), "active") = change
  BY <1>2, <1>4, ChangedSame
<1>6. rs \in SUBSET Listed'
  BY <1>4 DEF Listed
<1> QED
  BY <1>1, <1>2, <1>3, <1>4, <1>5, <1>6 DEF CreatesProgram

LEMMA EditsProgramStill ==
  ASSUME NEW w, EditsProgram(w), Seen(w)' = Seen(w)
  PROVE  EditsProgram(w)'
<1>1. PICK p \in Programs, rs \in SUBSET Listed :
        /\ rs # {} /\ program[p] = "active"
        /\ \A o \in Of(p) \ By(p, rs) : ~InUse(o)
        /\ w = EditRequest(p, rs)
  BY DEF EditsProgram
<1>2. PICK change : change = Over(Changed(offering, By(p, rs), "active"),
                                  Set(Of(p) \ By(p, rs), "inactive"))
  OBVIOUS
<1>3. w = ProgramRequest(Set({p}, "active"), change,
                         ProgramRead(p, rs, By(p, rs), Of(p) \ By(p, rs)))
  BY <1>1, <1>2 DEF EditRequest
<1>4. /\ program'[p] = program[p]
      /\ \A r \in rs : provider'[r] = provider[r]
      /\ \A o \in By(p, rs) : offering'[o] = offering[o]
      /\ \A o \in Of(p) \ By(p, rs) : InUse(o)' <=> InUse(o)
  BY <1>3, ProgramSeenSame
<1>5. Changed(offering', By(p, rs), "active") = Changed(offering, By(p, rs), "active")
  BY <1>4, ChangedSame
<1>6. rs \in SUBSET Listed'
  BY <1>4 DEF Listed
<1>7. EditRequest(p, rs)' = w
  BY <1>1, <1>2, <1>3, <1>4, <1>5 DEF EditRequest
<1> QED
  BY <1>1, <1>4, <1>6, <1>7 DEF EditsProgram

LEMMA DeletesProgramStill ==
  ASSUME NEW w, DeletesProgram(w), Seen(w)' = Seen(w)
  PROVE  DeletesProgram(w)'
<1>1. PICK p \in Programs :
        /\ \A o \in Of(p) : ~InUse(o)
        /\ w = ProgramRequest(Changed(program, {p}, "inactive"), Changed(offering, Of(p), "inactive"),
                              ProgramRead(p, {}, Of(p), Of(p)))
  BY DEF DeletesProgram
<1>2. PICK row, change : /\ row = Changed(program, {p}, "inactive")
                         /\ change = Changed(offering, Of(p), "inactive")
  OBVIOUS
<1>3. w = ProgramRequest(row, change, ProgramRead(p, {}, Of(p), Of(p)))
  BY <1>1, <1>2
<1>4. /\ program'[p] = program[p]
      /\ \A o \in Of(p) : offering'[o] = offering[o]
      /\ \A o \in Of(p) : InUse(o)' <=> InUse(o)
  BY <1>3, ProgramSeenSame
<1>5. Changed(program', {p}, "inactive") = row
  BY <1>2, <1>4, ChangedSame
<1>6. Changed(offering', Of(p), "inactive") = change
  BY <1>2, <1>4, ChangedSame
<1> QED
  BY <1>1, <1>3, <1>4, <1>5, <1>6 DEF DeletesProgram

\* A request about an assignment has read the row with its id.
LEMMA SchedulerStillAsked ==
  ASSUME TypeOK, NEW w, AskedByScheduler(w), Seen(w)' = Seen(w)
  PROVE  AskedByScheduler(w)'
<1>1. ASSUME NEW a, NEW T, w = AssignmentRequest(a, T)
      PROVE  /\ \A o \in T : offering'[o] = offering[o]
             /\ \A b : b.id = a.id => (b \in assignments' <=> b \in assignments)
  <2>1. w.read.offerings = T /\ w.read.ids = {a.id}
    BY <1>1 DEF AssignmentRequest
  <2> QED
    BY <2>1, SeenSame
<1>2. CASE Schedules(w)
  <2>1. PICK o \in Offering, i \in AssignmentIds :
          /\ offering[o] = "active"
          /\ \A a \in assignments : a.id # i
          /\ w = AssignmentRequest([id |-> i, offering |-> o, isActive |-> TRUE], {o})
    BY <1>2 DEF Schedules
  <2>2. PICK a : a = [id |-> i, offering |-> o, isActive |-> TRUE]
    OBVIOUS
  <2>3. a.id = i /\ w = AssignmentRequest(a, {o})
    BY <2>1, <2>2
  <2>4. /\ offering'[o] = offering[o]
        /\ \A b : b.id = i => (b \in assignments' <=> b \in assignments)
    BY <1>1, <2>3
  <2>5. Schedules(w)'
    BY <2>1, <2>4 DEF Schedules
  <2> QED
    BY <2>5 DEF AskedByScheduler
<1>3. CASE EditsAssignment(w)
  <2>1. PICK a \in assignments : a.isActive /\ w = AssignmentRequest(a, {})
    BY <1>3 DEF EditsAssignment
  <2>2. a \in assignments'
    BY <1>1, <2>1
  <2>3. EditsAssignment(w)'
    BY <2>1, <2>2 DEF EditsAssignment
  <2> QED
    BY <2>3 DEF AskedByScheduler
<1>4. CASE CancelsAssignment(w)
  <2>1. PICK a \in assignments : a.isActive /\ w = AssignmentRequest([a EXCEPT !.isActive = FALSE], {})
    BY <1>4 DEF CancelsAssignment
  <2>2. PICK b : b = [a EXCEPT !.isActive = FALSE]
    OBVIOUS
  <2>3. w = AssignmentRequest(b, {}) /\ b.id = a.id
    BY <2>1, <2>2 DEF TypeOK, Assignment
  <2>4. a \in assignments'
    BY <1>1, <2>1, <2>3
  <2>5. CancelsAssignment(w)'
    BY <2>1, <2>4 DEF CancelsAssignment
  <2> QED
    BY <2>5 DEF AskedByScheduler
<1> QED
  BY <1>2, <1>3, <1>4 DEF AskedByScheduler

\* What a session would load now it would still load after a step that leaves
\* what the request reads as it is.
LEMMA StillAsked ==
  ASSUME TypeOK, NEW s, NEW w, Asked(s, w), Seen(w)' = Seen(w)
  PROVE  Asked(s, w)'
<1>1. CASE s \in Administrators /\ AskedByAdministrator(w)
  <2>1. AskedByAdministrator(w)'
    BY <1>1, CreatesProviderStill, EditsProviderStill, DeletesProviderStill, CreatesProgramStill,
       EditsProgramStill, DeletesProgramStill DEF AskedByAdministrator
  <2> QED
    BY <1>1, <2>1 DEF Asked
<1>2. CASE s \in Schedulers /\ AskedByScheduler(w)
  <2>1. AskedByScheduler(w)'
    BY <1>2, SchedulerStillAsked
  <2> QED
    BY <1>2, <2>1 DEF Asked
<1> QED
  BY <1>1, <1>2 DEF Asked

-----------------------------------------------------------------------------
LEMMA InitEstablishesInv == Init => Inv
<1> SUFFICES ASSUME Init PROVE Inv
  OBVIOUS
<1>1. "active" \in RowState /\ "inactive" \in RowState
  BY DEF RowState
<1>2. \A s \in Sessions : ~InFlight(s)
  BY DEF Init, InFlight
<1>3. TypeOK
  BY <1>1 DEF Init, TypeOK
<1> QED
  BY <1>2, <1>3 DEF Inv, UpToDate

\* A session that loads gets what it asks for, and the others keep theirs.
LEMMA LoadKeepsInv ==
  ASSUME Inv, NEW s \in Sessions, NEW w, Asked(s, w), Loaded(s, w)
  PROVE  Inv'
<1>1. TypeOK /\ request \in [Sessions -> Request \cup {NoRequest}]
  BY DEF Inv, TypeOK
<1>2. w \in Request /\ KeepsToItsRows(s, w)
  BY <1>1, AskedRequest
<1>3. UNCHANGED tables /\ UNCHANGED disturbed /\ request[s] = NoRequest
  BY DEF Loaded
<1>4. /\ \A t \in Sessions : request'[t] = IF t = s THEN w ELSE request[t]
      /\ request' \in [Sessions -> Request \cup {NoRequest}]
  BY <1>1, <1>2 DEF Loaded
<1>5. TypeOK'
  BY <1>1, <1>3, <1>4 DEF TypeOK, tables
<1>6. \A t \in Sessions : InFlight(t)' => KeepsToItsRows(t, request'[t])
  BY <1>2, <1>4 DEF Inv, InFlight
<1>7. UpToDate'
  <2> SUFFICES ASSUME NEW t \in Sessions, InFlight(t)', t \notin disturbed'
               PROVE  Asked(t, request[t])'
    BY DEF UpToDate
  <2> DEFINE v == IF t = s THEN w ELSE request[t]
  <2>1. Asked(t, v)
    BY <1>3, <1>4 DEF Inv, UpToDate, InFlight
  <2> HIDE DEF v
  <2>2. \A x : Asked(t, x)' <=> Asked(t, x)
    BY <1>3, AskedByTables
  <2>3. request'[t] = v
    BY <1>4 DEF v
  <2> QED
    BY <2>1, <2>2, <2>3
<1> QED
  BY <1>5, <1>6, <1>7 DEF Inv, KeepsToItsRows, LeavesCatalog

\* A request written over well-typed tables leaves them well-typed: it writes
\* one assignment at most, in place of the row with its id.
LEMMA WriteType ==
  ASSUME TypeOK, NEW w \in Request, Write(w),
         \A a \in w.assignments, b \in w.assignments : a = b
  PROVE  /\ provider' \in [Providers -> RowState]
         /\ program' \in [Programs -> RowState]
         /\ offering' \in [Offering -> RowState]
         /\ assignments' \subseteq Assignment
         /\ \A a \in assignments', b \in assignments' : a.id = b.id => a = b
<1>1. /\ w.provider \in Rows(Providers) /\ w.program \in Rows(Programs)
      /\ w.offering \in Rows(Offering) /\ w.assignments \in SUBSET Assignment
  BY DEF Request
<1>2. /\ provider \in [Providers -> RowState] /\ program \in [Programs -> RowState]
      /\ offering \in [Offering -> RowState]
  BY DEF TypeOK
<1>3. provider' \in [Providers -> RowState]
  BY <1>1, <1>2, OverTable DEF Write
<1>4. program' \in [Programs -> RowState]
  BY <1>1, <1>2, OverTable DEF Write
<1>5. offering' \in [Offering -> RowState]
  BY <1>1, <1>2, OverTable DEF Write
<1>6. assignments' = {a \in assignments : \A b \in w.assignments : b.id # a.id} \cup w.assignments
  BY DEF Write
<1>7. assignments' \subseteq Assignment
  BY <1>1, <1>6 DEF TypeOK
<1>8. \A a \in assignments', b \in assignments' : a.id = b.id => a = b
  BY <1>6 DEF TypeOK
<1> QED
  BY <1>3, <1>4, <1>5, <1>7, <1>8

LEMMA SaveKeepsInv ==
  ASSUME Inv, NEW s \in Sessions, Save(s)
  PROVE  Inv'
<1> DEFINE w == request[s]
<1>1. TypeOK /\ request \in [Sessions -> Request \cup {NoRequest}]
  BY DEF Inv, TypeOK
<1>2. w \in Request /\ KeepsToItsRows(s, w) /\ Write(w)
  BY <1>1 DEF Inv, InFlight, Save
<1>3. /\ \A t \in Sessions : request'[t] = IF t = s THEN NoRequest ELSE request[t]
      /\ request' \in [Sessions -> Request \cup {NoRequest}]
  BY <1>1 DEF Save, Idle
<1>4. disturbed' = {t \in Sessions \ {s} : t \in disturbed \/ Disturbs(t)}
  BY DEF Save
<1>5. TypeOK'
  <2>1. disturbed' \subseteq {t \in Sessions : request'[t] # NoRequest}
    BY <1>1, <1>3, <1>4 DEF TypeOK, Disturbs
  <2> QED
    BY <1>1, <1>2, <1>3, <2>1, WriteType DEF TypeOK, KeepsToItsRows
<1>6. \A t \in Sessions : InFlight(t)' => KeepsToItsRows(t, request'[t])
  BY <1>3 DEF Inv, InFlight
<1>7. UpToDate'
  <2> SUFFICES ASSUME NEW t \in Sessions, InFlight(t)', t \notin disturbed'
               PROVE  Asked(t, request[t])'
    BY DEF UpToDate
  <2>1. PICK v : v = request[t]
    OBVIOUS
  <2>2. t # s /\ request'[t] = v /\ v # NoRequest
    BY <1>3, <2>1 DEF InFlight
  <2>3. t \notin disturbed /\ Seen(v)' = Seen(v)
    <3>1. t \notin disturbed /\ ~Disturbs(t)
      BY <1>4, <2>2
    <3>2. Seen(request[t]) = Seen(v)
      BY <2>1
    <3>3. Seen(request[t])' = Seen(v)'
      BY <2>2 DEF Seen, IdlePrograms
    <3> QED
      BY <2>1, <2>2, <3>1, <3>2, <3>3 DEF Disturbs
  <2>4. Asked(t, v)
    BY <2>1, <2>2, <2>3 DEF Inv, UpToDate, InFlight
  <2>5. Asked(t, v)'
    BY <1>1, <2>3, <2>4, StillAsked
  <2>6. Asked(t, request[t])' <=> Asked(t, v)'
    BY <2>2 DEF Asked, AskedByAdministrator, AskedByScheduler, CreatesProvider, EditsProvider,
         DeletesProvider, CreatesProgram, EditsProgram, DeletesProgram, Schedules, EditsAssignment,
         CancelsAssignment
  <2> QED
    BY <2>5, <2>6
<1> QED
  BY <1>5, <1>6, <1>7 DEF Inv, KeepsToItsRows, LeavesCatalog

LEMMA AbandonKeepsInv ==
  ASSUME Inv, NEW s \in Sessions, Abandon(s)
  PROVE  Inv'
<1>1. TypeOK /\ request \in [Sessions -> Request \cup {NoRequest}]
  BY DEF Inv, TypeOK
<1>2. /\ \A t \in Sessions : request'[t] = IF t = s THEN NoRequest ELSE request[t]
      /\ request' \in [Sessions -> Request \cup {NoRequest}]
  BY <1>1 DEF Abandon, Idle
<1>3. UNCHANGED tables /\ disturbed' = disturbed \ {s}
  BY DEF Abandon
<1>4. TypeOK'
  BY <1>1, <1>2, <1>3 DEF TypeOK, tables
<1>5. \A t \in Sessions : InFlight(t)' => KeepsToItsRows(t, request'[t])
  BY <1>2 DEF Inv, InFlight
<1>6. UpToDate'
  <2> SUFFICES ASSUME NEW t \in Sessions, InFlight(t)', t \notin disturbed'
               PROVE  Asked(t, request[t])'
    BY DEF UpToDate
  <2>1. t # s /\ request'[t] = request[t] /\ Asked(t, request[t])
    BY <1>2, <1>3 DEF Inv, UpToDate, InFlight
  <2>2. \A x : Asked(t, x)' <=> Asked(t, x)
    BY <1>3, AskedByTables
  <2> QED
    BY <2>1, <2>2
<1> QED
  BY <1>4, <1>5, <1>6 DEF Inv, KeepsToItsRows, LeavesCatalog

LEMMA StutterKeepsInv ==
  ASSUME Inv, UNCHANGED vars
  PROVE  Inv'
<1>1. UNCHANGED tables /\ UNCHANGED request /\ UNCHANGED disturbed
  BY DEF vars
<1>2. TypeOK'
  BY <1>1 DEF Inv, TypeOK, tables
<1>3. \A t, x : Asked(t, x)' <=> Asked(t, x)
  BY <1>1, AskedByTables
<1>4. UpToDate'
  BY <1>1, <1>3 DEF Inv, UpToDate, InFlight
<1> QED
  BY <1>1, <1>2, <1>4 DEF Inv, InFlight, KeepsToItsRows, LeavesCatalog

\* A step of Next is a load of something asked for, a save or an abandoned
\* request.
LEMMA Steps ==
  ASSUME Next
  PROVE  \E s \in Sessions : Save(s) \/ Abandon(s) \/ \E w : Asked(s, w) /\ Loaded(s, w)
<1>1. CASE \E s \in Administrators : AdministratorLoads(s)
  BY <1>1, AdministratorLoadsAsked DEF Sessions
<1>2. CASE \E s \in Schedulers : SchedulerLoads(s)
  BY <1>2, SchedulerLoadsAsked DEF Sessions
<1> QED
  BY <1>1, <1>2 DEF Next

LEMMA NextKeepsInv == Inv /\ [Next]_vars => Inv'
<1> SUFFICES ASSUME Inv, [Next]_vars
             PROVE  Inv'
  OBVIOUS
<1>1. CASE Next
  BY <1>1, Steps, LoadKeepsInv, SaveKeepsInv, AbandonKeepsInv
<1> QED
  BY <1>1, StutterKeepsInv

LEMMA InvAlways == Spec => []Inv
  BY InitEstablishesInv, NextKeepsInv, PTL DEF Spec

\* Every variable has its type and an assignment has one row, however many
\* sessions overlap: two inserts never share an id, and Update replaces the row.
THEOREM TypeCorrect == Spec => []TypeOK
<1>1. Inv => TypeOK
  BY DEF Inv
<1> QED
  BY <1>1, InvAlways, PTL

-----------------------------------------------------------------------------
LEMMA OverNothing ==
  ASSUME NEW S, NEW table \in [S -> RowState]
  PROVE  Over(NoRows, table) = table
<1>1. NoRows \in Rows(S)
  BY NoRowsType
<1> QED
  BY <1>1, OverTable, NoRowsRows

\* ServiceCatalog's offerings are those of here with their one type.
TypedOfferings == [provider : Providers, type : {AnyType}, program : Programs]

LEMMA TypedOffering ==
  /\ \A o \in Offering : /\ Typed(o) \in TypedOfferings /\ Untyped(Typed(o)) = o
                         /\ Typed(o).provider = o.provider /\ Typed(o).program = o.program
  /\ \A c \in TypedOfferings : /\ Untyped(c) \in Offering /\ Typed(Untyped(c)) = c
                               /\ Untyped(c).provider = c.provider
                               /\ Untyped(c).program = c.program
                               /\ c.type = AnyType
                               /\ c.provider \in Providers /\ c.program \in Programs
  BY DEF Typed, Untyped, TypedOfferings, Offering

LEMMA CatalogReads ==
  ASSUME TypeOK
  PROVE  /\ Catalog!Offering = TypedOfferings
         /\ Catalog!OfferingRows = TypedOfferings
         /\ \A c \in TypedOfferings : Catalog!InUse(c) <=> InUse(Untyped(c))
<1>1. Catalog!Offering = TypedOfferings
  BY DEF Catalog!Offering, TypedOfferings
<1>2. \A c \in TypedOfferings : offering[Untyped(c)] \in RowState
  BY TypedOffering DEF TypeOK
<1>3. Catalog!OfferingRows = TypedOfferings
  BY <1>2 DEF Catalog!OfferingRows, Catalog!Offering, TypedOfferings, RowState
<1>4. ASSUME NEW c \in TypedOfferings
      PROVE  Catalog!InUse(c) <=> InUse(Untyped(c))
  <2>1. \A a \in assignments : /\ a.offering \in Offering
                               /\ TypedAssignment(a).offering = Typed(a.offering)
                               /\ TypedAssignment(a).isActive = a.isActive
    BY DEF TypeOK, Assignment, TypedAssignment
  <2>2. \A o \in Offering : Typed(o) = c <=> o = Untyped(c)
    BY TypedOffering
  <2> QED
    BY <2>1, <2>2 DEF Catalog!InUse, InUse
<1> QED
  BY <1>1, <1>3, <1>4

LEMMA CatalogSets ==
  ASSUME NEW on, NEW off,
         \A c \in TypedOfferings : offering'[Untyped(c)] =
            IF c \in on THEN "active" ELSE IF c \in off THEN "inactive" ELSE offering[Untyped(c)]
  PROVE  Catalog!SetOfferings(on, off)
  BY DEF Catalog!SetOfferings, Catalog!Offering, TypedOfferings

LEMMA CatalogCloses ==
  ASSUME NEW candidates, Programs \subseteq candidates,
         program' \in [Programs -> RowState],
         \A p \in Programs : program'[p] =
            IF \A o \in Offering : o.program = p => offering'[o] # "active"
            THEN "inactive" ELSE program[p]
  PROVE  Catalog!DeactivatePrograms(candidates)
<1>1. \A p \in Programs : (\A o \in Offering : o.program = p => offering'[o] # "active")
                      <=> (\A c \in TypedOfferings : c.program = p => offering'[Untyped(c)] # "active")
  BY TypedOffering
<1> QED
  BY <1>1 DEF Catalog!DeactivatePrograms, Catalog!Offering, TypedOfferings

\* UpdateProviderPrograms does to the tables what ServiceCatalog says it does.
LEMMA CatalogUpdatesProvider ==
  ASSUME TypeOK, NEW r \in Providers, NEW selected \in SUBSET Programs,
         \A o \in Offering : o.provider = r /\ o.program \notin selected => ~InUse(o),
         \A o \in Offering : offering'[o] =
            IF o.provider # r THEN offering[o]
            ELSE IF o.program \in selected THEN "active" ELSE "inactive",
         program' \in [Programs -> RowState],
         \A p \in Programs : program'[p] =
            IF \A o \in Offering : o.program = p => offering'[o] # "active"
            THEN "inactive" ELSE program[p]
  PROVE  Catalog!UpdateProviderPrograms(r, selected)
<1> DEFINE mine == {o \in TypedOfferings : o.provider = r}
           created == {o \in mine : o.program \in selected /\ o.type \in Catalog!OfferedTypes(o.program)}
           rows == Catalog!OfferingRows \cap mine
           removed == {o \in rows : o.program \notin selected}
<1>1. Catalog!OfferingRows = TypedOfferings /\ Catalog!Offering = TypedOfferings
  BY CatalogReads
<1>2. \A o \in mine : o.type \in Catalog!OfferedTypes(o.program)
  BY <1>1 DEF Catalog!OfferedTypes
<1>3. /\ \A c \in TypedOfferings : c \in created <=> c.provider = r /\ c.program \in selected
      /\ \A c \in TypedOfferings : c \in removed <=> c.provider = r /\ c.program \notin selected
      /\ removed \subseteq TypedOfferings /\ rows = mine
  BY <1>1, <1>2
<1>4. \A c \in removed : ~Catalog!InUse(c)
  BY <1>3, CatalogReads, TypedOffering
<1>5. Catalog!SetOfferings(created, removed)
  <2> HIDE DEF created, removed
  <2>1. \A c \in TypedOfferings : offering'[Untyped(c)] =
          IF c \in created THEN "active" ELSE IF c \in removed THEN "inactive" ELSE offering[Untyped(c)]
    BY <1>3, TypedOffering
  <2> QED
    BY <2>1, CatalogSets
<1>6. Catalog!DeactivatePrograms({o.program : o \in rows \cup created})
  <2>1. \A p \in Programs : [provider |-> r, type |-> AnyType, program |-> p] \in mine
    BY DEF TypedOfferings
  <2>2. ASSUME NEW p \in Programs
        PROVE  \E o \in rows \cup created : o.program = p
    <3> DEFINE o == [provider |-> r, type |-> AnyType, program |-> p]
    <3>1. o \in rows /\ o.program = p
      BY <1>3, <2>1
    <3> QED
      BY <3>1
  <2>3. Programs \subseteq {o.program : o \in rows \cup created}
    BY <2>2
  <2> QED
    BY <2>3, CatalogCloses
<1>7. Catalog!UpdatePrograms(mine, created, selected)
  BY <1>4, <1>5, <1>6 DEF Catalog!UpdatePrograms
<1> QED
  BY <1>1, <1>7 DEF Catalog!UpdateProviderPrograms

\* What forms list there is listed here.
LEMMA CatalogLists ==
  ASSUME TypeOK
  PROVE  /\ Catalog!Listed(program) = Open /\ Catalog!Listed(provider) = Listed
         /\ Open \in SUBSET Programs /\ Listed \in SUBSET Providers
  BY DEF TypeOK, Catalog!Listed, Open, Listed

LEMMA ProviderSaved ==
  ASSUME TypeOK, NEW r \in Providers, NEW row \in Rows(Providers), NEW selected \in SUBSET Programs,
         \A o \in Offering : o.provider = r /\ o.program \notin selected => ~InUse(o),
         NEW w, w = ProviderRequest(r, row, selected), Write(w)
  PROVE  /\ Catalog!UpdateProviderPrograms(r, selected)
         /\ provider' \in [Providers -> RowState]
         /\ \A q \in Providers : provider'[q] = IF q \in DOMAIN row THEN row[q] ELSE provider[q]
         /\ assignments' = assignments
<1>1. /\ w \in Request /\ w.provider = row /\ w.assignments = {}
      /\ \A o \in Offering : Over(w.offering, offering)[o] =
           IF o.provider # r THEN offering[o]
           ELSE IF o.program \in selected THEN "active" ELSE "inactive"
      /\ \A p \in Programs : Over(w.program, program)[p] =
           IF \A o \in Offering : o.program = p => Over(w.offering, offering)[o] # "active"
           THEN "inactive" ELSE program[p]
  BY ProviderRequestRows
<1>2. /\ provider' = Over(row, provider)
      /\ program' = Over(w.program, program) /\ offering' = Over(w.offering, offering)
      /\ assignments' = {a \in assignments : \A b \in {} : b.id # a.id} \cup {}
  BY <1>1 DEF Write
<1>3. \A o \in Offering : offering'[o] =
         IF o.provider # r THEN offering[o]
         ELSE IF o.program \in selected THEN "active" ELSE "inactive"
  BY <1>1, <1>2
<1>4. \A p \in Programs : program'[p] =
         IF \A o \in Offering : o.program = p => offering'[o] # "active"
         THEN "inactive" ELSE program[p]
  BY <1>1, <1>2
<1>5. program' \in [Programs -> RowState]
  <2>1. w.program \in Rows(Programs)
    BY <1>1 DEF Request
  <2> QED
    BY <1>2, <2>1, OverTable DEF TypeOK
<1>6. Catalog!UpdateProviderPrograms(r, selected)
  BY <1>3, <1>4, <1>5, CatalogUpdatesProvider
<1>7. /\ provider' \in [Providers -> RowState]
      /\ \A q \in Providers : provider'[q] = IF q \in DOMAIN row THEN row[q] ELSE provider[q]
  BY <1>2, OverTable DEF TypeOK
<1>8. assignments' = assignments
  BY <1>2
<1> QED
  BY <1>6, <1>7, <1>8

LEMMA CreateProviderSaved ==
  ASSUME TypeOK, NEW w, CreatesProvider(w), Write(w)
  PROVE  Catalog!ProviderStep
<1>1. PICK r \in Providers, selected \in SUBSET Open :
        /\ provider[r] = "inactive"
        /\ \A o \in Offering : o.provider = r /\ o.program \notin selected => ~InUse(o)
        /\ w = ProviderRequest(r, Set({r}, "active"), selected)
  BY DEF CreatesProvider
<1> DEFINE row == Set({r}, "active")
<1>2. /\ row \in Rows(Providers) /\ \A q : q \in DOMAIN row <=> q = r
      /\ row[r] = "active" /\ selected \in SUBSET Programs
  BY SetRows, SetType, CatalogLists DEF RowState
<1> HIDE DEF row
<1>3. /\ Catalog!UpdateProviderPrograms(r, selected)
      /\ provider' \in [Providers -> RowState]
      /\ \A q \in Providers : provider'[q] = IF q \in DOMAIN row THEN row[q] ELSE provider[q]
      /\ assignments' = assignments
  <2>1. w = ProviderRequest(r, row, selected)
    BY <1>1 DEF row
  <2> QED
    BY <1>1, <1>2, <2>1, ProviderSaved
<1>4. provider' = [provider EXCEPT ![r] = "active"]
  BY <1>2, <1>3 DEF TypeOK
<1>5. Catalog!CreateProvider(r, selected)
  BY <1>1, <1>3, <1>4 DEF Catalog!CreateProvider
<1> QED
  BY <1>5, CatalogLists DEF Catalog!ProviderStep

LEMMA EditProviderSaved ==
  ASSUME TypeOK, NEW w, EditsProvider(w), Write(w)
  PROVE  Catalog!ProviderStep
<1>1. PICK r \in Providers, selected \in SUBSET Open :
        /\ provider[r] = "active"
        /\ \A o \in Offering : o.provider = r /\ o.program \notin selected => ~InUse(o)
        /\ w = ProviderRequest(r, Set({r}, provider[r]), selected)
  BY DEF EditsProvider
<1> DEFINE row == Set({r}, provider[r])
<1>2. /\ row \in Rows(Providers) /\ \A q : q \in DOMAIN row <=> q = r
      /\ row[r] = provider[r] /\ selected \in SUBSET Programs
  <2>1. provider[r] \in RowState
    BY DEF TypeOK
  <2> QED
    BY <2>1, SetRows, SetType, CatalogLists
<1> HIDE DEF row
<1>3. /\ Catalog!UpdateProviderPrograms(r, selected)
      /\ provider' \in [Providers -> RowState]
      /\ \A q \in Providers : provider'[q] = IF q \in DOMAIN row THEN row[q] ELSE provider[q]
      /\ assignments' = assignments
  <2>1. w = ProviderRequest(r, row, selected)
    BY <1>1 DEF row
  <2> QED
    BY <1>1, <1>2, <2>1, ProviderSaved
<1>4. provider' = provider
  BY <1>2, <1>3 DEF TypeOK
<1>5. Catalog!EditProvider(r, selected)
  BY <1>1, <1>3, <1>4 DEF Catalog!EditProvider
<1> QED
  BY <1>5, CatalogLists DEF Catalog!ProviderStep

LEMMA DeleteProviderSaved ==
  ASSUME TypeOK, NEW w, DeletesProvider(w), Write(w)
  PROVE  Catalog!ProviderStep
<1>1. PICK r \in Providers :
        /\ \A o \in Offering : o.provider = r => ~InUse(o)
        /\ w = ProviderRequest(r, Changed(provider, {r}, "inactive"), {})
  BY DEF DeletesProvider
<1> DEFINE row == Changed(provider, {r}, "inactive")
<1>2. /\ row \in Rows(Providers) /\ \A q : q \in DOMAIN row <=> q = r /\ provider[r] # "inactive"
      /\ provider[r] # "inactive" => row[r] = "inactive"
  <2>1. row \in Rows(Providers)
    BY ChangedType DEF RowState
  <2>2. /\ \A q : q \in DOMAIN row <=> q \in {r} /\ provider[q] # "inactive"
        /\ \A q \in {r} : provider[q] # "inactive" => row[q] = "inactive"
    BY ChangedRows
  <2> QED
    BY <2>1, <2>2
<1> HIDE DEF row
<1>3. /\ Catalog!UpdateProviderPrograms(r, {})
      /\ provider' \in [Providers -> RowState]
      /\ \A q \in Providers : provider'[q] = IF q \in DOMAIN row THEN row[q] ELSE provider[q]
      /\ assignments' = assignments
  <2>1. w = ProviderRequest(r, row, {})
    BY <1>1 DEF row
  <2> QED
    BY <1>1, <1>2, <2>1, ProviderSaved
<1>4. provider' = [provider EXCEPT ![r] = "inactive"]
  BY <1>2, <1>3 DEF TypeOK
<1>5. r \in Catalog!ProviderRows
  BY DEF Catalog!ProviderRows, TypeOK, RowState
<1>6. \A o \in Catalog!Offering : o.provider = r => ~Catalog!InUse(o)
  BY <1>1, CatalogReads, TypedOffering
<1>7. Catalog!DeleteProvider(r)
  BY <1>3, <1>4, <1>5, <1>6 DEF Catalog!DeleteProvider
<1> QED
  BY <1>7 DEF Catalog!ProviderStep

\* The offerings that a program's form selects.
LEMMA CatalogMappings ==
  ASSUME NEW p \in Programs, NEW rs \in SUBSET Providers
  PROVE  /\ By(p, rs) \subseteq Of(p) /\ Of(p) \in SUBSET Offering /\ By(p, rs) \in SUBSET Offering
         /\ Catalog!Mappings(p, rs, {AnyType}) \subseteq TypedOfferings
         /\ \A c \in TypedOfferings :
              /\ c \in Catalog!Mappings(p, rs, {AnyType}) <=> Untyped(c) \in By(p, rs)
              /\ c.program = p <=> Untyped(c) \in Of(p)
<1>1. By(p, rs) \subseteq Of(p) /\ Of(p) \in SUBSET Offering /\ By(p, rs) \in SUBSET Offering
  BY DEF By, Of
<1>2. Catalog!Mappings(p, rs, {AnyType}) = {c \in TypedOfferings : c.program = p /\ c.provider \in rs /\ c.type \in {AnyType}}
  BY DEF Catalog!Mappings, Catalog!Offering, TypedOfferings
<1>3. \A c \in TypedOfferings : Untyped(c) \in By(p, rs) <=> c.program = p /\ c.provider \in rs
  BY TypedOffering DEF By
<1>4. \A c \in TypedOfferings : Untyped(c) \in Of(p) <=> c.program = p
  BY TypedOffering DEF Of
<1> QED
  BY <1>1, <1>2, <1>3, <1>4, TypedOffering

LEMMA CreateProgramSaved ==
  ASSUME TypeOK, NEW w, CreatesProgram(w), Write(w)
  PROVE  Catalog!ProgramStep
<1>1. PICK p \in Programs, rs \in SUBSET Listed :
        /\ rs # {} /\ program[p] = "inactive"
        /\ Changed(offering, By(p, rs), "active") # NoRows
        /\ w = ProgramRequest(Set({p}, "active"), Changed(offering, By(p, rs), "active"),
                              ProgramRead(p, rs, By(p, rs), {}))
  BY DEF CreatesProgram
<1> DEFINE row == Set({p}, "active")
           T == By(p, rs)
           read == ProgramRead(p, rs, By(p, rs), {})
           M == Catalog!Mappings(p, rs, {AnyType})
<1>2. /\ row \in Rows(Programs) /\ \A q : q \in DOMAIN row <=> q = p
      /\ row[p] = "active"
  BY SetRows, SetType DEF RowState
<1>3. /\ rs \in SUBSET Providers /\ T \in SUBSET Offering /\ M \subseteq TypedOfferings
      /\ \A c \in TypedOfferings : c \in M <=> Untyped(c) \in T
  BY CatalogLists, CatalogMappings
<1>4. \E o \in T : offering[o] # "active"
  BY <1>1 DEF Changed, NoRows
<1>5. w = ProgramRequest(row, Changed(offering, T, "active"), read) /\ read \in Reading
  BY <1>1, <1>3, ProgramReading
<1> HIDE DEF row, T, M, read
<1>6. /\ w.provider = NoRows /\ w.program = row /\ w.assignments = {}
      /\ \A o \in Offering : Over(w.offering, offering)[o] = IF o \in T THEN "active" ELSE offering[o]
  BY <1>2, <1>3, <1>5, ProgramRows
<1>7. provider' = provider
  BY <1>6, OverNothing DEF Write, TypeOK
<1>8. program' = [program EXCEPT ![p] = "active"]
  <2>1. program' \in [Programs -> RowState] /\ program \in [Programs -> RowState]
    BY <1>2, <1>6, OverTable DEF Write, TypeOK
  <2>2. \A q \in Programs : program'[q] = IF q = p THEN "active" ELSE program[q]
    BY <1>2, <1>6, <2>1, OverTable DEF Write
  <2> QED
    BY <2>1, <2>2
<1>9. Catalog!SetOfferings(M, {})
  <2>1. \A c \in TypedOfferings : offering'[Untyped(c)] =
          IF c \in M THEN "active" ELSE IF c \in {} THEN "inactive" ELSE offering[Untyped(c)]
    BY <1>3, <1>6, TypedOffering DEF Write
  <2> QED
    BY <2>1, CatalogSets
<1>10. assignments' = assignments
  BY <1>6 DEF Write
<1>11. \E c \in M : c \in TypedOfferings /\ offering[Untyped(c)] # "active"
  BY <1>3, <1>4, TypedOffering
<1>12. Catalog!CreateProgram(p, rs, {AnyType}, {})
  BY <1>1, <1>7, <1>8, <1>9, <1>10, <1>11 DEF Catalog!CreateProgram, M, TypedOfferings
<1>13. {AnyType} \in SUBSET Catalog!Listed([t \in {AnyType} |-> "active"])
  BY DEF Catalog!Listed
<1> QED
  BY <1>1, <1>12, <1>13, CatalogLists DEF Catalog!ProgramStep

LEMMA EditProgramSaved ==
  ASSUME TypeOK, NEW w, EditsProgram(w), Write(w)
  PROVE  Catalog!ProgramStep
<1>1. PICK p \in Programs, rs \in SUBSET Listed :
        /\ rs # {} /\ program[p] = "active"
        /\ \A o \in Of(p) \ By(p, rs) : ~InUse(o)
        /\ w = EditRequest(p, rs)
  BY DEF EditsProgram
<1> DEFINE M == Catalog!Mappings(p, rs, {AnyType})
           removed == {o \in Catalog!OfferingRows : o.program = p} \ M
<1>2. /\ rs \in SUBSET Providers /\ By(p, rs) \subseteq Of(p) /\ M \subseteq TypedOfferings
      /\ \A c \in TypedOfferings : /\ c \in M <=> Untyped(c) \in By(p, rs)
                                   /\ c.program = p <=> Untyped(c) \in Of(p)
  BY CatalogLists, CatalogMappings
<1>3. /\ removed \subseteq TypedOfferings
      /\ \A c \in TypedOfferings : c \in removed <=> Untyped(c) \in Of(p) \ By(p, rs)
  BY <1>2, CatalogReads
<1> HIDE DEF M, removed
<1>4. /\ w \in Request /\ w.provider = NoRows /\ w.assignments = {}
      /\ \A q \in Programs : Over(w.program, program)[q] = program[q]
      /\ \A o \in Offering : Over(w.offering, offering)[o] =
           IF o \in By(p, rs) THEN "active" ELSE IF o \in Of(p) THEN "inactive" ELSE offering[o]
  BY <1>1, <1>2, EditProgramRows
<1>5. provider' = provider
  BY <1>4, OverNothing DEF Write, TypeOK
<1>6. program' = program
  <2>1. w.program \in Rows(Programs)
    BY <1>4 DEF Request
  <2> QED
    BY <1>4, <2>1, OverTable DEF Write, TypeOK
<1>7. Catalog!SetOfferings(M, removed)
  <2>1. \A c \in TypedOfferings : offering'[Untyped(c)] =
          IF c \in M THEN "active" ELSE IF c \in removed THEN "inactive" ELSE offering[Untyped(c)]
    BY <1>2, <1>3, <1>4, TypedOffering DEF Write
  <2> QED
    BY <2>1, CatalogSets
<1>8. assignments' = assignments
  BY <1>4 DEF Write
<1>9. \A c \in removed : ~Catalog!InUse(c)
  BY <1>1, <1>3, CatalogReads
<1>10. Catalog!EditProgram(p, rs, {AnyType}, {})
  BY <1>1, <1>5, <1>6, <1>7, <1>8, <1>9 DEF Catalog!EditProgram, M, removed
<1>11. {AnyType} \in SUBSET Catalog!Listed([t \in {AnyType} |-> "active"])
  BY DEF Catalog!Listed
<1> QED
  BY <1>1, <1>10, <1>11, CatalogLists DEF Catalog!ProgramStep

LEMMA DeleteProgramSaved ==
  ASSUME TypeOK, NEW w, DeletesProgram(w), Write(w)
  PROVE  Catalog!ProgramStep
<1>1. PICK p \in Programs :
        /\ \A o \in Of(p) : ~InUse(o)
        /\ w = ProgramRequest(Changed(program, {p}, "inactive"), Changed(offering, Of(p), "inactive"),
                              ProgramRead(p, {}, Of(p), Of(p)))
  BY DEF DeletesProgram
<1> DEFINE row == Changed(program, {p}, "inactive")
           T == Of(p)
           read == ProgramRead(p, {}, Of(p), Of(p))
           removed == {o \in Catalog!OfferingRows : o.program = p}
<1>2. /\ row \in Rows(Programs) /\ \A q : q \in DOMAIN row <=> q = p /\ program[p] # "inactive"
      /\ program[p] # "inactive" => row[p] = "inactive"
  <2>1. row \in Rows(Programs)
    BY ChangedType DEF RowState
  <2>2. /\ \A q : q \in DOMAIN row <=> q \in {p} /\ program[q] # "inactive"
        /\ \A q \in {p} : program[q] # "inactive" => row[q] = "inactive"
    BY ChangedRows
  <2> QED
    BY <2>1, <2>2
<1>3. /\ T \in SUBSET Offering /\ removed \subseteq TypedOfferings
      /\ \A c \in TypedOfferings : /\ c \in removed <=> Untyped(c) \in T
                                   /\ c.program = p <=> Untyped(c) \in T
  BY CatalogMappings, CatalogReads
<1>4. w = ProgramRequest(row, Changed(offering, T, "inactive"), read) /\ read \in Reading
  BY <1>1, <1>3, ProgramReading
<1>5. \A o \in T : ~InUse(o)
  BY <1>1
<1> HIDE DEF row, T, removed, read
<1>6. /\ w.provider = NoRows /\ w.program = row /\ w.assignments = {}
      /\ \A o \in Offering : Over(w.offering, offering)[o] = IF o \in T THEN "inactive" ELSE offering[o]
  BY <1>2, <1>3, <1>4, ProgramRows
<1>7. provider' = provider
  BY <1>6, OverNothing DEF Write, TypeOK
<1>8. program' = [program EXCEPT ![p] = "inactive"]
  <2>1. program' \in [Programs -> RowState] /\ program \in [Programs -> RowState]
    BY <1>2, <1>6, OverTable DEF Write, TypeOK
  <2>2. \A q \in Programs : program'[q] = IF q = p THEN "inactive" ELSE program[q]
    BY <1>2, <1>6, <2>1, OverTable DEF Write
  <2> QED
    BY <2>1, <2>2
<1>9. Catalog!SetOfferings({}, removed)
  <2>1. \A c \in TypedOfferings : offering'[Untyped(c)] =
          IF c \in {} THEN "active" ELSE IF c \in removed THEN "inactive" ELSE offering[Untyped(c)]
    BY <1>3, <1>6, TypedOffering DEF Write
  <2> QED
    BY <2>1, CatalogSets
<1>10. assignments' = assignments
  BY <1>6 DEF Write
<1>11. p \in Catalog!ProgramRows
  BY DEF Catalog!ProgramRows, TypeOK, RowState
<1>12. \A c \in Catalog!Offering : c.program = p => ~Catalog!InUse(c)
  BY <1>3, <1>5, CatalogReads
<1>13. Catalog!DeleteProgram(p)
  BY <1>7, <1>8, <1>9, <1>10, <1>11, <1>12 DEF Catalog!DeleteProgram, removed
<1> QED
  BY <1>13 DEF Catalog!ProgramStep

\* A request about an assignment leaves the rest of the catalog alone.
LEMMA AssignmentSaved ==
  ASSUME TypeOK, NEW a \in Assignment, NEW T \in SUBSET Offering,
         NEW w, w = AssignmentRequest(a, T), Write(w)
  PROVE  /\ UNCHANGED <<provider, program, offering>>
         /\ assignments' = {x \in assignments : x.id # a.id} \cup {a}
<1>1. LeavesCatalog(w) /\ w.assignments = {a}
  BY AssignmentRows
<1>2. provider' = provider /\ program' = program /\ offering' = offering
  BY <1>1, OverNothing DEF LeavesCatalog, Write, TypeOK
<1>3. assignments' = {x \in assignments : \A b \in {a} : b.id # x.id} \cup {a}
  BY <1>1 DEF Write
<1> QED
  BY <1>2, <1>3

LEMMA ScheduleSaved ==
  ASSUME TypeOK, NEW w, Schedules(w), Write(w)
  PROVE  Catalog!ScheduleStep
<1>1. PICK o \in Offering, i \in AssignmentIds :
        /\ offering[o] = "active"
        /\ \A a \in assignments : a.id # i
        /\ w = AssignmentRequest([id |-> i, offering |-> o, isActive |-> TRUE], {o})
  BY DEF Schedules
<1> DEFINE new == [id |-> i, offering |-> o, isActive |-> TRUE]
           rows == {TypedAssignment(a) : a \in assignments}
<1>2. new \in Assignment
  BY DEF Assignment
<1>3. /\ UNCHANGED <<provider, program, offering>>
      /\ assignments' = {x \in assignments : x.id # new.id} \cup {new}
  BY <1>1, <1>2, AssignmentSaved
<1>4. assignments' = assignments \cup {new}
  BY <1>1, <1>3
<1>5. /\ TypedAssignment(new) = [id |-> i, offering |-> Typed(o), isActive |-> TRUE]
      /\ \A a \in assignments : TypedAssignment(a).id = a.id
  BY DEF TypedAssignment
<1>6. rows' = rows \cup {[id |-> j, offering |-> Typed(o), isActive |-> TRUE] : j \in {i}}
  <2> HIDE DEF new
  <2>1. {TypedAssignment(a) : a \in assignments'} = rows \cup {TypedAssignment(new)}
    BY <1>4
  <2>2. {[id |-> j, offering |-> Typed(o), isActive |-> TRUE] : j \in {i}} = {TypedAssignment(new)}
    BY <1>5
  <2> QED
    BY <2>1, <2>2
<1>7. \A a \in rows : a.id \notin {i}
  BY <1>1, <1>5
<1>8. Typed(o) \in TypedOfferings /\ offering[Untyped(Typed(o))] = "active"
  BY <1>1, TypedOffering
<1>9. Catalog!ScheduleOffering(Typed(o), {i})
  BY <1>3, <1>6, <1>7, <1>8 DEF Catalog!ScheduleOffering, Catalog!catalogVars, TypedOfferings
<1>10. {i} \in (SUBSET AssignmentIds) \ {{}} /\ Typed(o) \in Catalog!Offering
  BY <1>8, CatalogReads
<1> QED
  BY <1>9, <1>10 DEF Catalog!ScheduleStep

LEMMA EditAssignmentSaved ==
  ASSUME TypeOK, NEW w, EditsAssignment(w), Write(w)
  PROVE  UNCHANGED tables
<1>1. PICK a \in assignments : w = AssignmentRequest(a, {})
  BY DEF EditsAssignment
<1>2. a \in Assignment /\ \A x \in assignments : x.id = a.id => x = a
  BY DEF TypeOK
<1>3. /\ UNCHANGED <<provider, program, offering>>
      /\ assignments' = {x \in assignments : x.id # a.id} \cup {a}
  BY <1>1, <1>2, AssignmentSaved
<1> QED
  BY <1>2, <1>3 DEF tables

LEMMA SetsIsActive ==
  ASSUME NEW a, NEW i, NEW o, NEW b, a = [id |-> i, offering |-> o, isActive |-> b], NEW c
  PROVE  [a EXCEPT !.isActive = c] = [id |-> i, offering |-> o, isActive |-> c]
  OBVIOUS

LEMMA CancelSaved ==
  ASSUME TypeOK, NEW w, CancelsAssignment(w), Write(w)
  PROVE  Catalog!ScheduleStep
<1>1. PICK a \in assignments : a.isActive /\ w = AssignmentRequest([a EXCEPT !.isActive = FALSE], {})
  BY DEF CancelsAssignment
<1> DEFINE new == [a EXCEPT !.isActive = FALSE]
           rows == {TypedAssignment(x) : x \in assignments}
<1>2. /\ a \in Assignment /\ \A x \in assignments : x.id = a.id => x = a
      /\ new \in Assignment /\ new.id = a.id
  BY DEF TypeOK, Assignment
<1>3. /\ UNCHANGED <<provider, program, offering>>
      /\ assignments' = {x \in assignments : x.id # new.id} \cup {new}
  BY <1>1, <1>2, AssignmentSaved
<1>4. assignments' = (assignments \ {a}) \cup {new}
  BY <1>2, <1>3
<1>5. /\ TypedAssignment(new) = [TypedAssignment(a) EXCEPT !.isActive = FALSE]
      /\ TypedAssignment(a).isActive
  <2>1. new = [id |-> a.id, offering |-> a.offering, isActive |-> FALSE]
    <3>1. PICK i, o, b : a = [id |-> i, offering |-> o, isActive |-> b]
      BY <1>2 DEF Assignment
    <3>2. \A c : [a EXCEPT !.isActive = c] = [id |-> i, offering |-> o, isActive |-> c]
      BY <3>1, SetsIsActive
    <3>3. new = [id |-> i, offering |-> o, isActive |-> FALSE]
      BY <3>2
    <3> QED
      BY <3>1, <3>3
  <2> HIDE DEF new
  <2>2. TypedAssignment(new) = [id |-> a.id, offering |-> Typed(a.offering), isActive |-> FALSE]
    BY <2>1 DEF TypedAssignment
  <2>3. TypedAssignment(a) = [id |-> a.id, offering |-> Typed(a.offering), isActive |-> a.isActive]
    BY DEF TypedAssignment
  <2>4. [TypedAssignment(a) EXCEPT !.isActive = FALSE] =
          [id |-> a.id, offering |-> Typed(a.offering), isActive |-> FALSE]
    <3>1. \A c : [TypedAssignment(a) EXCEPT !.isActive = c] =
                   [id |-> a.id, offering |-> Typed(a.offering), isActive |-> c]
      BY <2>3, SetsIsActive
    <3> QED
      BY <3>1
  <2> QED
    BY <1>1, <2>2, <2>3, <2>4
<1>6. \A x \in assignments : TypedAssignment(x) = TypedAssignment(a) => x = a
  BY <1>2 DEF TypedAssignment
<1>7. rows' = (rows \ {TypedAssignment(a)}) \cup {[TypedAssignment(a) EXCEPT !.isActive = FALSE]}
  <2> HIDE DEF new
  <2>1. {TypedAssignment(x) : x \in assignments'} = (rows \ {TypedAssignment(a)}) \cup {TypedAssignment(new)}
    BY <1>4, <1>6
  <2> QED
    BY <1>5, <2>1
<1>8. Catalog!DeleteScheduledOffering(TypedAssignment(a))
  BY <1>3, <1>5, <1>7 DEF Catalog!DeleteScheduledOffering, Catalog!catalogVars
<1> QED
  BY <1>8 DEF Catalog!ScheduleStep

\* What is asked for now and written now is one step of the catalog.
LEMMA AskedAndSaved ==
  ASSUME TypeOK, NEW s \in Sessions, NEW w, Asked(s, w), Write(w)
  PROVE  Catalog!Next \/ UNCHANGED tables
  BY CreateProviderSaved, EditProviderSaved, DeleteProviderSaved, CreateProgramSaved,
     EditProgramSaved, DeleteProgramSaved, ScheduleSaved, EditAssignmentSaved, CancelSaved
     DEF Asked, AskedByAdministrator, AskedByScheduler, Catalog!Next

\* The tables are the catalog's variables.
LEMMA CatalogStutters ==
  ASSUME UNCHANGED tables
  PROVE  UNCHANGED Catalog!vars
  BY DEF tables, Catalog!vars

\* However requests overlap, one of which everything it read is as it was does,
\* when it is saved, what its operation does to the catalog in one step: its
\* checks and the values it computed still hold, whoever saved meanwhile.
THEOREM UndisturbedSavesRefineCatalog == Spec => UndisturbedSavesAreAtomic
<1>1. ASSUME Inv, NEW s \in Sessions, Save(s), s \notin disturbed
      PROVE  [Catalog!Next]_Catalog!vars
  <2>1. TypeOK /\ Asked(s, request[s]) /\ Write(request[s])
    BY <1>1 DEF Inv, UpToDate, Save, InFlight
  <2> QED
    BY <2>1, AskedAndSaved, CatalogStutters
<1>2. Inv /\ [Next]_vars =>
        [\A s \in Sessions : Save(s) /\ s \notin disturbed => [Catalog!Next]_Catalog!vars]_vars
  BY <1>1
<1> QED
  BY <1>2, InvAlways, PTL DEF Spec, UndisturbedSavesAreAtomic

\* As long as no save changes what another request has read, the whole behaviour
\* is one of the catalog's: loads and abandoned requests change no table.  So what
\* is proved of every step of ServiceCatalog holds of requests that overlap as
\* they like but touch one another nowhere.
THEOREM WithoutConflictsRefinesCatalog ==
  Spec /\ [](disturbed = {}) => [][Catalog!Next]_Catalog!vars
<1>1. ASSUME Inv, disturbed = {}, [Next]_vars
      PROVE  [Catalog!Next]_Catalog!vars
  <2>1. ASSUME NEW s \in Sessions, Save(s)
        PROVE  [Catalog!Next]_Catalog!vars
    <3>1. TypeOK /\ Asked(s, request[s]) /\ Write(request[s])
      BY <1>1, <2>1 DEF Inv, UpToDate, Save, InFlight
    <3> QED
      BY <3>1, AskedAndSaved, CatalogStutters
  <2>2. ASSUME NEW s \in Sessions, NEW w, Abandon(s) \/ Loaded(s, w)
        PROVE  UNCHANGED tables
    BY <2>2 DEF Abandon, Loaded
  <2>3. CASE UNCHANGED vars
    BY <2>3, CatalogStutters DEF vars
  <2> QED
    BY <1>1, <2>1, <2>2, <2>3, Steps, CatalogStutters
<1> QED
  BY <1>1, InvAlways, PTL DEF Spec

-----------------------------------------------------------------------------
\* ServiceCatalog's theorems, about the tables of here.
Proved == INSTANCE ServiceCatalogProofs WITH
  ServiceTypes <- {AnyType},
  Schools      <- {},
  Associates   <- {},
  StaleForms   <- FALSE,
  serviceType  <- [t \in {AnyType} |-> "active"],
  offering     <- [o \in [provider : Providers, type : {AnyType}, program : Programs] |->
                     offering[Untyped(o)]],
  schools      <- [p \in Programs |-> {}],
  associates   <- [r \in Providers |-> {}],
  assignments  <- {TypedAssignment(a) : a \in assignments}

\* The two instances say the same of a step.
LEMMA SameCatalog == [Catalog!Next]_Catalog!vars <=> [Proved!Next]_Proved!vars
  BY DEF Catalog!Next, Proved!Next, Catalog!ProviderStep, Proved!ProviderStep,
         Catalog!ServiceTypeStep, Proved!ServiceTypeStep, Catalog!ProgramStep,
         Proved!ProgramStep, Catalog!AssociationStep, Proved!AssociationStep,
         Catalog!ScheduleStep, Proved!ScheduleStep, Catalog!CreateProvider,
         Proved!CreateProvider, Catalog!EditProvider, Proved!EditProvider,
         Catalog!DeleteProvider, Proved!DeleteProvider, Catalog!CreateServiceType,
         Proved!CreateServiceType, Catalog!EditServiceType, Proved!EditServiceType,
         Catalog!DeleteServiceType, Proved!DeleteServiceType, Catalog!CreateProgram,
         Proved!CreateProgram, Catalog!EditProgram, Proved!EditProgram,
         Catalog!DeleteProgram, Proved!DeleteProgram, Catalog!Associate,
         Proved!Associate, Catalog!Dissociate, Proved!Dissociate,
         Catalog!ScheduleOffering, Proved!ScheduleOffering,
         Catalog!DeleteScheduledOffering, Proved!DeleteScheduledOffering,
         Catalog!UpdateProviderPrograms, Proved!UpdateProviderPrograms,
         Catalog!UpdateServiceTypePrograms, Proved!UpdateServiceTypePrograms,
         Catalog!UpdatePrograms, Proved!UpdatePrograms, Catalog!SetOfferings,
         Proved!SetOfferings, Catalog!DeactivatePrograms, Proved!DeactivatePrograms,
         Catalog!Mappings, Proved!Mappings, Catalog!Listed, Proved!Listed,
         Catalog!InUse, Proved!InUse, Catalog!OfferedTypes, Proved!OfferedTypes,
         Catalog!OfferedBy, Proved!OfferedBy, Catalog!OfferingRows,
         Proved!OfferingRows, Catalog!ProgramRows, Proved!ProgramRows,
         Catalog!TypeRows, Proved!TypeRows, Catalog!ProviderRows,
         Proved!ProviderRows, Catalog!Offering, Proved!Offering,
         Catalog!catalogVars, Proved!catalogVars, Catalog!vars, Proved!vars

\* What the managers promise when requests leave alone what others have read: no
\* offering is withdrawn from a student actively assigned to it, and a program
\* shown as active offers something.
ActiveAssignmentHasActiveOffering ==
  \A a \in assignments : a.isActive => offering[a.offering] = "active"

ActiveProgramHasActiveOffering ==
  \A p \in Programs : program[p] = "active" =>
    \E o \in Offering : o.program = p /\ offering[o] = "active"

LEMMA InitIsCatalogs == Init => Proved!IInv
<1> SUFFICES ASSUME Init PROVE Proved!IInv
  OBVIOUS
<1>1. /\ TypeOK /\ assignments = {} /\ ActiveProgramHasActiveOffering
      /\ provider \in [Providers -> {"active"}]
  BY InitEstablishesInv DEF Init, Inv, ActiveProgramHasActiveOffering
<1>2. \A c \in TypedOfferings : offering[Untyped(c)] \in RowState
  BY <1>1, TypedOffering DEF TypeOK
<1>3. Proved!TypeOK
  BY <1>1, <1>2 DEF Proved!TypeOK, Proved!RowState, Proved!Offering, Proved!Assignment,
     Proved!OfferingRows, Proved!ProviderRows, Proved!TypeRows, Proved!ProgramRows,
     TypedOfferings, TypeOK, RowState
<1>4. Proved!ActiveAssignmentHasActiveOffering
  BY <1>1 DEF Proved!ActiveAssignmentHasActiveOffering
<1>5. Proved!ActiveProgramHasActiveOffering
  <2>1. ASSUME NEW p \in Programs, program[p] = "active"
        PROVE  \E c \in TypedOfferings : c.program = p /\ offering[Untyped(c)] = "active"
    BY <1>1, <2>1, TypedOffering DEF ActiveProgramHasActiveOffering
  <2> QED
    BY <2>1 DEF Proved!ActiveProgramHasActiveOffering, Proved!Offering, TypedOfferings
<1>6. Proved!InactiveProgramHasNoSchools
  BY DEF Proved!InactiveProgramHasNoSchools
<1> QED
  BY <1>3, <1>4, <1>5, <1>6 DEF Proved!IInv

LEMMA CatalogsPromises ==
  ASSUME TypeOK, Proved!IInv
  PROVE  ActiveAssignmentHasActiveOffering /\ ActiveProgramHasActiveOffering
<1>1. ActiveAssignmentHasActiveOffering
  <2> SUFFICES ASSUME NEW a \in assignments, a.isActive
               PROVE  offering[a.offering] = "active"
    BY DEF ActiveAssignmentHasActiveOffering
  <2>1. a.offering \in Offering
    BY DEF TypeOK, Assignment
  <2>2. /\ TypedAssignment(a).isActive
        /\ TypedAssignment(a).offering = Typed(a.offering)
    BY DEF TypedAssignment
  <2>3. \A b \in {TypedAssignment(x) : x \in assignments} :
          b.isActive => [c \in TypedOfferings |-> offering[Untyped(c)]][b.offering] = "active"
    BY DEF Proved!IInv, Proved!ActiveAssignmentHasActiveOffering, TypedOfferings
  <2>4. [c \in TypedOfferings |-> offering[Untyped(c)]][Typed(a.offering)] = "active"
    BY <2>2, <2>3
  <2> QED
    BY <2>1, <2>4, TypedOffering
<1>2. ActiveProgramHasActiveOffering
  <2> SUFFICES ASSUME NEW p \in Programs, program[p] = "active"
               PROVE  \E o \in Offering : o.program = p /\ offering[o] = "active"
    BY DEF ActiveProgramHasActiveOffering
  <2>1. \E c \in TypedOfferings : c.program = p /\ offering[Untyped(c)] = "active"
    BY DEF Proved!IInv, Proved!ActiveProgramHasActiveOffering, Proved!Offering, TypedOfferings
  <2> QED
    BY <2>1, TypedOffering
<1> QED
  BY <1>1, <1>2

\* As long as no save changes what another request has read, any numbers of
\* administrators and schedulers keep the promises of the catalog: such conflicts,
\* which nothing in the code detects, are all that breaks them.
THEOREM WithoutConflictsPromisesAreKept ==
  Spec /\ [](disturbed = {}) =>
    [](ActiveAssignmentHasActiveOffering /\ ActiveProgramHasActiveOffering)
<1>1. Proved!IInv /\ [Catalog!Next]_Catalog!vars => Proved!IInv'
  BY SameCatalog, Proved!NextIInv
<1>2. Inv /\ Proved!IInv => ActiveAssignmentHasActiveOffering /\ ActiveProgramHasActiveOffering
  BY CatalogsPromises DEF Inv
<1>3. Spec => Proved!IInv
  BY InitIsCatalogs DEF Spec
<1> QED
  BY <1>1, <1>2, <1>3, InvAlways, WithoutConflictsRefinesCatalog, PTL

=============================================================================
