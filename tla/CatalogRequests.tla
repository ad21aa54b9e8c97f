--------------------------- MODULE CatalogRequests ---------------------------
(***************************************************************************)
(* The catalog under concurrent requests.  A request loads the rows it     *)
(* works on, checks them and computes what it will write; RepositoryContai- *)
(* ner.Save writes it later, in a transaction that checks nothing again.   *)
(* No row has a version and nothing is locked in between, so what a request *)
(* writes may rest on rows that another session has since changed.         *)
(*                                                                         *)
(* Entity Framework writes the columns a request changed, but every column *)
(* of a row that went through Repository.Update (SetModified), with the    *)
(* values loaded for those that were not changed.  A session has one       *)
(* request at a time (ASP.NET serializes the requests of a session).       *)
(*                                                                         *)
(* ServiceCatalog gives the operations at large; here service types, which *)
(* behave as providers do, are left out, every offering has its row from   *)
(* the start, and the queries of a request that precede its Save are one   *)
(* step.                                                                   *)
(***************************************************************************)
CONSTANTS Providers, Programs, AssignmentIds,
          Administrators,    \* sessions that edit providers and programs
          Schedulers,        \* sessions that assign students to offerings
          NoRequest          \* what an idle session has in flight

VARIABLES provider,          \* provider[r], program[p], offering[o]: the state
          program,           \*   of a row, "active" or "inactive"
          offering,
          assignments,       \* the rows of StudentAssignedOffering
          request,           \* request[s]: the rows session s will write
          disturbed          \* sessions of whose request a save of another changed
                             \*   something that it had read (history variable)

tables == <<provider, program, offering, assignments>>
vars == <<tables, request, disturbed>>

Sessions == Administrators \cup Schedulers

RowState == {"active", "inactive"}
Offering == [provider : Providers, program : Programs]
Assignment == [id : AssignmentIds, offering : Offering, isActive : BOOLEAN]

Rows(S) == UNION {[T -> RowState] : T \in SUBSET S}

\* What a request has read: rows, which offerings were in use, whether it asked
\* for the programs left idle, and assignments by their ids (history).
Reading == [providers : SUBSET Providers, programs : SUBSET Programs, offerings : SUBSET Offering,
            uses : SUBSET Offering, idle : BOOLEAN, ids : SUBSET AssignmentIds]

Request == [provider : Rows(Providers), program : Rows(Programs), offering : Rows(Offering),
            assignments : SUBSET Assignment, read : Reading]

InUse(o) == \E a \in assignments : a.isActive /\ a.offering = o

Init ==
  /\ provider = [r \in Providers |-> "active"]
  /\ offering \in [Offering -> RowState]
  /\ program = [p \in Programs |-> IF \E o \in Offering : o.program = p /\ offering[o] = "active"
                                   THEN "active" ELSE "inactive"]
  /\ assignments = {}
  /\ request = [s \in Sessions |-> NoRequest]
  /\ disturbed = {}

-----------------------------------------------------------------------------
\* The rows of T set to a state, and those of them that this changes.
Set(T, state) == [x \in T |-> state]
Changed(table, T, state) == Set({x \in T : table[x] # state}, state)

NoRows == Set({}, "active")

\* A table with the given rows written over it.
Over(rows, table) == [x \in DOMAIN rows \cup DOMAIN table |->
                        IF x \in DOMAIN rows THEN rows[x] ELSE table[x]]

Loaded(s, r) == /\ request[s] = NoRequest
                /\ request' = [request EXCEPT ![s] = r]
                /\ UNCHANGED <<tables, disturbed>>

\* A slip for the mutation runs: the rows as stored, without the changes.
StoredIdlePrograms(change) ==
  {p \in Programs : \A o \in Offering : o.program = p => offering[o] # "active"}

\* Programs of which the request sees no active offering left, its own changes
\* included.
IdlePrograms(change) ==
  {p \in Programs : \A o \in Offering : o.program = p => Over(change, offering)[o] # "active"}

\* UpdateProviderPrograms: the offerings the selected programs call for, the
\* others withdrawn unless in use, and the programs left idle.
ProviderRequest(r, providerRow, selected) ==
  LET mine    == {o \in Offering : o.provider = r}
      created == {o \in mine : o.program \in selected}
      change  == Over(Changed(offering, created, "active"),
                      Changed(offering, mine \ created, "inactive"))
  IN  [provider    |-> providerRow,
       program     |-> Changed(program, IdlePrograms(change), "inactive"),
       offering    |-> change,
       assignments |-> {},
       read        |-> [providers |-> {r}, programs |-> selected \cup IdlePrograms(change),
                        offerings |-> mine, uses |-> mine \ created, idle |-> TRUE, ids |-> {}]]

LoadCreateProvider(s, r, selected) ==
  /\ provider[r] = "inactive"
  /\ \A o \in Offering : o.provider = r /\ o.program \notin selected => ~InUse(o)
  /\ Loaded(s, ProviderRequest(r, Set({r}, "active"), selected))

\* Edit passes the provider to Update: its IsActive is written as it was loaded.
LoadEditProvider(s, r, selected) ==
  /\ provider[r] = "active"
  /\ \A o \in Offering : o.provider = r /\ o.program \notin selected => ~InUse(o)
  /\ Loaded(s, ProviderRequest(r, Set({r}, provider[r]), selected))

LoadDeleteProvider(s, r) ==
  /\ \A o \in Offering : o.provider = r => ~InUse(o)
  /\ Loaded(s, ProviderRequest(r, Changed(provider, {r}, "inactive"), {}))

\* What a request about a program reads, with the providers rs chosen for it.
ProgramRead(p, rs, offerings, uses) ==
  [providers |-> rs, programs |-> {p}, offerings |-> offerings, uses |-> uses, idle |-> FALSE,
   ids |-> {}]

\* A program reopened under its old name; saving it with no offering added or
\* reactivated fails the validation of Program.ServiceOfferings.
LoadCreateProgram(s, p, rs) ==
  LET selected == {o \in Offering : o.program = p /\ o.provider \in rs}
      change   == Changed(offering, selected, "active")
  IN  /\ program[p] = "inactive"
      /\ change # NoRows
      /\ Loaded(s, [provider    |-> NoRows,
                    program     |-> Set({p}, "active"),
                    offering    |-> change,
                    assignments |-> {},
                    read        |-> ProgramRead(p, rs, selected, {})])

\* ProgramManager.Edit passes the program and each offering it withdraws to Update.
LoadEditProgram(s, p, rs) ==
  LET current  == {o \in Offering : o.program = p}
      selected == {o \in current : o.provider \in rs}
  IN  /\ program[p] = "active"
      /\ \A o \in current \ selected : ~InUse(o)
      /\ Loaded(s, [provider    |-> NoRows,
                    program     |-> Set({p}, program[p]),
                    offering    |-> Over(Changed(offering, selected, "active"),
                                        Set(current \ selected, "inactive")),
                    assignments |-> {},
                    read        |-> ProgramRead(p, rs, selected, current \ selected)])

LoadDeleteProgram(s, p) ==
  LET current == {o \in Offering : o.program = p}
  IN  /\ \A o \in current : ~InUse(o)
      /\ Loaded(s, [provider    |-> NoRows,
                    program     |-> Changed(program, {p}, "inactive"),
                    offering    |-> Changed(offering, current, "inactive"),
                    assignments |-> {},
                    read        |-> ProgramRead(p, {}, current, current)])

\* A request that writes the assignment a, having read the row with its id and
\* the given offerings.
AssignmentRequest(a, offerings) ==
  [provider |-> NoRows, program |-> NoRows, offering |-> NoRows, assignments |-> {a},
   read |-> [providers |-> {}, programs |-> {}, offerings |-> offerings, uses |-> {},
             idle |-> FALSE, ids |-> {a.id}]]

\* ScheduledServiceManager.  The database gives a new row its id when it is
\* written; here the id is reserved when it is loaded.
Reserved(i) == \/ \E a \in assignments : a.id = i
               \/ \E s \in Schedulers : request[s] # NoRequest /\ \E a \in request[s].assignments : a.id = i

LoadSchedule(s, o, i) ==
  /\ offering[o] = "active"
  /\ ~Reserved(i)
  /\ Loaded(s, AssignmentRequest([id |-> i, offering |-> o, isActive |-> TRUE], {o}))

\* Edit changes dates and notes only, but Update writes IsActive along.
LoadEditAssignment(s, a) ==
  /\ a.isActive
  /\ Loaded(s, AssignmentRequest(a, {}))

LoadDeleteAssignment(s, a) ==
  /\ a.isActive
  /\ Loaded(s, AssignmentRequest([a EXCEPT !.isActive = FALSE], {}))

-----------------------------------------------------------------------------
Idle(s) == request' = [request EXCEPT ![s] = NoRequest]

\* A slip for the mutation runs: an updated assignment is added, not replaced.
AppendingWrite(w) ==
  /\ provider' = Over(w.provider, provider)
  /\ program' = Over(w.program, program)
  /\ offering' = Over(w.offering, offering)
  /\ assignments' = assignments \cup w.assignments

\* The transaction: the rows of a request over those of the tables.
Write(w) ==
  /\ provider' = Over(w.provider, provider)
  /\ program' = Over(w.program, program)
  /\ offering' = Over(w.offering, offering)
  /\ assignments' = {a \in assignments : \A b \in w.assignments : b.id # a.id}
                      \cup w.assignments

\* What the request w, had it read it now, would have read.
Seen(w) ==
  [provider    |-> [r \in w.read.providers |-> provider[r]],
   program     |-> [p \in w.read.programs |-> program[p]],
   offering    |-> [o \in w.read.offerings |-> offering[o]],
   inUse       |-> {o \in w.read.uses : InUse(o)},
   idle        |-> IF w.read.idle THEN IdlePrograms(w.offering) ELSE {},
   assignments |-> {a \in assignments : a.id \in w.read.ids}]

Disturbs(t) == request[t] # NoRequest /\ Seen(request[t])' # Seen(request[t])

Save(s) ==
  /\ request[s] # NoRequest
  /\ Write(request[s])
  /\ Idle(s)
  /\ disturbed' = {t \in Sessions \ {s} : t \in disturbed \/ Disturbs(t)}

\* The request throws before Save, or its worker process is recycled.
Abandon(s) ==
  /\ request[s] # NoRequest
  /\ Idle(s)
  /\ disturbed' = disturbed \ {s}
  /\ UNCHANGED tables

AdministratorLoads(s) ==
  \/ \E r \in Providers, selected \in SUBSET {p \in Programs : program[p] = "active"} :
       LoadCreateProvider(s, r, selected) \/ LoadEditProvider(s, r, selected)
  \/ \E r \in Providers : LoadDeleteProvider(s, r)
  \/ \E p \in Programs, rs \in (SUBSET {r \in Providers : provider[r] = "active"}) \ {{}} :
       LoadCreateProgram(s, p, rs) \/ LoadEditProgram(s, p, rs)
  \/ \E p \in Programs : LoadDeleteProgram(s, p)

SchedulerLoads(s) ==
  \/ \E o \in Offering, i \in AssignmentIds : LoadSchedule(s, o, i)
  \/ \E a \in assignments : LoadEditAssignment(s, a) \/ LoadDeleteAssignment(s, a)

Next ==
  \/ \E s \in Administrators : AdministratorLoads(s)
  \/ \E s \in Schedulers : SchedulerLoads(s)
  \/ \E s \in Sessions : Save(s) \/ Abandon(s)

Spec == Init /\ [][Next]_vars

-----------------------------------------------------------------------------
\* Every variable has its type and an assignment has one row, however the
\* requests of several sessions overlap.
TypeOK ==
  /\ provider \in [Providers -> RowState]
  /\ program \in [Programs -> RowState]
  /\ offering \in [Offering -> RowState]
  /\ assignments \subseteq Assignment
  /\ request \in [Sessions -> Request \cup {NoRequest}]
  /\ disturbed \subseteq {s \in Sessions : request[s] # NoRequest}
  /\ \A a \in assignments, b \in assignments : a.id = b.id => a = b

\* The tables as ServiceCatalog has them: one service type, no schools, nobody
\* associated.
AnyType == "any type"

Typed(o) == [provider |-> o.provider, type |-> AnyType, program |-> o.program]
Untyped(o) == [provider |-> o.provider, program |-> o.program]
TypedAssignment(a) == [id |-> a.id, offering |-> Typed(a.offering), isActive |-> a.isActive]

Catalog == INSTANCE ServiceCatalog WITH
  ServiceTypes <- {AnyType},
  Schools      <- {},
  Associates   <- {},
  StaleForms   <- FALSE,
  serviceType  <- [t \in {AnyType} |-> "active"],
  offering     <- [o \in [provider : Providers, type : {AnyType}, program : Programs] |->
                     offering[Untyped(o)]],
  schools      <- [p \in Programs |-> {}],
  associates   <- [r \in Providers |-> {}],
  assignments  <- {TypedAssignment(a) : a \in assignments}

\* Nothing checks at a save what the request read before, but it would be enough
\* to: a save of a request of which everything it read (the rows, the uses of the
\* offerings it withdraws, the programs it leaves idle) has stayed as it was is
\* one operation of ServiceCatalog, or changes nothing there, whoever saved
\* meanwhile.  All that the interleaving of load, change and save adds comes from
\* conflicts of this kind: an assignment to an offering that is being withdrawn,
\* two providers withdrawn from one program, a row written back as loaded.
UndisturbedSavesAreAtomic ==
  [][\A s \in Sessions : Save(s) /\ s \notin disturbed => [Catalog!Next]_Catalog!vars]_vars

=============================================================================
