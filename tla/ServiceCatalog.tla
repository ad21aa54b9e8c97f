--------------------------- MODULE ServiceCatalog ---------------------------
(***************************************************************************)
(* The service catalog: providers, service types and programs, the service *)
(* offerings that join one of each, the schools a program runs at, the     *)
(* students and user roles associated with a provider, and the students    *)
(* assigned to offerings.  One action per operation of ProviderManager,    *)
(* ServiceTypeManager, ProgramManager and ScheduledServiceManager; each    *)
(* operation is one database transaction (RepositoryContainer.Save) and is *)
(* atomic here.  An operation that throws saves nothing: its guard is the  *)
(* conjunction of the checks the code passes.                              *)
(*                                                                         *)
(* Deletes are soft.  Rows are never removed, and a Create with the name   *)
(* of an inactive row reactivates it, so a provider, a type or a program   *)
(* is identified here with its (unique) name.                              *)
(***************************************************************************)

CONSTANTS Providers, ServiceTypes, Programs, Schools,
          Associates,     \* students that approve, and user roles linked to, providers
          AssignmentIds,  \* identities of StudentAssignedOffering rows
          StaleForms      \* may a form be posted after a row it lists was deleted?

ASSUME StaleFormsAssumption == StaleForms \in BOOLEAN

VARIABLES provider,       \* provider[r]: state of the row of provider r
          serviceType,    \* serviceType[t]: state of the row of service type t
          program,        \* program[p]: state of the row of program p
          offering,       \* offering[o]: state of the row of service offering o
          schools,        \* schools[p]: the schools linked to program p
          associates,     \* associates[r]: who is linked to provider r
          assignments     \* the rows of StudentAssignedOffering

catalogVars == <<provider, serviceType, program, offering, schools>>
vars == <<provider, serviceType, program, offering, schools, associates, assignments>>

RowState == {"absent", "active", "inactive"}

\* UX_ServiceOffering: at most one row for a provider, a type and a program.
Offering == [provider : Providers, type : ServiceTypes, program : Programs]

Assignment == [id : AssignmentIds, offering : Offering, isActive : BOOLEAN]

\* What a manager finds by id, whatever its state.
ProviderRows == {r \in Providers : provider[r] # "absent"}
TypeRows     == {t \in ServiceTypes : serviceType[t] # "absent"}
ProgramRows  == {p \in Programs : program[p] # "absent"}
OfferingRows == {o \in Offering : offering[o] # "absent"}

\* program.ServiceOfferings holds the inactive offerings too.
OfferedTypes(p) == {o.type : o \in {x \in OfferingRows : x.program = p}}
OfferedBy(p)    == {o.provider : o \in {x \in OfferingRows : x.program = p}}

InUse(o) == \E a \in assignments : a.isActive /\ a.offering = o

-----------------------------------------------------------------------------
Init ==
  /\ provider = [r \in Providers |-> "absent"]
  /\ serviceType = [t \in ServiceTypes |-> "absent"]
  /\ program = [p \in Programs |-> "absent"]
  /\ offering = [o \in Offering |-> "absent"]
  /\ schools = [p \in Programs |-> {}]
  /\ associates = [r \in Providers |-> {}]
  /\ assignments = {}

SetOfferings(on, off) ==
  offering' = [o \in Offering |-> IF o \in on THEN "active"
                                  ELSE IF o \in off THEN "inactive"
                                  ELSE offering[o]]

\* Slips for the mutation runs: the programs are examined before their
\* offerings are deactivated; a program is closed but keeps its schools.
EarlyDeactivatePrograms(candidates) ==
  LET idle == {p \in candidates :
                 \A o \in Offering : o.program = p => offering[o] # "active"}
  IN  /\ program' = [p \in Programs |-> IF p \in idle THEN "inactive" ELSE program[p]]
      /\ schools' = [p \in Programs |-> IF p \in idle THEN {} ELSE schools[p]]

KeepSchoolsDeactivatePrograms(candidates) ==
  LET idle == {p \in candidates :
                 \A o \in Offering : o.program = p => offering'[o] # "active"}
  IN  /\ program' = [p \in Programs |-> IF p \in idle THEN "inactive" ELSE program[p]]
      /\ UNCHANGED schools

\* The programs left without an active offering are closed, schools and all.
DeactivatePrograms(candidates) ==
  LET idle == {p \in candidates :
                 \A o \in Offering : o.program = p => offering'[o] # "active"}
  IN  /\ program' = [p \in Programs |-> IF p \in idle THEN "inactive" ELSE program[p]]
      /\ schools' = [p \in Programs |-> IF p \in idle THEN {} ELSE schools[p]]

\* A slip for the mutation runs: nobody asks who is assigned to what is removed.
UncheckedUpdatePrograms(mine, created, selected) ==
  LET rows    == OfferingRows \cap mine
      removed == {o \in rows : o.program \notin selected}
  IN  /\ SetOfferings(created, removed)
      /\ DeactivatePrograms({o.program : o \in rows \cup created})

\* The body shared by UpdateProviderPrograms and UpdateServiceTypePrograms:
\* mine are the offerings of the provider or type, created the ones its
\* selected programs call for (made, or reactivated); its other rows are
\* deactivated, unless one of them is in use.
UpdatePrograms(mine, created, selected) ==
  LET rows    == OfferingRows \cap mine
      removed == {o \in rows : o.program \notin selected}
  IN  /\ \A o \in removed : ~InUse(o)
      /\ SetOfferings(created, removed)
      /\ DeactivatePrograms({o.program : o \in rows \cup created})

UpdateProviderPrograms(r, selected) ==
  LET mine == {o \in Offering : o.provider = r}
  IN  UpdatePrograms(mine, {o \in mine : /\ o.program \in selected
                                         /\ o.type \in OfferedTypes(o.program)},
                     selected)

UpdateServiceTypePrograms(t, selected) ==
  LET mine == {o \in Offering : o.type = t}
  IN  UpdatePrograms(mine, {o \in mine : /\ o.program \in selected
                                         /\ o.provider \in OfferedBy(o.program)},
                     selected)

-----------------------------------------------------------------------------
\* ProviderManager.  The form's selected programs are looked up by id only, so
\* they may have been closed since the form was shown.
CreateProvider(r, selected) ==
  /\ provider[r] # "active"
  /\ provider' = [provider EXCEPT ![r] = "active"]
  /\ UpdateProviderPrograms(r, selected)
  /\ UNCHANGED <<serviceType, associates, assignments>>

EditProvider(r, selected) ==
  /\ provider[r] = "active"
  /\ UpdateProviderPrograms(r, selected)
  /\ UNCHANGED <<provider, serviceType, associates, assignments>>

DeleteProvider(r) ==
  /\ r \in ProviderRows
  /\ \A o \in Offering : o.provider = r => ~InUse(o)
  /\ provider' = [provider EXCEPT ![r] = "inactive"]
  /\ UpdateProviderPrograms(r, {})
  /\ associates' = [associates EXCEPT ![r] = {}]
  /\ UNCHANGED <<serviceType, assignments>>

\* ServiceTypeManager.  Edit, unlike its form, accepts a deleted type.
CreateServiceType(t, selected) ==
  /\ serviceType[t] # "active"
  /\ serviceType' = [serviceType EXCEPT ![t] = "active"]
  /\ UpdateServiceTypePrograms(t, selected)
  /\ UNCHANGED <<provider, associates, assignments>>

EditServiceType(t, selected) ==
  /\ t \in TypeRows
  /\ UpdateServiceTypePrograms(t, selected)
  /\ UNCHANGED <<provider, serviceType, associates, assignments>>

DeleteServiceType(t) ==
  /\ t \in TypeRows
  /\ \A o \in Offering : o.type = t => ~InUse(o)
  /\ serviceType' = [serviceType EXCEPT ![t] = "inactive"]
  /\ UpdateServiceTypePrograms(t, {})
  /\ UNCHANGED <<provider, associates, assignments>>

\* ProgramManager.  The form requires a provider and a type at least.
Mappings(p, rs, ts) == {o \in Offering : o.program = p /\ o.provider \in rs /\ o.type \in ts}

\* A program reopened under its old name keeps the offerings that were not
\* selected as they are.  Saving a program to which no offering was added or
\* loaded fails the [RequiredElements] validation of Program.ServiceOfferings.
CreateProgram(p, rs, ts, ss) ==
  /\ program[p] # "active"
  /\ \E o \in Mappings(p, rs, ts) : offering[o] # "active"
  /\ program' = [program EXCEPT ![p] = "active"]
  /\ schools' = [schools EXCEPT ![p] = ss]
  /\ SetOfferings(Mappings(p, rs, ts), {})
  /\ UNCHANGED <<provider, serviceType, associates, assignments>>

EditProgram(p, rs, ts, ss) ==
  LET current == {o \in OfferingRows : o.program = p}
      removed == current \ Mappings(p, rs, ts)
  IN  /\ program[p] = "active"
      /\ \A o \in removed : ~InUse(o)
      /\ schools' = [schools EXCEPT ![p] = ss]
      /\ SetOfferings(Mappings(p, rs, ts), removed)
      /\ UNCHANGED <<provider, serviceType, program, associates, assignments>>

\* A slip for the mutation runs: Delete leaves the offerings to the listing.
LeakyDeleteProgram(p) ==
  /\ p \in ProgramRows
  /\ \A o \in Offering : o.program = p => ~InUse(o)
  /\ program' = [program EXCEPT ![p] = "inactive"]
  /\ schools' = [schools EXCEPT ![p] = {}]
  /\ UNCHANGED <<offering, provider, serviceType, associates, assignments>>

DeleteProgram(p) ==
  /\ p \in ProgramRows
  /\ \A o \in Offering : o.program = p => ~InUse(o)
  /\ program' = [program EXCEPT ![p] = "inactive"]
  /\ schools' = [schools EXCEPT ![p] = {}]
  /\ SetOfferings({}, {o \in OfferingRows : o.program = p})
  /\ UNCHANGED <<provider, serviceType, associates, assignments>>

-----------------------------------------------------------------------------
\* A student approves, or a user role is linked to, a provider that exists;
\* neither SchoolDistrictManager nor AccountManager asks that it be active.
Associate(r, h) ==
  /\ r \in ProviderRows
  /\ h \notin associates[r]
  /\ associates' = [associates EXCEPT ![r] = @ \cup {h}]
  /\ UNCHANGED <<catalogVars, assignments>>

Dissociate(r, h) ==
  /\ h \in associates[r]
  /\ associates' = [associates EXCEPT ![r] = @ \ {h}]
  /\ UNCHANGED <<catalogVars, assignments>>

\* Slips for the mutation runs: any offering row can be scheduled; a cancelled
\* assignment is added next to the active one.
UncheckedScheduleOffering(o, ids) ==
  /\ o \in OfferingRows
  /\ \A a \in assignments : a.id \notin ids
  /\ assignments' = assignments \cup
       {[id |-> i, offering |-> o, isActive |-> TRUE] : i \in ids}
  /\ UNCHANGED <<catalogVars, associates>>

DuplicatingDeleteScheduledOffering(a) ==
  /\ a.isActive
  /\ assignments' = assignments \cup {[a EXCEPT !.isActive = FALSE]}
  /\ UNCHANGED <<catalogVars, associates>>

\* ScheduledServiceManager: one row per selected student, all saved at once.
ScheduleOffering(o, ids) ==
  /\ offering[o] = "active"
  /\ \A a \in assignments : a.id \notin ids
  /\ assignments' = assignments \cup
       {[id |-> i, offering |-> o, isActive |-> TRUE] : i \in ids}
  /\ UNCHANGED <<catalogVars, associates>>

DeleteScheduledOffering(a) ==
  /\ a.isActive
  /\ assignments' = (assignments \ {a}) \cup {[a EXCEPT !.isActive = FALSE]}
  /\ UNCHANGED <<catalogVars, associates>>

-----------------------------------------------------------------------------
\* Forms list active rows only, but a form can be posted long after it was
\* rendered, and the managers do not check again.
Listed(table) == {x \in DOMAIN table : IF StaleForms THEN table[x] # "absent"
                                                     ELSE table[x] = "active"}

ProviderStep ==
  \E r \in Providers :
    \/ \E selected \in SUBSET Listed(program) : CreateProvider(r, selected)
    \/ \E selected \in SUBSET Listed(program) : EditProvider(r, selected)
    \/ DeleteProvider(r)

ServiceTypeStep ==
  \/ \E t \in ServiceTypes, selected \in SUBSET Listed(program) : CreateServiceType(t, selected)
  \/ \E t \in Listed(serviceType), selected \in SUBSET Listed(program) : EditServiceType(t, selected)
  \/ \E t \in ServiceTypes : DeleteServiceType(t)

ProgramStep ==
  \/ \E p \in Programs, ss \in SUBSET Schools,
        rs \in SUBSET Listed(provider), ts \in SUBSET Listed(serviceType) :
       rs # {} /\ ts # {} /\ (CreateProgram(p, rs, ts, ss) \/ EditProgram(p, rs, ts, ss))
  \/ \E p \in Programs : DeleteProgram(p)

AssociationStep ==
  \E r \in Providers, h \in Associates : Associate(r, h) \/ Dissociate(r, h)

ScheduleStep ==
  \/ \E o \in Offering, ids \in (SUBSET AssignmentIds) \ {{}} : ScheduleOffering(o, ids)
  \/ \E a \in assignments : DeleteScheduledOffering(a)

Next == ProviderStep \/ ServiceTypeStep \/ ProgramStep \/ AssociationStep \/ ScheduleStep

Spec == Init /\ [][Next]_vars

-----------------------------------------------------------------------------
\* Every variable has its type, every row refers to rows that exist, and an
\* assignment has one row (foreign and primary keys of the database).
TypeOK ==
  /\ provider \in [Providers -> RowState]
  /\ serviceType \in [ServiceTypes -> RowState]
  /\ program \in [Programs -> RowState]
  /\ offering \in [Offering -> RowState]
  /\ schools \in [Programs -> SUBSET Schools]
  /\ associates \in [Providers -> SUBSET Associates]
  /\ assignments \subseteq Assignment
  /\ \A o \in OfferingRows : /\ o.provider \in ProviderRows
                             /\ o.type \in TypeRows
                             /\ o.program \in ProgramRows
  /\ \A a \in assignments, b \in assignments : a.id = b.id => a = b

\* A student is never actively assigned to an offering that was withdrawn:
\* whichever manager withdraws it, by an edit or a delete of the provider, the
\* type or the program, checks the assignments it would orphan.
ActiveAssignmentHasActiveOffering ==
  \A a \in assignments : a.isActive => offering[a.offering] = "active"

\* A program shown as active offers something: the edit or delete of a
\* provider or type that takes its last active offering also closes it.
ActiveProgramHasActiveOffering ==
  \A p \in Programs : program[p] = "active" =>
    \E o \in Offering : o.program = p /\ offering[o] = "active"

\* A closed program runs at no school, whichever operation closed it.
InactiveProgramHasNoSchools ==
  \A p \in Programs : program[p] # "active" => schools[p] = {}

\* When no form is posted late, a closed program offers nothing: the list of
\* offerings to schedule from filters on the offering's own IsActive only, so
\* this is what keeps a closed program out of it.
InactiveProgramOffersNothing ==
  \A o \in Offering : program[o.program] # "active" => offering[o] # "active"

\* ProviderManagerTest.cs:499 asserts that deleting a provider leaves all its
\* offerings inactive.  Stated of every state: a deleted provider offers nothing.
DeletedProviderOffersNothing ==
  \A o \in Offering : provider[o.provider] = "inactive" => offering[o] # "active"

\* The catalog keeps the promise of OfferingLifecycle to those who schedule.
Lifecycle == INSTANCE OfferingLifecycle WITH Offerings <- Offering

ImplementsLifecycle == Lifecycle!LifecycleSpec

=============================================================================
