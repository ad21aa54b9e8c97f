------------------------ MODULE ServiceCatalogProofs ------------------------
(***************************************************************************)
(* Theorems about ServiceCatalog, for every value of its constants.        *)
(*                                                                         *)
(* The inductive invariant is the conjunction of the type invariant with   *)
(* the three safety invariants.  The steps of providers and service types  *)
(* all go through UpdatePrograms, so what that operator preserves is one   *)
(* lemma, and each action adds its own rows to it.                         *)
(***************************************************************************)
EXTENDS ServiceCatalog, TLAPS

IInv ==
  /\ TypeOK
  /\ ActiveAssignmentHasActiveOffering
  /\ ActiveProgramHasActiveOffering
  /\ InactiveProgramHasNoSchools

-----------------------------------------------------------------------------
\* The initial database satisfies the inductive invariant.
LEMMA InitIInv == Init => IInv
  BY DEF Init, IInv, TypeOK, RowState, ProviderRows, TypeRows, ProgramRows, OfferingRows,
         ActiveAssignmentHasActiveOffering, ActiveProgramHasActiveOffering,
         InactiveProgramHasNoSchools

\* What a reshuffle of the offerings of one provider or type preserves: the
\* types of what it assigns, rows once made, the offerings in use, and the
\* agreement of programs with their offerings and schools.
LEMMA UpdateProgramsKeeps ==
  ASSUME IInv,
         NEW mine \in SUBSET Offering, NEW created \in SUBSET mine, NEW selected,
         UpdatePrograms(mine, created, selected)
  PROVE  /\ offering' \in [Offering -> RowState]
         /\ program' \in [Programs -> RowState]
         /\ schools' \in [Programs -> SUBSET Schools]
         /\ \A o \in Offering : offering'[o] # "absent" <=> o \in OfferingRows \cup created
         /\ \A p \in ProgramRows : program'[p] # "absent"
         /\ \A o \in Offering : InUse(o) /\ offering[o] = "active" => offering'[o] = "active"
         /\ \A p \in Programs : program'[p] = "active" =>
              \E o \in Offering : o.program = p /\ offering'[o] = "active"
         /\ \A p \in Programs : program'[p] # "active" => schools'[p] = {}
<1> DEFINE rows == OfferingRows \cap mine
           removed == {o \in rows : o.program \notin selected}
           candidates == {o.program : o \in rows \cup created}
           idle == {p \in candidates :
                      \A o \in Offering : o.program = p => offering'[o] # "active"}
<1>1. /\ \A o \in removed : ~InUse(o)
      /\ offering' = [o \in Offering |-> IF o \in created THEN "active"
                                         ELSE IF o \in removed THEN "inactive"
                                         ELSE offering[o]]
      /\ program' = [p \in Programs |-> IF p \in idle THEN "inactive" ELSE program[p]]
      /\ schools' = [p \in Programs |-> IF p \in idle THEN {} ELSE schools[p]]
  BY DEF UpdatePrograms, SetOfferings, DeactivatePrograms
<1>2. /\ offering \in [Offering -> RowState]
      /\ program \in [Programs -> RowState]
      /\ schools \in [Programs -> SUBSET Schools]
  BY DEF IInv, TypeOK
<1> HIDE DEF rows, removed, candidates, idle
<1>3. removed \subseteq OfferingRows /\ created \subseteq Offering
  BY DEF removed, rows
<1>4. offering' \in [Offering -> RowState]
  BY <1>1, <1>2 DEF RowState
<1>5. program' \in [Programs -> RowState] /\ schools' \in [Programs -> SUBSET Schools]
  BY <1>1, <1>2 DEF RowState
<1>6. \A o \in Offering : offering'[o] # "absent" <=> o \in OfferingRows \cup created
  BY <1>1, <1>2, <1>3 DEF OfferingRows
<1>7. \A p \in ProgramRows : program'[p] # "absent"
  BY <1>1, <1>2 DEF ProgramRows
<1>8. \A o \in Offering : InUse(o) /\ offering[o] = "active" => offering'[o] = "active"
  BY <1>1
<1>9. ASSUME NEW p \in Programs, program'[p] = "active"
      PROVE  \E o \in Offering : o.program = p /\ offering'[o] = "active"
  <2>1. p \notin idle /\ program[p] = "active"
    BY <1>1, <1>9
  <2>2. PICK o \in Offering : o.program = p /\ offering[o] = "active"
    BY <2>1 DEF IInv, ActiveProgramHasActiveOffering
  <2>3. CASE p \in candidates
    BY <2>1, <2>3 DEF idle
  <2>4. CASE p \notin candidates
    <3>1. o \notin created /\ o \notin removed
      BY <2>2, <2>4 DEF candidates, removed
    <3>2. QED BY <1>1, <2>2, <3>1
  <2>5. QED BY <2>3, <2>4
<1>10. \A p \in Programs : program'[p] # "active" => schools'[p] = {}
  BY <1>1 DEF IInv, InactiveProgramHasNoSchools
<1>11. QED
  BY <1>4, <1>5, <1>6, <1>7, <1>8, <1>9, <1>10 DEF ProgramRows

-----------------------------------------------------------------------------
\* A step that leaves the assignments alone, makes offerings of existing rows
\* only and keeps programs in agreement with them preserves the invariant.
LEMMA CatalogStep ==
  ASSUME IInv, UNCHANGED assignments,
         provider' \in [Providers -> RowState],
         serviceType' \in [ServiceTypes -> RowState],
         program' \in [Programs -> RowState],
         offering' \in [Offering -> RowState],
         schools' \in [Programs -> SUBSET Schools],
         associates' \in [Providers -> SUBSET Associates],
         \A r \in ProviderRows : provider'[r] # "absent",
         \A t \in TypeRows : serviceType'[t] # "absent",
         \A p \in ProgramRows : program'[p] # "absent",
         \A o \in Offering : offering'[o] # "absent" =>
            \/ o \in OfferingRows
            \/ /\ provider'[o.provider] # "absent"
               /\ serviceType'[o.type] # "absent"
               /\ program'[o.program] # "absent",
         \A o \in Offering : InUse(o) /\ offering[o] = "active" => offering'[o] = "active",
         \A p \in Programs : program'[p] = "active" =>
            \E o \in Offering : o.program = p /\ offering'[o] = "active",
         \A p \in Programs : program'[p] # "active" => schools'[p] = {}
  PROVE  IInv'
<1>1. \A o \in OfferingRows : /\ provider[o.provider] # "absent"
                              /\ serviceType[o.type] # "absent"
                              /\ program[o.program] # "absent"
  BY DEF IInv, TypeOK, ProviderRows, TypeRows, ProgramRows
<1>2. ASSUME NEW o \in Offering, offering'[o] # "absent"
      PROVE  /\ provider'[o.provider] # "absent"
             /\ serviceType'[o.type] # "absent"
             /\ program'[o.program] # "absent"
  <2>1. o.provider \in Providers /\ o.type \in ServiceTypes /\ o.program \in Programs
    BY DEF Offering
  <2>2. QED BY <1>1, <1>2, <2>1 DEF ProviderRows, TypeRows, ProgramRows
<1>3. TypeOK'
  BY <1>2 DEF IInv, TypeOK, OfferingRows, ProviderRows, TypeRows, ProgramRows, Offering
<1>4. ActiveAssignmentHasActiveOffering'
  BY DEF IInv, TypeOK, ActiveAssignmentHasActiveOffering, InUse, Assignment
<1>5. ActiveProgramHasActiveOffering' /\ InactiveProgramHasNoSchools'
  BY DEF ActiveProgramHasActiveOffering, InactiveProgramHasNoSchools
<1>6. QED BY <1>3, <1>4, <1>5 DEF IInv

-----------------------------------------------------------------------------
\* The operations of ProviderManager.
LEMMA ProviderStepKeeps == ASSUME IInv, ProviderStep PROVE IInv'
<1>1. PICK r \in Providers :
        \/ \E selected \in SUBSET Listed(program) : CreateProvider(r, selected)
        \/ \E selected \in SUBSET Listed(program) : EditProvider(r, selected)
        \/ DeleteProvider(r)
  BY DEF ProviderStep
<1>2. PICK selected \in SUBSET Listed(program) :
        /\ UpdateProviderPrograms(r, selected)
        /\ UNCHANGED <<serviceType, assignments>>
        /\ \/ provider' = [provider EXCEPT ![r] = "active"] /\ UNCHANGED associates
           \/ provider' = provider /\ provider[r] = "active" /\ UNCHANGED associates
           \/ /\ selected = {} /\ provider' = [provider EXCEPT ![r] = "inactive"]
              /\ associates' = [associates EXCEPT ![r] = {}]
  BY <1>1 DEF CreateProvider, EditProvider, DeleteProvider
<1> DEFINE mine == {o \in Offering : o.provider = r}
           created == {o \in mine : o.program \in selected /\ o.type \in OfferedTypes(o.program)}
<1>3. UpdatePrograms(mine, created, selected)
  BY <1>2 DEF UpdateProviderPrograms
<1>4. mine \in SUBSET Offering /\ created \in SUBSET mine
  OBVIOUS
<1> HIDE DEF mine
<1>5. /\ provider' \in [Providers -> RowState]
      /\ associates' \in [Providers -> SUBSET Associates]
      /\ serviceType' \in [ServiceTypes -> RowState]
      /\ \A q \in ProviderRows : provider'[q] # "absent"
      /\ provider'[r] # "absent"
  BY <1>2 DEF IInv, TypeOK, RowState, ProviderRows
<1>6. \A o \in created : /\ provider'[o.provider] # "absent"
                         /\ serviceType'[o.type] # "absent"
                         /\ o.program \in ProgramRows
  <2>1. TAKE o \in created
  <2>2. o.provider = r
    BY DEF mine
  <2>3. PICK x \in OfferingRows : x.type = o.type /\ x.program = o.program
    BY DEF OfferedTypes
  <2>4. x.type \in TypeRows /\ x.program \in ProgramRows
    BY DEF IInv, TypeOK
  <2>5. QED BY <1>2, <1>5, <2>2, <2>3, <2>4 DEF TypeRows
<1> HIDE DEF created
<1>7. QED
  BY ONLY IInv, CatalogStep, UpdateProgramsKeeps, <1>2, <1>3, <1>4, <1>5, <1>6 DEF TypeRows

\* The operations of ServiceTypeManager, by the same argument.
LEMMA ServiceTypeStepKeeps == ASSUME IInv, ServiceTypeStep PROVE IInv'
<1>1. PICK t \in ServiceTypes :
        \/ \E selected \in SUBSET Listed(program) : CreateServiceType(t, selected)
        \/ \E selected \in SUBSET Listed(program) : EditServiceType(t, selected)
        \/ DeleteServiceType(t)
  BY DEF ServiceTypeStep, IInv, TypeOK, Listed
<1>2. PICK selected \in SUBSET Listed(program) :
        /\ UpdateServiceTypePrograms(t, selected)
        /\ UNCHANGED <<provider, associates, assignments>>
        /\ \/ serviceType' = [serviceType EXCEPT ![t] = "active"]
           \/ serviceType' = serviceType /\ t \in TypeRows
           \/ selected = {} /\ serviceType' = [serviceType EXCEPT ![t] = "inactive"]
  BY <1>1 DEF CreateServiceType, EditServiceType, DeleteServiceType
<1> DEFINE mine == {o \in Offering : o.type = t}
           created == {o \in mine : o.program \in selected /\ o.provider \in OfferedBy(o.program)}
<1>3. UpdatePrograms(mine, created, selected)
  BY <1>2 DEF UpdateServiceTypePrograms
<1>4. mine \in SUBSET Offering /\ created \in SUBSET mine
  OBVIOUS
<1> HIDE DEF mine
<1>5. /\ provider' \in [Providers -> RowState]
      /\ associates' \in [Providers -> SUBSET Associates]
      /\ serviceType' \in [ServiceTypes -> RowState]
      /\ \A q \in TypeRows : serviceType'[q] # "absent"
      /\ serviceType'[t] # "absent"
  BY <1>2 DEF IInv, TypeOK, RowState, TypeRows
<1>6. \A o \in created : /\ provider'[o.provider] # "absent"
                         /\ serviceType'[o.type] # "absent"
                         /\ o.program \in ProgramRows
  <2>1. TAKE o \in created
  <2>2. o.type = t
    BY DEF mine
  <2>3. PICK x \in OfferingRows : x.provider = o.provider /\ x.program = o.program
    BY DEF OfferedBy
  <2>4. x.provider \in ProviderRows /\ x.program \in ProgramRows
    BY DEF IInv, TypeOK
  <2>5. QED BY <1>2, <1>5, <2>2, <2>3, <2>4 DEF ProviderRows
<1> HIDE DEF created
<1>7. QED
  BY ONLY IInv, CatalogStep, UpdateProgramsKeeps, <1>2, <1>3, <1>4, <1>5, <1>6 DEF ProviderRows

-----------------------------------------------------------------------------
\* What the operations of ProgramManager do to the offerings, in one formula.
LEMMA SetOfferingsKeeps ==
  ASSUME IInv, NEW on \in SUBSET Offering, NEW off \in SUBSET OfferingRows,
         SetOfferings(on, off), \A o \in off : ~InUse(o)
  PROVE  /\ offering' \in [Offering -> RowState]
         /\ \A o \in on : offering'[o] = "active"
         /\ \A o \in Offering : offering'[o] # "absent" => o \in OfferingRows \cup on
         /\ \A o \in Offering : InUse(o) /\ offering[o] = "active" => offering'[o] = "active"
         /\ \A o \in Offering : o \notin on \cup off => offering'[o] = offering[o]
  BY DEF SetOfferings, IInv, TypeOK, RowState, OfferingRows

\* Creating or reopening a program.
LEMMA CreateProgramKeeps ==
  ASSUME IInv, NEW p \in Programs, NEW ss \in SUBSET Schools,
         NEW rs \in SUBSET ProviderRows, NEW ts \in SUBSET TypeRows,
         CreateProgram(p, rs, ts, ss)
  PROVE  IInv'
<1> DEFINE on == Mappings(p, rs, ts)
<1>1. /\ SetOfferings(on, {})
      /\ program' = [program EXCEPT ![p] = "active"]
      /\ schools' = [schools EXCEPT ![p] = ss]
      /\ UNCHANGED <<provider, serviceType, associates, assignments>>
      /\ on # {}
  BY DEF CreateProgram
<1>2. on \in SUBSET Offering /\ \A o \in on : /\ o.program = p
                                              /\ o.provider \in ProviderRows
                                              /\ o.type \in TypeRows
  BY DEF Mappings
<1> HIDE DEF on
<1>3. /\ offering' \in [Offering -> RowState]
      /\ \A o \in on : offering'[o] = "active"
      /\ \A o \in Offering : offering'[o] # "absent" => o \in OfferingRows \cup on
      /\ \A o \in Offering : InUse(o) /\ offering[o] = "active" => offering'[o] = "active"
      /\ \A o \in Offering : o \notin on => offering'[o] = offering[o]
  <2>1. {} \in SUBSET OfferingRows /\ \A o \in {} : ~InUse(o)
    OBVIOUS
  <2>2. on \cup {} = on
    OBVIOUS
  <2>3. QED BY ONLY IInv, <1>1, <1>2, <2>1, <2>2, SetOfferingsKeeps
<1>4. /\ program' \in [Programs -> RowState] /\ schools' \in [Programs -> SUBSET Schools]
      /\ \A q \in ProgramRows : program'[q] # "absent"
      /\ program'[p] = "active"
      /\ \A q \in Programs : program'[q] # "active" => schools'[q] = {}
  BY <1>1 DEF IInv, TypeOK, RowState, ProgramRows, InactiveProgramHasNoSchools
<1>5. ASSUME NEW q \in Programs, program'[q] = "active"
      PROVE  \E o \in Offering : o.program = q /\ offering'[o] = "active"
  <2>1. CASE q = p
    BY <1>1, <1>2, <1>3, <2>1
  <2>2. CASE q # p
    BY <1>1, <1>2, <1>3, <1>5, <2>2 DEF IInv, TypeOK, ActiveProgramHasActiveOffering
  <2>3. QED BY <2>1, <2>2
<1>6. /\ provider' = provider /\ serviceType' = serviceType
      /\ associates' = associates /\ assignments' = assignments
      /\ provider \in [Providers -> RowState] /\ serviceType \in [ServiceTypes -> RowState]
      /\ associates \in [Providers -> SUBSET Associates]
  BY <1>1 DEF IInv, TypeOK
<1>7. QED
  BY ONLY IInv, CatalogStep, <1>2, <1>3, <1>4, <1>5, <1>6 DEF ProviderRows, TypeRows

\* Editing a program.
LEMMA EditProgramKeeps ==
  ASSUME IInv, NEW p \in Programs, NEW ss \in SUBSET Schools,
         NEW rs \in SUBSET ProviderRows, NEW ts \in SUBSET TypeRows,
         rs # {}, ts # {}, EditProgram(p, rs, ts, ss)
  PROVE  IInv'
<1> DEFINE on == Mappings(p, rs, ts)
           off == {o \in OfferingRows : o.program = p} \ on
<1>1. /\ program[p] = "active" /\ \A o \in off : ~InUse(o)
      /\ SetOfferings(on, off)
      /\ schools' = [schools EXCEPT ![p] = ss]
      /\ UNCHANGED <<provider, serviceType, program, associates, assignments>>
  BY DEF EditProgram
<1>2. on \in SUBSET Offering /\ \A o \in on : /\ o.program = p
                                              /\ o.provider \in ProviderRows
                                              /\ o.type \in TypeRows
  BY DEF Mappings
<1>3. on # {}
  <2>1. PICK r \in rs, t \in ts : TRUE
    OBVIOUS
  <2>2. [provider |-> r, type |-> t, program |-> p] \in on
    BY DEF Mappings, Offering, ProviderRows, TypeRows
  <2>3. QED BY <2>2
<1>4. off \in SUBSET OfferingRows /\ \A o \in off : o.program = p
  OBVIOUS
<1> HIDE DEF on, off
<1>5. /\ offering' \in [Offering -> RowState]
      /\ \A o \in on : offering'[o] = "active"
      /\ \A o \in Offering : offering'[o] # "absent" => o \in OfferingRows \cup on
      /\ \A o \in Offering : InUse(o) /\ offering[o] = "active" => offering'[o] = "active"
      /\ \A o \in Offering : o \notin on \cup off => offering'[o] = offering[o]
  BY <1>1, <1>2, <1>4, SetOfferingsKeeps
<1>6. /\ program' = program /\ program \in [Programs -> RowState]
      /\ schools' \in [Programs -> SUBSET Schools]
      /\ \A q \in Programs : program'[q] # "active" => schools'[q] = {}
  BY <1>1 DEF IInv, TypeOK, InactiveProgramHasNoSchools
<1>7. ASSUME NEW q \in Programs, program'[q] = "active"
      PROVE  \E o \in Offering : o.program = q /\ offering'[o] = "active"
  <2>1. CASE q = p
    BY <1>2, <1>3, <1>5, <2>1
  <2>2. CASE q # p
    BY <1>2, <1>4, <1>5, <1>6, <1>7, <2>2 DEF IInv, ActiveProgramHasActiveOffering
  <2>3. QED BY <2>1, <2>2
<1>8. /\ provider' = provider /\ serviceType' = serviceType
      /\ associates' = associates /\ assignments' = assignments
      /\ provider \in [Providers -> RowState] /\ serviceType \in [ServiceTypes -> RowState]
      /\ associates \in [Providers -> SUBSET Associates]
  BY <1>1 DEF IInv, TypeOK
<1>9. program[p] # "absent"
  BY <1>1
<1>10. QED
  BY ONLY IInv, CatalogStep, <1>2, <1>5, <1>6, <1>7, <1>8, <1>9
     DEF ProviderRows, TypeRows, ProgramRows

\* Deleting a program.
LEMMA DeleteProgramKeeps ==
  ASSUME IInv, NEW p \in Programs, DeleteProgram(p)
  PROVE  IInv'
<1> DEFINE off == {o \in OfferingRows : o.program = p}
<1>1. /\ p \in ProgramRows /\ \A o \in off : ~InUse(o)
      /\ SetOfferings({}, off)
      /\ program' = [program EXCEPT ![p] = "inactive"]
      /\ schools' = [schools EXCEPT ![p] = {}]
      /\ UNCHANGED <<provider, serviceType, associates, assignments>>
  BY DEF DeleteProgram, OfferingRows
<1>2. off \in SUBSET OfferingRows /\ \A o \in off : o.program = p
  OBVIOUS
<1> HIDE DEF off
<1>3. /\ offering' \in [Offering -> RowState]
      /\ \A o \in Offering : offering'[o] # "absent" => o \in OfferingRows
      /\ \A o \in Offering : InUse(o) /\ offering[o] = "active" => offering'[o] = "active"
      /\ \A o \in Offering : o \notin off => offering'[o] = offering[o]
  <2>1. {} \in SUBSET Offering
    OBVIOUS
  <2>2. QED BY <1>1, <1>2, <2>1, SetOfferingsKeeps
<1>4. /\ program' \in [Programs -> RowState] /\ schools' \in [Programs -> SUBSET Schools]
      /\ \A q \in ProgramRows : program'[q] # "absent"
      /\ \A q \in Programs : program'[q] # "active" => schools'[q] = {}
  BY <1>1 DEF IInv, TypeOK, RowState, ProgramRows, InactiveProgramHasNoSchools
<1>5. ASSUME NEW q \in Programs, program'[q] = "active"
      PROVE  \E o \in Offering : o.program = q /\ offering'[o] = "active"
  <2>1. q # p /\ program[q] = "active"
    BY <1>1, <1>5 DEF IInv, TypeOK
  <2>2. QED BY <1>2, <1>3, <2>1 DEF IInv, ActiveProgramHasActiveOffering
<1>6. /\ provider' = provider /\ serviceType' = serviceType
      /\ associates' = associates /\ assignments' = assignments
      /\ provider \in [Providers -> RowState] /\ serviceType \in [ServiceTypes -> RowState]
      /\ associates \in [Providers -> SUBSET Associates]
  BY <1>1 DEF IInv, TypeOK
<1>7. QED
  BY ONLY IInv, CatalogStep, <1>3, <1>4, <1>5, <1>6 DEF ProviderRows, TypeRows

\* The operations of ProgramManager.
LEMMA ProgramStepKeeps == ASSUME IInv, ProgramStep PROVE IInv'
<1>1. CASE \E p \in Programs, ss \in SUBSET Schools,
              rs \in SUBSET Listed(provider), ts \in SUBSET Listed(serviceType) :
             rs # {} /\ ts # {} /\ (CreateProgram(p, rs, ts, ss) \/ EditProgram(p, rs, ts, ss))
  <2>1. Listed(provider) \subseteq ProviderRows /\ Listed(serviceType) \subseteq TypeRows
    BY DEF Listed, IInv, TypeOK, ProviderRows, TypeRows
  <2>2. PICK p \in Programs, ss \in SUBSET Schools, rs \in SUBSET ProviderRows,
             ts \in SUBSET TypeRows :
          rs # {} /\ ts # {} /\ (CreateProgram(p, rs, ts, ss) \/ EditProgram(p, rs, ts, ss))
    BY <1>1, <2>1
  <2>3. CASE CreateProgram(p, rs, ts, ss)
    BY <2>3, CreateProgramKeeps
  <2>4. CASE EditProgram(p, rs, ts, ss)
    BY <2>2, <2>4, EditProgramKeeps
  <2>5. QED BY <2>2, <2>3, <2>4
<1>2. CASE \E p \in Programs : DeleteProgram(p)
  BY <1>2, DeleteProgramKeeps
<1>3. QED BY <1>1, <1>2 DEF ProgramStep

-----------------------------------------------------------------------------
\* A step that leaves the catalog alone preserves the invariant if it keeps the
\* identities of assignments unique and makes active ones on active offerings.
LEMMA PeopleStep ==
  ASSUME IInv, UNCHANGED catalogVars,
         associates' \in [Providers -> SUBSET Associates],
         assignments' \subseteq Assignment,
         \A a \in assignments', b \in assignments' : a.id = b.id => a = b,
         \A a \in assignments' : a.isActive => offering[a.offering] = "active"
  PROVE  IInv'
  BY DEF IInv, catalogVars, TypeOK, ProviderRows, TypeRows, ProgramRows, OfferingRows,
         ActiveAssignmentHasActiveOffering, ActiveProgramHasActiveOffering,
         InactiveProgramHasNoSchools

\* Students and user roles come to and leave providers.
LEMMA AssociationStepKeeps == ASSUME IInv, AssociationStep PROVE IInv'
<1>1. PICK r \in Providers, h \in Associates : Associate(r, h) \/ Dissociate(r, h)
  BY DEF AssociationStep
<1>2. associates' \in [Providers -> SUBSET Associates]
  BY <1>1 DEF Associate, Dissociate, IInv, TypeOK
<1>3. UNCHANGED <<catalogVars, assignments>>
  BY <1>1 DEF Associate, Dissociate
<1>4. QED
  BY <1>2, <1>3, PeopleStep DEF IInv, TypeOK, ActiveAssignmentHasActiveOffering

\* The operations of ScheduledServiceManager.
LEMMA ScheduleStepKeeps == ASSUME IInv, ScheduleStep PROVE IInv'
<1>1. /\ assignments \subseteq Assignment
      /\ \A a \in assignments, b \in assignments : a.id = b.id => a = b
      /\ associates \in [Providers -> SUBSET Associates]
      /\ \A a \in assignments : a.isActive => offering[a.offering] = "active"
  BY DEF IInv, TypeOK, ActiveAssignmentHasActiveOffering
<1>2. CASE \E o \in Offering, ids \in (SUBSET AssignmentIds) \ {{}} : ScheduleOffering(o, ids)
  <2>1. PICK o \in Offering, ids \in SUBSET AssignmentIds : ScheduleOffering(o, ids)
    BY <1>2
  <2> DEFINE new == {[id |-> i, offering |-> o, isActive |-> TRUE] : i \in ids}
  <2>2. /\ offering[o] = "active" /\ \A a \in assignments : a.id \notin ids
        /\ assignments' = assignments \cup new
        /\ UNCHANGED <<catalogVars, associates>>
    BY <2>1 DEF ScheduleOffering
  <2>3. \A a \in new : \E i \in ids : a = [id |-> i, offering |-> o, isActive |-> TRUE]
    OBVIOUS
  <2>4. ASSUME NEW a \in new
        PROVE  /\ a \in Assignment /\ a.id \in ids /\ a.offering = o
               /\ \A b \in new : a.id = b.id => a = b
    <3>1. PICK i \in ids : a = [id |-> i, offering |-> o, isActive |-> TRUE]
      BY <2>3
    <3>2. a.id = i /\ a.offering = o
      BY <3>1
    <3>3. a \in Assignment
      BY <3>1, Zenon DEF Assignment
    <3>4. ASSUME NEW b \in new, a.id = b.id PROVE a = b
      <4>1. PICK j \in ids : b = [id |-> j, offering |-> o, isActive |-> TRUE]
        BY <2>3
      <4>2. QED BY <3>1, <3>4, <4>1
    <3>5. QED BY <3>2, <3>3, <3>4
  <2> HIDE DEF new
  <2>5. \A a \in assignments', b \in assignments' : a.id = b.id => a = b
    BY <1>1, <2>2, <2>4
  <2>6. QED BY <1>1, <2>2, <2>4, <2>5, PeopleStep
<1>3. CASE \E a \in assignments : DeleteScheduledOffering(a)
  <2>1. PICK a \in assignments : DeleteScheduledOffering(a)
    BY <1>3
  <2> DEFINE gone == [a EXCEPT !.isActive = FALSE]
  <2>2. /\ assignments' = (assignments \ {a}) \cup {gone}
        /\ UNCHANGED <<catalogVars, associates>>
    BY <2>1 DEF DeleteScheduledOffering
  <2>3. a \in Assignment
    BY <1>1
  <2>4. gone \in Assignment /\ gone.id = a.id /\ gone.isActive = FALSE
    BY <2>3 DEF Assignment
  <2> HIDE DEF gone
  <2>5. \A b \in assignments', c \in assignments' : b.id = c.id => b = c
    BY <1>1, <2>2, <2>4
  <2>6. QED BY <1>1, <2>2, <2>4, <2>5, PeopleStep
<1>4. QED BY <1>2, <1>3 DEF ScheduleStep

-----------------------------------------------------------------------------
\* The invariant is inductive.
LEMMA NextIInv == IInv /\ [Next]_vars => IInv'
<1> SUFFICES ASSUME IInv, [Next]_vars PROVE IInv'
  OBVIOUS
<1>1. CASE ProviderStep    BY <1>1, ProviderStepKeeps
<1>2. CASE ServiceTypeStep BY <1>2, ServiceTypeStepKeeps
<1>3. CASE ProgramStep     BY <1>3, ProgramStepKeeps
<1>4. CASE AssociationStep BY <1>4, AssociationStepKeeps
<1>5. CASE ScheduleStep    BY <1>5, ScheduleStepKeeps
<1>6. CASE UNCHANGED vars
  BY <1>6 DEF vars, IInv, TypeOK, ProviderRows, TypeRows, ProgramRows, OfferingRows,
              ActiveAssignmentHasActiveOffering, ActiveProgramHasActiveOffering,
              InactiveProgramHasNoSchools
<1>7. QED BY <1>1, <1>2, <1>3, <1>4, <1>5, <1>6 DEF Next

\* The inductive invariant holds in every reachable state.
LEMMA Invariance == Spec => []IInv
  BY InitIInv, NextIInv, PTL DEF Spec

\* The variables keep their types, rows refer to rows that exist, and an
\* assignment has one row.
THEOREM TypeCorrect == Spec => []TypeOK
<1>1. IInv => TypeOK
  BY DEF IInv
<1>2. QED BY <1>1, Invariance, PTL

\* No manager withdraws an offering a student is actively assigned to.
THEOREM AssignmentsKeepTheirOffering == Spec => []ActiveAssignmentHasActiveOffering
<1>1. IInv => ActiveAssignmentHasActiveOffering
  BY DEF IInv
<1>2. QED BY <1>1, Invariance, PTL

\* A program shown as active offers something, even when late forms are posted.
THEOREM ActiveProgramsOffer == Spec => []ActiveProgramHasActiveOffering
<1>1. IInv => ActiveProgramHasActiveOffering
  BY DEF IInv
<1>2. QED BY <1>1, Invariance, PTL

\* Whatever closes a program also withdraws it from its schools.
THEOREM ClosedProgramsLeaveSchools == Spec => []InactiveProgramHasNoSchools
<1>1. IInv => InactiveProgramHasNoSchools
  BY DEF IInv
<1>2. QED BY <1>1, Invariance, PTL

-----------------------------------------------------------------------------
\* Every operation of the three catalog managers activates some offerings and
\* deactivates others, none of which is in use.
LEMMA CatalogStepsSetOfferings ==
  ASSUME ProviderStep \/ ServiceTypeStep \/ ProgramStep
  PROVE  /\ UNCHANGED assignments
         /\ \E on, off : SetOfferings(on, off) /\ \A o \in off : ~InUse(o)
<1>1. ASSUME NEW mine, NEW created, NEW selected, UpdatePrograms(mine, created, selected)
      PROVE  \E on, off : SetOfferings(on, off) /\ \A o \in off : ~InUse(o)
  BY <1>1 DEF UpdatePrograms
<1>2. CASE ProviderStep
  <2>1. /\ UNCHANGED assignments
        /\ \E r, selected : UpdateProviderPrograms(r, selected)
    BY <1>2 DEF ProviderStep, CreateProvider, EditProvider, DeleteProvider
  <2>2. QED BY <1>1, <2>1 DEF UpdateProviderPrograms
<1>3. CASE ServiceTypeStep
  <2>1. /\ UNCHANGED assignments
        /\ \E t, selected : UpdateServiceTypePrograms(t, selected)
    BY <1>3 DEF ServiceTypeStep, CreateServiceType, EditServiceType, DeleteServiceType
  <2>2. QED BY <1>1, <2>1 DEF UpdateServiceTypePrograms
<1>4. CASE ProgramStep
  <2>1. CASE \E p, rs, ts, ss : CreateProgram(p, rs, ts, ss)
    <3>1. \A o \in {} : ~InUse(o)
      OBVIOUS
    <3>2. QED BY <2>1, <3>1 DEF CreateProgram
  <2>2. CASE \E p, rs, ts, ss : EditProgram(p, rs, ts, ss)
    BY <2>2 DEF EditProgram
  <2>3. CASE \E p : DeleteProgram(p)
    BY <2>3 DEF DeleteProgram, OfferingRows
  <2>4. QED BY <1>4, <2>1, <2>2, <2>3 DEF ProgramStep
<1>5. QED BY <1>2, <1>3, <1>4

\* Every step of the catalog is a step of the lifecycle it promises, or a
\* stutter of it.
LEMMA StepRefines == IInv /\ IInv' /\ [Next]_vars => [Lifecycle!LifecycleNext]_(Lifecycle!lifecycleVars)
<1> SUFFICES ASSUME IInv, IInv', [Next]_vars
             PROVE  [Lifecycle!LifecycleNext]_(Lifecycle!lifecycleVars)
  OBVIOUS
<1>1. CASE ProviderStep \/ ServiceTypeStep \/ ProgramStep
  <2>1. PICK on, off : SetOfferings(on, off) /\ \A o \in off : ~InUse(o)
    BY <1>1, CatalogStepsSetOfferings
  <2>2. UNCHANGED assignments /\ offering' \in [Offering -> RowState]
    BY <1>1, CatalogStepsSetOfferings DEF IInv, TypeOK
  <2>3. \A o \in Offering :
          /\ offering'[o] = "absent" => offering[o] = "absent"
          /\ offering[o] = "active" /\ InUse(o) => offering'[o] = "active"
    BY <2>1 DEF SetOfferings
  <2>4. Lifecycle!Recatalogue
    BY <2>2, <2>3 DEF Lifecycle!Recatalogue, Lifecycle!RowState, Lifecycle!InUse, RowState, InUse
  <2>5. QED BY <2>4 DEF Lifecycle!LifecycleNext
<1>2. CASE ScheduleStep
  <2>1. CASE \E o \in Offering, ids \in (SUBSET AssignmentIds) \ {{}} : ScheduleOffering(o, ids)
    BY <2>1 DEF ScheduleOffering, catalogVars, Lifecycle!LifecycleNext, Lifecycle!Schedule
  <2>2. CASE \E a \in assignments : DeleteScheduledOffering(a)
    BY <2>2 DEF DeleteScheduledOffering, catalogVars, Lifecycle!LifecycleNext, Lifecycle!Cancel
  <2>3. QED BY <1>2, <2>1, <2>2 DEF ScheduleStep
<1>3. CASE AssociationStep
  BY <1>3 DEF AssociationStep, Associate, Dissociate, catalogVars, Lifecycle!lifecycleVars
<1>4. CASE UNCHANGED vars
  BY <1>4 DEF vars, Lifecycle!lifecycleVars
<1>5. QED BY <1>1, <1>2, <1>3, <1>4 DEF Next

\* The catalog implements the offering lifecycle.
THEOREM CatalogImplementsLifecycle == Spec => ImplementsLifecycle
<1>1. Init => Lifecycle!LifecycleInit
  BY DEF Init, Lifecycle!LifecycleInit
<1>2. QED
  BY <1>1, Invariance, StepRefines, PTL DEF Spec, ImplementsLifecycle, Lifecycle!LifecycleSpec

-----------------------------------------------------------------------------
\* A reshuffle that selects active programs only leaves no offering of a closed
\* program active.
LEMMA UpdateProgramsOffersNothingClosed ==
  ASSUME IInv, InactiveProgramOffersNothing,
         NEW mine \in SUBSET Offering, NEW created \in SUBSET mine, NEW selected,
         \A o \in created : program[o.program] = "active",
         UpdatePrograms(mine, created, selected)
  PROVE  InactiveProgramOffersNothing'
<1> DEFINE rows == OfferingRows \cap mine
           removed == {o \in rows : o.program \notin selected}
           candidates == {o.program : o \in rows \cup created}
           idle == {p \in candidates :
                      \A o \in Offering : o.program = p => offering'[o] # "active"}
<1>1. /\ offering' = [o \in Offering |-> IF o \in created THEN "active"
                                         ELSE IF o \in removed THEN "inactive"
                                         ELSE offering[o]]
      /\ program' = [p \in Programs |-> IF p \in idle THEN "inactive" ELSE program[p]]
  BY DEF UpdatePrograms, SetOfferings, DeactivatePrograms
<1>2. \A o \in Offering : o.program \in Programs
  BY DEF Offering
<1> HIDE DEF rows, removed, candidates
<1>3. ASSUME NEW o \in Offering, offering'[o] = "active" PROVE program'[o.program] = "active"
  <2>1. o.program \notin idle
    BY <1>3
  <2>2. program[o.program] = "active"
    BY <1>1, <1>3 DEF InactiveProgramOffersNothing
  <2> HIDE DEF idle
  <2>3. QED BY <1>1, <1>2, <2>1, <2>2
<1>4. QED BY <1>3 DEF InactiveProgramOffersNothing

\* The same of every step, when forms list active rows only.
LEMMA NextOffersNothingClosed ==
  ASSUME StaleForms = FALSE, IInv, InactiveProgramOffersNothing, [Next]_vars
  PROVE  InactiveProgramOffersNothing'
<1>1. \A p \in Listed(program) : program[p] = "active"
  BY DEF Listed
<1>2. CASE ProviderStep
  <2>1. PICK r \in Providers, selected \in SUBSET Listed(program) : UpdateProviderPrograms(r, selected)
    BY <1>2 DEF ProviderStep, CreateProvider, EditProvider, DeleteProvider
  <2> DEFINE mine == {o \in Offering : o.provider = r}
             created == {o \in mine : o.program \in selected /\ o.type \in OfferedTypes(o.program)}
  <2>2. UpdatePrograms(mine, created, selected)
    BY <2>1 DEF UpdateProviderPrograms
  <2>3. /\ mine \in SUBSET Offering /\ created \in SUBSET mine
        /\ \A o \in created : program[o.program] = "active"
    BY <1>1
  <2> HIDE DEF mine, created
  <2>4. QED BY <2>2, <2>3, UpdateProgramsOffersNothingClosed
<1>3. CASE ServiceTypeStep
  <2>1. PICK t : \E selected \in SUBSET Listed(program) : UpdateServiceTypePrograms(t, selected)
    <3>1. {} \in SUBSET Listed(program)
      OBVIOUS
    <3>2. QED
      BY <1>3, <3>1 DEF ServiceTypeStep, CreateServiceType, EditServiceType, DeleteServiceType
  <2>2. PICK selected \in SUBSET Listed(program) : UpdateServiceTypePrograms(t, selected)
    BY <2>1
  <2> DEFINE mine == {o \in Offering : o.type = t}
             created == {o \in mine : o.program \in selected /\ o.provider \in OfferedBy(o.program)}
  <2>3. UpdatePrograms(mine, created, selected)
    BY <2>2 DEF UpdateServiceTypePrograms
  <2>4. /\ mine \in SUBSET Offering /\ created \in SUBSET mine
        /\ \A o \in created : program[o.program] = "active"
    BY <1>1
  <2> HIDE DEF mine, created
  <2>5. QED BY <2>3, <2>4, UpdateProgramsOffersNothingClosed
<1>4. CASE ProgramStep
  <2>1. PICK p \in Programs :
          \/ \E rs, ts, ss : CreateProgram(p, rs, ts, ss) \/ EditProgram(p, rs, ts, ss)
          \/ DeleteProgram(p)
    BY <1>4 DEF ProgramStep
  <2>2. CASE \E rs, ts, ss : CreateProgram(p, rs, ts, ss) \/ EditProgram(p, rs, ts, ss)
    <3>1. PICK rs, ts, off : SetOfferings(Mappings(p, rs, ts), off)
      BY <2>2 DEF CreateProgram, EditProgram
    <3>2. /\ program' \in [Programs -> RowState] /\ program'[p] = "active"
          /\ \A q \in Programs \ {p} : program'[q] = program[q]
      BY <2>2 DEF CreateProgram, EditProgram, IInv, TypeOK, RowState
    <3>3. ASSUME NEW o \in Offering, o.program # p, offering'[o] = "active"
          PROVE  offering[o] = "active"
      BY <3>1, <3>3 DEF SetOfferings, Mappings
    <3>4. QED BY <3>2, <3>3 DEF InactiveProgramOffersNothing, Offering
  <2>3. CASE DeleteProgram(p)
    <3>1. /\ program' = [program EXCEPT ![p] = "inactive"]
          /\ SetOfferings({}, {o \in OfferingRows : o.program = p})
      BY <2>3 DEF DeleteProgram
    <3>2. \A o \in Offering : /\ offering'[o] = "active" => offering[o] = "active"
                              /\ o.program = p => offering'[o] # "active"
      BY <3>1 DEF SetOfferings, OfferingRows
    <3>3. \A q \in Programs \ {p} : program'[q] = program[q]
      BY <3>1 DEF IInv, TypeOK
    <3>4. QED BY <3>2, <3>3 DEF InactiveProgramOffersNothing, Offering
  <2>4. QED BY <2>1, <2>2, <2>3
<1>5. CASE AssociationStep \/ ScheduleStep \/ UNCHANGED vars
  BY <1>5 DEF AssociationStep, Associate, Dissociate, ScheduleStep, ScheduleOffering,
              DeleteScheduledOffering, catalogVars, vars, InactiveProgramOffersNothing
<1>6. QED BY <1>2, <1>3, <1>4, <1>5 DEF Next

\* When no form is posted late, a closed program offers nothing.
THEOREM ClosedProgramsOfferNothing ==
  ASSUME StaleForms = FALSE PROVE Spec => []InactiveProgramOffersNothing
<1>1. Init => InactiveProgramOffersNothing
  BY DEF Init, InactiveProgramOffersNothing
<1>2. IInv /\ InactiveProgramOffersNothing /\ [Next]_vars => InactiveProgramOffersNothing'
  BY NextOffersNothingClosed
<1>3. QED BY <1>1, <1>2, Invariance, PTL DEF Spec

=============================================================================
