-------------------------- MODULE OfferingLifecycle --------------------------
(***************************************************************************)
(* What the service catalog promises to the people who schedule services:  *)
(* an offering a student is actively assigned to is never withdrawn, new   *)
(* assignments are made on active offerings only, a cancelled assignment   *)
(* stays cancelled, and rows are kept for ever (deletes are soft).  How    *)
(* providers, service types and programs bring offerings in and out is     *)
(* left to the specifications that implement this one.                     *)
(***************************************************************************)

CONSTANTS Offerings,        \* the possible service offerings
          AssignmentIds     \* the possible student assigned offerings

VARIABLES offering,         \* offering[o]: the state of the row of o
          assignments       \* the rows of StudentAssignedOffering

lifecycleVars == <<offering, assignments>>

RowState == {"absent", "active", "inactive"}

Assignment == [id : AssignmentIds, offering : Offerings, isActive : BOOLEAN]

InUse(o) == \E a \in assignments : a.isActive /\ a.offering = o

LifecycleInit ==
  /\ offering = [o \in Offerings |-> "absent"]
  /\ assignments = {}

\* The catalog is edited: any rows may appear, be activated or be
\* deactivated, in one step, except that a row in use stays active.
Recatalogue ==
  /\ offering' \in [Offerings -> RowState]
  /\ \A o \in Offerings :
       /\ offering'[o] = "absent" => offering[o] = "absent"
       /\ offering[o] = "active" /\ InUse(o) => offering'[o] = "active"
  /\ UNCHANGED assignments

\* Students are assigned to an active offering.
Schedule ==
  \E o \in Offerings, ids \in SUBSET AssignmentIds :
    /\ offering[o] = "active"
    /\ \A a \in assignments : a.id \notin ids
    /\ assignments' = assignments \cup
         {[id |-> i, offering |-> o, isActive |-> TRUE] : i \in ids}
    /\ UNCHANGED offering

\* An active assignment is cancelled.
Cancel ==
  \E a \in assignments :
    /\ a.isActive
    /\ assignments' = (assignments \ {a}) \cup {[a EXCEPT !.isActive = FALSE]}
    /\ UNCHANGED offering

LifecycleNext == Recatalogue \/ Schedule \/ Cancel

LifecycleSpec == LifecycleInit /\ [][LifecycleNext]_lifecycleVars

=============================================================================
