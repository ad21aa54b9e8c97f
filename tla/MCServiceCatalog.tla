-------------------------- MODULE MCServiceCatalog --------------------------
(***************************************************************************)
(* Small instances of ServiceCatalog for TLC.  The sets are model values   *)
(* and interchangeable.                                                    *)
(***************************************************************************)
EXTENDS ServiceCatalog, TLC

Symmetry == Permutations(Providers) \cup Permutations(ServiceTypes)
              \cup Permutations(Programs) \cup Permutations(Schools)
              \cup Permutations(AssignmentIds)

=============================================================================
