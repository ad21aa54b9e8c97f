-------------------------- MODULE MCCatalogRequests --------------------------
(***************************************************************************)
(* Small instances of CatalogRequests for TLC.                             *)
(***************************************************************************)
EXTENDS CatalogRequests, TLC

Symmetry == Permutations(Providers) \cup Permutations(Programs)
              \cup Permutations(AssignmentIds) \cup Permutations(Administrators)
              \cup Permutations(Schedulers)

=============================================================================
