-------------------------- MODULE MCServiceRequests --------------------------
(***************************************************************************)
(* Small instances of ServiceRequests for TLC.                             *)
(***************************************************************************)
EXTENDS ServiceRequests, TLC

Symmetry == Permutations(Requests) \cup Permutations(Offerings) \cup Permutations(Forms)
              \cup Permutations(Statuses \ {Open})

=============================================================================
