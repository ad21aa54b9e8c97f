----------------------------- MODULE MCCrudModal -----------------------------
(***************************************************************************)
(* A small instance of CrudModal for TLC.                                  *)
(***************************************************************************)
EXTENDS CrudModal

=============================================================================
