---------------------------- MODULE MCToggleTable ----------------------------
(***************************************************************************)
(* A small instance of ToggleTable for TLC.                                *)
(***************************************************************************)
EXTENDS ToggleTable

CONSTANTS r1

MCRows == {r1}
MCAnswers == [MCRows -> BOOLEAN]

=============================================================================
