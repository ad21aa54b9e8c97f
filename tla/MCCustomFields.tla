---------------------------- MODULE MCCustomFields ----------------------------
\* Instances of CustomFields for TLC.
EXTENDS CustomFields, TLC

CONSTANTS f1, f2, u1, u2, d1, d2

ActorSymmetry == Permutations(Fields) \cup Permutations(Uploaders) \cup Permutations(Administrators)

=============================================================================
