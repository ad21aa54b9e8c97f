--------------------------- MODULE MCProfileExport ---------------------------
\* An instance of ProfileExport for TLC.
EXTENDS ProfileExport, TLC

CONSTANTS o1, o2

OptionSymmetry == Permutations(Options)

=============================================================================
