--------------------------- MODULE MCCliqueSnapshot ---------------------------
EXTENDS CliqueSnapshot, TLC

\* Accounts that start alike are interchangeable.
Symmetry ==
  Permutations(InitSigners) \cup Permutations(Addresses \ InitSigners)

=============================================================================
