\* The chain ends at MaxNumber, or when the last signer voted itself out.
CHECK_DEADLOCK FALSE
CONSTANTS
  Addresses = {a1, a2, a3, a4, a5}
  Zero = Zero
  InitSigners = {a1, a2, a3, a4}
  Epoch = 6
  MaxNumber = 11
SYMMETRY Symmetry
SPECIFICATION Spec
INVARIANTS SnapshotInv RulesAgree CheckpointAgrees
PROPERTY VotingSpec
