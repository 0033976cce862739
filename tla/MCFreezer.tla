------------------------------ MODULE MCFreezer ------------------------------
EXTENDS Freezer

\* A process that is killed twice, with a new file for every item; readers
\* and side blocks with a failed write; a power failure, with one file only;
\* a freezer replaced by an older copy of itself.
MCEnvironments ==
  {[fileItems |-> 1, events |-> {}, limit |-> 2],
   [fileItems |-> 2, events |-> {"side", "reader"}, limit |-> 1],
   [fileItems |-> MaxBlock + 1, events |-> {"power"}, limit |-> 2],
   [fileItems |-> 2, events |-> {"copy"}, limit |-> 1]}

\* They are of the kind that the theorems are about.
ASSUME MCTolerated == \A e \in MCEnvironments : Tolerated(e)

\* A process that is killed in the middle of a rewind: not part of the run, see
\* the README on where the code and its comments disagree.
MCRewind == {[fileItems |-> MaxBlock + 1, events |-> {"rewind"}, limit |-> 1]}

=============================================================================
