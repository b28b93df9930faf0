--------------------------- MODULE MCTaskExecution ---------------------------
\* Small instances of TaskExecution: a pool of two interchangeable slots.
EXTENDS TaskExecution, TLC

Pool == Permutations(Slot) \cup Permutations(Task)
=============================================================================
