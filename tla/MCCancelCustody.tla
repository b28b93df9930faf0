--------------------------- MODULE MCCancelCustody ---------------------------
\* Small instances of CancelCustody: interchangeable tasks and slots.
EXTENDS CancelCustody, TLC

Pool == Permutations(Slot) \cup Permutations(Task)
=============================================================================
