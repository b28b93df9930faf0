--------------------------- MODULE MCCancelIntents ---------------------------
\* Small instances of CancelIntents: a logical root tRoot whose retry lineage ends
\* at tLeaf, and an unrelated task tOther.
EXTENDS CancelIntentsRefinement, TLC

CONSTANTS tRoot, tLeaf, tOther

LineageTask == {tRoot, tLeaf}
TreeTask == {tRoot, tOther}
Lineage == [t \in Task |-> IF t = tRoot /\ tLeaf \in Task THEN tLeaf ELSE t]
Threads == Permutations(Custodian)
=============================================================================
