\* The compiler stops once it has generated the program or printed a
\* diagnostic: its terminal states are expected, not deadlocks.
CONSTANT Programs <- DefInBranchPrograms
SPECIFICATION Spec
INVARIANT GateOfInnermostContext
CHECK_DEADLOCK FALSE
