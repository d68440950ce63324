\* The compiler stops once it has generated the program or printed a
\* diagnostic: its terminal states are expected, not deadlocks.
CONSTANT Programs <- MCPrograms
SPECIFICATION Spec
INVARIANT TypeOK
INVARIANT ClosedDataflow
INVARIANT BackEdgeAdvancesIteration
INVARIANT GateOfInnermostContext
INVARIANT DefinedOnce
PROPERTY MergesJoinExclusiveArms
CHECK_DEADLOCK FALSE
