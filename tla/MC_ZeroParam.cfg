\* The compiler stops once it has generated the program or printed a
\* diagnostic: its terminal states are expected, not deadlocks.
CONSTANT Programs <- ZeroParamPrograms
SPECIFICATION Spec
INVARIANT ClosedDataflow
CHECK_DEADLOCK FALSE
