\* The compiler stops once it has generated the program or printed a
\* diagnostic: its terminal states are expected, not deadlocks.
CONSTANT Programs <- NestedDefPrograms
SPECIFICATION Spec
INVARIANT ReturnsOfOwnBody
CHECK_DEADLOCK FALSE
