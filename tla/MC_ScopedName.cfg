\* The compiler stops once it has generated the program or printed a
\* diagnostic: its terminal states are expected, not deadlocks.
CONSTANT Programs <- ScopedNamePrograms
SPECIFICATION Spec
INVARIANT DefinedOnce
CHECK_DEADLOCK FALSE
