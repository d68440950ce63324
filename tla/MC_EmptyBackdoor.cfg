\* main() stops once the assembly is handed over or a diagnostic is printed:
\* its terminal states are expected, not deadlocks.
CONSTANTS
  Programs <- EmptyPrograms
  Backdoors <- MCBackdoors
SPECIFICATION MainSpec
INVARIANT SpliceNoCrash
CHECK_DEADLOCK FALSE
