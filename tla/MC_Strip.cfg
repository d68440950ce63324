\* strip.py exits after the last file: that final state is not a deadlock.
CONSTANTS
  Inputs <- MCInputs
  EntryNames <- MCEntryNames
SPECIFICATION Spec
INVARIANT TypeOK
INVARIANT LinkageConsistent
PROPERTY ImplementsContract
CHECK_DEADLOCK FALSE
