\* strip.py exits after the last file: that final state is not a deadlock.
CONSTANTS
  Inputs <- MCInputs
  EntryNames <- MCEntryNames
SPECIFICATION RerunSpec
INVARIANT LinkageConsistent
CHECK_DEADLOCK FALSE
