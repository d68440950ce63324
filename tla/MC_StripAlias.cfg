\* strip.py exits after the last file: that final state is not a deadlock.
CONSTANTS
  Inputs <- AliasInputs
  EntryNames <- MCEntryNames
SPECIFICATION Spec
INVARIANT LinkageConsistent
CHECK_DEADLOCK FALSE
