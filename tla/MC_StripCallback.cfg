\* strip.py exits after the last file: that final state is not a deadlock.
\* The property is the stripper contract of the spec, under the refinement
\* mapping of Strip; the input has an object that declares main extern.
CONSTANTS
  Inputs <- CallbackInputs
  EntryNames <- MCEntryNames
SPECIFICATION Spec
PROPERTY ImplementsContract
CHECK_DEADLOCK FALSE
