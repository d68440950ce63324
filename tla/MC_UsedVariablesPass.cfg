\* One transform per program: the pass then returns.
CONSTANT Programs <- MCPrograms
SPECIFICATION Spec
INVARIANT MatchesReference
CHECK_DEADLOCK FALSE
