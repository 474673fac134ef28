\* Three goroutines.  A panic with the lock set may stop them all, as it may
\* the program, so no deadlock is reported.
SPECIFICATION Spec
CONSTANTS
  p1 = p1  p2 = p2  p3 = p3
  Callers = {p1, p2, p3}
  Keys = {k}
  Values = {v, w}
  Missing = missing
INVARIANTS TypeOK LockHasHolder
PROPERTY ImplementsKVStore
SYMMETRY CallerSymmetry
CHECK_DEADLOCK FALSE
