\* Two nodes; lists of up to 4 blocks, those of up to 2 with the fixed
\* distance of short lists.  The walks end, so the system stops.
SPECIFICATION Spec
CONSTANTS
  node = node  val = val
  Walkers = {node, val}
  MaxLength = 4
  FixedStep = 2
INVARIANTS TypeOK WalkAscends CoversABlock DifferOverABlock
PROPERTY WalkEnds
CHECK_DEADLOCK FALSE
