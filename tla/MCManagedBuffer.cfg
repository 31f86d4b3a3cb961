\* The process may abort, and then nothing happens any more.
SPECIFICATION Spec
CONSTANTS
  Size = 4
  Handle = {h1, h2, h3}
  NULL = NULL
SYMMETRY HandleSymmetry
INVARIANTS
  FreeListSound
  ExclusiveHandles
PROPERTY
  ImplementsPool
CHECK_DEADLOCK FALSE
