\* The caller's wallet, a clone or a kept copy of it, and one copy more.
SPECIFICATION Spec
CONSTANTS
  Names = {w, x, y}
  Addresses = {a, b}
  MaxDepth = 2
SYMMETRY Symmetry
INVARIANTS TypeOK SharedIsLocked NothingLost
PROPERTIES OneAtATime OldCopiesOnly
