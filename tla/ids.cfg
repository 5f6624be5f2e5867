\* Two users and a walker, two frees before the version of the free list wraps.
CONSTANTS
  Users = {t1, t2}
  Walkers = {w}
  MaxIds = 3
  MaxFrees = 3
  StartFrees = 65534
  BlockSize = 2
SPECIFICATION Spec
SYMMETRY UserSymmetry
INVARIANT IdInv
INVARIANT IdsUnique
INVARIANT NoIdLost
INVARIANT IdsCompact
INVARIANT ForEachComplete
PROPERTY ReusedHandlesDiffer
\* Allocations and frees are bounded.
CHECK_DEADLOCK FALSE
