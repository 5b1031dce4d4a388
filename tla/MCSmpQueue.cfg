\* Three cores, so that a third one spins while two meet at the lock; a ring of two entries,
\* so that it fills, empties and wraps.
CONSTANTS
  NoWork = NoWork
  Cores = {c1, c2, c3}
  Work = {w1, w2}
  cpuqueuemax = 2
SPECIFICATION QueueFairSpec
INVARIANTS
  QueueMutex
  RingConsistent
PROPERTIES
  LockReleased
  FifoSpec
