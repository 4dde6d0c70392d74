\* Two goroutines append to the slice at the same time.
SPECIFICATION Spec
CONSTANTS
  Keys = {k1, k2}
  SemaphoreSize = 2
  Unread = Unread
SYMMETRY Symmetry
INVARIANTS
  NoSpammerLost
