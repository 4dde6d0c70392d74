\* Four keys and room for two workers; safety and termination.
SPECIFICATION LiveSpec
CONSTANTS
  Keys = {k1, k2, k3, k4}
  SemaphoreSize = 2
  Unread = Unread
INVARIANTS
  SemaphoreCountsWorkers
  ReturnsAfterAll
PROPERTIES
  Returns
