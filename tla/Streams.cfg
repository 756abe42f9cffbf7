SPECIFICATION Spec
CONSTANTS
  QueueEvents = 2
  MaxEvents = 4
  Keyed = TRUE
  ShowTools = FALSE
  InboxSize = 1
  MaxMessages = 2
  Surfaces <- MCSurfaces
CHECK_DEADLOCK FALSE
INVARIANTS InOrder SlotOutlivesRun KeyMeansAnswered
PROPERTIES OneOutcome StreamEnds ProducerStops
