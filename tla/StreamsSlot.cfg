SPECIFICATION Spec
CONSTANTS
  QueueEvents = 2
  MaxEvents = 4
  Keyed = TRUE
  ShowTools = FALSE
  InboxSize = 1
  MaxMessages = 2
  Surfaces <- MCSocket
CHECK_DEADLOCK FALSE
INVARIANT SlotComesBack
