CONSTANTS
  MaxId = 2
  Limit = 2
  MaxReads = 1
  QueueMax = 2
  ReplyMax = 2
  MaxPending = 8
SPECIFICATION Spec
INVARIANT
  AcknowledgementDelivered
CHECK_DEADLOCK FALSE
