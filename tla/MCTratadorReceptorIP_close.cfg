SPECIFICATION Spec
CONSTANTS
  queue_depth = 1
  send_queue_depth = 2
  Timeouts <- TresTimeouts
  Segmentos <- SegmentosIdent
  MaxSegmentos = 1
  MaxDisparos = 1
INVARIANTS
  CloseCala
\* A session ends.
CHECK_DEADLOCK FALSE
