SPECIFICATION SpecPainelLe
CONSTANTS
  queue_depth = 1
  send_queue_depth = 2
  Timeouts <- TresTimeouts
  Segmentos <- SegmentosRajada
  MaxSegmentos = 1
  MaxDisparos = 1
PROPERTIES
  SendTermina
\* A session ends.
CHECK_DEADLOCK FALSE
