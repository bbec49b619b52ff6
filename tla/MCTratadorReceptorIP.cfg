\* Queues as deep as in the code, two reads, two timeouts that fire.
SPECIFICATION SpecJusta
CONSTANTS
  queue_depth = 1
  send_queue_depth = 2
  Timeouts <- TresTimeouts
  Segmentos <- SegmentosVarios
  MaxSegmentos = 2
  MaxDisparos = 2
INVARIANTS
  TypeOK
  SessaoVigiada
  FechamentoOrdenado
  RespostasConferem
PROPERTIES
  CloseTermina
  FimPercebido
\* A session ends.
CHECK_DEADLOCK FALSE
