\* One connection, every kind of frame.
SPECIFICATION SpecJusta
CONSTANTS
  Conns = {c1}
  maxconn = 1
  MaxQuadros = 3
  Quadros <- QuadrosTodos
INVARIANTS
  TypeOK
  TimersCoerentes
  BufferSupervisionado
  ConexaoSupervisionada
  EventosConferem
PROPERTIES
  IgnoradaAcabaFechando
  MensagemAcabaConsumida
