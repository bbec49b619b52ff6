\* One connection, the twelve frames that fit in to_comm.
SPECIFICATION TSpec
CONSTANTS
  Conns = {c1}
  maxconn = 2
  MaxQuadros = 12
  Saltos = {60}
  Quadros <- QuadrosIdent
INVARIANTS
  MensagemAntesDoTimeout
  PrazoIdentificacao
  VazaoLimitada
