\* Two connections under a limit of one panel, one crash.
SPECIFICATION RSpecJusta
CONSTANTS
  Conns = {c1, c2}
  maxconn = 1
  MaxQuadros = 2
  MaxQuedas = 1
  Quadros <- QuadrosIdent
INVARIANTS
  MaxConnRespeitado
  RespostasConferem
PROPERTIES
  SinalDeVida
  AlarmeAcompanha
