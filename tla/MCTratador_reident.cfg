\* A panel that identifies itself twice on one connection, at the limit.
SPECIFICATION Spec
CONSTANTS
  Conns = {c1, c2}
  maxconn = 1
  MaxQuadros = 2
  Quadros <- QuadrosIdent
INVARIANTS
  IdentificadaNaoIgnorada
