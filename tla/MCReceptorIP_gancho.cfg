\* The hook after a crash with the alarm raised.
SPECIFICATION RSpecJusta
CONSTANTS
  Conns = {c1}
  maxconn = 1
  MaxQuadros = 1
  MaxQuedas = 1
  Quadros <- QuadrosIdent
PROPERTIES
  GanchoResolvido
