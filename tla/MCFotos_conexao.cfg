\* A connection attempt that fails at once.
SPECIFICATION Spec
CONSTANTS
  Fotos = {f1}
  Tentativas = 2
  TamSenha = 6
  Ids = {d1}
  MaxPedidos = 2
  MaxFragmentos = 2
PROPERTIES
  TentativaTemDownload
CHECK_DEADLOCK FALSE
