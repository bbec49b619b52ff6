\* Two photos, repeated announcements, three attempts, three fragments.
SPECIFICATION SpecJusta
CONSTANTS
  Fotos = {f1, f2}
  Tentativas = 3
  TamSenha = 6
  Ids = {d1, d2}
  MaxPedidos = 4
  MaxFragmentos = 3
INVARIANTS
  TypeOK
  UmDownloadPorVez
  DownloadDaCabeca
  FilaSupervisionada
  JpegEmOrdem
PROPERTIES
  SalvaEhSucesso
  ImplementaFila
  FilaAcabaVazia
\* The program has nothing left to do once the queue is empty.
CHECK_DEADLOCK FALSE
