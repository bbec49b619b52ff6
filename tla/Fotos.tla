------------------------------- MODULE Fotos --------------------------------
(***************************************************************************)
(* Download of the photos announced by alarm events: the queue of          *)
(* TratadorDeFotos (alarmeitbl/tratador_fotos.py) and the connections to   *)
(* the panel that fetch one photo each, ObtemFotosDeEvento over            *)
(* ComandarCentral over TCPClientHandler (obtem_fotos.py, comandos.py,     *)
(* myeventloop/tcpclient.py).  comandar dlfoto runs the same objects.      *)
(*                                                                         *)
(* One action per callback of the event loop; a pending timer may fire at  *)
(* any moment.  The panel answers anything.  Packets are abstracted to the *)
(* outcome the handlers tell apart.  recv_callback takes one packet per    *)
(* call, so a packet left in the receive buffer acts like one that comes   *)
(* later, and an incomplete packet like none; neither is kept.             *)
(***************************************************************************)
EXTENDS Naturals, Sequences, FiniteSets

CONSTANTS Fotos,          \* photos: address, event index and photo number
          Tentativas,     \* attempts per photo (10 in the code)
          TamSenha,       \* configured password length; 0 turns downloads off
          Ids,            \* identities of ObtemFotosDeEvento objects
          MaxPedidos,     \* bound: photos queued in a behaviour
          MaxFragmentos   \* bound: fragments per photo (an octet in the code)

ASSUME FotosAssumption == Fotos # {} /\ "nenhuma" \notin Fotos
ASSUME TentativasAssumption == Tentativas \in Nat \ {0}
ASSUME TamSenhaAssumption == TamSenha \in Nat
ASSUME BoundsAssumption == MaxPedidos \in Nat /\ MaxFragmentos \in Nat \ {0}

VARIABLES
  processo,    \* "rodando" or "morto"
  fila,        \* queue of [foto, tentativas]
  task,        \* the trata_foto timer: "nenhuma" (None), "pendente", "gasta"
  fase,        \* what download d waits for; "livre" when there is no object
  foto,        \* the photo that d was created for
  status,      \* what d reports when destroyed: 0 ok, 1 temporary, 2 fatal
  conn_timeout,\* whether the timer of d is pending
  jpeg,        \* fragments of the photo that d holds, in order of arrival
  ultimo,      \* last photo that left the queue, with its result
  pedidos      \* photos queued so far

download == <<fase, foto, status, conn_timeout, jpeg>>
vars == <<processo, fila, task, download, ultimo, pedidos>>

Fases == {"livre", "conectando", "autenticando", "baixando", "despedindo"}

Ativos == {d \in Ids : fase[d] # "livre"}

\* The number of the fragment that d has asked for.
fragmento_corrente(d) == Len(jpeg[d]) + 1

Vazio(x) == [d \in Ids |-> x]

SemDownloads ==
  /\ fase' = Vazio("livre")
  /\ foto' = Vazio("nenhuma")
  /\ status' = Vazio(2)
  /\ conn_timeout' = Vazio(FALSE)
  /\ jpeg' = Vazio(<<>>)

Init ==
  /\ processo = "rodando"
  /\ fila = <<>>
  /\ task = "nenhuma"
  /\ fase = Vazio("livre")
  /\ foto = Vazio("nenhuma")
  /\ status = Vazio(2)
  /\ conn_timeout = Vazio(FALSE)
  /\ jpeg = Vazio(<<>>)
  /\ ultimo = <<>>
  /\ pedidos = 0

\* An exception that nothing catches ends the process: queue and connections
\* are in memory only.
Morre ==
  /\ processo' = "morto"
  /\ fila' = <<>>
  /\ task' = "nenhuma"
  /\ SemDownloads
  /\ UNCHANGED <<ultimo, pedidos>>

\* A supervisor starts the program again.
Reinicia ==
  /\ processo = "morto"
  /\ processo' = "rodando"
  /\ UNCHANGED <<fila, task, download, ultimo, pedidos>>

-----------------------------------------------------------------------------
\* enfileirar creates the timer only if there is none.
TaskAoEnfileirar_defeito == "pendente"
TaskAoEnfileirar == IF task = "nenhuma" THEN "pendente" ELSE task

\* A Tratador queues a photo.
enfileirar(f) ==
  /\ processo = "rodando"
  /\ pedidos < MaxPedidos
  /\ TamSenha > 0
  /\ fila' = Append(fila, [foto |-> f, tentativas |-> Tentativas])
  /\ task' = TaskAoEnfileirar
  /\ pedidos' = pedidos + 1
  /\ UNCHANGED <<processo, download, ultimo>>

\* The timer fires with an empty queue.
SemFotos ==
  /\ processo = "rodando"
  /\ task = "pendente"
  /\ fila = <<>>
  /\ task' = "nenhuma"
  /\ UNCHANGED <<processo, fila, download, ultimo, pedidos>>

\* The photo to download next.
ProximaFoto_defeito == fila[Len(fila)].foto
ProximaFoto == Head(fila).foto

\* The timer fires and a download of the first photo starts connecting.
obtem_foto(d) ==
  /\ processo = "rodando"
  /\ task = "pendente"
  /\ fila # <<>>
  /\ fase[d] = "livre"
  /\ task' = "gasta"
  /\ fase' = [fase EXCEPT ![d] = "conectando"]
  /\ foto' = [foto EXCEPT ![d] = ProximaFoto]
  /\ status' = [status EXCEPT ![d] = 2]
  /\ conn_timeout' = [conn_timeout EXCEPT ![d] = TRUE]
  /\ jpeg' = [jpeg EXCEPT ![d] = <<>>]
  /\ UNCHANGED <<processo, fila, ultimo, pedidos>>

\* connect() fails at once (no route, unknown name): the constructor catches
\* only BlockingIOError, so the exception leaves the event loop.
ConexaoImpossivel ==
  /\ processo = "rodando"
  /\ task = "pendente"
  /\ fila # <<>>
  /\ Morre

-----------------------------------------------------------------------------
\* What resultado_foto does to a photo that failed for now.
Esgotou_defeito(item) == item.tentativas < 1
Esgotou(item) == item.tentativas - 1 <= 0

\* The timer is started again whatever the result.
TaskAposResultado_defeito(s) == IF s = 1 THEN "pendente" ELSE task
TaskAposResultado(s) == "pendente"

\* resultado_foto: the result s of download d settles the photo at the head of
\* the queue.
resultado_foto(d, s) ==
  /\ task' = TaskAposResultado(s)
  /\ IF s = 1 /\ ~Esgotou(Head(fila))
     THEN /\ fila' = [fila EXCEPT ![1] = [foto |-> @.foto, tentativas |-> @.tentativas - 1]]
          /\ UNCHANGED ultimo
     ELSE /\ fila' = Tail(fila)
          /\ ultimo' = <<foto[d], CASE s = 0 -> "sucesso"
                                    [] s = 2 -> "fatal"
                                    [] s = 1 -> "esgotada">>

\* Handler.destroy() with final status s: the observer is told, then the
\* handler and its timer disappear.
destroy(d, s) ==
  /\ resultado_foto(d, s)
  /\ fase' = [fase EXCEPT ![d] = "livre"]
  /\ foto' = [foto EXCEPT ![d] = "nenhuma"]
  /\ status' = [status EXCEPT ![d] = 2]
  /\ conn_timeout' = [conn_timeout EXCEPT ![d] = FALSE]
  /\ jpeg' = [jpeg EXCEPT ![d] = <<>>]
  /\ UNCHANGED <<processo, pedidos>>

\* A request is sent and conn_timeout starts again.
Espera_defeito(d, f) ==
  /\ fase' = [fase EXCEPT ![d] = f]
  /\ conn_timeout' = [conn_timeout EXCEPT ![d] = FALSE]
  /\ UNCHANGED <<processo, fila, task, foto, ultimo, pedidos>>

Espera(d, f) ==
  /\ fase' = [fase EXCEPT ![d] = f]
  /\ conn_timeout' = [conn_timeout EXCEPT ![d] = TRUE]
  /\ UNCHANGED <<processo, fila, task, foto, ultimo, pedidos>>

Ativo(d, f) == processo = "rodando" /\ fase[d] = f

\* The connection is up: authentication is sent.
ConexaoFeita(d) ==
  /\ Ativo(d, "conectando")
  /\ Espera(d, "autenticando")
  /\ UNCHANGED <<status, jpeg>>

\* The connection failed: a temporary error.
ConexaoFalhou(d) ==
  /\ Ativo(d, "conectando")
  /\ destroy(d, 1)

\* conn_timeout fires: a temporary error, unless the task was already done.
StatusTimeout_defeito(s) == 1
StatusTimeout(s) == IF s # 0 THEN 1 ELSE s

TrataTimeout(d) ==
  /\ processo = "rodando"
  /\ fase[d] # "livre"
  /\ conn_timeout[d]
  /\ destroy(d, StatusTimeout(status[d]))

\* The panel closes the connection, or reading or writing fails.
Queda(d) ==
  /\ processo = "rodando"
  /\ fase[d] \in {"autenticando", "baixando", "despedindo"}
  /\ destroy(d, status[d])

\* A packet with a bad length or checksum, a refused or malformed
\* authentication, "busy", an unexpected or malformed answer, a NAK without
\* a reason, or any packet when none is expected: the handler gives up.
RespostaRuim(d) ==
  /\ processo = "rodando"
  /\ fase[d] \in {"autenticando", "baixando", "despedindo"}
  /\ destroy(d, status[d])

\* A NAK with its reason is a temporary error.
nak(d) ==
  /\ processo = "rodando"
  /\ fase[d] \in {"autenticando", "baixando"}
  /\ destroy(d, 1)

\* Authentication accepted: the first fragment is requested.
resposta_autenticacao(d) ==
  /\ Ativo(d, "autenticando")
  /\ Espera(d, "baixando")
  /\ jpeg' = [jpeg EXCEPT ![d] = <<>>]
  /\ UNCHANGED status

\* Whether fragment n of photo f answers what d asked for.
FragmentoEsperado_defeito(d, f, n) == f = foto[d]
FragmentoEsperado(d, f, n) == f = foto[d] /\ n = fragmento_corrente(d)

\* A fragment of another photo, or out of sequence: the handler gives up.
FragmentoErrado(d, f, n) ==
  /\ Ativo(d, "baixando")
  /\ ~FragmentoEsperado(d, f, n)
  /\ destroy(d, status[d])

\* The requested fragment n of total arrives and it is not the last one.
FragmentoParcial(d, f, n, total) ==
  /\ Ativo(d, "baixando")
  /\ FragmentoEsperado(d, f, n)
  /\ n < total
  /\ jpeg' = [jpeg EXCEPT ![d] = Append(@, n)]
  /\ Espera(d, "baixando")
  /\ UNCHANGED status

\* The last fragment arrives: the file is written and the panel is told
\* goodbye.  From here on the result is success.
UltimoFragmento(d, f, n, total) ==
  /\ Ativo(d, "baixando")
  /\ FragmentoEsperado(d, f, n)
  /\ n >= total
  /\ jpeg' = [jpeg EXCEPT ![d] = Append(@, n)]
  /\ status' = [status EXCEPT ![d] = 0]
  /\ Espera(d, "despedindo")

\* The last fragment arrives but the file cannot be written.
FalhaAoSalvar(d, f, n, total) ==
  /\ Ativo(d, "baixando")
  /\ FragmentoEsperado(d, f, n)
  /\ n >= total
  /\ Morre

-----------------------------------------------------------------------------
resposta_comando_in(d) ==
  \E f \in Fotos, n, total \in 0 .. MaxFragmentos :
    \/ FragmentoErrado(d, f, n)
    \/ FragmentoParcial(d, f, n, total)
    \/ UltimoFragmento(d, f, n, total)
    \/ FalhaAoSalvar(d, f, n, total)

Next ==
  \/ Reinicia
  \/ \E f \in Fotos : enfileirar(f)
  \/ SemFotos
  \/ ConexaoImpossivel
  \/ \E d \in Ids :
       \/ obtem_foto(d)
       \/ ConexaoFeita(d)
       \/ ConexaoFalhou(d)
       \/ TrataTimeout(d)
       \/ Queda(d)
       \/ RespostaRuim(d)
       \/ nak(d)
       \/ resposta_autenticacao(d)
       \/ resposta_comando_in(d)

Spec == Init /\ [][Next]_vars

\* Timers fire.  conn_timeout is restarted only by the answers of one
\* connection, which are finitely many (a fragment number is an octet).
Justica ==
  /\ WF_vars(Reinicia)
  /\ WF_vars(SemFotos)
  /\ WF_vars(ConexaoImpossivel \/ \E d \in Ids : obtem_foto(d))
  /\ \A d \in Ids : WF_vars(TrataTimeout(d))

SpecJusta == Spec /\ Justica

-----------------------------------------------------------------------------
\* Every variable holds a value of its kind.
TypeOK ==
  /\ processo \in {"rodando", "morto"}
  /\ fila \in Seq([foto : Fotos, tentativas : 1 .. Tentativas])
  /\ task \in {"nenhuma", "pendente", "gasta"}
  /\ fase \in [Ids -> Fases]
  /\ foto \in [Ids -> Fotos \cup {"nenhuma"}]
  /\ status \in [Ids -> {0, 1, 2}]
  /\ conn_timeout \in [Ids -> BOOLEAN]
  /\ jpeg \in [Ids -> Seq(Nat)]
  /\ ultimo \in {<<>>} \cup (Fotos \X {"sucesso", "fatal", "esgotada"})
  /\ pedidos \in Nat

\* There is never more than one download, and while there is one the timer
\* that starts downloads is spent: photos queued meanwhile do not start it.
UmDownloadPorVez ==
  /\ \A d, e \in Ativos : d = e
  /\ Ativos # {} => task = "gasta"

\* A download is of the photo at the head of the queue, the one that
\* resultado_foto will remove or charge with the result.
DownloadDaCabeca ==
  \A d \in Ativos : fila # <<>> /\ foto[d] = Head(fila).foto

\* A queued photo is never forgotten: the timer that starts its download is
\* pending or a download is under way, and a download always has a deadline.
FilaSupervisionada ==
  /\ fila # <<>> => task = "pendente" \/ Ativos # {}
  /\ task = "gasta" => Ativos # {}
  /\ \A d \in Ativos : conn_timeout[d]

\* The octets kept for a photo are its fragments 1, 2, 3... without gap or
\* repetition, and success is reported exactly after the file is written.
JpegEmOrdem ==
  \A d \in Ids :
    /\ \A i \in 1 .. Len(jpeg[d]) : jpeg[d][i] = i
    /\ status[d] = 0 <=> fase[d] = "despedindo"

\* Once its file is written a photo leaves the queue as a success however the
\* goodbye ends (closed, timeout, stray packet): it is not fetched again.
SalvaEhSucesso ==
  [][\A d \in Ids :
       fase[d] = "despedindo" /\ fase'[d] # "despedindo" /\ processo' = "rodando"
         => ultimo' = <<foto[d], "sucesso">> /\ fila' = Tail(fila)]_vars

\* The queue, seen from outside, is the promised one.
Abstrata ==
  INSTANCE FilaFotos WITH Fotos <- Fotos, Tentativas <- Tentativas,
                          fila <- fila, ultimo <- ultimo
ImplementaFila == Abstrata!FSpec

\* When no more photos are announced the queue ends up empty and the timer
\* stopped: every photo is fetched, refused or given up in finite time.
FilaAcabaVazia == <>[](fila = <<>> /\ task = "nenhuma")

\* Starting a download gives a download, whose connection_callback reports a
\* connection that cannot be made.
TentativaTemDownload ==
  [][task = "pendente" /\ fila # <<>> /\ task' # "pendente"
       => \E d \in Ids : fase'[d] = "conectando"]_vars
=============================================================================
