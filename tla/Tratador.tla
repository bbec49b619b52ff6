------------------------------ MODULE Tratador ------------------------------
(***************************************************************************)
(* The Python alarm receiver: the connections that alarm panels open to    *)
(* receptorip, one Tratador object each (alarmeitbl/tratador.py), under    *)
(* the limit on identified panels that receptorip installs (maxconn).      *)
(*                                                                         *)
(* A member of Conns is a connection slot: when a Tratador is destroyed    *)
(* its slot can be taken by the next accepted connection, so Conns bounds  *)
(* only how many connections are open at once.  The event loop runs one    *)
(* callback at a time, hence one action per callback.  Time is abstracted: *)
(* a timer that is in Timeout.pending may fire at any moment, so every     *)
(* order of timers and network events that some arrival time makes         *)
(* possible is explored.                                                   *)
(*                                                                         *)
(* Octets are abstracted to frames (quadros).  A frame keeps what the      *)
(* handlers tell apart: its type, whether its length is the expected one,  *)
(* whether the panel or event code is recognised and how many photos it    *)
(* announces.  The checksum is not kept: a wrong one is only logged.       *)
(***************************************************************************)
EXTENDS Naturals, Sequences, FiniteSets

CONSTANTS Conns,        \* connection slots
          maxconn,      \* configured limit of identified panels
          Quadros,      \* frames the panels send
          MaxQuadros    \* bound: frames treated per connection

Quadro == [tipo        : {"heartbeat", "data_hora", "ident", "evento",
                          "evento_foto", "desconhecida"},
           tam         : {"certo", "outro", "vazio"},
           reconhecido : BOOLEAN,   \* ident: accepted id; evento: known code
           nr_fotos    : Nat]

ASSUME ConnsAssumption   == IsFiniteSet(Conns)
ASSUME MaxconnAssumption == maxconn \in Nat
ASSUME QuadrosAssumption == Quadros \subseteq Quadro
ASSUME MaxQuadrosAssumption == MaxQuadros \in Nat

\* Timers that a Tratador owns.
Timers == {"ident", "comm", "processa", "incompleta", "backoff"}

\* What the receive buffer holds: frames, the last one possibly cut short.
Pedaco == [quadro : Quadros, completa : BOOLEAN]

VARIABLES
  processo,             \* the receptorip process: "rodando" or "morto"
  estado,               \* "aberta" while the Tratador is in Handler.items
  ignorar,              \* data of this connection is discarded
  central_identificada, \* the panel has identified itself
  atrib,                \* timer attributes (self.to_...) that are not None
  pend,                 \* timers of the object that are in Timeout.pending
  recv_buf,             \* received, not yet consumed
  send_buf,             \* number of answers queued for sending
  backoff,              \* doublings of the minimum delay between messages
  recebidos,            \* frames taken into recv_buf so far
  consumidos,           \* frames consumed by consome_msg so far
  enviadas,             \* answers written to the socket so far
  eventos,              \* whole well-formed alarm events received so far
  avisos,               \* alarm events delivered to the hooks so far
  fotos_pedidas         \* its calls of TratadorDeFotos.enfileirar so far

conexao == <<estado, ignorar, central_identificada, atrib, pend, recv_buf,
             send_buf, backoff, recebidos, consumidos, enviadas, eventos,
             avisos, fotos_pedidas>>

vars == <<processo, conexao>>

-----------------------------------------------------------------------------
\* Whether frame q carries an alarm event that evento_alarme accepts.
EventoBemFormado(q) == q.tipo \in {"evento", "evento_foto"} /\ q.tam = "certo"

\* The connections that count as connected panels.
identificadas == {c \in Conns : estado[c] = "aberta" /\ central_identificada[c]}

centrais_conectadas == Cardinality(identificadas)

valida_maxconn_defeito == centrais_conectadas <= maxconn

valida_maxconn == centrais_conectadas < maxconn

\* The panel's id matches the configured expression.
valida_central(q) == q.reconhecido

\* The event's type is Contact ID and the table describes its code.
conhecido(q) == q.reconhecido

Init ==
  /\ processo = "rodando"
  /\ estado = [c \in Conns |-> "fechada"]
  /\ ignorar = [c \in Conns |-> FALSE]
  /\ central_identificada = [c \in Conns |-> FALSE]
  /\ atrib = [c \in Conns |-> {}]
  /\ pend = [c \in Conns |-> {}]
  /\ recv_buf = [c \in Conns |-> <<>>]
  /\ send_buf = [c \in Conns |-> 0]
  /\ backoff = [c \in Conns |-> 0]
  /\ recebidos = [c \in Conns |-> 0]
  /\ consumidos = [c \in Conns |-> 0]
  /\ enviadas = [c \in Conns |-> 0]
  /\ eventos = [c \in Conns |-> 0]
  /\ avisos = [c \in Conns |-> 0]
  /\ fotos_pedidas = [c \in Conns |-> 0]

\* Steps below happen only while the process runs and c is a live handler.
Viva(c) == processo = "rodando" /\ estado[c] = "aberta"

-----------------------------------------------------------------------------
\* The listener accepts a connection and builds its Tratador.  The timers
\* to_ident and to_comm start; over the limit the connection is ignored.
Aceita(c) ==
  /\ processo = "rodando"
  /\ estado[c] = "fechada"
  /\ estado' = [estado EXCEPT ![c] = "aberta"]
  /\ ignorar' = [ignorar EXCEPT ![c] = ~valida_maxconn]
  /\ atrib' = [atrib EXCEPT ![c] = {"ident", "comm"}]
  /\ pend' = [pend EXCEPT ![c] = {"ident", "comm"}]
  /\ UNCHANGED <<processo, central_identificada, recv_buf, send_buf, backoff,
                 recebidos, consumidos, enviadas, eventos, avisos,
                 fotos_pedidas>>

\* Handler.destroy(): the handlers in D leave Handler.items and their timers
\* leave Timeout.pending.  The objects become unreachable: their fields are
\* given initial values so that a dead object has a single representation.
Destroi(D) ==
  /\ estado' = [c \in Conns |-> IF c \in D THEN "fechada" ELSE estado[c]]
  /\ ignorar' = [c \in Conns |-> c \notin D /\ ignorar[c]]
  /\ central_identificada' =
       [c \in Conns |-> c \notin D /\ central_identificada[c]]
  /\ atrib' = [c \in Conns |-> IF c \in D THEN {} ELSE atrib[c]]
  /\ pend' = [c \in Conns |-> IF c \in D THEN {} ELSE pend[c]]
  /\ recv_buf' = [c \in Conns |-> IF c \in D THEN <<>> ELSE recv_buf[c]]
  /\ send_buf' = [c \in Conns |-> IF c \in D THEN 0 ELSE send_buf[c]]
  /\ backoff' = [c \in Conns |-> IF c \in D THEN 0 ELSE backoff[c]]
  /\ recebidos' = [c \in Conns |-> IF c \in D THEN 0 ELSE recebidos[c]]
  /\ consumidos' = [c \in Conns |-> IF c \in D THEN 0 ELSE consumidos[c]]
  /\ enviadas' = [c \in Conns |-> IF c \in D THEN 0 ELSE enviadas[c]]
  /\ eventos' = [c \in Conns |-> IF c \in D THEN 0 ELSE eventos[c]]
  /\ avisos' = [c \in Conns |-> IF c \in D THEN 0 ELSE avisos[c]]
  /\ fotos_pedidas' = [c \in Conns |-> IF c \in D THEN 0 ELSE fotos_pedidas[c]]

\* The panel closes the connection (recv returns nothing), or reading or
\* writing fails: the handler destroys itself.
shutdown_callback(c) ==
  /\ Viva(c)
  /\ Destroi({c})
  /\ UNCHANGED processo

\* The three timeouts that give the connection up.
Desiste(c, timer) ==
  /\ Viva(c)
  /\ timer \in pend[c]
  /\ Destroi({c})
  /\ UNCHANGED processo

timeout_identificacao(c) == Desiste(c, "ident")

timeout_comunicacao_defeito(c) == ~central_identificada[c] /\ Desiste(c, "comm")
timeout_comunicacao(c) == Desiste(c, "comm")

timeout_msgincompleta(c) == Desiste(c, "incompleta")

-----------------------------------------------------------------------------
\* recv_callback after data was appended to recv_buf: to_comm restarts (it is
\* put in Timeout.pending) and processar_msg is scheduled unless it already is.
recv_callback(c) ==
  /\ atrib' = [atrib EXCEPT ![c] = @ \cup {"processa"}]
  /\ pend' = [pend EXCEPT ![c] = @ \cup {"comm"} \cup ({"processa"} \ atrib[c])]
  /\ UNCHANGED <<processo, estado, ignorar, central_identificada, send_buf,
                 backoff, consumidos, enviadas, avisos, fotos_pedidas>>

\* The end of the buffer is a frame still being received.
Cortado(buf) == buf # <<>> /\ ~buf[Len(buf)].completa

\* The first octets of frame q arrive, all of it or a part.  A heartbeat is a
\* single octet.  Several frames in one recv() are several such steps.
RecebeQuadro(c, q, inteiro) ==
  /\ Viva(c)
  /\ ~ignorar[c]
  /\ ~Cortado(recv_buf[c])
  /\ q.tipo = "heartbeat" => inteiro
  /\ recebidos[c] < MaxQuadros
  /\ recv_buf' = [recv_buf EXCEPT ![c] =
                    Append(@, [quadro |-> q, completa |-> inteiro])]
  /\ recebidos' = [recebidos EXCEPT ![c] = @ + 1]
  /\ eventos' = [eventos EXCEPT ![c] =
                   IF inteiro /\ EventoBemFormado(q) THEN @ + 1 ELSE @]
  /\ recv_callback(c)

\* More octets of a frame that was cut short, up to its end or not.
RecebeContinuacao(c, fim) ==
  /\ Viva(c)
  /\ ~ignorar[c]
  /\ Cortado(recv_buf[c])
  /\ LET n == Len(recv_buf[c])
         q == recv_buf[c][n].quadro
     IN  /\ recv_buf' = [recv_buf EXCEPT ![c] =
                [@ EXCEPT ![n] = [quadro |-> q, completa |-> fim]]]
         /\ eventos' = [eventos EXCEPT ![c] =
                IF fim /\ EventoBemFormado(q) THEN @ + 1 ELSE @]
  /\ UNCHANGED recebidos
  /\ recv_callback(c)

\* Data on an ignored connection is dropped, with whatever was buffered, and
\* no timer is restarted.
RecebeIgnorada(c) ==
  /\ Viva(c)
  /\ ignorar[c]
  /\ recv_buf' = [recv_buf EXCEPT ![c] = <<>>]
  /\ UNCHANGED <<processo, estado, ignorar, central_identificada, atrib, pend,
                 send_buf, backoff, recebidos, consumidos, enviadas, eventos,
                 avisos, fotos_pedidas>>

\* The socket takes n of the queued answers.
send_callback(c, n) ==
  /\ Viva(c)
  /\ n \in 1 .. send_buf[c]
  /\ send_buf' = [send_buf EXCEPT ![c] = @ - n]
  /\ enviadas' = [enviadas EXCEPT ![c] = @ + n]
  /\ UNCHANGED <<processo, estado, ignorar, central_identificada, atrib, pend,
                 recv_buf, backoff, recebidos, consumidos, eventos, avisos,
                 fotos_pedidas>>

-----------------------------------------------------------------------------
\* processar_msg finds nothing it can consume.  With a frame cut short at the
\* head of the buffer, to_incompleta starts unless it is already running.
SemMensagem(c) ==
  /\ Viva(c)
  /\ "processa" \in pend[c]
  /\ recv_buf[c] # <<>> => ~Head(recv_buf[c]).completa
  /\ LET nova == IF recv_buf[c] # <<>> THEN {"incompleta"} \ atrib[c] ELSE {}
     IN  /\ atrib' = [atrib EXCEPT ![c] = (@ \ {"processa"}) \cup nova]
         /\ pend' = [pend EXCEPT ![c] = (@ \ {"processa"}) \cup nova]
  /\ UNCHANGED <<processo, estado, ignorar, central_identificada, recv_buf,
                 send_buf, backoff, recebidos, consumidos, enviadas, eventos,
                 avisos, fotos_pedidas>>

\* The frame that processar_msg is about to consume.
ProximoQuadro(c) == Head(recv_buf[c]).quadro

HaMensagem(c) ==
  /\ Viva(c)
  /\ "processa" \in pend[c]
  /\ recv_buf[c] # <<>>
  /\ Head(recv_buf[c]).completa

\* What stays in the buffer after its first frame is taken.
Resto_defeito(buf) == <<>>
Resto(buf) == Tail(buf)

\* processar_msg is scheduled again when data remains in the buffer.
Reagenda_defeito(buf) == {}
Reagenda(buf) == IF buf # <<>> THEN {"processa"} ELSE {}

\* The timers that a consumed frame cancels: to_incompleta, the backoff's, which
\* is replaced, and those in desarma.
Cancela_defeito(desarma) == {"backoff"} \cup desarma
Cancela(desarma) == {"incompleta", "backoff"} \cup desarma

\* The part of processar_msg common to every consumed frame: the frame leaves
\* the buffer, to_incompleta and the timers in desarma are cancelled through
\* their attributes, the backoff doubles and its timer is replaced, and
\* processar_msg is scheduled again if data remains.
ConsomeMsg(c, respostas, desarma) ==
  LET resto   == Resto(recv_buf[c])
      fora    == Cancela(desarma)
      armados == {"backoff"} \cup Reagenda(resto)
  IN  /\ recv_buf' = [recv_buf EXCEPT ![c] = resto]
      /\ atrib' = [atrib EXCEPT ![c] = (@ \ ({"processa"} \cup fora)) \cup armados]
      /\ pend' = [pend EXCEPT ![c] =
                    (@ \ ({"processa"} \cup (fora \cap atrib[c]))) \cup armados]
      /\ backoff' = [backoff EXCEPT ![c] = @ + 1]
      /\ send_buf' = [send_buf EXCEPT ![c] = @ + respostas]
      /\ consumidos' = [consumidos EXCEPT ![c] = @ + 1]
      /\ UNCHANGED <<processo, estado, recebidos, enviadas, eventos>>

\* Heartbeat, date/time request or unknown request: one answer, nothing else.
RespostaSimples(c) ==
  /\ HaMensagem(c)
  /\ ProximoQuadro(c).tipo \in {"heartbeat", "data_hora", "desconhecida"}
  /\ ConsomeMsg(c, 1, {})
  /\ UNCHANGED <<ignorar, central_identificada, avisos, fotos_pedidas>>

\* An alarm event.  A wrong length is answered and dropped; otherwise the
\* hooks run, each announced photo of a known event is queued for download,
\* and then the event is answered.
evento_alarme(c) ==
  /\ HaMensagem(c)
  /\ ProximoQuadro(c).tipo \in {"evento", "evento_foto"}
  /\ LET q  == ProximoQuadro(c)
         ok == EventoBemFormado(q)
     IN  /\ avisos' = [avisos EXCEPT ![c] = IF ok THEN @ + 1 ELSE @]
         /\ fotos_pedidas' = [fotos_pedidas EXCEPT ![c] = @ +
              IF ok /\ conhecido(q) /\ q.tipo = "evento_foto"
              THEN q.nr_fotos ELSE 0]
  /\ ConsomeMsg(c, 1, {})
  /\ UNCHANGED <<ignorar, central_identificada>>

\* Answers to an identification, and the timers it cancels.
RespostasIdent_defeito(q, aceita) == IF q.tam = "outro" THEN 1 ELSE 0
RespostasIdent(q, aceita) ==
  (IF q.tam = "outro" THEN 1 ELSE 0) + (IF aceita THEN 1 ELSE 0)

DesarmaIdent_defeito(aceita) == {"ident"}
DesarmaIdent(aceita) == IF aceita THEN {"ident"} ELSE {}

\* An identification.  A wrong length is answered but treated all the same.
\* An unknown panel, or one over the limit, is ignored without an answer;
\* otherwise the connection is identified and to_ident is cancelled.
identificacao_central(c) ==
  /\ HaMensagem(c)
  /\ ProximoQuadro(c).tipo = "ident"
  /\ ProximoQuadro(c).tam # "vazio"
  /\ LET q      == ProximoQuadro(c)
         aceita == valida_central(q) /\ valida_maxconn
     IN  /\ ignorar' = [ignorar EXCEPT ![c] = @ \/ ~aceita]
         /\ central_identificada' = [central_identificada EXCEPT ![c] = @ \/ aceita]
         /\ ConsomeMsg(c, RespostasIdent(q, aceita), DesarmaIdent(aceita))
  /\ UNCHANGED <<avisos, fotos_pedidas>>

\* An identification without a body: reading its first octet raises, nothing
\* catches the exception and the process ends with every connection.
FalhaProcesso(c) ==
  /\ HaMensagem(c)
  /\ ProximoQuadro(c).tipo = "ident"
  /\ ProximoQuadro(c).tam = "vazio"
  /\ processo' = "morto"
  /\ Destroi(Conns)

\* The supervisor that the README asks for starts receptorip again.
Reinicia ==
  /\ processo = "morto"
  /\ processo' = "rodando"
  /\ UNCHANGED conexao

processar_msg(c) ==
  \/ SemMensagem(c)
  \/ RespostaSimples(c)
  \/ evento_alarme(c)
  \/ identificacao_central(c)
  \/ FalhaProcesso(c)

\* The backoff halves, not below its minimum.
Recuo_defeito(n) == n - 2
Recuo(n) == IF n > 0 THEN n - 1 ELSE 0

\* to_backoff starts again while the backoff is above its minimum.
ArmaRecuo_defeito(n) == IF n > 1 THEN {"backoff"} ELSE {}
ArmaRecuo(n) == IF n > 0 THEN {"backoff"} ELSE {}

\* The backoff halves; to_backoff starts again while it is above the minimum.
recuar_backoff(c) ==
  /\ Viva(c)
  /\ "backoff" \in pend[c]
  /\ LET novo == Recuo(backoff[c])
         arma == ArmaRecuo(novo)
     IN  /\ backoff' = [backoff EXCEPT ![c] = novo]
         /\ atrib' = [atrib EXCEPT ![c] = (@ \ {"backoff"}) \cup arma]
         /\ pend' = [pend EXCEPT ![c] = (@ \ {"backoff"}) \cup arma]
  /\ UNCHANGED <<processo, estado, ignorar, central_identificada, recv_buf,
                 send_buf, recebidos, consumidos, enviadas, eventos, avisos,
                 fotos_pedidas>>

-----------------------------------------------------------------------------
Recebe(c) ==
  \/ \E q \in Quadros, inteiro \in BOOLEAN : RecebeQuadro(c, q, inteiro)
  \/ \E fim \in BOOLEAN : RecebeContinuacao(c, fim)
  \/ RecebeIgnorada(c)

\* A callback of the event loop about connection c.
Passo(c) ==
  \/ Aceita(c)
  \/ Recebe(c)
  \/ shutdown_callback(c)
  \/ \E n \in 1 .. send_buf[c] : send_callback(c, n)
  \/ timeout_identificacao(c)
  \/ timeout_comunicacao(c)
  \/ timeout_msgincompleta(c)
  \/ processar_msg(c)
  \/ recuar_backoff(c)

Next == Reinicia \/ \E c \in Conns : Passo(c)

Spec == Init /\ [][Next]_vars

\* A pending timer that nothing restarts fires once its deadline passes and
\* the sockets leave the loop idle.  to_comm is restarted by every recv of a
\* treated connection, so it is only guaranteed to fire on an ignored one.
Justica ==
  /\ \A c \in Conns :
       /\ WF_vars(processar_msg(c))
       /\ WF_vars(timeout_identificacao(c))
       /\ WF_vars(timeout_msgincompleta(c))
       /\ WF_vars(ignorar[c] /\ timeout_comunicacao(c))
       /\ WF_vars(recuar_backoff(c))
  /\ WF_vars(Reinicia)

SpecJusta == Spec /\ Justica

-----------------------------------------------------------------------------
\* Every variable of a connection holds a value of its kind.
TypeOK ==
  /\ processo \in {"rodando", "morto"}
  /\ estado \in [Conns -> {"aberta", "fechada"}]
  /\ ignorar \in [Conns -> BOOLEAN]
  /\ central_identificada \in [Conns -> BOOLEAN]
  /\ atrib \in [Conns -> SUBSET Timers]
  /\ pend \in [Conns -> SUBSET Timers]
  /\ recv_buf \in [Conns -> Seq(Pedaco)]
  /\ send_buf \in [Conns -> Nat]
  /\ backoff \in [Conns -> Nat]
  /\ recebidos \in [Conns -> Nat]
  /\ consumidos \in [Conns -> Nat]
  /\ enviadas \in [Conns -> Nat]
  /\ eventos \in [Conns -> Nat]
  /\ avisos \in [Conns -> Nat]
  /\ fotos_pedidas \in [Conns -> Nat]

\* At no time are more than maxconn panels connected and identified, although
\* the limit is tested when a connection is accepted and again, after other
\* connections may have been accepted and identified, at its identification.
MaxConnRespeitado == centrais_conectadas <= maxconn

\* A timer attribute is not None exactly while its timer is pending: the tests
\* "if not self.to_..." that decide whether to create or cancel a timer never
\* see a spent timer, and no pending timer is forgotten.  The delay between
\* messages is above its minimum exactly while the timer that reduces it is
\* pending, so a slowed-down connection always recovers.
TimersCoerentes ==
  \A c \in Conns :
    /\ atrib[c] = pend[c]
    /\ backoff[c] > 0 <=> "backoff" \in pend[c]

\* Buffered data is never stranded: either processar_msg is scheduled or the
\* frame at the head is incomplete and to_incompleta will close the connection.
\* Nor does to_incompleta outlive the frame it was started for and close a
\* connection that has nothing left to complete, unless it is being ignored.
BufferSupervisionado ==
  \A c \in Conns :
    /\ recv_buf[c] # <<>> =>
         \/ "processa" \in pend[c]
         \/ "incompleta" \in pend[c] /\ ~Head(recv_buf[c]).completa
    /\ "incompleta" \in pend[c] => recv_buf[c] # <<>> \/ ignorar[c]

\* Every open connection has a deadline: to_comm always, to_ident until the
\* panel identifies itself.  A destroyed one leaves no timer behind, and a
\* dead process leaves no connection.
ConexaoSupervisionada ==
  /\ \A c \in Conns :
       /\ estado[c] = "aberta" =>
            /\ "comm" \in pend[c]
            /\ "ident" \in pend[c] <=> ~central_identificada[c]
       /\ estado[c] = "fechada" => pend[c] = {}
  /\ processo = "morto" => \A c \in Conns : estado[c] = "fechada"

\* Whole alarm events waiting in buffer buf.
EventosEm(buf) ==
  Cardinality({i \in DOMAIN buf : buf[i].completa /\ EventoBemFormado(buf[i].quadro)})

\* No alarm event is lost or delivered twice by a treated connection: each one
\* received whole has gone to the hooks once or still waits in the buffer.
EventosConferem ==
  \A c \in Conns : estado[c] = "aberta" /\ ~ignorar[c] =>
    eventos[c] = avisos[c] + EventosEm(recv_buf[c])

\* On a treated connection whose identifications have no unexpected length,
\* each consumed frame gets exactly one answer, written or queued, so the
\* panel never pairs an answer with another request.
RespostasConferem ==
  (\A q \in Quadros : q.tipo = "ident" => q.tam # "outro") =>
    \A c \in Conns : estado[c] = "aberta" =>
      /\ ~ignorar[c] => send_buf[c] + enviadas[c] = consumidos[c]
      /\ send_buf[c] + enviadas[c] <= consumidos[c]

\* An ignored connection ends up closed by a timeout, even if it was already
\* identified and whatever it keeps sending.
IgnoradaAcabaFechando ==
  \A c \in Conns : ignorar[c] ~> estado[c] = "fechada"

\* A whole frame at the head of the buffer ends up consumed, unless its
\* connection is closed or ignored first.
MensagemAcabaConsumida ==
  \A c \in Conns, n \in 0 .. MaxQuadros :
    (consumidos[c] = n /\ recv_buf[c] # <<>> /\ Head(recv_buf[c]).completa)
      ~> (consumidos[c] # n \/ estado[c] = "fechada" \/ ignorar[c])

\* The limit only turns away new connections: when every identification is of
\* an accepted panel, an identified connection is never ignored.
IdentificadaNaoIgnorada ==
  \A c \in Conns : central_identificada[c] => ~ignorar[c]
=============================================================================
