-------------------------- MODULE ComandarCentral ---------------------------
(***************************************************************************)
(* The command line client comandar: one ComandarCentral of                *)
(* alarmeitbl/comandos.py, over TCPClientHandler, that authenticates, sends *)
(* one command and says goodbye, and the result the user sees.  Packets    *)
(* are octets here, cut anywhere by the network.  The panel is not part of *)
(* the repository: it understands packets as the comments of comandos.py   *)
(* describe them, answers each one at most once, may refuse, answer        *)
(* nonsense, keep silent or close, and accepts no other password than its  *)
(* own.  comandar dlfoto runs the objects of Fotos instead.                *)
(***************************************************************************)
EXTENDS Protocolo

CONSTANTS Pedidos,       \* command lines: [comando, alvo], alvo <<>> or <<n>>
          Acessos,       \* passwords given by the user: [senha, tam_senha]
          AcessoPainel   \* the password of the panel

ASSUME AcessosAssumption ==
  Acessos \cup {AcessoPainel} \subseteq [senha : Nat, tam_senha : Nat \ {0}]

\* The password fits in a packet, whose length has 16 bits.
ASSUME SenhaCabe == \A a \in Acessos : a.tam_senha <= 65531

\* True of all powers; stated because provers do not know what ^ is.
ASSUME PotenciasAssumption == \A a \in Acessos : Potencias(a.tam_senha)

VARIABLES
  pedido, acesso,   \* what the user asked for
  conexao,          \* "nova", "conectando", "aberta" or "destruida"
  tratador,         \* who gets the next answer: "nenhum", "autenticacao", "comando"
  status,           \* what destroyed_callback will report
  conn_timeout,     \* whether the timer is pending
  recv_buf,         \* octets received and not yet consumed
  send_buf,         \* packets to send
  saida,            \* "rodando", "sucesso", "erro", "excecao" or "uso"
  chegada,          \* packets on their way to the panel
  rede,             \* octets on their way from the panel
  painel,           \* the panel's side of the connection: "aberto", "fechado"
  autenticado,      \* what the panel said of the password: "nao", "sim", "recusado"
  executados        \* commands that the panel has carried out

entrada == <<pedido, acesso>>
cliente == <<conexao, tratador, status, conn_timeout, recv_buf, send_buf, saida>>
externo == <<chegada, rede, painel, autenticado, executados>>
vars == <<entrada, cliente, externo>>

-----------------------------------------------------------------------------
\* The partition or zone that comandar accepts on its command line.
AlvoValido_defeito(n) == n >= 1
AlvoValido(n) == n \in 1 .. 254

PedidoValido == pedido.alvo # <<>> => AlvoValido(pedido.alvo[1])

\* The command code of each subclass of ComandarCentral.
Codigo ==
  [desativar |-> \h401e, ativar |-> \h401e, desligarsirene |-> \h4019,
   limpardisparo |-> \h4013, cancelarzona |-> \h401f, reativarzona |-> \h401f,
   status |-> \h0b4a]

\* A command line names a command and at most one partition or zone.
ASSUME PedidosAssumption ==
  \A p \in Pedidos : /\ p \in [comando : DOMAIN Codigo, alvo : Seq(Int)]
                     /\ Len(p.alvo) <= 1

DeZona(p) == p.comando \in {"cancelarzona", "reativarzona"}

\* The partition, 255 standing for all of them.
Particao(p) == IF p.alvo = <<>> THEN 255 ELSE p.alvo[1]

\* What envia_comando_in sends; the zone commands need a zone.
Payload(p) ==
  CASE p.comando = "desativar"      -> <<Particao(p), 0>>
    [] p.comando = "ativar"         -> <<Particao(p), 1>>
    [] p.comando = "desligarsirene" -> <<Particao(p)>>
    [] p.comando = "cancelarzona"   -> <<p.alvo[1] - 1, 1>>
    [] p.comando = "reativarzona"   -> <<p.alvo[1] - 1, 0>>
    [] p.comando \in {"limpardisparo", "status"} -> <<>>

\* SolicitarStatus reads up to octet 38 and has no name for general status 2.
StatusLegivel(payload) == Len(payload) >= 38 /\ (payload[21] \div 32) % 4 # 2

Init ==
  /\ pedido \in Pedidos
  /\ acesso \in Acessos
  /\ conexao = "nova"
  /\ tratador = "nenhum"
  /\ status = 1
  /\ conn_timeout = FALSE
  /\ recv_buf = <<>>
  /\ send_buf = <<>>
  /\ saida = "rodando"
  /\ chegada = <<>>
  /\ rede = <<>>
  /\ painel = "aberto"
  /\ autenticado = "nao"
  /\ executados = <<>>

-----------------------------------------------------------------------------
\* The program ends before or without its event loop coming to rest.
Encerra(como) ==
  /\ saida' = como
  /\ conexao' = "destruida"
  /\ conn_timeout' = FALSE
  /\ UNCHANGED <<tratador, status, recv_buf, send_buf>>

\* usage()
Uso ==
  /\ conexao = "nova" /\ ~PedidoValido
  /\ saida = "rodando"
  /\ Encerra("uso")
  /\ UNCHANGED <<entrada, externo>>

\* The constructor starts to connect and sets conn_timeout; connect() may
\* raise.
Inicia ==
  /\ conexao = "nova" /\ PedidoValido
  /\ \/ /\ conexao' = "conectando"
        /\ conn_timeout' = TRUE
        /\ UNCHANGED <<tratador, status, recv_buf, send_buf, saida>>
     \/ Encerra("excecao")
  /\ UNCHANGED <<entrada, externo>>

\* destroy() with final status s: the observer exits with an error, or else
\* the event loop has nothing left and the program reports success.
destroy(s) == Encerra(IF s # 0 THEN "erro" ELSE "sucesso")

\* A packet is queued and conn_timeout starts again.
Envia_defeito(pct, quem) ==
  /\ send_buf' = Append(send_buf, pct)
  /\ tratador' = quem
  /\ conn_timeout' = FALSE
  /\ UNCHANGED saida

Envia(pct, quem) ==
  /\ send_buf' = Append(send_buf, pct)
  /\ tratador' = quem
  /\ conn_timeout' = TRUE
  /\ UNCHANGED saida

connection_callback(ok) ==
  /\ conexao = "conectando"
  /\ IF ok
     THEN /\ conexao' = "aberta"
          /\ Envia(pacote_isecnet2_auth(acesso.senha, acesso.tam_senha), "autenticacao")
          /\ UNCHANGED <<status, recv_buf>>
     ELSE destroy(1)
  /\ UNCHANGED <<entrada, externo>>

\* conn_timeout fires: an error, unless only the goodbye is missing.
StatusTimeout_defeito == 1
StatusTimeout == IF status # 0 THEN 1 ELSE status

TrataTimeout ==
  /\ conn_timeout
  /\ destroy(StatusTimeout)
  /\ UNCHANGED <<entrada, externo>>

\* The socket takes the first packet.
send_callback ==
  /\ conexao = "aberta" /\ send_buf # <<>>
  /\ send_buf' = Tail(send_buf)
  /\ chegada' = Append(chegada, Head(send_buf))
  /\ UNCHANGED <<entrada, conexao, tratador, status, conn_timeout, recv_buf, saida,
                 rede, painel, autenticado, executados>>

\* The panel has closed: recv() returns nothing, or reading or writing fails
\* and what was in flight is lost.
Queda ==
  /\ conexao = "aberta" /\ painel = "fechado"
  /\ destroy(status)
  /\ UNCHANGED <<entrada, externo>>

-----------------------------------------------------------------------------
\* recv() returns k octets; recv_callback sees them after the old ones.
Buffer(k) == recv_buf \o SubSeq(rede, 1, k)
Compr(k) == pacote_isecnet2_completo(Buffer(k))
Pacote(k) == SubSeq(Buffer(k), 1, Compr(k))
Resposta(k) == pacote_isecnet2_parse(Pacote(k))

\* What stays in the buffer after a packet of length compr.
Resto_defeito(buf, compr) == SubSeq(buf, compr, Len(buf))
Resto(buf, compr) == SubSeq(buf, compr + 1, Len(buf))

Recebe(k) ==
  /\ conexao = "aberta"
  /\ k \in 1 .. Len(rede)
  /\ rede' = SubSeq(rede, k + 1, Len(rede))
  /\ UNCHANGED <<entrada, chegada, painel, autenticado, executados>>

PacoteIncompleto(k) ==
  /\ Recebe(k)
  /\ Compr(k) = 0
  /\ recv_buf' = Buffer(k)
  /\ UNCHANGED <<conexao, tratador, status, conn_timeout, send_buf, saida>>

\* An answer that resposta_autenticacao takes for "accepted".
Aceita(r) == r.cmd = \hf0f0 /\ r.payload = <<0>>

\* An answer that resposta_comando passes on: the command or a plain ACK.
Confirma_defeito(r) == r.cmd \notin {\hf0fd, \hf0f7}
Confirma(r) == r.cmd \in {Codigo[pedido.comando], \hf0fe}

\* The whole packet is one the current tratador goes on with.
Serve(k) ==
  /\ pacote_isecnet2_correto(Pacote(k))
  /\ \/ tratador = "autenticacao" /\ Aceita(Resposta(k))
     \/ tratador = "comando" /\ Confirma(Resposta(k))

\* A whole packet that is wrong, unexpected, a refusal, a NAK or "busy".
PacoteRuim(k) ==
  /\ Recebe(k)
  /\ Compr(k) > 0
  /\ ~Serve(k)
  /\ destroy(status)

\* Authenticated: the command goes out; without the zone it needs it raises.
resposta_autenticacao(k) ==
  /\ Recebe(k)
  /\ tratador = "autenticacao"
  /\ Compr(k) > 0
  /\ Serve(k)
  /\ IF DeZona(pedido) /\ pedido.alvo = <<>>
     THEN Encerra("excecao")
     ELSE /\ recv_buf' = Resto(Buffer(k), Compr(k))
          /\ Envia(pacote_isecnet2(Codigo[pedido.comando], Payload(pedido)), "comando")
          /\ UNCHANGED <<conexao, status>>

\* Done: the status is printed, if it can be read, and the goodbye goes out.
resposta_comando(k) ==
  /\ Recebe(k)
  /\ tratador = "comando"
  /\ Compr(k) > 0
  /\ Serve(k)
  /\ IF pedido.comando = "status" /\ ~StatusLegivel(Resposta(k).payload)
     THEN Encerra("excecao")
     ELSE /\ recv_buf' = Resto(Buffer(k), Compr(k))
          /\ Envia(pacote_isecnet2_bye, "nenhum")
          /\ status' = 0
          /\ UNCHANGED conexao

-----------------------------------------------------------------------------
\* The panel.  It understands the first packet that has arrived.
Chegou == pacote_isecnet2_parse(Head(chegada))

Responde(pct) ==
  /\ painel = "aberto" /\ chegada # <<>>
  /\ chegada' = Tail(chegada)
  /\ rede' = rede \o pct
  /\ UNCHANGED <<entrada, cliente, painel>>

PainelAutentica ==
  /\ chegada # <<>> /\ Chegou.cmd = \hf0f0
  /\ LET digitos == SubSeq(Chegou.payload, 2, Len(Chegou.payload) - 1)
         ok == /\ Len(digitos) = AcessoPainel.tam_senha
               /\ contact_id_decode(digitos) = AcessoPainel.senha
     IN  /\ autenticado' = IF ok THEN "sim" ELSE "recusado"
         /\ Responde(pacote_isecnet2(\hf0f0, <<IF ok THEN 0 ELSE 1>>))
  /\ UNCHANGED executados

\* The command that a packet means to the panel.
Entende(r) ==
  CASE r.cmd = \h401e -> [comando |-> IF r.payload[2] = 1 THEN "ativar" ELSE "desativar",
                          alvo |-> IF r.payload[1] = 255 THEN <<>> ELSE <<r.payload[1]>>]
    [] r.cmd = \h4019 -> [comando |-> "desligarsirene",
                          alvo |-> IF r.payload[1] = 255 THEN <<>> ELSE <<r.payload[1]>>]
    [] r.cmd = \h401f -> [comando |-> IF r.payload[2] = 1 THEN "cancelarzona" ELSE "reativarzona",
                          alvo |-> <<r.payload[1] + 1>>]
    [] r.cmd = \h4013 -> [comando |-> "limpardisparo", alvo |-> <<>>]
    [] r.cmd = \h0b4a -> [comando |-> "status", alvo |-> <<>>]

\* General status 0, 1, 2 or 3 in octet 21 of a report of 38 octets.
Relatorio(g) == [i \in 1 .. 38 |-> IF i = 21 THEN 32 * g ELSE 0]

\* The command is carried out and confirmed by its own code or a plain ACK.
PainelExecuta ==
  /\ chegada # <<>> /\ Chegou.cmd \notin {\hf0f0, \hf0f1}
  /\ autenticado = "sim"
  /\ executados' = Append(executados, Entende(Chegou))
  /\ \/ Responde(pacote_isecnet2(\hf0fe, <<>>))
     \/ \E g \in {1, 2} :
          Responde(pacote_isecnet2(Chegou.cmd,
                     IF Chegou.cmd = \h0b4a THEN Relatorio(g) ELSE <<>>))
  /\ UNCHANGED autenticado

\* NAK with and without reason, busy, an answer to something else, a malformed
\* authentication, a wrong checksum, a length that leaves no command and one
\* that never gets complete.
Recusas ==
  {pacote_isecnet2(\hf0fd, <<40>>), pacote_isecnet2(\hf0fd, <<>>),
   pacote_isecnet2(\hf0f7, <<>>), pacote_isecnet2(\h0bb0, <<0>>),
   pacote_isecnet2(\hf0f0, <<>>), [pacote_isecnet2(\hf0fe, <<>>) EXCEPT ![9] = 0],
   [pacote_isecnet2(\hf0fe, <<>>) EXCEPT ![6] = 0],
   [pacote_isecnet2(\hf0fe, <<>>) EXCEPT ![6] = 3]}

\* No execution: a refusal, or no answer at all.
PainelRecusa ==
  /\ \E pct \in Recusas \cup {<<>>} : Responde(pct)
  /\ UNCHANGED <<autenticado, executados>>

PainelFecha ==
  /\ painel = "aberto" /\ conexao \in {"aberta", "destruida"}
  /\ painel' = "fechado"
  /\ UNCHANGED <<entrada, cliente, chegada, rede, autenticado, executados>>

Next ==
  \/ Uso \/ Inicia
  \/ \E ok \in BOOLEAN : connection_callback(ok)
  \/ TrataTimeout \/ send_callback \/ Queda
  \/ \E k \in 1 .. Len(rede) :
       PacoteIncompleto(k) \/ PacoteRuim(k) \/ resposta_autenticacao(k) \/ resposta_comando(k)
  \/ PainelAutentica \/ PainelExecuta \/ PainelRecusa \/ PainelFecha

Spec == Init /\ [][Next]_vars

\* The program starts, and a timer that nothing restarts fires.  Nothing is
\* assumed of the network or the panel.
Justica == WF_vars(Uso) /\ WF_vars(Inicia) /\ WF_vars(TrataTimeout)

SpecJusta == Spec /\ Justica

-----------------------------------------------------------------------------
\* Everything that is sent or received is a sequence of octets, and every
\* variable holds a value of its kind.
TypeOK ==
  /\ conexao \in {"nova", "conectando", "aberta", "destruida"}
  /\ tratador \in {"nenhum", "autenticacao", "comando"}
  /\ status \in {0, 1}
  /\ conn_timeout \in BOOLEAN
  /\ saida \in {"rodando", "sucesso", "erro", "excecao", "uso"}
  /\ recv_buf \in Seq(Octeto) /\ rede \in Seq(Octeto)
  /\ send_buf \in Seq(Seq(Octeto)) /\ chegada \in Seq(Seq(Octeto))
  /\ painel \in {"aberto", "fechado"}
  /\ autenticado \in {"nao", "sim", "recusado"}

\* What the user asked for, in the panel's terms.
Efetivo ==
  IF pedido.comando \in {"limpardisparo", "status"}
  THEN [pedido EXCEPT !.alvo = <<>>] ELSE pedido

\* The panel never carries out anything but the command, partition or zone that
\* the user gave, nor carries it out twice: the octets of payload, the "all
\* partitions" code and the numbering of zones lose nothing on the way.
ExecutaSoOPedido == executados \in {<<>>, <<Efetivo>>}

\* "Resultado: sucesso" is printed only if the panel has carried the command
\* out, however answers were cut, refused or corrupted and whoever closed.
SucessoConfirmado == saida = "sucesso" => executados = <<Efetivo>>

\* The panel accepts the password exactly when its digits are the panel's.
SenhaExata ==
  autenticado # "nao" =>
    (autenticado = "sim" <=>
       /\ acesso.tam_senha = AcessoPainel.tam_senha
       /\ acesso.senha % 10 ^ acesso.tam_senha = AcessoPainel.senha)

\* While a question is on its way no octet of an earlier answer is left to be
\* taken for its answer: packets are cut out of the stream at their ends.
SemSobra == send_buf \o chegada # <<>> => recv_buf \o rede = <<>>

\* Once the command is confirmed the user sees success, however the goodbye
\* ends: answered, closed or timed out.
ConfirmadoEhSucesso == [][status = 0 => saida' \in {"rodando", "sucesso"}]_vars

\* The program always ends.
AcabaSempre == <>(saida # "rodando")
=============================================================================
