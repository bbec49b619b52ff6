------------------------- MODULE TratadorReceptorIP -------------------------
(***************************************************************************)
(* One panel connection of the Go receiver: the goroutine that             *)
(* NewTratadorReceptorIP starts (goalarmeitbl/receptor_tratador.go) on top *)
(* of its TCPSession.                                                      *)
(***************************************************************************)
EXTENDS TCPSession

ASSUME NomesAssumption == Timeouts = {"to_ident", "to_comm", "to_incompleta"}

VARIABLES
  trat,                 \* the goroutine: "inicio", "range", "parse", "send",
                        \* "close" (in Close), "drena" or "fim"
  buffer,               \* received and not consumed
  central_identificada, \* the panel has identified itself
  perguntas             \* frames that ask for an answer consumed so far

vars == <<svars, trat, buffer, central_identificada, perguntas>>

\* Everything of the session but its channels, its timeouts and panico.
resto_da_sessao == <<rede, conn_fechada, recv, recv_ev, send, send_ev, fim,
                     lidos, disparos, escritas>>

Init ==
  /\ SInit
  /\ trat = "inicio"
  /\ buffer = SegVazio
  /\ central_identificada = FALSE
  /\ perguntas = 0

-----------------------------------------------------------------------------
\* Called by the receiver when the server hands over the session.
NewTratadorReceptorIP ==
  /\ ~panico
  /\ trat = "inicio"
  /\ timers' = [timers EXCEPT !["to_ident"] = "armado", !["to_comm"] = "armado"]
  /\ trat' = "range"
  /\ UNCHANGED <<resto_da_sessao, canais, voo, panico, buffer,
                 central_identificada, perguntas>>

\* "Recv": the data is appended to buffer and parse() restarts to_comm.
EventoRecv ==
  /\ trat = "range"
  /\ Pega({"Recv"})
  /\ buffer' = [quadros |-> buffer.quadros \o Head(Events).carga.quadros,
                resto   |-> Head(Events).carga.resto]
  /\ timers' = [timers EXCEPT !["to_comm"] = "armado"]
  /\ trat' = "parse"
  /\ UNCHANGED <<resto_da_sessao, voo, central_identificada, perguntas>>

\* Events that end the session: a timeout, an end of file or an error.
Encerra_defeito == Timeouts \cup {"Err"}
Encerra == Timeouts \cup {"SendEof", "RecvEof", "Err"}

\* The others ("Connected", "Sent") are ignored.
EventoIgnorado ==
  /\ trat = "range"
  /\ Pega(Nomes \ ({"Recv"} \cup Encerra))
  /\ UNCHANGED <<resto_da_sessao, timers, voo, trat, buffer,
                 central_identificada, perguntas>>

EventoEncerra ==
  /\ trat = "range"
  /\ Pega(Encerra)
  /\ trat' = "close"
  /\ UNCHANGED <<resto_da_sessao, timers, voo, buffer, central_identificada,
                 perguntas>>

-----------------------------------------------------------------------------
\* Timeouts that a frame frees: to_incompleta, and to_ident when the panel
\* identifies itself.
Libera_defeito(q) == {"to_incompleta", "to_ident"}
Libera(q) == {"to_incompleta"} \cup (IF q = "identifica" THEN {"to_ident"} ELSE {})

\* The loop of parse(): the next frame is taken from buffer and handled by
\* trata_pacote.  The answer, if any, is the last thing done about it.
trata_pacote ==
  /\ ~panico
  /\ trat = "parse"
  /\ buffer.quadros # <<>>
  /\ LET q == Head(buffer.quadros)
     IN  /\ timers' = [t \in Timeouts |-> IF t \in Libera(q) THEN "nil" ELSE timers[t]]
         /\ central_identificada' = (central_identificada \/ q = "identifica")
         /\ trat' = IF q = "mudo" THEN "parse" ELSE "send"
         /\ perguntas' = IF q = "mudo" THEN perguntas ELSE perguntas + 1
  /\ buffer' = [buffer EXCEPT !.quadros = Tail(@)]
  /\ UNCHANGED <<resto_da_sessao, canais, voo, panico>>

\* resposta_generica or solicita_data_hora: tcp.Send.
enviar ==
  /\ trat = "send"
  /\ Send
  /\ trat' = "parse"
  /\ UNCHANGED <<buffer, central_identificada, perguntas>>

\* to_incompleta starts when the octets of an unfinished frame are left over.
ArmaIncompleta_defeito == FALSE
ArmaIncompleta == buffer.resto /\ timers["to_incompleta"] = "nil"

\* No whole frame is left: parse() returns.
FimParse ==
  /\ ~panico
  /\ trat = "parse"
  /\ buffer.quadros = <<>>
  /\ timers' = [timers EXCEPT !["to_incompleta"] =
                  IF ArmaIncompleta THEN "armado" ELSE @]
  /\ trat' = "range"
  /\ UNCHANGED <<resto_da_sessao, canais, voo, panico, buffer,
                 central_identificada, perguntas>>

-----------------------------------------------------------------------------
\* Close(): the socket, then to_send, then Events is drained until closed.
Fecha1 ==
  /\ trat = "close"
  /\ ~conn_fechada
  /\ CloseConn
  /\ UNCHANGED <<trat, buffer, central_identificada, perguntas>>

Fecha2 ==
  /\ trat = "close"
  /\ conn_fechada
  /\ CloseToSend
  /\ trat' = "drena"
  /\ UNCHANGED <<buffer, central_identificada, perguntas>>

DrenaEvents ==
  /\ trat = "drena"
  /\ Pega(Nomes)
  /\ UNCHANGED <<resto_da_sessao, timers, voo, trat, buffer,
                 central_identificada, perguntas>>

FimClose ==
  /\ ~panico
  /\ trat = "drena"
  /\ Events = <<>> /\ ev_fechado
  /\ trat' = "fim"
  /\ UNCHANGED <<svars, buffer, central_identificada, perguntas>>

Tratador ==
  \/ NewTratadorReceptorIP
  \/ EventoRecv
  \/ EventoIgnorado
  \/ EventoEncerra
  \/ trata_pacote
  \/ enviar
  \/ FimParse
  \/ Fecha1
  \/ Fecha2
  \/ DrenaEvents
  \/ FimClose

DaSessao == Sessao /\ UNCHANGED <<trat, buffer, central_identificada, perguntas>>

Next == Tratador \/ DaSessao

Spec == Init /\ [][Next]_vars

\* Runnable goroutines run.  What the panel and the clock do is not assumed: a
\* read or a write is only sure to return once the connection has ended.
Sozinho(A) == A /\ UNCHANGED <<trat, buffer, central_identificada, perguntas>>

Justica ==
  /\ WF_vars(Tratador)
  /\ WF_vars(Sozinho(LeFim))
  /\ WF_vars(Sozinho(PostaRecv))
  /\ WF_vars(Sozinho(TiraMensagem \/ PostaSend \/ Drena \/ FimSend))
  /\ WF_vars(Sozinho(\E nome \in {"Err", "SendEof"} : EscreveFalha(nome)))
  /\ \A t \in Timeouts : WF_vars(Sozinho(PostaTimeout(t)))
  /\ WF_vars(Sozinho((\E t \in Timeouts : Disown(t)) \/ DisownAll \/ FechaEvents \/ Died))

SpecJusta == Spec /\ Justica

\* The panel reads what it is sent, so that every write returns.
SpecPainelLe == SpecJusta /\ WF_vars(Sozinho(Escreve))

-----------------------------------------------------------------------------
\* Every variable of the session and of its handler holds a value of its kind,
\* and the channels never hold more than their capacity.
TypeOK ==
  /\ rede \in {"aberta", "fin", "rst"} /\ conn_fechada \in BOOLEAN
  /\ Events \in Seq(Evento) /\ Len(Events) <= send_queue_depth + queue_depth
  /\ ev_fechado \in BOOLEAN
  /\ to_send \in 0 .. send_queue_depth /\ ts_fechado \in BOOLEAN
  /\ recv \in {"le", "posta", "fim"} /\ recv_ev \in Evento
  /\ send \in {"espera", "escreve", "posta", "drena", "fim"} /\ send_ev \in Evento
  /\ fim \in {"nao", "disown", "espera", "died", "fim"}
  /\ timers \in [Timeouts -> {"nil", "armado", "parado"}]
  /\ voo \in [Timeouts -> Nat]
  /\ panico \in BOOLEAN
  /\ lidos \in Nat /\ disparos \in Nat /\ escritas \in Nat
  /\ trat \in {"inicio", "range", "parse", "send", "close", "drena", "fim"}
  /\ buffer \in Segmento
  /\ central_identificada \in BOOLEAN
  /\ perguntas \in Nat

\* Timeout t is armed, or its callback is on its way, or its event is in
\* Events: the handler will get it if it keeps reading.
Vigia(t) ==
  \/ timers[t] = "armado"
  \/ voo[t] > 0
  \/ \E i \in DOMAIN Events : Events[i].nome = t

\* Between two events an open connection is always watched: to_comm, to_ident
\* until the panel identifies itself, and to_incompleta while the buffer holds
\* an unfinished frame, although each of them may fire while it is being
\* restarted or freed.
SessaoVigiada ==
  trat = "range" =>
    /\ Vigia("to_comm")
    /\ ~central_identificada => Vigia("to_ident")
    /\ buffer.resto => Vigia("to_incompleta")
    /\ ~buffer.resto => timers["to_incompleta"] = "nil"

\* The channels are closed in an order that only a late timeout can upset: when
\* Events is closed recv and send have ended and no timeout is armed, and a
\* panic comes from the callback of a timeout, never from them.
FechamentoOrdenado ==
  /\ ev_fechado =>
       /\ recv = "fim" /\ send = "fim" /\ ts_fechado /\ conn_fechada
       /\ \A t \in Timeouts : timers[t] # "armado"
  /\ panico => ev_fechado

\* While the connection works each question gets one answer: it is being
\* handed to the session, queued, being written or written.
RespostasConferem ==
  send \in {"espera", "escreve"} \/ (send = "posta" /\ send_ev.nome = "Sent") =>
    perguntas = escritas + to_send + (IF send = "escreve" THEN 1 ELSE 0)
                                   + (IF trat = "send" THEN 1 ELSE 0)

\* A Close that was called returns, whatever the queues held: recv and send can
\* always post because Events is being drained (or a late timeout panics).
CloseTermina == trat \in {"close", "drena"} ~> trat = "fim" \/ panico

\* When the connection has ended the session ends up closed, unless its
\* handler never comes back from Send.
FimPercebido == recv = "fim" ~> trat \in {"fim", "send"} \/ panico

\* Send does not block for ever.
SendTermina == trat = "send" ~> trat # "send" \/ panico

\* After Close returns no event is emitted: nothing posts on a closed channel.
CloseCala == ~panico
=============================================================================
