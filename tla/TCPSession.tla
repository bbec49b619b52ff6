----------------------------- MODULE TCPSession -----------------------------
(***************************************************************************)
(* A TCP session of the Go library (goalarmeitbl/tcpsession.go): the       *)
(* goroutines recv and send, the goroutine that Close() starts, and the    *)
(* callbacks of the session's Timeouts (timeout.go), around the channels   *)
(* Events and to_send.  The goroutine that uses the session is in a module *)
(* that extends this one; the operators under "interface" are the calls it *)
(* makes.                                                                  *)
(*                                                                         *)
(* A step is what a goroutine does between two operations on a channel,    *)
(* the socket or a wait group.  A goroutine that finds Events full waits   *)
(* until somebody reads it; a send on a closed channel panics, and a panic *)
(* ends the whole process.                                                 *)
(*                                                                         *)
(* The octets of a read are abstracted to a segment: the frames it         *)
(* completes, and whether octets of an unfinished frame come after them.   *)
(***************************************************************************)
EXTENDS Naturals, Sequences, FiniteSets

CONSTANTS queue_depth,       \* 1 in the code
          send_queue_depth,  \* 2 in the code
          Timeouts,          \* names of the timeouts the user creates
          Segmentos,         \* what a read may return
          MaxSegmentos,      \* bound: reads that return data
          MaxDisparos        \* bound: timeouts that fire

\* What a frame asks of the program: an identification, an answer, or nothing.
Quadro == {"identifica", "pergunta", "mudo"}

Segmento == [quadros : Seq(Quadro), resto : BOOLEAN]

ASSUME FilasAssumption ==
  queue_depth \in Nat \ {0} /\ send_queue_depth \in Nat \ {0}
ASSUME SegmentosAssumption ==
  /\ Segmentos \subseteq Segmento
  /\ \A s \in Segmentos : s.quadros # <<>> \/ s.resto
ASSUME TimeoutsAssumption ==
  /\ IsFiniteSet(Timeouts)
  /\ Timeouts \cap {"Connected", "Recv", "RecvEof", "Sent", "SendEof", "Err"} = {}
ASSUME LimitesAssumption == MaxSegmentos \in Nat /\ MaxDisparos \in Nat

SegVazio == [quadros |-> <<>>, resto |-> FALSE]

Nomes == {"Connected", "Recv", "RecvEof", "Sent", "SendEof", "Err"} \cup Timeouts

Evento == [nome : Nomes, carga : Segmentos \cup {SegVazio}]

Simples(nome) == [nome |-> nome, carga |-> SegVazio]

\* The value of recv_ev and send_ev while nothing is being posted.
Nenhum == Simples("Connected")

VARIABLES
  rede,         \* the panel's side: "aberta", "fin" (closed) or "rst" (broken)
  conn_fechada, \* h.conn.Close() was called
  Events,       \* contents of the channel Events
  ev_fechado,   \* Events is closed
  to_send,      \* messages in the channel to_send
  ts_fechado,   \* to_send is closed
  recv,         \* goroutine recv: "le", "posta" or "fim"
  recv_ev,      \* the event that recv posts
  send,         \* goroutine send: "espera", "escreve", "posta", "drena", "fim"
  send_ev,      \* the event that send posts
  fim,          \* goroutine of Close(): "nao", "disown", "espera", "died", "fim"
  timers,       \* timeouts: "nil", "armado", or "parado" (stopped or fired)
  voo,          \* callbacks of fired timeouts that have not posted yet
  panico,       \* a goroutine has panicked
  lidos,        \* reads that returned data so far
  disparos,     \* timeouts fired so far
  escritas      \* messages written to the socket so far

canais == <<Events, ev_fechado, to_send, ts_fechado>>
svars == <<rede, conn_fechada, canais, recv, recv_ev, send, send_ev, fim,
           timers, voo, panico, lidos, disparos, escritas>>

-----------------------------------------------------------------------------
\* NewTCPSession and Start: "Connected" is posted before recv and send start.
SInit ==
  /\ rede = "aberta" /\ conn_fechada = FALSE
  /\ Events = <<Simples("Connected")>> /\ ev_fechado = FALSE
  /\ to_send = 0 /\ ts_fechado = FALSE
  /\ recv = "le" /\ recv_ev = Nenhum
  /\ send = "espera" /\ send_ev = Nenhum
  /\ fim = "nao"
  /\ timers = [t \in Timeouts |-> "nil"]
  /\ voo = [t \in Timeouts |-> 0]
  /\ panico = FALSE
  /\ lidos = 0 /\ disparos = 0 /\ escritas = 0

\* There is room in Events for another event.
Cabe_defeito == Len(Events) <= send_queue_depth + queue_depth
Cabe == Len(Events) < send_queue_depth + queue_depth

\* Events <- e: waits while the channel is full, panics if it is closed.
Posta(e) ==
  \/ /\ ~ev_fechado
     /\ Cabe
     /\ Events' = Append(Events, e)
     /\ UNCHANGED panico
  \/ /\ ev_fechado
     /\ panico' = TRUE
     /\ UNCHANGED Events

\* The panel closes its side, or the connection breaks.
RedeCai(como) ==
  /\ ~panico
  /\ rede = "aberta"
  /\ rede' = como
  /\ UNCHANGED <<conn_fechada, canais, recv, recv_ev, send, send_ev, fim,
                 timers, voo, panico, lidos, disparos, escritas>>

-----------------------------------------------------------------------------
\* Goroutine recv: conn.Read returns, then the event is posted.
Le(e) ==
  /\ ~panico
  /\ recv = "le"
  /\ recv' = "posta"
  /\ recv_ev' = e
  /\ UNCHANGED <<rede, conn_fechada, canais, send, send_ev, fim, timers, voo,
                 panico, disparos, escritas>>

LeDados(seg) ==
  /\ rede = "aberta" /\ ~conn_fechada
  /\ lidos < MaxSegmentos
  /\ lidos' = lidos + 1
  /\ Le([nome |-> "Recv", carga |-> seg])

\* The read fails: end of the panel's data, a broken or a closed connection.
LeFim ==
  /\ \/ ~conn_fechada /\ rede = "fin" /\ Le(Simples("RecvEof"))
     \/ (conn_fechada \/ rede = "rst") /\ Le(Simples("Err"))
  /\ UNCHANGED lidos

PostaRecv ==
  /\ ~panico
  /\ recv = "posta"
  /\ Posta(recv_ev)
  /\ recv' = IF recv_ev.nome = "Recv" THEN "le" ELSE "fim"
  /\ recv_ev' = Nenhum
  /\ UNCHANGED <<rede, conn_fechada, ev_fechado, to_send, ts_fechado, send, send_ev, fim, timers, voo, lidos, disparos, escritas>>

-----------------------------------------------------------------------------
\* Goroutine send: takes a message, writes it, posts the outcome.
TiraMensagem ==
  /\ ~panico
  /\ send = "espera"
  /\ to_send > 0
  /\ to_send' = to_send - 1
  /\ send' = "escreve"
  /\ UNCHANGED <<rede, conn_fechada, Events, ev_fechado, ts_fechado, recv,
                 recv_ev, send_ev, fim, timers, voo, panico, lidos, disparos,
                 escritas>>

\* conn.Write succeeds; after the panel has closed its side it still may.
Escreve ==
  /\ ~panico
  /\ send = "escreve"
  /\ ~conn_fechada /\ rede # "rst"
  /\ escritas' = escritas + 1
  /\ send' = "posta"
  /\ send_ev' = Simples("Sent")
  /\ UNCHANGED <<rede, conn_fechada, canais, recv, recv_ev, fim, timers, voo,
                 panico, lidos, disparos>>

EscreveFalha(nome) ==
  /\ ~panico
  /\ send = "escreve"
  /\ conn_fechada \/ rede # "aberta"
  /\ send' = "posta"
  /\ send_ev' = Simples(nome)
  /\ UNCHANGED <<rede, conn_fechada, canais, recv, recv_ev, fim, timers, voo,
                 panico, lidos, disparos, escritas>>

\* After an error the goroutine only drains to_send until it is closed.
AposPostar_defeito(e) == "espera"
AposPostar(e) == IF e.nome = "Sent" THEN "espera" ELSE "drena"

PostaSend ==
  /\ ~panico
  /\ send = "posta"
  /\ Posta(send_ev)
  /\ send' = AposPostar(send_ev)
  /\ send_ev' = Nenhum
  /\ UNCHANGED <<rede, conn_fechada, ev_fechado, to_send, ts_fechado, recv,
                 recv_ev, fim, timers, voo, lidos, disparos, escritas>>

Drena ==
  /\ ~panico
  /\ send = "drena"
  /\ to_send > 0
  /\ to_send' = to_send - 1
  /\ UNCHANGED <<rede, conn_fechada, Events, ev_fechado, ts_fechado, recv,
                 recv_ev, send, send_ev, fim, timers, voo, panico, lidos,
                 disparos, escritas>>

\* to_send is closed and empty: both loops over it end.
FimSend ==
  /\ ~panico
  /\ send \in {"espera", "drena"}
  /\ to_send = 0 /\ ts_fechado
  /\ send' = "fim"
  /\ UNCHANGED <<rede, conn_fechada, canais, recv, recv_ev, send_ev, fim,
                 timers, voo, panico, lidos, disparos, escritas>>

-----------------------------------------------------------------------------
\* The runtime starts the callback of an armed timeout...
Dispara(t) ==
  /\ ~panico
  /\ timers[t] = "armado"
  /\ disparos < MaxDisparos
  /\ disparos' = disparos + 1
  /\ timers' = [timers EXCEPT ![t] = "parado"]
  /\ voo' = [voo EXCEPT ![t] = @ + 1]
  /\ UNCHANGED <<rede, conn_fechada, canais, recv, recv_ev, send, send_ev, fim,
                 panico, lidos, escritas>>

\* ...which posts its event after it has released the timeout's mutex: neither
\* Stop, Restart nor Free can call it back.
PostaTimeout(t) ==
  /\ ~panico
  /\ voo[t] > 0
  /\ Posta(Simples(t))
  /\ voo' = [voo EXCEPT ![t] = @ - 1]
  /\ UNCHANGED <<rede, conn_fechada, ev_fechado, to_send, ts_fechado, recv,
                 recv_ev, send, send_ev, fim, timers, lidos, disparos, escritas>>

-----------------------------------------------------------------------------
\* The goroutine that Close() starts.  DisownAll stops the timeouts one by one.
Disown(t) ==
  /\ ~panico
  /\ fim = "disown"
  /\ timers[t] = "armado"
  /\ timers' = [timers EXCEPT ![t] = "parado"]
  /\ UNCHANGED <<rede, conn_fechada, canais, recv, recv_ev, send, send_ev, fim,
                 voo, panico, lidos, disparos, escritas>>

DisownAll ==
  /\ ~panico
  /\ fim = "disown"
  /\ \A t \in Timeouts : timers[t] # "armado"
  /\ fim' = "espera"
  /\ UNCHANGED <<rede, conn_fechada, canais, recv, recv_ev, send, send_ev,
                 timers, voo, panico, lidos, disparos, escritas>>

\* The wait group is released when recv and send have ended.
Terminaram_defeito == send = "fim"
Terminaram == recv = "fim" /\ send = "fim"

FechaEvents ==
  /\ ~panico
  /\ fim = "espera"
  /\ Terminaram
  /\ ev_fechado' = TRUE
  /\ fim' = "died"
  /\ UNCHANGED <<rede, conn_fechada, Events, to_send, ts_fechado, recv, recv_ev,
                 send, send_ev, timers, voo, panico, lidos, disparos, escritas>>

\* parent.Died: the server is told that the session is over.
Died ==
  /\ ~panico
  /\ fim = "died"
  /\ fim' = "fim"
  /\ UNCHANGED <<rede, conn_fechada, canais, recv, recv_ev, send, send_ev,
                 timers, voo, panico, lidos, disparos, escritas>>

\* A step of the session's own goroutines and timers, or of the network.
Sessao ==
  \/ \E como \in {"fin", "rst"} : RedeCai(como)
  \/ \E seg \in Segmentos : LeDados(seg)
  \/ LeFim
  \/ PostaRecv
  \/ TiraMensagem
  \/ Escreve
  \/ \E nome \in {"Err", "SendEof"} : EscreveFalha(nome)
  \/ PostaSend
  \/ Drena
  \/ FimSend
  \/ \E t \in Timeouts : Dispara(t) \/ PostaTimeout(t) \/ Disown(t)
  \/ DisownAll
  \/ FechaEvents
  \/ Died

-----------------------------------------------------------------------------
\* Interface, for the goroutine that uses the session.

\* range Events: the next event, one of those in nomes.
Pega(nomes) ==
  /\ ~panico
  /\ Events # <<>>
  /\ Head(Events).nome \in nomes
  /\ Events' = Tail(Events)
  /\ UNCHANGED <<ev_fechado, to_send, ts_fechado, panico>>

\* Send: waits while to_send is full.
Send ==
  /\ ~panico
  /\ to_send < send_queue_depth
  /\ to_send' = to_send + 1
  /\ UNCHANGED <<rede, conn_fechada, Events, ev_fechado, ts_fechado, recv,
                 recv_ev, send, send_ev, fim, timers, voo, panico, lidos,
                 disparos, escritas>>

\* Close, in two steps: the socket, then the channel to_send; the goroutine
\* that ends the session runs while the caller drains Events.
CloseConn ==
  /\ ~panico
  /\ conn_fechada' = TRUE
  /\ UNCHANGED <<rede, canais, recv, recv_ev, send, send_ev, fim, timers, voo,
                 panico, lidos, disparos, escritas>>

CloseToSend_defeito ==
  /\ ~panico
  /\ fim' = "disown"
  /\ UNCHANGED <<rede, conn_fechada, canais, recv, recv_ev, send, send_ev,
                 timers, voo, panico, lidos, disparos, escritas>>

CloseToSend ==
  /\ ~panico
  /\ ts_fechado' = TRUE
  /\ fim' = "disown"
  /\ UNCHANGED <<rede, conn_fechada, Events, ev_fechado, to_send, recv, recv_ev,
                 send, send_ev, timers, voo, panico, lidos, disparos, escritas>>
=============================================================================
