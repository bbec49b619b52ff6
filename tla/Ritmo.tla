------------------------------- MODULE Ritmo --------------------------------
(***************************************************************************)
(* Tratador with durations: every step is a step of Tratador taken when    *)
(* its timer is due.  resta is the time left to the deadline of a pending  *)
(* timer, in eighths of a second (backoff_minimo is one).  The event loop  *)
(* is taken to be idle when a deadline comes, so no timer is late; what a  *)
(* busy loop does is the subject of EventLoop.  Writing answers and        *)
(* dropping the data of an ignored connection touch no timer and are left  *)
(* out: the answers stay in send_buf, the dropped data does not arrive.    *)
(* A process that died stays dead here, since no duration outlives it.     *)
(***************************************************************************)
EXTENDS Tratador

CONSTANT Saltos   \* times that may pass before the panel sends more

ASSUME SaltosAssumption == Saltos \subseteq Nat \ {0}

VARIABLES
  resta,    \* time left to each timer of a connection, 0 if not pending
  atraso,   \* self.backoff: the delay between two messages
  idade,    \* time since acceptance, until the panel is identified
  folga     \* messages treated ahead of one per second, in eighths of one

tvars == <<vars, resta, atraso, idade, folga>>

Maior(a, b) == IF a >= b THEN a ELSE b

\* avancar_backoff and recuar_backoff on a delay a.
Dobra_defeito(a) == 4 * a
Dobra(a) == 2 * a

Metade(a) == Maior(a \div 2, 1)

\* The pause after which delay a is halved.
PausaRecuo_defeito(a) == 2 * a
PausaRecuo(a) == Maior(8, 2 * a)

\* Time given to timer t by a connection with delay a.
Duracao(t, a) ==
  CASE t = "ident"      -> 8 * 120
    [] t = "comm"       -> 8 * 600
    [] t = "incompleta" -> 8 * 60
    [] t = "processa"   -> a
    [] t = "backoff"    -> PausaRecuo(a)

TInit ==
  /\ Init
  /\ resta = [c \in Conns |-> [t \in Timers |-> 0]]
  /\ atraso = [c \in Conns |-> 1]
  /\ idade = [c \in Conns |-> 0]
  /\ folga = [c \in Conns |-> 0]

\* Timers in armados were created or restarted by c in this step.
Arma(c, armados) ==
  resta' = [d \in Conns |-> [t \in Timers |->
              IF d = c /\ t \in armados THEN Duracao(t, atraso'[c])
              ELSE IF t \in pend'[d] THEN resta[d][t] ELSE 0]]

\* Delay and measures after a step of c that treats a message or not, and may
\* destroy connections.
Mede(c, tratou) ==
  /\ atraso' = [d \in Conns |-> IF estado'[d] = "fechada" THEN 1
                   ELSE IF d = c /\ tratou THEN Dobra(atraso[d]) ELSE atraso[d]]
  /\ folga' = [d \in Conns |-> IF estado'[d] = "fechada" THEN 0
                  ELSE IF d = c /\ tratou THEN folga[d] + 8 ELSE folga[d]]
  /\ idade' = [d \in Conns |-> IF estado'[d] = "fechada" THEN 0 ELSE idade[d]]

Vencido(c, t) == t \in pend[c] /\ resta[c][t] = 0

TAceita(c) ==
  /\ Aceita(c)
  /\ atraso' = [atraso EXCEPT ![c] = 1]
  /\ Arma(c, {"ident", "comm"})
  /\ idade' = [idade EXCEPT ![c] = 0]
  /\ folga' = [folga EXCEPT ![c] = 0]

\* Timers that recv_callback starts or restarts.
ArmaRecv_defeito(c) == {"ident", "comm"} \cup ({"processa"} \ atrib[c])
ArmaRecv(c) == {"comm"} \cup ({"processa"} \ atrib[c])

TRecebe(c) ==
  /\ \/ \E q \in Quadros, inteiro \in BOOLEAN : RecebeQuadro(c, q, inteiro)
     \/ \E fim \in BOOLEAN : RecebeContinuacao(c, fim)
  /\ UNCHANGED <<atraso, idade, folga>>
  /\ Arma(c, ArmaRecv(c))

\* A consumed message replaces to_backoff and schedules the next processar_msg
\* with the doubled delay; an incomplete one may start to_incompleta.
TProcessa(c) ==
  /\ Vencido(c, "processa")
  /\ processar_msg(c)
  /\ LET tratou == consumidos'[c] > consumidos[c]
     IN  /\ Mede(c, tratou)
         /\ Arma(c, IF tratou THEN pend'[c] \cap {"processa", "backoff"}
                              ELSE pend'[c] \ pend[c])

TRecua(c) ==
  /\ Vencido(c, "backoff")
  /\ recuar_backoff(c)
  /\ atraso' = [atraso EXCEPT ![c] = Metade(@)]
  /\ Arma(c, pend'[c] \cap {"backoff"})
  /\ UNCHANGED <<idade, folga>>

\* The connection ends, by a timeout or by the panel.
TFim(c) ==
  /\ \/ shutdown_callback(c)
     \/ Vencido(c, "ident") /\ timeout_identificacao(c)
     \/ Vencido(c, "comm") /\ timeout_comunicacao(c)
     \/ Vencido(c, "incompleta") /\ timeout_msgincompleta(c)
  /\ Mede(c, FALSE)
  /\ Arma(c, {})

\* Time passes, at most to the next deadline.
Passa(d) ==
  /\ d > 0
  /\ \A c \in Conns : \A t \in pend[c] : d <= resta[c][t]
  /\ resta' = [c \in Conns |-> [t \in Timers |->
                 IF t \in pend[c] THEN resta[c][t] - d ELSE 0]]
  /\ idade' = [c \in Conns |-> IF estado[c] = "aberta" /\ ~central_identificada[c]
                               THEN idade[c] + d ELSE 0]
  /\ folga' = [c \in Conns |-> IF folga[c] > d THEN folga[c] - d ELSE 0]
  /\ UNCHANGED <<vars, atraso>>

AteOPrazo == \E c \in Conns : \E t \in pend[c] : Passa(resta[c][t])

TNext ==
  \/ \E c \in Conns : \/ TAceita(c) \/ TRecebe(c)
                      \/ TProcessa(c) \/ TRecua(c) \/ TFim(c)
  \/ AteOPrazo
  \/ \E d \in Saltos : Passa(d)

TSpec == TInit /\ [][TNext]_tvars

-----------------------------------------------------------------------------
\* A treated connection that has sent no more than MaxQuadros frames is not
\* closed by to_comm with a whole message waiting: although each message
\* doubles the delay before the next, the next one is treated first.  With
\* the delays of the code this is so up to twelve frames.
MensagemAntesDoTimeout ==
  \A c \in Conns : recv_buf[c] # <<>> /\ Head(recv_buf[c]).completa =>
    resta[c]["processa"] < resta[c]["comm"]

\* A connection without identification lasts 120 seconds at most, whatever it
\* sends and however slowly its messages are treated.
PrazoIdentificacao ==
  \A c \in Conns : estado[c] = "aberta" /\ ~central_identificada[c] =>
    idade[c] <= 8 * 120

\* The backoff keeps a connection, over any stretch of time, to one message a
\* second plus a burst of less than three: it does not come down too early.
VazaoLimitada == \A c \in Conns : folga[c] < 8 * 3
=============================================================================
