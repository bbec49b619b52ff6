----------------------------- MODULE ReceptorIP -----------------------------
(***************************************************************************)
(* The receptorip program: the connections of Tratador plus the two timers *)
(* without owner that supervise the service, "watchdog" and "central_nc",  *)
(* and the process that may stop and be started again by a supervisor.     *)
(***************************************************************************)
EXTENDS Tratador

CONSTANT MaxQuedas   \* bound: unexpected stops of the process

ASSUME MaxQuedasAssumption == MaxQuedas \in Nat

VARIABLES
  pend_g,     \* timers without owner in Timeout.pending
  alarme,     \* central_nao_conectada.alarme
  gancho,     \* parameter of the last gancho_central, "nada" before the first
  pulso,      \* parity of the calls of gancho_watchdog
  quedas      \* unexpected stops so far

globais == <<pend_g, alarme, gancho, pulso, quedas>>
rvars == <<vars, globais>>

RInit ==
  /\ Init
  /\ pend_g = {"watchdog", "central_nc"}
  /\ alarme = 0
  /\ gancho = "nada"
  /\ pulso = 0
  /\ quedas = 0

\* Memory is lost with the process; what the hooks were told is not.
PerdeGlobais ==
  /\ pend_g' = {}
  /\ alarme' = 0
  /\ UNCHANGED <<gancho, pulso>>

\* A callback of a connection; one that raises takes everything down.
Sessao(c) ==
  /\ Passo(c)
  /\ IF processo' = "morto" THEN PerdeGlobais ELSE UNCHANGED <<pend_g, alarme, gancho, pulso>>
  /\ UNCHANGED quedas

\* The process stops for a reason of its own.
Para ==
  /\ processo = "rodando"
  /\ quedas < MaxQuedas
  /\ quedas' = quedas + 1
  /\ processo' = "morto"
  /\ Destroi(Conns)
  /\ PerdeGlobais

\* Start of the program, by the supervisor.
Inicia ==
  /\ Reinicia
  /\ pend_g' = {"watchdog", "central_nc"}
  /\ alarme' = 0
  /\ UNCHANGED <<gancho, pulso, quedas>>

\* The watchdog hook runs and the timer is set again, to an hour.
watchdog_defeito ==
  /\ processo = "rodando"
  /\ "watchdog" \in pend_g
  /\ pulso' = 1 - pulso
  /\ pend_g' = pend_g \ {"watchdog"}
  /\ UNCHANGED <<vars, alarme, gancho, quedas>>

watchdog ==
  /\ processo = "rodando"
  /\ "watchdog" \in pend_g
  /\ pulso' = 1 - pulso
  /\ pend_g' = (pend_g \ {"watchdog"}) \cup {"watchdog"}
  /\ UNCHANGED <<vars, alarme, gancho, quedas>>

\* The value of alarme for n connected panels.
NovoAlarme_defeito(n) == IF n = 0 THEN 1 ELSE alarme
NovoAlarme(n) == IF n = 0 THEN 1 ELSE 0

\* Every hour: the hook is called when alarme changes, and the timer restarts.
central_nao_conectada ==
  /\ processo = "rodando"
  /\ "central_nc" \in pend_g
  /\ alarme' = NovoAlarme(centrais_conectadas)
  /\ gancho' = IF alarme' = alarme THEN gancho ELSE IF alarme' = 1 THEN "1" ELSE "0"
  /\ pend_g' = (pend_g \ {"central_nc"}) \cup {"central_nc"}
  /\ UNCHANGED <<vars, pulso, quedas>>

RNext ==
  \/ \E c \in Conns : Sessao(c)
  \/ Para
  \/ Inicia
  \/ watchdog
  \/ central_nao_conectada

RSpec == RInit /\ [][RNext]_rvars

\* The timers of the program fire and the supervisor acts.
RJustica ==
  /\ WF_rvars(watchdog)
  /\ WF_rvars(central_nao_conectada)
  /\ WF_rvars(Inicia)

RSpecJusta == RSpec /\ RJustica

-----------------------------------------------------------------------------
\* While the process stays up the watchdog hook is called again and again.
SinalDeVida ==
  <>[](processo = "rodando") => []<>(pulso = 0) /\ []<>(pulso = 1)

\* When no panel is connected any more the alarm ends up raised, and when one
\* stays connected it ends up cleared, also after a crash and restart.
AlarmeAcompanha ==
  /\ <>[](processo = "rodando" /\ centrais_conectadas = 0) => <>[](alarme = 1)
  /\ <>[](processo = "rodando" /\ centrais_conectadas > 0) => <>[](alarme = 0)

\* When a panel stays connected, the last thing gancho_central was told is not
\* that no panel is connected.
GanchoResolvido ==
  <>[](processo = "rodando" /\ centrais_conectadas > 0) => <>[](gancho # "1")
=============================================================================
