----------------------------- MODULE EventLoop ------------------------------
(***************************************************************************)
(* The event loop under every Python program (alarmeitbl/myeventloop):     *)
(* EventLoop.cycle, the timers in Timeout.pending and the descriptors in   *)
(* Handler.items.  The code of the callbacks is arbitrary: any sequence of *)
(* calls of the interface, in any order, also the ones that raise.         *)
(*                                                                         *)
(* Whether a descriptor is ready, and for what, is left open.  Every live  *)
(* handler is selected for reading or, while a client connects, for        *)
(* writing; no class asks for exceptional conditions.  The order of the    *)
(* dictionaries only chooses among ready descriptors and among timers of   *)
(* the same deadline, and is left open too.                                *)
(*                                                                         *)
(* agora is time.time(), which someone may set; select() measures its own  *)
(* wait (espera) with another clock, which nobody sets.                    *)
(***************************************************************************)
EXTENDS Integers, FiniteSets

CONSTANTS Handlers,      \* handler objects
          Timers,        \* Timeout objects
          Ninguem,       \* None
          Dono,          \* owner of each timer, Ninguem for a global one
          Atrasos,       \* values of relative_to
          Horizonte,     \* what _next() looks ahead (86400 s)
          MaxTempo,      \* bound: deadlines
          MaxAjustes,    \* bound: units by which the clock is set, in all
          MaxChamadas    \* bound: calls of the interface

ASSUME ObjetosAssumption ==
  /\ Ninguem \notin Handlers \cup Timers
  /\ Handlers \cap Timers = {}
  /\ Dono \in [Timers -> Handlers \cup {Ninguem}]
ASSUME AtrasosAssumption == Atrasos \subseteq Nat
ASSUME HorizonteAssumption == Horizonte \in Nat \ {0}
ASSUME LimitesAssumption ==
  MaxTempo \in Nat /\ MaxAjustes \in Nat /\ MaxChamadas \in Nat

VARIABLES
  pc,           \* "callback", "ciclo", "select", "handle", "fim", "excecao"
  atual,        \* the handler or timer whose callback runs; Ninguem: the program
  items,        \* Handler.items
  destroyed,    \* handlers that were destroyed
  pending,      \* Timeout.pending
  criados,      \* Timeout objects that exist
  invalidated,  \* those that were invalidated
  relative_to,  \* delay of each timer
  absolute_to,  \* deadline of each timer
  agora,        \* the clock
  espera,       \* what is left of the wait of select(), 0 outside it
  ajustes,      \* units by which the clock was set so far
  chamadas      \* calls so far

objetos == <<items, destroyed>>
timers == <<pending, criados, invalidated, relative_to, absolute_to>>
tempo == <<agora, espera, ajustes>>
vars == <<pc, atual, objetos, timers, tempo, chamadas>>

\* The program's own code runs first: it sets timers and creates handlers.
Init ==
  /\ pc = "callback"
  /\ atual = Ninguem
  /\ items = {}
  /\ destroyed = {}
  /\ pending = {}
  /\ criados = {}
  /\ invalidated = {}
  /\ relative_to = [t \in Timers |-> 0]
  /\ absolute_to = [t \in Timers |-> 0]
  /\ agora = 0
  /\ espera = 0
  /\ ajustes = 0
  /\ chamadas = 0

-----------------------------------------------------------------------------
\* The interface, as the running callback uses it.
Chama ==
  /\ pc = "callback"
  /\ chamadas < MaxChamadas
  /\ chamadas' = chamadas + 1

\* An exception that no callback catches leaves loop().
Excecao ==
  /\ pc' = "excecao"
  /\ atual' = Ninguem
  /\ UNCHANGED <<objetos, timers, tempo>>

\* Timeout._restart(): the deadline counts from now and the timer is pending.
_restart(t, d) ==
  /\ agora + d <= MaxTempo
  /\ relative_to' = [relative_to EXCEPT ![t] = d]
  /\ absolute_to' = [absolute_to EXCEPT ![t] = agora + d]
  /\ pending' = pending \cup {t}
  /\ UNCHANGED <<pc, atual, objetos, tempo, invalidated>>

\* Timeout.new() or Handler.timeout(), which refuses a destroyed handler.
timeout(t, d) ==
  /\ Chama
  /\ t \notin criados
  /\ Dono[t] \in items \cup destroyed \cup {Ninguem}
  /\ IF Dono[t] \in destroyed
     THEN Excecao
     ELSE _restart(t, d) /\ criados' = criados \cup {t}

\* Whether a call on t raises.
Recusa(t) == t \in invalidated

\* restart() keeps the delay and reset() changes it.  Both re-arm a spent or
\* cancelled timer.
reset(t, d) ==
  /\ Chama
  /\ t \in criados
  /\ IF Recusa(t) THEN Excecao ELSE _restart(t, d) /\ UNCHANGED criados

restart(t) == reset(t, relative_to[t])

\* cancel() does nothing to a timer that is not pending.
cancel(t) ==
  /\ Chama
  /\ t \in criados
  /\ IF Recusa(t)
     THEN Excecao
     ELSE /\ pending' = pending \ {t}
          /\ UNCHANGED <<pc, atual, objetos, tempo, criados, invalidated,
                         relative_to, absolute_to>>

\* A listener accepts a connection, or a client starts to connect.
NovoHandler(h) ==
  /\ Chama
  /\ h \notin items \cup destroyed
  /\ items' = items \cup {h}
  /\ UNCHANGED <<pc, atual, destroyed, timers, tempo>>

\* Timers that cancel_and_inval_by_owner takes out of pending.
Pertencem(h) == {t \in pending : Dono[t] = h}

\* destroy(): the handler leaves items; its pending timers are cancelled and
\* invalidated, the ones that are not pending stay as they are.
destroy(h) ==
  /\ Chama
  /\ h \in items \cup destroyed
  /\ IF h \in destroyed
     THEN Excecao
     ELSE /\ items' = items \ {h}
          /\ destroyed' = destroyed \cup {h}
          /\ pending' = pending \ Pertencem(h)
          /\ invalidated' = invalidated \cup Pertencem(h)
          /\ UNCHANGED <<pc, atual, tempo, criados, relative_to, absolute_to>>

\* The callback returns (the program calls loop()), or raises.
Retorna ==
  /\ pc = "callback"
  /\ pc' = "ciclo"
  /\ atual' = Ninguem
  /\ UNCHANGED <<objetos, timers, tempo, chamadas>>

Levanta ==
  /\ pc = "callback"
  /\ Excecao
  /\ UNCHANGED chamadas

-----------------------------------------------------------------------------
\* _next() sees t: its deadline is within the horizon.
Visivel_defeito(t) == absolute_to[t] < agora + 1
Visivel(t) == absolute_to[t] < agora + Horizonte

\* The timers _next() may return: the earliest ones, if it sees them.
_next_defeito ==
  {t \in pending : /\ absolute_to[t] >= agora /\ Visivel(t)
                   /\ \A u \in pending : absolute_to[t] <= absolute_to[u]}
_next ==
  {t \in pending : Visivel(t) /\ \A u \in pending : absolute_to[t] <= absolute_to[u]}

\* next_relative(): how long select() may wait for timer t.
Falta_defeito(t) == absolute_to[t] - agora
Falta(t) == IF absolute_to[t] > agora THEN absolute_to[t] - agora ELSE 0

\* The wait, for the timers in S that _next() may return.
next_relative_defeito(S) == Horizonte
next_relative(S) == IF S = {} THEN Horizonte ELSE Falta(CHOOSE t \in S : TRUE)

\* cycle() up to select(), when there is something to wait for.
Seleciona ==
  /\ pc = "ciclo"
  /\ items # {} \/ _next # {}
  /\ pc' = "select"
  /\ espera' = next_relative(_next)
  /\ UNCHANGED <<atual, objetos, timers, agora, ajustes, chamadas>>

\* No descriptor and no timer in sight: loop() returns.
Sai ==
  /\ pc = "ciclo"
  /\ items = {} /\ _next = {}
  /\ pc' = "fim"
  /\ UNCHANGED <<atual, objetos, timers, tempo, chamadas>>

\* select() returns a ready descriptor, of those that readable_fds() and its
\* companions offer, and its handler is called back.
Atende(h) ==
  /\ pc = "select"
  /\ h \in items
  /\ pc' = "callback"
  /\ atual' = h
  /\ espera' = 0
  /\ UNCHANGED <<objetos, timers, agora, ajustes, chamadas>>

\* select() returns nothing.
Esgota ==
  /\ pc = "select"
  /\ espera = 0
  /\ pc' = "handle"
  /\ UNCHANGED <<atual, objetos, timers, tempo, chamadas>>

\* handle() runs t: it is due.
Vencido_defeito(t) == TRUE
Vencido(t) == absolute_to[t] <= agora

\* What remains pending when t runs.
Retira(t) == pending \ {t}

\* handle(): the first timer, if due, leaves pending and is called back.
Dispara(t) ==
  /\ pc = "handle"
  /\ t \in _next
  /\ Vencido(t)
  /\ pending' = Retira(t)
  /\ pc' = "callback"
  /\ atual' = t
  /\ UNCHANGED <<objetos, criados, invalidated, relative_to, absolute_to, tempo,
                 chamadas>>

NadaVencido ==
  /\ pc = "handle"
  /\ \A t \in _next : ~Vencido(t)
  /\ pc' = "ciclo"
  /\ UNCHANGED <<atual, objetos, timers, tempo, chamadas>>

\* Time passes in select() and in callbacks.  The bound lets it reach every
\* deadline, and the end of every wait for one.
Passa ==
  /\ pc \in {"select", "callback"}
  /\ agora < MaxTempo + MaxAjustes
  /\ agora' = agora + 1
  /\ espera' = IF pc = "select" /\ espera > 0 THEN espera - 1 ELSE espera
  /\ UNCHANGED <<pc, atual, objetos, timers, ajustes, chamadas>>

\* Someone sets the clock of the machine.
AjustaRelogio ==
  /\ pc \in {"select", "callback"}
  /\ ajustes < MaxAjustes
  /\ ajustes' = ajustes + 1
  /\ agora' \in {agora - 1, agora + 1} \cap 0 .. MaxTempo + MaxAjustes
  /\ UNCHANGED <<pc, atual, objetos, timers, espera, chamadas>>

Interface ==
  \/ \E t \in Timers, d \in Atrasos : timeout(t, d) \/ reset(t, d)
  \/ \E t \in Timers : restart(t) \/ cancel(t)
  \/ \E h \in Handlers : NovoHandler(h) \/ destroy(h)

Next ==
  \/ Interface \/ Retorna \/ Levanta
  \/ Seleciona \/ Sai \/ Esgota \/ NadaVencido
  \/ \E h \in Handlers : Atende(h)
  \/ \E t \in Timers : Dispara(t)
  \/ Passa \/ AjustaRelogio

Spec == Init /\ [][Next]_vars

\* Callbacks return, the loop runs and time never stops, however often it is
\* interrupted.  Nothing is assumed of the descriptors.
Justica ==
  /\ WF_vars(Retorna)
  /\ WF_vars(Seleciona)
  /\ WF_vars(Sai)
  /\ SF_vars(Passa)
  /\ WF_vars(Esgota)
  /\ WF_vars(NadaVencido \/ \E t \in Timers : Dispara(t))

SpecJusta == Spec /\ Justica

-----------------------------------------------------------------------------
\* Every variable holds a value of its kind; no wait is negative.
TypeOK ==
  /\ pc \in {"callback", "ciclo", "select", "handle", "fim", "excecao"}
  /\ atual \in Handlers \cup Timers \cup {Ninguem}
  /\ items \subseteq Handlers
  /\ destroyed \subseteq Handlers
  /\ pending \subseteq Timers
  /\ criados \subseteq Timers
  /\ invalidated \subseteq Timers
  /\ relative_to \in [Timers -> Nat]
  /\ absolute_to \in [Timers -> Nat]
  /\ agora \in Nat
  /\ espera \in Nat
  /\ ajustes \in 0 .. MaxAjustes
  /\ chamadas \in 0 .. MaxChamadas

\* select() never sleeps past the earliest deadline by more than the clock was
\* set, whatever the callbacks did to the timers before it was called.
SonoLimitado ==
  pc = "select" /\ espera > 0 =>
    \A t \in pending : agora + espera <= absolute_to[t] + ajustes

\* loop() returns with no handler left, and gives up no timer but one whose
\* delay reaches the horizon of _next(), less what the clock was set back.
FimSemPendencias ==
  pc = "fim" =>
    /\ items = {}
    /\ \A t \in pending : relative_to[t] + ajustes >= Horizonte

\* Callbacks of timers run as Agenda says: never early, in the order of their
\* deadlines, one at a time, never once cancelled.  The timers that are pending
\* when destroy() ends their owner die with it, and no new one can be created
\* for it; one that is spent or cancelled at that moment may still be re-armed.
Contrato ==
  INSTANCE Agenda WITH Donos <- Handlers, relogio <- agora, armados <- pending,
                       prazo <- absolute_to, existem <- criados,
                       mortos <- invalidated, perdidos <- destroyed,
                       executando <- IF atual \in Timers THEN atual ELSE Ninguem
ImplementaAgenda == Contrato!ASpec

\* The descriptors do not starve the timers: select() is not found ready for
\* ever when its wait is over again and again.
Ociosidade == SF_vars(Esgota)

\* Then every pending timer leaves Timeout.pending (run, cancelled or
\* invalidated) unless loop() ends first: none is overlooked, although only one
\* runs in a cycle, handlers are served in between and callbacks (a bounded
\* number of times, so that none is postponed for ever) re-arm any of them.
TimerAcabaRodando ==
  Ociosidade =>
    \A t \in Timers : t \in pending ~> t \notin pending \/ pc \in {"fim", "excecao"}
=============================================================================
