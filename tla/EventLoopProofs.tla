-------------------------- MODULE EventLoopProofs ---------------------------
(***************************************************************************)
(* Proofs about EventLoop, for any handlers, timers, owners, delays,       *)
(* horizon and bounds.                                                     *)
(***************************************************************************)
EXTENDS EventLoop, WellFoundedInduction, TLAPS

\* A set of numbers that is not empty has a least one.
LEMMA Minimo ==
  ASSUME NEW N \in SUBSET Nat, N # {}
  PROVE  \E n \in N : \A k \in N : n <= k
  <1> DEFINE R == {ss \in Nat \X Nat : ss[1] < ss[2]}
  <1>1. IsWellFoundedOn(R, Nat)
    BY NatLessThanWellFounded DEF OpToRel
  <1>2. \A k, n \in Nat : <<k, n>> \in R <=> k < n
    OBVIOUS
  <1> HIDE DEF R
  <1>3. PICK n \in N : \A k \in N : ~(<<k, n>> \in R)
    BY <1>1, WFMin
  <1>4. \A k \in N : n <= k
    <2> SUFFICES ASSUME NEW k \in N PROVE n <= k
      OBVIOUS
    <2>1. n \in Nat /\ k \in Nat
      OBVIOUS
    <2>2. ~(k < n)
      BY <1>2, <1>3, <2>1, Zenon
    <2> QED
      BY <2>1, <2>2
  <1> QED
    BY <1>4

\* When _next() finds nothing, no pending timer is within the horizon.
LEMMA NextVazio ==
  ASSUME TypeOK, _next = {}
  PROVE  \A t \in pending : ~Visivel(t)
  <1> SUFFICES ASSUME NEW t \in pending, Visivel(t) PROVE FALSE
    OBVIOUS
  <1> DEFINE N == {absolute_to[u] : u \in pending}
  <1>1. N \in SUBSET Nat /\ N # {}
    BY DEF TypeOK
  <1>2. PICK n \in N : \A k \in N : n <= k
    BY <1>1, Minimo
  <1>3. PICK u \in pending : absolute_to[u] = n
    BY <1>2
  <1>4. \A v \in pending : absolute_to[u] <= absolute_to[v]
    BY <1>2, <1>3
  <1>5. Visivel(u)
    <2>1. absolute_to[u] <= absolute_to[t] /\ absolute_to[u] \in Nat
          /\ absolute_to[t] \in Nat /\ agora \in Nat
      BY <1>4 DEF TypeOK
    <2> QED
      BY <2>1, HorizonteAssumption DEF Visivel
  <1> QED
    BY <1>4, <1>5 DEF _next

-----------------------------------------------------------------------------
(***************************************************************************)
(* Type correctness.  A wait is a natural number because next_relative()   *)
(* cuts it at zero.                                                        *)
(***************************************************************************)
LEMMA EsperaNatural ==
  ASSUME TypeOK
  PROVE  next_relative(_next) \in Nat
  <1>1. CASE _next = {}
    BY <1>1, HorizonteAssumption DEF next_relative
  <1>2. CASE _next # {}
    <2>1. PICK t \in Timers : next_relative(_next) = Falta(t)
      BY <1>2 DEF next_relative, _next, TypeOK
    <2> QED
      BY <2>1 DEF Falta, TypeOK
  <1> QED
    BY <1>1, <1>2

\* reset() leaves a timer pending for the time it is given.
LEMMA TipoReset ==
  ASSUME TypeOK, NEW t \in Timers, NEW d \in Nat, reset(t, d)
  PROVE  TypeOK'
  <1>1. CASE Recusa(t)
    BY <1>1, LimitesAssumption DEF TypeOK, reset, Chama, Excecao, objetos, timers, tempo
  <1>2. CASE ~Recusa(t)
    BY <1>2, LimitesAssumption DEF TypeOK, reset, Chama, _restart, objetos, tempo
  <1> QED
    BY <1>1, <1>2

\* Every call of the interface keeps the types.
LEMMA TipoInterface ==
  ASSUME TypeOK, Interface
  PROVE  TypeOK'
  <1>1. ASSUME NEW t \in Timers, NEW d \in Atrasos, timeout(t, d) PROVE TypeOK'
    <2>1. CASE Dono[t] \in destroyed
      BY <1>1, <2>1, LimitesAssumption DEF TypeOK, timeout, Chama, Excecao, objetos, timers, tempo
    <2>2. CASE Dono[t] \notin destroyed
      BY <1>1, <2>2, AtrasosAssumption, LimitesAssumption
         DEF TypeOK, timeout, Chama, _restart, objetos, tempo
    <2> QED
      BY <2>1, <2>2
  <1>2. ASSUME NEW t \in Timers, NEW d \in Atrasos, reset(t, d) PROVE TypeOK'
    BY <1>2, TipoReset, AtrasosAssumption
  <1>3. ASSUME NEW t \in Timers, restart(t) PROVE TypeOK'
    BY <1>3, TipoReset DEF restart, TypeOK
  <1>4. ASSUME NEW t \in Timers, cancel(t) PROVE TypeOK'
    <2>1. CASE Recusa(t)
      BY <1>4, <2>1, LimitesAssumption DEF TypeOK, cancel, Chama, Excecao, objetos, timers, tempo
    <2>2. CASE ~Recusa(t)
      BY <1>4, <2>2, LimitesAssumption DEF TypeOK, cancel, Chama, objetos, tempo
    <2> QED
      BY <2>1, <2>2
  <1>5. ASSUME NEW h \in Handlers, NovoHandler(h) PROVE TypeOK'
    BY <1>5, LimitesAssumption DEF TypeOK, NovoHandler, Chama, timers, tempo
  <1>6. ASSUME NEW h \in Handlers, destroy(h) PROVE TypeOK'
    <2>1. CASE h \in destroyed
      BY <1>6, <2>1, LimitesAssumption DEF TypeOK, destroy, Chama, Excecao, objetos, timers, tempo
    <2>2. CASE h \notin destroyed
      BY <1>6, <2>2, LimitesAssumption DEF TypeOK, destroy, Pertencem, Chama, tempo
    <2> QED
      BY <2>1, <2>2
  <1> QED
    BY <1>1, <1>2, <1>3, <1>4, <1>5, <1>6 DEF Interface

\* Type correctness of the event loop, also when callbacks raise, handlers die
\* and the clock is set.
THEOREM TipoEventLoop == Spec => []TypeOK
  <1>1. Init => TypeOK
    BY LimitesAssumption DEF Init, TypeOK
  <1>2. TypeOK /\ [Next]_vars => TypeOK'
    <2> SUFFICES ASSUME TypeOK, [Next]_vars PROVE TypeOK'
      OBVIOUS
    <2> USE DEF TypeOK, objetos, timers, tempo
    <2>1. CASE Interface
      BY <2>1, TipoInterface
    <2>2. CASE Retorna
      BY <2>2 DEF Retorna
    <2>3. CASE Levanta
      BY <2>3 DEF Levanta, Excecao
    <2>4. CASE Seleciona
      BY <2>4, EsperaNatural DEF Seleciona
    <2>5. CASE Sai
      BY <2>5 DEF Sai
    <2>6. CASE Esgota
      BY <2>6 DEF Esgota
    <2>7. CASE NadaVencido
      BY <2>7 DEF NadaVencido
    <2>8. CASE \E h \in Handlers : Atende(h)
      BY <2>8 DEF Atende
    <2>9. CASE \E t \in Timers : Dispara(t)
      BY <2>9 DEF Dispara, Retira
    <2>10. CASE Passa
      BY <2>10 DEF Passa
    <2>11. CASE AjustaRelogio
      BY <2>11, LimitesAssumption DEF AjustaRelogio
    <2>12. CASE UNCHANGED vars
      BY <2>12 DEF vars
    <2> QED
      BY <2>1, <2>2, <2>3, <2>4, <2>5, <2>6, <2>7, <2>8, <2>9, <2>10, <2>11, <2>12
         DEF Next
  <1> QED
    BY <1>1, <1>2, PTL DEF Spec

-----------------------------------------------------------------------------
(***************************************************************************)
(* What the loop rests on: between callbacks nobody runs, and a pending    *)
(* timer is due at most its delay, one of Atrasos, and the adjustments of  *)
(* the clock ahead.                                                        *)
(***************************************************************************)
ParadoSemCallback == pc # "callback" => atual = Ninguem

PrazoProximo ==
  /\ pending \subseteq criados
  /\ \A t \in criados : relative_to[t] \in Atrasos
  /\ \A t \in pending : absolute_to[t] <= agora + relative_to[t] + ajustes

InvLaco ==
  ParadoSemCallback /\ PrazoProximo /\ SonoLimitado

\* reset() and restart() of a timer that was not invalidated.
LEMMA ResetInv ==
  ASSUME TypeOK, InvLaco, NEW t \in Timers, NEW d \in Atrasos, reset(t, d)
  PROVE  InvLaco'
  <1> USE DEF InvLaco, ParadoSemCallback, PrazoProximo, SonoLimitado
  <1>1. CASE Recusa(t)
    BY <1>1 DEF reset, Chama, Excecao, objetos, timers, tempo
  <1>2. CASE ~Recusa(t)
    <2>1. /\ pc' = "callback" /\ criados' = criados /\ t \in criados
          /\ invalidated' = invalidated /\ t \notin invalidated
          /\ agora' = agora /\ ajustes' = ajustes
          /\ relative_to' = [relative_to EXCEPT ![t] = d]
          /\ absolute_to' = [absolute_to EXCEPT ![t] = agora + d]
          /\ pending' = pending \cup {t}
      BY <1>2 DEF reset, Chama, _restart, Recusa, objetos, tempo
    <2> QED
      BY <2>1, AtrasosAssumption DEF TypeOK
  <1> QED
    BY <1>1, <1>2

\* Every call of the interface keeps the invariant.
LEMMA InterfaceInv ==
  ASSUME TypeOK, InvLaco, Interface
  PROVE  InvLaco'
  <1> USE DEF InvLaco, ParadoSemCallback, PrazoProximo, SonoLimitado
  <1>1. ASSUME NEW t \in Timers, NEW d \in Atrasos, timeout(t, d)
        PROVE  InvLaco'
    <2>1. CASE Dono[t] \in destroyed
      BY <1>1, <2>1 DEF timeout, Chama, Excecao, objetos, timers, tempo
    <2>2. CASE Dono[t] \notin destroyed
      <3>1. /\ pc' = "callback" /\ t \notin criados /\ criados' = criados \cup {t}
            /\ invalidated' = invalidated
            /\ agora' = agora /\ ajustes' = ajustes
            /\ relative_to' = [relative_to EXCEPT ![t] = d]
            /\ absolute_to' = [absolute_to EXCEPT ![t] = agora + d]
            /\ pending' = pending \cup {t}
        BY <1>1, <2>2 DEF timeout, Chama, _restart, objetos, tempo
      <3> QED
        BY <1>1, <3>1, AtrasosAssumption DEF TypeOK
    <2> QED
      BY <2>1, <2>2
  <1>2. ASSUME NEW t \in Timers, NEW d \in Atrasos, reset(t, d) PROVE InvLaco'
    BY <1>2, ResetInv
  <1>3. ASSUME NEW t \in Timers, restart(t) PROVE InvLaco'
    <2>1. relative_to[t] \in Atrasos
      BY <1>3 DEF restart, reset
    <2> QED
      BY <1>3, <2>1, ResetInv DEF restart
  <1>4. ASSUME NEW t \in Timers, cancel(t) PROVE InvLaco'
    <2>1. CASE Recusa(t)
      BY <1>4, <2>1 DEF cancel, Chama, Excecao, objetos, timers, tempo
    <2>2. CASE ~Recusa(t)
      BY <1>4, <2>2 DEF cancel, Chama, objetos, tempo
    <2> QED
      BY <2>1, <2>2
  <1>5. ASSUME NEW h \in Handlers, NovoHandler(h) PROVE InvLaco'
    BY <1>5 DEF NovoHandler, Chama, timers, tempo
  <1>6. ASSUME NEW h \in Handlers, destroy(h) PROVE InvLaco'
    <2>1. CASE h \in destroyed
      BY <1>6, <2>1 DEF destroy, Chama, Excecao, objetos, timers, tempo
    <2>2. CASE h \notin destroyed
      BY <1>6, <2>2 DEF destroy, Pertencem, Chama, tempo
    <2> QED
      BY <2>1, <2>2
  <1> QED
    BY <1>1, <1>2, <1>3, <1>4, <1>5, <1>6 DEF Interface

\* cycle() computes a wait that ends by the earliest deadline: that of the timer
\* that _next() returns or, without one, before any deadline it cannot see.
LEMMA SelecionaSono ==
  ASSUME TypeOK, Seleciona, NEW t \in pending, espera' > 0
  PROVE  agora + espera' <= absolute_to[t]
  <1>1. CASE _next = {}
    <2>1. ~Visivel(t)
      BY <1>1, NextVazio
    <2>2. espera' = Horizonte
      BY <1>1 DEF Seleciona, next_relative
    <2> QED
      BY <2>1, <2>2, HorizonteAssumption DEF Visivel, TypeOK
  <1>2. CASE _next # {}
    <2>1. PICK u \in _next : espera' = Falta(u)
      BY <1>2 DEF Seleciona, next_relative
    <2>2. u \in Timers /\ t \in Timers /\ absolute_to[u] <= absolute_to[t]
      BY <2>1 DEF _next, TypeOK
    <2> QED
      BY <2>1, <2>2 DEF Falta, TypeOK
  <1> QED
    BY <1>1, <1>2

\* The inductive invariant of the loop holds always.
LEMMA InvarianteLaco == Spec => []InvLaco
  <1>1. Init => InvLaco
    BY DEF Init, InvLaco, ParadoSemCallback, PrazoProximo, SonoLimitado
  <1>2. TypeOK /\ InvLaco /\ [Next]_vars => InvLaco'
    <2> SUFFICES ASSUME TypeOK, InvLaco, [Next]_vars PROVE InvLaco'
      OBVIOUS
    <2>1. CASE Interface
      BY <2>1, InterfaceInv
    <2> USE DEF InvLaco, ParadoSemCallback, PrazoProximo, SonoLimitado,
                objetos, timers, tempo
    <2>2. CASE Retorna
      BY <2>2 DEF Retorna
    <2>3. CASE Levanta
      BY <2>3 DEF Levanta, Excecao
    <2>4. CASE Seleciona
      <3>1. ASSUME espera' > 0, NEW t \in pending
            PROVE  agora' + espera' <= absolute_to'[t] + ajustes'
        <4>1. agora + espera' <= absolute_to[t]
          BY <2>4, <3>1, SelecionaSono
        <4>2. espera' \in Nat
          BY <2>4, EsperaNatural DEF Seleciona
        <4> QED
          BY <2>4, <4>1, <4>2 DEF Seleciona, TypeOK
      <3> QED
        BY <2>4, <3>1 DEF Seleciona
    <2>5. CASE Sai
      BY <2>5 DEF Sai
    <2>6. CASE Esgota
      BY <2>6 DEF Esgota
    <2>7. CASE NadaVencido
      BY <2>7 DEF NadaVencido
    <2>8. CASE \E h \in Handlers : Atende(h)
      BY <2>8 DEF Atende
    <2>9. CASE \E t \in Timers : Dispara(t)
      BY <2>9 DEF Dispara, Retira
    <2>10. CASE Passa
      BY <2>10, AtrasosAssumption DEF Passa, TypeOK
    <2>11. CASE AjustaRelogio
      BY <2>11, AtrasosAssumption DEF AjustaRelogio, TypeOK
    <2>12. CASE UNCHANGED vars
      BY <2>12 DEF vars
    <2> QED
      BY <2>1, <2>2, <2>3, <2>4, <2>5, <2>6, <2>7, <2>8, <2>9, <2>10, <2>11, <2>12
         DEF Next
  <1> QED
    BY <1>1, <1>2, TipoEventLoop, PTL DEF Spec

\* select() never sleeps past a deadline by more than the clock was set.
THEOREM SonoSempreLimitado == Spec => []SonoLimitado
  <1>1. InvLaco => SonoLimitado
    BY DEF InvLaco
  <1> QED
    BY <1>1, InvarianteLaco, PTL

-----------------------------------------------------------------------------
(***************************************************************************)
(* The end of loop().  It is reached only by Sai, and no step leaves it.   *)
(***************************************************************************)

\* loop() does not return while a handler is left, or a timer whose delay, with
\* what the clock was set, stays within the horizon.
THEOREM FimSempreVazio == Spec => []FimSemPendencias
  <1>1. Init => FimSemPendencias
    BY DEF Init, FimSemPendencias
  <1>2. TypeOK /\ InvLaco /\ FimSemPendencias /\ [Next]_vars => FimSemPendencias'
    <2> SUFFICES ASSUME TypeOK, InvLaco, FimSemPendencias, [Next]_vars,
                        pc' = "fim"
                 PROVE  /\ items' = {}
                        /\ \A t \in pending' : relative_to'[t] + ajustes' >= Horizonte
      BY DEF FimSemPendencias
    <2>1. CASE Sai
      <3>1. \A t \in pending : ~Visivel(t)
        BY <2>1, NextVazio DEF Sai
      <3>2. ASSUME NEW t \in pending PROVE relative_to[t] + ajustes >= Horizonte
        <4>1. t \in Timers /\ absolute_to[t] <= agora + relative_to[t] + ajustes
          BY <3>2 DEF InvLaco, PrazoProximo, TypeOK
        <4>2. ~(absolute_to[t] < agora + Horizonte)
          BY <3>1, <3>2 DEF Visivel
        <4> QED
          BY <4>1, <4>2, HorizonteAssumption DEF TypeOK
      <3> QED
        BY <2>1, <3>2 DEF Sai, objetos, timers, tempo
    <2>2. CASE pc = "fim" /\ UNCHANGED vars
      BY <2>2 DEF FimSemPendencias, vars, objetos, timers, tempo
    <2>3. ~Interface
      BY DEF Interface, timeout, reset, restart, cancel, NovoHandler, destroy,
             Chama, Excecao, _restart
    <2>4. Sai \/ UNCHANGED vars
      BY <2>3 DEF Next, Retorna, Levanta, Excecao, Seleciona, Esgota, NadaVencido,
                  Atende, Dispara, Passa, AjustaRelogio
    <2>5. UNCHANGED vars => pc = "fim"
      BY DEF vars
    <2> QED
      BY <2>1, <2>2, <2>4, <2>5
  <1> QED
    BY <1>1, <1>2, TipoEventLoop, InvarianteLaco, PTL DEF Spec

-----------------------------------------------------------------------------
(***************************************************************************)
(* The loop implements Agenda.                                             *)
(***************************************************************************)
Vista == <<agora, pending, absolute_to, criados, invalidated, destroyed,
           IF atual \in Timers THEN atual ELSE Ninguem>>

\* A callback that returns or raises ends in the abstract view.
LEMMA FimDeCallback ==
  ASSUME atual' = Ninguem, UNCHANGED <<agora, pending, absolute_to, criados, invalidated, destroyed>>
  PROVE  Contrato!Termina
  BY ObjetosAssumption DEF Contrato!Termina

\* _restart sets the deadline that Agenda asks for, of a timer that may be armed.
LEMMA ArmaAbstrato ==
  ASSUME TypeOK, NEW t \in Timers, NEW d \in Nat, _restart(t, d),
         criados' = criados \cup {t},
         IF t \in criados THEN t \notin invalidated ELSE Dono[t] \notin destroyed
  PROVE  Contrato!Arma(t)
  BY DEF _restart, objetos, tempo, TypeOK, Contrato!Arma

\* A call of the interface arms or disarms a timer, ends an owner, changes
\* nothing that is seen, or raises and ends the callback.
LEMMA InterfaceAbstrata ==
  ASSUME TypeOK, InvLaco, Interface
  PROVE  Contrato!ANext \/ UNCHANGED Vista
  <1> USE DEF Contrato!ANext
  <1>1. ASSUME Excecao PROVE Contrato!ANext
    BY <1>1, FimDeCallback DEF Excecao, objetos, timers, tempo
  <1>2. ASSUME NEW t \in Timers, NEW d \in Nat, reset(t, d) PROVE Contrato!ANext
    <2>1. CASE ~Excecao
      <3>1. /\ t \in criados /\ t \notin invalidated /\ _restart(t, d)
            /\ criados' = criados \cup {t}
        BY <1>2, <2>1 DEF reset, Recusa
      <3> QED
        BY <3>1, ArmaAbstrato
    <2> QED
      BY <1>1, <2>1
  <1>3. ASSUME NEW t \in Timers, NEW d \in Atrasos, timeout(t, d) PROVE Contrato!ANext
    <2>1. CASE ~Excecao
      <3>1. /\ t \notin criados /\ Dono[t] \notin destroyed /\ _restart(t, d)
            /\ criados' = criados \cup {t}
        BY <1>3, <2>1 DEF timeout
      <3> QED
        BY <3>1, ArmaAbstrato, AtrasosAssumption
    <2> QED
      BY <1>1, <2>1
  <1>4. ASSUME NEW t \in Timers, restart(t) PROVE Contrato!ANext
    BY <1>2, <1>4 DEF restart, TypeOK
  <1>5. ASSUME NEW t \in Timers, cancel(t) PROVE Contrato!ANext
    <2>1. CASE ~Excecao
      BY <1>5, <2>1 DEF cancel, objetos, tempo, Contrato!Desarma
    <2> QED
      BY <1>1, <2>1
  <1>6. ASSUME NEW h \in Handlers, NovoHandler(h) PROVE UNCHANGED Vista
    BY <1>6 DEF NovoHandler, timers, tempo, Vista
  <1>7. ASSUME NEW h \in Handlers, destroy(h) PROVE Contrato!ANext
    <2>1. CASE ~Excecao
      <3>1. Contrato!Morre(h)
        BY <1>7, <2>1 DEF destroy, Pertencem, tempo, Contrato!Morre
      <3> QED
        BY <3>1
    <2> QED
      BY <1>1, <2>1
  <1> QED
    BY <1>2, <1>3, <1>4, <1>5, <1>6, <1>7, AtrasosAssumption DEF Interface

\* The event loop keeps the promise made to those who set timers: never early,
\* in order of deadlines, one at a time, never after being cancelled.  destroy()
\* takes with it, for good, every timer of the handler that is pending, and none
\* is created for a destroyed handler.
THEOREM LacoImplementaAgenda == Spec => ImplementaAgenda
  <1>1. Init => Contrato!AInit
    BY ObjetosAssumption DEF Init, Contrato!AInit
  <1>2. TypeOK /\ TypeOK' /\ InvLaco /\ [Next]_vars => [Contrato!ANext]_Vista
    <2> SUFFICES ASSUME TypeOK, TypeOK', InvLaco, [Next]_vars
                 PROVE  Contrato!ANext \/ UNCHANGED Vista
      BY DEF Vista
    <2>1. CASE Interface
      BY <2>1, InterfaceAbstrata
    <2>2. CASE Retorna
      BY <2>2, FimDeCallback DEF Retorna, objetos, timers, tempo, Contrato!ANext
    <2>3. CASE Levanta
      BY <2>3, FimDeCallback DEF Levanta, Excecao, objetos, timers, tempo, Contrato!ANext
    <2>4. CASE Seleciona \/ Sai \/ Esgota \/ NadaVencido
      BY <2>4 DEF Seleciona, Sai, Esgota, NadaVencido, objetos, timers, tempo, Vista
    <2>5. CASE \E h \in Handlers : Atende(h)
      BY <2>5, ObjetosAssumption
         DEF Atende, objetos, timers, tempo, Vista, InvLaco, ParadoSemCallback
    <2>6. ASSUME NEW t \in Timers, Dispara(t) PROVE Contrato!ADispara(t)
      BY <2>6, ObjetosAssumption
         DEF Dispara, _next, Vencido, Retira, objetos, tempo, InvLaco, ParadoSemCallback,
             Contrato!ADispara
    <2>7. CASE Passa \/ AjustaRelogio
      <3>1. agora' \in Nat
        BY DEF TypeOK
      <3> QED
        BY <2>7, <3>1 DEF Passa, AjustaRelogio, objetos, timers, Contrato!Anda, Contrato!ANext
    <2>8. CASE UNCHANGED vars
      BY <2>8 DEF vars, objetos, timers, tempo, Vista
    <2> QED
      BY <2>1, <2>2, <2>3, <2>4, <2>5, <2>6, <2>7, <2>8 DEF Next, Contrato!ANext
  <1> QED
    BY <1>1, <1>2, TipoEventLoop, InvarianteLaco, PTL
       DEF Spec, ImplementaAgenda, Contrato!ASpec, Contrato!avars, Vista
=============================================================================
