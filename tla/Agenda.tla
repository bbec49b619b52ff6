------------------------------- MODULE Agenda -------------------------------
(***************************************************************************)
(* What the event loop promises to those who set timers.  A callback runs  *)
(* one at a time, never before its deadline, never while another armed     *)
(* timer has an earlier one and never after the timer was disarmed.  The   *)
(* timers that are armed when their owner dies are dead for good, and no   *)
(* timer is created for a dead owner.  A timer that is spent or disarmed   *)
(* when its owner dies is not covered: whoever still holds it may re-arm   *)
(* it.  Descriptors, select() and cycles are not seen.                     *)
(***************************************************************************)
EXTENDS Naturals

CONSTANTS Timers, Donos, Ninguem,
          Dono         \* owner of each timer, or Ninguem

VARIABLES relogio,     \* the clock, which may be set
          armados,     \* timers that will fire
          prazo,       \* deadline of each timer
          existem,     \* timers that were created
          mortos,      \* timers that can never be armed again
          perdidos,    \* owners that died
          executando   \* the timer whose callback runs, or Ninguem

avars == <<relogio, armados, prazo, existem, mortos, perdidos, executando>>

AInit ==
  /\ relogio = 0
  /\ armados = {}
  /\ prazo = [t \in Timers |-> 0]
  /\ existem = {}
  /\ mortos = {}
  /\ perdidos = {}
  /\ executando = Ninguem

Anda ==
  /\ relogio' \in Nat
  /\ UNCHANGED <<armados, prazo, existem, mortos, perdidos, executando>>

\* A timer is created, for an owner that lives or for nobody, or armed again.
Arma(t) ==
  /\ IF t \in existem THEN t \notin mortos ELSE Dono[t] \notin perdidos
  /\ existem' = existem \cup {t}
  /\ armados' = armados \cup {t}
  /\ prazo' \in [Timers -> Nat]
  /\ prazo'[t] >= relogio
  /\ \A u \in Timers \ {t} : prazo'[u] = prazo[u]
  /\ UNCHANGED <<relogio, mortos, perdidos, executando>>

Desarma(t) ==
  /\ armados' = armados \ {t}
  /\ UNCHANGED <<relogio, prazo, existem, mortos, perdidos, executando>>

\* An owner dies, once, and takes its armed timers with it.
Morre(d) ==
  LET seus == {t \in armados : Dono[t] = d}
  IN  /\ d \notin perdidos
      /\ perdidos' = perdidos \cup {d}
      /\ armados' = armados \ seus
      /\ mortos' = mortos \cup seus
      /\ UNCHANGED <<relogio, prazo, existem, executando>>

ADispara(t) ==
  /\ executando = Ninguem
  /\ t \in armados
  /\ prazo[t] <= relogio
  /\ \A u \in armados : prazo[t] <= prazo[u]
  /\ armados' = armados \ {t}
  /\ executando' = t
  /\ UNCHANGED <<relogio, prazo, existem, mortos, perdidos>>

Termina ==
  /\ executando' = Ninguem
  /\ UNCHANGED <<relogio, armados, prazo, existem, mortos, perdidos>>

ANext ==
  \/ Anda
  \/ \E t \in Timers : Arma(t) \/ Desarma(t) \/ ADispara(t)
  \/ \E d \in Donos : Morre(d)
  \/ Termina

ASpec == AInit /\ [][ANext]_avars
=============================================================================
