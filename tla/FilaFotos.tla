----------------------------- MODULE FilaFotos ------------------------------
(***************************************************************************)
(* What the photo downloader promises, without connections or timers: a    *)
(* first-in first-out queue in memory.  Only the photo at the head is      *)
(* tried; it leaves with a result, and a temporary failure costs it one of *)
(* a limited number of attempts.  A restart of the program empties it.     *)
(***************************************************************************)
EXTENDS Naturals, Sequences

CONSTANTS Fotos, Tentativas

VARIABLES fila,     \* sequence of [foto, tentativas]
          ultimo    \* the last photo that left the queue and its result

FInit == fila = <<>> /\ ultimo = <<>>

Enfileira(f) ==
  /\ fila' = Append(fila, [foto |-> f, tentativas |-> Tentativas])
  /\ UNCHANGED ultimo

Sai(resultado) ==
  /\ fila # <<>>
  /\ fila' = Tail(fila)
  /\ ultimo' = <<Head(fila).foto, resultado>>

Obtida      == Sai("sucesso")
Recusada    == Sai("fatal")
Esgotada    == fila # <<>> /\ Head(fila).tentativas <= 1 /\ Sai("esgotada")

TentaDepois ==
  /\ fila # <<>>
  /\ Head(fila).tentativas > 1
  /\ fila' = [fila EXCEPT ![1] = [foto |-> @.foto, tentativas |-> @.tentativas - 1]]
  /\ UNCHANGED ultimo

Perde == fila' = <<>> /\ UNCHANGED ultimo

FNext ==
  \/ \E f \in Fotos : Enfileira(f)
  \/ Obtida \/ Recusada \/ Esgotada \/ TentaDepois \/ Perde

FSpec == FInit /\ [][FNext]_<<fila, ultimo>>
=============================================================================
