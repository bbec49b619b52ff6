------------------------------ MODULE MCRitmo -------------------------------
(* A panel that is accepted, for the timed receiver.                       *)
EXTENDS Ritmo

QuadrosIdent ==
  {[tipo |-> "ident", tam |-> "certo", reconhecido |-> TRUE, nr_fotos |-> 0]}
=============================================================================
