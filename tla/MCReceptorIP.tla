---------------------------- MODULE MCReceptorIP ----------------------------
(* Frames for the model-checking instances of ReceptorIP.                  *)
EXTENDS ReceptorIP

QuadrosIdent ==
  {[tipo |-> "ident", tam |-> t, reconhecido |-> TRUE, nr_fotos |-> 0]
     : t \in {"certo", "vazio"}}
=============================================================================
