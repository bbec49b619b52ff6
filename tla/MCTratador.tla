----------------------------- MODULE MCTratador -----------------------------
(* Frames for the model-checking instances of Tratador.                    *)
EXTENDS Tratador

q(tipo, tam, reconhecido, nr_fotos) ==
  [tipo |-> tipo, tam |-> tam, reconhecido |-> reconhecido,
   nr_fotos |-> nr_fotos]

\* Every path through the handlers is taken by one of these.
QuadrosTodos ==
  {q("heartbeat", "certo", TRUE, 0),
   q("data_hora", "certo", TRUE, 0),
   q("ident", "certo", TRUE, 0), q("ident", "certo", FALSE, 0),
   q("ident", "outro", TRUE, 0), q("ident", "vazio", TRUE, 0),
   q("evento", "certo", FALSE, 0), q("evento", "outro", TRUE, 0),
   q("evento_foto", "certo", TRUE, 2)}

\* Identifications only, for several connections.
QuadrosIdent == {q("ident", "certo", TRUE, 0)}
=============================================================================
