------------------------------- MODULE MCFotos ------------------------------
(* Model-checking instance of Fotos.                                       *)
EXTENDS Fotos
=============================================================================
