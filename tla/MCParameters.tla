--------------------------- MODULE MCParameters ---------------------------
(* Parameters needs no definitions of its own for its bounds. *)
EXTENDS Parameters
=============================================================================
