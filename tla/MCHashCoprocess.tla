-------------------------- MODULE MCHashCoprocess --------------------------
(* Two bank offices that each hash twice. *)
EXTENDS HashCoprocess

CONSTANTS office1, office2

MCCallers == {office1, office2}
=============================================================================
