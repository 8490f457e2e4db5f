------------------------- MODULE MCActivationOffload -------------------------
(* ActivationOffload on a small model. *)
EXTENDS ActivationOffload
=============================================================================
