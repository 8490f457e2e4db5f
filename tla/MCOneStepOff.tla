----------------------------- MODULE MCOneStepOff -----------------------------
(* OneStepOff on a short training. *)
EXTENDS OneStepOff
==============================================================================
