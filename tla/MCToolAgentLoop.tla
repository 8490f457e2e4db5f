--------------------------- MODULE MCToolAgentLoop ---------------------------
(* ToolAgentLoop on small instances. *)
EXTENDS ToolAgentLoop
=============================================================================
