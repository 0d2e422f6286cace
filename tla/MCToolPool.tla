----------------------------- MODULE MCToolPool -----------------------------
(* ToolPool for model checking: the cfgs give the calls, workers and sizes. *)
EXTENDS ToolPool
=============================================================================
