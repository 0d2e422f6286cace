--------------------------- MODULE MCAgentSession ---------------------------
(* AgentSession for model checking: the cfgs give the calls and the bounds. *)
EXTENDS AgentSession

(* Calls that all name a tool may be exchanged. *)
CallSymmetry == Permutations(Calls)
=============================================================================
