---------------------------- MODULE MCSubagents ----------------------------
(* Subagents for model checking: the cfgs give the calls and the bounds. *)
EXTENDS Subagents

CONSTANTS p1, p2

(* The provider bound at first is reloaded, and comes back as another. *)
OneReload == <<NoProvider, p2>>
=============================================================================
