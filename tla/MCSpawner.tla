----------------------------- MODULE MCSpawner ------------------------------
(* One spawn, of either mode, confined or not. *)
EXTENDS Spawner

Ended ==
    /\ kid \in {"unborn", "ended"} /\ sup \in {"exited", "killed"}
    /\ fds["descendant"] = Closed
    /\ app = "closed" \/ (app = "open" /\ outcome # "none" /\ eof = Outputs)

Done == Ended /\ UNCHANGED vars

SafeSpec == Init /\ [][Next \/ Done]_vars

LiveSpec == SafeSpec /\ Fairness

=============================================================================
