----------------------------- MODULE MCEditLock -----------------------------
(* Runs of bestie_edit contending for one path's lock. *)
EXTENDS EditLock

\* Every run may have ended: nothing more happens then.
Ended == \A p \in Procs : stage[p] \in {"released", "refused", "dead"}

Done == Ended /\ UNCHANGED lockVars

LiveSpec == LockInit /\ [][LockNext \/ Done]_lockVars /\ LockFairness

=============================================================================
