--------------------------- MODULE EditFileProofs ---------------------------
(***************************************************************************)
(* One writer at a time, permissions kept, nothing left behind and every   *)
(* request whole, for any number of runs with any requests, killed or cut  *)
(* off by power failures at any moment.  First the lock alone, by the      *)
(* inductive invariant LockInv; then the calls made under it.              *)
(***************************************************************************)
EXTENDS EditFile, TLAPS

USE LockAssumption

\* hold() begins with nothing open and nothing locked.
LEMMA LockInvInit == LockInit => LockInv
BY DEF LockInit, LockInv, LockTypeOK, OpensAFile, LocksItsFile, HoldsTheName, Stages

LEMMA OpenKeeps ==
    ASSUME LockInv, NEW p \in Procs, Open(p)
    PROVE  LockInv'
<1> USE DEF LockInv, LockTypeOK, Stages
<1>1. LockTypeOK'
  BY DEF Open
<1>2. OpensAFile'
  BY DEF Open, OpensAFile
<1>3. LocksItsFile'
  BY DEF Open, LocksItsFile
<1>4. HoldsTheName'
  BY DEF Open, HoldsTheName, OpensAFile
<1> QED BY <1>1, <1>2, <1>3, <1>4

LEMMA FlockKeeps ==
    ASSUME LockInv, NEW p \in Procs, Flock(p)
    PROVE  LockInv'
<1> USE DEF LockInv, LockTypeOK, Stages
<1>1. LockTypeOK'
  BY DEF Flock
<1>2. OpensAFile'
  BY DEF Flock, OpensAFile
<1>3. LocksItsFile'
  \* Another run's lock is not overwritten: this inode's lock was free.
  BY DEF Flock, LocksItsFile, OpensAFile
<1>4. HoldsTheName'
  BY DEF Flock, HoldsTheName
<1> QED BY <1>1, <1>2, <1>3, <1>4

LEMMA HeldKeeps ==
    ASSUME LockInv, NEW p \in Procs, Held(p)
    PROVE  LockInv'
BY DEF Held, LockInv, LockTypeOK, Stages, OpensAFile, LocksItsFile, HoldsTheName

\* A run that closes its file releases its own lock and no other run's.
LEMMA CloseKeeps ==
    ASSUME LockInv, NEW p \in Procs, NEW s \in {"asking", "refused", "released", "dead"},
           Close(p), stage' = [stage EXCEPT ![p] = s], UNCHANGED lockName
    PROVE  LockInv'
<1> USE DEF LockInv, LockTypeOK, Stages
<1>1. LockTypeOK'
  BY DEF Close
<1>2. OpensAFile'
  BY DEF Close, OpensAFile
<1>3. LocksItsFile'
  BY DEF Close, LocksItsFile, OpensAFile
<1>4. HoldsTheName'
  BY DEF Close, HoldsTheName
<1> QED BY <1>1, <1>2, <1>3, <1>4

\* The name goes while its holder is the only one.
LEMMA RemoveKeeps ==
    ASSUME LockInv, NEW p \in Procs, Remove(p)
    PROVE  LockInv'
<1> USE DEF LockInv, LockTypeOK, Stages
<1>1. LockTypeOK'
  BY DEF Remove
<1>2. OpensAFile' /\ LocksItsFile'
  BY DEF Remove, OpensAFile, LocksItsFile
<1>3. HoldsTheName'
  <2> SUFFICES ASSUME NEW q \in Procs, stage'[q] = "holds"
               PROVE  FALSE
    BY DEF HoldsTheName
  <2>1. q # p /\ stage[q] = "holds" /\ stage[p] = "holds"
    BY DEF Remove
  <2>2. file[q] = file[p] /\ flock[file[q]] = q /\ flock[file[p]] = p
    BY <2>1 DEF HoldsTheName, LocksItsFile
  <2> QED BY <2>1, <2>2
<1> QED BY <1>1, <1>2, <1>3

LEMMA RemoveFailsKeeps ==
    ASSUME LockInv, NEW p \in Procs, RemoveFails(p)
    PROVE  LockInv'
BY DEF RemoveFails, LockInv, LockTypeOK, Stages, OpensAFile, LocksItsFile, HoldsTheName

LEMMA LockInvStep == LockInv /\ [LockNext]_lockVars => LockInv'
<1> SUFFICES ASSUME LockInv, [LockNext]_lockVars PROVE LockInv'
  OBVIOUS
<1>1. CASE UNCHANGED lockVars
  BY <1>1 DEF lockVars, LockInv, LockTypeOK, OpensAFile, LocksItsFile, HoldsTheName
<1>2. ASSUME NEW p \in Procs, Acquire(p) PROVE LockInv'
  <2>1. CASE GoAgain(p) \/ LookFails(p)
    BY <2>1, CloseKeeps DEF GoAgain, LookFails
  <2> QED BY <1>2, <2>1, OpenKeeps, FlockKeeps, HeldKeeps DEF Acquire
<1>3. ASSUME NEW p \in Procs, Refuse(p) PROVE LockInv'
  BY <1>3, CloseKeeps DEF Refuse
<1>4. ASSUME NEW p \in Procs, Release(p) PROVE LockInv'
  <2>1. CASE Unlock(p)
    BY <2>1, CloseKeeps DEF Unlock
  <2> QED BY <1>4, <2>1, RemoveKeeps, RemoveFailsKeeps DEF Release
<1>5. ASSUME NEW p \in Procs, Die(p) PROVE LockInv'
  BY <1>5, CloseKeeps DEF Die
<1> QED BY <1>1, <1>2, <1>3, <1>4, <1>5 DEF LockNext

(***************************************************************************)
(* The inductive invariant holds in every reachable state.                 *)
(***************************************************************************)
THEOREM LockInvariant == LockSpec => []LockInv
BY LockInvInit, LockInvStep, PTL DEF LockSpec

LEMMA LockInvExcludes == LockInv => Exclusion
BY DEF LockInv, LocksItsFile, HoldsTheName, Exclusion

(***************************************************************************)
(* "One writer at a time per path" (lock.rs:1), for any number of runs     *)
(* that ask, are refused, release or are killed in any order.              *)
(***************************************************************************)
THEOREM MutualExclusion == LockSpec => []Exclusion
BY LockInvariant, LockInvExcludes, PTL

(***************************************************************************)
(* Whatever other runs do, a release removes the very lock file its holder *)
(* has locked (drop, lock.rs:44-47).                                       *)
(***************************************************************************)
THEOREM OnlyItsOwnFile == LockSpec => RemovesItsOwnFile
<1>1. LockInv /\ [LockNext]_lockVars
        => [\A p \in Procs :
              stage[p] = "holds" /\ stage'[p] = "removed"
                => lockName = file[p] /\ flock[file[p]] = p]_lockVars
  BY DEF LockInv, HoldsTheName, LocksItsFile
<1> QED BY <1>1, LockInvariant, PTL DEF LockSpec, RemovesItsOwnFile

USE DEF WriteSteps

LEMMA HeldInit == Init => HeldThroughout
<1> SUFFICES ASSUME Init PROVE HeldThroughout
  OBVIOUS
<1>1. LockInv
  BY LockInvInit DEF Init
<1> QED BY <1>1 DEF Init, HeldThroughout, Steps, Mutating

\* A call that leaves the lock alone does not begin a mutation.
LEMMA LockLeftKeeps ==
    ASSUME HeldThroughout, NEW p \in Procs, NEW s \in Steps,
           UNCHANGED lockVars, step' = [step EXCEPT ![p] = s],
           s \in {"look", "removeTemp"} \cup WriteSteps => Mutating(p)
    PROVE  HeldThroughout'
<1>1. LockInv'
  BY LockInvStep DEF HeldThroughout
<1>2. step' \in [Procs -> Steps]
  BY DEF HeldThroughout
<1>3. ASSUME NEW q \in Procs, Mutating(q)' PROVE stage'[q] = "holds"
  <2>1. Mutating(q)
    BY <1>3 DEF Mutating, HeldThroughout
  <2> QED BY <2>1 DEF HeldThroughout, lockVars
<1> QED BY <1>1, <1>2, <1>3 DEF HeldThroughout

LEMMA BeginKeeps == ASSUME HeldThroughout, NEW p \in Procs, Begin(p) PROVE HeldThroughout'
<1>1. PICK s \in {"reply", "hold", "parents"} : step' = [step EXCEPT ![p] = s]
  BY DEF Begin, Settle, Goto
<1>2. UNCHANGED lockVars
  BY DEF Begin
<1> QED BY <1>1, <1>2, LockLeftKeeps DEF Steps

LEMMA MakeParentsKeeps ==
    ASSUME HeldThroughout, NEW p \in Procs, MakeParents(p) PROVE HeldThroughout'
<1>1. PICK s \in {"reply", "hold"} : step' = [step EXCEPT ![p] = s]
  BY DEF MakeParents, Settle, Goto
<1>2. UNCHANGED lockVars
  BY DEF MakeParents
<1> QED BY <1>1, <1>2, LockLeftKeeps DEF Steps

\* Asking for the lock never mutates; only its grant begins the mutation.
LEMMA HoldKeeps == ASSUME HeldThroughout, NEW p \in Procs, Hold(p) PROVE HeldThroughout'
<1>1. LockInv
  BY DEF HeldThroughout
<1>2. CASE /\ parents /\ (Open(p) \/ Flock(p) \/ GoAgain(p) \/ LookFails(p))
           /\ UNCHANGED <<step, verdict>>
  <2>1. LockInv'
    BY <1>1, <1>2, LockInvStep DEF LockNext, Acquire
  <2>2. ASSUME NEW q \in Procs, Mutating(q)' PROVE stage'[q] = "holds"
    BY <1>2, <2>2 DEF Hold, Mutating, HeldThroughout, Open, Flock, GoAgain, LookFails,
       LockInv, LockTypeOK
  <2> QED BY <1>2, <2>1, <2>2 DEF HeldThroughout
<1>3. CASE Held(p) /\ Goto(p, "look") /\ UNCHANGED verdict
  <2>1. LockInv'
    BY <1>1, <1>3, LockInvStep DEF LockNext, Acquire
  <2>2. ASSUME NEW q \in Procs, Mutating(q)' PROVE stage'[q] = "holds"
    BY <1>3, <2>2 DEF Goto, Mutating, HeldThroughout, Held, LockInv, LockTypeOK, Steps
  <2>3. step' \in [Procs -> Steps]
    BY <1>3 DEF Goto, HeldThroughout, Steps
  <2> QED BY <2>1, <2>2, <2>3 DEF HeldThroughout
<1>4. CASE Refuse(p) /\ step' = [step EXCEPT ![p] = "reply"]
  <2>1. LockInv'
    BY <1>1, <1>4, LockInvStep DEF LockNext
  <2>2. ASSUME NEW q \in Procs, Mutating(q)' PROVE stage'[q] = "holds"
    BY <1>4, <2>2 DEF Mutating, HeldThroughout, Refuse, LockInv, LockTypeOK, Steps
  <2>3. step' \in [Procs -> Steps]
    BY <1>4 DEF HeldThroughout, Steps
  <2> QED BY <2>1, <2>2, <2>3 DEF HeldThroughout
<1> QED BY <1>2, <1>3, <1>4 DEF Hold, Settle, Goto

LEMMA LookKeeps ==
    ASSUME HeldThroughout, NEW p \in Procs,
           LookToEdit(p) \/ LookToCreate(p) \/ LookFailsToCreate(p)
    PROVE  HeldThroughout'
<1> USE DEF LookToEdit, LookToCreate, LookFailsToCreate
<1>1. Mutating(p) /\ UNCHANGED lockVars
  BY DEF Mutating
<1>2. PICK s \in {"drop", "createTemp"} : step' = [step EXCEPT ![p] = s]
  BY DEF Answer, Draft, Settle, Goto
<1> QED BY <1>1, <1>2, LockLeftKeeps DEF Steps

LEMMA WriteKeeps ==
    ASSUME HeldThroughout, NEW p \in Procs,
           \/ CreateTemp(p) \/ WriteTemp(p) \/ SyncTemp(p) \/ SetMode(p)
           \/ Rename(p) \/ WriteFails(p) \/ RemoveTemp(p)
    PROVE  HeldThroughout'
<1> USE DEF CreateTemp, WriteTemp, SyncTemp, SetMode, Rename, WriteFails, RemoveTemp
<1>1. Mutating(p) /\ UNCHANGED lockVars
  BY DEF Mutating
<1>2. PICK s \in {"writeTemp", "syncTemp", "setMode", "rename", "removeTemp", "drop"} :
        step' = [step EXCEPT ![p] = s]
  BY DEF Settle, Goto
<1> QED BY <1>1, <1>2, LockLeftKeeps DEF Steps

LEMMA DropKeeps ==
    ASSUME HeldThroughout, NEW p \in Procs, Drop(p) PROVE HeldThroughout'
<1>1. LockInv /\ LockInv'
  BY LockInvStep DEF HeldThroughout, Drop, LockNext, Release
<1>2. step' \in [Procs -> Steps]
  BY DEF Drop, Goto, HeldThroughout, Steps
<1>3. ASSUME NEW q \in Procs, Mutating(q)' PROVE stage'[q] = "holds"
  <2>1. q # p /\ Mutating(q)
    BY <1>3 DEF Drop, Goto, Mutating, HeldThroughout
  <2> QED BY <1>1, <2>1 DEF Drop, HeldThroughout, Remove, RemoveFails, Unlock, LockInv, LockTypeOK
<1> QED BY <1>1, <1>2, <1>3 DEF HeldThroughout

LEMMA ReplyKeeps ==
    ASSUME HeldThroughout, NEW p \in Procs, Reply(p) PROVE HeldThroughout'
BY LockLeftKeeps DEF Reply, Goto, Steps

\* A killed run gives up the lock and the mutation at once.
LEMMA KilledKeeps ==
    ASSUME HeldThroughout, NEW p \in Procs, Killed(p) PROVE HeldThroughout'
<1>1. LockInv /\ LockInv'
  BY LockInvStep DEF HeldThroughout, Killed, LockNext
<1>2. step' \in [Procs -> Steps]
  BY DEF Killed, Goto, HeldThroughout, Steps
<1>3. ASSUME NEW q \in Procs, Mutating(q)' PROVE stage'[q] = "holds"
  <2>1. q # p /\ Mutating(q)
    BY <1>3 DEF Killed, Goto, Mutating, HeldThroughout
  <2> QED BY <1>1, <2>1 DEF Killed, HeldThroughout, Die, lockVars, LockInv, LockTypeOK
<1> QED BY <1>1, <1>2, <1>3 DEF HeldThroughout

LEMMA PowerFailureKeeps == ASSUME HeldThroughout, PowerFailure PROVE HeldThroughout'
<1>1. step' \in [Procs -> Steps] /\ \A p \in Procs : ~Mutating(p)'
  BY DEF PowerFailure, HeldThroughout, Mutating, Running, Steps
<1>2. LockInv'
  <2>1. LockTypeOK'
    BY DEF PowerFailure, HeldThroughout, LockInv, LockTypeOK, Stages
  <2>2. \A p \in Procs : stage'[p] \notin {"opened", "locked", "holds", "removed"}
    BY LockAssumption DEF PowerFailure, HeldThroughout, LockInv, LockTypeOK, OpensAFile
  <2> QED BY <2>1, <2>2 DEF LockInv, OpensAFile, LocksItsFile, HoldsTheName
<1> QED BY <1>1, <1>2 DEF HeldThroughout

LEMMA RunKeeps == ASSUME HeldThroughout, NEW p \in Procs, Run(p) PROVE HeldThroughout'
BY BeginKeeps, MakeParentsKeeps, HoldKeeps, LookKeeps, WriteKeeps, DropKeeps, ReplyKeeps
   DEF Run

LEMMA HeldStep == HeldThroughout /\ [Next]_vars => HeldThroughout'
<1> SUFFICES ASSUME HeldThroughout, [Next]_vars PROVE HeldThroughout'
  OBVIOUS
<1>1. CASE UNCHANGED lockVars /\ UNCHANGED step
  <2>1. LockInv'
    BY <1>1, LockInvStep DEF HeldThroughout
  <2> QED BY <1>1, <2>1 DEF HeldThroughout, Mutating, lockVars
<1>2. CASE \E p \in Procs : Run(p) \/ Killed(p)
  BY <1>2, RunKeeps, KilledKeeps
<1>3. CASE PowerFailure
  BY <1>3, PowerFailureKeeps
<1> QED BY <1>1, <1>2, <1>3 DEF Next, Flush, vars, runVars

(***************************************************************************)
(* A mutation holds the path's lock from its first look at the path to its *)
(* last change of it (disk.rs:3-4).                                        *)
(***************************************************************************)
THEOREM LockHeldThroughout == Spec => []HeldThroughout
BY HeldInit, HeldStep, PTL DEF Spec

(***************************************************************************)
(* Only one run at a time looks at the path and replaces it, whatever      *)
(* becomes of the others: the lock of lock.rs protects the whole of        *)
(* edit.rs and create.rs.                                                  *)
(***************************************************************************)
THEOREM WritersExclude == Spec => []OneWriter
<1>1. HeldThroughout => OneWriter
  BY LockInvExcludes DEF HeldThroughout, Exclusion, OneWriter
<1> QED BY <1>1, LockHeldThroughout, PTL

-----------------------------------------------------------------------------
(* The inductive invariant EditInv: what the lock gives the file. *)

UndecidedSteps == {"idle", "parents", "hold", "look"} \cup WriteSteps

LEMMA EditInit == Init => EditInv
<1> SUFFICES ASSUME Init PROVE EditInv
  OBVIOUS
<1>1. HeldThroughout
  BY HeldInit
<1>2. UndecidedYet
  BY DEF Init, UndecidedYet
<1>3. FilesAreWhole /\ DefaultUntilText
  BY EditAssumption DEF Init, FilesAreWhole, DefaultUntilText, Missing, Nothing
<1>4. BlindByLooking /\ DraftIsNext /\ TempFollowsDraft /\ TempIsSomeones
  BY EditAssumption DEF Init, BlindByLooking, Blind, DraftIsNext, TempFollowsDraft, TempIsSomeones
<1>5. LockFileHasARun
  BY EditAssumption DEF Init, LockInit, LockFileHasARun
<1> QED BY <1>1, <1>2, <1>3, <1>4, <1>5 DEF EditInv

\* While one run mutates, no other does.
LEMMA OthersStandBack ==
    ASSUME HeldThroughout, NEW p \in Procs, NEW q \in Procs, Mutating(p), q # p
    PROVE  step[q] \notin {"look", "removeTemp"} \cup WriteSteps
BY LockInvExcludes DEF HeldThroughout, Exclusion, Mutating

\* A reply is settled on once, on the way out.
LEMMA SettlingKeeps ==
    ASSUME HeldThroughout, UndecidedYet, NEW p \in Procs, NEW s \in Steps,
           step' = [step EXCEPT ![p] = s],
           \/ verdict' = verdict /\ (s \in UndecidedSteps => step[p] \in UndecidedSteps)
           \/ /\ s \notin UndecidedSteps
              /\ \E v \in Promise!Refusals \cup
                    {"succeeded", "created", "targetMissing", "ambiguous", "noChange",
                     "isDirectory", "notText"} :
                   verdict' = [verdict EXCEPT ![p] = v]
    PROVE  UndecidedYet'
<1> DEFINE Replies == {Undecided, "succeeded", "created", "targetMissing", "ambiguous",
                       "noChange", "isDirectory", "notText"} \cup Promise!Refusals
<1>1. verdict \in [Procs -> Replies] /\ step \in [Procs -> Steps]
  BY DEF UndecidedYet, HeldThroughout
<1>2. \A q \in Procs : step[q] \in UndecidedSteps => verdict[q] = Undecided
  BY DEF UndecidedYet, UndecidedSteps
<1>3. verdict' \in [Procs -> Replies]
  BY <1>1
<1>4. ASSUME NEW q \in Procs, step'[q] \in UndecidedSteps PROVE verdict'[q] = Undecided
  BY <1>1, <1>2, <1>4
<1> QED BY <1>3, <1>4 DEF UndecidedYet, UndecidedSteps

LEMMA UndecidedStep ==
    ASSUME EditInv, NEW p \in Procs, Run(p) \/ Killed(p)
    PROVE  UndecidedYet'
<1> USE DEF UndecidedSteps, Steps, Promise!Refusals
<1>0. HeldThroughout /\ UndecidedYet
  BY DEF EditInv
<1>1. CASE Begin(p)
  <2>1. PICK s \in {"reply", "hold", "parents"} :
          /\ step' = [step EXCEPT ![p] = s]
          /\ \/ verdict' = verdict
             \/ s = "reply" /\ \E v \in Promise!Refusals : verdict' = [verdict EXCEPT ![p] = v]
    BY <1>1 DEF Begin, Settle, Goto
  <2> QED BY <1>0, <1>1, <2>1, SettlingKeeps DEF Begin
<1>2. CASE MakeParents(p)
  <2>1. PICK s \in {"reply", "hold"} :
          /\ step' = [step EXCEPT ![p] = s]
          /\ \/ verdict' = verdict
             \/ s = "reply" /\ \E v \in Promise!Refusals : verdict' = [verdict EXCEPT ![p] = v]
    BY <1>2 DEF MakeParents, Settle, Goto, Errors, Refused
  <2> QED BY <1>0, <1>2, <2>1, SettlingKeeps DEF MakeParents
<1>3. CASE Hold(p)
  <2>1. CASE UNCHANGED <<step, verdict>>
    BY <1>0, <2>1 DEF UndecidedYet
  <2>2. CASE step' = [step EXCEPT ![p] = "look"] /\ verdict' = verdict
    BY <1>0, <1>3, <2>2, SettlingKeeps DEF Hold
  <2>3. CASE \E v \in Promise!Refusals :
               verdict' = [verdict EXCEPT ![p] = v] /\ step' = [step EXCEPT ![p] = "reply"]
    BY <1>0, <2>3, SettlingKeeps
  <2> QED BY <1>3, <2>1, <2>2, <2>3
         DEF Hold, Settle, Goto, Errors, RefusedFor, Refused, RefusedUnderParents
<1>4. CASE LookToEdit(p) \/ LookToCreate(p)
  <2>1. CASE \E v \in Promise!Refusals \cup
                   {"targetMissing", "ambiguous", "noChange", "isDirectory", "notText"} :
               verdict' = [verdict EXCEPT ![p] = v] /\ step' = [step EXCEPT ![p] = "drop"]
    BY <1>0, <2>1, SettlingKeeps
  <2>2. CASE verdict' = verdict /\ step' = [step EXCEPT ![p] = "createTemp"]
    BY <1>0, <1>4, <2>2, SettlingKeeps DEF LookToEdit, LookToCreate
  <2> QED BY <1>4, <2>1, <2>2
         DEF LookToEdit, LookToCreate, Answer, Draft, Settle, Goto, Errors, Refused
<1>5. CASE CreateTemp(p) \/ WriteTemp(p) \/ SyncTemp(p) \/ SetMode(p)
  <2>1. PICK s \in WriteSteps : step' = [step EXCEPT ![p] = s]
    BY <1>5 DEF CreateTemp, WriteTemp, SyncTemp, SetMode, Goto
  <2> QED BY <1>0, <1>5, <2>1, SettlingKeeps DEF CreateTemp, WriteTemp, SyncTemp, SetMode
<1>6. CASE Rename(p) \/ WriteFails(p)
  <2>1. PICK s \in {"drop", "removeTemp"} :
          /\ step' = [step EXCEPT ![p] = s]
          /\ \E v \in Promise!Refusals \cup {"succeeded", "created"} :
               verdict' = [verdict EXCEPT ![p] = v]
    BY <1>6 DEF Rename, WriteFails, Settle, Goto, Errors, RefusedFor, Refused,
                RefusedUnderParents
  <2> QED BY <1>0, <2>1, SettlingKeeps
<1>7. CASE RemoveTemp(p) \/ Reply(p) \/ Killed(p)
  <2>1. PICK s \in {"drop", "replied", "died"} : step' = [step EXCEPT ![p] = s]
    BY <1>7 DEF RemoveTemp, Reply, Killed, Goto
  <2> QED BY <1>0, <1>7, <2>1, SettlingKeeps DEF RemoveTemp, Reply, Killed
<1>8. CASE Drop(p)
  BY <1>0, <1>8, SettlingKeeps DEF Drop, Goto, UndecidedYet
<1>9. CASE LookFailsToCreate(p)
  BY <1>0, <1>9, SettlingKeeps DEF LookFailsToCreate, Draft, Goto
<1> QED BY <1>1, <1>2, <1>3, <1>4, <1>5, <1>6, <1>7, <1>8, <1>9 DEF Run

\* The errors a run ignores: of its own look, of its own removals.
LEMMA FailedGrows ==
    ASSUME NEW p \in Procs, Run(p) \/ Killed(p)
    PROVE  \/ failed' = failed \/ failed' = failed \cup {<<p, "removal">>}
           \/ LookFailsToCreate(p)
BY DEF Run, Begin, MakeParents, Hold, LookToEdit, LookToCreate, CreateTemp, WriteTemp,
       SyncTemp, SetMode, Rename, WriteFails, RemoveTemp, Drop, Reply, Killed

LEMMA BlindsKept ==
    ASSUME NEW p, failed' = failed \/ failed' = failed \cup {<<p, "removal">>}
    PROVE  \A q \in Procs : Blind(q)' <=> Blind(q)
BY DEF Blind

LEMMA BlindStep ==
    ASSUME HeldThroughout, BlindByLooking, NEW p \in Procs, Run(p) \/ Killed(p)
    PROVE  BlindByLooking'
<1> DEFINE Before == {"idle", "parents", "hold", "look"}
<1>1. step \in [Procs -> Steps]
  BY DEF HeldThroughout
<1>2. ASSUME NEW q \in Procs, q # p PROVE step'[q] = step[q] /\ (Blind(q)' <=> Blind(q))
  <2>1. \/ UNCHANGED step
        \/ \E s : step' = [step EXCEPT ![p] = s]
    BY DEF Run, Begin, MakeParents, Hold, LookToEdit, LookToCreate, LookFailsToCreate,
           Answer, Draft, CreateTemp, WriteTemp, SyncTemp, SetMode, Rename, WriteFails,
           RemoveTemp, Drop, Reply, Killed, Settle, Goto
  <2>2. Blind(q)' <=> Blind(q)
    <3>1. CASE LookFailsToCreate(p)
      BY <1>2, <3>1 DEF LookFailsToCreate, Blind
    <3> QED BY <3>1, FailedGrows, BlindsKept
  <2> QED BY <1>1, <1>2, <2>1, <2>2
<1>3. ASSUME step'[p] \in Before PROVE ~Blind(p)'
  <2>1. CASE LookFailsToCreate(p)
    BY <1>1, <1>3, <2>1 DEF LookFailsToCreate, Draft, Goto
  <2>2. CASE Begin(p) \/ MakeParents(p) \/ Hold(p)
    <3>1. step[p] \in Before
      BY <2>2 DEF Begin, MakeParents, Hold
    <3>2. failed' = failed
      BY <2>2 DEF Begin, MakeParents, Hold
    <3> QED BY <3>1, <3>2 DEF BlindByLooking, Blind
  <2>3. CASE /\ ~LookFailsToCreate(p) /\ ~(Begin(p) \/ MakeParents(p) \/ Hold(p))
    <3>1. step'[p] \notin Before
      <4>1. CASE LookToEdit(p) \/ LookToCreate(p)
        BY <1>1, <4>1 DEF LookToEdit, LookToCreate, Answer, Draft, Settle, Goto
      <4>2. CASE Drop(p)
        BY <1>1, <4>2 DEF Drop, Goto
      <4> QED BY <1>1, <2>3, <4>1, <4>2
             DEF Run, CreateTemp, WriteTemp, SyncTemp, SetMode, Rename, WriteFails,
                 RemoveTemp, Reply, Killed, Settle, Goto
    <3> QED BY <1>3, <3>1
  <2> QED BY <2>1, <2>2, <2>3
<1> QED BY <1>2, <1>3 DEF BlindByLooking

\* The files are as their run left them when its step changes none of them.
FilesInv ==
    FilesAreWhole /\ DraftIsNext /\ TempFollowsDraft /\ DefaultUntilText /\ TempIsSomeones

\* What a request asks of the path changes only with the path.
LEMMA OutcomeFollowsTarget ==
    ASSUME UNCHANGED <<target, request>>, NEW p \in Procs
    PROVE  /\ Promise!Outcome(Seen(target), request[p])' = Promise!Outcome(Seen(target), request[p])
           /\ Promise!After(Seen(target), request[p])' = Promise!After(Seen(target), request[p])
<1>1. Seen(target)' = Seen(target)
  BY DEF Seen
<1>2. Promise!Outcome(Seen(target), request[p])' = Promise!Outcome(Seen(target), request[p])
  BY <1>1 DEF Promise!Outcome, Promise!EditOutcome, Promise!Replaced
<1>3. Promise!After(Seen(target), request[p])' = Promise!After(Seen(target), request[p])
  BY <1>1, <1>2 DEF Promise!After, Promise!Replaced
<1> QED BY <1>1, <1>2, <1>3

\* A temporary file stays someone's while its run still has it.
LEMMA SomeonesKept ==
    ASSUME TempIsSomeones,
           \A q \in Procs : HasTemp(q) /\ temp'[PidOf[q]] # Nothing => HasTemp(q)',
           \A n \in Pids :
             temp'[n] # Nothing =>
               temp[n] # Nothing \/ \E q \in Procs : PidOf[q] = n /\ HasTemp(q)'
    PROVE  TempIsSomeones'
BY DEF TempIsSomeones

\* A draft stays what is next while the path, the request and the look are as
\* they were.
LEMMA NextKept ==
    ASSUME DraftIsNext, UNCHANGED <<target, request>>, NEW p,
           failed' = failed \/ failed' = failed \cup {<<p, "removal">>},
           \A q \in Procs : step'[q] \in WriteSteps =>
             step[q] \in WriteSteps /\ draft'[q] = draft[q]
    PROVE  DraftIsNext'
<1> SUFFICES ASSUME NEW q \in Procs, step'[q] \in WriteSteps
             PROVE  /\ IsText(draft[q])'
                    /\ (Blind(q) => /\ request[q].action # "edit"
                                    /\ Seen(draft[q]) = [kind |-> "text", text |-> request[q].text])'
                    /\ (~Blind(q) =>
                          /\ Seen(draft[q]) = Promise!After(Seen(target), request[q])
                          /\ Promise!Outcome(Seen(target), request[q]) =
                               IF request[q].action = "edit" THEN "succeeded" ELSE "created"
                          /\ request[q].action # "edit" => target = Missing)'
                    /\ (request[q].action = "edit" =>
                          target.kind = "text" /\ draft[q].mode = target.mode)'
  BY DEF DraftIsNext
<1>1. Blind(q)' <=> Blind(q)
  BY BlindsKept
<1>2. /\ Promise!Outcome(Seen(target), request[q])' = Promise!Outcome(Seen(target), request[q])
      /\ Promise!After(Seen(target), request[q])' = Promise!After(Seen(target), request[q])
  BY OutcomeFollowsTarget
<1>3. IsText(draft[q])' <=> IsText(draft[q])
  BY DEF IsText, Text
<1>4. Seen(draft[q])' = Seen(draft[q])
  BY DEF Seen
<1> QED BY <1>1, <1>2, <1>3, <1>4 DEF DraftIsNext

LEMMA FilesLeftKeep ==
    ASSUME HeldThroughout, FilesInv, NEW p \in Procs, NEW s \in Steps \ WriteSteps,
           UNCHANGED <<target, saved, temp, request>>,
           draft' = draft \/ draft' = [draft EXCEPT ![p] = Nothing],
           step' = [step EXCEPT ![p] = s],
           step[p] \in {"removeTemp"} \cup WriteSteps => s \in {"removeTemp", "died"},
           step[p] = "died" => s = "died",
           failed' = failed \/ failed' = failed \cup {<<p, "removal">>}
    PROVE  FilesInv'
<1> USE DEF FilesInv
<1>1. step \in [Procs -> Steps] /\ DOMAIN draft = Procs
  BY DEF HeldThroughout, FilesAreWhole
<1>2. FilesAreWhole' /\ DefaultUntilText'
  BY <1>1 DEF FilesAreWhole, DefaultUntilText
<1>3. \A q \in Procs : step'[q] \in WriteSteps =>
         q # p /\ step[q] = step'[q] /\ draft'[q] = draft[q]
  BY <1>1
<1>4. DraftIsNext'
  BY <1>1, <1>3, NextKept
<1>5. TempFollowsDraft'
  BY <1>3 DEF TempFollowsDraft
<1>6. TempIsSomeones'
  <2>1. \A q \in Procs : HasTemp(q) => HasTemp(q)'
    BY <1>1 DEF HasTemp
  <2> QED BY <2>1, SomeonesKept
<1> QED BY <1>2, <1>4, <1>5, <1>6

\* What DraftIsNext asks of one run's draft as it is made.
DraftIsNextOf(p) ==
    LET asked == request[p] IN
    /\ IsText(draft'[p])
    /\ <<p, "look">> \in failed' =>
         /\ asked.action # "edit"
         /\ Seen(draft'[p]) = [kind |-> "text", text |-> asked.text]
    /\ <<p, "look">> \notin failed' =>
         /\ Seen(draft'[p]) = Promise!After(Seen(target), asked)
         /\ Promise!Outcome(Seen(target), asked) =
              IF asked.action = "edit" THEN "succeeded" ELSE "created"
         /\ asked.action # "edit" => target = Missing
    /\ asked.action = "edit" => target.kind = "text" /\ draft'[p].mode = target.mode

\* The draft made at the look is what the request asks of the path.
LEMMA LookDrafts ==
    ASSUME HeldThroughout, BlindByLooking, FilesInv, NEW p \in Procs,
           LookToEdit(p) \/ LookToCreate(p) \/ LookFailsToCreate(p),
           step' = [step EXCEPT ![p] = "createTemp"]
    PROVE  FilesInv'
<1> USE DEF FilesInv
<1>1. step \in [Procs -> Steps] /\ DOMAIN draft = Procs /\ step[p] = "look"
  BY DEF HeldThroughout, FilesAreWhole, LookToEdit, LookToCreate, LookFailsToCreate
<1>2. /\ UNCHANGED <<target, saved, temp, request>> /\ step'[p] = "createTemp"
      /\ failed \subseteq failed'
  BY <1>1 DEF LookToEdit, LookToCreate, LookFailsToCreate, diskVars
<1>3. \A q \in Procs : q # p => step[q] \notin {"look", "removeTemp"} \cup WriteSteps
  BY <1>1, OthersStandBack DEF Mutating
<1>4. PICK f : draft' = [draft EXCEPT ![p] = f]
  <2>1. \A reply : ~Answer(p, reply)
    BY <1>1, <1>2 DEF Answer, Settle, Goto
  <2> QED BY <2>1 DEF LookToEdit, LookToCreate, LookFailsToCreate, Draft
<1>5. draft'[p] = f
  BY <1>1, <1>4
<1>6. FilesAreWhole' /\ DefaultUntilText'
  BY <1>1, <1>2, <1>4 DEF FilesAreWhole, DefaultUntilText
<1>7. ASSUME LookToEdit(p) \/ LookToCreate(p) PROVE DraftIsNextOf(p)
  <2>0. <<p, "look">> \notin failed'
    BY <1>1, <1>7 DEF BlindByLooking, Blind, LookToEdit, LookToCreate
  <2>1. \A reply : ~Answer(p, reply)
    BY <1>1, <1>2 DEF Answer, Settle, Goto
  <2>2. CASE LookToEdit(p)
    <3> DEFINE r == request[p]
               new == Replaced(target.text, r)
    <3>1. /\ r.action = "edit" /\ target.kind = "text"
          /\ target.text[r.old] = 1 \/ (target.text[r.old] > 1 /\ r.replaceAll)
          /\ new # target.text
          /\ f = Text(new, target.mode, FALSE)
      BY <1>5, <2>1, <2>2, <1>1 DEF LookToEdit, Draft
    <3>2. Seen(target) = [kind |-> "text", text |-> target.text]
      BY <3>1 DEF Seen
    <3>3. new = Promise!Replaced(target.text, r)
      BY DEF Replaced, Promise!Replaced
    <3>4. Promise!EditOutcome(target.text, r) = "succeeded"
      BY <3>1, <3>3 DEF Promise!EditOutcome
    <3>5. Promise!Outcome(Seen(target), r) = "succeeded"
      BY <3>1, <3>2, <3>4 DEF Promise!Outcome
    <3>6. Promise!After(Seen(target), r) = [kind |-> "text", text |-> new]
      BY <3>2, <3>3, <3>5 DEF Promise!After
    <3> HIDE DEF new
    <3>7. DraftIsNextOf(p)
      BY <1>5, <2>0, <3>1, <3>5, <3>6 DEF DraftIsNextOf, Seen, Text, IsText
    <3> QED BY <3>7
  <2>3. CASE LookToCreate(p)
    <3>1. /\ request[p].action = "create" /\ target = Missing
          /\ f = Text(request[p].text, DefaultMode, FALSE)
      BY <1>5, <2>1, <2>3, <1>1 DEF LookToCreate, Draft
    <3>2. Promise!Outcome(Seen(target), request[p]) = "created"
      BY <3>1 DEF Promise!Outcome, Seen, Missing
    <3>3. Promise!After(Seen(target), request[p]) = [kind |-> "text", text |-> request[p].text]
      BY <3>2 DEF Promise!After
    <3> QED BY <1>5, <2>0, <3>1, <3>2, <3>3 DEF DraftIsNextOf, Seen, Text, IsText
  <2> QED BY <1>7, <2>2, <2>3
<1>8. ASSUME LookFailsToCreate(p) PROVE DraftIsNextOf(p)
  <2>1. <<p, "look">> \in failed' /\ request[p].action = "create"
    BY <1>8 DEF LookFailsToCreate
  <2>2. f = Text(request[p].text, DefaultMode, FALSE)
    BY <1>1, <1>5, <1>8 DEF LookFailsToCreate, Draft
  <2> QED BY <1>5, <2>1, <2>2 DEF DraftIsNextOf, Seen, Text, IsText
<1>11. DraftIsNext'
  <2>1. \A q \in Procs : step'[q] \in WriteSteps => q = p
    BY <1>1, <1>3
  <2>2. target' = target /\ request' = request /\ DraftIsNextOf(p)
    BY <1>2, <1>7, <1>8
  <2> QED BY <2>1, <2>2 DEF DraftIsNextOf, DraftIsNext, Blind
<1>9. TempFollowsDraft'
  BY <1>1, <1>3, <1>2 DEF TempFollowsDraft
<1>10. TempIsSomeones'
  <2>1. \A q \in Procs : HasTemp(q) => HasTemp(q)'
    BY <1>1, <1>2 DEF HasTemp
  <2> QED BY <1>2, <2>1, SomeonesKept
<1> QED BY <1>6, <1>9, <1>10, <1>11

\* The fields of a file change one by one.
LEMMA TextFields ==
    ASSUME NEW text, NEW mode, NEW synced, NEW x
    PROVE  /\ [Text(text, mode, synced) EXCEPT !.text = x] = Text(x, mode, synced)
           /\ [Text(text, mode, synced) EXCEPT !.mode = x] = Text(text, x, synced)
           /\ [Text(text, mode, synced) EXCEPT !.synced = x] = Text(text, mode, x)
           /\ Text(text, mode, synced).kind = "text"
           /\ Text(text, mode, synced).text = text
           /\ Text(text, mode, synced).mode = mode
           /\ Text(text, mode, synced).synced = synced
           /\ IsText(Text(text, mode, synced))
           /\ Text(text, mode, synced) # Nothing
<1>1. [Text(text, mode, synced) EXCEPT !.text = x] = Text(x, mode, synced)
  BY DEF Text
<1>2. [Text(text, mode, synced) EXCEPT !.mode = x] = Text(text, x, synced)
  BY DEF Text
<1>3. [Text(text, mode, synced) EXCEPT !.synced = x] = Text(text, mode, x)
  BY DEF Text
<1>4. /\ Text(text, mode, synced).kind = "text"
      /\ Text(text, mode, synced).text = text
      /\ Text(text, mode, synced).mode = mode
      /\ Text(text, mode, synced).synced = synced
  BY DEF Text
<1>5. IsText(Text(text, mode, synced))
  BY <1>4 DEF IsText
<1>6. Text(text, mode, synced) # Nothing
  BY <1>4 DEF Nothing
<1> QED BY <1>1, <1>2, <1>3, <1>4, <1>5, <1>6

\* One call of the write puts the temporary file one step nearer to the draft.
Written(p, s, t) ==
    /\ s \in {"writeTemp", "syncTemp", "setMode", "rename"}
    /\ step' = [step EXCEPT ![p] = s]
    /\ temp' = [temp EXCEPT ![PidOf[p]] = t]
    /\ IsText(t) /\ t # Nothing
    /\ Missing \in {target, saved} => t.mode = DefaultMode
    /\ s \in {"syncTemp", "setMode", "rename"} => t.text = draft[p].text
    /\ s \in {"setMode", "rename"} => t.synced
    /\ s = "rename" /\ request[p].action = "edit" => t.mode = draft[p].mode

LEMMA TempWritten ==
    ASSUME HeldThroughout, FilesInv, NEW p \in Procs, step[p] \in WriteSteps, NEW t, NEW s,
           Written(p, s, t), UNCHANGED <<target, saved, request, draft, failed>>
    PROVE  FilesInv'
<1> USE DEF Written
<1> USE DEF FilesInv
<1>1. step \in [Procs -> Steps] /\ DOMAIN draft = Procs /\ DOMAIN temp = Pids /\ PidOf[p] \in Pids
  BY EditAssumption DEF HeldThroughout, FilesAreWhole
<1>2. \A q \in Procs : q # p => step[q] \notin {"look", "removeTemp"} \cup WriteSteps
  BY OthersStandBack DEF Mutating
<1>3. temp'[PidOf[p]] = t /\ \A n \in Pids : n # PidOf[p] => temp'[n] = temp[n]
  BY <1>1
<1>4. FilesAreWhole'
  <2>1. temp' = [n \in Pids |-> temp'[n]] /\ DOMAIN draft' = Procs
    BY <1>1 DEF FilesAreWhole
  <2>2. ASSUME NEW n \in Pids, temp'[n] # Nothing PROVE IsText(temp[n])'
    BY <1>3, <2>2 DEF FilesAreWhole, IsText, Text
  <2> QED BY <2>1, <2>2 DEF FilesAreWhole
<1>5. DefaultUntilText'
  BY <1>3 DEF DefaultUntilText
<1>6. \A q \in Procs : step'[q] \in WriteSteps => q = p
  BY <1>1, <1>2
<1>7. DraftIsNext'
  BY <1>6, NextKept
<1>8. TempFollowsDraft'
  <2>1. step'[p] = s
    BY <1>1
  <2> QED BY <1>3, <1>6, <2>1 DEF TempFollowsDraft
<1>9. TempIsSomeones'
  <2>1. \A q \in Procs : HasTemp(q) => HasTemp(q)'
    BY <1>1 DEF HasTemp
  <2>2. HasTemp(p)'
    BY <1>1 DEF HasTemp
  <2> QED BY <1>3, <2>1, <2>2, SomeonesKept
<1> QED BY <1>4, <1>5, <1>7, <1>8, <1>9

LEMMA WritingKeeps ==
    ASSUME HeldThroughout, FilesInv, NEW p \in Procs,
           CreateTemp(p) \/ WriteTemp(p) \/ SyncTemp(p) \/ SetMode(p)
    PROVE  FilesInv'
<1> PICK old : old = temp[PidOf[p]]
  OBVIOUS
<1>1. /\ UNCHANGED <<target, saved, request, draft, failed>> /\ step[p] \in WriteSteps
      /\ temp = [n \in Pids |-> temp[n]] /\ PidOf[p] \in Pids
  BY EditAssumption DEF CreateTemp, WriteTemp, SyncTemp, SetMode, FilesInv, FilesAreWhole
<1>2. PICK text, mode, synced : old # Nothing => old = Text(text, mode, synced)
  BY <1>1 DEF FilesInv, FilesAreWhole, IsText
<1>3. /\ Missing \in {target, saved} /\ old # Nothing => mode = DefaultMode
      /\ Missing \in {target, saved} /\ request[p].action = "edit" =>
           draft[p].mode = DefaultMode
  <2>1. old # Nothing => old.kind = "text" /\ old.mode = mode
    BY <1>2, TextFields
  <2>2. request[p].action = "edit" => target.kind = "text" /\ draft[p].mode = target.mode
    BY <1>1 DEF FilesInv, DraftIsNext
  <2> QED BY <1>1, <2>1, <2>2 DEF FilesInv, DefaultUntilText
<1>4. CASE CreateTemp(p)
  <2>1. PICK m : /\ temp' = [temp EXCEPT ![PidOf[p]] = Text(Torn, m, FALSE)]
                 /\ step' = [step EXCEPT ![p] = "writeTemp"]
                 /\ m = IF old = Nothing THEN DefaultMode ELSE old.mode
    BY <1>4 DEF CreateTemp, PutTemp, Goto
  <2>2. Missing \in {target, saved} => m = DefaultMode
    BY <1>2, <1>3, <2>1, TextFields
  <2>3. PICK t : t = Text(Torn, m, FALSE)
    OBVIOUS
  <2>4. t.mode = m /\ IsText(t) /\ t # Nothing
    BY <2>3 DEF Text, IsText, Nothing
  <2>5. Written(p, "writeTemp", t)
    BY <1>1, <2>1, <2>2, <2>3, <2>4 DEF Written
  <2> QED BY <1>1, <2>5, TempWritten
<1>5. CASE WriteTemp(p)
  <2>1. old # Nothing
    BY <1>5 DEF WriteTemp, FilesInv, TempFollowsDraft
  <2>2. PICK new : new = draft[p].text
    OBVIOUS
  <2>3. PICK t : t = [old EXCEPT !.text = new]
    OBVIOUS
  <2>4. t = Text(new, mode, synced)
    BY <1>2, <2>1, <2>3, TextFields
  <2>5. temp' = [temp EXCEPT ![PidOf[p]] = t]
    BY <1>5, <2>2, <2>3 DEF WriteTemp, PutTemp
  <2>6. step' = [step EXCEPT ![p] = "syncTemp"]
    BY <1>5 DEF WriteTemp, Goto
  <2>7. t.mode = mode /\ t.text = draft[p].text /\ IsText(t) /\ t # Nothing
    BY <2>2, <2>4, TextFields
  <2>8. Written(p, "syncTemp", t)
    BY <1>3, <2>1, <2>5, <2>6, <2>7 DEF Written
  <2> QED BY <1>1, <2>8, TempWritten
<1>6. CASE SyncTemp(p)
  <2>1. old # Nothing /\ old.text = draft[p].text
    BY <1>6 DEF SyncTemp, FilesInv, TempFollowsDraft
  <2>2. PICK t : t = [old EXCEPT !.synced = TRUE]
    OBVIOUS
  <2>3. PICK on : on = TRUE
    OBVIOUS
  <2>4. t = [old EXCEPT !.synced = on]
    BY <2>2, <2>3, Zenon
  <2>5. t = Text(text, mode, on)
    BY <1>2, <2>1, <2>4, TextFields
  <2>6. temp' = [temp EXCEPT ![PidOf[p]] = t]
    BY <1>6, <2>2 DEF SyncTemp, PutTemp
  <2>7. step' = [step EXCEPT ![p] = "setMode"]
    BY <1>6 DEF SyncTemp, Goto
  <2>8. t.synced = on /\ t.mode = mode /\ t.text = draft[p].text /\ IsText(t) /\ t # Nothing
    BY <1>2, <2>1, <2>5, TextFields
  <2>9. t.synced
    BY <2>3, <2>8
  <2>10. Written(p, "setMode", t)
    BY <1>3, <2>1, <2>6, <2>7, <2>8, <2>9 DEF Written
  <2> QED BY <1>1, <2>10, TempWritten
<1>7. CASE SetMode(p)
  <2>1. old # Nothing /\ old.text = draft[p].text /\ old.synced
    BY <1>7 DEF SetMode, FilesInv, TempFollowsDraft
  <2>2. PICK m : m = IF request[p].action = "edit" THEN draft[p].mode ELSE mode
    OBVIOUS
  <2>3. PICK t : t = Text(text, m, synced)
    OBVIOUS
  <2>4. temp' = [temp EXCEPT ![PidOf[p]] = t]
    <3>1. CASE request[p].action = "edit"
      BY <1>2, <1>7, <2>1, <2>2, <2>3, <3>1, TextFields DEF SetMode, PutTemp
    <3>2. CASE request[p].action # "edit"
      BY <1>1, <1>2, <1>7, <2>1, <2>2, <2>3, <3>2 DEF SetMode
    <3> QED BY <3>1, <3>2
  <2>5. step' = [step EXCEPT ![p] = "rename"]
    BY <1>7 DEF SetMode, Goto
  <2>6. t.mode = m /\ t.text = draft[p].text /\ IsText(t) /\ t # Nothing
    BY <1>2, <2>1, <2>3, TextFields
  <2>7. t.synced
    BY <1>2, <2>1, <2>3, TextFields
  <2>8. Missing \in {target, saved} => m = DefaultMode
    BY <1>3, <2>1, <2>2
  <2>9. Written(p, "rename", t)
    BY <1>1, <2>2, <2>4, <2>5, <2>6, <2>7, <2>8 DEF Written
  <2> QED BY <1>1, <2>9, TempWritten
<1> QED BY <1>4, <1>5, <1>6, <1>7

\* The temporary file that is renamed is the draft, on disk, with its mode.
LEMMA RenamesTheDraft ==
    ASSUME HeldThroughout, FilesInv, NEW p \in Procs, Rename(p)
    PROVE  /\ target' = Text(draft[p].text, target'.mode, TRUE)
           /\ request[p].action = "edit" => target'.mode = target.mode
           /\ Missing \in {target, saved} => target'.mode = DefaultMode
           /\ DOMAIN temp = Pids /\ PidOf[p] \in Pids
<1> DEFINE t == temp[PidOf[p]]
<1>1. step[p] = "rename" /\ target' = t
  BY DEF Rename
<1>2. DOMAIN temp = Pids /\ PidOf[p] \in Pids
  BY EditAssumption DEF FilesInv, FilesAreWhole
<1>3. t # Nothing /\ t.text = draft[p].text /\ t.synced
  BY <1>1 DEF FilesInv, TempFollowsDraft
<1>4. IsText(t)
  BY <1>2, <1>3 DEF FilesInv, FilesAreWhole
<1>5. Missing \in {target, saved} => t.mode = DefaultMode
  BY <1>2, <1>4 DEF FilesInv, DefaultUntilText, IsText, Text
<1>6. request[p].action = "edit" => t.mode = target.mode
  BY <1>1 DEF FilesInv, TempFollowsDraft, DraftIsNext
<1>7. t.synced = TRUE
  BY <1>3
<1> QED BY <1>1, <1>2, <1>3, <1>4, <1>5, <1>6 DEF IsText, Text

LEMMA RenameKeeps ==
    ASSUME HeldThroughout, FilesInv, NEW p \in Procs, Rename(p)
    PROVE  FilesInv'
<1> USE DEF FilesInv
<1>1. /\ step' = [step EXCEPT ![p] = "drop"] /\ draft' = [draft EXCEPT ![p] = Nothing]
      /\ temp' = [temp EXCEPT ![PidOf[p]] = Nothing] /\ UNCHANGED <<saved, request, failed>>
      /\ step[p] = "rename"
  BY DEF Rename, Settle, Goto, PutTemp
<1>2. /\ step \in [Procs -> Steps] /\ DOMAIN draft = Procs
      /\ temp = [n \in Pids |-> temp[n]] /\ PidOf[p] \in Pids
  BY EditAssumption DEF HeldThroughout, FilesAreWhole
<1>3. \A q \in Procs : step'[q] \notin WriteSteps
  BY <1>1, <1>2, OthersStandBack DEF Mutating
<1>4. \A n \in Pids : temp'[n] # Nothing => temp'[n] = temp[n] /\ n # PidOf[p]
  BY <1>1, <1>2
<1>5. PICK text, mode, on : target' = Text(text, mode, on) /\ on = TRUE
  BY RenamesTheDraft
<1>6. target'.kind = "text" /\ target'.synced
  <2>1. target'.kind = "text" /\ target'.synced = on
    BY <1>5 DEF Text
  <2> QED BY <1>5, <2>1
<1>7. FilesAreWhole'
  <2>1. temp' = [n \in Pids |-> temp'[n]] /\ DOMAIN draft' = Procs
    BY <1>1, <1>2
  <2>2. ASSUME NEW n \in Pids, temp'[n] # Nothing PROVE IsText(temp[n])'
    BY <1>4, <2>2 DEF FilesAreWhole, IsText, Text
  <2> QED BY <1>1, <1>6, <2>1, <2>2 DEF FilesAreWhole
<1>8. DefaultUntilText'
  <2>1. target' # Missing
    BY <1>6 DEF Missing
  <2>2. Missing \in {target', saved'} => saved = Missing /\ target'.mode = DefaultMode
    BY <1>1, <2>1, RenamesTheDraft
  <2>3. \A n \in Pids : temp'[n] = temp[n] \/ temp'[n].kind # "text"
    BY <1>4 DEF Nothing
  <2> QED BY <1>1, <2>2, <2>3 DEF DefaultUntilText
<1>9. DraftIsNext' /\ TempFollowsDraft'
  BY <1>3 DEF DraftIsNext, TempFollowsDraft
<1>10. TempIsSomeones'
  <2>1. \A q \in Procs : HasTemp(q) /\ temp'[PidOf[q]] # Nothing => HasTemp(q)'
    BY <1>1, <1>2 DEF HasTemp
  <2> QED BY <1>4, <2>1, SomeonesKept
<1> QED BY <1>7, <1>8, <1>9, <1>10

\* The file is removed, or stays as that of a run whose removal failed.
LEMMA RemoveTempKeeps ==
    ASSUME HeldThroughout, FilesInv, NEW p \in Procs, RemoveTemp(p)
    PROVE  FilesInv'
<1> USE DEF FilesInv
<1>1. /\ step' = [step EXCEPT ![p] = "drop"]
      /\ UNCHANGED <<target, saved, request, draft>> /\ step[p] = "removeTemp"
      /\ failed \subseteq failed'
      /\ \/ temp' = [temp EXCEPT ![PidOf[p]] = Nothing]
         \/ temp' = temp /\ <<p, "removal">> \in failed'
  BY DEF RemoveTemp, Goto, PutTemp
<1>2. /\ step \in [Procs -> Steps] /\ DOMAIN draft = Procs
      /\ temp = [n \in Pids |-> temp[n]] /\ PidOf[p] \in Pids
  BY EditAssumption DEF HeldThroughout, FilesAreWhole
<1>3. \A q \in Procs : step'[q] \notin WriteSteps
  BY <1>1, <1>2, OthersStandBack DEF Mutating
<1>4. \A n \in Pids : temp'[n] # Nothing =>
         temp'[n] = temp[n] /\ (n # PidOf[p] \/ <<p, "removal">> \in failed')
  BY <1>1, <1>2
<1>5. FilesAreWhole'
  <2>1. temp' = [n \in Pids |-> temp'[n]] /\ DOMAIN draft' = Procs
    BY <1>1, <1>2
  <2>2. ASSUME NEW n \in Pids, temp'[n] # Nothing PROVE IsText(temp[n])'
    BY <1>4, <2>2 DEF FilesAreWhole, IsText, Text
  <2> QED BY <1>1, <2>1, <2>2 DEF FilesAreWhole
<1>6. DefaultUntilText'
  <2>1. \A n \in Pids : temp'[n] = temp[n] \/ temp'[n].kind # "text"
    BY <1>4 DEF Nothing
  <2> QED BY <1>1, <2>1 DEF DefaultUntilText
<1>7. DraftIsNext' /\ TempFollowsDraft'
  BY <1>3 DEF DraftIsNext, TempFollowsDraft
<1>8. TempIsSomeones'
  <2>1. \A q \in Procs : HasTemp(q) /\ temp'[PidOf[q]] # Nothing => HasTemp(q)'
    BY <1>1, <1>2 DEF HasTemp
  <2> QED BY <1>4, <2>1, SomeonesKept
<1> QED BY <1>5, <1>6, <1>7, <1>8

\* Every other call leaves the files alone.
LEMMA CallsLeaveFiles ==
    ASSUME HeldThroughout, FilesInv, NEW p \in Procs,
           \/ Begin(p) \/ MakeParents(p) \/ Hold(p) \/ WriteFails(p)
           \/ Drop(p) \/ Reply(p) \/ Killed(p)
    PROVE  FilesInv'
<1> USE DEF Goto, Settle, Steps
<1>1. UNCHANGED <<target, saved, temp, request>>
  BY DEF Begin, MakeParents, Hold, WriteFails, Drop, Reply, Killed, diskVars
<1>2. draft' = draft \/ draft' = [draft EXCEPT ![p] = Nothing]
  BY DEF Begin, MakeParents, Hold, WriteFails, Drop, Reply, Killed
<1>5. failed' = failed \/ failed' = failed \cup {<<p, "removal">>}
  BY DEF Begin, MakeParents, Hold, WriteFails, Drop, Reply, Killed
<1>3. CASE UNCHANGED step /\ (Hold(p) \/ Drop(p))
  <2>1. step[p] \in {"hold", "drop"} /\ draft' = draft
    BY <1>3 DEF Hold, Drop
  <2>2. step' = [step EXCEPT ![p] = step[p]]
    BY <1>3 DEF HeldThroughout
  <2> QED BY <1>1, <1>5, <2>1, <2>2, FilesLeftKeep
<1>4. CASE ~(UNCHANGED step /\ (Hold(p) \/ Drop(p)))
  <2>1. \E s \in Steps \ WriteSteps :
          /\ step' = [step EXCEPT ![p] = s]
          /\ step[p] \in {"removeTemp"} \cup WriteSteps => s \in {"removeTemp", "died"}
          /\ step[p] = "died" => s = "died"
    <3>1. CASE Begin(p)
      BY <3>1 DEF Begin
    <3>2. CASE MakeParents(p)
      BY <3>2 DEF MakeParents
    <3>3. CASE Hold(p)
      BY <1>4, <3>3 DEF Hold
    <3>4. CASE WriteFails(p)
      BY <3>4 DEF WriteFails
    <3>5. CASE Drop(p)
      BY <1>4, <3>5 DEF Drop
    <3>6. CASE Reply(p)
      BY <3>6 DEF Reply
    <3>7. CASE Killed(p)
      BY <3>7 DEF Killed
    <3> QED BY <3>1, <3>2, <3>3, <3>4, <3>5, <3>6, <3>7
  <2> QED BY <1>1, <1>2, <1>5, <2>1, FilesLeftKeep
<1> QED BY <1>3, <1>4

LEMMA LookKeepsFiles ==
    ASSUME HeldThroughout, BlindByLooking, FilesInv, NEW p \in Procs,
           LookToEdit(p) \/ LookToCreate(p) \/ LookFailsToCreate(p)
    PROVE  FilesInv'
<1>1. UNCHANGED <<target, saved, temp, request>> /\ step[p] = "look"
  BY DEF LookToEdit, LookToCreate, LookFailsToCreate, diskVars
<1>2. CASE step' = [step EXCEPT ![p] = "createTemp"]
  BY <1>2, LookDrafts
<1>3. CASE step' = [step EXCEPT ![p] = "drop"] /\ draft' = draft /\ failed' = failed
  BY <1>1, <1>3, FilesLeftKeep DEF Steps
<1> QED BY <1>2, <1>3 DEF LookToEdit, LookToCreate, LookFailsToCreate, Answer, Draft, Settle, Goto

LEMMA RunKeepsFiles ==
    ASSUME HeldThroughout, BlindByLooking, FilesInv, NEW p \in Procs, Run(p) \/ Killed(p)
    PROVE  FilesInv'
BY LookKeepsFiles, CallsLeaveFiles, RemoveTempKeeps, RenameKeeps, WritingKeeps DEF Run

LEMMA FlushKeepsFiles == ASSUME FilesInv, Flush PROVE FilesInv'
<1>1. FilesAreWhole' /\ DefaultUntilText' /\ TempFollowsDraft' /\ TempIsSomeones'
  BY DEF FilesInv, Flush, runVars, FilesAreWhole, IsText, Text, DefaultUntilText,
         TempFollowsDraft, TempIsSomeones, HasTemp
<1>2. DraftIsNext'
  BY NextKept DEF FilesInv, Flush, runVars
<1> QED BY <1>1, <1>2 DEF FilesInv

\* A failure cuts short what no run forced to disk, and nothing else.
LEMMA FailureKeepsFiles == ASSUME HeldThroughout, FilesInv, PowerFailure PROVE FilesInv'
<1> USE DEF FilesInv
<1>1. target' = saved /\ saved' = saved
  BY DEF PowerFailure, FilesAreWhole, Damaged
<1>2. ASSUME NEW n \in Pids
      PROVE  /\ temp'[n] = Nothing <=> temp[n] = Nothing
             /\ temp[n] # Nothing => IsText(temp[n])' /\ temp'[n].mode = temp[n].mode
  <2>1. temp'[n] = IF temp[n] = Nothing THEN Nothing ELSE Damaged(temp[n])
    BY DEF PowerFailure
  <2>2. CASE temp[n] # Nothing
    <3>1. PICK text, mode, synced : temp[n] = Text(text, mode, synced)
      BY <2>2 DEF FilesAreWhole, IsText
    <3>2. Damaged(temp[n]) = temp[n] \/ Damaged(temp[n]) = Text(Torn, mode, synced)
      BY <3>1, TextFields DEF Damaged
    <3>3. PICK new : temp'[n] = Text(new, mode, synced)
      BY <2>1, <2>2, <3>1, <3>2
    <3>4. temp'[n].mode = mode /\ temp[n].mode = mode /\ temp'[n] # Nothing
      BY <3>1, <3>3, TextFields
    <3>5. IsText(temp[n])'
      BY <3>3, TextFields DEF IsText
    <3> QED BY <2>2, <3>4, <3>5
  <2> QED BY <2>1, <2>2
<1>3. FilesAreWhole'
  <2>1. temp' = [n \in Pids |-> temp'[n]] /\ DOMAIN draft' = Procs
    BY DEF PowerFailure
  <2> QED BY <1>1, <1>2, <2>1 DEF FilesAreWhole
<1>4. DefaultUntilText'
  <2>1. \A n \in Pids : temp[n] # Nothing => temp[n].kind = "text"
    BY DEF FilesAreWhole, IsText, Text
  <2>2. \A n \in Pids :
          temp'[n].kind = "text" => temp[n].kind = "text" /\ temp'[n].mode = temp[n].mode
    BY <1>2, <2>1 DEF Nothing
  <2> QED BY <1>1, <2>2 DEF DefaultUntilText
<1>5. \A q \in Procs : step'[q] = IF Running(q) THEN "died" ELSE step[q]
  BY DEF PowerFailure
<1>6. \A q \in Procs : step'[q] \notin WriteSteps
  BY <1>5 DEF Running
<1>7. DraftIsNext' /\ TempFollowsDraft'
  BY <1>6 DEF DraftIsNext, TempFollowsDraft
<1>8. TempIsSomeones'
  <2>1. \A q \in Procs : HasTemp(q) => HasTemp(q)'
    BY <1>5 DEF HasTemp, Running, PowerFailure
  <2> QED BY <1>2, <2>1, SomeonesKept
<1> QED BY <1>3, <1>4, <1>7, <1>8

\* The lock file's name outlives its last holder only by a run that ends early,
\* by a removal that fails or until the next run opens it.
LEMMA LockFileStep ==
    ASSUME HeldThroughout, LockFileHasARun, NEW p \in Procs, Run(p) \/ Killed(p)
    PROVE  LockFileHasARun'
<1> USE DEF LockFileHasARun
<1>1. LockInv /\ LockTypeOK /\ OpensAFile
  BY DEF HeldThroughout, LockInv
<1>0. RemovalsFailed => RemovalsFailed'
  <2>1. failed \subseteq failed'
    BY FailedGrows DEF LookFailsToCreate
  <2> QED BY <2>1 DEF RemovalsFailed
<1>2. CASE UNCHANGED lockVars
  BY <1>0, <1>2 DEF lockVars
<1>3. CASE Open(p)
  <2>1. stage'[p] = "opened" /\ file'[p] = lockName'
    BY <1>1, <1>3 DEF Open, LockTypeOK
  <2> QED BY <2>1
<1>4. CASE Flock(p) \/ Held(p)
  <2>1. /\ stage[p] \in {"opened", "locked"} /\ stage'[p] \in {"locked", "holds"}
        /\ UNCHANGED <<lockName, file>>
        /\ \A q \in Procs : q # p => stage'[q] = stage[q]
    BY <1>1, <1>4 DEF Flock, Held, LockTypeOK
  <2> QED BY <1>0, <2>1
<1>5. CASE GoAgain(p) \/ LookFails(p) \/ Refuse(p) \/ Die(p)
  <2>1. stage'[p] \in {"asking", "refused", "dead"}
    BY <1>1, <1>5 DEF GoAgain, LookFails, Refuse, Die, LockTypeOK
  <2> QED BY <2>1
<1>6. CASE Remove(p)
  BY <1>6 DEF Remove
<1>7. CASE Unlock(p)
  <2>1. stage[p] = "removed" /\ lockName' = lockName
    BY <1>7 DEF Unlock
  <2>2. \A q \in Procs : q # p => stage'[q] = stage[q] /\ file'[q] = file[q]
    BY <1>1, <1>7 DEF Unlock, Close, LockTypeOK
  <2> QED BY <1>0, <2>1, <2>2
<1>8. CASE RemoveFails(p) /\ failed' = failed \cup {<<p, "removal">>}
  BY <1>8 DEF RemovalsFailed
<1>9. \/ UNCHANGED lockVars \/ Open(p) \/ Flock(p) \/ Held(p) \/ GoAgain(p) \/ LookFails(p)
      \/ Refuse(p) \/ Remove(p) \/ Unlock(p) \/ Die(p)
      \/ RemoveFails(p) /\ failed' = failed \cup {<<p, "removal">>}
  BY DEF Run, Begin, MakeParents, Hold, LookToEdit, LookToCreate, LookFailsToCreate,
         CreateTemp, WriteTemp, SyncTemp, SetMode, Rename, WriteFails, RemoveTemp, Drop,
         Reply, Killed
<1> QED BY <1>2, <1>3, <1>4, <1>5, <1>6, <1>7, <1>8, <1>9

LEMMA LockFileAfterFailure ==
    ASSUME HeldThroughout, LockFileHasARun, PowerFailure
    PROVE  LockFileHasARun'
<1>1. \A p \in Procs : stage'[p] = IF file[p] # NoInode THEN "dead" ELSE stage[p]
  BY DEF PowerFailure
<1>2. lockName' = lockName /\ failed' = failed
  BY DEF PowerFailure
<1> QED BY <1>1, <1>2 DEF LockFileHasARun, RemovalsFailed

LEMMA EditStep == EditInv /\ [Next]_vars => EditInv'
<1> SUFFICES ASSUME EditInv, [Next]_vars PROVE EditInv'
  OBVIOUS
<1>1. HeldThroughout /\ UndecidedYet /\ BlindByLooking /\ FilesInv /\ LockFileHasARun
  BY DEF EditInv, FilesInv
<1>2. HeldThroughout'
  BY <1>1, HeldStep
<1>3. CASE \E p \in Procs : Run(p) \/ Killed(p)
  <2>1. UndecidedYet' /\ BlindByLooking' /\ FilesInv' /\ LockFileHasARun'
    BY <1>1, <1>3, UndecidedStep, BlindStep, RunKeepsFiles, LockFileStep
  <2> QED BY <1>2, <2>1 DEF EditInv, FilesInv
<1>4. CASE Flush
  <2>1. UndecidedYet' /\ BlindByLooking' /\ LockFileHasARun'
    BY <1>1, <1>4 DEF Flush, runVars, lockVars, UndecidedYet, BlindByLooking, Blind,
       LockFileHasARun, RemovalsFailed
  <2>2. FilesInv'
    BY <1>1, <1>4, FlushKeepsFiles
  <2> QED BY <1>2, <2>1, <2>2 DEF EditInv, FilesInv
<1>5. CASE PowerFailure
  <2>1. UndecidedYet' /\ BlindByLooking'
    BY <1>1, <1>5 DEF PowerFailure, UndecidedYet, BlindByLooking, Blind, Running
  <2>2. FilesInv' /\ LockFileHasARun'
    BY <1>1, <1>5, FailureKeepsFiles, LockFileAfterFailure
  <2> QED BY <1>2, <2>1, <2>2 DEF EditInv, FilesInv
<1>6. CASE UNCHANGED vars
  <2>1. UndecidedYet' /\ BlindByLooking' /\ LockFileHasARun'
    BY <1>1, <1>6 DEF vars, runVars, lockVars, UndecidedYet, BlindByLooking, Blind,
       LockFileHasARun, RemovalsFailed
  <2>2. FilesAreWhole' /\ DefaultUntilText' /\ TempFollowsDraft' /\ TempIsSomeones'
    BY <1>1, <1>6 DEF FilesInv, vars, diskVars, runVars, FilesAreWhole, IsText, Text,
       DefaultUntilText, TempFollowsDraft, TempIsSomeones, HasTemp
  <2>3. DraftIsNext'
    BY <1>1, <1>6, NextKept DEF FilesInv, vars, diskVars, runVars
  <2> QED BY <1>2, <2>1, <2>2, <2>3 DEF EditInv
<1> QED BY <1>3, <1>4, <1>5, <1>6 DEF Next

(***************************************************************************)
(* The inductive invariant holds in every reachable state: while a run     *)
(* writes, the path still is what it looked at, if its look did not fail,  *)
(* and what it will rename over it is the whole of its draft.              *)
(***************************************************************************)
THEOREM EditInvariance == Spec => []EditInv
BY EditInit, EditStep, PTL DEF Spec

(***************************************************************************)
(* What is left beside the path was left by a run that died or that was    *)
(* refused to remove it: the others remove their temporary file and their  *)
(* lock file (disk.rs, lock.rs).                                           *)
(***************************************************************************)
THEOREM LeftoversAreTheDeads == Spec => []LeftByTheDead
<1>1. EditInv => LeftByTheDead
  BY EditAssumption DEF EditInv, LockFileHasARun, LeftByTheDead
<1> QED BY <1>1, EditInvariance, PTL

(***************************************************************************)
(* An edit leaves the path's permissions as they were and a create gives   *)
(* the default, whatever mode a killed run's temporary file had (edit.rs,  *)
(* disk.rs), unless the create's look failed and it took the place of what *)
(* was there (create.rs).                                                  *)
(***************************************************************************)
THEOREM PermissionsKept == Spec => ModeKept
<1> DEFINE Kept(p) ==
             step[p] = "rename" =>
               /\ verdict'[p] = "succeeded" => target'.mode = target.mode
               /\ verdict'[p] = "created" /\ ~(Blind(p) /\ target # Missing) =>
                    target'.mode = DefaultMode
<1>1. ASSUME EditInv, [Next]_vars, ~UNCHANGED vars, NEW p \in Procs
      PROVE  Kept(p)
  <2> SUFFICES ASSUME step[p] = "rename" PROVE Kept(p)
    OBVIOUS
  <2>0. HeldThroughout /\ FilesInv /\ verdict[p] = Undecided
    BY <1>1 DEF EditInv, FilesInv, UndecidedYet
  <2>1. CASE Rename(p)
    <3>1. verdict'[p] = IF request[p].action = "edit" THEN "succeeded" ELSE "created"
      BY <1>1, <2>1 DEF Rename, Settle, EditInv, UndecidedYet
    <3>2. ~Blind(p) /\ request[p].action # "edit" => target = Missing
      BY <2>0 DEF FilesInv, DraftIsNext
    <3>3. /\ request[p].action = "edit" => target'.mode = target.mode
          /\ target = Missing => target'.mode = DefaultMode
      BY <2>0, <2>1, RenamesTheDraft
    <3> QED BY <3>1, <3>2, <3>3
  <2>2. CASE ~Rename(p)
    <3>1. verdict'[p] \in {Undecided, "pathMissing", "denied", "failed"}
      <4>1. ASSUME NEW q \in Procs, q # p, Run(q) \/ Killed(q) PROVE verdict'[p] = verdict[p]
        <5>1. verdict' = verdict \/ \E v : verdict' = [verdict EXCEPT ![q] = v]
          BY <4>1 DEF Run, Begin, MakeParents, Hold, LookToEdit, LookToCreate,
             LookFailsToCreate, Answer, Draft, CreateTemp, WriteTemp, SyncTemp, SetMode,
             Rename, WriteFails, RemoveTemp, Drop, Reply, Killed, Settle
        <5> QED BY <4>1, <5>1, <1>1 DEF EditInv, UndecidedYet
      <4>2. CASE Run(p) \/ Killed(p)
        <5>1. CASE WriteFails(p)
          <6>1. PICK e \in Errors : verdict' = [verdict EXCEPT ![p] = RefusedFor(p, e)]
            BY <5>1 DEF WriteFails, Settle
          <6>2. verdict'[p] = RefusedFor(p, e)
            BY <6>1, <1>1 DEF EditInv, UndecidedYet
          <6> QED BY <6>2 DEF Errors, RefusedFor, Refused, RefusedUnderParents
        <5>2. CASE Killed(p)
          BY <2>0, <5>2 DEF Killed
        <5> QED BY <2>2, <4>2, <5>1, <5>2
               DEF Run, Begin, MakeParents, Hold, LookToEdit, LookToCreate,
                   LookFailsToCreate, CreateTemp, WriteTemp, SyncTemp, SetMode, RemoveTemp,
                   Drop, Reply
      <4>3. CASE Flush \/ PowerFailure
        BY <2>0, <4>3 DEF Flush, PowerFailure, runVars
      <4> QED BY <1>1, <2>0, <4>1, <4>2, <4>3 DEF Next
    <3> QED BY <3>1 DEF Undecided
  <2> QED BY <2>1, <2>2
<1>2. EditInv /\ [Next]_vars => [\A p \in Procs : Kept(p)]_vars
  BY <1>1
<1> QED BY <1>2, EditInvariance, PTL DEF Spec, ModeKept

-----------------------------------------------------------------------------
(* The runs implement AtomicFile. *)

Blinds == {p \in Procs : Blind(p)}

LEMMA RefinesInit == Init => Promise!Init
<1>1. Init => Blinds = {}
  BY DEF Init, Blinds, Blind
<1> QED BY <1>1 DEF Init, Promise!Init, Undecided, Promise!Undecided, Blinds

\* A run that settles on a refusal while the path stays is refused.
LEMMA RefusalIsARefusal ==
    ASSUME NEW p \in Procs, verdict[p] = Undecided, UNCHANGED <<request, target, saved>>,
           Blinds' = Blinds,
           NEW v \in Promise!Refusals, verdict' = [verdict EXCEPT ![p] = v]
    PROVE  Promise!Refuse(p)
BY DEF Promise!Refuse, Undecided, Promise!Undecided, Seen, Blinds

\* A run that answers from what it sees is served.
LEMMA AnswerIsServed ==
    ASSUME NEW p \in Procs, verdict[p] = Undecided, UNCHANGED <<request, target, saved>>,
           ~Blind(p), Blinds' = Blinds,
           verdict' = [verdict EXCEPT ![p] = Promise!Outcome(Seen(target), request[p])],
           Promise!Outcome(Seen(target), request[p]) \notin {"created", "succeeded"}
    PROVE  Promise!Serve(p)
<1>1. Promise!After(Seen(target), request[p]) = Seen(target)
  BY DEF Promise!After
<1>2. Seen(target)' = Seen(target) /\ Seen(saved)' = Seen(saved)
  BY DEF Seen
<1> QED BY <1>1, <1>2 DEF Promise!Serve, Undecided, Promise!Undecided, Blinds

LEMMA LookRefines ==
    ASSUME EditInv, NEW p \in Procs, LookToEdit(p) \/ LookToCreate(p)
    PROVE  Promise!Next \/ UNCHANGED Promise!vars
<1> DEFINE r == request[p]
           o == Promise!Outcome(Seen(target), r)
<1>1. /\ verdict[p] = Undecided /\ ~Blind(p)
      /\ UNCHANGED <<request, target, saved>> /\ Blinds' = Blinds
  BY DEF EditInv, UndecidedYet, BlindByLooking, LookToEdit, LookToCreate, diskVars, Blinds,
         Blind
<1>2. CASE \E v \in Promise!Refusals : Answer(p, v)
  BY <1>1, <1>2, RefusalIsARefusal DEF Answer, Settle, Promise!Next
<1>3. CASE o \notin {"created", "succeeded"} /\ Answer(p, o)
  BY <1>1, <1>3, AnswerIsServed DEF Answer, Settle, Promise!Next
<1>4. CASE UNCHANGED verdict
  <2>1. Seen(target)' = Seen(target) /\ Seen(saved)' = Seen(saved)
    BY <1>1 DEF Seen
  <2> QED BY <1>1, <1>4, <2>1 DEF Promise!vars, Blinds
<1>5. CASE LookToEdit(p)
  <2>1. r.action = "edit"
    BY <1>5 DEF LookToEdit
  <2>2. \A e \in Errors : Refused(e) \in Promise!Refusals
    BY DEF Errors, Refused, Promise!Refusals
  <2>3. CASE target.kind = "directory" /\ Answer(p, "isDirectory")
    <3>1. o = "isDirectory"
      BY <2>1, <2>3 DEF Promise!Outcome, Seen
    <3> QED BY <1>3, <2>3, <3>1
  <2>4. CASE target.kind = "binary" /\ Answer(p, "notText")
    <3>1. o = "notText"
      BY <2>1, <2>4 DEF Promise!Outcome, Seen
    <3> QED BY <1>3, <2>4, <3>1
  <2>5. ASSUME target.kind = "text" PROVE o = Promise!EditOutcome(target.text, r)
    BY <2>1, <2>5 DEF Promise!Outcome, Seen
  <2>6. CASE target.kind = "text" /\ target.text[r.old] = 0 /\ Answer(p, "targetMissing")
    <3>1. o = "targetMissing"
      BY <2>5, <2>6 DEF Promise!EditOutcome
    <3> QED BY <1>3, <2>6, <3>1
  <2>7. CASE /\ target.kind = "text" /\ target.text[r.old] > 1 /\ ~r.replaceAll
             /\ Answer(p, "ambiguous")
    <3>1. o = "ambiguous"
      BY <2>5, <2>7 DEF Promise!EditOutcome
    <3> QED BY <1>3, <2>7, <3>1
  <2>8. CASE /\ target.kind = "text" /\ Replaced(target.text, r) = target.text
             /\ target.text[r.old] = 1 \/ (target.text[r.old] > 1 /\ r.replaceAll)
             /\ Answer(p, "noChange")
    <3>1. Promise!Replaced(target.text, r) = target.text
      BY <2>8 DEF Replaced, Promise!Replaced
    <3>2. o = "noChange"
      BY <2>5, <2>8, <3>1 DEF Promise!EditOutcome
    <3> QED BY <1>3, <2>8, <3>2
  <2>9. \/ \E v \in Promise!Refusals : Answer(p, v)
        \/ target.kind = "directory" /\ Answer(p, "isDirectory")
        \/ target.kind = "binary" /\ Answer(p, "notText")
        \/ target.kind = "text" /\ target.text[r.old] = 0 /\ Answer(p, "targetMissing")
        \/ /\ target.kind = "text" /\ target.text[r.old] > 1 /\ ~r.replaceAll
           /\ Answer(p, "ambiguous")
        \/ /\ target.kind = "text" /\ Replaced(target.text, r) = target.text
           /\ target.text[r.old] = 1 \/ (target.text[r.old] > 1 /\ r.replaceAll)
           /\ Answer(p, "noChange")
        \/ UNCHANGED verdict
    BY <1>5, <2>2 DEF LookToEdit, Draft, Promise!Refusals, Errors
  <2> QED BY <1>2, <1>4, <2>3, <2>4, <2>6, <2>7, <2>8, <2>9
<1>6. CASE LookToCreate(p)
  BY <1>2, <1>4, <1>6 DEF LookToCreate, Draft, Promise!Refusals
<1> QED BY <1>5, <1>6

\* A create whose look fails is one that cannot look.
LEMMA LookFailsRefines ==
    ASSUME EditInv, NEW p \in Procs, LookFailsToCreate(p)
    PROVE  Promise!CannotLook(p)
<1>1. /\ verdict[p] = Undecided /\ request[p].action = "create"
      /\ UNCHANGED <<request, target, saved, verdict>>
  BY DEF EditInv, UndecidedYet, LookFailsToCreate, Draft, diskVars
<1>2. \A q \in Procs : Blind(q)' <=> (Blind(q) \/ q = p)
  BY DEF LookFailsToCreate, Blind
<1>3. {q \in Procs : Blind(q)'} = {q \in Procs : Blind(q)} \cup {p}
  BY <1>2
<1>4. Seen(target)' = Seen(target) /\ Seen(saved)' = Seen(saved)
  BY <1>1 DEF Seen
<1> QED BY <1>1, <1>3, <1>4 DEF Promise!CannotLook, Undecided, Promise!Undecided

\* The rename is the instant at which a request takes effect.
LEMMA RenameRefines ==
    ASSUME EditInv, NEW p \in Procs, Rename(p)
    PROVE  Promise!Serve(p) \/ Promise!Overwrite(p)
<1>1. HeldThroughout /\ FilesInv
  BY DEF EditInv, FilesInv
<1>2. step[p] = "rename" /\ UNCHANGED <<request, saved>> /\ Blinds' = Blinds
  BY DEF Rename, Blinds, Blind
<1>3. Seen(target)' = Seen(draft[p])
  <2>1. target'.kind = "text" /\ target'.text = draft[p].text
    BY <1>1, RenamesTheDraft DEF Text
  <2>2. draft[p].kind = "text"
    <3>1. IsText(draft[p])
      BY <1>1, <1>2 DEF FilesInv, DraftIsNext
    <3> QED BY <3>1 DEF IsText, Text
  <2> QED BY <2>1, <2>2 DEF Seen
<1>4. verdict[p] = Undecided /\ Seen(saved)' = Seen(saved)
  BY <1>2 DEF EditInv, UndecidedYet, Seen
<1>5. CASE ~Blind(p)
  <2>1. /\ Seen(draft[p]) = Promise!After(Seen(target), request[p])
        /\ Promise!Outcome(Seen(target), request[p]) =
             IF request[p].action = "edit" THEN "succeeded" ELSE "created"
    BY <1>1, <1>2, <1>5 DEF FilesInv, DraftIsNext
  <2> QED BY <1>2, <1>3, <1>4, <1>5, <2>1
         DEF Rename, Settle, Promise!Serve, Undecided, Promise!Undecided, Blinds
<1>6. CASE Blind(p)
  <2>1. /\ request[p].action # "edit"
        /\ Seen(draft[p]) = [kind |-> "text", text |-> request[p].text]
    BY <1>1, <1>2, <1>6 DEF FilesInv, DraftIsNext
  <2>2. Seen(target).kind # "directory"
    BY DEF Rename, Seen
  <2>3. verdict' = [verdict EXCEPT ![p] = "created"]
    BY <2>1 DEF Rename, Settle
  <2> QED BY <1>2, <1>3, <1>4, <1>6, <2>1, <2>2, <2>3
         DEF Promise!Overwrite, Undecided, Promise!Undecided, Blinds
<1> QED BY <1>5, <1>6

LEMMA RunRefines ==
    ASSUME EditInv, NEW p \in Procs, Run(p) \/ Killed(p)
    PROVE  Promise!Next \/ UNCHANGED Promise!vars
<1>0. LookFailsToCreate(p) \/ Blinds' = Blinds
  BY FailedGrows, BlindsKept DEF Blinds
<1>1. CASE UNCHANGED <<request, target, saved, verdict>> /\ Blinds' = Blinds
  BY <1>1 DEF Promise!vars, Seen, Blinds
<1>2. CASE /\ UNCHANGED <<request, target, saved>> /\ verdict[p] = Undecided
           /\ Blinds' = Blinds
           /\ \E v \in Promise!Refusals : verdict' = [verdict EXCEPT ![p] = v]
  BY <1>2, RefusalIsARefusal DEF Promise!Next
<1>3. step[p] \in {"idle", "parents", "hold"} \cup WriteSteps => verdict[p] = Undecided
  BY DEF EditInv, UndecidedYet
<1>4. \A e \in Errors : Refused(e) \in Promise!Refusals /\ RefusedFor(p, e) \in Promise!Refusals
  BY DEF Errors, Refused, RefusedFor, RefusedUnderParents, Promise!Refusals
<1>13. CASE LookFailsToCreate(p)
  BY <1>13, LookFailsRefines DEF Promise!Next
<1>14. CASE Blinds' # Blinds
  BY <1>0, <1>13, <1>14
<1>5. CASE Begin(p)
  BY <1>1, <1>2, <1>3, <1>5, <1>14 DEF Begin, Settle, diskVars, Promise!Refusals
<1>6. CASE MakeParents(p)
  BY <1>1, <1>2, <1>3, <1>4, <1>6, <1>14 DEF MakeParents, Settle
<1>7. CASE Hold(p)
  BY <1>1, <1>2, <1>3, <1>4, <1>7, <1>14 DEF Hold, Settle, diskVars
<1>8. CASE LookToEdit(p) \/ LookToCreate(p)
  BY <1>8, LookRefines
<1>9. CASE CreateTemp(p) \/ WriteTemp(p) \/ SyncTemp(p) \/ SetMode(p)
  BY <1>1, <1>9, <1>14 DEF CreateTemp, WriteTemp, SyncTemp, SetMode
<1>10. CASE Rename(p)
  BY <1>10, RenameRefines DEF Promise!Next
<1>11. CASE WriteFails(p)
  BY <1>2, <1>3, <1>4, <1>11, <1>14 DEF WriteFails, Settle, diskVars
<1>12. CASE RemoveTemp(p) \/ Drop(p) \/ Reply(p) \/ Killed(p)
  BY <1>1, <1>12, <1>14 DEF RemoveTemp, Drop, Reply, Killed, diskVars
<1> QED BY <1>5, <1>6, <1>7, <1>8, <1>9, <1>10, <1>11, <1>12, <1>13 DEF Run

LEMMA RefinesStep == EditInv /\ [Next]_vars => [Promise!Next]_(Promise!vars)
<1> SUFFICES ASSUME EditInv, [Next]_vars PROVE Promise!Next \/ UNCHANGED Promise!vars
  OBVIOUS
<1>1. CASE \E p \in Procs : Run(p) \/ Killed(p)
  BY <1>1, RunRefines
<1>2. CASE Flush
  <2>1. saved' = target /\ UNCHANGED <<request, target, verdict, failed>>
    BY <1>2 DEF Flush, runVars
  <2> QED BY <2>1 DEF Seen, Blind, Promise!Flush, Promise!Next
<1>3. CASE PowerFailure
  <2>1. Damaged(saved) = saved
    BY DEF EditInv, FilesAreWhole, Damaged
  <2>2. target' = saved /\ UNCHANGED <<request, saved, verdict, failed>>
    BY <1>3, <2>1 DEF PowerFailure
  <2> QED BY <2>2 DEF Seen, Blind, Promise!PowerFailure, Promise!Next
<1>4. CASE UNCHANGED vars
  BY <1>4 DEF vars, diskVars, runVars, Promise!vars, Seen, Blind
<1> QED BY <1>1, <1>2, <1>3, <1>4 DEF Next

(***************************************************************************)
(* Any number of runs, killed or cut off at any call, do to a path what    *)
(* AtomicFile promises: each request at one instant or not at all, no edit *)
(* lost to another, and never half a file (disk.rs, cli.rs); a create      *)
(* whose look fails replaces what is there (create.rs).                    *)
(***************************************************************************)
THEOREM AtomicRuns == Spec => RunsAreAtomic
BY RefinesInit, RefinesStep, EditInvariance, PTL DEF Spec, RunsAreAtomic, Promise!Spec

=============================================================================
