------------------------------ MODULE EditLock ------------------------------
(***************************************************************************)
(* The lock of bestie_edit (lock.rs): every run of the program that        *)
(* mutates a path first holds an exclusive flock on a lock file beside     *)
(* it.  The file comes and goes with its holders, so a run that was        *)
(* waiting may be granted the lock of a file that no longer has the name;  *)
(* it looks again and goes round.  A process here is one run of the        *)
(* program: it asks for the lock once.                                     *)
(***************************************************************************)
CONSTANTS Procs, Inodes, NoInode, NoProc

ASSUME LockAssumption == NoInode \notin Inodes /\ NoProc \notin Procs

VARIABLES
    lockName,   \* the inode that the lock file's name leads to, or NoInode
    file,       \* the inode each process has open as its lock file
    flock,      \* the process holding the lock of each inode
    stage       \* where each process is in hold() and drop()

lockVars == <<lockName, file, flock, stage>>

\* "asking" is the top of hold()'s loop, where a process also waits to begin.
Stages == {"asking", "opened", "locked", "holds", "removed", "released",
           "refused", "dead"}

LockTypeOK ==
    /\ lockName \in Inodes \cup {NoInode}
    /\ file \in [Procs -> Inodes \cup {NoInode}]
    /\ flock \in [Inodes -> Procs \cup {NoProc}]
    /\ stage \in [Procs -> Stages]

\* A run that crashed earlier may have left its lock file behind.
LockInit ==
    /\ lockName \in Inodes \cup {NoInode}
    /\ file = [p \in Procs |-> NoInode]
    /\ flock = [i \in Inodes |-> NoProc]
    /\ stage = [p \in Procs |-> "asking"]

\* The file system gives a new file an inode nobody can still reach.
Unused(i) == i # lockName /\ \A q \in Procs : file[q] # i

\* The kernel closes a process's file and with it releases its lock.
Close(p) ==
    /\ file' = [file EXCEPT ![p] = NoInode]
    /\ flock' = [i \in Inodes |-> IF flock[i] = p THEN NoProc ELSE flock[i]]

\* open(create, no truncate): the file of that name, made when there is none.
Open(p) ==
    /\ stage[p] = "asking"
    /\ \/ /\ lockName # NoInode
          /\ file' = [file EXCEPT ![p] = lockName]
          /\ UNCHANGED lockName
       \/ \E i \in Inodes :
            /\ lockName = NoInode
            /\ Unused(i)
            /\ lockName' = i
            /\ file' = [file EXCEPT ![p] = i]
    /\ stage' = [stage EXCEPT ![p] = "opened"]
    /\ UNCHANGED flock

\* lock() blocks until no other process holds this inode's lock.
Flock(p) ==
    /\ stage[p] = "opened"
    /\ flock[file[p]] = NoProc
    /\ flock' = [flock EXCEPT ![file[p]] = p]
    /\ stage' = [stage EXCEPT ![p] = "locked"]
    /\ UNCHANGED <<lockName, file>>

\* Mutated form of Held: the granted lock is taken without looking at the name.
HeldUnseen(p) ==
    /\ stage[p] = "locked"
    /\ stage' = [stage EXCEPT ![p] = "holds"]
    /\ UNCHANGED <<lockName, file, flock>>

\* The name leads to the file just locked, so the lock is held.
Held(p) ==
    /\ stage[p] = "locked"
    /\ lockName = file[p]
    /\ stage' = [stage EXCEPT ![p] = "holds"]
    /\ UNCHANGED <<lockName, file, flock>>

\* Mutated form of GoAgain: the file is locked again instead of opened anew.
LockAgain(p) ==
    /\ stage[p] = "locked"
    /\ lockName # file[p]
    /\ flock' = [flock EXCEPT ![file[p]] = NoProc]
    /\ stage' = [stage EXCEPT ![p] = "opened"]
    /\ UNCHANGED <<lockName, file>>

\* The name leads to another file or to none: drop this one and go again.
GoAgain(p) ==
    /\ stage[p] = "locked"
    /\ lockName # file[p]
    /\ Close(p)
    /\ stage' = [stage EXCEPT ![p] = "asking"]
    /\ UNCHANGED lockName

\* Looking where the name leads fails: the run goes round although the name may
\* lead to the file it has locked.
LookFails(p) ==
    /\ stage[p] = "locked"
    /\ Close(p)
    /\ stage' = [stage EXCEPT ![p] = "asking"]
    /\ UNCHANGED lockName

\* An error of open, of lock or of asking which file is held ends hold().
Refuse(p) ==
    /\ stage[p] \in {"asking", "opened", "locked"}
    /\ Close(p)
    /\ stage' = [stage EXCEPT ![p] = "refused"]
    /\ UNCHANGED lockName

\* Mutated form of Remove: the lock is released before its name is removed.
ReleaseFirst(p) ==
    \/ /\ stage[p] = "holds" /\ flock[file[p]] = p
       /\ flock' = [flock EXCEPT ![file[p]] = NoProc]
       /\ UNCHANGED <<lockName, file, stage>>
    \/ /\ stage[p] = "holds" /\ flock[file[p]] # p
       /\ lockName' = NoInode
       /\ stage' = [stage EXCEPT ![p] = "removed"]
       /\ UNCHANGED <<file, flock>>

\* drop(), first half: the name is removed, whatever file it leads to by now.
Remove(p) ==
    /\ stage[p] = "holds"
    /\ lockName' = NoInode
    /\ stage' = [stage EXCEPT ![p] = "removed"]
    /\ UNCHANGED <<file, flock>>

\* The removal's error is ignored: the file stays for the next holder.
RemoveFails(p) ==
    /\ stage[p] = "holds"
    /\ stage' = [stage EXCEPT ![p] = "removed"]
    /\ UNCHANGED <<lockName, file, flock>>

\* drop(), second half: the lock is released and the file closed.
Unlock(p) ==
    /\ stage[p] = "removed"
    /\ Close(p)
    /\ stage' = [stage EXCEPT ![p] = "released"]
    /\ UNCHANGED lockName

\* A killed process's file is closed for it; the name of its lock file stays.
Die(p) ==
    /\ stage[p] \notin {"released", "refused", "dead"}
    /\ Close(p)
    /\ stage' = [stage EXCEPT ![p] = "dead"]
    /\ UNCHANGED lockName

Acquire(p) == Open(p) \/ Flock(p) \/ Held(p) \/ GoAgain(p) \/ LookFails(p)

Release(p) == Remove(p) \/ RemoveFails(p) \/ Unlock(p)

LockNext == \E p \in Procs : Acquire(p) \/ Refuse(p) \/ Release(p) \/ Die(p)

LockSpec == LockInit /\ [][LockNext]_lockVars

\* A process that is not killed goes on with its own next call, and looking
\* where the name leads does not fail for ever.
LockFairness ==
    \A p \in Procs :
      WF_lockVars(Acquire(p)) /\ SF_lockVars(Held(p)) /\ WF_lockVars(Release(p))

FairLockSpec == LockSpec /\ LockFairness

-----------------------------------------------------------------------------
(* Properties *)

(***************************************************************************)
(* "One writer at a time per path" (lock.rs:1): at most one run holds the  *)
(* lock, though lock files are removed and made anew around the holders.   *)
(***************************************************************************)
Exclusion ==
    \A p, q \in Procs : stage[p] = "holds" /\ stage[q] = "holds" => p = q

\* Strengthening: each stage's claim on the lock file, its lock and its name.
OpensAFile ==
    \A p \in Procs :
      stage[p] \in {"opened", "locked", "holds", "removed"} => file[p] \in Inodes

LocksItsFile ==
    \A p \in Procs : stage[p] \in {"locked", "holds", "removed"} => flock[file[p]] = p

HoldsTheName == \A p \in Procs : stage[p] = "holds" => lockName = file[p]

(***************************************************************************)
(* The inductive invariant: from the grant to the release a run has locked *)
(* the file it opened, and while it holds, that file has the name.         *)
(***************************************************************************)
LockInv == LockTypeOK /\ OpensAFile /\ LocksItsFile /\ HoldsTheName

(***************************************************************************)
(* drop() removes a file by its name: it is always the lock file this      *)
(* holder has locked, never one that another run made and waits on.        *)
(***************************************************************************)
RemovesItsOwnFile ==
    [][\A p \in Procs :
         stage[p] = "holds" /\ stage'[p] = "removed"
           => lockName = file[p] /\ flock[file[p]] = p]_lockVars

(***************************************************************************)
(* No run waits for ever: each is granted the lock, refused it or killed,  *)
(* although a granted lock may be that of a file whose name is gone.       *)
(***************************************************************************)
EveryoneServed ==
    \A p \in Procs : stage[p] = "opened" ~> stage[p] \in {"holds", "refused", "dead"}

=============================================================================
