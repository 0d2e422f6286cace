------------------------------ MODULE EditFile ------------------------------
(***************************************************************************)
(* The runs of bestie_edit that edit or create one path (main.rs, edit.rs, *)
(* create.rs, disk.rs), each under the path's lock (EditLock): one action  *)
(* per call that other runs, a kill or a power failure can come between.   *)
(* Only runs of the program change the path.  A text is how often each     *)
(* token occurs in it; EditText has the characters.                        *)
(***************************************************************************)
EXTENDS EditLock, Naturals

CONSTANTS Tokens,
          Pids,         \* process ids, given again once their process is gone
          PidOf,        \* the id each run gets
          Requests,     \* what a run may be asked
          FirstTargets, \* what the path may lead to at first
          Modes, DefaultMode, ReadOnlyMode,
          Torn          \* a text cut short

\* What the path leads to at first has long been on disk.
ASSUME EditAssumption ==
    /\ Procs # {}
    /\ PidOf \in [Procs -> Pids]
    /\ {DefaultMode, ReadOnlyMode} \subseteq Modes
    /\ \A t \in FirstTargets : t.kind = "text" => t.synced

VARIABLES
    request,    \* what each run is asked
    step,       \* the call each run makes next
    verdict,    \* the reply each run has settled on
    draft,      \* the file each run is about to write
    target,     \* what the path leads to
    saved,      \* what the path leads to on disk
    temp,       \* the file at each process id's temporary name
    parents,    \* whether the path's directory exists
    failed      \* the looks and removals of runs whose errors were ignored

diskVars == <<target, saved, temp, parents>>
runVars == <<request, step, verdict, draft>>
vars == <<lockVars, diskVars, runVars, failed>>

Missing == [kind |-> "missing"]
Nothing == [kind |-> "nothing"]
Undecided == "undecided"

\* The file of one inode.  The mode of a file not yet given one is its own.
Text(text, mode, synced) ==
    [kind |-> "text", text |-> text, mode |-> mode, synced |-> synced]

Running(p) == step[p] \notin {"idle", "replied", "died"}

Init ==
    /\ LockInit
    /\ request \in [Procs -> Requests]
    /\ step = [p \in Procs |-> "idle"]
    /\ verdict = [p \in Procs |-> Undecided]
    /\ draft = [p \in Procs |-> Nothing]
    /\ target \in FirstTargets
    /\ saved = target
    /\ temp = [n \in Pids |-> Nothing]
    /\ parents \in BOOLEAN
    /\ failed = {}
    /\ ~parents => target = Missing /\ lockName = NoInode

-----------------------------------------------------------------------------
Errors == {"notFound", "denied", "other"}

\* Two refusals of the operating system have replies; the rest fail the run.
Refused(error) ==
    CASE error = "notFound" -> "pathMissing"
      [] error = "denied"   -> "denied"
      [] error = "other"    -> "failed"

\* The parents were just made: nothing found is no missing path.
RefusedUnderParents(error) ==
    IF error = "notFound" THEN "failed" ELSE Refused(error)

\* The reply to an error met once the lock is asked for.
RefusedFor(p, error) ==
    IF request[p].action = "edit" THEN Refused(error) ELSE RefusedUnderParents(error)

Goto(p, next) == step' = [step EXCEPT ![p] = next]

Settle(p, reply, next) ==
    /\ verdict' = [verdict EXCEPT ![p] = reply]
    /\ Goto(p, next)

\* main: a request that cannot be honoured as asked never reaches the path.
\* "unreadable" is no JSON request, a relative path or an empty `old`; a path
\* without a file name is missing to edit and exists to create.
Begin(p) ==
    /\ step[p] = "idle"
    /\ \A q \in Procs : Running(q) => PidOf[q] # PidOf[p]
    /\ LET r == request[p] IN
       \/ r.form = "unreadable" /\ Settle(p, "failed", "reply")
       \/ r.form = "nameless" /\ r.action = "edit" /\ Settle(p, "pathMissing", "reply")
       \/ r.form = "nameless" /\ r.action = "create" /\ Settle(p, "pathExists", "reply")
       \/ r.form = "named" /\ r.action = "edit" /\ Goto(p, "hold") /\ UNCHANGED verdict
       \/ r.form = "named" /\ r.action = "create" /\ Goto(p, "parents")
            /\ UNCHANGED verdict
    /\ UNCHANGED <<lockVars, diskVars, failed, request, draft>>

\* create_dir_all, before the lock: directories already there are left alone.
MakeParents(p) ==
    /\ step[p] = "parents"
    /\ \/ /\ parents' = TRUE
          /\ Goto(p, "hold")
          /\ UNCHANGED verdict
       \/ \E e \in Errors :
            Settle(p, Refused(e), "reply") /\ UNCHANGED parents
    /\ UNCHANGED <<lockVars, target, saved, temp, failed, request, draft>>

\* hold(): without the directory there is no lock file to open.
Hold(p) ==
    /\ step[p] = "hold"
    /\ \/ parents /\ (Open(p) \/ Flock(p) \/ GoAgain(p) \/ LookFails(p))
            /\ UNCHANGED <<step, verdict>>
       \/ Held(p) /\ Goto(p, "look") /\ UNCHANGED verdict
       \/ \E e \in Errors :
            /\ ~parents => e = "notFound"
            /\ Refuse(p)
            /\ Settle(p, RefusedFor(p, e), "reply")
    /\ UNCHANGED <<diskVars, failed, request, draft>>

Replaced(text, r) ==
    LET n == IF r.replaceAll THEN text[r.old] ELSE 1
    IN  IF r.old = r.new THEN text
        ELSE [text EXCEPT ![r.old] = @ - n, ![r.new] = @ + n]

Answer(p, reply) == Settle(p, reply, "drop") /\ UNCHANGED draft

Draft(p, file0) ==
    /\ draft' = [draft EXCEPT ![p] = file0]
    /\ Goto(p, "createTemp")
    /\ UNCHANGED verdict

\* edit: what the path leads to, and what its text holds, decides the reply
\* or the file to write, which keeps the permissions of the file it replaces.
LookToEdit(p) ==
    LET r == request[p] IN
    /\ step[p] = "look" /\ r.action = "edit"
    /\ \/ target.kind = "link" /\ Answer(p, "failed")
       \/ target.kind = "missing" /\ Answer(p, Refused("notFound"))
       \/ target.kind = "directory" /\ Answer(p, "isDirectory")
       \/ target.kind = "binary" /\ Answer(p, "notText")
       \/ /\ target.kind = "text"
          /\ LET text == target.text
                 occurrences == text[r.old]
                 edited == Replaced(text, r)
             IN \/ occurrences = 0 /\ Answer(p, "targetMissing")
                \/ occurrences > 1 /\ ~r.replaceAll /\ Answer(p, "ambiguous")
                \/ /\ occurrences = 1 \/ (occurrences > 1 /\ r.replaceAll)
                   /\ \/ edited = text /\ Answer(p, "noChange")
                      \/ edited # text /\ Draft(p, Text(edited, target.mode, FALSE))
       \/ \E e \in Errors : Answer(p, Refused(e))
    /\ UNCHANGED <<lockVars, diskVars, failed, request>>

\* create: only a path that leads to nothing is written, with default permissions.
LookToCreate(p) ==
    LET r == request[p] IN
    /\ step[p] = "look" /\ r.action = "create"
    /\ \/ target # Missing /\ Answer(p, "pathExists")
       \/ target = Missing /\ Draft(p, Text(r.text, DefaultMode, FALSE))
    /\ UNCHANGED <<lockVars, diskVars, failed, request>>

\* Any error of that look counts as nothing there: a confined run may be
\* refused to look at what it may write.
LookFailsToCreate(p) ==
    /\ step[p] = "look" /\ request[p].action = "create"
    /\ Draft(p, Text(request[p].text, DefaultMode, FALSE))
    /\ failed' = failed \cup {<<p, "look">>}
    /\ UNCHANGED <<lockVars, diskVars, request>>

-----------------------------------------------------------------------------
(* write_atomically: a temporary file beside the target, renamed over it. *)

PutTemp(p, t) == temp' = [temp EXCEPT ![PidOf[p]] = t]

\* File::create empties a file that a killed run of the same id left behind,
\* which keeps its permissions; one it may not write is refused.
CreateTemp(p) ==
    LET left == temp[PidOf[p]] IN
    /\ step[p] = "createTemp"
    /\ left # Nothing => left.mode # ReadOnlyMode
    /\ PutTemp(p, Text(Torn, IF left = Nothing THEN DefaultMode ELSE left.mode, FALSE))
    /\ Goto(p, "writeTemp")
    /\ UNCHANGED <<lockVars, target, saved, parents, failed, request, verdict, draft>>

WriteTemp(p) ==
    /\ step[p] = "writeTemp"
    /\ PutTemp(p, [temp[PidOf[p]] EXCEPT !.text = draft[p].text])
    /\ Goto(p, "syncTemp")
    /\ UNCHANGED <<lockVars, target, saved, parents, failed, request, verdict, draft>>

\* Mutated form of SyncTemp: the contents are not forced to the disk.
SyncNothing(p) ==
    /\ step[p] = "syncTemp"
    /\ Goto(p, "setMode")
    /\ UNCHANGED <<lockVars, diskVars, failed, request, verdict, draft>>

SyncTemp(p) ==
    /\ step[p] = "syncTemp"
    /\ PutTemp(p, [temp[PidOf[p]] EXCEPT !.synced = TRUE])
    /\ Goto(p, "setMode")
    /\ UNCHANGED <<lockVars, target, saved, parents, failed, request, verdict, draft>>

\* Mutated form of SetMode: the replacement has the mode it was made with.
SetNoMode(p) ==
    /\ step[p] = "setMode"
    /\ Goto(p, "rename")
    /\ UNCHANGED <<lockVars, diskVars, failed, request, verdict, draft>>

\* Only an edit passes permissions: those of the file it replaces.
SetMode(p) ==
    /\ step[p] = "setMode"
    /\ IF request[p].action = "edit"
       THEN PutTemp(p, [temp[PidOf[p]] EXCEPT !.mode = draft[p].mode])
       ELSE UNCHANGED temp
    /\ Goto(p, "rename")
    /\ UNCHANGED <<lockVars, target, saved, parents, failed, request, verdict, draft>>

\* A file takes the place of anything but a directory.
Rename(p) ==
    /\ step[p] = "rename"
    /\ target.kind # "directory"
    /\ target' = temp[PidOf[p]]
    /\ PutTemp(p, Nothing)
    /\ Settle(p, IF request[p].action = "edit" THEN "succeeded" ELSE "created", "drop")
    /\ draft' = [draft EXCEPT ![p] = Nothing]
    /\ UNCHANGED <<lockVars, saved, parents, failed, request>>

WriteSteps == {"createTemp", "writeTemp", "syncTemp", "setMode", "rename"}

\* Any of these calls may fail; a temporary file this run may not write is
\* one reason.  The target has not been touched.
WriteFails(p) ==
    /\ step[p] \in WriteSteps
    /\ \E e \in Errors : Settle(p, RefusedFor(p, e), "removeTemp")
    /\ draft' = [draft EXCEPT ![p] = Nothing]
    /\ UNCHANGED <<lockVars, diskVars, failed, request>>

\* Mutated form of RemoveTemp: a failed write leaves its temporary file.
KeepTemp(p) ==
    /\ step[p] = "removeTemp"
    /\ Goto(p, "drop")
    /\ UNCHANGED <<lockVars, diskVars, failed, request, verdict, draft>>

\* An error of the removal is ignored.
RemoveTemp(p) ==
    /\ step[p] = "removeTemp"
    /\ \/ PutTemp(p, Nothing) /\ UNCHANGED failed
       \/ /\ temp[PidOf[p]] # Nothing
          /\ failed' = failed \cup {<<p, "removal">>}
          /\ UNCHANGED temp
    /\ Goto(p, "drop")
    /\ UNCHANGED <<lockVars, target, saved, parents, request, verdict, draft>>

-----------------------------------------------------------------------------
\* The lock is dropped on every way out, before the reply is written; an error
\* of removing its file is ignored.
Drop(p) ==
    /\ step[p] = "drop"
    /\ \/ Remove(p) /\ UNCHANGED <<step, failed>>
       \/ RemoveFails(p) /\ failed' = failed \cup {<<p, "removal">>} /\ UNCHANGED step
       \/ Unlock(p) /\ Goto(p, "reply") /\ UNCHANGED failed
    /\ UNCHANGED <<diskVars, request, verdict, draft>>

Reply(p) ==
    /\ step[p] = "reply"
    /\ Goto(p, "replied")
    /\ UNCHANGED <<lockVars, diskVars, failed, request, verdict, draft>>

\* A run is killed between two calls.
Killed(p) ==
    /\ Running(p)
    /\ IF stage[p] \in {"released", "refused"} THEN UNCHANGED lockVars ELSE Die(p)
    /\ Goto(p, "died")
    /\ draft' = [draft EXCEPT ![p] = Nothing]
    /\ UNCHANGED <<diskVars, failed, request, verdict>>

\* The operating system writes the directory to disk in its own time.
Flush == saved' = target /\ UNCHANGED <<lockVars, runVars, target, temp, parents, failed>>

\* A file whose contents were not forced to disk is cut short by a failure.
Damaged(f) == IF f.kind = "text" /\ ~f.synced THEN [f EXCEPT !.text = Torn] ELSE f

\* Every run ends, and the path leads to what was on disk.
PowerFailure ==
    /\ step' = [p \in Procs |-> IF Running(p) THEN "died" ELSE step[p]]
    /\ stage' = [p \in Procs |-> IF file[p] # NoInode THEN "dead" ELSE stage[p]]
    /\ draft' = [p \in Procs |-> Nothing]
    /\ file' = [p \in Procs |-> NoInode]
    /\ flock' = [i \in Inodes |-> NoProc]
    /\ target' = Damaged(saved)
    /\ saved' = Damaged(saved)
    /\ temp' = [n \in Pids |-> IF temp[n] = Nothing THEN Nothing ELSE Damaged(temp[n])]
    /\ UNCHANGED <<lockName, parents, failed, request, verdict>>

Run(p) ==
    \/ Begin(p) \/ MakeParents(p) \/ Hold(p) \/ LookToEdit(p) \/ LookToCreate(p)
    \/ LookFailsToCreate(p)
    \/ CreateTemp(p) \/ WriteTemp(p) \/ SyncTemp(p) \/ SetMode(p) \/ Rename(p)
    \/ WriteFails(p) \/ RemoveTemp(p) \/ Drop(p) \/ Reply(p)

Next == (\E p \in Procs : Run(p) \/ Killed(p)) \/ Flush \/ PowerFailure

Spec == Init /\ [][Next]_vars

\* A call that waits for the lock need not fail.
GoesOn(p) == Run(p) /\ (parents /\ stage'[p] = "refused" => stage[p] = "refused")

\* A run that is not killed makes its next call, and looking where the name of
\* the lock file leads does not fail for ever.
Fairness ==
    \A p \in Procs : WF_vars(GoesOn(p)) /\ SF_vars(Hold(p) /\ stage'[p] = "holds")

FairSpec == Spec /\ Fairness

-----------------------------------------------------------------------------
(* Properties *)

Steps == {"idle", "parents", "hold", "look", "createTemp", "writeTemp", "syncTemp",
          "setMode", "rename", "removeTemp", "drop", "reply", "replied", "died"}

\* From the first look at the path to the rename or the removal after a failure.
Mutating(p) == step[p] \in {"look", "removeTemp"} \cup WriteSteps

(***************************************************************************)
(* "A mutation holds the path's lock from its first read to its final      *)
(* rename" (disk.rs:3), which with the lock's own invariant is inductive.  *)
(***************************************************************************)
HeldThroughout ==
    /\ step \in [Procs -> Steps]
    /\ LockInv
    /\ \A p \in Procs : Mutating(p) => stage[p] = "holds"

(***************************************************************************)
(* "only one writer at a time sees and replaces a file" (disk.rs:4).       *)
(***************************************************************************)
OneWriter == \A p, q \in Procs : Mutating(p) /\ Mutating(q) => p = q

Seen(t) == IF t.kind = "text" THEN [kind |-> "text", text |-> t.text] ELSE [kind |-> t.kind]

Blind(p) == <<p, "look">> \in failed

Promise ==
    INSTANCE AtomicFile WITH content <- Seen(target), saved <- Seen(saved),
                             blind <- {p \in Procs : Blind(p)}

(***************************************************************************)
(* Each request takes effect at one instant or not at all, and its reply   *)
(* says which: no edit is lost to another ("both edits reported success,   *)
(* so both must be in the file", cli.rs), of two creates that can look one *)
(* is told the path exists, and a reader never sees a half-written file    *)
(* (disk.rs).  A create whose look fails replaces what is there, whole.    *)
(***************************************************************************)
RunsAreAtomic == Promise!Spec

(***************************************************************************)
(* create_tool_definitions.dart:11: create "Fails if something already     *)
(* exists at the path".                                                    *)
(***************************************************************************)
CreateReplacesNothing ==
    [][\A p \in Procs :
         step[p] = "rename" /\ verdict'[p] = "created" => target = Missing]_vars

(***************************************************************************)
(* The file keeps its permissions through every edit, whatever mode the    *)
(* temporary file of a killed run had, and a created file has the default, *)
(* unless it took the place of one that could not be looked at.            *)
(***************************************************************************)
ModeKept ==
    [][\A p \in Procs :
         step[p] = "rename" =>
           /\ verdict'[p] = "succeeded" => target'.mode = target.mode
           /\ verdict'[p] = "created" /\ ~(Blind(p) /\ target # Missing) =>
                target'.mode = DefaultMode]_vars

\* A run with a temporary file of its own, or that left one behind.
HasTemp(p) ==
    \/ step[p] \in WriteSteps \cup {"removeTemp", "died"}
    \/ <<p, "removal">> \in failed

TempIsSomeones ==
    \A n \in Pids : temp[n] # Nothing => \E p \in Procs : PidOf[p] = n /\ HasTemp(p)

RemovalsFailed == \E p \in Procs : <<p, "removal">> \in failed

(***************************************************************************)
(* What a run leaves beside the target is left by its being killed or      *)
(* refused to remove it: a temporary file belongs to a run still writing,  *)
(* to one that died or to one whose removal failed, and once every run has *)
(* replied and removed what it made, neither it nor the lock file is there.*)
(***************************************************************************)
LeftByTheDead ==
    /\ TempIsSomeones
    /\ (\A p \in Procs : step[p] = "replied" /\ stage[p] = "released") /\ ~RemovalsFailed
         => lockName = NoInode

\* Strengthening: what EditInv adds to HeldThroughout, and why the requests
\* take effect whole.

\* No reply is settled on before the file is looked at or while it is written.
UndecidedYet ==
    /\ verdict \in [Procs -> {Undecided, "succeeded", "created", "targetMissing", "ambiguous",
                             "noChange", "isDirectory", "notText"} \cup Promise!Refusals]
    /\ \A p \in Procs :
         step[p] \in {"idle", "parents", "hold", "look"} \cup WriteSteps => verdict[p] = Undecided

IsText(f) == f = Text(f.text, f.mode, f.synced)

\* What may be renamed over the path is a text, and what is there is on disk.
FilesAreWhole ==
    /\ temp = [n \in Pids |-> temp[n]] /\ DOMAIN draft = Procs
    /\ \A n \in Pids : temp[n] # Nothing => IsText(temp[n])
    /\ \A f \in {target, saved} : f.kind = "text" => f.synced

\* Only a look that failed is one.
BlindByLooking ==
    \A p \in Procs : step[p] \in {"idle", "parents", "hold", "look"} => ~Blind(p)

\* The draft made at the look is still what the request asks of the path, or
\* what a create writes that could not look.
DraftIsNext ==
    \A p \in Procs : step[p] \in WriteSteps =>
      /\ IsText(draft[p])
      /\ Blind(p) => /\ request[p].action # "edit"
                     /\ Seen(draft[p]) = [kind |-> "text", text |-> request[p].text]
      /\ ~Blind(p) =>
           /\ Seen(draft[p]) = Promise!After(Seen(target), request[p])
           /\ Promise!Outcome(Seen(target), request[p]) =
                IF request[p].action = "edit" THEN "succeeded" ELSE "created"
           /\ request[p].action # "edit" => target = Missing
      /\ request[p].action = "edit" => target.kind = "text" /\ draft[p].mode = target.mode

\* The temporary file becomes the draft call by call.
TempFollowsDraft ==
    \A p \in Procs :
      LET t == temp[PidOf[p]] IN
      /\ step[p] \in {"writeTemp", "syncTemp", "setMode", "rename"} => t # Nothing
      /\ step[p] \in {"syncTemp", "setMode", "rename"} => t.text = draft[p].text
      /\ step[p] \in {"setMode", "rename"} => t.synced
      /\ step[p] = "rename" /\ request[p].action = "edit" => t.mode = draft[p].mode

\* While a failure may still leave nothing there, every file has the mode of a
\* created one: a killed run's temporary file too, which a create may take.
DefaultUntilText ==
    Missing \in {target, saved} =>
      \A f \in {target, saved} \cup {temp[n] : n \in Pids} :
        f.kind = "text" => f.mode = DefaultMode

\* A lock file no run has open was left by one that ended early or could not
\* remove it, unless a run that asks for the lock is yet to open it.
LockFileHasARun ==
    lockName # NoInode =>
      \/ \E p \in Procs : stage[p] \in {"opened", "locked", "holds"} /\ file[p] = lockName
      \/ \E p \in Procs : stage[p] \in {"asking", "refused", "dead"}
      \/ RemovalsFailed

(***************************************************************************)
(* The inductive invariant of the runs.                                    *)
(***************************************************************************)
EditInv ==
    /\ HeldThroughout
    /\ UndecidedYet
    /\ FilesAreWhole
    /\ BlindByLooking
    /\ DraftIsNext
    /\ TempFollowsDraft
    /\ DefaultUntilText
    /\ LockFileHasARun
    /\ TempIsSomeones

(***************************************************************************)
(* Every run that is not killed replies, however the others fare.          *)
(***************************************************************************)
EveryRunReplies ==
    \A p \in Procs : Running(p) ~> step[p] \in {"replied", "died"}

=============================================================================
