------------------------------ MODULE Spawner -------------------------------
(***************************************************************************)
(* One supervised spawn (spawner/src/main.rs): the helper forks, the child *)
(* sets up its stdio, confines itself and executes the target, and the     *)
(* supervisor reports the target's pid and wait status down a pipe.  Its   *)
(* partner is the application's side (supervised_spawn.dart,               *)
(* status_channel.dart, read_loop.dart), which hands over the pipe ends,   *)
(* writes the grant program and reads the frames and the output.           *)
(* The fds handed over are above 2 (_destsAbove), and 0 to 2 are open.     *)
(***************************************************************************)
EXTENDS Naturals, Sequences

CONSTANTS Pieces,       \* pieces of the grant program
          PipeRoom,     \* pieces a pipe holds
          FrameBytes,   \* bytes of a frame (4 in the code)
          WaitMayFail   \* whether waitpid can fail for good (SIGCHLD ignored)

ASSUME SpawnerAssumption ==
    /\ Pieces \in Nat \ {0} /\ PipeRoom \in Nat \ {0} /\ FrameBytes \in Nat \ {0}
    /\ WaitMayFail \in BOOLEAN

VARIABLES
    mode, confined,     \* what the helper was asked for
    sup,                \* where the helper, later the supervisor, is
    kid,                \* where the child, later the target, is
    fds,                \* what each process's file descriptors lead to
    leader,             \* whether the child leads a session of its own
    terminal,           \* what the child did with its terminal
    read, jail,         \* pieces the child has read; the pieces it is confined by
    ended,              \* the child's wait status once it has ended
    reaped,             \* whether the supervisor has waited for it
    toSend, sending,    \* bytes left of the current frame, and its value
    statusPipe,         \* bytes in the status pipe
    grantPipe           \* pieces in the confine pipe

helperVars == <<mode, confined, sup, kid, fds, leader, terminal, read, jail, ended,
                reaped, toSend, sending>>

VARIABLES
    app,                \* where the application is
    appFds,             \* the ends it has open
    given,              \* pieces it has written
    received,           \* status bytes its reader isolate has read
    outcome,            \* the outcome it has been told
    eof,                \* the outputs whose end it has seen
    failed,             \* what it could not read: "status" and outputs
    missed              \* whether a kill found nobody while the target lived

appVars == <<app, appFds, given, received, outcome, eof, failed, missed>>
pipeVars == <<statusPipe, grantPipe>>
vars == <<helperVars, pipeVars, appVars>>

-----------------------------------------------------------------------------
Nobody == "none"
Stdio == {"0", "1", "2"}
Originals == {"in", "out", "err"}
FdNames == Stdio \cup Originals \cup {"status", "confine", "slave"}
Processes == {"sup", "kid", "descendant"}

Closed == [f \in FdNames |-> Nobody]

\* The ends the helper starts with; the slave is opened by the child.
Handed(m, c) ==
    [f \in FdNames |->
        CASE f \in Stdio -> "vm"
          [] f = "status" -> "statusWrite"
          [] f = "confine" -> IF c THEN "grantRead" ELSE Nobody
          [] f = "in" -> IF m = "piped" THEN "inRead" ELSE Nobody
          [] f = "out" -> IF m = "piped" THEN "outWrite" ELSE Nobody
          [] f = "err" -> IF m = "piped" THEN "errWrite" ELSE Nobody
          [] f = "slave" -> Nobody]

HandedEnds(m, c) ==
    {"statusWrite"} \cup (IF c THEN {"grantRead"} ELSE {})
      \cup (IF m = "piped" THEN {"inRead", "outWrite", "errWrite"} ELSE {})

KeptEnds(m, c) ==
    {"statusRead"} \cup (IF c THEN {"grantWrite"} ELSE {})
      \cup (IF m = "piped" THEN {"inWrite", "outRead", "errRead"} ELSE {"master", "tty"})

\* Whether any process still has this end open.
IsOpen(end) == end \in appFds \/ \E p \in Processes, f \in FdNames : fds[p][f] = end

Init ==
    /\ mode \in {"terminal", "piped"} /\ confined \in BOOLEAN
    /\ sup = "fork" /\ kid = "unborn"
    /\ fds = [p \in Processes |-> IF p = "sup" THEN Handed(mode, confined) ELSE Closed]
    /\ leader = FALSE /\ terminal = "none" /\ read = 0 /\ jail = 0
    /\ ended = Nobody /\ reaped = FALSE
    /\ toSend = FrameBytes /\ sending = "pid"
    /\ statusPipe = <<>> /\ grantPipe = 0
    /\ app = "handing"
    /\ appFds = HandedEnds(mode, confined) \cup KeptEnds(mode, confined)
    /\ given = 0 /\ received = <<>> /\ outcome = "none" /\ eof = {}
    /\ failed = {} /\ missed = FALSE

-----------------------------------------------------------------------------
(* The helper, after fork the supervisor. *)

CloseFds(p, names) == [fds EXCEPT ![p] = [f \in FdNames |-> IF f \in names THEN Nobody ELSE @[f]]]

\* fork: the child starts with a copy of every descriptor.
Fork ==
    /\ sup = "fork"
    /\ \/ /\ fds' = [fds EXCEPT !["kid"] = fds["sup"]]
          /\ sup' = "closeConfine" /\ kid' = "closeStatus"
       \/ \* fork fails: the helper exits without a frame.
          /\ fds' = [fds EXCEPT !["sup"] = Closed]
          /\ sup' = "exited" /\ UNCHANGED kid
    /\ UNCHANGED <<mode, confined, leader, terminal, read, jail, ended, reaped, toSend,
                   sending, pipeVars, appVars>>

SupStep(from, to) == sup = from /\ sup' = to

SupFrame == <<mode, confined, kid, leader, terminal, read, jail, ended, appVars, grantPipe>>

\* The child owns the confine program; the supervisor never reads it.
CloseConfine ==
    /\ SupStep("closeConfine", "closePipes")
    /\ fds' = CloseFds("sup", {"confine"})
    /\ UNCHANGED <<SupFrame, reaped, toSend, sending, statusPipe>>

\* Without these the outputs would not end with the target.
ClosePipes ==
    /\ SupStep("closePipes", "frame")
    /\ fds' = CloseFds("sup", Originals)
    /\ UNCHANGED <<SupFrame, reaped, toSend, sending, statusPipe>>

AfterFrame == IF sending = "pid" THEN "wait" ELSE "close"

\* write_frame: bytes go one short write after another.  Without a reader
\* the rest of the frame is given up, silently.
WriteFrame ==
    /\ sup = "frame"
    /\ IF "statusRead" \in appFds
       THEN /\ statusPipe' = Append(statusPipe, sending)
            /\ toSend' = toSend - 1
            /\ sup' = IF toSend = 1 THEN AfterFrame ELSE "frame"
       ELSE sup' = AfterFrame /\ UNCHANGED <<statusPipe, toSend>>
    /\ UNCHANGED <<SupFrame, fds, reaped, sending>>

\* Mutated form of Wait: the status is sent without waiting for the target.
WaitNot ==
    /\ SupStep("wait", "frame")
    /\ sending' = "exit 0"
    /\ UNCHANGED reaped
    /\ toSend' = FrameBytes
    /\ UNCHANGED <<SupFrame, fds, statusPipe>>

\* waitpid: EINTR is retried; any other error leaves the status zero.
Wait ==
    /\ SupStep("wait", "frame")
    /\ \/ kid = "ended" /\ sending' = ended
       \/ WaitMayFail /\ kid = "ended" /\ sending' = "exit 0"
    /\ reaped' = TRUE
    /\ toSend' = FrameBytes
    /\ UNCHANGED <<SupFrame, fds, statusPipe>>

SupExit ==
    /\ SupStep("close", "exited")
    /\ fds' = [fds EXCEPT !["sup"] = Closed]
    /\ UNCHANGED <<SupFrame, reaped, toSend, sending, statusPipe>>

\* The supervisor is killed before it is done; init reaps the child.
SupDies ==
    /\ sup \notin {"exited", "killed"}
    /\ sup' = "killed"
    /\ fds' = [fds EXCEPT !["sup"] = Closed]
    /\ UNCHANGED <<SupFrame, reaped, toSend, sending, statusPipe>>

-----------------------------------------------------------------------------
(* The child. *)

KidFrame == <<mode, confined, sup, reaped, toSend, sending, appVars>>

\* _exit, or the death of the target: every descriptor is closed.
KidEnds(status) ==
    /\ kid' = "ended"
    /\ ended' = status
    /\ fds' = [fds EXCEPT !["kid"] = Closed]
    /\ UNCHANGED <<KidFrame, pipeVars, leader, terminal, read, jail>>

KidStep(from, to) == kid = from /\ kid' = to

AfterStdio == IF confined THEN "readGrants" ELSE "exec"

\* Mutated form of CloseStatus: the child keeps the status pipe.
KeepStatus ==
    KidStep("closeStatus", "setsid")
    /\ UNCHANGED <<KidFrame, pipeVars, fds, leader, terminal, read, jail, ended>>

CloseStatus ==
    /\ KidStep("closeStatus", "setsid")
    /\ fds' = CloseFds("kid", {"status"})
    /\ UNCHANGED <<KidFrame, pipeVars, leader, terminal, read, jail, ended>>

Setsid ==
    \/ /\ KidStep("setsid", IF mode = "terminal" THEN "openSlave" ELSE "dupPipes")
       /\ leader' = TRUE
       /\ UNCHANGED <<KidFrame, pipeVars, fds, terminal, read, jail, ended>>
    \/ kid = "setsid" /\ KidEnds("setsid failed")

OpenSlave ==
    \/ /\ KidStep("openSlave", "claimTerminal")
       /\ "master" \in appFds
       /\ fds' = [fds EXCEPT !["kid"]["slave"] = "tty"]
       /\ UNCHANGED <<KidFrame, pipeVars, leader, terminal, read, jail, ended>>
    \/ kid = "openSlave" /\ KidEnds("open slave failed")

\* TIOCSCTTY, for a session leader.
ClaimTerminal ==
    \/ /\ KidStep("claimTerminal", "cook")
       /\ leader
       /\ terminal' = "claimed"
       /\ UNCHANGED <<KidFrame, pipeVars, fds, leader, read, jail, ended>>
    \/ kid = "claimTerminal" /\ KidEnds("claim failed")

\* set_sane_termios: what an earlier tenant left in the terminal is undone.
Cook ==
    \/ /\ KidStep("cook", "dupSlave")
       /\ terminal' = "claimed and cooked"
       /\ UNCHANGED <<KidFrame, pipeVars, fds, leader, read, jail, ended>>
    \/ kid = "cook" /\ KidEnds("termios failed")

\* The slave on 0, 1 and 2, and its own descriptor dropped.
DupSlave ==
    \/ /\ KidStep("dupSlave", AfterStdio)
       /\ fds' = [fds EXCEPT !["kid"] =
                    [f \in FdNames |-> IF f \in Stdio THEN @["slave"]
                                       ELSE IF f = "slave" THEN Nobody ELSE @[f]]]
       /\ UNCHANGED <<KidFrame, pipeVars, leader, terminal, read, jail, ended>>
    \/ kid = "dupSlave" /\ KidEnds("dup2 failed")

\* setup_piped: the three ends on 0, 1 and 2, and the originals dropped.
DupPipes ==
    \/ /\ KidStep("dupPipes", AfterStdio)
       /\ fds' = [fds EXCEPT !["kid"] =
                    [f \in FdNames |-> CASE f = "0" -> @["in"] [] f = "1" -> @["out"]
                                         [] f = "2" -> @["err"]
                                         [] f \in Originals -> Nobody [] OTHER -> @[f]]]
       /\ UNCHANGED <<KidFrame, pipeVars, leader, terminal, read, jail, ended>>
    \/ kid = "dupPipes" /\ KidEnds("dup2 failed")

\* read_all: pieces until the application has closed its end.
ReadGrants ==
    \/ /\ kid = "readGrants" /\ grantPipe > 0
       /\ read' = read + 1 /\ grantPipe' = grantPipe - 1
       /\ UNCHANGED <<KidFrame, kid, fds, statusPipe, leader, terminal, jail, ended>>
    \/ /\ KidStep("readGrants", "confine")
       /\ grantPipe = 0 /\ "grantWrite" \notin appFds
       /\ fds' = CloseFds("kid", {"confine"})
       /\ UNCHANGED <<KidFrame, pipeVars, leader, terminal, read, jail, ended>>
    \/ kid = "readGrants" /\ KidEnds("unconfined")

\* Mutated form of Confine: a program that cannot be applied is passed over.
ConfineOrNot ==
    /\ KidStep("confine", "exec")
    /\ jail' \in {0, read}
    /\ UNCHANGED <<KidFrame, pipeVars, fds, leader, terminal, read, ended>>

\* confine: the program needs its magic, which is in the first piece, and
\* must be applied; anything else ends the child.
Confine ==
    \/ /\ KidStep("confine", "exec")
       /\ read > 0
       /\ jail' = read
       /\ UNCHANGED <<KidFrame, pipeVars, fds, leader, terminal, read, ended>>
    \/ kid = "confine" /\ KidEnds("unconfined")

Exec ==
    \/ /\ KidStep("exec", "target")
       /\ UNCHANGED <<KidFrame, pipeVars, fds, leader, terminal, read, jail, ended>>
    \/ kid = "exec" /\ KidEnds("exec failed")

\* What the target may do: leave a descendant with its stdio, and end.
TargetForks ==
    /\ kid = "target" /\ fds["descendant"] = Closed
    /\ fds' = [fds EXCEPT !["descendant"] = fds["kid"]]
    /\ UNCHANGED <<KidFrame, pipeVars, kid, leader, terminal, read, jail, ended>>

TargetEnds == kid = "target" /\ \E s \in {"exit 0", "exit 1"} : KidEnds(s)

DescendantEnds ==
    /\ fds["descendant"] # Closed
    /\ fds' = [fds EXCEPT !["descendant"] = Closed]
    /\ UNCHANGED <<KidFrame, pipeVars, kid, leader, terminal, read, jail, ended>>

-----------------------------------------------------------------------------
(* The application. *)

\* Mutated form of HandOver: the application keeps its copies of the ends.
HandOverKept ==
    /\ app = "handing"
    /\ app' = IF confined THEN "writing" ELSE "open"
    /\ UNCHANGED <<helperVars, pipeVars, appFds, given, received, outcome, eof, failed, missed>>

\* The ends handed over are closed once posix_spawn has returned.
HandOver ==
    /\ app = "handing"
    /\ app' = IF confined THEN "writing" ELSE "open"
    /\ appFds' = appFds \ HandedEnds(mode, confined)
    /\ UNCHANGED <<helperVars, pipeVars, given, received, outcome, eof, failed, missed>>

\* _writeAll, blocking while the pipe is full and somebody can read it.
WriteGrants ==
    /\ app = "writing"
    /\ given < Pieces /\ grantPipe < PipeRoom /\ IsOpen("grantRead")
    /\ grantPipe' = grantPipe + 1 /\ given' = given + 1
    /\ UNCHANGED <<helperVars, statusPipe, app, appFds, received, outcome, eof, failed, missed>>

\* Mutated form of StopWriting: the write end is not closed.
StopWritingOpen ==
    /\ app = "writing"
    /\ given = Pieces \/ ~IsOpen("grantRead")
    /\ app' = "open"
    /\ UNCHANGED <<helperVars, pipeVars, appFds, given, received, outcome, eof, failed, missed>>

\* All is written, or nobody is left to read it: the write end is closed.
StopWriting ==
    /\ app = "writing"
    /\ given = Pieces \/ ~IsOpen("grantRead")
    /\ app' = "open"
    /\ appFds' = appFds \ {"grantWrite"}
    /\ UNCHANGED <<helperVars, pipeVars, given, received, outcome, eof, failed, missed>>

\* A write fails for another reason: what is written is the whole program.
GiveUpWriting ==
    /\ app = "writing" /\ given < Pieces
    /\ app' = "open"
    /\ appFds' = appFds \ {"grantWrite"}
    /\ UNCHANGED <<helperVars, pipeVars, given, received, outcome, eof, failed, missed>>

\* The outcome is told; a terminal's slave is closed with it.
Told(result) ==
    /\ outcome' = result
    /\ appFds' = appFds \ {"tty"}

\* The reader isolate: a byte, or the end of the pipe before the last one.
ReadStatus ==
    /\ app = "open" /\ outcome = "none"
    /\ \/ /\ statusPipe # <<>>
          /\ statusPipe' = Tail(statusPipe)
          /\ received' = Append(received, Head(statusPipe))
          /\ IF Len(received) + 1 = 2 * FrameBytes
             THEN Told(Head(statusPipe))
             ELSE UNCHANGED <<outcome, appFds>>
       \/ /\ statusPipe = <<>> /\ ~IsOpen("statusWrite")
          /\ Told("lost")
          /\ UNCHANGED <<statusPipe, received>>
    /\ UNCHANGED <<helperVars, grantPipe, app, given, eof, failed, missed>>

\* A read that fails, if only because a signal came, is not tried again: the
\* supervisor is told lost while it may be alive.
ReadStatusFails ==
    /\ app = "open" /\ outcome = "none"
    /\ Told("lost")
    /\ failed' = failed \cup {"status"}
    /\ UNCHANGED <<helperVars, pipeVars, app, given, received, eof, missed>>

WriterOf(output) ==
    CASE output = "master" -> "tty" [] output = "outRead" -> "outWrite"
      [] output = "errRead" -> "errWrite"

Outputs == IF mode = "terminal" THEN {"master"} ELSE {"outRead", "errRead"}

\* A read loop sees the end of its output.
ReadEof ==
    /\ app = "open"
    /\ \E o \in Outputs \ eof : ~IsOpen(WriterOf(o)) /\ eof' = eof \cup {o}
    /\ UNCHANGED <<helperVars, pipeVars, app, appFds, given, received, outcome, failed, missed>>

\* A read that fails ends the output as the end of its pipe does.
ReadOutputFails ==
    /\ app = "open"
    /\ \E o \in Outputs \ eof : eof' = eof \cup {o} /\ failed' = failed \cup {o}
    /\ UNCHANGED <<helperVars, pipeVars, app, appFds, given, received, outcome, missed>>

KnowsPid == Len(received) >= FrameBytes

GroupExists ==
    /\ leader
    /\ \/ kid # "ended" \/ ~reaped
       \/ fds["descendant"] # Closed

\* kill: a signal to the group the target leads, or nobody to signal.
Kill ==
    /\ app = "open" /\ KnowsPid
    /\ IF GroupExists
       THEN /\ kid' = "ended"
            /\ ended' = IF kid = "ended" THEN ended ELSE "killed"
            /\ fds' = [fds EXCEPT !["kid"] = Closed, !["descendant"] = Closed]
            /\ UNCHANGED missed
       ELSE /\ missed' = (missed \/ kid # "ended")
            /\ UNCHANGED <<kid, ended, fds>>
    /\ UNCHANGED <<mode, confined, sup, leader, terminal, read, jail, reaped, toSend,
                   sending, pipeVars, app, appFds, given, received, outcome, eof, failed>>

\* close: every end is closed, and a pending outcome is told as lost.
Close ==
    /\ app = "open"
    /\ app' = "closed"
    /\ appFds' = {}
    /\ outcome' = IF outcome = "none" THEN "lost" ELSE outcome
    /\ UNCHANGED <<helperVars, pipeVars, given, received, eof, failed, missed>>

-----------------------------------------------------------------------------
SupNext ==
    \/ Fork \/ CloseConfine \/ ClosePipes \/ WriteFrame \/ Wait \/ SupExit

KidSetup ==
    \/ CloseStatus \/ Setsid \/ OpenSlave \/ ClaimTerminal \/ Cook \/ DupSlave
    \/ DupPipes \/ ReadGrants \/ Confine \/ Exec

TargetNext == TargetForks \/ TargetEnds \/ DescendantEnds

AppReads == ReadStatus \/ ReadStatusFails \/ ReadEof \/ ReadOutputFails

AppNext ==
    \/ HandOver \/ WriteGrants \/ StopWriting \/ GiveUpWriting \/ AppReads \/ Kill \/ Close

Next == SupNext \/ SupDies \/ KidSetup \/ TargetNext \/ AppNext

Spec == Init /\ [][Next]_vars

\* A read that blocks need not fail.
KidGoesOn == KidSetup /\ (kid = "readGrants" => kid' # "ended")

\* Each process goes on with its next call while that can return; the target
\* need not end, the supervisor need not die, no read need fail and nobody
\* need close.
Fairness ==
    /\ WF_vars(SupNext) /\ WF_vars(KidGoesOn) /\ WF_vars(HandOver)
    /\ WF_vars(WriteGrants) /\ WF_vars(StopWriting)
    /\ WF_vars(ReadStatus) /\ WF_vars(ReadEof)

FairSpec == Spec /\ Fairness

-----------------------------------------------------------------------------
(* Properties *)

Ends == {Nobody, "vm", "statusWrite", "grantRead", "inRead", "outWrite", "errWrite", "tty"}

KidStages ==
    {"unborn", "closeStatus", "setsid", "openSlave", "claimTerminal", "cook", "dupSlave",
     "dupPipes", "readGrants", "confine", "exec", "target", "ended"}

TypeOK ==
    /\ mode \in {"terminal", "piped"} /\ confined \in BOOLEAN
    /\ kid \in KidStages
    /\ fds \in [Processes -> [FdNames -> Ends]]
    /\ read \in Nat /\ jail \in Nat

\* The child's descriptors once its stdio is set up.
Wired(c) ==
    [f \in FdNames |->
        CASE f \in Stdio -> IF mode = "terminal" THEN "tty" ELSE Handed(mode, c)[
                              CASE f = "0" -> "in" [] f = "1" -> "out" [] f = "2" -> "err"]
          [] f = "confine" -> IF c THEN "grantRead" ELSE Nobody
          [] OTHER -> Nobody]

\* What each stage of the child has left open.
KidFds ==
    /\ sup = "fork" => fds["sup"] = Handed(mode, confined) /\ kid = "unborn"
    /\ kid = "closeStatus" => fds["kid"] = Handed(mode, confined)
    /\ kid \in {"setsid", "openSlave", "dupPipes"} =>
         fds["kid"] = [Handed(mode, confined) EXCEPT !["status"] = Nobody]
    /\ kid \in {"claimTerminal", "cook", "dupSlave"} =>
         fds["kid"] = [Handed(mode, confined) EXCEPT !["status"] = Nobody, !["slave"] = "tty"]
    /\ kid = "readGrants" => fds["kid"] = Wired(TRUE)
    /\ kid \in {"confine", "exec", "target"} => fds["kid"] = Wired(FALSE)

KidSetUp ==
    /\ kid \in {"openSlave", "claimTerminal", "cook", "dupSlave"} => mode = "terminal"
    /\ kid = "dupPipes" => mode = "piped"
    /\ kid = "unborn" => ~leader
    /\ kid \notin {"unborn", "closeStatus", "setsid", "ended"} => leader
    /\ kid \in {"dupSlave", "readGrants", "confine", "exec", "target"} /\ mode = "terminal" =>
         terminal = "claimed and cooked"

KidConfined == kid \in {"exec", "target"} /\ confined => jail > 0

(***************************************************************************)
(* The inductive invariant of the child: what is open, set up and applied  *)
(* at each stage between fork and exec.                                    *)
(***************************************************************************)
KidInv == TypeOK /\ KidFds /\ KidSetUp /\ KidConfined

(***************************************************************************)
(* "the target inherits only stdin/stdout/stderr" (main.rs:268): when it   *)
(* runs, the ends of its mode are on 0, 1 and 2 and nothing else is open,  *)
(* neither the status pipe nor the grant program nor the originals; a      *)
(* terminal is its controlling terminal, in cooked mode.                   *)
(***************************************************************************)
TargetHasStdioOnly ==
    kid = "target" =>
      /\ leader
      /\ fds["kid"] = [f \in FdNames |->
           IF f \notin Stdio THEN Nobody
           ELSE IF mode = "terminal" THEN "tty"
           ELSE CASE f = "0" -> "inRead" [] f = "1" -> "outWrite" [] f = "2" -> "errWrite"]
      /\ mode = "terminal" => terminal = "claimed and cooked"

(***************************************************************************)
(* "A confinement request that cannot be honoured must never degrade into  *)
(* an unconfined exec" (main.rs:40): wherever the program's writing or     *)
(* reading stops, the target runs confined or not at all.                  *)
(***************************************************************************)
FailsClosed == kid = "target" /\ confined => jail > 0

(***************************************************************************)
(* The status the application is told is the one the target ended with     *)
(* (zero where the supervisor could not wait for it), and it hears that    *)
(* the supervisor is lost only when that is so (fork failed, or it was     *)
(* killed) or when the application closed the pipe or failed to read it.   *)
(***************************************************************************)
ExitIsTheTargets ==
    outcome \notin {"none", "lost"} =>
      kid = "ended" /\ (outcome = ended \/ (WaitMayFail /\ outcome = "exit 0"))

LostIsLost ==
    outcome = "lost" =>
      \/ app = "closed" \/ "status" \in failed
      \/ sup = "killed" \/ (sup = "exited" /\ kid = "unborn")

OutcomeIsTrue == ExitIsTheTargets /\ LostIsLost

(***************************************************************************)
(* status_channel.dart:23-25: "The status pipe hit EOF (or errored) [...]  *)
(* the supervisor died without reporting".                                 *)
(***************************************************************************)
LostIsDead == outcome = "lost" /\ app # "closed" => sup \in {"exited", "killed"}

(***************************************************************************)
(* status_channel.dart:12: "Both frames arrived: the target's pid and its  *)
(* raw `waitpid` status."                                                  *)
(***************************************************************************)
StatusIsTheTargets == outcome \notin {"none", "lost"} => outcome = ended

(***************************************************************************)
(* No output that can be read ends before the child is done with its       *)
(* stdio: pipes have a writer until then, and the application keeps a      *)
(* terminal's slave open until it is told the outcome (supervised_spawn's  *)
(* "avoids racing the child's open").                                      *)
(***************************************************************************)
NoEarlyEnd ==
    eof \ failed # {} =>
      kid \in {"unborn", "ended"} \/ (mode = "terminal" /\ outcome = "lost")

(***************************************************************************)
(* read_loop.dart:13-15: the stream "closes when `read` returns 0 (EOF,    *)
(* meaning the child closed its stdout)".                                  *)
(***************************************************************************)
EndIsTheChilds == eof # {} => kid \in {"unborn", "ended"} \/ outcome = "lost"

\* Strengthening: why the frames tell the truth.
SupStages == {"fork", "closeConfine", "closePipes", "frame", "wait", "close", "exited", "killed"}

EndStatuses ==
    {"exit 0", "exit 1", "killed", "setsid failed", "open slave failed", "claim failed",
     "termios failed", "dup2 failed", "unconfined", "exec failed"}

StatusTypeOK ==
    /\ sup \in SupStages
    /\ kid = "ended" => ended \in EndStatuses
    /\ sending \in {"pid"} \cup EndStatuses
    /\ toSend \in 0..FrameBytes
    /\ statusPipe \in Seq({"pid"} \cup EndStatuses)
    /\ received \in Seq({"pid"} \cup EndStatuses)

IsTheTargets(status) == kid = "ended" /\ (status = ended \/ (WaitMayFail /\ status = "exit 0"))

Sent == Len(received) + Len(statusPipe)

\* While somebody reads, the frames are sent whole and one after the other.
FramesInOrder ==
    /\ sup \in {"fork", "closeConfine", "closePipes"} => sending = "pid" /\ toSend = FrameBytes
    /\ sup = "frame" /\ sending # "pid" => IsTheTargets(sending)
    /\ app # "closed" =>
         /\ sup \in {"fork", "closeConfine", "closePipes"} => Sent = 0
         /\ sup = "frame" =>
              toSend > 0 /\ Sent = (IF sending = "pid" THEN FrameBytes ELSE 2 * FrameBytes) - toSend
         /\ sup = "wait" => Sent = FrameBytes
         /\ sup = "close" \/ (sup = "exited" /\ kid # "unborn") => Sent = 2 * FrameBytes

\* What follows the first frame is the target's status.
SecondFrameIsTrue ==
    \A k \in 1..Len(statusPipe) :
      Len(received) + k > FrameBytes => IsTheTargets(statusPipe[k])

\* The supervisor keeps its end to the last, the application the slave.
EndsKept ==
    /\ "statusRead" \in appFds <=> app # "closed"
    /\ sup \notin {"exited", "killed"} => fds["sup"]["status"] = "statusWrite"
    /\ sup = "fork" => eof \ failed = {} \/ (mode = "terminal" /\ outcome = "lost")
    /\ app # "closed" /\ outcome = "none" =>
         /\ Len(received) < 2 * FrameBytes
         /\ mode = "terminal" => "tty" \in appFds

(***************************************************************************)
(* The inductive invariant of the status pipe, beside that of the child.   *)
(***************************************************************************)
StatusInv ==
    /\ KidInv
    /\ StatusTypeOK
    /\ FramesInOrder
    /\ SecondFrameIsTrue
    /\ EndsKept
    /\ OutcomeIsTrue
    /\ NoEarlyEnd

(***************************************************************************)
(* posix_running_process.dart:83: kill "Returns `false` if there was no    *)
(* live target to signal".                                                 *)
(***************************************************************************)
KillFindsTheTarget == ~missed

(***************************************************************************)
(* The application learns the outcome of every spawn whose target ends or  *)
(* whose supervisor does, whatever descendants keep open.                  *)
(***************************************************************************)
OutcomeComes ==
    (kid = "ended" \/ sup \in {"exited", "killed"}) ~> (outcome # "none")

(***************************************************************************)
(* An output that can be read does not end early, and once the target and  *)
(* its descendants are gone every output ends.                             *)
(***************************************************************************)
OutputsEnd ==
    /\ []NoEarlyEnd
    /\ (kid = "ended" /\ fds["descendant"] = Closed) ~> (eof = Outputs \/ app = "closed")

(***************************************************************************)
(* Nobody waits for ever over the grant program, however large: the        *)
(* application's blocking write returns, and the child executes or exits.  *)
(***************************************************************************)
SpawnCompletes ==
    /\ app = "writing" ~> app # "writing"
    /\ kid \in {"closeStatus", "readGrants"} ~> kid \in {"target", "ended"}

=============================================================================
