---------------------------- MODULE AgentSession ----------------------------
(***************************************************************************)
(* The primary AgentSession with what it drives and what drives it: the    *)
(* turn machinery and the TurnProjector, its PendingToolCalls, the remote  *)
(* agent it runs (RemoteAgent), the buffer that turns the reports of       *)
(* background jobs into turns of their own (ReportDelivery), the           *)
(* repository's swaps of the session and of its history, and, as their     *)
(* environment, the user, the network and the tool calls' work.            *)
(*                                                                         *)
(* Every action is one handler of the event loop, with all it calls.       *)
(***************************************************************************)
EXTENDS RemoteAgent, ReportDelivery

CONSTANTS Unknown,     \* the calls that name no tool
          MaxSubmits,  \* bounds the turns the user starts
          MaxDetaches, \* bounds the reloads of the provider
          MaxSwaps     \* bounds the clears, loads and rewinds

ASSUME SessionAssumption ==
  /\ Unknown \subseteq Calls
  /\ Reports = Calls
  /\ {MaxSubmits, MaxDetaches, MaxSwaps, MaxFolds} \subseteq Nat

VARIABLES
  live,          \* the primary session is live, not a placeholder
  active,        \* _projector.active
  mirror,        \* _projector.turnEntries
  folds,         \* _turnCompactions
  turnJobs,      \* _turnJobs
  pendingCancel, \* _pendingCancel # null
  history,       \* the entries of _journal
  conv,          \* which conversation the journal holds
  answers,       \* the keys of _tools._answers
  open,          \* the keys of _tools._live
  join,          \* the calls _submitTools waits for, in order; <<>> for none
  request,       \* each call's ToolCallRequest: how it is settled
  work,          \* what the work behind each call is doing
  swap,          \* a swap of the history under way
  submits, detaches, swaps  \* counted for the bounds

turnVars    == <<active, mirror, folds, turnJobs, pendingCancel>>
historyVars == <<history, conv>>
holderVars  == <<answers, open, join, request>>
toolVars    == <<holderVars, work>>
countVars   == <<submits, detaches, swaps>>
userVars    == <<swap, countVars>>
sessionVars == <<live, turnVars, historyVars, toolVars, userVars>>
vars        == <<sessionVars, agentVars, loopVars, deliveryVars>>

UserEntry       == [kind |-> "user"]
ReportEntry(rs) == [kind |-> "report", reports |-> rs]
JobEntry(c)     == [kind |-> "job", call |-> c]

Requests == {"none", "live", "done", "failed", "handle", "lost"}
Works    == {"none", "running", "background", "over", "reported"}

Idled           == Task("idled", <<>>)
Ran(ok, from)   == Task("ran", [ok |-> ok, from |-> from])
Resume(g, from) == Task("resume", [goal |-> g, from |-> from])
Resolved(ok)    == Task("resolved", ok)
Joined(results) == Task("joined", results)

(* The result of a begun turn, for whoever began it. *)
Tell(from, ok) == IF from = "delivery" THEN <<Resolved(ok)>> ELSE <<>>

-----------------------------------------------------------------------------
(* PendingToolCalls.                                                       *)

(* start(): a call that names no tool is answered at once.                 *)
StartCall(c) ==
  IF c \in answers THEN UNCHANGED toolVars
  ELSE /\ answers' = answers \cup {c}
       /\ IF c \in Unknown
          THEN request' = [request EXCEPT ![c] = "failed"] /\ UNCHANGED <<open, work>>
          ELSE /\ open' = open \cup {c}
               /\ request' = [request EXCEPT ![c] = "live"]
               /\ work' = [work EXCEPT ![c] = "running"]
       /\ UNCHANGED join

(* _abandonAll: what has no answer yet is answered as interrupted.         *)
Abandoned(asked) == [c \in Calls |-> IF c \in asked THEN "lost" ELSE request[c]]

Answered(rq, calls) == \A c \in ToSet(calls) : rq[c] \notin {"none", "live"}

(* Mutated form of JoinTasks: answers are looked at only when the join     *)
(* begins.                                                                 *)
JoinTasksOnce(rq) == <<>>

(* A join whose last answer came in resolves with the answers in order.    *)
JoinTasks(rq) ==
  IF join # <<>> /\ Answered(rq, join)
  THEN <<Joined([i \in DOMAIN join |-> AnswerEntry(join[i], rq[join[i]])])>>
  ELSE <<>>

JoinLeft(rq) == IF Answered(rq, join) THEN <<>> ELSE join

-----------------------------------------------------------------------------
(* The end of a turn.                                                      *)

(* The calls that some entry answers.                                      *)
AnsweredIn(entries) ==
  {entries[i].call : i \in {j \in DOMAIN entries : IsKind("answer", entries[j])}}

(* reconcileInterruptedToolCalls. *)
Reconciled(entries) ==
  LET Missing(calls) ==
        FlattenSeq([k \in DOMAIN calls |->
          IF calls[k] \in AnsweredIn(entries) THEN <<>>
          ELSE <<AnswerEntry(calls[k], "interrupted")>>])
  IN  entries \o FlattenSeq([i \in DOMAIN entries |->
                   IF IsKind("model", entries[i]) THEN Missing(entries[i].calls) ELSE <<>>])

(***************************************************************************)
(* _projectTurn: a summary is kept as the record of the fold it closed, a  *)
(* backgrounded job follows the answer to its call, and what found no      *)
(* place trails.                                                           *)
(***************************************************************************)
Projected(entries, jobs, trailing) ==
  LET Fold(i) == CountOf("summary", SubSeq(entries, 1, i))
      Rows(i) ==
        CASE IsKind("summary", entries[i]) ->
               IF Fold(i) <= folds THEN <<SummaryEntry>> ELSE <<>>
          [] IsKind("answer", entries[i]) ->
               IF entries[i].call \in ToSet(jobs)
               THEN <<entries[i], JobEntry(entries[i].call)>> ELSE <<entries[i]>>
          [] OTHER -> <<entries[i]>>
      Late(c) == IF c \in AnsweredIn(entries) THEN <<>> ELSE <<JobEntry(c)>>
      extra == IF trailing /\ folds > Fold(Len(entries))
               THEN folds - Fold(Len(entries)) ELSE 0
  IN  FlattenSeq([i \in DOMAIN entries |-> Rows(i)])
        \o [i \in 1..extra |-> SummaryEntry]
        \o FlattenSeq([i \in DOMAIN jobs |-> Late(jobs[i])])

(* _commit of what the turn mirrored. *)
Commit(entries, cancelled) ==
  /\ history' = history \o Projected(Reconciled(entries), turnJobs, ~cancelled)
  /\ turnJobs' = <<>>
  /\ UNCHANGED conv

(***************************************************************************)
(* _finishTurn over the mirror as the handler left it.  The turn's join    *)
(* resolves with nothing when _turnCancelled completes.                    *)
(***************************************************************************)
FinishTurn(entries, cancelled, events, after) ==
  /\ active' = FALSE
  /\ mirror' = entries
  /\ Commit(entries, cancelled)
  /\ IF cancelled
     THEN request' = Abandoned(open) /\ open' = {}
     ELSE UNCHANGED <<request, open>>
  /\ join' = <<>>
  /\ UNCHANGED <<folds, answers, work>>
  /\ After(<<>>, events, after \o (IF join # <<>> THEN <<Joined(<<>>)>> ELSE <<>>)
                              \o <<Idled>>)

-----------------------------------------------------------------------------
(* The start of a turn.                                                    *)

(***************************************************************************)
(* _runTurn from where no cancellation is pending, up to the answer of     *)
(* run(); `before` are tasks the handler left earlier.  A turn that starts *)
(* takes the chat out of the picking of a message to rewind to.            *)
(***************************************************************************)
StartRun(g, from, before) ==
  /\ active' = TRUE
  /\ mirror' = <<>> /\ folds' = 0
  /\ answers' = {}
  /\ pendingCancel' = FALSE
  /\ swap' = IF swap = "picking" THEN "none" ELSE swap
  /\ UNCHANGED <<turnJobs, open, join, request>>
  /\ IF CanRun
     THEN \E fold \in BOOLEAN :
            /\ AgentRun(g, fold)
            /\ After(before, RunEvents(fold), <<Ran(TRUE, from)>>)
     ELSE UNCHANGED agentVars /\ After(before, <<>>, <<Ran(FALSE, from)>>)

(* _runTurn: waits first for a cancellation that was just issued.          *)
RunTurn(g, from, before) ==
  IF pendingCancel
  THEN /\ pendingCancel' = FALSE
       /\ After(before, <<>>, <<Resume(g, from)>>)
       /\ UNCHANGED <<active, mirror, folds, turnJobs, swap, holderVars, agentVars>>
  ELSE StartRun(g, from, before)

(* The rest of _runTurn after the wait. *)
Resumed ==
  /\ At("resume")
  /\ StartRun(Arg.goal, Arg.from, <<>>)
  /\ UNCHANGED <<live, historyVars, work, countVars, deliveryVars>>

(* The rest of _runTurn after run() has answered; _rejectTurn.             *)
RunAnswered ==
  /\ At("ran")
  /\ UNCHANGED <<live, conv, userVars, agentVars, deliveryVars>>
  /\ IF Arg.ok
     THEN /\ After(<<>>, <<>>, Tell(Arg.from, TRUE))
          /\ UNCHANGED <<turnVars, history, toolVars>>
     ELSE /\ active' = FALSE
          /\ history' = history \o [i \in DOMAIN turnJobs |-> JobEntry(turnJobs[i])]
          /\ turnJobs' = <<>>
          /\ join' = <<>>
          /\ After(<<>>, <<>>, (IF join # <<>> THEN <<Joined(<<>>)>> ELSE <<>>)
                                \o <<Idled>> \o Tell(Arg.from, FALSE))
          /\ UNCHANGED <<mirror, folds, pendingCancel, answers, open, request, work>>

(***************************************************************************)
(* beginDeliveryTurn, called when the buffer enters its delivering state,  *)
(* on a session that can run turns or on a placeholder.                    *)
(***************************************************************************)
BeginDeliveryTurn(canRun, reports) ==
  IF canRun /\ ~active
  THEN /\ history' = Append(history, ReportEntry(reports))
       /\ UNCHANGED conv
       /\ RunTurn("respond", "delivery", <<Idled>>)
  ELSE /\ After(<<>>, <<>>, <<Resolved(FALSE)>>)
       /\ UNCHANGED <<turnVars, historyVars, holderVars, swap, agentVars>>

(* The buffer took an input; onEnter of its delivering state runs the turn. *)
Deliver(canRun) ==
  IF TurnDispatched
  THEN BeginDeliveryTurn(canRun, inFlight')
  ELSE /\ After(<<>>, <<>>, <<>>)
       /\ UNCHANGED <<turnVars, historyVars, holderVars, swap, agentVars>>

(* The repository's listener passes an idle state on to the buffer. *)
IdleSeen ==
  /\ At("idled")
  /\ AgentIdled
  /\ Deliver(live)
  /\ UNCHANGED <<live, work, countVars>>

(* The delivery turn's result comes back to the buffer. *)
DeliveryAnswered ==
  /\ At("resolved")
  /\ DeliveryResolved(Arg)
  /\ After(<<>>, <<>>, <<>>)
  /\ UNCHANGED <<sessionVars, agentVars>>

-----------------------------------------------------------------------------
(* The user.                                                               *)

(* submit() of the chat use case and beginTurn. *)
Submit ==
  /\ AtRest /\ live /\ ~active
  /\ swap # "picking"
  /\ submits < MaxSubmits /\ submits' = submits + 1
  /\ history' = Append(history, UserEntry)
  /\ RunTurn("respond", "user", <<Idled>>)
  /\ UNCHANGED <<live, conv, work, detaches, swaps, deliveryVars>>

(* Entries that are part of the transcript rather than rows for the user.  *)
Transcript(entries) == SelectSeq(entries, LAMBDA e : ~IsKind("job", e))

(* compact() of the chat use case and beginCompactionTurn. *)
Compact ==
  /\ AtRest /\ live /\ ~active
  /\ MaxFolds > 0
  /\ Transcript(history) # <<>> /\ Foldable(Transcript(history))
  /\ submits < MaxSubmits /\ submits' = submits + 1
  /\ RunTurn("compact", "user", <<>>)
  /\ UNCHANGED <<live, historyVars, work, detaches, swaps, deliveryVars>>

(* Mutated form of Cancel: the runtime is not told. *)
CancelSessionOnly ==
  /\ AtRest /\ live /\ active
  /\ UNCHANGED agentVars
  /\ pendingCancel' = TRUE
  /\ FinishTurn(mirror, TRUE, <<>>, <<>>)
  /\ UNCHANGED <<live, userVars, deliveryVars>>

(* cancel(). *)
Cancel ==
  /\ AtRest /\ live /\ active
  /\ AgentCancel
  /\ pendingCancel' = TRUE
  /\ FinishTurn(mirror, TRUE, CancelEvents, CancelTasks)
  /\ UNCHANGED <<live, userVars, deliveryVars>>

-----------------------------------------------------------------------------
(* _onEvent: one event of the runtime, one handler each.                   *)

Ev    == Head(inbox)[1]
EvArg == Head(inbox)[2]
Delivered(name) == At("deliver") /\ active /\ Ev = name

(* An event that finds no turn is ignored. *)
EventIgnored ==
  /\ At("deliver") /\ ~active
  /\ After(<<>>, <<>>, <<>>)
  /\ UNCHANGED <<sessionVars, agentVars, deliveryVars>>

(* AgentStarted and AgentUpdated bring the transcript itself. *)
OnTranscript ==
  /\ Delivered("started") \/ Delivered("updated")
  /\ mirror' = EvArg
  /\ After(<<>>, <<>>, <<>>)
  /\ UNCHANGED <<live, active, folds, turnJobs, pendingCancel, historyVars, toolVars,
                 userVars, agentVars, deliveryVars>>

(* AgentToolCallEmitted: the block joins its entry, and the call starts.   *)
OnCall ==
  /\ Delivered("call")
  /\ LET i == EvArg.id
     IN  mirror' = IF i \in DOMAIN mirror
                   THEN [mirror EXCEPT ![i].calls = Append(@, EvArg.call)]
                   ELSE Append(mirror, ModelEntry(i, <<EvArg.call>>))
  /\ StartCall(EvArg.call)
  /\ After(<<>>, <<>>, <<>>)
  /\ UNCHANGED <<live, active, folds, turnJobs, pendingCancel, historyVars, userVars,
                 agentVars, deliveryVars>>

(* Mutated form of OnNeedsResults: the answers there are go out at once.   *)
OnNeedsResultsUnjoined ==
  LET i     == EvArg.id
      calls == EvArg.calls
      ready == SelectSeq(calls, LAMBDA c : request[c] \notin {"none", "live"})
  IN  /\ Delivered("needs results")
      /\ mirror' = IF i \in DOMAIN mirror THEN [mirror EXCEPT ![i] = EvArg]
                   ELSE Append(mirror, EvArg)
      /\ After(<<>>, <<>>, <<Joined([n \in DOMAIN ready |->
                                AnswerEntry(ready[n], request[ready[n]])])>>)
      /\ UNCHANGED <<live, active, folds, turnJobs, pendingCancel, historyVars, answers,
                     open, join, request, work, userVars, agentVars, deliveryVars>>

(* Mutated form of OnNeedsResults: what is answered already is not noticed. *)
OnNeedsResultsLate ==
  LET i     == EvArg.id
      calls == EvArg.calls
  IN  /\ Delivered("needs results")
      /\ mirror' = IF i \in DOMAIN mirror THEN [mirror EXCEPT ![i] = EvArg]
                   ELSE Append(mirror, EvArg)
      /\ join' = IF ToSet(calls) \subseteq answers THEN calls ELSE join
      /\ After(<<>>, <<>>, <<>>)
      /\ UNCHANGED <<live, active, folds, turnJobs, pendingCancel, historyVars, answers,
                     open, request, work, userVars, agentVars, deliveryVars>>

(***************************************************************************)
(* AgentNeedsToolResults: the entry is put in its place and the calls are  *)
(* joined.  A call the holder has no answer for makes join throw, and      *)
(* nothing is ever submitted.                                              *)
(***************************************************************************)
OnNeedsResults ==
  LET i     == EvArg.id
      calls == EvArg.calls
  IN  /\ Delivered("needs results")
      /\ mirror' = IF i \in DOMAIN mirror THEN [mirror EXCEPT ![i] = EvArg]
                   ELSE Append(mirror, EvArg)
      /\ \/ /\ ~(ToSet(calls) \subseteq answers)
            /\ UNCHANGED join /\ After(<<>>, <<>>, <<>>)
         \/ /\ ToSet(calls) \subseteq answers /\ Answered(request, calls)
            /\ UNCHANGED join
            /\ After(<<>>, <<>>, <<Joined([n \in DOMAIN calls |->
                                  AnswerEntry(calls[n], request[calls[n]])])>>)
         \/ /\ ToSet(calls) \subseteq answers /\ ~Answered(request, calls)
            /\ join' = calls /\ After(<<>>, <<>>, <<>>)
      /\ UNCHANGED <<live, active, folds, turnJobs, pendingCancel, historyVars, answers,
                     open, request, work, userVars, agentVars, deliveryVars>>

(* The rest of _submitTools: the answers go to the turn that is running.   *)
ResultsJoined ==
  /\ At("joined")
  /\ IF live /\ active /\ MaySubmit("tools")
     THEN \E fold \in BOOLEAN :
            /\ AgentTakesResults(Arg, fold)
            /\ After(<<>>, ResultEvents(Arg, fold), <<>>)
     ELSE UNCHANGED agentVars /\ After(<<>>, <<>>, <<>>)
  /\ UNCHANGED <<sessionVars, deliveryVars>>

(* AgentNeedsCompactionPrompt: submitted at once. *)
OnNeedsPrompt ==
  /\ Delivered("needs prompt")
  /\ IF MaySubmit("prompt") THEN AgentTakesPrompt ELSE UNCHANGED agentVars
  /\ After(<<>>, <<>>, <<>>)
  /\ UNCHANGED <<sessionVars, deliveryVars>>

(* AgentCompactionCompleted, when it succeeded. *)
OnFolded ==
  /\ Delivered("folded")
  /\ folds' = folds + 1
  /\ After(<<>>, <<>>, <<>>)
  /\ UNCHANGED <<live, active, mirror, turnJobs, pendingCancel, historyVars, toolVars,
                 userVars, agentVars, deliveryVars>>

(* AgentToolResponseApplied. *)
OnAnswer ==
  /\ Delivered("answer")
  /\ mirror' = Append(mirror, EvArg)
  /\ After(<<>>, <<>>, <<>>)
  /\ UNCHANGED <<live, active, folds, turnJobs, pendingCancel, historyVars, toolVars,
                 userVars, agentVars, deliveryVars>>

(* AgentCompleted, AgentCancelled and AgentFailed end the turn.            *)
OnEnd ==
  /\ \/ Delivered("completed") /\ FinishTurn(EvArg, FALSE, <<>>, <<>>)
     \/ Delivered("cancelled") /\ FinishTurn(EvArg, TRUE, <<>>, <<>>)
     \/ Delivered("failed") /\ FinishTurn(mirror, FALSE, <<>>, <<>>)
  /\ UNCHANGED <<live, pendingCancel, userVars, agentVars, deliveryVars>>

-----------------------------------------------------------------------------
(* The work behind the calls, as the tool system answers for it.           *)

(* Mutated form of NoteBackgrounded: a job that finds no turn gets no row. *)
NoteInTurnOnly(c) ==
  /\ turnJobs' = IF live /\ active THEN Append(turnJobs, c) ELSE turnJobs
  /\ UNCHANGED history

(* noteBackgrounded: the row waits for the turn in flight, if there is one. *)
NoteBackgrounded(c) ==
  IF live /\ active
  THEN turnJobs' = Append(turnJobs, c) /\ UNCHANGED history
  ELSE history' = Append(history, JobEntry(c)) /\ UNCHANGED turnJobs

(* A request that is still live is settled; any other keeps its answer.    *)
Settle(c, how) ==
  LET rq == IF request[c] = "live" THEN [request EXCEPT ![c] = how] ELSE request
  IN  /\ request' = rq
      /\ open' = open \ {c}
      /\ join' = JoinLeft(rq)
      /\ After(<<>>, <<>>, JoinTasks(rq))

(* The work ends in the foreground, or is stopped with its call lost.      *)
WorkEnds(c) ==
  /\ AtRest /\ work[c] = "running"
  /\ work' = [work EXCEPT ![c] = "over"]
  /\ Settle(c, "done")
  /\ UNCHANGED <<live, turnVars, historyVars, answers, userVars, agentVars, deliveryVars>>

(* The work is handed to the background, which may overtake its call's loss. *)
WorkHandedOff(c) ==
  /\ AtRest /\ work[c] = "running"
  /\ work' = [work EXCEPT ![c] = "background"]
  /\ Settle(c, "handle")
  /\ NoteBackgrounded(c)
  /\ UNCHANGED <<live, active, mirror, folds, pendingCancel, conv, answers, userVars,
                 agentVars, deliveryVars>>

(* Background work ends; deliverReport hands its report to the buffer.     *)
BackgroundEnds(c) ==
  /\ AtRest /\ work[c] = "background"
  /\ work' = [work EXCEPT ![c] = "reported"]
  /\ ReportSettled(c)
  /\ Deliver(live)
  /\ UNCHANGED <<live, countVars>>

-----------------------------------------------------------------------------
(* The repository: the provider comes and goes, the history is swapped.    *)

(* bindProvider with a provider: the live session takes the placeholder's place. *)
Attach ==
  /\ AtRest /\ ~live
  /\ live' = TRUE
  /\ AgentBound
  /\ Deliver(TRUE)
  /\ UNCHANGED <<work, countVars>>

(* The fields of a session as its constructor leaves them. *)
FreshSession ==
  /\ active' = FALSE /\ mirror' = <<>> /\ folds' = 0
  /\ turnJobs' = <<>> /\ pendingCancel' = FALSE
  /\ answers' = {} /\ open' = {} /\ join' = <<>>

(***************************************************************************)
(* bindProvider(null): dispose of the live session commits the turn in     *)
(* flight and abandons its calls, a placeholder takes over the journal and *)
(* is bound to the buffer, and the provider with its agent is gone.        *)
(***************************************************************************)
Detach ==
  /\ AtRest /\ live
  /\ detaches < MaxDetaches /\ detaches' = detaches + 1
  /\ live' = FALSE
  /\ request' = Abandoned(open)
  /\ history' = IF active
                THEN history \o Projected(Reconciled(mirror), turnJobs, FALSE)
                ELSE history
  /\ FreshSession
  /\ turn' = 0 /\ phase' = "over" /\ said' = <<>> /\ step' = <<>>
  /\ AgentBound
  /\ inbox' = <<>>
  /\ micro' = IF TurnDispatched THEN <<Resolved(FALSE)>> ELSE <<>>
  /\ swap' = IF swap = "picking" THEN "none" ELSE swap
  /\ UNCHANGED <<goal, conv, work, submits, swaps>>

(* Mutated form of LoadJournal: the turn's mirror goes too. *)
LoadJournalAndMirror(entries, id) ==
  /\ history' = entries
  /\ conv' = id
  /\ mirror' = <<>>
  /\ request' = Abandoned(open)
  /\ answers' = {} /\ open' = {}
  /\ join' = JoinLeft(request')
  /\ After(<<>>, <<>>, JoinTasks(request') \o (IF active THEN <<>> ELSE <<Idled>>))
  /\ UNCHANGED <<active, folds, turnJobs, pendingCancel, work, live, agentVars,
                 deliveryVars>>

(* loadJournal: the session goes on with another journal and another holder. *)
LoadJournal(entries, id) ==
  /\ history' = entries
  /\ conv' = id
  /\ request' = Abandoned(open)
  /\ answers' = {} /\ open' = {}
  /\ join' = JoinLeft(request')
  /\ After(<<>>, <<>>, JoinTasks(request') \o (IF active THEN <<>> ELSE <<Idled>>))
  /\ UNCHANGED <<turnVars, work, live, agentVars, deliveryVars>>

(* clear(): "Wipe the conversation"; its gate is a loaded model. *)
Clear ==
  /\ AtRest /\ live
  /\ swaps < MaxSwaps /\ swaps' = swaps + 1
  /\ LoadJournal(<<>>, swaps')
  /\ swap' = IF swap = "picking" THEN "none" ELSE swap
  /\ UNCHANGED <<submits, detaches>>

(* _historySwapGate, passed when a load or a rewind is asked for. *)
BeginSwap ==
  /\ AtRest /\ live /\ ~active
  /\ swap = "none"
  /\ swaps < MaxSwaps /\ swaps' = swaps + 1
  /\ swap' \in {"loading", "picking"}
  /\ After(<<>>, <<>>, <<>>)
  /\ UNCHANGED <<live, turnVars, historyVars, toolVars, submits, detaches, agentVars,
                 deliveryVars>>

(* load() when the file has been read: another conversation, or none. *)
Loaded ==
  /\ AtRest /\ swap = "loading"
  /\ swap' = "none"
  /\ \/ LoadJournal(<<UserEntry>>, swaps)
     \/ /\ After(<<>>, <<>>, <<>>)
        /\ UNCHANGED <<live, turnVars, historyVars, toolVars, agentVars, deliveryVars>>
  /\ UNCHANGED <<submits, detaches, swaps>>

(* Mutated form of Rewound: to an entry of any kind. *)
RewoundAnywhere ==
  /\ AtRest /\ swap = "picking"
  /\ swap' = "none"
  /\ \E i \in DOMAIN history :
       LoadJournal(SubSeq(history, 1, i - 1), IF i = 1 THEN swaps ELSE conv)
  /\ UNCHANGED <<submits, detaches, swaps>>

(* rewindTo a message of the user's, or the pick is given up. *)
Rewound ==
  /\ AtRest /\ swap = "picking"
  /\ swap' = "none"
  /\ \/ \E i \in DOMAIN history :
          /\ IsKind("user", history[i])
          /\ LoadJournal(SubSeq(history, 1, i - 1), IF i = 1 THEN swaps ELSE conv)
     \/ /\ After(<<>>, <<>>, <<>>)
        /\ UNCHANGED <<live, turnVars, historyVars, toolVars, agentVars, deliveryVars>>
  /\ UNCHANGED <<submits, detaches, swaps>>

-----------------------------------------------------------------------------
Init ==
  /\ AgentInit /\ LoopInit
  /\ deliver = "idle" /\ pending = <<>> /\ inFlight = <<>> /\ bound = TRUE
  /\ live = FALSE
  /\ active = FALSE /\ mirror = <<>> /\ folds = 0
  /\ turnJobs = <<>> /\ pendingCancel = FALSE
  /\ history = <<>> /\ conv = 0
  /\ answers = {} /\ open = {} /\ join = <<>>
  /\ request = [c \in Calls |-> "none"]
  /\ work = [c \in Calls |-> "none"]
  /\ swap = "none" /\ submits = 0 /\ detaches = 0 /\ swaps = 0

Asked == {c \in Calls : request[c] # "none"} \cup ToSet(step)

Network ==
  /\ \/ \E c \in Calls \ Asked : StreamCall(c)
     \/ StreamEnd \/ StreamFail \/ SummaryEnd
  /\ UNCHANGED <<sessionVars, deliveryVars>>

Microtask ==
  \/ Hop /\ UNCHANGED <<sessionVars, agentVars, deliveryVars>>
  \/ Tear /\ UNCHANGED <<sessionVars, deliveryVars>>
  \/ Resumed \/ RunAnswered \/ IdleSeen \/ DeliveryAnswered \/ ResultsJoined
  \/ EventIgnored \/ OnTranscript \/ OnCall \/ OnNeedsResults \/ OnNeedsPrompt
  \/ OnFolded \/ OnAnswer \/ OnEnd

User == Submit \/ Compact \/ Cancel \/ Clear \/ BeginSwap \/ Loaded \/ Rewound

Work(c) == WorkEnds(c) \/ WorkHandedOff(c) \/ BackgroundEnds(c)

Next ==
  \/ Microtask \/ User \/ Network \/ Attach \/ Detach
  \/ \E c \in Calls : Work(c)

Spec == Init /\ [][Next]_vars

(***************************************************************************)
(* Fairness.  The loop runs what is queued; a stream ends or fails; a      *)
(* tool's work ends or is handed off; background work ends; the provider   *)
(* becomes ready.  The user has to do nothing.                             *)
(***************************************************************************)
Fairness ==
  /\ WF_vars(Microtask)
  /\ WF_vars((StreamEnd \/ StreamFail \/ SummaryEnd) /\ UNCHANGED <<sessionVars, deliveryVars>>)
  /\ WF_vars(Attach)
  /\ \A c \in Calls : WF_vars(WorkEnds(c) \/ WorkHandedOff(c)) /\ WF_vars(BackgroundEnds(c))

FairSpec == Spec /\ Fairness

-----------------------------------------------------------------------------
(* Types, and a buffer whose state says what it holds.                     *)
TypeOK ==
  /\ turn \in 0..2 /\ phase \in Phases /\ goal \in Goals
  /\ DeliveryTypeOK
  /\ ToSet(step) \cup ToSet(turnJobs) \subseteq Calls
  /\ live \in BOOLEAN /\ active \in BOOLEAN /\ pendingCancel \in BOOLEAN
  /\ request \in [Calls -> Requests] /\ work \in [Calls -> Works]
  /\ open \subseteq Calls /\ answers \subseteq Calls /\ ToSet(join) \subseteq Calls
  /\ conv \in 0..MaxSwaps /\ folds \in 0..MaxFolds
  /\ swap \in {"none", "loading", "picking"}

(* Every call an entry makes is answered exactly once, after the entry and *)
(* before anything else is said; nothing else is answered.                 *)
WellFormed(entries) ==
  LET Asks(i, c)    == IsKind("model", entries[i]) /\ c \in ToSet(entries[i].calls)
      Replies(j, c) == IsKind("answer", entries[j]) /\ entries[j].call = c
      Aside(k)      == IsKind("answer", entries[k]) \/ IsKind("job", entries[k])
  IN  \A c \in Calls :
        /\ \A i \in DOMAIN entries : Asks(i, c) =>
             Cardinality({j \in DOMAIN entries : Replies(j, c)}) = 1
        /\ \A j \in DOMAIN entries : Replies(j, c) =>
             \E i \in 1..(j - 1) : Asks(i, c) /\ \A k \in (i + 1)..(j - 1) : Aside(k)

(***************************************************************************)
(* What is committed to the journal is well formed, however the turn ended *)
(* that produced it: completed, cancelled with answers on their way, failed *)
(* in the middle of a step, or cut off by a dispose, a clear or a rewind.  *)
(* _commit and reconcileInterruptedToolCalls.                              *)
(***************************************************************************)
HistoryWellFormed == WellFormed(history)

(***************************************************************************)
(* The runtime never asks the model for more while a call of this turn has *)
(* no answer, or has two: answers of an earlier turn, and of a step that   *)
(* was cancelled, never get into its transcript.  submitToolResults.       *)
(***************************************************************************)
SentIsAnswered == IsRunning /\ phase # "tools" => WellFormed(said)

(***************************************************************************)
(* Once the loop is at rest the session and the runtime agree on whether a *)
(* turn runs, whatever was cancelled and started again in between, and no  *)
(* turn is left waiting for a compaction prompt that was dropped.          *)
(* _runTurn, cancel, _onEvent and _scheduleTeardown.                       *)
(***************************************************************************)
RuntimeIsDriven ==
  AtRest => /\ IsRunning <=> active
            /\ IsRunning => phase # "prompt"

(***************************************************************************)
(* A runtime that waits for tool results has a session that is joining the *)
(* calls of that very step, at least one of them unanswered: the barrier   *)
(* never misses an answer and never outlives its turn.  _submitTools and   *)
(* PendingToolCalls.join.                                                  *)
(***************************************************************************)
ToolsAwaited ==
  AtRest /\ IsRunning /\ phase = "tools" =>
    join = Last(said).calls /\ ~Answered(request, join)

(***************************************************************************)
(* Once the loop is at rest, the entries the projector has put together    *)
(* from the events are those of the runtime's own transcript, the step in  *)
(* progress included, and the session has counted its folds.               *)
(***************************************************************************)
MirrorFollowsRuntime ==
  AtRest /\ active =>
    /\ mirror = said \o Partial
    /\ folds = CountOf("summary", said)

HandedReports ==
  FlattenSeq([i \in DOMAIN history |->
    IF IsKind("report", history[i]) THEN history[i].reports ELSE <<>>])

WaitingReports ==
  IF ToSet(inFlight) \subseteq ToSet(HandedReports) THEN pending ELSE inFlight \o pending

Mailbox == INSTANCE ReportMailbox WITH waiting <- WaitingReports, handed <- HandedReports

(***************************************************************************)
(* The reports in the primary's history are those of the settled jobs,     *)
(* each once and in the order they settled; the others wait.  A delivery   *)
(* refused by a busy session or by a placeholder loses and repeats none,   *)
(* and an entry is only written when the turn does take place              *)
(* ("Guard first - no orphan entry" in beginDeliveryTurn).                 *)
(***************************************************************************)
MailboxImplemented == Mailbox!MailboxSpec

Occurs(c, s) == Cardinality({i \in DOMAIN s : s[i] = c})
RowsOf(c) ==
  Cardinality({i \in DOMAIN history : IsKind("job", history[i]) /\ history[i].call = c})

(***************************************************************************)
(* A job that went to the background has exactly one row, in the history   *)
(* or waiting for the turn in flight to end, whether its call was answered *)
(* in time, lost to a cancel or left behind by a failed turn.              *)
(* noteBackgrounded, _takeJobsAnsweredBy and _clearTurnScratch.            *)
(***************************************************************************)
JobRowsKept ==
  \A c \in Calls : Occurs(c, turnJobs) + RowsOf(c)
                    = IF work[c] \in {"background", "reported"} THEN 1 ELSE 0

(* Every turn comes to an end, the user doing nothing.                     *)
TurnEnds == active ~> ~active

(***************************************************************************)
(* The report of a settled background job gets into the conversation       *)
(* whatever the session was doing when it settled: no idle edge that the   *)
(* buffer waits for is one it has already let pass.                        *)
(***************************************************************************)
ReportArrives == \A c \in Calls : work[c] = "reported" ~> c \in ToSet(HandedReports)

-----------------------------------------------------------------------------
(* What the code or its documentation says, and the program does not do.   *)

(***************************************************************************)
(* "join before start: every tool call must be started by its stream       *)
(* delta", PendingToolCalls.join asserts of the calls it is given.         *)
(***************************************************************************)
JoinAfterStart ==
  Delivered("needs results") => ToSet(EvArg.calls) \subseteq answers

(***************************************************************************)
(* The gate that a load passes refuses with "turn in progress": no saved   *)
(* conversation takes the place of one that is in the middle of a turn.    *)
(***************************************************************************)
LoadOutsideTurn == [][swap = "loading" /\ conv' # conv => ~active]_vars

(***************************************************************************)
(* A call the history records as interrupted is not one whose work was     *)
(* left to run on, still wanted or with a handle given out.                *)
(***************************************************************************)
InterruptedMeansStopped ==
  \A i \in DOMAIN history :
    IsKind("answer", history[i]) /\ history[i].how = "interrupted" =>
      request[history[i].call] \notin {"live", "handle"}
=============================================================================
