---------------------------- MODULE RemoteAgent ----------------------------
(***************************************************************************)
(* One agent of RemoteAgentProvider and its turn, RemoteTurnLogic: stream  *)
(* a step, pause for tool results or a compaction prompt, repeat until the *)
(* model stops calling tools.  The operators here are the halves of        *)
(* handlers: AgentSession composes each with what the session does in the  *)
(* same handler.  Each call of the agent is an async method that awaits    *)
(* nothing before its effects, so the effects are part of the caller's     *)
(* handler and only the result comes later.                                *)
(*                                                                         *)
(* Text is left out: a step is the tool calls it makes, and one that makes *)
(* none is the answer.  How full the context is, is left open: a step may  *)
(* fold first whenever there is something to fold.                         *)
(***************************************************************************)
EXTENDS EventLoop, FiniteSets, SequencesExt

CONSTANTS Calls,     \* names for tool calls; each is made at most once
          MaxFolds   \* bounds the folds of one turn

VARIABLES
  turn,   \* record.turn: 0 for null; the next turn's number differs
  phase,  \* the state of its RemoteTurnLogic, "over" for a terminal one
  goal,   \* data.goal
  said,   \* data.transcript, from where this turn began
  step    \* data.step.toolCalls, in the order they were streamed

agentVars == <<turn, phase, goal, said, step>>

Goals  == {"respond", "compact"}
Phases == {"streaming", "tools", "prompt", "summarizing", "over"}

(* Entries of a transcript.  An entry is found again by its id.            *)
ModelEntry(id, calls) == [kind |-> "model", id |-> id, calls |-> calls]
AnswerEntry(c, how)   == [kind |-> "answer", call |-> c, how |-> how]
SummaryEntry          == [kind |-> "summary"]

IsKind(kind, e) == e.kind = kind
CountOf(kind, entries) == Cardinality({i \in DOMAIN entries : IsKind(kind, entries[i])})

(* Events of the runtime that the session acts on.                         *)
Event(name, arg) == <<name, arg>>

AgentInit ==
  /\ turn = 0 /\ phase = "over" /\ goal = "respond"
  /\ said = <<>> /\ step = <<>>

IsRunning == turn # 0 /\ phase # "over"

(* Transcript.hasFoldableEntries: the last entry is no checkpoint.  A turn *)
(* that answers something begins on what it answers.                       *)
Foldable(entries) == entries # <<>> => ~IsKind("summary", Last(entries))

MayFold(entries) == Foldable(entries) /\ CountOf("summary", entries) < MaxFolds

(* startStep over the entries so far: folds first or streams.              *)
StartStep(entries, fold) ==
  /\ fold => MayFold(entries)
  /\ phase' = IF fold THEN "prompt" ELSE "streaming"
  /\ step' = <<>>

StepEvents(fold) == IF fold THEN <<Event("needs prompt", <<>>)>> ELSE <<>>

(* The step so far, as the entry it would become.                          *)
Partial == IF step = <<>> THEN <<>> ELSE <<ModelEntry(Len(said) + 1, step)>>

Teardown == <<Task("teardown", turn)>>

-----------------------------------------------------------------------------
(* run(), when accepted: _startTurn, with the first input to the turn.     *)
CanRun == ~IsRunning

AgentRun(g, fold) ==
  /\ turn' = IF turn = 1 THEN 2 ELSE 1
  /\ goal' = g
  /\ said' = <<>>
  /\ fold \/ g = "respond"
  /\ StartStep(<<>>, fold)

RunEvents(fold) == <<Event("started", <<>>)>> \o StepEvents(fold)

(* cancel(): what the step has so far is kept.                             *)
AgentCancel ==
  IF IsRunning
  THEN /\ said' = said \o Partial
       /\ step' = <<>>
       /\ phase' = "over"
       /\ UNCHANGED <<turn, goal>>
  ELSE UNCHANGED agentVars

CancelEvents == IF IsRunning THEN <<Event("cancelled", said \o Partial)>> ELSE <<>>
CancelTasks  == IF IsRunning THEN Teardown ELSE <<>>

(* _submitRejection: a submission is taken in the state that waits for it. *)
MaySubmit(p) == IsRunning /\ phase = p

(* submitToolResults(): one event for each answer, then the next step.     *)
AgentTakesResults(answers, fold) ==
  /\ said' = said \o answers
  /\ StartStep(said \o answers, fold)
  /\ UNCHANGED <<turn, goal>>

ResultEvents(answers, fold) ==
  [i \in DOMAIN answers |-> Event("answer", answers[i])]
    \o <<Event("updated", said \o answers)>> \o StepEvents(fold)

(* submitCompactionPrompt(). *)
AgentTakesPrompt ==
  /\ phase' = "summarizing"
  /\ UNCHANGED <<turn, goal, said, step>>

(* _scheduleTeardown: the turn is dropped unless another took its place.   *)
Tear ==
  /\ At("teardown")
  /\ turn' = IF turn = Arg THEN 0 ELSE turn
  /\ UNCHANGED <<phase, goal, said, step>>
  /\ After(<<>>, <<>>, <<>>)

-----------------------------------------------------------------------------
(* Input from the network, one action for each event of a stream.          *)

StreamCall(c) ==
  /\ AtRest /\ IsRunning /\ phase = "streaming"
  /\ step' = Append(step, c)
  /\ UNCHANGED <<turn, phase, goal, said>>
  /\ After(<<>>, <<Event("call", [id |-> Len(said) + 1, call |-> c])>>, <<>>)

StreamEnd ==
  LET entry == ModelEntry(Len(said) + 1, step)
  IN  /\ AtRest /\ IsRunning /\ phase = "streaming"
      /\ said' = Append(said, entry)
      /\ step' = <<>>
      /\ UNCHANGED <<turn, goal>>
      /\ IF step # <<>>
         THEN /\ phase' = "tools"
              /\ After(<<>>, <<Event("needs results", entry)>>, <<>>)
         ELSE /\ phase' = "over"
              /\ After(<<>>, <<Event("completed", said')>>, Teardown)

(* A stream that errors, fails, or ends without a completion.              *)
StreamFail ==
  /\ AtRest /\ IsRunning /\ phase \in {"streaming", "summarizing"}
  /\ phase' = "over"
  /\ UNCHANGED <<turn, goal, said, step>>
  /\ After(<<>>, <<Event("failed", <<>>)>>, Teardown)

(* _fold: the summary is in; a respond turn goes on, a compact one is over. *)
SummaryEnd ==
  LET folded == Append(said, SummaryEntry)
      events == <<Event("folded", <<>>), Event("updated", folded)>>
  IN  /\ AtRest /\ IsRunning /\ phase = "summarizing"
      /\ said' = folded
      /\ UNCHANGED <<turn, goal>>
      /\ IF goal = "respond"
         THEN StartStep(folded, FALSE) /\ After(<<>>, events, <<>>)
         ELSE /\ phase' = "over" /\ step' = <<>>
              /\ After(<<>>, Append(events, Event("completed", folded)), Teardown)
=============================================================================
