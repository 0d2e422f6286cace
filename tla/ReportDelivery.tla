--------------------------- MODULE ReportDelivery ---------------------------
(***************************************************************************)
(* JobReportDeliveryLogic: the buffer that gives the reports of settled    *)
(* background jobs to the session they are addressed to, as turns of their *)
(* own.  One action is one input of the logic block.                       *)
(***************************************************************************)
EXTENDS Naturals, Sequences

CONSTANT Reports  \* the reports of the jobs that run in the background

VARIABLES
  deliver,   \* the state of the logic block
  pending,   \* data.pending
  inFlight,  \* data.inFlight
  bound      \* data.agent # null

deliveryVars == <<deliver, pending, inFlight, bound>>

DeliveryStates == {"idle", "awaiting", "delivering"}

(* Only the delivering state holds a batch, only the awaiting and the      *)
(* delivering ones a backlog, and a batch is delivered to a bound agent.   *)
DeliveryTypeOK ==
  /\ deliver \in DeliveryStates /\ bound \in BOOLEAN
  /\ pending \in Seq(Reports) /\ inFlight \in Seq(Reports)
  /\ deliver = "delivering" <=> inFlight # <<>>
  /\ deliver = "idle" => pending = <<>>
  /\ deliver = "awaiting" => pending # <<>>
  /\ deliver = "delivering" => bound

DeliveryInit ==
  /\ deliver = "idle"
  /\ pending = <<>> /\ inFlight = <<>>
  /\ bound = FALSE

(* _dispatch, with what is buffered and whether an agent is bound.         *)
Dispatch(buffer, isBound) ==
  IF isBound
  THEN deliver' = "delivering" /\ inFlight' = buffer /\ pending' = <<>>
  ELSE deliver' = "awaiting" /\ pending' = buffer /\ UNCHANGED inFlight

(* on<JobReportSettled>: only the idle state tries at once. *)
ReportSettled(r) ==
  /\ IF deliver = "idle"
     THEN Dispatch(Append(pending, r), bound)
     ELSE pending' = Append(pending, r) /\ UNCHANGED <<deliver, inFlight>>
  /\ UNCHANGED bound

(* on<AgentBound>: a new session, live or a placeholder, is addressed. *)
AgentBound ==
  /\ bound' = TRUE
  /\ IF deliver = "awaiting" THEN Dispatch(pending, TRUE)
     ELSE UNCHANGED <<deliver, pending, inFlight>>

(* Mutated form of AgentIdled: the edge is not acted on. *)
AgentIdledUnheeded == UNCHANGED deliveryVars

(* on<AgentIdled>: the edge counts only while a batch waits for it. *)
AgentIdled ==
  /\ IF deliver = "awaiting" THEN Dispatch(pending, bound)
     ELSE UNCHANGED <<deliver, pending, inFlight>>
  /\ UNCHANGED bound

(* Mutated form of DeliveryResolved: a batch that was not taken is dropped. *)
DeliveryResolvedDropped(accepted) ==
  /\ deliver = "delivering"
  /\ inFlight' = <<>>
  /\ deliver' = IF pending = <<>> THEN "idle" ELSE "awaiting"
  /\ UNCHANGED <<pending, bound>>

(* Mutated form of DeliveryResolved: always back to idle. *)
DeliveryResolvedIdle(accepted) ==
  /\ deliver = "delivering"
  /\ pending' = IF accepted THEN pending ELSE inFlight \o pending
  /\ inFlight' = <<>>
  /\ deliver' = "idle"
  /\ UNCHANGED bound

(* on<DeliveryResolved>: a batch that was not taken goes back to the front. *)
DeliveryResolved(accepted) ==
  LET buffer == IF accepted THEN pending ELSE inFlight \o pending
  IN  /\ deliver = "delivering"
      /\ pending' = buffer
      /\ inFlight' = <<>>
      /\ deliver' = IF buffer = <<>> THEN "idle" ELSE "awaiting"
      /\ UNCHANGED bound

(* What onEnter of the delivering state starts: a turn with the batch. *)
TurnDispatched == deliver # "delivering" /\ deliver' = "delivering"
=============================================================================
