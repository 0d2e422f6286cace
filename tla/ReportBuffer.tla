---------------------------- MODULE ReportBuffer ----------------------------
(***************************************************************************)
(* JobReportDeliveryLogic by itself, with an environment that may give it  *)
(* any input at any time: reports settle, sessions are bound, idle edges   *)
(* come and delivery turns are taken or refused in every order.            *)
(***************************************************************************)
EXTENDS ReportDelivery

VARIABLE taken  \* the reports whose delivery turn was taken, in order

vars == <<deliveryVars, taken>>

Held == taken \o (inFlight \o pending)

Init == DeliveryInit /\ taken = <<>>

(* A job settles once. *)
Settled(r) ==
  /\ \A i \in DOMAIN Held : Held[i] # r
  /\ ReportSettled(r)
  /\ UNCHANGED taken

Bound == AgentBound /\ UNCHANGED taken

IdleEdge == AgentIdled /\ UNCHANGED taken

Resolved(accepted) ==
  /\ DeliveryResolved(accepted)
  /\ taken' = IF accepted THEN taken \o inFlight ELSE taken

Next ==
  \/ \E r \in Reports : Settled(r)
  \/ Bound \/ IdleEdge
  \/ \E accepted \in BOOLEAN : Resolved(accepted)

Spec == Init /\ [][Next]_vars

-----------------------------------------------------------------------------
(* Types, and a buffer whose state says what it holds. *)
TypeOK == DeliveryTypeOK /\ taken \in Seq(Reports)

Mailbox == INSTANCE ReportMailbox WITH waiting <- inFlight \o pending, handed <- taken

(***************************************************************************)
(* Whatever comes between the start of a delivery turn and its answer, no  *)
(* report is lost or taken twice, and they are taken in the order in which *)
(* their jobs settled.  The DeliveryResolved input.                        *)
(***************************************************************************)
MailboxImplemented == Mailbox!MailboxSpec
=============================================================================
