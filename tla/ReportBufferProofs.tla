------------------------- MODULE ReportBufferProofs -------------------------
(***************************************************************************)
(* Proofs about ReportBuffer, for every set of reports: its types and what *)
(* its states say of the buffer, and that it implements ReportMailbox.     *)
(***************************************************************************)
EXTENDS ReportBuffer, TLAPS

(* A prefix of a concatenation, and what is left of it.                    *)
LEMMA PrefixOfConcat ==
  ASSUME NEW S, NEW s \in Seq(S), NEW t \in Seq(S)
  PROVE  /\ SubSeq(s \o t, 1, Len(s)) = s
         /\ SubSeq(s \o t, Len(s) + 1, Len(s \o t)) = t
         /\ Len(s) \in 0..Len(s \o t)
         /\ s # <<>> => Len(s) \in 1..Len(s \o t)
  OBVIOUS

LEMMA EmptyConcat ==
  ASSUME NEW S, NEW s \in Seq(S)
  PROVE  s \o <<>> = s /\ <<>> \o s = s
  OBVIOUS

LEMMA AppendIs ==
  ASSUME NEW S, NEW t \in Seq(S), NEW e \in S
  PROVE  Append(t, e) \in Seq(S) /\ Append(t, e) # <<>>
<1>1. Append(t, e) \in Seq(S) /\ Len(Append(t, e)) = Len(t) + 1 /\ Len(t) \in Nat
  OBVIOUS
<1>2. Len(Append(t, e)) # 0
  BY <1>1
<1>3. Len(<<>>) = 0
  OBVIOUS
<1> QED
  BY <1>1, <1>2, <1>3, Zenon

LEMMA ConcatAppend ==
  ASSUME NEW S, NEW s \in Seq(S), NEW t \in Seq(S), NEW e \in S
  PROVE  /\ s \o Append(t, e) = Append(s \o t, e)
         /\ Append(t, e) # <<>>
         /\ s \o t \in Seq(S)
         /\ Append(t, e) \in Seq(S)
         /\ s # <<>> => s \o t # <<>>
  OBVIOUS

(* Dispatch of a buffer that holds something keeps the types. *)
LEMMA DispatchType ==
  ASSUME TypeOK, deliver \in {"idle", "awaiting"},
         NEW buffer \in Seq(Reports), buffer # <<>>,
         NEW isBound \in BOOLEAN, bound' = isBound, Dispatch(buffer, isBound)
  PROVE  DeliveryTypeOK'
  BY DEF TypeOK, DeliveryTypeOK, DeliveryStates, Dispatch

-----------------------------------------------------------------------------
(* The types hold, only the delivering state has a batch, only the idle    *)
(* one has no backlog to see to.                                           *)
THEOREM TypeCorrect == Spec => []TypeOK
<1>1. Init => TypeOK
  <2>1. <<>> \in Seq(Reports)
    OBVIOUS
  <2> QED BY <2>1 DEF Init, DeliveryInit, TypeOK, DeliveryTypeOK, DeliveryStates
<1>2. TypeOK /\ [Next]_vars => TypeOK'
  <2> SUFFICES ASSUME TypeOK, [Next]_vars PROVE TypeOK'
    OBVIOUS
  <2>1. ASSUME NEW r \in Reports, Settled(r) PROVE TypeOK'
    <3>1. Append(pending, r) \in Seq(Reports) /\ Append(pending, r) # <<>>
      <4>1. pending \in Seq(Reports)
        BY DEF TypeOK, DeliveryTypeOK
      <4> QED BY <4>1, AppendIs
    <3>2. CASE deliver = "idle"
      BY <2>1, <3>1, <3>2, DispatchType
      DEF Settled, ReportSettled, TypeOK, DeliveryTypeOK
    <3>3. CASE deliver # "idle"
      BY <2>1, <3>1, <3>3
      DEF Settled, ReportSettled, TypeOK, DeliveryTypeOK, DeliveryStates
    <3> QED BY <3>2, <3>3
  <2>2. CASE Bound
    <3>1. CASE deliver = "awaiting"
      BY <2>2, <3>1, DispatchType DEF Bound, AgentBound, TypeOK, DeliveryTypeOK
    <3>2. CASE deliver # "awaiting"
      BY <2>2, <3>2 DEF Bound, AgentBound, TypeOK, DeliveryTypeOK
    <3> QED BY <3>1, <3>2
  <2>3. CASE IdleEdge
    <3>1. CASE deliver = "awaiting"
      BY <2>3, <3>1, DispatchType DEF IdleEdge, AgentIdled, TypeOK, DeliveryTypeOK
    <3>2. CASE deliver # "awaiting"
      BY <2>3, <3>2 DEF IdleEdge, AgentIdled, TypeOK, DeliveryTypeOK
    <3> QED BY <3>1, <3>2
  <2>4. ASSUME NEW accepted \in BOOLEAN, Resolved(accepted) PROVE TypeOK'
    BY <2>4, ConcatAppend
    DEF Resolved, DeliveryResolved, TypeOK, DeliveryTypeOK, DeliveryStates
  <2>5. CASE UNCHANGED vars
    BY <2>5 DEF vars, deliveryVars, TypeOK, DeliveryTypeOK
  <2> QED BY <2>1, <2>2, <2>3, <2>4, <2>5 DEF Next
<1> QED BY <1>1, <1>2, PTL DEF Spec

-----------------------------------------------------------------------------
(* What a dispatch does to the reports that are not taken yet: nothing.    *)
LEMMA DispatchMoves ==
  ASSUME TypeOK, deliver \in {"idle", "awaiting"},
         NEW buffer \in Seq(Reports), NEW isBound, Dispatch(buffer, isBound)
  PROVE  inFlight' \o pending' = buffer
  BY EmptyConcat DEF TypeOK, DeliveryTypeOK, Dispatch

(***************************************************************************)
(* The buffer implements the mailbox: a settled report is posted, a turn   *)
(* that was taken hands its batch over, and every other input stutters.    *)
(***************************************************************************)
THEOREM Refinement == Spec => MailboxImplemented
<1>1. Init => Mailbox!MailboxInit
  BY EmptyConcat DEF Init, DeliveryInit, Mailbox!MailboxInit
<1>2. TypeOK /\ [Next]_vars => [Mailbox!MailboxNext]_(Mailbox!mailboxVars)
  <2> SUFFICES ASSUME TypeOK, [Next]_vars
               PROVE  Mailbox!MailboxNext \/ UNCHANGED Mailbox!mailboxVars
    OBVIOUS
  <2> USE DEF Mailbox!mailboxVars
  <2>1. ASSUME NEW r \in Reports, Settled(r) PROVE Mailbox!Post(r)
    <3>1. inFlight' \o pending' = Append(inFlight \o pending, r)
      <4>0. inFlight \in Seq(Reports) /\ pending \in Seq(Reports)
        BY DEF TypeOK, DeliveryTypeOK
      <4>1. inFlight \o Append(pending, r) = Append(inFlight \o pending, r)
            /\ Append(pending, r) \in Seq(Reports)
        BY <4>0, ConcatAppend
      <4>2. CASE deliver = "idle"
        <5>1. inFlight = <<>> /\ inFlight \o Append(pending, r) = Append(pending, r)
          BY <4>1, <4>2, EmptyConcat DEF TypeOK, DeliveryTypeOK
        <5>2. Dispatch(Append(pending, r), bound)
          BY <2>1, <4>2 DEF Settled, ReportSettled
        <5>3. inFlight' \o pending' = Append(pending, r)
          BY <4>1, <4>2, <5>2, DispatchMoves
        <5> QED BY <4>1, <5>1, <5>3
      <4>3. CASE deliver # "idle"
        <5>1. pending' = Append(pending, r) /\ inFlight' = inFlight
          BY <2>1, <4>3 DEF Settled, ReportSettled
        <5> QED BY <4>1, <5>1
      <4> QED BY <4>2, <4>3
    <3> QED BY <2>1, <3>1 DEF Settled, Held, Mailbox!Post, Mailbox!IsPosted
  <2>2. CASE Bound
    <3>1. CASE deliver = "awaiting"
      BY <2>2, <3>1, DispatchMoves, EmptyConcat
      DEF Bound, AgentBound, TypeOK, DeliveryTypeOK
    <3>2. CASE deliver # "awaiting"
      BY <2>2, <3>2 DEF Bound, AgentBound
    <3> QED BY <3>1, <3>2
  <2>3. CASE IdleEdge
    <3>1. CASE deliver = "awaiting"
      BY <2>3, <3>1, DispatchMoves, EmptyConcat
      DEF IdleEdge, AgentIdled, TypeOK, DeliveryTypeOK
    <3>2. CASE deliver # "awaiting"
      BY <2>3, <3>2 DEF IdleEdge, AgentIdled, deliveryVars
    <3> QED BY <3>1, <3>2
  <2>4. CASE Resolved(TRUE)
    <3>1. /\ inFlight \in Seq(Reports) /\ inFlight # <<>> /\ pending \in Seq(Reports)
          /\ inFlight' = <<>> /\ pending' = pending /\ taken' = taken \o inFlight
      BY <2>4 DEF Resolved, DeliveryResolved, TypeOK, DeliveryTypeOK
    <3>2. Mailbox!Hand
      <4> DEFINE n == Len(inFlight)
      <4>1. n \in 1..Len(inFlight \o pending)
        BY <3>1, PrefixOfConcat
      <4>2. taken' = taken \o SubSeq(inFlight \o pending, 1, n)
        BY <3>1, PrefixOfConcat
      <4>3. inFlight' \o pending' = SubSeq(inFlight \o pending, n + 1, Len(inFlight \o pending))
        BY <3>1, PrefixOfConcat, EmptyConcat
      <4> HIDE DEF n
      <4> QED BY <4>1, <4>2, <4>3 DEF Mailbox!Hand
    <3> QED BY <3>2 DEF Mailbox!MailboxNext
  <2>5. CASE Resolved(FALSE)
    BY <2>5, EmptyConcat, ConcatAppend
    DEF Resolved, DeliveryResolved, TypeOK, DeliveryTypeOK
  <2>6. CASE UNCHANGED vars
    BY <2>6 DEF vars, deliveryVars
  <2>7. ASSUME NEW accepted \in BOOLEAN, Resolved(accepted)
        PROVE  Resolved(TRUE) \/ Resolved(FALSE)
    <3>1. accepted = TRUE \/ accepted = FALSE
      BY <2>7
    <3> QED BY <2>7, <3>1
  <2> QED BY <2>1, <2>2, <2>3, <2>4, <2>5, <2>6, <2>7 DEF Next, Mailbox!MailboxNext
<1>3. Spec => []TypeOK
  BY TypeCorrect
<1> QED BY <1>1, <1>2, <1>3, PTL DEF Spec, MailboxImplemented, Mailbox!MailboxSpec
=============================================================================
