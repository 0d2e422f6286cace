------------------------- MODULE AgentHistoryProofs -------------------------
(***************************************************************************)
(* What the primary session sees of its turns and keeps of them: proofs.   *)
(*                                                                         *)
(* MInv says what the session has seen: its mirror is the runtime's        *)
(* transcript with the step in progress, but for the events that wait, and *)
(* these bring exactly what it lacks.                                      *)
(*                                                                         *)
(* HInv says what is kept: every call in the history is made once and      *)
(* answered once, before anything else is said; a turn in flight makes no  *)
(* call that the history has; and what a turn would commit if it ended now *)
(* is in order but for calls that wait for their answers at its end, which *)
(* is what reconciling can repair.  What it needs of the entries alone is  *)
(* that reconciling and projecting them keeps that order.                  *)
(*                                                                         *)
(* RInv says which rows the jobs have: one in the background has one, kept *)
(* or waiting for its turn to end, and no job has two.  FreshInv is what   *)
(* that needs of calls: none is made again, and none has work before it is *)
(* made.                                                                   *)
(*                                                                         *)
(* MailInv says who has a report: the history, the backlog, or a batch in  *)
(* flight, which the history has too unless its turn was refused.  With it *)
(* the session and its buffer are shown to implement ReportMailbox.        *)
(***************************************************************************)
EXTENDS AgentSessionProofs, WellFoundedInduction

-----------------------------------------------------------------------------
(* The transcript with a step in progress, as the projector has it.        *)
SoFar(entries, s) ==
  entries \o (IF s = <<>> THEN <<>> ELSE <<ModelEntry(Len(entries) + 1, s)>>)

Updates == {"updated"}
Folded  == {"folded"}
Summed(entries) == CountOf("summary", entries)

(* The mirror is the transcript but for what is still on its way to it.    *)
Mirroring ==
  IsRunning =>
    /\ \A i \in DOMAIN inbox :
         inbox[i][1] \in {"started", "updated"} => inbox[i][2] = said /\ step = <<>>
    /\ \A i \in DOMAIN inbox : inbox[i][1] = "answer" =>
         \E j \in DOMAIN inbox : i < j /\ inbox[j][1] = "updated"
    /\ Told(CallNews, inbox) =>
         /\ step # <<>>
         /\ inbox = <<Event("call", [id |-> Len(said) + 1, call |-> Last(step)])>>
         /\ mirror = SoFar(said, Front(step))
    /\ ~Told(CallNews, inbox) /\ ~Told(Updates, inbox) => mirror = SoFar(said, step)
    /\ phase = "tools" => /\ Last(said).id = Len(said)
                          /\ inbox = <<>> \/ inbox = <<Event("needs results", Last(said))>>

(* The session counts the folds of its turn, which are within the bound.   *)
Folding ==
  /\ active => folds + (IF Told(Folded, inbox) THEN 1 ELSE 0) = Summed(said)
  /\ \A i \in DOMAIN inbox : inbox[i][1] = "folded" => i = 1
  /\ Summed(said) <= MaxFolds /\ folds \in 0..MaxFolds
  /\ IsRunning /\ phase \in {"prompt", "summarizing"} => Summed(said) < MaxFolds

MInv == Mirroring /\ Folding

-----------------------------------------------------------------------------
(* The summaries of a transcript.                                          *)
LEMMA SummariesCounted ==
  ASSUME NEW s \in Seq(TurnEntries)
  PROVE  /\ Summed(s) \in Nat
         /\ \A e \in TurnEntries :
              Summed(Append(s, e)) = IF IsKind("summary", e) THEN Summed(s) + 1 ELSE Summed(s)
         /\ \A r \in Seq(TurnEntries) :
              (\A i \in DOMAIN r : ~IsKind("summary", r[i])) => Summed(s \o r) = Summed(s)
<1> DEFINE Places(q) == {i \in DOMAIN q : IsKind("summary", q[i])}
<1>1. \A q : Summed(q) = Cardinality(Places(q))
  BY DEF Summed, CountOf
<1>2. \A q \in Seq(TurnEntries) : IsFiniteSet(Places(q)) /\ Places(q) \subseteq 1..Len(q)
  <2> SUFFICES ASSUME NEW q \in Seq(TurnEntries)
               PROVE  IsFiniteSet(Places(q)) /\ Places(q) \subseteq 1..Len(q)
    OBVIOUS
  <2>1. Len(q) \in Int /\ 1 \in Int /\ Places(q) \subseteq 1..Len(q)
    OBVIOUS
  <2> QED
    BY <2>1, FS_Interval, FS_Subset
<1>3. Summed(s) \in Nat
  BY <1>1, <1>2, FS_CardinalityType
<1>4. ASSUME NEW e \in TurnEntries
      PROVE  Summed(Append(s, e)) = IF IsKind("summary", e) THEN Summed(s) + 1 ELSE Summed(s)
  <2>1. /\ Len(s) \in Nat /\ DOMAIN s = 1..Len(s)
        /\ DOMAIN Append(s, e) = 1..(Len(s) + 1) /\ Append(s, e)[Len(s) + 1] = e
        /\ \A i \in 1..Len(s) : Append(s, e)[i] = s[i]
    OBVIOUS
  <2>2. CASE IsKind("summary", e)
    <3>1. Places(Append(s, e)) = Places(s) \cup {Len(s) + 1} /\ Len(s) + 1 \notin Places(s)
      BY <2>1, <2>2
    <3> QED
      BY <1>1, <1>2, <2>2, <3>1, FS_AddElement
  <2>3. CASE ~IsKind("summary", e)
    <3>1. Places(Append(s, e)) = Places(s)
      BY <2>1, <2>3
    <3> QED
      BY <1>1, <2>3, <3>1
  <2> QED
    BY <2>2, <2>3
<1>5. ASSUME NEW r \in Seq(TurnEntries), \A i \in DOMAIN r : ~IsKind("summary", r[i])
      PROVE  Summed(s \o r) = Summed(s)
  <2>1. Indices(s, r)
    BY ConcatIndices
  <2>2. Places(s \o r) = Places(s)
    <3>1. ASSUME NEW i \in Places(s \o r) PROVE i \in Places(s)
      <4>1. CASE i \in DOMAIN s
        BY <2>1, <3>1, <4>1 DEF Indices
      <4>2. CASE i - Len(s) \in DOMAIN r /\ i = (i - Len(s)) + Len(s)
        <5>1. (s \o r)[(i - Len(s)) + Len(s)] = r[i - Len(s)]
          BY <2>1, <4>2 DEF Indices
        <5> QED
          BY <1>5, <3>1, <4>2, <5>1
      <4> QED
        BY <2>1, <3>1, <4>1, <4>2 DEF Indices
    <3>2. ASSUME NEW i \in Places(s) PROVE i \in Places(s \o r)
      BY <2>1, <3>2 DEF Indices
    <3> QED
      BY <3>1, <3>2
  <2> QED
    BY <1>1, <2>2
<1> QED
  BY <1>3, <1>4, <1>5

(* Nothing said, nothing folded.                                           *)
LEMMA NoneSummed == Summed(<<>>) = 0
<1>1. {i \in DOMAIN <<>> : IsKind("summary", <<>>[i])} = {}
  OBVIOUS
<1> QED
  BY <1>1, FS_EmptySet DEF Summed, CountOf

(* The head and the tail of the stream.                                    *)
LEMMA Shifted ==
  ASSUME inbox \in Seq(Events), inbox # <<>>, inbox' = Tail(inbox)
  PROVE  /\ \A i \in DOMAIN inbox' : /\ i + 1 \in DOMAIN inbox /\ inbox'[i] = inbox[i + 1]
                                     /\ i \in Nat /\ i + 1 # 1
         /\ \A i \in DOMAIN inbox : i # 1 => /\ i - 1 \in DOMAIN inbox' /\ i \in Nat
                                             /\ inbox'[i - 1] = inbox[i]
         /\ Head(inbox) = inbox[1] /\ 1 \in DOMAIN inbox
         /\ \A N : Told(N, inbox) <=> Head(inbox)[1] \in N \/ Told(N, inbox')
<1>1. /\ Head(inbox) = inbox[1] /\ 1 \in DOMAIN inbox
      /\ \A i \in DOMAIN Tail(inbox) : /\ i \in Nat /\ i + 1 \in DOMAIN inbox /\ i + 1 # 1
                                       /\ Tail(inbox)[i] = inbox[i + 1]
      /\ \A i \in DOMAIN inbox : i = 1 \/ (i - 1 \in DOMAIN Tail(inbox) /\ i = (i - 1) + 1)
  BY TailIndices
<1>2. ASSUME NEW i \in DOMAIN inbox, i # 1
      PROVE  i - 1 \in DOMAIN inbox' /\ i \in Nat /\ inbox'[i - 1] = inbox[i]
  <2>1. i - 1 \in DOMAIN Tail(inbox) /\ i = (i - 1) + 1
    BY <1>1, <1>2
  <2>2. Tail(inbox)[i - 1] = inbox[(i - 1) + 1]
    BY <1>1, <2>1
  <2> QED
    BY <2>1, <2>2
<1>3. \A N : Told(N, inbox) <=> Head(inbox)[1] \in N \/ Told(N, inbox')
  BY ToldTail
<1> QED
  BY <1>1, <1>2, <1>3

(* An event that is no call and no fold is out of the stream.              *)
LEMMA MirroredOnward ==
  ASSUME IInv, MInv, UNCHANGED <<said, step, folds>>,
         active' => active, IsRunning' => IsRunning,
         IsRunning => phase' = phase \/ {phase, phase'} \subseteq {"prompt", "summarizing"},
         inbox # <<>>, inbox' = Tail(inbox), Head(inbox)[1] \notin CallNews \cup Folded,
         \/ mirror' = mirror /\ Head(inbox)[1] \notin Updates
         \/ mirror' = SoFar(said, step)
         \/ Told(Updates, inbox')
  PROVE  MInv'
<1>1. inbox \in Seq(Events)
  BY DEF IInv, QueuesOK
<1>2. /\ \A i \in DOMAIN inbox' : /\ i + 1 \in DOMAIN inbox /\ inbox'[i] = inbox[i + 1]
                                  /\ i \in Nat /\ i + 1 # 1
      /\ \A i \in DOMAIN inbox : i # 1 => /\ i - 1 \in DOMAIN inbox' /\ i \in Nat
                                          /\ inbox'[i - 1] = inbox[i]
      /\ Head(inbox) = inbox[1] /\ 1 \in DOMAIN inbox
      /\ \A N : Told(N, inbox) <=> Head(inbox)[1] \in N \/ Told(N, inbox')
  BY <1>1, Shifted
<1>3. Mirroring'
  <2> SUFFICES ASSUME IsRunning'
               PROVE  Mirroring'
    BY DEF Mirroring
  <2>0. IsRunning
    OBVIOUS
  <2>1. \A i \in DOMAIN inbox' :
          inbox'[i][1] \in {"started", "updated"} => inbox'[i][2] = said' /\ step' = <<>>
    <3>1. \A i \in DOMAIN inbox :
            inbox[i][1] \in {"started", "updated"} => inbox[i][2] = said /\ step = <<>>
      BY <2>0 DEF MInv, Mirroring
    <3> QED
      BY <1>2, <3>1
  <2>2. ASSUME NEW i \in DOMAIN inbox', inbox'[i][1] = "answer"
        PROVE  \E j \in DOMAIN inbox' : i < j /\ inbox'[j][1] = "updated"
    <3>1. PICK j \in DOMAIN inbox : i + 1 < j /\ inbox[j][1] = "updated"
      BY <1>2, <2>0, <2>2 DEF MInv, Mirroring
    <3>2. j \in Nat /\ i \in Nat
      BY <1>1, <1>2
    <3>3. j # 1 /\ i < j - 1
      BY <3>1, <3>2
    <3> QED
      BY <1>2, <3>1, <3>3
  <2>3. ~Told(CallNews, inbox) /\ ~Told(CallNews, inbox')
    <3>1. ASSUME Told(CallNews, inbox) PROVE FALSE
      <4>1. inbox = <<Event("call", [id |-> Len(said) + 1, call |-> Last(step)])>>
        BY <2>0, <3>1 DEF MInv, Mirroring
      <4>2. inbox[1] = Event("call", [id |-> Len(said) + 1, call |-> Last(step)])
        BY <4>1
      <4> QED
        <5>1. Head(inbox)[1] = "call"
          BY <1>2, <4>2 DEF Event
        <5> QED
          BY <5>1 DEF CallNews
    <3> QED
      BY <1>2, <3>1
  <2>4. ~Told(Updates, inbox') => mirror' = SoFar(said', step')
    BY <1>2, <2>0, <2>3 DEF MInv, Mirroring
  <2>5. phase' = "tools" => Last(said').id = Len(said') /\ inbox' = <<>>
    <3>1. \A x : Tail(<<x>>) = <<>>
      OBVIOUS
    <3> QED
      BY <2>0, <3>1 DEF MInv, Mirroring
  <2> QED
    BY <2>1, <2>2, <2>3, <2>4, <2>5 DEF Mirroring
<1>4. Folding'
  <2>1. ~Told(Folded, inbox)
    BY <1>2 DEF MInv, Folding, Told, Folded
  <2>2. \A i \in DOMAIN inbox' : inbox'[i][1] # "folded"
    BY <1>2, <2>1 DEF Told, Folded
  <2>3. ~Told(Folded, inbox')
    BY <2>2 DEF Told, Folded
  <2> QED
    BY <2>1, <2>2, <2>3 DEF MInv, Folding
<1> QED
  BY <1>3, <1>4 DEF MInv

(* A handler that touches neither the stream nor what it is about.         *)
LEMMA MirroredStill ==
  ASSUME MInv, UNCHANGED <<said, step, folds, inbox, mirror>>,
         active' => active, IsRunning' => IsRunning,
         IsRunning => phase' = phase \/ {phase, phase'} \subseteq {"prompt", "summarizing"}
  PROVE  MInv'
  BY DEF MInv, Mirroring, Folding

(* A turn that is over, and a stream that says nothing of folds.           *)
LEMMA MirroredNoMore ==
  ASSUME IInv, MInv, ~active', ~IsRunning', ~Told(Folded, inbox'),
         folds' = folds \/ folds' = 0,
         said' \in {said, SoFar(said, step), <<>>}
  PROVE  MInv'
<1>1. said \in Seq(TurnEntries) /\ step \in Seq(Calls)
  BY DEF IInv, StateOK
<1>2. Summed(SoFar(said, step)) = Summed(said)
  <2>1. CASE step = <<>>
    BY <1>1, <2>1 DEF SoFar
  <2>2. CASE step # <<>>
    <3>1. PICK e : e = ModelEntry(Len(said) + 1, step)
      OBVIOUS
    <3>2. e \in TurnEntries /\ ~IsKind("summary", e)
      BY <1>1, <3>1 DEF ModelEntry, Models, TurnEntries, IsKind
    <3>3. SoFar(said, step) = Append(said, e)
      BY <1>1, <2>2, <3>1, <3>2 DEF SoFar
    <3> QED
      BY <1>1, <3>2, <3>3, SummariesCounted
  <2> QED
    BY <2>1, <2>2
<1>3. MaxFolds \in Nat
  BY SessionAssumption
<1>4. \A i \in DOMAIN inbox' : inbox'[i][1] # "folded"
  BY DEF Told, Folded
<1>5. Mirroring'
  BY DEF Mirroring
<1>6. Summed(said') \in {Summed(said), 0}
  BY <1>2, NoneSummed
<1>7. folds' \in 0..MaxFolds /\ Summed(said') <= MaxFolds
  BY <1>3, <1>6 DEF MInv, Folding
<1>8. Folding'
  BY <1>4, <1>7 DEF Folding
<1> QED
  BY <1>5, <1>8 DEF MInv

(* What a handler that adds no events leaves in the stream.                *)
LEMMA NoNews ==
  ASSUME IInv, NEW before, NEW after, After(before, <<>>, after)
  PROVE  /\ ~At("deliver") => inbox' = inbox
         /\ At("deliver") => inbox # <<>> /\ inbox \in Seq(Events) /\ inbox' = Tail(inbox)
<1>1. InRest \in Seq(Events) /\ inbox' = InRest \o <<>>
  BY QueuesLeft DEF IInv, After
<1>2. inbox' = InRest
  BY <1>1, NoTasks
<1> QED
  BY <1>2, DeliversSomething DEF InRest, IInv, QueuesOK

(* What a step of the loop that delivers nothing leaves of the mirror.     *)
LEMMA MirrorLeftAlone ==
  ASSUME IInv, MInv, UNCHANGED <<said, step, folds, mirror, active, phase>>,
         IsRunning' => IsRunning, ~At("deliver"),
         NEW before, NEW after, After(before, <<>>, after)
  PROVE  MInv'
<1>1. inbox' = inbox
  BY NoNews
<1> QED
  BY <1>1, MirroredStill

(* The tasks that bring no event.                                          *)
LEMMA TasksMirror ==
  ASSUME IInv, MInv, \/ Hop /\ UNCHANGED <<sessionVars, agentVars, deliveryVars>>
                     \/ Tear /\ UNCHANGED <<sessionVars, deliveryVars>>
                     \/ RunAnswered \/ DeliveryAnswered
  PROVE  MInv'
<1>1. CASE Hop /\ UNCHANGED <<sessionVars, agentVars, deliveryVars>>
  BY <1>1, MirroredStill DEF Hop, sessionVars, turnVars, agentVars, IsRunning
<1>2. CASE Tear /\ UNCHANGED <<sessionVars, deliveryVars>>
  <2>1. /\ At("teardown") /\ turn' = (IF turn = Arg THEN 0 ELSE turn) /\ After(<<>>, <<>>, <<>>)
        /\ UNCHANGED <<said, step, folds, mirror, active, phase>>
    BY <1>2 DEF Tear, sessionVars, turnVars
  <2>2. (IsRunning' => IsRunning) /\ ~At("deliver")
    BY <2>1 DEF IsRunning, At
  <2> QED
    BY <2>1, <2>2, MirrorLeftAlone
<1>3. CASE RunAnswered
  <2>1. At("ran") /\ Arg.ok = TRUE
    BY <1>3, HeadIs DEF RunAnswered
  <2>2. /\ After(<<>>, <<>>, Tell(Arg.from, TRUE)) /\ UNCHANGED turnVars /\ UNCHANGED agentVars
    BY <1>3, <2>1, Zenon DEF RunAnswered
  <2>3. (IsRunning' => IsRunning) /\ UNCHANGED <<said, step, folds, mirror, active, phase>>
    BY <2>2 DEF turnVars, agentVars, IsRunning
  <2>4. ~At("deliver")
    BY <2>1 DEF At
  <2> QED
    BY <2>2, <2>3, <2>4, MirrorLeftAlone
<1>4. CASE DeliveryAnswered
  <2>1. At("resolved") /\ After(<<>>, <<>>, <<>>) /\ UNCHANGED <<sessionVars, agentVars>>
    BY <1>4 DEF DeliveryAnswered
  <2>2. /\ UNCHANGED <<said, step, folds, mirror, active, phase>>
        /\ IsRunning' => IsRunning
        /\ ~At("deliver")
    BY <2>1 DEF sessionVars, turnVars, agentVars, IsRunning, At
  <2> QED
    BY <2>1, <2>2, MirrorLeftAlone
<1> QED
  BY <1>1, <1>2, <1>3, <1>4

(* The events that change the mirror by no more than what the runtime says. *)
LEMMA NewsMirror ==
  ASSUME IInv, MInv, OnTranscript \/ OnAnswer \/ OnNeedsPrompt \/ EventIgnored
  PROVE  MInv'
<1>1. /\ At("deliver") /\ After(<<>>, <<>>, <<>>)
      /\ UNCHANGED <<said, step, folds, active, turn>>
      /\ OnNeedsPrompt \/ phase' = phase
      /\ OnTranscript \/ OnAnswer \/ mirror' = mirror
      /\ EventIgnored => ~active
  BY DEF OnTranscript, OnAnswer, OnNeedsPrompt, EventIgnored, Delivered, AgentTakesPrompt,
         agentVars, sessionVars, turnVars
<1>2. /\ inbox # <<>> /\ inbox \in Seq(Events) /\ inbox' = Tail(inbox)
      /\ IsRunning' => IsRunning
      /\ IsRunning => phase' = phase \/ {phase, phase'} \subseteq {"prompt", "summarizing"}
  <2>1. IsRunning => phase' = phase \/ {phase, phase'} \subseteq {"prompt", "summarizing"}
    BY <1>1 DEF OnNeedsPrompt, MaySubmit, AgentTakesPrompt, agentVars
  <2>2. IsRunning' => IsRunning
    BY <1>1 DEF OnNeedsPrompt, MaySubmit, AgentTakesPrompt, agentVars, IsRunning
  <2> QED
    BY <1>1, <2>1, <2>2, NoNews
<1>3. CASE EventIgnored
  <2>1. ~active /\ ~IsRunning /\ Tail(inbox) = <<>>
    BY <1>1, <1>2, <1>3 DEF IInv, Agreement
  <2>2. ~active' /\ ~IsRunning' /\ ~Told(Folded, inbox')
    BY <1>1, <1>2, <2>1, ToldFew
  <2> QED
    BY <1>1, <2>2, MirroredNoMore
<1>4. CASE OnNeedsPrompt
  <2>1. Head(inbox)[1] \notin CallNews \cup Folded /\ Head(inbox)[1] \notin Updates
    BY <1>4 DEF OnNeedsPrompt, Delivered, Ev, CallNews, Folded, Updates
  <2>2. mirror' = mirror
    BY <1>4 DEF OnNeedsPrompt, sessionVars, turnVars
  <2> QED
    BY <1>1, <1>2, <2>1, <2>2, MirroredOnward
<1>5. CASE OnAnswer
  <2>1. Head(inbox)[1] = "answer"
    BY <1>5 DEF OnAnswer, Delivered, Ev
  <2>2. Head(inbox)[1] \notin CallNews \cup Folded
    BY <2>1 DEF CallNews, Folded
  <2>3. CASE ~IsRunning
    <3>1. Folding'
      <4>1. ~Told(Folded, inbox)
        BY <1>2, <2>1, Shifted DEF MInv, Folding, Told, Folded
      <4>2. ~Told(Folded, inbox')
        BY <1>2, <4>1, Shifted
      <4>3. \A i \in DOMAIN inbox' : inbox'[i][1] # "folded"
        BY <4>2 DEF Told, Folded
      <4> QED
        BY <1>1, <1>2, <2>3, <4>1, <4>2, <4>3 DEF MInv, Folding
    <3> QED
      BY <1>2, <2>3, <3>1 DEF MInv, Mirroring
  <2>4. CASE IsRunning
    <3>1. /\ Head(inbox) = inbox[1] /\ 1 \in DOMAIN inbox
          /\ \A i \in DOMAIN inbox : i # 1 => /\ i - 1 \in DOMAIN inbox' /\ i \in Nat
                                              /\ inbox'[i - 1] = inbox[i]
      BY <1>2, Shifted
    <3>2. PICK j \in DOMAIN inbox : 1 < j /\ inbox[j][1] = "updated"
      BY <2>1, <2>4, <3>1 DEF MInv, Mirroring
    <3>3. Told(Updates, inbox')
      BY <3>1, <3>2 DEF Told, Updates
    <3> QED
      BY <1>1, <1>2, <2>2, <3>3, MirroredOnward
  <2> QED
    BY <2>3, <2>4
<1>6. CASE OnTranscript
  <2>1. Head(inbox)[1] \in {"started", "updated"} /\ mirror' = Head(inbox)[2]
    BY <1>6 DEF OnTranscript, Delivered, Ev, EvArg
  <2>2. Head(inbox)[1] \notin CallNews \cup Folded
    BY <2>1 DEF CallNews, Folded
  <2>3. CASE ~IsRunning
    <3>1. Folding'
      <4>1. ~Told(Folded, inbox)
        BY <1>2, <2>1, Shifted DEF MInv, Folding, Told, Folded
      <4>2. ~Told(Folded, inbox')
        BY <1>2, <4>1, Shifted
      <4>3. \A i \in DOMAIN inbox' : inbox'[i][1] # "folded"
        BY <4>2 DEF Told, Folded
      <4> QED
        BY <1>1, <1>2, <2>3, <4>1, <4>2, <4>3 DEF MInv, Folding
    <3> QED
      BY <1>2, <2>3, <3>1 DEF MInv, Mirroring
  <2>4. CASE IsRunning
    <3>1. Head(inbox) = inbox[1] /\ 1 \in DOMAIN inbox
      BY <1>2, Shifted
    <3>2. Head(inbox)[2] = said /\ step = <<>>
      BY <2>1, <2>4, <3>1 DEF MInv, Mirroring
    <3>3. mirror' = SoFar(said, step)
      <4>1. said \in Seq(TurnEntries)
        BY DEF IInv, StateOK
      <4>2. said \o <<>> = said
        BY <4>1
      <4> QED
        BY <2>1, <3>2, <4>2 DEF SoFar
    <3> QED
      BY <1>1, <1>2, <2>2, <3>3, MirroredOnward
  <2> QED
    BY <2>3, <2>4
<1> QED
  BY <1>3, <1>4, <1>5, <1>6

(* A fold is counted.                                                      *)
LEMMA FoldedMirrors ==
  ASSUME IInv, MInv, OnFolded
  PROVE  MInv'
<1>1. /\ At("deliver") /\ active /\ Head(inbox)[1] = "folded" /\ After(<<>>, <<>>, <<>>)
      /\ UNCHANGED <<said, step, mirror, active, turn, phase>> /\ folds' = folds + 1
  BY DEF OnFolded, Delivered, Ev, agentVars
<1>2. inbox # <<>> /\ inbox \in Seq(Events) /\ inbox' = Tail(inbox)
  BY <1>1, NoNews
<1>3. /\ \A i \in DOMAIN inbox' : /\ i + 1 \in DOMAIN inbox /\ inbox'[i] = inbox[i + 1]
                                  /\ i \in Nat /\ i + 1 # 1
      /\ \A i \in DOMAIN inbox : i # 1 => /\ i - 1 \in DOMAIN inbox' /\ i \in Nat
                                          /\ inbox'[i - 1] = inbox[i]
      /\ Head(inbox) = inbox[1] /\ 1 \in DOMAIN inbox
      /\ \A N : Told(N, inbox) <=> Head(inbox)[1] \in N \/ Told(N, inbox')
  BY <1>2, Shifted
<1>4. Told(Folded, inbox)
  BY <1>1, <1>3 DEF Folded
<1>5. \A i \in DOMAIN inbox' : inbox'[i][1] # "folded"
  BY <1>3 DEF MInv, Folding
<1>6. ~Told(Folded, inbox')
  BY <1>5 DEF Told, Folded
<1>7. said \in Seq(TurnEntries) /\ Summed(said) \in Nat
  BY SummariesCounted DEF IInv, StateOK
<1>8. Folding'
  <2>1. folds + 1 = Summed(said) /\ folds \in Nat /\ Summed(said) <= MaxFolds
    BY <1>1, <1>4 DEF MInv, Folding
  <2>2. folds' + 0 = Summed(said') /\ folds' \in 0..MaxFolds
    BY <1>1, <1>7, <2>1, SessionAssumption
  <2> QED
    BY <1>1, <1>5, <1>6, <2>1, <2>2 DEF MInv, Folding, IsRunning
<1>9. Mirroring'
  <2> SUFFICES ASSUME IsRunning' PROVE Mirroring'
    BY DEF Mirroring
  <2>1. IsRunning
    BY <1>1 DEF IsRunning
  <2>2. ~Told(CallNews, inbox)
    <3> SUFFICES ASSUME Told(CallNews, inbox) PROVE FALSE
      OBVIOUS
    <3>1. inbox = <<Event("call", [id |-> Len(said) + 1, call |-> Last(step)])>>
      BY <2>1 DEF MInv, Mirroring
    <3>2. inbox[1] = Event("call", [id |-> Len(said) + 1, call |-> Last(step)])
      BY <3>1
    <3>3. Head(inbox)[1] = "call"
      BY <1>3, <3>2 DEF Event
    <3> QED
      BY <1>1, <3>3
  <2>3. ASSUME NEW i \in DOMAIN inbox', inbox'[i][1] = "answer"
        PROVE  \E j \in DOMAIN inbox' : i < j /\ inbox'[j][1] = "updated"
    <3>1. PICK j \in DOMAIN inbox : i + 1 < j /\ inbox[j][1] = "updated"
      BY <1>3, <2>1, <2>3 DEF MInv, Mirroring
    <3>2. j \in Nat /\ i \in Nat
      BY <1>2, <1>3
    <3>3. j # 1 /\ i < j - 1
      BY <3>1, <3>2
    <3> QED
      BY <1>3, <3>1, <3>3
  <2>4. Told(Updates, inbox') <=> Told(Updates, inbox)
    <3>1. Head(inbox)[1] \notin Updates
      BY <1>1 DEF Updates
    <3> QED
      BY <1>3, <3>1
  <2>5. ~Told(CallNews, inbox')
    BY <1>3, <2>2
  <2>6. \A i \in DOMAIN inbox' :
          inbox'[i][1] \in {"started", "updated"} => inbox'[i][2] = said' /\ step' = <<>>
    BY <1>1, <1>3, <2>1 DEF MInv, Mirroring
  <2>7. phase' = "tools" => Last(said').id = Len(said') /\ inbox' = <<>>
    <3>1. \A x : Tail(<<x>>) = <<>>
      OBVIOUS
    <3> QED
      BY <1>1, <1>2, <2>1, <3>1 DEF MInv, Mirroring
  <2> QED
    BY <1>1, <2>1, <2>2, <2>3, <2>4, <2>5, <2>6, <2>7 DEF MInv, Mirroring
<1> QED
  BY <1>8, <1>9 DEF MInv

(* The block of a call joins the entry of its step.                        *)
LEMMA StepMirrored ==
  ASSUME NEW s \in Seq(TurnEntries), NEW q \in Seq(Calls), q # <<>>,
         NEW i, i = Len(s) + 1
  PROVE  LET m == SoFar(s, Front(q))
         IN  SoFar(s, q) = IF i \in DOMAIN m
                           THEN [m EXCEPT ![i].calls = Append(@, Last(q))]
                           ELSE Append(m, ModelEntry(i, <<Last(q)>>))
<1> DEFINE f == Front(q)
           m == SoFar(s, f)
<1>1. /\ Len(s) \in Nat /\ DOMAIN s = 1..Len(s) /\ Len(q) \in Nat \ {0}
      /\ f \in Seq(Calls) /\ Last(q) \in Calls /\ q = Append(f, Last(q))
  BY DEF Front, Last
<1>2. \A j, x : ModelEntry(j, x) = [kind |-> "model", id |-> j, calls |-> x]
  BY DEF ModelEntry
<1>3. ASSUME NEW x \in Seq(Calls), x # <<>>
      PROVE  /\ SoFar(s, x) = Append(s, ModelEntry(i, x))
             /\ SoFar(s, x) \in Seq(TurnEntries)
             /\ DOMAIN SoFar(s, x) = 1..i
             /\ SoFar(s, x)[i] = ModelEntry(i, x)
             /\ \A j \in 1..Len(s) : SoFar(s, x)[j] = s[j]
  <2>1. PICK e : e = ModelEntry(i, x)
    OBVIOUS
  <2>2. e \in TurnEntries
    BY <1>1, <2>1 DEF ModelEntry, Models, TurnEntries
  <2>3. SoFar(s, x) = Append(s, e)
    BY <1>3, <2>1, <2>2 DEF SoFar
  <2> QED
    BY <1>1, <2>1, <2>2, <2>3
<1>4. CASE f = <<>>
  <2>1. m = s
    BY <1>4 DEF SoFar
  <2>2. q = <<Last(q)>>
    <3>1. \A x : Append(<<>>, x) = <<x>>
      OBVIOUS
    <3> QED
      BY <1>1, <1>4, <3>1
  <2>3. i \notin DOMAIN m
    BY <1>1, <2>1
  <2>4. SoFar(s, q) = Append(m, ModelEntry(i, <<Last(q)>>))
    BY <1>3, <2>1, <2>2
  <2> QED
    BY <2>3, <2>4
<1>5. CASE f # <<>>
  <2>1. /\ m = Append(s, ModelEntry(i, f)) /\ DOMAIN m = 1..i /\ m[i] = ModelEntry(i, f)
        /\ \A j \in 1..Len(s) : m[j] = s[j]
        /\ m \in Seq(TurnEntries)
    BY <1>1, <1>3, <1>5
  <2>2. /\ DOMAIN SoFar(s, q) = 1..i /\ SoFar(s, q)[i] = ModelEntry(i, q)
        /\ \A j \in 1..Len(s) : SoFar(s, q)[j] = s[j]
        /\ SoFar(s, q) \in Seq(TurnEntries)
    BY <1>3
  <2> HIDE DEF m, f
  <2>3. i \in DOMAIN m
    BY <1>1, <2>1
  <2>4. [m[i] EXCEPT !.calls = Append(m[i].calls, Last(q))] = ModelEntry(i, q)
    <3>1. m[i] = [kind |-> "model", id |-> i, calls |-> f]
      BY <1>2, <2>1
    <3>2. m[i].calls = f
      BY <3>1
    <3>3. [m[i] EXCEPT !.calls = q] = [kind |-> "model", id |-> i, calls |-> q]
      BY <3>1
    <3> QED
      BY <1>1, <1>2, <3>2, <3>3
  <2>5. PICK n : n = [m EXCEPT ![i].calls = Append(@, Last(q))]
    OBVIOUS
  <2>6. /\ DOMAIN n = 1..i /\ n[i] = ModelEntry(i, q)
        /\ \A j \in 1..Len(s) : n[j] = s[j]
    <3>1. n = [m EXCEPT ![i] = [m[i] EXCEPT !.calls = Append(m[i].calls, Last(q))]]
      BY <2>5
    <3>2. n = [m EXCEPT ![i] = ModelEntry(i, q)]
      BY <2>4, <3>1
    <3>3. \A j \in 1..Len(s) : j # i /\ j \in 1..i
      BY <1>1
    <3>4. DOMAIN n = 1..i
      BY <2>1, <3>2
    <3>5. n[i] = ModelEntry(i, q)
      BY <2>3, <3>2
    <3>6. \A j \in 1..Len(s) : n[j] = s[j]
      <4> TAKE j \in 1..Len(s)
      <4>1. j # i /\ j \in DOMAIN m /\ m[j] = s[j]
        BY <2>1, <3>3
      <4> QED
        BY <3>2, <4>1
    <3> QED
      BY <3>4, <3>5, <3>6
  <2>7. n = SoFar(s, q)
    <3>1. \A j \in 1..i : n[j] = SoFar(s, q)[j]
      BY <1>1, <2>2, <2>6
    <3>2. n = [j \in 1..i |-> n[j]]
      BY <2>5, <2>6
    <3>3. SoFar(s, q) = [j \in 1..i |-> SoFar(s, q)[j]]
      BY <2>2
    <3> QED
      BY <3>1, <3>2, <3>3
  <2>8. SoFar(s, q) = IF i \in DOMAIN m THEN [m EXCEPT ![i].calls = Append(@, Last(q))]
                      ELSE Append(m, ModelEntry(i, <<Last(q)>>))
    BY <2>3, <2>5, <2>7
  <2> QED
    BY <2>8 DEF m, f
<1> QED
  BY <1>4, <1>5 DEF m, f

(* A call reaches the mirror.                                              *)
LEMMA CallMirrors ==
  ASSUME IInv, AInv, MInv, OnCall
  PROVE  MInv'
<1>1. /\ At("deliver") /\ Head(inbox)[1] = "call" /\ After(<<>>, <<>>, <<>>)
      /\ UNCHANGED <<said, step, folds, active, turn, phase>>
      /\ LET i == EvArg.id
         IN  mirror' = IF i \in DOMAIN mirror
                       THEN [mirror EXCEPT ![i].calls = Append(@, EvArg.call)]
                       ELSE Append(mirror, ModelEntry(i, <<EvArg.call>>))
  BY DEF OnCall, Delivered, Ev, agentVars
<1>2. inbox # <<>> /\ inbox \in Seq(Events) /\ inbox' = Tail(inbox)
  BY <1>1, NoNews
<1>3. Told(CallNews, inbox) /\ IsRunning /\ phase = "streaming"
  <2>1. Told(CallNews, inbox)
    BY <1>1, <1>2, Shifted DEF CallNews
  <2> QED
    BY <2>1 DEF AInv, Joining
<1>4. /\ step # <<>> /\ mirror = SoFar(said, Front(step))
      /\ inbox = <<Event("call", [id |-> Len(said) + 1, call |-> Last(step)])>>
  BY <1>3 DEF MInv, Mirroring
<1>5. EvArg = [id |-> Len(said) + 1, call |-> Last(step)]
  <2>1. \A x : Head(<<x>>) = x
    OBVIOUS
  <2>2. Head(inbox) = Event("call", [id |-> Len(said) + 1, call |-> Last(step)])
    BY <1>4, <2>1, Zenon
  <2> QED
    BY <2>2 DEF EvArg, Event
<1>6. inbox' = <<>>
  <2>1. \A x : Tail(<<x>>) = <<>>
    OBVIOUS
  <2> QED
    BY <1>2, <1>4, <2>1
<1>7. mirror' = SoFar(said, step)
  <2>1. said \in Seq(TurnEntries) /\ step \in Seq(Calls)
    BY DEF IInv, StateOK
  <2>2. PICK i : i = Len(said) + 1
    OBVIOUS
  <2>3. EvArg.id = i /\ EvArg.call = Last(step)
    BY <1>5, <2>2
  <2>4. mirror' = IF i \in DOMAIN mirror
                  THEN [mirror EXCEPT ![i].calls = Append(@, Last(step))]
                  ELSE Append(mirror, ModelEntry(i, <<Last(step)>>))
    BY <1>1, <2>3
  <2> QED
    BY <1>4, <2>1, <2>2, <2>4, StepMirrored
<1>8. \A N : ~Told(N, inbox')
  BY <1>6, ToldFew
<1>9. DOMAIN inbox' = {}
  BY <1>6
<1>10. Mirroring'
  BY <1>1, <1>3, <1>7, <1>8, <1>9 DEF Mirroring
<1>11. Folding'
  <2>1. ~Told(Folded, inbox)
    <3>1. \A e : Told(Folded, <<e>>) <=> e[1] \in Folded
      BY ToldFew
    <3>2. Event("call", [id |-> Len(said) + 1, call |-> Last(step)])[1] \notin Folded
      BY DEF Event, Folded
    <3> QED
      BY <1>4, <3>1, <3>2, Zenon
  <2> QED
    BY <1>1, <1>8, <1>9, <2>1 DEF MInv, Folding, IsRunning
<1> QED
  BY <1>10, <1>11 DEF MInv

(* The finished step is what the mirror has already.                       *)
LEMMA NeedsMirrors ==
  ASSUME IInv, AInv, MInv, OnNeedsResults
  PROVE  MInv'
<1>1. /\ At("deliver") /\ Head(inbox)[1] = "needs results"
      /\ UNCHANGED <<said, step, folds, active, turn, phase>>
      /\ mirror' = IF EvArg.id \in DOMAIN mirror THEN [mirror EXCEPT ![EvArg.id] = EvArg]
                   ELSE Append(mirror, EvArg)
  BY DEF OnNeedsResults, Delivered, Ev, agentVars
<1>2. inbox # <<>> /\ inbox \in Seq(Events) /\ inbox' = Tail(inbox)
  <2>1. PICK after : After(<<>>, <<>>, after)
    BY DEF OnNeedsResults
  <2> QED
    BY <1>1, <2>1, NoNews
<1>3. Told(Wanted, inbox)
  BY <1>1, <1>2, Shifted DEF Wanted
<1>4. /\ Asking /\ StepMade(said) /\ inbox = <<Event("needs results", Last(said))>>
  BY <1>3 DEF AInv, Joining
<1>5. EvArg = Last(said)
  <2>1. \A x : Head(<<x>>) = x
    OBVIOUS
  <2>2. PICK e : e = Last(said)
    OBVIOUS
  <2>3. Head(inbox) = Event("needs results", e)
    BY <1>4, <2>1, <2>2, Zenon
  <2>4. Event("needs results", e)[2] = e
    BY DEF Event
  <2> QED
    BY <2>2, <2>3, <2>4 DEF EvArg
<1>6. mirror = said
  <2>1. /\ step = <<>> /\ said \in Seq(TurnEntries)
    BY <1>4 DEF AInv, CallsKnown, Asking, IInv, StateOK
  <2>2. ~Told(CallNews, inbox) /\ ~Told(Updates, inbox)
    <3>1. \A N, e : Told(N, <<e>>) <=> e[1] \in N
      BY ToldFew
    <3>2. PICK e : e = Event("needs results", Last(said))
      OBVIOUS
    <3>3. e[1] \notin CallNews /\ e[1] \notin Updates
      BY <3>2 DEF Event, CallNews, Updates
    <3> QED
      BY <1>4, <3>1, <3>2, <3>3, Zenon
  <2>3. said \o <<>> = said
    BY <2>1
  <2> QED
    BY <1>4, <2>1, <2>2, <2>3 DEF MInv, Mirroring, SoFar, Asking
<1>7. mirror' = mirror
  <2>1. Last(said).id = Len(said)
    BY <1>4 DEF MInv, Mirroring, Asking
  <2>2. said \in Seq(TurnEntries) /\ said # <<>> /\ Last(said) = said[Len(said)]
    BY <1>4 DEF IInv, StateOK, StepMade, Last
  <2>3. Len(said) \in DOMAIN said
    BY <2>2
  <2>4. EvArg.id = Len(said) /\ EvArg = said[Len(said)]
    BY <1>5, <2>1, <2>2
  <2>5. mirror' = [said EXCEPT ![Len(said)] = said[Len(said)]]
    BY <1>1, <1>6, <2>3, <2>4
  <2> QED
    BY <1>6, <2>2, <2>3, <2>5
<1>8. Head(inbox)[1] \notin CallNews \cup Folded /\ Head(inbox)[1] \notin Updates
  BY <1>1 DEF CallNews, Folded, Updates
<1>9. IsRunning' => IsRunning
  BY <1>1 DEF IsRunning
<1> QED
  BY <1>1, <1>2, <1>7, <1>8, <1>9, MirroredOnward

(* The events that end a turn.                                             *)
LEMMA EndMirrors ==
  ASSUME IInv, MInv, OnEnd
  PROVE  MInv'
<1>1. /\ At("deliver") /\ Head(inbox)[1] \in Ends /\ ~active' /\ folds' = folds
      /\ UNCHANGED agentVars /\ \E after : After(<<>>, <<>>, after)
  BY DEF OnEnd, Delivered, Ev, Ends, FinishTurn
<1>2. inbox # <<>> /\ inbox \in Seq(Events) /\ inbox' = Tail(inbox)
  BY <1>1, NoNews
<1>3. /\ Head(inbox) = inbox[1] /\ 1 \in DOMAIN inbox
      /\ \A N : Told(N, inbox) <=> Head(inbox)[1] \in N \/ Told(N, inbox')
  BY <1>2, Shifted
<1>4. ~IsRunning'
  BY <1>1, <1>3 DEF IInv, Agreement, IsRunning, agentVars
<1>5. ~Told(Folded, inbox')
  <2>1. Head(inbox)[1] # "folded"
    BY <1>1 DEF Ends
  <2>2. ~Told(Folded, inbox)
    BY <1>3, <2>1 DEF MInv, Folding, Told, Folded
  <2> QED
    BY <1>3, <2>2
<1>6. said' = said
  BY <1>1 DEF agentVars
<1> QED
  BY <1>1, <1>4, <1>5, <1>6, MirroredNoMore

(* cancel().                                                               *)
LEMMA CancelMirrors ==
  ASSUME IInv, MInv, Cancel
  PROVE  MInv'
<1>1. /\ AtRest /\ active /\ IsRunning /\ InRest = <<>>
  BY RestMeans DEF Cancel
<1>2. PICK e : e = Event("cancelled", said \o Partial)
  OBVIOUS
<1>3. e[1] \notin Folded
  BY <1>2 DEF Event, Folded
<1>4. inbox' = <<e>>
  <2>1. inbox' = <<>> \o <<e>>
    BY <1>1, <1>2 DEF Cancel, FinishTurn, After, CancelEvents
  <2>2. \A x : <<>> \o <<x>> = <<x>>
    OBVIOUS
  <2> QED
    BY <2>1, <2>2
<1>5. ~Told(Folded, inbox')
  BY <1>3, <1>4, ToldFew, Zenon
<1>6. /\ ~active' /\ ~IsRunning' /\ folds' = folds /\ said' = SoFar(said, step)
  BY <1>1 DEF Cancel, AgentCancel, FinishTurn, IsRunning, SoFar, Partial
<1> QED
  BY <1>5, <1>6, MirroredNoMore

(* bindProvider(null).                                                     *)
LEMMA DetachMirrors ==
  ASSUME IInv, MInv, Detach
  PROVE  MInv'
<1>1. ~active' /\ ~IsRunning' /\ inbox' = <<>> /\ folds' = 0 /\ said' = <<>>
  BY DEF Detach, FreshSession, IsRunning
<1>2. ~Told(Folded, inbox')
  BY <1>1, ToldFew
<1> QED
  BY <1>1, <1>2, MirroredNoMore

(* A stream that fails, or the end of the answer: the turn is over.        *)
LEMMA OverMirrors ==
  ASSUME IInv, MInv, AtRest, IsRunning, ~IsRunning',
         UNCHANGED <<folds, active>>, Summed(said') = Summed(said),
         NEW e, e[1] \notin Folded, NEW after, After(<<>>, <<e>>, after)
  PROVE  MInv'
<1>1. inbox = <<>> /\ inbox' = <<e>>
  BY OneEvent
<1>2. ~Told(Folded, inbox) /\ ~Told(Folded, inbox')
  BY <1>1, ToldFew, Zenon
<1>3. \A i \in DOMAIN inbox' : inbox'[i][1] # "folded"
  BY <1>2 DEF Told, Folded
<1> QED
  BY <1>2, <1>3 DEF MInv, Mirroring, Folding

(* A stream fails.                                                         *)
LEMMA FailMirrors ==
  ASSUME IInv, MInv, StreamFail, UNCHANGED <<sessionVars, deliveryVars>>
  PROVE  MInv'
<1>1. PICK e : e = Event("failed", <<>>)
  OBVIOUS
<1>2. e[1] \notin Folded
  BY <1>1 DEF Event, Folded
<1>3. /\ AtRest /\ IsRunning /\ ~IsRunning' /\ said' = said /\ UNCHANGED <<folds, active>>
      /\ After(<<>>, <<e>>, Teardown)
  BY <1>1 DEF StreamFail, IsRunning, sessionVars, turnVars
<1> QED
  BY <1>2, <1>3, OverMirrors

(* A step that makes no call ends the turn.                                *)
LEMMA AnswerEndMirrors ==
  ASSUME IInv, MInv, StreamEnd, step = <<>>, UNCHANGED <<sessionVars, deliveryVars>>
  PROVE  MInv'
<1>1. PICK e : e = Event("completed", said')
  OBVIOUS
<1>2. e[1] \notin Folded
  BY <1>1 DEF Event, Folded
<1>3. PICK entry : entry = ModelEntry(Len(said) + 1, step)
  OBVIOUS
<1>4. /\ AtRest /\ IsRunning /\ ~IsRunning' /\ UNCHANGED <<folds, active>>
      /\ After(<<>>, <<e>>, Teardown) /\ said' = Append(said, entry)
  BY <1>1, <1>3 DEF StreamEnd, IsRunning, sessionVars, turnVars
<1>5. Summed(said') = Summed(said)
  <2>1. said \in Seq(TurnEntries) /\ step \in Seq(Calls)
    BY DEF IInv, StateOK
  <2>2. entry \in TurnEntries /\ ~IsKind("summary", entry)
    BY <1>3, <2>1 DEF ModelEntry, Models, TurnEntries, IsKind
  <2> QED
    BY <1>4, <2>1, <2>2, SummariesCounted
<1> QED
  BY <1>2, <1>4, <1>5, OverMirrors

-----------------------------------------------------------------------------
(* A turn starts with an empty mirror of an empty transcript.              *)
LEMMA StartMirrors ==
  ASSUME IInv, MInv, ~active, ~At("deliver"), NEW g, NEW from, NEW before,
         StartRun(g, from, before)
  PROVE  MInv'
<1>1. CanRun /\ ~IsRunning /\ inbox = <<>> /\ InRest = <<>>
  BY DEF IInv, Agreement, CanRun, InRest
<1>2. PICK fold \in BOOLEAN :
        AgentRun(g, fold) /\ After(before, RunEvents(fold), <<Ran(TRUE, from)>>)
  BY <1>1 DEF StartRun
<1>3. /\ said' = <<>> /\ step' = <<>> /\ mirror' = <<>> /\ folds' = 0
      /\ phase' = (IF fold THEN "prompt" ELSE "streaming")
      /\ fold => MayFold(<<>>)
  BY <1>1, <1>2 DEF AgentRun, StartStep, StartRun
<1>4. PICK a, b \in Events : a = Event("started", <<>>) /\ b = Event("needs prompt", <<>>)
  <2>1. <<>> \in Seq(TurnEntries)
    OBVIOUS
  <2> QED
    BY <2>1, EventsAre
<1>5. a[1] = "started" /\ a[2] = <<>> /\ b[1] = "needs prompt"
  BY <1>4, EventsAre
<1>6. /\ inbox' \in Seq(Events)
      /\ \A i \in DOMAIN inbox' : inbox'[i] \in {a, b}
  <2>1. RunEvents(fold) = <<a>> \o (IF fold THEN <<b>> ELSE <<>>)
    BY <1>4 DEF RunEvents, StepEvents
  <2>2. /\ <<a>> \o <<b>> \in Seq(Events) /\ <<a>> \o <<>> \in Seq(Events)
        /\ \A i \in DOMAIN (<<a>> \o <<b>>) : (<<a>> \o <<b>>)[i] \in {a, b}
        /\ \A i \in DOMAIN (<<a>> \o <<>>) : (<<a>> \o <<>>)[i] \in {a, b}
    OBVIOUS
  <2>3. /\ RunEvents(fold) \in Seq(Events)
        /\ \A i \in DOMAIN RunEvents(fold) : RunEvents(fold)[i] \in {a, b}
    BY <2>1, <2>2
  <2>4. \A s \in Seq(Events) : <<>> \o s = s
    OBVIOUS
  <2>5. inbox' = <<>> \o RunEvents(fold)
    BY <1>1, <1>2 DEF After
  <2> QED
    BY <2>3, <2>4, <2>5
<1>7. /\ \A i \in DOMAIN inbox' :
           /\ inbox'[i][1] \in {"started", "updated"} => inbox'[i][2] = <<>>
           /\ inbox'[i][1] \notin {"answer", "call", "folded"}
      /\ ~Told(CallNews, inbox') /\ ~Told(Folded, inbox')
  BY <1>5, <1>6 DEF Told, CallNews, Folded
<1>8. Mirroring'
  <2>1. SoFar(<<>>, <<>>) = <<>>
    BY DEF SoFar
  <2> QED
    BY <1>3, <1>7, <2>1 DEF Mirroring
<1>9. Folding'
  <2>1. MaxFolds \in Nat
    BY SessionAssumption
  <2>2. fold => Summed(<<>>) < MaxFolds
    BY <1>3 DEF MayFold, Summed
  <2> QED
    BY <1>3, <1>7, <2>1, <2>2, NoneSummed DEF Folding
<1> QED
  BY <1>8, <1>9 DEF MInv

(* _runTurn, with or without a cancellation to wait for.                   *)
LEMMA RunTurnMirrors ==
  ASSUME IInv, MInv, ~active, ~At("deliver"), NEW g, NEW from, NEW before,
         RunTurn(g, from, before)
  PROVE  MInv'
<1>1. CASE ~pendingCancel
  BY <1>1, StartMirrors DEF RunTurn
<1>2. CASE pendingCancel
  <2>1. /\ After(before, <<>>, <<Resume(g, from)>>)
        /\ UNCHANGED <<active, mirror, folds, agentVars>>
    BY <1>2 DEF RunTurn
  <2>2. UNCHANGED <<said, step, phase>> /\ (IsRunning' => IsRunning)
    BY <2>1 DEF agentVars, IsRunning
  <2> QED
    BY <2>1, <2>2, MirrorLeftAlone
<1> QED
  BY <1>1, <1>2

(* An input of the buffer, with the turn it may start.                     *)
LEMMA DeliverMirrors ==
  ASSUME IInv, MInv, ~At("deliver"), NEW canRun, Deliver(canRun)
  PROVE  MInv'
<1>1. CASE UNCHANGED <<turnVars, agentVars>> /\ \E after : After(<<>>, <<>>, after)
  <2>1. /\ UNCHANGED <<said, step, folds, mirror, active, phase>>
        /\ IsRunning' => IsRunning
    BY <1>1 DEF turnVars, agentVars, IsRunning
  <2> QED
    BY <1>1, <2>1, MirrorLeftAlone
<1>2. CASE RunTurn("respond", "delivery", <<Idled>>) /\ ~active
  BY <1>2, RunTurnMirrors
<1> QED
  BY <1>1, <1>2 DEF Deliver, BeginDeliveryTurn

(* The handlers that may start a turn.                                     *)
LEMMA StartersMirror ==
  ASSUME IInv, MInv, \/ Submit \/ Compact \/ Resumed \/ IdleSeen \/ Attach
                     \/ \E c \in Calls : BackgroundEnds(c)
  PROVE  MInv'
<1>1. CASE Submit \/ Compact
  <2>1. ~active /\ ~At("deliver")
    BY <1>1 DEF Submit, Compact, At, AtRest
  <2> QED
    BY <1>1, <2>1, RunTurnMirrors DEF Submit, Compact
<1>2. CASE Resumed
  <2>1. At("resume") /\ Head(micro).does \in Resumes
    BY <1>2, HeadDoes, DoingNames DEF Resumed, IInv
  <2>2. Has(Resumes, micro)
    BY <2>1, HeadDoes DEF IInv
  <2>3. ~active /\ ~At("deliver")
    BY <2>1, <2>2 DEF IInv, Buffering, At
  <2> QED
    BY <1>2, <2>3, StartMirrors DEF Resumed
<1>3. CASE IdleSeen
  BY <1>3, DeliverMirrors DEF IdleSeen, At
<1>4. CASE Attach
  BY <1>4, DeliverMirrors DEF Attach, At, AtRest
<1>5. CASE \E c \in Calls : BackgroundEnds(c)
  BY <1>5, DeliverMirrors DEF BackgroundEnds, At, AtRest
<1> QED
  BY <1>1, <1>2, <1>3, <1>4, <1>5

(* Swaps of the history, and the work behind the calls.                    *)
LEMMA RestMirrors ==
  ASSUME IInv, MInv,
         \/ Clear \/ BeginSwap \/ Loaded \/ Rewound
         \/ \E c \in Calls : WorkEnds(c) \/ WorkHandedOff(c)
  PROVE  MInv'
<1>1. /\ AtRest /\ UNCHANGED agentVars /\ UNCHANGED <<active, mirror, folds>>
      /\ \E after : After(<<>>, <<>>, after)
  BY DEF Clear, BeginSwap, Loaded, Rewound, WorkEnds, WorkHandedOff, LoadJournal, Settle, turnVars
<1>2. ~At("deliver") /\ UNCHANGED <<said, step, phase>> /\ (IsRunning' => IsRunning)
  BY <1>1 DEF At, AtRest, agentVars, IsRunning
<1> QED
  BY <1>1, <1>2, MirrorLeftAlone

(* Nothing happens.                                                        *)
LEMMA StutterMirrors ==
  ASSUME IInv, MInv, UNCHANGED vars
  PROVE  MInv'
<1>1. UNCHANGED <<said, step, folds, inbox, mirror, active, phase, turn>>
  BY DEF vars, sessionVars, turnVars, agentVars, loopVars
<1>2. IsRunning' => IsRunning
  BY <1>1 DEF IsRunning
<1> QED
  BY <1>1, <1>2, MirroredStill

(* A call joins the step, and its event is on its way to the mirror.       *)
LEMMA StreamCallMirrors ==
  ASSUME IInv, MInv, NEW c \in Calls, StreamCall(c), UNCHANGED <<sessionVars, deliveryVars>>
  PROVE  MInv'
<1>1. PICK e : e = Event("call", [id |-> Len(said) + 1, call |-> c])
  OBVIOUS
<1>2. e[1] = "call"
  BY <1>1 DEF Event
<1>3. /\ AtRest /\ IsRunning /\ phase = "streaming" /\ After(<<>>, <<e>>, <<>>)
      /\ step' = Append(step, c)
      /\ UNCHANGED <<said, phase, turn, mirror, folds, active>>
  BY <1>1 DEF StreamCall, sessionVars, turnVars
<1>4. inbox = <<>> /\ inbox' = <<e>>
  BY <1>3, OneEvent
<1>5. /\ \A N : Told(N, inbox') <=> e[1] \in N
      /\ \A N : ~Told(N, inbox)
      /\ \A i \in DOMAIN inbox' : inbox'[i][1] = "call"
  <2>1. DOMAIN <<e>> = {1} /\ <<e>>[1] = e
    OBVIOUS
  <2> QED
    BY <1>2, <1>4, <2>1, ToldFew
<1>6. step' # <<>> /\ Front(step') = step /\ Last(step') = c
  <2>1. step \in Seq(Calls)
    BY DEF IInv, StateOK
  <2> QED
    BY <1>3, <2>1 DEF Front, Last
<1>7. mirror = SoFar(said, step)
  BY <1>3, <1>5 DEF MInv, Mirroring
<1>8. Told(CallNews, inbox')
  BY <1>2, <1>5 DEF CallNews
<1>9. Mirroring'
  BY <1>1, <1>3, <1>4, <1>5, <1>6, <1>7, <1>8 DEF Mirroring
<1>10. Folding'
  <2>1. ~Told(Folded, inbox')
    <3>1. e[1] \notin Folded
      BY <1>2 DEF Folded
    <3> QED
      BY <1>5, <3>1, Zenon
  <2> QED
    BY <1>3, <1>5, <2>1 DEF MInv, Folding, IsRunning
<1> QED
  BY <1>9, <1>10 DEF MInv

(* The finished step is what the mirror has.                               *)
LEMMA StepEndMirrors ==
  ASSUME IInv, MInv, StreamEnd, step # <<>>, UNCHANGED <<sessionVars, deliveryVars>>
  PROVE  MInv'
<1>1. PICK entry : entry = ModelEntry(Len(said) + 1, step)
  OBVIOUS
<1>2. PICK e : e = Event("needs results", entry)
  OBVIOUS
<1>3. e[1] = "needs results" /\ entry.id = Len(said) + 1
  BY <1>1, <1>2 DEF Event, ModelEntry
<1>4. /\ AtRest /\ IsRunning /\ phase = "streaming" /\ phase' = "tools"
      /\ said' = Append(said, entry) /\ step' = <<>>
      /\ After(<<>>, <<e>>, <<>>)
      /\ UNCHANGED <<mirror, folds, active>>
  BY <1>1, <1>2 DEF StreamEnd, sessionVars, turnVars
<1>5. inbox = <<>> /\ inbox' = <<e>>
  BY <1>4, OneEvent
<1>6. /\ \A N : Told(N, inbox') <=> e[1] \in N
      /\ \A N : ~Told(N, inbox)
      /\ \A i \in DOMAIN inbox' : inbox'[i][1] = "needs results"
  <2>1. DOMAIN <<e>> = {1} /\ <<e>>[1] = e
    OBVIOUS
  <2> QED
    BY <1>3, <1>5, <2>1, ToldFew
<1>7. said \in Seq(TurnEntries) /\ step \in Seq(Calls)
  BY DEF IInv, StateOK
<1>8. entry \in TurnEntries /\ ~IsKind("summary", entry)
  BY <1>1, <1>7 DEF ModelEntry, Models, TurnEntries, IsKind
<1>9. /\ mirror = Append(said, entry) /\ Len(said') = Len(said) + 1 /\ Last(said') = entry
      /\ said' \in Seq(TurnEntries)
  <2>1. mirror = SoFar(said, step)
    BY <1>4, <1>6 DEF MInv, Mirroring
  <2>2. SoFar(said, step) = Append(said, entry)
    <3>1. said \o <<entry>> = Append(said, entry)
      BY <1>7, <1>8
    <3> QED
      BY <1>1, <3>1 DEF SoFar
  <2>3. /\ Len(Append(said, entry)) = Len(said) + 1 /\ Last(Append(said, entry)) = entry
        /\ Append(said, entry) \in Seq(TurnEntries)
    BY <1>7, <1>8 DEF Last
  <2> QED
    BY <1>4, <2>1, <2>2, <2>3
<1>10. mirror' = SoFar(said', step')
  <2>1. said' \o <<>> = said'
    BY <1>9
  <2> QED
    BY <1>4, <1>9, <2>1 DEF SoFar
<1>11. ~Told(CallNews, inbox') /\ ~Told(Folded, inbox')
  <2>1. e[1] \notin CallNews /\ e[1] \notin Folded
    BY <1>3 DEF CallNews, Folded
  <2> QED
    BY <1>6, <2>1, Zenon
<1>12. Mirroring'
  <2>1. Last(said').id = Len(said') /\ inbox' = <<Event("needs results", Last(said'))>>
    BY <1>2, <1>3, <1>5, <1>9
  <2> QED
    BY <1>4, <1>6, <1>10, <1>11, <2>1 DEF Mirroring
<1>13. Folding'
  <2>1. Summed(said') = Summed(said)
    BY <1>4, <1>7, <1>8, SummariesCounted
  <2> QED
    BY <1>4, <1>6, <1>11, <2>1 DEF MInv, Folding
<1> QED
  BY <1>12, <1>13 DEF MInv

(* A fold is in the transcript, and its events on their way to the mirror. *)
LEMMA SummaryMirrors ==
  ASSUME IInv, MInv, SummaryEnd, UNCHANGED <<sessionVars, deliveryVars>>
  PROVE  MInv'
<1>1. /\ AtRest /\ IsRunning /\ phase = "summarizing"
      /\ said' = Append(said, SummaryEntry) /\ step' = <<>>
      /\ phase' \in {"streaming", "over"}
      /\ UNCHANGED <<mirror, folds, active>>
  BY DEF SummaryEnd, StartStep, sessionVars, turnVars
<1>2. said \in Seq(TurnEntries) /\ said' \in Seq(TurnEntries)
  <2>1. SummaryEntry \in TurnEntries
    BY DEF TurnEntries
  <2> QED
    BY <1>1, <2>1 DEF IInv, StateOK
<1>3. PICK a, b, c \in Events : /\ a = Event("folded", <<>>) /\ b = Event("updated", said')
                                /\ c = Event("completed", said')
                                /\ a[1] = "folded" /\ b[1] = "updated" /\ c[1] = "completed"
                                /\ b[2] = said'
  <2>1. \A n, x : Event(n, x)[1] = n /\ Event(n, x)[2] = x
    BY EventsAre
  <2>2. /\ Event("folded", <<>>) \in Events /\ Event("updated", said') \in Events
        /\ Event("completed", said') \in Events
    BY <1>2, EventsAre
  <2> QED
    BY <2>1, <2>2
<1>4. PICK events : /\ inbox' = InRest \o events
                    /\ events = <<a, b>> \/ events = Append(<<a, b>>, c)
  BY <1>1, <1>3 DEF SummaryEnd, After
<1>5. /\ events \in Seq(Events) /\ 1 \in DOMAIN events /\ events[1] = a
      /\ \A i \in DOMAIN events : i # 1 => events[i] \in {b, c}
      /\ 2 \in DOMAIN events /\ events[2] = b
  <2>1. /\ <<a, b>> \in Seq(Events) /\ DOMAIN <<a, b>> = 1..2 /\ Len(<<a, b>>) = 2
        /\ <<a, b>>[1] = a /\ <<a, b>>[2] = b
    OBVIOUS
  <2>2. /\ Append(<<a, b>>, c) \in Seq(Events) /\ DOMAIN Append(<<a, b>>, c) = 1..3
        /\ Append(<<a, b>>, c)[1] = a /\ Append(<<a, b>>, c)[2] = b
        /\ Append(<<a, b>>, c)[3] = c
    OBVIOUS
  <2> QED
    <3>1. CASE events = <<a, b>>
      BY <2>1, <3>1
    <3>2. CASE events = Append(<<a, b>>, c)
      <4>1. DOMAIN events = 1..3 /\ events[1] = a /\ events[2] = b /\ events[3] = c
        BY <2>2, <3>2
      <4>2. \A i \in 1..3 : i = 1 \/ i = 2 \/ i = 3
        OBVIOUS
      <4>3. events \in Seq(Events)
        BY <2>2, <3>2
      <4> QED
        BY <4>1, <4>2, <4>3
    <3> QED
      BY <1>4, <3>1, <3>2
<1>6. inbox = <<>> /\ inbox' = events
  <2>1. InRest = <<>> /\ inbox = <<>>
    BY <1>1, RestMeans
  <2>2. \A s \in Seq(Events) : <<>> \o s = s
    OBVIOUS
  <2> QED
    BY <1>4, <1>5, <2>1, <2>2
<1>7. /\ Told(Folded, inbox') /\ ~Told(CallNews, inbox') /\ Told(Updates, inbox')
      /\ \A N : ~Told(N, inbox)
  <2>1. Told(Folded, inbox') /\ Told(Updates, inbox')
    BY <1>3, <1>5, <1>6 DEF Told, Folded, Updates
  <2>2. ~Told(CallNews, inbox')
    BY <1>3, <1>5, <1>6 DEF Told, CallNews
  <2> QED
    BY <1>6, <2>1, <2>2, ToldFew
<1>8. Mirroring'
  <2>1. \A i \in DOMAIN inbox' :
          inbox'[i][1] \in {"started", "updated"} => inbox'[i][2] = said'
    BY <1>3, <1>5, <1>6
  <2>2. \A i \in DOMAIN inbox' : inbox'[i][1] # "answer"
    BY <1>3, <1>5, <1>6
  <2> QED
    BY <1>1, <1>7, <2>1, <2>2 DEF Mirroring
<1>9. Folding'
  <2>1. Summed(said') = Summed(said) + 1 /\ Summed(said) \in Nat
    <3>1. SummaryEntry \in TurnEntries /\ IsKind("summary", SummaryEntry)
      BY DEF TurnEntries, SummaryEntry, IsKind
    <3> QED
      BY <1>1, <1>2, <3>1, SummariesCounted
  <2>2. Summed(said) < MaxFolds /\ MaxFolds \in Nat
    BY <1>1, SessionAssumption DEF MInv, Folding
  <2>3. active => folds + 0 = Summed(said)
    BY <1>7 DEF MInv, Folding
  <2>4. \A i \in DOMAIN inbox' : inbox'[i][1] = "folded" => i = 1
    BY <1>3, <1>5, <1>6
  <2>5. folds \in 0..MaxFolds
    BY DEF MInv, Folding
  <2> QED
    BY <1>1, <1>7, <2>1, <2>2, <2>3, <2>4, <2>5 DEF Folding
<1> QED
  BY <1>8, <1>9 DEF MInv

(* The answers of a step, then the transcript that has them.               *)
LEMMA ResultNews ==
  ASSUME NEW results \in Seq(Answers), NEW fold \in BOOLEAN, said \in Seq(TurnEntries),
         NEW r, r = ResultEvents(results, fold)
  PROVE  /\ \A i \in DOMAIN r :
              /\ r[i][1] \notin {"started", "call", "folded"}
              /\ r[i][1] = "updated" => r[i][2] = said \o results
              /\ r[i][1] = "answer" => \E j \in DOMAIN r : i < j /\ r[j][1] = "updated"
         /\ Told(Updates, r) /\ r \in Seq(Events)
<1>1. r \in Seq(Events) /\ said \o results \in Seq(TurnEntries)
  BY TakenEvents
<1>2. PICK u \in Events : /\ u = Event("updated", said \o results)
                          /\ u[1] = "updated" /\ u[2] = said \o results
  <2>1. /\ Event("updated", said \o results)[1] = "updated"
        /\ Event("updated", said \o results)[2] = said \o results
    BY DEF Event
  <2>2. Event("updated", said \o results) \in Events
    BY <1>1, EventsAre
  <2> QED
    BY <2>1, <2>2
<1>3. PICK a \in Seq(Events) : /\ a = [i \in DOMAIN results |-> Event("answer", results[i])]
                               /\ \A i \in DOMAIN a : a[i][1] = "answer"
  <2>1. \A i \in DOMAIN results : results[i] \in Answers
    OBVIOUS
  <2>2. PICK E : E = [x \in Answers |-> Event("answer", x)]
    OBVIOUS
  <2>3. \A x \in Answers : E[x] \in Events /\ E[x][1] = "answer"
    <3>1. \A x \in Answers : E[x] = Event("answer", x)
      BY <2>2
    <3>2. \A x \in Answers : Event("answer", x) \in Events /\ Event("answer", x)[1] = "answer"
      BY EventsAre, Zenon
    <3> QED
      BY <3>1, <3>2
  <2>4. [i \in DOMAIN results |-> Event("answer", results[i])]
          = [i \in DOMAIN results |-> E[results[i]]]
    BY <2>1, <2>2
  <2>5. /\ [i \in DOMAIN results |-> E[results[i]]] \in Seq(Events)
        /\ \A i \in DOMAIN results : [j \in DOMAIN results |-> E[results[j]]][i][1] = "answer"
    BY <2>1, <2>3
  <2> QED
    BY <2>4, <2>5
<1>4. PICK t \in Seq(Events) : /\ t = StepEvents(fold)
                               /\ \A i \in DOMAIN t : t[i][1] = "needs prompt"
  <2>1. PICK p \in Events : p = Event("needs prompt", <<>>) /\ p[1] = "needs prompt"
    BY EventsAre
  <2>2. /\ <<p>> \in Seq(Events) /\ \A i \in DOMAIN <<p>> : <<p>>[i] = p
        /\ <<>> \in Seq(Events) /\ DOMAIN <<>> = {}
    OBVIOUS
  <2>3. CASE fold
    <3>1. StepEvents(fold) = <<p>>
      BY <2>1, <2>3 DEF StepEvents
    <3> QED
      BY <2>1, <2>2, <3>1
  <2>4. CASE ~fold
    <3>1. StepEvents(fold) = <<>>
      BY <2>4 DEF StepEvents
    <3> QED
      BY <2>2, <3>1
  <2> QED
    BY <2>3, <2>4
<1>5. r = (a \o <<u>>) \o t
  BY <1>2, <1>3, <1>4 DEF ResultEvents
<1>6. PICK b \in Seq(Events) : b = a \o <<u>>
  <2>1. <<u>> \in Seq(Events)
    OBVIOUS
  <2> QED
    BY <2>1, ConcatIndices
<1>7. PICK n \in Nat : /\ n \in DOMAIN b /\ b[n] = u /\ DOMAIN b = 1..n
                       /\ \A i \in 1..n : i # n => i \in DOMAIN a /\ b[i] = a[i]
  <2>1. /\ Len(a) + 1 \in DOMAIN (a \o <<u>>) /\ (a \o <<u>>)[Len(a) + 1] = u
        /\ DOMAIN (a \o <<u>>) = 1..(Len(a) + 1) /\ Len(a) + 1 \in Nat
        /\ \A i \in 1..(Len(a) + 1) :
             i # Len(a) + 1 => i \in DOMAIN a /\ (a \o <<u>>)[i] = a[i]
    OBVIOUS
  <2> QED
    BY <1>6, <2>1
<1>8. /\ \A i \in DOMAIN b : i \in DOMAIN r /\ r[i] = b[i]
      /\ \A i \in DOMAIN r : i \in DOMAIN b \/ \E k \in DOMAIN t : r[i] = t[k]
  <2>1. Indices(b, t) /\ r = b \o t
    BY <1>5, <1>6, ConcatIndices
  <2>2. \A i \in DOMAIN b : i \in DOMAIN r /\ r[i] = b[i]
    BY <2>1 DEF Indices
  <2>3. ASSUME NEW i \in DOMAIN r, i \notin DOMAIN b
        PROVE  \E k \in DOMAIN t : r[i] = t[k]
    <3>1. i - Len(b) \in DOMAIN t /\ i = (i - Len(b)) + Len(b)
      BY <2>1, <2>3 DEF Indices
    <3>2. r[(i - Len(b)) + Len(b)] = t[i - Len(b)]
      BY <2>1, <3>1 DEF Indices
    <3> QED
      BY <3>1, <3>2
  <2> QED
    BY <2>2, <2>3
<1>9. n \in DOMAIN r /\ r[n] = u
  BY <1>7, <1>8
<1>10. \A i \in DOMAIN r : \/ i \in 1..n /\ i # n /\ r[i][1] = "answer"
                           \/ r[i] = u
                           \/ r[i][1] = "needs prompt"
  <2> TAKE i \in DOMAIN r
  <2>1. CASE i \in DOMAIN b /\ i = n
    BY <1>9, <2>1
  <2>2. CASE i \in DOMAIN b /\ i # n
    <3>1. i \in 1..n /\ i \in DOMAIN a /\ r[i] = a[i]
      BY <1>7, <1>8, <2>2
    <3> QED
      BY <1>3, <2>2, <3>1
  <2>3. CASE \E k \in DOMAIN t : r[i] = t[k]
    BY <1>4, <2>3
  <2> QED
    BY <1>8, <2>1, <2>2, <2>3
<1>11. \A i \in 1..n : i # n => i < n
  OBVIOUS
<1>12. Told(Updates, r)
  BY <1>2, <1>9 DEF Told, Updates
<1>13. ASSUME NEW i \in DOMAIN r
       PROVE  /\ r[i][1] \notin {"started", "call", "folded"}
              /\ r[i][1] = "updated" => r[i][2] = said \o results
              /\ r[i][1] = "answer" => \E j \in DOMAIN r : i < j /\ r[j][1] = "updated"
  <2>1. CASE i \in 1..n /\ i # n /\ r[i][1] = "answer"
    BY <1>2, <1>9, <1>11, <2>1
  <2>2. CASE r[i] = u
    BY <1>2, <2>2
  <2>3. CASE r[i][1] = "needs prompt"
    BY <2>3
  <2> QED
    BY <1>10, <2>1, <2>2, <2>3
<1> QED
  BY <1>1, <1>12, <1>13

(* The answers are taken: they are on their way to the mirror.             *)
LEMMA ResultsMirror ==
  ASSUME IInv, AInv, MInv, ResultsJoined
  PROVE  MInv'
<1>1. /\ At("joined") /\ ~At("deliver") /\ UNCHANGED <<mirror, folds, active>>
      /\ InRest = inbox
  BY DEF ResultsJoined, At, InRest, sessionVars, turnVars
<1>2. Arg \in Seq(Answers) /\ Has(Joins, micro)
  <2>1. Head(micro).does \in Joins
    BY <1>1, HeadDoes, DoingNames DEF IInv
  <2> QED
    BY <1>1, <2>1, HeadIs, HeadDoes DEF IInv
<1>3. inbox \in Seq(Events) /\ said \in Seq(TurnEntries)
  BY DEF IInv, QueuesOK, StateOK
<1>4. CASE ~(live /\ active /\ MaySubmit("tools"))
  <2>1. UNCHANGED agentVars /\ After(<<>>, <<>>, <<>>)
    BY <1>4 DEF ResultsJoined
  <2>2. UNCHANGED <<said, step, phase>> /\ (IsRunning' => IsRunning)
    BY <2>1 DEF agentVars, IsRunning
  <2> QED
    BY <1>1, <2>1, <2>2, MirrorLeftAlone
<1>5. CASE live /\ active /\ MaySubmit("tools")
  <2>1. PICK fold \in BOOLEAN :
          AgentTakesResults(Arg, fold) /\ After(<<>>, ResultEvents(Arg, fold), <<>>)
    BY <1>5 DEF ResultsJoined
  <2>2. /\ Asking /\ IsRunning /\ phase = "tools"
        /\ said' = said \o Arg /\ step' = <<>>
        /\ phase' = (IF fold THEN "prompt" ELSE "streaming")
        /\ fold => MayFold(said')
    BY <1>5, <2>1 DEF AgentTakesResults, StartStep, MaySubmit, Asking
  <2>3. ~Told(Wanted, inbox)
    BY <1>2, <2>2 DEF AInv, Joining
  <2>4. inbox = <<>>
    <3>1. \A x : Told(Wanted, <<Event("needs results", x)>>)
      <4>1. \A x : Event("needs results", x)[1] \in Wanted
        BY DEF Event, Wanted
      <4> QED
        BY <4>1, ToldFew, Zenon
    <3> QED
      BY <2>2, <2>3, <3>1 DEF MInv, Mirroring
  <2>5. PICK r : r = ResultEvents(Arg, fold)
    OBVIOUS
  <2>6. /\ \A i \in DOMAIN r :
             /\ r[i][1] \notin {"started", "call", "folded"}
             /\ r[i][1] = "updated" => r[i][2] = said'
             /\ r[i][1] = "answer" => \E j \in DOMAIN r : i < j /\ r[j][1] = "updated"
        /\ Told(Updates, r) /\ r \in Seq(Events)
    BY <1>2, <1>3, <2>2, <2>5, ResultNews
  <2>7. inbox' = r
    <3>1. inbox' = <<>> \o r
      BY <1>1, <2>1, <2>4, <2>5 DEF After
    <3>2. \A s \in Seq(Events) : <<>> \o s = s
      OBVIOUS
    <3> QED
      BY <2>6, <3>1, <3>2
  <2>8. ~Told(CallNews, inbox') /\ ~Told(Folded, inbox')
    BY <2>6, <2>7 DEF Told, CallNews, Folded
  <2>9. Mirroring'
    BY <2>2, <2>6, <2>7, <2>8 DEF Mirroring
  <2>10. Summed(said') = Summed(said)
    <3>1. Arg \in Seq(TurnEntries)
      <4>1. Answers \subseteq TurnEntries
        BY DEF TurnEntries
      <4> QED
        BY <1>2, <4>1
    <3>2. \A i \in DOMAIN Arg : ~IsKind("summary", Arg[i])
      <4>1. \A x \in Answers : ~IsKind("summary", x)
        BY DEF Answers, IsKind
      <4>2. \A i \in DOMAIN Arg : Arg[i] \in Answers
        BY <1>2
      <4> QED
        BY <4>1, <4>2
    <3> QED
      BY <1>3, <2>2, <3>1, <3>2, SummariesCounted
  <2>11. Folding'
    <3>1. ~Told(Folded, inbox)
      BY <2>4, ToldFew
    <3>2. fold => Summed(said') < MaxFolds
      BY <2>2 DEF MayFold, Summed
    <3>3. phase' \in {"prompt", "summarizing"} => fold
      BY <2>2
    <3> QED
      BY <1>1, <2>6, <2>7, <2>8, <2>10, <3>1, <3>2, <3>3 DEF MInv, Folding
  <2> QED
    BY <2>9, <2>11 DEF MInv
<1> QED
  BY <1>4, <1>5

-----------------------------------------------------------------------------
(* No turn runs at first.                                                  *)
LEMMA InitMirrors == Init => MInv
<1> SUFFICES ASSUME Init PROVE MInv
  OBVIOUS
<1>1. inbox = <<>> /\ ~IsRunning /\ ~active /\ said = <<>> /\ folds = 0 /\ MaxFolds \in Nat
  BY SessionAssumption DEF Init, AgentInit, LoopInit, IsRunning
<1>2. DOMAIN inbox = {}
  BY <1>1
<1> QED
  BY <1>1, <1>2, NoneSummed DEF MInv, Mirroring, Folding

(* Every step keeps the mirror up with the runtime.                        *)
LEMMA NextMirrors == IInv /\ AInv /\ MInv /\ [Next]_vars => MInv'
<1> SUFFICES ASSUME IInv, AInv, MInv, [Next]_vars PROVE MInv'
  OBVIOUS
<1>1. CASE Microtask
  <2>1. CASE \/ Hop /\ UNCHANGED <<sessionVars, agentVars, deliveryVars>>
             \/ Tear /\ UNCHANGED <<sessionVars, deliveryVars>>
             \/ RunAnswered \/ DeliveryAnswered
    BY <2>1, TasksMirror
  <2>2. CASE Resumed \/ IdleSeen
    BY <2>2, StartersMirror
  <2>3. CASE ResultsJoined
    BY <2>3, ResultsMirror
  <2>4. CASE EventIgnored \/ OnTranscript \/ OnAnswer \/ OnNeedsPrompt
    BY <2>4, NewsMirror
  <2>5. CASE OnFolded
    BY <2>5, FoldedMirrors
  <2>6. CASE OnCall
    BY <2>6, CallMirrors
  <2>7. CASE OnNeedsResults
    BY <2>7, NeedsMirrors
  <2>8. CASE OnEnd
    BY <2>8, EndMirrors
  <2> QED
    BY <1>1, <2>1, <2>2, <2>3, <2>4, <2>5, <2>6, <2>7, <2>8 DEF Microtask
<1>2. CASE User
  BY <1>2, StartersMirror, CancelMirrors, RestMirrors DEF User
<1>3. CASE Network
  <2>1. UNCHANGED <<sessionVars, deliveryVars>>
    BY <1>3 DEF Network
  <2>2. CASE \E c \in Calls \ Asked : StreamCall(c)
    BY <2>1, <2>2, StreamCallMirrors
  <2>3. CASE StreamEnd
    BY <2>1, <2>3, StepEndMirrors, AnswerEndMirrors
  <2>4. CASE StreamFail
    BY <2>1, <2>4, FailMirrors
  <2>5. CASE SummaryEnd
    BY <2>1, <2>5, SummaryMirrors
  <2> QED
    BY <1>3, <2>2, <2>3, <2>4, <2>5 DEF Network
<1>4. CASE Attach
  BY <1>4, StartersMirror
<1>5. CASE Detach
  BY <1>5, DetachMirrors
<1>6. CASE \E c \in Calls : Work(c)
  BY <1>6, StartersMirror, RestMirrors DEF Work
<1>7. CASE UNCHANGED vars
  BY <1>7, StutterMirrors
<1> QED
  BY <1>1, <1>2, <1>3, <1>4, <1>5, <1>6, <1>7 DEF Next

(* What the session mirrors is the runtime's transcript but for the events *)
(* that are still on their way, and it counts the folds of the turn.       *)
THEOREM MirrorInvariance == Spec => []MInv
<1>1. Init => MInv
  BY InitMirrors
<1>2. IInv /\ AInv /\ MInv /\ [Next]_vars => MInv'
  BY NextMirrors
<1> QED
  BY <1>1, <1>2, SessionInvariance, AskInvariance, PTL DEF Spec

(* At rest nothing is on its way to the mirror.                            *)
LEMMA MirroredAtRest == IInv /\ MInv => MirrorFollowsRuntime
<1> SUFFICES ASSUME IInv, MInv, AtRest, active
             PROVE  mirror = said \o Partial /\ folds = CountOf("summary", said)
  BY DEF MirrorFollowsRuntime
<1>1. inbox = <<>> /\ IsRunning
  BY RestMeans
<1>2. \A N : ~Told(N, inbox)
  BY <1>1, ToldFew
<1>3. mirror = SoFar(said, step)
  BY <1>1, <1>2 DEF MInv, Mirroring
<1>4. folds + 0 = Summed(said) /\ folds \in 0..MaxFolds
  BY <1>2 DEF MInv, Folding
<1> QED
  BY <1>3, <1>4, SessionAssumption DEF SoFar, Partial, Summed

(* At rest, the session has the runtime's own transcript, the step in      *)
(* progress included, and has counted its folds.                           *)
THEOREM MirrorFollows == Spec => []MirrorFollowsRuntime
<1>1. IInv /\ MInv => MirrorFollowsRuntime
  BY MirroredAtRest
<1> QED
  BY <1>1, SessionInvariance, MirrorInvariance, PTL

(* The types, and the bound on the folds.                                  *)
LEMMA TypesHold == IInv /\ MInv => TypeOK
<1> SUFFICES ASSUME IInv, MInv PROVE TypeOK
  OBVIOUS
<1>1. \A q \in Seq(Calls) : ToSet(q) \subseteq Calls
  BY DEF ToSet
<1>2. folds \in 0..MaxFolds
  BY DEF MInv, Folding
<1> QED
  BY <1>1, <1>2 DEF TypeOK, IInv, StateOK

(* Every variable has its type, and the state of the buffer says what it   *)
(* holds.                                                                  *)
THEOREM SessionTyped == Spec => []TypeOK
<1>1. IInv /\ MInv => TypeOK
  BY TypesHold
<1> QED
  BY <1>1, SessionInvariance, MirrorInvariance, PTL

-----------------------------------------------------------------------------
(* What FlattenSeq computes: f[i] is the first i sequences of s in a row.  *)
FlatUpTo(f, s, n) == f = [i \in 1..n |-> IF i = 1 THEN s[i] ELSE f[i - 1] \o s[i]]

(* Where the elements of the first n sequences of s are in their row.      *)
Placed(at, s, n, row) ==
  /\ \A i \in 1..n : \A k \in DOMAIN s[i] : /\ at[i] + k \in DOMAIN row
                                            /\ row[at[i] + k] = s[i][k]
  /\ \A p \in DOMAIN row : \E i \in 1..n : \E k \in DOMAIN s[i] : p = at[i] + k
  /\ \A i \in 1..n : at[i] + Len(s[i]) <= Len(row)
  /\ \A i, j \in 1..n : i < j => at[i] + Len(s[i]) <= at[j]

(* A set of numbers that has 0 and what follows each has them all.         *)
LEMMA NatsByStep ==
  ASSUME NEW S, 0 \in S, \A n \in Nat : n \in S => n + 1 \in S
  PROVE  Nat \subseteq S
<1> SUFFICES ASSUME Nat \ S # {} PROVE FALSE
  OBVIOUS
<1>1. PICK x \in Nat \ S : \A y \in Nat \ S : ~(<<y, x>> \in OpToRel(<, Nat))
  <2>1. IsWellFoundedOn(OpToRel(<, Nat), Nat)
    BY NatLessThanWellFounded
  <2>2. Nat \ S \subseteq Nat
    OBVIOUS
  <2> QED
    BY <2>1, <2>2, WFMin
<1>2. x # 0 /\ x - 1 \in Nat /\ x - 1 < x /\ x = (x - 1) + 1
  <2>1. x \in Nat /\ x # 0
    OBVIOUS
  <2> QED
    BY <2>1
<1>3. <<x - 1, x>> \in OpToRel(<, Nat)
  BY <1>1, <1>2 DEF OpToRel
<1>4. x - 1 \in S
  BY <1>1, <1>2, <1>3
<1> QED
  BY <1>1, <1>2, <1>4

(* There is such a row for every beginning of s.                           *)
LEMMA FlatExists ==
  ASSUME NEW s
  PROVE  \A n \in Nat : \E f : FlatUpTo(f, s, n)
<1> DEFINE S == {n \in Nat : \E f : FlatUpTo(f, s, n)}
<1>1. 0 \in S
  <2>1. PICK f : f = [i \in 1..0 |-> s[i]]
    OBVIOUS
  <2>2. f = [i \in 1..0 |-> IF i = 1 THEN s[i] ELSE f[i - 1] \o s[i]]
    BY <2>1
  <2> QED
    BY <2>2 DEF FlatUpTo
<1>2. ASSUME NEW n \in Nat, n \in S PROVE n + 1 \in S
  <2>1. PICK f : f = [i \in 1..n |-> IF i = 1 THEN s[i] ELSE f[i - 1] \o s[i]]
    BY <1>2 DEF FlatUpTo
  <2>2. PICK g : g = [i \in 1..(n + 1) |-> IF i = 1 THEN s[i] ELSE f[i - 1] \o s[i]]
    OBVIOUS
  <2>3. \A i \in 1..n : g[i] = f[i]
    <3> TAKE i \in 1..n
    <3>1. i \in 1..(n + 1)
      OBVIOUS
    <3>2. g[i] = IF i = 1 THEN s[i] ELSE f[i - 1] \o s[i]
      BY <2>2, <3>1
    <3>3. f[i] = IF i = 1 THEN s[i] ELSE f[i - 1] \o s[i]
      BY <2>1
    <3> QED
      BY <3>2, <3>3
  <2>4. g = [i \in 1..(n + 1) |-> IF i = 1 THEN s[i] ELSE g[i - 1] \o s[i]]
    <3>1. \A i \in 1..(n + 1) : i # 1 => i - 1 \in 1..n
      OBVIOUS
    <3>2. \A i \in 1..(n + 1) : i # 1 => g[i - 1] = f[i - 1]
      BY <2>3, <3>1
    <3> QED
      BY <2>2, <3>2
  <2>5. \E h : h = [i \in 1..(n + 1) |-> IF i = 1 THEN s[i] ELSE h[i - 1] \o s[i]]
    BY <2>4, Zenon
  <2>6. n + 1 \in Nat
    OBVIOUS
  <2>7. \E h : FlatUpTo(h, s, n + 1)
    BY <2>5 DEF FlatUpTo
  <2> QED
    BY <2>6, <2>7
<1>3. Nat \subseteq S
  <2> HIDE DEF S
  <2> QED
    BY <1>1, <1>2, NatsByStep
<1> QED
  BY <1>3

(* FlattenSeq is the whole row.                                            *)
LEMMA FlattenIs ==
  ASSUME NEW s, Len(s) \in Nat
  PROVE  /\ Len(s) = 0 => FlattenSeq(s) = s
         /\ Len(s) # 0 => \E f : FlatUpTo(f, s, Len(s)) /\ FlattenSeq(s) = f[Len(s)]
<1>1. Len(s) = 0 => FlattenSeq(s) = s
  BY DEF FlattenSeq
<1>2. ASSUME Len(s) # 0
      PROVE  \E f : FlatUpTo(f, s, Len(s)) /\ FlattenSeq(s) = f[Len(s)]
  <2>1. PICK g : g = (CHOOSE f : f = [i \in 1..Len(s) |-> IF i = 1 THEN s[i]
                                                           ELSE f[i - 1] \o s[i]])
    OBVIOUS
  <2>2. FlattenSeq(s) = g[Len(s)]
    BY <1>2, <2>1 DEF FlattenSeq
  <2>3. \E f : f = [i \in 1..Len(s) |-> IF i = 1 THEN s[i] ELSE f[i - 1] \o s[i]]
    BY FlatExists DEF FlatUpTo
  <2>4. g = [i \in 1..Len(s) |-> IF i = 1 THEN s[i] ELSE g[i - 1] \o s[i]]
    BY <2>1, <2>3
  <2> QED
    BY <2>2, <2>4 DEF FlatUpTo
<1> QED
  BY <1>1, <1>2

(* One more sequence in the row.                                           *)
LEMMA PlacedMore ==
  ASSUME NEW T, NEW s \in Seq(Seq(T)), NEW n \in Nat, n + 1 \in 1..Len(s),
         NEW row \in Seq(T), NEW at \in [1..n -> Nat], Placed(at, s, n, row)
  PROVE  /\ row \o s[n + 1] \in Seq(T)
         /\ \E to \in [1..(n + 1) -> Nat] : Placed(to, s, n + 1, row \o s[n + 1])
<1> DEFINE x == s[n + 1]
<1>1. /\ x \in Seq(T) /\ Len(x) \in Nat /\ DOMAIN x = 1..Len(x)
      /\ Len(row) \in Nat /\ DOMAIN row = 1..Len(row)
      /\ row \o x \in Seq(T) /\ Len(row \o x) = Len(row) + Len(x)
      /\ DOMAIN (row \o x) = 1..(Len(row) + Len(x))
      /\ \A i \in 1..Len(row) : (row \o x)[i] = row[i]
      /\ \A i \in 1..Len(x) : (row \o x)[Len(row) + i] = x[i]
  <2>1. x \in Seq(T)
    OBVIOUS
  <2> HIDE DEF x
  <2> QED
    BY <2>1
<1>2. \A i \in 1..n : s[i] \in Seq(T) /\ Len(s[i]) \in Nat /\ DOMAIN s[i] = 1..Len(s[i])
  <2>1. \A i \in 1..n : i \in 1..Len(s)
    OBVIOUS
  <2>2. \A i \in 1..n : s[i] \in Seq(T)
    BY <2>1
  <2> QED
    BY <2>2
<1>3. PICK to \in [1..(n + 1) -> Nat] :
        to[n + 1] = Len(row) /\ \A i \in 1..n : to[i] = at[i]
  <2>1. PICK to : to = [i \in 1..(n + 1) |-> IF i = n + 1 THEN Len(row) ELSE at[i]]
    OBVIOUS
  <2>2. \A i \in 1..(n + 1) : i # n + 1 => i \in 1..n /\ at[i] \in Nat
    OBVIOUS
  <2>3. to \in [1..(n + 1) -> Nat]
    BY <1>1, <2>1, <2>2
  <2>4. \A i \in 1..n : i \in 1..(n + 1) /\ i # n + 1
    OBVIOUS
  <2>5. to[n + 1] = Len(row)
    BY <2>1
  <2>6. \A i \in 1..n : to[i] = at[i]
    BY <2>1, <2>4
  <2> QED
    BY <2>3, <2>5, <2>6
<1> HIDE DEF x
<1>4. \A i \in 1..(n + 1) : i = n + 1 \/ i \in 1..n
  OBVIOUS
<1>5. ASSUME NEW i \in 1..(n + 1), NEW k \in DOMAIN s[i]
      PROVE  to[i] + k \in DOMAIN (row \o x) /\ (row \o x)[to[i] + k] = s[i][k]
  <2>1. CASE i = n + 1
    BY <1>1, <1>3, <1>5, <2>1 DEF x
  <2>2. CASE i \in 1..n
    <3>1. at[i] + k \in DOMAIN row /\ row[at[i] + k] = s[i][k]
      BY <1>5, <2>2 DEF Placed
    <3> QED
      <4>1. to[i] = at[i]
        BY <1>3, <2>2
      <4>2. /\ at[i] + k \in DOMAIN (row \o x)
            /\ (row \o x)[at[i] + k] = row[at[i] + k]
        <5> DEFINE q == at[i] + k
        <5>1. q \in 1..Len(row)
          BY <1>1, <3>1, Zenon
        <5> HIDE DEF q
        <5>2. q \in 1..Len(row) + Len(x)
          <6>1. Len(row) \in Nat /\ Len(x) \in Nat
            BY <1>1
          <6> QED
            BY <5>1, <6>1
        <5>3. q \in DOMAIN (row \o x) /\ (row \o x)[q] = row[q]
          BY <1>1, <5>1, <5>2, Zenon
        <5> QED
          BY <5>3 DEF q
      <4> QED
        BY <3>1, <4>1, <4>2
  <2> QED
    BY <1>4, <2>1, <2>2
<1>6. ASSUME NEW p \in DOMAIN (row \o x)
      PROVE  \E i \in 1..(n + 1) : \E k \in DOMAIN s[i] : p = to[i] + k
  <2>1. CASE p \in 1..Len(row)
    <3>0. p \in DOMAIN row
      BY <1>1, <2>1
    <3>1. PICK i \in 1..n : \E k \in DOMAIN s[i] : p = at[i] + k
      BY <3>0 DEF Placed
    <3>2. i \in 1..(n + 1) /\ to[i] = at[i]
      BY <1>3, <3>1
    <3> QED
      BY <3>1, <3>2
  <2>2. CASE p \notin 1..Len(row)
    <3>1. p - Len(row) \in 1..Len(x) /\ p = Len(row) + (p - Len(row))
      BY <1>1, <1>6, <2>2
    <3>2. n + 1 \in 1..(n + 1)
      OBVIOUS
    <3> QED
      BY <1>1, <1>3, <3>1, <3>2 DEF x
  <2> QED
    BY <2>1, <2>2
<1>7. ASSUME NEW i \in 1..(n + 1) PROVE to[i] + Len(s[i]) <= Len(row \o x)
  <2>1. CASE i = n + 1
    BY <1>1, <1>3, <2>1 DEF x
  <2>2. CASE i \in 1..n
    <3>1. at[i] + Len(s[i]) <= Len(row) /\ at[i] \in Nat
      BY <2>2 DEF Placed
    <3> QED
      BY <1>1, <1>2, <1>3, <2>2, <3>1
  <2> QED
    BY <1>4, <2>1, <2>2
<1>8. ASSUME NEW i \in 1..(n + 1), NEW j \in 1..(n + 1), i < j
      PROVE  to[i] + Len(s[i]) <= to[j]
  <2>1. i \in 1..n
    BY <1>8
  <2>2. CASE j = n + 1
    BY <1>3, <2>1, <2>2 DEF Placed
  <2>3. CASE j \in 1..n
    BY <1>3, <1>8, <2>1, <2>3 DEF Placed
  <2> QED
    BY <1>4, <2>2, <2>3
<1>9. Placed(to, s, n + 1, row \o x)
  BY <1>5, <1>6, <1>7, <1>8 DEF Placed
<1> QED
  BY <1>1, <1>9 DEF x

(* Where each element of each sequence is.                                 *)
LEMMA FlatPlaces ==
  ASSUME NEW T, NEW s \in Seq(Seq(T))
  PROVE  /\ FlattenSeq(s) \in Seq(T)
         /\ \E at \in [1..Len(s) -> Nat] : Placed(at, s, Len(s), FlattenSeq(s))
<1>0. Len(s) \in Nat /\ DOMAIN s = 1..Len(s)
  OBVIOUS
<1>1. CASE Len(s) = 0
  <2>1. FlattenSeq(s) = <<>> /\ s = <<>>
    BY <1>0, <1>1, FlattenIs
  <2>2. PICK at : at = [i \in 1..0 |-> 0]
    OBVIOUS
  <2>3. at \in [1..0 -> Nat] /\ Placed(at, s, 0, <<>>)
    BY <2>2 DEF Placed
  <2>4. Placed(at, s, Len(s), FlattenSeq(s)) /\ at \in [1..Len(s) -> Nat]
    BY <1>1, <2>1, <2>3
  <2>5. FlattenSeq(s) \in Seq(T)
    BY <2>1
  <2> QED
    BY <2>4, <2>5
<1>2. CASE Len(s) # 0
  <2>1. PICK f : FlatUpTo(f, s, Len(s)) /\ FlattenSeq(s) = f[Len(s)]
    BY <1>0, <1>2, FlattenIs
  <2>2. \A i \in 1..Len(s) : f[i] = IF i = 1 THEN s[i] ELSE f[i - 1] \o s[i]
    BY <2>1 DEF FlatUpTo
  <2> DEFINE Fine(n) == f[n] \in Seq(T) /\ \E at \in [1..n -> Nat] : Placed(at, s, n, f[n])
             S == {n \in Nat : n \in 1..Len(s) => Fine(n)}
  <2>3. 0 \in S
    OBVIOUS
  <2>4. ASSUME NEW n \in Nat, n \in S PROVE n + 1 \in S
    <3> SUFFICES ASSUME n + 1 \in 1..Len(s) PROVE Fine(n + 1)
      <4>1. n + 1 \in Nat
        OBVIOUS
      <4> HIDE DEF Fine
      <4> QED
        BY <4>1
    <3>1. CASE n = 0
      <4>1. f[1] = s[1] /\ 1 \in 1..Len(s) /\ s[1] \in Seq(T)
        BY <1>0, <1>2, <2>2
      <4>2. PICK row : row = <<>>
        OBVIOUS
      <4>3. PICK at : at = [i \in 1..0 |-> 0]
        OBVIOUS
      <4>4. row \in Seq(T) /\ at \in [1..0 -> Nat] /\ Placed(at, s, 0, row)
        BY <4>2, <4>3 DEF Placed
      <4>5. \E to \in [1..(0 + 1) -> Nat] : Placed(to, s, 0 + 1, row \o s[0 + 1])
        BY <3>1, <4>4, PlacedMore
      <4>6. row \o s[1] = s[1] /\ 0 + 1 = 1
        BY <4>1, <4>2
      <4> QED
        BY <3>1, <4>1, <4>5, <4>6
    <3>2. CASE n # 0
      <4>1. n \in 1..Len(s) /\ (n + 1) - 1 = n /\ n + 1 # 1
        BY <3>2
      <4>2. f[n + 1] = f[n] \o s[n + 1]
        BY <2>2, <4>1
      <4>3. PICK at \in [1..n -> Nat] : f[n] \in Seq(T) /\ Placed(at, s, n, f[n])
        BY <2>4, <4>1
      <4>4. /\ f[n] \o s[n + 1] \in Seq(T)
            /\ \E to \in [1..(n + 1) -> Nat] : Placed(to, s, n + 1, f[n] \o s[n + 1])
        BY <4>3, PlacedMore
      <4> QED
        BY <4>2, <4>4
    <3> QED
      BY <3>1, <3>2
  <2> HIDE DEF S
  <2>5. Len(s) \in S
    BY <1>0, <2>3, <2>4, NatsByStep
  <2>6. Len(s) \in 1..Len(s)
    BY <1>0, <1>2
  <2>7. Fine(Len(s))
    BY <2>5, <2>6 DEF S
  <2> QED
    BY <2>1, <2>7
<1> QED
  BY <1>1, <1>2

-----------------------------------------------------------------------------
(* The entries that a history keeps.                                       *)
KeptEntries ==
  TurnEntries \cup {UserEntry} \cup {JobEntry(c) : c \in Calls}
    \cup {ReportEntry(rs) : rs \in Seq(Calls)}

(* An entry that neither makes a call nor answers one.                     *)
Silent(e) == \A c : ~Asks(e, c) /\ ~Replies(e, c)

(* The entry that makes a call is the only one.                            *)
AsksOnce(s, c) == \A i, j \in DOMAIN s : Asks(s[i], c) /\ Asks(s[j], c) => i = j

(* A call is made once and answered once, before anything else is said.    *)
Orderly(s, c) ==
  /\ AsksOnce(s, c)
  /\ \A i \in DOMAIN s : Asks(s[i], c) => \E j \in DOMAIN s : Replies(s[j], c)
  /\ \A i, j \in DOMAIN s : Replies(s[i], c) /\ Replies(s[j], c) => i = j
  /\ \A j \in DOMAIN s : Replies(s[j], c) =>
       \E i \in 1..(j - 1) : Asks(s[i], c) /\ \A k \in (i + 1)..(j - 1) : Aside(s[k])

(* A call that is not answered, with nothing but answers after it.         *)
Pending(s, c) ==
  /\ \A j \in DOMAIN s : ~Replies(s[j], c)
  /\ \E i \in DOMAIN s :
       /\ Asks(s[i], c) /\ \A j \in DOMAIN s : Asks(s[j], c) => j = i
       /\ \A k, l \in DOMAIN s[i].calls : s[i].calls[k] = c /\ s[i].calls[l] = c => k = l
       /\ \A k \in (i + 1)..Len(s) : Aside(s[k])

(* What the kept entries say.                                              *)
LEMMA KeptSay ==
  /\ TurnEntries \subseteq KeptEntries
  /\ UserEntry \in KeptEntries /\ Silent(UserEntry)
  /\ \A c \in Calls : JobEntry(c) \in KeptEntries
  /\ \A c : Silent(JobEntry(c)) /\ Aside(JobEntry(c))
  /\ \A rs \in Seq(Calls) : ReportEntry(rs) \in KeptEntries
  /\ \A rs : Silent(ReportEntry(rs))
  /\ SummaryEntry \in KeptEntries /\ Silent(SummaryEntry)
<1>1. \A c : JobEntry(c).kind = "job"
  BY DEF JobEntry
<1>2. \A rs : ReportEntry(rs).kind = "report"
  BY DEF ReportEntry
<1>3. UserEntry.kind = "user" /\ SummaryEntry.kind = "summary"
  BY DEF UserEntry, SummaryEntry
<1>4. /\ \A c : Silent(JobEntry(c)) /\ Aside(JobEntry(c))
      /\ \A rs : Silent(ReportEntry(rs))
      /\ Silent(UserEntry) /\ Silent(SummaryEntry)
  BY <1>1, <1>2, <1>3 DEF Silent, Asks, Replies, Aside, IsKind
<1> QED
  BY <1>4 DEF KeptEntries, TurnEntries

(* Well formed is orderly for each call.                                   *)
LEMMA OrderlyIs ==
  ASSUME NEW T, NEW s \in Seq(T), NEW c
  PROVE  AnsweredOnce(s, c) /\ AsksOnce(s, c) <=> Orderly(s, c)
<1> DEFINE R == {j \in DOMAIN s : Replies(s[j], c)}
<1>1. IsFiniteSet(R)
  <2>1. Len(s) \in Int /\ 1 \in Int /\ R \subseteq 1..Len(s)
    OBVIOUS
  <2> QED
    BY <2>1, FS_Interval, FS_Subset
<1>2. ASSUME AnsweredOnce(s, c), AsksOnce(s, c) PROVE Orderly(s, c)
  <2>1. \A j \in DOMAIN s : Replies(s[j], c) =>
          \E i \in 1..(j - 1) : Asks(s[i], c) /\ \A k \in (i + 1)..(j - 1) : Aside(s[k])
    BY <1>2 DEF AnsweredOnce
  <2>2. \A i \in DOMAIN s : Asks(s[i], c) => \E x : R = {x}
    <3> HIDE DEF R
    <3>1. \A i \in DOMAIN s : Asks(s[i], c) => Cardinality(R) = 1
      BY <1>2 DEF AnsweredOnce, R
    <3> QED
      BY <1>1, <3>1, FS_Singleton
  <2>3. \A i \in DOMAIN s : Asks(s[i], c) => \E j \in DOMAIN s : Replies(s[j], c)
    BY <2>2
  <2>4. ASSUME NEW i \in DOMAIN s, NEW j \in DOMAIN s, Replies(s[i], c), Replies(s[j], c)
        PROVE  i = j
    <3>1. PICK k \in 1..(j - 1) : Asks(s[k], c)
      BY <2>1, <2>4
    <3>2. k \in DOMAIN s
      BY <3>1
    <3>3. i \in R /\ j \in R
      BY <2>4
    <3> HIDE DEF R
    <3> QED
      BY <2>2, <3>1, <3>2, <3>3
  <2> QED
    BY <1>2, <2>1, <2>3, <2>4 DEF Orderly
<1>3. ASSUME Orderly(s, c) PROVE AnsweredOnce(s, c) /\ AsksOnce(s, c)
  <2>1. ASSUME NEW i \in DOMAIN s, Asks(s[i], c) PROVE Cardinality(R) = 1
    <3>1. PICK j \in DOMAIN s : Replies(s[j], c)
      BY <1>3, <2>1 DEF Orderly
    <3>2. R = {j}
      BY <1>3, <3>1 DEF Orderly
    <3> QED
      BY <3>2, FS_Singleton
  <2> QED
    BY <1>3, <2>1 DEF Orderly, AnsweredOnce
<1> QED
  BY <1>2, <1>3

(* Two sequences that do not speak of the same call, one after the other.  *)
LEMMA OrderlyJoined ==
  ASSUME NEW T, NEW q \in Seq(T), NEW r \in Seq(T), NEW c
  PROVE  /\ SaidOf(c, q \o r) <=> SaidOf(c, q) \/ SaidOf(c, r)
         /\ Orderly(q, c) /\ Orderly(r, c) /\ ~(SaidOf(c, q) /\ SaidOf(c, r)) => Orderly(q \o r, c)
<1> DEFINE w == q \o r
           n == Len(q)
<1>1. /\ n \in Nat /\ Len(r) \in Nat /\ DOMAIN w = 1..(n + Len(r))
      /\ DOMAIN q = 1..n /\ DOMAIN r = 1..Len(r)
      /\ \A i \in 1..n : w[i] = q[i]
      /\ \A i \in 1..Len(r) : w[i + n] = r[i]
  OBVIOUS
<1> HIDE DEF w, n
<1>2. ASSUME NEW i \in DOMAIN w
      PROVE  \/ i \in DOMAIN q /\ w[i] = q[i]
             \/ i - n \in DOMAIN r /\ i = (i - n) + n /\ w[i] = r[i - n]
  <2>1. i \in 1..n \/ (i - n \in 1..Len(r) /\ i = (i - n) + n)
    BY <1>1
  <2> QED
    BY <1>1, <2>1
<1>3. \A i \in DOMAIN q : i \in DOMAIN w /\ w[i] = q[i]
  BY <1>1
<1>4. \A i \in DOMAIN r : i + n \in DOMAIN w /\ w[i + n] = r[i] /\ i \in Nat
  BY <1>1
<1>5. SaidOf(c, w) <=> SaidOf(c, q) \/ SaidOf(c, r)
  <2>1. ASSUME SaidOf(c, w) PROVE SaidOf(c, q) \/ SaidOf(c, r)
    BY <1>2, <2>1 DEF SaidOf
  <2>2. ASSUME SaidOf(c, q) PROVE SaidOf(c, w)
    BY <1>3, <2>2 DEF SaidOf
  <2>3. ASSUME SaidOf(c, r) PROVE SaidOf(c, w)
    BY <1>4, <2>3 DEF SaidOf
  <2> QED
    BY <2>1, <2>2, <2>3
<1>6. ASSUME Orderly(q, c), Orderly(r, c), ~(SaidOf(c, q) /\ SaidOf(c, r))
      PROVE  Orderly(w, c)
  <2>1. ASSUME NEW i \in DOMAIN w, Asks(w[i], c)
        PROVE  \E j \in DOMAIN w : Replies(w[j], c)
    <3>1. CASE i \in DOMAIN q /\ w[i] = q[i]
      BY <1>3, <1>6, <2>1, <3>1 DEF Orderly
    <3>2. CASE i - n \in DOMAIN r /\ w[i] = r[i - n]
      BY <1>4, <1>6, <2>1, <3>2 DEF Orderly
    <3> QED
      BY <1>2, <3>1, <3>2
  <2>2. ASSUME NEW i \in DOMAIN w, NEW j \in DOMAIN w, Replies(w[i], c), Replies(w[j], c)
        PROVE  i = j
    <3>1. CASE i \in DOMAIN q /\ w[i] = q[i]
      <4>1. SaidOf(c, q)
        BY <2>2, <3>1 DEF SaidOf
      <4>2. j \in DOMAIN q /\ w[j] = q[j]
        BY <1>2, <1>6, <2>2, <4>1 DEF SaidOf
      <4> QED
        BY <1>6, <2>2, <3>1, <4>2 DEF Orderly
    <3>2. CASE i - n \in DOMAIN r /\ i = (i - n) + n /\ w[i] = r[i - n]
      <4>1. SaidOf(c, r)
        BY <2>2, <3>2 DEF SaidOf
      <4>2. j - n \in DOMAIN r /\ j = (j - n) + n /\ w[j] = r[j - n]
        BY <1>2, <1>6, <2>2, <4>1 DEF SaidOf
      <4>3. i - n = j - n
        BY <1>6, <2>2, <3>2, <4>2 DEF Orderly
      <4> QED
        BY <3>2, <4>2, <4>3
    <3> QED
      BY <1>2, <3>1, <3>2
  <2>3. ASSUME NEW j \in DOMAIN w, Replies(w[j], c)
        PROVE  \E i \in 1..(j - 1) : Asks(w[i], c) /\ \A k \in (i + 1)..(j - 1) : Aside(w[k])
    <3>1. CASE j \in DOMAIN q /\ w[j] = q[j]
      <4>1. PICK i \in 1..(j - 1) : Asks(q[i], c) /\ \A k \in (i + 1)..(j - 1) : Aside(q[k])
        BY <1>6, <2>3, <3>1 DEF Orderly
      <4>2. \A k \in 1..(j - 1) : w[k] = q[k]
        BY <1>1, <3>1
      <4>3. \A k \in (i + 1)..(j - 1) : k \in 1..(j - 1)
        BY <1>1, <3>1, <4>1
      <4> QED
        BY <4>1, <4>2, <4>3
    <3>2. CASE j - n \in DOMAIN r /\ j = (j - n) + n /\ w[j] = r[j - n]
      <4>1. PICK i \in 1..((j - n) - 1) :
              Asks(r[i], c) /\ \A k \in (i + 1)..((j - n) - 1) : Aside(r[k])
        BY <1>6, <2>3, <3>2 DEF Orderly
      <4>2. i + n \in 1..(j - 1) /\ i \in 1..Len(r)
        BY <1>1, <3>2, <4>1
      <4>3. ASSUME NEW k \in (i + n + 1)..(j - 1) PROVE Aside(w[k])
        <5>1. k - n \in (i + 1)..((j - n) - 1) /\ k - n \in 1..Len(r) /\ k = (k - n) + n
          BY <1>1, <3>2, <4>1
        <5> QED
          BY <1>1, <4>1, <5>1
      <4>4. w[i + n] = r[i]
        BY <1>1, <4>2
      <4> QED
        BY <4>1, <4>2, <4>3, <4>4
    <3> QED
      BY <1>2, <3>1, <3>2
  <2>4. ASSUME NEW i \in DOMAIN w, NEW j \in DOMAIN w, Asks(w[i], c), Asks(w[j], c)
        PROVE  i = j
    <3>1. CASE i \in DOMAIN q /\ w[i] = q[i]
      <4>1. SaidOf(c, q)
        BY <2>4, <3>1 DEF SaidOf
      <4>2. j \in DOMAIN q /\ w[j] = q[j]
        BY <1>2, <1>6, <2>4, <4>1 DEF SaidOf
      <4> QED
        BY <1>6, <2>4, <3>1, <4>2 DEF Orderly, AsksOnce
    <3>2. CASE i - n \in DOMAIN r /\ i = (i - n) + n /\ w[i] = r[i - n]
      <4>1. SaidOf(c, r)
        BY <2>4, <3>2 DEF SaidOf
      <4>2. j - n \in DOMAIN r /\ j = (j - n) + n /\ w[j] = r[j - n]
        BY <1>2, <1>6, <2>4, <4>1 DEF SaidOf
      <4>3. i - n = j - n
        BY <1>6, <2>4, <3>2, <4>2 DEF Orderly, AsksOnce
      <4> QED
        BY <3>2, <4>2, <4>3
    <3> QED
      BY <1>2, <3>1, <3>2
  <2> QED
    BY <2>1, <2>2, <2>3, <2>4 DEF Orderly, AsksOnce
<1> QED
  BY <1>5, <1>6 DEF w

(* What says nothing of a call is orderly.                                 *)
LEMMA OrderlyUnsaid ==
  ASSUME NEW s, NEW c, ~SaidOf(c, s)
  PROVE  Orderly(s, c)
  BY DEF Orderly, AsksOnce, SaidOf

(* Entries that say nothing leave all as it was.                           *)
LEMMA SilenceAdded ==
  ASSUME NEW T, NEW q \in Seq(T), NEW r \in Seq(T), \A i \in DOMAIN r : Silent(r[i])
  PROVE  \A c : /\ SaidOf(c, q \o r) <=> SaidOf(c, q)
                /\ Orderly(q, c) => Orderly(q \o r, c)
<1> TAKE c
<1>1. ~SaidOf(c, r)
  BY DEF SaidOf, Silent
<1> QED
  BY <1>1, OrderlyUnsaid, OrderlyJoined

(* A beginning of a sequence that ends before something is said.           *)
LEMMA OrderlyUpTo ==
  ASSUME NEW T, NEW s \in Seq(T), NEW n \in 1..Len(s), ~Aside(s[n]), NEW c, Orderly(s, c),
         ~Asks(s[n], c)
  PROVE  /\ SubSeq(s, 1, n - 1) \in Seq(T)
         /\ Orderly(SubSeq(s, 1, n - 1), c)
         /\ SaidOf(c, SubSeq(s, 1, n - 1)) => SaidOf(c, s)
<1> DEFINE w == SubSeq(s, 1, n - 1)
<1>1. /\ w \in Seq(T) /\ DOMAIN w = 1..(n - 1) /\ DOMAIN s = 1..Len(s) /\ Len(s) \in Nat
      /\ n \in Nat /\ n <= Len(s)
      /\ \A i \in 1..(n - 1) : w[i] = s[i] /\ i \in DOMAIN s
  OBVIOUS
<1> HIDE DEF w
<1>2. ASSUME NEW i \in DOMAIN w, Asks(w[i], c) PROVE \E j \in DOMAIN w : Replies(w[j], c)
  <2>1. PICK j \in DOMAIN s : Replies(s[j], c)
    BY <1>1, <1>2 DEF Orderly
  <2>2. CASE j < n
    BY <1>1, <2>1, <2>2
  <2>3. CASE ~(j < n)
    <3>1. PICK l \in 1..(j - 1) : Asks(s[l], c) /\ \A k \in (l + 1)..(j - 1) : Aside(s[k])
      BY <2>1 DEF Orderly
    <3>2. j # n
      BY <2>1 DEF Aside, Replies
    <3>3. n < j /\ j \in Nat
      BY <1>1, <2>3, <3>2
    <3>4. l # n
      BY <3>1
    <3>5. n < l
      <4>1. ~(n \in (l + 1)..(j - 1))
        BY <3>1
      <4> QED
        BY <1>1, <3>1, <3>3, <3>4, <4>1
    <3>6. i \in DOMAIN s /\ l \in DOMAIN s /\ Asks(s[i], c) /\ i < n
      BY <1>1, <1>2, <2>1, <3>1
    <3>7. i = l
      BY <3>1, <3>6 DEF Orderly, AsksOnce
    <3> QED
      BY <1>1, <3>5, <3>6, <3>7
  <2> QED
    BY <2>2, <2>3
<1>3. ASSUME NEW j \in DOMAIN w, Replies(w[j], c)
      PROVE  \E i \in 1..(j - 1) : Asks(w[i], c) /\ \A k \in (i + 1)..(j - 1) : Aside(w[k])
  <2>1. PICK i \in 1..(j - 1) : Asks(s[i], c) /\ \A k \in (i + 1)..(j - 1) : Aside(s[k])
    BY <1>1, <1>3 DEF Orderly
  <2>2. \A k \in 1..(j - 1) : w[k] = s[k]
    BY <1>1
  <2>3. \A k \in (i + 1)..(j - 1) : k \in 1..(j - 1)
    BY <1>1, <2>1
  <2> QED
    BY <2>1, <2>2, <2>3
<1>4. \A i, j \in DOMAIN w : Replies(w[i], c) /\ Replies(w[j], c) => i = j
  BY <1>1 DEF Orderly
<1>5. SaidOf(c, w) => SaidOf(c, s)
  BY <1>1 DEF SaidOf
<1>6. AsksOnce(w, c)
  BY <1>1 DEF Orderly, AsksOnce
<1> QED
  BY <1>1, <1>2, <1>3, <1>4, <1>5, <1>6 DEF Orderly, w

-----------------------------------------------------------------------------
(* Rows that keep what the entries say, each at the head of its own row,   *)
(* are as orderly as the entries.                                          *)
LEMMA Embedded ==
  ASSUME NEW T, NEW s \in Seq(T), NEW rows \in Seq(Seq(T)), Len(rows) = Len(s),
         NEW c, Orderly(s, c),
         \A i \in DOMAIN s : Asks(s[i], c) \/ Replies(s[i], c) =>
                               1 \in DOMAIN rows[i] /\ rows[i][1] = s[i],
         \A i \in DOMAIN s : \A k \in DOMAIN rows[i] :
           Asks(rows[i][k], c) \/ Replies(rows[i][k], c) => k = 1 /\ rows[i][1] = s[i],
         \A i \in DOMAIN s : \A k \in DOMAIN rows[i] :
           k # 1 \/ Aside(s[i]) => Aside(rows[i][k])
  PROVE  LET w == FlattenSeq(rows)
         IN  w \in Seq(T) /\ Orderly(w, c) /\ (SaidOf(c, w) => SaidOf(c, s))
<1> DEFINE w == FlattenSeq(rows)
           n == Len(s)
<1>1. n \in Nat /\ DOMAIN s = 1..n /\ DOMAIN rows = 1..n
  OBVIOUS
<1>2. w \in Seq(T) /\ \E at \in [1..n -> Nat] : Placed(at, rows, n, w)
  BY FlatPlaces
<1> HIDE DEF w, n
<1>3. PICK at \in [1..n -> Nat] : Placed(at, rows, n, w)
  BY <1>2
<1>4. \A i \in 1..n : /\ rows[i] \in Seq(T) /\ Len(rows[i]) \in Nat /\ at[i] \in Nat
                      /\ DOMAIN rows[i] = 1..Len(rows[i])
  <2>1. \A i \in 1..n : rows[i] \in Seq(T)
    BY <1>1
  <2>2. \A x \in Seq(T) : Len(x) \in Nat /\ DOMAIN x = 1..Len(x)
    OBVIOUS
  <2>3. \A i \in 1..n : at[i] \in Nat
    OBVIOUS
  <2> QED
    BY <2>1, <2>2, <2>3
<1>5. \A i \in 1..n : \A k \in DOMAIN rows[i] : at[i] + k \in DOMAIN w /\ w[at[i] + k] = rows[i][k]
  BY <1>3 DEF Placed
<1>6. \A p \in DOMAIN w : \E i \in 1..n : \E k \in DOMAIN rows[i] : p = at[i] + k
  BY <1>3 DEF Placed
<1>7. \A i, j \in 1..n : i < j => at[i] + Len(rows[i]) <= at[j]
  BY <1>3 DEF Placed
<1>8. ASSUME NEW p \in DOMAIN w, Asks(w[p], c) \/ Replies(w[p], c)
      PROVE  \E i \in 1..n : p = at[i] + 1 /\ w[p] = s[i] /\ 1 \in DOMAIN rows[i]
  <2>1. PICK i \in 1..n : \E k \in DOMAIN rows[i] : p = at[i] + k
    BY <1>6
  <2>2. PICK k \in DOMAIN rows[i] : p = at[i] + k
    BY <2>1
  <2>3. w[p] = rows[i][k]
    BY <1>5, <2>2
  <2>4. k = 1 /\ rows[i][1] = s[i]
    BY <1>1, <1>8, <2>3
  <2> QED
    BY <2>2, <2>3, <2>4
<1>9. ASSUME NEW i \in 1..n, Asks(s[i], c) \/ Replies(s[i], c)
      PROVE  1 \in DOMAIN rows[i] /\ at[i] + 1 \in DOMAIN w /\ w[at[i] + 1] = s[i]
  <2>1. 1 \in DOMAIN rows[i] /\ rows[i][1] = s[i]
    BY <1>1, <1>9
  <2> QED
    BY <1>5, <2>1
<1>10. AsksOnce(w, c)
  <2> SUFFICES ASSUME NEW p \in DOMAIN w, NEW q \in DOMAIN w, Asks(w[p], c), Asks(w[q], c)
               PROVE  p = q
    BY DEF AsksOnce
  <2>1. PICK i \in 1..n : p = at[i] + 1 /\ w[p] = s[i]
    BY <1>8
  <2>2. PICK j \in 1..n : q = at[j] + 1 /\ w[q] = s[j]
    BY <1>8
  <2>3. i = j
    BY <1>1, <2>1, <2>2 DEF Orderly, AsksOnce
  <2> QED
    BY <2>1, <2>2, <2>3
<1>11. ASSUME NEW p \in DOMAIN w, NEW q \in DOMAIN w, Replies(w[p], c), Replies(w[q], c)
       PROVE  p = q
  <2>1. PICK i \in 1..n : p = at[i] + 1 /\ w[p] = s[i]
    BY <1>8, <1>11
  <2>2. PICK j \in 1..n : q = at[j] + 1 /\ w[q] = s[j]
    BY <1>8, <1>11
  <2>3. i = j
    BY <1>1, <1>11, <2>1, <2>2 DEF Orderly
  <2> QED
    BY <2>1, <2>2, <2>3
<1>12. ASSUME NEW p \in DOMAIN w, Asks(w[p], c) PROVE \E q \in DOMAIN w : Replies(w[q], c)
  <2>1. PICK i \in 1..n : p = at[i] + 1 /\ w[p] = s[i]
    BY <1>8, <1>12
  <2>2. PICK j \in 1..n : Replies(s[j], c)
    BY <1>1, <1>12, <2>1 DEF Orderly
  <2> QED
    BY <1>9, <2>2
<1>13. ASSUME NEW q \in DOMAIN w, Replies(w[q], c)
       PROVE  \E p \in 1..(q - 1) : Asks(w[p], c) /\ \A k \in (p + 1)..(q - 1) : Aside(w[k])
  <2>1. PICK j \in 1..n : q = at[j] + 1 /\ w[q] = s[j]
    BY <1>8, <1>13
  <2>2. PICK i \in 1..(j - 1) : Asks(s[i], c) /\ \A k \in (i + 1)..(j - 1) : Aside(s[k])
    BY <1>1, <1>13, <2>1 DEF Orderly
  <2>3. i \in 1..n /\ i < j
    BY <1>1, <2>2
  <2>4. 1 \in DOMAIN rows[i] /\ at[i] + 1 \in DOMAIN w /\ w[at[i] + 1] = s[i]
    BY <1>9, <2>2, <2>3
  <2>5. at[i] + 1 \in 1..(q - 1)
    <3>1. at[i] + Len(rows[i]) <= at[j]
      BY <1>7, <2>3
    <3>2. 1 <= Len(rows[i]) /\ at[i] \in Nat /\ at[j] \in Nat /\ Len(rows[i]) \in Nat
      BY <1>4, <2>3, <2>4
    <3> QED
      BY <2>1, <3>1, <3>2
  <2>6. ASSUME NEW p \in (at[i] + 1 + 1)..(q - 1) PROVE Aside(w[p])
    <3>1. p \in DOMAIN w
      <4>1. w \in Seq(T) /\ q \in 1..Len(w) /\ Len(w) \in Nat /\ DOMAIN w = 1..Len(w)
        BY <1>2
      <4>2. at[i] \in Nat
        BY <1>4, <2>3
      <4> QED
        BY <4>1, <4>2
    <3>2. PICK l \in 1..n : \E k \in DOMAIN rows[l] : p = at[l] + k
      BY <1>6, <3>1
    <3>3. PICK k \in DOMAIN rows[l] : p = at[l] + k
      BY <3>2
    <3>4. w[p] = rows[l][k] /\ k \in 1..Len(rows[l])
      BY <1>4, <1>5, <3>3
    <3>5. /\ at[i] \in Nat /\ at[j] \in Nat /\ at[l] \in Nat /\ Len(rows[l]) \in Nat
          /\ k \in Nat /\ k >= 1 /\ k <= Len(rows[l])
      BY <1>4, <2>3, <3>4
    <3>6. ~(l < i)
      <4>1. l < i => at[l] + Len(rows[l]) <= at[i]
        BY <1>7, <2>3
      <4> QED
        BY <3>3, <3>5, <4>1
    <3>7. l < j
      <4>1. j < l => at[j] + Len(rows[j]) <= at[l]
        BY <1>7
      <4>2. Len(rows[j]) \in Nat
        BY <1>4
      <4>3. 1 <= Len(rows[j])
        <5>1. Replies(s[j], c)
          BY <1>13, <2>1
        <5>2. 1 \in DOMAIN rows[j] /\ DOMAIN rows[j] = 1..Len(rows[j])
          BY <1>4, <1>9, <5>1
        <5> QED
          BY <4>2, <5>2
      <4>4. ~(j < l)
        BY <2>1, <3>3, <3>5, <4>1, <4>2, <4>3
      <4>5. l # j
        BY <2>1, <3>3, <3>5
      <4> QED
        BY <4>4, <4>5
    <3>8. CASE l = i
      <4>1. k # 1
        BY <3>3, <3>5, <3>8
      <4> QED
        BY <1>1, <3>4, <4>1
    <3>9. CASE l # i
      <4>1. l \in (i + 1)..(j - 1)
        BY <2>3, <3>6, <3>7, <3>9
      <4> QED
        BY <1>1, <2>2, <3>4, <4>1
    <3> QED
      BY <3>8, <3>9
  <2>7. Asks(w[at[i] + 1], c)
    BY <2>2, <2>4
  <2> QED
    BY <2>5, <2>6, <2>7
<1>14. SaidOf(c, w) => SaidOf(c, s)
  BY <1>1, <1>8 DEF SaidOf
<1> QED
  BY <1>2, <1>10, <1>11, <1>12, <1>13, <1>14 DEF Orderly, w

-----------------------------------------------------------------------------
(* The rows of an entry: itself, and the job its call went to; a fold may  *)
(* be left out.                                                            *)
RowsFor(e) ==
  IF e \in Models THEN {<<e>>}
  ELSE IF e \in Answers THEN {<<e>>, <<e, JobEntry(e.call)>>}
  ELSE {<<e>>, <<>>}

(* A row keeps what its entry says at its head.                            *)
LEMMA RowsKeep ==
  ASSUME NEW e \in TurnEntries, NEW row \in RowsFor(e)
  PROVE  /\ row \in Seq(KeptEntries)
         /\ \A c : /\ Asks(e, c) \/ Replies(e, c) => 1 \in DOMAIN row /\ row[1] = e
                   /\ \A k \in DOMAIN row :
                        Asks(row[k], c) \/ Replies(row[k], c) => k = 1 /\ row[1] = e
         /\ \A k \in DOMAIN row : k # 1 \/ Aside(e) => Aside(row[k])
<1>1. \/ e \in Models /\ ~Aside(e)
      \/ e \in Answers /\ e \notin Models /\ e.call \in Calls
      \/ e = SummaryEntry /\ e \notin Answers /\ e \notin Models /\ Silent(e) /\ ~Aside(e)
  BY KindsOfEntries, KeptSay DEF Aside, IsKind
<1>2. e \in KeptEntries
  BY KeptSay
<1>3. CASE row = <<e>>
  <2>1. DOMAIN row = {1} /\ row[1] = e /\ row \in Seq(KeptEntries)
    BY <1>2, <1>3
  <2> QED
    BY <2>1
<1>4. CASE e \in Answers /\ row = <<e, JobEntry(e.call)>>
  <2>1. PICK j : j = JobEntry(e.call)
    OBVIOUS
  <2>2. j \in KeptEntries /\ Silent(j) /\ Aside(j)
    BY <1>1, <1>4, <2>1, KeptSay, KindsOfEntries
  <2>3. DOMAIN row = {1, 2} /\ row[1] = e /\ row[2] = j /\ row \in Seq(KeptEntries)
    BY <1>2, <1>4, <2>1, <2>2
  <2> QED
    BY <2>2, <2>3 DEF Silent
<1>5. CASE row = <<>> /\ Silent(e)
  <2>1. DOMAIN row = {} /\ row \in Seq(KeptEntries)
    BY <1>5
  <2> QED
    BY <1>5, <2>1 DEF Silent
<1> QED
  BY <1>1, <1>3, <1>4, <1>5 DEF RowsFor

(* The rows of jobs that nothing answers.                                  *)
LEMMA LateJobs ==
  ASSUME NEW jobs \in Seq(Calls), NEW rows, DOMAIN rows = DOMAIN jobs,
         \A i \in DOMAIN jobs : rows[i] \in {<<>>, <<JobEntry(jobs[i])>>},
         rows = [i \in DOMAIN jobs |-> rows[i]]
  PROVE  /\ FlattenSeq(rows) \in Seq(KeptEntries)
         /\ \A p \in DOMAIN FlattenSeq(rows) : Silent(FlattenSeq(rows)[p])
<1> DEFINE J == {JobEntry(c) : c \in Calls}
<1>1. /\ Len(jobs) \in Nat /\ DOMAIN jobs = 1..Len(jobs)
      /\ \A i \in DOMAIN jobs : jobs[i] \in Calls
  OBVIOUS
<1>2. \A i \in DOMAIN jobs : rows[i] \in Seq(J)
  <2> TAKE i \in DOMAIN jobs
  <2>1. JobEntry(jobs[i]) \in J
    BY <1>1
  <2> HIDE DEF J
  <2>2. <<>> \in Seq(J) /\ <<JobEntry(jobs[i])>> \in Seq(J)
    BY <2>1
  <2> QED
    BY <2>2
<1>3. J \subseteq KeptEntries /\ \A e \in J : Silent(e)
  BY KeptSay
<1> HIDE DEF J
<1>4. rows \in Seq(Seq(J))
  BY <1>1, <1>2
<1>5. FlattenSeq(rows) \in Seq(J)
  BY <1>4, FlatPlaces
<1> QED
  BY <1>3, <1>5

(* What is committed is as orderly as the entries of the turn, and speaks  *)
(* of no other call.                                                       *)
LEMMA ProjectedOrderly ==
  ASSUME NEW m \in Seq(TurnEntries), NEW jobs \in Seq(Calls), NEW trailing, folds \in Nat,
         \A c \in Calls : Orderly(m, c)
  PROVE  /\ Projected(m, jobs, trailing) \in Seq(KeptEntries)
         /\ \A c \in Calls : /\ Orderly(Projected(m, jobs, trailing), c)
                             /\ SaidOf(c, Projected(m, jobs, trailing)) => SaidOf(c, m)
<1> DEFINE Fold(i) == CountOf("summary", SubSeq(m, 1, i))
           Rows(i) ==
             CASE IsKind("summary", m[i]) -> IF Fold(i) <= folds THEN <<SummaryEntry>> ELSE <<>>
               [] IsKind("answer", m[i]) ->
                    IF m[i].call \in ToSet(jobs)
                    THEN <<m[i], JobEntry(m[i].call)>> ELSE <<m[i]>>
               [] OTHER -> <<m[i]>>
           Late(c) == IF c \in AnsweredIn(m) THEN <<>> ELSE <<JobEntry(c)>>
           extra == IF trailing /\ folds > Fold(Len(m)) THEN folds - Fold(Len(m)) ELSE 0
<1>1. PICK rows : rows = [i \in DOMAIN m |-> Rows(i)]
  OBVIOUS
<1>2. PICK lates : lates = [i \in DOMAIN jobs |-> Late(jobs[i])]
  OBVIOUS
<1>3. PICK more : more = [i \in 1..extra |-> SummaryEntry]
  OBVIOUS
<1>4. Projected(m, jobs, trailing) = FlattenSeq(rows) \o more \o FlattenSeq(lates)
  BY <1>1, <1>2, <1>3 DEF Projected
<1>5. more \in Seq(KeptEntries) /\ \A i \in DOMAIN more : Silent(more[i])
  <2>1. Fold(Len(m)) \in Nat
    <3>1. SubSeq(m, 1, Len(m)) \in Seq(TurnEntries)
      OBVIOUS
    <3> QED
      BY <3>1, SummariesCounted DEF Summed
  <2>2. extra \in Nat
    <3>1. PICK n \in Nat : n = Fold(Len(m))
      BY <2>1
    <3> HIDE DEF Fold
    <3> QED
      BY <3>1
  <2> HIDE DEF extra
  <2> QED
    BY <1>3, <2>2, KeptSay
<1>6. /\ FlattenSeq(lates) \in Seq(KeptEntries)
      /\ \A p \in DOMAIN FlattenSeq(lates) : Silent(FlattenSeq(lates)[p])
  <2>1. \A i \in DOMAIN jobs : lates[i] \in {<<>>, <<JobEntry(jobs[i])>>}
    BY <1>2
  <2>2. DOMAIN lates = DOMAIN jobs /\ lates = [i \in DOMAIN jobs |-> lates[i]]
    BY <1>2
  <2> QED
    BY <2>1, <2>2, LateJobs
<1>7. \A i \in DOMAIN m : m[i] \in TurnEntries /\ rows[i] \in RowsFor(m[i])
  <2> TAKE i \in DOMAIN m
  <2>1. m[i] \in TurnEntries
    OBVIOUS
  <2>2. rows[i] = Rows(i)
    BY <1>1
  <2>3. \/ m[i] \in Models /\ m[i].kind = "model"
        \/ m[i] \in Answers /\ m[i].kind = "answer" /\ m[i] \notin Models
        \/ m[i] = SummaryEntry /\ m[i].kind = "summary" /\ m[i] \notin Models /\ m[i] \notin Answers
    BY <2>1, KindsOfEntries
  <2>4. CASE m[i].kind = "summary"
    BY <2>2, <2>3, <2>4 DEF RowsFor, IsKind
  <2>5. CASE m[i].kind = "answer"
    BY <2>2, <2>3, <2>5 DEF RowsFor, IsKind
  <2>6. CASE m[i].kind = "model"
    BY <2>2, <2>3, <2>6 DEF RowsFor, IsKind
  <2> QED
    BY <2>1, <2>3, <2>4, <2>5, <2>6
<1> HIDE DEF Rows, Late, extra, Fold
<1>8. rows \in Seq(Seq(KeptEntries)) /\ Len(rows) = Len(m)
  <2>1. \A i \in DOMAIN m : rows[i] \in Seq(KeptEntries)
    BY <1>7, RowsKeep
  <2>2. DOMAIN m = 1..Len(m) /\ Len(m) \in Nat
    OBVIOUS
  <2> QED
    BY <1>1, <2>1, <2>2
<1>9. m \in Seq(KeptEntries)
  BY KeptSay
<1>10. ASSUME NEW c \in Calls
       PROVE  /\ FlattenSeq(rows) \in Seq(KeptEntries) /\ Orderly(FlattenSeq(rows), c)
              /\ SaidOf(c, FlattenSeq(rows)) => SaidOf(c, m)
  <2>1. \A i \in DOMAIN m : Asks(m[i], c) \/ Replies(m[i], c) =>
                              1 \in DOMAIN rows[i] /\ rows[i][1] = m[i]
    BY <1>7, RowsKeep
  <2>2. \A i \in DOMAIN m : \A k \in DOMAIN rows[i] :
          Asks(rows[i][k], c) \/ Replies(rows[i][k], c) => k = 1 /\ rows[i][1] = m[i]
    BY <1>7, RowsKeep
  <2>3. \A i \in DOMAIN m : \A k \in DOMAIN rows[i] : k # 1 \/ Aside(m[i]) => Aside(rows[i][k])
    BY <1>7, RowsKeep
  <2>4. Orderly(m, c)
    OBVIOUS
  <2> QED
    BY <1>8, <1>9, <2>1, <2>2, <2>3, <2>4, Embedded
<1>11. FlattenSeq(rows) \in Seq(KeptEntries)
  BY <1>8, FlatPlaces
<1>12. PICK f \in Seq(KeptEntries) : f = FlattenSeq(rows)
  BY <1>11
<1>13. PICK l \in Seq(KeptEntries) : l = FlattenSeq(lates)
  BY <1>6
<1>14. f \o more \in Seq(KeptEntries) /\ (f \o more) \o l \in Seq(KeptEntries)
  BY <1>5
<1>15. ASSUME NEW c \in Calls
       PROVE Orderly((f \o more) \o l, c) /\ (SaidOf(c, (f \o more) \o l) => SaidOf(c, m))
  <2>1. Orderly(f \o more, c) /\ (SaidOf(c, f \o more) => SaidOf(c, m))
    BY <1>5, <1>10, <1>12, SilenceAdded
  <2>2. \A i \in DOMAIN l : Silent(l[i])
    BY <1>6, <1>13
  <2> QED
    BY <1>14, <2>1, <2>2, SilenceAdded
<1> QED
  BY <1>4, <1>12, <1>13, <1>14, <1>15

-----------------------------------------------------------------------------
(* The answers made up for those calls of an entry that are in none of A.  *)
MadeUp(A, calls) ==
  FlattenSeq([k \in DOMAIN calls |->
    IF calls[k] \in A THEN <<>> ELSE <<AnswerEntry(calls[k], "interrupted")>>])

(* A row of answers to just these calls, one for each.                     *)
Rendered(row, A, calls) ==
  /\ row \in Seq(Answers)
  /\ \A p \in DOMAIN row : row[p].call \in ToSet(calls) \ A
  /\ \A c \in ToSet(calls) \ A : \E p \in DOMAIN row : row[p].call = c
  /\ \A c : (\A k, l \in DOMAIN calls : calls[k] = c /\ calls[l] = c => k = l)
              => \A p, q \in DOMAIN row : row[p].call = c /\ row[q].call = c => p = q

(* Each is answered in its turn, as often as it is made.                   *)
LEMMA MadeUpAnswers ==
  ASSUME NEW A, NEW calls \in Seq(Calls)
  PROVE  Rendered(MadeUp(A, calls), A, calls)
<1> DEFINE n == Len(calls)
           Made(c) == AnswerEntry(c, "interrupted")
<1>1. n \in Nat /\ DOMAIN calls = 1..n /\ \A k \in 1..n : calls[k] \in Calls
  OBVIOUS
<1>2. \A c \in Calls : Made(c) \in Answers /\ Made(c).call = c
  BY DEF AnswerEntry, Answers, Hows
<1>3. PICK rows :
        rows = [k \in DOMAIN calls |-> IF calls[k] \in A THEN <<>> ELSE <<Made(calls[k])>>]
  OBVIOUS
<1>4. PICK row : row = FlattenSeq(rows)
  OBVIOUS
<1>5. row = MadeUp(A, calls)
  BY <1>3, <1>4 DEF MadeUp
<1> HIDE DEF n, Made
<1>6. /\ \A k \in 1..n : rows[k] \in Seq(Answers)
      /\ \A k \in 1..n : \A x \in DOMAIN rows[k] :
           x = 1 /\ calls[k] \notin A /\ rows[k][x] = Made(calls[k])
      /\ \A k \in 1..n : calls[k] \notin A => 1 \in DOMAIN rows[k]
  <2>1. \A e \in Answers : /\ <<e>> \in Seq(Answers) /\ DOMAIN <<e>> = {1} /\ <<e>>[1] = e
    OBVIOUS
  <2>2. <<>> \in Seq(Answers) /\ DOMAIN <<>> = {}
    OBVIOUS
  <2>3. \A k \in 1..n : rows[k] = IF calls[k] \in A THEN <<>> ELSE <<Made(calls[k])>>
    BY <1>1, <1>3
  <2>4. \A k \in 1..n : Made(calls[k]) \in Answers
    BY <1>1, <1>2
  <2>5. ASSUME NEW k \in 1..n
        PROVE  /\ rows[k] \in Seq(Answers)
               /\ \A x \in DOMAIN rows[k] :
                    x = 1 /\ calls[k] \notin A /\ rows[k][x] = Made(calls[k])
               /\ calls[k] \notin A => 1 \in DOMAIN rows[k]
    <3>1. CASE calls[k] \in A
      <4>1. rows[k] = <<>>
        BY <2>3, <3>1
      <4> QED
        BY <2>2, <3>1, <4>1
    <3>2. CASE calls[k] \notin A
      <4>1. PICK e \in Answers : e = Made(calls[k])
        BY <2>4
      <4>2. rows[k] = <<e>>
        BY <2>3, <3>2, <4>1
      <4> QED
        BY <2>1, <3>2, <4>1, <4>2
    <3> QED
      BY <3>1, <3>2
  <2> QED
    BY <2>5
<1>7. rows \in Seq(Seq(Answers)) /\ Len(rows) = n
  BY <1>1, <1>3, <1>6
<1>8. row \in Seq(Answers) /\ \E at \in [1..n -> Nat] : Placed(at, rows, n, row)
  BY <1>4, <1>7, FlatPlaces
<1>9. PICK at \in [1..n -> Nat] : Placed(at, rows, n, row)
  BY <1>8
<1>10. \A p \in DOMAIN row :
         \E k \in 1..n : p = at[k] + 1 /\ calls[k] \notin A /\ row[p].call = calls[k]
  <2> TAKE p \in DOMAIN row
  <2>1. PICK k \in 1..n : \E x \in DOMAIN rows[k] : p = at[k] + x
    BY <1>9 DEF Placed
  <2>2. PICK x \in DOMAIN rows[k] : p = at[k] + x
    BY <2>1
  <2>3. row[p] = rows[k][x]
    BY <1>9, <2>2 DEF Placed
  <2>4. x = 1 /\ calls[k] \notin A /\ row[p] = Made(calls[k])
    BY <1>6, <2>3
  <2> QED
    BY <1>1, <1>2, <2>2, <2>4
<1>11. ASSUME NEW c \in ToSet(calls) \ A PROVE \E p \in DOMAIN row : row[p].call = c
  <2>1. PICK k \in 1..n : calls[k] = c
    BY <1>1 DEF ToSet
  <2>2. 1 \in DOMAIN rows[k] /\ rows[k][1] = Made(c)
    BY <1>6, <2>1
  <2>3. at[k] + 1 \in DOMAIN row /\ row[at[k] + 1] = Made(c)
    BY <1>9, <2>2 DEF Placed
  <2> QED
    BY <1>1, <1>2, <2>1, <2>3
<1>12. \A p \in DOMAIN row : row[p].call \in ToSet(calls) \ A
  BY <1>1, <1>10 DEF ToSet
<1>13. ASSUME NEW c, \A k, l \in DOMAIN calls : calls[k] = c /\ calls[l] = c => k = l,
              NEW p \in DOMAIN row, NEW q \in DOMAIN row, row[p].call = c, row[q].call = c
       PROVE  p = q
  <2>1. PICK k \in 1..n : p = at[k] + 1 /\ calls[k] = c
    BY <1>10, <1>13
  <2>2. PICK l \in 1..n : q = at[l] + 1 /\ calls[l] = c
    BY <1>10, <1>13
  <2>3. k = l
    BY <1>1, <1>13, <2>1, <2>2
  <2> QED
    BY <2>1, <2>2, <2>3
<1> QED
  BY <1>5, <1>8, <1>11, <1>12, <1>13 DEF Rendered

(* reconcileInterruptedToolCalls: what a turn leaves open when it is cut   *)
(* off is answered at its end, and nothing else is.                        *)
LEMMA ReconciledOrderly ==
  ASSUME NEW m \in Seq(TurnEntries), \A c \in Calls : Orderly(m, c) \/ Pending(m, c)
  PROVE  /\ Reconciled(m) \in Seq(TurnEntries)
         /\ \A c \in Calls : /\ Orderly(Reconciled(m), c)
                             /\ SaidOf(c, Reconciled(m)) => SaidOf(c, m)
<1> DEFINE n == Len(m)
           A == AnsweredIn(m)
<1>1. n \in Nat /\ DOMAIN m = 1..n /\ \A i \in 1..n : m[i] \in TurnEntries
  OBVIOUS
<1>2. PICK rows : rows = [i \in DOMAIN m |->
                            IF IsKind("model", m[i]) THEN MadeUp(A, m[i].calls) ELSE <<>>]
  OBVIOUS
<1>3. PICK r : r = FlattenSeq(rows)
  OBVIOUS
<1>4. Reconciled(m) = m \o r
  BY <1>2, <1>3 DEF Reconciled, MadeUp
<1>5. \A c \in Calls : c \in A <=> \E j \in DOMAIN m : Replies(m[j], c)
  BY DEF AnsweredIn, Replies
<1> HIDE DEF n, A
<1>6. ASSUME NEW i \in 1..n
      PROVE  /\ rows[i] \in Seq(Answers)
             /\ \A p \in DOMAIN rows[i] : Asks(m[i], rows[i][p].call) /\ rows[i][p].call \notin A
             /\ \A c \in Calls : Asks(m[i], c) /\ c \notin A =>
                  /\ \E p \in DOMAIN rows[i] : rows[i][p].call = c
                  /\ (\A k, l \in DOMAIN m[i].calls :
                          m[i].calls[k] = c /\ m[i].calls[l] = c => k = l)
                       => \A p, q \in DOMAIN rows[i] :
                            rows[i][p].call = c /\ rows[i][q].call = c => p = q
  <2>1. rows[i] = IF IsKind("model", m[i]) THEN MadeUp(A, m[i].calls) ELSE <<>>
    BY <1>1, <1>2, <1>6
  <2>2. CASE IsKind("model", m[i])
    <3>1. m[i] \in Models /\ m[i].calls \in Seq(Calls)
      BY <1>1, <1>6, <2>2, KindsOfEntries DEF IsKind
    <3>2. \A c : Asks(m[i], c) <=> c \in ToSet(m[i].calls)
      BY <3>1, EntryAsks
    <3>3. rows[i] = MadeUp(A, m[i].calls)
      BY <2>1, <2>2
    <3>4. PICK calls \in Seq(Calls) : calls = m[i].calls
      BY <3>1
    <3>5. PICK row : row = rows[i]
      OBVIOUS
    <3>6. row = MadeUp(A, calls)
      BY <3>3, <3>4, <3>5
    <3>7. Rendered(row, A, calls)
      BY <3>6, MadeUpAnswers
    <3>8. \A c : Asks(m[i], c) <=> c \in ToSet(calls)
      BY <3>2, <3>4
    <3> QED
      <4>1. m[i].calls = calls /\ rows[i] = row
        BY <3>4, <3>5
      <4>2. row \in Seq(Answers) /\ \A p \in DOMAIN row : row[p].call \in ToSet(calls) \ A
        BY <3>7 DEF Rendered
      <4>3. \A c \in ToSet(calls) \ A : \E p \in DOMAIN row : row[p].call = c
        BY <3>7 DEF Rendered
      <4>4. \A c : (\A k, l \in DOMAIN calls : calls[k] = c /\ calls[l] = c => k = l)
                     => \A p, q \in DOMAIN row : row[p].call = c /\ row[q].call = c => p = q
        BY <3>7 DEF Rendered
      <4>5. \A p \in DOMAIN row : Asks(m[i], row[p].call) /\ row[p].call \notin A
        BY <3>8, <4>2
      <4>6. \A c : Asks(m[i], c) /\ c \notin A => \E p \in DOMAIN row : row[p].call = c
        BY <3>8, <4>3
      <4> QED
        BY <4>1, <4>2, <4>4, <4>5, <4>6
  <2>3. CASE ~IsKind("model", m[i])
    <3>1. rows[i] = <<>>
      BY <2>1, <2>3
    <3>2. \A c : ~Asks(m[i], c)
      BY <2>3 DEF Asks
    <3>3. DOMAIN rows[i] = {} /\ rows[i] \in Seq(Answers)
      BY <3>1
    <3> QED
      BY <3>2, <3>3
  <2> QED
    BY <2>2, <2>3
<1>7. rows \in Seq(Seq(Answers)) /\ Len(rows) = n
  BY <1>1, <1>2, <1>6
<1>8. r \in Seq(Answers) /\ \E at \in [1..n -> Nat] : Placed(at, rows, n, r)
  BY <1>3, <1>7, FlatPlaces
<1>9. PICK at \in [1..n -> Nat] : Placed(at, rows, n, r)
  BY <1>8
<1>10. \A p \in DOMAIN r : \E i \in 1..n : \E k \in DOMAIN rows[i] :
         p = at[i] + k /\ r[p] = rows[i][k]
  <2> TAKE p \in DOMAIN r
  <2>1. PICK i \in 1..n : \E k \in DOMAIN rows[i] : p = at[i] + k
    BY <1>9 DEF Placed
  <2>2. PICK k \in DOMAIN rows[i] : p = at[i] + k
    BY <2>1
  <2>3. r[p] = rows[i][k]
    BY <1>9, <2>2 DEF Placed
  <2> QED
    BY <2>2, <2>3
<1>11. r \in Seq(TurnEntries) /\ \A p \in DOMAIN r : r[p] \in Answers
  BY <1>8 DEF TurnEntries
<1>12. \A p \in DOMAIN r : \A c :
         ~Asks(r[p], c) /\ (Replies(r[p], c) <=> r[p].call = c) /\ Aside(r[p])
  BY <1>11, EntryAsks
<1>13. ASSUME NEW c \in Calls
       PROVE  Orderly(m \o r, c) /\ (SaidOf(c, m \o r) => SaidOf(c, m))
  <2>1. \A p \in DOMAIN r : r[p].call = c => \E i \in 1..n : Asks(m[i], c) /\ c \notin A
    BY <1>6, <1>10
  <2>2. CASE Orderly(m, c)
    <3>1. ASSUME NEW i \in 1..n, Asks(m[i], c) PROVE c \in A
      BY <1>1, <1>5, <2>2, <3>1 DEF Orderly
    <3>2. ~SaidOf(c, r)
      BY <1>12, <2>1, <3>1 DEF SaidOf
    <3> QED
      BY <1>11, <2>2, <3>2, OrderlyUnsaid, OrderlyJoined
  <2>3. CASE Pending(m, c)
    <3>1. PICK i \in 1..n :
            /\ Asks(m[i], c) /\ \A j \in DOMAIN m : Asks(m[j], c) => j = i
            /\ \A k, l \in DOMAIN m[i].calls : m[i].calls[k] = c /\ m[i].calls[l] = c => k = l
            /\ \A k \in (i + 1)..Len(m) : Aside(m[k])
      BY <1>1, <2>3 DEF Pending
    <3>2. \A j \in DOMAIN m : ~Replies(m[j], c)
      BY <2>3 DEF Pending
    <3>3. c \notin A
      BY <1>5, <3>2
    <3>4. PICK k \in DOMAIN rows[i] : rows[i][k].call = c
      BY <1>6, <3>1, <3>3
    <3>5. at[i] + k \in DOMAIN r /\ r[at[i] + k] = rows[i][k]
      BY <1>9, <3>4 DEF Placed
    <3>6. ASSUME NEW p \in DOMAIN r, r[p].call = c PROVE p = at[i] + k
      <4>1. PICK j \in 1..n : \E l \in DOMAIN rows[j] : p = at[j] + l /\ r[p] = rows[j][l]
        BY <1>10
      <4>2. PICK l \in DOMAIN rows[j] : p = at[j] + l /\ r[p] = rows[j][l]
        BY <4>1
      <4>3. Asks(m[j], c)
        BY <1>6, <3>6, <4>2
      <4>4. j = i
        BY <1>1, <3>1, <4>3
      <4>5. l = k
        BY <1>6, <3>1, <3>3, <3>4, <3>6, <4>2, <4>4
      <4> QED
        BY <4>2, <4>4, <4>5
    <3>7. PICK p \in DOMAIN r : r[p].call = c /\ \A q \in DOMAIN r : r[q].call = c => q = p
      BY <3>4, <3>5, <3>6
    <3> DEFINE w == m \o r
    <3>8. /\ DOMAIN w = 1..(n + Len(r)) /\ DOMAIN r = 1..Len(r) /\ Len(r) \in Nat
          /\ \A j \in 1..n : w[j] = m[j]
          /\ \A j \in 1..Len(r) : w[j + n] = r[j]
      BY <1>1, <1>11 DEF n
    <3> HIDE DEF w
    <3>9. ASSUME NEW j \in DOMAIN w
          PROVE  \/ j \in 1..n /\ w[j] = m[j]
                 \/ j - n \in DOMAIN r /\ j = (j - n) + n /\ w[j] = r[j - n]
      <4>1. j \in 1..n \/ (j - n \in 1..Len(r) /\ j = (j - n) + n)
        BY <1>1, <3>8
      <4> QED
        BY <3>8, <4>1
    <3>10. \A j \in DOMAIN w : Asks(w[j], c) => j = i
      BY <1>1, <1>12, <3>1, <3>9
    <3>11. \A j \in DOMAIN w : Replies(w[j], c) => j = p + n
      BY <1>1, <1>12, <3>2, <3>7, <3>9
    <3>12. p + n \in DOMAIN w /\ Replies(w[p + n], c) /\ i \in DOMAIN w /\ Asks(w[i], c)
      <4>1. p + n \in DOMAIN w /\ i \in DOMAIN w /\ w[p + n] = r[p] /\ w[i] = m[i]
        BY <1>1, <3>8
      <4> QED
        BY <1>12, <3>1, <3>7, <4>1
    <3>13. i \in 1..((p + n) - 1)
      BY <1>1, <3>8
    <3>14. ASSUME NEW l \in (i + 1)..((p + n) - 1) PROVE Aside(w[l])
      <4>1. l \in DOMAIN w
        BY <1>1, <3>8
      <4>2. CASE l \in 1..n /\ w[l] = m[l]
        <5>1. l \in (i + 1)..Len(m)
          BY <1>1, <4>2 DEF n
        <5> QED
          BY <3>1, <4>2, <5>1
      <4>3. CASE l - n \in DOMAIN r /\ w[l] = r[l - n]
        BY <1>12, <4>3
      <4> QED
        BY <3>9, <4>1, <4>2, <4>3
    <3>15. Orderly(w, c)
      <4>1. AsksOnce(w, c)
        BY <3>10 DEF AsksOnce
      <4>2. \A j \in DOMAIN w : Asks(w[j], c) => \E l \in DOMAIN w : Replies(w[l], c)
        BY <3>12
      <4>3. \A j, l \in DOMAIN w : Replies(w[j], c) /\ Replies(w[l], c) => j = l
        BY <3>11
      <4>4. \A j \in DOMAIN w : Replies(w[j], c) =>
              \E l \in 1..(j - 1) : Asks(w[l], c) /\ \A k1 \in (l + 1)..(j - 1) : Aside(w[k1])
        BY <3>11, <3>12, <3>13, <3>14
      <4> QED
        BY <4>1, <4>2, <4>3, <4>4 DEF Orderly
    <3>16. SaidOf(c, m)
      BY <1>1, <3>1 DEF SaidOf
    <3> QED
      BY <3>15, <3>16 DEF w
  <2> QED
    BY <2>2, <2>3
<1>14. m \o r \in Seq(TurnEntries)
  BY <1>11
<1> QED
  BY <1>4, <1>13, <1>14

-----------------------------------------------------------------------------
(* Entries of a turn that may end as they are: each call in them is known, *)
(* is answered or waits at the end, and is in no earlier turn.             *)
Committable(entries) ==
  /\ entries \in Seq(TurnEntries)
  /\ \A c \in Calls :
       /\ Orderly(entries, c) \/ Pending(entries, c)
       /\ SaidOf(c, entries) => ~SaidOf(c, history) /\ request[c] # "none"

Keeping ==
  /\ history \in Seq(KeptEntries)
  /\ \A c \in Calls : Orderly(history, c) /\ (SaidOf(c, history) => request[c] # "none")

Speaking ==
  IsRunning =>
    \A c \in Calls :
      /\ AsksOnce(said, c)
      /\ SaidOf(c, said) \/ c \in ToSet(step) => ~SaidOf(c, history)

(* What ends a turn brings entries that may end, or leaves them mirrored.  *)
Ending ==
  active /\ ~IsRunning =>
    \A i \in DOMAIN inbox :
      /\ inbox[i][1] # "cancelled"
      /\ inbox[i][1] = "completed" => Committable(inbox[i][2])
      /\ inbox[i][1] = "failed" => i = 1 /\ Committable(mirror)

HInv == Keeping /\ Speaking /\ Ending

(* No call is ever unmade.                                                 *)
CallsStay == \A c \in Calls : request[c] # "none" => request'[c] # "none"

(* A turn is committed.                                                    *)
LEMMA Committed ==
  ASSUME IInv, MInv, HInv, NEW m, Committable(m), NEW trailing, CallsStay,
         history' = history \o Projected(Reconciled(m), turnJobs, trailing),
         ~active', ~IsRunning'
  PROVE  HInv'
<1>1. /\ Reconciled(m) \in Seq(TurnEntries)
      /\ \A c \in Calls : /\ Orderly(Reconciled(m), c)
                          /\ SaidOf(c, Reconciled(m)) => SaidOf(c, m)
  BY ReconciledOrderly DEF Committable
<1>2. turnJobs \in Seq(Calls) /\ folds \in Nat
  BY SessionAssumption DEF IInv, StateOK, MInv, Folding
<1>3. PICK p : p = Projected(Reconciled(m), turnJobs, trailing)
  OBVIOUS
<1>4. /\ p \in Seq(KeptEntries)
      /\ \A c \in Calls : Orderly(p, c) /\ (SaidOf(c, p) => SaidOf(c, Reconciled(m)))
  BY <1>1, <1>2, <1>3, ProjectedOrderly
<1>5. history \in Seq(KeptEntries) /\ history' = history \o p
  BY <1>3 DEF HInv, Keeping
<1>6. history' \in Seq(KeptEntries)
  BY <1>4, <1>5
<1>7. ASSUME NEW c \in Calls
      PROVE  Orderly(history', c) /\ (SaidOf(c, history') => request'[c] # "none")
  <2>1. Orderly(history, c) /\ (SaidOf(c, history) => request[c] # "none")
    BY DEF HInv, Keeping
  <2>2. SaidOf(c, p) => ~SaidOf(c, history) /\ request[c] # "none"
    BY <1>1, <1>4 DEF Committable
  <2>3. Orderly(history \o p, c) /\ (SaidOf(c, history \o p) <=> SaidOf(c, history) \/ SaidOf(c, p))
    BY <1>4, <1>5, <2>1, <2>2, OrderlyJoined
  <2> QED
    BY <1>5, <2>1, <2>2, <2>3 DEF CallsStay
<1> QED
  BY <1>6, <1>7 DEF HInv, Keeping, Speaking, Ending

(* A step that adds nothing that is said to the history or the transcript. *)
LEMMA HistoryCarried ==
  ASSUME HInv, CallsStay,
         history' \in Seq(KeptEntries),
         \A c \in Calls : Orderly(history', c) /\ (SaidOf(c, history') => SaidOf(c, history)),
         IsRunning' => \/ IsRunning /\ said' = said /\ step' = step
                       \/ said' = <<>> /\ step' = <<>>,
         active' /\ ~IsRunning' =>
           /\ active /\ ~IsRunning
           /\ \A i \in DOMAIN inbox' : \E j \in DOMAIN inbox :
                /\ inbox'[i] = inbox[j]
                /\ inbox'[i][1] = "failed" /\ j = 1 => i = 1 /\ mirror' = mirror
  PROVE  HInv'
<1>1. Keeping'
  BY DEF HInv, Keeping, CallsStay
<1>2. Speaking'
  <2>1. \A c : AsksOnce(<<>>, c) /\ ~SaidOf(c, <<>>) /\ c \notin ToSet(<<>>)
    BY DEF AsksOnce, SaidOf, ToSet
  <2> QED
    BY <2>1 DEF HInv, Speaking
<1>3. Ending'
  <2> SUFFICES ASSUME active', ~IsRunning', NEW i \in DOMAIN inbox'
               PROVE  /\ inbox'[i][1] # "cancelled"
                      /\ inbox'[i][1] = "completed" => Committable(inbox[i][2])'
                      /\ inbox'[i][1] = "failed" => i = 1 /\ Committable(mirror)'
    BY DEF Ending
  <2>1. PICK j \in DOMAIN inbox :
          /\ inbox'[i] = inbox[j]
          /\ inbox'[i][1] = "failed" /\ j = 1 => i = 1 /\ mirror' = mirror
    OBVIOUS
  <2>2. /\ inbox[j][1] # "cancelled"
        /\ inbox[j][1] = "completed" => Committable(inbox[j][2])
        /\ inbox[j][1] = "failed" => j = 1 /\ Committable(mirror)
    BY <2>1 DEF HInv, Ending
  <2>3. \A m : Committable(m) =>
          /\ m \in Seq(TurnEntries)
          /\ \A c \in Calls :
               /\ Orderly(m, c) \/ Pending(m, c)
               /\ SaidOf(c, m) => ~SaidOf(c, history') /\ request'[c] # "none"
    BY DEF Committable, CallsStay
  <2>4. ASSUME inbox'[i][1] = "completed" PROVE Committable(inbox[i][2])'
    <3>1. Committable(inbox[j][2]) /\ inbox'[i][2] = inbox[j][2]
      BY <2>1, <2>2, <2>4
    <3>2. PICK m : m = inbox[j][2]
      OBVIOUS
    <3>3. Committable(m) /\ inbox'[i][2] = m
      BY <3>1, <3>2
    <3> QED
      BY <2>3, <3>3 DEF Committable
  <2>5. ASSUME inbox'[i][1] = "failed" PROVE i = 1 /\ Committable(mirror)'
    <3>1. i = 1 /\ mirror' = mirror /\ Committable(mirror)
      BY <2>1, <2>2, <2>5
    <3>2. PICK m : m = mirror
      OBVIOUS
    <3>3. Committable(m) /\ mirror' = m
      BY <3>1, <3>2
    <3>4. Committable(mirror)'
      BY <2>3, <3>3 DEF Committable
    <3> QED
      BY <3>1, <3>4
  <2> QED
    BY <2>1, <2>2, <2>4, <2>5
<1> QED
  BY <1>1, <1>2, <1>3 DEF HInv

(* A step that leaves the history alone.                                   *)
LEMMA HistoryKeptAsIs ==
  ASSUME HInv, CallsStay, history' = history,
         IsRunning' => \/ IsRunning /\ said' = said /\ step' = step
                       \/ said' = <<>> /\ step' = <<>>,
         active' /\ ~IsRunning' =>
           /\ active /\ ~IsRunning
           /\ \A i \in DOMAIN inbox' : \E j \in DOMAIN inbox :
                /\ inbox'[i] = inbox[j]
                /\ inbox'[i][1] = "failed" /\ j = 1 => i = 1 /\ mirror' = mirror
  PROVE  HInv'
<1>1. /\ history' \in Seq(KeptEntries)
      /\ \A c \in Calls : Orderly(history', c) /\ (SaidOf(c, history') => SaidOf(c, history))
  BY DEF HInv, Keeping
<1> QED
  BY <1>1, HistoryCarried

-----------------------------------------------------------------------------
(* Outside its calls, the transcript of a turn is orderly.                 *)
LEMMA SaidOrderly ==
  ASSUME IInv, AInv, HInv, IsRunning, phase # "tools"
  PROVE  said \in Seq(TurnEntries) /\ \A c \in Calls : Orderly(said, c)
<1>1. said \in Seq(TurnEntries) /\ WellFormed(said)
  BY DEF IInv, StateOK, AInv, SentIsAnswered
<1>2. \A c \in Calls : AnsweredOnce(said, c)
  BY <1>1, WellFormedIs
<1>3. \A c \in Calls : AsksOnce(said, c)
  BY DEF HInv, Speaking
<1> QED
  BY <1>1, <1>2, <1>3, OrderlyIs

(* A step whose calls are new waits for all of them.                       *)
LEMMA StepPending ==
  ASSUME NEW s \in Seq(TurnEntries), \A c \in Calls : Orderly(s, c),
         NEW e \in Models, Distinct(e.calls), \A c \in ToSet(e.calls) : ~SaidOf(c, s)
  PROVE  /\ Append(s, e) \in Seq(TurnEntries)
         /\ \A c \in Calls : /\ Orderly(Append(s, e), c) \/ Pending(Append(s, e), c)
                             /\ AsksOnce(Append(s, e), c)
                             /\ SaidOf(c, Append(s, e)) <=> SaidOf(c, s) \/ c \in ToSet(e.calls)
<1> DEFINE w == Append(s, e)
           n == Len(s)
<1>1. e \in TurnEntries
  BY DEF TurnEntries
<1>2. /\ n \in Nat /\ DOMAIN s = 1..n /\ w \in Seq(TurnEntries) /\ Len(w) = n + 1
      /\ DOMAIN w = 1..(n + 1) /\ w[n + 1] = e /\ \A i \in 1..n : w[i] = s[i]
  <2>1. s \in Seq(TurnEntries)
    OBVIOUS
  <2>2. w \in Seq(TurnEntries) /\ Len(w) = n + 1 /\ n \in Nat
    BY <1>1, <2>1
  <2>3. DOMAIN s = 1..n /\ DOMAIN w = 1..(n + 1)
    BY <2>1, <2>2
  <2>4. w[n + 1] = e /\ \A i \in 1..n : w[i] = s[i]
    BY <1>1, <2>1
  <2> QED
    BY <2>2, <2>3, <2>4
<1> HIDE DEF w, n
<1>3. \A i \in DOMAIN w : (i \in 1..n /\ w[i] = s[i]) \/ (i = n + 1 /\ w[i] = e)
  BY <1>2
<1>4. \A c : (Asks(e, c) <=> c \in ToSet(e.calls)) /\ ~Replies(e, c)
  BY EntryAsks
<1>5. ASSUME NEW c \in Calls PROVE SaidOf(c, w) <=> SaidOf(c, s) \/ c \in ToSet(e.calls)
  <2>1. ASSUME SaidOf(c, w) PROVE SaidOf(c, s) \/ c \in ToSet(e.calls)
    BY <1>2, <1>3, <1>4, <2>1 DEF SaidOf
  <2>2. ASSUME SaidOf(c, s) PROVE SaidOf(c, w)
    <3>1. \A i \in DOMAIN s : i \in DOMAIN w /\ w[i] = s[i]
      BY <1>2
    <3> QED
      BY <2>2, <3>1 DEF SaidOf
  <2>3. ASSUME c \in ToSet(e.calls) PROVE SaidOf(c, w)
    <3>1. n + 1 \in DOMAIN w /\ Asks(w[n + 1], c)
      BY <1>2, <1>4, <2>3
    <3> QED
      BY <3>1 DEF SaidOf
  <2> QED
    BY <2>1, <2>2, <2>3
<1>6. ASSUME NEW c \in Calls, c \in ToSet(e.calls) PROVE Pending(w, c) /\ AsksOnce(w, c)
  <2>1. \A i \in 1..n : ~Asks(s[i], c) /\ ~Replies(s[i], c)
    BY <1>2, <1>6 DEF SaidOf
  <2>2. \A j \in DOMAIN w : ~Replies(w[j], c)
    BY <1>3, <1>4, <2>1
  <2>3. \A j \in DOMAIN w : Asks(w[j], c) => j = n + 1
    BY <1>3, <2>1
  <2>4. \A k, l \in DOMAIN w[n + 1].calls :
          w[n + 1].calls[k] = c /\ w[n + 1].calls[l] = c => k = l
    BY <1>2 DEF Distinct
  <2>5. \A k \in ((n + 1) + 1)..Len(w) : Aside(w[k])
    BY <1>2
  <2>6. n + 1 \in DOMAIN w /\ Asks(w[n + 1], c)
    BY <1>2, <1>4, <1>6
  <2> QED
    BY <2>2, <2>3, <2>4, <2>5, <2>6 DEF Pending, AsksOnce
<1>7. ASSUME NEW c \in Calls, c \notin ToSet(e.calls) PROVE Orderly(w, c) /\ AsksOnce(w, c)
  <2>0. \A x \in TurnEntries : <<x>> \in Seq(TurnEntries)
    OBVIOUS
  <2>1. PICK r \in Seq(TurnEntries) : r = <<e>>
    BY <1>1, <2>0
  <2>2. DOMAIN r = {1} /\ r[1] = e
    BY <2>1
  <2>3. ~SaidOf(c, r)
    BY <1>4, <1>7, <2>2 DEF SaidOf
  <2>4. Orderly(s \o r, c)
    BY <2>3, OrderlyUnsaid, OrderlyJoined
  <2>5. w = s \o r
    BY <1>1, <2>1 DEF w
  <2> QED
    BY <2>4, <2>5 DEF Orderly
<1> QED
  BY <1>2, <1>5, <1>6, <1>7 DEF w

(* A turn that runs may end at any time with what is so far.               *)
LEMMA SoFarCommittable ==
  ASSUME IInv, AInv, HInv, IsRunning, inbox = <<>>
  PROVE  /\ Committable(SoFar(said, step))
         /\ \A c \in Calls : /\ AsksOnce(SoFar(said, step), c)
                             /\ SaidOf(c, SoFar(said, step)) => SaidOf(c, said) \/ c \in ToSet(step)
<1>1. /\ said \in Seq(TurnEntries) /\ step \in Seq(Calls)
      /\ Distinct(step) /\ \A c \in ToSet(step) : ~SaidOf(c, said)
      /\ phase # "streaming" => step = <<>>
  BY DEF IInv, StateOK, AInv, CallsKnown
<1>2. \A c \in Calls : SaidOf(c, said) \/ c \in ToSet(step) =>
                         ~SaidOf(c, history) /\ request[c] # "none"
  <2>1. \A c : ~Called(c, inbox)
    BY DEF Called
  <2> QED
    BY <2>1 DEF AInv, CallsKnown, HInv, Speaking
<1>3. \A c \in Calls : AsksOnce(said, c)
  BY DEF HInv, Speaking
<1>4. CASE step = <<>> /\ phase # "tools"
  <2>1. SoFar(said, step) = said
    <3>1. said \o <<>> = said
      BY <1>1
    <3> QED
      BY <1>4, <3>1 DEF SoFar
  <2>2. \A c \in Calls : Orderly(said, c)
    BY <1>4, SaidOrderly
  <2> QED
    BY <1>1, <1>2, <1>3, <2>1, <2>2 DEF Committable
<1>5. CASE step = <<>> /\ phase = "tools"
  <2>1. SoFar(said, step) = said
    <3>1. said \o <<>> = said
      BY <1>1
    <3> QED
      BY <1>5, <3>1 DEF SoFar
  <2>2. StepMade(said)
    BY <1>5 DEF AInv, Joining, Asking
  <2>3. PICK s \in Seq(TurnEntries) : s = Front(said)
    BY <2>2 DEF StepMade
  <2>4. PICK e \in Models : e = Last(said)
    BY <2>2 DEF StepMade
  <2>5. /\ said = Append(s, e) /\ WellFormed(s) /\ Distinct(e.calls)
        /\ \A c \in ToSet(e.calls) : ~SaidOf(c, s)
    BY <2>2, <2>3, <2>4 DEF StepMade
  <2>6. \A c \in Calls : AsksOnce(s, c)
    <3>1. e \in TurnEntries
      BY DEF TurnEntries
    <3>2. \A i \in DOMAIN s : i \in DOMAIN said /\ said[i] = s[i]
      BY <2>5, <3>1
    <3> QED
      BY <1>3, <3>2 DEF AsksOnce
  <2>7. \A c \in Calls : Orderly(s, c)
    BY <2>5, <2>6, WellFormedIs, OrderlyIs
  <2>8. \A c \in Calls : Orderly(said, c) \/ Pending(said, c)
    BY <2>5, <2>7, StepPending
  <2> QED
    BY <1>1, <1>2, <1>3, <2>1, <2>8 DEF Committable
<1>6. CASE step # <<>>
  <2>1. PICK e : e = ModelEntry(Len(said) + 1, step)
    OBVIOUS
  <2>2. e \in Models /\ e.calls = step
    BY <1>1, <2>1 DEF ModelEntry, Models
  <2>3. e \in TurnEntries
    BY <2>2 DEF TurnEntries
  <2>4. SoFar(said, step) = Append(said, e)
    <3>1. said \o <<e>> = Append(said, e)
      BY <1>1, <2>3
    <3> QED
      BY <1>6, <2>1, <3>1 DEF SoFar
  <2>5. \A c \in Calls : Orderly(said, c)
    BY <1>1, <1>6, SaidOrderly
  <2>6. /\ Append(said, e) \in Seq(TurnEntries)
        /\ \A c \in Calls : /\ Orderly(Append(said, e), c) \/ Pending(Append(said, e), c)
                            /\ AsksOnce(Append(said, e), c)
                            /\ SaidOf(c, Append(said, e)) <=> SaidOf(c, said) \/ c \in ToSet(step)
    BY <1>1, <2>2, <2>5, StepPending
  <2> QED
    BY <1>2, <2>4, <2>6 DEF Committable
<1> QED
  BY <1>4, <1>5, <1>6

-----------------------------------------------------------------------------
(* However a request is settled or lost, it stays a request.               *)
LEMMA CallsStayWhen ==
  ASSUME IInv,
         \/ request' = request
         \/ request' = Abandoned(open)
         \/ \E c \in Calls : \E how \in Requests \ {"none"} : request' = [request EXCEPT ![c] = how]
  PROVE  CallsStay
<1>1. request \in [Calls -> Requests]
  BY DEF IInv, StateOK
<1>2. CASE request' = request
  BY <1>2 DEF CallsStay
<1>3. CASE request' = Abandoned(open)
  BY <1>3 DEF CallsStay, Abandoned
<1>4. CASE \E c \in Calls : \E how \in Requests \ {"none"} : request' = [request EXCEPT ![c] = how]
  BY <1>1, <1>4 DEF CallsStay
<1> QED
  BY <1>2, <1>3, <1>4

(* A step that leaves the history and the transcript alone, and takes one  *)
(* event of the stream or none.                                            *)
LEMMA QuietlyKept ==
  ASSUME IInv, IInv', HInv, CallsStay, history' = history, active' => active,
         IsRunning' => IsRunning /\ said' = said /\ step' = step,
         \/ inbox' = inbox /\ mirror' = mirror
         \/ inbox # <<>> /\ inbox' = Tail(inbox)
  PROVE  HInv'
<1>1. inbox \in Seq(Events)
  BY DEF IInv, QueuesOK
<1>2. \A i \in DOMAIN inbox' : \E j \in DOMAIN inbox :
        /\ inbox'[i] = inbox[j]
        /\ inbox'[i][1] = "failed" /\ j = 1 => i = 1 /\ mirror' = mirror
  <2>1. CASE inbox' = inbox /\ mirror' = mirror
    BY <2>1
  <2>2. CASE inbox # <<>> /\ inbox' = Tail(inbox)
    <3>1. \A i \in DOMAIN inbox' : i + 1 \in DOMAIN inbox /\ inbox'[i] = inbox[i + 1] /\ i + 1 # 1
      BY <1>1, <2>2, Shifted
    <3> QED
      BY <3>1
  <2> QED
    BY <2>1, <2>2
<1>3. active' /\ ~IsRunning' => ~IsRunning
  <2> SUFFICES ASSUME active', ~IsRunning' PROVE ~IsRunning
    OBVIOUS
  <2>1. Told(Ends, inbox')
    BY DEF IInv, Agreement
  <2>2. PICK i \in DOMAIN inbox' : inbox'[i][1] \in Ends
    BY <2>1 DEF Told
  <2>3. PICK j \in DOMAIN inbox : inbox'[i] = inbox[j]
    BY <1>2
  <2>4. Told(Ends, inbox)
    BY <2>2, <2>3 DEF Told
  <2> QED
    BY <2>4 DEF IInv, Agreement
<1> QED
  BY <1>2, <1>3, HistoryKeptAsIs

(* The same for a step that ends with an empty stream.                     *)
LEMMA KeptAtRest ==
  ASSUME IInv, IInv', HInv, CallsStay, history' \in Seq(KeptEntries),
         \A c \in Calls : Orderly(history', c) /\ (SaidOf(c, history') => SaidOf(c, history)),
         IsRunning' => IsRunning /\ said' = said /\ step' = step,
         inbox' = <<>>
  PROVE  HInv'
<1>1. ~(active' /\ ~IsRunning')
  <2>1. ~Told(Ends, inbox')
    BY ToldFew
  <2> QED
    BY <2>1 DEF IInv, Agreement
<1> QED
  BY <1>1, HistoryCarried

(* Tasks, and events that end no turn.                                     *)
LEMMA QuietStepsKeep ==
  ASSUME IInv, IInv', HInv,
         \/ Hop /\ UNCHANGED <<sessionVars, agentVars, deliveryVars>>
         \/ Tear /\ UNCHANGED <<sessionVars, deliveryVars>>
         \/ RunAnswered \/ DeliveryAnswered
         \/ EventIgnored \/ OnTranscript \/ OnNeedsPrompt \/ OnFolded \/ OnAnswer
         \/ UNCHANGED vars
  PROVE  HInv'
<1>1. CASE Hop /\ UNCHANGED <<sessionVars, agentVars, deliveryVars>>
  <2>1. CallsStay
    BY <1>1, CallsStayWhen DEF sessionVars, toolVars, holderVars
  <2> QED
    BY <1>1, <2>1, QuietlyKept
    DEF Hop, sessionVars, turnVars, historyVars, agentVars, IsRunning
<1>2. CASE Tear /\ UNCHANGED <<sessionVars, deliveryVars>>
  <2>1. CallsStay
    BY <1>2, CallsStayWhen DEF sessionVars, toolVars, holderVars
  <2>2. /\ At("teardown") /\ turn' = (IF turn = Arg THEN 0 ELSE turn) /\ After(<<>>, <<>>, <<>>)
        /\ UNCHANGED <<said, step, history, mirror, active, phase>>
    BY <1>2 DEF Tear, sessionVars, turnVars, historyVars
  <2>3. (IsRunning' => IsRunning) /\ ~At("deliver")
    BY <2>2 DEF IsRunning, At
  <2>4. inbox' = inbox
    BY <2>2, <2>3, NoNews
  <2> QED
    BY <2>1, <2>2, <2>3, <2>4, QuietlyKept
<1>3. CASE RunAnswered
  <2>1. At("ran") /\ Arg.ok = TRUE
    BY <1>3, HeadIs DEF RunAnswered
  <2>2. /\ After(<<>>, <<>>, Tell(Arg.from, TRUE)) /\ UNCHANGED turnVars /\ UNCHANGED agentVars
        /\ UNCHANGED history /\ UNCHANGED toolVars
    BY <1>3, <2>1, Zenon DEF RunAnswered
  <2>3. (IsRunning' => IsRunning) /\ UNCHANGED <<said, step, history, mirror, active, request>>
    BY <2>2 DEF turnVars, agentVars, toolVars, holderVars, IsRunning
  <2>4. ~At("deliver")
    BY <2>1 DEF At
  <2>5. inbox' = inbox
    BY <2>2, <2>4, NoNews
  <2>6. CallsStay
    BY <2>3, CallsStayWhen
  <2> QED
    BY <2>3, <2>5, <2>6, QuietlyKept
<1>4. CASE DeliveryAnswered
  <2>1. At("resolved") /\ After(<<>>, <<>>, <<>>) /\ UNCHANGED <<sessionVars, agentVars>>
    BY <1>4 DEF DeliveryAnswered
  <2>2. /\ UNCHANGED <<said, step, history, mirror, active, request>>
        /\ IsRunning' => IsRunning
        /\ ~At("deliver")
    BY <2>1
    DEF sessionVars, turnVars, historyVars, toolVars, holderVars, agentVars, IsRunning, At
  <2>3. inbox' = inbox
    BY <2>1, <2>2, NoNews
  <2>4. CallsStay
    BY <2>2, CallsStayWhen
  <2> QED
    BY <2>2, <2>3, <2>4, QuietlyKept
<1>5. CASE EventIgnored \/ OnTranscript \/ OnNeedsPrompt \/ OnFolded \/ OnAnswer
  <2>1. /\ At("deliver") /\ After(<<>>, <<>>, <<>>)
        /\ UNCHANGED <<said, step, active, history, request>>
        /\ IsRunning' => IsRunning
    <3>1. CASE EventIgnored
      BY <3>1 DEF EventIgnored, sessionVars, turnVars, historyVars, toolVars, holderVars,
                  agentVars, IsRunning
    <3>2. CASE OnTranscript
      BY <3>2 DEF OnTranscript, Delivered, historyVars, toolVars, holderVars, agentVars, IsRunning
    <3>3. CASE OnNeedsPrompt
      BY <3>3 DEF OnNeedsPrompt, Delivered, MaySubmit, AgentTakesPrompt, sessionVars, turnVars,
                  historyVars, toolVars, holderVars, agentVars, IsRunning
    <3>4. CASE OnFolded
      BY <3>4 DEF OnFolded, Delivered, historyVars, toolVars, holderVars, agentVars, IsRunning
    <3>5. CASE OnAnswer
      BY <3>5 DEF OnAnswer, Delivered, historyVars, toolVars, holderVars, agentVars, IsRunning
    <3> QED
      BY <1>5, <3>1, <3>2, <3>3, <3>4, <3>5
  <2>2. inbox # <<>> /\ inbox' = Tail(inbox)
    BY <2>1, NoNews
  <2>3. CallsStay
    BY <2>1, CallsStayWhen
  <2> QED
    BY <2>1, <2>2, <2>3, QuietlyKept
<1>6. CASE UNCHANGED vars
  <2>1. /\ UNCHANGED <<said, step, history, mirror, active, request, inbox>>
        /\ IsRunning' => IsRunning
    BY <1>6 DEF vars, sessionVars, turnVars, historyVars, toolVars, holderVars, agentVars,
                loopVars, IsRunning
  <2>2. CallsStay
    BY <2>1, CallsStayWhen
  <2> QED
    BY <2>1, <2>2, QuietlyKept
<1> QED
  BY <1>1, <1>2, <1>3, <1>4, <1>5, <1>6

(* A call that starts, and a step whose calls are joined.                  *)
LEMMA CallsKept ==
  ASSUME IInv, IInv', HInv, OnCall \/ OnNeedsResults
  PROVE  HInv'
<1>1. /\ At("deliver") /\ \E after : After(<<>>, <<>>, after)
      /\ UNCHANGED <<said, step, active, history>>
      /\ IsRunning' => IsRunning
  BY DEF OnCall, OnNeedsResults, Delivered, historyVars, agentVars, IsRunning
<1>2. inbox # <<>> /\ inbox \in Seq(Events) /\ inbox' = Tail(inbox)
  BY <1>1, NoNews
<1>3. CASE OnCall
  <2>1. Head(inbox) \in Events /\ Head(inbox)[1] = "call"
    BY <1>2, <1>3, TailIndices DEF OnCall, Delivered, Ev
  <2>2. EvArg.call \in Calls
    BY <2>1 DEF Events, EvArg
  <2>3. PICK c \in Calls : c = EvArg.call
    BY <2>2
  <2>4. \/ request' = request
        \/ request' = [request EXCEPT ![c] = "failed"]
        \/ request' = [request EXCEPT ![c] = "live"]
    BY <1>3, <2>3 DEF OnCall, StartCall, toolVars, holderVars
  <2>5. CallsStay
    BY <2>4, CallsStayWhen DEF Requests
  <2> QED
    BY <1>1, <1>2, <2>5, QuietlyKept
<1>4. CASE OnNeedsResults
  <2>1. request' = request
    BY <1>4 DEF OnNeedsResults
  <2>2. CallsStay
    BY <2>1, CallsStayWhen
  <2> QED
    BY <1>1, <1>2, <2>2, QuietlyKept
<1> QED
  BY <1>3, <1>4

-----------------------------------------------------------------------------
(* An entry of its own joins the history.                                  *)
LEMMA EntryKept ==
  ASSUME HInv, NEW e \in KeptEntries, Silent(e)
  PROVE  /\ Append(history, e) \in Seq(KeptEntries)
         /\ \A c \in Calls : /\ Orderly(Append(history, e), c)
                             /\ SaidOf(c, Append(history, e)) => SaidOf(c, history)
<1>1. history \in Seq(KeptEntries)
  BY DEF HInv, Keeping
<1>2. \A x \in KeptEntries : <<x>> \in Seq(KeptEntries) /\ DOMAIN <<x>> = {1} /\ <<x>>[1] = x
  OBVIOUS
<1>3. PICK r \in Seq(KeptEntries) : r = <<e>> /\ DOMAIN r = {1} /\ r[1] = e
  BY <1>2
<1>4. Append(history, e) = history \o r /\ Append(history, e) \in Seq(KeptEntries)
  BY <1>1, <1>3
<1>5. \A c : /\ SaidOf(c, history \o r) <=> SaidOf(c, history)
             /\ Orderly(history, c) => Orderly(history \o r, c)
  BY <1>1, <1>3, SilenceAdded
<1> QED
  BY <1>4, <1>5 DEF HInv, Keeping

(* A turn begins, or waits for a cancellation first.                       *)
LEMMA BegunKept ==
  ASSUME IInv, HInv, CallsStay, ~active, NEW g, NEW from, NEW before,
         RunTurn(g, from, before) \/ StartRun(g, from, before),
         history' \in Seq(KeptEntries),
         \A c \in Calls : Orderly(history', c) /\ (SaidOf(c, history') => SaidOf(c, history))
  PROVE  HInv'
<1>1. ~IsRunning /\ CanRun
  BY DEF IInv, Agreement, CanRun
<1>2. CASE StartRun(g, from, before)
  <2>1. PICK fold \in BOOLEAN : AgentRun(g, fold)
    BY <1>1, <1>2 DEF StartRun
  <2>2. /\ said' = <<>> /\ step' = <<>> /\ turn' # 0 /\ phase' # "over"
    BY <2>1 DEF AgentRun, StartStep
  <2>3. IsRunning'
    BY <2>2 DEF IsRunning
  <2> QED
    BY <2>2, <2>3, HistoryCarried
<1>3. CASE RunTurn(g, from, before) /\ pendingCancel
  <2>1. ~active' /\ ~IsRunning'
    BY <1>1, <1>3 DEF RunTurn, agentVars, IsRunning
  <2> QED
    BY <2>1, HistoryCarried
<1> QED
  BY <1>2, <1>3 DEF RunTurn

(* A buffer that took an input begins a turn, or does not.                 *)
LEMMA DeliverKept ==
  ASSUME IInv, IInv', HInv, ~At("deliver"), NEW canRun, Deliver(canRun)
  PROVE  HInv'
<1>1. request' = request
  BY DEF Deliver, BeginDeliveryTurn, RunTurn, StartRun, holderVars
<1>2. CallsStay
  BY <1>1, CallsStayWhen
<1>3. CASE UNCHANGED <<turnVars, historyVars, agentVars>> /\ \E after : After(<<>>, <<>>, after)
  <2>1. /\ UNCHANGED <<said, step, history, mirror, active>>
        /\ IsRunning' => IsRunning
    BY <1>3 DEF turnVars, historyVars, agentVars, IsRunning
  <2>2. inbox' = inbox
    BY <1>3, NoNews
  <2> QED
    BY <1>2, <2>1, <2>2, QuietlyKept
<1>4. CASE /\ RunTurn("respond", "delivery", <<Idled>>) /\ ~active
           /\ history' = Append(history, ReportEntry(inFlight'))
  <2>1. inFlight' \in Seq(Calls)
    BY SessionAssumption DEF IInv, StateOK, DeliveryTypeOK
  <2>2. PICK e \in KeptEntries : Silent(e) /\ history' = Append(history, e)
    BY <1>4, <2>1, KeptSay
  <2>3. /\ history' \in Seq(KeptEntries)
        /\ \A c \in Calls : Orderly(history', c) /\ (SaidOf(c, history') => SaidOf(c, history))
    BY <2>2, EntryKept
  <2> QED
    BY <1>2, <1>4, <2>3, BegunKept
<1> QED
  BY <1>3, <1>4 DEF Deliver, BeginDeliveryTurn

(* The starts of turns.                                                    *)
LEMMA StartersKeep ==
  ASSUME IInv, IInv', HInv, \/ Submit \/ Compact \/ Resumed \/ IdleSeen \/ Attach
                            \/ \E c \in Calls : BackgroundEnds(c)
  PROVE  HInv'
<1>1. CASE Submit
  <2>1. /\ ~active /\ RunTurn("respond", "user", <<Idled>>)
        /\ history' = Append(history, UserEntry) /\ request' = request
    BY <1>1 DEF Submit, RunTurn, StartRun, holderVars
  <2>2. /\ history' \in Seq(KeptEntries)
        /\ \A c \in Calls : Orderly(history', c) /\ (SaidOf(c, history') => SaidOf(c, history))
    BY <2>1, KeptSay, EntryKept
  <2>3. CallsStay
    BY <2>1, CallsStayWhen
  <2> QED
    BY <2>1, <2>2, <2>3, BegunKept
<1>2. /\ history \in Seq(KeptEntries)
      /\ \A c \in Calls : Orderly(history, c)
  BY DEF HInv, Keeping
<1>3. CASE Compact
  <2>1. ~active /\ RunTurn("compact", "user", <<>>) /\ history' = history /\ request' = request
    BY <1>3 DEF Compact, RunTurn, StartRun, holderVars, historyVars
  <2>2. CallsStay
    BY <2>1, CallsStayWhen
  <2> QED
    BY <1>2, <2>1, <2>2, BegunKept
<1>4. CASE Resumed
  <2>1. At("resume") /\ Head(micro).does \in Resumes
    BY <1>4, HeadDoes, DoingNames DEF Resumed, IInv
  <2>2. Has(Resumes, micro)
    BY <2>1, HeadDoes DEF IInv
  <2>3. ~active
    BY <2>1, <2>2 DEF IInv, Buffering
  <2>4. StartRun(Arg.goal, Arg.from, <<>>) /\ history' = history /\ request' = request
    BY <1>4 DEF Resumed, StartRun, historyVars
  <2>5. CallsStay
    BY <2>4, CallsStayWhen
  <2> QED
    BY <1>2, <2>3, <2>4, <2>5, BegunKept
<1>5. CASE IdleSeen
  BY <1>5, DeliverKept DEF IdleSeen, At
<1>6. CASE Attach
  BY <1>6, DeliverKept DEF Attach, At, AtRest
<1>7. CASE \E c \in Calls : BackgroundEnds(c)
  BY <1>7, DeliverKept DEF BackgroundEnds, At, AtRest
<1> QED
  BY <1>1, <1>3, <1>4, <1>5, <1>6, <1>7

-----------------------------------------------------------------------------
(* loadJournal of entries that the history had.                            *)
LEMMA LoadKept ==
  ASSUME IInv, IInv', HInv, AtRest, NEW entries, NEW id, LoadJournal(entries, id),
         entries \in Seq(KeptEntries),
         \A c \in Calls : Orderly(entries, c) /\ (SaidOf(c, entries) => SaidOf(c, history))
  PROVE  HInv'
<1>1. /\ history' = entries /\ request' = Abandoned(open) /\ UNCHANGED agentVars
      /\ \E after : After(<<>>, <<>>, after)
  BY DEF LoadJournal
<1>2. UNCHANGED <<said, step>> /\ (IsRunning' => IsRunning)
  BY <1>1 DEF agentVars, IsRunning
<1>3. inbox' = <<>>
  BY <1>1, NoNews, RestMeans
<1>4. CallsStay
  BY <1>1, CallsStayWhen
<1>5. /\ history' \in Seq(KeptEntries)
      /\ \A c \in Calls : Orderly(history', c) /\ (SaidOf(c, history') => SaidOf(c, history))
  BY <1>1
<1> QED
  BY <1>2, <1>3, <1>4, <1>5, KeptAtRest

(* The swaps of the history.                                               *)
LEMMA SwapsKept ==
  ASSUME IInv, IInv', HInv, Clear \/ BeginSwap \/ Loaded \/ Rewound
  PROVE  HInv'
<1>1. /\ history \in Seq(KeptEntries)
      /\ \A c \in Calls : Orderly(history, c)
  BY DEF HInv, Keeping
<1>2. AtRest
  BY DEF Clear, BeginSwap, Loaded, Rewound
<1>3. CASE UNCHANGED <<historyVars, turnVars, toolVars, agentVars>> /\ After(<<>>, <<>>, <<>>)
  <2>1. /\ UNCHANGED <<history, request, said, step>>
        /\ IsRunning' => IsRunning
    BY <1>3 DEF historyVars, toolVars, holderVars, agentVars, IsRunning
  <2>2. inbox' = <<>>
    BY <1>2, <1>3, NoNews, RestMeans
  <2>3. CallsStay
    BY <2>1, CallsStayWhen
  <2> QED
    BY <1>1, <2>1, <2>2, <2>3, KeptAtRest
<1>4. CASE LoadJournal(<<>>, swaps')
  <2>1. /\ <<>> \in Seq(KeptEntries)
        /\ \A c \in Calls : Orderly(<<>>, c) /\ ~SaidOf(c, <<>>)
    BY NothingSaid, OrderlyUnsaid
  <2>2. PICK id : LoadJournal(<<>>, id)
    BY <1>4
  <2> QED
    BY <1>2, <2>1, <2>2, LoadKept
<1>5. CASE LoadJournal(<<UserEntry>>, swaps)
  <2>1. PICK u \in KeptEntries : u = UserEntry /\ Silent(u)
    BY KeptSay
  <2>2. <<u>> \in Seq(KeptEntries) /\ DOMAIN <<u>> = {1} /\ <<u>>[1] = u
    OBVIOUS
  <2>3. \A c \in Calls : Orderly(<<u>>, c) /\ ~SaidOf(c, <<u>>)
    BY <2>1, <2>2, OrderlyUnsaid DEF SaidOf, Silent
  <2> QED
    BY <1>2, <1>5, <2>1, <2>2, <2>3, LoadKept
<1>6. CASE \E i \in DOMAIN history :
             /\ IsKind("user", history[i])
             /\ LoadJournal(SubSeq(history, 1, i - 1), IF i = 1 THEN swaps ELSE conv)
  <2>1. PICK i \in DOMAIN history :
          /\ IsKind("user", history[i])
          /\ LoadJournal(SubSeq(history, 1, i - 1), IF i = 1 THEN swaps ELSE conv)
    BY <1>6
  <2>2. PICK id : id = IF i = 1 THEN swaps ELSE conv
    OBVIOUS
  <2>3. i \in 1..Len(history)
    BY <1>1
  <2>4. ~Aside(history[i]) /\ \A c : ~Asks(history[i], c)
    BY <2>1 DEF Aside, Asks, IsKind
  <2>5. SubSeq(history, 1, i - 1) \in Seq(KeptEntries)
    BY <1>1, <2>3
  <2>6. \A c \in Calls : /\ Orderly(SubSeq(history, 1, i - 1), c)
                         /\ SaidOf(c, SubSeq(history, 1, i - 1)) => SaidOf(c, history)
    BY <1>1, <2>3, <2>4, OrderlyUpTo
  <2>7. PICK kept : kept = SubSeq(history, 1, i - 1)
    OBVIOUS
  <2> QED
    BY <1>2, <2>1, <2>2, <2>5, <2>6, <2>7, LoadKept
<1> QED
  BY <1>3, <1>4, <1>5, <1>6 DEF Clear, BeginSwap, Loaded, Rewound

(* Work that ends, or goes to the background.                              *)
LEMMA WorkKept ==
  ASSUME IInv, IInv', HInv, NEW c \in Calls, WorkEnds(c) \/ WorkHandedOff(c)
  PROVE  HInv'
<1>1. /\ AtRest /\ UNCHANGED agentVars
      /\ \E after : After(<<>>, <<>>, after)
      /\ \/ history' = history
         \/ history' = Append(history, JobEntry(c))
      /\ \/ request' = request
         \/ request' = [request EXCEPT ![c] = "done"]
         \/ request' = [request EXCEPT ![c] = "handle"]
  BY DEF WorkEnds, WorkHandedOff, Settle, NoteBackgrounded, historyVars
<1>2. UNCHANGED <<said, step>> /\ (IsRunning' => IsRunning)
  BY <1>1 DEF agentVars, IsRunning
<1>3. inbox' = <<>>
  BY <1>1, NoNews, RestMeans
<1>4. CallsStay
  BY <1>1, CallsStayWhen DEF Requests
<1>5. /\ history' \in Seq(KeptEntries)
      /\ \A d \in Calls : Orderly(history', d) /\ (SaidOf(d, history') => SaidOf(d, history))
  <2>1. CASE history' = history
    BY <2>1 DEF HInv, Keeping
  <2>2. CASE history' = Append(history, JobEntry(c))
    BY <2>2, KeptSay, EntryKept
  <2> QED
    BY <1>1, <2>1, <2>2
<1> QED
  BY <1>2, <1>3, <1>4, <1>5, KeptAtRest

-----------------------------------------------------------------------------
(* At rest, what the turn mirrors may end the turn.                        *)
LEMMA MirrorCommittable ==
  ASSUME IInv, AInv, MInv, HInv, AtRest, active
  PROVE  IsRunning /\ inbox = <<>> /\ mirror = SoFar(said, step) /\ Committable(mirror)
<1>1. IsRunning /\ inbox = <<>>
  BY RestMeans
<1>2. mirror = SoFar(said, step)
  BY <1>1, ToldFew DEF MInv, Mirroring
<1>3. Committable(SoFar(said, step))
  BY <1>1, SoFarCommittable
<1>4. Committable(mirror)
  BY <1>2, <1>3 DEF Committable
<1> QED
  BY <1>1, <1>2, <1>4

(* cancel().                                                               *)
LEMMA CancelKept ==
  ASSUME IInv, IInv', AInv, MInv, HInv, Cancel
  PROVE  HInv'
<1>1. AtRest /\ active /\ IsRunning /\ Committable(mirror)
  BY MirrorCommittable DEF Cancel
<1>2. ~active' /\ ~IsRunning' /\ request' = Abandoned(open)
  BY <1>1 DEF Cancel, AgentCancel, FinishTurn, IsRunning
<1>3. history' = history \o Projected(Reconciled(mirror), turnJobs, ~TRUE)
  BY DEF Cancel, FinishTurn, Commit
<1>4. CallsStay
  BY <1>2, CallsStayWhen
<1>5. PICK m : m = mirror
  OBVIOUS
<1>6. Committable(m) /\ history' = history \o Projected(Reconciled(m), turnJobs, ~TRUE)
  BY <1>1, <1>3, <1>5 DEF Committable
<1> QED
  BY <1>2, <1>4, <1>6, Committed

(* bindProvider(null).                                                     *)
LEMMA DetachKept ==
  ASSUME IInv, IInv', AInv, MInv, HInv, Detach
  PROVE  HInv'
<1>1. /\ AtRest /\ ~active' /\ ~IsRunning' /\ request' = Abandoned(open)
      /\ active => history' = history \o Projected(Reconciled(mirror), turnJobs, FALSE)
      /\ ~active => history' = history
  BY DEF Detach, FreshSession, IsRunning
<1>2. CallsStay
  BY <1>1, CallsStayWhen
<1>3. CASE active
  <2>1. Committable(mirror)
    BY <1>1, <1>3, MirrorCommittable
  <2>2. PICK m : m = mirror
    OBVIOUS
  <2>3. Committable(m) /\ history' = history \o Projected(Reconciled(m), turnJobs, FALSE)
    BY <1>1, <1>3, <2>1, <2>2 DEF Committable
  <2> QED
    BY <1>1, <1>2, <2>3, Committed
<1>4. CASE ~active
  BY <1>1, <1>2, <1>4, HistoryKeptAsIs
<1> QED
  BY <1>3, <1>4

(* The event that ends a turn commits what may end.                        *)
LEMMA EndsCommittable ==
  ASSUME IInv, MInv, HInv, OnEnd
  PROVE  /\ ~active' /\ ~IsRunning' /\ CallsStay
         /\ \E m, trailing :
              /\ Committable(m)
              /\ history' = history \o Projected(Reconciled(m), turnJobs, trailing)
<1>1. /\ At("deliver") /\ active /\ ~active' /\ UNCHANGED agentVars
      /\ Head(inbox)[1] \in Ends
      /\ request' = request \/ request' = Abandoned(open)
      /\ \E after : After(<<>>, <<>>, after)
  BY DEF OnEnd, Delivered, Ev, Ends, FinishTurn
<1>2. inbox # <<>> /\ inbox \in Seq(Events) /\ inbox' = Tail(inbox)
  BY <1>1, NoNews
<1>3. /\ Head(inbox) = inbox[1] /\ 1 \in DOMAIN inbox
      /\ \A N : Told(N, inbox) <=> Head(inbox)[1] \in N \/ Told(N, inbox')
  BY <1>2, Shifted
<1>4. ~IsRunning /\ ~IsRunning'
  BY <1>1, <1>3 DEF IInv, Agreement, IsRunning, agentVars
<1>5. CallsStay
  BY <1>1, CallsStayWhen
<1>6. /\ inbox[1][1] # "cancelled"
      /\ inbox[1][1] = "completed" => Committable(inbox[1][2])
      /\ inbox[1][1] = "failed" => Committable(mirror)
  BY <1>1, <1>3, <1>4 DEF HInv, Ending
<1>7. \/ /\ inbox[1][1] = "completed"
         /\ history' = history \o Projected(Reconciled(inbox[1][2]), turnJobs, ~FALSE)
      \/ /\ inbox[1][1] = "failed"
         /\ history' = history \o Projected(Reconciled(mirror), turnJobs, ~FALSE)
  BY <1>3, <1>6 DEF OnEnd, Delivered, Ev, EvArg, FinishTurn, Commit
<1>8. PICK m : Committable(m) /\ history' = history \o Projected(Reconciled(m), turnJobs, ~FALSE)
  <2>1. CASE inbox[1][1] = "completed"
    <3>1. PICK x : x = inbox[1][2]
      OBVIOUS
    <3>2. Committable(x) /\ history' = history \o Projected(Reconciled(x), turnJobs, ~FALSE)
      BY <1>6, <1>7, <2>1, <3>1 DEF Committable
    <3> QED
      BY <3>2
  <2>2. CASE inbox[1][1] = "failed"
    <3>1. PICK x : x = mirror
      OBVIOUS
    <3>2. Committable(x) /\ history' = history \o Projected(Reconciled(x), turnJobs, ~FALSE)
      BY <1>6, <1>7, <2>2, <3>1 DEF Committable
    <3> QED
      BY <3>2
  <2> QED
    BY <1>7, <2>1, <2>2
<1> QED
  BY <1>1, <1>4, <1>5, <1>8

(* The event that ends a turn.                                             *)
LEMMA EndKept ==
  ASSUME IInv, IInv', AInv, MInv, HInv, OnEnd
  PROVE  HInv'
  BY EndsCommittable, Committed

-----------------------------------------------------------------------------
(* A turn goes on, and leaves the history alone.                           *)
LEMMA SpeakingKept ==
  ASSUME HInv, UNCHANGED <<history, request>>, IsRunning', Speaking'
  PROVE  HInv'
<1>1. Keeping'
  BY DEF HInv, Keeping
<1>2. Ending'
  BY DEF Ending
<1> QED
  BY <1>1, <1>2 DEF HInv

(* A turn is over, and one event or another says so.                       *)
LEMMA EndingKept ==
  ASSUME HInv, UNCHANGED <<history, request>>, ~IsRunning',
         \A i \in DOMAIN inbox' :
           /\ inbox'[i][1] # "cancelled"
           /\ inbox'[i][1] = "completed" => Committable(inbox'[i][2])
           /\ inbox'[i][1] = "failed" => i = 1 /\ Committable(mirror')
  PROVE  HInv'
<1>1. Keeping'
  BY DEF HInv, Keeping
<1>2. Speaking'
  BY DEF Speaking
<1>3. ASSUME NEW m, Committable(m)
      PROVE  /\ m \in Seq(TurnEntries)
             /\ \A c \in Calls :
                  /\ Orderly(m, c) \/ Pending(m, c)
                  /\ SaidOf(c, m) => ~SaidOf(c, history') /\ request'[c] # "none"
  BY <1>3 DEF Committable
<1>4. ASSUME NEW i \in DOMAIN inbox', inbox'[i][1] = "completed"
      PROVE  Committable(inbox[i][2])'
  <2>1. PICK m : m = inbox'[i][2]
    OBVIOUS
  <2>2. Committable(m)
    BY <1>4, <2>1
  <2> QED
    BY <1>3, <2>1, <2>2 DEF Committable
<1>5. ASSUME NEW i \in DOMAIN inbox', inbox'[i][1] = "failed"
      PROVE  i = 1 /\ Committable(mirror)'
  <2>1. PICK m : m = mirror'
    OBVIOUS
  <2>2. i = 1 /\ Committable(m)
    BY <1>5, <2>1
  <2> QED
    BY <1>3, <2>1, <2>2 DEF Committable
<1>6. Ending'
  BY <1>4, <1>5 DEF Ending
<1> QED
  BY <1>1, <1>2, <1>6 DEF HInv

(* A call joins the step.                                                  *)
LEMMA StreamCallKept ==
  ASSUME IInv, HInv, NEW c \in Calls \ Asked, StreamCall(c), UNCHANGED <<sessionVars, deliveryVars>>
  PROVE  HInv'
<1>1. /\ IsRunning /\ IsRunning' /\ said' = said /\ step' = Append(step, c)
      /\ UNCHANGED <<history, request>>
  BY DEF StreamCall, IsRunning, sessionVars, historyVars, toolVars, holderVars
<1>2. request[c] = "none"
  BY DEF Asked
<1>3. ~SaidOf(c, history)
  BY <1>2 DEF HInv, Keeping
<1>4. ToSet(step') = ToSet(step) \cup {c}
  <2>1. step \in Seq(Calls)
    BY DEF IInv, StateOK
  <2>2. /\ DOMAIN step = 1..Len(step) /\ Len(step) \in Nat
        /\ DOMAIN step' = 1..(Len(step) + 1) /\ step'[Len(step) + 1] = c
        /\ \A i \in 1..Len(step) : step'[i] = step[i]
    BY <1>1, <2>1
  <2>3. \A i \in DOMAIN step' : i \in DOMAIN step \/ i = Len(step) + 1
    BY <2>2
  <2> QED
    BY <2>2, <2>3 DEF ToSet
<1>5. \A d \in Calls : /\ AsksOnce(said, d)
                       /\ SaidOf(d, said) \/ d \in ToSet(step) => ~SaidOf(d, history)
  BY <1>1 DEF HInv, Speaking
<1>6. Speaking'
  BY <1>1, <1>3, <1>4, <1>5 DEF Speaking
<1> QED
  BY <1>1, <1>6, SpeakingKept

(* A step with calls ends.                                                 *)
LEMMA StepEndKept ==
  ASSUME IInv, AInv, HInv, StreamEnd, step # <<>>, UNCHANGED <<sessionVars, deliveryVars>>
  PROVE  HInv'
<1>1. PICK entry : entry = ModelEntry(Len(said) + 1, step)
  OBVIOUS
<1>2. /\ AtRest /\ IsRunning /\ IsRunning' /\ said' = Append(said, entry) /\ step' = <<>>
      /\ UNCHANGED <<history, request>>
  BY <1>1 DEF StreamEnd, IsRunning, sessionVars, historyVars, toolVars, holderVars
<1>3. said' = SoFar(said, step)
  <2>1. said \in Seq(TurnEntries) /\ entry \in TurnEntries
    BY <1>1, StepEntry DEF IInv, StateOK
  <2>2. said \o <<entry>> = Append(said, entry)
    BY <2>1
  <2> QED
    BY <1>1, <1>2, <2>2 DEF SoFar
<1>4. inbox = <<>>
  BY <1>2, RestMeans
<1>5. \A c \in Calls : /\ AsksOnce(SoFar(said, step), c)
                       /\ SaidOf(c, SoFar(said, step)) => SaidOf(c, said) \/ c \in ToSet(step)
  BY <1>2, <1>4, SoFarCommittable
<1>6. \A c \in Calls : SaidOf(c, said) \/ c \in ToSet(step) => ~SaidOf(c, history)
  BY <1>2 DEF HInv, Speaking
<1>7. Speaking'
  BY <1>2, <1>3, <1>5, <1>6, NothingSaid DEF Speaking
<1> QED
  BY <1>2, <1>7, SpeakingKept

(* An entry that says nothing joins the transcript of a turn.              *)
LEMMA SilentlySaid ==
  ASSUME IInv, AInv, HInv, AtRest, IsRunning, phase # "tools", step = <<>>,
         NEW e \in TurnEntries, Silent(e)
  PROVE  /\ Committable(Append(said, e))
         /\ \A c \in Calls : /\ AsksOnce(Append(said, e), c)
                             /\ SaidOf(c, Append(said, e)) => ~SaidOf(c, history)
<1>1. said \in Seq(TurnEntries) /\ \A c \in Calls : Orderly(said, c)
  BY SaidOrderly
<1>2. \A x \in TurnEntries :
        <<x>> \in Seq(TurnEntries) /\ DOMAIN <<x>> = {1} /\ <<x>>[1] = x
  OBVIOUS
<1>3. PICK r \in Seq(TurnEntries) : r = <<e>> /\ DOMAIN r = {1} /\ r[1] = e
  BY <1>2
<1>4. PICK w : w = Append(said, e)
  OBVIOUS
<1>5. w = said \o r /\ w \in Seq(TurnEntries)
  BY <1>1, <1>3, <1>4
<1>6. \A c : /\ SaidOf(c, said \o r) <=> SaidOf(c, said)
             /\ Orderly(said, c) => Orderly(said \o r, c)
  BY <1>1, <1>3, SilenceAdded
<1>7. \A c \in Calls : Orderly(w, c) /\ (SaidOf(c, w) => SaidOf(c, said))
  BY <1>1, <1>5, <1>6
<1>8. \A c \in Calls : SaidOf(c, said) => ~SaidOf(c, history) /\ request[c] # "none"
  <2>1. \A c : ~Called(c, inbox)
    <3>1. inbox = <<>>
      BY RestMeans
    <3> QED
      BY <3>1 DEF Called
  <2> QED
    BY <2>1 DEF AInv, CallsKnown, HInv, Speaking
<1>9. Committable(w)
  BY <1>5, <1>7, <1>8 DEF Committable
<1>10. \A c \in Calls : AsksOnce(w, c) /\ (SaidOf(c, w) => ~SaidOf(c, history))
  BY <1>7, <1>8 DEF Orderly
<1> QED
  BY <1>4, <1>9, <1>10

(* The answer ends, and the turn with it.                                  *)
LEMMA AnswerEndKept ==
  ASSUME IInv, AInv, HInv, StreamEnd, step = <<>>, UNCHANGED <<sessionVars, deliveryVars>>
  PROVE  HInv'
<1>1. PICK entry : entry = ModelEntry(Len(said) + 1, step)
  OBVIOUS
<1>2. PICK e : e = Event("completed", said')
  OBVIOUS
<1>3. /\ AtRest /\ IsRunning /\ phase = "streaming" /\ ~IsRunning'
      /\ said' = Append(said, entry) /\ After(<<>>, <<e>>, Teardown)
      /\ UNCHANGED <<history, request>>
  BY <1>1, <1>2 DEF StreamEnd, IsRunning, sessionVars, historyVars, toolVars, holderVars
<1>4. entry \in TurnEntries /\ Silent(entry)
  <2>1. entry \in Models /\ entry \in TurnEntries
    BY <1>1, StepEntry DEF IInv, StateOK
  <2>2. entry.calls = <<>>
    BY <1>1 DEF ModelEntry
  <2> QED
    BY <2>1, <2>2, EntryAsks, NothingSaid DEF Silent
<1>5. Committable(Append(said, entry))
  BY <1>3, <1>4, SilentlySaid
<1>6. inbox' = <<e>>
  BY <1>3, OneEvent
<1>7. e[1] = "completed" /\ e[2] = said'
  BY <1>2, EventsAre
<1>8. DOMAIN <<e>> = {1} /\ <<e>>[1] = e
  OBVIOUS
<1>9. Committable(e[2])
  BY <1>3, <1>5, <1>7
<1>10. \A i \in DOMAIN inbox' : inbox'[i][1] = "completed" /\ inbox'[i] = e
  BY <1>6, <1>7, <1>8
<1> QED
  BY <1>3, <1>9, <1>10, EndingKept

(* A stream that fails.                                                    *)
LEMMA FailKept ==
  ASSUME IInv, AInv, MInv, HInv, StreamFail, UNCHANGED <<sessionVars, deliveryVars>>
  PROVE  HInv'
<1>1. PICK e : e = Event("failed", <<>>)
  OBVIOUS
<1>2. /\ AtRest /\ IsRunning /\ ~IsRunning' /\ After(<<>>, <<e>>, Teardown)
      /\ UNCHANGED <<history, request, mirror>>
  BY <1>1
  DEF StreamFail, IsRunning, sessionVars, turnVars, historyVars, toolVars, holderVars
<1>3. Committable(mirror)
  <2>1. active
    BY <1>2 DEF IInv, Agreement
  <2> QED
    BY <1>2, <2>1, MirrorCommittable
<1>4. inbox' = <<e>>
  BY <1>2, OneEvent
<1>5. e[1] = "failed"
  BY <1>1, EventsAre
<1>6. DOMAIN <<e>> = {1} /\ <<e>>[1] = e
  OBVIOUS
<1>7. \A i \in DOMAIN inbox' : inbox'[i][1] = "failed" /\ i = 1
  BY <1>4, <1>5, <1>6
<1>8. Committable(mirror')
  BY <1>2, <1>3
<1> QED
  BY <1>2, <1>7, <1>8, EndingKept

(* The summary is in: the turn goes on, or is over.                        *)
LEMMA SummaryKept ==
  ASSUME IInv, AInv, HInv, SummaryEnd, UNCHANGED <<sessionVars, deliveryVars>>
  PROVE  HInv'
<1>1. /\ AtRest /\ IsRunning /\ phase = "summarizing"
      /\ said' = Append(said, SummaryEntry) /\ step' = <<>>
      /\ phase' \in {"streaming", "over"} /\ turn' = turn
      /\ UNCHANGED <<history, request>>
  BY DEF SummaryEnd, StartStep, sessionVars, historyVars, toolVars, holderVars
<1>2. step = <<>>
  BY <1>1 DEF AInv, CallsKnown
<1>3. SummaryEntry \in TurnEntries /\ Silent(SummaryEntry)
  BY KeptSay DEF TurnEntries
<1>4. /\ Committable(Append(said, SummaryEntry))
      /\ \A c \in Calls : /\ AsksOnce(Append(said, SummaryEntry), c)
                          /\ SaidOf(c, Append(said, SummaryEntry)) => ~SaidOf(c, history)
  BY <1>1, <1>2, <1>3, SilentlySaid
<1>5. CASE phase' = "streaming"
  <2>1. IsRunning'
    BY <1>1, <1>5 DEF IsRunning
  <2>2. Speaking'
    BY <1>1, <1>4, NothingSaid DEF Speaking
  <2> QED
    BY <1>1, <2>1, <2>2, SpeakingKept
<1>6. CASE phase' = "over"
  <2>1. ~IsRunning'
    BY <1>6 DEF IsRunning
  <2>2. said' \in Seq(TurnEntries)
    BY <1>1, <1>4 DEF Committable
  <2>3. PICK a, b, c \in Events : /\ a = Event("folded", <<>>) /\ b = Event("updated", said')
                                  /\ c = Event("completed", said')
                                  /\ a[1] = "folded" /\ b[1] = "updated" /\ c[1] = "completed"
                                  /\ c[2] = said'
    <3>1. \A n, x : Event(n, x)[1] = n /\ Event(n, x)[2] = x
      BY EventsAre
    <3>2. /\ Event("folded", <<>>) \in Events /\ Event("updated", said') \in Events
          /\ Event("completed", said') \in Events
      BY <2>2, EventsAre
    <3> QED
      BY <3>1, <3>2
  <2>4. PICK events : /\ inbox' = InRest \o events
                      /\ events = <<a, b>> \/ events = Append(<<a, b>>, c)
    BY <1>1, <2>3 DEF SummaryEnd, After
  <2>5. events \in Seq(Events) /\ \A i \in DOMAIN events : events[i] \in {a, b, c}
    <3>1. <<a, b>> \in Seq(Events) /\ \A i \in DOMAIN <<a, b>> : <<a, b>>[i] \in {a, b}
      OBVIOUS
    <3>2. \A q \in Seq(Events) :
            /\ Append(q, c) \in Seq(Events)
            /\ \A i \in DOMAIN Append(q, c) :
                 (i \in DOMAIN q /\ Append(q, c)[i] = q[i]) \/ Append(q, c)[i] = c
      OBVIOUS
    <3> QED
      BY <2>4, <3>1, <3>2
  <2>6. inbox' = events
    <3>1. InRest = <<>>
      BY <1>1, RestMeans
    <3>2. \A s \in Seq(Events) : <<>> \o s = s
      OBVIOUS
    <3> QED
      BY <2>4, <2>5, <3>1, <3>2
  <2>7. Committable(c[2])
    BY <1>1, <1>4, <2>3
  <2>8. \A i \in DOMAIN inbox' : /\ inbox'[i][1] # "cancelled" /\ inbox'[i][1] # "failed"
                                 /\ inbox'[i][1] = "completed" => inbox'[i] = c
    BY <2>3, <2>5, <2>6
  <2> QED
    BY <1>1, <2>1, <2>7, <2>8, EndingKept
<1> QED
  BY <1>1, <1>5, <1>6

-----------------------------------------------------------------------------
(* The answers to its calls follow a step.                                 *)
LEMMA AnswersSay ==
  ASSUME NEW s \in Seq(TurnEntries), NEW r \in Seq(TurnEntries),
         \A i \in DOMAIN r : r[i] \in Answers /\ SaidOf(r[i].call, s), NEW c
  PROVE  /\ AsksOnce(s, c) => AsksOnce(s \o r, c)
         /\ SaidOf(c, s \o r) => SaidOf(c, s)
<1>1. Indices(s, r)
  BY ConcatIndices
<1>2. \A i \in DOMAIN (s \o r) : \/ i \in DOMAIN s /\ (s \o r)[i] = s[i]
                                 \/ \E j \in DOMAIN r : (s \o r)[i] = r[j]
  <2> TAKE i \in DOMAIN (s \o r)
  <2>1. CASE i \in DOMAIN s
    BY <1>1, <2>1 DEF Indices
  <2>2. CASE i - Len(s) \in DOMAIN r /\ i = (i - Len(s)) + Len(s)
    <3>1. (s \o r)[(i - Len(s)) + Len(s)] = r[i - Len(s)]
      BY <1>1, <2>2 DEF Indices
    <3> QED
      BY <2>2, <3>1
  <2> QED
    BY <1>1, <2>1, <2>2 DEF Indices
<1>3. \A i \in DOMAIN (s \o r) : Asks((s \o r)[i], c) => i \in DOMAIN s /\ (s \o r)[i] = s[i]
  BY <1>2, EntryAsks
<1>4. AsksOnce(s, c) => AsksOnce(s \o r, c)
  BY <1>3 DEF AsksOnce
<1>5. ASSUME SaidOf(c, s \o r) PROVE SaidOf(c, s)
  <2>1. PICK i \in DOMAIN (s \o r) : Asks((s \o r)[i], c) \/ Replies((s \o r)[i], c)
    BY <1>5 DEF SaidOf
  <2>2. CASE i \in DOMAIN s /\ (s \o r)[i] = s[i]
    BY <2>1, <2>2 DEF SaidOf
  <2>3. CASE \E j \in DOMAIN r : (s \o r)[i] = r[j]
    <3>1. PICK j \in DOMAIN r : (s \o r)[i] = r[j]
      BY <2>3
    <3>2. r[j].call = c
      BY <2>1, <3>1, EntryAsks
    <3> QED
      BY <3>2
  <2> QED
    BY <1>2, <2>2, <2>3
<1> QED
  BY <1>4, <1>5

(* The answers are taken.                                                  *)
LEMMA ResultsKept ==
  ASSUME IInv, IInv', AInv, HInv, ResultsJoined
  PROVE  HInv'
<1>1. At("joined") /\ ~At("deliver") /\ UNCHANGED <<history, request, mirror, active>>
  BY DEF ResultsJoined, At, sessionVars, turnVars, historyVars, toolVars, holderVars
<1>2. CASE ~(live /\ active /\ MaySubmit("tools"))
  <2>1. UNCHANGED agentVars /\ After(<<>>, <<>>, <<>>)
    BY <1>2 DEF ResultsJoined
  <2>2. UNCHANGED <<said, step>> /\ (IsRunning' => IsRunning) /\ inbox' = inbox
    BY <1>1, <2>1, NoNews DEF agentVars, IsRunning
  <2>3. CallsStay
    BY <1>1, CallsStayWhen
  <2> QED
    BY <1>1, <2>2, <2>3, QuietlyKept
<1>3. CASE live /\ active /\ MaySubmit("tools")
  <2>1. PICK fold \in BOOLEAN : AgentTakesResults(Arg, fold)
    BY <1>3 DEF ResultsJoined
  <2>2. /\ Asking /\ IsRunning /\ IsRunning' /\ said' = said \o Arg /\ step' = <<>>
    BY <1>3, <2>1 DEF AgentTakesResults, StartStep, MaySubmit, Asking, IsRunning
  <2>3. StepMade(said) /\ AnswersOf(Arg, Last(said).calls)
    <3>1. /\ Head(micro).does \in Joins /\ Arg = Head(micro).does[2]
          /\ \A S : Head(micro).does \in S => Has(S, micro)
      BY <1>1, HeadIs, HeadDoes, DoingNames DEF IInv
    <3>2. ~Has(Stray(Last(said).calls), micro) /\ StepMade(said)
      BY <2>2 DEF AInv, Joining
    <3> QED
      BY <3>1, <3>2 DEF Stray
  <2>4. PICK e \in Models : e = Last(said)
    BY <2>3 DEF StepMade
  <2>5. Len(said) \in DOMAIN said /\ said[Len(said)] = e
    <3>1. said \in Seq(TurnEntries) /\ said # <<>>
      BY <2>3 DEF StepMade, IInv, StateOK
    <3> QED
      BY <2>4, <3>1 DEF Last
  <2>6. Arg \in Seq(Answers) /\ \A i \in DOMAIN Arg : SaidOf(Arg[i].call, said)
    <3>1. ASSUME NEW i \in DOMAIN Arg PROVE SaidOf(Arg[i].call, said)
      <4>1. Arg[i].call \in ToSet(e.calls)
        BY <2>3, <2>4, <3>1 DEF AnswersOf, ToSet
      <4>2. Asks(e, Arg[i].call)
        BY <4>1, EntryAsks
      <4> QED
        BY <2>5, <4>2 DEF SaidOf
    <3> QED
      BY <2>3, <3>1 DEF AnswersOf
  <2>7. /\ said \in Seq(TurnEntries) /\ Arg \in Seq(TurnEntries)
        /\ \A i \in DOMAIN Arg : Arg[i] \in Answers
    <3>1. \A x \in Answers : x \in TurnEntries
      BY DEF TurnEntries
    <3> QED
      BY <2>6, <3>1 DEF IInv, StateOK
  <2>8. \A c : /\ AsksOnce(said, c) => AsksOnce(said \o Arg, c)
               /\ SaidOf(c, said \o Arg) => SaidOf(c, said)
    BY <2>6, <2>7, AnswersSay
  <2>9. \A c \in Calls : AsksOnce(said, c) /\ (SaidOf(c, said) => ~SaidOf(c, history))
    BY <2>2 DEF HInv, Speaking
  <2>10. Speaking'
    BY <1>1, <2>2, <2>8, <2>9, NothingSaid DEF Speaking
  <2> QED
    BY <1>1, <2>2, <2>10, SpeakingKept
<1> QED
  BY <1>2, <1>3

-----------------------------------------------------------------------------
(* Nothing is in the history at first.                                     *)
LEMMA InitHistory == Init => HInv
<1> SUFFICES ASSUME Init PROVE HInv
  OBVIOUS
<1>1. history = <<>> /\ ~IsRunning /\ ~active
  BY DEF Init, AgentInit, IsRunning
<1>2. \A c \in Calls : Orderly(<<>>, c) /\ ~SaidOf(c, <<>>)
  BY NothingSaid, OrderlyUnsaid
<1>3. <<>> \in Seq(KeptEntries)
  OBVIOUS
<1> QED
  BY <1>1, <1>2, <1>3 DEF HInv, Keeping, Speaking, Ending

(* Every step of the program keeps the history in order.                   *)
LEMMA NextHistory == IInv /\ IInv' /\ AInv /\ MInv /\ HInv /\ [Next]_vars => HInv'
<1> SUFFICES ASSUME IInv, IInv', AInv, MInv, HInv, [Next]_vars PROVE HInv'
  OBVIOUS
<1>1. CASE Microtask
  <2>1. CASE \/ Hop /\ UNCHANGED <<sessionVars, agentVars, deliveryVars>>
             \/ Tear /\ UNCHANGED <<sessionVars, deliveryVars>>
             \/ RunAnswered \/ DeliveryAnswered
             \/ EventIgnored \/ OnTranscript \/ OnNeedsPrompt \/ OnFolded \/ OnAnswer
    BY <2>1, QuietStepsKeep
  <2>2. CASE Resumed \/ IdleSeen
    BY <2>2, StartersKeep
  <2>3. CASE ResultsJoined
    BY <2>3, ResultsKept
  <2>4. CASE OnCall \/ OnNeedsResults
    BY <2>4, CallsKept
  <2>5. CASE OnEnd
    BY <2>5, EndKept
  <2> QED
    BY <1>1, <2>1, <2>2, <2>3, <2>4, <2>5 DEF Microtask
<1>2. CASE User
  BY <1>2, StartersKeep, CancelKept, SwapsKept DEF User
<1>3. CASE Network
  <2>1. UNCHANGED <<sessionVars, deliveryVars>>
    BY <1>3 DEF Network
  <2>2. CASE \E c \in Calls \ Asked : StreamCall(c)
    BY <2>1, <2>2, StreamCallKept
  <2>3. CASE StreamEnd
    BY <2>1, <2>3, StepEndKept, AnswerEndKept
  <2>4. CASE StreamFail
    BY <2>1, <2>4, FailKept
  <2>5. CASE SummaryEnd
    BY <2>1, <2>5, SummaryKept
  <2> QED
    BY <1>3, <2>2, <2>3, <2>4, <2>5 DEF Network
<1>4. CASE Attach
  BY <1>4, StartersKeep
<1>5. CASE Detach
  BY <1>5, DetachKept
<1>6. CASE \E c \in Calls : Work(c)
  BY <1>6, StartersKeep, WorkKept DEF Work
<1>7. CASE UNCHANGED vars
  BY <1>7, QuietStepsKeep
<1> QED
  BY <1>1, <1>2, <1>3, <1>4, <1>5, <1>6, <1>7 DEF Next

(* The history makes each call once and answers it once, the turn in       *)
(* flight makes none that the history has, and what is about to be         *)
(* committed is in order but for calls that wait at its end.               *)
THEOREM HistoryInvariance == Spec => []HInv
<1>1. Init => HInv
  BY InitHistory
<1>2. IInv /\ IInv' /\ AInv /\ MInv /\ HInv /\ [Next]_vars => HInv'
  BY NextHistory
<1> QED
  BY <1>1, <1>2, SessionInvariance, AskInvariance, MirrorInvariance, PTL DEF Spec

(* A history that is orderly is well formed.                               *)
LEMMA OrderlyHistory == HInv => HistoryWellFormed
<1> SUFFICES ASSUME HInv PROVE WellFormed(history)
  BY DEF HistoryWellFormed
<1>1. history \in Seq(KeptEntries) /\ \A c \in Calls : Orderly(history, c)
  BY DEF HInv, Keeping
<1>2. \A c \in Calls : AnsweredOnce(history, c)
  BY <1>1, OrderlyIs
<1> QED
  BY <1>2, WellFormedIs

(* However each turn ended, the history answers every call exactly once,   *)
(* after the entry that makes it and before anything else is said.         *)
THEOREM HistoryKept == Spec => []HistoryWellFormed
<1>1. HInv => HistoryWellFormed
  BY OrderlyHistory
<1> QED
  BY <1>1, HistoryInvariance, PTL

-----------------------------------------------------------------------------
(* An entry or a call occurs in s at most once.                            *)
Once(s, e) == \A i, j \in DOMAIN s : s[i] = e /\ s[j] = e => i = j

(* What is in a row put together by FlattenSeq, and what is there once.    *)
LEMMA FlatHolds ==
  ASSUME NEW T, NEW rows \in Seq(Seq(T)), NEW e
  PROVE  LET w == FlattenSeq(rows)
         IN  /\ w \in Seq(T)
             /\ e \in ToSet(w) <=> \E i \in DOMAIN rows : e \in ToSet(rows[i])
             /\ /\ \A i \in DOMAIN rows : Once(rows[i], e)
                /\ \A i, j \in DOMAIN rows :
                     e \in ToSet(rows[i]) /\ e \in ToSet(rows[j]) => i = j
                => Once(w, e)
<1> DEFINE w == FlattenSeq(rows)
           n == Len(rows)
<1>1. n \in Nat /\ DOMAIN rows = 1..n
  OBVIOUS
<1>2. w \in Seq(T) /\ \E at \in [1..n -> Nat] : Placed(at, rows, n, w)
  BY FlatPlaces
<1> HIDE DEF w, n
<1>3. PICK at \in [1..n -> Nat] : Placed(at, rows, n, w)
  BY <1>2
<1>4. \A i \in 1..n : \A k \in DOMAIN rows[i] : at[i] + k \in DOMAIN w /\ w[at[i] + k] = rows[i][k]
  BY <1>3 DEF Placed
<1>5. \A p \in DOMAIN w : \E i \in 1..n : \E k \in DOMAIN rows[i] : p = at[i] + k
  BY <1>3 DEF Placed
<1>6. ASSUME e \in ToSet(w) PROVE \E i \in 1..n : e \in ToSet(rows[i])
  <2>1. PICK p \in DOMAIN w : w[p] = e
    BY <1>6 DEF ToSet
  <2>2. PICK i \in 1..n : \E k \in DOMAIN rows[i] : p = at[i] + k
    BY <1>5
  <2>3. PICK k \in DOMAIN rows[i] : p = at[i] + k
    BY <2>2
  <2>4. rows[i][k] = e
    BY <1>4, <2>1, <2>3
  <2> QED
    BY <2>4 DEF ToSet
<1>7. ASSUME NEW i \in 1..n, e \in ToSet(rows[i]) PROVE e \in ToSet(w)
  <2>1. PICK k \in DOMAIN rows[i] : rows[i][k] = e
    BY <1>7 DEF ToSet
  <2>2. at[i] + k \in DOMAIN w /\ w[at[i] + k] = e
    BY <1>4, <2>1
  <2> QED
    BY <2>2 DEF ToSet
<1>8. ASSUME \A i \in 1..n : Once(rows[i], e),
             \A i, j \in 1..n : e \in ToSet(rows[i]) /\ e \in ToSet(rows[j]) => i = j,
             NEW p \in DOMAIN w, NEW q \in DOMAIN w, w[p] = e, w[q] = e
      PROVE  p = q
  <2>1. PICK i \in 1..n : \E k \in DOMAIN rows[i] : p = at[i] + k
    BY <1>5
  <2>2. PICK k \in DOMAIN rows[i] : p = at[i] + k
    BY <2>1
  <2>3. PICK j \in 1..n : \E l \in DOMAIN rows[j] : q = at[j] + l
    BY <1>5
  <2>4. PICK l \in DOMAIN rows[j] : q = at[j] + l
    BY <2>3
  <2>5. rows[i][k] = e /\ rows[j][l] = e
    BY <1>4, <1>8, <2>2, <2>4
  <2>6. i = j
    BY <1>8, <2>5 DEF ToSet
  <2>7. k = l
    BY <1>8, <2>5, <2>6 DEF Once
  <2> QED
    BY <2>2, <2>4, <2>6, <2>7
<1>9. /\ \A i \in 1..n : Once(rows[i], e)
      /\ \A i, j \in 1..n : e \in ToSet(rows[i]) /\ e \in ToSet(rows[j]) => i = j
      => Once(w, e)
  BY <1>8 DEF Once
<1> QED
  BY <1>1, <1>2, <1>6, <1>7, <1>9 DEF w

(* The same of two sequences in a row.                                     *)
LEMMA JoinedHolds ==
  ASSUME NEW T, NEW s \in Seq(T), NEW t \in Seq(T), NEW e
  PROVE  /\ e \in ToSet(s \o t) <=> e \in ToSet(s) \/ e \in ToSet(t)
         /\ Once(s, e) /\ Once(t, e) /\ ~(e \in ToSet(s) /\ e \in ToSet(t)) => Once(s \o t, e)
<1> DEFINE w == s \o t
<1>1. /\ Len(s) \in Nat /\ Len(t) \in Nat /\ DOMAIN s = 1..Len(s) /\ DOMAIN t = 1..Len(t)
      /\ DOMAIN w = 1..(Len(s) + Len(t))
      /\ \A i \in 1..(Len(s) + Len(t)) : w[i] = IF i <= Len(s) THEN s[i] ELSE t[i - Len(s)]
  OBVIOUS
<1> HIDE DEF w
<1>2. \A i \in DOMAIN w : \/ i \in DOMAIN s /\ w[i] = s[i]
                          \/ i - Len(s) \in DOMAIN t /\ w[i] = t[i - Len(s)]
  BY <1>1
<1>3. \A i \in DOMAIN s : i \in DOMAIN w /\ w[i] = s[i]
  BY <1>1
<1>4. ASSUME NEW i \in DOMAIN t PROVE Len(s) + i \in DOMAIN w /\ w[Len(s) + i] = t[i]
  <2>1. Len(s) + i \in 1..(Len(s) + Len(t)) /\ ~(Len(s) + i <= Len(s))
    BY <1>1
  <2>2. (Len(s) + i) - Len(s) = i
    BY <1>1
  <2> QED
    BY <1>1, <2>1, <2>2
<1>5. e \in ToSet(w) <=> e \in ToSet(s) \/ e \in ToSet(t)
  <2>1. e \in ToSet(w) => e \in ToSet(s) \/ e \in ToSet(t)
    BY <1>2 DEF ToSet
  <2>2. e \in ToSet(s) \/ e \in ToSet(t) => e \in ToSet(w)
    BY <1>3, <1>4 DEF ToSet
  <2> QED
    BY <2>1, <2>2
<1>6. ASSUME Once(s, e), Once(t, e), ~(e \in ToSet(s) /\ e \in ToSet(t)),
             NEW p \in DOMAIN w, NEW q \in DOMAIN w, w[p] = e, w[q] = e
      PROVE  p = q
  <2>1. CASE p \in DOMAIN s /\ q \in DOMAIN s /\ s[p] = e /\ s[q] = e
    BY <1>6, <2>1 DEF Once
  <2>2. CASE p - Len(s) \in DOMAIN t /\ q - Len(s) \in DOMAIN t
             /\ t[p - Len(s)] = e /\ t[q - Len(s)] = e
    <3>1. p - Len(s) = q - Len(s)
      BY <1>6, <2>2 DEF Once
    <3> QED
      BY <1>1, <3>1
  <2>3. CASE e \in ToSet(s) /\ e \in ToSet(t)
    BY <1>6, <2>3
  <2> QED
    BY <1>2, <1>6, <2>1, <2>2, <2>3 DEF ToSet
<1>7. Once(s, e) /\ Once(t, e) /\ ~(e \in ToSet(s) /\ e \in ToSet(t)) => Once(w, e)
  BY <1>6 DEF Once
<1> QED
  BY <1>5, <1>7 DEF w

(* The same of one element more.                                           *)
LEMMA AppendHolds ==
  ASSUME NEW T, NEW s \in Seq(T), NEW x \in T, NEW e
  PROVE  /\ e \in ToSet(Append(s, x)) <=> e \in ToSet(s) \/ e = x
         /\ Once(s, e) /\ ~(e \in ToSet(s) /\ e = x) => Once(Append(s, x), e)
<1>0. \A y \in T : <<y>> \in Seq(T) /\ DOMAIN <<y>> = {1} /\ <<y>>[1] = y
  OBVIOUS
<1>1. PICK t \in Seq(T) : t = <<x>> /\ DOMAIN t = {1} /\ t[1] = x
  BY <1>0
<1>2. (e \in ToSet(t) <=> e = x) /\ Once(t, e)
  BY <1>1 DEF ToSet, Once
<1>3. Append(s, x) = s \o t
  BY <1>1
<1> QED
  BY <1>2, <1>3, JoinedHolds

-----------------------------------------------------------------------------
(* Each of some jobs has one row, and only they have.                      *)
RowsOnce(s, jobs) ==
  \A c \in Calls : Once(s, JobEntry(c)) /\ (JobEntry(c) \in ToSet(s) <=> c \in jobs)

(* A row names its job.                                                    *)
LEMMA RowsNameJobs ==
  /\ \A c, d : JobEntry(c) = JobEntry(d) => c = d
  /\ \A c : /\ JobEntry(c) \notin TurnEntries /\ JobEntry(c) # UserEntry
            /\ \A rs : JobEntry(c) # ReportEntry(rs)
  /\ \A e \in KeptEntries : \A c : IsKind("job", e) /\ e.call = c => e = JobEntry(c)
  /\ \A c : IsKind("job", JobEntry(c)) /\ JobEntry(c).call = c
<1>1. \A c : JobEntry(c).kind = "job" /\ JobEntry(c).call = c
  BY DEF JobEntry
<1>2. \A c, d : JobEntry(c) = JobEntry(d) => c = d
  BY <1>1
<1>3. /\ \A rs : ReportEntry(rs).kind = "report"
      /\ UserEntry.kind = "user"
  BY DEF ReportEntry, UserEntry
<1>4. \A e \in TurnEntries : e.kind # "job"
  BY KindsOfEntries
<1>5. ASSUME NEW e \in KeptEntries, NEW c, e.kind = "job", e.call = c PROVE e = JobEntry(c)
  <2>1. \E d \in Calls : e = JobEntry(d)
    BY <1>3, <1>4, <1>5 DEF KeptEntries
  <2> QED
    BY <1>1, <1>5, <2>1
<1> QED
  BY <1>1, <1>2, <1>3, <1>4, <1>5 DEF IsKind

(* The rows of the entries: the jobs they answer.                          *)
LEMMA AnsweredJobsRows ==
  ASSUME NEW m \in Seq(TurnEntries), NEW jobs, NEW rows, DOMAIN rows = DOMAIN m,
         rows = [i \in DOMAIN m |-> rows[i]],
         \A i \in DOMAIN m : rows[i] \in RowsFor(m[i]),
         \A i \in DOMAIN m : m[i] \in Answers =>
           rows[i] = IF m[i].call \in jobs THEN <<m[i], JobEntry(m[i].call)>> ELSE <<m[i]>>,
         \A c \in Calls : Orderly(m, c)
  PROVE  /\ FlattenSeq(rows) \in Seq(KeptEntries)
         /\ RowsOnce(FlattenSeq(rows), jobs \cap AnsweredIn(m))
<1>1. Len(m) \in Nat /\ DOMAIN m = 1..Len(m) /\ \A i \in DOMAIN m : m[i] \in TurnEntries
  OBVIOUS
<1>2. rows \in Seq(Seq(KeptEntries))
  <2>1. \A i \in DOMAIN m : rows[i] \in Seq(KeptEntries)
    BY <1>1, RowsKeep
  <2> QED
    BY <1>1, <2>1
<1>3. ASSUME NEW c \in Calls, NEW i \in DOMAIN m
      PROVE  /\ Once(rows[i], JobEntry(c))
             /\ JobEntry(c) \in ToSet(rows[i]) <=>
                  m[i] \in Answers /\ m[i].call = c /\ c \in jobs
  <2>1. m[i] # JobEntry(c)
    BY <1>1, RowsNameJobs
  <2>2. \A e : /\ DOMAIN <<e>> = {1} /\ <<e>>[1] = e
               /\ \A d : DOMAIN <<e, d>> = {1, 2} /\ <<e, d>>[1] = e /\ <<e, d>>[2] = d
    OBVIOUS
  <2>3. CASE rows[i] = <<m[i]>> /\ ~(m[i] \in Answers /\ m[i].call \in jobs)
    BY <2>1, <2>2, <2>3 DEF Once, ToSet
  <2>4. CASE /\ m[i] \in Answers /\ m[i].call \in jobs
             /\ rows[i] = <<m[i], JobEntry(m[i].call)>>
    <3>1. PICK j : j = JobEntry(m[i].call)
      OBVIOUS
    <3>2. DOMAIN rows[i] = {1, 2} /\ rows[i][1] = m[i] /\ rows[i][2] = j
      BY <2>2, <2>4, <3>1
    <3>3. j = JobEntry(c) <=> m[i].call = c
      BY <3>1, RowsNameJobs
    <3> QED
      BY <2>1, <2>4, <3>2, <3>3 DEF Once, ToSet
  <2>5. CASE rows[i] = <<>> /\ m[i] \notin Answers
    BY <2>5 DEF Once, ToSet
  <2> QED
    BY <2>3, <2>4, <2>5 DEF RowsFor
<1>4. ASSUME NEW c \in Calls
      PROVE  \A i, j \in DOMAIN m :
               JobEntry(c) \in ToSet(rows[i]) /\ JobEntry(c) \in ToSet(rows[j]) => i = j
  <2>1. \A i, j \in DOMAIN m : Replies(m[i], c) /\ Replies(m[j], c) => i = j
    BY DEF Orderly
  <2>2. \A i \in DOMAIN m : JobEntry(c) \in ToSet(rows[i]) => Replies(m[i], c)
    BY <1>3, KindsOfEntries DEF Replies, IsKind
  <2> QED
    BY <2>1, <2>2
<1>5. ASSUME NEW c \in Calls
      PROVE  (\E i \in DOMAIN m : JobEntry(c) \in ToSet(rows[i])) <=> c \in jobs \cap AnsweredIn(m)
  <2>1. \A i \in DOMAIN m : IsKind("answer", m[i]) <=> m[i] \in Answers
    BY <1>1, KindsOfEntries DEF IsKind
  <2>2. c \in AnsweredIn(m) <=> \E i \in DOMAIN m : m[i] \in Answers /\ m[i].call = c
    BY <2>1 DEF AnsweredIn
  <2> QED
    BY <1>3, <2>2
<1>6. ASSUME NEW c \in Calls
      PROVE  /\ Once(FlattenSeq(rows), JobEntry(c))
             /\ JobEntry(c) \in ToSet(FlattenSeq(rows)) <=> c \in jobs \cap AnsweredIn(m)
  BY <1>2, <1>3, <1>4, <1>5, FlatHolds
<1> QED
  BY <1>2, <1>6, FlatPlaces DEF RowsOnce

(* The rows of the jobs that no entry answers.                             *)
LEMMA LateJobsRows ==
  ASSUME NEW jobs \in Seq(Calls), \A c \in Calls : Once(jobs, c), NEW A, NEW rows,
         rows = [i \in DOMAIN jobs |-> IF jobs[i] \in A THEN <<>> ELSE <<JobEntry(jobs[i])>>]
  PROVE  /\ FlattenSeq(rows) \in Seq(KeptEntries)
         /\ RowsOnce(FlattenSeq(rows), ToSet(jobs) \ A)
<1>1. /\ Len(jobs) \in Nat /\ DOMAIN jobs = 1..Len(jobs)
      /\ \A i \in DOMAIN jobs : jobs[i] \in Calls
  OBVIOUS
<1>2. \A i \in DOMAIN jobs :
        /\ rows[i] \in Seq(KeptEntries)
        /\ \A c : /\ Once(rows[i], JobEntry(c))
                  /\ JobEntry(c) \in ToSet(rows[i]) <=> jobs[i] = c /\ c \notin A
  <2> TAKE i \in DOMAIN jobs
  <2>1. \A e \in KeptEntries : <<e>> \in Seq(KeptEntries) /\ DOMAIN <<e>> = {1} /\ <<e>>[1] = e
    OBVIOUS
  <2>2. PICK e \in KeptEntries : e = JobEntry(jobs[i])
    BY <1>1, KeptSay
  <2>3. \A c : e = JobEntry(c) <=> jobs[i] = c
    BY <2>2, RowsNameJobs
  <2>4. CASE jobs[i] \in A
    <3>1. rows[i] = <<>> /\ <<>> \in Seq(KeptEntries) /\ DOMAIN <<>> = {}
      BY <2>4
    <3> QED
      BY <2>4, <3>1 DEF Once, ToSet
  <2>5. CASE jobs[i] \notin A
    <3>1. rows[i] = <<e>>
      BY <2>2, <2>5
    <3>2. rows[i] \in Seq(KeptEntries) /\ DOMAIN rows[i] = {1} /\ rows[i][1] = e
      BY <2>1, <3>1
    <3> QED
      BY <2>3, <2>5, <3>2 DEF Once, ToSet
  <2> QED
    BY <2>4, <2>5
<1>3. rows \in Seq(Seq(KeptEntries)) /\ DOMAIN rows = DOMAIN jobs
  BY <1>1, <1>2
<1>4. ASSUME NEW c \in Calls
      PROVE  /\ Once(FlattenSeq(rows), JobEntry(c))
             /\ JobEntry(c) \in ToSet(FlattenSeq(rows)) <=> c \in ToSet(jobs) \ A
  <2>1. \A i, j \in DOMAIN rows :
          JobEntry(c) \in ToSet(rows[i]) /\ JobEntry(c) \in ToSet(rows[j]) => i = j
    BY <1>2, <1>3 DEF Once
  <2>2. (\E i \in DOMAIN rows : JobEntry(c) \in ToSet(rows[i])) <=> c \in ToSet(jobs) \ A
    BY <1>2, <1>3 DEF ToSet
  <2> QED
    BY <1>2, <1>3, <2>1, <2>2, FlatHolds
<1> QED
  BY <1>3, <1>4, FlatPlaces DEF RowsOnce

(* _projectTurn gives each of the turn's jobs a row.                       *)
LEMMA ProjectedRows ==
  ASSUME NEW m \in Seq(TurnEntries), NEW jobs \in Seq(Calls), NEW trailing, folds \in Nat,
         \A c \in Calls : Orderly(m, c) /\ Once(jobs, c)
  PROVE  RowsOnce(Projected(m, jobs, trailing), ToSet(jobs))
<1> DEFINE Fold(i) == CountOf("summary", SubSeq(m, 1, i))
           Rows(i) ==
             CASE IsKind("summary", m[i]) -> IF Fold(i) <= folds THEN <<SummaryEntry>> ELSE <<>>
               [] IsKind("answer", m[i]) ->
                    IF m[i].call \in ToSet(jobs)
                    THEN <<m[i], JobEntry(m[i].call)>> ELSE <<m[i]>>
               [] OTHER -> <<m[i]>>
           Late(c) == IF c \in AnsweredIn(m) THEN <<>> ELSE <<JobEntry(c)>>
           extra == IF trailing /\ folds > Fold(Len(m)) THEN folds - Fold(Len(m)) ELSE 0
<1>1. PICK rows : rows = [i \in DOMAIN m |-> Rows(i)]
  OBVIOUS
<1>2. PICK lates : lates = [i \in DOMAIN jobs |-> Late(jobs[i])]
  OBVIOUS
<1>3. PICK more : more = [i \in 1..extra |-> SummaryEntry]
  OBVIOUS
<1>4. Projected(m, jobs, trailing) = FlattenSeq(rows) \o more \o FlattenSeq(lates)
  BY <1>1, <1>2, <1>3 DEF Projected
<1>5. more \in Seq(KeptEntries) /\ \A i \in DOMAIN more : more[i] = SummaryEntry
  <2>1. Fold(Len(m)) \in Nat
    <3>1. SubSeq(m, 1, Len(m)) \in Seq(TurnEntries)
      OBVIOUS
    <3> QED
      BY <3>1, SummariesCounted DEF Summed
  <2>2. extra \in Nat
    <3>1. PICK n \in Nat : n = Fold(Len(m))
      BY <2>1
    <3> HIDE DEF Fold
    <3> QED
      BY <3>1
  <2> HIDE DEF extra
  <2> QED
    BY <1>3, <2>2, KeptSay
<1>6. RowsOnce(more, {})
  BY <1>5, RowsNameJobs DEF RowsOnce, Once, ToSet, TurnEntries
<1>7. /\ FlattenSeq(lates) \in Seq(KeptEntries)
      /\ RowsOnce(FlattenSeq(lates), ToSet(jobs) \ AnsweredIn(m))
  BY <1>2, LateJobsRows
<1>8. ASSUME NEW i \in DOMAIN m
      PROVE  /\ rows[i] \in RowsFor(m[i])
             /\ m[i] \in Answers =>
                  rows[i] = IF m[i].call \in ToSet(jobs)
                            THEN <<m[i], JobEntry(m[i].call)>> ELSE <<m[i]>>
  <2>1. m[i] \in TurnEntries
    OBVIOUS
  <2>2. rows[i] = Rows(i)
    BY <1>1
  <2>3. \/ m[i] \in Models /\ m[i].kind = "model" /\ m[i] \notin Answers
        \/ m[i] \in Answers /\ m[i].kind = "answer" /\ m[i] \notin Models
        \/ m[i] = SummaryEntry /\ m[i].kind = "summary" /\ m[i] \notin Models /\ m[i] \notin Answers
    BY <2>1, KindsOfEntries
  <2>4. CASE m[i].kind = "summary"
    BY <2>2, <2>3, <2>4 DEF RowsFor, IsKind
  <2>5. CASE m[i].kind = "answer"
    BY <2>2, <2>3, <2>5 DEF RowsFor, IsKind
  <2>6. CASE m[i].kind = "model"
    BY <2>2, <2>3, <2>6 DEF RowsFor, IsKind
  <2> QED
    BY <2>3, <2>4, <2>5, <2>6
<1>9. DOMAIN rows = DOMAIN m /\ rows = [i \in DOMAIN m |-> rows[i]]
  BY <1>1
<1> HIDE DEF Rows, Late, extra, Fold
<1>10. /\ FlattenSeq(rows) \in Seq(KeptEntries)
       /\ RowsOnce(FlattenSeq(rows), ToSet(jobs) \cap AnsweredIn(m))
  BY <1>8, <1>9, AnsweredJobsRows
<1>11. PICK f \in Seq(KeptEntries) : f = FlattenSeq(rows)
  BY <1>10
<1>12. PICK l \in Seq(KeptEntries) : l = FlattenSeq(lates)
  BY <1>7
<1>13. f \o more \in Seq(KeptEntries)
  BY <1>5
<1>14. RowsOnce(f \o more, ToSet(jobs) \cap AnsweredIn(m))
  BY <1>5, <1>6, <1>10, <1>11, JoinedHolds DEF RowsOnce
<1>15. RowsOnce((f \o more) \o l, ToSet(jobs))
  BY <1>7, <1>12, <1>13, <1>14, JoinedHolds DEF RowsOnce
<1> QED
  BY <1>4, <1>11, <1>12, <1>15

-----------------------------------------------------------------------------
(* A call that is on its way to the session was not made before, and work  *)
(* is behind the calls that were made only.                                *)
FreshInv ==
  /\ Told(CallNews, inbox) => request[Last(step)] = "none"
  /\ \A c \in Calls : request[c] = "none" => work[c] = "none"

(* A step that puts no new call on its way.                                *)
LEMMA FreshWhen ==
  ASSUME IInv', AInv', MInv', FreshInv, CallsStay,
         \A c \in Calls : work'[c] # "none" => work[c] # "none" \/ request'[c] # "none",
         \/ step' = <<>> \/ ~IsRunning' \/ inbox' = <<>>
         \/ /\ UNCHANGED <<step, request>>
            /\ Told(CallNews, inbox') => Told(CallNews, inbox)
  PROVE  FreshInv'
<1>1. ASSUME NEW c \in Calls, request'[c] = "none" PROVE work'[c] = "none"
  BY <1>1 DEF FreshInv, CallsStay
<1>2. ASSUME Told(CallNews, inbox') PROVE request'[Last(step')] = "none"
  <2>1. IsRunning'
    BY <1>2 DEF AInv, Joining
  <2>2. step' # <<>>
    BY <1>2, <2>1 DEF MInv, Mirroring
  <2>3. inbox' # <<>>
    BY <1>2, ToldFew
  <2> QED
    BY <1>2, <2>1, <2>2, <2>3 DEF FreshInv
<1> QED
  BY <1>1, <1>2 DEF FreshInv

(* Fewer events bring no new call.                                         *)
LEMMA NoNewCall ==
  ASSUME IInv, NEW before, NEW after, After(before, <<>>, after)
  PROVE  Told(CallNews, inbox') => Told(CallNews, inbox)
<1>1. CASE ~At("deliver")
  BY <1>1, NoNews
<1>2. CASE At("deliver")
  BY <1>2, NoNews, Shifted
<1> QED
  BY <1>1, <1>2

(* A step that leaves step and requests alone and adds no event.           *)
LEMMA FreshQuietly ==
  ASSUME IInv', AInv', MInv', FreshInv, IInv, UNCHANGED <<step, request, work>>,
         \/ inbox' = inbox
         \/ \E before, after : After(before, <<>>, after)
  PROVE  FreshInv'
<1>1. CallsStay
  BY DEF CallsStay
<1>2. Told(CallNews, inbox') => Told(CallNews, inbox)
  BY NoNewCall
<1> QED
  BY <1>1, <1>2, FreshWhen

(* A turn begins, or waits.                                                *)
LEMMA FreshBegun ==
  ASSUME IInv', AInv', MInv', FreshInv, IInv, ~active, NEW g, NEW from, NEW before,
         RunTurn(g, from, before) \/ StartRun(g, from, before), work' = work
  PROVE  FreshInv'
<1>1. ~IsRunning /\ CanRun /\ request' = request
  BY DEF IInv, Agreement, CanRun, RunTurn, StartRun, holderVars
<1>2. CallsStay
  BY <1>1 DEF CallsStay
<1>3. CASE StartRun(g, from, before)
  <2>1. PICK fold \in BOOLEAN : AgentRun(g, fold)
    BY <1>1, <1>3 DEF StartRun
  <2>2. step' = <<>>
    BY <2>1 DEF AgentRun, StartStep
  <2> QED
    BY <1>2, <2>2, FreshWhen
<1>4. CASE RunTurn(g, from, before) /\ pendingCancel
  <2>1. ~IsRunning'
    BY <1>1, <1>4 DEF RunTurn, agentVars, IsRunning
  <2> QED
    BY <1>2, <2>1, FreshWhen
<1> QED
  BY <1>3, <1>4 DEF RunTurn

(* The buffer takes an input.                                              *)
LEMMA FreshDelivery ==
  ASSUME IInv', AInv', MInv', FreshInv, IInv, NEW canRun, Deliver(canRun),
         \/ work' = work
         \/ \E c \in Calls : work[c] = "background" /\ work' = [work EXCEPT ![c] = "reported"]
  PROVE  FreshInv'
<1>0. work \in [Calls -> Works]
  BY DEF IInv, StateOK
<1>1. \A c \in Calls : work'[c] # "none" => work[c] # "none"
  BY <1>0
<1>2. request' = request
  BY DEF Deliver, BeginDeliveryTurn, RunTurn, StartRun, holderVars
<1>3. CallsStay
  BY <1>2 DEF CallsStay
<1>4. CASE UNCHANGED agentVars /\ \E after : After(<<>>, <<>>, after)
  <2>1. step' = step
    BY <1>4 DEF agentVars
  <2>2. Told(CallNews, inbox') => Told(CallNews, inbox)
    BY <1>4, NoNewCall
  <2> QED
    BY <1>1, <1>2, <1>3, <2>1, <2>2, FreshWhen
<1>5. CASE RunTurn("respond", "delivery", <<Idled>>) /\ ~active
  <2>1. ~IsRunning /\ CanRun
    BY <1>5 DEF IInv, Agreement, CanRun
  <2>2. CASE pendingCancel
    <3>1. ~IsRunning'
      BY <1>5, <2>1, <2>2 DEF RunTurn, agentVars, IsRunning
    <3> QED
      BY <1>1, <1>3, <3>1, FreshWhen
  <2>3. CASE ~pendingCancel
    <3>1. PICK fold \in BOOLEAN : AgentRun("respond", fold)
      BY <1>5, <2>1, <2>3 DEF RunTurn, StartRun
    <3>2. step' = <<>>
      BY <3>1 DEF AgentRun, StartStep
    <3> QED
      BY <1>1, <1>3, <3>2, FreshWhen
  <2> QED
    BY <2>2, <2>3
<1> QED
  BY <1>4, <1>5 DEF Deliver, BeginDeliveryTurn

(* Tasks and events.                                                       *)
LEMMA FreshTasks ==
  ASSUME IInv', AInv', MInv', FreshInv, IInv, AInv, MInv, Microtask
  PROVE  FreshInv'
<1>1. CASE Hop /\ UNCHANGED <<sessionVars, agentVars, deliveryVars>>
  <2>1. UNCHANGED <<step, request, work, inbox>>
    BY <1>1 DEF Hop, sessionVars, toolVars, holderVars, agentVars
  <2> QED
    BY <2>1, FreshQuietly
<1>2. CASE Tear /\ UNCHANGED <<sessionVars, deliveryVars>>
  <2>1. UNCHANGED <<step, request, work>> /\ After(<<>>, <<>>, <<>>)
    BY <1>2 DEF Tear, sessionVars, toolVars, holderVars
  <2> QED
    BY <2>1, FreshQuietly
<1>3. CASE RunAnswered
  <2>1. UNCHANGED <<step, request, work>> /\ \E after : After(<<>>, <<>>, after)
    BY <1>3 DEF RunAnswered, toolVars, holderVars, agentVars
  <2> QED
    BY <2>1, FreshQuietly
<1>4. CASE DeliveryAnswered \/ EventIgnored \/ OnTranscript \/ OnNeedsPrompt \/ OnFolded
           \/ OnAnswer
  <2>1. UNCHANGED <<step, request, work>> /\ After(<<>>, <<>>, <<>>)
    BY <1>4 DEF DeliveryAnswered, EventIgnored, OnTranscript, OnNeedsPrompt, OnFolded, OnAnswer,
                AgentTakesPrompt, sessionVars, toolVars, holderVars, agentVars
  <2> QED
    BY <2>1, FreshQuietly
<1>5. CASE Resumed
  <2>1. At("resume") /\ Head(micro).does \in Resumes
    BY <1>5, HeadDoes, DoingNames DEF Resumed, IInv
  <2>2. Has(Resumes, micro)
    BY <2>1, HeadDoes DEF IInv
  <2>3. ~active
    BY <2>1, <2>2 DEF IInv, Buffering
  <2>4. StartRun(Arg.goal, Arg.from, <<>>) /\ work' = work
    BY <1>5 DEF Resumed
  <2> QED
    BY <2>3, <2>4, FreshBegun
<1>6. CASE IdleSeen
  <2>1. Deliver(live) /\ work' = work
    BY <1>6 DEF IdleSeen
  <2> QED
    BY <2>1, FreshDelivery
<1>7. CASE ResultsJoined
  <2>1. UNCHANGED <<request, work>>
    BY <1>7 DEF ResultsJoined, sessionVars, toolVars, holderVars
  <2>2. CallsStay
    BY <2>1 DEF CallsStay
  <2>3. CASE live /\ active /\ MaySubmit("tools")
    <3>1. PICK fold \in BOOLEAN : AgentTakesResults(Arg, fold)
      BY <1>7, <2>3 DEF ResultsJoined
    <3>2. step' = <<>>
      BY <3>1 DEF AgentTakesResults, StartStep
    <3> QED
      BY <2>1, <2>2, <3>2, FreshWhen
  <2>4. CASE ~(live /\ active /\ MaySubmit("tools"))
    <3>1. step' = step /\ After(<<>>, <<>>, <<>>)
      BY <1>7, <2>4 DEF ResultsJoined, agentVars
    <3> QED
      BY <2>1, <3>1, FreshQuietly
  <2> QED
    BY <2>3, <2>4
<1>8. CASE OnNeedsResults
  <2>1. UNCHANGED <<step, request, work>> /\ \E after : After(<<>>, <<>>, after)
    BY <1>8 DEF OnNeedsResults, agentVars
  <2> QED
    BY <2>1, FreshQuietly
<1>9. CASE OnCall
  <2>1. /\ At("deliver") /\ Head(inbox)[1] = "call" /\ After(<<>>, <<>>, <<>>)
    BY <1>9 DEF OnCall, Delivered, Ev
  <2>2. inbox # <<>> /\ inbox \in Seq(Events) /\ inbox' = Tail(inbox)
    BY <2>1, NoNews
  <2>3. Told(CallNews, inbox) /\ IsRunning
    <3>1. Told(CallNews, inbox)
      BY <2>1, <2>2, Shifted DEF CallNews
    <3> QED
      BY <3>1 DEF AInv, Joining
  <2>4. PICK e : inbox = <<e>>
    BY <2>3 DEF MInv, Mirroring
  <2>5. inbox' = <<>>
    BY <2>2, <2>4
  <2>6. Head(inbox) \in Events
    BY <2>2
  <2>7. EvArg.call \in Calls
    BY <2>1, <2>6 DEF Events, EvArg
  <2>8. PICK c \in Calls : c = EvArg.call
    BY <2>7
  <2>9. \/ request' = request /\ work' = work
        \/ request' = [request EXCEPT ![c] = "failed"] /\ work' = work
        \/ /\ request' = [request EXCEPT ![c] = "live"]
           /\ work' = [work EXCEPT ![c] = "running"]
    BY <1>9, <2>8 DEF OnCall, StartCall, toolVars, holderVars
  <2>10. request \in [Calls -> Requests] /\ work \in [Calls -> Works]
    BY DEF IInv, StateOK
  <2>11. CallsStay /\ \A d \in Calls : work'[d] # "none" => work[d] # "none" \/ request'[d] # "none"
    BY <2>9, <2>10 DEF CallsStay
  <2> QED
    BY <2>5, <2>11, FreshWhen
<1>10. CASE OnEnd
  <2>1. /\ At("deliver") /\ Head(inbox)[1] \in Ends /\ UNCHANGED <<agentVars, work>>
        /\ request' = request \/ request' = Abandoned(open)
        /\ \E after : After(<<>>, <<>>, after)
    BY <1>10 DEF OnEnd, Delivered, Ev, Ends, FinishTurn
  <2>2. inbox # <<>> /\ inbox \in Seq(Events) /\ inbox' = Tail(inbox)
    BY <2>1, NoNews
  <2>3. ~IsRunning'
    <3>1. Told(Ends, inbox)
      BY <2>1, <2>2, Shifted
    <3> QED
      BY <2>1, <3>1 DEF IInv, Agreement, IsRunning, agentVars
  <2>4. CallsStay
    BY <2>1, CallsStayWhen
  <2> QED
    BY <2>1, <2>3, <2>4, FreshWhen
<1> QED
  BY <1>1, <1>2, <1>3, <1>4, <1>5, <1>6, <1>7, <1>8, <1>9, <1>10 DEF Microtask

(* A call streams in, which nobody made before.                            *)
LEMMA FreshStream ==
  ASSUME IInv', AInv', MInv', FreshInv, IInv, Network
  PROVE  FreshInv'
<1>1. UNCHANGED <<request, work>>
  BY DEF Network, sessionVars, toolVars, holderVars
<1>2. CallsStay
  BY <1>1 DEF CallsStay
<1>3. CASE \E c \in Calls \ Asked : StreamCall(c)
  <2>1. PICK c \in Calls \ Asked : StreamCall(c)
    BY <1>3
  <2>2. step' = Append(step, c) /\ step \in Seq(Calls) /\ request[c] = "none"
    BY <2>1 DEF StreamCall, Asked, IInv, StateOK
  <2>3. Last(step') = c
    BY <2>2 DEF Last
  <2> QED
    BY <1>1, <2>2, <2>3 DEF FreshInv
<1>4. CASE StreamEnd
  <2>1. step' = <<>>
    BY <1>4 DEF StreamEnd
  <2> QED
    BY <1>1, <1>2, <2>1, FreshWhen
<1>5. CASE StreamFail
  <2>1. ~IsRunning'
    BY <1>5 DEF StreamFail, IsRunning
  <2> QED
    BY <1>1, <1>2, <2>1, FreshWhen
<1>6. CASE SummaryEnd
  <2>1. step' = <<>>
    BY <1>6 DEF SummaryEnd, StartStep
  <2> QED
    BY <1>1, <1>2, <2>1, FreshWhen
<1> QED
  BY <1>3, <1>4, <1>5, <1>6 DEF Network

(* The user, the tools and the repository.                                 *)
LEMMA FreshFromOutside ==
  ASSUME IInv', AInv', MInv', FreshInv, IInv,
         User \/ Attach \/ Detach \/ \E c \in Calls : Work(c)
  PROVE  FreshInv'
<1>1. CASE Submit \/ Compact
  <2>1. /\ ~active /\ work' = work
        /\ RunTurn("respond", "user", <<Idled>>) \/ RunTurn("compact", "user", <<>>)
    BY <1>1 DEF Submit, Compact
  <2> QED
    BY <2>1, FreshBegun
<1>2. CASE Cancel
  <2>1. AtRest /\ active /\ request' = Abandoned(open) /\ work' = work /\ AgentCancel
    BY <1>2 DEF Cancel, FinishTurn
  <2>2. ~IsRunning'
    BY <2>1 DEF AgentCancel, IsRunning, agentVars
  <2>3. CallsStay
    BY <2>1, CallsStayWhen
  <2> QED
    BY <2>1, <2>2, <2>3, FreshWhen
<1>3. CASE Clear \/ BeginSwap \/ Loaded \/ Rewound
  <2>1. /\ AtRest /\ work' = work
        /\ request' = request \/ request' = Abandoned(open)
        /\ \E after : After(<<>>, <<>>, after)
    BY <1>3 DEF Clear, BeginSwap, Loaded, Rewound, LoadJournal, toolVars, holderVars
  <2>2. inbox' = <<>>
    BY <2>1, NoNews, RestMeans
  <2>3. CallsStay
    BY <2>1, CallsStayWhen
  <2> QED
    BY <2>1, <2>2, <2>3, FreshWhen
<1>4. CASE Attach
  <2>1. Deliver(TRUE) /\ work' = work
    BY <1>4 DEF Attach
  <2> QED
    BY <2>1, FreshDelivery
<1>5. CASE Detach
  <2>1. request' = Abandoned(open) /\ work' = work /\ inbox' = <<>>
    BY <1>5 DEF Detach
  <2>2. CallsStay
    BY <2>1, CallsStayWhen
  <2> QED
    BY <2>1, <2>2, FreshWhen
<1>6. ASSUME NEW c \in Calls, WorkEnds(c) \/ WorkHandedOff(c) PROVE FreshInv'
  <2>1. /\ AtRest /\ work[c] = "running"
        /\ work' = [work EXCEPT ![c] = "over"] \/ work' = [work EXCEPT ![c] = "background"]
        /\ \/ request' = request
           \/ request' = [request EXCEPT ![c] = "done"]
           \/ request' = [request EXCEPT ![c] = "handle"]
        /\ \E after : After(<<>>, <<>>, after)
    BY <1>6 DEF WorkEnds, WorkHandedOff, Settle
  <2>2. inbox' = <<>>
    BY <2>1, NoNews, RestMeans
  <2>3. CallsStay
    BY <2>1, CallsStayWhen DEF Requests
  <2>4. work \in [Calls -> Works]
    BY DEF IInv, StateOK
  <2>5. \A d \in Calls : work'[d] # "none" => work[d] # "none"
    BY <2>1, <2>4
  <2> QED
    BY <2>2, <2>3, <2>5, FreshWhen
<1>7. ASSUME NEW c \in Calls, BackgroundEnds(c) PROVE FreshInv'
  <2>1. Deliver(live) /\ work[c] = "background" /\ work' = [work EXCEPT ![c] = "reported"]
    BY <1>7 DEF BackgroundEnds
  <2> QED
    BY <2>1, FreshDelivery
<1> QED
  BY <1>1, <1>2, <1>3, <1>4, <1>5, <1>6, <1>7 DEF User, Work

(* No work is behind a call that gets to the session.                      *)
LEMMA CallIsFresh ==
  ASSUME IInv, AInv, MInv, FreshInv, OnCall
  PROVE  EvArg.call \in Calls /\ work[EvArg.call] = "none"
<1>1. At("deliver") /\ Head(inbox)[1] = "call" /\ After(<<>>, <<>>, <<>>)
  BY DEF OnCall, Delivered, Ev
<1>2. inbox # <<>> /\ inbox \in Seq(Events) /\ inbox' = Tail(inbox)
  BY <1>1, NoNews
<1>3. Told(CallNews, inbox)
  BY <1>1, <1>2, Shifted DEF CallNews
<1>4. IsRunning
  BY <1>3 DEF AInv, Joining
<1>5. inbox = <<Event("call", [id |-> Len(said) + 1, call |-> Last(step)])>> /\ step # <<>>
  BY <1>3, <1>4 DEF MInv, Mirroring
<1>6. EvArg.call = Last(step)
  <2>1. \A x : Head(<<x>>) = x
    OBVIOUS
  <2> QED
    BY <1>5, <2>1 DEF EvArg, Event
<1>7. Last(step) \in Calls
  BY <1>5 DEF Last, IInv, StateOK
<1> QED
  BY <1>3, <1>6, <1>7 DEF FreshInv

(* A call is made once, when its event gets to the session.                *)
LEMMA CallsFresh == Spec => []FreshInv
<1>1. Init => FreshInv
  BY ToldFew DEF Init, LoopInit, FreshInv
<1>2. /\ IInv /\ IInv' /\ AInv /\ AInv' /\ MInv /\ MInv' /\ FreshInv /\ [Next]_vars
      => FreshInv'
  <2>1. IInv' /\ IInv /\ AInv' /\ MInv' /\ FreshInv /\ UNCHANGED vars => FreshInv'
    BY FreshQuietly DEF vars, sessionVars, toolVars, holderVars, agentVars, loopVars
  <2> QED
    BY <2>1, FreshTasks, FreshStream, FreshFromOutside DEF Next
<1> QED
  BY <1>1, <1>2, SessionInvariance, AskInvariance, MirrorInvariance, PTL DEF Spec

-----------------------------------------------------------------------------
InBackground(c) == work[c] \in {"background", "reported"}

(* A job in the background has one row, which waits for the turn in flight *)
(* or is in the history; none has two, and only a swap of the history      *)
(* takes one away.                                                         *)
RInv ==
  /\ ~active => turnJobs = <<>>
  /\ \A c \in Calls :
       /\ Once(turnJobs, c) /\ Once(history, JobEntry(c))
       /\ ~(c \in ToSet(turnJobs) /\ JobEntry(c) \in ToSet(history))
       /\ c \in ToSet(turnJobs) \/ JobEntry(c) \in ToSet(history) => InBackground(c)
       /\ MaxSwaps = 0 /\ InBackground(c) =>
            c \in ToSet(turnJobs) \/ JobEntry(c) \in ToSet(history)

(* A step that puts no job into the background and touches no row.         *)
LEMMA RowsCarried ==
  ASSUME RInv, turnJobs' = turnJobs, ~active' => ~active,
         \A c \in Calls : InBackground(c)' = InBackground(c),
         \/ history' = history
         \/ /\ history \in Seq(KeptEntries)
            /\ \E e \in KeptEntries : /\ history' = Append(history, e)
                                      /\ \A c \in Calls : e # JobEntry(c)
  PROVE  RInv'
<1>1. ASSUME NEW c \in Calls
      PROVE  /\ JobEntry(c) \in ToSet(history') <=> JobEntry(c) \in ToSet(history)
             /\ Once(history', JobEntry(c))
  <2>0. Once(history, JobEntry(c))
    BY DEF RInv
  <2>1. CASE history' = history
    BY <2>0, <2>1
  <2>2. CASE /\ history \in Seq(KeptEntries)
             /\ \E e \in KeptEntries : /\ history' = Append(history, e)
                                       /\ \A d \in Calls : e # JobEntry(d)
    <3>1. PICK e \in KeptEntries : history' = Append(history, e) /\ e # JobEntry(c)
      BY <2>2
    <3> QED
      BY <2>0, <2>2, <3>1, AppendHolds
  <2> QED
    BY <2>1, <2>2
<1>2. \A c \in Calls : Once(turnJobs', c) /\ (c \in ToSet(turnJobs') <=> c \in ToSet(turnJobs))
  BY DEF RInv
<1> QED
  BY <1>1, <1>2 DEF RInv, Once

(* The jobs of a turn get their rows.                                      *)
LEMMA RowsCommitted ==
  ASSUME RInv, turnJobs' = <<>>,
         \A c \in Calls : InBackground(c)' = InBackground(c),
         history \in Seq(KeptEntries),
         NEW p \in Seq(KeptEntries), history' = history \o p, RowsOnce(p, ToSet(turnJobs))
  PROVE  RInv'
<1>1. \A c : c \notin ToSet(turnJobs') /\ Once(turnJobs', c)
  BY DEF ToSet, Once
<1>2. ASSUME NEW c \in Calls
      PROVE  /\ Once(history', JobEntry(c))
             /\ JobEntry(c) \in ToSet(history') <=>
                  JobEntry(c) \in ToSet(history) \/ c \in ToSet(turnJobs)
  <2>1. Once(p, JobEntry(c)) /\ (JobEntry(c) \in ToSet(p) <=> c \in ToSet(turnJobs))
    BY DEF RowsOnce
  <2>2. Once(history, JobEntry(c)) /\ ~(c \in ToSet(turnJobs) /\ JobEntry(c) \in ToSet(history))
    BY DEF RInv
  <2> QED
    BY <2>1, <2>2, JoinedHolds
<1> QED
  BY <1>1, <1>2 DEF RInv

(* What a turn that ends projects has those rows.                          *)
LEMMA EndRows ==
  ASSUME IInv, MInv, HInv, RInv, NEW m, Committable(m), NEW trailing,
         turnJobs' = <<>>, work' = work,
         history' = history \o Projected(Reconciled(m), turnJobs, trailing)
  PROVE  RInv'
<1>1. /\ Reconciled(m) \in Seq(TurnEntries)
      /\ \A c \in Calls : Orderly(Reconciled(m), c)
  BY ReconciledOrderly DEF Committable
<1>2. turnJobs \in Seq(Calls) /\ folds \in Nat /\ \A c \in Calls : Once(turnJobs, c)
  BY SessionAssumption DEF IInv, StateOK, MInv, Folding, RInv
<1>3. PICK p : p = Projected(Reconciled(m), turnJobs, trailing)
  OBVIOUS
<1>4. p \in Seq(KeptEntries) /\ RowsOnce(p, ToSet(turnJobs))
  BY <1>1, <1>2, <1>3, ProjectedOrderly, ProjectedRows
<1>5. history \in Seq(KeptEntries) /\ history' = history \o p
  BY <1>3 DEF HInv, Keeping
<1>6. \A c \in Calls : InBackground(c)' = InBackground(c)
  BY DEF InBackground
<1> QED
  BY <1>4, <1>5, <1>6, RowsCommitted

(* The history is cut.                                                     *)
LEMMA RowsPruned ==
  ASSUME RInv, MaxSwaps # 0, UNCHANGED <<turnJobs, active, work>>,
         \A c \in Calls : /\ Once(history', JobEntry(c))
                          /\ JobEntry(c) \in ToSet(history') => JobEntry(c) \in ToSet(history)
  PROVE  RInv'
<1>1. \A c \in Calls : /\ Once(turnJobs', c) /\ (c \in ToSet(turnJobs') <=> c \in ToSet(turnJobs))
                       /\ InBackground(c)' = InBackground(c)
  BY DEF RInv, InBackground
<1> QED
  BY <1>1 DEF RInv

(* Every handler that has nothing to do with jobs or swaps.                *)
LEMMA RowsLeftAlone ==
  ASSUME RInv, UNCHANGED <<active, turnJobs, history, work>>
  PROVE  RInv'
<1>1. \A c \in Calls : InBackground(c)' = InBackground(c)
  BY DEF InBackground
<1> QED
  BY <1>1, RowsCarried

(* Tasks and events that end nothing.                                      *)
LEMMA QuietRows ==
  ASSUME IInv, RInv,
         \/ Hop /\ UNCHANGED <<sessionVars, agentVars, deliveryVars>>
         \/ Tear /\ UNCHANGED <<sessionVars, deliveryVars>>
         \/ DeliveryAnswered \/ ResultsJoined
         \/ EventIgnored \/ OnTranscript \/ OnNeedsResults \/ OnNeedsPrompt \/ OnFolded
         \/ OnAnswer \/ BeginSwap \/ Network \/ UNCHANGED vars
  PROVE  RInv'
<1>1. CASE \/ Hop /\ UNCHANGED <<sessionVars, agentVars, deliveryVars>>
           \/ Tear /\ UNCHANGED <<sessionVars, deliveryVars>>
           \/ DeliveryAnswered \/ ResultsJoined \/ EventIgnored \/ OnNeedsPrompt
           \/ Network \/ UNCHANGED vars
  <2>1. UNCHANGED sessionVars
    BY <1>1 DEF DeliveryAnswered, ResultsJoined, EventIgnored, OnNeedsPrompt, Network, vars
  <2>2. UNCHANGED <<active, turnJobs, history, work, swap>>
    BY <2>1 DEF sessionVars, turnVars, historyVars, toolVars, userVars
  <2> QED
    BY <2>2, RowsLeftAlone DEF RInv
<1>2. CASE OnTranscript \/ OnNeedsResults \/ OnFolded \/ OnAnswer
  <2>1. UNCHANGED <<active, turnJobs, history, work, swap>>
    BY <1>2 DEF OnTranscript, OnNeedsResults, OnFolded, OnAnswer, historyVars, toolVars, userVars
  <2> QED
    BY <2>1, RowsLeftAlone DEF RInv
<1>3. CASE BeginSwap
  <2>1. UNCHANGED <<active, turnJobs, history, work>>
    BY <1>3 DEF BeginSwap, turnVars, historyVars, toolVars
  <2> QED
    BY <2>1, RowsLeftAlone
<1> QED
  BY <1>1, <1>2, <1>3

(* A run that is answered was not refused.                                 *)
LEMMA AnsweredRunRows ==
  ASSUME IInv, RInv, RunAnswered
  PROVE  RInv'
<1>1. At("ran") /\ Arg.ok = TRUE
  BY HeadIs DEF RunAnswered
<1>2. UNCHANGED <<turnVars, history, toolVars>>
  BY <1>1, Zenon DEF RunAnswered
<1>3. UNCHANGED <<active, turnJobs, history, work>>
  BY <1>2 DEF turnVars, toolVars
<1> QED
  BY <1>3, RowsLeftAlone

(* A call starts, or its work ends before it is handed off.                *)
LEMMA CallRows ==
  ASSUME IInv, AInv, MInv, FreshInv, RInv, OnCall \/ \E c \in Calls : WorkEnds(c)
  PROVE  RInv'
<1>1. work \in [Calls -> Works]
  BY DEF IInv, StateOK
<1>2. CASE OnCall
  <2>1. UNCHANGED <<active, turnJobs, history>>
    BY <1>2 DEF OnCall, historyVars
  <2>2. work[EvArg.call] = "none"
    BY <1>2, CallIsFresh
  <2>3. work' = work \/ work' = [work EXCEPT ![EvArg.call] = "running"]
    BY <1>2 DEF OnCall, StartCall, toolVars
  <2>4. \A c \in Calls : InBackground(c)' = InBackground(c)
    BY <1>1, <2>2, <2>3 DEF InBackground
  <2> QED
    BY <2>1, <2>4, RowsCarried
<1>3. CASE \E c \in Calls : WorkEnds(c)
  <2>1. PICK c \in Calls : WorkEnds(c)
    BY <1>3
  <2>2. /\ UNCHANGED <<active, turnJobs, history>>
        /\ work[c] = "running" /\ work' = [work EXCEPT ![c] = "over"]
    BY <2>1 DEF WorkEnds, turnVars, historyVars
  <2>3. \A d \in Calls : InBackground(d)' = InBackground(d)
    BY <1>1, <2>2 DEF InBackground
  <2> QED
    BY <2>2, <2>3, RowsCarried
<1> QED
  BY <1>2, <1>3

(* A call's work goes to the background, and gets its row.                 *)
LEMMA HandedOffRows ==
  ASSUME IInv, HInv, RInv, NEW c \in Calls, WorkHandedOff(c)
  PROVE  RInv'
<1>1. /\ active' = active /\ work[c] = "running" /\ work' = [work EXCEPT ![c] = "background"]
      /\ \/ active /\ turnJobs' = Append(turnJobs, c) /\ history' = history
         \/ history' = Append(history, JobEntry(c)) /\ turnJobs' = turnJobs
  BY DEF WorkHandedOff, NoteBackgrounded
<1>2. work \in [Calls -> Works] /\ turnJobs \in Seq(Calls)
  BY DEF IInv, StateOK
<1>3. history \in Seq(KeptEntries) /\ JobEntry(c) \in KeptEntries
  BY KeptSay DEF HInv, Keeping
<1>4. /\ InBackground(c)' /\ ~InBackground(c)
      /\ \A d \in Calls : d # c => InBackground(d)' = InBackground(d)
  BY <1>1, <1>2 DEF InBackground
<1>5. c \notin ToSet(turnJobs) /\ JobEntry(c) \notin ToSet(history)
  BY <1>4 DEF RInv
<1>6. CASE active /\ turnJobs' = Append(turnJobs, c) /\ history' = history
  <2>1. \A d \in Calls : /\ d \in ToSet(turnJobs') <=> d \in ToSet(turnJobs) \/ d = c
                         /\ Once(turnJobs, d) => Once(turnJobs', d)
    BY <1>2, <1>5, <1>6, AppendHolds
  <2>2. \A d \in Calls : Once(history', JobEntry(d)) <=> Once(history, JobEntry(d))
    BY <1>6
  <2> QED
    BY <1>1, <1>4, <1>5, <1>6, <2>1, <2>2 DEF RInv
<1>7. CASE history' = Append(history, JobEntry(c)) /\ turnJobs' = turnJobs
  <2>1. \A d \in Calls :
          /\ JobEntry(d) \in ToSet(history') <=> JobEntry(d) \in ToSet(history) \/ d = c
          /\ Once(history, JobEntry(d)) => Once(history', JobEntry(d))
    <3> TAKE d \in Calls
    <3>1. JobEntry(d) = JobEntry(c) <=> d = c
      BY RowsNameJobs
    <3> QED
      BY <1>3, <1>5, <1>7, <3>1, AppendHolds
  <2>2. \A d \in Calls : Once(turnJobs', d) <=> Once(turnJobs, d)
    BY <1>7
  <2> QED
    BY <1>1, <1>4, <1>5, <1>7, <2>1, <2>2 DEF RInv
<1> QED
  BY <1>1, <1>6, <1>7

(* A turn begins.                                                          *)
LEMMA BegunRows ==
  ASSUME IInv, HInv, RInv, ~active, NEW g, NEW from, NEW before,
         RunTurn(g, from, before) \/ StartRun(g, from, before),
         \A c \in Calls : InBackground(c)' = InBackground(c),
         \/ history' = history
         \/ \E e \in KeptEntries : /\ history' = Append(history, e)
                                   /\ \A c \in Calls : e # JobEntry(c)
  PROVE  RInv'
<1>1. turnJobs' = turnJobs
  BY DEF RunTurn, StartRun
<1>2. history \in Seq(KeptEntries)
  BY DEF HInv, Keeping
<1> QED
  BY <1>1, <1>2, RowsCarried

(* The buffer takes an input.                                              *)
LEMMA DeliveryRows ==
  ASSUME IInv, IInv', HInv, RInv, NEW canRun, Deliver(canRun),
         \A c \in Calls : InBackground(c)' = InBackground(c)
  PROVE  RInv'
<1>1. CASE UNCHANGED <<turnVars, historyVars>>
  BY <1>1, RowsCarried DEF turnVars, historyVars
<1>2. CASE /\ RunTurn("respond", "delivery", <<Idled>>) /\ ~active
           /\ history' = Append(history, ReportEntry(inFlight'))
  <2>1. inFlight' \in Seq(Calls)
    BY SessionAssumption DEF IInv, StateOK, DeliveryTypeOK
  <2>2. PICK e \in KeptEntries : /\ history' = Append(history, e)
                                 /\ \A c \in Calls : e # JobEntry(c)
    BY <1>2, <2>1, KeptSay, RowsNameJobs
  <2> QED
    BY <1>2, <2>2, BegunRows
<1> QED
  BY <1>1, <1>2 DEF Deliver, BeginDeliveryTurn

(* The starts of turns.                                                    *)
LEMMA StartersRows ==
  ASSUME IInv, IInv', HInv, RInv, \/ Submit \/ Compact \/ Resumed \/ IdleSeen \/ Attach
                                  \/ \E c \in Calls : BackgroundEnds(c)
  PROVE  RInv'
<1>1. CASE Submit \/ Compact \/ Resumed \/ IdleSeen \/ Attach
  <2>1. work' = work
    BY <1>1 DEF Submit, Compact, Resumed, IdleSeen, Attach
  <2>2. \A c \in Calls : InBackground(c)' = InBackground(c)
    BY <2>1 DEF InBackground
  <2>3. CASE Submit
    <3>1. ~active /\ RunTurn("respond", "user", <<Idled>>) /\ history' = Append(history, UserEntry)
      BY <2>3 DEF Submit
    <3> QED
      BY <2>2, <3>1, BegunRows, KeptSay, RowsNameJobs
  <2>4. CASE Compact
    <3>1. ~active /\ RunTurn("compact", "user", <<>>) /\ history' = history
      BY <2>4 DEF Compact, historyVars
    <3> QED
      BY <2>2, <3>1, BegunRows
  <2>5. CASE Resumed
    <3>1. At("resume") /\ Head(micro).does \in Resumes
      BY <2>5, HeadDoes, DoingNames DEF Resumed, IInv
    <3>2. Has(Resumes, micro)
      BY <3>1, HeadDoes DEF IInv
    <3>3. ~active /\ StartRun(Arg.goal, Arg.from, <<>>) /\ history' = history
      BY <2>5, <3>2 DEF IInv, Buffering, Resumed, historyVars
    <3> QED
      BY <2>2, <3>3, BegunRows
  <2>6. CASE IdleSeen \/ Attach
    BY <2>2, <2>6, DeliveryRows DEF IdleSeen, Attach
  <2> QED
    BY <1>1, <2>3, <2>4, <2>5, <2>6
<1>2. ASSUME NEW c \in Calls, BackgroundEnds(c) PROVE RInv'
  <2>1. Deliver(live) /\ work[c] = "background" /\ work' = [work EXCEPT ![c] = "reported"]
    BY <1>2 DEF BackgroundEnds
  <2>2. work \in [Calls -> Works]
    BY DEF IInv, StateOK
  <2>3. \A d \in Calls : InBackground(d)' = InBackground(d)
    BY <2>1, <2>2 DEF InBackground
  <2> QED
    BY <2>1, <2>3, DeliveryRows
<1> QED
  BY <1>1, <1>2

(* A swap takes rows away, and adds none.                                  *)
LEMMA SwapRows ==
  ASSUME IInv, AInv, HInv, RInv, Clear \/ Loaded \/ Rewound
  PROVE  RInv'
<1>1. CASE UNCHANGED <<active, turnJobs, history, work>>
  BY <1>1, RowsLeftAlone
<1>2. ASSUME NEW entries, NEW id, LoadJournal(entries, id), MaxSwaps # 0,
             \A c \in Calls : /\ Once(entries, JobEntry(c))
                              /\ JobEntry(c) \in ToSet(entries) => JobEntry(c) \in ToSet(history)
      PROVE  RInv'
  <2>1. history' = entries /\ UNCHANGED <<turnJobs, active, work>>
    BY <1>2 DEF LoadJournal, turnVars
  <2> QED
    BY <1>2, <2>1, RowsPruned
<1>3. CASE Clear
  <2>1. swaps < MaxSwaps /\ LoadJournal(<<>>, swaps')
    BY <1>3 DEF Clear
  <2>2. MaxSwaps # 0
    BY <2>1, SessionAssumption DEF IInv, StateOK
  <2>3. \A c : Once(<<>>, c) /\ c \notin ToSet(<<>>)
    BY DEF Once, ToSet
  <2> QED
    BY <1>2, <2>1, <2>2, <2>3
<1>4. swap # "none" => MaxSwaps # 0
  BY DEF AInv, Owing
<1>5. CASE Loaded /\ LoadJournal(<<UserEntry>>, swaps)
  <2>1. MaxSwaps # 0
    BY <1>4, <1>5 DEF Loaded
  <2>2. DOMAIN <<UserEntry>> = {1} /\ <<UserEntry>>[1] = UserEntry
    OBVIOUS
  <2>3. \A c : Once(<<UserEntry>>, JobEntry(c)) /\ JobEntry(c) \notin ToSet(<<UserEntry>>)
    BY <2>2, RowsNameJobs DEF Once, ToSet
  <2> QED
    BY <1>2, <1>5, <2>1, <2>3
<1>6. CASE Rewound /\ \E i \in DOMAIN history : \E id : LoadJournal(SubSeq(history, 1, i - 1), id)
  <2>1. PICK i \in DOMAIN history : \E id : LoadJournal(SubSeq(history, 1, i - 1), id)
    BY <1>6
  <2>2. MaxSwaps # 0
    BY <1>4, <1>6 DEF Rewound
  <2>3. history \in Seq(KeptEntries)
    BY DEF HInv, Keeping
  <2>4. PICK kept : kept = SubSeq(history, 1, i - 1)
    OBVIOUS
  <2>5. DOMAIN kept \subseteq DOMAIN history /\ \A j \in DOMAIN kept : kept[j] = history[j]
    BY <2>3, <2>4
  <2>6. \A c \in Calls : /\ Once(kept, JobEntry(c))
                         /\ JobEntry(c) \in ToSet(kept) => JobEntry(c) \in ToSet(history)
    BY <2>5 DEF RInv, Once, ToSet
  <2> QED
    BY <1>2, <2>1, <2>2, <2>4, <2>6
<1> QED
  <2>1. Loaded => \/ LoadJournal(<<UserEntry>>, swaps)
                  \/ UNCHANGED <<active, turnJobs, history, work>>
    BY DEF Loaded, turnVars, historyVars, toolVars
  <2>2. Rewound => \/ \E i \in DOMAIN history : \E id : LoadJournal(SubSeq(history, 1, i - 1), id)
                   \/ UNCHANGED <<active, turnJobs, history, work>>
    BY DEF Rewound, turnVars, historyVars, toolVars
  <2> QED
    BY <1>1, <1>3, <1>5, <1>6, <2>1, <2>2

(* A turn ends by itself, by a cancel or by a reload.                      *)
LEMMA EndingRows ==
  ASSUME IInv, AInv, MInv, HInv, RInv, OnEnd \/ Cancel \/ Detach
  PROVE  RInv'
<1>1. ASSUME NEW m, Committable(m), NEW trailing, turnJobs' = <<>>, work' = work,
             history' = history \o Projected(Reconciled(m), turnJobs, trailing)
      PROVE  RInv'
  BY <1>1, EndRows
<1>2. CASE Cancel
  <2>1. Committable(mirror)
    BY <1>2, MirrorCommittable DEF Cancel
  <2>2. PICK m : m = mirror
    OBVIOUS
  <2>3. /\ turnJobs' = <<>> /\ work' = work
        /\ history' = history \o Projected(Reconciled(m), turnJobs, ~TRUE)
    BY <1>2, <2>2 DEF Cancel, FinishTurn, Commit
  <2>4. Committable(m)
    BY <2>1, <2>2 DEF Committable
  <2> QED
    BY <1>1, <2>3, <2>4
<1>3. CASE Detach /\ active
  <2>1. Committable(mirror)
    BY <1>3, MirrorCommittable DEF Detach
  <2>2. PICK m : m = mirror
    OBVIOUS
  <2>3. /\ turnJobs' = <<>> /\ work' = work
        /\ history' = history \o Projected(Reconciled(m), turnJobs, FALSE)
    BY <1>3, <2>2 DEF Detach, FreshSession
  <2>4. Committable(m)
    BY <2>1, <2>2 DEF Committable
  <2> QED
    BY <1>1, <2>3, <2>4
<1>4. CASE Detach /\ ~active
  <2>1. UNCHANGED <<active, turnJobs, history, work>>
    BY <1>4 DEF Detach, FreshSession, RInv, IInv, StateOK
  <2> QED
    BY <2>1, RowsLeftAlone
<1>5. CASE OnEnd
  <2>1. PICK m, trailing : /\ Committable(m)
                           /\ history' = history \o Projected(Reconciled(m), turnJobs, trailing)
    BY <1>5, EndsCommittable
  <2>2. turnJobs' = <<>> /\ work' = work
    BY <1>5 DEF OnEnd, FinishTurn, Commit
  <2> QED
    BY <1>1, <2>1, <2>2
<1> QED
  BY <1>2, <1>3, <1>4, <1>5

(* The rows of jobs, in every step.                                        *)
LEMMA NextRows ==
  IInv /\ IInv' /\ AInv /\ MInv /\ HInv /\ FreshInv /\ RInv /\ [Next]_vars => RInv'
<1> SUFFICES ASSUME IInv, IInv', AInv, MInv, HInv, FreshInv, RInv, [Next]_vars PROVE RInv'
  OBVIOUS
<1>1. CASE Microtask
  <2>1. CASE Resumed \/ IdleSeen
    BY <2>1, StartersRows
  <2>2. CASE OnCall
    BY <2>2, CallRows
  <2>3. CASE OnEnd
    BY <2>3, EndingRows
  <2>4. CASE RunAnswered
    BY <2>4, AnsweredRunRows
  <2> QED
    BY <1>1, <2>1, <2>2, <2>3, <2>4, QuietRows DEF Microtask
<1>2. CASE User
  BY <1>2, QuietRows, StartersRows, SwapRows, EndingRows DEF User
<1>3. CASE Network \/ Attach \/ Detach \/ UNCHANGED vars
  BY <1>3, QuietRows, StartersRows, EndingRows
<1>4. CASE \E c \in Calls : Work(c)
  BY <1>4, StartersRows, CallRows, HandedOffRows DEF Work
<1> QED
  BY <1>1, <1>2, <1>3, <1>4 DEF Next

(* A job in the background has its row once, and without swaps of the      *)
(* history it has one for ever.                                            *)
THEOREM RowsInvariance == Spec => []RInv
<1>1. Init => RInv
  BY DEF Init, RInv, Once, ToSet, InBackground
<1>2. IInv /\ IInv' /\ AInv /\ MInv /\ HInv /\ FreshInv /\ RInv /\ [Next]_vars => RInv'
  BY NextRows
<1> QED
  BY <1>1, <1>2, SessionInvariance, AskInvariance, MirrorInvariance, HistoryInvariance,
     CallsFresh, PTL DEF Spec

(* How many times what is there once or not at all is there.               *)
LEMMA CountedOnce ==
  ASSUME NEW S, \A i, j \in S : i = j
  PROVE  Cardinality(S) = IF S = {} THEN 0 ELSE 1
<1>1. CASE S = {}
  BY <1>1, FS_EmptySet
<1>2. CASE S # {}
  <2>1. PICK i : S = {i}
    BY <1>2
  <2> QED
    BY <1>2, <2>1, FS_Singleton
<1> QED
  BY <1>1, <1>2

(* What RInv says, counted.                                                *)
LEMMA RowsCounted ==
  ASSUME IInv, HInv, RInv, NEW c \in Calls
  PROVE  /\ Occurs(c, turnJobs) = IF c \in ToSet(turnJobs) THEN 1 ELSE 0
         /\ RowsOf(c) = IF JobEntry(c) \in ToSet(history) THEN 1 ELSE 0
<1>1. Once(turnJobs, c) /\ Once(history, JobEntry(c))
  BY DEF RInv
<1>2. Occurs(c, turnJobs) = IF c \in ToSet(turnJobs) THEN 1 ELSE 0
  <2> DEFINE S == {i \in DOMAIN turnJobs : turnJobs[i] = c}
  <2>1. (\A i, j \in S : i = j) /\ (S = {} <=> c \notin ToSet(turnJobs))
    BY <1>1 DEF Once, ToSet
  <2> HIDE DEF S
  <2>2. Cardinality(S) = IF S = {} THEN 0 ELSE 1
    BY <2>1, CountedOnce
  <2> QED
    BY <2>1, <2>2 DEF Occurs, S
<1>3. RowsOf(c) = IF JobEntry(c) \in ToSet(history) THEN 1 ELSE 0
  <2> DEFINE S == {i \in DOMAIN history : IsKind("job", history[i]) /\ history[i].call = c}
  <2>1. history \in Seq(KeptEntries)
    BY DEF HInv, Keeping
  <2>2. \A i \in DOMAIN history :
          IsKind("job", history[i]) /\ history[i].call = c <=> history[i] = JobEntry(c)
    BY <2>1, RowsNameJobs
  <2>3. (\A i, j \in S : i = j) /\ (S = {} <=> JobEntry(c) \notin ToSet(history))
    BY <1>1, <2>2 DEF Once, ToSet
  <2> HIDE DEF S
  <2>4. Cardinality(S) = IF S = {} THEN 0 ELSE 1
    BY <2>3, CountedOnce
  <2> QED
    BY <2>3, <2>4 DEF RowsOf, S
<1> QED
  BY <1>2, <1>3

(* Without swaps of the history, each job in the background has one row,   *)
(* in the history or waiting for the turn in flight to end.                *)
THEOREM RowsKept == MaxSwaps = 0 => (Spec => []JobRowsKept)
<1>1. SUFFICES ASSUME MaxSwaps = 0 PROVE Spec => []JobRowsKept
  OBVIOUS
<1>2. IInv /\ HInv /\ RInv => JobRowsKept
  BY <1>1, RowsCounted DEF JobRowsKept, RInv, InBackground
<1> QED
  BY <1>2, SessionInvariance, HistoryInvariance, RowsInvariance, PTL

-----------------------------------------------------------------------------
(* The reports in a row of entries.                                        *)
ReportsIn(e) == IF IsKind("report", e) THEN e.reports ELSE <<>>
Handed(h)    == FlattenSeq([i \in DOMAIN h |-> ReportsIn(h[i])])

(* What is appended comes last.                                            *)
LEMMA AppendIndices ==
  ASSUME NEW T, NEW s \in Seq(T), NEW x \in T
  PROVE  /\ Append(s, x) \in Seq(T) /\ Len(Append(s, x)) = Len(s) + 1
         /\ Append(s, x) = [i \in 1..(Len(s) + 1) |-> Append(s, x)[i]]
         /\ Append(s, x)[Len(s) + 1] = x
         /\ \A i \in 1..Len(s) : Append(s, x)[i] = s[i]
<1>1. PICK q \in Seq(T) : q = Append(s, x)
  <2>1. Append(s, x) \in Seq(T)
    OBVIOUS
  <2> QED
    BY <2>1
<1>2. /\ Len(q) = Len(s) + 1 /\ q[Len(s) + 1] = x
      /\ \A i \in 1..Len(s) : q[i] = s[i]
  BY <1>1
<1>3. q = [i \in 1..(Len(s) + 1) |-> q[i]]
  <2>1. q = [i \in 1..Len(q) |-> q[i]]
    OBVIOUS
  <2> QED
    BY <1>2, <2>1
<1> QED
  BY <1>1, <1>2, <1>3

(* The beginnings of a sequence.                                           *)
LEMMA PrefixIndices ==
  ASSUME NEW T, NEW s \in Seq(T), NEW k \in Nat, k + 1 <= Len(s)
  PROVE  /\ SubSeq(s, 1, k) \in Seq(T) /\ s[k + 1] \in T
         /\ SubSeq(s, 1, k + 1) = Append(SubSeq(s, 1, k), s[k + 1])
  OBVIOUS

(* One more sequence at the end of the row.                                *)
LEMMA FlatAppend ==
  ASSUME NEW T, NEW s \in Seq(Seq(T)), NEW x \in Seq(T)
  PROVE  FlattenSeq(Append(s, x)) = FlattenSeq(s) \o x
<1>1. PICK n \in Nat : n = Len(s)
  OBVIOUS
<1>2. PICK t : t = Append(s, x)
  OBVIOUS
<1>3. Len(t) = n + 1 /\ t[n + 1] = x /\ \A i \in 1..n : t[i] = s[i]
  BY <1>1, <1>2, AppendIndices
<1>4. PICK g : FlatUpTo(g, t, n + 1) /\ FlattenSeq(t) = g[n + 1]
  BY <1>3, FlattenIs
<1>5. \A i \in 1..(n + 1) : g[i] = IF i = 1 THEN t[i] ELSE g[i - 1] \o t[i]
  BY <1>4 DEF FlatUpTo
<1>6. CASE n = 0
  <2>1. FlattenSeq(s) = <<>>
    <3>1. FlattenSeq(s) = s
      BY <1>1, <1>6, FlattenIs
    <3>2. \A T0 : \A q \in Seq(T0) : Len(q) = 0 => q = <<>>
      OBVIOUS
    <3>3. s = <<>>
      BY <1>1, <1>6, <3>2
    <3> QED
      BY <3>1, <3>3
  <2>2. g[n + 1] = x
    BY <1>3, <1>5, <1>6
  <2> QED
    BY <1>2, <1>4, <2>1, <2>2
<1>7. CASE n # 0
  <2>1. PICK f : FlatUpTo(f, s, n) /\ FlattenSeq(s) = f[n]
    BY <1>1, <1>7, FlattenIs
  <2>2. \A i \in 1..n : f[i] = IF i = 1 THEN s[i] ELSE f[i - 1] \o s[i]
    BY <2>1 DEF FlatUpTo
  <2> DEFINE S == {k \in Nat : k \in 1..n => g[k] = f[k]}
  <2>3. 0 \in S
    OBVIOUS
  <2>4. ASSUME NEW k \in Nat, k \in S PROVE k + 1 \in S
    <3>1. CASE k + 1 \in 1..n
      <4>0. PICK j \in 1..n : j = k + 1 /\ j - 1 = k /\ j \in 1..(n + 1)
        BY <3>1
      <4>1. /\ g[j] = IF j = 1 THEN s[j] ELSE g[k] \o s[j]
            /\ f[j] = IF j = 1 THEN s[j] ELSE f[k] \o s[j]
        BY <1>3, <1>5, <2>2, <4>0
      <4>2. CASE k = 0
        <5>1. j = 1
          BY <4>0, <4>2
        <5>2. g[j] = f[j]
          BY <4>1, <5>1
        <5> QED
          BY <4>0, <5>2
      <4>3. CASE k # 0
        <5>1. k \in 1..n /\ j # 1
          BY <4>0, <4>3
        <5>2. g[k] = f[k]
          BY <2>4, <5>1
        <5>3. g[j] = f[j]
          BY <4>1, <5>1, <5>2
        <5> QED
          BY <4>0, <5>3
      <4> QED
        BY <4>2, <4>3
    <3> QED
      BY <3>1
  <2>5. Nat \subseteq S
    <3> HIDE DEF S
    <3> QED
      BY <2>3, <2>4, NatsByStep
  <2>6. g[n] = f[n]
    BY <1>7, <2>5
  <2>7. g[n + 1] = g[n] \o x
    <3>1. n + 1 \in 1..(n + 1) /\ n + 1 # 1 /\ (n + 1) - 1 = n
      BY <1>7
    <3> QED
      BY <1>3, <1>5, <3>1
  <2> QED
    BY <1>2, <1>4, <2>1, <2>6, <2>7
<1> QED
  BY <1>6, <1>7

(* The reports of an entry.                                                *)
LEMMA ReportsOf ==
  /\ \A e \in KeptEntries : ReportsIn(e) \in Seq(Calls)
  /\ \A rs : ReportsIn(ReportEntry(rs)) = rs
  /\ \A e \in TurnEntries : ReportsIn(e) = <<>>
  /\ \A c : ReportsIn(JobEntry(c)) = <<>>
  /\ ReportsIn(UserEntry) = <<>>
<1>1. /\ \A rs : ReportEntry(rs).kind = "report" /\ ReportEntry(rs).reports = rs
      /\ \A c : JobEntry(c).kind = "job"
      /\ UserEntry.kind = "user"
  BY DEF ReportEntry, JobEntry, UserEntry
<1>2. \A e \in TurnEntries : e.kind # "report"
  BY KindsOfEntries
<1>3. /\ \A rs : ReportsIn(ReportEntry(rs)) = rs
      /\ \A e \in TurnEntries : ReportsIn(e) = <<>>
      /\ \A c : ReportsIn(JobEntry(c)) = <<>>
      /\ ReportsIn(UserEntry) = <<>>
  BY <1>1, <1>2 DEF ReportsIn, IsKind
<1>4. <<>> \in Seq(Calls)
  OBVIOUS
<1> QED
  BY <1>3, <1>4 DEF KeptEntries

(* What an entry adds to the reports.                                      *)
LEMMA HandedAppend ==
  ASSUME NEW h \in Seq(KeptEntries), NEW e \in KeptEntries
  PROVE  /\ Handed(h) \in Seq(Calls)
         /\ Handed(Append(h, e)) = Handed(h) \o ReportsIn(e)
<1>1. PICK s : s = [i \in DOMAIN h |-> ReportsIn(h[i])]
  OBVIOUS
<1>2. Len(h) \in Nat /\ DOMAIN h = 1..Len(h) /\ \A i \in DOMAIN h : h[i] \in KeptEntries
  OBVIOUS
<1>3. s \in Seq(Seq(Calls)) /\ Len(s) = Len(h)
  BY <1>1, <1>2, ReportsOf
<1>4. PICK x \in Seq(Calls) : x = ReportsIn(e)
  BY ReportsOf
<1>5. [i \in DOMAIN Append(h, e) |-> ReportsIn(Append(h, e)[i])] = Append(s, x)
  <2>1. PICK k : k = Append(h, e)
    OBVIOUS
  <2>2. /\ DOMAIN k = 1..(Len(h) + 1) /\ k[Len(h) + 1] = e
        /\ \A i \in 1..Len(h) : k[i] = h[i]
    BY <2>1
  <2>3. PICK r : r = [i \in DOMAIN k |-> ReportsIn(k[i])]
    OBVIOUS
  <2>4. PICK q : q = Append(s, x)
    OBVIOUS
  <2>5. /\ q = [i \in 1..(Len(h) + 1) |-> q[i]] /\ q[Len(h) + 1] = x
        /\ \A i \in 1..Len(h) : q[i] = s[i]
    BY <1>3, <2>4, AppendIndices
  <2>6. \A i \in 1..(Len(h) + 1) : ReportsIn(k[i]) = q[i]
    <3> TAKE i \in 1..(Len(h) + 1)
    <3>1. i \in 1..Len(h) \/ i = Len(h) + 1
      BY <1>2
    <3> QED
      BY <1>1, <1>2, <1>4, <2>2, <2>5, <3>1
  <2> QED
    BY <2>1, <2>2, <2>3, <2>4, <2>5, <2>6
<1>6. FlattenSeq(s) \in Seq(Calls)
  BY <1>3, FlatPlaces
<1>7. FlattenSeq(Append(s, x)) = FlattenSeq(s) \o x
  BY <1>3, FlatAppend
<1> QED
  BY <1>1, <1>4, <1>5, <1>6, <1>7 DEF Handed

(* What a turn itself adds to the history.                                 *)
OwnEntries == TurnEntries \cup {JobEntry(c) : c \in Calls}

(* It hands over no report.                                                *)
LEMMA HandedJoined ==
  ASSUME NEW h \in Seq(KeptEntries), NEW p \in Seq(OwnEntries)
  PROVE  Handed(h \o p) = Handed(h)
<1>1. Len(p) \in Nat /\ DOMAIN p = 1..Len(p) /\ \A i \in DOMAIN p : p[i] \in OwnEntries
  OBVIOUS
<1>2. OwnEntries \subseteq KeptEntries /\ \A e \in OwnEntries : ReportsIn(e) = <<>>
  BY ReportsOf DEF OwnEntries, KeptEntries
<1> DEFINE Up(k) == h \o SubSeq(p, 1, k)
           S     == {k \in Nat : k <= Len(p) => Handed(Up(k)) = Handed(h)}
<1>3. 0 \in S
  <2>1. SubSeq(p, 1, 0) = <<>>
    OBVIOUS
  <2>2. Up(0) = h
    BY <2>1
  <2> QED
    BY <2>2
<1>4. ASSUME NEW k \in Nat, k \in S PROVE k + 1 \in S
  <2>1. CASE k + 1 <= Len(p)
    <3>1. k <= Len(p)
      BY <1>1, <2>1
    <3>2. PICK e \in OwnEntries : e = p[k + 1]
      BY <2>1, PrefixIndices
    <3>3. PICK q \in Seq(OwnEntries) : q = SubSeq(p, 1, k)
      BY <2>1, PrefixIndices
    <3>4. SubSeq(p, 1, k + 1) = Append(q, e)
      BY <2>1, <3>2, <3>3, PrefixIndices
    <3>5. q \in Seq(KeptEntries)
      <4>1. \A T, U : T \subseteq U => Seq(T) \subseteq Seq(U)
        OBVIOUS
      <4> QED
        BY <1>2, <3>3, <4>1
    <3>6. PICK u \in Seq(KeptEntries) : u = h \o q
      BY <3>5, ConcatIndices
    <3>7. h \o Append(q, e) = Append(u, e)
      BY <1>2, <3>2, <3>5, <3>6
    <3>8. Handed(Append(u, e)) = Handed(u) \o <<>> /\ Handed(u) \in Seq(Calls)
      BY <1>2, <3>2, <3>6, HandedAppend
    <3>9. Handed(Append(u, e)) = Handed(u)
      <4> DEFINE w == Handed(u)
      <4>1. w \in Seq(Calls)
        BY <3>8
      <4> HIDE DEF w
      <4>2. w \o <<>> = w
        BY <4>1
      <4> QED
        BY <3>8, <4>2 DEF w
    <3>10. Handed(Up(k)) = Handed(h)
      BY <1>4, <3>1
    <3>11. Up(k) = u /\ Up(k + 1) = Append(u, e)
      BY <3>3, <3>4, <3>6, <3>7
    <3>12. Handed(Up(k + 1)) = Handed(h)
      BY <3>9, <3>10, <3>11
    <3> QED
      BY <3>12
  <2> QED
    BY <2>1
<1>5. Nat \subseteq S
  <2> HIDE DEF S
  <2> QED
    BY <1>3, <1>4, NatsByStep
<1>6. PICK n \in Nat : n = Len(p)
  BY <1>1
<1>7. Up(n) = h \o p
  <2>1. SubSeq(p, 1, n) = p
    BY <1>6
  <2> QED
    BY <2>1
<1>8. Handed(Up(n)) = Handed(h)
  <2>1. n \in S
    BY <1>5
  <2> QED
    BY <1>6, <2>1
<1> QED
  BY <1>7, <1>8

(* What _projectTurn projects is of a turn's own entries.                  *)
LEMMA ProjectedOwn ==
  ASSUME NEW m \in Seq(TurnEntries), NEW jobs \in Seq(Calls), NEW trailing, folds \in Nat
  PROVE  Projected(m, jobs, trailing) \in Seq(OwnEntries)
<1> DEFINE Fold(i) == CountOf("summary", SubSeq(m, 1, i))
           Rows(i) ==
             CASE IsKind("summary", m[i]) -> IF Fold(i) <= folds THEN <<SummaryEntry>> ELSE <<>>
               [] IsKind("answer", m[i]) ->
                    IF m[i].call \in ToSet(jobs)
                    THEN <<m[i], JobEntry(m[i].call)>> ELSE <<m[i]>>
               [] OTHER -> <<m[i]>>
           Late(c) == IF c \in AnsweredIn(m) THEN <<>> ELSE <<JobEntry(c)>>
           extra == IF trailing /\ folds > Fold(Len(m)) THEN folds - Fold(Len(m)) ELSE 0
<1>1. PICK rows : rows = [i \in DOMAIN m |-> Rows(i)]
  OBVIOUS
<1>2. PICK lates : lates = [i \in DOMAIN jobs |-> Late(jobs[i])]
  OBVIOUS
<1>3. PICK more : more = [i \in 1..extra |-> SummaryEntry]
  OBVIOUS
<1>4. Projected(m, jobs, trailing) = FlattenSeq(rows) \o more \o FlattenSeq(lates)
  BY <1>1, <1>2, <1>3 DEF Projected
<1>5. /\ SummaryEntry \in OwnEntries /\ TurnEntries \subseteq OwnEntries
      /\ \A c \in Calls : JobEntry(c) \in OwnEntries
  BY DEF OwnEntries, TurnEntries
<1>6. more \in Seq(OwnEntries)
  <2>1. Fold(Len(m)) \in Nat
    <3>1. SubSeq(m, 1, Len(m)) \in Seq(TurnEntries)
      OBVIOUS
    <3> QED
      BY <3>1, SummariesCounted DEF Summed
  <2>2. extra \in Nat
    <3>1. PICK n \in Nat : n = Fold(Len(m))
      BY <2>1
    <3> HIDE DEF Fold
    <3> QED
      BY <3>1
  <2> HIDE DEF extra
  <2> QED
    BY <1>3, <1>5, <2>2
<1>7. \A e \in OwnEntries : /\ <<>> \in Seq(OwnEntries) /\ <<e>> \in Seq(OwnEntries)
                            /\ \A d \in OwnEntries : <<e, d>> \in Seq(OwnEntries)
  OBVIOUS
<1>8. rows \in Seq(Seq(OwnEntries))
  <2>1. ASSUME NEW i \in DOMAIN m PROVE rows[i] \in Seq(OwnEntries)
    <3>1. m[i] \in TurnEntries
      OBVIOUS
    <3>2. rows[i] = Rows(i) /\ m[i] \in OwnEntries
      BY <1>1, <1>5, <3>1
    <3>3. m[i].kind = "answer" => m[i].call \in Calls
      BY <3>1, KindsOfEntries DEF Answers
    <3>4. CASE m[i].kind = "summary"
      BY <1>5, <1>7, <3>2, <3>4 DEF IsKind
    <3>5. CASE m[i].kind = "answer"
      BY <1>5, <1>7, <3>2, <3>3, <3>5 DEF IsKind
    <3>6. CASE m[i].kind # "summary" /\ m[i].kind # "answer"
      BY <1>7, <3>2, <3>6 DEF IsKind
    <3> QED
      BY <3>4, <3>5, <3>6
  <2>2. Len(m) \in Nat /\ DOMAIN m = 1..Len(m) /\ DOMAIN rows = DOMAIN m
    BY <1>1
  <2>3. rows = [i \in DOMAIN m |-> rows[i]]
    BY <1>1
  <2> HIDE DEF Rows
  <2> QED
    BY <2>1, <2>2, <2>3
<1>9. lates \in Seq(Seq(OwnEntries))
  <2>1. ASSUME NEW i \in DOMAIN jobs PROVE lates[i] \in Seq(OwnEntries)
    BY <1>2, <1>5, <1>7
  <2>2. Len(jobs) \in Nat /\ DOMAIN jobs = 1..Len(jobs) /\ DOMAIN lates = DOMAIN jobs
    BY <1>2
  <2>3. lates = [i \in DOMAIN jobs |-> lates[i]]
    BY <1>2
  <2> HIDE DEF Late
  <2> QED
    BY <2>1, <2>2, <2>3
<1>10. PICK f \in Seq(OwnEntries) : f = FlattenSeq(rows)
  BY <1>8, FlatPlaces
<1>11. PICK l \in Seq(OwnEntries) : l = FlattenSeq(lates)
  BY <1>9, FlatPlaces
<1> HIDE DEF Rows, Late, extra, Fold
<1>12. f \o more \o l \in Seq(OwnEntries)
  BY <1>6, <1>10, <1>11
<1> QED
  BY <1>4, <1>10, <1>11, <1>12

-----------------------------------------------------------------------------
(* Every report that waits or was handed over is one of a job that has     *)
(* settled; what waits was not handed over; and a batch in flight was      *)
(* handed over unless its turn was refused, which the buffer is yet to be  *)
(* told.                                                                   *)
MailInv ==
  /\ \A c \in Calls :
       c \in ToSet(HandedReports) \cup ToSet(pending) \cup ToSet(inFlight) => work[c] = "reported"
  /\ ToSet(pending) \cap ToSet(HandedReports) = {}
  /\ deliver = "delivering" =>
       IF Has(Refusals, micro) THEN ToSet(inFlight) \cap ToSet(HandedReports) = {}
       ELSE ToSet(inFlight) \subseteq ToSet(HandedReports)

ReportsStay == \A c \in Calls : work[c] = "reported" => work'[c] = "reported"

(* What was handed over is what the history's entries say.                 *)
LEMMA HandedIs ==
  ASSUME HInv
  PROVE  /\ HandedReports = Handed(history) /\ HandedReports \in Seq(Calls)
         /\ history \in Seq(KeptEntries)
<1>1. HandedReports = Handed(history)
  BY DEF HandedReports, Handed, ReportsIn
<1>2. history \in Seq(KeptEntries)
  BY DEF HInv, Keeping
<1>3. UserEntry \in KeptEntries
  BY DEF KeptEntries
<1> QED
  BY <1>1, <1>2, <1>3, HandedAppend

(* A step that hands nothing over and gives the buffer no input.           *)
LEMMA MailLeftAlone ==
  ASSUME MailInv, UNCHANGED deliveryVars, HandedReports' = HandedReports, ReportsStay,
         deliver = "delivering" => (Has(Refusals, micro') <=> Has(Refusals, micro))
  PROVE  MailInv' /\ UNCHANGED <<WaitingReports, HandedReports>>
<1>1. UNCHANGED <<deliver, pending, inFlight>>
  BY DEF deliveryVars
<1>2. WaitingReports' = WaitingReports
  BY <1>1 DEF WaitingReports
<1>3. MailInv'
  BY <1>1 DEF MailInv, ReportsStay
<1> QED
  BY <1>2, <1>3

(* A task other than the buffer's own verdict leaves that one where it is. *)
LEMMA VerdictStays ==
  ASSUME IInv, NEW name, At(name), name # "resolved",
         NEW before \in Seq(Tasks), ~Has(Refusals, before),
         NEW after \in Seq(Tasks), ~Has(Refusals, after),
         NEW events, After(before, events, after)
  PROVE  Has(Refusals, micro') <=> Has(Refusals, micro)
<1>1. Left(Refusals, before, events, after)
  BY TasksLeft DEF IInv
<1>2. Head(micro).does[1] = name
      /\ (Has(Refusals, micro) <=> Head(micro).does \in Refusals \/ Has(Refusals, Rest))
  BY HeadDoes DEF IInv
<1>3. Head(micro).does \notin Refusals
  BY <1>2, NamesOf
<1> QED
  BY <1>1, <1>2, <1>3, DeliverIs DEF Left

(* The tasks of a turn that starts are no verdicts.                        *)
LEMMA StartTasks ==
  ASSUME IInv, ~active, NEW g \in Goals, NEW from \in Froms, NEW before,
         RunTurn(g, from, before) \/ StartRun(g, from, before)
  PROVE  \E events, after : /\ after \in Seq(Tasks) /\ ~Has(Refusals, after)
                            /\ After(before, events, after)
<1>1. CanRun
  BY DEF IInv, Agreement, CanRun
<1>2. CASE StartRun(g, from, before)
  <2>1. PICK fold \in BOOLEAN : After(before, RunEvents(fold), <<Ran(TRUE, from)>>)
    BY <1>1, <1>2 DEF StartRun
  <2>2. PICK t \in Tasks : t = Ran(TRUE, from) /\ t.does \notin Refusals
    BY RanIs, Zenon
  <2>3. <<t>> \in Seq(Tasks)
    OBVIOUS
  <2>4. ~Has(Refusals, <<t>>)
    BY <2>2, HasFew
  <2> QED
    BY <2>1, <2>2, <2>3, <2>4
<1>3. CASE RunTurn(g, from, before) /\ pendingCancel
  <2>1. After(before, <<>>, <<Resume(g, from)>>)
    BY <1>3 DEF RunTurn
  <2>2. PICK t \in Tasks : t = Resume(g, from) /\ t.does \notin Refusals
    BY ResumeIs, Zenon
  <2>3. <<t>> \in Seq(Tasks)
    OBVIOUS
  <2>4. ~Has(Refusals, <<t>>)
    BY <2>2, HasFew
  <2> QED
    BY <2>1, <2>2, <2>3, <2>4
<1> QED
  BY <1>2, <1>3 DEF RunTurn

(* What joining a step's calls leaves for later.                           *)
LEMMA NeedsTasksPlain ==
  ASSUME IInv, OnNeedsResults
  PROVE  \E after : Plain(after) /\ After(<<>>, <<>>, after)
<1>1. At("deliver") /\ active /\ Head(inbox)[1] = "needs results"
  BY DEF OnNeedsResults, Delivered, Ev
<1>2. request \in [Calls -> Requests]
  BY DEF IInv, StateOK
<1>3. EvArg \in Models
  BY <1>1, EventInHand
<1>4. EvArg.calls \in Seq(Calls)
  BY <1>3 DEF Models
<1>5. CASE After(<<>>, <<>>, <<>>)
  BY <1>5, IdledPlain
<1>6. CASE After(<<>>, <<>>, <<Joined([n \in DOMAIN EvArg.calls |->
                          AnswerEntry(EvArg.calls[n], request[EvArg.calls[n]])])>>)
  BY <1>2, <1>4, <1>6, AnswersTo, JoinedPlain
<1> QED
  BY <1>5, <1>6 DEF OnNeedsResults

(* Tasks and events that change neither the history nor the buffer.        *)
LEMMA QuietMail ==
  ASSUME IInv, HInv, MailInv,
         \/ Hop /\ UNCHANGED <<sessionVars, agentVars, deliveryVars>>
         \/ Tear /\ UNCHANGED <<sessionVars, deliveryVars>>
         \/ RunAnswered \/ ResultsJoined
         \/ EventIgnored \/ OnTranscript \/ OnNeedsResults \/ OnNeedsPrompt \/ OnFolded
         \/ OnAnswer \/ Resumed
  PROVE  MailInv' /\ UNCHANGED <<WaitingReports, HandedReports>>
<1> USE PlainMeans, IdledPlain
<1>1. /\ UNCHANGED deliveryVars /\ UNCHANGED <<history, work>>
      /\ Has(Refusals, micro') <=> Has(Refusals, micro)
  <2>1. CASE Hop /\ UNCHANGED <<sessionVars, agentVars, deliveryVars>>
    BY <2>1, HopDoes DEF sessionVars, historyVars, toolVars
  <2>2. CASE Tear /\ UNCHANGED <<sessionVars, deliveryVars>>
    <3>1. At("teardown") /\ After(<<>>, <<>>, <<>>)
      BY <2>2 DEF Tear
    <3> QED
      BY <2>2, <3>1, VerdictStays DEF sessionVars, historyVars, toolVars
  <2>3. CASE RunAnswered
    <3>1. At("ran") /\ Arg.ok = TRUE
      BY <2>3, HeadIs DEF RunAnswered
    <3>2. After(<<>>, <<>>, Tell(Arg.from, TRUE)) /\ UNCHANGED history /\ UNCHANGED toolVars
          /\ UNCHANGED deliveryVars
      BY <2>3, <3>1, Zenon DEF RunAnswered
    <3>3. Tell(Arg.from, TRUE) \in Seq(Tasks) /\ ~Has(Refusals, Tell(Arg.from, TRUE))
      <4>0. TRUE \in BOOLEAN
        OBVIOUS
      <4>1. PICK t \in Tasks : t = Resolved(TRUE) /\ t.does \notin Refusals
        BY <4>0, ResolvedIs, Zenon
      <4>2. <<t>> \in Seq(Tasks)
        OBVIOUS
      <4>3. ~Has(Refusals, <<t>>)
        BY <4>1, HasFew
      <4> QED
        BY <4>1, <4>2, <4>3 DEF Tell
    <3>4. Has(Refusals, micro') <=> Has(Refusals, micro)
      BY <3>1, <3>2, <3>3, VerdictStays
    <3> QED
      BY <3>2, <3>4 DEF toolVars
  <2>4. CASE ResultsJoined
    <3>1. At("joined") /\ \E events : After(<<>>, events, <<>>)
      BY <2>4 DEF ResultsJoined
    <3> QED
      BY <2>4, <3>1, VerdictStays DEF ResultsJoined, sessionVars, historyVars, toolVars
  <2>5. CASE EventIgnored \/ OnTranscript \/ OnNeedsPrompt \/ OnFolded \/ OnAnswer
    <3>1. /\ At("deliver") /\ After(<<>>, <<>>, <<>>)
          /\ UNCHANGED deliveryVars /\ UNCHANGED <<history, work>>
      BY <2>5 DEF EventIgnored, OnTranscript, OnNeedsPrompt, OnFolded, OnAnswer, Delivered,
                  sessionVars, historyVars, toolVars
    <3> QED
      BY <3>1, VerdictStays
  <2>6. CASE OnNeedsResults
    <3>1. At("deliver") /\ UNCHANGED deliveryVars /\ UNCHANGED <<history, work>>
      BY <2>6 DEF OnNeedsResults, Delivered, historyVars
    <3>2. PICK after : Plain(after) /\ After(<<>>, <<>>, after)
      BY <2>6, NeedsTasksPlain
    <3> QED
      BY <3>1, <3>2, VerdictStays
  <2>7. CASE Resumed
    <3>1. At("resume") /\ UNCHANGED deliveryVars /\ UNCHANGED <<history, work>>
          /\ StartRun(Arg.goal, Arg.from, <<>>)
      BY <2>7 DEF Resumed, historyVars
    <3>2. Head(micro).does \in Resumes /\ Arg = Head(micro).does[2]
      BY <3>1, HeadDoes, DoingNames DEF IInv
    <3>3. ~active
      BY <3>1, <3>2, HeadDoes DEF IInv, Buffering
    <3>4. Arg.goal \in Goals /\ Arg.from \in Froms
      <4>1. \A n, X, Y : \A d \in {n} \X [goal : X, from : Y] : d[2].goal \in X /\ d[2].from \in Y
        OBVIOUS
      <4> QED
        BY <3>2, <4>1, Zenon DEF Resumes
    <3>5. PICK events, after : /\ after \in Seq(Tasks) /\ ~Has(Refusals, after)
                               /\ After(<<>>, events, after)
      BY <3>1, <3>3, <3>4, StartTasks
    <3> QED
      BY <3>1, <3>5, VerdictStays
  <2> QED
    BY <2>1, <2>2, <2>3, <2>4, <2>5, <2>6, <2>7
<1>2. HandedReports' = HandedReports
  BY <1>1 DEF HandedReports
<1>3. ReportsStay
  BY <1>1 DEF ReportsStay
<1> QED
  BY <1>1, <1>2, <1>3, MailLeftAlone

-----------------------------------------------------------------------------
(* What a turn that ends projects hands nothing over.                      *)
LEMMA EndHands ==
  ASSUME IInv, MInv, HInv, NEW m, Committable(m), NEW trailing,
         history' = history \o Projected(Reconciled(m), turnJobs, trailing)
  PROVE  HandedReports' = HandedReports
<1>1. Reconciled(m) \in Seq(TurnEntries)
  BY ReconciledOrderly DEF Committable
<1>2. turnJobs \in Seq(Calls) /\ folds \in Nat
  BY SessionAssumption DEF IInv, StateOK, MInv, Folding
<1>3. PICK p : p = Projected(Reconciled(m), turnJobs, trailing)
  OBVIOUS
<1>4. p \in Seq(OwnEntries)
  BY <1>1, <1>2, <1>3, ProjectedOwn
<1>5. history \in Seq(KeptEntries) /\ history' = history \o p
  BY <1>3 DEF HInv, Keeping
<1>6. Handed(history') = Handed(history)
  BY <1>4, <1>5, HandedJoined
<1>7. HandedReports = Handed(history) /\ HandedReports' = Handed(history')
  BY DEF HandedReports, Handed, ReportsIn
<1> QED
  BY <1>6, <1>7

(* One entry more.                                                         *)
LEMMA EntryHands ==
  ASSUME HInv, NEW e \in KeptEntries, history' = Append(history, e)
  PROVE  HandedReports' = HandedReports \o ReportsIn(e)
<1>1. HandedReports' = Handed(history')
  BY DEF HandedReports, Handed, ReportsIn
<1> QED
  BY <1>1, HandedIs, HandedAppend

(* One that is no report.                                                  *)
LEMMA OtherEntryHands ==
  ASSUME HInv, NEW e \in {UserEntry} \cup {JobEntry(c) : c \in Calls}, history' = Append(history, e)
  PROVE  HandedReports' = HandedReports
<1>1. e \in KeptEntries
  BY DEF KeptEntries
<1>2. ReportsIn(e) = <<>>
  BY ReportsOf
<1>3. PICK h \in Seq(Calls) : h = HandedReports
  BY HandedIs
<1>4. h \o <<>> = h
  OBVIOUS
<1> QED
  BY <1>1, <1>2, <1>3, <1>4, EntryHands

(* A call starts, or a turn ends, by an event.                             *)
LEMMA EventsMail ==
  ASSUME IInv, AInv, MInv, HInv, FreshInv, MailInv, OnCall \/ OnEnd
  PROVE  MailInv' /\ UNCHANGED <<WaitingReports, HandedReports>>
<1> USE PlainMeans, IdledPlain
<1>1. CASE OnCall
  <2>1. /\ At("deliver") /\ After(<<>>, <<>>, <<>>) /\ UNCHANGED deliveryVars
        /\ history' = history
        /\ work' = work \/ work' = [work EXCEPT ![EvArg.call] = "running"]
    BY <1>1 DEF OnCall, Delivered, StartCall, toolVars, historyVars
  <2>2. work[EvArg.call] = "none" /\ work \in [Calls -> Works]
    BY <1>1, CallIsFresh DEF IInv, StateOK
  <2>3. ReportsStay
    BY <2>1, <2>2 DEF ReportsStay
  <2>4. HandedReports' = HandedReports
    BY <2>1 DEF HandedReports
  <2>5. Has(Refusals, micro') <=> Has(Refusals, micro)
    BY <2>1, VerdictStays
  <2> QED
    BY <2>1, <2>3, <2>4, <2>5, MailLeftAlone
<1>2. CASE OnEnd
  <2>1. At("deliver") /\ UNCHANGED deliveryVars /\ work' = work
    BY <1>2 DEF OnEnd, Delivered, FinishTurn
  <2>2. PICK m, trailing : /\ Committable(m)
                           /\ history' = history \o Projected(Reconciled(m), turnJobs, trailing)
    BY <1>2, EndsCommittable
  <2>3. HandedReports' = HandedReports
    BY <2>2, EndHands
  <2>4. PICK after : Plain(after) /\ After(<<>>, <<>>, after)
    <3> DEFINE q == (IF join # <<>> THEN <<Joined(<<>>)>> ELSE <<>>)
    <3>1. After(<<>>, <<>>, <<>> \o q \o <<Idled>>)
      BY <1>2 DEF OnEnd, FinishTurn
    <3>2. <<>> \o q = q
      OBVIOUS
    <3> QED
      BY <3>1, <3>2, EndTasksPlain
  <2>5. Has(Refusals, micro') <=> Has(Refusals, micro)
    BY <2>1, <2>4, VerdictStays
  <2>6. ReportsStay
    BY <2>1 DEF ReportsStay
  <2> QED
    BY <2>1, <2>3, <2>5, <2>6, MailLeftAlone
<1> QED
  BY <1>1, <1>2

(* The user, the network and the tools, but for the work in background.    *)
LEMMA OutsideMail ==
  ASSUME IInv, AInv, MInv, HInv, MailInv, MaxSwaps = 0,
         User \/ Network \/ \E c \in Calls : WorkEnds(c) \/ WorkHandedOff(c)
  PROVE  MailInv' /\ UNCHANGED <<WaitingReports, HandedReports>>
<1>1. AtRest /\ UNCHANGED deliveryVars /\ ReportsStay /\ HandedReports' = HandedReports
  <2>0. AtRest
    BY DEF User, Submit, Compact, Cancel, Clear, BeginSwap, Loaded, Rewound, WorkEnds,
           WorkHandedOff, Network, StreamCall, StreamEnd, StreamFail, SummaryEnd
  <2>1. CASE Submit \/ Compact \/ Cancel \/ Network
    <3>1. UNCHANGED deliveryVars /\ work' = work
      BY <2>1 DEF Submit, Compact, Cancel, FinishTurn, Network, sessionVars, toolVars
    <3>2. ReportsStay
      BY <3>1 DEF ReportsStay
    <3>3. CASE Submit
      <4>1. history' = Append(history, UserEntry)
        BY <3>3 DEF Submit
      <4> QED
        BY <2>0, <3>1, <3>2, <4>1, OtherEntryHands
    <3>4. CASE Compact \/ Network
      <4>1. history' = history
        BY <3>4 DEF Compact, Network, sessionVars, historyVars
      <4> QED
        BY <2>0, <3>1, <3>2, <4>1 DEF HandedReports
    <3>5. CASE Cancel
      <4>1. Committable(mirror)
        BY <3>5, MirrorCommittable DEF Cancel
      <4>2. PICK m : m = mirror
        OBVIOUS
      <4>3. history' = history \o Projected(Reconciled(m), turnJobs, ~TRUE)
        BY <3>5, <4>2 DEF Cancel, FinishTurn, Commit
      <4>4. Committable(m)
        BY <4>1, <4>2 DEF Committable
      <4> QED
        BY <2>0, <3>1, <3>2, <4>3, <4>4, EndHands
    <3> QED
      BY <2>1, <3>3, <3>4, <3>5
  <2>2. ~Clear /\ ~BeginSwap /\ ~Loaded /\ ~Rewound
    <3>1. swap = "none" /\ swaps \in 0..MaxSwaps
      BY DEF AInv, Owing, IInv, StateOK
    <3>2. ~(swaps < MaxSwaps)
      BY <3>1
    <3> QED
      BY <3>1, <3>2 DEF Clear, BeginSwap, Loaded, Rewound
  <2>3. ASSUME NEW c \in Calls, WorkEnds(c) \/ WorkHandedOff(c)
        PROVE  UNCHANGED deliveryVars /\ ReportsStay /\ HandedReports' = HandedReports
    <3>1. /\ UNCHANGED deliveryVars /\ work[c] = "running"
          /\ work' = [work EXCEPT ![c] = "over"] \/ work' = [work EXCEPT ![c] = "background"]
          /\ history' = history \/ history' = Append(history, JobEntry(c))
      BY <2>3 DEF WorkEnds, WorkHandedOff, NoteBackgrounded, historyVars
    <3>2. ReportsStay
      BY <3>1 DEF ReportsStay, IInv, StateOK
    <3>3. HandedReports' = HandedReports
      BY <3>1, OtherEntryHands DEF HandedReports
    <3> QED
      BY <3>1, <3>2, <3>3
  <2> QED
    BY <2>0, <2>1, <2>2, <2>3 DEF User
<1>2. deliver # "delivering"
  BY <1>1, RestMeans
<1> QED
  BY <1>1, <1>2, MailLeftAlone

-----------------------------------------------------------------------------
(* A batch is dispatched: its turn takes it into the history, or is        *)
(* refused.                                                                *)
LEMMA BatchGoes ==
  ASSUME IInv, HInv, AtRest \/ At("idled"), NEW canRun, Deliver(canRun), TurnDispatched,
         inFlight' \in Seq(Calls)
  PROVE  \/ HandedReports' = HandedReports \o inFlight' /\ ~Has(Refusals, micro')
         \/ HandedReports' = HandedReports /\ Has(Refusals, micro')
<1>1. ~Has(Refusals, Rest)
  <2>1. ~Has(Tokens, micro)
    BY DEF TurnDispatched, IInv, Buffering
  <2> QED
    BY <2>1, RestIsLess, SubHas, Within
<1>2. CASE canRun /\ ~active
  <2>1. /\ history' = Append(history, ReportEntry(inFlight'))
        /\ RunTurn("respond", "delivery", <<Idled>>)
    BY <1>2 DEF Deliver, BeginDeliveryTurn
  <2>2. PICK e \in KeptEntries : e = ReportEntry(inFlight')
    BY KeptSay
  <2>3. HandedReports' = HandedReports \o inFlight'
    <3>1. ReportsIn(e) = inFlight'
      BY <2>2, ReportsOf
    <3>2. HandedReports' = HandedReports \o ReportsIn(e)
      BY <2>1, <2>2, EntryHands
    <3> QED
      BY <3>1, <3>2
  <2>4. PICK events, after : /\ after \in Seq(Tasks) /\ ~Has(Refusals, after)
                             /\ After(<<Idled>>, events, after)
    BY <1>2, <2>1, StartTasks DEF Goals, Froms
  <2>5. Left(Refusals, <<Idled>>, events, after)
    BY <2>4, TasksLeft, IdledPlain, PlainMeans DEF IInv
  <2>6. ~Has(Refusals, micro')
    BY <1>1, <2>4, <2>5, IdledPlain, PlainMeans, DeliverIs DEF Left
  <2> QED
    BY <2>3, <2>6
<1>3. CASE ~(canRun /\ ~active)
  <2>1. After(<<>>, <<>>, <<Resolved(FALSE)>>) /\ history' = history
    BY <1>3 DEF Deliver, BeginDeliveryTurn, historyVars
  <2>2. PICK t \in Tasks : t = Resolved(FALSE) /\ t.does \in Refusals
    <3>1. FALSE \in BOOLEAN
      OBVIOUS
    <3> QED
      BY <3>1, ResolvedIs, Zenon
  <2>3. <<t>> \in Seq(Tasks)
    OBVIOUS
  <2>4. Has(Refusals, <<t>>)
    BY <2>2, HasFew
  <2>5. Left(Refusals, <<>>, <<>>, <<t>>)
    BY <2>1, <2>2, <2>3, TasksLeft, NoTasks DEF IInv
  <2>6. Has(Refusals, micro')
    BY <2>4, <2>5 DEF Left
  <2> QED
    BY <2>1, <2>6 DEF HandedReports
<1> QED
  BY <1>2, <1>3

(* What that means for who has the reports.                                *)
LEMMA BatchMoves ==
  ASSUME HInv, MailInv, ReportsStay, inFlight' \in Seq(Calls), inFlight' # <<>>, pending' = <<>>,
         \A c \in ToSet(inFlight') : c \notin ToSet(HandedReports) /\ work'[c] = "reported",
         \/ HandedReports' = HandedReports \o inFlight' /\ ~Has(Refusals, micro')
         \/ HandedReports' = HandedReports /\ Has(Refusals, micro')
  PROVE  /\ MailInv'
         /\ \/ HandedReports' = HandedReports \o inFlight' /\ WaitingReports' = <<>>
            \/ HandedReports' = HandedReports /\ WaitingReports' = inFlight'
<1>1. HandedReports \in Seq(Calls)
  BY HandedIs
<1>2. ToSet(pending') = {} /\ \E c \in Calls : c \in ToSet(inFlight')
  <2>1. 1 \in DOMAIN inFlight' /\ inFlight'[1] \in Calls
    OBVIOUS
  <2> QED
    BY <2>1 DEF ToSet
<1>3. CASE HandedReports' = HandedReports \o inFlight' /\ ~Has(Refusals, micro')
  <2>1. \A c : c \in ToSet(HandedReports') <=> c \in ToSet(HandedReports) \/ c \in ToSet(inFlight')
    BY <1>1, <1>3, JoinedHolds
  <2>2. ToSet(inFlight') \subseteq ToSet(HandedReports')
    BY <2>1
  <2>3. MailInv'
    BY <1>2, <1>3, <2>1, <2>2 DEF MailInv, ReportsStay
  <2>4. WaitingReports' = <<>>
    BY <2>2 DEF WaitingReports
  <2> QED
    BY <1>3, <2>3, <2>4
<1>4. CASE HandedReports' = HandedReports /\ Has(Refusals, micro')
  <2>1. ToSet(inFlight') \cap ToSet(HandedReports') = {}
    BY <1>4
  <2>2. MailInv'
    BY <1>2, <1>4, <2>1 DEF MailInv, ReportsStay
  <2>3. WaitingReports' = inFlight' \o pending'
    BY <1>2, <2>1 DEF WaitingReports
  <2>4. \A q \in Seq(Calls) : q \o <<>> = q
    OBVIOUS
  <2>5. WaitingReports' = inFlight'
    BY <2>3, <2>4
  <2> QED
    BY <1>4, <2>2, <2>5
<1> QED
  BY <1>3, <1>4

(* What waits while nothing is in flight.                                  *)
LEMMA NothingInFlight ==
  ASSUME IInv, deliver # "delivering"
  PROVE  inFlight = <<>> /\ WaitingReports = pending /\ pending \in Seq(Calls)
<1>1. inFlight = <<>> /\ pending \in Seq(Calls)
  BY SessionAssumption DEF IInv, StateOK, DeliveryTypeOK
<1>2. ToSet(inFlight) = {}
  BY <1>1 DEF ToSet
<1> QED
  BY <1>1, <1>2 DEF WaitingReports

(* A batch as long as all that waits.                                      *)
LEMMA WholeBatch ==
  ASSUME NEW s \in Seq(Calls), s # <<>>
  PROVE  /\ Len(s) \in 1..Len(s) /\ SubSeq(s, 1, Len(s)) = s
         /\ SubSeq(s, Len(s) + 1, Len(s)) = <<>>
  OBVIOUS

(* The backlog is tried again.                                             *)
LEMMA RetryMail ==
  ASSUME IInv, IInv', HInv, MailInv, AtRest \/ At("idled"), NEW canRun, Deliver(canRun),
         deliver = "awaiting", work' = work,
         deliver' = "delivering", inFlight' = pending, pending' = <<>>
  PROVE  MailInv' /\ [Mailbox!MailboxNext]_(Mailbox!mailboxVars)
<1>1. /\ WaitingReports = pending /\ pending \in Seq(Calls) /\ pending # <<>>
      /\ inFlight' \in Seq(Calls) /\ inFlight' # <<>>
  BY NothingInFlight DEF IInv, StateOK, DeliveryTypeOK
<1>2. TurnDispatched
  BY DEF TurnDispatched
<1>3. \/ HandedReports' = HandedReports \o inFlight' /\ ~Has(Refusals, micro')
      \/ HandedReports' = HandedReports /\ Has(Refusals, micro')
  BY <1>1, <1>2, BatchGoes
<1>4. ReportsStay /\ \A c \in ToSet(inFlight') :
                       c \notin ToSet(HandedReports) /\ work'[c] = "reported"
  <2>1. ToSet(pending) \subseteq Calls
    BY <1>1 DEF ToSet
  <2> QED
    BY <2>1 DEF ReportsStay, MailInv
<1>5. /\ MailInv'
      /\ \/ HandedReports' = HandedReports \o inFlight' /\ WaitingReports' = <<>>
         \/ HandedReports' = HandedReports /\ WaitingReports' = inFlight'
  BY <1>1, <1>3, <1>4, BatchMoves
<1>6. CASE HandedReports' = HandedReports \o inFlight' /\ WaitingReports' = <<>>
  <2>1. Mailbox!Hand
    BY <1>1, <1>6, WholeBatch DEF Mailbox!Hand
  <2> QED
    BY <1>5, <2>1 DEF Mailbox!MailboxNext
<1>7. CASE HandedReports' = HandedReports /\ WaitingReports' = inFlight'
  BY <1>1, <1>5, <1>7 DEF Mailbox!mailboxVars
<1> QED
  BY <1>5, <1>6, <1>7

(* A provider is there, or the session is idle.                            *)
LEMMA EdgeMail ==
  ASSUME IInv, IInv', HInv, MailInv, IdleSeen \/ Attach
  PROVE  MailInv' /\ [Mailbox!MailboxNext]_(Mailbox!mailboxVars)
<1>1. PICK canRun : /\ Deliver(canRun) /\ work' = work
                    /\ AgentIdled \/ AgentBound
                    /\ AtRest \/ At("idled")
  BY DEF IdleSeen, Attach
<1>2. CASE deliver = "awaiting"
  <2>1. deliver' = "delivering" /\ inFlight' = pending /\ pending' = <<>>
    BY <1>1, <1>2 DEF AgentIdled, AgentBound, Dispatch, IInv, Buffering
  <2> QED
    BY <1>1, <1>2, <2>1, RetryMail
<1>3. CASE deliver # "awaiting"
  <2>1. UNCHANGED deliveryVars
    BY <1>1, <1>3 DEF AgentIdled, AgentBound, IInv, Buffering, deliveryVars
  <2>2. ~TurnDispatched
    BY <2>1 DEF TurnDispatched, deliveryVars
  <2>3. After(<<>>, <<>>, <<>>) /\ history' = history
    BY <1>1, <2>2, NotDispatched DEF historyVars
  <2>4. deliver = "delivering" => (Has(Refusals, micro') <=> Has(Refusals, micro))
    BY <1>1, <2>3, VerdictStays, RestMeans, IdledPlain, PlainMeans
  <2>5. HandedReports' = HandedReports /\ ReportsStay
    BY <1>1, <2>3 DEF HandedReports, ReportsStay
  <2>6. MailInv' /\ UNCHANGED <<WaitingReports, HandedReports>>
    BY <2>1, <2>4, <2>5, MailLeftAlone
  <2> QED
    BY <2>6 DEF Mailbox!mailboxVars
<1> QED
  BY <1>2, <1>3

(* The provider goes: what waits is given to the placeholder, which        *)
(* refuses it.                                                             *)
LEMMA DetachMail ==
  ASSUME IInv, AInv, MInv, HInv, MailInv, Detach
  PROVE  MailInv' /\ UNCHANGED <<WaitingReports, HandedReports>>
<1>1. AtRest /\ AgentBound /\ work' = work
      /\ micro' = IF TurnDispatched THEN <<Resolved(FALSE)>> ELSE <<>>
  BY DEF Detach
<1>2. deliver # "delivering" /\ WaitingReports = pending /\ pending \in Seq(Calls)
  BY <1>1, RestMeans, NothingInFlight
<1>3. HandedReports' = HandedReports /\ ReportsStay
  <2>1. CASE active
    <3>1. Committable(mirror)
      BY <1>1, <2>1, MirrorCommittable
    <3>2. PICK m : m = mirror
      OBVIOUS
    <3>3. history' = history \o Projected(Reconciled(m), turnJobs, FALSE)
      BY <2>1, <3>2 DEF Detach
    <3>4. Committable(m)
      BY <3>1, <3>2 DEF Committable
    <3> QED
      BY <1>1, <3>3, <3>4, EndHands DEF ReportsStay
  <2>2. CASE ~active
    BY <1>1, <2>2 DEF Detach, HandedReports, ReportsStay
  <2> QED
    BY <2>1, <2>2
<1>4. CASE deliver = "awaiting"
  <2>1. /\ deliver' = "delivering" /\ inFlight' = pending /\ pending' = <<>> /\ TurnDispatched
        /\ pending # <<>>
    BY <1>1, <1>4 DEF AgentBound, Dispatch, TurnDispatched, IInv, StateOK, DeliveryTypeOK
  <2>2. Has(Refusals, micro')
    <3>1. PICK t \in Tasks : t = Resolved(FALSE) /\ t.does \in Refusals
      <4>1. FALSE \in BOOLEAN
        OBVIOUS
      <4> QED
        BY <4>1, ResolvedIs, Zenon
    <3>2. Has(Refusals, <<t>>)
      BY <3>1, HasFew
    <3> QED
      BY <1>1, <2>1, <3>1, <3>2
  <2>3. \A c \in ToSet(inFlight') : c \notin ToSet(HandedReports) /\ work'[c] = "reported"
    <3>1. ToSet(pending) \subseteq Calls
      BY <1>2 DEF ToSet
    <3> QED
      BY <1>1, <2>1, <3>1 DEF MailInv
  <2>4. /\ MailInv'
        /\ \/ HandedReports' = HandedReports \o inFlight' /\ WaitingReports' = <<>>
           \/ HandedReports' = HandedReports /\ WaitingReports' = inFlight'
    BY <1>2, <1>3, <2>1, <2>2, <2>3, BatchMoves
  <2>5. HandedReports \o inFlight' # HandedReports
    <3>1. \A s, q \in Seq(Calls) : q # <<>> => s \o q # s
      <4> TAKE s, q \in Seq(Calls)
      <4>1. Len(s \o q) = Len(s) + Len(q)
        OBVIOUS
      <4>2. q # <<>> => Len(q) # 0
        OBVIOUS
      <4> QED
        BY <4>1, <4>2
    <3> QED
      BY <1>2, <2>1, <3>1, HandedIs
  <2> QED
    BY <1>2, <1>3, <2>1, <2>4, <2>5
<1>5. CASE deliver # "awaiting"
  <2>1. UNCHANGED deliveryVars
    BY <1>1, <1>5 DEF AgentBound, IInv, Buffering, deliveryVars
  <2> QED
    BY <1>2, <1>3, <2>1, MailLeftAlone
<1> QED
  BY <1>4, <1>5

(* The buffer is told how its batch fared.                                 *)
LEMMA VerdictMail ==
  ASSUME IInv, IInv', HInv, MailInv, DeliveryAnswered
  PROVE  MailInv' /\ UNCHANGED <<WaitingReports, HandedReports>>
<1>1. At("resolved") /\ DeliveryResolved(Arg) /\ UNCHANGED sessionVars
  BY DEF DeliveryAnswered
<1>2. /\ Arg \in BOOLEAN /\ Head(micro).does \in Tokens
      /\ Head(micro).does \in Refusals <=> Arg = FALSE
  BY <1>1, HeadIs
<1>3. Has(Refusals, micro) <=> Arg = FALSE
  <2>1. /\ Has(Refusals, micro) <=> Head(micro).does \in Refusals \/ Has(Refusals, Rest)
        /\ ~Has(Tokens, Rest)
    BY <1>1, <1>2, HeadDoes DEF IInv, Buffering
  <2> QED
    BY <1>2, <2>1, SubHas, Within
<1>4. /\ deliver = "delivering" /\ pending = <<>> /\ deliver' # "delivering"
      /\ inFlight \in Seq(Calls) /\ inFlight # <<>> /\ inFlight' = <<>>
      /\ pending' = IF Arg THEN pending ELSE inFlight \o pending
  BY <1>1, SessionAssumption DEF DeliveryResolved, IInv, Buffering, StateOK, DeliveryTypeOK
<1>5. inFlight \o pending = inFlight
  <2>1. \A q \in Seq(Calls) : q \o <<>> = q
    OBVIOUS
  <2> QED
    BY <1>4, <2>1
<1>6. HandedReports' = HandedReports /\ ReportsStay
  BY <1>1 DEF HandedReports, ReportsStay, sessionVars, historyVars, toolVars
<1>7. WaitingReports' = pending'
  BY <1>4, NothingInFlight DEF WaitingReports, ToSet
<1>8. ToSet(<<>>) = {}
  BY DEF ToSet
<1>9. CASE Arg = TRUE
  <2>1. ToSet(inFlight) \subseteq ToSet(HandedReports) /\ pending' = <<>>
    BY <1>3, <1>4, <1>9 DEF MailInv
  <2>2. WaitingReports' = WaitingReports
    BY <1>4, <1>7, <2>1 DEF WaitingReports
  <2>3. MailInv'
    BY <1>4, <1>6, <1>8, <2>1 DEF MailInv, ReportsStay
  <2> QED
    BY <1>6, <2>2, <2>3
<1>10. CASE Arg = FALSE
  <2>1. ToSet(inFlight) \cap ToSet(HandedReports) = {} /\ pending' = inFlight
    BY <1>3, <1>4, <1>5, <1>10 DEF MailInv
  <2>2. inFlight[1] \in ToSet(inFlight)
    BY <1>4 DEF ToSet
  <2>3. WaitingReports = inFlight \o pending
    BY <2>1, <2>2 DEF WaitingReports
  <2>4. WaitingReports' = WaitingReports
    BY <1>5, <1>7, <2>1, <2>3
  <2>5. MailInv'
    BY <1>4, <1>6, <1>8, <2>1 DEF MailInv, ReportsStay
  <2> QED
    BY <1>6, <2>4, <2>5
<1> QED
  BY <1>2, <1>9, <1>10

(* Neither side has the report of a job that is in the background.         *)
LEMMA NotPosted ==
  ASSUME IInv, HInv, MailInv, AtRest, NEW c \in Calls, work[c] = "background"
  PROVE  /\ ~Mailbox!IsPosted(c)
         /\ c \notin ToSet(pending) /\ c \notin ToSet(HandedReports)
<1>1. deliver # "delivering"
  BY RestMeans
<1>2. WaitingReports = pending /\ pending \in Seq(Calls) /\ HandedReports \in Seq(Calls)
  BY <1>1, NothingInFlight, HandedIs
<1>3. c \notin ToSet(pending) /\ c \notin ToSet(HandedReports)
  BY DEF MailInv
<1>4. c \notin ToSet(HandedReports \o pending)
  BY <1>2, <1>3, JoinedHolds
<1> QED
  BY <1>2, <1>3, <1>4 DEF Mailbox!IsPosted, ToSet

(* A job's background work ends: its report is posted, and handed over at  *)
(* once when the session is free.                                          *)
LEMMA SettledMail ==
  ASSUME IInv, IInv', HInv, MailInv, NEW c \in Calls, BackgroundEnds(c)
  PROVE  MailInv' /\ Mailbox!MailboxNext
<1>1. /\ AtRest /\ work[c] = "background" /\ work' = [work EXCEPT ![c] = "reported"]
      /\ ReportSettled(c) /\ Deliver(live)
  BY DEF BackgroundEnds
<1>2. /\ deliver # "delivering" /\ inFlight = <<>>
      /\ WaitingReports = pending /\ pending \in Seq(Calls)
  BY <1>1, RestMeans, NothingInFlight
<1>3. /\ ~Mailbox!IsPosted(c)
      /\ c \notin ToSet(pending) /\ c \notin ToSet(HandedReports) /\ c \in Reports
  BY <1>1, NotPosted, SessionAssumption
<1>4. ReportsStay /\ work'[c] = "reported"
  BY <1>1 DEF ReportsStay, IInv, StateOK
<1>5. CASE deliver = "idle"
  <2>1. /\ deliver' = "delivering" /\ TurnDispatched /\ pending = <<>>
        /\ pending' = <<>> /\ inFlight' = Append(<<>>, c)
    BY <1>1, <1>5
    DEF ReportSettled, Dispatch, TurnDispatched, IInv, Buffering, StateOK, DeliveryTypeOK
  <2>2. PICK b \in Seq(Calls) : /\ b = Append(<<>>, c) /\ b = <<c>> /\ b # <<>>
                                /\ DOMAIN b = {1} /\ b[1] = c
    <3>1. \A d \in Calls : /\ <<d>> \in Seq(Calls) /\ Append(<<>>, d) = <<d>> /\ <<d>> # <<>>
                           /\ DOMAIN <<d>> = {1} /\ <<d>>[1] = d
      OBVIOUS
    <3> QED
      BY <3>1
  <2>3. inFlight' = b
    BY <2>1, <2>2
  <2>4. \A d \in ToSet(inFlight') : d \notin ToSet(HandedReports) /\ work'[d] = "reported"
    BY <1>3, <1>4, <2>2, <2>3 DEF ToSet
  <2>5. \/ HandedReports' = HandedReports \o inFlight' /\ ~Has(Refusals, micro')
        \/ HandedReports' = HandedReports /\ Has(Refusals, micro')
    BY <1>1, <2>1, <2>2, <2>3, BatchGoes
  <2>6. /\ MailInv'
        /\ \/ HandedReports' = HandedReports \o inFlight' /\ WaitingReports' = <<>>
           \/ HandedReports' = HandedReports /\ WaitingReports' = inFlight'
    BY <1>4, <2>1, <2>2, <2>3, <2>4, <2>5, BatchMoves
  <2>7. CASE HandedReports' = HandedReports \o inFlight' /\ WaitingReports' = <<>>
    <3>1. HandedReports \o <<c>> = Append(HandedReports, c)
      <4>1. \A q \in Seq(Calls), d \in Calls : q \o <<d>> = Append(q, d)
        OBVIOUS
      <4> QED
        BY <4>1, HandedIs
    <3>2. Mailbox!PostAndHand(c)
      BY <1>2, <1>3, <2>1, <2>2, <2>3, <2>7, <3>1 DEF Mailbox!PostAndHand
    <3> QED
      BY <1>3, <2>6, <3>2 DEF Mailbox!MailboxNext
  <2>8. CASE HandedReports' = HandedReports /\ WaitingReports' = inFlight'
    <3>1. Mailbox!Post(c)
      BY <1>2, <1>3, <2>1, <2>8 DEF Mailbox!Post
    <3> QED
      BY <1>3, <2>6, <3>1 DEF Mailbox!MailboxNext
  <2> QED
    BY <2>6, <2>7, <2>8
<1>6. CASE deliver # "idle"
  <2>1. /\ pending' = Append(pending, c) /\ inFlight' = <<>> /\ deliver' # "delivering"
        /\ ~TurnDispatched
    BY <1>1, <1>2, <1>6 DEF ReportSettled, TurnDispatched
  <2>2. HandedReports' = HandedReports
    BY <1>1, <2>1, NotDispatched DEF HandedReports, historyVars
  <2>3. ToSet(<<>>) = {} /\ \A d : d \in ToSet(pending') <=> d \in ToSet(pending) \/ d = c
    BY <1>2, <2>1, AppendHolds DEF ToSet
  <2>4. MailInv'
    BY <1>3, <1>4, <2>1, <2>2, <2>3 DEF MailInv, ReportsStay
  <2>5. WaitingReports' = pending'
    BY <2>1, <2>3 DEF WaitingReports
  <2>6. Mailbox!Post(c)
    BY <1>2, <1>3, <2>1, <2>2, <2>5 DEF Mailbox!Post
  <2> QED
    BY <1>3, <2>4, <2>6 DEF Mailbox!MailboxNext
<1> QED
  BY <1>5, <1>6

(* Every step keeps the account, and is a step of the mailbox or none.     *)
LEMMA NextMail ==
  /\ MaxSwaps = 0
  /\ IInv /\ IInv' /\ AInv /\ MInv /\ HInv /\ FreshInv /\ MailInv /\ [Next]_vars
  => MailInv' /\ [Mailbox!MailboxNext]_(Mailbox!mailboxVars)
<1> SUFFICES ASSUME MaxSwaps = 0,
                    IInv, IInv', AInv, MInv, HInv, FreshInv, MailInv, [Next]_vars
             PROVE  MailInv' /\ [Mailbox!MailboxNext]_(Mailbox!mailboxVars)
  OBVIOUS
<1> DEFINE Stutters == MailInv' /\ UNCHANGED <<WaitingReports, HandedReports>>
<1>1. Stutters => MailInv' /\ [Mailbox!MailboxNext]_(Mailbox!mailboxVars)
  BY DEF Mailbox!mailboxVars
<1>2. CASE Microtask
  <2>1. CASE IdleSeen
    BY <2>1, EdgeMail
  <2>2. CASE ~IdleSeen
    <3>1. Stutters
      BY <1>2, <2>2, QuietMail, EventsMail, VerdictMail DEF Microtask
    <3> QED
      BY <1>1, <3>1
  <2> QED
    BY <2>1, <2>2
<1>3. CASE User \/ Network \/ Detach \/ \E c \in Calls : WorkEnds(c) \/ WorkHandedOff(c)
  <2>1. Stutters
    BY <1>3, OutsideMail, DetachMail
  <2> QED
    BY <1>1, <2>1
<1>4. CASE Attach
  BY <1>4, EdgeMail
<1>5. ASSUME NEW c \in Calls, BackgroundEnds(c)
      PROVE  MailInv' /\ [Mailbox!MailboxNext]_(Mailbox!mailboxVars)
  BY <1>5, SettledMail
<1>6. CASE UNCHANGED vars
  <2>1. UNCHANGED <<deliveryVars, history, work, micro>>
    BY <1>6 DEF vars, sessionVars, historyVars, toolVars, loopVars
  <2>2. HandedReports' = HandedReports /\ ReportsStay
    BY <2>1 DEF HandedReports, ReportsStay
  <2>3. Stutters
    BY <2>1, <2>2, MailLeftAlone
  <2> QED
    BY <1>1, <2>3
<1> QED
  BY <1>2, <1>3, <1>4, <1>5, <1>6 DEF Next, Work

(***************************************************************************)
(* Without swaps of the history, the session with its buffer implements    *)
(* the mailbox: the report of a settled job is posted once, and is handed  *)
(* over by the turn that takes it, in order, however often it was refused. *)
(***************************************************************************)
THEOREM MailboxKept == MaxSwaps = 0 => (Spec => MailboxImplemented)
<1>1. SUFFICES ASSUME MaxSwaps = 0 PROVE Spec => MailboxImplemented
  OBVIOUS
<1>2. Init => MailInv /\ Mailbox!MailboxInit
  <2> SUFFICES ASSUME Init PROVE MailInv /\ Mailbox!MailboxInit
    OBVIOUS
  <2>1. /\ history = <<>> /\ pending = <<>> /\ inFlight = <<>> /\ deliver = "idle"
    BY DEF Init
  <2>2. HandedReports = <<>>
    <3>1. [i \in DOMAIN history |->
             IF IsKind("report", history[i]) THEN history[i].reports ELSE <<>>] = <<>>
      BY <2>1
    <3>2. <<>> \in Seq(Seq(Calls)) /\ Len(<<>>) = 0
      OBVIOUS
    <3>3. FlattenSeq(<<>>) = <<>>
      BY <3>2, FlattenIs
    <3> QED
      BY <3>1, <3>3 DEF HandedReports
  <2>3. WaitingReports = <<>>
    BY <2>1, <2>2 DEF WaitingReports, ToSet
  <2> QED
    BY <2>1, <2>2, <2>3 DEF MailInv, Mailbox!MailboxInit, ToSet
<1>3. IInv /\ IInv' /\ AInv /\ MInv /\ HInv /\ FreshInv /\ MailInv /\ [Next]_vars
      => MailInv' /\ [Mailbox!MailboxNext]_(Mailbox!mailboxVars)
  BY <1>1, NextMail
<1> QED
  BY <1>2, <1>3, SessionInvariance, AskInvariance, MirrorInvariance, HistoryInvariance,
     CallsFresh, PTL DEF Spec, MailboxImplemented, Mailbox!MailboxSpec
=============================================================================
