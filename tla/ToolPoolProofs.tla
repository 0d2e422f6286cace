--------------------------- MODULE ToolPoolProofs ---------------------------
(***************************************************************************)
(* Proofs about ToolPool, for every number of calls and workers, every set *)
(* of lanes and every set of sizes.  The inductive invariant IInv adds to  *)
(* the named ones what the handlers rely on and never test: a spawn is     *)
(* only under way for a call that left the queue, a running call is one    *)
(* whose start has resolved, and a closed pool holds nothing.  The loop of *)
(* _pump is shown to do what Pump says by an induction over the queue,     *)
(* which the well-foundedness of the naturals gives.                       *)
(***************************************************************************)
EXTENDS ToolPool, FiniteSetTheorems, WellFoundedInduction, TLAPS

-----------------------------------------------------------------------------
(* What a pump does to the queue and the workers it is given: the calls in *)
(* warm get a worker of i each, those in cold a spawn each.                *)
Pumped(w, r, i, b, s, warm, cold, hand) ==
  /\ waiting'  = w \ (warm \cup cold)
  /\ running'  = r \cup warm \cup cold
  /\ idle'     = i \ Range(hand)
  /\ busy'     = b \cup Range(hand)
  /\ spawning' = s \cup cold
  /\ serving'  = [x \in Workers |->
                    IF x \in Range(hand) THEN CHOOSE c \in warm : hand[c] = x
                    ELSE IF x \in b \cup dying' THEN serving[x]
                    ELSE NoCall]

(* The calls started are startable ones, the warm and the cold apart, and  *)
(* each warm call has a worker of its own that was warm.                   *)
LEMMA PumpStarts ==
  ASSUME NEW w \in SUBSET Calls, NEW r \in SUBSET Calls,
         NEW i \in SUBSET Workers, NEW b, NEW s,
         Pump(w, r, i, b, s)
  PROVE  \E warm, cold \in SUBSET Startable(w, r, ready') :
           \E hand \in Injection(warm, i) :
             /\ warm \cap cold = {}
             /\ Pumped(w, r, i, b, s, warm, cold, hand)
<1> DEFINE S    == IF closed THEN {} ELSE Startable(w, r, ready')
           warm == Warm(S, Cardinality(i))
           cold == Cold(S, Cardinality(i), Over(size', LiveCount(i, b, s)))
<1>1. PICK hand \in Injection(warm, i) : Pumped(w, r, i, b, s, warm, cold, hand)
  BY DEF Pump, Pumped
<1>2. warm \in SUBSET Startable(w, r, ready') /\ cold \in SUBSET Startable(w, r, ready')
  BY DEF Warm, Cold
<1>3. warm \cap cold = {}
  <2> SUFFICES ASSUME NEW c \in S, Rank(S, c) < Cardinality(i),
                      Rank(S, c) \in Cardinality(i)..(Cardinality(i) + Over(size', LiveCount(i, b, s)) - 1)
               PROVE  FALSE
    BY DEF Warm, Cold
  <2>1. Cardinality(i) \in Nat
    BY WorkerAssumption, FS_Subset, FS_CardinalityType
  <2> QED
    BY <2>1
<1> HIDE DEF S, warm, cold
<1> QED
  BY <1>1, <1>2, <1>3

(***************************************************************************)
(* What the pump may count on of the queue w, the running calls r and the  *)
(* workers i, b, s that a handler hands it: the conjuncts of IInv, said of *)
(* these and of the variables the handler has already set.                 *)
(***************************************************************************)
TypesSet ==
  /\ lane' = lane /\ closed' = closed /\ called' \in 0..NumCalls /\ size' \in Sizes
  /\ outcome' \in [Calls -> Outcomes]
  /\ preparing' \subseteq Calls /\ ready' \subseteq Calls /\ dying' \subseteq Workers

QueueSet(w, r, s) ==
  /\ w \subseteq Calls /\ r \subseteq Calls /\ s \subseteq Calls
  /\ w \cap r = {}
  /\ closed => w \cup r = {}
  /\ w \cup r = {c \in 1..called' : outcome'[c] = "none"}
  /\ \A c \in r, d \in w \cup r :
       (c # d /\ lane[c] # NoLane /\ lane[d] = lane[c]) => d \in w /\ c < d
  /\ s \cup preparing' \cup ready' \subseteq 1..called'
  /\ \A c \in Calls : c > called' => outcome'[c] = "none"
  /\ w \cap s = {} /\ preparing' \cap ready' = {} /\ r \subseteq ready'

WorkersSet(r, i, b, s) ==
  /\ i \subseteq Workers /\ b \subseteq Workers
  /\ \A x \in b : serving[x] \in r \ s
  /\ \A x, y \in b : serving[x] = serving[y] => x = y
  /\ \A c \in r \ s : \E x \in b : serving[x] = c
  /\ i \cap b = {} /\ i \cap dying' = {} /\ b \cap dying' = {}
  /\ closed => i \cup b = {}

(* A handler that hands over a consistent queue and consistent workers     *)
(* keeps the invariant.                                                    *)
LEMMA PumpKeepsInvariant ==
  ASSUME TypeOK, NEW w, NEW r, NEW i, NEW b, NEW s,
         TypesSet, QueueSet(w, r, s), WorkersSet(r, i, b, s),
         Pump(w, r, i, b, s)
  PROVE  IInv'
<1> USE DEF TypesSet, QueueSet, WorkersSet
<1>0. PICK warm \in SUBSET Startable(w, r, ready'), cold \in SUBSET Startable(w, r, ready') :
           \E hand \in Injection(warm, i) :
             warm \cap cold = {} /\ Pumped(w, r, i, b, s, warm, cold, hand)
  <2>1. w \in SUBSET Calls /\ r \in SUBSET Calls /\ i \in SUBSET Workers
    OBVIOUS
  <2> QED
    BY ONLY <2>1, Pump(w, r, i, b, s), PumpStarts, Zenon
<1>1. PICK hand \in Injection(warm, i) :
           warm \cap cold = {} /\ Pumped(w, r, i, b, s, warm, cold, hand)
  BY <1>0
<1>2. /\ Range(hand) \subseteq i
      /\ \A c \in warm : hand[c] \in Range(hand) /\ serving'[hand[c]] = c
      /\ \A x \in Range(hand) : serving'[x] \in warm /\ hand[serving'[x]] = x
  <2>1. hand \in [warm -> i] /\ \A c, d \in warm : hand[c] = hand[d] => c = d
    BY DEF Injection, IsInjective
  <2>2. Range(hand) \subseteq i /\ \A c \in warm : hand[c] \in Range(hand)
    BY <2>1 DEF Range
  <2>3. ASSUME NEW x \in Range(hand)
        PROVE  serving'[x] \in warm /\ hand[serving'[x]] = x
    <3>1. \E c \in warm : hand[c] = x
      BY <2>1 DEF Range
    <3>2. serving'[x] = CHOOSE c \in warm : hand[c] = x
      BY <1>1, <2>2 DEF Pumped
    <3> QED
      BY <3>1, <3>2
  <2> QED
    BY <2>1, <2>2, <2>3
<1>3. /\ waiting' = w \ (warm \cup cold) /\ running' = r \cup warm \cup cold
      /\ idle' = i \ Range(hand) /\ busy' = b \cup Range(hand) /\ spawning' = s \cup cold
  BY <1>1 DEF Pumped
<1>4. /\ serving' \in [Workers -> Calls \cup {NoCall}]
      /\ \A x \in b : serving'[x] = serving[x]
      /\ \A x \in Workers : serving'[x] # NoCall => x \in busy' \cup dying'
  <2> DEFINE sv == [x \in Workers |->
                      IF x \in Range(hand) THEN CHOOSE c \in warm : hand[c] = x
                      ELSE IF x \in b \cup dying' THEN serving[x]
                      ELSE NoCall]
  <2>1. serving' = sv
    BY <1>1 DEF Pumped
  <2>2. \A x \in Range(hand) : serving'[x] \in Calls
    BY <1>2 DEF Startable
  <2>3. \A x \in Workers \ Range(hand) :
          /\ serving'[x] = IF x \in b \cup dying' THEN serving[x] ELSE NoCall
          /\ serving'[x] \in Calls \cup {NoCall}
    BY <2>1 DEF TypeOK
  <2>4. DOMAIN serving' = Workers /\ serving' = [x \in Workers |-> serving'[x]]
    BY <2>1
  <2> QED
    BY <1>2, <1>3, <2>2, <2>3, <2>4
<1>5. warm \subseteq w /\ cold \subseteq w /\ warm \subseteq ready' /\ cold \subseteq ready'
  BY DEF Startable
<1>6. TypeOK'
  BY <1>2, <1>3, <1>4, <1>5 DEF TypeOK
<1>7. UnansweredIsHeld'
  BY <1>3, <1>5 DEF UnansweredIsHeld, Settled
<1>8. LaneOrder'
  <2> SUFFICES ASSUME NEW c \in running', NEW d \in waiting' \cup running',
                      c # d, lane[c] # NoLane, lane[d] = lane[c]
               PROVE  d \in waiting' /\ c < d
    BY DEF LaneOrder
  <2>1. d \in w \cup r /\ c \in w \cup r /\ c \in Int /\ d \in Int
    BY <1>3, <1>5 DEF Calls
  <2>2. \A e \in warm \cup cold : \A f \in r \cup {g \in w : g < e} :
          lane[e] # NoLane => lane[f] # lane[e]
    BY DEF Startable
  <2>3. CASE c \in r
    <3>1. d \in w /\ c < d
      BY <2>1, <2>3
    <3>2. d \notin warm \cup cold
      BY <2>2, <2>3
    <3> QED
      BY <1>3, <3>1, <3>2
  <2>4. CASE c \in warm \cup cold
    <3>1. d \notin r /\ d \in w /\ ~(d < c)
      BY <2>1, <2>2, <2>4
    <3>2. c < d
      BY <2>1, <3>1
    <3>3. d \notin warm \cup cold
      BY <1>5, <2>2, <2>4, <3>2
    <3> QED
      BY <1>3, <3>1, <3>2, <3>3
  <2> QED
    BY <1>3, <2>3, <2>4
<1>9. RunningHasOneWorker'
  <2>1. ASSUME NEW x \in busy' PROVE serving'[x] \in running' \ spawning'
    <3>1. CASE x \in b
      BY <1>3, <1>4, <1>5, <3>1
    <3>2. CASE x \in Range(hand)
      BY <1>1, <1>2, <1>3, <1>5, <3>2
    <3> QED
      BY <1>3, <3>1, <3>2
  <2>2. ASSUME NEW x \in busy', NEW y \in busy', serving'[x] = serving'[y] PROVE x = y
    <3>1. CASE x \in b /\ y \in b
      BY <1>4, <2>2, <3>1
    <3>2. CASE x \in Range(hand) /\ y \in Range(hand)
      BY <1>2, <2>2, <3>2
    <3>3. ASSUME NEW u \in b, NEW v \in Range(hand) PROVE serving'[u] # serving'[v]
      BY <1>2, <1>4, <1>5
    <3> QED
      BY <1>3, <2>2, <3>1, <3>2, <3>3
  <2>3. ASSUME NEW c \in running' \ spawning' PROVE \E x \in busy' : serving'[x] = c
    <3>1. CASE c \in r
      BY <1>3, <1>4, <2>3, <3>1
    <3>2. CASE c \in warm
      BY <1>2, <1>3, <3>2
    <3> QED
      BY <1>3, <2>3, <3>1, <3>2
  <2> QED
    BY <2>1, <2>2, <2>3 DEF RunningHasOneWorker
<1>10. WorkersKeptApart'
  BY <1>2, <1>3, <1>4 DEF WorkersKeptApart
<1>11. OnlyMadeCalls'
  BY <1>3, <1>5 DEF OnlyMadeCalls, Settled
<1>12. StartedWasReady'
  BY <1>3, <1>5 DEF StartedWasReady
<1>13. ClosedHoldsNothing'
  BY <1>2, <1>3, <1>5 DEF ClosedHoldsNothing
<1> QED
  BY <1>6, <1>7, <1>8, <1>9, <1>10, <1>11, <1>12, <1>13 DEF IInv

-----------------------------------------------------------------------------
LEMMA AnswerType ==
  ASSUME TypeOK, NEW S, NEW o \in Outcomes, Answer(S, o)
  PROVE  /\ outcome' \in [Calls -> Outcomes]
         /\ \A c \in Calls : outcome'[c] = IF c \in S /\ ~Settled(c) THEN o ELSE outcome[c]
BY DEF TypeOK, Answer

LEMMA InitIInv == Init => IInv
<1> SUFFICES ASSUME Init PROVE IInv
  OBVIOUS
<1>1. called = 0 /\ 1..called = {}
  BY DEF Init
<1>2. TypeOK
  <2>1. called \in 0..NumCalls
    BY NumCallsAssumption DEF Init
  <2>2. /\ lane \in [Calls -> Lanes \cup {NoLane}]
        /\ outcome \in [Calls -> Outcomes]
        /\ serving \in [Workers -> Calls \cup {NoCall}]
    BY DEF Init, Outcomes
  <2>3. /\ preparing \subseteq Calls /\ ready \subseteq Calls
        /\ waiting \subseteq Calls /\ running \subseteq Calls /\ spawning \subseteq Calls
        /\ idle \subseteq Workers /\ busy \subseteq Workers /\ dying \subseteq Workers
    BY DEF Init
  <2> QED
    BY <2>1, <2>2, <2>3 DEF Init, TypeOK
<1>3. UnansweredIsHeld
  BY <1>1 DEF Init, UnansweredIsHeld
<1>4. OnlyMadeCalls
  BY <1>1 DEF Init, OnlyMadeCalls, Settled
<1>5. LaneOrder /\ StartedWasReady
  BY DEF Init, LaneOrder, StartedWasReady
<1>6. RunningHasOneWorker /\ WorkersKeptApart /\ ClosedHoldsNothing
  BY DEF Init, RunningHasOneWorker, WorkersKeptApart, ClosedHoldsNothing
<1> QED
  BY <1>2, <1>3, <1>4, <1>5, <1>6 DEF IInv

LEMMA RunIInv ==
  ASSUME IInv, NEW l \in Lanes \cup {NoLane}, Run(l)
  PROVE  IInv'
<1> DEFINE c == called + 1
<1>1. /\ c \in Calls /\ called \in Nat /\ called' = c /\ called' \in 0..NumCalls
      /\ \A d \in 1..called : d \in Calls /\ d < c
      /\ 1..c = (1..called) \cup {c}
  BY NumCallsAssumption DEF IInv, TypeOK, Run, Calls
<1>2. c \notin waiting \cup running \cup spawning \cup preparing \cup ready /\ ~Settled(c)
  BY <1>1 DEF IInv, UnansweredIsHeld, OnlyMadeCalls
<1>3. /\ lane' \in [Calls -> Lanes \cup {NoLane}]
      /\ \A d \in Calls \ {c} : lane'[d] = lane[d]
  BY <1>1 DEF IInv, TypeOK, Run
<1>4. UNCHANGED <<ready, running, idle, busy, spawning, size, closed, serving, dying>>
  BY DEF Run
<1>5. CASE closed
  <2>1. Answer({c}, "failed") /\ UNCHANGED <<waiting, preparing>>
    BY <1>5 DEF Run
  <2>2. /\ outcome' \in [Calls -> Outcomes]
        /\ outcome'[c] = "failed" /\ \A d \in Calls \ {c} : outcome'[d] = outcome[d]
    BY <1>1, <1>2, <2>1, AnswerType DEF IInv, Outcomes
  <2>3. TypeOK'
    BY <1>1, <1>3, <1>4, <2>1, <2>2 DEF IInv, TypeOK
  <2>4. UnansweredIsHeld'
    BY <1>1, <1>4, <2>1, <2>2 DEF IInv, UnansweredIsHeld, Settled
  <2>5. LaneOrder'
    BY <1>2, <1>3, <1>4, <2>1 DEF IInv, TypeOK, LaneOrder
  <2>6. RunningHasOneWorker' /\ WorkersKeptApart' /\ StartedWasReady' /\ ClosedHoldsNothing'
    BY <1>4, <2>1 DEF IInv, RunningHasOneWorker, WorkersKeptApart, StartedWasReady, ClosedHoldsNothing
  <2>7. OnlyMadeCalls'
    BY <1>1, <1>4, <2>1, <2>2 DEF IInv, OnlyMadeCalls, Settled, Calls
  <2> QED
    BY <2>3, <2>4, <2>5, <2>6, <2>7 DEF IInv
<1>6. CASE ~closed
  <2>1. waiting' = waiting \cup {c} /\ preparing' = preparing \cup {c} /\ UNCHANGED outcome
    BY <1>6 DEF Run
  <2>2. TypeOK'
    BY <1>1, <1>3, <1>4, <2>1 DEF IInv, TypeOK
  <2>3. UnansweredIsHeld'
    BY <1>1, <1>2, <1>4, <2>1 DEF IInv, UnansweredIsHeld, Settled
  <2>4. LaneOrder'
    BY <1>1, <1>2, <1>3, <1>4, <2>1 DEF IInv, TypeOK, LaneOrder, UnansweredIsHeld
  <2>5. RunningHasOneWorker' /\ WorkersKeptApart' /\ ClosedHoldsNothing'
    BY <1>4, <1>6 DEF IInv, RunningHasOneWorker, WorkersKeptApart, ClosedHoldsNothing
  <2>6. StartedWasReady'
    BY <1>2, <1>4, <2>1 DEF IInv, StartedWasReady
  <2>7. OnlyMadeCalls'
    BY <1>1, <1>4, <2>1 DEF IInv, OnlyMadeCalls, Settled, Calls
  <2> QED
    BY <2>2, <2>3, <2>4, <2>5, <2>6, <2>7 DEF IInv
<1> QED
  BY <1>5, <1>6

(* IInv, in the words of what a handler hands over. *)
LEMMA IInvParts ==
  ASSUME IInv
  PROVE  /\ TypeOK
         /\ waiting \cap running = {}
         /\ waiting \cup running = {c \in 1..called : outcome[c] = "none"}
         /\ \A c \in running, d \in waiting \cup running :
              (c # d /\ lane[c] # NoLane /\ lane[d] = lane[c]) => d \in waiting /\ c < d
         /\ spawning \cup preparing \cup ready \subseteq 1..called
         /\ \A c \in Calls : c > called => outcome[c] = "none"
         /\ waiting \cap spawning = {} /\ preparing \cap ready = {} /\ running \subseteq ready
         /\ \A x \in busy : serving[x] \in running \ spawning
         /\ \A x, y \in busy : serving[x] = serving[y] => x = y
         /\ \A c \in running \ spawning : \E x \in busy : serving[x] = c
         /\ idle \cap busy = {} /\ idle \cap dying = {} /\ busy \cap dying = {}
         /\ \A x \in Workers : serving[x] # NoCall => x \in busy \cup dying
         /\ closed => waiting \cup running = {} /\ idle \cup busy = {}
         /\ 1..called \subseteq Calls
BY NumCallsAssumption
   DEF IInv, UnansweredIsHeld, LaneOrder, RunningHasOneWorker, WorkersKeptApart,
       OnlyMadeCalls, StartedWasReady, ClosedHoldsNothing, Settled, TypeOK, Calls

LEMMA PreparedIInv ==
  ASSUME IInv, NEW c \in Calls, Prepared(c)
  PROVE  IInv'
<1>1. /\ c \in preparing /\ preparing' = preparing \ {c} /\ ready' = ready \cup {c}
      /\ UNCHANGED <<called, lane, outcome, size, closed, dying>>
      /\ Pump(waiting, running, idle, busy, spawning)
  BY DEF Prepared
<1>2. TypesSet
  BY <1>1, IInvParts DEF TypesSet, TypeOK
<1>3. QueueSet(waiting, running, spawning)
  BY <1>1, IInvParts DEF QueueSet, TypeOK
<1>4. WorkersSet(running, idle, busy, spawning)
  BY <1>1, IInvParts DEF WorkersSet, TypeOK
<1> QED
  BY <1>1, <1>2, <1>3, <1>4, IInvParts, PumpKeepsInvariant

LEMMA RefuseIInv ==
  ASSUME IInv, NEW c \in Calls, Refuse(c)
  PROVE  IInv'
<1>1. /\ c \in preparing /\ preparing' = preparing \ {c}
      /\ UNCHANGED <<called, lane, ready, size, closed, dying>>
  BY DEF Refuse
<1>2. /\ outcome' \in [Calls -> Outcomes]
      /\ \A d \in Calls : outcome'[d] = IF d = c /\ ~Settled(d) THEN "failed" ELSE outcome[d]
  BY IInvParts, AnswerType DEF Refuse, Outcomes
<1>3. CASE Settled(c)
  <2>1. UNCHANGED <<queueVars, serving>>
    BY <1>3 DEF Refuse
  <2>2. outcome' = outcome
    BY <1>2, <1>3, IInvParts DEF TypeOK
  <2> QED
    BY <1>1, <2>1, <2>2
       DEF queueVars, IInv, TypeOK, UnansweredIsHeld, LaneOrder, RunningHasOneWorker,
           WorkersKeptApart, OnlyMadeCalls, StartedWasReady, ClosedHoldsNothing, Settled
<1>4. CASE ~Settled(c)
  <2>1. Pump(waiting \ {c}, running, idle, busy, spawning)
    BY <1>4 DEF Refuse
  <2>2. c \in waiting /\ c \notin running
    BY <1>1, <1>4, IInvParts DEF Settled
  <2>3. TypesSet
    BY <1>1, <1>2, IInvParts DEF TypesSet, TypeOK
  <2>4. (waiting \ {c}) \cup running = {d \in 1..called' : outcome'[d] = "none"}
    BY <1>1, <1>2, <1>4, <2>2, IInvParts DEF Settled
  <2>5. \A d \in Calls : d > called' => outcome'[d] = "none"
    BY <1>1, <1>2, IInvParts DEF Calls, TypeOK
  <2>6. QueueSet(waiting \ {c}, running, spawning)
    BY <1>1, <2>4, <2>5, IInvParts DEF QueueSet, TypeOK
  <2>7. WorkersSet(running, idle, busy, spawning)
    BY <1>1, IInvParts DEF WorkersSet, TypeOK
  <2> QED
    BY <2>1, <2>3, <2>6, <2>7, IInvParts, PumpKeepsInvariant
<1> QED
  BY <1>3, <1>4

(***************************************************************************)
(* _release of a worker x that is in none of the pool's sets any more.     *)
(***************************************************************************)
LEMMA ReleaseKeepsInvariant ==
  ASSUME TypeOK, NEW x \in Workers, NEW w, NEW r, NEW b, NEW s,
         Release(x, w, r, b, s),
         idle \cap dying = {}, b \cap dying = {}, idle \cap b = {},
         x \notin idle \cup b \cup dying,
         UNCHANGED <<called, lane, preparing, ready, size, closed>>,
         outcome' \in [Calls -> Outcomes],
         QueueSet(w, r, s),
         b \subseteq Workers, closed => idle \cup b = {},
         \A y \in b : serving[y] \in r \ s,
         \A y, z \in b : serving[y] = serving[z] => y = z,
         \A c \in r \ s : \E y \in b : serving[y] = c
  PROVE  IInv'
<1>1. CASE dying' = dying \cup {x} /\ Pump(w, r, idle, b, s)
  <2>1. TypesSet
    BY <1>1 DEF TypesSet, TypeOK
  <2>2. WorkersSet(r, idle, b, s)
    BY <1>1 DEF WorkersSet, TypeOK
  <2> QED
    BY <1>1, <2>1, <2>2, PumpKeepsInvariant
<1>2. CASE ~closed /\ UNCHANGED dying /\ Pump(w, r, idle \cup {x}, b, s)
  <2>1. TypesSet
    BY <1>2 DEF TypesSet, TypeOK
  <2>2. WorkersSet(r, idle \cup {x}, b, s)
    BY <1>2 DEF WorkersSet, TypeOK
  <2> QED
    BY <1>2, <2>1, <2>2, PumpKeepsInvariant
<1> QED
  BY <1>1, <1>2 DEF Release

LEMMA SpawnedIInv ==
  ASSUME IInv, NEW c \in Calls, NEW x \in Workers, Spawned(c, x)
  PROVE  IInv'
<1>1. /\ c \in spawning /\ x \notin idle \cup busy \cup dying
      /\ UNCHANGED <<callVars, size, closed>>
  BY DEF Spawned
<1>2. CASE Settled(c) \/ closed
  <2>1. Release(x, waiting, running, busy, spawning \ {c})
    BY <1>2 DEF Spawned
  <2>2. c \notin running
    BY <1>2, IInvParts DEF Settled
  <2>3. QueueSet(waiting, running, spawning \ {c})
    BY <1>1, IInvParts DEF QueueSet, callVars, TypeOK
  <2>4. running \ (spawning \ {c}) = running \ spawning
    BY <2>2
  <2> QED
    BY <1>1, <2>1, <2>3, <2>4, IInvParts, ReleaseKeepsInvariant DEF callVars, TypeOK
<1>3. CASE ~(Settled(c) \/ closed)
  <2>1. /\ busy' = busy \cup {x} /\ serving' = [serving EXCEPT ![x] = c]
        /\ spawning' = spawning \ {c}
        /\ UNCHANGED <<waiting, running, idle, dying>>
    BY <1>3 DEF Spawned
  <2>2. c \in running
    BY <1>1, <1>3, IInvParts DEF Settled
  <2>3. serving'[x] = c /\ \A y \in busy : serving'[y] = serving[y] /\ serving[y] # c
    BY <1>1, <2>1, IInvParts DEF TypeOK
  <2>4. TypeOK'
    BY <1>1, <2>1, IInvParts DEF TypeOK, callVars
  <2>5. UnansweredIsHeld' /\ LaneOrder'
    BY <1>1, <2>1 DEF callVars, IInv, UnansweredIsHeld, LaneOrder, Settled
  <2>6. RunningHasOneWorker'
    <3>1. \A y \in busy' : serving'[y] \in running' \ spawning'
      BY <2>1, <2>2, <2>3, IInvParts
    <3>2. \A y, z \in busy' : serving'[y] = serving'[z] => y = z
      BY <2>1, <2>3, IInvParts
    <3>3. ASSUME NEW d \in running' \ spawning' PROVE \E y \in busy' : serving'[y] = d
      BY <2>1, <2>3, IInvParts
    <3> QED
      BY <3>1, <3>2, <3>3 DEF RunningHasOneWorker
  <2>7. WorkersKeptApart'
    BY <1>1, <2>1, IInvParts DEF WorkersKeptApart, TypeOK
  <2>8. OnlyMadeCalls' /\ StartedWasReady' /\ ClosedHoldsNothing'
    BY <1>1, <1>3, <2>1
       DEF callVars, IInv, OnlyMadeCalls, StartedWasReady, ClosedHoldsNothing, Settled
  <2> QED
    BY <2>4, <2>5, <2>6, <2>7, <2>8 DEF IInv
<1> QED
  BY <1>2, <1>3

LEMMA SpawnFailedIInv ==
  ASSUME IInv, NEW c \in Calls, SpawnFailed(c)
  PROVE  IInv'
<1>1. /\ c \in spawning /\ Answer({c}, "failed")
      /\ UNCHANGED <<called, lane, preparing, ready, size, closed, dying>>
      /\ Pump(waiting, running \ {c}, idle, busy, spawning \ {c})
  BY DEF SpawnFailed
<1>2. /\ outcome' \in [Calls -> Outcomes]
      /\ \A d \in Calls : outcome'[d] = IF d = c /\ ~Settled(d) THEN "failed" ELSE outcome[d]
  BY <1>1, IInvParts, AnswerType DEF Outcomes
<1>3. TypesSet
  BY <1>1, <1>2, IInvParts DEF TypesSet, TypeOK
<1>4. waiting \cup (running \ {c}) = {d \in 1..called' : outcome'[d] = "none"}
  BY <1>1, <1>2, IInvParts DEF Settled
<1>5. \A d \in Calls : d > called' => outcome'[d] = "none"
  BY <1>1, <1>2, IInvParts DEF Calls, TypeOK
<1>6. QueueSet(waiting, running \ {c}, spawning \ {c})
  BY <1>1, <1>4, <1>5, IInvParts DEF QueueSet, TypeOK
<1>7. WorkersSet(running \ {c}, idle, busy, spawning \ {c})
  BY <1>1, IInvParts DEF WorkersSet, TypeOK
<1> QED
  BY <1>1, <1>3, <1>6, <1>7, IInvParts, PumpKeepsInvariant

LEMMA ReplyIInv ==
  ASSUME IInv, NEW x \in Workers, Reply(x)
  PROVE  IInv'
<1> DEFINE c == serving[x]
<1>1. /\ x \in busy /\ Answer({c}, "completed")
      /\ UNCHANGED <<called, lane, preparing, ready, size, closed>>
      /\ Release(x, waiting, running \ {c}, busy \ {x}, spawning)
  BY DEF Reply
<1>2. c \in running \ spawning /\ c \in Calls
  BY <1>1, IInvParts
<1>3. /\ outcome' \in [Calls -> Outcomes]
      /\ \A d \in Calls : outcome'[d] = IF d = c /\ ~Settled(d) THEN "completed" ELSE outcome[d]
  BY <1>1, IInvParts, AnswerType DEF Outcomes
<1>4. waiting \cup (running \ {c}) = {d \in 1..called' : outcome'[d] = "none"}
  BY <1>1, <1>2, <1>3, IInvParts DEF Settled
<1>5. \A d \in Calls : d > called' => outcome'[d] = "none"
  BY <1>1, <1>2, <1>3, IInvParts DEF Calls, TypeOK
<1>6. QueueSet(waiting, running \ {c}, spawning)
  BY <1>1, <1>4, <1>5, IInvParts DEF QueueSet, TypeOK
<1>7. /\ \A y \in busy \ {x} : serving[y] \in (running \ {c}) \ spawning
      /\ \A d \in (running \ {c}) \ spawning : \E y \in busy \ {x} : serving[y] = d
  BY <1>1, IInvParts
<1>8. x \notin idle \cup (busy \ {x}) \cup dying
  BY <1>1, IInvParts
<1> HIDE DEF c
<1> QED
  BY <1>1, <1>3, <1>6, <1>7, <1>8, IInvParts, ReleaseKeepsInvariant DEF TypeOK

LEMMA StopIInv ==
  ASSUME IInv, NEW c \in Calls, Stop(c)
  PROVE  IInv'
<1> DEFINE abandoned == {x \in busy : serving[x] = c}
<1>1. /\ c <= called /\ ~Settled(c) /\ Answer({c}, "canceled")
      /\ dying' = dying \cup abandoned
      /\ UNCHANGED <<called, lane, preparing, ready, size, closed>>
      /\ Pump(waiting \ {c}, running \ {c}, idle, busy \ abandoned, spawning)
  BY DEF Stop
<1>2. /\ outcome' \in [Calls -> Outcomes]
      /\ \A d \in Calls : outcome'[d] = IF d = c /\ ~Settled(d) THEN "canceled" ELSE outcome[d]
  BY <1>1, IInvParts, AnswerType DEF Outcomes
<1>3. TypesSet
  BY <1>1, <1>2, IInvParts DEF TypesSet, TypeOK
<1>4. (waiting \ {c}) \cup (running \ {c}) = {d \in 1..called' : outcome'[d] = "none"}
  BY <1>1, <1>2, IInvParts DEF Settled
<1>5. \A d \in Calls : d > called' => outcome'[d] = "none"
  BY <1>1, <1>2, IInvParts DEF Calls, TypeOK
<1>6. QueueSet(waiting \ {c}, running \ {c}, spawning)
  BY <1>1, <1>4, <1>5, IInvParts DEF QueueSet, TypeOK
<1>7. WorkersSet(running \ {c}, idle, busy \ abandoned, spawning)
  BY <1>1, IInvParts DEF WorkersSet, TypeOK
<1> QED
  BY <1>1, <1>3, <1>6, <1>7, IInvParts, PumpKeepsInvariant

LEMMA ResizeIInv ==
  ASSUME IInv, NEW n \in Sizes, Resize(n)
  PROVE  IInv'
<1>1. size' = n /\ UNCHANGED <<callVars, closed>>
  BY DEF Resize
<1>2. PICK drop \in SUBSET idle :
        dying' = dying \cup drop /\ Pump(waiting, running, idle \ drop, busy, spawning)
  BY DEF Resize
<1>3. TypesSet
  BY <1>1, <1>2, IInvParts DEF TypesSet, TypeOK, callVars
<1>4. QueueSet(waiting, running, spawning)
  BY <1>1, IInvParts DEF QueueSet, TypeOK, callVars
<1>5. WorkersSet(running, idle \ drop, busy, spawning)
  BY <1>2, IInvParts DEF WorkersSet, TypeOK
<1> QED
  BY <1>2, <1>3, <1>4, <1>5, IInvParts, PumpKeepsInvariant

LEMMA CloseIInv ==
  ASSUME IInv, Close
  PROVE  IInv'
<1>1. /\ Answer(waiting \cup running, "canceled")
      /\ closed' = TRUE /\ waiting' = {} /\ running' = {}
      /\ dying' = dying \cup idle \cup busy /\ idle' = {} /\ busy' = {}
      /\ UNCHANGED <<called, lane, preparing, ready, spawning, size, serving>>
  BY DEF Close
<1>2. /\ outcome' \in [Calls -> Outcomes]
      /\ \A d \in Calls : outcome'[d] = IF d \in waiting \cup running /\ ~Settled(d)
                                       THEN "canceled" ELSE outcome[d]
  BY <1>1, IInvParts, AnswerType DEF Outcomes
<1>3. TypeOK'
  BY <1>1, <1>2, IInvParts DEF TypeOK
<1>4. \A d \in 1..called : outcome'[d] # "none"
  BY <1>2, IInvParts DEF Settled
<1>5. UnansweredIsHeld' /\ LaneOrder'
  BY <1>1, <1>4 DEF UnansweredIsHeld, LaneOrder, Settled
<1>6. RunningHasOneWorker' /\ ClosedHoldsNothing'
  BY <1>1 DEF RunningHasOneWorker, ClosedHoldsNothing
<1>7. WorkersKeptApart'
  BY <1>1, IInvParts DEF WorkersKeptApart
<1>8. \A d \in Calls : d > called' => outcome'[d] = "none"
  BY <1>1, <1>2, IInvParts DEF Calls, TypeOK
<1>9. OnlyMadeCalls' /\ StartedWasReady'
  BY <1>1, <1>8, IInvParts DEF OnlyMadeCalls, StartedWasReady, Settled
<1> QED
  BY <1>3, <1>5, <1>6, <1>7, <1>9 DEF IInv

LEMMA ExitIInv ==
  ASSUME IInv, NEW x \in Workers, Exit(x)
  PROVE  IInv'
<1>1. /\ x \in dying /\ dying' = dying \ {x}
      /\ serving' = [serving EXCEPT ![x] = NoCall]
      /\ UNCHANGED <<callVars, queueVars, size, closed>>
  BY DEF Exit
<1>2. \A y \in busy : serving'[y] = serving[y]
  BY <1>1, IInvParts DEF TypeOK
<1>3. TypeOK'
  BY <1>1, IInvParts DEF TypeOK, callVars, queueVars
<1>4. /\ UnansweredIsHeld' /\ LaneOrder' /\ OnlyMadeCalls' /\ StartedWasReady'
      /\ ClosedHoldsNothing'
  BY <1>1 DEF IInv, callVars, queueVars, UnansweredIsHeld, LaneOrder, OnlyMadeCalls,
              StartedWasReady, ClosedHoldsNothing, Settled
<1>5. RunningHasOneWorker'
  BY <1>1, <1>2 DEF IInv, RunningHasOneWorker, queueVars
<1>6. WorkersKeptApart'
  BY <1>1, IInvParts DEF WorkersKeptApart, TypeOK, queueVars
<1> QED
  BY <1>3, <1>4, <1>5, <1>6 DEF IInv

LEMMA NextIInv == IInv /\ [Next]_vars => IInv'
<1> SUFFICES ASSUME IInv, [Next]_vars PROVE IInv'
  OBVIOUS
<1>1. CASE UNCHANGED vars
  BY <1>1 DEF vars, callVars, queueVars, IInv, TypeOK, UnansweredIsHeld, LaneOrder,
              RunningHasOneWorker, WorkersKeptApart, OnlyMadeCalls, StartedWasReady,
              ClosedHoldsNothing, Settled
<1>2. CASE Next
  BY <1>2, RunIInv, PreparedIInv, RefuseIInv, SpawnFailedIInv, StopIInv, SpawnedIInv,
     ReplyIInv, ExitIInv, ResizeIInv, CloseIInv DEF Next
<1> QED
  BY <1>1, <1>2

-----------------------------------------------------------------------------
(* The invariant holds throughout (tool_worker_pool.dart, every handler). *)
THEOREM Invariance == Spec => []IInv
<1>1. IInv /\ [Next]_vars => IInv'
  BY NextIInv
<1> QED
  BY InitIInv, <1>1, PTL DEF Spec

(* The fields keep their types. *)
THEOREM TypeCorrect == Spec => []TypeOK
<1>1. IInv => TypeOK
  BY DEF IInv
<1> QED
  BY Invariance, <1>1, PTL

(***************************************************************************)
(* Calls that share a lane are taken one at a time and in the order they   *)
(* were queued, for every interleaving of starts, spawns, replies, stops   *)
(* and resizes.                                                            *)
(***************************************************************************)
THEOREM LanesKeepOrder == Spec => []LaneOrder
<1>1. IInv => LaneOrder
  BY DEF IInv
<1> QED
  BY Invariance, <1>1, PTL

(***************************************************************************)
(* No call is lost unanswered and none holds a place once answered; each   *)
(* running one has one spawn or one worker of its own, so that nothing is  *)
(* ever left running with nobody to answer it, nor a worker held by none.  *)
(***************************************************************************)
THEOREM NoCallOrWorkerLost == Spec => [](UnansweredIsHeld /\ RunningHasOneWorker /\ WorkersKeptApart)
<1>1. IInv => UnansweredIsHeld /\ RunningHasOneWorker /\ WorkersKeptApart
  BY DEF IInv
<1> QED
  BY Invariance, <1>1, PTL

-----------------------------------------------------------------------------
(* The calls started cold are no more than there is room for. *)
LEMMA RankGrows ==
  ASSUME NEW S \in SUBSET Int, IsFiniteSet(S), NEW c \in S, NEW d \in S, c < d
  PROVE  Rank(S, c) \in Nat /\ Rank(S, d) \in Nat /\ Rank(S, c) < Rank(S, d)
<1> DEFINE C == {e \in S : e < c}
           D == {e \in S : e < d}
<1>1. IsFiniteSet(C) /\ IsFiniteSet(D)
  BY FS_Subset
<1>2. Cardinality(C) \in Nat /\ Cardinality(D) \in Nat
  BY <1>1, FS_CardinalityType
<1>3. C \cup {c} \in SUBSET D /\ c \notin C
  <2>1. c \in Int /\ d \in Int
    OBVIOUS
  <2>2. ASSUME NEW e \in S, e < c PROVE e < d
    <3>1. e \in Int
      OBVIOUS
    <3> QED
      BY <2>1, <2>2, <3>1
  <2>3. ~(c < c)
    BY <2>1
  <2> QED
    BY <2>2, <2>3, Zenon
<1>4. Cardinality(C \cup {c}) = Cardinality(C) + 1
  BY <1>1, <1>3, FS_AddElement
<1>5. Cardinality(C \cup {c}) <= Cardinality(D)
  BY <1>1, <1>3, FS_Subset
<1> HIDE DEF C, D
<1>6. Cardinality(C) < Cardinality(D)
  BY <1>2, <1>4, <1>5
<1> QED
  BY <1>2, <1>6 DEF Rank, C, D

LEMMA ColdFitsRoom ==
  ASSUME NEW S \in SUBSET Int, IsFiniteSet(S), NEW n \in Nat, NEW room \in Nat
  PROVE  IsFiniteSet(Cold(S, n, room)) /\ Cardinality(Cold(S, n, room)) <= room
<1> DEFINE K == Cold(S, n, room)
           I == n..(n + room - 1)
           f == [c \in K |-> Rank(S, c)]
<1>1. f \in [K -> I]
  BY DEF Cold
<1>2. \A c, d \in K : f[c] = f[d] => c = d
  <2> SUFFICES ASSUME NEW c \in K, NEW d \in K, c # d PROVE f[c] # f[d]
    OBVIOUS
  <2>1. c \in S /\ d \in S /\ (c < d \/ d < c)
    BY DEF Cold
  <2> QED
    BY <2>1, RankGrows
<1>3. f \in Injection(K, I)
  BY <1>1, <1>2 DEF Injection, IsInjective
<1>4. IsFiniteSet(I) /\ Cardinality(I) = room
  BY FS_Interval
<1> HIDE DEF K, I, f
<1>5. IsFiniteSet(K) /\ Cardinality(K) <= Cardinality(I)
  BY <1>3, <1>4, FS_Injection
<1> QED
  BY <1>4, <1>5 DEF K

LEMMA UnionCounts ==
  ASSUME NEW S, NEW T, IsFiniteSet(S), IsFiniteSet(T)
  PROVE  /\ Cardinality(S \cup T) \in Nat
         /\ Cardinality(S \cup T) <= Cardinality(S) + Cardinality(T)
<1>1. /\ IsFiniteSet(S \cup T)
      /\ Cardinality(S \cup T) = Cardinality(S) + Cardinality(T) - Cardinality(S \cap T)
  BY FS_Union
<1>2. IsFiniteSet(S \cap T)
  BY FS_Intersection
<1>3. /\ Cardinality(S) \in Nat /\ Cardinality(T) \in Nat
      /\ Cardinality(S \cap T) \in Nat /\ Cardinality(S \cup T) \in Nat
  BY <1>1, <1>2, FS_CardinalityType
<1> QED
  BY <1>1, <1>3

(* A pump leaves the pool no larger than it was handed, or within its size. *)
LEMMA PumpFitsSize ==
  ASSUME NEW w \in SUBSET Calls, NEW r, NEW i \in SUBSET Workers, NEW b \in SUBSET Workers,
         NEW s \in SUBSET Calls, size' \in Nat,
         Pump(w, r, i, b, s)
  PROVE  \/ LiveCount(idle, busy, spawning)' <= LiveCount(i, b, s)
         \/ LiveCount(idle, busy, spawning)' <= size'
<1> DEFINE L    == LiveCount(i, b, s)
           S    == IF closed THEN {} ELSE Startable(w, r, ready')
           warm == Warm(S, Cardinality(i))
           cold == Cold(S, Cardinality(i), Over(size', L))
<1>1. IsFiniteSet(Calls) /\ Calls \subseteq Int
  BY NumCallsAssumption, FS_Interval DEF Calls
<1>2. /\ IsFiniteSet(i) /\ IsFiniteSet(b) /\ IsFiniteSet(s)
      /\ S \in SUBSET Int /\ IsFiniteSet(S)
  <2>1. S \in SUBSET Calls
    BY DEF Startable
  <2>2. IsFiniteSet(i) /\ IsFiniteSet(b)
    BY WorkerAssumption, FS_Subset
  <2>3. IsFiniteSet(s)
    BY <1>1, FS_Subset
  <2> HIDE DEF S
  <2>4. IsFiniteSet(S)
    BY <1>1, <2>1, FS_Subset
  <2> QED
    BY <1>1, <2>1, <2>2, <2>3, <2>4
<1>3. /\ Cardinality(i) \in Nat /\ Cardinality(b) \in Nat /\ Cardinality(s) \in Nat
      /\ L \in Nat /\ Over(size', L) \in Nat
      /\ Over(size', L) = IF size' > L THEN size' - L ELSE 0
      /\ L = Cardinality(i) + Cardinality(b) + Cardinality(s)
  BY <1>2, FS_CardinalityType DEF LiveCount, Over
<1> HIDE DEF S, L
<1>4. IsFiniteSet(cold) /\ Cardinality(cold) <= Over(size', L) /\ Cardinality(cold) \in Nat
  BY <1>2, <1>3, ColdFitsRoom, FS_CardinalityType
<1>5. PICK hand \in Injection(warm, i) :
        /\ idle' = i \ Range(hand) /\ busy' = b \cup Range(hand) /\ spawning' = s \cup cold
  BY DEF Pump, S, L
<1> HIDE DEF warm, cold
<1>6. Range(hand) \in SUBSET i
  BY DEF Injection, IsInjective, Range
<1> DEFINE T == Range(hand)
<1> HIDE DEF T
<1>7. IsFiniteSet(T) /\ Cardinality(T) \in Nat
  BY <1>2, <1>6, FS_Subset, FS_CardinalityType DEF T
<1>8. /\ IsFiniteSet(i \ T) /\ Cardinality(i \ T) = Cardinality(i) - Cardinality(T)
  <2>1. i \cap T = T
    BY <1>6 DEF T
  <2> QED
    <3>1. /\ IsFiniteSet(i \ T)
          /\ Cardinality(i \ T) = Cardinality(i) - Cardinality(i \cap T)
      BY <1>2, FS_Difference
    <3> QED
      BY <2>1, <3>1
<1>9. Cardinality(b \cup T) <= Cardinality(b) + Cardinality(T) /\ Cardinality(b \cup T) \in Nat
  BY <1>2, <1>7, UnionCounts
<1>10. Cardinality(s \cup cold) <= Cardinality(s) + Cardinality(cold) /\ Cardinality(s \cup cold) \in Nat
  BY <1>2, <1>4, UnionCounts
<1>11. Cardinality(i \ T) \in Nat
  BY <1>8, FS_CardinalityType
<1>12. LiveCount(idle, busy, spawning)'
         = Cardinality(i \ T) + Cardinality(b \cup T) + Cardinality(s \cup cold)
  BY <1>5 DEF LiveCount, T
<1>13. LiveCount(idle, busy, spawning)' <= L + Cardinality(cold)
  BY <1>3, <1>4, <1>7, <1>8, <1>9, <1>10, <1>11, <1>12
<1>14. LiveCount(idle, busy, spawning)' \in Nat
  BY <1>9, <1>10, <1>11, <1>12
<1> QED
  BY <1>3, <1>4, <1>13, <1>14 DEF L

-----------------------------------------------------------------------------
LEMMA LiveCounts ==
  ASSUME NEW i \in SUBSET Workers, NEW b \in SUBSET Workers, NEW s \in SUBSET Calls
  PROVE  /\ Cardinality(i) \in Nat /\ Cardinality(b) \in Nat /\ Cardinality(s) \in Nat
         /\ IsFiniteSet(i) /\ IsFiniteSet(b) /\ IsFiniteSet(s)
         /\ LiveCount(i, b, s) = Cardinality(i) + Cardinality(b) + Cardinality(s)
         /\ LiveCount(i, b, s) \in Nat
<1>1. IsFiniteSet(Calls)
  BY NumCallsAssumption, FS_Interval DEF Calls
<1>2. IsFiniteSet(i) /\ IsFiniteSet(b) /\ IsFiniteSet(s)
  BY <1>1, WorkerAssumption, FS_Subset
<1>3. Cardinality(i) \in Nat /\ Cardinality(b) \in Nat /\ Cardinality(s) \in Nat
  BY <1>2, FS_CardinalityType
<1> QED
  BY <1>2, <1>3 DEF LiveCount

LEMMA AddingOne ==
  ASSUME NEW S, NEW x, IsFiniteSet(S)
  PROVE  Cardinality(S \cup {x}) <= Cardinality(S) + 1
<1>1. Cardinality(S) \in Nat
  BY FS_CardinalityType
<1>2. Cardinality(S \cup {x}) = IF x \in S THEN Cardinality(S) ELSE Cardinality(S) + 1
  BY FS_AddElement
<1> QED
  BY <1>1, <1>2

(* Taking workers or spawns away makes the pool no larger. *)
LEMMA LiveShrinks ==
  ASSUME TypeOK,
         NEW i \in SUBSET idle, NEW b \in SUBSET busy, NEW s \in SUBSET spawning
  PROVE  LiveCount(i, b, s) <= LiveCount(idle, busy, spawning)
<1>1. /\ idle \in SUBSET Workers /\ busy \in SUBSET Workers /\ spawning \in SUBSET Calls
      /\ i \in SUBSET Workers /\ b \in SUBSET Workers /\ s \in SUBSET Calls
  BY DEF TypeOK
<1>2. /\ IsFiniteSet(idle) /\ IsFiniteSet(busy) /\ IsFiniteSet(spawning)
      /\ Cardinality(idle) \in Nat /\ Cardinality(busy) \in Nat /\ Cardinality(spawning) \in Nat
      /\ LiveCount(idle, busy, spawning)
           = Cardinality(idle) + Cardinality(busy) + Cardinality(spawning)
  BY <1>1, LiveCounts
<1>3. /\ Cardinality(i) \in Nat /\ Cardinality(b) \in Nat /\ Cardinality(s) \in Nat
      /\ LiveCount(i, b, s) = Cardinality(i) + Cardinality(b) + Cardinality(s)
  BY <1>1, LiveCounts
<1>4. Cardinality(i) <= Cardinality(idle)
  BY <1>2, FS_Subset
<1>5. Cardinality(b) <= Cardinality(busy)
  BY <1>2, FS_Subset
<1>6. Cardinality(s) <= Cardinality(spawning)
  BY <1>2, FS_Subset
<1> QED
  BY <1>2, <1>3, <1>4, <1>5, <1>6

(* The step leaves the pool no larger than it was, or within its size. *)
Fits == \/ LiveCount(idle, busy, spawning)' <= LiveCount(idle, busy, spawning)
        \/ LiveCount(idle, busy, spawning)' <= size'

LEMMA LiveIsNat ==
  ASSUME TypeOK, TypeOK'
  PROVE  /\ LiveCount(idle, busy, spawning) \in Nat
         /\ LiveCount(idle, busy, spawning)' \in Nat
         /\ size \in Nat /\ size' \in Nat
<1>1. /\ idle \in SUBSET Workers /\ busy \in SUBSET Workers /\ spawning \in SUBSET Calls
      /\ idle' \in SUBSET Workers /\ busy' \in SUBSET Workers /\ spawning' \in SUBSET Calls
  BY DEF TypeOK
<1>2. LiveCount(idle, busy, spawning) \in Nat
  BY <1>1, LiveCounts
<1>3. LiveCount(idle', busy', spawning') \in Nat
  BY <1>1, LiveCounts
<1>4. size \in Nat /\ size' \in Nat
  BY SizeAssumption DEF TypeOK
<1> QED
  BY <1>2, <1>3, <1>4 DEF LiveCount

LEMMA PumpFits ==
  ASSUME TypeOK, TypeOK',
         NEW w \in SUBSET Calls, NEW r,
         NEW i \in SUBSET idle, NEW b \in SUBSET busy, NEW s \in SUBSET spawning,
         Pump(w, r, i, b, s)
  PROVE  Fits
<1>1. /\ i \in SUBSET Workers /\ b \in SUBSET Workers /\ s \in SUBSET Calls
  BY DEF TypeOK
<1>2. size' \in Nat
  BY LiveIsNat
<1>3. \/ LiveCount(idle, busy, spawning)' <= LiveCount(i, b, s)
      \/ LiveCount(idle, busy, spawning)' <= size'
  BY <1>1, <1>2, PumpFitsSize
<1>4. LiveCount(i, b, s) <= LiveCount(idle, busy, spawning) /\ LiveCount(i, b, s) \in Nat
  BY <1>1, LiveShrinks, LiveCounts
<1> QED
  BY <1>3, <1>4, LiveIsNat DEF Fits

LEMMA ReleaseFits ==
  ASSUME TypeOK, TypeOK', size' = size,
         NEW x \in Workers, NEW w \in SUBSET Calls, NEW r,
         NEW b \in SUBSET busy, NEW s \in SUBSET spawning,
         Release(x, w, r, b, s)
  PROVE  Fits
<1>1. CASE closed \/ LiveCount(idle, b, s) >= size
  <2>1. Pump(w, r, idle, b, s)
    BY <1>1 DEF Release
  <2> QED
    BY <2>1, PumpFits
<1>2. CASE ~(closed \/ LiveCount(idle, b, s) >= size)
  <2>1. Pump(w, r, idle \cup {x}, b, s)
    BY <1>2 DEF Release
  <2>2. /\ idle \in SUBSET Workers /\ idle \cup {x} \in SUBSET Workers
        /\ b \in SUBSET Workers /\ s \in SUBSET Calls
    BY DEF TypeOK
  <2>3. /\ LiveCount(idle, b, s) \in Nat /\ IsFiniteSet(idle)
        /\ LiveCount(idle, b, s) = Cardinality(idle) + Cardinality(b) + Cardinality(s)
        /\ Cardinality(idle) \in Nat /\ Cardinality(b) \in Nat /\ Cardinality(s) \in Nat
    BY <2>2, LiveCounts
  <2>4. /\ LiveCount(idle \cup {x}, b, s) \in Nat /\ Cardinality(idle \cup {x}) \in Nat
        /\ LiveCount(idle \cup {x}, b, s)
             = Cardinality(idle \cup {x}) + Cardinality(b) + Cardinality(s)
    BY <2>2, LiveCounts
  <2>5. Cardinality(idle \cup {x}) <= Cardinality(idle) + 1
    BY <2>3, AddingOne
  <2>6. LiveCount(idle \cup {x}, b, s) <= size'
    BY <1>2, <2>3, <2>4, <2>5, LiveIsNat
  <2>7. \/ LiveCount(idle, busy, spawning)' <= LiveCount(idle \cup {x}, b, s)
        \/ LiveCount(idle, busy, spawning)' <= size'
    BY <2>1, <2>2, LiveIsNat, PumpFitsSize
  <2> QED
    BY <2>4, <2>6, <2>7, LiveIsNat DEF Fits
<1> QED
  BY <1>1, <1>2

LEMMA SpawnedFits ==
  ASSUME TypeOK, TypeOK', NEW c \in Calls, NEW x \in Workers, Spawned(c, x)
  PROVE  Fits
<1>1. c \in spawning /\ UNCHANGED size /\ waiting \in SUBSET Calls
  BY DEF Spawned, TypeOK
<1>2. CASE Settled(c) \/ closed
  <2>1. Release(x, waiting, running, busy, spawning \ {c})
    BY <1>2 DEF Spawned
  <2> QED
    BY <1>1, <2>1, ReleaseFits
<1>3. CASE ~(Settled(c) \/ closed)
  <2>1. UNCHANGED idle /\ busy' = busy \cup {x} /\ spawning' = spawning \ {c}
    BY <1>3 DEF Spawned
  <2>2. /\ idle \in SUBSET Workers /\ busy \in SUBSET Workers /\ spawning \in SUBSET Calls
        /\ busy' \in SUBSET Workers /\ spawning' \in SUBSET Calls
    BY DEF TypeOK
  <2>3. /\ IsFiniteSet(busy) /\ IsFiniteSet(spawning)
        /\ Cardinality(idle) \in Nat /\ Cardinality(busy) \in Nat /\ Cardinality(spawning) \in Nat
    BY <2>2, LiveCounts
  <2>4. Cardinality(busy') \in Nat /\ Cardinality(spawning') \in Nat
    BY <2>2, LiveCounts
  <2>5. Cardinality(busy') <= Cardinality(busy) + 1
    BY <2>1, <2>3, AddingOne
  <2>6. Cardinality(spawning') = Cardinality(spawning) - 1
    BY <1>1, <2>1, <2>3, FS_RemoveElement
  <2> QED
    BY <2>1, <2>3, <2>4, <2>5, <2>6 DEF Fits, LiveCount
<1> QED
  BY <1>2, <1>3

LEMMA NextFits ==
  ASSUME IInv, IInv', [Next]_vars
  PROVE  Fits
<1> USE DEF IInv
<1>1. waiting \in SUBSET Calls
  BY DEF TypeOK
<1>2. ASSUME UNCHANGED <<idle, busy, spawning>> PROVE Fits
  BY <1>2, LiveIsNat DEF Fits, LiveCount
<1>3. ASSUME NEW l \in Lanes \cup {NoLane}, Run(l) PROVE Fits
  BY <1>2, <1>3 DEF Run
<1>4. ASSUME NEW c \in Calls, Prepared(c) PROVE Fits
  BY <1>1, <1>4, PumpFits DEF Prepared
<1>5. ASSUME NEW c \in Calls, Refuse(c) PROVE Fits
  <2>1. CASE Settled(c)
    BY <1>2, <1>5, <2>1 DEF Refuse, queueVars
  <2>2. CASE ~Settled(c)
    <3>1. waiting \ {c} \in SUBSET Calls /\ Pump(waiting \ {c}, running, idle, busy, spawning)
      BY <1>1, <1>5, <2>2 DEF Refuse
    <3> QED
      BY <3>1, PumpFits
  <2> QED
    BY <2>1, <2>2
<1>6. ASSUME NEW c \in Calls, SpawnFailed(c) PROVE Fits
  <2>1. Pump(waiting, running \ {c}, idle, busy, spawning \ {c})
    BY <1>6 DEF SpawnFailed
  <2> QED
    BY <1>1, <2>1, PumpFits
<1>7. ASSUME NEW c \in Calls, Stop(c) PROVE Fits
  <2>1. PICK b \in SUBSET busy : Pump(waiting \ {c}, running \ {c}, idle, b, spawning)
    BY <1>7 DEF Stop
  <2>2. waiting \ {c} \in SUBSET Calls
    BY <1>1
  <2> QED
    BY <2>1, <2>2, PumpFits
<1>8. ASSUME NEW c \in Calls, NEW x \in Workers, Spawned(c, x) PROVE Fits
  BY <1>8, SpawnedFits
<1>9. ASSUME NEW x \in Workers, Reply(x) PROVE Fits
  <2>1. /\ Release(x, waiting, running \ {serving[x]}, busy \ {x}, spawning)
        /\ size' = size
    BY <1>9 DEF Reply
  <2> QED
    BY <1>1, <2>1, ReleaseFits
<1>10. ASSUME NEW x \in Workers, Exit(x) PROVE Fits
  BY <1>2, <1>10 DEF Exit, queueVars
<1>11. ASSUME NEW n \in Sizes, Resize(n) PROVE Fits
  <2>1. PICK drop \in SUBSET idle : Pump(waiting, running, idle \ drop, busy, spawning)
    BY <1>11 DEF Resize
  <2> QED
    BY <1>1, <2>1, PumpFits
<1>12. CASE Close
  <2>1. idle' = {} /\ busy' = {} /\ spawning' = spawning
    BY <1>12 DEF Close
  <2>2. LiveCount({}, {}, spawning) <= LiveCount(idle, busy, spawning)
    BY LiveShrinks
  <2> QED
    BY <2>1, <2>2 DEF Fits, LiveCount
<1>13. CASE UNCHANGED vars
  BY <1>2, <1>13 DEF vars, queueVars
<1> QED
  BY <1>3, <1>4, <1>5, <1>6, <1>7, <1>8, <1>9, <1>10, <1>11, <1>12, <1>13 DEF Next

(***************************************************************************)
(* The pool never grows past its size, whatever it was resized from and    *)
(* however many spawns were under way ("which is what size bounds").       *)
(***************************************************************************)
THEOREM PoolGrowsWithinSize == Spec => GrowsWithinSize
<1>1. IInv /\ IInv' /\ [Next]_vars =>
        [LiveCount(idle, busy, spawning)' > LiveCount(idle, busy, spawning)
           => LiveCount(idle, busy, spawning)' <= size']_vars
  <2> SUFFICES ASSUME IInv, IInv', [Next]_vars
               PROVE  LiveCount(idle, busy, spawning)' > LiveCount(idle, busy, spawning)
                        => LiveCount(idle, busy, spawning)' <= size'
    OBVIOUS
  <2> QED
    BY NextFits, LiveIsNat DEF Fits, IInv
<1> QED
  BY <1>1, Invariance, PTL DEF Spec, GrowsWithinSize

-----------------------------------------------------------------------------
(* A pump hands workers to calls of the queue only. *)
LEMMA PumpServesWaiting ==
  ASSUME NEW w \in SUBSET Calls, NEW r \in SUBSET Calls, NEW i \in SUBSET Workers, NEW b, NEW s,
         Pump(w, r, i, b, s), NEW x \in Workers
  PROVE  serving'[x] \in w \cup {serving[x], NoCall}
<1>1. PICK warm \in SUBSET Startable(w, r, ready'), cold \in SUBSET Startable(w, r, ready') :
           \E hand \in Injection(warm, i) : Pumped(w, r, i, b, s, warm, cold, hand)
  BY PumpStarts
<1>2. PICK hand \in Injection(warm, i) : Pumped(w, r, i, b, s, warm, cold, hand)
  BY <1>1
<1>3. serving'[x] = IF x \in Range(hand) THEN CHOOSE c \in warm : hand[c] = x
                    ELSE IF x \in b \cup dying' THEN serving[x]
                    ELSE NoCall
  BY <1>2 DEF Pumped
<1>4. x \in Range(hand) => \E c \in warm : hand[c] = x
  BY DEF Injection, IsInjective, Range
<1>5. warm \subseteq w
  BY DEF Startable
<1> QED
  BY <1>3, <1>4, <1>5

(* What a step may do to the answers and the workers of answered calls. *)
AnswersKept ==
  \A c \in Calls : Settled(c) =>
    /\ outcome'[c] = outcome[c]
    /\ \A x \in Workers : serving'[x] = c => serving[x] = c

LEMMA AnswersKeptBy ==
  ASSUME IInv, NEW w \in SUBSET waiting,
         \A c \in Calls : Settled(c) => outcome'[c] = outcome[c],
         \A x \in Workers : serving'[x] \in w \cup {serving[x], NoCall}
  PROVE  AnswersKept
BY IInvParts DEF AnswersKept, Settled, TypeOK, Calls, NoCall

LEMMA ReleaseServesWaiting ==
  ASSUME TypeOK, NEW x \in Workers, NEW w \in SUBSET Calls, NEW r \in SUBSET Calls,
         NEW b, NEW s, Release(x, w, r, b, s), NEW y \in Workers
  PROVE  serving'[y] \in w \cup {serving[y], NoCall}
<1>1. idle \in SUBSET Workers /\ idle \cup {x} \in SUBSET Workers
  BY DEF TypeOK
<1> QED
  BY <1>1, PumpServesWaiting DEF Release

LEMMA NextKeepsAnswers ==
  ASSUME IInv, [Next]_vars
  PROVE  AnswersKept
<1>1. /\ waiting \in SUBSET Calls /\ running \in SUBSET Calls /\ idle \in SUBSET Workers
      /\ TypeOK
  BY DEF IInv, TypeOK
<1>2. ASSUME NEW S, NEW o \in Outcomes, Answer(S, o)
      PROVE  \A c \in Calls : Settled(c) => outcome'[c] = outcome[c]
  BY <1>1, <1>2, AnswerType
<1>3. ASSUME UNCHANGED serving, \A c \in Calls : Settled(c) => outcome'[c] = outcome[c]
      PROVE  AnswersKept
  BY <1>3 DEF AnswersKept
<1>4. ASSUME NEW l \in Lanes \cup {NoLane}, Run(l) PROVE AnswersKept
  <2>1. UNCHANGED serving /\ (UNCHANGED outcome \/ Answer({called + 1}, "failed"))
    BY <1>4 DEF Run
  <2> QED
    BY <1>2, <1>3, <2>1 DEF Outcomes
<1>5. ASSUME NEW c \in Calls, Prepared(c) PROVE AnswersKept
  <2>1. UNCHANGED outcome /\ Pump(waiting, running, idle, busy, spawning)
    BY <1>5 DEF Prepared
  <2>2. \A x \in Workers : serving'[x] \in waiting \cup {serving[x], NoCall}
    BY <1>1, <2>1, PumpServesWaiting
  <2> QED
    BY <2>1, <2>2, AnswersKeptBy
<1>6. ASSUME NEW c \in Calls, Refuse(c) PROVE AnswersKept
  <2>1. \A d \in Calls : Settled(d) => outcome'[d] = outcome[d]
    BY <1>2, <1>6 DEF Refuse, Outcomes
  <2>2. CASE Settled(c)
    BY <1>3, <1>6, <2>1, <2>2 DEF Refuse
  <2>3. CASE ~Settled(c)
    <3>1. Pump(waiting \ {c}, running, idle, busy, spawning) /\ waiting \ {c} \in SUBSET Calls
      BY <1>1, <1>6, <2>3 DEF Refuse
    <3>2. \A x \in Workers : serving'[x] \in (waiting \ {c}) \cup {serving[x], NoCall}
      BY <1>1, <3>1, PumpServesWaiting
    <3>3. waiting \ {c} \in SUBSET waiting
      OBVIOUS
    <3> QED
      BY <2>1, <3>2, <3>3, AnswersKeptBy
  <2> QED
    BY <2>2, <2>3
<1>7. ASSUME NEW c \in Calls, SpawnFailed(c) PROVE AnswersKept
  <2>1. \A d \in Calls : Settled(d) => outcome'[d] = outcome[d]
    BY <1>2, <1>7 DEF SpawnFailed, Outcomes
  <2>2. /\ Pump(waiting, running \ {c}, idle, busy, spawning \ {c})
        /\ running \ {c} \in SUBSET Calls
    BY <1>1, <1>7 DEF SpawnFailed
  <2>3. \A x \in Workers : serving'[x] \in waiting \cup {serving[x], NoCall}
    BY <1>1, <2>2, PumpServesWaiting
  <2> QED
    BY <2>1, <2>3, AnswersKeptBy
<1>8. ASSUME NEW c \in Calls, Stop(c) PROVE AnswersKept
  <2>1. \A d \in Calls : Settled(d) => outcome'[d] = outcome[d]
    BY <1>2, <1>8 DEF Stop, Outcomes
  <2>2. PICK b \in SUBSET busy : Pump(waiting \ {c}, running \ {c}, idle, b, spawning)
    BY <1>8 DEF Stop
  <2>3. /\ waiting \ {c} \in SUBSET Calls /\ running \ {c} \in SUBSET Calls
        /\ waiting \ {c} \in SUBSET waiting
    BY <1>1
  <2>4. \A x \in Workers : serving'[x] \in (waiting \ {c}) \cup {serving[x], NoCall}
    BY <1>1, <2>2, <2>3, PumpServesWaiting
  <2> QED
    BY <2>1, <2>3, <2>4, AnswersKeptBy
<1>9. ASSUME NEW c \in Calls, NEW x \in Workers, Spawned(c, x) PROVE AnswersKept
  <2>1. UNCHANGED outcome
    BY <1>9 DEF Spawned, callVars
  <2>2. CASE Settled(c) \/ closed
    <3>1. Release(x, waiting, running, busy, spawning \ {c})
      BY <1>9, <2>2 DEF Spawned
    <3>2. \A y \in Workers : serving'[y] \in waiting \cup {serving[y], NoCall}
      BY <1>1, <3>1, ReleaseServesWaiting
    <3> QED
      BY <2>1, <3>2, AnswersKeptBy
  <2>3. CASE ~(Settled(c) \/ closed)
    <3>1. serving' = [serving EXCEPT ![x] = c]
      BY <1>9, <2>3 DEF Spawned
    <3> QED
      BY <1>1, <2>1, <2>3, <3>1 DEF AnswersKept, TypeOK
  <2> QED
    BY <2>2, <2>3
<1>10. ASSUME NEW x \in Workers, Reply(x) PROVE AnswersKept
  <2>1. \A d \in Calls : Settled(d) => outcome'[d] = outcome[d]
    BY <1>2, <1>10 DEF Reply, Outcomes
  <2>2. /\ Release(x, waiting, running \ {serving[x]}, busy \ {x}, spawning)
        /\ running \ {serving[x]} \in SUBSET Calls
    BY <1>1, <1>10 DEF Reply
  <2>3. \A y \in Workers : serving'[y] \in waiting \cup {serving[y], NoCall}
    BY <1>1, <2>2, ReleaseServesWaiting
  <2> QED
    BY <2>1, <2>3, AnswersKeptBy
<1>11. ASSUME NEW x \in Workers, Exit(x) PROVE AnswersKept
  <2>1. UNCHANGED outcome /\ serving' = [serving EXCEPT ![x] = NoCall]
    BY <1>11 DEF Exit, callVars
  <2>2. \A y \in Workers : serving'[y] \in {} \cup {serving[y], NoCall}
    BY <1>1, <2>1 DEF TypeOK
  <2>3. {} \in SUBSET waiting
    OBVIOUS
  <2> QED
    BY <2>1, <2>2, <2>3, AnswersKeptBy
<1>12. ASSUME NEW n \in Sizes, Resize(n) PROVE AnswersKept
  <2>1. PICK drop \in SUBSET idle : Pump(waiting, running, idle \ drop, busy, spawning)
    BY <1>12 DEF Resize
  <2>2. UNCHANGED outcome /\ idle \ drop \in SUBSET Workers
    BY <1>1, <1>12 DEF Resize, callVars
  <2>3. \A x \in Workers : serving'[x] \in waiting \cup {serving[x], NoCall}
    BY <1>1, <2>1, <2>2, PumpServesWaiting
  <2> QED
    BY <2>2, <2>3, AnswersKeptBy
<1>13. CASE Close
  BY <1>2, <1>3, <1>13 DEF Close, Outcomes
<1>14. CASE UNCHANGED vars
  BY <1>3, <1>14 DEF vars, callVars
<1> QED
  BY <1>4, <1>5, <1>6, <1>7, <1>8, <1>9, <1>10, <1>11, <1>12, <1>13, <1>14 DEF Next

(***************************************************************************)
(* An answered call keeps its answer and is never handed to a worker,      *)
(* whatever order its stop, its spawn and its reply come in (_dispatch).   *)
(***************************************************************************)
THEOREM AnswersAreFinal == Spec => AnsweredStaysAnswered
<1>1. IInv /\ [Next]_vars =>
        [\A c \in Calls : Settled(c) =>
           /\ outcome'[c] = outcome[c]
           /\ \A x \in Workers : serving'[x] = c => serving[x] = c]_vars
  BY NextKeepsAnswers DEF AnswersKept
<1> QED
  BY <1>1, Invariance, PTL DEF Spec, AnsweredStaysAnswered

-----------------------------------------------------------------------------
(* The loop of _pump. *)

(* The naturals are well ordered. *)
LEMMA LeastOf ==
  ASSUME NEW T, T \subseteq Nat, T # {}
  PROVE  \E m \in T : \A k \in T : m <= k
<1> DEFINE R == {ss \in Nat \X Nat : ss[1] < ss[2]}
<1>1. IsWellFoundedOn(R, Nat)
  BY NatLessThanWellFounded DEF OpToRel
<1>2. PICK x \in T : \A y \in T : ~ (<<y, x>> \in R)
  <2> HIDE DEF R
  <2> QED
    BY <1>1, WFMin
<1>3. \A y \in T : ~(y < x)
  BY <1>2
<1> QED
  BY <1>3

(* Induction, over a set that need only be told of the numbers up to N. *)
LEMMA UpTo ==
  ASSUME NEW N \in Nat, NEW S, 0 \in S, \A n \in 0..N : n \in S /\ n < N => n + 1 \in S
  PROVE  0..N \subseteq S
<1> SUFFICES ASSUME (0..N) \ S # {} PROVE FALSE
  OBVIOUS
<1>1. PICK m \in (0..N) \ S : \A k \in (0..N) \ S : m <= k
  <2> DEFINE T == (0..N) \ S
  <2>1. T \subseteq Nat /\ T # {}
    OBVIOUS
  <2> HIDE DEF T
  <2>2. \E m \in T : \A k \in T : m <= k
    BY <2>1, LeastOf
  <2> QED
    BY <2>2 DEF T
<1>2. m - 1 \in 0..N /\ m - 1 < N
  BY <1>1
<1>3. m - 1 \in S
  BY <1>1, <1>2
<1>4. (m - 1) + 1 \in S
  BY <1>2, <1>3
<1> QED
  BY <1>1, <1>4

LoopStart(r, numIdle, numLive) ==
  [held |-> {lane[c] : c \in {d \in r : lane[d] # NoLane}},
   idle |-> numIdle, live |-> numLive, warm |-> {}, cold |-> {}, returned |-> FALSE]

(* What the loop carries past a call. *)
Past(w, st, n) == IF n \in w THEN LoopStep(st, n) ELSE st

LoopOf(w, start, f, N) ==
  f = [n \in 0..N |-> IF n = 0 THEN start ELSE Past(w, f[n - 1], n)]

(* A loop over any number of calls has a result. *)
LEMMA LoopEnds ==
  ASSUME NEW w, NEW start, NEW N \in Nat
  PROVE  \E f : LoopOf(w, start, f, N)
<1> DEFINE S == {n \in Nat : \E f : LoopOf(w, start, f, n)}
<1>1. 0 \in S
  <2> DEFINE f == [n \in 0..0 |-> start]
  <2>1. f = [n \in 0..0 |-> IF n = 0 THEN start ELSE Past(w, f[n - 1], n)]
    OBVIOUS
  <2> QED
    BY <2>1 DEF LoopOf
<1>2. ASSUME NEW n \in 0..N, n \in S PROVE n + 1 \in S
  <2>1. PICK f : LoopOf(w, start, f, n)
    BY <1>2
  <2> DEFINE g == [k \in 0..(n + 1) |-> IF k = n + 1 THEN Past(w, f[n], n + 1) ELSE f[k]]
  <2>2. \A k \in 0..n : g[k] = f[k]
    OBVIOUS
  <2>3. \A k \in 0..(n + 1) : g[k] = IF k = 0 THEN start ELSE Past(w, g[k - 1], k)
    <3> TAKE k \in 0..(n + 1)
    <3>1. CASE k = n + 1
      <4>1. g[k] = Past(w, f[n], k) /\ k - 1 = n /\ g[k - 1] = f[n] /\ k # 0
        BY <3>1, <2>2
      <4> HIDE DEF g
      <4> QED
        BY <4>1
    <3>2. CASE k # n + 1 /\ k # 0
      <4>1. k \in 0..n /\ k - 1 \in 0..n
        BY <3>2
      <4>2. f[k] = Past(w, f[k - 1], k)
        BY <2>1, <4>1, <3>2 DEF LoopOf
      <4> QED
        BY <2>2, <4>1, <4>2, <3>2
    <3>3. CASE k = 0
      BY <2>1, <3>3 DEF LoopOf
    <3> QED
      BY <3>1, <3>2, <3>3
  <2>4. LoopOf(w, start, g, n + 1)
    <3>1. g = [k \in 0..(n + 1) |-> g[k]]
      OBVIOUS
    <3> HIDE DEF g
    <3> QED
      BY <2>3, <3>1 DEF LoopOf
  <2> QED
    BY <2>4
<1> HIDE DEF S
<1>3. N \in S
  BY <1>1, <1>2, UpTo
<1> QED
  BY <1>3 DEF S

LEMMA LoopIs ==
  ASSUME NEW w, NEW r, NEW numIdle, NEW numLive
  PROVE  LoopOf(w, LoopStart(r, numIdle, numLive), Loop(w, r, numIdle, numLive), NumCalls)
<1> DEFINE start == LoopStart(r, numIdle, numLive)
           Is(f) == f = [n \in 0..NumCalls |->
                           IF n = 0 THEN start
                           ELSE IF n \in w THEN LoopStep(f[n - 1], n) ELSE f[n - 1]]
<1>1. \A f : LoopOf(w, start, f, NumCalls) <=> Is(f)
  BY DEF LoopOf, Past
<1>2. Loop(w, r, numIdle, numLive) = CHOOSE f : Is(f)
  BY DEF Loop, LoopStart
<1>3. PICK f : LoopOf(w, start, f, NumCalls)
  BY LoopEnds, NumCallsAssumption
<1>4. Is(f)
  BY <1>1, <1>3
<1> HIDE DEF start, Is
<1>5. Is(CHOOSE g : Is(g))
  BY <1>4, Zenon
<1> QED
  BY <1>1, <1>2, <1>5 DEF start

St(h, i, l, W, C, b) ==
  [held |-> h, idle |-> i, live |-> l, warm |-> W, cold |-> C, returned |-> b]

HeldBy(r) == {lane[c] : c \in {d \in r : lane[d] # NoLane}}

Full(numIdle, numLive) == numIdle + Over(size, numLive)

(* What the loop has done past the calls 1..n, k of which could start.     *)
Does(w, r, numIdle, numLive, n, k, st) ==
  LET S == Startable(w, r, ready) IN
  \E h, i, l, W, C, b :
    /\ st = St(h, i, l, W, C, b)
    /\ b \in BOOLEAN
    /\ b <=> k > Full(numIdle, numLive)
    /\ ~b => /\ h = HeldBy(r \cup {c \in w : c <= n})
             /\ i = IF k <= numIdle THEN numIdle - k ELSE 0
             /\ l = IF k <= numIdle THEN numLive ELSE numLive + k - numIdle
    /\ W = {c \in S : c <= n /\ Rank(S, c) < numIdle}
    /\ C = {c \in S : c <= n /\ Rank(S, c) \in numIdle..(Full(numIdle, numLive) - 1)}

Done(w, r, numIdle, numLive, n, st) ==
  Does(w, r, numIdle, numLive, n,
       Cardinality({c \in Startable(w, r, ready) : c <= n}), st)

Claim(h, c) == IF lane[c] = NoLane THEN h ELSE h \cup {lane[c]}

Stepped(h, i, l, W, C, b, c) ==
  IF b THEN St(h, i, l, W, C, b)
  ELSE IF (lane[c] # NoLane /\ lane[c] \in h) \/ c \notin ready
  THEN St(Claim(h, c), i, l, W, C, b)
  ELSE IF i = 0 /\ l >= size THEN St(Claim(h, c), i, l, W, C, TRUE)
  ELSE IF i > 0 THEN St(Claim(h, c), i - 1, l, W \cup {c}, C, b)
  ELSE St(Claim(h, c), i, l + 1, W, C \cup {c}, b)

(* One call, as a change of the fields. *)
LEMMA StepIs ==
  ASSUME NEW h, NEW i, NEW l, NEW W, NEW C, NEW b, NEW c
  PROVE  LoopStep(St(h, i, l, W, C, b), c) = Stepped(h, i, l, W, C, b, c)
<1> DEFINE st == St(h, i, l, W, C, b)
           claim == IF lane[c] = NoLane THEN st.held ELSE st.held \cup {lane[c]}
           cl == [st EXCEPT !.held = claim]
<1>1. /\ st.held = h /\ st.idle = i /\ st.live = l /\ st.warm = W /\ st.cold = C
      /\ st.returned = b
  BY DEF St
<1>2. cl = St(claim, i, l, W, C, b)
  BY DEF St
<1>3. cl.idle = i /\ cl.live = l /\ cl.warm = W /\ cl.cold = C
  BY <1>2 DEF St
<1>4. /\ [cl EXCEPT !.returned = TRUE] = St(claim, i, l, W, C, TRUE)
      /\ [cl EXCEPT !.idle = cl.idle - 1, !.warm = cl.warm \cup {c}]
           = St(claim, i - 1, l, W \cup {c}, C, b)
      /\ [cl EXCEPT !.live = cl.live + 1, !.cold = cl.cold \cup {c}]
           = St(claim, i, l + 1, W, C \cup {c}, b)
  <2> HIDE DEF cl, claim
  <2>1. /\ [St(claim, i, l, W, C, b) EXCEPT !.returned = TRUE] = St(claim, i, l, W, C, TRUE)
        /\ [St(claim, i, l, W, C, b) EXCEPT !.idle = i - 1, !.warm = W \cup {c}]
             = St(claim, i - 1, l, W \cup {c}, C, b)
        /\ [St(claim, i, l, W, C, b) EXCEPT !.live = l + 1, !.cold = C \cup {c}]
             = St(claim, i, l + 1, W, C \cup {c}, b)
    <3>1. [St(claim, i, l, W, C, b) EXCEPT !.returned = TRUE] = St(claim, i, l, W, C, TRUE)
      <4>1. \A x : [St(claim, i, l, W, C, b) EXCEPT !.returned = x] = St(claim, i, l, W, C, x)
        BY DEF St
      <4> QED
        BY <4>1, Zenon
    <3>2. [St(claim, i, l, W, C, b) EXCEPT !.idle = i - 1, !.warm = W \cup {c}]
             = St(claim, i - 1, l, W \cup {c}, C, b)
      <4>1. [St(claim, i, l, W, C, b) EXCEPT !.idle = i - 1] = St(claim, i - 1, l, W, C, b)
        BY DEF St
      <4>2. [St(claim, i - 1, l, W, C, b) EXCEPT !.warm = W \cup {c}]
              = St(claim, i - 1, l, W \cup {c}, C, b)
        BY DEF St
      <4> QED
        BY <4>1, <4>2
    <3>3. [St(claim, i, l, W, C, b) EXCEPT !.live = l + 1, !.cold = C \cup {c}]
             = St(claim, i, l + 1, W, C \cup {c}, b)
      <4>1. [St(claim, i, l, W, C, b) EXCEPT !.live = l + 1] = St(claim, i, l + 1, W, C, b)
        BY DEF St
      <4>2. [St(claim, i, l + 1, W, C, b) EXCEPT !.cold = C \cup {c}]
              = St(claim, i, l + 1, W, C \cup {c}, b)
        BY DEF St
      <4> QED
        BY <4>1, <4>2
    <3> QED
      BY <3>1, <3>2, <3>3
  <2> QED
    BY <1>2, <1>3, <2>1, Zenon
<1>6. LoopStep(st, c) =
        IF st.returned THEN st
        ELSE IF (lane[c] # NoLane /\ lane[c] \in st.held) \/ c \notin ready THEN cl
        ELSE IF st.idle = 0 /\ st.live >= size THEN [cl EXCEPT !.returned = TRUE]
        ELSE IF st.idle > 0
        THEN [cl EXCEPT !.idle = cl.idle - 1, !.warm = cl.warm \cup {c}]
        ELSE [cl EXCEPT !.live = cl.live + 1, !.cold = cl.cold \cup {c}]
  BY DEF LoopStep
<1> HIDE DEF st, cl
<1> QED
  BY <1>1, <1>2, <1>3, <1>4, <1>6 DEF st, Claim, Stepped

LEMMA HeldGrows ==
  ASSUME NEW w \in SUBSET Calls, NEW r \in SUBSET Calls, NEW n \in 0..NumCalls, n < NumCalls
  PROVE  /\ n + 1 \in w =>
              HeldBy(r \cup {c \in w : c <= n + 1})
                = Claim(HeldBy(r \cup {c \in w : c <= n}), n + 1)
         /\ n + 1 \notin w => {c \in w : c <= n + 1} = {c \in w : c <= n}
<1>1. \A c \in w : c <= n + 1 <=> c <= n \/ c = n + 1
  BY NumCallsAssumption DEF Calls
<1>2. {c \in w : c <= n + 1} = {c \in w : c <= n} \cup (w \cap {n + 1})
  BY <1>1
<1> QED
  BY <1>2, Zenon DEF HeldBy, Claim

(* A call that may start finds as many before it as its rank says.         *)
LEMMA MetGrows ==
  ASSUME NEW S \in SUBSET Calls, NEW n \in 0..NumCalls, n < NumCalls
  PROVE  /\ Cardinality({c \in S : c <= n}) \in Nat
         /\ n + 1 \in S =>
              /\ Rank(S, n + 1) = Cardinality({c \in S : c <= n})
              /\ Cardinality({c \in S : c <= n + 1}) = Cardinality({c \in S : c <= n}) + 1
              /\ \A c \in S : c <= n + 1 <=> c <= n \/ c = n + 1
         /\ n + 1 \notin S => {c \in S : c <= n + 1} = {c \in S : c <= n}
<1> DEFINE M == {c \in S : c <= n}
<1>1. \A c \in S : c <= n + 1 <=> c <= n \/ c = n + 1
  BY NumCallsAssumption DEF Calls
<1>2. \A c \in S : c < n + 1 <=> c <= n
  BY NumCallsAssumption DEF Calls
<1>3. {c \in S : c <= n + 1} = M \cup (S \cap {n + 1})
  BY <1>1
<1>4. {c \in S : c < n + 1} = M
  BY <1>2
<1>5. IsFiniteSet(M)
  <2>1. IsFiniteSet(Calls)
    BY FS_Interval, NumCallsAssumption DEF Calls
  <2> QED
    BY <2>1, FS_Subset
<1>6. Cardinality(M) \in Nat
  BY <1>5, FS_CardinalityType
<1>7. n + 1 \notin M
  OBVIOUS
<1> HIDE DEF M
<1>8. Cardinality(M \cup {n + 1}) = Cardinality(M) + 1
  BY <1>5, <1>7, FS_AddElement
<1> QED
  BY <1>1, <1>3, <1>4, <1>6, <1>8 DEF Rank, M

(* Whether a call the loop comes to may start is what the lanes held say.  *)
LEMMA BlockedIsUnstartable ==
  ASSUME NEW w \in SUBSET Calls, NEW r \in SUBSET Calls, NEW n \in 0..NumCalls,
         n < NumCalls, n + 1 \in w
  PROVE  n + 1 \in Startable(w, r, ready) <=>
           ~((lane[n + 1] # NoLane /\ lane[n + 1] \in HeldBy(r \cup {c \in w : c <= n}))
               \/ n + 1 \notin ready)
<1>1. \A e \in w : e < n + 1 <=> e <= n
  BY NumCallsAssumption DEF Calls
<1>2. {e \in w : e < n + 1} = {c \in w : c <= n}
  BY <1>1
<1> QED
  BY <1>2 DEF Startable, HeldBy

LEMMA LoopGoesOn ==
  ASSUME NEW w \in SUBSET Calls, NEW r \in SUBSET Calls, NEW n \in 0..NumCalls,
         n < NumCalls, NEW numLive \in Nat, NEW numIdle \in Nat, size \in Nat,
         NEW st, Done(w, r, numIdle, numLive, n, st)
  PROVE  Done(w, r, numIdle, numLive, n + 1, Past(w, st, n + 1))
<1> DEFINE S == Startable(w, r, ready)
           c == n + 1
           k == Cardinality({d \in S : d <= n})
           full == Full(numIdle, numLive)
<1>0. full \in Nat /\ full = numIdle + (IF size > numLive THEN size - numLive ELSE 0)
  BY DEF Full, Over
<1>1. S \in SUBSET Calls /\ S \subseteq w
  BY DEF Startable
<1>2. k \in Nat
  BY <1>1, MetGrows
<1>3. PICK h, i, l, W, C, b :
        /\ st = St(h, i, l, W, C, b)
        /\ b \in BOOLEAN
        /\ b <=> k > full
        /\ ~b => /\ h = HeldBy(r \cup {d \in w : d <= n})
                 /\ i = IF k <= numIdle THEN numIdle - k ELSE 0
                 /\ l = IF k <= numIdle THEN numLive ELSE numLive + k - numIdle
        /\ W = {d \in S : d <= n /\ Rank(S, d) < numIdle}
        /\ C = {d \in S : d <= n /\ Rank(S, d) \in numIdle..(full - 1)}
  BY DEF Done, Does
<1>4. ASSUME c \notin w PROVE Done(w, r, numIdle, numLive, c, Past(w, st, c))
  <2>1. {d \in S : d <= c} = {d \in S : d <= n} /\ {d \in w : d <= c} = {d \in w : d <= n}
    BY <1>1, <1>4, MetGrows, HeldGrows
  <2>2. \A d \in S : d <= c <=> d <= n
    BY <2>1
  <2> QED
    BY <1>3, <1>4, <2>1, <2>2, ZenonT(60) DEF Done, Does, Past
<1> DEFINE claimed == Claim(h, c)
           Doing(hh, ii, ll, WW, CC, bb, kk) ==
             /\ bb <=> kk > full
             /\ ~bb => /\ hh = HeldBy(r \cup {d \in w : d <= c})
                       /\ ii = IF kk <= numIdle THEN numIdle - kk ELSE 0
                       /\ ll = IF kk <= numIdle THEN numLive ELSE numLive + kk - numIdle
             /\ WW = {d \in S : d <= c /\ Rank(S, d) < numIdle}
             /\ CC = {d \in S : d <= c /\ Rank(S, d) \in numIdle..(full - 1)}
<1>5. ASSUME NEW hh, NEW ii, NEW ll, NEW WW, NEW CC, NEW bb \in BOOLEAN, c \in w,
             LoopStep(st, c) = St(hh, ii, ll, WW, CC, bb),
             Doing(hh, ii, ll, WW, CC, bb, Cardinality({d \in S : d <= c}))
      PROVE  Done(w, r, numIdle, numLive, c, Past(w, st, c))
  BY <1>5 DEF Done, Does, Past
<1>6. ASSUME c \in w PROVE Done(w, r, numIdle, numLive, c, Past(w, st, c))
  <2>1. LoopStep(st, c) =
           IF b THEN St(h, i, l, W, C, b)
           ELSE IF (lane[c] # NoLane /\ lane[c] \in h) \/ c \notin ready
           THEN St(claimed, i, l, W, C, b)
           ELSE IF i = 0 /\ l >= size THEN St(claimed, i, l, W, C, TRUE)
           ELSE IF i > 0 THEN St(claimed, i - 1, l, W \cup {c}, C, b)
           ELSE St(claimed, i, l + 1, W, C \cup {c}, b)
    <3>1. st = St(h, i, l, W, C, b)
      BY <1>3
    <3>2. LoopStep(St(h, i, l, W, C, b), c) = Stepped(h, i, l, W, C, b, c)
      BY StepIs, Zenon
    <3> QED
      BY <3>1, <3>2, Zenon DEF Stepped
  <2>2. /\ c \in S =>
              /\ Rank(S, c) = k
              /\ Cardinality({d \in S : d <= c}) = k + 1
              /\ \A d \in S : d <= c <=> d <= n \/ d = c
        /\ c \notin S => {d \in S : d <= c} = {d \in S : d <= n}
    BY <1>1, MetGrows
  <2>3. ~b => claimed = HeldBy(r \cup {d \in w : d <= c})
    <3> SUFFICES ASSUME ~b PROVE claimed = HeldBy(r \cup {d \in w : d <= c})
      OBVIOUS
    <3>1. h = HeldBy(r \cup {d \in w : d <= n})
      BY <1>3
    <3>2. HeldBy(r \cup {d \in w : d <= c}) = Claim(HeldBy(r \cup {d \in w : d <= n}), c)
      <4>1. n + 1 \in w
        BY <1>6
      <4> QED
        BY <4>1, HeldGrows, ZenonT(60)
    <3> QED
      BY <3>1, <3>2, Zenon
  <2>4. ~b => (c \in S <=> ~((lane[c] # NoLane /\ lane[c] \in h) \/ c \notin ready))
    BY <1>3, <1>6, BlockedIsUnstartable
  <2>5. c <= c /\ ~(c <= n)
    OBVIOUS
  <2> HIDE DEF S, c, claimed, full
  <2>6. CASE c \notin S
    <3>1. \A d \in S : d <= c <=> d <= n
      BY <2>2, <2>6
    <3>2. CASE b
      BY <1>3, <1>5, <1>6, <2>1, <2>2, <2>6, <3>1, <3>2
    <3>3. CASE ~b
      BY <1>3, <1>5, <1>6, <2>1, <2>2, <2>3, <2>4, <2>6, <3>1, <3>3
    <3> QED
      BY <3>2, <3>3
  <2>7. CASE c \in S
    <3> DEFINE Ws(m) == {d \in S : d <= m /\ Rank(S, d) < numIdle}
               Cs(m) == {d \in S : d <= m /\ Rank(S, d) \in numIdle..(full - 1)}
               kk == Cardinality({d \in S : d <= c})
    <3>1. Rank(S, c) = k /\ kk = k + 1
      BY <2>2, <2>7
    <3>2. \A d \in S : d <= c <=> d <= n \/ d = c
      BY <2>2, <2>7
    <3>3. /\ k >= numIdle => Ws(c) = Ws(n)
          /\ k < numIdle => Ws(c) = Ws(n) \cup {c}
      BY <1>2, <2>7, <3>1, <3>2
    <3>4. /\ k < numIdle \/ k >= full => Cs(c) = Cs(n)
          /\ k >= numIdle /\ k < full => Cs(c) = Cs(n) \cup {c}
      BY <1>0, <1>2, <2>7, <3>1, <3>2
    <3>5. W = Ws(n) /\ C = Cs(n)
      BY <1>3
    <3> HIDE DEF Ws, Cs, kk, k
    <3>6. CASE b
      <4>1. k > full /\ kk > full
        BY <1>0, <1>2, <1>3, <3>1, <3>6
      <4>2. W = Ws(c) /\ C = Cs(c)
        BY <1>0, <1>2, <3>3, <3>4, <3>5, <4>1
      <4>3. Doing(h, i, l, W, C, b, kk)
        BY <3>6, <4>1, <4>2 DEF Ws, Cs
      <4>4. LoopStep(st, c) = St(h, i, l, W, C, b)
        BY <2>1, <3>6
      <4> QED
        BY <1>3, <1>5, <1>6, <4>3, <4>4 DEF kk
    <3>7. CASE ~b
      <4>1. /\ ~(k > full)
            /\ i = IF k <= numIdle THEN numIdle - k ELSE 0
            /\ l = IF k <= numIdle THEN numLive ELSE numLive + k - numIdle
        BY <1>3, <3>7
      <4>2. claimed = HeldBy(r \cup {d \in w : d <= c})
        BY <2>3, <3>7
      <4>3. LoopStep(st, c) =
               IF i = 0 /\ l >= size THEN St(claimed, i, l, W, C, TRUE)
               ELSE IF i > 0 THEN St(claimed, i - 1, l, W \cup {c}, C, b)
               ELSE St(claimed, i, l + 1, W, C \cup {c}, b)
        BY <2>1, <2>4, <2>7, <3>7
      <4>4. CASE i = 0 /\ l >= size
        <5>1. k >= numIdle /\ k >= full /\ kk > full
          BY <1>0, <1>2, <3>1, <4>1, <4>4
        <5>2. W = Ws(c) /\ C = Cs(c)
          BY <3>3, <3>4, <3>5, <5>1
        <5>3. Doing(claimed, i, l, W, C, TRUE, kk)
          BY <5>1, <5>2 DEF Ws, Cs
        <5>4. LoopStep(st, c) = St(claimed, i, l, W, C, TRUE)
          BY <4>3, <4>4
        <5> QED
          BY <1>5, <1>6, <5>3, <5>4 DEF kk
      <4>5. CASE i > 0
        <5>1. /\ k < numIdle /\ ~(kk > full) /\ l = numLive /\ kk <= numIdle
              /\ i - 1 = numIdle - kk
          BY <1>0, <1>2, <3>1, <4>1, <4>5
        <5>2. W \cup {c} = Ws(c) /\ C = Cs(c)
          BY <3>3, <3>4, <3>5, <5>1
        <5>3. Doing(claimed, i - 1, l, W \cup {c}, C, b, kk)
          <6>1. i - 1 = IF kk <= numIdle THEN numIdle - kk ELSE 0
            BY <5>1
          <6>2. l = IF kk <= numIdle THEN numLive ELSE numLive + kk - numIdle
            BY <5>1
          <6> QED
            BY <3>7, <4>2, <5>1, <5>2, <6>1, <6>2 DEF Ws, Cs
        <5>4. LoopStep(st, c) = St(claimed, i - 1, l, W \cup {c}, C, b)
          <6>1. ~(i = 0 /\ l >= size)
            BY <4>5
          <6> QED
            BY <4>3, <4>5, <6>1
        <5> QED
          BY <1>3, <1>5, <1>6, <5>3, <5>4 DEF kk
      <4>6. CASE ~(i > 0) /\ ~(i = 0 /\ l >= size)
        <5>1. /\ k >= numIdle /\ k < full /\ ~(kk > full)
              /\ i = 0 /\ ~(kk <= numIdle) /\ l + 1 = numLive + kk - numIdle
          BY <1>0, <1>2, <3>1, <4>1, <4>6
        <5>2. W = Ws(c) /\ C \cup {c} = Cs(c)
          BY <3>3, <3>4, <3>5, <5>1
        <5>3. Doing(claimed, i, l + 1, W, C \cup {c}, b, kk)
          <6>1. i = IF kk <= numIdle THEN numIdle - kk ELSE 0
            BY <5>1
          <6>2. l + 1 = IF kk <= numIdle THEN numLive ELSE numLive + kk - numIdle
            BY <5>1
          <6> QED
            BY <3>7, <4>2, <5>1, <5>2, <6>1, <6>2 DEF Ws, Cs
        <5>4. LoopStep(st, c) = St(claimed, i, l + 1, W, C \cup {c}, b)
          BY <4>3, <4>6
        <5> QED
          BY <1>3, <1>5, <1>6, <5>3, <5>4 DEF kk
      <4> QED
        BY <4>4, <4>5, <4>6
    <3> QED
      BY <3>6, <3>7
  <2> QED
    BY <2>6, <2>7
<1> QED
  BY <1>4, <1>6

LEMMA LoopBegins ==
  ASSUME NEW w \in SUBSET Calls, NEW r \in SUBSET Calls,
         NEW numLive \in Nat, NEW numIdle \in Nat, size \in Nat
  PROVE  Done(w, r, numIdle, numLive, 0, LoopStart(r, numIdle, numLive))
<1> DEFINE S == Startable(w, r, ready)
<1>1. \A c \in w : ~(c <= 0)
  BY DEF Calls
<1>2. S \subseteq w
  BY DEF Startable
<1>3. {c \in S : c <= 0} = {} /\ {c \in w : c <= 0} = {}
  BY <1>1, <1>2
<1>4. Cardinality({c \in S : c <= 0}) = 0
  BY <1>3, FS_EmptySet
<1>5. LoopStart(r, numIdle, numLive) = St(HeldBy(r), numIdle, numLive, {}, {}, FALSE)
  BY DEF LoopStart, St, HeldBy
<1>6. Full(numIdle, numLive) \in Nat
  BY DEF Full, Over
<1>7. r \cup {c \in w : c <= 0} = r
  BY <1>3
<1> HIDE DEF S
<1>8. Does(w, r, numIdle, numLive, 0, 0, St(HeldBy(r), numIdle, numLive, {}, {}, FALSE))
  <2>1. {c \in S : c <= 0 /\ Rank(S, c) < numIdle} = {}
    BY <1>3
  <2>2. {c \in S : c <= 0 /\ Rank(S, c) \in numIdle..(Full(numIdle, numLive) - 1)} = {}
    BY <1>3
  <2> QED
    <3>1. ~(0 > Full(numIdle, numLive)) /\ 0 <= numIdle /\ numIdle - 0 = numIdle
      BY <1>6
    <3> QED
      BY <1>7, <2>1, <2>2, <3>1 DEF Does, S
<1> QED
  BY <1>4, <1>5, <1>8 DEF Done, S

(* At its end the loop has started what Pump starts. *)
LEMMA LoopDoes ==
  ASSUME NEW w \in SUBSET Calls, NEW r \in SUBSET Calls,
         NEW numLive \in Nat, NEW numIdle \in Nat, size \in Nat
  PROVE  LET S == Startable(w, r, ready) IN
         /\ PumpLoop(w, r, numIdle, numLive).warm = Warm(S, numIdle)
         /\ PumpLoop(w, r, numIdle, numLive).cold = Cold(S, numIdle, Over(size, numLive))
<1> DEFINE f == Loop(w, r, numIdle, numLive)
           S == Startable(w, r, ready)
           T == {n \in 0..NumCalls : Done(w, r, numIdle, numLive, n, f[n])}
<1>0. NumCalls \in Nat
  BY NumCallsAssumption
<1>1. /\ f[0] = LoopStart(r, numIdle, numLive)
      /\ \A n \in 0..NumCalls : n < NumCalls => f[n + 1] = Past(w, f[n], n + 1)
  <2>1. LoopOf(w, LoopStart(r, numIdle, numLive), f, NumCalls)
    BY LoopIs
  <2> HIDE DEF f
  <2>2. \A n \in 0..NumCalls :
          f[n] = IF n = 0 THEN LoopStart(r, numIdle, numLive) ELSE Past(w, f[n - 1], n)
    BY <2>1 DEF LoopOf
  <2>3. f[0] = LoopStart(r, numIdle, numLive)
    BY <1>0, <2>2
  <2>4. ASSUME NEW n \in 0..NumCalls, n < NumCalls PROVE f[n + 1] = Past(w, f[n], n + 1)
    <3>1. n + 1 \in 0..NumCalls /\ n + 1 # 0 /\ (n + 1) - 1 = n
      BY <1>0, <2>4
    <3> QED
      BY <2>2, <3>1
  <2> QED
    BY <2>3, <2>4
<1>2. 0 \in T
  BY <1>0, <1>1, LoopBegins
<1>3. \A n \in 0..NumCalls : n \in T /\ n < NumCalls => n + 1 \in T
  BY <1>0, <1>1, LoopGoesOn
<1>4. NumCalls \in T
  <2> HIDE DEF T
  <2> QED
    BY <1>0, <1>2, <1>3, UpTo
<1>5. Done(w, r, numIdle, numLive, NumCalls, f[NumCalls])
  BY <1>4
<1>6. \A c \in S : c <= NumCalls
  BY DEF Startable, Calls
<1> HIDE DEF f
<1>7. /\ f[NumCalls].warm = {c \in S : Rank(S, c) < numIdle}
      /\ f[NumCalls].cold = {c \in S : Rank(S, c) \in numIdle..(Full(numIdle, numLive) - 1)}
  <2> HIDE DEF S
  <2> QED
    BY <1>5, <1>6 DEF Done, Does, St, S
<1> QED
  <2>1. PumpLoop(w, r, numIdle, numLive) = f[NumCalls]
    BY DEF PumpLoop, f
  <2>2. QED
    <3> HIDE DEF T, S
    <3>1. f[NumCalls].warm = Warm(S, numIdle)
      BY <1>7, Zenon DEF Warm
    <3>2. Cold(S, numIdle, Over(size, numLive))
            = {c \in S : Rank(S, c) \in numIdle..(Full(numIdle, numLive) - 1)}
      <4>1. /\ Full(numIdle, numLive) = numIdle + Over(size, numLive)
            /\ Over(size, numLive) \in Nat
        BY DEF Full, Over
      <4>2. Full(numIdle, numLive) - 1 = numIdle + Over(size, numLive) - 1
        BY <4>1
      <4> QED
        BY <4>2, Zenon DEF Cold
    <3> QED
      BY <1>7, <2>1, <3>1, <3>2, Zenon DEF S

(***************************************************************************)
(* The loop of _pump, as it is written, starts the calls that Pump says,   *)
(* with a warm worker or a spawn as Pump says, for every queue, set of     *)
(* lanes, size and number of workers, and whichever running call has just  *)
(* ended.  By induction over the calls it comes past.                      *)
(***************************************************************************)
THEOREM LoopIsPump == Spec => []LoopStartsWhatPumpStarts
<1>1. IInv => LoopStartsWhatPumpStarts
  <2> SUFFICES ASSUME IInv,
                      NEW r \in {running} \cup {running \ {c} : c \in running},
                      NEW numLive \in 0..(Cardinality(Workers) + NumCalls),
                      NEW numIdle \in 0..numLive
               PROVE  LET loop == PumpLoop(waiting, r, numIdle, numLive)
                          S    == Startable(waiting, r, ready)
                      IN  /\ loop.warm = Warm(S, numIdle)
                          /\ loop.cold = Cold(S, numIdle, Over(size, numLive))
    BY DEF LoopStartsWhatPumpStarts
  <2>1. waiting \in SUBSET Calls /\ running \in SUBSET Calls /\ size \in Nat
    BY SizeAssumption DEF IInv, TypeOK
  <2>2. r \in SUBSET Calls
    BY <2>1
  <2>3. numLive \in Nat /\ numIdle \in Nat
    OBVIOUS
  <2> QED
    BY <2>1, <2>2, <2>3, LoopDoes
<1> QED
  BY Invariance, <1>1, PTL
=============================================================================
