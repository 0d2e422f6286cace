------------------------------ MODULE ToolPool ------------------------------
(***************************************************************************)
(* ToolWorkerPool: the bounded set of worker isolates that run the utility *)
(* tools, with a queue in front.  Everything but the isolates themselves   *)
(* runs on one event loop, so a handler runs to its end without           *)
(* interleaving: every action below is one whole handler, the _pump it     *)
(* ends with included.                                                     *)
(*                                                                         *)
(* A call is named by its place in the order of the calls of run(), which  *)
(* is the order of the Dart queue; "earlier in the queue" is "<".          *)
(* A worker is a name for a live isolate; a name returns to the stock when *)
(* its isolate is gone.                                                    *)
(***************************************************************************)
EXTENDS Integers, FiniteSets, Functions

CONSTANTS NumCalls,  \* how many calls of run() are made
          Lanes,     \* the lanes a call may ask for: files, in the program
          NoLane,    \* a call without a lane
          Workers,   \* names for worker isolates
          Sizes      \* the sizes the setting offers

NoCall == 0
Calls  == 1..NumCalls

ASSUME NumCallsAssumption == NumCalls \in Nat
ASSUME LaneAssumption     == NoLane \notin Lanes
ASSUME WorkerAssumption   == IsFiniteSet(Workers)
ASSUME SizeAssumption     == Sizes \subseteq Nat \ {0} /\ Sizes # {}

Outcomes == {"none", "completed", "failed", "canceled"}

VARIABLES
  called,     \* how many times run() has been called
  lane,       \* _PendingCall.lane
  preparing,  \* calls whose `start` future has not resolved
  ready,      \* calls whose `request` is set
  outcome,    \* the outcome of each call's job; "none" until it settles
  waiting,    \* _waiting
  running,    \* _running
  idle,       \* _idle; which warm worker is taken first does not matter
  busy,       \* _busy
  spawning,   \* the calls a spawn is under way for; _spawning counts them
  size,       \* _size
  closed,     \* _closed
  serving,    \* the call each isolate is executing
  dying       \* workers told to terminate whose isolate is not gone yet

callVars   == <<called, lane, preparing, ready, outcome>>
queueVars  == <<waiting, running, idle, busy, spawning>>
vars == <<callVars, queueVars, size, closed, serving, dying>>

Settled(c) == outcome[c] # "none"

(***************************************************************************)
(* _liveCount: "workers alive or on their way, which is what size bounds". *)
(***************************************************************************)
LiveCount(i, b, s) == Cardinality(i) + Cardinality(b) + Cardinality(s)

(* Mutated form of Startable: a call waits only for the calls running in   *)
(* its lane, and overtakes those that were queued before it.               *)
StartableOvertaking(w, r, prepared) ==
  {c \in w : /\ c \in prepared
             /\ lane[c] # NoLane => \A d \in r : lane[d] # lane[c]}

(***************************************************************************)
(* The calls of the queue w that _pump may start when the calls in r are   *)
(* running: ready, and of a lane no running call holds and no earlier call *)
(* of the queue has claimed, whether or not that one can start itself.     *)
(***************************************************************************)
Startable(w, r, prepared) ==
  {c \in w : /\ c \in prepared
             /\ lane[c] # NoLane =>
                  \A d \in r \cup {e \in w : e < c} : lane[d] # lane[c]}

(* How many calls of S come before c. *)
Rank(S, c) == Cardinality({d \in S : d < c})

(* How far m is above n. *)
Over(m, n) == IF m > n THEN m - n ELSE 0

(***************************************************************************)
(* _pump with the queue and the workers left as the handler made them.     *)
(* The first calls in order get the warm workers, the next ones a spawn    *)
(* each while there is room, and the loop returns at the first call it has *)
(* neither for.  Loop below is the loop as it is written.                  *)
(***************************************************************************)
Warm(S, warmCount) == {c \in S : Rank(S, c) < warmCount}

(* Mutated form of Cold: ">" for ">=" in the loop's test for room. *)
ColdOneMore(S, warmCount, room) ==
  {c \in S : Rank(S, c) \in warmCount..(warmCount + room)}

Cold(S, warmCount, room) == {c \in S : Rank(S, c) \in warmCount..(warmCount + room - 1)}

Pump(w, r, i, b, s) ==
  LET S    == IF closed THEN {} ELSE Startable(w, r, ready')
      warm == Warm(S, Cardinality(i))
      cold == Cold(S, Cardinality(i), Over(size', LiveCount(i, b, s)))
  IN \E hand \in Injection(warm, i) :
       LET taken == Range(hand)
       IN  /\ waiting'  = w \ (warm \cup cold)
           /\ running'  = r \cup warm \cup cold
           /\ idle'     = i \ taken
           /\ busy'     = b \cup taken
           /\ spawning' = s \cup cold
           /\ serving'  = [x \in Workers |->
                             IF x \in taken THEN CHOOSE c \in warm : hand[c] = x
                             ELSE IF x \in b \cup dying' THEN serving[x]
                             ELSE NoCall]

(* Mutated form of LoopStep: a call that is not prepared yet is skipped     *)
(* before it claims its lane.                                              *)
LoopStepUnclaimed(st, c) ==
  LET blocked == lane[c] # NoLane /\ lane[c] \in st.held
      claimed == [st EXCEPT !.held = IF lane[c] = NoLane THEN @ ELSE @ \cup {lane[c]}]
  IN  IF st.returned \/ c \notin ready THEN st
      ELSE IF blocked THEN claimed
      ELSE IF st.idle = 0 /\ st.live >= size THEN [claimed EXCEPT !.returned = TRUE]
      ELSE IF st.idle > 0
      THEN [claimed EXCEPT !.idle = @ - 1, !.warm = @ \cup {c}]
      ELSE [claimed EXCEPT !.live = @ + 1, !.cold = @ \cup {c}]

(* What the loop carries: the lanes held, the warm workers left, the live  *)
(* count, the calls started with a warm worker and with a spawn, and       *)
(* whether it has returned.                                                *)
LoopStep(st, c) ==
  LET blocked == lane[c] # NoLane /\ lane[c] \in st.held
      claimed == [st EXCEPT !.held = IF lane[c] = NoLane THEN @ ELSE @ \cup {lane[c]}]
  IN  IF st.returned THEN st
      ELSE IF blocked \/ c \notin ready THEN claimed
      ELSE IF st.idle = 0 /\ st.live >= size THEN [claimed EXCEPT !.returned = TRUE]
      ELSE IF st.idle > 0
      THEN [claimed EXCEPT !.idle = @ - 1, !.warm = @ \cup {c}]
      ELSE [claimed EXCEPT !.live = @ + 1, !.cold = @ \cup {c}]

(***************************************************************************)
(* _pump as it is written, a loop over a copy of the queue: what it has    *)
(* done when it has come past the calls 1..n.                              *)
(***************************************************************************)
Loop(w, r, numIdle, numLive) ==
  LET at[n \in 0..NumCalls] ==
        IF n = 0
        THEN [held |-> {lane[c] : c \in {d \in r : lane[d] # NoLane}},
              idle |-> numIdle, live |-> numLive,
              warm |-> {}, cold |-> {}, returned |-> FALSE]
        ELSE IF n \in w THEN LoopStep(at[n - 1], n) ELSE at[n - 1]
  IN  at

PumpLoop(w, r, numIdle, numLive) == Loop(w, r, numIdle, numLive)[NumCalls]

(* Mutated forms of Release: the worker joins a closed pool; nothing is    *)
(* pumped once the worker is back.                                         *)
ReleaseIntoClosed(x, w, r, b, s) ==
  IF LiveCount(idle, b, s) >= size
  THEN dying' = dying \cup {x} /\ Pump(w, r, idle, b, s)
  ELSE UNCHANGED dying /\ Pump(w, r, idle \cup {x}, b, s)

ReleaseWithoutPump(x, w, r, b, s) ==
  /\ waiting' = w /\ running' = r /\ busy' = b /\ spawning' = s
  /\ serving' = [serving EXCEPT ![x] = NoCall]
  /\ IF closed \/ LiveCount(idle, b, s) >= size
     THEN dying' = dying \cup {x} /\ UNCHANGED idle
     ELSE UNCHANGED dying /\ idle' = idle \cup {x}

(***************************************************************************)
(* _release: worker x, already out of the busy set, goes back to the warm  *)
(* ones or is retired when the pool holds enough without it; then _pump.   *)
(***************************************************************************)
Release(x, w, r, b, s) ==
  IF closed \/ LiveCount(idle, b, s) >= size
  THEN dying' = dying \cup {x} /\ Pump(w, r, idle, b, s)
  ELSE UNCHANGED dying /\ Pump(w, r, idle \cup {x}, b, s)

(* _PooledJob.complete: the first outcome is the one that counts. *)
Answer(S, o) ==
  outcome' = [c \in Calls |-> IF c \in S /\ ~Settled(c) THEN o ELSE outcome[c]]

-----------------------------------------------------------------------------
Init ==
  /\ called = 0
  /\ lane = [c \in Calls |-> NoLane]
  /\ preparing = {} /\ ready = {}
  /\ outcome = [c \in Calls |-> "none"]
  /\ waiting = {} /\ running = {}
  /\ idle = {} /\ busy = {} /\ spawning = {} /\ dying = {}
  /\ size \in Sizes
  /\ closed = FALSE
  /\ serving = [x \in Workers |-> NoCall]

(* run(): a call joins the queue, or fails at once when the pool is closed. *)
Run(l) ==
  LET c == called + 1
  IN  /\ called < NumCalls
      /\ called' = c
      /\ lane' = [lane EXCEPT ![c] = l]
      /\ IF closed
         THEN Answer({c}, "failed") /\ UNCHANGED <<waiting, preparing>>
         ELSE /\ waiting' = waiting \cup {c}
              /\ preparing' = preparing \cup {c}
              /\ UNCHANGED outcome
      /\ UNCHANGED <<ready, running, idle, busy, spawning, size, closed, serving, dying>>

(* _started with ToolWorkReady: also for a call that was stopped meanwhile. *)
Prepared(c) ==
  /\ c \in preparing
  /\ preparing' = preparing \ {c}
  /\ ready' = ready \cup {c}
  /\ UNCHANGED <<called, lane, outcome, size, closed, dying>>
  /\ Pump(waiting, running, idle, busy, spawning)

(* _refuse: the start was refused or threw. *)
Refuse(c) ==
  /\ c \in preparing
  /\ preparing' = preparing \ {c}
  /\ Answer({c}, "failed")
  /\ UNCHANGED <<called, lane, ready, size, closed, dying>>
  /\ IF Settled(c) THEN UNCHANGED <<queueVars, serving>>
     ELSE Pump(waiting \ {c}, running, idle, busy, spawning)

(***************************************************************************)
(* The rest of _spawnFor once the spawn has answered with a worker.  A     *)
(* call stopped meanwhile leaves the worker to the pool.                   *)
(***************************************************************************)
Spawned(c, x) ==
  /\ c \in spawning
  /\ x \notin idle \cup busy \cup dying
  /\ UNCHANGED <<callVars, size, closed>>
  /\ IF Settled(c) \/ closed
     THEN Release(x, waiting, running, busy, spawning \ {c})
     ELSE /\ busy' = busy \cup {x}
          /\ serving' = [serving EXCEPT ![x] = c]
          /\ spawning' = spawning \ {c}
          /\ UNCHANGED <<waiting, running, idle, dying>>

(* Mutated form of SpawnFailed: the call keeps its slot and its lane. *)
SpawnFailedStillRunning(c) ==
  /\ c \in spawning
  /\ Answer({c}, "failed")
  /\ UNCHANGED <<called, lane, preparing, ready, size, closed, dying>>
  /\ Pump(waiting, running, idle, busy, spawning \ {c})

(* The rest of _spawnFor when no worker could be created. *)
SpawnFailed(c) ==
  /\ c \in spawning
  /\ Answer({c}, "failed")
  /\ UNCHANGED <<called, lane, preparing, ready, size, closed, dying>>
  /\ Pump(waiting, running \ {c}, idle, busy, spawning \ {c})

(* The continuation of worker.run in _dispatch: a busy worker answers. *)
Reply(x) ==
  /\ x \in busy
  /\ Answer({serving[x]}, "completed")
  /\ UNCHANGED <<called, lane, preparing, ready, size, closed>>
  /\ Release(x, waiting, running \ {serving[x]}, busy \ {x}, spawning)

(***************************************************************************)
(* _stop: the call is answered at once; its worker, if it has one, leaves  *)
(* the pool now and its isolate ends some time later.                      *)
(***************************************************************************)
Stop(c) ==
  LET abandoned == {x \in busy : serving[x] = c}
  IN  /\ c <= called
      /\ ~Settled(c)
      /\ Answer({c}, "canceled")
      /\ dying' = dying \cup abandoned
      /\ UNCHANGED <<called, lane, preparing, ready, size, closed>>
      /\ Pump(waiting \ {c}, running \ {c}, idle, busy \ abandoned, spawning)

(***************************************************************************)
(* The size setter: warm workers are retired now for as long as the pool   *)
(* holds more than n; busy ones go when they return.                       *)
(***************************************************************************)
Excess(n) == Over(LiveCount(idle, busy, spawning), n)

Resize(n) ==
  /\ n # size
  /\ size' = n
  /\ UNCHANGED <<callVars, closed>>
  /\ \E drop \in SUBSET idle :
       /\ Cardinality(drop) = Cardinality(idle) - Over(Cardinality(idle), Excess(n))
       /\ dying' = dying \cup drop
       /\ Pump(waiting, running, idle \ drop, busy, spawning)

(* close(): answers everything outstanding and terminates every worker. *)
Close ==
  /\ ~closed
  /\ closed' = TRUE
  /\ Answer(waiting \cup running, "canceled")
  /\ waiting' = {} /\ running' = {}
  /\ dying' = dying \cup idle \cup busy
  /\ idle' = {} /\ busy' = {}
  /\ UNCHANGED <<called, lane, preparing, ready, spawning, size, serving>>

(***************************************************************************)
(* A terminated isolate is gone.  The closed worker's run() resolves, for  *)
(* a call that was answered when its worker was abandoned: no effect.      *)
(***************************************************************************)
Exit(x) ==
  /\ x \in dying
  /\ dying' = dying \ {x}
  /\ serving' = [serving EXCEPT ![x] = NoCall]
  /\ UNCHANGED <<callVars, queueVars, size, closed>>

Next ==
  \/ \E l \in Lanes \cup {NoLane} : Run(l)
  \/ \E c \in Calls : Prepared(c) \/ Refuse(c) \/ SpawnFailed(c) \/ Stop(c)
  \/ \E c \in Calls, x \in Workers : Spawned(c, x)
  \/ \E x \in Workers : Reply(x) \/ Exit(x)
  \/ \E n \in Sizes : Resize(n)
  \/ Close

Spec == Init /\ [][Next]_vars

(***************************************************************************)
(* Fairness.  A start resolves (it waits for the sandbox's answer), a      *)
(* spawn answers or fails, a tool ends, and a terminated isolate exits.    *)
(* Nobody has to call run(), stop(), the size setter or close().           *)
(***************************************************************************)
Fairness ==
  /\ \A c \in Calls : /\ WF_vars(Prepared(c) \/ Refuse(c))
                     /\ WF_vars(SpawnFailed(c) \/ \E x \in Workers : Spawned(c, x))
  /\ \A x \in Workers : WF_vars(Reply(x)) /\ WF_vars(Exit(x))

FairSpec == Spec /\ Fairness

-----------------------------------------------------------------------------
(* Type invariant: every field of the pool ranges over what its Dart type  *)
(* and the bounds of the model allow.                                      *)
TypeOK ==
  /\ called \in 0..NumCalls
  /\ lane \in [Calls -> Lanes \cup {NoLane}]
  /\ preparing \subseteq Calls /\ ready \subseteq Calls
  /\ outcome \in [Calls -> Outcomes]
  /\ waiting \subseteq Calls /\ running \subseteq Calls /\ spawning \subseteq Calls
  /\ idle \subseteq Workers /\ busy \subseteq Workers /\ dying \subseteq Workers
  /\ size \in Sizes
  /\ closed \in BOOLEAN
  /\ serving \in [Workers -> Calls \cup {NoCall}]

(***************************************************************************)
(* A call is in the pool exactly while it is unanswered, and then in one   *)
(* of its two sets: none is lost unanswered, none is answered and still    *)
(* holds a place or a lane (run, _refuse, _spawnFor, _dispatch, _stop).    *)
(***************************************************************************)
UnansweredIsHeld ==
  /\ waiting \cap running = {}
  /\ waiting \cup running = {c \in 1..called : ~Settled(c)}

(***************************************************************************)
(* "Calls that share a lane run one at a time, in the order they were      *)
(* queued", as the pool keeps its books: a call that shares the lane of a  *)
(* running one is waiting, and was queued after it.                        *)
(***************************************************************************)
LaneOrder ==
  \A c \in running, d \in waiting \cup running :
    (c # d /\ lane[c] # NoLane /\ lane[d] = lane[c]) => d \in waiting /\ c < d

(***************************************************************************)
(* Each running call has exactly one spawn or one busy worker of its own,  *)
(* and each busy worker a running call: no slot is held by nobody, and no  *)
(* call runs with nothing left to answer it (_spawnFor, _dispatch, _stop). *)
(***************************************************************************)
RunningHasOneWorker ==
  /\ \A x \in busy : serving[x] \in running \ spawning
  /\ \A x, y \in busy : serving[x] = serving[y] => x = y
  /\ \A c \in running \ spawning : \E x \in busy : serving[x] = c

(***************************************************************************)
(* An isolate is warm, busy or on its way out, one of the three; a warm    *)
(* one executes nothing (_release, _stop, close, the size setter).         *)
(***************************************************************************)
WorkersKeptApart ==
  /\ idle \cap busy = {} /\ idle \cap dying = {} /\ busy \cap dying = {}
  /\ \A x \in Workers : serving[x] # NoCall => x \in busy \cup dying

(* Only calls that were made have a spawn, a start or an answer. *)
OnlyMadeCalls ==
  /\ spawning \cup preparing \cup ready \subseteq 1..called
  /\ \A c \in Calls : c > called => ~Settled(c)

(* A call has a spawn or is running only after it left the queue, and it   *)
(* only leaves the queue to run once its start has resolved.               *)
StartedWasReady ==
  /\ waiting \cap spawning = {}
  /\ preparing \cap ready = {}
  /\ running \subseteq ready

(* A closed pool holds no call and no worker, whatever arrives late. *)
ClosedHoldsNothing ==
  closed => waiting \cup running = {} /\ idle \cup busy = {}

(***************************************************************************)
(* The inductive invariant.  Each handler relies on what the others leave: *)
(* _spawnFor on a stopped call being gone from _running, _refuse on an     *)
(* unresolved call being in the queue still, _stop on the worker of a      *)
(* running call serving that call.  ToolPoolProofs proves it.              *)
(***************************************************************************)
IInv ==
  /\ TypeOK
  /\ UnansweredIsHeld
  /\ LaneOrder
  /\ RunningHasOneWorker
  /\ WorkersKeptApart
  /\ OnlyMadeCalls
  /\ StartedWasReady
  /\ ClosedHoldsNothing

(***************************************************************************)
(* No handler leaves a call waiting that could be running: while the pool  *)
(* is open and a queued call is startable, no worker is warm and the pool  *)
(* is full.  Every handler that frees a worker, a lane or a place, or      *)
(* prepares a call, has to pump for this to hold.                          *)
(***************************************************************************)
NothingLeftToStart ==
  ~closed /\ Startable(waiting, running, ready) # {} =>
    idle = {} /\ LiveCount(idle, busy, spawning) >= size

(***************************************************************************)
(* In every state the pool gets to, however many workers were warm or      *)
(* alive and whichever running call had just ended, the loop starts the    *)
(* calls Pump says it starts, with a warm worker or a spawn as it says     *)
(* (tool_worker_pool.dart, _pump).                                         *)
(***************************************************************************)
LoopStartsWhatPumpStarts ==
  \A r \in {running} \cup {running \ {c} : c \in running},
     numLive \in 0..(Cardinality(Workers) + NumCalls) : \A numIdle \in 0..numLive :
    LET loop == PumpLoop(waiting, r, numIdle, numLive)
        S    == Startable(waiting, r, ready)
    IN  /\ loop.warm = Warm(S, numIdle)
        /\ loop.cold = Cold(S, numIdle, Over(size, numLive))

(***************************************************************************)
(* A step that brings the pool more workers leaves it within its size,     *)
(* however it was resized before ("which is what size bounds").            *)
(***************************************************************************)
GrowsWithinSize ==
  [][LiveCount(idle, busy, spawning)' > LiveCount(idle, busy, spawning)
       => LiveCount(idle, busy, spawning)' <= size']_vars

(***************************************************************************)
(* An answered call keeps the answer it has and is never handed to a       *)
(* worker: _dispatch is "only ever reached with a call still waiting on an *)
(* answer", whatever order a stop, a spawn and a reply come in.            *)
(***************************************************************************)
AnsweredStaysAnswered ==
  [][\A c \in Calls : Settled(c) =>
       /\ outcome'[c] = outcome[c]
       /\ \A x \in Workers : serving'[x] = c => serving[x] = c]_vars

(* Every call that was queued is answered, under the fairness above. *)
EveryCallAnswered == \A c \in Calls : c <= called ~> Settled(c)

(***************************************************************************)
(* A closed pool drains: in the end no isolate is left, not even one whose *)
(* spawn was under way when close() was called.                            *)
(***************************************************************************)
NoIsolateLeft == idle \cup busy \cup dying = {} /\ spawning = {}
ClosedPoolDrains == closed ~> []NoIsolateLeft

(***************************************************************************)
(* "Calls that share a lane run one at a time" (tool_worker_pool.dart:12), *)
(* read as what really executes: no two isolates are executing calls of    *)
(* the same lane.                                                          *)
(***************************************************************************)
LaneExecutesAlone ==
  \A x, y \in Workers :
    (x # y /\ serving[x] # NoCall /\ serving[y] # NoCall
       /\ lane[serving[x]] # NoLane) => lane[serving[x]] # lane[serving[y]]
=============================================================================
