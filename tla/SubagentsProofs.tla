-------------------------- MODULE SubagentsProofs --------------------------
(***************************************************************************)
(* That a subagent marked running is always driven and that nothing runs   *)
(* on a provider that is not bound, for every set of calls, every sequence *)
(* of reloads and every bound.                                             *)
(*                                                                         *)
(* DrivenInv says besides what a call that dispatched nothing yet has left *)
(* untouched, and that a loop that goes on finds no running subagent: it   *)
(* began when there was none, and a subagent started since has made it     *)
(* stale.  RosterInv says what such a loop has behind it, so that at its   *)
(* end everything is disposed of; BindsInv in what order the calls of      *)
(* bindProvider come, and that those still to bind agree with the live     *)
(* primary.                                                                *)
(***************************************************************************)
EXTENDS Subagents, TLAPS

SubagentsTypeOK ==
  /\ bound \in Providers \union {NoProvider}
  /\ records \in [Providers -> SUBSET Calls]
  /\ home \in [Calls -> Providers \union {NoProvider}]
  /\ roster \in Seq(Calls)
  /\ status \in [Calls -> {"none", "refused", "running", "completed", "failed"}]
  /\ turn \in [Calls -> {"none", "run", "delivery"}]
  /\ disposed \subseteq Calls
  /\ backlog \in [Calls -> Nat]
  /\ bind \in [Binds -> {"uncalled", "parking", "draining", "done", "failed"}]
  /\ at \in [Loops -> Nat]

(* A call that has dispatched nothing has no session to be disposed of. *)
UnstartedIsWhole == \A c \in disposed : status[c] # "none"

(* The roster holds calls that dispatched a subagent. *)
RosterIsStarted == \A i \in DOMAIN roster : status[roster[i]] # "none"

(* Neither clearSettledSubagents nor a drain goes on past a running one.   *)
LoopsMeetNoRun ==
  /\ (at[0] # 0 /\ 0 \notin stale) => Running = {}
  /\ \A n \in Binds : (bind[n] = "draining" /\ n \notin stale) => Running = {}

DrivenInv ==
  /\ SubagentsTypeOK
  /\ UnstartedIsWhole
  /\ RosterIsStarted
  /\ LoopsMeetNoRun
  /\ RunningIsDriven

-----------------------------------------------------------------------------
(* What the parts of the steps do to it. *)

(* A call of bindProvider names a provider or unbinds.                     *)
LEMMA ProvidersOfTargets == \A n \in Binds : Targets[n] \in Providers \union {NoProvider}
BY DEF Binds, Providers, Range

(* clearSettledSubagents' loop is none of the drains'.                      *)
LEMMA LoopsAreApart == 0 \in Loops /\ Binds \subseteq Loops /\ 0 \notin Binds
BY SubagentsAssumption DEF Loops, Binds

(* Initially nothing has been dispatched.                                  *)
LEMMA InitDriven == Init => DrivenInv
<1> SUFFICES ASSUME Init PROVE DrivenInv
  OBVIOUS
<1>1. First \in Providers
  BY SubagentsAssumption DEF Providers
<1>2. SubagentsTypeOK
  BY <1>1 DEF Init, SubagentsTypeOK
<1>3. Running = {}
  BY DEF Init, Running
<1> QED
  BY <1>2, <1>3 DEF Init, DrivenInv, UnstartedIsWhole, RosterIsStarted, LoopsMeetNoRun, RunningIsDriven

(***************************************************************************)
(* An idle edge settles the running ones among cs and touches no other: a  *)
(* turn begun for a report is another subagent's, and an agent is let go   *)
(* of only when its run settles.                                           *)
(***************************************************************************)
LEMMA IdleEdgeKeepsDriven ==
  ASSUME DrivenInv, NEW cs \in SUBSET Calls,
         NEW outcomes \in SUBSET {"completed", "failed"},
         IdleEdge(cs, outcomes),
         UNCHANGED <<roster, home, disposed, released>>
  PROVE  /\ status' \in [Calls -> {"none", "refused", "running", "completed", "failed"}]
         /\ turn' \in [Calls -> {"none", "run", "delivery"}]
         /\ backlog' \in [Calls -> Nat]
         /\ records' \in [Providers -> SUBSET Calls]
         /\ Running' = Running \ cs
         /\ UnstartedIsWhole'
         /\ RosterIsStarted'
         /\ RunningIsDriven'
<1> DEFINE settling == cs \intersect Running
           resumed  == {c \in cs : Delivered(c)}
<1>0. Running \subseteq Calls
  BY DEF Running
<1>1. PICK outcome \in [settling -> outcomes] :
        status' = [c \in Calls |-> IF c \in settling THEN outcome[c] ELSE status[c]]
  BY DEF IdleEdge
<1>2. \A c \in settling : status'[c] \in {"completed", "failed"}
  BY <1>0, <1>1
<1>3. \A c \in Calls \ settling : status'[c] = status[c]
  BY <1>1
<1>4. status' \in [Calls -> {"none", "refused", "running", "completed", "failed"}]
  BY <1>0, <1>1, <1>2, <1>3 DEF DrivenInv, SubagentsTypeOK
<1>5. Running' = Running \ cs
  BY <1>0, <1>2, <1>3 DEF Running
<1>6. /\ turn' = [c \in Calls |-> IF c \in resumed THEN "delivery"
                                  ELSE IF c \in cs THEN "none" ELSE turn[c]]
      /\ backlog' = [c \in Calls |-> IF c \in resumed THEN 0 ELSE backlog[c]]
      /\ records' = [p \in Providers |-> records[p] \ (settling \ resumed)]
  BY DEF IdleEdge
<1>7. turn' \in [Calls -> {"none", "run", "delivery"}] /\ backlog' \in [Calls -> Nat]
  BY <1>6 DEF DrivenInv, SubagentsTypeOK
<1>8. records' \in [Providers -> SUBSET Calls]
  BY <1>6 DEF DrivenInv, SubagentsTypeOK
<1>9. \A c \in Calls : status[c] # "none" => status'[c] # "none"
  BY <1>2, <1>3
<1>10. UnstartedIsWhole' /\ RosterIsStarted'
  <2>1. \A i \in DOMAIN roster : roster[i] \in Calls
    BY DEF DrivenInv, SubagentsTypeOK
  <2>2. RosterIsStarted'
    BY <1>9, <2>1 DEF DrivenInv, RosterIsStarted
  <2>3. UnstartedIsWhole'
    BY <1>9 DEF DrivenInv, UnstartedIsWhole, SubagentsTypeOK
  <2> QED
    BY <2>2, <2>3
<1>11. ASSUME NEW c \in Running'
       PROVE  /\ \E i \in DOMAIN roster' : roster'[i] = c
              /\ c \notin disposed'
              /\ turn'[c] = "run"
              /\ HasAgent(c)' \/ home'[c] \in released'
  <2>1. c \in Running /\ c \notin cs /\ c \in Calls
    BY <1>0, <1>5
  <2>2. turn'[c] = turn[c]
    BY <1>6, <2>1
  <2>3. HasAgent(c) => HasAgent(c)'
    BY <1>6, <2>1 DEF HasAgent
  <2> QED
    BY <2>1, <2>2, <2>3 DEF DrivenInv, RunningIsDriven
<1>12. RunningIsDriven'
  BY <1>11 DEF RunningIsDriven
<1> QED
  BY <1>4, <1>5, <1>7, <1>8, <1>10, <1>12

(* A loop that goes on disposes of subagents that are not running.         *)
LEMMA DisposeKeepsDriven ==
  ASSUME DrivenInv, NEW l \in Loops, DisposeNext(l), Running = {},
         UNCHANGED <<bound, records, released, home, status, reports, orphaned>>
  PROVE  /\ at' \in [Loops -> Nat]
         /\ disposed' \subseteq Calls
         /\ turn' \in [Calls -> {"none", "run", "delivery"}]
         /\ backlog' \in [Calls -> Nat]
         /\ Running' = {}
         /\ UnstartedIsWhole'
         /\ RosterIsStarted'
         /\ RunningIsDriven'
<1>1. PICK i \in Left(l) :
        /\ at' = [at EXCEPT ![l] = i]
        /\ disposed' = disposed \union {roster[i]}
        /\ turn' = [turn EXCEPT ![roster[i]] = "none"]
        /\ backlog' = [backlog EXCEPT ![roster[i]] = 0]
        /\ UNCHANGED <<roster, stale>>
  BY DEF DisposeNext
<1>2. i \in DOMAIN roster /\ i \in Nat /\ roster[i] \in Calls
  BY <1>1 DEF Left, DrivenInv, SubagentsTypeOK
<1>3. Running' = {}
  BY DEF Running
<1>4. UnstartedIsWhole'
  BY <1>1, <1>2 DEF DrivenInv, UnstartedIsWhole, RosterIsStarted
<1>5. RosterIsStarted'
  BY <1>1 DEF DrivenInv, RosterIsStarted
<1>6. RunningIsDriven'
  BY <1>3 DEF RunningIsDriven
<1> QED
  BY <1>1, <1>2, <1>3, <1>4, <1>5, <1>6 DEF DrivenInv, SubagentsTypeOK

(* At its end the roster is empty, and no loop that waits goes on.         *)
LEMMA ClearRosterKeepsDriven ==
  ASSUME DrivenInv, NEW l \in Loops, ClearRoster(l), Running = {},
         UNCHANGED <<released, records, home, status>>
  PROVE  /\ at' \in [Loops -> Nat]
         /\ roster' \in Seq(Calls)
         /\ Running' = {}
         /\ UnstartedIsWhole'
         /\ RosterIsStarted'
         /\ RunningIsDriven'
<1>1. Running' = {}
  BY DEF Running
<1> QED
  BY <1>1 DEF ClearRoster, DrivenInv, SubagentsTypeOK, UnstartedIsWhole, RosterIsStarted, RunningIsDriven

-----------------------------------------------------------------------------
(* Each action keeps the invariant. *)

(* startSubagent puts its call on the roster as it marks it running.       *)
LEMMA StartKeepsDriven ==
  ASSUME DrivenInv, NEW c \in Calls, OnItsWay = {}, StartSubagent(c)
  PROVE  DrivenInv'
<1> USE DEF StartSubagent
<1>1. SubagentsTypeOK'
  BY DEF DrivenInv, SubagentsTypeOK, providerVars, reportVars
<1>2. Running' = Running \union {c}
  BY DEF Running, DrivenInv, SubagentsTypeOK
<1>3. /\ Len(roster') = Len(roster) + 1 /\ roster'[Len(roster) + 1] = c
      /\ \A i \in DOMAIN roster : i \in DOMAIN roster' /\ roster'[i] = roster[i]
      /\ DOMAIN roster' = DOMAIN roster \union {Len(roster) + 1}
  BY DEF DrivenInv, SubagentsTypeOK
<1>4. UnstartedIsWhole'
  BY DEF DrivenInv, SubagentsTypeOK, UnstartedIsWhole
<1>5. RosterIsStarted'
  <2> SUFFICES ASSUME NEW i \in DOMAIN roster' PROVE status'[roster'[i]] # "none"
    BY DEF RosterIsStarted
  <2>1. CASE i \in DOMAIN roster
    BY <1>3, <2>1 DEF DrivenInv, SubagentsTypeOK, RosterIsStarted
  <2>2. CASE i = Len(roster) + 1
    BY <1>3, <2>2 DEF DrivenInv, SubagentsTypeOK
  <2> QED
    BY <1>3, <2>1, <2>2
<1>6. LoopsMeetNoRun'
  <2>1. at'[0] # 0 => 0 \in stale'
    BY LoopsAreApart DEF Waiting
  <2>2. ASSUME NEW n \in Binds, bind'[n] = "draining" PROVE n \in stale'
    <3>1. at[n] # 0
      BY <2>2 DEF OnItsWay
    <3> QED
      BY <3>1, LoopsAreApart DEF Waiting
  <2> QED
    BY <2>1, <2>2 DEF LoopsMeetNoRun
<1>7. RunningIsDriven'
  <2> SUFFICES ASSUME NEW d \in Running'
               PROVE  /\ \E i \in DOMAIN roster' : roster'[i] = d
                      /\ d \notin disposed'
                      /\ turn'[d] = "run"
                      /\ HasAgent(d)' \/ home'[d] \in released'
    BY DEF RunningIsDriven
  <2>1. CASE d = c
    <3>1. c \notin disposed'
      BY DEF DrivenInv, UnstartedIsWhole
    <3>2. HasAgent(c)'
      BY DEF HasAgent, DrivenInv, SubagentsTypeOK
    <3>3. turn'[c] = "run"
      BY DEF DrivenInv, SubagentsTypeOK
    <3> QED
      BY <1>3, <2>1, <3>1, <3>2, <3>3
  <2>2. CASE d \in Running /\ d # c
    <3>1. d \in Calls /\ home'[d] = home[d] /\ turn'[d] = turn[d]
      BY <2>2 DEF Running, DrivenInv, SubagentsTypeOK
    <3>2. HasAgent(d) => HasAgent(d)'
      BY <3>1 DEF HasAgent, DrivenInv, SubagentsTypeOK
    <3> QED
      BY <1>3, <2>2, <3>1, <3>2 DEF DrivenInv, RunningIsDriven, providerVars
  <2> QED
    BY <1>2, <2>1, <2>2
<1> QED
  BY <1>1, <1>4, <1>5, <1>6, <1>7 DEF DrivenInv

(* An idle edge: the loops are where they were, and fewer subagents run.   *)
LEMMA IdleKeepsDriven ==
  ASSUME DrivenInv, NEW cs \in SUBSET Calls,
         NEW outcomes \in SUBSET {"completed", "failed"},
         IdleEdge(cs, outcomes),
         UNCHANGED <<providerVars, roster, home, disposed, loopVars>>
  PROVE  DrivenInv'
<1>1. UNCHANGED <<roster, home, disposed, released>>
  BY DEF providerVars
<1>2. /\ status' \in [Calls -> {"none", "refused", "running", "completed", "failed"}]
      /\ turn' \in [Calls -> {"none", "run", "delivery"}]
      /\ backlog' \in [Calls -> Nat]
      /\ records' \in [Providers -> SUBSET Calls]
      /\ Running' = Running \ cs
      /\ UnstartedIsWhole' /\ RosterIsStarted' /\ RunningIsDriven'
  BY <1>1, IdleEdgeKeepsDriven
<1>3. SubagentsTypeOK'
  BY <1>2 DEF DrivenInv, SubagentsTypeOK, providerVars, loopVars
<1>4. LoopsMeetNoRun'
  BY <1>2 DEF DrivenInv, LoopsMeetNoRun, loopVars
<1> QED
  BY <1>2, <1>3, <1>4 DEF DrivenInv

(* A run the agent refuses was never marked running.                       *)
LEMMA RejectKeepsDriven ==
  ASSUME DrivenInv, NEW c \in Calls, StartRejected(c)
  PROVE  DrivenInv'
<1> USE DEF StartRejected, providerVars, reportVars, loopVars
<1>1. /\ status' = [status EXCEPT ![c] = "refused"]
      /\ status[c] = "none"
      /\ UNCHANGED <<bound, released, records, home, roster, turn, disposed, backlog, bind, at, stale>>
  OBVIOUS
<1> USE DEF DrivenInv
<1>2. Running' = Running
  BY <1>1 DEF Running, SubagentsTypeOK
<1>3. SubagentsTypeOK'
  BY <1>1 DEF SubagentsTypeOK
<1>4. UnstartedIsWhole' /\ RosterIsStarted'
  BY <1>1 DEF SubagentsTypeOK, UnstartedIsWhole, RosterIsStarted
<1>5. LoopsMeetNoRun'
  BY <1>1, <1>2 DEF LoopsMeetNoRun
<1>6. RunningIsDriven'
  BY <1>1, <1>2 DEF RunningIsDriven, HasAgent
<1> QED
  BY <1>3, <1>4, <1>5, <1>6

(* A report begins no turn of a subagent that is running: it is in one.    *)
LEMMA ReportKeepsDriven ==
  ASSUME DrivenInv, NEW c \in Calls, DeliverReport(c)
  PROVE  DrivenInv'
<1>1. UNCHANGED <<bound, released, records, home, roster, status, disposed, bind, at, stale>>
  BY DEF DeliverReport, providerVars, loopVars
<1>2. /\ \/ turn' = turn
         \/ turn[c] = "none" /\ turn' = [turn EXCEPT ![c] = "delivery"]
      /\ \/ backlog' = backlog
         \/ backlog' = [backlog EXCEPT ![c] = backlog[c] + 1]
  BY DEF DeliverReport
<1>3. Running' = Running
  BY <1>1 DEF Running
<1> USE DEF DrivenInv
<1>4. SubagentsTypeOK'
  <2>1. turn' \in [Calls -> {"none", "run", "delivery"}]
    BY <1>2 DEF SubagentsTypeOK
  <2>2. backlog \in [Calls -> Nat] /\ backlog[c] + 1 \in Nat
    BY DEF SubagentsTypeOK
  <2>3. backlog' \in [Calls -> Nat]
    BY <1>2, <2>2
  <2> QED
    BY <1>1, <2>1, <2>3 DEF SubagentsTypeOK
<1>5. UnstartedIsWhole' /\ RosterIsStarted' /\ LoopsMeetNoRun'
  BY <1>1, <1>3 DEF UnstartedIsWhole, RosterIsStarted, LoopsMeetNoRun
<1>6. \A d \in Running : turn'[d] = "run"
  BY <1>2 DEF RunningIsDriven, Running, SubagentsTypeOK
<1>7. RunningIsDriven'
  BY <1>1, <1>3, <1>6 DEF RunningIsDriven, HasAgent
<1> QED
  BY <1>4, <1>5, <1>7

(* One turn of clearSettledSubagents' loop, with nothing running.          *)
LEMMA ClearingKeepsDriven ==
  ASSUME DrivenInv, Clearing, Running = {}
  PROVE  DrivenInv'
<1>1. UNCHANGED <<bound, live, released, records, home, status, reports, orphaned, bind>>
  BY DEF Clearing, providerVars
<1>2. CASE DisposeNext(0)
  <2>1. UNCHANGED <<roster, stale>>
    BY <1>2 DEF DisposeNext
  <2>2. /\ at' \in [Loops -> Nat] /\ disposed' \subseteq Calls
        /\ turn' \in [Calls -> {"none", "run", "delivery"}] /\ backlog' \in [Calls -> Nat]
        /\ Running' = {} /\ UnstartedIsWhole' /\ RosterIsStarted' /\ RunningIsDriven'
    BY <1>1, <1>2, LoopsAreApart, DisposeKeepsDriven
  <2> QED
    BY <1>1, <2>1, <2>2 DEF DrivenInv, SubagentsTypeOK, LoopsMeetNoRun
<1>3. CASE ClearRoster(0)
  <2>1. UNCHANGED <<disposed, turn, backlog>>
    BY <1>3 DEF ClearRoster
  <2>2. /\ at' \in [Loops -> Nat] /\ roster' \in Seq(Calls)
        /\ Running' = {} /\ UnstartedIsWhole' /\ RosterIsStarted' /\ RunningIsDriven'
    BY <1>1, <1>3, LoopsAreApart, ClearRosterKeepsDriven
  <2> QED
    BY <1>1, <2>1, <2>2 DEF DrivenInv, SubagentsTypeOK, LoopsMeetNoRun
<1> QED
  BY <1>2, <1>3 DEF Clearing

(* A loop that throws leaves everything else as it was.                    *)
LEMMA ThrowKeepsDriven ==
  ASSUME DrivenInv, NEW l \in Loops, LoopThrows(l),
         UNCHANGED <<bound, released, records, home, status>>,
         bind' \in [Binds -> {"uncalled", "parking", "draining", "done", "failed"}],
         \A n \in Binds : bind'[n] = "draining" => bind[n] = "draining" /\ n # l
  PROVE  DrivenInv'
<1>1. /\ at' = [at EXCEPT ![l] = 0] /\ stale' = stale \ {l}
      /\ UNCHANGED <<roster, disposed, turn, backlog>>
  BY DEF LoopThrows
<1>2. Running' = Running
  BY DEF Running
<1> USE DEF DrivenInv
<1>3. SubagentsTypeOK'
  BY <1>1 DEF SubagentsTypeOK
<1>4. UnstartedIsWhole' /\ RosterIsStarted'
  BY <1>1 DEF UnstartedIsWhole, RosterIsStarted
<1>5. LoopsMeetNoRun'
  <2>1. ASSUME at'[0] # 0, 0 \notin stale' PROVE Running' = {}
    BY <1>1, <1>2, <2>1, LoopsAreApart DEF LoopsMeetNoRun, SubagentsTypeOK
  <2>2. ASSUME NEW n \in Binds, bind'[n] = "draining", n \notin stale' PROVE Running' = {}
    BY <1>1, <1>2, <2>2 DEF LoopsMeetNoRun
  <2> QED
    BY <2>1, <2>2 DEF LoopsMeetNoRun
<1>6. RunningIsDriven'
  BY <1>1, <1>2 DEF RunningIsDriven, HasAgent
<1> QED
  BY <1>3, <1>4, <1>5, <1>6

(* clearSettledSubagents begins its loop only when nothing runs.           *)
LEMMA ClearKeepsDriven ==
  ASSUME DrivenInv, ClearSettled \/ ClearGoesOn
  PROVE  DrivenInv'
<1>1. CASE ClearSettled
  BY <1>1, ClearingKeepsDriven DEF ClearSettled
<1>2. CASE ClearGoesOn /\ 0 \in stale
  <2>1. /\ LoopThrows(0)
        /\ UNCHANGED <<bound, released, records, home, status, bind>>
    BY <1>2 DEF ClearGoesOn, providerVars
  <2>2. /\ bind' \in [Binds -> {"uncalled", "parking", "draining", "done", "failed"}]
        /\ \A n \in Binds : bind'[n] = "draining" => bind[n] = "draining" /\ n # 0
    BY <2>1, LoopsAreApart DEF DrivenInv, SubagentsTypeOK
  <2> QED
    BY <2>1, <2>2, LoopsAreApart, ThrowKeepsDriven
<1>3. CASE ClearGoesOn /\ 0 \notin stale
  BY <1>3, ClearingKeepsDriven DEF ClearGoesOn, DrivenInv, LoopsMeetNoRun
<1> QED
  BY <1>1, <1>2, <1>3

(* bindProvider releases a provider only together with all of its agents.  *)
LEMMA BindKeepsDriven ==
  ASSUME DrivenInv, NEW n \in Binds, BindProvider(n)
  PROVE  DrivenInv'
<1>1. UNCHANGED <<bound, roster, home, status, turn, disposed, backlog, at, stale>>
  BY DEF BindProvider, subVars, reportVars
<1>2. \E e \in {"done", "parking"} : bind' = [bind EXCEPT ![n] = e]
  BY DEF BindProvider
<1>3. PICK gone :
        /\ released' = released \union gone
        /\ records' = [p \in Providers |-> IF p \in gone THEN {} ELSE records[p]]
  <2>1. CASE Targets[n] = NoProvider
    BY <2>1 DEF BindProvider
  <2>2. CASE Targets[n] # NoProvider
    <3>1. released' = released /\ records' = records
      BY <2>2 DEF BindProvider
    <3> WITNESS {}
    <3> QED
      BY <3>1 DEF DrivenInv, SubagentsTypeOK
  <2> QED
    BY <2>1, <2>2
<1>4. Running' = Running
  BY <1>1 DEF Running
<1> USE DEF DrivenInv
<1>5. SubagentsTypeOK'
  BY <1>1, <1>2, <1>3 DEF SubagentsTypeOK
<1>6. UnstartedIsWhole' /\ RosterIsStarted'
  BY <1>1 DEF UnstartedIsWhole, RosterIsStarted
<1>7. LoopsMeetNoRun'
  BY <1>1, <1>2, <1>4 DEF LoopsMeetNoRun, SubagentsTypeOK
<1>8. \A c \in Running : HasAgent(c)' \/ home'[c] \in released'
  BY <1>1, <1>3 DEF RunningIsDriven, HasAgent
<1>9. RunningIsDriven'
  BY <1>1, <1>4, <1>8 DEF RunningIsDriven
<1> QED
  BY <1>5, <1>6, <1>7, <1>9

(* _drainSubagents stops every run before it goes through the roster.      *)
LEMMA ParkedKeepsDriven ==
  ASSUME DrivenInv, NEW n \in Binds, Parked(n)
  PROVE  DrivenInv'
<1>1. UNCHANGED <<bound, roster, home, disposed, released, at, stale>>
  BY DEF Parked, providerVars
<1>2. Running \in SUBSET Calls /\ {"failed"} \in SUBSET {"completed", "failed"}
  BY DEF Running
<1>3. IdleEdge(Running, {"failed"}) /\ bind' = [bind EXCEPT ![n] = "draining"]
  BY DEF Parked
<1>4. /\ status' \in [Calls -> {"none", "refused", "running", "completed", "failed"}]
      /\ turn' \in [Calls -> {"none", "run", "delivery"}]
      /\ backlog' \in [Calls -> Nat]
      /\ records' \in [Providers -> SUBSET Calls]
      /\ Running' = Running \ Running
      /\ UnstartedIsWhole' /\ RosterIsStarted' /\ RunningIsDriven'
  BY <1>1, <1>2, <1>3, IdleEdgeKeepsDriven
<1>5. SubagentsTypeOK'
  BY <1>1, <1>3, <1>4 DEF DrivenInv, SubagentsTypeOK
<1>6. LoopsMeetNoRun'
  BY <1>4 DEF LoopsMeetNoRun
<1> QED
  BY <1>4, <1>5, <1>6 DEF DrivenInv

(* A drain disposes of the next of those left, or has reached the end.     *)
LEMMA DrainKeepsDriven ==
  ASSUME DrivenInv, NEW n \in Binds, DrainNext(n)
  PROVE  DrivenInv'
<1>1. UNCHANGED <<released, records, home, status, reports, orphaned>> /\ n \in Loops
  BY LoopsAreApart DEF DrainNext
<1>2. CASE n \in stale
  <2>1. LoopThrows(n) /\ bind' = [bind EXCEPT ![n] = "failed"] /\ bound' = bound
    BY <1>2 DEF DrainNext
  <2>2. /\ bind' \in [Binds -> {"uncalled", "parking", "draining", "done", "failed"}]
        /\ \A k \in Binds : bind'[k] = "draining" => bind[k] = "draining" /\ k # n
    BY <2>1 DEF DrivenInv, SubagentsTypeOK
  <2> QED
    BY <1>1, <2>1, <2>2, ThrowKeepsDriven
<1>3. CASE n \notin stale /\ DisposeNext(n) /\ UNCHANGED <<bound, live, bind>>
  <2>1. Running = {}
    BY <1>3 DEF DrainNext, DrivenInv, LoopsMeetNoRun
  <2>2. UNCHANGED <<roster, stale>>
    BY <1>3 DEF DisposeNext
  <2>3. /\ at' \in [Loops -> Nat] /\ disposed' \subseteq Calls
        /\ turn' \in [Calls -> {"none", "run", "delivery"}] /\ backlog' \in [Calls -> Nat]
        /\ Running' = {} /\ UnstartedIsWhole' /\ RosterIsStarted' /\ RunningIsDriven'
    BY <1>1, <1>3, <2>1, DisposeKeepsDriven
  <2> QED
    BY <1>1, <1>3, <2>2, <2>3 DEF DrivenInv, SubagentsTypeOK, LoopsMeetNoRun
<1>4. CASE n \notin stale /\ ClearRoster(n) /\ Rebound(n)
  <2>1. Running = {}
    BY <1>4 DEF DrainNext, DrivenInv, LoopsMeetNoRun
  <2>2. UNCHANGED <<disposed, turn, backlog>>
    BY <1>4 DEF ClearRoster
  <2>3. /\ at' \in [Loops -> Nat] /\ roster' \in Seq(Calls)
        /\ Running' = {} /\ UnstartedIsWhole' /\ RosterIsStarted' /\ RunningIsDriven'
    BY <1>1, <1>4, <2>1, ClearRosterKeepsDriven
  <2>4. bound' \in Providers \union {NoProvider} /\ bind' = [bind EXCEPT ![n] = "done"]
    BY <1>4, ProvidersOfTargets DEF Rebound
  <2>5. SubagentsTypeOK'
    BY <1>1, <2>2, <2>3, <2>4 DEF DrivenInv, SubagentsTypeOK
  <2> QED
    BY <2>3, <2>5 DEF DrivenInv, LoopsMeetNoRun
<1> QED
  BY <1>2, <1>3, <1>4 DEF DrainNext

-----------------------------------------------------------------------------
(* Every step keeps the invariant, one case for each action.               *)
LEMMA StepKeepsDriven == DrivenInv /\ [Next]_vars => DrivenInv'
<1> SUFFICES ASSUME DrivenInv, [Next]_vars PROVE DrivenInv'
  OBVIOUS
<1>1. ASSUME NEW c \in Calls, OnItsWay = {}, Subagent(c) PROVE DrivenInv'
  <2>1. CASE StartSubagent(c)
    BY <1>1, <2>1, StartKeepsDriven
  <2>2. CASE StartRejected(c)
    BY <2>2, RejectKeepsDriven
  <2>3. CASE TurnEnds(c)
    BY <2>3, IdleKeepsDriven DEF TurnEnds
  <2>4. CASE StopSubagent(c)
    BY <2>4, IdleKeepsDriven DEF StopSubagent
  <2>5. CASE DeliverReport(c)
    BY <2>5, ReportKeepsDriven
  <2> QED
    BY <1>1, <2>1, <2>2, <2>3, <2>4, <2>5 DEF Subagent
<1>2. CASE ClearSettled \/ ClearGoesOn
  BY <1>2, ClearKeepsDriven
<1>3. ASSUME NEW n \in Binds, BindProvider(n) \/ Parked(n) \/ DrainNext(n) PROVE DrivenInv'
  BY <1>3, BindKeepsDriven, ParkedKeepsDriven, DrainKeepsDriven
<1>4. CASE UNCHANGED vars
  BY <1>4 DEF vars, providerVars, subVars, reportVars, loopVars, DrivenInv, SubagentsTypeOK,
              UnstartedIsWhole, RosterIsStarted, LoopsMeetNoRun, RunningIsDriven, Running, HasAgent
<1> QED
  BY <1>1, <1>2, <1>3, <1>4 DEF Next, Event, OnItsWay

(***************************************************************************)
(* Whatever number of subagents is dispatched and however stops, reports,  *)
(* clears and overlapping calls of bindProvider interleave, a subagent     *)
(* marked running is on the roster, undisposed, in its first turn, with    *)
(* its agent unless its provider is gone (agent_repository.dart).          *)
(***************************************************************************)
THEOREM RunningStaysDriven == Spec => []RunningIsDriven
<1>1. DrivenInv => RunningIsDriven
  BY DEF DrivenInv
<1> QED
  BY <1>1, InitDriven, StepKeepsDriven, PTL DEF Spec

-----------------------------------------------------------------------------
(* What runs, and for whom. *)

Started(c) == status[c] \notin {"none", "refused"}

(* A session that is disposed of is in no turn, and nothing waits for it. *)
DisposedIsOver == \A c \in disposed : turn[c] = "none" /\ backlog[c] = 0

UnstartedRests == \A c \in Calls : ~Started(c) => turn[c] = "none" /\ backlog[c] = 0

(* A subagent stays on the roster until its session is disposed of. *)
StartedIsKept ==
  \A c \in Calls : Started(c) => c \in disposed \/ \E i \in DOMAIN roster : roster[i] = c

(* What a loop that goes on has passed is disposed of. *)
LoopsKeepUp ==
  \A l \in Loops : at[l] # 0 /\ l \notin stale =>
    \A i \in DOMAIN roster : i <= at[l] => roster[i] \in disposed

StartedIsHome == \A c \in Calls : Started(c) /\ c \notin disposed => home[c] = bound

RosterInv ==
  /\ DisposedIsOver
  /\ UnstartedRests
  /\ StartedIsKept
  /\ LoopsKeepUp
  /\ StartedIsHome

(* The calls of bindProvider: asked in order, parked in order, and one at  *)
(* a time on its way from there to its first write.                        *)
AskedInOrder == \E n \in 0..Len(Targets) : Asked = 1..n
ParkedInOrder == \A k, n \in Binds : bind[k] = "draining" /\ bind[n] = "parking" => k < n
OneOnItsWay == \A k, n \in OnItsWay : k = n

(* After a provider that is not gone no other was asked for. *)
LaterAgree ==
  \A k, n \in Asked :
    k < n /\ Targets[k] \notin released \union {NoProvider} => Targets[n] = Targets[k]

Underway(n) == bind[n] = "parking" \/ (bind[n] = "draining" /\ n \notin stale)

(* The primary's provider is the last one asked for, and is not gone: no   *)
(* call that may still bind will bind another.                             *)
LiveIsLast ==
  live # NoProvider =>
    /\ live = bound
    /\ live = LastAsked
    /\ live \notin released
    /\ \A n \in Binds : Underway(n) => Targets[n] = live

BindsInv ==
  /\ AskedInOrder
  /\ ParkedInOrder
  /\ OneOnItsWay
  /\ LaterAgree
  /\ LiveIsLast

BoundInv == DrivenInv /\ RosterInv /\ BindsInv

-----------------------------------------------------------------------------
(* The roster. *)

LEMMA InitRoster == Init => RosterInv
BY DEF Init, RosterInv, DisposedIsOver, UnstartedRests, StartedIsKept, LoopsKeepUp, StartedIsHome,
       Started

(* An idle edge begins a turn only for a session a report waits for.       *)
LEMMA IdleKeepsRoster ==
  ASSUME DrivenInv, RosterInv, NEW cs \in SUBSET Calls,
         NEW outcomes \in SUBSET {"completed", "failed"},
         IdleEdge(cs, outcomes),
         UNCHANGED <<bound, roster, home, disposed, at, stale>>
  PROVE  RosterInv'
<1> DEFINE settling == cs \intersect Running
           resumed  == {c \in cs : Delivered(c)}
<1>0. Running \subseteq Calls /\ \A c \in Running : Started(c)
  BY DEF Running, Started
<1>1. PICK outcome \in [settling -> outcomes] :
        status' = [c \in Calls |-> IF c \in settling THEN outcome[c] ELSE status[c]]
  BY DEF IdleEdge
<1>2. \A c \in settling : status'[c] \in {"completed", "failed"}
  BY <1>0, <1>1
<1>3. \A c \in Calls : Started(c)' <=> Started(c)
  BY <1>0, <1>1, <1>2 DEF Started
<1>4. /\ turn' = [c \in Calls |-> IF c \in resumed THEN "delivery"
                                  ELSE IF c \in cs THEN "none" ELSE turn[c]]
      /\ backlog' = [c \in Calls |-> IF c \in resumed THEN 0 ELSE backlog[c]]
  BY DEF IdleEdge
<1>5. ASSUME NEW c \in Calls, turn[c] = "none", backlog[c] = 0
      PROVE  turn'[c] = "none" /\ backlog'[c] = 0
  <2>1. c \notin resumed
    BY <1>5 DEF Delivered
  <2> QED
    BY <1>4, <1>5, <2>1
<1>6. DisposedIsOver'
  BY <1>5 DEF RosterInv, DisposedIsOver, DrivenInv, SubagentsTypeOK
<1>7. UnstartedRests'
  BY <1>3, <1>5 DEF RosterInv, UnstartedRests
<1>8. StartedIsKept' /\ StartedIsHome'
  BY <1>3 DEF RosterInv, StartedIsKept, StartedIsHome
<1>9. LoopsKeepUp'
  BY DEF RosterInv, LoopsKeepUp
<1> QED
  BY <1>6, <1>7, <1>8, <1>9 DEF RosterInv

(* A subagent is started at home, and a loop that waits goes stale.        *)
LEMMA StartKeepsRoster ==
  ASSUME DrivenInv, RosterInv, NEW c \in Calls, StartSubagent(c)
  PROVE  RosterInv'
<1> USE DEF StartSubagent
<1>1. /\ status' = [status EXCEPT ![c] = "running"] /\ status[c] = "none"
      /\ turn' = [turn EXCEPT ![c] = "run"] /\ home' = [home EXCEPT ![c] = bound]
      /\ UNCHANGED <<bound, disposed, backlog, at>> /\ stale' = Waiting
  BY DEF providerVars, reportVars
<1>2. /\ \A i \in DOMAIN roster : i \in DOMAIN roster' /\ roster'[i] = roster[i]
      /\ Len(roster) + 1 \in DOMAIN roster' /\ roster'[Len(roster) + 1] = c
  BY DEF DrivenInv, SubagentsTypeOK
<1>3. c \notin disposed
  BY <1>1 DEF DrivenInv, UnstartedIsWhole
<1>4. \A d \in Calls : Started(d)' <=> (Started(d) \/ d = c)
  BY <1>1 DEF Started, DrivenInv, SubagentsTypeOK
<1>5. DisposedIsOver' /\ UnstartedRests'
  BY <1>1, <1>3, <1>4 DEF RosterInv, DisposedIsOver, UnstartedRests, DrivenInv, SubagentsTypeOK
<1>6. StartedIsKept'
  <2> SUFFICES ASSUME NEW d \in Calls, Started(d)'
               PROVE  d \in disposed' \/ \E i \in DOMAIN roster' : roster'[i] = d
    BY DEF StartedIsKept
  <2>1. CASE d = c
    BY <1>2, <2>1
  <2>2. CASE Started(d)
    BY <1>1, <1>2, <2>2 DEF RosterInv, StartedIsKept
  <2> QED
    BY <1>4, <2>1, <2>2
<1>7. LoopsKeepUp'
  BY <1>1 DEF LoopsKeepUp, Waiting
<1>8. StartedIsHome'
  BY <1>1, <1>4 DEF RosterInv, StartedIsHome, DrivenInv, SubagentsTypeOK
<1> QED
  BY <1>5, <1>6, <1>7, <1>8 DEF RosterInv

LEMMA RejectKeepsRoster ==
  ASSUME DrivenInv, RosterInv, NEW c \in Calls, StartRejected(c)
  PROVE  RosterInv'
<1>1. /\ status' = [status EXCEPT ![c] = "refused"] /\ status[c] = "none"
      /\ UNCHANGED <<bound, home, roster, turn, disposed, backlog, at, stale>>
  BY DEF StartRejected, providerVars, reportVars, loopVars
<1>2. \A d \in Calls : Started(d)' <=> Started(d)
  BY <1>1 DEF Started, DrivenInv, SubagentsTypeOK
<1> QED
  BY <1>1, <1>2 DEF RosterInv, DisposedIsOver, UnstartedRests, StartedIsKept, LoopsKeepUp,
                    StartedIsHome

(* A report begins no turn of a session that is disposed of.               *)
LEMMA ReportKeepsRoster ==
  ASSUME DrivenInv, RosterInv, NEW c \in Calls, DeliverReport(c)
  PROVE  RosterInv'
<1>1. Started(c) /\ UNCHANGED <<bound, home, roster, status, disposed, at, stale>>
  BY DEF DeliverReport, Started, providerVars, loopVars
<1>2. \A d \in Calls : Started(d)' <=> Started(d)
  BY <1>1 DEF Started
<1>3. \A d \in Calls : d # c \/ d \in disposed => turn'[d] = turn[d] /\ backlog'[d] = backlog[d]
  BY DEF DeliverReport, DrivenInv, SubagentsTypeOK
<1>4. DisposedIsOver'
  BY <1>1, <1>3 DEF RosterInv, DisposedIsOver, DrivenInv, SubagentsTypeOK
<1>5. UnstartedRests'
  BY <1>1, <1>2, <1>3 DEF RosterInv, UnstartedRests
<1>6. StartedIsKept' /\ LoopsKeepUp' /\ StartedIsHome'
  BY <1>1, <1>2 DEF RosterInv, StartedIsKept, LoopsKeepUp, StartedIsHome
<1> QED
  BY <1>4, <1>5, <1>6 DEF RosterInv

(* A loop goes on to the first of those left, past none that is not        *)
(* disposed of.                                                            *)
LEMMA DisposeKeepsRoster ==
  ASSUME DrivenInv, RosterInv, NEW l \in Loops, DisposeNext(l), at[l] = 0 \/ l \notin stale,
         UNCHANGED <<bound, home, status>>
  PROVE  RosterInv'
<1>1. PICK i \in Left(l) :
        /\ \A j \in Left(l) : i <= j
        /\ at' = [at EXCEPT ![l] = i]
        /\ disposed' = disposed \union {roster[i]}
        /\ turn' = [turn EXCEPT ![roster[i]] = "none"]
        /\ backlog' = [backlog EXCEPT ![roster[i]] = 0]
        /\ UNCHANGED <<roster, stale>>
  BY DEF DisposeNext
<1>2. i \in DOMAIN roster /\ roster[i] \in Calls /\ at[l] \in Nat /\ DOMAIN roster \subseteq Nat
  BY <1>1 DEF Left, DrivenInv, SubagentsTypeOK
<1>3. \A d \in Calls : Started(d)' <=> Started(d)
  BY DEF Started
<1>4. DisposedIsOver'
  BY <1>1, <1>2 DEF RosterInv, DisposedIsOver, DrivenInv, SubagentsTypeOK
<1>5. UnstartedRests'
  BY <1>1, <1>2, <1>3 DEF RosterInv, UnstartedRests, DrivenInv, SubagentsTypeOK
<1>6. StartedIsKept' /\ StartedIsHome'
  BY <1>1, <1>3 DEF RosterInv, StartedIsKept, StartedIsHome
<1>7. \A j \in DOMAIN roster : j <= i => roster[j] \in disposed'
  <2> SUFFICES ASSUME NEW j \in DOMAIN roster, j <= i PROVE roster[j] \in disposed'
    OBVIOUS
  <2>1. CASE j = i
    BY <1>1, <2>1
  <2>2. CASE j <= at[l]
    <3>1. at[l] # 0
      BY <1>2, <2>2 DEF DrivenInv, SubagentsTypeOK
    <3> QED
      BY <1>1, <2>2, <3>1 DEF RosterInv, LoopsKeepUp
  <2>3. CASE j > at[l] /\ j # i
    <3>1. j \notin Left(l)
      BY <1>1, <1>2, <2>3
    <3> QED
      BY <1>1, <2>3, <3>1 DEF Left
  <2> QED
    BY <1>2, <2>1, <2>2, <2>3
<1>8. LoopsKeepUp'
  <2> SUFFICES ASSUME NEW k \in Loops, at'[k] # 0, k \notin stale',
                      NEW j \in DOMAIN roster, j <= at'[k]
               PROVE  roster[j] \in disposed'
    BY <1>1 DEF LoopsKeepUp
  <2>1. CASE k = l
    BY <1>1, <1>7, <2>1 DEF DrivenInv, SubagentsTypeOK
  <2>2. CASE k # l
    BY <1>1, <2>2 DEF RosterInv, LoopsKeepUp, DrivenInv, SubagentsTypeOK
  <2> QED
    BY <2>1, <2>2
<1> QED
  BY <1>4, <1>5, <1>6, <1>8 DEF RosterInv

(* At a loop's end every session on the roster is disposed of.             *)
LEMMA EndIsAll ==
  ASSUME DrivenInv, RosterInv, NEW l \in Loops, Left(l) = {}, at[l] = 0 \/ l \notin stale
  PROVE  \A c \in Calls : Started(c) => c \in disposed
<1> SUFFICES ASSUME NEW i \in DOMAIN roster, roster[i] \notin disposed PROVE FALSE
  BY DEF RosterInv, StartedIsKept
<1>1. i \in Nat \ {0} /\ at[l] \in Nat
  BY DEF DrivenInv, SubagentsTypeOK
<1>2. i <= at[l]
  BY <1>1 DEF Left
<1>3. at[l] # 0 /\ l \notin stale
  BY <1>1, <1>2
<1> QED
  BY <1>2, <1>3 DEF RosterInv, LoopsKeepUp

(* So whichever provider is bound next, nothing runs on another.           *)
LEMMA ClearRosterKeepsRoster ==
  ASSUME DrivenInv, RosterInv, NEW l \in Loops, ClearRoster(l), at[l] = 0 \/ l \notin stale,
         UNCHANGED <<home, status>>
  PROVE  RosterInv'
<1>1. /\ \A c \in Calls : Started(c) => c \in disposed
      /\ roster' = <<>> /\ at' = [at EXCEPT ![l] = 0]
      /\ UNCHANGED <<disposed, turn, backlog, home, status>>
  BY EndIsAll DEF ClearRoster
<1>2. \A d \in Calls : Started(d)' <=> Started(d)
  BY DEF Started
<1> QED
  BY <1>1, <1>2 DEF RosterInv, DisposedIsOver, UnstartedRests, StartedIsKept, LoopsKeepUp,
                    StartedIsHome

LEMMA ThrowKeepsRoster ==
  ASSUME DrivenInv, RosterInv, NEW l \in Loops, LoopThrows(l),
         UNCHANGED <<bound, home, status>>
  PROVE  RosterInv'
<1>1. /\ at' = [at EXCEPT ![l] = 0] /\ stale' = stale \ {l}
      /\ UNCHANGED <<roster, disposed, turn, backlog>>
  BY DEF LoopThrows
<1>2. \A d \in Calls : Started(d)' <=> Started(d)
  BY DEF Started
<1>3. LoopsKeepUp'
  BY <1>1 DEF RosterInv, LoopsKeepUp, DrivenInv, SubagentsTypeOK
<1> QED
  BY <1>1, <1>2, <1>3 DEF RosterInv, DisposedIsOver, UnstartedRests, StartedIsKept, StartedIsHome

LEMMA StepKeepsRoster == DrivenInv /\ RosterInv /\ [Next]_vars => RosterInv'
<1> SUFFICES ASSUME DrivenInv, RosterInv, [Next]_vars PROVE RosterInv'
  OBVIOUS
<1>0. /\ \A c \in Calls : {c} \in SUBSET Calls
      /\ Running \in SUBSET Calls
      /\ {"completed", "failed"} \in SUBSET {"completed", "failed"}
      /\ {"failed"} \in SUBSET {"completed", "failed"}
  BY DEF Running
<1>1. ASSUME NEW c \in Calls, Subagent(c) PROVE RosterInv'
  <2>1. CASE StartSubagent(c)
    BY <2>1, StartKeepsRoster
  <2>2. CASE StartRejected(c)
    BY <2>2, RejectKeepsRoster
  <2>3. CASE TurnEnds(c)
    BY <1>0, <2>3, IdleKeepsRoster DEF TurnEnds, providerVars, loopVars
  <2>4. CASE StopSubagent(c)
    BY <1>0, <2>4, IdleKeepsRoster DEF StopSubagent, providerVars, loopVars
  <2>5. CASE DeliverReport(c)
    BY <2>5, ReportKeepsRoster
  <2> QED
    BY <1>1, <2>1, <2>2, <2>3, <2>4, <2>5 DEF Subagent
<1>2. ASSUME Clearing, at[0] = 0 \/ 0 \notin stale PROVE RosterInv'
  BY <1>2, LoopsAreApart, DisposeKeepsRoster, ClearRosterKeepsRoster DEF Clearing, providerVars
<1>3. CASE ClearSettled \/ ClearGoesOn
  BY <1>2, <1>3, LoopsAreApart, ThrowKeepsRoster DEF ClearSettled, ClearGoesOn, providerVars
<1>4. ASSUME NEW n \in Binds, BindProvider(n) PROVE RosterInv'
  <2>1. UNCHANGED <<bound, roster, home, status, turn, disposed, backlog, at, stale>>
    BY <1>4 DEF BindProvider, subVars, reportVars
  <2> QED
    BY <2>1 DEF RosterInv, DisposedIsOver, UnstartedRests, StartedIsKept, LoopsKeepUp,
                StartedIsHome, Started
<1>5. ASSUME NEW n \in Binds, Parked(n) PROVE RosterInv'
  BY <1>0, <1>5, IdleKeepsRoster DEF Parked, providerVars
<1>6. ASSUME NEW n \in Binds, DrainNext(n) PROVE RosterInv'
  <2>1. n \in Loops /\ UNCHANGED <<home, status>>
    BY <1>6, LoopsAreApart DEF DrainNext
  <2>2. CASE n \in stale
    BY <1>6, <2>1, <2>2, ThrowKeepsRoster DEF DrainNext
  <2>3. CASE n \notin stale /\ DisposeNext(n) /\ UNCHANGED bound
    BY <2>1, <2>3, DisposeKeepsRoster
  <2>4. CASE n \notin stale /\ ClearRoster(n)
    BY <2>1, <2>4, ClearRosterKeepsRoster
  <2> QED
    BY <1>6, <2>2, <2>3, <2>4 DEF DrainNext
<1>7. CASE UNCHANGED vars
  BY <1>7 DEF vars, providerVars, subVars, reportVars, loopVars, RosterInv, DisposedIsOver,
              UnstartedRests, StartedIsKept, LoopsKeepUp, StartedIsHome, Started
<1> QED
  BY <1>1, <1>3, <1>4, <1>5, <1>6, <1>7 DEF Next, Event, OnItsWay

-----------------------------------------------------------------------------
(* The calls of bindProvider. *)

LEMMA LastOf ==
  ASSUME NEW n \in Nat \ {0}, Asked = 1..n
  PROVE  LastAsked = Targets[n]
<1>1. n \in Asked /\ \A m \in Asked : n >= m /\ m \in Nat
  OBVIOUS
<1>2. Max(Asked) = n
  BY <1>1 DEF Max
<1> QED
  BY <1>1, <1>2 DEF LastAsked

LEMMA InitBinds == Init => BindsInv
<1> SUFFICES ASSUME Init PROVE BindsInv
  OBVIOUS
<1>1. Asked = {} /\ Asked = 1..0
  BY DEF Init, Asked
<1>2. AskedInOrder
  BY <1>1, SubagentsAssumption DEF AskedInOrder
<1>3. LiveIsLast
  BY <1>1, SubagentsAssumption DEF Init, LiveIsLast, LastAsked, Underway
<1> QED
  BY <1>1, <1>2, <1>3 DEF Init, BindsInv, ParkedInOrder, OneOnItsWay, LaterAgree, OnItsWay

(* What the other actions leave to it: at most, more loops are stale.      *)
LEMMA UnboundKeepsBinds ==
  ASSUME BindsInv, UNCHANGED <<bound, live, released, bind>>,
         \A n \in Binds : at'[n] = at[n],
         \A n \in Binds : bind[n] = "draining" /\ n \in stale => n \in stale'
  PROVE  BindsInv'
<1>1. Asked' = Asked /\ LastAsked' = LastAsked /\ OnItsWay' = OnItsWay
  BY DEF Asked, LastAsked, OnItsWay
<1>2. \A n \in Binds : Underway(n)' => Underway(n)
  BY DEF Underway
<1> QED
  BY <1>1, <1>2 DEF BindsInv, AskedInOrder, ParkedInOrder, OneOnItsWay, LaterAgree, LiveIsLast

(* A reload lets the last provider go; only then is another asked for.     *)
LEMMA BindKeepsBinds ==
  ASSUME DrivenInv, BindsInv, NEW n \in Binds, BindProvider(n)
  PROVE  BindsInv'
<1> USE DEF BindsInv
<1>1. n \in Nat \ {0} /\ n \in 1..Len(Targets) /\ Asked = 1..(n - 1) /\ Binds = 1..Len(Targets)
      /\ Binds \subseteq Nat
  BY SubagentsAssumption DEF Binds, BindProvider
<1>2. PICK e \in {"done", "parking"} : bind' = [bind EXCEPT ![n] = e]
  BY DEF BindProvider
<1>3. \A m \in Binds : m # n => bind'[m] = bind[m]
  BY <1>2 DEF DrivenInv, SubagentsTypeOK
<1>4. bind'[n] = e /\ bind[n] = "uncalled"
  <2>1. n \notin Asked
    BY <1>1
  <2> QED
    BY <1>2, <2>1 DEF Asked, DrivenInv, SubagentsTypeOK
<1>5. Asked' = 1..n
  <2>1. Asked' = Asked \union {n}
    BY <1>3, <1>4 DEF Asked
  <2> QED
    BY <1>1, <2>1
<1>6. LastAsked' = Targets[n]
  <2>1. n \in Asked' /\ \A m \in Asked' : n >= m /\ m \in Nat
    BY <1>1, <1>5
  <2>2. Max(Asked') = n
    BY <2>1 DEF Max
  <2> QED
    BY <2>1, <2>2 DEF LastAsked
<1>7. UNCHANGED <<bound, at, stale>>
  BY DEF BindProvider
<1>8. AskedInOrder'
  BY <1>1, <1>5 DEF AskedInOrder
<1>9. ParkedInOrder'
  <2>1. \A k \in Binds : bind[k] = "draining" => k \in Asked
    BY DEF Asked
  <2> QED
    BY <1>1, <1>3, <1>4, <2>1 DEF ParkedInOrder
<1>10. OnItsWay' = OnItsWay /\ OneOnItsWay'
  BY <1>3, <1>4, <1>7 DEF OnItsWay, OneOnItsWay
<1>11. n # 1 => LastAsked = Targets[n - 1]
  <2>1. n # 1 => n - 1 \in Nat \ {0}
    BY <1>1
  <2> QED
    BY <1>1, <2>1, LastOf
<1>12. /\ released \subseteq released'
       /\ Targets[n] = NoProvider /\ n # 1 => Targets[n - 1] \in released' \union {NoProvider}
  BY <1>11 DEF BindProvider
<1>13. LaterAgree'
  <2> SUFFICES ASSUME NEW k \in 1..n, NEW m \in 1..n, k < m,
                      Targets[k] \notin released' \union {NoProvider}
               PROVE  Targets[m] = Targets[k]
    BY <1>5 DEF LaterAgree
  <2>1. Targets[k] \notin released \union {NoProvider}
    BY <1>12
  <2>2. \A j \in 1..(n - 1) : k < j => Targets[j] = Targets[k]
    BY <1>1, <2>1 DEF LaterAgree
  <2>3. CASE m # n
    BY <1>1, <2>2, <2>3
  <2>4. CASE m = n
    <3>1. n # 1 /\ n - 1 \in 1..(n - 1) /\ (k = n - 1 \/ k < n - 1)
      BY <1>1, <2>4
    <3>2. Targets[n - 1] = Targets[k]
      BY <2>2, <3>1
    <3>3. Targets[n] # NoProvider
      BY <1>12, <3>1, <3>2
    <3>4. n \in DOMAIN Targets \ {1}
      BY <1>1, <3>1, SubagentsAssumption
    <3>5. Targets[n - 1] \in {NoProvider, Targets[n]}
      BY <3>3, <3>4, SubagentsAssumption
    <3> QED
      BY <2>4, <3>2, <3>5
  <2> QED
    BY <2>3, <2>4
<1>14. LiveIsLast'
  <2>1. CASE live' = NoProvider
    BY <2>1 DEF LiveIsLast
  <2>2. CASE live' # NoProvider
    <3>1. Targets[n] = bound /\ live' = live /\ e = "done"
      BY <1>2, <1>4, <2>2 DEF BindProvider
    <3>2. live = bound /\ live \notin released
      BY <2>2, <3>1 DEF LiveIsLast
    <3>3. released' = released
      BY <2>2, <3>1, <3>2 DEF BindProvider
    <3>4. \A m \in Binds : Underway(m)' => Underway(m)
      BY <1>3, <1>4, <1>7, <3>1 DEF Underway
    <3> QED
      BY <1>6, <1>7, <2>2, <3>1, <3>2, <3>3, <3>4 DEF LiveIsLast
  <2> QED
    BY <2>1, <2>2
<1> QED
  BY <1>8, <1>9, <1>10, <1>13, <1>14

LEMMA ParkedKeepsBinds ==
  ASSUME DrivenInv, BindsInv, OnItsWay = {}, NEW n \in Binds, Parked(n)
  PROVE  BindsInv'
<1> USE DEF BindsInv
<1>1. /\ bind[n] = "parking" /\ bind' = [bind EXCEPT ![n] = "draining"]
      /\ UNCHANGED <<bound, live, released, at, stale>>
      /\ \A m \in Binds : bind[m] = "parking" => n <= m
  BY DEF Parked, Foremost, providerVars
<1>2. bind'[n] = "draining" /\ \A m \in Binds : m # n => bind'[m] = bind[m]
  BY <1>1 DEF DrivenInv, SubagentsTypeOK
<1>3. Asked' = Asked
  BY <1>1, <1>2 DEF Asked
<1>4. LastAsked' = LastAsked
  BY <1>3 DEF LastAsked
<1>5. AskedInOrder' /\ LaterAgree'
  BY <1>1, <1>3 DEF AskedInOrder, LaterAgree
<1>6. Binds \subseteq Nat
  BY SubagentsAssumption DEF Binds
<1>7. ParkedInOrder'
  BY <1>1, <1>2, <1>6 DEF ParkedInOrder
<1>8. OneOnItsWay'
  BY <1>1, <1>2 DEF OneOnItsWay, OnItsWay
<1>9. \A m \in Binds : Underway(m)' => Underway(m)
  BY <1>1, <1>2 DEF Underway
<1>10. LiveIsLast'
  BY <1>1, <1>4, <1>9 DEF LiveIsLast
<1> QED
  BY <1>5, <1>7, <1>8, <1>10

(* A drain's own step: it goes on, throws, or is over and binds.           *)
LEMMA DrainKeepsBinds ==
  ASSUME DrivenInv, BindsInv, NEW n \in Binds, DrainNext(n), OnItsWay \subseteq {n}
  PROVE  BindsInv'
<1> USE DEF BindsInv
<1>1. n \in Loops /\ Binds \subseteq Loops /\ Binds \subseteq Nat /\ bind[n] = "draining"
      /\ released' = released
  BY LoopsAreApart, SubagentsAssumption DEF Binds, DrainNext
<1>2. CASE DisposeNext(n) /\ UNCHANGED <<bound, live, bind>>
  <2>1. PICK i \in Left(n) : at' = [at EXCEPT ![n] = i]
    BY <1>2 DEF DisposeNext
  <2>2. i # 0 /\ stale' = stale
    BY <1>2, <2>1 DEF DisposeNext, Left, DrivenInv, SubagentsTypeOK
  <2>3. \A m \in Binds : at'[m] = (IF m = n THEN i ELSE at[m])
    BY <1>1, <2>1 DEF DrivenInv, SubagentsTypeOK
  <2>4. OneOnItsWay'
    BY <1>2, <2>2, <2>3 DEF OneOnItsWay, OnItsWay
  <2>5. Asked' = Asked /\ LastAsked' = LastAsked
    BY <1>2 DEF Asked, LastAsked
  <2>6. \A m \in Binds : Underway(m)' => Underway(m)
    BY <1>2, <2>2 DEF Underway
  <2> QED
    BY <1>1, <1>2, <2>4, <2>5, <2>6 DEF AskedInOrder, ParkedInOrder, LaterAgree, LiveIsLast
<1>3. ASSUME NEW e \in {"done", "failed"}, bind' = [bind EXCEPT ![n] = e],
             at' = [at EXCEPT ![n] = 0]
      PROVE  /\ Asked' = Asked /\ LastAsked' = LastAsked
             /\ AskedInOrder' /\ ParkedInOrder' /\ OneOnItsWay' /\ LaterAgree'
             /\ bind'[n] = e /\ \A m \in Binds : m # n => bind'[m] = bind[m]
  <2>1. bind'[n] = e /\ \A m \in Binds : m # n => bind'[m] = bind[m]
    BY <1>3 DEF DrivenInv, SubagentsTypeOK
  <2>2. Asked' = Asked
    BY <1>1, <2>1 DEF Asked
  <2>3. LastAsked' = LastAsked
    BY <2>2 DEF LastAsked
  <2>4. \A m \in Binds : m # n => at'[m] = at[m]
    BY <1>1, <1>3 DEF DrivenInv, SubagentsTypeOK
  <2>5. OnItsWay' = {}
    BY <2>1, <2>4 DEF OnItsWay
  <2> QED
    BY <1>1, <2>1, <2>2, <2>3, <2>5 DEF AskedInOrder, ParkedInOrder, OneOnItsWay, LaterAgree
<1>4. CASE LoopThrows(n) /\ bind' = [bind EXCEPT ![n] = "failed"] /\ UNCHANGED <<bound, live>>
  <2>1. at' = [at EXCEPT ![n] = 0] /\ stale' = stale \ {n}
    BY <1>4 DEF LoopThrows
  <2>2. /\ LastAsked' = LastAsked
        /\ AskedInOrder' /\ ParkedInOrder' /\ OneOnItsWay' /\ LaterAgree'
        /\ bind'[n] = "failed" /\ \A m \in Binds : m # n => bind'[m] = bind[m]
    BY <1>3, <1>4, <2>1
  <2>3. \A m \in Binds : Underway(m)' => Underway(m)
    BY <2>1, <2>2 DEF Underway
  <2> QED
    BY <1>1, <1>4, <2>2, <2>3 DEF LiveIsLast
<1>5. CASE n \notin stale /\ ClearRoster(n) /\ Rebound(n)
  <2>1. /\ at' = [at EXCEPT ![n] = 0] /\ stale' = (stale \union Waiting) \ {n}
        /\ bind' = [bind EXCEPT ![n] = "done"] /\ bound' = Targets[n]
        /\ live' = IF Targets[n] \in released \union {NoProvider} THEN live ELSE Targets[n]
    BY <1>5 DEF ClearRoster, Rebound
  <2>2. /\ Asked' = Asked /\ LastAsked' = LastAsked
        /\ AskedInOrder' /\ ParkedInOrder' /\ OneOnItsWay' /\ LaterAgree'
        /\ bind'[n] = "done" /\ \A m \in Binds : m # n => bind'[m] = bind[m]
    BY <1>3, <2>1
  <2>3. \A m \in Binds : Underway(m)' => bind[m] = "parking" /\ n < m
    <3> SUFFICES ASSUME NEW m \in Binds, Underway(m)' PROVE bind[m] = "parking" /\ n < m
      OBVIOUS
    <3>1. m # n /\ bind'[m] = bind[m]
      BY <2>2 DEF Underway
    <3>2. CASE bind[m] = "draining"
      <4>1. m \notin OnItsWay
        BY <3>1
      <4>2. m \in Waiting
        BY <1>1, <3>2, <4>1 DEF OnItsWay, Waiting
      <4> QED
        BY <2>1, <3>1, <3>2, <4>2 DEF Underway
    <3>3. CASE bind[m] = "parking"
      BY <1>1, <3>3 DEF ParkedInOrder
    <3> QED
      BY <3>1, <3>2, <3>3 DEF Underway
  <2>4. CASE live # NoProvider
    <3>1. /\ Targets[n] = live /\ live = LastAsked /\ live \notin released
          /\ \A m \in Binds : Underway(m) => Targets[m] = live
      BY <1>1, <1>5, <2>4 DEF LiveIsLast, Underway
    <3>2. live' = live /\ bound' = live
      BY <2>1, <3>1
    <3>3. \A m \in Binds : Underway(m)' => Underway(m)
      BY <2>3 DEF Underway
    <3>4. LiveIsLast'
      BY <1>1, <2>2, <3>1, <3>2, <3>3 DEF LiveIsLast
    <3> QED
      BY <2>2, <3>4
  <2>5. CASE live = NoProvider
    <3>1. CASE Targets[n] \in released \union {NoProvider}
      BY <2>1, <2>2, <2>5, <3>1 DEF LiveIsLast
    <3>2. CASE Targets[n] \notin released \union {NoProvider}
      <4>1. n \in Asked /\ \A m \in Asked : n < m => Targets[m] = Targets[n]
        BY <1>1, <3>2 DEF Asked, LaterAgree
      <4>2. PICK k \in 0..Len(Targets) : Asked = 1..k
        BY DEF AskedInOrder
      <4>3. k \in Nat \ {0} /\ k \in Asked /\ (k = n \/ n < k)
        BY <4>1, <4>2, SubagentsAssumption
      <4>4. LastAsked = Targets[n]
        BY <4>1, <4>2, <4>3, LastOf
      <4>5. live' = Targets[n]
        BY <2>1, <3>2
      <4>6. \A m \in Binds : Underway(m)' => Targets[m] = Targets[n]
        <5> SUFFICES ASSUME NEW m \in Binds, Underway(m)' PROVE Targets[m] = Targets[n]
          OBVIOUS
        <5>1. m \in Asked /\ n < m
          BY <2>3 DEF Asked
        <5> QED
          BY <4>1, <5>1
      <4>7. LiveIsLast'
        BY <1>1, <2>1, <2>2, <3>2, <4>4, <4>5, <4>6 DEF LiveIsLast
      <4> QED
        BY <2>2, <4>7
    <3> QED
      BY <3>1, <3>2
  <2> QED
    BY <2>4, <2>5
<1> QED
  BY <1>2, <1>4, <1>5 DEF DrainNext

LEMMA StepKeepsBinds == DrivenInv /\ BindsInv /\ [Next]_vars => BindsInv'
<1> SUFFICES ASSUME DrivenInv, BindsInv, [Next]_vars PROVE BindsInv'
  OBVIOUS
<1>1. ASSUME NEW c \in Calls, OnItsWay = {}, Subagent(c) PROVE BindsInv'
  <2>1. CASE StartSubagent(c)
    <3>1. UNCHANGED <<bound, live, released, bind, at>> /\ stale' = Waiting
      BY <2>1 DEF StartSubagent, providerVars
    <3>2. \A n \in Binds : bind[n] = "draining" => n \in stale'
      BY <1>1, <3>1, LoopsAreApart DEF OnItsWay, Waiting
    <3> QED
      BY <3>1, <3>2, UnboundKeepsBinds
  <2>2. CASE ~StartSubagent(c)
    <3>1. UNCHANGED <<bound, live, released, bind, at, stale>>
      BY <1>1, <2>2 DEF Subagent, StartRejected, TurnEnds, StopSubagent, DeliverReport,
                        providerVars, loopVars
    <3> QED
      BY <3>1, UnboundKeepsBinds
  <2> QED
    BY <2>1, <2>2
<1>2. CASE ClearSettled \/ ClearGoesOn
  <2>1. UNCHANGED <<bound, live, released, bind>>
    BY <1>2 DEF ClearSettled, ClearGoesOn, Clearing, providerVars
  <2>2. /\ \E i : at' = [at EXCEPT ![0] = i]
        /\ stale' \in {stale, (stale \union Waiting) \ {0}, stale \ {0}}
    BY <1>2 DEF ClearSettled, ClearGoesOn, Clearing, DisposeNext, ClearRoster, LoopThrows
  <2>3. \A n \in Binds : at'[n] = at[n] /\ (n \in stale => n \in stale')
    BY <2>2, LoopsAreApart DEF DrivenInv, SubagentsTypeOK
  <2> QED
    BY <2>1, <2>3, UnboundKeepsBinds
<1>3. ASSUME NEW n \in Binds, OnItsWay = {}, BindProvider(n) \/ Parked(n) PROVE BindsInv'
  BY <1>3, BindKeepsBinds, ParkedKeepsBinds
<1>4. ASSUME NEW n \in Binds, DrainNext(n), OnItsWay = {} \/ n \in OnItsWay PROVE BindsInv'
  <2>1. OnItsWay \subseteq {n}
    BY <1>4 DEF BindsInv, OneOnItsWay
  <2> QED
    BY <1>4, <2>1, DrainKeepsBinds
<1>5. CASE UNCHANGED vars
  BY <1>5, UnboundKeepsBinds DEF vars, providerVars, loopVars
<1>6. \A n \in OnItsWay : n \in Binds
  BY DEF OnItsWay
<1> QED
  BY <1>1, <1>2, <1>3, <1>4, <1>5, <1>6 DEF Next, Event

(***************************************************************************)
(* The roster and the calls of bindProvider, however they overlap: who is  *)
(* started and not disposed of is on the roster and at home, and no call   *)
(* that may still bind will bind another provider than the live one.       *)
(***************************************************************************)
THEOREM BoundInvariance == Spec => []BoundInv
<1>1. Init => BoundInv
  BY InitDriven, InitRoster, InitBinds DEF BoundInv
<1>2. BoundInv /\ [Next]_vars => BoundInv'
  BY StepKeepsDriven, StepKeepsRoster, StepKeepsBinds DEF BoundInv
<1> QED
  BY <1>1, <1>2, PTL DEF Spec

(***************************************************************************)
(* Nothing runs on a provider that is not bound (agent_repository.dart:    *)
(* 239-258, 539-556): for any number of reloads with their calls of        *)
(* bindProvider in any order, whichever of them throw.                     *)
(***************************************************************************)
THEOREM BoundAlone == Spec => []OnlyTheBoundRuns
<1>1. BoundInv => OnlyTheBoundRuns
  <2> SUFFICES ASSUME BoundInv PROVE OnlyTheBoundRuns
    OBVIOUS
  <2>1. live \in {NoProvider, bound}
    BY DEF BoundInv, BindsInv, LiveIsLast
  <2>2. ASSUME NEW c \in Calls, turn[c] # "none" PROVE home[c] = bound
    BY <2>2 DEF BoundInv, RosterInv, DisposedIsOver, UnstartedRests, StartedIsHome
  <2> QED
    BY <2>1, <2>2 DEF OnlyTheBoundRuns
<1> QED
  BY <1>1, BoundInvariance, PTL

=============================================================================
