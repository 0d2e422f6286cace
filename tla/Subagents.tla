----------------------------- MODULE Subagents -----------------------------
(***************************************************************************)
(* The AgentRepository's subagents: how they are dispatched, stopped,      *)
(* settled and cleared, the reports of the jobs they leave running, and    *)
(* the calls of bindProvider that drain them while providers come and go.  *)
(*                                                                         *)
(* One action is one event with all the microtasks it leads to, up to the  *)
(* writes of journals that dispose waits for: only there do the calls of   *)
(* bindProvider and clearSettledSubagents interleave with other events.    *)
(***************************************************************************)
EXTENDS Naturals, Sequences, SequencesExt, FiniteSetsExt

CONSTANTS
  Calls,       \* the calls that dispatch a subagent, each of them once
  Targets,     \* the providers bindProvider is called with, in order
  First,       \* the provider bound at first
  NoProvider,  \* null
  MaxAgents,   \* the subagents a provider has room for beside its primary
  MaxReports   \* bounds the reports of a subagent's background jobs

\* A reload is announced before a provider goes, and another is attached
\* only after it (provider_repository.dart:62-77): null is in between.
ASSUME SubagentsAssumption ==
  /\ First # NoProvider
  /\ MaxAgents \in Nat /\ MaxReports \in Nat
  /\ Targets \in Seq(Range(Targets) \union {NoProvider})
  /\ \A n \in DOMAIN Targets \ {1} :
       Targets[n] # NoProvider => Targets[n - 1] \in {NoProvider, Targets[n]}

Binds     == DOMAIN Targets
Providers == (Range(Targets) \union {First}) \ {NoProvider}

(* What goes through _subagents.values and waits in between: the call of   *)
(* clearSettledSubagents, 0, and the calls of bindProvider.                *)
Loops == {0} \union Binds

VARIABLES
  bound,     \* _provider
  live,      \* the provider of the primary's agent; NoProvider: a placeholder
  released,  \* the providers that are disposed of
  records,   \* the subagents each provider has a record of
  home,      \* the provider each subagent was started on
  roster,    \* the keys of _subagents, in their order
  status,    \* each subagent's status, and so the outcome its job was told
  turn,      \* the turn in flight of each subagent's session
  disposed,  \* the subagents whose session is disposed of
  backlog,   \* how many reports wait in each subagent's delivery
  reports,   \* how many reports each subagent was sent
  orphaned,  \* the subagents with a report in their history and no turn for it
  bind,      \* where each call of bindProvider is
  at,        \* the place in the roster where each loop waits; 0: in no loop
  stale      \* the loops under way when the roster was changed

providerVars == <<bound, live, released>>
subVars      == <<roster, home, status, turn, disposed>>
reportVars   == <<backlog, reports, orphaned>>
loopVars     == <<bind, at, stale>>
vars         == <<providerVars, records, subVars, reportVars, loopVars>>

Running  == {c \in Calls : status[c] = "running"}
Waiting  == {l \in Loops : at[l] # 0}
BindsOver == \A n \in Binds : bind[n] \in {"uncalled", "done", "failed"}
Asked    == {n \in Binds : bind[n] # "uncalled"}
LastAsked == IF Asked = {} THEN First ELSE Targets[Max(Asked)]

Init ==
  /\ bound = First /\ live = First /\ released = {}
  /\ records = [p \in Providers |-> {}]
  /\ home = [c \in Calls |-> NoProvider]
  /\ roster = <<>>
  /\ status = [c \in Calls |-> "none"]
  /\ turn = [c \in Calls |-> "none"]
  /\ disposed = {} /\ orphaned = {}
  /\ backlog = [c \in Calls |-> 0] /\ reports = [c \in Calls |-> 0]
  /\ bind = [n \in Binds |-> "uncalled"]
  /\ at = [l \in Loops |-> 0] /\ stale = {}

(***************************************************************************)
(* startSubagent, asked for by a tool call of the primary's turn: a full   *)
(* provider refuses; otherwise the subagent joins the roster and its run   *)
(* begins its turn.                                                        *)
(***************************************************************************)
StartRejected(c) ==
  /\ live # NoProvider
  /\ status[c] = "none"
  /\ bound = NoProvider \/ Cardinality(records[bound]) >= MaxAgents
  /\ status' = [status EXCEPT ![c] = "refused"]
  /\ UNCHANGED <<providerVars, records, roster, home, turn, disposed, reportVars, loopVars>>

StartSubagent(c) ==
  /\ live # NoProvider /\ bound # NoProvider
  /\ status[c] = "none"
  /\ Cardinality(records[bound]) < MaxAgents
  /\ records' = [records EXCEPT ![bound] = @ \union {c}]
  /\ home' = [home EXCEPT ![c] = bound]
  /\ roster' = Append(roster, c)
  /\ status' = [status EXCEPT ![c] = "running"]
  /\ turn' = [turn EXCEPT ![c] = "run"]
  /\ stale' = Waiting
  /\ UNCHANGED <<providerVars, disposed, reportVars, bind, at>>

(***************************************************************************)
(* The subagents cs reach an idle edge.  The delivery listens first: what  *)
(* waits there begins a turn, which a provider that still has the agent    *)
(* takes, and any other refuses with the report already in the history,    *)
(* where its session's own idle edges may write it again: here it is       *)
(* enough that it is there.                                                *)
(* Only then does the run of a running subagent settle: disposeAgent is    *)
(* refused while the agent runs, and its answer is not looked at.          *)
(***************************************************************************)
HasAgent(c)  == home[c] \in Providers /\ c \in records[home[c]]
Delivered(c) == backlog[c] > 0 /\ HasAgent(c)

IdleEdge(cs, outcomes) ==
  LET settling == cs \intersect Running
      resumed  == {c \in cs : Delivered(c)}
      parting  == settling \ resumed
  IN  /\ turn' = [c \in Calls |-> IF c \in resumed THEN "delivery"
                                  ELSE IF c \in cs THEN "none" ELSE turn[c]]
      /\ backlog' = [c \in Calls |-> IF c \in resumed THEN 0 ELSE backlog[c]]
      /\ orphaned' = orphaned \union {c \in cs \ resumed : backlog[c] > 0}
      /\ records' = [p \in Providers |-> records[p] \ parting]
      /\ \E outcome \in [settling -> outcomes] :
           status' = [c \in Calls |-> IF c \in settling THEN outcome[c] ELSE status[c]]

(* A turn ends as its model, its network or its provider ends it. *)
TurnEnds(c) ==
  /\ turn[c] # "none"
  /\ IdleEdge({c}, {"completed", "failed"})
  /\ UNCHANGED <<providerVars, roster, home, disposed, reports, loopVars>>

(* stopSubagent: a run that was stopped settles as a failure. *)
StopSubagent(c) ==
  /\ status[c] = "running"
  /\ IdleEdge({c}, {"failed"})
  /\ UNCHANGED <<providerVars, roster, home, disposed, reports, loopVars>>

(***************************************************************************)
(* deliverReport for a job a subagent left running.  A report to a session *)
(* that is disposed of is dropped, one to a session in a turn waits, and   *)
(* so does one behind others; any other begins a turn.                     *)
(***************************************************************************)
DeliverReport(c) ==
  /\ status[c] \notin {"none", "refused"} /\ reports[c] < MaxReports
  /\ reports' = [reports EXCEPT ![c] = @ + 1]
  /\ IF c \in disposed
     THEN UNCHANGED <<turn, backlog, orphaned>>
     ELSE LET begins == turn[c] = "none" /\ backlog[c] = 0
              taken  == begins /\ HasAgent(c)
          IN  /\ turn' = IF taken THEN [turn EXCEPT ![c] = "delivery"] ELSE turn
              /\ backlog' = IF taken THEN backlog ELSE [backlog EXCEPT ![c] = @ + 1]
              /\ orphaned' = IF begins /\ ~taken THEN orphaned \union {c} ELSE orphaned
  /\ UNCHANGED <<providerVars, records, roster, home, status, disposed, loopVars>>

(***************************************************************************)
(* A loop over the roster: the next session is disposed of, with the turn  *)
(* it is in and the reports that wait for it, and the loop waits until its *)
(* history is written.  dispose returns at once for a session another loop *)
(* has disposed of.  A loop that comes back to a roster changed meanwhile  *)
(* throws a ConcurrentModificationError.                                   *)
(***************************************************************************)
Left(l) == {i \in DOMAIN roster : i > at[l] /\ roster[i] \notin disposed}

DisposeNext(l) ==
  \E i \in Left(l) :
    /\ \A j \in Left(l) : i <= j
    /\ at' = [at EXCEPT ![l] = i]
    /\ disposed' = disposed \union {roster[i]}
    /\ turn' = [turn EXCEPT ![roster[i]] = "none"]
    /\ backlog' = [backlog EXCEPT ![roster[i]] = 0]
    /\ UNCHANGED <<roster, stale>>

ClearRoster(l) ==
  /\ Left(l) = {}
  /\ roster' = <<>>
  /\ at' = [at EXCEPT ![l] = 0]
  /\ stale' = (stale \union Waiting) \ {l}
  /\ UNCHANGED <<disposed, turn, backlog>>

LoopThrows(l) ==
  /\ at' = [at EXCEPT ![l] = 0]
  /\ stale' = stale \ {l}
  /\ UNCHANGED <<roster, disposed, turn, backlog>>

(* clearSettledSubagents, which the user's next message asks for; one call *)
(* of it at a time.                                                        *)
Clearing ==
  /\ DisposeNext(0) \/ ClearRoster(0)
  /\ UNCHANGED <<providerVars, records, home, status, reports, orphaned, bind>>

(* Mutated form of ClearSettled: whatever still runs is dropped as well. *)
ClearAll ==
  /\ live # NoProvider
  /\ at[0] = 0 /\ roster # <<>>
  /\ Clearing

ClearSettled ==
  /\ live # NoProvider
  /\ at[0] = 0 /\ roster # <<>>
  /\ Running = {}
  /\ Clearing

ClearGoesOn ==
  /\ at[0] # 0
  /\ IF 0 \in stale
     THEN /\ LoopThrows(0)
          /\ UNCHANGED <<providerVars, records, home, status, reports, orphaned, bind>>
     ELSE Clearing

(***************************************************************************)
(* bindProvider, first part: the primary is parked, with the turn it was   *)
(* in.  A reload, the call with null, is told just before the provider     *)
(* that was attached last is disposed of.                                  *)
(***************************************************************************)
BindProvider(n) ==
  /\ Asked = 1..(n - 1)
  /\ IF Targets[n] = bound
     THEN bind' = [bind EXCEPT ![n] = "done"] /\ UNCHANGED live
     ELSE bind' = [bind EXCEPT ![n] = "parking"] /\ live' = NoProvider
  /\ IF Targets[n] = NoProvider
     THEN LET gone == {LastAsked} \ {NoProvider}
          IN  /\ released' = released \union gone
              /\ records' = [p \in Providers |-> IF p \in gone THEN {} ELSE records[p]]
     ELSE UNCHANGED <<released, records>>
  /\ UNCHANGED <<bound, subVars, reportVars, at, stale>>

(***************************************************************************)
(* The primary's history is written: one file, so the calls come back in   *)
(* the order they were made.  _drainSubagents stops what runs, and with an *)
(* empty roster is over at once.                                           *)
(***************************************************************************)
Foremost(n) == \A m \in Binds : bind[m] = "parking" => n <= m

(* Mutated form of Parked: the runs are waited for by nobody. *)
ParkedUnstopped(n) ==
  /\ bind[n] = "parking" /\ Foremost(n)
  /\ bind' = [bind EXCEPT ![n] = "draining"]
  /\ UNCHANGED <<providerVars, records, subVars, reportVars, at, stale>>

Parked(n) ==
  /\ bind[n] = "parking" /\ Foremost(n)
  /\ bind' = [bind EXCEPT ![n] = "draining"]
  /\ IdleEdge(Running, {"failed"})
  /\ UNCHANGED <<providerVars, roster, home, disposed, reports, at, stale>>

(* The rest of bindProvider: a provider starts a primary of its own. *)
Rebound(n) ==
  /\ bound' = Targets[n]
  /\ live' = IF Targets[n] \in released \union {NoProvider} THEN live ELSE Targets[n]
  /\ bind' = [bind EXCEPT ![n] = "done"]

(* Mutated form of DrainNext: the loop goes through a copy of the roster. *)
DrainNextOfCopy(n) ==
  /\ bind[n] = "draining"
  /\ \/ DisposeNext(n) /\ UNCHANGED <<bound, live, bind>>
     \/ ClearRoster(n) /\ Rebound(n)
  /\ UNCHANGED <<released, records, home, status, reports, orphaned>>

DrainNext(n) ==
  /\ bind[n] = "draining"
  /\ IF n \in stale
     THEN LoopThrows(n) /\ bind' = [bind EXCEPT ![n] = "failed"] /\ UNCHANGED <<bound, live>>
     ELSE \/ DisposeNext(n) /\ UNCHANGED <<bound, live, bind>>
          \/ ClearRoster(n) /\ Rebound(n)
  /\ UNCHANGED <<released, records, home, status, reports, orphaned>>

Subagent(c) ==
  \/ StartSubagent(c) \/ StartRejected(c)
  \/ TurnEnds(c) \/ StopSubagent(c) \/ DeliverReport(c)

(* Between the end of its parking and its first write a call of            *)
(* bindProvider waits for microtasks only: nothing comes in between.       *)
OnItsWay == {n \in Binds : bind[n] = "draining" /\ at[n] = 0}

Event ==
  \/ \E c \in Calls : Subagent(c)
  \/ ClearSettled \/ ClearGoesOn
  \/ \E n \in Binds : BindProvider(n) \/ Parked(n) \/ DrainNext(n)

Next ==
  \/ OnItsWay = {} /\ Event
  \/ \E n \in OnItsWay : DrainNext(n)

Spec == Init /\ [][Next]_vars

(* A model, a network or a provider ends each turn, and writes end. *)
FairSpec ==
  /\ Spec
  /\ \A c \in Calls : WF_vars(TurnEnds(c))
  /\ WF_vars(ClearGoesOn)
  /\ \A n \in Binds : WF_vars(Parked(n)) /\ WF_vars(DrainNext(n))

(***************************************************************************)
(* A subagent marked running is on the roster with a session that is in    *)
(* its first turn and, unless its provider is gone, with the agent that    *)
(* runs it: so a stop and a drain reach it.                                *)
(***************************************************************************)
RunningIsDriven ==
  \A c \in Running :
    /\ \E i \in DOMAIN roster : roster[i] = c
    /\ c \notin disposed
    /\ turn[c] = "run"
    /\ HasAgent(c) \/ home[c] \in released

(***************************************************************************)
(* What runs, runs on the bound provider, though calls of bindProvider     *)
(* overlap and throw: the primary, and the turns and the deliveries of the *)
(* subagents, whose sessions a call disposes of before it binds another.   *)
(***************************************************************************)
OnlyTheBoundRuns ==
  /\ live \in {NoProvider, bound}
  /\ \A c \in Calls : turn[c] # "none" => home[c] = bound

(* Every subagent's job is told an outcome, whatever is stopped, cleared   *)
(* and rebound meanwhile.                                                  *)
EveryRunSettles == \A c \in Calls : status[c] = "running" ~> status[c] # "running"

(***************************************************************************)
(* What bindProvider's comment says: binding a provider swaps in a live    *)
(* session.  So once no call is under way, the provider attached last is   *)
(* bound, unless it is gone.                                               *)
(***************************************************************************)
AttachedIsBound ==
  (BindsOver /\ LastAsked \notin released \union {NoProvider}) => bound = LastAsked

(* What _drainSubagents' comment says: a detached run that settles         *)
(* releases the claim.  So an agent no turn runs on is not kept.           *)
SettledReleasesClaim ==
  \A c \in Calls : HasAgent(c) => status[c] = "running" \/ turn[c] # "none"

(* What beginDeliveryTurn's comment says, no orphan entry: a report is in  *)
(* the history only with a turn that answers it.                           *)
NoOrphanEntry == orphaned = {}
=============================================================================
