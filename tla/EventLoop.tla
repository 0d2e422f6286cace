----------------------------- MODULE EventLoop -----------------------------
(***************************************************************************)
(* The event loop everything but the worker isolates runs on.  A handler   *)
(* runs to its end without interleaving; what it leaves for later is a     *)
(* microtask, and input from outside (the user, the network, a tool, a     *)
(* file) is taken only when no microtask is left.                          *)
(*                                                                         *)
(* A microtask runs first in, first out.  The continuation of an await and *)
(* the delivery of a state to a listener may take some rounds more than    *)
(* the ones the queue alone would give them: a task of that kind chooses   *)
(* how often it is put back.                                               *)
(*                                                                         *)
(* The events of an agent reach its session over a broadcast stream, which *)
(* has a queue of its own and delivers one event per microtask.            *)
(***************************************************************************)
EXTENDS Naturals, Sequences

CONSTANT MaxHops  \* bounds how often a task is put back

ASSUME HopsAssumption == MaxHops \in Nat

VARIABLES
  micro,  \* the microtask queue
  inbox   \* events added to the agent's stream and not delivered yet

loopVars == <<micro, inbox>>

Task(name, arg)   == [does |-> <<name, arg>>, hops |-> 0]
DeliverTask       == Task("deliver", <<>>)
At(name)          == micro # <<>> /\ Head(micro).does[1] = name /\ Head(micro).hops = 0
Arg               == Head(micro).does[2]

(* Nothing is left to run: the loop waits for input.                       *)
AtRest == micro = <<>>

LoopInit == micro = <<>> /\ inbox = <<>>

(* What is in the two queues once the running handler's own part is taken. *)
Rest     == IF AtRest THEN <<>> ELSE Tail(micro)
InRest   == IF At("deliver") THEN Tail(inbox) ELSE inbox
When(b)  == IF b THEN <<DeliverTask>> ELSE <<>>

(* Tasks that are microtasks of their own rather than continuations.       *)
Direct == {"deliver", "teardown"}

Hopped(tasks) ==
  LET rounds == {h \in [DOMAIN tasks -> 0..MaxHops] :
                   \A i \in DOMAIN tasks : tasks[i].does[1] \in Direct => h[i] = 0}
  IN  {[i \in DOMAIN tasks |-> [tasks[i] EXCEPT !.hops = h[i]]] : h \in rounds}

(***************************************************************************)
(* The end of a handler that left the tasks `before`, then added `events`  *)
(* to the stream, then left the tasks `after`.  A stream with nothing      *)
(* pending schedules its delivery when an event is added; one that is      *)
(* delivering schedules the next delivery when the listener has returned.  *)
(***************************************************************************)
After(before, events, after) ==
  /\ inbox' = InRest \o events
  /\ \E b \in Hopped(before), a \in Hopped(after) :
       micro' = IF At("deliver")
                THEN Rest \o b \o a \o When(InRest \o events # <<>>)
                ELSE Rest \o b \o When(inbox = <<>> /\ events # <<>>) \o a

(* A task that takes another round. *)
Hop ==
  /\ ~AtRest
  /\ Head(micro).hops > 0
  /\ micro' = Append(Tail(micro), [Head(micro) EXCEPT !.hops = @ - 1])
  /\ UNCHANGED inbox
=============================================================================
