------------------------- MODULE AgentSessionProofs -------------------------
(***************************************************************************)
(* The primary session and the runtime it drives: proofs.                  *)
(*                                                                         *)
(* The session learns what the runtime does from events that wait in a     *)
(* queue, the runtime learns what the session wants from calls that are    *)
(* made at once, and the buffer of reports hears of both from microtasks.  *)
(* IInv says what is on its way between them: events wait exactly when one *)
(* delivery is queued; a session that runs a turn the runtime has ended    *)
(* has the event of that end in its queue, as the last one; at most one    *)
(* turn is about to be resumed; and the buffer is delivering exactly while *)
(* one answer to it is queued.                                             *)
(*                                                                         *)
(* AInv says what is asked and answered: no call is made twice, the calls  *)
(* of a step are joined at most once and by their own answers, and unless  *)
(* the history is swapped under the turn the join is on its way from the   *)
(* moment the step ends until its answers are in the transcript.           *)
(***************************************************************************)
EXTENDS AgentSession, FiniteSetTheorems, TLAPS

-----------------------------------------------------------------------------
(* The entries of a turn, the events and the tasks there can be.  A run()  *)
(* that is refused is not among the tasks: none ever is.                   *)
Hows        == Requests \cup {"interrupted"}
Answers     == [kind : {"answer"}, call : Calls, how : Hows]
Models      == [kind : {"model"}, id : Nat, calls : Seq(Calls)]
TurnEntries == Models \cup Answers \cup {SummaryEntry}

Events ==
  ({"started", "updated", "completed", "cancelled"} \X Seq(TurnEntries))
    \cup ({"failed", "folded", "needs prompt"} \X {<<>>})
    \cup ({"call"} \X [id : Nat, call : Calls])
    \cup ({"needs results"} \X Models)
    \cup ({"answer"} \X Answers)

Froms     == {"user", "delivery"}
Delivers  == {<<"deliver", <<>>>>}
Idles     == {<<"idled", <<>>>>}
Teardowns == {"teardown"} \X (1..2)
Joins     == {"joined"} \X Seq(Answers)
Resumes   == {"resume"} \X [goal : Goals, from : Froms]
Runs      == {"ran"} \X [ok : {TRUE}, from : Froms]
Verdicts  == {"resolved"} \X BOOLEAN

Doings == Delivers \cup Idles \cup Teardowns \cup Joins \cup Resumes \cup Runs \cup Verdicts

Tasks == {t \in [does : Doings, hops : Nat] : t.does \in Delivers => t.hops = 0}

TeardownsOf(k) == {<<"teardown", k>>}
UserResumes    == {d \in Resumes : d[2].from = "user"}
Refusals       == {d \in Verdicts : d[2] = FALSE}
OtherThings    == Doings \ Refusals

(* What a delivery turn leaves in the queue until the buffer is told.      *)
Tokens == Verdicts \cup {d \in Resumes \cup Runs : d[2].from = "delivery"}

Ends    == {"completed", "failed", "cancelled"}
Prompts == {"needs prompt"}

Wanted   == {"needs results"}
CallNews == {"call"}

-----------------------------------------------------------------------------
(* Some task of q does one of the things in S; at most one does.           *)
Has(S, q)  == \E i \in DOMAIN q : q[i].does \in S
Lone(S, q) == \A i, j \in DOMAIN q : q[i].does \in S /\ q[j].does \in S => i = j

(* Some event of q has one of the names in N; only the last one has.       *)
Told(N, q)     == \E i \in DOMAIN q : q[i][1] \in N
ToldLast(N, q) == \A i \in DOMAIN q : q[i][1] \in N => i = Len(q)

(* The indices of a concatenation and of a tail.                           *)
Indices(q, r) ==
  /\ Len(q) \in Nat /\ Len(r) \in Nat /\ Len(q \o r) = Len(q) + Len(r)
  /\ \A i \in DOMAIN q : i \in DOMAIN (q \o r) /\ (q \o r)[i] = q[i]
  /\ \A i \in DOMAIN r : /\ i \in Nat /\ i + Len(q) \in DOMAIN (q \o r)
                         /\ (q \o r)[i + Len(q)] = r[i]
                         /\ i + Len(q) \notin DOMAIN q
  /\ \A i \in DOMAIN (q \o r) :
       i \in DOMAIN q \/ (i - Len(q) \in DOMAIN r /\ i = (i - Len(q)) + Len(q))

(* The elements of q \o r are those of q, then those of r.                 *)
LEMMA ConcatIndices ==
  ASSUME NEW T, NEW q \in Seq(T), NEW r \in Seq(T)
  PROVE  Indices(q, r) /\ q \o r \in Seq(T)
<1>1. /\ DOMAIN q = 1..Len(q) /\ DOMAIN r = 1..Len(r)
      /\ DOMAIN (q \o r) = 1..(Len(q) + Len(r))
      /\ Len(q) \in Nat /\ Len(r) \in Nat
  OBVIOUS
<1> QED
  BY <1>1 DEF Indices

(* The tail of a sequence holds all of it but its head.                    *)
LEMMA TailIndices ==
  ASSUME NEW T, NEW q \in Seq(T), q # <<>>
  PROVE  /\ Head(q) \in T /\ Head(q) = q[1] /\ 1 \in DOMAIN q
         /\ Tail(q) \in Seq(T) /\ Len(Tail(q)) = Len(q) - 1
         /\ Len(q) \in Nat \ {0}
         /\ \A i \in DOMAIN Tail(q) : /\ i \in Nat /\ i + 1 \in DOMAIN q /\ i + 1 # 1
                                      /\ Tail(q)[i] = q[i + 1]
         /\ \A i \in DOMAIN q : i = 1 \/ (i - 1 \in DOMAIN Tail(q) /\ i = (i - 1) + 1)
<1>1. /\ DOMAIN q = 1..Len(q) /\ Len(q) \in Nat /\ Len(q) # 0 /\ Head(q) = q[1]
      /\ DOMAIN Tail(q) = 1..(Len(q) - 1) /\ 1 \in DOMAIN q
      /\ \A i \in DOMAIN Tail(q) : Tail(q)[i] = q[i + 1]
      /\ Tail(q) \in Seq(T) /\ Len(Tail(q)) = Len(q) - 1 /\ Head(q) \in T
  OBVIOUS
<1> QED
  BY <1>1

(* What two queues do, one after the other.                                *)
LEMMA HasJoined ==
  ASSUME NEW S, NEW T, NEW q \in Seq(T), NEW r \in Seq(T)
  PROVE  /\ Has(S, q \o r) <=> Has(S, q) \/ Has(S, r)
         /\ Lone(S, q \o r) <=> Lone(S, q) /\ Lone(S, r) /\ ~(Has(S, q) /\ Has(S, r))
<1>0. Indices(q, r)
  BY ConcatIndices
<1>1. Has(S, q \o r) <=> Has(S, q) \/ Has(S, r)
  BY <1>0 DEF Indices, Has
<1>2. ASSUME Lone(S, q \o r) PROVE Lone(S, q) /\ Lone(S, r) /\ ~(Has(S, q) /\ Has(S, r))
  <2>1. Lone(S, q)
    BY <1>2, <1>0 DEF Indices, Lone
  <2>2. Lone(S, r)
    <3> SUFFICES ASSUME NEW i \in DOMAIN r, NEW j \in DOMAIN r, r[i].does \in S, r[j].does \in S
                 PROVE  i = j
      BY DEF Lone
    <3>1. i + Len(q) = j + Len(q)
      BY <1>2, <1>0 DEF Indices, Lone
    <3>2. Len(q) \in Nat /\ i \in Nat /\ j \in Nat
      OBVIOUS
    <3> QED
      BY <3>1, <3>2
  <2>3. ~(Has(S, q) /\ Has(S, r))
    BY <1>2, <1>0 DEF Indices, Lone, Has
  <2> QED
    BY <2>1, <2>2, <2>3
<1>3. ASSUME Lone(S, q), Lone(S, r), ~(Has(S, q) /\ Has(S, r)) PROVE Lone(S, q \o r)
  <2> SUFFICES ASSUME NEW i \in DOMAIN (q \o r), NEW j \in DOMAIN (q \o r),
                      (q \o r)[i].does \in S, (q \o r)[j].does \in S
               PROVE  i = j
    BY DEF Lone
  <2> QED
    BY <1>3, <1>0 DEF Indices, Lone, Has
<1> QED
  BY <1>1, <1>2, <1>3

(* What a queue does, its head first.                                      *)
LEMMA HasTail ==
  ASSUME NEW S, NEW T, NEW q \in Seq(T), q # <<>>
  PROVE  /\ Has(S, q) <=> Head(q).does \in S \/ Has(S, Tail(q))
         /\ Lone(S, q) => Lone(S, Tail(q)) /\ ~(Head(q).does \in S /\ Has(S, Tail(q)))
<1>1. Has(S, q) <=> Head(q).does \in S \/ Has(S, Tail(q))
  BY TailIndices DEF Has
<1>2. ASSUME Lone(S, q) PROVE Lone(S, Tail(q)) /\ ~(Head(q).does \in S /\ Has(S, Tail(q)))
  <2>1. ASSUME NEW i \in DOMAIN Tail(q), NEW j \in DOMAIN Tail(q),
               Tail(q)[i].does \in S, Tail(q)[j].does \in S
        PROVE  i = j
    <3>1. i + 1 = j + 1 /\ i \in Nat /\ j \in Nat
      BY <1>2, <2>1, TailIndices DEF Lone
    <3> QED
      BY <3>1
  <2>2. ~(Head(q).does \in S /\ Has(S, Tail(q)))
    BY <1>2, TailIndices DEF Lone, Has
  <2> QED
    BY <2>1, <2>2 DEF Lone
<1> QED
  BY <1>1, <1>2

(* What no task does, and a task alone.                                    *)
LEMMA HasFew ==
  ASSUME NEW S
  PROVE  /\ ~Has(S, <<>>) /\ Lone(S, <<>>)
         /\ \A t : (Has(S, <<t>>) <=> t.does \in S) /\ Lone(S, <<t>>)
  BY DEF Has, Lone

(* What two queues of events tell, one after the other.                    *)
LEMMA ToldJoined ==
  ASSUME NEW N, NEW T, NEW q \in Seq(T), NEW r \in Seq(T)
  PROVE  /\ Told(N, q \o r) <=> Told(N, q) \/ Told(N, r)
         /\ ~Told(N, q) /\ ToldLast(N, r) => ToldLast(N, q \o r)
<1>0. Indices(q, r)
  BY ConcatIndices
<1>1. Told(N, q \o r) <=> Told(N, q) \/ Told(N, r)
  <2>1. ASSUME Told(N, q \o r) PROVE Told(N, q) \/ Told(N, r)
    <3>1. PICK i \in DOMAIN (q \o r) : (q \o r)[i][1] \in N
      BY <2>1 DEF Told
    <3>2. CASE i \in DOMAIN q
      BY <1>0, <3>1, <3>2 DEF Indices, Told
    <3>3. CASE i - Len(q) \in DOMAIN r /\ i = (i - Len(q)) + Len(q)
      BY <1>0, <3>1, <3>3 DEF Indices, Told
    <3> QED
      BY <1>0, <3>2, <3>3 DEF Indices
  <2>2. Told(N, q) => Told(N, q \o r)
    BY <1>0 DEF Indices, Told
  <2>3. Told(N, r) => Told(N, q \o r)
    BY <1>0 DEF Indices, Told
  <2> QED
    BY <2>1, <2>2, <2>3
<1>2. ASSUME ~Told(N, q), ToldLast(N, r), NEW i \in DOMAIN (q \o r), (q \o r)[i][1] \in N
      PROVE  i = Len(q \o r)
  <2>1. i - Len(q) \in DOMAIN r /\ i = (i - Len(q)) + Len(q)
    BY <1>2, <1>0 DEF Indices, Told
  <2>2. r[i - Len(q)] = (q \o r)[i]
    BY <2>1, <1>0 DEF Indices
  <2>3. i - Len(q) = Len(r)
    BY <1>2, <2>1, <2>2 DEF ToldLast
  <2>4. Len(q) \in Nat /\ Len(r) \in Nat /\ Len(q \o r) = Len(q) + Len(r)
    OBVIOUS
  <2> QED
    BY <2>1, <2>3, <2>4
<1> QED
  BY <1>1, <1>2 DEF ToldLast

(* What a queue of events tells, its head first.                           *)
LEMMA ToldTail ==
  ASSUME NEW N, NEW T, NEW q \in Seq(T), q # <<>>
  PROVE  /\ Told(N, q) <=> Head(q)[1] \in N \/ Told(N, Tail(q))
         /\ ToldLast(N, q) => ToldLast(N, Tail(q))
         /\ ToldLast(N, q) /\ Head(q)[1] \in N => Tail(q) = <<>>
<1>1. Told(N, q) <=> Head(q)[1] \in N \/ Told(N, Tail(q))
  BY TailIndices DEF Told
<1>2. ASSUME ToldLast(N, q), NEW i \in DOMAIN Tail(q), Tail(q)[i][1] \in N
      PROVE  i = Len(Tail(q))
  <2>1. i + 1 = Len(q) /\ Len(Tail(q)) = Len(q) - 1 /\ Len(q) \in Nat /\ i \in Nat
    BY <1>2, TailIndices DEF ToldLast
  <2> QED
    BY <2>1
<1>3. ASSUME ToldLast(N, q), Head(q)[1] \in N PROVE Tail(q) = <<>>
  <2>1. Len(q) = 1
    BY <1>3, TailIndices DEF ToldLast
  <2>2. Tail(q) \in Seq(T) /\ Len(Tail(q)) = 0
    BY <2>1, TailIndices
  <2>3. \A s \in Seq(T) : Len(s) = 0 => s = <<>>
    OBVIOUS
  <2> QED
    BY <2>2, <2>3
<1> QED
  BY <1>1, <1>2, <1>3 DEF ToldLast

(* What no event tells, and an event alone.                                *)
LEMMA ToldFew ==
  ASSUME NEW N
  PROVE  /\ ~Told(N, <<>>) /\ ToldLast(N, <<>>)
         /\ \A e : (Told(N, <<e>>) <=> e[1] \in N) /\ ToldLast(N, <<e>>)
  BY DEF Told, ToldLast

(* Events wait in the stream exactly when one delivery of it is queued.    *)
QueuesOK ==
  /\ micro \in Seq(Tasks) /\ inbox \in Seq(Events)
  /\ Lone(Delivers, micro)
  /\ Has(Delivers, micro) <=> inbox # <<>>

(* The delivery that a handler leaves in the queue.                        *)
Scheduled(events) ==
  IF At("deliver") THEN InRest \o events # <<>> ELSE inbox = <<>> /\ events # <<>>

(* A task that may be put back does what it did.                           *)
LEMMA HoppedAre ==
  ASSUME NEW q \in Seq(Tasks), NEW r \in Hopped(q)
  PROVE  /\ r \in Seq(Tasks) /\ Len(r) = Len(q)
         /\ \A S : (Has(S, r) <=> Has(S, q)) /\ (Lone(S, r) <=> Lone(S, q))
<1>1. PICK h \in [DOMAIN q -> 0..MaxHops] :
        /\ r = [i \in DOMAIN q |-> [q[i] EXCEPT !.hops = h[i]]]
        /\ \A i \in DOMAIN q : q[i].does[1] \in Direct => h[i] = 0
  BY DEF Hopped
<1>2. DOMAIN r = DOMAIN q /\ \A i \in DOMAIN q : r[i] \in Tasks /\ r[i].does = q[i].does
  <2>1. DOMAIN r = DOMAIN q /\ \A i \in DOMAIN q : r[i] = [q[i] EXCEPT !.hops = h[i]]
    BY <1>1
  <2>2. \A i \in DOMAIN q : q[i] \in Tasks /\ h[i] \in Nat
    BY <1>1, HopsAssumption
  <2>3. \A t \in Tasks, n \in Nat :
          (t.does \in Delivers => n = 0) =>
            [t EXCEPT !.hops = n] \in Tasks /\ [t EXCEPT !.hops = n].does = t.does
    BY DEF Tasks
  <2>4. ASSUME NEW i \in DOMAIN q PROVE r[i] \in Tasks /\ r[i].does = q[i].does
    <3>0. q[i].does \in Delivers => h[i] = 0
      <4>1. \A d \in Delivers : d[1] \in Direct
        BY DEF Delivers, Direct
      <4> QED
        BY <1>1, <4>1
    <3>1. /\ r[i] = [q[i] EXCEPT !.hops = h[i]] /\ q[i] \in Tasks /\ h[i] \in Nat
          /\ q[i].does \in Delivers => h[i] = 0
      BY <2>1, <2>2, <3>0
    <3> QED
      BY <3>1, <2>3, Zenon
  <2> QED
    BY <2>1, <2>4
<1>3. r \in Seq(Tasks) /\ Len(r) = Len(q)
  <2>1. Len(q) \in Nat /\ DOMAIN q = 1..Len(q)
    OBVIOUS
  <2>2. r = [i \in 1..Len(q) |-> r[i]]
    BY <1>1, <2>1
  <2>3. \A i \in 1..Len(q) : r[i] \in Tasks
    BY <1>2, <2>1
  <2> QED
    BY <2>1, <2>2, <2>3
<1>4. ASSUME NEW S PROVE (Has(S, r) <=> Has(S, q)) /\ (Lone(S, r) <=> Lone(S, q))
  BY <1>2, Zenon DEF Has, Lone
<1> QED
  BY <1>3, <1>4

(* The task that is running, and what is queued behind it.                 *)
LEMMA HeadDoes ==
  ASSUME QueuesOK, NEW name, At(name)
  PROVE  /\ micro # <<>> /\ Head(micro) \in Tasks /\ Head(micro).does[1] = name
         /\ Head(micro).does \in Doings /\ Arg = Head(micro).does[2]
         /\ Rest = Tail(micro)
         /\ \A S : /\ Has(S, micro) <=> Head(micro).does \in S \/ Has(S, Rest)
                   /\ Lone(S, micro) => Lone(S, Rest) /\ ~(Head(micro).does \in S /\ Has(S, Rest))
<1>1. micro # <<>> /\ Head(micro) \in Tasks /\ Head(micro).does[1] = name /\ Rest = Tail(micro)
  BY TailIndices DEF QueuesOK, At, Rest, AtRest
<1>2. Head(micro).does \in Doings
  BY <1>1 DEF Tasks
<1> QED
  BY <1>1, <1>2, HasTail DEF QueuesOK, Arg

(* A task is known by its name.                                            *)
LEMMA DoingNames ==
  /\ DeliverTask.does \in Delivers
  /\ \A d \in Delivers : d = DeliverTask.does
  /\ \A d \in Doings :
       /\ d[1] = "deliver"  <=> d \in Delivers
       /\ d[1] = "idled"    <=> d \in Idles
       /\ d[1] = "teardown" <=> d \in Teardowns
       /\ d[1] = "joined"   <=> d \in Joins
       /\ d[1] = "resume"   <=> d \in Resumes
       /\ d[1] = "ran"      <=> d \in Runs
       /\ d[1] = "resolved" <=> d \in Verdicts
<1>1. DeliverTask.does \in Delivers /\ \A d \in Delivers : d = DeliverTask.does
  BY DEF Delivers, DeliverTask, Task
<1>2. /\ \A d \in Delivers : d[1] = "deliver"
      /\ \A d \in Idles : d[1] = "idled"
      /\ \A d \in Teardowns : d[1] = "teardown"
      /\ \A d \in Joins : d[1] = "joined"
      /\ \A d \in Resumes : d[1] = "resume"
      /\ \A d \in Runs : d[1] = "ran"
      /\ \A d \in Verdicts : d[1] = "resolved"
  <2>1. \A n, X : \A d \in {n} \X X : d[1] = n
    OBVIOUS
  <2>2. /\ \A d \in Teardowns : d[1] = "teardown"
        /\ \A d \in Joins : d[1] = "joined"
        /\ \A d \in Resumes : d[1] = "resume"
        /\ \A d \in Runs : d[1] = "ran"
        /\ \A d \in Verdicts : d[1] = "resolved"
    BY <2>1, Zenon DEF Teardowns, Joins, Resumes, Runs, Verdicts
  <2>3. /\ \A d \in Delivers : d[1] = "deliver"
        /\ \A d \in Idles : d[1] = "idled"
    BY DEF Delivers, Idles
  <2> QED
    BY <2>2, <2>3
<1> QED
  BY <1>1, <1>2 DEF Doings

(* A delivery at the head of the queue has an event to deliver.            *)
LEMMA DeliversSomething ==
  ASSUME QueuesOK, At("deliver")
  PROVE  inbox # <<>> /\ Head(micro).does \in Delivers /\ ~Has(Delivers, Rest)
<1>1. /\ Head(micro).does \in Doings /\ Head(micro).does[1] = "deliver"
      /\ \A S : /\ Has(S, micro) <=> Head(micro).does \in S \/ Has(S, Rest)
                /\ Lone(S, micro) => Lone(S, Rest) /\ ~(Head(micro).does \in S /\ Has(S, Rest))
  BY HeadDoes
<1>2. Head(micro).does \in Delivers
  BY <1>1, DoingNames
<1> QED
  <2>1. /\ Has(Delivers, micro) <=> Head(micro).does \in Delivers \/ Has(Delivers, Rest)
        /\ Lone(Delivers, micro) =>
             Lone(Delivers, Rest) /\ ~(Head(micro).does \in Delivers /\ Has(Delivers, Rest))
    BY <1>1, Zenon
  <2> QED
    BY <1>2, <2>1 DEF QueuesOK

(* What is left once the running handler has its part.                     *)
LEMMA QueuesLeft ==
  ASSUME QueuesOK
  PROVE  /\ Rest \in Seq(Tasks) /\ InRest \in Seq(Events)
         /\ AtRest => inbox = <<>> /\ InRest = <<>> /\ Rest = <<>> /\ ~At("deliver")
<1>1. micro # <<>> => Tail(micro) \in Seq(Tasks)
  BY TailIndices DEF QueuesOK
<1>2. At("deliver") => Tail(inbox) \in Seq(Events)
  BY TailIndices, DeliversSomething DEF QueuesOK
<1>3. AtRest => inbox = <<>>
  BY HasFew DEF AtRest, QueuesOK
<1> QED
  BY <1>1, <1>2, <1>3 DEF QueuesOK, Rest, InRest, AtRest, At

(* What the queues hold when a handler that left something has ended.      *)
Left(S, before, events, after) ==
  /\ Has(S, micro') <=>
       \/ Has(S, Rest) \/ Has(S, before) \/ Has(S, after)
       \/ DeliverTask.does \in S /\ Scheduled(events)
  /\ /\ Lone(S, Rest) /\ Lone(S, before) /\ Lone(S, after)
     /\ ~(Has(S, Rest) /\ (Has(S, before) \/ Has(S, after)))
     /\ ~(Has(S, before) /\ Has(S, after))
     /\ DeliverTask.does \in S /\ Scheduled(events) =>
          ~Has(S, Rest) /\ ~Has(S, before) /\ ~Has(S, after)
     => Lone(S, micro')

(* What a handler leaves to do, whatever it has told the session.          *)
LEMMA TasksLeft ==
  ASSUME QueuesOK, NEW before \in Seq(Tasks), NEW after \in Seq(Tasks),
         NEW events, After(before, events, after)
  PROVE  micro' \in Seq(Tasks) /\ \A S : Left(S, before, events, after)
<1>1. PICK b \in Hopped(before), a \in Hopped(after) :
        micro' = IF At("deliver")
                 THEN Rest \o b \o a \o When(InRest \o events # <<>>)
                 ELSE Rest \o b \o When(inbox = <<>> /\ events # <<>>) \o a
  BY DEF After
<1>2. /\ b \in Seq(Tasks) /\ a \in Seq(Tasks)
      /\ \A S : /\ (Has(S, b) <=> Has(S, before)) /\ (Lone(S, b) <=> Lone(S, before))
                /\ (Has(S, a) <=> Has(S, after)) /\ (Lone(S, a) <=> Lone(S, after))
  BY HoppedAre
<1>3. DeliverTask \in Tasks
  BY DEF DeliverTask, Task, Tasks, Doings, Delivers
<1>4. PICK w \in Seq(Tasks) : w = When(Scheduled(events))
  <2>1. \A p \in BOOLEAN : When(p) \in Seq(Tasks)
    BY <1>3 DEF When
  <2>2. Scheduled(events) \in BOOLEAN
    BY DEF Scheduled
  <2> QED
    BY <2>1, <2>2, Zenon
<1>5. \A S : Lone(S, w) /\ (Has(S, w) <=> DeliverTask.does \in S /\ Scheduled(events))
  <2>1. CASE Scheduled(events)
    BY <1>4, <2>1, HasFew, Zenon DEF When
  <2>2. CASE ~Scheduled(events)
    BY <1>4, <2>2, HasFew, Zenon DEF When
  <2> QED
    BY <2>1, <2>2
<1>6. micro' = Rest \o b \o a \o w \/ micro' = Rest \o b \o w \o a
  BY <1>1, <1>4, Zenon DEF Scheduled
<1>7. Rest \in Seq(Tasks)
  BY QueuesLeft
<1>8. micro' \in Seq(Tasks) /\ \A S : Left(S, before, events, after)
  <2>0. ASSUME NEW x \in Seq(Tasks), NEW y \in Seq(Tasks), micro' = (Rest \o b) \o x \o y,
               (x = a /\ y = w) \/ (x = w /\ y = a)
        PROVE  micro' \in Seq(Tasks) /\ \A S : Left(S, before, events, after)
    <3>1. PICK p \in Seq(Tasks) : p = Rest \o b
      BY <1>2, <1>7, ConcatIndices
    <3>2. PICK r \in Seq(Tasks) : r = p \o x
      BY ConcatIndices
    <3>3. micro' = r \o y
      BY <2>0, <3>1, <3>2
    <3>4. ASSUME NEW S PROVE Left(S, before, events, after)
      <4>1. /\ Has(S, r \o y) <=> Has(S, r) \/ Has(S, y)
            /\ Lone(S, r \o y) <=> Lone(S, r) /\ Lone(S, y) /\ ~(Has(S, r) /\ Has(S, y))
        BY HasJoined
      <4>2. /\ Has(S, p \o x) <=> Has(S, p) \/ Has(S, x)
            /\ Lone(S, p \o x) <=> Lone(S, p) /\ Lone(S, x) /\ ~(Has(S, p) /\ Has(S, x))
        BY HasJoined
      <4>3. /\ Has(S, Rest \o b) <=> Has(S, Rest) \/ Has(S, b)
            /\ Lone(S, Rest \o b) <=> Lone(S, Rest) /\ Lone(S, b) /\ ~(Has(S, Rest) /\ Has(S, b))
        BY <1>2, <1>7, HasJoined
      <4>4. /\ Has(S, micro') <=> Has(S, Rest) \/ Has(S, b) \/ Has(S, x) \/ Has(S, y)
            /\ /\ Lone(S, Rest) /\ Lone(S, b) /\ Lone(S, x) /\ Lone(S, y)
               /\ ~(Has(S, Rest) /\ (Has(S, b) \/ Has(S, x) \/ Has(S, y)))
               /\ ~(Has(S, b) /\ (Has(S, x) \/ Has(S, y)))
               /\ ~(Has(S, x) /\ Has(S, y))
               => Lone(S, micro')
        BY <3>1, <3>2, <3>3, <4>1, <4>2, <4>3, Zenon
      <4>5. /\ (Has(S, b) <=> Has(S, before)) /\ (Lone(S, b) <=> Lone(S, before))
            /\ (Has(S, a) <=> Has(S, after)) /\ (Lone(S, a) <=> Lone(S, after))
            /\ Lone(S, w) /\ (Has(S, w) <=> DeliverTask.does \in S /\ Scheduled(events))
        BY <1>2, <1>5
      <4>6. CASE x = a /\ y = w
        BY <4>4, <4>5, <4>6 DEF Left
      <4>7. CASE x = w /\ y = a
        BY <4>4, <4>5, <4>7 DEF Left
      <4> QED
        BY <2>0, <4>6, <4>7
    <3> QED
      BY <3>3, <3>4, ConcatIndices
  <2>1. a \in Seq(Tasks) /\ w \in Seq(Tasks)
    BY <1>2, <1>4
  <2>2. CASE micro' = Rest \o b \o a \o w
    BY <2>0, <2>1, <2>2
  <2>3. CASE micro' = Rest \o b \o w \o a
    BY <2>0, <2>1, <2>3
  <2> QED
    BY <1>6, <2>2, <2>3
<1> QED
  BY <1>8

(* What the queues hold when a handler has ended.                          *)
LEMMA AfterDoes ==
  ASSUME QueuesOK, NEW before \in Seq(Tasks), NEW after \in Seq(Tasks),
         ~Has(Delivers, before), ~Has(Delivers, after),
         NEW events \in Seq(Events), After(before, events, after)
  PROVE  /\ QueuesOK'
         /\ inbox' = InRest \o events
         /\ \A S : Left(S, before, events, after)
<1>1. inbox' = InRest \o events /\ inbox' \in Seq(Events)
  BY QueuesLeft, ConcatIndices DEF After
<1>2. micro' \in Seq(Tasks) /\ \A S : Left(S, before, events, after)
  BY TasksLeft
<1>3. Left(Delivers, before, events, after) /\ DeliverTask.does \in Delivers
  BY <1>2, DoingNames
<1>4. Lone(Delivers, Rest) /\ (Has(Delivers, Rest) <=> ~At("deliver") /\ inbox # <<>>)
  <2>1. CASE AtRest
    BY <2>1, QueuesLeft, HasFew
  <2>2. CASE ~AtRest
    <3>1. /\ Head(micro) \in Tasks /\ Rest = Tail(micro)
          /\ Has(Delivers, micro) <=> Head(micro).does \in Delivers \/ Has(Delivers, Rest)
          /\ Lone(Delivers, Rest) /\ ~(Head(micro).does \in Delivers /\ Has(Delivers, Rest))
      BY <2>2, TailIndices, HasTail DEF AtRest, Rest, QueuesOK
    <3>2. Head(micro).does \in Delivers <=> At("deliver")
      <4>1. /\ Head(micro).does \in Doings
            /\ Head(micro).does \in Delivers => Head(micro).hops = 0
        BY <3>1 DEF Tasks
      <4> QED
        BY <2>2, <4>1, DoingNames DEF At, AtRest
    <3> QED
      BY <3>1, <3>2 DEF QueuesOK
  <2> QED
    BY <2>1, <2>2
<1>5. InRest \o events # <<>> <=> InRest # <<>> \/ events # <<>>
  BY QueuesLeft
<1>6. Lone(Delivers, micro') /\ (Has(Delivers, micro') <=> inbox' # <<>>)
  <2>1. ~Has(Delivers, before) /\ ~Has(Delivers, after)
    OBVIOUS
  <2>2. Lone(Delivers, before) /\ Lone(Delivers, after)
    BY <2>1 DEF Has, Lone
  <2>3. Has(Delivers, micro') <=> Has(Delivers, Rest) \/ Scheduled(events)
    BY <1>3, <2>1 DEF Left
  <2>4. ~(Has(Delivers, Rest) /\ Scheduled(events))
    BY <1>4 DEF Scheduled
  <2>5. Lone(Delivers, micro')
    BY <1>3, <1>4, <2>1, <2>2, <2>4 DEF Left
  <2>6. Has(Delivers, Rest) \/ Scheduled(events) <=> inbox' # <<>>
    BY <1>1, <1>4, <1>5, DeliversSomething, Zenon DEF Scheduled, InRest
  <2> QED
    BY <2>3, <2>5, <2>6
<1> QED
  BY <1>1, <1>2, <1>6 DEF QueuesOK

(* What the tasks in the named sets are called.                            *)
LEMMA NamesOf ==
  /\ \A d \in Delivers : d[1] = "deliver"
  /\ \A d \in Idles : d[1] = "idled"
  /\ \A d \in Teardowns : d[1] = "teardown"
  /\ \A k : \A d \in TeardownsOf(k) : d[1] = "teardown" /\ d[2] = k
  /\ \A d \in Joins : d[1] = "joined"
  /\ \A d \in Resumes : d[1] = "resume"
  /\ \A d \in UserResumes : d[1] = "resume"
  /\ \A d \in Refusals : d[1] = "resolved"
  /\ \A d \in Tokens : d[1] \in {"resolved", "resume", "ran"}
<1>1. \A n, X : \A d \in {n} \X X : d[1] = n
  OBVIOUS
<1>2. \A d \in Teardowns : d[1] = "teardown"
  BY <1>1, Zenon DEF Teardowns
<1>3. \A d \in Joins : d[1] = "joined"
  BY <1>1, Zenon DEF Joins
<1>4. \A d \in Resumes : d[1] = "resume"
  BY <1>1, Zenon DEF Resumes
<1>5. \A d \in Runs : d[1] = "ran"
  BY <1>1, Zenon DEF Runs
<1>6. \A d \in Verdicts : d[1] = "resolved"
  BY <1>1, Zenon DEF Verdicts
<1>7. /\ \A d \in Delivers : d[1] = "deliver"
      /\ \A d \in Idles : d[1] = "idled"
      /\ \A k : \A d \in TeardownsOf(k) : d[1] = "teardown" /\ d[2] = k
  BY DEF Delivers, Idles, TeardownsOf
<1>8. \A d \in UserResumes : d[1] = "resume"
  BY <1>4 DEF UserResumes
<1>9. \A d \in Refusals : d[1] = "resolved"
  BY <1>6 DEF Refusals
<1>10. \A d \in Tokens : d[1] \in {"resolved", "resume", "ran"}
  BY <1>4, <1>5, <1>6 DEF Tokens
<1> QED
  BY <1>2, <1>3, <1>4, <1>7, <1>8, <1>9, <1>10

(* A task of each kind, with the named sets it is in and those it is not.  *)
LEMMA DeliverIs ==
  /\ DeliverTask.does \in Delivers /\ DeliverTask.does \in OtherThings
  /\ DeliverTask.does \notin Idles /\ DeliverTask.does \notin Teardowns
  /\ DeliverTask.does \notin Joins /\ DeliverTask.does \notin Resumes
  /\ DeliverTask.does \notin UserResumes /\ DeliverTask.does \notin Refusals
  /\ DeliverTask.does \notin Tokens /\ \A k : DeliverTask.does \notin TeardownsOf(k)
<1>1. DeliverTask.does = <<"deliver", <<>>>> /\ DeliverTask.does[1] = "deliver"
  BY DEF DeliverTask, Task
<1>2. DeliverTask.does \in Delivers
  BY <1>1 DEF Delivers
<1> QED
  BY <1>1, <1>2, NamesOf DEF OtherThings, Doings

(* The idle state that a listener has yet to see.                          *)
LEMMA IdledIs ==
  /\ Idled \in Tasks /\ Idled.does \in Idles /\ Idled.does \in OtherThings
  /\ Idled.does \notin Delivers /\ Idled.does \notin Teardowns
  /\ Idled.does \notin Joins /\ Idled.does \notin Resumes
  /\ Idled.does \notin UserResumes /\ Idled.does \notin Refusals
  /\ Idled.does \notin Tokens /\ \A k : Idled.does \notin TeardownsOf(k)
<1>1. /\ Idled.does = <<"idled", <<>>>> /\ Idled.does[1] = "idled"
      /\ Idled = [does |-> <<"idled", <<>>>>, hops |-> 0]
  BY DEF Idled, Task
<1>2. Idled.does \in Idles
  BY <1>1 DEF Idles
<1>3. Idled.does \in Doings
  BY <1>2 DEF Doings
<1>4. Idled \in Tasks
  BY <1>1, <1>3 DEF Tasks
<1> QED
  BY <1>1, <1>2, <1>3, <1>4, NamesOf DEF OtherThings

(* The answers of a join on their way.                                     *)
LEMMA JoinedIs ==
  ASSUME NEW r \in Seq(Answers)
  PROVE  /\ Joined(r) \in Tasks /\ Joined(r).does \in Joins /\ Joined(r).does \in OtherThings
         /\ Joined(r).does \notin Delivers /\ Joined(r).does \notin Teardowns
         /\ Joined(r).does \notin Idles /\ Joined(r).does \notin Resumes
         /\ Joined(r).does \notin UserResumes /\ Joined(r).does \notin Refusals
         /\ Joined(r).does \notin Tokens /\ \A k : Joined(r).does \notin TeardownsOf(k)
<1>1. /\ Joined(r).does = <<"joined", r>> /\ Joined(r).does[1] = "joined"
      /\ Joined(r) = [does |-> <<"joined", r>>, hops |-> 0]
  BY DEF Joined, Task
<1>2. Joined(r).does \in Joins
  BY <1>1 DEF Joins
<1>3. Joined(r).does \in Doings
  BY <1>2 DEF Doings
<1>4. Joined(r) \in Tasks
  BY <1>1, <1>3 DEF Tasks
<1> QED
  BY <1>1, <1>2, <1>3, <1>4, NamesOf DEF OtherThings

(* The teardown of a turn.                                                 *)
LEMMA TeardownIs ==
  ASSUME NEW k \in 1..2
  PROVE  LET t == Task("teardown", k)
         IN  /\ t \in Tasks /\ t.does \in Teardowns /\ t.does \in OtherThings
             /\ t.does \notin Delivers /\ t.does \notin Joins
             /\ t.does \notin Idles /\ t.does \notin Resumes
             /\ t.does \notin UserResumes /\ t.does \notin Refusals
             /\ t.does \notin Tokens /\ \A j : t.does \in TeardownsOf(j) <=> j = k
<1> DEFINE t == Task("teardown", k)
<1>1. /\ t.does = <<"teardown", k>> /\ t.does[1] = "teardown" /\ t.does[2] = k
      /\ t = [does |-> <<"teardown", k>>, hops |-> 0]
  BY DEF Task
<1>2. t.does \in Teardowns
  BY <1>1 DEF Teardowns
<1>3. t.does \in Doings
  BY <1>2 DEF Doings
<1>4. t \in Tasks
  BY <1>1, <1>3, NamesOf DEF Tasks
<1>5. \A j : t.does \in TeardownsOf(j) <=> j = k
  BY <1>1 DEF TeardownsOf
<1> HIDE DEF t
<1>6. /\ t \in Tasks /\ t.does \in Teardowns /\ t.does \in OtherThings
      /\ t.does \notin Delivers /\ t.does \notin Joins
      /\ t.does \notin Idles /\ t.does \notin Resumes
      /\ t.does \notin UserResumes /\ t.does \notin Refusals
      /\ t.does \notin Tokens
  BY <1>1, <1>2, <1>3, <1>4, NamesOf DEF OtherThings
<1> QED
  BY <1>5, <1>6 DEF t

(* A turn that waits for a cancellation.                                   *)
LEMMA ResumeIs ==
  ASSUME NEW g \in Goals, NEW f \in Froms
  PROVE  LET t == Resume(g, f)
         IN  /\ t \in Tasks /\ t.does \in Resumes /\ t.does \in OtherThings
             /\ t.does \notin Delivers /\ t.does \notin Joins
             /\ t.does \notin Idles /\ t.does \notin Teardowns /\ t.does \notin Refusals
             /\ t.does \in UserResumes <=> f = "user"
             /\ t.does \in Tokens <=> f = "delivery"
             /\ \A j : t.does \notin TeardownsOf(j)
<1> DEFINE t == Resume(g, f)
<1>1. /\ t.does = <<"resume", [goal |-> g, from |-> f]>> /\ t.does[1] = "resume"
      /\ t.does[2].from = f
      /\ t = [does |-> <<"resume", [goal |-> g, from |-> f]>>, hops |-> 0]
  BY DEF Resume, Task
<1>2. t.does \in Resumes
  BY <1>1 DEF Resumes
<1>3. t.does \in Doings
  BY <1>2 DEF Doings
<1>4. t \in Tasks
  BY <1>1, <1>3, NamesOf DEF Tasks
<1> HIDE DEF t
<1>5. /\ t.does \in UserResumes <=> f = "user"
      /\ t.does \in Tokens <=> f = "delivery"
  BY <1>1, <1>2, NamesOf DEF UserResumes, Tokens, Verdicts
<1>6. /\ t \in Tasks /\ t.does \in Resumes /\ t.does \in OtherThings
      /\ t.does \notin Delivers /\ t.does \notin Joins
      /\ t.does \notin Idles /\ t.does \notin Teardowns /\ t.does \notin Refusals
      /\ \A j : t.does \notin TeardownsOf(j)
  BY <1>1, <1>2, <1>3, <1>4, NamesOf DEF OtherThings
<1> QED
  BY <1>5, <1>6 DEF t

(* The result of run() on its way.                                         *)
LEMMA RanIs ==
  ASSUME NEW f \in Froms
  PROVE  LET t == Ran(TRUE, f)
         IN  /\ t \in Tasks /\ t.does \in OtherThings
             /\ t.does \notin Delivers /\ t.does \notin Joins
             /\ t.does \notin Idles /\ t.does \notin Teardowns /\ t.does \notin Refusals
             /\ t.does \notin Resumes /\ t.does \notin UserResumes
             /\ t.does \in Tokens <=> f = "delivery"
             /\ \A j : t.does \notin TeardownsOf(j)
<1> DEFINE t == Ran(TRUE, f)
<1>0. PICK on : on = TRUE
  BY Zenon
<1>1. /\ t.does = <<"ran", [ok |-> on, from |-> f]>> /\ t.does[1] = "ran"
      /\ t.does[2].from = f
      /\ t = [does |-> <<"ran", [ok |-> on, from |-> f]>>, hops |-> 0]
  <2>1. t = [does |-> <<"ran", [ok |-> on, from |-> f]>>, hops |-> 0]
    BY <1>0, Zenon DEF Ran, Task
  <2> HIDE DEF t
  <2> QED
    BY <2>1
<1>2. t.does \in Runs
  <2>1. on \in {TRUE}
    BY <1>0, Zenon
  <2>2. \A X : on \in X => [ok |-> on, from |-> f] \in [ok : X, from : Froms]
    OBVIOUS
  <2>3. [ok |-> on, from |-> f] \in [ok : {TRUE}, from : Froms]
    BY <2>1, <2>2, Zenon
  <2>4. \A X : [ok |-> on, from |-> f] \in X => <<"ran", [ok |-> on, from |-> f]>> \in {"ran"} \X X
    OBVIOUS
  <2> HIDE DEF t
  <2> QED
    BY <1>1, <2>3, <2>4, Zenon DEF Runs
<1>3. t.does \in Doings
  BY <1>2 DEF Doings
<1> HIDE DEF t
<1>4. t \in Tasks
  BY <1>1, <1>3, NamesOf DEF Tasks
<1>5. t.does \in Tokens <=> f = "delivery"
  BY <1>1, <1>2, NamesOf DEF Tokens, Verdicts
<1>6. /\ t \in Tasks /\ t.does \in OtherThings
      /\ t.does \notin Delivers /\ t.does \notin Joins
      /\ t.does \notin Idles /\ t.does \notin Teardowns /\ t.does \notin Refusals
      /\ t.does \notin Resumes /\ t.does \notin UserResumes
      /\ \A j : t.does \notin TeardownsOf(j)
  BY <1>1, <1>2, <1>3, <1>4, NamesOf DEF OtherThings
<1> QED
  BY <1>5, <1>6 DEF t

(* The result of a delivery turn on its way.                               *)
LEMMA ResolvedIs ==
  ASSUME NEW ok \in BOOLEAN
  PROVE  LET t == Resolved(ok)
         IN  /\ t \in Tasks /\ t.does \in Tokens
             /\ t.does \notin Delivers /\ t.does \notin Joins
             /\ t.does \notin Idles /\ t.does \notin Teardowns
             /\ t.does \notin Resumes /\ t.does \notin UserResumes
             /\ t.does \in Refusals <=> ~ok
             /\ t.does \in OtherThings <=> ok
             /\ \A j : t.does \notin TeardownsOf(j)
<1> DEFINE t == Resolved(ok)
<1>1. /\ t.does = <<"resolved", ok>> /\ t.does[1] = "resolved" /\ t.does[2] = ok
      /\ t = [does |-> <<"resolved", ok>>, hops |-> 0]
  BY Zenon DEF Resolved, Task
<1>2. t.does \in Verdicts
  BY <1>1 DEF Verdicts
<1>3. t.does \in Doings /\ t.does \in Tokens
  BY <1>2 DEF Doings, Tokens
<1>4. t \in Tasks
  BY <1>1, <1>3, NamesOf DEF Tasks
<1> HIDE DEF t
<1>5. t.does \in Refusals <=> ~ok
  BY <1>1, <1>2 DEF Refusals
<1>6. /\ t.does \notin Delivers /\ t.does \notin Joins
      /\ t.does \notin Idles /\ t.does \notin Teardowns
      /\ t.does \notin Resumes /\ t.does \notin UserResumes
      /\ \A j : t.does \notin TeardownsOf(j)
  BY <1>1, NamesOf
<1> QED
  BY <1>3, <1>4, <1>5, <1>6 DEF t, OtherThings

StateOK ==
  /\ turn \in 0..2 /\ phase \in Phases /\ goal \in Goals
  /\ said \in Seq(TurnEntries) /\ step \in Seq(Calls)
  /\ DeliveryTypeOK
  /\ live \in BOOLEAN /\ active \in BOOLEAN /\ pendingCancel \in BOOLEAN
  /\ request \in [Calls -> Requests] /\ work \in [Calls -> Works]
  /\ open \subseteq Calls /\ answers \subseteq Calls
  /\ join \in Seq(Calls) /\ turnJobs \in Seq(Calls)
  /\ conv \in 0..MaxSwaps /\ swaps \in 0..MaxSwaps
  /\ swap \in {"none", "loading", "picking"}

(* The session and the runtime, and what is on its way between them.       *)
Agreement ==
  /\ (IsRunning => active) /\ (active => live)
  /\ active /\ ~IsRunning => Told(Ends, inbox)
  /\ ToldLast(Ends, inbox) /\ (Told(Ends, inbox) => ~IsRunning)
  /\ ~active /\ inbox # <<>> => At("deliver") /\ Tail(inbox) = <<>>
  /\ IsRunning /\ phase = "prompt" => Told(Prompts, inbox)
  /\ Lone(Teardowns, micro)
  /\ \A k \in 1..2 : Has(TeardownsOf(k), micro) =>
       IF IsRunning THEN turn # k ELSE phase = "over" /\ turn = k

(* The session and the buffer, and what is on its way between them.        *)
Buffering ==
  /\ bound = TRUE /\ (pendingCancel => live)
  /\ deliver = "delivering" => pending = <<>>
  /\ Lone(Resumes, micro)
  /\ Has(Resumes, micro) => ~active /\ live /\ ~pendingCancel
  /\ Has(UserResumes, micro) => deliver = "idle"
  /\ Lone(Tokens, micro)
  /\ Has(Tokens, micro) <=> deliver = "delivering"
  /\ live /\ ~active /\ deliver = "awaiting" => Has(Idles, micro)
  /\ active /\ Has(Idles, micro) => deliver # "awaiting"
  /\ live /\ Has(Refusals, micro) => active /\ ~Has(OtherThings, micro)

IInv == StateOK /\ QueuesOK /\ Agreement /\ Buffering

core == <<turn, phase, live, active, pendingCancel, deliver, bound>>

(* Tasks that start nothing and answer nothing. *)
Plain(q) ==
  /\ q \in Seq(Tasks)
  /\ ~Has(Delivers, q) /\ ~Has(Teardowns, q) /\ ~Has(Resumes, q) /\ ~Has(Tokens, q)

(* Some of the things: fewer tasks do them.                                *)
LEMMA SubHas ==
  ASSUME NEW S, NEW R, NEW q, S \subseteq R
  PROVE  (Has(S, q) => Has(R, q)) /\ (Lone(R, q) => Lone(S, q)) /\ (~Has(R, q) => Lone(R, q))
  BY DEF Has, Lone

(* The special cases of a kind of task.                                    *)
LEMMA Within ==
  /\ UserResumes \subseteq Resumes /\ Refusals \subseteq Tokens
  /\ \A k \in 1..2 : TeardownsOf(k) \subseteq Teardowns
<1>1. UserResumes \subseteq Resumes /\ Refusals \subseteq Tokens
  BY DEF UserResumes, Refusals, Tokens
<1>2. \A k \in 1..2 : TeardownsOf(k) \subseteq Teardowns
  BY DEF TeardownsOf, Teardowns
<1> QED
  BY <1>1, <1>2

(* What plain tasks are not.                                               *)
LEMMA PlainMeans ==
  ASSUME NEW q, Plain(q)
  PROVE  /\ q \in Seq(Tasks)
         /\ ~Has(Delivers, q) /\ ~Has(Teardowns, q) /\ ~Has(Resumes, q) /\ ~Has(UserResumes, q)
         /\ ~Has(Tokens, q) /\ ~Has(Refusals, q) /\ \A k \in 1..2 : ~Has(TeardownsOf(k), q)
         /\ Lone(Teardowns, q) /\ Lone(Resumes, q) /\ Lone(Tokens, q)
<1>1. /\ Has(UserResumes, q) => Has(Resumes, q)
      /\ Has(Refusals, q) => Has(Tokens, q)
      /\ \A k \in 1..2 : Has(TeardownsOf(k), q) => Has(Teardowns, q)
  BY SubHas, Within
<1>2. \A S : ~Has(S, q) => Lone(S, q)
  BY SubHas
<1> QED
  BY <1>1, <1>2 DEF Plain

(* What holds once nothing is left to run.                                 *)
LEMMA RestMeans ==
  ASSUME IInv, AtRest
  PROVE  /\ inbox = <<>> /\ InRest = <<>> /\ Rest = <<>>
         /\ \A S : ~Has(S, micro) /\ ~Has(S, Rest) /\ Lone(S, Rest)
         /\ \A name : ~At(name)
         /\ active <=> IsRunning
         /\ deliver # "delivering"
         /\ live /\ ~active => deliver = "idle"
         /\ IsRunning => phase # "prompt"
<1>1. /\ inbox = <<>> /\ InRest = <<>> /\ Rest = <<>> /\ micro = <<>>
  BY QueuesLeft DEF IInv, AtRest
<1>2. /\ \A S : ~Has(S, micro) /\ ~Has(S, Rest) /\ Lone(S, Rest)
      /\ \A N : ~Told(N, inbox)
  BY <1>1, HasFew, ToldFew
<1> QED
  BY <1>1, <1>2 DEF IInv, Agreement, Buffering, StateOK, DeliveryTypeOK, DeliveryStates, At

-----------------------------------------------------------------------------
(* What a handler leaves that starts with nothing queued.                  *)
LeftFirst(S, before, events, after) ==
  /\ Has(S, micro') <=>
       Has(S, before) \/ Has(S, after) \/ (DeliverTask.does \in S /\ events # <<>>)
  /\ /\ Lone(S, before) /\ Lone(S, after) /\ ~(Has(S, before) /\ Has(S, after))
     /\ DeliverTask.does \notin S \/ events = <<>>
     => Lone(S, micro')

(* What a handler leaves that starts with nothing queued.                  *)
LEMMA RestDoes ==
  ASSUME IInv, AtRest, NEW before \in Seq(Tasks), NEW after \in Seq(Tasks),
         ~Has(Delivers, before), ~Has(Delivers, after),
         NEW events \in Seq(Events), After(before, events, after)
  PROVE  /\ QueuesOK' /\ inbox' = events
         /\ \A S : LeftFirst(S, before, events, after)
<1> USE RestMeans
<1>1. /\ QueuesOK' /\ inbox' = InRest \o events
      /\ \A S : Left(S, before, events, after)
  BY AfterDoes DEF IInv
<1>2. inbox' = events /\ (Scheduled(events) <=> events # <<>>)
  BY <1>1 DEF Scheduled
<1> QED
  BY <1>1, <1>2 DEF Left, LeftFirst

(* Events that find nothing queued are delivered before anything else.     *)
LEMMA DeliveredFirst ==
  ASSUME IInv, AtRest, NEW after \in Seq(Tasks), ~Has(Delivers, after),
         NEW events \in Seq(Events), events # <<>>, After(<<>>, events, after)
  PROVE  At("deliver")'
<1>1. PICK b \in Hopped(<<>>), a \in Hopped(after) : micro' = Rest \o b \o When(TRUE) \o a
  BY RestMeans DEF After
<1>2. b = <<>> /\ a \in Seq(Tasks)
  <2>1. \A q : q \in Seq(Tasks) /\ ~Has(Delivers, q) =>
          \A r \in Hopped(q) : r \in Seq(Tasks) /\ Len(r) = Len(q)
    BY HoppedAre
  <2>2. <<>> \in Seq(Tasks) /\ ~Has(Delivers, <<>>)
    BY HasFew
  <2>3. b \in Seq(Tasks) /\ Len(b) = 0
    BY <2>1, <2>2
  <2>4. a \in Seq(Tasks)
    BY <2>1
  <2> QED
    BY <2>3, <2>4
<1>3. When(TRUE) = <<DeliverTask>> /\ DeliverTask \in Tasks
  BY DEF When, DeliverTask, Task, Tasks, Doings, Delivers
<1>4. Rest \o b \o When(TRUE) = <<DeliverTask>>
  <2>1. <<>> \o <<>> \o <<DeliverTask>> = <<DeliverTask>>
    OBVIOUS
  <2> QED
    BY <2>1, <1>2, <1>3, RestMeans, Zenon
<1>5. micro' = <<DeliverTask>> \o a
  BY <1>1, <1>4
<1>6. micro' # <<>> /\ Head(micro') = DeliverTask
  BY <1>2, <1>3, <1>5
<1> QED
  BY <1>6 DEF At, DeliverTask, Task

-----------------------------------------------------------------------------
(* Inputs that change nothing the invariants speak of, and may wake an     *)
(* await or, when no turn runs, leave an idle state for the repository.    *)
LEMMA QuietInput ==
  ASSUME IInv, AtRest, UNCHANGED core, NEW after, Plain(after),
         active => ~Has(Idles, after), After(<<>>, <<>>, after)
  PROVE  QueuesOK' /\ Agreement' /\ Buffering'
<1> USE RestMeans, PlainMeans, DeliverIs
<1>1. <<>> \in Seq(Tasks) /\ <<>> \in Seq(Events) /\ ~Has(Delivers, <<>>)
  BY HasFew
<1>2. /\ QueuesOK' /\ inbox' = <<>>
      /\ \A S : LeftFirst(S, <<>>, <<>>, after)
  BY <1>1, RestDoes
<1>3. \A S : /\ Has(S, micro') <=> Has(S, after)
             /\ Lone(S, after) => Lone(S, micro')
  BY <1>2, HasFew DEF LeftFirst
<1>4. Agreement'
  <2>1. \A N : ~Told(N, inbox') /\ ToldLast(N, inbox')
    BY <1>2, ToldFew
  <2>2. IsRunning' <=> IsRunning
    BY DEF IsRunning, core
  <2> QED
    BY <1>2, <1>3, <2>1, <2>2 DEF IInv, Agreement, core
<1>5. Buffering'
  BY <1>3, RestMeans DEF IInv, Buffering, core
<1> QED
  BY <1>2, <1>4, <1>5

(* A delivery: the event is gone, and so is the task.                      *)
LEMMA DeliveryDoes ==
  ASSUME IInv, At("deliver"), NEW after, Plain(after), NEW events \in Seq(Events),
         After(<<>>, events, after)
  PROVE  /\ QueuesOK' /\ inbox # <<>> /\ inbox \in Seq(Events)
         /\ inbox' = Tail(inbox) \o events /\ Tail(inbox) \in Seq(Events)
         /\ \A S : DeliverTask.does \notin S =>
              /\ Has(S, micro') <=> Has(S, micro) \/ Has(S, after)
              /\ Lone(S, micro) /\ ~Has(S, after) => Lone(S, micro')
         /\ Has(OtherThings, micro)
<1>1. <<>> \in Seq(Tasks) /\ ~Has(Delivers, <<>>)
  BY HasFew
<1>2. /\ QueuesOK' /\ inbox' = InRest \o events
      /\ \A S : Left(S, <<>>, events, after)
  BY <1>1, AfterDoes, PlainMeans DEF IInv
<1>3. /\ inbox # <<>> /\ Head(micro).does \in Delivers
      /\ InRest = Tail(inbox) /\ InRest \in Seq(Events)
  BY DeliversSomething, QueuesLeft DEF IInv, InRest
<1>4. Head(micro).does = DeliverTask.does
  BY <1>3, DoingNames
<1>5. \A S : /\ Has(S, micro) <=> DeliverTask.does \in S \/ Has(S, Rest)
             /\ Lone(S, micro) => Lone(S, Rest)
  BY <1>4, HeadDoes DEF IInv
<1>6. \A S : ~Has(S, after) => Lone(S, after)
  BY SubHas
<1>7. ASSUME NEW S, DeliverTask.does \notin S
      PROVE  /\ Has(S, micro') <=> Has(S, micro) \/ Has(S, after)
             /\ Lone(S, micro) /\ ~Has(S, after) => Lone(S, micro')
  BY <1>2, <1>5, <1>6, <1>7, HasFew DEF Left
<1>8. Has(OtherThings, micro)
  BY <1>5, DeliverIs
<1> QED
  BY <1>2, <1>3, <1>7, <1>8 DEF IInv, QueuesOK

(* A delivery that says nothing more.                                      *)
LEMMA DeliveryEnds ==
  ASSUME IInv, At("deliver"), NEW after, Plain(after), After(<<>>, <<>>, after)
  PROVE  /\ QueuesOK' /\ inbox # <<>> /\ inbox \in Seq(Events)
         /\ inbox' = Tail(inbox)
         /\ \A S : DeliverTask.does \notin S =>
              /\ Has(S, micro') <=> Has(S, micro) \/ Has(S, after)
              /\ Lone(S, micro) /\ ~Has(S, after) => Lone(S, micro')
         /\ Has(OtherThings, micro)
<1>1. <<>> \in Seq(Events)
  OBVIOUS
<1>2. \A s \in Seq(Events) : s \o <<>> = s
  OBVIOUS
<1> QED
  BY <1>1, <1>2, DeliveryDoes

(* A delivery that changes nothing the invariants speak of.                *)
LEMMA QuietDelivery ==
  ASSUME IInv, At("deliver"), UNCHANGED <<core, pending>>,
         NEW after, Plain(after), ~Has(Idles, after),
         active => Head(inbox)[1] \notin Ends \cup Prompts,
         After(<<>>, <<>>, after)
  PROVE  QueuesOK' /\ Agreement' /\ Buffering'
<1> USE DeliverIs, PlainMeans
<1>1. /\ QueuesOK' /\ inbox # <<>> /\ inbox \in Seq(Events)
      /\ inbox' = Tail(inbox)
      /\ \A S : DeliverTask.does \notin S =>
           /\ Has(S, micro') <=> Has(S, micro) \/ Has(S, after)
           /\ Lone(S, micro) /\ ~Has(S, after) => Lone(S, micro')
      /\ Has(OtherThings, micro)
  BY DeliveryEnds
<1>2. \A N : /\ Told(N, inbox) <=> Head(inbox)[1] \in N \/ Told(N, inbox')
             /\ ToldLast(N, inbox) => ToldLast(N, inbox')
  BY <1>1, ToldTail
<1>3. IsRunning' <=> IsRunning
  BY DEF IsRunning, core
<1>4. Agreement'
  BY <1>1, <1>2, <1>3 DEF IInv, Agreement, core
<1>5. Buffering'
  BY <1>1 DEF IInv, Buffering, core
<1> QED
  BY <1>1, <1>4, <1>5

(* A task of the loop that is no delivery: the task is gone, and what it   *)
(* leaves is behind the rest.                                              *)
LEMMA TaskDoes ==
  ASSUME IInv, NEW name, At(name), name # "deliver",
         NEW before \in Seq(Tasks), ~Has(Delivers, before),
         NEW after \in Seq(Tasks), ~Has(Delivers, after),
         NEW events \in Seq(Events), After(before, events, after)
  PROVE  /\ QueuesOK' /\ inbox' = inbox \o events /\ inbox \in Seq(Events)
         /\ \A S : DeliverTask.does \notin S =>
              /\ Has(S, micro') <=> Has(S, Rest) \/ Has(S, before) \/ Has(S, after)
              /\ /\ Lone(S, micro) /\ Lone(S, before) /\ Lone(S, after)
                 /\ ~(Has(S, Rest) /\ (Has(S, before) \/ Has(S, after)))
                 /\ ~(Has(S, before) /\ Has(S, after))
                 => Lone(S, micro')
<1>1. /\ QueuesOK' /\ inbox' = InRest \o events
      /\ \A S : Left(S, before, events, after)
  BY AfterDoes DEF IInv
<1>2. InRest = inbox
  BY DEF At, InRest
<1>3. \A S : Lone(S, micro) => Lone(S, Rest)
  BY HeadDoes DEF IInv
<1> QED
  BY <1>1, <1>2, <1>3 DEF Left, IInv, QueuesOK

(* A task that takes another round does later what it does.                *)
LEMMA HopDoes ==
  ASSUME IInv, Hop
  PROVE  /\ ~At("deliver") /\ micro' \in Seq(Tasks)
         /\ \A S : /\ Has(S, micro') <=> Has(S, micro)
                   /\ Lone(S, micro) => Lone(S, micro')
<1>1. /\ micro \in Seq(Tasks) /\ micro # <<>> /\ Head(micro) \in Tasks /\ Head(micro).hops > 0
      /\ Tail(micro) \in Seq(Tasks)
  BY TailIndices DEF Hop, AtRest, IInv, QueuesOK
<1>2. PICK t \in Tasks : t.does = Head(micro).does /\ micro' = Append(Tail(micro), t)
  <2>1. Head(micro).hops - 1 \in Nat /\ Head(micro).does \notin Delivers
    BY <1>1 DEF Tasks
  <2>2. [Head(micro) EXCEPT !.hops = @ - 1] = [Head(micro) EXCEPT !.hops = Head(micro).hops - 1]
    OBVIOUS
  <2>3. \A u \in Tasks, n \in Nat :
          u.does \notin Delivers =>
            [u EXCEPT !.hops = n] \in Tasks /\ [u EXCEPT !.hops = n].does = u.does
    BY DEF Tasks
  <2> QED
    BY <1>1, <2>1, <2>2, <2>3 DEF Hop
<1>3. micro' = Tail(micro) \o <<t>> /\ <<t>> \in Seq(Tasks)
  BY <1>1, <1>2
<1>4. \A S : /\ Has(S, micro') <=> Has(S, micro)
             /\ Lone(S, micro) => Lone(S, micro')
  <2> TAKE S
  <2>1. /\ Has(S, micro) <=> t.does \in S \/ Has(S, Tail(micro))
        /\ Lone(S, micro) => Lone(S, Tail(micro)) /\ ~(t.does \in S /\ Has(S, Tail(micro)))
    BY <1>1, <1>2, HasTail
  <2>2. /\ Has(S, micro') <=> Has(S, Tail(micro)) \/ Has(S, <<t>>)
        /\ Lone(S, micro') <=> /\ Lone(S, Tail(micro)) /\ Lone(S, <<t>>)
                               /\ ~(Has(S, Tail(micro)) /\ Has(S, <<t>>))
    BY <1>1, <1>3, HasJoined
  <2> QED
    BY <2>1, <2>2, HasFew
<1>5. ~At("deliver")
  BY <1>1 DEF At
<1>6. micro' \in Seq(Tasks)
  BY <1>1, <1>3, ConcatIndices
<1> QED
  BY <1>4, <1>5, <1>6

(* A task that takes another round.                                        *)
LEMMA HopKeeps ==
  ASSUME IInv, Hop, UNCHANGED <<sessionVars, agentVars, deliveryVars>>
  PROVE  QueuesOK' /\ Agreement' /\ Buffering'
<1>1. /\ ~At("deliver") /\ micro' \in Seq(Tasks)
      /\ \A S : /\ Has(S, micro') <=> Has(S, micro)
                /\ Lone(S, micro) => Lone(S, micro')
  BY HopDoes
<1>2. QueuesOK'
  BY <1>1 DEF Hop, IInv, QueuesOK
<1>3. /\ IsRunning' <=> IsRunning
      /\ UNCHANGED <<inbox, core, pending>>
  BY DEF Hop, IsRunning, core, sessionVars, agentVars, deliveryVars, turnVars
<1>4. Agreement'
  BY <1>1, <1>3 DEF IInv, Agreement, core
<1>5. Buffering'
  BY <1>1, <1>3 DEF IInv, Buffering, core
<1> QED
  BY <1>2, <1>4, <1>5

(* What is left in the queue was in it.                                    *)
LEMMA RestIsLess ==
  ASSUME IInv
  PROVE  \A S : /\ Has(S, Rest) => Has(S, micro)
                /\ Lone(S, micro) => Lone(S, Rest)
<1>1. CASE AtRest
  BY <1>1, RestMeans
<1>2. CASE ~AtRest
  BY <1>2, HasTail DEF IInv, QueuesOK, Rest, AtRest
<1> QED
  BY <1>1, <1>2

(* The events of the runtime are events.                                   *)
LEMMA EventsAre ==
  /\ \A n \in {"started", "updated", "completed", "cancelled"} :
       \A s \in Seq(TurnEntries) : Event(n, s) \in Events
  /\ \A n \in {"failed", "folded", "needs prompt"} : Event(n, <<>>) \in Events
  /\ \A x \in [id : Nat, call : Calls] : Event("call", x) \in Events
  /\ \A x \in Models : Event("needs results", x) \in Events
  /\ \A x \in Answers : Event("answer", x) \in Events
  /\ \A n, x : Event(n, x)[1] = n /\ Event(n, x)[2] = x
<1>1. \A N, X : \A n \in N, x \in X : <<n, x>> \in N \X X
  OBVIOUS
<1>2. \A n, x : Event(n, x) = <<n, x>> /\ Event(n, x)[1] = n /\ Event(n, x)[2] = x
  BY DEF Event
<1>3. /\ \A n \in {"started", "updated", "completed", "cancelled"} :
           \A s \in Seq(TurnEntries) : Event(n, s) \in Events
      /\ \A n \in {"failed", "folded", "needs prompt"} : Event(n, <<>>) \in Events
  <2>1. <<>> \in {<<>>}
    OBVIOUS
  <2> QED
    BY <1>1, <1>2, <2>1, Zenon DEF Events
<1>4. /\ \A x \in [id : Nat, call : Calls] : Event("call", x) \in Events
      /\ \A x \in Models : Event("needs results", x) \in Events
      /\ \A x \in Answers : Event("answer", x) \in Events
  <2>1. "call" \in {"call"} /\ "needs results" \in {"needs results"} /\ "answer" \in {"answer"}
    OBVIOUS
  <2> QED
    BY <1>1, <1>2, <2>1, Zenon DEF Events
<1> QED
  BY <1>2, <1>3, <1>4

(* What a step begins with says.                                           *)
LEMMA StartEvents ==
  ASSUME NEW fold \in BOOLEAN
  PROVE  /\ StepEvents(fold) \in Seq(Events) /\ RunEvents(fold) \in Seq(Events)
         /\ RunEvents(fold) # <<>>
         /\ \A N \in {Ends, Wanted, CallNews} :
              ~Told(N, StepEvents(fold)) /\ ~Told(N, RunEvents(fold))
         /\ Told(Prompts, StepEvents(fold)) <=> fold
         /\ Told(Prompts, RunEvents(fold)) <=> fold
<1>1. PICK asked \in Events, begun \in Events :
        /\ asked = Event("needs prompt", <<>>) /\ asked[1] = "needs prompt"
        /\ begun = Event("started", <<>>) /\ begun[1] = "started"
  <2>1. <<>> \in Seq(TurnEntries)
    OBVIOUS
  <2> QED
    BY <2>1, EventsAre
<1>2. StepEvents(fold) = IF fold THEN <<asked>> ELSE <<>>
  BY <1>1 DEF StepEvents
<1>3. RunEvents(fold) = <<begun>> \o StepEvents(fold)
  BY <1>1 DEF RunEvents
<1>4. /\ \A N \in {Ends, Wanted, CallNews} :
           ~Told(N, <<asked>>) /\ ~Told(N, <<begun>>) /\ ~Told(N, <<>>)
      /\ Told(Prompts, <<asked>>) /\ ~Told(Prompts, <<begun>>) /\ ~Told(Prompts, <<>>)
  <2>1. \A N, e : (Told(N, <<e>>) <=> e[1] \in N) /\ ~Told(N, <<>>)
    BY ToldFew
  <2>2. /\ \A N \in {Ends, Wanted, CallNews} : asked[1] \notin N /\ begun[1] \notin N
        /\ asked[1] \in Prompts /\ begun[1] \notin Prompts
    BY <1>1 DEF Ends, Wanted, CallNews, Prompts
  <2> QED
    BY <2>1, <2>2, Zenon
<1>5. <<asked>> \in Seq(Events) /\ <<begun>> \in Seq(Events) /\ <<>> \in Seq(Events)
  OBVIOUS
<1>6. /\ StepEvents(fold) \in Seq(Events)
      /\ \A N \in {Ends, Wanted, CallNews} : ~Told(N, StepEvents(fold))
      /\ Told(Prompts, StepEvents(fold)) <=> fold
  <2>1. CASE fold
    BY <1>2, <1>4, <1>5, <2>1, Zenon
  <2>2. CASE ~fold
    BY <1>2, <1>4, <1>5, <2>2, Zenon
  <2> QED
    BY <2>1, <2>2
<1>7. RunEvents(fold) \in Seq(Events) /\ RunEvents(fold) # <<>>
  <2>1. \A s \in Seq(Events) : <<begun>> \o s \in Seq(Events) /\ <<begun>> \o s # <<>>
    OBVIOUS
  <2> QED
    BY <1>3, <1>6, <2>1
<1>8. \A N : Told(N, RunEvents(fold)) <=> Told(N, <<begun>>) \/ Told(N, StepEvents(fold))
  <2> TAKE N
  <2>1. Told(N, <<begun>> \o StepEvents(fold)) <=> Told(N, <<begun>>) \/ Told(N, StepEvents(fold))
    BY <1>5, <1>6, ToldJoined
  <2> QED
    BY <1>3, <2>1
<1> QED
  BY <1>4, <1>6, <1>7, <1>8

(* Where a turn may be started: no turn is under way, and what the buffer  *)
(* is told agrees with who starts it.                                      *)
MayStart(from) ==
  /\ ~active /\ ~At("deliver")
  /\ ~Has(Resumes, Rest) /\ ~Has(Tokens, Rest)
  /\ live' = TRUE /\ bound' = TRUE /\ pending' = <<>>
  /\ deliver' = IF from = "delivery" THEN "delivering" ELSE "idle"

(* The queues once a turn is started or waits.                             *)
LEMMA StartQueues ==
  ASSUME IInv, NEW from \in Froms, MayStart(from), NEW before, Plain(before),
         NEW t \in Tasks, t.does \notin Delivers,
         NEW events \in Seq(Events), After(before, events, <<t>>)
  PROVE  /\ QueuesOK' /\ inbox = <<>> /\ inbox' = events
         /\ \A S : DeliverTask.does \notin S =>
              /\ Has(S, micro') <=> Has(S, Rest) \/ Has(S, before) \/ t.does \in S
              /\ /\ Lone(S, micro) /\ Lone(S, before)
                 /\ ~(Has(S, Rest) /\ (Has(S, before) \/ t.does \in S))
                 /\ ~(Has(S, before) /\ t.does \in S)
                 => Lone(S, micro')
<1>1. inbox = <<>>
  BY DEF MayStart, IInv, Agreement
<1>2. InRest = <<>>
  BY <1>1 DEF MayStart, InRest
<1>3. <<t>> \in Seq(Tasks) /\ ~Has(Delivers, <<t>>)
  <2>1. <<t>> \in Seq(Tasks)
    OBVIOUS
  <2> QED
    BY <2>1, HasFew
<1>4. /\ QueuesOK' /\ inbox' = InRest \o events
      /\ \A S : Left(S, before, events, <<t>>)
  BY <1>3, AfterDoes, PlainMeans DEF IInv
<1>5. inbox' = events
  BY <1>2, <1>4
<1>6. ASSUME NEW S, DeliverTask.does \notin S
      PROVE  /\ Has(S, micro') <=> Has(S, Rest) \/ Has(S, before) \/ t.does \in S
             /\ /\ Lone(S, micro) /\ Lone(S, before)
                /\ ~(Has(S, Rest) /\ (Has(S, before) \/ t.does \in S))
                /\ ~(Has(S, before) /\ t.does \in S)
                => Lone(S, micro')
  <2>1. Left(S, before, events, <<t>>)
    BY <1>4
  <2>2. (Has(S, <<t>>) <=> t.does \in S) /\ Lone(S, <<t>>)
    BY HasFew
  <2>3. Lone(S, micro) => Lone(S, Rest)
    BY RestIsLess
  <2> QED
    BY <1>6, <2>1, <2>2, <2>3 DEF Left
<1> QED
  BY <1>1, <1>4, <1>5, <1>6

(* A turn is started, from whichever handler.                              *)
LEMMA Starts ==
  ASSUME IInv, NEW g \in Goals, NEW from \in Froms, MayStart(from),
         NEW before, Plain(before), StartRun(g, from, before)
  PROVE  QueuesOK' /\ Agreement' /\ Buffering'
<1> USE DeliverIs, PlainMeans
<1>1. CanRun
  BY DEF MayStart, IInv, Agreement, CanRun
<1>2. PICK fold \in BOOLEAN :
        AgentRun(g, fold) /\ After(before, RunEvents(fold), <<Ran(TRUE, from)>>)
  BY <1>1 DEF StartRun
<1> DEFINE t == Ran(TRUE, from)
<1>3. /\ t \in Tasks /\ t.does \in OtherThings
      /\ t.does \notin Delivers /\ t.does \notin Joins
      /\ t.does \notin Idles /\ t.does \notin Teardowns /\ t.does \notin Refusals
      /\ t.does \notin Resumes /\ t.does \notin UserResumes
      /\ t.does \in Tokens <=> from = "delivery"
      /\ \A j : t.does \notin TeardownsOf(j)
  BY RanIs, Zenon
<1> HIDE DEF t
<1>4. After(before, RunEvents(fold), <<t>>)
  BY <1>2 DEF t
<1>5. /\ QueuesOK' /\ inbox = <<>> /\ inbox' = RunEvents(fold)
      /\ \A S : DeliverTask.does \notin S =>
           /\ Has(S, micro') <=> Has(S, Rest) \/ Has(S, before) \/ t.does \in S
           /\ /\ Lone(S, micro) /\ Lone(S, before)
              /\ ~(Has(S, Rest) /\ (Has(S, before) \/ t.does \in S))
              /\ ~(Has(S, before) /\ t.does \in S)
              => Lone(S, micro')
  BY <1>3, <1>4, StartEvents, StartQueues
<1>6. /\ active' = TRUE /\ pendingCancel' = FALSE
      /\ turn' = IF turn = 1 THEN 2 ELSE 1
      /\ phase' = IF fold THEN "prompt" ELSE "streaming"
      /\ IsRunning' /\ ~IsRunning
  BY <1>1, <1>2 DEF StartRun, AgentRun, StartStep, IsRunning, CanRun
<1>7. Agreement'
  <2>1. ~Told(Ends, inbox') /\ (Told(Prompts, inbox') <=> fold) /\ ToldLast(Ends, inbox')
    BY <1>5, StartEvents DEF Told, ToldLast
  <2>2. \A k \in 1..2 : Has(TeardownsOf(k), micro') => turn' # k
    <3>1. \A k \in 1..2 : Has(TeardownsOf(k), micro') => Has(TeardownsOf(k), micro)
      BY <1>3, <1>5, RestIsLess
    <3> QED
      BY <1>6, <3>1 DEF IInv, Agreement
  <2>3. Lone(Teardowns, micro')
    BY <1>3, <1>5 DEF IInv, Agreement
  <2> QED
    BY <1>6, <2>1, <2>2, <2>3 DEF Agreement, MayStart
<1>8. Buffering'
  <2>1. ~Has(Resumes, micro') /\ Lone(Resumes, micro') /\ ~Has(UserResumes, micro')
    BY <1>3, <1>5, SubHas, Within DEF MayStart
  <2>2. ~Has(Refusals, micro')
    BY <1>3, <1>5, SubHas, Within DEF MayStart
  <2>3. /\ Has(Tokens, micro') <=> from = "delivery"
        /\ Lone(Tokens, micro')
    BY <1>3, <1>5 DEF MayStart, IInv, Buffering
  <2> QED
    BY <1>6, <2>1, <2>2, <2>3 DEF Buffering, MayStart
<1> QED
  BY <1>5, <1>7, <1>8

(* _runTurn, with or without a cancellation to wait for.                   *)
LEMMA RunTurnKeeps ==
  ASSUME IInv, NEW g \in Goals, NEW from \in Froms, MayStart(from),
         NEW before, Plain(before), RunTurn(g, from, before)
  PROVE  QueuesOK' /\ Agreement' /\ Buffering'
<1> USE DeliverIs, PlainMeans
<1>1. CASE ~pendingCancel
  BY <1>1, Starts DEF RunTurn
<1>2. CASE pendingCancel
  <2> DEFINE t == Resume(g, from)
  <2>1. /\ t \in Tasks /\ t.does \in Resumes /\ t.does \in OtherThings
        /\ t.does \notin Delivers /\ t.does \notin Joins
        /\ t.does \notin Idles /\ t.does \notin Teardowns /\ t.does \notin Refusals
        /\ t.does \in UserResumes <=> from = "user"
        /\ t.does \in Tokens <=> from = "delivery"
        /\ \A j : t.does \notin TeardownsOf(j)
    BY ResumeIs, Zenon
  <2>2. /\ pendingCancel' = FALSE /\ UNCHANGED <<active, agentVars>>
        /\ After(before, <<>>, <<t>>)
    BY <1>2 DEF RunTurn
  <2> HIDE DEF t
  <2>3. <<>> \in Seq(Events)
    OBVIOUS
  <2>4. /\ QueuesOK' /\ inbox = <<>> /\ inbox' = <<>>
        /\ \A S : DeliverTask.does \notin S =>
             /\ Has(S, micro') <=> Has(S, Rest) \/ Has(S, before) \/ t.does \in S
             /\ /\ Lone(S, micro) /\ Lone(S, before)
                /\ ~(Has(S, Rest) /\ (Has(S, before) \/ t.does \in S))
                /\ ~(Has(S, before) /\ t.does \in S)
                => Lone(S, micro')
    BY <2>1, <2>2, <2>3, StartQueues
  <2>5. Agreement'
    <3>1. ~Told(Ends, inbox') /\ ToldLast(Ends, inbox')
      BY <2>4, ToldFew
    <3>2. \A k \in 1..2 : Has(TeardownsOf(k), micro') => Has(TeardownsOf(k), micro)
      BY <2>1, <2>4, RestIsLess
    <3>3. Lone(Teardowns, micro')
      BY <2>1, <2>4 DEF IInv, Agreement
    <3>4. ~active /\ ~active' /\ ~IsRunning /\ ~IsRunning' /\ UNCHANGED <<phase, turn>>
      BY <2>2 DEF MayStart, IInv, Agreement, agentVars, IsRunning
    <3> QED
      BY <2>4, <3>1, <3>2, <3>3, <3>4 DEF IInv, Agreement
  <2>6. Buffering'
    <3>1. /\ Lone(Resumes, micro') /\ Lone(Tokens, micro')
          /\ Has(Tokens, micro') <=> from = "delivery"
      BY <2>1, <2>4 DEF MayStart, IInv, Buffering
    <3>2. Has(UserResumes, micro') => from = "user"
      BY <2>1, <2>4, SubHas, Within DEF MayStart
    <3>3. ~Has(Refusals, micro')
      BY <2>1, <2>4, SubHas, Within DEF MayStart
    <3> QED
      BY <2>2, <3>1, <3>2, <3>3 DEF Buffering, MayStart, Froms
  <2> QED
    BY <2>4, <2>5, <2>6
<1> QED
  BY <1>1, <1>2 DEF IInv, StateOK

(* Nothing left, or an idle state alone.                                   *)
LEMMA IdledPlain == Plain(<<>>) /\ Plain(<<Idled>>) /\ ~Has(Idles, <<>>)
<1>1. <<>> \in Seq(Tasks) /\ <<Idled>> \in Seq(Tasks)
  BY IdledIs
<1> QED
  BY <1>1, IdledIs, HasFew DEF Plain

(* A turn that waits was begun by the user or by a delivery.               *)
LEMMA ResumeFrom == \A q : Has(Resumes, q) => Has(UserResumes, q) \/ Has(Tokens, q)
<1>1. \A d \in Resumes : d[2].from \in Froms
  BY DEF Resumes
<1>2. Resumes \subseteq UserResumes \cup Tokens
  BY <1>1 DEF UserResumes, Tokens, Froms
<1> QED
  BY <1>2 DEF Has

-----------------------------------------------------------------------------
(* The user starts a turn. *)
LEMMA SubmitKeeps ==
  ASSUME IInv, Submit
  PROVE  QueuesOK' /\ Agreement' /\ Buffering'
<1>1. MayStart("user")
  BY RestMeans
  DEF Submit, MayStart, IInv, StateOK, DeliveryTypeOK, Buffering, deliveryVars
<1> QED
  BY <1>1, IdledPlain, RunTurnKeeps DEF Submit, Goals, Froms

(* compact().                                                              *)
LEMMA CompactKeeps ==
  ASSUME IInv, Compact
  PROVE  QueuesOK' /\ Agreement' /\ Buffering'
<1>1. MayStart("user")
  BY RestMeans
  DEF Compact, MayStart, IInv, StateOK, DeliveryTypeOK, Buffering, deliveryVars
<1> QED
  BY <1>1, IdledPlain, RunTurnKeeps DEF Compact, Goals, Froms

(* The start of a turn that had waited goes on. *)
LEMMA ResumedKeeps ==
  ASSUME IInv, Resumed
  PROVE  QueuesOK' /\ Agreement' /\ Buffering'
<1>1. /\ Head(micro).does \in Resumes /\ Arg = Head(micro).does[2]
      /\ Arg.goal \in Goals /\ Arg.from \in Froms
      /\ Head(micro).does \in UserResumes <=> Arg.from = "user"
      /\ Head(micro).does \in Tokens <=> Arg.from = "delivery"
  <2>1. Head(micro).does \in Resumes /\ Arg = Head(micro).does[2]
    BY HeadDoes, DoingNames DEF Resumed, IInv
  <2>2. \A d \in Resumes :
          /\ d[2].goal \in Goals /\ d[2].from \in Froms
          /\ d \in UserResumes <=> d[2].from = "user"
          /\ d \in Tokens <=> d[2].from = "delivery"
    BY NamesOf DEF Resumes, UserResumes, Tokens, Verdicts
  <2> QED
    BY <2>1, <2>2
<1>2. \A S : /\ Has(S, micro) <=> Head(micro).does \in S \/ Has(S, Rest)
             /\ Lone(S, micro) => Lone(S, Rest) /\ ~(Head(micro).does \in S /\ Has(S, Rest))
  BY HeadDoes DEF Resumed, IInv
<1>3. MayStart(Arg.from)
  <2>1. Has(Resumes, micro) /\ ~Has(Resumes, Rest)
    BY <1>1, <1>2 DEF IInv, Buffering
  <2>2. ~At("deliver")
    BY DEF Resumed, At
  <2>3. CASE Arg.from = "user"
    <3>1. Has(UserResumes, micro) /\ deliver = "idle" /\ ~Has(Tokens, micro)
      BY <1>1, <1>2, <2>3 DEF IInv, Buffering
    <3>2. pending = <<>>
      BY <3>1 DEF IInv, StateOK, DeliveryTypeOK
    <3> QED
      BY <1>2, <2>1, <2>2, <2>3, <3>1, <3>2
      DEF MayStart, IInv, Buffering, Resumed, deliveryVars
  <2>4. CASE Arg.from = "delivery"
    <3>1. Has(Tokens, micro) /\ ~Has(Tokens, Rest) /\ deliver = "delivering" /\ pending = <<>>
      BY <1>1, <1>2, <2>4 DEF IInv, Buffering
    <3> QED
      BY <2>1, <2>2, <2>4, <3>1
      DEF MayStart, IInv, Buffering, Resumed, deliveryVars
  <2> QED
    BY <1>1, <2>3, <2>4 DEF Froms
<1> QED
  BY <1>1, <1>3, IdledPlain, Starts DEF Resumed

(* A batch is dispatched to a session that can take it: a turn starts.     *)
(* A session that cannot refuses, and nothing else is left in the queue    *)
(* when the session is live.                                               *)
LEMMA RefusedKeeps ==
  ASSUME IInv, AtRest \/ At("idled"), ~Has(Tokens, micro),
         live' = live, active' = active, UNCHANGED agentVars, pendingCancel' = pendingCancel,
         bound' = TRUE, pending' = <<>>, deliver' = "delivering",
         After(<<>>, <<>>, <<Resolved(FALSE)>>), live => active /\ AtRest
  PROVE  QueuesOK' /\ Agreement' /\ Buffering'
<1> DEFINE t == Resolved(FALSE)
<1>1. /\ t \in Tasks /\ t.does \in Tokens
      /\ t.does \notin Delivers /\ t.does \notin Joins
      /\ t.does \notin Idles /\ t.does \notin Teardowns
      /\ t.does \notin Resumes /\ t.does \notin UserResumes
      /\ t.does \notin OtherThings
      /\ \A j : t.does \notin TeardownsOf(j)
  <2>1. FALSE \in BOOLEAN
    OBVIOUS
  <2> QED
    BY <2>1, ResolvedIs, Zenon
<1> HIDE DEF t
<1>2. After(<<>>, <<>>, <<t>>)
  BY DEF t
<1>3. /\ <<>> \in Seq(Tasks) /\ <<t>> \in Seq(Tasks) /\ <<>> \in Seq(Events)
      /\ ~Has(Delivers, <<>>) /\ ~Has(Delivers, <<t>>)
  <2>1. <<>> \in Seq(Tasks) /\ <<t>> \in Seq(Tasks) /\ <<>> \in Seq(Events)
    BY <1>1
  <2> QED
    BY <1>1, <2>1, HasFew
<1>4. /\ QueuesOK' /\ inbox' = InRest \o <<>>
      /\ \A S : Left(S, <<>>, <<>>, <<t>>)
  BY <1>2, <1>3, AfterDoes DEF IInv
<1>5. ~At("deliver")
  BY DEF AtRest, At
<1>6. inbox' = inbox /\ ~Scheduled(<<>>)
  BY <1>4, <1>5 DEF InRest, Scheduled, IInv, QueuesOK
<1>7. \A S : /\ Has(S, micro') <=> Has(S, Rest) \/ t.does \in S
             /\ Lone(S, micro) /\ ~(Has(S, Rest) /\ t.does \in S) => Lone(S, micro')
  <2> TAKE S
  <2>1. Left(S, <<>>, <<>>, <<t>>)
    BY <1>4
  <2>2. /\ (Has(S, <<t>>) <=> t.does \in S) /\ Lone(S, <<t>>)
        /\ ~Has(S, <<>>) /\ Lone(S, <<>>)
    BY HasFew
  <2>3. Lone(S, micro) => Lone(S, Rest)
    BY RestIsLess
  <2> QED
    BY <1>6, <2>1, <2>2, <2>3 DEF Left
<1>8. IsRunning' <=> IsRunning
  BY DEF agentVars, IsRunning
<1>9. Agreement'
  <2>1. ~active' /\ inbox' # <<>> => FALSE
    BY <1>5, <1>6 DEF IInv, Agreement
  <2> QED
    BY <1>1, <1>6, <1>7, <1>8, <2>1, RestIsLess DEF IInv, Agreement, agentVars
<1>10. Buffering'
  <2>1. \A S : Has(S, Rest) => Has(S, micro)
    BY RestIsLess
  <2>2. live => \A S : ~Has(S, Rest)
    BY RestMeans
  <2>3. ~Has(Resumes, micro)
    <3>1. live => ~Has(Resumes, micro)
      BY RestMeans
    <3> QED
      BY <3>1 DEF IInv, Buffering
  <2>4. ~Has(Resumes, micro') /\ ~Has(UserResumes, micro') /\ Lone(Resumes, micro')
    BY <1>1, <1>7, <2>1, <2>3, SubHas, Within
  <2>5. Has(Tokens, micro') /\ Lone(Tokens, micro')
    BY <1>1, <1>7, <2>1 DEF IInv, Buffering
  <2>6. live => ~Has(OtherThings, micro')
    BY <1>1, <1>7, <2>2
  <2> QED
    BY <2>4, <2>5, <2>6 DEF IInv, Buffering
<1> QED
  BY <1>4, <1>9, <1>10

(* The buffer's input is over when nothing is dispatched.                  *)
LEMMA NotDispatched ==
  ASSUME NEW canRun, Deliver(canRun), ~TurnDispatched
  PROVE  /\ After(<<>>, <<>>, <<>>)
         /\ UNCHANGED <<turnVars, historyVars, holderVars, swap, agentVars>>
  BY DEF Deliver

(* A batch is dispatched: a turn starts, or is refused.                    *)
LEMMA Dispatched ==
  ASSUME NEW canRun, Deliver(canRun), TurnDispatched
  PROVE  IF canRun /\ ~active
         THEN RunTurn("respond", "delivery", <<Idled>>)
         ELSE /\ After(<<>>, <<>>, <<Resolved(FALSE)>>)
              /\ UNCHANGED <<turnVars, historyVars, holderVars, swap, agentVars>>
  BY DEF Deliver, BeginDeliveryTurn

(* A task that changes nothing the invariants speak of.                    *)
LEMMA QuietTask ==
  ASSUME IInv, NEW name, At(name), name # "deliver", UNCHANGED <<core, pending>>,
         Head(micro).does \notin Tokens,
         live /\ ~active /\ deliver = "awaiting" => Head(micro).does \notin Idles,
         After(<<>>, <<>>, <<>>)
  PROVE  QueuesOK' /\ Agreement' /\ Buffering'
<1> USE DeliverIs
<1>1. /\ <<>> \in Seq(Tasks) /\ <<>> \in Seq(Events) /\ ~Has(Delivers, <<>>)
      /\ \A S : ~Has(S, <<>>) /\ Lone(S, <<>>)
  BY HasFew
<1>2. /\ QueuesOK' /\ inbox' = inbox \o <<>> /\ inbox \in Seq(Events)
      /\ \A S : DeliverTask.does \notin S =>
           /\ Has(S, micro') <=> Has(S, Rest)
           /\ Lone(S, micro) => Lone(S, micro')
  BY <1>1, TaskDoes
<1>3. inbox' = inbox /\ ~At("deliver")
  BY <1>2 DEF At
<1>4. \A S : Has(S, micro) <=> Head(micro).does \in S \/ Has(S, Rest)
  BY HeadDoes DEF IInv
<1>5. Head(micro).does \in Doings
  BY HeadDoes DEF IInv
<1>6. IsRunning' <=> IsRunning
  BY DEF IsRunning, core
<1>7. Agreement'
  BY <1>2, <1>3, <1>4, <1>6 DEF IInv, Agreement, core
<1>8. Buffering'
  <2>1. Has(Tokens, micro') <=> Has(Tokens, micro)
    BY <1>2, <1>4
  <2>2. live => ~Has(Refusals, micro')
    <3>1. Head(micro).does \in OtherThings
      BY <1>5, Within DEF OtherThings
    <3> QED
      BY <1>2, <1>4, <3>1 DEF IInv, Buffering
  <2> QED
    BY <1>2, <1>4, <2>1, <2>2 DEF IInv, Buffering, core
<1> QED
  BY <1>2, <1>7, <1>8

(* A report reaches the buffer.                                            *)
LEMMA BackgroundEndsKeeps ==
  ASSUME IInv, NEW c \in Calls, BackgroundEnds(c)
  PROVE  QueuesOK' /\ Agreement' /\ Buffering'
<1>1. AtRest /\ Deliver(live) /\ ReportSettled(c) /\ live' = live
  BY DEF BackgroundEnds
<1>2. deliver # "delivering" /\ ~Has(Tokens, micro) /\ bound = TRUE
  BY <1>1, RestMeans DEF IInv, Buffering
<1>3. CASE deliver = "idle"
  <2>1. /\ deliver' = "delivering" /\ pending' = <<>> /\ bound' = TRUE
        /\ TurnDispatched
    BY <1>1, <1>2, <1>3 DEF ReportSettled, Dispatch, TurnDispatched
  <2>2. CASE live /\ ~active
    <3>1. MayStart("delivery")
      BY <1>1, <2>1, <2>2, RestMeans DEF MayStart
    <3>2. RunTurn("respond", "delivery", <<Idled>>)
      BY <1>1, <2>1, <2>2, Dispatched
    <3> QED
      BY <3>1, <3>2, IdledPlain, RunTurnKeeps DEF Goals, Froms
  <2>3. CASE ~(live /\ ~active)
    <3>1. /\ After(<<>>, <<>>, <<Resolved(FALSE)>>)
          /\ UNCHANGED <<turnVars, historyVars, holderVars, swap, agentVars>>
      BY <1>1, <2>1, <2>3, Dispatched
    <3>2. active' = active /\ UNCHANGED agentVars /\ pendingCancel' = pendingCancel
      BY <3>1 DEF turnVars
    <3> QED
      BY <1>1, <1>2, <2>1, <2>3, <3>1, <3>2, RefusedKeeps
  <2> QED
    BY <2>2, <2>3
<1>4. CASE deliver = "awaiting"
  <2>1. deliver' = deliver /\ bound' = bound /\ ~TurnDispatched
    BY <1>1, <1>4 DEF ReportSettled, TurnDispatched
  <2>2. /\ After(<<>>, <<>>, <<>>)
        /\ UNCHANGED <<turnVars, historyVars, holderVars, swap, agentVars>>
    BY <1>1, <2>1, NotDispatched
  <2>3. UNCHANGED core
    BY <1>1, <2>1, <2>2 DEF core, turnVars, agentVars
  <2> QED
    BY <1>1, <2>2, <2>3, IdledPlain, QuietInput
<1> QED
  BY <1>2, <1>3, <1>4 DEF IInv, StateOK, DeliveryTypeOK, DeliveryStates

(* A provider is there.                                                    *)
LEMMA AttachKeeps ==
  ASSUME IInv, Attach
  PROVE  QueuesOK' /\ Agreement' /\ Buffering'
<1>1. AtRest /\ ~live /\ live' = TRUE /\ AgentBound /\ Deliver(TRUE) /\ bound' = TRUE
  BY DEF Attach, AgentBound
<1>2. /\ deliver # "delivering" /\ ~Has(Tokens, micro) /\ bound = TRUE
      /\ ~active /\ ~IsRunning
  BY <1>1, RestMeans DEF IInv, Buffering, Agreement
<1>3. CASE deliver = "awaiting"
  <2>1. deliver' = "delivering" /\ pending' = <<>> /\ TurnDispatched
    BY <1>1, <1>2, <1>3 DEF AgentBound, Dispatch, TurnDispatched
  <2>2. MayStart("delivery")
    BY <1>1, <1>2, <2>1, RestMeans DEF MayStart
  <2>3. RunTurn("respond", "delivery", <<Idled>>)
    BY <1>1, <1>2, <2>1, Dispatched
  <2> QED
    BY <2>2, <2>3, IdledPlain, RunTurnKeeps DEF Goals, Froms
<1>4. CASE deliver = "idle"
  <2>1. deliver' = deliver /\ pending' = pending /\ ~TurnDispatched
    BY <1>1, <1>4 DEF AgentBound, TurnDispatched
  <2>2. /\ After(<<>>, <<>>, <<>>)
        /\ UNCHANGED <<turnVars, historyVars, holderVars, swap, agentVars>>
    BY <1>1, <2>1, NotDispatched
  <2>3. /\ QueuesOK' /\ inbox' = <<>>
        /\ \A S : LeftFirst(S, <<>>, <<>>, <<>>)
    BY <1>1, <2>2, IdledPlain, PlainMeans, RestDoes
  <2>4. \A S : ~Has(S, micro') /\ Lone(S, micro')
    BY <2>3, HasFew DEF LeftFirst
  <2>5. UNCHANGED <<active, pendingCancel, turn, phase>>
    BY <2>2 DEF turnVars, agentVars
  <2>6. Agreement'
    BY <1>2, <2>3, <2>4, <2>5, ToldFew DEF Agreement, IsRunning
  <2>7. Buffering'
    BY <1>1, <1>2, <1>4, <2>1, <2>4, <2>5 DEF IInv, Buffering
  <2> QED
    BY <2>3, <2>6, <2>7
<1> QED
  BY <1>2, <1>3, <1>4 DEF IInv, StateOK, DeliveryTypeOK, DeliveryStates

(* The repository sees an idle state.                                      *)
LEMMA IdleSeenKeeps ==
  ASSUME IInv, IdleSeen
  PROVE  QueuesOK' /\ Agreement' /\ Buffering'
<1>1. /\ At("idled") /\ ~At("deliver") /\ Deliver(live) /\ AgentIdled
      /\ live' = live /\ bound' = TRUE /\ bound = TRUE
  BY DEF IdleSeen, AgentIdled, At, IInv, Buffering
<1>2. \A S : /\ Has(S, micro) <=> Head(micro).does \in S \/ Has(S, Rest)
             /\ Lone(S, micro) => Lone(S, Rest) /\ ~(Head(micro).does \in S /\ Has(S, Rest))
  BY <1>1, HeadDoes DEF IInv
<1>3. Head(micro).does \in Idles
  BY <1>1, HeadDoes, DoingNames DEF IInv
<1>4. Has(Idles, micro) /\ (active => deliver # "awaiting")
  BY <1>2, <1>3 DEF IInv, Buffering
<1>5. CASE deliver = "awaiting"
  <2>1. deliver' = "delivering" /\ pending' = <<>> /\ TurnDispatched
    BY <1>1, <1>5 DEF AgentIdled, Dispatch, TurnDispatched
  <2>2. ~active /\ ~Has(Tokens, micro) /\ ~Has(Resumes, micro)
    BY <1>4, <1>5, ResumeFrom DEF IInv, Buffering
  <2>3. CASE live
    <3>1. MayStart("delivery")
      BY <1>1, <1>2, <2>1, <2>2, <2>3 DEF MayStart
    <3>2. RunTurn("respond", "delivery", <<Idled>>)
      BY <1>1, <2>1, <2>2, <2>3, Dispatched
    <3> QED
      BY <3>1, <3>2, IdledPlain, RunTurnKeeps DEF Goals, Froms
  <2>4. CASE ~live
    <3>1. /\ After(<<>>, <<>>, <<Resolved(FALSE)>>)
          /\ UNCHANGED <<turnVars, historyVars, holderVars, swap, agentVars>>
      <4>1. IF live /\ ~active
            THEN RunTurn("respond", "delivery", <<Idled>>)
            ELSE /\ After(<<>>, <<>>, <<Resolved(FALSE)>>)
                 /\ UNCHANGED <<turnVars, historyVars, holderVars, swap, agentVars>>
        BY <1>1, <2>1, Zenon DEF Deliver, BeginDeliveryTurn
      <4> QED
        BY <2>4, <4>1, Zenon
    <3>2. active' = active /\ UNCHANGED agentVars /\ pendingCancel' = pendingCancel
      BY <3>1 DEF turnVars
    <3> QED
      BY <1>1, <2>1, <2>2, <2>4, <3>1, <3>2, RefusedKeeps
  <2> QED
    BY <2>3, <2>4
<1>6. CASE deliver # "awaiting"
  <2>1. deliver' = deliver /\ pending' = pending /\ ~TurnDispatched
    BY <1>1, <1>6 DEF AgentIdled, TurnDispatched
  <2>2. /\ After(<<>>, <<>>, <<>>)
        /\ UNCHANGED <<turnVars, historyVars, holderVars, swap, agentVars>>
    BY <1>1, <2>1, NotDispatched
  <2>3. UNCHANGED <<core, pending>>
    BY <1>1, <2>1, <2>2 DEF core, turnVars, agentVars
  <2>4. Head(micro).does \notin Tokens
    BY <1>3, IdledIs, NamesOf
  <2> QED
    BY <1>1, <1>6, <2>2, <2>3, <2>4, QuietTask
<1> QED
  BY <1>5, <1>6

(* Plain tasks, and more of them.                                          *)
LEMMA PlainPair ==
  ASSUME NEW q, NEW r, Plain(q), Plain(r)
  PROVE  Plain(q \o r) /\ (Has(Idles, q \o r) <=> Has(Idles, q) \/ Has(Idles, r))
<1>1. q \o r \in Seq(Tasks) /\ \A S : Has(S, q \o r) <=> Has(S, q) \/ Has(S, r)
  BY HasJoined, ConcatIndices DEF Plain
<1> QED
  BY <1>1 DEF Plain

(* The answers of a join start nothing.                                    *)
LEMMA JoinedPlain ==
  ASSUME NEW r \in Seq(Answers)
  PROVE  Plain(<<Joined(r)>>) /\ ~Has(Idles, <<Joined(r)>>)
<1>1. <<Joined(r)>> \in Seq(Tasks)
  BY JoinedIs
<1> QED
  BY <1>1, JoinedIs, HasFew DEF Plain

(* The answers to calls, one each.                                         *)
LEMMA AnswersTo ==
  ASSUME NEW rq \in [Calls -> Requests], NEW calls \in Seq(Calls)
  PROVE  [i \in DOMAIN calls |-> AnswerEntry(calls[i], rq[calls[i]])] \in Seq(Answers)
<1>1. \A i \in DOMAIN calls : AnswerEntry(calls[i], rq[calls[i]]) \in Answers
  BY DEF AnswerEntry, Answers, Hows
<1>2. DOMAIN calls = 1..Len(calls) /\ Len(calls) \in Nat
  OBVIOUS
<1> QED
  BY <1>1, <1>2

(* A join that resolves starts nothing.                                    *)
LEMMA JoinTasksPlain ==
  ASSUME NEW rq \in [Calls -> Requests], join \in Seq(Calls)
  PROVE  Plain(JoinTasks(rq)) /\ ~Has(Idles, JoinTasks(rq))
  BY AnswersTo, JoinedPlain, IdledPlain DEF JoinTasks

(* What a turn that ends leaves, whether its join was waiting or not.      *)
LEMMA EndTasksPlain ==
  /\ Plain((IF join # <<>> THEN <<Joined(<<>>)>> ELSE <<>>) \o <<Idled>>)
  /\ Has(Idles, (IF join # <<>> THEN <<Joined(<<>>)>> ELSE <<>>) \o <<Idled>>)
<1>1. <<>> \in Seq(Answers)
  OBVIOUS
<1>2. PICK q : q = (IF join # <<>> THEN <<Joined(<<>>)>> ELSE <<>>) /\ Plain(q)
  BY <1>1, JoinedPlain, IdledPlain
<1>3. Has(Idles, <<Idled>>)
  BY IdledIs, HasFew
<1> QED
  BY <1>2, <1>3, PlainPair, IdledPlain

-----------------------------------------------------------------------------
(* The deliveries. *)
LEMMA EventInHand ==
  ASSUME IInv, At("deliver")
  PROVE  /\ Head(inbox) \in Events
         /\ Head(inbox)[1] = "needs results" => EvArg \in Models
         /\ Head(inbox)[1] = "call" => EvArg \in [id : Nat, call : Calls]
         /\ Head(inbox)[1] = "answer" => EvArg \in Answers
<1>1. Head(inbox) \in Events
  BY DeliversSomething, TailIndices DEF IInv, QueuesOK
<1>2. \A e \in Events :
        /\ e[1] = "needs results" => e[2] \in Models
        /\ e[1] = "call" => e[2] \in [id : Nat, call : Calls]
        /\ e[1] = "answer" => e[2] \in Answers
  BY DEF Events
<1> QED
  BY <1>1, <1>2 DEF EvArg

(* Events that only tell the session something.                            *)
LEMMA QuietEventsKeep ==
  ASSUME IInv, EventIgnored \/ OnTranscript \/ OnCall \/ OnFolded \/ OnAnswer
  PROVE  QueuesOK' /\ Agreement' /\ Buffering'
<1>1. At("deliver") /\ After(<<>>, <<>>, <<>>)
  BY DEF EventIgnored, OnTranscript, OnCall, OnFolded, OnAnswer, Delivered
<1>2. active => Head(inbox)[1] \notin Ends \cup Prompts
  BY DEF EventIgnored, OnTranscript, OnCall, OnFolded, OnAnswer, Delivered, Ev, Ends, Prompts
<1>3. UNCHANGED <<core, pending>>
  BY DEF EventIgnored, OnTranscript, OnCall, OnFolded, OnAnswer, core, sessionVars, agentVars,
         deliveryVars, turnVars
<1> QED
  BY <1>1, <1>2, <1>3, IdledPlain, QuietDelivery

(* A step waits for the results of its calls.                              *)
LEMMA NeedsResultsKeeps ==
  ASSUME IInv, OnNeedsResults
  PROVE  QueuesOK' /\ Agreement' /\ Buffering'
<1>1. At("deliver") /\ active /\ Head(inbox)[1] = "needs results"
  BY DEF OnNeedsResults, Delivered, Ev
<1>2. PICK after : Plain(after) /\ ~Has(Idles, after) /\ After(<<>>, <<>>, after)
  <2>1. request \in [Calls -> Requests]
    BY DEF IInv, StateOK
  <2>2. EvArg.calls \in Seq(Calls)
    <3>1. EvArg \in Models
      BY <1>1, EventInHand
    <3> QED
      BY <3>1 DEF Models
  <2>3. CASE After(<<>>, <<>>, <<>>)
    BY <2>3, IdledPlain
  <2>4. CASE After(<<>>, <<>>, <<Joined([n \in DOMAIN EvArg.calls |->
                            AnswerEntry(EvArg.calls[n], request[EvArg.calls[n]])])>>)
    BY <2>1, <2>2, <2>4, AnswersTo, JoinedPlain
  <2> QED
    BY <2>3, <2>4 DEF OnNeedsResults
<1>3. UNCHANGED <<core, pending>>
  BY DEF OnNeedsResults, core, agentVars, deliveryVars
<1> QED
  BY <1>1, <1>2, <1>3, QuietDelivery DEF Ends, Prompts

(* A fold waits for its prompt.                                            *)
LEMMA NeedsPromptKeeps ==
  ASSUME IInv, OnNeedsPrompt
  PROVE  QueuesOK' /\ Agreement' /\ Buffering'
<1> USE DeliverIs
<1>1. At("deliver") /\ active /\ Head(inbox)[1] = "needs prompt" /\ After(<<>>, <<>>, <<>>)
  BY DEF OnNeedsPrompt, Delivered, Ev
<1>2. UNCHANGED <<sessionVars, deliveryVars>> /\ turn' = turn
      /\ phase' = IF IsRunning /\ phase = "prompt" THEN "summarizing" ELSE phase
  BY DEF OnNeedsPrompt, MaySubmit, AgentTakesPrompt, agentVars
<1>3. /\ IsRunning' <=> IsRunning
      /\ IsRunning' => phase' # "prompt"
      /\ ~IsRunning => phase' = phase
  BY <1>2 DEF IsRunning
<1>4. /\ QueuesOK' /\ inbox # <<>> /\ inbox \in Seq(Events)
      /\ inbox' = Tail(inbox)
      /\ \A S : DeliverTask.does \notin S =>
           /\ Has(S, micro') <=> Has(S, micro)
           /\ Lone(S, micro) => Lone(S, micro')
      /\ Has(OtherThings, micro)
  BY <1>1, IdledPlain, HasFew, DeliveryEnds
<1>5. \A N : /\ Told(N, inbox) <=> Head(inbox)[1] \in N \/ Told(N, inbox')
             /\ ToldLast(N, inbox) => ToldLast(N, inbox')
  BY <1>4, ToldTail
<1>6. UNCHANGED <<live, active, pendingCancel>>
  BY <1>2 DEF sessionVars, turnVars
<1>7. Agreement'
  BY <1>1, <1>2, <1>3, <1>4, <1>5, <1>6 DEF IInv, Agreement, Ends
<1>8. Buffering'
  BY <1>1, <1>2, <1>4, <1>6 DEF IInv, Buffering, deliveryVars
<1> QED
  BY <1>4, <1>7, <1>8

(* The event that ends a turn.                                             *)
LEMMA EndKeeps ==
  ASSUME IInv, OnEnd
  PROVE  QueuesOK' /\ Agreement' /\ Buffering'
<1> USE DeliverIs
<1>1. /\ At("deliver") /\ active /\ Head(inbox)[1] \in Ends /\ active' = FALSE
      /\ UNCHANGED <<live, pendingCancel, userVars, agentVars, deliveryVars>>
  BY DEF OnEnd, Delivered, Ev, Ends, FinishTurn
<1>2. PICK after : Plain(after) /\ Has(Idles, after) /\ After(<<>>, <<>>, after)
  <2> DEFINE q == (IF join # <<>> THEN <<Joined(<<>>)>> ELSE <<>>)
  <2>1. After(<<>>, <<>>, <<>> \o q \o <<Idled>>)
    BY DEF OnEnd, FinishTurn
  <2>2. <<>> \o q = q
    OBVIOUS
  <2> QED
    BY <2>1, <2>2, EndTasksPlain
<1>3. /\ QueuesOK' /\ inbox # <<>> /\ inbox \in Seq(Events)
      /\ inbox' = Tail(inbox)
      /\ \A S : DeliverTask.does \notin S =>
           /\ Has(S, micro') <=> Has(S, micro) \/ Has(S, after)
           /\ Lone(S, micro) /\ ~Has(S, after) => Lone(S, micro')
      /\ Has(OtherThings, micro)
  BY <1>1, <1>2, DeliveryEnds
<1>4. inbox' = <<>> /\ ~IsRunning
  BY <1>1, <1>3, ToldTail DEF IInv, Agreement
<1>5. ~IsRunning'
  BY <1>1, <1>4 DEF IsRunning, agentVars
<1>6. Agreement'
  BY <1>1, <1>2, <1>3, <1>4, <1>5, ToldFew, PlainMeans DEF IInv, Agreement, agentVars
<1>7. Buffering'
  BY <1>1, <1>2, <1>3, PlainMeans DEF IInv, Buffering, deliveryVars
<1> QED
  BY <1>3, <1>6, <1>7

(* The tasks that are no deliveries.                                       *)
LEMMA HeadIs ==
  ASSUME IInv, NEW name, At(name)
  PROVE  /\ name = "teardown" => Arg \in 1..2 /\ Head(micro).does \in Teardowns
              /\ Head(micro).does \in TeardownsOf(Arg)
         /\ name = "joined" => Arg \in Seq(Answers)
         /\ name = "ran" => /\ Arg.ok = TRUE /\ Arg.from \in Froms
                            /\ Head(micro).does \in Tokens <=> Arg.from = "delivery"
         /\ name = "resolved" => /\ Arg \in BOOLEAN
                                 /\ Head(micro).does \in Tokens
                                 /\ Head(micro).does \in Refusals <=> Arg = FALSE
<1>1. Head(micro).does \in Doings /\ Head(micro).does[1] = name /\ Arg = Head(micro).does[2]
  BY HeadDoes DEF IInv
<1>2. /\ name = "teardown" => Head(micro).does \in Teardowns
      /\ name = "joined" => Head(micro).does \in Joins
      /\ name = "ran" => Head(micro).does \in Runs
      /\ name = "resolved" => Head(micro).does \in Verdicts
  BY <1>1, DoingNames
<1>3. \A d \in Teardowns : d[2] \in 1..2 /\ d \in TeardownsOf(d[2])
  BY DEF Teardowns, TeardownsOf
<1>4. \A d \in Joins : d[2] \in Seq(Answers)
  <2>1. \A n, X : \A d \in {n} \X X : d[2] \in X
    OBVIOUS
  <2> QED
    BY <2>1, Zenon DEF Joins
<1>5. \A d \in Runs : /\ d[2].ok = TRUE /\ d[2].from \in Froms
                      /\ d \in Tokens <=> d[2].from = "delivery"
  <2>1. \A n, X : \A d \in {n} \X X : d[2] \in X /\ d[1] = n
    OBVIOUS
  <2>2. \A X, Y : \A r \in [ok : X, from : Y] : r.ok \in X /\ r.from \in Y
    OBVIOUS
  <2>3. \A d \in Runs : d[2].ok \in {TRUE} /\ d[2].from \in Froms /\ d[1] = "ran"
    BY <2>1, <2>2, Zenon DEF Runs
  <2>4. \A d \in Runs : d[2].ok = TRUE
    BY <2>3, Zenon
  <2>5. \A d \in Runs : d \notin Verdicts
    BY <2>3 DEF Verdicts
  <2> QED
    BY <2>3, <2>4, <2>5, Zenon DEF Tokens
<1>6. \A d \in Verdicts : d[2] \in BOOLEAN /\ d \in Tokens /\ (d \in Refusals <=> d[2] = FALSE)
  <2>1. \A n, X : \A d \in {n} \X X : d[2] \in X
    OBVIOUS
  <2> QED
    BY <2>1, Zenon DEF Verdicts, Tokens, Refusals
<1> QED
  BY <1>1, <1>2, <1>3, <1>4, <1>5, <1>6, Zenon

(* _scheduleTeardown: the turn is dropped.                                 *)
LEMMA TearKeeps ==
  ASSUME IInv, Tear, UNCHANGED <<sessionVars, deliveryVars>>
  PROVE  QueuesOK' /\ Agreement' /\ Buffering'
<1> USE DeliverIs
<1>1. /\ At("teardown") /\ ~At("deliver") /\ turn' = IF turn = Arg THEN 0 ELSE turn
      /\ UNCHANGED phase /\ After(<<>>, <<>>, <<>>)
  BY DEF Tear, At
<1>2. Arg \in 1..2 /\ Head(micro).does \in Teardowns /\ Head(micro).does \in TeardownsOf(Arg)
  BY <1>1, HeadIs
<1>3. \A S : /\ Has(S, micro) <=> Head(micro).does \in S \/ Has(S, Rest)
             /\ Lone(S, micro) => Lone(S, Rest) /\ ~(Head(micro).does \in S /\ Has(S, Rest))
  BY <1>1, HeadDoes DEF IInv
<1>4. /\ <<>> \in Seq(Tasks) /\ <<>> \in Seq(Events) /\ ~Has(Delivers, <<>>)
      /\ \A S : ~Has(S, <<>>) /\ Lone(S, <<>>)
  BY HasFew
<1>5. /\ QueuesOK' /\ inbox' = inbox \o <<>> /\ inbox \in Seq(Events)
      /\ \A S : DeliverTask.does \notin S =>
           /\ Has(S, micro') <=> Has(S, Rest)
           /\ Lone(S, micro) => Lone(S, micro')
  BY <1>1, <1>4, TaskDoes
<1>6. inbox' = inbox
  BY <1>5
<1>7. UNCHANGED <<live, active, pendingCancel>>
  BY DEF sessionVars, turnVars
<1>8. Has(TeardownsOf(Arg), micro) /\ ~Has(Teardowns, Rest)
  BY <1>2, <1>3 DEF IInv, Agreement
<1>9. (IsRunning' <=> IsRunning) /\ (IsRunning => turn' = turn)
  BY <1>1, <1>2, <1>8 DEF IInv, Agreement, IsRunning
<1>10. Agreement'
  <2>1. Lone(Teardowns, micro') /\ \A k \in 1..2 : ~Has(TeardownsOf(k), micro')
    BY <1>5, <1>8, SubHas, Within
  <2> QED
    BY <1>1, <1>6, <1>7, <1>9, <2>1 DEF IInv, Agreement
<1>11. Buffering'
  <2>1. Head(micro).does \notin Tokens /\ Head(micro).does \notin Idles
    BY <1>2, NamesOf
  <2>2. live => ~Has(Refusals, micro')
    <3>1. Head(micro).does \in OtherThings
      <4>1. Head(micro).does \in Doings
        BY <1>1, HeadDoes DEF IInv
      <4> QED
        BY <2>1, <4>1, Within DEF OtherThings
    <3> QED
      BY <1>3, <1>5, <3>1 DEF IInv, Buffering
  <2> QED
    BY <1>3, <1>5, <1>7, <2>1, <2>2 DEF IInv, Buffering, deliveryVars
<1> QED
  BY <1>5, <1>10, <1>11

(* The rest of _runTurn.                                                   *)
LEMMA RunAnsweredKeeps ==
  ASSUME IInv, RunAnswered
  PROVE  QueuesOK' /\ Agreement' /\ Buffering'
<1> USE DeliverIs
<1>1. At("ran") /\ ~At("deliver")
  BY DEF RunAnswered, At
<1>2. Arg.ok = TRUE /\ Arg.from \in Froms /\ (Head(micro).does \in Tokens <=> Arg.from = "delivery")
  BY <1>1, HeadIs
<1>3. /\ After(<<>>, <<>>, Tell(Arg.from, TRUE))
      /\ UNCHANGED <<turnVars, live, agentVars, deliveryVars>>
  BY <1>2, Zenon DEF RunAnswered
<1>4. /\ Head(micro).does \in Doings /\ Head(micro).does[1] = "ran"
      /\ \A S : /\ Has(S, micro) <=> Head(micro).does \in S \/ Has(S, Rest)
                /\ Lone(S, micro) => Lone(S, Rest) /\ ~(Head(micro).does \in S /\ Has(S, Rest))
  BY <1>1, HeadDoes DEF IInv
<1>5. CASE Arg.from = "user"
  <2>1. After(<<>>, <<>>, <<>>)
    BY <1>3, <1>5 DEF Tell
  <2>2. Head(micro).does \notin Tokens /\ Head(micro).does \notin Idles
    BY <1>2, <1>4, <1>5, NamesOf
  <2>3. UNCHANGED <<core, pending>>
    BY <1>3 DEF core, turnVars, agentVars, deliveryVars
  <2> QED
    BY <1>1, <2>1, <2>2, <2>3, QuietTask
<1>6. CASE Arg.from = "delivery"
  <2>1. PICK t \in Tasks :
          /\ t = Resolved(TRUE) /\ t.does \in Tokens
          /\ t.does \notin Delivers /\ t.does \notin Idles /\ t.does \notin Teardowns
          /\ t.does \notin Resumes /\ t.does \notin UserResumes /\ t.does \notin Refusals
          /\ \A j : t.does \notin TeardownsOf(j)
    <3>1. TRUE \in BOOLEAN
      OBVIOUS
    <3> QED
      BY <3>1, ResolvedIs, Zenon
  <2>2. After(<<>>, <<>>, <<t>>)
    BY <1>3, <1>6, <2>1, Zenon DEF Tell
  <2>3. /\ <<>> \in Seq(Tasks) /\ <<t>> \in Seq(Tasks) /\ <<>> \in Seq(Events)
        /\ ~Has(Delivers, <<>>) /\ ~Has(Delivers, <<t>>)
    <3>1. <<>> \in Seq(Tasks) /\ <<t>> \in Seq(Tasks) /\ <<>> \in Seq(Events)
      OBVIOUS
    <3> QED
      BY <2>1, <3>1, HasFew
  <2>4. /\ QueuesOK' /\ inbox' = inbox \o <<>> /\ inbox \in Seq(Events)
        /\ \A S : DeliverTask.does \notin S =>
              /\ Has(S, micro') <=> Has(S, Rest) \/ Has(S, <<>>) \/ Has(S, <<t>>)
              /\ /\ Lone(S, micro) /\ Lone(S, <<>>) /\ Lone(S, <<t>>)
                 /\ ~(Has(S, Rest) /\ (Has(S, <<>>) \/ Has(S, <<t>>)))
                 /\ ~(Has(S, <<>>) /\ Has(S, <<t>>))
                 => Lone(S, micro')
    BY <1>1, <2>2, <2>3, TaskDoes
  <2>5. \A S : DeliverTask.does \notin S =>
           /\ Has(S, micro') <=> Has(S, Rest) \/ t.does \in S
           /\ Lone(S, micro) /\ ~(Has(S, Rest) /\ t.does \in S) => Lone(S, micro')
    BY <2>4, HasFew
  <2>6. inbox' = inbox
    BY <2>4
  <2>7. /\ UNCHANGED <<core, pending>> /\ (IsRunning' <=> IsRunning)
    BY <1>3 DEF core, turnVars, agentVars, deliveryVars, IsRunning
  <2>8. Head(micro).does \in Tokens /\ Head(micro).does \notin Idles
    BY <1>2, <1>4, <1>6, NamesOf
  <2>9. Agreement'
    BY <1>1, <1>4, <2>1, <2>5, <2>6, <2>7 DEF IInv, Agreement, core
  <2>10. Buffering'
    <3>1. /\ ~Has(Tokens, Rest) /\ Has(Tokens, micro') /\ Lone(Tokens, micro')
          /\ deliver = "delivering"
      BY <1>4, <2>1, <2>5, <2>8 DEF IInv, Buffering
    <3>2. ~Has(Refusals, micro')
      BY <2>1, <2>5, <3>1, SubHas, Within
    <3> QED
      BY <1>4, <2>1, <2>5, <2>7, <2>8, <3>1, <3>2 DEF IInv, Buffering, core
  <2> QED
    BY <2>4, <2>9, <2>10
<1> QED
  BY <1>2, <1>5, <1>6 DEF Froms

(* The buffer hears of the turn it started.                                *)
LEMMA DeliveryAnsweredKeeps ==
  ASSUME IInv, DeliveryAnswered
  PROVE  QueuesOK' /\ Agreement' /\ Buffering'
<1> USE DeliverIs
<1>1. /\ At("resolved") /\ ~At("deliver") /\ DeliveryResolved(Arg) /\ After(<<>>, <<>>, <<>>)
      /\ UNCHANGED <<sessionVars, agentVars>>
  BY DEF DeliveryAnswered, At
<1>2. /\ Arg \in BOOLEAN /\ Head(micro).does \in Tokens
      /\ Head(micro).does \in Refusals <=> Arg = FALSE
  BY <1>1, HeadIs
<1>3. /\ Head(micro).does[1] = "resolved"
      /\ \A S : /\ Has(S, micro) <=> Head(micro).does \in S \/ Has(S, Rest)
                /\ Lone(S, micro) => Lone(S, Rest) /\ ~(Head(micro).does \in S /\ Has(S, Rest))
  BY <1>1, HeadDoes DEF IInv
<1>4. /\ <<>> \in Seq(Tasks) /\ <<>> \in Seq(Events) /\ ~Has(Delivers, <<>>)
      /\ \A S : ~Has(S, <<>>) /\ Lone(S, <<>>)
  BY HasFew
<1>5. /\ QueuesOK' /\ inbox' = inbox \o <<>> /\ inbox \in Seq(Events)
      /\ \A S : DeliverTask.does \notin S =>
           /\ Has(S, micro') <=> Has(S, Rest)
           /\ Lone(S, micro) => Lone(S, micro')
  BY <1>1, <1>4, TaskDoes
<1>6. inbox' = inbox
  BY <1>5
<1>7. UNCHANGED <<live, active, pendingCancel, turn, phase>> /\ (IsRunning' <=> IsRunning)
  BY <1>1 DEF sessionVars, turnVars, agentVars, IsRunning
<1>8. ~Has(Tokens, micro') /\ ~Has(Refusals, micro')
  BY <1>2, <1>3, <1>5, SubHas, Within DEF IInv, Buffering
<1>9. Head(micro).does \notin Idles /\ Head(micro).does \notin Teardowns
      /\ Head(micro).does \notin Resumes
  BY <1>3, NamesOf
<1>10. Agreement'
  BY <1>1, <1>3, <1>5, <1>6, <1>7 DEF IInv, Agreement
<1>11. Buffering'
  <2>1. deliver = "delivering" /\ pending = <<>> /\ bound' = bound
    BY <1>1 DEF DeliveryResolved, IInv, Buffering
  <2>2. CASE Arg = TRUE
    <3>1. deliver' = "idle"
      BY <1>1, <2>1, <2>2 DEF DeliveryResolved
    <3> QED
      BY <1>3, <1>5, <1>7, <1>8, <2>1, <3>1 DEF IInv, Buffering
  <2>3. CASE Arg = FALSE
    <3>1. deliver' = "awaiting"
      <4>1. inFlight \in Seq(Reports) /\ inFlight # <<>>
        BY <2>1 DEF IInv, StateOK, DeliveryTypeOK
      <4>2. inFlight \o pending # <<>>
        BY <2>1, <4>1
      <4> QED
        BY <1>1, <2>3, <4>2 DEF DeliveryResolved
    <3>2. (live => active /\ ~Has(Idles, micro)) /\ (active => live)
      <4>1. live => active /\ ~Has(OtherThings, micro)
        BY <1>2, <1>3, <2>3 DEF IInv, Buffering
      <4>2. Idles \subseteq OtherThings
        BY NamesOf DEF OtherThings, Doings
      <4> QED
        BY <4>1, <4>2, SubHas DEF IInv, Agreement
    <3>3. ~Has(UserResumes, micro)
      BY <2>1 DEF IInv, Buffering
    <3> QED
      BY <1>3, <1>5, <1>7, <1>8, <2>1, <3>1, <3>2, <3>3 DEF IInv, Buffering
  <2> QED
    BY <1>2, <2>2, <2>3
<1> QED
  BY <1>5, <1>10, <1>11

(* What taking the results of a step says.                                 *)
LEMMA TakenEvents ==
  ASSUME NEW results \in Seq(Answers), NEW fold \in BOOLEAN, said \in Seq(TurnEntries)
  PROVE  /\ ResultEvents(results, fold) \in Seq(Events)
         /\ \A N \in {Ends, Wanted, CallNews} : ~Told(N, ResultEvents(results, fold))
         /\ Told(Prompts, ResultEvents(results, fold)) <=> fold
         /\ said \o results \in Seq(TurnEntries)
<1>1. said \o results \in Seq(TurnEntries)
  <2>1. Answers \subseteq TurnEntries
    BY DEF TurnEntries
  <2>2. results \in Seq(TurnEntries)
    BY <2>1
  <2> QED
    BY <2>2
<1>2. PICK u \in Events : u = Event("updated", said \o results) /\ u[1] = "updated"
  BY <1>1, EventsAre
<1>3. PICK a \in Seq(Events) : /\ a = [i \in DOMAIN results |-> Event("answer", results[i])]
                               /\ \A i \in DOMAIN a : a[i][1] = "answer"
  <2>1. \A i \in DOMAIN results : results[i] \in Answers
    OBVIOUS
  <2>2. PICK E : E = [x \in Answers |-> Event("answer", x)]
    OBVIOUS
  <2>3. \A x \in Answers : E[x] \in Events /\ E[x][1] = "answer"
    <3>1. \A x \in Answers : E[x] = Event("answer", x)
      BY <2>2
    <3>2. \A x \in Answers : Event("answer", x) \in Events /\ Event("answer", x)[1] = "answer"
      BY EventsAre, Zenon
    <3> QED
      BY <3>1, <3>2
  <2>4. [i \in DOMAIN results |-> Event("answer", results[i])]
          = [i \in DOMAIN results |-> E[results[i]]]
    BY <2>1, <2>2
  <2>5. /\ [i \in DOMAIN results |-> E[results[i]]] \in Seq(Events)
        /\ \A i \in DOMAIN results : [j \in DOMAIN results |-> E[results[j]]][i][1] = "answer"
    BY <2>1, <2>3
  <2> QED
    BY <2>4, <2>5
<1>4. ResultEvents(results, fold) = a \o <<u>> \o StepEvents(fold)
  BY <1>2, <1>3 DEF ResultEvents
<1>5. /\ StepEvents(fold) \in Seq(Events)
      /\ \A N \in {Ends, Wanted, CallNews} : ~Told(N, StepEvents(fold))
      /\ Told(Prompts, StepEvents(fold)) <=> fold
  BY StartEvents
<1>6. \A N \in {Ends, Wanted, CallNews, Prompts} : ~Told(N, a) /\ ~Told(N, <<u>>)
  <2>1. \A N : Told(N, <<u>>) <=> u[1] \in N
    BY ToldFew
  <2>2. \A N \in {Ends, Wanted, CallNews, Prompts} : ~Told(N, a)
    BY <1>3 DEF Told, Ends, Wanted, CallNews, Prompts
  <2>3. \A N \in {Ends, Wanted, CallNews, Prompts} : u[1] \notin N
    BY <1>2 DEF Ends, Wanted, CallNews, Prompts
  <2> QED
    BY <2>1, <2>2, <2>3, Zenon
<1>7. PICK b \in Seq(Events) : b = a \o <<u>> /\ \A N : Told(N, b) <=> Told(N, a) \/ Told(N, <<u>>)
  <2>1. <<u>> \in Seq(Events) /\ a \o <<u>> \in Seq(Events)
    OBVIOUS
  <2>2. \A N : Told(N, a \o <<u>>) <=> Told(N, a) \/ Told(N, <<u>>)
    BY <2>1, ToldJoined
  <2> QED
    BY <2>1, <2>2
<1>8. /\ b \o StepEvents(fold) \in Seq(Events)
      /\ \A N : Told(N, b \o StepEvents(fold)) <=> Told(N, b) \/ Told(N, StepEvents(fold))
  BY <1>5, ToldJoined, ConcatIndices
<1> QED
  BY <1>1, <1>4, <1>5, <1>6, <1>7, <1>8

(* The rest of _submitTools.                                               *)
LEMMA ResultsJoinedKeeps ==
  ASSUME IInv, ResultsJoined
  PROVE  QueuesOK' /\ Agreement' /\ Buffering'
<1> USE DeliverIs
<1>1. At("joined") /\ ~At("deliver") /\ UNCHANGED <<sessionVars, deliveryVars>>
  BY DEF ResultsJoined, At
<1>2. Arg \in Seq(Answers)
  BY <1>1, HeadIs
<1>3. /\ Head(micro).does \in Doings /\ Head(micro).does[1] = "joined"
      /\ \A S : /\ Has(S, micro) <=> Head(micro).does \in S \/ Has(S, Rest)
                /\ Lone(S, micro) => Lone(S, Rest) /\ ~(Head(micro).does \in S /\ Has(S, Rest))
  BY <1>1, HeadDoes DEF IInv
<1>4. Head(micro).does \notin Tokens /\ Head(micro).does \notin Idles
      /\ Head(micro).does \notin Teardowns /\ Head(micro).does \notin Resumes
  BY <1>3, NamesOf
<1>5. CASE UNCHANGED agentVars /\ After(<<>>, <<>>, <<>>)
  <2>1. UNCHANGED <<core, pending>>
    BY <1>1, <1>5 DEF core, sessionVars, turnVars, agentVars, deliveryVars
  <2> QED
    BY <1>1, <1>4, <1>5, <2>1, QuietTask
<1>6. ASSUME live, active, MaySubmit("tools"), NEW fold \in BOOLEAN,
             AgentTakesResults(Arg, fold), After(<<>>, ResultEvents(Arg, fold), <<>>)
      PROVE  QueuesOK' /\ Agreement' /\ Buffering'
  <2>1. /\ ResultEvents(Arg, fold) \in Seq(Events)
        /\ ~Told(Ends, ResultEvents(Arg, fold))
        /\ Told(Prompts, ResultEvents(Arg, fold)) <=> fold
    BY <1>2, TakenEvents DEF IInv, StateOK
  <2>2. /\ <<>> \in Seq(Tasks) /\ ~Has(Delivers, <<>>)
        /\ \A S : ~Has(S, <<>>) /\ Lone(S, <<>>)
    BY HasFew
  <2>3. /\ QueuesOK' /\ inbox' = inbox \o ResultEvents(Arg, fold) /\ inbox \in Seq(Events)
        /\ \A S : DeliverTask.does \notin S =>
             /\ Has(S, micro') <=> Has(S, Rest)
             /\ Lone(S, micro) => Lone(S, micro')
    BY <1>1, <1>6, <2>1, <2>2, TaskDoes
  <2>4. /\ IsRunning /\ IsRunning' /\ turn' = turn
        /\ phase' = IF fold THEN "prompt" ELSE "streaming"
    BY <1>6 DEF MaySubmit, AgentTakesResults, StartStep, IsRunning
  <2>5. UNCHANGED <<live, active, pendingCancel>>
    BY <1>1 DEF sessionVars, turnVars
  <2>6. ~Told(Ends, inbox') /\ ToldLast(Ends, inbox') /\ (fold => Told(Prompts, inbox'))
    <3>1. \A N : Told(N, inbox') <=> Told(N, inbox) \/ Told(N, ResultEvents(Arg, fold))
      BY <2>1, <2>3, ToldJoined
    <3>2. ~Told(Ends, inbox)
      BY <2>4 DEF IInv, Agreement
    <3>3. ~Told(Ends, inbox') => ToldLast(Ends, inbox')
      BY DEF Told, ToldLast
    <3> QED
      BY <2>1, <3>1, <3>2, <3>3
  <2>7. Agreement'
    BY <1>3, <1>6, <2>3, <2>4, <2>5, <2>6 DEF IInv, Agreement
  <2>8. Buffering'
    <3>1. ~Has(Refusals, micro')
      <4>1. Head(micro).does \in OtherThings
        BY <1>3, <1>4, Within DEF OtherThings
      <4> QED
        BY <1>3, <1>6, <2>3, <4>1 DEF IInv, Buffering
    <3> QED
      BY <1>1, <1>3, <1>4, <1>6, <2>3, <2>5, <3>1 DEF IInv, Buffering, deliveryVars
  <2> QED
    BY <2>3, <2>7, <2>8
<1> QED
  BY <1>5, <1>6 DEF ResultsJoined

-----------------------------------------------------------------------------
(* Input that finds the loop at rest: the network, a cancel, a dispose.    *)
LEMMA TeardownLeft ==
  ASSUME NEW k \in 1..2
  PROVE  /\ <<Task("teardown", k)>> \in Seq(Tasks)
         /\ Has(Teardowns, <<Task("teardown", k)>>) /\ \A S : Lone(S, <<Task("teardown", k)>>)
         /\ ~Has(Delivers, <<Task("teardown", k)>>) /\ ~Has(Idles, <<Task("teardown", k)>>)
         /\ ~Has(Resumes, <<Task("teardown", k)>>) /\ ~Has(UserResumes, <<Task("teardown", k)>>)
         /\ ~Has(Tokens, <<Task("teardown", k)>>) /\ ~Has(Refusals, <<Task("teardown", k)>>)
         /\ \A j : Has(TeardownsOf(j), <<Task("teardown", k)>>) => j = k
<1>1. PICK t \in Tasks :
        /\ t = Task("teardown", k) /\ t.does \in Teardowns
        /\ t.does \notin Delivers /\ t.does \notin Idles /\ t.does \notin Resumes
        /\ t.does \notin UserResumes /\ t.does \notin Tokens /\ t.does \notin Refusals
        /\ \A j : t.does \in TeardownsOf(j) <=> j = k
  BY TeardownIs, Zenon
<1>2. <<t>> \in Seq(Tasks)
  OBVIOUS
<1>3. \A S : (Has(S, <<t>>) <=> t.does \in S) /\ Lone(S, <<t>>)
  BY HasFew
<1> QED
  BY <1>1, <1>2, <1>3

(* The stream goes on.                                                     *)
LEMMA StreamGoesOn ==
  ASSUME IInv, AtRest, IsRunning, turn' = turn, phase' \in {"streaming", "tools"},
         NEW events \in Seq(Events), ~Told(Ends, events), After(<<>>, events, <<>>),
         UNCHANGED <<sessionVars, deliveryVars>>
  PROVE  QueuesOK' /\ Agreement' /\ Buffering'
<1> USE DeliverIs
<1>1. /\ QueuesOK' /\ inbox' = events
      /\ \A S : LeftFirst(S, <<>>, events, <<>>)
  BY IdledPlain, PlainMeans, RestDoes
<1>2. \A S : DeliverTask.does \notin S => ~Has(S, micro') /\ Lone(S, micro')
  BY <1>1, HasFew DEF LeftFirst
<1>3. UNCHANGED <<live, active, pendingCancel>>
  BY DEF sessionVars, turnVars
<1>4. IsRunning'
  BY DEF IsRunning
<1>5. ToldLast(Ends, inbox')
  BY <1>1 DEF Told, ToldLast
<1>6. Agreement'
  BY <1>1, <1>2, <1>3, <1>4, <1>5 DEF IInv, Agreement
<1>7. Buffering'
  BY <1>2, <1>3, RestMeans DEF IInv, Buffering, deliveryVars
<1> QED
  BY <1>1, <1>6, <1>7

(* The turn of the runtime is over.                                        *)
LEMMA StreamIsOver ==
  ASSUME IInv, AtRest, IsRunning, turn' = turn, phase' = "over",
         NEW events \in Seq(Events), Told(Ends, events), ToldLast(Ends, events),
         After(<<>>, events, Teardown), UNCHANGED <<sessionVars, deliveryVars>>
  PROVE  QueuesOK' /\ Agreement' /\ Buffering'
<1> USE DeliverIs
<1>0. turn \in 1..2
  BY DEF IInv, StateOK, IsRunning
<1>1. /\ QueuesOK' /\ inbox' = events
      /\ \A S : LeftFirst(S, <<>>, events, Teardown)
  BY <1>0, IdledPlain, PlainMeans, TeardownLeft, RestDoes DEF Teardown
<1>2. \A S : DeliverTask.does \notin S => /\ Has(S, micro') <=> Has(S, Teardown)
                                          /\ Lone(S, Teardown) => Lone(S, micro')
  BY <1>1, HasFew DEF LeftFirst
<1>3. UNCHANGED <<live, active, pendingCancel>>
  BY DEF sessionVars, turnVars
<1>4. ~IsRunning' /\ active
  BY RestMeans DEF IsRunning
<1>5. Agreement'
  BY <1>0, <1>1, <1>2, <1>3, <1>4, TeardownLeft DEF IInv, Agreement, Teardown
<1>6. Buffering'
  BY <1>0, <1>2, <1>3, RestMeans, TeardownLeft DEF IInv, Buffering, deliveryVars, Teardown
<1> QED
  BY <1>1, <1>5, <1>6

(* One event, told.                                                        *)
LEMMA ToldOne ==
  ASSUME NEW e \in Events
  PROVE  /\ <<e>> \in Seq(Events) /\ ToldLast(Ends, <<e>>)
         /\ Told(Ends, <<e>>) <=> e[1] \in Ends
<1>1. <<e>> \in Seq(Events)
  OBVIOUS
<1> QED
  BY <1>1, ToldFew, Zenon

(* The transcript with one more entry.                                     *)
LEMMA StepGrows ==
  ASSUME said \in Seq(TurnEntries), NEW x \in TurnEntries
  PROVE  Append(said, x) \in Seq(TurnEntries)
  OBVIOUS

(* The step so far, as an entry.                                           *)
LEMMA StepEntry ==
  ASSUME said \in Seq(TurnEntries), step \in Seq(Calls)
  PROVE  /\ ModelEntry(Len(said) + 1, step) \in Models
         /\ ModelEntry(Len(said) + 1, step) \in TurnEntries
         /\ SummaryEntry \in TurnEntries
<1>1. Len(said) + 1 \in Nat
  OBVIOUS
<1>2. \A i \in Nat, s \in Seq(Calls) : ModelEntry(i, s) \in Models
  BY DEF ModelEntry, Models
<1>3. ModelEntry(Len(said) + 1, step) \in Models
  BY <1>1, <1>2
<1> QED
  BY <1>3 DEF TurnEntries

(* A call is streamed.                                                     *)
LEMMA StreamCallKeeps ==
  ASSUME IInv, NEW c \in Calls, StreamCall(c), UNCHANGED <<sessionVars, deliveryVars>>
  PROVE  QueuesOK' /\ Agreement' /\ Buffering'
<1>1. PICK e : e = Event("call", [id |-> Len(said) + 1, call |-> c])
  OBVIOUS
<1>2. e \in Events /\ e[1] = "call"
  <2>1. Len(said) + 1 \in Nat
    BY DEF IInv, StateOK
  <2>2. [id |-> Len(said) + 1, call |-> c] \in [id : Nat, call : Calls]
    BY <2>1
  <2> QED
    BY <1>1, <2>2, EventsAre
<1>3. AtRest /\ IsRunning /\ turn' = turn /\ phase' \in {"streaming", "tools"}
      /\ After(<<>>, <<e>>, <<>>)
  BY <1>1 DEF StreamCall
<1>4. e[1] \notin Ends
  BY <1>2 DEF Ends
<1> QED
  BY <1>2, <1>3, <1>4, ToldOne, StreamGoesOn

(* A step ends: it waits for results, or is the answer.                    *)
LEMMA StreamEndKeeps ==
  ASSUME IInv, StreamEnd, UNCHANGED <<sessionVars, deliveryVars>>
  PROVE  QueuesOK' /\ Agreement' /\ Buffering'
<1>0. said \in Seq(TurnEntries) /\ step \in Seq(Calls)
  BY DEF IInv, StateOK
<1>1. PICK entry \in Models : entry = ModelEntry(Len(said) + 1, step) /\ entry \in TurnEntries
  BY <1>0, StepEntry
<1>2. AtRest /\ IsRunning /\ turn' = turn /\ said' = Append(said, entry)
  BY <1>1 DEF StreamEnd
<1>3. CASE step # <<>>
  <2>1. PICK e : e = Event("needs results", entry)
    OBVIOUS
  <2>2. e \in Events /\ e[1] = "needs results"
    BY <2>1, EventsAre
  <2>3. phase' \in {"streaming", "tools"} /\ After(<<>>, <<e>>, <<>>)
    BY <1>1, <1>3, <2>1 DEF StreamEnd
  <2>4. e[1] \notin Ends
    BY <2>2 DEF Ends
  <2> QED
    BY <1>2, <2>2, <2>3, <2>4, ToldOne, StreamGoesOn
<1>4. CASE step = <<>>
  <2>1. PICK e : e = Event("completed", said')
    OBVIOUS
  <2>2. e \in Events /\ e[1] = "completed"
    <3>1. said' \in Seq(TurnEntries)
      BY <1>0, <1>1, <1>2, StepGrows
    <3> QED
      BY <2>1, <3>1, EventsAre
  <2>3. phase' = "over" /\ After(<<>>, <<e>>, Teardown)
    BY <1>4, <2>1 DEF StreamEnd
  <2>4. e[1] \in Ends
    BY <2>2 DEF Ends
  <2> QED
    BY <1>2, <2>2, <2>3, <2>4, ToldOne, StreamIsOver
<1> QED
  BY <1>3, <1>4

(* A stream fails.                                                         *)
LEMMA StreamFailKeeps ==
  ASSUME IInv, StreamFail, UNCHANGED <<sessionVars, deliveryVars>>
  PROVE  QueuesOK' /\ Agreement' /\ Buffering'
<1>1. PICK e : e = Event("failed", <<>>)
  OBVIOUS
<1>2. e \in Events /\ e[1] = "failed"
  BY <1>1, EventsAre
<1>3. AtRest /\ IsRunning /\ turn' = turn /\ phase' = "over" /\ After(<<>>, <<e>>, Teardown)
  BY <1>1 DEF StreamFail
<1>4. e[1] \in Ends
  BY <1>2 DEF Ends
<1> QED
  BY <1>2, <1>3, <1>4, ToldOne, StreamIsOver

(* A fold is over, and the turn with it or not.                            *)
LEMMA SummaryEndKeeps ==
  ASSUME IInv, SummaryEnd, UNCHANGED <<sessionVars, deliveryVars>>
  PROVE  QueuesOK' /\ Agreement' /\ Buffering'
<1>0. said \in Seq(TurnEntries) /\ step \in Seq(Calls)
  BY DEF IInv, StateOK
<1>1. PICK folded \in Seq(TurnEntries) : folded = Append(said, SummaryEntry)
  BY <1>0, StepEntry, StepGrows
<1>2. PICK e \in Events, u \in Events, d \in Events :
        /\ e = Event("folded", <<>>) /\ e[1] = "folded"
        /\ u = Event("updated", folded) /\ u[1] = "updated"
        /\ d = Event("completed", folded) /\ d[1] = "completed"
  <2>1. Event("folded", <<>>) \in Events /\ Event("folded", <<>>)[1] = "folded"
    BY EventsAre
  <2>2. Event("updated", folded) \in Events /\ Event("updated", folded)[1] = "updated"
    BY EventsAre
  <2>3. Event("completed", folded) \in Events /\ Event("completed", folded)[1] = "completed"
    BY EventsAre
  <2> QED
    BY <2>1, <2>2, <2>3
<1>3. PICK events : events = <<e, u>>
  OBVIOUS
<1>4. /\ AtRest /\ IsRunning /\ turn' = turn
      /\ \/ phase' = "streaming" /\ After(<<>>, events, <<>>)
         \/ phase' = "over" /\ After(<<>>, Append(events, d), Teardown)
  BY <1>1, <1>2, <1>3 DEF SummaryEnd, StartStep
<1>5. events \in Seq(Events) /\ <<d>> \in Seq(Events) /\ Append(events, d) = events \o <<d>>
  BY <1>3
<1>6. ~Told(Ends, events)
  BY <1>2, <1>3 DEF Told, Ends
<1>7. Told(Ends, <<d>>) /\ ToldLast(Ends, <<d>>)
  BY <1>2, ToldOne DEF Ends
<1>8. /\ Append(events, d) \in Seq(Events)
      /\ Told(Ends, Append(events, d)) /\ ToldLast(Ends, Append(events, d))
  <2>1. events \o <<d>> \in Seq(Events)
    BY <1>5
  <2>2. /\ Told(Ends, events \o <<d>>) <=> Told(Ends, events) \/ Told(Ends, <<d>>)
        /\ ~Told(Ends, events) /\ ToldLast(Ends, <<d>>) => ToldLast(Ends, events \o <<d>>)
    BY <1>5, ToldJoined
  <2> QED
    BY <1>5, <1>6, <1>7, <2>1, <2>2
<1> QED
  BY <1>4, <1>5, <1>6, <1>8, StreamGoesOn, StreamIsOver

(* cancel(): the runtime's turn ends with an event of its own.             *)
LEMMA CancelKeeps ==
  ASSUME IInv, Cancel
  PROVE  QueuesOK' /\ Agreement' /\ Buffering'
<1> USE DeliverIs, PlainMeans
<1>1. /\ AtRest /\ live /\ active /\ IsRunning /\ turn \in 1..2
      /\ UNCHANGED <<live, deliveryVars>>
  BY RestMeans DEF Cancel, IInv, StateOK, IsRunning
<1>2. PICK q : q = (IF join # <<>> THEN <<Joined(<<>>)>> ELSE <<>>) \o <<Idled>>
               /\ Plain(q) /\ Has(Idles, q)
  BY EndTasksPlain
<1>3. PICK e \in Events : e = Event("cancelled", said \o Partial) /\ e[1] = "cancelled"
  <2>1. said \o Partial \in Seq(TurnEntries)
    <3>1. said \in Seq(TurnEntries) /\ step \in Seq(Calls)
      BY DEF IInv, StateOK
    <3>2. Partial \in Seq(TurnEntries)
      BY <3>1, StepEntry DEF Partial
    <3> QED
      BY <3>1, <3>2
  <2> QED
    BY <2>1, EventsAre
<1>4. /\ turn' = turn /\ phase' = "over" /\ active' = FALSE /\ pendingCancel' = TRUE
      /\ After(<<>>, <<e>>, Teardown \o q)
  <2>1. /\ turn' = turn /\ phase' = "over" /\ active' = FALSE /\ pendingCancel' = TRUE
        /\ After(<<>>, <<e>>, Teardown \o (IF join # <<>> THEN <<Joined(<<>>)>> ELSE <<>>)
                                       \o <<Idled>>)
    BY <1>1, <1>3 DEF Cancel, AgentCancel, FinishTurn, CancelEvents, CancelTasks
  <2>2. \A j \in Seq(Tasks) : (Teardown \o j) \o <<Idled>> = Teardown \o (j \o <<Idled>>)
    <3>1. Teardown \in Seq(Tasks) /\ <<Idled>> \in Seq(Tasks)
      BY <1>1, TeardownLeft, IdledPlain DEF Teardown
    <3> QED
      BY <3>1
  <2>3. (IF join # <<>> THEN <<Joined(<<>>)>> ELSE <<>>) \in Seq(Tasks)
    <3>1. <<>> \in Seq(Answers)
      OBVIOUS
    <3> QED
      BY <3>1, JoinedPlain, IdledPlain
  <2> QED
    BY <1>2, <2>1, <2>2, <2>3
<1>5. PICK after \in Seq(Tasks) :
        /\ after = Teardown \o q
        /\ \A S : /\ Has(S, after) <=> Has(S, Teardown) \/ Has(S, q)
                  /\ Lone(S, after) <=> /\ Lone(S, Teardown) /\ Lone(S, q)
                                        /\ ~(Has(S, Teardown) /\ Has(S, q))
  <2>1. Teardown \in Seq(Tasks) /\ q \in Seq(Tasks)
    BY <1>1, <1>2, TeardownLeft DEF Teardown
  <2>2. Teardown \o q \in Seq(Tasks)
    BY <2>1
  <2>3. ASSUME NEW S
        PROVE  /\ Has(S, Teardown \o q) <=> Has(S, Teardown) \/ Has(S, q)
               /\ Lone(S, Teardown \o q) <=> /\ Lone(S, Teardown) /\ Lone(S, q)
                                             /\ ~(Has(S, Teardown) /\ Has(S, q))
    BY <2>1, HasJoined
  <2> QED
    BY <2>2, <2>3
<1>6. /\ ~Has(Delivers, after) /\ Has(Idles, after) /\ ~Has(Resumes, after)
      /\ ~Has(UserResumes, after) /\ ~Has(Tokens, after) /\ ~Has(Refusals, after)
      /\ Lone(Teardowns, after) /\ Lone(Resumes, after) /\ Lone(Tokens, after)
      /\ \A k \in 1..2 : Has(TeardownsOf(k), after) => k = turn
  <2>1. /\ Has(Teardowns, Teardown) /\ Lone(Teardowns, Teardown)
        /\ ~Has(Delivers, Teardown) /\ ~Has(Resumes, Teardown) /\ ~Has(UserResumes, Teardown)
        /\ ~Has(Tokens, Teardown) /\ ~Has(Refusals, Teardown)
        /\ \A k : Has(TeardownsOf(k), Teardown) => k = turn
    BY <1>1, TeardownLeft DEF Teardown
  <2>2. \A S : ~Has(S, after) => Lone(S, after)
    BY SubHas
  <2> QED
    BY <1>2, <1>5, <2>1, <2>2
<1>7. <<e>> \in Seq(Events) /\ <<e>> # <<>> /\ <<>> \in Seq(Tasks) /\ ~Has(Delivers, <<>>)
      /\ Told(Ends, <<e>>) /\ ToldLast(Ends, <<e>>)
  BY <1>3, ToldOne, HasFew DEF Ends
<1>8. /\ QueuesOK' /\ inbox' = <<e>>
      /\ \A S : LeftFirst(S, <<>>, <<e>>, after)
  BY <1>1, <1>4, <1>5, <1>6, <1>7, RestDoes
<1>9. At("deliver")' /\ Tail(inbox') = <<>>
  <2>1. Tail(<<e>>) = <<>>
    OBVIOUS
  <2> QED
    BY <1>1, <1>4, <1>5, <1>6, <1>7, <1>8, <2>1, DeliveredFirst
<1>10. \A S : DeliverTask.does \notin S => /\ Has(S, micro') <=> Has(S, after)
                                           /\ Lone(S, after) => Lone(S, micro')
  BY <1>8, HasFew DEF LeftFirst
<1>11. ~IsRunning'
  BY <1>4 DEF IsRunning
<1>12. Agreement'
  BY <1>4, <1>6, <1>7, <1>8, <1>9, <1>10, <1>11 DEF Agreement
<1>13. Buffering'
  BY <1>1, <1>4, <1>6, <1>10, RestMeans DEF IInv, Buffering, deliveryVars
<1> QED
  BY <1>8, <1>12, <1>13

(* bindProvider(null): both queues start over.                             *)
LEMMA DetachKeeps ==
  ASSUME IInv, Detach
  PROVE  QueuesOK' /\ Agreement' /\ Buffering'
<1> USE DeliverIs
<1>1. /\ AtRest /\ live' = FALSE /\ active' = FALSE /\ pendingCancel' = FALSE
      /\ turn' = 0 /\ phase' = "over" /\ inbox' = <<>> /\ AgentBound
      /\ micro' = IF TurnDispatched THEN <<Resolved(FALSE)>> ELSE <<>>
  BY DEF Detach, FreshSession
<1>2. /\ bound' = TRUE /\ deliver # "delivering"
      /\ TurnDispatched <=> deliver' = "delivering"
      /\ deliver' = "delivering" => pending' = <<>>
  BY <1>1, RestMeans DEF AgentBound, Dispatch, TurnDispatched
<1>3. \A N : ~Told(N, inbox') /\ ToldLast(N, inbox')
  BY <1>1, ToldFew
<1>4. ~IsRunning' /\ inbox' \in Seq(Events)
  <2>1. <<>> \in Seq(Events)
    OBVIOUS
  <2> QED
    BY <1>1, <2>1 DEF IsRunning
<1>5. CASE TurnDispatched
  <2>1. PICK t \in Tasks :
          /\ t = Resolved(FALSE) /\ t.does \in Tokens /\ t.does \notin Delivers
          /\ t.does \notin Idles /\ t.does \notin Teardowns
          /\ t.does \notin Resumes /\ t.does \notin UserResumes
          /\ \A j : t.does \notin TeardownsOf(j)
    <3>1. FALSE \in BOOLEAN
      OBVIOUS
    <3> QED
      BY <3>1, ResolvedIs, Zenon
  <2>2. micro' = <<t>> /\ <<t>> \in Seq(Tasks)
    <3>1. <<t>> \in Seq(Tasks)
      OBVIOUS
    <3> QED
      BY <1>1, <1>5, <2>1, <3>1
  <2>3. \A S : (Has(S, micro') <=> t.does \in S) /\ Lone(S, micro')
    BY <2>2, HasFew
  <2>4. QueuesOK'
    BY <1>1, <1>4, <2>1, <2>2, <2>3 DEF QueuesOK
  <2>5. Agreement'
    BY <1>1, <1>3, <1>4, <2>1, <2>3 DEF Agreement
  <2>6. Buffering'
    BY <1>1, <1>2, <1>5, <2>1, <2>3 DEF Buffering
  <2> QED
    BY <2>4, <2>5, <2>6
<1>6. CASE ~TurnDispatched
  <2>1. micro' = <<>> /\ \A S : ~Has(S, micro') /\ Lone(S, micro')
    BY <1>1, <1>6, HasFew
  <2>2. QueuesOK'
    <3>1. <<>> \in Seq(Tasks)
      OBVIOUS
    <3> QED
      BY <1>1, <1>4, <2>1, <3>1 DEF QueuesOK
  <2>3. Agreement'
    BY <1>1, <1>3, <1>4, <2>1 DEF Agreement
  <2>4. Buffering'
    BY <1>1, <1>2, <1>6, <2>1 DEF Buffering
  <2> QED
    BY <2>2, <2>3, <2>4
<1> QED
  BY <1>5, <1>6

(* The work ends, or is handed off.                                        *)
LEMMA SettleKeeps ==
  ASSUME IInv, AtRest, NEW c \in Calls, NEW how \in Requests, Settle(c, how), UNCHANGED core
  PROVE  QueuesOK' /\ Agreement' /\ Buffering'
<1>1. request' \in [Calls -> Requests] /\ join \in Seq(Calls)
  BY DEF IInv, StateOK, Settle
<1>2. After(<<>>, <<>>, JoinTasks(request'))
  BY DEF Settle
<1>3. Plain(JoinTasks(request')) /\ ~Has(Idles, JoinTasks(request'))
  BY <1>1, JoinTasksPlain
<1> QED
  BY <1>2, <1>3, QuietInput

(* The work of a call ends, or goes to the background.                     *)
LEMMA WorkKeeps ==
  ASSUME IInv, NEW c \in Calls, WorkEnds(c) \/ WorkHandedOff(c)
  PROVE  QueuesOK' /\ Agreement' /\ Buffering'
<1>1. PICK how \in Requests : AtRest /\ Settle(c, how)
  BY DEF WorkEnds, WorkHandedOff, Requests
<1>2. UNCHANGED core
  BY DEF WorkEnds, WorkHandedOff, core, turnVars, agentVars, deliveryVars
<1> QED
  BY <1>1, <1>2, SettleKeeps

(* The history is swapped.                                                 *)
LEMMA AbandonedIs ==
  ASSUME IInv, NEW asked
  PROVE  Abandoned(asked) \in [Calls -> Requests]
  BY DEF IInv, StateOK, Abandoned, Requests

(* loadJournal: the join may resolve, an idle state may follow.            *)
LEMMA LoadKeeps ==
  ASSUME IInv, AtRest, NEW entries, NEW id, LoadJournal(entries, id)
  PROVE  QueuesOK' /\ Agreement' /\ Buffering'
<1>1. request' \in [Calls -> Requests] /\ join \in Seq(Calls)
  <2>1. request' = Abandoned(open)
    BY DEF LoadJournal
  <2> QED
    BY <2>1, AbandonedIs DEF IInv, StateOK
<1>2. PICK q : q = JoinTasks(request') /\ Plain(q) /\ ~Has(Idles, q)
  BY <1>1, JoinTasksPlain
<1>3. PICK r : /\ r = (IF active THEN <<>> ELSE <<Idled>>)
               /\ Plain(r) /\ (active => ~Has(Idles, r))
  BY IdledPlain
<1>4. After(<<>>, <<>>, q \o r)
  BY <1>2, <1>3 DEF LoadJournal
<1>5. Plain(q \o r) /\ (active => ~Has(Idles, q \o r))
  BY <1>2, <1>3, PlainPair
<1>6. UNCHANGED core
  BY DEF LoadJournal, core, turnVars, agentVars, deliveryVars
<1> QED
  BY <1>4, <1>5, <1>6, QuietInput

(* An input that changes nothing the invariants speak of.                  *)
LEMMA NothingKeeps ==
  ASSUME IInv, AtRest, After(<<>>, <<>>, <<>>), UNCHANGED core
  PROVE  QueuesOK' /\ Agreement' /\ Buffering'
  BY IdledPlain, QuietInput

(* clear, load and rewind.                                                 *)
LEMMA SwapKeeps ==
  ASSUME IInv, Clear \/ BeginSwap \/ Loaded \/ Rewound
  PROVE  QueuesOK' /\ Agreement' /\ Buffering'
<1>1. CASE Clear
  <2>1. AtRest /\ LoadJournal(<<>>, swaps')
    BY <1>1 DEF Clear
  <2> QED
    BY <2>1, LoadKeeps
<1>2. CASE BeginSwap
  <2>1. AtRest /\ After(<<>>, <<>>, <<>>) /\ UNCHANGED core
    BY <1>2 DEF BeginSwap, core, turnVars, agentVars, deliveryVars
  <2> QED
    BY <2>1, NothingKeeps
<1>3. CASE Loaded
  <2>1. AtRest
    BY <1>3 DEF Loaded
  <2>2. CASE LoadJournal(<<UserEntry>>, swaps)
    BY <2>1, <2>2, LoadKeeps
  <2>3. CASE /\ After(<<>>, <<>>, <<>>)
             /\ UNCHANGED <<live, turnVars, historyVars, toolVars, agentVars, deliveryVars>>
    <3>1. UNCHANGED core
      BY <2>3 DEF core, turnVars, agentVars, deliveryVars
    <3> QED
      BY <2>1, <2>3, <3>1, NothingKeeps
  <2> QED
    BY <1>3, <2>2, <2>3 DEF Loaded
<1>4. CASE Rewound
  <2>1. AtRest
    BY <1>4 DEF Rewound
  <2>2. ASSUME NEW entries, NEW id, LoadJournal(entries, id)
        PROVE  QueuesOK' /\ Agreement' /\ Buffering'
    BY <2>1, <2>2, LoadKeeps
  <2>3. CASE /\ After(<<>>, <<>>, <<>>)
             /\ UNCHANGED <<live, turnVars, historyVars, toolVars, agentVars, deliveryVars>>
    <3>1. UNCHANGED core
      BY <2>3 DEF core, turnVars, agentVars, deliveryVars
    <3> QED
      BY <2>1, <2>3, <3>1, NothingKeeps
  <2> QED
    BY <1>4, <2>2, <2>3 DEF Rewound
<1> QED
  BY <1>1, <1>2, <1>3, <1>4

(* Nothing happens.                                                        *)
LEMMA StutterKeeps ==
  ASSUME IInv, UNCHANGED vars
  PROVE  QueuesOK' /\ Agreement' /\ Buffering'
<1>1. UNCHANGED <<micro, inbox, turn, phase, live, active, pendingCancel, deliver, pending, bound>>
  BY DEF vars, sessionVars, turnVars, agentVars, loopVars, deliveryVars
<1>2. /\ UNCHANGED inbox /\ (IsRunning' <=> IsRunning) /\ (At("deliver")' <=> At("deliver"))
  BY <1>1 DEF IsRunning, At
<1>3. QueuesOK'
  BY <1>1 DEF IInv, QueuesOK
<1>4. Agreement'
  BY <1>1, <1>2 DEF IInv, Agreement
<1>5. Buffering'
  BY <1>1 DEF IInv, Buffering
<1> QED
  BY <1>3, <1>4, <1>5

(* Every step keeps the queues, the agreement and the buffering.           *)
LEMMA NetworkKeeps ==
  ASSUME IInv, Network
  PROVE  QueuesOK' /\ Agreement' /\ Buffering'
  BY StreamCallKeeps, StreamEndKeeps, StreamFailKeeps, SummaryEndKeeps DEF Network

(* What the loop runs keeps the three.                                     *)
LEMMA MicrotaskKeeps ==
  ASSUME IInv, Microtask
  PROVE  QueuesOK' /\ Agreement' /\ Buffering'
  BY HopKeeps, TearKeeps, ResumedKeeps, RunAnsweredKeeps, IdleSeenKeeps, DeliveryAnsweredKeeps,
     ResultsJoinedKeeps, QuietEventsKeep, NeedsResultsKeeps, NeedsPromptKeeps, EndKeeps
     DEF Microtask

(* Every step keeps the three.                                             *)
LEMMA NextKeeps ==
  ASSUME IInv, [Next]_vars
  PROVE  QueuesOK' /\ Agreement' /\ Buffering'
<1>1. CASE User
  BY <1>1, SubmitKeeps, CompactKeeps, CancelKeeps, SwapKeeps DEF User
<1>2. CASE \E c \in Calls : Work(c)
  BY <1>2, WorkKeeps, BackgroundEndsKeeps DEF Work
<1> QED
  BY <1>1, <1>2, MicrotaskKeeps, NetworkKeeps, AttachKeeps, DetachKeeps, StutterKeeps DEF Next

(* The state, one part for each component.                                 *)
AgentOK ==
  /\ turn \in 0..2 /\ phase \in Phases /\ goal \in Goals
  /\ said \in Seq(TurnEntries) /\ step \in Seq(Calls)

TurnOK == active \in BOOLEAN /\ pendingCancel \in BOOLEAN /\ turnJobs \in Seq(Calls)

HolderOK ==
  /\ request \in [Calls -> Requests] /\ join \in Seq(Calls)
  /\ open \subseteq Calls /\ answers \subseteq Calls

SwapOK ==
  /\ conv \in 0..MaxSwaps /\ swaps \in 0..MaxSwaps
  /\ swap \in {"none", "loading", "picking"}

FrameOK == live \in BOOLEAN /\ work \in [Calls -> Works]

(* The types, part by part.                                                *)
LEMMA StateIs ==
  StateOK <=> AgentOK /\ DeliveryTypeOK /\ TurnOK /\ HolderOK /\ SwapOK /\ FrameOK
  BY DEF StateOK, AgentOK, TurnOK, HolderOK, SwapOK, FrameOK

(* The types of the next state, part by part.                              *)
LEMMA NextStateIs ==
  StateOK' <=> AgentOK' /\ DeliveryTypeOK' /\ TurnOK' /\ HolderOK' /\ SwapOK' /\ FrameOK'
  BY DEF StateOK, AgentOK, TurnOK, HolderOK, SwapOK, FrameOK

(* What a handler leaves alone.                                            *)
LEMMA PartsLeftAlone ==
  ASSUME IInv
  PROVE  /\ UNCHANGED agentVars => AgentOK'
         /\ UNCHANGED deliveryVars => DeliveryTypeOK'
         /\ UNCHANGED <<active, pendingCancel, turnJobs>> => TurnOK'
         /\ UNCHANGED turnVars => TurnOK'
         /\ UNCHANGED holderVars => HolderOK'
         /\ UNCHANGED <<conv, swap, swaps>> => SwapOK'
         /\ UNCHANGED <<live, work>> => FrameOK'
<1>1. AgentOK /\ DeliveryTypeOK /\ TurnOK /\ HolderOK /\ SwapOK /\ FrameOK
  BY StateIs DEF IInv
<1>2. UNCHANGED agentVars => AgentOK'
  BY <1>1 DEF agentVars, AgentOK
<1>3. UNCHANGED deliveryVars => DeliveryTypeOK'
  BY <1>1 DEF deliveryVars, DeliveryTypeOK
<1>4. /\ UNCHANGED <<active, pendingCancel, turnJobs>> => TurnOK'
      /\ UNCHANGED turnVars => TurnOK'
  BY <1>1 DEF turnVars, TurnOK
<1>5. UNCHANGED holderVars => HolderOK'
  BY <1>1 DEF holderVars, HolderOK
<1>6. UNCHANGED <<conv, swap, swaps>> => SwapOK'
  BY <1>1 DEF SwapOK
<1>7. UNCHANGED <<live, work>> => FrameOK'
  BY <1>1 DEF FrameOK
<1> QED
  BY <1>2, <1>3, <1>4, <1>5, <1>6, <1>7

-----------------------------------------------------------------------------
(* The runtime.                                                            *)
LEMMA StepStarted ==
  ASSUME NEW entries, NEW fold \in BOOLEAN, StartStep(entries, fold)
  PROVE  phase' \in Phases /\ step' \in Seq(Calls)
<1>1. <<>> \in Seq(Calls)
  OBVIOUS
<1> QED
  BY <1>1 DEF StartStep, Phases

(* run().                                                                  *)
LEMMA RunTyped ==
  ASSUME IInv, NEW g \in Goals, NEW fold \in BOOLEAN, AgentRun(g, fold)
  PROVE  AgentOK'
<1>1. <<>> \in Seq(TurnEntries)
  OBVIOUS
<1> QED
  BY <1>1, StepStarted DEF AgentRun, AgentOK

(* cancel().                                                               *)
LEMMA CancelTyped ==
  ASSUME IInv, AgentCancel
  PROVE  AgentOK'
<1>1. AgentOK
  BY StateIs DEF IInv
<1>2. CASE IsRunning
  <2>1. said \o Partial \in Seq(TurnEntries)
    <3>1. Partial \in Seq(TurnEntries)
      BY <1>1, StepEntry DEF Partial, AgentOK
    <3> QED
      BY <1>1, <3>1 DEF AgentOK
  <2>2. <<>> \in Seq(Calls)
    OBVIOUS
  <2> QED
    BY <1>1, <1>2, <2>1, <2>2 DEF AgentCancel, AgentOK, Phases
<1>3. CASE ~IsRunning
  BY <1>3, PartsLeftAlone DEF AgentCancel
<1> QED
  BY <1>2, <1>3

(* submitToolResults().                                                    *)
LEMMA ResultsTyped ==
  ASSUME IInv, NEW results \in Seq(Answers), NEW fold \in BOOLEAN,
         AgentTakesResults(results, fold)
  PROVE  AgentOK'
<1>1. AgentOK /\ said \in Seq(TurnEntries)
  BY StateIs DEF IInv, AgentOK
<1>2. said \o results \in Seq(TurnEntries)
  BY <1>1, TakenEvents
<1>3. StartStep(said \o results, fold)
  BY DEF AgentTakesResults
<1> QED
  BY <1>1, <1>2, <1>3, StepStarted DEF AgentTakesResults, AgentOK

(* The network.                                                            *)
LEMMA StreamTyped ==
  ASSUME IInv, \/ \E c \in Calls : StreamCall(c)
               \/ StreamEnd \/ StreamFail \/ SummaryEnd
  PROVE  AgentOK'
<1>1. AgentOK /\ said \in Seq(TurnEntries) /\ step \in Seq(Calls)
  BY StateIs DEF IInv, AgentOK
<1>2. <<>> \in Seq(Calls)
  OBVIOUS
<1>3. ASSUME NEW c \in Calls, StreamCall(c) PROVE AgentOK'
  BY <1>1, <1>3 DEF StreamCall, AgentOK
<1>4. CASE StreamEnd
  <2>1. said' \in Seq(TurnEntries)
    BY <1>1, <1>4, StepEntry, StepGrows DEF StreamEnd
  <2> QED
    BY <1>1, <1>2, <1>4, <2>1 DEF StreamEnd, AgentOK, Phases
<1>5. CASE StreamFail
  BY <1>1, <1>5 DEF StreamFail, AgentOK, Phases
<1>6. CASE SummaryEnd
  <2>1. said' \in Seq(TurnEntries)
    BY <1>1, <1>6, StepEntry, StepGrows DEF SummaryEnd
  <2> QED
    BY <1>1, <1>2, <1>6, <2>1 DEF SummaryEnd, StartStep, AgentOK, Phases
<1> QED
  BY <1>3, <1>4, <1>5, <1>6

-----------------------------------------------------------------------------
(* The buffer.                                                             *)
LEMMA BufferTyped ==
  ASSUME DeliveryTypeOK
  PROVE  /\ \A r \in Calls : ReportSettled(r) => DeliveryTypeOK'
         /\ AgentBound => DeliveryTypeOK'
         /\ AgentIdled => DeliveryTypeOK'
         /\ \A ok \in BOOLEAN : DeliveryResolved(ok) => DeliveryTypeOK'
<1> USE DEF DeliveryTypeOK, DeliveryStates, Dispatch
<1>1. ASSUME NEW r \in Calls, ReportSettled(r) PROVE DeliveryTypeOK'
  <2>1. Append(pending, r) \in Seq(Reports) /\ Append(pending, r) # <<>>
    BY SessionAssumption
  <2>2. CASE deliver = "idle" /\ bound
    BY <1>1, <2>1, <2>2 DEF ReportSettled
  <2>3. CASE deliver = "idle" /\ ~bound
    BY <1>1, <2>1, <2>3 DEF ReportSettled
  <2>4. CASE deliver # "idle"
    BY <1>1, <2>1, <2>4 DEF ReportSettled
  <2> QED
    BY <2>2, <2>3, <2>4
<1>2. CASE AgentBound
  BY <1>2 DEF AgentBound
<1>3. CASE AgentIdled
  BY <1>3 DEF AgentIdled
<1>4. ASSUME NEW ok \in BOOLEAN, DeliveryResolved(ok) PROVE DeliveryTypeOK'
  <2>1. inFlight \o pending \in Seq(Reports) /\ <<>> \in Seq(Reports)
    OBVIOUS
  <2>2. pending' \in Seq(Reports) /\ deliver' = (IF pending' = <<>> THEN "idle" ELSE "awaiting")
        /\ inFlight' = <<>> /\ bound' = bound
    BY <1>4, <2>1 DEF DeliveryResolved
  <2> QED
    BY <2>1, <2>2
<1> QED
  BY <1>1, <1>2, <1>3, <1>4

-----------------------------------------------------------------------------
(* The start of a turn.                                                    *)
LEMMA StartTyped ==
  ASSUME IInv, NEW g \in Goals, NEW from, NEW before, StartRun(g, from, before)
  PROVE  AgentOK' /\ TurnOK' /\ HolderOK' /\ swap' \in {"none", "loading", "picking"}
<1>1. AgentOK /\ TurnOK /\ HolderOK /\ swap \in {"none", "loading", "picking"}
  BY StateIs DEF IInv, SwapOK
<1>2. AgentOK'
  BY RunTyped, PartsLeftAlone DEF StartRun
<1>3. TurnOK'
  BY <1>1 DEF StartRun, TurnOK
<1>4. HolderOK'
  BY <1>1 DEF StartRun, HolderOK
<1>5. swap' \in {"none", "loading", "picking"}
  BY <1>1 DEF StartRun
<1> QED
  BY <1>2, <1>3, <1>4, <1>5

(* _runTurn.                                                               *)
LEMMA RunTurnTyped ==
  ASSUME IInv, NEW g \in Goals, NEW from, NEW before, RunTurn(g, from, before)
  PROVE  AgentOK' /\ TurnOK' /\ HolderOK' /\ swap' \in {"none", "loading", "picking"}
<1>1. CASE pendingCancel
  <2>1. /\ pendingCancel' = FALSE
        /\ UNCHANGED <<active, mirror, folds, turnJobs, swap, holderVars, agentVars>>
    BY <1>1 DEF RunTurn
  <2>2. TurnOK' /\ swap' \in {"none", "loading", "picking"}
    BY <2>1, StateIs DEF IInv, TurnOK, SwapOK
  <2> QED
    BY <2>1, <2>2, PartsLeftAlone
<1>2. CASE ~pendingCancel
  BY <1>2, StartTyped DEF RunTurn
<1> QED
  BY <1>1, <1>2

(* An input of the buffer, with the turn it may start.                     *)
LEMMA DeliverTyped ==
  ASSUME IInv, NEW canRun, Deliver(canRun)
  PROVE  /\ AgentOK' /\ TurnOK' /\ HolderOK' /\ swap' \in {"none", "loading", "picking"}
         /\ conv' = conv
<1>1. swap \in {"none", "loading", "picking"}
  BY StateIs DEF IInv, SwapOK
<1>2. CASE UNCHANGED <<turnVars, historyVars, holderVars, swap, agentVars>>
  BY <1>1, <1>2, PartsLeftAlone DEF historyVars
<1>3. CASE UNCHANGED conv /\ RunTurn("respond", "delivery", <<Idled>>)
  BY <1>3, RunTurnTyped DEF Goals
<1> QED
  BY <1>2, <1>3 DEF Deliver, BeginDeliveryTurn

-----------------------------------------------------------------------------
(* The holder of the calls.                                                *)
LEMMA SettleTyped ==
  ASSUME IInv, NEW c \in Calls, NEW how \in Requests, Settle(c, how), UNCHANGED answers
  PROVE  HolderOK'
<1>1. HolderOK
  BY StateIs DEF IInv
<1>2. <<>> \in Seq(Calls)
  OBVIOUS
<1>3. request' \in [Calls -> Requests] /\ open' \subseteq Calls
  BY <1>1 DEF Settle, HolderOK
<1>4. join' = <<>> \/ join' = join
  BY DEF Settle, JoinLeft
<1> QED
  BY <1>1, <1>2, <1>3, <1>4 DEF HolderOK

(* loadJournal.                                                            *)
LEMMA LoadTyped ==
  ASSUME IInv, NEW entries, NEW id \in 0..MaxSwaps, LoadJournal(entries, id)
  PROVE  /\ AgentOK' /\ DeliveryTypeOK' /\ TurnOK' /\ HolderOK' /\ FrameOK'
         /\ conv' \in 0..MaxSwaps
<1>1. HolderOK
  BY StateIs DEF IInv
<1>2. <<>> \in Seq(Calls)
  OBVIOUS
<1>3. request' \in [Calls -> Requests]
  BY AbandonedIs DEF LoadJournal
<1>4. join' = <<>> \/ join' = join
  BY DEF LoadJournal, JoinLeft
<1>5. HolderOK'
  BY <1>1, <1>2, <1>3, <1>4 DEF HolderOK, LoadJournal
<1>6. UNCHANGED <<agentVars, deliveryVars, turnVars, live, work>> /\ conv' = id
  BY DEF LoadJournal
<1> QED
  BY <1>5, <1>6, PartsLeftAlone

(* _finishTurn.                                                            *)
LEMMA FinishTyped ==
  ASSUME IInv, NEW entries, NEW cancelled \in BOOLEAN, NEW events, NEW after,
         FinishTurn(entries, cancelled, events, after), pendingCancel' \in BOOLEAN,
         UNCHANGED <<live, swap, swaps>>
  PROVE  TurnOK' /\ HolderOK' /\ SwapOK' /\ FrameOK'
<1>1. HolderOK /\ TurnOK /\ SwapOK
  BY StateIs DEF IInv
<1>2. <<>> \in Seq(Calls)
  OBVIOUS
<1>3. active' = FALSE /\ turnJobs' = <<>> /\ UNCHANGED <<conv, answers, work>> /\ join' = <<>>
  BY DEF FinishTurn, Commit
<1>4. request' \in [Calls -> Requests] /\ open' \subseteq Calls
  BY <1>1, AbandonedIs DEF FinishTurn, HolderOK
<1>5. TurnOK'
  BY <1>2, <1>3 DEF TurnOK
<1>6. HolderOK'
  BY <1>1, <1>2, <1>3, <1>4 DEF HolderOK
<1> QED
  BY <1>3, <1>5, <1>6, PartsLeftAlone

-----------------------------------------------------------------------------
(* The steps of the loop.                                                  *)
LEMMA LoopTyped ==
  ASSUME IInv, \/ Hop /\ UNCHANGED <<sessionVars, agentVars, deliveryVars>>
               \/ Tear /\ UNCHANGED <<sessionVars, deliveryVars>>
               \/ RunAnswered \/ DeliveryAnswered \/ ResultsJoined
  PROVE  StateOK'
<1> USE PartsLeftAlone, NextStateIs
<1>0. /\ UNCHANGED sessionVars => /\ UNCHANGED <<turnVars, holderVars>>
                                  /\ UNCHANGED <<conv, swap, swaps>> /\ UNCHANGED <<live, work>>
  BY DEF sessionVars, historyVars, toolVars, userVars, countVars
<1>1. CASE Hop /\ UNCHANGED <<sessionVars, agentVars, deliveryVars>>
  BY <1>0, <1>1
<1>2. CASE Tear /\ UNCHANGED <<sessionVars, deliveryVars>>
  <2>1. AgentOK'
    <3>1. AgentOK
      BY StateIs DEF IInv
    <3> QED
      BY <1>2, <3>1 DEF Tear, AgentOK
  <2> QED
    BY <1>0, <1>2, <2>1
<1>3. CASE RunAnswered
  <2>1. UNCHANGED <<agentVars, deliveryVars, live, work, conv, userVars>>
    BY <1>3 DEF RunAnswered, toolVars
  <2>0. \/ UNCHANGED <<turnVars, history, toolVars>>
        \/ /\ active' = FALSE /\ turnJobs' = <<>> /\ join' = <<>>
           /\ UNCHANGED <<mirror, folds, pendingCancel, answers, open, request, work>>
    BY <1>3, Zenon DEF RunAnswered
  <2>2. TurnOK'
    <3>1. UNCHANGED turnVars \/ (active' = FALSE /\ turnJobs' = <<>> /\ UNCHANGED pendingCancel)
      BY <2>0
    <3>2. TurnOK /\ <<>> \in Seq(Calls)
      BY StateIs DEF IInv
    <3> QED
      BY <3>1, <3>2 DEF TurnOK
  <2>3. HolderOK'
    <3>1. UNCHANGED holderVars \/ (join' = <<>> /\ UNCHANGED <<answers, open, request>>)
      BY <2>0 DEF toolVars
    <3>2. HolderOK /\ <<>> \in Seq(Calls)
      BY StateIs DEF IInv
    <3> QED
      BY <3>1, <3>2 DEF HolderOK
  <2>4. UNCHANGED <<conv, swap, swaps>>
    BY <2>1 DEF userVars, countVars
  <2> QED
    BY <2>1, <2>2, <2>3, <2>4
<1>4. CASE DeliveryAnswered
  <2>1. DeliveryTypeOK'
    <3>1. Arg \in BOOLEAN /\ DeliveryResolved(Arg)
      BY <1>4, HeadIs DEF DeliveryAnswered
    <3>2. DeliveryTypeOK
      BY StateIs DEF IInv
    <3> QED
      BY <3>1, <3>2, BufferTyped
  <2>2. UNCHANGED <<sessionVars, agentVars>>
    BY <1>4 DEF DeliveryAnswered
  <2> QED
    BY <1>0, <2>1, <2>2
<1>5. CASE ResultsJoined
  <2>1. AgentOK'
    <3>1. CASE UNCHANGED agentVars
      BY <3>1
    <3>2. ASSUME NEW fold \in BOOLEAN, AgentTakesResults(Arg, fold) PROVE AgentOK'
      <4>1. Arg \in Seq(Answers)
        BY <1>5, HeadIs DEF ResultsJoined
      <4> QED
        BY <3>2, <4>1, ResultsTyped
    <3> QED
      BY <1>5, <3>1, <3>2 DEF ResultsJoined
  <2>2. UNCHANGED <<sessionVars, deliveryVars>>
    BY <1>5 DEF ResultsJoined
  <2> QED
    BY <1>0, <2>1, <2>2
<1> QED
  BY <1>1, <1>2, <1>3, <1>4, <1>5

(* The deliveries of events.                                               *)
LEMMA EventsTyped ==
  ASSUME IInv, \/ EventIgnored \/ OnTranscript \/ OnCall \/ OnNeedsResults \/ OnNeedsPrompt
               \/ OnFolded \/ OnAnswer \/ OnEnd
  PROVE  StateOK'
<1> USE PartsLeftAlone, NextStateIs
<1>1. CASE EventIgnored
  BY <1>1 DEF EventIgnored, sessionVars, historyVars, toolVars, userVars, countVars
<1>2. CASE OnTranscript \/ OnFolded \/ OnAnswer
  <2>1. /\ UNCHANGED <<active, pendingCancel, turnJobs>> /\ UNCHANGED <<live, work>>
        /\ UNCHANGED <<holderVars, agentVars, deliveryVars>> /\ UNCHANGED <<conv, swap, swaps>>
    BY <1>2 DEF OnTranscript, OnFolded, OnAnswer, historyVars, toolVars, userVars, countVars
  <2> QED
    BY <2>1
<1>3. CASE OnCall
  <2>1. /\ UNCHANGED <<active, pendingCancel, turnJobs>> /\ UNCHANGED <<agentVars, deliveryVars>>
        /\ UNCHANGED <<conv, swap, swaps>> /\ live' = live /\ StartCall(EvArg.call)
    BY <1>3 DEF OnCall, historyVars, userVars, countVars
  <2>2. EvArg.call \in Calls
    <3>1. At("deliver") /\ Head(inbox)[1] = "call"
      BY <1>3 DEF OnCall, Delivered, Ev
    <3>2. EvArg \in [id : Nat, call : Calls]
      BY <3>1, EventInHand
    <3> QED
      BY <3>2
  <2>3. HolderOK' /\ FrameOK'
    <3>1. HolderOK /\ FrameOK
      BY StateIs DEF IInv
    <3>2. CASE UNCHANGED toolVars
      BY <2>1, <3>1, <3>2 DEF toolVars, holderVars, HolderOK, FrameOK
    <3>3. CASE /\ answers' = answers \cup {EvArg.call} /\ UNCHANGED join
               /\ request' = [request EXCEPT ![EvArg.call] = "failed"] /\ UNCHANGED <<open, work>>
      BY <2>1, <2>2, <3>1, <3>3 DEF HolderOK, FrameOK, Requests
    <3>4. CASE /\ answers' = answers \cup {EvArg.call} /\ UNCHANGED join
               /\ open' = open \cup {EvArg.call}
               /\ request' = [request EXCEPT ![EvArg.call] = "live"]
               /\ work' = [work EXCEPT ![EvArg.call] = "running"]
      BY <2>1, <2>2, <3>1, <3>4 DEF HolderOK, FrameOK, Requests, Works
    <3> QED
      BY <2>1, <3>2, <3>3, <3>4 DEF StartCall
  <2> QED
    BY <2>1, <2>3
<1>4. CASE OnNeedsResults
  <2>1. /\ UNCHANGED <<active, pendingCancel, turnJobs>> /\ UNCHANGED <<agentVars, deliveryVars>>
        /\ UNCHANGED <<conv, swap, swaps>> /\ UNCHANGED <<live, work>>
        /\ UNCHANGED <<answers, open, request>>
        /\ join' = join \/ join' = EvArg.calls
    BY <1>4 DEF OnNeedsResults, historyVars, userVars, countVars
  <2>2. EvArg.calls \in Seq(Calls)
    <3>1. At("deliver") /\ Head(inbox)[1] = "needs results"
      BY <1>4 DEF OnNeedsResults, Delivered, Ev
    <3>2. EvArg \in Models
      BY <3>1, EventInHand
    <3> QED
      BY <3>2 DEF Models
  <2>3. HolderOK'
    <3>1. HolderOK
      BY StateIs DEF IInv
    <3> QED
      BY <2>1, <2>2, <3>1 DEF HolderOK
  <2> QED
    BY <2>1, <2>3
<1>5. CASE OnNeedsPrompt
  <2>1. AgentOK'
    <3>1. AgentOK
      BY StateIs DEF IInv
    <3> QED
      BY <1>5, <3>1 DEF OnNeedsPrompt, AgentTakesPrompt, AgentOK, Phases
  <2>2. UNCHANGED <<sessionVars, deliveryVars>>
    BY <1>5 DEF OnNeedsPrompt
  <2> QED
    BY <2>1, <2>2 DEF sessionVars, historyVars, toolVars, userVars, countVars
<1>6. CASE OnEnd
  <2>1. /\ UNCHANGED <<live, pendingCancel, swap, swaps>> /\ UNCHANGED <<agentVars, deliveryVars>>
        /\ pendingCancel' \in BOOLEAN
    BY <1>6 DEF OnEnd, userVars, countVars, IInv, StateOK
  <2>2. ASSUME NEW entries, NEW cancelled \in BOOLEAN, FinishTurn(entries, cancelled, <<>>, <<>>)
        PROVE  StateOK'
    BY <2>1, <2>2, FinishTyped
  <2>3. \/ FinishTurn(EvArg, FALSE, <<>>, <<>>) \/ FinishTurn(EvArg, TRUE, <<>>, <<>>)
        \/ FinishTurn(mirror, FALSE, <<>>, <<>>)
    BY <1>6 DEF OnEnd
  <2> QED
    BY <2>2, <2>3
<1> QED
  BY <1>1, <1>2, <1>3, <1>4, <1>5, <1>6

(* What starts a turn, and what may.                                       *)
LEMMA StartsTyped ==
  ASSUME IInv, \/ Submit \/ Compact \/ Resumed \/ IdleSeen \/ Attach
               \/ \E c \in Calls : BackgroundEnds(c)
  PROVE  StateOK'
<1> USE PartsLeftAlone, NextStateIs
<1>0. /\ DeliveryTypeOK /\ FrameOK
      /\ conv' = conv /\ swaps' = swaps /\ swap' \in {"none", "loading", "picking"} => SwapOK'
  BY StateIs DEF IInv, SwapOK
<1>1. CASE Submit
  <2>1. RunTurn("respond", "user", <<Idled>>) /\ UNCHANGED <<live, conv, work, swaps, deliveryVars>>
    BY <1>1 DEF Submit
  <2> QED
    BY <1>0, <2>1, RunTurnTyped DEF Goals
<1>2. CASE Compact
  <2>1. RunTurn("compact", "user", <<>>) /\ UNCHANGED <<live, conv, work, swaps, deliveryVars>>
    BY <1>2 DEF Compact, historyVars
  <2> QED
    BY <1>0, <2>1, RunTurnTyped DEF Goals
<1>3. CASE Resumed
  <2>1. /\ StartRun(Arg.goal, Arg.from, <<>>)
        /\ UNCHANGED <<live, conv, work, swaps, deliveryVars>>
    BY <1>3 DEF Resumed, historyVars, countVars
  <2>2. Arg.goal \in Goals
    <3>1. Head(micro).does \in Resumes /\ Arg = Head(micro).does[2]
      BY <1>3, HeadDoes, DoingNames DEF Resumed, IInv
    <3>2. \A d \in Resumes : d[2] \in [goal : Goals, from : Froms]
      BY DEF Resumes
    <3>3. Arg \in [goal : Goals, from : Froms]
      BY <3>1, <3>2
    <3> QED
      BY <3>3
  <2> QED
    BY <1>0, <2>1, <2>2, StartTyped
<1>4. CASE IdleSeen
  <2>1. AgentIdled /\ Deliver(live) /\ UNCHANGED <<live, work, swaps>>
    BY <1>4 DEF IdleSeen, countVars
  <2> QED
    BY <1>0, <2>1, BufferTyped, DeliverTyped
<1>5. CASE Attach
  <2>1. AgentBound /\ Deliver(TRUE) /\ live' = TRUE /\ UNCHANGED <<work, swaps>>
    BY <1>5 DEF Attach, countVars
  <2>2. FrameOK'
    BY <1>0, <2>1 DEF FrameOK
  <2> QED
    BY <1>0, <2>1, <2>2, BufferTyped, DeliverTyped
<1>6. ASSUME NEW c \in Calls, BackgroundEnds(c) PROVE StateOK'
  <2>1. ReportSettled(c) /\ Deliver(live) /\ UNCHANGED <<live, swaps>>
        /\ work' = [work EXCEPT ![c] = "reported"]
    BY <1>6 DEF BackgroundEnds, countVars
  <2>2. FrameOK'
    BY <1>0, <2>1 DEF FrameOK, Works
  <2> QED
    BY <1>0, <2>1, <2>2, BufferTyped, DeliverTyped
<1> QED
  BY <1>1, <1>2, <1>3, <1>4, <1>5, <1>6

(* What else comes from outside.                                           *)
LEMMA InputTyped ==
  ASSUME IInv, \/ Cancel \/ Clear \/ BeginSwap \/ Loaded \/ Rewound \/ Network \/ Detach
               \/ \E c \in Calls : WorkEnds(c) \/ WorkHandedOff(c)
               \/ UNCHANGED vars
  PROVE  StateOK'
<1> USE PartsLeftAlone, NextStateIs
<1>0. /\ AgentOK /\ DeliveryTypeOK /\ TurnOK /\ HolderOK /\ SwapOK /\ FrameOK
      /\ UNCHANGED sessionVars => /\ UNCHANGED <<turnVars, holderVars>>
                                  /\ UNCHANGED <<conv, swap, swaps>> /\ UNCHANGED <<live, work>>
  BY StateIs DEF IInv, sessionVars, historyVars, toolVars, userVars, countVars
<1>1. CASE Cancel
  <2>1. /\ AgentCancel /\ FinishTurn(mirror, TRUE, CancelEvents, CancelTasks)
        /\ pendingCancel' = TRUE /\ UNCHANGED <<live, swap, swaps>> /\ UNCHANGED deliveryVars
    BY <1>1 DEF Cancel, userVars, countVars
  <2> QED
    BY <2>1, CancelTyped, FinishTyped
<1>2. CASE Clear
  <2>1. /\ swaps' \in 0..MaxSwaps /\ LoadJournal(<<>>, swaps')
        /\ swap' \in {"none", "loading", "picking"}
    BY <1>0, <1>2, SessionAssumption DEF Clear, SwapOK
  <2>2. /\ AgentOK' /\ DeliveryTypeOK' /\ TurnOK' /\ HolderOK' /\ FrameOK'
        /\ conv' \in 0..MaxSwaps
    BY <2>1, LoadTyped
  <2> QED
    BY <2>1, <2>2 DEF SwapOK
<1>3. CASE BeginSwap
  <2>1. /\ UNCHANGED <<turnVars, holderVars, agentVars, deliveryVars, live, work, conv>>
        /\ swaps' \in 0..MaxSwaps /\ swap' \in {"none", "loading", "picking"}
    BY <1>0, <1>3, SessionAssumption DEF BeginSwap, SwapOK, historyVars, toolVars
  <2> QED
    BY <1>0, <2>1 DEF SwapOK
<1>4. ASSUME swap' = "none", UNCHANGED swaps, NEW entries, NEW id \in 0..MaxSwaps,
             LoadJournal(entries, id)
      PROVE  StateOK'
  BY <1>0, <1>4, LoadTyped DEF SwapOK
<1>5. ASSUME swap' = "none", UNCHANGED swaps,
             UNCHANGED <<live, turnVars, historyVars, toolVars, agentVars, deliveryVars>>
      PROVE  StateOK'
  BY <1>0, <1>5 DEF SwapOK, historyVars, toolVars
<1>6. CASE Loaded \/ Rewound
  <2>1. swaps \in 0..MaxSwaps /\ conv \in 0..MaxSwaps /\ swap' = "none" /\ UNCHANGED swaps
    BY <1>0, <1>6 DEF SwapOK, Loaded, Rewound
  <2>2. CASE LoadJournal(<<UserEntry>>, swaps)
    BY <1>4, <2>1, <2>2
  <2>3. ASSUME NEW i \in DOMAIN history,
               LoadJournal(SubSeq(history, 1, i - 1), IF i = 1 THEN swaps ELSE conv)
        PROVE  StateOK'
    <3>1. (IF i = 1 THEN swaps ELSE conv) \in 0..MaxSwaps
      BY <2>1
    <3> QED
      BY <1>4, <2>1, <2>3, <3>1
  <2>4. CASE UNCHANGED <<live, turnVars, historyVars, toolVars, agentVars, deliveryVars>>
    BY <1>5, <2>1, <2>4
  <2> QED
    BY <1>6, <2>2, <2>3, <2>4 DEF Loaded, Rewound
<1>7. CASE Network
  BY <1>0, <1>7, StreamTyped DEF Network
<1>8. CASE Detach
  <2>1. AgentOK'
    <3>1. <<>> \in Seq(TurnEntries) /\ <<>> \in Seq(Calls)
      OBVIOUS
    <3> QED
      BY <1>0, <1>8, <3>1 DEF Detach, AgentOK, Phases
  <2>2. DeliveryTypeOK'
    BY <1>0, <1>8, BufferTyped DEF Detach
  <2>3. TurnOK' /\ HolderOK'
    <3>1. request' \in [Calls -> Requests] /\ <<>> \in Seq(Calls)
      BY <1>8, AbandonedIs DEF Detach
    <3> QED
      BY <1>8, <3>1 DEF Detach, FreshSession, TurnOK, HolderOK
  <2>4. SwapOK' /\ FrameOK'
    BY <1>0, <1>8 DEF Detach, SwapOK, FrameOK
  <2> QED
    BY <2>1, <2>2, <2>3, <2>4
<1>9. ASSUME NEW c \in Calls, WorkEnds(c) \/ WorkHandedOff(c) PROVE StateOK'
  <2>1. PICK how \in Requests, w \in Works :
          /\ Settle(c, how) /\ work' = [work EXCEPT ![c] = w]
          /\ UNCHANGED <<live, answers, active, pendingCancel, conv, swap, swaps>>
          /\ UNCHANGED <<agentVars, deliveryVars>>
          /\ turnJobs' = turnJobs \/ turnJobs' = Append(turnJobs, c)
    BY <1>9 DEF WorkEnds, WorkHandedOff, NoteBackgrounded, Requests, Works, turnVars, historyVars,
       userVars, countVars
  <2>2. HolderOK'
    BY <2>1, SettleTyped
  <2>3. FrameOK'
    BY <1>0, <2>1 DEF FrameOK
  <2>4. TurnOK'
    <3>1. Append(turnJobs, c) \in Seq(Calls)
      BY <1>0 DEF TurnOK
    <3> QED
      BY <1>0, <2>1, <3>1 DEF TurnOK
  <2> QED
    BY <2>1, <2>2, <2>3, <2>4
<1>10. CASE UNCHANGED vars
  BY <1>0, <1>10 DEF vars
<1> QED
  BY <1>1, <1>2, <1>3, <1>6, <1>7, <1>8, <1>9, <1>10

(* The initial states satisfy the invariant.                               *)
LEMMA InitOK == Init => IInv
<1> SUFFICES ASSUME Init PROVE IInv
  OBVIOUS
<1>1. micro = <<>> /\ inbox = <<>> /\ ~IsRunning /\ turn = 0
  BY DEF Init, AgentInit, LoopInit, IsRunning
<1>2. /\ \A S : ~Has(S, micro) /\ Lone(S, micro)
      /\ \A N : ~Told(N, inbox) /\ ToldLast(N, inbox)
  BY <1>1, HasFew, ToldFew
<1>3. /\ <<>> \in Seq(Tasks) /\ <<>> \in Seq(Events) /\ <<>> \in Seq(TurnEntries)
      /\ <<>> \in Seq(Calls) /\ <<>> \in Seq(Reports)
  OBVIOUS
<1>4. StateOK
  <2>1. AgentOK /\ DeliveryTypeOK
    BY <1>3 DEF Init, AgentInit, AgentOK, Phases, Goals, DeliveryTypeOK, DeliveryStates
  <2>2. TurnOK /\ HolderOK /\ FrameOK
    BY <1>3 DEF Init, TurnOK, HolderOK, FrameOK, Requests, Works
  <2>3. SwapOK
    BY SessionAssumption DEF Init, SwapOK
  <2> QED
    BY <2>1, <2>2, <2>3, StateIs
<1>5. QueuesOK
  BY <1>1, <1>2, <1>3 DEF QueuesOK
<1>6. Agreement
  BY <1>1, <1>2 DEF Agreement, Init
<1>7. Buffering
  BY <1>2 DEF Buffering, Init
<1> QED
  BY <1>4, <1>5, <1>6, <1>7 DEF IInv

(* Every step keeps the invariant.                                         *)
LEMMA NextOK == IInv /\ [Next]_vars => IInv'
<1> SUFFICES ASSUME IInv, [Next]_vars PROVE IInv'
  OBVIOUS
<1>1. StateOK'
  <2>1. CASE Microtask
    BY <2>1, LoopTyped, EventsTyped, StartsTyped DEF Microtask
  <2>2. CASE User
    BY <2>2, StartsTyped, InputTyped DEF User
  <2>3. CASE \E c \in Calls : Work(c)
    BY <2>3, StartsTyped, InputTyped DEF Work
  <2> QED
    BY <2>1, <2>2, <2>3, StartsTyped, InputTyped DEF Next
<1> QED
  BY <1>1, NextKeeps DEF IInv

(* Every state of the program satisfies the inductive invariant.           *)
THEOREM SessionInvariance == Spec => []IInv
<1>1. Init => IInv
  BY InitOK
<1>2. IInv /\ [Next]_vars => IInv'
  BY NextOK
<1> QED
  BY <1>1, <1>2, PTL DEF Spec

(* With no delivery queued, no event is on its way.                        *)
LEMMA DrivenAtRest == IInv => RuntimeIsDriven
  BY RestMeans DEF RuntimeIsDriven

(* Once the loop is at rest the session and the runtime agree.             *)
THEOREM RuntimeDriven == Spec => []RuntimeIsDriven
<1>1. IInv => RuntimeIsDriven
  BY DrivenAtRest
<1> QED
  BY <1>1, SessionInvariance, PTL

-----------------------------------------------------------------------------
(* The calls of a transcript.                                              *)
Asks(e, c)    == IsKind("model", e) /\ c \in ToSet(e.calls)
Replies(e, c) == IsKind("answer", e) /\ e.call = c
Aside(e)      == IsKind("answer", e) \/ IsKind("job", e)

AnsweredOnce(entries, c) ==
  /\ \A i \in DOMAIN entries : Asks(entries[i], c) =>
       Cardinality({j \in DOMAIN entries : Replies(entries[j], c)}) = 1
  /\ \A j \in DOMAIN entries : Replies(entries[j], c) =>
       \E i \in 1..(j - 1) : /\ Asks(entries[i], c)
                             /\ \A k \in (i + 1)..(j - 1) : Aside(entries[k])

SaidOf(c, entries) == \E i \in DOMAIN entries : Asks(entries[i], c) \/ Replies(entries[i], c)

Distinct(s) == \A i, j \in DOMAIN s : s[i] = s[j] => i = j

(* The answers to some calls, in their order.                              *)
AnswersOf(results, calls) ==
  /\ results \in Seq(Answers) /\ DOMAIN results = DOMAIN calls
  /\ \A i \in DOMAIN calls : results[i].call = calls[i]

(* A transcript is in order when each call is answered once.               *)
LEMMA WellFormedIs ==
  ASSUME NEW entries
  PROVE  WellFormed(entries) <=> \A c \in Calls : AnsweredOnce(entries, c)
  BY DEF WellFormed, AnsweredOnce, Asks, Replies, Aside

(* The kinds of the entries of a turn.                                     *)
LEMMA KindsOfEntries ==
  /\ \A e \in Models : e.kind = "model" /\ e.calls \in Seq(Calls) /\ e.id \in Nat
  /\ \A e \in Answers : e.kind = "answer" /\ e.call \in Calls
  /\ SummaryEntry.kind = "summary"
  /\ \A e \in TurnEntries : \/ e \in Models /\ e.kind = "model"
                            \/ e \in Answers /\ e.kind = "answer"
                            \/ e = SummaryEntry /\ e.kind = "summary"
<1>1. \A e \in Models : e.kind = "model" /\ e.calls \in Seq(Calls) /\ e.id \in Nat
  BY DEF Models
<1>2. \A e \in Answers : e.kind = "answer" /\ e.call \in Calls
  BY DEF Answers
<1>3. SummaryEntry.kind = "summary"
  BY DEF SummaryEntry
<1> QED
  BY <1>1, <1>2, <1>3 DEF TurnEntries

(* What an entry asks and answers.                                         *)
LEMMA EntryAsks ==
  /\ \A e \in Models : \A c : (Asks(e, c) <=> c \in ToSet(e.calls)) /\ ~Replies(e, c)
  /\ \A e \in Answers : \A c : ~Asks(e, c) /\ (Replies(e, c) <=> e.call = c) /\ Aside(e)
  /\ \A c : ~Asks(SummaryEntry, c) /\ ~Replies(SummaryEntry, c)
  BY KindsOfEntries DEF Asks, Replies, Aside, IsKind

(* A transcript that only a summary is added to.                           *)
LEMMA SummaryAdded ==
  ASSUME NEW s \in Seq(TurnEntries), WellFormed(s)
  PROVE  WellFormed(Append(s, SummaryEntry))
<1> DEFINE w == Append(s, SummaryEntry)
<1>1. /\ Len(s) \in Nat /\ DOMAIN s = 1..Len(s) /\ DOMAIN w = 1..(Len(s) + 1)
      /\ w[Len(s) + 1] = SummaryEntry /\ \A i \in 1..Len(s) : w[i] = s[i]
  OBVIOUS
<1> HIDE DEF w
<1>2. ASSUME NEW c \in Calls PROVE AnsweredOnce(w, c)
  <2>1. AnsweredOnce(s, c)
    BY WellFormedIs
  <2>2. \A i \in DOMAIN w : Asks(w[i], c) \/ Replies(w[i], c) => i \in DOMAIN s /\ w[i] = s[i]
    BY <1>1, EntryAsks
  <2>3. {j \in DOMAIN w : Replies(w[j], c)} = {j \in DOMAIN s : Replies(s[j], c)}
    BY <1>1, <2>2
  <2>4. ASSUME NEW i \in DOMAIN w, Asks(w[i], c)
        PROVE  Cardinality({j \in DOMAIN w : Replies(w[j], c)}) = 1
    BY <2>1, <2>2, <2>3, <2>4 DEF AnsweredOnce
  <2>5. ASSUME NEW j \in DOMAIN w, Replies(w[j], c)
        PROVE  \E i \in 1..(j - 1) : Asks(w[i], c) /\ \A k \in (i + 1)..(j - 1) : Aside(w[k])
    <3>1. j \in 1..Len(s) /\ Replies(s[j], c)
      BY <1>1, <2>2, <2>5
    <3>2. PICK i \in 1..(j - 1) : Asks(s[i], c) /\ \A k \in (i + 1)..(j - 1) : Aside(s[k])
      BY <1>1, <2>1, <3>1 DEF AnsweredOnce
    <3>3. \A k \in 1..(j - 1) : w[k] = s[k]
      BY <1>1, <3>1
    <3> QED
      BY <3>1, <3>2, <3>3
  <2> QED
    BY <2>4, <2>5 DEF AnsweredOnce
<1> QED
  BY <1>2, WellFormedIs DEF w

(* A step and the answers to its calls, which nothing named before.        *)
LEMMA StepAnswered ==
  ASSUME NEW s \in Seq(TurnEntries), WellFormed(s), NEW e \in Models,
         Distinct(e.calls), \A c \in ToSet(e.calls) : ~SaidOf(c, s),
         NEW r, AnswersOf(r, e.calls)
  PROVE  WellFormed(Append(s, e) \o r)
<1> DEFINE w == Append(s, e) \o r
           n == Len(s)
           m == Len(r)
<1>1. /\ n \in Nat /\ m \in Nat
      /\ DOMAIN w = 1..(n + 1 + m) /\ DOMAIN s = 1..n /\ DOMAIN r = 1..m
      /\ \A i \in 1..n : w[i] = s[i]
      /\ w[n + 1] = e
      /\ \A i \in 1..m : w[n + 1 + i] = r[i]
  <2>1. r \in Seq(Answers)
    BY DEF AnswersOf
  <2>2. Answers \subseteq TurnEntries /\ e \in TurnEntries
    BY DEF TurnEntries
  <2>3. r \in Seq(TurnEntries) /\ Append(s, e) \in Seq(TurnEntries)
    BY <2>1, <2>2
  <2>4. /\ Len(s) \in Nat /\ Len(r) \in Nat /\ DOMAIN s = 1..Len(s) /\ DOMAIN r = 1..Len(r)
        /\ Len(Append(s, e)) = Len(s) + 1
        /\ \A i \in 1..Len(s) : Append(s, e)[i] = s[i]
        /\ Append(s, e)[Len(s) + 1] = e
    BY <2>3
  <2>5. /\ DOMAIN (Append(s, e) \o r) = 1..(Len(s) + 1 + Len(r))
        /\ \A i \in 1..(Len(s) + 1) : (Append(s, e) \o r)[i] = Append(s, e)[i]
        /\ \A i \in 1..Len(r) : (Append(s, e) \o r)[Len(s) + 1 + i] = r[i]
    BY <2>3, <2>4
  <2> QED
    BY <2>4, <2>5
<1> HIDE DEF w, n, m
<1>2. \A i \in DOMAIN w : \/ i \in 1..n
                          \/ i = n + 1
                          \/ \E k \in 1..m : i = n + 1 + k
  <2>1. \A i \in DOMAIN w : \/ i \in 1..n
                             \/ i = n + 1
                             \/ (i - (n + 1) \in 1..m /\ i = n + 1 + (i - (n + 1)))
    BY <1>1
  <2> QED
    BY <2>1
<1>3. /\ \A i \in 1..m : r[i] \in Answers /\ r[i].call = e.calls[i]
      /\ DOMAIN e.calls = 1..m
  <2>1. /\ r \in Seq(Answers) /\ DOMAIN r = DOMAIN e.calls
        /\ \A i \in DOMAIN e.calls : r[i].call = e.calls[i]
    BY DEF AnswersOf
  <2>2. \A i \in DOMAIN r : r[i] \in Answers
    BY <2>1
  <2> QED
    BY <1>1, <2>1, <2>2
<1>4. ASSUME NEW c \in Calls PROVE AnsweredOnce(w, c)
  <2>1. AnsweredOnce(s, c)
    BY WellFormedIs
  <2>2. CASE c \notin ToSet(e.calls)
    <3>1. \A k \in 1..m : r[k].call # c
      BY <1>3, <2>2 DEF ToSet
    <3>2. \A i \in DOMAIN w : Asks(w[i], c) \/ Replies(w[i], c) => i \in 1..n
      <4>1. ~Asks(w[n + 1], c) /\ ~Replies(w[n + 1], c)
        BY <1>1, <2>2, EntryAsks
      <4>2. \A k \in 1..m : ~Asks(w[n + 1 + k], c) /\ ~Replies(w[n + 1 + k], c)
        <5>1. \A k \in 1..m : w[n + 1 + k] \in Answers /\ w[n + 1 + k].call # c
          BY <1>1, <1>3, <3>1
        <5> QED
          BY <5>1, EntryAsks
      <4> QED
        BY <1>2, <4>1, <4>2
    <3>3. {j \in DOMAIN w : Replies(w[j], c)} = {j \in DOMAIN s : Replies(s[j], c)}
      BY <1>1, <3>2
    <3>4. ASSUME NEW i \in DOMAIN w, Asks(w[i], c)
          PROVE  Cardinality({j \in DOMAIN w : Replies(w[j], c)}) = 1
      BY <1>1, <2>1, <3>2, <3>3, <3>4 DEF AnsweredOnce
    <3>5. ASSUME NEW j \in DOMAIN w, Replies(w[j], c)
          PROVE  \E i \in 1..(j - 1) : Asks(w[i], c) /\ \A k \in (i + 1)..(j - 1) : Aside(w[k])
      <4>1. j \in 1..n /\ Replies(s[j], c)
        BY <1>1, <3>2, <3>5
      <4>2. PICK i \in 1..(j - 1) : Asks(s[i], c) /\ \A k \in (i + 1)..(j - 1) : Aside(s[k])
        BY <1>1, <2>1, <4>1 DEF AnsweredOnce
      <4>3. \A k \in 1..(j - 1) : w[k] = s[k]
        BY <1>1, <4>1
      <4>4. \A k \in (i + 1)..(j - 1) : k \in 1..(j - 1)
        BY <1>1, <4>1, <4>2
      <4> QED
        BY <4>2, <4>3, <4>4
    <3> QED
      BY <3>4, <3>5 DEF AnsweredOnce
  <2>3. CASE c \in ToSet(e.calls)
    <3>1. PICK k \in 1..m : e.calls[k] = c
      BY <1>3, <2>3 DEF ToSet
    <3>2. \A j \in 1..m : r[j].call = c => j = k
      BY <1>3, <3>1 DEF Distinct
    <3>3. \A i \in 1..n : ~Asks(w[i], c) /\ ~Replies(w[i], c)
      BY <1>1, <2>3 DEF SaidOf
    <3>4. Asks(w[n + 1], c) /\ ~Replies(w[n + 1], c)
      BY <1>1, <2>3, EntryAsks
    <3>5. \A j \in 1..m : /\ ~Asks(w[n + 1 + j], c) /\ Aside(w[n + 1 + j])
                          /\ Replies(w[n + 1 + j], c) <=> j = k
      <4>1. \A j \in 1..m : w[n + 1 + j] \in Answers /\ w[n + 1 + j].call = r[j].call
        BY <1>1, <1>3
      <4>2. \A j \in 1..m : r[j].call = c <=> j = k
        BY <1>3, <3>1, <3>2
      <4> QED
        BY <4>1, <4>2, EntryAsks
    <3>6. {j \in DOMAIN w : Replies(w[j], c)} = {n + 1 + k}
      <4>1. n + 1 + k \in DOMAIN w
        BY <1>1
      <4> QED
        <5>1. ASSUME NEW j \in DOMAIN w, Replies(w[j], c) PROVE j = n + 1 + k
          <6>1. j \notin 1..n /\ j # n + 1
            BY <3>3, <3>4, <5>1
          <6>2. PICK i \in 1..m : j = n + 1 + i
            BY <1>2, <6>1
          <6>3. i = k
            BY <3>5, <5>1, <6>2
          <6> QED
            BY <6>2, <6>3
        <5>2. Replies(w[n + 1 + k], c)
          BY <3>5
        <5> QED
          BY <4>1, <5>1, <5>2
    <3>7. Cardinality({j \in DOMAIN w : Replies(w[j], c)}) = 1
      BY <3>6, FS_Singleton
    <3>8. ASSUME NEW j \in DOMAIN w, Replies(w[j], c)
          PROVE  \E i \in 1..(j - 1) : Asks(w[i], c) /\ \A l \in (i + 1)..(j - 1) : Aside(w[l])
      <4>1. j = n + 1 + k
        BY <3>6, <3>8
      <4>2. n + 1 \in 1..(j - 1)
        BY <1>1, <4>1
      <4>3. ASSUME NEW l \in (n + 1 + 1)..(j - 1) PROVE Aside(w[l])
        <5>1. l - (n + 1) \in 1..m /\ l = n + 1 + (l - (n + 1))
          BY <1>1, <4>1
        <5> QED
          BY <3>5, <5>1
      <4> QED
        BY <3>4, <4>2, <4>3
    <3> QED
      BY <3>7, <3>8 DEF AnsweredOnce
  <2> QED
    BY <2>2, <2>3
<1> QED
  BY <1>4, WellFormedIs DEF w

-----------------------------------------------------------------------------
(* What is asked of the model, and what it waits for.                      *)
Asking == IsRunning /\ phase = "tools"

Called(c, q) == \E i \in DOMAIN q : q[i][1] = "call" /\ q[i][2].call = c

(* A step that made calls, and a transcript before it that is in order.    *)
StepMade(entries) ==
  /\ entries # <<>> /\ Front(entries) \in Seq(TurnEntries) /\ Last(entries) \in Models
  /\ entries = Append(Front(entries), Last(entries))
  /\ WellFormed(Front(entries))
  /\ Distinct(Last(entries).calls)
  /\ \A c \in ToSet(Last(entries).calls) : ~SaidOf(c, Front(entries))

(* The answers of a join that are not those to these calls.                *)
Stray(calls) == {d \in Joins : ~AnswersOf(d[2], calls)}

(* No call is made twice.                                                  *)
CallsKnown ==
  /\ \A c \in answers : request[c] # "none"
  /\ IsRunning =>
       /\ \A c \in Calls : SaidOf(c, said) \/ c \in ToSet(step) =>
                             request[c] # "none" \/ Called(c, inbox)
       /\ Distinct(step) /\ \A c \in ToSet(step) : ~SaidOf(c, said)
       /\ phase # "streaming" => step = <<>>

(* The calls of a step are joined once, and only while it waits for them.  *)
Joining ==
  /\ join # <<>> \/ Told(Wanted, inbox) => Asking
  /\ Told(CallNews, inbox) => IsRunning /\ phase = "streaming"
  /\ Asking =>
       /\ StepMade(said)
       /\ ~Has(Stray(Last(said).calls), micro)
       /\ join # <<>> => join = Last(said).calls /\ ~Told(Wanted, inbox)
       /\ Told(Wanted, inbox) => inbox = <<Event("needs results", Last(said))>>
       /\ Has(Joins, micro) => join = <<>> /\ ~Told(Wanted, inbox)

(* No answer is missed, unless the history is swapped.                     *)
Owed ==
  \/ Told(Wanted, inbox) /\ ToSet(Last(said).calls) \subseteq answers
  \/ join = Last(said).calls /\ ~Answered(request, join)
  \/ Has(Joins, micro)

Owing ==
  MaxSwaps = 0 =>
    /\ swap = "none"
    /\ IsRunning /\ phase = "streaming" =>
         \A c \in ToSet(step) : c \in answers \/ Called(c, inbox)
    /\ Asking => Owed

AInv == CallsKnown /\ Joining /\ Owing /\ SentIsAnswered

-----------------------------------------------------------------------------
(* What a queue of events says of a call, its head first.                  *)
LEMMA CalledTail ==
  ASSUME NEW c, NEW q \in Seq(Events), q # <<>>
  PROVE  Called(c, q) <=> (Head(q)[1] = "call" /\ Head(q)[2].call = c) \/ Called(c, Tail(q))
<1>1. ASSUME Called(c, q)
      PROVE  (Head(q)[1] = "call" /\ Head(q)[2].call = c) \/ Called(c, Tail(q))
  <2>1. PICK i \in DOMAIN q : q[i][1] = "call" /\ q[i][2].call = c
    BY <1>1 DEF Called
  <2>2. CASE i = 1
    BY <2>1, <2>2, TailIndices
  <2>3. CASE i # 1
    <3>1. i - 1 \in DOMAIN Tail(q) /\ i = (i - 1) + 1
      BY <2>3, TailIndices
    <3>2. Tail(q)[i - 1] = q[i]
      BY <3>1, TailIndices
    <3> QED
      BY <2>1, <3>1, <3>2 DEF Called
  <2> QED
    BY <2>2, <2>3
<1>2. ASSUME Head(q)[1] = "call", Head(q)[2].call = c PROVE Called(c, q)
  BY <1>2, TailIndices DEF Called
<1>3. ASSUME Called(c, Tail(q)) PROVE Called(c, q)
  <2>1. PICK i \in DOMAIN Tail(q) : Tail(q)[i][1] = "call" /\ Tail(q)[i][2].call = c
    BY <1>3 DEF Called
  <2> QED
    BY <2>1, TailIndices DEF Called
<1> QED
  BY <1>1, <1>2, <1>3

(* The joins on their way once a handler has ended that was no join.       *)
LEMMA JoinsLeft ==
  ASSUME IInv, NEW name, AtRest \/ At(name), name # "joined",
         NEW before \in Seq(Tasks), ~Has(Delivers, before),
         NEW after \in Seq(Tasks), ~Has(Delivers, after),
         NEW events \in Seq(Events), After(before, events, after)
  PROVE  /\ inbox' = InRest \o events
         /\ \A S : S \subseteq Joins =>
              (Has(S, micro') <=> Has(S, micro) \/ Has(S, before) \/ Has(S, after))
<1>1. inbox' = InRest \o events /\ \A S : Left(S, before, events, after)
  BY AfterDoes DEF IInv
<1>2. ASSUME NEW S, S \subseteq Joins PROVE Has(S, micro) <=> Has(S, Rest)
  <2>1. CASE AtRest
    BY <2>1, RestMeans
  <2>2. CASE At(name)
    <3>1. /\ Head(micro).does[1] = name
          /\ Has(S, micro) <=> Head(micro).does \in S \/ Has(S, Rest)
      BY <2>2, HeadDoes DEF IInv
    <3>2. Head(micro).does \notin S
      BY <1>2, <3>1, NamesOf
    <3> QED
      BY <3>1, <3>2
  <2> QED
    BY <2>1, <2>2
<1>3. ASSUME NEW S, S \subseteq Joins PROVE DeliverTask.does \notin S
  BY <1>3, DeliverIs
<1> QED
  BY <1>1, <1>2, <1>3 DEF Left

(* What an agent that is not running leaves to say.                        *)
LEMMA NothingAsked ==
  ASSUME ~IsRunning', join' = <<>>, ~Told(Wanted, inbox'), ~Told(CallNews, inbox'),
         \A c \in answers' : request'[c] # "none", MaxSwaps = 0 => swap' = "none"
  PROVE  AInv'
  BY DEF AInv, CallsKnown, Joining, Owing, Asking, SentIsAnswered

(* A step that changes nothing of what is asked.                           *)
LEMMA AskedAsBefore ==
  ASSUME IInv, AInv, UNCHANGED <<said, step, join, request, answers>>,
         IsRunning' <=> IsRunning,
         IsRunning => phase' = phase \/ {phase, phase'} \subseteq {"prompt", "summarizing"},
         MaxSwaps = 0 => swap' = "none",
         \/ inbox' = inbox
         \/ /\ inbox' = Tail(inbox) /\ inbox # <<>>
            /\ Head(inbox)[1] \notin CallNews \cup Wanted,
         Asking => \A S : S \subseteq Joins => (Has(S, micro') <=> Has(S, micro))
  PROVE  AInv'
<1>1. /\ Told(Wanted, inbox') <=> Told(Wanted, inbox)
      /\ Told(CallNews, inbox') <=> Told(CallNews, inbox)
      /\ \A c : Called(c, inbox') <=> Called(c, inbox)
      /\ Told(Wanted, inbox) => inbox' = inbox \/ Len(inbox) # 1
  <2>1. CASE inbox' = inbox
    BY <2>1
  <2>2. CASE inbox' = Tail(inbox) /\ inbox # <<>> /\ Head(inbox)[1] \notin CallNews \cup Wanted
    <3>1. inbox \in Seq(Events)
      BY DEF IInv, QueuesOK
    <3>2. \A N : Told(N, inbox) <=> Head(inbox)[1] \in N \/ Told(N, Tail(inbox))
      BY <2>2, <3>1, ToldTail
    <3>3. \A c : Called(c, inbox) <=>
                   (Head(inbox)[1] = "call" /\ Head(inbox)[2].call = c) \/ Called(c, Tail(inbox))
      BY <2>2, <3>1, CalledTail
    <3>4. Told(Wanted, inbox) => Len(inbox) # 1
      <4>1. Told(Wanted, inbox) => Told(Wanted, Tail(inbox))
        BY <2>2, <3>2
      <4>2. Told(Wanted, Tail(inbox)) => Tail(inbox) # <<>>
        BY ToldFew
      <4>3. Len(inbox) = 1 => Tail(inbox) = <<>>
        <5>1. \A s \in Seq(Events) : Len(s) = 0 => s = <<>>
          OBVIOUS
        <5>2. Tail(inbox) \in Seq(Events) /\ Len(Tail(inbox)) = Len(inbox) - 1
          BY <2>2, <3>1, TailIndices
        <5> QED
          <6>1. Len(inbox) = 1 => Len(Tail(inbox)) = 0
            BY <5>2
          <6> QED
            BY <5>1, <5>2, <6>1, Zenon
      <4> QED
        BY <4>1, <4>2, <4>3
    <3> QED
      BY <2>2, <3>2, <3>3, <3>4 DEF CallNews
  <2> QED
    BY <2>1, <2>2
<1>2. Asking' <=> Asking
  BY DEF Asking
<1>3. Stray(Last(said).calls) \subseteq Joins
  BY DEF Stray
<1>4. CallsKnown'
  BY <1>1 DEF AInv, CallsKnown
<1>5. Joining'
  <2>1. Asking => (Told(Wanted, inbox) => inbox = <<Event("needs results", Last(said))>>)
    BY DEF AInv, Joining
  <2>2. Asking /\ Told(Wanted, inbox) => inbox' = inbox
    <3>1. \A e : Len(<<e>>) = 1
      OBVIOUS
    <3> QED
      BY <1>1, <2>1, <3>1
  <2>3. Asking => (Has(Joins, micro') <=> Has(Joins, micro))
    OBVIOUS
  <2>4. Asking =>
          (Has(Stray(Last(said).calls), micro') <=> Has(Stray(Last(said).calls), micro))
    BY <1>3
  <2> QED
    BY <1>1, <1>2, <2>2, <2>3, <2>4 DEF AInv, Joining
<1>6. Owing'
  <2>1. Asking => (Has(Joins, micro') <=> Has(Joins, micro))
    OBVIOUS
  <2> QED
    BY <1>1, <1>2, <2>1 DEF AInv, Owing, Owed
<1>7. SentIsAnswered'
  BY DEF AInv, SentIsAnswered
<1> QED
  BY <1>4, <1>5, <1>6, <1>7 DEF AInv

(* Nothing that a handler leaves.                                          *)
LEMMA NoTasks ==
  /\ <<>> \in Seq(Tasks) /\ <<>> \in Seq(Events) /\ \A S : ~Has(S, <<>>)
  /\ \A s \in Seq(Events) : s \o <<>> = s
<1>1. <<>> \in Seq(Tasks) /\ <<>> \in Seq(Events) /\ \A s \in Seq(Events) : s \o <<>> = s
  OBVIOUS
<1>2. \A S : ~Has(S, <<>>)
  BY HasFew
<1> QED
  BY <1>1, <1>2

(* A handler that leaves no join changes nothing of what is asked.         *)
LEMMA QuietlyAsked ==
  ASSUME IInv, AInv, UNCHANGED <<said, step, join, request, answers>>,
         IsRunning' <=> IsRunning,
         IsRunning => phase' = phase \/ {phase, phase'} \subseteq {"prompt", "summarizing"},
         MaxSwaps = 0 => swap' = "none",
         NEW name, AtRest \/ At(name), name # "joined",
         name = "deliver" => AtRest \/ Head(inbox)[1] \notin CallNews \cup Wanted,
         NEW before \in Seq(Tasks), ~Has(Delivers, before), ~Has(Joins, before),
         NEW after \in Seq(Tasks), ~Has(Delivers, after), ~Has(Joins, after),
         After(before, <<>>, after)
  PROVE  AInv'
<1>1. /\ inbox' = InRest
      /\ \A S : S \subseteq Joins =>
           (Has(S, micro') <=> Has(S, micro) \/ Has(S, before) \/ Has(S, after))
  <2>1. /\ inbox' = InRest \o <<>>
        /\ \A S : S \subseteq Joins =>
             (Has(S, micro') <=> Has(S, micro) \/ Has(S, before) \/ Has(S, after))
    BY NoTasks, JoinsLeft
  <2>2. InRest \in Seq(Events)
    BY QueuesLeft DEF IInv
  <2> QED
    BY <2>1, <2>2, NoTasks
<1>2. \/ inbox' = inbox
      \/ /\ inbox' = Tail(inbox) /\ inbox # <<>>
         /\ Head(inbox)[1] \notin CallNews \cup Wanted
  <2>1. CASE ~At("deliver")
    BY <1>1, <2>1 DEF InRest
  <2>2. CASE At("deliver")
    <3>1. name = "deliver" /\ ~AtRest
      BY <2>2 DEF At, AtRest
    <3> QED
      BY <1>1, <2>2, <3>1, DeliversSomething DEF InRest, IInv
  <2> QED
    BY <2>1, <2>2
<1>3. \A S : S \subseteq Joins => (Has(S, micro') <=> Has(S, micro))
  <2>1. \A S : S \subseteq Joins => ~Has(S, before) /\ ~Has(S, after)
    BY SubHas
  <2> QED
    BY <1>1, <2>1
<1> QED
  BY <1>2, <1>3, AskedAsBefore

(* Nothing is left at all.                                                 *)
LEMMA NothingAsksNothing ==
  ASSUME IInv, AInv, UNCHANGED <<said, step, join, request, answers>>,
         IsRunning' <=> IsRunning,
         IsRunning => phase' = phase \/ {phase, phase'} \subseteq {"prompt", "summarizing"},
         MaxSwaps = 0 => swap' = "none",
         NEW name, AtRest \/ At(name), name # "joined",
         name = "deliver" => AtRest \/ Head(inbox)[1] \notin CallNews \cup Wanted,
         After(<<>>, <<>>, <<>>)
  PROVE  AInv'
  BY NoTasks, QuietlyAsked

(* A task that takes another round.                                        *)
LEMMA HopAsks ==
  ASSUME IInv, AInv, Hop, UNCHANGED <<sessionVars, agentVars, deliveryVars>>
  PROVE  AInv'
<1>1. \A S : Has(S, micro') <=> Has(S, micro)
  BY HopDoes
<1>2. /\ UNCHANGED <<said, step, join, request, answers, phase, swap, inbox>>
      /\ IsRunning' <=> IsRunning
  BY DEF Hop, IsRunning, sessionVars, toolVars, holderVars, userVars, agentVars
<1>3. MaxSwaps = 0 => swap' = "none"
  BY <1>2 DEF AInv, Owing
<1> QED
  BY <1>1, <1>2, <1>3, AskedAsBefore

(* The turn is dropped.                                                    *)
LEMMA TearAsks ==
  ASSUME IInv, AInv, Tear, UNCHANGED <<sessionVars, deliveryVars>>
  PROVE  AInv'
<1>1. /\ At("teardown") /\ turn' = (IF turn = Arg THEN 0 ELSE turn)
      /\ UNCHANGED <<phase, said, step, join, request, answers, swap>>
      /\ After(<<>>, <<>>, <<>>)
  BY DEF Tear, sessionVars, toolVars, holderVars, userVars
<1>2. IsRunning' <=> IsRunning
  <2>1. Arg \in 1..2 /\ Head(micro).does \in TeardownsOf(Arg)
    BY <1>1, HeadIs
  <2>2. Has(TeardownsOf(Arg), micro)
    BY <1>1, <2>1, HeadDoes DEF IInv
  <2>3. IsRunning => turn # Arg
    BY <2>1, <2>2 DEF IInv, Agreement
  <2> QED
    BY <1>1, <2>3 DEF IsRunning
<1>3. MaxSwaps = 0 => swap' = "none"
  BY <1>1 DEF AInv, Owing
<1> QED
  BY <1>1, <1>2, <1>3, NothingAsksNothing

(* The buffer is told of its turn.                                         *)
LEMMA VerdictAsks ==
  ASSUME IInv, AInv, DeliveryAnswered
  PROVE  AInv'
<1>1. /\ At("resolved") /\ After(<<>>, <<>>, <<>>)
      /\ UNCHANGED <<phase, said, step, join, request, answers, swap>>
      /\ IsRunning' <=> IsRunning
  BY DEF DeliveryAnswered, IsRunning, sessionVars, toolVars, holderVars, userVars, agentVars
<1>2. MaxSwaps = 0 => swap' = "none"
  BY <1>1 DEF AInv, Owing
<1> QED
  BY <1>1, <1>2, NothingAsksNothing

(* The events that only tell the session something.                        *)
LEMMA NewsAsks ==
  ASSUME IInv, AInv, OnTranscript \/ OnFolded \/ OnAnswer \/ OnNeedsPrompt
  PROVE  AInv'
<1>1. /\ At("deliver") /\ Head(inbox)[1] \notin CallNews \cup Wanted
      /\ After(<<>>, <<>>, <<>>)
  BY DEF OnTranscript, OnFolded, OnAnswer, OnNeedsPrompt, Delivered, Ev, CallNews, Wanted
<1>2. /\ UNCHANGED <<said, step, join, request, answers, swap>>
      /\ IsRunning' <=> IsRunning
      /\ IsRunning => phase' = phase \/ {phase, phase'} \subseteq {"prompt", "summarizing"}
  <2>1. CASE OnTranscript \/ OnFolded \/ OnAnswer
    BY <2>1 DEF OnTranscript, OnFolded, OnAnswer, toolVars, holderVars, userVars, agentVars,
                IsRunning
  <2>2. CASE OnNeedsPrompt
    BY <2>2 DEF OnNeedsPrompt, MaySubmit, AgentTakesPrompt, IsRunning, agentVars, sessionVars,
                toolVars, holderVars, userVars
  <2> QED
    BY <2>1, <2>2
<1>3. MaxSwaps = 0 => swap' = "none"
  BY <1>2 DEF AInv, Owing
<1> QED
  BY <1>1, <1>2, <1>3, NothingAsksNothing

(* An event that finds no turn.                                            *)
LEMMA IgnoredAsks ==
  ASSUME IInv, AInv, EventIgnored
  PROVE  AInv'
<1>1. /\ ~IsRunning /\ At("deliver") /\ After(<<>>, <<>>, <<>>)
      /\ UNCHANGED <<said, step, join, request, answers, swap>> /\ ~IsRunning'
  BY DEF EventIgnored, IInv, Agreement, IsRunning, agentVars, sessionVars, toolVars, holderVars,
         userVars
<1>2. Head(inbox)[1] \notin CallNews \cup Wanted
  <2>1. ~Told(Wanted, inbox) /\ ~Told(CallNews, inbox)
    BY <1>1 DEF AInv, Joining, Asking
  <2>2. \A N : Told(N, inbox) <=> Head(inbox)[1] \in N \/ Told(N, Tail(inbox))
    BY <1>1, DeliversSomething, ToldTail DEF IInv, QueuesOK
  <2> QED
    BY <2>1, <2>2
<1>3. MaxSwaps = 0 => swap' = "none"
  BY <1>1 DEF AInv, Owing
<1> QED
  BY <1>1, <1>2, <1>3, NothingAsksNothing

(* The result of a delivery turn asks nothing.                             *)
LEMMA VerdictQuiet ==
  ASSUME NEW ok \in BOOLEAN
  PROVE  /\ <<Resolved(ok)>> \in Seq(Tasks)
         /\ ~Has(Delivers, <<Resolved(ok)>>) /\ ~Has(Joins, <<Resolved(ok)>>)
<1>1. /\ Resolved(ok) \in Tasks /\ Resolved(ok).does \notin Delivers
      /\ Resolved(ok).does \notin Joins
  BY ResolvedIs
<1> QED
  BY <1>1, HasFew

(* The answer of run() changes nothing.                                    *)
LEMMA RanAsks ==
  ASSUME IInv, AInv, RunAnswered
  PROVE  AInv'
<1>1. At("ran") /\ Arg.ok = TRUE /\ Arg.from \in Froms
  BY HeadIs DEF RunAnswered
<1>2. /\ After(<<>>, <<>>, Tell(Arg.from, TRUE)) /\ UNCHANGED <<turnVars, history, toolVars>>
      /\ UNCHANGED <<live, conv, userVars, agentVars, deliveryVars>>
  BY <1>1, Zenon DEF RunAnswered
<1>3. /\ UNCHANGED <<phase, said, step, join, request, answers, swap>>
      /\ IsRunning' <=> IsRunning
  BY <1>2 DEF toolVars, holderVars, userVars, agentVars, IsRunning
<1>4. PICK after \in Seq(Tasks) : /\ after = Tell(Arg.from, TRUE)
                                  /\ ~Has(Delivers, after) /\ ~Has(Joins, after)
  <2>1. CASE Arg.from = "delivery"
    <3>1. Tell(Arg.from, TRUE) = <<Resolved(TRUE)>>
      BY <2>1, Zenon DEF Tell
    <3>2. TRUE \in BOOLEAN
      OBVIOUS
    <3> QED
      BY <3>1, <3>2, VerdictQuiet, Zenon
  <2>2. CASE Arg.from # "delivery"
    <3>1. Tell(Arg.from, TRUE) = <<>>
      BY <2>2, Zenon DEF Tell
    <3> QED
      BY <3>1, NoTasks
  <2> QED
    BY <2>1, <2>2
<1>5. MaxSwaps = 0 => swap' = "none"
  BY <1>3 DEF AInv, Owing
<1> QED
  BY <1>1, <1>2, <1>3, <1>4, <1>5, NoTasks, QuietlyAsked

(* A transcript with nothing in it.                                        *)
LEMMA NothingSaid == WellFormed(<<>>) /\ \A c : ~SaidOf(c, <<>>) /\ c \notin ToSet(<<>>)
<1>1. \A c \in Calls : AnsweredOnce(<<>>, c)
  BY DEF AnsweredOnce
<1> QED
  BY <1>1, WellFormedIs DEF SaidOf, ToSet

(* A turn starts with nothing said.                                        *)
LEMMA StartAsks ==
  ASSUME IInv, AInv, ~active, ~At("deliver"), NEW g, NEW from, NEW before,
         StartRun(g, from, before)
  PROVE  AInv'
<1>1. CanRun /\ ~IsRunning /\ inbox = <<>> /\ join = <<>> /\ InRest = <<>>
  BY DEF IInv, Agreement, AInv, Joining, Asking, CanRun, InRest
<1>2. PICK fold \in BOOLEAN :
        AgentRun(g, fold) /\ After(before, RunEvents(fold), <<Ran(TRUE, from)>>)
  BY <1>1 DEF StartRun
<1>3. /\ said' = <<>> /\ step' = <<>> /\ phase' \in {"prompt", "streaming"}
      /\ join' = <<>> /\ answers' = {} /\ swap' = IF swap = "picking" THEN "none" ELSE swap
  BY <1>1, <1>2 DEF AgentRun, StartStep, StartRun
<1>4. ~Told(Wanted, inbox') /\ ~Told(CallNews, inbox')
  <2>1. RunEvents(fold) \in Seq(Events)
    BY StartEvents
  <2>2. \A s \in Seq(Events) : <<>> \o s = s
    OBVIOUS
  <2>3. inbox' = <<>> \o RunEvents(fold)
    BY <1>1, <1>2 DEF After
  <2> QED
    BY <2>1, <2>2, <2>3, StartEvents
<1>5. CallsKnown'
  BY <1>3, NothingSaid DEF CallsKnown, Distinct
<1>6. Joining'
  BY <1>3, <1>4 DEF Joining, Asking
<1>7. Owing'
  BY <1>3, NothingSaid DEF Owing, Asking, AInv
<1>8. SentIsAnswered'
  BY <1>3, NothingSaid DEF SentIsAnswered
<1> QED
  BY <1>5, <1>6, <1>7, <1>8 DEF AInv

(* _runTurn: the turn starts, or waits for a cancellation.                 *)
LEMMA RunTurnAsks ==
  ASSUME IInv, AInv, ~active, ~At("deliver"), NEW g, NEW from, NEW before,
         RunTurn(g, from, before)
  PROVE  AInv'
<1>1. CASE ~pendingCancel
  BY <1>1, StartAsks DEF RunTurn
<1>2. CASE pendingCancel
  <2>1. ~IsRunning /\ inbox = <<>> /\ join = <<>> /\ InRest = <<>>
    BY DEF IInv, Agreement, AInv, Joining, Asking, InRest
  <2>2. /\ UNCHANGED <<phase, turn, join, request, answers, swap>>
        /\ inbox' = <<>> \o <<>>
    BY <1>2, <2>1 DEF RunTurn, After, holderVars, agentVars
  <2>3. inbox' = <<>>
    BY <2>2, NoTasks
  <2>4. ~IsRunning'
    BY <2>1, <2>2 DEF IsRunning
  <2>5. MaxSwaps = 0 => swap' = "none"
    BY <2>2 DEF AInv, Owing
  <2>6. \A c \in answers' : request'[c] # "none"
    BY <2>2 DEF AInv, CallsKnown
  <2> QED
    BY <2>1, <2>2, <2>3, <2>4, <2>5, <2>6, ToldFew, NothingAsked
<1> QED
  BY <1>1, <1>2

(* The buffer was given something.                                         *)
LEMMA DeliverAsks ==
  ASSUME IInv, AInv, NEW canRun, Deliver(canRun),
         NEW name, AtRest \/ At(name), name \notin {"deliver", "joined"}
  PROVE  AInv'
<1>0. ~At("deliver")
  BY DEF At, AtRest
<1>1. CASE UNCHANGED <<turnVars, historyVars, holderVars, swap, agentVars>>
  <2>1. /\ UNCHANGED <<phase, said, step, join, request, answers, swap>>
        /\ IsRunning' <=> IsRunning
    BY <1>1 DEF holderVars, agentVars, IsRunning
  <2>2. MaxSwaps = 0 => swap' = "none"
    BY <2>1 DEF AInv, Owing
  <2>3. CASE After(<<>>, <<>>, <<>>)
    BY <2>1, <2>2, <2>3, NothingAsksNothing
  <2>4. CASE After(<<>>, <<>>, <<Resolved(FALSE)>>)
    <3>1. FALSE \in BOOLEAN
      OBVIOUS
    <3>2. PICK after \in Seq(Tasks) : /\ after = <<Resolved(FALSE)>>
                                      /\ ~Has(Delivers, after) /\ ~Has(Joins, after)
      BY <3>1, VerdictQuiet, Zenon
    <3>3. After(<<>>, <<>>, after)
      BY <2>4, <3>2
    <3> QED
      BY <2>1, <2>2, <3>2, <3>3, NoTasks, QuietlyAsked
  <2>5. CASE RunTurn("respond", "delivery", <<Idled>>) /\ ~active
    BY <1>0, <2>5, RunTurnAsks
  <2> QED
    BY <2>3, <2>4, <2>5, NotDispatched, Dispatched
<1>2. CASE RunTurn("respond", "delivery", <<Idled>>) /\ ~active
  BY <1>0, <1>2, RunTurnAsks
<1> QED
  BY <1>1, <1>2, NotDispatched, Dispatched

(* Whatever starts a turn, or may.                                         *)
LEMMA StartersAsk ==
  ASSUME IInv, AInv, \/ Submit \/ Compact \/ Resumed \/ IdleSeen \/ Attach
                     \/ \E c \in Calls : BackgroundEnds(c)
  PROVE  AInv'
<1>1. CASE Submit \/ Compact
  <2>1. ~active /\ ~At("deliver")
    BY <1>1 DEF Submit, Compact, At, AtRest
  <2> QED
    BY <1>1, <2>1, RunTurnAsks DEF Submit, Compact
<1>2. CASE Resumed
  <2>1. At("resume") /\ Head(micro).does \in Resumes
    BY <1>2, HeadDoes, DoingNames DEF Resumed, IInv
  <2>2. Has(Resumes, micro)
    BY <2>1, HeadDoes DEF IInv
  <2>3. ~active /\ ~At("deliver")
    BY <2>1, <2>2 DEF IInv, Buffering, At
  <2> QED
    BY <1>2, <2>3, StartAsks DEF Resumed
<1>3. CASE IdleSeen
  BY <1>3, DeliverAsks DEF IdleSeen
<1>4. CASE Attach
  <2>1. AtRest \/ At("idled")
    BY <1>4 DEF Attach
  <2>2. Deliver(TRUE)
    BY <1>4 DEF Attach
  <2>3. "idled" \notin {"deliver", "joined"}
    OBVIOUS
  <2> QED
    BY <2>1, <2>2, <2>3, DeliverAsks, Zenon
<1>5. CASE \E c \in Calls : BackgroundEnds(c)
  BY <1>5, DeliverAsks DEF BackgroundEnds
<1> QED
  BY <1>1, <1>2, <1>3, <1>4, <1>5

(* The events that end a turn ask nothing.                                 *)
LEMMA EndsTell ==
  ASSUME NEW e, e[1] \in Ends
  PROVE  ~Told(Wanted, <<e>>) /\ ~Told(CallNews, <<e>>)
<1>1. e[1] \notin Wanted /\ e[1] \notin CallNews
  BY DEF Ends, Wanted, CallNews
<1> QED
  BY <1>1, ToldFew, Zenon

(* The event that ends a turn.                                             *)
LEMMA EndAsks ==
  ASSUME IInv, AInv, OnEnd
  PROVE  AInv'
<1>1. /\ At("deliver") /\ Head(inbox)[1] \in Ends /\ join' = <<>> /\ answers' = answers
      /\ request' = request \/ request' = Abandoned(open)
      /\ inbox' = InRest \o <<>> /\ UNCHANGED <<userVars, agentVars>>
  BY DEF OnEnd, Delivered, Ev, Ends, FinishTurn, After
<1>2. inbox \in Seq(Events) /\ inbox # <<>>
  BY <1>1, DeliversSomething DEF IInv, QueuesOK
<1>3. \A N : Told(N, inbox) <=> Head(inbox)[1] \in N \/ Told(N, Tail(inbox))
  BY <1>2, ToldTail
<1>4. inbox' = Tail(inbox)
  <2>1. Tail(inbox) \in Seq(Events)
    BY <1>2, TailIndices
  <2> QED
    BY <1>1, <2>1, NoTasks DEF InRest
<1>5. ~IsRunning /\ ~IsRunning'
  BY <1>1, <1>3 DEF IInv, Agreement, IsRunning, agentVars
<1>6. ~Told(Wanted, inbox') /\ ~Told(CallNews, inbox')
  BY <1>3, <1>4, <1>5 DEF AInv, Joining, Asking
<1>7. \A c \in answers' : request'[c] # "none"
  <2>1. answers \subseteq Calls
    BY DEF IInv, StateOK
  <2> QED
    BY <1>1, <2>1 DEF AInv, CallsKnown, Abandoned
<1>8. MaxSwaps = 0 => swap' = "none"
  BY <1>1 DEF AInv, Owing, userVars
<1> QED
  BY <1>1, <1>5, <1>6, <1>7, <1>8, NothingAsked

(* cancel().                                                               *)
LEMMA CancelAsks ==
  ASSUME IInv, AInv, Cancel
  PROVE  AInv'
<1>1. /\ AtRest /\ active /\ IsRunning /\ InRest = <<>>
  BY RestMeans DEF Cancel
<1>2. PICK e : e = Event("cancelled", said \o Partial)
  OBVIOUS
<1>3. e[1] = "cancelled"
  BY <1>2, EventsAre
<1>4. inbox' = <<>> \o <<e>>
  BY <1>1, <1>2 DEF Cancel, FinishTurn, After, CancelEvents
<1>5. inbox' = <<e>>
  <2>1. \A x : <<>> \o <<x>> = <<x>>
    OBVIOUS
  <2> QED
    BY <1>4, <2>1
<1>6. ~Told(Wanted, inbox') /\ ~Told(CallNews, inbox')
  BY <1>3, <1>5, EndsTell DEF Ends
<1>7. ~IsRunning' /\ join' = <<>>
  BY <1>1 DEF Cancel, AgentCancel, FinishTurn, IsRunning
<1>8. \A c \in answers' : request'[c] # "none"
  <2>1. answers \subseteq Calls
    BY DEF IInv, StateOK
  <2> QED
    BY <2>1 DEF AInv, CallsKnown, Abandoned, Cancel, FinishTurn
<1>9. MaxSwaps = 0 => swap' = "none"
  BY DEF AInv, Owing, userVars, Cancel
<1> QED
  BY <1>6, <1>7, <1>8, <1>9, NothingAsked

(* A stream that fails.                                                    *)
LEMMA FailAsks ==
  ASSUME IInv, AInv, StreamFail, UNCHANGED <<sessionVars, deliveryVars>>
  PROVE  AInv'
<1>1. PICK e : e = Event("failed", <<>>)
  OBVIOUS
<1>2. e[1] = "failed"
  BY <1>1, EventsAre
<1>3. /\ ~Asking /\ ~IsRunning' /\ inbox' = <<>> \o <<e>>
      /\ UNCHANGED <<join, answers, request, swap>>
  BY <1>1, RestMeans DEF StreamFail, After, Asking, IsRunning, sessionVars, toolVars, holderVars,
     userVars
<1>4. inbox' = <<e>>
  <2>1. \A x : <<>> \o <<x>> = <<x>>
    OBVIOUS
  <2> QED
    BY <1>3, <2>1
<1>5. ~Told(Wanted, inbox') /\ ~Told(CallNews, inbox')
  BY <1>2, <1>4, EndsTell DEF Ends
<1>6. join' = <<>> /\ \A c \in answers' : request'[c] # "none"
  BY <1>3 DEF AInv, Joining, CallsKnown
<1>7. MaxSwaps = 0 => swap' = "none"
  BY <1>3 DEF AInv, Owing
<1> QED
  BY <1>3, <1>5, <1>6, <1>7, NothingAsked

(* bindProvider(null).                                                     *)
LEMMA DetachAsks ==
  ASSUME IInv, AInv, Detach
  PROVE  AInv'
<1>1. ~IsRunning' /\ inbox' = <<>> /\ join' = <<>> /\ answers' = {}
  BY DEF Detach, FreshSession, IsRunning
<1>2. MaxSwaps = 0 => swap' = "none"
  BY DEF Detach, AInv, Owing
<1> QED
  BY <1>1, <1>2, ToldFew, NothingAsked

-----------------------------------------------------------------------------
(* The answers to a join are those to its calls.                           *)
LEMMA JoinAnswers ==
  ASSUME NEW rq \in [Calls -> Requests], NEW calls \in Seq(Calls)
  PROVE  LET r == [i \in DOMAIN calls |-> AnswerEntry(calls[i], rq[calls[i]])]
         IN  /\ AnswersOf(r, calls) /\ <<Joined(r)>> \in Seq(Tasks)
             /\ ~Has(Delivers, <<Joined(r)>>) /\ Has(Joins, <<Joined(r)>>)
             /\ ~Has(Stray(calls), <<Joined(r)>>)
<1> DEFINE r == [i \in DOMAIN calls |-> AnswerEntry(calls[i], rq[calls[i]])]
<1>1. r \in Seq(Answers)
  BY AnswersTo
<1>2. AnswersOf(r, calls)
  BY <1>1 DEF AnswersOf, AnswerEntry
<1>3. Joined(r) \in Tasks /\ Joined(r).does \in Joins /\ Joined(r).does \notin Delivers
  BY <1>1, JoinedIs
<1>4. Joined(r).does[2] = r
  BY DEF Joined, Task
<1> HIDE DEF r
<1>5. Joined(r).does \notin Stray(calls)
  BY <1>2, <1>4 DEF Stray
<1>6. /\ <<Joined(r)>> \in Seq(Tasks)
      /\ ~Has(Delivers, <<Joined(r)>>) /\ Has(Joins, <<Joined(r)>>)
      /\ ~Has(Stray(calls), <<Joined(r)>>)
  <2>1. \A S : Has(S, <<Joined(r)>>) <=> Joined(r).does \in S
    BY HasFew
  <2>2. <<Joined(r)>> \in Seq(Tasks)
    BY <1>3
  <2> QED
    BY <1>3, <1>5, <2>1, <2>2
<1> QED
  BY <1>2, <1>6 DEF r

(* Calls are settled, and their join with the last of them.                *)
LEMMA SettledAsks ==
  ASSUME IInv, AInv, AtRest, UNCHANGED agentVars, request' \in [Calls -> Requests],
         \A c \in Calls : request[c] # "none" => request'[c] # "none",
         answers' \subseteq answers, join' = JoinLeft(request'),
         NEW more \in Seq(Tasks), ~Has(Delivers, more), ~Has(Joins, more),
         After(<<>>, <<>>, JoinTasks(request') \o more),
         MaxSwaps = 0 => answers' = answers /\ swap' = "none"
  PROVE  AInv'
<1>1. /\ inbox = <<>> /\ InRest = <<>> /\ \A S : ~Has(S, micro)
  BY RestMeans
<1>2. /\ UNCHANGED <<said, step, phase>>
      /\ IsRunning' <=> IsRunning
      /\ Asking' <=> Asking
  BY DEF agentVars, IsRunning, Asking
<1>3. inbox' = <<>>
  BY <1>1, NoTasks DEF After
<1>4. PICK q \in Seq(Tasks) :
        /\ q = JoinTasks(request') /\ ~Has(Delivers, q)
        /\ join # <<>> => ~Has(Stray(join), q)
        /\ Has(Joins, q) => join # <<>> /\ join' = <<>>
        /\ join' # <<>> => join' = join /\ ~Answered(request', join)
        /\ join # <<>> /\ join' = <<>> => Has(Joins, q)
  <2>1. CASE join # <<>> /\ Answered(request', join)
    <3>1. join \in Seq(Calls)
      BY DEF IInv, StateOK
    <3>2. PICK r : r = [i \in DOMAIN join |-> AnswerEntry(join[i], request'[join[i]])]
      OBVIOUS
    <3>3. JoinTasks(request') = <<Joined(r)>> /\ join' = <<>>
      BY <2>1, <3>2 DEF JoinTasks, JoinLeft
    <3>4. /\ <<Joined(r)>> \in Seq(Tasks)
          /\ ~Has(Delivers, <<Joined(r)>>) /\ Has(Joins, <<Joined(r)>>)
          /\ ~Has(Stray(join), <<Joined(r)>>)
      BY <3>1, <3>2, JoinAnswers
    <3> QED
      BY <2>1, <3>3, <3>4
  <2>2. CASE join = <<>>
    <3>1. JoinTasks(request') = <<>> /\ join' = <<>>
      BY <2>2 DEF JoinTasks, JoinLeft
    <3> QED
      BY <2>2, <3>1, NoTasks
  <2>3. CASE join # <<>> /\ ~Answered(request', join)
    <3>1. JoinTasks(request') = <<>> /\ join' = join
      BY <2>3 DEF JoinTasks, JoinLeft
    <3> QED
      BY <2>3, <3>1, NoTasks
  <2> QED
    BY <2>1, <2>2, <2>3
<1>5. /\ q \o more \in Seq(Tasks)
      /\ \A S : Has(S, q \o more) <=> Has(S, q) \/ Has(S, more)
  BY <1>4, HasJoined, ConcatIndices
<1>6. \A S : S \subseteq Joins => (Has(S, micro') <=> Has(S, q))
  <2>1. After(<<>>, <<>>, q \o more) /\ ~Has(Delivers, q \o more)
    BY <1>4, <1>5
  <2>2. "idled" # "joined"
    OBVIOUS
  <2>3. \A S : S \subseteq Joins =>
          (Has(S, micro') <=> Has(S, micro) \/ Has(S, <<>>) \/ Has(S, q \o more))
    BY <1>5, <2>1, <2>2, NoTasks, JoinsLeft
  <2>4. \A S : S \subseteq Joins => ~Has(S, more)
    BY SubHas
  <2> QED
    BY <1>1, <1>5, <2>3, <2>4, NoTasks
<1>7. CallsKnown'
  <2>1. answers \subseteq Calls
    BY DEF IInv, StateOK
  <2>2. \A c : ~Called(c, inbox)
    BY <1>1 DEF Called
  <2> QED
    BY <1>2, <2>1, <2>2 DEF AInv, CallsKnown
<1>8. join # <<>> => Asking /\ join = Last(said).calls
  BY DEF AInv, Joining
<1>9. Joining'
  <2>1. ~Told(Wanted, inbox') /\ ~Told(CallNews, inbox')
    BY <1>3, ToldFew
  <2>2. Stray(Last(said).calls) \subseteq Joins
    BY DEF Stray
  <2>3. ~Has(Stray(Last(said).calls), micro')
    <3>1. join = <<>> => ~Has(Stray(Last(said).calls), q)
      BY <1>4, <2>2, SubHas
    <3> QED
      BY <1>4, <1>6, <1>8, <2>2, <3>1
  <2> QED
    BY <1>2, <1>4, <1>6, <1>8, <2>1, <2>3 DEF AInv, Joining
<1>10. Owing'
  <2>1. ~Told(Wanted, inbox) /\ ~Has(Joins, micro) /\ \A c : ~Called(c, inbox)
    BY <1>1, ToldFew DEF Called
  <2>2. MaxSwaps = 0 /\ Asking => join = Last(said).calls /\ ~Answered(request, join)
    BY <2>1 DEF AInv, Owing, Owed
  <2>3. MaxSwaps = 0 /\ Asking => join # <<>>
    BY <2>2 DEF Answered, ToSet
  <2>4. MaxSwaps = 0 /\ Asking => Owed'
    BY <1>2, <1>4, <1>6, <1>8, <2>3 DEF Owed
  <2> QED
    BY <1>2, <2>1, <2>4 DEF AInv, Owing
<1>11. SentIsAnswered'
  BY <1>2 DEF AInv, SentIsAnswered
<1> QED
  BY <1>7, <1>9, <1>10, <1>11 DEF AInv

(* loadJournal.                                                            *)
LEMMA LoadAsks ==
  ASSUME IInv, AInv, AtRest, MaxSwaps # 0, NEW entries, NEW id, LoadJournal(entries, id)
  PROVE  AInv'
<1>1. /\ request' = Abandoned(open) /\ answers' = {} /\ join' = JoinLeft(request')
      /\ After(<<>>, <<>>, JoinTasks(request') \o (IF active THEN <<>> ELSE <<Idled>>))
      /\ UNCHANGED agentVars
  BY DEF LoadJournal
<1>2. PICK more \in Seq(Tasks) : /\ more = (IF active THEN <<>> ELSE <<Idled>>)
                                 /\ ~Has(Delivers, more) /\ ~Has(Joins, more)
  <2>1. <<Idled>> \in Seq(Tasks) /\ ~Has(Delivers, <<Idled>>) /\ ~Has(Joins, <<Idled>>)
    <3>1. /\ Idled \in Tasks /\ Idled.does \notin Delivers
          /\ Idled.does \notin Joins
      BY IdledIs
    <3>2. <<Idled>> \in Seq(Tasks)
      BY <3>1
    <3> QED
      BY <3>1, <3>2, HasFew, Zenon
  <2> QED
    BY <2>1, NoTasks
<1>3. After(<<>>, <<>>, JoinTasks(request') \o more)
  BY <1>1, <1>2
<1>4. /\ request' \in [Calls -> Requests]
      /\ \A c \in Calls : request[c] # "none" => request'[c] # "none"
  BY <1>1, AbandonedIs DEF Abandoned
<1> QED
  BY <1>1, <1>2, <1>3, <1>4, SettledAsks

(* clear, load and rewind.                                                 *)
LEMMA SwapAsks ==
  ASSUME IInv, AInv, Clear \/ BeginSwap \/ Loaded \/ Rewound
  PROVE  AInv'
<1>1. AtRest /\ MaxSwaps # 0
  <2>1. swaps \in 0..MaxSwaps /\ MaxSwaps \in Nat
    BY SessionAssumption DEF IInv, StateOK
  <2>2. swap # "none" => MaxSwaps # 0
    BY DEF AInv, Owing
  <2>3. swaps < MaxSwaps => MaxSwaps # 0
    BY <2>1
  <2> QED
    BY <2>2, <2>3 DEF Clear, BeginSwap, Loaded, Rewound
<1>2. CASE Clear
  BY <1>1, <1>2, LoadAsks DEF Clear
<1>3. CASE After(<<>>, <<>>, <<>>) /\ UNCHANGED <<agentVars, toolVars>>
  <2>1. /\ UNCHANGED <<phase, said, step, join, request, answers>>
        /\ IsRunning' <=> IsRunning
    BY <1>3 DEF agentVars, toolVars, holderVars, IsRunning
  <2>2. AtRest \/ At("idled")
    BY <1>1
  <2>3. "idled" \notin {"deliver", "joined"}
    OBVIOUS
  <2> QED
    BY <1>1, <1>3, <2>1, <2>2, <2>3, NothingAsksNothing
<1>4. CASE Loaded
  BY <1>1, <1>3, <1>4, LoadAsks DEF Loaded
<1>5. CASE Rewound
  BY <1>1, <1>3, <1>5, LoadAsks DEF Rewound
<1>6. CASE BeginSwap
  BY <1>3, <1>6 DEF BeginSwap
<1> QED
  BY <1>2, <1>4, <1>5, <1>6

(* The work behind a call ends, or goes to the background.                 *)
LEMMA WorkAsks ==
  ASSUME IInv, AInv, NEW c \in Calls, WorkEnds(c) \/ WorkHandedOff(c)
  PROVE  AInv'
<1>1. PICK how \in Requests \ {"none"} : AtRest /\ Settle(c, how)
  BY DEF WorkEnds, WorkHandedOff, Requests
<1>2. UNCHANGED <<answers, swap, agentVars>>
  BY DEF WorkEnds, WorkHandedOff, userVars
<1>3. request \in [Calls -> Requests] /\ join \in Seq(Calls)
  BY DEF IInv, StateOK
<1>4. /\ request' \in [Calls -> Requests] /\ join' = JoinLeft(request')
      /\ \A d \in Calls : request[d] # "none" => request'[d] # "none"
      /\ After(<<>>, <<>>, JoinTasks(request'))
  BY <1>1, <1>3 DEF Settle
<1>5. After(<<>>, <<>>, JoinTasks(request') \o <<>>)
  <2>1. JoinTasks(request') \in Seq(Tasks)
    BY <1>3, <1>4, JoinTasksPlain DEF Plain
  <2>2. \A q \in Seq(Tasks) : q \o <<>> = q
    OBVIOUS
  <2> QED
    BY <1>4, <2>1, <2>2
<1>6. MaxSwaps = 0 => answers' = answers /\ swap' = "none"
  BY <1>2 DEF AInv, Owing
<1> QED
  BY <1>1, <1>2, <1>4, <1>5, <1>6, NoTasks, SettledAsks

(* Nothing happens.                                                        *)
LEMMA StutterAsks ==
  ASSUME IInv, AInv, UNCHANGED vars
  PROVE  AInv'
<1>1. /\ UNCHANGED <<said, step, join, request, answers, phase, swap, inbox, micro>>
      /\ IsRunning' <=> IsRunning
  BY DEF vars, sessionVars, toolVars, holderVars, userVars, agentVars, loopVars, IsRunning
<1>2. MaxSwaps = 0 => swap' = "none"
  BY <1>1 DEF AInv, Owing
<1>3. \A S : Has(S, micro') <=> Has(S, micro)
  BY <1>1 DEF Has
<1> QED
  BY <1>1, <1>2, <1>3, AskedAsBefore

-----------------------------------------------------------------------------
(* What an event in hand leaves in the stream.                             *)
LEMMA EventTaken ==
  ASSUME IInv, At("deliver"), NEW after, After(<<>>, <<>>, after)
  PROVE  /\ inbox # <<>> /\ inbox \in Seq(Events) /\ inbox' = Tail(inbox)
         /\ \A N : Told(N, inbox) <=> Head(inbox)[1] \in N \/ Told(N, inbox')
<1>1. inbox # <<>> /\ inbox \in Seq(Events)
  BY DeliversSomething DEF IInv, QueuesOK
<1>2. inbox' = Tail(inbox) \o <<>> /\ Tail(inbox) \in Seq(Events)
  BY <1>1, TailIndices DEF After, InRest
<1>3. inbox' = Tail(inbox)
  BY <1>2, NoTasks
<1> QED
  BY <1>1, <1>3, ToldTail

(* A call is started as its block comes in.                                *)
LEMMA CallAsks ==
  ASSUME IInv, AInv, OnCall
  PROVE  AInv'
<1>1. /\ At("deliver") /\ Head(inbox)[1] = "call" /\ After(<<>>, <<>>, <<>>)
      /\ StartCall(EvArg.call) /\ UNCHANGED <<userVars, agentVars>>
  BY DEF OnCall, Delivered, Ev
<1>2. PICK c \in Calls : c = EvArg.call /\ c = Head(inbox)[2].call
  BY <1>1, EventInHand DEF EvArg
<1>3. /\ inbox # <<>> /\ inbox \in Seq(Events) /\ inbox' = Tail(inbox)
      /\ \A N : Told(N, inbox) <=> Head(inbox)[1] \in N \/ Told(N, inbox')
  BY <1>1, EventTaken
<1>4. \A d : Called(d, inbox) <=> d = c \/ Called(d, inbox')
  BY <1>1, <1>2, <1>3, CalledTail
<1>5. /\ UNCHANGED <<said, step, phase, swap>>
      /\ IsRunning' <=> IsRunning
  BY <1>1 DEF userVars, agentVars, IsRunning
<1>6. IsRunning /\ phase = "streaming" /\ join = <<>> /\ ~Told(Wanted, inbox')
  <2>1. IsRunning /\ phase = "streaming"
    BY <1>1, <1>3 DEF AInv, Joining, CallNews
  <2> QED
    BY <1>3, <2>1 DEF AInv, Joining, Asking
<1>7. /\ join' = join /\ answers' = answers \cup {c} /\ request'[c] # "none"
      /\ \A d \in Calls : request[d] # "none" => request'[d] # "none"
  <2>1. request \in [Calls -> Requests] /\ answers \subseteq Calls
    BY DEF IInv, StateOK
  <2>2. CASE c \in answers
    BY <1>1, <1>2, <2>1, <2>2 DEF StartCall, toolVars, holderVars, AInv, CallsKnown
  <2>3. CASE c \notin answers
    BY <1>1, <1>2, <2>1, <2>3 DEF StartCall
  <2> QED
    BY <2>2, <2>3
<1>8. CallsKnown'
  <2>1. answers \subseteq Calls
    BY DEF IInv, StateOK
  <2> QED
    BY <1>4, <1>5, <1>7, <2>1 DEF AInv, CallsKnown
<1>9. Joining'
  BY <1>3, <1>5, <1>6, <1>7 DEF AInv, Joining, Asking
<1>10. Owing'
  BY <1>4, <1>5, <1>6, <1>7 DEF AInv, Owing, Asking
<1>11. SentIsAnswered'
  BY <1>5 DEF AInv, SentIsAnswered
<1> QED
  BY <1>8, <1>9, <1>10, <1>11 DEF AInv

(* A step waits for the results of its calls.                              *)
LEMMA NeedsAsks ==
  ASSUME IInv, AInv, OnNeedsResults
  PROVE  AInv'
<1>1. At("deliver") /\ Head(inbox)[1] = "needs results"
  BY DEF OnNeedsResults, Delivered, Ev
<1>2. Told(Wanted, inbox)
  <2>1. inbox # <<>> /\ inbox \in Seq(Events)
    BY <1>1, DeliversSomething DEF IInv, QueuesOK
  <2> QED
    BY <1>1, <2>1, ToldTail DEF Wanted
<1>3. /\ Asking /\ join = <<>> /\ ~Has(Joins, micro) /\ StepMade(said)
      /\ inbox = <<Event("needs results", Last(said))>>
      /\ ~Has(Stray(Last(said).calls), micro)
  BY <1>2 DEF AInv, Joining
<1>4. PICK e : e = Last(said)
  OBVIOUS
<1>5. EvArg = e /\ e \in Models /\ e.calls \in Seq(Calls)
  <2>1. Head(inbox)[2] = e
    <3>1. \A x : Head(<<x>>) = x
      OBVIOUS
    <3> QED
      <4>1. Head(inbox) = Event("needs results", e)
        BY <1>3, <1>4, <3>1, Zenon
      <4>2. Event("needs results", e)[2] = e
        BY EventsAre
      <4> QED
        BY <4>1, <4>2
  <2>2. e \in Models
    BY <1>3, <1>4 DEF StepMade
  <2> QED
    BY <2>1, <2>2, KindsOfEntries DEF EvArg
<1>6. InRest = <<>>
  <2>1. \A x : Tail(<<x>>) = <<>>
    OBVIOUS
  <2> QED
    BY <1>1, <1>3, <2>1 DEF InRest
<1>7. /\ UNCHANGED <<said, step, phase, swap, request, answers>>
      /\ IsRunning' <=> IsRunning
      /\ Asking' <=> Asking
  BY DEF OnNeedsResults, userVars, agentVars, IsRunning, Asking
<1>8. ASSUME NEW after \in Seq(Tasks), After(<<>>, <<>>, after), ~Has(Delivers, after),
             ~Has(Stray(e.calls), after),
             join' = <<>> \/ (join' = e.calls /\ ~Has(Joins, after)),
             ToSet(e.calls) \subseteq answers =>
               (join' = e.calls /\ ~Answered(request, e.calls)) \/ Has(Joins, after)
      PROVE  AInv'
  <2>1. /\ inbox' = InRest \o <<>>
        /\ \A S : S \subseteq Joins =>
               (Has(S, micro') <=> Has(S, micro) \/ Has(S, <<>>) \/ Has(S, after))
    BY <1>1, <1>8, NoTasks, JoinsLeft
  <2>2. inbox' = <<>>
    BY <1>6, <2>1, NoTasks
  <2>3. /\ ~Told(Wanted, inbox') /\ ~Told(CallNews, inbox')
        /\ \A c : ~Called(c, inbox')
    BY <2>2, ToldFew DEF Called
  <2>4. \A c : ~Called(c, inbox)
    <3>1. ~Told(CallNews, inbox)
      BY <1>3 DEF AInv, Joining, Asking
    <3> QED
      BY <3>1 DEF Told, Called, CallNews
  <2>5. Stray(e.calls) \subseteq Joins
    BY DEF Stray
  <2>6. /\ Has(Joins, micro') <=> Has(Joins, after)
        /\ ~Has(Stray(e.calls), micro')
    BY <1>3, <1>4, <1>8, <2>1, <2>5, NoTasks
  <2>7. CallsKnown'
    BY <1>7, <2>3, <2>4 DEF AInv, CallsKnown
  <2>8. Joining'
    BY <1>3, <1>4, <1>7, <1>8, <2>3, <2>6 DEF Joining
  <2>9. Owing'
    <3>1. MaxSwaps = 0 => ToSet(e.calls) \subseteq answers
      <4>1. ~(join = Last(said).calls /\ ~Answered(request, join))
        <5>1. Answered(request, <<>>)
          BY DEF Answered, ToSet
        <5> QED
          BY <1>3, <5>1
      <4> QED
        BY <1>3, <1>4, <4>1 DEF AInv, Owing, Owed
    <3>2. MaxSwaps = 0 => Owed'
      BY <1>4, <1>7, <1>8, <2>6, <3>1 DEF Owed
    <3> QED
      BY <1>3, <1>7, <3>2 DEF AInv, Owing, Asking
  <2>10. SentIsAnswered'
    BY <1>7 DEF AInv, SentIsAnswered
  <2> QED
    BY <2>7, <2>8, <2>9, <2>10 DEF AInv
<1>9. CASE ~(ToSet(e.calls) \subseteq answers)
  <2>1. join' = <<>> /\ After(<<>>, <<>>, <<>>)
    <3>1. join' = join /\ After(<<>>, <<>>, <<>>)
      BY <1>5, <1>9 DEF OnNeedsResults
    <3> QED
      BY <1>3, <3>1
  <2> QED
    BY <1>8, <1>9, <2>1, NoTasks
<1>10. CASE ToSet(e.calls) \subseteq answers /\ Answered(request, e.calls)
  <2>1. PICK r : r = [n \in DOMAIN e.calls |-> AnswerEntry(e.calls[n], request[e.calls[n]])]
    OBVIOUS
  <2>2. join' = <<>> /\ After(<<>>, <<>>, <<Joined(r)>>)
    BY <1>3, <1>5, <1>10, <2>1 DEF OnNeedsResults
  <2>3. /\ <<Joined(r)>> \in Seq(Tasks)
        /\ ~Has(Delivers, <<Joined(r)>>) /\ Has(Joins, <<Joined(r)>>)
        /\ ~Has(Stray(e.calls), <<Joined(r)>>)
    <3>1. request \in [Calls -> Requests]
      BY DEF IInv, StateOK
    <3> QED
      BY <1>5, <2>1, <3>1, JoinAnswers
  <2> QED
    BY <1>8, <2>2, <2>3
<1>11. CASE ToSet(e.calls) \subseteq answers /\ ~Answered(request, e.calls)
  <2>1. join' = e.calls /\ After(<<>>, <<>>, <<>>)
    BY <1>5, <1>11 DEF OnNeedsResults
  <2> QED
    BY <1>8, <1>11, <2>1, NoTasks
<1> QED
  BY <1>9, <1>10, <1>11

(* The answers go to the turn that asked for them.                         *)
LEMMA ResultsAsk ==
  ASSUME IInv, AInv, ResultsJoined
  PROVE  AInv'
<1>1. /\ At("joined") /\ ~At("deliver") /\ UNCHANGED <<join, request, answers, swap>>
      /\ InRest = inbox
  BY DEF ResultsJoined, At, InRest, sessionVars, toolVars, holderVars, userVars
<1>2. /\ Arg \in Seq(Answers) /\ Head(micro).does \in Joins /\ Arg = Head(micro).does[2]
      /\ \A S : Head(micro).does \in S => Has(S, micro)
  BY <1>1, HeadIs, HeadDoes, DoingNames DEF IInv
<1>3. inbox \in Seq(Events) /\ said \in Seq(TurnEntries)
  BY DEF IInv, QueuesOK, StateOK
<1>4. CASE ~Asking
  <2>1. ~(live /\ active /\ MaySubmit("tools"))
    BY <1>4 DEF MaySubmit, Asking
  <2>2. UNCHANGED agentVars /\ After(<<>>, <<>>, <<>>)
    BY <2>1 DEF ResultsJoined
  <2>3. inbox' = inbox
    BY <1>1, <1>3, <2>2, NoTasks DEF After
  <2>4. /\ UNCHANGED <<said, step, phase>>
        /\ IsRunning' <=> IsRunning
    BY <2>2 DEF agentVars, IsRunning
  <2>5. MaxSwaps = 0 => swap' = "none"
    BY <1>1 DEF AInv, Owing
  <2> QED
    BY <1>1, <1>4, <2>3, <2>4, <2>5, AskedAsBefore
<1>5. CASE Asking
  <2>1. live /\ active /\ MaySubmit("tools")
    BY <1>5 DEF MaySubmit, Asking, IInv, Agreement
  <2>2. PICK fold \in BOOLEAN :
          AgentTakesResults(Arg, fold) /\ After(<<>>, ResultEvents(Arg, fold), <<>>)
    BY <2>1 DEF ResultsJoined
  <2>3. /\ said' = said \o Arg /\ step' = <<>> /\ phase' \in {"prompt", "streaming"}
        /\ IsRunning
    BY <1>5, <2>2 DEF AgentTakesResults, StartStep, Asking
  <2>4. /\ StepMade(said) /\ join = <<>> /\ ~Told(Wanted, inbox) /\ ~Told(CallNews, inbox)
        /\ AnswersOf(Arg, Last(said).calls)
    <3>1. Has(Joins, micro)
      BY <1>2
    <3>2. ~Has(Stray(Last(said).calls), micro) /\ StepMade(said)
      BY <1>5 DEF AInv, Joining
    <3>3. join = <<>> /\ ~Told(Wanted, inbox) /\ ~Told(CallNews, inbox)
      BY <1>5, <3>1 DEF AInv, Joining, Asking
    <3>4. Head(micro).does \notin Stray(Last(said).calls)
      BY <1>2, <3>2
    <3> QED
      BY <1>2, <3>2, <3>3, <3>4 DEF Stray
  <2>5. PICK s \in Seq(TurnEntries), e \in Models :
          /\ said = Append(s, e) /\ WellFormed(s) /\ Distinct(e.calls)
          /\ \A c \in ToSet(e.calls) : ~SaidOf(c, s)
          /\ e = Last(said)
    BY <2>4 DEF StepMade
  <2>6. WellFormed(said')
    BY <2>3, <2>4, <2>5, StepAnswered
  <2>7. ~Told(Wanted, inbox') /\ ~Told(CallNews, inbox')
    <3>1. /\ ResultEvents(Arg, fold) \in Seq(Events)
          /\ ~Told(Wanted, ResultEvents(Arg, fold)) /\ ~Told(CallNews, ResultEvents(Arg, fold))
      BY <1>2, <1>3, TakenEvents
    <3>2. inbox' = inbox \o ResultEvents(Arg, fold)
      BY <1>1, <2>2 DEF After
    <3> QED
      BY <1>3, <2>4, <3>1, <3>2, ToldJoined
  <2>8. ASSUME NEW c \in Calls, SaidOf(c, said') PROVE SaidOf(c, said)
    <3>1. /\ \A i \in DOMAIN said : said'[i] = said[i]
          /\ \A i \in DOMAIN said' : i \in DOMAIN said \/ \E j \in DOMAIN Arg : said'[i] = Arg[j]
      <4>1. Arg \in Seq(TurnEntries)
        <5>1. Answers \subseteq TurnEntries
          BY DEF TurnEntries
        <5> QED
          BY <1>2, <5>1
      <4>2. Indices(said, Arg)
        BY <1>3, <4>1, ConcatIndices
      <4>3. \A i \in DOMAIN (said \o Arg) :
              i \in DOMAIN said \/ \E j \in DOMAIN Arg : (said \o Arg)[i] = Arg[j]
        <5> TAKE i \in DOMAIN (said \o Arg)
        <5>1. CASE i \in DOMAIN said
          BY <5>1
        <5>2. CASE i - Len(said) \in DOMAIN Arg /\ i = (i - Len(said)) + Len(said)
          <6>1. (said \o Arg)[(i - Len(said)) + Len(said)] = Arg[i - Len(said)]
            BY <4>2, <5>2 DEF Indices
          <6> QED
            BY <5>2, <6>1
        <5> QED
          BY <4>2, <5>1, <5>2 DEF Indices
      <4> QED
        BY <2>3, <4>2, <4>3 DEF Indices
    <3>2. PICK i \in DOMAIN said' : Asks(said'[i], c) \/ Replies(said'[i], c)
      BY <2>8 DEF SaidOf
    <3>3. CASE i \in DOMAIN said
      BY <3>1, <3>2, <3>3 DEF SaidOf
    <3>4. CASE \E j \in DOMAIN Arg : said'[i] = Arg[j]
      <4>1. PICK j \in DOMAIN Arg : said'[i] = Arg[j]
        BY <3>4
      <4>2. Arg[j] \in Answers /\ Arg[j].call = e.calls[j] /\ j \in DOMAIN e.calls
        BY <1>2, <2>4, <2>5 DEF AnswersOf
      <4>3. c \in ToSet(e.calls)
        <5>1. c = e.calls[j]
          BY <3>2, <4>1, <4>2, EntryAsks
        <5> QED
          BY <4>2, <5>1 DEF ToSet
      <4>4. Asks(e, c)
        BY <4>3, EntryAsks
      <4>5. Len(said) \in DOMAIN said /\ said[Len(said)] = e
        <5>1. \A x \in Models : x \in TurnEntries
          BY DEF TurnEntries
        <5>2. \A q \in Seq(TurnEntries), x \in TurnEntries :
                /\ Len(Append(q, x)) \in DOMAIN Append(q, x)
                /\ Append(q, x)[Len(Append(q, x))] = x
          OBVIOUS
        <5> QED
          BY <2>5, <5>1, <5>2
      <4> QED
        BY <4>4, <4>5 DEF SaidOf
    <3> QED
      BY <3>1, <3>3, <3>4
  <2>9. CallsKnown'
    <3>1. \A c : ~Called(c, inbox)
      BY <2>4 DEF Told, Called, CallNews
    <3>2. \A c \in Calls : SaidOf(c, said') => request'[c] # "none"
      BY <1>1, <2>3, <2>8, <3>1 DEF AInv, CallsKnown
    <3> QED
      BY <1>1, <2>3, <3>2, NothingSaid DEF AInv, CallsKnown, Distinct
  <2>10. Joining'
    BY <1>1, <2>3, <2>4, <2>7 DEF Joining, Asking
  <2>11. Owing'
    BY <1>1, <2>3, NothingSaid DEF AInv, Owing, Asking
  <2>12. SentIsAnswered'
    BY <2>6 DEF SentIsAnswered
  <2> QED
    BY <2>9, <2>10, <2>11, <2>12 DEF AInv
<1> QED
  BY <1>4, <1>5

(* One event in an empty stream.                                           *)
LEMMA OneEvent ==
  ASSUME IInv, AtRest, NEW e, NEW after, After(<<>>, <<e>>, after)
  PROVE  /\ inbox = <<>> /\ inbox' = <<e>>
         /\ \A N : Told(N, inbox') <=> e[1] \in N
         /\ \A c : Called(c, inbox') <=> e[1] = "call" /\ e[2].call = c
<1>1. inbox = <<>> /\ inbox' = <<>> \o <<e>>
  BY RestMeans DEF After
<1>2. inbox' = <<e>>
  <2>1. \A x : <<>> \o <<x>> = <<x>>
    OBVIOUS
  <2> QED
    BY <1>1, <2>1
<1>3. DOMAIN <<e>> = {1} /\ <<e>>[1] = e
  OBVIOUS
<1> QED
  BY <1>1, <1>2, <1>3 DEF Told, Called

(* A block of the stream names a call.                                     *)
LEMMA StreamCallAsks ==
  ASSUME IInv, AInv, NEW c \in Calls \ Asked, StreamCall(c),
         UNCHANGED <<sessionVars, deliveryVars>>
  PROVE  AInv'
<1>1. PICK e : e = Event("call", [id |-> Len(said) + 1, call |-> c])
  OBVIOUS
<1>2. e[1] = "call" /\ e[2].call = c
  BY <1>1 DEF Event
<1>3. /\ AtRest /\ IsRunning /\ phase = "streaming" /\ After(<<>>, <<e>>, <<>>)
      /\ step' = Append(step, c) /\ UNCHANGED <<said, phase, turn>>
      /\ UNCHANGED <<join, answers, request, swap>>
      /\ IsRunning' /\ ~Asking' /\ ~Asking
  BY <1>1 DEF StreamCall, IsRunning, Asking, sessionVars, toolVars, holderVars, userVars
<1>4. /\ inbox = <<>>
      /\ \A N : Told(N, inbox') <=> "call" \in N
      /\ \A d : Called(d, inbox') <=> d = c
  BY <1>2, <1>3, OneEvent
<1>5. \A d : ~Called(d, inbox)
  BY <1>4 DEF Called
<1>6. request[c] = "none" /\ c \notin ToSet(step)
  BY DEF Asked
<1>7. /\ ToSet(step') = ToSet(step) \cup {c}
      /\ Distinct(step')
  <2>1. step \in Seq(Calls)
    BY DEF IInv, StateOK
  <2>2. /\ DOMAIN step = 1..Len(step) /\ Len(step) \in Nat
        /\ DOMAIN step' = 1..(Len(step) + 1) /\ step'[Len(step) + 1] = c
        /\ \A i \in 1..Len(step) : step'[i] = step[i]
    BY <1>3, <2>1
  <2>3. \A i \in DOMAIN step' : i \in DOMAIN step \/ i = Len(step) + 1
    BY <2>2
  <2>4. \A i \in DOMAIN step : step[i] # c
    BY <1>6 DEF ToSet
  <2>5. Distinct(step)
    BY <1>3 DEF AInv, CallsKnown
  <2> QED
    BY <2>2, <2>3, <2>4, <2>5 DEF Distinct, ToSet
<1>8. CallsKnown'
  <2>1. \A d \in Calls : SaidOf(d, said) \/ d \in ToSet(step) => request[d] # "none"
    BY <1>3, <1>5 DEF AInv, CallsKnown
  <2>2. ~SaidOf(c, said)
    BY <1>6, <2>1
  <2>3. \A d \in ToSet(step) : ~SaidOf(d, said)
    BY <1>3 DEF AInv, CallsKnown
  <2>4. \A d \in answers : request[d] # "none"
    BY DEF AInv, CallsKnown
  <2> QED
    BY <1>3, <1>4, <1>7, <2>1, <2>2, <2>3, <2>4 DEF CallsKnown
<1>9. Joining'
  <2>1. join = <<>>
    BY <1>3 DEF AInv, Joining
  <2>2. ~Told(Wanted, inbox')
    <3>1. "call" \notin Wanted
      BY DEF Wanted
    <3> QED
      BY <1>4, <3>1, Zenon
  <2> QED
    BY <1>3, <2>1, <2>2 DEF Joining
<1>10. Owing'
  BY <1>3, <1>4, <1>5, <1>7 DEF AInv, Owing
<1>11. SentIsAnswered'
  BY <1>3 DEF AInv, SentIsAnswered
<1> QED
  BY <1>8, <1>9, <1>10, <1>11 DEF AInv

(* A step with calls ends.                                                 *)
LEMMA StepEndAsks ==
  ASSUME IInv, AInv, StreamEnd, step # <<>>, UNCHANGED <<sessionVars, deliveryVars>>
  PROVE  AInv'
<1>1. PICK entry : entry = ModelEntry(Len(said) + 1, step)
  OBVIOUS
<1>2. PICK e : e = Event("needs results", entry)
  OBVIOUS
<1>3. e[1] = "needs results" /\ entry.calls = step
  BY <1>1, <1>2 DEF Event, ModelEntry
<1>4. /\ AtRest /\ IsRunning /\ phase = "streaming" /\ phase' = "tools"
      /\ said' = Append(said, entry) /\ step' = <<>> /\ turn' = turn
      /\ After(<<>>, <<e>>, <<>>)
      /\ UNCHANGED <<join, answers, request, swap>>
  BY <1>1, <1>2 DEF StreamEnd, sessionVars, toolVars, holderVars, userVars
<1>5. IsRunning' /\ Asking' /\ ~Asking
  BY <1>4 DEF IsRunning, Asking
<1>6. /\ inbox = <<>> /\ inbox' = <<e>>
      /\ \A N : Told(N, inbox') <=> "needs results" \in N
      /\ \A c : ~Called(c, inbox')
  BY <1>3, <1>4, OneEvent
<1>7. \A c : ~Called(c, inbox)
  <2>1. inbox = <<>>
    BY <1>6
  <2> QED
    BY <2>1 DEF Called
<1>8. said \in Seq(TurnEntries) /\ step \in Seq(Calls) /\ Len(said) + 1 \in Nat
  BY DEF IInv, StateOK
<1>9. entry \in Models /\ entry \in TurnEntries
  BY <1>1, <1>8 DEF ModelEntry, Models, TurnEntries
<1>10. /\ said' # <<>> /\ Front(said') = said /\ Last(said') = entry
  <2>1. \A s \in Seq(TurnEntries), x \in TurnEntries :
          Append(s, x) # <<>> /\ Front(Append(s, x)) = s /\ Last(Append(s, x)) = x
    BY DEF Front, Last
  <2> QED
    BY <1>4, <1>8, <1>9, <2>1
<1>11. StepMade(said')
  <2>1. WellFormed(said)
    BY <1>4 DEF AInv, SentIsAnswered
  <2>2. Distinct(step) /\ \A c \in ToSet(step) : ~SaidOf(c, said)
    BY <1>4 DEF AInv, CallsKnown
  <2> QED
    BY <1>3, <1>4, <1>8, <1>9, <1>10, <2>1, <2>2 DEF StepMade
<1>12. \A S : S \subseteq Joins => ~Has(S, micro')
  <2>1. \A S : ~Has(S, micro)
    BY <1>4, RestMeans
  <2>2. <<e>> \in Seq(Events)
    <3>1. e \in Events
      BY <1>2, <1>9 DEF Event, Events
    <3> QED
      BY <3>1
  <2>3. AtRest \/ At("idled")
    BY <1>4
  <2>4. "idled" # "joined"
    OBVIOUS
  <2>5. \A S : S \subseteq Joins =>
               (Has(S, micro') <=> Has(S, micro) \/ Has(S, <<>>) \/ Has(S, <<>>))
    BY <1>4, <2>2, <2>3, <2>4, NoTasks, JoinsLeft
  <2> QED
    BY <2>1, <2>5, NoTasks
<1>13. CallsKnown'
  <2>1. \A c \in Calls : SaidOf(c, said') => SaidOf(c, said) \/ c \in ToSet(step)
    <3> TAKE c \in Calls
    <3> SUFFICES ASSUME SaidOf(c, said') PROVE SaidOf(c, said) \/ c \in ToSet(step)
      OBVIOUS
    <3>1. PICK i \in DOMAIN said' : Asks(said'[i], c) \/ Replies(said'[i], c)
      BY DEF SaidOf
    <3>2. \/ i \in DOMAIN said /\ said'[i] = said[i]
          \/ said'[i] = entry
      BY <1>4, <1>8
    <3>3. CASE said'[i] = entry
      <4>1. c \in ToSet(entry.calls)
        BY <1>9, <3>1, <3>3, EntryAsks
      <4> QED
        BY <1>3, <4>1
    <3> QED
      BY <3>1, <3>2, <3>3 DEF SaidOf
  <2>2. \A c \in Calls : SaidOf(c, said) \/ c \in ToSet(step) => request[c] # "none"
    BY <1>4, <1>7 DEF AInv, CallsKnown
  <2>3. \A c \in answers : request[c] # "none"
    BY DEF AInv, CallsKnown
  <2> QED
    BY <1>4, <2>1, <2>2, <2>3, NothingSaid DEF CallsKnown, Distinct
<1>14. Joining'
  <2>1. join = <<>>
    BY <1>5 DEF AInv, Joining
  <2>2. ~Told(CallNews, inbox')
    <3>1. "needs results" \notin CallNews
      BY DEF CallNews
    <3> QED
      BY <1>6, <3>1, Zenon
  <2>3. Stray(Last(said').calls) \subseteq Joins
    BY DEF Stray
  <2>4. inbox' = <<Event("needs results", Last(said'))>>
    BY <1>2, <1>6, <1>10
  <2> QED
    BY <1>4, <1>5, <1>11, <1>12, <2>1, <2>2, <2>3, <2>4 DEF Joining
<1>15. Owing'
  <2>1. MaxSwaps = 0 => ToSet(step) \subseteq answers
    BY <1>4, <1>7 DEF AInv, Owing
  <2>2. Told(Wanted, inbox')
    BY <1>6 DEF Wanted
  <2>3. MaxSwaps = 0 => Owed'
    BY <1>3, <1>4, <1>10, <2>1, <2>2 DEF Owed
  <2> QED
    BY <1>4, <2>3 DEF AInv, Owing
<1>16. SentIsAnswered'
  BY <1>4 DEF SentIsAnswered
<1> QED
  BY <1>13, <1>14, <1>15, <1>16 DEF AInv

(* The answer ends, and the turn with it.                                  *)
LEMMA AnswerEndAsks ==
  ASSUME IInv, AInv, StreamEnd, step = <<>>, UNCHANGED <<sessionVars, deliveryVars>>
  PROVE  AInv'
<1>1. PICK e : e = Event("completed", said')
  OBVIOUS
<1>2. e[1] = "completed"
  BY <1>1 DEF Event
<1>3. /\ AtRest /\ ~Asking /\ ~IsRunning' /\ After(<<>>, <<e>>, Teardown)
      /\ UNCHANGED <<join, answers, request, swap>>
  BY <1>1 DEF StreamEnd, Asking, IsRunning, sessionVars, toolVars, holderVars, userVars
<1>4. \A N : Told(N, inbox') <=> "completed" \in N
  BY <1>2, <1>3, OneEvent
<1>5. ~Told(Wanted, inbox') /\ ~Told(CallNews, inbox')
  <2>1. "completed" \notin Wanted /\ "completed" \notin CallNews
    BY DEF Wanted, CallNews
  <2> QED
    BY <1>4, <2>1, Zenon
<1>6. join' = <<>> /\ \A c \in answers' : request'[c] # "none"
  BY <1>3 DEF AInv, Joining, CallsKnown
<1>7. MaxSwaps = 0 => swap' = "none"
  BY <1>3 DEF AInv, Owing
<1> QED
  BY <1>3, <1>5, <1>6, <1>7, NothingAsked

(* A fold says nothing of any call.                                        *)
LEMMA FoldSays ==
  ASSUME said \in Seq(TurnEntries), said' = Append(said, SummaryEntry)
  PROVE  \A c : SaidOf(c, said') <=> SaidOf(c, said)
<1>1. /\ \A i \in DOMAIN said : i \in DOMAIN said' /\ said'[i] = said[i]
      /\ \A i \in DOMAIN said' : i \in DOMAIN said \/ said'[i] = SummaryEntry
  OBVIOUS
<1> QED
  BY <1>1, EntryAsks DEF SaidOf

(* The summary is in.                                                      *)
LEMMA SummaryAsks ==
  ASSUME IInv, AInv, SummaryEnd, UNCHANGED <<sessionVars, deliveryVars>>
  PROVE  AInv'
<1>1. /\ AtRest /\ IsRunning /\ phase = "summarizing" /\ ~Asking
      /\ said' = Append(said, SummaryEntry) /\ step' = <<>> /\ turn' = turn
      /\ phase' \in {"streaming", "over"} /\ ~Asking'
      /\ UNCHANGED <<join, answers, request, swap>>
  BY DEF SummaryEnd, StartStep, Asking, IsRunning, sessionVars, toolVars, holderVars, userVars
<1>2. said \in Seq(TurnEntries) /\ said' \in Seq(TurnEntries)
  <2>1. SummaryEntry \in TurnEntries
    BY DEF TurnEntries
  <2> QED
    BY <1>1, <2>1 DEF IInv, StateOK
<1>3. ~Told(Wanted, inbox') /\ ~Told(CallNews, inbox')
  <2>1. PICK a, b, c \in Events : /\ a = Event("folded", <<>>) /\ b = Event("updated", said')
                                 /\ c = Event("completed", said')
                                 /\ a[1] = "folded" /\ b[1] = "updated" /\ c[1] = "completed"
    <3>1. \A n, x : Event(n, x)[1] = n
      BY EventsAre
    <3>2. /\ Event("folded", <<>>) \in Events /\ Event("updated", said') \in Events
          /\ Event("completed", said') \in Events
      BY <1>2, EventsAre
    <3> QED
      BY <3>1, <3>2
  <2>2. InRest = <<>>
    BY <1>1, RestMeans
  <2>3. PICK events : /\ inbox' = InRest \o events
                      /\ events = <<a, b>> \/ events = Append(<<a, b>>, c)
    BY <1>1, <2>1 DEF SummaryEnd, After
  <2>4. /\ events \in Seq(Events)
        /\ \A i \in DOMAIN events : events[i] \in {a, b, c}
    <3>1. <<a, b>> \in Seq(Events) /\ \A i \in DOMAIN <<a, b>> : <<a, b>>[i] \in {a, b}
      OBVIOUS
    <3>2. \A q \in Seq(Events) :
            /\ Append(q, c) \in Seq(Events)
            /\ \A i \in DOMAIN Append(q, c) :
                 (i \in DOMAIN q /\ Append(q, c)[i] = q[i]) \/ Append(q, c)[i] = c
      OBVIOUS
    <3> QED
      BY <2>3, <3>1, <3>2
  <2>5. inbox' = events
    <3>1. \A s \in Seq(Events) : <<>> \o s = s
      OBVIOUS
    <3> QED
      BY <2>2, <2>3, <2>4, <3>1
  <2>6. \A n \in {"folded", "updated", "completed"} : n \notin Wanted /\ n \notin CallNews
    BY DEF Wanted, CallNews
  <2> QED
    BY <2>1, <2>4, <2>5, <2>6 DEF Told
<1>4. \A c : ~Called(c, inbox)
  <2>1. inbox = <<>>
    BY <1>1, RestMeans
  <2> QED
    BY <2>1 DEF Called
<1>5. \A c : SaidOf(c, said') <=> SaidOf(c, said)
  BY <1>1, <1>2, FoldSays
<1>6. CallsKnown'
  <2>1. \A c \in Calls : SaidOf(c, said) => request[c] # "none"
    BY <1>1, <1>4 DEF AInv, CallsKnown
  <2>2. \A c \in answers : request[c] # "none"
    BY DEF AInv, CallsKnown
  <2> QED
    BY <1>1, <1>5, <2>1, <2>2, NothingSaid DEF CallsKnown, Distinct
<1>7. Joining'
  <2>1. join = <<>>
    BY <1>1 DEF AInv, Joining
  <2> QED
    BY <1>1, <1>3, <2>1 DEF Joining
<1>8. Owing'
  BY <1>1, NothingSaid DEF AInv, Owing
<1>9. SentIsAnswered'
  <2>1. WellFormed(said)
    BY <1>1 DEF AInv, SentIsAnswered
  <2>2. WellFormed(said')
    BY <1>1, <1>2, <2>1, SummaryAdded
  <2> QED
    BY <2>2 DEF SentIsAnswered
<1> QED
  BY <1>6, <1>7, <1>8, <1>9 DEF AInv

-----------------------------------------------------------------------------
(* Nothing is asked at first.                                              *)
LEMMA InitAsks == Init => AInv
<1> SUFFICES ASSUME Init PROVE AInv
  OBVIOUS
<1>1. /\ inbox = <<>> /\ join = <<>> /\ answers = {} /\ ~IsRunning /\ swap = "none"
  BY DEF Init, AgentInit, LoopInit, IsRunning
<1>2. ~Told(Wanted, inbox) /\ ~Told(CallNews, inbox)
  BY <1>1, ToldFew
<1> QED
  BY <1>1, <1>2 DEF AInv, CallsKnown, Joining, Owing, Asking, SentIsAnswered

(* Every step of the program keeps what is asked in order.                 *)
LEMMA NextAsks == IInv /\ AInv /\ [Next]_vars => AInv'
<1> SUFFICES ASSUME IInv, AInv, [Next]_vars PROVE AInv'
  OBVIOUS
<1>1. CASE Microtask
  <2>1. CASE Hop /\ UNCHANGED <<sessionVars, agentVars, deliveryVars>>
    BY <2>1, HopAsks
  <2>2. CASE Tear /\ UNCHANGED <<sessionVars, deliveryVars>>
    BY <2>2, TearAsks
  <2>3. CASE Resumed \/ IdleSeen
    BY <2>3, StartersAsk
  <2>4. CASE RunAnswered
    BY <2>4, RanAsks
  <2>5. CASE DeliveryAnswered
    BY <2>5, VerdictAsks
  <2>6. CASE ResultsJoined
    BY <2>6, ResultsAsk
  <2>7. CASE EventIgnored
    BY <2>7, IgnoredAsks
  <2>8. CASE OnTranscript \/ OnFolded \/ OnAnswer \/ OnNeedsPrompt
    BY <2>8, NewsAsks
  <2>9. CASE OnCall
    BY <2>9, CallAsks
  <2>10. CASE OnNeedsResults
    BY <2>10, NeedsAsks
  <2>11. CASE OnEnd
    BY <2>11, EndAsks
  <2> QED
    BY <1>1, <2>1, <2>2, <2>3, <2>4, <2>5, <2>6, <2>7, <2>8, <2>9, <2>10, <2>11 DEF Microtask
<1>2. CASE User
  BY <1>2, StartersAsk, CancelAsks, SwapAsks DEF User
<1>3. CASE Network
  <2>1. UNCHANGED <<sessionVars, deliveryVars>>
    BY <1>3 DEF Network
  <2>2. CASE \E c \in Calls \ Asked : StreamCall(c)
    BY <2>1, <2>2, StreamCallAsks
  <2>3. CASE StreamEnd
    BY <2>1, <2>3, StepEndAsks, AnswerEndAsks
  <2>4. CASE StreamFail
    BY <2>1, <2>4, FailAsks
  <2>5. CASE SummaryEnd
    BY <2>1, <2>5, SummaryAsks
  <2> QED
    BY <1>3, <2>2, <2>3, <2>4, <2>5 DEF Network
<1>4. CASE Attach
  BY <1>4, StartersAsk
<1>5. CASE Detach
  BY <1>5, DetachAsks
<1>6. CASE \E c \in Calls : Work(c)
  BY <1>6, StartersAsk, WorkAsks DEF Work
<1>7. CASE UNCHANGED vars
  BY <1>7, StutterAsks
<1> QED
  BY <1>1, <1>2, <1>3, <1>4, <1>5, <1>6, <1>7 DEF Next

(* Every state of the program satisfies what AInv says of the calls.       *)
THEOREM AskInvariance == Spec => []AInv
<1>1. Init => AInv
  BY InitAsks
<1>2. IInv /\ AInv /\ [Next]_vars => AInv'
  BY NextAsks
<1> QED
  BY <1>1, <1>2, SessionInvariance, PTL DEF Spec

(* The model is asked for more only when every call so far has its answer. *)
THEOREM SentAnswered == Spec => []SentIsAnswered
<1>1. AInv => SentIsAnswered
  BY DEF AInv
<1> QED
  BY <1>1, AskInvariance, PTL

(* At rest, a join that is owed has begun.                                 *)
LEMMA AwaitedAtRest == MaxSwaps = 0 /\ IInv /\ AInv => ToolsAwaited
<1> SUFFICES ASSUME MaxSwaps = 0, IInv, AInv, AtRest, Asking
             PROVE  join = Last(said).calls /\ ~Answered(request, join)
  BY DEF ToolsAwaited, Asking
<1>1. inbox = <<>> /\ ~Has(Joins, micro)
  BY RestMeans
<1>2. ~Told(Wanted, inbox)
  BY <1>1, ToldFew
<1> QED
  BY <1>1, <1>2 DEF AInv, Owing, Owed

(* A runtime that waits for results has a session that joins their calls,  *)
(* where the history is not swapped under it.                              *)
THEOREM ToolsJoined == MaxSwaps = 0 => (Spec => []ToolsAwaited)
<1>1. SUFFICES ASSUME MaxSwaps = 0 PROVE Spec => []ToolsAwaited
  OBVIOUS
<1>2. IInv /\ AInv => ToolsAwaited
  BY <1>1, AwaitedAtRest
<1> QED
  BY <1>2, SessionInvariance, AskInvariance, PTL
=============================================================================
