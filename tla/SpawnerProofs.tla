--------------------------- MODULE SpawnerProofs ----------------------------
(***************************************************************************)
(* A supervised spawn, for a grant program and frames of any size, with    *)
(* any call failing and any process dying: what the target inherits, that  *)
(* it never runs unconfined when confinement was asked, and that what the  *)
(* application is told of its end and of its outputs is true; and that the *)
(* helper reads its command line as the application meant it.              *)
(***************************************************************************)
EXTENDS Spawner, MCFunctions, WellFoundedInduction, TLAPS

-----------------------------------------------------------------------------
(* The command line.                                                       *)

\* The naturals are well ordered.
LEMMA LeastOf ==
    ASSUME NEW S, S \subseteq Nat, S # {}
    PROVE  \E m \in S : \A k \in S : m <= k
<1>1. PICK x \in S : \A y \in S : ~(<<y, x>> \in OpToRel(<, Nat))
  <2>1. IsWellFoundedOn(OpToRel(<, Nat), Nat)
    BY NatLessThanWellFounded
  <2> QED BY <2>1, WFMin
<1>2. \A y \in S : ~(y < x)
  BY <1>1 DEF OpToRel
<1> QED BY <1>2

\* Two rows, one after the other.
LEMMA InARow ==
    ASSUME NEW T, NEW P \in Seq(T), NEW Q \in Seq(T)
    PROVE  /\ P \o Q \in Seq(T) /\ Len(P \o Q) = Len(P) + Len(Q)
           /\ \A k \in 1..Len(P) : (P \o Q)[k] = P[k]
           /\ \A k \in 1..Len(Q) : (P \o Q)[Len(P) + k] = Q[k]
OBVIOUS

\* A word's first occurrence.
LEMMA PositionIs ==
    ASSUME NEW W, NEW words \in Seq(W), NEW word
    PROVE  \/ /\ Position(words, word) = 0
              /\ \A k \in 1..Len(words) : words[k] # word
           \/ /\ Position(words, word) \in 1..Len(words)
              /\ words[Position(words, word)] = word
              /\ \A k \in 1..Len(words) : words[k] = word => Position(words, word) <= k
<1> DEFINE I == {k \in 1..Len(words) : words[k] = word}
<1>1. Position(words, word) = IF I # {} THEN Min(I) ELSE 0
  BY DEF Position, SelectInSeq
<1>2. CASE I = {}
  BY <1>1, <1>2
<1>3. CASE I # {}
  <2>1. I \subseteq Nat
    OBVIOUS
  <2> HIDE DEF I
  <2>2. \E m \in I : \A k \in I : m <= k
    BY <1>3, <2>1, LeastOf
  <2>3. Min(I) \in I /\ \A k \in I : Min(I) <= k
    BY <2>2 DEF Min
  <2> QED BY <1>1, <1>3, <2>3 DEF I
<1> QED BY <1>2, <1>3

LEMMA PositionAt ==
    ASSUME NEW W, NEW words \in Seq(W), NEW word, NEW at \in 1..Len(words), words[at] = word,
           \A k \in 1..Len(words) : k < at => words[k] # word
    PROVE  Position(words, word) = at
<1>1. Position(words, word) \in 1..Len(words) /\ words[Position(words, word)] = word
        /\ Position(words, word) <= at
  BY PositionIs
<1> QED BY <1>1

(***************************************************************************)
(* "a malformed confinement request is a usage error, never a silently     *)
(* unconfined spawn" (main.rs:118): of any command line, however long, if  *)
(* the helper goes on without confinement then no flag stands before the   *)
(* separator.                                                              *)
(***************************************************************************)
THEOREM NoFlagIgnored ==
    ASSUME NEW W, NEW args \in Seq(W), ParseArgs(args).kind # "usage",
           ParseArgs(args).confine = "none", NEW k \in 1..Len(args), args[k] = "--confine-fd"
    PROVE  \E j \in 1..k : args[j] = "--"
<1> DEFINE sep == Position(args, "--")
           front == SubSeq(args, 1, sep - 1)
           rest == SubSeq(args, sep + 1, Len(args))
           pos == Position(front, "--confine-fd")
           split == ExtractConfineFd(front)
<1>1. ParseArgs(args) # Usage
  BY DEF Usage
<1>2. sep # 0 /\ split # Usage /\ ParseArgs(args).confine = split.confine
  <2>1. sep # 0 /\ rest # <<>> /\ split # Usage
    BY <1>1 DEF ParseArgs
  <2> DEFINE h == split.head
  <2>2. \/ ParseArgs(args) = [kind |-> "terminal", status |-> h[3], slave |-> h[4],
                              confine |-> split.confine, target |-> rest]
        \/ ParseArgs(args) = [kind |-> "piped", status |-> h[3], in |-> h[4], out |-> h[5],
                              err |-> h[6], confine |-> split.confine, target |-> rest]
    BY <1>1, <2>1 DEF ParseArgs
  <2> HIDE DEF h, split, rest, sep
  <2> QED BY <2>1, <2>2
<1>3. sep \in 1..Len(args) /\ args[sep] = "--"
  BY <1>2, PositionIs
<1> HIDE DEF sep
<1>4. front \in Seq(W) /\ Len(front) = sep - 1 /\ \A l \in 1..sep - 1 : front[l] = args[l]
  BY <1>3
<1> HIDE DEF front
<1>5. pos = 0
  <2>1. pos # 0 /\ split # Usage => split.confine = front[pos + 1] /\ front[pos + 1] \in Numbers
    BY DEF ExtractConfineFd
  <2> QED BY <1>2, <2>1, NumbersAssumption DEF NumbersAssumption
<1>6. \A l \in 1..sep - 1 : args[l] # "--confine-fd"
  BY <1>4, <1>5, PositionIs
<1>7. sep <= k
  BY <1>3, <1>6
<1> QED BY <1>3, <1>7

\* What the application asks for: the words a target may be called with are
\* any at all, and a terminal has a name of its own.
InvocationsOver(words) ==
    [kind : {"terminal"}, status : Numbers, slave : words \ {"--", "--confine-fd"},
     confine : Numbers \cup {"none"}, target : Seq(words) \ {<<>>}]
      \cup [kind : {"piped"}, status : Numbers, in : Numbers, out : Numbers, err : Numbers,
            confine : Numbers \cup {"none"}, target : Seq(words) \ {<<>>}]

\* Everything before the first separator, and everything after it.
LEMMA SplitAtSeparator ==
    ASSUME NEW W, "--" \in W, NEW own \in Seq(W), NEW target \in Seq(W),
           \A k \in 1..Len(own) : own[k] # "--"
    PROVE  /\ Position(own \o <<"--">> \o target, "--") = Len(own) + 1
           /\ SubSeq(own \o <<"--">> \o target, 1, Len(own)) = own
           /\ SubSeq(own \o <<"--">> \o target, Len(own) + 2, Len(own \o <<"--">> \o target)) = target
<1> DEFINE args == own \o <<"--">> \o target
<1>1. Len(own) \in Nat /\ Len(target) \in Nat
  OBVIOUS
<1> DEFINE sep == <<"--">>
<1>2. sep \in Seq(W) /\ Len(sep) = 1 /\ sep[1] = "--"
  OBVIOUS
<1> HIDE DEF sep
<1>3. /\ own \o sep \in Seq(W) /\ Len(own \o sep) = Len(own) + 1
      /\ \A k \in 1..Len(own) : (own \o sep)[k] = own[k]
      /\ (own \o sep)[Len(own) + 1] = "--"
  <2>1. /\ own \o sep \in Seq(W) /\ Len(own \o sep) = Len(own) + Len(sep)
        /\ \A k \in 1..Len(own) : (own \o sep)[k] = own[k]
        /\ \A k \in 1..Len(sep) : (own \o sep)[Len(own) + k] = sep[k]
    <3>1. own \in Seq(W) /\ sep \in Seq(W)
      BY <1>2
    <3> QED BY <3>1, InARow
  <2> QED BY <1>1, <1>2, <2>1
<1>4. args = (own \o sep) \o target
  BY DEF sep
<1> HIDE DEF args
<1>5. /\ args \in Seq(W) /\ Len(args) = Len(own) + 1 + Len(target)
      /\ \A k \in 1..Len(own) + 1 : args[k] = (own \o sep)[k]
      /\ \A k \in 1..Len(target) : args[Len(own) + 1 + k] = target[k]
  <2> DEFINE front == own \o sep
  <2>1. front \in Seq(W) /\ Len(front) = Len(own) + 1 /\ args = front \o target
    BY <1>3, <1>4
  <2> HIDE DEF front
  <2>2. /\ args \in Seq(W) /\ Len(args) = Len(front) + Len(target)
        /\ \A k \in 1..Len(front) : args[k] = front[k]
        /\ \A k \in 1..Len(target) : args[Len(front) + k] = target[k]
    <3>1. front \in Seq(W) /\ target \in Seq(W)
      BY <2>1
    <3>2. /\ front \o target \in Seq(W) /\ Len(front \o target) = Len(front) + Len(target)
          /\ \A k \in 1..Len(front) : (front \o target)[k] = front[k]
          /\ \A k \in 1..Len(target) : (front \o target)[Len(front) + k] = target[k]
      BY <3>1, InARow
    <3> QED BY <2>1, <3>2
  <2> QED BY <2>1, <2>2 DEF front
<1>6. /\ \A k \in 1..Len(own) : args[k] = own[k]
      /\ args[Len(own) + 1] = "--"
  BY <1>1, <1>3, <1>5
<1>7. Position(args, "--") = Len(own) + 1
  <2>1. /\ Len(own) + 1 \in 1..Len(args)
        /\ \A k \in 1..Len(args) : k < Len(own) + 1 => k \in 1..Len(own)
    BY <1>1, <1>5
  <2>2. \A k \in 1..Len(args) : k < Len(own) + 1 => args[k] # "--"
    BY <1>6, <2>1
  <2>3. /\ args \in Seq(W) /\ Len(own) + 1 \in 1..Len(args) /\ args[Len(own) + 1] = "--"
    BY <1>5, <1>6, <2>1
  <2> QED BY <2>2, <2>3, PositionAt
<1>8. SubSeq(args, 1, Len(own)) = own
  <2>1. SubSeq(args, 1, Len(own)) = [k \in 1..Len(own) |-> args[k]]
    BY <1>1, <1>5
  <2>2. own = [k \in 1..Len(own) |-> own[k]]
    OBVIOUS
  <2> QED BY <1>6, <2>1, <2>2
<1>9. SubSeq(args, Len(own) + 2, Len(args)) = target
  <2>1. SubSeq(args, Len(own) + 2, Len(args)) = [k \in 1..Len(target) |-> args[Len(own) + 1 + k]]
    BY <1>1, <1>5
  <2>2. target = [k \in 1..Len(target) |-> target[k]]
    OBVIOUS
  <2> QED BY <1>5, <2>1, <2>2
<1> QED BY <1>7, <1>8, <1>9 DEF args

\* The flag and its number leave the head as it was without them.
LEMMA FlagLeaves ==
    ASSUME NEW W, "--confine-fd" \in W, NEW own \in Seq(W),
           \A k \in 1..Len(own) : own[k] # "--confine-fd"
    PROVE  /\ ExtractConfineFd(own) = [kind |-> "head", confine |-> "none", head |-> own]
           /\ \A fd \in Numbers \cap W :
                ExtractConfineFd(own \o <<"--confine-fd", fd>>)
                  = [kind |-> "head", confine |-> fd, head |-> own]
<1>1. ExtractConfineFd(own) = [kind |-> "head", confine |-> "none", head |-> own]
  <2>1. Position(own, "--confine-fd") = 0
    BY PositionIs
  <2> QED BY <2>1 DEF ExtractConfineFd
<1>2. ASSUME NEW fd \in Numbers \cap W
      PROVE  ExtractConfineFd(own \o <<"--confine-fd", fd>>)
               = [kind |-> "head", confine |-> fd, head |-> own]
  <2> DEFINE flag == <<"--confine-fd", fd>>
             words == own \o flag
             n == Len(own)
  <2>1. flag \in Seq(W) /\ Len(flag) = 2 /\ flag[1] = "--confine-fd" /\ flag[2] = fd /\ n \in Nat
    OBVIOUS
  <2> HIDE DEF flag
  <2>2. /\ words \in Seq(W) /\ Len(words) = n + 2
        /\ \A k \in 1..n : words[k] = own[k]
        /\ words[n + 1] = "--confine-fd" /\ words[n + 2] = fd
    <3>1. /\ words \in Seq(W) /\ Len(words) = n + 2
          /\ \A k \in 1..n : words[k] = own[k]
          /\ \A k \in 1..2 : words[n + k] = flag[k]
      <4>1. own \in Seq(W) /\ flag \in Seq(W)
        BY <2>1
      <4>2. /\ own \o flag \in Seq(W) /\ Len(own \o flag) = Len(own) + Len(flag)
            /\ \A k \in 1..Len(own) : (own \o flag)[k] = own[k]
            /\ \A k \in 1..Len(flag) : (own \o flag)[Len(own) + k] = flag[k]
        BY <4>1, InARow
      <4> QED BY <2>1, <4>2
    <3> QED BY <2>1, <3>1
  <2> HIDE DEF words
  <2>3. Position(words, "--confine-fd") = n + 1
    <3>1. n + 1 \in 1..Len(words) /\ \A k \in 1..Len(words) : k < n + 1 => k \in 1..n
      BY <2>1, <2>2
    <3>2. \A k \in 1..Len(words) : k < n + 1 => words[k] # "--confine-fd"
      BY <2>2, <3>1
    <3> QED BY <2>2, <3>1, <3>2, PositionAt
  <2>4. SubSeq(words, 1, n) \o SubSeq(words, n + 3, n + 2) = own
    <3>1. SubSeq(words, 1, n) = [k \in 1..n |-> words[k]] /\ SubSeq(words, n + 3, n + 2) = <<>>
      BY <2>1, <2>2
    <3>2. own = [k \in 1..n |-> own[k]]
      OBVIOUS
    <3>3. SubSeq(words, 1, n) = own
      BY <2>2, <3>1, <3>2
    <3>4. own \o <<>> = own
      OBVIOUS
    <3> QED BY <3>1, <3>3, <3>4
  <2>5. /\ (n + 1) + 1 = n + 2 /\ (n + 1) - 1 = n /\ (n + 1) + 2 = n + 3 /\ n + 1 # 0 /\ n + 2 <= n + 2
    BY <2>1
  <2>6. ExtractConfineFd(words) = [kind |-> "head", confine |-> fd, head |-> own]
    BY <2>2, <2>3, <2>4, <2>5 DEF ExtractConfineFd
  <2> QED BY <2>6 DEF words, flag
<1> QED BY <1>1, <1>2

(***************************************************************************)
(* The helper does what the application asks (supervised_spawn.dart,       *)
(* main.rs:75-160): whatever words the target's command line has, a        *)
(* separator and a flag of the helper's own among them, the command line   *)
(* built for an invocation is read as that invocation.                     *)
(***************************************************************************)
THEOREM InvocationComesThrough ==
    ASSUME NEW words, NEW inv \in InvocationsOver(words)
    PROVE  ParseArgs(Argv(inv)) = inv
<1> DEFINE W == words \cup Numbers \cup {"spawner", "terminal", "piped", "--", "--confine-fd"}
           own == <<"spawner", inv.kind, inv.status>>
                    \o (IF inv.kind = "terminal" THEN <<inv.slave>> ELSE <<inv.in, inv.out, inv.err>>)
           flag == IF inv.confine = "none" THEN <<>> ELSE <<"--confine-fd", inv.confine>>
           head == own \o flag
           args == Argv(inv)
<1>1. /\ inv.kind \in {"terminal", "piped"} /\ inv.status \in Numbers
      /\ inv.confine \in Numbers \cup {"none"} /\ inv.target \in Seq(words) /\ inv.target # <<>>
      /\ inv.kind = "terminal" => inv.slave \in words \ {"--", "--confine-fd"}
      /\ inv.kind = "piped" => inv.in \in Numbers /\ inv.out \in Numbers /\ inv.err \in Numbers
  BY DEF InvocationsOver
<1>2. args = own \o flag \o <<"--">> \o inv.target
  BY DEF Argv
<1>3. \A x \in Numbers : x \in W /\ x # "--" /\ x # "--confine-fd"
  BY NumbersAssumption DEF NumbersAssumption
<1>4. /\ "spawner" \in W /\ "terminal" \in W /\ "piped" \in W /\ "--" \in W /\ "--confine-fd" \in W
      /\ words \subseteq W
  OBVIOUS
<1> HIDE DEF W
<1>5. \/ /\ inv.kind = "terminal" /\ own \in Seq(W) /\ Len(own) = 4
         /\ own[1] = "spawner" /\ own[2] = "terminal" /\ own[3] = inv.status /\ own[4] = inv.slave
      \/ /\ inv.kind = "piped" /\ own \in Seq(W) /\ Len(own) = 6
         /\ own[1] = "spawner" /\ own[2] = "piped" /\ own[3] = inv.status /\ own[4] = inv.in
         /\ own[5] = inv.out /\ own[6] = inv.err
  <2>1. CASE inv.kind = "terminal"
    <3> DEFINE P == <<"spawner", "terminal", inv.status>>
               Q == <<inv.slave>>
    <3>1. own = P \o Q
      BY <2>1
    <3>2. inv.status \in W /\ inv.slave \in W
      BY <1>1, <1>3, <1>4, <2>1
    <3>3. /\ P \in Seq(W) /\ Len(P) = 3 /\ P[1] = "spawner" /\ P[2] = "terminal" /\ P[3] = inv.status
          /\ Q \in Seq(W) /\ Len(Q) = 1 /\ Q[1] = inv.slave
      BY <1>4, <3>2
    <3> HIDE DEF own, P, Q
    <3>4. /\ P \o Q \in Seq(W) /\ Len(P \o Q) = Len(P) + Len(Q)
          /\ \A k \in 1..Len(P) : (P \o Q)[k] = P[k]
          /\ \A k \in 1..Len(Q) : (P \o Q)[Len(P) + k] = Q[k]
      <4>1. P \in Seq(W) /\ Q \in Seq(W)
        BY <3>3
      <4> QED BY <4>1, InARow
    <3>5. /\ own \in Seq(W) /\ Len(own) = 4 /\ \A k \in 1..3 : own[k] = P[k]
          /\ \A k \in 1..1 : own[3 + k] = Q[k]
      BY <3>1, <3>3, <3>4
    <3>6. own[1] = P[1] /\ own[2] = P[2] /\ own[3] = P[3] /\ own[4] = Q[1]
      BY <3>5
    <3> QED BY <2>1, <3>3, <3>5, <3>6
  <2>2. CASE inv.kind = "piped"
    <3> DEFINE P == <<"spawner", "piped", inv.status>>
               Q == <<inv.in, inv.out, inv.err>>
    <3>1. own = P \o Q
      BY <2>2
    <3>2. inv.status \in W /\ inv.in \in W /\ inv.out \in W /\ inv.err \in W
      BY <1>1, <1>3, <2>2
    <3>3. /\ P \in Seq(W) /\ Len(P) = 3 /\ P[1] = "spawner" /\ P[2] = "piped" /\ P[3] = inv.status
          /\ Q \in Seq(W) /\ Len(Q) = 3 /\ Q[1] = inv.in /\ Q[2] = inv.out /\ Q[3] = inv.err
      BY <1>4, <3>2
    <3> HIDE DEF own, P, Q
    <3>4. /\ P \o Q \in Seq(W) /\ Len(P \o Q) = Len(P) + Len(Q)
          /\ \A k \in 1..Len(P) : (P \o Q)[k] = P[k]
          /\ \A k \in 1..Len(Q) : (P \o Q)[Len(P) + k] = Q[k]
      <4>1. P \in Seq(W) /\ Q \in Seq(W)
        BY <3>3
      <4> QED BY <4>1, InARow
    <3>5. /\ own \in Seq(W) /\ Len(own) = 6 /\ \A k \in 1..3 : own[k] = P[k]
          /\ \A k \in 1..3 : own[3 + k] = Q[k]
      BY <3>1, <3>3, <3>4
    <3>6. /\ own[1] = P[1] /\ own[2] = P[2] /\ own[3] = P[3]
          /\ own[4] = Q[1] /\ own[5] = Q[2] /\ own[6] = Q[3]
      BY <3>5
    <3> QED BY <2>2, <3>3, <3>5, <3>6
  <2> QED BY <1>1, <2>1, <2>2
<1> HIDE DEF own
<1>6. \A k \in 1..Len(own) : own[k] # "--" /\ own[k] # "--confine-fd"
  <2>1. CASE inv.kind = "terminal"
    <3>1. \A k \in {1, 2, 3, 4} : own[k] # "--" /\ own[k] # "--confine-fd"
      BY <1>1, <1>3, <1>5, <2>1
    <3>2. 1..Len(own) = {1, 2, 3, 4}
      <4>1. Len(own) = 4
        BY <1>5, <2>1
      <4> QED BY <4>1
    <3> QED BY <3>1, <3>2
  <2>2. CASE inv.kind = "piped"
    <3>1. \A k \in {1, 2, 3, 4, 5, 6} : own[k] # "--" /\ own[k] # "--confine-fd"
      BY <1>1, <1>3, <1>5, <2>2
    <3>2. 1..Len(own) = {1, 2, 3, 4, 5, 6}
      <4>1. Len(own) = 6
        BY <1>5, <2>2
      <4> QED BY <4>1
    <3> QED BY <3>1, <3>2
  <2> QED BY <1>1, <2>1, <2>2
<1>7. /\ head \in Seq(W) /\ \A k \in 1..Len(head) : head[k] # "--"
      /\ ExtractConfineFd(head) = [kind |-> "head", confine |-> inv.confine, head |-> own]
  <2>1. own \in Seq(W)
    BY <1>5
  <2>2. CASE inv.confine = "none"
    <3>1. head = own
      BY <2>1, <2>2
    <3> HIDE DEF head
    <3> QED BY <1>4, <1>6, <2>1, <2>2, <3>1, FlagLeaves
  <2>3. CASE inv.confine # "none"
    <3>1. PICK fd \in Numbers \cap W : fd = inv.confine
      BY <1>1, <1>3, <2>3
    <3>2. head = own \o <<"--confine-fd", fd>>
      BY <2>3, <3>1
    <3>3. <<"--confine-fd", fd>> \in Seq(W) /\ Len(<<"--confine-fd", fd>>) = 2
          /\ \A k \in 1..2 : <<"--confine-fd", fd>>[k] # "--"
      BY <1>3, <1>4
    <3>4. ExtractConfineFd(head) = [kind |-> "head", confine |-> inv.confine, head |-> own]
      BY <1>4, <1>6, <2>1, <3>1, <3>2, FlagLeaves
    <3> HIDE DEF head
    <3> DEFINE end == <<"--confine-fd", fd>>
    <3>5. end \in Seq(W) /\ Len(end) = 2 /\ \A k \in 1..2 : end[k] # "--"
      BY <3>3
    <3> HIDE DEF end
    <3>6. head = own \o end
      BY <3>2 DEF end
    <3>7. /\ head \in Seq(W) /\ Len(own) \in Nat /\ Len(head) = Len(own) + 2
          /\ \A k \in 1..Len(own) : head[k] = own[k]
          /\ \A k \in 1..2 : head[Len(own) + k] = end[k]
      <4>1. own \in Seq(W) /\ end \in Seq(W)
        BY <2>1, <3>5
      <4>2. /\ own \o end \in Seq(W) /\ Len(own \o end) = Len(own) + Len(end)
            /\ \A k \in 1..Len(own) : (own \o end)[k] = own[k]
            /\ \A k \in 1..Len(end) : (own \o end)[Len(own) + k] = end[k]
        BY <4>1, InARow
      <4> QED BY <2>1, <3>5, <3>6, <4>2
    <3>8. \A k \in 1..Len(head) : k \in 1..Len(own) \/ (k - Len(own) \in 1..2 /\ k = Len(own) + (k - Len(own)))
      BY <3>7
    <3>9. \A k \in 1..Len(head) : head[k] # "--"
      BY <1>6, <3>5, <3>7, <3>8
    <3> QED BY <3>4, <3>7, <3>9
  <2> QED BY <2>2, <2>3
<1>8. /\ Position(args, "--") = Len(head) + 1 /\ SubSeq(args, 1, Len(head)) = head
      /\ SubSeq(args, Len(head) + 2, Len(args)) = inv.target /\ Len(head) \in Nat
  <2>1. inv.target \in Seq(W)
    BY <1>1, <1>4
  <2>2. args = head \o <<"--">> \o inv.target
    BY <1>2
  <2> HIDE DEF head, args
  <2>3. /\ "--" \in W /\ head \in Seq(W) /\ inv.target \in Seq(W)
        /\ \A k \in 1..Len(head) : head[k] # "--"
    BY <1>4, <1>7, <2>1
  <2>4. /\ Position(head \o <<"--">> \o inv.target, "--") = Len(head) + 1
        /\ SubSeq(head \o <<"--">> \o inv.target, 1, Len(head)) = head
        /\ SubSeq(head \o <<"--">> \o inv.target, Len(head) + 2,
                   Len(head \o <<"--">> \o inv.target)) = inv.target
    BY <2>3, SplitAtSeparator, ZenonT(60)
  <2>5. Len(head) \in Nat
    BY <2>3
  <2>6. PICK line : line = head \o <<"--">> \o inv.target
    OBVIOUS
  <2>7. /\ Position(line, "--") = Len(head) + 1 /\ SubSeq(line, 1, Len(head)) = head
        /\ SubSeq(line, Len(head) + 2, Len(line)) = inv.target
    BY <2>4, <2>6
  <2>8. line = args
    BY <2>2, <2>6
  <2> QED BY <2>5, <2>7, <2>8
<1> HIDE DEF head, args
<1>9. /\ (Len(head) + 1) - 1 = Len(head) /\ (Len(head) + 1) + 1 = Len(head) + 2 /\ Len(head) + 1 # 0
  BY <1>8
<1>10. ParseArgs(args) =
         IF Len(own) = 4 /\ own[2] = "terminal" /\ own[3] \in Numbers
         THEN [kind |-> "terminal", status |-> own[3], slave |-> own[4],
               confine |-> inv.confine, target |-> inv.target]
         ELSE IF Len(own) = 6 /\ own[2] = "piped" /\ \A k \in 3..6 : own[k] \in Numbers
         THEN [kind |-> "piped", status |-> own[3], in |-> own[4], out |-> own[5], err |-> own[6],
               confine |-> inv.confine, target |-> inv.target]
         ELSE Usage
  <2> DEFINE split == [kind |-> "head", confine |-> inv.confine, head |-> own]
  <2>1. split # Usage /\ split.head = own /\ split.confine = inv.confine
    BY DEF Usage
  <2>2. ExtractConfineFd(SubSeq(args, 1, (Len(head) + 1) - 1)) = split
    BY <1>7, <1>8, <1>9
  <2>3. SubSeq(args, (Len(head) + 1) + 1, Len(args)) = inv.target
    BY <1>8, <1>9
  <2> HIDE DEF split
  <2> QED BY <1>1, <1>8, <1>9, <2>1, <2>2, <2>3 DEF ParseArgs
<1>11. CASE inv.kind = "terminal"
  <2>1. inv = [kind |-> "terminal", status |-> inv.status, slave |-> inv.slave,
               confine |-> inv.confine, target |-> inv.target]
    BY <1>11 DEF InvocationsOver
  <2> QED BY <1>1, <1>5, <1>10, <1>11, <2>1 DEF args
<1>12. CASE inv.kind = "piped"
  <2>1. inv = [kind |-> "piped", status |-> inv.status, in |-> inv.in, out |-> inv.out,
               err |-> inv.err, confine |-> inv.confine, target |-> inv.target]
    BY <1>12 DEF InvocationsOver
  <2>2. \A k \in 3..6 : own[k] \in Numbers
    <3>1. 3..6 = {3, 4, 5, 6}
      OBVIOUS
    <3>2. \A k \in {3, 4, 5, 6} : own[k] \in Numbers
      BY <1>1, <1>5, <1>12
    <3> QED BY <3>1, <3>2
  <2>3. Len(own) = 6 /\ own[2] = "piped"
    BY <1>5, <1>12
  <2> QED BY <1>5, <1>10, <1>12, <2>1, <2>2, <2>3 DEF args
<1> QED BY <1>1, <1>11, <1>12

\* A command line is a row of words.
LEMMA ArgvIs ==
    ASSUME NEW words, NEW inv \in InvocationsOver(words) PROVE \E W : Argv(inv) \in Seq(W)
<1> DEFINE W == words \cup Numbers \cup {"spawner", "terminal", "piped", "--", "--confine-fd"}
           start == <<"spawner", inv.kind, inv.status>>
           where == IF inv.kind = "terminal" THEN <<inv.slave>> ELSE <<inv.in, inv.out, inv.err>>
           flag == IF inv.confine = "none" THEN <<>> ELSE <<"--confine-fd", inv.confine>>
<1>1. /\ inv.kind \in {"terminal", "piped"} /\ inv.status \in Numbers
      /\ inv.confine \in Numbers \cup {"none"} /\ inv.target \in Seq(words)
      /\ inv.kind = "terminal" => inv.slave \in words
      /\ inv.kind = "piped" => inv.in \in Numbers /\ inv.out \in Numbers /\ inv.err \in Numbers
  BY DEF InvocationsOver
<1>2. start \in Seq(W)
  BY <1>1
<1>3. where \in Seq(W)
  <2>1. CASE inv.kind = "terminal"
    <3>1. where = <<inv.slave>> /\ inv.slave \in W
      BY <1>1, <2>1
    <3> HIDE DEF W, where
    <3> QED BY <3>1
  <2>2. CASE inv.kind = "piped"
    <3>1. where = <<inv.in, inv.out, inv.err>> /\ inv.in \in W /\ inv.out \in W /\ inv.err \in W
      BY <1>1, <2>2
    <3> HIDE DEF W, where, flag
    <3> QED BY <3>1
  <2> QED BY <1>1, <2>1, <2>2
<1>4. flag \in Seq(W)
  <2>1. CASE inv.confine = "none"
    BY <2>1
  <2>2. CASE inv.confine # "none"
    <3>1. flag = <<"--confine-fd", inv.confine>> /\ inv.confine \in W /\ "--confine-fd" \in W
      BY <1>1, <2>2
    <3> HIDE DEF W, where, flag
    <3> QED BY <3>1
  <2> QED BY <2>1, <2>2
<1>5. <<"--">> \in Seq(W) /\ inv.target \in Seq(W)
  BY <1>1
<1>6. Argv(inv) = start \o where \o flag \o <<"--">> \o inv.target
  BY DEF Argv
<1> HIDE DEF W, start, where, flag
<1>7. start \o where \in Seq(W)
  BY <1>2, <1>3, InARow
<1>8. start \o where \o flag \in Seq(W)
  BY <1>4, <1>7, InARow
<1>9. start \o where \o flag \o <<"--">> \in Seq(W)
  BY <1>5, <1>8, InARow
<1>10. start \o where \o flag \o <<"--">> \o inv.target \in Seq(W)
  BY <1>5, <1>9, InARow
<1> QED BY <1>6, <1>10

\* The command lines of MCFunctions, and what the helper made of them.
ArgumentsInv ==
    called = "arguments" =>
      /\ \/ input \in InvocationsOver(Words \cup {"tty"}) /\ "argv" \notin DOMAIN input
         \/ "argv" \in DOMAIN input /\ \E W : input.argv \in Seq(W)
      /\ output \in {Pending, <<ParseArgs(CommandLine(input))>>}

\* Its inputs are such command lines.
LEMMA ArgumentsInvInit == CallInit => ArgumentsInv
<1> SUFFICES ASSUME CallInit, called = "arguments" PROVE ArgumentsInv
  BY DEF ArgumentsInv
<1>1. output = Pending
  BY DEF CallInit
<1>2. \/ input \in Invocations
      \/ \E w \in BoundedSeq(Words, MaxWords) : input = [argv |-> <<"spawner">> \o w]
  BY DEF CallInit
<1>3. MaxWords \in Nat /\ MaxTarget \in Nat
  BY FunctionsAssumption DEF FunctionsAssumption
<1>4. CASE input \in Invocations
  <2> DEFINE words == Words \cup {"tty"}
  <2>1. Targets \subseteq Seq(words) \ {<<>>}
    BY <1>3 DEF Targets, BoundedSeq, SeqOf
  <2>2. "tty" \in words \ {"--", "--confine-fd"}
    OBVIOUS
  <2> HIDE DEF words
  <2>3. CASE input \in [kind : {"terminal"}, status : Numbers, slave : {"tty"},
                        confine : Confinements, target : Targets]
    <3>1. input \in InvocationsOver(words)
      BY <2>1, <2>2, <2>3 DEF InvocationsOver, Confinements
    <3>2. "argv" \notin DOMAIN input
      BY <2>3
    <3> QED BY <3>1, <3>2, <1>1 DEF ArgumentsInv, words
  <2>4. CASE input \in [kind : {"piped"}, status : Numbers, in : Numbers, out : Numbers,
                        err : Numbers, confine : Confinements, target : Targets]
    <3>1. input \in InvocationsOver(words)
      BY <2>1, <2>4 DEF InvocationsOver, Confinements
    <3>2. "argv" \notin DOMAIN input
      BY <2>4
    <3> QED BY <3>1, <3>2, <1>1 DEF ArgumentsInv, words
  <2> QED BY <1>4, <2>3, <2>4 DEF Invocations
<1>5. ASSUME NEW w \in BoundedSeq(Words, MaxWords), input = [argv |-> <<"spawner">> \o w]
      PROVE  ArgumentsInv
  <2>1. w \in Seq(Words)
    BY <1>3 DEF BoundedSeq, SeqOf
  <2>2. w \in Seq(Words \cup {"spawner"}) /\ <<"spawner">> \in Seq(Words \cup {"spawner"})
    BY <2>1
  <2>3. <<"spawner">> \o w \in Seq(Words \cup {"spawner"})
    BY <2>2
  <2>4. "argv" \in DOMAIN input /\ input.argv \in Seq(Words \cup {"spawner"})
    BY <1>5, <2>3
  <2> QED BY <2>4, <1>1 DEF ArgumentsInv
<1> QED BY <1>2, <1>4, <1>5

(***************************************************************************)
(* MCFunctions answers every command line so: one the application builds   *)
(* comes through as asked, and no flag is ignored in any.                  *)
(***************************************************************************)
THEOREM ArgumentsAreHonoured == CallSpec => []ArgumentsDoAsAsked
<1>1. CallInit => ArgumentsInv
  BY ArgumentsInvInit
<1>2. ArgumentsInv /\ [CallNext]_callVars => ArgumentsInv'
  <2> SUFFICES ASSUME ArgumentsInv, [CallNext]_callVars PROVE ArgumentsInv'
    OBVIOUS
  <2>1. /\ called' = called /\ input' = input
        /\ called = "arguments" => output' \in {output, <<ParseArgs(CommandLine(input))>>}
    BY DEF CallNext, Answer, callVars
  <2> QED BY <2>1 DEF ArgumentsInv, CommandLine
<1>3. ArgumentsInv => ArgumentsDoAsAsked
  <2> SUFFICES ASSUME ArgumentsInv, Answered("arguments") PROVE ArgumentsDoAsAsked
    BY DEF ArgumentsDoAsAsked
  <2> DEFINE args == CommandLine(input)
  <2>1. output[1] = ParseArgs(args)
    BY DEF ArgumentsInv, Answered
  <2>2. \/ input \in InvocationsOver(Words \cup {"tty"}) /\ "argv" \notin DOMAIN input
        \/ "argv" \in DOMAIN input /\ \E W : input.argv \in Seq(W)
    BY DEF ArgumentsInv, Answered
  <2>3. "argv" \notin DOMAIN input => ParseArgs(args) = input
    BY <2>2, InvocationComesThrough DEF CommandLine
  <2>4. \E W : args \in Seq(W)
    <3>1. CASE input \in InvocationsOver(Words \cup {"tty"}) /\ "argv" \notin DOMAIN input
      BY <3>1, ArgvIs DEF CommandLine
    <3>2. CASE "argv" \in DOMAIN input /\ \E W : input.argv \in Seq(W)
      BY <3>2 DEF CommandLine
    <3> QED BY <2>2, <3>1, <3>2
  <2> HIDE DEF args
  <2>5. ParseArgs(args).kind # "usage" /\ ParseArgs(args).confine = "none" =>
          \A k \in 1..Len(args) :
            args[k] = "--confine-fd" => \E j \in 1..k : args[j] = "--"
    BY <2>4, NoFlagIgnored
  <2> QED BY <2>1, <2>3, <2>5 DEF ArgumentsDoAsAsked, args
<1> QED BY <1>1, <1>2, <1>3, PTL DEF CallSpec

-----------------------------------------------------------------------------
(* The child, between fork and exec.                                       *)

USE DEF Stdio, Originals, FdNames, Processes, KidStages, Ends, Nobody

LEMMA KidInvInit == Init => KidInv
<1> SUFFICES ASSUME Init PROVE KidInv
  OBVIOUS
<1>1. Handed(mode, confined) \in [FdNames -> Ends]
  BY DEF Handed
<1>2. TypeOK
  BY <1>1 DEF Init, TypeOK, Closed
<1>3. KidFds
  BY DEF Init, KidFds
<1>4. KidSetUp /\ KidConfined
  BY DEF Init, KidSetUp, KidConfined
<1> QED BY <1>2, <1>3, <1>4 DEF KidInv

\* Nothing of the child's changes.
KidUntouched == UNCHANGED <<mode, confined, kid, leader, terminal, read, jail, fds["kid"]>>

LEMMA UntouchedKeeps ==
    ASSUME KidInv, KidUntouched, fds' \in [Processes -> [FdNames -> Ends]],
           sup' = "fork" => sup = "fork" /\ UNCHANGED fds
    PROVE  KidInv'
<1>1. TypeOK'
  BY DEF KidUntouched, KidInv, TypeOK
<1>2. KidFds'
  BY DEF KidUntouched, KidInv, KidFds, Wired
<1>3. KidSetUp' /\ KidConfined'
  BY DEF KidUntouched, KidInv, KidSetUp, KidConfined
<1> QED BY <1>1, <1>2, <1>3 DEF KidInv

LEMMA CloseFdsType ==
    ASSUME fds \in [Processes -> [FdNames -> Ends]], NEW p \in Processes, NEW S
    PROVE  /\ CloseFds(p, S) \in [Processes -> [FdNames -> Ends]]
           /\ p # "kid" => CloseFds(p, S)["kid"] = fds["kid"]
           /\ [fds EXCEPT ![p] = Closed] \in [Processes -> [FdNames -> Ends]]
           /\ p # "kid" => [fds EXCEPT ![p] = Closed]["kid"] = fds["kid"]
BY DEF CloseFds, Closed

LEMMA ForkKeeps == ASSUME KidInv, Fork PROVE KidInv'
<1>1. CASE kid' = "closeStatus" /\ sup' = "closeConfine"
           /\ fds' = [fds EXCEPT !["kid"] = fds["sup"]]
  BY <1>1 DEF Fork, KidInv, TypeOK, KidFds, KidSetUp, KidConfined
<1>2. CASE UNCHANGED kid /\ sup' = "exited" /\ fds' = [fds EXCEPT !["sup"] = Closed]
  BY <1>2, UntouchedKeeps, CloseFdsType DEF Fork, KidUntouched, KidInv, TypeOK
<1> QED BY <1>1, <1>2 DEF Fork

LEMMA SupKeeps ==
    ASSUME KidInv,
           CloseConfine \/ ClosePipes \/ WriteFrame \/ Wait \/ SupExit \/ SupDies
    PROVE  KidInv'
<1> USE DEF SupFrame
<1>1. fds \in [Processes -> [FdNames -> Ends]]
  BY DEF KidInv, TypeOK
<1>2. CASE CloseConfine \/ ClosePipes
  BY <1>1, <1>2, UntouchedKeeps, CloseFdsType DEF CloseConfine, ClosePipes, SupStep, KidUntouched
<1>3. CASE WriteFrame \/ Wait
  BY <1>1, <1>3, UntouchedKeeps DEF WriteFrame, Wait, SupStep, AfterFrame, KidUntouched
<1>4. CASE SupExit \/ SupDies
  BY <1>1, <1>4, UntouchedKeeps, CloseFdsType DEF SupExit, SupDies, SupStep, KidUntouched
<1> QED BY <1>2, <1>3, <1>4

\* The child's end, at any stage, leaves nothing to keep.
LEMMA EndKeeps ==
    ASSUME KidInv, NEW status, KidEnds(status), kid # "unborn"
    PROVE  KidInv'
<1>1. TypeOK'
  BY DEF KidInv, TypeOK, KidEnds, KidFrame, Closed
<1>2. KidFds' /\ KidSetUp' /\ KidConfined'
  BY DEF KidInv, KidFds, KidSetUp, KidConfined, KidEnds, KidFrame
<1> QED BY <1>1, <1>2 DEF KidInv

LEMMA CloseStatusKeeps == ASSUME KidInv, CloseStatus PROVE KidInv'
<1>1. TypeOK'
  BY DEF KidInv, TypeOK, CloseStatus, KidStep, CloseFds, KidFrame
<1>2. KidFds'
  <2>1. fds["kid"] = Handed(mode, confined) /\ kid' = "setsid" /\ sup # "fork"
    BY DEF KidInv, KidFds, CloseStatus, KidStep
  <2>2. fds'["kid"] = [f \in FdNames |-> IF f = "status" THEN Nobody ELSE fds["kid"][f]]
    BY DEF KidInv, TypeOK, CloseStatus, CloseFds
  <2>3. fds'["kid"] = [Handed(mode, confined) EXCEPT !["status"] = Nobody]
    BY <2>1, <2>2 DEF Handed
  <2> QED BY <2>1, <2>3 DEF KidFds, CloseStatus, KidFrame
<1>3. KidSetUp' /\ KidConfined'
  BY DEF KidInv, KidSetUp, KidConfined, CloseStatus, KidStep, KidFrame
<1> QED BY <1>1, <1>2, <1>3 DEF KidInv

LEMMA SetsidKeeps == ASSUME KidInv, Setsid PROVE KidInv'
<1>1. CASE kid = "setsid" /\ KidEnds("setsid failed")
  BY <1>1, EndKeeps
<1>2. CASE /\ KidStep("setsid", IF mode = "terminal" THEN "openSlave" ELSE "dupPipes")
           /\ leader' = TRUE
           /\ UNCHANGED <<KidFrame, pipeVars, fds, terminal, read, jail, ended>>
  <2>1. TypeOK'
    BY <1>2 DEF KidInv, TypeOK, KidStep, KidFrame
  <2>2. KidFds'
    BY <1>2 DEF KidInv, KidFds, KidStep, KidFrame
  <2>3. KidSetUp' /\ KidConfined'
    BY <1>2 DEF KidInv, TypeOK, KidSetUp, KidConfined, KidStep, KidFrame
  <2> QED BY <2>1, <2>2, <2>3 DEF KidInv
<1> QED BY <1>1, <1>2 DEF Setsid

LEMMA OpenSlaveKeeps == ASSUME KidInv, OpenSlave PROVE KidInv'
<1>1. CASE kid = "openSlave" /\ KidEnds("open slave failed")
  BY <1>1, EndKeeps
<1>2. CASE /\ KidStep("openSlave", "claimTerminal")
           /\ fds' = [fds EXCEPT !["kid"]["slave"] = "tty"]
           /\ UNCHANGED <<KidFrame, pipeVars, leader, terminal, read, jail, ended>>
  <2>1. TypeOK'
    BY <1>2 DEF KidInv, TypeOK, KidStep, KidFrame
  <2>2. KidFds'
    <3>1. fds["kid"] = [Handed(mode, confined) EXCEPT !["status"] = Nobody] /\ sup # "fork"
      BY <1>2 DEF KidInv, KidFds, KidStep
    <3>2. fds'["kid"] = [Handed(mode, confined) EXCEPT !["status"] = Nobody, !["slave"] = "tty"]
      BY <1>2, <3>1 DEF KidInv, TypeOK
    <3> QED BY <1>2, <3>1, <3>2 DEF KidFds, KidStep, KidFrame
  <2>3. KidSetUp' /\ KidConfined'
    BY <1>2 DEF KidInv, KidSetUp, KidConfined, KidStep, KidFrame
  <2> QED BY <2>1, <2>2, <2>3 DEF KidInv
<1> QED BY <1>1, <1>2 DEF OpenSlave

LEMMA TerminalKeeps == ASSUME KidInv, ClaimTerminal \/ Cook PROVE KidInv'
<1>1. CASE kid \in {"claimTerminal", "cook"} /\ \E s : KidEnds(s)
  BY <1>1, EndKeeps
<1>2. CASE /\ kid \in {"claimTerminal", "cook"}
           /\ kid' = (IF kid = "cook" THEN "dupSlave" ELSE "cook")
           /\ kid = "cook" => terminal' = "claimed and cooked"
           /\ UNCHANGED <<KidFrame, pipeVars, fds, leader, read, jail, ended>>
  <2>1. TypeOK'
    BY <1>2 DEF KidInv, TypeOK, KidFrame
  <2>2. KidFds'
    BY <1>2 DEF KidInv, KidFds, KidFrame
  <2>3. KidSetUp' /\ KidConfined'
    BY <1>2 DEF KidInv, KidSetUp, KidConfined, KidFrame
  <2> QED BY <2>1, <2>2, <2>3 DEF KidInv
<1> QED BY <1>1, <1>2 DEF ClaimTerminal, Cook, KidStep

\* Both ways to set stdio up end with the same descriptors.
LEMMA StdioKeeps ==
    ASSUME KidInv, kid \in {"dupSlave", "dupPipes"}, kid' = AfterStdio,
           fds' = [fds EXCEPT !["kid"] = Wired(confined)],
           UNCHANGED <<KidFrame, leader, terminal, read, jail>>
    PROVE  KidInv'
<1>1. Wired(confined) \in [FdNames -> Ends]
  BY DEF KidInv, TypeOK, Wired, Handed
<1>2. TypeOK'
  BY <1>1 DEF KidInv, TypeOK, AfterStdio, KidFrame
<1>3. KidFds'
  <2>1. fds'["kid"] = Wired(confined) /\ sup # "fork" /\ (Wired(confined))' = Wired(confined)
    BY DEF KidInv, TypeOK, KidFds, KidFrame, Wired
  <2>2. CASE confined
    BY <2>1, <2>2, ZenonT(60) DEF KidFds, AfterStdio, KidFrame, Wired
  <2>3. CASE ~confined
    BY <2>1, <2>3, ZenonT(60) DEF KidFds, AfterStdio, KidFrame, KidInv, TypeOK, Wired
  <2> QED BY <2>2, <2>3
<1>4. KidSetUp'
  BY DEF KidInv, KidSetUp, AfterStdio, KidFrame
<1>5. KidConfined'
  BY DEF KidConfined, AfterStdio, KidFrame
<1> QED BY <1>2, <1>3, <1>4, <1>5 DEF KidInv

LEMMA DupSlaveKeeps == ASSUME KidInv, DupSlave PROVE KidInv'
<1>1. CASE kid = "dupSlave" /\ KidEnds("dup2 failed")
  BY <1>1, EndKeeps
<1>2. CASE /\ KidStep("dupSlave", AfterStdio)
           /\ fds' = [fds EXCEPT !["kid"] =
                    [f \in FdNames |-> IF f \in Stdio THEN @["slave"]
                                       ELSE IF f = "slave" THEN Nobody ELSE @[f]]]
           /\ UNCHANGED <<KidFrame, pipeVars, leader, terminal, read, jail, ended>>
  <2>1. mode = "terminal" /\ confined \in BOOLEAN
        /\ fds["kid"] = [Handed(mode, confined) EXCEPT !["status"] = Nobody, !["slave"] = "tty"]
    BY <1>2 DEF KidInv, TypeOK, KidFds, KidSetUp, KidStep
  <2>2. [f \in FdNames |-> IF f \in Stdio THEN fds["kid"]["slave"]
                           ELSE IF f = "slave" THEN Nobody ELSE fds["kid"][f]]
          = Wired(confined)
    BY <2>1 DEF Wired, Handed
  <2> QED BY <1>2, <2>2, StdioKeeps DEF KidStep
<1> QED BY <1>1, <1>2 DEF DupSlave

LEMMA DupPipesKeeps == ASSUME KidInv, DupPipes PROVE KidInv'
<1>1. CASE kid = "dupPipes" /\ KidEnds("dup2 failed")
  BY <1>1, EndKeeps
<1>2. CASE /\ KidStep("dupPipes", AfterStdio)
           /\ fds' = [fds EXCEPT !["kid"] =
                    [f \in FdNames |-> CASE f = "0" -> @["in"] [] f = "1" -> @["out"]
                                         [] f = "2" -> @["err"]
                                         [] f \in Originals -> Nobody [] OTHER -> @[f]]]
           /\ UNCHANGED <<KidFrame, pipeVars, leader, terminal, read, jail, ended>>
  <2>1. mode = "piped" /\ confined \in BOOLEAN
        /\ fds["kid"] = [Handed(mode, confined) EXCEPT !["status"] = Nobody]
    BY <1>2 DEF KidInv, TypeOK, KidFds, KidSetUp, KidStep
  <2>2. [f \in FdNames |-> CASE f = "0" -> fds["kid"]["in"] [] f = "1" -> fds["kid"]["out"]
                             [] f = "2" -> fds["kid"]["err"]
                             [] f \in Originals -> Nobody [] OTHER -> fds["kid"][f]]
          = Wired(confined)
    BY <2>1 DEF Wired, Handed
  <2> QED BY <1>2, <2>2, StdioKeeps DEF KidStep
<1> QED BY <1>1, <1>2 DEF DupPipes

LEMMA ReadGrantsKeeps == ASSUME KidInv, ReadGrants PROVE KidInv'
<1>1. CASE kid = "readGrants" /\ KidEnds("unconfined")
  BY <1>1, EndKeeps
<1>2. CASE /\ read' = read + 1
           /\ UNCHANGED <<KidFrame, kid, fds, statusPipe, leader, terminal, jail, ended>>
  <2>1. TypeOK'
    BY <1>2 DEF KidInv, TypeOK, KidFrame
  <2>2. KidFds'
    BY <1>2 DEF KidInv, KidFds, KidFrame, Wired
  <2>3. KidSetUp' /\ KidConfined'
    BY <1>2 DEF KidInv, KidSetUp, KidConfined, KidFrame
  <2> QED BY <2>1, <2>2, <2>3 DEF KidInv
<1>3. CASE /\ KidStep("readGrants", "confine")
           /\ fds' = CloseFds("kid", {"confine"})
           /\ UNCHANGED <<KidFrame, pipeVars, leader, terminal, read, jail, ended>>
  <2>1. TypeOK'
    BY <1>3 DEF KidInv, TypeOK, KidStep, CloseFds, KidFrame
  <2>2. KidFds'
    <3>1. fds["kid"] = Wired(TRUE) /\ sup # "fork"
      BY <1>3 DEF KidInv, KidFds, KidStep
    <3>2. fds'["kid"] = [f \in FdNames |-> IF f = "confine" THEN Nobody ELSE fds["kid"][f]]
      BY <1>3 DEF KidInv, TypeOK, CloseFds
    <3>3. fds'["kid"] = Wired(FALSE)
      <4>1. /\ Handed(mode, TRUE)["in"] = Handed(mode, FALSE)["in"]
            /\ Handed(mode, TRUE)["out"] = Handed(mode, FALSE)["out"]
            /\ Handed(mode, TRUE)["err"] = Handed(mode, FALSE)["err"]
        BY DEF Handed, FdNames, Originals, Stdio
      <4>2. ASSUME NEW f \in FdNames
            PROVE  Wired(FALSE)[f] = IF f = "confine" THEN Nobody ELSE Wired(TRUE)[f]
        BY <4>1 DEF Wired, Stdio
      <4>3. Wired(FALSE) = [f \in FdNames |-> Wired(FALSE)[f]]
        BY DEF Wired
      <4>4. fds'["kid"] = [f \in FdNames |-> IF f = "confine" THEN Nobody ELSE Wired(TRUE)[f]]
        BY <3>1, <3>2
      <4>5. [f \in FdNames |-> IF f = "confine" THEN Nobody ELSE Wired(TRUE)[f]]
             = [f \in FdNames |-> Wired(FALSE)[f]]
        BY <4>2, Zenon
      <4> QED BY <4>3, <4>4, <4>5
    <3> QED BY <1>3, <3>1, <3>3 DEF KidFds, KidStep, KidFrame, Wired
  <2>3. KidSetUp' /\ KidConfined'
    BY <1>3 DEF KidInv, KidSetUp, KidConfined, KidStep, KidFrame
  <2> QED BY <2>1, <2>2, <2>3 DEF KidInv
<1> QED BY <1>1, <1>2, <1>3 DEF ReadGrants

LEMMA ConfineKeeps == ASSUME KidInv, Confine PROVE KidInv'
<1>1. CASE kid = "confine" /\ KidEnds("unconfined")
  BY <1>1, EndKeeps
<1>2. CASE /\ KidStep("confine", "exec") /\ read > 0 /\ jail' = read
           /\ UNCHANGED <<KidFrame, pipeVars, fds, leader, terminal, read, ended>>
  <2>1. TypeOK'
    BY <1>2 DEF KidInv, TypeOK, KidStep, KidFrame
  <2>2. KidFds'
    BY <1>2 DEF KidInv, KidFds, KidStep, KidFrame, Wired
  <2>3. KidSetUp'
    BY <1>2 DEF KidInv, KidSetUp, KidStep, KidFrame
  <2>4. KidConfined'
    BY <1>2 DEF KidInv, TypeOK, KidConfined, KidStep, KidFrame
  <2> QED BY <2>1, <2>2, <2>3, <2>4 DEF KidInv
<1> QED BY <1>1, <1>2 DEF Confine

LEMMA ExecKeeps == ASSUME KidInv, Exec PROVE KidInv'
<1>1. CASE kid = "exec" /\ KidEnds("exec failed")
  BY <1>1, EndKeeps
<1>2. CASE /\ KidStep("exec", "target")
           /\ UNCHANGED <<KidFrame, pipeVars, fds, leader, terminal, read, jail, ended>>
  BY <1>2 DEF KidInv, TypeOK, KidFds, KidSetUp, KidConfined, KidStep, KidFrame, Wired
<1> QED BY <1>1, <1>2 DEF Exec

LEMMA TargetKeeps == ASSUME KidInv, TargetNext PROVE KidInv'
<1>1. CASE TargetEnds
  BY <1>1, EndKeeps DEF TargetEnds
<1>2. CASE TargetForks
  <2>1. fds' \in [Processes -> [FdNames -> Ends]] /\ fds'["kid"] = fds["kid"]
    BY <1>2 DEF TargetForks, KidInv, TypeOK
  <2> QED BY <1>2, <2>1, UntouchedKeeps
          DEF TargetForks, KidFrame, KidUntouched, KidInv, KidFds
<1>3. CASE DescendantEnds
  <2>1. fds' \in [Processes -> [FdNames -> Ends]] /\ fds'["kid"] = fds["kid"]
    BY <1>3, CloseFdsType DEF DescendantEnds, KidInv, TypeOK
  <2>2. sup' = "fork" => fds'["sup"] = fds["sup"]
    BY <1>3 DEF DescendantEnds, KidInv, TypeOK
  <2>3. TypeOK'
    BY <1>3, <2>1 DEF DescendantEnds, KidFrame, KidInv, TypeOK
  <2>4. KidFds'
    BY <1>3, <2>1, <2>2 DEF DescendantEnds, KidFrame, KidInv, KidFds, Wired
  <2>5. KidSetUp' /\ KidConfined'
    BY <1>3 DEF DescendantEnds, KidFrame, KidInv, KidSetUp, KidConfined
  <2> QED BY <2>3, <2>4, <2>5 DEF KidInv
<1> QED BY <1>1, <1>2, <1>3 DEF TargetNext

LEMMA AppKeeps == ASSUME KidInv, AppNext PROVE KidInv'
<1>1. CASE Kill
  <2>1. CASE UNCHANGED <<kid, ended, fds>>
    <3>1. KidUntouched /\ sup' = sup /\ fds' = fds
      BY <1>1, <2>1 DEF Kill, KidUntouched
    <3> QED BY <3>1, UntouchedKeeps DEF KidInv, TypeOK
  <2>2. CASE GroupExists /\ kid' = "ended"
             /\ fds' = [fds EXCEPT !["kid"] = Closed, !["descendant"] = Closed]
    <3>1. TypeOK'
      BY <1>1, <2>2 DEF Kill, KidInv, TypeOK, Closed
    <3>2. KidSetUp' /\ KidConfined'
      BY <2>2 DEF KidSetUp, KidConfined
    <3>3. kid # "unborn" /\ UNCHANGED sup
      BY <1>1, <2>2 DEF Kill, GroupExists, KidInv, KidSetUp
    <3>4. KidFds'
      BY <2>2, <3>3 DEF KidInv, KidFds
    <3> QED BY <3>1, <3>2, <3>4 DEF KidInv
  <2> QED BY <1>1, <2>1, <2>2 DEF Kill
<1>2. CASE UNCHANGED helperVars
  <2>1. KidUntouched /\ sup' = sup /\ fds' = fds
    BY <1>2 DEF helperVars, KidUntouched
  <2> QED BY <2>1, UntouchedKeeps DEF KidInv, TypeOK
<1> QED BY <1>1, <1>2
    DEF AppNext, AppReads, HandOver, WriteGrants, StopWriting, GiveUpWriting, ReadStatus,
        ReadStatusFails, ReadEof, ReadOutputFails, Close

LEMMA KidInvStep == KidInv /\ [Next]_vars => KidInv'
<1> SUFFICES ASSUME KidInv, [Next]_vars PROVE KidInv'
  OBVIOUS
<1>1. CASE UNCHANGED vars
  <2>1. KidUntouched /\ sup' = sup /\ fds' = fds
    BY <1>1 DEF vars, helperVars, KidUntouched
  <2> QED BY <2>1, UntouchedKeeps DEF KidInv, TypeOK
<1>2. CASE SupNext \/ SupDies
  BY <1>2, ForkKeeps, SupKeeps DEF SupNext
<1>3. CASE KidSetup
  BY <1>3, CloseStatusKeeps, SetsidKeeps, OpenSlaveKeeps, TerminalKeeps, DupSlaveKeeps,
     DupPipesKeeps, ReadGrantsKeeps, ConfineKeeps, ExecKeeps DEF KidSetup
<1>4. CASE TargetNext
  BY <1>4, TargetKeeps
<1>5. CASE AppNext
  BY <1>5, AppKeeps
<1> QED BY <1>1, <1>2, <1>3, <1>4, <1>5 DEF Next

(***************************************************************************)
(* The inductive invariant of the child holds in every reachable state.    *)
(***************************************************************************)
THEOREM KidInvariant == Spec => []KidInv
BY KidInvInit, KidInvStep, PTL DEF Spec

(***************************************************************************)
(* The target inherits its stdio and nothing else (main.rs:159-285).       *)
(***************************************************************************)
THEOREM StdioOnly == Spec => []TargetHasStdioOnly
<1>1. KidInv => TargetHasStdioOnly
  <2> SUFFICES ASSUME KidInv, kid = "target" PROVE TargetHasStdioOnly
    BY DEF TargetHasStdioOnly
  <2>1. leader /\ (mode = "terminal" => terminal = "claimed and cooked")
    BY DEF KidInv, KidSetUp
  <2>2. fds["kid"] = Wired(FALSE) /\ mode \in {"terminal", "piped"}
    BY DEF KidInv, KidFds, TypeOK
  <2>3. mode # "terminal" => /\ Handed(mode, FALSE)["in"] = "inRead"
                             /\ Handed(mode, FALSE)["out"] = "outWrite"
                             /\ Handed(mode, FALSE)["err"] = "errWrite"
    BY <2>2 DEF Handed, FdNames, Originals, Stdio
  <2>4. Wired(FALSE) = [f \in FdNames |->
           IF f \notin Stdio THEN Nobody
           ELSE IF mode = "terminal" THEN "tty"
           ELSE CASE f = "0" -> "inRead" [] f = "1" -> "outWrite" [] f = "2" -> "errWrite"]
    BY <2>3 DEF Wired, Stdio
  <2> QED BY <2>1, <2>2, <2>4 DEF TargetHasStdioOnly
<1> QED BY <1>1, KidInvariant, PTL

(***************************************************************************)
(* A target whose confinement was asked for never runs without it, however *)
(* its program is written, read or applied (main.rs:176-206).              *)
(***************************************************************************)
THEOREM NeverUnconfined == Spec => []FailsClosed
<1>1. KidInv => FailsClosed
  BY DEF KidInv, KidConfined, FailsClosed
<1> QED BY <1>1, KidInvariant, PTL

-----------------------------------------------------------------------------
(* The status pipe. *)

\* What the child, the target and a kill do to the status: it is the end of
\* the target, if anything, and it never changes once it is there.
StatusUntouched ==
    /\ UNCHANGED <<mode, sup, toSend, sending, statusPipe, received, app, appFds, outcome, eof,
                   failed>>
    /\ kid = "ended" => kid' = "ended" /\ ended' = ended
    /\ kid # "ended" /\ kid' = "ended" => ended' \in EndStatuses
    /\ kid = "unborn" <=> kid' = "unborn"
    /\ fds'["sup"]["status"] = fds["sup"]["status"]

LEMMA StatusUntouchedKeeps ==
    ASSUME StatusInv, StatusUntouched, KidInv'
    PROVE  StatusInv'
<1> USE DEF StatusUntouched
<1>1. StatusTypeOK'
  BY DEF StatusInv, StatusTypeOK
<1>2. FramesInOrder'
  BY DEF StatusInv, FramesInOrder, IsTheTargets, Sent
<1>3. SecondFrameIsTrue'
  BY DEF StatusInv, SecondFrameIsTrue, IsTheTargets
<1>4. EndsKept'
  BY DEF StatusInv, EndsKept
<1>5. OutcomeIsTrue'
  BY DEF StatusInv, OutcomeIsTrue, ExitIsTheTargets, LostIsLost
<1>6. NoEarlyEnd'
  BY DEF StatusInv, NoEarlyEnd
<1> QED BY <1>1, <1>2, <1>3, <1>4, <1>5, <1>6 DEF StatusInv

LEMMA StatusInit == Init => StatusInv
<1> SUFFICES ASSUME Init PROVE StatusInv
  OBVIOUS
<1>1. KidInv
  BY KidInvInit
<1>2. StatusTypeOK
  BY SpawnerAssumption DEF Init, StatusTypeOK, SupStages
<1>3. FramesInOrder
  BY DEF Init, FramesInOrder, Sent
<1>4. SecondFrameIsTrue
  BY DEF Init, SecondFrameIsTrue
<1>5. EndsKept
  <2>1. "statusRead" \in appFds /\ (mode = "terminal" => "tty" \in appFds) /\ app # "closed"
    BY DEF Init, KeptEnds
  <2>2. fds["sup"]["status"] = "statusWrite"
    BY DEF Init, Handed
  <2> QED BY <2>1, <2>2, SpawnerAssumption DEF Init, EndsKept
<1>6. OutcomeIsTrue /\ NoEarlyEnd
  BY DEF Init, OutcomeIsTrue, ExitIsTheTargets, LostIsLost, NoEarlyEnd
<1> QED BY <1>1, <1>2, <1>3, <1>4, <1>5, <1>6 DEF StatusInv

LEMMA ForkKeepsStatus == ASSUME StatusInv, Fork, KidInv' PROVE StatusInv'
<1> USE DEF Fork, appVars, pipeVars
<1>1. kid = "unborn" /\ sup = "fork" /\ sending = "pid" /\ toSend = FrameBytes
  BY DEF StatusInv, KidInv, KidFds, EndsKept, FramesInOrder
<1>2. StatusTypeOK'
  BY DEF StatusInv, StatusTypeOK, SupStages
<1>3. FramesInOrder'
  BY <1>1 DEF StatusInv, FramesInOrder, Sent
<1>4. SecondFrameIsTrue'
  BY <1>1 DEF StatusInv, SecondFrameIsTrue, IsTheTargets
<1>5. EndsKept'
  BY <1>1 DEF StatusInv, EndsKept, KidInv, TypeOK
<1>6. OutcomeIsTrue'
  BY <1>1 DEF StatusInv, OutcomeIsTrue, ExitIsTheTargets, LostIsLost
<1>7. NoEarlyEnd'
  BY <1>1 DEF StatusInv, EndsKept, NoEarlyEnd
<1> QED BY <1>2, <1>3, <1>4, <1>5, <1>6, <1>7 DEF StatusInv

LEMMA ClosingKeepsStatus ==
    ASSUME StatusInv, CloseConfine \/ ClosePipes, KidInv'
    PROVE  StatusInv'
<1> USE DEF CloseConfine, ClosePipes, SupStep, SupFrame, appVars
<1>1. sup \in {"closeConfine", "closePipes"} /\ sup' \in {"closePipes", "frame"}
      /\ sending = "pid" /\ toSend = FrameBytes
  BY DEF StatusInv, FramesInOrder
<1>2. StatusTypeOK'
  BY DEF StatusInv, StatusTypeOK, SupStages
<1>3. FramesInOrder'
  BY <1>1, SpawnerAssumption DEF StatusInv, FramesInOrder, Sent
<1>4. SecondFrameIsTrue'
  BY DEF StatusInv, SecondFrameIsTrue, IsTheTargets
<1>5. fds'["sup"]["status"] = fds["sup"]["status"]
  BY DEF StatusInv, KidInv, TypeOK, CloseFds
<1>6. EndsKept'
  BY <1>1, <1>5 DEF StatusInv, EndsKept
<1>7. OutcomeIsTrue' /\ NoEarlyEnd'
  BY <1>1 DEF StatusInv, OutcomeIsTrue, ExitIsTheTargets, LostIsLost, NoEarlyEnd
<1> QED BY <1>2, <1>3, <1>4, <1>6, <1>7 DEF StatusInv

\* The next byte is of the frame whose turn it is.
LEMMA WriteKeepsStatus == ASSUME StatusInv, WriteFrame, KidInv' PROVE StatusInv'
<1> USE DEF WriteFrame, AfterFrame, SupFrame, appVars
<1>1. UNCHANGED <<mode, kid, ended, fds, received, app, appFds, outcome, eof, failed, sending>>
      /\ sup = "frame" /\ sup' \in {"frame", "wait", "close"} /\ kid \in KidStages
  BY DEF StatusInv, KidInv, TypeOK
<1>2. CASE "statusRead" \notin appFds
  <2>1. app = "closed"
    BY <1>2 DEF StatusInv, EndsKept
  <2>2. StatusTypeOK'
    BY <1>1, <1>2 DEF StatusInv, StatusTypeOK, SupStages
  <2>3. FramesInOrder'
    BY <1>1, <1>2, <2>1 DEF StatusInv, FramesInOrder
  <2>4. SecondFrameIsTrue'
    BY <1>1, <1>2 DEF StatusInv, SecondFrameIsTrue, IsTheTargets
  <2>5. EndsKept'
    BY <1>1, <2>1 DEF StatusInv, EndsKept
  <2>6. OutcomeIsTrue' /\ NoEarlyEnd'
    BY <1>1 DEF StatusInv, OutcomeIsTrue, ExitIsTheTargets, LostIsLost, NoEarlyEnd
  <2> QED BY <2>2, <2>3, <2>4, <2>5, <2>6 DEF StatusInv
<1>3. CASE "statusRead" \in appFds
  <2>1. app # "closed" /\ toSend \in 1..FrameBytes
        /\ Sent = (IF sending = "pid" THEN FrameBytes ELSE 2 * FrameBytes) - toSend
    BY <1>1, <1>3 DEF StatusInv, EndsKept, FramesInOrder, StatusTypeOK
  <2>2. statusPipe' = Append(statusPipe, sending) /\ toSend' = toSend - 1
        /\ sup' = IF toSend = 1 THEN AfterFrame ELSE "frame"
    BY <1>3
  <2>3. /\ Len(statusPipe) \in Nat /\ Len(received) \in Nat
        /\ Len(statusPipe') = Len(statusPipe) + 1
        /\ \A k \in 1..Len(statusPipe) : statusPipe'[k] = statusPipe[k]
        /\ statusPipe'[Len(statusPipe) + 1] = sending
    BY <2>2 DEF StatusInv, StatusTypeOK
  <2>4. StatusTypeOK'
    <3>1. statusPipe' \in Seq({"pid"} \cup EndStatuses)
      BY <2>2 DEF StatusInv, StatusTypeOK
    <3>2. toSend' \in 0..FrameBytes
      BY <2>1, <2>2, SpawnerAssumption
    <3> QED BY <1>1, <3>1, <3>2 DEF StatusInv, StatusTypeOK, SupStages
  <2>5. Sent' = Sent + 1
    BY <1>1, <2>3 DEF Sent
  <2>6. sending # "pid" => IsTheTargets(sending)
    BY <1>1 DEF StatusInv, FramesInOrder
  <2>7. FramesInOrder'
    <3>1. (sup = "frame" /\ sending # "pid" => IsTheTargets(sending))'
      BY <1>1, <2>6 DEF IsTheTargets
    <3> QED BY <1>1, <2>1, <2>2, <2>5, <3>1, SpawnerAssumption DEF FramesInOrder
  <2>8. SecondFrameIsTrue'
    <3>1. \A k \in 1..Len(statusPipe) :
            Len(received) + k > FrameBytes => IsTheTargets(statusPipe'[k])
      BY <2>3 DEF StatusInv, SecondFrameIsTrue
    <3>2. Sent + 1 > FrameBytes => IsTheTargets(sending)
      BY <2>1, <2>6, SpawnerAssumption
    <3>3. \A k \in 1..Len(statusPipe') :
            Len(received) + k > FrameBytes => IsTheTargets(statusPipe'[k])
      BY <2>3, <3>1, <3>2 DEF Sent
    <3> QED BY <1>1, <3>3 DEF SecondFrameIsTrue, IsTheTargets
  <2>9. EndsKept'
    BY <1>1 DEF StatusInv, EndsKept
  <2>10. OutcomeIsTrue' /\ NoEarlyEnd'
    BY <1>1 DEF StatusInv, OutcomeIsTrue, ExitIsTheTargets, LostIsLost, NoEarlyEnd
  <2> QED BY <2>4, <2>7, <2>8, <2>9, <2>10 DEF StatusInv
<1> QED BY <1>2, <1>3

LEMMA WaitKeepsStatus == ASSUME StatusInv, Wait, KidInv' PROVE StatusInv'
<1>1. sup = "wait" /\ sup' = "frame" /\ kid = "ended"
      /\ UNCHANGED <<mode, kid, ended, fds, received, app, appFds, outcome, eof, failed, statusPipe>>
  BY DEF Wait, SupStep, SupFrame, appVars
<1>2. toSend' = FrameBytes /\ FrameBytes \in Nat \ {0}
  BY SpawnerAssumption DEF Wait
<1>3. IsTheTargets(sending)'
  BY <1>1 DEF Wait, SupFrame, IsTheTargets
<1>4. sending' \in EndStatuses /\ sending' # "pid"
  BY <1>1, <1>3 DEF StatusInv, StatusTypeOK, IsTheTargets, EndStatuses
<1>5. StatusTypeOK'
  <2>1. toSend' \in 0..FrameBytes
    BY <1>2
  <2> QED BY <1>1, <1>4, <2>1 DEF StatusInv, StatusTypeOK, SupStages
<1>6. FramesInOrder'
  <2>1. Sent' = Sent /\ (app # "closed" => Sent = FrameBytes)
    BY <1>1 DEF StatusInv, FramesInOrder, Sent
  <2>2. app' # "closed" => toSend' > 0 /\ Sent' = 2 * FrameBytes - toSend'
    BY <1>1, <1>2, <2>1
  <2> QED BY <1>1, <1>3, <1>4, <2>2 DEF FramesInOrder
<1>7. SecondFrameIsTrue'
  BY <1>1 DEF StatusInv, SecondFrameIsTrue, IsTheTargets
<1>8. EndsKept'
  BY <1>1 DEF StatusInv, EndsKept
<1>9. OutcomeIsTrue' /\ NoEarlyEnd'
  BY <1>1 DEF StatusInv, OutcomeIsTrue, ExitIsTheTargets, LostIsLost, NoEarlyEnd
<1> QED BY <1>5, <1>6, <1>7, <1>8, <1>9 DEF StatusInv

LEMMA LeavingKeepsStatus == ASSUME StatusInv, SupExit \/ SupDies, KidInv' PROVE StatusInv'
<1> USE DEF SupExit, SupDies, SupStep, SupFrame, appVars
<1>1. /\ sup \notin {"exited", "killed"} /\ sup' \in {"exited", "killed"}
      /\ sup' = "exited" => sup = "close"
      /\ UNCHANGED <<mode, kid, ended, received, app, appFds, outcome, eof, failed, statusPipe, sending,
                     toSend>>
  OBVIOUS
<1>2. StatusTypeOK'
  BY <1>1 DEF StatusInv, StatusTypeOK, SupStages
<1>3. FramesInOrder'
  BY <1>1 DEF StatusInv, FramesInOrder, Sent
<1>4. SecondFrameIsTrue'
  BY <1>1 DEF StatusInv, SecondFrameIsTrue, IsTheTargets
<1>5. EndsKept'
  BY <1>1 DEF StatusInv, EndsKept
<1>6. OutcomeIsTrue' /\ NoEarlyEnd'
  BY <1>1 DEF StatusInv, OutcomeIsTrue, ExitIsTheTargets, LostIsLost, NoEarlyEnd
<1> QED BY <1>2, <1>3, <1>4, <1>5, <1>6 DEF StatusInv

LEMMA EndUntouched ==
    ASSUME StatusInv, NEW status \in EndStatuses, KidEnds(status), kid \notin {"unborn", "ended"}
    PROVE  StatusUntouched
BY DEF KidEnds, KidFrame, pipeVars, appVars, StatusUntouched, StatusInv, KidInv, TypeOK

\* A call of the child either ends it or leaves it alive, and its supervisor alone.
LEMMA SetupUntouched == ASSUME StatusInv, KidSetup PROVE StatusUntouched
<1>1. ASSUME NEW status \in EndStatuses, KidEnds(status), kid \notin {"unborn", "ended"}
      PROVE  StatusUntouched
  BY <1>1, EndUntouched
<1>2. CASE /\ kid \notin {"unborn", "ended"} /\ kid' \notin {"unborn", "ended"}
           /\ UNCHANGED <<KidFrame, statusPipe>> /\ fds'["sup"] = fds["sup"]
  BY <1>2 DEF KidFrame, appVars, StatusUntouched
<1>3. fds \in [Processes -> [FdNames -> Ends]]
  BY DEF StatusInv, KidInv, TypeOK
<1>4. CASE CloseStatus
  BY <1>2, <1>3, <1>4 DEF CloseStatus, KidStep, CloseFds, pipeVars
<1>5. CASE Setsid
  BY <1>1, <1>2, <1>5 DEF Setsid, KidStep, pipeVars, EndStatuses
<1>6. CASE OpenSlave
  BY <1>1, <1>2, <1>3, <1>6 DEF OpenSlave, KidStep, pipeVars, EndStatuses
<1>7. CASE ClaimTerminal \/ Cook
  BY <1>1, <1>2, <1>7 DEF ClaimTerminal, Cook, KidStep, pipeVars, EndStatuses
<1>8. CASE DupSlave
  BY <1>1, <1>2, <1>3, <1>8 DEF DupSlave, KidStep, AfterStdio, pipeVars, EndStatuses
<1>9. CASE DupPipes
  BY <1>1, <1>2, <1>3, <1>9 DEF DupPipes, KidStep, AfterStdio, pipeVars, EndStatuses
<1>10. CASE ReadGrants
  <2>1. CASE kid = "readGrants" /\ UNCHANGED <<KidFrame, kid, fds, statusPipe>>
    BY <1>2, <2>1
  <2>2. CASE KidStep("readGrants", "confine") /\ fds' = CloseFds("kid", {"confine"})
             /\ UNCHANGED <<KidFrame, pipeVars>>
    BY <1>2, <1>3, <2>2 DEF KidStep, CloseFds, pipeVars
  <2>3. CASE kid = "readGrants" /\ KidEnds("unconfined")
    BY <1>1, <2>3 DEF EndStatuses
  <2> QED BY <1>10, <2>1, <2>2, <2>3 DEF ReadGrants
<1>11. CASE Confine \/ Exec
  BY <1>1, <1>2, <1>11 DEF Confine, Exec, KidStep, pipeVars, EndStatuses
<1> QED BY <1>4, <1>5, <1>6, <1>7, <1>8, <1>9, <1>10, <1>11 DEF KidSetup

LEMMA TargetUntouched == ASSUME StatusInv, TargetNext PROVE StatusUntouched
<1>1. fds \in [Processes -> [FdNames -> Ends]]
  BY DEF StatusInv, KidInv, TypeOK
<1>2. CASE TargetForks
  BY <1>1, <1>2 DEF TargetForks, KidFrame, pipeVars, appVars, StatusUntouched
<1>3. CASE TargetEnds
  BY <1>3, EndUntouched DEF TargetEnds, EndStatuses
<1>4. CASE DescendantEnds
  BY <1>1, <1>4 DEF DescendantEnds, KidFrame, pipeVars, appVars, StatusUntouched
<1> QED BY <1>2, <1>3, <1>4 DEF TargetNext

LEMMA KillUntouched == ASSUME StatusInv, Kill PROVE StatusUntouched
<1>1. fds \in [Processes -> [FdNames -> Ends]]
  BY DEF StatusInv, KidInv, TypeOK
<1>2. GroupExists => kid # "unborn"
  BY DEF GroupExists, StatusInv, KidInv, KidSetUp
<1>3. CASE GroupExists
  BY <1>1, <1>2, <1>3 DEF Kill, pipeVars, StatusUntouched, EndStatuses
<1>4. CASE ~GroupExists
  BY <1>4 DEF Kill, pipeVars, StatusUntouched
<1> QED BY <1>3, <1>4

\* The application's writing and handing over.
LEMMA HandingKeepsStatus ==
    ASSUME StatusInv, HandOver \/ WriteGrants \/ StopWriting \/ GiveUpWriting, KidInv'
    PROVE  StatusInv'
<1>1. /\ UNCHANGED <<mode, sup, kid, ended, fds, toSend, sending, statusPipe, received,
                     outcome, eof, failed>>
      /\ app # "closed" /\ app' # "closed"
  BY DEF HandOver, WriteGrants, StopWriting, GiveUpWriting, helperVars, pipeVars
<1>2. appFds' \in {appFds, appFds \ HandedEnds(mode, confined), appFds \ {"grantWrite"}}
  BY DEF HandOver, WriteGrants, StopWriting, GiveUpWriting
<1>3. ("statusRead" \in appFds' <=> "statusRead" \in appFds)
      /\ ("tty" \in appFds' <=> "tty" \in appFds)
  BY <1>2 DEF HandedEnds
<1>4. StatusTypeOK' /\ SecondFrameIsTrue'
  BY <1>1 DEF StatusInv, StatusTypeOK, SecondFrameIsTrue, IsTheTargets
<1>5. FramesInOrder'
  BY <1>1 DEF StatusInv, FramesInOrder, IsTheTargets, Sent
<1>6. EndsKept'
  BY <1>1, <1>3 DEF StatusInv, EndsKept
<1>7. OutcomeIsTrue' /\ NoEarlyEnd'
  BY <1>1 DEF StatusInv, OutcomeIsTrue, ExitIsTheTargets, LostIsLost, NoEarlyEnd
<1> QED BY <1>4, <1>5, <1>6, <1>7 DEF StatusInv

\* A byte of a frame; the last one of the second is the outcome.
LEMMA ByteKeepsStatus ==
    ASSUME StatusInv, ReadStatus, statusPipe # <<>>, KidInv'
    PROVE  StatusInv'
<1>1. /\ UNCHANGED <<mode, sup, kid, ended, fds, toSend, sending, app, eof, failed>>
      /\ app = "open" /\ outcome = "none"
      /\ statusPipe' = Tail(statusPipe) /\ received' = Append(received, Head(statusPipe))
  BY DEF ReadStatus, helperVars
<1>2. /\ Len(statusPipe) \in Nat \ {0} /\ Len(received) \in Nat
      /\ statusPipe \in Seq({"pid"} \cup EndStatuses)
      /\ Len(statusPipe') = Len(statusPipe) - 1 /\ Len(received') = Len(received) + 1
      /\ Head(statusPipe) = statusPipe[1]
      /\ \A k \in 1..Len(statusPipe') : statusPipe'[k] = statusPipe[k + 1]
  BY <1>1 DEF StatusInv, StatusTypeOK
<1>3. StatusTypeOK'
  BY <1>1, <1>2 DEF StatusInv, StatusTypeOK
<1>4. Sent' = Sent
  BY <1>2 DEF Sent
<1>5. FramesInOrder'
  BY <1>1, <1>4 DEF StatusInv, FramesInOrder, IsTheTargets
<1>6. SecondFrameIsTrue'
  <2>1. ASSUME NEW k \in 1..Len(statusPipe'), Len(received') + k > FrameBytes
        PROVE  IsTheTargets(statusPipe'[k])
    <3>1. k + 1 \in 1..Len(statusPipe) /\ Len(received) + (k + 1) > FrameBytes
      BY <1>2, <2>1
    <3>2. IsTheTargets(statusPipe[k + 1])
      BY <3>1 DEF StatusInv, SecondFrameIsTrue
    <3> QED BY <1>2, <3>2
  <2> QED BY <1>1, <2>1 DEF SecondFrameIsTrue, IsTheTargets
<1>7. CASE Len(received) + 1 = 2 * FrameBytes
  <2>1. outcome' = statusPipe[1] /\ appFds' = appFds \ {"tty"}
    BY <1>1, <1>2, <1>7 DEF ReadStatus, Told
  <2>2. IsTheTargets(statusPipe[1])
    <3>1. 1 \in 1..Len(statusPipe) /\ Len(received) + 1 > FrameBytes
      BY <1>2, <1>7, SpawnerAssumption
    <3> QED BY <3>1 DEF StatusInv, SecondFrameIsTrue
  <2>3. outcome' \in EndStatuses
    BY <2>1, <2>2 DEF StatusInv, StatusTypeOK, IsTheTargets, EndStatuses
  <2>4. EndsKept'
    BY <1>1, <2>1, <2>3 DEF StatusInv, EndsKept, EndStatuses
  <2>5. OutcomeIsTrue'
    BY <1>1, <2>1, <2>2, <2>3 DEF OutcomeIsTrue, ExitIsTheTargets, LostIsLost, IsTheTargets,
       EndStatuses
  <2>6. NoEarlyEnd'
    BY <1>1, <2>2 DEF NoEarlyEnd, IsTheTargets
  <2> QED BY <1>3, <1>5, <1>6, <2>4, <2>5, <2>6 DEF StatusInv
<1>8. CASE Len(received) + 1 # 2 * FrameBytes
  <2>1. UNCHANGED <<outcome, appFds>>
    BY <1>1, <1>8 DEF ReadStatus
  <2>2. Len(received') < 2 * FrameBytes
    <3>1. Len(received) < 2 * FrameBytes
      BY <1>1 DEF StatusInv, EndsKept
    <3> QED BY <1>2, <1>8, <3>1, SpawnerAssumption
  <2>3. EndsKept'
    BY <1>1, <2>1, <2>2 DEF StatusInv, EndsKept
  <2>4. OutcomeIsTrue' /\ NoEarlyEnd'
    BY <1>1, <2>1 DEF StatusInv, OutcomeIsTrue, ExitIsTheTargets, LostIsLost, NoEarlyEnd
  <2> QED BY <1>3, <1>5, <1>6, <2>3, <2>4 DEF StatusInv
<1> QED BY <1>7, <1>8

\* The pipe ends before the last byte only where its writer was lost: the
\* supervisor keeps its end until both frames are sent.
LEMMA LossKeepsStatus ==
    ASSUME StatusInv, ReadStatus, statusPipe = <<>>, KidInv'
    PROVE  StatusInv'
<1>1. /\ UNCHANGED <<mode, sup, kid, ended, fds, toSend, sending, app, eof, failed, statusPipe,
                     received>>
      /\ app = "open" /\ outcome = "none" /\ outcome' = "lost" /\ appFds' = appFds \ {"tty"}
      /\ ~IsOpen("statusWrite")
  BY DEF ReadStatus, helperVars, Told
<1>2. sup \in {"exited", "killed"}
  BY <1>1 DEF IsOpen, StatusInv, EndsKept
<1>3. sup = "exited" => kid = "unborn"
  <2>1. Sent = Len(received) /\ Len(received) < 2 * FrameBytes
    BY <1>1 DEF StatusInv, StatusTypeOK, EndsKept, Sent
  <2>2. sup = "exited" /\ kid # "unborn" => Sent = 2 * FrameBytes
    BY <1>1 DEF StatusInv, FramesInOrder
  <2> QED BY <2>1, <2>2, SpawnerAssumption
<1>4. StatusTypeOK' /\ SecondFrameIsTrue'
  BY <1>1 DEF StatusInv, StatusTypeOK, SecondFrameIsTrue, IsTheTargets
<1>5. FramesInOrder'
  BY <1>1 DEF StatusInv, FramesInOrder, IsTheTargets, Sent
<1>6. EndsKept'
  BY <1>1 DEF StatusInv, EndsKept
<1>7. OutcomeIsTrue' /\ NoEarlyEnd'
  BY <1>1, <1>2, <1>3 DEF StatusInv, OutcomeIsTrue, ExitIsTheTargets, LostIsLost, NoEarlyEnd
<1> QED BY <1>4, <1>5, <1>6, <1>7 DEF StatusInv

\* Who still holds what an output is written to.
LEMMA WriterHeld ==
    ASSUME StatusInv, app = "open", NEW o \in Outputs, ~IsOpen(WriterOf(o))
    PROVE  \/ sup # "fork" /\ kid \in {"unborn", "ended"}
           \/ mode = "terminal" /\ outcome = "lost"
<1>1. ASSUME outcome # "none" PROVE (sup # "fork" /\ kid = "ended") \/ outcome = "lost"
  BY <1>1 DEF StatusInv, KidInv, KidFds, OutcomeIsTrue, ExitIsTheTargets
<1>2. CASE mode = "terminal"
  <2>1. outcome # "none"
    BY <1>2 DEF Outputs, WriterOf, IsOpen, StatusInv, EndsKept
  <2> QED BY <1>1, <1>2, <2>1
<1>3. CASE mode # "terminal"
  <2>1. mode = "piped" /\ o \in {"outRead", "errRead"}
    BY <1>3 DEF Outputs, StatusInv, KidInv, TypeOK
  <2>2. \A p \in Processes, f \in FdNames : fds[p][f] # (IF o = "outRead" THEN "outWrite"
                                                         ELSE "errWrite")
    BY <2>1 DEF WriterOf, IsOpen
  <2>3. sup # "fork"
    BY <2>1, <2>2 DEF StatusInv, KidInv, KidFds, Handed
  <2>4. kid \notin {"closeStatus", "setsid", "openSlave", "dupPipes"}
    BY <2>1, <2>2 DEF StatusInv, KidInv, KidFds, Handed
  <2>5. kid \notin {"claimTerminal", "cook", "dupSlave"}
    BY <2>1 DEF StatusInv, KidInv, KidSetUp
  <2>6. kid \notin {"readGrants", "confine", "exec", "target"}
    <3>1. ASSUME kid \in {"readGrants", "confine", "exec", "target"}
          PROVE  fds["kid"]["1"] = "outWrite" /\ fds["kid"]["2"] = "errWrite"
      BY <2>1, <3>1 DEF StatusInv, KidInv, KidFds, Wired, Handed
    <3> QED BY <2>1, <2>2, <3>1
  <2> QED BY <2>3, <2>4, <2>5, <2>6 DEF StatusInv, KidInv, TypeOK
<1> QED BY <1>2, <1>3

LEMMA EofKeepsStatus == ASSUME StatusInv, ReadEof, KidInv' PROVE StatusInv'
<1>1. /\ UNCHANGED <<mode, sup, kid, ended, fds, toSend, sending, statusPipe, received, app,
                     appFds, outcome, failed>>
      /\ app = "open"
  BY DEF ReadEof, helperVars, pipeVars
<1>2. PICK o \in Outputs : ~IsOpen(WriterOf(o))
  BY DEF ReadEof
<1>3. \/ sup # "fork" /\ kid \in {"unborn", "ended"}
      \/ mode = "terminal" /\ outcome = "lost"
  BY <1>1, <1>2, WriterHeld
<1>4. StatusTypeOK' /\ SecondFrameIsTrue'
  BY <1>1 DEF StatusInv, StatusTypeOK, SecondFrameIsTrue, IsTheTargets
<1>5. FramesInOrder'
  BY <1>1 DEF StatusInv, FramesInOrder, IsTheTargets, Sent
<1>6. EndsKept'
  BY <1>1, <1>3 DEF StatusInv, EndsKept
<1>7. OutcomeIsTrue' /\ NoEarlyEnd'
  BY <1>1, <1>3 DEF StatusInv, OutcomeIsTrue, ExitIsTheTargets, LostIsLost, NoEarlyEnd
<1> QED BY <1>4, <1>5, <1>6, <1>7 DEF StatusInv

\* What cannot be read is told as lost, or ended, and is recorded as such.
LEMMA StatusFailKeepsStatus ==
    ASSUME StatusInv, ReadStatusFails, KidInv'
    PROVE  StatusInv'
<1>1. /\ UNCHANGED <<mode, sup, kid, ended, fds, toSend, sending, statusPipe, received, app, eof>>
      /\ app = "open" /\ outcome = "none" /\ outcome' = "lost" /\ appFds' = appFds \ {"tty"}
      /\ failed' = failed \cup {"status"}
  BY DEF ReadStatusFails, helperVars, pipeVars, Told
<1>2. StatusTypeOK' /\ SecondFrameIsTrue'
  BY <1>1 DEF StatusInv, StatusTypeOK, SecondFrameIsTrue, IsTheTargets
<1>3. FramesInOrder'
  BY <1>1 DEF StatusInv, FramesInOrder, IsTheTargets, Sent
<1>4. EndsKept'
  BY <1>1 DEF StatusInv, EndsKept
<1>5. OutcomeIsTrue' /\ NoEarlyEnd'
  BY <1>1 DEF StatusInv, OutcomeIsTrue, ExitIsTheTargets, LostIsLost, NoEarlyEnd
<1> QED BY <1>2, <1>3, <1>4, <1>5 DEF StatusInv

LEMMA OutputFailKeepsStatus ==
    ASSUME StatusInv, ReadOutputFails, KidInv'
    PROVE  StatusInv'
<1>1. /\ UNCHANGED <<mode, sup, kid, ended, fds, toSend, sending, statusPipe, received, app,
                     appFds, outcome>>
      /\ eof' \ failed' \subseteq eof \ failed /\ failed \subseteq failed'
  BY DEF ReadOutputFails, helperVars, pipeVars
<1>2. StatusTypeOK' /\ SecondFrameIsTrue'
  BY <1>1 DEF StatusInv, StatusTypeOK, SecondFrameIsTrue, IsTheTargets
<1>3. FramesInOrder'
  BY <1>1 DEF StatusInv, FramesInOrder, IsTheTargets, Sent
<1>4. EndsKept'
  BY <1>1 DEF StatusInv, EndsKept
<1>5. OutcomeIsTrue' /\ NoEarlyEnd'
  BY <1>1 DEF StatusInv, OutcomeIsTrue, ExitIsTheTargets, LostIsLost, NoEarlyEnd
<1> QED BY <1>2, <1>3, <1>4, <1>5 DEF StatusInv

LEMMA CloseKeepsStatus == ASSUME StatusInv, Close, KidInv' PROVE StatusInv'
<1>1. /\ UNCHANGED <<mode, sup, kid, ended, fds, toSend, sending, statusPipe, received, eof,
                     failed>>
      /\ app' = "closed" /\ appFds' = {}
      /\ outcome' = IF outcome = "none" THEN "lost" ELSE outcome
  BY DEF Close, helperVars, pipeVars
<1>2. StatusTypeOK' /\ SecondFrameIsTrue'
  BY <1>1 DEF StatusInv, StatusTypeOK, SecondFrameIsTrue, IsTheTargets
<1>3. FramesInOrder'
  BY <1>1 DEF StatusInv, FramesInOrder, IsTheTargets
<1>4. EndsKept'
  BY <1>1 DEF StatusInv, EndsKept
<1>5. OutcomeIsTrue' /\ NoEarlyEnd'
  BY <1>1 DEF StatusInv, OutcomeIsTrue, ExitIsTheTargets, LostIsLost, NoEarlyEnd
<1> QED BY <1>2, <1>3, <1>4, <1>5 DEF StatusInv

LEMMA StatusStep == StatusInv /\ [Next]_vars => StatusInv'
<1> SUFFICES ASSUME StatusInv, [Next]_vars PROVE StatusInv'
  OBVIOUS
<1>1. KidInv'
  BY KidInvStep DEF StatusInv
<1>2. CASE UNCHANGED vars
  BY <1>1, <1>2, StatusUntouchedKeeps DEF vars, helperVars, pipeVars, appVars, StatusUntouched
<1>3. CASE SupNext \/ SupDies
  BY <1>1, <1>3, ForkKeepsStatus, ClosingKeepsStatus, WriteKeepsStatus, WaitKeepsStatus,
     LeavingKeepsStatus DEF SupNext
<1>4. CASE KidSetup \/ TargetNext \/ Kill
  BY <1>1, <1>4, StatusUntouchedKeeps, SetupUntouched, TargetUntouched, KillUntouched
<1>5. CASE ReadStatus
  BY <1>1, <1>5, ByteKeepsStatus, LossKeepsStatus
<1>6. CASE ReadStatusFails \/ ReadOutputFails
  BY <1>1, <1>6, StatusFailKeepsStatus, OutputFailKeepsStatus
<1>7. CASE HandOver \/ WriteGrants \/ StopWriting \/ GiveUpWriting \/ ReadEof \/ Close
  BY <1>1, <1>7, HandingKeepsStatus, EofKeepsStatus, CloseKeepsStatus
<1> QED BY <1>2, <1>3, <1>4, <1>5, <1>6, <1>7 DEF Next, AppNext, AppReads

(***************************************************************************)
(* The inductive invariant of the status pipe: the frames go out whole and *)
(* in order, and what follows the first is the status of a target that has *)
(* ended (main.rs:107-158, status_channel.dart).                           *)
(***************************************************************************)
THEOREM StatusInvariance == Spec => []StatusInv
BY StatusInit, StatusStep, PTL DEF Spec

(***************************************************************************)
(* The application is told the status the target ended with, and of a lost *)
(* supervisor only when one was lost or the pipe could not be read,        *)
(* however the bytes of the frames, a kill, a crash of the supervisor, a   *)
(* failing read and a close interleave.                                    *)
(***************************************************************************)
THEOREM OutcomeTrue == Spec => []OutcomeIsTrue
<1>1. StatusInv => OutcomeIsTrue
  BY DEF StatusInv
<1> QED BY <1>1, StatusInvariance, PTL

(***************************************************************************)
(* No output that can be read ends while the child still has to set up or  *)
(* use its stdio, whoever closes what first: the safety half of            *)
(* OutputsEnd.                                                             *)
(***************************************************************************)
THEOREM OutputsLast == Spec => []NoEarlyEnd
<1>1. StatusInv => NoEarlyEnd
  BY DEF StatusInv
<1> QED BY <1>1, StatusInvariance, PTL

=============================================================================
