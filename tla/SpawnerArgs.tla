---------------------------- MODULE SpawnerArgs -----------------------------
(***************************************************************************)
(* The helper's command line (spawner/src/main.rs) and the one the         *)
(* application builds for it (supervised_spawn.dart).  An argument is a    *)
(* word; Numbers are the words that parse as a descriptor.                 *)
(***************************************************************************)
EXTENDS Naturals, FiniteSets, SequencesExt

CONSTANT Numbers

NumbersAssumption == Numbers \cap {"--", "--confine-fd", "none"} = {}
ASSUME NumbersAssumption

Usage == [kind |-> "usage"]

\* The place of a word's first occurrence, or 0.
Position(words, word) == SelectInSeq(words, LAMBDA w : w = word)

\* Mutated form of ExtractConfineFd: a flag without a number is ignored.
ExtractOrIgnore(head) ==
    LET pos == Position(head, "--confine-fd") IN
    IF pos = 0 THEN [kind |-> "head", confine |-> "none", head |-> head]
    ELSE IF pos + 1 <= Len(head) /\ head[pos + 1] \in Numbers
    THEN [kind |-> "head", confine |-> head[pos + 1],
          head |-> SubSeq(head, 1, pos - 1) \o SubSeq(head, pos + 2, Len(head))]
    ELSE [kind |-> "head", confine |-> "none", head |-> RemoveAt(head, pos)]

\* The flag and its number leave the head, so the mode's arity still holds;
\* a flag without a number is a usage error.
ExtractConfineFd(head) ==
    LET pos == Position(head, "--confine-fd") IN
    IF pos = 0 THEN [kind |-> "head", confine |-> "none", head |-> head]
    ELSE IF pos + 1 <= Len(head) /\ head[pos + 1] \in Numbers
    THEN [kind |-> "head", confine |-> head[pos + 1],
          head |-> SubSeq(head, 1, pos - 1) \o SubSeq(head, pos + 2, Len(head))]
    ELSE Usage

\* Everything before the first separator is the helper's, the rest the
\* target's, which may have separators of its own.
ParseArgs(args) ==
    LET sep == Position(args, "--")
        target == SubSeq(args, sep + 1, Len(args))
        split == ExtractConfineFd(SubSeq(args, 1, sep - 1))
    IN  IF sep = 0 \/ target = <<>> \/ split = Usage THEN Usage
        ELSE LET h == split.head IN
             IF Len(h) = 4 /\ h[2] = "terminal" /\ h[3] \in Numbers
             THEN [kind |-> "terminal", status |-> h[3], slave |-> h[4],
                   confine |-> split.confine, target |-> target]
             ELSE IF Len(h) = 6 /\ h[2] = "piped" /\ \A i \in 3..6 : h[i] \in Numbers
             THEN [kind |-> "piped", status |-> h[3], in |-> h[4], out |-> h[5], err |-> h[6],
                   confine |-> split.confine, target |-> target]
             ELSE Usage

\* The command line the application builds for an invocation.
Argv(inv) ==
    <<"spawner", inv.kind, inv.status>>
      \o (IF inv.kind = "terminal" THEN <<inv.slave>> ELSE <<inv.in, inv.out, inv.err>>)
      \o (IF inv.confine = "none" THEN <<>> ELSE <<"--confine-fd", inv.confine>>)
      \o <<"--">> \o inv.target

=============================================================================
