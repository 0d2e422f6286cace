----------------------------- MODULE MCEditFile -----------------------------
(* Edits and creates of one path, by runs that may be killed. *)
EXTENDS EditFile, FiniteSets, TLC

CONSTANTS a, b, p1, p2, p3, n1, n2

\* The third run may get the process id of the first.
MCPidOf == (p1 :> n1) @@ (p2 :> n2) @@ (p3 :> n1)

TwoPids == (p1 :> n1) @@ (p2 :> n2)

Holding(x, y) == (a :> x) @@ (b :> y)

EditOf(old, new, all) ==
    [action |-> "edit", form |-> "named", old |-> old, new |-> new, replaceAll |-> all]

\* One a becomes b, every a becomes b, b becomes a, and a stays a.
Edits == {EditOf(a, b, FALSE), EditOf(a, b, TRUE), EditOf(b, a, FALSE)}

Creates == {[action |-> "create", form |-> "named", text |-> Holding(1, 0)]}

Odd == {[EditOf(a, b, FALSE) EXCEPT !.form = "nameless"],
        [EditOf(a, b, FALSE) EXCEPT !.form = "unreadable"],
        [action |-> "create", form |-> "nameless", text |-> Holding(1, 0)]}

File(text, mode) == Text(text, mode, TRUE)

\* Three runs on one text or on nothing: three edits or three creates.  The
\* text holds one of each token, so the first run's edit may be either.
Contended ==
    /\ target \in {Missing, File(Holding(1, 1), ReadOnlyMode)}
    /\ \A p \in Procs :
         request[p] \in IF target = Missing THEN Creates
                       ELSE {EditOf(a, b, FALSE), EditOf(b, a, FALSE)}
    /\ request[p1] \in Creates \cup {EditOf(a, b, FALSE)}

\* Two runs, every kind of request on every kind of path; the third stays out.
Varied == p3 \in Procs /\ request[p3] = EditOf(a, a, TRUE)

EveryRequest == Edits \cup Creates \cup Odd \cup {EditOf(a, a, TRUE)}
EveryKind ==
    {Missing, File(Holding(1, 1), ReadOnlyMode), File(Holding(2, 0), ReadOnlyMode),
     File(Holding(1, 0), "private"),
     [kind |-> "link"], [kind |-> "directory"], [kind |-> "binary"]}

Modes3 == {"default", "readOnly", "private"}

InodeSymmetry == Permutations(Inodes)

Acting == IF Varied THEN Procs \ {p3} ELSE Procs

Ended == \A p \in Acting : step[p] \in {"replied", "died"}

Done == Ended /\ UNCHANGED vars

MCInit == Init /\ (Contended \/ Varied)

\* The errors of looks and removals that the runs ignore in one behaviour:
\* none while three contend.
MaxIgnored == IF Varied THEN 1 ELSE 0

\* The three contend without power failures.
MCNext ==
    \/ \E p \in Acting :
         (Run(p) \/ Killed(p)) /\ Cardinality(failed') <= MaxIgnored
    \/ Varied /\ (Flush \/ PowerFailure)

SafeSpec == MCInit /\ [][MCNext \/ Done]_vars

\* Two runs with kills only.
PairInit == Init /\ Contended

LiveSpec == PairInit /\ [][(\E p \in Procs : Run(p) \/ Killed(p)) \/ Done]_vars /\ Fairness

=============================================================================
