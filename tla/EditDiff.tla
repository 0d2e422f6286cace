------------------------------ MODULE EditDiff ------------------------------
(***************************************************************************)
(* The hunks that show an edit (diff.rs).  The line matching is that of    *)
(* the `similar` library: a script says of each line, in order, whether    *)
(* it stays, is removed or is added.  A line's text is its place in the    *)
(* script.                                                                 *)
(***************************************************************************)
EXTENDS Naturals, FiniteSets, Sequences, Places

CONSTANTS ContextLines,     \* unchanged lines shown either side of a change
          LineCap           \* lines a diff may carry

DiffAssumption == ContextLines \in Nat /\ LineCap \in Nat
ASSUME DiffAssumption

Tags == {"equal", "delete", "insert"}

\* How many of the first n lines of a script have one of these tags.
CountIn(script, tags, n) == Cardinality({i \in 1..n : script[i] \in tags})

OldLines == {"equal", "delete"}
NewLines == {"equal", "insert"}

\* grouped_ops: the lines near a change, in runs without a gap between them.
Near(script) ==
    {i \in 1..Len(script) : \E j \in 1..Len(script) :
        /\ script[j] # "equal"
        /\ j - i <= ContextLines /\ i - j <= ContextLines}

Groups(script) ==
    LET near == Near(script)
        starts == Ordered({i \in near : i - 1 \notin near})
        ends == Ordered({i \in near : i + 1 \notin near})
    IN  [k \in 1..Len(starts) |-> [first |-> starts[k], last |-> ends[k]]]

Kind(tag) ==
    CASE tag = "equal" -> "context" [] tag = "insert" -> "added" [] tag = "delete" -> "removed"

\* Mutated form of Hunk: the lines are numbered from zero.
HunkFromZero(script, group, lines) ==
    [oldStart |-> CountIn(script, OldLines, group.first - 1),
     oldCount |-> CountIn(script, OldLines, group.last) - CountIn(script, OldLines, group.first - 1),
     newStart |-> CountIn(script, NewLines, group.first - 1),
     newCount |-> CountIn(script, NewLines, group.last) - CountIn(script, NewLines, group.first - 1),
     lines |-> lines]

\* A group's place in both files, counted from one, and the lines carried.
Hunk(script, group, lines) ==
    LET oldBefore == CountIn(script, OldLines, group.first - 1)
        newBefore == CountIn(script, NewLines, group.first - 1)
    IN  [oldStart |-> oldBefore + 1,
         oldCount |-> CountIn(script, OldLines, group.last) - oldBefore,
         newStart |-> newBefore + 1,
         newCount |-> CountIn(script, NewLines, group.last) - newBefore,
         lines |-> lines]

\* One turn of the loop over the groups: lines are carried until the cap is
\* met with a line still to come, which ends the diff with this hunk.
AddGroup(script, so_far, group) ==
    IF so_far.truncated THEN so_far
    ELSE LET length == group.last - group.first + 1
             room == LineCap - so_far.carried
             carried == IF length > room THEN room ELSE length
             Line(i) == [kind |-> Kind(script[i]), text |-> i]
             lines == [k \in 1..carried |-> Line(group.first + k - 1)]
         IN  [hunks |-> Append(so_far.hunks, Hunk(script, group, lines)),
              carried |-> so_far.carried + carried,
              truncated |-> length > room]

Diff(script) ==
    LET groups == Groups(script)
        told[k \in 0..Len(groups)] ==
          IF k = 0 THEN [hunks |-> <<>>, carried |-> 0, truncated |-> FALSE]
          ELSE AddGroup(script, told[k - 1], groups[k])
        all == told[Len(groups)]
    IN  [hunks |-> all.hunks, truncated |-> all.truncated,
         added |-> CountIn(script, {"insert"}, Len(script)),
         removed |-> CountIn(script, {"delete"}, Len(script))]

=============================================================================
