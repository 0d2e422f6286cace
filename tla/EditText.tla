------------------------------ MODULE EditText ------------------------------
(***************************************************************************)
(* The text side of one edit (edit.rs): line endings, occurrences, the     *)
(* replacement and the snippet of the reply.  A text is a sequence of      *)
(* characters, CR and LF among them.                                       *)
(***************************************************************************)
EXTENDS Naturals, FiniteSets, SequencesExt, Places

CONSTANTS CR, LF,
          SnippetContext    \* lines shown either side of the edited region

TextAssumption == CR # LF /\ SnippetContext \in Nat
ASSUME TextAssumption

OccursAt(text, part, i) ==
    /\ i + Len(part) - 1 <= Len(text)
    /\ SubSeq(text, i, i + Len(part) - 1) = part

Occurrences(text, part) == {i \in 1..Len(text) : OccursAt(text, part, i)}

\* str::matches: where part occurs, from the left and never overlapping.
Matches(text, part) ==
    LET Free(before, i) == before = <<>> \/ Last(before) + Len(part) <= i
        found[i \in 0..Len(text)] ==
          IF i = 0 THEN <<>>
          ELSE LET before == found[i - 1]
               IN  IF OccursAt(text, part, i) /\ Free(before, i) THEN Append(before, i) ELSE before
    IN  found[Len(text)]

\* Mutated form of ReplaceN: the text goes on after the length of new, not of old.
ReplaceNew(text, old, new, n) ==
    LET at == Matches(text, old)
        m == IF n < Len(at) THEN n ELSE Len(at)
        Gap(k) == SubSeq(text, IF k = 0 THEN 1 ELSE at[k] + Len(new),
                               IF k = m THEN Len(text) ELSE at[k + 1] - 1)
    IN  FlattenSeq([k \in 1..2 * m + 1 |-> IF k % 2 = 0 THEN new ELSE Gap(k \div 2)])

\* str::replacen: the first n matches of old become new, the gaps stay.
ReplaceN(text, old, new, n) ==
    LET at == Matches(text, old)
        m == IF n < Len(at) THEN n ELSE Len(at)
        Gap(k) == SubSeq(text, IF k = 0 THEN 1 ELSE at[k] + Len(old),
                               IF k = m THEN Len(text) ELSE at[k + 1] - 1)
    IN  FlattenSeq([k \in 1..2 * m + 1 |-> IF k % 2 = 0 THEN new ELSE Gap(k \div 2)])

ToCrlf(text) ==
    FlattenSeq([i \in 1..Len(text) |-> IF text[i] = LF THEN <<CR, LF>> ELSE <<text[i]>>])

\* A file with a CRLF is edited with CRLF strings, unless old has a CR.
WithFileLineEndings(original, old, new) ==
    IF Occurrences(original, <<CR, LF>>) # {} /\ ~Contains(old, CR)
    THEN <<ToCrlf(old), ToCrlf(new)>> ELSE <<old, new>>

LineFeeds(text) == {i \in 1..Len(text) : text[i] = LF}

\* str::lines: the lines without their endings; no line follows a last LF.
Lines(text) ==
    LET ends == Ordered((LineFeeds(text) \cup {Len(text)}) \ {0})
        Whole(k) == SubSeq(text, IF k = 1 THEN 1 ELSE ends[k - 1] + 1, ends[k])
        Bare(line) == IF Last(line) # LF THEN line
                      ELSE IF IsSuffix(<<CR, LF>>, line) THEN SubSeq(line, 1, Len(line) - 2)
                      ELSE Front(line)
    IN  [k \in 1..Len(ends) |-> Bare(Whole(k))]

\* The lines of the region that begins at `at` with some context, numbered.
Snippet(edited, at, new) ==
    LET first == Cardinality(LineFeeds(SubSeq(edited, 1, at - 1)))
        last == first + Cardinality(LineFeeds(new))
        start == IF first > SnippetContext THEN first - SnippetContext ELSE 0
        all == Lines(edited)
    IN  ItemsAt([k \in 1..Len(all) |-> <<k, all[k]>>],
                {k \in 1..Len(all) : k - 1 \in start..last + SnippetContext})

\* The reply to an edit and the text the file holds after it.
Edit(original, oldAsked, newAsked, replaceAll) ==
    LET strings == WithFileLineEndings(original, oldAsked, newAsked)
        old == strings[1]
        new == strings[2]
        count == Len(Matches(original, old))
        edited == ReplaceN(original, old, new, IF replaceAll THEN count ELSE 1)
    IN  IF count = 0 THEN [reply |-> "targetMissing", text |-> original]
        ELSE IF count > 1 /\ ~replaceAll
        THEN [reply |-> "ambiguous", text |-> original, occurrences |-> count]
        ELSE IF edited = original THEN [reply |-> "noChange", text |-> original]
        ELSE [reply |-> "succeeded", text |-> edited,
              occurrences |-> IF replaceAll THEN count ELSE 1,
              snippet |-> Snippet(edited, Head(Matches(original, old)), new)]

=============================================================================
