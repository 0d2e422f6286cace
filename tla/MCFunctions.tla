---------------------------- MODULE MCFunctions -----------------------------
(***************************************************************************)
(* What the helpers compute without touching anything: an edit's text, its *)
(* diff, the grant program, the Seatbelt profile and the spawner's command *)
(* line, each on every small input.  One initial state is one input.       *)
(***************************************************************************)
EXTENDS EditText, EditDiff, ConfineWire, Seatbelt, SpawnerArgs

CONSTANTS Letter, MaxText, MaxPart,            \* of an edit
          MaxLines,                            \* of a diff's script
          MaxPath, MaxDepth, MaxGrants, MaxDenies,   \* of a policy
          Words, MaxWords, MaxTarget           \* of a command line

FunctionsAssumption ==
    /\ Letter \notin {NUL, Bad} /\ "/" \notin {Quote, Backslash, Control}
    /\ {MaxText, MaxPart, MaxLines, MaxPath, MaxDepth, MaxGrants, MaxDenies, MaxWords, MaxTarget}
         \subseteq Nat
ASSUME FunctionsAssumption

VARIABLES called,    \* the function called
          input, output

callVars == <<called, input, output>>

Pending == <<>>

-----------------------------------------------------------------------------
(* The inputs. *)

Texts(n) == BoundedSeq({Letter, CR, LF}, n)

Edits ==
    [original : Texts(MaxText), old : Texts(MaxPart) \ {<<>>}, new : Texts(MaxPart), all : BOOLEAN]

Scripts == BoundedSeq(Tags, MaxLines)

SmallPolicies(paths, accesses) ==
    [network : Networks,
     grants : BoundedSeq([access : accesses, path : paths], MaxGrants),
     denies : BoundedSeq([access : {"Deny"}, path : paths], MaxDenies)]

WirePaths == {<<"/">> \o p : p \in BoundedSeq({Letter}, MaxPath)}

\* What may happen to a program, and where it may.
Damages == {"none", "cut", "lost", "repeated", "spoilt"}

DamagedAt(damage, p) ==
    CASE damage = "none" -> {0}
      [] damage = "cut" -> 0..Len(EncodeWire(p)) - 1
      [] OTHER -> 1..Len(FieldsOf(p))

Program(i) ==
    LET fields == FieldsOf(i.policy)
    IN  CASE i.damage = "none" -> EncodeWire(i.policy)
          [] i.damage = "cut" -> SubSeq(EncodeWire(i.policy), 1, i.place)
          [] i.damage = "lost" -> Joined(RemoveAt(fields, i.place))
          [] i.damage = "repeated" -> Joined(InsertAt(fields, i.place, fields[i.place]))
          [] i.damage = "spoilt" -> Joined([fields EXCEPT ![i.place] = Append(@, Bad)])

\* A name that begins with the other and has what must be escaped; one
\* with a control character.
TreeNames == {<<"a">>, <<"a", Quote, Backslash>>, <<"a", Control>>}
Dirs == BoundedSeq(TreeNames, MaxDepth)
Tree == Dirs \cup {DevNull, DevTty}

\* The terminal is a regular file here.
MCDevices == {DevNull}

Targets == BoundedSeq(Words, MaxTarget) \ {<<>>}
Confinements == Numbers \cup {"none"}

Invocations ==
    [kind : {"terminal"}, status : Numbers, slave : {"tty"}, confine : Confinements, target : Targets]
      \cup [kind : {"piped"}, status : Numbers, in : Numbers, out : Numbers, err : Numbers,
            confine : Confinements, target : Targets]

\* Command lines the application builds, and any others.
CommandLine(i) == IF "argv" \in DOMAIN i THEN i.argv ELSE Argv(i)

-----------------------------------------------------------------------------
CallInit ==
    /\ output = Pending
    /\ \/ called = "edit" /\ input \in Edits
       \/ called = "diff" /\ input \in Scripts
       \/ called = "program" /\ \E p \in SmallPolicies(WirePaths, Accesses), d \in Damages :
            \E at \in DamagedAt(d, p) : input = [policy |-> p, damage |-> d, place |-> at]
       \/ called = "profile" /\ input \in SmallPolicies(Dirs, {"Read", "ReadWrite"})
       \/ called = "arguments" /\ input \in Invocations
       \/ called = "arguments" /\ \E w \in BoundedSeq(Words, MaxWords) :
            input = [argv |-> <<"spawner">> \o w]

Answer(name, value) ==
    called = name /\ output = Pending /\ output' = <<value>> /\ UNCHANGED <<called, input>>

CallNext ==
    \/ Answer("edit", Edit(input.original, input.old, input.new, input.all))
    \/ Answer("diff", Diff(input))
    \/ Answer("program", Parse(Program(input)))
    \/ Answer("profile", Profile(input))
    \/ Answer("arguments", ParseArgs(CommandLine(input)))

CallSpec == CallInit /\ [][CallNext]_callVars

Answered(name) == called = name /\ output # Pending

-----------------------------------------------------------------------------
(* An edit's text (edit.rs). *)

Old == WithFileLineEndings(input.original, input.old, input.new)[1]
New == WithFileLineEndings(input.original, input.old, input.new)[2]

Succeeded(answer) == answer.reply = "succeeded"

\* A way to find Old: places where it occurs, none inside another.
Packings == {S \in SUBSET Occurrences(input.original, Old) :
                \A i, j \in S : i < j => i + Len(Old) <= j}

\* The text around the place replaced is what it was.
ReplacesOnePlace(answer) ==
    /\ Succeeded(answer) /\ ~input.all =>
         \E i \in Occurrences(input.original, Old) :
           answer.text = SubSeq(input.original, 1, i - 1) \o New
                           \o SubSeq(input.original, i + Len(Old), Len(input.original))
    /\ ~Succeeded(answer) => answer.text = input.original

\* The occurrences told are the most places that can be replaced at once.
CountsWhatCanBeReplaced(answer) ==
    answer.reply \in {"ambiguous", "succeeded"} =>
      /\ answer.reply = "ambiguous" \/ input.all =>
           \A S \in Packings : Cardinality(S) <= answer.occurrences
      /\ Succeeded(answer) =>
           Len(answer.text) + answer.occurrences * Len(Old)
             = Len(input.original) + answer.occurrences * Len(New)

AllCrlf(text) == \A i \in LineFeeds(text) : i > 1 /\ text[i - 1] = CR

LoneCR(text) == \E i \in 1..Len(text) : text[i] = CR /\ (i = Len(text) \/ text[i + 1] # LF)

CrlfFile == AllCrlf(input.original) /\ ~LoneCR(input.original)

BareRequestKeepsCrlf(answer) ==
    Succeeded(answer) /\ CrlfFile /\ LineFeeds(input.original) # {}
      /\ ~Contains(input.old, CR) /\ ~Contains(input.new, CR)
    => AllCrlf(answer.text) /\ ~LoneCR(answer.text)

\* Every line the first replacement touches is shown, under the number it
\* has in the new file, and at most the context either side.
SnippetShowsTheEdit(answer) ==
    Succeeded(answer) =>
      LET at == Head(Matches(input.original, Old))
          lines == Lines(answer.text)
          LineOf(i) == 1 + Cardinality({j \in LineFeeds(answer.text) : j < i})
          region == {k \in LineOf(at)..LineOf(at + Len(New)) : k <= Len(lines)}
      IN  /\ \A k \in region : <<k, lines[k]>> \in ToSet(answer.snippet)
          /\ \A i \in 1..Len(answer.snippet) :
               /\ answer.snippet[i][2] = lines[answer.snippet[i][1]]
               /\ answer.snippet[i][1] \in
                    LineOf(at) - SnippetContext..LineOf(at + Len(New)) + SnippetContext

(***************************************************************************)
(* An edit without replaceAll changes one place to what was asked and one  *)
(* refused changes nothing; the count the model is told is that of the     *)
(* places that can be replaced at once; in a file whose lines all end in   *)
(* CRLF a request with bare newlines leaves them so; and the snippet shows *)
(* what was changed where it is now (edit.rs:46-100).                      *)
(***************************************************************************)
EditDoesAsAsked ==
    Answered("edit") =>
      LET answer == output[1] IN
      /\ ReplacesOnePlace(answer)
      /\ CountsWhatCanBeReplaced(answer)
      /\ BareRequestKeepsCrlf(answer)
      /\ SnippetShowsTheEdit(answer)

-----------------------------------------------------------------------------
(* A diff (diff.rs). *)

Side(tags) == Ordered({i \in 1..Len(input) : input[i] \in tags})

OldFile == Side(OldLines)
NewFile == Side(NewLines)

\* The lines of a hunk that belong to one side.
HunkSide(h, kinds) ==
    LET lines == ItemsAt(h.lines, {k \in 1..Len(h.lines) : h.lines[k].kind \in kinds})
    IN  [k \in 1..Len(lines) |-> lines[k].text]

\* The old file with each hunk's old lines replaced by its new ones.
Patched(hunks) ==
    LET n == Len(hunks)
        From(k) == IF k = 0 THEN 1 ELSE hunks[k].oldStart + hunks[k].oldCount
        Until(k) == IF k = n THEN Len(OldFile) ELSE hunks[k + 1].oldStart - 1
        Between(k) == SubSeq(OldFile, From(k), Until(k))
    IN  FlattenSeq([k \in 1..2 * n + 1 |->
            IF k % 2 = 0 THEN HunkSide(hunks[k \div 2], {"context", "added"})
            ELSE Between(k \div 2)])

RebuildsTheFile(shown) ==
    ~shown.truncated =>
      /\ Patched(shown.hunks) = NewFile
      /\ \A k \in 1..Len(shown.hunks) : LET h == shown.hunks[k] IN
           /\ HunkSide(h, {"context", "removed"})
                = SubSeq(OldFile, h.oldStart, h.oldStart + h.oldCount - 1)
           /\ HunkSide(h, {"context", "added"})
                = SubSeq(NewFile, h.newStart, h.newStart + h.newCount - 1)

CutAtTheCap(shown) ==
    LET near == Near(input)
        lines == FlattenSeq([k \in 1..Len(shown.hunks) |-> shown.hunks[k].lines])
    IN  /\ Len(lines) = IF Cardinality(near) > LineCap THEN LineCap ELSE Cardinality(near)
        /\ shown.truncated <=> Cardinality(near) > LineCap
        /\ \A k \in 1..Len(lines) : Cardinality({i \in near : i < lines[k].text}) = k - 1

CountsStayWhole(shown) ==
    /\ Len(NewFile) + shown.removed = Len(OldFile) + shown.added
    /\ Len(NewFile) - shown.added = CountIn(input, {"equal"}, Len(input))

(***************************************************************************)
(* A diff that is not truncated says all of the edit: its hunks, put where *)
(* their headers say, turn the old file into the new one.  A truncated one *)
(* is its beginning, as many lines as the cap allows, and says so exactly  *)
(* when some are missing; "the counts stay whole" (diff.rs:10) either way. *)
(***************************************************************************)
DiffTellsTheEdit ==
    Answered("diff") =>
      LET shown == output[1] IN
      RebuildsTheFile(shown) /\ CutAtTheCap(shown) /\ CountsStayWhole(shown)

-----------------------------------------------------------------------------
(* The grant program (wire.dart, wire.rs). *)

Accepted == "network" \in DOMAIN output[1]

RecordsOf(p) == p.grants \o p.denies

\* Only the last path of a program cut short can be shorter.
FirstRecordsOf(decoded, p) ==
    LET n == Len(RecordsOf(decoded))
    IN  /\ decoded.network = p.network
        /\ n <= Len(RecordsOf(p))
        /\ n > 0 => /\ IsPrefix(Front(RecordsOf(decoded)), RecordsOf(p))
                    /\ RecordsOf(decoded)[n].access = RecordsOf(p)[n].access
                    /\ IsPrefix(RecordsOf(decoded)[n].path, RecordsOf(p)[n].path)

(***************************************************************************)
(* The child confines itself to the policy the application encoded, each   *)
(* grant and deny in order.  "failing closed on any anomaly" (wire.rs:27): *)
(* a program with one field lost, repeated or spoilt is refused whatever   *)
(* the fields after it look like when read one place off, and one cut      *)
(* short is refused or asks for its first records in the same tier.        *)
(***************************************************************************)
ProgramFailsClosed ==
    Answered("program") =>
      /\ input.damage = "none" => output[1] = input.policy
      /\ input.damage \in {"lost", "repeated", "spoilt"} => ~Accepted
      /\ input.damage = "cut" /\ Accepted => FirstRecordsOf(output[1], input.policy)

-----------------------------------------------------------------------------
(* The Seatbelt profile (seatbelt.rs). *)

Remotes == {"elsewhere", "loopback tcp", "mDNSResponder", "other local socket"}

(***************************************************************************)
(* The profile says the policy and nothing else, whatever the order, the   *)
(* overlaps and the spelling of the paths: a path is read where a grant    *)
(* covers it and no deny does, written where a grant with write does, and  *)
(* besides only the root, what is above a grant or a deny (its metadata)   *)
(* and the devices are let through; what can be read can be reached; and   *)
(* the tier decides how far the network goes (seatbelt.rs:57-114).         *)
(***************************************************************************)
ProfileSaysThePolicy ==
    Answered("profile") /\ output[1] # BadPath =>
      /\ \A path \in Tree : /\ FilesAsAsked(input, output[1], path)
                            /\ ReadableIsReachable(output[1], path)
      /\ \A place \in Remotes : TierDecidesReach(input, output[1], place)

-----------------------------------------------------------------------------
(***************************************************************************)
(* The helper does what the application asks, whatever words the target's  *)
(* own command line has; and "a malformed confinement request is a usage   *)
(* error, never a silently unconfined spawn" (main.rs:118): a flag         *)
(* anywhere before the separator is honoured or refuses the command line.  *)
(***************************************************************************)
ArgumentsDoAsAsked ==
    Answered("arguments") =>
      LET parsed == output[1]
          args == CommandLine(input)
      IN  /\ "argv" \notin DOMAIN input => parsed = input
          /\ parsed.kind # "usage" /\ parsed.confine = "none" =>
               \A i \in 1..Len(args) :
                 args[i] = "--confine-fd" => \E j \in 1..i : args[j] = "--"

-----------------------------------------------------------------------------
(* What the code's words say and the code does not do. *)

(***************************************************************************)
(* "so the file's endings survive the edit" (edit.rs:76), for a request    *)
(* that already writes CRLF.                                               *)
(***************************************************************************)
CrlfRequestKeepsCrlf ==
    Answered("edit") /\ Succeeded(output[1]) /\ CrlfFile
      /\ \A text \in {input.old, input.new} : AllCrlf(text) /\ ~LoneCR(text)
    => AllCrlf(output[1].text) /\ ~LoneCR(output[1].text)

(***************************************************************************)
(* "The text to find. Must occur exactly once unless [replaceAll]"         *)
(* (edit_request.dart:26).                                                 *)
(***************************************************************************)
OccursExactlyOnce ==
    Answered("edit") /\ Succeeded(output[1]) /\ ~input.all =>
      Cardinality(Occurrences(input.original, Old)) = 1

(***************************************************************************)
(* "One exact-string replacement in an existing file" (wire.rs:10): text   *)
(* that is in the file as asked is found.                                  *)
(***************************************************************************)
ExactTextIsFound ==
    Answered("edit") /\ output[1].reply = "targetMissing" =>
      Occurrences(input.original, input.old) = {}

(***************************************************************************)
(* A hunk is "One run of changed lines with its context" (wire.rs:56): it  *)
(* has lines to show.                                                      *)
(***************************************************************************)
HunksHaveLines ==
    Answered("diff") => \A k \in 1..Len(output[1].hunks) : output[1].hunks[k].lines # <<>>

(***************************************************************************)
(* "the child then sees a short program and fails closed on the magic      *)
(* check" (supervised_spawn.dart:459-460).                                 *)
(***************************************************************************)
ShortProgramIsRefused == Answered("program") /\ input.damage = "cut" => ~Accepted

=============================================================================
