---------------------------- MODULE ConfineWire -----------------------------
(***************************************************************************)
(* The grant program between the application and the child: encodeWire     *)
(* (sandbox/lib/src/lowering/wire.dart) writes it, parse                   *)
(* (bestie_guard/src/wire.rs) reads it.  A program is a sequence of bytes; *)
(* a word of the format is two bytes where a cut inside it matters.        *)
(***************************************************************************)
EXTENDS ConfinePolicy, Places

CONSTANTS NUL,    \* the delimiter
          Bad     \* a byte no UTF-8 text has

\* What the words of the format are made of.
WireBytes == {"sandbox", "/1", "a", "ll", "lo", "cal", "no", "ne", "r", "w", "l", "d", "/"}

WireAssumption == NUL # Bad /\ {NUL, Bad} \cap WireBytes = {}
ASSUME WireAssumption

Magic == <<"sandbox", "/1">>

TierField(tier) ==
    CASE tier = "All" -> <<"a", "ll">>
      [] tier = "Local" -> <<"lo", "cal">>
      [] tier = "None" -> <<"no", "ne">>

Verb(access) ==
    CASE access = "Read" -> <<"r">>
      [] access = "ReadWrite" -> <<"r", "w">>
      [] access = "ListDir" -> <<"l">>
      [] access = "Deny" -> <<"d">>

Policy(network, grants, denies) == [network |-> network, grants |-> grants, denies |-> denies]

Joined(fields) == FlattenSeq([i \in 1..Len(fields) |-> Append(fields[i], NUL)])

\* encodeWire: the grants before the denies, and every field ends in a NUL.
FieldsOf(policy) ==
    <<Magic, TierField(policy.network)>>
      \o FlattenSeq([i \in 1..Len(policy.grants) |->
           <<Verb(policy.grants[i].access), policy.grants[i].path>>])
      \o FlattenSeq([i \in 1..Len(policy.denies) |->
           <<Verb("Deny"), policy.denies[i].path>>])

EncodeWire(policy) == Joined(FieldsOf(policy))

\* slice::split: the fields between the delimiters, one more than those.
Split(bytes) ==
    LET ends == Ordered({i \in 1..Len(bytes) : bytes[i] = NUL} \cup {Len(bytes) + 1})
    IN  [k \in 1..Len(ends) |->
            SubSeq(bytes, IF k = 1 THEN 1 ELSE ends[k - 1] + 1, ends[k] - 1)]

Refused(error) == [refused |-> error]

\* The access a verb asks for, or none.
Asked(verb) ==
    LET match == {a \in Accesses \cup {"Deny"} : Verb(a) = verb}
    IN  IF match = {} THEN "unknown" ELSE CHOOSE a \in match : TRUE

\* Mutated form of RecordError: a record may lack its path.
RecordErrorLate(record) ==
    IF Contains(record.path, Bad) THEN "NonUtf8"
    ELSE IF record.access = "unknown" THEN "UnknownVerb"
    ELSE "none"

\* What is wrong with a record: its path is looked at before its verb.
RecordError(record) ==
    IF record.path = <<>> THEN "Truncated"
    ELSE IF Contains(record.path, Bad) THEN "NonUtf8"
    ELSE IF record.access = "unknown" THEN "UnknownVerb"
    ELSE "none"

\* The records read before the first empty verb: verb and path in pairs, a
\* missing path empty.
Records(fields) ==
    LET n == (Len(fields) - 1) \div 2
        VerbOf(k) == fields[2 * k + 1]
        PathOf(k) == IF 2 * k + 2 <= Len(fields) THEN fields[2 * k + 2] ELSE <<>>
        count == SelectInSeq([k \in 1..n + 1 |-> 2 * k + 1 > Len(fields) \/ VerbOf(k) = <<>>],
                             LAMBDA ends : ends) - 1
    IN  [k \in 1..count |-> [access |-> Asked(VerbOf(k)), path |-> PathOf(k)]]

\* parse_network: the tier a field names, or none.
TierOf(field) ==
    LET match == {t \in Networks : TierField(t) = field}
    IN  IF match = {} THEN "unknown" ELSE CHOOSE t \in match : TRUE

\* parse, of the fields: their policy, or what is wrong with them first.
PolicyOf(fields) ==
    LET records == Records(fields)
        wrong == {k \in 1..Len(records) : RecordError(records[k]) # "none"}
        denies == {k \in 1..Len(records) : records[k].access = "Deny"}
    IN  IF fields[1] # Magic THEN Refused("BadMagic")
        ELSE IF Len(fields) = 1 THEN Refused("Truncated")
        ELSE IF TierOf(fields[2]) = "unknown" THEN Refused("UnknownNetworkTier")
        ELSE IF wrong # {} THEN Refused(RecordError(records[Min(wrong)]))
        ELSE Policy(TierOf(fields[2]),
                    ItemsAt(records, (1..Len(records)) \ denies), ItemsAt(records, denies))

Parse(bytes) == PolicyOf(Split(bytes))

=============================================================================
