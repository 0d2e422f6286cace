------------------------------ MODULE Seatbelt ------------------------------
(***************************************************************************)
(* The macOS backend (bestie_guard/src/seatbelt.rs): a policy becomes a    *)
(* profile, rules over quoted path texts, of which the kernel takes the    *)
(* last that matches.  A name is a sequence of characters.                 *)
(***************************************************************************)
EXTENDS ConfinePolicy

CONSTANTS Quote, Backslash, Control,   \* characters, beside the ordinary ones
          CharacterDevices             \* the paths that are devices

\* The text of a path.
Text(path) ==
    IF path = <<>> THEN <<"/">>
    ELSE FlattenSeq([k \in 1..Len(path) |-> <<"/">> \o path[k]])

\* escape: the inside of a quoted string.
Escape(text) ==
    FlattenSeq([k \in 1..Len(text) |->
                 IF text[k] \in {Quote, Backslash} THEN <<Backslash, text[k]>> ELSE <<text[k]>>])

\* The kernel's reader: a backslash stands for the character after it.
ReadOne(state, c) ==
    IF state.escaping \/ c # Backslash
    THEN [text |-> Append(state.text, c), escaping |-> FALSE]
    ELSE [text |-> state.text, escaping |-> TRUE]

Unquoted(string) ==
    LET read[n \in 0..Len(string)] ==
          IF n = 0 THEN [text |-> <<>>, escaping |-> FALSE] ELSE ReadOne(read[n - 1], string[n])
    IN  read[Len(string)].text

Filter(kind, path) == [kind |-> kind, string |-> Escape(Text(path))]
Anything == [kind |-> "any"]
To(place) == [kind |-> "to", place |-> place]

Rule(verdict, ops, filter) == [verdict |-> verdict, ops |-> ops, filter |-> filter]

FileRead == {"read-data", "read-metadata"}
FileOps == FileRead \cup {"write", "map-executable", "ioctl"}
NetworkOps == {"outbound", "inbound", "bind"}

DevNull == <<<<"null">>>>
DevTty == <<<<"tty">>>>

\* BASE_PROFILE, the part about files and the network.
BaseProfile ==
    << Rule("deny", FileOps \cup NetworkOps, Anything),
       Rule("allow", FileRead, Filter("literal", <<>>)),
       Rule("allow", {"read-data", "write", "ioctl"}, Filter("device", DevNull)),
       Rule("allow", FileRead \cup {"write", "ioctl"}, Filter("device", DevTty)) >>

\* push_network; LOCAL_NETWORK filters what goes out and nothing else.
NetworkRules(network) ==
    CASE network = "All" -> << Rule("allow", NetworkOps, Anything) >>
      [] network = "Local" ->
           << Rule("allow", {"outbound"}, To("loopback tcp")),
              Rule("allow", {"bind", "inbound"}, Anything),
              Rule("allow", {"outbound"}, To("mDNSResponder")) >>
      [] network = "None" -> << Rule("deny", NetworkOps, Anything) >>

PathsOf(policy) == {e.path : e \in ToSet(policy.grants) \cup ToSet(policy.denies)}

\* The directories above the grants and the denies, but the root.
Ancestors(policy) ==
    LET paths == PathsOf(policy)
    IN  {dir \in UNION {Prefixes(p) : p \in paths} :
           dir # <<>> /\ \E p \in paths : IsStrictPrefix(dir, p)}

GrantRules(grant) ==
    LET subtree == Filter("subpath", grant.path)
    IN  << Rule("allow", FileRead, subtree), Rule("allow", {"map-executable"}, subtree),
           Rule("allow", {"ioctl"}, subtree) >>
          \o (IF grant.access = "ReadWrite" THEN << Rule("allow", {"write"}, subtree) >> ELSE <<>>)

DenyRule(deny) == Rule("deny", FileRead, Filter("subpath", deny.path))

HasControl(policy) == \E p \in PathsOf(policy) : Contains(Text(p), Control)

BadPath == <<>>

RulesOf(list, Op(_)) == FlattenSeq([k \in 1..Len(list) |-> Op(list[k])])

\* Mutated form of Profile: the grants are said last.
ProfileGrantsLast(policy) ==
    IF HasControl(policy) THEN BadPath
    ELSE BaseProfile \o NetworkRules(policy.network)
           \o SetToSeq({Rule("allow", {"read-metadata"}, Filter("literal", dir)) :
                          dir \in Ancestors(policy)})
           \o RulesOf(policy.denies, LAMBDA d : << DenyRule(d) >>)
           \o RulesOf(policy.grants, GrantRules)

\* generate_profile; a path with a control character refuses the whole.
Profile(policy) ==
    IF HasControl(policy) THEN BadPath
    ELSE BaseProfile \o NetworkRules(policy.network)
           \o SetToSeq({Rule("allow", {"read-metadata"}, Filter("literal", dir)) :
                          dir \in Ancestors(policy)})
           \o RulesOf(policy.grants, GrantRules)
           \o RulesOf(policy.denies, LAMBDA d : << DenyRule(d) >>)

\* The kernel: a subpath is the path or what follows it after a slash.
Beneath(text, root) ==
    text = root \/ root = <<"/">> \/ IsPrefix(Append(root, "/"), text)

MatchesFile(filter, path) ==
    CASE filter.kind = "any" -> TRUE
      [] filter.kind = "to" -> FALSE
      [] filter.kind = "literal" -> Text(path) = Unquoted(filter.string)
      [] filter.kind = "subpath" -> Beneath(Text(path), Unquoted(filter.string))
      [] filter.kind = "device" ->
           Text(path) = Unquoted(filter.string) /\ path \in CharacterDevices

MatchesPlace(filter, place) ==
    filter.kind = "any" \/ (filter.kind = "to" /\ filter.place = place)

\* Last rule wins.
Allows(profile, op, Match(_)) ==
    LET last == SelectLastInSeq(profile, LAMBDA r : op \in r.ops /\ Match(r.filter))
    IN  last > 0 /\ profile[last].verdict = "allow"

AllowsFile(profile, op, path) == Allows(profile, op, LAMBDA f : MatchesFile(f, path))
AllowsPlace(profile, op, place) == Allows(profile, op, LAMBDA f : MatchesPlace(f, place))

-----------------------------------------------------------------------------
(* What a profile must say of a policy, path by path and place by place.   *)

Above(policy, path) == path = <<>> \/ \E p \in PathsOf(policy) : IsStrictPrefix(path, p)

OpenDevice(path) == path \in {DevNull, DevTty} \cap CharacterDevices

\* Each operation on a path, by the policy alone.
FilesAsAsked(policy, profile, path) ==
    LET on == Granted(policy.grants, path)
        masked == Denied(policy.denies, path)
        device == OpenDevice(path)
        Says(op) == AllowsFile(profile, op, path)
    IN  /\ Says("read-data") <=> ~masked /\ (path = <<>> \/ device \/ "read" \in on)
        /\ Says("read-metadata") <=>
             ~masked /\ (Above(policy, path) \/ (device /\ path = DevTty) \/ "read" \in on)
        /\ Says("write") <=> device \/ "write" \in on
        /\ Says("ioctl") <=> device \/ "read" \in on
        /\ Says("map-executable") <=> "execute" \in on

\* What can be read, a device apart, can be reached from the root.
ReadableIsReachable(profile, path) ==
    path \notin CharacterDevices /\ AllowsFile(profile, "read-data", path) =>
      \A dir \in Prefixes(path) : AllowsFile(profile, "read-metadata", dir)

TierDecidesReach(policy, profile, place) ==
    AllowsPlace(profile, "outbound", place) <=>
      \/ policy.network = "All"
      \/ policy.network = "Local" /\ place \in {"loopback tcp", "mDNSResponder"}

=============================================================================
