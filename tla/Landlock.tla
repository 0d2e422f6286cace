------------------------------ MODULE Landlock ------------------------------
(***************************************************************************)
(* The Linux backend (bestie_guard/src/landlock.rs): the child confines    *)
(* itself one system call after the other, and any of them can fail.  The  *)
(* landlock crate (external) does what the kernel supports: where that is  *)
(* nothing, a ruleset is made, filled and turned on without any effect.    *)
(***************************************************************************)
EXTENDS ConfinePolicy

CONSTANTS Paths,          \* what grants may name: sequences of names
          Devices,        \* DEVICE_BASELINE, a sequence of paths
          Filesystems,    \* functions from Paths to the real path, or Missing
          Missing,
          Policies,       \* records of a network and a sequence of grants
          Kernels         \* what a kernel lets the child do: sets of Features

\* What the calls need of the kernel, each missing on some host: filters and
\* no_new_privs, user namespaces, their id maps and interfaces, Landlock, room
\* for a ruleset, for a rule and for one more ruleset in force.
Features == {"noNewPrivs", "seccomp", "userns", "idMaps", "interfaces",
             "landlock", "ruleset", "rule", "layer"}

LandlockAssumption ==
    /\ Kernels \subseteq SUBSET Features
    /\ Devices \in Seq(Paths)
    /\ Filesystems \subseteq [Paths -> Paths \cup {Missing}]
    /\ \A p \in Policies : p.network \in Networks
                            /\ p.grants \in Seq([path : Paths, access : Accesses])

ASSUME LandlockAssumption

VARIABLES policy, real, kernel,     \* chosen once: kernel is what it supports
          step,                     \* the next call, "ok" or "failed"
          i,                        \* the next entry of the ruleset
          rules,                    \* [path, rights] added so far
          enforced,                 \* the ruleset is on
          namespace, written, loUp, \* the loopback namespace
          noNewPrivs, filtered      \* the socket filter

netVars == <<namespace, written, loUp, noNewPrivs, filtered>>
fileVars == <<i, rules, enforced>>
vars == <<policy, real, kernel, step, fileVars, netVars>>

-----------------------------------------------------------------------------
(* The seccomp filter: twelve instructions over the words of a call. *)

Ours == "our arch"
SysSocket == "socket"
AfInet == 2
AfInet6 == 10
AfPacket == 17

Ld(off) == [op |-> "ld", k |-> off]
Jeq(k, jt, jf) == [op |-> "jeq", k |-> k, jt |-> jt, jf |-> jf]
Ret(verdict) == [op |-> "ret", k |-> verdict]

\* Mutated form of SocketFilter: the jump over IPv6 is one short.
SocketFilterShort ==
    << Ld("arch"), Jeq(Ours, 1, 0), Ret("kill"), Ld("nr"), Jeq(SysSocket, 0, 6), Ld("domain"),
       Jeq(AfInet, 3, 0), Jeq(AfInet6, 1, 0), Jeq(AfPacket, 1, 0), Ret("allow"), Ret("EPERM"),
       Ret("allow") >>

\* build_filter: the arch guard, then socket's domain.
SocketFilter ==
    << Ld("arch"), Jeq(Ours, 1, 0), Ret("kill"), Ld("nr"), Jeq(SysSocket, 0, 6), Ld("domain"),
       Jeq(AfInet, 3, 0), Jeq(AfInet6, 2, 0), Jeq(AfPacket, 1, 0), Ret("allow"), Ret("EPERM"),
       Ret("allow") >>

\* The kernel runs a filter from its first instruction: at is the instruction
\* and the field whose word was loaded last; a jump skips jt or jf instructions.
Verdict(call) ==
    LET run[at \in (1..Len(SocketFilter)) \X (DOMAIN call \cup {"nothing"})] ==
          LET ins == SocketFilter[at[1]]
              skip == IF call[at[2]] = ins.k THEN ins.jt ELSE ins.jf
          IN  CASE ins.op = "ld" -> run[<<at[1] + 1, ins.k>>]
                [] ins.op = "jeq" -> run[<<at[1] + 1 + skip, at[2]>>]
                [] ins.op = "ret" -> ins.k
    IN  run[<<1, "nothing">>]

SocketCall(domain) == [arch |-> Ours, nr |-> SysSocket, domain |-> domain]

-----------------------------------------------------------------------------
(* apply *)

\* "Ordering matters": the network tier is set up before the ruleset.
Order == <<"network", "create">>

After(stage) == IF stage = Order[1] THEN Order[2] ELSE "ok"

Init ==
    /\ policy \in Policies /\ real \in Filesystems /\ kernel \in Kernels
    /\ step = Order[1]
    /\ i = 1 /\ rules = {} /\ enforced = FALSE
    /\ namespace = FALSE /\ written = {} /\ loUp = FALSE
    /\ noNewPrivs = FALSE /\ filtered = FALSE

Fixed == <<policy, real, kernel>>

Fail == step' = "failed" /\ UNCHANGED <<Fixed, fileVars, netVars>>

Network ==
    /\ step = "network"
    /\ step' = CASE policy.network = "All" -> After("network")
                 [] policy.network = "None" -> "noNewPrivs"
                 [] policy.network = "Local" -> "unshare"
    /\ UNCHANGED <<Fixed, fileVars, netVars>>

NoNewPrivs ==
    /\ step = "noNewPrivs"
    /\ \/ /\ "noNewPrivs" \in kernel
          /\ step' = "seccomp"
          /\ noNewPrivs' = TRUE
          /\ UNCHANGED <<Fixed, fileVars, namespace, written, loUp, filtered>>
       \/ "noNewPrivs" \notin kernel /\ Fail

\* The filter needs no_new_privs.
Seccomp ==
    /\ step = "seccomp"
    /\ \/ /\ "seccomp" \in kernel /\ noNewPrivs
          /\ step' = After("network")
          /\ filtered' = TRUE
          /\ UNCHANGED <<Fixed, fileVars, namespace, written, loUp, noNewPrivs>>
       \/ ~("seccomp" \in kernel /\ noNewPrivs) /\ Fail

\* Mutated form of AfterProc: setgroups is left as it is.
AfterProcNoGroups(file) ==
    CASE file \in {"unshare", "setgroups"} -> "uid_map" [] file = "uid_map" -> "gid_map"
      [] file = "gid_map" -> "lo"

\* The files written once the namespaces are the child's own.
AfterProc(file) ==
    CASE file = "unshare" -> "setgroups" [] file = "setgroups" -> "uid_map"
      [] file = "uid_map" -> "gid_map" [] file = "gid_map" -> "lo"

Unshare ==
    /\ step = "unshare"
    /\ \/ /\ "userns" \in kernel
          /\ step' = AfterProc("unshare")
          /\ namespace' = TRUE
          /\ UNCHANGED <<Fixed, fileVars, written, loUp, noNewPrivs, filtered>>
       \/ "userns" \notin kernel /\ Fail

\* procfs can be written while no ruleset is on; an unprivileged gid_map
\* needs setgroups denied.
MayWriteProc(file) ==
    /\ "idMaps" \in kernel /\ namespace /\ ~enforced
    /\ file = "gid_map" => "setgroups" \in written

WriteProc ==
    /\ step \in {"setgroups", "uid_map", "gid_map"}
    /\ \/ /\ MayWriteProc(step)
          /\ written' = written \cup {step}
          /\ step' = AfterProc(step)
          /\ UNCHANGED <<Fixed, fileVars, namespace, loUp, noNewPrivs, filtered>>
       \/ ~MayWriteProc(step) /\ Fail

\* bring_lo_up needs an internet socket and a namespace to administer.
MayBringLoUp == "interfaces" \in kernel /\ namespace /\ ~filtered

BringLoUp ==
    /\ step = "lo"
    /\ \/ /\ MayBringLoUp
          /\ loUp' = TRUE
          /\ step' = After("network")
          /\ UNCHANGED <<Fixed, fileVars, namespace, written, noNewPrivs, filtered>>
       \/ ~MayBringLoUp /\ Fail

\* Ruleset::default() is best effort: without Landlock the ruleset is inert,
\* and none of its calls fails.
Inert == "landlock" \notin kernel

Supported(feature) == Inert \/ feature \in kernel

Create ==
    /\ step = "create"
    /\ \/ Supported("ruleset") /\ step' = "rules" /\ UNCHANGED <<Fixed, fileVars, netVars>>
       \/ ~Supported("ruleset") /\ Fail

FromRead == {"Execute", "ReadFile", "ReadDir"}
FromAll == FromRead \cup {"WriteFile", "MakeAndRemove"}

\* Mutated form of Rights: a list-only grant reads.
RightsListAsRead(access) ==
    CASE access \in {"Read", "ListDir"} -> FromRead [] access = "ReadWrite" -> FromAll
      [] access = "Device" -> {"ReadFile", "WriteFile"}

Rights(access) ==
    CASE access = "Read" -> FromRead [] access = "ReadWrite" -> FromAll
      [] access = "ListDir" -> {"ReadDir"} [] access = "Device" -> {"ReadFile", "WriteFile"}

\* What rules are asked for: the devices, then the grants.
Entries == [k \in 1..Len(Devices) |-> [path |-> Devices[k], access |-> "Device"]] \o policy.grants

RuleOf(entry) == [path |-> real[entry.path], rights |-> Rights(entry.access)]

\* A path that cannot be opened is skipped; an open one is a rule on what it
\* really is, which the kernel may have no room for.
AddRule ==
    /\ step = "rules" /\ i <= Len(Entries)
    /\ \/ /\ real[Entries[i].path] = Missing
          /\ i' = i + 1
          /\ UNCHANGED <<Fixed, step, rules, enforced, netVars>>
       \/ /\ Supported("rule") /\ real[Entries[i].path] # Missing
          /\ i' = i + 1
          /\ rules' = rules \cup {RuleOf(Entries[i])}
          /\ UNCHANGED <<Fixed, step, enforced, netVars>>
       \/ ~Supported("rule") /\ real[Entries[i].path] # Missing /\ Fail

\* The status that says whether anything is enforced is dropped.
RestrictSelf ==
    /\ step = "rules" /\ i > Len(Entries)
    /\ \/ /\ Supported("layer")
          /\ enforced' = ~Inert
          /\ step' = After("create")
          /\ UNCHANGED <<Fixed, i, rules, netVars>>
       \/ ~Supported("layer") /\ Fail

Next ==
    \/ Network \/ NoNewPrivs \/ Seccomp \/ Unshare \/ WriteProc \/ BringLoUp
    \/ Create \/ AddRule \/ RestrictSelf

Spec == Init /\ [][Next]_vars

-----------------------------------------------------------------------------
(* Properties *)

Steps == {"network", "noNewPrivs", "seccomp", "unshare", "setgroups", "uid_map", "gid_map",
          "lo", "create", "rules", "ok", "failed"}

TypeOK ==
    /\ policy \in Policies /\ real \in Filesystems /\ kernel \in Kernels
    /\ step \in Steps
    /\ i \in 1..(Len(Entries) + 1)
    /\ enforced \in BOOLEAN /\ namespace \in BOOLEAN /\ loUp \in BOOLEAN
    /\ noNewPrivs \in BOOLEAN /\ filtered \in BOOLEAN
    /\ written \subseteq {"setgroups", "uid_map", "gid_map"}

\* The tier is in force.
TierSetUp ==
    /\ filtered <=> policy.network = "None"
    /\ namespace <=> policy.network = "Local"
    /\ loUp <=> policy.network = "Local"

\* The rules are those of the entries seen that could be opened.
RulesSoFar ==
    rules = {RuleOf(Entries[k]) :
               k \in {j \in 1..i - 1 : real[Entries[j].path] # Missing}}

(***************************************************************************)
(* The inductive invariant: nothing is enforced before the end, nor then   *)
(* by an inert ruleset, the tier is in force once its setup is over, and   *)
(* the rules follow the entries.                                           *)
(***************************************************************************)
LandlockInv ==
    /\ TypeOK
    /\ RulesSoFar
    /\ enforced <=> step = "ok" /\ ~Inert
    /\ step = "ok" => i = Len(Entries) + 1
    /\ step \in {"create", "rules", "ok"} => TierSetUp
    /\ step \in {"network", "noNewPrivs", "seccomp", "unshare"} => ~filtered /\ ~namespace /\ ~loUp
    /\ step \in {"noNewPrivs", "seccomp"} => policy.network = "None"
    /\ step = "unshare" => policy.network = "Local"
    /\ step \in {"setgroups", "uid_map", "gid_map", "lo"} =>
         policy.network = "Local" /\ namespace /\ ~filtered /\ ~loUp
    /\ step = "seccomp" => noNewPrivs = TRUE
    /\ step \in {"uid_map", "gid_map"} => "setgroups" \in written

\* What the ruleset lets the target do at a path.
Allowed(path) == UNION {r.rights : r \in {q \in rules : Under(path, q.path)}}

Uses == {"read", "list", "execute", "write"}

\* Truncating by name has a right of its own that ABI v1 does not handle.
RightFor(use) ==
    CASE use = "read" -> "ReadFile" [] use = "list" -> "ReadDir"
      [] use = "execute" -> "Execute" [] use = "write" -> "WriteFile"
      [] use = "truncate" -> "Truncate"

\* The kernel refuses what is handled, and not allowed there, once enforced.
MayDo(path, use) == enforced /\ RightFor(use) \in FromAll => RightFor(use) \in Allowed(path)

\* The grants that name something, on what they name.
RealGrants ==
    {[path |-> real[g.path], access |-> g.access] :
       g \in {h \in ToSet(policy.grants) : real[h.path] # Missing}}

OnDevice(path) ==
    \E d \in ToSet(Devices) : real[d] # Missing /\ Under(path, real[d])

\* What the policy and the device baseline allow.
Conferred(path, use) ==
    \/ \E g \in RealGrants : Under(path, g.path) /\ use \in Confers(g.access)
    \/ use \in {"read", "write"} /\ OnDevice(path)

(***************************************************************************)
(* A child that goes on to exec on a kernel with Landlock may read, list,  *)
(* execute and write at every path exactly what the grants confer there,   *)
(* whichever of them exist and whatever they resolve to, and besides read  *)
(* and write the device baseline (landlock.rs:29-33, 60-75).  Truncating   *)
(* is free everywhere, and without Landlock everything is.                 *)
(***************************************************************************)
EnforcesTheGrants ==
    step = "ok" =>
      \A path \in Paths, use \in Uses \cup {"truncate"} :
        MayDo(path, use) <=> Conferred(path, use) \/ use = "truncate" \/ Inert

(***************************************************************************)
(* lib.rs:11-12: "Every failure is fail-closed: the caller must refuse to  *)
(* run the child unconfined".                                              *)
(***************************************************************************)
NeverUnenforced == step = "ok" => enforced

(***************************************************************************)
(* landlock.rs:235-236: "Creating a ruleset proves support without         *)
(* restricting".                                                           *)
(***************************************************************************)
CreatedIsSupported == step = "rules" => "landlock" \in kernel

Calls == [arch : {Ours, "other arch"}, nr : {SysSocket, "other call"},
          domain : {1, AfInet, AfInet6, 16, AfPacket}]

(***************************************************************************)
(* "none" refuses the internet and packet families with EPERM and leaves   *)
(* every other socket and call alone; "local" is a namespace of the        *)
(* child's own whose loopback is up; "all" restricts nothing.              *)
(***************************************************************************)
EnforcesTheTier ==
    step = "ok" =>
      /\ TierSetUp
      /\ filtered => \A call \in Calls :
           Verdict(call) = CASE call.arch # Ours -> "kill"
                             [] call.arch = Ours /\ call.nr = SysSocket
                                  /\ call.domain \in {AfInet, AfInet6, AfPacket} -> "EPERM"
                             [] OTHER -> "allow"

Needed ==
    (IF Inert THEN {} ELSE {"ruleset", "rule", "layer"})
      \cup (CASE policy.network = "All" -> {}
              [] policy.network = "None" -> {"noNewPrivs", "seccomp"}
              [] policy.network = "Local" -> {"userns", "idMaps", "interfaces"})

(***************************************************************************)
(* A child whose kernel has what its policy needs never fails to confine   *)
(* itself: "network setup writes to procfs, so it runs before the Landlock *)
(* ruleset" (landlock.rs:6-7).  What it does not have of Landlock at all   *)
(* is not needed.                                                          *)
(***************************************************************************)
FailsOnlyWhenUnsupported == step = "failed" => ~(Needed \subseteq kernel)

=============================================================================
