---------------------------- MODULE GuardProofs -----------------------------
(***************************************************************************)
(* The Linux backend for any policy, file system and kernel: a child that  *)
(* goes on to exec is confined as its policy asks where its kernel has     *)
(* Landlock, and does not fail where that has what the policy needs.  The macOS backend: the        *)
(* profile of any policy says that policy.  The grant program that brings  *)
(* the policy to either: it arrives as it was written, or fails closed.    *)
(* The diff of an edit: its hunks say the edit, up to the cap.  The edit:  *)
(* it replaces what was asked, and its reply says what it did.             *)
(***************************************************************************)
EXTENDS Landlock, MCFunctions, FiniteSetTheorems, WellFoundedInduction, TLAPS

\* What the ruleset is asked for, by position.
LEMMA EntriesFacts ==
    ASSUME policy \in Policies
    PROVE  /\ Len(Entries) \in Nat
           /\ Len(Entries) = Len(Devices) + Len(policy.grants)
           /\ \A k \in 1..Len(Devices) : Entries[k] = [path |-> Devices[k], access |-> "Device"]
           /\ \A k \in 1..Len(policy.grants) : Entries[Len(Devices) + k] = policy.grants[k]
<1> DEFINE E == [path : Paths, access : Accesses \cup {"Device"}]
           D == [k \in 1..Len(Devices) |-> [path |-> Devices[k], access |-> "Device"]]
           G == policy.grants
<1>1. Devices \in Seq(Paths) /\ G \in Seq([path : Paths, access : Accesses])
  BY LandlockAssumption DEF LandlockAssumption
<1>2. Len(Devices) \in Nat /\ \A k \in 1..Len(Devices) : Devices[k] \in Paths
  BY <1>1
<1>3. D \in Seq(E)
  <2>1. \A k \in 1..Len(Devices) : D[k] \in E
    BY <1>2
  <2> QED BY <1>2, <2>1
<1>4. Len(D) = Len(Devices)
  BY <1>2
<1>5. G \in Seq(E)
  <2> DEFINE S == [path : Paths, access : Accesses]
  <2>1. G \in Seq(S) /\ S \subseteq E
    BY <1>1
  <2> HIDE DEF E, G, S
  <2>2. Len(G) \in Nat /\ G = [k \in 1..Len(G) |-> G[k]] /\ \A k \in 1..Len(G) : G[k] \in E
    BY <2>1
  <2> QED BY <2>2
<1>6. Entries = D \o G
  BY DEF Entries
<1>7. Len(G) \in Nat
  BY <1>1
<1>8. \A k \in 1..Len(Devices) : D[k] = [path |-> Devices[k], access |-> "Device"]
  OBVIOUS
<1> HIDE DEF D, E, G
<1>9. Len(D \o G) = Len(D) + Len(G)
  BY <1>3, <1>5
<1>10. \A k \in 1..Len(D) : (D \o G)[k] = D[k]
  BY <1>3, <1>5, <1>7, <1>2, <1>4
<1>11. \A k \in 1..Len(G) : (D \o G)[Len(D) + k] = G[k]
  BY <1>3, <1>5, <1>7, <1>2, <1>4
<1> QED BY <1>2, <1>4, <1>6, <1>7, <1>8, <1>9, <1>10, <1>11 DEF G

USE DEF Inert, Supported

LEMMA LandlockInvInit == Init => LandlockInv
<1> SUFFICES ASSUME Init PROVE LandlockInv
  OBVIOUS
<1>1. TypeOK
  <2>1. Len(Entries) \in Nat
    BY EntriesFacts DEF Init
  <2>2. step \in Steps
    BY DEF Init, Steps, Order
  <2>3. i \in 1..(Len(Entries) + 1)
    BY <2>1 DEF Init
  <2> QED BY <2>2, <2>3 DEF Init, TypeOK
<1>2. RulesSoFar
  BY DEF Init, RulesSoFar
<1> QED BY <1>1, <1>2 DEF LandlockInv, Init, Order

\* What a step that leaves the ruleset alone keeps.
LEMMA FilesKept ==
    ASSUME LandlockInv, UNCHANGED <<Fixed, i, rules>>
    PROVE  /\ RulesSoFar' /\ Entries' = Entries
           /\ policy' \in Policies /\ real' \in Filesystems /\ kernel' \in Kernels
           /\ i' \in 1..(Len(Entries) + 1)
<1>1. Entries' = Entries
  BY DEF Fixed, Entries
<1>2. \A k : RuleOf(Entries[k])' = RuleOf(Entries[k])
  BY <1>1 DEF Fixed, RuleOf
<1>3. RulesSoFar'
  BY <1>1, <1>2 DEF LandlockInv, RulesSoFar, Fixed
<1> QED BY <1>1, <1>3 DEF LandlockInv, TypeOK, Fixed

LEMMA FailKeeps == ASSUME LandlockInv, Fail, step # "ok" PROVE LandlockInv'
<1>1. RulesSoFar' /\ TypeOK'
  BY FilesKept DEF Fail, fileVars, netVars, LandlockInv, TypeOK, Steps
<1> QED BY <1>1 DEF LandlockInv, Fail, fileVars

LEMMA NetKeeps ==
    ASSUME LandlockInv,
           Network \/ NoNewPrivs \/ Seccomp \/ Unshare \/ WriteProc \/ BringLoUp
    PROVE  LandlockInv'
<1> USE DEF After, Order
<1>0. CASE Fail
  BY <1>0, FailKeeps DEF Network, NoNewPrivs, Seccomp, Unshare, WriteProc, BringLoUp
<1>1. CASE Network
  <2>2. policy.network \in {"All", "None", "Local"}
    BY LandlockAssumption DEF LandlockAssumption, LandlockInv, TypeOK, Networks
  <2>1. RulesSoFar' /\ TypeOK'
    BY <1>1, <2>2, FilesKept DEF Network, fileVars, netVars, LandlockInv, TypeOK, Steps
  <2> QED BY <1>1, <2>1, <2>2 DEF Network, Fixed, fileVars, netVars, LandlockInv, TierSetUp
<1>2. CASE NoNewPrivs /\ ~Fail
  <2>1. RulesSoFar' /\ TypeOK'
    BY <1>2, FilesKept DEF NoNewPrivs, fileVars, LandlockInv, TypeOK, Steps
  <2> QED BY <1>2, <2>1 DEF NoNewPrivs, Fixed, fileVars, LandlockInv, TierSetUp
<1>3. CASE Seccomp /\ ~Fail
  <2>1. RulesSoFar' /\ TypeOK'
    BY <1>3, FilesKept DEF Seccomp, fileVars, LandlockInv, TypeOK, Steps
  <2>2. /\ policy' = policy /\ step' = "create" /\ filtered' = TRUE /\ UNCHANGED <<namespace, loUp>>
        /\ enforced' = enforced /\ step = "seccomp"
    BY <1>3 DEF Seccomp, Fixed, fileVars
  <2>3. policy.network = "None" /\ ~namespace /\ ~loUp /\ ~enforced
    BY <2>2 DEF LandlockInv
  <2> QED BY <2>1, <2>2, <2>3 DEF LandlockInv, TierSetUp
<1>4. CASE Unshare /\ ~Fail
  <2>1. RulesSoFar' /\ TypeOK'
    BY <1>4, FilesKept DEF Unshare, AfterProc, fileVars, LandlockInv, TypeOK, Steps
  <2> QED BY <1>4, <2>1 DEF Unshare, AfterProc, Fixed, fileVars, LandlockInv, TierSetUp
<1>5. CASE WriteProc /\ ~Fail
  <2>1. RulesSoFar' /\ TypeOK'
    BY <1>5, FilesKept DEF WriteProc, AfterProc, fileVars, LandlockInv, TypeOK, Steps
  <2> QED BY <1>5, <2>1 DEF WriteProc, AfterProc, Fixed, fileVars, LandlockInv, TierSetUp
<1>6. CASE BringLoUp /\ ~Fail
  <2>1. RulesSoFar' /\ TypeOK'
    BY <1>6, FilesKept DEF BringLoUp, fileVars, LandlockInv, TypeOK, Steps
  <2>2. /\ policy' = policy /\ policy.network = "Local" /\ step' = "create"
        /\ namespace' /\ loUp' /\ ~filtered' /\ enforced' = enforced /\ ~enforced
    <3>1. /\ policy' = policy /\ step' = "create" /\ loUp' = TRUE /\ namespace' = namespace
          /\ filtered' = filtered /\ enforced' = enforced /\ step = "lo"
      BY <1>6 DEF BringLoUp, Fixed, fileVars
    <3>2. policy.network = "Local" /\ namespace /\ ~filtered /\ ~enforced
      BY <3>1 DEF LandlockInv
    <3> QED BY <3>1, <3>2
  <2> QED BY <2>1, <2>2 DEF LandlockInv, TierSetUp
<1> QED BY <1>0, <1>1, <1>2, <1>3, <1>4, <1>5, <1>6

LEMMA CreateKeeps == ASSUME LandlockInv, Create PROVE LandlockInv'
<1>1. CASE Fail
  BY <1>1, FailKeeps DEF Create
<1>2. CASE step' = "rules" /\ UNCHANGED <<Fixed, fileVars, netVars>>
  <2>1. RulesSoFar' /\ TypeOK'
    BY <1>2, FilesKept DEF fileVars, netVars, LandlockInv, TypeOK, Steps
  <2> QED BY <1>2, <2>1 DEF Create, Fixed, fileVars, netVars, LandlockInv, TierSetUp
<1> QED BY <1>1, <1>2 DEF Create

LEMMA AddRuleKeeps == ASSUME LandlockInv, AddRule PROVE LandlockInv'
<1>1. CASE Fail
  BY <1>1, FailKeeps DEF AddRule
<1>2. CASE ~Fail
  <2>1. Entries' = Entries /\ Len(Entries) \in Nat /\ i \in 1..Len(Entries) /\ i' = i + 1
    BY <1>2, EntriesFacts DEF AddRule, Fixed, Entries, LandlockInv, TypeOK
  <2>2. TypeOK'
    <3>1. /\ UNCHANGED <<policy, real, kernel, step, enforced, namespace, written, loUp>>
          /\ UNCHANGED <<noNewPrivs, filtered>>
      BY <1>2 DEF AddRule, Fixed, netVars
    <3>2. i' \in 1..(Len(Entries') + 1)
      BY <2>1
    <3> QED BY <3>1, <3>2 DEF LandlockInv, TypeOK
  <2>3. \A k : RuleOf(Entries[k])' = RuleOf(Entries[k])
    BY <1>2, <2>1 DEF AddRule, Fixed, RuleOf
  <2> DEFINE Seen(n) == {j \in 1..n - 1 : real[Entries[j].path] # Missing}
  <2>4. Seen(i + 1) = IF real[Entries[i].path] = Missing THEN Seen(i) ELSE Seen(i) \cup {i}
    BY <2>1
  <2>5. rules' = IF real[Entries[i].path] = Missing THEN rules ELSE rules \cup {RuleOf(Entries[i])}
    BY <1>2 DEF AddRule
  <2>6. rules = {RuleOf(Entries[k]) : k \in Seen(i)}
    BY DEF LandlockInv, RulesSoFar
  <2>7. rules' = {RuleOf(Entries[k]) : k \in Seen(i + 1)}
    <3> HIDE DEF Seen
    <3> QED BY <2>4, <2>5, <2>6
  <2>8. RulesSoFar'
    BY <1>2, <2>1, <2>3, <2>7 DEF RulesSoFar, AddRule, Fixed
  <2> QED BY <1>2, <2>2, <2>8 DEF AddRule, Fixed, netVars, LandlockInv, TierSetUp
<1> QED BY <1>1, <1>2

LEMMA RestrictKeeps == ASSUME LandlockInv, RestrictSelf PROVE LandlockInv'
<1>1. CASE Fail
  BY <1>1, FailKeeps DEF RestrictSelf
<1>2. CASE ~Fail
  <2>1. RulesSoFar' /\ TypeOK' /\ Entries' = Entries
    BY <1>2, FilesKept DEF RestrictSelf, netVars, After, Order, LandlockInv, TypeOK, Steps
  <2>2. Len(Entries) \in Nat
    BY EntriesFacts DEF LandlockInv, TypeOK
  <2>3. i' = Len(Entries) + 1
    BY <1>2, <2>2 DEF RestrictSelf, LandlockInv, TypeOK
  <2>4. /\ step' = "ok" /\ enforced' = ~Inert' /\ TierSetUp'
    BY <1>2 DEF RestrictSelf, After, Order, Fixed, netVars, LandlockInv, TierSetUp
  <2> QED BY <2>1, <2>3, <2>4 DEF LandlockInv
<1> QED BY <1>1, <1>2

LEMMA LandlockInvStep == LandlockInv /\ [Next]_vars => LandlockInv'
<1> SUFFICES ASSUME LandlockInv, [Next]_vars PROVE LandlockInv'
  OBVIOUS
<1>1. CASE UNCHANGED vars
  <2>1. RulesSoFar' /\ TypeOK' /\ Entries' = Entries
    BY <1>1, FilesKept DEF vars, Fixed, fileVars, netVars, LandlockInv, TypeOK
  <2> QED BY <1>1, <2>1 DEF vars, fileVars, netVars, LandlockInv, TierSetUp
<1>2. CASE Next
  BY <1>2, NetKeeps, CreateKeeps, AddRuleKeeps, RestrictKeeps DEF Next
<1> QED BY <1>1, <1>2

(***************************************************************************)
(* The inductive invariant of the backend holds in every reachable state.  *)
(***************************************************************************)
THEOREM BackendInvariant == Spec => []LandlockInv
BY LandlockInvInit, LandlockInvStep, PTL DEF Spec

\* A right is on at a path when an entry that could be opened gives it.
LEMMA AllowedByEntry ==
    ASSUME LandlockInv, step = "ok", NEW path, NEW right
    PROVE  right \in Allowed(path) <=>
             \E k \in 1..Len(Entries) :
               /\ real[Entries[k].path] # Missing
               /\ Under(path, real[Entries[k].path])
               /\ right \in Rights(Entries[k].access)
<1>1. i - 1 = Len(Entries)
  BY EntriesFacts DEF LandlockInv, TypeOK
<1>2. rules = {RuleOf(Entries[k]) : k \in {j \in 1..Len(Entries) : real[Entries[j].path] # Missing}}
  BY <1>1 DEF LandlockInv, RulesSoFar
<1>3. right \in Allowed(path) <=> \E r \in rules : Under(path, r.path) /\ right \in r.rights
  BY DEF Allowed
<1>4. ASSUME NEW k
      PROVE  /\ RuleOf(Entries[k]).path = real[Entries[k].path]
             /\ RuleOf(Entries[k]).rights = Rights(Entries[k].access)
  BY DEF RuleOf
<1> QED BY <1>2, <1>3, <1>4

LEMMA RightsFollowAccess ==
    ASSUME NEW use \in Uses
    PROVE  /\ \A a \in Accesses : RightFor(use) \in Rights(a) <=> use \in Confers(a)
           /\ RightFor(use) \in Rights("Device") <=> use \in {"read", "write"}
BY DEF Uses, Accesses, RightFor, Rights, Confers, FromAll, FromRead

LEMMA AllowedIsConferred ==
    ASSUME LandlockInv, step = "ok", NEW path \in Paths, NEW use \in Uses
    PROVE  RightFor(use) \in Allowed(path) <=> Conferred(path, use)
<1> USE DEF Uses
<1> DEFINE Gives(e) == /\ real[e.path] # Missing
                       /\ Under(path, real[e.path])
                       /\ RightFor(use) \in Rights(e.access)
<1>1. policy \in Policies
  BY DEF LandlockInv, TypeOK
<1>10. Devices \in Seq(Paths) /\ policy.grants \in Seq([path : Paths, access : Accesses])
  BY <1>1, LandlockAssumption DEF LandlockAssumption
<1>2. /\ Len(Devices) \in Nat /\ DOMAIN Devices = 1..Len(Devices)
      /\ Len(policy.grants) \in Nat /\ DOMAIN policy.grants = 1..Len(policy.grants)
      /\ \A k \in 1..Len(policy.grants) : policy.grants[k].access \in Accesses
  <2> DEFINE gs == policy.grants
             S == [path : Paths, access : Accesses]
  <2>1. \A g \in S : g.access \in Accesses
    OBVIOUS
  <2>2. gs \in Seq(S) /\ Devices \in Seq(Paths)
    BY <1>10
  <2> HIDE DEF S, gs
  <2>3. /\ Len(Devices) \in Nat /\ DOMAIN Devices = 1..Len(Devices)
        /\ Len(gs) \in Nat /\ DOMAIN gs = 1..Len(gs) /\ \A k \in 1..Len(gs) : gs[k] \in S
    BY <2>2
  <2> QED BY <2>1, <2>3 DEF gs
<1>3. RightFor(use) \in Allowed(path) <=> \E k \in 1..Len(Entries) : Gives(Entries[k])
  BY AllowedByEntry
<1>4. (\E k \in 1..Len(Entries) : Gives(Entries[k])) <=>
        \/ \E k \in 1..Len(Devices) : Gives(Entries[k])
        \/ \E k \in 1..Len(policy.grants) : Gives(Entries[Len(Devices) + k])
  <2> HIDE DEF Gives
  <2>1. Len(Entries) = Len(Devices) + Len(policy.grants)
    BY <1>1, EntriesFacts
  <2>2. \A k \in 1..Len(Entries) :
          k \in 1..Len(Devices)
            \/ \E n \in 1..Len(policy.grants) : k = Len(Devices) + n
    <3> SUFFICES ASSUME NEW k \in 1..Len(Entries), k \notin 1..Len(Devices)
                 PROVE  \E n \in 1..Len(policy.grants) : k = Len(Devices) + n
      OBVIOUS
    <3>1. k - Len(Devices) \in 1..Len(policy.grants) /\ k = Len(Devices) + (k - Len(Devices))
      BY <1>2, <2>1
    <3> QED BY <3>1
  <2>3. /\ \A k \in 1..Len(Devices) : k \in 1..Len(Entries)
        /\ \A n \in 1..Len(policy.grants) : Len(Devices) + n \in 1..Len(Entries)
    BY <1>2, <2>1
  <2> QED BY <2>2, <2>3
<1>5. (\E k \in 1..Len(Devices) : Gives(Entries[k])) <=>
        use \in {"read", "write"} /\ OnDevice(path)
  <2>1. \A k \in 1..Len(Devices) :
          Entries[k].path = Devices[k] /\ Entries[k].access = "Device"
    <3>1. \A k \in 1..Len(Devices) : Entries[k] = [path |-> Devices[k], access |-> "Device"]
      BY <1>1, EntriesFacts
    <3>2. \A p : [path |-> p, access |-> "Device"].path = p
                 /\ [path |-> p, access |-> "Device"].access = "Device"
      OBVIOUS
    <3> QED BY <3>1, <3>2, ZenonT(60)
  <2>2. OnDevice(path) <=>
          \E k \in 1..Len(Devices) : real[Devices[k]] # Missing /\ Under(path, real[Devices[k]])
    BY <1>2 DEF OnDevice, ToSet
  <2> QED BY <2>1, <2>2, RightsFollowAccess
<1>6. (\E k \in 1..Len(policy.grants) : Gives(Entries[Len(Devices) + k])) <=>
        \E g \in RealGrants : Under(path, g.path) /\ use \in Confers(g.access)
  <2>1. \A k \in 1..Len(policy.grants) : Entries[Len(Devices) + k] = policy.grants[k]
    BY <1>1, EntriesFacts
  <2>2. \A k \in 1..Len(policy.grants) :
          Gives(policy.grants[k]) <=>
            /\ real[policy.grants[k].path] # Missing
            /\ Under(path, real[policy.grants[k].path])
            /\ use \in Confers(policy.grants[k].access)
    BY <1>2, RightsFollowAccess
  <2>3. (\E g \in RealGrants : Under(path, g.path) /\ use \in Confers(g.access)) <=>
          \E h \in ToSet(policy.grants) :
            /\ real[h.path] # Missing
            /\ Under(path, real[h.path])
            /\ use \in Confers(h.access)
    <3> DEFINE On(h) == [path |-> real[h.path], access |-> h.access]
    <3>1. RealGrants = {On(h) : h \in {g \in ToSet(policy.grants) : real[g.path] # Missing}}
      BY DEF RealGrants
    <3>2. \A h : On(h).path = real[h.path] /\ On(h).access = h.access
      OBVIOUS
    <3> HIDE DEF On
    <3> QED BY <3>1, <3>2
  <2>4. \A h : h \in ToSet(policy.grants) <=>
          \E k \in 1..Len(policy.grants) : h = policy.grants[k]
    BY <1>2 DEF ToSet
  <2>5. (\E k \in 1..Len(policy.grants) : Gives(policy.grants[k])) <=>
          \E h \in ToSet(policy.grants) :
            /\ real[h.path] # Missing
            /\ Under(path, real[h.path])
            /\ use \in Confers(h.access)
    <3> HIDE DEF Gives
    <3> QED BY <2>2, <2>4
  <2> HIDE DEF Gives
  <2> QED BY <2>1, <2>3, <2>5
<1> HIDE DEF Gives
<1> QED BY <1>1, <1>3, <1>4, <1>5, <1>6 DEF Conferred

LEMMA GrantsFromInv == LandlockInv => EnforcesTheGrants
<1> SUFFICES ASSUME LandlockInv, step = "ok", NEW path \in Paths
             PROVE  /\ \A use \in Uses : MayDo(path, use) <=> Conferred(path, use) \/ Inert
                    /\ MayDo(path, "truncate") /\ "truncate" \notin Uses
  BY DEF EnforcesTheGrants
<1>1. /\ \A use \in Uses : RightFor(use) \in FromAll
      /\ RightFor("truncate") \notin FromAll /\ "truncate" \notin Uses
  BY DEF Uses, RightFor, FromAll, FromRead
<1>2. enforced <=> ~Inert
  BY DEF LandlockInv
<1> QED BY <1>1, <1>2, AllowedIsConferred DEF MayDo

(***************************************************************************)
(* On a kernel with Landlock a child that goes on to exec may do at each   *)
(* path what the grants that exist confer there, use the device baseline   *)
(* and truncate by name, and nothing else; on one without, anything.       *)
(***************************************************************************)
THEOREM ConfinedAsGranted == Spec => []EnforcesTheGrants
BY BackendInvariant, GrantsFromInv, PTL

\* Where a step fails, the kernel lacks what the policy needs.
LEMMA FailsFor ==
    ASSUME LandlockInv, Next, Fail
    PROVE  ~(Needed \subseteq kernel)
<1>2. CASE Network
  BY <1>2, LandlockAssumption
     DEF Network, Fail, After, Order, LandlockAssumption, LandlockInv, TypeOK, Networks
<1>3. CASE NoNewPrivs \/ Seccomp
  <2>1. policy.network = "None" /\ (step = "seccomp" => noNewPrivs = TRUE)
    BY <1>3 DEF NoNewPrivs, Seccomp, LandlockInv
  <2>2. ~({"noNewPrivs", "seccomp"} \subseteq kernel)
    BY <1>3, <2>1 DEF NoNewPrivs, Seccomp, Fail, After, Order
  <2> QED BY <2>1, <2>2 DEF Needed
<1>4. CASE Unshare \/ WriteProc \/ BringLoUp
  <2>1. policy.network = "Local"
    BY <1>4 DEF Unshare, WriteProc, BringLoUp, LandlockInv
  <2>2. ~({"userns", "idMaps", "interfaces"} \subseteq kernel)
    <3>1. CASE Unshare
      BY <3>1 DEF Unshare, Fail, AfterProc
    <3>2. CASE WriteProc
      BY <3>2 DEF WriteProc, MayWriteProc, Fail, AfterProc, LandlockInv
    <3>3. CASE BringLoUp
      BY <3>3 DEF BringLoUp, MayBringLoUp, Fail, After, Order, LandlockInv
    <3> QED BY <1>4, <3>1, <3>2, <3>3
  <2> QED BY <2>1, <2>2 DEF Needed
<1>5. CASE Create \/ AddRule \/ RestrictSelf
  <2>1. ~Inert /\ ~({"ruleset", "rule", "layer"} \subseteq kernel)
    BY <1>5 DEF Create, AddRule, RestrictSelf, Fail, After, Order
  <2> QED BY <2>1 DEF Needed
<1> QED BY <1>2, <1>3, <1>4, <1>5 DEF Next

LEMMA SupportStep ==
    LandlockInv /\ FailsOnlyWhenUnsupported /\ [Next]_vars => FailsOnlyWhenUnsupported'
<1> SUFFICES ASSUME LandlockInv, FailsOnlyWhenUnsupported, [Next]_vars
             PROVE  FailsOnlyWhenUnsupported'
  OBVIOUS
<1>1. UNCHANGED <<policy, kernel>>
  BY DEF vars, Next, Network, NoNewPrivs, Seccomp, Unshare, WriteProc, BringLoUp, Create,
         AddRule, RestrictSelf, Fail, Fixed
<1>2. Needed' = Needed
  BY <1>1 DEF Needed
<1>3. step' = "failed" => step = "failed" \/ (Next /\ Fail)
  <2>1. CASE UNCHANGED vars
    BY <2>1 DEF vars
  <2>2. CASE Network
    BY <2>2, LandlockAssumption
       DEF Network, After, Order, LandlockAssumption, LandlockInv, TypeOK, Networks
  <2>3. CASE NoNewPrivs \/ Seccomp \/ BringLoUp \/ Create \/ RestrictSelf \/ AddRule
    BY <2>3 DEF NoNewPrivs, Seccomp, BringLoUp, Create, RestrictSelf, AddRule, Next, After, Order
  <2>4. CASE Unshare \/ WriteProc
    BY <2>4 DEF Unshare, WriteProc, AfterProc, Next
  <2> QED BY <2>1, <2>2, <2>3, <2>4 DEF Next
<1> QED BY <1>1, <1>2, <1>3, FailsFor DEF FailsOnlyWhenUnsupported

(***************************************************************************)
(* A child fails to confine itself only where its kernel lacks something   *)
(* its policy needs: no step undoes what a later one relies on.            *)
(***************************************************************************)
THEOREM SupportedNeverFails == Spec => []FailsOnlyWhenUnsupported
<1>1. Init => FailsOnlyWhenUnsupported
  BY DEF Init, Order, FailsOnlyWhenUnsupported
<1> QED BY <1>1, SupportStep, BackendInvariant, PTL DEF Spec

HIDE DEF Inert, Supported

-----------------------------------------------------------------------------
(* The filter's verdicts.  The function that defines the kernel's run exists, *)
(* because every jump goes forward, and so has the values it is defined by.   *)

RunStep(f, call, at) ==
    LET ins == SocketFilter[at[1]]
        skip == IF call[at[2]] = ins.k THEN ins.jt ELSE ins.jf
    IN  CASE ins.op = "ld" -> f[<<at[1] + 1, ins.k>>]
          [] ins.op = "jeq" -> f[<<at[1] + 1 + skip, at[2]>>]
          [] ins.op = "ret" -> ins.k

Places(call) == (1..Len(SocketFilter)) \X (DOMAIN call \cup {"nothing"})

IsRun(f, call) == f = [at \in Places(call) |-> RunStep(f, call, at)]

LEMMA VerdictIsRun ==
    ASSUME NEW call PROVE Verdict(call) = (CHOOSE f : IsRun(f, call))[<<1, "nothing">>]
BY DEF Verdict, IsRun, Places, RunStep

\* What each instruction comes to, the last ones first.
OnDomain(x) == IF x \in {AfInet, AfInet6, AfPacket} THEN "EPERM" ELSE "allow"
OnNr(call, x) == IF x = SysSocket THEN OnDomain(call.domain) ELSE "allow"
OnArch(call, x) == IF x = Ours THEN OnNr(call, call.nr) ELSE "kill"

From(call, pc, a) ==
    CASE pc = 1 -> OnArch(call, call.arch)
      [] pc = 2 -> OnArch(call, call[a])
      [] pc = 3 -> "kill"
      [] pc = 4 -> OnNr(call, call.nr)
      [] pc = 5 -> OnNr(call, call[a])
      [] pc = 6 -> OnDomain(call.domain)
      [] pc = 7 -> OnDomain(call[a])
      [] pc = 8 -> IF call[a] \in {AfInet6, AfPacket} THEN "EPERM" ELSE "allow"
      [] pc = 9 -> IF call[a] = AfPacket THEN "EPERM" ELSE "allow"
      [] pc = 11 -> "EPERM"
      [] pc \in {10, 12} -> "allow"

LEMMA FilterFacts ==
    /\ Len(SocketFilter) = 12
    /\ SocketFilter[1] = Ld("arch") /\ SocketFilter[2] = Jeq(Ours, 1, 0) /\ SocketFilter[3] = Ret("kill")
    /\ SocketFilter[4] = Ld("nr") /\ SocketFilter[5] = Jeq(SysSocket, 0, 6) /\ SocketFilter[6] = Ld("domain")
    /\ SocketFilter[7] = Jeq(AfInet, 3, 0) /\ SocketFilter[8] = Jeq(AfInet6, 2, 0)
    /\ SocketFilter[9] = Jeq(AfPacket, 1, 0) /\ SocketFilter[10] = Ret("allow")
    /\ SocketFilter[11] = Ret("EPERM") /\ SocketFilter[12] = Ret("allow")
BY DEF SocketFilter

LEMMA StepLd ==
    ASSUME NEW f, NEW call, NEW pc, NEW a, NEW off, SocketFilter[pc] = Ld(off)
    PROVE  RunStep(f, call, <<pc, a>>) = f[<<pc + 1, off>>]
BY DEF RunStep, Ld

LEMMA StepJeq ==
    ASSUME NEW f, NEW call, NEW pc, NEW a, NEW k, NEW jt, NEW jf, SocketFilter[pc] = Jeq(k, jt, jf)
    PROVE  /\ call[a] = k => RunStep(f, call, <<pc, a>>) = f[<<pc + 1 + jt, a>>]
           /\ call[a] # k => RunStep(f, call, <<pc, a>>) = f[<<pc + 1 + jf, a>>]
BY DEF RunStep, Jeq

LEMMA StepRet == ASSUME NEW f, NEW call, NEW pc, NEW a, NEW v, SocketFilter[pc] = Ret(v)
                 PROVE  RunStep(f, call, <<pc, a>>) = v
BY DEF RunStep, Ret

\* The run there is: what each place comes to is what it jumps to comes to.
LEMMA RunExists ==
    ASSUME NEW call, {"arch", "nr", "domain"} \subseteq DOMAIN call
    PROVE  \E f : IsRun(f, call)
<1> DEFINE A == DOMAIN call \cup {"nothing"}
           g == [at \in (1..12) \X A |-> From(call, at[1], at[2])]
<1>1. \A pc \in 1..12, a \in A : g[<<pc, a>>] = From(call, pc, a)
  OBVIOUS
<1>2. ASSUME NEW pc \in 1..12, NEW a \in A PROVE From(call, pc, a) = RunStep(g, call, <<pc, a>>)
  <2> HIDE DEF g
  <2>1. CASE pc \in {1, 4, 6}
    <3>1. PICK off \in {"arch", "nr", "domain"} :
            SocketFilter[pc] = Ld(off) /\ From(call, pc, a) = From(call, pc + 1, off)
      BY <2>1, FilterFacts DEF From
    <3>2. RunStep(g, call, <<pc, a>>) = g[<<pc + 1, off>>]
      BY <3>1, StepLd
    <3> QED BY <1>1, <2>1, <3>1, <3>2
  <2>2. ASSUME NEW k, NEW jt \in Nat, NEW jf \in Nat, SocketFilter[pc] = Jeq(k, jt, jf),
               pc + 1 + jt \in 1..12, pc + 1 + jf \in 1..12,
               call[a] = k => From(call, pc, a) = From(call, pc + 1 + jt, a),
               call[a] # k => From(call, pc, a) = From(call, pc + 1 + jf, a)
        PROVE  From(call, pc, a) = RunStep(g, call, <<pc, a>>)
    <3>1. /\ call[a] = k => RunStep(g, call, <<pc, a>>) = g[<<pc + 1 + jt, a>>]
          /\ call[a] # k => RunStep(g, call, <<pc, a>>) = g[<<pc + 1 + jf, a>>]
      BY <2>2, StepJeq
    <3> QED BY <1>1, <2>2, <3>1
  <2>3. CASE pc \in {3, 10, 11, 12}
    <3>1. PICK v : SocketFilter[pc] = Ret(v) /\ From(call, pc, a) = v
      BY <2>3, FilterFacts DEF From
    <3> QED BY <3>1, StepRet
  <2>4. CASE pc = 2
    <3>1. SocketFilter[pc] = Jeq(Ours, 1, 0)
      BY <2>4, FilterFacts
    <3> QED BY <2>2, <2>4, <3>1 DEF From, OnArch
  <2>5. CASE pc = 5
    <3>1. SocketFilter[pc] = Jeq(SysSocket, 0, 6)
      BY <2>5, FilterFacts
    <3> QED BY <2>2, <2>5, <3>1 DEF From, OnNr
  <2>6. CASE pc = 7
    <3>1. SocketFilter[pc] = Jeq(AfInet, 3, 0)
      BY <2>6, FilterFacts
    <3> QED BY <2>2, <2>6, <3>1 DEF From, OnDomain
  <2>7. CASE pc = 8
    <3>1. SocketFilter[pc] = Jeq(AfInet6, 2, 0)
      BY <2>7, FilterFacts
    <3> QED BY <2>2, <2>7, <3>1 DEF From
  <2>8. CASE pc = 9
    <3>1. SocketFilter[pc] = Jeq(AfPacket, 1, 0)
      BY <2>8, FilterFacts
    <3> QED BY <2>2, <2>8, <3>1 DEF From
  <2> QED BY <2>1, <2>3, <2>4, <2>5, <2>6, <2>7, <2>8
<1>3. Places(call) = (1..12) \X A
  BY FilterFacts DEF Places
<1>4. ASSUME NEW at \in Places(call) PROVE From(call, at[1], at[2]) = RunStep(g, call, at)
  <2>1. PICK pc \in 1..12, a \in A : at = <<pc, a>>
    BY <1>3
  <2> HIDE DEF g
  <2> QED BY <1>2, <2>1
<1>5. IsRun(g, call)
  BY <1>3, <1>4 DEF IsRun
<1> QED BY <1>5

\* Any run from the first instruction ends as the policy's tier asks.
LEMMA RunVerdict ==
    ASSUME NEW call, {"arch", "nr", "domain"} \subseteq DOMAIN call, NEW f, IsRun(f, call)
    PROVE  f[<<1, "nothing">>] = OnArch(call, call.arch)
<1>1. ASSUME NEW pc \in 1..12, NEW a \in DOMAIN call \cup {"nothing"}
      PROVE  f[<<pc, a>>] = RunStep(f, call, <<pc, a>>)
  BY FilterFacts DEF IsRun, Places
<1>2. ASSUME NEW pc \in 1..12, NEW a \in DOMAIN call, NEW v, SocketFilter[pc] = Ret(v)
      PROVE  f[<<pc, a>>] = v
  BY <1>1, <1>2, StepRet
<1>3. ASSUME NEW pc \in 1..12, NEW a \in DOMAIN call, NEW k, NEW jt, NEW jf,
             SocketFilter[pc] = Jeq(k, jt, jf)
      PROVE  f[<<pc, a>>] = IF call[a] = k THEN f[<<pc + 1 + jt, a>>] ELSE f[<<pc + 1 + jf, a>>]
  BY <1>1, <1>3, StepJeq
<1>4. /\ f[<<3, "arch">>] = "kill" /\ f[<<10, "domain">>] = "allow"
      /\ f[<<11, "domain">>] = "EPERM" /\ f[<<12, "nr">>] = "allow"
  <2>1. SocketFilter[3] = Ret("kill") /\ SocketFilter[10] = Ret("allow") /\ SocketFilter[11] = Ret("EPERM")
        /\ SocketFilter[12] = Ret("allow")
    BY FilterFacts
  <2> QED BY <1>2, <2>1
<1>5. f[<<7, "domain">>] = OnDomain(call.domain)
  <2>1. f[<<9, "domain">>] = IF call.domain = AfPacket THEN "EPERM" ELSE "allow"
    <3>1. SocketFilter[9] = Jeq(AfPacket, 1, 0)
      BY FilterFacts
    <3>2. f[<<9, "domain">>] = IF call.domain = AfPacket
                               THEN f[<<9 + 1 + 1, "domain">>] ELSE f[<<9 + 1 + 0, "domain">>]
      BY <1>3, <3>1
    <3> QED BY <1>4, <3>2
  <2>2. f[<<8, "domain">>] = IF call.domain = AfInet6 THEN "EPERM" ELSE f[<<9, "domain">>]
    <3>1. SocketFilter[8] = Jeq(AfInet6, 2, 0)
      BY FilterFacts
    <3>2. f[<<8, "domain">>] = IF call.domain = AfInet6
                               THEN f[<<8 + 1 + 2, "domain">>] ELSE f[<<8 + 1 + 0, "domain">>]
      BY <1>3, <3>1
    <3> QED BY <1>4, <3>2
  <2>3. f[<<7, "domain">>] = IF call.domain = AfInet THEN "EPERM" ELSE f[<<8, "domain">>]
    <3>1. SocketFilter[7] = Jeq(AfInet, 3, 0)
      BY FilterFacts
    <3>2. f[<<7, "domain">>] = IF call.domain = AfInet
                               THEN f[<<7 + 1 + 3, "domain">>] ELSE f[<<7 + 1 + 0, "domain">>]
      BY <1>3, <3>1
    <3> QED BY <1>4, <3>2
  <2> QED BY <2>1, <2>2, <2>3 DEF OnDomain
<1>6. f[<<6, "nr">>] = OnDomain(call.domain)
  BY <1>1, <1>5, FilterFacts, StepLd
<1>7. f[<<5, "nr">>] = OnNr(call, call.nr)
  <2>1. SocketFilter[5] = Jeq(SysSocket, 0, 6)
    BY FilterFacts
  <2>2. f[<<5, "nr">>] = IF call.nr = SysSocket
                         THEN f[<<5 + 1 + 0, "nr">>] ELSE f[<<5 + 1 + 6, "nr">>]
    BY <1>3, <2>1
  <2> QED BY <1>4, <1>6, <2>2 DEF OnNr
<1>8. f[<<4, "arch">>] = OnNr(call, call.nr)
  BY <1>1, <1>7, FilterFacts, StepLd
<1>9. f[<<2, "arch">>] = OnArch(call, call.arch)
  <2>1. SocketFilter[2] = Jeq(Ours, 1, 0)
    BY FilterFacts
  <2>2. f[<<2, "arch">>] = IF call.arch = Ours
                           THEN f[<<2 + 1 + 1, "arch">>] ELSE f[<<2 + 1 + 0, "arch">>]
    BY <1>3, <2>1
  <2> QED BY <1>4, <1>8, <2>2 DEF OnArch
<1> QED BY <1>1, <1>9, FilterFacts, StepLd

\* What the filter says of a call, for any call.
LEMMA FilterVerdict ==
    ASSUME NEW call, {"arch", "nr", "domain"} \subseteq DOMAIN call
    PROVE  Verdict(call) = OnArch(call, call.arch)
<1> DEFINE f == CHOOSE g : IsRun(g, call)
<1>1. IsRun(f, call)
  BY RunExists
<1>2. f[<<1, "nothing">>] = OnArch(call, call.arch)
  <2> HIDE DEF f
  <2> QED BY <1>1, RunVerdict
<1> QED BY <1>2, VerdictIsRun

LEMMA TierFromInv == LandlockInv => EnforcesTheTier
<1> SUFFICES ASSUME LandlockInv, step = "ok" PROVE
      /\ TierSetUp
      /\ \A call \in Calls :
           Verdict(call) = CASE call.arch # Ours -> "kill"
                             [] call.arch = Ours /\ call.nr = SysSocket
                                  /\ call.domain \in {AfInet, AfInet6, AfPacket} -> "EPERM"
                             [] OTHER -> "allow"
  BY DEF EnforcesTheTier
<1>1. TierSetUp
  BY DEF LandlockInv
<1>2. ASSUME NEW call \in Calls
      PROVE  Verdict(call) = CASE call.arch # Ours -> "kill"
                               [] call.arch = Ours /\ call.nr = SysSocket
                                    /\ call.domain \in {AfInet, AfInet6, AfPacket} -> "EPERM"
                               [] OTHER -> "allow"
  <2>1. Verdict(call) = OnArch(call, call.arch)
    BY FilterVerdict DEF Calls
  <2> QED BY <2>1 DEF OnArch, OnNr, OnDomain
<1> QED BY <1>1, <1>2

(***************************************************************************)
(* A child that goes on to exec has its network tier in force: the filter  *)
(* of "none", whose every jump is followed, refuses the internet and       *)
(* packet families and nothing else; "local" has its loopback up.          *)
(***************************************************************************)
THEOREM TierEnforced == Spec => []EnforcesTheTier
BY BackendInvariant, TierFromInv, PTL

-----------------------------------------------------------------------------
(* Numbers and rows. *)

\* The naturals are well ordered.
LEMMA LeastOf ==
    ASSUME NEW S, S \subseteq Nat, S # {}
    PROVE  \E m \in S : \A k \in S : m <= k
<1>1. PICK x \in S : \A y \in S : ~(<<y, x>> \in OpToRel(<, Nat))
  <2>1. IsWellFoundedOn(OpToRel(<, Nat), Nat)
    BY NatLessThanWellFounded
  <2> QED BY <2>1, WFMin
<1>2. \A y \in S : ~(y < x)
  BY <1>1 DEF OpToRel
<1> QED BY <1>2

\* Induction, over the set of the numbers a statement holds of.
LEMMA UpTo ==
    ASSUME NEW N \in Nat, NEW S, 0 \in S, \A n \in 0..N : n \in S /\ n < N => n + 1 \in S
    PROVE  0..N \subseteq S
<1> DEFINE T == (0..N) \ S
<1> SUFFICES ASSUME T # {} PROVE FALSE
  OBVIOUS
<1>1. T \subseteq Nat
  OBVIOUS
<1>2. PICK m \in T : \A k \in T : m <= k
  <2> HIDE DEF T
  <2> QED BY <1>1, LeastOf
<1>3. m - 1 \in 0..N /\ m - 1 < N /\ m - 1 \notin T
  BY <1>2
<1> QED BY <1>2, <1>3

\* A set of numbers up to a bound has a greatest.
LEMMA MostOf ==
    ASSUME NEW N \in Nat, NEW S, S \subseteq 0..N, S # {}
    PROVE  \E m \in S : \A k \in S : k <= m
<1> DEFINE T == {N - k : k \in S}
<1>1. T \subseteq Nat /\ T # {}
  <2>1. \A k \in S : N - k \in Nat
    OBVIOUS
  <2> QED BY <2>1
<1>2. PICK m \in T : \A k \in T : m <= k
  <2> HIDE DEF T
  <2> QED BY <1>1, LeastOf
<1>3. PICK x \in S : m = N - x
  OBVIOUS
<1>4. \A k \in S : k <= x
  <2> TAKE k \in S
  <2>1. N - k \in T /\ k \in 0..N /\ x \in 0..N
    OBVIOUS
  <2> QED BY <1>2, <1>3, <2>1
<1> QED BY <1>4

\* The first n sequences of s in a row: where each begins, and what is there.
Laid(T, s, n, at, row) ==
    /\ row \in Seq(T) /\ at \in [0..n -> Nat] /\ at[0] = 0 /\ Len(row) = at[n]
    /\ \A k \in 1..n : at[k] = at[k - 1] + Len(s[k])
    /\ \A k \in 1..n : \A m \in 1..Len(s[k]) :
         at[k - 1] + m \in 1..Len(row) /\ row[at[k - 1] + m] = s[k][m]
    /\ \A q \in 1..Len(row) : \E k \in 1..n : \E m \in 1..Len(s[k]) : q = at[k - 1] + m

\* One sequence more in the row.
LEMMA LaidMore ==
    ASSUME NEW T, NEW s \in Seq(Seq(T)), NEW n \in Nat, n + 1 \in 1..Len(s),
           NEW at, NEW row, Laid(T, s, n, at, row)
    PROVE  \E to : Laid(T, s, n + 1, to, row \o s[n + 1])
<1> DEFINE x == s[n + 1]
           to == [k \in 0..(n + 1) |-> IF k = n + 1 THEN at[n] + Len(x) ELSE at[k]]
<1>1. x \in Seq(T)
  OBVIOUS
<1>2. row \in Seq(T) /\ at \in [0..n -> Nat] /\ at[n] = Len(row)
  BY DEF Laid
<1> HIDE DEF x
<1>3. /\ Len(x) \in Nat /\ Len(row) \in Nat /\ row \o x \in Seq(T)
      /\ Len(row \o x) = Len(row) + Len(x)
      /\ \A k \in 1..Len(row) : (row \o x)[k] = row[k]
      /\ \A k \in 1..Len(x) : (row \o x)[Len(row) + k] = x[k]
  BY <1>1, <1>2
<1>4. to[n + 1] = Len(row) + Len(x) /\ \A k \in 0..n : to[k] = at[k]
  BY <1>2
<1>5. to \in [0..(n + 1) -> Nat]
  BY <1>2, <1>3
<1> HIDE DEF to
<1>6. \A k \in 1..(n + 1) : k = n + 1 \/ (k \in 1..n /\ k - 1 \in 0..n /\ k \in 0..n)
  OBVIOUS
<1>7. \A k \in 1..n : at[k] = at[k - 1] + Len(s[k])
  BY DEF Laid
<1>8. to[n] = Len(row) /\ (n + 1) - 1 = n /\ s[n + 1] = x
  BY <1>2, <1>4 DEF x
<1>9. \A k \in 1..(n + 1) : to[k] = to[k - 1] + Len(s[k])
  BY <1>4, <1>6, <1>7, <1>8
<1>10. ASSUME NEW k \in 1..(n + 1), NEW m \in 1..Len(s[k])
       PROVE  /\ to[k - 1] + m \in 1..Len(row \o x)
              /\ (row \o x)[to[k - 1] + m] = s[k][m]
  <2>1. CASE k = n + 1
    <3>1. to[k - 1] = Len(row) /\ m \in 1..Len(x) /\ s[k] = x
      BY <1>8, <2>1
    <3> QED BY <1>3, <3>1, SMTT(40)
  <2>2. CASE k \in 1..n
    <3>1. at[k - 1] + m \in 1..Len(row) /\ row[at[k - 1] + m] = s[k][m]
      BY <2>2 DEF Laid
    <3>2. to[k - 1] = at[k - 1]
      BY <1>4, <1>6, <2>2
    <3> QED BY <1>3, <3>1, <3>2
  <2> QED BY <1>6, <2>1, <2>2
<1>11. ASSUME NEW q \in 1..Len(row \o x)
       PROVE  \E k \in 1..(n + 1) : \E m \in 1..Len(s[k]) : q = to[k - 1] + m
  <2>1. CASE q \in 1..Len(row)
    <3>1. PICK k \in 1..n : \E m \in 1..Len(s[k]) : q = at[k - 1] + m
      BY <2>1 DEF Laid
    <3>2. k \in 1..(n + 1) /\ to[k - 1] = at[k - 1]
      BY <1>4, <1>6
    <3> QED BY <3>1, <3>2
  <2>2. CASE q \notin 1..Len(row)
    <3>1. q - Len(row) \in 1..Len(x) /\ q = Len(row) + (q - Len(row))
      BY <1>3, <2>2
    <3>2. n + 1 \in 1..(n + 1)
      OBVIOUS
    <3> QED BY <1>8, <3>1, <3>2
  <2> QED BY <2>1, <2>2
<1>12. to[0] = 0
  <2>1. at[0] = 0 /\ 0 \in 0..n
    BY DEF Laid
  <2> QED BY <1>4, <2>1
<1>13. Len(row \o x) = to[n + 1]
  BY <1>3, <1>4
<1>14. Laid(T, s, n + 1, to, row \o x)
  BY <1>3, <1>5, <1>9, <1>10, <1>11, <1>12, <1>13 DEF Laid
<1> QED BY <1>14 DEF x

\* FlattenSeq's row has a function that computes it.
FlatUpTo(f, s, n) == f = [k \in 1..n |-> IF k = 1 THEN s[k] ELSE f[k - 1] \o s[k]]

\* The function FlattenSeq chooses exists.
LEMMA FlatExists == ASSUME NEW s, NEW N \in Nat PROVE \E f : FlatUpTo(f, s, N)
<1> DEFINE S == {n \in 0..N : \E f : FlatUpTo(f, s, n)}
<1>1. 0 \in S
  <2>1. PICK f : f = [k \in 1..0 |-> s[k]]
    OBVIOUS
  <2>2. f = [k \in 1..0 |-> IF k = 1 THEN s[k] ELSE f[k - 1] \o s[k]]
    BY <2>1
  <2>3. \E g : FlatUpTo(g, s, 0)
    BY <2>2 DEF FlatUpTo
  <2> QED BY <2>3
<1>2. ASSUME NEW n \in 0..N, n \in S /\ n < N PROVE n + 1 \in S
  <2>1. PICK f : FlatUpTo(f, s, n)
    BY <1>2
  <2>2. \A k \in 1..n : f[k] = IF k = 1 THEN s[k] ELSE f[k - 1] \o s[k]
    BY <2>1 DEF FlatUpTo
  <2>3. PICK g : g = [k \in 1..(n + 1) |-> IF k = 1 THEN s[k] ELSE f[k - 1] \o s[k]]
    OBVIOUS
  <2>4. \A k \in 1..(n + 1) : g[k] = IF k = 1 THEN s[k] ELSE f[k - 1] \o s[k]
    BY <2>3
  <2>5. \A k \in 1..n : g[k] = f[k]
    <3> TAKE k \in 1..n
    <3>1. k \in 1..(n + 1)
      OBVIOUS
    <3> QED BY <2>2, <2>4, <3>1
  <2>6. \A k \in 1..(n + 1) : k # 1 => k - 1 \in 1..n
    OBVIOUS
  <2>7. \A k \in 1..(n + 1) : g[k] = IF k = 1 THEN s[k] ELSE g[k - 1] \o s[k]
    BY <2>4, <2>5, <2>6
  <2>8. g = [k \in 1..(n + 1) |-> IF k = 1 THEN s[k] ELSE g[k - 1] \o s[k]]
    BY <2>3, <2>7
  <2>9. FlatUpTo(g, s, n + 1)
    BY <2>8, Zenon DEF FlatUpTo
  <2> QED BY <1>2, <2>9
<1> HIDE DEF S
<1>3. N \in S
  BY <1>1, <1>2, UpTo
<1> QED BY <1>3 DEF S

\* FlattenSeq lays its sequences in a row.
LEMMA FlatAt ==
    ASSUME NEW T, NEW s \in Seq(Seq(T))
    PROVE  \E at : Laid(T, s, Len(s), at, FlattenSeq(s))
<1>0. Len(s) \in Nat
  OBVIOUS
<1>1. CASE Len(s) = 0
  <2>1. FlattenSeq(s) = <<>>
    BY <1>1 DEF FlattenSeq
  <2>2. PICK at : at = [k \in 0..0 |-> 0]
    OBVIOUS
  <2>3. Laid(T, s, 0, at, <<>>)
    BY <2>2 DEF Laid
  <2> QED BY <1>1, <2>1, <2>3
<1>2. CASE Len(s) # 0
  <2>1. PICK g : g = (CHOOSE f : f = [k \in 1..Len(s) |-> IF k = 1 THEN s[k]
                                                           ELSE f[k - 1] \o s[k]])
    OBVIOUS
  <2>2. FlattenSeq(s) = g[Len(s)]
    BY <1>2, <2>1 DEF FlattenSeq
  <2>3. \E f : f = [k \in 1..Len(s) |-> IF k = 1 THEN s[k] ELSE f[k - 1] \o s[k]]
    BY <1>0, FlatExists DEF FlatUpTo
  <2>4. g = [k \in 1..Len(s) |-> IF k = 1 THEN s[k] ELSE g[k - 1] \o s[k]]
    BY <2>1, <2>3
  <2>5. \A k \in 1..Len(s) : g[k] = IF k = 1 THEN s[k] ELSE g[k - 1] \o s[k]
    BY <2>4
  <2> DEFINE S == {n \in 0..Len(s) : n # 0 => \E at : Laid(T, s, n, at, g[n])}
  <2>6. 0 \in S
    BY <1>0
  <2>7. ASSUME NEW n \in 0..Len(s), n \in S /\ n < Len(s) PROVE n + 1 \in S
    <3>0. n + 1 \in 1..Len(s) /\ n \in Nat
      BY <1>0, <2>7
    <3>1. CASE n = 0
      <4>1. g[1] = s[1] /\ s[1] \in Seq(T)
        BY <3>0, <3>1, <2>5
      <4>2. PICK at : at = [k \in 0..0 |-> 0]
        OBVIOUS
      <4>3. PICK row : row = <<>>
        OBVIOUS
      <4>4. row \in Seq(T) /\ Laid(T, s, 0, at, row)
        BY <4>2, <4>3 DEF Laid
      <4>5. \E to : Laid(T, s, 0 + 1, to, row \o s[0 + 1])
        BY <3>0, <3>1, <4>4, LaidMore
      <4>6. row \o s[1] = s[1] /\ 0 + 1 = 1
        BY <4>1, <4>3
      <4>7. \E to : Laid(T, s, 1, to, g[1])
        BY <4>1, <4>5, <4>6
      <4> QED BY <3>0, <3>1, <4>7
    <3>2. CASE n # 0
      <4>1. g[n + 1] = g[n] \o s[n + 1]
        <5>1. n + 1 # 1 /\ (n + 1) - 1 = n
          BY <3>0, <3>2
        <5> QED BY <2>5, <3>0, <5>1
      <4>2. PICK at : Laid(T, s, n, at, g[n])
        BY <2>7, <3>2
      <4>3. \E to : Laid(T, s, n + 1, to, g[n] \o s[n + 1])
        BY <3>0, <4>2, LaidMore
      <4>4. \E to : Laid(T, s, n + 1, to, g[n + 1])
        BY <4>1, <4>3
      <4> QED BY <3>0, <4>4
    <3> QED BY <3>1, <3>2
  <2> HIDE DEF S
  <2>8. 0..Len(s) \subseteq S
    BY <1>0, <2>6, <2>7, UpTo
  <2>9. \E at : Laid(T, s, Len(s), at, g[Len(s)])
    BY <1>0, <1>2, <2>8 DEF S
  <2> QED BY <2>2, <2>9
<1> QED BY <1>1, <1>2

-----------------------------------------------------------------------------
(* The texts of paths, and the strings they are quoted in. *)

\* A prefix, position by position.
LEMMA PrefixIs ==
    ASSUME NEW X, NEW s \in Seq(X), NEW t \in Seq(X)
    PROVE  IsPrefix(s, t) <=> Len(s) <= Len(t) /\ \A k \in 1..Len(s) : s[k] = t[k]
<1>1. ASSUME Len(s) <= Len(t)
      PROVE  /\ SubSeq(s, 1, Len(s)) = [k \in 1..Len(s) |-> s[k]]
             /\ SubSeq(t, 1, Len(s)) = [k \in 1..Len(s) |-> t[k]]
  BY <1>1
<1>2. ASSUME Len(s) <= Len(t), SubSeq(s, 1, Len(s)) = SubSeq(t, 1, Len(s)), NEW k \in 1..Len(s)
      PROVE  s[k] = t[k]
  <2>1. [l \in 1..Len(s) |-> s[l]] = [l \in 1..Len(s) |-> t[l]]
    BY <1>1, <1>2
  <2>2. [l \in 1..Len(s) |-> s[l]][k] = s[k] /\ [l \in 1..Len(s) |-> t[l]][k] = t[k]
    OBVIOUS
  <2> QED BY <2>1, <2>2
<1>3. ASSUME Len(s) <= Len(t), \A k \in 1..Len(s) : s[k] = t[k]
      PROVE  SubSeq(s, 1, Len(s)) = SubSeq(t, 1, Len(s))
  BY <1>1, <1>3
<1> QED BY <1>2, <1>3 DEF IsPrefix

\* Names have no slash in them.
Names(chars) == {name \in Seq(chars \ {"/"}) : name # <<>>}

\* A text with a slash after it: where its slashes are, and its names.
Closed(path) == Append(Text(path), "/")

\* at[k] is where the slash before the k-th name is, less one.
SlashesAt(path, at) ==
    /\ at \in [0..Len(path) -> Nat] /\ Len(Closed(path)) = at[Len(path)] + 1
    /\ at[0] = 0 /\ \A k \in 1..Len(path) : at[k] = at[k - 1] + 1 + Len(path[k])
    /\ \A k \in 0..Len(path) : at[k] + 1 \in 1..Len(Closed(path)) /\ Closed(path)[at[k] + 1] = "/"
    /\ \A k \in 1..Len(path) : \A m \in 1..Len(path[k]) :
         /\ at[k - 1] + 1 + m \in 1..Len(Closed(path))
         /\ Closed(path)[at[k - 1] + 1 + m] = path[k][m] /\ path[k][m] # "/"
    /\ \A q \in 1..Len(Closed(path)) :
         \/ \E k \in 0..Len(path) : q = at[k] + 1
         \/ \E k \in 1..Len(path) : \E m \in 1..Len(path[k]) : q = at[k - 1] + 1 + m

\* A name of a path.
LEMMA NameIs ==
    ASSUME NEW chars, NEW name \in Names(chars)
    PROVE  /\ name \in Seq(chars \cup {"/"}) /\ Len(name) \in Nat /\ Len(name) > 0
           /\ \A m \in 1..Len(name) : name[m] # "/"
<1>1. name \in Seq(chars \ {"/"}) /\ name # <<>>
  BY DEF Names
<1>2. Len(name) \in Nat /\ Len(name) # 0
  BY <1>1
<1>3. \A m \in 1..Len(name) : name[m] \in chars \ {"/"}
  BY <1>1
<1>4. name = [m \in 1..Len(name) |-> name[m]]
  BY <1>1
<1>5. name \in Seq(chars \cup {"/"})
  BY <1>2, <1>3, <1>4
<1> QED BY <1>2, <1>3, <1>5

\* The text of a path is its names, each after a slash.
LEMMA TextAt ==
    ASSUME NEW chars, NEW path \in Seq(Names(chars)), path # <<>>
    PROVE  /\ Text(path) \in Seq(chars \cup {"/"})
           /\ Len(Text(path)) > 1
           /\ \E at : SlashesAt(path, at)
<1> DEFINE T == chars \cup {"/"}
           piece(k) == <<"/">> \o path[k]
           s == [k \in 1..Len(path) |-> piece(k)]
<1>1. Len(path) \in Nat /\ Len(path) > 0 /\ \A k \in 1..Len(path) : path[k] \in Names(chars)
  OBVIOUS
<1>2. ASSUME NEW k \in 1..Len(path)
      PROVE  /\ path[k] \in Seq(T) /\ Len(path[k]) \in Nat /\ Len(path[k]) > 0
             /\ \A m \in 1..Len(path[k]) : path[k][m] # "/"
  BY <1>1, NameIs
<1>3. ASSUME NEW name \in Seq(T)
      PROVE  /\ <<"/">> \o name \in Seq(T) /\ Len(<<"/">> \o name) = Len(name) + 1
             /\ (<<"/">> \o name)[1] = "/"
             /\ \A m \in 1..Len(name) : (<<"/">> \o name)[m + 1] = name[m]
  <2>1. <<"/">> \in Seq(T) /\ Len(<<"/">>) = 1 /\ Len(name) \in Nat
    OBVIOUS
  <2> QED BY <1>3, <2>1
<1>4. s \in Seq(Seq(T)) /\ Len(s) = Len(path) /\ \A k \in 1..Len(path) : s[k] = piece(k)
  <2>1. \A k \in 1..Len(path) : piece(k) \in Seq(T)
    BY <1>2, <1>3
  <2> HIDE DEF piece, T
  <2> QED BY <1>1, <2>1
<1>5. Text(path) = FlattenSeq(s)
  BY DEF Text
<1> HIDE DEF s
<1>6. PICK at : Laid(T, s, Len(path), at, Text(path))
  BY <1>4, <1>5, FlatAt
<1>7. Text(path) \in Seq(T) /\ Len(Text(path)) = at[Len(path)] /\ at \in [0..Len(path) -> Nat]
      /\ at[0] = 0
  BY <1>6 DEF Laid
<1>8. /\ Len(Closed(path)) = at[Len(path)] + 1 /\ Closed(path)[at[Len(path)] + 1] = "/"
      /\ \A q \in 1..at[Len(path)] : Closed(path)[q] = Text(path)[q]
  BY <1>7 DEF Closed
<1>9. ASSUME NEW k \in 1..Len(path)
      PROVE  /\ k - 1 \in 0..Len(path) /\ at[k - 1] \in Nat
             /\ at[k] = at[k - 1] + 1 + Len(path[k])
             /\ at[k - 1] + 1 \in 1..at[Len(path)] /\ Text(path)[at[k - 1] + 1] = "/"
             /\ \A m \in 1..Len(path[k]) : /\ at[k - 1] + 1 + m \in 1..at[Len(path)]
                                           /\ Text(path)[at[k - 1] + 1 + m] = path[k][m]
  <2>1. k - 1 \in 0..Len(path) /\ at[k - 1] \in Nat
    BY <1>1, <1>7
  <2>2. at[k] = at[k - 1] + Len(s[k])
    BY <1>6 DEF Laid
  <2>3. \A m \in 1..Len(s[k]) : /\ at[k - 1] + m \in 1..at[Len(path)]
                                /\ Text(path)[at[k - 1] + m] = s[k][m]
    BY <1>6, <1>7 DEF Laid
  <2>4. Len(s[k]) = Len(path[k]) + 1 /\ s[k][1] = "/" /\ \A m \in 1..Len(path[k]) :
                                          s[k][m + 1] = path[k][m]
    BY <1>2, <1>3, <1>4
  <2>5. 1 \in 1..Len(s[k])
    BY <1>2, <2>4
  <2>6. \A m \in 1..Len(path[k]) : m + 1 \in 1..Len(s[k]) /\ at[k - 1] + 1 + m = at[k - 1] + (m + 1)
    <3>1. Len(path[k]) \in Nat
      BY <1>2
    <3>2. \A a \in Nat, n \in Nat : \A m \in 1..n : m + 1 \in 1..(n + 1) /\ a + 1 + m = a + (m + 1)
      OBVIOUS
    <3> QED BY <2>1, <2>4, <3>1, <3>2
  <2>7. at[k] = at[k - 1] + 1 + Len(path[k])
    <3>1. Len(path[k]) \in Nat
      BY <1>2
    <3>2. \A a \in Nat, n \in Nat : a + (n + 1) = a + 1 + n
      OBVIOUS
    <3> QED BY <2>1, <2>2, <2>4, <3>1, <3>2
  <2> QED BY <2>1, <2>3, <2>4, <2>5, <2>6, <2>7
<1>10. ASSUME NEW k \in 0..Len(path)
       PROVE  at[k] + 1 \in 1..Len(Closed(path)) /\ Closed(path)[at[k] + 1] = "/"
  <2>1. CASE k = Len(path)
    BY <1>7, <1>8, <2>1
  <2>2. CASE k # Len(path)
    <3>1. k + 1 \in 1..Len(path) /\ (k + 1) - 1 = k
      BY <1>1, <2>2
    <3>2. at[k] + 1 \in 1..at[Len(path)] /\ Text(path)[at[k] + 1] = "/"
      BY <1>9, <3>1
    <3> QED BY <1>7, <1>8, <3>2
  <2> QED BY <2>1, <2>2
<1>11. ASSUME NEW k \in 1..Len(path), NEW m \in 1..Len(path[k])
       PROVE  /\ at[k - 1] + 1 + m \in 1..Len(Closed(path))
              /\ Closed(path)[at[k - 1] + 1 + m] = path[k][m] /\ path[k][m] # "/"
  <2>1. at[k - 1] + 1 + m \in 1..at[Len(path)] /\ Text(path)[at[k - 1] + 1 + m] = path[k][m]
    BY <1>9
  <2>2. at[Len(path)] \in Nat
    BY <1>1, <1>7
  <2> QED BY <1>2, <1>8, <2>1, <2>2
<1>12. ASSUME NEW q \in 1..Len(Closed(path))
       PROVE  \/ \E k \in 0..Len(path) : q = at[k] + 1
              \/ \E k \in 1..Len(path) : \E m \in 1..Len(path[k]) : q = at[k - 1] + 1 + m
  <2>0. at[Len(path)] \in Nat /\ Len(path) \in 0..Len(path)
    BY <1>1, <1>7
  <2>1. CASE q = at[Len(path)] + 1
    BY <2>0, <2>1
  <2>2. CASE q # at[Len(path)] + 1
    <3>1. q \in 1..Len(Text(path))
      BY <1>7, <1>8, <2>0, <2>2
    <3>2. PICK k \in 1..Len(path) : \E m \in 1..Len(s[k]) : q = at[k - 1] + m
      BY <1>6, <3>1 DEF Laid
    <3>3. PICK m \in 1..Len(s[k]) : q = at[k - 1] + m
      BY <3>2
    <3>4. /\ Len(s[k]) = Len(path[k]) + 1 /\ Len(path[k]) \in Nat
          /\ at[k - 1] \in Nat /\ k - 1 \in 0..Len(path)
      BY <1>2, <1>3, <1>4, <1>9
    <3>5. CASE m = 1
      BY <3>3, <3>4, <3>5
    <3>6. CASE m # 1
      <4>1. m - 1 \in 1..Len(path[k]) /\ q = at[k - 1] + 1 + (m - 1)
        BY <3>3, <3>4, <3>6
      <4> QED BY <4>1
    <3> QED BY <3>5, <3>6
  <2> QED BY <2>1, <2>2
<1>13. SlashesAt(path, at)
  BY <1>7, <1>8, <1>9, <1>10, <1>11, <1>12 DEF SlashesAt
<1>14. Len(Text(path)) > 1
  <2>1. Len(path) \in 1..Len(path)
    BY <1>1
  <2>2. at[Len(path)] = at[Len(path) - 1] + 1 + Len(path[Len(path)]) /\ at[Len(path) - 1] \in Nat
    BY <1>9, <2>1
  <2> QED BY <1>2, <1>7, <2>1, <2>2
<1> QED BY <1>7, <1>13, <1>14

\* A text that another begins with, up to a slash, is that of a path which
\* the other's path begins with.
LEMMA NamesAgree ==
    ASSUME NEW chars, NEW p \in Seq(Names(chars)), NEW r \in Seq(Names(chars)),
           NEW ap, NEW ar, SlashesAt(p, ap), SlashesAt(r, ar),
           Len(Closed(r)) <= Len(Closed(p)), \A q \in 1..Len(Closed(r)) :
               Closed(r)[q] = Closed(p)[q]
    PROVE  Len(r) <= Len(p) /\ \A k \in 1..Len(r) : r[k] = p[k]
<1> DEFINE S == {n \in 0..Len(r) : n <= Len(p) /\ ap[n] = ar[n] /\ \A k \in 1..n : r[k] = p[k]}
<1>1. /\ Len(p) \in Nat /\ Len(r) \in Nat
      /\ ap \in [0..Len(p) -> Nat] /\ ar \in [0..Len(r) -> Nat] /\ ap[0] = 0 /\ ar[0] = 0
      /\ Len(Closed(p)) = ap[Len(p)] + 1
  BY DEF SlashesAt
<1>2. 0 \in S
  BY <1>1
<1>3. ASSUME NEW n \in 0..Len(r), n \in S /\ n < Len(r) PROVE n + 1 \in S
  <2> DEFINE a == ar[n]
             x == Len(r[n + 1])
             y == Len(p[n + 1])
  <2>1. n + 1 \in 1..Len(r) /\ n + 1 \in 0..Len(r) /\ (n + 1) - 1 = n /\ n <= Len(p) /\ n \in Nat
    BY <1>1, <1>3
  <2>2. a \in Nat /\ ap[n] = a /\ \A k \in 1..n : r[k] = p[k]
    BY <1>1, <1>3
  <2>3. r[n + 1] \in Names(chars)
    BY <2>1
  <2>4. x \in Nat /\ x > 0
    BY <2>3, NameIs
  <2>5. ar[n + 1] = a + 1 + x
    BY <2>1 DEF SlashesAt
  <2>6. a + 1 + x + 1 \in 1..Len(Closed(r)) /\ Closed(r)[a + 1 + x + 1] = "/"
    BY <2>1, <2>5 DEF SlashesAt
  <2>7. n # Len(p)
    <3> SUFFICES ASSUME n = Len(p) PROVE FALSE
      OBVIOUS
    <3>1. Len(Closed(p)) = a + 1 /\ Len(Closed(r)) >= a + 1 + x + 1
      BY <1>1, <2>2, <2>6
    <3> QED BY <2>2, <2>4, <3>1
  <2>8. n + 1 \in 1..Len(p) /\ n + 1 \in 0..Len(p)
    BY <1>1, <2>1, <2>7
  <2>9. p[n + 1] \in Names(chars)
    BY <2>8
  <2>10. y \in Nat /\ y > 0
    BY <2>9, NameIs
  <2>11. ap[n + 1] = a + 1 + y
    BY <2>1, <2>2, <2>8 DEF SlashesAt
  <2>12. Closed(p)[a + 1 + y + 1] = "/"
    BY <2>8, <2>11 DEF SlashesAt
  <2>13. \A m \in 1..x : /\ a + 1 + m \in 1..Len(Closed(r)) /\ Closed(r)[a + 1 + m] = r[n + 1][m]
                         /\ r[n + 1][m] # "/"
    BY <2>1, SMTT(40) DEF SlashesAt
  <2>14. \A m \in 1..y : Closed(p)[a + 1 + m] = p[n + 1][m] /\ p[n + 1][m] # "/"
    <3>1. \A m \in 1..Len(p[n + 1]) :
            Closed(p)[ap[(n + 1) - 1] + 1 + m] = p[n + 1][m] /\ p[n + 1][m] # "/"
      BY <2>8 DEF SlashesAt
    <3>2. (n + 1) - 1 = n
      BY <2>1
    <3> QED BY <2>2, <3>1, <3>2
  <2> HIDE DEF a, x, y, S
  <2>15. ~(y < x)
    <3> SUFFICES ASSUME y < x PROVE FALSE
      OBVIOUS
    <3>1. y + 1 \in 1..x /\ a + 1 + (y + 1) = a + 1 + y + 1
      BY <2>2, <2>4, <2>10
    <3> QED BY <2>12, <2>13, <3>1
  <2>16. ~(x < y)
    <3> SUFFICES ASSUME x < y PROVE FALSE
      OBVIOUS
    <3>1. x + 1 \in 1..y /\ a + 1 + (x + 1) = a + 1 + x + 1
      BY <2>2, <2>4, <2>10
    <3> QED BY <2>6, <2>14, <3>1
  <2>17. x = y
    BY <2>4, <2>10, <2>15, <2>16
  <2>18. \A m \in 1..x : r[n + 1][m] = p[n + 1][m]
    BY <2>13, <2>14, <2>17
  <2>19. r[n + 1] = p[n + 1]
    <3>1. r[n + 1] \in Seq(chars \cup {"/"}) /\ p[n + 1] \in Seq(chars \cup {"/"})
      BY <2>3, <2>9, NameIs
    <3>2. r[n + 1] = [m \in 1..x |-> r[n + 1][m]] /\ p[n + 1] = [m \in 1..y |-> p[n + 1][m]]
      BY <3>1 DEF x, y
    <3> QED BY <2>17, <2>18, <3>2
  <2>20. \A k \in 1..(n + 1) : r[k] = p[k]
    <3>1. \A k \in 1..(n + 1) : k = n + 1 \/ k \in 1..n
      BY <2>1
    <3> QED BY <2>2, <2>19, <3>1
  <2> QED BY <2>1, <2>5, <2>8, <2>11, <2>17, <2>20 DEF S
<1> HIDE DEF S
<1>4. 0..Len(r) \subseteq S
  BY <1>1, <1>2, <1>3, UpTo
<1> QED BY <1>1, <1>4 DEF S

\* And the text of a path begins with that of every path it begins with.
LEMMA TextsAgree ==
    ASSUME NEW chars, NEW p \in Seq(Names(chars)), NEW r \in Seq(Names(chars)),
           NEW ap, NEW ar, SlashesAt(p, ap), SlashesAt(r, ar),
           Len(r) <= Len(p), \A k \in 1..Len(r) : r[k] = p[k]
    PROVE  /\ Len(Closed(r)) <= Len(Closed(p))
           /\ \A q \in 1..Len(Closed(r)) : Closed(r)[q] = Closed(p)[q]
<1> DEFINE S == {n \in 0..Len(r) : ap[n] = ar[n]}
<1>1. /\ Len(p) \in Nat /\ Len(r) \in Nat
      /\ ap \in [0..Len(p) -> Nat] /\ ar \in [0..Len(r) -> Nat] /\ ap[0] = 0 /\ ar[0] = 0
      /\ Len(Closed(r)) = ar[Len(r)] + 1
  BY DEF SlashesAt
<1>2. 0 \in S
  BY <1>1
<1>3. ASSUME NEW n \in 0..Len(r), n \in S /\ n < Len(r) PROVE n + 1 \in S
  <2>1. n + 1 \in 1..Len(r) /\ n + 1 \in 1..Len(p) /\ n + 1 \in 0..Len(r) /\ (n + 1) - 1 = n
    BY <1>1, <1>3
  <2>2. ar[n + 1] = ar[n] + 1 + Len(r[n + 1]) /\ ap[n + 1] = ap[n] + 1 + Len(p[n + 1])
    BY <2>1 DEF SlashesAt
  <2> QED BY <1>3, <2>1, <2>2
<1> HIDE DEF S
<1>4. 0..Len(r) \subseteq S
  BY <1>1, <1>2, <1>3, UpTo
<1>5. \A n \in 0..Len(r) : ap[n] = ar[n] /\ n \in 0..Len(p)
  BY <1>1, <1>4 DEF S
<1>6. Len(Closed(r)) <= Len(Closed(p))
  <2>1. Len(r) \in 0..Len(r) /\ Len(r) \in 0..Len(p)
    BY <1>1
  <2>2. ap[Len(r)] + 1 \in 1..Len(Closed(p)) /\ Len(Closed(p)) \in Int
    <3>1. ap[Len(p)] \in Nat /\ Len(Closed(p)) = ap[Len(p)] + 1
      BY <1>1 DEF SlashesAt
    <3> QED BY <2>1, <3>1 DEF SlashesAt
  <2> QED BY <1>1, <1>5, <2>1, <2>2
<1>7. ASSUME NEW q \in 1..Len(Closed(r)) PROVE Closed(r)[q] = Closed(p)[q]
  <2>1. ASSUME NEW k \in 0..Len(r), q = ar[k] + 1 PROVE Closed(r)[q] = Closed(p)[q]
    <3>1. Closed(r)[ar[k] + 1] = "/" /\ Closed(p)[ap[k] + 1] = "/"
      BY <1>5 DEF SlashesAt
    <3> QED BY <1>5, <2>1, <3>1
  <2>2. ASSUME NEW k \in 1..Len(r), NEW m \in 1..Len(r[k]), q = ar[k - 1] + 1 + m
        PROVE  Closed(r)[q] = Closed(p)[q]
    <3>1. k - 1 \in 0..Len(r) /\ k \in 1..Len(p) /\ r[k] = p[k]
      BY <1>1
    <3>2. Closed(r)[ar[k - 1] + 1 + m] = r[k][m] /\ Closed(p)[ap[k - 1] + 1 + m] = p[k][m]
      BY <3>1, ZenonT(60) DEF SlashesAt
    <3> QED BY <1>5, <2>2, <3>1, <3>2
  <2> QED BY <2>1, <2>2 DEF SlashesAt
<1> QED BY <1>6, <1>7

\* For the kernel a path is beneath another exactly where its names say so.
LEMMA BeneathIs ==
    ASSUME NEW chars, NEW p \in Seq(Names(chars)), NEW r \in Seq(Names(chars))
    PROVE  Beneath(Text(p), Text(r)) <=> IsPrefix(r, p)
<1> DEFINE T == chars \cup {"/"}
<1>0. Len(p) \in Nat /\ Len(r) \in Nat
  OBVIOUS
<1>1. \A q \in Seq(Names(chars)) : q = <<>> => Text(q) = <<"/">>
  BY DEF Text
<1>2. IsPrefix(r, p) <=> Len(r) <= Len(p) /\ \A k \in 1..Len(r) : r[k] = p[k]
  BY PrefixIs
<1>3. CASE r = <<>>
  <2>1. Text(r) = <<"/">>
    BY <1>1, <1>3
  <2>2. Len(r) = 0
    BY <1>3
  <2>3. IsPrefix(r, p)
    BY <1>0, <1>2, <2>2
  <2> QED BY <2>1, <2>3 DEF Beneath
<1>4. CASE r # <<>>
  <2>1. Text(r) \in Seq(T) /\ Len(Text(r)) > 1 /\ Len(r) > 0
    BY <1>0, <1>4, TextAt
  <2>2. PICK ar : SlashesAt(r, ar)
    BY <1>4, TextAt
  <2>3. Append(Text(r), "/") \in Seq(T) /\ Len(Append(Text(r), "/")) = Len(Text(r)) + 1
    BY <2>1
  <2>4. Text(r) # <<"/">>
    <3>1. \A t : t = <<"/">> => Len(t) = 1
      OBVIOUS
    <3>2. Text(r) = <<"/">> => Len(Text(r)) = 1
      BY <3>1
    <3>3. Len(Text(r)) # 1
      BY <2>1, SMTT(40)
    <3> QED BY <3>2, <3>3
  <2>5. CASE p = <<>>
    <3>0. Text(p) = <<"/">>
      BY <1>1, <2>5
    <3>1. Text(p) = <<"/">> /\ Len(Text(p)) = 1
      BY <3>0
    <3>2. ~IsPrefix(Append(Text(r), "/"), Text(p))
      BY <2>1, <2>3, <3>1 DEF IsPrefix
    <3>3. ~IsPrefix(r, p)
      BY <1>0, <1>2, <2>1, <2>5
    <3> QED BY <2>4, <3>1, <3>2, <3>3 DEF Beneath
  <2>6. CASE p # <<>>
    <3>1. Text(p) \in Seq(T)
      BY <2>6, TextAt
    <3>2. PICK ap : SlashesAt(p, ap)
      BY <2>6, TextAt
    <3> DEFINE Agree == /\ Len(Closed(r)) <= Len(Closed(p))
                        /\ \A q \in 1..Len(Closed(r)) : Closed(r)[q] = Closed(p)[q]
    <3>3. Agree <=> IsPrefix(r, p)
      <4>1. Agree => IsPrefix(r, p)
        BY <1>2, <2>2, <3>2, NamesAgree
      <4>2. IsPrefix(r, p) => Agree
        BY <1>2, <2>2, <3>2, TextsAgree
      <4> QED BY <4>1, <4>2
    <3>4. /\ Len(Closed(r)) = Len(Text(r)) + 1 /\ Len(Closed(p)) = Len(Text(p)) + 1
          /\ Closed(r) \in Seq(T) /\ Closed(p) \in Seq(T)
          /\ Len(Text(r)) \in Nat /\ Len(Text(p)) \in Nat
          /\ Closed(r)[Len(Text(r)) + 1] = "/" /\ Closed(p)[Len(Text(p)) + 1] = "/"
          /\ \A q \in 1..Len(Text(r)) : Closed(r)[q] = Text(r)[q]
          /\ \A q \in 1..Len(Text(p)) : Closed(p)[q] = Text(p)[q]
      BY <2>1, <3>1 DEF Closed
    <3>5. IsPrefix(Closed(r), Text(p)) <=>
            Len(Closed(r)) <= Len(Text(p)) /\ \A q \in 1..Len(Closed(r)) : Closed(r)[q] = Text(p)[q]
      BY <3>1, <3>4, PrefixIs
    <3>6. IsPrefix(Closed(r), Text(p)) => Agree
      <4> SUFFICES ASSUME IsPrefix(Closed(r), Text(p)) PROVE Agree
        OBVIOUS
      <4>1. /\ Len(Closed(r)) <= Len(Text(p))
            /\ \A q \in 1..Len(Closed(r)) : Closed(r)[q] = Text(p)[q]
        BY <3>5
      <4>2. \A q \in 1..Len(Closed(r)) : q \in 1..Len(Text(p))
        BY <3>4, <4>1
      <4>3. \A q \in 1..Len(Closed(r)) : Closed(r)[q] = Closed(p)[q]
        BY <3>4, <4>1, <4>2
      <4> QED BY <3>4, <4>1, <4>3
    <3>7. Text(p) = Text(r) => Agree
      BY <3>4 DEF Closed
    <3>8. ASSUME Agree PROVE Text(p) = Text(r) \/ IsPrefix(Closed(r), Text(p))
      <4>1. CASE Len(Closed(r)) <= Len(Text(p))
        BY <3>4, <3>5, <3>8, <4>1
      <4>2. CASE ~(Len(Closed(r)) <= Len(Text(p)))
        <5>1. Len(Text(r)) = Len(Text(p))
          BY <3>4, <3>8, <4>2
        <5>2. \A q \in 1..Len(Text(r)) : Text(r)[q] = Text(p)[q]
          BY <3>4, <3>8, <5>1
        <5>3. /\ Text(r) = [q \in 1..Len(Text(r)) |-> Text(r)[q]]
              /\ Text(p) = [q \in 1..Len(Text(p)) |-> Text(p)[q]]
          BY <2>1, <3>1
        <5> QED BY <5>1, <5>2, <5>3
      <4> QED BY <4>1, <4>2
    <3>9. Beneath(Text(p), Text(r)) <=> Text(p) = Text(r) \/ IsPrefix(Closed(r), Text(p))
      BY <2>4 DEF Beneath, Closed
    <3> QED BY <3>3, <3>6, <3>7, <3>8, <3>9
  <2> QED BY <2>5, <2>6
<1> QED BY <1>3, <1>4

\* No two paths have one text.
LEMMA TextIsOnes ==
    ASSUME NEW chars, NEW p \in Seq(Names(chars)), NEW r \in Seq(Names(chars))
    PROVE  Text(p) = Text(r) <=> p = r
<1> SUFFICES ASSUME Text(p) = Text(r) PROVE p = r
  OBVIOUS
<1>1. Beneath(Text(p), Text(r)) /\ Beneath(Text(r), Text(p))
  BY DEF Beneath
<1>2. IsPrefix(r, p) /\ IsPrefix(p, r)
  BY <1>1, BeneathIs
<1>3. Len(p) = Len(r) /\ \A k \in 1..Len(p) : p[k] = r[k]
  <2>1. Len(p) \in Nat /\ Len(r) \in Nat
    OBVIOUS
  <2>2. Len(r) <= Len(p) /\ Len(p) <= Len(r) /\ \A k \in 1..Len(p) : p[k] = r[k]
    BY <1>2, PrefixIs
  <2> QED BY <2>1, <2>2
<1>4. p = [k \in 1..Len(p) |-> p[k]] /\ r = [k \in 1..Len(r) |-> r[k]]
  OBVIOUS
<1> QED BY <1>3, <1>4

\* Reading a quoted string, one character after the other.
ReadUpTo(f, string, n) ==
    f = [k \in 0..n |-> IF k = 0 THEN [text |-> <<>>, escaping |-> FALSE]
                        ELSE ReadOne(f[k - 1], string[k])]

\* What the reader does with one character.
LEMMA ReadOneIs ==
    ASSUME NEW text, NEW c
    PROVE  /\ ReadOne([text |-> text, escaping |-> TRUE], c) = [text |-> Append(text, c),
                escaping |-> FALSE]
           /\ c # Backslash => ReadOne([text |-> text, escaping |-> FALSE], c)
                                = [text |-> Append(text, c), escaping |-> FALSE]
           /\ ReadOne([text |-> text, escaping |-> FALSE], Backslash) = [text |-> text,
                escaping |-> TRUE]
<1>1. /\ [text |-> text, escaping |-> TRUE].text = text
      /\ [text |-> text, escaping |-> TRUE].escaping = TRUE
      /\ [text |-> text, escaping |-> FALSE].text = text
      /\ [text |-> text, escaping |-> FALSE].escaping = FALSE
  OBVIOUS
<1> QED BY <1>1, Zenon DEF ReadOne

\* The function Unquoted chooses exists.
LEMMA ReadExists == ASSUME NEW string, NEW N \in Nat PROVE \E f : ReadUpTo(f, string, N)
<1> DEFINE S == {n \in 0..N : \E f : ReadUpTo(f, string, n)}
           Z == [text |-> <<>>, escaping |-> FALSE]
<1>1. 0 \in S
  <2>1. PICK f : f = [k \in 0..0 |-> Z]
    OBVIOUS
  <2>2. f = [k \in 0..0 |-> IF k = 0 THEN Z ELSE ReadOne(f[k - 1], string[k])]
    BY <2>1
  <2>3. \E g : ReadUpTo(g, string, 0)
    BY <2>2, Zenon DEF ReadUpTo
  <2> QED BY <2>3
<1>2. ASSUME NEW n \in 0..N, n \in S /\ n < N PROVE n + 1 \in S
  <2>1. PICK f : ReadUpTo(f, string, n)
    BY <1>2
  <2>2. \A k \in 0..n : f[k] = IF k = 0 THEN Z ELSE ReadOne(f[k - 1], string[k])
    BY <2>1 DEF ReadUpTo
  <2>3. PICK g : g = [k \in 0..(n + 1) |-> IF k = 0 THEN Z ELSE ReadOne(f[k - 1], string[k])]
    OBVIOUS
  <2> HIDE DEF Z
  <2>4. \A k \in 0..(n + 1) : g[k] = IF k = 0 THEN Z ELSE ReadOne(f[k - 1], string[k])
    BY <2>3
  <2>5. \A k \in 0..n : g[k] = f[k]
    <3> TAKE k \in 0..n
    <3>1. k \in 0..(n + 1)
      OBVIOUS
    <3> QED BY <2>2, <2>4, <3>1
  <2>6. \A k \in 0..(n + 1) : k # 0 => k - 1 \in 0..n
    OBVIOUS
  <2>7. \A k \in 0..(n + 1) : g[k] = IF k = 0 THEN Z ELSE ReadOne(g[k - 1], string[k])
    BY <2>4, <2>5, <2>6
  <2>8. g = [k \in 0..(n + 1) |-> IF k = 0 THEN Z ELSE ReadOne(g[k - 1], string[k])]
    BY <2>3, <2>7
  <2>9. \E h : ReadUpTo(h, string, n + 1)
    BY <2>8, Zenon DEF ReadUpTo, Z
  <2> QED BY <1>2, <2>9
<1> HIDE DEF S
<1>3. 0..N \subseteq S
  BY <1>1, <1>2, UpTo
<1> QED BY <1>3 DEF S

\* The kernel reads the text that was quoted.
LEMMA QuotedIsRead == ASSUME NEW T, NEW text \in Seq(T) PROVE Unquoted(Escape(text)) = text
<1> DEFINE U == T \cup {Backslash}
           piece(k) == IF text[k] \in {Quote, Backslash} THEN <<Backslash,
               text[k]>> ELSE <<text[k]>>
           s == [k \in 1..Len(text) |-> piece(k)]
           string == Escape(text)
<1>1. Len(text) \in Nat /\ \A k \in 1..Len(text) : text[k] \in T
  OBVIOUS
<1>2. s \in Seq(Seq(U)) /\ Len(s) = Len(text) /\ \A k \in 1..Len(text) : s[k] = piece(k)
  <2>1. ASSUME NEW k \in 1..Len(text) PROVE piece(k) \in Seq(U)
    <3>1. text[k] \in U /\ Backslash \in U
      BY <1>1
    <3> HIDE DEF U
    <3>2. <<Backslash, text[k]>> \in Seq(U) /\ <<text[k]>> \in Seq(U)
      BY <3>1
    <3> QED BY <3>2
  <2> HIDE DEF piece, U
  <2> QED BY <1>1, <2>1
<1>3. string = FlattenSeq(s)
  BY DEF Escape
<1> HIDE DEF s, string
<1>4. PICK at : Laid(U, s, Len(text), at, string)
  BY <1>2, <1>3, FlatAt
<1>5. PICK f : /\ ReadUpTo(f, string, Len(string)) /\ Unquoted(string) = f[Len(string)].text
  <2>1. PICK f : f = (CHOOSE g : ReadUpTo(g, string, Len(string)))
    OBVIOUS
  <2>2. Unquoted(string) = f[Len(string)].text
    BY <2>1 DEF Unquoted, ReadUpTo
  <2>3. Len(string) \in Nat
    BY <1>4 DEF Laid
  <2>4. ReadUpTo(f, string, Len(string))
    BY <2>1, <2>3, ReadExists
  <2> QED BY <2>2, <2>4
<1>6. /\ string \in Seq(U) /\ at \in [0..Len(text) -> Nat] /\ at[0] = 0
      /\ Len(string) = at[Len(text)]
      /\ \A k \in 1..Len(text) : at[k] = at[k - 1] + Len(s[k])
      /\ \A k \in 1..Len(text) : \A m \in 1..Len(s[k]) :
           at[k - 1] + m \in 1..Len(string) /\ string[at[k - 1] + m] = s[k][m]
  BY <1>4 DEF Laid
<1>7. /\ f[0] = [text |-> <<>>, escaping |-> FALSE]
      /\ \A q \in 1..Len(string) : f[q] = ReadOne(f[q - 1], string[q])
  <2>1. Len(string) \in Nat
    BY <1>6
  <2>2. \A q \in 0..Len(string) : f[q] = IF q = 0 THEN [text |-> <<>>, escaping |-> FALSE]
                                         ELSE ReadOne(f[q - 1], string[q])
    BY <1>5 DEF ReadUpTo
  <2>3. 0 \in 0..Len(string) /\ \A q \in 1..Len(string) : q \in 0..Len(string) /\ q # 0
    BY <2>1
  <2> QED BY <2>2, <2>3
<1> DEFINE Read(n) == [text |-> SubSeq(text, 1, n), escaping |-> FALSE]
           S == {n \in 0..Len(text) : f[at[n]] = Read(n)}
<1>8. 0 \in S
  <2>1. SubSeq(text, 1, 0) = <<>>
    OBVIOUS
  <2>2. f[at[0]] = Read(0)
    BY <1>6, <1>7, <2>1
  <2>3. 0 \in 0..Len(text)
    BY <1>1
  <2> QED BY <2>2, <2>3
<1>9. ASSUME NEW n \in 0..Len(text), n \in S /\ n < Len(text) PROVE n + 1 \in S
  <2> DEFINE c == text[n + 1]
             a == at[n]
             before == SubSeq(text, 1, n)
  <2>1. n + 1 \in 1..Len(text) /\ n + 1 \in 0..Len(text) /\ (n + 1) - 1 = n
    BY <1>1, <1>9
  <2>2. f[a] = [text |-> before, escaping |-> FALSE] /\ a \in Nat
    BY <1>6, <1>9
  <2>3. SubSeq(text, 1, n + 1) = Append(before, c)
    BY <1>1, <2>1
  <2>4. s[n + 1] = IF c \in {Quote, Backslash} THEN <<Backslash, c>> ELSE <<c>>
    BY <1>2, <2>1
  <2>5. /\ at[n + 1] = a + Len(s[n + 1])
        /\ \A m \in 1..Len(s[n + 1]) : a + m \in 1..Len(string) /\ string[a + m] = s[n + 1][m]
    BY <1>6, <2>1
  <2> HIDE DEF a, before, S
  <2>6. \A m \in 1..Len(s[n + 1]) : f[a + m] = ReadOne(f[(a + m) - 1], s[n + 1][m])
    BY <1>7, <2>5
  <2>7. CASE c \notin {Quote, Backslash}
    <3>1. Len(s[n + 1]) = 1 /\ s[n + 1][1] = c /\ c # Backslash
      BY <2>4, <2>7
    <3>2. f[a + 1] = ReadOne(f[a], c) /\ at[n + 1] = a + 1
      <4>1. 1 \in 1..1 /\ (a + 1) - 1 = a
        BY <2>2
      <4> QED BY <2>5, <2>6, <3>1, <4>1
    <3>3. f[at[n + 1]] = [text |-> Append(before, c), escaping |-> FALSE]
      BY <2>2, <3>1, <3>2, ReadOneIs
    <3> QED BY <2>1, <2>3, <3>3 DEF S
  <2>8. CASE c \in {Quote, Backslash}
    <3>1. Len(s[n + 1]) = 2 /\ s[n + 1][1] = Backslash /\ s[n + 1][2] = c
      BY <2>4, <2>8
    <3>2. /\ f[a + 1] = ReadOne(f[a], Backslash) /\ f[a + 2] = ReadOne(f[a + 1], c)
          /\ at[n + 1] = a + 2
      <4>1. 1 \in 1..2 /\ 2 \in 1..2 /\ (a + 1) - 1 = a /\ (a + 2) - 1 = a + 1
        BY <2>2
      <4> QED BY <2>5, <2>6, <3>1, <4>1
    <3>3. f[a + 1] = [text |-> before, escaping |-> TRUE]
      BY <2>2, <3>2, ReadOneIs
    <3>4. f[at[n + 1]] = [text |-> Append(before, c), escaping |-> FALSE]
      BY <3>2, <3>3, ReadOneIs
    <3> QED BY <2>1, <2>3, <3>4 DEF S
  <2> QED BY <2>7, <2>8
<1> HIDE DEF S
<1>10. 0..Len(text) \subseteq S
  BY <1>1, <1>8, <1>9, UpTo
<1>11. f[at[Len(text)]] = Read(Len(text))
  <2>1. Len(text) \in S
    BY <1>1, <1>10
  <2> QED BY <2>1 DEF S
<1>12. SubSeq(text, 1, Len(text)) = text
  OBVIOUS
<1> QED BY <1>5, <1>6, <1>11, <1>12 DEF string

\* What a filter over a path matches.
LEMMA FilterMatches ==
    ASSUME NEW chars, NEW p \in Seq(Names(chars)), NEW r \in Seq(Names(chars))
    PROVE  /\ MatchesFile(Filter("literal", r), p) <=> p = r
           /\ MatchesFile(Filter("subpath", r), p) <=> IsPrefix(r, p)
           /\ MatchesFile(Filter("device", r), p) <=> p = r /\ p \in CharacterDevices
<1>1. Text(r) \in Seq(chars \cup {"/"})
  <2>1. r = <<>> => Text(r) = <<"/">>
    BY DEF Text
  <2>2. <<"/">> \in Seq(chars \cup {"/"})
    OBVIOUS
  <2> QED BY <2>1, <2>2, TextAt
<1>2. Unquoted(Escape(Text(r))) = Text(r)
  BY <1>1, QuotedIsRead
<1> QED BY <1>2, BeneathIs, TextIsOnes DEF MatchesFile, Filter

-----------------------------------------------------------------------------
(* The last rule that applies wins. *)

\* The last rule of a profile that is in applying allows.
Wins(profile, applying) ==
    \E k \in 1..Len(profile) :
      /\ profile[k] \in applying /\ profile[k].verdict = "allow"
      /\ \A l \in 1..Len(profile) : l > k /\ profile[l] \in applying => profile[l].verdict = "allow"

\* The rule SelectLastInSeq finds is that one.
LEMMA LastWins ==
    ASSUME NEW T, NEW profile \in Seq(T), NEW S, NEW I, NEW last,
           I = {k \in 1..Len(profile) : profile[k] \in S}, last = IF I # {} THEN Max(I) ELSE 0
    PROVE  last > 0 /\ profile[last].verdict = "allow" <=> Wins(profile, S)
<1>0. Len(profile) \in Nat /\ I \subseteq 1..Len(profile)
  OBVIOUS
<1>1. CASE I = {}
  <2>1. last = 0 /\ \A k \in 1..Len(profile) : profile[k] \notin S
    BY <1>1
  <2> QED BY <2>1 DEF Wins
<1>2. CASE I # {}
  <2>1. last \in I /\ \A k \in I : k <= last
    <3>1. I \subseteq 0..Len(profile)
      BY <1>0
    <3>2. \E m \in I : \A k \in I : k <= m
      BY <1>0, <1>2, <3>1, MostOf
    <3>3. last = CHOOSE m \in I : \A k \in I : k <= m
      BY <1>2 DEF Max
    <3> QED BY <3>2, <3>3
  <2>2. last \in 1..Len(profile) /\ last > 0 /\ profile[last] \in S
    BY <1>0, <2>1
  <2>3. \A l \in 1..Len(profile) : profile[l] \in S => l <= last
    BY <2>1
  <2>4. ASSUME profile[last].verdict = "allow" PROVE Wins(profile, S)
    <3>1. \A l \in 1..Len(profile) : l > last => profile[l] \notin S
      BY <2>2, <2>3
    <3> QED BY <2>2, <2>4, <3>1 DEF Wins
  <2>5. ASSUME Wins(profile, S) PROVE profile[last].verdict = "allow"
    <3>1. PICK k \in 1..Len(profile) :
            /\ profile[k] \in S /\ profile[k].verdict = "allow"
            /\ \A l \in 1..Len(profile) : l > k /\ profile[l] \in S => profile[l].verdict = "allow"
      BY <2>5 DEF Wins
    <3>2. k = last \/ last > k
      BY <2>2, <2>3, <3>1
    <3> QED BY <2>2, <3>1, <3>2
  <2> QED BY <2>2, <2>4, <2>5
<1> QED BY <1>1, <1>2

\* What a profile allows, by the set of the rules that apply.
LEMMA AllowsIs ==
    ASSUME NEW T, NEW profile \in Seq(T), NEW op, NEW x, NEW S
    PROVE  /\ (\A r \in T : r \in S <=> op \in r.ops /\ MatchesFile(r.filter, x)) =>
                (AllowsFile(profile, op, x) <=> Wins(profile, S))
           /\ (\A r \in T : r \in S <=> op \in r.ops /\ MatchesPlace(r.filter, x)) =>
                (AllowsPlace(profile, op, x) <=> Wins(profile, S))
<1>0. \A k \in 1..Len(profile) : profile[k] \in T
  OBVIOUS
<1>1. ASSUME \A r \in T : r \in S <=> op \in r.ops /\ MatchesFile(r.filter, x)
      PROVE  AllowsFile(profile, op, x) <=> Wins(profile, S)
  <2> DEFINE I == {k \in 1..Len(profile) : op \in profile[k].ops /\ MatchesFile(profile[k].filter,
      x)}
             last == IF I # {} THEN Max(I) ELSE 0
  <2>1. I = {k \in 1..Len(profile) : profile[k] \in S}
    BY <1>0, <1>1
  <2>2. AllowsFile(profile, op, x) <=> last > 0 /\ profile[last].verdict = "allow"
    BY DEF AllowsFile, Allows, SelectLastInSeq
  <2> HIDE DEF I
  <2>3. last > 0 /\ profile[last].verdict = "allow" <=> Wins(profile, S)
    BY <2>1, LastWins, SMTT(40)
  <2> QED BY <2>2, <2>3
<1>2. ASSUME \A r \in T : r \in S <=> op \in r.ops /\ MatchesPlace(r.filter, x)
      PROVE  AllowsPlace(profile, op, x) <=> Wins(profile, S)
  <2> DEFINE I == {k \in 1..Len(profile) : op \in profile[k].ops /\ MatchesPlace(profile[k].filter,
      x)}
             last == IF I # {} THEN Max(I) ELSE 0
  <2>1. I = {k \in 1..Len(profile) : profile[k] \in S}
    BY <1>0, <1>2
  <2>2. AllowsPlace(profile, op, x) <=> last > 0 /\ profile[last].verdict = "allow"
    BY DEF AllowsPlace, Allows, SelectLastInSeq
  <2> HIDE DEF I
  <2>3. last > 0 /\ profile[last].verdict = "allow" <=> Wins(profile, S)
    BY <2>1, LastWins, SMTT(40)
  <2> QED BY <2>2, <2>3
<1> QED BY <1>1, <1>2

\* Does a rule of rs apply?
Some(rs, S) == \E k \in 1..Len(rs) : rs[k] \in S

\* Rules of one verdict that follow others.
LEMMA WinsAfter ==
    ASSUME NEW T, NEW P \in Seq(T), NEW Q \in Seq(T), NEW S
    PROVE  /\ P \o Q \in Seq(T)
           /\ (\A k \in 1..Len(Q) : Q[k] \in S => Q[k].verdict = "allow") =>
                (Wins(P \o Q, S) <=> Wins(P, S) \/ Some(Q, S))
           /\ (\A k \in 1..Len(Q) : Q[k] \in S => Q[k].verdict = "deny") =>
                (Wins(P \o Q, S) <=> Wins(P, S) /\ ~Some(Q, S))
<1> DEFINE R == P \o Q
           n == Len(P)
           Good(x) == x \in S => x.verdict = "allow"
<1>1. /\ R \in Seq(T) /\ n \in Nat /\ Len(Q) \in Nat /\ Len(R) = n + Len(Q)
      /\ \A k \in 1..n : R[k] = P[k]
      /\ \A k \in 1..Len(Q) : R[n + k] = Q[k]
  OBVIOUS
<1> HIDE DEF R, n
<1>2. \A k \in 1..n : k \in 1..Len(R)
  BY <1>1
<1>3. \A k \in 1..Len(Q) : n + k \in 1..Len(R) /\ n + k > n
  BY <1>1
<1>4. \A k \in 1..Len(R) : k \in 1..n \/ (k - n \in 1..Len(Q) /\ k = n + (k - n) /\ k > n)
  BY <1>1
<1>5. Wins(R, S) <=> \E k \in 1..Len(R) : /\ R[k] \in S /\ R[k].verdict = "allow"
                                          /\ \A l \in 1..Len(R) : l > k => Good(R[l])
  BY DEF Wins
<1>6. Wins(P, S) <=> \E k \in 1..n : /\ P[k] \in S /\ P[k].verdict = "allow"
                                     /\ \A l \in 1..n : l > k => Good(P[l])
  BY DEF Wins, n
<1>7. Some(Q, S) <=> \E k \in 1..Len(Q) : Q[k] \in S
  BY DEF Some
<1>8. ASSUME \A k \in 1..Len(Q) : Good(Q[k])
      PROVE  Wins(R, S) <=> Wins(P, S) \/ Some(Q, S)
  <2>1. ASSUME Wins(P, S) PROVE Wins(R, S)
    <3>1. PICK k \in 1..n : /\ P[k] \in S /\ P[k].verdict = "allow"
                            /\ \A l \in 1..n : l > k => Good(P[l])
      BY <1>6, <2>1
    <3>2. \A l \in 1..Len(R) : l > k => Good(R[l])
      BY <1>1, <1>4, <1>8, <3>1, ZenonT(60)
    <3> QED BY <1>1, <1>2, <1>5, <3>1, <3>2
  <2>2. ASSUME Some(Q, S) PROVE Wins(R, S)
    <3>1. PICK k \in 1..Len(Q) : Q[k] \in S
      BY <1>7, <2>2
    <3>2. \A l \in 1..Len(R) : l > n + k => Good(R[l])
      <4> TAKE l \in 1..Len(R)
      <4> SUFFICES ASSUME l > n + k PROVE Good(R[l])
        OBVIOUS
      <4>1. l - n \in 1..Len(Q) /\ l = n + (l - n)
        BY <1>1
      <4>2. R[l] = Q[l - n]
        BY <1>1, <4>1
      <4> QED BY <1>8, <4>1, <4>2
    <3> QED BY <1>1, <1>3, <1>5, <1>8, <3>1, <3>2
  <2>3. ASSUME Wins(R, S), ~Some(Q, S) PROVE Wins(P, S)
    <3>1. PICK k \in 1..Len(R) : /\ R[k] \in S /\ R[k].verdict = "allow"
                                 /\ \A l \in 1..Len(R) : l > k => Good(R[l])
      BY <1>5, <2>3
    <3>2. k \in 1..n
      BY <1>1, <1>4, <1>7, <2>3, <3>1
    <3>3. \A l \in 1..n : l > k => Good(P[l])
      BY <1>1, <1>2, <3>1
    <3> QED BY <1>1, <1>6, <3>1, <3>2, <3>3
  <2> QED BY <2>1, <2>2, <2>3
<1>9. ASSUME \A k \in 1..Len(Q) : Q[k] \in S => Q[k].verdict = "deny"
      PROVE  Wins(R, S) <=> Wins(P, S) /\ ~Some(Q, S)
  <2>1. ASSUME Wins(R, S) PROVE Wins(P, S) /\ ~Some(Q, S)
    <3>1. PICK k \in 1..Len(R) : /\ R[k] \in S /\ R[k].verdict = "allow"
                                 /\ \A l \in 1..Len(R) : l > k => Good(R[l])
      BY <1>5, <2>1
    <3>2. k \in 1..n
      <4> SUFFICES ASSUME k \notin 1..n PROVE FALSE
        OBVIOUS
      <4>1. k - n \in 1..Len(Q) /\ R[k] = Q[k - n]
        BY <1>1, <1>4
      <4> QED BY <1>9, <3>1, <4>1
    <3>3. \A l \in 1..n : l > k => Good(P[l])
      BY <1>1, <1>2, <3>1
    <3>4. \A l \in 1..Len(Q) : Q[l] \notin S
      <4> SUFFICES ASSUME NEW l \in 1..Len(Q), Q[l] \in S PROVE FALSE
        OBVIOUS
      <4>1. n + l \in 1..Len(R) /\ n + l > k /\ R[n + l] = Q[l]
        BY <1>1, <1>3, <3>2
      <4>2. Q[l].verdict = "allow"
        BY <3>1, <4>1
      <4> QED BY <1>9, <4>2
    <3> QED BY <1>1, <1>6, <1>7, <3>1, <3>2, <3>3, <3>4
  <2>2. ASSUME Wins(P, S), ~Some(Q, S) PROVE Wins(R, S)
    <3>1. PICK k \in 1..n : /\ P[k] \in S /\ P[k].verdict = "allow"
                            /\ \A l \in 1..n : l > k => Good(P[l])
      BY <1>6, <2>2
    <3>2. \A l \in 1..Len(R) : l > k => Good(R[l])
      BY <1>1, <1>4, <1>7, <2>2, <3>1
    <3> QED BY <1>1, <1>2, <1>5, <3>1, <3>2
  <2> QED BY <2>1, <2>2
<1> QED BY <1>1, <1>8, <1>9 DEF R

\* What is in a row of sequences, and in a set put in a row.
LEMMA FlatHolds ==
    ASSUME NEW T, NEW s \in Seq(Seq(T))
    PROVE  /\ FlattenSeq(s) \in Seq(T)
           /\ \A q \in 1..Len(FlattenSeq(s)) :
                \E k \in 1..Len(s) : \E m \in 1..Len(s[k]) : FlattenSeq(s)[q] = s[k][m]
           /\ \A k \in 1..Len(s) : \A m \in 1..Len(s[k]) :
                \E q \in 1..Len(FlattenSeq(s)) : FlattenSeq(s)[q] = s[k][m]
<1>1. PICK at : Laid(T, s, Len(s), at, FlattenSeq(s))
  BY FlatAt
<1>2. ASSUME NEW q \in 1..Len(FlattenSeq(s))
      PROVE  \E k \in 1..Len(s) : \E m \in 1..Len(s[k]) : FlattenSeq(s)[q] = s[k][m]
  <2>1. PICK k \in 1..Len(s) : \E m \in 1..Len(s[k]) : q = at[k - 1] + m
    BY <1>1 DEF Laid
  <2>2. PICK m \in 1..Len(s[k]) : q = at[k - 1] + m
    BY <2>1
  <2>3. FlattenSeq(s)[at[k - 1] + m] = s[k][m]
    BY <1>1 DEF Laid
  <2> QED BY <2>2, <2>3
<1> QED BY <1>1, <1>2 DEF Laid

\* A set put in a row.
LEMMA RowOfSet ==
    ASSUME NEW S, IsFiniteSet(S)
    PROVE  /\ SetToSeq(S) \in Seq(S)
           /\ \A x \in S : \E k \in 1..Len(SetToSeq(S)) : SetToSeq(S)[k] = x
<1> DEFINE n == Cardinality(S)
<1>1. n \in Nat /\ ExistsBijection(1..n, S)
  BY FS_CardinalityType
<1>2. \E f \in [1..n -> S] : IsInjective(f)
  <2>1. PICK f : f \in Bijection(1..n, S)
    BY <1>1 DEF ExistsBijection
  <2> QED BY <2>1 DEF Bijection, Injection
<1>3. SetToSeq(S) \in [1..n -> S] /\ IsInjective(SetToSeq(S))
  BY <1>2 DEF SetToSeq
<1>4. SetToSeq(S) \in Injection(1..n, S)
  BY <1>3 DEF Injection
<1>5. Cardinality(1..n) = n
  BY <1>1, FS_Interval
<1>6. SetToSeq(S) \in Surjection(1..n, S)
  BY <1>4, <1>5, FS_Injection
<1>7. SetToSeq(S) \in Seq(S) /\ Len(SetToSeq(S)) = n
  BY <1>1, <1>3
<1> QED BY <1>6, <1>7 DEF Surjection

-----------------------------------------------------------------------------
(* What each part of a profile says of a path. *)

\* The policies that reach the backend: a list-only grant does not.
SeatbeltPolicies(chars) ==
    [network : Networks,
     grants : Seq([access : {"Read", "ReadWrite"}, path : Seq(Names(chars))]),
     denies : Seq([access : {"Deny"}, path : Seq(Names(chars))])]

\* The filters a profile is written with.
FiltersOver(chars) ==
    {Anything, To("loopback tcp"), To("mDNSResponder")}
      \cup {Filter(kind, r) : kind \in {"literal", "subpath", "device"}, r \in Seq(Names(chars))}

\* The rules a profile is written with.
RulesOver(chars) ==
    {Rule(verdict, ops, filter) : verdict \in {"allow", "deny"},
                                  ops \in SUBSET (FileOps \cup NetworkOps),
                                      filter \in FiltersOver(chars)}

\* The rules that apply to an operation on a path, or on a place.
OnFile(chars, op, x) == {r \in RulesOver(chars) : op \in r.ops /\ MatchesFile(r.filter, x)}
OnPlace(chars, op, place) == {r \in RulesOver(chars) : op \in r.ops /\ MatchesPlace(r.filter,
    place)}

\* Every filter a profile writes is one of them.
LEMMA FiltersAre ==
    ASSUME NEW chars
    PROVE  /\ Anything \in FiltersOver(chars) /\ To("loopback tcp") \in FiltersOver(chars)
           /\ To("mDNSResponder") \in FiltersOver(chars)
           /\ \A kind \in {"literal", "subpath", "device"}, r \in Seq(Names(chars)) :
                Filter(kind, r) \in FiltersOver(chars)
<1> DEFINE F == {Filter(kind, r) : kind \in {"literal", "subpath", "device"},
    r \in Seq(Names(chars))}
<1>1. \A kind \in {"literal", "subpath", "device"}, r \in Seq(Names(chars)) : Filter(kind, r) \in F
  OBVIOUS
<1>2. FiltersOver(chars) = {Anything, To("loopback tcp"), To("mDNSResponder")} \cup F
  BY DEF FiltersOver
<1> HIDE DEF F
<1> QED BY <1>1, <1>2

\* The parts of a rule.
LEMMA RuleIs ==
    ASSUME NEW verdict, NEW ops, NEW filter
    PROVE  /\ Rule(verdict, ops, filter).verdict = verdict
           /\ Rule(verdict, ops, filter).ops = ops
           /\ Rule(verdict, ops, filter).filter = filter
BY DEF Rule

\* When a rule applies.
LEMMA RuleApplies ==
    ASSUME NEW chars, NEW verdict \in {"allow", "deny"}, NEW ops,
        ops \subseteq FileOps \cup NetworkOps,
           NEW filter \in FiltersOver(chars)
    PROVE  /\ Rule(verdict, ops, filter).verdict = verdict
           /\ Rule(verdict, ops, filter) \in RulesOver(chars)
           /\ \A op, x : Rule(verdict, ops, filter) \in OnFile(chars, op, x)
                           <=> op \in ops /\ MatchesFile(filter, x)
           /\ \A op, x : Rule(verdict, ops, filter) \in OnPlace(chars, op, x)
                           <=> op \in ops /\ MatchesPlace(filter, x)
<1>1. Rule(verdict, ops, filter) \in RulesOver(chars)
  BY DEF RulesOver
<1> QED BY <1>1, RuleIs DEF OnFile, OnPlace

\* The operations on files and those on the network are apart.
LEMMA OpsApart ==
    /\ FileRead \subseteq FileOps /\ "read-data" \in FileRead /\ "read-metadata" \in FileRead
    /\ {"write", "map-executable", "ioctl"} \subseteq FileOps
    /\ "write" \notin FileRead /\ "map-executable" \notin FileRead /\ "ioctl" \notin FileRead
    /\ FileOps = FileRead \cup {"write", "map-executable", "ioctl"}
    /\ \A op \in NetworkOps : op \notin FileOps
    /\ "outbound" \in NetworkOps
BY DEF FileOps, FileRead, NetworkOps

\* The two devices are paths.
LEMMA DevicesNamed ==
    ASSUME NEW chars, {"null", "tty"} \subseteq chars
    PROVE  /\ <<>> \in Seq(Names(chars)) /\ DevNull \in Seq(Names(chars))
           /\ DevTty \in Seq(Names(chars))
           /\ DevNull # <<>> /\ DevTty # <<>> /\ DevNull # DevTty
<1>1. \A c \in {"null", "tty"} : c \in chars \ {"/"}
  OBVIOUS
<1>2. \A c \in {"null", "tty"} : <<c>> \in Seq(chars \ {"/"}) /\ <<c>> # <<>>
  BY <1>1
<1>3. \A c \in {"null", "tty"} : <<c>> \in Names(chars)
  BY <1>2 DEF Names
<1>4. \A n \in Names(chars) : <<n>> \in Seq(Names(chars)) /\ <<n>> # <<>>
  OBVIOUS
<1>5. <<<<"null">>>> # <<<<"tty">>>>
  OBVIOUS
<1> QED BY <1>3, <1>4, <1>5 DEF DevNull, DevTty

\* A profile that refuses everything and then allows three things.
LEMMA FourRules ==
    ASSUME NEW T, NEW a \in T, NEW b \in T, NEW c \in T, NEW d \in T, NEW S,
           a.verdict = "deny", b.verdict = "allow", c.verdict = "allow", d.verdict = "allow"
    PROVE  /\ <<a, b, c, d>> \in Seq(T)
           /\ Wins(<<a, b, c, d>>, S) <=> b \in S \/ c \in S \/ d \in S
<1> DEFINE P == <<a, b, c, d>>
<1>1. /\ P \in Seq(T) /\ Len(P) = 4 /\ P[1] = a /\ P[2] = b /\ P[3] = c /\ P[4] = d
  OBVIOUS
<1> HIDE DEF P
<1>2. 1..Len(P) = {1, 2, 3, 4}
  BY <1>1
<1>3. \A l \in {1, 2, 3, 4} : l > 1 => P[l].verdict = "allow"
  BY <1>1
<1>4. P[1].verdict # "allow"
  BY <1>1
<1>5. Wins(P, S) <=> P[2] \in S \/ P[3] \in S \/ P[4] \in S
  BY <1>2, <1>3, <1>4 DEF Wins
<1> QED BY <1>1, <1>5 DEF P

\* The base profile: the root's entry and the two devices, no network.
LEMMA BaseSays ==
    ASSUME NEW chars, {"null", "tty"} \subseteq chars
    PROVE  /\ BaseProfile \in Seq(RulesOver(chars))
           /\ \A op \in FileOps, x \in Seq(Names(chars)) :
                Wins(BaseProfile, OnFile(chars, op, x)) <=>
                  \/ op \in FileRead /\ x = <<>>
                  \/ op \in {"read-data", "write", "ioctl"} /\ x = DevNull /\ x \in CharacterDevices
                  \/ op \in FileRead \cup {"write", "ioctl"} /\ x = DevTty /\ x \in CharacterDevices
           /\ \A place : ~Wins(BaseProfile, OnPlace(chars, "outbound", place))
<1> DEFINE a == Rule("deny", FileOps \cup NetworkOps, Anything)
           b == Rule("allow", FileRead, Filter("literal", <<>>))
           c == Rule("allow", {"read-data", "write", "ioctl"}, Filter("device", DevNull))
           d == Rule("allow", FileRead \cup {"write", "ioctl"}, Filter("device", DevTty))
<1>1. /\ Anything \in FiltersOver(chars) /\ Filter("literal", <<>>) \in FiltersOver(chars)
      /\ Filter("device", DevNull) \in FiltersOver(chars)
      /\ Filter("device", DevTty) \in FiltersOver(chars)
  BY DevicesNamed, FiltersAre
<1>2. /\ FileRead \subseteq FileOps /\ {"read-data", "write", "ioctl"} \subseteq FileOps
      /\ FileRead \cup {"write", "ioctl"} \subseteq FileOps
  BY OpsApart
<1>3. a \in RulesOver(chars)
  BY <1>1, RuleApplies
<1>4. /\ b \in RulesOver(chars)
      /\ \A op, x : b \in OnFile(chars, op, x)
                      <=> op \in FileRead /\ MatchesFile(Filter("literal", <<>>), x)
      /\ \A op, x : b \in OnPlace(chars, op, x) => op \in FileOps
  BY <1>1, <1>2, RuleApplies
<1>9. /\ c \in RulesOver(chars)
      /\ \A op, x : c \in OnFile(chars, op, x) <=>
           op \in {"read-data", "write", "ioctl"} /\ MatchesFile(Filter("device", DevNull), x)
      /\ \A op, x : c \in OnPlace(chars, op, x) => op \in FileOps
  <2>1. PICK ops : ops = {"read-data", "write", "ioctl"}
    OBVIOUS
  <2>2. c = Rule("allow", ops, Filter("device", DevNull))
    BY <2>1
  <2>3. ops \subseteq FileOps
    BY <1>2, <2>1
  <2> HIDE DEF c
  <2>4. /\ c \in RulesOver(chars)
        /\ \A op, x : c \in OnFile(chars, op, x)
                        <=> op \in ops /\ MatchesFile(Filter("device", DevNull), x)
        /\ \A op, x : c \in OnPlace(chars, op, x) => op \in ops
    BY <1>1, <2>2, <2>3, RuleApplies
  <2> QED BY <2>1, <2>3, <2>4
<1>10. /\ d \in RulesOver(chars)
       /\ \A op, x : d \in OnFile(chars, op, x) <=>
            op \in FileRead \cup {"write", "ioctl"} /\ MatchesFile(Filter("device", DevTty), x)
       /\ \A op, x : d \in OnPlace(chars, op, x) => op \in FileOps
  <2>1. PICK ops : ops = FileRead \cup {"write", "ioctl"}
    OBVIOUS
  <2>2. d = Rule("allow", ops, Filter("device", DevTty))
    BY <2>1
  <2>3. ops \subseteq FileOps
    BY <1>2, <2>1
  <2> HIDE DEF d
  <2>4. /\ d \in RulesOver(chars)
        /\ \A op, x : d \in OnFile(chars, op, x)
                        <=> op \in ops /\ MatchesFile(Filter("device", DevTty), x)
        /\ \A op, x : d \in OnPlace(chars, op, x) => op \in ops
    BY <1>1, <2>2, <2>3, RuleApplies
  <2> QED BY <2>1, <2>3, <2>4
<1>5. a.verdict = "deny" /\ b.verdict = "allow" /\ c.verdict = "allow" /\ d.verdict = "allow"
  BY RuleIs
<1>6. BaseProfile = <<a, b, c, d>>
  BY DEF BaseProfile
<1> HIDE DEF a, b, c, d
<1>7. /\ BaseProfile \in Seq(RulesOver(chars))
      /\ \A S : Wins(BaseProfile, S) <=> b \in S \/ c \in S \/ d \in S
  BY <1>3, <1>4, <1>5, <1>6, <1>9, <1>10, FourRules
<1>8. \A x \in Seq(Names(chars)) :
        /\ MatchesFile(Filter("literal", <<>>), x) <=> x = <<>>
        /\ MatchesFile(Filter("device", DevNull), x) <=> x = DevNull /\ x \in CharacterDevices
        /\ MatchesFile(Filter("device", DevTty), x) <=> x = DevTty /\ x \in CharacterDevices
  BY DevicesNamed, FilterMatches, ZenonT(60)
<1>11. \A place : /\ b \notin OnPlace(chars, "outbound", place)
                  /\ c \notin OnPlace(chars, "outbound", place)
                  /\ d \notin OnPlace(chars, "outbound", place)
  BY <1>4, <1>9, <1>10, OpsApart
<1> QED BY <1>4, <1>7, <1>8, <1>9, <1>10, <1>11

\* The network's rules: of files they say nothing.
LEMMA NetworkSays ==
    ASSUME NEW chars, NEW network \in Networks
    PROVE  /\ NetworkRules(network) \in Seq(RulesOver(chars))
           /\ \A op \in FileOps : \A x : ~Some(NetworkRules(network), OnFile(chars, op, x))
           /\ network = "None" =>
                /\ \A k \in 1..Len(NetworkRules(network)) :
                     NetworkRules(network)[k].verdict = "deny"
                /\ \A place : Some(NetworkRules(network), OnPlace(chars, "outbound", place))
           /\ network # "None" =>
                /\ \A k \in 1..Len(NetworkRules(network)) :
                     NetworkRules(network)[k].verdict = "allow"
                /\ \A place : Some(NetworkRules(network), OnPlace(chars, "outbound", place)) <=>
                                network = "All" \/ place \in {"loopback tcp", "mDNSResponder"}
<1> DEFINE T == RulesOver(chars)
           N == NetworkRules(network)
<1>1. /\ Anything \in FiltersOver(chars) /\ To("loopback tcp") \in FiltersOver(chars)
      /\ To("mDNSResponder") \in FiltersOver(chars)
  BY FiltersAre
<1>2. /\ \A place : MatchesPlace(Anything, place)
      /\ \A place, t : MatchesPlace(To(t), place) <=> place = t
  BY DEF MatchesPlace, Anything, To
<1>3. /\ NetworkOps \subseteq FileOps \cup NetworkOps
      /\ {"outbound"} \subseteq FileOps \cup NetworkOps
      /\ {"bind", "inbound"} \subseteq FileOps \cup NetworkOps
      /\ \A op \in FileOps : op \notin NetworkOps /\ op \notin {"outbound"} /\ op \notin {"bind",
           "inbound"}
      /\ "outbound" \in NetworkOps /\ "outbound" \notin {"bind", "inbound"}
  BY DEF FileOps, FileRead, NetworkOps
<1>4. CASE network = "All"
  <2> DEFINE a == Rule("allow", NetworkOps, Anything)
  <2>1. N = <<a>>
    BY <1>4 DEF NetworkRules
  <2>2. /\ a \in T /\ a.verdict = "allow" /\ \A op \in FileOps : \A x : a \notin OnFile(chars, op,
             x)
        /\ \A place : a \in OnPlace(chars, "outbound", place)
    BY <1>1, <1>2, <1>3, RuleApplies
  <2> HIDE DEF a
  <2>3. N \in Seq(T) /\ Len(N) = 1 /\ N[1] = a /\ 1..Len(N) = {1}
    BY <2>1, <2>2
  <2> HIDE DEF N, T
  <2> QED BY <1>4, <2>2, <2>3 DEF Some, N, T
<1>5. CASE network = "Local"
  <2> DEFINE a == Rule("allow", {"outbound"}, To("loopback tcp"))
             b == Rule("allow", {"bind", "inbound"}, Anything)
             c == Rule("allow", {"outbound"}, To("mDNSResponder"))
  <2>1. N = <<a, b, c>>
    BY <1>5 DEF NetworkRules
  <2>2. /\ a \in T /\ a.verdict = "allow" /\ \A op \in FileOps : \A x : a \notin OnFile(chars, op,
             x)
        /\ \A place : a \in OnPlace(chars, "outbound", place) <=> place = "loopback tcp"
    <3>1. PICK ops : ops = {"outbound"}
      OBVIOUS
    <3>2. a = Rule("allow", ops, To("loopback tcp"))
      BY <3>1
    <3>3. ops \subseteq FileOps \cup NetworkOps
      BY <1>3, <3>1
    <3> HIDE DEF a
    <3>4. /\ a \in RulesOver(chars) /\ a.verdict = "allow"
          /\ \A op, x : a \in OnFile(chars, op, x)
               <=> op \in ops /\ MatchesFile(To("loopback tcp"), x)
          /\ \A op, x : a \in OnPlace(chars, op, x)
               <=> op \in ops /\ MatchesPlace(To("loopback tcp"), x)
      BY <1>1, <3>2, <3>3, RuleApplies
    <3> QED BY <1>2, <1>3, <3>1, <3>4
  <2>3. /\ b \in T /\ b.verdict = "allow" /\ \A op \in FileOps : \A x : b \notin OnFile(chars, op,
             x)
        /\ \A place : b \notin OnPlace(chars, "outbound", place)
    <3>1. PICK ops : ops = {"bind", "inbound"}
      OBVIOUS
    <3>2. b = Rule("allow", ops, Anything)
      BY <3>1
    <3>3. ops \subseteq FileOps \cup NetworkOps
      BY <1>3, <3>1
    <3> HIDE DEF b
    <3>4. /\ b \in RulesOver(chars) /\ b.verdict = "allow"
          /\ \A op, x : b \in OnFile(chars, op, x) <=> op \in ops /\ MatchesFile(Anything, x)
          /\ \A op, x : b \in OnPlace(chars, op, x) <=> op \in ops /\ MatchesPlace(Anything, x)
      BY <1>1, <3>2, <3>3, RuleApplies
    <3> QED BY <1>2, <1>3, <3>1, <3>4
  <2>4. /\ c \in T /\ c.verdict = "allow" /\ \A op \in FileOps : \A x : c \notin OnFile(chars, op,
             x)
        /\ \A place : c \in OnPlace(chars, "outbound", place) <=> place = "mDNSResponder"
    <3>1. PICK ops : ops = {"outbound"}
      OBVIOUS
    <3>2. c = Rule("allow", ops, To("mDNSResponder"))
      BY <3>1
    <3>3. ops \subseteq FileOps \cup NetworkOps
      BY <1>3, <3>1
    <3> HIDE DEF c
    <3>4. /\ c \in RulesOver(chars) /\ c.verdict = "allow"
          /\ \A op, x : c \in OnFile(chars, op, x)
               <=> op \in ops /\ MatchesFile(To("mDNSResponder"), x)
          /\ \A op, x : c \in OnPlace(chars, op, x)
               <=> op \in ops /\ MatchesPlace(To("mDNSResponder"), x)
      BY <1>1, <3>2, <3>3, RuleApplies
    <3> QED BY <1>2, <1>3, <3>1, <3>4
  <2> HIDE DEF a, b, c
  <2>5. /\ N \in Seq(T) /\ Len(N) = 3 /\ N[1] = a /\ N[2] = b /\ N[3] = c
    <3>1. a \in T /\ b \in T /\ c \in T
      BY <2>2, <2>3, <2>4
    <3> HIDE DEF T
    <3>2. <<a, b, c>> \in Seq(T) /\ Len(<<a, b, c>>) = 3
      BY <3>1
    <3> QED BY <2>1, <3>2
  <2>6. 1..Len(N) = {1, 2, 3}
    BY <2>5
  <2> HIDE DEF N, T
  <2> QED BY <1>5, <2>2, <2>3, <2>4, <2>5, <2>6 DEF Some, N, T
<1>6. CASE network = "None"
  <2> DEFINE a == Rule("deny", NetworkOps, Anything)
  <2>1. N = <<a>>
    BY <1>6 DEF NetworkRules
  <2>2. /\ a \in T /\ a.verdict = "deny" /\ \A op \in FileOps : \A x : a \notin OnFile(chars, op, x)
        /\ \A place : a \in OnPlace(chars, "outbound", place)
    BY <1>1, <1>2, <1>3, RuleApplies
  <2> HIDE DEF a
  <2>3. N \in Seq(T) /\ Len(N) = 1 /\ N[1] = a /\ 1..Len(N) = {1}
    BY <2>1, <2>2
  <2> HIDE DEF N, T
  <2> QED BY <1>6, <2>2, <2>3 DEF Some, N, T
<1> QED BY <1>4, <1>5, <1>6 DEF Networks

\* Prefixes of a path, for they are finitely many and paths themselves.
LEMMA PrefixesOf ==
    ASSUME NEW X, NEW p \in Seq(X)
    PROVE  /\ IsFiniteSet(Prefixes(p)) /\ Prefixes(p) \subseteq Seq(X)
           /\ \A dir \in Seq(X) : dir \in Prefixes(p) <=> IsPrefix(dir, p)
<1>1. Len(p) \in Nat /\ Prefixes(p) = {SubSeq(p, 1, l) : l \in 0..Len(p)}
  BY DEF Prefixes
<1>2. IsFiniteSet(Prefixes(p))
  <2> DEFINE f == [l \in 0..Len(p) |-> SubSeq(p, 1, l)]
  <2>1. IsFiniteSet(0..Len(p))
    BY <1>1, FS_Interval
  <2>2. f \in [0..Len(p) -> Prefixes(p)] /\ \A x \in Prefixes(p) : \E l \in 0..Len(p) : f[l] = x
    BY <1>1
  <2>3. f \in Surjection(0..Len(p), Prefixes(p))
    <3> HIDE DEF f
    <3> QED BY <2>2 DEF Surjection
  <2> HIDE DEF f
  <2> QED BY <2>1, <2>3, FS_Surjection
<1>3. ASSUME NEW l \in 0..Len(p)
      PROVE  /\ SubSeq(p, 1, l) \in Seq(X) /\ Len(SubSeq(p, 1, l)) = l
             /\ \A k \in 1..l : SubSeq(p, 1, l)[k] = p[k]
  BY <1>1
<1>4. ASSUME NEW dir \in Prefixes(p) PROVE dir \in Seq(X) /\ IsPrefix(dir, p)
  <2>1. PICK l \in 0..Len(p) : dir = SubSeq(p, 1, l)
    BY <1>1
  <2>2. dir \in Seq(X) /\ Len(dir) = l /\ \A k \in 1..Len(dir) : dir[k] = p[k]
    BY <1>3, <2>1
  <2> QED BY <1>1, <2>2, PrefixIs
<1>5. ASSUME NEW dir \in Seq(X), IsPrefix(dir, p) PROVE dir \in Prefixes(p)
  <2>1. Len(dir) \in 0..Len(p) /\ \A k \in 1..Len(dir) : dir[k] = p[k]
    BY <1>1, <1>5, PrefixIs
  <2>2. dir = [k \in 1..Len(dir) |-> dir[k]]
    OBVIOUS
  <2>3. SubSeq(p, 1, Len(dir)) = [k \in 1..Len(dir) |-> SubSeq(p, 1, Len(dir))[k]]
    BY <1>3, <2>1
  <2>4. \A k \in 1..Len(dir) : SubSeq(p, 1, Len(dir))[k] = dir[k]
    BY <1>3, <2>1
  <2>5. SubSeq(p, 1, Len(dir)) = dir
    BY <2>2, <2>3, <2>4
  <2> QED BY <1>1, <2>1, <2>5
<1> QED BY <1>2, <1>4, <1>5

\* A sequence's elements are finitely many.
LEMMA ElementsFinite ==
    ASSUME NEW X, NEW s \in Seq(X) PROVE IsFiniteSet(ToSet(s)) /\ ToSet(s) \subseteq X
<1>1. Len(s) \in Nat /\ ToSet(s) = {s[k] : k \in 1..Len(s)} /\ s \in [1..Len(s) -> X]
  BY DEF ToSet
<1>2. s \in Surjection(1..Len(s), ToSet(s))
  BY <1>1 DEF Surjection
<1>3. IsFiniteSet(1..Len(s))
  BY <1>1, FS_Interval
<1> QED BY <1>1, <1>2, <1>3, FS_Surjection

\* The paths a policy names are finitely many.
LEMMA PathsAre ==
    ASSUME NEW chars, NEW asked \in SeatbeltPolicies(chars)
    PROVE  /\ IsFiniteSet(PathsOf(asked)) /\ PathsOf(asked) \subseteq Seq(Names(chars))
           /\ PathsOf(asked) = {e.path : e \in ToSet(asked.grants) \cup ToSet(asked.denies)}
<1> DEFINE E == ToSet(asked.grants) \cup ToSet(asked.denies)
           f == [e \in E |-> e.path]
<1>1. /\ asked.grants \in Seq([access : {"Read", "ReadWrite"}, path : Seq(Names(chars))])
      /\ asked.denies \in Seq([access : {"Deny"}, path : Seq(Names(chars))])
  BY DEF SeatbeltPolicies
<1>2. /\ IsFiniteSet(E) /\ \A e \in E : e.path \in Seq(Names(chars))
  <2>1. /\ IsFiniteSet(ToSet(asked.grants)) /\ IsFiniteSet(ToSet(asked.denies))
        /\ ToSet(asked.grants) \subseteq [access : {"Read", "ReadWrite"}, path : Seq(Names(chars))]
        /\ ToSet(asked.denies) \subseteq [access : {"Deny"}, path : Seq(Names(chars))]
    BY <1>1, ElementsFinite
  <2> QED BY <2>1, FS_Union
<1>3. PathsOf(asked) = {e.path : e \in E}
  BY DEF PathsOf
<1> HIDE DEF E
<1>4. f \in Surjection(E, PathsOf(asked))
  <2>1. f \in [E -> PathsOf(asked)] /\ \A x \in PathsOf(asked) : \E e \in E : f[e] = x
    BY <1>3
  <2> HIDE DEF f
  <2> QED BY <2>1 DEF Surjection
<1> HIDE DEF f
<1>5. IsFiniteSet(PathsOf(asked))
  BY <1>2, <1>4, FS_Surjection
<1> QED BY <1>2, <1>3, <1>5 DEF E

\* So are the directories above them.
LEMMA AncestorsAre ==
    ASSUME NEW chars, NEW asked \in SeatbeltPolicies(chars)
    PROVE  /\ IsFiniteSet(Ancestors(asked)) /\ Ancestors(asked) \subseteq Seq(Names(chars))
           /\ \A dir \in Seq(Names(chars)) : dir \in Ancestors(asked) <=>
                dir # <<>> /\ \E p \in PathsOf(asked) : IsStrictPrefix(dir, p)
<1> DEFINE P == PathsOf(asked)
           Q == {Prefixes(p) : p \in P}
           f == [p \in P |-> Prefixes(p)]
<1>1. IsFiniteSet(P) /\ P \subseteq Seq(Names(chars))
  BY PathsAre
<1>2. Ancestors(asked) = {dir \in UNION Q : dir # <<>> /\ \E p \in P : IsStrictPrefix(dir, p)}
  BY DEF Ancestors
<1> HIDE DEF P
<1>3. f \in Surjection(P, Q)
  <2>1. f \in [P -> Q] /\ \A x \in Q : \E p \in P : f[p] = x
    OBVIOUS
  <2> HIDE DEF f, Q
  <2> QED BY <2>1 DEF Surjection
<1>4. IsFiniteSet(Q)
  <2> HIDE DEF f, Q
  <2> QED BY <1>1, <1>3, FS_Surjection
<1>5. \A x \in Q : IsFiniteSet(x) /\ x \subseteq Seq(Names(chars))
  BY <1>1, PrefixesOf
<1>6. \A dir \in Seq(Names(chars)) : \A p \in P : IsPrefix(dir, p) => dir \in UNION Q
  <2> SUFFICES ASSUME NEW dir \in Seq(Names(chars)), NEW p \in P, IsPrefix(dir, p)
               PROVE  dir \in UNION Q
    OBVIOUS
  <2>1. dir \in Prefixes(p) /\ Prefixes(p) \in Q
    BY <1>1, PrefixesOf
  <2> QED BY <2>1
<1> HIDE DEF Q
<1>7. IsFiniteSet(UNION Q)
  BY <1>4, <1>5, FS_UNION
<1>8. IsFiniteSet(Ancestors(asked)) /\ Ancestors(asked) \subseteq Seq(Names(chars))
  <2>1. Ancestors(asked) \in SUBSET (UNION Q)
    BY <1>2
  <2> QED BY <1>5, <1>7, <2>1, FS_Subset
<1> QED BY <1>2, <1>6, <1>8 DEF P, IsStrictPrefix

\* The rules for those directories, as in Profile.
AncestorRules(asked) ==
    SetToSeq({Rule("allow", {"read-metadata"}, Filter("literal", dir)) : dir \in Ancestors(asked)})

\* They let the metadata of those directories be read and nothing else.
LEMMA AncestorsSay ==
    ASSUME NEW chars, NEW asked \in SeatbeltPolicies(chars)
    PROVE  /\ AncestorRules(asked) \in Seq(RulesOver(chars))
           /\ \A k \in 1..Len(AncestorRules(asked)) : AncestorRules(asked)[k].verdict = "allow"
           /\ \A op \in FileOps, x \in Seq(Names(chars)) :
                Some(AncestorRules(asked), OnFile(chars, op, x)) <=>
                  op = "read-metadata" /\ x \in Ancestors(asked)
           /\ \A place : ~Some(AncestorRules(asked), OnPlace(chars, "outbound", place))
<1> DEFINE rule(dir) == Rule("allow", {"read-metadata"}, Filter("literal", dir))
           A == Ancestors(asked)
           R == {rule(dir) : dir \in A}
           f == [dir \in A |-> rule(dir)]
           row == SetToSeq(R)
<1>1. IsFiniteSet(A) /\ A \subseteq Seq(Names(chars))
  BY AncestorsAre
<1> HIDE DEF A
<1>2. ASSUME NEW dir \in A
      PROVE  /\ rule(dir) \in RulesOver(chars) /\ rule(dir).verdict = "allow"
             /\ \A op, x : rule(dir) \in OnFile(chars, op, x) <=>
                             op = "read-metadata" /\ MatchesFile(Filter("literal", dir), x)
             /\ \A place : rule(dir) \notin OnPlace(chars, "outbound", place)
  <2>1. PICK ops : ops = {"read-metadata"}
    OBVIOUS
  <2>2. rule(dir) = Rule("allow", ops, Filter("literal", dir))
    BY <2>1
  <2>3. ops \subseteq FileOps \cup NetworkOps /\ "outbound" \notin ops
    BY <2>1 DEF FileOps, FileRead
  <2>4. PICK flt \in FiltersOver(chars) : flt = Filter("literal", dir)
    BY <1>1, FiltersAre
  <2>5. rule(dir) = Rule("allow", ops, flt)
    BY <2>2, <2>4
  <2> HIDE DEF rule
  <2>6. /\ rule(dir) \in RulesOver(chars) /\ rule(dir).verdict = "allow"
        /\ \A op, x : rule(dir) \in OnFile(chars, op, x) <=> op \in ops /\ MatchesFile(flt, x)
        /\ \A op, x : rule(dir) \in OnPlace(chars, op, x) <=> op \in ops /\ MatchesPlace(flt, x)
    BY <2>3, <2>5, RuleApplies
  <2> QED BY <2>1, <2>3, <2>4, <2>6
<1> HIDE DEF rule
<1>3. IsFiniteSet(R)
  <2>1. f \in [A -> R] /\ \A x \in R : \E dir \in A : f[dir] = x
    OBVIOUS
  <2> HIDE DEF f, R
  <2>2. f \in Surjection(A, R)
    BY <2>1 DEF Surjection
  <2> QED BY <1>1, <2>2, FS_Surjection
<1>4. /\ \A r \in R : \E dir \in A : r = rule(dir)
      /\ \A dir \in A : rule(dir) \in R
  OBVIOUS
<1>5. AncestorRules(asked) = row
  BY DEF AncestorRules, A, rule
<1> HIDE DEF R
<1>6. row \in Seq(R) /\ \A r \in R : \E k \in 1..Len(row) : row[k] = r
  BY <1>3, RowOfSet
<1> HIDE DEF row
<1>7. R \subseteq RulesOver(chars) /\ \A r \in R : r.verdict = "allow"
  BY <1>2, <1>4
<1>8. Len(row) \in Nat /\ \A k \in 1..Len(row) : row[k] \in R
  BY <1>6
<1>9. row \in Seq(RulesOver(chars))
  <2>1. row = [k \in 1..Len(row) |-> row[k]]
    BY <1>6
  <2>2. \A k \in 1..Len(row) : row[k] \in RulesOver(chars)
    BY <1>7, <1>8
  <2> QED BY <1>8, <2>1, <2>2
<1>10. ASSUME NEW op \in FileOps, NEW x \in Seq(Names(chars))
       PROVE  Some(row, OnFile(chars, op, x)) <=> op = "read-metadata" /\ x \in A
  <2>1. \A dir \in A : MatchesFile(Filter("literal", dir), x) <=> x = dir
    BY <1>1, FilterMatches
  <2>2. \A dir \in A : rule(dir) \in OnFile(chars, op, x) <=> op = "read-metadata" /\ x = dir
    BY <1>2, <2>1
  <2>3. ASSUME Some(row, OnFile(chars, op, x)) PROVE op = "read-metadata" /\ x \in A
    BY <1>4, <1>8, <2>2, <2>3 DEF Some
  <2>4. ASSUME op = "read-metadata", x \in A PROVE Some(row, OnFile(chars, op, x))
    BY <1>4, <1>6, <2>2, <2>4 DEF Some
  <2> QED BY <2>3, <2>4
<1>11. \A place : ~Some(row, OnPlace(chars, "outbound", place))
  BY <1>2, <1>4, <1>8 DEF Some
<1> QED BY <1>5, <1>7, <1>8, <1>9, <1>10, <1>11 DEF A

\* What applies in a row of rows of rules, all of one verdict, is what
\* applies in one of them.
LEMMA RowsSay ==
    ASSUME NEW T, NEW s \in Seq(Seq(T)), NEW verdict,
           \A k \in 1..Len(s) : \A m \in 1..Len(s[k]) : s[k][m].verdict = verdict
    PROVE  /\ FlattenSeq(s) \in Seq(T)
           /\ \A q \in 1..Len(FlattenSeq(s)) : FlattenSeq(s)[q].verdict = verdict
           /\ \A S : Some(FlattenSeq(s), S) <=> \E k \in 1..Len(s) : Some(s[k], S)
<1> DEFINE row == FlattenSeq(s)
<1>1. /\ row \in Seq(T)
      /\ \A q \in 1..Len(row) : \E k \in 1..Len(s) : \E m \in 1..Len(s[k]) : row[q] = s[k][m]
      /\ \A k \in 1..Len(s) : \A m \in 1..Len(s[k]) : \E q \in 1..Len(row) : row[q] = s[k][m]
  BY FlatHolds
<1> HIDE DEF row
<1>2. \A q \in 1..Len(row) : row[q].verdict = verdict
  <2> TAKE q \in 1..Len(row)
  <2>1. PICK k \in 1..Len(s) : \E m \in 1..Len(s[k]) : row[q] = s[k][m]
    BY <1>1
  <2>2. PICK m \in 1..Len(s[k]) : row[q] = s[k][m]
    BY <2>1
  <2>3. s[k][m].verdict = verdict
    OBVIOUS
  <2> QED BY <2>2, <2>3
<1>3. ASSUME NEW S PROVE Some(row, S) <=> \E k \in 1..Len(s) : Some(s[k], S)
  <2>1. Some(row, S) <=> \E q \in 1..Len(row) : row[q] \in S
    BY DEF Some
  <2>2. \A k \in 1..Len(s) : Some(s[k], S) <=> \E m \in 1..Len(s[k]) : s[k][m] \in S
    BY DEF Some
  <2>3. ASSUME NEW q \in 1..Len(row), row[q] \in S PROVE \E k \in 1..Len(s) : Some(s[k], S)
    BY <1>1, <2>2, <2>3
  <2>4. ASSUME NEW k \in 1..Len(s), Some(s[k], S) PROVE Some(row, S)
    <3>1. PICK m \in 1..Len(s[k]) : s[k][m] \in S
      BY <2>2, <2>4
    <3> QED BY <1>1, <2>1, <3>1
  <2> QED BY <2>1, <2>3, <2>4
<1> QED BY <1>1, <1>2, <1>3 DEF row

\* What one rule over a subtree says.
LEMMA SubtreeSays ==
    ASSUME NEW chars, NEW verdict \in {"allow", "deny"}, NEW ops, ops \subseteq FileOps,
           NEW root \in Seq(Names(chars))
    PROVE  /\ Rule(verdict, ops, Filter("subpath", root)) \in RulesOver(chars)
           /\ Rule(verdict, ops, Filter("subpath", root)).verdict = verdict
           /\ \A op : \A x \in Seq(Names(chars)) :
                Rule(verdict, ops, Filter("subpath", root)) \in OnFile(chars, op, x)
                  <=> op \in ops /\ IsPrefix(root, x)
           /\ \A place :
                Rule(verdict, ops, Filter("subpath", root)) \notin OnPlace(chars, "outbound", place)
<1>1. PICK flt \in FiltersOver(chars) : flt = Filter("subpath", root)
  BY FiltersAre
<1>2. PICK rule : rule = Rule(verdict, ops, flt)
  OBVIOUS
<1>3. /\ rule \in RulesOver(chars) /\ rule.verdict = verdict
      /\ \A op, x : rule \in OnFile(chars, op, x) <=> op \in ops /\ MatchesFile(flt, x)
      /\ \A op, x : rule \in OnPlace(chars, op, x) <=> op \in ops /\ MatchesPlace(flt, x)
  <2>1. /\ verdict \in {"allow", "deny"} /\ ops \subseteq FileOps \cup NetworkOps
        /\ flt \in FiltersOver(chars)
    OBVIOUS
  <2>2. /\ Rule(verdict, ops, flt) \in RulesOver(chars) /\ Rule(verdict, ops, flt).verdict = verdict
        /\ \A op, x : Rule(verdict, ops, flt) \in OnFile(chars, op, x)
                        <=> op \in ops /\ MatchesFile(flt, x)
        /\ \A op, x : Rule(verdict, ops, flt) \in OnPlace(chars, op, x)
                        <=> op \in ops /\ MatchesPlace(flt, x)
    <3>1. CASE verdict = "allow"
      <4>1. /\ Rule("allow", ops, flt) \in RulesOver(chars) /\ Rule("allow", ops,
                 flt).verdict = "allow"
            /\ \A op, x : Rule("allow", ops, flt) \in OnFile(chars, op, x)
                            <=> op \in ops /\ MatchesFile(flt, x)
            /\ \A op, x : Rule("allow", ops, flt) \in OnPlace(chars, op, x)
                            <=> op \in ops /\ MatchesPlace(flt, x)
        BY <2>1, RuleApplies
      <4> QED BY <3>1, <4>1
    <3>2. CASE verdict = "deny"
      <4>1. /\ Rule("deny", ops, flt) \in RulesOver(chars) /\ Rule("deny", ops,
                 flt).verdict = "deny"
            /\ \A op, x : Rule("deny", ops, flt) \in OnFile(chars, op, x)
                            <=> op \in ops /\ MatchesFile(flt, x)
            /\ \A op, x : Rule("deny", ops, flt) \in OnPlace(chars, op, x)
                            <=> op \in ops /\ MatchesPlace(flt, x)
        BY <2>1, RuleApplies
      <4> QED BY <3>2, <4>1
    <3> QED BY <3>1, <3>2
  <2> QED BY <1>2, <2>2
<1>4. \A x \in Seq(Names(chars)) : MatchesFile(flt, x) <=> IsPrefix(root, x)
  BY <1>1, FilterMatches
<1>5. "outbound" \notin ops
  BY OpsApart
<1>6. rule = Rule(verdict, ops, Filter("subpath", root))
  BY <1>1, <1>2
<1> QED BY <1>3, <1>4, <1>5, <1>6

\* Two rows, one after the other.
LEMMA InARow ==
    ASSUME NEW T, NEW P \in Seq(T), NEW Q \in Seq(T)
    PROVE  /\ P \o Q \in Seq(T) /\ Len(P \o Q) = Len(P) + Len(Q)
           /\ \A k \in 1..Len(P) : (P \o Q)[k] = P[k]
           /\ \A k \in 1..Len(Q) : (P \o Q)[Len(P) + k] = Q[k]
OBVIOUS

\* A grant's rules: all but a write on its subtree, a write if it says so.
LEMMA GrantSays ==
    ASSUME NEW chars, NEW grant \in [access : {"Read", "ReadWrite"}, path : Seq(Names(chars))]
    PROVE  /\ GrantRules(grant) \in Seq(RulesOver(chars))
           /\ \A m \in 1..Len(GrantRules(grant)) : GrantRules(grant)[m].verdict = "allow"
           /\ \A op \in FileOps, x \in Seq(Names(chars)) :
                Some(GrantRules(grant), OnFile(chars, op, x)) <=>
                  IsPrefix(grant.path, x) /\ (op = "write" => grant.access = "ReadWrite")
           /\ \A place : ~Some(GrantRules(grant), OnPlace(chars, "outbound", place))
<1> DEFINE T == RulesOver(chars)
           N == GrantRules(grant)
           subtree == Filter("subpath", grant.path)
           a == Rule("allow", FileRead, subtree)
           b == Rule("allow", {"map-executable"}, subtree)
           c == Rule("allow", {"ioctl"}, subtree)
           d == Rule("allow", {"write"}, subtree)
           On(r, ops) == /\ r \in T /\ r.verdict = "allow"
                         /\ \A op : \A x \in Seq(Names(chars)) :
                              r \in OnFile(chars, op, x) <=> op \in ops /\ IsPrefix(grant.path, x)
                         /\ \A place : r \notin OnPlace(chars, "outbound", place)
<1>1. grant.path \in Seq(Names(chars)) /\ grant.access \in {"Read", "ReadWrite"}
  OBVIOUS
<1>2. ASSUME NEW ops, ops \subseteq FileOps PROVE On(Rule("allow", ops, subtree), ops)
  <2>1. PICK root \in Seq(Names(chars)) : root = grant.path
    BY <1>1
  <2>2. /\ Rule("allow", ops, Filter("subpath", root)) \in RulesOver(chars)
        /\ Rule("allow", ops, Filter("subpath", root)).verdict = "allow"
        /\ \A op : \A x \in Seq(Names(chars)) :
             Rule("allow", ops, Filter("subpath", root)) \in OnFile(chars, op, x)
               <=> op \in ops /\ IsPrefix(root, x)
        /\ \A place :
             Rule("allow", ops, Filter("subpath", root)) \notin OnPlace(chars, "outbound", place)
    <3> HIDE DEF T, N, subtree, a, b, c, d, On
    <3> QED BY <1>2, SubtreeSays
  <2> QED BY <2>1, <2>2 DEF On, subtree, T
<1>3. /\ FileRead \subseteq FileOps /\ {"map-executable"} \subseteq FileOps
      /\ {"ioctl"} \subseteq FileOps /\ {"write"} \subseteq FileOps
      /\ FileOps = FileRead \cup {"map-executable"} \cup {"ioctl"} \cup {"write"}
      /\ "write" \notin FileRead
  BY OpsApart
<1>4. /\ N = IF grant.access = "ReadWrite" THEN <<a, b, c>> \o <<d>> ELSE <<a, b, c>> \o <<>>
  BY DEF GrantRules
<1> HIDE DEF On, subtree
<1>5. On(a, FileRead)
  BY <1>2, <1>3
<1>6. On(b, {"map-executable"})
  BY <1>2, <1>3
<1>7. On(c, {"ioctl"})
  BY <1>2, <1>3
<1>8. On(d, {"write"})
  BY <1>2, <1>3
<1> HIDE DEF a, b, c, d
<1>9. a \in T /\ b \in T /\ c \in T /\ d \in T
  BY <1>5, <1>6, <1>7, <1>8 DEF On
<1> HIDE DEF T, N
<1>10. CASE grant.access = "ReadWrite"
  <2> DEFINE P == <<a, b, c>>
             Q == <<d>>
  <2>1. /\ P \in Seq(T) /\ Len(P) = 3 /\ P[1] = a /\ P[2] = b /\ P[3] = c
        /\ Q \in Seq(T) /\ Len(Q) = 1 /\ Q[1] = d
    BY <1>9
  <2>4. N = P \o Q
    BY <1>4, <1>10
  <2> HIDE DEF P, Q
  <2>2. /\ N \in Seq(T) /\ 1..Len(N) = {1, 2, 3, 4}
        /\ N[1] = a /\ N[2] = b /\ N[3] = c /\ N[4] = d
    <3>1. /\ N \in Seq(T) /\ Len(N) = 3 + 1
          /\ \A k \in 1..3 : N[k] = P[k]
          /\ \A k \in 1..1 : N[3 + k] = Q[k]
      <4>1. P \in Seq(T) /\ Q \in Seq(T)
        BY <2>1
      <4>2. /\ P \o Q \in Seq(T) /\ Len(P \o Q) = Len(P) + Len(Q)
            /\ \A k \in 1..Len(P) : (P \o Q)[k] = P[k]
            /\ \A k \in 1..Len(Q) : (P \o Q)[Len(P) + k] = Q[k]
        BY <4>1, InARow
      <4> QED BY <2>1, <2>4, <4>2
    <3>2. N[1] = P[1] /\ N[2] = P[2] /\ N[3] = P[3] /\ N[4] = Q[1]
      BY <3>1
    <3> QED BY <2>1, <3>1, <3>2
  <2>3. \A S : Some(N, S) <=> a \in S \/ b \in S \/ c \in S \/ d \in S
    BY <2>2 DEF Some
  <2> QED BY <1>3, <1>5, <1>6, <1>7, <1>8, <1>10, <2>2, <2>3 DEF On, N, T
<1>11. CASE grant.access # "ReadWrite"
  <2>1. /\ <<a, b, c>> \in Seq(T) /\ Len(<<a, b, c>>) = 3 /\ N = <<a, b, c>>
    BY <1>4, <1>9, <1>11
  <2>2. /\ N \in Seq(T) /\ 1..Len(N) = {1, 2, 3} /\ N[1] = a /\ N[2] = b /\ N[3] = c
    BY <2>1
  <2>3. \A S : Some(N, S) <=> a \in S \/ b \in S \/ c \in S
    BY <2>2 DEF Some
  <2> QED BY <1>3, <1>5, <1>6, <1>7, <1>11, <2>2, <2>3 DEF On, N, T
<1> QED BY <1>10, <1>11

\* The rules for the grants and for the denies, as in Profile.
GrantPart(asked) == RulesOf(asked.grants, GrantRules)
DenyPart(asked) == RulesOf(asked.denies, LAMBDA d : << DenyRule(d) >>)

\* All the grants' rules.
LEMMA GrantsSay ==
    ASSUME NEW chars, NEW asked \in SeatbeltPolicies(chars)
    PROVE  /\ GrantPart(asked) \in Seq(RulesOver(chars))
           /\ \A k \in 1..Len(GrantPart(asked)) : GrantPart(asked)[k].verdict = "allow"
           /\ \A op \in FileOps, x \in Seq(Names(chars)) :
                Some(GrantPart(asked), OnFile(chars, op, x)) <=>
                  \E g \in ToSet(asked.grants) :
                    IsPrefix(g.path, x) /\ (op = "write" => g.access = "ReadWrite")
           /\ \A place : ~Some(GrantPart(asked), OnPlace(chars, "outbound", place))
<1> DEFINE G == [access : {"Read", "ReadWrite"}, path : Seq(Names(chars))]
           T == RulesOver(chars)
           list == asked.grants
           s == [k \in 1..Len(list) |-> GrantRules(list[k])]
<1>1. list \in Seq(G)
  BY DEF SeatbeltPolicies
<1>2. GrantPart(asked) = FlattenSeq(s)
  BY DEF GrantPart, RulesOf
<1> HIDE DEF list
<1>3. ToSet(list) = {list[k] : k \in 1..Len(list)}
  <2> HIDE DEF G, T, s
  <2>1. DOMAIN list = 1..Len(list)
    BY <1>1
  <2> QED BY <2>1 DEF ToSet
<1>4. \A k \in 1..Len(list) : list[k] \in G
  <2> HIDE DEF G
  <2> QED BY <1>1
<1>5. s \in Seq(Seq(T)) /\ Len(s) = Len(list) /\ \A k \in 1..Len(list) : s[k] = GrantRules(list[k])
  <2>1. \A k \in 1..Len(list) : GrantRules(list[k]) \in Seq(T)
    BY <1>4, GrantSays
  <2>2. Len(list) \in Nat
    BY <1>1
  <2> HIDE DEF T
  <2> QED BY <2>1, <2>2
<1> HIDE DEF s
<1>6. ASSUME NEW k \in 1..Len(list)
      PROVE  /\ \A m \in 1..Len(s[k]) : s[k][m].verdict = "allow"
             /\ \A op \in FileOps, x \in Seq(Names(chars)) :
                  Some(s[k], OnFile(chars, op, x)) <=>
                    IsPrefix(list[k].path, x) /\ (op = "write" => list[k].access = "ReadWrite")
             /\ \A place : ~Some(s[k], OnPlace(chars, "outbound", place))
  <2>1. list[k] \in G /\ s[k] = GrantRules(list[k])
    BY <1>4, <1>5
  <2> QED BY <2>1, GrantSays
<1>7. /\ FlattenSeq(s) \in Seq(T)
      /\ \A q \in 1..Len(FlattenSeq(s)) : FlattenSeq(s)[q].verdict = "allow"
      /\ \A S : Some(FlattenSeq(s), S) <=> \E k \in 1..Len(s) : Some(s[k], S)
  <2>1. s \in Seq(Seq(T)) /\ \A k \in 1..Len(s) : \A m \in 1..Len(s[k]) : s[k][m].verdict = "allow"
    BY <1>5, <1>6
  <2> HIDE DEF T
  <2> QED BY <2>1, RowsSay
<1>8. \A op \in FileOps, x \in Seq(Names(chars)) :
        Some(FlattenSeq(s), OnFile(chars, op, x)) <=>
          \E k \in 1..Len(list) : IsPrefix(list[k].path, x) /\ (op = "write" =>
              list[k].access = "ReadWrite")
  BY <1>5, <1>6, <1>7
<1>9. \A place : ~Some(FlattenSeq(s), OnPlace(chars, "outbound", place))
  BY <1>5, <1>6, <1>7
<1>10. \A op \in FileOps, x \in Seq(Names(chars)) :
         (\E k \in 1..Len(list) : IsPrefix(list[k].path, x) /\ (op = "write" =>
             list[k].access = "ReadWrite"))
           <=> \E g \in ToSet(list) : IsPrefix(g.path, x) /\ (op = "write" =>
               g.access = "ReadWrite")
  BY <1>3
<1> QED BY <1>2, <1>7, <1>8, <1>9, <1>10 DEF list

\* All the denies' rules.
LEMMA DeniesSay ==
    ASSUME NEW chars, NEW asked \in SeatbeltPolicies(chars)
    PROVE  /\ DenyPart(asked) \in Seq(RulesOver(chars))
           /\ \A k \in 1..Len(DenyPart(asked)) : DenyPart(asked)[k].verdict = "deny"
           /\ \A op \in FileOps, x \in Seq(Names(chars)) :
                Some(DenyPart(asked), OnFile(chars, op, x)) <=>
                  op \in FileRead /\ \E d \in ToSet(asked.denies) : IsPrefix(d.path, x)
           /\ \A place : ~Some(DenyPart(asked), OnPlace(chars, "outbound", place))
<1> DEFINE G == [access : {"Deny"}, path : Seq(Names(chars))]
           T == RulesOver(chars)
           list == asked.denies
           s == [k \in 1..Len(list) |-> << DenyRule(list[k]) >>]
<1>1. list \in Seq(G)
  BY DEF SeatbeltPolicies
<1>2. DenyPart(asked) = FlattenSeq(s)
  BY DEF DenyPart, RulesOf
<1> HIDE DEF list
<1>3. ToSet(list) = {list[k] : k \in 1..Len(list)}
  <2> HIDE DEF G, T, s
  <2>1. DOMAIN list = 1..Len(list)
    BY <1>1
  <2> QED BY <2>1 DEF ToSet
<1>4. ASSUME NEW k \in 1..Len(list)
      PROVE  /\ DenyRule(list[k]) \in T /\ DenyRule(list[k]).verdict = "deny"
             /\ \A op : \A x \in Seq(Names(chars)) : DenyRule(list[k]) \in OnFile(chars, op, x)
                          <=> op \in FileRead /\ IsPrefix(list[k].path, x)
             /\ \A place : DenyRule(list[k]) \notin OnPlace(chars, "outbound", place)
  <2>1. list[k].path \in Seq(Names(chars))
    <3>1. list[k] \in G
      <4> HIDE DEF G
      <4> QED BY <1>1
    <3> QED BY <3>1
  <2>2. PICK r : r = DenyRule(list[k])
    OBVIOUS
  <2>3. r = Rule("deny", FileRead, Filter("subpath", list[k].path))
    BY <2>2 DEF DenyRule
  <2>4. FileRead \subseteq FileOps
    BY OpsApart
  <2>5. /\ r \in T /\ r.verdict = "deny"
        /\ \A op : \A x \in Seq(Names(chars)) : r \in OnFile(chars, op, x)
                     <=> op \in FileRead /\ IsPrefix(list[k].path, x)
        /\ \A place : r \notin OnPlace(chars, "outbound", place)
    BY <2>1, <2>3, <2>4, SubtreeSays, ZenonT(60)
  <2> QED BY <2>2, <2>5
<1>5. /\ s \in Seq(Seq(T)) /\ Len(s) = Len(list)
      /\ \A k \in 1..Len(list) : Len(s[k]) = 1 /\ s[k][1] = DenyRule(list[k])
      /\ \A k \in 1..Len(list) : 1..Len(s[k]) = {1}
  <2>1. \A k \in 1..Len(list) : DenyRule(list[k]) \in T
    BY <1>4
  <2>2. Len(list) \in Nat
    BY <1>1
  <2> HIDE DEF T
  <2>3. \A k \in 1..Len(list) : << DenyRule(list[k]) >> \in Seq(T)
    BY <2>1
  <2>4. s \in Seq(Seq(T)) /\ Len(s) = Len(list)
        /\ \A k \in 1..Len(list) : s[k] = << DenyRule(list[k]) >>
    BY <2>2, <2>3
  <2> QED BY <2>4
<1> HIDE DEF s
<1>6. ASSUME NEW k \in 1..Len(list)
      PROVE  /\ \A m \in 1..Len(s[k]) : s[k][m].verdict = "deny"
             /\ \A op : \A x \in Seq(Names(chars)) : Some(s[k], OnFile(chars, op, x)) <=>
                                                      op \in FileRead /\ IsPrefix(list[k].path, x)
             /\ \A place : ~Some(s[k], OnPlace(chars, "outbound", place))
  <2>1. \A S : Some(s[k], S) <=> DenyRule(list[k]) \in S
    BY <1>5 DEF Some
  <2> QED BY <1>4, <1>5, <2>1
<1>7. /\ FlattenSeq(s) \in Seq(T)
      /\ \A q \in 1..Len(FlattenSeq(s)) : FlattenSeq(s)[q].verdict = "deny"
      /\ \A S : Some(FlattenSeq(s), S) <=> \E k \in 1..Len(s) : Some(s[k], S)
  <2>1. s \in Seq(Seq(T)) /\ \A k \in 1..Len(s) : \A m \in 1..Len(s[k]) : s[k][m].verdict = "deny"
    BY <1>5, <1>6
  <2> HIDE DEF T
  <2> QED BY <2>1, RowsSay
<1>8. \A op \in FileOps, x \in Seq(Names(chars)) :
        Some(FlattenSeq(s), OnFile(chars, op, x)) <=>
          op \in FileRead /\ \E k \in 1..Len(list) : IsPrefix(list[k].path, x)
  BY <1>5, <1>6, <1>7
<1>9. \A place : ~Some(FlattenSeq(s), OnPlace(chars, "outbound", place))
  BY <1>5, <1>6, <1>7
<1>10. \A x : (\E k \in 1..Len(list) : IsPrefix(list[k].path, x))
                <=> \E d \in ToSet(list) : IsPrefix(d.path, x)
  BY <1>3
<1> QED BY <1>2, <1>7, <1>8, <1>9, <1>10 DEF list

\* The beginnings of one path.
LEMMA PrefixOrder ==
    ASSUME NEW X, NEW p \in Seq(X), NEW q \in Seq(X), NEW r \in Seq(X), IsPrefix(q, p)
    PROVE  /\ IsPrefix(r, q) => IsPrefix(r, p)
           /\ IsPrefix(r, p) => IsPrefix(r, q) \/ IsStrictPrefix(q, r)
           /\ p = <<>> => q = <<>>
<1>1. Len(p) \in Nat /\ Len(q) \in Nat /\ Len(r) \in Nat
  OBVIOUS
<1>2. Len(q) <= Len(p) /\ \A k \in 1..Len(q) : q[k] = p[k]
  BY PrefixIs
<1>3. ASSUME IsPrefix(r, q) PROVE IsPrefix(r, p)
  <2>1. Len(r) <= Len(q) /\ \A k \in 1..Len(r) : r[k] = q[k]
    BY <1>3, PrefixIs
  <2>2. Len(r) <= Len(p) /\ \A k \in 1..Len(r) : r[k] = p[k]
    BY <1>1, <1>2, <2>1
  <2> QED BY <2>2, PrefixIs
<1>4. ASSUME IsPrefix(r, p) PROVE IsPrefix(r, q) \/ IsStrictPrefix(q, r)
  <2>1. Len(r) <= Len(p) /\ \A k \in 1..Len(r) : r[k] = p[k]
    BY <1>4, PrefixIs
  <2>2. CASE Len(r) <= Len(q)
    <3>1. \A k \in 1..Len(r) : r[k] = q[k]
      BY <1>1, <1>2, <2>1, <2>2
    <3> QED BY <2>2, <3>1, PrefixIs
  <2>3. CASE Len(q) < Len(r)
    <3>1. \A k \in 1..Len(q) : q[k] = r[k]
      BY <1>1, <1>2, <2>1, <2>3
    <3>2. q # r /\ Len(q) <= Len(r)
      BY <1>1, <2>3
    <3> QED BY <3>1, <3>2, PrefixIs DEF IsStrictPrefix
  <2> QED BY <1>1, <2>2, <2>3
<1>5. ASSUME p = <<>> PROVE q = <<>>
  <2>1. Len(q) = 0
    BY <1>1, <1>2, <1>5
  <2> QED BY <2>1
<1> QED BY <1>3, <1>4, <1>5

\* A profile is its five parts, one after the other.
LEMMA ProfileParts ==
    ASSUME NEW asked, ~HasControl(asked)
    PROVE  Profile(asked) = BaseProfile \o NetworkRules(asked.network) \o AncestorRules(asked)
                              \o GrantPart(asked) \o DenyPart(asked)
BY DEF Profile, AncestorRules, GrantPart, DenyPart

\* The base and the network, what is allowed after them, what is denied last.
LEMMA PartsSay ==
    ASSUME NEW T, NEW P \in Seq(T), NEW N \in Seq(T), NEW A \in Seq(T), NEW G \in Seq(T),
        NEW D \in Seq(T),
           \A k \in 1..Len(A) : A[k].verdict = "allow",
           \A k \in 1..Len(G) : G[k].verdict = "allow",
           \A k \in 1..Len(D) : D[k].verdict = "deny"
    PROVE  /\ P \o N \o A \o G \o D \in Seq(T)
           /\ \A S : Wins(P \o N \o A \o G \o D, S) <=>
                       (Wins(P \o N, S) \/ Some(A, S) \/ Some(G, S)) /\ ~Some(D, S)
<1>1. P \o N \in Seq(T)
  BY WinsAfter
<1>2. /\ P \o N \o A \in Seq(T)
      /\ \A S : Wins(P \o N \o A, S) <=> Wins(P \o N, S) \/ Some(A, S)
  BY <1>1, WinsAfter
<1>3. /\ P \o N \o A \o G \in Seq(T)
      /\ \A S : Wins(P \o N \o A \o G, S) <=> Wins(P \o N \o A, S) \/ Some(G, S)
  BY <1>2, WinsAfter
<1>4. /\ P \o N \o A \o G \o D \in Seq(T)
      /\ \A S : Wins(P \o N \o A \o G \o D, S) <=> Wins(P \o N \o A \o G, S) /\ ~Some(D, S)
  BY <1>3, WinsAfter
<1> QED BY <1>2, <1>3, <1>4

\* What a whole profile says.
LEMMA ProfileSays ==
    ASSUME NEW chars, {"null", "tty"} \subseteq chars, NEW asked \in SeatbeltPolicies(chars),
           ~HasControl(asked)
    PROVE  /\ \A op \in FileOps, x \in Seq(Names(chars)) :
                AllowsFile(Profile(asked), op, x) <=>
                  /\ \/ Wins(BaseProfile, OnFile(chars, op, x))
                     \/ op = "read-metadata" /\ x \in Ancestors(asked)
                     \/ \E g \in ToSet(asked.grants) :
                          IsPrefix(g.path, x) /\ (op = "write" => g.access = "ReadWrite")
                  /\ ~(op \in FileRead /\ \E d \in ToSet(asked.denies) : IsPrefix(d.path, x))
           /\ \A place : AllowsPlace(Profile(asked), "outbound", place) <=>
                \/ asked.network = "All"
                \/ asked.network = "Local" /\ place \in {"loopback tcp", "mDNSResponder"}
<1> DEFINE T == RulesOver(chars)
           P == BaseProfile
           N == NetworkRules(asked.network)
           A == AncestorRules(asked)
           G == GrantPart(asked)
           D == DenyPart(asked)
           W == P \o N \o A \o G \o D
<1>1. asked.network \in Networks
  BY DEF SeatbeltPolicies
<1>2. Profile(asked) = W
  BY ProfileParts
<1>3. /\ P \in Seq(T) /\ N \in Seq(T) /\ A \in Seq(T) /\ G \in Seq(T) /\ D \in Seq(T)
      /\ \A k \in 1..Len(A) : A[k].verdict = "allow"
      /\ \A k \in 1..Len(G) : G[k].verdict = "allow"
      /\ \A k \in 1..Len(D) : D[k].verdict = "deny"
  <2>1. P \in Seq(T)
    BY BaseSays
  <2>2. N \in Seq(T)
    BY <1>1, NetworkSays
  <2>3. A \in Seq(T) /\ \A k \in 1..Len(A) : A[k].verdict = "allow"
    BY AncestorsSay
  <2>4. G \in Seq(T) /\ \A k \in 1..Len(G) : G[k].verdict = "allow"
    BY GrantsSay
  <2>5. D \in Seq(T) /\ \A k \in 1..Len(D) : D[k].verdict = "deny"
    BY DeniesSay
  <2> QED BY <2>1, <2>2, <2>3, <2>4, <2>5
<1>4. /\ W \in Seq(T)
      /\ \A S : Wins(W, S) <=> (Wins(P \o N, S) \/ Some(A, S) \/ Some(G, S)) /\ ~Some(D, S)
  <2> HIDE DEF T, P, N, A, G, D
  <2> QED BY <1>3, PartsSay
<1>5. \A op, x : AllowsFile(Profile(asked), op, x) <=> Wins(W, OnFile(chars, op, x))
  <2> HIDE DEF W
  <2>1. \A op, x : \A r \in T : r \in OnFile(chars, op, x)
                               <=> op \in r.ops /\ MatchesFile(r.filter, x)
    BY DEF OnFile
  <2> HIDE DEF T
  <2> QED BY <1>2, <1>4, <2>1, AllowsIs
<1>6. \A op, x : AllowsPlace(Profile(asked), op, x) <=> Wins(W, OnPlace(chars, op, x))
  <2> HIDE DEF W
  <2>1. \A op, x : \A r \in T : r \in OnPlace(chars, op, x)
                               <=> op \in r.ops /\ MatchesPlace(r.filter, x)
    BY DEF OnPlace
  <2> HIDE DEF T
  <2> QED BY <1>2, <1>4, <2>1, AllowsIs
<1> HIDE DEF W
<1>7. \A S : ((\A k \in 1..Len(N) : N[k].verdict = "allow")
                => (Wins(P \o N, S) <=> Wins(P, S) \/ Some(N, S)))
             /\ ((\A k \in 1..Len(N) : N[k].verdict = "deny")
                => (Wins(P \o N, S) <=> Wins(P, S) /\ ~Some(N, S)))
  <2> HIDE DEF T, P, N, A, G, D
  <2> QED BY <1>3, WinsAfter
<1>8. /\ \A op \in FileOps : \A x : ~Some(N, OnFile(chars, op, x))
      /\ asked.network = "None" =>
           /\ \A k \in 1..Len(N) : N[k].verdict = "deny"
           /\ \A place : Some(N, OnPlace(chars, "outbound", place))
      /\ asked.network # "None" =>
           /\ \A k \in 1..Len(N) : N[k].verdict = "allow"
           /\ \A place : Some(N, OnPlace(chars, "outbound", place)) <=>
                           asked.network = "All" \/ place \in {"loopback tcp", "mDNSResponder"}
  BY <1>1, NetworkSays
<1>9. \A place : /\ ~Wins(P, OnPlace(chars, "outbound", place))
                 /\ ~Some(A, OnPlace(chars, "outbound", place))
                 /\ ~Some(G, OnPlace(chars, "outbound", place))
                 /\ ~Some(D, OnPlace(chars, "outbound", place))
  BY BaseSays, AncestorsSay, GrantsSay, DeniesSay
<1>10. \A op \in FileOps, x \in Seq(Names(chars)) :
         /\ Some(A, OnFile(chars, op, x)) <=> op = "read-metadata" /\ x \in Ancestors(asked)
         /\ Some(G, OnFile(chars, op, x)) <=>
              \E g \in ToSet(asked.grants) :
                IsPrefix(g.path, x) /\ (op = "write" => g.access = "ReadWrite")
         /\ Some(D, OnFile(chars, op, x)) <=>
              op \in FileRead /\ \E d \in ToSet(asked.denies) : IsPrefix(d.path, x)
  BY AncestorsSay, GrantsSay, DeniesSay
<1> HIDE DEF T, P, N, A, G, D
<1>11. \A op \in FileOps, x \in Seq(Names(chars)) :
         Wins(P \o N, OnFile(chars, op, x)) <=> Wins(P, OnFile(chars, op, x))
  BY <1>7, <1>8
<1>12. \A place : Wins(P \o N, OnPlace(chars, "outbound", place)) <=>
         \/ asked.network = "All"
         \/ asked.network = "Local" /\ place \in {"loopback tcp", "mDNSResponder"}
  BY <1>1, <1>7, <1>8, <1>9 DEF Networks
<1>13. \A place : AllowsPlace(Profile(asked), "outbound", place) <=>
         \/ asked.network = "All"
         \/ asked.network = "Local" /\ place \in {"loopback tcp", "mDNSResponder"}
  BY <1>4, <1>6, <1>9, <1>12
<1>14. ASSUME NEW op \in FileOps, NEW x \in Seq(Names(chars))
       PROVE  AllowsFile(Profile(asked), op, x) <=>
                /\ \/ Wins(P, OnFile(chars, op, x))
                   \/ op = "read-metadata" /\ x \in Ancestors(asked)
                   \/ \E g \in ToSet(asked.grants) :
                        IsPrefix(g.path, x) /\ (op = "write" => g.access = "ReadWrite")
                /\ ~(op \in FileRead /\ \E d \in ToSet(asked.denies) : IsPrefix(d.path, x))
  <2>1. AllowsFile(Profile(asked), op, x) <=>
          /\ \/ Wins(P, OnFile(chars, op, x)) \/ Some(A, OnFile(chars, op, x))
             \/ Some(G, OnFile(chars, op, x))
          /\ ~Some(D, OnFile(chars, op, x))
    BY <1>4, <1>5, <1>11
  <2> QED BY <1>10, <2>1
<1> QED BY <1>13, <1>14 DEF P

\* What is granted and what is denied on a path.
LEMMA GrantedIs ==
    ASSUME NEW chars, NEW asked \in SeatbeltPolicies(chars), NEW x
    PROVE  /\ "read" \in Granted(asked.grants, x) <=> \E g \in ToSet(asked.grants) :
                IsPrefix(g.path, x)
           /\ "execute" \in Granted(asked.grants, x) <=> \E g \in ToSet(asked.grants) :
                IsPrefix(g.path, x)
           /\ "write" \in Granted(asked.grants, x) <=>
                \E g \in ToSet(asked.grants) : IsPrefix(g.path, x) /\ g.access = "ReadWrite"
           /\ Denied(asked.denies, x) <=> \E d \in ToSet(asked.denies) : IsPrefix(d.path, x)
<1>1. \A g \in ToSet(asked.grants) : g.access \in {"Read", "ReadWrite"}
  <2>1. asked.grants \in Seq([access : {"Read", "ReadWrite"}, path : Seq(Names(chars))])
    BY DEF SeatbeltPolicies
  <2>2. ToSet(asked.grants) \subseteq [access : {"Read", "ReadWrite"}, path : Seq(Names(chars))]
    BY <2>1, ElementsFinite
  <2> QED BY <2>2
<1>2. \A what : what \in Granted(asked.grants, x) <=>
        \E g \in ToSet(asked.grants) : IsPrefix(g.path, x) /\ what \in Confers(g.access)
  BY DEF Granted, Under
<1>3. \A g \in ToSet(asked.grants) :
        /\ "read" \in Confers(g.access) /\ "execute" \in Confers(g.access)
        /\ "write" \in Confers(g.access) <=> g.access = "ReadWrite"
  BY <1>1 DEF Confers
<1> QED BY <1>2, <1>3 DEF Denied, Under

(***************************************************************************)
(* The macOS profile of any policy, however many grants and denies it has, *)
(* however they overlap and whatever characters its names are made of, but *)
(* a control character: every operation on every path is allowed exactly   *)
(* when the policy says so, what can be read can be reached from the root, *)
(* and the tier decides how far the network goes (seatbelt.rs:57-114).     *)
(***************************************************************************)
THEOREM ProfileFollowsPolicy ==
    ASSUME NEW chars, {"null", "tty"} \subseteq chars, NEW asked \in SeatbeltPolicies(chars),
           ~HasControl(asked), NEW path \in Seq(Names(chars)), NEW place
    PROVE  /\ FilesAsAsked(asked, Profile(asked), path)
           /\ ReadableIsReachable(Profile(asked), path)
           /\ TierDecidesReach(asked, Profile(asked), place)
<1> DEFINE profile == Profile(asked)
           Says(op, x) == AllowsFile(profile, op, x)
           On(x) == \E g \in ToSet(asked.grants) : IsPrefix(g.path, x)
           Written(x) ==
             \E g \in ToSet(asked.grants) : IsPrefix(g.path, x) /\ g.access = "ReadWrite"
           Masked(x) == \E d \in ToSet(asked.denies) : IsPrefix(d.path, x)
<1>1. /\ \A op \in FileOps, x \in Seq(Names(chars)) :
           Says(op, x) <=>
             /\ \/ Wins(BaseProfile, OnFile(chars, op, x))
                \/ op = "read-metadata" /\ x \in Ancestors(asked)
                \/ \E g \in ToSet(asked.grants) :
                     IsPrefix(g.path, x) /\ (op = "write" => g.access = "ReadWrite")
             /\ ~(op \in FileRead /\ Masked(x))
      /\ AllowsPlace(profile, "outbound", place) <=>
           \/ asked.network = "All"
           \/ asked.network = "Local" /\ place \in {"loopback tcp", "mDNSResponder"}
  BY ProfileSays
<1>2. \A op \in FileOps, x \in Seq(Names(chars)) :
        Wins(BaseProfile, OnFile(chars, op, x)) <=>
          \/ op \in FileRead /\ x = <<>>
          \/ op \in {"read-data", "write", "ioctl"} /\ x = DevNull /\ x \in CharacterDevices
          \/ op \in FileRead \cup {"write", "ioctl"} /\ x = DevTty /\ x \in CharacterDevices
  BY BaseSays
<1>3. /\ "read-data" \in FileOps /\ "read-metadata" \in FileOps /\ "write" \in FileOps
      /\ "ioctl" \in FileOps /\ "map-executable" \in FileOps
      /\ "read-data" \in FileRead /\ "read-metadata" \in FileRead /\ "write" \notin FileRead
      /\ "ioctl" \notin FileRead /\ "map-executable" \notin FileRead
  BY OpsApart
<1>4. ASSUME NEW x \in Seq(Names(chars))
      PROVE  x \in Ancestors(asked) \/ x = <<>> <=> Above(asked, x)
  BY AncestorsAre DEF Above
<1>5. \A x : OpenDevice(x) <=> (x = DevNull \/ x = DevTty) /\ x \in CharacterDevices
  BY DEF OpenDevice
<1> HIDE DEF profile
<1>6. ASSUME NEW x \in Seq(Names(chars))
      PROVE  /\ Says("read-data", x) <=> ~Masked(x) /\ (x = <<>> \/ OpenDevice(x) \/ On(x))
             /\ Says("read-metadata", x) <=>
                  ~Masked(x) /\ (Above(asked, x) \/ (OpenDevice(x) /\ x = DevTty) \/ On(x))
             /\ Says("write", x) <=> OpenDevice(x) \/ Written(x)
             /\ Says("ioctl", x) <=> OpenDevice(x) \/ On(x)
             /\ Says("map-executable", x) <=> On(x)
  <2> HIDE DEF Says, Masked
  <2>1. Says("read-data", x) <=> ~Masked(x) /\ (x = <<>> \/ OpenDevice(x) \/ On(x))
    BY <1>1, <1>2, <1>3, <1>5
  <2>2. Says("read-metadata", x) <=>
          ~Masked(x) /\ (Above(asked, x) \/ (OpenDevice(x) /\ x = DevTty) \/ On(x))
    BY <1>1, <1>2, <1>3, <1>4, <1>5
  <2>3. Says("write", x) <=> OpenDevice(x) \/ Written(x)
    BY <1>1, <1>2, <1>3, <1>5
  <2>4. Says("ioctl", x) <=> OpenDevice(x) \/ On(x)
    BY <1>1, <1>2, <1>3, <1>5
  <2>5. Says("map-executable", x) <=> On(x)
    BY <1>1, <1>2, <1>3, <1>5
  <2> QED BY <2>1, <2>2, <2>3, <2>4, <2>5
<1>7. FilesAsAsked(asked, profile, path)
  <2>1. /\ "read" \in Granted(asked.grants, path) <=> On(path)
        /\ "execute" \in Granted(asked.grants, path) <=> On(path)
        /\ "write" \in Granted(asked.grants, path) <=> Written(path)
        /\ Denied(asked.denies, path) <=> Masked(path)
    BY GrantedIs
  <2> HIDE DEF On, Written, Masked
  <2> QED BY <1>6, <2>1 DEF FilesAsAsked
<1>8. ReadableIsReachable(profile, path)
  <2> SUFFICES ASSUME path \notin CharacterDevices, Says("read-data", path),
                      NEW dir \in Prefixes(path)
               PROVE  Says("read-metadata", dir)
    BY DEF ReadableIsReachable
  <2>1. ~Masked(path) /\ (path = <<>> \/ On(path))
    BY <1>5, <1>6
  <2>2. dir \in Seq(Names(chars)) /\ IsPrefix(dir, path)
    BY PrefixesOf
  <2>3. /\ \A d \in ToSet(asked.denies) : d.path \in Seq(Names(chars))
        /\ \A g \in ToSet(asked.grants) : g.path \in Seq(Names(chars)) /\ g.path \in PathsOf(asked)
    BY PathsAre
  <2>4. ~Masked(dir)
    BY <2>1, <2>2, <2>3, PrefixOrder
  <2>5. CASE path = <<>>
    <3>1. dir = <<>>
      BY <2>2, <2>5, PrefixOrder
    <3> QED BY <1>6, <2>2, <2>4, <3>1 DEF Above
  <2>6. CASE On(path)
    <3>1. PICK g \in ToSet(asked.grants) : IsPrefix(g.path, path)
      BY <2>6
    <3>2. IsPrefix(g.path, dir) \/ IsStrictPrefix(dir, g.path)
      BY <2>2, <2>3, <3>1, PrefixOrder
    <3>3. On(dir) \/ Above(asked, dir)
      BY <2>3, <3>2 DEF Above
    <3> QED BY <1>6, <2>2, <2>4, <3>3
  <2> QED BY <2>1, <2>5, <2>6
<1>9. TierDecidesReach(asked, profile, place)
  BY <1>1 DEF TierDecidesReach
<1> QED BY <1>7, <1>8, <1>9 DEF profile

-----------------------------------------------------------------------------
(* The grant program. *)

\* A row of rising numbers is the order of the set of them.
LEMMA OrderedIs ==
    ASSUME NEW n \in Nat, NEW e \in [1..n -> Nat],
           \A k, l \in 1..n : k < l => e[k] < e[l],
           NEW S, \A k \in 1..n : e[k] \in S, \A x \in S : \E k \in 1..n : x = e[k]
    PROVE  /\ DOMAIN Ordered(S) = 1..n /\ Len(Ordered(S)) = n
           /\ \A k \in 1..n : Ordered(S)[k] = e[k]
<1>1. Cardinality(S) = n
  <2>1. e \in Bijection(1..n, S)
    <3>1. e \in [1..n -> S]
      OBVIOUS
    <3>2. \A k, l \in 1..n : e[k] = e[l] => k = l
      <4> TAKE k, l \in 1..n
      <4>1. k < l \/ l < k \/ k = l
        OBVIOUS
      <4> QED BY <4>1
    <3> QED BY <3>1, <3>2 DEF Bijection, Injection, Surjection, IsInjective
  <2> QED BY <2>1, FS_CountingElements DEF ExistsBijection
<1> DEFINE below(x) == {j \in S : j < x}
<1>2. ASSUME NEW k \in 1..n PROVE Cardinality(below(e[k])) = k - 1
  <2> DEFINE f == [l \in 1..(k - 1) |-> e[l]]
  <2>1. f \in [1..(k - 1) -> below(e[k])]
    BY <1>2
  <2>2. \A l, m \in 1..(k - 1) : f[l] = f[m] => l = m
    <3> TAKE l, m \in 1..(k - 1)
    <3>1. l < m \/ m < l \/ l = m
      OBVIOUS
    <3>2. l \in 1..n /\ m \in 1..n /\ f[l] = e[l] /\ f[m] = e[m]
      OBVIOUS
    <3> QED BY <3>1, <3>2
  <2>3. \A x \in below(e[k]) : \E l \in 1..(k - 1) : f[l] = x
    <3> TAKE x \in below(e[k])
    <3>1. PICK l \in 1..n : x = e[l]
      OBVIOUS
    <3>2. l < k
      <4>1. l < k \/ k < l \/ l = k
        OBVIOUS
      <4> QED BY <3>1, <4>1
    <3> QED BY <3>1, <3>2
  <2>4. f \in Bijection(1..(k - 1), below(e[k]))
    <3> HIDE DEF f, below
    <3> QED BY <2>1, <2>2, <2>3 DEF Bijection, Injection, Surjection, IsInjective
  <2>5. ExistsBijection(1..(k - 1), below(e[k]))
    BY <2>4 DEF ExistsBijection
  <2> HIDE DEF f, below
  <2> QED BY <2>5, FS_CountingElements
<1>3. Ordered(S) = [k \in 1..n |-> CHOOSE x \in S : Cardinality(below(x)) = k - 1]
  BY <1>1 DEF Ordered
<1>4. ASSUME NEW k \in 1..n PROVE (CHOOSE x \in S : Cardinality(below(x)) = k - 1) = e[k]
  <2>1. e[k] \in S /\ Cardinality(below(e[k])) = k - 1
    BY <1>2
  <2>2. ASSUME NEW x \in S, Cardinality(below(x)) = k - 1 PROVE x = e[k]
    <3>1. PICK l \in 1..n : x = e[l]
      OBVIOUS
    <3>2. Cardinality(below(e[l])) = l - 1
      BY <1>2
    <3> HIDE DEF below
    <3>3. l - 1 = k - 1
      BY <3>1, <3>2, <2>2
    <3> QED BY <3>1, <3>3
  <2> HIDE DEF below
  <2> QED BY <2>1, <2>2
<1> HIDE DEF below
<1>5. \A k \in 1..n : Ordered(S)[k] = e[k]
  BY <1>3, <1>4
<1> QED BY <1>3, <1>5

\* A part of a row.
LEMMA PartIs ==
    ASSUME NEW X, NEW s \in Seq(X), NEW a \in Nat, NEW b \in Nat, a <= b, b <= Len(s)
    PROVE  /\ SubSeq(s, a + 1, b) \in Seq(X) /\ Len(SubSeq(s, a + 1, b)) = b - a
           /\ \A q \in 1..b - a : SubSeq(s, a + 1, b)[q] = s[a + q]
OBVIOUS

\* Two rows of the same items are one.
LEMMA SameRow ==
    ASSUME NEW X, NEW s \in Seq(X), NEW Y, NEW t \in Seq(Y), Len(s) = Len(t),
           \A q \in 1..Len(s) : s[q] = t[q]
    PROVE  s = t
OBVIOUS

\* The fields of a program's beginning: m whole ones and what is left of the next.
FieldsOfCut(T, fields, fs, m, r) ==
    /\ m \in 0..Len(fs) /\ r \in Seq(T)
    /\ fields \in Seq(Seq(T)) /\ Len(fields) = m + 1
    /\ \A k \in 1..m : fields[k] = fs[k]
    /\ fields[m + 1] = r
    /\ m < Len(fs) => Len(r) <= Len(fs[m + 1]) /\ \A q \in 1..Len(r) : r[q] = fs[m + 1][q]

\* Delimited fields come apart where they were joined, wherever the row ends.
LEMMA CutComesApart ==
    ASSUME NEW T, NUL \notin T, NEW fs \in Seq(Seq(T)), NEW c \in 0..Len(Joined(fs))
    PROVE  /\ Joined(fs) \in Seq(T \cup {NUL})
           /\ \E m, r : /\ FieldsOfCut(T, Split(SubSeq(Joined(fs), 1, c)), fs, m, r)
                        /\ c = Len(Joined(fs)) => m = Len(fs) /\ r = <<>>
                        /\ c # Len(Joined(fs)) => m < Len(fs)
<1> DEFINE U == T \cup {NUL}
           n == Len(fs)
           s == [k \in 1..n |-> Append(fs[k], NUL)]
           row == Joined(fs)
           bytes == SubSeq(row, 1, c)
<1>1. n \in Nat /\ \A k \in 1..n : fs[k] \in Seq(T) /\ Len(fs[k]) \in Nat
  OBVIOUS
<1>2. /\ s \in Seq(Seq(U)) /\ Len(s) = n
      /\ \A k \in 1..n : s[k] = Append(fs[k], NUL) /\ Len(s[k]) = Len(fs[k]) + 1
      /\ \A k \in 1..n : \A q \in 1..Len(fs[k]) : s[k][q] = fs[k][q] /\ fs[k][q] \in T
      /\ \A k \in 1..n : s[k][Len(fs[k]) + 1] = NUL
  <2>1. ASSUME NEW k \in 1..n
        PROVE  /\ Append(fs[k], NUL) \in Seq(U) /\ Len(Append(fs[k], NUL)) = Len(fs[k]) + 1
               /\ \A q \in 1..Len(fs[k]) : Append(fs[k], NUL)[q] = fs[k][q] /\ fs[k][q] \in T
               /\ Append(fs[k], NUL)[Len(fs[k]) + 1] = NUL
    <3>1. fs[k] \in Seq(T) /\ fs[k] \in Seq(U) /\ NUL \in U
      BY <1>1
    <3> HIDE DEF U
    <3> QED BY <3>1
  <2> HIDE DEF U
  <2> QED BY <1>1, <2>1
<1>3. row = FlattenSeq(s)
  BY DEF Joined
<1> HIDE DEF s, row
<1>4. PICK at : Laid(U, s, n, at, row)
  BY <1>2, <1>3, FlatAt
<1>5. /\ row \in Seq(U) /\ at \in [0..n -> Nat] /\ at[0] = 0 /\ Len(row) = at[n]
      /\ \A k \in 1..n : /\ k - 1 \in 0..n /\ k \in 0..n
                         /\ at[k - 1] \in Nat /\ at[k] \in Nat
                         /\ at[k] = at[k - 1] + Len(fs[k]) + 1
  <2>1. /\ row \in Seq(U) /\ at \in [0..n -> Nat] /\ at[0] = 0 /\ Len(row) = at[n]
        /\ \A k \in 1..n : at[k] = at[k - 1] + Len(s[k])
    BY <1>4, Zenon DEF Laid
  <2>2. ASSUME NEW k \in 1..n
        PROVE  /\ k - 1 \in 0..n /\ k \in 0..n /\ at[k - 1] \in Nat /\ at[k] \in Nat
               /\ at[k] = at[k - 1] + Len(fs[k]) + 1
    <3>1. k - 1 \in 0..n /\ k \in 0..n
      BY <1>1
    <3>2. at[k - 1] \in Nat /\ at[k] \in Nat
      BY <3>1, <2>1
    <3>3. at[k] = at[k - 1] + Len(s[k]) /\ Len(s[k]) = Len(fs[k]) + 1 /\ Len(fs[k]) \in Nat
      BY <2>1, <1>1, <1>2
    <3> QED BY <3>1, <3>2, <3>3
  <2> HIDE DEF U
  <2> QED BY <2>1, <2>2
<1>6. \A k \in 1..n : \A q \in 1..Len(fs[k]) + 1 :
        at[k - 1] + q \in 1..Len(row) /\ row[at[k - 1] + q] = s[k][q]
  <2>1. \A k \in 1..n : \A q \in 1..Len(s[k]) :
          at[k - 1] + q \in 1..Len(row) /\ row[at[k - 1] + q] = s[k][q]
    BY <1>4, Zenon DEF Laid
  <2> QED BY <1>2, <2>1
<1>7. \A x \in 1..Len(row) : \E k \in 1..n : \E q \in 1..Len(fs[k]) + 1 : x = at[k - 1] + q
  <2>1. \A x \in 1..Len(row) : \E k \in 1..n : \E q \in 1..Len(s[k]) : x = at[k - 1] + q
    BY <1>4, Zenon DEF Laid
  <2> QED BY <1>2, <2>1, ZenonT(60)
<1>8. \A k, l \in 0..n : k < l => at[k] < at[l]
  <2> TAKE k, l \in 0..n
  <2> DEFINE S == {j \in 0..n : k < j => at[k] < at[j]}
  <2>1. 0 \in S
    OBVIOUS
  <2>2. \A j \in 0..n : j \in S /\ j < n => j + 1 \in S
    <3> TAKE j \in 0..n
    <3> SUFFICES ASSUME j \in S, j < n, k < j + 1 PROVE at[k] < at[j + 1]
      OBVIOUS
    <3>1. at[j + 1] = at[j] + Len(fs[j + 1]) + 1 /\ Len(fs[j + 1]) \in Nat
      <4>1. j + 1 \in 1..n /\ (j + 1) - 1 = j
        BY <1>1
      <4> QED BY <4>1, <1>1, <1>5
    <3>2. k = j \/ k < j
      OBVIOUS
    <3>3. at[j] \in Nat /\ at[k] \in Nat
      BY <1>5
    <3> QED BY <3>1, <3>2, <3>3
  <2> HIDE DEF S
  <2>3. 0..n \subseteq S
    BY <1>1, <2>1, <2>2, UpTo
  <2> QED BY <2>3 DEF S
<1> DEFINE Within == {k \in 0..n : at[k] <= c}
<1>9. PICK m \in Within : \A k \in Within : k <= m
  <2>1. 0 \in Within /\ Within \subseteq 0..n
    BY <1>1, <1>5
  <2> HIDE DEF Within
  <2> QED BY <1>1, <2>1, MostOf
<1>10. /\ m \in 0..n /\ at[m] <= c /\ c \in Nat /\ c <= at[n]
       /\ \A k \in 0..n : k <= m => at[k] <= c
       /\ \A k \in 0..n : at[k] <= c => k <= m
  <2>1. m \in 0..n /\ at[m] <= c /\ c \in Nat /\ c <= at[n]
    BY <1>5 DEF row
  <2>2. \A k \in 0..n : at[k] <= c => k <= m
    BY <1>9
  <2>3. ASSUME NEW k \in 0..n, k <= m PROVE at[k] <= c
    <3>1. k = m \/ k < m
      BY <2>1, <2>3
    <3>2. at[k] \in Nat /\ at[m] \in Nat
      BY <2>1, <1>5
    <3> QED BY <3>1, <3>2, <2>1, <1>8
  <2> QED BY <2>1, <2>2, <2>3
<1> HIDE DEF Within
<1>11. /\ bytes \in Seq(U) /\ Len(bytes) = c
       /\ \A q \in 1..c : bytes[q] = row[q] /\ bytes[q] \in U
  <2>1. c \in 0..Len(row)
    BY DEF row
  <2> HIDE DEF U
  <2> QED BY <1>5, <2>1
<1> HIDE DEF bytes
<1> DEFINE e == [k \in 1..m + 1 |-> IF k = m + 1 THEN c + 1 ELSE at[k]]
           D == {x \in 1..Len(bytes) : bytes[x] = NUL} \cup {Len(bytes) + 1}
<1>12. /\ e \in [1..m + 1 -> Nat] /\ m + 1 \in Nat
       /\ e[m + 1] = c + 1 /\ \A k \in 1..m : e[k] = at[k]
  BY <1>1, <1>5, <1>10
<1>13. \A k, l \in 1..m + 1 : k < l => e[k] < e[l]
  <2> TAKE k, l \in 1..m + 1
  <2> SUFFICES ASSUME k < l PROVE e[k] < e[l]
    OBVIOUS
  <2>1. k \in 1..m /\ k \in 0..n /\ e[k] = at[k] /\ at[k] <= c /\ at[k] \in Nat
    BY <1>1, <1>5, <1>10, <1>12
  <2>2. CASE l = m + 1
    BY <1>10, <1>12, <2>1, <2>2
  <2>3. CASE l # m + 1
    <3>1. l \in 1..m /\ l \in 0..n /\ e[l] = at[l]
      BY <2>3, <1>1, <1>10, <1>12
    <3> QED BY <2>1, <3>1, <1>8
  <2> QED BY <2>2, <2>3
<1>14. \A k \in 1..m + 1 : e[k] \in D
  <2> TAKE k \in 1..m + 1
  <2>1. CASE k = m + 1
    BY <1>11, <1>12, <2>1
  <2>2. CASE k # m + 1
    <3>1. k \in 1..m /\ k \in 1..n /\ k - 1 \in 0..n /\ e[k] = at[k] /\ at[k] <= c
      BY <2>2, <1>1, <1>10, <1>12
    <3>2. at[k] = at[k - 1] + (Len(fs[k]) + 1) /\ at[k] \in Nat /\ at[k - 1] \in Nat
      BY <3>1, <1>1, <1>5
    <3>3. Len(fs[k]) + 1 \in 1..Len(fs[k]) + 1
      BY <3>1, <1>1
    <3>4. at[k] \in 1..Len(row) /\ row[at[k]] = NUL
      <4>1. /\ at[k - 1] + (Len(fs[k]) + 1) \in 1..Len(row)
            /\ row[at[k - 1] + (Len(fs[k]) + 1)] = s[k][Len(fs[k]) + 1]
        BY <3>1, <3>3, <1>6
      <4>2. s[k][Len(fs[k]) + 1] = NUL
        BY <3>1, <1>2
      <4> QED BY <3>2, <4>1, <4>2
    <3>5. at[k] \in 1..c
      BY <3>1, <3>4, <1>10
    <3> QED BY <3>1, <3>4, <3>5, <1>11
  <2> QED BY <2>1, <2>2
<1>15. \A x \in D : \E k \in 1..m + 1 : x = e[k]
  <2> TAKE x \in D
  <2>1. CASE x = Len(bytes) + 1
    BY <2>1, <1>10, <1>11, <1>12
  <2>2. CASE x # Len(bytes) + 1
    <3>1. x \in 1..c /\ bytes[x] = NUL /\ row[x] = NUL
      BY <2>2, <1>11
    <3>2. x \in 1..Len(row)
      BY <3>1, <1>5, <1>10
    <3>3. PICK k \in 1..n : \E q \in 1..Len(fs[k]) + 1 : x = at[k - 1] + q
      BY <3>2, <1>7
    <3>4. PICK q \in 1..Len(fs[k]) + 1 : x = at[k - 1] + q
      BY <3>3
    <3>5. row[x] = s[k][q]
      BY <3>4, <1>6
    <3>6. q = Len(fs[k]) + 1
      <4>1. Len(fs[k]) \in Nat
        BY <1>1
      <4>2. ASSUME q \in 1..Len(fs[k]) PROVE FALSE
        <5>1. s[k][q] = fs[k][q] /\ fs[k][q] \in T
          BY <4>2, <1>2
        <5> QED BY <5>1, <3>1, <3>5
      <4> QED BY <3>4, <4>1, <4>2
    <3>7. x = at[k]
      <4>1. Len(fs[k]) \in Nat /\ at[k - 1] \in Nat
        BY <1>1, <1>5
      <4> QED BY <3>4, <3>6, <4>1, <1>5, SMTT(40)
    <3>8. k \in 0..n /\ k \in 1..m
      BY <3>1, <3>7, <1>1, <1>10
    <3> QED BY <3>7, <3>8, <1>10, <1>12
  <2> QED BY <2>1, <2>2
<1>16. /\ DOMAIN Ordered(D) = 1..m + 1 /\ Len(Ordered(D)) = m + 1
       /\ \A k \in 1..m + 1 : Ordered(D)[k] = e[k]
  <2> HIDE DEF e, D
  <2> QED BY <1>12, <1>13, <1>14, <1>15, OrderedIs
<1> DEFINE fields == Split(bytes)
<1>17. fields = [k \in 1..m + 1 |-> SubSeq(bytes, IF k = 1 THEN 1 ELSE Ordered(D)[k - 1] + 1,
                                                  Ordered(D)[k] - 1)]
  <2>1. fields = [k \in 1..Len(Ordered(D)) |->
                    SubSeq(bytes, IF k = 1 THEN 1 ELSE Ordered(D)[k - 1] + 1, Ordered(D)[k] - 1)]
    BY DEF Split
  <2> HIDE DEF D, fields
  <2> QED BY <2>1, <1>16
<1> DEFINE r == SubSeq(bytes, at[m] + 1, c)
<1>18. \A k \in 1..m + 1 : fields[k] = SubSeq(bytes, at[k - 1] + 1, e[k] - 1)
  <2> HIDE DEF D, e, fields
  <2> TAKE k \in 1..m + 1
  <2>1. fields[k] = SubSeq(bytes, IF k = 1 THEN 1 ELSE Ordered(D)[k - 1] + 1, Ordered(D)[k] - 1)
    BY <1>17
  <2>2. k # 1 => k - 1 \in 1..m /\ k - 1 \in 1..m + 1 /\ Ordered(D)[k - 1] = at[k - 1]
    BY <1>10, <1>12, <1>16
  <2>3. k = 1 => at[k - 1] + 1 = 1
    BY <1>5
  <2>4. Ordered(D)[k] = e[k]
    BY <1>16
  <2>5. CASE k = 1
    BY <2>1, <2>3, <2>4, <2>5
  <2>6. CASE k # 1
    BY <2>1, <2>2, <2>4, <2>6
  <2> QED BY <2>5, <2>6
<1>19. \A k \in 1..m : fields[k] = fs[k]
  <2> HIDE DEF D, e, fields
  <2> TAKE k \in 1..m
  <2>1. /\ k \in 1..n /\ k - 1 \in 0..n /\ k \in 0..n /\ Len(fs[k]) \in Nat /\ at[k] <= c
        /\ at[k - 1] \in Nat /\ at[k] \in Nat /\ at[k] = at[k - 1] + Len(fs[k]) + 1
    BY <1>1, <1>5, <1>10
  <2>2. fields[k] = SubSeq(bytes, at[k - 1] + 1, at[k - 1] + Len(fs[k]))
    <3>1. k \in 1..m + 1 /\ e[k] = at[k]
      BY <1>10, <1>12
    <3>2. at[k] - 1 = at[k - 1] + Len(fs[k])
      BY <2>1
    <3> QED BY <3>1, <3>2, <1>18
  <2>3. ASSUME NEW q \in 1..Len(fs[k]) PROVE bytes[at[k - 1] + q] = fs[k][q]
    <3>1. q \in 1..Len(fs[k]) + 1 /\ at[k - 1] + q \in 1..c
      BY <2>1, <1>10, SMTT(40)
    <3>2. bytes[at[k - 1] + q] = row[at[k - 1] + q]
      BY <3>1, <1>11, Zenon
    <3>3. row[at[k - 1] + q] = s[k][q]
      BY <2>1, <3>1, <1>6, Zenon
    <3>4. s[k][q] = fs[k][q]
      BY <2>1, <1>2, Zenon
    <3> QED BY <3>2, <3>3, <3>4, Zenon
  <2>4. fs[k] \in Seq(T)
    BY <2>1, <1>1
  <2>5. /\ at[k - 1] + Len(fs[k]) \in Nat /\ at[k - 1] + Len(fs[k]) <= Len(bytes)
        /\ at[k - 1] <= at[k - 1] + Len(fs[k])
        /\ (at[k - 1] + Len(fs[k])) - at[k - 1] = Len(fs[k])
    BY <2>1, <1>10, <1>11, SMTT(40)
  <2>6. /\ fields[k] \in Seq(U) /\ Len(fields[k]) = Len(fs[k])
        /\ \A q \in 1..Len(fs[k]) : fields[k][q] = bytes[at[k - 1] + q]
    <3> DEFINE b == at[k - 1] + Len(fs[k])
               part == SubSeq(bytes, at[k - 1] + 1, b)
    <3> HIDE DEF U, b
    <3>1. b \in Nat /\ b <= Len(bytes) /\ at[k - 1] <= b /\ b - at[k - 1] = Len(fs[k])
      BY <2>5 DEF b
    <3>2. /\ part \in Seq(U) /\ Len(part) = b - at[k - 1]
          /\ \A q \in 1..b - at[k - 1] : part[q] = bytes[at[k - 1] + q]
      <4>1. at[k - 1] \in Nat /\ bytes \in Seq(U)
        BY <2>1, <1>11
      <4>2. part \in Seq(U) /\ Len(part) = b - at[k - 1]
        BY <3>1, <4>1, PartIs, SMTT(40)
      <4>3. \A q \in 1..b - at[k - 1] : part[q] = bytes[at[k - 1] + q]
        BY <3>1, <4>1, PartIs, SMTT(40)
      <4> QED BY <4>2, <4>3
    <3>3. fields[k] = part
      BY <2>2 DEF b
    <3> HIDE DEF part
    <3> QED BY <3>1, <3>2, <3>3
  <2> HIDE DEF U
  <2>7. \A q \in 1..Len(fields[k]) : fields[k][q] = fs[k][q]
    BY <2>3, <2>6
  <2> QED BY <2>4, <2>6, <2>7, SameRow
<1>20. fields[m + 1] = r
  <2>1. m + 1 \in 1..m + 1 /\ (m + 1) - 1 = m /\ (c + 1) - 1 = c
    BY <1>10
  <2> HIDE DEF D, e, fields
  <2> QED BY <2>1, <1>12, <1>18
<1>21. /\ r \in Seq(U) /\ Len(r) = c - at[m]
       /\ \A q \in 1..Len(r) : r[q] = bytes[at[m] + q]
  <2>1. at[m] \in Nat /\ c \in Nat /\ at[m] <= c /\ c <= Len(bytes)
    BY <1>5, <1>10, <1>11
  <2> HIDE DEF U
  <2>2. \A q \in 1..c - at[m] : r[q] = bytes[at[m] + q]
    BY <2>1, <1>11, PartIs
  <2>3. r \in Seq(U) /\ Len(r) = c - at[m]
    BY <2>1, <1>11, PartIs
  <2> HIDE DEF r
  <2> QED BY <2>2, <2>3
<1>22. /\ c = at[n] => m = n
       /\ c # at[n] => m < n
  <2>1. n \in 0..n
    BY <1>1
  <2>2. at[n] \in Nat
    BY <2>1, <1>5
  <2> QED BY <2>1, <2>2, <1>10
<1> HIDE DEF r, fields, D, e
<1>23. r \in Seq(T) /\ (m < n => Len(r) <= Len(fs[m + 1])
                          /\ \A q \in 1..Len(r) : r[q] = fs[m + 1][q])
  <2>1. CASE m = n
    <3>1. Len(r) = 0
      BY <2>1, <1>5, <1>10, <1>21
    <3>2. r = <<>>
      BY <3>1, <1>21
    <3> QED BY <2>1, <3>2, <1>1
  <2>2. CASE m < n
    <3>1. m + 1 \in 1..n /\ (m + 1) - 1 = m /\ m + 1 \in 0..n
      BY <2>2, <1>1, <1>10
    <3>2. Len(fs[m + 1]) \in Nat /\ at[m + 1] = at[m] + Len(fs[m + 1]) + 1 /\ at[m] \in Nat
      BY <3>1, <1>1, <1>5
    <3>3. c < at[m + 1]
      <4>1. ~(at[m + 1] <= c)
        BY <3>1, <1>10
      <4> QED BY <4>1, <3>2, <1>10
    <3>4. Len(r) <= Len(fs[m + 1])
      BY <3>2, <3>3, <1>10, <1>21
    <3>5. ASSUME NEW q \in 1..Len(r) PROVE r[q] = fs[m + 1][q] /\ fs[m + 1][q] \in T
      <4>1. q \in Nat /\ 1 <= q /\ q <= Len(r) /\ Len(r) = c - at[m]
        BY <3>2, <1>10, <1>21
      <4>2. q \in 1..Len(fs[m + 1]) /\ q \in 1..Len(fs[m + 1]) + 1 /\ at[m] + q \in 1..c
        <5>1. c \in Nat /\ at[m] <= c /\ at[m] \in Nat /\ Len(fs[m + 1]) \in Nat
          BY <3>2, <1>10
        <5>2. q <= Len(fs[m + 1])
          BY <4>1, <3>4, <5>1
        <5>3. at[m] + q <= c
          BY <4>1, <5>1
        <5> QED BY <4>1, <5>1, <5>2, <5>3
      <4>3. row[at[(m + 1) - 1] + q] = s[m + 1][q]
        BY <3>1, <4>2, <1>6
      <4>4. s[m + 1][q] = fs[m + 1][q] /\ fs[m + 1][q] \in T
        BY <3>1, <4>2, <1>2
      <4>5. r[q] = bytes[at[m] + q] /\ bytes[at[m] + q] = row[at[m] + q]
        BY <4>2, <1>11, <1>21
      <4> QED BY <3>1, <4>3, <4>4, <4>5
    <3>6. r \in Seq(T)
      <4>1. Len(r) \in Nat /\ DOMAIN r = 1..Len(r)
        BY <1>21
      <4>2. \A q \in 1..Len(r) : r[q] \in T
        <5> TAKE q \in 1..Len(r)
        <5> QED BY <3>5
      <4> HIDE DEF U
      <4> QED BY <4>1, <4>2, <1>21
    <3> QED BY <3>4, <3>5, <3>6
  <2> QED BY <2>1, <2>2, <1>10
<1>24. c = at[n] => r = <<>>
  <2>1. ASSUME c = at[n] PROVE Len(r) = 0
    BY <2>1, <1>5, <1>10, <1>21, <1>22
  <2> QED BY <2>1, <1>21
<1>25. fields \in Seq(Seq(T)) /\ Len(fields) = m + 1
  <2>1. \A k \in 1..m + 1 : fields[k] \in Seq(T)
    <3> TAKE k \in 1..m + 1
    <3>1. CASE k = m + 1
      BY <3>1, <1>20, <1>23
    <3>2. CASE k # m + 1
      <4>1. k \in 1..m /\ k \in 1..n
        BY <3>2, <1>10, <1>1
      <4> QED BY <4>1, <1>1, <1>19
    <3> QED BY <3>1, <3>2
  <2>2. m + 1 \in Nat
    BY <1>10
  <2>3. DOMAIN fields = 1..m + 1 /\ fields = [k \in 1..m + 1 |-> fields[k]]
    BY <1>17
  <2> QED BY <2>1, <2>2, <2>3, SMTT(40)
<1>26. FieldsOfCut(T, fields, fs, m, r)
  <2>1. m \in 0..Len(fs)
    BY <1>10
  <2> QED BY <2>1, <1>19, <1>20, <1>23, <1>25 DEF FieldsOfCut
<1> QED BY <1>5, <1>22, <1>24, <1>26 DEF fields, bytes, row

\* What a record at a place holds.
RecordAt(fields, k) ==
    [access |-> Asked(fields[2 * k + 1]),
     path |-> IF 2 * k + 2 <= Len(fields) THEN fields[2 * k + 2] ELSE <<>>]

\* There are n records at least if n verbs are not empty, and no more if the next is.
LEMMA RecordsAre ==
    ASSUME NEW T, NEW fields \in Seq(Seq(T)), Len(fields) >= 1, NEW n \in Nat,
           \A k \in 1..n : 2 * k + 1 <= Len(fields) /\ fields[2 * k + 1] # <<>>
    PROVE  /\ Records(fields) = [k \in 1..Len(Records(fields)) |-> RecordAt(fields, k)]
           /\ Len(Records(fields)) \in Nat /\ n <= Len(Records(fields))
           /\ 2 * n + 3 > Len(fields) \/ fields[2 * n + 3] = <<>> => Len(Records(fields)) = n
<1> DEFINE last == (Len(fields) - 1) \div 2
           ends == [k \in 1..last + 1 |-> 2 * k + 1 > Len(fields) \/ fields[2 * k + 1] = <<>>]
           I == {k \in 1..last + 1 : 2 * k + 1 > Len(fields) \/ fields[2 * k + 1] = <<>>}
           count == SelectInSeq(ends, LAMBDA end : end) - 1
<1>1. /\ Len(fields) \in Nat /\ last \in Nat
      /\ 2 * last + 1 <= Len(fields) /\ 2 * (last + 1) + 1 > Len(fields)
  OBVIOUS
<1>2. n <= last
  <2>1. CASE n = 0
    BY <1>1, <2>1
  <2>2. CASE n # 0
    <3>1. n \in 1..n
      BY <2>2
    <3>2. 2 * n + 1 <= Len(fields)
      BY <3>1
    <3> HIDE DEF last
    <3> QED BY <3>2, <1>1
  <2> QED BY <2>1, <2>2
<1> HIDE DEF last
<1>3. Len(ends) = last + 1 /\ I = {k \in 1..Len(ends) : ends[k]}
  <2>1. Len(ends) = last + 1
    BY <1>1
  <2>2. \A k \in 1..last + 1 : ends[k] = (2 * k + 1 > Len(fields) \/ fields[2 * k + 1] = <<>>)
    BY Zenon
  <2> HIDE DEF ends
  <2> QED BY <2>1, <2>2, Zenon
<1>4. /\ last + 1 \in I /\ I \subseteq Nat
      /\ \A k \in I : n < k
      /\ 2 * n + 3 > Len(fields) \/ fields[2 * n + 3] = <<>> => n + 1 \in I
  <2>1. last + 1 \in I /\ I \subseteq Nat
    BY <1>1
  <2>2. ASSUME NEW k \in I, k <= n PROVE FALSE
    <3>1. k \in 1..n /\ k \in 1..last + 1
      BY <2>2
    <3>2. 2 * k + 1 > Len(fields) \/ fields[2 * k + 1] = <<>>
      BY <2>2
    <3>3. 2 * k + 1 <= Len(fields) /\ fields[2 * k + 1] # <<>>
      BY <3>1
    <3> QED BY <3>1, <3>2, <3>3, <1>1
  <2>3. ASSUME 2 * n + 3 > Len(fields) \/ fields[2 * n + 3] = <<>> PROVE n + 1 \in I
    <3>1. n + 1 \in 1..last + 1 /\ 2 * (n + 1) + 1 = 2 * n + 3
      BY <1>1, <1>2
    <3> QED BY <2>3, <3>1
  <2>4. \A k \in I : n < k
    <3> TAKE k \in I
    <3>1. k \in Nat /\ ~(k <= n)
      BY <2>1, <2>2
    <3> QED BY <3>1
  <2> QED BY <2>1, <2>3, <2>4
<1>5. PICK m \in I : \A k \in I : m <= k
  <2> HIDE DEF I
  <2> QED BY <1>4, LeastOf
<1>6. count = m - 1
  <2>1. SelectInSeq(ends, LAMBDA end : end) = IF I # {} THEN Min(I) ELSE 0
    BY <1>3 DEF SelectInSeq
  <2> HIDE DEF I, ends
  <2>2. Min(I) = m
    <3>1. Min(I) \in I /\ \A k \in I : Min(I) <= k
      BY <1>5 DEF Min
    <3>2. Min(I) \in Nat /\ m \in Nat /\ Min(I) <= m /\ m <= Min(I)
      BY <3>1, <1>4, <1>5
    <3> QED BY <3>2
  <2> QED BY <2>1, <2>2, <1>4
<1>7. m \in Nat /\ m - 1 \in Nat /\ n <= m - 1
      /\ (2 * n + 3 > Len(fields) \/ fields[2 * n + 3] = <<>> => m - 1 = n)
  <2> HIDE DEF I
  <2>1. m \in Nat /\ n < m
    BY <1>4, <1>5
  <2>2. ASSUME 2 * n + 3 > Len(fields) \/ fields[2 * n + 3] = <<>> PROVE m <= n + 1
    BY <2>2, <1>4, <1>5
  <2> QED BY <2>1, <2>2
<1>8. Records(fields) = [k \in 1..count |-> RecordAt(fields, k)]
  BY DEF Records, RecordAt, last
<1> HIDE DEF count, I
<1>9. Len(Records(fields)) = m - 1
  BY <1>6, <1>7, <1>8
<1> QED BY <1>6, <1>7, <1>8, <1>9

\* A record that is wrong, whichever, has the program refused.
LEMMA WrongIsRefused ==
    ASSUME NEW fields, \/ fields[1] # Magic
                       \/ Len(fields) = 1
                       \/ TierOf(fields[2]) = "unknown"
                       \/ \E k \in 1..Len(Records(fields)) :
                            RecordError(Records(fields)[k]) # "none"
    PROVE  "network" \notin DOMAIN PolicyOf(fields)
<1> DEFINE wrong == {k \in 1..Len(Records(fields)) : RecordError(Records(fields)[k]) # "none"}
<1>1. \A error : "network" \notin DOMAIN Refused(error)
  BY DEF Refused
<1>2. (\E k \in 1..Len(Records(fields)) : RecordError(Records(fields)[k]) # "none") => wrong # {}
  OBVIOUS
<1> HIDE DEF wrong
<1>3. \E error : PolicyOf(fields) = Refused(error)
  BY <1>2 DEF PolicyOf, wrong
<1> QED BY <1>1, <1>3

\* A program with nothing wrong is accepted.
LEMMA RightIsAccepted ==
    ASSUME NEW fields, fields[1] = Magic, Len(fields) # 1, TierOf(fields[2]) # "unknown",
           \A k \in 1..Len(Records(fields)) : RecordError(Records(fields)[k]) = "none"
    PROVE  PolicyOf(fields) =
             Policy(TierOf(fields[2]),
               ItemsAt(Records(fields), (1..Len(Records(fields)))
                 \ {k \in 1..Len(Records(fields)) : Records(fields)[k].access = "Deny"}),
               ItemsAt(Records(fields),
                 {k \in 1..Len(Records(fields)) : Records(fields)[k].access = "Deny"}))
BY DEF PolicyOf

\* The words of the format.
LEMMA TiersAre ==
    /\ \A t \in Networks : TierOf(TierField(t)) = t
    /\ \A word : (\A t \in Networks : word # TierField(t)) => TierOf(word) = "unknown"
<1>1. \A t, u \in Networks : TierField(t) = TierField(u) => t = u
  BY DEF Networks, TierField
<1>2. ASSUME NEW t \in Networks PROVE TierOf(TierField(t)) = t
  <2> DEFINE match == {u \in Networks : TierField(u) = TierField(t)}
  <2>1. match = {t}
    BY <1>1
  <2>2. TierOf(TierField(t)) = IF match = {} THEN "unknown" ELSE CHOOSE u \in match : TRUE
    BY DEF TierOf
  <2> HIDE DEF match
  <2> QED BY <2>1, <2>2
<1>3. ASSUME NEW word, \A t \in Networks : word # TierField(t) PROVE TierOf(word) = "unknown"
  BY <1>3 DEF TierOf
<1> QED BY <1>2, <1>3

\* A verb asks for its access, any other word for none.
LEMMA VerbsAre ==
    /\ \A a \in Accesses \cup {"Deny"} : Asked(Verb(a)) = a
    /\ \A word : (\A a \in Accesses \cup {"Deny"} : word # Verb(a)) => Asked(word) = "unknown"
<1> DEFINE A == Accesses \cup {"Deny"}
<1>1. \A a, b \in A : Verb(a) = Verb(b) => a = b
  BY DEF Accesses, Verb
<1>2. ASSUME NEW a \in A PROVE Asked(Verb(a)) = a
  <2> DEFINE match == {b \in A : Verb(b) = Verb(a)}
  <2>1. match = {a}
    BY <1>1
  <2>2. Asked(Verb(a)) = IF match = {} THEN "unknown" ELSE CHOOSE b \in match : TRUE
    BY DEF Asked
  <2> HIDE DEF match, A
  <2> QED BY <2>1, <2>2
<1>3. ASSUME NEW word, \A a \in A : word # Verb(a) PROVE Asked(word) = "unknown"
  BY <1>3 DEF Asked
<1> QED BY <1>2, <1>3

\* What the format says is made of its bytes, and nothing spoilt is.
LEMMA WordsAreClean ==
    /\ Magic \in Seq(WireBytes)
    /\ \A t \in Networks : TierField(t) \in Seq(WireBytes)
    /\ \A a \in Accesses \cup {"Deny"} : Verb(a) \in Seq(WireBytes)
    /\ \A word \in Seq(WireBytes) : Append(word, Bad) \notin Seq(WireBytes)
<1>1. Magic \in Seq(WireBytes)
  BY DEF Magic, WireBytes
<1>2. \A t \in Networks : TierField(t) \in Seq(WireBytes)
  <2>1. \A x, y \in WireBytes : <<x, y>> \in Seq(WireBytes)
    OBVIOUS
  <2>2. {"a", "ll", "lo", "cal", "no", "ne"} \subseteq WireBytes
    BY DEF WireBytes
  <2>3. \A t \in Networks : \E x, y \in {"a", "ll", "lo", "cal", "no", "ne"} : TierField(t) = <<x, y>>
    BY DEF Networks, TierField
  <2> HIDE DEF WireBytes
  <2> TAKE t \in Networks
  <2>4. PICK x, y \in {"a", "ll", "lo", "cal", "no", "ne"} : TierField(t) = <<x, y>>
    BY <2>3
  <2>5. x \in WireBytes /\ y \in WireBytes
    BY <2>2, <2>4, Zenon
  <2> QED BY <2>1, <2>4, <2>5, Zenon
<1>3. \A a \in Accesses \cup {"Deny"} : Verb(a) \in Seq(WireBytes)
  <2>1. \A x, y \in WireBytes : <<x>> \in Seq(WireBytes) /\ <<x, y>> \in Seq(WireBytes)
    OBVIOUS
  <2>2. {"r", "w", "l", "d"} \subseteq WireBytes
    BY DEF WireBytes
  <2>3. ASSUME NEW a \in Accesses \cup {"Deny"}
        PROVE  \E x, y \in {"r", "w", "l", "d"} : Verb(a) = <<x>> \/ Verb(a) = <<x, y>>
    BY DEF Accesses, Verb
  <2> TAKE a \in Accesses \cup {"Deny"}
  <2>4. PICK x, y \in {"r", "w", "l", "d"} : Verb(a) = <<x>> \/ Verb(a) = <<x, y>>
    BY <2>3
  <2>5. x \in WireBytes /\ y \in WireBytes
    BY <2>2, <2>4, Zenon
  <2> QED BY <2>1, <2>4, <2>5, Zenon
<1>4. ASSUME NEW word \in Seq(WireBytes), Append(word, Bad) \in Seq(WireBytes) PROVE FALSE
  <2>1. Bad \notin WireBytes
    BY WireAssumption DEF WireAssumption
  <2>2. Len(word) + 1 \in 1..Len(Append(word, Bad)) /\ Append(word, Bad)[Len(word) + 1] = Bad
    OBVIOUS
  <2>3. \A k \in 1..Len(Append(word, Bad)) : Append(word, Bad)[k] \in WireBytes
    BY <1>4
  <2> QED BY <2>1, <2>2, <2>3
<1> QED BY <1>1, <1>2, <1>3, <1>4

\* No word of the format stands for another, nor does a path.
LEMMA WordsApart ==
    /\ \A t \in Networks : /\ TierField(t) # Magic /\ Asked(TierField(t)) = "unknown"
                           /\ TierField(t) # <<>>
                           /\ TierOf(Append(TierField(t), Bad)) = "unknown"
    /\ \A a \in Accesses \cup {"Deny"} : /\ TierOf(Verb(a)) = "unknown" /\ Verb(a) # <<>>
                                         /\ Asked(Append(Verb(a), Bad)) = "unknown"
    /\ TierOf(<<>>) = "unknown" /\ TierOf(Magic) = "unknown" /\ Append(Magic, Bad) # Magic
    /\ \A path : path[1] = "/" => Asked(path) = "unknown"
<1>1. ASSUME NEW t \in Networks
      PROVE  /\ TierField(t) # Magic /\ Asked(TierField(t)) = "unknown" /\ TierField(t) # <<>>
             /\ TierOf(Append(TierField(t), Bad)) = "unknown"
  <2>1. TierField(t) # Magic /\ TierField(t) # <<>>
    BY DEF Networks, TierField, Magic
  <2>2. \A a \in Accesses \cup {"Deny"} : TierField(t) # Verb(a)
    BY DEF Networks, TierField, Accesses, Verb
  <2>3. \A u \in Networks : Append(TierField(t), Bad) # TierField(u)
    BY WordsAreClean, Zenon
  <2> QED BY <2>1, <2>2, <2>3, TiersAre, VerbsAre
<1>2. ASSUME NEW a \in Accesses \cup {"Deny"}
      PROVE  /\ TierOf(Verb(a)) = "unknown" /\ Verb(a) # <<>>
             /\ Asked(Append(Verb(a), Bad)) = "unknown"
  <2>1. \A t \in Networks : Verb(a) # TierField(t)
    BY DEF Networks, TierField, Accesses, Verb
  <2>2. \A b \in Accesses \cup {"Deny"} : Append(Verb(a), Bad) # Verb(b)
    BY WordsAreClean, Zenon
  <2>3. Verb(a) # <<>>
    BY DEF Accesses, Verb
  <2> QED BY <2>1, <2>2, <2>3, TiersAre, VerbsAre
<1>3. TierOf(<<>>) = "unknown" /\ TierOf(Magic) = "unknown" /\ Append(Magic, Bad) # Magic
  <2>1. \A t \in Networks : <<>> # TierField(t) /\ Magic # TierField(t)
    BY <1>1
  <2>2. Append(Magic, Bad) # Magic
    BY DEF Magic
  <2> QED BY <2>1, <2>2, TiersAre
<1>4. ASSUME NEW path, path[1] = "/" PROVE Asked(path) = "unknown"
  <2>1. \A a \in Accesses \cup {"Deny"} : Verb(a)[1] # "/"
    BY DEF Accesses, Verb
  <2> QED BY <1>4, <2>1, VerbsAre
<1> QED BY <1>1, <1>2, <1>3, <1>4

\* Items at rising places.
LEMMA ItemsAre ==
    ASSUME NEW items, NEW a \in Nat, NEW n \in Nat
    PROVE  ItemsAt(items, a + 1..a + n) = [k \in 1..n |-> items[a + k]]
<1> DEFINE S == a + 1..a + n
<1> DEFINE e == [k \in 1..n |-> a + k]
<1>1. e \in [1..n -> Nat] /\ \A k, l \in 1..n : k < l => e[k] < e[l]
  OBVIOUS
<1>2. \A k \in 1..n : e[k] \in S
  OBVIOUS
<1>3. \A x \in S : \E k \in 1..n : x = e[k]
  <2> TAKE x \in S
  <2>1. x - a \in 1..n /\ x = a + (x - a)
    OBVIOUS
  <2>2. x = e[x - a]
    BY <2>1
  <2> QED BY <2>1, <2>2
<1>4. \A k \in 1..n : e[k] = a + k
  OBVIOUS
<1> HIDE DEF e, S
<1>5. Len(Ordered(S)) = n /\ \A k \in 1..n : Ordered(S)[k] = a + k
  BY <1>1, <1>2, <1>3, <1>4, OrderedIs
<1> QED BY <1>5 DEF ItemsAt, S

\* Pairs in a row.
LEMMA PairsAre ==
    ASSUME NEW T, NEW s \in Seq(Seq(T)), \A k \in 1..Len(s) : Len(s[k]) = 2
    PROVE  /\ FlattenSeq(s) \in Seq(T) /\ Len(FlattenSeq(s)) = 2 * Len(s)
           /\ \A k \in 1..Len(s) : /\ FlattenSeq(s)[2 * k - 1] = s[k][1]
                                   /\ FlattenSeq(s)[2 * k] = s[k][2]
<1> DEFINE n == Len(s)
<1>1. PICK at : Laid(T, s, n, at, FlattenSeq(s))
  BY FlatAt
<1>2. /\ FlattenSeq(s) \in Seq(T) /\ at \in [0..n -> Nat] /\ at[0] = 0
      /\ Len(FlattenSeq(s)) = at[n] /\ \A k \in 1..n : at[k] = at[k - 1] + Len(s[k])
      /\ \A k \in 1..n : \A m \in 1..Len(s[k]) : FlattenSeq(s)[at[k - 1] + m] = s[k][m]
  BY <1>1, Zenon DEF Laid
<1>3. n \in Nat
  OBVIOUS
<1> DEFINE S == {k \in 0..n : at[k] = 2 * k}
<1>4. 0 \in S
  BY <1>2, <1>3
<1>5. \A k \in 0..n : k \in S /\ k < n => k + 1 \in S
  <2> TAKE k \in 0..n
  <2> SUFFICES ASSUME k \in S, k < n PROVE at[k + 1] = 2 * (k + 1)
    BY <1>3
  <2>1. k + 1 \in 1..n /\ (k + 1) - 1 = k
    BY <1>3
  <2>2. at[k + 1] = at[k] + 2
    BY <2>1, <1>2
  <2> QED BY <2>2
<1> HIDE DEF S
<1>6. \A k \in 0..n : at[k] = 2 * k
  <2>1. 0..n \subseteq S
    BY <1>3, <1>4, <1>5, UpTo
  <2> QED BY <2>1 DEF S
<1>7. Len(FlattenSeq(s)) = 2 * n
  BY <1>2, <1>3, <1>6
<1>8. ASSUME NEW k \in 1..n
      PROVE  FlattenSeq(s)[2 * k - 1] = s[k][1] /\ FlattenSeq(s)[2 * k] = s[k][2]
  <2>1. k - 1 \in 0..n /\ at[k - 1] = 2 * (k - 1) /\ 1 \in 1..Len(s[k]) /\ 2 \in 1..Len(s[k])
    <3>1. k - 1 \in 0..n
      BY <1>3
    <3>2. Len(s[k]) = 2
      OBVIOUS
    <3> QED BY <3>1, <3>2, <1>6
  <2>2. 2 * (k - 1) + 1 = 2 * k - 1 /\ 2 * (k - 1) + 2 = 2 * k
    BY <1>3
  <2>3. FlattenSeq(s)[at[k - 1] + 1] = s[k][1] /\ FlattenSeq(s)[at[k - 1] + 2] = s[k][2]
    BY <2>1, <1>2
  <2> QED BY <2>1, <2>2, <2>3
<1> QED BY <1>2, <1>7, <1>8

WirePathsOver(chars) == {path \in Seq(chars) : path # <<>> /\ path[1] = "/"}

WirePolicies(chars) ==
    [network : Networks,
     grants : Seq([access : Accesses, path : WirePathsOver(chars)]),
     denies : Seq([access : {"Deny"}, path : WirePathsOver(chars)])]

\* A row over a set is one over a larger.
LEMMA Wider == ASSUME NEW X, NEW Y, X \subseteq Y, NEW s \in Seq(X) PROVE s \in Seq(Y)
OBVIOUS

\* A path is neither empty nor a word of the format.
LEMMA WirePathIs ==
    ASSUME NEW chars, Bad \notin chars, NEW path \in WirePathsOver(chars)
    PROVE  path # <<>> /\ path \in Seq(chars) /\ Asked(path) = "unknown" /\ ~Contains(path, Bad)
<1>1. path # <<>> /\ path \in Seq(chars) /\ path[1] = "/"
  BY DEF WirePathsOver
<1>2. ~Contains(path, Bad)
  BY <1>1 DEF Contains
<1> QED BY <1>1, <1>2, WordsApart

\* A policy's records, and the fields they are written in.
LEMMA RecordsOfIs ==
    ASSUME NEW chars, NEW asked \in WirePolicies(chars)
    PROVE  /\ asked.network \in Networks
           /\ asked = Policy(asked.network, asked.grants, asked.denies)
           /\ Len(asked.grants) \in Nat /\ Len(asked.denies) \in Nat
           /\ RecordsOf(asked) \in
                Seq([access : Accesses \cup {"Deny"}, path : WirePathsOver(chars)])
           /\ Len(RecordsOf(asked)) = Len(asked.grants) + Len(asked.denies)
           /\ \A k \in 1..Len(asked.grants) :
                RecordsOf(asked)[k] = asked.grants[k] /\ asked.grants[k].access \in Accesses
           /\ \A k \in 1..Len(asked.denies) :
                /\ RecordsOf(asked)[Len(asked.grants) + k] = asked.denies[k]
                /\ asked.denies[k].access = "Deny"
           /\ asked.grants \in Seq([access : Accesses \cup {"Deny"}, path : WirePathsOver(chars)])
           /\ asked.denies \in Seq([access : Accesses \cup {"Deny"}, path : WirePathsOver(chars)])
<1> DEFINE P == WirePathsOver(chars)
           R == [access : Accesses \cup {"Deny"}, path : P]
<1> HIDE DEF P
<1>1. /\ asked.network \in Networks
      /\ asked.grants \in Seq([access : Accesses, path : P])
      /\ asked.denies \in Seq([access : {"Deny"}, path : P])
      /\ asked = Policy(asked.network, asked.grants, asked.denies)
  BY DEF WirePolicies, Policy, P
<1>2. [access : Accesses, path : P] \subseteq R /\ [access : {"Deny"}, path : P] \subseteq R
  OBVIOUS
<1>3. /\ \A k \in 1..Len(asked.grants) : asked.grants[k].access \in Accesses
      /\ \A k \in 1..Len(asked.denies) : asked.denies[k].access = "Deny"
      /\ Len(asked.grants) \in Nat /\ Len(asked.denies) \in Nat
  <2>1. \A X : \A s \in Seq(X) : Len(s) \in Nat /\ \A k \in 1..Len(s) : s[k] \in X
    OBVIOUS
  <2>2. /\ \A k \in 1..Len(asked.grants) : asked.grants[k] \in [access : Accesses, path : P]
        /\ \A k \in 1..Len(asked.denies) : asked.denies[k] \in [access : {"Deny"}, path : P]
        /\ Len(asked.grants) \in Nat /\ Len(asked.denies) \in Nat
    BY <1>1, <2>1, Zenon
  <2> QED BY <2>2
<1>4. asked.grants \in Seq(R) /\ asked.denies \in Seq(R)
  <2> HIDE DEF R
  <2> QED BY <1>1, <1>2, Wider, Zenon
<1> HIDE DEF R
<1>5. /\ RecordsOf(asked) \in Seq(R)
      /\ Len(RecordsOf(asked)) = Len(asked.grants) + Len(asked.denies)
      /\ \A k \in 1..Len(asked.grants) : RecordsOf(asked)[k] = asked.grants[k]
      /\ \A k \in 1..Len(asked.denies) :
           RecordsOf(asked)[Len(asked.grants) + k] = asked.denies[k]
  <2> DEFINE G == asked.grants
             D == asked.denies
  <2>1. G \in Seq(R) /\ D \in Seq(R)
    BY <1>4
  <2> HIDE DEF G, D
  <2>2. G \o D \in Seq(R) /\ Len(G \o D) = Len(G) + Len(D)
    BY <2>1, InARow
  <2>3. \A k \in 1..Len(G) : (G \o D)[k] = G[k]
    BY <2>1, InARow
  <2>4. \A k \in 1..Len(D) : (G \o D)[Len(G) + k] = D[k]
    BY <2>1, InARow
  <2> QED BY <2>2, <2>3, <2>4 DEF RecordsOf, G, D
<1> QED BY <1>1, <1>3, <1>4, <1>5 DEF R, P

\* What the fields of a policy are.
FieldsFor(asked, fields) ==
    LET n == Len(RecordsOf(asked)) IN
    /\ Len(fields) = 2 * n + 2 /\ fields[1] = Magic /\ fields[2] = TierField(asked.network)
    /\ \A k \in 1..n : /\ fields[2 * k + 1] = Verb(RecordsOf(asked)[k].access)
                       /\ fields[2 * k + 2] = RecordsOf(asked)[k].path

\* The encoder writes the fields of the policy.
LEMMA FieldsAre ==
    ASSUME NEW chars, NEW asked \in WirePolicies(chars)
    PROVE  FieldsOf(asked) \in Seq(Seq(chars \cup WireBytes)) /\ FieldsFor(asked, FieldsOf(asked))
<1> DEFINE W == Seq(chars \cup WireBytes)
           start == <<Magic, TierField(asked.network)>>
           gp == [k \in 1..Len(asked.grants) |->
                    <<Verb(asked.grants[k].access), asked.grants[k].path>>]
           dp == [k \in 1..Len(asked.denies) |-> <<Verb("Deny"), asked.denies[k].path>>]
           A == RecordsOf(asked)
           g == Len(asked.grants)
           d == Len(asked.denies)
<1>1. Seq(WireBytes) \subseteq W /\ WirePathsOver(chars) \subseteq W
  <2>1. \A x : x \in Seq(WireBytes) => x \in Seq(chars \cup WireBytes)
    OBVIOUS
  <2>2. \A x : x \in Seq(chars) => x \in Seq(chars \cup WireBytes)
    OBVIOUS
  <2> QED BY <2>1, <2>2 DEF WirePathsOver
<1> HIDE DEF W
<1>2. /\ g \in Nat /\ d \in Nat /\ Len(A) = g + d /\ asked.network \in Networks
      /\ \A k \in 1..g : /\ A[k] = asked.grants[k] /\ A[k].access \in Accesses \cup {"Deny"}
                         /\ A[k].path \in WirePathsOver(chars)
      /\ \A k \in 1..d : /\ A[g + k] = asked.denies[k] /\ A[g + k].access = "Deny"
                         /\ A[g + k].path \in WirePathsOver(chars)
  <2>1. /\ g \in Nat /\ d \in Nat /\ Len(A) = g + d /\ asked.network \in Networks
        /\ \A k \in 1..g : A[k] = asked.grants[k]
        /\ \A k \in 1..d : A[g + k] = asked.denies[k] /\ asked.denies[k].access = "Deny"
        /\ A \in Seq([access : Accesses \cup {"Deny"}, path : WirePathsOver(chars)])
    BY RecordsOfIs
  <2>2. \A k \in 1..g + d : /\ A[k].access \in Accesses \cup {"Deny"}
                            /\ A[k].path \in WirePathsOver(chars)
    <3> DEFINE R == [access : Accesses \cup {"Deny"}, path : WirePathsOver(chars)]
    <3>1. \A k \in 1..g + d : A[k] \in R
      <4>1. A \in Seq(R) /\ Len(A) = g + d
        BY <2>1
      <4> HIDE DEF A, g, d, R
      <4> QED BY <4>1
    <3> TAKE k \in 1..g + d
    <3>2. A[k] \in R
      BY <3>1
    <3> HIDE DEF A
    <3> QED BY <3>2
  <2> HIDE DEF A
  <2>0. g \in Nat /\ d \in Nat
    BY <2>1
  <2> HIDE DEF g, d
  <2>3. \A k \in 1..g : k \in 1..g + d
    BY <2>0
  <2>4. \A k \in 1..d : g + k \in 1..g + d
    BY <2>0
  <2> QED BY <2>1, <2>2, <2>3, <2>4
<1> HIDE DEF A
<1>3. /\ gp \in Seq(Seq(W)) /\ Len(gp) = g /\ \A k \in 1..Len(gp) : Len(gp[k]) = 2
      /\ \A k \in 1..g : gp[k] = <<Verb(A[k].access), A[k].path>>
  <2>1. \A k \in 1..g : <<Verb(A[k].access), A[k].path>> \in Seq(W)
    <3> TAKE k \in 1..g
    <3>1. Verb(A[k].access) \in W /\ A[k].path \in W
      BY <1>1, <1>2, WordsAreClean
    <3> QED BY <3>1
  <2>2. \A k \in 1..g : gp[k] = <<Verb(A[k].access), A[k].path>>
    BY <1>2
  <2>3. Len(gp) = g /\ gp = [k \in 1..g |-> gp[k]]
    BY <1>2
  <2>0. g \in Nat
    BY <1>2
  <2> HIDE DEF gp, g
  <2>4. gp \in Seq(Seq(W))
    <3>1. \A k \in 1..g : gp[k] \in Seq(W)
      BY <2>1, <2>2, Zenon
    <3> QED BY <2>0, <2>3, <3>1
  <2>5. \A k \in 1..g : Len(gp[k]) = 2
    <3>1. \A x, y : Len(<<x, y>>) = 2
      OBVIOUS
    <3> QED BY <2>2, <3>1, Zenon
  <2> QED BY <2>2, <2>3, <2>4, <2>5
<1>4. /\ dp \in Seq(Seq(W)) /\ Len(dp) = d /\ \A k \in 1..Len(dp) : Len(dp[k]) = 2
      /\ \A k \in 1..d : dp[k] = <<Verb(A[g + k].access), A[g + k].path>>
  <2>1. \A k \in 1..d : <<Verb(A[g + k].access), A[g + k].path>> \in Seq(W)
    <3> TAKE k \in 1..d
    <3>1. Verb(A[g + k].access) \in W /\ A[g + k].path \in W
      BY <1>1, <1>2, WordsAreClean
    <3> QED BY <3>1
  <2>2. \A k \in 1..d : dp[k] = <<Verb(A[g + k].access), A[g + k].path>>
    BY <1>2
  <2>3. Len(dp) = d /\ dp = [k \in 1..d |-> dp[k]]
    BY <1>2
  <2>0. d \in Nat
    BY <1>2
  <2> HIDE DEF dp, d
  <2>4. dp \in Seq(Seq(W))
    <3>1. \A k \in 1..d : dp[k] \in Seq(W)
      BY <2>1, <2>2, Zenon
    <3> QED BY <2>0, <2>3, <3>1
  <2>5. \A k \in 1..d : Len(dp[k]) = 2
    <3>1. \A x, y : Len(<<x, y>>) = 2
      OBVIOUS
    <3> QED BY <2>2, <3>1, Zenon
  <2> QED BY <2>2, <2>3, <2>4, <2>5
<1>5. start \in Seq(W) /\ Len(start) = 2 /\ start[1] = Magic /\ start[2] = TierField(asked.network)
  <2>1. Magic \in W /\ TierField(asked.network) \in W
    BY <1>1, <1>2, WordsAreClean
  <2> QED BY <2>1
<1> DEFINE G == FlattenSeq(gp)
           D == FlattenSeq(dp)
           F == (start \o G) \o D
<1>6. FieldsOf(asked) = F
  BY DEF FieldsOf
<1> HIDE DEF gp, dp, start, g, d
<1>7. /\ G \in Seq(W) /\ Len(G) = 2 * g
      /\ \A k \in 1..g : G[2 * k - 1] = gp[k][1] /\ G[2 * k] = gp[k][2]
  BY <1>3, PairsAre
<1>8. /\ D \in Seq(W) /\ Len(D) = 2 * d
      /\ \A k \in 1..d : D[2 * k - 1] = dp[k][1] /\ D[2 * k] = dp[k][2]
  BY <1>4, PairsAre
<1> HIDE DEF G, D
<1> DEFINE H == start \o G
<1>9. /\ H \in Seq(W) /\ Len(H) = 2 + 2 * g /\ H[1] = Magic /\ H[2] = TierField(asked.network)
      /\ \A q \in 1..2 * g : H[2 + q] = G[q]
  <2>1. /\ H \in Seq(W) /\ Len(H) = Len(start) + Len(G)
        /\ \A k \in 1..Len(start) : H[k] = start[k]
        /\ \A k \in 1..Len(G) : H[Len(start) + k] = G[k]
    <3>1. start \in Seq(W) /\ G \in Seq(W)
      BY <1>5, <1>7
    <3>2. start \o G \in Seq(W) /\ Len(start \o G) = Len(start) + Len(G)
      BY <3>1, InARow
    <3>3. \A k \in 1..Len(start) : (start \o G)[k] = start[k]
      BY <3>1, InARow
    <3>4. \A k \in 1..Len(G) : (start \o G)[Len(start) + k] = G[k]
      BY <3>1, InARow
    <3> QED BY <3>2, <3>3, <3>4
  <2> HIDE DEF H
  <2> QED BY <2>1, <1>5, <1>7
<1> HIDE DEF H
<1>10. /\ F \in Seq(W) /\ Len(F) = 2 + 2 * g + 2 * d
       /\ \A q \in 1..2 + 2 * g : F[q] = H[q]
       /\ \A q \in 1..2 * d : F[2 + 2 * g + q] = D[q]
  <2>1. F = H \o D
    BY DEF H
  <2>2. /\ H \o D \in Seq(W) /\ Len(H \o D) = Len(H) + Len(D)
        /\ \A k \in 1..Len(H) : (H \o D)[k] = H[k]
        /\ \A k \in 1..Len(D) : (H \o D)[Len(H) + k] = D[k]
    <3>1. H \in Seq(W) /\ D \in Seq(W)
      BY <1>8, <1>9
    <3>2. H \o D \in Seq(W) /\ Len(H \o D) = Len(H) + Len(D)
      BY <3>1, InARow
    <3>3. \A k \in 1..Len(H) : (H \o D)[k] = H[k]
      BY <3>1, InARow
    <3>4. \A k \in 1..Len(D) : (H \o D)[Len(H) + k] = D[k]
      BY <3>1, InARow
    <3> QED BY <3>2, <3>3, <3>4
  <2> HIDE DEF F
  <2> QED BY <2>1, <2>2, <1>8, <1>9
<1> HIDE DEF F
<1>11. F[1] = Magic /\ F[2] = TierField(asked.network) /\ Len(F) = 2 * Len(A) + 2
  BY <1>2, <1>9, <1>10
<1>12. ASSUME NEW k \in 1..Len(A)
       PROVE  F[2 * k + 1] = Verb(A[k].access) /\ F[2 * k + 2] = A[k].path
  <2>1. CASE k <= g
    <3>1. /\ k \in 1..g /\ 2 * k - 1 \in 1..2 * g /\ 2 * k \in 1..2 * g
          /\ 2 + (2 * k - 1) = 2 * k + 1 /\ 2 + 2 * k = 2 * k + 2
          /\ 2 * k + 1 \in 1..2 + 2 * g /\ 2 * k + 2 \in 1..2 + 2 * g
      BY <2>1, <1>2
    <3>2. F[2 * k + 1] = H[2 + (2 * k - 1)] /\ F[2 * k + 2] = H[2 + 2 * k]
      BY <3>1, <1>10
    <3>3. H[2 + (2 * k - 1)] = G[2 * k - 1] /\ H[2 + 2 * k] = G[2 * k]
      BY <3>1, <1>9
    <3>4. G[2 * k - 1] = Verb(A[k].access) /\ G[2 * k] = A[k].path
      BY <3>1, <1>3, <1>7, SMTT(40)
    <3> QED BY <3>2, <3>3, <3>4
  <2>2. CASE ~(k <= g)
    <3> DEFINE j == k - g
    <3>1. /\ j \in 1..d /\ g + j = k /\ 2 * j - 1 \in 1..2 * d /\ 2 * j \in 1..2 * d
          /\ 2 + 2 * g + (2 * j - 1) = 2 * k + 1 /\ 2 + 2 * g + 2 * j = 2 * k + 2
      BY <2>2, <1>2
    <3> HIDE DEF j
    <3>2. F[2 * k + 1] = D[2 * j - 1] /\ F[2 * k + 2] = D[2 * j]
      <4>1. F[2 + 2 * g + (2 * j - 1)] = D[2 * j - 1] /\ F[2 + 2 * g + 2 * j] = D[2 * j]
        BY <3>1, <1>10
      <4> QED BY <3>1, <4>1
    <3>3. D[2 * j - 1] = Verb(A[k].access) /\ D[2 * j] = A[k].path
      BY <3>1, <1>4, <1>8, SMTT(40)
    <3> QED BY <3>2, <3>3
  <2> QED BY <2>1, <2>2
<1>13. FieldsFor(asked, F)
  BY <1>11, <1>12 DEF FieldsFor, A
<1> QED BY <1>6, <1>10, <1>13 DEF W

\* A verb and a path are a record.
LEMMA RecordIsRight ==
    ASSUME NEW fields, NEW k \in Nat, 2 * k + 2 <= Len(fields),
           NEW a \in Accesses \cup {"Deny"}, fields[2 * k + 1] = Verb(a),
           fields[2 * k + 2] # <<>>, ~Contains(fields[2 * k + 2], Bad)
    PROVE  /\ RecordAt(fields, k) = [access |-> a, path |-> fields[2 * k + 2]]
           /\ RecordError(RecordAt(fields, k)) = "none"
<1>1. RecordAt(fields, k) = [access |-> a, path |-> fields[2 * k + 2]]
  BY VerbsAre DEF RecordAt
<1>2. a # "unknown"
  BY DEF Accesses
<1>3. \A r : r.path # <<>> /\ ~Contains(r.path, Bad) /\ r.access # "unknown" => RecordError(r) = "none"
  BY DEF RecordError
<1>4. /\ [access |-> a, path |-> fields[2 * k + 2]].path = fields[2 * k + 2]
      /\ [access |-> a, path |-> fields[2 * k + 2]].access = a
  OBVIOUS
<1> QED BY <1>1, <1>2, <1>3, <1>4, Zenon

\* A record that is none has the program refused, if it is reached.
LEMMA RecordIsWrong ==
    ASSUME NEW T, NEW fields \in Seq(Seq(T)), NEW n \in Nat, n >= 1,
           \A k \in 1..n : 2 * k + 1 <= Len(fields) /\ fields[2 * k + 1] # <<>>,
           \/ Asked(fields[2 * n + 1]) = "unknown"
           \/ 2 * n + 2 > Len(fields)
           \/ fields[2 * n + 2] = <<>>
           \/ Contains(fields[2 * n + 2], Bad)
    PROVE  "network" \notin DOMAIN PolicyOf(fields)
<1>1. Len(fields) >= 1
  BY 1 \in 1..n
<1>2. /\ Records(fields) = [k \in 1..Len(Records(fields)) |-> RecordAt(fields, k)]
      /\ Len(Records(fields)) \in Nat /\ n <= Len(Records(fields))
  BY <1>1, RecordsAre
<1>3. n \in 1..Len(Records(fields)) /\ Records(fields)[n] = RecordAt(fields, n)
  BY <1>2
<1>4. \A r : r.path = <<>> \/ Contains(r.path, Bad) \/ r.access = "unknown"
               => RecordError(r) # "none"
  BY DEF RecordError
<1>5. RecordError(RecordAt(fields, n)) # "none"
  <2>1. /\ RecordAt(fields, n).access = Asked(fields[2 * n + 1])
        /\ RecordAt(fields, n).path =
             IF 2 * n + 2 <= Len(fields) THEN fields[2 * n + 2] ELSE <<>>
    BY DEF RecordAt
  <2>2. Len(fields) \in Nat
    OBVIOUS
  <2>3. CASE Asked(fields[2 * n + 1]) = "unknown"
    BY <2>1, <2>3, <1>4
  <2>4. CASE ~(2 * n + 2 <= Len(fields))
    BY <2>1, <2>4, <1>4
  <2>5. CASE 2 * n + 2 <= Len(fields) /\ fields[2 * n + 2] = <<>>
    BY <2>1, <2>5, <1>4
  <2>6. CASE 2 * n + 2 <= Len(fields) /\ Contains(fields[2 * n + 2], Bad)
    BY <2>1, <2>6, <1>4
  <2> QED BY <2>2, <2>3, <2>4, <2>5, <2>6
<1>6. \E k \in 1..Len(Records(fields)) : RecordError(Records(fields)[k]) # "none"
  BY <1>3, <1>5
<1> QED BY <1>6, WrongIsRefused

\* The first g of n records are the grants asked, the others the denies.
Sorted(fields, asked, n, g) ==
    /\ g = Len(asked.grants) \/ (g = n /\ n <= Len(asked.grants))
    /\ PolicyOf(fields) = Policy(asked.network,
         [k \in 1..g |-> Records(fields)[k]], [k \in 1..n - g |-> Records(fields)[g + k]])

\* The first n records of a policy, with some path each.
LEMMA FirstAreAccepted ==
    ASSUME NEW chars, NEW asked \in WirePolicies(chars), NEW fields,
           NEW n \in 0..Len(RecordsOf(asked)),
           fields[1] = Magic, Len(fields) # 1, fields[2] = TierField(asked.network),
           Len(Records(fields)) = n,
           \A k \in 1..n : /\ Records(fields)[k].access = RecordsOf(asked)[k].access
                           /\ RecordError(Records(fields)[k]) = "none"
    PROVE  \E g \in 0..n : Sorted(fields, asked, n, g)
<1> DEFINE A == RecordsOf(asked)
           G == Len(asked.grants)
           D == Len(asked.denies)
           g == IF n <= G THEN n ELSE G
           recs == Records(fields)
           denies == {k \in 1..Len(recs) : recs[k].access = "Deny"}
<1>1. /\ G \in Nat /\ D \in Nat /\ Len(A) = G + D /\ asked.network \in Networks
      /\ \A k \in 1..G : A[k].access # "Deny"
      /\ \A k \in 1..D : A[G + k].access = "Deny"
  <2>1. "Deny" \notin Accesses
    BY DEF Accesses
  <2>2. /\ G \in Nat /\ D \in Nat /\ Len(A) = G + D /\ asked.network \in Networks
        /\ \A k \in 1..G : A[k] = asked.grants[k] /\ asked.grants[k].access \in Accesses
        /\ \A k \in 1..D : A[G + k] = asked.denies[k] /\ asked.denies[k].access = "Deny"
    BY RecordsOfIs
  <2> HIDE DEF A, G, D
  <2>3. \A k \in 1..G : A[k].access # "Deny"
    BY <2>1, <2>2, Zenon
  <2>4. \A k \in 1..D : A[G + k].access = "Deny"
    BY <2>2, Zenon
  <2> QED BY <2>2, <2>3, <2>4
<1> HIDE DEF A, G, D, recs
<1>2. n \in 0..G + D /\ Len(recs) = n
  BY <1>1 DEF recs, A
<1>3. /\ g \in 0..n /\ (g = G \/ (g = n /\ n <= G)) /\ n - g \in Nat
      /\ \A k \in 1..n : k <= g => k \in 1..G
      /\ \A k \in 1..n : k > g => k - G \in 1..D /\ G + (k - G) = k
  <2>1. G \in Nat /\ D \in Nat /\ n \in 0..G + D
    BY <1>1, <1>2
  <2>2. g \in 0..n /\ (g = G \/ (g = n /\ n <= G)) /\ n - g \in Nat
    <3>1. CASE n <= G
      <4>1. g = n
        BY <3>1
      <4> HIDE DEF g
      <4> QED BY <2>1, <3>1, <4>1
    <3>2. CASE ~(n <= G)
      <4>1. g = G
        BY <3>2
      <4>2. G < n /\ n - G \in Nat
        BY <2>1, <3>2
      <4> HIDE DEF g
      <4> QED BY <2>1, <4>1, <4>2
    <3> QED BY <3>1, <3>2
  <2>3. \A k \in 1..n : k <= g => k \in 1..G
    BY <2>1
  <2>4. \A k \in 1..n : k > g => k - G \in 1..D /\ G + (k - G) = k
    <3>1. CASE n <= G
      BY <2>1, <3>1
    <3>2. CASE ~(n <= G)
      <4>1. g = G
        BY <3>2
      <4> HIDE DEF g
      <4> QED BY <2>1, <4>1
    <3> QED BY <3>1, <3>2
  <2> QED BY <2>2, <2>3, <2>4
<1>4. \A k \in 1..n : recs[k].access = A[k].access
  BY DEF recs, A
<1> HIDE DEF g
<1>5. \A k \in 1..n : recs[k].access = "Deny" <=> k > g
  <2> TAKE k \in 1..n
  <2>1. CASE k <= g
    <3>1. k \in 1..G /\ ~(k > g)
      BY <2>1, <1>3
    <3> QED BY <3>1, <1>1, <1>4
  <2>2. CASE k > g
    <3>1. k - G \in 1..D /\ G + (k - G) = k
      BY <2>2, <1>3
    <3>2. A[G + (k - G)].access = "Deny"
      BY <3>1, <1>1
    <3> QED BY <2>2, <3>1, <3>2, <1>4
  <2> QED BY <2>1, <2>2, <1>3
<1>6. denies = g + 1..g + (n - g)
  BY <1>2, <1>3, <1>5
<1>7. (1..Len(recs)) \ denies = 0 + 1..0 + g
  BY <1>2, <1>3, <1>5
<1> HIDE DEF denies
<1>8. ItemsAt(recs, denies) = [k \in 1..n - g |-> recs[g + k]]
  <2>1. g \in Nat /\ n - g \in Nat
    BY <1>3
  <2>2. \A d \in Nat : ItemsAt(recs, g + 1..g + d) = [k \in 1..d |-> recs[g + k]]
    BY <2>1, ItemsAre, ZenonT(60)
  <2> QED BY <2>1, <2>2, <1>6, Zenon
<1>9. ItemsAt(recs, (1..Len(recs)) \ denies) = [k \in 1..g |-> recs[k]]
  <2>1. 0 \in Nat /\ g \in Nat
    BY <1>3
  <2>2. ItemsAt(recs, 0 + 1..0 + g) = [k \in 1..g |-> recs[0 + k]]
    BY <2>1, ItemsAre, Zenon
  <2>3. ItemsAt(recs, (1..Len(recs)) \ denies) = [k \in 1..g |-> recs[0 + k]]
    BY <2>2, <1>7, Zenon
  <2>4. \A k \in 1..g : 0 + k = k
    BY <1>3
  <2> QED BY <2>3, <2>4
<1>10. TierOf(fields[2]) = asked.network /\ TierOf(fields[2]) # "unknown"
  <2>1. "unknown" \notin Networks
    BY DEF Networks
  <2> QED BY <2>1, <1>1, TiersAre
<1>11. \A k \in 1..Len(Records(fields)) : RecordError(Records(fields)[k]) = "none"
  OBVIOUS
<1>12. PolicyOf(fields) = Policy(TierOf(fields[2]),
                                 ItemsAt(recs, (1..Len(recs)) \ denies), ItemsAt(recs, denies))
  BY <1>10, <1>11, RightIsAccepted DEF recs, denies
<1>13. PolicyOf(fields) = Policy(asked.network, [k \in 1..g |-> recs[k]],
                                 [k \in 1..n - g |-> recs[g + k]])
  BY <1>8, <1>9, <1>10, <1>12
<1> QED BY <1>3, <1>13 DEF recs, G, Sorted

\* A row cut in two.
LEMMA CutInTwo ==
    ASSUME NEW X, NEW s \in Seq(X), NEW g \in 0..Len(s)
    PROVE  [k \in 1..g |-> s[k]] \o [k \in 1..Len(s) - g |-> s[g + k]] = s
<1> DEFINE P == [k \in 1..g |-> s[k]]
           Q == [k \in 1..Len(s) - g |-> s[g + k]]
           n == Len(s)
<1>1. n \in Nat /\ g \in Nat /\ n - g \in Nat
  OBVIOUS
<1>2. P \in Seq(X) /\ Len(P) = g /\ \A k \in 1..g : P[k] = s[k]
  OBVIOUS
<1>3. Q \in Seq(X) /\ Len(Q) = n - g /\ \A k \in 1..n - g : Q[k] = s[g + k]
  OBVIOUS
<1> HIDE DEF P, Q
<1>4. P \o Q \in Seq(X) /\ Len(P \o Q) = n
  <2>1. P \o Q \in Seq(X) /\ Len(P \o Q) = Len(P) + Len(Q)
    BY <1>2, <1>3, InARow
  <2> QED BY <2>1, <1>1, <1>2, <1>3
<1>5. \A k \in 1..g : (P \o Q)[k] = s[k]
  <2>1. \A k \in 1..Len(P) : (P \o Q)[k] = P[k]
    BY <1>2, <1>3, InARow
  <2> QED BY <2>1, <1>2
<1>6. \A k \in 1..n - g : (P \o Q)[g + k] = s[g + k]
  <2>1. \A k \in 1..Len(Q) : (P \o Q)[Len(P) + k] = Q[k]
    BY <1>2, <1>3, InARow
  <2> QED BY <2>1, <1>2, <1>3
<1>7. \A k \in 1..n : (P \o Q)[k] = s[k]
  <2> TAKE k \in 1..n
  <2>1. CASE k <= g
    <3>1. k \in 1..g
      BY <2>1, <1>1
    <3> QED BY <3>1, <1>5, Zenon
  <2>2. CASE ~(k <= g)
    <3>1. k - g \in 1..n - g /\ g + (k - g) = k
      BY <2>2, <1>1
    <3>2. (P \o Q)[g + (k - g)] = s[g + (k - g)]
      BY <3>1, <1>6
    <3> QED BY <3>1, <3>2
  <2> QED BY <2>1, <2>2
<1>8. P \o Q = s
  BY <1>4, <1>7, SameRow
<1> QED BY <1>8 DEF P, Q

\* What is accepted of a policy's first records.
LEMMA FirstRecords ==
    ASSUME NEW chars, NEW asked \in WirePolicies(chars), NEW fields,
           NEW n \in 0..Len(RecordsOf(asked)),
           fields[1] = Magic, Len(fields) # 1, fields[2] = TierField(asked.network),
           NEW X, Records(fields) \in Seq(X), Len(Records(fields)) = n,
           \A k \in 1..n : /\ Records(fields)[k].access = RecordsOf(asked)[k].access
                           /\ RecordError(Records(fields)[k]) = "none"
                           /\ k < n => Records(fields)[k] = RecordsOf(asked)[k],
           n > 0 => IsPrefix(Records(fields)[n].path, RecordsOf(asked)[n].path)
    PROVE  /\ FirstRecordsOf(PolicyOf(fields), asked)
           /\ n = Len(RecordsOf(asked)) /\ (n > 0 => Records(fields)[n] = RecordsOf(asked)[n])
                => PolicyOf(fields) = asked
<1> DEFINE A == RecordsOf(asked)
           recs == Records(fields)
           N == Len(RecordsOf(asked))
           got == PolicyOf(fields)
<1>0. n \in Nat /\ Len(Records(fields)) = n
  <2>1. Len(RecordsOf(asked)) \in Nat
    BY RecordsOfIs
  <2>2. n \in Nat
    BY <2>1
  <2> QED BY <2>2
<1>1. PICK g \in 0..n : Sorted(fields, asked, n, g)
  BY <1>0, FirstAreAccepted
<1>11. /\ g = Len(asked.grants) \/ (g = n /\ n <= Len(asked.grants))
       /\ got = Policy(asked.network, [k \in 1..g |-> recs[k]], [k \in 1..n - g |-> recs[g + k]])
  BY <1>1 DEF Sorted
<1>2. recs \in Seq(X) /\ Len(recs) = n
  BY <1>0
<1> HIDE DEF recs
<1>3. RecordsOf(got) = recs
  <2>1. g \in 0..Len(recs)
    BY <1>2
  <2>2. [k \in 1..g |-> recs[k]] \o [k \in 1..Len(recs) - g |-> recs[g + k]] = recs
    BY <2>1, <1>2, CutInTwo
  <2>3. /\ got.grants = [k \in 1..g |-> recs[k]]
        /\ got.denies = [k \in 1..n - g |-> recs[g + k]]
    BY <1>11 DEF Policy
  <2> HIDE DEF got
  <2> QED BY <2>2, <2>3, <1>2 DEF RecordsOf
<1>4. got.network = asked.network
  BY <1>11 DEF Policy
<1>5. A \in Seq([access : Accesses \cup {"Deny"}, path : WirePathsOver(chars)]) /\ N = Len(A)
  BY RecordsOfIs
<1> DEFINE R == [access : Accesses \cup {"Deny"}, path : WirePathsOver(chars)]
<1>6. N \in Nat /\ n <= N
  <2>1. N \in Nat
    BY <1>5
  <2> QED BY <2>1
<1>7. ASSUME n > 0 PROVE IsPrefix(Front(recs), A)
  <2> DEFINE Y == X \cup R
  <2>1. recs \in Seq(Y) /\ A \in Seq(Y)
    <3>1. X \subseteq Y /\ R \subseteq Y
      OBVIOUS
    <3> HIDE DEF R, Y, A
    <3> QED BY <3>1, <1>2, <1>5, Wider, Zenon DEF R
  <2> HIDE DEF R, Y, A
  <2>2. /\ Front(recs) \in Seq(Y) /\ Len(Front(recs)) = n - 1
        /\ \A k \in 1..n - 1 : Front(recs)[k] = recs[k]
    BY <1>0, <1>2, <1>7, <2>1 DEF Front
  <2>3. \A k \in 1..n - 1 : recs[k] = A[k]
    <3> TAKE k \in 1..n - 1
    <3>1. k \in 1..n /\ k < n
      BY <1>0
    <3> QED BY <3>1 DEF recs, A
  <2>4. Len(Front(recs)) <= Len(A) /\ \A k \in 1..Len(Front(recs)) : Front(recs)[k] = A[k]
    <3>1. Len(A) = N
      BY <1>5
    <3>2. n - 1 <= N
      BY <1>0, <1>6
    <3> QED BY <3>1, <3>2, <2>2, <2>3
  <2> QED BY <2>1, <2>2, <2>4, PrefixIs
<1>8. ASSUME n > 0
      PROVE  recs[n].access = A[n].access /\ IsPrefix(recs[n].path, A[n].path)
  <2>1. n \in 1..n
    BY <1>0, <1>8
  <2> QED BY <1>8, <2>1 DEF recs
<1>9. FirstRecordsOf(got, asked)
  <2> HIDE DEF got
  <2> QED BY <1>2, <1>3, <1>4, <1>6, <1>7, <1>8 DEF FirstRecordsOf
<1>10. ASSUME n = N, n > 0 => recs[n] = A[n] PROVE got = asked
  <2>1. /\ asked = Policy(asked.network, asked.grants, asked.denies)
        /\ Len(asked.grants) \in Nat /\ Len(asked.denies) \in Nat
        /\ N = Len(asked.grants) + Len(asked.denies)
        /\ \A k \in 1..Len(asked.grants) : A[k] = asked.grants[k]
        /\ \A k \in 1..Len(asked.denies) : A[Len(asked.grants) + k] = asked.denies[k]
        /\ asked.grants \in Seq(R) /\ asked.denies \in Seq(R)
    BY RecordsOfIs
  <2>2. ASSUME NEW k \in 1..n PROVE recs[k] = A[k]
    <3>1. k < n \/ k = n
      BY <1>0
    <3>2. k < n => recs[k] = A[k]
      BY <2>2 DEF recs
    <3>3. k = n => n > 0
      BY <1>0
    <3> QED BY <3>1, <3>2, <3>3, <1>10
  <2> DEFINE G == Len(asked.grants)
             D == Len(asked.denies)
  <2> HIDE DEF A, R, N, got
  <2>6. G \in Nat /\ D \in Nat /\ N = G + D
    BY <2>1
  <2>3. g = G /\ n - g = D
    <3>1. G \in Nat /\ D \in Nat /\ N = G + D
      BY <2>1
    <3>2. g \in Nat /\ (g = G \/ (g = n /\ n <= G))
      BY <1>11, <1>0
    <3> HIDE DEF G, D
    <3> QED BY <3>1, <3>2, <1>10, <1>0
  <2>4. [k \in 1..g |-> recs[k]] = asked.grants
    <3>1. ASSUME NEW k \in 1..G PROVE recs[k] = asked.grants[k]
      <4>1. k \in 1..n
        <5> HIDE DEF G, D
        <5> QED BY <1>10, <2>6
      <4>2. A[k] = asked.grants[k]
        BY <2>1
      <4> QED BY <4>1, <4>2, <2>2
    <3>2. asked.grants = [k \in 1..G |-> asked.grants[k]]
      <4>1. asked.grants \in Seq(R)
        BY <2>1
      <4> QED BY <4>1
    <3> HIDE DEF G
    <3> QED BY <2>3, <3>1, <3>2
  <2>5. [k \in 1..n - g |-> recs[g + k]] = asked.denies
    <3>1. ASSUME NEW k \in 1..D PROVE recs[G + k] = asked.denies[k]
      <4>1. G + k \in 1..n
        <5> HIDE DEF G, D
        <5> QED BY <1>10, <2>6
      <4>2. A[G + k] = asked.denies[k]
        BY <2>1
      <4> QED BY <4>1, <4>2, <2>2
    <3>2. asked.denies = [k \in 1..D |-> asked.denies[k]]
      <4>1. asked.denies \in Seq(R)
        BY <2>1
      <4> QED BY <4>1
    <3> HIDE DEF G, D
    <3> QED BY <2>3, <3>1, <3>2
  <2> QED BY <1>11, <2>1, <2>4, <2>5
<1> QED BY <1>9, <1>10 DEF recs

\* The fields of a policy's first records: the last path may lack its end.
BeginningOf(asked, fields, n) ==
    LET A == RecordsOf(asked) IN
    /\ n \in 0..Len(A) /\ 2 * n + 2 <= Len(fields)
    /\ fields[1] = Magic /\ fields[2] = TierField(asked.network)
    /\ 2 * n + 3 > Len(fields) \/ fields[2 * n + 3] = <<>>
    /\ \A k \in 1..n : /\ fields[2 * k + 1] = Verb(A[k].access)
                       /\ fields[2 * k + 2] # <<>> /\ ~Contains(fields[2 * k + 2], Bad)
                       /\ k < n => fields[2 * k + 2] = A[k].path
    /\ n > 0 => IsPrefix(fields[2 * n + 2], A[n].path)

\* The beginning of a program is read as the first records of its policy.
LEMMA BeginningIs ==
    ASSUME NEW chars, NEW asked \in WirePolicies(chars), NEW T, NEW fields \in Seq(Seq(T)),
           NEW n, BeginningOf(asked, fields, n)
    PROVE  /\ FirstRecordsOf(PolicyOf(fields), asked)
           /\ n = Len(RecordsOf(asked)) /\ (n > 0 => fields[2 * n + 2] = RecordsOf(asked)[n].path)
                => PolicyOf(fields) = asked
<1> DEFINE A == RecordsOf(asked)
           recs == Records(fields)
<1>1. /\ Len(A) \in Nat
      /\ \A k \in 1..Len(A) : A[k] \in [access : Accesses \cup {"Deny"}, path : WirePathsOver(chars)]
  <2> DEFINE R == [access : Accesses \cup {"Deny"}, path : WirePathsOver(chars)]
  <2>1. A \in Seq(R)
    BY RecordsOfIs
  <2> HIDE DEF A, R
  <2>2. Len(A) \in Nat /\ \A k \in 1..Len(A) : A[k] \in R
    BY <2>1
  <2> QED BY <2>2 DEF R
<1>2. \A k \in 1..Len(A) : /\ A[k].access \in Accesses \cup {"Deny"}
                           /\ A[k] = [access |-> A[k].access, path |-> A[k].path]
  <2> HIDE DEF A
  <2> QED BY <1>1
<1>3. /\ n \in 0..Len(A) /\ 2 * n + 2 <= Len(fields)
      /\ fields[1] = Magic /\ fields[2] = TierField(asked.network)
      /\ 2 * n + 3 > Len(fields) \/ fields[2 * n + 3] = <<>>
  BY DEF BeginningOf
<1>4. \A k \in 1..n : /\ fields[2 * k + 1] = Verb(A[k].access)
                      /\ fields[2 * k + 2] # <<>> /\ ~Contains(fields[2 * k + 2], Bad)
                      /\ k < n => fields[2 * k + 2] = A[k].path
  BY DEF BeginningOf
<1>5. n > 0 => IsPrefix(fields[2 * n + 2], A[n].path)
  BY DEF BeginningOf
<1>6. n \in Nat /\ Len(fields) \in Nat /\ Len(fields) >= 1 /\ Len(fields) # 1
  <2> HIDE DEF A
  <2>1. n \in Nat /\ Len(fields) \in Nat
    BY <1>1, <1>3
  <2> QED BY <2>1, <1>3
<1>7. \A k \in 1..n : 2 * k + 1 <= Len(fields) /\ fields[2 * k + 1] # <<>>
  <2> TAKE k \in 1..n
  <2>1. k \in 1..Len(A) /\ 2 * k + 1 <= Len(fields)
    <3> HIDE DEF A
    <3> QED BY <1>1, <1>3, <1>6
  <2>2. Verb(A[k].access) # <<>>
    BY <2>1, <1>2, WordsApart
  <2> QED BY <2>1, <2>2, <1>4
<1>8. /\ recs = [k \in 1..Len(recs) |-> RecordAt(fields, k)]
      /\ Len(recs) = n
  BY <1>3, <1>6, <1>7, RecordsAre
<1> HIDE DEF A, recs
<1>9. \A k \in 1..n : /\ recs[k] = [access |-> A[k].access, path |-> fields[2 * k + 2]]
                      /\ RecordError(recs[k]) = "none"
  <2> TAKE k \in 1..n
  <2>1. k \in 1..Len(A) /\ k \in Nat /\ 2 * k + 2 <= Len(fields) /\ k \in 1..Len(recs)
    BY <1>1, <1>3, <1>6, <1>8
  <2>2. recs[k] = RecordAt(fields, k)
    BY <2>1, <1>8
  <2>3. A[k].access \in Accesses \cup {"Deny"}
    BY <2>1, <1>2
  <2>4. /\ fields[2 * k + 1] = Verb(A[k].access)
        /\ fields[2 * k + 2] # <<>> /\ ~Contains(fields[2 * k + 2], Bad)
    BY <1>4
  <2>5. /\ RecordAt(fields, k) = [access |-> A[k].access, path |-> fields[2 * k + 2]]
        /\ RecordError(RecordAt(fields, k)) = "none"
    BY <2>1, <2>3, <2>4, RecordIsRight
  <2> QED BY <2>2, <2>5
<1>10. \A k \in 1..n : recs[k].access = A[k].access /\ recs[k].path = fields[2 * k + 2]
  <2> TAKE k \in 1..n
  <2> DEFINE r == [access |-> A[k].access, path |-> fields[2 * k + 2]]
  <2>1. r.access = A[k].access /\ r.path = fields[2 * k + 2]
    OBVIOUS
  <2>2. recs[k] = r
    BY <1>9
  <2> HIDE DEF r
  <2> QED BY <2>1, <2>2
<1>11. \A k \in 1..n : fields[2 * k + 2] = A[k].path => recs[k] = A[k]
  <2> TAKE k \in 1..n
  <2>1. k \in 1..Len(A)
    BY <1>1, <1>3
  <2> QED BY <2>1, <1>2, <1>9
<1> DEFINE X == {RecordAt(fields, k) : k \in 1..n}
<1>12. recs \in Seq(X)
  <2>1. \A k \in 1..n : RecordAt(fields, k) \in X
    OBVIOUS
  <2> HIDE DEF X
  <2>2. [k \in 1..n |-> RecordAt(fields, k)] \in Seq(X)
    BY <2>1, <1>6
  <2>3. recs = [k \in 1..n |-> RecordAt(fields, k)]
    BY <1>8, Zenon
  <2> QED BY <2>2, <2>3, Zenon
<1> HIDE DEF X
<1>13. n > 0 => n \in 1..n
  BY <1>6
<1>14. /\ n \in 0..Len(RecordsOf(asked)) /\ fields[1] = Magic /\ Len(fields) # 1
       /\ fields[2] = TierField(asked.network)
       /\ Records(fields) \in Seq(X) /\ Len(Records(fields)) = n
  BY <1>3, <1>6, <1>8, <1>12 DEF A, recs
<1>15. \A k \in 1..n : /\ Records(fields)[k].access = RecordsOf(asked)[k].access
                       /\ RecordError(Records(fields)[k]) = "none"
                       /\ k < n => Records(fields)[k] = RecordsOf(asked)[k]
  BY <1>4, <1>9, <1>10, <1>11 DEF A, recs
<1>16. n > 0 => IsPrefix(Records(fields)[n].path, RecordsOf(asked)[n].path)
  BY <1>5, <1>10, <1>13 DEF A, recs
<1>17. FirstRecordsOf(PolicyOf(fields), asked)
  BY <1>14, <1>15, <1>16, FirstRecords
<1>18. n = Len(RecordsOf(asked)) /\ (n > 0 => Records(fields)[n] = RecordsOf(asked)[n])
         => PolicyOf(fields) = asked
  BY <1>14, <1>15, <1>16, FirstRecords
<1>19. n > 0 /\ fields[2 * n + 2] = RecordsOf(asked)[n].path
         => Records(fields)[n] = RecordsOf(asked)[n]
  BY <1>11, <1>13 DEF A, recs
<1> QED BY <1>17, <1>18, <1>19

\* The start of a text with no bad byte has none.
LEMMA StartIsClean ==
    ASSUME NEW T, NEW s \in Seq(T), NEW t \in Seq(T), Len(s) <= Len(t),
           \A q \in 1..Len(s) : s[q] = t[q], ~Contains(t, Bad)
    PROVE  ~Contains(s, Bad)
BY DEF Contains

\* What a tier's word begins with is not another's.
LEMMA TierOfStart ==
    ASSUME NEW t \in Networks, NEW T, NEW r \in Seq(T), Len(r) <= Len(TierField(t)),
           \A q \in 1..Len(r) : r[q] = TierField(t)[q], TierOf(r) # "unknown"
    PROVE  r = TierField(t)
<1>1. PICK u \in Networks : r = TierField(u)
  BY TiersAre
<1>2. Len(TierField(u)) = 2
  BY DEF TierField, Networks
<1>3. TierField(u)[1] = TierField(t)[1]
  BY <1>1, <1>2
<1>4. u = t
  BY <1>3 DEF TierField, Networks
<1> QED BY <1>1, <1>4

\* What a program cut anywhere is read as.
LEMMA CutIs ==
    ASSUME NEW chars, Bad \notin chars, NEW asked \in WirePolicies(chars), NEW fields, NEW m, NEW r,
           FieldsOfCut(chars \cup WireBytes, fields, FieldsOf(asked), m, r),
           m = Len(FieldsOf(asked)) => r = <<>>
    PROVE  /\ "network" \in DOMAIN PolicyOf(fields) => FirstRecordsOf(PolicyOf(fields), asked)
           /\ m = Len(FieldsOf(asked)) => PolicyOf(fields) = asked
<1> DEFINE A == RecordsOf(asked)
           fs == FieldsOf(asked)
           T == chars \cup WireBytes
           N == Len(A)
<1>1. /\ asked.network \in Networks
      /\ N \in Nat
      /\ \A k \in 1..N : A[k].access \in Accesses \cup {"Deny"} /\ A[k].path \in WirePathsOver(chars)
  <2> DEFINE R == [access : Accesses \cup {"Deny"}, path : WirePathsOver(chars)]
  <2>1. A \in Seq(R) /\ asked.network \in Networks
    BY RecordsOfIs
  <2> HIDE DEF A, R
  <2>2. Len(A) \in Nat /\ \A k \in 1..Len(A) : A[k] \in R
    BY <2>1
  <2> QED BY <2>1, <2>2 DEF R
<1>2. fs \in Seq(Seq(T)) /\ FieldsFor(asked, fs)
  BY FieldsAre
<1>3. /\ Len(fs) = 2 * N + 2 /\ fs[1] = Magic /\ fs[2] = TierField(asked.network)
      /\ \A k \in 1..N : fs[2 * k + 1] = Verb(A[k].access) /\ fs[2 * k + 2] = A[k].path
  BY <1>2 DEF FieldsFor
<1> HIDE DEF A, fs, T
<1>4. /\ m \in 0..Len(fs) /\ r \in Seq(T)
      /\ fields \in Seq(Seq(T)) /\ Len(fields) = m + 1
      /\ \A k \in 1..m : fields[k] = fs[k]
      /\ fields[m + 1] = r
      /\ m < Len(fs) => Len(r) <= Len(fs[m + 1]) /\ \A q \in 1..Len(r) : r[q] = fs[m + 1][q]
  BY DEF FieldsOfCut, fs, T
<1>5. m = Len(fs) => r = <<>>
  BY DEF fs
<1> HIDE DEF N
<1>6. \A k \in 1..N : /\ Verb(A[k].access) # <<>>
                      /\ A[k].path # <<>> /\ ~Contains(A[k].path, Bad) /\ A[k].path \in Seq(chars)
  BY <1>1, WordsApart, WirePathIs
<1>7. \A k \in 1..N : 2 * k + 1 <= m => /\ fields[2 * k + 1] = Verb(A[k].access)
                                        /\ fields[2 * k + 1] # <<>>
  <2> TAKE k \in 1..N
  <2> HAVE 2 * k + 1 <= m
  <2>1. 2 * k + 1 \in 1..m
    BY <1>1, <1>4
  <2> QED BY <2>1, <1>3, <1>4, <1>6
<1>8. \A k \in 1..N : 2 * k + 2 <= m => /\ fields[2 * k + 2] = A[k].path
                                        /\ fields[2 * k + 2] # <<>>
                                        /\ ~Contains(fields[2 * k + 2], Bad)
  <2> TAKE k \in 1..N
  <2> HAVE 2 * k + 2 <= m
  <2>1. 2 * k + 2 \in 1..m
    BY <1>1, <1>4
  <2> QED BY <2>1, <1>3, <1>4, <1>6
<1>9. CASE m = 0
  <2>1. Len(fields) = 1 /\ Len(fs) # 0
    BY <1>1, <1>3, <1>4, <1>9
  <2> QED BY <2>1, <1>9, WrongIsRefused DEF fs
<1>10. CASE m = 1
  <2>1. /\ fields[1] = Magic /\ fields[2] = r /\ Len(fields) = 2 /\ m # Len(fs) /\ m < Len(fs)
        /\ Len(r) <= Len(TierField(asked.network))
        /\ \A q \in 1..Len(r) : r[q] = TierField(asked.network)[q]
    BY <1>1, <1>3, <1>4, <1>10
  <2>2. CASE TierOf(r) = "unknown"
    BY <2>1, <2>2, WrongIsRefused DEF fs
  <2>3. CASE TierOf(r) # "unknown"
    <3>1. r = TierField(asked.network)
      BY <2>1, <2>3, <1>1, <1>4, TierOfStart
    <3>2. BeginningOf(asked, fields, 0)
      BY <2>1, <3>1, <1>1 DEF BeginningOf, A, N
    <3> QED BY <2>1, <3>2, <1>4, BeginningIs DEF fs
  <2> QED BY <2>2, <2>3
<1>11. CASE m >= 2
  <2>1. fields[1] = Magic /\ fields[2] = TierField(asked.network)
    BY <1>3, <1>4, <1>11
  <2>2. PICK n \in 0..N : m = 2 * n + 2 \/ (m = 2 * n + 3 /\ n < N)
    <3>1. m \in Nat /\ m <= 2 * N + 2
      BY <1>1, <1>3, <1>4
    <3>2. CASE m % 2 = 0
      <4>1. m = 2 * (m \div 2 - 1) + 2 /\ m \div 2 - 1 \in 0..N
        BY <3>1, <3>2, <1>1, <1>11
      <4> QED BY <4>1
    <3>3. CASE m % 2 = 1
      <4>1. m = 2 * (m \div 2 - 1) + 3 /\ m \div 2 - 1 \in 0..N /\ m \div 2 - 1 < N
        BY <3>1, <3>3, <1>1, <1>11
      <4> QED BY <4>1
    <3> QED BY <3>1, <3>2, <3>3
  <2>3. n \in Nat
    BY <2>2, <1>1
  <2>4. CASE m = 2 * n + 2 /\ r = <<>>
    <3>1. \A k \in 1..n : k \in 1..N /\ 2 * k + 1 <= m /\ 2 * k + 2 <= m
      BY <2>2, <2>3, <2>4, <1>1
    <3>2. fields[2 * n + 3] = <<>> /\ 2 * n + 2 <= Len(fields)
      BY <2>3, <2>4, <1>4
    <3>3. n > 0 => n \in 1..n
      BY <2>3
    <3>4. n > 0 => /\ fields[2 * n + 2] = A[n].path
                   /\ IsPrefix(fields[2 * n + 2], A[n].path)
      <4> SUFFICES ASSUME n > 0 PROVE fields[2 * n + 2] = A[n].path
                                      /\ IsPrefix(fields[2 * n + 2], A[n].path)
        OBVIOUS
      <4>1. fields[2 * n + 2] = A[n].path /\ A[n].path \in Seq(chars)
        BY <3>1, <3>3, <1>6, <1>8
      <4>2. IsPrefix(A[n].path, A[n].path)
        BY <4>1, PrefixIs
      <4> QED BY <4>1, <4>2
    <3>5. \A k \in 1..n : /\ fields[2 * k + 1] = Verb(A[k].access)
                          /\ fields[2 * k + 2] # <<>> /\ ~Contains(fields[2 * k + 2], Bad)
                          /\ k < n => fields[2 * k + 2] = A[k].path
      BY <3>1, <1>7, <1>8
    <3>6. BeginningOf(asked, fields, n)
      BY <2>1, <2>2, <3>2, <3>4, <3>5 DEF BeginningOf, A, N
    <3>7. FirstRecordsOf(PolicyOf(fields), asked)
      BY <3>6, <1>4, BeginningIs
    <3>8. n = Len(RecordsOf(asked)) /\ (n > 0 => fields[2 * n + 2] = RecordsOf(asked)[n].path)
            => PolicyOf(fields) = asked
      BY <3>6, <1>4, BeginningIs
    <3>9. m = Len(fs) => n = N
      BY <2>3, <2>4, <1>1, <1>3
    <3> QED BY <3>4, <3>7, <3>8, <3>9 DEF fs, A, N
  <2>5. CASE m = 2 * n + 2 /\ r # <<>>
    <3>1. m # Len(fs) /\ n + 1 \in Nat /\ n + 1 >= 1 /\ 2 * (n + 1) + 2 > Len(fields)
      BY <2>3, <2>5, <1>4, <1>5
    <3>2. ASSUME NEW k \in 1..n + 1
          PROVE  2 * k + 1 <= Len(fields) /\ fields[2 * k + 1] # <<>>
      <4>1. CASE k = n + 1
        <5>1. 2 * k + 1 = m + 1
          BY <4>1, <2>3, <2>5
        <5>2. fields[2 * k + 1] = r /\ Len(fields) = m + 1
          BY <5>1, <1>4, Zenon
        <5>3. m \in Nat
          BY <2>3, <2>5
        <5> QED BY <5>1, <5>2, <5>3, <2>5
      <4>2. CASE k # n + 1
        <5>1. k \in 1..N /\ 2 * k + 1 <= m
          BY <4>2, <2>2, <2>3, <2>5, <1>1
        <5> QED BY <5>1, <1>4, <1>7
      <4> QED BY <4>1, <4>2
    <3>3. "network" \notin DOMAIN PolicyOf(fields)
      BY <3>1, <3>2, <1>4, RecordIsWrong
    <3> QED BY <3>1, <3>3 DEF fs
  <2>6. CASE m = 2 * n + 3 /\ n < N
    <3>1. /\ m # Len(fs) /\ m < Len(fs) /\ n + 1 \in 1..N /\ n + 1 \in Nat /\ n + 1 >= 1
          /\ Len(fields) = 2 * (n + 1) + 2 /\ 2 * (n + 1) + 1 = m /\ 2 * (n + 1) + 2 = m + 1
      <4>1. N \in Nat /\ Len(fs) = 2 * N + 2 /\ Len(fields) = m + 1
        BY <1>1, <1>3, <1>4
      <4> QED BY <4>1, <2>3, <2>6
    <3>2. fields[2 * (n + 1) + 2] = r /\ fs[m + 1] = A[n + 1].path
      BY <3>1, <1>3, <1>4
    <3>3. \A k \in 1..n + 1 : k \in 1..N /\ 2 * k + 1 <= m
      <4> TAKE k \in 1..n + 1
      <4>1. k \in Nat /\ 1 <= k /\ k <= n + 1 /\ n + 1 <= N
        BY <3>1, <2>3
      <4> QED BY <4>1, <2>3, <2>6, <1>1
    <3>4. \A k \in 1..n + 1 : 2 * k + 1 <= Len(fields) /\ fields[2 * k + 1] # <<>>
      <4> TAKE k \in 1..n + 1
      <4>1. k \in 1..N /\ 2 * k + 1 <= m /\ fields[2 * k + 1] # <<>>
        BY <3>3, <1>7
      <4>2. Len(fields) = m + 1 /\ m \in Nat
        BY <3>1, <2>3, <2>6, <1>4
      <4> QED BY <4>1, <4>2
    <3>5. CASE r = <<>>
      <4>1. fields[2 * (n + 1) + 2] = <<>>
        BY <3>2, <3>5
      <4>2. "network" \notin DOMAIN PolicyOf(fields)
        BY <3>1, <3>4, <4>1, <1>4, RecordIsWrong
      <4> QED BY <3>1, <4>2 DEF fs
    <3>6. CASE r # <<>>
      <4>1. Len(r) <= Len(A[n + 1].path) /\ \A q \in 1..Len(r) : r[q] = A[n + 1].path[q]
        BY <3>1, <3>2, <1>4
      <4>2. A[n + 1].path \in Seq(T) /\ ~Contains(A[n + 1].path, Bad)
        <5>1. A[n + 1].path \in Seq(chars) /\ ~Contains(A[n + 1].path, Bad)
          BY <3>1, <1>6
        <5>2. chars \subseteq T
          BY DEF T
        <5> QED BY <5>1, <5>2, Wider
      <4>3. ~Contains(r, Bad)
        BY <4>1, <4>2, <1>4, StartIsClean
      <4>4. IsPrefix(r, A[n + 1].path)
        BY <4>1, <4>2, <1>4, PrefixIs
      <4>5. ASSUME NEW k \in 1..n + 1
            PROVE  /\ fields[2 * k + 1] = Verb(A[k].access)
                   /\ fields[2 * k + 2] # <<>> /\ ~Contains(fields[2 * k + 2], Bad)
                   /\ k < n + 1 => fields[2 * k + 2] = A[k].path
        <5>1. fields[2 * k + 1] = Verb(A[k].access)
          BY <3>3, <1>7
        <5>2. CASE k = n + 1
          BY <5>1, <5>2, <3>2, <3>6, <4>3, <2>3
        <5>3. CASE k # n + 1
          <6>1. k \in 1..N /\ 2 * k + 2 <= m
            BY <5>3, <3>1, <3>3, <2>3, <2>6
          <6> QED BY <5>1, <6>1, <1>8
        <5> QED BY <5>2, <5>3
      <4>6. /\ n + 1 \in 0..N /\ 2 * (n + 1) + 2 <= Len(fields)
            /\ 2 * (n + 1) + 3 > Len(fields)
            /\ IsPrefix(fields[2 * (n + 1) + 2], A[n + 1].path)
        BY <3>1, <3>2, <4>4, <2>3
      <4>7. BeginningOf(asked, fields, n + 1)
        BY <4>5, <4>6, <2>1 DEF BeginningOf, A, N
      <4> QED BY <3>1, <4>7, <1>4, BeginningIs DEF fs
    <3> QED BY <3>5, <3>6
  <2> QED BY <2>2, <2>4, <2>5, <2>6
<1>12. m \in Nat
  BY <1>1, <1>3, <1>4
<1> QED BY <1>9, <1>10, <1>11, <1>12

\* Joined fields are a row of bytes and delimiters.
LEMMA JoinedIs ==
    ASSUME NEW T, NEW fs \in Seq(Seq(T)) PROVE Joined(fs) \in Seq(T \cup {NUL})
<1> DEFINE U == T \cup {NUL}
           s == [k \in 1..Len(fs) |-> Append(fs[k], NUL)]
<1>1. s \in Seq(Seq(U))
  <2>1. ASSUME NEW k \in 1..Len(fs) PROVE Append(fs[k], NUL) \in Seq(U)
    <3>1. fs[k] \in Seq(T)
      OBVIOUS
    <3>2. T \subseteq U /\ NUL \in U
      OBVIOUS
    <3> HIDE DEF U
    <3>3. fs[k] \in Seq(U)
      BY <3>1, <3>2, Wider
    <3> QED BY <3>2, <3>3
  <2>2. Len(fs) \in Nat
    OBVIOUS
  <2> HIDE DEF U
  <2> QED BY <2>1, <2>2
<1> HIDE DEF s
<1>2. \E at : Laid(U, s, Len(s), at, FlattenSeq(s))
  BY <1>1, FlatAt
<1>3. FlattenSeq(s) \in Seq(U)
  BY <1>2 DEF Laid
<1> QED BY <1>3 DEF s, Joined

\* A row of whole fields comes apart into them and an empty one.
LEMMA WholeComesApart ==
    ASSUME NEW T, NUL \notin T, NEW fs \in Seq(Seq(T))
    PROVE  FieldsOfCut(T, Split(Joined(fs)), fs, Len(fs), <<>>)
<1> DEFINE row == Joined(fs)
           c == Len(row)
<1>1. row \in Seq(T \cup {NUL})
  BY JoinedIs
<1> HIDE DEF row
<1>2. c \in 0..Len(row) /\ SubSeq(row, 1, c) = row
  BY <1>1
<1>3. PICK m, r : /\ FieldsOfCut(T, Split(SubSeq(row, 1, c)), fs, m, r)
                  /\ c = Len(row) => m = Len(fs) /\ r = <<>>
  <2>1. c \in 0..Len(Joined(fs))
    BY <1>2 DEF row
  <2> HIDE DEF c
  <2> QED BY <2>1, CutComesApart DEF row
<1> QED BY <1>2, <1>3 DEF row

\* What the fields of a policy have in them.
LEMMA FieldsHold ==
    ASSUME NEW chars, Bad \notin chars, NEW asked \in WirePolicies(chars)
    PROVE  /\ asked.network \in Networks /\ Len(RecordsOf(asked)) \in Nat
           /\ Len(FieldsOf(asked)) = 2 * Len(RecordsOf(asked)) + 2
           /\ FieldsOf(asked) \in Seq(Seq(chars \cup WireBytes))
           /\ FieldsOf(asked)[1] = Magic /\ FieldsOf(asked)[2] = TierField(asked.network)
           /\ \A k \in 1..Len(RecordsOf(asked)) :
                /\ FieldsOf(asked)[2 * k + 1] # <<>> /\ FieldsOf(asked)[2 * k + 2] # <<>>
                /\ TierOf(FieldsOf(asked)[2 * k + 1]) = "unknown"
                /\ Asked(FieldsOf(asked)[2 * k + 2]) = "unknown"
                /\ Asked(Append(FieldsOf(asked)[2 * k + 1], Bad)) = "unknown"
<1> DEFINE A == RecordsOf(asked)
           fs == FieldsOf(asked)
           T == chars \cup WireBytes
           N == Len(A)
<1>1. /\ asked.network \in Networks
      /\ N \in Nat
      /\ \A k \in 1..N : A[k].access \in Accesses \cup {"Deny"} /\ A[k].path \in WirePathsOver(chars)
  <2> DEFINE R == [access : Accesses \cup {"Deny"}, path : WirePathsOver(chars)]
  <2>1. A \in Seq(R) /\ asked.network \in Networks
    BY RecordsOfIs
  <2> HIDE DEF A, R
  <2>2. Len(A) \in Nat /\ \A k \in 1..Len(A) : A[k] \in R
    BY <2>1
  <2> QED BY <2>1, <2>2 DEF R
<1>2. fs \in Seq(Seq(T)) /\ FieldsFor(asked, fs)
  BY FieldsAre
<1>3. /\ Len(fs) = 2 * N + 2 /\ fs[1] = Magic /\ fs[2] = TierField(asked.network)
      /\ \A k \in 1..N : fs[2 * k + 1] = Verb(A[k].access) /\ fs[2 * k + 2] = A[k].path
  BY <1>2 DEF FieldsFor
<1> HIDE DEF A, fs, T, N
<1>4. \A k \in 1..N : \E a \in Accesses \cup {"Deny"}, path \in WirePathsOver(chars) :
                        fs[2 * k + 1] = Verb(a) /\ fs[2 * k + 2] = path
  BY <1>1, <1>3
<1>5. \A k \in 1..N : /\ fs[2 * k + 1] # <<>> /\ fs[2 * k + 2] # <<>>
                      /\ TierOf(fs[2 * k + 1]) = "unknown" /\ Asked(fs[2 * k + 2]) = "unknown"
                      /\ Asked(Append(fs[2 * k + 1], Bad)) = "unknown"
  <2> TAKE k \in 1..N
  <2>1. PICK a \in Accesses \cup {"Deny"}, path \in WirePathsOver(chars) :
          fs[2 * k + 1] = Verb(a) /\ fs[2 * k + 2] = path
    BY <1>4
  <2>2. Verb(a) # <<>> /\ TierOf(Verb(a)) = "unknown" /\ Asked(Append(Verb(a), Bad)) = "unknown"
    BY WordsApart
  <2>3. path # <<>> /\ Asked(path) = "unknown"
    BY WirePathIs
  <2> QED BY <2>1, <2>2, <2>3
<1> QED BY <1>1, <1>2, <1>3, <1>5 DEF A, fs, T, N

\* Where a field of a policy may be.
LEMMA PlaceOf ==
    ASSUME NEW N \in Nat, NEW j \in 1..2 * N + 2
    PROVE  \/ j = 1
           \/ j = 2
           \/ \E k \in 1..N : j = 2 * k + 1
           \/ \E k \in 1..N : j = 2 * k + 2
<1>1. j \in Nat /\ 1 <= j /\ j <= 2 * N + 2
  OBVIOUS
<1>2. CASE j > 2 /\ j % 2 = 1
  <2>1. j \div 2 \in 1..N /\ j = 2 * (j \div 2) + 1
    BY <1>1, <1>2
  <2> QED BY <2>1
<1>3. CASE j > 2 /\ j % 2 = 0
  <2>1. j \div 2 - 1 \in 1..N /\ j = 2 * (j \div 2 - 1) + 2
    BY <1>1, <1>3
  <2> QED BY <2>1
<1> QED BY <1>1, <1>2, <1>3

\* A program that lacks one field.
LEMMA LostIsRefused ==
    ASSUME NEW chars, Bad \notin chars, NEW asked \in WirePolicies(chars),
           NEW j \in 1..Len(FieldsOf(asked)),
           NEW T, NEW fields \in Seq(Seq(T)), Len(fields) = Len(FieldsOf(asked)),
           \A k \in 1..Len(fields) - 1 :
             fields[k] = FieldsOf(asked)[IF k < j THEN k ELSE k + 1],
           fields[Len(fields)] = <<>>
    PROVE  "network" \notin DOMAIN PolicyOf(fields)
<1> DEFINE fs == FieldsOf(asked)
           N == Len(RecordsOf(asked))
<1>1. /\ asked.network \in Networks /\ N \in Nat /\ Len(fs) = 2 * N + 2
      /\ fs[1] = Magic /\ fs[2] = TierField(asked.network)
      /\ \A k \in 1..N : /\ fs[2 * k + 1] # <<>> /\ fs[2 * k + 2] # <<>>
                         /\ TierOf(fs[2 * k + 1]) = "unknown" /\ Asked(fs[2 * k + 2]) = "unknown"
  BY FieldsHold
<1>2. /\ Len(fields) = 2 * N + 2 /\ fields[2 * N + 2] = <<>>
      /\ j \in 1..2 * N + 2
      /\ \A k \in 1..2 * N + 1 : fields[k] = fs[IF k < j THEN k ELSE k + 1]
  <2>1. Len(fields) - 1 = 2 * N + 1 /\ Len(fields) = 2 * N + 2
    BY <1>1
  <2> QED BY <2>1, <1>1
<1> HIDE DEF fs, N
<1>3. \A k \in 1..2 * N + 1 : k < j => fields[k] = fs[k]
  BY <1>2
<1>4. \A k \in 1..2 * N + 1 : ~(k < j) => fields[k] = fs[k + 1]
  BY <1>2
<1>5. CASE j = 1
  <2>1. 1 \in 1..2 * N + 1 /\ ~(1 < j) /\ 1 + 1 = 2
    BY <1>1, <1>5
  <2>2. fields[1] = TierField(asked.network)
    BY <2>1, <1>1, <1>4
  <2> QED BY <2>2, <1>1, WordsApart, WrongIsRefused
<1>6. CASE j = 2
  <2>1. TierOf(fields[2]) = "unknown"
    <3>1. CASE N = 0
      <4>1. 2 * N + 2 = 2
        BY <3>1
      <4> QED BY <4>1, <1>2, WordsApart
    <3>2. CASE N # 0
      <4>1. 1 \in 1..N /\ 2 \in 1..2 * N + 1 /\ ~(2 < j) /\ 2 * 1 + 1 = 3 /\ 2 + 1 = 3
        BY <3>2, <1>1, <1>6
      <4>2. fields[2] = fs[3] /\ TierOf(fs[3]) = "unknown"
        BY <4>1, <1>1, <1>4
      <4> QED BY <4>2
    <3> QED BY <3>1, <3>2
  <2> QED BY <2>1, WrongIsRefused
<1>7. ASSUME NEW K \in 1..N, j = 2 * K + 1 PROVE "network" \notin DOMAIN PolicyOf(fields)
  <2>1. K \in Nat /\ K >= 1
    BY <1>1
  <2>2. fields[2 * K + 1] = fs[2 * K + 2]
    <3>1. 2 * K + 1 \in 1..2 * N + 1 /\ ~(2 * K + 1 < j) /\ 2 * K + 1 + 1 = 2 * K + 2
      BY <1>1, <1>7
    <3> QED BY <3>1, <1>4
  <2>3. ASSUME NEW k \in 1..K PROVE 2 * k + 1 <= Len(fields) /\ fields[2 * k + 1] # <<>>
    <3>1. k \in 1..N /\ 2 * k + 1 \in 1..2 * N + 1 /\ 2 * k + 1 <= Len(fields)
      BY <1>1, <1>2
    <3>2. CASE k = K
      BY <3>1, <3>2, <2>2, <1>1
    <3>3. CASE k # K
      <4>1. 2 * k + 1 < j
        BY <3>3, <1>1, <1>7
      <4> QED BY <3>1, <4>1, <1>1, <1>3
    <3> QED BY <3>2, <3>3
  <2>4. Asked(fields[2 * K + 1]) = "unknown"
    BY <2>2, <1>1
  <2> QED BY <2>1, <2>3, <2>4, RecordIsWrong
<1>8. ASSUME NEW K \in 1..N, j = 2 * K + 2 PROVE "network" \notin DOMAIN PolicyOf(fields)
  <2>1. K \in Nat /\ K >= 1 /\ K <= N
    BY <1>1
  <2>2. ASSUME NEW k \in 1..K PROVE 2 * k + 1 <= Len(fields) /\ fields[2 * k + 1] # <<>>
    <3>1. k \in 1..N /\ 2 * k + 1 \in 1..2 * N + 1 /\ 2 * k + 1 <= Len(fields) /\ 2 * k + 1 < j
      BY <1>1, <1>2, <1>8, SMTT(40)
    <3> QED BY <3>1, <1>1, <1>3
  <2>3. CASE K = N
    <3>1. fields[2 * K + 2] = <<>>
      BY <2>3, <1>2
    <3> QED BY <2>1, <2>2, <3>1, RecordIsWrong
  <2>4. CASE K # N
    <3>1. K + 1 \in 1..N /\ K + 1 \in Nat /\ K + 1 >= 1
      BY <2>1, <2>4, <1>1
    <3>2. fields[2 * (K + 1) + 1] = fs[2 * (K + 1) + 2] /\ 2 * (K + 1) + 1 <= Len(fields)
      <4>1. /\ 2 * (K + 1) + 1 \in 1..2 * N + 1 /\ ~(2 * (K + 1) + 1 < j)
            /\ 2 * (K + 1) + 1 + 1 = 2 * (K + 1) + 2
        BY <2>1, <2>4, <1>1, <1>8
      <4> QED BY <4>1, <1>1, <1>2, <1>4
    <3>3. ASSUME NEW k \in 1..K + 1 PROVE 2 * k + 1 <= Len(fields) /\ fields[2 * k + 1] # <<>>
      <4>1. CASE k = K + 1
        BY <4>1, <3>1, <3>2, <1>1
      <4>2. CASE k # K + 1
        <5>1. k \in 1..K
          BY <4>2, <2>1
        <5> QED BY <5>1, <2>2
      <4> QED BY <4>1, <4>2
    <3>4. Asked(fields[2 * (K + 1) + 1]) = "unknown"
      BY <3>1, <3>2, <1>1
    <3> QED BY <3>1, <3>3, <3>4, RecordIsWrong
  <2> QED BY <2>3, <2>4
<1>9. \/ j = 1
      \/ j = 2
      \/ \E k \in 1..N : j = 2 * k + 1
      \/ \E k \in 1..N : j = 2 * k + 2
  BY <1>1, <1>2, PlaceOf
<1> QED BY <1>5, <1>6, <1>7, <1>8, <1>9

\* A program that has one field twice.
LEMMA RepeatedIsRefused ==
    ASSUME NEW chars, Bad \notin chars, NEW asked \in WirePolicies(chars),
           NEW j \in 1..Len(FieldsOf(asked)),
           NEW T, NEW fields \in Seq(Seq(T)), Len(fields) = Len(FieldsOf(asked)) + 2,
           \A k \in 1..Len(fields) - 1 :
             fields[k] = FieldsOf(asked)[IF k <= j THEN k ELSE k - 1]
    PROVE  "network" \notin DOMAIN PolicyOf(fields)
<1> DEFINE fs == FieldsOf(asked)
           N == Len(RecordsOf(asked))
<1>1. /\ asked.network \in Networks /\ N \in Nat /\ Len(fs) = 2 * N + 2
      /\ fs[1] = Magic /\ fs[2] = TierField(asked.network)
      /\ \A k \in 1..N : /\ fs[2 * k + 1] # <<>> /\ fs[2 * k + 2] # <<>>
                         /\ Asked(fs[2 * k + 2]) = "unknown"
  BY FieldsHold
<1>2. /\ Len(fields) = 2 * N + 4
      /\ j \in 1..2 * N + 2
      /\ \A k \in 1..2 * N + 3 : fields[k] = fs[IF k <= j THEN k ELSE k - 1]
  <2>1. Len(fields) - 1 = 2 * N + 3 /\ Len(fields) = 2 * N + 4
    BY <1>1
  <2> QED BY <2>1, <1>1
<1> HIDE DEF fs, N
<1>3. \A k \in 1..2 * N + 3 : k <= j => fields[k] = fs[k]
  BY <1>2
<1>4. \A k \in 1..2 * N + 3 : ~(k <= j) => fields[k] = fs[k - 1]
  BY <1>2
<1>5. CASE j = 1
  <2>1. 2 \in 1..2 * N + 3 /\ ~(2 <= j) /\ 2 - 1 = 1
    BY <1>1, <1>5
  <2>2. fields[2] = Magic
    BY <2>1, <1>1, <1>4
  <2> QED BY <2>2, <1>1, WordsApart, WrongIsRefused
<1>6. CASE j = 2
  <2>1. 3 \in 1..2 * N + 3 /\ ~(3 <= j) /\ 3 - 1 = 2 /\ 3 <= Len(fields)
    BY <1>1, <1>2, <1>6
  <2>2. fields[3] = TierField(asked.network)
    BY <2>1, <1>1, <1>4
  <2>3. Asked(fields[3]) = "unknown" /\ fields[3] # <<>>
    BY <2>2, <1>1, WordsApart
  <2>4. 1 \in Nat /\ 1 >= 1 /\ Asked(fields[2 * 1 + 1]) = "unknown"
    BY <2>3
  <2>5. \A k \in 1..1 : 2 * k + 1 <= Len(fields) /\ fields[2 * k + 1] # <<>>
    BY <2>1, <2>3
  <2> QED BY <2>4, <2>5, RecordIsWrong
<1>7. ASSUME NEW K \in 1..N, j = 2 * K + 1 \/ j = 2 * K + 2
      PROVE  "network" \notin DOMAIN PolicyOf(fields)
  <2>1. K \in Nat /\ K + 1 \in Nat /\ K + 1 >= 1 /\ K <= N
    BY <1>1
  <2>2. fields[2 * (K + 1) + 1] = fs[2 * K + 2] /\ 2 * (K + 1) + 1 <= Len(fields)
    <3>1. /\ 2 * (K + 1) + 1 \in 1..2 * N + 3 /\ ~(2 * (K + 1) + 1 <= j)
          /\ 2 * (K + 1) + 1 - 1 = 2 * K + 2
      <4>1. N \in Nat /\ j \in Nat /\ j <= 2 * K + 2
        BY <2>1, <1>1, <1>7, SMTT(40)
      <4> QED BY <4>1, <2>1
    <3>2. fields[2 * (K + 1) + 1] = fs[2 * (K + 1) + 1 - 1]
      BY <3>1, <1>4
    <3> QED BY <3>1, <3>2, <1>1, <1>2
  <2>3. ASSUME NEW k \in 1..K + 1 PROVE 2 * k + 1 <= Len(fields) /\ fields[2 * k + 1] # <<>>
    <3>1. CASE k = K + 1
      BY <3>1, <2>2, <1>1
    <3>2. CASE k # K + 1
      <4>1. k \in 1..N /\ 2 * k + 1 \in 1..2 * N + 3 /\ 2 * k + 1 <= j /\ 2 * k + 1 <= Len(fields)
        BY <3>2, <2>1, <1>1, <1>2, <1>7, SMTT(40)
      <4> QED BY <4>1, <1>1, <1>3
    <3> QED BY <3>1, <3>2
  <2>4. Asked(fields[2 * (K + 1) + 1]) = "unknown"
    BY <2>2, <1>1
  <2> QED BY <2>1, <2>3, <2>4, RecordIsWrong
<1>8. \/ j = 1
      \/ j = 2
      \/ \E k \in 1..N : j = 2 * k + 1
      \/ \E k \in 1..N : j = 2 * k + 2
  BY <1>1, <1>2, PlaceOf
<1> QED BY <1>5, <1>6, <1>7, <1>8

\* A program with a bad byte after one field.
LEMMA SpoiltIsRefused ==
    ASSUME NEW chars, Bad \notin chars, NEW asked \in WirePolicies(chars),
           NEW j \in 1..Len(FieldsOf(asked)),
           NEW T, NEW fields \in Seq(Seq(T)), Len(fields) = Len(FieldsOf(asked)) + 1,
           \A k \in 1..Len(fields) - 1 :
             fields[k] = IF k = j THEN Append(FieldsOf(asked)[k], Bad) ELSE FieldsOf(asked)[k]
    PROVE  "network" \notin DOMAIN PolicyOf(fields)
<1> DEFINE fs == FieldsOf(asked)
           N == Len(RecordsOf(asked))
<1>1. /\ asked.network \in Networks /\ N \in Nat /\ Len(fs) = 2 * N + 2
      /\ fs \in Seq(Seq(chars \cup WireBytes))
      /\ fs[1] = Magic /\ fs[2] = TierField(asked.network)
      /\ \A k \in 1..N : /\ fs[2 * k + 1] # <<>> /\ fs[2 * k + 2] # <<>>
                         /\ Asked(Append(fs[2 * k + 1], Bad)) = "unknown"
  BY FieldsHold
<1>2. /\ Len(fields) = 2 * N + 3
      /\ j \in 1..2 * N + 2
      /\ \A k \in 1..2 * N + 2 : fields[k] = IF k = j THEN Append(fs[k], Bad) ELSE fs[k]
  <2>1. Len(fields) - 1 = 2 * N + 2 /\ Len(fields) = 2 * N + 3
    BY <1>1
  <2> QED BY <2>1, <1>1
<1> HIDE DEF fs, N
<1>3. \A k \in 1..2 * N + 2 : k # j => fields[k] = fs[k]
  BY <1>2
<1>4. fields[j] = Append(fs[j], Bad)
  BY <1>2
<1>5. fs[j] \in Seq(chars \cup WireBytes)
  BY <1>1, <1>2
<1>6. Append(fs[j], Bad) # <<>> /\ Contains(Append(fs[j], Bad), Bad)
  <2>1. /\ Len(Append(fs[j], Bad)) = Len(fs[j]) + 1 /\ Append(fs[j], Bad)[Len(fs[j]) + 1] = Bad
        /\ Len(fs[j]) \in Nat
    BY <1>5
  <2>2. Len(fs[j]) + 1 \in 1..Len(Append(fs[j], Bad))
    BY <2>1
  <2>3. Len(Append(fs[j], Bad)) # 0
    BY <2>1
  <2>4. Append(fs[j], Bad) # <<>>
    <3>1. Len(<<>>) = 0
      OBVIOUS
    <3> QED BY <2>3, <3>1, Zenon
  <2>5. \E q \in 1..Len(Append(fs[j], Bad)) : Append(fs[j], Bad)[q] = Bad
    BY <2>1, <2>2, Zenon
  <2> QED BY <2>4, <2>5 DEF Contains
<1>7. \A k \in 1..N : 2 * k + 1 <= Len(fields) /\ fields[2 * k + 1] # <<>>
  <2> TAKE k \in 1..N
  <2>1. 2 * k + 1 \in 1..2 * N + 2 /\ 2 * k + 1 <= Len(fields)
    BY <1>1, <1>2
  <2>2. CASE 2 * k + 1 = j
    BY <2>1, <2>2, <1>4, <1>6
  <2>3. CASE 2 * k + 1 # j
    BY <2>1, <2>3, <1>1, <1>3
  <2> QED BY <2>1, <2>2, <2>3
<1>8. CASE j = 1
  BY <1>1, <1>4, <1>8, WordsApart, WrongIsRefused
<1>9. CASE j = 2
  BY <1>1, <1>4, <1>9, WordsApart, WrongIsRefused
<1>10. ASSUME NEW K \in 1..N, j = 2 * K + 1 \/ j = 2 * K + 2
       PROVE  "network" \notin DOMAIN PolicyOf(fields)
  <2>1. K \in Nat /\ K >= 1 /\ \A k \in 1..K : k \in 1..N
    BY <1>1
  <2>2. \A k \in 1..K : 2 * k + 1 <= Len(fields) /\ fields[2 * k + 1] # <<>>
    BY <2>1, <1>7
  <2>3. CASE j = 2 * K + 1
    <3>1. Asked(fields[2 * K + 1]) = "unknown"
      BY <2>3, <1>1, <1>4
    <3> QED BY <2>1, <2>2, <3>1, RecordIsWrong
  <2>4. CASE j = 2 * K + 2
    <3>1. Contains(fields[2 * K + 2], Bad)
      BY <2>4, <1>4, <1>6
    <3> QED BY <2>1, <2>2, <3>1, RecordIsWrong
  <2> QED BY <2>3, <2>4, <1>10
<1>11. \/ j = 1
       \/ j = 2
       \/ \E k \in 1..N : j = 2 * k + 1
       \/ \E k \in 1..N : j = 2 * k + 2
  BY <1>1, <1>2, PlaceOf
<1> QED BY <1>8, <1>9, <1>10, <1>11

\* A field less, a field more and a field changed.
LEMMA RemoveAtIs ==
    ASSUME NEW X, NEW s \in Seq(X), NEW j \in 1..Len(s)
    PROVE  /\ RemoveAt(s, j) \in Seq(X) /\ Len(RemoveAt(s, j)) = Len(s) - 1
           /\ \A k \in 1..Len(s) - 1 : RemoveAt(s, j)[k] = s[IF k < j THEN k ELSE k + 1]
<1> DEFINE P == SubSeq(s, 1, j - 1)
           Q == SubSeq(s, j + 1, Len(s))
<1>1. j \in Nat /\ 1 <= j /\ j <= Len(s) /\ Len(s) \in Nat /\ j - 1 \in Nat
  OBVIOUS
<1>2. P \in Seq(X) /\ Len(P) = j - 1 /\ \A q \in 1..j - 1 : P[q] = s[q]
  BY <1>1
<1>3. Q \in Seq(X) /\ Len(Q) = Len(s) - j /\ \A q \in 1..Len(s) - j : Q[q] = s[j + q]
  BY <1>1
<1>4. RemoveAt(s, j) = P \o Q
  BY DEF RemoveAt
<1> HIDE DEF P, Q
<1>5. P \o Q \in Seq(X) /\ Len(P \o Q) = Len(P) + Len(Q)
  BY <1>2, <1>3, InARow
<1>6. \A k \in 1..Len(P) : (P \o Q)[k] = P[k]
  BY <1>2, <1>3, InARow
<1>7. \A k \in 1..Len(Q) : (P \o Q)[Len(P) + k] = Q[k]
  BY <1>2, <1>3, InARow
<1>8. Len(P \o Q) = Len(s) - 1
  BY <1>1, <1>2, <1>3, <1>5
<1>9. \A k \in 1..Len(s) - 1 : (P \o Q)[k] = s[IF k < j THEN k ELSE k + 1]
  <2> TAKE k \in 1..Len(s) - 1
  <2>1. CASE k < j
    <3>1. k \in 1..j - 1
      BY <2>1, <1>1
    <3> QED BY <3>1, <2>1, <1>2, <1>6
  <2>2. CASE ~(k < j)
    <3>1. k - (j - 1) \in 1..Len(s) - j /\ j - 1 + (k - (j - 1)) = k /\ j + (k - (j - 1)) = k + 1
      BY <2>2, <1>1
    <3>2. (P \o Q)[j - 1 + (k - (j - 1))] = Q[k - (j - 1)]
      BY <3>1, <1>2, <1>3, <1>7
    <3>3. Q[k - (j - 1)] = s[j + (k - (j - 1))]
      BY <3>1, <1>3
    <3> QED BY <2>2, <3>1, <3>2, <3>3
  <2> QED BY <2>1, <2>2
<1> QED BY <1>4, <1>5, <1>8, <1>9

\* A field repeated.
LEMMA InsertAtIs ==
    ASSUME NEW X, NEW s \in Seq(X), NEW j \in 1..Len(s)
    PROVE  /\ InsertAt(s, j, s[j]) \in Seq(X) /\ Len(InsertAt(s, j, s[j])) = Len(s) + 1
           /\ \A k \in 1..Len(s) + 1 : InsertAt(s, j, s[j])[k] = s[IF k <= j THEN k ELSE k - 1]
<1> DEFINE P == SubSeq(s, 1, j - 1)
           M == <<s[j]>>
           Q == SubSeq(s, j, Len(s))
           H == P \o M
<1>1. j \in Nat /\ 1 <= j /\ j <= Len(s) /\ Len(s) \in Nat /\ j - 1 \in Nat
  OBVIOUS
<1>2. P \in Seq(X) /\ Len(P) = j - 1 /\ \A q \in 1..j - 1 : P[q] = s[q]
  BY <1>1
<1>3. /\ Q \in Seq(X) /\ Len(Q) = Len(s) - (j - 1)
      /\ \A q \in 1..Len(s) - (j - 1) : Q[q] = s[j - 1 + q]
  BY <1>1
<1>4. M \in Seq(X) /\ Len(M) = 1 /\ M[1] = s[j]
  OBVIOUS
<1>5. InsertAt(s, j, s[j]) = (P \o M) \o Q
  BY DEF InsertAt
<1> HIDE DEF P, Q, M
<1>6. H \in Seq(X) /\ Len(H) = Len(P) + Len(M)
  BY <1>2, <1>4, InARow
<1>7. \A k \in 1..Len(P) : H[k] = P[k]
  BY <1>2, <1>4, InARow
<1>8. \A k \in 1..Len(M) : H[Len(P) + k] = M[k]
  BY <1>2, <1>4, InARow
<1>9. Len(H) = j /\ \A k \in 1..j : H[k] = s[k]
  <2>1. Len(H) = j
    BY <1>1, <1>2, <1>4, <1>6
  <2>2. ASSUME NEW k \in 1..j PROVE H[k] = s[k]
    <3>1. CASE k = j
      <4>1. 1 \in 1..Len(M) /\ Len(P) + 1 = j
        BY <1>1, <1>2, <1>4
      <4>2. H[Len(P) + 1] = M[1]
        BY <4>1, <1>8
      <4> QED BY <3>1, <4>1, <4>2, <1>4
    <3>2. CASE k # j
      <4>1. k \in 1..j - 1
        BY <3>2, <1>1
      <4> QED BY <4>1, <1>2, <1>7
    <3> QED BY <3>1, <3>2
  <2> QED BY <2>1, <2>2
<1>10. InsertAt(s, j, s[j]) = H \o Q
  BY <1>5
<1> HIDE DEF H
<1>11. H \o Q \in Seq(X) /\ Len(H \o Q) = Len(H) + Len(Q)
  BY <1>3, <1>6, InARow
<1>12. \A k \in 1..Len(H) : (H \o Q)[k] = H[k]
  BY <1>3, <1>6, InARow
<1>13. \A k \in 1..Len(Q) : (H \o Q)[Len(H) + k] = Q[k]
  BY <1>3, <1>6, InARow
<1>14. Len(H \o Q) = Len(s) + 1
  BY <1>1, <1>3, <1>9, <1>11
<1>15. \A k \in 1..Len(s) + 1 : (H \o Q)[k] = s[IF k <= j THEN k ELSE k - 1]
  <2> TAKE k \in 1..Len(s) + 1
  <2>1. CASE k <= j
    <3>1. k \in 1..j
      BY <2>1, <1>1
    <3> QED BY <3>1, <2>1, <1>9, <1>12
  <2>2. CASE ~(k <= j)
    <3>1. k - j \in 1..Len(s) - (j - 1) /\ j + (k - j) = k /\ j - 1 + (k - j) = k - 1
      BY <2>2, <1>1
    <3>2. (H \o Q)[j + (k - j)] = Q[k - j]
      BY <3>1, <1>3, <1>9, <1>13
    <3>3. Q[k - j] = s[j - 1 + (k - j)]
      BY <3>1, <1>3
    <3> QED BY <2>2, <3>1, <3>2, <3>3
  <2> QED BY <2>1, <2>2
<1> QED BY <1>10, <1>11, <1>14, <1>15

\* The programs of a policy, whole or damaged, in paths of any characters.
WireInputs(chars) ==
    {given \in [policy : WirePolicies(chars), damage : Damages, place : Nat] :
       given.place \in DamagedAt(given.damage, given.policy)}

(***************************************************************************)
(* Whatever the policy, however many its grants and denies and whatever    *)
(* its paths are called, but a NUL or what no text has: the child reads    *)
(* the policy the application encoded; a program with any one field lost,  *)
(* repeated or spoilt is refused; and one cut anywhere is refused or asks  *)
(* for its first records in the same tier (wire.rs:27-85, wire.dart).      *)
(***************************************************************************)
THEOREM ProgramComesThrough ==
    ASSUME NEW chars, {NUL, Bad} \cap chars = {}, NEW given \in WireInputs(chars)
    PROVE  /\ given.damage = "none" => Parse(Program(given)) = given.policy
           /\ given.damage \in {"lost", "repeated", "spoilt"}
                => "network" \notin DOMAIN Parse(Program(given))
           /\ given.damage = "cut" /\ "network" \in DOMAIN Parse(Program(given))
                => FirstRecordsOf(Parse(Program(given)), given.policy)
<1> DEFINE p == given.policy
           fs == FieldsOf(given.policy)
           T == chars \cup WireBytes
           U == T \cup {Bad}
<1>1. given.policy \in WirePolicies(chars) /\ given.place \in DamagedAt(given.damage, given.policy)
  BY DEF WireInputs
<1>2. Bad \notin chars /\ NUL \notin T /\ NUL \notin U
  BY WireAssumption DEF WireAssumption
<1>3. fs \in Seq(Seq(T)) /\ Len(fs) \in Nat /\ EncodeWire(given.policy) = Joined(fs)
  <2>1. fs \in Seq(Seq(T))
    BY <1>1, FieldsAre
  <2> HIDE DEF fs, T
  <2>2. Len(fs) \in Nat
    BY <2>1
  <2> QED BY <2>1, <2>2 DEF fs, EncodeWire
<1>4. fs \in Seq(Seq(U))
  <2>1. T \subseteq U
    OBVIOUS
  <2> HIDE DEF T, U, fs
  <2>2. Seq(T) \subseteq Seq(U)
    BY <2>1, Wider
  <2> QED BY <1>3, <2>2, Wider
<1> HIDE DEF fs, T, U
<1>5. CASE given.damage = "none"
  <2>1. Program(given) = Joined(fs)
    BY <1>3, <1>5 DEF Program
  <2>2. FieldsOfCut(T, Split(Joined(fs)), fs, Len(fs), <<>>)
    BY <1>2, <1>3, WholeComesApart
  <2>3. PolicyOf(Split(Joined(fs))) = given.policy
    BY <2>2, <1>1, <1>2, CutIs DEF fs, T
  <2> QED BY <2>1, <2>3, <1>5 DEF Parse
<1>6. CASE given.damage = "cut"
  <2> DEFINE c == given.place
             row == Joined(fs)
  <2>1. row \in Seq(T \cup {NUL})
    BY <1>3, JoinedIs
  <2>2. c \in 0..Len(row) - 1 /\ Program(given) = SubSeq(row, 1, c)
    BY <1>1, <1>3, <1>6 DEF Program, DamagedAt
  <2>3. c \in 0..Len(row) /\ c # Len(row)
    <3> HIDE DEF row, c
    <3>1. Len(row) \in Nat
      BY <2>1
    <3> QED BY <3>1, <2>2
  <2>4. PICK m, r : /\ FieldsOfCut(T, Split(SubSeq(row, 1, c)), fs, m, r)
                    /\ m < Len(fs)
    <3> HIDE DEF c
    <3> QED BY <1>2, <1>3, <2>3, CutComesApart
  <2>5. m # Len(fs)
    <3>1. m \in 0..Len(fs)
      BY <2>4 DEF FieldsOfCut
    <3> QED BY <3>1, <1>3, <2>4
  <2>6. "network" \in DOMAIN PolicyOf(Split(SubSeq(row, 1, c)))
          => FirstRecordsOf(PolicyOf(Split(SubSeq(row, 1, c))), given.policy)
    <3> HIDE DEF c, row
    <3> QED BY <2>4, <2>5, <1>1, <1>2, CutIs DEF fs, T
  <2> QED BY <2>2, <2>6, <1>6 DEF Parse
<1>7. ASSUME NEW d \in Seq(Seq(U)), NEW fields, fields = Split(Joined(d))
      PROVE  /\ fields \in Seq(Seq(U)) /\ Len(fields) = Len(d) + 1 /\ Len(d) \in Nat
             /\ \A k \in 1..Len(d) : fields[k] = d[k]
             /\ fields[Len(d) + 1] = <<>>
  <2>1. FieldsOfCut(U, Split(Joined(d)), d, Len(d), <<>>)
    BY <1>2, WholeComesApart
  <2>2. Len(d) \in Nat
    OBVIOUS
  <2> QED BY <2>1, <2>2, <1>7 DEF FieldsOfCut
<1>8. CASE given.damage = "lost"
  <2> DEFINE j == given.place
             d == RemoveAt(fs, given.place)
             fields == Split(Joined(d))
  <2>1. j \in 1..Len(fs) /\ Program(given) = Joined(d)
    BY <1>1, <1>8 DEF Program, DamagedAt, fs
  <2>2. /\ d \in Seq(Seq(U)) /\ Len(d) = Len(fs) - 1
        /\ \A k \in 1..Len(fs) - 1 : d[k] = fs[IF k < j THEN k ELSE k + 1]
    BY <2>1, <1>4, RemoveAtIs
  <2> HIDE DEF d, j
  <2>3. /\ fields \in Seq(Seq(U)) /\ Len(fields) = Len(d) + 1
        /\ \A k \in 1..Len(d) : fields[k] = d[k]
        /\ fields[Len(d) + 1] = <<>>
    BY <2>2, <1>7
  <2> HIDE DEF fields
  <2>4. Len(fields) = Len(fs) /\ Len(fields) - 1 = Len(d) /\ Len(d) + 1 = Len(fields)
    BY <2>2, <2>3, <1>3
  <2>5. /\ \A k \in 1..Len(fields) - 1 : fields[k] = fs[IF k < j THEN k ELSE k + 1]
        /\ fields[Len(fields)] = <<>>
    BY <2>2, <2>3, <2>4
  <2>6. "network" \notin DOMAIN PolicyOf(fields)
    BY <2>1, <2>3, <2>4, <2>5, <1>1, <1>2, LostIsRefused DEF fs
  <2> QED BY <2>1, <2>6, <1>8 DEF Parse, fields
<1>9. CASE given.damage = "repeated"
  <2> DEFINE j == given.place
             d == InsertAt(fs, given.place, fs[given.place])
             fields == Split(Joined(d))
  <2>1. j \in 1..Len(fs) /\ Program(given) = Joined(d)
    BY <1>1, <1>9 DEF Program, DamagedAt, fs
  <2>2. /\ d \in Seq(Seq(U)) /\ Len(d) = Len(fs) + 1
        /\ \A k \in 1..Len(fs) + 1 : d[k] = fs[IF k <= j THEN k ELSE k - 1]
    BY <2>1, <1>4, InsertAtIs
  <2> HIDE DEF d, j
  <2>3. /\ fields \in Seq(Seq(U)) /\ Len(fields) = Len(d) + 1
        /\ \A k \in 1..Len(d) : fields[k] = d[k]
    BY <2>2, <1>7
  <2> HIDE DEF fields
  <2>4. Len(fields) = Len(fs) + 2 /\ Len(fields) - 1 = Len(fs) + 1
    BY <2>2, <2>3, <1>3
  <2>5. \A k \in 1..Len(fields) - 1 : fields[k] = fs[IF k <= j THEN k ELSE k - 1]
    BY <2>2, <2>3, <2>4
  <2>6. "network" \notin DOMAIN PolicyOf(fields)
    BY <2>1, <2>3, <2>4, <2>5, <1>1, <1>2, RepeatedIsRefused DEF fs
  <2> QED BY <2>1, <2>6, <1>9 DEF Parse, fields
<1>10. CASE given.damage = "spoilt"
  <2> DEFINE j == given.place
             d == [fs EXCEPT ![given.place] = Append(@, Bad)]
             fields == Split(Joined(d))
  <2>1. j \in 1..Len(fs) /\ Program(given) = Joined(d)
    BY <1>1, <1>10 DEF Program, DamagedAt, fs
  <2>2. /\ d \in Seq(Seq(U)) /\ Len(d) = Len(fs)
        /\ \A k \in 1..Len(fs) : d[k] = IF k = j THEN Append(fs[k], Bad) ELSE fs[k]
    <3>1. \A k \in 1..Len(fs) : fs[k] \in Seq(U) /\ Append(fs[k], Bad) \in Seq(U)
      <4> TAKE k \in 1..Len(fs)
      <4>1. fs[k] \in Seq(U) /\ Bad \in U
        BY <1>4 DEF U
      <4> QED BY <4>1
    <3>2. fs = [k \in 1..Len(fs) |-> fs[k]]
      BY <1>3
    <3>3. d = [k \in 1..Len(fs) |-> IF k = j THEN Append(fs[k], Bad) ELSE fs[k]]
      BY <2>1, <3>2
    <3> HIDE DEF d, j
    <3>4. \A k \in 1..Len(fs) : (IF k = j THEN Append(fs[k], Bad) ELSE fs[k]) \in Seq(U)
      BY <3>1
    <3>5. [k \in 1..Len(fs) |-> IF k = j THEN Append(fs[k], Bad) ELSE fs[k]] \in Seq(Seq(U))
      BY <3>4, <1>3
    <3> QED BY <3>3, <3>5, <1>3
  <2> HIDE DEF d, j
  <2>3. /\ fields \in Seq(Seq(U)) /\ Len(fields) = Len(d) + 1
        /\ \A k \in 1..Len(d) : fields[k] = d[k]
    BY <2>2, <1>7
  <2> HIDE DEF fields
  <2>4. Len(fields) = Len(fs) + 1 /\ Len(fields) - 1 = Len(fs)
    BY <2>2, <2>3, <1>3
  <2>5. \A k \in 1..Len(fields) - 1 :
          fields[k] = IF k = j THEN Append(fs[k], Bad) ELSE fs[k]
    BY <2>2, <2>3, <2>4
  <2>6. "network" \notin DOMAIN PolicyOf(fields)
    BY <2>1, <2>3, <2>4, <2>5, <1>1, <1>2, SpoiltIsRefused DEF fs
  <2> QED BY <2>1, <2>6, <1>10 DEF Parse, fields
<1> QED BY <1>5, <1>6, <1>8, <1>9, <1>10

\* A short row is a row.
LEMMA ShortRow == ASSUME NEW S, NEW n \in Nat, NEW s \in BoundedSeq(S, n) PROVE s \in Seq(S)
BY DEF BoundedSeq, SeqOf

\* The policies of MCFunctions are policies.
LEMMA SmallIsWire ==
    ASSUME NEW p \in SmallPolicies(WirePaths, Accesses)
    PROVE  p \in WirePolicies({"/", Letter})
<1> DEFINE W == WirePathsOver({"/", Letter})
           G == [access : Accesses, path : WirePaths]
           D == [access : {"Deny"}, path : WirePaths]
<1>1. WirePaths \subseteq W
  <2> SUFFICES ASSUME NEW q \in WirePaths PROVE q \in W
    OBVIOUS
  <2>1. PICK s \in BoundedSeq({Letter}, MaxPath) : q = <<"/">> \o s
    BY DEF WirePaths
  <2>2. s \in Seq({Letter})
    BY FunctionsAssumption, ShortRow DEF FunctionsAssumption
  <2>3. s \in Seq({"/", Letter}) /\ <<"/">> \in Seq({"/", Letter}) /\ Len(<<"/">>) = 1
    BY <2>2
  <2>4. q \in Seq({"/", Letter})
    BY <2>1, <2>3, InARow
  <2>5. q[1] = "/" /\ q # <<>>
    BY <2>1, <2>3
  <2> QED BY <2>4, <2>5 DEF WirePathsOver
<1>2. p = [network |-> p.network, grants |-> p.grants, denies |-> p.denies]
      /\ p.network \in Networks /\ p.grants \in BoundedSeq(G, MaxGrants)
      /\ p.denies \in BoundedSeq(D, MaxDenies)
  BY DEF SmallPolicies
<1>3. MaxGrants \in Nat /\ MaxDenies \in Nat
  BY FunctionsAssumption DEF FunctionsAssumption
<1>4. /\ G \subseteq [access : Accesses, path : W]
      /\ D \subseteq [access : {"Deny"}, path : W]
  BY <1>1
<1> HIDE DEF G, D, W
<1>5. p.grants \in Seq(G) /\ p.denies \in Seq(D)
  BY <1>2, <1>3, ShortRow
<1>6. p.grants \in Seq([access : Accesses, path : W])
  BY <1>4, <1>5, Wider
<1>7. p.denies \in Seq([access : {"Deny"}, path : W])
  BY <1>4, <1>5, Wider
<1> QED BY <1>2, <1>6, <1>7 DEF WirePolicies, W

\* A grant program in MCFunctions, and what the child made of it.
ProgramInv ==
    called = "program" =>
      input \in WireInputs({"/", Letter}) /\ output \in {Pending, <<Parse(Program(input))>>}

\* Every input of MCFunctions is a program of a policy.
LEMMA ProgramInvInit == CallInit => ProgramInv
<1> SUFFICES ASSUME CallInit, called = "program" PROVE ProgramInv
  BY DEF ProgramInv
<1>1. PICK p \in SmallPolicies(WirePaths, Accesses), d \in Damages :
        \E at \in DamagedAt(d, p) : input = [policy |-> p, damage |-> d, place |-> at]
  BY DEF CallInit
<1>2. PICK at \in DamagedAt(d, p) : input = [policy |-> p, damage |-> d, place |-> at]
  BY <1>1
<1>3. p \in WirePolicies({"/", Letter})
  BY SmallIsWire
<1>4. at \in Nat
  <2>1. Len(FieldsOf(p)) \in Nat /\ Len(EncodeWire(p)) \in Nat
    <3>1. FieldsOf(p) \in Seq(Seq({"/", Letter} \cup WireBytes))
      BY <1>3, FieldsAre
    <3>2. Joined(FieldsOf(p)) \in Seq({"/", Letter} \cup WireBytes \cup {NUL})
      BY <3>1, JoinedIs
    <3> QED BY <3>1, <3>2 DEF EncodeWire
  <2>2. at \in {0} \cup 0..Len(EncodeWire(p)) - 1 \cup 1..Len(FieldsOf(p))
    BY <1>2 DEF DamagedAt
  <2> QED BY <2>1, <2>2
<1>5. input \in WireInputs({"/", Letter})
  BY <1>1, <1>2, <1>3, <1>4 DEF WireInputs
<1> QED BY <1>5 DEF ProgramInv, CallInit

(***************************************************************************)
(* MCFunctions answers every program of its small policies so.             *)
(***************************************************************************)
THEOREM ProgramsFailClosed == CallSpec => []ProgramFailsClosed
<1>1. CallInit => ProgramInv
  BY ProgramInvInit
<1>2. ProgramInv /\ [CallNext]_callVars => ProgramInv'
  <2> SUFFICES ASSUME ProgramInv, [CallNext]_callVars PROVE ProgramInv'
    OBVIOUS
  <2>1. /\ called' = called /\ input' = input
        /\ called = "program" => output' \in {output, <<Parse(Program(input))>>}
    BY DEF CallNext, Answer, callVars
  <2> QED BY <2>1 DEF ProgramInv
<1>3. ProgramInv => ProgramFailsClosed
  <2> SUFFICES ASSUME ProgramInv, Answered("program") PROVE ProgramFailsClosed
    BY DEF ProgramFailsClosed
  <2>1. input \in WireInputs({"/", Letter}) /\ output[1] = Parse(Program(input))
    BY DEF ProgramInv, Answered
  <2>2. {NUL, Bad} \cap {"/", Letter} = {}
    BY WireAssumption, FunctionsAssumption DEF WireAssumption, FunctionsAssumption, WireBytes
  <2>3. input.damage = "none" => output[1] = input.policy
    BY <2>1, <2>2, ProgramComesThrough
  <2>4. input.damage \in {"lost", "repeated", "spoilt"} => ~Accepted
    BY <2>1, <2>2, ProgramComesThrough DEF Accepted
  <2>5. input.damage = "cut" /\ Accepted => FirstRecordsOf(output[1], input.policy)
    BY <2>1, <2>2, ProgramComesThrough DEF Accepted
  <2> QED BY <2>3, <2>4, <2>5 DEF ProgramFailsClosed
<1> QED BY <1>1, <1>2, <1>3, PTL DEF CallSpec

-----------------------------------------------------------------------------
(* The profiles of MCFunctions. *)

\* What its names are made of.
ProfileChars == {"a", Quote, Backslash, Control, "null", "tty"}

\* Its paths are paths.
LEMMA TreeIs ==
    /\ Dirs \subseteq Seq(Names(ProfileChars))
    /\ Tree \subseteq Seq(Names(ProfileChars))
<1>1. ASSUME NEW n \in TreeNames PROVE n \in Names(ProfileChars)
  <2>1. ProfileChars \ {"/"} = ProfileChars
    BY FunctionsAssumption DEF FunctionsAssumption, ProfileChars
  <2>2. n = <<"a">> \/ n = <<"a", Quote, Backslash>> \/ n = <<"a", Control>>
    BY DEF TreeNames
  <2>3. /\ "a" \in ProfileChars /\ Quote \in ProfileChars
        /\ Backslash \in ProfileChars /\ Control \in ProfileChars
    BY DEF ProfileChars
  <2>4. n \in Seq(ProfileChars) /\ n # <<>>
    <3>1. CASE n = <<"a">>
      BY <3>1, <2>3
    <3>2. CASE n = <<"a", Quote, Backslash>>
      BY <3>2, <2>3
    <3>3. CASE n = <<"a", Control>>
      BY <3>3, <2>3
    <3> QED BY <2>2, <3>1, <3>2, <3>3
  <2> QED BY <2>1, <2>4 DEF Names
<1>2. Dirs \subseteq Seq(Names(ProfileChars))
  <2> SUFFICES ASSUME NEW d \in Dirs PROVE d \in Seq(Names(ProfileChars))
    OBVIOUS
  <2>1. d \in Seq(TreeNames)
    BY FunctionsAssumption, ShortRow DEF Dirs, FunctionsAssumption
  <2>2. TreeNames \subseteq Names(ProfileChars)
    BY <1>1
  <2> QED BY <2>1, <2>2, Wider
<1>3. ASSUME NEW d \in {DevNull, DevTty} PROVE d \in Seq(Names(ProfileChars))
  <2>1. <<"null">> \in Names(ProfileChars) /\ <<"tty">> \in Names(ProfileChars)
    BY DEF Names, ProfileChars
  <2>2. \A n \in Names(ProfileChars) : <<n>> \in Seq(Names(ProfileChars))
    OBVIOUS
  <2>3. d = <<<<"null">>>> \/ d = <<<<"tty">>>>
    BY DEF DevNull, DevTty
  <2> QED BY <2>1, <2>2, <2>3, Zenon
<1> QED BY <1>2, <1>3 DEF Tree

\* Its policies are policies.
LEMMA SmallIsSeatbelt ==
    ASSUME NEW p \in SmallPolicies(Dirs, {"Read", "ReadWrite"})
    PROVE  p \in SeatbeltPolicies(ProfileChars)
<1> DEFINE P == Seq(Names(ProfileChars))
           G == [access : {"Read", "ReadWrite"}, path : Dirs]
           D == [access : {"Deny"}, path : Dirs]
<1>1. Dirs \subseteq P
  BY TreeIs
<1>2. p = [network |-> p.network, grants |-> p.grants, denies |-> p.denies]
      /\ p.network \in Networks /\ p.grants \in BoundedSeq(G, MaxGrants)
      /\ p.denies \in BoundedSeq(D, MaxDenies)
  BY DEF SmallPolicies
<1>3. MaxGrants \in Nat /\ MaxDenies \in Nat
  BY FunctionsAssumption DEF FunctionsAssumption
<1>4. /\ G \subseteq [access : {"Read", "ReadWrite"}, path : P]
      /\ D \subseteq [access : {"Deny"}, path : P]
  BY <1>1
<1> HIDE DEF G, D, P
<1>5. p.grants \in Seq(G) /\ p.denies \in Seq(D)
  BY <1>2, <1>3, ShortRow
<1>6. p.grants \in Seq([access : {"Read", "ReadWrite"}, path : P])
  BY <1>4, <1>5, Wider
<1>7. p.denies \in Seq([access : {"Deny"}, path : P])
  BY <1>4, <1>5, Wider
<1> QED BY <1>2, <1>6, <1>7 DEF SeatbeltPolicies, P

\* A policy in MCFunctions, and the profile made of it.
ProfileInv ==
    called = "profile" =>
      input \in SeatbeltPolicies(ProfileChars) /\ output \in {Pending, <<Profile(input)>>}

(***************************************************************************)
(* MCFunctions answers every policy of its own so, unless a name has a     *)
(* control character.                                                      *)
(***************************************************************************)
THEOREM ProfilesSayThePolicy == CallSpec => []ProfileSaysThePolicy
<1>1. CallInit => ProfileInv
  BY SmallIsSeatbelt DEF CallInit, ProfileInv
<1>2. ProfileInv /\ [CallNext]_callVars => ProfileInv'
  <2> SUFFICES ASSUME ProfileInv, [CallNext]_callVars PROVE ProfileInv'
    OBVIOUS
  <2>1. /\ called' = called /\ input' = input
        /\ called = "profile" => output' \in {output, <<Profile(input)>>}
    BY DEF CallNext, Answer, callVars
  <2> QED BY <2>1 DEF ProfileInv
<1>3. ProfileInv => ProfileSaysThePolicy
  <2> SUFFICES ASSUME ProfileInv, Answered("profile"), output[1] # BadPath
               PROVE  ProfileSaysThePolicy
    BY DEF ProfileSaysThePolicy
  <2>1. input \in SeatbeltPolicies(ProfileChars) /\ output[1] = Profile(input)
    BY DEF ProfileInv, Answered
  <2>2. ~HasControl(input)
    BY <2>1 DEF Profile
  <2>3. {"null", "tty"} \subseteq ProfileChars
    BY DEF ProfileChars
  <2>4. \A path \in Tree : path \in Seq(Names(ProfileChars))
    BY TreeIs
  <2>5. \A path \in Tree : FilesAsAsked(input, output[1], path)
    BY <2>1, <2>2, <2>3, <2>4, ProfileFollowsPolicy
  <2>6. \A path \in Tree : ReadableIsReachable(output[1], path)
    BY <2>1, <2>2, <2>3, <2>4, ProfileFollowsPolicy
  <2>7. \A place \in Remotes : TierDecidesReach(input, output[1], place)
    <3>1. <<>> \in Seq(Names(ProfileChars))
      OBVIOUS
    <3> QED BY <2>1, <2>2, <2>3, <3>1, ProfileFollowsPolicy
  <2> QED BY <2>5, <2>6, <2>7 DEF ProfileSaysThePolicy
<1> QED BY <1>1, <1>2, <1>3, PTL DEF CallSpec

-----------------------------------------------------------------------------
(* The diff: counting places, and rows of them. *)

\* How many of the first n places are in a set.
Count(P, n) == Cardinality({v \in 1..n : v \in P})

\* Counting takes one place after the other.
LEMMA CountStep ==
    ASSUME NEW P
    PROVE  /\ Count(P, 0) = 0
           /\ \A n \in Nat : /\ Count(P, n) \in Nat
                             /\ n + 1 \in P => Count(P, n + 1) = Count(P, n) + 1
                             /\ n + 1 \notin P => Count(P, n + 1) = Count(P, n)
<1> DEFINE S(n) == {v \in 1..n : v \in P}
<1>1. S(0) = {}
  OBVIOUS
<1>2. ASSUME NEW n \in Nat
      PROVE  /\ IsFiniteSet(S(n)) /\ Cardinality(S(n)) \in Nat /\ n + 1 \notin S(n)
             /\ n + 1 \in P => S(n + 1) = S(n) \cup {n + 1}
             /\ n + 1 \notin P => S(n + 1) = S(n)
  <2>1. IsFiniteSet(1..n)
    BY FS_Interval
  <2>2. S(n) \subseteq 1..n
    OBVIOUS
  <2>3. IsFiniteSet(S(n))
    BY <2>1, <2>2, FS_Subset
  <2>4. \A v : v \in 1..n + 1 <=> v \in 1..n \/ v = n + 1
    OBVIOUS
  <2>5. n + 1 \in P => S(n + 1) = S(n) \cup {n + 1}
    BY <2>4
  <2>6. n + 1 \notin P => S(n + 1) = S(n)
    BY <2>4
  <2>7. n + 1 \notin S(n)
    BY <2>2
  <2> HIDE DEF S
  <2> QED BY <2>3, <2>5, <2>6, <2>7, FS_CardinalityType
<1>3. \A n : Count(P, n) = Cardinality(S(n))
  BY DEF Count
<1> HIDE DEF S
<1>4. Count(P, 0) = 0
  BY <1>1, <1>3, FS_EmptySet
<1>5. ASSUME NEW n \in Nat
      PROVE  /\ Count(P, n) \in Nat
             /\ n + 1 \in P => Count(P, n + 1) = Count(P, n) + 1
             /\ n + 1 \notin P => Count(P, n + 1) = Count(P, n)
  <2>1. n + 1 \in P => Cardinality(S(n + 1)) = Cardinality(S(n)) + 1
    <3>1. \A T, x : IsFiniteSet(T) /\ x \notin T => Cardinality(T \cup {x}) = Cardinality(T) + 1
      BY FS_AddElement
    <3>2. Cardinality(S(n) \cup {n + 1}) = Cardinality(S(n)) + 1
      BY <1>2, <3>1, Zenon
    <3> QED BY <1>2, <3>2, Zenon
  <2> QED BY <1>2, <1>3, <2>1
<1> QED BY <1>4, <1>5

\* Between two bounds a count grows by at most the places there.
LEMMA CountGrows ==
    ASSUME NEW P, NEW a \in Nat, NEW b \in Nat, a <= b
    PROVE  /\ Count(P, a) \in Nat /\ Count(P, b) \in Nat
           /\ Count(P, a) <= Count(P, b) /\ Count(P, b) <= Count(P, a) + (b - a)
<1> DEFINE S == {d \in Nat : /\ Count(P, a) <= Count(P, a + d)
                             /\ Count(P, a + d) <= Count(P, a) + d}
<1>0. \A n \in Nat : /\ Count(P, n) \in Nat
                     /\ Count(P, n + 1) \in {Count(P, n), Count(P, n) + 1}
  BY CountStep
<1>1. 0 \in S
  BY <1>0
<1>2. \A d \in 0..b - a : d \in S /\ d < b - a => d + 1 \in S
  <2> TAKE d \in 0..b - a
  <2> HAVE d \in S /\ d < b - a
  <2>1. a + d \in Nat /\ a + (d + 1) = (a + d) + 1
    OBVIOUS
  <2>2. Count(P, a + (d + 1)) \in {Count(P, a + d), Count(P, a + d) + 1}
    BY <1>0, <2>1
  <2>3. Count(P, a) \in Nat /\ Count(P, a + d) \in Nat
    BY <1>0, <2>1
  <2> QED BY <2>2, <2>3
<1> HIDE DEF S
<1>3. b - a \in Nat
  OBVIOUS
<1>4. b - a \in S
  BY <1>1, <1>2, <1>3, UpTo
<1>5. a + (b - a) = b
  OBVIOUS
<1> QED BY <1>0, <1>4, <1>5 DEF S

\* Where every place is in the set, the count grows with the place.
LEMMA CountFull ==
    ASSUME NEW P, NEW a \in Nat, NEW b \in Nat, a + 1..b \subseteq P, NEW d \in 0..b - a
    PROVE  Count(P, a + d) = Count(P, a) + d
<1> DEFINE S == {x \in Nat : Count(P, a + x) = Count(P, a) + x}
<1>1. 0 \in S
  BY CountStep
<1>2. \A x \in 0..d : x \in S /\ x < d => x + 1 \in S
  <2> TAKE x \in 0..d
  <2> HAVE x \in S /\ x < d
  <2>1. a + x \in Nat /\ a + (x + 1) = (a + x) + 1 /\ (a + x) + 1 \in a + 1..b
    OBVIOUS
  <2>2. Count(P, (a + x) + 1) = Count(P, a + x) + 1
    BY <2>1, CountStep
  <2>3. Count(P, a) \in Nat
    BY CountStep
  <2> QED BY <2>1, <2>2, <2>3
<1> HIDE DEF S
<1>3. d \in S
  BY <1>1, <1>2, UpTo
<1> QED BY <1>3 DEF S

\* Where no place is, it stays.
LEMMA CountStays ==
    ASSUME NEW P, NEW a \in Nat, NEW b \in Nat, a <= b, \A v \in a + 1..b : v \notin P
    PROVE  Count(P, b) = Count(P, a)
<1> DEFINE S == {x \in Nat : Count(P, a + x) = Count(P, a)}
<1>1. 0 \in S
  BY CountStep
<1>2. \A x \in 0..b - a : x \in S /\ x < b - a => x + 1 \in S
  <2> TAKE x \in 0..b - a
  <2> HAVE x \in S /\ x < b - a
  <2>1. a + x \in Nat /\ a + (x + 1) = (a + x) + 1 /\ (a + x) + 1 \in a + 1..b
    OBVIOUS
  <2>2. Count(P, (a + x) + 1) = Count(P, a + x)
    BY <2>1, CountStep
  <2> QED BY <2>1, <2>2
<1> HIDE DEF S
<1>3. b - a \in Nat
  OBVIOUS
<1>4. b - a \in S
  BY <1>1, <1>2, <1>3, UpTo
<1>5. a + (b - a) = b
  OBVIOUS
<1> QED BY <1>4, <1>5 DEF S

\* Two places of a set with one count are one.
LEMMA CountTells ==
    ASSUME NEW P, NEW v \in P, NEW j \in P, v \in Nat, j \in Nat, v > 0, j > 0,
           Count(P, v) = Count(P, j)
    PROVE  v = j
<1>1. ASSUME NEW x \in Nat, NEW y \in Nat, y > 0, y \in P, x < y PROVE Count(P, x) < Count(P, y)
  <2>1. y - 1 \in Nat /\ (y - 1) + 1 = y /\ x <= y - 1
    BY <1>1
  <2>2. Count(P, y) = Count(P, y - 1) + 1
    BY <2>1, <1>1, CountStep
  <2>3. Count(P, x) \in Nat /\ Count(P, y - 1) \in Nat /\ Count(P, x) <= Count(P, y - 1)
    BY <2>1, CountGrows
  <2> QED BY <2>2, <2>3
<1>2. Count(P, v) \in Nat /\ Count(P, j) \in Nat
  BY CountStep
<1>3. v < j \/ j < v \/ v = j
  OBVIOUS
<1> QED BY <1>1, <1>2, <1>3

\* A row of the places of a set after a and up to b, in order.
IsRow(P, r, a, b) ==
    /\ r \in Seq(Nat) /\ Len(r) = Count(P, b) - Count(P, a)
    /\ \A x \in 1..Len(r) : /\ r[x] \in P /\ r[x] \in a + 1..b
                            /\ Count(P, r[x]) = Count(P, a) + x

\* There is one.
LEMMA OneRow ==
    ASSUME NEW P, NEW a \in Nat, NEW b \in Nat, NEW r, NEW s, IsRow(P, r, a, b), IsRow(P, s, a, b)
    PROVE  r = s
<1>1. r \in Seq(Nat) /\ s \in Seq(Nat) /\ Len(r) = Len(s)
  BY DEF IsRow
<1>2. ASSUME NEW x \in 1..Len(r) PROVE r[x] = s[x]
  <2>1. /\ r[x] \in P /\ r[x] \in Nat /\ r[x] > 0
        /\ s[x] \in P /\ s[x] \in Nat /\ s[x] > 0
        /\ Count(P, r[x]) = Count(P, s[x])
    BY <1>1 DEF IsRow
  <2> QED BY <2>1, CountTells
<1> QED BY <1>1, <1>2, SameRow

\* Ordered is the row of a set's places.
LEMMA OrderedRow ==
    ASSUME NEW N \in Nat, NEW P, P \subseteq 1..N
    PROVE  IsRow(P, Ordered(P), 0, N) /\ Len(Ordered(P)) = Count(P, N)
<1>1. Cardinality(P) = Count(P, N)
  <2>1. P = {v \in 1..N : v \in P}
    OBVIOUS
  <2> QED BY <2>1, Zenon DEF Count
<1>2. \A n \in Nat : Count(P, n) \in Nat
  BY CountStep
<1>3. Count(P, 0) = 0
  BY CountStep
<1> DEFINE below(v) == Cardinality({j \in P : j < v})
<1>4. ASSUME NEW v \in P PROVE below(v) = Count(P, v) - 1
  <2>0. v \in 1..N
    OBVIOUS
  <2>1. v \in 1..N /\ v - 1 \in Nat /\ (v - 1) + 1 = v
    BY <2>0
  <2>2. {j \in P : j < v} = {j \in 1..v - 1 : j \in P}
    <3>1. \A j \in 1..N : j < v <=> j \in 1..v - 1
      BY <2>0
    <3>2. \A j \in 1..v - 1 : j \in 1..N
      BY <2>0
    <3> QED BY <3>1, <3>2
  <2>3. Count(P, v) = Count(P, v - 1) + 1
    BY <2>1, CountStep
  <2>4. Cardinality({j \in P : j < v}) = Count(P, v - 1)
    BY <2>2, Zenon DEF Count
  <2> QED BY <1>2, <2>1, <2>3, <2>4
<1>5. ASSUME NEW k \in 1..Count(P, N) PROVE \E v \in P : Count(P, v) = k
  <2> DEFINE S == {n \in 0..N : Count(P, n) >= k}
  <2>1. S \subseteq Nat /\ N \in S
    BY <1>2
  <2>2. PICK v \in S : \A n \in S : v <= n
    <3> HIDE DEF S
    <3> QED BY <2>1, LeastOf
  <2>3. v # 0
    BY <1>3
  <2>4. v - 1 \in Nat /\ v - 1 \in 0..N /\ (v - 1) + 1 = v /\ v - 1 \notin S
    BY <2>2, <2>3
  <2>5. Count(P, v - 1) < k /\ Count(P, v - 1) \in Nat /\ Count(P, v) >= k
    BY <1>2, <2>4
  <2>6. v \in P /\ Count(P, v) = Count(P, v - 1) + 1
    BY <2>4, <2>5, CountStep
  <2> QED BY <2>5, <2>6
<1> DEFINE o == Ordered(P)
<1>6. o = [k \in 1..Count(P, N) |-> CHOOSE v \in P : below(v) = k - 1]
  BY <1>1 DEF Ordered
<1> HIDE DEF below
<1>7. ASSUME NEW k \in 1..Count(P, N) PROVE o[k] \in P /\ Count(P, o[k]) = k
  <2>1. o[k] = CHOOSE v \in P : below(v) = k - 1
    BY <1>6
  <2>2. PICK v \in P : Count(P, v) = k
    BY <1>5
  <2>3. below(v) = k - 1
    BY <1>4, <2>2
  <2>4. o[k] \in P /\ below(o[k]) = k - 1
    <3> HIDE DEF o
    <3> QED BY <2>1, <2>3, Zenon
  <2>5. Count(P, o[k]) - 1 = k - 1
    <3> HIDE DEF o
    <3> QED BY <2>4, <1>4
  <2> HIDE DEF o
  <2>6. Count(P, o[k]) \in Nat
    <3>1. \A x \in 1..N : x \in Nat
      OBVIOUS
    <3>2. o[k] \in Nat
      BY <2>4, <3>1
    <3> QED BY <3>2, CountStep
  <2> QED BY <2>4, <2>5, <2>6
<1> DEFINE n == Count(P, N)
<1>8. n \in Nat /\ DOMAIN o = 1..n /\ o = [k \in 1..n |-> o[k]]
  BY <1>2, <1>6
<1> HIDE DEF o
<1>9. \A k \in 1..n : o[k] \in P /\ o[k] \in Nat /\ o[k] \in 0 + 1..N /\ Count(P, o[k]) = 0 + k
  <2> TAKE k \in 1..n
  <2>1. o[k] \in P /\ Count(P, o[k]) = k
    BY <1>7
  <2>2. o[k] \in 1..N
    BY <2>1
  <2> HIDE DEF n
  <2>3. k \in Nat
    BY <1>8
  <2> QED BY <2>1, <2>2, <2>3
<1> HIDE DEF n
<1>10. o \in Seq(Nat) /\ Len(o) = n
  BY <1>8, <1>9
<1>11. Len(o) = Count(P, N) - Count(P, 0)
  BY <1>3, <1>8, <1>10 DEF n
<1>12. IsRow(P, o, 0, N)
  BY <1>3, <1>9, <1>10, <1>11 DEF IsRow
<1> QED BY <1>10, <1>12 DEF o, n

\* A part of a row is the row of a part.
LEMMA RowPart ==
    ASSUME NEW P, NEW N \in Nat, NEW r, IsRow(P, r, 0, N),
           NEW a \in Nat, NEW b \in Nat, a <= b, b <= N
    PROVE  IsRow(P, SubSeq(r, Count(P, a) + 1, Count(P, b)), a, b)
<1> DEFINE ca == Count(P, a)
           cb == Count(P, b)
           s == SubSeq(r, ca + 1, cb)
<1>1. ca \in Nat /\ cb \in Nat /\ ca <= cb /\ cb <= Count(P, N) /\ Count(P, N) \in Nat
  BY CountGrows
<1>2. Count(P, 0) = 0
  BY CountStep
<1>3. r \in Seq(Nat) /\ Len(r) = Count(P, N)
  BY <1>1, <1>2 DEF IsRow
<1>4. s \in Seq(Nat) /\ Len(s) = cb - ca /\ \A q \in 1..cb - ca : s[q] = r[ca + q]
  <2> HIDE DEF ca, cb
  <2> QED BY <1>1, <1>3, PartIs
<1>5. ASSUME NEW q \in 1..Len(s)
      PROVE  s[q] \in P /\ s[q] \in a + 1..b /\ Count(P, s[q]) = ca + q
  <2>1. ca + q \in 1..Len(r) /\ s[q] = r[ca + q] /\ ca + q <= cb /\ ca + q > ca
    <3> HIDE DEF s, ca, cb
    <3>1. q \in 1..cb - ca
      BY <1>4
    <3>2. ca + q \in 1..Len(r) /\ ca + q <= cb /\ ca + q > ca
      BY <1>1, <1>3, <3>1
    <3> QED BY <1>4, <3>1, <3>2
  <2> DEFINE v == r[ca + q]
  <2>2. v \in P /\ v \in 1..N /\ Count(P, v) = ca + q
    <3> HIDE DEF ca
    <3> QED BY <1>2, <2>1 DEF IsRow
  <2> HIDE DEF v, s
  <2>3. ~(v <= a)
    <3> SUFFICES ASSUME v <= a PROVE FALSE
      OBVIOUS
    <3>1. Count(P, v) <= ca
      BY <2>2, CountGrows
    <3> QED BY <1>1, <2>1, <2>2, <3>1
  <2>4. ~(v > b)
    <3> SUFFICES ASSUME v > b PROVE FALSE
      OBVIOUS
    <3>1. v - 1 \in Nat /\ b <= v - 1 /\ (v - 1) + 1 = v
      BY <2>2
    <3>2. cb <= Count(P, v - 1) /\ Count(P, v - 1) \in Nat
      BY <3>1, CountGrows
    <3>3. Count(P, v) = Count(P, v - 1) + 1
      BY <2>2, <3>1, CountStep
    <3> QED BY <1>1, <2>1, <2>2, <3>2, <3>3
  <2> QED BY <2>1, <2>2, <2>3, <2>4 DEF v
<1> HIDE DEF s
<1>6. IsRow(P, s, a, b)
  BY <1>4, <1>5 DEF IsRow
<1> QED BY <1>6 DEF s

\* Where two sets have every place, a row of one is a row of the other.
LEMMA RowOfBoth ==
    ASSUME NEW P, NEW Q, NEW a \in Nat, NEW b \in Nat, a <= b,
           a + 1..b \subseteq P, a + 1..b \subseteq Q, NEW r, IsRow(P, r, a, b)
    PROVE  IsRow(Q, r, a, b)
<1>1. Count(P, a) \in Nat /\ Count(Q, a) \in Nat
  BY CountStep
<1>2. \A d \in 0..b - a : Count(P, a + d) = Count(P, a) + d /\ Count(Q, a + d) = Count(Q, a) + d
  BY CountFull
<1>3. Count(P, b) = Count(P, a) + (b - a) /\ Count(Q, b) = Count(Q, a) + (b - a)
  <2>1. b - a \in 0..b - a /\ a + (b - a) = b
    OBVIOUS
  <2> QED BY <1>2, <2>1
<1>4. r \in Seq(Nat) /\ Len(r) = b - a /\ Len(r) = Count(Q, b) - Count(Q, a)
  BY <1>1, <1>3 DEF IsRow
<1>5. ASSUME NEW x \in 1..Len(r) PROVE /\ r[x] \in Q /\ r[x] \in a + 1..b
                                       /\ Count(Q, r[x]) = Count(Q, a) + x
  <2>1. r[x] \in a + 1..b /\ Count(P, r[x]) = Count(P, a) + x
    BY DEF IsRow
  <2> DEFINE d == r[x] - a
  <2>2. d \in 0..b - a /\ a + d = r[x]
    BY <2>1
  <2>3. Count(P, r[x]) = Count(P, a) + d /\ Count(Q, r[x]) = Count(Q, a) + d
    <3> HIDE DEF d
    <3> QED BY <1>2, <2>2
  <2>4. d = x
    <3> HIDE DEF d
    <3>1. Count(P, a) + d = Count(P, a) + x /\ d \in Int /\ x \in Int
      BY <2>1, <2>2, <2>3
    <3> QED BY <1>1, <3>1
  <2> QED BY <2>1, <2>3, <2>4
<1> QED BY <1>4, <1>5 DEF IsRow

-----------------------------------------------------------------------------
(* The runs of lines a diff shows. *)

\* Places up to N fall into g runs, F[k] to L[k], with a gap before each and
\* after the last.
Runs(near, N, g, F, L) ==
    /\ g \in Nat /\ F \in [1..g -> Nat] /\ L \in [0..g -> Nat] /\ L[0] = 0 /\ L[g] <= N
    /\ \A k \in 1..g : /\ L[k - 1] < F[k] /\ F[k] <= L[k] /\ L[k] <= N
                       /\ F[k]..L[k] \subseteq near
                       /\ \A v \in L[k - 1] + 1..F[k] - 1 : v \notin near
    /\ \A v \in L[g] + 1..N : v \notin near

\* They begin where the place before is not one of them, and end likewise.
StartsOf(near) == {v \in near : v - 1 \notin near}
EndsOf(near) == {v \in near : v + 1 \notin near}

Bounded(near, N, starts, ends, g, F, L) ==
    Runs(near, N, g, F, L) /\ Len(starts) = g /\ \A k \in 1..g : starts[k] = F[k] /\ ends[k] = L[k]

LEMMA RunsAre ==
    ASSUME NEW N \in Nat, NEW near, near \subseteq 1..N
    PROVE  \E g, F, L : Bounded(near, N, Ordered(StartsOf(near)), Ordered(EndsOf(near)), g, F, L)
<1> DEFINE S == StartsOf(near)
           E == EndsOf(near)
           g == Count(S, N)
           F == Ordered(S)
           D == Ordered(E)
           L == [k \in 0..g |-> IF k = 0 THEN 0 ELSE D[k]]
<1>1. /\ \A v : v \in S <=> v \in near /\ v - 1 \notin near
      /\ \A v : v \in E <=> v \in near /\ v + 1 \notin near
      /\ S \subseteq 1..N /\ E \subseteq 1..N /\ 0 \notin near /\ N + 1 \notin near
  <2>1. 0 \notin 1..N /\ N + 1 \notin 1..N
    OBVIOUS
  <2>2. S \subseteq near /\ E \subseteq near
    BY DEF StartsOf, EndsOf
  <2>3. S \subseteq 1..N /\ E \subseteq 1..N
    BY <2>2
  <2>4. /\ \A v : v \in S <=> v \in near /\ v - 1 \notin near
        /\ \A v : v \in E <=> v \in near /\ v + 1 \notin near
    BY DEF StartsOf, EndsOf
  <2> QED BY <2>1, <2>3, <2>4
<1> HIDE DEF S, E
<1>2. /\ Count(S, 0) = 0 /\ Count(E, 0) = 0
      /\ \A n \in Nat : /\ Count(S, n) \in Nat /\ Count(E, n) \in Nat
                        /\ n + 1 \in S => Count(S, n + 1) = Count(S, n) + 1
                        /\ n + 1 \notin S => Count(S, n + 1) = Count(S, n)
                        /\ n + 1 \in E => Count(E, n + 1) = Count(E, n) + 1
                        /\ n + 1 \notin E => Count(E, n + 1) = Count(E, n)
  BY CountStep
<1> DEFINE Even == {n \in 0..N :
                      /\ n \in near /\ n + 1 \in near => Count(S, n) = Count(E, n) + 1
                      /\ ~(n \in near /\ n + 1 \in near) => Count(S, n) = Count(E, n)}
<1>3. 0 \in Even
  BY <1>1, <1>2
<1>4. \A n \in 0..N : n \in Even /\ n < N => n + 1 \in Even
  <2> TAKE n \in 0..N
  <2> HAVE n \in Even /\ n < N
  <2>1. n \in Nat /\ n + 1 \in 0..N /\ (n + 1) - 1 = n
    OBVIOUS
  <2>2. /\ n \in near /\ n + 1 \in near => Count(S, n) = Count(E, n) + 1
        /\ ~(n \in near /\ n + 1 \in near) => Count(S, n) = Count(E, n)
    OBVIOUS
  <2>3. /\ n + 1 \in S <=> n + 1 \in near /\ n \notin near
        /\ n + 1 \in E <=> n + 1 \in near /\ (n + 1) + 1 \notin near
    BY <1>1, <2>1
  <2>4. Count(S, n) \in Nat /\ Count(E, n) \in Nat
    BY <1>2, <2>1
  <2> HIDE DEF Even
  <2>5. /\ n + 1 \in near /\ (n + 1) + 1 \in near => Count(S, n + 1) = Count(E, n + 1) + 1
        /\ ~(n + 1 \in near /\ (n + 1) + 1 \in near) => Count(S, n + 1) = Count(E, n + 1)
    BY <1>2, <2>1, <2>2, <2>3, <2>4
  <2> QED BY <2>1, <2>5 DEF Even
<1>5. 0..N \subseteq Even
  <2> HIDE DEF Even
  <2> QED BY <1>3, <1>4, UpTo
<1>6. \A n \in 0..N : /\ n \in near /\ n + 1 \in near => Count(S, n) = Count(E, n) + 1
                      /\ ~(n \in near /\ n + 1 \in near) => Count(S, n) = Count(E, n)
  BY <1>5
<1> HIDE DEF Even
\* A place is in a run exactly if one more run has begun than has ended.
<1>7. \A v \in 1..N : /\ v \in near => Count(S, v) = Count(E, v - 1) + 1
                      /\ v \notin near => Count(S, v) = Count(E, v - 1)
  <2> TAKE v \in 1..N
  <2>1. v - 1 \in 0..N /\ v - 1 \in Nat /\ (v - 1) + 1 = v
    OBVIOUS
  <2>2. /\ v - 1 \in near /\ v \in near => Count(S, v - 1) = Count(E, v - 1) + 1
        /\ ~(v - 1 \in near /\ v \in near) => Count(S, v - 1) = Count(E, v - 1)
    BY <1>6, <2>1
  <2>3. /\ v \in S => Count(S, v) = Count(S, v - 1) + 1
        /\ v \notin S => Count(S, v) = Count(S, v - 1)
    BY <1>2, <2>1
  <2> QED BY <1>1, <2>2, <2>3
<1>8. g \in Nat /\ Count(E, N) = g
  BY <1>1, <1>2, <1>6
<1>9. /\ Len(F) = g
      /\ \A k \in 1..g : /\ F[k] \in S /\ F[k] \in 1..N /\ Count(S, F[k]) = k
                         /\ D[k] \in E /\ D[k] \in 1..N /\ Count(E, D[k]) = k
      /\ F \in Seq(Nat)
  <2>1. IsRow(S, F, 0, N) /\ Len(F) = g /\ IsRow(E, D, 0, N) /\ Len(D) = g
    BY <1>1, <1>8, OrderedRow
  <2> HIDE DEF F, D, g
  <2>2. \A k \in 1..g : /\ F[k] \in S /\ F[k] \in 0 + 1..N /\ Count(S, F[k]) = Count(S, 0) + k
                        /\ D[k] \in E /\ D[k] \in 0 + 1..N /\ Count(E, D[k]) = Count(E, 0) + k
    BY <2>1, Zenon DEF IsRow
  <2>3. \A k \in 1..g : 0 + k = k
    BY <1>8
  <2>4. F \in Seq(Nat)
    BY <2>1 DEF IsRow
  <2> QED BY <1>2, <2>1, <2>2, <2>3, <2>4
<1>10. /\ L \in [0..g -> Nat] /\ L[0] = 0 /\ L[g] <= N
       /\ \A k \in 1..g : L[k] = D[k]
       /\ \A k \in 0..g : L[k] \in 0..N /\ Count(E, L[k]) = k
       /\ F \in [1..g -> Nat]
  <2> HIDE DEF F, D, g
  <2>1. \A k \in 1..g : k \in 0..g /\ k # 0
    BY <1>8
  <2>2. \A k \in 0..g : k = 0 \/ k \in 1..g
    BY <1>8
  <2>3. L[0] = 0 /\ \A k \in 1..g : L[k] = D[k]
    BY <1>8, <2>1
  <2>4. \A k \in 0..g : L[k] \in 0..N /\ Count(E, L[k]) = k
    <3> HIDE DEF L
    <3>1. \A k \in 1..g : L[k] \in 1..N /\ Count(E, L[k]) = k
      BY <2>3, <1>9
    <3> QED BY <1>2, <2>2, <2>3, <3>1
  <2>5. L \in [0..g -> Nat]
    <3>1. L = [k \in 0..g |-> L[k]]
      OBVIOUS
    <3> HIDE DEF L
    <3> QED BY <2>4, <3>1
  <2> HIDE DEF L
  <2>6. L[g] <= N
    BY <1>8, <2>4
  <2>7. F \in [1..g -> Nat]
    BY <1>9
  <2> QED BY <2>3, <2>4, <2>5, <2>6, <2>7
<1> HIDE DEF F, D, L, g
<1>11. ASSUME NEW k \in 1..g
       PROVE  /\ L[k - 1] < F[k] /\ F[k] <= L[k] /\ L[k] <= N
              /\ F[k]..L[k] \subseteq near
              /\ \A v \in L[k - 1] + 1..F[k] - 1 : v \notin near
  <2> DEFINE f == F[k]
             l == L[k]
             b == L[k - 1]
  <2>1. k \in 0..g /\ k - 1 \in 0..g /\ k \in Nat /\ k - 1 \in Nat
    BY <1>8
  <2>2. /\ f \in S /\ f \in near /\ f \in 1..N /\ Count(S, f) = k /\ f - 1 \in Nat
        /\ l \in E /\ l \in near /\ l \in 1..N /\ Count(E, l) = k /\ l - 1 \in Nat
        /\ b \in 0..N /\ Count(E, b) = k - 1
    <3>1. f \in S /\ f \in near /\ f \in 1..N /\ Count(S, f) = k
      BY <1>1, <1>9
    <3>2. l \in E /\ l \in near /\ l \in 1..N /\ Count(E, l) = k
      BY <1>1, <1>9, <1>10
    <3>3. b \in 0..N /\ Count(E, b) = k - 1
      BY <1>10, <2>1
    <3> HIDE DEF f, l, b
    <3>4. f - 1 \in Nat /\ l - 1 \in Nat
      BY <3>1, <3>2
    <3> QED BY <3>1, <3>2, <3>3, <3>4
  <2> HIDE DEF f, l, b
  <2>3. Count(S, f - 1) = k - 1 /\ Count(E, l - 1) = k - 1 /\ Count(E, f - 1) = k - 1
    <3>1. (f - 1) + 1 = f /\ (l - 1) + 1 = l
      BY <2>2
    <3>2. Count(S, f) = Count(S, f - 1) + 1 /\ Count(E, l) = Count(E, l - 1) + 1
      BY <1>2, <2>2, <3>1
    <3>3. Count(S, f) = Count(E, f - 1) + 1
      BY <1>7, <2>2
    <3>4. Count(S, f - 1) \in Nat /\ Count(E, f - 1) \in Nat /\ Count(E, l - 1) \in Nat
      BY <1>2, <2>2
    <3> QED BY <2>1, <2>2, <3>2, <3>3, <3>4
  <2>4. f <= l
    <3> SUFFICES ASSUME ~(f <= l) PROVE FALSE
      OBVIOUS
    <3>1. l \in Nat /\ l <= f - 1
      BY <2>2
    <3>2. Count(E, l) <= Count(E, f - 1)
      BY <2>2, <3>1, CountGrows
    <3> QED BY <2>1, <2>2, <2>3, <3>2
  <2>5. b < f
    <3> SUFFICES ASSUME ~(b < f) PROVE FALSE
      OBVIOUS
    <3>1. b \in Nat /\ f \in Nat /\ f <= b /\ b # 0
      BY <2>2
    <3>2. Count(S, f) <= Count(S, b) /\ Count(S, b) \in Nat
      BY <3>1, CountGrows
    <3>3. k - 1 # 0
      BY <1>10, <3>1 DEF b
    <3>4. k - 1 \in 1..g
      BY <2>1, <3>3
    <3>5. b \in E
      BY <1>9, <1>10, <3>4 DEF b
    <3>6. Count(S, b) = Count(E, b)
      BY <1>1, <1>6, <2>2, <3>5
    <3> QED BY <2>1, <2>2, <3>2, <3>6
  <2>6. ASSUME NEW v \in f..l PROVE v \in near
    <3>1. v \in Nat /\ v - 1 \in Nat /\ v \in 1..N /\ f <= v /\ v - 1 <= l - 1 /\ f \in Nat
      BY <2>2
    <3>2. Count(S, f) <= Count(S, v) /\ Count(E, v - 1) <= Count(E, l - 1)
          /\ Count(S, v) \in Nat /\ Count(E, v - 1) \in Nat
      BY <2>2, <3>1, CountGrows
    <3> QED BY <1>7, <2>1, <2>2, <2>3, <3>1, <3>2
  <2>7. ASSUME NEW v \in b + 1..f - 1 PROVE v \notin near
    <3>1. v \in Nat /\ v - 1 \in Nat /\ v \in 1..N /\ b <= v - 1 /\ v <= f - 1 /\ b \in Nat
      BY <2>2
    <3>2. Count(E, b) <= Count(E, v - 1) /\ Count(S, v) <= Count(S, f - 1)
          /\ Count(S, v) \in Nat /\ Count(E, v - 1) \in Nat
      BY <2>2, <3>1, CountGrows
    <3> QED BY <1>7, <2>1, <2>2, <2>3, <3>1, <3>2
  <2> QED BY <2>2, <2>4, <2>5, <2>6, <2>7 DEF f, l, b
<1>12. ASSUME NEW v \in L[g] + 1..N PROVE v \notin near
  <2>1. g \in 0..g /\ L[g] \in 0..N /\ Count(E, L[g]) = g
    BY <1>8, <1>10
  <2>2. v \in Nat /\ v - 1 \in Nat /\ v \in 1..N /\ L[g] <= v - 1 /\ v <= N /\ L[g] \in Nat
    BY <2>1
  <2>3. Count(E, L[g]) <= Count(E, v - 1) /\ Count(S, v) <= Count(S, N)
        /\ Count(S, v) \in Nat /\ Count(E, v - 1) \in Nat
    BY <2>2, CountGrows
  <2> QED BY <1>7, <1>8, <2>1, <2>2, <2>3 DEF g
<1>13. Runs(near, N, g, F, L)
  BY <1>8, <1>10, <1>11, <1>12 DEF Runs
<1>14. \A k \in 1..g : F[k] = Ordered(S)[k] /\ L[k] = Ordered(E)[k]
  BY <1>10 DEF F, D
<1>15. Len(Ordered(S)) = g
  BY <1>9 DEF F
<1>16. Bounded(near, N, Ordered(S), Ordered(E), g, F, L)
  BY <1>13, <1>14, <1>15 DEF Bounded
<1> QED BY <1>16 DEF S, E

\* The places of the first k runs are counted at the end of the k-th.
Counted(near, g, F, L) ==
    /\ Count(near, L[0]) = 0 /\ Cardinality(near) = Count(near, L[g])
    /\ \A k \in 0..g : Count(near, L[k]) \in Nat
    /\ \A k \in 1..g :
         /\ Count(near, L[k]) = Count(near, L[k - 1]) + (L[k] - F[k] + 1)
         /\ \A q \in 1..L[k] - F[k] + 1 :
              /\ F[k] + q - 1 \in near
              /\ Count(near, F[k] + q - 1) = Count(near, L[k - 1]) + q

LEMMA RunCounts ==
    ASSUME NEW N \in Nat, NEW near, near \subseteq 1..N, NEW g, NEW F, NEW L, Runs(near, N, g, F, L)
    PROVE  Counted(near, g, F, L)
<1>1. /\ g \in Nat /\ L[0] = 0 /\ \A k \in 0..g : L[k] \in Nat
      /\ \A k \in 1..g : k - 1 \in 0..g /\ k \in 0..g /\ F[k] \in Nat
  <2>1. g \in Nat /\ L[0] = 0 /\ L \in [0..g -> Nat] /\ F \in [1..g -> Nat]
    BY Zenon DEF Runs
  <2> QED BY <2>1
<1>2. \A k \in 0..g : Count(near, L[k]) \in Nat
  BY <1>1, CountStep
<1>3. Count(near, L[0]) = 0
  BY <1>1, CountStep
<1>4. Cardinality(near) = Count(near, L[g])
  <2>1. near = {v \in 1..N : v \in near}
    OBVIOUS
  <2>2. Cardinality(near) = Count(near, N)
    BY <2>1, Zenon DEF Count
  <2>3. L[g] \in Nat /\ L[g] <= N /\ \A v \in L[g] + 1..N : v \notin near
    <3>1. g \in 0..g
      BY <1>1
    <3> QED BY <1>1, <3>1 DEF Runs
  <2>4. Count(near, N) = Count(near, L[g])
    BY <2>3, CountStays
  <2> QED BY <2>2, <2>4
<1>5. ASSUME NEW k \in 1..g
      PROVE  /\ Count(near, L[k]) = Count(near, L[k - 1]) + (L[k] - F[k] + 1)
             /\ \A q \in 1..L[k] - F[k] + 1 :
                  /\ F[k] + q - 1 \in near
                  /\ Count(near, F[k] + q - 1) = Count(near, L[k - 1]) + q
  <2> DEFINE f == F[k]
             l == L[k]
             b == L[k - 1]
  <2>1. f \in Nat /\ l \in Nat /\ b \in Nat /\ Count(near, b) \in Nat
    BY <1>1, <1>2
  <2>2. b < f /\ f <= l /\ f..l \subseteq near /\ \A v \in b + 1..f - 1 : v \notin near
    BY DEF Runs
  <2> HIDE DEF f, l, b
  <2>3. f - 1 \in Nat /\ b <= f - 1
    BY <2>1, <2>2
  <2>4. Count(near, f - 1) = Count(near, b)
    BY <2>1, <2>2, <2>3, CountStays
  <2>5. (f - 1) + 1..l \subseteq near
    <3>1. (f - 1) + 1 = f
      BY <2>1
    <3> QED BY <2>2, <3>1
  <2>6. \A d \in 0..l - (f - 1) : Count(near, (f - 1) + d) = Count(near, f - 1) + d
    BY <2>1, <2>3, <2>5, CountFull
  <2>7. ASSUME NEW q \in 1..l - f + 1
        PROVE  f + q - 1 \in near /\ Count(near, f + q - 1) = Count(near, b) + q
    <3>1. q \in 0..l - (f - 1) /\ (f - 1) + q = f + q - 1 /\ f + q - 1 \in f..l
      BY <2>1, <2>2
    <3> QED BY <2>2, <2>4, <2>6, <3>1
  <2>8. l - f + 1 \in 1..l - f + 1 /\ f + (l - f + 1) - 1 = l
    BY <2>1, <2>2
  <2>9. Count(near, l) = Count(near, b) + (l - f + 1)
    BY <2>7, <2>8
  <2> QED BY <2>7, <2>9 DEF f, l, b
<1> QED BY <1>2, <1>3, <1>4, <1>5, Zenon DEF Counted

\* The lines of a script from one on, as a hunk carries them.
LinesFrom(script, f, n) ==
    [q \in 1..n |-> [kind |-> Kind(script[f + q - 1]), text |-> f + q - 1]]

\* What one turn of the loop does: nothing after the cap, or one hunk more.
LEMMA AddGroupDone ==
    ASSUME NEW script, NEW t, t.truncated, NEW group
    PROVE  AddGroup(script, t, group) = t
BY DEF AddGroup

LEMMA AddGroupIs ==
    ASSUME NEW script, NEW t, ~t.truncated, NEW group, NEW m,
           m = IF group.last - group.first + 1 > LineCap - t.carried
               THEN LineCap - t.carried ELSE group.last - group.first + 1
    PROVE  AddGroup(script, t, group)
             = [hunks |-> Append(t.hunks, Hunk(script, group, LinesFrom(script, group.first, m))),
                carried |-> t.carried + m,
                truncated |-> group.last - group.first + 1 > LineCap - t.carried]
BY Zenon DEF AddGroup, LinesFrom

\* The loop, one group after the other.
ToldUpTo(f, script, groups, n) ==
    f = [k \in 0..n |-> IF k = 0 THEN [hunks |-> <<>>, carried |-> 0, truncated |-> FALSE]
                        ELSE AddGroup(script, f[k - 1], groups[k])]

\* The function Diff chooses exists.
LEMMA ToldExists ==
    ASSUME NEW script, NEW groups, NEW N \in Nat PROVE \E f : ToldUpTo(f, script, groups, N)
<1> DEFINE S == {n \in 0..N : \E f : ToldUpTo(f, script, groups, n)}
           Z == [hunks |-> <<>>, carried |-> 0, truncated |-> FALSE]
<1>1. 0 \in S
  <2>1. PICK f : f = [k \in 0..0 |-> Z]
    OBVIOUS
  <2> HIDE DEF Z
  <2>2. f = [k \in 0..0 |-> IF k = 0 THEN Z ELSE AddGroup(script, f[k - 1], groups[k])]
    BY <2>1
  <2>3. \E e : ToldUpTo(e, script, groups, 0)
    BY <2>2, Zenon DEF ToldUpTo, Z
  <2> QED BY <2>3
<1>2. ASSUME NEW n \in 0..N, n \in S /\ n < N PROVE n + 1 \in S
  <2>1. PICK f : ToldUpTo(f, script, groups, n)
    BY <1>2
  <2>2. \A k \in 0..n : f[k] = IF k = 0 THEN Z ELSE AddGroup(script, f[k - 1], groups[k])
    <3>1. f = [k \in 0..n |-> IF k = 0 THEN Z ELSE AddGroup(script, f[k - 1], groups[k])]
      BY <2>1, Zenon DEF ToldUpTo
    <3> HIDE DEF Z
    <3> QED BY <3>1, Zenon
  <2>3. PICK e : e = [k \in 0..(n + 1) |-> IF k = 0 THEN Z
                                          ELSE AddGroup(script, f[k - 1], groups[k])]
    OBVIOUS
  <2> HIDE DEF Z
  <2>4. \A k \in 0..(n + 1) : e[k] = IF k = 0 THEN Z ELSE AddGroup(script, f[k - 1], groups[k])
    BY <2>3
  <2>5. \A k \in 0..n : e[k] = f[k]
    <3> TAKE k \in 0..n
    <3>1. k \in 0..(n + 1)
      OBVIOUS
    <3> QED BY <2>2, <2>4, <3>1
  <2>6. \A k \in 0..(n + 1) : k # 0 => k - 1 \in 0..n
    OBVIOUS
  <2>7. \A k \in 0..(n + 1) : e[k] = IF k = 0 THEN Z ELSE AddGroup(script, e[k - 1], groups[k])
    BY <2>4, <2>5, <2>6
  <2>8. e = [k \in 0..(n + 1) |-> IF k = 0 THEN Z ELSE AddGroup(script, e[k - 1], groups[k])]
    BY <2>3, <2>7
  <2>9. \E d : ToldUpTo(d, script, groups, n + 1)
    BY <2>8, Zenon DEF ToldUpTo, Z
  <2> QED BY <1>2, <2>9
<1> HIDE DEF S
<1>3. 0..N \subseteq S
  BY <1>1, <1>2, UpTo
<1> QED BY <1>3 DEF S

\* How many lines of the k-th run a diff carries, and the hunk it makes.
Shown(near, F, L, k) ==
    IF Count(near, L[k]) <= LineCap THEN L[k] - F[k] + 1 ELSE LineCap - Count(near, L[k - 1])

HunkOf(script, near, F, L, k) ==
    Hunk(script, [first |-> F[k], last |-> L[k]], LinesFrom(script, F[k], Shown(near, F, L, k)))

\* After k groups: their hunks, or those up to the one the cap is met in.
ToldIs(script, near, F, L, k, h, c, b) ==
    /\ h \in Seq({HunkOf(script, near, F, L, j) : j \in 1..k})
    /\ \A j \in 1..Len(h) : h[j] = HunkOf(script, near, F, L, j)
    /\ b \in BOOLEAN /\ Len(h) <= k
    /\ ~b => Len(h) = k /\ c = Count(near, L[k]) /\ c <= LineCap
    /\ b => /\ Len(h) > 0 /\ Count(near, L[Len(h) - 1]) <= LineCap
            /\ Count(near, L[Len(h)]) > LineCap

\* A diff's hunks are those of the runs of places near a change.
LEMMA DiffIs ==
    ASSUME NEW script \in Seq(Tags)
    PROVE  \E g, F, L, h, c :
             /\ Runs(Near(script), Len(script), g, F, L)
             /\ ToldIs(script, Near(script), F, L, g, h, c, Diff(script).truncated)
             /\ Diff(script).hunks = h
             /\ Diff(script).added = CountIn(script, {"insert"}, Len(script))
             /\ Diff(script).removed = CountIn(script, {"delete"}, Len(script))
<1> DEFINE N == Len(script)
           near == Near(script)
           starts == Ordered(StartsOf(near))
           ends == Ordered(EndsOf(near))
           groups == Groups(script)
           Z == [hunks |-> <<>>, carried |-> 0, truncated |-> FALSE]
<1>1. N \in Nat /\ near \subseteq 1..N
  BY DEF Near
<1>2. groups = [k \in 1..Len(starts) |-> [first |-> starts[k], last |-> ends[k]]]
  BY DEF Groups, StartsOf, EndsOf
<1>3. PICK g, F, L : /\ Runs(near, N, g, F, L)
                     /\ Len(starts) = g
                     /\ \A k \in 1..g : starts[k] = F[k] /\ ends[k] = L[k]
  <2> HIDE DEF near, N
  <2>1. PICK g, F, L : Bounded(near, N, starts, ends, g, F, L)
    BY <1>1, RunsAre
  <2> HIDE DEF starts, ends
  <2> QED BY <2>1 DEF Bounded
<1> HIDE DEF near, starts, ends
<1>4. g \in Nat
  BY <1>3 DEF Runs
<1>5. groups = [k \in 1..g |-> [first |-> F[k], last |-> L[k]]]
  BY <1>2, <1>3
<1> HIDE DEF groups
<1>6. Len(groups) = g /\ \A k \in 1..g : groups[k] = [first |-> F[k], last |-> L[k]]
  <2>1. DOMAIN groups = 1..g
    BY <1>5
  <2>2. \A k \in 1..g : groups[k] = [first |-> F[k], last |-> L[k]]
    BY <1>5
  <2> DEFINE X == {groups[k] : k \in 1..g}
  <2>3. groups = [k \in 1..g |-> groups[k]] /\ \A k \in 1..g : groups[k] \in X
    BY <1>5, <2>1
  <2> HIDE DEF X
  <2>4. groups \in Seq(X) /\ Len(groups) = g
    BY <1>4, <2>3
  <2> QED BY <2>2, <2>4
<1> DEFINE told == CHOOSE f : f = [k \in 0..Len(groups) |->
                      IF k = 0 THEN Z ELSE AddGroup(script, f[k - 1], groups[k])]
<1>7. /\ Diff(script).hunks = told[Len(groups)].hunks
      /\ Diff(script).truncated = told[Len(groups)].truncated
      /\ Diff(script).added = CountIn(script, {"insert"}, N)
      /\ Diff(script).removed = CountIn(script, {"delete"}, N)
  BY DEF Diff, groups
<1>8. ToldUpTo(told, script, groups, g)
  <2>1. \E f : ToldUpTo(f, script, groups, g)
    BY <1>4, ToldExists
  <2>2. \E f : f = [k \in 0..Len(groups) |->
                      IF k = 0 THEN Z ELSE AddGroup(script, f[k - 1], groups[k])]
    BY <1>6, <2>1, Zenon DEF ToldUpTo
  <2>3. told = [k \in 0..Len(groups) |->
                      IF k = 0 THEN Z ELSE AddGroup(script, told[k - 1], groups[k])]
    <3> HIDE DEF Z
    <3> QED BY <2>2, Zenon
  <2> HIDE DEF told
  <2> QED BY <1>6, <2>3, Zenon DEF ToldUpTo
<1> HIDE DEF told
<1>9. /\ told[0] = Z
      /\ \A k \in 0..g : k # 0 => told[k] = AddGroup(script, told[k - 1], groups[k])
  <2>1. told = [k \in 0..g |-> IF k = 0 THEN Z ELSE AddGroup(script, told[k - 1], groups[k])]
    BY <1>8, Zenon DEF ToldUpTo
  <2> HIDE DEF Z
  <2>2. \A k \in 0..g : told[k] = IF k = 0 THEN Z ELSE AddGroup(script, told[k - 1], groups[k])
    BY <2>1, Zenon
  <2>3. 0 \in 0..g
    BY <1>4
  <2> QED BY <2>2, <2>3, Zenon
<1>10. /\ Count(near, L[0]) = 0 /\ \A k \in 0..g : Count(near, L[k]) \in Nat
       /\ \A k \in 1..g : Count(near, L[k]) = Count(near, L[k - 1]) + (L[k] - F[k] + 1)
       /\ LineCap \in Nat
       /\ \A k \in 1..g : L[k] \in Nat /\ F[k] \in Nat /\ F[k] <= L[k]
  <2>1. \A k \in 1..g : k \in 0..g
    BY <1>4
  <2>2. F \in [1..g -> Nat] /\ L \in [0..g -> Nat] /\ \A k \in 1..g : F[k] <= L[k]
    BY <1>3 DEF Runs
  <2>3. \A k \in 1..g : L[k] \in Nat /\ F[k] \in Nat /\ F[k] <= L[k]
    BY <2>1, <2>2
  <2>4. LineCap \in Nat
    BY DiffAssumption DEF DiffAssumption
  <2> HIDE DEF N
  <2>5. /\ Count(near, L[0]) = 0 /\ \A k \in 0..g : Count(near, L[k]) \in Nat
        /\ \A k \in 1..g : Count(near, L[k]) = Count(near, L[k - 1]) + (L[k] - F[k] + 1)
    <3>1. Counted(near, g, F, L)
      BY <1>1, <1>3, RunCounts
    <3> QED BY <3>1 DEF Counted
  <2> QED BY <2>3, <2>4, <2>5
<1> HIDE DEF N
<1> DEFINE H(j) == HunkOf(script, near, F, L, j)
           T(k) == Count(near, L[k])
           S == {k \in 0..g : \E h, c, b : /\ told[k] = [hunks |-> h, carried |-> c, truncated |-> b]
                                          /\ ToldIs(script, near, F, L, k, h, c, b)}
<1>11. 0 \in S
  <2>1. <<>> \in Seq({HunkOf(script, near, F, L, j) : j \in 1..0}) /\ Len(<<>>) = 0
    OBVIOUS
  <2>2. ToldIs(script, near, F, L, 0, <<>>, 0, FALSE)
    BY <1>10, <2>1 DEF ToldIs
  <2>3. told[0] = [hunks |-> <<>>, carried |-> 0, truncated |-> FALSE]
    BY <1>9
  <2>4. \E h, c, b : /\ told[0] = [hunks |-> h, carried |-> c, truncated |-> b]
                     /\ ToldIs(script, near, F, L, 0, h, c, b)
    BY <2>2, <2>3, Zenon
  <2>5. 0 \in 0..g
    BY <1>4
  <2> QED BY <2>4, <2>5
<1>12. \A k \in 0..g : k \in S /\ k < g => k + 1 \in S
  <2> TAKE k \in 0..g
  <2> HAVE k \in S /\ k < g
  <2>1. PICK h, c, b : /\ told[k] = [hunks |-> h, carried |-> c, truncated |-> b]
                       /\ ToldIs(script, near, F, L, k, h, c, b)
    OBVIOUS
  <2>2. /\ k + 1 \in 0..g /\ k + 1 # 0 /\ (k + 1) - 1 = k /\ k + 1 \in 1..g /\ k \in Nat
    BY <1>4
  <2> DEFINE f == F[k + 1]
             l == L[k + 1]
             group == [first |-> f, last |-> l]
             length == l - f + 1
             room == LineCap - c
             X == {HunkOf(script, near, F, L, j) : j \in 1..k + 1}
  <2>0. /\ group = [first |-> f, last |-> l] /\ length = l - f + 1 /\ room = LineCap - c
    OBVIOUS
  <2>3. told[k + 1] = AddGroup(script, told[k], group)
    <3>1. told[k + 1] = AddGroup(script, told[(k + 1) - 1], groups[k + 1])
      BY <1>9, <2>2
    <3> QED BY <1>6, <2>2, <3>1
  <2>4. h \in Seq(X)
    <3>1. 1..k \subseteq 1..k + 1
      BY <2>2
    <3>2. {HunkOf(script, near, F, L, j) : j \in 1..k} \subseteq X
      BY <3>1
    <3>3. h \in Seq({HunkOf(script, near, F, L, j) : j \in 1..k})
      BY <2>1, Zenon DEF ToldIs
    <3> HIDE DEF X
    <3> QED BY <3>2, <3>3, Wider
  <2>5. H(k + 1) \in X
    BY <2>2
  <2>6. /\ \A j \in 1..Len(h) : h[j] = H(j)
        /\ b \in BOOLEAN /\ Len(h) <= k
        /\ ~b => Len(h) = k /\ c = T(k) /\ c <= LineCap
        /\ b => /\ Len(h) > 0 /\ T(Len(h) - 1) <= LineCap /\ T(Len(h)) > LineCap
    BY <2>1, Zenon DEF ToldIs
  <2>7. SUFFICES \E h2, c2, b2 :
                   /\ told[k + 1] = [hunks |-> h2, carried |-> c2, truncated |-> b2]
                   /\ ToldIs(script, near, F, L, k + 1, h2, c2, b2)
    BY <2>2
  <2> HIDE DEF S
  <2>8. CASE b
    <3>1. b = TRUE
      BY <2>6, <2>8
    <3>2. told[k + 1] = [hunks |-> h, carried |-> c, truncated |-> b]
      <4>1. told[k] = [hunks |-> h, carried |-> c, truncated |-> TRUE]
        BY <2>1, <3>1
      <4>2. told[k].truncated
        BY <4>1
      <4> QED BY <2>1, <2>3, <4>2, AddGroupDone
    <3>3. Len(h) <= k + 1
      BY <2>2, <2>4, <2>6
    <3>4. ToldIs(script, near, F, L, k + 1, h, c, b)
      BY <2>4, <2>6, <2>8, <3>3, Zenon DEF ToldIs
    <3> QED BY <3>2, <3>4, Zenon
  <2>9. CASE ~b
    <3>1. b = FALSE /\ Len(h) = k /\ c = T(k) /\ c \in Nat /\ c <= LineCap
      BY <1>10, <2>6, <2>9
    <3>2. T(k + 1) = c + length /\ length \in Nat /\ T(k + 1) \in Nat /\ room \in Nat
      <4>1. T(k + 1) = T((k + 1) - 1) + (l - f + 1) /\ l \in Nat /\ f \in Nat /\ f <= l
        BY <1>10, <2>2
      <4> QED BY <1>10, <2>2, <3>1, <4>1
    <3>3. told[k] = [hunks |-> h, carried |-> c, truncated |-> FALSE]
      BY <2>1, <3>1
    <3> DEFINE h2 == Append(h, H(k + 1))
    <3>4. /\ h2 \in Seq(X) /\ Len(h2) = k + 1 /\ h2[k + 1] = H(k + 1)
          /\ \A j \in 1..k : h2[j] = h[j]
      <4> HIDE DEF X, H
      <4> QED BY <2>2, <2>4, <2>5, <3>1
    <3>5. \A j \in 1..Len(h2) : h2[j] = H(j)
      <4> HIDE DEF h2, H
      <4>1. \A j \in 1..k + 1 : j = k + 1 \/ j \in 1..k
        BY <2>2
      <4> QED BY <2>6, <3>1, <3>4, <4>1
    <3> HIDE DEF h2
    <3>6. CASE length > room
      <4>1. Shown(near, F, L, k + 1) = room
        <5>1. ~(T(k + 1) <= LineCap)
          BY <1>10, <3>1, <3>2, <3>6
        <5>2. LineCap - T((k + 1) - 1) = room
          BY <2>2, <3>1
        <5> QED BY <5>1, <5>2 DEF Shown
      <4>2. H(k + 1) = Hunk(script, group, LinesFrom(script, f, room))
        BY <4>1 DEF HunkOf
      <4>3. told[k + 1] = [hunks |-> h2, carried |-> c + room, truncated |-> TRUE]
        <5> HIDE DEF group, length, room, f, l
        <5>1. /\ told[k].hunks = h /\ told[k].carried = c /\ ~told[k].truncated
              /\ group.first = f /\ group.last = l /\ (length > room) = TRUE
          BY <2>0, <3>3, <3>6
        <5>2. room = IF group.last - group.first + 1 > LineCap - told[k].carried
                  THEN LineCap - told[k].carried ELSE group.last - group.first + 1
          BY <2>0, <5>1
        <5>3. AddGroup(script, told[k], group)
                = [hunks |-> Append(told[k].hunks,
                                    Hunk(script, group, LinesFrom(script, group.first, room))),
                   carried |-> told[k].carried + room,
                   truncated |-> group.last - group.first + 1 > LineCap - told[k].carried]
          BY <5>1, <5>2, AddGroupIs
        <5>4. Append(told[k].hunks, Hunk(script, group, LinesFrom(script, group.first, room))) = h2
          BY <4>2, <5>1, Zenon DEF h2
        <5>5. (group.last - group.first + 1 > LineCap - told[k].carried) = TRUE
          BY <2>0, <5>1
        <5> HIDE DEF h2
        <5> QED BY <2>3, <5>1, <5>3, <5>4, <5>5
      <4>4. T(Len(h2) - 1) <= LineCap /\ T(Len(h2)) > LineCap /\ Len(h2) > 0
        <5>1. Len(h2) - 1 = k
          BY <2>2, <3>4
        <5> QED BY <1>10, <2>2, <3>1, <3>2, <3>4, <3>6, <5>1
      <4>5. ToldIs(script, near, F, L, k + 1, h2, c + room, TRUE)
        <5>1. Len(h2) <= k + 1
          BY <2>2, <3>4
        <5> QED BY <3>4, <3>5, <4>4, <5>1 DEF ToldIs
      <4> QED BY <4>3, <4>5, Zenon
    <3>7. CASE ~(length > room)
      <4>1. Shown(near, F, L, k + 1) = length
        <5>1. T(k + 1) <= LineCap
          BY <1>10, <3>1, <3>2, <3>7
        <5> QED BY <5>1 DEF Shown
      <4>2. H(k + 1) = Hunk(script, group, LinesFrom(script, f, length))
        BY <4>1 DEF HunkOf
      <4>3. told[k + 1] = [hunks |-> h2, carried |-> c + length, truncated |-> FALSE]
        <5> HIDE DEF group, length, room, f, l
        <5>1. /\ told[k].hunks = h /\ told[k].carried = c /\ ~told[k].truncated
              /\ group.first = f /\ group.last = l /\ (length > room) = FALSE
          BY <2>0, <3>3, <3>7
        <5>2. length = IF group.last - group.first + 1 > LineCap - told[k].carried
                  THEN LineCap - told[k].carried ELSE group.last - group.first + 1
          BY <2>0, <5>1
        <5>3. AddGroup(script, told[k], group)
                = [hunks |-> Append(told[k].hunks,
                                    Hunk(script, group, LinesFrom(script, group.first, length))),
                   carried |-> told[k].carried + length,
                   truncated |-> group.last - group.first + 1 > LineCap - told[k].carried]
          BY <5>1, <5>2, AddGroupIs
        <5>4. Append(told[k].hunks, Hunk(script, group, LinesFrom(script, group.first, length))) = h2
          BY <4>2, <5>1, Zenon DEF h2
        <5>5. (group.last - group.first + 1 > LineCap - told[k].carried) = FALSE
          BY <2>0, <5>1
        <5> HIDE DEF h2
        <5> QED BY <2>3, <5>1, <5>3, <5>4, <5>5
      <4>4. c + length <= LineCap /\ c + length = T(k + 1)
        BY <1>10, <3>1, <3>2, <3>7
      <4>5. ToldIs(script, near, F, L, k + 1, h2, c + length, FALSE)
        <5>1. Len(h2) <= k + 1 /\ Len(h2) = k + 1
          BY <2>2, <3>4
        <5> QED BY <3>4, <3>5, <4>4, <5>1 DEF ToldIs
      <4> QED BY <4>3, <4>5, Zenon
    <3> QED BY <3>6, <3>7
  <2> QED BY <2>6, <2>8, <2>9
<1>13. g \in S
  <2> HIDE DEF S
  <2>1. 0..g \subseteq S
    BY <1>4, <1>11, <1>12, UpTo
  <2> QED BY <1>4, <2>1
<1>14. PICK h, c, b : /\ told[g] = [hunks |-> h, carried |-> c, truncated |-> b]
                      /\ ToldIs(script, near, F, L, g, h, c, b)
  BY <1>13
<1>15. /\ Diff(script).hunks = h /\ Diff(script).truncated = b
       /\ Diff(script).added = CountIn(script, {"insert"}, N)
       /\ Diff(script).removed = CountIn(script, {"delete"}, N)
  BY <1>6, <1>7, <1>14
<1> HIDE DEF S, H, T
<1>16. ToldIs(script, near, F, L, g, h, c, Diff(script).truncated)
  BY <1>14, <1>15, Zenon
<1> QED BY <1>3, <1>15, <1>16, Zenon DEF near, N

-----------------------------------------------------------------------------
(* What a diff shows. *)

\* The places of lines with some tags.
PlacesOf(script, tags) == {v \in 1..Len(script) : script[v] \in tags}

LEMMA CountInIs ==
    ASSUME NEW script \in Seq(Tags), NEW tags, NEW n \in 0..Len(script)
    PROVE  CountIn(script, tags, n) = Count(PlacesOf(script, tags), n)
<1>1. \A v \in 1..n : v \in 1..Len(script)
  OBVIOUS
<1>2. {v \in 1..n : script[v] \in tags} = {v \in 1..n : v \in PlacesOf(script, tags)}
  BY <1>1 DEF PlacesOf
<1> QED BY <1>2, Zenon DEF CountIn, Count

\* The places before one of a set.
LEMMA BelowIs ==
    ASSUME NEW N \in Nat, NEW P, P \subseteq 1..N, NEW w \in P
    PROVE  Cardinality({v \in P : v < w}) = Count(P, w) - 1
<1>1. w \in 1..N
  OBVIOUS
<1>2. w - 1 \in Nat /\ (w - 1) + 1 = w
  BY <1>1
<1>3. {v \in P : v < w} = {v \in 1..w - 1 : v \in P}
  <2>1. \A v \in 1..N : v < w <=> v \in 1..w - 1
    BY <1>1
  <2>2. \A v \in 1..w - 1 : v \in 1..N
    BY <1>1
  <2> QED BY <2>1, <2>2
<1>4. Cardinality({v \in P : v < w}) = Count(P, w - 1)
  BY <1>3, Zenon DEF Count
<1>5. Count(P, w) = Count(P, w - 1) + 1 /\ Count(P, w - 1) \in Nat
  BY <1>2, CountStep
<1> QED BY <1>4, <1>5

\* The runs follow one another.
LEMMA RunsRise ==
    ASSUME NEW N \in Nat, NEW near, NEW g, NEW F, NEW L, Runs(near, N, g, F, L),
           NEW k \in 0..g, NEW j \in 0..k
    PROVE  /\ L[j] \in Nat /\ L[k] \in Nat /\ L[j] <= L[k]
           /\ Count(near, L[j]) <= Count(near, L[k])
<1>1. g \in Nat /\ \A n \in 0..g : L[n] \in Nat
  <2>1. g \in Nat /\ L \in [0..g -> Nat]
    BY Zenon DEF Runs
  <2> QED BY <2>1
<1>2. \A n \in 1..g : L[n - 1] < F[n] /\ F[n] <= L[n] /\ F[n] \in Nat
  <2>1. F \in [1..g -> Nat] /\ \A n \in 1..g : L[n - 1] < F[n] /\ F[n] <= L[n]
    BY Zenon DEF Runs
  <2> QED BY <2>1
<1> DEFINE S == {n \in Nat : j + n <= k => L[j] <= L[j + n]}
<1>3. 0 \in S
  <2>1. L[j] \in Nat /\ j + 0 = j
    BY <1>1
  <2> QED BY <2>1
<1>4. \A n \in 0..k - j : n \in S /\ n < k - j => n + 1 \in S
  <2> TAKE n \in 0..k - j
  <2> HAVE n \in S /\ n < k - j
  <2>1. /\ j + n <= k /\ j + (n + 1) <= k /\ (j + (n + 1)) - 1 = j + n
        /\ j + (n + 1) \in 1..g /\ j + n \in 0..g /\ j + (n + 1) \in 0..g /\ j \in 0..g
    BY <1>1
  <2>2. L[j] <= L[j + n]
    BY <2>1
  <2> HIDE DEF S
  <2>3. L[j + n] < F[j + (n + 1)] /\ F[j + (n + 1)] <= L[j + (n + 1)] /\ F[j + (n + 1)] \in Nat
    BY <1>2, <2>1
  <2>4. L[j] \in Nat /\ L[j + n] \in Nat /\ L[j + (n + 1)] \in Nat
    BY <1>1, <2>1
  <2>5. L[j] <= L[j + (n + 1)]
    BY <2>2, <2>3, <2>4
  <2> QED BY <2>5 DEF S
<1>5. k - j \in Nat /\ j + (k - j) = k /\ j \in 0..g
  BY <1>1
<1>6. k - j \in S
  <2> HIDE DEF S
  <2> QED BY <1>3, <1>4, <1>5, UpTo
<1>7. L[j] <= L[k] /\ L[j] \in Nat /\ L[k] \in Nat
  BY <1>1, <1>5, <1>6
<1> QED BY <1>7, CountGrows

\* A line that is not near a change is in both files.
LEMMA FarIsEqual ==
    ASSUME NEW script \in Seq(Tags), NEW v \in 1..Len(script), v \notin Near(script)
    PROVE  script[v] = "equal"
<1>1. v - v = 0 /\ ContextLines \in Nat
  BY DiffAssumption DEF DiffAssumption
<1>2. v - v <= ContextLines
  BY <1>1
<1> QED BY <1>2, Zenon DEF Near

\* Places counted from one on are the row of those after.
LEMMA ShiftedRow ==
    ASSUME NEW P, NEW a \in Nat, NEW m \in Nat, NEW Q, Q \subseteq 1..m,
           \A q \in 1..m : q \in Q <=> a + q \in P,
           NEW o, IsRow(Q, o, 0, m), NEW r, r = [x \in 1..Len(o) |-> a + o[x]]
    PROVE  IsRow(P, r, a, a + m)
<1> DEFINE S == {q \in Nat : q <= m => Count(P, a + q) = Count(P, a) + Count(Q, q)}
<1>1. /\ Count(Q, 0) = 0 /\ Count(P, a) \in Nat
      /\ \A n \in Nat : Count(P, n) \in Nat /\ Count(Q, n) \in Nat
  BY CountStep
<1>2. 0 \in S
  BY <1>1
<1>3. \A q \in 0..m : q \in S /\ q < m => q + 1 \in S
  <2> TAKE q \in 0..m
  <2> HAVE q \in S /\ q < m
  <2>1. q \in Nat /\ q + 1 \in 1..m /\ a + (q + 1) = (a + q) + 1 /\ a + q \in Nat
    OBVIOUS
  <2>2. Count(P, a + q) = Count(P, a) + Count(Q, q)
    BY <2>1
  <2> HIDE DEF S
  <2>3. q + 1 \in Q <=> (a + q) + 1 \in P
    BY <2>1
  <2>4. CASE q + 1 \in Q
    <3>1. Count(Q, q + 1) = Count(Q, q) + 1 /\ Count(P, (a + q) + 1) = Count(P, a + q) + 1
      BY <2>1, <2>3, <2>4, CountStep
    <3>2. Count(P, a + (q + 1)) = Count(P, a + q) + 1
      BY <2>1, <3>1
    <3>3. Count(P, a) \in Nat /\ Count(Q, q) \in Nat /\ Count(P, a + q) \in Nat
      BY <1>1, <2>1
    <3>4. Count(P, a + (q + 1)) = Count(P, a) + Count(Q, q + 1)
      BY <2>2, <3>1, <3>2, <3>3
    <3> QED BY <3>4 DEF S
  <2>5. CASE q + 1 \notin Q
    <3>1. Count(Q, q + 1) = Count(Q, q) /\ Count(P, (a + q) + 1) = Count(P, a + q)
      BY <2>1, <2>3, <2>5, CountStep
    <3>2. Count(P, a + (q + 1)) = Count(P, a + q)
      BY <2>1, <3>1
    <3>3. Count(P, a + (q + 1)) = Count(P, a) + Count(Q, q + 1)
      BY <2>2, <3>1, <3>2
    <3> QED BY <3>3 DEF S
  <2> QED BY <2>4, <2>5
<1>4. \A q \in 0..m : Count(P, a + q) = Count(P, a) + Count(Q, q)
  <2>1. 0..m \subseteq S
    <3> HIDE DEF S
    <3> QED BY <1>2, <1>3, UpTo
  <2> QED BY <2>1
<1> HIDE DEF S
<1>5. /\ o \in Seq(Nat) /\ Len(o) = Count(Q, m)
      /\ \A x \in 1..Len(o) : o[x] \in Q /\ o[x] \in 1..m /\ Count(Q, o[x]) = x
  <2>1. /\ o \in Seq(Nat) /\ Len(o) = Count(Q, m) - Count(Q, 0)
        /\ \A x \in 1..Len(o) : o[x] \in Q /\ Count(Q, o[x]) = Count(Q, 0) + x
    BY Zenon DEF IsRow
  <2>2. Len(o) = Count(Q, m)
    BY <1>1, <2>1
  <2>3. \A x \in 1..Len(o) : Count(Q, 0) + x = x
    BY <1>1
  <2> QED BY <2>1, <2>2, <2>3
<1>6. r \in Seq(Nat) /\ Len(r) = Len(o) /\ \A x \in 1..Len(o) : r[x] = a + o[x]
  <2>1. Len(o) \in Nat /\ \A x \in 1..Len(o) : a + o[x] \in Nat
    BY <1>5
  <2> QED BY <2>1
<1>7. ASSUME NEW x \in 1..Len(r)
      PROVE  r[x] \in P /\ r[x] \in a + 1..a + m /\ Count(P, r[x]) = Count(P, a) + x
  <2>1. r[x] = a + o[x] /\ o[x] \in Q /\ o[x] \in 1..m /\ Count(Q, o[x]) = x
    BY <1>5, <1>6
  <2>2. o[x] \in 0..m
    BY <2>1
  <2>3. Count(P, a + o[x]) = Count(P, a) + x /\ a + o[x] \in P
    BY <1>4, <2>1, <2>2
  <2> QED BY <2>1, <2>3
<1>8. Len(r) = Count(P, a + m) - Count(P, a)
  <2>1. Count(P, a + m) = Count(P, a) + Count(Q, m) /\ Count(Q, m) \in Nat
    BY <1>1, <1>4
  <2> QED BY <1>1, <1>5, <1>6, <2>1
<1> QED BY <1>6, <1>7, <1>8 DEF IsRow

\* Rows one after the other are a row.
LEMMA RowsInARow ==
    ASSUME NEW P, NEW M \in Nat, NEW s \in Seq(Seq(Nat)), Len(s) = M, NEW B \in [0..M -> Nat],
           B[0] = 0, \A m \in 1..M : B[m - 1] <= B[m] /\ IsRow(P, s[m], B[m - 1], B[m])
    PROVE  IsRow(P, FlattenSeq(s), 0, B[M])
<1> DEFINE row == FlattenSeq(s)
<1>1. PICK at : Laid(Nat, s, M, at, row)
  BY FlatAt
<1> HIDE DEF row
<1>2. /\ row \in Seq(Nat) /\ at \in [0..M -> Nat] /\ at[0] = 0 /\ Len(row) = at[M]
      /\ \A m \in 1..M : at[m] = at[m - 1] + Len(s[m])
  BY <1>1, Zenon DEF Laid
<1>3. \A m \in 1..M : m \in 0..M /\ m - 1 \in 0..M /\ B[m] \in Nat /\ B[m - 1] \in Nat
  OBVIOUS
<1>4. \A m \in 0..M : Count(P, B[m]) \in Nat
  BY CountStep
<1> DEFINE S == {m \in 0..M : at[m] = Count(P, B[m])}
<1>5. 0 \in S
  BY <1>2, CountStep
<1>6. \A m \in 0..M : m \in S /\ m < M => m + 1 \in S
  <2> TAKE m \in 0..M
  <2> HAVE m \in S /\ m < M
  <2>1. m + 1 \in 1..M /\ (m + 1) - 1 = m /\ m + 1 \in 0..M
    OBVIOUS
  <2>2. at[m] = Count(P, B[m]) /\ at[m + 1] = at[m] + Len(s[m + 1])
    BY <1>2, <2>1
  <2>3. IsRow(P, s[m + 1], B[m], B[m + 1])
    BY <2>1
  <2>4. Len(s[m + 1]) = Count(P, B[m + 1]) - Count(P, B[m])
    BY <2>3 DEF IsRow
  <2>5. Count(P, B[m]) \in Nat /\ Count(P, B[m + 1]) \in Nat
    BY <1>4, <2>1
  <2>6. at[m + 1] = Count(P, B[m + 1])
    BY <2>2, <2>4, <2>5
  <2> QED BY <2>1, <2>6
<1>7. \A m \in 0..M : at[m] = Count(P, B[m])
  <2>1. 0..M \subseteq S
    <3> HIDE DEF S
    <3> QED BY <1>5, <1>6, UpTo
  <2> QED BY <2>1
<1> HIDE DEF S
<1> DEFINE R == {d \in 0..M : B[M - d] <= B[M]}
<1>8. \A m \in 0..M : B[m] <= B[M]
  <2>1. 0 \in R
    <3>1. B[M] \in Nat /\ M - 0 = M
      OBVIOUS
    <3> QED BY <3>1
  <2>2. \A d \in 0..M : d \in R /\ d < M => d + 1 \in R
    <3> TAKE d \in 0..M
    <3> HAVE d \in R /\ d < M
    <3>1. M - d \in 1..M /\ (M - d) - 1 = M - (d + 1) /\ M - (d + 1) \in 0..M /\ d + 1 \in 0..M
      OBVIOUS
    <3>2. B[M - (d + 1)] <= B[M - d] /\ B[M - d] <= B[M]
      BY <3>1
    <3>3. B[M - (d + 1)] \in Nat /\ B[M - d] \in Nat /\ B[M] \in Nat
      BY <1>3, <3>1
    <3> QED BY <3>1, <3>2, <3>3
  <2>3. 0..M \subseteq R
    <3> HIDE DEF R
    <3> QED BY <2>1, <2>2, UpTo
  <2> TAKE m \in 0..M
  <2>4. M - m \in 0..M /\ M - (M - m) = m
    OBVIOUS
  <2>5. M - m \in R
    <3> HIDE DEF R
    <3> QED BY <2>3, <2>4
  <2> QED BY <2>4, <2>5
<1> HIDE DEF R
<1>9. ASSUME NEW x \in 1..Len(row)
      PROVE  row[x] \in P /\ row[x] \in 0 + 1..B[M] /\ Count(P, row[x]) = Count(P, 0) + x
  <2>1. PICK m \in 1..M : \E q \in 1..Len(s[m]) : x = at[m - 1] + q
    BY <1>1, Zenon DEF Laid
  <2>2. PICK q \in 1..Len(s[m]) : x = at[m - 1] + q
    BY <2>1
  <2>3. row[x] = s[m][q]
    BY <1>1, <2>2, Zenon DEF Laid
  <2>4. /\ s[m][q] \in P /\ s[m][q] \in B[m - 1] + 1..B[m]
        /\ Count(P, s[m][q]) = Count(P, B[m - 1]) + q
    <3>1. IsRow(P, s[m], B[m - 1], B[m])
      OBVIOUS
    <3> QED BY <3>1, Zenon DEF IsRow
  <2>5. at[m - 1] = Count(P, B[m - 1])
    BY <1>3, <1>7
  <2>6. B[m - 1] \in Nat /\ B[m] \in Nat /\ B[m] <= B[M] /\ B[M] \in Nat
    BY <1>3, <1>8
  <2>7. s[m][q] \in 0 + 1..B[M]
    <3> DEFINE v == s[m][q]
               b == B[m - 1]
               d == B[m]
               e == B[M]
    <3>1. v \in b + 1..d /\ b \in Nat /\ d \in Nat /\ d <= e /\ e \in Nat
      BY <2>4, <2>6
    <3> HIDE DEF v, b, d, e
    <3>2. v \in 0 + 1..e
      BY <3>1
    <3> QED BY <3>2 DEF v, e
  <2>8. Count(P, 0) + x = x
    BY CountStep
  <2> QED BY <2>2, <2>3, <2>4, <2>5, <2>7, <2>8
<1>10. Len(row) = Count(P, B[M]) - Count(P, 0)
  <2>1. M \in 0..M
    OBVIOUS
  <2>2. Count(P, B[M]) \in Nat /\ Count(P, 0) = 0
    BY <1>4, <2>1, CountStep
  <2> QED BY <1>2, <1>7, <2>1, <2>2
<1>11. IsRow(P, row, 0, B[M])
  BY <1>2, <1>9, <1>10 DEF IsRow
<1> QED BY <1>11 DEF row

\* What a hunk says of one side is the row of that side's places it carries.
LEMMA SideOfHunk ==
    ASSUME NEW script \in Seq(Tags), NEW tags, NEW kinds,
           \A t \in Tags : Kind(t) \in kinds <=> t \in tags,
           NEW f \in Nat, f > 0, NEW n \in Nat, f - 1 + n <= Len(script),
           NEW h, h.lines = LinesFrom(script, f, n)
    PROVE  IsRow(PlacesOf(script, tags), HunkSide(h, kinds), f - 1, f - 1 + n)
<1> DEFINE ls == LinesFrom(script, f, n)
           P == PlacesOf(script, tags)
           Q == {q \in 1..n : ls[q].kind \in kinds}
           o == Ordered(Q)
           a == f - 1
           r == [x \in 1..Len(o) |-> a + o[x]]
<1>1. /\ Len(ls) = n
      /\ \A q \in 1..n : ls[q].kind = Kind(script[f + q - 1]) /\ ls[q].text = f + q - 1
  BY DEF LinesFrom
<1> HIDE DEF ls
<1>2. \A q \in 1..n : q \in Q <=> a + q \in P
  <2> TAKE q \in 1..n
  <2>1. a + q = f + q - 1 /\ a + q \in 1..Len(script)
    OBVIOUS
  <2>2. script[a + q] \in Tags /\ ls[q].kind = Kind(script[a + q])
    BY <1>1, <2>1
  <2>3. Kind(script[a + q]) \in kinds <=> script[a + q] \in tags
    BY <2>2
  <2>4. a + q \in P <=> script[a + q] \in tags
    BY <2>1 DEF PlacesOf
  <2> QED BY <2>2, <2>3, <2>4
<1>3. Q \subseteq 1..n /\ a \in Nat
  OBVIOUS
<1>4. HunkSide(h, kinds) = [x \in 1..Len(o) |-> ls[o[x]].text]
  <2>1. Q = {k \in 1..Len(h.lines) : h.lines[k].kind \in kinds}
    BY <1>1 DEF ls
  <2> DEFINE lines == ItemsAt(h.lines, Q)
  <2>2. HunkSide(h, kinds) = [k \in 1..Len(lines) |-> lines[k].text]
    BY <2>1, Zenon DEF HunkSide
  <2>3. Len(o) \in Nat
    <3> HIDE DEF Q
    <3>1. IsRow(Q, o, 0, n)
      BY <1>3, OrderedRow
    <3> QED BY <3>1 DEF IsRow
  <2>4. lines = [k \in 1..Len(o) |-> ls[o[k]]]
    BY DEF ItemsAt, ls
  <2> HIDE DEF o, Q, lines
  <2>5. Len(lines) = Len(o)
    BY <2>3, <2>4
  <2> QED BY <2>2, <2>4, <2>5
<1> HIDE DEF Q
<1>5. IsRow(Q, o, 0, n)
  BY <1>3, OrderedRow
<1>6. HunkSide(h, kinds) = r
  <2>1. \A x \in 1..Len(o) : o[x] \in 1..n
    <3>1. \A x \in 1..Len(o) : o[x] \in Q
      BY <1>5, Zenon DEF IsRow
    <3> QED BY <1>3, <3>1
  <2>2. \A x \in 1..Len(o) : ls[o[x]].text = a + o[x]
    <3> HIDE DEF o
    <3> QED BY <1>1, <2>1
  <2> HIDE DEF o
  <2> QED BY <1>4, <2>2
<1> HIDE DEF o, P, a
<1>7. IsRow(P, r, a, a + n)
  BY <1>2, <1>3, <1>5, ShiftedRow
<1> QED BY <1>6, <1>7, Zenon DEF P, a

\* The places of each file's lines.
Olds(script) == PlacesOf(script, OldLines)
News(script) == PlacesOf(script, NewLines)

LEMMA SidesAre ==
    ASSUME input \in Seq(Tags)
    PROVE  /\ IsRow(Olds(input), OldFile, 0, Len(input)) /\ Len(OldFile) = Count(Olds(input), Len(input))
           /\ IsRow(News(input), NewFile, 0, Len(input)) /\ Len(NewFile) = Count(News(input), Len(input))
<1>1. OldFile = Ordered(Olds(input)) /\ NewFile = Ordered(News(input))
  BY DEF OldFile, NewFile, Side, Olds, News, PlacesOf
<1>2. Olds(input) \subseteq 1..Len(input) /\ News(input) \subseteq 1..Len(input) /\ Len(input) \in Nat
  BY DEF Olds, News, PlacesOf
<1> QED BY <1>1, <1>2, OrderedRow

\* What a hunk's header says.
LEMMA HunkSays ==
    ASSUME NEW script \in Seq(Tags), NEW f \in Nat, f > 0, NEW l \in Nat, f <= l, l <= Len(script),
           NEW lines, NEW h, h = Hunk(script, [first |-> f, last |-> l], lines)
    PROVE  /\ h.lines = lines
           /\ h.oldStart = Count(Olds(script), f - 1) + 1
           /\ h.oldStart + h.oldCount = Count(Olds(script), l) + 1
           /\ h.newStart = Count(News(script), f - 1) + 1
           /\ h.newStart + h.newCount = Count(News(script), l) + 1
           /\ h.oldCount \in Int /\ h.newCount \in Int
<1>1. f - 1 \in 0..Len(script) /\ l \in 0..Len(script) /\ f - 1 \in Nat
  OBVIOUS
<1>2. /\ CountIn(script, OldLines, f - 1) = Count(Olds(script), f - 1)
      /\ CountIn(script, OldLines, l) = Count(Olds(script), l)
      /\ CountIn(script, NewLines, f - 1) = Count(News(script), f - 1)
      /\ CountIn(script, NewLines, l) = Count(News(script), l)
  BY <1>1, CountInIs DEF Olds, News
<1>3. /\ Count(Olds(script), f - 1) \in Nat /\ Count(Olds(script), l) \in Nat
      /\ Count(News(script), f - 1) \in Nat /\ Count(News(script), l) \in Nat
  BY <1>1, CountStep
<1> DEFINE g == [first |-> f, last |-> l]
<1>4. g.first = f /\ g.last = l
  OBVIOUS
<1>5. /\ h.lines = lines
      /\ h.oldStart = Count(Olds(script), f - 1) + 1
      /\ h.oldCount = Count(Olds(script), l) - Count(Olds(script), f - 1)
      /\ h.newStart = Count(News(script), f - 1) + 1
      /\ h.newCount = Count(News(script), l) - Count(News(script), f - 1)
  <2> HIDE DEF g
  <2>1. h = Hunk(script, g, lines)
    BY DEF g
  <2> QED BY <1>2, <1>4, <2>1 DEF Hunk
<1> QED BY <1>3, <1>5

\* Halving.
LEMMA Halves ==
    /\ \A k \in Nat : /\ (2 * k) % 2 = 0 /\ (2 * k) \div 2 = k
                      /\ (2 * k + 1) % 2 = 1 /\ (2 * k + 1) \div 2 = k
    /\ \A m \in Nat : \E k \in Nat : m = 2 * k \/ m = 2 * k + 1
<1>1. ASSUME NEW m \in Nat PROVE \E k \in Nat : m = 2 * k \/ m = 2 * k + 1
  <2>1. m \div 2 \in Nat /\ (m = 2 * (m \div 2) \/ m = 2 * (m \div 2) + 1)
    OBVIOUS
  <2> QED BY <2>1
<1>2. \A k \in Nat : /\ (2 * k) % 2 = 0 /\ (2 * k) \div 2 = k
                     /\ (2 * k + 1) % 2 = 1 /\ (2 * k + 1) \div 2 = k
  OBVIOUS
<1> QED BY <1>1, <1>2

\* Both counts of a script rest on the lines that stay.
LEMMA CountsAdd ==
    ASSUME NEW script \in Seq(Tags), NEW n \in 0..Len(script)
    PROVE  /\ CountIn(script, {"equal"}, n) \in Nat
           /\ CountIn(script, {"insert"}, n) \in Nat /\ CountIn(script, {"delete"}, n) \in Nat
           /\ Count(News(script), n)
                = CountIn(script, {"equal"}, n) + CountIn(script, {"insert"}, n)
           /\ Count(Olds(script), n)
                = CountIn(script, {"equal"}, n) + CountIn(script, {"delete"}, n)
<1> DEFINE E == PlacesOf(script, {"equal"})
           I == PlacesOf(script, {"insert"})
           D == PlacesOf(script, {"delete"})
           O == Olds(script)
           W == News(script)
           S == {x \in 0..Len(script) : /\ Count(W, x) = Count(E, x) + Count(I, x)
                                        /\ Count(O, x) = Count(E, x) + Count(D, x)}
<1>1. \A v \in 1..Len(script) :
        \/ v \in E /\ v \in W /\ v \in O /\ v \notin I /\ v \notin D
        \/ v \notin E /\ v \in W /\ v \notin O /\ v \in I /\ v \notin D
        \/ v \notin E /\ v \notin W /\ v \in O /\ v \notin I /\ v \in D
  <2> TAKE v \in 1..Len(script)
  <2>1. script[v] = "equal" \/ script[v] = "insert" \/ script[v] = "delete"
    BY DEF Tags
  <2> QED BY <2>1 DEF PlacesOf, Olds, News, OldLines, NewLines
<1> HIDE DEF E, I, D, O, W
<1>2. /\ Count(E, 0) = 0 /\ Count(I, 0) = 0 /\ Count(D, 0) = 0
      /\ Count(O, 0) = 0 /\ Count(W, 0) = 0
      /\ \A x \in Nat : /\ Count(E, x) \in Nat /\ Count(I, x) \in Nat /\ Count(D, x) \in Nat
                        /\ Count(O, x) \in Nat /\ Count(W, x) \in Nat
  BY CountStep
<1>3. 0 \in S
  <2>1. 0 \in 0..Len(script)
    OBVIOUS
  <2>2. Count(W, 0) = Count(E, 0) + Count(I, 0) /\ Count(O, 0) = Count(E, 0) + Count(D, 0)
    BY <1>2
  <2> QED BY <2>1, <2>2
<1>4. \A x \in 0..Len(script) : x \in S /\ x < Len(script) => x + 1 \in S
  <2> TAKE x \in 0..Len(script)
  <2> HAVE x \in S /\ x < Len(script)
  <2>1. x + 1 \in 1..Len(script) /\ x + 1 \in 0..Len(script) /\ x \in Nat
    OBVIOUS
  <2>2. Count(W, x) = Count(E, x) + Count(I, x) /\ Count(O, x) = Count(E, x) + Count(D, x)
    OBVIOUS
  <2> HIDE DEF S
  <2>3. /\ Count(E, x) \in Nat /\ Count(I, x) \in Nat /\ Count(D, x) \in Nat
    BY <1>2, <2>1
  <2>4. /\ Count(W, x + 1) = Count(E, x + 1) + Count(I, x + 1)
        /\ Count(O, x + 1) = Count(E, x + 1) + Count(D, x + 1)
    <3>1. CASE x + 1 \in E
      <4>1. x + 1 \in W /\ x + 1 \in O /\ x + 1 \notin I /\ x + 1 \notin D
        BY <1>1, <2>1, <3>1
      <4>2. /\ Count(W, x + 1) = Count(W, x) + 1 /\ Count(O, x + 1) = Count(O, x) + 1
            /\ Count(I, x + 1) = Count(I, x) /\ Count(D, x + 1) = Count(D, x)
            /\ Count(E, x + 1) = Count(E, x) + 1
        BY <2>1, <3>1, <4>1, CountStep
      <4> QED BY <2>2, <2>3, <4>2
    <3>2. CASE x + 1 \notin E /\ x + 1 \in I
      <4>1. x + 1 \in W /\ x + 1 \notin O /\ x + 1 \notin D
        BY <1>1, <2>1, <3>2
      <4>2. /\ Count(W, x + 1) = Count(W, x) + 1 /\ Count(O, x + 1) = Count(O, x)
            /\ Count(I, x + 1) = Count(I, x) + 1 /\ Count(D, x + 1) = Count(D, x)
            /\ Count(E, x + 1) = Count(E, x)
        BY <2>1, <3>2, <4>1, CountStep
      <4> QED BY <2>2, <2>3, <4>2
    <3>3. CASE x + 1 \notin E /\ x + 1 \notin I
      <4>1. x + 1 \notin W /\ x + 1 \in O /\ x + 1 \in D
        BY <1>1, <2>1, <3>3
      <4>2. /\ Count(W, x + 1) = Count(W, x) /\ Count(O, x + 1) = Count(O, x) + 1
            /\ Count(I, x + 1) = Count(I, x) /\ Count(D, x + 1) = Count(D, x) + 1
            /\ Count(E, x + 1) = Count(E, x)
        BY <2>1, <3>3, <4>1, CountStep
      <4> QED BY <2>2, <2>3, <4>2
    <3> QED BY <3>1, <3>2, <3>3
  <2> QED BY <2>1, <2>4 DEF S
<1>5. n \in S
  <2> HIDE DEF S
  <2>1. 0..Len(script) \subseteq S
    BY <1>3, <1>4, UpTo
  <2> QED BY <2>1
<1>6. /\ CountIn(script, {"equal"}, n) = Count(E, n)
      /\ CountIn(script, {"insert"}, n) = Count(I, n)
      /\ CountIn(script, {"delete"}, n) = Count(D, n)
  BY CountInIs DEF E, I, D
<1>7. /\ Count(W, n) = Count(E, n) + Count(I, n) /\ Count(O, n) = Count(E, n) + Count(D, n)
      /\ Count(E, n) \in Nat /\ Count(I, n) \in Nat /\ Count(D, n) \in Nat
  BY <1>2, <1>5
<1> HIDE DEF S
<1> QED BY <1>6, <1>7 DEF O, W

\* The counts of a diff are those of the whole edit.
LEMMA CountsWhole ==
    ASSUME input \in Seq(Tags) PROVE CountsStayWhole(Diff(input))
<1> DEFINE N == Len(input)
           e == CountIn(input, {"equal"}, N)
           p == CountIn(input, {"insert"}, N)
           m == CountIn(input, {"delete"}, N)
<1>1. N \in 0..Len(input)
  OBVIOUS
<1>2. /\ e \in Nat /\ p \in Nat /\ m \in Nat
      /\ Count(News(input), N) = e + p /\ Count(Olds(input), N) = e + m
  BY <1>1, CountsAdd
<1>3. Len(OldFile) = e + m /\ Len(NewFile) = e + p
  BY <1>2, SidesAre
<1>4. Diff(input).added = p /\ Diff(input).removed = m
  BY DEF Diff
<1> HIDE DEF e, p, m, N
<1>5. /\ (e + p) + m = (e + m) + p /\ (e + p) - p = e
  BY <1>2
<1> QED BY <1>3, <1>4, <1>5 DEF CountsStayWhole, e, N

\* How many of the lines up to the end of the k-th run the cap lets through.
Capped(near, L, k) == IF Count(near, L[k]) <= LineCap THEN Count(near, L[k]) ELSE LineCap

\* Up to the hunk the cap is met in, each carries its run whole.
CarriesUpTo(near, F, L, K) ==
    /\ Capped(near, L, 0) = 0
    /\ \A k \in 1..K : /\ Shown(near, F, L, k) \in Nat
                       /\ Shown(near, F, L, k) <= L[k] - F[k] + 1
                       /\ Capped(near, L, k - 1) = Count(near, L[k - 1])
                       /\ Capped(near, L, k) = Capped(near, L, k - 1) + Shown(near, F, L, k)

LEMMA CarriesWhole ==
    ASSUME NEW script \in Seq(Tags), NEW N, N = Len(script), NEW near, near = Near(script),
           NEW g, NEW F, NEW L, NEW h, NEW c, NEW b,
           Runs(near, N, g, F, L), ToldIs(script, near, F, L, g, h, c, b)
    PROVE  CarriesUpTo(near, F, L, Len(h))
<1> DEFINE K == Len(h)
           T(k) == Count(near, L[k])
<1>1. g \in Nat /\ N \in Nat /\ near \subseteq 1..N
  BY DEF Runs, Near
<1>2. /\ K \in Nat /\ K <= g /\ b \in BOOLEAN
      /\ ~b => K = g /\ T(K) <= LineCap
      /\ b => K > 0 /\ T(K - 1) <= LineCap /\ T(K) > LineCap
  <2>1. /\ h \in Seq({HunkOf(script, near, F, L, j) : j \in 1..g})
        /\ Len(h) <= g /\ b \in BOOLEAN
        /\ ~b => Len(h) = g /\ c = T(g) /\ c <= LineCap
        /\ b => Len(h) > 0 /\ T(Len(h) - 1) <= LineCap /\ T(Len(h)) > LineCap
    BY Zenon DEF ToldIs
  <2>2. Len(h) \in Nat
    BY <2>1
  <2> QED BY <2>1, <2>2
<1>3. LineCap \in Nat
  BY DiffAssumption DEF DiffAssumption
<1>4. Counted(near, g, F, L)
  BY <1>1, RunCounts
<1>5. T(0) = 0 /\ \A k \in 0..g : T(k) \in Nat
  BY <1>4, Zenon DEF Counted
<1>6. \A k \in 1..g : /\ T(k) = T(k - 1) + (L[k] - F[k] + 1)
                      /\ L[k] \in Nat /\ F[k] \in Nat /\ F[k] <= L[k]
  <2>1. \A k \in 1..g : T(k) = T(k - 1) + (L[k] - F[k] + 1)
    BY <1>4, Zenon DEF Counted
  <2>2. F \in [1..g -> Nat] /\ L \in [0..g -> Nat] /\ \A k \in 1..g : F[k] <= L[k]
    BY Zenon DEF Runs
  <2>3. \A k \in 1..g : k \in 0..g
    BY <1>1
  <2> QED BY <2>1, <2>2, <2>3
<1>7. \A k \in 0..K : \A j \in 0..k : T(j) <= T(k)
  <2>1. \A k \in 0..K : k \in 0..g
    BY <1>1, <1>2
  <2> HIDE DEF K
  <2> QED BY <1>1, <2>1, RunsRise
<1>8. ASSUME NEW k \in 1..K
      PROVE  T(k - 1) <= LineCap /\ (T(k) <= LineCap \/ (b /\ k = K))
  <2>1. /\ k - 1 \in 0..K /\ k \in 0..K /\ k \in 0..g /\ k - 1 \in 0..g /\ K \in 0..K
        /\ K \in 0..g /\ K - 1 \in 0..K /\ K - 1 \in 0..g /\ k \in Nat
    BY <1>1, <1>2
  <2>2. T(k - 1) \in Nat /\ T(k) \in Nat /\ T(K) \in Nat /\ T(K - 1) \in Nat
    BY <1>5, <2>1
  <2>3. CASE ~b
    <3>1. k - 1 \in 0..K /\ k \in 0..K
      BY <2>1
    <3>2. T(k - 1) <= T(K) /\ T(k) <= T(K)
      BY <1>7, <2>1, <3>1
    <3>3. T(K) <= LineCap
      BY <1>2, <2>3
    <3>4. T(k - 1) <= LineCap /\ T(k) <= LineCap
      <4> HIDE DEF T, K
      <4> QED BY <1>3, <2>2, <3>2, <3>3
    <3> QED BY <3>4
  <2>4. CASE b
    <3>1. k - 1 \in 0..K - 1 /\ (k = K \/ k \in 0..K - 1)
      BY <1>2, <2>1
    <3>2. T(k - 1) <= T(K - 1) /\ (k = K \/ T(k) <= T(K - 1))
      BY <1>7, <2>1, <3>1
    <3>3. T(K - 1) <= LineCap
      BY <1>2, <2>4
    <3>4. T(k - 1) <= LineCap /\ (k = K \/ T(k) <= LineCap)
      <4> HIDE DEF T, K
      <4> QED BY <1>3, <2>2, <3>2, <3>3
    <3> QED BY <2>4, <3>4
  <2> QED BY <1>2, <2>3, <2>4
<1>9. ASSUME NEW k \in 1..K
      PROVE  /\ Shown(near, F, L, k) \in Nat /\ Shown(near, F, L, k) <= L[k] - F[k] + 1
             /\ Capped(near, L, k - 1) = T(k - 1)
             /\ Capped(near, L, k) = Capped(near, L, k - 1) + Shown(near, F, L, k)
  <2>1. k \in 1..g /\ k \in 0..g /\ k - 1 \in 0..g
    BY <1>1, <1>2
  <2>2. Capped(near, L, k - 1) = T(k - 1)
    BY <1>8 DEF Capped
  <2>3. /\ T(k - 1) \in Nat /\ T(k) \in Nat /\ T(k) = T(k - 1) + (L[k] - F[k] + 1)
        /\ L[k] \in Nat /\ F[k] \in Nat /\ F[k] <= L[k] /\ T(k - 1) <= LineCap
    BY <1>5, <1>6, <1>8, <2>1
  <2>4. CASE T(k) <= LineCap
    <3>1. Shown(near, F, L, k) = L[k] - F[k] + 1 /\ Capped(near, L, k) = T(k)
      BY <2>4 DEF Shown, Capped
    <3> HIDE DEF T
    <3> QED BY <2>2, <2>3, <3>1
  <2>5. CASE ~(T(k) <= LineCap)
    <3>1. Shown(near, F, L, k) = LineCap - T(k - 1) /\ Capped(near, L, k) = LineCap
      BY <2>5 DEF Shown, Capped
    <3> HIDE DEF T
    <3> QED BY <1>3, <2>2, <2>3, <2>5, <3>1
  <2> QED BY <2>4, <2>5
<1>10. Capped(near, L, 0) = 0
  BY <1>3, <1>5 DEF Capped
<1> QED BY <1>9, <1>10 DEF CarriesUpTo

\* The lines a diff carries are the first of those near a change.
LEMMA CutAtCap ==
    ASSUME input \in Seq(Tags) PROVE CutAtTheCap(Diff(input))
<1> DEFINE N == Len(input)
           near == Near(input)
           b == Diff(input).truncated
<1>1. PICK g, F, L, h, c :
        Runs(near, N, g, F, L) /\ ToldIs(input, near, F, L, g, h, c, b) /\ Diff(input).hunks = h
  BY DiffIs
<1>2. N \in Nat /\ near \subseteq 1..N
  BY DEF Near
<1> HIDE DEF near, N, b
<1> DEFINE K == Len(h)
           T(k) == Count(near, L[k])
           W(k) == Capped(near, L, k)
           M(k) == Shown(near, F, L, k)
           X == {[kind |-> Kind(input[v]), text |-> v] : v \in Nat}
           s == [k \in 1..K |-> h[k].lines]
           lines == FlattenSeq(s)
<1>3. /\ g \in Nat /\ K \in Nat /\ K <= g /\ b \in BOOLEAN /\ LineCap \in Nat
      /\ ~b => K = g /\ T(K) <= LineCap
      /\ b => T(K) > LineCap
      /\ \A j \in 1..K : h[j] = HunkOf(input, near, F, L, j)
  <2>1. /\ h \in Seq({HunkOf(input, near, F, L, j) : j \in 1..g})
        /\ Len(h) <= g /\ b \in BOOLEAN
        /\ \A j \in 1..Len(h) : h[j] = HunkOf(input, near, F, L, j)
        /\ ~b => Len(h) = g /\ c = T(g) /\ c <= LineCap
        /\ b => T(Len(h)) > LineCap
    BY <1>1, Zenon DEF ToldIs
  <2>2. Len(h) \in Nat
    BY <2>1
  <2>3. g \in Nat
    BY <1>1 DEF Runs
  <2> QED BY <2>1, <2>2, <2>3, DiffAssumption DEF DiffAssumption
<1>4. /\ W(0) = 0
      /\ \A k \in 1..K : /\ M(k) \in Nat /\ M(k) <= L[k] - F[k] + 1
                         /\ W(k - 1) = T(k - 1) /\ W(k) = W(k - 1) + M(k)
  <2>1. CarriesUpTo(near, F, L, K)
    BY <1>1, CarriesWhole DEF near, N
  <2> QED BY <2>1, Zenon DEF CarriesUpTo
<1>5. /\ Cardinality(near) = T(g) /\ \A k \in 0..g : T(k) \in Nat
      /\ \A k \in 1..g : \A q \in 1..L[k] - F[k] + 1 :
           F[k] + q - 1 \in near /\ Count(near, F[k] + q - 1) = T(k - 1) + q
  <2>1. Counted(near, g, F, L)
    BY <1>1, <1>2, RunCounts
  <2> QED BY <2>1, Zenon DEF Counted
<1>6. \A k \in 1..g : F[k] \in Nat /\ L[k] \in Nat /\ F[k] > 0 /\ F[k] <= L[k] /\ L[k] <= N
  <2> TAKE k \in 1..g
  <2>1. k \in 0..g /\ k - 1 \in 0..g
    BY <1>3
  <2>2. /\ F \in [1..g -> Nat] /\ L \in [0..g -> Nat]
        /\ L[k - 1] < F[k] /\ F[k] <= L[k] /\ L[k] <= N
    BY <1>1, Zenon DEF Runs
  <2>3. F[k] \in Nat /\ L[k] \in Nat /\ L[k - 1] \in Nat
    BY <2>1, <2>2
  <2> QED BY <2>2, <2>3
<1>7. ASSUME NEW k \in 1..K
      PROVE  /\ s[k] = LinesFrom(input, F[k], M(k)) /\ s[k] \in Seq(X) /\ Len(s[k]) = M(k)
             /\ \A q \in 1..M(k) : s[k][q].text = F[k] + q - 1
  <2>1. k \in 1..g
    BY <1>3
  <2>2. h[k] = Hunk(input, [first |-> F[k], last |-> L[k]], LinesFrom(input, F[k], M(k)))
    BY <1>3, Zenon DEF HunkOf
  <2>3. h[k].lines = LinesFrom(input, F[k], M(k))
    BY <2>2 DEF Hunk
  <2>4. s[k] = LinesFrom(input, F[k], M(k))
    BY <2>3
  <2>5. M(k) \in Nat /\ F[k] \in Nat /\ F[k] > 0
    BY <1>4, <1>6, <2>1
  <2> DEFINE m == M(k)
             f == F[k]
             ls == LinesFrom(input, f, m)
  <2> HIDE DEF m, f
  <2>6. \A q \in 1..m : f + q - 1 \in Nat
    BY <2>5 DEF m, f
  <2>7. /\ ls = [q \in 1..m |-> ls[q]]
        /\ \A q \in 1..m : ls[q] = [kind |-> Kind(input[f + q - 1]), text |-> f + q - 1]
    BY Zenon DEF LinesFrom
  <2>8. \A q \in 1..m : ls[q] \in X /\ ls[q].text = f + q - 1
    BY <2>6, <2>7
  <2> HIDE DEF ls, X
  <2>9. ls \in Seq(X) /\ Len(ls) = m
    <3>1. m \in Nat
      BY <2>5 DEF m
    <3>2. ls \in [1..m -> X]
      BY <2>7, <2>8
    <3> QED BY <3>1, <3>2
  <2> QED BY <2>4, <2>8, <2>9 DEF m, f, ls
<1>8. s \in Seq(Seq(X)) /\ Len(s) = K
  <2>1. \A k \in 1..K : s[k] \in Seq(X)
    BY <1>7
  <2>2. s = [k \in 1..K |-> s[k]] /\ K \in Nat
    BY <1>3
  <2> HIDE DEF s, X
  <2> QED BY <2>1, <2>2
<1> HIDE DEF s, X
<1>9. PICK at : Laid(X, s, K, at, lines)
  BY <1>8, FlatAt
<1> HIDE DEF lines
<1>10. /\ at[0] = 0 /\ Len(lines) = at[K] /\ lines \in Seq(X)
       /\ \A k \in 1..K : at[k] = at[k - 1] + M(k)
  <2>1. /\ at[0] = 0 /\ Len(lines) = at[K] /\ lines \in Seq(X)
        /\ \A k \in 1..K : at[k] = at[k - 1] + Len(s[k])
    BY <1>9, Zenon DEF Laid
  <2> QED BY <1>7, <2>1
<1> DEFINE S == {k \in 0..K : at[k] = W(k)}
<1>11. \A k \in 0..K : at[k] = W(k)
  <2>1. 0 \in S
    BY <1>3, <1>4, <1>10
  <2>2. \A k \in 0..K : k \in S /\ k < K => k + 1 \in S
    <3> TAKE k \in 0..K
    <3> HAVE k \in S /\ k < K
    <3>1. k + 1 \in 1..K /\ k + 1 \in 0..K /\ (k + 1) - 1 = k
      BY <1>3
    <3>2. W(k + 1) = W(k) + M(k + 1) /\ at[k + 1] = at[k] + M(k + 1)
      BY <1>4, <1>10, <3>1
    <3> QED BY <3>1, <3>2
  <2>3. 0..K \subseteq S
    <3> HIDE DEF S, K
    <3> QED BY <1>3, <2>1, <2>2, UpTo
  <2> QED BY <2>3
<1> HIDE DEF S
<1>12. T(K) \in Nat /\ T(g) \in Nat /\ T(K) <= T(g)
  <2>1. K \in 0..g /\ g \in 0..g
    BY <1>3
  <2> HIDE DEF K
  <2>2. T(K) <= T(g)
    BY <1>1, <1>2, <2>1, RunsRise
  <2> QED BY <1>5, <2>1, <2>2
<1>13. Len(lines) = IF T(g) > LineCap THEN LineCap ELSE T(g)
  <2>1. K \in 0..K
    BY <1>3
  <2>2. Len(lines) = W(K)
    BY <1>10, <1>11, <2>1
  <2>3. W(K) = IF T(K) <= LineCap THEN T(K) ELSE LineCap
    BY DEF Capped
  <2> HIDE DEF T, W, K
  <2> QED BY <1>3, <1>12, <2>2, <2>3
<1>14. b <=> T(g) > LineCap
  <2> HIDE DEF T, K
  <2> QED BY <1>3, <1>12
<1>15. ASSUME NEW x \in 1..Len(lines) PROVE Cardinality({v \in near : v < lines[x].text}) = x - 1
  <2>1. PICK k \in 1..K : \E q \in 1..Len(s[k]) : x = at[k - 1] + q
    BY <1>9, Zenon DEF Laid
  <2>2. PICK q \in 1..Len(s[k]) : x = at[k - 1] + q
    BY <2>1
  <2>3. lines[x] = s[k][q]
    BY <1>9, <2>2, Zenon DEF Laid
  <2>4. q \in 1..M(k) /\ lines[x].text = F[k] + q - 1
    BY <1>7, <2>3
  <2>5. k \in 1..g /\ k - 1 \in 0..K
    BY <1>3
  <2>6. q \in 1..L[k] - F[k] + 1
    <3>1. M(k) \in Nat /\ M(k) <= L[k] - F[k] + 1 /\ F[k] \in Nat /\ L[k] \in Nat
      BY <1>4, <1>6, <2>5
    <3> HIDE DEF M
    <3> QED BY <2>4, <3>1
  <2> DEFINE w == F[k] + q - 1
  <2>7. w \in near /\ Count(near, w) = T(k - 1) + q
    BY <1>5, <2>5, <2>6
  <2>8. at[k - 1] = T(k - 1)
    BY <1>4, <1>11, <2>5
  <2> HIDE DEF w
  <2>9. Cardinality({v \in near : v < w}) = Count(near, w) - 1
    BY <1>2, <2>7, BelowIs
  <2>10. lines[x].text = w
    BY <2>4 DEF w
  <2> HIDE DEF T
  <2> QED BY <2>2, <2>7, <2>8, <2>9, <2>10
<1>16. lines = FlattenSeq([k \in 1..Len(Diff(input).hunks) |-> Diff(input).hunks[k].lines])
  BY <1>1 DEF lines, s
<1> QED
  <2>1. Cardinality(near) = T(g)
    BY <1>5
  <2> HIDE DEF T
  <2> QED BY <1>13, <1>14, <1>15, <1>16, <2>1 DEF CutAtTheCap, near, b

\* The hunks of a diff that is not truncated show every run whole.
ShowsWhole(script, F, L, g, h) ==
    /\ Len(h) = g
    /\ \A k \in 1..g : h[k] = Hunk(script, [first |-> F[k], last |-> L[k]],
                                    LinesFrom(script, F[k], L[k] - F[k] + 1))

LEMMA WholeWithoutCut ==
    ASSUME NEW script \in Seq(Tags), NEW N, N = Len(script), NEW near, near = Near(script),
           NEW g, NEW F, NEW L, NEW h, NEW c, NEW b, ~b,
           Runs(near, N, g, F, L), ToldIs(script, near, F, L, g, h, c, b)
    PROVE  ShowsWhole(script, F, L, g, h)
<1>1. /\ Len(h) = g /\ Count(near, L[g]) <= LineCap
      /\ \A k \in 1..Len(h) : h[k] = HunkOf(script, near, F, L, k)
  <2>1. /\ Len(h) = g /\ c = Count(near, L[g]) /\ c <= LineCap
        /\ \A k \in 1..Len(h) : h[k] = HunkOf(script, near, F, L, k)
    BY Zenon DEF ToldIs
  <2> QED BY <2>1
<1>2. g \in Nat /\ N \in Nat /\ near \subseteq 1..N /\ LineCap \in Nat
  BY DiffAssumption DEF Runs, Near, DiffAssumption
<1>3. ASSUME NEW k \in 1..g PROVE Shown(near, F, L, k) = L[k] - F[k] + 1
  <2>1. k \in 0..g /\ g \in 0..g /\ k \in 0..g
    BY <1>2
  <2>2. L[k] \in Nat /\ L[g] \in Nat /\ Count(near, L[k]) <= Count(near, L[g])
    BY <1>2, <2>1, RunsRise
  <2>3. Count(near, L[k]) \in Nat /\ Count(near, L[g]) \in Nat
    BY <2>2, CountStep
  <2>4. Count(near, L[k]) <= LineCap
    BY <1>1, <1>2, <2>2, <2>3
  <2> QED BY <2>4 DEF Shown
<1> QED BY <1>1, <1>3 DEF ShowsWhole, HunkOf

\* A run that is shown whole says its lines of both files, and where they are.
SaysBoth(script, f, l, h) ==
    /\ IsRow(Olds(script), HunkSide(h, {"context", "removed"}), f - 1, l)
    /\ IsRow(News(script), HunkSide(h, {"context", "added"}), f - 1, l)
    /\ h.oldStart = Count(Olds(script), f - 1) + 1
    /\ h.oldStart + h.oldCount = Count(Olds(script), l) + 1
    /\ h.newStart = Count(News(script), f - 1) + 1
    /\ h.newStart + h.newCount = Count(News(script), l) + 1
    /\ h.oldCount \in Int /\ h.newCount \in Int

LEMMA RunSaysBoth ==
    ASSUME NEW script \in Seq(Tags), NEW f \in Nat, f > 0, NEW l \in Nat, f <= l, l <= Len(script),
           NEW h, h = Hunk(script, [first |-> f, last |-> l], LinesFrom(script, f, l - f + 1))
    PROVE  SaysBoth(script, f, l, h)
<1>1. /\ h.lines = LinesFrom(script, f, l - f + 1)
      /\ h.oldStart = Count(Olds(script), f - 1) + 1
      /\ h.oldStart + h.oldCount = Count(Olds(script), l) + 1
      /\ h.newStart = Count(News(script), f - 1) + 1
      /\ h.newStart + h.newCount = Count(News(script), l) + 1
      /\ h.oldCount \in Int /\ h.newCount \in Int
  BY HunkSays
<1>2. l - f + 1 \in Nat /\ f - 1 + (l - f + 1) = l
  OBVIOUS
<1>3. \A t \in Tags : /\ Kind(t) \in {"context", "removed"} <=> t \in OldLines
                      /\ Kind(t) \in {"context", "added"} <=> t \in NewLines
  <2>1. Kind("equal") = "context" /\ Kind("insert") = "added" /\ Kind("delete") = "removed"
    BY DEF Kind
  <2> QED BY <2>1 DEF Tags, OldLines, NewLines
<1>4. IsRow(Olds(script), HunkSide(h, {"context", "removed"}), f - 1, l)
  <2> DEFINE n == l - f + 1
  <2>1. n \in Nat /\ f - 1 + n = l
    BY <1>2
  <2>2. h.lines = LinesFrom(script, f, n)
    BY <1>1
  <2> HIDE DEF n
  <2>3. IsRow(PlacesOf(script, OldLines), HunkSide(h, {"context", "removed"}), f - 1, f - 1 + n)
    BY <1>3, <2>1, <2>2, SideOfHunk
  <2> QED BY <2>1, <2>3, Zenon DEF Olds
<1>5. IsRow(News(script), HunkSide(h, {"context", "added"}), f - 1, l)
  <2> DEFINE n == l - f + 1
  <2>1. n \in Nat /\ f - 1 + n = l
    BY <1>2
  <2>2. h.lines = LinesFrom(script, f, n)
    BY <1>1
  <2> HIDE DEF n
  <2>3. IsRow(PlacesOf(script, NewLines), HunkSide(h, {"context", "added"}), f - 1, f - 1 + n)
    BY <1>3, <2>1, <2>2, SideOfHunk
  <2> QED BY <2>1, <2>3, Zenon DEF News
<1> QED BY <1>1, <1>4, <1>5 DEF SaysBoth

\* What lies between two runs is in both files, and in the same lines.
LEMMA GapIsBoth ==
    ASSUME input \in Seq(Tags), NEW a \in Nat, NEW e \in Nat, a <= e, e <= Len(input),
           \A v \in a + 1..e : v \notin Near(input)
    PROVE  IsRow(News(input),
                 SubSeq(OldFile, Count(Olds(input), a) + 1, Count(Olds(input), e)), a, e)
<1>1. \A v \in a + 1..e : v \in Olds(input) /\ v \in News(input)
  <2> TAKE v \in a + 1..e
  <2>1. v \in 1..Len(input)
    OBVIOUS
  <2>2. input[v] = "equal"
    BY <2>1, FarIsEqual
  <2> QED BY <2>1, <2>2 DEF Olds, News, PlacesOf, OldLines, NewLines
<1> DEFINE r == SubSeq(OldFile, Count(Olds(input), a) + 1, Count(Olds(input), e))
<1>2. IsRow(Olds(input), r, a, e)
  <2>1. IsRow(Olds(input), OldFile, 0, Len(input)) /\ Len(input) \in Nat
    BY SidesAre
  <2> QED BY <2>1, RowPart
<1>3. a + 1..e \subseteq Olds(input) /\ a + 1..e \subseteq News(input)
  BY <1>1
<1> HIDE DEF r
<1>4. IsRow(News(input), r, a, e)
  BY <1>2, <1>3, RowOfBoth
<1> QED BY <1>4 DEF r

\* The hunks of a whole diff, put where their headers say, make the new file.
LEMMA PutsBack ==
    ASSUME input \in Seq(Tags), NEW g, NEW F, NEW L, Runs(Near(input), Len(input), g, F, L),
           NEW h, Len(h) = g, \A k \in 1..g : SaysBoth(input, F[k], L[k], h[k])
    PROVE  Patched(h) = NewFile
<1> DEFINE N == Len(input)
           O == Olds(input)
           P == News(input)
           Begin(k) == IF k = 0 THEN 1 ELSE h[k].oldStart + h[k].oldCount
           Until(k) == IF k = g THEN Len(OldFile) ELSE h[k + 1].oldStart - 1
           Between(k) == SubSeq(OldFile, Begin(k), Until(k))
           Side2(k) == HunkSide(h[k], {"context", "added"})
           M == 2 * g + 1
           pieces == [k \in 1..M |-> IF k % 2 = 0 THEN Side2(k \div 2) ELSE Between(k \div 2)]
           E(k) == IF k = g THEN N ELSE F[k + 1] - 1
           B == [m \in 0..M |-> IF m % 2 = 0 THEN L[m \div 2] ELSE E(m \div 2)]
<1>1. Patched(h) = FlattenSeq(pieces)
  BY DEF Patched
<1>2. /\ g \in Nat /\ N \in Nat /\ L[0] = 0
      /\ \A k \in 0..g : L[k] \in Nat /\ L[k] <= N
      /\ \A k \in 1..g : F[k] \in Nat /\ F[k] > 0 /\ L[k - 1] < F[k] /\ F[k] <= L[k]
      /\ \A k \in 1..g : \A v \in L[k - 1] + 1..F[k] - 1 : v \notin Near(input)
      /\ \A v \in L[g] + 1..N : v \notin Near(input)
  <2>1. /\ g \in Nat /\ F \in [1..g -> Nat] /\ L \in [0..g -> Nat] /\ L[0] = 0
        /\ \A k \in 1..g : /\ L[k - 1] < F[k] /\ F[k] <= L[k] /\ L[k] <= N
                           /\ \A v \in L[k - 1] + 1..F[k] - 1 : v \notin Near(input)
        /\ \A v \in L[g] + 1..N : v \notin Near(input)
    BY Zenon DEF Runs
  <2>2. N \in Nat
    OBVIOUS
  <2> HIDE DEF N
  <2>3. \A k \in 1..g : k - 1 \in 0..g /\ k \in 0..g
    BY <2>1
  <2>4. \A k \in 1..g : F[k] \in Nat /\ L[k] \in Nat /\ L[k - 1] \in Nat
    BY <2>1, <2>3
  <2>5. \A k \in 1..g : F[k] > 0
    BY <2>1, <2>4
  <2>6. \A k \in 0..g : L[k] \in Nat /\ L[k] <= N
    <3> TAKE k \in 0..g
    <3>1. CASE k = 0
      BY <2>1, <2>2, <3>1
    <3>2. CASE k # 0
      <4>1. k \in 1..g
        BY <3>2
      <4> QED BY <2>1, <2>4, <4>1
    <3> QED BY <3>1, <3>2
  <2> QED BY <2>1, <2>2, <2>4, <2>5, <2>6
<1>3. Len(OldFile) = Count(O, N) /\ IsRow(P, NewFile, 0, N)
  BY SidesAre
<1>4. \A k \in 1..g : /\ IsRow(P, Side2(k), F[k] - 1, L[k])
                      /\ h[k].oldStart = Count(O, F[k] - 1) + 1
                      /\ h[k].oldStart + h[k].oldCount = Count(O, L[k]) + 1
  BY Zenon DEF SaysBoth
<1>5. ASSUME NEW k \in 0..g
      PROVE  E(k) \in Nat /\ L[k] <= E(k) /\ E(k) <= N /\ IsRow(P, Between(k), L[k], E(k))
  <2>1. E(k) \in Nat /\ L[k] <= E(k) /\ E(k) <= N /\ \A v \in L[k] + 1..E(k) : v \notin Near(input)
    <3>1. CASE k = g
      BY <1>2, <3>1
    <3>2. CASE k # g
      <4>1. k + 1 \in 1..g /\ k + 1 \in 0..g /\ (k + 1) - 1 = k
        BY <1>2, <3>2
      <4>2. /\ F[k + 1] \in Nat /\ F[k + 1] > 0 /\ L[k] < F[k + 1] /\ F[k + 1] <= L[k + 1]
            /\ L[k + 1] \in Nat /\ L[k + 1] <= N /\ L[k] \in Nat
            /\ \A v \in L[k] + 1..F[k + 1] - 1 : v \notin Near(input)
        BY <1>2, <4>1
      <4>3. E(k) = F[k + 1] - 1
        BY <3>2
      <4> HIDE DEF E, N
      <4> QED BY <1>2, <4>2, <4>3
    <3> QED BY <3>1, <3>2
  <2>2. Begin(k) = Count(O, L[k]) + 1
    <3>1. CASE k = 0
      <4>1. Count(O, 0) = 0
        BY CountStep
      <4> QED BY <1>2, <3>1, <4>1
    <3>2. CASE k # 0
      <4>1. k \in 1..g
        BY <3>2
      <4> QED BY <1>4, <3>2, <4>1
    <3> QED BY <3>1, <3>2
  <2>3. Until(k) = Count(O, E(k))
    <3>1. CASE k = g
      BY <1>3, <3>1
    <3>2. CASE k # g
      <4>1. k + 1 \in 1..g
        BY <1>2, <3>2
      <4>2. h[k + 1].oldStart = Count(O, F[k + 1] - 1) + 1
        BY <1>4, <4>1
      <4>3. F[k + 1] - 1 \in Nat
        BY <1>2, <4>1
      <4>4. Count(O, F[k + 1] - 1) \in Nat
        BY <4>3, CountStep
      <4>5. Until(k) = h[k + 1].oldStart - 1 /\ E(k) = F[k + 1] - 1
        BY <3>2
      <4> HIDE DEF O, E, Until
      <4> QED BY <4>2, <4>4, <4>5
    <3> QED BY <3>1, <3>2
  <2>4. Between(k) = SubSeq(OldFile, Count(O, L[k]) + 1, Count(O, E(k)))
    BY <2>2, <2>3
  <2>5. L[k] \in Nat
    BY <1>2
  <2> DEFINE a == L[k]
             e == E(k)
  <2>6. /\ a \in Nat /\ e \in Nat /\ a <= e /\ e <= Len(input)
        /\ \A v \in a + 1..e : v \notin Near(input)
    BY <2>1, <2>5
  <2> HIDE DEF a, e
  <2>7. IsRow(News(input),
              SubSeq(OldFile, Count(Olds(input), a) + 1, Count(Olds(input), e)), a, e)
    BY <2>6, GapIsBoth
  <2>8. IsRow(P, Between(k), L[k], E(k))
    BY <2>4, <2>7, Zenon DEF a, e
  <2> QED BY <2>1, <2>8
<1> HIDE DEF E, Side2, Between, Begin, Until, N, P, O
<1>6. \A k \in 0..g : 2 * k \in 0..M /\ B[2 * k] = L[k]
  <2> TAKE k \in 0..g
  <2>1. k \in Nat /\ 2 * k \in 0..M
    BY <1>2
  <2>2. (2 * k) % 2 = 0 /\ (2 * k) \div 2 = k
    BY <2>1, Halves
  <2> QED BY <2>1, <2>2
<1>7. \A k \in 0..g : 2 * k + 1 \in 0..M /\ B[2 * k + 1] = E(k)
  <2> TAKE k \in 0..g
  <2>1. k \in Nat /\ 2 * k + 1 \in 0..M
    BY <1>2
  <2>2. (2 * k + 1) % 2 = 1 /\ (2 * k + 1) \div 2 = k
    BY <2>1, Halves
  <2> QED BY <2>1, <2>2
<1>8. \A k \in 1..g : pieces[2 * k] = Side2(k)
  <2> TAKE k \in 1..g
  <2>1. k \in Nat /\ 2 * k \in 1..M
    BY <1>2
  <2>2. (2 * k) % 2 = 0 /\ (2 * k) \div 2 = k
    BY <2>1, Halves
  <2> QED BY <2>1, <2>2
<1>9. \A k \in 0..g : pieces[2 * k + 1] = Between(k)
  <2> TAKE k \in 0..g
  <2>1. k \in Nat /\ 2 * k + 1 \in 1..M
    BY <1>2
  <2>2. (2 * k + 1) % 2 = 1 /\ (2 * k + 1) \div 2 = k
    BY <2>1, Halves
  <2> QED BY <2>1, <2>2
<1>10. pieces = [m \in 1..M |-> pieces[m]] /\ M \in Nat
  BY <1>2
<1>11. \A m \in 0..M : \E k \in 0..g : m = 2 * k \/ m = 2 * k + 1
  <2> TAKE m \in 0..M
  <2>0. m \in Nat
    BY <1>2
  <2>1. PICK k \in Nat : m = 2 * k \/ m = 2 * k + 1
    BY <2>0, Halves
  <2>2. k \in 0..g
    BY <1>2, <2>1
  <2> QED BY <2>1, <2>2
<1>12. \A m \in 0..M : B[m] \in Nat
  <2> TAKE m \in 0..M
  <2>1. PICK k \in 0..g : m = 2 * k \/ m = 2 * k + 1
    BY <1>11
  <2> HIDE DEF B
  <2> QED BY <1>2, <1>5, <1>6, <1>7, <2>1
<1>13. B \in [0..M -> Nat] /\ B[0] = 0 /\ B[M] = N
  <2>1. B \in [0..M -> Nat]
    BY <1>12
  <2> HIDE DEF B
  <2>2. 0 \in 0..g /\ g \in 0..g /\ 2 * 0 = 0
    BY <1>2
  <2>3. B[0] = 0
    BY <1>2, <1>6, <2>2
  <2>4. B[M] = E(g)
    BY <1>7, <2>2
  <2>5. E(g) = N
    BY DEF E
  <2> QED BY <2>1, <2>3, <2>4, <2>5
<1> HIDE DEF B, pieces
<1>14. ASSUME NEW m \in 1..M
       PROVE  B[m - 1] <= B[m] /\ IsRow(P, pieces[m], B[m - 1], B[m])
  <2>1. PICK k \in 0..g : m = 2 * k \/ m = 2 * k + 1
    BY <1>10, <1>11
  <2>2. CASE m = 2 * k
    <3>1. k \in 1..g /\ k - 1 \in 0..g /\ m - 1 = 2 * (k - 1) + 1
      BY <1>2, <2>2
    <3>2. B[m] = L[k] /\ B[m - 1] = E(k - 1) /\ pieces[m] = Side2(k)
      BY <1>6, <1>7, <1>8, <2>2, <3>1
    <3>3. E(k - 1) = F[k] - 1
      <4>1. k - 1 # g /\ (k - 1) + 1 = k
        BY <1>2, <3>1
      <4> QED BY <4>1 DEF E
    <3>4. F[k] \in Nat /\ L[k] \in Nat /\ F[k] <= L[k]
      BY <1>2, <3>1
    <3>5. F[k] - 1 <= L[k]
      BY <3>4
    <3>6. IsRow(P, Side2(k), F[k] - 1, L[k])
      BY <1>4, <3>1
    <3> QED BY <3>2, <3>3, <3>5, <3>6
  <2>3. CASE m = 2 * k + 1
    <3>1. m - 1 = 2 * k
      BY <1>2, <2>3
    <3>2. B[m] = E(k) /\ B[m - 1] = L[k] /\ pieces[m] = Between(k)
      BY <1>6, <1>7, <1>9, <2>3, <3>1
    <3> QED BY <1>5, <3>2
  <2> QED BY <2>1, <2>2, <2>3
<1>15. pieces \in Seq(Seq(Nat)) /\ Len(pieces) = M
  <2>1. \A m \in 1..M : pieces[m] \in Seq(Nat)
    BY <1>14 DEF IsRow
  <2> DEFINE X == Seq(Nat)
  <2>2. \A m \in 1..M : pieces[m] \in X
    BY <2>1
  <2> HIDE DEF M, X
  <2>3. pieces \in [1..M -> X]
    BY <1>10, <2>2
  <2>4. pieces \in Seq(X) /\ Len(pieces) = M
    BY <1>10, <2>3
  <2> QED BY <2>4 DEF X
<1>16. IsRow(P, FlattenSeq(pieces), 0, N)
  <2>1. IsRow(P, FlattenSeq(pieces), 0, B[M])
    <3> HIDE DEF M
    <3> QED BY <1>10, <1>13, <1>14, <1>15, RowsInARow
  <2> QED BY <1>13, <2>1
<1> QED BY <1>1, <1>2, <1>3, <1>16, OneRow

\* And each says its part of both files.
LEMMA RebuildsFile ==
    ASSUME input \in Seq(Tags) PROVE RebuildsTheFile(Diff(input))
<1> SUFFICES ASSUME ~Diff(input).truncated
    PROVE  /\ Patched(Diff(input).hunks) = NewFile
           /\ \A k \in 1..Len(Diff(input).hunks) :
                /\ HunkSide(Diff(input).hunks[k], {"context", "removed"})
                     = SubSeq(OldFile, Diff(input).hunks[k].oldStart,
                              Diff(input).hunks[k].oldStart + Diff(input).hunks[k].oldCount - 1)
                /\ HunkSide(Diff(input).hunks[k], {"context", "added"})
                     = SubSeq(NewFile, Diff(input).hunks[k].newStart,
                              Diff(input).hunks[k].newStart + Diff(input).hunks[k].newCount - 1)
  BY DEF RebuildsTheFile
<1> DEFINE N == Len(input)
           b == Diff(input).truncated
<1>1. PICK g, F, L, h, c : /\ Runs(Near(input), N, g, F, L)
                           /\ ToldIs(input, Near(input), F, L, g, h, c, b)
                           /\ Diff(input).hunks = h
  BY DiffIs
<1>2. ShowsWhole(input, F, L, g, h)
  <2>1. ~b
    OBVIOUS
  <2> HIDE DEF b
  <2> QED BY <1>1, <2>1, WholeWithoutCut
<1>3. Len(h) = g
  BY <1>2 DEF ShowsWhole
<1>4. ASSUME NEW k \in 1..g
      PROVE  /\ F[k] \in Nat /\ F[k] > 0 /\ L[k] \in Nat /\ F[k] <= L[k] /\ L[k] <= N
             /\ SaysBoth(input, F[k], L[k], h[k])
  <2>1. /\ g \in Nat /\ F \in [1..g -> Nat] /\ L \in [0..g -> Nat]
        /\ L[k - 1] < F[k] /\ F[k] <= L[k] /\ L[k] <= N
    BY <1>1, Zenon DEF Runs
  <2>2. k - 1 \in 0..g /\ k \in 0..g
    BY <2>1
  <2>3. F[k] \in Nat /\ L[k] \in Nat /\ L[k - 1] \in Nat
    BY <2>1, <2>2
  <2>4. F[k] > 0
    BY <2>1, <2>3
  <2>5. h[k] = Hunk(input, [first |-> F[k], last |-> L[k]], LinesFrom(input, F[k], L[k] - F[k] + 1))
    BY <1>2, Zenon DEF ShowsWhole
  <2> DEFINE f == F[k]
             l == L[k]
  <2>6. /\ f \in Nat /\ f > 0 /\ l \in Nat /\ f <= l /\ l <= Len(input)
        /\ h[k] = Hunk(input, [first |-> f, last |-> l], LinesFrom(input, f, l - f + 1))
    BY <2>1, <2>3, <2>4, <2>5
  <2> HIDE DEF f, l
  <2>7. SaysBoth(input, f, l, h[k])
    BY <2>6, RunSaysBoth
  <2> QED BY <2>1, <2>3, <2>4, <2>7 DEF f, l
<1>5. Patched(h) = NewFile
  BY <1>1, <1>3, <1>4, PutsBack
<1>6. ASSUME NEW k \in 1..g
      PROVE  /\ HunkSide(h[k], {"context", "removed"})
                  = SubSeq(OldFile, h[k].oldStart, h[k].oldStart + h[k].oldCount - 1)
             /\ HunkSide(h[k], {"context", "added"})
                  = SubSeq(NewFile, h[k].newStart, h[k].newStart + h[k].newCount - 1)
  <2> DEFINE O == Olds(input)
             P == News(input)
             a == F[k] - 1
             e == L[k]
  <2>1. a \in Nat /\ e \in Nat /\ a <= e /\ e <= N /\ N \in Nat
    BY <1>4
  <2>2. SaysBoth(input, F[k], e, h[k])
    BY <1>4
  <2>3. /\ IsRow(O, HunkSide(h[k], {"context", "removed"}), a, e)
        /\ IsRow(P, HunkSide(h[k], {"context", "added"}), a, e)
        /\ h[k].oldStart = Count(O, a) + 1
        /\ h[k].oldStart + h[k].oldCount = Count(O, e) + 1
        /\ h[k].newStart = Count(P, a) + 1
        /\ h[k].newStart + h[k].newCount = Count(P, e) + 1
        /\ h[k].oldCount \in Int /\ h[k].newCount \in Int
    BY <2>2, Zenon DEF SaysBoth
  <2>4. IsRow(O, OldFile, 0, N) /\ IsRow(P, NewFile, 0, N)
    BY SidesAre
  <2> HIDE DEF O, P, a, e, N
  <2>5. /\ IsRow(O, SubSeq(OldFile, Count(O, a) + 1, Count(O, e)), a, e)
        /\ IsRow(P, SubSeq(NewFile, Count(P, a) + 1, Count(P, e)), a, e)
    BY <2>1, <2>4, RowPart
  <2>6. /\ HunkSide(h[k], {"context", "removed"})
             = SubSeq(OldFile, Count(O, a) + 1, Count(O, e))
        /\ HunkSide(h[k], {"context", "added"})
             = SubSeq(NewFile, Count(P, a) + 1, Count(P, e))
    BY <2>1, <2>3, <2>5, OneRow
  <2>7. /\ Count(O, a) \in Nat /\ Count(P, a) \in Nat
        /\ Count(O, e) \in Nat /\ Count(P, e) \in Nat
    BY <2>1, CountStep
  <2>8. /\ h[k].oldStart + h[k].oldCount - 1 = Count(O, e)
        /\ h[k].newStart + h[k].newCount - 1 = Count(P, e)
    <3> DEFINE x == h[k].oldStart
               y == h[k].oldCount
               z == Count(O, e)
               u == h[k].newStart
               v == h[k].newCount
               w == Count(P, e)
    <3>1. x \in Int /\ y \in Int /\ z \in Int /\ x + y = z + 1
      BY <2>3, <2>7
    <3>2. u \in Int /\ v \in Int /\ w \in Int /\ u + v = w + 1
      BY <2>3, <2>7
    <3> HIDE DEF x, y, z, u, v, w
    <3>3. x + y - 1 = z /\ u + v - 1 = w
      BY <3>1, <3>2
    <3> QED BY <3>3 DEF x, y, z, u, v, w
  <2> QED BY <2>3, <2>6, <2>8
<1> QED BY <1>1, <1>3, <1>5, <1>6

-----------------------------------------------------------------------------
(* The diffs of MCFunctions. *)

\* An answered diff is that of its script.
DiffInv ==
    called = "diff" => input \in Seq(Tags) /\ output \in {Pending, <<Diff(input)>>}

(***************************************************************************)
(* A diff that is not truncated turns the old file into the new one when   *)
(* its hunks are put where their headers say; a truncated one is its       *)
(* beginning, as many lines as the cap allows; the counts are whole        *)
(* (diff.rs).  For any context, any cap and scripts of any length.         *)
(***************************************************************************)
THEOREM DiffsTellTheEdit == CallSpec => []DiffTellsTheEdit
<1>1. CallInit => DiffInv
  <2> SUFFICES ASSUME CallInit, called = "diff" PROVE DiffInv
    BY DEF DiffInv
  <2>1. input \in BoundedSeq(Tags, MaxLines) /\ output = Pending
    BY DEF CallInit, Scripts
  <2>2. MaxLines \in Nat
    BY FunctionsAssumption DEF FunctionsAssumption
  <2>3. input \in Seq(Tags)
    BY <2>1, <2>2, ShortRow
  <2> QED BY <2>1, <2>3 DEF DiffInv
<1>2. DiffInv /\ [CallNext]_callVars => DiffInv'
  <2> SUFFICES ASSUME DiffInv, [CallNext]_callVars PROVE DiffInv'
    OBVIOUS
  <2>1. /\ called' = called /\ input' = input
        /\ called = "diff" => output' \in {output, <<Diff(input)>>}
    BY DEF CallNext, Answer, callVars
  <2> QED BY <2>1 DEF DiffInv
<1>3. DiffInv => DiffTellsTheEdit
  <2> SUFFICES ASSUME DiffInv, Answered("diff") PROVE DiffTellsTheEdit
    BY DEF DiffTellsTheEdit
  <2>1. input \in Seq(Tags) /\ output[1] = Diff(input)
    BY DEF DiffInv, Answered
  <2>2. /\ RebuildsTheFile(Diff(input)) /\ CutAtTheCap(Diff(input))
        /\ CountsStayWhole(Diff(input))
    BY <2>1, RebuildsFile, CutAtCap, CountsWhole
  <2> QED BY <2>1, <2>2 DEF DiffTellsTheEdit
<1> QED BY <1>1, <1>2, <1>3, PTL DEF CallSpec

-----------------------------------------------------------------------------
(* The text of an edit: where its target is found. *)

\* Up to n, one place after the other is taken, unless it lies in the one before.
GreedyUpTo(text, part, f, n) ==
    f = [k \in 0..n |->
           IF k = 0 THEN <<>>
           ELSE IF OccursAt(text, part, k)
                     /\ (f[k - 1] = <<>> \/ Last(f[k - 1]) + Len(part) <= k)
           THEN Append(f[k - 1], k) ELSE f[k - 1]]

Greedy(text, part, f) == GreedyUpTo(text, part, f, Len(text))

\* The function Matches chooses exists.
LEMMA GreedyExists ==
    ASSUME NEW text, NEW part, NEW N \in Nat PROVE \E f : GreedyUpTo(text, part, f, N)
<1> DEFINE S == {n \in 0..N : \E f : GreedyUpTo(text, part, f, n)}
           More(before, k) == IF OccursAt(text, part, k)
                                   /\ (before = <<>> \/ Last(before) + Len(part) <= k)
                              THEN Append(before, k) ELSE before
<1>0. ASSUME NEW f, NEW n
      PROVE  GreedyUpTo(text, part, f, n)
               <=> f = [k \in 0..n |-> IF k = 0 THEN <<>> ELSE More(f[k - 1], k)]
  BY Zenon DEF GreedyUpTo
<1> HIDE DEF More
<1>1. 0 \in S
  <2>1. PICK f : f = [k \in 0..0 |-> <<>>]
    OBVIOUS
  <2>2. f = [k \in 0..0 |-> IF k = 0 THEN <<>> ELSE More(f[k - 1], k)]
    BY <2>1
  <2>3. \E g : GreedyUpTo(text, part, g, 0)
    BY <1>0, <2>2, Zenon
  <2> QED BY <2>3
<1>2. ASSUME NEW n \in 0..N, n \in S /\ n < N PROVE n + 1 \in S
  <2>1. PICK f : GreedyUpTo(text, part, f, n)
    BY <1>2
  <2>2. f = [k \in 0..n |-> IF k = 0 THEN <<>> ELSE More(f[k - 1], k)]
    BY <1>0, <2>1, Zenon
  <2>3. PICK g : g = [k \in 0..n + 1 |-> IF k = 0 THEN <<>> ELSE More(f[k - 1], k)]
    OBVIOUS
  <2>4. \A k \in 0..n : f[k] = IF k = 0 THEN <<>> ELSE More(f[k - 1], k)
    BY <2>2, Zenon
  <2>5. \A k \in 0..n : g[k] = f[k]
    <3>1. \A k \in 0..n : k \in 0..n + 1
      OBVIOUS
    <3> QED BY <2>3, <2>4, <3>1
  <2>6. \A k \in 0..n + 1 : k # 0 => k - 1 \in 0..n
    OBVIOUS
  <2>7. \A k \in 0..n + 1 : g[k] = IF k = 0 THEN <<>> ELSE More(g[k - 1], k)
    BY <2>3, <2>5, <2>6
  <2>8. g = [k \in 0..n + 1 |-> IF k = 0 THEN <<>> ELSE More(g[k - 1], k)]
    BY <2>3, <2>7
  <2>9. GreedyUpTo(text, part, g, n + 1)
    BY <1>0, <2>8, Zenon
  <2> QED BY <1>2, <2>9
<1> HIDE DEF S
<1>3. 0..N \subseteq S
  BY <1>1, <1>2, UpTo
<1> QED BY <1>3 DEF S

LEMMA MatchesAre ==
    ASSUME NEW text, NEW part, Len(text) \in Nat
    PROVE  \E f : Matches(text, part) = f[Len(text)] /\ Greedy(text, part, f)
<1> DEFINE found == CHOOSE f : f = [k \in 0..Len(text) |->
             IF k = 0 THEN <<>>
             ELSE IF OccursAt(text, part, k)
                       /\ (f[k - 1] = <<>> \/ Last(f[k - 1]) + Len(part) <= k)
             THEN Append(f[k - 1], k) ELSE f[k - 1]]
<1>1. Matches(text, part) = found[Len(text)]
  BY DEF Matches
<1>2. \E f : Greedy(text, part, f)
  <2>1. \E f : GreedyUpTo(text, part, f, Len(text))
    BY GreedyExists
  <2> QED BY <2>1, Zenon DEF Greedy, GreedyUpTo
<1>3. Greedy(text, part, found)
  <2>1. found = CHOOSE f : Greedy(text, part, f)
    BY Zenon DEF Greedy, GreedyUpTo
  <2> HIDE DEF found
  <2> QED BY <1>2, <2>1, Zenon
<1> HIDE DEF found
<1> QED BY <1>1, <1>3

\* No place in a set lies in another of it.
Apart(S, n) == \A a, b \in S : a < b => a + n <= b

\* The places taken up to k: apart, and one less just before the last of them.
TakenUpTo(text, part, f, k) ==
    /\ f[k] \in Seq(Nat)
    /\ \A x \in 1..Len(f[k]) : f[k][x] \in 1..k /\ OccursAt(text, part, f[k][x])
    /\ \A x \in 1..Len(f[k]) : x > 1 => f[k][x - 1] + Len(part) <= f[k][x]
    /\ f[k] # <<>> => Len(f[Last(f[k]) - 1]) = Len(f[k]) - 1

LEMMA GreedyTakes ==
    ASSUME NEW text, NEW part, Len(text) \in Nat, Len(part) \in Nat, Len(part) > 0,
           NEW f, Greedy(text, part, f)
    PROVE  \A k \in 0..Len(text) : TakenUpTo(text, part, f, k)
<1> DEFINE N == Len(text)
           S == {k \in 0..N : TakenUpTo(text, part, f, k)}
<1>1. /\ f[0] = <<>>
      /\ \A k \in 0..N : k # 0 =>
           \/ f[k] = f[k - 1]
           \/ /\ f[k] = Append(f[k - 1], k) /\ OccursAt(text, part, k)
              /\ f[k - 1] = <<>> \/ Last(f[k - 1]) + Len(part) <= k
  <2>1. \A k \in 0..N : f[k] = IF k = 0 THEN <<>>
                               ELSE IF OccursAt(text, part, k)
                                         /\ (f[k - 1] = <<>> \/ Last(f[k - 1]) + Len(part) <= k)
                               THEN Append(f[k - 1], k) ELSE f[k - 1]
    BY Zenon DEF Greedy, GreedyUpTo
  <2>2. 0 \in 0..N
    OBVIOUS
  <2> QED BY <2>1, <2>2, Zenon
<1> HIDE DEF N
<1>2. N \in Nat
  BY DEF N
<1>3. 0 \in S
  <2>1. TakenUpTo(text, part, f, 0)
    BY <1>1 DEF TakenUpTo
  <2> QED BY <1>2, <2>1
<1>4. \A k \in 0..N : k \in S /\ k < N => k + 1 \in S
  <2> TAKE k \in 0..N
  <2> HAVE k \in S /\ k < N
  <2>1. k + 1 \in 0..N /\ k + 1 # 0 /\ (k + 1) - 1 = k /\ k \in Nat
    BY <1>2
  <2>2. /\ f[k] \in Seq(Nat)
        /\ \A x \in 1..Len(f[k]) : f[k][x] \in 1..k /\ OccursAt(text, part, f[k][x])
        /\ \A x \in 1..Len(f[k]) : x > 1 => f[k][x - 1] + Len(part) <= f[k][x]
        /\ f[k] # <<>> => Len(f[Last(f[k]) - 1]) = Len(f[k]) - 1
    BY DEF TakenUpTo
  <2>3. \/ f[k + 1] = f[k]
        \/ /\ f[k + 1] = Append(f[k], k + 1) /\ OccursAt(text, part, k + 1)
           /\ f[k] = <<>> \/ Last(f[k]) + Len(part) <= k + 1
    BY <1>1, <2>1
  <2> DEFINE n == Len(f[k])
             g == f[k + 1]
             h == f[k]
  <2> HIDE DEF S
  <2>4. CASE f[k + 1] = f[k]
    <3>1. \A x \in 1..n : f[k][x] \in 1..k + 1
      BY <2>1, <2>2
    <3>2. TakenUpTo(text, part, f, k + 1)
      BY <2>2, <2>4, <3>1 DEF TakenUpTo
    <3> QED BY <2>1, <3>2 DEF S
  <2>5. CASE /\ f[k + 1] = Append(f[k], k + 1) /\ OccursAt(text, part, k + 1)
             /\ f[k] = <<>> \/ Last(f[k]) + Len(part) <= k + 1
    <3>1. /\ n \in Nat /\ g \in Seq(Nat) /\ Len(g) = n + 1 /\ g[n + 1] = k + 1
          /\ \A x \in 1..n : g[x] = h[x]
      BY <2>1, <2>2, <2>5
    <3>2. \A x \in 1..n + 1 : x = n + 1 \/ x \in 1..n
      BY <3>1
    <3>3. \A x \in 1..n + 1 : g[x] \in 1..k + 1 /\ OccursAt(text, part, g[x])
      <4> TAKE x \in 1..n + 1
      <4>1. CASE x = n + 1
        BY <2>1, <2>5, <3>1, <4>1
      <4>2. CASE x \in 1..n
        <5>1. h[x] \in 1..k /\ OccursAt(text, part, h[x]) /\ g[x] = h[x]
          BY <2>2, <3>1, <4>2
        <5>2. h[x] \in 1..k + 1
          BY <2>1, <5>1
        <5> QED BY <5>1, <5>2
      <4> QED BY <3>2, <4>1, <4>2
    <3>4. \A x \in 1..n + 1 : x > 1 => g[x - 1] + Len(part) <= g[x]
      <4> TAKE x \in 1..n + 1
      <4> HAVE x > 1
      <4>1. x - 1 \in 1..n
        BY <3>1
      <4>2. CASE x = n + 1
        <5>1. x - 1 = n /\ n > 0
          BY <3>1, <4>1, <4>2
        <5>2. f[k] # <<>>
          BY <2>2, <5>1
        <5>3. Last(f[k]) = h[n]
          BY DEF Last
        <5>4. h[n] + Len(part) <= k + 1
          BY <2>5, <5>2, <5>3
        <5> QED BY <3>1, <4>1, <4>2, <5>1, <5>4
      <4>3. CASE x \in 1..n
        <5>1. h[x - 1] + Len(part) <= h[x]
          BY <2>2, <4>3
        <5> QED BY <3>1, <4>1, <4>3, <5>1
      <4> QED BY <3>2, <4>2, <4>3
    <3>5. Len(f[Last(g) - 1]) = Len(g) - 1
      <4>1. Last(g) = k + 1
        BY <3>1 DEF Last
      <4>2. Len(g) - 1 = n /\ Last(g) - 1 = k
        BY <2>1, <3>1, <4>1
      <4> QED BY <4>2
    <3> HIDE DEF h
    <3>6. TakenUpTo(text, part, f, k + 1)
      BY <3>1, <3>3, <3>4, <3>5, Zenon DEF TakenUpTo
    <3> QED BY <2>1, <3>6 DEF S
  <2> QED BY <2>3, <2>4, <2>5
<1>5. 0..N \subseteq S
  <2> HIDE DEF S
  <2> QED BY <1>2, <1>3, <1>4, UpTo
<1> QED BY <1>5 DEF N

\* No way to choose places apart from each other has more of them.
LEMMA GreedyIsMost ==
    ASSUME NEW text, NEW part, Len(text) \in Nat, Len(part) \in Nat, Len(part) > 0,
           NEW f, Greedy(text, part, f), NEW Z, Z \subseteq Occurrences(text, part),
           Apart(Z, Len(part))
    PROVE  Cardinality(Z) \in Nat /\ Cardinality(Z) <= Len(f[Len(text)])
<1> DEFINE N == Len(text)
           n == Len(part)
           O == Occurrences(text, part)
           P(k) == \A Y \in SUBSET O : Y \subseteq 1..k /\ Apart(Y, n) =>
                     Cardinality(Y) \in Nat /\ Cardinality(Y) <= Len(f[k])
           S == {k \in 0..N : \A j \in 0..k : P(j)}
<1>1. N \in Nat /\ n \in Nat /\ n > 0
  OBVIOUS
<1>2. \A k \in 0..N : TakenUpTo(text, part, f, k)
  BY GreedyTakes
<1>3. /\ f[0] = <<>>
      /\ \A k \in 0..N : k # 0 =>
           IF OccursAt(text, part, k) /\ (f[k - 1] = <<>> \/ Last(f[k - 1]) + n <= k)
           THEN f[k] = Append(f[k - 1], k) ELSE f[k] = f[k - 1]
  <2>1. \A k \in 0..N : f[k] = IF k = 0 THEN <<>>
                               ELSE IF OccursAt(text, part, k)
                                         /\ (f[k - 1] = <<>> \/ Last(f[k - 1]) + Len(part) <= k)
                               THEN Append(f[k - 1], k) ELSE f[k - 1]
    BY Zenon DEF Greedy, GreedyUpTo
  <2>2. 0 \in 0..N
    OBVIOUS
  <2> QED BY <2>1, <2>2, Zenon
<1>4. \A a \in O : a \in 1..N /\ OccursAt(text, part, a)
  BY DEF Occurrences
<1>5. \A k \in 0..N : /\ f[k] \in Seq(Nat) /\ Len(f[k]) \in Nat
                      /\ f[k] # <<>> => /\ Last(f[k]) \in 1..k /\ Len(f[k]) > 0
                                        /\ Len(f[Last(f[k]) - 1]) = Len(f[k]) - 1
  <2> TAKE k \in 0..N
  <2>1. /\ f[k] \in Seq(Nat) /\ \A x \in 1..Len(f[k]) : f[k][x] \in 1..k
        /\ f[k] # <<>> => Len(f[Last(f[k]) - 1]) = Len(f[k]) - 1
    BY <1>2, Zenon DEF TakenUpTo
  <2>2. f[k] # <<>> => Len(f[k]) > 0 /\ Len(f[k]) \in 1..Len(f[k])
    BY <2>1
  <2> QED BY <2>1, <2>2 DEF Last
<1> HIDE DEF O, N, n
<1>6. ASSUME NEW k \in 1..N, \A j \in 0..k - 1 : P(j) PROVE P(k)
  <2>0. k \in Nat /\ k # 0 /\ k - 1 \in 0..k - 1 /\ k \in 0..N /\ k - 1 \in 0..N
    BY <1>1
  <2> SUFFICES ASSUME NEW Y \in SUBSET O, Y \subseteq 1..k, Apart(Y, n)
               PROVE  Cardinality(Y) \in Nat /\ Cardinality(Y) <= Len(f[k])
    OBVIOUS
  <2>1. Len(f[k - 1]) <= Len(f[k])
    <3>1. f[k - 1] \in Seq(Nat) /\ Len(f[k - 1]) \in Nat
      BY <1>5, <2>0
    <3>2. f[k] = Append(f[k - 1], k) \/ f[k] = f[k - 1]
      BY <1>3, <2>0
    <3> QED BY <3>1, <3>2
  <2>2. CASE k \notin Y
    <3>1. Y \subseteq 1..k - 1
      BY <2>0, <2>2
    <3>2. Cardinality(Y) \in Nat /\ Cardinality(Y) <= Len(f[k - 1])
      BY <1>6, <2>0, <3>1
    <3>3. Len(f[k - 1]) \in Nat /\ Len(f[k]) \in Nat
      BY <1>5, <2>0
    <3> HIDE DEF P
    <3> QED BY <2>1, <3>2, <3>3
  <2>3. CASE k \in Y
    <3> DEFINE X == Y \ {k}
    <3>1. X \subseteq 1..k - 1 /\ X \in SUBSET O /\ Apart(X, n)
      BY <2>0 DEF Apart
    <3>2. IsFiniteSet(Y) /\ Cardinality(X) = Cardinality(Y) - 1 /\ Cardinality(Y) \in Nat
      <4>1. IsFiniteSet(1..k)
        BY <2>0, FS_Interval
      <4>2. IsFiniteSet(Y)
        BY <4>1, FS_Subset
      <4>3. Cardinality(Y) \in Nat
        BY <4>2, FS_CardinalityType
      <4> QED BY <2>3, <4>2, <4>3, FS_RemoveElement
    <3>3. OccursAt(text, part, k)
      BY <1>4, <2>3
    <3>4. \A a \in X : a + n <= k /\ a \in Nat
      <4> TAKE a \in X
      <4>1. a < k /\ a \in Y /\ a \in Nat
        BY <2>0, <3>1
      <4> QED BY <2>3, <4>1 DEF Apart
    <3> HIDE DEF X
    <3>5. CASE f[k - 1] = <<>> \/ Last(f[k - 1]) + n <= k
      <4>1. f[k] = Append(f[k - 1], k)
        BY <1>3, <2>0, <3>3, <3>5
      <4>2. Cardinality(X) \in Nat /\ Cardinality(X) <= Len(f[k - 1])
        BY <1>6, <2>0, <3>1
      <4>3. f[k - 1] \in Seq(Nat)
        BY <1>5, <2>0
      <4>4. Len(f[k]) = Len(f[k - 1]) + 1 /\ Len(f[k - 1]) \in Nat
        BY <4>1, <4>3
      <4> HIDE DEF P
      <4> QED BY <3>2, <4>2, <4>4
    <3>6. CASE ~(f[k - 1] = <<>> \/ Last(f[k - 1]) + n <= k)
      <4> DEFINE l == Last(f[k - 1])
      <4>1. /\ l \in 1..k - 1 /\ Len(f[k - 1]) \in Nat
            /\ Len(f[l - 1]) = Len(f[k - 1]) - 1 /\ f[k] = f[k - 1]
        BY <1>3, <1>5, <2>0, <3>6
      <4>2. ~(l + n <= k)
        BY <3>6
      <4> HIDE DEF l
      <4>3. l \in Nat /\ l - 1 \in 0..k - 1
        BY <2>0, <4>1
      <4>4. \A a \in X : a \in 1..l - 1
        <5> TAKE a \in X
        <5>1. a + n <= k /\ a \in Nat /\ a \in 1..k - 1
          BY <3>1, <3>4
        <5>2. a < l
          BY <1>1, <2>0, <4>2, <4>3, <5>1
        <5> QED BY <4>3, <5>1, <5>2
      <4>5. Cardinality(X) \in Nat /\ Cardinality(X) <= Len(f[l - 1])
        <5>1. X \subseteq 1..l - 1 /\ P(l - 1)
          BY <1>6, <4>3, <4>4
        <5> QED BY <3>1, <5>1
      <4> HIDE DEF P
      <4> QED BY <3>2, <4>1, <4>5
    <3> QED BY <3>5, <3>6
  <2> QED BY <2>2, <2>3
<1>7. P(0)
  <2> SUFFICES ASSUME NEW Y \in SUBSET O, Y \subseteq 1..0
               PROVE  Cardinality(Y) \in Nat /\ Cardinality(Y) <= Len(f[0])
    OBVIOUS
  <2>1. Y = {}
    OBVIOUS
  <2>2. Cardinality(Y) = 0
    BY <2>1, FS_EmptySet
  <2> QED BY <1>3, <2>2
<1> HIDE DEF P
<1>8. 0 \in S
  BY <1>1, <1>7
<1>9. \A k \in 0..N : k \in S /\ k < N => k + 1 \in S
  <2> TAKE k \in 0..N
  <2> HAVE k \in S /\ k < N
  <2>1. k + 1 \in 1..N /\ k + 1 \in 0..N /\ (k + 1) - 1 = k
    BY <1>1
  <2>2. P(k + 1)
    BY <1>6, <2>1
  <2>3. \A j \in 0..k + 1 : j = k + 1 \/ j \in 0..k
    BY <1>1
  <2>4. \A j \in 0..k + 1 : P(j)
    BY <2>2, <2>3
  <2> QED BY <2>1, <2>4
<1>10. P(N)
  <2>1. 0..N \subseteq S
    <3> HIDE DEF S
    <3> QED BY <1>1, <1>8, <1>9, UpTo
  <2>2. N \in 0..N
    BY <1>1
  <2> QED BY <2>1, <2>2
<1>11. Z \subseteq 1..N
  BY <1>4 DEF O
<1> QED BY <1>10, <1>11 DEF P, N, O, n

\* Where part is found: apart, in order, in as many places as there can be.
Found(text, part, at) ==
    /\ at \in Seq(Nat)
    /\ \A x \in 1..Len(at) : at[x] \in Occurrences(text, part)
    /\ \A x \in 1..Len(at) : x > 1 => at[x - 1] + Len(part) <= at[x]
    /\ \A Z \in SUBSET Occurrences(text, part) :
         Apart(Z, Len(part)) => Cardinality(Z) <= Len(at)

LEMMA MatchesFound ==
    ASSUME NEW T, NEW text \in Seq(T), NEW part \in Seq(T), part # <<>>
    PROVE  Found(text, part, Matches(text, part))
<1>1. Len(text) \in Nat /\ Len(part) \in Nat /\ Len(part) > 0
  OBVIOUS
<1>2. PICK f : Matches(text, part) = f[Len(text)] /\ Greedy(text, part, f)
  BY <1>1, MatchesAre
<1> DEFINE at == f[Len(text)]
<1>3. /\ at \in Seq(Nat)
      /\ \A x \in 1..Len(at) : at[x] \in 1..Len(text) /\ OccursAt(text, part, at[x])
      /\ \A x \in 1..Len(at) : x > 1 => at[x - 1] + Len(part) <= at[x]
  <2>1. Len(text) \in 0..Len(text)
    BY <1>1
  <2>2. TakenUpTo(text, part, f, Len(text))
    BY <1>1, <1>2, <2>1, GreedyTakes
  <2> QED BY <2>2, Zenon DEF TakenUpTo
<1>4. \A Z \in SUBSET Occurrences(text, part) : Apart(Z, Len(part)) => Cardinality(Z) <= Len(at)
  BY <1>1, <1>2, GreedyIsMost
<1>5. \A x \in 1..Len(at) : at[x] \in Occurrences(text, part)
  BY <1>3 DEF Occurrences
<1> QED BY <1>2, <1>3, <1>4, <1>5 DEF Found

-----------------------------------------------------------------------------
(* The text of an edit: what replacing makes of it. *)

\* The gaps between the first m places: where the k-th begins and ends.
GapFrom(old, at, k) == IF k = 0 THEN 0 ELSE at[k] + Len(old) - 1
GapEnd(text, at, m, k) == IF k = m THEN Len(text) ELSE at[k + 1] - 1

GapsAre(text, old, at, m) ==
    \A k \in 0..m : /\ GapFrom(old, at, k) \in Nat /\ GapEnd(text, at, m, k) \in Nat
                    /\ GapFrom(old, at, k) <= GapEnd(text, at, m, k)
                    /\ GapEnd(text, at, m, k) <= Len(text)

LEMMA GapsApart ==
    ASSUME NEW T, NEW text \in Seq(T), NEW old \in Seq(T), old # <<>>,
           NEW at, Found(text, old, at), NEW m \in 0..Len(at)
    PROVE  GapsAre(text, old, at, m)
<1> DEFINE N == Len(text)
           n == Len(old)
<1>1. N \in Nat /\ n \in Nat /\ n > 0
  OBVIOUS
<1>2. /\ at \in Seq(Nat) /\ \A x \in 1..Len(at) : at[x] \in Occurrences(text, old)
      /\ \A x \in 1..Len(at) : x > 1 => at[x - 1] + n <= at[x]
  BY Zenon DEF Found
<1>3. m \in Nat /\ Len(at) \in Nat /\ m <= Len(at)
  BY <1>2
<1>4. \A x \in 1..m : at[x] \in Nat /\ at[x] > 0 /\ at[x] + n - 1 <= N
  <2> TAKE x \in 1..m
  <2>1. at[x] \in Occurrences(text, old)
    BY <1>2, <1>3
  <2>2. at[x] \in 1..Len(text) /\ at[x] + Len(old) - 1 <= Len(text)
    BY <2>1 DEF Occurrences, OccursAt
  <2> QED BY <1>1, <2>2
<1>5. \A x \in 1..m : x > 1 => at[x - 1] + n <= at[x]
  BY <1>2, <1>3
<1> HIDE DEF N, n
<1>6. ASSUME NEW k \in 0..m
      PROVE  /\ GapFrom(old, at, k) \in Nat /\ GapEnd(text, at, m, k) \in Nat
             /\ GapFrom(old, at, k) <= GapEnd(text, at, m, k) /\ GapEnd(text, at, m, k) <= N
  <2>1. /\ GapFrom(old, at, k) = IF k = 0 THEN 0 ELSE at[k] + n - 1
        /\ GapEnd(text, at, m, k) = IF k = m THEN N ELSE at[k + 1] - 1
    BY DEF GapFrom, GapEnd, N, n
  <2>2. k # 0 => k \in 1..m
    OBVIOUS
  <2>3. k # m => k + 1 \in 1..m
    BY <1>3
  <2>4. k # 0 /\ k # m => at[k] + n <= at[k + 1]
    <3>1. (k + 1) - 1 = k /\ (k # 0 => k + 1 > 1)
      OBVIOUS
    <3> QED BY <1>5, <2>3, <3>1
  <2>5. k # 0 => at[k] \in Nat /\ at[k] > 0 /\ at[k] + n - 1 <= N
    BY <1>4, <2>2
  <2>6. k # m => at[k + 1] \in Nat /\ at[k + 1] > 0 /\ at[k + 1] + n - 1 <= N
    BY <1>4, <2>3
  <2> QED BY <1>1, <2>1, <2>4, <2>5, <2>6
<1> QED BY <1>6 DEF GapsAre, N

\* What replacing lays in a row: a gap, then new and the next gap, m times.
Pieces(T, text, old, new, at, m, p) ==
    /\ p \in Seq(Seq(T)) /\ Len(p) = 2 * m + 1
    /\ \A k \in 1..m : p[2 * k] = new
    /\ \A k \in 0..m : p[2 * k + 1] = SubSeq(text, GapFrom(old, at, k) + 1, GapEnd(text, at, m, k))

LEMMA ReplacedIs ==
    ASSUME NEW T, NEW text \in Seq(T), NEW old \in Seq(T), old # <<>>, NEW new \in Seq(T),
           NEW n \in Nat, NEW at, at = Matches(text, old), NEW m,
           m = IF n < Len(at) THEN n ELSE Len(at)
    PROVE  /\ m \in 0..Len(at) /\ Found(text, old, at)
           /\ \E p : Pieces(T, text, old, new, at, m, p) /\ ReplaceN(text, old, new, n) = FlattenSeq(p)
<1>1. Found(text, old, at)
  BY MatchesFound
<1>2. Len(at) \in Nat
  BY <1>1 DEF Found
<1>3. m \in 0..Len(at)
  BY <1>2
<1> DEFINE Gap(k) == SubSeq(text, IF k = 0 THEN 1 ELSE at[k] + Len(old),
                               IF k = m THEN Len(text) ELSE at[k + 1] - 1)
           p == [k \in 1..2 * m + 1 |-> IF k % 2 = 0 THEN new ELSE Gap(k \div 2)]
<1>4. ReplaceN(text, old, new, n) = FlattenSeq(p)
  BY Zenon DEF ReplaceN
<1>5. GapsAre(text, old, at, m)
  BY <1>1, <1>3, GapsApart
<1>6. \A x \in 1..m : at[x] \in Nat /\ Len(old) \in Nat
  <2>1. at \in Seq(Nat)
    BY <1>1 DEF Found
  <2> QED BY <1>2, <1>3, <2>1
<1>7. ASSUME NEW k \in 0..m
      PROVE  /\ Gap(k) = SubSeq(text, GapFrom(old, at, k) + 1, GapEnd(text, at, m, k))
             /\ Gap(k) \in Seq(T)
  <2>1. GapFrom(old, at, k) + 1 = IF k = 0 THEN 1 ELSE at[k] + Len(old)
    <3>1. k # 0 => k \in 1..m
      OBVIOUS
    <3> QED BY <1>6, <3>1 DEF GapFrom
  <2>2. Gap(k) = SubSeq(text, GapFrom(old, at, k) + 1, GapEnd(text, at, m, k))
    BY <2>1 DEF GapEnd
  <2>3. /\ GapFrom(old, at, k) \in Nat /\ GapEnd(text, at, m, k) \in Nat
        /\ GapEnd(text, at, m, k) <= Len(text)
    BY <1>5 DEF GapsAre
  <2> HIDE DEF Gap
  <2>4. SubSeq(text, GapFrom(old, at, k) + 1, GapEnd(text, at, m, k)) \in Seq(T)
    BY <2>3
  <2> QED BY <2>2, <2>4
<1> HIDE DEF Gap
<1>8. \A k \in 1..m : p[2 * k] = new
  <2> TAKE k \in 1..m
  <2>1. k \in Nat /\ 2 * k \in 1..2 * m + 1
    BY <1>3
  <2>2. (2 * k) % 2 = 0 /\ (2 * k) \div 2 = k
    BY <2>1, Halves
  <2> QED BY <2>1, <2>2
<1>9. \A k \in 0..m : p[2 * k + 1] = Gap(k)
  <2> TAKE k \in 0..m
  <2>1. k \in Nat /\ 2 * k + 1 \in 1..2 * m + 1
    BY <1>3
  <2>2. (2 * k + 1) % 2 = 1 /\ (2 * k + 1) \div 2 = k
    BY <2>1, Halves
  <2> QED BY <2>1, <2>2
<1>10. p = [q \in 1..2 * m + 1 |-> p[q]] /\ 2 * m + 1 \in Nat
  BY <1>3
<1> HIDE DEF p
<1>11. \A q \in 1..2 * m + 1 : p[q] \in Seq(T)
  <2> TAKE q \in 1..2 * m + 1
  <2>0. q \in Nat
    BY <1>10
  <2>1. PICK k \in Nat : q = 2 * k \/ q = 2 * k + 1
    BY <2>0, Halves
  <2>2. CASE q = 2 * k
    <3>1. k \in 1..m
      BY <1>3, <2>2
    <3> QED BY <1>8, <2>2, <3>1
  <2>3. CASE q = 2 * k + 1
    <3>1. k \in 0..m
      BY <1>3, <2>3
    <3> QED BY <1>7, <1>9, <2>3, <3>1
  <2> QED BY <2>1, <2>2, <2>3
<1>12. p \in Seq(Seq(T)) /\ Len(p) = 2 * m + 1
  <2> DEFINE X == Seq(T)
             M == 2 * m + 1
  <2>1. \A q \in 1..M : p[q] \in X
    BY <1>11
  <2>2. p = [q \in 1..M |-> p[q]] /\ M \in Nat
    BY <1>10
  <2> HIDE DEF X, M
  <2>3. p \in [1..M -> X]
    BY <2>1, <2>2
  <2>4. p \in Seq(X) /\ Len(p) = M
    BY <2>2, <2>3
  <2> QED BY <2>4 DEF X, M
<1>13. Pieces(T, text, old, new, at, m, p)
  BY <1>7, <1>8, <1>9, <1>12 DEF Pieces
<1> QED BY <1>1, <1>3, <1>4, <1>13

\* The pieces in a row: where each begins, and the text they make.
Rebuilt(T, text, old, new, at, m, p, to, row) ==
    Pieces(T, text, old, new, at, m, p) /\ Laid(T, p, 2 * m + 1, to, row)

\* Where the k-th gap ends in the new text.
LEMMA ReplacedEnds ==
    ASSUME NEW T, NEW text \in Seq(T), NEW old \in Seq(T), old # <<>>, NEW new \in Seq(T),
           NEW at, Found(text, old, at), NEW m \in 0..Len(at),
           NEW p, NEW to, NEW row, Rebuilt(T, text, old, new, at, m, p, to, row)
    PROVE  \A k \in 0..m : /\ to[2 * k] \in Nat /\ to[2 * k + 1] \in Nat
                           /\ to[2 * k + 1] + k * Len(old) = GapEnd(text, at, m, k) + k * Len(new)
<1> DEFINE lo == Len(old)
           ln == Len(new)
           A(k) == GapFrom(old, at, k)
           B(k) == GapEnd(text, at, m, k)
           S == {k \in 0..m : to[2 * k + 1] + k * lo = B(k) + k * ln}
<1>0. Pieces(T, text, old, new, at, m, p) /\ Laid(T, p, 2 * m + 1, to, row)
  BY Zenon DEF Rebuilt
<1>1. m \in Nat /\ lo \in Nat /\ ln \in Nat
  <2>1. at \in Seq(Nat)
    BY DEF Found
  <2> QED BY <2>1
<1>2. \A k \in 0..m : A(k) \in Nat /\ B(k) \in Nat /\ A(k) <= B(k) /\ B(k) <= Len(text)
  BY GapsApart DEF GapsAre
<1>3. /\ A(0) = 0
      /\ \A k \in 0..m : k < m => A(k + 1) = B(k) + lo
  <2>1. A(0) = 0
    BY DEF GapFrom
  <2>2. ASSUME NEW k \in 0..m, k < m PROVE A(k + 1) = B(k) + lo
    <3>1. k + 1 \in 1..Len(at) /\ k + 1 # 0 /\ k # m
      BY <1>1, <2>2
    <3>2. at[k + 1] \in Nat
      <4>1. at \in Seq(Nat)
        BY DEF Found
      <4> QED BY <3>1, <4>1
    <3>3. A(k + 1) = at[k + 1] + lo - 1 /\ B(k) = at[k + 1] - 1
      BY <3>1 DEF GapFrom, GapEnd
    <3> DEFINE z == at[k + 1]
               a == A(k + 1)
               b == B(k)
    <3>4. z \in Nat /\ a = z + lo - 1 /\ b = z - 1
      BY <3>2, <3>3
    <3> HIDE DEF z, a, b, lo
    <3>5. a = b + lo
      BY <1>1, <3>4
    <3> QED BY <3>5 DEF a, b
  <2> QED BY <2>1, <2>2
<1>4. \A k \in 0..m : Len(p[2 * k + 1]) = B(k) - A(k)
  <2> TAKE k \in 0..m
  <2>1. p[2 * k + 1] = SubSeq(text, A(k) + 1, B(k))
    BY <1>0 DEF Pieces
  <2> HIDE DEF A, B
  <2>2. A(k) \in Nat /\ B(k) \in Nat /\ A(k) <= B(k) /\ B(k) <= Len(text)
    BY <1>2
  <2> QED BY <2>1, <2>2
<1>5. \A k \in 1..m : Len(p[2 * k]) = ln
  BY <1>0 DEF Pieces
<1>6. /\ to \in [0..2 * m + 1 -> Nat] /\ to[0] = 0
      /\ \A q \in 1..2 * m + 1 : to[q] = to[q - 1] + Len(p[q])
  BY <1>0, Zenon DEF Laid
<1>7. \A k \in 0..m : to[2 * k] \in Nat /\ to[2 * k + 1] \in Nat
  <2>1. \A k \in 0..m : 2 * k \in 0..2 * m + 1 /\ 2 * k + 1 \in 0..2 * m + 1
    BY <1>1
  <2> QED BY <1>6, <2>1
<1>8. \A k \in 0..m : to[2 * k + 1] = to[2 * k] + (B(k) - A(k))
  <2> TAKE k \in 0..m
  <2>1. 2 * k + 1 \in 1..2 * m + 1 /\ (2 * k + 1) - 1 = 2 * k
    BY <1>1
  <2>2. to[2 * k + 1] = to[2 * k] + Len(p[2 * k + 1])
    BY <1>6, <2>1
  <2> QED BY <1>4, <2>2
<1>9. \A k \in 0..m : k < m => to[2 * (k + 1)] = to[2 * k + 1] + ln
  <2> TAKE k \in 0..m
  <2> HAVE k < m
  <2>1. 2 * (k + 1) \in 1..2 * m + 1 /\ 2 * (k + 1) - 1 = 2 * k + 1 /\ k + 1 \in 1..m
    BY <1>1
  <2>2. to[2 * (k + 1)] = to[2 * k + 1] + Len(p[2 * (k + 1)])
    BY <1>6, <2>1
  <2> QED BY <1>5, <2>1, <2>2
<1> HIDE DEF A, B, lo, ln
<1>10. 0 \in S
  <2>1. 0 \in 0..m /\ 2 * 0 = 0 /\ 2 * 0 + 1 = 1 /\ 0 * lo = 0 /\ 0 * ln = 0
    BY <1>1
  <2>2. to[1] = B(0)
    BY <1>2, <1>3, <1>6, <1>8, <2>1
  <2>3. B(0) \in Nat
    BY <1>2, <2>1
  <2> QED BY <2>1, <2>2, <2>3
<1>11. \A k \in 0..m : k \in S /\ k < m => k + 1 \in S
  <2> TAKE k \in 0..m
  <2> HAVE k \in S /\ k < m
  <2>1. k + 1 \in 0..m /\ k \in Nat
    BY <1>1
  <2> DEFINE x == to[2 * k + 1]
             y == to[2 * (k + 1) + 1]
             b == B(k)
             d == B(k + 1)
             u == k * lo
             v == k * ln
  <2>2. x + u = b + v
    OBVIOUS
  <2>3. y = (x + ln) + (d - (b + lo))
    <3>1. y = to[2 * (k + 1)] + (B(k + 1) - A(k + 1))
      BY <1>8, <2>1
    <3> QED BY <1>3, <1>9, <3>1
  <2>4. x \in Nat /\ y \in Nat /\ b \in Nat /\ d \in Nat
    BY <1>2, <1>7, <2>1
  <2>5. u \in Nat /\ v \in Nat /\ (k + 1) * lo = u + lo /\ (k + 1) * ln = v + ln
    BY <1>1, <2>1
  <2> HIDE DEF x, y, b, d, u, v, S
  <2>6. y + (u + lo) = d + (v + ln)
    BY <1>1, <2>2, <2>3, <2>4, <2>5
  <2> QED BY <2>1, <2>5, <2>6 DEF S, y, d
<1>12. 0..m \subseteq S
  <2> HIDE DEF S
  <2> QED BY <1>1, <1>10, <1>11, UpTo
<1>13. \A k \in 0..m : to[2 * k + 1] + k * lo = B(k) + k * ln
  BY <1>12
<1> HIDE DEF S
<1> QED BY <1>7, <1>13 DEF B, lo, ln


LEMMA ThreeAre ==
    ASSUME NEW T, NEW x \in Seq(T), NEW y \in Seq(T), NEW z \in Seq(T), NEW w, w = x \o y \o z
    PROVE  /\ w \in Seq(T) /\ Len(w) = Len(x) + Len(y) + Len(z)
           /\ \A q \in 1..Len(x) : w[q] = x[q]
           /\ \A q \in 1..Len(y) : w[Len(x) + q] = y[q]
           /\ \A q \in 1..Len(z) : w[Len(x) + Len(y) + q] = z[q]
<1>1. PICK v : v = x \o y
  OBVIOUS
<1>2. /\ v \in Seq(T) /\ Len(v) = Len(x) + Len(y)
      /\ \A q \in 1..Len(x) : v[q] = x[q]
      /\ \A q \in 1..Len(y) : v[Len(x) + q] = y[q]
  BY <1>1, InARow
<1>3. w = v \o z /\ v \in Seq(T)
  BY <1>1, <1>2
<1>4. /\ w \in Seq(T) /\ Len(w) = Len(v) + Len(z)
      /\ \A q \in 1..Len(v) : w[q] = v[q]
      /\ \A q \in 1..Len(z) : w[Len(v) + q] = z[q]
  BY <1>3, InARow
<1>5. \A q \in 1..Len(x) : q \in 1..Len(v)
  BY <1>2
<1>6. \A q \in 1..Len(y) : Len(x) + q \in 1..Len(v)
  BY <1>2
<1> QED BY <1>2, <1>4, <1>5, <1>6

\* One replacement: what is before it, new, and what is after.
LEMMA ThreeInARow ==
    ASSUME NEW T, NEW p \in Seq(Seq(T)), Len(p) = 3
    PROVE  FlattenSeq(p) = p[1] \o p[2] \o p[3]
<1>1. PICK to : Laid(T, p, 3, to, FlattenSeq(p))
  BY FlatAt
<1> DEFINE row == FlattenSeq(p)
           x == p[1]
           y == p[2]
           z == p[3]
<1>2. x \in Seq(T) /\ y \in Seq(T) /\ z \in Seq(T)
  <2> DEFINE X == Seq(T)
  <2>1. p \in Seq(X) /\ Len(p) = 3
    OBVIOUS
  <2> HIDE DEF X
  <2>2. \A k \in 1..3 : p[k] \in X
    BY <2>1
  <2>3. 1 \in 1..3 /\ 2 \in 1..3 /\ 3 \in 1..3
    OBVIOUS
  <2> QED BY <2>2, <2>3 DEF X
<1> HIDE DEF row
<1>3. /\ row \in Seq(T) /\ to[0] = 0 /\ Len(row) = to[3]
      /\ \A k \in 1..3 : to[k] = to[k - 1] + Len(p[k])
      /\ \A k \in 1..3 : \A q \in 1..Len(p[k]) : row[to[k - 1] + q] = p[k][q]
  BY <1>1, Zenon DEF Laid, row
<1>4. /\ to[0] = 0 /\ to[1] = Len(x) /\ to[2] = Len(x) + Len(y) /\ to[3] = Len(x) + Len(y) + Len(z)
      /\ \A q \in 1..Len(x) : row[to[0] + q] = x[q]
      /\ \A q \in 1..Len(y) : row[to[1] + q] = y[q]
      /\ \A q \in 1..Len(z) : row[to[2] + q] = z[q]
  <2>1. 1 \in 1..3 /\ 2 \in 1..3 /\ 3 \in 1..3 /\ 1 - 1 = 0 /\ 2 - 1 = 1 /\ 3 - 1 = 2
    OBVIOUS
  <2>2. /\ to[1] = to[0] + Len(x) /\ to[2] = to[1] + Len(y) /\ to[3] = to[2] + Len(z)
        /\ \A q \in 1..Len(x) : row[to[0] + q] = x[q]
        /\ \A q \in 1..Len(y) : row[to[1] + q] = y[q]
        /\ \A q \in 1..Len(z) : row[to[2] + q] = z[q]
    BY <1>3, <2>1
  <2> HIDE DEF x, y, z
  <2>3. Len(x) \in Nat /\ Len(y) \in Nat /\ Len(z) \in Nat
    BY <1>2
  <2> QED BY <1>3, <2>2, <2>3
<1> HIDE DEF x, y, z
<1> DEFINE w == x \o y \o z
<1>5. /\ w \in Seq(T) /\ Len(w) = Len(x) + Len(y) + Len(z)
      /\ \A q \in 1..Len(x) : w[q] = x[q]
      /\ \A q \in 1..Len(y) : w[Len(x) + q] = y[q]
      /\ \A q \in 1..Len(z) : w[Len(x) + Len(y) + q] = z[q]
  BY <1>2, ThreeAre
<1> HIDE DEF w
<1>6. ASSUME NEW q \in 1..Len(row) PROVE row[q] = w[q]
  <2> DEFINE a == Len(x)
             b == Len(y)
             c == Len(z)
  <2>1. a \in Nat /\ b \in Nat /\ c \in Nat /\ Len(row) = a + b + c /\ q \in Nat
    BY <1>2, <1>3, <1>4
  <2> HIDE DEF a, b, c
  <2>2. q \in 1..a \/ q - a \in 1..b \/ q - (a + b) \in 1..c
    BY <2>1
  <2>3. CASE q \in 1..a
    <3>1. row[0 + q] = x[q] /\ 0 + q = q
      BY <1>4, <2>1, <2>3 DEF a
    <3> QED BY <1>5, <2>3, <3>1 DEF a
  <2>4. CASE q - a \in 1..b
    <3>1. a + (q - a) = q
      BY <2>1
    <3>2. row[a + (q - a)] = y[q - a] /\ w[a + (q - a)] = y[q - a]
      BY <1>4, <1>5, <2>4 DEF a, b
    <3> QED BY <3>1, <3>2
  <2>5. CASE q - (a + b) \in 1..c
    <3>1. (a + b) + (q - (a + b)) = q
      BY <2>1
    <3>2. row[(a + b) + (q - (a + b))] = z[q - (a + b)] /\ w[(a + b) + (q - (a + b))] = z[q - (a + b)]
      BY <1>4, <1>5, <2>5 DEF a, b, c
    <3> QED BY <3>1, <3>2
  <2> QED BY <2>2, <2>3, <2>4, <2>5
<1>7. Len(row) = Len(w)
  BY <1>3, <1>4, <1>5
<1>8. row = w
  BY <1>3, <1>5, <1>6, <1>7, SameRow
<1> QED BY <1>8 DEF row, w, x, y, z

-----------------------------------------------------------------------------
(* The text of an edit: line endings. *)

\* Every newline is a CRLF, and every CR is of one.
CrlfOnly(s) ==
    \A q \in 1..Len(s) : /\ s[q] = LF => q > 1 /\ s[q - 1] = CR
                         /\ s[q] = CR => q < Len(s) /\ s[q + 1] = LF

LEMMA CrlfOnlyIs ==
    ASSUME NEW T, NEW s \in Seq(T) PROVE CrlfOnly(s) <=> AllCrlf(s) /\ ~LoneCR(s)
<1>1. Len(s) \in Nat
  OBVIOUS
<1>2. AllCrlf(s) <=> \A q \in 1..Len(s) : s[q] = LF => q > 1 /\ s[q - 1] = CR
  BY DEF AllCrlf, LineFeeds
<1>3. ~LoneCR(s) <=> \A q \in 1..Len(s) : s[q] = CR => q < Len(s) /\ s[q + 1] = LF
  <2>1. \A q \in 1..Len(s) : q # Len(s) <=> q < Len(s)
    BY <1>1
  <2> QED BY <2>1 DEF LoneCR
<1> QED BY <1>2, <1>3 DEF CrlfOnly

\* Texts with CRLF only, in a row, are one.
LEMMA CrlfInARow ==
    ASSUME NEW T, NEW s \in Seq(Seq(T)), \A k \in 1..Len(s) : CrlfOnly(s[k])
    PROVE  CrlfOnly(FlattenSeq(s))
<1> DEFINE row == FlattenSeq(s)
           n == Len(s)
<1>1. PICK to : Laid(T, s, n, to, row)
  BY FlatAt
<1>2. n \in Nat /\ \A k \in 1..n : s[k] \in Seq(T)
  OBVIOUS
<1>3. \A k \in 1..n : CrlfOnly(s[k])
  OBVIOUS
<1> HIDE DEF row, n
<1>4. /\ row \in Seq(T) /\ to \in [0..n -> Nat]
      /\ \A k \in 1..n : \A j \in 1..Len(s[k]) :
           to[k - 1] + j \in 1..Len(row) /\ row[to[k - 1] + j] = s[k][j]
      /\ \A q \in 1..Len(row) : \E k \in 1..n : \E j \in 1..Len(s[k]) : q = to[k - 1] + j
  BY <1>1, Zenon DEF Laid
<1>5. ASSUME NEW q \in 1..Len(row)
      PROVE  /\ row[q] = LF => q > 1 /\ row[q - 1] = CR
             /\ row[q] = CR => q < Len(row) /\ row[q + 1] = LF
  <2>1. PICK k \in 1..n : \E j \in 1..Len(s[k]) : q = to[k - 1] + j
    BY <1>4
  <2>2. PICK j \in 1..Len(s[k]) : q = to[k - 1] + j
    BY <2>1
  <2> DEFINE a == to[k - 1]
             t == s[k]
  <2>3. t \in Seq(T) /\ Len(t) \in Nat /\ CrlfOnly(t) /\ j \in 1..Len(t) /\ j \in Nat
    BY <1>2, <1>3, <2>2
  <2>4. a \in Nat /\ q = a + j /\ Len(row) \in Nat
    <3>1. k - 1 \in 0..n
      BY <1>2
    <3>2. to[k - 1] \in Nat
      BY <1>4, <3>1
    <3>3. Len(row) \in Nat
      BY <1>4
    <3> QED BY <2>2, <3>2, <3>3
  <2>5. \A i2 \in 1..Len(t) : a + i2 \in 1..Len(row) /\ row[a + i2] = t[i2]
    BY <1>4
  <2> HIDE DEF a, t
  <2>6. row[q] = t[j]
    BY <2>3, <2>4, <2>5
  <2>7. ASSUME row[q] = LF PROVE q > 1 /\ row[q - 1] = CR
    <3>1. j > 1 /\ t[j - 1] = CR
      BY <2>3, <2>6, <2>7 DEF CrlfOnly
    <3>2. j - 1 \in 1..Len(t) /\ a + (j - 1) = q - 1 /\ q > 1
      BY <2>3, <2>4, <3>1
    <3>3. row[a + (j - 1)] = t[j - 1]
      BY <2>5, <3>2
    <3> QED BY <3>1, <3>2, <3>3
  <2>8. ASSUME row[q] = CR PROVE q < Len(row) /\ row[q + 1] = LF
    <3>1. j < Len(t) /\ t[j + 1] = LF
      BY <2>3, <2>6, <2>8 DEF CrlfOnly
    <3>2. j + 1 \in 1..Len(t) /\ a + (j + 1) = q + 1
      BY <2>3, <2>4, <3>1
    <3>3. a + (j + 1) \in 1..Len(row) /\ row[a + (j + 1)] = t[j + 1]
      BY <2>5, <3>2
    <3>4. q + 1 \in 1..Len(row) /\ q \in Nat
      BY <2>4, <3>2, <3>3
    <3>5. q < Len(row)
      BY <2>4, <3>4
    <3> QED BY <3>1, <3>2, <3>3, <3>5
  <2> QED BY <2>7, <2>8
<1> QED BY <1>5 DEF CrlfOnly, row

\* ToCrlf keeps the type, and of a text without CR makes one with CRLF only.
LEMMA ToCrlfIs ==
    ASSUME NEW T, CR \in T, LF \in T, NEW text \in Seq(T)
    PROVE  /\ ToCrlf(text) \in Seq(T)
           /\ text # <<>> => ToCrlf(text) # <<>>
           /\ ~Contains(text, CR) => CrlfOnly(ToCrlf(text))
<1> DEFINE n == Len(text)
           p == [q \in 1..n |-> IF text[q] = LF THEN <<CR, LF>> ELSE <<text[q]>>]
           X == Seq(T)
<1>1. ToCrlf(text) = FlattenSeq(p)
  BY DEF ToCrlf
<1>2. n \in Nat /\ \A q \in 1..n : text[q] \in T
  OBVIOUS
<1>3. \A q \in 1..n : p[q] = (IF text[q] = LF THEN <<CR, LF>> ELSE <<text[q]>>)
  OBVIOUS
<1>4. p = [q \in 1..n |-> p[q]]
  OBVIOUS
<1> HIDE DEF p, n
<1>5. \A q \in 1..n : p[q] \in X /\ Len(p[q]) > 0
  <2> TAKE q \in 1..n
  <2>1. <<CR, LF>> \in Seq(T) /\ Len(<<CR, LF>>) = 2
    OBVIOUS
  <2>2. text[q] \in T
    BY <1>2
  <2>3. <<text[q]>> \in Seq(T) /\ Len(<<text[q]>>) = 1
    BY <2>2
  <2>4. p[q] = <<CR, LF>> \/ p[q] = <<text[q]>>
    BY <1>3
  <2>5. CASE p[q] = <<CR, LF>>
    BY <2>1, <2>5
  <2>6. CASE p[q] = <<text[q]>>
    BY <2>3, <2>6
  <2> QED BY <2>4, <2>5, <2>6
<1> HIDE DEF X
<1>6. p \in Seq(X) /\ Len(p) = n
  <2>1. p \in [1..n -> X]
    BY <1>4, <1>5
  <2> QED BY <1>2, <1>4, <2>1
<1>7. p \in Seq(Seq(T)) /\ Len(p) = n
  BY <1>6 DEF X
<1>8. FlattenSeq(p) \in Seq(T)
  BY <1>7, FlatHolds
<1>9. ASSUME text # <<>> PROVE FlattenSeq(p) # <<>>
  <2>1. 1 \in 1..n
    BY <1>2, <1>9 DEF n
  <2>2. 1 \in 1..Len(p) /\ Len(p[1]) > 0 /\ p[1] \in Seq(T)
    BY <1>5, <1>7, <2>1 DEF X
  <2>3. 1 \in 1..Len(p[1])
    BY <2>2
  <2>4. \E q \in 1..Len(FlattenSeq(p)) : FlattenSeq(p)[q] = p[1][1]
    BY <1>7, <2>2, <2>3, FlatHolds
  <2> QED BY <2>4
<1>10. ASSUME ~Contains(text, CR) PROVE CrlfOnly(FlattenSeq(p))
  <2>1. \A q \in 1..n : text[q] # CR
    BY <1>10 DEF Contains, n
  <2>2. ASSUME NEW q \in 1..n PROVE CrlfOnly(p[q])
    <3>1. CASE text[q] = LF
      <4>1. p[q] = <<CR, LF>>
        BY <1>3, <3>1
      <4>2. Len(p[q]) = 2 /\ p[q][1] = CR /\ p[q][2] = LF /\ CR # LF
        BY <4>1, TextAssumption DEF TextAssumption
      <4>3. \A j \in 1..2 : j = 1 \/ j = 2
        OBVIOUS
      <4> QED BY <4>2, <4>3 DEF CrlfOnly
    <3>2. CASE text[q] # LF
      <4>1. p[q] = <<text[q]>> /\ text[q] # CR
        BY <1>3, <2>1, <3>2
      <4>2. Len(p[q]) = 1 /\ p[q][1] # CR /\ p[q][1] # LF
        BY <3>2, <4>1
      <4>3. \A j \in 1..1 : j = 1
        OBVIOUS
      <4> QED BY <4>2, <4>3 DEF CrlfOnly
    <3> QED BY <3>1, <3>2
  <2>3. \A k \in 1..Len(p) : CrlfOnly(p[k])
    BY <1>7, <2>2
  <2> QED BY <1>7, <2>3, CrlfInARow
<1> QED BY <1>1, <1>8, <1>9, <1>10

\* A part of a text with CRLF only that splits none.
LEMMA CrlfPart ==
    ASSUME NEW T, NEW text \in Seq(T), CrlfOnly(text),
           NEW a \in Nat, NEW b \in Nat, a <= b, b <= Len(text),
           a > 0 => text[a] # CR, b < Len(text) => text[b + 1] # LF
    PROVE  CrlfOnly(SubSeq(text, a + 1, b))
<1> DEFINE s == SubSeq(text, a + 1, b)
<1>1. s \in Seq(T) /\ Len(s) = b - a /\ \A q \in 1..b - a : s[q] = text[a + q]
  BY PartIs
<1>2. Len(text) \in Nat
  OBVIOUS
<1> HIDE DEF s
<1>3. ASSUME NEW q \in 1..Len(s)
      PROVE  /\ s[q] = LF => q > 1 /\ s[q - 1] = CR
             /\ s[q] = CR => q < Len(s) /\ s[q + 1] = LF
  <2>1. q \in 1..b - a /\ q \in Nat /\ a + q \in 1..Len(text) /\ s[q] = text[a + q]
    BY <1>1, <1>2
  <2>2. ASSUME s[q] = LF PROVE q > 1 /\ s[q - 1] = CR
    <3>1. a + q > 1 /\ text[(a + q) - 1] = CR
      BY <2>1, <2>2 DEF CrlfOnly
    <3>2. q # 1
      <4> SUFFICES ASSUME q = 1 PROVE FALSE
        OBVIOUS
      <4>1. a > 0 /\ (a + q) - 1 = a
        BY <3>1
      <4> QED BY <3>1, <4>1
    <3>3. q > 1 /\ q - 1 \in 1..b - a /\ a + (q - 1) = (a + q) - 1
      BY <2>1, <3>2
    <3> QED BY <1>1, <3>1, <3>3
  <2>3. ASSUME s[q] = CR PROVE q < Len(s) /\ s[q + 1] = LF
    <3>1. a + q < Len(text) /\ text[(a + q) + 1] = LF
      BY <2>1, <2>3 DEF CrlfOnly
    <3>2. q # b - a
      <4> SUFFICES ASSUME q = b - a PROVE FALSE
        OBVIOUS
      <4>1. b < Len(text) /\ (a + q) + 1 = b + 1
        BY <3>1
      <4> QED BY <3>1, <4>1
    <3>3. q < b - a /\ q + 1 \in 1..b - a /\ a + (q + 1) = (a + q) + 1
      BY <2>1, <3>2
    <3> QED BY <1>1, <3>1, <3>3
  <2> QED BY <2>2, <2>3
<1>4. CrlfOnly(s)
  BY <1>3 DEF CrlfOnly
<1> QED BY <1>4 DEF s

-----------------------------------------------------------------------------
(* The text of an edit: what it has after the replacement. *)

\* The pieces of the new text, in a row.
LEMMA ReplacedRow ==
    ASSUME NEW T, NEW text \in Seq(T), NEW old \in Seq(T), old # <<>>, NEW new \in Seq(T),
           NEW at, at = Matches(text, old), NEW m \in Nat, m <= Len(at)
    PROVE  /\ Found(text, old, at) /\ m \in 0..Len(at)
           /\ \E p, to : /\ Rebuilt(T, text, old, new, at, m, p, to, ReplaceN(text, old, new, m))
                         /\ ReplaceN(text, old, new, m) = FlattenSeq(p)
<1>1. Found(text, old, at)
  BY MatchesFound
<1>2. Len(at) \in Nat
  BY <1>1 DEF Found
<1>3. m = (IF m < Len(at) THEN m ELSE Len(at)) /\ m \in 0..Len(at)
  BY <1>2
<1>4. PICK p : Pieces(T, text, old, new, at, m, p) /\ ReplaceN(text, old, new, m) = FlattenSeq(p)
  BY <1>3, ReplacedIs
<1>5. p \in Seq(Seq(T)) /\ Len(p) = 2 * m + 1
  BY <1>4, Zenon DEF Pieces
<1>6. PICK to : Laid(T, p, Len(p), to, FlattenSeq(p))
  BY <1>5, FlatAt
<1>7. Laid(T, p, 2 * m + 1, to, ReplaceN(text, old, new, m))
  BY <1>4, <1>5, <1>6, Zenon
<1>8. Rebuilt(T, text, old, new, at, m, p, to, ReplaceN(text, old, new, m))
  BY <1>4, <1>7, Zenon DEF Rebuilt
<1> QED BY <1>1, <1>3, <1>4, <1>8, Zenon

\* A text with new for old at one place.
ReplacedAt(edited, text, old, new, x) ==
    /\ x \in Occurrences(text, old)
    /\ edited = SubSeq(text, 1, x - 1) \o new \o SubSeq(text, x + Len(old), Len(text))

LEMMA OneReplaced ==
    ASSUME NEW T, NEW text \in Seq(T), NEW old \in Seq(T), old # <<>>, NEW new \in Seq(T),
           NEW at, at = Matches(text, old), Len(at) > 0
    PROVE  ReplacedAt(ReplaceN(text, old, new, 1), text, old, new, at[1])
<1>1. Found(text, old, at)
  BY MatchesFound
<1>2. at \in Seq(Nat) /\ \A x \in 1..Len(at) : at[x] \in Occurrences(text, old)
  BY <1>1, Zenon DEF Found
<1>3. 1 \in 1..Len(at) /\ 1 <= Len(at) /\ at[1] \in Nat
  BY <1>2
<1>4. PICK p : /\ Pieces(T, text, old, new, at, 1, p)
               /\ ReplaceN(text, old, new, 1) = FlattenSeq(p)
  BY <1>3, ReplacedRow DEF Rebuilt
<1>5. p \in Seq(Seq(T)) /\ Len(p) = 3
  <2>1. p \in Seq(Seq(T)) /\ Len(p) = 2 * 1 + 1
    BY <1>4, Zenon DEF Pieces
  <2> QED BY <2>1
<1>6. /\ p[1] = SubSeq(text, GapFrom(old, at, 0) + 1, GapEnd(text, at, 1, 0))
      /\ p[2] = new
      /\ p[3] = SubSeq(text, GapFrom(old, at, 1) + 1, GapEnd(text, at, 1, 1))
  <2>1. /\ \A k \in 1..1 : p[2 * k] = new
        /\ \A k \in 0..1 : p[2 * k + 1] = SubSeq(text, GapFrom(old, at, k) + 1, GapEnd(text, at, 1, k))
    BY <1>4, Zenon DEF Pieces
  <2>2. 0 \in 0..1 /\ 1 \in 0..1 /\ 1 \in 1..1 /\ 2 * 0 + 1 = 1 /\ 2 * 1 = 2 /\ 2 * 1 + 1 = 3
    OBVIOUS
  <2> QED BY <2>1, <2>2
<1>7. /\ GapFrom(old, at, 0) + 1 = 1 /\ GapEnd(text, at, 1, 0) = at[1] - 1
      /\ GapFrom(old, at, 1) + 1 = at[1] + Len(old) /\ GapEnd(text, at, 1, 1) = Len(text)
  <2>1. Len(old) \in Nat /\ 0 + 1 = 1
    OBVIOUS
  <2>2. GapFrom(old, at, 1) = at[1] + Len(old) - 1
    BY DEF GapFrom
  <2>3. GapFrom(old, at, 0) = 0 /\ GapEnd(text, at, 1, 0) = at[1] - 1 /\ GapEnd(text, at, 1, 1) = Len(text)
    BY <2>1 DEF GapFrom, GapEnd
  <2> QED BY <1>3, <2>1, <2>2, <2>3
<1>8. FlattenSeq(p) = p[1] \o p[2] \o p[3]
  BY <1>5, ThreeInARow
<1> QED BY <1>2, <1>3, <1>4, <1>6, <1>7, <1>8 DEF ReplacedAt

\* How much longer the text becomes.
Grows(edited, text, old, new, m) == Len(edited) + m * Len(old) = Len(text) + m * Len(new)

LEMMA ReplacedLength ==
    ASSUME NEW T, NEW text \in Seq(T), NEW old \in Seq(T), old # <<>>, NEW new \in Seq(T),
           NEW m \in Nat, m <= Len(Matches(text, old)),
           NEW edited, edited = ReplaceN(text, old, new, m)
    PROVE  edited \in Seq(T) /\ Grows(edited, text, old, new, m)
<1> DEFINE at == Matches(text, old)
<1>1. Found(text, old, at) /\ m \in 0..Len(at)
  BY ReplacedRow
<1>2. PICK p, to : Rebuilt(T, text, old, new, at, m, p, to, edited)
  BY ReplacedRow
<1> HIDE DEF at
<1>3. m \in 0..m
  OBVIOUS
<1>4. to[2 * m + 1] + m * Len(old) = GapEnd(text, at, m, m) + m * Len(new)
  <2>1. \A k \in 0..m : to[2 * k + 1] + k * Len(old) = GapEnd(text, at, m, k) + k * Len(new)
    BY <1>1, <1>2, ReplacedEnds
  <2> QED BY <1>3, <2>1, Zenon
<1>5. GapEnd(text, at, m, m) = Len(text)
  BY DEF GapEnd
<1>6. edited \in Seq(T) /\ Len(edited) = to[2 * m + 1]
  BY <1>2, Zenon DEF Rebuilt, Laid
<1> QED BY <1>4, <1>5, <1>6 DEF Grows

\* The first replacement is where the first match was.
LEMMA ReplacedFirst ==
    ASSUME NEW T, NEW text \in Seq(T), NEW old \in Seq(T), old # <<>>, NEW new \in Seq(T),
           NEW at, at = Matches(text, old), NEW m \in Nat, m <= Len(at), m > 0,
           NEW edited, edited = ReplaceN(text, old, new, m)
    PROVE  /\ at[1] \in Nat /\ at[1] > 0 /\ (at[1] - 1) + Len(new) <= Len(edited)
           /\ \A q \in 1..Len(new) : edited[(at[1] - 1) + q] = new[q]
<1>1. Found(text, old, at) /\ m \in 0..Len(at)
  BY ReplacedRow
<1>0. PICK p, to : Rebuilt(T, text, old, new, at, m, p, to, edited)
  BY ReplacedRow
<1>2. Pieces(T, text, old, new, at, m, p) /\ Laid(T, p, 2 * m + 1, to, edited)
  BY <1>0, Zenon DEF Rebuilt
<1>3. at[1] \in Nat /\ at[1] > 0
  <2>1. at \in Seq(Nat) /\ \A x \in 1..Len(at) : at[x] \in Occurrences(text, old)
    BY <1>1, Zenon DEF Found
  <2>2. 1 \in 1..Len(at)
    BY <1>1
  <2>3. at[1] \in 1..Len(text)
    BY <2>1, <2>2 DEF Occurrences
  <2> QED BY <2>3
<1>4. to[1] = at[1] - 1
  <2>1. 0 \in 0..m /\ 2 * 0 + 1 = 1 /\ 0 # m
    OBVIOUS
  <2>2. to[2 * 0 + 1] + 0 * Len(old) = GapEnd(text, at, m, 0) + 0 * Len(new) /\ to[2 * 0 + 1] \in Nat
    <3>1. \A k \in 0..m : /\ to[2 * k + 1] + k * Len(old) = GapEnd(text, at, m, k) + k * Len(new)
                          /\ to[2 * k + 1] \in Nat
      BY <1>0, <1>1, ReplacedEnds
    <3> QED BY <2>1, <3>1, Zenon
  <2>3. GapEnd(text, at, m, 0) = at[1] - 1
    BY <2>1 DEF GapEnd
  <2>4. 0 * Len(old) = 0 /\ 0 * Len(new) = 0
    OBVIOUS
  <2> QED BY <1>3, <2>1, <2>2, <2>3, <2>4
<1>5. p[2] = new
  <2>1. \A k \in 1..m : p[2 * k] = new
    BY <1>2, Zenon DEF Pieces
  <2>2. 1 \in 1..m /\ 2 * 1 = 2
    OBVIOUS
  <2> QED BY <2>1, <2>2
<1>6. \A q \in 1..Len(new) : to[1] + q \in 1..Len(edited) /\ edited[to[1] + q] = new[q]
  <2>1. \A k \in 1..2 * m + 1 : \A q \in 1..Len(p[k]) :
          to[k - 1] + q \in 1..Len(edited) /\ edited[to[k - 1] + q] = p[k][q]
    BY <1>2, Zenon DEF Laid
  <2>2. 2 \in 1..2 * m + 1 /\ 2 - 1 = 1
    OBVIOUS
  <2> QED BY <1>5, <2>1, <2>2
<1>7. to[1] + Len(new) <= Len(edited)
  <2>1. Len(new) \in Nat
    OBVIOUS
  <2>2. CASE Len(new) > 0
    <3>1. Len(new) \in 1..Len(new)
      BY <2>1, <2>2
    <3>2. to[1] + Len(new) \in 1..Len(edited)
      BY <1>6, <3>1
    <3> QED BY <3>2
  <2>3. CASE Len(new) = 0
    <3>1. /\ to[0] = 0 /\ Len(edited) \in Nat
          /\ to[1] = to[0] + Len(p[1])
          /\ \A q \in 1..Len(p[1]) : to[0] + q \in 1..Len(edited)
      <4>1. /\ to[0] = 0 /\ edited \in Seq(T)
            /\ \A k \in 1..2 * m + 1 : to[k] = to[k - 1] + Len(p[k])
            /\ \A k \in 1..2 * m + 1 : \A q \in 1..Len(p[k]) : to[k - 1] + q \in 1..Len(edited)
        BY <1>2, Zenon DEF Laid
      <4>2. 1 \in 1..2 * m + 1 /\ 1 - 1 = 0
        OBVIOUS
      <4> QED BY <4>1, <4>2
    <3>2. Len(p[1]) \in Nat
      <4>1. p[1] = SubSeq(text, GapFrom(old, at, 0) + 1, GapEnd(text, at, m, 0))
        <5>1. \A k \in 0..m : p[2 * k + 1] = SubSeq(text, GapFrom(old, at, k) + 1, GapEnd(text, at, m, k))
          BY <1>2, Zenon DEF Pieces
        <5>2. 0 \in 0..m /\ 2 * 0 + 1 = 1
          OBVIOUS
        <5> QED BY <5>1, <5>2
      <4>2. GapFrom(old, at, 0) = 0 /\ GapEnd(text, at, m, 0) = at[1] - 1
        BY DEF GapFrom, GapEnd
      <4> QED BY <1>3, <4>1, <4>2
    <3> QED BY <1>3, <1>4, <2>3, <3>1, <3>2
  <2> QED BY <2>1, <2>2, <2>3
<1> QED BY <1>3, <1>4, <1>6, <1>7

\* In a file with CRLF only, one with CRLF only replaced by another leaves it so.
LEMMA ReplacedCrlf ==
    ASSUME NEW T, NEW text \in Seq(T), NEW old \in Seq(T), old # <<>>, NEW new \in Seq(T),
           NEW m \in Nat, m <= Len(Matches(text, old)),
           CrlfOnly(text), CrlfOnly(old), CrlfOnly(new)
    PROVE  CrlfOnly(ReplaceN(text, old, new, m))
<1> DEFINE at == Matches(text, old)
           n == Len(old)
           N == Len(text)
<1>1. Found(text, old, at) /\ m \in 0..Len(at)
  BY ReplacedRow
<1>2. PICK p, to : /\ Rebuilt(T, text, old, new, at, m, p, to, ReplaceN(text, old, new, m))
                   /\ ReplaceN(text, old, new, m) = FlattenSeq(p)
  BY ReplacedRow
<1> HIDE DEF at
<1>3. /\ p \in Seq(Seq(T)) /\ Len(p) = 2 * m + 1
      /\ \A k \in 1..m : p[2 * k] = new
      /\ \A k \in 0..m : p[2 * k + 1] = SubSeq(text, GapFrom(old, at, k) + 1, GapEnd(text, at, m, k))
  BY <1>2, Zenon DEF Rebuilt, Pieces
<1>4. GapsAre(text, old, at, m)
  BY <1>1, GapsApart
<1>5. n \in Nat /\ n > 0 /\ N \in Nat /\ old[n] # CR /\ old[1] # LF
  <2>1. n \in Nat /\ n > 0 /\ N \in Nat
    OBVIOUS
  <2>2. n \in 1..n /\ 1 \in 1..n
    BY <2>1
  <2>3. /\ old[n] = CR => n < n
        /\ old[1] = LF => 1 > 1
    BY <2>2, Zenon DEF CrlfOnly
  <2> QED BY <2>1, <2>3
<1>6. ASSUME NEW x \in 1..m
      PROVE  /\ at[x] \in Nat /\ at[x] > 0 /\ at[x] + n - 1 <= N
             /\ text[at[x]] = old[1] /\ text[at[x] + n - 1] = old[n]
  <2>1. at \in Seq(Nat) /\ \A y \in 1..Len(at) : at[y] \in Occurrences(text, old)
    BY <1>1, Zenon DEF Found
  <2>2. x \in 1..Len(at)
    BY <1>1, <2>1
  <2> DEFINE a == at[x]
  <2>3. /\ a \in 1..N /\ a + n - 1 <= N /\ SubSeq(text, a, a + n - 1) = old
    BY <2>1, <2>2 DEF Occurrences, OccursAt
  <2> HIDE DEF a, n, N
  <2>4. /\ a \in Nat /\ a > 0 /\ a - 1 \in Nat /\ (a - 1) + 1 = a
        /\ a + n - 1 \in Nat /\ a - 1 <= a + n - 1 /\ (a + n - 1) - (a - 1) = n
        /\ (a - 1) + n = a + n - 1
    BY <1>5, <2>3
  <2>5. \A q \in 1..n : SubSeq(text, a, a + n - 1)[q] = text[(a - 1) + q]
    <3>1. \A q \in 1..(a + n - 1) - (a - 1) :
            SubSeq(text, (a - 1) + 1, a + n - 1)[q] = text[(a - 1) + q]
      BY <2>3, <2>4, PartIs DEF N
    <3> QED BY <2>4, <3>1
  <2>6. n \in 1..n /\ 1 \in 1..n
    BY <1>5
  <2>7. old[1] = text[(a - 1) + 1] /\ old[n] = text[(a - 1) + n]
    BY <2>3, <2>5, <2>6
  <2>8. text[a] = old[1] /\ text[a + n - 1] = old[n]
    BY <2>4, <2>7
  <2> QED BY <2>3, <2>4, <2>8 DEF a
<1>7. ASSUME NEW k \in 0..m PROVE CrlfOnly(p[2 * k + 1])
  <2> DEFINE a == GapFrom(old, at, k)
             b == GapEnd(text, at, m, k)
  <2>1. a \in Nat /\ b \in Nat /\ a <= b /\ b <= N
    BY <1>4 DEF GapsAre
  <2>2. a > 0 => text[a] # CR
    <3> SUFFICES ASSUME a > 0 PROVE text[a] # CR
      OBVIOUS
    <3>1. k # 0 /\ a = at[k] + n - 1
      BY DEF GapFrom
    <3>2. k \in 1..m
      BY <3>1
    <3> QED BY <1>5, <1>6, <3>1, <3>2
  <2>3. b < N => text[b + 1] # LF
    <3> SUFFICES ASSUME b < N PROVE text[b + 1] # LF
      OBVIOUS
    <3>1. k # m /\ b = at[k + 1] - 1
      BY DEF GapEnd
    <3>2. k + 1 \in 1..m
      BY <3>1
    <3>3. at[k + 1] \in Nat /\ text[at[k + 1]] # LF
      BY <1>5, <1>6, <3>2
    <3>4. (at[k + 1] - 1) + 1 = at[k + 1]
      BY <3>3
    <3>5. b + 1 = at[k + 1]
      BY <3>1, <3>4
    <3> QED BY <3>3, <3>5
  <2> HIDE DEF a, b
  <2>4. CrlfOnly(SubSeq(text, a + 1, b))
    BY <2>1, <2>2, <2>3, CrlfPart
  <2> QED BY <1>3, <2>4 DEF a, b
<1>8. \A q \in 1..Len(p) : CrlfOnly(p[q])
  <2> TAKE q \in 1..Len(p)
  <2>0. q \in Nat /\ q \in 1..2 * m + 1
    BY <1>3
  <2>1. PICK k \in Nat : q = 2 * k \/ q = 2 * k + 1
    BY <2>0, Halves
  <2>2. CASE q = 2 * k
    <3>1. k \in 1..m
      BY <2>0, <2>2
    <3> QED BY <1>3, <2>2, <3>1
  <2>3. CASE q = 2 * k + 1
    <3>1. k \in 0..m
      BY <2>0, <2>3
    <3> QED BY <1>7, <2>3, <3>1
  <2> QED BY <2>1, <2>2, <2>3
<1> QED BY <1>2, <1>3, <1>8, CrlfInARow

\* The strings an edit works with.
LEMMA StringsAre ==
    ASSUME NEW T, CR \in T, LF \in T, NEW text \in Seq(T),
           NEW asked \in Seq(T), asked # <<>>, NEW other \in Seq(T),
           NEW old, old = WithFileLineEndings(text, asked, other)[1],
           NEW new, new = WithFileLineEndings(text, asked, other)[2]
    PROVE  /\ old \in Seq(T) /\ old # <<>> /\ new \in Seq(T)
           /\ CrlfOnly(text) /\ LineFeeds(text) # {} /\ ~Contains(asked, CR) /\ ~Contains(other, CR)
                => CrlfOnly(old) /\ CrlfOnly(new)
<1>1. \/ /\ Occurrences(text, <<CR, LF>>) # {} /\ ~Contains(asked, CR)
         /\ old = ToCrlf(asked) /\ new = ToCrlf(other)
      \/ /\ ~(Occurrences(text, <<CR, LF>>) # {} /\ ~Contains(asked, CR))
         /\ old = asked /\ new = other
  BY DEF WithFileLineEndings
<1>2. old \in Seq(T) /\ old # <<>> /\ new \in Seq(T)
  BY <1>1, ToCrlfIs
<1>3. ASSUME CrlfOnly(text), LineFeeds(text) # {}, ~Contains(asked, CR), ~Contains(other, CR)
      PROVE  CrlfOnly(old) /\ CrlfOnly(new)
  <2>1. PICK v \in 1..Len(text) : text[v] = LF
    BY <1>3 DEF LineFeeds
  <2>2. v > 1 /\ text[v - 1] = CR
    BY <1>3, <2>1 DEF CrlfOnly
  <2> DEFINE u == v - 1
             pair == SubSeq(text, u, u + 1)
  <2>3. u \in Nat /\ u > 0 /\ u + 1 = v /\ u + 1 <= Len(text) /\ u \in 1..Len(text)
    BY <2>1, <2>2
  <2>4. text[u] = CR /\ text[u + 1] = LF
    BY <2>1, <2>2, <2>3
  <2> HIDE DEF u
  <2>5. pair = <<CR, LF>>
    <3>1. pair \in Seq(T) /\ Len(pair) = 2 /\ pair[1] = text[u] /\ pair[2] = text[u + 1]
      <4>1. u - 1 \in Nat /\ (u - 1) + 1 = u /\ u - 1 <= u + 1 /\ (u + 1) - (u - 1) = 2 /\ u + 1 \in Nat
        BY <2>3
      <4>2. /\ SubSeq(text, (u - 1) + 1, u + 1) \in Seq(T)
            /\ Len(SubSeq(text, (u - 1) + 1, u + 1)) = (u + 1) - (u - 1)
            /\ \A q \in 1..(u + 1) - (u - 1) : SubSeq(text, (u - 1) + 1, u + 1)[q] = text[(u - 1) + q]
        BY <2>3, <4>1, PartIs
      <4>3. 1 \in 1..2 /\ 2 \in 1..2 /\ (u - 1) + 1 = u /\ (u - 1) + 2 = u + 1
        BY <2>3
      <4> QED BY <4>1, <4>2, <4>3
    <3> HIDE DEF pair
    <3>2. \A q \in 1..2 : q = 1 \/ q = 2
      OBVIOUS
    <3>3. \A q \in 1..Len(pair) : pair[q] = <<CR, LF>>[q]
      BY <2>4, <3>1, <3>2
    <3>4. <<CR, LF>> \in Seq(T) /\ Len(<<CR, LF>>) = 2
      OBVIOUS
    <3> QED BY <3>1, <3>3, <3>4, SameRow
  <2>6. u \in Occurrences(text, <<CR, LF>>)
    <3>1. Len(<<CR, LF>>) = 2 /\ u + 2 - 1 = u + 1
      BY <2>3
    <3>2. OccursAt(text, <<CR, LF>>, u)
      BY <2>3, <2>5, <3>1 DEF OccursAt
    <3> QED BY <2>3, <3>2 DEF Occurrences
  <2>7. old = ToCrlf(asked) /\ new = ToCrlf(other)
    BY <1>1, <1>3, <2>6
  <2> QED BY <1>3, <2>7, ToCrlfIs
<1> QED BY <1>2, <1>3

-----------------------------------------------------------------------------
(* The text of an edit: the lines of the reply. *)

\* A set has up to m the places the other has after a: they count alike.
Shifted(P, a, m, Q) == Q \subseteq 1..m /\ \A q \in 1..m : q \in Q <=> a + q \in P

LEMMA CountShifted ==
    ASSUME NEW P, NEW a \in Nat, NEW m \in Nat, NEW Q, Shifted(P, a, m, Q)
    PROVE  Count(P, a + m) = Count(P, a) + Count(Q, m)
<1>0. Q \subseteq 1..m /\ \A q \in 1..m : q \in Q <=> a + q \in P
  BY DEF Shifted
<1>1. IsRow(Q, Ordered(Q), 0, m) /\ Len(Ordered(Q)) = Count(Q, m)
  BY <1>0, OrderedRow
<1>2. PICK r : r = [x \in 1..Len(Ordered(Q)) |-> a + Ordered(Q)[x]]
  OBVIOUS
<1>3. IsRow(P, r, a, a + m)
  BY <1>0, <1>1, <1>2, ShiftedRow
<1>4. Len(r) = Count(P, a + m) - Count(P, a)
  BY <1>3 DEF IsRow
<1>5. Count(Q, m) \in Nat /\ Count(P, a) \in Nat /\ Count(P, a + m) \in Nat
  <2>1. a + m \in Nat
    OBVIOUS
  <2> QED BY <2>1, CountStep
<1>6. Len(r) = Count(Q, m)
  BY <1>1, <1>2, <1>5
<1> QED BY <1>4, <1>5, <1>6

\* The items at some places are those of the places, and of no other.
PlacesUpTo(K, n) == n \in Nat /\ K \subseteq 1..n

Shows(s, items, K) ==
    /\ Len(s) \in Nat /\ DOMAIN s = 1..Len(s)
    /\ \A k \in K : \E x \in 1..Len(s) : s[x] = items[k]
    /\ \A x \in 1..Len(s) : \E k \in K : s[x] = items[k]

LEMMA PlacesShown ==
    ASSUME NEW n, NEW K, PlacesUpTo(K, n), NEW items
    PROVE  Shows(ItemsAt(items, K), items, K)
<1> DEFINE o == Ordered(K)
           s == ItemsAt(items, K)
<1>0. n \in Nat /\ K \subseteq 1..n
  BY DEF PlacesUpTo
<1>1. IsRow(K, o, 0, n) /\ Len(o) = Count(K, n)
  BY <1>0, OrderedRow
<1>2. s = [x \in 1..Len(o) |-> items[o[x]]]
  BY DEF ItemsAt
<1> HIDE DEF o, s
<1>3. Count(K, 0) = 0 /\ \A v \in Nat : Count(K, v) \in Nat
  BY CountStep
<1>4. /\ o \in Seq(Nat) /\ Len(o) \in Nat
      /\ \A x \in 1..Len(o) : o[x] \in K /\ Count(K, o[x]) = x
  <2>1. /\ o \in Seq(Nat)
        /\ \A x \in 1..Len(o) : o[x] \in K /\ Count(K, o[x]) = Count(K, 0) + x
    BY <1>1, Zenon DEF IsRow
  <2>2. \A x \in 1..Len(o) : Count(K, 0) + x = x
    BY <1>3
  <2> QED BY <2>1, <2>2
<1>5. Len(s) = Len(o) /\ DOMAIN s = 1..Len(s) /\ \A x \in 1..Len(o) : s[x] = items[o[x]]
  BY <1>2, <1>4
<1>6. ASSUME NEW k \in K PROVE \E x \in 1..Len(s) : s[x] = items[k]
  <2>1. k \in 1..n
    BY <1>0
  <2>2. k - 1 \in Nat /\ (k - 1) + 1 = k /\ k \in Nat /\ k > 0 /\ k <= n
    BY <2>1
  <2> DEFINE x == Count(K, k)
  <2>3. x = Count(K, k - 1) + 1 /\ Count(K, k - 1) \in Nat /\ x <= Count(K, n)
    BY <1>0, <2>2, CountStep, CountGrows
  <2>4. x \in 1..Len(o)
    BY <1>1, <1>4, <2>3
  <2>5. o[x] \in K /\ Count(K, o[x]) = x
    BY <1>4, <2>4
  <2>6. o[x] \in Nat /\ o[x] > 0
    <3>1. \A v \in 1..n : v \in Nat /\ v > 0
      OBVIOUS
    <3> HIDE DEF x
    <3> QED BY <1>0, <2>5, <3>1
  <2>7. o[x] = k
    <3>1. Count(K, o[x]) = Count(K, k)
      BY <2>5
    <3> QED BY <2>2, <2>5, <2>6, <3>1, CountTells
  <2> QED BY <1>5, <2>4, <2>7
<1>7. ASSUME NEW x \in 1..Len(s) PROVE \E k \in K : s[x] = items[k]
  <2>1. o[x] \in K /\ s[x] = items[o[x]]
    BY <1>4, <1>5
  <2> QED BY <2>1
<1>8. Shows(s, items, K)
  BY <1>4, <1>5, <1>6, <1>7 DEF Shows
<1> QED BY <1>8 DEF s

\* The newlines before a place.
LEMMA FeedsBefore ==
    ASSUME NEW T, NEW text \in Seq(T), NEW v \in Nat
    PROVE  Cardinality({j \in LineFeeds(text) : j < v + 1}) = Count(LineFeeds(text), v)
<1>1. LineFeeds(text) \subseteq Nat /\ \A j \in LineFeeds(text) : j >= 1
  BY DEF LineFeeds
<1>2. {j \in LineFeeds(text) : j < v + 1} = {j \in 1..v : j \in LineFeeds(text)}
  BY <1>1
<1> QED BY <1>2, Zenon DEF Count

\* The newlines of a part are those of the text there.
LEMMA FeedsOfPart ==
    ASSUME NEW T, NEW text \in Seq(T), NEW a \in Nat, NEW part \in Seq(T),
           a + Len(part) <= Len(text), \A q \in 1..Len(part) : text[a + q] = part[q]
    PROVE  Count(LineFeeds(text), a + Len(part))
             = Count(LineFeeds(text), a) + Cardinality(LineFeeds(part))
<1> DEFINE m == Len(part)
           Q == LineFeeds(part)
           P == LineFeeds(text)
<1>1. m \in Nat /\ Len(text) \in Nat /\ Q \subseteq 1..m
  BY DEF LineFeeds
<1>2. \A q \in 1..m : q \in Q <=> a + q \in P
  <2> TAKE q \in 1..m
  <2>1. a + q \in 1..Len(text)
    BY <1>1
  <2> QED BY <2>1 DEF LineFeeds
<1>3. Q = {v \in 1..m : v \in Q}
  BY <1>1
<1>4. Cardinality(Q) = Count(Q, m)
  BY <1>3, Zenon DEF Count
<1> HIDE DEF m, Q, P
<1>5. Count(P, a + m) = Count(P, a) + Count(Q, m)
  <2>1. Shifted(P, a, m, Q)
    BY <1>1, <1>2 DEF Shifted
  <2> QED BY <1>1, <2>1, CountShifted
<1> QED BY <1>4, <1>5 DEF m, Q, P

LEMMA LinesAre == ASSUME NEW T, NEW text \in Seq(T) PROVE Len(Lines(text)) \in Nat
<1> DEFINE E == (LineFeeds(text) \cup {Len(text)}) \ {0}
           ends == Ordered(E)
<1>1. Len(text) \in Nat /\ E \subseteq 1..Len(text)
  <2>1. Len(text) \in Nat
    OBVIOUS
  <2>2. LineFeeds(text) \subseteq 1..Len(text)
    BY DEF LineFeeds
  <2> QED BY <2>1, <2>2
<1>2. Len(ends) \in Nat
  <2>1. Len(ends) = Count(E, Len(text))
    BY <1>1, OrderedRow
  <2> QED BY <1>1, <2>1, CountStep
<1>3. \E f : Lines(text) = [k \in 1..Len(ends) |-> f[k]]
  <2>1. PICK f : f = Lines(text)
    OBVIOUS
  <2> DEFINE Whole(k) == SubSeq(text, IF k = 1 THEN 1 ELSE ends[k - 1] + 1, ends[k])
             Bare(line) == IF Last(line) # LF THEN line
                      ELSE IF IsSuffix(<<CR, LF>>, line) THEN SubSeq(line, 1, Len(line) - 2)
                      ELSE Front(line)
  <2>2. f = [k \in 1..Len(ends) |-> Bare(Whole(k))]
    BY <2>1, Zenon DEF Lines
  <2> HIDE DEF Bare, Whole, ends
  <2>3. f = [k \in 1..Len(ends) |-> f[k]]
    BY <2>2
  <2> QED BY <2>1, <2>3 DEF ends
<1> HIDE DEF ends
<1>4. PICK f : Lines(text) = [k \in 1..Len(ends) |-> f[k]]
  BY <1>3
<1> QED BY <1>2, <1>4

\* The line a place is in, with the first numbered 1.
LineAt(text, v) == 1 + Cardinality({j \in LineFeeds(text) : j < v})

ShowsAt(s, lines, text, at, new) ==
    /\ \A k \in LineAt(text, at)..LineAt(text, at + Len(new)) :
         k <= Len(lines) => <<k, lines[k]>> \in ToSet(s)
    /\ \A x \in 1..Len(s) :
         /\ s[x][2] = lines[s[x][1]]
         /\ s[x][1] \in LineAt(text, at) - SnippetContext
                          ..LineAt(text, at + Len(new)) + SnippetContext

\* The snippet shows what was put at a place, and no more than the context.
LEMMA SnippetIs ==
    ASSUME NEW T, NEW text \in Seq(T), NEW at \in Nat, at > 0, NEW new \in Seq(T),
           (at - 1) + Len(new) <= Len(text), \A q \in 1..Len(new) : text[(at - 1) + q] = new[q],
           NEW lines, lines = Lines(text), NEW s, s = Snippet(text, at, new)
    PROVE  ShowsAt(s, lines, text, at, new)
<1> DEFINE P == LineFeeds(text)
           a == at - 1
           m == Len(new)
           first == Cardinality(LineFeeds(SubSeq(text, 1, at - 1)))
           last == first + Cardinality(LineFeeds(new))
           C == SnippetContext
           start == IF first > C THEN first - C ELSE 0
           n == Len(lines)
           K == {k \in 1..n : k - 1 \in start..last + C}
           items == [k \in 1..n |-> <<k, lines[k]>>]
<1>1. s = ItemsAt(items, K)
  BY Zenon DEF Snippet
<1>2. a \in Nat /\ m \in Nat /\ a + m <= Len(text) /\ a <= Len(text) /\ a + 1 = at /\ Len(text) \in Nat
  OBVIOUS
<1>3. C \in Nat /\ n \in Nat
  BY LinesAre, TextAssumption DEF TextAssumption
<1>4. first = Count(P, a) /\ Count(P, a) \in Nat
  <2> DEFINE t == SubSeq(text, 1, a)
  <2>1. t \in Seq(T) /\ Len(t) = a /\ \A q \in 1..a : t[q] = text[q]
    <3>1. /\ SubSeq(text, 0 + 1, a) \in Seq(T) /\ Len(SubSeq(text, 0 + 1, a)) = a - 0
          /\ \A q \in 1..a - 0 : SubSeq(text, 0 + 1, a)[q] = text[0 + q]
      <4> HIDE DEF a
      <4> QED BY <1>2, PartIs
    <3> QED BY <1>2, <3>1
  <2> HIDE DEF t, a
  <2>2. LineFeeds(t) = {v \in 1..a : v \in P}
    <3>1. \A v \in 1..a : v \in 1..Len(text)
      BY <1>2
    <3> QED BY <2>1, <3>1 DEF LineFeeds
  <2>3. Cardinality(LineFeeds(t)) = Count(P, a)
    BY <2>2, Zenon DEF Count
  <2>4. Count(P, a) \in Nat
    BY <1>2, CountStep
  <2> QED BY <2>3, <2>4 DEF t, a
<1>5. last = Count(P, a + m) /\ Count(P, a + m) \in Nat /\ first <= last
  <2> HIDE DEF a
  <2>1. Count(P, a + m) = Count(P, a) + Cardinality(LineFeeds(new))
    BY <1>2, FeedsOfPart DEF a
  <2>2. Count(P, a + m) \in Nat /\ Count(P, a) <= Count(P, a + m)
    BY <1>2, CountGrows
  <2> QED BY <1>4, <2>1, <2>2
<1>6. LineAt(text, at) = 1 + first /\ LineAt(text, at + m) = 1 + last
  <2>1. LineAt(text, a + 1) = 1 + Count(P, a)
    BY <1>2, FeedsBefore, Zenon DEF LineAt
  <2>2. a + m \in Nat /\ (a + m) + 1 = at + m
    BY <1>2
  <2>3. LineAt(text, (a + m) + 1) = 1 + Count(P, a + m)
    BY <2>2, FeedsBefore, Zenon DEF LineAt
  <2> QED BY <1>2, <1>4, <1>5, <2>1, <2>2, <2>3
<1>7. first \in Nat /\ last \in Nat /\ first <= last
  BY <1>4, <1>5
<1> HIDE DEF first, last, C, n, items
<1>8. \A k \in K : k \in Nat /\ k <= n /\ k \in 1..n /\ k \in (1 + first) - C..1 + last + C
  <2> TAKE k \in K
  <2>1. k \in 1..n /\ k - 1 \in start..last + C
    OBVIOUS
  <2>2. first - C <= start /\ start \in Nat
    BY <1>3, <1>7
  <2> HIDE DEF start, K
  <2> QED BY <1>3, <1>7, <2>1, <2>2
<1>9. \A k \in 1 + first..1 + last : k <= n => k \in K
  <2> TAKE k \in 1 + first..1 + last
  <2> HAVE k <= n
  <2>1. k \in 1..n
    BY <1>3, <1>7
  <2>2. start \in Nat /\ start <= first
    BY <1>3, <1>7
  <2> HIDE DEF start
  <2>3. k - 1 \in start..last + C
    BY <1>3, <1>7, <2>2
  <2> QED BY <2>1, <2>3
<1>10. \A k \in K : items[k] = <<k, lines[k]>>
  BY <1>8 DEF items
<1> HIDE DEF K
<1>11. /\ Len(s) \in Nat /\ DOMAIN s = 1..Len(s)
       /\ \A k \in K : \E x \in 1..Len(s) : s[x] = items[k]
       /\ \A x \in 1..Len(s) : \E k \in K : s[x] = items[k]
  <2>1. PlacesUpTo(K, n)
    BY <1>3, <1>8 DEF PlacesUpTo
  <2>2. Shows(s, items, K)
    BY <1>1, <2>1, PlacesShown
  <2> QED BY <2>2, Zenon DEF Shows
<1>12. ASSUME NEW k \in 1 + first..1 + last, k <= n PROVE <<k, lines[k]>> \in ToSet(s)
  <2>1. k \in K
    BY <1>9, <1>12
  <2>2. PICK x \in 1..Len(s) : s[x] = items[k]
    BY <1>11, <2>1
  <2>3. s[x] = <<k, lines[k]>>
    BY <1>10, <2>1, <2>2
  <2> QED BY <1>11, <2>3 DEF ToSet
<1>13. ASSUME NEW x \in 1..Len(s)
       PROVE  s[x][2] = lines[s[x][1]] /\ s[x][1] \in (1 + first) - C..1 + last + C
  <2>1. PICK k \in K : s[x] = items[k]
    BY <1>11
  <2>2. s[x] = <<k, lines[k]>>
    BY <1>10, <2>1
  <2>3. s[x][1] = k /\ s[x][2] = lines[k]
    BY <2>2
  <2>4. k \in (1 + first) - C..1 + last + C
    BY <1>8
  <2> QED BY <2>3, <2>4, Zenon
<1>14. \A k \in LineAt(text, at)..LineAt(text, at + m) : k <= n => <<k, lines[k]>> \in ToSet(s)
  BY <1>6, <1>12, Zenon
<1>15. \A x \in 1..Len(s) :
         /\ s[x][2] = lines[s[x][1]]
         /\ s[x][1] \in LineAt(text, at) - C..LineAt(text, at + m) + C
  BY <1>6, <1>13, Zenon
<1> QED BY <1>14, <1>15, Zenon DEF ShowsAt, n, C

-----------------------------------------------------------------------------
(* The edits of MCFunctions. *)

Characters == {Letter, CR, LF}

AskedEdits ==
    [original : Seq(Characters), old : Seq(Characters) \ {<<>>}, new : Seq(Characters), all : BOOLEAN]

\* An answered edit is that of its request.
TextInv ==
    called = "edit" =>
      /\ input \in AskedEdits
      /\ output \in {Pending, <<Edit(input.original, input.old, input.new, input.all)>>}

\* How often the target is found, and how many of those are replaced.
FoundAt == Matches(input.original, Old)
Replaced == IF input.all THEN Len(FoundAt) ELSE 1
Edited == ReplaceN(input.original, Old, New, Replaced)

EditAnswer(answer) ==
    \/ answer.reply = "targetMissing" /\ answer.text = input.original
    \/ /\ answer.reply = "ambiguous" /\ answer.text = input.original
       /\ answer.occurrences = Len(FoundAt)
    \/ answer.reply = "noChange" /\ answer.text = input.original
    \/ /\ answer.reply = "succeeded" /\ answer.text = Edited /\ Len(FoundAt) # 0
       /\ answer.occurrences = Replaced /\ answer.snippet = Snippet(Edited, Head(FoundAt), New)

LEMMA EditAnswers == EditAnswer(Edit(input.original, input.old, input.new, input.all))
<1> DEFINE answer == Edit(input.original, input.old, input.new, input.all)
           at == FoundAt
           count == Len(at)
<1>1. answer = IF count = 0 THEN [reply |-> "targetMissing", text |-> input.original]
               ELSE IF count > 1 /\ ~input.all
               THEN [reply |-> "ambiguous", text |-> input.original, occurrences |-> count]
               ELSE IF Edited = input.original THEN [reply |-> "noChange", text |-> input.original]
               ELSE [reply |-> "succeeded", text |-> Edited, occurrences |-> Replaced,
                     snippet |-> Snippet(Edited, Head(at), New)]
  BY Zenon DEF Edit, FoundAt, Replaced, Edited, Old, New
<1> HIDE DEF answer, at
<1>3. \/ count = 0 /\ answer = [reply |-> "targetMissing", text |-> input.original]
      \/ answer = [reply |-> "ambiguous", text |-> input.original, occurrences |-> count]
      \/ answer = [reply |-> "noChange", text |-> input.original]
      \/ /\ count # 0
         /\ answer = [reply |-> "succeeded", text |-> Edited, occurrences |-> Replaced,
                      snippet |-> Snippet(Edited, Head(at), New)]
  BY <1>1, Zenon
<1>4. EditAnswer(answer)
  BY <1>3 DEF EditAnswer, at
<1> QED BY <1>4 DEF answer

\* What an edit works on.
LEMMA EditParts ==
    ASSUME input \in AskedEdits
    PROVE  /\ input.original \in Seq(Characters) /\ input.all \in BOOLEAN
           /\ Old \in Seq(Characters) /\ Old # <<>> /\ New \in Seq(Characters)
           /\ Found(input.original, Old, FoundAt) /\ Len(FoundAt) \in Nat
           /\ CrlfOnly(input.original) /\ LineFeeds(input.original) # {}
                /\ ~Contains(input.old, CR) /\ ~Contains(input.new, CR)
                => CrlfOnly(Old) /\ CrlfOnly(New)
<1>1. /\ input.original \in Seq(Characters) /\ input.old \in Seq(Characters) /\ input.old # <<>>
      /\ input.new \in Seq(Characters) /\ input.all \in BOOLEAN
  BY DEF AskedEdits
<1>2. CR \in Characters /\ LF \in Characters
  BY DEF Characters
<1>3. /\ Old \in Seq(Characters) /\ Old # <<>> /\ New \in Seq(Characters)
      /\ CrlfOnly(input.original) /\ LineFeeds(input.original) # {}
           /\ ~Contains(input.old, CR) /\ ~Contains(input.new, CR)
           => CrlfOnly(Old) /\ CrlfOnly(New)
  BY <1>1, <1>2, StringsAre DEF Old, New
<1>4. Found(input.original, Old, FoundAt)
  BY <1>1, <1>3, MatchesFound DEF FoundAt
<1>5. Len(FoundAt) \in Nat
  BY <1>4 DEF Found
<1> QED BY <1>1, <1>3, <1>4, <1>5

LEMMA EditReplaces ==
    ASSUME input \in AskedEdits, NEW answer, EditAnswer(answer)
    PROVE  ReplacesOnePlace(answer) /\ CountsWhatCanBeReplaced(answer)
<1>1. /\ input.original \in Seq(Characters) /\ input.all \in BOOLEAN
      /\ Old \in Seq(Characters) /\ Old # <<>> /\ New \in Seq(Characters)
      /\ Found(input.original, Old, FoundAt) /\ Len(FoundAt) \in Nat
  BY EditParts
<1>2. answer.reply # "succeeded" => answer.text = input.original
  BY DEF EditAnswer
<1>3. answer.reply = "succeeded" =>
        answer.text = Edited /\ Len(FoundAt) # 0 /\ answer.occurrences = Replaced
  BY DEF EditAnswer
<1>4. answer.reply = "ambiguous" => answer.occurrences = Len(FoundAt)
  BY DEF EditAnswer
<1>5. ReplacesOnePlace(answer)
  <2>1. ASSUME Succeeded(answer), ~input.all
        PROVE  \E x \in Occurrences(input.original, Old) :
                 answer.text = SubSeq(input.original, 1, x - 1) \o New
                           \o SubSeq(input.original, x + Len(Old), Len(input.original))
    <3>1. Edited = ReplaceN(input.original, Old, New, 1) /\ Len(FoundAt) > 0 /\ answer.text = Edited
      BY <1>1, <1>3, <2>1 DEF Edited, Replaced, Succeeded
    <3>2. FoundAt = Matches(input.original, Old)
      BY DEF FoundAt
    <3>3. ReplacedAt(ReplaceN(input.original, Old, New, 1), input.original, Old, New, FoundAt[1])
      BY <1>1, <3>1, <3>2, OneReplaced
    <3> QED BY <3>1, <3>3, Zenon DEF ReplacedAt
  <2> QED BY <1>2, <2>1 DEF ReplacesOnePlace, Succeeded
<1>6. ASSUME answer.reply \in {"ambiguous", "succeeded"}, answer.reply = "ambiguous" \/ input.all,
             NEW S \in Packings
      PROVE  Cardinality(S) <= answer.occurrences
  <2>1. answer.occurrences = Len(FoundAt)
    BY <1>3, <1>4, <1>6 DEF Replaced
  <2>2. S \in SUBSET Occurrences(input.original, Old) /\ Apart(S, Len(Old))
    BY DEF Packings, Apart
  <2>3. Cardinality(S) <= Len(FoundAt)
    BY <1>1, <2>2, Zenon DEF Found
  <2> QED BY <2>1, <2>3
<1>7. ASSUME Succeeded(answer)
      PROVE  Len(answer.text) + answer.occurrences * Len(Old)
               = Len(input.original) + answer.occurrences * Len(New)
  <2>1. answer.text = Edited /\ answer.occurrences = Replaced /\ Len(FoundAt) # 0
    BY <1>3, <1>7 DEF Succeeded
  <2>2. Replaced \in Nat /\ Replaced <= Len(FoundAt)
    BY <1>1, <2>1 DEF Replaced
  <2>3. Len(Edited) + Replaced * Len(Old) = Len(input.original) + Replaced * Len(New)
    <3>1. Replaced <= Len(Matches(input.original, Old))
      BY <2>2 DEF FoundAt
    <3>2. Edited = ReplaceN(input.original, Old, New, Replaced)
      BY DEF Edited
    <3>3. Grows(Edited, input.original, Old, New, Replaced)
      BY <1>1, <2>2, <3>1, <3>2, ReplacedLength
    <3> QED BY <3>3 DEF Grows
  <2> QED BY <2>1, <2>3
<1> QED BY <1>5, <1>6, <1>7 DEF CountsWhatCanBeReplaced

LEMMA EditKeepsCrlf ==
    ASSUME input \in AskedEdits, NEW answer, EditAnswer(answer)
    PROVE  BareRequestKeepsCrlf(answer)
<1> SUFFICES ASSUME Succeeded(answer), CrlfFile, LineFeeds(input.original) # {},
                    ~Contains(input.old, CR), ~Contains(input.new, CR)
             PROVE  AllCrlf(answer.text) /\ ~LoneCR(answer.text)
  BY DEF BareRequestKeepsCrlf
<1>1. /\ input.original \in Seq(Characters) /\ Len(FoundAt) \in Nat
      /\ Old \in Seq(Characters) /\ Old # <<>> /\ New \in Seq(Characters)
  BY EditParts
<1>2. answer.text = Edited /\ Len(FoundAt) # 0
  BY DEF EditAnswer, Succeeded
<1>3. CrlfOnly(input.original)
  BY <1>1, CrlfOnlyIs DEF CrlfFile
<1>4. CrlfOnly(Old) /\ CrlfOnly(New)
  BY <1>3, EditParts
<1>5. Replaced \in Nat /\ Replaced <= Len(FoundAt)
  BY <1>1, <1>2 DEF Replaced
<1>6. CrlfOnly(Edited)
  BY <1>1, <1>3, <1>4, <1>5, ReplacedCrlf DEF Edited, FoundAt
<1>7. Edited \in Seq(Characters)
  BY <1>1, <1>5, ReplacedLength DEF Edited, FoundAt
<1> QED BY <1>2, <1>6, <1>7, CrlfOnlyIs

LEMMA EditIsShown ==
    ASSUME input \in AskedEdits, NEW answer, EditAnswer(answer)
    PROVE  SnippetShowsTheEdit(answer)
<1> SUFFICES ASSUME Succeeded(answer) PROVE SnippetShowsTheEdit(answer)
  BY DEF SnippetShowsTheEdit
<1>1. /\ input.original \in Seq(Characters) /\ Len(FoundAt) \in Nat
      /\ Old \in Seq(Characters) /\ Old # <<>> /\ New \in Seq(Characters)
  BY EditParts
<1>2. /\ answer.text = Edited /\ Len(FoundAt) # 0
      /\ answer.snippet = Snippet(Edited, Head(FoundAt), New)
  BY DEF EditAnswer, Succeeded
<1>3. Replaced \in Nat /\ Replaced <= Len(FoundAt) /\ Replaced > 0
  BY <1>1, <1>2 DEF Replaced
<1>4. Edited \in Seq(Characters)
  BY <1>1, <1>3, ReplacedLength DEF Edited, FoundAt
<1> DEFINE at == FoundAt[1]
<1>5. /\ at \in Nat /\ at > 0 /\ (at - 1) + Len(New) <= Len(Edited)
      /\ \A q \in 1..Len(New) : Edited[(at - 1) + q] = New[q]
  BY <1>1, <1>3, ReplacedFirst DEF Edited, FoundAt
<1>6. Head(FoundAt) = at
  <2>1. FoundAt \in Seq(Nat)
    BY EditParts, Zenon DEF Found
  <2> QED BY <1>2, <2>1
<1> HIDE DEF at
<1>7. ShowsAt(Snippet(Edited, at, New), Lines(Edited), Edited, at, New)
  BY <1>1, <1>4, <1>5, SnippetIs
<1>8. ShowsAt(answer.snippet, Lines(answer.text), answer.text, Head(Matches(input.original, Old)), New)
  BY <1>2, <1>6, <1>7 DEF FoundAt
<1> QED BY <1>8, Zenon DEF ShowsAt, LineAt, SnippetShowsTheEdit

(***************************************************************************)
(* An edit changes what was asked where it is and nothing else, counts     *)
(* what can be replaced, leaves the lines of a CRLF file as they end, and  *)
(* shows the lines it changed under their numbers (edit.rs).  For texts of *)
(* any length and any context.                                             *)
(***************************************************************************)
THEOREM EditsDoAsAsked == CallSpec => []EditDoesAsAsked
<1>1. CallInit => TextInv
  <2> SUFFICES ASSUME CallInit, called = "edit" PROVE TextInv
    BY DEF TextInv
  <2>1. /\ input \in [original : Texts(MaxText), old : Texts(MaxPart) \ {<<>>},
                      new : Texts(MaxPart), all : BOOLEAN]
        /\ output = Pending
    BY DEF CallInit, Edits
  <2>2. MaxText \in Nat /\ MaxPart \in Nat
    BY FunctionsAssumption DEF FunctionsAssumption
  <2>3. \A n \in Nat : Texts(n) \subseteq Seq(Characters)
    BY ShortRow DEF Texts, Characters
  <2>4. input \in AskedEdits
    BY <2>1, <2>2, <2>3 DEF AskedEdits
  <2> QED BY <2>1, <2>4 DEF TextInv
<1>2. TextInv /\ [CallNext]_callVars => TextInv'
  <2> SUFFICES ASSUME TextInv, [CallNext]_callVars PROVE TextInv'
    OBVIOUS
  <2>1. /\ called' = called /\ input' = input
        /\ called = "edit" =>
             output' \in {output, <<Edit(input.original, input.old, input.new, input.all)>>}
    BY DEF CallNext, Answer, callVars
  <2> QED BY <2>1 DEF TextInv, AskedEdits
<1>3. TextInv => EditDoesAsAsked
  <2> SUFFICES ASSUME TextInv, Answered("edit") PROVE EditDoesAsAsked
    BY DEF EditDoesAsAsked
  <2>1. /\ input \in AskedEdits
        /\ output[1] = Edit(input.original, input.old, input.new, input.all)
    BY DEF TextInv, Answered
  <2>2. EditAnswer(output[1])
    BY <2>1, EditAnswers
  <2>3. /\ ReplacesOnePlace(output[1]) /\ CountsWhatCanBeReplaced(output[1])
        /\ BareRequestKeepsCrlf(output[1]) /\ SnippetShowsTheEdit(output[1])
    BY <2>1, <2>2, EditReplaces, EditKeepsCrlf, EditIsShown
  <2> QED BY <2>3 DEF EditDoesAsAsked
<1> QED BY <1>1, <1>2, <1>3, PTL DEF CallSpec

=============================================================================
