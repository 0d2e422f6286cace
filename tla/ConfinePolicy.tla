--------------------------- MODULE ConfinePolicy ----------------------------
(***************************************************************************)
(* The confinement request every backend enforces (bestie_guard/src/       *)
(* policy.rs): what its words mean, apart from how a backend says them.    *)
(* A path is the sequence of its names; the root is the empty one.         *)
(***************************************************************************)
EXTENDS Naturals, SequencesExt

Accesses == {"Read", "ReadWrite", "ListDir"}

Networks == {"All", "Local", "None"}

\* At a path or beneath it.
Under(path, root) == IsPrefix(root, path)

\* "Read implies execute"; a list-only grant makes entries visible alone.
Confers(access) ==
    CASE access = "Read" -> {"read", "list", "execute"}
      [] access = "ReadWrite" -> {"read", "list", "execute", "write"}
      [] access = "ListDir" -> {"list"}

\* A grant confers its access on its whole subtree.
Granted(grants, path) ==
    UNION {Confers(g.access) : g \in {h \in ToSet(grants) : Under(path, h.path)}}

\* "A read the confined process is denied, even inside a granted subtree".
Denied(denies, path) == \E d \in ToSet(denies) : Under(path, d.path)

=============================================================================
