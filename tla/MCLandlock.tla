----------------------------- MODULE MCLandlock -----------------------------
(* A small tree with a link, any part of it missing. *)
EXTENDS Landlock

CONSTANT MaxGrants

Dir == <<"w">>
File == <<"w", "a">>
Link == <<"link">>
Null == <<"null">>

MCPaths == {Dir, File, Link, Null}
MCDevices == <<Null>>

\* What is missing takes what is beneath it along; the link leads anywhere.
MCFilesystems ==
    {f \in [MCPaths -> MCPaths \cup {Missing}] :
       /\ \A p \in {Dir, File, Null} : f[p] \in {p, Missing}
       /\ f[Dir] = Missing => f[File] = Missing
       /\ f[Link] \in {Missing, Dir, File} /\ (f[Link] # Missing => f[f[Link]] # Missing)}

MCPolicies ==
    [network : Networks,
     grants : BoundedSeq([path : {Dir, File, Link}, access : Accesses], MaxGrants)]

\* A kernel lacks one thing at most: the calls are made one after the other.
MCKernels == {Features \ {f} : f \in Features \cup {"nothing"}}

=============================================================================
