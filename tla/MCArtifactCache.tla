-------------------------- MODULE MCArtifactCache --------------------------
(* Instances of ArtifactCache for TLC.                                     *)
EXTENDS ArtifactCache, TLC

CONSTANTS t1, t2, t3, p1, p2

\* Two tasks of one process and one of another.
TwoAndOne == (t1 :> p1) @@ (t2 :> p1) @@ (t3 :> p2)

\* Two tasks of one process.
Both == (t1 :> p1) @@ (t2 :> p1)
=============================================================================
