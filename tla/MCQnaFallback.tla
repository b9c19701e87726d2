--------------------------- MODULE MCQnaFallback ---------------------------
(* Instances of QnaFallback for TLC.                                       *)
EXTENDS QnaFallback

CONSTANTS r1, r2

\* Both runs in one process, or one in each of two.
OneProcess   == [r \in {r1, r2} |-> 1]
TwoProcesses == [r \in {r1, r2} |-> IF r = r1 THEN 1 ELSE 2]

\* Five releases, with gaps of each kind between them: an exact pin may ask for
\* one that is not listed, and those stepped through may lack an artifact.
Gap(kind, gaps) == [v \in 1 .. 5 |-> IF v \in gaps THEN kind ELSE "artifact"]
FiveReleases == {Gap("listed", {}), Gap("listed", {3}), Gap("listed", {2}),
                 Gap("unlisted", {3, 5})}
FourReleases == {[v \in 1 .. 4 |-> "artifact"]}
=============================================================================
