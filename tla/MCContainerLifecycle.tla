------------------------ MODULE MCContainerLifecycle ------------------------
(* Two instances of ContainerLifecycle for TLC.  A behaviour is of one: two *)
(* uses of each transport; or one use of each, and a sweep meanwhile.       *)
EXTENDS ContainerLifecycle

CONSTANTS kept, single

\* A batch that builds its image, probes the platform and keeps its container; and
\* a transport whose every evaluation has a container of its own, its platform
\* checked first or not.
BatchAndSingle ==
  [t \in {kept, single} |-> IF t = kept THEN {"build", "one-shot", "kept"}
                                        ELSE {"one-shot", "checked"}]

\* Timeouts on either side of the idle window.
LongAndShort == [t \in {kept, single} |-> IF t = kept THEN 3 ELSE 1]

\* A kept container and one for each evaluation, beside a sweep.
KeptAndSingle == [t \in {kept, single} |-> IF t = kept THEN {"kept"} ELSE {"checked"}]

Swept == INSTANCE ContainerLifecycle WITH MaxUses <- 1, MayReclaim <- TRUE, Uses <- KeptAndSingle

VARIABLE of   \* which of the two this behaviour is of

MCInit == Init /\ of \in {"used twice", "swept"}
MCNext == /\ UNCHANGED of
          /\ \/ of = "used twice" /\ Next
             \/ of = "swept" /\ Swept!Next
MCSpec == MCInit /\ [][MCNext]_<<of, vars>> /\ Fairness
=============================================================================
