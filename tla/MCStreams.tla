----------------------------- MODULE MCStreams -----------------------------
(* Two mixtures of groups, for TLC.  A behaviour is of one of them.        *)
EXTENDS MCEvaluateStream

\* A pinned container group beside a fan-out target, which needs no version.
OnePinned == (g1 :> spec) @@ (g2 :> NoSpec)

\* A container group and an ssh host that pin the same version; the host is slow.
SlowHost == INSTANCE EvaluateStream WITH SpecOf <- SharedSpec, FanOut <- {}, Slow <- {g2}

VARIABLE of   \* which of the two this behaviour is of

MCInit == \/ of = "mixed" /\ Init
          \/ of = "slow" /\ SlowHost!Init
MCNext == /\ UNCHANGED of
          /\ \/ of = "mixed" /\ Next
             \/ of = "slow" /\ SlowHost!Next
MCSpec == /\ MCInit /\ [][MCNext]_<<of, vars>>
          /\ of = "slow" => SlowHost!Fairness

FastGoesAhead == of = "slow" => SlowHost!FastIsNotHeldUp
=============================================================================
