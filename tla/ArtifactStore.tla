--------------------------- MODULE ArtifactStore ---------------------------
(***************************************************************************)
(* What a store of unpacked or downloaded tools promises to those who ask  *)
(* it for one: whoever is given the tool is given all of it, and once it   *)
(* is there it stays (bootstrap/cache.py, "each one is downloaded once,    *)
(* verified, and then reused forever").                                    *)
(***************************************************************************)
CONSTANT Tasks       \* those who ask

VARIABLES ready,     \* whether the whole artifact is under its name
          answer     \* what each of them has been told

vars == <<ready, answer>>

Init == ready = FALSE /\ answer = [t \in Tasks |-> "none"]

\* The first one given it stores it.
Give(t) ==
  /\ answer[t] = "none"
  /\ answer' = [answer EXCEPT ![t] = "given"]
  /\ ready' = TRUE

\* A download fails, a checksum does not match, a lock is not had in time, the
\* one who asks is cancelled or killed.
Refuse(T) ==
  /\ \A t \in T : answer[t] = "none"
  /\ answer' = [t \in Tasks |-> IF t \in T THEN "refused" ELSE answer[t]]
  /\ UNCHANGED ready

Next == (\E t \in Tasks : Give(t)) \/ (\E T \in SUBSET Tasks : Refuse(T))

Spec == Init /\ [][Next]_vars
=============================================================================
