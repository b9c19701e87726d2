---------------------------- MODULE ResultStream ----------------------------
(***************************************************************************)
(* What a caller of evaluate_many_stream and its three siblings is         *)
(* promised, with no task, semaphore or queue in sight.                    *)
(*                                                                         *)
(* A run owes at least one result to every cell -- one expression of one   *)
(* (target, version) pair.  No result arrives twice; the results a fan-out *)
(* cell gives beyond its first are numbered after it.  The stream runs out *)
(* only when every cell has been answered, or it was closed early by the   *)
(* caller; either way the call comes back only when no transport is in use *)
(* any more.                                                               *)
(***************************************************************************)
EXTENDS Naturals

CONSTANTS Groups,   \* the (target, version) pairs of the run
          Cells,    \* the expressions, by index
          Subs      \* the numbers a cell's results may carry

Results == Groups \X Cells \X Subs

VARIABLES received,   \* how often the caller got each result
          stream,     \* "open", "closing" (given up early) or "over"
          live        \* the groups whose transport is in use

vars == <<received, stream, live>>

Init == /\ received = [r \in Results |-> 0]
        /\ stream = "open"
        /\ live = {}

\* The caller gets one more result, which it did not have before.
Deliver == /\ stream = "open"
           /\ \E r \in Results : /\ received[r] = 0
                                 /\ received' = [received EXCEPT ![r] = 1]
           /\ UNCHANGED <<stream, live>>

\* A target is put to use, or handed back.
Use == /\ stream # "over"
       /\ \E g \in Groups : live' \in {live \cup {g}, live \ {g}}
       /\ UNCHANGED <<received, stream>>

\* The caller gives up: `break`, an exception, a cancelled request.
Close == /\ stream = "open"
         /\ stream' = "closing"
         /\ UNCHANGED <<received, live>>

\* The stream is exhausted, or has finished closing.
Over == /\ stream # "over"
        /\ live = {}
        /\ stream = "open" =>
             \A g \in Groups, c \in Cells : received[<<g, c, 0>>] = 1
        /\ stream' = "over"
        /\ UNCHANGED <<received, live>>

Next == Deliver \/ Use \/ Close \/ Over

Spec == Init /\ [][Next]_vars
=============================================================================
