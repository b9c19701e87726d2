----------------------------- MODULE SharedRuns -----------------------------
(***************************************************************************)
(* How one group's expressions are sent when several of them can share a   *)
(* run: a qna group puts chunks through one qna process after a first      *)
(* expression that ran alone (orchestrate._group, transports/batch.py); a  *)
(* fan-out group sends the hinted ones as tuples, a few at once, and the   *)
(* others beside them (orchestrate._fanout_tuples).  A shared run whose    *)
(* output cannot be trusted is handed back, its expressions go one by one, *)
(* and no more are shared.                                                 *)
(***************************************************************************)
EXTENDS Naturals, Sequences, FiniteSets, SequencesExt, Selection

CONSTANTS NExpr,
          ShareSize,   \* DEFAULT_BATCH_SIZE, FANOUT_TUPLE_SIZE
          MaxBytes,    \* MAX_BATCH_BYTES
          Costs,       \* what an expression may cost of it
          FanOutLanes, \* parallel_expressions
          Permits,     \* max_parallel
          MaxSub       \* most endpoints that answer a fan-out cell (bound)

ASSUME SizesAssumption == /\ {NExpr, ShareSize, FanOutLanes, Permits, MaxSub} \subseteq Nat \ {0}
                          /\ MaxBytes \in Nat /\ Costs \subseteq Nat

Cells == 1 .. NExpr

\* What a result says: an expression's answer, given by its number, or that it failed.
Failure == NExpr + 1

VARIABLES
  kind,      \* "qna" or "fan-out"
  hints,     \* the expressions a tuple may take
  cost,      \* what each costs of a chunk's bytes
  plan,      \* what is to be shared, in order
  cell,      \* where each expression's own run is
  unit,      \* where each shared run is
  sharing,   \* `tupling`; a `batcher` is there
  wasted,    \* shared runs handed back
  said       \* the results of each expression, a burst for each run that gave some
choices == <<kind, hints, cost, plan>>
vars == <<choices, cell, unit, sharing, wasted, said>>

-----------------------------------------------------------------------------
(* What is shared. *)

\* What a chunk's expressions cost together.
Size(chunk) ==
  LET upto[n \in 0 .. Len(chunk)] == IF n = 0 THEN 0 ELSE upto[n - 1] + cost[chunk[n]]
  IN upto[Len(chunk)]

\* A chunk cannot take another expression, of cost c.
Full(chunk, c) == Len(chunk) >= ShareSize \/ Size(chunk) + c > MaxBytes

AddTo(chunks, i) == IF chunks = <<>> \/ Full(Last(chunks), cost[i]) THEN Append(chunks, <<i>>)
                    ELSE Append(Front(chunks), Append(Last(chunks), i))

\* The chunks of a sequence of expressions.
Cut(order) ==
  LET upto[n \in 0 .. Len(order)] == IF n = 0 THEN <<>> ELSE AddTo(upto[n - 1], order[n])
  IN upto[Len(order)]

\* chunk_expressions, for all but the first.
Chunks == Cut([i \in 1 .. NExpr - 1 |-> i + 1])

\* The hinted ones, by ShareSize: a tuple's expressions cost it nothing.
Tuples == Cut(Chosen([i \in Cells |-> i], hints))

\* "One alone is not a tuple."
Units == LET chunks == IF kind = "qna" THEN Chunks ELSE Tuples
         IN Chosen(chunks, {c \in ToSet(chunks) : Len(c) > 1})

Init ==
  /\ kind \in {"qna", "fan-out"}
  /\ hints \in IF kind = "qna" THEN {{}} ELSE SUBSET Cells
  /\ cost \in IF kind = "qna" THEN [Cells -> Costs] ELSE {[i \in Cells |-> 0]}
  /\ plan = Units
  /\ cell = [i \in Cells |-> "held"]
  /\ unit = [k \in Cells |-> "held"]
  /\ sharing = TRUE /\ wasted = 0
  /\ said = [i \in Cells |-> <<>>]

-----------------------------------------------------------------------------
(* Lanes and permits: a lane is held while its run waits for a permit. *)

InLane == {"permit", "flying"}
Lanes == IF kind = "qna" THEN 1 ELSE FanOutLanes

\* Mutant: a tuple's lane is kept while its expressions go one by one.
LanesKept == {k \in 1 .. Len(plan) : unit[k] \in InLane \cup {"handed"}}

LanesOfUnits == {k \in 1 .. Len(plan) : unit[k] \in InLane}
LaneFree == Cardinality(LanesOfUnits) + Cardinality({i \in Cells : cell[i] \in InLane}) < Lanes
PermitFree == Cardinality({k \in Cells : unit[k] = "flying"})
            + Cardinality({i \in Cells : cell[i] = "flying"}) < Permits

\* A qna group goes in order.
Turn(i) == kind = "qna" => \A j \in 1 .. i - 1 : said[j] # <<>>

\* The first tuple is over, one by one if need be, before the next.
FirstOver(k) == kind = "fan-out" /\ k > 1 => \A i \in ToSet(plan[1]) : said[i] # <<>>

\* An expression goes by itself when no shared run has it, or when that came back.
Alone(i) == \A k \in 1 .. Len(plan) : i \in ToSet(plan[k]) => unit[k] = "handed"

\* "Asked once a lane is free, not before": a tuple queued behind one that
\* failed is not sent.
UnitLane(k) ==
  /\ k \in 1 .. Len(plan) /\ unit[k] = "held" /\ LaneFree /\ Turn(plan[k][1]) /\ FirstOver(k)
  /\ unit' = [unit EXCEPT ![k] = IF sharing THEN "permit" ELSE "handed"]
  /\ UNCHANGED <<choices, cell, sharing, wasted, said>>

UnitStart(k) ==
  /\ unit[k] = "permit" /\ PermitFree
  /\ unit' = [unit EXCEPT ![k] = "flying"]
  /\ UNCHANGED <<choices, cell, sharing, wasted, said>>

CellLane(i) ==
  /\ cell[i] = "held" /\ Alone(i) /\ LaneFree /\ Turn(i)
  /\ cell' = [cell EXCEPT ![i] = "permit"]
  /\ UNCHANGED <<choices, unit, sharing, wasted, said>>

CellStart(i) ==
  /\ cell[i] = "permit" /\ PermitFree
  /\ cell' = [cell EXCEPT ![i] = "flying"]
  /\ UNCHANGED <<choices, unit, sharing, wasted, said>>

\* Mutant: an endpoint list that is empty is passed on.
AsAnswered(i, n) == [m \in 1 .. n |-> i]

\* One expression's run: its answers, or one failure when there are none.
Results(i, n) == IF n = 0 THEN <<Failure>> ELSE [m \in 1 .. n |-> i]

CellEnd(i) ==
  /\ cell[i] = "flying"
  /\ cell' = [cell EXCEPT ![i] = "done"]
  /\ \E n \in 0 .. IF kind = "qna" THEN 1 ELSE MaxSub :
       said' = [said EXCEPT ![i] = Append(@, Results(i, n))]
  /\ UNCHANGED <<choices, unit, sharing, wasted>>

-----------------------------------------------------------------------------
(* What a shared run gives. *)

\* qna prints a block for an expression and one for the sentinel after it.  An
\* answer with a stray prompt line is two blocks; a process that stops, or an
\* empty answer, leaves some out.
Sentinel == 0
Pieces(i) == {<<i, Sentinel>>, <<i, i, Sentinel>>, <<i>>, <<Sentinel>>, <<>>}
Stdouts(chunk) ==
  {FlattenSeq(p) : p \in {f \in [1 .. Len(chunk) -> UNION {Pieces(i) : i \in ToSet(chunk)}] :
                            \A n \in 1 .. Len(chunk) : f[n] \in Pieces(chunk[n])}}

\* Mutant: the number of blocks is all that is looked at.
CountOnly(blocks, n) == Len(blocks) = 2 * n

\* split_batch_output: as many blocks as there should be, every other one the
\* sentinel.
Trusted(blocks, n) == /\ Len(blocks) = 2 * n
                      /\ \A m \in 1 .. n : blocks[2 * m] = Sentinel

\* A tuple comes back as cells, a list of endpoints' answers for each.
Splits(chunk) == UNION {[1 .. n -> 0 .. MaxSub] : n \in {0, Len(chunk) - 1, Len(chunk)}}

\* _evaluate_fanout_tuple: a cell for each expression, and none empty.
Clean(cells, n) == Len(cells) = n /\ \A m \in 1 .. n : cells[m] > 0

\* Mutant: the next shared runs are sent all the same.
GoesOn == sharing

HandedBack == FALSE

HandBack(k) == /\ unit' = [unit EXCEPT ![k] = "handed"]
               /\ sharing' = HandedBack /\ wasted' = wasted + 1
               /\ UNCHANGED said

\* Each of the unit's expressions gets its burst.
Tell(k, burst(_)) ==
  /\ unit' = [unit EXCEPT ![k] = "done"]
  /\ said' = [i \in Cells |-> IF i \notin ToSet(plan[k]) THEN said[i]
                ELSE Append(said[i], burst(CHOOSE m \in 1 .. Len(plan[k]) : plan[k][m] = i))]
  /\ UNCHANGED <<sharing, wasted>>

UnitEnd(k) ==
  /\ unit[k] = "flying"
  /\ LET n == Len(plan[k]) IN
     \/ /\ kind = "qna"
        /\ \E out \in Stdouts(plan[k]) :
             IF Trusted(out, n) THEN Tell(k, LAMBDA m : <<out[2 * m - 1]>>) ELSE HandBack(k)
     \/ /\ kind = "fan-out"
        /\ \E out \in Splits(plan[k]) :
             IF Clean(out, n) THEN Tell(k, LAMBDA m : Results(plan[k][m], out[m]))
             ELSE HandBack(k)
  /\ UNCHANGED <<choices, cell>>

Next == \/ \E k \in Cells : UnitLane(k) \/ UnitStart(k) \/ UnitEnd(k)
        \/ \E i \in Cells : CellLane(i) \/ CellStart(i) \/ CellEnd(i)

\* The loop goes on while it can: a run ends, if by its timeout.
Fairness == WF_vars(Next)
Spec == Init /\ [][Next]_vars /\ Fairness

-----------------------------------------------------------------------------
\* No expression is shared twice, and none there is not.
PlanOK ==
  /\ plan \in Seq(Seq(Cells)) /\ Len(plan) <= NExpr
  /\ \A k, j \in 1 .. Len(plan) : \A m \in 1 .. Len(plan[k]), n \in 1 .. Len(plan[j]) :
       plan[k][m] = plan[j][n] => k = j /\ m = n

TypeOK ==
  /\ PlanOK
  /\ cell \in [Cells -> {"held", "permit", "flying", "done"}]
  /\ unit \in [Cells -> {"held", "permit", "flying", "handed", "done"}]
  /\ \A i \in Cells : cell[i] = "done" => said[i] # <<>>
  /\ \A i \in Cells : \A n \in DOMAIN said[i] : said[i][n] # <<>>

\* In an output that is trusted every block is where its expression is.
SplitsRightly ==
  \A k \in 1 .. Len(plan) : \A out \in Stdouts(plan[k]) :
    Trusted(out, Len(plan[k])) =>
      \A m \in 1 .. Len(plan[k]) : out[2 * m - 1] = plan[k][m]

\* "Refusing costs time; misattributing an answer costs correctness": whatever
\* of its output a qna process leaves out or doubles, no expression is given
\* another's answer, and none is answered twice, by a tuple and by itself, say.
OwnAnswers ==
  /\ kind = "qna" => SplitsRightly
  /\ \A i \in Cells : /\ Len(said[i]) <= 1
                      /\ \A n \in DOMAIN said[i] : ToSet(said[i][n]) \subseteq {i, Failure}

\* What sharing may cost: one chunk of a qna group, and of a fan-out group the
\* tuples in flight when the first came back.
WastesFew == wasted <= Lanes

\* A chunk of several fits in one stdin, its count too, and a chunk does not
\* end early: its next neighbour would not have fitted.
ChunksFit ==
  LET fits(c) == Len(c) <= ShareSize /\ Size(c) <= MaxBytes
  IN kind = "qna" =>
       /\ FlattenSeq(Chunks) = [i \in 1 .. NExpr - 1 |-> i + 1]
       /\ \A k \in 1 .. Len(Chunks) : Len(Chunks[k]) > 1 => fits(Chunks[k])
       /\ \A k \in 2 .. Len(Chunks) : ~ fits(Append(Chunks[k - 1], Chunks[k][1]))

\* Runs are shared where they may be, and for few of them is it in vain.
SharingPays == WastesFew /\ ChunksFit

\* Every expression is answered, whatever is handed back: the end of a group.
AllAnswered == \A i \in Cells : said[i] # <<>>
=============================================================================
