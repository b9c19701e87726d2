------------------------ MODULE EvaluateStreamProofs ------------------------
(***************************************************************************)
(* Proofs about EvaluateStream, for every number of groups, expressions    *)
(* and permits.                                                            *)
(*                                                                         *)
(* The properties the runs check follow from one inductive invariant,      *)
(* IInv: each part of it has a lemma that one step keeps it (TypeStep,     *)
(* StageStep, ... SentinelStep), with a step of the proof per action.  The *)
(* lemmas between them are about the queue: what putting a burst on it, or *)
(* taking one off, does to the results in transit (Delivery) and to the    *)
(* sentinels still awaited.                                                *)
(***************************************************************************)
EXTENDS EvaluateStream, FiniteSetTheorems, TLAPS

\* Where the stages that are computed lead to.
LEMMA Stages ==
  ASSUME NEW g \in Groups
  PROVE  /\ \A p \in ForBudget : Holding(p) \in InBudget
         /\ AtBudget(g, "probe") \in {"probe", "probing"}
         /\ AtBudget(g, "arch") \in {"arch", "arching"}
         /\ AtPrepare(g) \in {"prepare", "releasing", "evaluate"}
         /\ AtResolved(g) \in {"prepare", "releasing", "evaluate"}
         /\ AtProbed(g) \in {"prepare", "releasing", "evaluate", "resolving"}
         /\ AtBudget(g, "probe") = "probe" => g \in Imaged
         /\ AtBudget(g, "arch") = "arch" => g \in Imaged
         /\ "prepare" \in {AtPrepare(g), AtResolved(g), AtProbed(g)} => g \in Imaged
         /\ AtPrepare(g) = "releasing" => NExpr = 0
         /\ AtProbed(g) = "releasing" => NExpr = 0
         /\ AtResolved(g) = "releasing" => NExpr = 0
         /\ AtProbed(g) = "resolving" => SpecOf[g] \in Specs
BY GroupsAssumption DEF AtBudget, AtPrepare, AtResolved, AtProbed, Holding, ForBudget, InBudget

\* A burst put on the queue leaves a queue.
LEMMA PutType ==
  ASSUME NEW q \in Seq(Bursts), NEW g \in Groups, NEW rs \in SUBSET (Cells \X Subs)
  PROVE  Put(q, g, rs) \in Seq(Bursts)
<1>1. [group |-> g, results |-> rs] \in Bursts
  BY DEF Bursts
<1>. QED
  BY <1>1 DEF Put

\* One result for every cell, as a failed group gives.
LEMMA FirstResults == Cells \X {0} \in SUBSET (Cells \X Subs)
BY BoundsAssumption DEF Subs

\* Without expressions there are no cells.
LEMMA NoCells == ASSUME NExpr = 0 PROVE Cells = {}
BY DEF Cells

\* A unit to be sent has cells, all of them still to do.
LEMMA NextUnitsNonEmpty ==
  ASSUME NEW g \in Groups, NEW cs \in NextUnits(g)
  PROVE  cs \in SUBSET Todo(g) /\ cs \in (SUBSET Cells) \ {{}}
<1>1. Cardinality(cs) # 0 /\ cs \in SUBSET Todo(g)
  BY BoundsAssumption DEF NextUnits, Sendable
<1>. QED
  BY <1>1, FS_EmptySet DEF Todo

\* One step keeps the type invariant.
LEMMA TypeStep ==
  ASSUME IInv, [Next]_vars
  PROVE  TypeOK'
<1>. USE DEF TypeOK, group_vars, permit_vars, stream_vars
<1>a. TypeOK /\ PermitsInv /\ StageInv
  BY DEF IInv
<1>b. \A g \in Groups : Put(queue, g, Cells \X {0}) \in Seq(Bursts)
  BY <1>a, PutType, FirstResults
<1>. USE <1>a
<1>1. ASSUME NEW g \in Groups, Start(g) PROVE TypeOK'
  <2>1. Put(queue, g, Cells \X {0}) \in Seq(Bursts)
    BY <1>b
  <2>2. CASE SpecOf[g] # NoSpec /\ Emit(g, Cells, Cells \X {0}) /\ UNCHANGED resolutions
    BY <1>1, <2>1, <2>2 DEF Start, Emit, PCs
  <2>3. CASE /\ \E p \in {AtBudget(g, "probe"), AtBudget(g, "arch"), AtProbed(g)} : Proceed(g, p)
             /\ UNCHANGED <<queue, emitted>>
    <3>1. PICK p \in {AtBudget(g, "probe"), AtBudget(g, "arch"), AtProbed(g)} : Proceed(g, p)
      BY <2>3
    <3>2. p \in PCs /\ (p = "resolving" => SpecOf[g] \in Specs)
      BY Stages DEF PCs, ForBudget, InBudget
    <3>. QED
      BY <1>1, <2>3, <3>1, <3>2 DEF Start, Proceed
  <2>. QED
    BY <1>1, <2>2, <2>3 DEF Start
<1>2. ASSUME NEW g \in Groups, Refuse(g) PROVE TypeOK'
  <2>1. Put(queue, g, Cells \X {0}) \in Seq(Bursts) /\ Sentinel(g) \in Bursts
    BY <1>b DEF Sentinel, Bursts
  <2>. QED
    BY <1>2, <2>1 DEF Refuse, PCs
<1>3. ASSUME NEW g \in Groups, TakeBudget(g) PROVE TypeOK'
  BY <1>3, Stages DEF TakeBudget, PCs
<1>4. ASSUME NEW g \in Groups, ProbeEnd(g) PROVE TypeOK'
  BY <1>4, Stages DEF ProbeEnd, ReturnBudget, Proceed, PCs, ForBudget, InBudget
<1>5. ASSUME NEW g \in Groups, ProbeFail(g) PROVE TypeOK'
  <2>1. Put(queue, g, Cells \X {0}) \in Seq(Bursts)
    BY <1>b
  <2>. QED
    BY <1>5, <2>1 DEF ProbeFail, ReturnBudget, Emit, PCs
<1>6. ASSUME NEW g \in Groups, ArchEnd(g) PROVE TypeOK'
  BY <1>6, Stages DEF ArchEnd, ReturnBudget, Proceed, PCs, ForBudget, InBudget
<1>7. ASSUME NEW g \in Groups, ResolveEnd(g) PROVE TypeOK'
  BY <1>7, Stages DEF ResolveEnd, Proceed, PCs, ForBudget, InBudget
<1>8. ASSUME NEW g \in Groups, ResolveFail(g) PROVE TypeOK'
  BY <1>8, <1>b DEF ResolveFail, FailGroup, Emit, PCs
<1>9. ASSUME NEW g \in Groups, PrepareEnd(g) PROVE TypeOK'
  BY <1>9, Stages DEF PrepareEnd, ReturnBudget, Proceed, PCs, ForBudget, InBudget
<1>10. ASSUME NEW g \in Groups, StepBack(g) PROVE TypeOK'
  <2>1. 0 \in Cells /\ steps[g] < MaxSteps
    BY <1>10 DEF StepBack, StageInv
  <2>2. Put(queue, g, {<<0, 0>>}) \in Seq(Bursts)
    <3>1. {<<0, 0>>} \in SUBSET (Cells \X Subs)
      BY <2>1, BoundsAssumption DEF Subs
    <3>. QED
      BY <3>1, PutType
  <2>3. steps' \in [Groups -> 0 .. MaxSteps]
    <3>1. steps' = [steps EXCEPT ![g] = @ + 1] \/ steps' = steps
      BY <1>10 DEF StepBack
    <3>2. steps[g] + 1 \in 0 .. MaxSteps
      BY <2>1, BoundsAssumption
    <3>. QED
      BY <3>1, <3>2
  <2>4. CASE Emit(g, {0}, {<<0, 0>>})
    BY <1>10, <2>1, <2>2, <2>3, <2>4 DEF StepBack, Emit, PCs
  <2>5. CASE UNCHANGED <<queue, emitted>> /\ pc' \in {pc, [pc EXCEPT ![g] = AtPrepare(g)]}
    BY <1>10, <2>3, <2>5, Stages DEF StepBack, PCs, ForBudget
  <2>. QED
    BY <1>10, <2>4, <2>5 DEF StepBack
<1>11. ASSUME NEW g \in Groups, ReleaseEnd(g) PROVE TypeOK'
  BY <1>11 DEF ReleaseEnd, PCs, Sentinel, Bursts
<1>12. ASSUME NEW g \in Groups, Unwind(g) PROVE TypeOK'
  <2>1. UnitsOf(g) \subseteq flight /\ IsFiniteSet(UnitsOf(g)) /\ Cardinality(UnitsOf(g)) \in Nat
    BY FS_Subset, FS_CardinalityType DEF UnitsOf, PermitsInv
  <2>. QED
    BY <1>12, <2>1 DEF Unwind, ReturnBudget, PCs
<1>13. ASSUME NEW g \in Groups, ReleaseInterrupted(g) PROVE TypeOK'
  BY <1>13 DEF ReleaseInterrupted, PCs, Sentinel, Bursts
<1>14. ASSUME NEW g \in Groups, EvaluateStart(g) PROVE TypeOK'
  <2>1. \A cs \in NextUnits(g) : [group |-> g, cells |-> cs] \in Units
    BY NextUnitsNonEmpty DEF Units
  <2>. QED
    BY <1>14, <2>1 DEF EvaluateStart
<1>15. ASSUME NEW u \in flight, EvaluateEnd(u) PROVE TypeOK'
  <2>1. u.group \in Groups /\ u.cells \in SUBSET Cells
    BY DEF Units
  <2>2. PICK n \in IF u.group \in FanOut THEN 1 .. MaxSub ELSE {1} :
          Emit(u.group, u.cells, u.cells \X (0 .. n - 1))
    BY <1>15 DEF EvaluateEnd
  <2>3. u.cells \X (0 .. n - 1) \in SUBSET (Cells \X Subs)
    BY <2>1, BoundsAssumption DEF Subs
  <2>4. Put(queue, u.group, u.cells \X (0 .. n - 1)) \in Seq(Bursts)
    BY <2>1, <2>3, PutType
  <2>. QED
    BY <1>15, <2>1, <2>2, <2>4 DEF EvaluateEnd, ReturnPermit, Emit, PCs
<1>16. ASSUME NEW u \in flight, HandBack(u) PROVE TypeOK'
  <2>1. u.group \in Groups /\ u.cells \in SUBSET Cells
    BY DEF Units
  <2>2. alone' \in [Groups -> SUBSET Cells]
    BY <1>16, <2>1 DEF HandBack
  <2>. QED
    BY <1>16, <2>2 DEF HandBack, ReturnPermit
<1>17. ASSUME NEW u \in flight, TooNew(u) PROVE TypeOK'
  BY <1>17 DEF TooNew, ReturnPermit, Units, PCs
<1>18. ASSUME NEW s \in Specs, Resolver(s) PROVE TypeOK'
  BY <1>18 DEF Resolver
<1>19. ASSUME Take PROVE TypeOK'
  <2>1. PICK r \in Head(queue).results :
          /\ received' = [received EXCEPT ![<<Head(queue).group, r[1], r[2]>>] = @ + 1]
          /\ queue' = IF Head(queue).results = {r} THEN Tail(queue)
                      ELSE [queue EXCEPT ![1].results = @ \ {r}]
    BY <1>19 DEF Take
  <2>2. Len(queue) > 0 /\ queue[1] \in Bursts /\ Tail(queue) \in Seq(Bursts)
    BY <1>19 DEF Take
  <2>3. [queue EXCEPT ![1].results = @ \ {r}] \in Seq(Bursts)
    <3>1. [queue[1] EXCEPT !.results = @ \ {r}] \in Bursts
      BY <2>2 DEF Bursts
    <3>. QED
      BY <2>2, <3>1
  <2>4. received' \in [Groups \X Cells \X Subs -> Nat]
    <3>. DEFINE key == <<Head(queue).group, r[1], r[2]>>
    <3>1. received' = [received EXCEPT ![key] = @ + 1]
      BY <2>1
    <3>2. key \in Groups \X Cells \X Subs => received[key] + 1 \in Nat
      OBVIOUS
    <3>. HIDE DEF key
    <3>. QED
      BY <3>1, <3>2
  <2>. QED
    BY <1>19, <2>1, <2>2, <2>3, <2>4 DEF Take
<1>20. ASSUME TakeSentinel PROVE TypeOK'
  BY <1>20 DEF TakeSentinel
<1>21. ASSUME Close PROVE TypeOK'
  BY <1>21 DEF Close, PCs
<1>22. ASSUME Finish PROVE TypeOK'
  BY <1>22 DEF Finish
<1>23. CASE UNCHANGED vars
  BY <1>23 DEF vars
<1>. QED
  BY <1>1, <1>2, <1>3, <1>4, <1>5, <1>6, <1>7, <1>8, <1>9, <1>10, <1>11, <1>12, <1>13, <1>14, <1>15, <1>16, <1>17, <1>18, <1>19, <1>20, <1>21, <1>22, <1>23 DEF Next, GroupStep, UnitStep, Over

\* One step keeps what a stage says of its group.
LEMMA StageStep ==
  ASSUME IInv, [Next]_vars
  PROVE  StageInv'
<1>. USE DEF StageInv, group_vars, permit_vars, stream_vars, ForBudget, InBudget
<1>a. TypeOK /\ StageInv /\ CancelInv /\ UnitInv
  BY DEF IInv
<1>b. /\ pc \in [Groups -> PCs] /\ transport \in [Groups -> {"none", "open", "released", "abandoned"}]
      /\ emitted \in [Groups -> SUBSET Cells] /\ steps \in [Groups -> 0 .. MaxSteps]
      /\ flight \subseteq Units
  BY <1>a DEF TypeOK
<1>. USE <1>a, <1>b
<1>1. ASSUME NEW g \in Groups, Start(g) PROVE StageInv'
  <2>1. CASE Emit(g, Cells, Cells \X {0})
    BY <1>1, <2>1 DEF Start, Emit
  <2>2. CASE /\ \E p \in {AtBudget(g, "probe"), AtBudget(g, "arch"), AtProbed(g)} : Proceed(g, p)
             /\ UNCHANGED <<queue, emitted>>
    <3>1. PICK p \in {AtBudget(g, "probe"), AtBudget(g, "arch"), AtProbed(g)} : Proceed(g, p)
      BY <2>2
    <3>2. /\ p \notin {"created", "done", "older"}
          /\ p \in {"probe", "arch", "prepare"} => g \in Imaged
          /\ p = "releasing" => NExpr = 0
          /\ p = "resolving" => SpecOf[g] \in Specs
      BY Stages
    <3>. QED
      BY <1>1, <2>2, <3>1, <3>2, NoCells DEF Start, Proceed
  <2>. QED
    BY <1>1, <2>1, <2>2 DEF Start
<1>2. ASSUME NEW g \in Groups, Refuse(g) PROVE StageInv'
  BY <1>2 DEF Refuse
<1>3. ASSUME NEW g \in Groups, TakeBudget(g) PROVE StageInv'
  BY <1>3 DEF TakeBudget, Holding
<1>4. ASSUME NEW g \in Groups, ProbeEnd(g) PROVE StageInv'
  <2>1. PICK p \in {AtBudget(g, "arch"), AtProbed(g)} : Proceed(g, p)
    BY <1>4 DEF ProbeEnd
  <2>2. /\ p \in {"arch", "arching", "prepare", "releasing", "evaluate", "resolving"}
        /\ p \in {"arch", "prepare"} => g \in Imaged
        /\ p = "releasing" => NExpr = 0
        /\ p = "resolving" => SpecOf[g] \in Specs
    BY Stages
  <2>. QED
    BY <1>4, <2>1, <2>2, NoCells DEF ProbeEnd, Proceed, ReturnBudget
<1>5. ASSUME NEW g \in Groups, ProbeFail(g) PROVE StageInv'
  BY <1>5 DEF ProbeFail, ReturnBudget, Emit
<1>6. ASSUME NEW g \in Groups, ArchEnd(g) PROVE StageInv'
  BY <1>6, Stages, NoCells DEF ArchEnd, Proceed, ReturnBudget
<1>7. ASSUME NEW g \in Groups, ResolveEnd(g) PROVE StageInv'
  BY <1>7, Stages, NoCells DEF ResolveEnd, Proceed
<1>8. ASSUME NEW g \in Groups, ResolveFail(g) PROVE StageInv'
  BY <1>8 DEF ResolveFail, FailGroup, Emit
<1>9. ASSUME NEW g \in Groups, PrepareEnd(g) PROVE StageInv'
  BY <1>9, NoCells DEF PrepareEnd, Proceed, ReturnBudget
<1>10. ASSUME NEW g \in Groups, StepBack(g) PROVE StageInv'
  <2>1. CASE Emit(g, {0}, {<<0, 0>>})
    BY <1>10, <2>1 DEF StepBack, Emit
  <2>2. CASE /\ UNCHANGED <<queue, emitted>> /\ pc' = [pc EXCEPT ![g] = AtPrepare(g)]
    BY <1>10, <2>2, Stages, NoCells DEF StepBack
  <2>3. CASE UNCHANGED <<pc, queue, emitted>> /\ steps'[g] < MaxSteps
    <3>1. steps' = [steps EXCEPT ![g] = @ + 1] \/ steps' = steps
      BY <1>10 DEF StepBack
    <3>. QED
      BY <1>10, <2>3, <3>1 DEF StepBack
  <2>. QED
    BY <1>10, <2>1, <2>2, <2>3 DEF StepBack
<1>11. ASSUME NEW g \in Groups, ReleaseEnd(g) PROVE StageInv'
  BY <1>11, Stages, NoCells, BoundsAssumption DEF ReleaseEnd, Units, UnitInv, UnitsWait, FirstIsFirst, CancelInv, Cells
<1>12. ASSUME NEW g \in Groups, Unwind(g) PROVE StageInv'
  BY <1>12, Stages, NoCells, BoundsAssumption DEF Unwind, ReturnBudget, Units, UnitInv, UnitsWait, FirstIsFirst, CancelInv, Cells
<1>13. ASSUME NEW g \in Groups, ReleaseInterrupted(g) PROVE StageInv'
  BY <1>13, Stages, NoCells, BoundsAssumption DEF ReleaseInterrupted, Units, UnitInv, UnitsWait, FirstIsFirst, CancelInv, Cells
<1>14. ASSUME NEW g \in Groups, EvaluateStart(g) PROVE StageInv'
  BY <1>14, Stages, NoCells, BoundsAssumption DEF EvaluateStart, Units, UnitInv, UnitsWait, FirstIsFirst, CancelInv, Cells
<1>15. ASSUME NEW u \in flight, EvaluateEnd(u) PROVE StageInv'
  <2>1. u.group \in Groups /\ u.cells \subseteq Cells /\ pc[u.group] = "evaluate"
    BY DEF Units, UnitInv, UnitsWait, FirstIsFirst
  <2>2. PICK n \in IF u.group \in FanOut THEN 1 .. MaxSub ELSE {1} :
          Emit(u.group, u.cells, u.cells \X (0 .. n - 1))
    BY <1>15 DEF EvaluateEnd
  <2>3. /\ emitted' = [emitted EXCEPT ![u.group] = @ \cup u.cells]
        /\ pc' = [pc EXCEPT ![u.group] =
             IF emitted'[u.group] = Cells THEN "releasing" ELSE "evaluate"]
    BY <2>2 DEF Emit
  <2>. QED
    BY <1>15, <2>1, <2>3 DEF EvaluateEnd
<1>16. ASSUME NEW u \in flight, HandBack(u) PROVE StageInv'
  BY <1>16, Stages, NoCells, BoundsAssumption DEF HandBack, ReturnPermit, Units, UnitInv, UnitsWait, FirstIsFirst, CancelInv, Cells
<1>17. ASSUME NEW u \in flight, TooNew(u) PROVE StageInv'
  <2>1. /\ u.group \in Groups /\ u.cells \subseteq Cells
        /\ u.cells \cap emitted[u.group] = {} /\ pc[u.group] = "evaluate"
    BY DEF Units, UnitInv, UnitsWait, FirstIsFirst
  <2>2. 0 \in Cells /\ emitted[u.group] = {}
    BY <1>17, <2>1 DEF TooNew, UnitInv, UnitsWait, FirstIsFirst
  <2>. QED
    BY <1>17, <2>1, <2>2 DEF TooNew
<1>18. ASSUME NEW s \in Specs, Resolver(s) PROVE StageInv'
  BY <1>18, Stages, NoCells, BoundsAssumption DEF Resolver, Units, UnitInv, UnitsWait, FirstIsFirst, CancelInv, Cells
<1>19. ASSUME Take PROVE StageInv'
  BY <1>19, Stages, NoCells, BoundsAssumption DEF Take, Units, UnitInv, UnitsWait, FirstIsFirst, CancelInv, Cells
<1>20. ASSUME TakeSentinel PROVE StageInv'
  BY <1>20, Stages, NoCells, BoundsAssumption DEF TakeSentinel, Units, UnitInv, UnitsWait, FirstIsFirst, CancelInv, Cells
<1>21. ASSUME Close PROVE StageInv'
  BY <1>21, Stages, NoCells, BoundsAssumption DEF Close, Units, UnitInv, UnitsWait, FirstIsFirst, CancelInv, Cells
<1>22. ASSUME Finish PROVE StageInv'
  BY <1>22, Stages, NoCells, BoundsAssumption DEF Finish, Units, UnitInv, UnitsWait, FirstIsFirst, CancelInv, Cells
<1>23. CASE UNCHANGED vars
  BY <1>23 DEF vars
<1>. QED
  BY <1>1, <1>2, <1>3, <1>4, <1>5, <1>6, <1>7, <1>8, <1>9, <1>10, <1>11, <1>12, <1>13, <1>14, <1>15, <1>16, <1>17, <1>18, <1>19, <1>20, <1>21, <1>22, <1>23 DEF Next, GroupStep, UnitStep, Over

\* One step keeps what is said of cancelled groups.
LEMMA CancelStep ==
  ASSUME IInv, [Next]_vars
  PROVE  CancelInv'
<1>. USE DEF CancelInv, group_vars, permit_vars, stream_vars
<1>a. TypeOK /\ CancelInv /\ UnitInv
  BY DEF IInv
<1>b. pc \in [Groups -> PCs] /\ cancelled \subseteq Groups /\ flight \subseteq Units
  BY <1>a DEF TypeOK
<1>. USE <1>a, <1>b
<1>1. ASSUME NEW g \in Groups, Start(g) PROVE CancelInv'
  BY <1>1, Stages DEF Start, Proceed, Emit
<1>2. ASSUME NEW g \in Groups, Refuse(g) PROVE CancelInv'
  BY <1>2 DEF Refuse, ForBudget, InBudget, UnitInv, UnitsWait, FirstIsFirst, Units
<1>3. ASSUME NEW g \in Groups, TakeBudget(g) PROVE CancelInv'
  BY <1>3 DEF TakeBudget, ForBudget, InBudget, Holding, UnitInv, UnitsWait, FirstIsFirst, Units
<1>4. ASSUME NEW g \in Groups, ProbeEnd(g) PROVE CancelInv'
  BY <1>4, Stages DEF ProbeEnd, Proceed
<1>5. ASSUME NEW g \in Groups, ProbeFail(g) PROVE CancelInv'
  BY <1>5 DEF ProbeFail, Emit, ForBudget, InBudget, UnitInv, UnitsWait, FirstIsFirst, Units
<1>6. ASSUME NEW g \in Groups, ArchEnd(g) PROVE CancelInv'
  BY <1>6, Stages DEF ArchEnd, Proceed
<1>7. ASSUME NEW g \in Groups, ResolveEnd(g) PROVE CancelInv'
  BY <1>7, Stages DEF ResolveEnd, Proceed
<1>8. ASSUME NEW g \in Groups, ResolveFail(g) PROVE CancelInv'
  BY <1>8 DEF ResolveFail, FailGroup, Emit, ForBudget, InBudget, UnitInv, UnitsWait, FirstIsFirst, Units
<1>9. ASSUME NEW g \in Groups, PrepareEnd(g) PROVE CancelInv'
  BY <1>9 DEF PrepareEnd, Proceed, ForBudget, InBudget, UnitInv, UnitsWait, FirstIsFirst, Units
<1>10. ASSUME NEW g \in Groups, StepBack(g) PROVE CancelInv'
  BY <1>10, Stages DEF StepBack, Emit
<1>11. ASSUME NEW g \in Groups, ReleaseEnd(g) PROVE CancelInv'
  BY <1>11 DEF ReleaseEnd, ForBudget, InBudget, UnitInv, UnitsWait, FirstIsFirst, Units
<1>12. ASSUME NEW g \in Groups, Unwind(g) PROVE CancelInv'
  BY <1>12 DEF Unwind, ForBudget, InBudget, UnitInv, UnitsWait, FirstIsFirst, Units
<1>13. ASSUME NEW g \in Groups, ReleaseInterrupted(g) PROVE CancelInv'
  BY <1>13 DEF ReleaseInterrupted, ForBudget, InBudget, UnitInv, UnitsWait, FirstIsFirst, Units
<1>14. ASSUME NEW g \in Groups, EvaluateStart(g) PROVE CancelInv'
  BY <1>14 DEF EvaluateStart, ForBudget, InBudget, UnitInv, UnitsWait, FirstIsFirst, Units
<1>15. ASSUME NEW u \in flight, EvaluateEnd(u) PROVE CancelInv'
  BY <1>15 DEF EvaluateEnd, Emit, ForBudget, InBudget, UnitInv, UnitsWait, FirstIsFirst, Units
<1>16. ASSUME NEW u \in flight, HandBack(u) PROVE CancelInv'
  BY <1>16 DEF HandBack, ForBudget, InBudget, UnitInv, UnitsWait, FirstIsFirst, Units
<1>17. ASSUME NEW u \in flight, TooNew(u) PROVE CancelInv'
  BY <1>17 DEF TooNew, ForBudget, InBudget, UnitInv, UnitsWait, FirstIsFirst, Units
<1>18. ASSUME NEW s \in Specs, Resolver(s) PROVE CancelInv'
  BY <1>18 DEF Resolver, ForBudget, InBudget, UnitInv, UnitsWait, FirstIsFirst, Units
<1>19. ASSUME Take PROVE CancelInv'
  BY <1>19 DEF Take, ForBudget, InBudget, UnitInv, UnitsWait, FirstIsFirst, Units
<1>20. ASSUME TakeSentinel PROVE CancelInv'
  BY <1>20 DEF TakeSentinel, ForBudget, InBudget, UnitInv, UnitsWait, FirstIsFirst, Units
<1>21. ASSUME Close PROVE CancelInv'
  BY <1>21 DEF Close, ForBudget, InBudget, UnitInv, UnitsWait, FirstIsFirst, Units
<1>22. ASSUME Finish PROVE CancelInv'
  BY <1>22 DEF Finish, ForBudget, InBudget, UnitInv, UnitsWait, FirstIsFirst, Units
<1>23. CASE UNCHANGED vars
  BY <1>23 DEF vars
<1>. QED
  BY <1>1, <1>2, <1>3, <1>4, <1>5, <1>6, <1>7, <1>8, <1>9, <1>10, <1>11, <1>12, <1>13, <1>14, <1>15, <1>16, <1>17, <1>18, <1>19, <1>20, <1>21, <1>22, <1>23 DEF Next, GroupStep, UnitStep, Over

\* One step keeps a running resolver awaited.
LEMMA ResolverStep ==
  ASSUME IInv, [Next]_vars
  PROVE  ResolverInv'
<1>. USE DEF ResolverInv, group_vars, permit_vars, stream_vars
<1>a. TypeOK /\ ResolverInv /\ CancelInv /\ UnitInv
  BY DEF IInv
<1>b. /\ pc \in [Groups -> PCs] /\ cancelled \subseteq Groups /\ flight \subseteq Units
      /\ resolutions \in [Specs -> {"absent", "running", "ok", "failed", "cancelled"}]
  BY <1>a DEF TypeOK
<1>. USE <1>a, <1>b
<1>1. ASSUME NEW g \in Groups, Start(g) PROVE ResolverInv'
  BY <1>1 DEF Start, Proceed, Emit, CancelInv
<1>2. ASSUME NEW g \in Groups, Refuse(g) PROVE ResolverInv'
  BY <1>2 DEF Refuse, ForBudget, InBudget, CancelInv, UnitInv, UnitsWait, FirstIsFirst, Units
<1>3. ASSUME NEW g \in Groups, TakeBudget(g) PROVE ResolverInv'
  BY <1>3 DEF TakeBudget, ForBudget, InBudget, CancelInv, UnitInv, UnitsWait, FirstIsFirst, Units
<1>4. ASSUME NEW g \in Groups, ProbeEnd(g) PROVE ResolverInv'
  BY <1>4 DEF ProbeEnd, Proceed, ForBudget, InBudget, CancelInv, UnitInv, UnitsWait, FirstIsFirst, Units
<1>5. ASSUME NEW g \in Groups, ProbeFail(g) PROVE ResolverInv'
  BY <1>5 DEF ProbeFail, Emit, ForBudget, InBudget, CancelInv, UnitInv, UnitsWait, FirstIsFirst, Units
<1>6. ASSUME NEW g \in Groups, ArchEnd(g) PROVE ResolverInv'
  BY <1>6 DEF ArchEnd, Proceed, ForBudget, InBudget, CancelInv, UnitInv, UnitsWait, FirstIsFirst, Units
<1>7. ASSUME NEW g \in Groups, ResolveEnd(g) PROVE ResolverInv'
  BY <1>7 DEF ResolveEnd, Proceed, ForBudget, InBudget, CancelInv, UnitInv, UnitsWait, FirstIsFirst, Units
<1>8. ASSUME NEW g \in Groups, ResolveFail(g) PROVE ResolverInv'
  BY <1>8 DEF ResolveFail, FailGroup, Emit, ForBudget, InBudget, CancelInv, UnitInv, UnitsWait, FirstIsFirst, Units
<1>9. ASSUME NEW g \in Groups, PrepareEnd(g) PROVE ResolverInv'
  BY <1>9 DEF PrepareEnd, Proceed, ForBudget, InBudget, CancelInv, UnitInv, UnitsWait, FirstIsFirst, Units
<1>10. ASSUME NEW g \in Groups, StepBack(g) PROVE ResolverInv'
  BY <1>10 DEF StepBack, Emit, ForBudget, InBudget, CancelInv, UnitInv, UnitsWait, FirstIsFirst, Units
<1>11. ASSUME NEW g \in Groups, ReleaseEnd(g) PROVE ResolverInv'
  BY <1>11 DEF ReleaseEnd, ForBudget, InBudget, CancelInv, UnitInv, UnitsWait, FirstIsFirst, Units
<1>12. ASSUME NEW g \in Groups, Unwind(g) PROVE ResolverInv'
  BY <1>12 DEF Unwind, ForBudget, InBudget, CancelInv, UnitInv, UnitsWait, FirstIsFirst, Units
<1>13. ASSUME NEW g \in Groups, ReleaseInterrupted(g) PROVE ResolverInv'
  BY <1>13 DEF ReleaseInterrupted, ForBudget, InBudget, CancelInv, UnitInv, UnitsWait, FirstIsFirst, Units
<1>14. ASSUME NEW g \in Groups, EvaluateStart(g) PROVE ResolverInv'
  BY <1>14 DEF EvaluateStart, ForBudget, InBudget, CancelInv, UnitInv, UnitsWait, FirstIsFirst, Units
<1>15. ASSUME NEW u \in flight, EvaluateEnd(u) PROVE ResolverInv'
  BY <1>15 DEF EvaluateEnd, Emit, ForBudget, InBudget, CancelInv, UnitInv, UnitsWait, FirstIsFirst, Units
<1>16. ASSUME NEW u \in flight, HandBack(u) PROVE ResolverInv'
  BY <1>16 DEF HandBack, ForBudget, InBudget, CancelInv, UnitInv, UnitsWait, FirstIsFirst, Units
<1>17. ASSUME NEW u \in flight, TooNew(u) PROVE ResolverInv'
  BY <1>17 DEF TooNew, ForBudget, InBudget, CancelInv, UnitInv, UnitsWait, FirstIsFirst, Units
<1>18. ASSUME NEW s \in Specs, Resolver(s) PROVE ResolverInv'
  BY <1>18 DEF Resolver, ForBudget, InBudget, CancelInv, UnitInv, UnitsWait, FirstIsFirst, Units
<1>19. ASSUME Take PROVE ResolverInv'
  BY <1>19 DEF Take, ForBudget, InBudget, CancelInv, UnitInv, UnitsWait, FirstIsFirst, Units
<1>20. ASSUME TakeSentinel PROVE ResolverInv'
  BY <1>20 DEF TakeSentinel, ForBudget, InBudget, CancelInv, UnitInv, UnitsWait, FirstIsFirst, Units
<1>21. ASSUME Close PROVE ResolverInv'
  BY <1>21 DEF Close, ForBudget, InBudget, CancelInv, UnitInv, UnitsWait, FirstIsFirst, Units
<1>22. ASSUME Finish PROVE ResolverInv'
  BY <1>22 DEF Finish, ForBudget, InBudget, CancelInv, UnitInv, UnitsWait, FirstIsFirst, Units
<1>23. CASE UNCHANGED vars
  BY <1>23 DEF vars
<1>. QED
  BY <1>1, <1>2, <1>3, <1>4, <1>5, <1>6, <1>7, <1>8, <1>9, <1>10, <1>11, <1>12, <1>13, <1>14, <1>15, <1>16, <1>17, <1>18, <1>19, <1>20, <1>21, <1>22, <1>23 DEF Next, GroupStep, UnitStep, Over

\* The evaluation permits: each is free or held by a unit.
SemaphoreInv == /\ IsFiniteSet(flight)
                /\ semaphore + Cardinality(flight) = MaxParallel

\* The groups that hold an image permit, and the image permits.
Paying == {g \in Imaged : pc[g] \in InBudget}
BudgetInv == image_semaphore + Cardinality(Paying) = PullParallel

\* One step keeps the evaluation permits.
LEMMA SemaphoreStep ==
  ASSUME IInv, [Next]_vars
  PROVE  SemaphoreInv'
<1>. USE DEF SemaphoreInv, group_vars, permit_vars, stream_vars
<1>a. TypeOK /\ SemaphoreInv
  BY DEF IInv, PermitsInv, PermitsConserved
<1>b. semaphore \in Nat /\ flight \subseteq Units /\ Cardinality(flight) \in Nat
  BY <1>a, FS_CardinalityType DEF TypeOK
<1>. USE <1>a, <1>b
<1>1. ASSUME NEW g \in Groups, Start(g) PROVE SemaphoreInv'
  BY <1>1 DEF Start, Proceed, Emit
<1>2. ASSUME NEW g \in Groups, Refuse(g) PROVE SemaphoreInv'
  BY <1>2 DEF Refuse
<1>3. ASSUME NEW g \in Groups, TakeBudget(g) PROVE SemaphoreInv'
  BY <1>3 DEF TakeBudget
<1>4. ASSUME NEW g \in Groups, ProbeEnd(g) PROVE SemaphoreInv'
  BY <1>4 DEF ProbeEnd, Proceed, ReturnBudget
<1>5. ASSUME NEW g \in Groups, ProbeFail(g) PROVE SemaphoreInv'
  BY <1>5 DEF ProbeFail, Emit, ReturnBudget
<1>6. ASSUME NEW g \in Groups, ArchEnd(g) PROVE SemaphoreInv'
  BY <1>6 DEF ArchEnd, Proceed, ReturnBudget
<1>7. ASSUME NEW g \in Groups, ResolveEnd(g) PROVE SemaphoreInv'
  BY <1>7 DEF ResolveEnd, Proceed
<1>8. ASSUME NEW g \in Groups, ResolveFail(g) PROVE SemaphoreInv'
  BY <1>8 DEF ResolveFail, FailGroup, Emit
<1>9. ASSUME NEW g \in Groups, PrepareEnd(g) PROVE SemaphoreInv'
  BY <1>9 DEF PrepareEnd, Proceed, ReturnBudget
<1>10. ASSUME NEW g \in Groups, StepBack(g) PROVE SemaphoreInv'
  BY <1>10 DEF StepBack, Emit
<1>11. ASSUME NEW g \in Groups, ReleaseEnd(g) PROVE SemaphoreInv'
  BY <1>11 DEF ReleaseEnd
<1>12. ASSUME NEW g \in Groups, Unwind(g) PROVE SemaphoreInv'
  <2>1. /\ flight' = flight \ UnitsOf(g)
        /\ semaphore' = semaphore + Cardinality(UnitsOf(g))
    BY <1>12 DEF Unwind
  <2>2. UnitsOf(g) \subseteq flight
    BY DEF UnitsOf
  <2>3. /\ IsFiniteSet(flight \ UnitsOf(g))
        /\ Cardinality(flight \ UnitsOf(g)) = Cardinality(flight) - Cardinality(flight \cap UnitsOf(g))
    <3>1. IsFiniteSet(UnitsOf(g))
      BY <2>2, FS_Subset
    <3>. QED
      BY <3>1, FS_Difference
  <2>4. flight \cap UnitsOf(g) = UnitsOf(g) /\ Cardinality(UnitsOf(g)) \in Nat
    BY <2>2, FS_Subset, FS_CardinalityType
  <2>5. Cardinality(flight') = Cardinality(flight) - Cardinality(UnitsOf(g))
    BY <2>1, <2>3, <2>4
  <2>6. IsFiniteSet(flight')
    BY <2>1, <2>3
  <2>. HIDE DEF UnitsOf
  <2>. QED
    BY <2>1, <2>4, <2>5, <2>6
<1>13. ASSUME NEW g \in Groups, ReleaseInterrupted(g) PROVE SemaphoreInv'
  BY <1>13 DEF ReleaseInterrupted
<1>14. ASSUME NEW g \in Groups, EvaluateStart(g) PROVE SemaphoreInv'
  <2>1. PICK cs \in NextUnits(g) : flight' = flight \cup {[group |-> g, cells |-> cs]}
    BY <1>14 DEF EvaluateStart
  <2>2. [group |-> g, cells |-> cs] \notin flight
    <3>1. cs \subseteq Todo(g) /\ cs # {}
      BY NextUnitsNonEmpty
    <3>2. \A u \in UnitsOf(g) : u.cells \cap Todo(g) = {}
      BY DEF Todo
    <3>. QED
      BY <3>1, <3>2 DEF UnitsOf
  <2>3. /\ IsFiniteSet(flight \cup {[group |-> g, cells |-> cs]})
        /\ Cardinality(flight \cup {[group |-> g, cells |-> cs]}) = Cardinality(flight) + 1
    BY <2>2, FS_AddElement
  <2>. QED
    BY <1>14, <2>1, <2>3 DEF EvaluateStart
<1>15. ASSUME NEW u \in flight, EvaluateEnd(u) PROVE SemaphoreInv'
  <2>1. /\ flight' = flight \ {u} /\ semaphore' = semaphore + 1
    BY <1>15 DEF EvaluateEnd, ReturnPermit
  <2>2. /\ IsFiniteSet(flight \ {u})
        /\ Cardinality(flight \ {u}) = Cardinality(flight) - 1
    BY FS_RemoveElement
  <2>. QED
    BY <2>1, <2>2
<1>16. ASSUME NEW u \in flight, HandBack(u) PROVE SemaphoreInv'
  <2>1. /\ flight' = flight \ {u} /\ semaphore' = semaphore + 1
    BY <1>16 DEF HandBack, ReturnPermit
  <2>2. /\ IsFiniteSet(flight \ {u})
        /\ Cardinality(flight \ {u}) = Cardinality(flight) - 1
    BY FS_RemoveElement
  <2>. QED
    BY <2>1, <2>2
<1>17. ASSUME NEW u \in flight, TooNew(u) PROVE SemaphoreInv'
  <2>1. /\ flight' = flight \ {u} /\ semaphore' = semaphore + 1
    BY <1>17 DEF TooNew, ReturnPermit
  <2>2. /\ IsFiniteSet(flight \ {u})
        /\ Cardinality(flight \ {u}) = Cardinality(flight) - 1
    BY FS_RemoveElement
  <2>. QED
    BY <2>1, <2>2
<1>18. ASSUME NEW s \in Specs, Resolver(s) PROVE SemaphoreInv'
  BY <1>18 DEF Resolver
<1>19. ASSUME Take PROVE SemaphoreInv'
  BY <1>19 DEF Take
<1>20. ASSUME TakeSentinel PROVE SemaphoreInv'
  BY <1>20 DEF TakeSentinel
<1>21. ASSUME Close PROVE SemaphoreInv'
  BY <1>21 DEF Close
<1>22. ASSUME Finish PROVE SemaphoreInv'
  BY <1>22 DEF Finish
<1>23. CASE UNCHANGED vars
  BY <1>23 DEF vars
<1>. QED
  BY <1>1, <1>2, <1>3, <1>4, <1>5, <1>6, <1>7, <1>8, <1>9, <1>10, <1>11, <1>12, <1>13, <1>14, <1>15, <1>16, <1>17, <1>18, <1>19, <1>20, <1>21, <1>22, <1>23 DEF Next, GroupStep, UnitStep, Over

\* One step keeps the image permits.
LEMMA BudgetStep ==
  ASSUME IInv, [Next]_vars
  PROVE  BudgetInv'
<1>. USE DEF BudgetInv, group_vars, permit_vars, stream_vars
<1>a. TypeOK /\ BudgetInv /\ StageInv /\ CancelInv /\ UnitInv
  BY DEF IInv, PermitsInv, PermitsConserved, BudgetInv, Paying
<1>b. /\ image_semaphore \in Nat /\ pc \in [Groups -> PCs] /\ cancelled \subseteq Groups
      /\ flight \subseteq Units /\ Imaged \subseteq Groups
  BY <1>a, GroupsAssumption DEF TypeOK
<1>c. IsFiniteSet(Paying) /\ Cardinality(Paying) \in Nat
  BY GroupsAssumption, FS_Subset, FS_CardinalityType DEF Paying
<1>d. \A g : g \in Paying => Cardinality(Paying \ {g}) = Cardinality(Paying) - 1
  BY <1>c, FS_RemoveElement
<1>e. \A g : g \notin Paying => Cardinality(Paying \cup {g}) = Cardinality(Paying) + 1
  BY <1>c, FS_AddElement
<1>. USE <1>a, <1>b, <1>c
<1>1. ASSUME NEW g \in Groups, Start(g) PROVE BudgetInv'
  <2>1. PICK p \in {AtBudget(g, "probe"), AtBudget(g, "arch"), AtProbed(g), "releasing", "evaluate"} :
          pc' = [pc EXCEPT ![g] = p]
    BY <1>1 DEF Start, Proceed, Emit
  <2>2. (g \in Imaged => p \notin InBudget) /\ pc[g] \notin InBudget
    BY <1>1 DEF Start, AtBudget, AtProbed, AtResolved, AtPrepare, InBudget
  <2>3. Paying' = Paying
    BY <2>1, <2>2 DEF Paying
  <2>. QED
    BY <1>1, <2>3 DEF Start
<1>2. ASSUME NEW g \in Groups, Refuse(g) PROVE BudgetInv'
  <2>1. Paying' = Paying
    BY <1>2 DEF Paying, Refuse, InBudget
  <2>. QED
    BY <1>2, <2>1 DEF Refuse
<1>3. ASSUME NEW g \in Groups, TakeBudget(g) PROVE BudgetInv'
  <2>1. g \in Imaged /\ g \notin Paying /\ Holding(pc[g]) \in InBudget
    BY <1>3, Stages DEF TakeBudget, StageInv, Paying, ForBudget, InBudget
  <2>2. Paying' = Paying \cup {g}
    BY <1>3, <2>1 DEF TakeBudget, Paying
  <2>. QED
    BY <1>3, <2>1, <2>2, <1>e DEF TakeBudget
<1>4. ASSUME NEW g \in Groups, ProbeEnd(g) PROVE BudgetInv'
  <2>1. PICK p \in {AtBudget(g, "arch"), AtProbed(g)} : pc' = [pc EXCEPT ![g] = p]
    BY <1>4 DEF ProbeEnd, Proceed
  <2>2. g \in Imaged => p \notin InBudget
    BY DEF AtBudget, AtProbed, AtResolved, AtPrepare, InBudget
  <2>3. IF g \in Imaged THEN g \in Paying /\ Paying' = Paying \ {g}
                         ELSE Paying' = Paying
    BY <1>4, <2>1, <2>2 DEF Paying, ProbeEnd, InBudget
  <2>4. IF g \in Imaged THEN image_semaphore' = image_semaphore + 1
                         ELSE image_semaphore' = image_semaphore
    BY <1>4 DEF ProbeEnd, ReturnBudget
  <2>. QED
    BY <2>3, <2>4, <1>d
<1>5. ASSUME NEW g \in Groups, ProbeFail(g) PROVE BudgetInv'
  <2>1. PICK p \in {"releasing", "evaluate"} : pc' = [pc EXCEPT ![g] = p]
    BY <1>5 DEF ProbeFail, Emit
  <2>2. g \in Imaged => p \notin InBudget
    BY DEF AtBudget, AtProbed, AtResolved, AtPrepare, InBudget
  <2>3. IF g \in Imaged THEN g \in Paying /\ Paying' = Paying \ {g}
                         ELSE Paying' = Paying
    BY <1>5, <2>1, <2>2 DEF Paying, ProbeFail, InBudget
  <2>4. IF g \in Imaged THEN image_semaphore' = image_semaphore + 1
                         ELSE image_semaphore' = image_semaphore
    BY <1>5 DEF ProbeFail, ReturnBudget
  <2>. QED
    BY <2>3, <2>4, <1>d
<1>6. ASSUME NEW g \in Groups, ArchEnd(g) PROVE BudgetInv'
  <2>1. PICK p \in {AtProbed(g)} : pc' = [pc EXCEPT ![g] = p]
    BY <1>6 DEF ArchEnd, Proceed
  <2>2. g \in Imaged => p \notin InBudget
    BY DEF AtBudget, AtProbed, AtResolved, AtPrepare, InBudget
  <2>3. IF g \in Imaged THEN g \in Paying /\ Paying' = Paying \ {g}
                         ELSE Paying' = Paying
    BY <1>6, <2>1, <2>2 DEF Paying, ArchEnd, InBudget
  <2>4. IF g \in Imaged THEN image_semaphore' = image_semaphore + 1
                         ELSE image_semaphore' = image_semaphore
    BY <1>6 DEF ArchEnd, ReturnBudget
  <2>. QED
    BY <2>3, <2>4, <1>d
<1>7. ASSUME NEW g \in Groups, ResolveEnd(g) PROVE BudgetInv'
  <2>1. PICK p \in {AtResolved(g)} : pc' = [pc EXCEPT ![g] = p]
    BY <1>7 DEF ResolveEnd, Proceed
  <2>2. g \in Imaged => p \notin InBudget
    BY DEF AtBudget, AtProbed, AtResolved, AtPrepare, InBudget
  <2>3. Paying' = Paying
    BY <1>7, <2>1, <2>2 DEF Paying, ResolveEnd, InBudget
  <2>. QED
    BY <1>7, <2>3 DEF ResolveEnd
<1>8. ASSUME NEW g \in Groups, ResolveFail(g) PROVE BudgetInv'
  <2>1. Paying' = Paying
    BY <1>8 DEF Paying, ResolveFail, FailGroup, Emit, InBudget
  <2>. QED
    BY <1>8, <2>1 DEF ResolveFail, FailGroup
<1>9. ASSUME NEW g \in Groups, PrepareEnd(g) PROVE BudgetInv'
  <2>1. PICK p \in {"releasing", "evaluate"} : pc' = [pc EXCEPT ![g] = p]
    BY <1>9 DEF PrepareEnd, Proceed
  <2>2. g \in Imaged => p \notin InBudget
    BY DEF AtBudget, AtProbed, AtResolved, AtPrepare, InBudget
  <2>3. IF g \in Imaged THEN g \in Paying /\ Paying' = Paying \ {g}
                         ELSE Paying' = Paying
    BY <1>9, <2>1, <2>2 DEF Paying, PrepareEnd, InBudget
  <2>4. IF g \in Imaged THEN image_semaphore' = image_semaphore + 1
                         ELSE image_semaphore' = image_semaphore
    BY <1>9 DEF PrepareEnd, ReturnBudget
  <2>. QED
    BY <2>3, <2>4, <1>d
<1>10. ASSUME NEW g \in Groups, StepBack(g) PROVE BudgetInv'
  <2>1. Paying' = Paying
    BY <1>10 DEF Paying, StepBack, Emit, AtPrepare, InBudget
  <2>. QED
    BY <1>10, <2>1 DEF StepBack
<1>11. ASSUME NEW g \in Groups, ReleaseEnd(g) PROVE BudgetInv'
  <2>1. Paying' = Paying
    BY <1>11 DEF Paying, ReleaseEnd, InBudget
  <2>. QED
    BY <1>11, <2>1 DEF ReleaseEnd
<1>12. ASSUME NEW g \in Groups, Unwind(g) PROVE BudgetInv'
  <2>1. CASE pc[g] \in InBudget
    <3>1. IF g \in Imaged THEN g \in Paying /\ Paying' = Paying \ {g}
                           ELSE Paying' = Paying
      BY <1>12, <2>1 DEF Paying, Unwind, InBudget
    <3>2. IF g \in Imaged THEN image_semaphore' = image_semaphore + 1
                           ELSE image_semaphore' = image_semaphore
      BY <1>12, <2>1 DEF Unwind, ReturnBudget
    <3>. QED
      BY <3>1, <3>2, <1>d
  <2>2. CASE pc[g] \notin InBudget
    <3>1. Paying' = Paying
      BY <1>12, <2>2 DEF Paying, Unwind, InBudget
    <3>. QED
      BY <1>12, <2>2, <3>1 DEF Unwind
  <2>. QED
    BY <2>1, <2>2
<1>13. ASSUME NEW g \in Groups, ReleaseInterrupted(g) PROVE BudgetInv'
  <2>1. Paying' = Paying
    BY <1>13 DEF Paying, ReleaseInterrupted, InBudget
  <2>. QED
    BY <1>13, <2>1 DEF ReleaseInterrupted
<1>14. ASSUME NEW g \in Groups, EvaluateStart(g) PROVE BudgetInv'
  <2>1. Paying' = Paying
    BY <1>14 DEF Paying, EvaluateStart, InBudget
  <2>. QED
    BY <1>14, <2>1 DEF EvaluateStart
<1>15. ASSUME NEW u \in flight, EvaluateEnd(u) PROVE BudgetInv'
  <2>1. u.group \in Groups /\ pc[u.group] = "evaluate"
    BY DEF Units, UnitInv, UnitsWait, FirstIsFirst
  <2>2. Paying' = Paying
    BY <1>15, <2>1 DEF Paying, EvaluateEnd, Emit, InBudget
  <2>. QED
    BY <1>15, <2>2 DEF EvaluateEnd, ReturnPermit
<1>16. ASSUME NEW u \in flight, HandBack(u) PROVE BudgetInv'
  <2>1. Paying' = Paying
    BY <1>16 DEF Paying, HandBack, InBudget
  <2>. QED
    BY <1>16, <2>1 DEF HandBack
<1>17. ASSUME NEW u \in flight, TooNew(u) PROVE BudgetInv'
  <2>1. u.group \in Groups /\ pc[u.group] = "evaluate"
    BY DEF Units, UnitInv, UnitsWait, FirstIsFirst
  <2>2. Paying' = Paying
    BY <1>17, <2>1 DEF Paying, TooNew, Emit, InBudget
  <2>. QED
    BY <1>17, <2>2 DEF TooNew, ReturnPermit
<1>18. ASSUME NEW s \in Specs, Resolver(s) PROVE BudgetInv'
  <2>1. Paying' = Paying
    BY <1>18 DEF Paying, Resolver, InBudget
  <2>. QED
    BY <1>18, <2>1 DEF Resolver
<1>19. ASSUME Take PROVE BudgetInv'
  <2>1. Paying' = Paying
    BY <1>19 DEF Paying, Take, InBudget
  <2>. QED
    BY <1>19, <2>1 DEF Take
<1>20. ASSUME TakeSentinel PROVE BudgetInv'
  <2>1. Paying' = Paying
    BY <1>20 DEF Paying, TakeSentinel, InBudget
  <2>. QED
    BY <1>20, <2>1 DEF TakeSentinel
<1>21. ASSUME Close PROVE BudgetInv'
  <2>1. Paying' = Paying
    BY <1>21 DEF Paying, Close, InBudget
  <2>. QED
    BY <1>21, <2>1 DEF Close
<1>22. ASSUME Finish PROVE BudgetInv'
  <2>1. Paying' = Paying
    BY <1>22 DEF Paying, Finish, InBudget
  <2>. QED
    BY <1>22, <2>1 DEF Finish
<1>23. CASE UNCHANGED vars
  BY <1>23 DEF vars, Paying
<1>. QED
  BY <1>1, <1>2, <1>3, <1>4, <1>5, <1>6, <1>7, <1>8, <1>9, <1>10, <1>11, <1>12, <1>13, <1>14, <1>15, <1>16, <1>17, <1>18, <1>19, <1>20, <1>21, <1>22, <1>23 DEF Next, GroupStep, UnitStep, Over

\* One step keeps the units of a group apart.
LEMMA UnitsStep ==
  ASSUME IInv, [Next]_vars
  PROVE  UnitInv'
<1>. USE DEF UnitInv, UnitsWait, UnitsApart, FirstIsFirst, group_vars, permit_vars, stream_vars
<1>a. TypeOK /\ UnitInv /\ StageInv /\ CancelInv
  BY DEF IInv
<1>b. /\ pc \in [Groups -> PCs] /\ cancelled \subseteq Groups /\ flight \subseteq Units
      /\ emitted \in [Groups -> SUBSET Cells]
  BY <1>a DEF TypeOK
<1>c. \A u \in flight : u.group \in Groups /\ u.cells \in (SUBSET Cells) \ {{}}
  BY <1>b DEF Units
<1>d. Cells # {} => 0 \in Cells
  BY BoundsAssumption DEF Cells
<1>. USE <1>a, <1>b, <1>c
<1>1. ASSUME NEW g \in Groups, Start(g) PROVE UnitInv'
  BY <1>1, <1>d DEF Start, Proceed, Emit, ForBudget, InBudget, StageInv
<1>2. ASSUME NEW g \in Groups, Refuse(g) PROVE UnitInv'
  BY <1>2, <1>d DEF Refuse, ForBudget, InBudget, StageInv
<1>3. ASSUME NEW g \in Groups, TakeBudget(g) PROVE UnitInv'
  BY <1>3, <1>d DEF TakeBudget, ForBudget, InBudget, StageInv
<1>4. ASSUME NEW g \in Groups, ProbeEnd(g) PROVE UnitInv'
  BY <1>4, <1>d DEF ProbeEnd, Proceed, ReturnBudget, ForBudget, InBudget, StageInv
<1>5. ASSUME NEW g \in Groups, ProbeFail(g) PROVE UnitInv'
  BY <1>5, <1>d DEF ProbeFail, Emit, ReturnBudget, ForBudget, InBudget, StageInv
<1>6. ASSUME NEW g \in Groups, ArchEnd(g) PROVE UnitInv'
  BY <1>6, <1>d DEF ArchEnd, Proceed, ReturnBudget, ForBudget, InBudget, StageInv
<1>7. ASSUME NEW g \in Groups, ResolveEnd(g) PROVE UnitInv'
  BY <1>7, <1>d DEF ResolveEnd, Proceed, ForBudget, InBudget, StageInv
<1>8. ASSUME NEW g \in Groups, ResolveFail(g) PROVE UnitInv'
  BY <1>8, <1>d DEF ResolveFail, FailGroup, Emit, ForBudget, InBudget, StageInv
<1>9. ASSUME NEW g \in Groups, PrepareEnd(g) PROVE UnitInv'
  BY <1>9, <1>d DEF PrepareEnd, Proceed, ReturnBudget, ForBudget, InBudget, StageInv
<1>10. ASSUME NEW g \in Groups, StepBack(g) PROVE UnitInv'
  BY <1>10, <1>d DEF StepBack, Emit, ForBudget, InBudget, StageInv
<1>11. ASSUME NEW g \in Groups, ReleaseEnd(g) PROVE UnitInv'
  BY <1>11, <1>d DEF ReleaseEnd, ForBudget, InBudget, StageInv
<1>12. ASSUME NEW g \in Groups, Unwind(g) PROVE UnitInv'
  <2>1. /\ flight' = flight \ UnitsOf(g) /\ emitted' = emitted
        /\ pc' = [pc EXCEPT ![g] = "releasing"]
    BY <1>12 DEF Unwind
  <2>2. \A u \in flight' : u.group # g
    BY <2>1 DEF UnitsOf
  <2>. QED
    BY <2>1, <2>2
<1>13. ASSUME NEW g \in Groups, ReleaseInterrupted(g) PROVE UnitInv'
  BY <1>13, <1>d DEF ReleaseInterrupted, ForBudget, InBudget, StageInv
<1>14. ASSUME NEW g \in Groups, EvaluateStart(g) PROVE UnitInv'
  <2>1. PICK cs \in NextUnits(g) : flight' = flight \cup {[group |-> g, cells |-> cs]}
    BY <1>14 DEF EvaluateStart
  <2>. DEFINE new == [group |-> g, cells |-> cs]
  <2>2. /\ cs \cap emitted[g] = {} /\ cs \subseteq Cells /\ cs # {}
        /\ \A u \in flight : u.group = g => u.cells \cap cs = {}
    BY NextUnitsNonEmpty DEF Todo, UnitsOf
  <2>3. g \notin FanOut => \A u \in flight : u.group # g
    BY DEF NextUnits, UnitsOf
  <2>4. g \notin FanOut => 0 \in cs \cup emitted[g]
    <3>. SUFFICES ASSUME g \notin FanOut, 0 \notin cs, 0 \notin emitted[g] PROVE FALSE
      OBVIOUS
    <3>1. 0 \in Todo(g)
      BY <1>d, <2>2, <2>3 DEF Todo, UnitsOf
    <3>2. 0 \in cs
      BY <3>1 DEF NextUnits
    <3>. QED
      BY <3>2
  <2>5. /\ new.group = g /\ new.cells = cs /\ flight' = flight \cup {new}
    BY <2>1
  <2>6. pc' = pc /\ emitted' = emitted /\ pc[g] = "evaluate"
    BY <1>14 DEF EvaluateStart
  <2>. HIDE DEF new
  <2>7. UnitsWait'
    BY <2>2, <2>4, <2>5, <2>6
  <2>8. UnitsApart'
    BY <2>2, <2>3, <2>5
  <2>9. FirstIsFirst'
    BY <2>6
  <2>. QED
    BY <2>7, <2>8, <2>9
<1>15. ASSUME NEW u \in flight, EvaluateEnd(u) PROVE UnitInv'
  <2>1. PICK n \in IF u.group \in FanOut THEN 1 .. MaxSub ELSE {1} :
          Emit(u.group, u.cells, u.cells \X (0 .. n - 1))
    BY <1>15 DEF EvaluateEnd
  <2>2. /\ emitted' = [emitted EXCEPT ![u.group] = @ \cup u.cells]
        /\ pc' = [pc EXCEPT ![u.group] =
             IF emitted'[u.group] = Cells THEN "releasing" ELSE "evaluate"]
        /\ flight' = flight \ {u}
    BY <1>15, <2>1 DEF EvaluateEnd, Emit, ReturnPermit
  <2>3. \A v \in flight' : v.group = u.group =>
          /\ v.cells \cap u.cells = {} /\ emitted'[u.group] # Cells
          /\ pc'[v.group] = "evaluate"
    <3>. SUFFICES ASSUME NEW v \in flight', v.group = u.group
                  PROVE  v.cells \cap u.cells = {} /\ emitted'[u.group] # Cells
      BY <2>2
    <3>1. v \in flight /\ v # u
      BY <2>2
    <3>2. v.cells \cap u.cells = {} /\ v.cells \cap emitted[u.group] = {}
      BY <3>1
    <3>3. PICK c \in v.cells : c \in Cells
      BY <3>1
    <3>4. c \notin emitted[u.group] \cup u.cells
      BY <3>2, <3>3
    <3>. QED
      BY <3>2, <3>3, <3>4, <2>2
  <2>4. \A v \in flight' : /\ pc'[v.group] = "evaluate"
                          /\ v.cells \cap emitted'[v.group] = {}
                          /\ v.group \notin FanOut => 0 \in v.cells \cup emitted'[v.group]
    BY <2>2, <2>3
  <2>5. \A g \in Groups \ FanOut : emitted'[g] # {} => 0 \in emitted'[g]
    BY <2>2
  <2>. QED
    BY <2>2, <2>4, <2>5
<1>16. ASSUME NEW u \in flight, HandBack(u) PROVE UnitInv'
  BY <1>16, <1>d DEF HandBack, ReturnPermit, ForBudget, InBudget, StageInv
<1>17. ASSUME NEW u \in flight, TooNew(u) PROVE UnitInv'
  <2>1. flight' = flight \ {u} /\ pc' = [pc EXCEPT ![u.group] = "older"]
        /\ emitted' = emitted /\ u.group \notin FanOut
    BY <1>17 DEF TooNew, ReturnPermit
  <2>2. \A v \in flight' : v.group # u.group
    BY <2>1
  <2>. QED
    BY <2>1, <2>2
<1>18. ASSUME NEW s \in Specs, Resolver(s) PROVE UnitInv'
  BY <1>18, <1>d DEF Resolver, ForBudget, InBudget, StageInv
<1>19. ASSUME Take PROVE UnitInv'
  BY <1>19, <1>d DEF Take, ForBudget, InBudget, StageInv
<1>20. ASSUME TakeSentinel PROVE UnitInv'
  BY <1>20, <1>d DEF TakeSentinel, ForBudget, InBudget, StageInv
<1>21. ASSUME Close PROVE UnitInv'
  BY <1>21, <1>d DEF Close, ForBudget, InBudget, StageInv
<1>22. ASSUME Finish PROVE UnitInv'
  BY <1>22, <1>d DEF Finish, ForBudget, InBudget, StageInv
<1>23. CASE UNCHANGED vars
  BY <1>23 DEF vars
<1>. QED
  BY <1>1, <1>2, <1>3, <1>4, <1>5, <1>6, <1>7, <1>8, <1>9, <1>10, <1>11, <1>12, <1>13, <1>14, <1>15, <1>16, <1>17, <1>18, <1>19, <1>20, <1>21, <1>22, <1>23 DEF Next, GroupStep, UnitStep, Over

\* A burst of results rs, the first of each cell of cs among them, for cells
\* that had none yet.
LEMMA PutDelivers ==
  ASSUME NEW q \in Seq(Bursts), NEW e \in [Groups -> SUBSET Cells],
         NEW rc \in [Groups \X Cells \X Subs -> Nat], Delivery(q, e, rc),
         NEW g \in Groups, NEW cs \in SUBSET Cells, NEW rs \in SUBSET (cs \X Subs),
         cs \cap e[g] = {}, cs \X {0} \subseteq rs
  PROVE  Delivery(Put(q, g, rs), [e EXCEPT ![g] = @ \cup cs], rc)
<1>. DEFINE b  == [group |-> g, results |-> rs]
            q2 == Append(q, b)
            e2 == [e EXCEPT ![g] = @ \cup cs]
<1>1. \A c \in cs, n \in Subs : rc[<<g, c, n>>] = 0
  BY DEF Delivery, ReceivedOnce
<1>2. /\ \A h \in Groups : e[h] \subseteq e2[h]
      /\ e2[g] = e[g] \cup cs
      /\ \A h \in Groups : h # g => e2[h] = e[h]
  OBVIOUS
<1>3. \A r \in rs : r[1] \in cs /\ r[2] \in Subs /\ r = <<r[1], r[2]>>
  OBVIOUS
<1>4. ReceivedOnce(e2, rc)
  BY <1>2 DEF Delivery, ReceivedOnce
<1>5. CASE rs = {}
  <2>1. cs = {}
    <3>. SUFFICES ASSUME NEW c \in cs PROVE FALSE
      OBVIOUS
    <3>1. <<c, 0>> \in cs \X {0}
      OBVIOUS
    <3>. QED
      BY <3>1, <1>5
  <2>2. e2 = e
    BY <2>1
  <2>. QED
    BY <1>5, <2>2 DEF Put
<1>6. CASE rs # {}
  <2>1. /\ Put(q, g, rs) = q2 /\ Len(q2) = Len(q) + 1 /\ q2[Len(q) + 1] = b
        /\ \A k \in 1 .. Len(q) : q2[k] = q[k] /\ q[k] \in Bursts
    BY <1>6 DEF Put
  <2>2. b.group = g /\ b.results = rs
    OBVIOUS
  <2>3. \A k \in 1 .. Len(q) : q[k].group \in Groups /\ q[k].results \in SUBSET (Cells \X Subs)
    BY <2>1 DEF Bursts
  <2>. HIDE DEF b, q2, e2
  <2>4. QueuedOnce(q2, e2, rc)
    <3>. SUFFICES ASSUME NEW k \in 1 .. Len(q2), NEW r \in q2[k].results
                  PROVE  r[1] \in e2[q2[k].group] /\ rc[<<q2[k].group, r[1], r[2]>>] = 0
      BY DEF QueuedOnce
    <3>1. CASE k \in 1 .. Len(q)
      BY <3>1, <2>1, <2>3, <1>2 DEF Delivery, QueuedOnce
    <3>2. CASE k = Len(q) + 1
      BY <3>2, <2>1, <2>2, <1>1, <1>2, <1>3
    <3>. QED
      BY <3>1, <3>2, <2>1
  <2>5. BurstsApart(q2)
    <3>1. \A k \in 1 .. Len(q) : q[k].group = g => q[k].results \cap rs = {}
      <4>. SUFFICES ASSUME NEW k \in 1 .. Len(q), q[k].group = g, NEW r \in q[k].results, r \in rs
                    PROVE  FALSE
        OBVIOUS
      <4>1. r[1] \in e[g]
        BY DEF Delivery, QueuedOnce
      <4>. QED
        BY <4>1, <1>3
    <3>. QED
      BY <2>1, <2>2, <3>1 DEF Delivery, BurstsApart
  <2>6. NothingLost(q2, e2, rc)
    <3>. SUFFICES ASSUME NEW h \in Groups, NEW c \in e2[h]
                  PROVE  \/ rc[<<h, c, 0>>] = 1
                         \/ \E k \in 1 .. Len(q2) : q2[k].group = h /\ <<c, 0>> \in q2[k].results
      BY DEF NothingLost
    <3>1. CASE c \in e[h]
      BY <3>1, <2>1 DEF Delivery, NothingLost
    <3>2. CASE h = g /\ c \in cs
      <4>1. <<c, 0>> \in rs
        BY <3>2
      <4>. QED
        BY <3>2, <4>1, <2>1, <2>2
    <3>. QED
      BY <3>1, <3>2, <1>2
  <2>. QED
    BY <1>4, <2>1, <2>4, <2>5, <2>6 DEF Delivery, e2
<1>. QED
  BY <1>5, <1>6

\* A sentinel holds no results.
LEMMA SentinelDelivers ==
  ASSUME NEW q \in Seq(Bursts), NEW e \in [Groups -> SUBSET Cells],
         NEW rc \in [Groups \X Cells \X Subs -> Nat], Delivery(q, e, rc),
         NEW g \in Groups
  PROVE  Delivery(Append(q, Sentinel(g)), e, rc)
<1>. DEFINE q2 == Append(q, Sentinel(g))
<1>1. /\ Len(q2) = Len(q) + 1 /\ q2[Len(q) + 1].results = {}
      /\ \A k \in 1 .. Len(q) : q2[k] = q[k]
  BY DEF Sentinel
<1>. HIDE DEF q2
<1>2. QueuedOnce(q2, e, rc)
  BY <1>1 DEF Delivery, QueuedOnce
<1>3. BurstsApart(q2)
  BY <1>1 DEF Delivery, BurstsApart
<1>4. NothingLost(q2, e, rc)
  <2>. SUFFICES ASSUME NEW h \in Groups, NEW c \in e[h], rc[<<h, c, 0>>] # 1
                PROVE  \E k \in 1 .. Len(q2) : q2[k].group = h /\ <<c, 0>> \in q2[k].results
    BY DEF NothingLost
  <2>1. PICK k \in 1 .. Len(q) : q[k].group = h /\ <<c, 0>> \in q[k].results
    BY DEF Delivery, NothingLost
  <2>. QED
    BY <1>1, <2>1
<1>. QED
  BY <1>2, <1>3, <1>4 DEF Delivery, q2

\* A result the consumer takes leaves the burst at the head of the queue.
LEMMA TakeDelivers ==
  ASSUME NEW q \in Seq(Bursts), q # <<>>, NEW e \in [Groups -> SUBSET Cells],
         NEW rc \in [Groups \X Cells \X Subs -> Nat], Delivery(q, e, rc),
         NEW r \in Head(q).results
  PROVE  Delivery(IF Head(q).results = {r} THEN Tail(q)
                  ELSE [q EXCEPT ![1].results = @ \ {r}],
                  e, [rc EXCEPT ![<<Head(q).group, r[1], r[2]>>] = @ + 1])
<1>. DEFINE g   == q[1].group
            key == <<g, r[1], r[2]>>
            rc2 == [rc EXCEPT ![key] = @ + 1]
            q2  == [q EXCEPT ![1].results = @ \ {r}]
            t   == Tail(q)
<1>1. /\ Len(q) \in Nat \ {0} /\ Head(q) = q[1]
      /\ \A k \in 1 .. Len(q) : q[k] \in Bursts
  OBVIOUS
<1>2. \A k \in 1 .. Len(q) : q[k].group \in Groups /\ q[k].results \in SUBSET (Cells \X Subs)
  BY <1>1 DEF Bursts
<1>3. r \in q[1].results /\ r \in Cells \X Subs /\ r = <<r[1], r[2]>> /\ g \in Groups
  BY <1>1, <1>2
<1>4. r[1] \in e[g] /\ rc[key] = 0
  <2>1. 1 \in 1 .. Len(q)
    BY <1>1
  <2>2. r[1] \in e[q[1].group] /\ rc[<<q[1].group, r[1], r[2]>>] = 0
    BY <2>1, <1>3 DEF Delivery, QueuedOnce
  <2>. QED
    BY <2>2
<1>5. key \in Groups \X Cells \X Subs
  BY <1>3
<1>6. /\ rc2[key] = 1
      /\ \A x \in Groups \X Cells \X Subs : x # key => rc2[x] = rc[x]
  BY <1>4, <1>5
\* What is left of the queue, with the burst at its head shortened or gone.
<1>7. /\ Len(q2) = Len(q) /\ q2[1].group = g /\ q2[1].results = q[1].results \ {r}
      /\ \A k \in 2 .. Len(q) : q2[k] = q[k]
  BY <1>1, <1>2 DEF Bursts
<1>8. /\ Len(t) = Len(q) - 1
      /\ \A k \in 1 .. Len(t) : t[k] = q[k + 1]
  BY <1>1
<1>9. \A k \in 2 .. Len(q) : q[k].group = g => r \notin q[k].results
  BY <1>1, <1>3 DEF Delivery, BurstsApart
<1>10. ReceivedOnce(e, rc2)
  <2>. SUFFICES ASSUME NEW h \in Groups, NEW c \in Cells, NEW n \in Subs, rc2[<<h, c, n>>] # 0
                PROVE  rc2[<<h, c, n>>] = 1 /\ c \in e[h]
    BY DEF ReceivedOnce
  <2>1. CASE <<h, c, n>> = key
    BY <2>1, <1>4, <1>6
  <2>2. CASE <<h, c, n>> # key
    BY <2>2, <1>6 DEF Delivery, ReceivedOnce
  <2>. QED
    BY <2>1, <2>2
<1>11. \A k \in 2 .. Len(q) : \A x \in q[k].results :
         x[1] \in e[q[k].group] /\ rc2[<<q[k].group, x[1], x[2]>>] = 0
  <2>. SUFFICES ASSUME NEW k \in 2 .. Len(q), NEW x \in q[k].results
                PROVE  x[1] \in e[q[k].group] /\ rc2[<<q[k].group, x[1], x[2]>>] = 0
    OBVIOUS
  <2>1. /\ x = <<x[1], x[2]>> /\ q[k].group \in Groups /\ x \in Cells \X Subs
        /\ x[1] \in e[q[k].group] /\ rc[<<q[k].group, x[1], x[2]>>] = 0
    BY <1>1, <1>2 DEF Delivery, QueuedOnce
  <2>2. <<q[k].group, x[1], x[2]>> # key
    BY <2>1, <1>3, <1>9
  <2>. QED
    BY <2>1, <2>2, <1>6
<1>12. \A x \in q[1].results \ {r} : x[1] \in e[g] /\ rc2[<<g, x[1], x[2]>>] = 0
  <2>. SUFFICES ASSUME NEW x \in q[1].results, x # r
                PROVE  x[1] \in e[g] /\ rc2[<<g, x[1], x[2]>>] = 0
    OBVIOUS
  <2>1. /\ x = <<x[1], x[2]>> /\ x \in Cells \X Subs
        /\ x[1] \in e[g] /\ rc[<<g, x[1], x[2]>>] = 0
    BY <1>1, <1>2 DEF Delivery, QueuedOnce
  <2>2. <<g, x[1], x[2]>> # key
    BY <2>1, <1>3
  <2>. QED
    BY <2>1, <2>2, <1>3, <1>6
<1>13. \A h \in Groups : \A c \in e[h] :
         \/ rc2[<<h, c, 0>>] = 1
         \/ h = g /\ <<c, 0>> \in q[1].results \ {r}
         \/ \E k \in 2 .. Len(q) : q[k].group = h /\ <<c, 0>> \in q[k].results
  <2>. SUFFICES ASSUME NEW h \in Groups, NEW c \in e[h], rc2[<<h, c, 0>>] # 1
                PROVE  \/ h = g /\ <<c, 0>> \in q[1].results \ {r}
                       \/ \E k \in 2 .. Len(q) : q[k].group = h /\ <<c, 0>> \in q[k].results
    OBVIOUS
  <2>1. <<h, c, 0>> \in Groups \X Cells \X Subs /\ <<h, c, 0>> # key
    <3>1. 0 \in Subs
      BY BoundsAssumption DEF Subs
    <3>2. c \in Cells
      OBVIOUS
    <3> HIDE DEF key
    <3>3. <<h, c, 0>> # key
      BY <1>6
    <3>. QED
      BY <3>1, <3>2, <3>3
  <2>2. rc[<<h, c, 0>>] # 1
    BY <2>1, <1>6
  <2>3. PICK k \in 1 .. Len(q) : q[k].group = h /\ <<c, 0>> \in q[k].results
    BY <2>2 DEF Delivery, NothingLost
  <2>4. CASE k = 1
    BY <2>1, <2>3, <2>4
  <2>5. CASE k # 1
    <3>1. k \in 2 .. Len(q)
      BY <2>5, <1>1
    <3>. QED
      BY <3>1, <2>3
  <2>. QED
    BY <2>4, <2>5
<1>14. \A k, l \in 1 .. Len(q) :
         k # l /\ q[k].group = q[l].group => q[k].results \cap q[l].results = {}
  BY DEF Delivery, BurstsApart
<1>. HIDE DEF q2, rc2, key, t
<1>15. Delivery(q2, e, rc2)
  <2>1. QueuedOnce(q2, e, rc2)
    <3>. SUFFICES ASSUME NEW k \in 1 .. Len(q2), NEW x \in q2[k].results
                  PROVE  x[1] \in e[q2[k].group] /\ rc2[<<q2[k].group, x[1], x[2]>>] = 0
      BY DEF QueuedOnce
    <3>1. CASE k = 1
      BY <3>1, <1>7, <1>12
    <3>2. CASE k \in 2 .. Len(q)
      BY <3>2, <1>7, <1>11
    <3>. QED
      BY <3>1, <3>2, <1>1, <1>7
  <2>2. BurstsApart(q2)
    <3>1. \A k \in 1 .. Len(q) : q2[k].group = q[k].group /\ q2[k].results \subseteq q[k].results
      BY <1>1, <1>7
    <3>. QED
      BY <3>1, <1>7, <1>14 DEF BurstsApart
  <2>3. NothingLost(q2, e, rc2)
    <3>. SUFFICES ASSUME NEW h \in Groups, NEW c \in e[h], rc2[<<h, c, 0>>] # 1
                  PROVE  \E k \in 1 .. Len(q2) : q2[k].group = h /\ <<c, 0>> \in q2[k].results
      BY DEF NothingLost
    <3>1. CASE h = g /\ <<c, 0>> \in q[1].results \ {r}
      BY <3>1, <1>1, <1>7
    <3>2. CASE \E k \in 2 .. Len(q) : q[k].group = h /\ <<c, 0>> \in q[k].results
      BY <3>2, <1>7
    <3>. QED
      BY <3>1, <3>2, <1>13
  <2>. QED
    BY <1>10, <2>1, <2>2, <2>3 DEF Delivery
<1>16. ASSUME q[1].results = {r} PROVE Delivery(t, e, rc2)
  <2>1. QueuedOnce(t, e, rc2)
    BY <1>1, <1>8, <1>11 DEF QueuedOnce
  <2>2. BurstsApart(t)
    <3>. SUFFICES ASSUME NEW k \in 1 .. Len(t), NEW l \in 1 .. Len(t),
                         k # l, t[k].group = t[l].group
                  PROVE  t[k].results \cap t[l].results = {}
      BY DEF BurstsApart
    <3>1. /\ k + 1 \in 1 .. Len(q) /\ l + 1 \in 1 .. Len(q) /\ k + 1 # l + 1
          /\ t[k] = q[k + 1] /\ t[l] = q[l + 1]
      BY <1>1, <1>8
    <3>. QED
      BY <3>1, <1>14
  <2>3. NothingLost(t, e, rc2)
    <3>. SUFFICES ASSUME NEW h \in Groups, NEW c \in e[h], rc2[<<h, c, 0>>] # 1
                  PROVE  \E k \in 1 .. Len(t) : t[k].group = h /\ <<c, 0>> \in t[k].results
      BY DEF NothingLost
    <3>1. PICK k \in 2 .. Len(q) : q[k].group = h /\ <<c, 0>> \in q[k].results
      BY <1>13, <1>16
    <3>2. k - 1 \in 1 .. Len(t) /\ t[k - 1] = q[k]
      BY <1>1, <1>8
    <3>. QED
      BY <3>1, <3>2
  <2>. QED
    BY <1>10, <2>1, <2>2, <2>3 DEF Delivery
<1>. QED
  BY <1>1, <1>15, <1>16 DEF q2, rc2, key, t

\* A sentinel taken off the queue takes no result with it.
LEMMA TailDelivers ==
  ASSUME NEW q \in Seq(Bursts), q # <<>>, NEW e, NEW rc, Delivery(q, e, rc),
         Head(q).results = {}
  PROVE  Delivery(Tail(q), e, rc)
<1>. DEFINE t == Tail(q)
<1>1. /\ Len(q) \in Nat \ {0} /\ q[1].results = {} /\ Len(t) = Len(q) - 1
      /\ \A k \in 1 .. Len(t) : k + 1 \in 1 .. Len(q) /\ t[k] = q[k + 1]
  OBVIOUS
<1>. HIDE DEF t
<1>2. QueuedOnce(t, e, rc)
  <2>. SUFFICES ASSUME NEW k \in 1 .. Len(t), NEW r \in t[k].results
                PROVE  r[1] \in e[t[k].group] /\ rc[<<t[k].group, r[1], r[2]>>] = 0
    BY DEF QueuedOnce
  <2>1. k + 1 \in 1 .. Len(q) /\ t[k] = q[k + 1]
    BY <1>1
  <2>. QED
    BY <2>1 DEF Delivery, QueuedOnce
<1>3. BurstsApart(t)
  <2>. SUFFICES ASSUME NEW k \in 1 .. Len(t), NEW l \in 1 .. Len(t),
                       k # l, t[k].group = t[l].group
                PROVE  t[k].results \cap t[l].results = {}
    BY DEF BurstsApart
  <2>1. k + 1 # l + 1
    BY <1>1
  <2>. QED
    BY <2>1, <1>1 DEF Delivery, BurstsApart
<1>4. NothingLost(t, e, rc)
  <2>. SUFFICES ASSUME NEW h \in Groups, NEW c \in e[h], rc[<<h, c, 0>>] # 1
                PROVE  \E k \in 1 .. Len(t) : t[k].group = h /\ <<c, 0>> \in t[k].results
    BY DEF NothingLost
  <2>1. PICK k \in 1 .. Len(q) : q[k].group = h /\ <<c, 0>> \in q[k].results
    BY DEF Delivery, NothingLost
  <2>2. k - 1 \in 1 .. Len(t) /\ t[k - 1] = q[k]
    BY <2>1, <1>1
  <2>. QED
    BY <2>1, <2>2
<1>. QED
  BY <1>2, <1>3, <1>4 DEF Delivery, t

\* One step keeps every result in one place.
LEMMA DeliveryStep ==
  ASSUME IInv, [Next]_vars
  PROVE  DeliveryInv'
<1>. USE DEF DeliveryInv, group_vars, permit_vars, stream_vars
<1>a. TypeOK /\ DeliveryInv /\ StageInv /\ UnitInv
  BY DEF IInv
<1>b. /\ pc \in [Groups -> PCs] /\ emitted \in [Groups -> SUBSET Cells] /\ flight \subseteq Units
      /\ queue \in Seq(Bursts) /\ received \in [Groups \X Cells \X Subs -> Nat]
  BY <1>a DEF TypeOK
<1>c. ASSUME NEW g \in Groups, emitted[g] = {}, received' = received,
             queue' = Put(queue, g, Cells \X {0}),
             emitted' = [emitted EXCEPT ![g] = @ \cup Cells]
      PROVE  DeliveryInv'
  <2>1. Delivery(Put(queue, g, Cells \X {0}), [emitted EXCEPT ![g] = @ \cup Cells], received)
    BY <1>a, <1>b, <1>c, PutDelivers, FirstResults
  <2>. QED
    BY <2>1, <1>c
<1>d. ASSUME UNCHANGED <<queue, emitted, received>> PROVE DeliveryInv'
  BY <1>a, <1>d
<1>e. ASSUME NEW g \in Groups, queue' = Append(queue, Sentinel(g)), UNCHANGED <<emitted, received>>
      PROVE  DeliveryInv'
  <2>1. Delivery(Append(queue, Sentinel(g)), emitted, received)
    BY <1>a, <1>b, SentinelDelivers
  <2>. QED
    BY <2>1, <1>e
<1>1. ASSUME NEW g \in Groups, Start(g) PROVE DeliveryInv'
  <2>1. CASE UNCHANGED <<queue, emitted>>
    BY <1>1, <2>1, <1>d DEF Start
  <2>2. CASE Emit(g, Cells, Cells \X {0})
    <3>1. emitted[g] = {}
      BY <1>1, <1>a DEF Start, StageInv
    <3>. QED
      BY <1>1, <2>2, <3>1, <1>c DEF Start, Emit
  <2>. QED
    BY <1>1, <2>1, <2>2 DEF Start
<1>2. ASSUME NEW g \in Groups, Refuse(g) PROVE DeliveryInv'
  <2>. DEFINE q1 == Put(queue, g, Cells \X {0})
              e1 == [emitted EXCEPT ![g] = @ \cup Cells]
  <2>1. emitted[g] = {}
    BY <1>2, <1>a DEF Refuse, StageInv
  <2>2. Delivery(q1, e1, received)
    BY <1>a, <1>b, <2>1, PutDelivers, FirstResults
  <2>3. q1 \in Seq(Bursts) /\ e1 \in [Groups -> SUBSET Cells] /\ emitted' = e1
    BY <1>2, <1>b, <2>1, PutType, FirstResults DEF Refuse
  <2>4. queue' = Append(q1, Sentinel(g)) /\ received' = received
    BY <1>2 DEF Refuse
  <2>. HIDE DEF q1, e1
  <2>5. Delivery(Append(q1, Sentinel(g)), e1, received)
    BY <1>b, <2>2, <2>3, SentinelDelivers
  <2>. QED
    BY <2>3, <2>4, <2>5
<1>3. ASSUME NEW g \in Groups, TakeBudget(g) PROVE DeliveryInv'
  BY <1>3, <1>d DEF TakeBudget
<1>4. ASSUME NEW g \in Groups, ProbeEnd(g) PROVE DeliveryInv'
  BY <1>4, <1>d DEF ProbeEnd
<1>5. ASSUME NEW g \in Groups, ProbeFail(g) PROVE DeliveryInv'
  <2>1. emitted[g] = {}
    BY <1>5, <1>a DEF ProbeFail, StageInv
  <2>. QED
    BY <1>5, <2>1, <1>c DEF ProbeFail, Emit
<1>6. ASSUME NEW g \in Groups, ArchEnd(g) PROVE DeliveryInv'
  BY <1>6, <1>d DEF ArchEnd
<1>7. ASSUME NEW g \in Groups, ResolveEnd(g) PROVE DeliveryInv'
  BY <1>7, <1>d DEF ResolveEnd
<1>8. ASSUME NEW g \in Groups, ResolveFail(g) PROVE DeliveryInv'
  <2>1. emitted[g] = {}
    BY <1>8, <1>a DEF ResolveFail, StageInv
  <2>. QED
    BY <1>8, <2>1, <1>c DEF ResolveFail, FailGroup, Emit
<1>9. ASSUME NEW g \in Groups, PrepareEnd(g) PROVE DeliveryInv'
  BY <1>9, <1>d DEF PrepareEnd
<1>10. ASSUME NEW g \in Groups, StepBack(g) PROVE DeliveryInv'
  <2>1. CASE UNCHANGED <<queue, emitted>>
    BY <1>10, <2>1, <1>d DEF StepBack
  <2>2. CASE Emit(g, {0}, {<<0, 0>>})
    <3>1. emitted[g] = {} /\ {0} \in SUBSET Cells
      BY <1>10, <1>a DEF StepBack, StageInv
    <3>2. /\ {<<0, 0>>} \in SUBSET ({0} \X Subs) /\ {0} \X {0} \subseteq {<<0, 0>>}
      BY BoundsAssumption DEF Subs
    <3>3. Delivery(Put(queue, g, {<<0, 0>>}), [emitted EXCEPT ![g] = @ \cup {0}], received)
      BY <1>a, <1>b, <3>1, <3>2, PutDelivers
    <3>4. queue' = Put(queue, g, {<<0, 0>>}) /\ emitted' = [emitted EXCEPT ![g] = @ \cup {0}]
          /\ received' = received
      BY <1>10, <2>2 DEF StepBack, Emit
    <3>. QED
      BY <3>3, <3>4
  <2>. QED
    BY <1>10, <2>1, <2>2 DEF StepBack
<1>11. ASSUME NEW g \in Groups, ReleaseEnd(g) PROVE DeliveryInv'
  BY <1>11, <1>e DEF ReleaseEnd
<1>12. ASSUME NEW g \in Groups, Unwind(g) PROVE DeliveryInv'
  BY <1>12, <1>d DEF Unwind
<1>13. ASSUME NEW g \in Groups, ReleaseInterrupted(g) PROVE DeliveryInv'
  BY <1>13, <1>e DEF ReleaseInterrupted
<1>14. ASSUME NEW g \in Groups, EvaluateStart(g) PROVE DeliveryInv'
  BY <1>14, <1>d DEF EvaluateStart
<1>15. ASSUME NEW u \in flight, EvaluateEnd(u) PROVE DeliveryInv'
  <2>1. PICK n \in IF u.group \in FanOut THEN 1 .. MaxSub ELSE {1} :
          Emit(u.group, u.cells, u.cells \X (0 .. n - 1))
    BY <1>15 DEF EvaluateEnd
  <2>2. u.group \in Groups /\ u.cells \in SUBSET Cells /\ u.cells \cap emitted[u.group] = {}
    BY <1>a, <1>b DEF Units, UnitInv, UnitsWait
  <2>3. /\ u.cells \X (0 .. n - 1) \in SUBSET (u.cells \X Subs)
        /\ u.cells \X {0} \subseteq u.cells \X (0 .. n - 1)
    BY BoundsAssumption DEF Subs
  <2>4. Delivery(Put(queue, u.group, u.cells \X (0 .. n - 1)),
                 [emitted EXCEPT ![u.group] = @ \cup u.cells], received)
    BY <1>a, <1>b, <2>2, <2>3, PutDelivers
  <2>5. /\ queue' = Put(queue, u.group, u.cells \X (0 .. n - 1))
        /\ emitted' = [emitted EXCEPT ![u.group] = @ \cup u.cells]
        /\ received' = received
    BY <1>15, <2>1 DEF EvaluateEnd, Emit
  <2>. QED
    BY <2>4, <2>5
<1>16. ASSUME NEW u \in flight, HandBack(u) PROVE DeliveryInv'
  BY <1>16, <1>d DEF HandBack, ReturnPermit
<1>17. ASSUME NEW u \in flight, TooNew(u) PROVE DeliveryInv'
  BY <1>17, <1>d DEF TooNew, ReturnPermit
<1>18. ASSUME NEW s \in Specs, Resolver(s) PROVE DeliveryInv'
  BY <1>18, <1>d DEF Resolver
<1>19. ASSUME Take PROVE DeliveryInv'
  <2>1. PICK r \in Head(queue).results :
          /\ received' = [received EXCEPT ![<<Head(queue).group, r[1], r[2]>>] = @ + 1]
          /\ queue' = IF Head(queue).results = {r} THEN Tail(queue)
                      ELSE [queue EXCEPT ![1].results = @ \ {r}]
    BY <1>19 DEF Take
  <2>2. queue # <<>> /\ emitted' = emitted
    BY <1>19 DEF Take
  <2>3. Delivery(IF Head(queue).results = {r} THEN Tail(queue)
                 ELSE [queue EXCEPT ![1].results = @ \ {r}],
                 emitted,
                 [received EXCEPT ![<<Head(queue).group, r[1], r[2]>>] = @ + 1])
    BY <1>a, <1>b, <2>2, TakeDelivers
  <2>4. Delivery(queue', emitted', received')
    BY <2>1, <2>2, <2>3
  <2>. QED
    BY <2>4
<1>20. ASSUME TakeSentinel PROVE DeliveryInv'
  <2>1. Delivery(Tail(queue), emitted, received)
    BY <1>20, <1>a, <1>b, TailDelivers DEF TakeSentinel
  <2>. QED
    BY <1>20, <2>1 DEF TakeSentinel
<1>21. ASSUME Close PROVE DeliveryInv'
  BY <1>21, <1>d DEF Close
<1>22. ASSUME Finish PROVE DeliveryInv'
  BY <1>22, <1>d DEF Finish
<1>23. CASE UNCHANGED vars
  BY <1>23, <1>d DEF vars
<1>. QED
  BY <1>1, <1>2, <1>3, <1>4, <1>5, <1>6, <1>7, <1>8, <1>9, <1>10, <1>11, <1>12, <1>13, <1>14, <1>15, <1>16, <1>17, <1>18, <1>19, <1>20, <1>21, <1>22, <1>23 DEF Next, GroupStep, UnitStep, Over

\* The bursts on a queue.
LEMMA QueueFacts ==
  ASSUME NEW q \in Seq(Bursts)
  PROVE  /\ Len(q) \in Nat
         /\ \A k \in 1 .. Len(q) : /\ q[k] \in Bursts /\ q[k].group \in Groups
                                   /\ q[k].results \in SUBSET (Cells \X Subs)
<1>1. \A k \in 1 .. Len(q) : q[k] \in Bursts
  OBVIOUS
<1>2. \A b \in Bursts : b.group \in Groups /\ b.results \in SUBSET (Cells \X Subs)
  BY DEF Bursts
<1>. QED
  BY <1>1, <1>2

\* What is awaited after one more burst, and after one burst less.
LEMMA AppendAwaits ==
  ASSUME NEW q \in Seq(Bursts), NEW p, NEW p2, NEW g \in Groups, NEW b \in Bursts,
         b.group = g, p[g] # "done",
         \A h \in Groups : h # g => (p2[h] = "done" <=> p[h] = "done"),
         p2[g] = "done" <=> b.results = {},
         SentinelsLast(q, p)
  PROVE  /\ SentinelsLast(Append(q, b), p2)
         /\ Awaited(Append(q, b), p2) = Awaited(q, p)
         /\ BurstsAwaited(q, p) => BurstsAwaited(Append(q, b), p2)
<1>. DEFINE q2 == Append(q, b)
<1>1. /\ Len(q) \in Nat /\ Len(q2) = Len(q) + 1 /\ q2[Len(q) + 1] = b
      /\ \A k \in 1 .. Len(q) : q2[k] = q[k] /\ q[k].group \in Groups
  BY QueueFacts
<1>. HIDE DEF q2
<1>2. b.results = {} <=> b = Sentinel(g)
  BY DEF Bursts, Sentinel
<1>3. \A k \in 1 .. Len(q) : q[k].results = {} => q[k].group # g
  BY DEF SentinelsLast
<1>4. SentinelsLast(q2, p2)
  <2>. SUFFICES ASSUME NEW k \in 1 .. Len(q2), q2[k].results = {}
                PROVE  /\ p2[q2[k].group] = "done"
                       /\ \A l \in k + 1 .. Len(q2) : q2[l].group # q2[k].group
    BY DEF SentinelsLast
  <2>1. CASE k \in 1 .. Len(q)
    <3>1. /\ q[k].group \in Groups \ {g} /\ q2[k] = q[k] /\ p[q[k].group] = "done"
          /\ \A l \in k + 1 .. Len(q) : q[l].group # q[k].group
      BY <2>1, <1>1, <1>3 DEF SentinelsLast
    <3>2. \A l \in k + 1 .. Len(q2) : l \in k + 1 .. Len(q) \/ q2[l].group = g
      BY <2>1, <1>1
    <3>3. \A l \in k + 1 .. Len(q) : q2[l] = q[l]
      BY <2>1, <1>1
    <3>. QED
      BY <3>1, <3>2, <3>3
  <2>2. CASE k = Len(q) + 1
    BY <2>2, <1>1
  <2>. QED
    BY <2>1, <2>2, <1>1
<1>5. Awaited(q2, p2) = Awaited(q, p)
  <2>1. \A h \in Groups : (\E k \in 1 .. Len(q2) : q2[k] = Sentinel(h))
          <=> (\E k \in 1 .. Len(q) : q[k] = Sentinel(h)) \/ b = Sentinel(h)
    <3>. SUFFICES ASSUME NEW h \in Groups
                  PROVE  (\E k \in 1 .. Len(q2) : q2[k] = Sentinel(h))
                           <=> (\E k \in 1 .. Len(q) : q[k] = Sentinel(h)) \/ b = Sentinel(h)
      OBVIOUS
    <3>1. ASSUME NEW k \in 1 .. Len(q2), q2[k] = Sentinel(h)
          PROVE  (\E l \in 1 .. Len(q) : q[l] = Sentinel(h)) \/ b = Sentinel(h)
      BY <3>1, <1>1
    <3>2. ASSUME NEW k \in 1 .. Len(q), q[k] = Sentinel(h)
          PROVE  \E l \in 1 .. Len(q2) : q2[l] = Sentinel(h)
      BY <3>2, <1>1
    <3>3. ASSUME b = Sentinel(h) PROVE \E l \in 1 .. Len(q2) : q2[l] = Sentinel(h)
      BY <3>3, <1>1
    <3>. QED
      BY <3>1, <3>2, <3>3
  <2>2. \A h \in Groups : b = Sentinel(h) => h = g
    BY DEF Sentinel
  <2>. QED
    BY <2>1, <2>2, <1>2 DEF Awaited
<1>6. BurstsAwaited(q, p) => BurstsAwaited(q2, p2)
  <2>1. g \in Awaited(q, p)
    BY DEF Awaited
  <2>. QED
    BY <2>1, <1>1, <1>5 DEF BurstsAwaited
<1>. QED
  BY <1>4, <1>5, <1>6 DEF q2

\* A group ends, and its sentinel is put on the queue.
LEMMA EndAwaits ==
  ASSUME NEW q \in Seq(Bursts), NEW p \in [Groups -> PCs], NEW g \in Groups,
         p[g] # "done", SentinelsLast(q, p)
  PROVE  /\ SentinelsLast(Append(q, Sentinel(g)), [p EXCEPT ![g] = "done"])
         /\ Awaited(Append(q, Sentinel(g)), [p EXCEPT ![g] = "done"]) = Awaited(q, p)
         /\ BurstsAwaited(q, p) =>
              BurstsAwaited(Append(q, Sentinel(g)), [p EXCEPT ![g] = "done"])
<1>. DEFINE b  == Sentinel(g)
            p2 == [p EXCEPT ![g] = "done"]
<1>1. b \in Bursts /\ b.group = g /\ b.results = {}
  BY DEF Sentinel, Bursts
<1>2. p2[g] = "done" /\ \A h \in Groups : h # g => (p2[h] = "done" <=> p[h] = "done")
  OBVIOUS
<1>. HIDE DEF b, p2
<1>3. p2[g] = "done" <=> b.results = {}
  BY <1>1, <1>2
<1>4. /\ SentinelsLast(Append(q, b), p2)
      /\ Awaited(Append(q, b), p2) = Awaited(q, p)
      /\ BurstsAwaited(q, p) => BurstsAwaited(Append(q, b), p2)
  BY <1>1, <1>2, <1>3, AppendAwaits
<1>. QED
  BY <1>4 DEF b, p2

\* A group goes on its way, with results to show for it or without.
LEMMA PutAwaits ==
  ASSUME NEW q \in Seq(Bursts), NEW p, NEW p2, NEW g \in Groups,
         NEW rs \in SUBSET (Cells \X Subs), p[g] # "done", p2[g] # "done",
         \A h \in Groups : h # g => (p2[h] = "done" <=> p[h] = "done"),
         SentinelsLast(q, p)
  PROVE  /\ SentinelsLast(Put(q, g, rs), p2)
         /\ Awaited(Put(q, g, rs), p2) = Awaited(q, p)
         /\ BurstsAwaited(q, p) => BurstsAwaited(Put(q, g, rs), p2)
<1>. DEFINE b == [group |-> g, results |-> rs]
<1>1. b \in Bursts /\ b.group = g /\ b.results = rs
  BY DEF Bursts
<1>2. CASE rs # {}
  <2>1. Put(q, g, rs) = Append(q, b)
    BY <1>2 DEF Put
  <2>. HIDE DEF b
  <2>2. p2[g] = "done" <=> b.results = {}
    BY <1>1, <1>2
  <2>3. /\ SentinelsLast(Append(q, b), p2)
        /\ Awaited(Append(q, b), p2) = Awaited(q, p)
        /\ BurstsAwaited(q, p) => BurstsAwaited(Append(q, b), p2)
    BY <1>1, <2>2, AppendAwaits
  <2>. QED
    BY <2>1, <2>3
<1>3. CASE rs = {}
  <2>1. Put(q, g, rs) = q
    BY <1>3 DEF Put
  <2>2. \A h \in Groups : p2[h] = "done" <=> p[h] = "done"
    OBVIOUS
  <2>3. \A k \in 1 .. Len(q) : q[k].group \in Groups
    BY QueueFacts
  <2>4. SentinelsLast(q, p2)
    BY <2>2, <2>3 DEF SentinelsLast
  <2>5. Awaited(q, p2) = Awaited(q, p)
    BY <2>2 DEF Awaited
  <2>. QED
    BY <2>1, <2>4, <2>5 DEF BurstsAwaited
<1>. QED
  BY <1>2, <1>3

\* The queue and the ends of the tasks stay as they are.
LEMMA SameAwaits ==
  ASSUME NEW q \in Seq(Bursts), NEW p, NEW p2,
         \A h \in Groups : p2[h] = "done" <=> p[h] = "done",
         SentinelsLast(q, p)
  PROVE  /\ SentinelsLast(q, p2)
         /\ Awaited(q, p2) = Awaited(q, p)
         /\ BurstsAwaited(q, p) => BurstsAwaited(q, p2)
<1>1. \A k \in 1 .. Len(q) : q[k].group \in Groups
  BY QueueFacts
<1>2. SentinelsLast(q, p2)
  BY <1>1 DEF SentinelsLast
<1>3. Awaited(q, p2) = Awaited(q, p)
  BY DEF Awaited
<1>. QED
  BY <1>2, <1>3 DEF BurstsAwaited

\* A burst is taken off the queue; its group is awaited no more if it is the
\* group's sentinel.
LEMMA TailAwaits ==
  ASSUME NEW q \in Seq(Bursts), q # <<>>, NEW p, SentinelsLast(q, p)
  PROVE  /\ SentinelsLast(Tail(q), p)
         /\ Head(q).results = {} =>
              /\ Head(q).group \in Groups
              /\ Head(q).group \in Awaited(q, p)
              /\ Awaited(Tail(q), p) = Awaited(q, p) \ {Head(q).group}
         /\ Head(q).results # {} => Awaited(Tail(q), p) = Awaited(q, p)
         /\ BurstsAwaited(q, p) => BurstsAwaited(Tail(q), p)
<1>. DEFINE t == Tail(q)
            g == q[1].group
<1>1. /\ Len(q) \in Nat \ {0} /\ Head(q) = q[1] /\ q[1] \in Bursts /\ Len(t) = Len(q) - 1
      /\ \A k \in 1 .. Len(t) : k + 1 \in 1 .. Len(q) /\ t[k] = q[k + 1]
      /\ \A k \in 2 .. Len(q) : k - 1 \in 1 .. Len(t) /\ t[k - 1] = q[k]
      /\ \A k \in 1 .. Len(q) : q[k].group \in Groups
  BY QueueFacts
<1>. HIDE DEF t
<1>2. g \in Groups /\ 1 \in 1 .. Len(q)
  BY <1>1
<1>3. q[1].results = {} => q[1] = Sentinel(g)
  BY <1>1 DEF Sentinel, Bursts
<1>4. q[1].results # {} => \A h \in Groups : q[1] # Sentinel(h)
  BY DEF Sentinel
<1>. HIDE DEF g
<1>5. q[1].results = {} => p[g] = "done" /\ \A k \in 2 .. Len(q) : q[k].group # g
  BY <1>2 DEF SentinelsLast, g
<1>6. SentinelsLast(t, p)
  <2>. SUFFICES ASSUME NEW k \in 1 .. Len(t), t[k].results = {}
                PROVE  /\ p[t[k].group] = "done"
                       /\ \A l \in k + 1 .. Len(t) : t[l].group # t[k].group
    BY DEF SentinelsLast
  <2>1. /\ k + 1 \in 1 .. Len(q) /\ t[k] = q[k + 1]
        /\ \A l \in k + 1 .. Len(t) : l + 1 \in (k + 1) + 1 .. Len(q) /\ t[l] = q[l + 1]
    BY <1>1
  <2>2. /\ p[q[k + 1].group] = "done"
        /\ \A l \in (k + 1) + 1 .. Len(q) : q[l].group # q[k + 1].group
    BY <2>1 DEF SentinelsLast
  <2>. QED
    BY <2>1, <2>2
<1>7. \A h \in Groups : (\E k \in 1 .. Len(t) : t[k] = Sentinel(h))
                          <=> \E k \in 2 .. Len(q) : q[k] = Sentinel(h)
  <2>. SUFFICES ASSUME NEW h \in Groups
                PROVE  (\E k \in 1 .. Len(t) : t[k] = Sentinel(h))
                         <=> \E k \in 2 .. Len(q) : q[k] = Sentinel(h)
    OBVIOUS
  <2>1. ASSUME NEW k \in 1 .. Len(t), t[k] = Sentinel(h)
        PROVE  \E l \in 2 .. Len(q) : q[l] = Sentinel(h)
    <3>1. k + 1 \in 2 .. Len(q) /\ q[k + 1] = Sentinel(h)
      BY <2>1, <1>1
    <3>. QED
      BY <3>1
  <2>2. ASSUME NEW k \in 2 .. Len(q), q[k] = Sentinel(h)
        PROVE  \E l \in 1 .. Len(t) : t[l] = Sentinel(h)
    <3>1. k - 1 \in 1 .. Len(t) /\ t[k - 1] = Sentinel(h)
      BY <2>2, <1>1
    <3>. QED
      BY <3>1
  <2>. QED
    BY <2>1, <2>2
<1>8. \A h \in Groups : (\E k \in 1 .. Len(q) : q[k] = Sentinel(h))
        <=> q[1] = Sentinel(h) \/ \E k \in 2 .. Len(q) : q[k] = Sentinel(h)
  <2>1. \A k \in 1 .. Len(q) : k = 1 \/ k \in 2 .. Len(q)
    BY <1>1
  <2>2. \A k \in 2 .. Len(q) : k \in 1 .. Len(q)
    BY <1>1
  <2>. QED
    BY <2>1, <2>2, <1>2
<1>9. \A h \in Groups : Sentinel(h).group = h
  BY DEF Sentinel
<1>10. ASSUME q[1].results = {}
       PROVE  g \in Awaited(q, p) /\ Awaited(t, p) = Awaited(q, p) \ {g}
  <2>1. \A h \in Groups : q[1] = Sentinel(h) <=> h = g
    BY <1>2, <1>3, <1>9, <1>10
  <2>2. \A k \in 2 .. Len(q) : q[k] # Sentinel(g)
    BY <1>2, <1>5, <1>9, <1>10
  <2>3. \A h \in Groups : h \in Awaited(t, p) <=> h \in Awaited(q, p) /\ h # g
    BY <2>1, <2>2, <1>5, <1>7, <1>8, <1>10 DEF Awaited
  <2>4. g \in Awaited(q, p)
    BY <2>1, <1>2, <1>8 DEF Awaited
  <2>5. Awaited(t, p) \subseteq Groups /\ Awaited(q, p) \subseteq Groups
    BY DEF Awaited
  <2>. QED
    BY <2>3, <2>4, <2>5
<1>11. ASSUME q[1].results # {} PROVE Awaited(t, p) = Awaited(q, p)
  BY <1>4, <1>7, <1>8, <1>11 DEF Awaited
<1>12. ASSUME BurstsAwaited(q, p) PROVE BurstsAwaited(t, p)
  <2>. SUFFICES ASSUME NEW k \in 1 .. Len(t) PROVE t[k].group \in Awaited(t, p)
    BY DEF BurstsAwaited
  <2>1. k + 1 \in 2 .. Len(q) /\ k + 1 \in 1 .. Len(q) /\ t[k] = q[k + 1]
    BY <1>1
  <2>2. t[k].group \in Awaited(q, p)
    BY <2>1, <1>12 DEF BurstsAwaited
  <2>3. q[1].results = {} => t[k].group # g
    BY <2>1, <1>5
  <2>. QED
    BY <2>2, <2>3, <1>10, <1>11
<1>. QED
  BY <1>1, <1>2, <1>6, <1>10, <1>11, <1>12 DEF t, g

\* One step keeps the count of sentinels.
LEMMA SentinelStep ==
  ASSUME IInv, [Next]_vars
  PROVE  SentinelInv'
<1>. USE DEF SentinelInv, group_vars, permit_vars, stream_vars
<1>a. TypeOK /\ SentinelInv /\ StageInv /\ UnitInv /\ CancelInv
  BY DEF IInv
<1>b. /\ pc \in [Groups -> PCs] /\ flight \subseteq Units /\ queue \in Seq(Bursts)
      /\ cancelled \subseteq Groups /\ pending_groups \in Nat
  BY <1>a DEF TypeOK
<1>c. ASSUME NEW g \in Groups, NEW rs \in SUBSET (Cells \X Subs), pc[g] # "done",
             queue' = Put(queue, g, rs),
             \E p \in {"evaluate", "releasing"} : pc' = [pc EXCEPT ![g] = p],
             UNCHANGED <<status, pending_groups>>
      PROVE  SentinelInv'
  <2>1. pc'[g] # "done" /\ \A h \in Groups : h # g => (pc'[h] = "done" <=> pc[h] = "done")
    BY <1>b, <1>c
  <2>2. /\ SentinelsLast(Put(queue, g, rs), pc')
        /\ Awaited(Put(queue, g, rs), pc') = Awaited(queue, pc)
        /\ BurstsAwaited(queue, pc) => BurstsAwaited(Put(queue, g, rs), pc')
    BY <1>a, <1>b, <1>c, <2>1, PutAwaits
  <2>3. /\ SentinelsLast(queue', pc')
        /\ Awaited(queue', pc') = Awaited(queue, pc)
        /\ BurstsAwaited(queue, pc) => BurstsAwaited(queue', pc')
    BY <2>2, <1>c
  <2>. QED
    BY <1>a, <1>c, <2>3
<1>d. ASSUME \A h \in Groups : pc'[h] = "done" <=> pc[h] = "done",
             UNCHANGED <<queue, status, pending_groups>>
      PROVE  SentinelInv'
  <2>1. /\ SentinelsLast(queue, pc')
        /\ Awaited(queue, pc') = Awaited(queue, pc)
        /\ BurstsAwaited(queue, pc) => BurstsAwaited(queue, pc')
    BY <1>a, <1>b, <1>d, SameAwaits
  <2>2. /\ SentinelsLast(queue', pc')
        /\ Awaited(queue', pc') = Awaited(queue, pc)
        /\ BurstsAwaited(queue, pc) => BurstsAwaited(queue', pc')
    BY <2>1, <1>d
  <2>. QED
    BY <1>a, <1>d, <2>2
<1>1. ASSUME NEW g \in Groups, Start(g) PROVE SentinelInv'
  <2>1. CASE Emit(g, Cells, Cells \X {0})
    <3>1. pc[g] # "done" /\ queue' = Put(queue, g, Cells \X {0})
          /\ \E p \in {"evaluate", "releasing"} : pc' = [pc EXCEPT ![g] = p]
          /\ UNCHANGED <<status, pending_groups>>
      BY <1>1, <2>1 DEF Start, Emit
    <3>. QED
      BY <3>1, <1>c, FirstResults
  <2>2. CASE /\ \E p \in {AtBudget(g, "probe"), AtBudget(g, "arch"), AtProbed(g)} : Proceed(g, p)
             /\ UNCHANGED <<queue, emitted>>
    <3>1. PICK p \in {AtBudget(g, "probe"), AtBudget(g, "arch"), AtProbed(g)} : Proceed(g, p)
      BY <2>2
    <3>2. p # "done"
      BY Stages
    <3>3. \A h \in Groups : pc'[h] = "done" <=> pc[h] = "done"
      BY <1>1, <1>b, <3>1, <3>2 DEF Start, Proceed
    <3>. QED
      BY <1>1, <2>2, <1>d, <3>3 DEF Start
  <2>. QED
    BY <1>1, <2>1, <2>2 DEF Start
<1>2. ASSUME NEW g \in Groups, Refuse(g) PROVE SentinelInv'
  <2>. DEFINE q1 == Put(queue, g, Cells \X {0})
              p1 == [pc EXCEPT ![g] = "evaluate"]
  <2>1. /\ pc[g] # "done" /\ p1 \in [Groups -> PCs] /\ p1[g] # "done"
        /\ \A h \in Groups : h # g => (p1[h] = "done" <=> pc[h] = "done")
    BY <1>2, <1>b DEF Refuse, PCs
  <2>2. q1 \in Seq(Bursts)
    BY <1>b, PutType, FirstResults
  <2>4. /\ queue' = Append(q1, Sentinel(g)) /\ pc' = [p1 EXCEPT ![g] = "done"]
        /\ UNCHANGED <<status, pending_groups>>
    BY <1>2, <1>b DEF Refuse
  <2>. HIDE DEF p1
  <2>3. /\ SentinelsLast(Put(queue, g, Cells \X {0}), p1)
        /\ Awaited(Put(queue, g, Cells \X {0}), p1) = Awaited(queue, pc)
        /\ BurstsAwaited(queue, pc) => BurstsAwaited(Put(queue, g, Cells \X {0}), p1)
    BY <1>a, <1>b, <2>1, FirstResults, PutAwaits
  <2>5. /\ SentinelsLast(q1, p1) /\ Awaited(q1, p1) = Awaited(queue, pc)
        /\ BurstsAwaited(queue, pc) => BurstsAwaited(q1, p1)
    BY <2>3
  <2>. HIDE DEF q1
  <2>6. /\ SentinelsLast(Append(q1, Sentinel(g)), [p1 EXCEPT ![g] = "done"])
        /\ Awaited(Append(q1, Sentinel(g)), [p1 EXCEPT ![g] = "done"]) = Awaited(q1, p1)
        /\ BurstsAwaited(q1, p1) =>
             BurstsAwaited(Append(q1, Sentinel(g)), [p1 EXCEPT ![g] = "done"])
    BY <2>1, <2>2, <2>5, EndAwaits
  <2>. QED
    BY <1>a, <2>4, <2>5, <2>6
<1>3. ASSUME NEW g \in Groups, TakeBudget(g) PROVE SentinelInv'
  <2>1. \A h \in Groups : pc'[h] = "done" <=> pc[h] = "done"
    BY <1>3, <1>b, Stages DEF TakeBudget, ForBudget, InBudget
  <2>. QED
    BY <1>3, <1>d, <2>1 DEF TakeBudget
<1>4. ASSUME NEW g \in Groups, ProbeEnd(g) PROVE SentinelInv'
  <2>1. PICK p \in {AtBudget(g, "arch"), AtProbed(g)} : pc' = [pc EXCEPT ![g] = p]
    BY <1>4 DEF ProbeEnd, Proceed
  <2>2. p # "done"
    BY Stages
  <2>3. \A h \in Groups : pc'[h] = "done" <=> pc[h] = "done"
    BY <1>4, <1>b, <2>1, <2>2 DEF ProbeEnd
  <2>. QED
    BY <1>4, <1>d, <2>3 DEF ProbeEnd
<1>5. ASSUME NEW g \in Groups, ProbeFail(g) PROVE SentinelInv'
  <2>1. pc[g] # "done" /\ queue' = Put(queue, g, Cells \X {0})
        /\ \E p \in {"evaluate", "releasing"} : pc' = [pc EXCEPT ![g] = p]
        /\ UNCHANGED <<status, pending_groups>>
    BY <1>5 DEF ProbeFail, Emit
  <2>. QED
    BY <2>1, <1>c, FirstResults
<1>6. ASSUME NEW g \in Groups, ArchEnd(g) PROVE SentinelInv'
  <2>1. PICK p \in {AtProbed(g)} : pc' = [pc EXCEPT ![g] = p]
    BY <1>6 DEF ArchEnd, Proceed
  <2>2. p # "done"
    BY Stages
  <2>3. \A h \in Groups : pc'[h] = "done" <=> pc[h] = "done"
    BY <1>6, <1>b, <2>1, <2>2 DEF ArchEnd
  <2>. QED
    BY <1>6, <1>d, <2>3 DEF ArchEnd
<1>7. ASSUME NEW g \in Groups, ResolveEnd(g) PROVE SentinelInv'
  <2>1. PICK p \in {AtResolved(g)} : pc' = [pc EXCEPT ![g] = p]
    BY <1>7 DEF ResolveEnd, Proceed
  <2>2. p # "done"
    BY Stages
  <2>3. \A h \in Groups : pc'[h] = "done" <=> pc[h] = "done"
    BY <1>7, <1>b, <2>1, <2>2 DEF ResolveEnd
  <2>. QED
    BY <1>7, <1>d, <2>3 DEF ResolveEnd
<1>8. ASSUME NEW g \in Groups, ResolveFail(g) PROVE SentinelInv'
  <2>1. pc[g] # "done" /\ queue' = Put(queue, g, Cells \X {0})
        /\ \E p \in {"evaluate", "releasing"} : pc' = [pc EXCEPT ![g] = p]
        /\ UNCHANGED <<status, pending_groups>>
    BY <1>8 DEF ResolveFail, FailGroup, Emit
  <2>. QED
    BY <2>1, <1>c, FirstResults
<1>9. ASSUME NEW g \in Groups, PrepareEnd(g) PROVE SentinelInv'
  <2>1. PICK p \in {"releasing", "evaluate"} : pc' = [pc EXCEPT ![g] = p]
    BY <1>9 DEF PrepareEnd, Proceed
  <2>2. p # "done"
    OBVIOUS
  <2>3. \A h \in Groups : pc'[h] = "done" <=> pc[h] = "done"
    BY <1>9, <1>b, <2>1, <2>2 DEF PrepareEnd
  <2>. QED
    BY <1>9, <1>d, <2>3 DEF PrepareEnd
<1>10. ASSUME NEW g \in Groups, StepBack(g) PROVE SentinelInv'
  <2>1. pc[g] = "older" /\ UNCHANGED <<status, pending_groups>>
    BY <1>10 DEF StepBack
  <2>2. CASE Emit(g, {0}, {<<0, 0>>})
    <3>1. queue' = Put(queue, g, {<<0, 0>>})
          /\ \E p \in {"evaluate", "releasing"} : pc' = [pc EXCEPT ![g] = p]
      BY <2>2 DEF Emit
    <3>2. {<<0, 0>>} \in SUBSET (Cells \X Subs)
      BY <1>a, <2>1, BoundsAssumption DEF StageInv, Subs
    <3>. QED
      BY <2>1, <3>1, <3>2, <1>c
  <2>3. CASE UNCHANGED <<queue, emitted>> /\ pc' \in {pc, [pc EXCEPT ![g] = AtPrepare(g)]}
    <3>1. AtPrepare(g) # "done"
      BY Stages
    <3>2. \A h \in Groups : pc'[h] = "done" <=> pc[h] = "done"
      BY <1>b, <2>1, <2>3, <3>1
    <3>. QED
      BY <2>1, <2>3, <3>2, <1>d
  <2>. QED
    BY <1>10, <2>2, <2>3 DEF StepBack
<1>11. ASSUME NEW g \in Groups, ReleaseEnd(g) PROVE SentinelInv'
  <2>1. /\ pc[g] # "done" /\ queue' = Append(queue, Sentinel(g))
        /\ pc' = [pc EXCEPT ![g] = "done"] /\ UNCHANGED <<status, pending_groups>>
    BY <1>11 DEF ReleaseEnd
  <2>2. /\ SentinelsLast(queue', pc') /\ Awaited(queue', pc') = Awaited(queue, pc)
        /\ BurstsAwaited(queue, pc) => BurstsAwaited(queue', pc')
    BY <1>a, <1>b, <2>1, EndAwaits
  <2>. QED
    BY <1>a, <2>1, <2>2
<1>12. ASSUME NEW g \in Groups, Unwind(g) PROVE SentinelInv'
  <2>1. \A h \in Groups : pc'[h] = "done" <=> pc[h] = "done"
    BY <1>12, <1>a, <1>b DEF Unwind, CancelInv
  <2>. QED
    BY <1>12, <1>d, <2>1 DEF Unwind
<1>13. ASSUME NEW g \in Groups, ReleaseInterrupted(g) PROVE SentinelInv'
  <2>1. /\ pc[g] # "done" /\ queue' = Append(queue, Sentinel(g))
        /\ pc' = [pc EXCEPT ![g] = "done"] /\ UNCHANGED <<status, pending_groups>>
    BY <1>13 DEF ReleaseInterrupted
  <2>2. /\ SentinelsLast(queue', pc') /\ Awaited(queue', pc') = Awaited(queue, pc)
        /\ BurstsAwaited(queue, pc) => BurstsAwaited(queue', pc')
    BY <1>a, <1>b, <2>1, EndAwaits
  <2>. QED
    BY <1>a, <2>1, <2>2
<1>14. ASSUME NEW g \in Groups, EvaluateStart(g) PROVE SentinelInv'
  BY <1>14, <1>b, <1>d DEF EvaluateStart
<1>15. ASSUME NEW u \in flight, EvaluateEnd(u) PROVE SentinelInv'
  <2>1. PICK n \in IF u.group \in FanOut THEN 1 .. MaxSub ELSE {1} :
          Emit(u.group, u.cells, u.cells \X (0 .. n - 1))
    BY <1>15 DEF EvaluateEnd
  <2>2. u.group \in Groups /\ u.cells \in SUBSET Cells /\ pc[u.group] = "evaluate"
    BY <1>a, <1>b DEF Units, UnitInv, UnitsWait
  <2>3. u.cells \X (0 .. n - 1) \in SUBSET (Cells \X Subs)
    BY <2>2, BoundsAssumption DEF Subs
  <2>4. /\ queue' = Put(queue, u.group, u.cells \X (0 .. n - 1))
        /\ \E p \in {"evaluate", "releasing"} : pc' = [pc EXCEPT ![u.group] = p]
        /\ UNCHANGED <<status, pending_groups>>
    BY <1>15, <2>1 DEF EvaluateEnd, Emit
  <2>. QED
    BY <2>2, <2>3, <2>4, <1>c
<1>16. ASSUME NEW u \in flight, HandBack(u) PROVE SentinelInv'
  BY <1>16, <1>b, <1>d DEF HandBack, ReturnPermit
<1>17. ASSUME NEW u \in flight, TooNew(u) PROVE SentinelInv'
  <2>1. u.group \in Groups /\ pc[u.group] = "evaluate"
    BY <1>a, <1>b DEF Units, UnitInv, UnitsWait
  <2>2. \A h \in Groups : pc'[h] = "done" <=> pc[h] = "done"
    BY <1>17, <1>b, <2>1 DEF TooNew
  <2>. QED
    BY <1>17, <2>2, <1>d DEF TooNew
<1>18. ASSUME NEW s \in Specs, Resolver(s) PROVE SentinelInv'
  BY <1>18, <1>b, <1>d DEF Resolver
<1>19. ASSUME Take PROVE SentinelInv'
  <2>1. PICK r \in Head(queue).results :
          queue' = IF Head(queue).results = {r} THEN Tail(queue)
                   ELSE [queue EXCEPT ![1].results = @ \ {r}]
    BY <1>19 DEF Take
  <2>2. queue # <<>> /\ UNCHANGED <<pc, status, pending_groups>> /\ Head(queue).results # {}
    BY <1>19, <2>1 DEF Take
  <2>3. CASE queue' = Tail(queue)
    <3>1. /\ SentinelsLast(Tail(queue), pc) /\ Awaited(Tail(queue), pc) = Awaited(queue, pc)
          /\ BurstsAwaited(queue, pc) => BurstsAwaited(Tail(queue), pc)
      BY <1>a, <1>b, <2>2, TailAwaits
    <3>2. /\ SentinelsLast(queue', pc') /\ Awaited(queue', pc') = Awaited(queue, pc)
          /\ BurstsAwaited(queue, pc) => BurstsAwaited(queue', pc')
      BY <2>2, <2>3, <3>1
    <3>. QED
      BY <1>a, <2>2, <3>2
  <2>4. CASE queue' = [queue EXCEPT ![1].results = @ \ {r}] /\ Head(queue).results # {r}
    <3>1. /\ Len(queue) \in Nat \ {0} /\ Head(queue) = queue[1] /\ queue[1] \in Bursts
      BY <1>b, <2>2
    <3>2. /\ Len(queue') = Len(queue) /\ queue'[1].group = queue[1].group
          /\ queue'[1].results # {} /\ queue[1].results # {}
          /\ \A k \in 2 .. Len(queue) : queue'[k] = queue[k]
      BY <1>b, <2>1, <2>2, <2>4, <3>1 DEF Bursts
    <3>3. \A k \in 1 .. Len(queue) : k = 1 \/ k \in 2 .. Len(queue)
      BY <3>1
    <3>4. \A h \in Groups : queue'[1] # Sentinel(h) /\ queue[1] # Sentinel(h)
      BY <3>2 DEF Sentinel
    <3>5. \A k \in 1 .. Len(queue) :
            /\ queue'[k].group = queue[k].group
            /\ queue'[k].results = {} <=> queue[k].results = {}
            /\ \A h \in Groups : queue'[k] = Sentinel(h) <=> queue[k] = Sentinel(h)
      BY <3>2, <3>3, <3>4
    <3>6. Awaited(queue', pc') = Awaited(queue, pc)
      BY <2>2, <3>2, <3>5 DEF Awaited
    <3>7. SentinelsLast(queue', pc')
      <4>. SUFFICES ASSUME NEW k \in 1 .. Len(queue'), queue'[k].results = {}
                    PROVE  /\ pc'[queue'[k].group] = "done"
                           /\ \A l \in k + 1 .. Len(queue') : queue'[l].group # queue'[k].group
        BY DEF SentinelsLast
      <4>1. /\ pc[queue[k].group] = "done"
            /\ \A l \in k + 1 .. Len(queue) : queue[l].group # queue[k].group
        BY <1>a, <3>2, <3>5 DEF SentinelsLast
      <4>2. \A l \in k + 1 .. Len(queue) : l \in 1 .. Len(queue)
        BY <3>1, <3>2
      <4>. QED
        BY <2>2, <3>2, <3>5, <4>1, <4>2
    <3>8. BurstsAwaited(queue, pc) => BurstsAwaited(queue', pc')
      BY <3>2, <3>5, <3>6 DEF BurstsAwaited
    <3>. QED
      BY <1>a, <2>2, <3>6, <3>7, <3>8
  <2>. QED
    BY <2>1, <2>3, <2>4
<1>20. ASSUME TakeSentinel PROVE SentinelInv'
  <2>1. /\ queue # <<>> /\ status = "open" /\ Head(queue).results = {}
        /\ queue' = Tail(queue) /\ pc' = pc /\ status' = status
        /\ pending_groups' = pending_groups - 1
    BY <1>20 DEF TakeSentinel
  <2>. DEFINE g == Head(queue).group
  <2>2. /\ SentinelsLast(Tail(queue), pc) /\ g \in Awaited(queue, pc)
        /\ Awaited(Tail(queue), pc) = Awaited(queue, pc) \ {g}
        /\ BurstsAwaited(queue, pc) => BurstsAwaited(Tail(queue), pc)
    BY <1>a, <1>b, <2>1, TailAwaits
  <2>. HIDE DEF g
  <2>3. IsFiniteSet(Awaited(queue, pc))
    BY GroupsAssumption, FS_Subset DEF Awaited
  <2>4. Cardinality(Awaited(queue, pc) \ {g}) = Cardinality(Awaited(queue, pc)) - 1
    BY <2>2, <2>3, FS_RemoveElement
  <2>5. /\ SentinelsLast(queue', pc')
        /\ Awaited(queue', pc') = Awaited(queue, pc) \ {g}
        /\ BurstsAwaited(queue, pc) => BurstsAwaited(queue', pc')
    BY <2>1, <2>2
  <2>. QED
    BY <1>a, <2>1, <2>4, <2>5
<1>21. ASSUME Close PROVE SentinelInv'
  <2>1. /\ queue' = queue /\ status' = "closing"
        /\ \A g \in Groups : pc[g] = "done" => pc'[g] = "done"
    BY <1>21, <1>b DEF Close
  <2>2. SentinelsLast(queue', pc')
    BY <1>a, <1>b, <2>1, QueueFacts DEF SentinelsLast
  <2>. QED
    BY <2>1, <2>2
<1>22. ASSUME Finish PROVE SentinelInv'
  <2>1. status' # "open" /\ queue' = queue /\ pc' = pc
    BY <1>22 DEF Finish
  <2>. QED
    BY <1>a, <2>1
<1>23. CASE UNCHANGED vars
  BY <1>23, <1>d DEF vars
<1>. QED
  BY <1>1, <1>2, <1>3, <1>4, <1>5, <1>6, <1>7, <1>8, <1>9, <1>10, <1>11, <1>12, <1>13, <1>14, <1>15, <1>16, <1>17, <1>18, <1>19, <1>20, <1>21, <1>22, <1>23 DEF Next, GroupStep, UnitStep, Over

\* Before anything has run.
LEMMA InitIInv == Init => IInv
<1>. SUFFICES ASSUME Init PROVE IInv
  OBVIOUS
<1>. USE DEF Init
<1>1. TypeOK
  <2>1. Cardinality(Groups) \in Nat
    BY GroupsAssumption, FS_CardinalityType
  <2>2. MaxParallel \in Nat /\ PullParallel \in Nat /\ 0 \in 0 .. MaxSteps
    BY BoundsAssumption
  <2>3. \A r \in Groups \X Cells \X Subs : 0 \in Nat
    OBVIOUS
  <2>4. received \in [Groups \X Cells \X Subs -> Nat]
    OBVIOUS
  <2>. QED
    BY <2>1, <2>2, <2>4 DEF TypeOK, PCs
<1>2. PermitsInv
  <2>1. {g \in Imaged : pc[g] \in InBudget} = {}
    BY GroupsAssumption DEF InBudget
  <2>2. IsFiniteSet({}) /\ Cardinality({}) = 0
    BY FS_EmptySet
  <2>3. semaphore + Cardinality(flight) = MaxParallel /\ IsFiniteSet(flight)
    BY <2>2, BoundsAssumption
  <2>4. image_semaphore + Cardinality({g \in Imaged : pc[g] \in InBudget}) = PullParallel
    <3>1. Cardinality({g \in Imaged : pc[g] \in InBudget}) = 0
      BY <2>1, <2>2
    <3>2. image_semaphore = PullParallel /\ PullParallel \in Nat
      BY BoundsAssumption
    <3>. HIDE DEF Init
    <3>. QED
      BY <3>1, <3>2
  <2>. QED
    BY <2>3, <2>4 DEF PermitsInv, PermitsConserved
<1>3. StageInv
  BY DEF StageInv, ForBudget
<1>4. CancelInv /\ ResolverInv /\ UnitInv
  BY DEF CancelInv, ResolverInv, UnitInv, UnitsWait, UnitsApart, FirstIsFirst
<1>5. DeliveryInv
  <2>1. Len(queue) = 0 /\ 1 .. Len(queue) = {}
    OBVIOUS
  <2>2. \A g \in Groups, c \in Cells, n \in Subs : received[<<g, c, n>>] = 0
    OBVIOUS
  <2>3. QueuedOnce(queue, emitted, received) /\ BurstsApart(queue)
    BY <2>1 DEF QueuedOnce, BurstsApart
  <2>4. ReceivedOnce(emitted, received) /\ NothingLost(queue, emitted, received)
    BY <2>2 DEF ReceivedOnce, NothingLost
  <2>. QED
    BY <2>3, <2>4 DEF DeliveryInv, Delivery
<1>6. SentinelInv
  <2>1. 1 .. Len(queue) = {}
    OBVIOUS
  <2>2. Awaited(queue, pc) = Groups
    BY DEF Awaited
  <2>. QED
    BY <2>1, <2>2 DEF SentinelInv, SentinelsLast, BurstsAwaited
<1>. QED
  BY <1>1, <1>2, <1>3, <1>4, <1>5, <1>6 DEF IInv

\* Every part of the invariant is kept by every step.
LEMMA NextIInv == IInv /\ [Next]_vars => IInv'
<1>. SUFFICES ASSUME IInv, [Next]_vars PROVE IInv'
  OBVIOUS
<1>1. PermitsInv'
  BY SemaphoreStep, BudgetStep DEF PermitsInv, PermitsConserved, SemaphoreInv, BudgetInv, Paying
<1>. QED
  BY <1>1, TypeStep, StageStep, CancelStep, ResolverStep, UnitsStep, DeliveryStep,
     SentinelStep DEF IInv

\* The inductive invariant holds of every run.
THEOREM Invariance == Spec => []IInv
BY InitIInv, NextIInv, PTL DEF Spec

\* Every variable keeps its type; in particular a group steps back MaxSteps
\* releases at most (orchestrate._fall_back).
THEOREM TypeCorrect == Spec => []TypeOK
<1>1. IInv => TypeOK
  BY DEF IInv
<1>. QED
  BY <1>1, Invariance, PTL

\* Neither semaphore loses or forges a permit, however a group ends
\* (`async with semaphore`, `async with image_budget`, task.cancel).
THEOREM PermitsSafe == Spec => []PermitsConserved
<1>1. IInv => PermitsConserved
  BY DEF IInv, PermitsInv
<1>. QED
  BY <1>1, Invariance, PTL

\* When the generator has returned, no evaluation, resolver or transport of
\* its run is in use (the `finally` of _evaluate_stream_indexed).
THEOREM NothingOutlives == Spec => []NothingOutlivesTheRun
<1>1. IInv => NothingOutlivesTheRun
  <2>. SUFFICES ASSUME IInv, status \in {"ended", "closed"}
                PROVE  /\ flight = {}
                       /\ \A s \in Specs : resolutions[s] # "running"
                       /\ \A g \in Groups : transport[g] # "open"
    BY DEF NothingOutlivesTheRun
  <2>1. \A g \in Groups : pc[g] = "done"
    BY DEF IInv, CancelInv
  <2>2. flight = {}
    BY <2>1 DEF IInv, TypeOK, Units, UnitInv, UnitsWait
  <2>3. \A s \in Specs : resolutions[s] # "running"
    BY DEF IInv, ResolverInv
  <2>4. \A g \in Groups : transport[g] # "open"
    BY <2>1 DEF IInv, StageInv
  <2>. QED
    BY <2>2, <2>3, <2>4
<1>. QED
  BY <1>1, Invariance, PTL

\* A run that has not started has delivered nothing and uses nothing.
LEMMA RefinesInit == Init => Promise!Init
BY DEF Init, Promise!Init, Promise!Results

\* The consumer's stream, and the transports in use, as the caller sees them.
Stream == CASE status = "open" -> "open"
            [] status = "closing" -> "closing"
            [] OTHER -> "over"
Live == {g \in Groups : transport[g] = "open"}

\* A step that the caller does not see.
LEMMA Stutter ==
  ASSUME UNCHANGED <<received, status, transport>>
  PROVE  UNCHANGED Promise!vars
BY DEF Promise!vars

\* A group puts its transport to use, or hands it back.
LEMMA UseStep ==
  ASSUME IInv, NEW g \in Groups, pc[g] # "done", NEW x,
         transport' = [transport EXCEPT ![g] = x], UNCHANGED <<received, status>>
  PROVE  Promise!Next
<1>. USE DEF Stream, Live
<1>1. Live' \in {Live \cup {g}, Live \ {g}}
  <2>1. transport \in [Groups -> {"none", "open", "released", "abandoned"}]
    BY DEF IInv, TypeOK
  <2>2. CASE x = "open"
    BY <2>1, <2>2
  <2>3. CASE x # "open"
    BY <2>1, <2>3
  <2>. QED
    BY <2>2, <2>3
<1>2. Stream' = Stream /\ Stream # "over"
  BY DEF IInv, CancelInv, TypeOK
<1>3. Promise!Use
  BY <1>1, <1>2 DEF Promise!Use
<1>. QED
  BY <1>3 DEF Promise!Next

\* Every step of the tasks and the consumer is one the promise allows, or one
\* the caller does not see.
LEMMA RefinesNext ==
  ASSUME IInv, [Next]_vars
  PROVE  [Promise!Next]_(Promise!vars)
<1>. USE DEF group_vars, permit_vars, stream_vars
<1>1. ASSUME NEW g \in Groups, Start(g) PROVE [Promise!Next]_(Promise!vars)
  <2>1. pc[g] # "done" /\ UNCHANGED <<received, status>>
    BY <1>1 DEF Start
  <2>2. PICK x \in {"open", "released", "abandoned"} : transport' = [transport EXCEPT ![g] = x]
    BY <1>1 DEF Start
  <2>. QED
    BY <2>1, <2>2, UseStep
<1>2. ASSUME NEW g \in Groups, Refuse(g) PROVE [Promise!Next]_(Promise!vars)
  BY <1>2, Stutter DEF Refuse
<1>3. ASSUME NEW g \in Groups, TakeBudget(g) PROVE [Promise!Next]_(Promise!vars)
  BY <1>3, Stutter DEF TakeBudget
<1>4. ASSUME NEW g \in Groups, ProbeEnd(g) PROVE [Promise!Next]_(Promise!vars)
  BY <1>4, Stutter DEF ProbeEnd
<1>5. ASSUME NEW g \in Groups, ProbeFail(g) PROVE [Promise!Next]_(Promise!vars)
  BY <1>5, Stutter DEF ProbeFail
<1>6. ASSUME NEW g \in Groups, ArchEnd(g) PROVE [Promise!Next]_(Promise!vars)
  BY <1>6, Stutter DEF ArchEnd
<1>7. ASSUME NEW g \in Groups, ResolveEnd(g) PROVE [Promise!Next]_(Promise!vars)
  BY <1>7, Stutter DEF ResolveEnd
<1>8. ASSUME NEW g \in Groups, ResolveFail(g) PROVE [Promise!Next]_(Promise!vars)
  BY <1>8, Stutter DEF ResolveFail, FailGroup
<1>9. ASSUME NEW g \in Groups, PrepareEnd(g) PROVE [Promise!Next]_(Promise!vars)
  BY <1>9, Stutter DEF PrepareEnd
<1>10. ASSUME NEW g \in Groups, StepBack(g) PROVE [Promise!Next]_(Promise!vars)
  BY <1>10, Stutter DEF StepBack
<1>11. ASSUME NEW g \in Groups, ReleaseEnd(g) PROVE [Promise!Next]_(Promise!vars)
  <2>1. pc[g] # "done" /\ UNCHANGED <<received, status>>
    BY <1>11 DEF ReleaseEnd
  <2>2. PICK x \in {"open", "released", "abandoned"} : transport' = [transport EXCEPT ![g] = x]
    BY <1>11 DEF ReleaseEnd
  <2>. QED
    BY <2>1, <2>2, UseStep
<1>12. ASSUME NEW g \in Groups, Unwind(g) PROVE [Promise!Next]_(Promise!vars)
  BY <1>12, Stutter DEF Unwind
<1>13. ASSUME NEW g \in Groups, ReleaseInterrupted(g) PROVE [Promise!Next]_(Promise!vars)
  <2>1. pc[g] # "done" /\ UNCHANGED <<received, status>>
    BY <1>13 DEF ReleaseInterrupted
  <2>2. PICK x \in {"open", "released", "abandoned"} : transport' = [transport EXCEPT ![g] = x]
    BY <1>13 DEF ReleaseInterrupted
  <2>. QED
    BY <2>1, <2>2, UseStep
<1>14. ASSUME NEW g \in Groups, EvaluateStart(g) PROVE [Promise!Next]_(Promise!vars)
  BY <1>14, Stutter DEF EvaluateStart
<1>15. ASSUME NEW u \in flight, EvaluateEnd(u) PROVE [Promise!Next]_(Promise!vars)
  BY <1>15, Stutter DEF EvaluateEnd, ReturnPermit
<1>16. ASSUME NEW u \in flight, HandBack(u) PROVE [Promise!Next]_(Promise!vars)
  BY <1>16, Stutter DEF HandBack, ReturnPermit
<1>17. ASSUME NEW u \in flight, TooNew(u) PROVE [Promise!Next]_(Promise!vars)
  BY <1>17, Stutter DEF TooNew, ReturnPermit
<1>18. ASSUME NEW s \in Specs, Resolver(s) PROVE [Promise!Next]_(Promise!vars)
  BY <1>18, Stutter DEF Resolver
<1>19. ASSUME Take PROVE [Promise!Next]_(Promise!vars)
  <2>1. PICK r \in Head(queue).results :
          received' = [received EXCEPT ![<<Head(queue).group, r[1], r[2]>>] = @ + 1]
    BY <1>19 DEF Take
  <2>. DEFINE key == <<Head(queue).group, r[1], r[2]>>
  <2>2. status = "open" /\ status' = status /\ transport' = transport /\ queue # <<>>
    BY <1>19 DEF Take
  <2>3. queue \in Seq(Bursts) /\ received \in [Groups \X Cells \X Subs -> Nat]
    BY DEF IInv, TypeOK
  <2>4. 1 \in 1 .. Len(queue) /\ Head(queue) = queue[1]
    BY <2>2, <2>3
  <2>5. key \in Groups \X Cells \X Subs
    <3>1. Head(queue).group \in Groups /\ r \in Cells \X Subs
      BY <2>3, <2>4, QueueFacts
    <3>. QED
      BY <3>1
  <2>6. received[key] = 0
    BY <2>4 DEF IInv, DeliveryInv, Delivery, QueuedOnce
  <2>. HIDE DEF key
  <2>7. received' = [received EXCEPT ![key] = 1]
    BY <2>1, <2>3, <2>5, <2>6 DEF key
  <2>8. Promise!Deliver
    BY <2>2, <2>5, <2>6, <2>7 DEF Promise!Deliver, Promise!Results
  <2>. QED
    BY <2>8 DEF Promise!Next
<1>20. ASSUME TakeSentinel PROVE [Promise!Next]_(Promise!vars)
  BY <1>20, Stutter DEF TakeSentinel
<1>21. ASSUME Close PROVE [Promise!Next]_(Promise!vars)
  <2>1. Promise!Close
    BY <1>21 DEF Close, Promise!Close
  <2>. QED
    BY <2>1 DEF Promise!Next
<1>22. ASSUME Finish PROVE [Promise!Next]_(Promise!vars)
  <2>1. /\ \A g \in Groups : pc[g] = "done"
        /\ status \in {"open", "closing"} /\ status' \in {"ended", "closed"}
        /\ status = "open" => pending_groups = 0
        /\ UNCHANGED <<received, transport>>
    BY <1>22 DEF Finish
  <2>2. {g \in Groups : transport[g] = "open"} = {}
    BY <2>1 DEF IInv, StageInv
  <2>3. ASSUME status = "open", NEW g \in Groups, NEW c \in Cells
        PROVE  received[<<g, c, 0>>] = 1
    <3>1. emitted[g] = Cells
      BY <2>1, <2>3 DEF IInv, StageInv
    <3>2. Awaited(queue, pc) = {}
      <4>1. Cardinality(Awaited(queue, pc)) = 0 /\ IsFiniteSet(Awaited(queue, pc))
        BY <2>1, <2>3, GroupsAssumption, FS_Subset DEF IInv, SentinelInv, Awaited
      <4>. QED
        BY <4>1, FS_EmptySet
    <3>3. 1 .. Len(queue) = {}
      BY <2>3, <3>2 DEF IInv, SentinelInv, BurstsAwaited
    <3>. QED
      BY <3>1, <3>3 DEF IInv, DeliveryInv, Delivery, NothingLost
  <2>4. Promise!Over
    BY <2>1, <2>2, <2>3 DEF Promise!Over
  <2>. QED
    BY <2>4 DEF Promise!Next
<1>23. CASE UNCHANGED vars
  BY <1>23, Stutter DEF vars
<1>. QED
  BY <1>1, <1>2, <1>3, <1>4, <1>5, <1>6, <1>7, <1>8, <1>9, <1>10, <1>11, <1>12, <1>13, <1>14, <1>15, <1>16, <1>17, <1>18, <1>19, <1>20, <1>21, <1>22, <1>23 DEF Next, GroupStep, UnitStep, Over

\* The tasks, the queue and the consumer implement what the caller is
\* promised: each result once, none missing at the end of a run that was not
\* closed, and no transport in use after the call.
THEOREM Refinement == Spec => Promise!Spec
<1>1. Init => Promise!Init
  BY RefinesInit
<1>2. IInv /\ [Next]_vars => [Promise!Next]_(Promise!vars)
  BY RefinesNext
<1>. QED
  BY <1>1, <1>2, Invariance, PTL DEF Spec, Promise!Spec

\* The same, in the words of the runs that check it.
THEOREM Implementation == Spec => ImplementsResultStream
BY Refinement DEF ImplementsResultStream
=============================================================================
