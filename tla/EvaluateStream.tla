--------------------------- MODULE EvaluateStream ---------------------------
(***************************************************************************)
(* orchestrate._evaluate_stream_indexed: one asyncio task per group (one   *)
(* target at one version), all of them putting results on one queue, and a *)
(* consumer that drains the queue until it has seen one sentinel per       *)
(* group.  The groups share the evaluation permits (max_parallel), the     *)
(* image permits (pull_parallel) and one resolver task per version spec.   *)
(*                                                                         *)
(* Between two awaits a task is not interrupted, so one action is the code *)
(* from one await to the next.  What a version is, and the way back to an  *)
(* older one, are QnaFallback's subject: here a first expression may ask   *)
(* for another round of prepare-evaluate, and a unit of several expressions*)
(* may be handed back to go singly; when a fan-out group forms such a unit *)
(* is left open.                                                           *)
(***************************************************************************)
EXTENDS Naturals, Sequences, FiniteSets

CONSTANTS Groups,        \* work items: (target, version spec) pairs
          NExpr,         \* len(expressions)
          Specs,         \* what resolutions are shared by: (spec, platform-arch)
          NoSpec,        \* a group that resolves no version
          SpecOf,        \* the key of each group, or NoSpec
          Imaged,        \* groups whose transport has an image phase (prepare)
          FanOut,        \* groups whose transport answers for many endpoints
          MaxParallel,   \* max_parallel
          PullParallel,  \* pull_parallel
          Lanes,         \* expressions a fan-out group runs at once
          BatchSize,     \* most expressions in one batch or tuple
          MaxSub,        \* most endpoints that answer one fan-out cell (bound)
          MaxSteps,      \* MAX_FALLBACK_STEPS
          Slow           \* groups whose target may never answer (fairness only)

ASSUME GroupsAssumption == /\ IsFiniteSet(Groups)
                           /\ NoSpec \notin Specs
                           /\ SpecOf \in [Groups -> Specs \cup {NoSpec}]
                           /\ Imaged \subseteq Groups
                           /\ FanOut \subseteq Groups
                           /\ Slow \subseteq Groups
ASSUME BoundsAssumption == /\ NExpr \in Nat
                           /\ MaxSteps \in Nat
                           /\ {MaxParallel, PullParallel, Lanes, BatchSize, MaxSub}
                                \subseteq Nat \ {0}

Cells == 0 .. NExpr - 1
Subs  == 0 .. MaxSub - 1

VARIABLES
  pc,               \* where each group's task is
  transport,        \* "none", "open", "released" or "abandoned"
  emitted,          \* the cells each group has put results on the queue for
  alone,            \* the cells each group may send only by themselves
  steps,            \* releases stepped back through by the first expression
  flight,           \* the units (a group, its cells) that hold a permit
  semaphore,        \* free evaluation permits
  image_semaphore,  \* free image permits
  resolutions,      \* the shared resolver tasks
  queue,            \* bursts of results, and one sentinel per group
  cancelled,        \* groups with a CancelledError still to be raised
  status,           \* the generator: "open", "closing", "ended" or "closed"
  pending_groups,   \* sentinels still to be seen
  received          \* how often the caller got each result

group_vars  == <<transport, emitted, alone, steps>>
permit_vars == <<flight, semaphore, image_semaphore>>
stream_vars == <<cancelled, status, pending_groups, received>>
vars == <<pc, group_vars, permit_vars, resolutions, queue, stream_vars>>

\* Waiting for the image budget, and where holding it puts the task.
ForBudget == {"probe", "arch", "prepare"}
InBudget  == {"probing", "arching", "preparing"}
Holding(p) == CASE p = "probe"   -> "probing"
                [] p = "arch"    -> "arching"
                [] p = "prepare" -> "preparing"

PCs == {"created", "resolving", "evaluate", "older", "releasing", "done"}
         \cup ForBudget \cup InBudget

Units == [group : Groups, cells : (SUBSET Cells) \ {{}}]

UnitsOf(g) == {u \in flight : u.group = g}
Todo(g)    == Cells \ (emitted[g] \cup UNION {u.cells : u \in UnitsOf(g)})

\* What is on the queue: results put there without an await in between are
\* one burst; the consumer may meet those of a burst in any order.  The
\* None that ends a group is a burst of nothing.
Bursts == [group : Groups, results : SUBSET (Cells \X Subs)]
Sentinel(g) == [group |-> g, results |-> {}]
Put(q, g, rs) == IF rs = {} THEN q ELSE Append(q, [group |-> g, results |-> rs])

Init ==
  /\ pc = [g \in Groups |-> "created"]
  /\ transport = [g \in Groups |-> "none"]
  /\ emitted = [g \in Groups |-> {}]
  /\ alone \in [Groups -> SUBSET Cells]
  /\ \A g \in Groups \ FanOut : alone[g] \in {{}, Cells}
  /\ steps = [g \in Groups |-> 0]
  /\ flight = {}
  /\ semaphore = MaxParallel
  /\ image_semaphore = PullParallel
  /\ resolutions = [s \in Specs |-> "absent"]
  /\ queue = <<>>
  /\ cancelled = {}
  /\ status = "open"
  /\ pending_groups = Cardinality(Groups)
  /\ received = [r \in Groups \X Cells \X Subs |-> 0]

-----------------------------------------------------------------------------
(* The stages of a group, in the order _group takes them. *)

\* Mutant: every group shares the image budget, an ssh host too.
AtBudgetForAll(g, p) == p

\* `async with image_budget`: a nullcontext unless the transport has prepare.
AtBudget(g, p) == IF g \in Imaged THEN p ELSE Holding(p)

\* `_prepare` returns at once without an image phase.
AtPrepare(g) == IF g \in Imaged THEN "prepare"
                ELSE IF NExpr = 0 THEN "releasing" ELSE "evaluate"

AtResolved(g) == IF NExpr > 0 /\ g \in FanOut THEN "evaluate" ELSE AtPrepare(g)

AtProbed(g) == IF SpecOf[g] = NoSpec THEN AtResolved(g) ELSE "resolving"

\* Moving to stage p; entering `_resolve` starts the spec's resolver task
\* unless another group did.
Proceed(g, p) ==
  /\ pc' = [pc EXCEPT ![g] = p]
  /\ resolutions' = IF p = "resolving" /\ resolutions[SpecOf[g]] = "absent"
                    THEN [resolutions EXCEPT ![SpecOf[g]] = "running"]
                    ELSE resolutions

\* Results rs for the cells cs go on the queue; the last of them sends the
\* task into its `finally`.
Emit(g, cs, rs) ==
  /\ queue' = Put(queue, g, rs)
  /\ emitted' = [emitted EXCEPT ![g] = @ \cup cs]
  /\ pc' = [pc EXCEPT ![g] = IF emitted'[g] = Cells THEN "releasing" ELSE "evaluate"]

\* _group_failure: one failed result per expression, then the `finally`.
FailGroup(g) ==
  /\ Emit(g, Cells, Cells \X {0})
  /\ UNCHANGED <<transport, alone, steps, permit_vars, resolutions, stream_vars>>

-----------------------------------------------------------------------------
(* A group's steps. *)

\* A probe needs a reason: a version to pick an artifact of, or (local,
\* online_evaluator) a platform or arch to write back.
MayProbe(g) == g \notin FanOut /\ (SpecOf[g] # NoSpec \/ g \notin Imaged)

\* The task runs for the first time, builds its transport, and goes on to its
\* first await; or a version is pinned on a target whose agent is fixed.
Start(g) ==
  /\ pc[g] = "created"
  /\ transport' = [transport EXCEPT ![g] = "open"]
  /\ \/ /\ \/ Proceed(g, AtProbed(g))
           \/ MayProbe(g) /\ \E p \in {"probe", "arch"} : Proceed(g, AtBudget(g, p))
        /\ g \in FanOut => SpecOf[g] = NoSpec
        /\ UNCHANGED <<queue, emitted>>
     \/ /\ SpecOf[g] # NoSpec /\ g \notin Imaged
        /\ Emit(g, Cells, Cells \X {0})
        /\ UNCHANGED resolutions
  /\ UNCHANGED <<alone, steps, permit_vars, stream_vars>>

\* Mutant: a refused group that owes its sentinel.
RefuseWithoutSentinel(g) ==
  /\ pc[g] = "created"
  /\ queue' = Put(queue, g, Cells \X {0})
  /\ emitted' = [emitted EXCEPT ![g] = Cells]
  /\ pc' = [pc EXCEPT ![g] = "done"]
  /\ UNCHANGED <<transport, alone, steps, permit_vars, resolutions, stream_vars>>

\* No qna can be started from here, the factory raised, or asyncssh is
\* missing: the results, and the task's end with no transport to release.
Refuse(g) ==
  /\ pc[g] = "created"
  /\ queue' = Append(Put(queue, g, Cells \X {0}), Sentinel(g))
  /\ emitted' = [emitted EXCEPT ![g] = Cells]
  /\ pc' = [pc EXCEPT ![g] = "done"]
  /\ UNCHANGED <<transport, alone, steps, permit_vars, resolutions, stream_vars>>

TakeBudget(g) ==
  /\ g \notin cancelled
  /\ pc[g] \in ForBudget
  /\ image_semaphore > 0
  /\ image_semaphore' = image_semaphore - 1
  /\ pc' = [pc EXCEPT ![g] = Holding(pc[g])]
  /\ UNCHANGED <<group_vars, flight, semaphore, resolutions, queue, stream_vars>>

\* Leaving the budget, where the group had to take some of it.
ReturnBudget(g) ==
  image_semaphore' = IF g \in Imaged THEN image_semaphore + 1 ELSE image_semaphore

\* The platform probe answered (an arch probe may follow) ...
ProbeEnd(g) ==
  /\ g \notin cancelled
  /\ pc[g] = "probing"
  /\ ReturnBudget(g)
  /\ \E p \in {AtBudget(g, "arch"), AtProbed(g)} : Proceed(g, p)
  /\ UNCHANGED <<group_vars, flight, semaphore, queue, stream_vars>>

\* ... or failed, which fails the group.
ProbeFail(g) ==
  /\ g \notin cancelled
  /\ pc[g] = "probing"
  /\ ReturnBudget(g)
  /\ Emit(g, Cells, Cells \X {0})
  /\ UNCHANGED <<transport, alone, steps, flight, semaphore, resolutions, stream_vars>>

\* A failed arch probe never fails the group.
ArchEnd(g) ==
  /\ g \notin cancelled
  /\ pc[g] = "arching"
  /\ ReturnBudget(g)
  /\ Proceed(g, AtProbed(g))
  /\ UNCHANGED <<group_vars, flight, semaphore, queue, stream_vars>>

ResolveEnd(g) ==
  /\ g \notin cancelled
  /\ pc[g] = "resolving"
  /\ resolutions[SpecOf[g]] = "ok"
  /\ Proceed(g, AtResolved(g))
  /\ UNCHANGED <<group_vars, permit_vars, queue, stream_vars>>

ResolveFail(g) ==
  /\ g \notin cancelled
  /\ pc[g] = "resolving"
  /\ resolutions[SpecOf[g]] = "failed"
  /\ FailGroup(g)

\* Image work done, or failed, which the evaluation will report.
PrepareEnd(g) ==
  /\ g \notin cancelled
  /\ pc[g] = "preparing"
  /\ ReturnBudget(g)
  /\ Proceed(g, IF NExpr = 0 THEN "releasing" ELSE "evaluate")
  /\ UNCHANGED <<group_vars, flight, semaphore, queue, stream_vars>>

\* The cells a group may send next.  A qna group sends one unit at a time, in
\* order, the first expression alone; a fan-out group up to Lanes at once.
Sendable(g) ==
  {cs \in SUBSET Todo(g) : \/ Cardinality(cs) = 1
                           \/ Cardinality(cs) \in 2 .. BatchSize /\ cs \cap alone[g] = {}}

NextUnits(g) ==
  IF g \in FanOut
  THEN {cs \in Sendable(g) : Cardinality(UnitsOf(g)) < Lanes}
  ELSE {cs \in Sendable(g) : /\ UnitsOf(g) = {}
                             /\ 0 \in Todo(g) => cs = {0}
                             /\ \A c \in cs, d \in Todo(g) \ cs : c < d}

\* `async with semaphore`, and the transport is asked.
EvaluateStart(g) ==
  /\ g \notin cancelled
  /\ pc[g] = "evaluate"
  /\ semaphore > 0
  /\ semaphore' = semaphore - 1
  /\ \E cs \in NextUnits(g) : flight' = flight \cup {[group |-> g, cells |-> cs]}
  /\ UNCHANGED <<pc, group_vars, image_semaphore, resolutions, queue, stream_vars>>

ReturnPermit(u) ==
  /\ flight' = flight \ {u}
  /\ semaphore' = semaphore + 1

\* A result, or a failure as a result, for every cell of the unit; a fan-out
\* cell may have one per endpoint.
EvaluateEnd(u) ==
  /\ u.group \notin cancelled
  /\ ReturnPermit(u)
  /\ \E n \in IF u.group \in FanOut THEN 1 .. MaxSub ELSE {1} :
       Emit(u.group, u.cells, u.cells \X (0 .. n - 1))
  /\ UNCHANGED <<transport, alone, steps, image_semaphore, resolutions, stream_vars>>

\* Mutant: what a chunk did answer is queued before its length is checked.
HandBackPartly(u) ==
  /\ u.group \notin cancelled
  /\ Cardinality(u.cells) > 1
  /\ ReturnPermit(u)
  /\ \E c \in u.cells : queue' = Put(queue, u.group, {<<c, 0>>})
  /\ alone' = [alone EXCEPT ![u.group] =
                  IF u.group \in FanOut THEN @ \cup u.cells ELSE Cells]
  /\ UNCHANGED <<pc, transport, emitted, steps, image_semaphore, resolutions,
                 stream_vars>>

\* A chunk or tuple that did not run cleanly is evaluated one by one; a qna
\* group sends no other (when a fan-out group does is left open).
HandBack(u) ==
  /\ u.group \notin cancelled
  /\ Cardinality(u.cells) > 1
  /\ ReturnPermit(u)
  /\ alone' = [alone EXCEPT ![u.group] =
                  IF u.group \in FanOut THEN @ \cup u.cells ELSE Cells]
  /\ UNCHANGED <<pc, transport, emitted, steps, image_semaphore, resolutions,
                 queue, stream_vars>>

\* The first expression finds the build too new for the target.
TooNew(u) ==
  /\ u.group \notin cancelled
  /\ u.group \notin FanOut
  /\ 0 \in u.cells
  /\ SpecOf[u.group] # NoSpec
  /\ steps[u.group] < MaxSteps
  /\ ReturnPermit(u)
  /\ pc' = [pc EXCEPT ![u.group] = "older"]
  /\ UNCHANGED <<group_vars, image_semaphore, resolutions, queue, stream_vars>>

\* _fall_back's loop: an older release to prepare and try, a release to skip,
\* or none, and then the first failure stands.
StepBack(g) ==
  /\ g \notin cancelled
  /\ pc[g] = "older"
  /\ \/ /\ steps' = [steps EXCEPT ![g] = @ + 1]
        /\ \/ /\ pc' = [pc EXCEPT ![g] = AtPrepare(g)]
              /\ UNCHANGED <<queue, emitted>>
           \/ /\ steps'[g] < MaxSteps
              /\ UNCHANGED <<pc, queue, emitted>>
           \/ /\ steps'[g] = MaxSteps
              /\ Emit(g, {0}, {<<0, 0>>})
     \/ /\ Emit(g, {0}, {<<0, 0>>})
        /\ UNCHANGED steps
  /\ UNCHANGED <<transport, alone, permit_vars, resolutions, stream_vars>>

\* The `finally`s: the transport is released, the sentinel queued.
ReleaseEnd(g) ==
  /\ g \notin cancelled
  /\ pc[g] = "releasing"
  /\ transport' = [transport EXCEPT ![g] = "released"]
  /\ queue' = Append(queue, Sentinel(g))
  /\ pc' = [pc EXCEPT ![g] = "done"]
  /\ UNCHANGED <<emitted, alone, steps, permit_vars, resolutions, stream_vars>>

\* A shared resolver task comes to an end.
Resolver(s) ==
  /\ resolutions[s] = "running"
  /\ \E r \in {"ok", "failed"} : resolutions' = [resolutions EXCEPT ![s] = r]
  /\ UNCHANGED <<pc, group_vars, permit_vars, queue, stream_vars>>

-----------------------------------------------------------------------------
(* Cancellation. *)

\* Mutant: the image permit of a cancelled group is lost.
UnwindLeakingBudget(g) ==
  /\ g \in cancelled
  /\ pc[g] # "releasing"
  /\ cancelled' = cancelled \ {g}
  /\ semaphore' = semaphore + Cardinality(UnitsOf(g))
  /\ flight' = flight \ UnitsOf(g)
  /\ pc' = [pc EXCEPT ![g] = "releasing"]
  /\ UNCHANGED <<group_vars, image_semaphore, resolutions, queue, status,
                 pending_groups, received>>

\* The CancelledError is raised where the task awaits: every permit it holds
\* goes back on the way to its `finally`.
Unwind(g) ==
  /\ g \in cancelled
  /\ pc[g] # "releasing"
  /\ cancelled' = cancelled \ {g}
  /\ semaphore' = semaphore + Cardinality(UnitsOf(g))
  /\ flight' = flight \ UnitsOf(g)
  /\ IF pc[g] \in InBudget THEN ReturnBudget(g) ELSE UNCHANGED image_semaphore
  /\ pc' = [pc EXCEPT ![g] = "releasing"]
  /\ UNCHANGED <<group_vars, resolutions, queue, status, pending_groups, received>>

\* Raised in the `finally` itself: `_release` catches Exception, which a
\* CancelledError is not, so the transport's aclose is left where it was.
ReleaseInterrupted(g) ==
  /\ g \in cancelled
  /\ pc[g] = "releasing"
  /\ cancelled' = cancelled \ {g}
  /\ transport' = [transport EXCEPT ![g] = "abandoned"]
  /\ queue' = Append(queue, Sentinel(g))
  /\ pc' = [pc EXCEPT ![g] = "done"]
  /\ UNCHANGED <<emitted, alone, steps, permit_vars, resolutions, status,
                 pending_groups, received>>

-----------------------------------------------------------------------------
(* The generator and its consumer. *)

\* The caller gets one result of the burst at the head of the queue.
Take ==
  /\ status = "open" /\ pending_groups > 0
  /\ queue # <<>>
  /\ LET burst == Head(queue)
     IN  \E r \in burst.results :
           /\ received' = [received EXCEPT ![<<burst.group, r[1], r[2]>>] = @ + 1]
           /\ queue' = IF burst.results = {r} THEN Tail(queue)
                       ELSE [queue EXCEPT ![1].results = @ \ {r}]
  /\ UNCHANGED <<pc, group_vars, permit_vars, resolutions, cancelled, status,
                 pending_groups>>

TakeSentinel ==
  /\ status = "open" /\ pending_groups > 0
  /\ queue # <<>>
  /\ Head(queue).results = {}
  /\ queue' = Tail(queue)
  /\ pending_groups' = pending_groups - 1
  /\ UNCHANGED <<pc, group_vars, permit_vars, resolutions, cancelled, status, received>>

\* The caller stops early.  Every task not done is cancelled: one that never
\* ran ends there and then, and cancelling a task that awaits a resolver
\* cancels the resolver.
Close ==
  /\ status = "open"
  /\ status' = "closing"
  /\ cancelled' = {g \in Groups : pc[g] \notin {"created", "done"}}
  /\ pc' = [g \in Groups |-> IF pc[g] = "created" THEN "done" ELSE pc[g]]
  /\ resolutions' = [s \in Specs |->
       IF resolutions[s] = "running"
            /\ \E g \in Groups : pc[g] = "resolving" /\ SpecOf[g] = s
       THEN "cancelled" ELSE resolutions[s]]
  /\ UNCHANGED <<group_vars, permit_vars, queue, pending_groups, received>>

\* Mutant: the tasks are cancelled and not awaited.
FinishWithoutGather ==
  /\ \/ status = "open" /\ pending_groups = 0 /\ status' = "ended"
     \/ status = "closing" /\ status' = "closed"
  /\ UNCHANGED <<pc, group_vars, permit_vars, resolutions, queue, cancelled,
                 pending_groups, received>>

\* `await asyncio.gather(*tasks)` returns when every task is done.
Finish ==
  /\ \A g \in Groups : pc[g] = "done"
  /\ \/ status = "open" /\ pending_groups = 0 /\ status' = "ended"
     \/ status = "closing" /\ status' = "closed"
  /\ UNCHANGED <<pc, group_vars, permit_vars, resolutions, queue, cancelled,
                 pending_groups, received>>

\* The generator is over; nothing is left to run.
Over == status \in {"ended", "closed"} /\ UNCHANGED vars

-----------------------------------------------------------------------------

\* What a group does once it holds whatever it has to wait for.
GroupStep(g) ==
  \/ Start(g) \/ Refuse(g) \/ ProbeEnd(g) \/ ProbeFail(g) \/ ArchEnd(g)
  \/ ResolveEnd(g) \/ ResolveFail(g) \/ PrepareEnd(g)
  \/ StepBack(g) \/ ReleaseEnd(g) \/ Unwind(g) \/ ReleaseInterrupted(g)

UnitStep(u) == EvaluateEnd(u) \/ HandBack(u) \/ TooNew(u)

Next ==
  \/ \E g \in Groups : GroupStep(g) \/ TakeBudget(g) \/ EvaluateStart(g)
  \/ \E u \in flight : UnitStep(u)
  \/ \E s \in Specs : Resolver(s)
  \/ Take \/ TakeSentinel \/ Close \/ Finish \/ Over

\* Every awaited call returns (each has a timeout), except on a target in
\* Slow, and the event loop runs every ready task.  Both semaphores wake their
\* waiters first come, first served, hence strong fairness of the two
\* acquisitions.  The caller need not close, but while it does not it asks for
\* the next result.
Fairness ==
  /\ \A g \in Groups \ Slow : /\ WF_vars(GroupStep(g))
                              /\ WF_vars(\E u \in UnitsOf(g) : UnitStep(u))
                              /\ SF_vars(TakeBudget(g))
                              /\ SF_vars(EvaluateStart(g))
  /\ \A s \in Specs : WF_vars(Resolver(s))
  /\ WF_vars(Take \/ TakeSentinel \/ Finish)

Spec == Init /\ [][Next]_vars
FairSpec == Spec /\ Fairness

-----------------------------------------------------------------------------
(* Properties. *)

TypeOK ==
  /\ pc \in [Groups -> PCs]
  /\ transport \in [Groups -> {"none", "open", "released", "abandoned"}]
  /\ emitted \in [Groups -> SUBSET Cells]
  /\ alone \in [Groups -> SUBSET Cells]
  /\ steps \in [Groups -> 0 .. MaxSteps]
  /\ flight \subseteq Units
  /\ semaphore \in Nat
  /\ image_semaphore \in Nat
  /\ resolutions \in [Specs -> {"absent", "running", "ok", "failed", "cancelled"}]
  /\ queue \in Seq(Bursts)
  /\ cancelled \subseteq Groups
  /\ status \in {"open", "closing", "ended", "closed"}
  /\ pending_groups \in Nat
  /\ received \in [Groups \X Cells \X Subs -> Nat]

\* No exit from a group -- a failed probe, a raising transport, a tuple handed
\* back, a cancellation at any await -- loses or forges a permit of either
\* semaphore (`async with semaphore`, `async with image_budget`).
PermitsConserved ==
  /\ semaphore + Cardinality(flight) = MaxParallel
  /\ image_semaphore + Cardinality({g \in Imaged : pc[g] \in InBudget})
       = PullParallel

\* "An abandoned stream must not leave evaluations running against live
\* connections with nobody to collect them": once the generator has returned
\* no evaluation, resolver or transport of the run is in use.
NothingOutlivesTheRun ==
  status \in {"ended", "closed"} =>
    /\ flight = {}
    /\ \A s \in Specs : resolutions[s] # "running"
    /\ \A g \in Groups : transport[g] # "open"

\* Each result reaches the caller once, none is missing at the end of a run
\* that was not closed early, and the call returns with no transport in use.
Promise == INSTANCE ResultStream
             WITH stream <- CASE status = "open" -> "open"
                              [] status = "closing" -> "closing"
                              [] OTHER -> "over",
                  live <- {g \in Groups : transport[g] = "open"}
ImplementsResultStream == Promise!Spec

\* A run comes to an end: no group waits for ever on a permit, a resolver or
\* a sentinel, whatever fails and whenever the caller gives up.
EventuallyOver == <>(status \in {"ended", "closed"})

\* "A slow SSH host never makes a fast local container wait": a group is
\* answered even if the target of another never is.
FastIsNotHeldUp ==
  \A g \in Groups \ Slow :
    <>(status # "open" \/ \A c \in Cells : received[<<g, c, 0>>] = 1)

-----------------------------------------------------------------------------
(* The inductive invariant behind PermitsConserved, NothingOutlivesTheRun   *)
(* and ImplementsResultStream.                                              *)

PermitsInv == IsFiniteSet(flight) /\ PermitsConserved

\* What a group's stage says of its cells, its transport and its steps back.
StageInv ==
  \A g \in Groups :
    /\ pc[g] \notin {"evaluate", "releasing", "done"} => emitted[g] = {}
    /\ pc[g] \in {"releasing", "done"} /\ status = "open" => emitted[g] = Cells
    /\ pc[g] \in ForBudget => g \in Imaged
    /\ pc[g] = "created" => transport[g] = "none"
    /\ pc[g] = "done" => transport[g] # "open"
    /\ pc[g] = "older" => steps[g] < MaxSteps /\ 0 \in Cells
    /\ pc[g] = "resolving" => SpecOf[g] \in Specs

\* Cancelled groups, and no others, are still on their way after a close.
CancelInv ==
  /\ status = "open" => cancelled = {}
  /\ \A g \in cancelled : pc[g] \notin {"created", "done"}
  /\ status # "open" =>
       \A g \in Groups : g \in cancelled \/ pc[g] \in {"releasing", "done"}
  /\ status \in {"ended", "closed"} => \A g \in Groups : pc[g] = "done"

\* A resolver runs only while some group awaits it.
ResolverInv ==
  \A s \in Specs : resolutions[s] = "running" =>
    /\ status = "open"
    /\ \E g \in Groups : pc[g] = "resolving" /\ SpecOf[g] = s

\* A cell is in one unit at most, and is not answered while it is; a qna group
\* has one unit at most, and its first expression is answered first.
UnitsWait ==
  \A u \in flight : /\ pc[u.group] = "evaluate"
                    /\ u.cells \cap emitted[u.group] = {}
                    /\ u.group \notin FanOut => 0 \in u.cells \cup emitted[u.group]
UnitsApart ==
  \A u, v \in flight :
    u # v /\ u.group = v.group => u.group \in FanOut /\ u.cells \cap v.cells = {}
FirstIsFirst == \A g \in Groups \ FanOut : emitted[g] # {} => 0 \in emitted[g]
UnitInv == UnitsWait /\ UnitsApart /\ FirstIsFirst

\* A result is on the queue once or has been received once, and every cell
\* emitted has its first result in one of the two places.
QueuedOnce(q, e, rc) ==
  \A k \in 1 .. Len(q) : \A r \in q[k].results :
    r[1] \in e[q[k].group] /\ rc[<<q[k].group, r[1], r[2]>>] = 0
BurstsApart(q) ==
  \A k, l \in 1 .. Len(q) :
    k # l /\ q[k].group = q[l].group => q[k].results \cap q[l].results = {}
ReceivedOnce(e, rc) ==
  \A g \in Groups, c \in Cells, n \in Subs :
    rc[<<g, c, n>>] # 0 => rc[<<g, c, n>>] = 1 /\ c \in e[g]
NothingLost(q, e, rc) ==
  \A g \in Groups : \A c \in e[g] :
    \/ rc[<<g, c, 0>>] = 1
    \/ \E k \in 1 .. Len(q) : q[k].group = g /\ <<c, 0>> \in q[k].results
Delivery(q, e, rc) == /\ QueuedOnce(q, e, rc) /\ BurstsApart(q)
                      /\ ReceivedOnce(e, rc) /\ NothingLost(q, e, rc)
DeliveryInv == Delivery(queue, emitted, received)

\* The groups whose sentinel is still to come out of the queue.
Awaited(q, p) ==
  {g \in Groups : p[g] # "done" \/ \E k \in 1 .. Len(q) : q[k] = Sentinel(g)}

\* A sentinel is the last of its group's bursts, and as many are awaited as
\* the consumer counts.
SentinelsLast(q, p) ==
  \A k \in 1 .. Len(q) : q[k].results = {} =>
    /\ p[q[k].group] = "done"
    /\ \A l \in k + 1 .. Len(q) : q[l].group # q[k].group
BurstsAwaited(q, p) == \A k \in 1 .. Len(q) : q[k].group \in Awaited(q, p)
SentinelInv ==
  /\ SentinelsLast(queue, pc)
  /\ status = "open" => /\ pending_groups = Cardinality(Awaited(queue, pc))
                        /\ BurstsAwaited(queue, pc)

IInv == /\ TypeOK /\ PermitsInv /\ StageInv /\ CancelInv /\ ResolverInv
        /\ UnitInv /\ DeliveryInv /\ SentinelInv
=============================================================================
