-------------------------- MODULE ContainerProofs --------------------------
(***************************************************************************)
(* Theorems about ContainerLifecycle, for any transports, containers,      *)
(* uses and times: every variable keeps its type, no container is left     *)
(* without somebody to remove it except by a fault, and a container expires*)
(* under a command only where its window was not widened to cover it.      *)
(***************************************************************************)
EXTENDS ContainerLifecycle, TLAPS

\* What the control state says of the containers a transport knows.
Local(t) ==
  /\ pc[t] \in {"ready", "starting", "closing", "closed", "dead"} => at[t] = None
  /\ pc[t] \in {"closed", "dead"} => held[t] = None
  /\ pc[t] = "closing" => held[t] # None
  /\ pc[t] = "starting" /\ use[t] = "kept" => held[t] = None
  /\ pc[t] \in {"renewing", "acquired", "running"} /\ use[t] = "kept" => at[t] = held[t]
  /\ pc[t] = "renewing" => use[t] = "kept"
  /\ pc[t] = "stopping" => use[t] # "kept"
LocalInv == \A t \in Transports : Local(t)

LEMMA WindowType ==
  ASSUME NEW t \in Transports, NEW k \in Kinds
  PROVE  /\ TimeoutOf(t, k) \in Nat /\ Window(t, k) \in Nat
         /\ k = "build" => Window(t, k) = TimeoutOf(t, k) + Idle
         /\ k # "build" => TimeoutOf(t, k) = Timeout[t]
         /\ k = "one-shot" => Window(t, k) = Idle
         /\ k \in {"checked", "kept"} /\ t \notin OptOut => Window(t, k) >= Timeout[t] + Margin
<1>1. Timeout[t] \in Nat /\ BuildTimeout \in Nat /\ Idle \in Nat /\ Margin \in Nat
  BY TimesAssumption
<1>2. TimeoutOf(t, k) \in Nat
  BY <1>1 DEF TimeoutOf, Larger
<1> QED
  BY <1>1, <1>2 DEF Window, TimeoutOf, Larger

-----------------------------------------------------------------------------
(* Types. *)

LEMMA InitType == Init => TypeOK /\ LocalInv
<1> SUFFICES ASSUME Init PROVE TypeOK /\ LocalInv
  OBVIOUS
<1>1. TypeOK
  BY TimesAssumption DEF Init, TypeOK, Statuses, PCs, Kinds
<1> QED
  BY <1>1 DEF Init, LocalInv, Local

LEMMA RemoveOrLoseType ==
  ASSUME TypeOK, NEW c \in Boxes, Remove(c) \/ Lose(c)
  PROVE  /\ status' \in [Boxes -> Statuses] /\ deadline' \in [Boxes -> Nat]
         /\ stray' \subseteq Boxes
<1> QED
  BY DEF TypeOK, Remove, Lose, Statuses, box_vars

LEMMA CreateType ==
  ASSUME TypeOK, NEW t \in Transports, NEW c \in Boxes, Create(t, c)
  PROVE  status' \in [Boxes -> Statuses] /\ deadline' \in [Boxes -> Nat]
<1>1. Window(t, use[t]) \in Nat
  BY WindowType DEF TypeOK
<1> QED
  BY <1>1 DEF Create, TypeOK, Statuses

LEMMA AcquireType ==
  ASSUME TypeOK, LocalInv, NEW t \in Transports, Acquire(t)
  PROVE  TypeOK' /\ LocalInv'
<1>1. TypeOK'
  <2>1. PICK k \in Kinds :
          /\ use' = [use EXCEPT ![t] = k]
          /\ execs' = [execs EXCEPT ![t] = IF k = "build" THEN BuildExecs ELSE 1]
          /\ \/ /\ held[t] # None /\ pc' = [pc EXCEPT ![t] = "renewing"]
                /\ at' = [at EXCEPT ![t] = held[t]]
                /\ timer' = [timer EXCEPT ![t] = Margin]
             \/ pc' = [pc EXCEPT ![t] = "starting"] /\ UNCHANGED <<at, timer>>
    BY DEF Acquire
  <2>2. /\ pc[t] = "ready" /\ uses[t] < MaxUses /\ uses' = [uses EXCEPT ![t] = @ + 1]
        /\ missed' \subseteq missed
        /\ UNCHANGED <<box_vars, held, ending, loose_vars, sweep_vars>>
    BY DEF Acquire
  <2>3. /\ use' \in [Transports -> Kinds] /\ execs' \in [Transports -> 0 .. BuildExecs]
        /\ uses' \in [Transports -> 0 .. MaxUses]
    BY <2>1, <2>2, TimesAssumption DEF TypeOK
  <2>4. /\ pc' \in [Transports -> PCs] /\ at' \in [Transports -> Boxes \cup {None}]
        /\ timer' \in [Transports -> Nat]
        /\ \A u \in Transports :
             pc'[u] \in {"renewing", "acquired", "running", "stopping"} => at'[u] # None
    BY <2>1, TimesAssumption DEF TypeOK, PCs
  <2> QED
    BY <2>2, <2>3, <2>4 DEF TypeOK, box_vars, loose_vars, sweep_vars
<1>2. LocalInv'
  BY UsesAssumption DEF TypeOK, LocalInv, Local, Acquire, May, Kinds, box_vars, use_vars, loose_vars, sweep_vars
<1> QED
  BY <1>1, <1>2

LEMMA NotStartedType ==
  ASSUME TypeOK, LocalInv, NEW t \in Transports, NotStarted(t)
  PROVE  TypeOK' /\ LocalInv'
<1>1. TypeOK'
  BY TimesAssumption, UsesAssumption DEF TypeOK, LocalInv, Local, NotStarted, PCs, box_vars, use_vars, loose_vars, sweep_vars
<1>2. LocalInv'
  BY UsesAssumption DEF TypeOK, LocalInv, Local, NotStarted, box_vars, use_vars, loose_vars, sweep_vars
<1> QED
  BY <1>1, <1>2

LEMMA RenewedType ==
  ASSUME TypeOK, LocalInv, NEW t \in Transports, Renewed(t)
  PROVE  TypeOK' /\ LocalInv'
<1>1. TypeOK'
  BY TimesAssumption, UsesAssumption, WindowType DEF TypeOK, LocalInv, Local, Renewed, PCs, box_vars, use_vars, loose_vars, sweep_vars
<1>2. LocalInv'
  BY UsesAssumption DEF TypeOK, LocalInv, Local, Renewed, box_vars, use_vars, loose_vars, sweep_vars
<1> QED
  BY <1>1, <1>2

LEMMA ExecType ==
  ASSUME TypeOK, LocalInv, NEW t \in Transports, Exec(t)
  PROVE  TypeOK' /\ LocalInv'
<1>1. TypeOK'
  BY TimesAssumption, UsesAssumption, WindowType DEF TypeOK, LocalInv, Local, Exec, PCs, box_vars, use_vars, loose_vars, sweep_vars
<1>2. LocalInv'
  BY UsesAssumption DEF TypeOK, LocalInv, Local, Exec, box_vars, use_vars, loose_vars, sweep_vars
<1> QED
  BY <1>1, <1>2

LEMMA NextExecType ==
  ASSUME TypeOK, LocalInv, NEW t \in Transports, NextExec(t)
  PROVE  TypeOK' /\ LocalInv'
<1>1. TypeOK'
  BY TimesAssumption, UsesAssumption DEF TypeOK, LocalInv, Local, NextExec, PCs, box_vars, use_vars, loose_vars, sweep_vars
<1>2. LocalInv'
  BY UsesAssumption DEF TypeOK, LocalInv, Local, NextExec, box_vars, use_vars, loose_vars, sweep_vars
<1> QED
  BY <1>1, <1>2

LEMMA FinishType ==
  ASSUME TypeOK, LocalInv, NEW t \in Transports, Finish(t)
  PROVE  TypeOK' /\ LocalInv'
<1>1. TypeOK'
  BY TimesAssumption, UsesAssumption DEF TypeOK, LocalInv, Local, Finish, PCs, box_vars, use_vars, loose_vars, sweep_vars
<1>2. LocalInv'
  BY UsesAssumption DEF TypeOK, LocalInv, Local, Finish, box_vars, use_vars, loose_vars, sweep_vars
<1> QED
  BY <1>1, <1>2

LEMMA StoppedType ==
  ASSUME TypeOK, LocalInv, NEW t \in Transports, Stopped(t)
  PROVE  TypeOK' /\ LocalInv'
<1>1. TypeOK'
  BY TimesAssumption, UsesAssumption, RemoveOrLoseType DEF TypeOK, LocalInv, Local, Stopped, PCs, Leave, box_vars, use_vars, loose_vars, sweep_vars
<1>2. LocalInv'
  BY UsesAssumption DEF TypeOK, LocalInv, Local, Stopped, Leave, box_vars, use_vars, loose_vars, sweep_vars
<1> QED
  BY <1>1, <1>2

LEMMA CloseType ==
  ASSUME TypeOK, LocalInv, NEW t \in Transports, Close(t)
  PROVE  TypeOK' /\ LocalInv'
<1>1. TypeOK'
  BY TimesAssumption, UsesAssumption DEF TypeOK, LocalInv, Local, Close, PCs, Leave, box_vars, use_vars, loose_vars, sweep_vars
<1>2. LocalInv'
  BY UsesAssumption DEF TypeOK, LocalInv, Local, Close, Leave, box_vars, use_vars, loose_vars, sweep_vars
<1> QED
  BY <1>1, <1>2

LEMMA ClosedType ==
  ASSUME TypeOK, LocalInv, NEW t \in Transports, Closed(t)
  PROVE  TypeOK' /\ LocalInv'
<1>1. TypeOK'
  BY TimesAssumption, UsesAssumption, RemoveOrLoseType DEF TypeOK, LocalInv, Local, Closed, PCs, box_vars, use_vars, loose_vars, sweep_vars
<1>2. LocalInv'
  BY UsesAssumption DEF TypeOK, LocalInv, Local, Closed, box_vars, use_vars, loose_vars, sweep_vars
<1> QED
  BY <1>1, <1>2

LEMMA CancelType ==
  ASSUME TypeOK, LocalInv, NEW t \in Transports, Cancel(t)
  PROVE  TypeOK' /\ LocalInv'
<1>1. TypeOK'
  BY TimesAssumption, UsesAssumption DEF TypeOK, LocalInv, Local, Cancel, PCs, Leave, Alive, box_vars, use_vars, loose_vars, sweep_vars
<1>2. LocalInv'
  BY UsesAssumption DEF TypeOK, LocalInv, Local, Cancel, Leave, Alive, box_vars, use_vars, loose_vars, sweep_vars
<1> QED
  BY <1>1, <1>2

LEMMA StartedType ==
  ASSUME TypeOK, LocalInv, NEW t \in Transports, NEW c \in Boxes, Started(t, c)
  PROVE  TypeOK' /\ LocalInv'
<1>1. TypeOK'
  BY TimesAssumption, UsesAssumption, CreateType DEF TypeOK, LocalInv, Local, Started, PCs, box_vars, use_vars, loose_vars, sweep_vars
<1>2. LocalInv'
  BY UsesAssumption DEF TypeOK, LocalInv, Local, Started, box_vars, use_vars, loose_vars, sweep_vars
<1> QED
  BY <1>1, <1>2

LEMMA StartedAdriftType ==
  ASSUME TypeOK, LocalInv, NEW t \in Transports, NEW c \in Boxes, StartedAdrift(t, c)
  PROVE  TypeOK' /\ LocalInv'
<1>1. TypeOK'
  BY CreateType DEF TypeOK, LocalInv, Local, StartedAdrift, box_vars, use_vars, loose_vars, sweep_vars
<1>2. LocalInv'
  BY UsesAssumption DEF TypeOK, LocalInv, Local, StartedAdrift, box_vars, use_vars, loose_vars, sweep_vars
<1> QED
  BY <1>1, <1>2

LEMMA RemovedAdriftType ==
  ASSUME TypeOK, LocalInv, NEW c \in Boxes, RemovedAdrift(c)
  PROVE  TypeOK' /\ LocalInv'
<1>1. TypeOK'
  BY RemoveOrLoseType DEF TypeOK, LocalInv, Local, RemovedAdrift, box_vars, use_vars, loose_vars, sweep_vars
<1>2. LocalInv'
  BY UsesAssumption DEF TypeOK, LocalInv, Local, RemovedAdrift, box_vars, use_vars, loose_vars, sweep_vars
<1> QED
  BY <1>1, <1>2

LEMMA KillType ==
  ASSUME TypeOK, LocalInv, Kill
  PROVE  TypeOK' /\ LocalInv'
<1>1. TypeOK'
  BY DEF TypeOK, LocalInv, Local, Kill, PCs, Alive, box_vars, use_vars, loose_vars, sweep_vars
<1>2. LocalInv'
  BY UsesAssumption DEF TypeOK, LocalInv, Local, Kill, Alive, box_vars, use_vars, loose_vars, sweep_vars
<1> QED
  BY <1>1, <1>2

LEMMA TickType ==
  ASSUME TypeOK, LocalInv, Tick
  PROVE  TypeOK' /\ LocalInv'
<1>1. TypeOK'
  BY DEF TypeOK, LocalInv, Local, Tick, InTime, Roundtrips, box_vars, use_vars, loose_vars, sweep_vars
<1>2. LocalInv'
  BY UsesAssumption DEF TypeOK, LocalInv, Local, Tick, box_vars, use_vars, loose_vars, sweep_vars
<1> QED
  BY <1>1, <1>2

LEMMA ExpireType ==
  ASSUME TypeOK, LocalInv, NEW c \in Boxes, Expire(c)
  PROVE  TypeOK' /\ LocalInv'
<1>1. TypeOK'
  BY DEF TypeOK, LocalInv, Local, Expire, Statuses, box_vars, use_vars, loose_vars, sweep_vars
<1>2. LocalInv'
  BY UsesAssumption DEF TypeOK, LocalInv, Local, Expire, box_vars, use_vars, loose_vars, sweep_vars
<1> QED
  BY <1>1, <1>2

LEMMA SweepRunningType ==
  ASSUME TypeOK, LocalInv, SweepRunning
  PROVE  TypeOK' /\ LocalInv'
<1>1. TypeOK'
  BY DEF TypeOK, LocalInv, Local, SweepRunning, box_vars, use_vars, loose_vars, sweep_vars
<1>2. LocalInv'
  BY UsesAssumption DEF TypeOK, LocalInv, Local, SweepRunning, box_vars, use_vars, loose_vars, sweep_vars
<1> QED
  BY <1>1, <1>2

LEMMA SweepOneType ==
  ASSUME TypeOK, LocalInv, NEW c \in Boxes, SweepOne(c)
  PROVE  TypeOK' /\ LocalInv'
<1>1. TypeOK'
  BY RemoveOrLoseType DEF TypeOK, LocalInv, Local, SweepOne, box_vars, use_vars, loose_vars, sweep_vars
<1>2. LocalInv'
  BY UsesAssumption DEF TypeOK, LocalInv, Local, SweepOne, box_vars, use_vars, loose_vars, sweep_vars
<1> QED
  BY <1>1, <1>2

LEMMA SweepExitedType ==
  ASSUME TypeOK, LocalInv, SweepExited
  PROVE  TypeOK' /\ LocalInv'
<1>1. TypeOK'
  BY DEF TypeOK, LocalInv, Local, SweepExited, box_vars, use_vars, loose_vars, sweep_vars
<1>2. LocalInv'
  BY UsesAssumption DEF TypeOK, LocalInv, Local, SweepExited, box_vars, use_vars, loose_vars, sweep_vars
<1> QED
  BY <1>1, <1>2

LEMMA NextType == TypeOK /\ LocalInv /\ [Next]_vars => TypeOK' /\ LocalInv'
<1> SUFFICES ASSUME TypeOK, LocalInv, [Next]_vars PROVE TypeOK' /\ LocalInv'
  OBVIOUS
<1>1. ASSUME NEW t \in Transports, Use(t) PROVE TypeOK' /\ LocalInv'
  BY <1>1, AcquireType, NotStartedType, RenewedType, ExecType, NextExecType,
     FinishType, StoppedType, CloseType, ClosedType, CancelType DEF Use
<1>2. CASE UNCHANGED vars
  BY <1>2 DEF TypeOK, LocalInv, Local, vars, box_vars, use_vars, loose_vars, sweep_vars
<1> QED
  BY <1>1, <1>2, StartedType, StartedAdriftType, RemovedAdriftType, KillType, TickType,
     ExpireType, SweepRunningType, SweepOneType, SweepExitedType DEF Next

\* Every variable keeps its type, and a transport that has or stops a container
\* of its own knows which (Stopped and Renewed index the containers by it).
THEOREM TypeCorrect == Spec => []TypeOK
<1>1. Spec => [](TypeOK /\ LocalInv)
  BY InitType, NextType, PTL DEF Spec
<1> QED
  BY <1>1, PTL

-----------------------------------------------------------------------------
(* Whoever started a container puts it down. *)

\* One lemma for the actions that hand a container from one owner to another,
\* and one for those that only go on.
LEMMA HandsOver ==
  ASSUME TypeOK, LocalInv, NothingStranded, NEW t \in Transports,
         Finish(t) \/ Stopped(t) \/ Close(t) \/ Closed(t) \/ Cancel(t)
  PROVE  NothingStranded'
<1>1. CASE Finish(t)
  BY <1>1 DEF Finish, NothingStranded, Expected, Alive, TypeOK, LocalInv, Local,
     box_vars, loose_vars
<1>2. CASE Stopped(t)
  BY <1>2, UsesAssumption DEF Stopped, Leave, Remove, Lose, NothingStranded, Expected, Alive,
     TypeOK, LocalInv, Local, box_vars
<1>3. CASE Close(t)
  BY <1>3, UsesAssumption DEF Close, Leave, NothingStranded, Expected, Alive, TypeOK,
     LocalInv, Local, box_vars, loose_vars, use_vars
<1>4. CASE Closed(t)
  BY <1>4, UsesAssumption DEF Closed, Remove, Lose, NothingStranded, Expected, Alive, TypeOK,
     LocalInv, Local, box_vars
<1>5. CASE Cancel(t)
  BY <1>5, UsesAssumption DEF Cancel, Leave, NothingStranded, Expected, Alive, TypeOK, LocalInv,
     Local, box_vars
<1> QED
  BY <1>1, <1>2, <1>3, <1>4, <1>5

LEMMA GoesOn ==
  ASSUME TypeOK, LocalInv, NothingStranded, NEW t \in Transports,
         Acquire(t) \/ NotStarted(t) \/ Renewed(t) \/ Exec(t) \/ NextExec(t)
  PROVE  NothingStranded'
<1>1. CASE Acquire(t)
  BY <1>1, UsesAssumption DEF Acquire, NothingStranded, Expected, Alive, TypeOK, LocalInv, Local,
     box_vars, loose_vars
<1>2. CASE NotStarted(t) \/ Renewed(t) \/ Exec(t) \/ NextExec(t)
  BY <1>2 DEF NotStarted, Renewed, Exec, NextExec, NothingStranded, Expected, Alive,
     TypeOK, box_vars, use_vars, loose_vars
<1> QED
  BY <1>1, <1>2

LEMMA StartsHeld ==
  ASSUME TypeOK, LocalInv, NothingStranded, NEW t \in Transports, NEW c \in Boxes,
         Started(t, c) \/ StartedAdrift(t, c)
  PROVE  NothingStranded'
<1>1. CASE Started(t, c)
  BY <1>1, UsesAssumption DEF Started, Create, Fresh, NothingStranded, Expected, Alive, TypeOK,
     LocalInv, Local, loose_vars
<1>2. CASE StartedAdrift(t, c)
  BY <1>2 DEF StartedAdrift, Create, Fresh, NothingStranded, Expected, Alive, TypeOK, use_vars
<1> QED
  BY <1>1, <1>2

LEMMA NothingLeftNext ==
  TypeOK /\ LocalInv /\ NothingStranded /\ [Next]_vars => NothingStranded'
<1> SUFFICES ASSUME TypeOK, LocalInv, NothingStranded, [Next]_vars PROVE NothingStranded'
  OBVIOUS
<1>1. ASSUME NEW t \in Transports, Use(t) PROVE NothingStranded'
  BY <1>1, HandsOver, GoesOn DEF Use
<1>2. ASSUME NEW c \in Boxes, RemovedAdrift(c) \/ Expire(c) \/ SweepOne(c)
      PROVE  NothingStranded'
  BY <1>2 DEF RemovedAdrift, Expire, Expires, SweepOne, Remove, Lose, NothingStranded, Expected,
     Alive, TypeOK, box_vars, use_vars, loose_vars
<1>3. CASE Kill
  BY <1>3 DEF Kill, NothingStranded, Expected, box_vars
<1>4. CASE Tick \/ SweepRunning \/ SweepExited \/ UNCHANGED vars
  BY <1>4 DEF Tick, SweepRunning, SweepExited, NothingStranded, Expected, Alive, vars,
     box_vars, use_vars, loose_vars
<1> QED
  BY <1>1, <1>2, <1>3, <1>4, StartsHeld DEF Next

\* Whatever order calls, cancellations, lost removals, a kill and a sweep come
\* in, a container that exists is held by a live transport that will stop it, or
\* one of the faults the module names has made it a stray.
THEOREM NothingLeft == Spec => []NothingStranded
<1>1. Init => NothingStranded
  BY DEF Init, NothingStranded
<1>2. Spec => [](TypeOK /\ LocalInv /\ NothingStranded)
  BY <1>1, InitType, NextType, NothingLeftNext, PTL DEF Spec
<1> QED
  BY <1>2, PTL

-----------------------------------------------------------------------------
(* The deadline covers the command. *)

\* A container is known to one transport, as the one of this use or the one kept.
Own(t, c) == c # None /\ c \in {at[t], held[t]}
Exclusive ==
  \A t, q \in Transports : t # q => \A c \in Boxes : ~ (Own(t, c) /\ Own(q, c))

\* What is left of a widened window covers the round trip, then the command; only
\* a build has several commands.
Covered(t) ==
  /\ use[t] # "build" => execs[t] = 1
  /\ Widened(t) /\ pc[t] = "acquired" /\ status[at[t]] = "running" =>
       deadline[at[t]] >= timer[t] + TimeoutOf(t, use[t])
  /\ Widened(t) /\ pc[t] = "running" /\ status[at[t]] = "running" =>
       deadline[at[t]] >= timer[t]
  /\ Widened(t) => ~ ExpiredUnder(t)
CoverInv == Exclusive /\ \A t \in Transports : Covered(t)

LEMMA ExclusiveUse ==
  ASSUME TypeOK, LocalInv, Exclusive, NEW t \in Transports, Use(t)
  PROVE  Exclusive'
<1> USE UsesAssumption DEF Exclusive, Own, TypeOK, LocalInv, Local
<1>1. CASE Acquire(t)
  BY <1>1 DEF Acquire
<1>2. CASE NotStarted(t) \/ Renewed(t) \/ Exec(t) \/ NextExec(t)
  BY <1>2 DEF NotStarted, Renewed, Exec, NextExec, use_vars
<1>3. CASE Finish(t)
  BY <1>3 DEF Finish
<1>4. CASE Stopped(t)
  BY <1>4 DEF Stopped
<1>5. CASE Close(t) \/ Closed(t)
  BY <1>5 DEF Close, Closed, use_vars
<1>6. CASE Cancel(t)
  BY <1>6 DEF Cancel
<1> QED
  BY <1>1, <1>2, <1>3, <1>4, <1>5, <1>6 DEF Use

LEMMA ExclusiveNext ==
  TypeOK /\ LocalInv /\ Exclusive /\ [Next]_vars => Exclusive'
<1> SUFFICES ASSUME TypeOK, LocalInv, Exclusive, [Next]_vars PROVE Exclusive'
  OBVIOUS
<1>1. ASSUME NEW t \in Transports, NEW c \in Boxes, Started(t, c) \/ StartedAdrift(t, c)
      PROVE  Exclusive'
  <2>1. CASE Started(t, c)
    BY <2>1, UsesAssumption DEF Started, Create, Fresh, Exclusive, Own, TypeOK,
       LocalInv, Local
  <2>2. CASE StartedAdrift(t, c)
    BY <2>2 DEF StartedAdrift, Exclusive, Own, use_vars
  <2> QED
    BY <1>1, <2>1, <2>2
<1>2. ASSUME NEW c \in Boxes, RemovedAdrift(c) \/ Expire(c) \/ SweepOne(c)
      PROVE  Exclusive'
  BY <1>2 DEF RemovedAdrift, Expire, SweepOne, Exclusive, Own, use_vars
<1>3. CASE Kill
  BY <1>3, UsesAssumption DEF Kill, Exclusive, Own, TypeOK
<1>4. CASE Tick \/ SweepRunning \/ SweepExited \/ UNCHANGED vars
  BY <1>4 DEF Tick, SweepRunning, SweepExited, Exclusive, Own, vars, use_vars
<1> QED
  BY <1>1, <1>2, <1>3, <1>4, ExclusiveUse DEF Next

\* The window a container starts with, and the one a renewal gives it, covers the
\* round trip and the command where it is widened.
LEMMA WideEnough ==
  ASSUME TypeOK, NEW t \in Transports, Widened(t)
  PROVE  Window(t, use[t]) \in Nat /\ Window(t, use[t]) >= Margin + TimeoutOf(t, use[t])
<1>1. use[t] \in Kinds
  BY DEF TypeOK
<1>2. /\ Timeout[t] \in Nat /\ Margin \in Nat /\ Idle \in Nat /\ Idle >= Margin
      /\ TimeoutOf(t, use[t]) \in Nat
  BY <1>1, TimesAssumption, WindowType
<1>3. CASE use[t] = "build"
  BY <1>1, <1>2, <1>3, WindowType
<1>4. CASE use[t] = "one-shot"
  BY <1>1, <1>2, <1>4, WindowType DEF Widened
<1>5. CASE use[t] \in {"checked", "kept"}
  <2>1. t \notin OptOut
    BY <1>5 DEF Widened
  <2> QED
    BY <1>1, <1>2, <1>5, <2>1, WindowType
<1> QED
  BY <1>1, <1>2, <1>3, <1>4, <1>5, WindowType DEF Kinds

LEMMA CoveredUse ==
  ASSUME TypeOK, LocalInv, CoverInv, NEW t \in Transports, Use(t), NEW q \in Transports
  PROVE  Covered(q)'
<1> USE DEF CoverInv, Covered, ExpiredUnder, Widened, TypeOK, LocalInv, Local
<1>1. Timeout[t] \in Nat /\ Margin \in Nat /\ TimeoutOf(t, use[t]) \in Nat
  BY TimesAssumption, WindowType
<1>2. CASE Acquire(t)
  BY <1>2 DEF Acquire, May, box_vars
<1>3. CASE NotStarted(t) \/ Close(t)
  BY <1>3 DEF NotStarted, Close, Leave, box_vars, use_vars
<1>4. CASE Renewed(t)
  <2>1. Window(t, use[t]) \in Nat /\ (Widened(t) => Window(t, use[t]) >= Margin + TimeoutOf(t, use[t]))
    BY WideEnough, WindowType
  <2>2. t # q => at[q] # at[t] \/ at[q] = None
    BY <1>4 DEF Exclusive, Own, Renewed
  <2>3. use[t] = "kept" /\ at[t] \in Boxes /\ pc[t] = "renewing"
    BY <1>4, UsesAssumption DEF Renewed
  <2>4. CASE q = t
    BY <1>1, <1>4, <2>1, <2>3, <2>4 DEF Renewed
  <2>5. CASE q # t
    BY <1>4, <2>2, <2>3, <2>5, UsesAssumption DEF Renewed
  <2> QED
    BY <2>4, <2>5
<1>5. CASE Exec(t)
  BY <1>1, <1>5 DEF Exec, box_vars
<1>6. CASE NextExec(t)
  BY <1>6, TimesAssumption DEF NextExec, box_vars
<1>7. CASE Finish(t)
  BY <1>7 DEF Finish, box_vars
<1>8. CASE Stopped(t)
  BY <1>8 DEF Stopped, Leave, Remove, Lose, box_vars
<1>9. CASE Closed(t)
  BY <1>9 DEF Closed, Remove, Lose, box_vars
<1>10. CASE Cancel(t)
  BY <1>10 DEF Cancel, Leave, box_vars
<1> QED
  BY <1>2, <1>3, <1>4, <1>5, <1>6, <1>7, <1>8, <1>9, <1>10, Zenon DEF Use

LEMMA CoveredNext ==
  TypeOK /\ LocalInv /\ CoverInv /\ [Next]_vars => CoverInv'
<1> SUFFICES ASSUME TypeOK, LocalInv, CoverInv, [Next]_vars, NEW q \in Transports
             PROVE  Covered(q)'
  BY ExclusiveNext DEF CoverInv
<1> USE DEF CoverInv, Covered, ExpiredUnder, Widened, TypeOK
<1>1. Timeout[q] \in Nat /\ Margin \in Nat /\ TimeoutOf(q, use[q]) \in Nat
  BY TimesAssumption, WindowType
<1>2. ASSUME NEW t \in Transports, Use(t) PROVE Covered(q)'
  BY <1>2, CoveredUse
<1>3. ASSUME NEW t \in Transports, NEW c \in Boxes, Started(t, c) PROVE Covered(q)'
  <2>1. Window(t, use[t]) \in Nat /\ (Widened(t) => Window(t, use[t]) >= Margin + TimeoutOf(t, use[t]))
    BY WideEnough, WindowType
  <2>2. CASE q = t
    BY <1>1, <1>3, <2>1, <2>2 DEF Started, Create
  <2>3. CASE q # t
    BY <1>3, <2>3 DEF Started, Create, Fresh
  <2> QED
    BY <2>2, <2>3
<1>4. ASSUME NEW t \in Transports, NEW c \in Boxes, StartedAdrift(t, c) PROVE Covered(q)'
  BY <1>4 DEF StartedAdrift, Create, Fresh, use_vars
<1>5. ASSUME NEW c \in Boxes, RemovedAdrift(c) \/ SweepOne(c) PROVE Covered(q)'
  BY <1>5 DEF RemovedAdrift, SweepOne, Remove, Lose, box_vars, use_vars
<1>6. ASSUME NEW c \in Boxes, Expire(c) PROVE Covered(q)'
  BY <1>6 DEF Expire, Expires, use_vars
<1>7. CASE Kill
  BY <1>7, UsesAssumption DEF Kill, Alive, PCs, box_vars
<1>8. CASE Tick
  <2>1. pc[q] \in {"acquired", "running"} => at[q] \in Boxes
    OBVIOUS
  <2> QED
    BY <1>1, <1>8, <2>1 DEF Tick, InTime, Roundtrips
<1>9. CASE SweepRunning \/ SweepExited \/ UNCHANGED vars
  BY <1>9 DEF SweepRunning, SweepExited, vars, box_vars, use_vars
<1> QED
  BY <1>2, <1>3, <1>4, <1>5, <1>6, <1>7, <1>8, <1>9 DEF Next

\* "A container that expired mid-evaluation": for any transports, uses, timeouts,
\* opt-outs and faults, a command within its timeout loses its container to the
\* deadline only where the window was not widened to cover it (Widened): in
\* run_one_shot with a timeout beyond the idle window, after an opt-out or a lost
\* renewal, or behind the first command of a build.
THEOREM WindowCovers == Spec => []CoversTheEvaluation
<1>1. Init => CoverInv
  BY UsesAssumption DEF Init, CoverInv, Exclusive, Covered, ExpiredUnder, Own
<1>2. TypeOK /\ LocalInv /\ CoverInv /\ [Next]_vars => CoverInv'
  BY CoveredNext
<1>3. CoverInv => CoversTheEvaluation
  BY DEF CoverInv, Covered, CoversTheEvaluation
<1>4. Spec => [](TypeOK /\ LocalInv /\ CoverInv)
  BY <1>1, <1>2, InitType, NextType, PTL DEF Spec
<1> QED
  BY <1>3, <1>4, PTL

=============================================================================
