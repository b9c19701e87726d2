------------------------- MODULE ContainerLifecycle -------------------------
(***************************************************************************)
(* The containers a run starts, from docker run to docker rm: the container*)
(* transport's use of the engine (transports/container.py), the deadline   *)
(* every container carries, and what becomes of one when its task is       *)
(* cancelled, a removal is lost, or the process is killed.                 *)
(*                                                                         *)
(* A transport belongs to one group, which uses it for one thing at a time.*)
(* The engine's calls run in threads: a cancelled task stops waiting for   *)
(* its call, but the call goes on.  Time passes in Ticks of the deadlines' *)
(* unit; a container stops itself when its deadline has come.              *)
(***************************************************************************)
EXTENDS Naturals

CONSTANTS Transports,     \* the container transports of the process
          Boxes,          \* the containers that may come to exist
          None,           \* no container
          Uses,           \* what each transport uses containers for
          OptOut,         \* transports built with idle_ttl_s=None
          Timeout,        \* each transport's timeout_s
          BuildTimeout,   \* _BUILD_TIMEOUT_S
          BuildExecs,     \* the commands a build may come to run
          Idle,           \* DEFAULT_IDLE_TTL_S
          Margin,         \* _DEADLINE_MARGIN_S
          MaxUses,        \* bound: the uses of each transport
          MayMissRenewal, \* whether a renewal may fail on a running container
          MayReclaim      \* whether reclaim_stray_containers may be called

\* A platform probe or an evaluation in a container of its own (run_one_shot),
\* an evaluation whose platform is checked first, one in the container kept for
\* the batch, and the build of a prepared image.
Kinds == {"one-shot", "checked", "kept", "build"}

ASSUME UsesAssumption == /\ Uses \in [Transports -> SUBSET Kinds]
                         /\ OptOut \subseteq Transports
                         /\ None \notin Boxes
ASSUME TimesAssumption == /\ Timeout \in [Transports -> Nat]
                          /\ BuildTimeout \in Nat /\ BuildExecs \in Nat \ {0}
                          /\ Idle \in Nat /\ Margin \in 0 .. Idle /\ MaxUses \in Nat
                          /\ MayMissRenewal \in BOOLEAN /\ MayReclaim \in BOOLEAN

VARIABLES
  status,    \* of each container
  deadline,  \* the time it has left
  pc,        \* where each transport is
  use,       \* what it is using a container for
  at,        \* the container of the use under way
  held,      \* _container_id: the container kept for the batch
  execs,     \* commands left to run in a build
  timer,     \* what the running command, or the round trip before it, may still take
  missed,    \* transports whose last renewal did not reach the container
  uses,      \* uses so far
  ending,    \* whether its task has been cancelled
  adrift,    \* transports whose start nobody waits for any more
  fading,    \* containers whose removal nobody waits for any more
  stray,     \* containers nobody is going to remove
  sweep,     \* how far reclaim_stray_containers is
  sweeping   \* the containers it has listed and not yet removed

box_vars == <<status, deadline>>
use_vars == <<use, at, held, execs, timer, missed, uses>>
loose_vars == <<adrift, fading, stray>>
sweep_vars == <<sweep, sweeping>>
vars == <<box_vars, pc, use_vars, ending, loose_vars, sweep_vars>>

Statuses == {"none", "running", "exited"}
PCs == {"ready", "starting", "renewing", "acquired", "running", "stopping",
        "closing", "closed", "dead"}

-----------------------------------------------------------------------------

Larger(a, b) == IF a > b THEN a ELSE b

\* _build_prepared_image raises the timeout of its commands.
TimeoutOf(t, k) ==
  IF k = "build" THEN Larger(Timeout[t], BuildTimeout) ELSE Timeout[t]

\* Mutant: the window does not take the evaluation into account.
IdleOnly(t, k) == Idle

\* ttl_s: what _deadline_for widens, what a build asks for, and the engine's
\* own where nothing is passed.
Window(t, k) ==
  IF k = "build" THEN TimeoutOf(t, k) + Idle
  ELSE IF k = "one-shot" \/ t \in OptOut THEN Idle
  ELSE Larger(Idle, Timeout[t] + Margin)

Alive(t) == pc[t] \notin {"closed", "dead"}

Init ==
  /\ status = [c \in Boxes |-> "none"]
  /\ deadline = [c \in Boxes |-> 0]
  /\ pc = [t \in Transports |-> "ready"]
  /\ use = [t \in Transports |-> "one-shot"]
  /\ at = [t \in Transports |-> None]
  /\ held = [t \in Transports |-> None]
  /\ execs = [t \in Transports |-> 1]
  /\ timer = [t \in Transports |-> 0]
  /\ missed = {}
  /\ uses = [t \in Transports |-> 0]
  /\ ending = [t \in Transports |-> FALSE]
  /\ adrift = {} /\ fading = {} /\ stray = {}
  /\ sweep = "no" /\ sweeping = {}

-----------------------------------------------------------------------------
(* One use of a container. *)

\* The platform is probed in a container of its own only while none is kept.
May(t, k) == k \in Uses[t] /\ (k = "one-shot" => held[t] = None)

\* Something to run: a kept container is renewed, otherwise one is started.
Acquire(t) ==
  /\ pc[t] = "ready" /\ uses[t] < MaxUses
  /\ \E k \in Kinds :
       /\ May(t, k)
       /\ use' = [use EXCEPT ![t] = k]
       /\ execs' = [execs EXCEPT ![t] = IF k = "build" THEN BuildExecs ELSE 1]
       /\ IF k = "kept" /\ held[t] # None
          THEN /\ pc' = [pc EXCEPT ![t] = "renewing"]
               /\ at' = [at EXCEPT ![t] = held[t]]
               /\ timer' = [timer EXCEPT ![t] = Margin]
          ELSE /\ pc' = [pc EXCEPT ![t] = "starting"]
               /\ UNCHANGED <<at, timer>>
  /\ missed' = missed \ {t}
  /\ uses' = [uses EXCEPT ![t] = @ + 1]
  /\ UNCHANGED <<box_vars, held, ending, loose_vars, sweep_vars>>

\* An id is not used again; a name stands for another container once nobody
\* knows the container it stood for.
Fresh(c) ==
  /\ status[c] = "none" /\ c \notin fading \cup sweeping
  /\ \A t \in Transports : c \notin {at[t], held[t]}

\* The daemon creates and starts a container, its deadline already set.
Create(t, c) ==
  /\ Fresh(c)
  /\ status' = [status EXCEPT ![c] = "running"]
  /\ deadline' = [deadline EXCEPT ![c] = Window(t, use[t])]

Started(t, c) ==
  /\ pc[t] = "starting"
  /\ Create(t, c)
  /\ pc' = [pc EXCEPT ![t] = "acquired"]
  /\ at' = [at EXCEPT ![t] = c]
  /\ held' = IF use[t] = "kept" THEN [held EXCEPT ![t] = c] ELSE held
  /\ timer' = [timer EXCEPT ![t] = Margin]
  /\ UNCHANGED <<use, execs, missed, uses, ending, loose_vars, sweep_vars>>

\* The engine cannot be reached, the image is not there: an error result.
NotStarted(t) ==
  /\ pc[t] = "starting"
  /\ pc' = [pc EXCEPT ![t] = "ready"]
  /\ UNCHANGED <<box_vars, use_vars, ending, loose_vars, sweep_vars>>

\* renew is an exec like any other: it needs a running container.  That it
\* failed is not looked at.
Renewed(t) ==
  /\ pc[t] = "renewing"
  /\ \/ /\ status[at[t]] = "running"
        /\ deadline' = [deadline EXCEPT ![at[t]] = Window(t, use[t])]
        /\ UNCHANGED missed
     \/ /\ status[at[t]] # "running" \/ MayMissRenewal
        /\ missed' = missed \cup {t}
        /\ UNCHANGED deadline
  /\ pc' = [pc EXCEPT ![t] = "acquired"]
  /\ timer' = [timer EXCEPT ![t] = Margin]
  /\ UNCHANGED <<status, use, at, held, execs, uses, ending,
                 loose_vars, sweep_vars>>

\* The command: qna, the platform probe, a step of the build.
Exec(t) ==
  /\ pc[t] = "acquired" /\ status[at[t]] = "running"
  /\ pc' = [pc EXCEPT ![t] = "running"]
  /\ timer' = [timer EXCEPT ![t] = TimeoutOf(t, use[t])]
  /\ UNCHANGED <<box_vars, use, at, held, execs, missed, uses, ending, loose_vars,
                 sweep_vars>>

\* A build probes, installs and probes again.
NextExec(t) ==
  /\ pc[t] = "running" /\ execs[t] > 1
  /\ pc' = [pc EXCEPT ![t] = "acquired"]
  /\ execs' = [execs EXCEPT ![t] = @ - 1]
  /\ timer' = [timer EXCEPT ![t] = Margin]
  /\ UNCHANGED <<box_vars, use, at, held, missed, uses, ending, loose_vars, sweep_vars>>

\* It has answered, failed, or run into its timeout; or the platform was not
\* what was said, or the container is gone.  A container of this use's own is
\* stopped in the finally block.
Finish(t) ==
  /\ pc[t] \in {"acquired", "running"}
  /\ IF use[t] = "kept"
     THEN /\ pc' = [pc EXCEPT ![t] = "ready"]
          /\ at' = [at EXCEPT ![t] = None]
     ELSE /\ pc' = [pc EXCEPT ![t] = "stopping"]
          /\ UNCHANGED at
  /\ timer' = [timer EXCEPT ![t] = 0]
  /\ UNCHANGED <<box_vars, use, held, execs, missed, uses, ending, loose_vars, sweep_vars>>

-----------------------------------------------------------------------------
(* The end. *)

\* Mutant: the transport is dropped without aclose.
NeverCloses(t) == "closed"

\* _release: aclose stops the container kept, if there is one.
Leave(t) == IF held[t] = None THEN "closed" ELSE "closing"

Remove(c) ==
  /\ status' = [status EXCEPT ![c] = "none"]
  /\ deadline' = [deadline EXCEPT ![c] = 0]
  /\ stray' = stray \ {c}

Lose(c) ==
  /\ status[c] # "none"
  /\ stray' = stray \cup {c}
  /\ UNCHANGED box_vars

\* stop: the container is removed, or, after the last retry, it is not and
\* there is a warning.
Stopped(t) ==
  /\ pc[t] = "stopping"
  /\ Remove(at[t]) \/ Lose(at[t])
  /\ pc' = [pc EXCEPT ![t] = IF ending[t] THEN Leave(t) ELSE "ready"]
  /\ at' = [at EXCEPT ![t] = None]
  /\ UNCHANGED <<use, held, execs, timer, missed, uses, ending,
                 adrift, fading, sweep_vars>>

\* The group is done with its transport.
Close(t) ==
  /\ pc[t] = "ready"
  /\ pc' = [pc EXCEPT ![t] = Leave(t)]
  /\ UNCHANGED <<box_vars, use_vars, ending, loose_vars, sweep_vars>>

Closed(t) ==
  /\ pc[t] = "closing"
  /\ Remove(held[t]) \/ Lose(held[t])
  /\ pc' = [pc EXCEPT ![t] = "closed"]
  /\ held' = [held EXCEPT ![t] = None]
  /\ UNCHANGED <<use, at, execs, timer, missed, uses, ending,
                 adrift, fading, sweep_vars>>

\* The group's task is cancelled, wherever it is: a call under way is left to
\* itself, and the finally blocks take over.
Cancel(t) ==
  /\ Alive(t) /\ ~ ending[t]
  /\ ending' = [ending EXCEPT ![t] = TRUE]
  /\ \/ /\ pc[t] = "ready"
        /\ pc' = [pc EXCEPT ![t] = Leave(t)]
        /\ UNCHANGED <<at, held, adrift, fading>>
     \/ /\ pc[t] = "starting"
        /\ adrift' = adrift \cup {t}
        /\ pc' = [pc EXCEPT ![t] = Leave(t)]
        /\ UNCHANGED <<at, held, fading>>
     \/ /\ pc[t] \in {"renewing", "acquired", "running"}
        /\ IF use[t] = "kept"
           THEN /\ pc' = [pc EXCEPT ![t] = Leave(t)]
                /\ at' = [at EXCEPT ![t] = None]
           ELSE /\ pc' = [pc EXCEPT ![t] = "stopping"]
                /\ UNCHANGED at
        /\ UNCHANGED <<held, adrift, fading>>
     \/ /\ pc[t] = "stopping"
        /\ fading' = fading \cup {at[t]}
        /\ pc' = [pc EXCEPT ![t] = Leave(t)]
        /\ at' = [at EXCEPT ![t] = None]
        /\ UNCHANGED <<held, adrift>>
     \/ /\ pc[t] = "closing"
        /\ fading' = fading \cup {held[t]}
        /\ pc' = [pc EXCEPT ![t] = "closed"]
        /\ held' = [held EXCEPT ![t] = None]
        /\ UNCHANGED <<at, adrift>>
  /\ timer' = [timer EXCEPT ![t] = 0]
  /\ UNCHANGED <<box_vars, use, execs, missed, uses, stray, sweep_vars>>

\* The process is killed; a call the daemon has already been sent goes on.
Kill ==
  /\ \E t \in Transports : Alive(t)
  /\ pc' = [t \in Transports |-> IF Alive(t) THEN "dead" ELSE pc[t]]
  /\ at' = [t \in Transports |-> None]
  /\ held' = [t \in Transports |-> None]
  /\ adrift' = adrift \cup {t \in Transports : pc[t] = "starting"}
  /\ timer' = [t \in Transports |-> 0]
  /\ stray' = stray \cup {c \in Boxes : status[c] # "none"}
  /\ UNCHANGED <<box_vars, use, execs, missed, uses, ending, fading, sweep_vars>>

-----------------------------------------------------------------------------
(* Calls nobody waits for, and time. *)

\* A container comes to be that nobody knows of.
StartedAdrift(t, c) ==
  /\ t \in adrift
  /\ Create(t, c)
  /\ adrift' = adrift \ {t}
  /\ stray' = stray \cup {c}
  /\ UNCHANGED <<pc, use_vars, ending, fading, sweep_vars>>

\* A retry is up to the task: a transient fault now loses the removal.
RemovedAdrift(c) ==
  /\ c \in fading
  /\ fading' = fading \ {c}
  /\ Remove(c) \/ Lose(c)
  /\ UNCHANGED <<pc, use_vars, ending, adrift, sweep_vars>>

\* asyncio.wait_for: a command does not outlast its timeout.
InTime(t) == pc[t] = "running" => timer[t] > 0

Roundtrips == {"renewing", "acquired"}

\* The round trips before a command do not take longer than the margin.
Tick ==
  /\ \A t \in Transports : InTime(t) /\ (pc[t] \in Roundtrips => timer[t] > 0)
  /\ deadline' = [c \in Boxes |-> IF status[c] = "running" /\ deadline[c] > 0
                                  THEN deadline[c] - 1 ELSE deadline[c]]
  /\ timer' = [t \in Transports |-> IF pc[t] \in Roundtrips \cup {"running"}
                                    THEN timer[t] - 1 ELSE timer[t]]
  /\ UNCHANGED <<status, pc, use, at, held, execs, missed, uses, ending, loose_vars,
                 sweep_vars>>

\* Mutant: PID 1 is `sleep infinity`.
SleepsForever(c) == FALSE

\* PID 1's loop ends when the deadline is past.
Expires(c) == status[c] = "running" /\ deadline[c] = 0

Expire(c) ==
  /\ Expires(c)
  /\ status' = [status EXCEPT ![c] = "exited"]
  /\ UNCHANGED <<deadline, pc, use_vars, ending, loose_vars, sweep_vars>>

-----------------------------------------------------------------------------
(* reclaim_stray_containers, called in another process. *)

\* list_managed: every running container of ours.
SweepRunning ==
  /\ MayReclaim /\ sweep = "no"
  /\ sweep' = "running"
  /\ sweeping' = {c \in Boxes : status[c] = "running"}
  /\ UNCHANGED <<box_vars, pc, use_vars, ending, loose_vars>>

SweepOne(c) ==
  /\ c \in sweeping
  /\ Remove(c) \/ Lose(c)
  /\ sweeping' = sweeping \ {c}
  /\ UNCHANGED <<pc, use_vars, ending, adrift, fading, sweep>>

\* prune_expired.
SweepExited ==
  /\ sweep = "running" /\ sweeping = {}
  /\ sweep' = "exited"
  /\ sweeping' = {c \in Boxes : status[c] = "exited"}
  /\ UNCHANGED <<box_vars, pc, use_vars, ending, loose_vars>>

-----------------------------------------------------------------------------

Use(t) ==
  \/ Acquire(t) \/ NotStarted(t) \/ Renewed(t) \/ Exec(t) \/ NextExec(t) \/ Finish(t)
  \/ Stopped(t) \/ Close(t) \/ Closed(t) \/ Cancel(t)

Next ==
  \/ \E t \in Transports : Use(t) \/ \E c \in Boxes : Started(t, c) \/ StartedAdrift(t, c)
  \/ \E c \in Boxes : RemovedAdrift(c) \/ Expire(c) \/ SweepOne(c)
  \/ Kill \/ Tick \/ SweepRunning \/ SweepExited

Spec == Init /\ [][Next]_vars

\* Time passes, deadlines are kept, and a command ends by its timeout.
Fairness ==
  /\ WF_vars(Tick)
  /\ \A c \in Boxes : WF_vars(Expire(c))
  /\ \A t \in Transports : WF_vars(Renewed(t)) /\ WF_vars(Finish(t))

FairSpec == Spec /\ Fairness

-----------------------------------------------------------------------------
(* Properties. *)

TypeOK ==
  /\ status \in [Boxes -> Statuses]
  /\ deadline \in [Boxes -> Nat]
  /\ pc \in [Transports -> PCs]
  /\ use \in [Transports -> Kinds]
  /\ at \in [Transports -> Boxes \cup {None}]
  /\ held \in [Transports -> Boxes \cup {None}]
  /\ execs \in [Transports -> 0 .. BuildExecs]
  /\ timer \in [Transports -> Nat]
  /\ missed \subseteq Transports
  /\ uses \in [Transports -> 0 .. MaxUses]
  /\ ending \in [Transports -> BOOLEAN]
  /\ adrift \subseteq Transports /\ fading \subseteq Boxes /\ stray \subseteq Boxes
  /\ sweep \in {"no", "running", "exited"} /\ sweeping \subseteq Boxes
  /\ \A t \in Transports :
       pc[t] \in {"renewing", "acquired", "running", "stopping"} => at[t] # None

\* Whether the window of the use under way takes its command into account: that
\* of an evaluation in a container kept or checked does unless the transport
\* opted out or a renewal was missed, that of a build does for its first command,
\* and that of run_one_shot, which passes none, only if the idle window happens to.
Widened(t) ==
  CASE use[t] = "one-shot" -> Timeout[t] + Margin <= Idle
    [] use[t] = "build"    -> execs[t] = BuildExecs
    [] OTHER               -> t \notin OptOut \cup missed

\* The container of a command that is within its timeout has expired.
ExpiredUnder(t) == pc[t] = "running" /\ timer[t] > 0 /\ status[at[t]] = "exited"

\* "A container that expired mid-evaluation": it happens to a command only where
\* the window was not widened to cover it, whatever else is cancelled, lost,
\* killed or swept meanwhile.
CoversTheEvaluation == \A t \in Transports : Widened(t) => ~ ExpiredUnder(t)

\* "Whoever kept it puts it down": a container that still exists is somebody's,
\* who will remove it; or its removal is under way or was lost, or it came to be
\* after its task had gone, or the process was killed.
Expected(c) ==
  \/ c \in stray \cup fading
  \/ \E t \in Transports : /\ Alive(t)
                           /\ c \in {at[t], held[t]}
NothingStranded ==
  \A c \in Boxes : status[c] # "none" => Expected(c)

\* "Whatever the host process fails to clean up, the container cleans up
\* itself."
StraysStop ==
  \A c \in Boxes : c \in stray /\ status[c] = "running" ~> status[c] # "running"
=============================================================================
