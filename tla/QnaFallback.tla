---------------------------- MODULE QnaFallback ----------------------------
(***************************************************************************)
(* Which version of qna a group ends up with: orchestrate._group from the  *)
(* lookup in the compatibility memory to the last expression, _fall_back,  *)
(* bootstrap/compat_memory.py, and as much of the container transport as   *)
(* decides which build an evaluation really runs.                          *)
(*                                                                         *)
(* Runs are groups with one memory key -- one target -- in this process or *)
(* in several; all of them read and rewrite one file.  Versions are        *)
(* numbered in release order.  What EvaluateStream says of permits, queues *)
(* and cancellation is left out here.                                      *)
(***************************************************************************)
EXTENDS Naturals, FiniteSets, FiniteSetsExt

CONSTANTS Runs,        \* the groups that share the memory entry
          ProcessOf,   \* the process each runs in
          KeepAlive,   \* runs that may be on a container kept for several expressions
          Failing,     \* runs that may meet a failure other than "too new"
          Newest,      \* versions are 1 .. Newest
          Asked,       \* the versions a run may ask for
          Indexes,     \* what the release site may offer (see index)
          Split,       \* the known build split (Newest + 1: none)
          Runtimes,    \* the newest builds the target may be able to start
          MayAge,      \* whether the target's runtime may also get older
          MaxSteps     \* MAX_FALLBACK_STEPS

Versions == 1 .. Newest
None == 0

\* Of each version: an artifact for this target, listed without one, or an
\* artifact the release index does not list (an exact pin).
Kinds == {"artifact", "listed", "unlisted"}

\* "Runtime requirements only grow from one release to the next", and a
\* runtime too old for one build past the split is too old for all of them.
ASSUME VersionsAssumption == /\ Newest \in Nat \ {0}
                             /\ Asked \subseteq Versions
                             /\ Indexes \subseteq [Versions -> Kinds]
                             /\ \A i \in Indexes : \A v \in Asked : i[v] # "listed"
                             /\ Split \in 1 .. Newest + 1
                             /\ Runtimes \subseteq 0 .. Newest
                             /\ \A n \in Runtimes : n < Split \/ n = Newest
ASSUME RunsAssumption == /\ KeepAlive \subseteq Runs
                         /\ Failing \subseteq Runs
                         /\ MayAge \in BOOLEAN
                         /\ MaxSteps \in Nat \ {0}

VARIABLES
  index,       \* what the release site offers
  runtime,     \* the newest build the target's runtime can start
  keeps,       \* the runs whose container is kept
  aged,        \* history: it has been replaced by an older one at some time
  memory,      \* the target's entry in compat_memory.json
  pc,          \* where each run is
  requested,   \* the version asked for
  remembered,  \* the version the memory redirects to, or None
  resolved,    \* the version in use
  version,     \* _fall_back's own: where it has stepped back to
  steps,       \* releases _fall_back has stepped through
  container,   \* the version the kept container was started with, or None
  entries,     \* what a run that is about to save the memory has read of it
  first,       \* what came of the evaluation a run settled on
  result,      \* the last result the run has emitted
  doubtful     \* history: the entry was recorded after a failure other than "too new"

target_vars == <<index, runtime, keeps, aged>>
run_vars == <<requested, remembered>>
loop_vars == <<version, steps>>
memory_vars == <<memory, doubtful>>
settled_vars == <<resolved, entries, first>>
vars == <<target_vars, memory_vars, pc, run_vars, settled_vars, loop_vars, container,
          result>>

PCs == {"idle", "first", "forgetting", "older", "trying", "recording", "rest"}
Outcomes == {"ok", "too new", "failed"}
NoResult == [named |-> None, ran |-> None, outcome |-> "ok"]

-----------------------------------------------------------------------------
(* The compatibility memory. *)

Entries == [too_new : 0 .. Newest + 1, works : 0 .. Newest, expired : BOOLEAN]
NoEntry == [too_new |-> Newest + 1, works |-> None, expired |-> TRUE]

\* lookup: the version to use instead of v, if known.
Lookup(m, v) ==
  IF m.expired \/ v < m.too_new \/ m.works >= v THEN None ELSE m.works

\* Mutant: the verdict of the last run replaces the lowest one.
MergeLast(m, v) == v

\* record keeps the lowest version found too new, of an expired entry too.
Merge(m, v) == IF m.too_new < v THEN m.too_new ELSE v

-----------------------------------------------------------------------------
(* What an evaluation runs. *)

\* _acquire_container hands back the kept container, whatever version the
\* image it is asked for was prepared for.
Ran(r, v) == IF container[r] # None THEN container[r] ELSE v

\* A build starts if the runtime is new enough; a failure of another kind (the
\* connection, the engine, a missing library or interpreter) may come first.
MayCome(r, v, o) ==
  \/ o = "ok" /\ Ran(r, v) <= runtime
  \/ o = "too new" /\ Ran(r, v) > runtime
  \/ o = "failed" /\ r \in Failing

\* Mutant: a result names the version that was asked for.
NamesRequested(r, v, o) == [named |-> requested[r], ran |-> Ran(r, v), outcome |-> o]

Evaluation(r, v, o) == [named |-> v, ran |-> Ran(r, v), outcome |-> o]

\* A kept container outlives the evaluation, if it got as far as starting one.
Keep(r, v, o) ==
  \/ /\ r \in keeps
     /\ container' = [container EXCEPT ![r] = Ran(r, v)]
  \/ /\ r \notin keeps \/ o = "failed"
     /\ UNCHANGED container

-----------------------------------------------------------------------------

Init ==
  /\ index \in Indexes
  /\ runtime \in Runtimes /\ keeps \in SUBSET KeepAlive /\ aged = FALSE
  /\ memory = NoEntry
  /\ pc = [r \in Runs |-> "idle"]
  /\ requested = [r \in Runs |-> None]
  /\ remembered = [r \in Runs |-> None]
  /\ resolved = [r \in Runs |-> None]
  /\ version = [r \in Runs |-> None]
  /\ steps = [r \in Runs |-> 0]
  /\ container = [r \in Runs |-> None]
  /\ entries = [r \in Runs |-> NoEntry]
  /\ first = [r \in Runs |-> "ok"]
  /\ result = [r \in Runs |-> NoResult]
  /\ doubtful = FALSE

\* The code from reading the file to rewriting it holds no await: nothing else
\* in the same process runs in between.
Turn(r) ==
  \A q \in Runs \ {r} :
    ProcessOf[q] = ProcessOf[r] => pc[q] \notin {"forgetting", "recording"}

\* The version is resolved and looked up.  If the remembered one cannot be
\* resolved the requested one is used after all.
Begin(r) ==
  /\ pc[r] = "idle" /\ Turn(r)
  /\ \E v \in Asked :
       LET known == Lookup(memory, v)
       IN  /\ requested' = [requested EXCEPT ![r] = v]
           /\ \E w \in IF known # None /\ (r \in Failing \/ index[known] = "listed")
                       THEN {known, None} ELSE {known} :
                /\ remembered' = [remembered EXCEPT ![r] = w]
                /\ resolved' = [resolved EXCEPT ![r] = IF w = None THEN v ELSE w]
  /\ pc' = [pc EXCEPT ![r] = "first"]
  /\ UNCHANGED <<target_vars, memory_vars, entries, first, loop_vars, container, result>>

\* Version v is what the run goes on with; e, its evaluation, is what it says
\* of the first expression.  A fallback the memory did not already hold is
\* recorded: the file is read here, and written in Record.
Settle(r, v, e) ==
  /\ resolved' = [resolved EXCEPT ![r] = v]
  /\ first' = [first EXCEPT ![r] = e.outcome]
  /\ result' = [result EXCEPT ![r] = e]
  /\ IF v \notin {requested[r], remembered[r]}
     THEN /\ pc' = [pc EXCEPT ![r] = "recording"]
          /\ entries' = [entries EXCEPT ![r] = memory]
     ELSE /\ pc' = [pc EXCEPT ![r] = "rest"]
          /\ UNCHANGED entries

\* Mutant: the step back from beyond the split starts at the version itself.
FloorIgnored(v) == v

\* Where _fall_back starts: past a known split, at the split.
Floor(v) == IF v >= Split THEN Split ELSE v

\* Mutant: what the memory holds is never dropped.
NeverForgets(r) == FALSE

\* What the memory holds is dropped if it is what named a build too new.
Forgets(r) == remembered[r] # None /\ memory # NoEntry

\* The first expression, alone: it finds out whether the build starts here.
First(r) ==
  /\ pc[r] = "first" /\ Turn(r)
  /\ \E o \in Outcomes :
       /\ MayCome(r, resolved[r], o)
       /\ Keep(r, resolved[r], o)
       /\ \/ /\ o # "too new"
             /\ Settle(r, resolved[r], Evaluation(r, resolved[r], o))
             /\ UNCHANGED loop_vars
          \/ /\ o = "too new"
             /\ pc' = [pc EXCEPT ![r] = IF Forgets(r) THEN "forgetting" ELSE "older"]
             /\ result' = [result EXCEPT ![r] = Evaluation(r, resolved[r], o)]
             /\ version' = [version EXCEPT ![r] = Floor(resolved[r])]
             /\ steps' = [steps EXCEPT ![r] = 0]
             /\ entries' = IF Forgets(r) THEN [entries EXCEPT ![r] = memory] ELSE entries
             /\ UNCHANGED <<resolved, first>>
  /\ UNCHANGED <<target_vars, memory_vars, run_vars>>

\* forget's save.
Forget(r) ==
  /\ pc[r] = "forgetting"
  /\ memory' = NoEntry /\ doubtful' = FALSE
  /\ entries' = [entries EXCEPT ![r] = NoEntry]
  /\ pc' = [pc EXCEPT ![r] = "older"]
  /\ UNCHANGED <<target_vars, run_vars, resolved, first, loop_vars, container, result>>

\* previous_version: the releases listed below the one stepped back to.
Below(v) == {w \in Versions : w < v /\ index[w] \in {"artifact", "listed"}}

\* None starts: the first failure stands.
GiveUp(r) == Settle(r, resolved[r], result[r])

OutOfSteps(n) == n = MaxSteps

\* The release index cannot be read, or lists nothing older.
StepNowhere(r) ==
  /\ pc[r] = "older" /\ Turn(r)
  /\ Below(version[r]) = {} \/ r \in Failing
  /\ GiveUp(r)
  /\ UNCHANGED <<target_vars, memory_vars, run_vars, loop_vars, container>>

\* One release back.  One without an artifact counts and is skipped.
StepBack(r) ==
  /\ pc[r] = "older" /\ Turn(r)
  /\ \E older \in Below(version[r]) :
       /\ \A w \in Below(version[r]) : w <= older
       /\ version' = [version EXCEPT ![r] = older]
       /\ steps' = [steps EXCEPT ![r] = @ + 1]
       /\ \/ /\ index[older] = "artifact"
             /\ pc' = [pc EXCEPT ![r] = "trying"]
             /\ UNCHANGED <<settled_vars, result>>
          \/ /\ index[older] = "listed" \/ r \in Failing
             /\ IF OutOfSteps(steps'[r]) THEN GiveUp(r)
                ELSE UNCHANGED <<pc, settled_vars, result>>
  /\ UNCHANGED <<target_vars, memory_vars, run_vars, container>>

\* Mutant: a candidate is accepted whatever came of it.
AcceptsAny(o) == TRUE

\* `not _is_too_new(result)`: a failure of any other kind is accepted too.
Accepts(o) == o # "too new"

\* The candidate is prepared and tried.
Try(r) ==
  /\ pc[r] = "trying" /\ Turn(r)
  /\ \E o \in Outcomes :
       /\ MayCome(r, version[r], o)
       /\ Keep(r, version[r], o)
       /\ \/ /\ Accepts(o)
             /\ Settle(r, version[r], Evaluation(r, version[r], o))
          \/ /\ ~ Accepts(o) /\ OutOfSteps(steps[r])
             /\ GiveUp(r)
          \/ /\ ~ Accepts(o) /\ ~ OutOfSteps(steps[r])
             /\ pc' = [pc EXCEPT ![r] = "older"]
             /\ UNCHANGED <<settled_vars, result>>
  /\ UNCHANGED <<target_vars, memory_vars, run_vars, loop_vars>>

\* record's save.
Record(r) ==
  /\ pc[r] = "recording"
  /\ memory' = [too_new |-> Merge(entries[r], requested[r]), works |-> resolved[r],
                expired |-> FALSE]
  /\ doubtful' = (first[r] = "failed")
  /\ entries' = [entries EXCEPT ![r] = NoEntry]
  /\ pc' = [pc EXCEPT ![r] = "rest"]
  /\ UNCHANGED <<target_vars, run_vars, resolved, first, loop_vars, container, result>>

\* Another expression, with the version settled on.
More(r) ==
  /\ pc[r] = "rest" /\ Turn(r)
  /\ \E o \in Outcomes :
       /\ MayCome(r, resolved[r], o)
       /\ Keep(r, resolved[r], o)
       /\ result' = [result EXCEPT ![r] = Evaluation(r, resolved[r], o)]
  /\ UNCHANGED <<target_vars, memory_vars, pc, run_vars, settled_vars, loop_vars>>

Stopped(r) == [container EXCEPT ![r] = None]

\* The run is over and its container stopped; another may follow.
End(r) ==
  /\ pc[r] = "rest" /\ Turn(r)
  /\ pc' = [pc EXCEPT ![r] = "idle"]
  /\ requested' = [requested EXCEPT ![r] = None]
  /\ remembered' = [remembered EXCEPT ![r] = None]
  /\ resolved' = [resolved EXCEPT ![r] = None]
  /\ version' = [version EXCEPT ![r] = None]
  /\ steps' = [steps EXCEPT ![r] = 0]
  /\ container' = Stopped(r)
  /\ entries' = [entries EXCEPT ![r] = NoEntry]
  /\ first' = [first EXCEPT ![r] = "ok"]
  /\ result' = [result EXCEPT ![r] = NoResult]
  /\ UNCHANGED <<target_vars, memory_vars>>

\* The entry's time is up.
Expire ==
  /\ ~ memory.expired
  /\ memory' = [memory EXCEPT !.expired = TRUE]
  /\ UNCHANGED <<target_vars, doubtful, pc, run_vars, settled_vars, loop_vars, container,
                 result>>

\* The target's image or host changes, between runs.
Change ==
  /\ \A r \in Runs : pc[r] = "idle"
  /\ \E n \in Runtimes : /\ n > runtime \/ (MayAge /\ n < runtime)
                         /\ runtime' = n /\ aged' = (aged \/ n < runtime)
  /\ UNCHANGED <<index, keeps, memory_vars, pc, run_vars, settled_vars, loop_vars, container,
                 result>>

Next ==
  \/ \E r \in Runs :
       \/ Begin(r) \/ First(r) \/ Forget(r) \/ StepNowhere(r) \/ StepBack(r)
       \/ Try(r) \/ Record(r) \/ More(r) \/ End(r)
  \/ Expire \/ Change

Spec == Init /\ [][Next]_vars

-----------------------------------------------------------------------------
(* Properties. *)

TypeOK ==
  /\ index \in Indexes
  /\ runtime \in Runtimes /\ keeps \subseteq KeepAlive /\ aged \in BOOLEAN
  /\ memory \in Entries /\ doubtful \in BOOLEAN
  /\ pc \in [Runs -> PCs]
  /\ requested \in [Runs -> Asked \cup {None}]
  /\ remembered \in [Runs -> 0 .. Newest]
  /\ resolved \in [Runs -> 0 .. Newest]
  /\ version \in [Runs -> 0 .. Newest]
  /\ steps \in [Runs -> 0 .. MaxSteps]
  /\ container \in [Runs -> 0 .. Newest]
  /\ entries \in [Runs -> Entries]
  /\ first \in [Runs -> Outcomes]
  /\ result \in [Runs -> [named : 0 .. Newest, ran : 0 .. Newest, outcome : Outcomes]]

\* "qna_version (what actually ran)": an answer always names the version that
\* gave it.  Only a failure may name another, and only on a container kept for
\* several expressions: that of a candidate which, for another reason than being
\* too new, failed in the container of the build before it.
NamesWhatRan ==
  \A r \in Runs : pc[r] = "rest" /\ result[r].named # result[r].ran =>
                    r \in keeps /\ result[r].outcome # "ok"

\* The releases listed below v, or below the split if v is past it.
Older(v) == {w \in Versions : /\ w < v /\ (v >= Split => w < Split)
                              /\ index[w] \in {"artifact", "listed"}}

\* A run settles on the newest older build that starts, of those in reach.
FallsBack(r) ==
  pc[r] = "rest" =>
    LET from    == IF remembered[r] = None THEN requested[r] ELSE remembered[r]
        starts  == {w \in 1 .. from - 1 : index[w] = "artifact" /\ w <= runtime}
        inReach == {w \in starts : Cardinality({x \in Older(from) : x > w}) < MaxSteps}
    IN  resolved[r] = IF from > runtime /\ inReach # {} THEN Max(starts) ELSE from

\* "The run steps back to the newest older release whose build does start
\* there", of those it may step through, the MaxSteps newest: no build that
\* starts is passed over (the split's shortcut skips none, a release without an
\* artifact hides none behind it), and a build that does not start is settled
\* on only if none in reach does.
FallsBackToNewest == \A r \in Runs \ (Failing \cup keeps) : FallsBack(r)

\* The same of a run on a container kept for several expressions.
FallsBackWhenKept == \A r \in keeps \ Failing : FallsBack(r)

\* What the memory sends later runs to -- "the version that worked" -- starts
\* on the target, as long as the target's runtime is not replaced by an older
\* one, unless the run that recorded it saw it fail in another way.
RememberedWorks == ~ aged /\ ~ doubtful => memory.works <= runtime

\* r saves what it made of the memory it has read.
Saves(r) == pc[r] \in {"forgetting", "recording"} /\ pc'[r] # pc[r]

\* A run of another process has saved since.
Overtaken(r) == /\ \E q \in Runs : ProcessOf[q] # ProcessOf[r]
                /\ [entries[r] EXCEPT !.expired = memory.expired] # memory

\* It was itself sent to a build that does not start, or had only a failure of
\* another kind to go by.
Misled(r) == IF pc[r] = "forgetting" THEN remembered[r] > runtime ELSE first[r] = "failed"

\* Of every version that does not start: a run that would be sent to one that
\* works still is afterwards.
KeepsVerdicts(excused) ==
  \A v \in Versions :
    v > runtime /\ Lookup(memory, v) \in 1 .. runtime =>
      Lookup(memory', v) \in 1 .. runtime \/ memory'.expired \/ excused

\* "Only the first run pays for the failed attempt": a redirect that works is
\* not lost to what another run writes or drops, unless that run was overtaken
\* by one of another process between its read and its save, or misled; it ends
\* by expiring.
VerdictsKept ==
  [][KeepsVerdicts(\E r \in Runs : Saves(r) /\ (Overtaken(r) \/ Misled(r)))]_memory

\* The redirect r was given failed in a way that says nothing of the build.
NothingLearnt(r) == resolved[r] = remembered[r] /\ first[r] = "failed"

\* "If the remembered version itself stops starting, the entry is dropped and
\* the fallback runs again": once a run that was redirected has settled, the
\* memory sends nobody to a build that does not start, whatever other runs
\* dropped or recorded meanwhile, unless a failure of another kind hid it.
HealsAfterUse ==
  \A r \in Runs : pc[r] = "rest" /\ remembered[r] # None =>
                    memory.works <= runtime \/ doubtful \/ NothingLearnt(r)
=============================================================================
