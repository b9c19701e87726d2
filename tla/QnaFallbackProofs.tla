------------------------- MODULE QnaFallbackProofs -------------------------
(***************************************************************************)
(* What QnaFallback's runs show on five releases, for any release index,   *)
(* any number of runs and of processes, and whatever fails.                *)
(***************************************************************************)
EXTENDS QnaFallback, FiniteSetTheorems, TLAPS

\* A run that has a step back before it has not used them up.
LoopInv == \A r \in Runs : pc[r] \in {"forgetting", "older"} => steps[r] < MaxSteps

LEMMA ConstantFacts ==
  /\ Newest \in Nat /\ Newest >= 1
  /\ Versions = 1 .. Newest
  /\ Asked \subseteq Versions
  /\ Split \in 1 .. Newest + 1
  /\ MaxSteps \in Nat /\ MaxSteps >= 1
  /\ None = 0
<1> QED
  BY VersionsAssumption, RunsAssumption DEF Versions, None

USE DEF None

Result == [named : 0 .. Newest, ran : 0 .. Newest, outcome : Outcomes]

LEMMA TypeFacts ==
  ASSUME TypeOK, NEW r \in Runs
  PROVE  /\ runtime \in 0 .. Newest
         /\ requested[r] \in 0 .. Newest /\ remembered[r] \in 0 .. Newest
         /\ resolved[r] \in 0 .. Newest /\ container[r] \in 0 .. Newest
         /\ version[r] \in 0 .. Newest /\ result[r] \in Result
         /\ first[r] \in Outcomes
         /\ memory.too_new \in 0 .. Newest + 1 /\ memory.works \in 0 .. Newest
         /\ memory.expired \in BOOLEAN
         /\ entries[r].too_new \in 0 .. Newest + 1
<1>1. Asked \cup {None} \subseteq 0 .. Newest
  BY ConstantFacts
<1> QED
  BY <1>1, VersionsAssumption DEF TypeOK, Result, Entries

\* What comes of an evaluation, and which container is kept afterwards.
LEMMA EvaluationType ==
  ASSUME TypeOK, NEW r \in Runs, NEW v \in 0 .. Newest, NEW o \in Outcomes
  PROVE  Ran(r, v) \in 0 .. Newest /\ Evaluation(r, v, o) \in Result
<1>1. Ran(r, v) \in 0 .. Newest
  BY TypeFacts DEF Ran
<1> QED
  BY <1>1 DEF Evaluation, Result

LEMMA KeepType ==
  ASSUME TypeOK, NEW r \in Runs, NEW v \in 0 .. Newest, NEW o \in Outcomes, Keep(r, v, o)
  PROVE  /\ container' \in [Runs -> 0 .. Newest]
         /\ \A q \in Runs : q # r => container'[q] = container[q]
         /\ container'[r] \in {container[r], Ran(r, v)}
<1>1. Ran(r, v) \in 0 .. Newest /\ container \in [Runs -> 0 .. Newest]
  BY EvaluationType DEF TypeOK
<1> QED
  BY <1>1 DEF Keep

LEMMA SettleType ==
  ASSUME TypeOK, NEW r \in Runs, NEW v \in 0 .. Newest, NEW e \in Result, Settle(r, v, e)
  PROVE  /\ pc' \in [Runs -> PCs]
         /\ resolved' \in [Runs -> 0 .. Newest]
         /\ entries' \in [Runs -> Entries] /\ first' \in [Runs -> Outcomes]
         /\ result' \in [Runs -> Result]
<1>1. /\ pc \in [Runs -> PCs] /\ resolved \in [Runs -> 0 .. Newest]
      /\ entries \in [Runs -> Entries] /\ first \in [Runs -> Outcomes]
      /\ result \in [Runs -> Result] /\ memory \in Entries /\ e.outcome \in Outcomes
  BY DEF TypeOK, Result
<1>2. pc' \in [Runs -> PCs]
  BY <1>1 DEF Settle, PCs
<1>3. entries' \in [Runs -> Entries]
  <2>1. entries' \in {entries, [entries EXCEPT ![r] = memory]}
    BY DEF Settle
  <2> QED
    BY <1>1, <2>1
<1> QED
  BY <1>1, <1>2, <1>3 DEF Settle

LEMMA InitType == Init => TypeOK
<1> SUFFICES ASSUME Init PROVE TypeOK
  OBVIOUS
<1>1. NoEntry \in Entries
  BY ConstantFacts DEF NoEntry, Entries
<1>2. NoResult \in Result /\ "ok" \in Outcomes /\ 0 \in 0 .. Newest /\ 0 \in 0 .. MaxSteps
  BY ConstantFacts DEF NoResult, Result, Outcomes
<1> QED
  BY <1>1, <1>2 DEF Init, TypeOK, PCs, Result

LEMMA BeginType == ASSUME TypeOK, NEW r \in Runs, Begin(r) PROVE TypeOK'
<1>1. PICK v \in Asked, w \in 0 .. Newest :
        /\ w \in {Lookup(memory, v), None}
        /\ requested' = [requested EXCEPT ![r] = v]
        /\ remembered' = [remembered EXCEPT ![r] = w]
        /\ resolved' = [resolved EXCEPT ![r] = IF w = None THEN v ELSE w]
  <2>1. \A x \in Asked : Lookup(memory, x) \in 0 .. Newest /\ None \in 0 .. Newest
    BY TypeFacts, ConstantFacts DEF Lookup
  <2> QED
    BY <2>1 DEF Begin
<1>2. v \in 0 .. Newest /\ w \in 0 .. Newest
  BY <1>1, TypeFacts, ConstantFacts DEF Lookup
<1>3. pc' \in [Runs -> PCs]
  BY DEF Begin, TypeOK, PCs
<1>4. UNCHANGED <<index, runtime, keeps, aged, memory, doubtful, version, steps, container,
                  entries, first, result>>
  BY DEF Begin, target_vars, memory_vars, loop_vars
<1> QED
  BY <1>1, <1>2, <1>3, <1>4 DEF TypeOK

LEMMA FirstType == ASSUME TypeOK, NEW r \in Runs, First(r) PROVE TypeOK'
<1>1. PICK o \in Outcomes :
        /\ Keep(r, resolved[r], o)
        /\ \/ /\ Settle(r, resolved[r], Evaluation(r, resolved[r], o))
              /\ UNCHANGED loop_vars
           \/ /\ pc' = [pc EXCEPT ![r] = IF Forgets(r) THEN "forgetting" ELSE "older"]
              /\ result' = [result EXCEPT ![r] = Evaluation(r, resolved[r], o)]
              /\ version' = [version EXCEPT ![r] = Floor(resolved[r])]
              /\ steps' = [steps EXCEPT ![r] = 0]
              /\ entries' \in {entries, [entries EXCEPT ![r] = memory]}
              /\ UNCHANGED <<resolved, first>>
  BY DEF First
<1>2. /\ resolved[r] \in 0 .. Newest
      /\ Evaluation(r, resolved[r], o) \in Result
      /\ container' \in [Runs -> 0 .. Newest]
      /\ Floor(resolved[r]) \in 0 .. Newest
      /\ 0 \in 0 .. MaxSteps
  <2>1. resolved[r] \in 0 .. Newest
    BY TypeFacts
  <2>2. Evaluation(r, resolved[r], o) \in Result
    BY <2>1, EvaluationType
  <2>3. container' \in [Runs -> 0 .. Newest]
    BY <1>1, <2>1, KeepType
  <2> QED
    BY <2>1, <2>2, <2>3, ConstantFacts DEF Floor
<1>3. UNCHANGED <<index, runtime, keeps, aged, memory, doubtful, requested, remembered>>
  BY DEF First, target_vars, memory_vars, run_vars
<1>4. CASE Settle(r, resolved[r], Evaluation(r, resolved[r], o)) /\ UNCHANGED loop_vars
  <2>1. /\ pc' \in [Runs -> PCs] /\ resolved' \in [Runs -> 0 .. Newest]
        /\ entries' \in [Runs -> Entries] /\ first' \in [Runs -> Outcomes]
        /\ result' \in [Runs -> Result]
    BY <1>2, <1>4, SettleType
  <2> QED
    BY <1>2, <1>3, <1>4, <2>1 DEF TypeOK, loop_vars, Result
<1>5. CASE ~ (Settle(r, resolved[r], Evaluation(r, resolved[r], o)) /\ UNCHANGED loop_vars)
  <2>1. /\ pc' = [pc EXCEPT ![r] = IF Forgets(r) THEN "forgetting" ELSE "older"]
        /\ result' = [result EXCEPT ![r] = Evaluation(r, resolved[r], o)]
        /\ version' = [version EXCEPT ![r] = Floor(resolved[r])]
        /\ steps' = [steps EXCEPT ![r] = 0]
        /\ entries' \in {entries, [entries EXCEPT ![r] = memory]}
        /\ UNCHANGED <<resolved, first>>
    BY <1>1, <1>5
  <2>2. pc' \in [Runs -> PCs]
    BY <2>1 DEF TypeOK, PCs
  <2>3. result' \in [Runs -> Result]
    BY <1>2, <2>1 DEF TypeOK, Result
  <2>4. entries' \in [Runs -> Entries]
    BY <2>1 DEF TypeOK
  <2> QED
    BY <1>2, <1>3, <2>1, <2>2, <2>3, <2>4 DEF TypeOK, Result
<1> QED
  BY <1>4, <1>5

LEMMA StepType ==
  ASSUME TypeOK, LoopInv, NEW r \in Runs, StepNowhere(r) \/ StepBack(r) \/ Try(r)
  PROVE  TypeOK'
<1>1. result[r] \in Result /\ resolved[r] \in 0 .. Newest /\ version[r] \in 0 .. Newest
  BY TypeFacts
<1>2. UNCHANGED <<index, runtime, keeps, aged, memory, doubtful, requested, remembered>>
  BY DEF StepNowhere, StepBack, Try, target_vars, memory_vars, run_vars
<1>3. CASE StepNowhere(r)
  <2>1. /\ pc' \in [Runs -> PCs] /\ resolved' \in [Runs -> 0 .. Newest]
        /\ entries' \in [Runs -> Entries] /\ first' \in [Runs -> Outcomes]
        /\ result' \in [Runs -> Result]
    BY <1>1, <1>3, SettleType DEF StepNowhere, GiveUp
  <2>2. UNCHANGED <<version, steps, container>>
    BY <1>3 DEF StepNowhere, loop_vars
  <2> QED
    BY <1>2, <2>1, <2>2 DEF TypeOK, Result
<1>4. CASE Try(r)
  <2>1. PICK o \in Outcomes :
          /\ Keep(r, version[r], o)
          /\ \/ Settle(r, version[r], Evaluation(r, version[r], o))
             \/ Settle(r, resolved[r], result[r])
             \/ /\ pc' = [pc EXCEPT ![r] = "older"]
                /\ UNCHANGED <<settled_vars, result>>
    BY <1>4 DEF Try, GiveUp
  <2>2. Evaluation(r, version[r], o) \in Result /\ container' \in [Runs -> 0 .. Newest]
    BY <1>1, <2>1, EvaluationType, KeepType
  <2>3. /\ pc' \in [Runs -> PCs] /\ resolved' \in [Runs -> 0 .. Newest]
        /\ entries' \in [Runs -> Entries] /\ first' \in [Runs -> Outcomes]
        /\ result' \in [Runs -> Result]
    <3>1. CASE Settle(r, version[r], Evaluation(r, version[r], o))
      BY <1>1, <2>2, <3>1, SettleType
    <3>2. CASE Settle(r, resolved[r], result[r])
      BY <1>1, <3>2, SettleType
    <3>3. CASE /\ pc' = [pc EXCEPT ![r] = "older"]
               /\ UNCHANGED <<settled_vars, result>>
      BY <3>3 DEF TypeOK, PCs, Result, settled_vars
    <3> QED
      BY <2>1, <3>1, <3>2, <3>3
  <2>4. UNCHANGED <<version, steps>>
    BY <1>4 DEF Try, loop_vars
  <2> QED
    BY <1>2, <2>2, <2>3, <2>4 DEF TypeOK, Result
<1>5. CASE StepBack(r)
  <2>1. PICK older \in Below(version[r]) :
          /\ version' = [version EXCEPT ![r] = older]
          /\ steps' = [steps EXCEPT ![r] = @ + 1]
          /\ \/ /\ pc' = [pc EXCEPT ![r] = "trying"]
                /\ UNCHANGED <<settled_vars, result>>
             \/ IF OutOfSteps(steps'[r]) THEN GiveUp(r)
                ELSE UNCHANGED <<pc, settled_vars, result>>
    BY <1>5 DEF StepBack
  <2>2. older \in 0 .. Newest
    BY ConstantFacts DEF Below
  <2>3. UNCHANGED container
    BY <1>5 DEF StepBack
  <2>4. steps[r] < MaxSteps
    BY <1>5 DEF StepBack, LoopInv
  <2>5. steps' \in [Runs -> 0 .. MaxSteps]
    <3>1. steps \in [Runs -> 0 .. MaxSteps] /\ steps[r] + 1 \in 0 .. MaxSteps
      BY <2>4, ConstantFacts DEF TypeOK
    <3> QED
      BY <2>1, <3>1
  <2>6. /\ pc' \in [Runs -> PCs] /\ resolved' \in [Runs -> 0 .. Newest]
        /\ entries' \in [Runs -> Entries] /\ first' \in [Runs -> Outcomes]
        /\ result' \in [Runs -> Result]
    <3>1. CASE GiveUp(r)
      BY <1>1, <3>1, SettleType DEF GiveUp
    <3>2. CASE ~ GiveUp(r)
      BY <2>1, <3>2 DEF TypeOK, PCs, Result, settled_vars
    <3> QED
      BY <3>1, <3>2
  <2> QED
    BY <1>2, <2>1, <2>2, <2>3, <2>5, <2>6 DEF TypeOK, Result
<1> QED
  BY <1>3, <1>4, <1>5

LEMMA OtherType ==
  ASSUME TypeOK, NEW r \in Runs, Forget(r) \/ Record(r) \/ More(r) \/ End(r)
  PROVE  TypeOK'
<1>1. CASE Forget(r)
  <2>1. NoEntry \in Entries
    BY ConstantFacts DEF NoEntry, Entries
  <2> QED
    BY <1>1, <2>1 DEF Forget, TypeOK, PCs, target_vars, run_vars, loop_vars
<1>2. CASE Record(r)
  <2>1. Merge(entries[r], requested[r]) \in 0 .. Newest + 1
    BY TypeFacts, ConstantFacts DEF Merge
  <2>2. memory' \in Entries /\ NoEntry \in Entries
    BY <1>2, <2>1, TypeFacts, ConstantFacts DEF Record, Entries, NoEntry
  <2> QED
    BY <1>2, <2>2 DEF Record, TypeOK, PCs, target_vars, run_vars, loop_vars
<1>3. CASE More(r)
  <2>1. PICK o \in Outcomes :
          /\ Keep(r, resolved[r], o)
          /\ result' = [result EXCEPT ![r] = Evaluation(r, resolved[r], o)]
    BY <1>3 DEF More
  <2>2. Evaluation(r, resolved[r], o) \in Result /\ container' \in [Runs -> 0 .. Newest]
    BY <2>1, TypeFacts, EvaluationType, KeepType
  <2>3. result' \in [Runs -> Result]
    BY <2>1, <2>2 DEF TypeOK, Result
  <2> QED
    BY <1>3, <2>2, <2>3 DEF More, TypeOK, Result, target_vars, memory_vars, run_vars,
                               settled_vars, loop_vars
<1>4. CASE End(r)
  <2>1. NoResult \in Result /\ 0 \in 0 .. Newest /\ 0 \in 0 .. MaxSteps
        /\ NoEntry \in Entries /\ "ok" \in Outcomes
    BY ConstantFacts DEF NoResult, Result, Outcomes, NoEntry, Entries
  <2> QED
    BY <1>4, <2>1 DEF End, Stopped, TypeOK, PCs, Result, target_vars, memory_vars
<1> QED
  BY <1>1, <1>2, <1>3, <1>4

LEMMA TypeStep == ASSUME TypeOK, LoopInv, [Next]_vars PROVE TypeOK'
<1>1. CASE \E r \in Runs :
             \/ Begin(r) \/ First(r) \/ Forget(r) \/ StepNowhere(r) \/ StepBack(r)
             \/ Try(r) \/ Record(r) \/ More(r) \/ End(r)
  BY <1>1, BeginType, FirstType, StepType, OtherType
<1>2. CASE Expire
  BY <1>2 DEF Expire, TypeOK, Entries, target_vars, run_vars, settled_vars, loop_vars
<1>3. CASE Change
  BY <1>3 DEF Change, TypeOK, memory_vars, run_vars, settled_vars, loop_vars
<1>4. CASE UNCHANGED vars
  BY <1>4 DEF vars, TypeOK, target_vars, memory_vars, run_vars, settled_vars, loop_vars
<1> QED
  BY <1>1, <1>2, <1>3, <1>4 DEF Next

\* No run but the one that steps changes, in any action.
LEMMA OthersStay ==
  ASSUME TypeOK, NEW r \in Runs, NEW q \in Runs, q # r,
         \/ Begin(r) \/ First(r) \/ Forget(r) \/ StepNowhere(r) \/ StepBack(r)
         \/ Try(r) \/ Record(r) \/ More(r) \/ End(r)
  PROVE  /\ pc'[q] = pc[q] /\ requested'[q] = requested[q]
         /\ remembered'[q] = remembered[q] /\ resolved'[q] = resolved[q]
         /\ version'[q] = version[q] /\ steps'[q] = steps[q]
         /\ container'[q] = container[q] /\ first'[q] = first[q]
         /\ entries'[q] = entries[q] /\ result'[q] = result[q]
<1>1. CASE Begin(r)
  BY <1>1 DEF Begin, TypeOK, loop_vars
<1>2. CASE First(r)
  <2>1. PICK o \in Outcomes :
          /\ Keep(r, resolved[r], o)
          /\ \/ Settle(r, resolved[r], Evaluation(r, resolved[r], o)) /\ UNCHANGED loop_vars
             \/ /\ pc' = [pc EXCEPT ![r] = IF Forgets(r) THEN "forgetting" ELSE "older"]
                /\ result' = [result EXCEPT ![r] = Evaluation(r, resolved[r], o)]
                /\ version' = [version EXCEPT ![r] = Floor(resolved[r])]
                /\ steps' = [steps EXCEPT ![r] = 0]
                /\ entries' \in {entries, [entries EXCEPT ![r] = memory]}
                /\ UNCHANGED <<resolved, first>>
    BY <1>2 DEF First
  <2>2. container'[q] = container[q] /\ UNCHANGED <<requested, remembered>>
    BY <1>2, <2>1 DEF First, Keep, run_vars, TypeOK
  <2>3. CASE Settle(r, resolved[r], Evaluation(r, resolved[r], o)) /\ UNCHANGED loop_vars
    BY <2>2, <2>3 DEF Settle, TypeOK, loop_vars
  <2>4. CASE /\ pc' = [pc EXCEPT ![r] = IF Forgets(r) THEN "forgetting" ELSE "older"]
             /\ result' = [result EXCEPT ![r] = Evaluation(r, resolved[r], o)]
             /\ version' = [version EXCEPT ![r] = Floor(resolved[r])]
             /\ steps' = [steps EXCEPT ![r] = 0]
             /\ entries' \in {entries, [entries EXCEPT ![r] = memory]}
             /\ UNCHANGED <<resolved, first>>
    <3>1. entries'[q] = entries[q]
      BY <2>4 DEF TypeOK
    <3> QED
      BY <2>2, <2>4, <3>1 DEF TypeOK
  <2> QED
    BY <2>1, <2>3, <2>4
<1>3. CASE StepNowhere(r) \/ StepBack(r)
  BY <1>3 DEF StepNowhere, StepBack, GiveUp, Settle, TypeOK, loop_vars, run_vars,
              settled_vars
<1>4. CASE Try(r)
  BY <1>4 DEF Try, GiveUp, Settle, Keep, TypeOK, loop_vars, run_vars, settled_vars
<1>5. CASE Forget(r) \/ Record(r) \/ More(r) \/ End(r)
  BY <1>5 DEF Forget, Record, More, End, Stopped, Keep, TypeOK, loop_vars, run_vars,
              settled_vars
<1> QED
  BY <1>1, <1>2, <1>3, <1>4, <1>5

LEMMA LoopStep == ASSUME TypeOK, LoopInv, [Next]_vars PROVE LoopInv'
<1> SUFFICES ASSUME NEW q \in Runs, pc'[q] \in {"forgetting", "older"}
             PROVE  steps'[q] < MaxSteps
  BY DEF LoopInv
<1>1. ASSUME NEW r \in Runs,
             \/ Begin(r) \/ First(r) \/ Forget(r) \/ StepNowhere(r) \/ StepBack(r)
             \/ Try(r) \/ Record(r) \/ More(r) \/ End(r)
      PROVE  steps'[q] < MaxSteps
  <2>1. CASE q # r
    BY <1>1, <2>1, OthersStay DEF LoopInv
  <2>2. CASE q = r /\ First(r)
    <3>1. pc[r] = "first" /\ (UNCHANGED loop_vars \/ steps' = [steps EXCEPT ![r] = 0])
      BY <2>2 DEF First
    <3>2. CASE UNCHANGED loop_vars /\ steps' # [steps EXCEPT ![r] = 0]
      <4>1. PICK o \in Outcomes : Settle(r, resolved[r], Evaluation(r, resolved[r], o))
        BY <2>2, <3>2 DEF First
      <4>2. pc'[r] \in {"recording", "rest"}
        BY <4>1 DEF Settle, TypeOK
      <4> QED
        BY <2>2, <4>2
    <3>3. CASE steps' = [steps EXCEPT ![r] = 0]
      BY <2>2, <3>3, ConstantFacts DEF TypeOK
    <3> QED
      BY <3>1, <3>2, <3>3
  <2>3. CASE q = r /\ StepBack(r)
    <3>1. /\ pc[r] = "older" /\ steps' = [steps EXCEPT ![r] = @ + 1]
          /\ \/ pc' = [pc EXCEPT ![r] = "trying"]
             \/ IF OutOfSteps(steps'[r]) THEN GiveUp(r) ELSE UNCHANGED pc
      BY <2>3 DEF StepBack
    <3>2. steps[r] \in Nat /\ steps'[r] = steps[r] + 1 /\ steps[r] < MaxSteps
      BY <3>1, ConstantFacts DEF TypeOK, LoopInv
    <3>3. CASE GiveUp(r)
      BY <2>3, <3>3 DEF GiveUp, Settle, TypeOK
    <3>4. CASE ~ GiveUp(r)
      BY <2>3, <3>1, <3>2, <3>4, ConstantFacts DEF OutOfSteps, TypeOK
    <3> QED
      BY <3>3, <3>4
  <2>4. CASE q = r /\ Try(r)
    <3>1. \/ \E v, e : Settle(r, v, e)
          \/ pc' = [pc EXCEPT ![r] = "older"] /\ ~ OutOfSteps(steps[r])
      BY <2>4 DEF Try, GiveUp
    <3>2. steps' = steps /\ steps[r] \in 0 .. MaxSteps
      BY <2>4 DEF Try, loop_vars, TypeOK
    <3>3. CASE \E v, e : Settle(r, v, e)
      BY <2>4, <3>3 DEF Settle, TypeOK
    <3>4. CASE ~ OutOfSteps(steps[r])
      BY <2>4, <3>2, <3>4, ConstantFacts DEF OutOfSteps
    <3> QED
      BY <3>1, <3>3, <3>4
  <2>5. CASE q = r /\ (Begin(r) \/ StepNowhere(r) \/ Record(r) \/ More(r) \/ End(r))
    BY <2>5 DEF Begin, StepNowhere, GiveUp, Settle, Record, More, End, Stopped, TypeOK
  <2>6. CASE q = r /\ Forget(r)
    BY <2>6 DEF Forget, TypeOK, loop_vars, LoopInv
  <2> QED
    BY <1>1, <2>1, <2>2, <2>3, <2>4, <2>5, <2>6
<1>2. CASE Expire \/ Change \/ UNCHANGED vars
  BY <1>2 DEF Expire, Change, vars, LoopInv, loop_vars
<1> QED
  BY <1>1, <1>2 DEF Next

\* A run steps back through at most MaxSteps releases, and every version it
\* uses, remembers or records is one there is, whatever fails.
THEOREM TypeCorrect == Spec => []TypeOK
<1>1. Init => TypeOK /\ LoopInv
  BY InitType DEF Init, LoopInv
<1>2. TypeOK /\ LoopInv /\ [Next]_vars => (TypeOK /\ LoopInv)'
  BY TypeStep, LoopStep
<1> QED
  BY <1>1, <1>2, PTL DEF Spec

-----------------------------------------------------------------------------
(* RememberedWorks.                                                        *)

\* While it is not settled, a run goes on with what it asked for or was
\* redirected to, and a container it kept holds a build that is too new; what
\* a run is about to record starts on the target if it was seen to, and what it
\* is about to drop misled it.
Unsettled(r) == pc[r] \in {"first", "forgetting", "older", "trying"}
RunWorks(r) ==
  /\ Unsettled(r) => resolved[r] \in {requested[r], remembered[r]}
  /\ pc[r] = "first" /\ remembered[r] # None => resolved[r] = remembered[r]
  /\ pc[r] \in {"idle", "first"} => container[r] = None
  /\ Unsettled(r) /\ container[r] # None => container[r] > runtime
  /\ pc[r] = "forgetting" => remembered[r] > runtime
  /\ pc[r] = "trying" => version[r] \in Versions
  /\ pc[r] = "recording" /\ first[r] # "failed" => resolved[r] \in 1 .. runtime

LEMMA SettleWorks ==
  ASSUME TypeOK, NEW r \in Runs, NEW v, NEW e, Settle(r, v, e),
         v \in {requested[r], remembered[r]} \/ v \in 1 .. runtime \/ e.outcome = "failed",
         UNCHANGED runtime
  PROVE  RunWorks(r)'
<1>1. /\ pc'[r] \in {"recording", "rest"} /\ resolved'[r] = v
      /\ first'[r] = e.outcome
  BY DEF Settle, TypeOK
<1>2. pc'[r] = "recording" => v \notin {requested[r], remembered[r]}
  BY DEF Settle, TypeOK
<1> QED
  BY <1>1, <1>2 DEF RunWorks, Unsettled

LEMMA StepWorks ==
  ASSUME TypeOK, NEW r \in Runs, RunWorks(r), RememberedWorks,
         \/ Begin(r) \/ First(r) \/ Forget(r) \/ StepNowhere(r) \/ StepBack(r)
         \/ Try(r) \/ Record(r) \/ More(r) \/ End(r)
  PROVE  RunWorks(r)' /\ RememberedWorks'
<1>1. /\ runtime' = runtime /\ aged' = aged /\ runtime \in 0 .. Newest
      /\ UNCHANGED memory_vars \/ Forget(r) \/ Record(r)
  BY TypeFacts DEF Begin, First, Forget, StepNowhere, StepBack, Try, Record, More, End,
                   target_vars
<1>2. CASE Begin(r)
  <2>1. /\ pc'[r] = "first" /\ resolved'[r] \in {requested'[r], remembered'[r]}
        /\ remembered'[r] # None => resolved'[r] = remembered'[r]
    BY <1>2 DEF Begin, TypeOK
  <2>2. container'[r] = None
    BY <1>2 DEF Begin, RunWorks
  <2> QED
    BY <1>1, <1>2, <2>1, <2>2 DEF RunWorks, Unsettled, RememberedWorks, Begin, memory_vars
<1>3. CASE First(r)
  <2>1. PICK o \in Outcomes :
          /\ MayCome(r, resolved[r], o)
          /\ Keep(r, resolved[r], o)
          /\ \/ Settle(r, resolved[r], Evaluation(r, resolved[r], o))
             \/ /\ o = "too new"
                /\ pc' = [pc EXCEPT ![r] = IF Forgets(r) THEN "forgetting" ELSE "older"]
                /\ UNCHANGED resolved
    BY <1>3 DEF First
  <2>2. /\ pc[r] = "first" /\ container[r] = None /\ UNCHANGED <<memory, doubtful>>
        /\ resolved[r] \in {requested[r], remembered[r]}
        /\ remembered[r] # None => resolved[r] = remembered[r]
        /\ requested' = requested /\ remembered' = remembered
    BY <1>3 DEF First, RunWorks, Unsettled, run_vars, memory_vars
  <2>3. CASE Settle(r, resolved[r], Evaluation(r, resolved[r], o))
    BY <1>1, <2>2, <2>3, SettleWorks DEF RememberedWorks
  <2>4. CASE o = "too new" /\ UNCHANGED resolved /\
             pc' = [pc EXCEPT ![r] = IF Forgets(r) THEN "forgetting" ELSE "older"]
    <3>1. Ran(r, resolved[r]) > runtime
      BY <2>1, <2>4 DEF MayCome
    <3>2. container'[r] \in {None, Ran(r, resolved[r])}
      BY <2>1, <2>2, TypeFacts, KeepType
    <3>3. /\ pc'[r] \in {"forgetting", "older"}
          /\ pc'[r] = "forgetting" => remembered[r] # None
      BY <2>4 DEF TypeOK, Forgets
    <3>4. Ran(r, resolved[r]) = resolved[r]
      BY <2>2 DEF Ran
    <3> QED
      BY <1>1, <2>2, <2>4, <3>1, <3>2, <3>3, <3>4 DEF RunWorks, Unsettled, RememberedWorks
  <2> QED
    BY <2>1, <2>3, <2>4
<1>4. CASE StepNowhere(r)
  BY <1>1, <1>4, SettleWorks DEF StepNowhere, GiveUp, RunWorks, Unsettled, RememberedWorks,
                                 memory_vars
<1>5. CASE StepBack(r)
  <2>1. /\ pc[r] = "older" /\ UNCHANGED <<memory, doubtful, container, run_vars>>
        /\ \/ /\ pc' = [pc EXCEPT ![r] = "trying"] /\ UNCHANGED resolved
              /\ \E older \in Versions : version' = [version EXCEPT ![r] = older]
           \/ GiveUp(r)
           \/ UNCHANGED <<pc, resolved>>
    BY <1>5 DEF StepBack, Below, memory_vars, settled_vars
  <2>2. CASE GiveUp(r)
    BY <1>1, <2>1, <2>2, SettleWorks DEF GiveUp, RunWorks, Unsettled, RememberedWorks
  <2>3. CASE /\ pc' = [pc EXCEPT ![r] = "trying"] /\ UNCHANGED resolved
             /\ \E older \in Versions : version' = [version EXCEPT ![r] = older]
    <3>1. version'[r] \in Versions /\ pc'[r] = "trying"
      BY <2>3 DEF TypeOK
    <3> QED
      BY <1>1, <2>1, <2>3, <3>1 DEF RunWorks, Unsettled, RememberedWorks, run_vars
  <2>4. CASE UNCHANGED <<pc, resolved>>
    BY <1>1, <2>1, <2>4 DEF RunWorks, Unsettled, RememberedWorks, run_vars
  <2> QED
    BY <2>1, <2>2, <2>3, <2>4
<1>6. CASE Try(r)
  <2>1. PICK o \in Outcomes :
          /\ MayCome(r, version[r], o)
          /\ Keep(r, version[r], o)
          /\ \/ o # "too new" /\ Settle(r, version[r], Evaluation(r, version[r], o))
             \/ Settle(r, resolved[r], result[r])
             \/ /\ o = "too new"
                /\ pc' = [pc EXCEPT ![r] = "older"]
                /\ UNCHANGED resolved
    BY <1>6 DEF Try, Accepts, GiveUp, settled_vars
  <2>2. /\ Unsettled(r) /\ UNCHANGED <<memory, doubtful>>
        /\ requested' = requested /\ remembered' = remembered
        /\ version[r] \in Versions /\ version[r] \in 0 .. Newest
        /\ container[r] \in 0 .. Newest
    BY <1>6, TypeFacts DEF Try, Unsettled, RunWorks, run_vars, memory_vars
  <2>3. CASE o # "too new" /\ Settle(r, version[r], Evaluation(r, version[r], o))
    <3>1. o = "failed" \/ Ran(r, version[r]) <= runtime
      BY <2>1, <2>3 DEF MayCome
    <3>2. o = "failed" \/ version[r] <= runtime
      BY <1>1, <2>2, <3>1 DEF RunWorks, Ran
    <3>3. Evaluation(r, version[r], o).outcome = "failed" \/ version[r] \in 1 .. runtime
      BY <1>1, <2>2, <3>2, ConstantFacts DEF Evaluation
    <3> QED
      BY <1>1, <2>2, <2>3, <3>3, SettleWorks DEF RememberedWorks
  <2>4. CASE Settle(r, resolved[r], result[r])
    BY <1>1, <2>2, <2>4, SettleWorks DEF RunWorks, RememberedWorks
  <2>5. CASE o = "too new" /\ pc' = [pc EXCEPT ![r] = "older"] /\ UNCHANGED resolved
    <3>1. Ran(r, version[r]) > runtime
      BY <2>1, <2>5 DEF MayCome
    <3>2. container'[r] \in {container[r], Ran(r, version[r])}
      BY <2>1, <2>2, KeepType
    <3>3. pc'[r] = "older"
      BY <2>5 DEF TypeOK
    <3> QED
      BY <1>1, <2>2, <2>5, <3>1, <3>2, <3>3 DEF RunWorks, Unsettled, RememberedWorks
  <2> QED
    BY <2>1, <2>3, <2>4, <2>5
<1>7. CASE Record(r)
  <2>1. first[r] # "failed" => memory'.works <= runtime
    BY <1>1, <1>7 DEF Record, RunWorks
  <2>2. pc'[r] = "rest" /\ (doubtful' <=> first[r] = "failed")
    BY <1>7 DEF Record, TypeOK
  <2> QED
    BY <1>1, <2>1, <2>2 DEF RunWorks, Unsettled, RememberedWorks
<1>8. CASE Forget(r)
  BY <1>1, <1>8 DEF Forget, NoEntry, RunWorks, Unsettled, RememberedWorks, TypeOK, run_vars
<1>9. CASE More(r) \/ End(r)
  <2>1. pc'[r] \in {"rest", "idle"} /\ UNCHANGED <<memory, doubtful>>
    BY <1>9 DEF More, End, Stopped, TypeOK, memory_vars
  <2>2. pc'[r] = "idle" => container'[r] = None
    BY <1>9 DEF More, End, Stopped, TypeOK
  <2> QED
    BY <1>1, <2>1, <2>2 DEF RunWorks, Unsettled, RememberedWorks
<1> QED
  BY <1>2, <1>3, <1>4, <1>5, <1>6, <1>7, <1>8, <1>9

WorksInv == RememberedWorks /\ \A r \in Runs : RunWorks(r)

LEMMA NextWorks ==
  ASSUME TypeOK, WorksInv, [Next]_vars
  PROVE  WorksInv'
<1>1. ASSUME NEW r \in Runs,
             \/ Begin(r) \/ First(r) \/ Forget(r) \/ StepNowhere(r) \/ StepBack(r)
             \/ Try(r) \/ Record(r) \/ More(r) \/ End(r)
      PROVE  WorksInv'
  <2>1. RunWorks(r)' /\ RememberedWorks'
    BY <1>1, StepWorks DEF WorksInv
  <2>2. runtime' = runtime
    BY <1>1 DEF Begin, First, Forget, StepNowhere, StepBack, Try, Record, More, End,
                target_vars
  <2>3. \A q \in Runs : q # r => RunWorks(q)'
    BY <1>1, <2>2, OthersStay DEF WorksInv, RunWorks, Unsettled
  <2> QED
    BY <2>1, <2>3 DEF WorksInv
<1>2. CASE Change
  <2>1. /\ runtime \in 0 .. Newest /\ runtime' \in 0 .. Newest
        /\ ~ aged' => ~ aged /\ runtime' > runtime
        /\ memory.works \in 0 .. Newest
    BY <1>2, VersionsAssumption DEF Change, TypeOK, Entries
  <2>2. \A r \in Runs : pc[r] = "idle" /\ container[r] = None
    BY <1>2 DEF Change, WorksInv, RunWorks
  <2> QED
    BY <1>2, <2>1, <2>2 DEF Change, memory_vars, WorksInv, RememberedWorks, RunWorks, Unsettled
<1>3. CASE Expire
  <2>1. /\ memory'.works = memory.works
        /\ UNCHANGED <<runtime, aged, doubtful, pc, resolved, first, version, container,
                       run_vars>>
    BY <1>3 DEF Expire, TypeOK, Entries, target_vars, settled_vars, loop_vars
  <2> QED
    BY <2>1 DEF WorksInv, RememberedWorks, RunWorks, Unsettled, run_vars
<1>4. CASE UNCHANGED vars
  BY <1>4 DEF vars, WorksInv, RememberedWorks, RunWorks, Unsettled, run_vars, target_vars,
              memory_vars, settled_vars, loop_vars
<1> QED
  BY <1>1, <1>2, <1>3, <1>4 DEF Next

\* The version the memory sends later runs to is one that starts, until the
\* target's runtime gets older, for any number of processes and whatever fails,
\* unless the run that recorded it saw it fail otherwise.
THEOREM WhatIsRememberedWorks == Spec => []RememberedWorks
<1>1. Init => TypeOK /\ LoopInv /\ WorksInv
  <2>1. ASSUME Init PROVE WorksInv
    <3>1. runtime \in 0 .. Newest
      BY <2>1, VersionsAssumption DEF Init
    <3> QED
      BY <2>1, <3>1 DEF Init, NoEntry, WorksInv, RememberedWorks, RunWorks, Unsettled
  <2> QED
    BY <2>1, InitType DEF Init, LoopInv
<1>2. TypeOK /\ LoopInv /\ WorksInv /\ [Next]_vars => (TypeOK /\ LoopInv /\ WorksInv)'
  BY TypeStep, LoopStep, NextWorks
<1>3. WorksInv => RememberedWorks
  BY DEF WorksInv
<1> QED
  BY <1>1, <1>2, <1>3, PTL DEF Spec

-----------------------------------------------------------------------------
(* FallsBackToNewest, where no container is kept.                          *)

From(r) == IF remembered[r] = None THEN requested[r] ELSE remembered[r]
Starts(v) == {w \in 1 .. v - 1 : index[w] = "artifact" /\ w <= runtime}
InReach(v) == {w \in Starts(v) : Cardinality({x \in Older(v) : x > w}) < MaxSteps}
Wanted(v) == IF v > runtime /\ InReach(v) # {} THEN Max(Starts(v)) ELSE v

\* What n steps back from v have behind them when they have come to w: the
\* releases from w up, one step each.
Passed(v, w) == {x \in Older(v) : x >= w}
Looked(v, w, n) ==
  v \in Versions /\ v > runtime /\ w <= Floor(v) /\ n = Cardinality(Passed(v, w))

RunFallsBack(r) ==
  /\ container[r] = None
  /\ pc[r] # "idle" => From(r) \in Versions
  /\ Unsettled(r) => resolved[r] = From(r)
  /\ pc[r] \in {"forgetting", "older"} =>
       /\ Looked(From(r), version[r], steps[r])
       /\ Passed(From(r), version[r]) \cap Starts(From(r)) = {}
  /\ pc[r] = "trying" =>
       /\ Looked(From(r), version[r], steps[r])
       /\ Passed(From(r), version[r]) \cap Starts(From(r)) \subseteq {version[r]}
       /\ version[r] \in Older(From(r)) /\ index[version[r]] = "artifact"
  /\ pc[r] \in {"recording", "rest"} => resolved[r] = Wanted(From(r))

LEMMA OlderFacts ==
  ASSUME NEW v \in Versions
  PROVE  /\ Older(v) = Below(Floor(v))
         /\ Older(v) \subseteq Versions
         /\ IsFiniteSet(Older(v))
<1>1. Older(v) = Below(Floor(v))
  BY ConstantFacts DEF Older, Below, Floor
<1>2. Older(v) \subseteq 1 .. Newest
  BY ConstantFacts DEF Older
<1>3. IsFiniteSet(1 .. Newest)
  BY ConstantFacts, FS_Interval
<1> QED
  BY <1>1, <1>2, <1>3, ConstantFacts, FS_Subset

LEMMA StartsFacts ==
  ASSUME TypeOK, NEW v \in Versions, v > runtime
  PROVE  Starts(v) \subseteq Older(v)
<1> SUFFICES ASSUME NEW w \in Starts(v) PROVE w \in Older(v)
  OBVIOUS
<1>1. /\ w \in 1 .. v - 1 /\ index[w] = "artifact" /\ w <= runtime
      /\ runtime \in 0 .. Newest
  BY TypeFacts, VersionsAssumption DEF Starts, TypeOK
<1>2. runtime < Split
  BY <1>1, VersionsAssumption, ConstantFacts DEF TypeOK
<1> QED
  BY <1>1, <1>2, ConstantFacts DEF Older

\* None in reach starts when there is no step left, or nowhere to step.
LEMMA GiveUpRight ==
  ASSUME TypeOK, NEW v, NEW w \in 0 .. Newest, NEW n \in 0 .. MaxSteps, Looked(v, w, n),
         Passed(v, w) \cap Starts(v) = {}, n = MaxSteps \/ Below(w) = {}
  PROVE  Wanted(v) = v
<1> SUFFICES ASSUME NEW y \in InReach(v) PROVE FALSE
  BY DEF Wanted
<1>1. v \in Versions /\ v > runtime /\ n = Cardinality(Passed(v, w))
  BY DEF Looked
<1>2. y \in Starts(v) /\ y \in Older(v) /\ index[y] = "artifact" /\ y \in Versions
  BY <1>1, StartsFacts, OlderFacts DEF InReach, Starts
<1>3. y < w
  BY <1>2, ConstantFacts DEF Passed
<1>4. y \in Below(w)
  BY <1>2, <1>3 DEF Below
<1>5. Passed(v, w) \subseteq {x \in Older(v) : x > y}
  BY <1>1, <1>2, <1>3, OlderFacts, ConstantFacts DEF Passed
<1>6. IsFiniteSet({x \in Older(v) : x > y})
  BY <1>1, OlderFacts, FS_Subset
<1>7. Cardinality(Passed(v, w)) <= Cardinality({x \in Older(v) : x > y})
  BY <1>5, <1>6, FS_Subset
<1>8. /\ Cardinality({x \in Older(v) : x > y}) < MaxSteps
      /\ Cardinality({x \in Older(v) : x > y}) \in Nat
  BY <1>6, FS_CardinalityType DEF InReach
<1> QED
  BY <1>1, <1>4, <1>7, <1>8, ConstantFacts

LEMMA MaxIs ==
  ASSUME NEW S, NEW w \in S, \A y \in S : y <= w /\ y \in Int
  PROVE  Max(S) = w
<1>1. \A y \in S : w >= y
  OBVIOUS
<1>2. Max(S) \in S /\ \A y \in S : Max(S) >= y
  BY <1>1 DEF Max
<1> QED
  BY <1>1, <1>2

\* A release that starts, with none that does behind it, is the newest.
LEMMA AcceptRight ==
  ASSUME TypeOK, NEW v, NEW w \in 0 .. Newest, NEW n \in 0 .. MaxSteps, Looked(v, w, n),
         Passed(v, w) \cap Starts(v) \subseteq {w}, w \in Older(v),
         index[w] = "artifact", w <= runtime
  PROVE  Wanted(v) = w
<1>1. v \in Versions /\ v > runtime /\ n = Cardinality(Passed(v, w))
  BY DEF Looked
<1>2. w \in Starts(v) /\ w \in Passed(v, w)
  BY <1>1, ConstantFacts DEF Starts, Older, Passed
<1>3. \A y \in Starts(v) : y <= w /\ y \in Int
  BY <1>1, StartsFacts, ConstantFacts DEF Passed, Starts
<1>4. Max(Starts(v)) = w
  BY <1>2, <1>3, MaxIs
<1>5. {x \in Older(v) : x > w} = Passed(v, w) \ {w}
  BY <1>1, OlderFacts, ConstantFacts DEF Passed
<1>6. IsFiniteSet(Passed(v, w))
  BY <1>1, OlderFacts, FS_Subset DEF Passed
<1>7. Cardinality({x \in Older(v) : x > w}) = n - 1
  BY <1>1, <1>2, <1>5, <1>6, FS_RemoveElement
<1>8. w \in InReach(v)
  BY <1>2, <1>7, ConstantFacts DEF InReach
<1> QED
  BY <1>1, <1>4, <1>8 DEF Wanted

\* One step back passes one release.
LEMMA StepPasses ==
  ASSUME TypeOK, NEW v, NEW w \in 0 .. Newest, NEW n \in 0 .. MaxSteps, Looked(v, w, n),
         NEW y \in Below(w), \A x \in Below(w) : x <= y
  PROVE  /\ Looked(v, y, n + 1)
         /\ Passed(v, y) = Passed(v, w) \cup {y}
         /\ y \in Older(v)
<1>1. v \in Versions /\ v > runtime /\ n = Cardinality(Passed(v, w)) /\ w <= Floor(v)
  BY DEF Looked
<1>2. y \in Versions /\ y < w /\ Floor(v) \in Nat
  BY <1>1, ConstantFacts DEF Below, Floor
<1>3. y \in Older(v)
  <2>1. y \in Below(Floor(v))
    BY <1>1, <1>2, ConstantFacts DEF Below
  <2> QED
    BY <1>1, <2>1, OlderFacts
<1>4. Passed(v, y) = Passed(v, w) \cup {y}
  <2>1. ASSUME NEW x \in Older(v), x >= y, ~ (x >= w) PROVE x = y
    <3>1. x \in Below(w)
      BY <1>1, <2>1, OlderFacts, ConstantFacts DEF Older, Below
    <3> QED
      BY <1>1, <1>2, <2>1, <3>1, OlderFacts, ConstantFacts
  <2>2. \A x \in Older(v) : x >= w => x >= y
    BY <1>1, <1>2, OlderFacts, ConstantFacts
  <2> QED
    BY <1>2, <1>3, <2>1, <2>2, ConstantFacts DEF Passed
<1>5. y \notin Passed(v, w) /\ IsFiniteSet(Passed(v, w))
  BY <1>1, <1>2, OlderFacts, FS_Subset, ConstantFacts DEF Passed
<1>6. Cardinality(Passed(v, y)) = n + 1
  BY <1>1, <1>4, <1>5, FS_AddElement
<1> QED
  BY <1>1, <1>2, <1>3, <1>4, <1>6, ConstantFacts DEF Looked

LEMMA Same ==
  ASSUME index' = index, runtime' = runtime
  PROVE  \A v, w, n :
           /\ Starts(v)' = Starts(v)
           /\ Older(v)' = Older(v)
           /\ Passed(v, w)' = Passed(v, w)
           /\ Looked(v, w, n)' <=> Looked(v, w, n)
           /\ Wanted(v)' = Wanted(v)
<1>1. \A v : Older(v)' = Older(v)
  BY DEF Older
<1>2. \A v : Starts(v)' = Starts(v)
  BY DEF Starts
<1>3. \A v : InReach(v)' = InReach(v)
  BY <1>1, <1>2 DEF InReach
<1>4. \A v : Wanted(v)' = Wanted(v)
  BY <1>2, <1>3 DEF Wanted
<1>5. \A v, w : Passed(v, w)' = Passed(v, w)
  BY <1>1 DEF Passed
<1>6. \A v, w, n : Looked(v, w, n)' <=> Looked(v, w, n)
  BY <1>5 DEF Looked, Floor
<1> QED
  BY <1>1, <1>2, <1>4, <1>5, <1>6

\* A run that settles on the right version.
LEMMA SettleFallsBack ==
  ASSUME TypeOK, NEW r \in Runs, NEW v, NEW e, Settle(r, v, e), RunFallsBack(r),
         v = Wanted(From(r)), pc[r] # "idle", container'[r] = None,
         UNCHANGED <<target_vars, run_vars>>
  PROVE  RunFallsBack(r)'
<1>1. pc'[r] \in {"recording", "rest"} /\ resolved'[r] = v
  BY DEF Settle, TypeOK
<1>2. From(r)' = From(r)
  BY DEF From, run_vars
<1>3. \A x : Wanted(x)' = Wanted(x)
  BY Same DEF target_vars
<1> QED
  BY <1>1, <1>2, <1>3 DEF RunFallsBack, Unsettled

\* None starts: the run keeps the version it was sent to.
LEMMA GiveUpFallsBack ==
  ASSUME TypeOK, NEW r \in Runs, RunFallsBack(r), pc[r] \in {"older", "trying"},
         GiveUp(r), Wanted(From(r)) = From(r), container'[r] = None,
         UNCHANGED <<target_vars, run_vars>>
  PROVE  RunFallsBack(r)'
<1>1. Settle(r, resolved[r], result[r]) /\ pc[r] # "idle" /\ resolved[r] = From(r)
  BY DEF GiveUp, RunFallsBack, Unsettled
<1> QED
  BY <1>1, SettleFallsBack

\* What an evaluation of a run that keeps no container shows.
LEMMA NoneKept ==
  ASSUME TypeOK, NEW r \in Runs, r \notin keeps, r \notin Failing,
         container[r] = None, NEW v, NEW o, MayCome(r, v, o), Keep(r, v, o)
  PROVE  container'[r] = None /\ (o = "ok" => v <= runtime) /\ (o # "ok" => v > runtime)
<1> QED
  BY DEF MayCome, Keep, Ran

LEMMA BeginFallsBack ==
  ASSUME TypeOK, NEW r \in Runs, r \notin Failing, RunFallsBack(r), Begin(r)
  PROVE  RunFallsBack(r)'
<1>1. \A x \in Asked : Lookup(memory, x) \in 0 .. Newest /\ None \in 0 .. Newest
  BY TypeFacts, ConstantFacts DEF Lookup
<1>2. PICK v \in Asked, w \in 0 .. Newest :
        /\ w \in {Lookup(memory, v), None}
        /\ requested' = [requested EXCEPT ![r] = v]
        /\ remembered' = [remembered EXCEPT ![r] = w]
        /\ resolved' = [resolved EXCEPT ![r] = IF w = None THEN v ELSE w]
  BY <1>1 DEF Begin
<1>3. requested'[r] = v /\ remembered'[r] = w /\ resolved'[r] = IF w = None THEN v ELSE w
  BY <1>2 DEF TypeOK
<1>4. pc'[r] = "first" /\ container'[r] = None
  BY DEF Begin, RunFallsBack, TypeOK
<1>5. From(r)' \in Versions /\ resolved'[r] = From(r)'
  BY <1>2, <1>3, ConstantFacts DEF From
<1> QED
  BY <1>3, <1>4, <1>5 DEF RunFallsBack, Unsettled

LEMMA FirstFallsBack ==
  ASSUME TypeOK, NEW r \in Runs, r \notin keeps, r \notin Failing,
         RunFallsBack(r), First(r)
  PROVE  RunFallsBack(r)'
<1>1. pc[r] = "first" /\ UNCHANGED <<target_vars, memory_vars, run_vars>>
  BY DEF First
<1>2. container[r] = None /\ resolved[r] = From(r) /\ From(r) \in Versions
  BY <1>1 DEF RunFallsBack, Unsettled
<1>3. PICK o \in Outcomes :
       /\ MayCome(r, resolved[r], o)
       /\ Keep(r, resolved[r], o)
       /\ \/ /\ o # "too new"
             /\ Settle(r, resolved[r], Evaluation(r, resolved[r], o))
             /\ UNCHANGED loop_vars
          \/ /\ o = "too new"
             /\ pc' = [pc EXCEPT ![r] = IF Forgets(r) THEN "forgetting" ELSE "older"]
             /\ result' = [result EXCEPT ![r] = Evaluation(r, resolved[r], o)]
             /\ version' = [version EXCEPT ![r] = Floor(resolved[r])]
             /\ steps' = [steps EXCEPT ![r] = 0]
             /\ UNCHANGED resolved
  BY DEF First
<1>4. /\ container'[r] = None
      /\ o = "ok" => From(r) <= runtime
      /\ o # "ok" => From(r) > runtime
  BY <1>2, <1>3, NoneKept
<1>5. CASE o # "too new"
  <2>1. o = "ok"
    BY <1>3, <1>5 DEF MayCome
  <2>2. Wanted(From(r)) = From(r)
    BY <1>2, <1>4, <2>1, TypeFacts, ConstantFacts DEF Wanted
  <2> QED
    BY <1>1, <1>2, <1>3, <1>4, <1>5, <2>2, SettleFallsBack
<1>6. CASE o = "too new"
  <2>1. /\ pc'[r] \in {"forgetting", "older"} /\ resolved'[r] = resolved[r]
        /\ version'[r] = Floor(From(r)) /\ steps'[r] = 0
    <3>1. pc' = [pc EXCEPT ![r] = IF Forgets(r) THEN "forgetting" ELSE "older"]
      BY <1>3, <1>6
    <3>2. pc'[r] \in {"forgetting", "older"}
      BY <3>1 DEF TypeOK
    <3>3. /\ resolved'[r] = resolved[r] /\ version'[r] = Floor(resolved[r])
          /\ steps'[r] = 0
      BY <1>3, <1>6 DEF TypeOK
    <3> QED
      BY <1>2, <3>2, <3>3
  <2>2. From(r)' = From(r)
    BY <1>1 DEF From, run_vars
  <2>3. Passed(From(r), Floor(From(r))) = {}
    BY <1>2, OlderFacts, ConstantFacts DEF Passed, Below, Floor
  <2>4. Looked(From(r), Floor(From(r)), 0)
    <3>1. Floor(From(r)) <= Floor(From(r))
      BY <1>2, ConstantFacts DEF Floor
    <3>2. Cardinality(Passed(From(r), Floor(From(r)))) = 0
      BY <2>3, FS_EmptySet
    <3>3. From(r) > runtime
      BY <1>4, <1>6
    <3> QED
      BY <1>2, <3>1, <3>2, <3>3 DEF Looked
  <2>5. Looked(From(r), Floor(From(r)), 0)' /\ Passed(From(r), Floor(From(r)))' = {}
    BY <1>1, <2>2, <2>3, <2>4, Same DEF target_vars, Floor
  <2> QED
    BY <1>2, <1>4, <2>1, <2>2, <2>5 DEF RunFallsBack, Unsettled
<1> QED
  BY <1>5, <1>6

\* The loop's invariant, as the step that looks one release further back finds it.
LEMMA OlderRun ==
  ASSUME TypeOK, NEW r \in Runs, RunFallsBack(r), pc[r] \in {"older", "trying"}
  PROVE  /\ container[r] = None /\ resolved[r] = From(r) /\ From(r) \in Versions
         /\ Looked(From(r), version[r], steps[r])
         /\ version[r] \in 0 .. Newest /\ steps[r] \in 0 .. MaxSteps
         /\ pc[r] = "older" => Passed(From(r), version[r]) \cap Starts(From(r)) = {}
<1>1. steps[r] \in 0 .. MaxSteps
  BY DEF TypeOK
<1> QED
  BY <1>1, TypeFacts DEF RunFallsBack, Unsettled

LEMMA StepNowhereFallsBack ==
  ASSUME TypeOK, NEW r \in Runs, r \notin Failing, RunFallsBack(r), StepNowhere(r)
  PROVE  RunFallsBack(r)'
<1>1. /\ pc[r] = "older" /\ Below(version[r]) = {} /\ GiveUp(r)
      /\ UNCHANGED <<target_vars, run_vars>> /\ container' = container
  BY DEF StepNowhere
<1>2. Wanted(From(r)) = From(r)
  BY <1>1, OlderRun, GiveUpRight
<1> QED
  BY <1>1, <1>2, OlderRun, GiveUpFallsBack

LEMMA StepBackFallsBack ==
  ASSUME TypeOK, LoopInv, NEW r \in Runs, r \notin Failing, RunFallsBack(r), StepBack(r)
  PROVE  RunFallsBack(r)'
<1> DEFINE v == From(r)
<1>1. /\ pc[r] = "older" /\ UNCHANGED <<target_vars, memory_vars, run_vars, container>>
      /\ container'[r] = None
  BY OlderRun DEF StepBack
<1>2. PICK y \in Below(version[r]) :
       /\ \A w \in Below(version[r]) : w <= y
       /\ version' = [version EXCEPT ![r] = y]
       /\ steps' = [steps EXCEPT ![r] = @ + 1]
       /\ \/ /\ index[y] = "artifact"
             /\ pc' = [pc EXCEPT ![r] = "trying"]
             /\ UNCHANGED <<settled_vars, result>>
          \/ /\ index[y] = "listed" \/ r \in Failing
             /\ IF OutOfSteps(steps'[r]) THEN GiveUp(r)
                ELSE UNCHANGED <<pc, settled_vars, result>>
  BY DEF StepBack
<1>3. /\ resolved[r] = v /\ v \in Versions /\ Looked(v, version[r], steps[r])
      /\ Passed(v, version[r]) \cap Starts(v) = {}
      /\ version[r] \in 0 .. Newest /\ steps[r] \in 0 .. MaxSteps
  BY <1>1, OlderRun
<1>4. version'[r] = y /\ steps'[r] = steps[r] + 1
  BY <1>2 DEF TypeOK
<1>5. /\ Looked(v, y, steps[r] + 1)
      /\ Passed(v, y) = Passed(v, version[r]) \cup {y}
      /\ y \in Older(v)
  BY <1>2, <1>3, StepPasses
<1>6. From(r)' = v
  BY <1>1 DEF From, run_vars
<1>7. /\ Looked(From(r), version[r], steps[r])'
      /\ Passed(From(r), version[r])' = Passed(v, y)
      /\ Starts(From(r))' = Starts(v) /\ Older(From(r))' = Older(v) /\ index' = index
  BY <1>1, <1>4, <1>5, <1>6, Same DEF target_vars
<1>8. y \in 0 .. Newest /\ steps[r] + 1 \in 0 .. MaxSteps
  BY <1>1, <1>2, <1>3, ConstantFacts DEF Below, LoopInv
<1>9. index[y] = "listed" => Passed(v, y) \cap Starts(v) = {}
  BY <1>3, <1>5 DEF Starts
<1> HIDE DEF v
<1>10. CASE index[y] = "artifact"
  <2>1. pc'[r] = "trying" /\ resolved'[r] = v
    BY <1>2, <1>3, <1>10 DEF TypeOK, settled_vars
  <2> QED
    BY <1>1, <1>3, <1>4, <1>5, <1>6, <1>7, <1>10, <2>1 DEF RunFallsBack, Unsettled
<1>11. CASE index[y] = "listed" /\ OutOfSteps(steps'[r])
  <2>1. Wanted(v) = v
    BY <1>3, <1>4, <1>5, <1>8, <1>9, <1>11, GiveUpRight DEF OutOfSteps
  <2> QED
    BY <1>1, <1>2, <1>11, <2>1, GiveUpFallsBack DEF v
<1>12. CASE index[y] = "listed" /\ ~ OutOfSteps(steps'[r])
  <2>1. pc'[r] = "older" /\ resolved'[r] = v
    BY <1>1, <1>2, <1>3, <1>12 DEF settled_vars
  <2>2. (Passed(From(r), version[r]) \cap Starts(From(r)))' = {}
    BY <1>7, <1>9, <1>12
  <2> QED
    BY <1>1, <1>3, <1>6, <1>7, <2>1, <2>2 DEF RunFallsBack, Unsettled
<1> QED
  BY <1>2, <1>10, <1>11, <1>12

LEMMA TryFallsBack ==
  ASSUME TypeOK, NEW r \in Runs, r \notin keeps, r \notin Failing,
         RunFallsBack(r), Try(r)
  PROVE  RunFallsBack(r)'
<1>1. pc[r] = "trying" /\ UNCHANGED <<target_vars, memory_vars, run_vars, loop_vars>>
  BY DEF Try
<1>2. /\ container[r] = None /\ resolved[r] = From(r) /\ From(r) \in Versions
      /\ Looked(From(r), version[r], steps[r])
      /\ version[r] \in 0 .. Newest /\ steps[r] \in 0 .. MaxSteps
  BY <1>1, OlderRun
<1>3. /\ Passed(From(r), version[r]) \cap Starts(From(r)) \subseteq {version[r]}
      /\ version[r] \in Older(From(r)) /\ index[version[r]] = "artifact"
  BY <1>1 DEF RunFallsBack
<1>4. PICK o \in Outcomes :
       /\ MayCome(r, version[r], o)
       /\ Keep(r, version[r], o)
       /\ \/ /\ Accepts(o)
             /\ Settle(r, version[r], Evaluation(r, version[r], o))
          \/ /\ ~ Accepts(o) /\ OutOfSteps(steps[r])
             /\ GiveUp(r)
          \/ /\ ~ Accepts(o) /\ ~ OutOfSteps(steps[r])
             /\ pc' = [pc EXCEPT ![r] = "older"]
             /\ UNCHANGED <<settled_vars, result>>
  BY DEF Try
<1>5. /\ container'[r] = None
      /\ o = "ok" => version[r] <= runtime
      /\ o # "ok" => version[r] > runtime
  BY <1>2, <1>4, NoneKept
<1>6. CASE Accepts(o)
  <2>1. o = "ok"
    BY <1>4, <1>6 DEF MayCome, Accepts
  <2>2. Wanted(From(r)) = version[r]
    BY <1>2, <1>3, <1>5, <2>1, AcceptRight
  <2> QED
    BY <1>1, <1>4, <1>5, <1>6, <2>2, SettleFallsBack
<1>7. CASE ~ Accepts(o)
  <2>1. version[r] > runtime /\ runtime \in 0 .. Newest
    BY <1>5, <1>7, TypeFacts DEF Accepts
  <2>2. version[r] \notin Starts(From(r))
    BY <1>2, <2>1 DEF Starts
  <2>3. Passed(From(r), version[r]) \cap Starts(From(r)) = {}
    BY <1>3, <2>2
  <2>4. CASE OutOfSteps(steps[r])
    <3>1. Wanted(From(r)) = From(r)
      BY <1>2, <2>3, <2>4, GiveUpRight DEF OutOfSteps
    <3> QED
      BY <1>1, <1>4, <1>5, <1>7, <2>4, <3>1, GiveUpFallsBack
  <2>5. CASE ~ OutOfSteps(steps[r])
    <3>1. pc'[r] = "older" /\ resolved'[r] = resolved[r]
      BY <1>4, <1>7, <2>5 DEF TypeOK, settled_vars
    <3>2. From(r)' = From(r) /\ version'[r] = version[r] /\ steps'[r] = steps[r]
      BY <1>1 DEF From, run_vars, loop_vars
    <3>3. /\ Looked(From(r), version[r], steps[r])'
          /\ (Passed(From(r), version[r]) \cap Starts(From(r)))' = {}
      BY <1>1, <1>2, <2>3, <3>2, Same DEF target_vars
    <3> QED
      BY <1>2, <1>5, <3>1, <3>2, <3>3 DEF RunFallsBack, Unsettled
  <2> QED
    BY <2>4, <2>5
<1> QED
  BY <1>6, <1>7

LEMMA OtherFallsBack ==
  ASSUME TypeOK, NEW r \in Runs, r \notin keeps, r \notin Failing,
         RunFallsBack(r), Forget(r) \/ Record(r) \/ More(r) \/ End(r)
  PROVE  RunFallsBack(r)'
<1>1. CASE Forget(r)
  <2>1. /\ pc[r] = "forgetting" /\ pc'[r] = "older"
        /\ container' = container /\ resolved' = resolved
        /\ version' = version /\ steps' = steps /\ From(r)' = From(r)
        /\ index' = index /\ runtime' = runtime
    BY <1>1 DEF Forget, TypeOK, From, run_vars, loop_vars, target_vars
  <2>2. /\ Looked(From(r), version[r], steps[r])'
        /\ (Passed(From(r), version[r]) \cap Starts(From(r)))' = {}
    BY <2>1, Same DEF RunFallsBack
  <2> QED
    BY <2>1, <2>2 DEF RunFallsBack, Unsettled
<1>2. CASE Record(r) \/ More(r)
  <2>1. /\ pc[r] \in {"recording", "rest"} /\ pc'[r] = "rest"
        /\ resolved' = resolved /\ From(r)' = From(r)
        /\ index' = index /\ runtime' = runtime
    BY <1>2 DEF Record, More, TypeOK, From, run_vars, settled_vars, target_vars
  <2>2. container'[r] = None
    BY <1>2 DEF Record, More, Keep, RunFallsBack
  <2>3. Wanted(From(r))' = Wanted(From(r))
    BY <2>1, Same
  <2> QED
    BY <2>1, <2>2, <2>3 DEF RunFallsBack, Unsettled
<1>3. CASE End(r)
  BY <1>3 DEF End, Stopped, TypeOK, RunFallsBack, Unsettled
<1> QED
  BY <1>1, <1>2, <1>3

FallsBackInv == \A r \in Runs \ (Failing \cup keeps) : RunFallsBack(r)

LEMMA NextFallsBack ==
  ASSUME TypeOK, LoopInv, FallsBackInv, [Next]_vars
  PROVE  FallsBackInv'
<1>a. keeps' = keeps
  BY DEF Next, Begin, First, Forget, StepNowhere, StepBack, Try, Record, More, End, Stopped,
         Expire,
         Change, vars, target_vars
<1> SUFFICES ASSUME NEW q \in Runs \ (Failing \cup keeps) PROVE RunFallsBack(q)'
  BY <1>a DEF FallsBackInv
<1>1. RunFallsBack(q) /\ q \in Runs /\ q \notin Failing /\ q \notin keeps
  BY DEF FallsBackInv
<1>2. CASE \/ Begin(q) \/ First(q) \/ Forget(q) \/ StepNowhere(q) \/ StepBack(q)
           \/ Try(q) \/ Record(q) \/ More(q) \/ End(q)
  BY <1>1, <1>2, BeginFallsBack, FirstFallsBack, StepNowhereFallsBack, StepBackFallsBack,
     TryFallsBack, OtherFallsBack
<1>3. CASE Change
  <2>1. pc[q] = "idle" /\ pc' = pc /\ container' = container
    BY <1>3 DEF Change
  <2> QED
    BY <1>1, <2>1 DEF RunFallsBack, Unsettled
\* Nothing the run stands on changes.
<1>4. ASSUME /\ pc'[q] = pc[q] /\ requested'[q] = requested[q]
             /\ remembered'[q] = remembered[q] /\ resolved'[q] = resolved[q]
             /\ version'[q] = version[q] /\ steps'[q] = steps[q]
             /\ container'[q] = container[q] /\ index' = index /\ runtime' = runtime
      PROVE  RunFallsBack(q)'
  <2>1. From(q)' = From(q)
    BY <1>4 DEF From
  <2>2. /\ Looked(From(q), version[q], steps[q])' <=> Looked(From(q), version[q], steps[q])
        /\ Passed(From(q), version[q])' = Passed(From(q), version[q])
        /\ Starts(From(q))' = Starts(From(q)) /\ Older(From(q))' = Older(From(q))
        /\ Wanted(From(q))' = Wanted(From(q))
    BY <1>4, <2>1, Same
  <2> QED
    BY <1>1, <1>4, <2>1, <2>2 DEF RunFallsBack, Unsettled
<1>5. ASSUME NEW r \in Runs, q # r,
             \/ Begin(r) \/ First(r) \/ Forget(r) \/ StepNowhere(r) \/ StepBack(r)
             \/ Try(r) \/ Record(r) \/ More(r) \/ End(r)
      PROVE  RunFallsBack(q)'
  <2>1. index' = index /\ runtime' = runtime
    BY <1>5 DEF Begin, First, Forget, StepNowhere, StepBack, Try, Record, More, End,
                target_vars
  <2> QED
    BY <1>1, <1>4, <1>5, <2>1, OthersStay
<1>6. CASE Expire \/ UNCHANGED vars
  BY <1>4, <1>6 DEF Expire, vars, target_vars, run_vars, settled_vars, loop_vars
<1> QED
  BY <1>2, <1>3, <1>5, <1>6 DEF Next

LEMMA RightVersion ==
  ASSUME TypeOK, FallsBackInv
  PROVE  FallsBackToNewest
<1> SUFFICES ASSUME NEW r \in Runs \ (Failing \cup keeps), pc[r] = "rest"
             PROVE  resolved[r] = Wanted(From(r))
  BY DEF FallsBackToNewest, FallsBack, Wanted, InReach, Starts, From
<1> QED
  BY DEF FallsBackInv, RunFallsBack

\* Every run that keeps no container for several expressions, and meets no
\* failure but "too new", settles on the newest older release, within reach,
\* whose build starts.
THEOREM TheNewestThatStarts == Spec => []FallsBackToNewest
<1>1. Init => TypeOK /\ LoopInv /\ FallsBackInv
  BY InitType DEF Init, LoopInv, FallsBackInv, RunFallsBack, Unsettled
<1>2. TypeOK /\ LoopInv /\ FallsBackInv /\ [Next]_vars
        => (TypeOK /\ LoopInv /\ FallsBackInv)'
  BY TypeStep, LoopStep, NextFallsBack
<1>3. TypeOK /\ FallsBackInv => FallsBackToNewest
  BY RightVersion
<1> QED
  BY <1>1, <1>2, <1>3, PTL DEF Spec

-----------------------------------------------------------------------------
(* NamesWhatRan.                                                           *)

\* A kept container holds the build the run goes on with, until it is over: the
\* one found too new, as long as the run is stepping back, and on if a candidate
\* failed in it.
Stepping(r) == pc[r] \in {"forgetting", "older", "trying"}
RunNames(r) ==
  /\ r \notin keeps \/ pc[r] \in {"idle", "first"} => container[r] = None
  /\ r \in keeps /\ Stepping(r) => container[r] = resolved[r] /\ container[r] > runtime
  /\ Stepping(r) => result[r].named = result[r].ran
  /\ pc[r] \in {"recording", "rest"} =>
       /\ result[r].named = result[r].ran \/ (r \in keeps /\ result[r].outcome # "ok")
       /\ container[r] \in {None, resolved[r]} \/ (r \in keeps /\ container[r] > runtime)

LEMMA SettleNames ==
  ASSUME TypeOK, NEW r \in Runs, NEW v, NEW e, Settle(r, v, e),
         e.named = e.ran \/ (r \in keeps /\ e.outcome # "ok"),
         container'[r] \in {None, v} \/ (r \in keeps /\ container'[r] > runtime),
         r \notin keeps => container'[r] = None, UNCHANGED <<keeps, runtime>>
  PROVE  RunNames(r)'
<1>1. pc'[r] \in {"recording", "rest"} /\ resolved'[r] = v /\ result'[r] = e
  BY DEF Settle, TypeOK
<1> QED
  BY <1>1 DEF RunNames, Stepping

LEMMA GiveUpNames ==
  ASSUME TypeOK, NEW r \in Runs, RunNames(r), Stepping(r), GiveUp(r),
         container'[r] = container[r], UNCHANGED <<keeps, runtime>>
  PROVE  RunNames(r)'
<1>1. container[r] \in {None, resolved[r]} /\ result[r].named = result[r].ran
  BY DEF RunNames
<1>2. r \notin keeps => container'[r] = None
  BY DEF RunNames
<1>3. Settle(r, resolved[r], result[r])
  BY DEF GiveUp
<1> QED
  BY <1>1, <1>2, <1>3, SettleNames

LEMMA StepNames ==
  ASSUME TypeOK, NEW r \in Runs, RunNames(r),
         \/ Begin(r) \/ First(r) \/ Forget(r) \/ StepNowhere(r) \/ StepBack(r)
         \/ Try(r) \/ Record(r) \/ More(r) \/ End(r)
  PROVE  RunNames(r)'
<1>1. keeps' = keeps /\ runtime' = runtime /\ runtime \in 0 .. Newest
  BY TypeFacts DEF Begin, First, Forget, StepNowhere, StepBack, Try, Record, More, End,
                   target_vars
<1>2. CASE Begin(r)
  BY <1>1, <1>2 DEF Begin, RunNames, Stepping, TypeOK
<1>3. CASE First(r)
  <2>1. PICK o \in Outcomes :
          /\ MayCome(r, resolved[r], o) /\ Keep(r, resolved[r], o)
          /\ \/ Settle(r, resolved[r], Evaluation(r, resolved[r], o))
             \/ /\ o = "too new"
                /\ pc' = [pc EXCEPT ![r] = IF Forgets(r) THEN "forgetting" ELSE "older"]
                /\ result' = [result EXCEPT ![r] = Evaluation(r, resolved[r], o)]
                /\ UNCHANGED resolved
    BY <1>3 DEF First
  <2>2. /\ container[r] = None /\ Ran(r, resolved[r]) = resolved[r]
        /\ resolved[r] \in 0 .. Newest
    BY <1>3, TypeFacts DEF First, RunNames, Ran
  <2>3. container'[r] \in {None, resolved[r]} /\ (r \notin keeps => container'[r] = None)
    BY <2>1, <2>2, KeepType DEF Keep
  <2>4. Evaluation(r, resolved[r], o).named = Evaluation(r, resolved[r], o).ran
    BY <2>2 DEF Evaluation
  <2>5. CASE Settle(r, resolved[r], Evaluation(r, resolved[r], o))
    BY <1>1, <2>3, <2>4, <2>5, SettleNames
  <2>6. CASE /\ o = "too new"
             /\ pc' = [pc EXCEPT ![r] = IF Forgets(r) THEN "forgetting" ELSE "older"]
             /\ result' = [result EXCEPT ![r] = Evaluation(r, resolved[r], o)]
             /\ UNCHANGED resolved
    <3>1. resolved[r] > runtime /\ (r \in keeps => container'[r] = resolved[r])
      BY <2>1, <2>2, <2>6 DEF MayCome, Keep, TypeOK
    <3>2. Stepping(r)' /\ pc'[r] \notin {"idle", "first", "recording", "rest"}
          /\ result'[r] = Evaluation(r, resolved[r], o)
      BY <2>6 DEF Stepping, TypeOK
    <3> QED
      BY <1>1, <2>3, <2>4, <2>6, <3>1, <3>2 DEF RunNames
  <2> QED
    BY <2>1, <2>5, <2>6
<1>4. CASE StepNowhere(r)
  BY <1>1, <1>4, GiveUpNames DEF StepNowhere, Stepping
<1>5. CASE StepBack(r)
  <2>1. /\ pc[r] = "older" /\ container' = container /\ Stepping(r)
        /\ \/ pc' \in {pc, [pc EXCEPT ![r] = "trying"]} /\ UNCHANGED <<resolved, result>>
           \/ GiveUp(r)
    BY <1>5 DEF StepBack, Stepping, settled_vars
  <2>2. CASE GiveUp(r)
    BY <1>1, <2>1, <2>2, GiveUpNames
  <2>3. CASE pc' \in {pc, [pc EXCEPT ![r] = "trying"]} /\ UNCHANGED <<resolved, result>>
    BY <1>1, <2>1, <2>3 DEF RunNames, Stepping, TypeOK
  <2> QED
    BY <2>1, <2>2, <2>3
<1>6. CASE Try(r)
  <2>1. PICK o \in Outcomes :
          /\ MayCome(r, version[r], o) /\ Keep(r, version[r], o)
          /\ \/ o # "too new" /\ Settle(r, version[r], Evaluation(r, version[r], o))
             \/ o = "too new" /\ GiveUp(r)
             \/ /\ o = "too new"
                /\ pc' = [pc EXCEPT ![r] = "older"] /\ UNCHANGED <<resolved, result>>
    BY <1>6 DEF Try, Accepts, settled_vars
  <2>2. Stepping(r) /\ version[r] \in 0 .. Newest
    BY <1>6, TypeFacts DEF Try, Stepping
  <2>3. CASE r \in keeps
    <3>1. container[r] = resolved[r] /\ container[r] > runtime /\ container[r] # None
      BY <1>1, <2>2, <2>3 DEF RunNames
    <3>2. Ran(r, version[r]) = container[r]
      BY <3>1 DEF Ran
    <3>3. o # "ok"
      <4>1. container[r] \in 0 .. Newest
        BY TypeFacts
      <4>2. ~ (Ran(r, version[r]) <= runtime)
        BY <1>1, <3>1, <3>2, <4>1, ConstantFacts
      <4>3. MayCome(r, version[r], o)
        BY <2>1
      <4> QED
        BY <4>2, <4>3 DEF MayCome
    <3>4. container'[r] = container[r]
      BY <2>1, <2>2, <3>2, KeepType
    <3>5. CASE GiveUp(r)
      BY <1>1, <2>2, <3>4, <3>5, GiveUpNames
    <3>6. CASE pc' = [pc EXCEPT ![r] = "older"] /\ UNCHANGED <<resolved, result>>
      BY <1>1, <2>2, <3>4, <3>6 DEF RunNames, Stepping, TypeOK
    <3>7. CASE Settle(r, version[r], Evaluation(r, version[r], o))
      <4>1. Evaluation(r, version[r], o).outcome # "ok"
        BY <3>3 DEF Evaluation
      <4> QED
        BY <1>1, <2>3, <3>1, <3>4, <3>7, <4>1, SettleNames
    <3> QED
      BY <2>1, <3>5, <3>6, <3>7
  <2>4. CASE r \notin keeps
    <3>1. container[r] = None /\ container'[r] = None /\ Ran(r, version[r]) = version[r]
      BY <2>1, <2>4 DEF RunNames, Keep, Ran
    <3>2. CASE Settle(r, version[r], Evaluation(r, version[r], o))
      <4>1. Evaluation(r, version[r], o).named = Evaluation(r, version[r], o).ran
        BY <3>1 DEF Evaluation
      <4> QED
        BY <1>1, <3>1, <3>2, <4>1, SettleNames
    <3>3. CASE GiveUp(r)
      BY <1>1, <2>2, <3>1, <3>3, GiveUpNames
    <3>4. CASE pc' = [pc EXCEPT ![r] = "older"] /\ UNCHANGED <<resolved, result>>
      BY <1>1, <2>2, <2>4, <3>1, <3>4 DEF RunNames, Stepping, TypeOK
    <3> QED
      BY <2>1, <3>2, <3>3, <3>4
  <2> QED
    BY <2>3, <2>4
<1>7. CASE Forget(r)
  BY <1>1, <1>7 DEF Forget, RunNames, Stepping, TypeOK
<1>8. CASE Record(r)
  BY <1>1, <1>8 DEF Record, RunNames, Stepping, TypeOK
<1>9. CASE More(r)
  <2>1. PICK o \in Outcomes :
          /\ MayCome(r, resolved[r], o) /\ Keep(r, resolved[r], o)
          /\ result' = [result EXCEPT ![r] = Evaluation(r, resolved[r], o)]
    BY <1>9 DEF More
  <2>2. /\ pc[r] = "rest" /\ pc' = pc /\ resolved' = resolved
        /\ resolved[r] \in 0 .. Newest /\ container[r] \in 0 .. Newest
    BY <1>9, TypeFacts DEF More, settled_vars
  <2>3. result'[r] = Evaluation(r, resolved[r], o)
    BY <2>1 DEF TypeOK
  <2>4. CASE container[r] \in {None, resolved[r]}
    <3>1. Ran(r, resolved[r]) = resolved[r]
      BY <2>4 DEF Ran
    <3>2. container'[r] \in {None, resolved[r]} /\ (r \notin keeps => container'[r] = None)
      BY <2>1, <2>2, <2>4, <3>1, KeepType DEF Keep, RunNames
    <3> QED
      BY <1>1, <2>2, <2>3, <3>1, <3>2 DEF RunNames, Stepping, Evaluation
  <2>5. CASE container[r] \notin {None, resolved[r]}
    <3>1. r \in keeps /\ container[r] > runtime /\ Ran(r, resolved[r]) = container[r]
      BY <2>2, <2>5 DEF RunNames, Ran
    <3>2. container'[r] = container[r]
      BY <2>1, <2>2, <3>1, KeepType
    <3>3. ~ (Ran(r, resolved[r]) <= runtime)
      BY <1>1, <2>2, <3>1, ConstantFacts
    <3>4. o # "ok"
      BY <2>1, <3>3 DEF MayCome
    <3> QED
      BY <1>1, <2>2, <2>3, <3>1, <3>2, <3>4 DEF RunNames, Stepping, Evaluation
  <2> QED
    BY <2>4, <2>5
<1>10. CASE End(r)
  BY <1>1, <1>10 DEF End, Stopped, RunNames, Stepping, TypeOK
<1> QED
  BY <1>2, <1>3, <1>4, <1>5, <1>6, <1>7, <1>8, <1>9, <1>10

NamesInv == \A r \in Runs : RunNames(r)

LEMMA NextNames ==
  ASSUME TypeOK, NamesInv, [Next]_vars
  PROVE  NamesInv'
<1>1. ASSUME NEW r \in Runs,
             \/ Begin(r) \/ First(r) \/ Forget(r) \/ StepNowhere(r) \/ StepBack(r)
             \/ Try(r) \/ Record(r) \/ More(r) \/ End(r)
      PROVE  NamesInv'
  <2>1. RunNames(r)'
    BY <1>1, StepNames DEF NamesInv
  <2>2. keeps' = keeps /\ runtime' = runtime
    BY <1>1 DEF Begin, First, Forget, StepNowhere, StepBack, Try, Record, More, End, target_vars
  <2>3. \A q \in Runs : q # r => RunNames(q)'
    BY <1>1, <2>2, OthersStay DEF NamesInv, RunNames, Stepping
  <2> QED
    BY <2>1, <2>3 DEF NamesInv
<1>2. CASE Change
  BY <1>2 DEF Change, NamesInv, RunNames, Stepping
<1>3. CASE Expire \/ UNCHANGED vars
  BY <1>3 DEF Expire, vars, target_vars, settled_vars, NamesInv, RunNames, Stepping
<1> QED
  BY <1>1, <1>2, <1>3 DEF Next

\* An answer names the version that gave it, whatever else has failed; a failure
\* that names another was met on a kept container.
THEOREM TheNameIsTrue == Spec => []NamesWhatRan
<1>1. Init => TypeOK /\ LoopInv /\ NamesInv
  BY InitType DEF Init, LoopInv, NamesInv, RunNames, Stepping
<1>2. TypeOK /\ LoopInv /\ NamesInv /\ [Next]_vars => (TypeOK /\ LoopInv /\ NamesInv)'
  BY TypeStep, LoopStep, NextNames
<1>3. NamesInv => NamesWhatRan
  BY DEF NamesInv, RunNames, NamesWhatRan
<1> QED
  BY <1>1, <1>2, <1>3, PTL DEF Spec

-----------------------------------------------------------------------------
(* HealsAfterUse.                                                          *)

\* A run that was redirected goes by what the memory still says, until it has
\* found it to work, has dropped it, or has settled without finding out.
Sound == memory.works <= runtime \/ doubtful
RunHeals(r) ==
  remembered[r] # None =>
    /\ pc[r] = "first" => memory.works = remembered[r] \/ Sound
    /\ pc[r] \in {"older", "trying"} => Sound
    /\ pc[r] \in {"recording", "rest"} => Sound \/ NothingLearnt(r)
HealsInv == \A r \in Runs : RunHeals(r)

LEMMA StepHeals ==
  ASSUME TypeOK, WorksInv, HealsInv, NEW r \in Runs,
         \/ Begin(r) \/ First(r) \/ Forget(r) \/ StepNowhere(r) \/ StepBack(r)
         \/ Try(r) \/ Record(r) \/ More(r) \/ End(r)
  PROVE  HealsInv'
<1>1. /\ runtime' = runtime /\ runtime \in 0 .. Newest
      /\ UNCHANGED <<memory, doubtful>> \/ Sound'
      /\ Forget(r) \/ Record(r) => Sound'
  <2>1. runtime' = runtime /\ runtime \in 0 .. Newest
    BY TypeFacts DEF Begin, First, Forget, StepNowhere, StepBack, Try, Record, More, End,
                     target_vars
  <2>2. Forget(r) => Sound'
    BY <2>1 DEF Forget, NoEntry, Sound
  <2>3. ASSUME Record(r) PROVE Sound'
    <3>1. /\ memory'.works = resolved[r] /\ doubtful' = (first[r] = "failed")
          /\ first[r] # "failed" => resolved[r] \in 1 .. runtime
      BY <2>3 DEF Record, WorksInv, RunWorks
    <3>2. CASE first[r] = "failed"
      BY <3>1, <3>2 DEF Sound
    <3>3. CASE first[r] # "failed"
      <4>1. resolved[r] <= runtime
        BY <2>1, <3>1, <3>3
      <4> QED
        BY <2>1, <3>1, <4>1 DEF Sound
    <3> QED
      BY <3>2, <3>3
  <2>4. Forget(r) \/ Record(r) \/ UNCHANGED <<memory, doubtful>>
    BY DEF Begin, First, Forget, StepNowhere, StepBack, Try, Record, More, End, memory_vars
  <2> QED
    BY <2>1, <2>2, <2>3, <2>4
<1>2. Sound => Sound'
  BY <1>1 DEF Sound
<1>3. \A q \in Runs : q # r => RunHeals(q)'
  BY <1>1, <1>2, OthersStay DEF HealsInv, RunHeals, NothingLearnt
<1>4. RunHeals(r) /\ RunWorks(r)
  BY DEF HealsInv, WorksInv
<1>5. CASE Begin(r)
  <2>1. PICK v \in Asked : \E w \in {Lookup(memory, v), None} :
          remembered' = [remembered EXCEPT ![r] = w]
    BY <1>5 DEF Begin
  <2>2. remembered'[r] # None => remembered'[r] = memory.works
    BY <2>1 DEF Lookup, TypeOK
  <2>3. pc'[r] = "first" /\ memory' = memory
    BY <1>5 DEF Begin, TypeOK, memory_vars
  <2> QED
    BY <1>3, <2>2, <2>3 DEF HealsInv, RunHeals
<1>6. CASE First(r)
  <2>1. /\ pc[r] = "first" /\ UNCHANGED <<memory, doubtful>> /\ remembered' = remembered
        /\ Ran(r, resolved[r]) = resolved[r]
        /\ remembered[r] # None => resolved[r] = remembered[r]
    BY <1>4, <1>6 DEF First, run_vars, memory_vars, RunWorks, Ran
  <2>2. PICK o \in Outcomes :
          /\ MayCome(r, resolved[r], o)
          /\ \/ o # "too new" /\ Settle(r, resolved[r], Evaluation(r, resolved[r], o))
             \/ pc' = [pc EXCEPT ![r] = IF Forgets(r) THEN "forgetting" ELSE "older"]
    BY <1>6 DEF First
  <2>3. CASE o # "too new" /\ Settle(r, resolved[r], Evaluation(r, resolved[r], o))
    <3>1. /\ pc'[r] \in {"recording", "rest"} /\ resolved'[r] = resolved[r]
          /\ first'[r] = o
      BY <2>3 DEF Settle, TypeOK, Evaluation
    <3>2. o = "failed" \/ resolved[r] <= runtime
      BY <2>1, <2>2, <2>3 DEF MayCome
    <3>3. remembered[r] # None => Sound \/ o = "failed"
      BY <1>4, <2>1, <3>2 DEF RunHeals, Sound
    <3> QED
      BY <1>2, <1>3, <2>1, <3>1, <3>3 DEF HealsInv, RunHeals, NothingLearnt
  <2>4. CASE pc' = [pc EXCEPT ![r] = IF Forgets(r) THEN "forgetting" ELSE "older"]
    <3>1. /\ pc'[r] \in {"forgetting", "older"}
          /\ pc'[r] = "older" => ~ Forgets(r)
      BY <2>4 DEF TypeOK
    <3>2. memory = NoEntry => Sound
      BY <1>1 DEF NoEntry, Sound
    <3> QED
      BY <1>2, <1>3, <2>1, <3>1, <3>2 DEF HealsInv, RunHeals, Forgets
  <2> QED
    BY <2>2, <2>3, <2>4
<1>7. CASE Forget(r) \/ Record(r)
  <2>1. Sound'
    BY <1>1, <1>7
  <2>2. pc'[r] \in {"older", "rest"}
    BY <1>7 DEF Forget, Record, TypeOK
  <2> QED
    BY <1>3, <2>1, <2>2 DEF HealsInv, RunHeals
<1>8. CASE StepNowhere(r) \/ StepBack(r) \/ Try(r)
  <2>1. /\ pc[r] \in {"older", "trying"} /\ remembered' = remembered
        /\ pc'[r] \in {"older", "trying", "recording", "rest"}
    BY <1>8 DEF StepNowhere, StepBack, Try, GiveUp, Settle, TypeOK, run_vars
  <2> QED
    BY <1>2, <1>3, <1>4, <2>1 DEF HealsInv, RunHeals
<1>9. CASE More(r)
  <2>1. /\ pc[r] = "rest" /\ pc' = pc
        /\ UNCHANGED <<remembered, resolved, first>>
    BY <1>9 DEF More, run_vars, settled_vars
  <2> QED
    BY <1>2, <1>3, <1>4, <2>1 DEF HealsInv, RunHeals, NothingLearnt
<1>10. CASE End(r)
  BY <1>3, <1>10 DEF End, HealsInv, RunHeals, TypeOK
<1> QED
  BY <1>5, <1>6, <1>7, <1>8, <1>9, <1>10

LEMMA NextHeals ==
  ASSUME TypeOK, WorksInv, HealsInv, [Next]_vars
  PROVE  HealsInv'
<1>1. CASE Change
  BY <1>1 DEF Change, HealsInv, RunHeals
<1>2. CASE Expire
  <2>1. memory'.works = memory.works
        /\ UNCHANGED <<runtime, doubtful, pc, resolved, first, run_vars>>
    BY <1>2 DEF Expire, TypeOK, Entries, target_vars, settled_vars
  <2> QED
    BY <2>1 DEF HealsInv, RunHeals, NothingLearnt, Sound, run_vars
<1>3. CASE UNCHANGED vars
  BY <1>3 DEF vars, HealsInv, RunHeals, NothingLearnt, Sound, run_vars, target_vars,
              memory_vars, settled_vars
<1> QED
  BY <1>1, <1>2, <1>3, StepHeals DEF Next

\* A redirect that stops working does not survive the first run it misled, in
\* whatever processes others drop and record theirs meanwhile, and though the
\* target's runtime has become older, unless that run met another failure
\* instead.
THEOREM ItHeals == Spec => []HealsAfterUse
<1>1. Init => TypeOK /\ LoopInv /\ WorksInv /\ HealsInv
  <2>1. ASSUME Init PROVE WorksInv /\ HealsInv
    <3>1. runtime \in 0 .. Newest
      BY <2>1, VersionsAssumption DEF Init
    <3> QED
      BY <2>1, <3>1 DEF Init, NoEntry, WorksInv, RememberedWorks, RunWorks, Unsettled, HealsInv,
                        RunHeals
  <2> QED
    BY <2>1, InitType DEF Init, LoopInv
<1>2. TypeOK /\ LoopInv /\ WorksInv /\ HealsInv /\ [Next]_vars
        => (TypeOK /\ LoopInv /\ WorksInv /\ HealsInv)'
  BY TypeStep, LoopStep, NextWorks, NextHeals
<1>3. HealsInv => HealsAfterUse
  BY DEF HealsInv, RunHeals, HealsAfterUse, Sound
<1> QED
  BY <1>1, <1>2, <1>3, PTL DEF Spec

-----------------------------------------------------------------------------
(* VerdictsKept.                                                           *)

\* From reading the file to saving it there is no await: where all runs are in
\* one process, what is saved is made of what the memory still holds.
Writing(r) == pc[r] \in {"forgetting", "recording"}
Current(r) == [entries[r] EXCEPT !.expired = memory.expired] = memory
OneWrites ==
  (\A q, r \in Runs : ProcessOf[q] = ProcessOf[r]) =>
    /\ \A q, r \in Runs : Writing(q) /\ Writing(r) => q = r
    /\ \A r \in Runs : Writing(r) => Current(r)

LEMMA ReadIsCurrent ==
  ASSUME TypeOK, NEW r \in Runs, entries'[r] = memory, memory' = memory
  PROVE  Current(r)'
<1>1. [memory EXCEPT !.expired = memory.expired] = memory
  BY DEF TypeOK, Entries
<1> QED
  BY <1>1 DEF Current

LEMMA NextOneWrites ==
  ASSUME TypeOK, OneWrites, [Next]_vars
  PROVE  OneWrites'
<1> SUFFICES ASSUME \A q, r \in Runs : ProcessOf[q] = ProcessOf[r]
             PROVE  /\ \A q, r \in Runs : Writing(q)' /\ Writing(r)' => q = r
                    /\ \A r \in Runs : Writing(r)' => Current(r)'
  BY DEF OneWrites
<1>1. ASSUME NEW r \in Runs,
             \/ Begin(r) \/ First(r) \/ Forget(r) \/ StepNowhere(r) \/ StepBack(r)
             \/ Try(r) \/ Record(r) \/ More(r) \/ End(r)
      PROVE  /\ \A q \in Runs : q # r => ~ Writing(q)'
             /\ Writing(r)' => Current(r)'
  <2>1. \A q \in Runs : q # r => pc'[q] = pc[q]
    BY <1>1, OthersStay
  <2>2. \A q \in Runs : q # r => ~ Writing(q)
    BY <1>1 DEF Begin, First, StepNowhere, StepBack, Try, More, End, Forget, Record, Turn,
                OneWrites, Writing
  <2>3. Writing(r)' => entries'[r] = memory /\ memory' = memory
    <3>1. CASE First(r)
      <4>1. /\ pc[r] = "first" /\ memory' = memory
            /\ \/ \E v, e : Settle(r, v, e)
               \/ /\ pc' = [pc EXCEPT ![r] = IF Forgets(r) THEN "forgetting" ELSE "older"]
                  /\ entries' = IF Forgets(r) THEN [entries EXCEPT ![r] = memory] ELSE entries
        BY <3>1 DEF First, memory_vars
      <4>2. CASE \E v, e : Settle(r, v, e)
        BY <4>1, <4>2 DEF Settle, Writing, TypeOK
      <4>3. CASE /\ pc' = [pc EXCEPT ![r] = IF Forgets(r) THEN "forgetting" ELSE "older"]
                 /\ entries' = IF Forgets(r) THEN [entries EXCEPT ![r] = memory] ELSE entries
        <5>1. CASE Forgets(r)
          BY <4>1, <4>3, <5>1 DEF TypeOK
        <5>2. CASE ~ Forgets(r)
          BY <4>3, <5>2 DEF Writing, TypeOK
        <5> QED
          BY <5>1, <5>2
      <4> QED
        BY <4>1, <4>2, <4>3
    <3>2. CASE StepNowhere(r)
      BY <3>2 DEF StepNowhere, GiveUp, Settle, Writing, TypeOK, memory_vars
    <3>3. CASE StepBack(r)
      <4>1. /\ pc[r] = "older" /\ UNCHANGED memory
            /\ GiveUp(r) \/ pc' \in {pc, [pc EXCEPT ![r] = "trying"]}
        BY <3>3 DEF StepBack, memory_vars
      <4> QED
        BY <4>1 DEF GiveUp, Settle, Writing, TypeOK
    <3>4. CASE Try(r)
      <4>1. /\ UNCHANGED memory
            /\ (\E v, e : Settle(r, v, e)) \/ pc' = [pc EXCEPT ![r] = "older"]
        BY <3>4 DEF Try, GiveUp, memory_vars
      <4> QED
        BY <4>1 DEF Settle, Writing, TypeOK
    <3>5. CASE Begin(r) \/ Forget(r) \/ Record(r) \/ More(r) \/ End(r)
      BY <3>5 DEF Begin, Forget, Record, More, End, Writing, TypeOK
    <3> QED
      BY <1>1, <3>1, <3>2, <3>3, <3>4, <3>5
  <2> QED
    BY <2>1, <2>2, <2>3, ReadIsCurrent DEF Writing
<1>2. CASE Expire
  <2>1. /\ memory' = [memory EXCEPT !.expired = TRUE] /\ UNCHANGED <<pc, entries>>
    BY <1>2 DEF Expire, settled_vars
  <2>2. ASSUME NEW r \in Runs, Current(r) PROVE Current(r)'
    <3>1. entries[r] \in Entries /\ memory \in Entries
      BY DEF TypeOK
    <3>2. [entries[r] EXCEPT !.expired = TRUE] = [memory EXCEPT !.expired = TRUE]
      BY <2>2, <3>1 DEF Current, Entries
    <3>3. memory'.expired = TRUE
      BY <2>1, <3>1 DEF Entries
    <3> QED
      BY <2>1, <3>2, <3>3 DEF Current
  <2> QED
    BY <2>1, <2>2 DEF OneWrites, Writing
<1>3. CASE Change \/ UNCHANGED vars
  BY <1>3 DEF Change, vars, memory_vars, settled_vars, OneWrites, Writing, Current
<1> QED
  BY <1>1, <1>2, <1>3 DEF Next

\* What a run that is neither overtaken nor misled writes redirects, to one that
\* works, whoever needs it and was redirected.
LEMMA RecordKeepsIt ==
  ASSUME TypeOK, WorksInv, OneWrites, NEW r \in Runs, Record(r), ~ Overtaken(r),
         first[r] # "failed", NEW v \in Versions, v > runtime,
         Lookup(memory, v) \in 1 .. runtime
  PROVE  Lookup(memory', v) \in 1 .. runtime
<1>1. /\ pc[r] = "recording" /\ resolved[r] \in 1 .. runtime
      /\ memory' = [too_new |-> Merge(entries[r], requested[r]), works |-> resolved[r],
                    expired |-> FALSE]
  BY DEF Record, WorksInv, RunWorks
<1>2. Current(r)
  BY <1>1 DEF Overtaken, OneWrites, Writing, Current
<1>3. entries[r].too_new = memory.too_new
  <2>1. entries[r] \in Entries
    BY DEF TypeOK
  <2> QED
    BY <1>2, <2>1 DEF Current, Entries
<1>4. /\ runtime \in Nat /\ requested[r] \in Nat /\ memory.too_new \in Nat /\ v \in Nat
      /\ resolved[r] \in Nat
  BY TypeFacts, ConstantFacts
<1>5. v >= memory.too_new
  BY <1>4 DEF Lookup
<1>6. Merge(entries[r], requested[r]) <= v
  BY <1>3, <1>4, <1>5 DEF Merge
<1>7. ~ (v < Merge(entries[r], requested[r])) /\ ~ (resolved[r] >= v)
  BY <1>1, <1>3, <1>4, <1>6 DEF Merge
<1> QED
  BY <1>1, <1>7 DEF Lookup

KeptInv == TypeOK /\ LoopInv /\ WorksInv /\ OneWrites

\* A redirect that works, of a version that does not, is not lost to what
\* another run writes or drops, in whatever processes they run and whatever
\* fails, unless that run was overtaken by one of another process or misled.
THEOREM TheVerdictIsKept == Spec => VerdictsKept
<1>1. Init => KeptInv
  <2> SUFFICES ASSUME Init PROVE KeptInv
    OBVIOUS
  <2>1. runtime \in 0 .. Newest
    BY VersionsAssumption DEF Init
  <2>2. TypeOK /\ LoopInv /\ WorksInv
    BY <2>1, InitType DEF Init, LoopInv, NoEntry, WorksInv, RememberedWorks, RunWorks, Unsettled
  <2>3. OneWrites
    BY DEF Init, OneWrites, Writing
  <2> QED
    BY <2>2, <2>3 DEF KeptInv
<1>2. KeptInv /\ [Next]_vars => KeptInv'
  BY TypeStep, LoopStep, NextWorks, NextOneWrites DEF KeptInv
<1>3. KeptInv /\ [Next]_vars =>
        [KeepsVerdicts(\E r \in Runs : Saves(r) /\ (Overtaken(r) \/ Misled(r)))]_memory
  <2> SUFFICES ASSUME KeptInv, [Next]_vars, memory' # memory, NEW v \in Versions, v > runtime,
                      Lookup(memory, v) \in 1 .. runtime
               PROVE  \/ Lookup(memory', v) \in 1 .. runtime \/ memory'.expired
                      \/ \E r \in Runs : Saves(r) /\ (Overtaken(r) \/ Misled(r))
    BY DEF KeepsVerdicts
  <2>1. Expire \/ \E r \in Runs : Forget(r) \/ Record(r)
    BY DEF Next, vars, Begin, First, StepNowhere, StepBack, Try, More, End, Change, memory_vars
  <2>2. CASE Expire
    BY <2>2 DEF Expire, KeptInv, TypeOK, Entries
  <2>3. ASSUME NEW r \in Runs, Forget(r) PROVE Saves(r) /\ Misled(r)
    BY <2>3 DEF Forget, Saves, Misled, KeptInv, WorksInv, RunWorks, TypeOK
  <2>4. ASSUME NEW r \in Runs, Record(r), ~ Overtaken(r), ~ Misled(r)
        PROVE  Lookup(memory', v) \in 1 .. runtime
    <3>1. first[r] # "failed"
      BY <2>4 DEF Record, Misled
    <3> QED
      BY <2>4, <3>1, RecordKeepsIt DEF KeptInv
  <2>5. ASSUME NEW r \in Runs, Record(r) PROVE Saves(r)
    BY <2>5 DEF Record, Saves, KeptInv, TypeOK
  <2> QED
    BY <2>1, <2>2, <2>3, <2>4, <2>5
<1> QED
  BY <1>1, <1>2, <1>3, PTL DEF Spec, VerdictsKept
=============================================================================
