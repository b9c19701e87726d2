----------------------------- MODULE SshSession -----------------------------
(***************************************************************************)
(* transports/ssh.py as the orchestrator's group uses it: one evaluation   *)
(* after the other, single expressions and batches, over one connection    *)
(* that is replaced when a command on it does not answer.                  *)
(*                                                                         *)
(* What a command does on the target is Provision's matter; here one       *)
(* stands for all that go before qna itself ("locating").                  *)
(***************************************************************************)
EXTENDS Naturals, FiniteSets

CONSTANTS Expressions,  \* what the group evaluates
          Slow,         \* those qna takes too long over, wherever it runs
          Conns,        \* connections that can be had at one time
          NoConn,       \* not one of them
          Windows       \* the target takes one batch in several qna runs

VARIABLES
  \* the transport
  runner,        \* _runner
  conn,          \* connections, by what becomes of commands sent on them
  spec,          \* _spec is known
  showtypes,     \* _showtypes_supported
  last,          \* _last_timed_out, {} for None
  unresponsive,  \* _unresponsive is set
  \* the evaluation under way, and the cleaning up after a command of it
  step, call, hang,
  \* what it comes to
  batching,      \* no batch has been handed back yet
  result,        \* of each expression
  \* the target
  mood,          \* "slow": it fails at nothing but what is slow
  alive,         \* qna runs nobody waits for, by their lines
  excused,       \* those it was said of, or whose cleaning up was cancelled
  unheard,       \* those whose connection went, or that the kill did not stop
  \* history: the expressions qna did not answer alone, since it last answered
  hung

session_vars == <<runner, conn, spec, showtypes, last, unresponsive>>
call_vars == <<step, call, hang>>
target_vars == <<mood, alive, excused, unheard>>
vars == <<session_vars, call_vars, batching, result, target_vars, hung>>

\* What a command's input, or the command itself, consists of.
Lines == Expressions \cup {"probing", "locating"}

Steps == {"idle", "connecting", "probing", "locating", "running", "untyped",
          "dropping", "reaching", "killing", "releasing", "released"}
Commands == {"probing", "locating", "running", "untyped"}

\* A call: the expressions its qna run under way answers, those of earlier runs
\* and those of later ones.
NoCall == [batch |-> FALSE, lines |-> {}, done |-> {}, rest |-> {}]
NoHang == [stuck |-> NoConn, fresh |-> NoConn, cancelled |-> FALSE, qna |-> FALSE]

Init ==
  /\ runner = NoConn /\ conn = [c \in Conns |-> "closed"]
  /\ spec \in BOOLEAN /\ showtypes = TRUE
  /\ last = {} /\ unresponsive = FALSE
  /\ step = "idle" /\ call = NoCall /\ hang = NoHang
  /\ batching = TRUE
  /\ result = [e \in Expressions |-> "none"]
  /\ mood \in {"slow", "faulty"}
  /\ alive = {} /\ excused = {} /\ unheard = {}
  /\ hung = {}

-----------------------------------------------------------------------------
(* The evaluations. *)

Unanswered == {e \in Expressions : result[e] = "none"}

\* What comes first on a connection.
Following == IF spec THEN "locating" ELSE "probing"

\* The first qna run of S: of a batch on Windows, as much as one stdin may hold.
Runs(S, batch) == IF batch /\ Windows THEN (SUBSET S) \ {{}} ELSE {S}

\* "One failed chunk per group is the most batching may cost."
StillBatching(batch, r) == batching /\ (batch => r = "answer")

\* The end of an evaluation of S.  A batch that fails is handed back: its
\* expressions are evaluated singly, as are all that follow.
End(S, batch, r) ==
  /\ result' = [e \in Expressions |->
                  IF e \in S /\ (batch => r = "answer") THEN r ELSE result[e]]
  /\ batching' = StillBatching(batch, r)
  /\ step' = "idle" /\ call' = NoCall /\ hang' = NoHang

Answers == End(call.done \cup call.lines, call.batch, "answer")
Fails   == End(call.lines, call.batch, "failure")
Goes(s) == step' = s /\ UNCHANGED <<batching, result>>

\* _connection: a transport given up on sends nothing.
Begin(S, batch) ==
  /\ step = "idle"
  /\ \/ /\ unresponsive
        /\ End(S, batch, "failure")
     \/ /\ ~ unresponsive
        /\ \E lines \in Runs(S, batch) :
             call' = [batch |-> batch, lines |-> lines, done |-> {}, rest |-> S \ lines]
        /\ Goes(IF runner = NoConn THEN "connecting" ELSE Following)
        /\ UNCHANGED hang
  /\ UNCHANGED <<session_vars, target_vars, hung>>

Single == \E e \in Unanswered : Begin({e}, FALSE)

\* The first expression goes alone.
Batch == /\ batching /\ Unanswered # Expressions
         /\ \E S \in SUBSET Unanswered : Cardinality(S) > 1 /\ Begin(S, TRUE)

Unused == CHOOSE c \in Conns : conn[c] = "closed"

\* Connecting succeeds, is refused, or is given up after timeout_s.
Connect ==
  /\ step = "connecting"
  /\ \/ /\ runner' = Unused
        /\ conn' = [conn EXCEPT ![Unused] = "open"]
        /\ Goes(Following) /\ UNCHANGED <<call, hang, unresponsive>>
     \/ /\ mood = "faulty"
        /\ unresponsive' \in BOOLEAN
        /\ Fails /\ UNCHANGED <<runner, conn>>
  /\ UNCHANGED <<spec, showtypes, last, target_vars, hung>>

\* The platform is known, and the qna to run.
Located ==
  /\ step \in {"probing", "locating"} /\ conn[runner] = "open"
  /\ spec' = TRUE
  /\ Goes(IF step = "probing" THEN "locating" ELSE "running")
  /\ UNCHANGED <<runner, conn, showtypes, last, unresponsive, call, hang, target_vars,
                 hung>>

\* qna answers.  A batch goes on to its next run.
Answer ==
  /\ step \in {"running", "untyped"} /\ conn[runner] = "open"
  /\ mood = "slow" => call.lines \cap Slow = {}
  /\ last' = IF step = "running" THEN {} ELSE last
  /\ hung' = {}
  /\ \/ /\ call.rest = {}
        /\ Answers
     \/ /\ \E lines \in Runs(call.rest, TRUE) \ {{}} :
             call' = [call EXCEPT !.lines = lines, !.done = @ \cup call.lines,
                                  !.rest = @ \ lines]
        /\ Goes("running") /\ UNCHANGED hang
  /\ UNCHANGED <<runner, conn, spec, showtypes, unresponsive, target_vars>>

\* qna does not know -showtypes: a single evaluation is done again without,
\* and so are all after it.  A batch learns nothing and is handed back.
Untyped ==
  /\ step = "running" /\ showtypes /\ conn[runner] = "open"
  /\ last' = {} /\ hung' = {}
  /\ \/ /\ ~ call.batch
        /\ showtypes' = FALSE
        /\ Goes("untyped") /\ UNCHANGED <<call, hang>>
     \/ /\ call.batch
        /\ Fails /\ UNCHANGED showtypes
  /\ UNCHANGED <<runner, conn, spec, unresponsive, target_vars>>

InQna == step \in {"running", "untyped"}

\* The call's qna goes on, and nobody is told.
GoesOn == alive' = alive \cup {call.lines} /\ unheard' = unheard \cup {call.lines}

\* A command fails at once: no qna there, no tools to unpack it, a session
\* refused, or the connection lost, which nothing replaces.  Its failure is no
\* timeout, so that a qna under way is not looked for.
Refuse ==
  /\ mood = "faulty" /\ step \in Commands
  /\ \/ UNCHANGED <<conn, alive, unheard>>
     \/ /\ conn' = [conn EXCEPT ![runner] = "lost"]
        /\ \/ UNCHANGED <<alive, unheard>>
           \/ InQna /\ conn[runner] = "open" /\ GoesOn
  /\ Fails
  /\ UNCHANGED <<runner, spec, showtypes, last, unresponsive, mood, excused, hung>>

-----------------------------------------------------------------------------
(* Commands that do not answer: _GuardedRunner.run and _after_hang. *)

\* Mutant: only the first run of qna carries a marker.
FirstIsMarked == step = "running"

\* The command carries a marker to find its qna by.
Marked == InQna
Input == IF InQna THEN call.lines ELSE {step}

\* Mutant: only the very same input is the same.
SameExactly(lines) == lines = last

\* Nothing new timed out: "one slow expression heading a chunk times out
\* twice, in its batch and then alone".
Same(lines) == lines \subseteq last

\* The timeout is up, or the group is cancelled.
Hang(cancelled) ==
  /\ step \in Commands /\ conn[runner] = "open"
  /\ mood = "faulty" \/ cancelled \/ (InQna /\ call.lines \cap Slow # {})
  /\ hang' = [stuck |-> runner, fresh |-> NoConn, cancelled |-> cancelled, qna |-> Marked]
  /\ conn' = [conn EXCEPT ![runner] = "stuck"]
  /\ runner' = NoConn
  /\ alive' = IF InQna THEN alive \cup {call.lines} ELSE alive
  /\ IF cancelled
     THEN UNCHANGED <<last, unresponsive, hung>>
     ELSE /\ unresponsive' = (last # {} /\ ~ Same(Input))
          /\ last' = Input
          /\ hung' = IF call.batch \/ ~ InQna THEN hung ELSE hung \cup call.lines
  /\ Goes("dropping")
  /\ UNCHANGED <<spec, showtypes, call, mood, excused, unheard>>

\* The command's failure is reported, or the cancellation goes on.
Raise ==
  IF hang.cancelled
  THEN /\ step' = "releasing" /\ call' = NoCall /\ hang' = NoHang
       /\ UNCHANGED <<batching, result>>
  ELSE Fails

\* The connection goes.  Only a qna run is looked for on the target.
Drop ==
  /\ step = "dropping"
  /\ conn' = [conn EXCEPT ![hang.stuck] = "closed"]
  /\ IF hang.qna THEN Goes("reaching") /\ UNCHANGED <<call, hang>> ELSE Raise
  /\ UNCHANGED <<runner, spec, showtypes, last, unresponsive, target_vars, hung>>

\* A fresh connection, to stop it over.
Reach ==
  /\ step = "reaching"
  /\ conn' = [conn EXCEPT ![Unused] = "open"]
  /\ hang' = [hang EXCEPT !.fresh = Unused]
  /\ Goes("killing")
  /\ UNCHANGED <<runner, spec, showtypes, last, unresponsive, call, target_vars, hung>>

Closing(c) == IF c = NoConn THEN conn ELSE [conn EXCEPT ![c] = "closed"]

\* "The next command reuses the connection that just answered."
Keeps == runner = NoConn /\ ~ unresponsive

\* The kill is answered, whether it stopped anything or not: it ends in "true",
\* and sudo may not allow pkill.
Kill ==
  /\ step = "killing"
  /\ \/ alive' = alive \ {call.lines} /\ UNCHANGED unheard
     \/ mood = "faulty" /\ GoesOn
  /\ IF Keeps
     THEN runner' = hang.fresh /\ UNCHANGED conn
     ELSE conn' = Closing(hang.fresh) /\ UNCHANGED runner
  /\ Raise
  /\ UNCHANGED <<spec, showtypes, last, unresponsive, mood, excused, hung>>

\* It cannot be stopped: the user is told, the target is given up on.
CannotKill ==
  /\ mood = "faulty" /\ step \in {"reaching", "killing"}
  /\ conn' = Closing(hang.fresh)
  /\ excused' = excused \cup {call.lines}
  /\ unresponsive' = (unresponsive \/ ~ hang.cancelled)
  /\ Raise
  /\ UNCHANGED <<runner, spec, showtypes, last, mood, alive,
                 unheard, hung>>

\* A cancellation ends the cleaning up.  The stuck connection's closing has
\* begun by then.
CancelCleanup ==
  /\ step \in {"dropping", "reaching", "killing"}
  /\ conn' = [Closing(hang.fresh) EXCEPT ![hang.stuck] = "closed"]
  /\ excused' = excused \cup {call.lines}
  /\ step' = "releasing" /\ call' = NoCall /\ hang' = NoHang
  /\ UNCHANGED <<runner, spec, showtypes, last, unresponsive, batching, result, mood,
                 alive, unheard, hung>>

\* The group ends, or is cancelled outside a command, and releases the
\* transport: aclose.
Release ==
  /\ step \in {"idle", "connecting", "releasing"}
  /\ step = "idle" => Unanswered = {}
  /\ conn' = Closing(runner)
  /\ runner' = NoConn
  /\ step' = "released" /\ call' = NoCall
  /\ UNCHANGED <<spec, showtypes, last, unresponsive, hang, batching, result, target_vars,
                 hung>>

Next ==
  \/ Single \/ Batch \/ Connect \/ Located \/ Answer \/ Untyped \/ Refuse
  \/ (\E cancelled \in BOOLEAN : Hang(cancelled))
  \/ Drop \/ Reach \/ Kill \/ CannotKill \/ CancelCleanup \/ Release

\* The group goes on; a command is answered, or its timeout is up.
Fairness == WF_vars(Next)
Spec == Init /\ [][Next]_vars /\ Fairness

-----------------------------------------------------------------------------
(* Properties. *)

TypeOK ==
  /\ runner \in Conns \cup {NoConn}
  /\ conn \in [Conns -> {"closed", "open", "stuck", "lost"}]
  /\ spec \in BOOLEAN /\ showtypes \in BOOLEAN /\ unresponsive \in BOOLEAN
  /\ last \subseteq Lines
  /\ step \in Steps
  /\ call \in [batch : BOOLEAN, lines : SUBSET Expressions, done : SUBSET Expressions,
               rest : SUBSET Expressions]
  /\ hang \in [stuck : Conns \cup {NoConn}, fresh : Conns \cup {NoConn},
               cancelled : BOOLEAN, qna : BOOLEAN]
  /\ batching \in BOOLEAN
  /\ result \in [Expressions -> {"none", "answer", "failure"}]
  /\ mood \in {"slow", "faulty"}
  /\ alive \subseteq SUBSET Expressions /\ excused \subseteq SUBSET Expressions
  /\ unheard \subseteq SUBSET Expressions
  /\ hung \subseteq Expressions

\* A connection a command did not answer on is closed, and none of those made
\* for cleaning up is forgotten: between evaluations there is at most the one
\* the next will use, and none is left once the transport is released.
OneConnection ==
  step \in {"idle", "released"} =>
    \A c \in Conns : /\ c = runner => conn[c] \in {"open", "lost"} /\ step = "idle"
                     /\ c # runner => conn[c] = "closed"

\* A qna that did not answer is stopped, or the user is told it may still run,
\* whatever fails and in whichever run of a batch.  What may go on unmentioned
\* was under way when its connection was lost, was asked to stop and did not, or
\* was being stopped when the group was cancelled.
HungIsStopped == step \in {"idle", "released"} => alive \subseteq excused \cup unheard

\* Nothing is left behind, on either side of a connection.
LeavesNothing == OneConnection /\ HungIsStopped

\* "One slow expression ... without saying anything about the rest": it never
\* makes the transport give the target up, in a batch or alone, and everything
\* else in the group is answered.
SlowCostsOnlyItself ==
  mood = "slow" => /\ ~ unresponsive
                   /\ \A e \in Expressions \ Slow : result[e] # "failure"

\* Two expressions whose qna did not answer in a row are the last to be waited
\* for: a dead target costs two timeouts, not one for each expression.
GivesUpOnQna == step = "idle" /\ Cardinality(hung) > 1 => unresponsive

\* A target is given up when it is dead, and not for one slow expression.
GivesUpRightly == SlowCostsOnlyItself /\ GivesUpOnQna

\* The end of a group's session.
Released == step = "released"
=============================================================================
