----------------------------- MODULE FastQuery -----------------------------
(***************************************************************************)
(* transports/fastquery.py: one evaluation, of an expression or of a tuple *)
(* of them, on many computers -- by one query for all of them, or by one   *)
(* query for each with a cap on the server calls in flight.                *)
(*                                                                         *)
(* Time is discrete, and the event loop handles what is due before time    *)
(* goes on.  The server keeps the answers; a call takes any time.          *)
(***************************************************************************)
EXTENDS Naturals, FiniteSets, FiniteSetsExt

CONSTANTS Computers,
          Deadline,   \* timeout_s
          Floor,      \* CALL_FLOOR_S
          PollFirst, PollMax,  \* POLL_FIRST_S, POLL_MAX_S
          MaxCalls    \* MAX_CONCURRENT_CALLS

\* The clock's last value, past anything the code waits for.
Horizon == Deadline + Floor + 1

Queries == {Computers} \cup {{c} : c \in Computers}

VARIABLES
  now,
  split,    \* _one_computer_per_query
  tuple,    \* the expressions were sent as one tuple
  clean,    \* computers whose answer to a tuple splits
  quick,    \* the server answers every call at once and refuses none
  state,    \* where each query is
  until,    \* when its sleep ends, or its call times out
  delay,    \* its next sleep
  rows,     \* computers in the latest results
  checked,  \* results have been asked for
  error,    \* why it has no more
  base,     \* what the server held when the results call began
  server,   \* computers whose answer the server holds
  inTime,   \* those that answered before the deadline
  outcome   \* what is said of each computer

choices == <<split, tuple, clean, quick>>
query_vars == <<state, until, delay, rows, checked, error, base>>
server_vars == <<server, inTime>>
vars == <<now, choices, query_vars, server_vars, outcome>>

States == {"idle", "resolving", "queued", "submitting", "sleeping", "due", "checking", "done"}
Errors == {"none", "not submitted", "submit", "results"}
Calling == {"submitting", "checking"}
Outcomes == {"none", "answer", "silent", "failed", "handed back"}

Used == IF split THEN {{c} : c \in Computers} ELSE {Computers}

Init ==
  /\ now = 0
  /\ split \in BOOLEAN /\ tuple \in BOOLEAN /\ quick \in BOOLEAN
  /\ clean \in IF tuple THEN SUBSET Computers ELSE {Computers}
  /\ state = [q \in Queries |-> IF q \in Used THEN "resolving" ELSE "idle"]
  /\ until = [q \in Queries |-> 0] /\ delay = [q \in Queries |-> PollFirst]
  /\ rows = [q \in Queries |-> {}] /\ base = [q \in Queries |-> {}]
  /\ checked = [q \in Queries |-> FALSE]
  /\ error = [q \in Queries |-> "none"]
  /\ server = {} /\ inTime = {}
  /\ outcome = [c \in Computers |-> "none"]

-----------------------------------------------------------------------------
(* The calls. *)

\* Mutant: each call has a floor of its own.
OwnFloor == now + Max({Deadline - now, Floor})

\* _call: until the deadline, the floor at least, but never past the hard stop.
Limit == Min({Max({Deadline, now + Floor}), Deadline + Floor})

\* A slot among the calls in flight, for one query per computer.
Slot == split => Cardinality({q \in Used : state[q] \in Calling}) < MaxCalls

Goto(q, s) == state' = [state EXCEPT ![q] = s]
Ends(q, e) == /\ Goto(q, "done")
              /\ error' = [error EXCEPT ![q] = e]

\* The computers to query are known, or computer_query fails or times out.
Resolve ==
  /\ \E q \in Used : state[q] = "resolving"
  /\ \/ /\ state' = [q \in Queries |-> IF q \in Used THEN "queued" ELSE "idle"]
        /\ UNCHANGED error
     \/ /\ ~ quick
        /\ state' = [q \in Queries |-> IF q \in Used THEN "done" ELSE "idle"]
        /\ error' = [q \in Queries |-> IF q \in Used THEN "submit" ELSE "none"]
  /\ UNCHANGED <<now, choices, until, delay, rows, checked, base, server_vars, outcome>>

\* One computer's query is not sent past the deadline: "its answer could not
\* count anyway".  A query for all of them is, up to the hard stop.
Submit(q) ==
  /\ state[q] = "queued" /\ Slot
  /\ IF now >= (IF split THEN Deadline ELSE Deadline + Floor)
     THEN Ends(q, "not submitted") /\ UNCHANGED until
     ELSE /\ Goto(q, "submitting")
          /\ until' = [until EXCEPT ![q] = Limit]
          /\ UNCHANGED error
  /\ UNCHANGED <<now, choices, delay, rows, checked, base, server_vars, outcome>>

\* "The last check always lands on the timeout."
Wake(q) == Min({now + delay[q], Deadline})

\* Mutant: past the deadline there is no check.
NoCheckDue(q) == FALSE

\* "There is always at least one check."
CheckDue(q) == ~ checked'[q]

TimeLeft(q) == now < Deadline

\* _poll's loop, from its condition to the check: it sleeps while time is left.
Poll(q) ==
  IF TimeLeft(q)
  THEN /\ Goto(q, "sleeping")
       /\ until' = [until EXCEPT ![q] = Wake(q)]
       /\ delay' = [delay EXCEPT ![q] = Min({@ + 1, PollMax})]
       /\ UNCHANGED error
  ELSE /\ IF CheckDue(q) THEN Goto(q, "due") /\ UNCHANGED error ELSE Ends(q, "none")
       /\ UNCHANGED <<until, delay>>

\* The submit is accepted, or refused; it is never sent again.
Submitted(q) ==
  /\ state[q] = "submitting"
  /\ UNCHANGED checked
  /\ \/ Poll(q)
     \/ ~ quick /\ Ends(q, "submit") /\ UNCHANGED <<until, delay>>
  /\ UNCHANGED <<now, choices, rows, base, server_vars, outcome>>

Awake(q) ==
  /\ state[q] = "sleeping" /\ until[q] <= now
  /\ Goto(q, "due")
  /\ UNCHANGED <<now, choices, until, delay, rows, checked, error, base, server_vars, outcome>>

\* The results are asked for, unless the hard stop has passed by now.
Check(q) ==
  /\ state[q] = "due" /\ Slot
  /\ checked' = [checked EXCEPT ![q] = TRUE]
  /\ IF now >= Deadline + Floor
     THEN Ends(q, "results") /\ UNCHANGED <<until, base>>
     ELSE /\ Goto(q, "checking")
          /\ until' = [until EXCEPT ![q] = Limit]
          /\ base' = [base EXCEPT ![q] = server \cap q]
          /\ UNCHANGED error
  /\ UNCHANGED <<now, choices, delay, rows, server_vars, outcome>>

\* "Each poll returns everything and the latest one wins."  An error ends it;
\* a call that raises takes the rows seen so far with it.
Results(q) ==
  /\ state[q] = "checking" /\ UNCHANGED checked
  /\ \/ \E S \in SUBSET (server \cap q) :
          /\ base[q] \subseteq S
          /\ rows' = [rows EXCEPT ![q] = S]
          /\ IF S = q THEN Ends(q, "none") /\ UNCHANGED <<until, delay>> ELSE Poll(q)
     \/ /\ ~ quick /\ Ends(q, "results")
        /\ rows' \in {rows, [rows EXCEPT ![q] = {}]}
        /\ UNCHANGED <<until, delay>>
  /\ UNCHANGED <<now, choices, base, server_vars, outcome>>

\* wait_for's limit is up.
CallTimeout(q) ==
  /\ state[q] \in Calling /\ until[q] <= now
  /\ Ends(q, IF state[q] = "submitting" THEN "submit" ELSE "results")
  /\ UNCHANGED <<now, choices, until, delay, rows, checked, base, server_vars, outcome>>

-----------------------------------------------------------------------------
(* The outcome. *)

\* Computers without rows whose query was not polled to the end.
Failed == {c \in Computers : \E q \in Used : /\ c \in q \ rows[q]
                                             /\ error[q] # "none"}
Answered == UNION {rows[q] : q \in Used}

\* A tuple is handed back unless every answer splits and no query failed.
Clean == Answered \subseteq clean

Untrusted == tuple /\ ~ (Clean /\ Failed = {} /\ (split \/ error[Computers] = "none"))

Over == \A q \in Used : state[q] = "done"

\* _merge: what answered, then what did not, each computer once.
Merge ==
  /\ Over
  /\ \E c \in Computers : outcome[c] = "none"
  /\ outcome' = [c \in Computers |->
                   IF Untrusted THEN "handed back"
                   ELSE IF c \in Answered THEN "answer"
                   ELSE IF c \in Failed THEN "failed" ELSE "silent"]
  /\ UNCHANGED <<now, choices, query_vars, server_vars>>

-----------------------------------------------------------------------------
(* The computers, and time. *)

\* A computer can answer once its query may have reached the server.
Reply(c) ==
  /\ c \notin server
  /\ \E q \in Used : /\ c \in q
                     /\ state[q] \notin {"resolving", "queued"}
                     /\ error[q] # "not submitted"
  /\ server' = server \cup {c}
  /\ inTime' = IF now < Deadline THEN inTime \cup {c} ELSE inTime
  /\ UNCHANGED <<now, choices, query_vars, outcome>>

\* Nothing that is due, and nothing a quick server has to answer.
Settled ==
  /\ \A q \in Used : /\ state[q] = "sleeping" => until[q] > now
                     /\ state[q] \in Calling => until[q] > now /\ ~ quick
                     /\ state[q] \in {"queued", "due"} => ~ Slot
                     /\ state[q] = "resolving" =>
                          now < Max({Deadline, Floor}) /\ ~ quick
  /\ ~ Over

Tick == /\ Settled /\ now < Horizon
        /\ now' = now + 1
        /\ UNCHANGED <<choices, query_vars, server_vars, outcome>>

Next == \/ Resolve \/ Merge \/ Tick
        \/ \E q \in Used : \/ Submit(q) \/ Submitted(q) \/ Awake(q) \/ Check(q)
                           \/ Results(q) \/ CallTimeout(q)
        \/ \E c \in Computers : Reply(c)

\* Time passes, calls come back or time out, and the loop runs what is due.
Fairness == WF_vars(Next)
Spec == Init /\ [][Next]_vars /\ Fairness

-----------------------------------------------------------------------------
(* Properties. *)

TypeOK ==
  /\ now \in Nat
  /\ split \in BOOLEAN /\ tuple \in BOOLEAN /\ quick \in BOOLEAN
  /\ state \in [Queries -> States] /\ until \in [Queries -> Nat]
  /\ delay \in [Queries -> Nat] /\ checked \in [Queries -> BOOLEAN]
  /\ error \in [Queries -> Errors]
  /\ \A q \in Queries : rows[q] \subseteq q /\ base[q] \subseteq q
  /\ clean \subseteq Computers /\ server \subseteq Computers /\ inTime \subseteq server
  /\ outcome \in [Computers -> Outcomes]

\* "Computers that answered must not be reported as silent": one said to be
\* silent had not answered when its results were last asked for, and they were
\* asked for, however long resolving and submitting took.
SilentIsSilent ==
  \A c \in Computers : outcome[c] = "silent" =>
    \E q \in Used : c \in q /\ checked[q] /\ c \notin base[q]

\* With a server that keeps up, the cap and the polling lose nobody: whoever
\* answers in time is heard.
QuickLosesNobody ==
  quick => \A c \in Computers :
             /\ outcome[c] # "failed"
             /\ c \in inTime => outcome[c] \in {"none", "answer", "handed back"}

\* A tuple that is not handed back says of each computer what the expressions
\* alone would have: an answer that splits, or a silence after a clean poll.
TupleIsTrue ==
  \A c \in Computers :
    tuple /\ outcome[c] \in {"answer", "silent", "failed"} =>
      /\ outcome[c] = "answer" => c \in clean
      /\ outcome[c] # "failed"
      /\ \E q \in Used : c \in q /\ (error[q] = "none" \/ c \in rows[q])

\* What is said of a computer is true of it.
ResultsAreTrue == SilentIsSilent /\ QuickLosesNobody /\ TupleIsTrue

\* "One hard stop shared by every call": many computers behind the cap do not
\* add their floors up.
HardStop == now <= Deadline + Floor

\* An evaluation has ended: a result for every computer, or all handed back.
Reported == \A c \in Computers : outcome[c] # "none"
=============================================================================
