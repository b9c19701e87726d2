--------------------------- MODULE EvaluateProofs ---------------------------
(***************************************************************************)
(* What the evaluate run shows of five expressions that share runs, of two *)
(* computers and of four expressions over ssh, for any number of them: an  *)
(* answer is its expression's own and sharing pays, FastQuery stops in     *)
(* time and says of every computer what is true, SSH leaves nothing behind *)
(* and gives up a dead target only.                                        *)
(***************************************************************************)
EXTENDS MCEvaluate, SelectionProofs, FiniteSetTheorems, TLAPS

allVars == <<of, vars, queryVars, sshVars>>

-----------------------------------------------------------------------------
(* FastQuery: types. *)

LEMMA QuerySteps == [MCNext]_allVars => [Query!Next]_(Query!vars)
<1> QED
  BY DEF allVars, MCNext, queryVars, Query!vars, Query!choices, Query!query_vars,
         Query!server_vars

LEMMA Times ==
  /\ Deadline \in Nat /\ Floor \in Nat /\ Floor >= 1
  /\ PollFirst \in Nat /\ PollFirst >= 1 /\ PollMax \in Nat /\ PollMax >= 1
  /\ MaxCalls \in Nat /\ MaxCalls >= 1
<1> QED
  BY TimesAssumption

LEMMA MinMax ==
  ASSUME NEW a \in Nat, NEW b \in Nat
  PROVE  /\ Query!Max({a, b}) = IF a >= b THEN a ELSE b
         /\ Query!Min({a, b}) = IF a <= b THEN a ELSE b
<1>1. Query!Max({a, b}) \in {a, b} /\ \A y \in {a, b} : Query!Max({a, b}) >= y
  BY DEF Query!Max
<1>2. Query!Min({a, b}) \in {a, b} /\ \A y \in {a, b} : Query!Min({a, b}) <= y
  BY DEF Query!Min
<1> QED
  BY <1>1, <1>2

LEMMA NoneCalling == Query!Cardinality({}) < MaxCalls
<1>1. Query!Cardinality({}) = Cardinality({})
  BY DEF Query!Cardinality, Cardinality
<1> QED
  BY <1>1, FS_EmptySet, Times

QueryTypes == /\ Query!TypeOK
              /\ rows \in [Query!Queries -> SUBSET Computers]
              /\ base \in [Query!Queries -> SUBSET Computers]

LEMMA UsedFacts ==
  /\ Query!Used \subseteq Query!Queries
  /\ \A q \in Query!Queries : q \subseteq Computers
  /\ \A c \in Computers : \E q \in Query!Used : c \in q
  /\ ~ split => Query!Used = {Computers}
<1> QED
  BY DEF Query!Used, Query!Queries

\* A call's limit: past the deadline by the floor at most.
LEMMA LimitFacts ==
  ASSUME now \in Nat
  PROVE  /\ Query!Limit \in Nat /\ Query!Limit <= Deadline + Floor
         /\ now < Deadline + Floor => Query!Limit > now
<1> DEFINE m == Query!Max({Deadline, now + Floor})
<1>1. m = IF Deadline >= now + Floor THEN Deadline ELSE now + Floor
  BY Times, MinMax
<1>2. m \in Nat
  BY <1>1, Times
<1>3. Query!Limit = IF m <= Deadline + Floor THEN m ELSE Deadline + Floor
  BY <1>2, Times, MinMax DEF Query!Limit
<1> HIDE DEF m
<1> QED
  BY <1>1, <1>3, Times

LEMMA WakeFacts ==
  ASSUME now \in Nat, NEW q, delay[q] \in Nat
  PROVE  /\ Query!Wake(q) \in Nat /\ Query!Wake(q) <= Deadline
         /\ now < Deadline /\ delay[q] >= 1 => Query!Wake(q) > now
         /\ Query!Min({delay[q] + 1, PollMax}) \in Nat
         /\ Query!Min({delay[q] + 1, PollMax}) >= 1
<1>1. now + delay[q] \in Nat /\ delay[q] + 1 \in Nat
  OBVIOUS
<1>2. Query!Wake(q) = IF now + delay[q] <= Deadline THEN now + delay[q] ELSE Deadline
  BY <1>1, Times, MinMax DEF Query!Wake
<1>3. Query!Min({delay[q] + 1, PollMax})
        = IF delay[q] + 1 <= PollMax THEN delay[q] + 1 ELSE PollMax
  BY <1>1, Times, MinMax
<1> QED
  BY <1>1, <1>2, <1>3, Times

\* What a step of one query does to it, and that it does nothing to others.
QueryStep(q) == \/ Query!Submit(q) \/ Query!Submitted(q) \/ Query!Awake(q)
                \/ Query!Check(q) \/ Query!Results(q) \/ Query!CallTimeout(q)

LEMMA InitQueryTypes == Query!Init => QueryTypes
<1> QED
  BY Times DEF Query!Init, QueryTypes, Query!TypeOK, Query!States, Query!Errors,
               Query!Outcomes

LEMMA PollTypes ==
  ASSUME QueryTypes, NEW q \in Query!Queries, Query!Poll(q)
  PROVE  /\ state' \in [Query!Queries -> Query!States]
         /\ until' \in [Query!Queries -> Nat] /\ delay' \in [Query!Queries -> Nat]
         /\ error' \in [Query!Queries -> Query!Errors]
<1>1. /\ now \in Nat /\ delay[q] \in Nat /\ state \in [Query!Queries -> Query!States]
      /\ until \in [Query!Queries -> Nat] /\ delay \in [Query!Queries -> Nat]
      /\ error \in [Query!Queries -> Query!Errors]
  BY DEF QueryTypes, Query!TypeOK
<1>2. Query!Wake(q) \in Nat /\ Query!Min({delay[q] + 1, PollMax}) \in Nat
  BY <1>1, WakeFacts
<1>3. CASE Query!TimeLeft(q)
  <2>1. /\ state' = [state EXCEPT ![q] = "sleeping"] /\ error' = error
        /\ until' = [until EXCEPT ![q] = Query!Wake(q)]
        /\ delay' = [delay EXCEPT ![q] = Query!Min({delay[q] + 1, PollMax})]
    BY <1>1, <1>3 DEF Query!Poll, Query!Goto
  <2>2. "sleeping" \in Query!States
    BY DEF Query!States
  <2> QED
    BY <1>1, <1>2, <2>1, <2>2
<1>4. CASE ~ Query!TimeLeft(q)
  <2>1. /\ \/ state' = [state EXCEPT ![q] = "due"] /\ error' = error
           \/ state' = [state EXCEPT ![q] = "done"] /\ error' = [error EXCEPT ![q] = "none"]
        /\ UNCHANGED <<until, delay>>
    BY <1>4 DEF Query!Poll, Query!Goto, Query!Ends
  <2>2. {"due", "done"} \subseteq Query!States /\ "none" \in Query!Errors
    BY DEF Query!States, Query!Errors
  <2> QED
    BY <1>1, <2>1, <2>2
<1> QED
  BY <1>3, <1>4

LEMMA StepTypes ==
  ASSUME QueryTypes, NEW q \in Query!Used, QueryStep(q)
  PROVE  QueryTypes'
<1>1. /\ now \in Nat /\ state \in [Query!Queries -> Query!States]
      /\ until \in [Query!Queries -> Nat] /\ delay \in [Query!Queries -> Nat]
      /\ checked \in [Query!Queries -> BOOLEAN] /\ error \in [Query!Queries -> Query!Errors]
      /\ q \in Query!Queries /\ q \subseteq Computers /\ Query!Limit \in Nat
  BY UsedFacts, LimitFacts DEF QueryTypes, Query!TypeOK
<1>2. UNCHANGED <<now, split, tuple, clean, quick, server, inTime, outcome>>
  BY DEF QueryStep, Query!Submit, Query!Submitted, Query!Awake, Query!Check, Query!Results,
         Query!CallTimeout, Query!choices, Query!server_vars
<1>3. /\ state' \in [Query!Queries -> Query!States] /\ until' \in [Query!Queries -> Nat]
      /\ delay' \in [Query!Queries -> Nat] /\ error' \in [Query!Queries -> Query!Errors]
  <2>1. CASE Query!Submit(q) \/ Query!Awake(q) \/ Query!Check(q) \/ Query!CallTimeout(q)
    BY <1>1, <2>1 DEF Query!Submit, Query!Awake, Query!Check, Query!CallTimeout, Query!Goto,
                      Query!Ends, Query!States, Query!Errors
  <2>2. CASE Query!Poll(q)
    BY <1>1, <2>2, PollTypes
  <2>3. CASE /\ Query!Submitted(q) \/ Query!Results(q)
             /\ ~ Query!Poll(q)
    <3>1. PICK e \in Query!Errors : Query!Ends(q, e) /\ UNCHANGED <<until, delay>>
      BY <2>3 DEF Query!Submitted, Query!Results, Query!Errors
    <3>2. "done" \in Query!States
      BY DEF Query!States
    <3> QED
      BY <1>1, <3>1, <3>2 DEF Query!Ends, Query!Goto
  <2> QED
    BY <2>1, <2>2, <2>3 DEF QueryStep
<1>4. checked' \in [Query!Queries -> BOOLEAN]
  BY <1>1 DEF QueryStep, Query!Submit, Query!Submitted, Query!Awake, Query!Check,
              Query!Results, Query!CallTimeout
<1>5. /\ rows' \in [Query!Queries -> SUBSET Computers] /\ \A p \in Query!Queries : rows'[p] \subseteq p
      /\ base' \in [Query!Queries -> SUBSET Computers] /\ \A p \in Query!Queries : base'[p] \subseteq p
  <2>1. /\ rows \in [Query!Queries -> SUBSET Computers] /\ \A p \in Query!Queries : rows[p] \subseteq p
        /\ base \in [Query!Queries -> SUBSET Computers] /\ \A p \in Query!Queries : base[p] \subseteq p
    BY DEF QueryTypes, Query!TypeOK
  <2>2. CASE Query!Results(q)
    <3>1. PICK S \in SUBSET q : rows' \in {rows, [rows EXCEPT ![q] = S]}
      BY <2>2 DEF Query!Results
    <3>2. base' = base
      BY <2>2 DEF Query!Results
    <3> QED
      BY <1>1, <2>1, <3>1, <3>2
  <2>3. CASE ~ Query!Results(q)
    <3>1. rows' = rows /\ base' \in {base, [base EXCEPT ![q] = server \cap q]}
      BY <2>3 DEF QueryStep, Query!Submit, Query!Submitted, Query!Awake, Query!Check,
                  Query!CallTimeout
    <3> QED
      BY <1>1, <2>1, <3>1
  <2> QED
    BY <2>2, <2>3
<1> QED
  BY <1>2, <1>3, <1>4, <1>5 DEF QueryTypes, Query!TypeOK

LEMMA NextQueryTypes ==
  ASSUME QueryTypes, [Query!Next]_(Query!vars)
  PROVE  QueryTypes'
<1>1. CASE \E q \in Query!Used : QueryStep(q)
  BY <1>1, StepTypes
<1>2. CASE Query!Resolve
  <2>1. /\ state' \in [Query!Queries -> Query!States]
        /\ error' \in [Query!Queries -> Query!Errors]
    BY <1>2 DEF Query!Resolve, Query!States, Query!Errors, QueryTypes, Query!TypeOK
  <2> QED
    BY <1>2, <2>1 DEF Query!Resolve, QueryTypes, Query!TypeOK, Query!choices,
                      Query!server_vars
<1>3. CASE Query!Merge
  <2>1. outcome' \in [Computers -> Query!Outcomes]
    BY <1>3 DEF Query!Merge, Query!Outcomes
  <2> QED
    BY <1>3, <2>1 DEF Query!Merge, QueryTypes, Query!TypeOK, Query!choices, Query!query_vars,
                      Query!server_vars
<1>4. CASE Query!Tick
  BY <1>4 DEF Query!Tick, QueryTypes, Query!TypeOK, Query!choices, Query!query_vars,
              Query!server_vars
<1>5. CASE \E c \in Computers : Query!Reply(c)
  BY <1>5 DEF Query!Reply, QueryTypes, Query!TypeOK, Query!choices, Query!query_vars
<1>6. CASE UNCHANGED Query!vars
  BY <1>6 DEF Query!vars, QueryTypes, Query!TypeOK, Query!choices, Query!query_vars,
              Query!server_vars
<1> QED
  BY <1>1, <1>2, <1>3, <1>4, <1>5, <1>6 DEF Query!Next, QueryStep

-----------------------------------------------------------------------------
(* FastQuery: what holds of each query, with a server that keeps up and    *)
(* without.                                                                *)

\* It waits for nothing past the hard stop; and one that ends without an error
\* has been asked for its results, and has every row there was then.
Polled(q) ==
  /\ state[q] # "idle"
  /\ state[q] \in {"sleeping", "submitting", "checking"} => until[q] <= Deadline + Floor
  /\ state[q] \in {"resolving", "queued", "submitting"} => ~ checked[q]
  /\ state[q] = "checking" => checked[q]
  /\ state[q] \in {"sleeping", "due"} /\ checked[q] => base[q] \subseteq rows[q]
  /\ state[q] = "done" /\ error[q] = "none" => checked[q] /\ base[q] \subseteq rows[q]

\* No time passes while the server has anything to answer, so that a query gets
\* through its steps at once; its last results are asked for at the deadline.
KeptUp(q) ==
  /\ error[q] = "none" /\ delay[q] >= 1
  /\ state[q] \in {"resolving", "queued", "submitting"} => now = 0
  /\ state[q] # "done" => now <= Deadline
  /\ state[q] \in {"submitting", "checking"} => until[q] > now
  /\ state[q] = "sleeping" => until[q] <= Deadline
  /\ state[q] = "checking" /\ now >= Deadline => inTime \cap q \subseteq base[q]
  /\ state[q] = "done" => rows[q] = q \/ (now >= Deadline /\ inTime \cap q \subseteq rows[q])

QueryInv(q) == Polled(q) /\ (quick /\ Deadline > 0 => KeptUp(q))
QueriesInv == \A q \in Query!Used : QueryInv(q)

\* The computers are known for all queries at once.
Resolving == \A p, q \in Query!Used : state[p] = "resolving" => state[q] = "resolving"

LEMMA OtherQueries ==
  ASSUME QueryTypes, NEW q \in Query!Used, QueryStep(q), NEW p \in Query!Used, p # q
  PROVE  /\ state'[p] = state[p] /\ until'[p] = until[p] /\ delay'[p] = delay[p]
         /\ rows'[p] = rows[p] /\ checked'[p] = checked[p] /\ error'[p] = error[p]
         /\ base'[p] = base[p]
<1>1. /\ q \in Query!Queries /\ p \in Query!Queries
      /\ state \in [Query!Queries -> Query!States] /\ until \in [Query!Queries -> Nat]
      /\ delay \in [Query!Queries -> Nat] /\ rows \in [Query!Queries -> SUBSET Computers]
      /\ checked \in [Query!Queries -> BOOLEAN] /\ error \in [Query!Queries -> Query!Errors]
      /\ base \in [Query!Queries -> SUBSET Computers]
  BY UsedFacts DEF QueryTypes, Query!TypeOK
<1>2. CASE Query!Submit(q) \/ Query!Awake(q) \/ Query!Check(q) \/ Query!CallTimeout(q)
  BY <1>1, <1>2 DEF Query!Submit, Query!Awake, Query!Check, Query!CallTimeout, Query!Goto,
                    Query!Ends
<1>3. CASE Query!Submitted(q)
  BY <1>1, <1>3 DEF Query!Submitted, Query!Poll, Query!Goto, Query!Ends
<1>4. CASE Query!Results(q)
  BY <1>1, <1>4 DEF Query!Results, Query!Poll, Query!Goto, Query!Ends
<1> QED
  BY <1>2, <1>3, <1>4 DEF QueryStep

\* The three ways a poll goes on.
LEMMA PollGives ==
  ASSUME QueryTypes, NEW q \in Query!Queries, Query!Poll(q), checked' \in [Query!Queries -> BOOLEAN]
  PROVE  \/ /\ now < Deadline /\ state'[q] = "sleeping" /\ until'[q] <= Deadline
            /\ delay'[q] >= 1 /\ error'[q] = error[q]
         \/ /\ now >= Deadline /\ ~ checked'[q] /\ state'[q] = "due"
            /\ error'[q] = error[q] /\ delay'[q] = delay[q]
         \/ /\ now >= Deadline /\ checked'[q] /\ state'[q] = "done"
            /\ error'[q] = "none" /\ delay'[q] = delay[q]
<1>1. /\ now \in Nat /\ delay[q] \in Nat /\ state \in [Query!Queries -> Query!States]
      /\ until \in [Query!Queries -> Nat] /\ delay \in [Query!Queries -> Nat]
      /\ error \in [Query!Queries -> Query!Errors]
  BY DEF QueryTypes, Query!TypeOK
<1>2. /\ Query!Wake(q) \in Nat /\ Query!Wake(q) <= Deadline
      /\ Query!Min({delay[q] + 1, PollMax}) \in Nat
      /\ Query!Min({delay[q] + 1, PollMax}) >= 1
  BY <1>1, WakeFacts
<1>3. CASE now < Deadline
  <2>1. /\ state' = [state EXCEPT ![q] = "sleeping"] /\ error' = error
        /\ until' = [until EXCEPT ![q] = Query!Wake(q)]
        /\ delay' = [delay EXCEPT ![q] = Query!Min({delay[q] + 1, PollMax})]
    BY <1>1, <1>3 DEF Query!Poll, Query!Goto, Query!TimeLeft
  <2> QED
    BY <1>1, <1>2, <1>3, <2>1
<1>4. CASE ~ (now < Deadline)
  <2>1. /\ \/ state' = [state EXCEPT ![q] = "due"] /\ error' = error /\ ~ checked'[q]
           \/ /\ state' = [state EXCEPT ![q] = "done"]
              /\ error' = [error EXCEPT ![q] = "none"] /\ checked'[q]
        /\ delay' = delay
    BY <1>4 DEF Query!Poll, Query!Goto, Query!Ends, Query!TimeLeft, Query!CheckDue
  <2>2. now >= Deadline
    BY <1>1, <1>4, Times
  <2> QED
    BY <1>1, <2>1, <2>2
<1> QED
  BY <1>3, <1>4

LEMMA QueryFacts ==
  ASSUME QueryTypes, NEW q \in Query!Used
  PROVE  /\ now \in Nat /\ q \in Query!Queries /\ until[q] \in Nat /\ delay[q] \in Nat
         /\ rows[q] \subseteq q /\ base[q] \subseteq q /\ inTime \subseteq server
         /\ Query!Limit \in Nat /\ Query!Limit <= Deadline + Floor
         /\ now < Deadline + Floor => Query!Limit > now
         /\ state \in [Query!Queries -> Query!States] /\ until \in [Query!Queries -> Nat]
         /\ delay \in [Query!Queries -> Nat] /\ rows \in [Query!Queries -> SUBSET Computers]
         /\ checked \in [Query!Queries -> BOOLEAN]
         /\ error \in [Query!Queries -> Query!Errors]
         /\ base \in [Query!Queries -> SUBSET Computers]
<1> QED
  BY UsedFacts, LimitFacts DEF QueryTypes, Query!TypeOK

LEMMA SubmitInv ==
  ASSUME QueryTypes, NEW q \in Query!Used, QueryInv(q), Query!Submit(q)
  PROVE  QueryInv(q)'
<1>1. /\ state[q] = "queued"
      /\ UNCHANGED <<now, split, quick, delay, rows, checked, base, inTime>>
  BY DEF Query!Submit, Query!choices, Query!server_vars
<1>2. CASE state' = [state EXCEPT ![q] = "submitting"]
  <2>1. /\ state'[q] = "submitting" /\ until'[q] = Query!Limit /\ error'[q] = error[q]
    BY <1>2, QueryFacts DEF Query!Submit, Query!Ends, Query!Goto
  <2> QED
    BY <1>1, <2>1, QueryFacts, Times DEF QueryInv, Polled, KeptUp
<1>3. CASE ~ (state' = [state EXCEPT ![q] = "submitting"])
  <2>1. /\ state'[q] = "done" /\ error'[q] = "not submitted"
        /\ now >= Deadline \/ now >= Deadline + Floor
    BY <1>3, QueryFacts DEF Query!Submit, Query!Ends, Query!Goto
  <2>2. quick /\ Deadline > 0 => now = 0
    BY <1>1 DEF QueryInv, KeptUp
  <2>3. ~ (now = 0 /\ Deadline > 0)
    <3>1. now >= Deadline \/ now >= Deadline + Floor
      BY <2>1
    <3> QED
      BY <3>1, Times
  <2> QED
    BY <1>1, <2>1, <2>2, <2>3 DEF QueryInv, Polled
<1> QED
  BY <1>2, <1>3

LEMMA SubmittedInv ==
  ASSUME QueryTypes, NEW q \in Query!Used, QueryInv(q), Query!Submitted(q)
  PROVE  QueryInv(q)'
<1>1. /\ state[q] = "submitting"
      /\ UNCHANGED <<now, quick, rows, checked, base, inTime>>
  BY DEF Query!Submitted, Query!choices, Query!server_vars
<1>2. CASE Query!Poll(q)
  <2>1. \/ /\ now < Deadline /\ state'[q] = "sleeping" /\ until'[q] <= Deadline
           /\ delay'[q] >= 1 /\ error'[q] = error[q]
        \/ /\ now >= Deadline /\ ~ checked'[q] /\ state'[q] = "due"
           /\ error'[q] = error[q] /\ delay'[q] = delay[q]
        \/ /\ now >= Deadline /\ checked'[q] /\ state'[q] = "done"
           /\ error'[q] = "none" /\ delay'[q] = delay[q]
    BY <1>1, <1>2, PollGives, QueryFacts
  <2>2. until'[q] \in Nat
    BY <1>2, PollTypes, QueryFacts
  <2> QED
    BY <1>1, <2>1, <2>2, QueryFacts, Times DEF QueryInv, Polled, KeptUp
<1>3. CASE ~ quick /\ Query!Ends(q, "submit")
  <2>1. state'[q] = "done" /\ error'[q] = "submit"
    BY <1>3, QueryFacts DEF Query!Ends, Query!Goto
  <2> QED
    BY <1>1, <1>3, <2>1 DEF QueryInv, Polled
<1> QED
  BY <1>2, <1>3 DEF Query!Submitted

LEMMA CheckInv ==
  ASSUME QueryTypes, NEW q \in Query!Used, QueryInv(q), Query!Check(q)
  PROVE  QueryInv(q)'
<1>1. /\ state[q] = "due" /\ checked'[q] = TRUE
      /\ UNCHANGED <<now, quick, delay, rows, inTime, server>>
  BY QueryFacts DEF Query!Check, Query!choices, Query!server_vars
<1>2. CASE now >= Deadline + Floor
  <2>1. state'[q] = "done" /\ error'[q] = "results"
    BY <1>2, QueryFacts DEF Query!Check, Query!Ends, Query!Goto
  <2>2. ~ (quick /\ Deadline > 0)
    BY <1>1, <1>2, QueryFacts, Times DEF QueryInv, KeptUp
  <2> QED
    BY <1>1, <2>1, <2>2 DEF QueryInv, Polled
<1>3. CASE ~ (now >= Deadline + Floor)
  <2>1. /\ state'[q] = "checking" /\ error'[q] = error[q] /\ until'[q] = Query!Limit
        /\ base'[q] = server \cap q
    BY <1>3, QueryFacts DEF Query!Check, Query!Goto
  <2>2. Query!Limit > now /\ inTime \cap q \subseteq base'[q]
    BY <1>3, <2>1, QueryFacts, Times
  <2> QED
    BY <1>1, <2>1, <2>2, QueryFacts DEF QueryInv, Polled, KeptUp
<1> QED
  BY <1>2, <1>3

LEMMA ResultsInv ==
  ASSUME QueryTypes, NEW q \in Query!Used, QueryInv(q), Query!Results(q)
  PROVE  QueryInv(q)'
<1>1. /\ state[q] = "checking" /\ checked[q]
      /\ UNCHANGED <<now, quick, checked, base, inTime, server>>
  BY DEF Query!Results, Query!choices, Query!server_vars, QueryInv, Polled
<1>2. CASE \E S \in SUBSET (server \cap q) :
             /\ base[q] \subseteq S
             /\ rows' = [rows EXCEPT ![q] = S]
             /\ IF S = q THEN Query!Ends(q, "none") /\ UNCHANGED <<until, delay>>
                ELSE Query!Poll(q)
  <2>1. base'[q] \subseteq rows'[q]
    BY <1>1, <1>2, QueryFacts
  <2>2. CASE rows'[q] = q /\ Query!Ends(q, "none") /\ UNCHANGED <<until, delay>>
    <3>1. state'[q] = "done" /\ error'[q] = "none"
      BY <2>2, QueryFacts DEF Query!Ends, Query!Goto
    <3> QED
      BY <1>1, <2>1, <2>2, <3>1 DEF QueryInv, Polled, KeptUp
  <2>3. CASE Query!Poll(q)
    <3>1. \/ /\ now < Deadline /\ state'[q] = "sleeping" /\ until'[q] <= Deadline
             /\ delay'[q] >= 1 /\ error'[q] = error[q]
          \/ /\ now >= Deadline /\ checked'[q] /\ state'[q] = "done"
             /\ error'[q] = "none" /\ delay'[q] = delay[q]
      BY <1>1, <2>3, PollGives, QueryFacts
    <3>2. until'[q] \in Nat
      BY <2>3, PollTypes, QueryFacts
    <3> QED
      BY <1>1, <2>1, <3>1, <3>2, QueryFacts, Times DEF QueryInv, Polled, KeptUp
  <2> QED
    BY <1>2, <2>2, <2>3, QueryFacts
<1>3. CASE ~ quick /\ Query!Ends(q, "results")
  <2>1. state'[q] = "done" /\ error'[q] = "results"
    BY <1>3, QueryFacts DEF Query!Ends, Query!Goto
  <2> QED
    BY <1>1, <1>3, <2>1 DEF QueryInv, Polled
<1> QED
  BY <1>2, <1>3 DEF Query!Results

LEMMA StepInv ==
  ASSUME QueryTypes, NEW q \in Query!Used, QueryInv(q), QueryStep(q)
  PROVE  QueryInv(q)'
<1>1. CASE Query!Awake(q)
  <2>1. /\ state[q] = "sleeping" /\ state'[q] = "due"
        /\ UNCHANGED <<now, quick, until, delay, rows, checked, error, base, inTime>>
    BY <1>1, QueryFacts DEF Query!Awake, Query!Goto, Query!choices, Query!server_vars
  <2> QED
    BY <2>1 DEF QueryInv, Polled, KeptUp
<1>2. CASE Query!CallTimeout(q)
  <2>1. /\ state[q] \in {"submitting", "checking"} /\ until[q] <= now
        /\ state'[q] = "done" /\ error'[q] \in {"submit", "results"}
        /\ UNCHANGED <<now, quick>>
    BY <1>2, QueryFacts DEF Query!CallTimeout, Query!Ends, Query!Goto, Query!choices,
                            Query!Calling
  <2>2. ~ (quick /\ Deadline > 0)
    BY <2>1, QueryFacts DEF QueryInv, KeptUp
  <2> QED
    BY <2>1, <2>2 DEF QueryInv, Polled
<1> QED
  BY <1>1, <1>2, SubmitInv, SubmittedInv, CheckInv, ResultsInv DEF QueryStep

LEMMA SameQueries == [Query!Next]_(Query!vars) => Query!Used' = Query!Used
<1>1. [Query!Next]_(Query!vars) => split' = split
  BY DEF Query!Next, Query!vars, Query!choices, Query!Resolve, Query!Merge, Query!Tick,
         Query!Submit, Query!Submitted, Query!Awake, Query!Check, Query!Results,
         Query!CallTimeout, Query!Reply
<1> QED
  BY <1>1 DEF Query!Used

LEMMA NextResolving ==
  ASSUME QueryTypes, Resolving, [Query!Next]_(Query!vars)
  PROVE  Resolving'
<1>1. Query!Used' = Query!Used
  BY SameQueries
<1>2. CASE Query!Resolve
  BY <1>1, <1>2, UsedFacts DEF Query!Resolve, Resolving
<1>3. ASSUME NEW q \in Query!Used, QueryStep(q) PROVE Resolving'
  <2>1. state[q] # "resolving"
    BY <1>3 DEF QueryStep, Query!Submit, Query!Submitted, Query!Awake, Query!Check,
                Query!Results, Query!CallTimeout, Query!Calling
  <2>2. \A p \in Query!Used : p # q => state'[p] = state[p]
    BY <1>3, OtherQueries
  <2>3. state'[q] # "resolving"
    <3>1. CASE Query!Poll(q)
      <4>1. checked' \in [Query!Queries -> BOOLEAN]
        BY <1>3, StepTypes DEF QueryTypes, Query!TypeOK
      <4> QED
        BY <3>1, <4>1, PollGives, QueryFacts
    <3>2. CASE ~ Query!Poll(q)
      BY <1>3, <3>2, QueryFacts
         DEF QueryStep, Query!Submit, Query!Submitted, Query!Awake, Query!Check, Query!Results,
             Query!CallTimeout, Query!Goto, Query!Ends
    <3> QED
      BY <3>1, <3>2
  <2> QED
    BY <1>1, <2>1, <2>2, <2>3 DEF Resolving
<1>4. CASE \/ Query!Merge \/ Query!Tick \/ (\E c \in Computers : Query!Reply(c))
           \/ UNCHANGED Query!vars
  <2>1. state' = state
    BY <1>4 DEF Query!Merge, Query!Tick, Query!Reply, Query!vars, Query!query_vars
  <2> QED
    BY <1>1, <2>1 DEF Resolving
<1> QED
  BY <1>2, <1>3, <1>4 DEF Query!Next, QueryStep

\* Time goes on when no query has anything due, and a server that keeps up has
\* nothing to answer.
LEMMA TickKeepsUp ==
  ASSUME QueryTypes, QueriesInv, Query!Tick, quick, Deadline > 0, NEW q \in Query!Used
  PROVE  /\ state[q] = "sleeping" => until[q] > now
         /\ state[q] \in {"sleeping", "done"}
<1>1. \A p \in Query!Used :
        /\ state[p] = "sleeping" => until[p] > now
        /\ state[p] \notin Query!Calling
        /\ state[p] \in {"queued", "due"} => ~ Query!Slot
        /\ state[p] # "resolving"
  BY DEF Query!Tick, Query!Settled
<1>2. Query!Slot
  <2>1. {p \in Query!Used : state[p] \in Query!Calling} = {}
    BY <1>1
  <2> QED
    BY <2>1, NoneCalling DEF Query!Slot
<1>3. state[q] \in Query!States /\ state[q] # "idle"
  BY QueryFacts DEF QueriesInv, QueryInv, Polled
<1> QED
  BY <1>1, <1>2, <1>3 DEF Query!States, Query!Calling

LEMMA NextQueriesInv ==
  ASSUME QueryTypes, Resolving, QueriesInv, [Query!Next]_(Query!vars)
  PROVE  QueriesInv'
<1>1. Query!Used' = Query!Used
  BY SameQueries
<1>2. ASSUME NEW q \in Query!Used, QueryStep(q) PROVE QueriesInv'
  <2>1. UNCHANGED <<now, quick, inTime>>
    BY <1>2 DEF QueryStep, Query!Submit, Query!Submitted, Query!Awake, Query!Check,
                Query!Results, Query!CallTimeout, Query!choices, Query!server_vars
  <2>2. \A p \in Query!Used : p # q => QueryInv(p)'
    BY <1>2, <2>1, OtherQueries DEF QueriesInv, QueryInv, Polled, KeptUp
  <2> QED
    BY <1>1, <1>2, <2>2, StepInv DEF QueriesInv
<1>3. CASE Query!Resolve
  <2>1. UNCHANGED <<now, quick, until, delay, rows, checked, base, inTime>>
    BY <1>3 DEF Query!Resolve, Query!choices, Query!server_vars
  <2>2. \A q \in Query!Used :
          \/ state'[q] = "queued" /\ error' = error
          \/ ~ quick /\ state'[q] = "done" /\ error'[q] = "submit"
    BY <1>3, UsedFacts DEF Query!Resolve
  <2>3. PICK p \in Query!Used : state[p] = "resolving"
    BY <1>3 DEF Query!Resolve
  <2>4. ASSUME NEW q \in Query!Used PROVE QueryInv(q)'
    <3>1. CASE state'[q] = "queued" /\ error' = error
      <4>1. state[q] = "resolving"
        BY <2>3 DEF Resolving
      <4> QED
        BY <2>1, <3>1, <4>1 DEF QueriesInv, QueryInv, Polled, KeptUp
    <3>2. CASE ~ quick /\ state'[q] = "done" /\ error'[q] = "submit"
      BY <2>1, <3>2 DEF QueryInv, Polled
    <3> QED
      BY <2>2, <3>1, <3>2
  <2> QED
    BY <1>1, <2>4 DEF QueriesInv
<1>4. CASE Query!Tick
  <2>1. /\ now' = now + 1 /\ Query!Settled
        /\ UNCHANGED <<quick, state, until, delay, rows, checked, error, base, inTime>>
    BY <1>4 DEF Query!Tick, Query!choices, Query!query_vars, Query!server_vars
  <2>2. ASSUME NEW q \in Query!Used, quick, Deadline > 0, KeptUp(q) PROVE KeptUp(q)'
    <3>1. /\ state[q] = "sleeping" => until[q] > now
          /\ state[q] \in {"sleeping", "done"}
      BY <1>4, <2>2, TickKeepsUp
    <3> QED
      BY <2>1, <2>2, <3>1, QueryFacts, Times DEF KeptUp
  <2> QED
    BY <1>1, <2>1, <2>2 DEF QueriesInv, QueryInv, Polled
<1>5. CASE Query!Merge \/ UNCHANGED Query!vars
  <2>1. UNCHANGED <<now, quick, state, until, delay, rows, checked, error, base, inTime>>
    BY <1>5 DEF Query!Merge, Query!vars, Query!choices, Query!query_vars, Query!server_vars
  <2> QED
    BY <1>1, <2>1 DEF QueriesInv, QueryInv, Polled, KeptUp
<1>6. CASE \E c \in Computers : Query!Reply(c)
  <2>1. now \in Nat
    BY DEF QueryTypes, Query!TypeOK
  <2>2. /\ UNCHANGED <<now, quick, state, until, delay, rows, checked, error, base>>
        /\ inTime' = inTime \/ now < Deadline
    BY <1>6 DEF Query!Reply, Query!choices, Query!query_vars
  <2>3. now >= Deadline => inTime' = inTime
    BY <2>1, <2>2, Times
  <2> QED
    BY <1>1, <2>2, <2>3 DEF QueriesInv, QueryInv, Polled, KeptUp
<1> QED
  BY <1>2, <1>3, <1>4, <1>5, <1>6 DEF Query!Next, QueryStep

-----------------------------------------------------------------------------
(* FastQuery: the hard stop.                                               *)

\* At the hard stop something is due, as long as a query is not done: time does
\* not go on.
LEMMA NextStops ==
  ASSUME QueryTypes, QueriesInv, Query!HardStop, [Query!Next]_(Query!vars)
  PROVE  Query!HardStop'
<1>1. CASE Query!Tick
  <2>1. /\ now' = now + 1 /\ now \in Nat /\ now <= Deadline + Floor
    BY <1>1 DEF Query!Tick, Query!HardStop, QueryTypes, Query!TypeOK
  <2>2. now # Deadline + Floor
    <3> SUFFICES ASSUME now = Deadline + Floor PROVE FALSE
      OBVIOUS
    <3>1. PICK q \in Query!Used : state[q] # "done"
      BY <1>1 DEF Query!Tick, Query!Settled, Query!Over
    <3>2. \A p \in Query!Used : state[p] \notin {"sleeping", "submitting", "checking"}
      <4>1. ASSUME NEW p \in Query!Used, state[p] \in {"sleeping", "submitting", "checking"}
            PROVE  FALSE
        <5>1. until[p] > now
          BY <1>1, <4>1 DEF Query!Tick, Query!Settled, Query!Calling
        <5>2. until[p] <= Deadline + Floor /\ until[p] \in Nat
          BY <4>1, QueryFacts DEF QueriesInv, QueryInv, Polled
        <5> QED
          BY <2>1, <5>1, <5>2, Times
      <4> QED
        BY <4>1
    <3>3. Query!Slot
      <4>1. {p \in Query!Used : state[p] \in Query!Calling} = {}
        BY <3>2 DEF Query!Calling
      <4> QED
        BY <4>1, NoneCalling DEF Query!Slot
    <3>4. ~ (now < Query!Max({Deadline, Floor}))
      BY <2>1, Times, MinMax
    <3>5. state[q] \notin {"queued", "due", "resolving", "sleeping", "submitting", "checking"}
      BY <1>1, <3>2, <3>3, <3>4 DEF Query!Tick, Query!Settled
    <3>6. state[q] \in Query!States /\ state[q] # "idle"
      BY QueryFacts DEF QueriesInv, QueryInv, Polled
    <3> QED
      BY <3>1, <3>5, <3>6 DEF Query!States
  <2> QED
    BY <2>1, <2>2, Times DEF Query!HardStop
<1>2. CASE ~ Query!Tick
  <2>1. now' = now
    BY <1>2 DEF Query!Next, Query!vars, Query!Resolve, Query!Merge, Query!Submit,
                Query!Submitted, Query!Awake, Query!Check, Query!Results, Query!CallTimeout,
                Query!Reply
  <2> QED
    BY <2>1 DEF Query!HardStop
<1> QED
  BY <1>1, <1>2

QueryIInv == QueryTypes /\ Resolving /\ QueriesInv /\ Query!HardStop

LEMMA InitQueryInv == Query!Init => QueryIInv
<1> SUFFICES ASSUME Query!Init PROVE QueryIInv
  OBVIOUS
<1>1. QueryTypes
  BY InitQueryTypes
<1>2. \A q \in Query!Used : /\ state[q] = "resolving" /\ ~ checked[q] /\ error[q] = "none"
                            /\ delay[q] = PollFirst
  BY UsedFacts DEF Query!Init
<1>3. now = 0
  BY DEF Query!Init
<1> QED
  BY <1>1, <1>2, <1>3, Times
     DEF QueryIInv, Resolving, QueriesInv, QueryInv, Polled, KeptUp, Query!HardStop

LEMMA QueryInvariance == MCSpec => []QueryIInv
<1>1. MCInit => QueryIInv
  BY InitQueryInv DEF MCInit
<1>2. QueryIInv /\ [MCNext]_allVars => QueryIInv'
  <2>1. QueryIInv /\ [Query!Next]_(Query!vars) => QueryIInv'
    BY NextQueryTypes, NextResolving, NextQueriesInv, NextStops DEF QueryIInv
  <2> QED
    BY <2>1, QuerySteps
<1> QED
  BY <1>1, <1>2, PTL DEF MCSpec, allVars

\* However many computers wait behind the cap, and whatever the server answers
\* or leaves unanswered, time does not go past the deadline and one floor.
THEOREM OneHardStop == MCSpec => []HardStop
<1>1. QueryIInv => HardStop
  BY DEF QueryIInv, HardStop
<1> QED
  BY <1>1, QueryInvariance, PTL

-----------------------------------------------------------------------------
(* FastQuery: what is said of a computer.                                  *)

Says(c) == IF Query!Untrusted THEN "handed back"
           ELSE IF c \in Query!Answered THEN "answer"
           ELSE IF c \in Query!Failed THEN "failed" ELSE "silent"

\* It is said when every query is done, and nothing it rests on changes after.
ToldInv == \A c \in Computers : outcome[c] # "none" => Query!Over /\ outcome[c] = Says(c)

LEMMA SameSays ==
  ASSUME UNCHANGED <<split, tuple, clean, rows, error>>
  PROVE  \A c : Says(c)' = Says(c)
<1>1. Query!Used' = Query!Used
  BY DEF Query!Used
<1>2. Query!Answered' = Query!Answered /\ Query!Failed' = Query!Failed
  BY <1>1 DEF Query!Answered, Query!Failed
<1>3. Query!Untrusted' <=> Query!Untrusted
  BY <1>2 DEF Query!Untrusted, Query!Clean
<1> QED
  BY <1>2, <1>3 DEF Says

LEMMA NextTold ==
  ASSUME QueryTypes, ToldInv, [Query!Next]_(Query!vars)
  PROVE  ToldInv'
<1>1. CASE Query!Merge
  <2>1. /\ Query!Over /\ UNCHANGED <<split, tuple, clean, rows, error, state>>
        /\ outcome' = [c \in Computers |-> Says(c)]
    BY <1>1 DEF Query!Merge, Query!choices, Query!query_vars, Says
  <2>2. Query!Over'
    BY <2>1 DEF Query!Over, Query!Used
  <2> QED
    BY <2>1, <2>2, SameSays DEF ToldInv
<1>2. CASE (\E c \in Computers : Query!Reply(c)) \/ UNCHANGED Query!vars
  <2>1. UNCHANGED <<split, tuple, clean, rows, error, state, outcome>>
    BY <1>2 DEF Query!Reply, Query!vars, Query!choices, Query!query_vars
  <2>2. Query!Over' <=> Query!Over
    BY <2>1 DEF Query!Over, Query!Used
  <2> QED
    BY <2>1, <2>2, SameSays DEF ToldInv
<1>3. CASE \/ Query!Resolve \/ Query!Tick \/ \E q \in Query!Used : QueryStep(q)
  <2>1. ~ Query!Over
    <3>1. Query!Resolve => ~ Query!Over
      BY DEF Query!Resolve, Query!Over
    <3>2. Query!Tick => ~ Query!Over
      BY DEF Query!Tick, Query!Settled
    <3>3. ASSUME NEW q \in Query!Used, QueryStep(q) PROVE ~ Query!Over
      BY <3>3 DEF QueryStep, Query!Over, Query!Submit, Query!Submitted, Query!Awake,
                  Query!Check, Query!Results, Query!CallTimeout, Query!Calling
    <3> QED
      BY <1>3, <3>1, <3>2, <3>3
  <2>2. outcome' = outcome
    BY <1>3 DEF Query!Resolve, Query!Tick, QueryStep, Query!Submit, Query!Submitted,
                Query!Awake, Query!Check, Query!Results, Query!CallTimeout
  <2> QED
    BY <2>1, <2>2 DEF ToldInv
<1> QED
  BY <1>1, <1>2, <1>3 DEF Query!Next, QueryStep

LEMMA SilentAreSilent ==
  ASSUME QueriesInv, ToldInv, NEW c \in Computers, outcome[c] = "silent"
  PROVE  \E q \in Query!Used : /\ c \in q /\ c \notin rows[q] /\ state[q] = "done"
                               /\ checked[q] /\ base[q] \subseteq rows[q]
<1>1. PICK q \in Query!Used : c \in q
  BY UsedFacts
<1>2. Query!Over /\ Says(c) = "silent"
  BY DEF ToldInv
<1>3. c \notin Query!Answered /\ c \notin Query!Failed
  BY <1>2 DEF Says
<1>4. c \notin rows[q]
  BY <1>3 DEF Query!Answered
<1>5. error[q] = "none"
  BY <1>1, <1>3, <1>4 DEF Query!Failed
<1>6. state[q] = "done"
  BY <1>2 DEF Query!Over
<1> QED
  BY <1>1, <1>4, <1>5, <1>6 DEF QueriesInv, QueryInv, Polled

LEMMA QuickHears ==
  ASSUME QueryTypes, QueriesInv, ToldInv, Deadline > 0
  PROVE  Query!QuickLosesNobody
<1> SUFFICES ASSUME quick, NEW c \in Computers
             PROVE  /\ outcome[c] # "failed"
                    /\ c \in inTime => outcome[c] \in {"none", "answer", "handed back"}
  BY DEF Query!QuickLosesNobody
<1>1. \A q \in Query!Used : KeptUp(q)
  BY DEF QueriesInv, QueryInv
<1>2. outcome[c] # "failed"
  <2>1. Query!Failed = {}
    BY <1>1 DEF Query!Failed, KeptUp
  <2> QED
    BY <2>1 DEF ToldInv, Says
<1>3. ASSUME c \in inTime PROVE outcome[c] # "silent"
  <2> SUFFICES ASSUME outcome[c] = "silent" PROVE FALSE
    OBVIOUS
  <2>1. PICK q \in Query!Used : c \in q /\ c \notin rows[q] /\ state[q] = "done"
    BY SilentAreSilent
  <2> QED
    BY <1>1, <1>3, <2>1 DEF KeptUp
<1>4. outcome[c] \in Query!Outcomes
  BY DEF QueryTypes, Query!TypeOK
<1> QED
  BY <1>2, <1>3, <1>4 DEF Query!Outcomes

LEMMA TuplesAreTrue ==
  ASSUME ToldInv
  PROVE  Query!TupleIsTrue
<1> SUFFICES ASSUME NEW c \in Computers, tuple, outcome[c] \in {"answer", "silent", "failed"}
             PROVE  /\ outcome[c] = "answer" => c \in clean
                    /\ outcome[c] # "failed"
                    /\ \E q \in Query!Used : c \in q /\ (error[q] = "none" \/ c \in rows[q])
  BY DEF Query!TupleIsTrue
<1>1. outcome[c] = Says(c)
  BY DEF ToldInv
<1>2. Query!Answered \subseteq clean /\ Query!Failed = {}
  BY <1>1 DEF Says, Query!Untrusted, Query!Clean
<1>3. PICK q \in Query!Used : c \in q
  BY UsedFacts
<1>4. error[q] = "none" \/ c \in rows[q]
  BY <1>2, <1>3 DEF Query!Failed
<1>5. outcome[c] = "answer" => c \in Query!Answered
  BY <1>1 DEF Says
<1>6. outcome[c] # "failed"
  BY <1>1, <1>2 DEF Says
<1> QED
  BY <1>2, <1>3, <1>4, <1>5, <1>6

\* A computer said to be silent had not answered when its results were last
\* asked for; with a server that keeps up, whoever answers in time is heard; and
\* what a tuple that is not handed back says is what each expression would have.
THEOREM WhatIsSaidIsTrue ==
  ASSUME Deadline > 0
  PROVE  MCSpec => []ResultsAreTrue
<1>1. MCInit => ToldInv
  BY DEF MCInit, Query!Init, ToldInv
<1>2. QueryIInv /\ ToldInv /\ [MCNext]_allVars => ToldInv'
  BY QuerySteps, NextTold DEF QueryIInv
<1>3. QueryIInv /\ ToldInv => ResultsAreTrue
  <2> SUFFICES ASSUME QueryIInv, ToldInv PROVE ResultsAreTrue
    OBVIOUS
  <2>1. Query!SilentIsSilent
    BY SilentAreSilent DEF QueryIInv, Query!SilentIsSilent
  <2>2. Query!QuickLosesNobody /\ Query!TupleIsTrue
    BY QuickHears, TuplesAreTrue DEF QueryIInv
  <2> QED
    BY <2>1, <2>2 DEF ResultsAreTrue, Query!ResultsAreTrue
<1> QED
  BY <1>1, <1>2, <1>3, QueryInvariance, PTL DEF MCSpec, allVars

-----------------------------------------------------------------------------
(* SSH: types, connections, and what is left running on the target.        *)

LEMMA SshSteps == [MCNext]_allVars => [Ssh!Next]_(Ssh!vars)
<1> QED
  BY DEF allVars, MCNext, sshVars, Ssh!vars, Ssh!session_vars, Ssh!call_vars,
         Ssh!target_vars

Cleaning == step \in {"dropping", "reaching", "killing"}
Others(k) == \A c \in Conns : c # k => conn[c] = "closed"

\* Of all connections one may be in use, the one a command did not answer on, or
\* the one made to stop what hangs.
Connections ==
  /\ step \in {"idle", "releasing"} \cup Ssh!Commands =>
       Others(runner) /\ (runner # NoConn => conn[runner] \in {"open", "lost"})
  /\ step \in Ssh!Commands => runner # NoConn
  /\ Cleaning \/ step \in {"connecting", "released"} => runner = NoConn
  /\ step \in {"connecting", "reaching", "released"} => Others(NoConn)
  /\ Cleaning => hang.stuck # NoConn
  /\ step = "dropping" => Others(hang.stuck)
  /\ step = "killing" =>
       Others(hang.fresh) /\ hang.fresh # NoConn /\ conn[hang.fresh] = "open"
  /\ step # "killing" => hang.fresh = NoConn

\* What runs on the target unmentioned is what is being stopped.
Left == /\ alive \subseteq excused \cup unheard
                         \cup (IF Cleaning /\ hang.qna THEN {call.lines} ELSE {})
        /\ step \in {"reaching", "killing"} => hang.qna

SshInv == Ssh!TypeOK /\ Connections /\ Left

LEMMA SshTypes ==
  ASSUME Ssh!TypeOK
  PROVE  /\ runner \in Conns \cup {NoConn}
         /\ conn \in [Conns -> {"closed", "open", "stuck", "lost"}]
         /\ hang.stuck \in Conns \cup {NoConn} /\ hang.fresh \in Conns \cup {NoConn}
         /\ hang.cancelled \in BOOLEAN /\ hang.qna \in BOOLEAN
         /\ call.batch \in BOOLEAN /\ call.lines \subseteq Expressions
         /\ call.done \subseteq Expressions /\ call.rest \subseteq Expressions
         /\ result \in [Expressions -> {"none", "answer", "failure"}]
         /\ step \in Ssh!Steps /\ NoConn \notin Conns
<1> QED
  BY SessionAssumption DEF Ssh!TypeOK

LEMMA NoCallTypes ==
  /\ Ssh!NoCall \in [batch : BOOLEAN, lines : SUBSET Expressions, done : SUBSET Expressions,
                     rest : SUBSET Expressions]
  /\ Ssh!NoHang \in [stuck : Conns \cup {NoConn}, fresh : Conns \cup {NoConn},
                     cancelled : BOOLEAN, qna : BOOLEAN]
  /\ Ssh!NoHang.fresh = NoConn
<1> QED
  BY DEF Ssh!NoCall, Ssh!NoHang

\* An evaluation's end.
LEMMA EndGives ==
  ASSUME Ssh!TypeOK, NEW S, NEW batch, NEW r \in {"answer", "failure"}, Ssh!End(S, batch, r)
  PROVE  /\ step' = "idle" /\ call' = Ssh!NoCall /\ hang' = Ssh!NoHang
         /\ batching' = (batching /\ (batch => r = "answer")) /\ batching' \in BOOLEAN
         /\ result' \in [Expressions -> {"none", "answer", "failure"}]
         /\ \A e \in Expressions :
              result'[e] = IF e \in S /\ (batch => r = "answer") THEN r ELSE result[e]
<1>1. result \in [Expressions -> {"none", "answer", "failure"}]
  BY DEF Ssh!TypeOK
<1>2. batching' = (batching /\ (batch => r = "answer"))
  BY DEF Ssh!End, Ssh!StillBatching
<1>3. batching' \in BOOLEAN
  BY <1>2
<1> QED
  BY <1>1, <1>2, <1>3 DEF Ssh!End

LEMMA FailsGives ==
  ASSUME Ssh!TypeOK, Ssh!Fails
  PROVE  /\ step' = "idle" /\ call' = Ssh!NoCall /\ hang' = Ssh!NoHang
         /\ batching' = (batching /\ ~ call.batch) /\ batching' \in BOOLEAN
         /\ result' \in [Expressions -> {"none", "answer", "failure"}]
         /\ \A e \in Expressions :
              result'[e] = IF e \in call.lines /\ ~ call.batch THEN "failure" ELSE result[e]
<1>1. Ssh!End(call.lines, call.batch, "failure")
  BY DEF Ssh!Fails
<1> QED
  BY <1>1, EndGives

LEMMA AnswersGive ==
  ASSUME Ssh!TypeOK, Ssh!Answers
  PROVE  /\ step' = "idle" /\ call' = Ssh!NoCall /\ hang' = Ssh!NoHang
         /\ batching' = batching
         /\ \A e \in Expressions :
              result'[e] = IF e \in call.done \cup call.lines THEN "answer" ELSE result[e]
<1>1. Ssh!End(call.done \cup call.lines, call.batch, "answer") /\ batching \in BOOLEAN
  BY DEF Ssh!Answers, Ssh!TypeOK
<1>2. batching' = (batching /\ (call.batch => "answer" = "answer"))
  BY <1>1, EndGives
<1> QED
  BY <1>1, <1>2, EndGives

LEMMA RaiseGives ==
  ASSUME Ssh!TypeOK, Ssh!Raise
  PROVE  /\ step' = (IF hang.cancelled THEN "releasing" ELSE "idle")
         /\ call' = Ssh!NoCall /\ hang' = Ssh!NoHang
         /\ batching' = (batching /\ (hang.cancelled \/ ~ call.batch))
         /\ result' \in [Expressions -> {"none", "answer", "failure"}]
         /\ \A e \in Expressions :
              result'[e] = IF ~ hang.cancelled /\ e \in call.lines /\ ~ call.batch
                           THEN "failure" ELSE result[e]
<1>1. result \in [Expressions -> {"none", "answer", "failure"}] /\ batching \in BOOLEAN
      /\ call.batch \in BOOLEAN
  BY DEF Ssh!TypeOK
<1>2. CASE hang.cancelled
  BY <1>1, <1>2 DEF Ssh!Raise
<1>3. CASE ~ hang.cancelled
  <2>1. Ssh!End(call.lines, call.batch, "failure")
    BY <1>3 DEF Ssh!Raise, Ssh!Fails
  <2> QED
    BY <1>1, <1>3, <2>1, EndGives
<1> QED
  BY <1>2, <1>3

\* A connection to be had is had.
LEMMA UnusedFacts ==
  ASSUME Ssh!TypeOK, Others(NoConn)
  PROVE  Ssh!Unused \in Conns
<1>1. \E c \in Conns : conn[c] = "closed"
  BY SessionAssumption DEF Others
<1> QED
  BY <1>1 DEF Ssh!Unused

LEMMA InitSsh == Ssh!Init => SshInv
<1> SUFFICES ASSUME Ssh!Init PROVE SshInv
  OBVIOUS
<1>1. Ssh!TypeOK
  BY NoCallTypes DEF Ssh!Init, Ssh!TypeOK, Ssh!Steps
<1>2. Connections /\ Left
  BY NoCallTypes DEF Ssh!Init, Connections, Left, Others, Cleaning, Ssh!Commands
<1> QED
  BY <1>1, <1>2 DEF SshInv

LEMMA BeginSsh ==
  ASSUME SshInv, NEW S \in SUBSET Expressions, NEW b \in BOOLEAN, Ssh!Begin(S, b)
  PROVE  SshInv'
<1>1. /\ step = "idle" /\ Ssh!TypeOK /\ Connections /\ Left
      /\ UNCHANGED <<runner, conn, spec, showtypes, last, unresponsive, mood, alive, excused,
                     unheard, hung>>
  BY DEF SshInv, Ssh!Begin, Ssh!session_vars, Ssh!target_vars
<1>2. CASE Ssh!End(S, b, "failure")
  <2>1. /\ step' = "idle" /\ call' = Ssh!NoCall /\ hang' = Ssh!NoHang /\ batching' \in BOOLEAN
        /\ result' \in [Expressions -> {"none", "answer", "failure"}]
    BY <1>1, <1>2, EndGives DEF Ssh!TypeOK
  <2>2. Ssh!TypeOK'
    BY <1>1, <2>1, NoCallTypes DEF Ssh!TypeOK
  <2> QED
    BY <1>1, <2>1, <2>2, NoCallTypes
       DEF SshInv, Connections, Left, Others, Cleaning, Ssh!Commands
<1>3. CASE ~ Ssh!End(S, b, "failure")
  <2>1. PICK lines \in Ssh!Runs(S, b) :
          call' = [batch |-> b, lines |-> lines, done |-> {}, rest |-> S \ lines]
    BY <1>3 DEF Ssh!Begin
  <2>2. /\ step' \in {"connecting", "probing", "locating"}
        /\ step' = "connecting" <=> runner = NoConn
        /\ UNCHANGED <<batching, result, hang>>
    BY <1>3 DEF Ssh!Begin, Ssh!Goes, Ssh!Following
  <2>3. lines \subseteq S
    BY <2>1 DEF Ssh!Runs
  <2>4. Ssh!TypeOK'
    BY <1>1, <2>1, <2>2, <2>3 DEF Ssh!TypeOK, Ssh!Steps
  <2> QED
    BY <1>1, <2>2, <2>4 DEF SshInv, Connections, Left, Others, Cleaning, Ssh!Commands
<1> QED
  BY <1>2, <1>3

LEMMA ConnectSsh == ASSUME SshInv, Ssh!Connect PROVE SshInv'
<1>1. /\ step = "connecting" /\ Ssh!TypeOK /\ Connections /\ Left
      /\ UNCHANGED <<spec, showtypes, last, mood, alive, excused, unheard, hung>>
  BY DEF SshInv, Ssh!Connect, Ssh!target_vars
<1>2. runner = NoConn /\ Others(NoConn) /\ hang.fresh = NoConn
  BY <1>1 DEF Connections
<1>3. CASE /\ runner' = Ssh!Unused /\ conn' = [conn EXCEPT ![Ssh!Unused] = "open"]
           /\ Ssh!Goes(Ssh!Following) /\ UNCHANGED <<call, hang, unresponsive>>
  <2>1. Ssh!Unused \in Conns
    BY <1>1, <1>2, UnusedFacts
  <2>2. step' \in {"probing", "locating"} /\ UNCHANGED <<batching, result>>
    BY <1>3 DEF Ssh!Goes, Ssh!Following
  <2>3. Ssh!TypeOK'
    BY <1>1, <1>3, <2>1, <2>2 DEF Ssh!TypeOK, Ssh!Steps
  <2>4. Others(runner)' /\ conn'[runner'] = "open" /\ runner' # NoConn
    BY <1>1, <1>2, <1>3, <2>1, SshTypes DEF Others
  <2> QED
    BY <1>1, <1>2, <1>3, <2>2, <2>3, <2>4
       DEF SshInv, Connections, Left, Cleaning, Ssh!Commands
<1>4. CASE unresponsive' \in BOOLEAN /\ Ssh!Fails /\ UNCHANGED <<runner, conn>>
  <2>1. /\ step' = "idle" /\ call' = Ssh!NoCall /\ hang' = Ssh!NoHang /\ batching' \in BOOLEAN
        /\ result' \in [Expressions -> {"none", "answer", "failure"}]
    BY <1>1, <1>4, FailsGives
  <2>2. Ssh!TypeOK'
    BY <1>1, <1>4, <2>1, NoCallTypes DEF Ssh!TypeOK, Ssh!Steps
  <2> QED
    BY <1>1, <1>2, <1>4, <2>1, <2>2, NoCallTypes
       DEF SshInv, Connections, Left, Others, Cleaning, Ssh!Commands
<1> QED
  BY <1>3, <1>4 DEF Ssh!Connect

\* A command answers, or fails without hanging.
LEMMA CommandSsh ==
  ASSUME SshInv, Ssh!Located \/ Ssh!Answer \/ Ssh!Untyped \/ Ssh!Refuse
  PROVE  SshInv'
<1>1. /\ step \in Ssh!Commands /\ Ssh!TypeOK /\ Connections /\ Left
      /\ UNCHANGED <<runner, unresponsive, mood, excused>>
      /\ spec' \in BOOLEAN /\ showtypes' \in BOOLEAN
      /\ last' \in {last, {}} /\ hung' \in {hung, {}}
      /\ conn' \in {conn, [conn EXCEPT ![runner] = "lost"]}
      /\ UNCHANGED <<alive, unheard>> \/ Ssh!GoesOn
  BY DEF SshInv, Ssh!Located, Ssh!Answer, Ssh!Untyped, Ssh!Refuse, Ssh!target_vars,
         Ssh!Commands, Ssh!TypeOK
<1>2. /\ runner \in Conns /\ runner # NoConn /\ Others(runner)
      /\ conn[runner] \in {"open", "lost"} /\ hang.fresh = NoConn
      /\ step # "killing"
  BY <1>1, SshTypes DEF Connections, Ssh!Commands
<1>3. /\ \/ step' \in {"locating", "running", "untyped"} /\ hang' = hang
         \/ step' = "idle" /\ hang' = Ssh!NoHang
      /\ call' \in [batch : BOOLEAN, lines : SUBSET Expressions, done : SUBSET Expressions,
                    rest : SUBSET Expressions]
      /\ batching' \in BOOLEAN
      /\ result' \in [Expressions -> {"none", "answer", "failure"}]
  <2>1. CASE Ssh!Fails \/ Ssh!Answers
    BY <1>1, <2>1, EndGives, NoCallTypes DEF Ssh!Fails, Ssh!Answers, Ssh!TypeOK
  <2>2. CASE Ssh!Located
    BY <1>1, <2>2 DEF Ssh!Located, Ssh!Goes, Ssh!TypeOK
  <2>3. CASE Ssh!Untyped /\ ~ Ssh!Fails
    BY <1>1, <2>3 DEF Ssh!Untyped, Ssh!Goes, Ssh!TypeOK
  <2>4. CASE Ssh!Answer /\ ~ Ssh!Answers
    <3>1. PICK lines \in Ssh!Runs(call.rest, TRUE) :
            call' = [call EXCEPT !.lines = lines, !.done = @ \cup call.lines,
                                 !.rest = @ \ lines]
      BY <2>4 DEF Ssh!Answer
    <3>2. lines \subseteq call.rest
      BY <3>1 DEF Ssh!Runs
    <3> QED
      BY <1>1, <2>4, <3>1, <3>2 DEF Ssh!Answer, Ssh!Goes, Ssh!TypeOK
  <2> QED
    BY <2>1, <2>2, <2>3, <2>4 DEF Ssh!Refuse
<1>4. Ssh!TypeOK'
  <2>1. conn' \in [Conns -> {"closed", "open", "stuck", "lost"}]
    BY <1>1, <1>2 DEF Ssh!TypeOK
  <2>2. step' \in Ssh!Steps
    BY <1>3 DEF Ssh!Steps
  <2>3. hang' \in [stuck : Conns \cup {NoConn}, fresh : Conns \cup {NoConn},
                   cancelled : BOOLEAN, qna : BOOLEAN]
    BY <1>1, <1>3, NoCallTypes DEF Ssh!TypeOK
  <2>4. alive' \subseteq SUBSET Expressions /\ unheard' \subseteq SUBSET Expressions
    BY <1>1, SshTypes DEF Ssh!GoesOn, Ssh!TypeOK
  <2> QED
    BY <1>1, <1>3, <2>1, <2>2, <2>3, <2>4 DEF Ssh!TypeOK
<1>5. Others(runner)' /\ conn'[runner'] \in {"open", "lost"} /\ runner' # NoConn
  BY <1>1, <1>2, SshTypes DEF Others
<1>6. hang'.fresh = NoConn /\ ~ Cleaning /\ ~ Cleaning'
  BY <1>1, <1>2, <1>3, NoCallTypes DEF Cleaning, Ssh!Commands
<1>7. Left'
  <2>1. alive \subseteq excused \cup unheard
    BY <1>1, <1>6 DEF Left
  <2>2. alive' \subseteq excused' \cup unheard'
    BY <1>1, <2>1 DEF Ssh!GoesOn
  <2> QED
    BY <1>3, <2>2 DEF Left
<1> QED
  BY <1>1, <1>3, <1>4, <1>5, <1>6, <1>7 DEF SshInv, Connections, Ssh!Commands, Cleaning

LEMMA HangSsh ==
  ASSUME SshInv, NEW cancelled \in BOOLEAN, Ssh!Hang(cancelled)
  PROVE  SshInv'
<1>1. /\ step \in Ssh!Commands /\ Ssh!TypeOK /\ Connections /\ Left
      /\ hang' = [stuck |-> runner, fresh |-> NoConn, cancelled |-> cancelled,
                  qna |-> Ssh!InQna]
      /\ conn' = [conn EXCEPT ![runner] = "stuck"] /\ runner' = NoConn
      /\ alive' = (IF Ssh!InQna THEN alive \cup {call.lines} ELSE alive)
      /\ step' = "dropping"
      /\ UNCHANGED <<spec, showtypes, call, mood, excused, unheard, batching, result>>
  BY DEF SshInv, Ssh!Hang, Ssh!Marked, Ssh!Goes
<1>2. runner \in Conns /\ runner # NoConn /\ Others(runner)
  BY <1>1, SshTypes DEF Connections
<1>3. /\ last' \subseteq Ssh!Lines /\ unresponsive' \in BOOLEAN /\ hung' \subseteq Expressions
  <2>1. Ssh!Input \subseteq Ssh!Lines
    BY <1>1, SshTypes DEF Ssh!Input, Ssh!InQna, Ssh!Lines, Ssh!Commands
  <2> QED
    BY <1>1, <2>1, SshTypes DEF Ssh!Hang, Ssh!TypeOK
<1>4. Ssh!TypeOK'
  <2>1. Ssh!InQna \in BOOLEAN
    BY DEF Ssh!InQna
  <2>2. hang' \in [stuck : Conns \cup {NoConn}, fresh : Conns \cup {NoConn},
                   cancelled : BOOLEAN, qna : BOOLEAN]
    BY <1>1, <1>2, <2>1
  <2>3. conn' \in [Conns -> {"closed", "open", "stuck", "lost"}]
    BY <1>1, <1>2 DEF Ssh!TypeOK
  <2>4. alive' \subseteq SUBSET Expressions
    BY <1>1, SshTypes DEF Ssh!TypeOK
  <2> QED
    BY <1>1, <1>3, <2>2, <2>3, <2>4 DEF Ssh!TypeOK, Ssh!Steps
<1>5. Others(hang.stuck)' /\ hang'.stuck # NoConn /\ hang'.fresh = NoConn
  BY <1>1, <1>2, SshTypes DEF Others
<1>6. Left'
  BY <1>1 DEF Left, Cleaning, Ssh!Commands
<1> QED
  BY <1>1, <1>4, <1>5, <1>6 DEF SshInv, Connections, Cleaning, Ssh!Commands

\* The cleaning up comes to its end.
LEMMA RaiseSsh ==
  ASSUME SshInv, Cleaning, Ssh!Raise,
         conn' \in [Conns -> {"closed", "open", "stuck", "lost"}],
         runner' \in Conns \cup {NoConn}, Others(runner)',
         runner' # NoConn => conn'[runner'] \in {"open", "lost"},
         alive' \subseteq SUBSET Expressions, excused' \subseteq SUBSET Expressions,
         unheard' \subseteq SUBSET Expressions, alive' \subseteq excused' \cup unheard',
         unresponsive' \in BOOLEAN,
         UNCHANGED <<spec, showtypes, last, mood, hung>>
  PROVE  SshInv'
<1>1. /\ step' \in {"idle", "releasing"} /\ call' = Ssh!NoCall /\ hang' = Ssh!NoHang
      /\ batching' \in BOOLEAN
      /\ result' \in [Expressions -> {"none", "answer", "failure"}]
  BY RaiseGives DEF SshInv, Ssh!TypeOK
<1>2. Ssh!TypeOK'
  BY <1>1, NoCallTypes DEF SshInv, Ssh!TypeOK, Ssh!Steps
<1> QED
  BY <1>1, <1>2, NoCallTypes DEF SshInv, Connections, Left, Cleaning, Ssh!Commands

LEMMA DropSsh == ASSUME SshInv, Ssh!Drop PROVE SshInv'
<1>1. /\ step = "dropping" /\ Cleaning /\ Ssh!TypeOK /\ Connections /\ Left
      /\ conn' = [conn EXCEPT ![hang.stuck] = "closed"]
      /\ UNCHANGED <<runner, spec, showtypes, last, unresponsive, mood, alive, excused, unheard,
                     hung>>
  BY DEF SshInv, Ssh!Drop, Ssh!target_vars, Cleaning
<1>2. /\ hang.stuck \in Conns /\ Others(hang.stuck) /\ runner = NoConn
      /\ hang.fresh = NoConn
  BY <1>1, SshTypes DEF Connections
<1>3. /\ conn' \in [Conns -> {"closed", "open", "stuck", "lost"}] /\ Others(NoConn)'
  BY <1>1, <1>2 DEF Others, Ssh!TypeOK
<1>4. CASE hang.qna
  <2>1. step' = "reaching" /\ UNCHANGED <<batching, result, call, hang>>
    BY <1>4 DEF Ssh!Drop, Ssh!Goes
  <2>2. Ssh!TypeOK'
    BY <1>1, <1>3, <2>1 DEF Ssh!TypeOK, Ssh!Steps
  <2> QED
    BY <1>1, <1>2, <1>3, <1>4, <2>1, <2>2
       DEF SshInv, Connections, Left, Cleaning, Ssh!Commands
<1>5. CASE ~ hang.qna
  <2>1. alive \subseteq excused \cup unheard /\ Ssh!Raise
    BY <1>1, <1>5 DEF Left, Ssh!Drop
  <2>2. Others(runner)'
    BY <1>1, <1>2, <1>3
  <2> QED
    BY <1>1, <1>2, <1>3, <2>1, <2>2, RaiseSsh DEF Ssh!TypeOK
<1> QED
  BY <1>4, <1>5

LEMMA ReachSsh == ASSUME SshInv, Ssh!Reach PROVE SshInv'
<1>1. /\ step = "reaching" /\ Ssh!TypeOK /\ Connections /\ Left
      /\ conn' = [conn EXCEPT ![Ssh!Unused] = "open"]
      /\ hang' = [hang EXCEPT !.fresh = Ssh!Unused] /\ step' = "killing"
      /\ UNCHANGED <<runner, spec, showtypes, last, unresponsive, call, mood, alive, excused,
                     unheard, hung, batching, result>>
  BY DEF SshInv, Ssh!Reach, Ssh!target_vars, Ssh!Goes
<1>2. Ssh!Unused \in Conns /\ Others(NoConn) /\ runner = NoConn /\ hang.stuck # NoConn
  BY <1>1, UnusedFacts DEF Connections, Cleaning
<1>3. /\ hang'.fresh = Ssh!Unused /\ hang'.stuck = hang.stuck /\ hang'.qna = hang.qna
      /\ hang' \in [stuck : Conns \cup {NoConn}, fresh : Conns \cup {NoConn},
                    cancelled : BOOLEAN, qna : BOOLEAN]
  BY <1>1, <1>2 DEF Ssh!TypeOK
<1>4. conn' \in [Conns -> {"closed", "open", "stuck", "lost"}]
  BY <1>1, <1>2 DEF Ssh!TypeOK
<1>5. Ssh!TypeOK'
  BY <1>1, <1>3, <1>4 DEF Ssh!TypeOK, Ssh!Steps
<1>6. Others(hang.fresh)' /\ hang'.fresh # NoConn /\ conn'[hang'.fresh] = "open"
  BY <1>1, <1>2, <1>3, SshTypes DEF Others
<1> QED
  BY <1>1, <1>2, <1>3, <1>5, <1>6 DEF SshInv, Connections, Left, Cleaning, Ssh!Commands

LEMMA KillSsh == ASSUME SshInv, Ssh!Kill PROVE SshInv'
<1>1. /\ step = "killing" /\ Cleaning /\ Ssh!TypeOK /\ Connections /\ Left
      /\ Ssh!Raise
      /\ \/ alive' = alive \ {call.lines} /\ UNCHANGED unheard
         \/ Ssh!GoesOn
      /\ UNCHANGED <<spec, showtypes, last, unresponsive, mood, excused, hung>>
  BY DEF SshInv, Ssh!Kill, Cleaning
<1>2. /\ hang.fresh \in Conns /\ hang.fresh # NoConn /\ Others(hang.fresh)
      /\ conn[hang.fresh] = "open" /\ runner = NoConn
  BY <1>1, SshTypes DEF Connections
<1>3. /\ alive' \subseteq excused \cup unheard'
      /\ alive' \subseteq SUBSET Expressions /\ unheard' \subseteq SUBSET Expressions
  <2>1. /\ alive \subseteq excused \cup unheard \cup {call.lines}
        /\ call.lines \subseteq Expressions
    BY <1>1, SshTypes DEF Left
  <2> QED
    BY <1>1, <2>1 DEF Ssh!GoesOn, Ssh!TypeOK
<1>4. /\ conn' \in [Conns -> {"closed", "open", "stuck", "lost"}]
      /\ runner' \in Conns \cup {NoConn} /\ Others(runner)'
      /\ runner' # NoConn => conn'[runner'] \in {"open", "lost"}
  <2>1. CASE Ssh!Keeps
    \* The connection made to stop it is the next command's.
    BY <1>1, <1>2, <2>1 DEF Ssh!Kill, Others, Ssh!TypeOK
  <2>2. CASE ~ Ssh!Keeps
    BY <1>1, <1>2, <2>2 DEF Ssh!Kill, Ssh!Closing, Others, Ssh!TypeOK
  <2> QED
    BY <2>1, <2>2
<1> QED
  BY <1>1, <1>3, <1>4, RaiseSsh DEF Ssh!TypeOK

LEMMA CannotKillSsh == ASSUME SshInv, Ssh!CannotKill PROVE SshInv'
<1>1. /\ step \in {"reaching", "killing"} /\ Cleaning /\ Ssh!TypeOK /\ Connections /\ Left
      /\ conn' = Ssh!Closing(hang.fresh) /\ excused' = excused \cup {call.lines}
      /\ unresponsive' = (unresponsive \/ ~ hang.cancelled) /\ Ssh!Raise
      /\ UNCHANGED <<runner, spec, showtypes, last, mood, alive, unheard, hung>>
  BY DEF SshInv, Ssh!CannotKill, Cleaning
<1>2. runner = NoConn /\ Others(hang.fresh) /\ hang.fresh \in Conns \cup {NoConn}
  BY <1>1, SshTypes DEF Connections
<1>3. conn' \in [Conns -> {"closed", "open", "stuck", "lost"}] /\ Others(runner)'
  BY <1>1, <1>2, SshTypes DEF Ssh!Closing, Others, Ssh!TypeOK
<1>4. /\ excused' \subseteq SUBSET Expressions /\ alive' \subseteq excused' \cup unheard'
      /\ unresponsive' \in BOOLEAN /\ alive' \subseteq SUBSET Expressions
      /\ unheard' \subseteq SUBSET Expressions
  BY <1>1, SshTypes DEF Left, Ssh!TypeOK
<1> QED
  BY <1>1, <1>2, <1>3, <1>4, RaiseSsh

LEMMA CancelSsh == ASSUME SshInv, Ssh!CancelCleanup PROVE SshInv'
<1>1. /\ Cleaning /\ Ssh!TypeOK /\ Connections /\ Left
      /\ conn' = [Ssh!Closing(hang.fresh) EXCEPT ![hang.stuck] = "closed"]
      /\ excused' = excused \cup {call.lines}
      /\ step' = "releasing" /\ call' = Ssh!NoCall /\ hang' = Ssh!NoHang
      /\ UNCHANGED <<runner, spec, showtypes, last, unresponsive, batching, result, mood,
                     alive, unheard, hung>>
  BY DEF SshInv, Ssh!CancelCleanup, Cleaning
<1>2. /\ runner = NoConn /\ hang.stuck \in Conns /\ hang.fresh \in Conns \cup {NoConn}
      /\ \A c \in Conns : c # hang.stuck /\ c # hang.fresh => conn[c] = "closed"
  BY <1>1, SshTypes DEF Connections, Cleaning, Others
<1>3. Ssh!Closing(hang.fresh) \in [Conns -> {"closed", "open", "stuck", "lost"}]
  BY <1>1, <1>2 DEF Ssh!Closing, Ssh!TypeOK
<1>4. conn' \in [Conns -> {"closed", "open", "stuck", "lost"}] /\ Others(runner)'
  <2>1. \A c \in Conns : c # hang.stuck => Ssh!Closing(hang.fresh)[c] = "closed"
    <3>1. CASE hang.fresh = NoConn
      BY <1>2, <3>1, SessionAssumption DEF Ssh!Closing
    <3>2. CASE hang.fresh # NoConn
      BY <1>1, <1>2, <3>2 DEF Ssh!Closing, Ssh!TypeOK
    <3> QED
      BY <3>1, <3>2
  <2> QED
    BY <1>1, <1>2, <1>3, <2>1 DEF Others
<1>5. Ssh!TypeOK'
  BY <1>1, <1>4, NoCallTypes, SshTypes DEF Ssh!TypeOK, Ssh!Steps
<1> QED
  BY <1>1, <1>2, <1>4, <1>5, NoCallTypes
     DEF SshInv, Connections, Left, Cleaning, Ssh!Commands

LEMMA ReleaseSsh == ASSUME SshInv, Ssh!Release PROVE SshInv'
<1>1. /\ step \in {"idle", "connecting", "releasing"} /\ Ssh!TypeOK /\ Connections /\ Left
      /\ conn' = Ssh!Closing(runner) /\ runner' = NoConn
      /\ step' = "released" /\ call' = Ssh!NoCall
      /\ UNCHANGED <<spec, showtypes, last, unresponsive, hang, batching, result, mood, alive,
                     excused, unheard, hung>>
  BY DEF SshInv, Ssh!Release, Ssh!target_vars
<1>2. Others(runner) /\ runner \in Conns \cup {NoConn} /\ hang.fresh = NoConn
  BY <1>1, SshTypes DEF Connections
<1>3. conn' \in [Conns -> {"closed", "open", "stuck", "lost"}] /\ Others(NoConn)'
  BY <1>1, <1>2, SshTypes DEF Ssh!Closing, Others, Ssh!TypeOK
<1>4. Ssh!TypeOK'
  BY <1>1, <1>3, NoCallTypes DEF Ssh!TypeOK, Ssh!Steps
<1> QED
  BY <1>1, <1>2, <1>3, <1>4 DEF SshInv, Connections, Left, Cleaning, Ssh!Commands

LEMMA NextSsh == ASSUME SshInv, [Ssh!Next]_(Ssh!vars) PROVE SshInv'
<1>1. CASE Ssh!Single \/ Ssh!Batch
  BY <1>1, BeginSsh DEF Ssh!Single, Ssh!Batch, Ssh!Unanswered
<1>2. CASE UNCHANGED Ssh!vars
  BY <1>2 DEF Ssh!vars, Ssh!session_vars, Ssh!call_vars, Ssh!target_vars, SshInv, Ssh!TypeOK,
              Connections, Left, Others, Cleaning
<1> QED
  BY <1>1, <1>2, ConnectSsh, CommandSsh, HangSsh, DropSsh, ReachSsh, KillSsh, CannotKillSsh,
     CancelSsh, ReleaseSsh DEF Ssh!Next

LEMMA SshInvariance == MCSpec => []SshInv
<1>1. MCInit => SshInv
  BY InitSsh DEF MCInit
<1>2. SshInv /\ [MCNext]_allVars => SshInv'
  BY SshSteps, NextSsh
<1> QED
  BY <1>1, <1>2, PTL DEF MCSpec, allVars

\* Whatever hangs, refuses or is cancelled at whatever moment: no connection is
\* forgotten, and of every qna that did not answer in time an end is made or the
\* user is told, but where its connection was lost, the kill was answered in
\* vain, or the group was cancelled meanwhile.
THEOREM NothingIsLeft == MCSpec => []LeavesNothing
<1>1. SshInv => LeavesNothing
  BY SshTypes DEF SshInv, Connections, Left, Others, Cleaning, LeavesNothing,
                  Ssh!LeavesNothing, Ssh!OneConnection, Ssh!HungIsStopped
<1> QED
  BY <1>1, SshInvariance, PTL

-----------------------------------------------------------------------------
(* SSH: which targets are given up.                                        *)

Ending == step \in {"releasing", "released"}

\* What a call still has to answer is unanswered; a batch is made only while
\* none has been handed back.
Calls ==
  step # "idle" /\ ~ Ending =>
    /\ call.lines # {} /\ call.lines \cup call.rest \subseteq Ssh!Unanswered
    /\ call.batch => batching
    /\ ~ call.batch => call.rest = {} /\ \E e \in Expressions : call.lines = {e}

\* A target that is only slow: what timed out had the slow expression in it, and
\* when that is in another call it is alone.
OneSlow ==
  mood = "slow" =>
    /\ ~ unresponsive
    /\ \A e \in Expressions \ Slow : result[e] # "failure"
    /\ last # {} => Slow # {} /\ Slow \subseteq last
    /\ last # {} /\ batching => \/ \A e \in Slow : result[e] # "none"
                                \/ Cleaning /\ Slow \subseteq call.lines
                                \/ Ending
    /\ Cleaning /\ ~ hang.cancelled => Slow # {} /\ Slow \subseteq call.lines

\* A target not given up has at most one expression that was not answered alone,
\* and that is what timed out last.
TwoHung ==
  /\ unresponsive => step = "idle" \/ Cleaning \/ Ending
  /\ hung # {} /\ ~ unresponsive =>
       \E e \in Expressions : /\ hung = {e} /\ last = {e}
                              /\ \/ result[e] # "none"
                                 \/ Cleaning /\ call.lines = {e} /\ ~ call.batch
                                 \/ Ending

GivingUp == Calls /\ OneSlow /\ TwoHung

LEMMA RunsFacts ==
  ASSUME NEW S, S # {}, NEW b \in BOOLEAN, NEW lines \in Ssh!Runs(S, b)
  PROVE  lines # {} /\ lines \subseteq S /\ (~ b => lines = S)
<1>1. CASE b /\ Windows
  <2>1. Ssh!Runs(S, b) = (SUBSET S) \ {{}}
    BY <1>1 DEF Ssh!Runs
  <2> QED
    BY <1>1, <2>1
<1>2. CASE ~ (b /\ Windows)
  <2>1. Ssh!Runs(S, b) = {S}
    BY <1>2 DEF Ssh!Runs
  <2> QED
    BY <2>1
<1> QED
  BY <1>1, <1>2

\* An evaluation begins.
LEMMA BeginGivesUp ==
  ASSUME SshInv, GivingUp, NEW S \in SUBSET Ssh!Unanswered, S # {}, NEW b \in BOOLEAN,
         IF b THEN batching ELSE \E e \in Expressions : S = {e}, Ssh!Begin(S, b)
  PROVE  GivingUp'
<1>1. /\ step = "idle" /\ Ssh!TypeOK /\ Calls /\ OneSlow /\ TwoHung
      /\ UNCHANGED <<last, unresponsive, mood, hung>>
  BY DEF SshInv, GivingUp, Ssh!Begin, Ssh!session_vars, Ssh!target_vars
<1>2. CASE unresponsive /\ Ssh!End(S, b, "failure")
  <2>1. step' = "idle" /\ (hung # {} /\ ~ unresponsive)' = (hung # {} /\ ~ unresponsive)
    BY <1>1, <1>2, EndGives
  <2> QED
    BY <1>1, <1>2, <2>1 DEF GivingUp, Calls, OneSlow, TwoHung, Ending, Cleaning
<1>3. CASE ~ (unresponsive /\ Ssh!End(S, b, "failure"))
  <2>1. PICK lines \in Ssh!Runs(S, b) :
          call' = [batch |-> b, lines |-> lines, done |-> {}, rest |-> S \ lines]
    BY <1>3 DEF Ssh!Begin
  <2>2. /\ step' \in {"connecting", "probing", "locating"} /\ ~ unresponsive
        /\ UNCHANGED <<batching, result, hang>>
    BY <1>3 DEF Ssh!Begin, Ssh!Goes, Ssh!Following
  <2>3. lines # {} /\ lines \subseteq S /\ (~ b => lines = S)
    BY <2>1, RunsFacts
  <2>4. Ssh!Unanswered' = Ssh!Unanswered
    BY <2>2 DEF Ssh!Unanswered
  <2>5. Calls'
    BY <2>1, <2>2, <2>3, <2>4 DEF Calls
  <2> QED
    BY <1>1, <2>2, <2>5 DEF GivingUp, OneSlow, TwoHung, Ending, Cleaning
<1> QED
  BY <1>2, <1>3

\* A step that leaves what was learnt of the target alone, and ends no call.
LEMMA CallGoesOn ==
  ASSUME GivingUp, step # "idle", ~ Ending, ~ Cleaning,
         step' \notin {"idle", "releasing", "released", "dropping", "reaching", "killing"},
         UNCHANGED <<call, last, unresponsive, mood, hung, batching, result>>
  PROVE  GivingUp'
<1>1. Ssh!Unanswered' = Ssh!Unanswered
  BY DEF Ssh!Unanswered
<1> QED
  BY <1>1 DEF GivingUp, Calls, OneSlow, TwoHung, Ending, Cleaning

LEMMA CommandGivesUp ==
  ASSUME SshInv, GivingUp, \/ Ssh!Connect \/ Ssh!Located \/ Ssh!Answer \/ Ssh!Untyped
                           \/ Ssh!Refuse
  PROVE  GivingUp'
<1>1. /\ Ssh!TypeOK /\ Calls /\ OneSlow /\ TwoHung /\ mood' = mood
      /\ step \in {"connecting", "probing", "locating", "running", "untyped"}
      /\ ~ Ending /\ ~ Cleaning /\ ~ unresponsive
  BY DEF SshInv, GivingUp, Ssh!Connect, Ssh!Located, Ssh!Answer, Ssh!Untyped, Ssh!Refuse,
         Ssh!target_vars, Ssh!Commands, Ending, Cleaning, TwoHung
<1>2. /\ call.lines # {} /\ call.lines \cup call.rest \subseteq Ssh!Unanswered
      /\ call.batch => batching
      /\ ~ call.batch => call.rest = {} /\ \E e \in Expressions : call.lines = {e}
  BY <1>1 DEF Calls
<1>3. CASE Ssh!Located \/ (Ssh!Connect /\ ~ Ssh!Fails)
  <2>1. /\ step' \in {"probing", "locating", "running"}
        /\ UNCHANGED <<call, last, unresponsive, mood, hung, batching, result>>
    BY <1>3 DEF Ssh!Located, Ssh!Connect, Ssh!Goes, Ssh!Following, Ssh!target_vars
  <2> QED
    BY <1>1, <2>1, CallGoesOn
\* A target that fails in another way than by being slow.
<1>4. CASE /\ Ssh!Connect \/ Ssh!Refuse
           /\ Ssh!Fails
  <2>1. /\ mood # "slow" /\ UNCHANGED <<last, hung>> /\ step' = "idle"
        /\ \A e \in Expressions : result'[e] # "none" \/ result[e] = "none"
    BY <1>1, <1>4, FailsGives
       DEF Ssh!Connect, Ssh!Refuse, Ssh!Goes, Ssh!Following
  <2>2. TwoHung'
    BY <1>1, <2>1 DEF TwoHung, Cleaning, Ending
  <2> QED
    BY <1>1, <2>1, <2>2 DEF GivingUp, Calls, OneSlow
<1>5. CASE Ssh!Answer
  <2>1. /\ mood = "slow" => call.lines \cap Slow = {}
        /\ last' \in {last, {}} /\ hung' = {} /\ unresponsive' = unresponsive
    BY <1>5 DEF Ssh!Answer
  <2>2. CASE Ssh!Answers
    <3>1. /\ step' = "idle" /\ batching' = batching
          /\ \A e \in Expressions : result'[e] \in {result[e], "answer"}
      BY <1>1, <2>2, AnswersGive
    <3>2. OneSlow'
      BY <1>1, <2>1, <3>1, SessionAssumption DEF OneSlow, Cleaning, Ending
    <3> QED
      BY <1>1, <2>1, <3>1, <3>2 DEF GivingUp, Calls, TwoHung
  <2>3. CASE ~ Ssh!Answers
    <3>1. PICK lines \in Ssh!Runs(call.rest, TRUE) \ {{}} :
            call' = [call EXCEPT !.lines = lines, !.done = @ \cup call.lines,
                                 !.rest = @ \ lines]
      BY <1>5, <2>3 DEF Ssh!Answer
    <3>2. step' = "running" /\ UNCHANGED <<batching, result, hang>>
      BY <1>5, <2>3 DEF Ssh!Answer, Ssh!Goes
    <3>3. /\ lines # {} /\ lines \subseteq call.rest /\ call.rest # {}
      BY <3>1 DEF Ssh!Runs
    <3>4. /\ call'.lines = lines /\ call'.rest = call.rest \ lines
          /\ call'.batch = call.batch
      BY <1>1, <3>1 DEF Ssh!TypeOK
    <3>5. Ssh!Unanswered' = Ssh!Unanswered
      BY <3>2 DEF Ssh!Unanswered
    <3>6. Calls'
      BY <1>2, <3>2, <3>3, <3>4, <3>5 DEF Calls
    <3>7. OneSlow'
      BY <1>1, <2>1, <3>2 DEF OneSlow, Cleaning, Ending
    <3> QED
      BY <1>1, <2>1, <3>6, <3>7 DEF GivingUp, TwoHung
  <2> QED
    BY <2>2, <2>3
<1>6. CASE Ssh!Untyped
  <2>1. last' = {} /\ hung' = {} /\ unresponsive' = unresponsive
    BY <1>6 DEF Ssh!Untyped
  <2>2. CASE Ssh!Fails /\ call.batch
    <3>1. step' = "idle" /\ \A e \in Expressions : result'[e] = result[e]
      BY <1>1, <2>2, FailsGives
    <3>2. OneSlow'
      BY <1>1, <2>1, <3>1 DEF OneSlow, Cleaning, Ending
    <3> QED
      BY <1>1, <2>1, <3>1, <3>2 DEF GivingUp, Calls, TwoHung
  <2>3. CASE step' = "untyped" /\ UNCHANGED <<batching, result, call, hang>>
    <3>1. Ssh!Unanswered' = Ssh!Unanswered
      BY <2>3 DEF Ssh!Unanswered
    <3>2. OneSlow'
      BY <1>1, <2>1, <2>3 DEF OneSlow, Cleaning, Ending
    <3> QED
      BY <1>1, <1>2, <2>1, <2>3, <3>1, <3>2 DEF GivingUp, Calls, TwoHung
  <2> QED
    BY <1>6, <2>2, <2>3 DEF Ssh!Untyped, Ssh!Goes
<1> QED
  BY <1>3, <1>4, <1>5, <1>6 DEF Ssh!Refuse

\* A command does not answer.
LEMMA HangGivesUp ==
  ASSUME SshInv, GivingUp, \A e, f \in Slow : e = f, NEW cancelled \in BOOLEAN,
         Ssh!Hang(cancelled)
  PROVE  GivingUp'
<1>1. /\ Ssh!TypeOK /\ Calls /\ OneSlow /\ TwoHung /\ step' = "dropping"
      /\ step \in {"probing", "locating", "running", "untyped"}
      /\ ~ Ending /\ ~ Cleaning /\ ~ Ending' /\ Cleaning' /\ ~ unresponsive
      /\ hang'.cancelled = cancelled
      /\ mood = "faulty" \/ cancelled \/ (Ssh!InQna /\ call.lines \cap Slow # {})
      /\ UNCHANGED <<mood, call, batching, result>>
  BY DEF SshInv, GivingUp, Ssh!Hang, Ssh!Goes, Ssh!Commands, Ending, Cleaning, TwoHung
<1>2. /\ call.lines # {} /\ call.lines \cup call.rest \subseteq Ssh!Unanswered
      /\ call.batch => batching
      /\ ~ call.batch => call.rest = {} /\ \E e \in Expressions : call.lines = {e}
  BY <1>1 DEF Calls
<1>3. Ssh!Unanswered' = Ssh!Unanswered /\ Calls'
  BY <1>1, <1>2 DEF Ssh!Unanswered, Calls
<1>4. CASE cancelled
  <2>1. UNCHANGED <<last, unresponsive, hung>>
    BY <1>4 DEF Ssh!Hang
  <2>2. OneSlow'
    BY <1>1, <1>4, <2>1 DEF OneSlow
  <2>3. TwoHung'
    BY <1>1, <2>1 DEF TwoHung
  <2> QED
    BY <1>3, <2>2, <2>3 DEF GivingUp
<1>5. CASE ~ cancelled
  <2>1. /\ unresponsive' = (last # {} /\ ~ (Ssh!Input \subseteq last)) /\ last' = Ssh!Input
        /\ hung' = IF call.batch \/ ~ Ssh!InQna THEN hung ELSE hung \cup call.lines
    BY <1>5 DEF Ssh!Hang, Ssh!Same
  <2>2. Ssh!InQna => Ssh!Input = call.lines
    BY DEF Ssh!Input
  <2>3. OneSlow'
    <3> SUFFICES ASSUME mood = "slow" PROVE OneSlow'
      BY <1>1 DEF OneSlow
    <3>1. Ssh!InQna /\ Slow # {} /\ Slow \subseteq call.lines
      BY <1>1, <1>5
    <3>2. last # {} => call.lines \subseteq last
      <4> SUFFICES ASSUME last # {} PROVE call.lines \subseteq last
        OBVIOUS
      <4>1. Slow \subseteq last /\ (batching => \A e \in Slow : result[e] # "none")
        BY <1>1 DEF OneSlow
      <4>2. ~ batching
        BY <1>2, <3>1, <4>1 DEF Ssh!Unanswered
      <4>3. \E e \in Expressions : call.lines = {e}
        BY <1>2, <4>2
      <4> QED
        BY <3>1, <4>1, <4>3
    <3> QED
      BY <1>1, <2>1, <2>2, <3>1, <3>2 DEF OneSlow
  <2>4. TwoHung'
    <3>1. CASE hung = {}
      <4>1. CASE call.batch \/ ~ Ssh!InQna
        BY <1>1, <2>1, <3>1, <4>1 DEF TwoHung
      <4>2. CASE ~ call.batch /\ Ssh!InQna
        BY <1>1, <1>2, <2>1, <2>2, <3>1, <4>2 DEF TwoHung
      <4> QED
        BY <4>1, <4>2
    <3>2. CASE hung # {}
      <4>1. PICK e \in Expressions : last = {e} /\ result[e] # "none"
        BY <1>1, <3>2 DEF TwoHung
      <4>2. ~ (Ssh!Input \subseteq last)
        <5>1. CASE Ssh!InQna
          BY <1>2, <2>2, <4>1, <5>1 DEF Ssh!Unanswered
        <5>2. CASE ~ Ssh!InQna
          <6>1. step \in {"probing", "locating"} /\ Ssh!Input = {step}
            BY <1>1, <5>2 DEF Ssh!Input, Ssh!InQna
          <6> QED
            BY <4>1, <6>1, SessionAssumption
        <5> QED
          BY <5>1, <5>2
      <4> QED
        BY <1>1, <2>1, <4>1, <4>2 DEF TwoHung
    <3> QED
      BY <3>1, <3>2
  <2> QED
    BY <1>3, <2>3, <2>4 DEF GivingUp
<1> QED
  BY <1>4, <1>5

\* The cleaning up goes on to its next step.
LEMMA CleaningGoesOn ==
  ASSUME GivingUp, Cleaning, Cleaning', hang'.cancelled = hang.cancelled,
         UNCHANGED <<call, last, unresponsive, mood, hung, batching, result>>
  PROVE  GivingUp'
<1>1. Ssh!Unanswered' = Ssh!Unanswered
  BY DEF Ssh!Unanswered
<1> QED
  BY <1>1 DEF GivingUp, Calls, OneSlow, TwoHung, Ending, Cleaning

\* It is over, and the command's failure is reported or the group is cancelled.
LEMMA RaiseGivesUp ==
  ASSUME SshInv, GivingUp, Cleaning, Ssh!Raise,
         \/ unresponsive' = unresponsive
         \/ mood # "slow" /\ unresponsive' = (unresponsive \/ ~ hang.cancelled),
         UNCHANGED <<last, mood, hung>>
  PROVE  GivingUp'
<1>1. /\ Ssh!TypeOK /\ Calls /\ OneSlow /\ TwoHung /\ step # "idle" /\ ~ Ending
  BY DEF SshInv, GivingUp, Cleaning, Ending
<1>2. /\ step' = (IF hang.cancelled THEN "releasing" ELSE "idle")
      /\ batching' = (batching /\ (hang.cancelled \/ ~ call.batch))
      /\ \A e \in Expressions :
           result'[e] = IF ~ hang.cancelled /\ e \in call.lines /\ ~ call.batch
                        THEN "failure" ELSE result[e]
  BY <1>1, RaiseGives
<1>3. Calls'
  BY <1>2 DEF Calls, Ending
<1>4. CASE hang.cancelled
  <2>1. Ending' /\ ~ Cleaning' /\ \A e \in Expressions : result'[e] = result[e]
    BY <1>2, <1>4 DEF Ending, Cleaning
  <2>2. OneSlow'
    BY <1>1, <1>2, <2>1 DEF OneSlow
  <2>3. TwoHung'
    BY <1>1, <1>4, <2>1 DEF TwoHung
  <2> QED
    BY <1>3, <2>2, <2>3 DEF GivingUp
<1>5. CASE ~ hang.cancelled
  <2>1. step' = "idle" /\ ~ Ending' /\ ~ Cleaning'
    BY <1>2, <1>5 DEF Ending, Cleaning
  <2>2. /\ call.lines \subseteq Expressions /\ call.lines # {}
        /\ ~ call.batch => \E e \in Expressions : call.lines = {e}
    BY <1>1, SshTypes DEF Calls
  <2>3. OneSlow'
    <3> SUFFICES ASSUME mood = "slow" PROVE OneSlow'
      BY DEF OneSlow
    <3>1. Slow # {} /\ Slow \subseteq call.lines /\ unresponsive' = unresponsive
      BY <1>1, <1>5 DEF OneSlow
    <3>2. ~ call.batch => call.lines = Slow
      BY <2>2, <3>1
    <3> QED
      BY <1>1, <1>2, <1>5, <2>1, <2>2, <3>1, <3>2 DEF OneSlow
  <2>4. TwoHung'
    <3> SUFFICES ASSUME hung # {}, ~ unresponsive'
                 PROVE  \E e \in Expressions : hung = {e} /\ last = {e} /\ result'[e] # "none"
      BY <2>1 DEF TwoHung
    <3>1. PICK e \in Expressions : /\ hung = {e} /\ last = {e}
                                   /\ \/ result[e] # "none"
                                      \/ call.lines = {e} /\ ~ call.batch
      BY <1>1, <1>5 DEF TwoHung
    <3> QED
      BY <1>2, <1>5, <3>1
  <2> QED
    BY <1>3, <2>3, <2>4 DEF GivingUp
<1> QED
  BY <1>4, <1>5

\* Nothing is asked of the target after.
LEMMA EndingGivesUp ==
  ASSUME GivingUp, Ending', UNCHANGED <<last, unresponsive, mood, hung, batching, result>>
  PROVE  GivingUp'
<1>1. ~ Cleaning' /\ step' # "idle"
  BY DEF Ending, Cleaning
<1> QED
  BY <1>1 DEF GivingUp, Calls, OneSlow, TwoHung

LEMMA SingleGivesUp == ASSUME SshInv, GivingUp, Ssh!Single PROVE GivingUp'
<1>1. PICK e \in Ssh!Unanswered : Ssh!Begin({e}, FALSE)
  BY DEF Ssh!Single
<1>2. /\ {e} \in SUBSET Ssh!Unanswered /\ {e} # {} /\ FALSE \in BOOLEAN
      /\ IF FALSE THEN batching ELSE \E x \in Expressions : {e} = {x}
  BY DEF Ssh!Unanswered
<1> QED
  BY <1>1, <1>2, BeginGivesUp

LEMMA BatchGivesUp == ASSUME SshInv, GivingUp, Ssh!Batch PROVE GivingUp'
<1>1. PICK S \in SUBSET Ssh!Unanswered : Ssh!Cardinality(S) > 1 /\ Ssh!Begin(S, TRUE)
  BY DEF Ssh!Batch
<1>2. S # {}
  <2>1. Ssh!Cardinality({}) = Cardinality({})
    BY DEF Ssh!Cardinality, Cardinality
  <2> QED
    BY <1>1, <2>1, FS_EmptySet
<1>3. TRUE \in BOOLEAN /\ (IF TRUE THEN batching ELSE \E x \in Expressions : S = {x})
  BY DEF Ssh!Batch
<1> QED
  BY <1>1, <1>2, <1>3, BeginGivesUp

LEMMA NextGivesUp ==
  ASSUME SshInv, GivingUp, \A e, f \in Slow : e = f, [Ssh!Next]_(Ssh!vars)
  PROVE  GivingUp'
<1>1. CASE \E cancelled \in BOOLEAN : Ssh!Hang(cancelled)
  BY <1>1, HangGivesUp
<1>2. CASE Ssh!Drop
  <2>1. CASE Ssh!Raise
    BY <1>2, <2>1, RaiseGivesUp DEF Ssh!Drop, Ssh!target_vars, Cleaning
  <2>2. CASE ~ Ssh!Raise
    BY <1>2, <2>2, CleaningGoesOn DEF Ssh!Drop, Ssh!target_vars, Ssh!Goes, Cleaning
  <2> QED
    BY <2>1, <2>2
<1>3. CASE Ssh!Reach
  <2>1. hang'.cancelled = hang.cancelled
    BY <1>3 DEF Ssh!Reach, SshInv, Ssh!TypeOK
  <2> QED
    BY <1>3, <2>1, CleaningGoesOn DEF Ssh!Reach, Ssh!target_vars, Ssh!Goes, Cleaning
<1>4. CASE Ssh!Kill
  BY <1>4, RaiseGivesUp DEF Ssh!Kill, Cleaning
<1>5. CASE Ssh!CannotKill
  BY <1>5, RaiseGivesUp DEF Ssh!CannotKill, Cleaning
<1>6. CASE Ssh!CancelCleanup
  BY <1>6, EndingGivesUp DEF Ssh!CancelCleanup, Ending
<1>7. CASE Ssh!Release
  BY <1>7, EndingGivesUp DEF Ssh!Release, Ssh!target_vars, Ending
<1>8. CASE UNCHANGED Ssh!vars
  BY <1>8 DEF Ssh!vars, Ssh!session_vars, Ssh!call_vars, Ssh!target_vars, GivingUp, Calls,
              OneSlow, TwoHung, Ending, Cleaning, Ssh!Unanswered
<1> QED
  BY <1>1, <1>2, <1>3, <1>4, <1>5, <1>6, <1>7, <1>8, SingleGivesUp, BatchGivesUp,
     CommandGivesUp DEF Ssh!Next

\* One slow expression says nothing about the rest, in whatever batches it is
\* sent; and of a target nothing is heard of, two expressions are the last to be
\* waited for.
THEOREM TheDeadAreGivenUp ==
  ASSUME \A e, f \in Slow : e = f
  PROVE  MCSpec => []GivesUpRightly
<1>1. MCInit => GivingUp
  BY DEF MCInit, Ssh!Init, GivingUp, Calls, OneSlow, TwoHung, Cleaning, Ending
<1>2. SshInv /\ GivingUp /\ [MCNext]_allVars => GivingUp'
  BY SshSteps, NextGivesUp
<1>3. GivingUp => GivesUpRightly
  <2> SUFFICES ASSUME GivingUp PROVE GivesUpRightly
    OBVIOUS
  <2>1. Ssh!SlowCostsOnlyItself
    BY DEF GivingUp, OneSlow, Ssh!SlowCostsOnlyItself
  <2>2. Ssh!GivesUpOnQna
    <3> SUFFICES ASSUME step = "idle", ~ unresponsive PROVE ~ (Ssh!Cardinality(hung) > 1)
      BY DEF Ssh!GivesUpOnQna
    <3>1. hung = {} \/ \E e \in Expressions : hung = {e}
      BY DEF GivingUp, TwoHung
    <3>2. Ssh!Cardinality(hung) = Cardinality(hung)
      BY DEF Ssh!Cardinality, Cardinality
    <3> QED
      BY <3>1, <3>2, FS_EmptySet, FS_Singleton
  <2> QED
    BY <2>1, <2>2 DEF GivesUpRightly, Ssh!GivesUpRightly
<1> QED
  BY <1>1, <1>2, <1>3, SshInvariance, PTL DEF MCSpec, allVars

-----------------------------------------------------------------------------
(* Shared runs: how expressions are put into chunks and tuples. *)

\* What an expression costs of a chunk's bytes is a number.
Costing == cost \in [Cells -> Nat]

\* How the size of a chunk adds up.
Sizing(chunk) ==
  {g \in [0 .. Len(chunk) -> Nat] :
     g[0] = 0 /\ \A n \in 1 .. Len(chunk) : g[n] = g[n - 1] + cost[chunk[n]]}

LEMMA Sizes ==
  ASSUME Costing, NEW chunk \in Seq(Cells)
  PROVE  Sizing(chunk) # {}
<1> DEFINE N == Len(chunk)
           F == [n \in 1 .. N |-> [c \in Nat |-> c + cost[chunk[n]]]]
<1>1. N \in Nat /\ \A n \in 1 .. N : cost[chunk[n]] \in Nat
  BY DEF Costing
<1> HIDE DEF N
<1>2. \A n \in 1 .. N, c \in Nat : F[n][c] = c + cost[chunk[n]]
  OBVIOUS
<1> HIDE DEF F
<1>3. StepsIn(F, N, Nat)
  <2>1. ASSUME NEW c \in Nat, NEW n \in 1 .. N
        PROVE  F[n][c] \in Nat
    <3>1. cost[chunk[n]] \in Nat /\ F[n][c] = c + cost[chunk[n]]
      BY <1>1, <1>2
    <3> QED
      BY <3>1
  <2> QED
    BY <2>1 DEF StepsIn
<1>4. PICK g : g \in Computed(F, N, Nat, 0)
  BY <1>1, <1>3, Recursion
<1>5. g \in [0 .. N -> Nat] /\ g[0] = 0 /\ \A n \in 1 .. N : g[n] = F[n][g[n - 1]]
  BY <1>4 DEF Computed
<1>6. \A n \in 1 .. N : g[n - 1] \in Nat
  BY <1>1, <1>5
<1>7. \A n \in 1 .. N : g[n] = g[n - 1] + cost[chunk[n]]
  BY <1>2, <1>5, <1>6
<1>8. g \in Sizing(chunk)
  BY <1>5, <1>7 DEF Sizing, N
<1> QED
  BY <1>8

LEMMA SizeIs ==
  ASSUME NEW chunk, Len(chunk) \in Nat, NEW g \in Sizing(chunk)
  PROVE  Size(chunk) = g[Len(chunk)]
<1> DEFINE N == Len(chunk)
           upto[n \in 0 .. N] == IF n = 0 THEN 0 ELSE upto[n - 1] + cost[chunk[n]]
<1>1. Size(chunk) = upto[N]
  BY DEF Size
<1> HIDE DEF upto
<1>2. /\ N \in Nat /\ g \in [0 .. N -> Nat]
      /\ g[0] = 0 /\ \A n \in 1 .. N : g[n] = g[n - 1] + cost[chunk[n]]
  BY DEF Sizing
<1> HIDE DEF N
<1>3. g = [n \in 0 .. N |-> IF n = 0 THEN 0 ELSE g[n - 1] + cost[chunk[n]]]
  <2>1. \A n \in 0 .. N : n = 0 \/ n \in 1 .. N
    BY <1>2
  <2>2. \A n \in 0 .. N : g[n] = IF n = 0 THEN 0 ELSE g[n - 1] + cost[chunk[n]]
    BY <1>2, <2>1, Zenon
  <2>3. g = [n \in 0 .. N |-> g[n]]
    BY <1>2
  <2> QED
    BY <2>2, <2>3, Zenon
<1>4. upto = [n \in 0 .. N |-> IF n = 0 THEN 0 ELSE upto[n - 1] + cost[chunk[n]]]
  BY <1>3, Zenon DEF upto
<1>5. \A n \in 0 .. N : upto[n] = IF n = 0 THEN 0 ELSE upto[n - 1] + cost[chunk[n]]
  BY <1>4, Zenon
<1> DEFINE T == {n \in 0 .. N : upto[n] = g[n]}
<1>6. 0 \in T
  BY <1>2, <1>5
<1>7. ASSUME NEW n \in 1 .. N, n - 1 \in T
      PROVE  n \in T
  <2>1. n \in 0 .. N /\ n # 0
    BY <1>2
  <2>2. upto[n] = upto[n - 1] + cost[chunk[n]] /\ g[n] = g[n - 1] + cost[chunk[n]]
    BY <1>2, <1>5, <2>1, Zenon
  <2>3. upto[n - 1] = g[n - 1]
    BY <1>7
  <2> QED
    BY <2>1, <2>2, <2>3
<1> HIDE DEF T
<1>8. N \in T
  <2>1. \A n \in 0 .. N : n \in T
    BY <1>2, <1>6, <1>7, UpTo
  <2> QED
    BY <1>2, <2>1
<1> QED
  BY <1>1, <1>8 DEF T, N

LEMMA SizeAdds ==
  ASSUME Costing, NEW chunk \in Seq(Cells), NEW i \in Cells
  PROVE  /\ Size(chunk) \in Nat /\ cost[i] \in Nat
         /\ Size(Append(chunk, i)) = Size(chunk) + cost[i]
<1> DEFINE N == Len(chunk)
           d == Append(chunk, i)
<1>1. /\ N \in Nat /\ d \in Seq(Cells) /\ Len(d) = N + 1 /\ d[N + 1] = i
      /\ \A n \in 1 .. N : d[n] = chunk[n]
  OBVIOUS
<1> HIDE DEF d
<1>2. PICK g : g \in Sizing(chunk)
  BY Sizes
<1>3. PICK h : h \in Sizing(d)
  BY <1>1, Sizes
<1>4. Size(chunk) = g[N] /\ Size(d) = h[N + 1]
  BY <1>1, <1>2, <1>3, SizeIs
<1>5. /\ g \in [0 .. N -> Nat] /\ g[0] = 0
      /\ \A n \in 1 .. N : g[n] = g[n - 1] + cost[chunk[n]]
  BY <1>2 DEF Sizing
<1>6. h[0] = 0 /\ \A n \in 1 .. N + 1 : h[n] = h[n - 1] + cost[d[n]]
  BY <1>1, <1>3 DEF Sizing
<1> DEFINE T == {n \in 0 .. N : h[n] = g[n]}
<1>7. 0 \in T
  BY <1>1, <1>5, <1>6
<1> HIDE DEF N
<1>8. ASSUME NEW n \in 1 .. N, n - 1 \in T
      PROVE  n \in T
  <2>1. n \in 1 .. N + 1 /\ n \in 0 .. N
    BY <1>1
  <2>2. h[n] = h[n - 1] + cost[d[n]] /\ g[n] = g[n - 1] + cost[chunk[n]] /\ d[n] = chunk[n]
    BY <1>1, <1>5, <1>6, <2>1, Zenon
  <2>3. h[n - 1] = g[n - 1]
    BY <1>8
  <2> QED
    BY <2>1, <2>2, <2>3
<1> HIDE DEF T
<1>9. N \in T
  <2>1. \A n \in 0 .. N : n \in T
    BY <1>1, <1>7, <1>8, UpTo
  <2> QED
    BY <1>1, <2>1
<1>10. h[N] = g[N]
  BY <1>9 DEF T
<1>11. N + 1 \in 1 .. N + 1 /\ (N + 1) - 1 = N /\ N \in 0 .. N
  BY <1>1
<1>12. h[N + 1] = g[N] + cost[i] /\ g[N] \in Nat
  BY <1>1, <1>5, <1>6, <1>10, <1>11
<1> QED
  BY <1>4, <1>12 DEF d, Costing

-----------------------------------------------------------------------------
Fits(c) == Len(c) <= ShareSize /\ Size(c) <= MaxBytes

\* The chunks c of the expressions s: as full as they may be.
CutOK(c, s) ==
  /\ c \in Parts(Cells) /\ FlattenSeq(c) = s /\ Len(c) <= Len(s)
  /\ \A k \in 1 .. Len(c) : c[k] # <<>>
  /\ \A k \in 1 .. Len(c) : Len(c[k]) > 1 => Fits(c[k])
  /\ \A k \in 2 .. Len(c) : ~ Fits(Append(c[k - 1], c[k][1]))

\* Of a chunk that is not empty and one more expression.
LEMMA FitsIf ==
  ASSUME Costing, NEW chunk \in Seq(Cells), NEW i \in Cells
  PROVE  Fits(Append(chunk, i)) <=> ~ Full(chunk, cost[i])
<1>1. /\ Size(chunk) \in Nat /\ cost[i] \in Nat /\ Len(chunk) \in Nat
      /\ Size(Append(chunk, i)) = Size(chunk) + cost[i]
      /\ Len(Append(chunk, i)) = Len(chunk) + 1
  BY SizeAdds
<1>2. ShareSize \in Nat /\ MaxBytes \in Nat
  BY SizesAssumption
<1> QED
  BY <1>1, <1>2 DEF Fits, Full

LEMMA CutNew ==
  ASSUME Costing, NEW c, NEW s \in Seq(Cells), CutOK(c, s), NEW i \in Cells,
         c = <<>> \/ Full(Last(c), cost[i])
  PROVE  CutOK(Append(c, <<i>>), s \o <<i>>)
<1> DEFINE d == Append(c, <<i>>)
           N == Len(c)
           one == <<i>>
<1>1. one \in Seq(Cells) /\ Len(one) = 1 /\ one[1] = i /\ one # <<>>
  OBVIOUS
<1>2. /\ c \in Parts(Cells) /\ FlattenSeq(c) = s /\ N <= Len(s)
      /\ \A k \in 1 .. N : c[k] # <<>>
      /\ \A k \in 1 .. N : Len(c[k]) > 1 => Fits(c[k])
      /\ \A k \in 2 .. N : ~ Fits(Append(c[k - 1], c[k][1]))
  BY DEF CutOK
<1>3. /\ d \in Parts(Cells) /\ N \in Nat /\ Len(d) = N + 1 /\ d[N + 1] = one
      /\ \A k \in 1 .. N : d[k] = c[k]
  <2>1. one \in Seq(Cells) /\ c \in Parts(Cells)
    BY <1>1, <1>2
  <2> HIDE DEF d, one
  <2>2. /\ Append(c, one) \in Parts(Cells)
        /\ Len(c) \in Nat /\ Len(Append(c, one)) = Len(c) + 1
        /\ Append(c, one)[Len(c) + 1] = one
        /\ \A k \in 1 .. Len(c) : Append(c, one)[k] = c[k]
    BY <2>1, PartsMore
  <2> QED
    BY <2>2, Zenon DEF d, one
<1>4. FlattenSeq(d) = s \o one
  BY <1>1, <1>2, FlattenMore
<1>5. Len(s \o one) = Len(s) + 1 /\ Len(s) \in Nat
  BY <1>1
<1>6. N # 0 => ~ Fits(Append(c[N], i))
  <2>1. ASSUME N # 0
        PROVE  ~ Fits(Append(c[N], i))
    <3>1. c # <<>>
      BY <2>1
    <3>2. c[N] \in Seq(Cells) /\ Full(c[N], cost[i])
      BY <1>2, <3>1, PartsLast
    <3> QED
      BY <3>2, FitsIf
  <2> QED
    BY <2>1
<1> HIDE DEF d, one, N
<1>7. \A k \in 1 .. N + 1 : k \in 1 .. N \/ k = N + 1
  BY <1>3
<1>8. /\ \A k \in 1 .. N + 1 : d[k] # <<>>
      /\ \A k \in 1 .. N + 1 : Len(d[k]) > 1 => Fits(d[k])
  <2>1. ASSUME NEW k \in 1 .. N + 1
        PROVE  d[k] # <<>> /\ (Len(d[k]) > 1 => Fits(d[k]))
    <3>1. CASE k \in 1 .. N
      BY <1>2, <1>3, <3>1, Zenon
    <3>2. CASE k = N + 1
      <4>1. d[k] = one
        BY <1>3, <3>2
      <4>2. ~ (Len(one) > 1)
        BY <1>1
      <4> QED
        BY <1>1, <4>1, <4>2, Zenon
    <3> QED
      BY <1>7, <3>1, <3>2
  <2> QED
    BY <2>1
<1>9. ASSUME NEW k \in 2 .. N + 1
      PROVE  ~ Fits(Append(d[k - 1], d[k][1]))
  <2>1. k - 1 \in 1 .. N /\ d[k - 1] = c[k - 1]
    BY <1>3
  <2>2. CASE k \in 2 .. N
    <3>1. d[k] = c[k]
      BY <1>3, <2>2
    <3> QED
      BY <1>2, <2>1, <2>2, <3>1
  <2>3. CASE k = N + 1
    <3>1. k - 1 = N /\ N # 0 /\ d[k][1] = i
      BY <1>1, <1>3, <2>1, <2>3
    <3> QED
      BY <1>6, <2>1, <3>1
  <2> QED
    BY <1>3, <2>2, <2>3
<1>10. CutOK(d, s \o one)
  <2>1. Len(d) <= Len(s \o one)
    BY <1>2, <1>3, <1>5
  <2> QED
    BY <1>3, <1>4, <1>8, <1>9, <2>1 DEF CutOK
<1> QED
  BY <1>10 DEF d, one

LEMMA CutOld ==
  ASSUME Costing, NEW c, NEW s \in Seq(Cells), CutOK(c, s), NEW i \in Cells,
         c # <<>>, ~ Full(Last(c), cost[i])
  PROVE  CutOK(Append(Front(c), Append(Last(c), i)), s \o <<i>>)
<1> DEFINE f == Front(c)
           l == Last(c)
           m == Append(l, i)
           d == Append(f, m)
           N == Len(c)
           one == <<i>>
<1>2. /\ c \in Parts(Cells) /\ FlattenSeq(c) = s /\ N <= Len(s)
      /\ \A k \in 1 .. N : c[k] # <<>>
      /\ \A k \in 1 .. N : Len(c[k]) > 1 => Fits(c[k])
      /\ \A k \in 2 .. N : ~ Fits(Append(c[k - 1], c[k][1]))
  BY DEF CutOK
<1>1. /\ f \in Parts(Cells) /\ l \in Seq(Cells) /\ Append(f, l) = c
      /\ N \in Nat /\ Len(f) = N - 1 /\ N >= 1 /\ l = c[N]
      /\ \A k \in 1 .. N - 1 : f[k] = c[k]
  BY <1>2, PartsLast
<1>3. ~ Full(l, cost[i])
  OBVIOUS
<1> HIDE DEF f, l, N
<1>4. m \in Seq(Cells) /\ m # <<>> /\ m = l \o one /\ one \in Seq(Cells) /\ Len(one) = 1
  <2>1. m \in Seq(Cells) /\ m # <<>> /\ one \in Seq(Cells) /\ Len(one) = 1
    BY <1>1
  <2> QED
    BY <1>1, <2>1, AppendIsConcat
<1>5. Fits(m)
  BY <1>1, <1>3, FitsIf
<1>6. m[1] = l[1]
  <2>1. l # <<>>
    BY <1>1, <1>2
  <2> QED
    BY <1>1, <2>1
<1> HIDE DEF m
<1>7. /\ d \in Parts(Cells) /\ Len(d) = N /\ d[N] = m
      /\ \A k \in 1 .. N - 1 : d[k] = c[k]
  <2>1. /\ d \in Parts(Cells) /\ Len(d) = Len(f) + 1 /\ d[Len(f) + 1] = m
        /\ \A k \in 1 .. Len(f) : d[k] = f[k]
    <3>1. f \in Parts(Cells) /\ m \in Seq(Cells)
      BY <1>1, <1>4
    <3>2. /\ Append(f, m) \in Parts(Cells)
          /\ Len(Append(f, m)) = Len(f) + 1
          /\ Append(f, m)[Len(f) + 1] = m
          /\ \A k \in 1 .. Len(f) : Append(f, m)[k] = f[k]
      BY <3>1, PartsMore
    <3> QED
      BY <3>2
  <2>2. Len(f) + 1 = N
    BY <1>1
  <2> HIDE DEF d
  <2> QED
    BY <1>1, <2>1, <2>2
<1>8. FlattenSeq(d) = s \o one
  <2>1. FlattenSeq(f) \in Seq(Cells) /\ FlattenSeq(d) = FlattenSeq(f) \o m
    BY <1>1, <1>4, FlattenMore
  <2>2. FlattenSeq(Append(f, l)) = FlattenSeq(f) \o l
    BY <1>1, FlattenMore
  <2>3. s = FlattenSeq(f) \o l
    BY <1>1, <1>2, <2>2
  <2>4. (FlattenSeq(f) \o l) \o one = FlattenSeq(f) \o (l \o one)
    <3> DEFINE g == FlattenSeq(f)
    <3> HIDE DEF g, one
    <3>1. g \in Seq(Cells) /\ l \in Seq(Cells) /\ one \in Seq(Cells)
      BY <1>1, <1>4, <2>1 DEF g
    <3>2. (g \o l) \o one = g \o (l \o one)
      BY <3>1, ConcatAssociative
    <3> QED
      BY <3>2 DEF g
  <2> QED
    BY <1>4, <2>1, <2>3, <2>4
<1>9. Len(s \o one) = Len(s) + 1 /\ Len(s) \in Nat
  BY <1>4
<1> HIDE DEF d, one
<1>10. \A k \in 1 .. N : k \in 1 .. N - 1 \/ k = N
  BY <1>1
<1>11. /\ \A k \in 1 .. N : d[k] # <<>> /\ (Len(d[k]) > 1 => Fits(d[k]))
       /\ \A k \in 1 .. N : d[k][1] = c[k][1]
  BY <1>1, <1>2, <1>4, <1>5, <1>6, <1>7, <1>10
<1>12. ASSUME NEW k \in 2 .. N
       PROVE  ~ Fits(Append(d[k - 1], d[k][1]))
  <2>1. k - 1 \in 1 .. N - 1 /\ k \in 1 .. N
    BY <1>1
  <2>2. d[k - 1] = c[k - 1] /\ d[k][1] = c[k][1]
    BY <1>7, <1>11, <2>1
  <2> QED
    BY <1>2, <2>2
<1>13. CutOK(d, s \o one)
  <2>1. Len(d) <= Len(s \o one)
    BY <1>1, <1>2, <1>7, <1>9
  <2> QED
    BY <1>7, <1>8, <1>11, <1>12, <2>1 DEF CutOK
<1> QED
  BY <1>13 DEF d, m, f, l, one

LEMMA CutAdd ==
  ASSUME Costing, NEW c, NEW s \in Seq(Cells), CutOK(c, s), NEW i \in Cells
  PROVE  CutOK(AddTo(c, i), s \o <<i>>)
BY CutNew, CutOld DEF AddTo

LEMMA NoneCut == CutOK(<<>>, <<>>)
<1>1. <<>> \in Parts(Cells)
  BY DEF Parts
<1>2. FlattenSeq(<<>>) = <<>> /\ Len(<<>>) = 0
  BY DEF FlattenSeq
<1> QED
  BY <1>1, <1>2 DEF CutOK

\* How the chunks come about.
Cutting(order) ==
  {f \in [0 .. Len(order) -> Parts(Cells)] :
     f[0] = <<>> /\ \A n \in 1 .. Len(order) : f[n] = AddTo(f[n - 1], order[n])}

LEMMA Cuts == ASSUME Costing, NEW order \in Seq(Cells) PROVE Cutting(order) # {}
<1> DEFINE N == Len(order)
           S == {c \in Parts(Cells) : \E s \in Seq(Cells) : CutOK(c, s)}
           F == [n \in 1 .. N |-> [c \in S |-> AddTo(c, order[n])]]
<1>1. N \in Nat /\ \A n \in 1 .. N : order[n] \in Cells
  OBVIOUS
<1>2. <<>> \in S
  <2>1. CutOK(<<>>, <<>>) /\ <<>> \in Seq(Cells)
    BY NoneCut
  <2>2. <<>> \in Parts(Cells)
    BY <2>1 DEF CutOK
  <2> QED
    BY <2>1, <2>2
<1> HIDE DEF N
<1>3. ASSUME NEW c \in S, NEW n \in 1 .. N
      PROVE  AddTo(c, order[n]) \in S
  <2>1. PICK s \in Seq(Cells) : CutOK(c, s)
    OBVIOUS
  <2>2. order[n] \in Cells
    BY <1>1
  <2>3. CutOK(AddTo(c, order[n]), s \o <<order[n]>>)
    BY <2>1, <2>2, CutAdd
  <2>4. s \o <<order[n]>> \in Seq(Cells)
    BY <2>2
  <2>5. AddTo(c, order[n]) \in Parts(Cells)
    BY <2>3 DEF CutOK
  <2> QED
    BY <2>3, <2>4, <2>5
<1>4. S \subseteq Parts(Cells)
  OBVIOUS
<1> HIDE DEF S
<1>5. \A n \in 1 .. N, c \in S : F[n][c] = AddTo(c, order[n])
  OBVIOUS
<1> HIDE DEF F
<1>6. StepsIn(F, N, S)
  BY <1>3, <1>5 DEF StepsIn
<1>7. PICK g : g \in Computed(F, N, S, <<>>)
  BY <1>1, <1>2, <1>6, Recursion
<1>8. g \in [0 .. N -> S] /\ g[0] = <<>> /\ \A n \in 1 .. N : g[n] = F[n][g[n - 1]]
  BY <1>7 DEF Computed
<1>9. \A n \in 1 .. N : g[n - 1] \in S
  BY <1>1, <1>8
<1>10. \A n \in 1 .. N : g[n] = AddTo(g[n - 1], order[n])
  BY <1>5, <1>8, <1>9
<1>11. g \in [0 .. N -> Parts(Cells)]
  BY <1>4, <1>8
<1>12. g \in Cutting(order)
  BY <1>8, <1>10, <1>11 DEF Cutting, N
<1> QED
  BY <1>12

LEMMA CutIs ==
  ASSUME Costing, NEW order \in Seq(Cells)
  PROVE  CutOK(Cut(order), order)
<1> DEFINE N == Len(order)
           upto[n \in 0 .. N] == IF n = 0 THEN <<>> ELSE AddTo(upto[n - 1], order[n])
           P == [n \in 0 .. N |-> SubSeq(order, 1, n)]
<1>1. Cut(order) = upto[N]
  BY DEF Cut
<1> HIDE DEF upto
<1>2. /\ N \in Nat /\ \A n \in 1 .. N : order[n] \in Cells
      /\ \A n \in 0 .. N : P[n] \in Seq(Cells)
      /\ P[0] = <<>> /\ P[N] = order
  <2>1. N \in Nat /\ \A n \in 1 .. N : order[n] \in Cells
    OBVIOUS
  <2>2. ASSUME NEW n \in 0 .. N
        PROVE  SubSeq(order, 1, n) \in Seq(Cells)
    BY <2>1
  <2>3. SubSeq(order, 1, 0) = <<>>
    BY SubSeqEmpty
  <2>4. SubSeq(order, 1, N) = order
    BY SubSeqFull
  <2>5. 0 \in 0 .. N /\ N \in 0 .. N
    BY <2>1
  <2> QED
    BY <2>1, <2>2, <2>3, <2>4, <2>5
<1>3. ASSUME NEW n \in 1 .. N
      PROVE  P[n] = P[n - 1] \o <<order[n]>>
  <2>1. 1 \in 1 .. Len(order) /\ n \in 1 .. Len(order) /\ n - 1 \in 0 .. N /\ n \in 0 .. N
    BY <1>2
  <2>2. SubSeq(order, 1, n) = SubSeq(order, 1, n - 1) \o <<order[n]>>
    BY <2>1, SubSeqRecursiveSecond
  <2> QED
    BY <2>1, <2>2
<1>4. PICK g : g \in Cutting(order)
  BY Cuts
<1>5. /\ g \in [0 .. N -> Parts(Cells)] /\ g[0] = <<>>
      /\ \A n \in 1 .. N : g[n] = AddTo(g[n - 1], order[n])
  BY <1>4 DEF Cutting
<1> HIDE DEF N, P
<1>6. g = [n \in 0 .. N |-> IF n = 0 THEN <<>> ELSE AddTo(g[n - 1], order[n])]
  <2>1. \A n \in 0 .. N : n = 0 \/ n \in 1 .. N
    BY <1>2
  <2>2. \A n \in 0 .. N : g[n] = IF n = 0 THEN <<>> ELSE AddTo(g[n - 1], order[n])
    BY <1>5, <2>1, Zenon
  <2>3. g = [n \in 0 .. N |-> g[n]]
    BY <1>5
  <2> QED
    BY <2>2, <2>3, Zenon
<1>7. upto = [n \in 0 .. N |-> IF n = 0 THEN <<>> ELSE AddTo(upto[n - 1], order[n])]
  BY <1>6, Zenon DEF upto
<1>8. \A n \in 0 .. N : upto[n] = IF n = 0 THEN <<>> ELSE AddTo(upto[n - 1], order[n])
  BY <1>7, Zenon
<1> DEFINE T == {n \in 0 .. N : CutOK(upto[n], P[n])}
<1>9. 0 \in T
  <2>1. upto[0] = <<>> /\ 0 \in 0 .. N
    BY <1>2, <1>8
  <2> QED
    BY <1>2, <2>1, NoneCut
<1>10. ASSUME NEW n \in 1 .. N, n - 1 \in T
       PROVE  n \in T
  <2>1. n \in 0 .. N /\ n # 0 /\ n - 1 \in 0 .. N
    BY <1>2
  <2>2. upto[n] = AddTo(upto[n - 1], order[n])
    BY <1>8, <2>1, Zenon
  <2>3. CutOK(upto[n - 1], P[n - 1]) /\ P[n - 1] \in Seq(Cells) /\ order[n] \in Cells
    BY <1>2, <1>10, <2>1
  <2>4. CutOK(AddTo(upto[n - 1], order[n]), P[n - 1] \o <<order[n]>>)
    BY <2>3, CutAdd
  <2>5. CutOK(upto[n], P[n])
    BY <1>3, <2>2, <2>4
  <2> QED
    BY <2>1, <2>5
<1> HIDE DEF T
<1>11. N \in T
  <2>1. \A n \in 0 .. N : n \in T
    BY <1>2, <1>9, <1>10, UpTo
  <2> QED
    BY <1>2, <2>1
<1> QED
  BY <1>1, <1>2, <1>11 DEF T

-----------------------------------------------------------------------------
\* The expressions of a qna group but its first.
LEMMA OthersAre ==
  LET order == [i \in 1 .. NExpr - 1 |-> i + 1]
  IN order \in Seq(Cells) /\ IsInjective(order) /\ Len(order) <= NExpr
<1> DEFINE order == [i \in 1 .. NExpr - 1 |-> i + 1]
<1>1. NExpr - 1 \in Nat /\ NExpr \in Nat
  BY SizesAssumption
<1>2. \A i \in 1 .. NExpr - 1 : i + 1 \in Cells
  BY <1>1 DEF Cells
<1>3. order \in [1 .. NExpr - 1 -> Cells]
  BY <1>2
<1>4. order \in Seq(Cells) /\ Len(order) = NExpr - 1
  BY <1>1, <1>3
<1>5. IsInjective(order)
  BY <1>1 DEF IsInjective
<1> QED
  BY <1>1, <1>4, <1>5

\* Those of a fan-out group that a tuple may take.
LEMMA HintedAre ==
  LET order == Chosen([i \in Cells |-> i], hints)
  IN order \in Seq(Cells) /\ IsInjective(order) /\ Len(order) <= NExpr
<1> DEFINE all == [i \in Cells |-> i]
<1>1. NExpr \in Nat
  BY SizesAssumption
<1>2. all \in Seq(Cells) /\ Len(all) = NExpr /\ IsInjective(all)
  BY <1>1 DEF Cells, IsInjective
<1> HIDE DEF all
<1>3. /\ Chosen(all, hints) \in Seq(Cells) /\ Len(Chosen(all, hints)) <= Len(all)
      /\ IsInjective(Chosen(all, hints))
  BY <1>2, ChosenIs
<1>4. Len(Chosen(all, hints)) <= NExpr
  BY <1>2, <1>3
<1> QED
  BY <1>3, <1>4 DEF all

\* A chunk does not end early, and all that may be shared is in one.
LEMMA ChunksFitAlways == Costing => ChunksFit
<1> SUFFICES ASSUME Costing PROVE ChunksFit
  OBVIOUS
<1> DEFINE order == [i \in 1 .. NExpr - 1 |-> i + 1]
<1>1. CutOK(Chunks, order)
  BY OthersAre, CutIs DEF Chunks
<1> HIDE DEF order
<1>2. /\ FlattenSeq(Chunks) = order
      /\ \A k \in 1 .. Len(Chunks) : Len(Chunks[k]) > 1 => Fits(Chunks[k])
      /\ \A k \in 2 .. Len(Chunks) : ~ Fits(Append(Chunks[k - 1], Chunks[k][1]))
  BY <1>1 DEF CutOK
<1> QED
  BY <1>2, Zenon DEF ChunksFit, Fits, order

\* No expression is in two places.
OnePlace(p) ==
  /\ p \in Parts(Cells) /\ Len(p) <= NExpr
  /\ \A k, j \in 1 .. Len(p) : \A m \in 1 .. Len(p[k]), n \in 1 .. Len(p[j]) :
       p[k][m] = p[j][n] => k = j /\ m = n

LEMMA SharedOnce ==
  ASSUME Costing, NEW order \in Seq(Cells), IsInjective(order), Len(order) <= NExpr
  PROVE  OnePlace(Chosen(Cut(order), {h \in ToSet(Cut(order)) : Len(h) > 1}))
<1> DEFINE c == Cut(order)
           T == {h \in ToSet(c) : Len(h) > 1}
           p == Chosen(c, T)
<1>1. c \in Parts(Cells) /\ FlattenSeq(c) = order /\ Len(c) <= Len(order)
  BY CutIs DEF CutOK
<1> HIDE DEF c, T
<1>2. /\ p \in Parts(Cells) /\ Places(p, c, Len(c), T) # {} /\ Len(p) <= Len(c)
  <2> DEFINE S == Seq(Cells)
  <2> HIDE DEF S
  <2>1. c \in Seq(S)
    BY <1>1 DEF Parts, S
  <2>2. p \in Seq(S) /\ Places(p, c, Len(c), T) # {} /\ Len(p) <= Len(c)
    BY <2>1, ChosenPlaces
  <2> QED
    BY <2>2 DEF Parts, S
<1> HIDE DEF p
<1>3. PICK e \in [1 .. Len(p) -> 1 .. Len(c)] :
        /\ \A i \in 1 .. Len(p) : p[i] = c[e[i]]
        /\ \A i, j \in 1 .. Len(p) : i < j => e[i] < e[j]
  BY <1>2 DEF Places
<1>4. Len(p) \in Nat /\ Len(c) \in Nat
  BY <1>1, <1>2 DEF Parts
<1>5. ASSUME NEW k \in 1 .. Len(p), NEW j \in 1 .. Len(p),
             NEW m \in 1 .. Len(p[k]), NEW n \in 1 .. Len(p[j]), p[k][m] = p[j][n]
      PROVE  k = j /\ m = n
  <2>1. e[k] \in 1 .. Len(c) /\ e[j] \in 1 .. Len(c) /\ p[k] = c[e[k]] /\ p[j] = c[e[j]]
    BY <1>3
  <2>2. IsInjective(FlattenSeq(c))
    BY <1>1
  <2>3. e[k] = e[j] /\ m = n
    BY <1>1, <1>5, <2>1, <2>2, PartsApart
  <2>4. ~ (k < j) /\ ~ (j < k)
    BY <1>3, <1>4, <2>1, <2>3
  <2> QED
    BY <1>4, <2>3, <2>4
<1>6. Len(p) <= NExpr
  <2>1. NExpr \in Nat /\ Len(order) \in Nat
    BY SizesAssumption
  <2> QED
    BY <1>1, <1>2, <1>4, <2>1
<1> QED
  BY <1>2, <1>5, <1>6, Zenon DEF p, c, T, OnePlace

LEMMA PlanIsOK == Costing /\ plan = Units => PlanOK
<1> SUFFICES ASSUME Costing, plan = Units PROVE PlanOK
  OBVIOUS
<1>1. ASSUME NEW order, order \in Seq(Cells), IsInjective(order), Len(order) <= NExpr,
             NEW c, c = Cut(order), plan = Chosen(c, {h \in ToSet(c) : Len(h) > 1})
      PROVE  PlanOK
  <2>1. OnePlace(plan)
    BY <1>1, SharedOnce
  <2> QED
    BY <2>1, Zenon DEF PlanOK, OnePlace, Parts
<1>2. CASE kind = "qna"
  <2>1. plan = Chosen(Chunks, {h \in ToSet(Chunks) : Len(h) > 1})
    BY <1>2 DEF Units
  <2> QED
    BY <1>1, <2>1, OthersAre DEF Chunks
<1>3. CASE kind # "qna"
  <2>1. plan = Chosen(Tuples, {h \in ToSet(Tuples) : Len(h) > 1})
    BY <1>3 DEF Units
  <2> QED
    BY <1>1, <2>1, HintedAre DEF Tuples
<1> QED
  BY <1>2, <1>3

-----------------------------------------------------------------------------
(* Shared runs: where an expression's block is in an output. *)

\* No block of a trusted output has a stray one, and none is left out.
LEMMA TrustedIs ==
  ASSUME NEW chunk \in Seq(Cells), NEW out \in Stdouts(chunk), Trusted(out, Len(chunk)),
         NEW k \in 1 .. Len(chunk)
  PROVE  out[2 * k - 1] = chunk[k]
<1> DEFINE n == Len(chunk)
<1>1. n \in Nat /\ \A j \in 1 .. n : chunk[j] \in Cells /\ chunk[j] \in Nat /\ chunk[j] # Sentinel
  <2>1. \A i \in Cells : i \in Nat /\ i # Sentinel
    BY DEF Cells, Sentinel
  <2>2. n \in Nat /\ \A j \in 1 .. n : chunk[j] \in Cells
    OBVIOUS
  <2> QED
    BY <2>1, <2>2
<1>2. PICK p \in [1 .. n -> UNION {Pieces(i) : i \in ToSet(chunk)}] :
        (\A j \in 1 .. n : p[j] \in Pieces(chunk[j])) /\ out = FlattenSeq(p)
  BY DEF Stdouts
<1>3. \A j \in 1 .. n : p[j] \in Seq(Nat)
  <2>1. \A i \in Nat : Pieces(i) \subseteq Seq(Nat)
    BY DEF Pieces, Sentinel
  <2> QED
    BY <1>1, <1>2, <2>1
<1>4. p \in Parts(Nat) /\ Len(p) = n
  <2> DEFINE S == Seq(Nat)
  <2> HIDE DEF S
  <2>1. \A j \in 1 .. n : p[j] \in S
    BY <1>3 DEF S
  <2> HIDE DEF n
  <2>2. p \in [1 .. n -> S]
    BY <1>2, <2>1
  <2>3. p \in Seq(S) /\ Len(p) = n
    BY <1>1, <2>2
  <2> QED
    BY <2>3 DEF S, Parts
<1>5. PICK g : g \in LaidOut(p, Nat)
  BY <1>4, Layout
<1>6. InPlace(p, g)
  BY <1>4, <1>5, PartsInPlace
<1>7. out = g[n] /\ Len(g[0]) = 0
  <2>1. FlattenSeq(p) = g[Len(p)]
    BY <1>4, <1>5, Flattening
  <2>2. g[0] = <<>>
    BY <1>5 DEF LaidOut
  <2> QED
    BY <1>2, <1>4, <2>1, <2>2
<1> DEFINE at == [j \in 0 .. n |-> Len(g[j])]
<1>8. /\ at \in [0 .. n -> Nat] /\ at[0] = 0
      /\ \A j \in 1 .. n : at[j] = at[j - 1] + Len(p[j])
      /\ \A j \in 0 .. n : at[j] <= at[n]
      /\ \A j \in 1 .. n : \A m \in 1 .. Len(p[j]) : out[at[j - 1] + m] = p[j][m]
  <2>1. /\ \A j \in 0 .. n : Len(g[j]) \in Nat
        /\ \A j \in 1 .. n : Len(g[j]) = Len(g[j - 1]) + Len(p[j])
        /\ \A j, l \in 0 .. n : j <= l => Len(g[j]) <= Len(g[l])
        /\ \A j \in 1 .. n : \A m \in 1 .. Len(p[j]) : out[Len(g[j - 1]) + m] = p[j][m]
    BY <1>2, <1>4, <1>6, Zenon DEF InPlace
  <2> HIDE DEF n
  <2>2. \A j \in 1 .. n : j \in 0 .. n /\ j - 1 \in 0 .. n
    BY <1>1
  <2>3. 0 \in 0 .. n /\ n \in 0 .. n /\ \A j \in 0 .. n : j <= n
    BY <1>1
  <2> QED
    BY <1>7, <2>1, <2>2, <2>3
<1>9. at[n] = 2 * n /\ \A m \in 1 .. n : out[2 * m] = Sentinel
  <2>1. Len(out) = 2 * n /\ \A m \in 1 .. n : out[2 * m] = Sentinel
    BY DEF Trusted
  <2>2. at[n] = Len(g[n])
    <3>1. n \in 0 .. n
      BY <1>1
    <3> HIDE DEF n
    <3> QED
      BY <3>1
  <2> HIDE DEF at, n
  <2> QED
    BY <1>7, <2>1, <2>2
<1>10. k \in 1 .. n
  OBVIOUS
<1> HIDE DEF at, n
\* Two blocks before a sentinel: one of them is where a sentinel should be.
<1>11. ASSUME NEW j \in 1 .. n, p[j] = <<chunk[j], chunk[j], Sentinel>>
       PROVE  FALSE
  <2>1. /\ Len(p[j]) = 3 /\ p[j][1] = chunk[j] /\ p[j][2] = chunk[j]
        /\ 1 \in 1 .. Len(p[j]) /\ 2 \in 1 .. Len(p[j])
    BY <1>11
  <2>2. /\ at[j - 1] \in Nat /\ at[j] = at[j - 1] + 3 /\ at[j] <= 2 * n
        /\ out[at[j - 1] + 1] = chunk[j] /\ out[at[j - 1] + 2] = chunk[j]
    <3>1. j - 1 \in 0 .. n /\ j \in 0 .. n
      BY <1>1
    <3> QED
      BY <1>8, <1>9, <2>1, <3>1
  <2>3. PICK d \in Nat : at[j - 1] = 2 * d \/ at[j - 1] = 2 * d + 1
    BY <2>2, Halves
  <2>4. d + 1 \in 1 .. n
    BY <1>1, <2>2, <2>3
  <2>5. 2 * (d + 1) = at[j - 1] + 1 \/ 2 * (d + 1) = at[j - 1] + 2
    BY <2>2, <2>3
  <2>6. out[2 * (d + 1)] = Sentinel
    BY <1>9, <2>4
  <2> QED
    BY <1>1, <2>2, <2>5, <2>6
<1>12. \A j \in 1 .. n :
         /\ Len(p[j]) \in Nat /\ Len(p[j]) <= 2
         /\ Len(p[j]) = 2 => p[j][1] = chunk[j]
  <2>1. ASSUME NEW j \in 1 .. n
        PROVE  /\ Len(p[j]) \in Nat /\ Len(p[j]) <= 2
               /\ Len(p[j]) = 2 => p[j][1] = chunk[j]
    <3>1. p[j] \in {<<chunk[j], Sentinel>>, <<chunk[j]>>, <<Sentinel>>, <<>>}
      BY <1>2, <1>11 DEF Pieces
    <3>2. \A a, b : /\ Len(<<a, b>>) = 2 /\ <<a, b>>[1] = a
                    /\ Len(<<a>>) = 1 /\ Len(<<>>) = 0
      OBVIOUS
    <3>3. CASE p[j] = <<chunk[j], Sentinel>>
      <4>1. Len(p[j]) = 2 /\ p[j][1] = chunk[j]
        BY <3>2, <3>3
      <4> QED
        BY <4>1
    <3>4. CASE p[j] \in {<<chunk[j]>>, <<Sentinel>>, <<>>}
      <4>1. Len(p[j]) = 1 \/ Len(p[j]) = 0
        BY <3>2, <3>4
      <4>2. \A l : l = 1 \/ l = 0 => l \in Nat /\ l <= 2 /\ l # 2
        OBVIOUS
      <4> QED
        BY <4>1, <4>2, Zenon
    <3> QED
      BY <3>1, <3>3, <3>4
  <2> QED
    BY <2>1
<1>13. \A j \in 1 .. n : at[j] <= at[j - 1] + 2
  <2>1. ASSUME NEW j \in 1 .. n
        PROVE  at[j] <= at[j - 1] + 2
    <3>1. j - 1 \in 0 .. n
      BY <1>1
    <3>2. at[j - 1] \in Nat /\ at[j] = at[j - 1] + Len(p[j])
      BY <1>8, <3>1
    <3> QED
      BY <1>12, <3>2
  <2> QED
    BY <2>1
<1>14. \A j \in 0 .. n : at[j] = 2 * j
  BY <1>1, <1>8, <1>9, <1>13, AllTwos
<1>15. /\ at[k - 1] = 2 * (k - 1) /\ at[k] = 2 * k /\ at[k] = at[k - 1] + Len(p[k])
       /\ Len(p[k]) \in Nat
  <2>1. k - 1 \in 0 .. n /\ k \in 0 .. n
    BY <1>1, <1>10
  <2> QED
    BY <1>8, <1>10, <1>12, <1>14, <2>1
<1>16. k \in Nat /\ Len(p[k]) = 2 /\ 1 \in 1 .. Len(p[k])
  <2>1. k \in Nat
    BY <1>1, <1>10
  <2>2. \A a, l \in Nat : 2 * a = 2 * (a - 1) + l => l = 2
    OBVIOUS
  <2>3. Len(p[k]) = 2
    BY <1>15, <2>1, <2>2
  <2> QED
    BY <2>1, <2>3
<1>17. out[at[k - 1] + 1] = chunk[k]
  BY <1>8, <1>10, <1>12, <1>16
<1>18. at[k - 1] + 1 = 2 * k - 1
  BY <1>15, <1>16
<1> QED
  BY <1>17, <1>18

\* Of every shared run's output that is trusted the same.
LEMMA SplitsAlways == PlanOK => SplitsRightly
<1> SUFFICES ASSUME PlanOK, NEW k \in 1 .. Len(plan), NEW out \in Stdouts(plan[k]),
                    Trusted(out, Len(plan[k])), NEW m \in 1 .. Len(plan[k])
             PROVE  out[2 * m - 1] = plan[k][m]
  BY DEF SplitsRightly
<1>1. plan[k] \in Seq(Cells)
  <2> DEFINE S == Seq(Cells)
  <2> HIDE DEF S
  <2>1. plan \in Seq(S)
    BY DEF PlanOK, S
  <2>2. plan[k] \in S
    BY <2>1
  <2> QED
    BY <2>2 DEF S
<1> QED
  BY <1>1, TrustedIs

-----------------------------------------------------------------------------
(* Shared runs: lanes and permits. *)

LEMMA SharedSteps == [MCNext]_allVars => [Next]_vars
<1> QED
  BY DEF allVars, MCNext, vars, choices

LEMMA ResultsOf ==
  ASSUME NEW i \in Cells, NEW n \in Nat
  PROVE  Results(i, n) # <<>> /\ ToSet(Results(i, n)) \subseteq {i, Failure}
<1>1. CASE n = 0
  BY <1>1 DEF Results, ToSet
<1>2. CASE n # 0
  <2>1. Results(i, n) = [m \in 1 .. n |-> i] /\ 1 \in 1 .. n
    BY <1>2 DEF Results
  <2>2. DOMAIN Results(i, n) # {}
    BY <2>1
  <2> QED
    BY <2>1, <2>2 DEF ToSet
<1> QED
  BY <1>1, <1>2


\* The runs an expression is in are one after the other: its own starts when
\* those it shares have come back, and only the last of them says anything.
OneRun(i) ==
  /\ cell[i] # "held" => Alone(i)
  /\ said[i] # <<>> => \/ cell[i] = "done"
                       \/ \E k \in 1 .. Len(plan) : i \in ToSet(plan[k]) /\ unit[k] = "done"
  /\ cell[i] = "done" => said[i] # <<>>
  /\ said[i] # <<>> => said[i] = <<said[i][1]>> /\ said[i][1] # <<>>

SharedTypes ==
  /\ cell \in [Cells -> {"held", "permit", "flying", "done"}]
  /\ unit \in [Cells -> {"held", "permit", "flying", "handed", "done"}]
  /\ said = [i \in Cells |-> said[i]]
  /\ \A k \in Cells : unit[k] # "held" => k \in 1 .. Len(plan)

SharedInv == PlanOK /\ SharedTypes /\ \A i \in Cells : OneRun(i)

LEMMA PlanFacts ==
  ASSUME PlanOK
  PROVE  /\ Len(plan) \in Nat /\ 1 .. Len(plan) \subseteq Cells
         /\ \A k \in 1 .. Len(plan) :
              plan[k] \in Seq(Cells) /\ Len(plan[k]) \in Nat
                /\ DOMAIN plan[k] = 1 .. Len(plan[k]) /\ ToSet(plan[k]) \subseteq Cells
         /\ \A k, j \in 1 .. Len(plan) : \A i \in ToSet(plan[k]) \cap ToSet(plan[j]) : k = j
<1>1. Len(plan) \in Nat /\ 1 .. Len(plan) \subseteq Cells
  BY SizesAssumption DEF PlanOK, Cells
<1>2. ASSUME NEW k \in 1 .. Len(plan)
      PROVE  /\ plan[k] \in Seq(Cells) /\ Len(plan[k]) \in Nat
             /\ DOMAIN plan[k] = 1 .. Len(plan[k]) /\ ToSet(plan[k]) \subseteq Cells
  <2>1. plan[k] \in Seq(Cells)
    BY DEF PlanOK
  <2> QED
    BY <2>1 DEF ToSet
<1>3. ASSUME NEW k \in 1 .. Len(plan), NEW j \in 1 .. Len(plan),
             NEW i \in ToSet(plan[k]) \cap ToSet(plan[j])
      PROVE  k = j
  <2>1. PICK m \in 1 .. Len(plan[k]) : plan[k][m] = i
    BY <1>2 DEF ToSet
  <2>2. PICK n \in 1 .. Len(plan[j]) : plan[j][n] = i
    BY <1>2 DEF ToSet
  <2> QED
    BY <2>1, <2>2 DEF PlanOK
<1> QED
  BY <1>1, <1>2, <1>3

LEMMA PlanStays == ASSUME PlanOK, UNCHANGED plan PROVE PlanOK'
<1> DEFINE Apart(p) ==
      \A k, j \in 1 .. Len(p) : \A m \in 1 .. Len(p[k]), n \in 1 .. Len(p[j]) :
        p[k][m] = p[j][n] => k = j /\ m = n
<1>1. plan \in Seq(Seq(Cells)) /\ Len(plan) <= NExpr /\ Apart(plan)
  BY DEF PlanOK
<1> HIDE DEF Apart
<1>2. plan' \in Seq(Seq(Cells)) /\ Len(plan') <= NExpr /\ Apart(plan')
  BY <1>1
<1> QED
  BY <1>2 DEF PlanOK, Apart

\* A step that says nothing, and takes no expression out of a shared run.
LEMMA NothingSaid ==
  ASSUME SharedInv, SharedTypes', UNCHANGED <<plan, said>>,
         \A i \in Cells : cell'[i] # "held" => cell[i] # "held" \/ Alone(i),
         \A i \in Cells : cell'[i] = "done" <=> cell[i] = "done",
         \A k \in Cells : unit[k] = "handed" => unit'[k] = "handed",
         \A k \in Cells : unit[k] = "done" => unit'[k] = "done"
  PROVE  SharedInv'
<1>1. PlanOK' /\ 1 .. Len(plan) \subseteq Cells
  BY PlanFacts, PlanStays DEF SharedInv
<1>2. ASSUME NEW i \in Cells
      PROVE  OneRun(i)'
  <2>1. OneRun(i)
    BY DEF SharedInv
  <2>2. Alone(i) => Alone(i)'
    BY <1>1 DEF Alone
  <2> QED
    BY <1>1, <2>1, <2>2 DEF OneRun
<1> QED
  BY <1>1, <1>2 DEF SharedInv

LEMMA AppendOne == ASSUME NEW b PROVE Append(<<>>, b) = <<b>> /\ <<b>>[1] = b /\ <<b>> # <<>>
<1> QED
  OBVIOUS

LEMMA LenOne == ASSUME NEW s, NEW b, s = <<b>> PROVE Len(s) = 1 /\ DOMAIN s = {1}
<1> QED
  OBVIOUS

LEMMA CellEndShared ==
  ASSUME SharedInv, NEW i \in Cells, CellEnd(i)
  PROVE  /\ SharedInv'
         /\ \A j \in Cells : said'[j] = said[j] \/ ToSet(said'[j][1]) \subseteq {j, Failure}
<1>1. /\ cell[i] = "flying" /\ cell' = [cell EXCEPT ![i] = "done"]
      /\ UNCHANGED <<plan, unit>> /\ SharedTypes /\ PlanOK
  BY DEF CellEnd, SharedInv, choices
<1>2. PICK n \in Nat : said' = [said EXCEPT ![i] = Append(@, Results(i, n))]
  <2>1. /\ MaxSub \in Nat
        /\ \E n \in 0 .. IF kind = "qna" THEN 1 ELSE MaxSub :
             said' = [said EXCEPT ![i] = Append(@, Results(i, n))]
    BY SizesAssumption DEF CellEnd
  <2>2. (0 .. IF kind = "qna" THEN 1 ELSE MaxSub) \subseteq Nat
    BY <2>1
  <2> QED
    BY <2>1, <2>2
<1>3. Alone(i) /\ said[i] = <<>>
  BY <1>1 DEF SharedInv, OneRun, Alone
<1>4. said'[i] = <<Results(i, n)>> /\ Results(i, n) # <<>>
  BY <1>1, <1>2, <1>3, AppendOne, ResultsOf DEF SharedTypes
<1>5. \A j \in Cells : j # i => said'[j] = said[j] /\ cell'[j] = cell[j]
  BY <1>1, <1>2 DEF SharedTypes
<1>6. SharedTypes' /\ PlanOK'
  <2>1. said' = [j \in Cells |-> said'[j]]
    BY <1>1, <1>2 DEF SharedTypes
  <2>2. PlanOK'
    BY <1>1, PlanStays
  <2> QED
    BY <1>1, <2>1, <2>2 DEF SharedTypes
<1>7. ASSUME NEW j \in Cells
      PROVE  OneRun(j)'
  <2>1. OneRun(j) /\ (Alone(j) => Alone(j)')
    BY <1>1 DEF SharedInv, Alone
  <2>2. CASE j = i
    <3>1. cell'[i] = "done" /\ said'[i] = <<said'[i][1]>> /\ said'[i][1] # <<>>
      BY <1>1, <1>4 DEF SharedTypes
    <3> QED
      BY <1>3, <1>4, <2>1, <2>2, <3>1 DEF OneRun
  <2>3. CASE j # i
    BY <1>1, <1>5, <2>1, <2>3 DEF OneRun
  <2> QED
    BY <2>2, <2>3
<1>8. said'[i][1] = Results(i, n) /\ ToSet(Results(i, n)) \subseteq {i, Failure}
  BY <1>4, ResultsOf
<1> QED
  BY <1>5, <1>6, <1>7, <1>8 DEF SharedInv

\* What a run that is trusted says, f, is all that is said of its expressions.
LEMMA UnitSays ==
  ASSUME SharedInv, NEW k \in Cells, unit[k] = "flying", NEW f,
         unit' = [unit EXCEPT ![k] = "done"], UNCHANGED <<plan, cell>>,
         said' = [i \in Cells |-> IF i \notin ToSet(plan[k]) THEN said[i]
                                  ELSE Append(said[i], f[i])],
         \A i \in ToSet(plan[k]) : f[i] # <<>>
  PROVE  /\ SharedInv'
         /\ \A i \in Cells : said'[i] = IF i \in ToSet(plan[k]) THEN <<f[i]>> ELSE said[i]
<1>1. PlanOK /\ SharedTypes /\ k \in 1 .. Len(plan) /\ k \in 1 .. Len(plan)'
  BY DEF SharedInv, SharedTypes
<1>2. \A i \in ToSet(plan[k]) : ~ Alone(i) /\ i \in Cells
  BY <1>1, PlanFacts DEF Alone
<1>3. \A i \in ToSet(plan[k]) : cell[i] = "held" /\ said[i] = <<>>
  <2> SUFFICES ASSUME NEW i \in ToSet(plan[k]) PROVE cell[i] = "held" /\ said[i] = <<>>
    OBVIOUS
  <2>1. OneRun(i) /\ ~ Alone(i)
    BY <1>2 DEF SharedInv
  <2>2. \A j \in 1 .. Len(plan) : i \in ToSet(plan[j]) => j = k
    BY <1>1, PlanFacts
  <2> QED
    BY <2>1, <2>2 DEF OneRun
<1>4. \A i \in Cells : said'[i] = IF i \in ToSet(plan[k]) THEN <<f[i]>> ELSE said[i]
  BY <1>3, AppendOne
<1>5. SharedTypes' /\ PlanOK'
  <2>1. said' = [i \in Cells |-> said'[i]]
    OBVIOUS
  <2>2. PlanOK'
    BY <1>1, PlanStays
  <2> QED
    BY <1>1, <2>1, <2>2 DEF SharedTypes
<1>6. ASSUME NEW i \in Cells
      PROVE  OneRun(i)'
  <2>1. OneRun(i)
    BY DEF SharedInv
  <2>2. CASE i \in ToSet(plan[k])
    <3>1. said'[i] = <<f[i]>> /\ f[i] # <<>> /\ cell'[i] = "held"
      BY <1>3, <1>4, <2>2
    <3>2. said'[i] # <<>> /\ said'[i] = <<said'[i][1]>> /\ said'[i][1] # <<>>
      BY <3>1
    <3>3. k \in 1 .. Len(plan)' /\ i \in ToSet(plan[k])' /\ unit'[k] = "done"
      BY <1>1, <2>2 DEF SharedTypes
    <3> QED
      BY <3>1, <3>2, <3>3 DEF OneRun
  <2>3. CASE i \notin ToSet(plan[k])
    <3>1. said'[i] = said[i] /\ cell'[i] = cell[i]
      BY <1>4, <2>3
    <3>2. Alone(i) => Alone(i)'
      BY <1>1, <2>3, PlanFacts DEF Alone, SharedTypes
    <3>3. \A j \in 1 .. Len(plan) : unit[j] = "done" => unit'[j] = "done"
      BY <1>1, PlanFacts DEF SharedTypes
    <3> QED
      BY <2>1, <3>1, <3>2, <3>3 DEF OneRun
  <2> QED
    BY <2>2, <2>3
<1> QED
  BY <1>4, <1>5, <1>6 DEF SharedInv

\* Of an output that is trusted each of a run's expressions has a part.
LEMMA PlaceOf ==
  ASSUME PlanOK, NEW k \in 1 .. Len(plan), NEW i \in ToSet(plan[k])
  PROVE  LET m == CHOOSE m \in 1 .. Len(plan[k]) : plan[k][m] = i
         IN  m \in 1 .. Len(plan[k]) /\ plan[k][m] = i
<1>1. \E m \in 1 .. Len(plan[k]) : plan[k][m] = i
  BY PlanFacts DEF ToSet
<1> QED
  BY <1>1

LEMMA UnitEndShared ==
  ASSUME SharedInv, NEW k \in Cells, UnitEnd(k)
  PROVE  /\ SharedInv'
         /\ \A i \in Cells : said'[i] = said[i] \/ ToSet(said'[i][1]) \subseteq {i, Failure}
<1>1. /\ unit[k] = "flying" /\ UNCHANGED <<plan, cell>> /\ k \in 1 .. Len(plan)
      /\ PlanOK /\ SharedTypes
  BY DEF UnitEnd, SharedInv, SharedTypes, choices
<1> DEFINE place(i) == CHOOSE m \in 1 .. Len(plan[k]) : plan[k][m] = i
<1>2. \A i \in ToSet(plan[k]) : /\ place(i) \in 1 .. Len(plan[k]) /\ plan[k][place(i)] = i
                                /\ i \in Cells
  BY <1>1, PlaceOf, PlanFacts
<1>3. CASE kind = "qna" /\ \E out \in Stdouts(plan[k]) :
             /\ Trusted(out, Len(plan[k])) /\ Tell(k, LAMBDA m : <<out[2 * m - 1]>>)
  <2>1. PICK out \in Stdouts(plan[k]) :
          /\ Trusted(out, Len(plan[k])) /\ Tell(k, LAMBDA m : <<out[2 * m - 1]>>)
    BY <1>3
  <2> DEFINE f == [i \in Cells |-> <<out[2 * place(i) - 1]>>]
  <2>2. /\ unit' = [unit EXCEPT ![k] = "done"]
        /\ said' = [i \in Cells |-> IF i \notin ToSet(plan[k]) THEN said[i]
                                    ELSE Append(said[i], f[i])]
    BY <2>1 DEF Tell
  <2>3. \A i \in ToSet(plan[k]) : f[i] = <<out[2 * place(i) - 1]>> /\ f[i] # <<>>
    BY <1>2
  <2> HIDE DEF f, place
  <2>4. /\ SharedInv'
        /\ \A i \in Cells : said'[i] = IF i \in ToSet(plan[k]) THEN <<f[i]>> ELSE said[i]
    BY <1>1, <2>2, <2>3, UnitSays
  <2>5. ASSUME NEW i \in ToSet(plan[k])
        PROVE  f[i] = <<i>>
    <3>1. place(i) \in 1 .. Len(plan[k]) /\ plan[k][place(i)] = i
      BY <1>2
    <3>2. \A m \in 1 .. Len(plan[k]) : out[2 * m - 1] = plan[k][m]
      BY <1>1, <2>1, SplitsAlways DEF SplitsRightly
    <3> QED
      BY <2>3, <3>1, <3>2
  <2>6. ASSUME NEW i \in Cells
        PROVE  said'[i] = said[i] \/ ToSet(said'[i][1]) \subseteq {i, Failure}
    <3>1. CASE i \in ToSet(plan[k])
      <4>1. said'[i] = <<f[i]>> /\ f[i] = <<i>>
        BY <2>4, <2>5, <3>1
      <4>2. said'[i][1] = <<i>>
        BY <4>1
      <4> QED
        BY <4>2 DEF ToSet
    <3> QED
      BY <2>4, <3>1
  <2> QED
    BY <2>4, <2>6
<1>4. CASE \E out \in Splits(plan[k]) :
             /\ Clean(out, Len(plan[k])) /\ Tell(k, LAMBDA m : Results(plan[k][m], out[m]))
  <2>1. PICK out \in Splits(plan[k]) :
          /\ Clean(out, Len(plan[k]))
          /\ Tell(k, LAMBDA m : Results(plan[k][m], out[m]))
    BY <1>4
  <2> DEFINE f == [i \in Cells |-> Results(plan[k][place(i)], out[place(i)])]
  <2>2. /\ unit' = [unit EXCEPT ![k] = "done"]
        /\ said' = [i \in Cells |-> IF i \notin ToSet(plan[k]) THEN said[i]
                                    ELSE Append(said[i], f[i])]
    BY <2>1 DEF Tell
  <2>3. \A m \in 1 .. Len(plan[k]) : out[m] \in Nat
    <3>1. PICK n \in {0, Len(plan[k]) - 1, Len(plan[k])} : out \in [1 .. n -> 0 .. MaxSub]
      BY <2>1 DEF Splits
    <3>2. n \in Int /\ Len(plan[k]) \in Nat /\ MaxSub \in Nat
      BY <1>1, PlanFacts, SizesAssumption
    <3>3. CASE n = Len(plan[k])
      BY <3>1, <3>2, <3>3
    <3>4. CASE n # Len(plan[k])
      <4>1. Len(out) = Len(plan[k])
        BY <2>1 DEF Clean
      <4>2. CASE n \in Nat
        BY <3>1, <3>2, <3>4, <4>1, <4>2
      <4>3. CASE n \notin Nat
        <5>1. Len(plan[k]) = 0
          BY <3>1, <3>2, <4>3
        <5> QED
          BY <5>1
      <4> QED
        BY <4>2, <4>3
    <3> QED
      BY <3>3, <3>4
  <2>4. \A i \in ToSet(plan[k]) : f[i] # <<>> /\ ToSet(f[i]) \subseteq {i, Failure}
    BY <1>2, <2>3, ResultsOf
  <2> HIDE DEF f, place
  <2>5. /\ SharedInv'
        /\ \A i \in Cells : said'[i] = IF i \in ToSet(plan[k]) THEN <<f[i]>> ELSE said[i]
    BY <1>1, <2>2, <2>4, UnitSays
  <2>6. ASSUME NEW i \in Cells
        PROVE  said'[i] = said[i] \/ ToSet(said'[i][1]) \subseteq {i, Failure}
    <3>1. CASE i \in ToSet(plan[k])
      <4>1. said'[i] = <<f[i]>>
        BY <2>5, <3>1
      <4>2. said'[i][1] = f[i]
        BY <4>1
      <4> QED
        BY <2>4, <3>1, <4>2
    <3> QED
      BY <2>5, <3>1
  <2> QED
    BY <2>5, <2>6
<1>5. CASE HandBack(k)
  <2>1. unit' = [unit EXCEPT ![k] = "handed"] /\ said' = said
    BY <1>5 DEF HandBack
  <2>2. SharedTypes'
    BY <1>1, <2>1 DEF SharedTypes
  <2> QED
    BY <1>1, <2>1, <2>2, NothingSaid DEF SharedTypes
<1> QED
  BY <1>3, <1>4, <1>5 DEF UnitEnd

\* What is said of an expression is its own.
Own == \A i \in Cells : said[i] # <<>> => ToSet(said[i][1]) \subseteq {i, Failure}

LEMMA InitShared == Init => SharedInv /\ Own /\ Costing
<1> SUFFICES ASSUME Init PROVE SharedInv /\ Own /\ Costing
  OBVIOUS
<1>1. SharedTypes /\ \A i \in Cells : OneRun(i)
  BY DEF Init, SharedTypes, OneRun
<1>2. Costing
  <2>1. Costs \subseteq Nat
    BY SizesAssumption
  <2>2. cost \in [Cells -> Costs] \/ cost = [i \in Cells |-> 0]
    BY DEF Init
  <2>3. CASE cost \in [Cells -> Costs]
    BY <2>1, <2>3, Zenon DEF Costing
  <2>4. CASE cost = [i \in Cells |-> 0]
    BY <2>4 DEF Costing
  <2> QED
    BY <2>2, <2>3, <2>4
<1>3. PlanOK
  BY <1>2, PlanIsOK DEF Init
<1>4. Own
  BY DEF Init, Own
<1> QED
  BY <1>1, <1>2, <1>3, <1>4 DEF SharedInv

LEMMA NextShared ==
  ASSUME SharedInv, [Next]_vars
  PROVE  SharedInv' /\ (Own => Own')
<1>1. SharedTypes /\ PlanOK
  BY DEF SharedInv
<1>2. ASSUME NEW k \in Cells, UnitLane(k) \/ UnitStart(k)
      PROVE  SharedInv' /\ (Own => Own')
  <2>1. /\ UNCHANGED <<plan, cell, said>> /\ k \in 1 .. Len(plan)
        /\ \E u \in {"permit", "handed", "flying"} : unit' = [unit EXCEPT ![k] = u]
        /\ unit[k] \in {"held", "permit"}
    BY <1>1, <1>2 DEF UnitLane, UnitStart, choices, SharedTypes
  <2>2. SharedTypes'
    BY <1>1, <2>1 DEF SharedTypes
  <2> QED
    BY <1>1, <2>1, <2>2, NothingSaid DEF SharedTypes, Own
<1>3. ASSUME NEW i \in Cells, CellLane(i) \/ CellStart(i)
      PROVE  SharedInv' /\ (Own => Own')
  <2>1. /\ UNCHANGED <<plan, unit, said>> /\ cell[i] # "done"
        /\ cell[i] # "held" \/ Alone(i)
        /\ \E u \in {"permit", "flying"} : cell' = [cell EXCEPT ![i] = u]
    BY <1>3 DEF CellLane, CellStart, choices
  <2>2. SharedTypes'
    BY <1>1, <2>1 DEF SharedTypes
  <2> QED
    BY <1>1, <2>1, <2>2, NothingSaid DEF SharedTypes, Own
<1>4. ASSUME NEW k \in Cells, UnitEnd(k)
      PROVE  SharedInv' /\ (Own => Own')
  BY <1>4, UnitEndShared DEF Own
<1>5. ASSUME NEW i \in Cells, CellEnd(i)
      PROVE  SharedInv' /\ (Own => Own')
  BY <1>5, CellEndShared DEF Own
<1>6. CASE UNCHANGED vars
  <2>1. UNCHANGED <<plan, cell, unit, said>>
    BY <1>6 DEF vars, choices
  <2> QED
    <3>1. PlanOK' /\ SharedTypes' /\ (Own => Own')
      <4>1. PlanOK'
        BY <1>1, <2>1, PlanStays
      <4>2. SharedTypes'
        BY <1>1, <2>1 DEF SharedTypes
      <4>3. Own => Own'
        BY <2>1 DEF Own
      <4> QED
        BY <4>1, <4>2, <4>3
    <3>2. \A i \in Cells : OneRun(i) => OneRun(i)'
      BY <2>1 DEF OneRun, Alone
    <3> QED
      BY <3>1, <3>2 DEF SharedInv
<1> QED
  BY <1>2, <1>3, <1>4, <1>5, <1>6 DEF Next

\* Nothing of how the group is cut up changes while it is evaluated.
LEMMA SamePlan ==
  ASSUME [Next]_vars
  PROVE  /\ kind' = kind /\ plan' = plan /\ cost' = cost
         /\ Costing => Costing'
<1>1. UNCHANGED <<kind, plan, cost>>
  BY DEF Next, UnitLane, UnitStart, UnitEnd, CellLane, CellStart, CellEnd, vars, choices
<1> QED
  BY <1>1 DEF Costing

LEMMA SharedInvariance == MCSpec => [](SharedInv /\ Costing)
<1>1. MCInit => SharedInv /\ Costing
  BY InitShared DEF MCInit
<1>2. SharedInv /\ Costing /\ [MCNext]_allVars => SharedInv' /\ Costing'
  BY SharedSteps, NextShared, SamePlan
<1> QED
  BY <1>1, <1>2, PTL DEF MCSpec, allVars

\* The types of all three: no expression is shared twice, what was said of one is a
\* sequence of bursts, none of them empty.
THEOREM TypesAreKept == MCSpec => []AllTypesOK
<1>1. SharedInv /\ QueryIInv /\ SshInv => AllTypesOK
  <2> SUFFICES ASSUME SharedInv, QueryIInv, SshInv PROVE AllTypesOK
    OBVIOUS
  <2>1. \A i \in Cells : said[i] # <<>> => said[i] = <<said[i][1]>> /\ said[i][1] # <<>>
    BY DEF SharedInv, OneRun
  <2>2. \A i \in Cells : \A n \in DOMAIN said[i] : said[i][n] # <<>>
    BY <2>1
  <2>3. TypeOK
    BY <2>2 DEF TypeOK, SharedInv, SharedTypes, OneRun
  <2> QED
    BY <2>3 DEF AllTypesOK, QueryIInv, QueryTypes, SshInv
<1> QED
  BY <1>1, SharedInvariance, QueryInvariance, SshInvariance, PTL

\* No expression is given another's answer or two of its own, however runs in
\* several lanes end, what a qna process prints is cut short or doubled, tuples are
\* handed back and permits are waited for.
THEOREM AnswersAreTheirOwn == MCSpec => []OwnAnswers
<1>1. MCInit => Own
  BY InitShared DEF MCInit
<1>2. SharedInv /\ Own /\ [MCNext]_allVars => Own'
  BY SharedSteps, NextShared
<1>3. SharedInv /\ Own => OwnAnswers
  <2> SUFFICES ASSUME SharedInv, Own PROVE OwnAnswers
    OBVIOUS
  <2>1. ASSUME NEW i \in Cells
        PROVE  /\ Len(said[i]) <= 1
               /\ \A n \in DOMAIN said[i] : ToSet(said[i][n]) \subseteq {i, Failure}
    <3>1. said[i] # <<>> =>
            said[i] = <<said[i][1]>> /\ ToSet(said[i][1]) \subseteq {i, Failure}
      BY DEF SharedInv, OneRun, Own
    <3>2. CASE said[i] = <<>>
      BY <3>2
    <3>3. CASE said[i] # <<>>
      <4>1. Len(said[i]) = 1 /\ DOMAIN said[i] = {1}
        BY <3>1, <3>3, LenOne
      <4> QED
        BY <3>1, <3>3, <4>1
    <3> QED
      BY <3>2, <3>3
  <2>2. SplitsRightly
    BY SplitsAlways DEF SharedInv
  <2> QED
    BY <2>1, <2>2 DEF OwnAnswers
<1> QED
  BY <1>1, <1>2, <1>3, SharedInvariance, PTL DEF MCSpec, allVars

\* Before a shared run has come back none is wasted; after that those in a lane
\* are the last that can be.
Few == /\ wasted \in Nat /\ sharing \in BOOLEAN
       /\ sharing => wasted = 0
       /\ wasted + Cardinality(LanesOfUnits) <= Lanes

LEMMA LanesFacts ==
  ASSUME SharedInv
  PROVE  /\ IsFiniteSet(LanesOfUnits) /\ Cardinality(LanesOfUnits) \in Nat
         /\ \A k : Cardinality(LanesOfUnits \cup {k}) <= Cardinality(LanesOfUnits) + 1
         /\ \A k \in LanesOfUnits :
              Cardinality(LanesOfUnits \ {k}) = Cardinality(LanesOfUnits) - 1
         /\ Lanes \in Nat
<1>1. Len(plan) \in Nat
  BY PlanFacts DEF SharedInv
<1>2. IsFiniteSet(1 .. Len(plan)) /\ LanesOfUnits \subseteq 1 .. Len(plan)
  BY <1>1, FS_Interval DEF LanesOfUnits
<1>3. IsFiniteSet(LanesOfUnits)
  BY <1>2, FS_Subset
<1>4. Lanes \in Nat
  BY SizesAssumption DEF Lanes
<1> HIDE DEF LanesOfUnits
<1>5. Cardinality(LanesOfUnits) \in Nat
  BY <1>3, FS_CardinalityType
<1>6. ASSUME NEW k
      PROVE  Cardinality(LanesOfUnits \cup {k}) <= Cardinality(LanesOfUnits) + 1
  BY <1>3, <1>5, FS_AddElement
<1>7. ASSUME NEW k \in LanesOfUnits
      PROVE  Cardinality(LanesOfUnits \ {k}) = Cardinality(LanesOfUnits) - 1
  BY <1>3, <1>5, FS_RemoveElement
<1> QED
  BY <1>3, <1>4, <1>5, <1>6, <1>7

LEMMA CellsInLane ==
  LET S == {i \in Cells : cell[i] \in InLane} IN IsFiniteSet(S) /\ Cardinality(S) \in Nat
<1> DEFINE S == {i \in Cells : cell[i] \in InLane}
<1>1. IsFiniteSet(Cells) /\ S \subseteq Cells
  BY SizesAssumption, FS_Interval DEF Cells
<1>2. IsFiniteSet(S)
  BY <1>1, FS_Subset
<1> QED
  BY <1>2, FS_CardinalityType

LEMMA NextFew == ASSUME SharedInv, Few, [Next]_vars PROVE Few'
<1>1. SharedTypes /\ Lanes' = Lanes /\ plan' = plan /\ 1 .. Len(plan) \subseteq Cells
  BY SamePlan, PlanFacts DEF SharedInv, Lanes
<1>2. ASSUME UNCHANGED <<wasted, sharing>>, LanesOfUnits' = LanesOfUnits
      PROVE  Few'
  BY <1>1, <1>2 DEF Few
<1>3. ASSUME NEW k \in Cells, UnitLane(k)
      PROVE  Few'
  <2>1. /\ k \in 1 .. Len(plan) /\ unit[k] = "held" /\ LaneFree
        /\ UNCHANGED <<wasted, sharing>>
        /\ unit' = [unit EXCEPT ![k] = IF sharing THEN "permit" ELSE "handed"]
    BY <1>3 DEF UnitLane
  <2>2. CASE sharing
    <3>1. LanesOfUnits' = LanesOfUnits \cup {k}
      BY <1>1, <2>1, <2>2 DEF LanesOfUnits, InLane, SharedTypes
    <3>2. Cardinality(LanesOfUnits) + 1 <= Lanes
      BY <2>1, LanesFacts, CellsInLane DEF LaneFree
    <3>3. Cardinality(LanesOfUnits)' <= Lanes /\ Cardinality(LanesOfUnits)' \in Nat
      <4>1. Cardinality(LanesOfUnits)' = Cardinality(LanesOfUnits \cup {k})
        BY <3>1
      <4>2. /\ Cardinality(LanesOfUnits \cup {k}) \in Nat
            /\ Cardinality(LanesOfUnits) \in Nat /\ Lanes \in Nat
            /\ Cardinality(LanesOfUnits \cup {k}) <= Cardinality(LanesOfUnits) + 1
        BY LanesFacts, FS_AddElement, FS_CardinalityType
      <4> QED
        BY <3>2, <4>1, <4>2
    <3> QED
      BY <1>1, <2>1, <2>2, <3>3 DEF Few
  <2>3. CASE ~ sharing
    <3>1. LanesOfUnits' = LanesOfUnits
      BY <1>1, <2>1, <2>3 DEF LanesOfUnits, InLane, SharedTypes
    <3> QED
      BY <1>2, <2>1, <3>1
  <2> QED
    BY <2>2, <2>3
<1>4. ASSUME NEW k \in Cells, UnitStart(k)
      PROVE  Few'
  <2>1. LanesOfUnits' = LanesOfUnits /\ UNCHANGED <<wasted, sharing>>
    BY <1>1, <1>4 DEF UnitStart, LanesOfUnits, InLane, SharedTypes
  <2> QED
    BY <1>2, <2>1
<1>5. ASSUME NEW k \in Cells, UnitEnd(k)
      PROVE  Few'
  <2>1. /\ k \in LanesOfUnits
        /\ \E u \in {"handed", "done"} : unit' = [unit EXCEPT ![k] = u]
        /\ \/ UNCHANGED <<wasted, sharing>>
           \/ wasted' = wasted + 1 /\ sharing' = FALSE
    BY <1>1, <1>5 DEF UnitEnd, Tell, HandBack, HandedBack, LanesOfUnits, InLane, SharedTypes
  <2>2. LanesOfUnits' = LanesOfUnits \ {k}
    BY <1>1, <2>1 DEF LanesOfUnits, InLane, SharedTypes
  <2>3. Cardinality(LanesOfUnits)' = Cardinality(LanesOfUnits) - 1
    BY <2>1, <2>2, LanesFacts
  <2>4. Cardinality(LanesOfUnits) \in Nat /\ Lanes \in Nat
    BY LanesFacts
  <2>5. CASE UNCHANGED <<wasted, sharing>>
    BY <1>1, <2>3, <2>4, <2>5 DEF Few
  <2>6. CASE wasted' = wasted + 1 /\ sharing' = FALSE
    <3>1. /\ wasted' \in Nat
          /\ wasted' + Cardinality(LanesOfUnits)' <= Lanes'
      BY <1>1, <2>3, <2>4, <2>6 DEF Few
    <3> QED
      BY <2>6, <3>1 DEF Few
  <2> QED
    BY <2>1, <2>5, <2>6
<1>6. ASSUME NEW i \in Cells, CellLane(i) \/ CellStart(i) \/ CellEnd(i)
      PROVE  Few'
  <2>1. UNCHANGED <<unit, wasted, sharing>>
    BY <1>6 DEF CellLane, CellStart, CellEnd
  <2> QED
    BY <1>1, <1>2, <2>1 DEF LanesOfUnits
<1>7. CASE UNCHANGED vars
  BY <1>1, <1>2, <1>7 DEF vars, LanesOfUnits
<1> QED
  BY <1>3, <1>4, <1>5, <1>6, <1>7 DEF Next

\* What sharing may cost is one run for each lane, the ones under way when the
\* first came back; and the chunks are as full as they may be and no fuller.
THEOREM SharingAlwaysPays == MCSpec => []SharingPays
<1>1. MCInit => Few
  <2> SUFFICES ASSUME MCInit PROVE Few
    OBVIOUS
  <2>1. SharedInv /\ LanesOfUnits = {} /\ sharing = TRUE /\ wasted = 0
    <3>1. SharedInv
      BY InitShared DEF MCInit
    <3>2. 1 .. Len(plan) \subseteq Cells
      BY <3>1, PlanFacts DEF SharedInv
    <3>3. (\A k \in Cells : unit[k] = "held") /\ sharing = TRUE /\ wasted = 0
      BY DEF MCInit, Init
    <3> QED
      BY <3>1, <3>2, <3>3 DEF LanesOfUnits, InLane
  <2> QED
    BY <2>1, LanesFacts, FS_EmptySet DEF Few
<1>2. SharedInv /\ Few /\ [MCNext]_allVars => Few'
  BY SharedSteps, NextFew
<1>3. SharedInv /\ Few => WastesFew
  BY LanesFacts DEF Few, WastesFew
<1>4. WastesFew /\ Costing => SharingPays
  BY ChunksFitAlways DEF SharingPays
<1> QED
  BY <1>1, <1>2, <1>3, <1>4, SharedInvariance, PTL DEF MCSpec, allVars
=============================================================================
