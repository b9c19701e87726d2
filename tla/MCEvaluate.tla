---------------------------- MODULE MCEvaluate -----------------------------
(* What evaluates a group's expressions, for TLC.  A behaviour is of a     *)
(* group and the runs its expressions share, of one evaluation on many     *)
(* computers by a FastQuery transport, or of a group's over SSH.           *)
EXTENDS SharedRuns
CONSTANTS Computers, Deadline, Floor, PollFirst, PollMax, MaxCalls, c1, c2,
          Expressions, Slow, Conns, NoConn, Windows, e1, e2, e3, e4, k1, k2

\* A timeout is not negative; the floor, the pauses and the cap are positive.
ASSUME TimesAssumption == /\ Deadline \in Nat
                          /\ {Floor, PollFirst, PollMax, MaxCalls} \subseteq Nat \ {0}

\* A connection can be had, and the commands of a group are told apart.
ASSUME SessionAssumption == /\ Conns # {} /\ NoConn \notin Conns
                            /\ Expressions \cap {"probing", "locating"} = {}
                            /\ Slow \subseteq Expressions

VARIABLES now, split, tuple, clean, quick, state, until, delay, rows, checked, error,
          base, server, inTime, outcome

queryVars == <<now, split, tuple, clean, quick, state, until, delay, rows, checked, error,
               base, server, inTime, outcome>>

VARIABLES runner, conn, spec, showtypes, last, unresponsive, step, call, hang, batching,
          result, mood, alive, excused, unheard, hung

sshVars == <<runner, conn, spec, showtypes, last, unresponsive, step, call, hang, batching,
             result, mood, alive, excused, unheard, hung>>

Query == INSTANCE FastQuery
Ssh   == INSTANCE SshSession

-----------------------------------------------------------------------------
VARIABLE of   \* which of the three this behaviour is of

MCInit == /\ of \in {"group", "FastQuery", "ssh"}
          /\ Init /\ (of # "group" => kind = "fan-out" /\ hints = {})
          /\ Query!Init /\ (of # "FastQuery" => ~ split /\ ~ tuple /\ ~ quick)
          /\ Ssh!Init /\ (of # "ssh" => spec /\ mood = "slow")

MCNext == /\ UNCHANGED of
          /\ \/ of = "group" /\ Next /\ UNCHANGED <<queryVars, sshVars>>
             \/ of = "FastQuery" /\ Query!Next /\ UNCHANGED <<vars, sshVars>>
             \/ of = "ssh" /\ Ssh!Next /\ UNCHANGED <<vars, queryVars>>

\* Of each part the fairness is that of its next-state relation.
MCSpec == /\ MCInit /\ [][MCNext]_<<of, vars, queryVars, sshVars>>
          /\ WF_<<of, vars, queryVars, sshVars>>(MCNext)

\* The types of the three.
AllTypesOK == TypeOK /\ Query!TypeOK /\ Ssh!TypeOK

\* A FastQuery transport says of a computer what is true of it, and in time.
ResultsAreTrue == Query!ResultsAreTrue
HardStop == Query!HardStop

\* An SSH transport leaves nothing behind, and gives up a dead target only.
LeavesNothing == Ssh!LeavesNothing
GivesUpRightly == Ssh!GivesUpRightly

\* Each of them ends, with everything answered.
AllEnd == <>(/\ of = "group" => AllAnswered
             /\ of = "FastQuery" => Query!Reported
             /\ of = "ssh" => Ssh!Released)
=============================================================================
