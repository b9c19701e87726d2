----------------------------- MODULE Provision -----------------------------
(***************************************************************************)
(* bootstrap/provision.py on one target: provision_qna, called before each *)
(* evaluation, puts the pinned version into its directory by running       *)
(* commands there one after another.                                       *)
(*                                                                         *)
(* A call that gives up on a command -- its timeout, its connection -- does*)
(* not stop it: the command goes on, or has yet to begin, on the target.   *)
(* A client is one user of the target; its calls come one after another.   *)
(***************************************************************************)
EXTENDS Naturals, FiniteSets

CONSTANTS Clients,   \* the users of the target directory
          MaxLate,   \* commands each client may leave behind
          LateBreaks,  \* whether an unpacking left behind may break off
          MaxFaults  \* failures the environment may cause, all told

VARIABLES
  partial,  \* the directory version_dir + ".partial"
  target,   \* version_dir
  known,    \* the controller remembers that the extraction tools are there
  client,       \* what each client is doing
  slot,     \* the command it waits for: the late ones are before it
  job,      \* commands on the target, by client and slot
  left      \* failures still to come

vars == <<partial, target, known, client, slot, job, left>>
dirs == <<partial, target>>

Jobs == Clients \X (0 .. MaxLate)

\* A directory: its archive, whether an extraction into it has completed, its
\* marker, and the commands that have had a hand in it.
Dirs == [there : BOOLEAN, archive : BOOLEAN, complete : BOOLEAN, marked : BOOLEAN,
         hands : SUBSET Jobs]
NoDir == [there |-> FALSE, archive |-> FALSE, complete |-> FALSE, marked |-> FALSE,
          hands |-> {}]

Commands == {"test", "probe", "mkdir", "put", "ready", "extract", "rename", "mark"}
PCs == Commands \cup {"idle", "using"}

\* "sent" to the target, under way ("half", working in the directory at), and
\* its exit status.
States == {"none", "sent", "half", "zero", "nonzero"}
Job(command, state, at) == [command |-> command, state |-> state, at |-> at]
NoJob == Job("test", "none", "gone")

Init ==
  /\ partial = NoDir /\ target = NoDir
  /\ known \in BOOLEAN
  /\ client = [c \in Clients |-> "idle"]
  /\ slot = [c \in Clients |-> 0]
  /\ job = [j \in Jobs |-> NoJob]
  /\ left = MaxFaults

-----------------------------------------------------------------------------
(* The client: one command at a time. *)

Goto(c, p) == client' = [client EXCEPT ![c] = p]
Issue(c, p) == /\ Goto(c, p)
               /\ job' = [job EXCEPT ![<<c, slot[c]>>] = Job(p, "sent", "gone")]

Answered(c, p, state) == client[c] = p /\ job[<<c, slot[c]>>].state = state

\* An evaluation starts by looking for the marker.
Begin(c) ==
  /\ client[c] = "idle"
  /\ Issue(c, "test")
  /\ UNCHANGED <<dirs, known, slot, left>>

\* The version is there already.
Hit(c) ==
  /\ Answered(c, "test", "zero")
  /\ Goto(c, "using")
  /\ job' = [job EXCEPT ![<<c, slot[c]>>] = NoJob]
  /\ UNCHANGED <<dirs, known, slot, left>>

\* Mutant: the marker is not taken for the last command.
GoesOn(p) ==
  CASE p = "probe" -> "mkdir" [] p = "mkdir" -> "put" [] p = "put" -> "ready"
    [] p = "ready" -> "extract" [] p = "extract" -> "rename" [] p = "rename" -> "mark"
    [] OTHER -> "mark again"

\* marker check -> prereq check -> push -> extract -> rename -> marker write
After(p) ==
  CASE p = "probe" -> "mkdir" [] p = "mkdir" -> "put" [] p = "put" -> "ready"
    [] p = "ready" -> "extract" [] p = "extract" -> "rename" [] p = "rename" -> "mark"
    [] OTHER -> "using"

\* It is not there.  The tools are probed for once per target.
Miss(c) ==
  /\ Answered(c, "test", "nonzero")
  /\ Issue(c, IF known THEN After("probe") ELSE "probe")
  /\ UNCHANGED <<dirs, known, slot, left>>

\* A command has succeeded; the marker's was the last.
Proceed(c) ==
  /\ \E p \in Commands \ {"test"} :
       /\ Answered(c, p, "zero")
       /\ known' = (known \/ p = "probe")
       /\ IF After(p) = "using"
          THEN /\ Goto(c, "using")
               /\ job' = [job EXCEPT ![<<c, slot[c]>>] = NoJob]
          ELSE Issue(c, After(p))
  /\ UNCHANGED <<dirs, slot, left>>

\* A command has failed, and the evaluation with it.  Nothing is cleaned up.
Fail(c) ==
  /\ \E p \in Commands \ {"test"} : Answered(c, p, "nonzero")
  /\ Goto(c, "idle")
  /\ job' = [job EXCEPT ![<<c, slot[c]>>] = NoJob]
  /\ UNCHANGED <<dirs, known, slot, left>>

\* The client stops waiting: a timeout, a cancellation, a lost connection, a
\* crash.  A transfer ends with it, other commands do not.
Abandon(c) ==
  /\ client[c] \in Commands /\ left > 0
  /\ left' = left - 1
  /\ Goto(c, "idle")
  /\ \/ /\ client[c] \in {"mkdir", "ready", "extract", "rename", "mark"}
        /\ slot[c] < MaxLate
        /\ slot' = [slot EXCEPT ![c] = @ + 1]
        /\ UNCHANGED job
     \/ /\ client[c] \in {"test", "probe", "put"} \/ job[<<c, slot[c]>>].state = "sent"
        /\ job' = [job EXCEPT ![<<c, slot[c]>>] = NoJob]
        /\ UNCHANGED slot
  /\ UNCHANGED <<dirs, known>>

\* The evaluation is over; the tree stays.
Done(c) ==
  /\ client[c] = "using"
  /\ Goto(c, "idle")
  /\ UNCHANGED <<dirs, known, slot, job, left>>

-----------------------------------------------------------------------------
(* The target. *)

Exit(j, state) == job' = [job EXCEPT ![j].state = state, ![j].at = "gone"]

\* A command that does nothing, or cannot do what it should.
Stumble(j) ==
  /\ job[j].state = "sent" /\ left > 0
  /\ left' = left - 1
  /\ Exit(j, "nonzero")
  /\ UNCHANGED <<dirs, known, client, slot>>

\* test -f marker
Test(j) ==
  /\ job[j].state = "sent" /\ job[j].command = "test"
  /\ Exit(j, IF target.marked THEN "zero" ELSE "nonzero")
  /\ UNCHANGED <<dirs, known, client, slot, left>>

\* command -v ..., for each tool
Probe(j) ==
  /\ job[j].state = "sent" /\ job[j].command = "probe"
  /\ Exit(j, "zero")
  /\ UNCHANGED <<dirs, known, client, slot, left>>

\* mkdir -p, before the push and as the first of extract_commands: what an earlier
\* attempt left is built upon.
Make(dir) == [dir EXCEPT !.there = TRUE]

Mkdir(j) ==
  /\ job[j].state = "sent" /\ job[j].command \in {"mkdir", "ready"}
  /\ partial' = [Make(partial) EXCEPT !.hands = @ \cup {j}]
  /\ Exit(j, "zero")
  /\ UNCHANGED <<target, known, client, slot, left>>

\* put_file: the archive is rewritten in place.
Put(j) ==
  /\ job[j].command = "put"
  /\ \/ /\ job[j].state = "sent" /\ partial.there
        /\ partial' = [partial EXCEPT !.archive = FALSE, !.hands = @ \cup {j}]
        /\ job' = [job EXCEPT ![j] = Job("put", "half", "staging")]
     \/ /\ job[j].state = "sent" /\ ~ partial.there
        /\ Exit(j, "nonzero")
        /\ UNCHANGED partial
     \/ /\ job[j].state = "half"
        /\ partial' = IF job[j].at = "staging" THEN [partial EXCEPT !.archive = TRUE]
                      ELSE partial
        /\ Exit(j, "zero")
  /\ UNCHANGED <<target, known, client, slot, left>>

\* Commands at work in directory p go with it when it is renamed to q.
Moved(p, q) == [j \in Jobs |-> IF job[j].at = p THEN [job[j] EXCEPT !.at = q] ELSE job[j]]

\* The rest of extract_commands: the unpacking, in the staging directory.
Extract(j) ==
  /\ job[j].state = "sent" /\ job[j].command = "extract"
  /\ IF partial.there /\ partial.archive
     THEN /\ partial' = [partial EXCEPT !.hands = @ \cup {j}]
          /\ job' = [job EXCEPT ![j] = Job("extract", "half", "staging")]
     ELSE /\ Exit(j, "nonzero")
          /\ UNCHANGED partial
  /\ UNCHANGED <<target, known, client, slot, left>>

Extracted(dir) == [dir EXCEPT !.complete = TRUE]
Spoiled(dir)   == [dir EXCEPT !.complete = FALSE]

Late(j) == slot[j[1]] # j[2]

\* It completes, or breaks off; it breaks off if its directory is gone.
EndExtract(j) ==
  /\ job[j].state = "half" /\ job[j].command = "extract"
  /\ \/ /\ job[j].at # "gone"
        /\ partial' = IF job[j].at = "staging" THEN Extracted(partial) ELSE partial
        /\ target' = IF job[j].at = "target" THEN Extracted(target) ELSE target
        /\ Exit(j, "zero")
        /\ UNCHANGED left
     \/ /\ job[j].at = "gone" \/ (left > 0 /\ (Late(j) => LateBreaks))
        /\ left' = IF job[j].at = "gone" THEN left ELSE left - 1
        /\ partial' = IF job[j].at = "staging" THEN Spoiled(partial) ELSE partial
        /\ target' = IF job[j].at = "target" THEN Spoiled(target) ELSE target
        /\ Exit(j, "nonzero")
  /\ UNCHANGED <<known, client, slot>>

\* rm -rf target && mv partial target
Remove(j) ==
  /\ job[j].state = "sent" /\ job[j].command = "rename"
  /\ target' = NoDir
  /\ job' = [Moved("target", "gone") EXCEPT ![j] = Job("rename", "half", "gone")]
  /\ UNCHANGED <<partial, known, client, slot, left>>

\* A target directory that has come to exist in between gets the partial
\* directory moved into it, which changes nothing in it that counts.
Rename(j) ==
  /\ job[j].state = "half" /\ job[j].command = "rename"
  /\ partial' = NoDir
  /\ target' = IF partial.there
               THEN [(IF target.there THEN target ELSE partial) EXCEPT !.hands = @ \cup {j}]
               ELSE target
  /\ job' = [Moved("staging", IF target.there THEN "gone" ELSE "target")
               EXCEPT ![j] = Job("rename", IF partial.there THEN "zero" ELSE "nonzero", "gone")]
  /\ UNCHANGED <<known, client, slot, left>>

\* printf version > target/marker
Mark(j) ==
  /\ job[j].state = "sent" /\ job[j].command = "mark"
  /\ target' = IF target.there
               THEN [target EXCEPT !.marked = TRUE, !.hands = @ \cup {j}] ELSE target
  /\ Exit(j, IF target.there THEN "zero" ELSE "nonzero")
  /\ UNCHANGED <<partial, known, client, slot, left>>

\* "An OS temp cleanup may remove it."
Cleanup ==
  /\ left > 0 /\ target.there
  /\ left' = left - 1
  /\ target' = NoDir
  /\ job' = Moved("target", "gone")
  /\ UNCHANGED <<partial, known, client, slot>>

Run(j) == \/ Test(j) \/ Probe(j) \/ Mkdir(j) \/ Put(j) \/ Extract(j)
          \/ EndExtract(j) \/ Remove(j) \/ Rename(j) \/ Mark(j)

Step(c) == Begin(c) \/ Hit(c) \/ Miss(c) \/ Proceed(c) \/ Fail(c) \/ Done(c)

Next ==
  \/ \E c \in Clients : Step(c) \/ Abandon(c)
  \/ \E j \in Jobs : Run(j) \/ Stumble(j)
  \/ Cleanup

\* Clients go on; the command a client waits for is executed in the end.
Fairness == /\ \A c \in Clients : WF_vars(Step(c))
            /\ \A j \in Jobs : WF_vars(Run(j))

Spec == Init /\ [][Next]_vars /\ Fairness

-----------------------------------------------------------------------------
(* Properties. *)

TypeOK ==
  /\ partial \in Dirs /\ target \in Dirs
  /\ known \in BOOLEAN
  /\ client \in [Clients -> PCs]
  /\ slot \in [Clients -> 0 .. MaxLate]
  /\ job \in [Jobs -> [command : Commands, state : States,
                       at : {"staging", "target", "gone"}]]
  /\ left \in 0 .. MaxFaults

\* One user of the target, who leaves at most one command behind; an unpacking left
\* behind does not break off.
OneUser == (\A c, d \in Clients : c = d) /\ MaxLate <= 1 /\ ~ LateBreaks

\* "An interrupted run never leaves a partial tree that the marker check would
\* accept": what is marked has been extracted to the end.  With several users, or
\* several commands left behind, that is so unless commands of two attempts have
\* had a hand in the directory.
AcceptedIsWhole ==
  target.marked => \/ target.complete
                   \/ ~ OneUser /\ \E i, j \in target.hands : i # j

\* Whatever failures, abandoned commands and leftovers came before, the client
\* comes to use the version again: nothing an attempt leaves blocks the next.
ComesToUse == \A c \in Clients : []<>(client[c] = "using")
=============================================================================
