-------------------------- MODULE LocalExtraction --------------------------
(***************************************************************************)
(* bootstrap/extract_local.py: one extracted tree of one artifact, and the *)
(* calls of ensure_extracted that want it, in one process or in several.   *)
(*                                                                         *)
(* The unpacking runs in a thread that goes on when the call awaiting it   *)
(* is cancelled, and writes by path: what it writes lands in whatever tree *)
(* is at the staging path by then.  A file is open from its truncation to  *)
(* its last byte; the handle follows its tree through a rename and outlives*)
(* its removal.  Where two threads have one file open, it is whole when the*)
(* one that truncated it last has closed it.                               *)
(***************************************************************************)
EXTENDS FiniteSets

CONSTANTS Calls,      \* the calls of ensure_extracted
          ProcessOf,  \* the process each is made in
          Members,    \* the files of the archive
          Faults,     \* sets of "crash", "cancel", "error": what may befall a behaviour
          NoFile      \* no file: the thread has none open

VARIABLES
  staging,      \* the tree at destination.with_name(name + ".partial")
  destination,  \* the tree at extraction_destination
  pc,           \* where each call is
  thread,       \* the thread each call has unpacking for it
  faults        \* what may go wrong

vars == <<staging, destination, pc, thread, faults>>

\* A tree: its files, and whose thread truncated each last; the call that made it;
\* and those that wrote the marker.
NoTree == [files |-> [m \in Members |-> "absent"], last |-> [m \in Members |-> {}],
           by |-> {}, markers |-> {}, there |-> FALSE]
EmptyTree(c) == [NoTree EXCEPT !.there = TRUE, !.by = {c}]
Marked(tree) == tree.markers # {}

Threads == [state : {"none", "running", "done", "failed"}, written : SUBSET Members,
            open : Members \cup {NoFile}, at : {"staging", "destination", "unlinked"}]
NoThread == [state |-> "none", written |-> {}, open |-> NoFile, at |-> "unlinked"]

PCs == {"idle", "waiting", "clearing", "extracting", "installing", "returned", "failed"}
Locked == {"clearing", "extracting", "installing"}

Init ==
  /\ staging = NoTree
  /\ destination = NoTree
  /\ pc = [c \in Calls |-> "idle"]
  /\ thread = [c \in Calls |-> NoThread]
  /\ faults \in Faults

-----------------------------------------------------------------------------
(* The calls. *)

\* Mutant: no lock.
NoLock(c) == TRUE

\* The lock of _locks is its process's own.
Free(c) == \A d \in Calls : ProcessOf[d] = ProcessOf[c] => pc[d] \notin Locked

Goto(c, p) == pc' = [pc EXCEPT ![c] = p]

Call(c) ==
  /\ pc[c] = "idle"
  /\ Goto(c, "waiting")
  /\ UNCHANGED <<staging, destination, thread, faults>>

\* The lock is had and the marker looked for.
Look(c) ==
  /\ pc[c] = "waiting" /\ Free(c)
  /\ Goto(c, IF Marked(destination) THEN "returned" ELSE "clearing")
  /\ UNCHANGED <<staging, destination, thread, faults>>

\* Handles into a tree at path p that is removed, or renamed into path q.
Moved(p, q) ==
  [c \in Calls |-> IF thread[c].at = p THEN [thread[c] EXCEPT !.at = q] ELSE thread[c]]

\* What is left of earlier attempts is removed and the thread started.
Clear(c) ==
  /\ pc[c] = "clearing"
  /\ staging' = EmptyTree(c)
  /\ destination' = NoTree
  /\ thread' = [d \in Calls |-> IF d = c THEN [NoThread EXCEPT !.state = "running"]
                                ELSE [thread[d] EXCEPT !.at = "unlinked"]]
  /\ Goto(c, "extracting")
  /\ UNCHANGED faults

\* The staging tree of a failed unpacking is removed, also where it is the marker
\* that cannot be written.
Fail(c) ==
  /\ pc[c] = "extracting"
  /\ thread[c].state = "failed" \/ (thread[c].state = "done" /\ "error" \in faults)
  /\ staging' = NoTree
  /\ thread' = [Moved("staging", "unlinked") EXCEPT ![c] = NoThread]
  /\ Goto(c, "failed")
  /\ UNCHANGED <<destination, faults>>

\* Mutant: the marker is not the last thing to appear in the tree.
MarksBefore(c) == thread[c].state = "running"

\* Whether the marker may be written: _extract has returned.
MarksAfter(c) == thread[c].state = "done"

\* The marker is written into the staging tree, if that is still there.
Mark(c) ==
  /\ pc[c] = "extracting" /\ MarksAfter(c)
  /\ IF staging.there
     THEN /\ staging' = [staging EXCEPT !.markers = @ \cup {c}]
          /\ Goto(c, "installing")
     ELSE /\ Goto(c, "failed")
          /\ UNCHANGED staging
  /\ UNCHANGED <<destination, thread, faults>>

\* staging.replace(destination): refused if a tree is there by now, or if
\* another process has removed or renamed the staging tree.
Install(c) ==
  /\ pc[c] = "installing"
  /\ IF staging.there /\ ~ destination.there
     THEN /\ destination' = staging
          /\ staging' = NoTree
          /\ thread' = Moved("staging", "destination")
          /\ Goto(c, "returned")
     ELSE /\ Goto(c, "failed")
          /\ UNCHANGED <<staging, destination, thread>>
  /\ UNCHANGED faults

\* A cancelled call leaves its thread at work, unless that had not begun.
Cancel(c) ==
  /\ "cancel" \in faults
  /\ pc[c] \in {"waiting", "extracting"}
  /\ Goto(c, "failed")
  /\ \/ UNCHANGED thread
     \/ /\ thread[c].written = {} /\ thread[c].open = NoFile
        /\ thread' = [thread EXCEPT ![c] = NoThread]
  /\ UNCHANGED <<staging, destination, faults>>

-----------------------------------------------------------------------------
(* The threads. *)

\* target.open("wb"): the parents are made again if they are gone.
Open(c, m) ==
  /\ thread[c].state = "running" /\ thread[c].open = NoFile
  /\ m \notin thread[c].written
  /\ staging' = [staging EXCEPT !.files[m] = "cut", !.last[m] = {c}, !.there = TRUE]
  /\ thread' = [thread EXCEPT ![c].open = m, ![c].at = "staging"]
  /\ UNCHANGED <<destination, pc, faults>>

Written(tree, c, m) ==
  IF tree.last[m] = {c} THEN [tree EXCEPT !.files[m] = "whole"] ELSE tree

Close(c) ==
  /\ thread[c].open # NoFile
  /\ LET m == thread[c].open
     IN  /\ staging' = IF thread[c].at = "staging" THEN Written(staging, c, m) ELSE staging
         /\ destination' = IF thread[c].at = "destination"
                           THEN Written(destination, c, m) ELSE destination
         /\ thread' = [thread EXCEPT ![c].open = NoFile, ![c].at = "unlinked",
                                     ![c].written = @ \cup {m}]
  /\ UNCHANGED <<pc, faults>>

\* _extract returns, or raises: a malformed archive, a member outside the
\* destination, an unknown suffix, a full disk.
Unpacked(c) ==
  /\ thread[c].state = "running"
  /\ \/ /\ thread[c].written = Members
        /\ thread' = [thread EXCEPT ![c].state = "done"]
     \/ /\ "error" \in faults
        /\ thread' = [thread EXCEPT ![c].state = "failed", ![c].open = NoFile,
                                    ![c].at = "unlinked"]
  /\ UNCHANGED <<staging, destination, pc, faults>>

-----------------------------------------------------------------------------

\* A process dies; its files stay as they are, its locks are gone.
Crash(p) ==
  /\ "crash" \in faults
  /\ \E c \in Calls : ProcessOf[c] = p /\ pc[c] \in Locked
  /\ pc' = [c \in Calls |->
              IF ProcessOf[c] = p /\ pc[c] # "idle" THEN "failed" ELSE pc[c]]
  /\ thread' = [c \in Calls |-> IF ProcessOf[c] = p THEN NoThread ELSE thread[c]]
  /\ UNCHANGED <<staging, destination, faults>>

Next ==
  \/ \E c \in Calls :
       \/ Call(c) \/ Look(c) \/ Clear(c) \/ Fail(c) \/ Mark(c) \/ Install(c)
       \/ Cancel(c) \/ Close(c) \/ Unpacked(c)
       \/ \E m \in Members : Open(c, m)
  \/ \E c \in Calls : Crash(ProcessOf[c])

Spec == Init /\ [][Next]_vars

-----------------------------------------------------------------------------
(* Properties. *)

TypeOK ==
  /\ \A t \in {staging, destination} :
       t \in [files : [Members -> {"absent", "cut", "whole"}], last : [Members -> SUBSET Calls],
              by : SUBSET Calls, markers : SUBSET Calls, there : BOOLEAN]
  /\ pc \in [Calls -> PCs]
  /\ thread \in [Calls -> Threads]
  /\ faults \in Faults

\* d's thread works for no call of c's process that is still there.
Strange(d, c) == d # c /\ (ProcessOf[d] # ProcessOf[c] \/ pc[d] = "failed")

\* A call of another process has got further than the lock.
Beside(c) == \E d \in Calls : ProcessOf[d] # ProcessOf[c] /\ pc[d] \notin {"idle", "waiting"}

\* "Neither a crash nor a concurrent run ever observes a half-extracted tree",
\* where a tree the marker check accepts is half-extracted after all: it lacks a
\* file only where the thread of a cancelled call, or another process's, has
\* truncated it last; and a call marks a tree that is not its own only beside
\* another process.
MarkedIsWhole ==
  /\ \A c \in destination.markers \cap destination.by, m \in Members :
       \/ destination.files[m] = "whole"
       \/ \E d \in Calls : destination.last[m] = {d} /\ Strange(d, c)
  /\ \A c \in destination.markers \ destination.by : Beside(c)

\* extract_local.py says it without exception.
NeverHalfExtracted ==
  Marked(destination) => \A m \in Members : destination.files[m] = "whole"

\* A call that found no marker removes what is there, beside another process.
ClearedBeside == \E c \in Calls : pc[c] = "clearing" /\ pc'[c] = "extracting" /\ Beside(c)

\* A tree that has been handed out -- it is mounted into containers -- is neither
\* removed nor replaced by later calls, but for one beside another process that
\* found no marker and removes what was put there since.
ReturnedStays ==
  [][Marked(destination) /\ ~ Marked(destination') => ClearedBeside]_destination
=============================================================================
