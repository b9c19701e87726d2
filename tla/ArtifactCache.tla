--------------------------- MODULE ArtifactCache ---------------------------
(***************************************************************************)
(* The controller's cache of one downloaded artifact (bootstrap/cache.py): *)
(* ensure_artifact in the tasks of several processes, the lock within a    *)
(* process and the lock file between processes, the staging file with its  *)
(* checksum and the rename.                                                *)
(*                                                                         *)
(* The download runs in a thread: a cancelled task gives its locks back,   *)
(* but its thread goes on writing.  A file is an inode, so that a thread   *)
(* goes on writing to the file it has opened wherever that is renamed to.  *)
(***************************************************************************)
EXTENDS Naturals

CONSTANTS Tasks,       \* the calls of ensure_artifact
          Processes,
          ProcessOf,   \* the process of each
          Inodes,      \* files that may come to exist
          NoFile, NoTask,
          Chunks,      \* the artifact's length, in chunks of the stream
          MayCancelDownload  \* whether a task may be cancelled during its download

ASSUME CacheAssumption == /\ ProcessOf \in [Tasks -> Processes]
                          /\ NoFile \notin Inodes /\ NoTask \notin Tasks
                          /\ Chunks \in Nat \ {0} /\ MayCancelDownload \in BOOLEAN

VARIABLES
  part,     \* the staging file, destination.part
  final,    \* the file under its final name
  content,  \* of each file, chunk by chunk
  local,    \* _locks: who holds the lock of this key, in each process
  flock,    \* who holds the lock file
  pc,       \* where each task is
  thread,   \* where its download is
  handle,   \* the file the download has open
  next      \* the chunk it writes next

disk == <<part, final, content>>
locks == <<local, flock>>
download == <<thread, handle, next>>
vars == <<disk, locks, pc, download>>

Marks == {"hole", "good", "bad"}
PCs == {"waiting", "locking", "fetching", "checking", "renaming",
        "given", "failed", "cancelled", "dead"}
Threads == {"none", "connecting", "writing", "ended", "raised"}

Empty == [k \in 1 .. Chunks |-> "hole"]
Whole(i) == \A k \in 1 .. Chunks : content[i][k] = "good"
Over(t) == pc[t] \in {"given", "failed", "cancelled", "dead"}

Init ==
  /\ part = NoFile /\ final = NoFile
  /\ content = [i \in Inodes |-> Empty]
  /\ local = [p \in Processes |-> NoTask]
  /\ flock = NoTask
  /\ pc = [t \in Tasks |-> "waiting"]
  /\ thread = [t \in Tasks |-> "none"]
  /\ handle = [t \in Tasks |-> NoFile]
  /\ next = [t \in Tasks |-> 1]

-----------------------------------------------------------------------------
(* A task. *)

\* Mutant: the lock within the process is not given back.
KeepsLock(t) ==
  /\ flock' = IF flock = t THEN NoTask ELSE flock
  /\ UNCHANGED local

\* Leaving the two `with` blocks, in whatever way.
Release(t) ==
  /\ local' = [p \in Processes |-> IF local[p] = t THEN NoTask ELSE local[p]]
  /\ flock' = IF flock = t THEN NoTask ELSE flock

End(t, how) ==
  /\ pc' = [pc EXCEPT ![t] = how]
  /\ Release(t)

\* Mutant: a staging file is taken for the artifact.
StagingToo == final # NoFile \/ part # NoFile

\* destination.is_file()
Cached == final # NoFile

\* The lock of the process is had: a file that is there is handed out at once; an
\* artifact without a published checksum is refused.
Enter(t) ==
  /\ pc[t] = "waiting" /\ local[ProcessOf[t]] = NoTask
  /\ IF Cached
     THEN End(t, "given")
     ELSE \/ End(t, "failed")
          \/ /\ pc' = [pc EXCEPT ![t] = "locking"]
             /\ local' = [local EXCEPT ![ProcessOf[t]] = t]
             /\ UNCHANGED flock
  /\ UNCHANGED <<disk, download>>

\* Mutant: the file is not looked for again once the lock file is had.
NotLookedForAgain == FALSE

\* Another process may have finished the download meanwhile.
CachedMeanwhile == Cached

\* The lock file is had.
Lock(t) ==
  /\ pc[t] = "locking" /\ flock = NoTask
  /\ IF CachedMeanwhile
     THEN /\ End(t, "given")
          /\ UNCHANGED thread
     ELSE /\ flock' = t
          /\ pc' = [pc EXCEPT ![t] = "fetching"]
          /\ thread' = [thread EXCEPT ![t] = "connecting"]
          /\ UNCHANGED local
  /\ UNCHANGED <<disk, handle, next>>

\* Its holder has kept it for lock_timeout_s.
LockTimedOut(t) ==
  /\ pc[t] = "locking" /\ flock # NoTask
  /\ End(t, "failed")
  /\ UNCHANGED <<disk, download>>

\* staging.unlink(missing_ok=True)
Unlink == part' = NoFile /\ UNCHANGED <<final, content>>

Fetched(t) ==
  /\ pc[t] = "fetching" /\ thread[t] \in {"ended", "raised"}
  /\ IF thread[t] = "ended"
     THEN /\ pc' = [pc EXCEPT ![t] = "checking"]
          /\ UNCHANGED <<disk, locks>>
     ELSE Unlink /\ End(t, "failed")
  /\ thread' = [thread EXCEPT ![t] = "none"]
  /\ handle' = [handle EXCEPT ![t] = NoFile]
  /\ UNCHANGED next

\* Mutant: only the length is looked at.
LongEnough(i) == \A k \in 1 .. Chunks : content[i][k] # "hole"

\* _sha256(staging) is the published one.
Verified(i) == Whole(i)

Check(t) ==
  /\ pc[t] = "checking"
  /\ \/ /\ part # NoFile /\ Verified(part)
        /\ pc' = [pc EXCEPT ![t] = "renaming"]
        /\ UNCHANGED <<disk, locks>>
     \/ /\ part = NoFile \/ ~ Verified(part)
        /\ Unlink /\ End(t, "failed")
  /\ UNCHANGED download

\* staging.replace(destination)
Rename(t) ==
  /\ pc[t] = "renaming"
  /\ \/ /\ part # NoFile
        /\ final' = part /\ part' = NoFile
        /\ End(t, "given")
     \/ /\ part = NoFile
        /\ UNCHANGED <<part, final>>
        /\ End(t, "failed")
  /\ UNCHANGED <<content, download>>

\* At one of its awaits: the lock of the process, the lock file, the download.
\* None of the handlers catches it, and the thread is not told.
Cancel(t) ==
  /\ \/ pc[t] \in {"waiting", "locking"}
     \/ MayCancelDownload /\ pc[t] = "fetching"
  /\ End(t, "cancelled")
  /\ UNCHANGED <<disk, download>>

-----------------------------------------------------------------------------
(* Its thread, and the end of a process. *)

\* A file nobody has a name for or a handle on.
Unused(i) == i \notin {part, final} /\ \A t \in Tasks : handle[t] # i

\* destination.open("wb"): the staging file is made, or cut to nothing.
Open(t) ==
  /\ thread[t] = "connecting"
  /\ \E i \in Inodes :
       /\ IF part = NoFile THEN Unused(i) ELSE i = part
       /\ part' = i
       /\ content' = [content EXCEPT ![i] = Empty]
       /\ handle' = [handle EXCEPT ![t] = i]
  /\ thread' = [thread EXCEPT ![t] = "writing"]
  /\ next' = [next EXCEPT ![t] = 1]
  /\ UNCHANGED <<final, locks, pc>>

MoreToCome(t) == next[t] <= Chunks

\* What arrives need not be what was published.
Write(t) ==
  /\ thread[t] = "writing" /\ MoreToCome(t)
  /\ \E mark \in {"good", "bad"} :
       content' = [content EXCEPT ![handle[t]] = [@ EXCEPT ![next[t]] = mark]]
  /\ next' = [next EXCEPT ![t] = @ + 1]
  /\ UNCHANGED <<part, final, locks, pc, thread, handle>>

\* The stream ends, early or not; or the request fails.
Stop(t) ==
  /\ \/ thread[t] = "writing" /\ thread' = [thread EXCEPT ![t] = "ended"]
     \/ thread[t] \in {"connecting", "writing"} /\ thread' = [thread EXCEPT ![t] = "raised"]
  /\ handle' = [handle EXCEPT ![t] = NoFile]
  /\ UNCHANGED <<disk, locks, pc, next>>

Mine(p) == {t \in Tasks : ProcessOf[t] = p}

\* The kernel releases the lock file; what is on the disk stays as it is.
Kill(p) ==
  /\ \E t \in Mine(p) : ~ Over(t)
  /\ pc' = [t \in Tasks |-> IF t \in Mine(p) /\ ~ Over(t) THEN "dead" ELSE pc[t]]
  /\ local' = [local EXCEPT ![p] = NoTask]
  /\ flock' = IF flock \in Mine(p) THEN NoTask ELSE flock
  /\ thread' = [t \in Tasks |-> IF t \in Mine(p) THEN "none" ELSE thread[t]]
  /\ handle' = [t \in Tasks |-> IF t \in Mine(p) THEN NoFile ELSE handle[t]]
  /\ UNCHANGED <<disk, next>>

TaskStep(t) ==
  Enter(t) \/ Lock(t) \/ LockTimedOut(t) \/ Fetched(t) \/ Check(t) \/ Rename(t)
ThreadStep(t) == Open(t) \/ Write(t) \/ Stop(t)

Next ==
  \/ \E t \in Tasks : TaskStep(t) \/ ThreadStep(t) \/ Cancel(t)
  \/ \E p \in Processes : Kill(p)

Spec == Init /\ [][Next]_vars

\* The event loop runs its tasks, and a download does not go on for ever: the
\* request has a timeout, the artifact an end.
Fairness == \A t \in Tasks : WF_vars(TaskStep(t)) /\ WF_vars(ThreadStep(t))
FairSpec == Spec /\ Fairness

-----------------------------------------------------------------------------
(* Properties. *)

TypeOK ==
  /\ part \in Inodes \cup {NoFile} /\ final \in Inodes \cup {NoFile}
  /\ content \in [Inodes -> [1 .. Chunks -> Marks]]
  /\ local \in [Processes -> Tasks \cup {NoTask}] /\ flock \in Tasks \cup {NoTask}
  /\ pc \in [Tasks -> PCs] /\ thread \in [Tasks -> Threads]
  /\ handle \in [Tasks -> Inodes \cup {NoFile}]
  /\ next \in [Tasks -> 1 .. Chunks + 1]
  /\ \A t \in Tasks : thread[t] = "writing" => handle[t] # NoFile

\* "A race can never serve a partial or corrupt artifact": the file under the
\* final name is all of what was published, whoever is downloading.
ServesWhole == final # NoFile => Whole(final)

\* "Each one is downloaded once": a download is under way in one task of all the
\* processes at most, and none once the artifact is there.
OneDownload ==
  \A t \in Tasks : thread[t] # "none" =>
    /\ final = NoFile
    /\ \A u \in Tasks : thread[u] # "none" => u = t

\* The cache is a store of whole artifacts.
Promise == INSTANCE ArtifactStore WITH
  ready  <- final # NoFile /\ Whole(final),
  answer <- [t \in Tasks |-> IF pc[t] = "given" THEN "given"
                             ELSE IF Over(t) THEN "refused" ELSE "none"]
ImplementsStore == Promise!Spec

\* Nobody who asks waits for ever.
EventuallyAnswered == \A t \in Tasks : <> Over(t)
=============================================================================
