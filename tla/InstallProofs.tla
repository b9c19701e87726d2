--------------------------- MODULE InstallProofs ---------------------------
(***************************************************************************)
(* What the install run shows of three tasks that want an artifact, three  *)
(* calls of ensure_extracted and a target with one user, for any number of *)
(* tasks, calls, processes, files, users and failures: what is served is   *)
(* whole, and no marker is left on a tree that is not, but as stated.      *)
(***************************************************************************)
EXTENDS MCInstall, TLAPS

-----------------------------------------------------------------------------
(* The artifact.  As long as no task is cancelled during its download, a   *)
(* thread writes only while its task holds the lock file, so what is       *)
(* renamed is what was checked; the run cache_cancelled shows that the     *)
(* proviso cannot be dropped.                                              *)

Inside == {"fetching", "checking", "renaming"}

\* The lock file is held by whoever downloads, checks or renames.
Locked == \A t \in Tasks : pc[t] \in Inside <=> flock = t

\* A download belongs to its task, and writes to the staging file only.
Tied(t) ==
  /\ thread[t] # "none" => pc[t] = "fetching"
  /\ handle[t] # NoFile => thread[t] = "writing" /\ handle[t] = part

\* What the check said still holds of the staging file, and the artifact is not
\* there before it is renamed.
Verifies(t) ==
  /\ pc[t] \in Inside => final = NoFile
  /\ pc[t] = "renaming" => part # NoFile /\ Whole(part)

CacheInv ==
  /\ Locked
  /\ \A t \in Tasks : Tied(t) /\ Verifies(t)
  /\ part # NoFile => part # final
  /\ ServesWhole

-----------------------------------------------------------------------------
(* The artifact: types. *)

LEMMA InitType == Init => TypeOK
<1> SUFFICES ASSUME Init PROVE TypeOK
  OBVIOUS
<1> QED
  BY CacheAssumption DEF Init, TypeOK, Empty, Marks, PCs, Threads

LEMMA TaskType ==
  ASSUME TypeOK, NEW t \in Tasks, TaskStep(t) \/ Cancel(t)
  PROVE  TypeOK'
<1> USE CacheAssumption DEF TypeOK, PCs, Threads
<1>0. ASSUME NEW how \in PCs, End(t, how)
      PROVE  /\ local' \in [Processes -> Tasks \cup {NoTask}]
             /\ flock' \in Tasks \cup {NoTask} /\ pc' \in [Tasks -> PCs]
  BY <1>0 DEF End, Release
<1>1. CASE Enter(t)
  <2>1. /\ local' \in [Processes -> Tasks \cup {NoTask}]
        /\ flock' \in Tasks \cup {NoTask} /\ pc' \in [Tasks -> PCs]
    <3>1. CASE End(t, "given") \/ End(t, "failed")
      BY <1>0, <3>1
    <3>2. CASE /\ pc' = [pc EXCEPT ![t] = "locking"]
               /\ local' = [local EXCEPT ![ProcessOf[t]] = t] /\ UNCHANGED flock
      BY <3>2
    <3> QED
      BY <1>1, <3>1, <3>2 DEF Enter
  <2> QED
    BY <1>1, <2>1 DEF Enter, disk, download
<1>2. CASE Lock(t)
  BY <1>0, <1>2 DEF Lock, disk
<1>3. CASE LockTimedOut(t) \/ Cancel(t)
  BY <1>0, <1>3 DEF LockTimedOut, Cancel, disk, download
<1>4. CASE Fetched(t)
  BY <1>0, <1>4 DEF Fetched, Unlink, disk, locks
<1>5. CASE Check(t)
  BY <1>0, <1>5 DEF Check, Unlink, disk, locks, download
<1>6. CASE Rename(t)
  BY <1>0, <1>6 DEF Rename, download
<1> QED
  BY <1>1, <1>2, <1>3, <1>4, <1>5, <1>6 DEF TaskStep

LEMMA ThreadType ==
  ASSUME TypeOK, NEW t \in Tasks, ThreadStep(t)
  PROVE  TypeOK'
<1> USE CacheAssumption DEF TypeOK
<1>1. CASE Open(t)
  <2>1. PICK i \in Inodes : /\ part' = i
                            /\ content' = [content EXCEPT ![i] = Empty]
                            /\ handle' = [handle EXCEPT ![t] = i]
    BY <1>1 DEF Open
  <2>2. Empty \in [1 .. Chunks -> Marks]
    BY DEF Empty, Marks
  <2>3. content' \in [Inodes -> [1 .. Chunks -> Marks]]
    BY <2>1, <2>2
  <2> QED
    BY <1>1, <2>1, <2>3 DEF Open, locks, Threads
<1>2. CASE Write(t)
  <2>1. PICK mark \in {"good", "bad"} :
          content' = [content EXCEPT ![handle[t]] = [content[handle[t]] EXCEPT ![next[t]] = mark]]
    BY <1>2 DEF Write
  <2>2. handle[t] \in Inodes
    BY <1>2 DEF Write
  <2>3. [content[handle[t]] EXCEPT ![next[t]] = mark] \in [1 .. Chunks -> Marks]
    BY <2>2 DEF Marks
  <2>4. content' \in [Inodes -> [1 .. Chunks -> Marks]]
    BY <2>1, <2>2, <2>3
  <2> QED
    BY <1>2, <2>4 DEF Write, MoreToCome, locks
<1>3. CASE Stop(t)
  BY <1>3 DEF Stop, disk, locks, Threads
<1> QED
  BY <1>1, <1>2, <1>3 DEF ThreadStep

LEMMA NextType == TypeOK /\ [Next]_vars => TypeOK'
<1> SUFFICES ASSUME TypeOK, [Next]_vars PROVE TypeOK'
  OBVIOUS
<1>1. ASSUME NEW p \in Processes, Kill(p) PROVE TypeOK'
  BY <1>1, CacheAssumption DEF Kill, TypeOK, Mine, PCs, Threads, disk
<1>2. CASE UNCHANGED vars
  BY <1>2 DEF TypeOK, vars, disk, locks, download
<1> QED
  BY <1>1, <1>2, TaskType, ThreadType DEF Next

\* Every variable keeps its type, and a thread that writes has a file open.
THEOREM TypeCorrect == Spec => []TypeOK
  BY InitType, NextType, PTL DEF Spec

-----------------------------------------------------------------------------
(* The artifact: what is served. *)

LEMMA InitInv == Init => CacheInv
  BY CacheAssumption DEF Init, CacheInv, Locked, Inside, Tied, Verifies, ServesWhole

\* What every action of a task that holds the lock file finds.
LEMMA Alone ==
  ASSUME CacheInv, NEW t \in Tasks, pc[t] \in Inside
  PROVE  /\ flock = t /\ final = NoFile
         /\ \A u \in Tasks : u # t => /\ pc[u] \notin Inside
                                      /\ thread[u] = "none" /\ handle[u] = NoFile
  BY DEF CacheInv, Locked, Tied, Verifies, Inside

LEMMA TaskInv ==
  ASSUME TypeOK, CacheInv, ~ MayCancelDownload, NEW t \in Tasks, TaskStep(t) \/ Cancel(t)
  PROVE  CacheInv'
<1> USE CacheAssumption DEF CacheInv, Locked, Tied, Verifies, ServesWhole, Whole, Inside, TypeOK
<1>1. CASE Enter(t)
  BY <1>1 DEF Enter, End, Release, Cached, disk, download
<1>2. CASE Lock(t)
  <2>1. CASE CachedMeanwhile
    BY <1>2, <2>1 DEF Lock, End, Release, disk
  <2>2. CASE ~ CachedMeanwhile
    BY <1>2, <2>2 DEF Lock, CachedMeanwhile, Cached, disk
  <2> QED
    BY <2>1, <2>2
<1>3. CASE LockTimedOut(t) \/ Cancel(t)
  BY <1>3 DEF LockTimedOut, Cancel, End, Release, disk, download
<1>4. CASE Fetched(t)
  <2>1. pc[t] \in Inside
    BY <1>4 DEF Fetched
  <2> QED
    BY <1>4, <2>1, Alone DEF Fetched, Unlink, End, Release, disk, locks
<1>5. CASE Check(t)
  <2>1. pc[t] \in Inside
    BY <1>5 DEF Check
  <2>2. CASE UNCHANGED <<disk, locks>>
    BY <1>5, <2>1, <2>2, Alone DEF Check, Verified, disk, locks, download, End, Release
  <2>3. CASE Unlink /\ End(t, "failed")
    BY <1>5, <2>1, <2>3, Alone DEF Check, Unlink, End, Release, locks, download
  <2> QED
    BY <1>5, <2>2, <2>3 DEF Check
<1>6. CASE Rename(t)
  <2>1. pc[t] \in Inside
    BY <1>6 DEF Rename
  <2>2. CASE final' = part /\ part' = NoFile /\ End(t, "given")
    BY <1>6, <2>1, <2>2, Alone DEF Rename, End, Release, download
  <2>3. CASE UNCHANGED <<part, final>> /\ End(t, "failed")
    BY <1>6, <2>1, <2>3, Alone DEF Rename, End, Release, download
  <2> QED
    BY <1>6, <2>2, <2>3 DEF Rename
<1> QED
  BY <1>1, <1>2, <1>3, <1>4, <1>5, <1>6 DEF TaskStep

LEMMA ThreadInv ==
  ASSUME TypeOK, CacheInv, NEW t \in Tasks, ThreadStep(t)
  PROVE  CacheInv'
<1> USE CacheAssumption DEF CacheInv, Locked, Tied, Verifies, ServesWhole, Inside, TypeOK
<1>1. pc[t] = "fetching" /\ pc[t] \in Inside
  BY DEF ThreadStep, Open, Write, Stop
<1>2. CASE Open(t)
  BY <1>1, <1>2, Alone DEF Open, locks
<1>3. CASE Write(t)
  BY <1>1, <1>3, Alone DEF Write, locks
<1>4. CASE Stop(t)
  BY <1>1, <1>4, Alone DEF Stop, disk, locks
<1> QED
  BY <1>2, <1>3, <1>4 DEF ThreadStep

LEMMA NextInv == TypeOK /\ CacheInv /\ ~ MayCancelDownload /\ [Next]_vars => CacheInv'
<1> SUFFICES ASSUME TypeOK, CacheInv, ~ MayCancelDownload, [Next]_vars PROVE CacheInv'
  OBVIOUS
<1>1. ASSUME NEW p \in Processes, Kill(p) PROVE CacheInv'
  BY <1>1, CacheAssumption DEF Kill, Mine, Over, CacheInv, Locked, Tied, Verifies, ServesWhole,
     Whole, Inside, TypeOK, PCs, disk
<1>2. CASE UNCHANGED vars
  BY <1>2 DEF CacheInv, Locked, Tied, Verifies, ServesWhole, Whole, vars, disk, locks, download
<1> QED
  BY <1>1, <1>2, TaskInv, ThreadInv DEF Next

LEMMA Invariance == ASSUME ~ MayCancelDownload PROVE Spec => [](TypeOK /\ CacheInv)
<1>1. TypeOK /\ CacheInv /\ [Next]_vars => TypeOK' /\ CacheInv'
  BY NextType, NextInv
<1> QED
  BY <1>1, InitType, InitInv, PTL DEF Spec

\* "A race can never serve a partial or corrupt artifact", for any number of
\* tasks and processes that download, fail and are killed, if none is
\* cancelled during its download.
THEOREM Serves == ASSUME ~ MayCancelDownload PROVE Spec => []ServesWhole
<1>1. CacheInv => ServesWhole
  BY DEF CacheInv
<1> QED
  BY <1>1, Invariance, PTL

\* "Each one is downloaded once": never two downloads at a time, none after the
\* artifact is there.
THEOREM DownloadsOnce == ASSUME ~ MayCancelDownload PROVE Spec => []OneDownload
<1>1. CacheInv => OneDownload
  BY DEF CacheInv, OneDownload, Tied, Verifies, Locked, Inside
<1> QED
  BY <1>1, Invariance, PTL

-----------------------------------------------------------------------------
(* The cache implements the store.                                         *)

Offered == final # NoFile /\ Whole(final)
Answer == [t \in Tasks |-> IF pc[t] = "given" THEN "given"
                           ELSE IF Over(t) THEN "refused" ELSE "none"]

LEMMA Given ==
  ASSUME TypeOK, NEW t \in Tasks, ~ Over(t), pc' = [pc EXCEPT ![t] = "given"], Offered'
  PROVE  Promise!Give(t)
<1>1. Answer[t] = "none" /\ Answer' = [Answer EXCEPT ![t] = "given"]
  BY DEF Answer, Over, TypeOK
<1> QED
  BY <1>1 DEF Promise!Give, Answer, Offered

LEMMA Refused ==
  ASSUME TypeOK, NEW t \in Tasks, ~ Over(t), NEW how \in {"failed", "cancelled"},
         pc' = [pc EXCEPT ![t] = how], Offered' = Offered
  PROVE  \E T \in SUBSET Tasks : Promise!Refuse(T)
<1>1. \A u \in {t} : Answer[u] = "none"
  BY DEF Answer, Over
<1>2. Answer' = [u \in Tasks |-> IF u \in {t} THEN "refused" ELSE Answer[u]]
  BY DEF Answer, Over, TypeOK
<1>3. Promise!Refuse({t})
  BY <1>1, <1>2 DEF Promise!Refuse, Answer, Offered
<1> QED
  BY <1>3

\* What a step that answers nobody does.
Quiet == Answer' = Answer /\ Offered' = Offered

LEMMA SameReady ==
  ASSUME final' = final, content' = content PROVE Offered' = Offered
  BY DEF Offered, Whole

LEMMA SameAnswer ==
  ASSUME TypeOK, NEW t \in Tasks, ~ Over(t), NEW how \in {"locking", "fetching", "checking", "renaming"},
         pc' = [pc EXCEPT ![t] = how]
  PROVE  Answer' = Answer
  BY DEF Answer, Over, TypeOK

LEMMA TaskPromise ==
  ASSUME TypeOK, CacheInv, CacheInv', ~ MayCancelDownload, NEW t \in Tasks, TaskStep(t) \/ Cancel(t)
  PROVE  Promise!Next \/ Quiet
<1> USE DEF TypeOK
<1>1. ~ Over(t)
  BY DEF TaskStep, Enter, Lock, LockTimedOut, Fetched, Check, Rename, Cancel, Over
<1>2. final' # NoFile => Offered'
  BY DEF CacheInv, ServesWhole, Offered, Whole
<1>3. ASSUME End(t, "given"), final' # NoFile PROVE Promise!Next
  BY <1>1, <1>2, <1>3, Given DEF End, Promise!Next
<1>4. ASSUME NEW how \in {"failed", "cancelled"}, End(t, how), final' = final, content' = content
      PROVE  Promise!Next
  BY <1>1, <1>4, SameReady, Refused DEF End, Promise!Next
<1>5. ASSUME NEW how \in {"locking", "fetching", "checking", "renaming"},
             pc' = [pc EXCEPT ![t] = how], final' = final, content' = content
      PROVE  Quiet
  BY <1>1, <1>5, SameReady, SameAnswer DEF Quiet
<1>6. CASE Enter(t)
  BY <1>3, <1>4, <1>5, <1>6 DEF Enter, Cached, disk
<1>7. CASE Lock(t)
  BY <1>3, <1>5, <1>7 DEF Lock, CachedMeanwhile, Cached, disk
<1>8. CASE LockTimedOut(t) \/ Cancel(t)
  BY <1>4, <1>8 DEF LockTimedOut, Cancel, disk
<1>9. CASE Fetched(t)
  BY <1>4, <1>5, <1>9 DEF Fetched, Unlink, disk
<1>10. CASE Check(t)
  BY <1>4, <1>5, <1>10 DEF Check, Unlink, disk
<1>11. CASE Rename(t)
  BY <1>3, <1>4, <1>11 DEF Rename
<1> QED
  BY <1>6, <1>7, <1>8, <1>9, <1>10, <1>11 DEF TaskStep

LEMMA ThreadQuiet ==
  ASSUME TypeOK, CacheInv, NEW t \in Tasks, ThreadStep(t)
  PROVE  Quiet
<1>1. pc[t] = "fetching" /\ pc[t] \in Inside /\ final = NoFile /\ final' = final /\ pc' = pc
  <2>1. pc[t] = "fetching" /\ final' = final /\ pc' = pc
    BY DEF ThreadStep, Open, Write, Stop, CacheInv, Tied, disk
  <2> QED
    BY <2>1, Alone DEF Inside
<1> QED
  BY <1>1 DEF Quiet, Offered, Answer, Over

LEMMA NextPromise ==
  TypeOK /\ CacheInv /\ CacheInv' /\ ~ MayCancelDownload /\ [Next]_vars => Promise!Next \/ Quiet
<1> SUFFICES ASSUME TypeOK, CacheInv, CacheInv', ~ MayCancelDownload, [Next]_vars
             PROVE  Promise!Next \/ Quiet
  OBVIOUS
<1>1. ASSUME NEW p \in Processes, Kill(p) PROVE Promise!Next
  <2>1. PICK T \in SUBSET Tasks : T = {t \in Mine(p) : ~ Over(t)}
    BY DEF Mine
  <2>2. \A t \in T : Answer[t] = "none"
    BY <2>1 DEF Answer, Mine, Over
  <2>3. Answer' = [t \in Tasks |-> IF t \in T THEN "refused" ELSE Answer[t]]
    BY <1>1, <2>1 DEF Answer, Kill, Mine, Over, TypeOK
  <2>4. Offered' = Offered
    BY <1>1, SameReady DEF Kill, disk
  <2>5. Promise!Refuse(T)
    BY <2>2, <2>3, <2>4 DEF Promise!Refuse, Answer, Offered
  <2> QED
    BY <2>5 DEF Promise!Next
<1>2. CASE UNCHANGED vars
  BY <1>2 DEF Quiet, Offered, Whole, Answer, Over, vars, disk
<1> QED
  BY <1>1, <1>2, TaskPromise, ThreadQuiet DEF Next

\* The tasks, their locks and threads implement the store of whole artifacts:
\* whoever is given the artifact is given all of it, and it stays.
THEOREM Implementation == ASSUME ~ MayCancelDownload PROVE Spec => ImplementsStore
<1>1. Init => Promise!Init
  BY DEF Init, Promise!Init, Over
<1>2. TypeOK /\ CacheInv /\ CacheInv' /\ [Next]_vars => Promise!Next \/ Quiet
  BY NextPromise
<1>3. Quiet => UNCHANGED Promise!vars
  BY DEF Quiet, Offered, Answer, Promise!vars
<1> QED
  BY <1>1, <1>2, <1>3, Invariance, PTL DEF Spec, ImplementsStore, Promise!Spec

-----------------------------------------------------------------------------
(* The three of them together. *)

allVars == <<of, vars, localVars, remoteVars>>

-----------------------------------------------------------------------------
(* A version unpacked here: types. *)

LEMMA LocalSteps == [MCNext]_allVars => [Local!Next]_(Local!vars)
<1> QED
  BY DEF allVars, MCNext, localVars, Local!vars

\* A file has been truncated last by one thread's call, or by none.
Truncated == {{}} \cup {{c} : c \in Calls}
Files == [Members -> {"absent", "cut", "whole"}]
Trees == [files : Files, last : [Members -> Truncated],
          by : SUBSET Calls, markers : SUBSET Calls, there : BOOLEAN]

LocalTypes == /\ staging \in Trees /\ destination \in Trees
              /\ caller \in [Calls -> Local!PCs]
              /\ unpacking \in [Calls -> Local!Threads]
              /\ faults \in Faults

LEMMA TreesOf ==
  /\ Local!NoTree \in Trees /\ Local!NoTree.markers = {} /\ Local!NoTree.by = {}
  /\ \A c \in Calls :
       /\ Local!EmptyTree(c) \in Trees /\ Local!EmptyTree(c).markers = {}
       /\ Local!EmptyTree(c).by = {c} /\ Local!EmptyTree(c).there
       /\ \A m \in Members : Local!EmptyTree(c).last[m] = {}
  /\ Local!NoThread \in Local!Threads /\ Local!NoThread.open = NoFile
  /\ Local!NoThread.state = "none" /\ Local!NoThread.written = {}
  /\ Local!NoThread.at = "unlinked"
<1>1. {} \in Truncated
  BY DEF Truncated
<1>2. /\ Local!NoTree \in Trees /\ Local!NoTree.markers = {} /\ Local!NoTree.by = {}
      /\ \A m \in Members : Local!NoTree.last[m] = {}
  BY <1>1 DEF Local!NoTree, Trees, Files
<1>3. ASSUME NEW c \in Calls
      PROVE  /\ Local!EmptyTree(c) \in Trees /\ Local!EmptyTree(c).markers = {}
             /\ Local!EmptyTree(c).by = {c} /\ Local!EmptyTree(c).there
             /\ \A m \in Members : Local!EmptyTree(c).last[m] = {}
  BY <1>2 DEF Local!EmptyTree, Trees
<1>4. /\ Local!NoThread \in Local!Threads /\ Local!NoThread.open = NoFile
      /\ Local!NoThread.state = "none" /\ Local!NoThread.written = {}
      /\ Local!NoThread.at = "unlinked"
  BY DEF Local!NoThread, Local!Threads
<1> QED
  BY <1>2, <1>3, <1>4

LEMMA TreeOf ==
  ASSUME NEW t \in Trees
  PROVE  /\ t = [files |-> t.files, last |-> t.last, by |-> t.by, markers |-> t.markers,
                 there |-> t.there]
         /\ t.files \in Files /\ t.last \in [Members -> Truncated]
         /\ t.by \subseteq Calls /\ t.markers \subseteq Calls /\ t.there \in BOOLEAN
<1> QED
  BY DEF Trees

\* A file truncated, and one written to its end.
LEMMA CutOf ==
  ASSUME NEW t \in Trees, NEW m \in Members, NEW c \in Calls,
         NEW u, u = [t EXCEPT !.files[m] = "cut", !.last[m] = {c}, !.there = TRUE]
  PROVE  /\ u \in Trees /\ u.by = t.by /\ u.markers = t.markers /\ u.there
         /\ \A n \in Members : /\ u.files[n] = IF n = m THEN "cut" ELSE t.files[n]
                               /\ u.last[n] = IF n = m THEN {c} ELSE t.last[n]
<1>1. /\ u.by = t.by /\ u.markers = t.markers /\ u.there
      /\ u.files = [t.files EXCEPT ![m] = "cut"] /\ u.last = [t.last EXCEPT ![m] = {c}]
  BY DEF Trees
<1>2. [t.files EXCEPT ![m] = "cut"] \in Files
  BY TreeOf DEF Files
<1>3. [t.last EXCEPT ![m] = {c}] \in [Members -> Truncated]
  <2>1. t.last \in [Members -> Truncated] /\ {c} \in Truncated
    BY TreeOf DEF Truncated
  <2> QED
    BY <2>1
<1>4. u \in Trees
  BY <1>2, <1>3, TreeOf DEF Trees
<1>5. \A n \in Members : /\ u.files[n] = IF n = m THEN "cut" ELSE t.files[n]
                         /\ u.last[n] = IF n = m THEN {c} ELSE t.last[n]
  BY <1>1, TreeOf DEF Files
<1> QED
  BY <1>1, <1>4, <1>5

LEMMA WrittenOf ==
  ASSUME NEW t \in Trees, NEW m \in Members, NEW c \in Calls
  PROVE  LET u == Local!Written(t, c, m) IN
         /\ u \in Trees /\ u.by = t.by /\ u.markers = t.markers /\ u.there = t.there
         /\ u.last = t.last
         /\ \A n \in Members : u.files[n] = IF n = m /\ t.last[m] = {c} THEN "whole" ELSE t.files[n]
<1> DEFINE u == [t EXCEPT !.files[m] = "whole"]
<1>1. u = [files |-> [t.files EXCEPT ![m] = "whole"], last |-> t.last,
           by |-> t.by, markers |-> t.markers, there |-> t.there]
  BY DEF Trees
<1>2. [t.files EXCEPT ![m] = "whole"] \in Files
  BY TreeOf DEF Files
<1>3. Local!Written(t, c, m) = IF t.last[m] = {c} THEN u ELSE t
  BY DEF Local!Written
<1> HIDE DEF u
<1>4. u \in Trees
  BY <1>1, <1>2, TreeOf DEF Trees
<1>5. \A n \in Members : u.files[n] = IF n = m THEN "whole" ELSE t.files[n]
  BY <1>1, TreeOf DEF Files
<1>6. u.by = t.by /\ u.markers = t.markers /\ u.there = t.there /\ u.last = t.last
  BY <1>1
<1> QED
  BY <1>3, <1>4, <1>5, <1>6

LEMMA MarkOf ==
  ASSUME NEW t \in Trees, NEW c \in Calls
  PROVE  LET u == [t EXCEPT !.markers = @ \cup {c}] IN
         /\ u \in Trees /\ u.markers = t.markers \cup {c}
         /\ u.files = t.files /\ u.last = t.last /\ u.by = t.by /\ u.there = t.there
<1> DEFINE u == [t EXCEPT !.markers = @ \cup {c}]
<1>1. u = [files |-> t.files, last |-> t.last, by |-> t.by, markers |-> t.markers \cup {c},
           there |-> t.there]
  BY DEF Trees
<1> HIDE DEF u
<1>2. u \in Trees
  BY <1>1, TreeOf DEF Trees
<1> QED
  BY <1>1, <1>2 DEF u

\* A thread's next state.
LEMMA ThreadOf ==
  ASSUME LocalTypes, NEW c \in Calls
  PROVE  /\ unpacking[c] \in Local!Threads
         /\ unpacking[c].state \in {"none", "running", "done", "failed"}
         /\ unpacking[c].written \subseteq Members
         /\ unpacking[c].open \in Members \cup {NoFile}
         /\ unpacking[c].at \in {"staging", "destination", "unlinked"}
<1> QED
  BY DEF Local!Threads, LocalTypes

LEMMA OpenOf ==
  ASSUME LocalTypes, NEW c \in Calls, NEW m \in Members, Local!Open(c, m)
  PROVE  /\ unpacking' \in [Calls -> Local!Threads]
         /\ unpacking'[c].state = unpacking[c].state
         /\ unpacking'[c].written = unpacking[c].written
         /\ unpacking'[c].open = m /\ unpacking'[c].at = "staging"
         /\ \A d \in Calls : d # c => unpacking'[d] = unpacking[d]
<1>1. unpacking' = [unpacking EXCEPT ![c].open = m, ![c].at = "staging"]
  BY DEF Local!Open
<1> QED
  BY <1>1 DEF LocalTypes, Local!Threads

LEMMA CloseOf ==
  ASSUME LocalTypes, NEW c \in Calls, Local!Close(c)
  PROVE  /\ unpacking[c].open \in Members
         /\ unpacking' \in [Calls -> Local!Threads]
         /\ unpacking'[c].state = unpacking[c].state
         /\ unpacking'[c].written = unpacking[c].written \cup {unpacking[c].open}
         /\ unpacking'[c].open = NoFile
         /\ \A d \in Calls : d # c => unpacking'[d] = unpacking[d]
<1>1. /\ unpacking' = [unpacking EXCEPT ![c].open = NoFile, ![c].at = "unlinked",
                          ![c].written = unpacking[c].written \cup {unpacking[c].open}]
      /\ unpacking[c].open \in Members /\ unpacking[c].written \subseteq Members
      /\ unpacking \in [Calls -> Local!Threads]
  BY ThreadOf DEF Local!Close, LocalTypes
<1>2. unpacking[c] \in Local!Threads
  BY <1>1
<1>3. [unpacking[c] EXCEPT !.open = NoFile, !.at = "unlinked",
                           !.written = unpacking[c].written \cup {unpacking[c].open}]
        \in Local!Threads
  BY <1>1, <1>2 DEF Local!Threads
<1>4. unpacking' = [unpacking EXCEPT ![c] =
        [unpacking[c] EXCEPT !.open = NoFile, !.at = "unlinked",
                             !.written = unpacking[c].written \cup {unpacking[c].open}]]
  BY <1>1, <1>2 DEF Local!Threads
<1>5. unpacking' \in [Calls -> Local!Threads] /\ \A d \in Calls : d # c => unpacking'[d] = unpacking[d]
  BY <1>1, <1>3, <1>4
<1>6. unpacking'[c] = [unpacking[c] EXCEPT !.open = NoFile, !.at = "unlinked",
                         !.written = unpacking[c].written \cup {unpacking[c].open}]
  BY <1>1, <1>4
<1> QED
  BY <1>1, <1>2, <1>5, <1>6 DEF Local!Threads

LEMMA MovedOf ==
  ASSUME unpacking \in [Calls -> Local!Threads], NEW p,
         NEW q \in {"staging", "destination", "unlinked"}
  PROVE  /\ Local!Moved(p, q) \in [Calls -> Local!Threads]
         /\ \A c \in Calls : LET t == Local!Moved(p, q)[c] IN
              /\ t.state = unpacking[c].state /\ t.written = unpacking[c].written
              /\ t.open = unpacking[c].open
              /\ t.at = IF unpacking[c].at = p THEN q ELSE unpacking[c].at
<1> QED
  BY DEF Local!Moved, Local!Threads

LEMMA NextLocalTypes == ASSUME LocalTypes, [Local!Next]_(Local!vars) PROVE LocalTypes'
<1> USE DEF LocalTypes
<1>1. ASSUME NEW c \in Calls, \/ Local!Call(c) \/ Local!Look(c)
      PROVE  LocalTypes'
  BY <1>1 DEF Local!Call, Local!Look, Local!Goto, Local!PCs
<1>2. ASSUME NEW c \in Calls, Local!Clear(c)
      PROVE  LocalTypes'
  BY <1>2, TreesOf DEF Local!Clear, Local!Goto, Local!PCs, Local!Threads
<1>3. ASSUME NEW c \in Calls, Local!Fail(c)
      PROVE  LocalTypes'
  BY <1>3, TreesOf, MovedOf DEF Local!Fail, Local!Goto, Local!PCs
<1>4. ASSUME NEW c \in Calls, Local!Mark(c)
      PROVE  LocalTypes'
  BY <1>4, MarkOf DEF Local!Mark, Local!Goto, Local!PCs
<1>5. ASSUME NEW c \in Calls, Local!Install(c)
      PROVE  LocalTypes'
  BY <1>5, TreesOf, MovedOf DEF Local!Install, Local!Goto, Local!PCs
<1>6. ASSUME NEW c \in Calls, Local!Cancel(c)
      PROVE  LocalTypes'
  BY <1>6, TreesOf DEF Local!Cancel, Local!Goto, Local!PCs
<1>7. ASSUME NEW c \in Calls, Local!Close(c)
      PROVE  LocalTypes'
  <2>1. unpacking[c].open \in Members /\ unpacking' \in [Calls -> Local!Threads]
    BY <1>7, CloseOf
  <2>2. staging' \in Trees /\ destination' \in Trees
    BY <1>7, <2>1, WrittenOf DEF Local!Close
  <2> QED
    BY <1>7, <2>1, <2>2 DEF Local!Close
<1>8. ASSUME NEW c \in Calls, Local!Unpacked(c)
      PROVE  LocalTypes'
  BY <1>8 DEF Local!Unpacked, Local!Threads
<1>9. ASSUME NEW c \in Calls, NEW m \in Members, Local!Open(c, m)
      PROVE  LocalTypes'
  <2>1. staging \in Trees
    BY DEF LocalTypes
  <2>2. staging' = [staging EXCEPT !.files[m] = "cut", !.last[m] = {c}, !.there = TRUE]
    BY <1>9 DEF Local!Open
  <2>3. staging' \in Trees
    BY <2>1, <2>2, CutOf
  <2> QED
    BY <1>9, <2>3, OpenOf DEF Local!Open
<1>10. ASSUME NEW c \in Calls, Local!Crash(CallProcess[c])
       PROVE  LocalTypes'
  BY <1>10, TreesOf DEF Local!Crash, Local!PCs
<1>11. CASE UNCHANGED Local!vars
  BY <1>11 DEF Local!vars
<1> QED
  BY <1>1, <1>2, <1>3, <1>4, <1>5, <1>6, <1>7, <1>8, <1>9, <1>10, <1>11 DEF Local!Next

LEMMA InitLocalTypes == Local!Init => LocalTypes
<1> QED
  BY TreesOf DEF Local!Init, LocalTypes, Local!PCs

-----------------------------------------------------------------------------
(* A version unpacked here: who is at work on a tree.  What the marker says *)
(* of a tree holds of the files that the thread of the call that made the   *)
(* tree was the last to truncate; all others' doing is by the threads of    *)
(* cancelled calls and by other processes.                                  *)

Unpacks == {"extracting", "installing"}
Marks_  == {"installing", "returned", "failed"}

\* What a call and another's thread have to do with each other, and whether
\* another process has got past the lock: in the state whose calls are at p.
Foreign(d, c, p) == d # c /\ (CallProcess[d] # CallProcess[c] \/ p[d] = "failed")
Crossed(c, p) ==
  \E d \in Calls : CallProcess[d] # CallProcess[c] /\ p[d] \notin {"idle", "waiting"}

\* The calls of one process exclude each other.
Excluded ==
  \A c, d \in Calls :
    caller[c] \in Local!Locked /\ caller[d] \in Local!Locked => c = d \/ CallProcess[c] # CallProcess[d]

Workers ==
  \A c \in Calls :
    /\ unpacking[c].open # NoFile => /\ unpacking[c].state = "running"
                                     /\ unpacking[c].open \notin unpacking[c].written
    /\ unpacking[c].state = "running" => caller[c] \in {"extracting", "failed"}
    /\ unpacking[c].state = "done" => unpacking[c].written = Members
    /\ caller[c] = "installing" => unpacking[c].state = "done"

\* The staging tree is that of the call at work, but for other processes; and what
\* that call's thread has truncated last there, and left, is written to its end.
OwnFile(c, m) == /\ staging.last[m] # {}
                 /\ staging.last[m] = {c} => staging.files[m] = "whole"
Owned ==
  \A c \in Calls : caller[c] \in Unpacks =>
    /\ c \notin staging.by => Crossed(c, caller)
    /\ \A d \in staging.by : CallProcess[d] = CallProcess[c] => d = c
    /\ c \in staging.by =>
         /\ unpacking[c].open # NoFile => /\ unpacking[c].at = "staging"
                                          /\ staging.last[unpacking[c].open] # {}
         /\ \A m \in unpacking[c].written : OwnFile(c, m)

\* A marker appears behind the back of a call that found none only from another
\* process.
Surprised ==
  \A c \in Calls : caller[c] = "clearing" /\ destination.markers # {} => Crossed(c, caller)

\* What may be said of a tree t when the calls are at p and their threads in th.
Sound(t, p, th) ==
  /\ t.markers # {} => t.there
  /\ \A c \in t.markers : p[c] \in Marks_ /\ th[c].state # "running"
  /\ \A c \in t.by, d \in Calls, m \in Members :
       t.last[m] = {d} /\ d # c => Foreign(d, c, p)
  /\ \A c \in t.by \cap t.markers, m \in Members :
       t.last[m] # {} /\ (t.last[m] = {c} => t.files[m] = "whole")
  /\ \A c \in t.markers \ t.by : Crossed(c, p)

LocalInv == /\ Excluded /\ Workers /\ Owned /\ Surprised
            /\ Sound(staging, caller, unpacking) /\ Sound(destination, caller, unpacking)

\* How calls and threads go on, from p and th to q and tk.
Onward(p, q, th, tk) ==
  \A c \in Calls :
    /\ p[c] = "failed" => q[c] = "failed"
    /\ p[c] \notin {"idle", "waiting"} => q[c] \notin {"idle", "waiting"}
    /\ p[c] \in Marks_ /\ th[c].state # "running" => q[c] \in Marks_ /\ tk[c].state # "running"

LEMMA CrossedOn ==
  ASSUME NEW p, NEW q, NEW th, NEW tk, Onward(p, q, th, tk), NEW c \in Calls, Crossed(c, p)
  PROVE  Crossed(c, q)
<1> QED
  BY DEF Crossed, Onward

LEMMA ForeignOn ==
  ASSUME NEW p, NEW q, NEW th, NEW tk, Onward(p, q, th, tk), NEW c \in Calls, NEW d \in Calls,
         Foreign(d, c, p)
  PROVE  Foreign(d, c, q)
<1> QED
  BY DEF Foreign, Onward

\* A tree in which files are at most written to their end stays sound.
LEMMA SoundOn ==
  ASSUME NEW p, NEW q, NEW th, NEW tk, Onward(p, q, th, tk),
         NEW t \in Trees, NEW u \in Trees, Sound(t, p, th),
         u.by = t.by, u.markers = t.markers, u.there = t.there, u.last = t.last,
         \A m \in Members : u.files[m] = t.files[m] \/ u.files[m] = "whole"
  PROVE  Sound(u, q, tk)
<1>1. t.by \subseteq Calls /\ t.markers \subseteq Calls
  BY TreeOf
<1>2. \A c \in u.markers : q[c] \in Marks_ /\ tk[c].state # "running"
  BY <1>1 DEF Sound, Onward
<1>3. \A c \in u.by, d \in Calls, m \in Members : u.last[m] = {d} /\ d # c => Foreign(d, c, q)
  BY <1>1, ForeignOn DEF Sound
<1>4. \A c \in u.markers \ u.by : Crossed(c, q)
  BY <1>1, CrossedOn DEF Sound
<1>5. \A c \in u.by \cap u.markers, m \in Members :
        u.last[m] # {} /\ (u.last[m] = {c} => u.files[m] = "whole")
  BY DEF Sound
<1> QED
  BY <1>2, <1>3, <1>4, <1>5 DEF Sound

LEMMA NewTreesSound ==
  ASSUME NEW p, NEW th
  PROVE  /\ Sound(Local!NoTree, p, th)
         /\ \A c \in Calls : Sound(Local!EmptyTree(c), p, th)
<1>1. Sound(Local!NoTree, p, th)
  BY TreesOf DEF Sound
<1>2. ASSUME NEW c \in Calls PROVE Sound(Local!EmptyTree(c), p, th)
  BY TreesOf DEF Sound
<1> QED
  BY <1>1, <1>2

\* What a step of call c does to where calls are.
LEMMA GotoOf ==
  ASSUME LocalTypes, NEW c \in Calls, NEW p, Local!Goto(c, p)
  PROVE  caller'[c] = p /\ \A d \in Calls : d # c => caller'[d] = caller[d]
<1> QED
  BY DEF Local!Goto, LocalTypes

\* What the steps of a thread that is neither started nor moved do to threads.
LEMMA NextOnward ==
  ASSUME LocalTypes, [Local!Next]_(Local!vars)
  PROVE  Onward(caller, caller', unpacking, unpacking')
<1>1. ASSUME NEW c \in Calls, Local!Call(c) \/ Local!Look(c)
      PROVE  Onward(caller, caller', unpacking, unpacking')
  <2>1. /\ caller[c] \in {"idle", "waiting"} /\ UNCHANGED unpacking
        /\ caller'[c] \notin {"idle"} /\ (caller[c] = "idle" \/ caller'[c] # "waiting")
        /\ \A d \in Calls : d # c => caller'[d] = caller[d]
    BY <1>1, GotoOf DEF Local!Call, Local!Look
  <2> QED
    BY <2>1 DEF Onward, Marks_
<1>2. ASSUME NEW c \in Calls, Local!Clear(c)
      PROVE  Onward(caller, caller', unpacking, unpacking')
  <2>1. /\ caller[c] = "clearing" /\ caller'[c] = "extracting"
        /\ \A d \in Calls : d # c => caller'[d] = caller[d]
    BY <1>2, GotoOf DEF Local!Clear
  <2>2. \A d \in Calls : d # c => unpacking'[d].state = unpacking[d].state
    BY <1>2 DEF Local!Clear, LocalTypes, Local!Threads
  <2> QED
    BY <2>1, <2>2 DEF Onward, Marks_
<1>3. ASSUME NEW c \in Calls, Local!Fail(c) \/ Local!Install(c) \/ Local!Mark(c) \/ Local!Cancel(c)
      PROVE  Onward(caller, caller', unpacking, unpacking')
  <2>1. /\ caller[c] \in {"waiting", "extracting", "installing"}
        /\ caller'[c] \in {"installing", "returned", "failed"}
        /\ caller[c] = "waiting" => caller'[c] = "failed"
        /\ \A d \in Calls : d # c => caller'[d] = caller[d]
    BY <1>3, GotoOf DEF Local!Fail, Local!Install, Local!Mark, Local!Cancel
  <2>2. \A d \in Calls : unpacking'[d].state \in {unpacking[d].state, "none"}
    BY <1>3, MovedOf, TreesOf DEF Local!Fail, Local!Install, Local!Mark, Local!Cancel, LocalTypes
  <2> QED
    BY <2>1, <2>2 DEF Onward, Marks_
<1>4. ASSUME NEW c \in Calls, Local!Close(c) \/ Local!Unpacked(c) \/ \E m \in Members : Local!Open(c, m)
      PROVE  Onward(caller, caller', unpacking, unpacking')
  <2>1. UNCHANGED caller
    BY <1>4 DEF Local!Close, Local!Unpacked, Local!Open
  <2>2. \A d \in Calls : unpacking[d].state # "running" => unpacking'[d].state # "running"
    <3>1. CASE Local!Close(c)
      BY <3>1, CloseOf
    <3>2. CASE Local!Unpacked(c)
      BY <3>2 DEF Local!Unpacked, LocalTypes, Local!Threads
    <3>3. CASE \E m \in Members : Local!Open(c, m)
      BY <3>3, OpenOf
    <3> QED
      BY <1>4, <3>1, <3>2, <3>3
  <2> QED
    BY <2>1, <2>2 DEF Onward
<1>5. ASSUME NEW c \in Calls, Local!Crash(CallProcess[c])
      PROVE  Onward(caller, caller', unpacking, unpacking')
  <2>1. \A d \in Calls : /\ caller'[d] = caller[d] \/ (caller[d] # "idle" /\ caller'[d] = "failed")
                         /\ unpacking'[d].state \in {unpacking[d].state, "none"}
    BY <1>5, TreesOf DEF Local!Crash
  <2> QED
    BY <2>1 DEF Onward, Marks_
<1>6. CASE UNCHANGED Local!vars
  BY <1>6 DEF Local!vars, Onward
<1> QED
  BY <1>1, <1>2, <1>3, <1>4, <1>5, <1>6 DEF Local!Next

LEMMA NextExcluded ==
  ASSUME LocalTypes, Excluded, [Local!Next]_(Local!vars)
  PROVE  Excluded'
<1>1. ASSUME NEW c \in Calls, \A d \in Calls : d # c => caller'[d] = caller[d],
             \/ caller'[c] \notin Local!Locked \/ caller[c] \in Local!Locked
             \/ \A d \in Calls : CallProcess[d] = CallProcess[c] => caller[d] \notin Local!Locked
      PROVE  Excluded'
  <2> SUFFICES ASSUME NEW d \in Calls, NEW e \in Calls, caller'[d] \in Local!Locked,
                      caller'[e] \in Local!Locked, CallProcess[d] = CallProcess[e], d # e
               PROVE  FALSE
    BY DEF Excluded
  <2>1. caller[d] \in Local!Locked /\ caller[e] \in Local!Locked => FALSE
    BY DEF Excluded
  <2> QED
    BY <1>1, <2>1
<1>2. ASSUME NEW c \in Calls, \/ Local!Call(c) \/ Local!Look(c) \/ Local!Clear(c) \/ Local!Fail(c)
                              \/ Local!Mark(c) \/ Local!Install(c) \/ Local!Cancel(c)
      PROVE  Excluded'
  <2>1. \A d \in Calls : d # c => caller'[d] = caller[d]
    BY <1>2, GotoOf DEF Local!Call, Local!Look, Local!Clear, Local!Fail, Local!Mark,
                        Local!Install, Local!Cancel
  <2>2. \/ caller'[c] \notin Local!Locked \/ caller[c] \in Local!Locked
        \/ \A d \in Calls : CallProcess[d] = CallProcess[c] => caller[d] \notin Local!Locked
    BY <1>2, GotoOf DEF Local!Call, Local!Look, Local!Free, Local!Clear, Local!Fail, Local!Mark,
                        Local!Install, Local!Cancel, Local!Locked
  <2> QED
    BY <1>1, <2>1, <2>2
<1>3. CASE UNCHANGED caller
  BY <1>3 DEF Excluded
<1>4. ASSUME NEW c \in Calls, Local!Crash(CallProcess[c])
      PROVE  Excluded'
  <2>1. \A d \in Calls : caller'[d] = caller[d] \/ caller'[d] = "failed"
    BY <1>4 DEF Local!Crash
  <2>2. \A d \in Calls : caller'[d] \in Local!Locked => caller[d] \in Local!Locked
    BY <2>1 DEF Local!Locked
  <2> QED
    BY <2>2 DEF Excluded
<1> QED
  BY <1>2, <1>3, <1>4 DEF Local!Next, Local!Close, Local!Unpacked, Local!Open, Local!vars

\* A step that takes at most threads away.
LEMMA FewerWorkers ==
  ASSUME Workers, \A d \in Calls :
           /\ \/ unpacking'[d] = Local!NoThread /\ caller'[d] # "installing"
              \/ /\ unpacking'[d].state = unpacking[d].state
                 /\ unpacking'[d].written = unpacking[d].written
                 /\ unpacking'[d].open = unpacking[d].open
           /\ unpacking'[d].state = "running" => caller'[d] \in {caller[d], "failed"}
           /\ caller'[d] = "installing" => caller[d] = "installing" \/ unpacking[d].state = "done"
  PROVE  Workers'
<1> QED
  BY TreesOf DEF Workers

LEMMA NextWorkers ==
  ASSUME LocalTypes, Workers, [Local!Next]_(Local!vars)
  PROVE  Workers'
<1>1. ASSUME NEW c \in Calls, Local!Call(c) \/ Local!Look(c) \/ Local!Mark(c)
      PROVE  Workers'
  <2>1. /\ UNCHANGED unpacking /\ \A d \in Calls : d # c => caller'[d] = caller[d]
        /\ caller'[c] = "installing" => unpacking[c].state = "done"
        /\ unpacking[c].state # "running"
    BY <1>1, GotoOf DEF Local!Call, Local!Look, Local!Mark, Local!MarksAfter, Workers
  <2> QED
    BY <2>1, FewerWorkers
<1>2. ASSUME NEW c \in Calls, Local!Clear(c)
      PROVE  Workers'
  <2>1. caller'[c] = "extracting" /\ \A d \in Calls : d # c => caller'[d] = caller[d]
    BY <1>2, GotoOf DEF Local!Clear
  <2>2. /\ unpacking'[c].state = "running" /\ unpacking'[c].written = {}
        /\ unpacking'[c].open = NoFile
        /\ \A d \in Calls : d # c => /\ unpacking'[d].state = unpacking[d].state
                                     /\ unpacking'[d].written = unpacking[d].written
                                     /\ unpacking'[d].open = unpacking[d].open
    BY <1>2 DEF Local!Clear, LocalTypes, Local!Threads, Local!NoThread
  <2> QED
    BY <2>1, <2>2 DEF Workers
<1>3. ASSUME NEW c \in Calls, Local!Fail(c) \/ Local!Install(c) \/ Local!Cancel(c)
      PROVE  Workers'
  <2>1. /\ caller'[c] \in {"returned", "failed"} /\ \A d \in Calls : d # c => caller'[d] = caller[d]
        /\ caller'[c] = "returned" => caller[c] = "installing"
    BY <1>3, GotoOf DEF Local!Fail, Local!Install, Local!Cancel
  <2>2. \A d \in Calls : \/ unpacking'[d] = Local!NoThread /\ d = c
                         \/ /\ unpacking'[d].state = unpacking[d].state
                            /\ unpacking'[d].written = unpacking[d].written
                            /\ unpacking'[d].open = unpacking[d].open
    BY <1>3, MovedOf DEF Local!Fail, Local!Install, Local!Cancel, LocalTypes
  <2>3. caller'[c] = "returned" => unpacking'[c].state # "running"
    BY <2>1, <2>2, TreesOf DEF Workers
  <2> QED
    BY <2>1, <2>2, <2>3, FewerWorkers
<1>4. ASSUME NEW c \in Calls, Local!Close(c)
      PROVE  Workers'
  <2>1. UNCHANGED caller /\ unpacking[c].state = "running"
    BY <1>4 DEF Local!Close, Workers
  <2> QED
    BY <1>4, <2>1, CloseOf DEF Workers
<1>5. ASSUME NEW c \in Calls, NEW m \in Members, Local!Open(c, m)
      PROVE  Workers'
  <2>1. UNCHANGED caller /\ unpacking[c].state = "running" /\ m \notin unpacking[c].written
    BY <1>5 DEF Local!Open
  <2> QED
    BY <1>5, <2>1, OpenOf DEF Workers
<1>6. ASSUME NEW c \in Calls, Local!Unpacked(c)
      PROVE  Workers'
  <2>1. UNCHANGED caller /\ unpacking[c].state = "running"
    BY <1>6 DEF Local!Unpacked
  <2>2. \/ /\ unpacking'[c].state = "done" /\ unpacking'[c].written = Members
           /\ unpacking'[c].open = unpacking[c].open /\ unpacking[c].written = Members
        \/ unpacking'[c].state = "failed" /\ unpacking'[c].open = NoFile
    BY <1>6, ThreadOf DEF Local!Unpacked, LocalTypes, Local!Threads
  <2>3. \A d \in Calls : d # c => unpacking'[d] = unpacking[d]
    BY <1>6 DEF Local!Unpacked, LocalTypes
  <2>4. unpacking[c].written = Members => unpacking[c].open = NoFile
    BY ThreadOf DEF Workers
  <2> QED
    BY <2>1, <2>2, <2>3, <2>4 DEF Workers
<1>7. ASSUME NEW c \in Calls, Local!Crash(CallProcess[c])
      PROVE  Workers'
  <2>1. \A d \in Calls : \/ caller'[d] # "installing" /\ unpacking'[d] = Local!NoThread
                         \/ caller'[d] = caller[d] /\ unpacking'[d] = unpacking[d]
    BY <1>7 DEF Local!Crash, LocalTypes, Local!PCs
  <2> QED
    BY <2>1, TreesOf, FewerWorkers
<1>8. CASE UNCHANGED Local!vars
  BY <1>8 DEF Local!vars, Workers
<1> QED
  BY <1>1, <1>2, <1>3, <1>4, <1>5, <1>6, <1>7, <1>8 DEF Local!Next

\* A step that leaves the staging tree alone, and whoever is at work there has been.
LEMMA OwnedOn ==
  ASSUME Owned, Onward(caller, caller', unpacking, unpacking'), UNCHANGED staging,
         \A c \in Calls : caller'[c] \in Unpacks =>
           /\ caller[c] \in Unpacks
           /\ unpacking'[c].written = unpacking[c].written
           /\ \/ unpacking'[c].open = NoFile
              \/ unpacking'[c].open = unpacking[c].open /\ unpacking'[c].at = unpacking[c].at
  PROVE  Owned'
<1> SUFFICES ASSUME NEW c \in Calls, caller'[c] \in Unpacks
             PROVE  /\ c \notin staging'.by => Crossed(c, caller')
                    /\ \A d \in staging'.by : CallProcess[d] = CallProcess[c] => d = c
                    /\ c \in staging'.by =>
                         /\ unpacking'[c].open # NoFile =>
                              /\ unpacking'[c].at = "staging"
                              /\ staging'.last[unpacking'[c].open] # {}
                         /\ \A m \in unpacking'[c].written : OwnFile(c, m)'
  BY DEF Owned
<1>1. caller[c] \in Unpacks
  OBVIOUS
<1>2. c \notin staging'.by => Crossed(c, caller')
  BY <1>1, CrossedOn DEF Owned
<1>3. \A m \in unpacking'[c].written : OwnFile(c, m) => OwnFile(c, m)'
  BY DEF OwnFile
<1> QED
  BY <1>1, <1>2, <1>3 DEF Owned

\* A step of c, at work itself, that takes the staging tree away or makes it its own.
LEMMA OwnedNot ==
  ASSUME LocalTypes, Excluded, NEW c \in Calls, caller[c] \in Local!Locked,
         caller'[c] \notin {"idle", "waiting"},
         \A d \in Calls : d # c => caller'[d] = caller[d],
         staging'.by \subseteq {c}
  PROVE  \A e \in Calls : e # c /\ caller'[e] \in Unpacks =>
           /\ e \notin staging'.by /\ Crossed(e, caller')
           /\ \A d \in staging'.by : CallProcess[d] # CallProcess[e]
<1> SUFFICES ASSUME NEW e \in Calls, e # c, caller'[e] \in Unpacks
             PROVE  /\ e \notin staging'.by /\ Crossed(e, caller')
                    /\ \A d \in staging'.by : CallProcess[d] # CallProcess[e]
  OBVIOUS
<1>1. CallProcess[e] # CallProcess[c]
  BY DEF Excluded, Local!Locked, Unpacks
<1> QED
  BY <1>1 DEF Crossed

LEMMA MarkOwned ==
  ASSUME LocalTypes, LocalInv, NEW c \in Calls, Local!Mark(c)
  PROVE  Owned' /\ Sound(staging, caller, unpacking)'
<1>1. /\ caller[c] = "extracting" /\ unpacking[c].state = "done" /\ UNCHANGED unpacking
      /\ unpacking[c].written = Members /\ caller'[c] \in {"installing", "failed"}
      /\ \A d \in Calls : d # c => caller'[d] = caller[d]
      /\ Onward(caller, caller', unpacking, unpacking')
  BY GotoOf, NextOnward DEF Local!Mark, Local!MarksAfter, Local!Next, LocalInv, Workers
<1>2. CASE UNCHANGED staging
  <2>1. Owned'
    BY <1>1, <1>2, OwnedOn DEF Unpacks, LocalInv
  <2>2. Sound(staging', caller', unpacking')
    BY <1>1, <1>2, SoundOn DEF LocalInv, LocalTypes
  <2> QED
    BY <2>1, <2>2
<1>3. CASE /\ staging' = [staging EXCEPT !.markers = @ \cup {c}]
           /\ staging.there /\ caller'[c] = "installing"
  <2>1. /\ staging'.markers = staging.markers \cup {c} /\ staging'.there
        /\ staging'.files = staging.files /\ staging'.last = staging.last
        /\ staging'.by = staging.by /\ staging.by \subseteq Calls
        /\ staging.markers \subseteq Calls
    BY <1>3, MarkOf, TreeOf DEF LocalTypes
  <2>2. \A d \in Calls : Crossed(d, caller) => Crossed(d, caller')
    BY <1>1, CrossedOn
  <2>3. \A d \in Calls : caller'[d] \in Unpacks => caller[d] \in Unpacks
    BY <1>1 DEF Unpacks
  <2>4. \A d \in Calls, m \in Members : OwnFile(d, m) => OwnFile(d, m)'
    BY <2>1 DEF OwnFile
  <2>5. \A d \in Calls : unpacking[d].written \subseteq Members
    BY ThreadOf
  <2>6. Owned'
    <3> SUFFICES ASSUME NEW d \in Calls, caller'[d] \in Unpacks
                 PROVE  /\ d \notin staging'.by => Crossed(d, caller')
                        /\ \A e \in staging'.by : CallProcess[e] = CallProcess[d] => e = d
                        /\ d \in staging'.by =>
                             /\ unpacking'[d].open # NoFile =>
                                  /\ unpacking'[d].at = "staging"
                                  /\ staging'.last[unpacking'[d].open] # {}
                             /\ \A m \in unpacking'[d].written : OwnFile(d, m)'
      BY DEF Owned
    <3>1. /\ d \notin staging.by => Crossed(d, caller)
          /\ \A e \in staging.by : CallProcess[e] = CallProcess[d] => e = d
          /\ d \in staging.by =>
               /\ unpacking[d].open # NoFile => /\ unpacking[d].at = "staging"
                                                /\ staging.last[unpacking[d].open] # {}
               /\ \A m \in unpacking[d].written : OwnFile(d, m)
      BY <2>3 DEF Owned, LocalInv
    <3> QED
      BY <1>1, <2>1, <2>2, <2>4, <2>5, <3>1
  <2>7. \A d \in staging'.markers : caller'[d] \in Marks_ /\ unpacking'[d].state # "running"
    BY <1>1, <1>3, <2>1 DEF LocalInv, Sound, Onward, Marks_
  <2>8. \A e \in staging'.by, d \in Calls, m \in Members :
          staging'.last[m] = {d} /\ d # e => Foreign(d, e, caller')
    BY <1>1, <2>1, ForeignOn DEF LocalInv, Sound
  <2>9. \A e \in staging'.by \cap staging'.markers, m \in Members :
          staging'.last[m] # {} /\ (staging'.last[m] = {e} => staging'.files[m] = "whole")
    <3>1. c \in staging.by => \A m \in Members : OwnFile(c, m)
      BY <1>1 DEF LocalInv, Owned, Unpacks
    <3> QED
      BY <2>1, <3>1 DEF LocalInv, Sound, OwnFile
  <2>10. \A e \in staging'.markers \ staging'.by : Crossed(e, caller')
    BY <1>1, <2>1, <2>2 DEF LocalInv, Sound, Owned, Unpacks
  <2> QED
    BY <2>1, <2>6, <2>7, <2>8, <2>9, <2>10 DEF Sound
<1> QED
  BY <1>2, <1>3 DEF Local!Mark, Local!Goto, LocalTypes

LEMMA ClearOwned ==
  ASSUME LocalTypes, LocalInv, NEW c \in Calls, Local!Clear(c)
  PROVE  Owned' /\ Sound(staging, caller, unpacking)'
<1>1. /\ caller[c] = "clearing" /\ caller'[c] = "extracting"
      /\ \A d \in Calls : d # c => caller'[d] = caller[d]
      /\ staging' = Local!EmptyTree(c)
  BY GotoOf DEF Local!Clear
<1>2. /\ unpacking'[c].written = {} /\ unpacking'[c].open = NoFile
  BY DEF Local!Clear, LocalTypes, Local!Threads, Local!NoThread
<1>3. staging'.by = {c}
  BY <1>1, TreesOf
<1>4. \A e \in Calls : e # c /\ caller'[e] \in Unpacks =>
           /\ e \notin staging'.by /\ Crossed(e, caller')
           /\ \A d \in staging'.by : CallProcess[d] # CallProcess[e]
  BY <1>1, <1>3, OwnedNot DEF LocalInv, Local!Locked
<1>5. Owned'
  BY <1>2, <1>3, <1>4 DEF Owned
<1>6. Sound(staging', caller', unpacking')
  BY <1>1, NewTreesSound
<1> QED
  BY <1>5, <1>6

\* The staging tree is removed, or renamed.
LEMMA GoneOwned ==
  ASSUME LocalTypes, LocalInv, NEW c \in Calls, caller[c] \in Unpacks, caller'[c] \in {"returned", "failed"},
         \A d \in Calls : d # c => caller'[d] = caller[d],
         staging' = Local!NoTree
  PROVE  Owned' /\ Sound(staging, caller, unpacking)'
<1>1. staging'.by = {} /\ c \notin staging'.by
  BY TreesOf
<1>2. \A e \in Calls : e # c /\ caller'[e] \in Unpacks => Crossed(e, caller')
  BY <1>1, OwnedNot DEF LocalInv, Local!Locked, Unpacks
<1>3. caller'[c] \notin Unpacks
  BY DEF Unpacks
<1>4. Owned'
  BY <1>1, <1>2, <1>3 DEF Owned
<1>5. Sound(staging', caller', unpacking')
  BY NewTreesSound
<1> QED
  BY <1>4, <1>5

LEMMA OpenOwned ==
  ASSUME LocalTypes, LocalInv, NEW c \in Calls, NEW m \in Members, Local!Open(c, m)
  PROVE  Owned' /\ Sound(staging, caller, unpacking)'
<1>1. /\ unpacking[c].state = "running" /\ m \notin unpacking[c].written
      /\ UNCHANGED caller /\ caller[c] \in {"extracting", "failed"}
  BY DEF Local!Open, LocalInv, Workers
<1>2. /\ staging'.by = staging.by /\ staging'.markers = staging.markers /\ staging'.there
      /\ \A n \in Members : /\ staging'.files[n] = IF n = m THEN "cut" ELSE staging.files[n]
                            /\ staging'.last[n] = IF n = m THEN {c} ELSE staging.last[n]
      /\ staging.by \subseteq Calls /\ staging.markers \subseteq Calls
  <2>1. staging \in Trees
    BY DEF LocalTypes
  <2>3. staging' = [staging EXCEPT !.files[m] = "cut", !.last[m] = {c}, !.there = TRUE]
    BY DEF Local!Open
  <2>2. staging.by \subseteq Calls /\ staging.markers \subseteq Calls
    BY <2>1, TreeOf
  <2>4. /\ staging'.by = staging.by /\ staging'.markers = staging.markers /\ staging'.there
        /\ staging'.files = [staging.files EXCEPT ![m] = "cut"]
        /\ staging'.last = [staging.last EXCEPT ![m] = {c}]
    BY <2>1, <2>3 DEF Trees
  <2>5. \A n \in Members : /\ staging'.files[n] = IF n = m THEN "cut" ELSE staging.files[n]
                           /\ staging'.last[n] = IF n = m THEN {c} ELSE staging.last[n]
    <3>1. staging.files \in Files /\ staging.last \in [Members -> Truncated]
      BY <2>1, TreeOf
    <3> QED
      BY <2>4, <3>1 DEF Files
  <2> QED
    BY <2>2, <2>4, <2>5
<1>3. /\ unpacking'[c].state = "running" /\ unpacking'[c].written = unpacking[c].written
      /\ unpacking'[c].open = m /\ unpacking'[c].at = "staging"
      /\ \A d \in Calls : d # c => unpacking'[d] = unpacking[d]
  BY <1>1, OpenOf
<1>4. \A d \in Calls : /\ unpacking[d].written \subseteq Members
                       /\ unpacking[d].open \in Members \cup {NoFile}
  BY ThreadOf
<1>5. ASSUME NEW d \in Calls, NEW n \in unpacking[d].written, OwnFile(d, n)
      PROVE  OwnFile(d, n)'
  BY <1>1, <1>2, <1>4, <1>5 DEF OwnFile
<1>6. ASSUME NEW d \in Calls, caller[d] \in Unpacks
      PROVE  /\ d \notin staging'.by => Crossed(d, caller')
             /\ \A e \in staging'.by : CallProcess[e] = CallProcess[d] => e = d
             /\ d \in staging'.by =>
                  /\ unpacking'[d].open # NoFile => /\ unpacking'[d].at = "staging"
                                                    /\ staging'.last[unpacking'[d].open] # {}
                  /\ \A n \in unpacking'[d].written : OwnFile(d, n)'
  <2>1. /\ d \notin staging.by => Crossed(d, caller)
        /\ \A e \in staging.by : CallProcess[e] = CallProcess[d] => e = d
        /\ d \in staging.by =>
             /\ unpacking[d].open # NoFile => /\ unpacking[d].at = "staging"
                                              /\ staging.last[unpacking[d].open] # {}
             /\ \A n \in unpacking[d].written : OwnFile(d, n)
    BY <1>6 DEF LocalInv, Owned
  <2>2. d \in staging'.by /\ unpacking'[d].open # NoFile =>
          unpacking'[d].at = "staging" /\ staging'.last[unpacking'[d].open] # {}
    BY <1>2, <1>3, <1>4, <2>1
  <2>3. d \in staging'.by => \A n \in unpacking'[d].written : OwnFile(d, n)'
    BY <1>2, <1>3, <1>5, <2>1
  <2> QED
    BY <1>1, <1>2, <2>1, <2>2, <2>3
<1>7. Owned'
  BY <1>1, <1>6 DEF Owned
<1>8. c \notin staging.markers
  BY <1>1 DEF LocalInv, Sound
<1>9. \A d \in staging'.markers : caller'[d] \in Marks_ /\ unpacking'[d].state # "running"
  BY <1>1, <1>2, <1>3, <1>8 DEF LocalInv, Sound
<1>10. ASSUME NEW e \in staging'.by, NEW d \in Calls, NEW n \in Members,
              staging'.last[n] = {d}, d # e
       PROVE  Foreign(d, e, caller')
  <2>1. CASE n # m
    BY <1>1, <1>2, <1>10, <2>1 DEF LocalInv, Sound
  <2>2. CASE n = m
    <3>1. d = c
      BY <1>2, <1>10, <2>2
    <3>2. caller[c] = "extracting" => CallProcess[c] # CallProcess[e]
      BY <1>2, <1>10, <3>1 DEF LocalInv, Owned, Unpacks
    <3> QED
      BY <1>1, <1>10, <3>1, <3>2 DEF Foreign
  <2> QED
    BY <2>1, <2>2
<1>11. \A e \in staging'.by \cap staging'.markers, n \in Members :
         staging'.last[n] # {} /\ (staging'.last[n] = {e} => staging'.files[n] = "whole")
  BY <1>2, <1>8 DEF LocalInv, Sound
<1>12. \A e \in staging'.markers \ staging'.by : Crossed(e, caller')
  BY <1>1, <1>2 DEF LocalInv, Sound
<1> QED
  BY <1>2, <1>7, <1>9, <1>10, <1>11, <1>12 DEF Sound

LEMMA CloseOwned ==
  ASSUME LocalTypes, LocalInv, NEW c \in Calls, Local!Close(c)
  PROVE  /\ Owned' /\ Sound(staging, caller, unpacking)' /\ Sound(destination, caller, unpacking)'
         /\ destination'.markers = destination.markers
<1>0. PICK m \in Members : m = unpacking[c].open
  BY CloseOf
<1>1. /\ m # NoFile /\ UNCHANGED caller /\ Onward(caller, caller', unpacking, unpacking')
      /\ staging \in Trees /\ destination \in Trees
      /\ staging' \in Trees /\ destination' \in Trees
  BY <1>0, PlacesAssumption, NextOnward, NextLocalTypes DEF Local!Close, LocalTypes, Local!Next
<1>2. /\ staging'.by = staging.by /\ staging'.markers = staging.markers
      /\ staging'.there = staging.there /\ staging'.last = staging.last
      /\ \A n \in Members : staging'.files[n] = staging.files[n] \/ staging'.files[n] = "whole"
      /\ unpacking[c].at = "staging" /\ staging.last[m] = {c} => staging'.files[m] = "whole"
  <2>1. staging' = IF unpacking[c].at = "staging" THEN Local!Written(staging, c, m) ELSE staging
    BY <1>0 DEF Local!Close
  <2> QED
    BY <1>1, <2>1, WrittenOf
<1>3. /\ destination'.by = destination.by /\ destination'.markers = destination.markers
      /\ destination'.there = destination.there /\ destination'.last = destination.last
      /\ \A n \in Members : destination'.files[n] = destination.files[n]
                              \/ destination'.files[n] = "whole"
  <2>1. destination' = IF unpacking[c].at = "destination"
                       THEN Local!Written(destination, c, m) ELSE destination
    BY <1>0 DEF Local!Close
  <2> QED
    BY <1>1, <2>1, WrittenOf
<1>4. Sound(staging', caller', unpacking') /\ Sound(destination', caller', unpacking')
  BY <1>1, <1>2, <1>3, SoundOn DEF LocalInv
<1>5. /\ unpacking'[c].written = unpacking[c].written \cup {m} /\ unpacking'[c].open = NoFile
      /\ \A d \in Calls : d # c => unpacking'[d] = unpacking[d]
      /\ \A d \in Calls : unpacking[d].written \subseteq Members
  BY <1>0, CloseOf, ThreadOf
<1>6. \A d \in Calls, n \in Members : OwnFile(d, n) => OwnFile(d, n)'
  BY <1>2 DEF OwnFile
<1>7. ASSUME NEW d \in Calls, caller[d] \in Unpacks
      PROVE  /\ d \notin staging'.by => Crossed(d, caller')
             /\ \A e \in staging'.by : CallProcess[e] = CallProcess[d] => e = d
             /\ d \in staging'.by =>
                  /\ unpacking'[d].open # NoFile => /\ unpacking'[d].at = "staging"
                                                    /\ staging'.last[unpacking'[d].open] # {}
                  /\ \A n \in unpacking'[d].written : OwnFile(d, n)'
  <2>1. /\ d \notin staging.by => Crossed(d, caller)
        /\ \A e \in staging.by : CallProcess[e] = CallProcess[d] => e = d
        /\ d \in staging.by =>
             /\ unpacking[d].open # NoFile => /\ unpacking[d].at = "staging"
                                              /\ staging.last[unpacking[d].open] # {}
             /\ \A n \in unpacking[d].written : OwnFile(d, n)
    BY <1>7 DEF LocalInv, Owned
  <2>2. d = c /\ d \in staging.by => OwnFile(c, m)'
    BY <1>0, <1>1, <1>2, <2>1 DEF OwnFile
  <2>3. d \in staging.by => \A n \in unpacking'[d].written : OwnFile(d, n)'
    BY <1>5, <1>6, <2>1, <2>2
  <2>4. d \in staging.by /\ unpacking'[d].open # NoFile =>
          unpacking'[d].at = "staging" /\ staging'.last[unpacking'[d].open] # {}
    BY <1>2, <1>5, <2>1
  <2> QED
    BY <1>1, <1>2, <2>1, <2>3, <2>4
<1>8. Owned'
  BY <1>1, <1>7 DEF Owned
<1> QED
  BY <1>3, <1>4, <1>8

LEMMA NextSurprised ==
  ASSUME LocalTypes, LocalInv, [Local!Next]_(Local!vars)
  PROVE  Surprised'
<1>0. \A c \in Calls : Crossed(c, caller) => Crossed(c, caller')
  BY NextOnward, CrossedOn
<1>1. ASSUME destination'.markers = destination.markers,
             \A c \in Calls : caller'[c] = "clearing" => caller[c] = "clearing"
      PROVE  Surprised'
  BY <1>0, <1>1 DEF LocalInv, Surprised
<1>2. ASSUME NEW c \in Calls, Local!Call(c) \/ Local!Fail(c) \/ Local!Mark(c) \/ Local!Cancel(c)
      PROVE  Surprised'
  <2>1. UNCHANGED destination /\ \A d \in Calls : d # c => caller'[d] = caller[d]
    BY <1>2, GotoOf DEF Local!Call, Local!Fail, Local!Mark, Local!Cancel
  <2>2. caller'[c] # "clearing"
    BY <1>2, GotoOf DEF Local!Call, Local!Fail, Local!Mark, Local!Cancel
  <2> QED
    BY <1>1, <2>1, <2>2
<1>3. ASSUME NEW c \in Calls, Local!Look(c)
      PROVE  Surprised'
  <2>1. /\ UNCHANGED destination /\ \A d \in Calls : d # c => caller'[d] = caller[d]
        /\ destination.markers # {} => caller'[c] = "returned"
    BY <1>3, GotoOf DEF Local!Look, Local!Marked
  <2> QED
    BY <1>0, <2>1 DEF LocalInv, Surprised
<1>4. ASSUME NEW c \in Calls, Local!Clear(c)
      PROVE  Surprised'
  BY <1>4, TreesOf DEF Local!Clear, Surprised
<1>5. ASSUME NEW c \in Calls, Local!Install(c)
      PROVE  Surprised'
  <2>1. /\ caller[c] = "installing" /\ caller'[c] \in {"returned", "failed"}
        /\ \A d \in Calls : d # c => caller'[d] = caller[d]
    BY <1>5, GotoOf DEF Local!Install
  <2>2. ASSUME NEW d \in Calls, caller'[d] = "clearing"
        PROVE  Crossed(d, caller')
    <3>1. d # c /\ caller[d] = "clearing"
      BY <2>1, <2>2
    <3>2. CallProcess[d] # CallProcess[c]
      BY <2>1, <3>1 DEF LocalInv, Excluded, Local!Locked
    <3> QED
      BY <2>1, <3>2 DEF Crossed
  <2> QED
    BY <2>2 DEF Surprised
<1>6. ASSUME NEW c \in Calls, Local!Close(c)
      PROVE  Surprised'
  BY <1>1, <1>6, CloseOwned DEF Local!Close
<1>7. ASSUME NEW c \in Calls, Local!Unpacked(c) \/ \E m \in Members : Local!Open(c, m)
      PROVE  Surprised'
  BY <1>1, <1>7 DEF Local!Unpacked, Local!Open
<1>8. ASSUME NEW c \in Calls, Local!Crash(CallProcess[c])
      PROVE  Surprised'
  <2>1. UNCHANGED destination /\ \A d \in Calls : caller'[d] \in {caller[d], "failed"}
    BY <1>8 DEF Local!Crash
  <2> QED
    BY <1>1, <2>1
<1>9. CASE UNCHANGED Local!vars
  BY <1>1, <1>9 DEF Local!vars
<1> QED
  BY <1>2, <1>3, <1>4, <1>5, <1>6, <1>7, <1>8, <1>9 DEF Local!Next

LEMMA NextTrees ==
  ASSUME LocalTypes, LocalInv, [Local!Next]_(Local!vars)
  PROVE  Owned' /\ Sound(staging, caller, unpacking)' /\ Sound(destination, caller, unpacking)'
<1>0. /\ Onward(caller, caller', unpacking, unpacking')
      /\ staging \in Trees /\ destination \in Trees
  BY NextOnward DEF LocalTypes
<1>1. UNCHANGED destination => Sound(destination', caller', unpacking')
  BY <1>0, SoundOn DEF LocalInv
<1>2. UNCHANGED staging => Sound(staging', caller', unpacking')
  BY <1>0, SoundOn DEF LocalInv
<1>3. ASSUME NEW c \in Calls, Local!Call(c) \/ Local!Look(c) \/ Local!Cancel(c)
      PROVE  Owned' /\ Sound(staging, caller, unpacking)' /\ Sound(destination, caller, unpacking)'
  <2>1. /\ UNCHANGED <<staging, destination>> /\ caller'[c] \notin Unpacks
        /\ \A d \in Calls : d # c => caller'[d] = caller[d] /\ unpacking'[d] = unpacking[d]
    BY <1>3, GotoOf DEF Local!Call, Local!Look, Local!Cancel, Unpacks, LocalTypes
  <2>2. Owned'
    BY <1>0, <2>1, OwnedOn DEF LocalInv
  <2> QED
    BY <1>1, <1>2, <2>1, <2>2
<1>4. ASSUME NEW c \in Calls, Local!Clear(c)
      PROVE  Owned' /\ Sound(staging, caller, unpacking)' /\ Sound(destination, caller, unpacking)'
  <2>1. Sound(destination', caller', unpacking')
    BY <1>4, NewTreesSound DEF Local!Clear
  <2> QED
    BY <1>4, <2>1, ClearOwned
<1>5. ASSUME NEW c \in Calls, Local!Fail(c)
      PROVE  Owned' /\ Sound(staging, caller, unpacking)' /\ Sound(destination, caller, unpacking)'
  <2>1. /\ caller[c] \in Unpacks /\ caller'[c] = "failed" /\ staging' = Local!NoTree
        /\ UNCHANGED destination /\ \A d \in Calls : d # c => caller'[d] = caller[d]
    BY <1>5, GotoOf DEF Local!Fail, Unpacks
  <2> QED
    BY <1>1, <2>1, GoneOwned
<1>6. ASSUME NEW c \in Calls, Local!Mark(c)
      PROVE  Owned' /\ Sound(staging, caller, unpacking)' /\ Sound(destination, caller, unpacking)'
  BY <1>1, <1>6, MarkOwned DEF Local!Mark
<1>7. ASSUME NEW c \in Calls, Local!Install(c)
      PROVE  Owned' /\ Sound(staging, caller, unpacking)' /\ Sound(destination, caller, unpacking)'
  <2>1. /\ caller[c] \in Unpacks /\ caller'[c] \in {"returned", "failed"}
        /\ \A d \in Calls : d # c => caller'[d] = caller[d]
    BY <1>7, GotoOf DEF Local!Install, Unpacks
  <2>2. CASE UNCHANGED <<staging, destination, unpacking>>
    <3>1. Owned'
      BY <1>0, <2>1, <2>2, OwnedOn DEF LocalInv, Unpacks
    <3> QED
      BY <1>1, <1>2, <2>2, <3>1
  <2>3. CASE destination' = staging /\ staging' = Local!NoTree
    <3>1. Sound(staging, caller', unpacking')
      BY <1>0, SoundOn DEF LocalInv
    <3>2. Sound(destination', caller', unpacking')
      BY <2>3, <3>1
    <3> QED
      BY <2>1, <2>3, <3>2, GoneOwned
  <2> QED
    BY <1>7, <2>2, <2>3 DEF Local!Install
<1>8. ASSUME NEW c \in Calls, Local!Unpacked(c)
      PROVE  Owned' /\ Sound(staging, caller, unpacking)' /\ Sound(destination, caller, unpacking)'
  <2>1. /\ UNCHANGED <<staging, destination, caller>>
        /\ \A d \in Calls : d # c => unpacking'[d] = unpacking[d]
        /\ unpacking'[c].written = unpacking[c].written
        /\ \/ unpacking'[c].open = NoFile
           \/ unpacking'[c].open = unpacking[c].open /\ unpacking'[c].at = unpacking[c].at
    BY <1>8 DEF Local!Unpacked, LocalTypes, Local!Threads
  <2>2. Owned'
    BY <1>0, <2>1, OwnedOn DEF LocalInv
  <2> QED
    BY <1>1, <1>2, <2>1, <2>2
<1>9. ASSUME NEW c \in Calls, NEW m \in Members, Local!Open(c, m)
      PROVE  Owned' /\ Sound(staging, caller, unpacking)' /\ Sound(destination, caller, unpacking)'
  BY <1>1, <1>9, OpenOwned DEF Local!Open
<1>10. ASSUME NEW c \in Calls, Local!Crash(CallProcess[c])
       PROVE  Owned' /\ Sound(staging, caller, unpacking)' /\ Sound(destination, caller, unpacking)'
  <2>1. /\ UNCHANGED <<staging, destination>>
        /\ \A d \in Calls : \/ caller'[d] \notin Unpacks
                            \/ caller'[d] = caller[d] /\ unpacking'[d] = unpacking[d]
    BY <1>10 DEF Local!Crash, LocalTypes, Local!PCs, Unpacks
  <2>2. Owned'
    BY <1>0, <2>1, OwnedOn DEF LocalInv
  <2> QED
    BY <1>1, <1>2, <2>1, <2>2
<1>11. CASE UNCHANGED Local!vars
  <2>1. UNCHANGED <<staging, destination, caller, unpacking>>
    BY <1>11 DEF Local!vars
  <2>2. Owned'
    BY <1>0, <2>1, OwnedOn DEF LocalInv
  <2> QED
    BY <1>1, <1>2, <2>1, <2>2
<1> QED
  BY <1>3, <1>4, <1>5, <1>6, <1>7, <1>8, <1>9, <1>10, <1>11, CloseOwned DEF Local!Next

LEMMA NextLocalInv ==
  ASSUME LocalTypes, LocalInv, [Local!Next]_(Local!vars)
  PROVE  LocalInv'
<1>1. Excluded' /\ Workers'
  BY NextExcluded, NextWorkers DEF LocalInv
<1>2. Surprised'
  BY NextSurprised
<1>3. Owned' /\ Sound(staging, caller, unpacking)' /\ Sound(destination, caller, unpacking)'
  BY NextTrees
<1> QED
  BY <1>1, <1>2, <1>3 DEF LocalInv

LEMMA InitLocalInv == Local!Init => LocalInv
<1> SUFFICES ASSUME Local!Init PROVE LocalInv
  OBVIOUS
<1>1. /\ staging = Local!NoTree /\ destination = Local!NoTree
      /\ \A c \in Calls : caller[c] = "idle" /\ unpacking[c] = Local!NoThread
  BY DEF Local!Init
<1>2. Sound(staging, caller, unpacking) /\ Sound(destination, caller, unpacking)
  BY <1>1, NewTreesSound
<1>3. Excluded /\ Workers /\ Owned /\ Surprised
  BY <1>1, TreesOf DEF Excluded, Local!Locked, Workers, Owned, Unpacks, Surprised
<1> QED
  BY <1>2, <1>3 DEF LocalInv

LEMMA LocalInvariance == MCSpec => [](LocalTypes /\ LocalInv)
<1>1. MCInit => LocalTypes /\ LocalInv
  BY InitLocalTypes, InitLocalInv DEF MCInit
<1>2. LocalTypes /\ LocalInv /\ [MCNext]_allVars => LocalTypes' /\ LocalInv'
  BY LocalSteps, NextLocalTypes, NextLocalInv
<1> QED
  BY <1>1, <1>2, PTL DEF MCSpec, allVars

LEMMA WholeHere == LocalTypes /\ LocalInv => Local!MarkedIsWhole
<1> SUFFICES ASSUME LocalTypes, LocalInv PROVE Local!MarkedIsWhole
  OBVIOUS
<1>1. destination \in Trees /\ destination.by \subseteq Calls /\ destination.markers \subseteq Calls
  BY TreeOf DEF LocalTypes
<1>2. ASSUME NEW c \in destination.markers \cap destination.by, NEW m \in Members
      PROVE  \/ destination.files[m] = "whole"
             \/ \E d \in Calls : destination.last[m] = {d} /\ Local!Strange(d, c)
  <2>1. /\ destination.last[m] # {}
        /\ destination.last[m] = {c} => destination.files[m] = "whole"
    BY <1>2 DEF LocalInv, Sound
  <2>2. PICK d \in Calls : destination.last[m] = {d}
    BY <1>1, <2>1, TreeOf DEF Truncated
  <2>3. d # c => Foreign(d, c, caller)
    BY <1>2, <2>2 DEF LocalInv, Sound
  <2> QED
    BY <1>2, <2>1, <2>2, <2>3 DEF Foreign, Local!Strange
<1>3. ASSUME NEW c \in destination.markers \ destination.by
      PROVE  Local!Beside(c)
  BY <1>3 DEF LocalInv, Sound, Crossed, Local!Beside
<1> QED
  BY <1>2, <1>3 DEF Local!MarkedIsWhole

LEMMA StaysHere ==
  ASSUME LocalTypes, LocalInv, [Local!Next]_(Local!vars),
         destination.markers # {}, destination'.markers = {}
  PROVE  Local!ClearedBeside
<1>1. CASE UNCHANGED destination
  BY <1>1
<1>2. ASSUME NEW c \in Calls, Local!Clear(c)
      PROVE  caller[c] = "clearing" /\ caller'[c] = "extracting" /\ Local!Beside(c)
  <2>1. caller[c] = "clearing" /\ caller'[c] = "extracting"
    BY <1>2, GotoOf DEF Local!Clear
  <2>2. Crossed(c, caller)
    BY <2>1 DEF LocalInv, Surprised
  <2> QED
    BY <2>1, <2>2 DEF Crossed, Local!Beside
<1>3. ASSUME NEW c \in Calls, Local!Install(c), destination' # destination
      PROVE  FALSE
  BY <1>3 DEF Local!Install, LocalInv, Sound
<1>4. ASSUME NEW c \in Calls, Local!Close(c)
      PROVE  FALSE
  BY <1>4, CloseOwned
<1> QED
  BY <1>1, <1>2, <1>3, <1>4 DEF Local!Next, Local!Call, Local!Look, Local!Fail, Local!Mark,
     Local!Cancel, Local!Unpacked, Local!Open, Local!Crash, Local!vars, Local!ClearedBeside

\* A tree handed out is neither removed nor replaced, but by a call that found no
\* marker while another process put one there; whatever befalls the other calls and
\* the threads they leave behind.
THEOREM HandedOutStays == MCSpec => ReturnedStays
<1>1. LocalTypes /\ LocalInv /\ [MCNext]_allVars
        => [Local!Marked(destination) /\ ~ Local!Marked(destination')
              => Local!ClearedBeside]_destination
  BY LocalSteps, StaysHere DEF Local!Marked
<1> QED
  BY <1>1, LocalInvariance, PTL DEF MCSpec, allVars, ReturnedStays, Local!ReturnedStays

-----------------------------------------------------------------------------
(* A version put on a target: types. *)

LEMMA RemoteSteps == [MCNext]_allVars => [Remote!Next]_(Remote!vars)
<1> QED
  BY DEF allVars, MCNext, remoteVars, Remote!vars, Remote!dirs

LEMMA Limits == MaxLate \in Nat /\ MaxFaults \in Nat
<1> QED
  BY PlacesAssumption

LEMMA DirsOf ==
  /\ Remote!NoDir \in Remote!Dirs /\ ~ Remote!NoDir.there /\ ~ Remote!NoDir.marked
  /\ ~ Remote!NoDir.complete /\ Remote!NoDir.hands = {}
  /\ \A d \in Remote!Dirs :
       /\ Remote!Extracted(d) \in Remote!Dirs /\ Remote!Spoiled(d) \in Remote!Dirs
       /\ Remote!Make(d) \in Remote!Dirs
       /\ \A h \in SUBSET Remote!Jobs : [d EXCEPT !.hands = h] \in Remote!Dirs
<1> QED
  BY DEF Remote!NoDir, Remote!Dirs, Remote!Extracted, Remote!Spoiled, Remote!Make

\* A command that has a hand in a directory.
LEMMA HandOf ==
  ASSUME NEW d \in Remote!Dirs, NEW j \in Remote!Jobs, NEW u,
         \/ u = [d EXCEPT !.hands = @ \cup {j}]
         \/ u = [d EXCEPT !.archive = FALSE, !.hands = @ \cup {j}]
         \/ u = [d EXCEPT !.marked = TRUE, !.hands = @ \cup {j}]
         \/ u = [Remote!Make(d) EXCEPT !.hands = @ \cup {j}]
  PROVE  /\ u \in Remote!Dirs /\ u.hands = d.hands \cup {j} /\ u.complete = d.complete
         /\ u.there = d.there \/ u = [Remote!Make(d) EXCEPT !.hands = @ \cup {j}]
         /\ u.marked = d.marked \/ u = [d EXCEPT !.marked = TRUE, !.hands = @ \cup {j}]
<1>1. d.hands \cup {j} \in SUBSET Remote!Jobs
  BY DEF Remote!Dirs
<1>2. CASE u = [d EXCEPT !.hands = @ \cup {j}]
  BY <1>1, <1>2 DEF Remote!Dirs
<1>3. CASE u = [d EXCEPT !.archive = FALSE, !.hands = @ \cup {j}]
  BY <1>1, <1>3 DEF Remote!Dirs
<1>4. CASE u = [d EXCEPT !.marked = TRUE, !.hands = @ \cup {j}]
  BY <1>1, <1>4 DEF Remote!Dirs
<1>5. CASE u = [Remote!Make(d) EXCEPT !.hands = @ \cup {j}]
  BY <1>1, <1>5 DEF Remote!Dirs, Remote!Make
<1> QED
  BY <1>2, <1>3, <1>4, <1>5

Places == {"staging", "target", "gone"}
JobType == [command : Remote!Commands, state : Remote!States, at : Places]

LEMMA JobsOf ==
  /\ \A p \in Remote!Commands, s \in Remote!States, at \in Places :
       /\ Remote!Job(p, s, at) \in JobType
       /\ Remote!Job(p, s, at) = [command |-> p, state |-> s, at |-> at]
  /\ Remote!NoJob \in JobType /\ Remote!NoJob.state = "none"
  /\ \A p \in Remote!Commands \ {"test"} :
       Remote!After(p) = "using" \/ Remote!After(p) \in Remote!Commands
  /\ Remote!After("probe") = "mkdir"
  /\ \A p \in Remote!Commands \ {"test"} :
       /\ Remote!After(p) = "rename" => p = "extract"
       /\ Remote!After(p) = "mark" => p = "rename"
<1> QED
  BY DEF Remote!Job, Remote!NoJob, JobType, Places, Remote!Commands, Remote!States,
         Remote!After

RemoteTypes == /\ partial \in Remote!Dirs /\ target \in Remote!Dirs /\ known \in BOOLEAN
               /\ client \in [Clients -> Remote!PCs]
               /\ slot \in [Clients -> 0 .. MaxLate]
               /\ job \in [Remote!Jobs -> JobType]
               /\ left \in 0 .. MaxFaults

LEMMA CurrentJob ==
  ASSUME RemoteTypes, NEW c \in Clients
  PROVE  <<c, slot[c]>> \in Remote!Jobs
<1> QED
  BY DEF RemoteTypes, Remote!Jobs

LEMMA MovedJobs ==
  ASSUME RemoteTypes, NEW p \in Places, NEW q \in Places
  PROVE  /\ Remote!Moved(p, q) \in [Remote!Jobs -> JobType]
         /\ \A j \in Remote!Jobs : LET t == Remote!Moved(p, q)[j] IN
              /\ t.command = job[j].command /\ t.state = job[j].state
              /\ t.at = IF job[j].at = p THEN q ELSE job[j].at
<1> QED
  BY DEF Remote!Moved, RemoteTypes, JobType

LEMMA ExitOf ==
  ASSUME RemoteTypes, NEW j \in Remote!Jobs, NEW s \in Remote!States, Remote!Exit(j, s)
  PROVE  /\ job' \in [Remote!Jobs -> JobType]
         /\ job'[j] = [command |-> job[j].command, state |-> s, at |-> "gone"]
         /\ \A k \in Remote!Jobs : k # j => job'[k] = job[k]
<1> QED
  BY DEF Remote!Exit, RemoteTypes, JobType, Places

LEMMA IssueOf ==
  ASSUME RemoteTypes, NEW c \in Clients, NEW p \in Remote!Commands, Remote!Issue(c, p)
  PROVE  /\ job' \in [Remote!Jobs -> JobType] /\ client' \in [Clients -> Remote!PCs]
         /\ job'[<<c, slot[c]>>] = [command |-> p, state |-> "sent", at |-> "gone"]
         /\ \A k \in Remote!Jobs : k # <<c, slot[c]>> => job'[k] = job[k]
         /\ client' = [client EXCEPT ![c] = p]
<1>1. Remote!Job(p, "sent", "gone") = [command |-> p, state |-> "sent", at |-> "gone"]
      /\ Remote!Job(p, "sent", "gone") \in JobType
  BY JobsOf DEF Remote!States, Places
<1> QED
  BY <1>1, CurrentJob DEF Remote!Issue, Remote!Goto, RemoteTypes, Remote!PCs

LEMMA NextRemoteTypes == ASSUME RemoteTypes, [Remote!Next]_(Remote!vars) PROVE RemoteTypes'
<1>0. /\ partial \in Remote!Dirs /\ target \in Remote!Dirs /\ known \in BOOLEAN
      /\ client \in [Clients -> Remote!PCs] /\ slot \in [Clients -> 0 .. MaxLate]
      /\ job \in [Remote!Jobs -> JobType] /\ left \in 0 .. MaxFaults
      /\ MaxLate \in Nat /\ MaxFaults \in Nat
  BY Limits DEF RemoteTypes
<1>1. ASSUME NEW c \in Clients, Remote!Begin(c) \/ Remote!Miss(c)
      PROVE  RemoteTypes'
  <2>1. \E p \in Remote!Commands : Remote!Issue(c, p)
    BY <1>1, JobsOf DEF Remote!Begin, Remote!Miss, Remote!Commands
  <2>2. UNCHANGED <<partial, target, known, slot, left>>
    BY <1>1 DEF Remote!Begin, Remote!Miss, Remote!dirs
  <2> QED
    BY <1>0, <2>1, <2>2, IssueOf DEF RemoteTypes
<1>2. ASSUME NEW c \in Clients, Remote!Hit(c) \/ Remote!Fail(c) \/ Remote!Done(c)
      PROVE  RemoteTypes'
  BY <1>0, <1>2, JobsOf DEF Remote!Hit, Remote!Fail, Remote!Done, Remote!Goto, Remote!PCs,
                            Remote!dirs, RemoteTypes
<1>3. ASSUME NEW c \in Clients, Remote!Proceed(c)
      PROVE  RemoteTypes'
  <2>1. PICK p \in Remote!Commands \ {"test"} :
          /\ known' = (known \/ p = "probe")
          /\ IF Remote!After(p) = "using"
             THEN /\ Remote!Goto(c, "using")
                  /\ job' = [job EXCEPT ![<<c, slot[c]>>] = Remote!NoJob]
             ELSE Remote!Issue(c, Remote!After(p))
    BY <1>3 DEF Remote!Proceed
  <2>2. UNCHANGED <<partial, target, slot, left>> /\ known' \in BOOLEAN
    BY <1>3, <2>1 DEF Remote!Proceed, Remote!dirs
  <2>3. CASE Remote!After(p) = "using"
    BY <1>0, <2>1, <2>2, <2>3, JobsOf DEF Remote!Goto, Remote!PCs, RemoteTypes
  <2>4. CASE Remote!After(p) # "using"
    BY <1>0, <2>1, <2>2, <2>4, JobsOf, IssueOf DEF RemoteTypes
  <2> QED
    BY <2>3, <2>4
<1>4. ASSUME NEW c \in Clients, Remote!Abandon(c)
      PROVE  RemoteTypes'
  BY <1>0, <1>4, JobsOf DEF Remote!Abandon, Remote!Goto, Remote!PCs, Remote!dirs, RemoteTypes
<1>5. ASSUME NEW j \in Remote!Jobs, \/ Remote!Stumble(j) \/ Remote!Test(j) \/ Remote!Probe(j)
      PROVE  RemoteTypes'
  <2>1. \E s \in Remote!States : Remote!Exit(j, s)
    BY <1>5 DEF Remote!Stumble, Remote!Test, Remote!Probe, Remote!States
  <2>2. left' \in 0 .. MaxFaults /\ UNCHANGED <<partial, target, known, client, slot>>
    BY <1>0, <1>5 DEF Remote!Stumble, Remote!Test, Remote!Probe, Remote!dirs
  <2> QED
    BY <1>0, <2>1, <2>2, ExitOf DEF RemoteTypes
<1>6. ASSUME NEW j \in Remote!Jobs, Remote!Mkdir(j) \/ Remote!Mark(j)
      PROVE  RemoteTypes'
  <2>1. \E s \in Remote!States : Remote!Exit(j, s)
    BY <1>6 DEF Remote!Mkdir, Remote!Mark, Remote!States
  <2>2. /\ partial' \in Remote!Dirs /\ target' \in Remote!Dirs
        /\ UNCHANGED <<known, client, slot, left>>
    BY <1>0, <1>6, HandOf DEF Remote!Mkdir, Remote!Mark
  <2> QED
    BY <1>0, <2>1, <2>2, ExitOf DEF RemoteTypes
<1>7. ASSUME NEW j \in Remote!Jobs, Remote!Put(j) \/ Remote!Extract(j)
      PROVE  RemoteTypes'
  <2>1. \/ \E s \in Remote!States : Remote!Exit(j, s)
        \/ \E p \in Remote!Commands :
             job' = [job EXCEPT ![j] = Remote!Job(p, "half", "staging")]
    BY <1>7 DEF Remote!Put, Remote!Extract, Remote!States, Remote!Commands
  <2>2. job' \in [Remote!Jobs -> JobType]
    BY <1>0, <2>1, ExitOf, JobsOf DEF Remote!States, Places
  <2>3. partial' \in Remote!Dirs /\ UNCHANGED <<target, known, client, slot, left>>
    <3>1. [partial EXCEPT !.archive = TRUE] \in Remote!Dirs
      BY <1>0 DEF Remote!Dirs
    <3> QED
      BY <1>0, <1>7, <3>1, HandOf DEF Remote!Put, Remote!Extract
  <2> QED
    BY <1>0, <2>2, <2>3 DEF RemoteTypes
<1>8. ASSUME NEW j \in Remote!Jobs, Remote!EndExtract(j)
      PROVE  RemoteTypes'
  <2>1. \E s \in Remote!States : Remote!Exit(j, s)
    BY <1>8 DEF Remote!EndExtract, Remote!States
  <2>2. /\ partial' \in Remote!Dirs /\ target' \in Remote!Dirs
        /\ UNCHANGED <<known, client, slot>>
    BY <1>0, <1>8, DirsOf DEF Remote!EndExtract
  <2>3. left' \in 0 .. MaxFaults
    BY <1>0, <1>8 DEF Remote!EndExtract
  <2> QED
    BY <1>0, <2>1, <2>2, <2>3, ExitOf DEF RemoteTypes
<1>9. ASSUME NEW j \in Remote!Jobs, Remote!Remove(j) \/ Remote!Rename(j)
      PROVE  RemoteTypes'
  <2>1. \E p \in Places, q \in Places, s \in Remote!States :
          job' = [Remote!Moved(p, q) EXCEPT ![j] = Remote!Job("rename", s, "gone")]
    BY <1>9 DEF Remote!Remove, Remote!Rename, Remote!States, Places
  <2>2. job' \in [Remote!Jobs -> JobType]
    BY <1>0, <2>1, MovedJobs, JobsOf DEF Remote!Commands, Places
  <2>3. /\ partial' \in Remote!Dirs /\ target' \in Remote!Dirs
        /\ UNCHANGED <<known, client, slot, left>>
    BY <1>0, <1>9, DirsOf, HandOf DEF Remote!Remove, Remote!Rename
  <2> QED
    BY <1>0, <2>2, <2>3 DEF RemoteTypes
<1>10. CASE Remote!Cleanup
  BY <1>0, <1>10, MovedJobs, DirsOf DEF Remote!Cleanup, RemoteTypes, Places
<1>11. CASE UNCHANGED Remote!vars
  BY <1>0, <1>11 DEF Remote!vars, Remote!dirs, RemoteTypes
<1> QED
  BY <1>1, <1>2, <1>3, <1>4, <1>5, <1>6, <1>7, <1>8, <1>9, <1>10, <1>11
     DEF Remote!Next, Remote!Step, Remote!Run

LEMMA InitRemoteTypes == Remote!Init => RemoteTypes
<1> QED
  BY Limits, DirsOf, JobsOf DEF Remote!Init, RemoteTypes, Remote!PCs

LEMMA TypesInvariance == MCSpec => [](LocalTypes /\ RemoteTypes)
<1>1. MCInit => LocalTypes /\ RemoteTypes
  BY InitLocalTypes, InitRemoteTypes DEF MCInit
<1>2. LocalTypes /\ RemoteTypes /\ [MCNext]_allVars => LocalTypes' /\ RemoteTypes'
  BY LocalSteps, RemoteSteps, NextLocalTypes, NextRemoteTypes
<1> QED
  BY <1>1, <1>2, PTL DEF MCSpec, allVars

\* What is unpacked here and what is put on a target keep their types, whatever
\* is cancelled, left behind or breaks.
THEOREM OthersTypesAreKept == MCSpec => []OthersTypeOK
<1>1. Trees \subseteq [files : [Members -> {"absent", "cut", "whole"}],
                      last : [Members -> SUBSET Calls],
                      by : SUBSET Calls, markers : SUBSET Calls, there : BOOLEAN]
  <2>1. Truncated \subseteq SUBSET Calls
    BY DEF Truncated
  <2>2. [Members -> Truncated] \subseteq [Members -> SUBSET Calls]
    BY <2>1
  <2> QED
    BY <2>2 DEF Trees, Files
<1>2. LocalTypes => Local!TypeOK
  BY <1>1 DEF LocalTypes, Local!TypeOK
<1>3. RemoteTypes => Remote!TypeOK
  BY DEF RemoteTypes, Remote!TypeOK, JobType, Places
<1> QED
  BY <1>2, <1>3, TypesInvariance, PTL DEF OthersTypeOK

-----------------------------------------------------------------------------
(* A version put on a target by its one user, who leaves at most one       *)
(* command behind.                                                         *)

Current(c) == job[<<c, slot[c]>>]
Older(c)   == job[<<c, 0>>]
LateIs(c, p) == slot[c] = 1 /\ Older(c).command = p

\* The user waits for the current command, and has left the late one behind.
Waits(c) ==
  /\ client[c] \in Remote!Commands =>
       Current(c).command = client[c] /\ Current(c).state # "none"
  /\ client[c] \notin Remote!Commands => Current(c).state = "none"
LeftOne(c) ==
  /\ slot[c] = 1 => Older(c).command \in {"mkdir", "ready", "extract", "rename", "mark"}
  /\ \A n \in 0 .. MaxLate : n > slot[c] => job[<<c, n>>] = Remote!NoJob

\* Where it stands: its extraction is under way; it has ended well and the rename
\* has not; the rename has ended well and the marker is not written.
Extracting(c) == client[c] = "extract" /\ Current(c).state = "half"
Ready(c)   == \/ client[c] = "extract" /\ Current(c).state = "zero"
              \/ client[c] = "rename" /\ Current(c).state \in {"sent", "half"}
Marking(c) == \/ client[c] = "rename" /\ Current(c).state = "zero"
              \/ client[c] = "mark" /\ Current(c).state = "sent"

\* Only a rename left behind takes away the directory that the extraction works in.
ExtractsInPlace(c) == Extracting(c) =>
  /\ Current(c).at = "staging" => partial.there
  /\ Current(c).at # "staging" => LateIs(c, "rename")
  /\ Current(c).at = "target" => ~ target.marked /\ ~ partial.there
RenamesWhole(c) == Ready(c) =>
  /\ partial.there => partial.complete
  /\ LateIs(c, "rename") \/ partial.there
RenamesOnce(c) ==
  client[c] = "rename" /\ Current(c).state = "half" /\ target.there =>
    LateIs(c, "rename") /\ ~ partial.there
MarksWhole(c) == Marking(c) =>
  /\ target.there => target.complete
  /\ LateIs(c, "rename") => ~ partial.there
MarksLate(c) ==
  LateIs(c, "mark") /\ Older(c).state = "sent" /\ target.there => target.complete

TargetInv(c) == /\ Waits(c) /\ LeftOne(c)
                /\ ExtractsInPlace(c) /\ RenamesWhole(c) /\ RenamesOnce(c)
                /\ MarksWhole(c) /\ MarksLate(c)
DirsInv == ~ partial.marked /\ (target.marked => target.complete)

OneUser == /\ \A c, d \in Clients : c = d
           /\ MaxLate \in {0, 1} /\ ~ LateBreaks

LEMMA OneUserOf == Remote!OneUser => OneUser
<1>1. MaxLate \in Nat /\ (MaxLate <= 1 => MaxLate \in {0, 1})
  BY Limits
<1> QED
  BY <1>1 DEF Remote!OneUser, OneUser

\* A command that runs is the current one or the late one.
LEMMA RunsOf ==
  ASSUME RemoteTypes, OneUser, NEW c \in Clients, TargetInv(c),
         NEW j \in Remote!Jobs, job[j].state # "none"
  PROVE  \/ j = <<c, slot[c]>>
         \/ slot[c] = 1 /\ j = <<c, 0>>
<1>1. PICK d \in Clients, n \in 0 .. MaxLate : j = <<d, n>>
  BY DEF Remote!Jobs
<1>2. d = c
  BY DEF OneUser
<1>3. ~ (n > slot[c])
  BY <1>1, <1>2, JobsOf DEF TargetInv, LeftOne
<1>4. slot[c] \in 0 .. 1 /\ n \in 0 .. 1
  BY <1>1 DEF OneUser, RemoteTypes
<1>5. n = slot[c] \/ (slot[c] = 1 /\ n = 0)
  BY <1>3, <1>4
<1> QED
  BY <1>1, <1>2, <1>5

LEMMA SlotsOf ==
  ASSUME RemoteTypes, OneUser, NEW c \in Clients
  PROVE  /\ slot[c] \in {0, 1} /\ Current(c) \in JobType
         /\ slot[c] = 1 => /\ <<c, 0>> \in Remote!Jobs /\ Older(c) \in JobType
                           /\ <<c, 0>> # <<c, slot[c]>>
<1>1. slot[c] \in 0 .. MaxLate /\ MaxLate \in {0, 1}
  BY DEF RemoteTypes, OneUser
<1>2. slot[c] \in {0, 1} /\ 0 \in 0 .. MaxLate
  BY <1>1
<1> QED
  BY <1>1, <1>2, CurrentJob DEF RemoteTypes, Remote!Jobs, Current, Older

\* The user's own steps, but for giving a command up, replace the current one.
LEMMA UserTarget ==
  ASSUME RemoteTypes, OneUser, DirsInv, NEW c \in Clients, TargetInv(c), Remote!Step(c)
  PROVE  DirsInv' /\ TargetInv(c)'
<1>1. UNCHANGED <<partial, target, slot>>
  BY DEF Remote!Step, Remote!Begin, Remote!Hit, Remote!Miss, Remote!Proceed, Remote!Fail,
         Remote!Done, Remote!dirs
<1>2. ASSUME \A k \in Remote!Jobs : k # <<c, slot[c]>> => job'[k] = job[k]
      PROVE  /\ LeftOne(c)' /\ MarksLate(c)'
             /\ \A p : LateIs(c, p)' <=> LateIs(c, p)
  <2>1. slot[c] = 1 => Older(c)' = Older(c)
    BY <1>1, <1>2, SlotsOf DEF Older
  <2>2. \A n \in 0 .. MaxLate : n > slot[c] => job'[<<c, n>>] = job[<<c, n>>]
    <3> SUFFICES ASSUME NEW n \in 0 .. MaxLate, n > slot[c]
                 PROVE  job'[<<c, n>>] = job[<<c, n>>]
      OBVIOUS
    <3>1. n # slot[c]
      BY SlotsOf
    <3> QED
      BY <1>2, <3>1 DEF Remote!Jobs
  <2> QED
    BY <1>1, <2>1, <2>2 DEF TargetInv, LeftOne, MarksLate, LateIs
<1>3. DirsInv'
  BY <1>1 DEF DirsInv
<1>4. ASSUME NEW p \in Remote!Commands, Remote!Issue(c, p),
             p = "rename" => Ready(c), p = "mark" => Marking(c)
      PROVE  TargetInv(c)'
  <2>1. Current(c)' = [command |-> p, state |-> "sent", at |-> "gone"] /\ client'[c] = p
    BY <1>1, <1>4, IssueOf DEF Current, RemoteTypes
  <2>2. /\ LeftOne(c)' /\ MarksLate(c)' /\ \A q : LateIs(c, q)' <=> LateIs(c, q)
    BY <1>2, <1>4, IssueOf
  <2>3. Waits(c)' /\ ExtractsInPlace(c)' /\ RenamesOnce(c)'
    BY <2>1 DEF Waits, ExtractsInPlace, Extracting, RenamesOnce
  <2>4. RenamesWhole(c)'
    BY <1>1, <1>4, <2>1, <2>2 DEF TargetInv, RenamesWhole, Ready
  <2>5. MarksWhole(c)'
    BY <1>1, <1>4, <2>1, <2>2 DEF TargetInv, MarksWhole, Marking
  <2> QED
    BY <2>2, <2>3, <2>4, <2>5 DEF TargetInv
<1>5. ASSUME NEW p \in {"idle", "using"}, Remote!Goto(c, p),
             job' = [job EXCEPT ![<<c, slot[c]>>] = Remote!NoJob]
      PROVE  TargetInv(c)'
  <2>1. client'[c] = p /\ Current(c)' = Remote!NoJob
    BY <1>1, <1>5, CurrentJob DEF Current, Remote!Goto, RemoteTypes
  <2>2. LeftOne(c)' /\ MarksLate(c)'
    BY <1>2, <1>5 DEF RemoteTypes
  <2> QED
    BY <2>1, <2>2, JobsOf DEF TargetInv, Waits, ExtractsInPlace, Extracting, RenamesOnce,
       RenamesWhole, Ready, MarksWhole, Marking, Remote!Commands
<1>6. CASE Remote!Begin(c)
  BY <1>3, <1>4, <1>6 DEF Remote!Begin, Remote!Commands
<1>7. CASE Remote!Hit(c) \/ Remote!Fail(c)
  BY <1>3, <1>5, <1>7 DEF Remote!Hit, Remote!Fail
<1>8. CASE Remote!Miss(c)
  <2>1. \E p \in {"probe", "mkdir"} : Remote!Issue(c, p)
    BY <1>8, JobsOf DEF Remote!Miss
  <2> QED
    BY <1>3, <1>4, <2>1 DEF Remote!Commands
<1>9. CASE Remote!Proceed(c)
  <2>1. PICK p \in Remote!Commands \ {"test"} :
          /\ Remote!Answered(c, p, "zero")
          /\ IF Remote!After(p) = "using"
             THEN /\ Remote!Goto(c, "using")
                  /\ job' = [job EXCEPT ![<<c, slot[c]>>] = Remote!NoJob]
             ELSE Remote!Issue(c, Remote!After(p))
    BY <1>9 DEF Remote!Proceed
  <2>2. /\ Remote!After(p) = "using" \/ Remote!After(p) \in Remote!Commands
        /\ Remote!After(p) = "rename" => p = "extract"
        /\ Remote!After(p) = "mark" => p = "rename"
    BY DEF Remote!After, Remote!Commands
  <2>3. client[c] = p /\ Current(c).state = "zero"
    BY <2>1 DEF Remote!Answered, Current
  <2>4. CASE Remote!After(p) = "using"
    BY <1>3, <1>5, <2>1, <2>4
  <2>5. CASE Remote!After(p) # "using"
    BY <1>3, <1>4, <2>1, <2>2, <2>3, <2>5 DEF Ready, Marking
  <2> QED
    BY <2>4, <2>5
<1>10. CASE Remote!Done(c)
  <2>1. Current(c).state = "none"
    BY <1>10 DEF TargetInv, Waits, Remote!Done, Remote!Commands
  <2>2. client'[c] = "idle" /\ Current(c)' = Current(c) /\ UNCHANGED job
    BY <1>1, <1>10 DEF Remote!Done, Remote!Goto, Current, RemoteTypes
  <2>3. LeftOne(c)' /\ MarksLate(c)'
    BY <1>2, <2>2
  <2> QED
    BY <1>3, <2>1, <2>2, <2>3 DEF TargetInv, Waits, ExtractsInPlace, Extracting, RenamesOnce,
       RenamesWhole, Ready, MarksWhole, Marking, Remote!Commands
<1> QED
  BY <1>6, <1>7, <1>8, <1>9, <1>10 DEF Remote!Step

\* A command given up is the late one, or is none.
LEMMA AbandonTarget ==
  ASSUME RemoteTypes, OneUser, DirsInv, NEW c \in Clients, TargetInv(c), Remote!Abandon(c)
  PROVE  DirsInv' /\ TargetInv(c)'
<1>1. UNCHANGED <<partial, target>> /\ client'[c] = "idle"
  BY DEF Remote!Abandon, Remote!dirs, Remote!Goto, RemoteTypes
<1>2. DirsInv'
  BY <1>1 DEF DirsInv
<1>3. ASSUME Current(c)'.state = "none", LeftOne(c)', MarksLate(c)'
      PROVE  TargetInv(c)'
  BY <1>1, <1>3 DEF TargetInv, Waits, ExtractsInPlace, Extracting, RenamesOnce,
       RenamesWhole, Ready, MarksWhole, Marking, Remote!Commands
<1>4. CASE /\ client[c] \in {"mkdir", "ready", "extract", "rename", "mark"} /\ slot[c] < MaxLate
           /\ slot' = [slot EXCEPT ![c] = @ + 1] /\ UNCHANGED job
  <2>1. slot[c] = 0 /\ slot'[c] = 1 /\ MaxLate = 1
    BY <1>4, SlotsOf DEF OneUser, RemoteTypes
  <2>2. Older(c)' = Current(c) /\ Current(c)' = job[<<c, 1>>]
    BY <1>4, <2>1 DEF Older, Current
  <2>3. \A n \in 0 .. MaxLate : n > slot'[c] => job'[<<c, n>>] = Remote!NoJob
    BY <2>1
  <2>4. job[<<c, 1>>] = Remote!NoJob
    BY <2>1 DEF TargetInv, LeftOne
  <2>5. Older(c)'.command = client[c]
    BY <1>4, <2>2 DEF TargetInv, Waits, Remote!Commands
  <2>6. LeftOne(c)'
    BY <1>4, <2>3, <2>5 DEF LeftOne
  <2>7. MarksLate(c)'
    BY <1>1, <2>2, <2>5 DEF TargetInv, MarksLate, LateIs, MarksWhole, Marking
  <2> QED
    BY <1>2, <1>3, <2>2, <2>4, <2>6, <2>7, JobsOf
<1>5. CASE /\ job' = [job EXCEPT ![<<c, slot[c]>>] = Remote!NoJob] /\ UNCHANGED slot
  <2>1. Current(c)' = Remote!NoJob
    BY <1>5, CurrentJob DEF Current, RemoteTypes
  <2>2. slot[c] = 1 => Older(c)' = Older(c)
    BY <1>5, SlotsOf DEF Older, RemoteTypes
  <2>3. \A n \in 0 .. MaxLate : n > slot[c] => job'[<<c, n>>] = Remote!NoJob
    BY <1>5 DEF TargetInv, LeftOne, RemoteTypes, Remote!Jobs
  <2>4. LeftOne(c)' /\ MarksLate(c)'
    BY <1>1, <1>5, <2>2, <2>3 DEF TargetInv, LeftOne, MarksLate, LateIs
  <2> QED
    BY <1>2, <1>3, <2>1, <2>4, JobsOf
<1> QED
  BY <1>4, <1>5 DEF Remote!Abandon

\* A command's own steps change its state, and where others are at work.
LEMMA RunMoves ==
  ASSUME RemoteTypes, OneUser, NEW c \in Clients, TargetInv(c),
         NEW j \in Remote!Jobs, job[j].state # "none", UNCHANGED <<client, slot>>,
         \A k \in Remote!Jobs : /\ job'[k].command = job[k].command
                                /\ k # j => job'[k].state = job[k].state
                                /\ k # j /\ job[k] = Remote!NoJob => job'[k] = Remote!NoJob,
         job'[j].state # "none"
  PROVE  /\ Waits(c)' /\ LeftOne(c)'
         /\ \A p : LateIs(c, p)' <=> LateIs(c, p)
         /\ Current(c)'.command = Current(c).command
         /\ Current(c) = job[<<c, slot[c]>>] /\ Current(c)' = job'[<<c, slot[c]>>]
         /\ Older(c) = job[<<c, 0>>] /\ Older(c)' = job'[<<c, 0>>]
         /\ \/ j = <<c, slot[c]>> /\ (slot[c] = 1 => Older(c)'.state = Older(c).state)
            \/ j # <<c, slot[c]>> /\ slot[c] = 1 /\ j = <<c, 0>>
               /\ Current(c)'.state = Current(c).state
<1>1. /\ Current(c) = job[<<c, slot[c]>>] /\ Current(c)' = job'[<<c, slot[c]>>]
      /\ Older(c) = job[<<c, 0>>] /\ Older(c)' = job'[<<c, 0>>]
  BY DEF Current, Older
<1>2. \/ j = <<c, slot[c]>>
      \/ slot[c] = 1 /\ j = <<c, 0>> /\ j # <<c, slot[c]>>
  BY RunsOf, SlotsOf
<1>3. \A n \in 0 .. MaxLate : n > slot[c] =>
        job'[<<c, n>>] = Remote!NoJob
  <2> SUFFICES ASSUME NEW n \in 0 .. MaxLate, n > slot[c]
               PROVE  job'[<<c, n>>] = Remote!NoJob
    OBVIOUS
  <2>1. job[<<c, n>>] = Remote!NoJob /\ <<c, n>> \in Remote!Jobs
    BY DEF TargetInv, LeftOne, Remote!Jobs
  <2> QED
    BY <2>1, JobsOf
<1>4. /\ Current(c)'.command = Current(c).command
      /\ slot[c] = 1 => Older(c)'.command = Older(c).command
      /\ j # <<c, slot[c]>> => Current(c)'.state = Current(c).state
      /\ Current(c).state # "none" <=> Current(c)'.state # "none"
      /\ j = <<c, slot[c]>> => (slot[c] = 1 => Older(c)'.state = Older(c).state)
  BY <1>1, CurrentJob, SlotsOf
<1>5. Waits(c)' /\ LeftOne(c)' /\ \A p : LateIs(c, p)' <=> LateIs(c, p)
  BY <1>3, <1>4 DEF TargetInv, Waits, LeftOne, LateIs
<1> QED
  BY <1>1, <1>2, <1>4, <1>5

\* A command that ends without having changed the directories.
LEMMA ExitTarget ==
  ASSUME RemoteTypes, OneUser, DirsInv, NEW c \in Clients, TargetInv(c),
         NEW j \in Remote!Jobs, job[j].state # "none",
         NEW s \in {"zero", "nonzero"}, Remote!Exit(j, s),
         UNCHANGED <<target, client, slot>>,
         partial'.marked = partial.marked, partial'.complete = partial.complete,
         \/ partial'.there = partial.there
         \/ /\ job[j].command \in {"mkdir", "ready"}
            /\ partial'.there,
         s = "zero" => job[j].command \in {"test", "probe", "mkdir", "ready", "put"}
  PROVE  DirsInv' /\ TargetInv(c)'
<1>1. /\ job'[j].command = job[j].command /\ job'[j].state = s
      /\ \A k \in Remote!Jobs : k # j => job'[k] = job[k]
  <2>1. s \in Remote!States
    BY DEF Remote!States
  <2>2. /\ job'[j] = [command |-> job[j].command, state |-> s, at |-> "gone"]
        /\ \A k \in Remote!Jobs : k # j => job'[k] = job[k]
    BY <2>1, ExitOf
  <2> QED
    BY <2>2
<1>2. /\ partial'.marked = partial.marked /\ partial'.complete = partial.complete
      /\ \/ partial'.there = partial.there
         \/ job[j].command \in {"mkdir", "ready"} /\ partial'.there
  OBVIOUS
<1>3. DirsInv'
  BY <1>2 DEF DirsInv
<1>4. /\ Waits(c)' /\ LeftOne(c)'
      /\ \A p : LateIs(c, p)' <=> LateIs(c, p)
      /\ Current(c)'.command = Current(c).command
      /\ Current(c) = job[<<c, slot[c]>>] /\ Current(c)' = job'[<<c, slot[c]>>]
      /\ Older(c) = job[<<c, 0>>] /\ Older(c)' = job'[<<c, 0>>]
      /\ \/ j = <<c, slot[c]>> /\ (slot[c] = 1 => Older(c)'.state = Older(c).state)
         \/ j # <<c, slot[c]>> /\ slot[c] = 1 /\ j = <<c, 0>>
            /\ Current(c)'.state = Current(c).state
  BY <1>1, RunMoves
<1>5. CASE j = <<c, slot[c]>>
  <2>1. Current(c)'.state = s /\ Current(c).command = job[j].command
        /\ client[c] = job[j].command
    BY <1>1, <1>4, <1>5 DEF TargetInv, Waits, RemoteTypes, JobType, Remote!PCs, Remote!Commands
  <2>2. ~ Extracting(c)' /\ ~ Ready(c)' /\ ~ Marking(c)'
        /\ ~ (client'[c] = "rename" /\ Current(c)'.state = "half")
    BY <2>1 DEF Extracting, Ready, Marking
  <2>3. MarksLate(c)'
    BY <1>4, <1>5, SlotsOf DEF TargetInv, MarksLate, LateIs
  <2> QED
    BY <1>3, <1>4, <2>2, <2>3 DEF TargetInv, ExtractsInPlace, RenamesWhole, RenamesOnce,
       MarksWhole
<1>6. CASE j # <<c, slot[c]>>
  <2>1. Current(c)' = Current(c) /\ Older(c)'.state = s /\ Older(c).command = job[j].command
    BY <1>1, <1>4, <1>6, CurrentJob
  <2>2. \/ partial'.there = partial.there
        \/ partial'.there /\ ~ LateIs(c, "rename")
    BY <1>2, <2>1 DEF LateIs
  <2>3. ExtractsInPlace(c)' /\ RenamesWhole(c)' /\ RenamesOnce(c)' /\ MarksWhole(c)'
    BY <1>2, <1>4, <2>1, <2>2 DEF TargetInv, ExtractsInPlace, Extracting, RenamesWhole, Ready,
       RenamesOnce, MarksWhole, Marking
  <2>4. MarksLate(c)'
    BY <2>1 DEF MarksLate
  <2> QED
    BY <1>3, <1>4, <2>3, <2>4 DEF TargetInv
<1> QED
  BY <1>5, <1>6

LEMMA StartTarget ==
  ASSUME RemoteTypes, OneUser, DirsInv, NEW c \in Clients, TargetInv(c),
         NEW j \in Remote!Jobs, job[j].state = "sent", NEW p \in {"put", "extract"},
         job[j].command = p, job' = [job EXCEPT ![j] = Remote!Job(p, "half", "staging")],
         partial.there, partial'.there, partial'.complete = partial.complete,
         partial'.marked = partial.marked,
         UNCHANGED <<target, client, slot>>
  PROVE  DirsInv' /\ TargetInv(c)'
<1>1. /\ job'[j] = [command |-> p, state |-> "half", at |-> "staging"]
      /\ \A k \in Remote!Jobs : k # j => job'[k] = job[k]
  BY JobsOf DEF RemoteTypes, Remote!Commands, Remote!States, Places
<1>3. DirsInv'
  BY DEF DirsInv
<1>4. /\ Waits(c)' /\ LeftOne(c)'
      /\ \A q : LateIs(c, q)' <=> LateIs(c, q)
      /\ Current(c)'.command = Current(c).command
      /\ Current(c) = job[<<c, slot[c]>>] /\ Current(c)' = job'[<<c, slot[c]>>]
      /\ Older(c) = job[<<c, 0>>] /\ Older(c)' = job'[<<c, 0>>]
      /\ \/ j = <<c, slot[c]>> /\ (slot[c] = 1 => Older(c)'.state = Older(c).state)
         \/ j # <<c, slot[c]>> /\ slot[c] = 1 /\ j = <<c, 0>>
            /\ Current(c)'.state = Current(c).state
  BY <1>1, RunMoves
<1>5. CASE j = <<c, slot[c]>>
  <2>1. /\ Current(c)'.state = "half" /\ Current(c)'.at = "staging" /\ client[c] = p
    BY <1>1, <1>4, <1>5 DEF TargetInv, Waits, RemoteTypes, JobType, Remote!PCs, Remote!Commands
  <2>2. ~ Ready(c)' /\ ~ Marking(c)' /\ client'[c] # "rename" /\ ExtractsInPlace(c)'
    BY <2>1 DEF Extracting, Ready, Marking, ExtractsInPlace
  <2>3. MarksLate(c)'
    BY <1>4, <1>5, SlotsOf DEF TargetInv, MarksLate, LateIs
  <2> QED
    BY <1>3, <1>4, <2>2, <2>3 DEF TargetInv, RenamesWhole, RenamesOnce, MarksWhole
<1>6. CASE j # <<c, slot[c]>>
  <2>1. Current(c)' = Current(c) /\ Older(c)'.state = "half" /\ Older(c).command = p
        /\ LateIs(c, p)
    BY <1>1, <1>4, <1>6, CurrentJob DEF LateIs
  <2>2. ~ LateIs(c, "rename")
    BY <2>1 DEF LateIs
  <2>3. ExtractsInPlace(c)' /\ RenamesWhole(c)' /\ RenamesOnce(c)' /\ MarksWhole(c)'
    BY <1>4, <2>1, <2>2 DEF TargetInv, ExtractsInPlace, Extracting, RenamesWhole, Ready,
       RenamesOnce, MarksWhole, Marking
  <2>4. MarksLate(c)'
    BY <2>1 DEF MarksLate
  <2> QED
    BY <1>3, <1>4, <2>3, <2>4 DEF TargetInv
<1> QED
  BY <1>5, <1>6

LEMMA EndExtractTarget ==
  ASSUME RemoteTypes, OneUser, DirsInv, NEW c \in Clients, TargetInv(c),
         NEW j \in Remote!Jobs, Remote!EndExtract(j)
  PROVE  DirsInv' /\ TargetInv(c)'
<1>1. job[j].state = "half" /\ job[j].command = "extract" /\ UNCHANGED <<client, slot>>
  BY DEF Remote!EndExtract
<1>2. PICK s \in {"zero", "nonzero"}, b \in BOOLEAN :
        /\ Remote!Exit(j, s)
        /\ partial' = IF job[j].at = "staging" THEN [partial EXCEPT !.complete = b] ELSE partial
        /\ target' = IF job[j].at = "target" THEN [target EXCEPT !.complete = b] ELSE target
        /\ s = "zero" => b /\ job[j].at # "gone"
        /\ ~ b => job[j].at = "gone" \/ (Remote!Late(j) => LateBreaks)
  BY DEF Remote!EndExtract, Remote!Extracted, Remote!Spoiled
<1>3. /\ job'[j].command = job[j].command /\ job'[j].state = s
      /\ \A k \in Remote!Jobs : k # j => job'[k] = job[k]
  <2>1. s \in Remote!States
    BY DEF Remote!States
  <2>2. /\ job'[j] = [command |-> job[j].command, state |-> s, at |-> "gone"]
        /\ \A k \in Remote!Jobs : k # j => job'[k] = job[k]
    BY <1>2, <2>1, ExitOf
  <2> QED
    BY <2>2
<1>4. /\ partial'.there = partial.there /\ partial'.marked = partial.marked
      /\ target'.there = target.there /\ target'.marked = target.marked
      /\ partial'.complete = IF job[j].at = "staging" THEN b ELSE partial.complete
      /\ target'.complete = IF job[j].at = "target" THEN b ELSE target.complete
      /\ partial.complete \in BOOLEAN /\ target.complete \in BOOLEAN
      /\ job[j].at \in Places
  BY <1>2 DEF RemoteTypes, Remote!Dirs, JobType
<1>5. /\ Waits(c)' /\ LeftOne(c)'
      /\ \A q : LateIs(c, q)' <=> LateIs(c, q)
      /\ Current(c)'.command = Current(c).command
      /\ Current(c) = job[<<c, slot[c]>>] /\ Current(c)' = job'[<<c, slot[c]>>]
      /\ Older(c) = job[<<c, 0>>] /\ Older(c)' = job'[<<c, 0>>]
      /\ \/ j = <<c, slot[c]>> /\ (slot[c] = 1 => Older(c)'.state = Older(c).state)
         \/ j # <<c, slot[c]>> /\ slot[c] = 1 /\ j = <<c, 0>>
            /\ Current(c)'.state = Current(c).state
  BY <1>1, <1>3, RunMoves
<1>6. CASE j = <<c, slot[c]>>
  <2>1. /\ Current(c)'.state = s /\ Current(c) = job[j] /\ client[c] = "extract"
        /\ Extracting(c)
    BY <1>1, <1>3, <1>5, <1>6
       DEF TargetInv, Waits, RemoteTypes, JobType, Remote!PCs, Remote!Commands, Extracting
  <2>2. /\ job[j].at = "staging" => partial.there
        /\ job[j].at # "staging" => LateIs(c, "rename")
        /\ job[j].at = "target" => ~ target.marked /\ ~ partial.there
    BY <2>1 DEF TargetInv, ExtractsInPlace
  <2>3. DirsInv'
    BY <1>4, <2>2 DEF DirsInv
  <2>4. RenamesWhole(c)'
    BY <1>1, <1>2, <1>4, <1>5, <2>1, <2>2 DEF RenamesWhole, Ready, Places
  <2>5. ~ Extracting(c)' /\ ~ Marking(c)' /\ client'[c] # "rename"
    BY <1>1, <2>1 DEF Extracting, Marking
  <2>6. MarksLate(c)'
    BY <1>4, <1>5, <1>6, <2>2, SlotsOf DEF TargetInv, MarksLate, LateIs
  <2> QED
    BY <1>5, <2>3, <2>4, <2>5, <2>6 DEF TargetInv, ExtractsInPlace, MarksWhole, RenamesOnce
<1>7. CASE j # <<c, slot[c]>>
  <2>1. /\ Current(c)' = Current(c) /\ Older(c)'.state = s /\ LateIs(c, "extract")
        /\ j[1] = c /\ j[2] # slot[c]
    BY <1>1, <1>3, <1>5, <1>7, CurrentJob DEF LateIs
  <2>2. b \/ job[j].at = "gone"
    BY <1>2, <2>1 DEF Remote!Late, OneUser
  <2>3. ~ LateIs(c, "rename")
    BY <2>1 DEF LateIs
  <2>4. DirsInv'
    BY <1>4, <2>2 DEF DirsInv
  <2>5. ExtractsInPlace(c)' /\ RenamesWhole(c)' /\ RenamesOnce(c)' /\ MarksWhole(c)'
    BY <1>1, <1>4, <1>5, <2>1, <2>2, <2>3
       DEF TargetInv, ExtractsInPlace, Extracting, RenamesWhole, Ready,
       RenamesOnce, MarksWhole, Marking
  <2>6. MarksLate(c)'
    BY <2>1 DEF MarksLate
  <2> QED
    BY <1>5, <2>4, <2>5, <2>6 DEF TargetInv
<1> QED
  BY <1>6, <1>7

LEMMA MarkTarget ==
  ASSUME RemoteTypes, OneUser, DirsInv, NEW c \in Clients, TargetInv(c),
         NEW j \in Remote!Jobs, Remote!Mark(j)
  PROVE  DirsInv' /\ TargetInv(c)'
<1>1. /\ job[j].state = "sent" /\ job[j].command = "mark"
      /\ UNCHANGED <<partial, client, slot>>
  BY DEF Remote!Mark
<1>2. PICK s \in {"zero", "nonzero"} : Remote!Exit(j, s)
  BY DEF Remote!Mark
<1>3. /\ job'[j].command = job[j].command /\ job'[j].state = s
      /\ \A k \in Remote!Jobs : k # j => job'[k] = job[k]
  <2>1. s \in Remote!States
    BY DEF Remote!States
  <2>2. /\ job'[j] = [command |-> job[j].command, state |-> s, at |-> "gone"]
        /\ \A k \in Remote!Jobs : k # j => job'[k] = job[k]
    BY <1>2, <2>1, ExitOf
  <2> QED
    BY <2>2
<1>4. /\ target'.there = target.there
      /\ target'.marked => target.there \/ target.marked
      /\ target'.complete = target.complete
  BY DEF RemoteTypes, Remote!Dirs, Remote!Mark
<1>5. /\ Waits(c)' /\ LeftOne(c)'
      /\ \A q : LateIs(c, q)' <=> LateIs(c, q)
      /\ Current(c)'.command = Current(c).command
      /\ Current(c) = job[<<c, slot[c]>>] /\ Current(c)' = job'[<<c, slot[c]>>]
      /\ Older(c) = job[<<c, 0>>] /\ Older(c)' = job'[<<c, 0>>]
      /\ \/ j = <<c, slot[c]>> /\ (slot[c] = 1 => Older(c)'.state = Older(c).state)
         \/ j # <<c, slot[c]>> /\ slot[c] = 1 /\ j = <<c, 0>>
            /\ Current(c)'.state = Current(c).state
  BY <1>1, <1>3, RunMoves
<1>6. CASE j = <<c, slot[c]>>
  <2>1. /\ Current(c)'.state = s /\ Current(c) = job[j] /\ client[c] = "mark"
    BY <1>1, <1>3, <1>5, <1>6
       DEF TargetInv, Waits, RemoteTypes, JobType, Remote!PCs, Remote!Commands
  <2>2. target.there => target.complete
    BY <1>1, <2>1 DEF TargetInv, MarksWhole, Marking
  <2>3. DirsInv'
    BY <1>1, <1>4, <2>2 DEF DirsInv
  <2>4. ~ Extracting(c)' /\ ~ Marking(c)' /\ ~ Ready(c)' /\ client'[c] # "rename"
    BY <1>1, <2>1 DEF Extracting, Marking, Ready
  <2>5. MarksLate(c)'
    BY <1>4, <1>5, <1>6, <2>2, SlotsOf DEF TargetInv, MarksLate, LateIs
  <2> QED
    BY <1>5, <2>3, <2>4, <2>5
       DEF TargetInv, ExtractsInPlace, MarksWhole, RenamesOnce, RenamesWhole
<1>7. CASE j # <<c, slot[c]>>
  <2>1. /\ Current(c)' = Current(c) /\ Older(c)'.state = s /\ LateIs(c, "mark")
        /\ Older(c).state = "sent"
    BY <1>1, <1>3, <1>5, <1>7, CurrentJob DEF LateIs
  <2>2. (target.there => target.complete) /\ ~ LateIs(c, "rename")
    BY <2>1 DEF LateIs, TargetInv, MarksLate
  <2>3. DirsInv'
    BY <1>1, <1>4, <2>2 DEF DirsInv
  <2>4. ~ Extracting(c) \/ Current(c).at = "staging"
    BY <2>2 DEF TargetInv, ExtractsInPlace
  <2>5. ExtractsInPlace(c)' /\ RenamesWhole(c)' /\ RenamesOnce(c)' /\ MarksWhole(c)'
    BY <1>1, <1>4, <1>5, <2>1, <2>2, <2>4
       DEF TargetInv, ExtractsInPlace, Extracting, RenamesWhole, Ready,
       RenamesOnce, MarksWhole, Marking
  <2>6. MarksLate(c)'
    BY <2>1 DEF MarksLate
  <2> QED
    BY <1>5, <2>3, <2>5, <2>6 DEF TargetInv
<1> QED
  BY <1>6, <1>7

\* The rename's two halves move the commands at work in the directory.
LEMMA RenameJobs ==
  ASSUME RemoteTypes, NEW j \in Remote!Jobs, NEW p \in {"staging", "target"},
         NEW q \in Places, NEW s \in Remote!States, job[j].command = "rename",
         job' = [Remote!Moved(p, q) EXCEPT ![j] = Remote!Job("rename", s, "gone")]
  PROVE  /\ job'[j].command = job[j].command /\ job'[j].state = s
         /\ \A k \in Remote!Jobs :
              /\ job'[k].command = job[k].command
              /\ k # j => /\ job'[k].state = job[k].state
                          /\ job'[k].at = IF job[k].at = p THEN q ELSE job[k].at
                          /\ job[k] = Remote!NoJob => job'[k] = Remote!NoJob
<1>1. job'[j] = [command |-> "rename", state |-> s, at |-> "gone"]
  BY MovedJobs, JobsOf DEF Remote!Commands, Places
<1>2. \A k \in Remote!Jobs : k # j => job'[k] = Remote!Moved(p, q)[k]
  BY MovedJobs DEF Places
<1>3. \A k \in Remote!Jobs : job[k] = Remote!NoJob => Remote!Moved(p, q)[k] = Remote!NoJob
  BY DEF Remote!Moved, Remote!NoJob, Remote!Job
<1> QED
  BY <1>1, <1>2, <1>3, MovedJobs DEF Places

LEMMA RemoveTarget ==
  ASSUME RemoteTypes, OneUser, DirsInv, NEW c \in Clients, TargetInv(c),
         NEW j \in Remote!Jobs, Remote!Remove(j)
  PROVE  DirsInv' /\ TargetInv(c)'
<1>1. /\ job[j].state = "sent" /\ job[j].command = "rename"
      /\ UNCHANGED <<partial, client, slot>> /\ target' = Remote!NoDir
  BY DEF Remote!Remove
<1>2. ~ target'.there /\ ~ target'.marked
  BY <1>1, DirsOf
<1>3. /\ job'[j].command = job[j].command /\ job'[j].state = "half"
      /\ \A k \in Remote!Jobs :
           /\ job'[k].command = job[k].command
           /\ k # j => /\ job'[k].state = job[k].state
                       /\ job'[k].at = IF job[k].at = "target" THEN "gone" ELSE job[k].at
                       /\ job[k] = Remote!NoJob => job'[k] = Remote!NoJob
  BY <1>1, RenameJobs DEF Remote!Remove, Remote!States, Places
<1>4. DirsInv'
  BY <1>1, <1>2 DEF DirsInv
<1>5. /\ Waits(c)' /\ LeftOne(c)'
      /\ \A q : LateIs(c, q)' <=> LateIs(c, q)
      /\ Current(c)'.command = Current(c).command
      /\ Current(c) = job[<<c, slot[c]>>] /\ Current(c)' = job'[<<c, slot[c]>>]
      /\ Older(c) = job[<<c, 0>>] /\ Older(c)' = job'[<<c, 0>>]
      /\ \/ j = <<c, slot[c]>> /\ (slot[c] = 1 => Older(c)'.state = Older(c).state)
         \/ j # <<c, slot[c]>> /\ slot[c] = 1 /\ j = <<c, 0>>
            /\ Current(c)'.state = Current(c).state
  BY <1>1, <1>3, RunMoves
<1>6. RenamesOnce(c)' /\ MarksWhole(c)' /\ MarksLate(c)'
  <2>1. Marking(c)' => Marking(c)
    BY <1>1, <1>3, <1>5 DEF Marking
  <2> QED
    BY <1>1, <1>2, <1>5, <2>1 DEF TargetInv, RenamesOnce, MarksWhole, MarksLate
<1>7. RenamesWhole(c)'
  <2>1. Ready(c)' => Ready(c)
    <3>1. j = <<c, slot[c]>> => client[c] = "rename" /\ Current(c).state = "sent"
      BY <1>1, <1>5 DEF TargetInv, Waits, RemoteTypes, JobType, Remote!PCs, Remote!Commands
    <3> QED
      BY <1>1, <1>3, <1>5, <3>1 DEF Ready
  <2> QED
    BY <1>1, <1>5, <2>1 DEF TargetInv, RenamesWhole
<1>8. ExtractsInPlace(c)'
  <2> SUFFICES ASSUME Extracting(c)'
               PROVE  ExtractsInPlace(c)'
    BY DEF ExtractsInPlace
  <2>1. j # <<c, slot[c]>>
    BY <1>1, <1>5 DEF TargetInv, Waits, Extracting, Remote!Commands
  <2>2. Extracting(c) /\ LateIs(c, "rename")
    BY <1>1, <1>5, <2>1 DEF Extracting, LateIs
  <2>3. Current(c)'.at = IF Current(c).at = "target" THEN "gone" ELSE Current(c).at
    BY <1>3, <1>5, <2>1, CurrentJob
  <2> QED
    BY <1>1, <1>5, <2>2, <2>3 DEF TargetInv, ExtractsInPlace
<1> QED
  BY <1>4, <1>5, <1>6, <1>7, <1>8 DEF TargetInv

LEMMA RenameTarget ==
  ASSUME RemoteTypes, OneUser, DirsInv, NEW c \in Clients, TargetInv(c),
         NEW j \in Remote!Jobs, Remote!Rename(j)
  PROVE  DirsInv' /\ TargetInv(c)'
<1> DEFINE q == IF target.there THEN "gone" ELSE "target"
           s == IF partial.there THEN "zero" ELSE "nonzero"
<1>1. /\ job[j].state = "half" /\ job[j].command = "rename"
      /\ UNCHANGED <<client, slot>> /\ partial' = Remote!NoDir
      /\ target' = IF partial.there
                   THEN [(IF target.there THEN target ELSE partial)
                           EXCEPT !.hands = @ \cup {j}]
                   ELSE target
  BY DEF Remote!Rename
<1>2. /\ ~ partial'.there /\ ~ partial'.marked
      /\ \/ /\ ~ partial.there \/ target.there
            /\ target'.there = target.there /\ target'.marked = target.marked
            /\ target'.complete = target.complete
         \/ /\ partial.there /\ ~ target.there
            /\ target'.there = partial.there /\ target'.marked = partial.marked
            /\ target'.complete = partial.complete
  BY <1>1, DirsOf DEF RemoteTypes, Remote!Dirs
<1>3. /\ job'[j].command = job[j].command /\ job'[j].state = s
      /\ \A k \in Remote!Jobs :
           /\ job'[k].command = job[k].command
           /\ k # j => /\ job'[k].state = job[k].state
                       /\ job'[k].at = IF job[k].at = "staging" THEN q ELSE job[k].at
                       /\ job[k] = Remote!NoJob => job'[k] = Remote!NoJob
  <2>1. job' = [Remote!Moved("staging", q) EXCEPT ![j] = Remote!Job("rename", s, "gone")]
    BY DEF Remote!Rename
  <2>2. q \in Places /\ s \in Remote!States
    BY DEF Remote!States, Places
  <2> HIDE DEF q, s
  <2> QED
    BY <1>1, <2>1, <2>2, RenameJobs
<1>4. DirsInv'
  BY <1>1, <1>2 DEF DirsInv
<1>5. /\ Waits(c)' /\ LeftOne(c)'
      /\ \A p : LateIs(c, p)' <=> LateIs(c, p)
      /\ Current(c)'.command = Current(c).command
      /\ Current(c) = job[<<c, slot[c]>>] /\ Current(c)' = job'[<<c, slot[c]>>]
      /\ Older(c) = job[<<c, 0>>] /\ Older(c)' = job'[<<c, 0>>]
      /\ \/ j = <<c, slot[c]>> /\ (slot[c] = 1 => Older(c)'.state = Older(c).state)
         \/ j # <<c, slot[c]>> /\ slot[c] = 1 /\ j = <<c, 0>>
            /\ Current(c)'.state = Current(c).state
  BY <1>1, <1>3, RunMoves
<1>6. CASE j = <<c, slot[c]>>
  <2>1. client[c] = "rename" /\ Current(c).state = "half" /\ Current(c)'.state = s
    BY <1>1, <1>3, <1>5, <1>6
       DEF TargetInv, Waits, RemoteTypes, JobType, Remote!PCs, Remote!Commands
  <2>2. /\ target.there => LateIs(c, "rename") /\ ~ partial.there
        /\ partial.there => partial.complete
    BY <2>1 DEF TargetInv, RenamesOnce, RenamesWhole, Ready
  <2>3. ~ Extracting(c)' /\ ~ Ready(c)' /\ RenamesOnce(c)'
    BY <1>1, <2>1 DEF Extracting, Ready, RenamesOnce
  <2>4. MarksWhole(c)'
    BY <1>1, <1>2, <2>1, <2>2 DEF MarksWhole, Marking
  <2>5. MarksLate(c)'
    <3> SUFFICES ASSUME LateIs(c, "mark"), Older(c).state = "sent", target'.there
                 PROVE  target'.complete
      BY <1>5, <1>6, SlotsOf DEF MarksLate, LateIs
    <3> QED
      BY <1>1, <2>2 DEF TargetInv, MarksLate
  <2> QED
    BY <1>4, <1>5, <2>3, <2>4, <2>5 DEF TargetInv, ExtractsInPlace, RenamesWhole
<1>7. CASE j # <<c, slot[c]>>
  <2>1. /\ LateIs(c, "rename") /\ Current(c)'.state = Current(c).state
        /\ Current(c)'.at = IF Current(c).at = "staging" THEN q ELSE Current(c).at
    BY <1>1, <1>3, <1>5, <1>7, CurrentJob DEF LateIs
  <2>2. RenamesWhole(c)' /\ RenamesOnce(c)'
    BY <1>2, <1>5, <2>1 DEF RenamesWhole, RenamesOnce
  <2>3. MarksWhole(c)'
    BY <1>1, <1>2, <1>5, <2>1 DEF TargetInv, MarksWhole, Marking
  <2>4. MarksLate(c)'
    BY <1>5, <2>1 DEF MarksLate, LateIs
  <2>5. ExtractsInPlace(c)'
    <3> SUFFICES ASSUME Extracting(c)'
                 PROVE  ExtractsInPlace(c)'
      BY DEF ExtractsInPlace
    <3>1. /\ Extracting(c)
          /\ Current(c).at = "target" => ~ target.marked /\ ~ partial.there
          /\ Current(c).at = "staging" => partial.there
      BY <1>1, <2>1 DEF TargetInv, ExtractsInPlace, Extracting
    <3>2. Current(c)'.at # "staging"
      BY <2>1
    <3>3. Current(c)'.at = "target" => ~ target'.marked
      BY <1>2, <2>1, <3>1 DEF DirsInv
    <3> QED
      BY <1>2, <1>5, <2>1, <3>2, <3>3 DEF ExtractsInPlace
  <2> QED
    BY <1>4, <1>5, <2>2, <2>3, <2>4, <2>5 DEF TargetInv
<1> QED
  BY <1>6, <1>7

LEMMA CleanupTarget ==
  ASSUME RemoteTypes, OneUser, DirsInv, NEW c \in Clients, TargetInv(c), Remote!Cleanup
  PROVE  DirsInv' /\ TargetInv(c)'
<1>1. /\ UNCHANGED <<partial, client, slot>> /\ target' = Remote!NoDir
      /\ job' = Remote!Moved("target", "gone")
  BY DEF Remote!Cleanup
<1>2. ~ target'.there /\ ~ target'.marked
  BY <1>1, DirsOf
<1>3. \A k \in Remote!Jobs :
        /\ job'[k].command = job[k].command /\ job'[k].state = job[k].state
        /\ job'[k].at = IF job[k].at = "target" THEN "gone" ELSE job[k].at
        /\ job[k] = Remote!NoJob => job'[k] = Remote!NoJob
  <2>1. \A k \in Remote!Jobs :
          job[k] = Remote!NoJob => Remote!Moved("target", "gone")[k] = Remote!NoJob
    BY DEF Remote!Moved, Remote!NoJob, Remote!Job
  <2> QED
    BY <1>1, <2>1, MovedJobs DEF Places
<1>4. DirsInv'
  BY <1>1, <1>2 DEF DirsInv
<1>5. /\ Current(c)'.command = Current(c).command /\ Current(c)'.state = Current(c).state
      /\ Current(c)'.at = IF Current(c).at = "target" THEN "gone" ELSE Current(c).at
      /\ slot[c] = 1 => /\ Older(c)'.command = Older(c).command
                        /\ Older(c)'.state = Older(c).state
  BY <1>1, <1>3, CurrentJob, SlotsOf DEF Current, Older
<1>6. /\ Waits(c)' /\ \A p : LateIs(c, p)' <=> LateIs(c, p)
  BY <1>1, <1>5 DEF TargetInv, Waits, LateIs
<1>7. LeftOne(c)'
  BY <1>1, <1>3, <1>5 DEF TargetInv, LeftOne, Remote!Jobs
<1>8. RenamesWhole(c)' /\ RenamesOnce(c)' /\ MarksWhole(c)' /\ MarksLate(c)'
  BY <1>1, <1>2, <1>5, <1>6
     DEF TargetInv, RenamesWhole, Ready, RenamesOnce, MarksWhole, Marking, MarksLate
<1>9. ExtractsInPlace(c)'
  BY <1>1, <1>2, <1>5, <1>6 DEF TargetInv, ExtractsInPlace, Extracting
<1> QED
  BY <1>4, <1>6, <1>7, <1>8, <1>9 DEF TargetInv

LEMMA NextTarget ==
  ASSUME RemoteTypes, OneUser, DirsInv, \A c \in Clients : TargetInv(c),
         [Remote!Next]_(Remote!vars)
  PROVE  DirsInv' /\ \A c \in Clients : TargetInv(c)'
<1>0. CASE Clients = {}
  <2>1. Remote!Jobs = {}
    BY <1>0 DEF Remote!Jobs
  <2>2. UNCHANGED partial /\ (target' = target \/ target' = Remote!NoDir)
    BY <1>0, <2>1 DEF Remote!Next, Remote!Cleanup, Remote!vars, Remote!dirs
  <2> QED
    BY <1>0, <2>2, DirsOf DEF DirsInv
<1>1. ASSUME NEW c \in Clients
      PROVE  DirsInv' /\ TargetInv(c)'
  <2>1. CASE \E d \in Clients : Remote!Step(d) \/ Remote!Abandon(d)
    BY <2>1, UserTarget, AbandonTarget DEF OneUser
  <2>2. ASSUME NEW j \in Remote!Jobs, Remote!Stumble(j) \/ Remote!Test(j) \/ Remote!Probe(j)
        PROVE  DirsInv' /\ TargetInv(c)'
    <3>1. \E s \in {"zero", "nonzero"} :
            /\ Remote!Exit(j, s)
            /\ s = "zero" => job[j].command \in {"test", "probe"}
      BY <2>2 DEF Remote!Stumble, Remote!Test, Remote!Probe
    <3>2. UNCHANGED <<partial, target, client, slot>> /\ job[j].state = "sent"
      BY <2>2 DEF Remote!Stumble, Remote!Test, Remote!Probe, Remote!dirs
    <3> QED
      BY <3>1, <3>2, ExitTarget
  <2>3. ASSUME NEW j \in Remote!Jobs, Remote!Mkdir(j)
        PROVE  DirsInv' /\ TargetInv(c)'
    <3>1. /\ Remote!Exit(j, "zero") /\ UNCHANGED <<target, client, slot>>
          /\ job[j].state = "sent" /\ job[j].command \in {"mkdir", "ready"}
      BY <2>3 DEF Remote!Mkdir
    <3>2. /\ partial'.there /\ partial'.complete = partial.complete
          /\ partial'.marked = partial.marked
      BY <2>3 DEF Remote!Mkdir, Remote!Make, RemoteTypes, Remote!Dirs
    <3> QED
      BY <3>1, <3>2, ExitTarget
  <2>4. ASSUME NEW j \in Remote!Jobs, Remote!Put(j)
        PROVE  DirsInv' /\ TargetInv(c)'
    <3>1. /\ UNCHANGED <<target, client, slot>> /\ job[j].command = "put"
          /\ job[j].state \in {"sent", "half"}
      BY <2>4 DEF Remote!Put
    <3>2. CASE job' = [job EXCEPT ![j] = Remote!Job("put", "half", "staging")]
               /\ job[j].state = "sent" /\ partial.there
               /\ partial' = [partial EXCEPT !.archive = FALSE, !.hands = @ \cup {j}]
      <4>1. /\ partial'.there = partial.there /\ partial'.complete = partial.complete
            /\ partial'.marked = partial.marked
        BY <3>2 DEF RemoteTypes, Remote!Dirs
      <4> QED
        BY <3>1, <3>2, <4>1, StartTarget
    <3>3. CASE Remote!Exit(j, "zero") \/ Remote!Exit(j, "nonzero")
      <4>1. /\ partial'.there = partial.there /\ partial'.complete = partial.complete
            /\ partial'.marked = partial.marked
        BY <2>4 DEF Remote!Put, RemoteTypes, Remote!Dirs
      <4> QED
        BY <3>1, <3>3, <4>1, ExitTarget
    <3> QED
      BY <2>4, <3>2, <3>3 DEF Remote!Put
  <2>5. ASSUME NEW j \in Remote!Jobs, Remote!Extract(j)
        PROVE  DirsInv' /\ TargetInv(c)'
    <3>1. /\ UNCHANGED <<target, client, slot>> /\ job[j].command = "extract"
          /\ job[j].state = "sent"
      BY <2>5 DEF Remote!Extract
    <3>2. /\ partial'.there = partial.there /\ partial'.complete = partial.complete
          /\ partial'.marked = partial.marked
      BY <2>5 DEF Remote!Extract, RemoteTypes, Remote!Dirs
    <3>3. CASE /\ job' = [job EXCEPT ![j] = Remote!Job("extract", "half", "staging")]
               /\ partial.there
      BY <3>1, <3>2, <3>3, StartTarget
    <3>4. CASE Remote!Exit(j, "nonzero")
      BY <3>1, <3>2, <3>4, ExitTarget
    <3> QED
      BY <2>5, <3>3, <3>4 DEF Remote!Extract
  <2>6. CASE UNCHANGED Remote!vars
    BY <2>6 DEF Remote!vars, Remote!dirs, DirsInv, TargetInv, Waits, LeftOne, ExtractsInPlace,
       Extracting, RenamesWhole, Ready, RenamesOnce, MarksWhole, Marking, MarksLate, LateIs,
       Current, Older
  <2> QED
    BY <2>1, <2>2, <2>3, <2>4, <2>5, <2>6, EndExtractTarget, MarkTarget, RemoveTarget,
       RenameTarget, CleanupTarget DEF Remote!Next, Remote!Run
<1> QED
  BY <1>0, <1>1

LEMMA InitTarget ==
  ASSUME Remote!Init, OneUser
  PROVE  DirsInv /\ \A c \in Clients : TargetInv(c)
<1>1. DirsInv
  BY DirsOf DEF Remote!Init, DirsInv
<1>2. ASSUME NEW c \in Clients
      PROVE  TargetInv(c)
  <2>1. /\ client[c] = "idle" /\ slot[c] = 0
        /\ \A j \in Remote!Jobs : job[j] = Remote!NoJob
    BY Limits DEF Remote!Init
  <2>2. Current(c).state = "none"
    BY <2>1, InitRemoteTypes, CurrentJob, JobsOf DEF Current
  <2>3. LeftOne(c)
    BY <2>1 DEF LeftOne, Remote!Jobs
  <2> QED
    BY <2>1, <2>2, <2>3 DEF TargetInv, Waits, ExtractsInPlace, Extracting, RenamesWhole, Ready,
       RenamesOnce, MarksWhole, Marking, MarksLate, LateIs, Remote!Commands
<1> QED
  BY <1>1, <1>2

-----------------------------------------------------------------------------
(* A version put on a target, whoever uses it and whatever is left behind. *)
(* As long as one command alone has had a hand in a directory, what has    *)
(* been found of the directory still holds.                                *)

Only(d, j) == d.there /\ d.hands \subseteq {j}

\* The command a client waits for.
Asked(c) == client[c] \in Remote!Commands => job[<<c, slot[c]>>].command = client[c]

\* Of a command's job b and the two directories p and t: where it unpacks; what it
\* unpacked alone is complete; it has removed the target, or someone has made
\* another; what it renamed alone is complete.
Unpacks2(b) == b.command = "extract" /\ b.state = "half"
Fresh(b)    == \/ b.command = "extract" /\ b.state = "zero"
               \/ b.command = "rename" /\ b.state \in {"sent", "half"}
Removed(b)  == b.command = "rename" /\ b.state = "half"
Renamed(b)  == \/ b.command = "rename" /\ b.state = "zero"
               \/ b.command = "mark" /\ b.state = "sent"

JobInv(j, b, p, t) ==
  /\ Unpacks2(b) =>
       /\ b.at = "staging" => p.there /\ j \in p.hands
       /\ b.at = "target" =>
            ~ Only(p, j) /\ t.there /\ j \in t.hands /\ ~ (t.hands \subseteq {j})
  /\ Fresh(b) /\ Only(p, j) => p.complete
  /\ Removed(b) => ~ Only(t, j)
  /\ Renamed(b) /\ Only(t, j) => t.complete

Accepted(t) == t.marked => t.complete \/ \E i, j \in t.hands : i # j

ManyInv == /\ \A c \in Clients : Asked(c)
           /\ \A j \in Remote!Jobs : JobInv(j, job[j], partial, target)
           /\ ~ partial.marked /\ Accepted(target)

\* A job whose command is past, or has no say.
LEMMA IdleJob ==
  ASSUME NEW j, NEW b, NEW p, NEW t,
         b.state \in {"none", "nonzero"} \/ b.command \notin {"extract", "rename", "mark"}
  PROVE  JobInv(j, b, p, t)
<1> QED
  BY DEF JobInv, Unpacks2, Fresh, Removed, Renamed

\* Another command's hand in a directory.
LEMMA OthersHand ==
  ASSUME NEW i, NEW j, i # j, NEW b, NEW p, NEW t, NEW r, NEW u,
         JobInv(i, b, p, t),
         r = p \/ (p.hands \subseteq r.hands /\ j \in r.hands),
         u = t \/ (t.hands \subseteq u.hands /\ j \in u.hands), t.there => u.there,
         p.there => r.there
  PROVE  JobInv(i, b, r, u)
<1>1. Only(r, i) => r = p
  BY DEF Only
<1>2. Only(u, i) => u = t
  BY DEF Only
<1>3. /\ Unpacks2(b) /\ b.at = "staging" => r.there /\ i \in r.hands
      /\ Unpacks2(b) /\ b.at = "target" => 
           u.there /\ i \in u.hands /\ ~ (u.hands \subseteq {i})
  BY DEF JobInv
<1> QED
  BY <1>1, <1>2, <1>3 DEF JobInv

LEMMA UserMany ==
  ASSUME RemoteTypes, ManyInv, NEW c \in Clients, Remote!Step(c)
  PROVE  ManyInv'
<1> DEFINE j == <<c, slot[c]>>
<1>1. UNCHANGED <<partial, target, slot>>
  BY DEF Remote!Step, Remote!Begin, Remote!Hit, Remote!Miss, Remote!Proceed, Remote!Fail,
         Remote!Done, Remote!dirs
<1>2. j \in Remote!Jobs /\ \A d \in Clients : d # c => <<d, slot[d]>> \in Remote!Jobs /\ <<d, slot[d]>> # j
  BY CurrentJob
<1>3. ASSUME \A d \in Clients : d # c => client'[d] = client[d],
             \A k \in Remote!Jobs : k # j => job'[k] = job[k],
             client'[c] \in Remote!Commands => job'[j].command = client'[c],
             JobInv(j, job'[j], partial, target)
      PROVE  ManyInv'
  <2>1. ASSUME NEW d \in Clients PROVE Asked(d)'
    <3>1. CASE d = c
      BY <1>1, <1>3, <3>1 DEF Asked
    <3>2. CASE d # c
      BY <1>1, <1>2, <1>3, <3>2 DEF Asked, ManyInv
    <3> QED
      BY <3>1, <3>2
  <2>2. ASSUME NEW k \in Remote!Jobs PROVE JobInv(k, job'[k], partial', target')
    BY <1>1, <1>3 DEF ManyInv
  <2> QED
    BY <1>1, <2>1, <2>2 DEF ManyInv
<1>4. ASSUME NEW p \in Remote!Commands, Remote!Issue(c, p),
             p \in {"rename", "mark"} => /\ client[c] \in Remote!Commands /\ job[j].state = "zero"
                                         /\ p = "rename" => client[c] = "extract"
                                         /\ p = "mark" => client[c] = "rename"
      PROVE  ManyInv'
  <2>1. /\ job'[j] = [command |-> p, state |-> "sent", at |-> "gone"]
        /\ \A k \in Remote!Jobs : k # j => job'[k] = job[k]
        /\ client' = [client EXCEPT ![c] = p]
    BY <1>4, IssueOf
  <2>2. client'[c] = p /\ \A d \in Clients : d # c => client'[d] = client[d]
    BY <2>1 DEF RemoteTypes
  <2>3. JobInv(j, job'[j], partial, target)
    <3>1. CASE p \notin {"rename", "mark"}
      BY <2>1, <3>1 DEF JobInv, Unpacks2, Fresh, Removed, Renamed
    <3>2. CASE p \in {"rename", "mark"}
      <4>1. /\ job[j].command = client[c] /\ job[j].state = "zero"
            /\ JobInv(j, job[j], partial, target)
        BY <1>2, <1>4, <3>2 DEF ManyInv, Asked
      <4> HIDE DEF j
      <4> QED
        BY <1>4, <2>1, <3>2, <4>1 DEF JobInv, Unpacks2, Fresh, Removed, Renamed
    <3> QED
      BY <3>1, <3>2
  <2> QED
    BY <1>3, <2>1, <2>2, <2>3
<1>5. ASSUME NEW p \in {"idle", "using"}, Remote!Goto(c, p),
             job' = [job EXCEPT ![j] = Remote!NoJob] \/ UNCHANGED job
      PROVE  ManyInv'
  <2>1. client'[c] = p /\ \A d \in Clients : d # c => client'[d] = client[d]
    BY <1>5 DEF Remote!Goto, RemoteTypes
  <2>2. \A k \in Remote!Jobs : k # j => job'[k] = job[k]
    BY <1>5 DEF RemoteTypes
  <2>3. job'[j] = Remote!NoJob \/ job'[j] = job[j]
    BY <1>2, <1>5 DEF RemoteTypes
  <2>4. JobInv(j, job'[j], partial, target)
    BY <1>2, <2>3, IdleJob, JobsOf DEF ManyInv
  <2> QED
    BY <1>3, <2>1, <2>2, <2>4 DEF Remote!Commands
<1>6. CASE Remote!Begin(c)
  BY <1>4, <1>6 DEF Remote!Begin, Remote!Commands
<1>7. CASE Remote!Hit(c) \/ Remote!Fail(c) \/ Remote!Done(c)
  BY <1>5, <1>7 DEF Remote!Hit, Remote!Fail, Remote!Done
<1>8. CASE Remote!Miss(c)
  <2>1. \E p \in {"probe", "mkdir"} : Remote!Issue(c, p)
    BY <1>8, JobsOf DEF Remote!Miss
  <2> QED
    BY <1>4, <2>1 DEF Remote!Commands
<1>9. CASE Remote!Proceed(c)
  <2>1. PICK p \in Remote!Commands \ {"test"} :
          /\ Remote!Answered(c, p, "zero")
          /\ IF Remote!After(p) = "using"
             THEN /\ Remote!Goto(c, "using")
                  /\ job' = [job EXCEPT ![<<c, slot[c]>>] = Remote!NoJob]
             ELSE Remote!Issue(c, Remote!After(p))
    BY <1>9 DEF Remote!Proceed
  <2>2. /\ Remote!After(p) = "using" \/ Remote!After(p) \in Remote!Commands
        /\ Remote!After(p) = "rename" => p = "extract"
        /\ Remote!After(p) = "mark" => p = "rename"
        /\ client[c] = p /\ job[j].state = "zero"
    BY <2>1, JobsOf DEF Remote!Answered
  <2>3. CASE Remote!After(p) = "using"
    BY <1>5, <2>1, <2>3
  <2>4. CASE Remote!After(p) # "using"
    <3> HIDE DEF j
    <3> QED
      BY <1>4, <2>1, <2>2, <2>4
  <2> QED
    BY <2>3, <2>4
<1> QED
  BY <1>6, <1>7, <1>8, <1>9 DEF Remote!Step

LEMMA AbandonMany ==
  ASSUME RemoteTypes, ManyInv, NEW c \in Clients, Remote!Abandon(c)
  PROVE  ManyInv'
<1> DEFINE j == <<c, slot[c]>>
<1>1. /\ UNCHANGED <<partial, target>> /\ client'[c] = "idle"
      /\ \A d \in Clients : d # c => client'[d] = client[d] /\ slot'[d] = slot[d]
      /\ UNCHANGED job \/ job' = [job EXCEPT ![j] = Remote!NoJob]
  BY DEF Remote!Abandon, Remote!dirs, Remote!Goto, RemoteTypes
<1>2. \A d \in Clients : d # c => <<d, slot[d]>> \in Remote!Jobs /\ <<d, slot[d]>> # j
  BY CurrentJob
<1>3. \A k \in Remote!Jobs : /\ job'[k] = job[k] \/ job'[k] = Remote!NoJob
                             /\ k # j => job'[k] = job[k]
  BY <1>1 DEF RemoteTypes
<1>4. ASSUME NEW d \in Clients PROVE Asked(d)'
  <2>1. CASE d = c
    BY <1>1, <2>1 DEF Asked, Remote!Commands
  <2>2. CASE d # c
    BY <1>1, <1>2, <1>3, <2>2 DEF Asked, ManyInv
  <2> QED
    BY <2>1, <2>2
<1>5. ASSUME NEW k \in Remote!Jobs PROVE JobInv(k, job'[k], partial', target')
  BY <1>1, <1>3, IdleJob, JobsOf DEF ManyInv
<1> QED
  BY <1>1, <1>4, <1>5 DEF ManyInv

\* A command's own step with a hand in the directories; all others are where they were.
LEMMA HandMany ==
  ASSUME RemoteTypes, ManyInv, NEW j \in Remote!Jobs, UNCHANGED <<client, slot>>,
         \A k \in Remote!Jobs : k # j => job'[k] = job[k],
         job'[j].command = job[j].command,
         partial' = partial \/ (partial.hands \subseteq partial'.hands /\ j \in partial'.hands),
         target' = target \/ (target.hands \subseteq target'.hands /\ j \in target'.hands),
         target.there => target'.there, partial.there => partial'.there,
         JobInv(j, job'[j], partial', target'),
         ~ partial'.marked, Accepted(target')
  PROVE  ManyInv'
<1>1. ASSUME NEW k \in Remote!Jobs PROVE JobInv(k, job'[k], partial', target')
  <2>1. CASE k = j
    BY <2>1
  <2>2. CASE k # j
    <3>1. JobInv(k, job[k], partial, target) /\ job'[k] = job[k]
      BY <2>2 DEF ManyInv
    <3>2. JobInv(k, job[k], partial', target')
      BY <2>2, <3>1, OthersHand
    <3> QED
      BY <3>1, <3>2
  <2> QED
    BY <2>1, <2>2
<1>2. ASSUME NEW c \in Clients PROVE Asked(c)'
  <2>1. <<c, slot[c]>> \in Remote!Jobs
    BY CurrentJob
  <2>2. job'[<<c, slot[c]>>].command = job[<<c, slot[c]>>].command
    BY <2>1
  <2> QED
    BY <2>2 DEF Asked, ManyInv
<1> QED
  BY <1>1, <1>2 DEF ManyInv

\* The commands but for the renaming ones.
LEMMA WorkMany ==
  ASSUME RemoteTypes, ManyInv, NEW j \in Remote!Jobs,
         \/ Remote!Stumble(j) \/ Remote!Test(j) \/ Remote!Probe(j) \/ Remote!Mkdir(j)
         \/ Remote!Put(j) \/ Remote!Extract(j) \/ Remote!Mark(j)
  PROVE  ManyInv'
<1>0. partial \in Remote!Dirs /\ target \in Remote!Dirs /\ JobInv(j, job[j], partial, target)
      /\ ~ partial.marked /\ Accepted(target)
  BY DEF RemoteTypes, ManyInv
<1>1. ASSUME NEW s \in Remote!States, Remote!Exit(j, s)
      PROVE  /\ job'[j].command = job[j].command /\ job'[j].state = s
             /\ \A k \in Remote!Jobs : k # j => job'[k] = job[k]
  <2>1. /\ job'[j] = [command |-> job[j].command, state |-> s, at |-> "gone"]
        /\ \A k \in Remote!Jobs : k # j => job'[k] = job[k]
    BY <1>1, ExitOf
  <2> QED
    BY <2>1
<1>2. CASE Remote!Stumble(j) \/ Remote!Test(j) \/ Remote!Probe(j)
  <2>1. UNCHANGED <<partial, target, client, slot>>
    BY <1>2 DEF Remote!Stumble, Remote!Test, Remote!Probe, Remote!dirs
  <2>2. PICK s \in {"zero", "nonzero"} :
          /\ Remote!Exit(j, s)
          /\ s = "zero" => job[j].command \in {"test", "probe"}
    BY <1>2 DEF Remote!Stumble, Remote!Test, Remote!Probe
  <2>3. /\ job'[j].command = job[j].command /\ job'[j].state = s
        /\ \A k \in Remote!Jobs : k # j => job'[k] = job[k]
    BY <1>1, <2>2 DEF Remote!States
  <2>4. JobInv(j, job'[j], partial', target')
    BY <2>2, <2>3, IdleJob
  <2> QED
    BY <1>0, <2>1, <2>3, <2>4, HandMany
<1>3. CASE Remote!Mkdir(j)
  <2>1. /\ Remote!Exit(j, "zero") /\ UNCHANGED <<target, client, slot>>
        /\ job[j].command \in {"mkdir", "ready"}
        /\ partial' = [Remote!Make(partial) EXCEPT !.hands = @ \cup {j}]
    BY <1>3 DEF Remote!Mkdir
  <2>2. /\ partial'.hands = partial.hands \cup {j} /\ partial'.marked = partial.marked
        /\ partial'.there
    BY <1>0, <2>1 DEF Remote!Make, Remote!Dirs
  <2>3. /\ job'[j].command = job[j].command
        /\ \A k \in Remote!Jobs : k # j => job'[k] = job[k]
    BY <1>1, <2>1 DEF Remote!States
  <2>4. JobInv(j, job'[j], partial', target')
    BY <2>1, <2>3, IdleJob
  <2> QED
    BY <1>0, <2>1, <2>2, <2>3, <2>4, HandMany
<1>4. CASE Remote!Put(j)
  <2>1. job[j].command = "put" /\ UNCHANGED <<target, client, slot>>
    BY <1>4 DEF Remote!Put
  <2>2. /\ partial' = partial \/ (partial.hands \subseteq partial'.hands /\ j \in partial'.hands)
           \/ partial' = [partial EXCEPT !.archive = TRUE]
        /\ partial'.marked = partial.marked /\ partial'.there = partial.there
    BY <1>0, <1>4 DEF Remote!Put, Remote!Dirs
  <2>3. /\ job'[j].command = job[j].command
        /\ \A k \in Remote!Jobs : k # j => job'[k] = job[k]
    <3>1. CASE job' = [job EXCEPT ![j] = Remote!Job("put", "half", "staging")]
      BY <2>1, <3>1, JobsOf DEF RemoteTypes, Remote!Commands, Remote!States, Places
    <3>2. CASE Remote!Exit(j, "zero") \/ Remote!Exit(j, "nonzero")
      BY <1>1, <3>2 DEF Remote!States
    <3> QED
      BY <1>4, <3>1, <3>2 DEF Remote!Put
  <2>4. JobInv(j, job'[j], partial', target')
    BY <2>1, <2>3, IdleJob
  <2>5. CASE partial' = [partial EXCEPT !.archive = TRUE]
    <3>1. /\ partial'.hands = partial.hands /\ partial'.complete = partial.complete
          /\ partial'.there = partial.there
      BY <1>0, <2>5 DEF Remote!Dirs
    <3>2. ASSUME NEW k \in Remote!Jobs PROVE JobInv(k, job'[k], partial', target')
      BY <2>1, <2>3, <2>4, <3>1 DEF ManyInv, JobInv, Only
    <3>3. ASSUME NEW c \in Clients PROVE Asked(c)'
      <4>1. <<c, slot[c]>> \in Remote!Jobs
        BY CurrentJob
      <4>2. job'[<<c, slot[c]>>].command = job[<<c, slot[c]>>].command
        BY <2>3, <4>1
      <4> QED
        BY <2>1, <4>2 DEF Asked, ManyInv
    <3> QED
      BY <1>0, <2>1, <2>2, <3>2, <3>3 DEF ManyInv
  <2>6. CASE partial' = partial \/ (partial.hands \subseteq partial'.hands /\ j \in partial'.hands)
    BY <1>0, <2>1, <2>2, <2>3, <2>4, <2>6, HandMany
  <2> QED
    BY <2>2, <2>5, <2>6
<1>5. CASE Remote!Extract(j)
  <2>1. job[j].command = "extract" /\ UNCHANGED <<target, client, slot>>
    BY <1>5 DEF Remote!Extract
  <2>2. CASE /\ job' = [job EXCEPT ![j] = Remote!Job("extract", "half", "staging")]
             /\ partial' = [partial EXCEPT !.hands = @ \cup {j}] /\ partial.there
    <3>1. /\ job'[j] = [command |-> "extract", state |-> "half", at |-> "staging"]
          /\ \A k \in Remote!Jobs : k # j => job'[k] = job[k]
      BY <2>2, JobsOf DEF RemoteTypes, Remote!Commands, Remote!States, Places
    <3>2. /\ partial'.hands = partial.hands \cup {j} /\ partial'.marked = partial.marked
          /\ partial'.there
      BY <1>0, <2>2 DEF Remote!Dirs
    <3>3. JobInv(j, job'[j], partial', target')
      BY <3>1, <3>2 DEF JobInv, Unpacks2, Fresh, Removed, Renamed
    <3> QED
      BY <1>0, <2>1, <3>1, <3>2, <3>3, HandMany
  <2>3. CASE Remote!Exit(j, "nonzero") /\ UNCHANGED partial
    <3>1. /\ job'[j].command = job[j].command /\ job'[j].state = "nonzero"
          /\ \A k \in Remote!Jobs : k # j => job'[k] = job[k]
      BY <1>1, <2>3 DEF Remote!States
    <3>2. JobInv(j, job'[j], partial', target')
      BY <3>1, IdleJob
    <3> QED
      BY <1>0, <2>1, <2>3, <3>1, <3>2, HandMany
  <2> QED
    BY <1>5, <2>2, <2>3 DEF Remote!Extract
<1>6. CASE Remote!Mark(j)
  <2>1. /\ job[j].command = "mark" /\ job[j].state = "sent"
        /\ UNCHANGED <<partial, client, slot>>
        /\ target' = IF target.there
                     THEN [target EXCEPT !.marked = TRUE, !.hands = @ \cup {j}] ELSE target
    BY <1>6 DEF Remote!Mark
  <2>2. PICK s \in {"zero", "nonzero"} : Remote!Exit(j, s)
    BY <1>6 DEF Remote!Mark
  <2>3. /\ job'[j].command = "mark" /\ job'[j].state = s
        /\ \A k \in Remote!Jobs : k # j => job'[k] = job[k]
    BY <1>1, <2>1, <2>2 DEF Remote!States
  <2>4. JobInv(j, job'[j], partial', target')
    BY <2>3 DEF JobInv, Unpacks2, Fresh, Removed, Renamed
  <2>5. CASE target.there
    <3>1. /\ target'.hands = target.hands \cup {j} /\ target'.complete = target.complete
          /\ target'.there = target.there
      BY <1>0, <2>1, <2>5 DEF Remote!Dirs
    <3>2. target.hands \subseteq {j} => target.complete
      BY <1>0, <2>1, <2>5 DEF JobInv, Renamed, Only
    <3>3. Accepted(target')
      BY <3>1, <3>2 DEF Accepted
    <3> QED
      BY <1>0, <2>1, <2>3, <2>4, <3>1, <3>3, HandMany
  <2>6. CASE ~ target.there
    BY <1>0, <2>1, <2>3, <2>4, <2>6, HandMany
  <2> QED
    BY <2>5, <2>6
<1> QED
  BY <1>2, <1>3, <1>4, <1>5, <1>6

LEMMA EndExtractMany ==
  ASSUME RemoteTypes, ManyInv, NEW j \in Remote!Jobs, Remote!EndExtract(j)
  PROVE  ManyInv'
<1>0. /\ partial \in Remote!Dirs /\ target \in Remote!Dirs
      /\ JobInv(j, job[j], partial, target) /\ ~ partial.marked /\ Accepted(target)
  BY DEF RemoteTypes, ManyInv
<1>1. /\ job[j].state = "half" /\ job[j].command = "extract" /\ UNCHANGED <<client, slot>>
  BY DEF Remote!EndExtract
<1>2. PICK s \in {"zero", "nonzero"}, b \in BOOLEAN :
        /\ Remote!Exit(j, s)
        /\ partial' = IF job[j].at = "staging" THEN [partial EXCEPT !.complete = b] ELSE partial
        /\ target' = IF job[j].at = "target" THEN [target EXCEPT !.complete = b] ELSE target
        /\ s = "zero" => b /\ job[j].at # "gone"
  BY DEF Remote!EndExtract, Remote!Extracted, Remote!Spoiled
<1>3. /\ job'[j].command = "extract" /\ job'[j].state = s
      /\ \A k \in Remote!Jobs : k # j => job'[k] = job[k]
  <2>1. s \in Remote!States
    BY DEF Remote!States
  <2>2. /\ job'[j] = [command |-> job[j].command, state |-> s, at |-> "gone"]
        /\ \A k \in Remote!Jobs : k # j => job'[k] = job[k]
    BY <1>2, <2>1, ExitOf
  <2> QED
    BY <1>1, <2>2
<1>4. /\ partial'.there = partial.there /\ partial'.marked = partial.marked
      /\ partial'.hands = partial.hands /\ target'.hands = target.hands
      /\ target'.there = target.there /\ target'.marked = target.marked
      /\ partial'.complete = IF job[j].at = "staging" THEN b ELSE partial.complete
      /\ job[j].at \in Places
  BY <1>0, <1>2 DEF RemoteTypes, Remote!Dirs, JobType
<1>5. /\ job[j].at = "staging" => partial.there /\ j \in partial.hands
      /\ job[j].at = "target" =>
           ~ Only(partial, j) /\ j \in target.hands /\ ~ (target.hands \subseteq {j})
  BY <1>0, <1>1 DEF JobInv, Unpacks2
<1>6. partial' = partial \/ (partial.hands \subseteq partial'.hands /\ j \in partial'.hands)
  BY <1>2, <1>4, <1>5
<1>7. target' = target \/ (target.hands \subseteq target'.hands /\ j \in target'.hands)
  BY <1>2, <1>4, <1>5
<1>8. Accepted(target')
  <2>1. CASE job[j].at = "target"
    BY <1>4, <1>5, <2>1 DEF Accepted
  <2>2. CASE job[j].at # "target"
    BY <1>0, <1>2, <2>2
  <2> QED
    BY <2>1, <2>2
<1>9. JobInv(j, job'[j], partial', target')
  <2>1. s = "zero" /\ Only(partial', j) => partial'.complete
    BY <1>2, <1>4, <1>5 DEF Only, Places
  <2> QED
    BY <1>3, <2>1 DEF JobInv, Unpacks2, Fresh, Removed, Renamed
<1> QED
  BY <1>0, <1>1, <1>3, <1>4, <1>6, <1>7, <1>8, <1>9, HandMany

\* The target is gone, and with it what worked there.
LEMMA GoneTarget ==
  ASSUME NEW i, NEW b, NEW b2, NEW p, NEW t, JobInv(i, b, p, t),
         b2.command = b.command, b2.state = b.state,
         b2.at = IF b.at = "target" THEN "gone" ELSE b.at
  PROVE  JobInv(i, b2, p, Remote!NoDir)
<1>1. ~ Only(Remote!NoDir, i) /\ b2.at # "target" /\ (b2.at = "staging" => b.at = "staging")
  BY DirsOf DEF Only
<1> QED
  BY <1>1 DEF JobInv, Unpacks2, Fresh, Removed, Renamed

\* The same commands, in the same states but for that of j.
LEMMA AskedStay ==
  ASSUME RemoteTypes, ManyInv, UNCHANGED <<client, slot>>,
         \A k \in Remote!Jobs : job'[k].command = job[k].command
  PROVE  \A c \in Clients : Asked(c)'
<1> SUFFICES ASSUME NEW c \in Clients PROVE Asked(c)'
  OBVIOUS
<1>1. <<c, slot[c]>> \in Remote!Jobs
  BY CurrentJob
<1>2. job'[<<c, slot[c]>>].command = job[<<c, slot[c]>>].command
  BY <1>1
<1> QED
  BY <1>2 DEF Asked, ManyInv

LEMMA RemoveMany ==
  ASSUME RemoteTypes, ManyInv, NEW j \in Remote!Jobs, Remote!Remove(j)
  PROVE  ManyInv'
<1>1. /\ job[j].state = "sent" /\ job[j].command = "rename"
      /\ UNCHANGED <<partial, client, slot>> /\ target' = Remote!NoDir
  BY DEF Remote!Remove
<1>2. /\ job'[j].command = job[j].command /\ job'[j].state = "half"
      /\ \A k \in Remote!Jobs :
           /\ job'[k].command = job[k].command
           /\ k # j => /\ job'[k].state = job[k].state
                       /\ job'[k].at = IF job[k].at = "target" THEN "gone" ELSE job[k].at
  BY <1>1, RenameJobs DEF Remote!Remove, Remote!States, Places
<1>3. ASSUME NEW k \in Remote!Jobs PROVE JobInv(k, job'[k], partial', target')
  <2>1. JobInv(k, job[k], partial, target)
    BY DEF ManyInv
  <2>2. CASE k # j
    BY <1>1, <1>2, <2>1, <2>2, GoneTarget
  <2>3. CASE k = j
    <3>1. Only(partial, j) => partial.complete
      BY <1>1, <2>1, <2>3 DEF JobInv, Fresh
    <3>2. ~ Only(target', j)
      BY <1>1, DirsOf DEF Only
    <3> QED
      BY <1>1, <1>2, <2>3, <3>1, <3>2 DEF JobInv, Unpacks2, Fresh, Removed, Renamed
  <2> QED
    BY <2>2, <2>3
<1>4. Accepted(target') /\ ~ partial'.marked
  BY <1>1, DirsOf DEF Accepted, ManyInv
<1> QED
  BY <1>1, <1>2, <1>3, <1>4, AskedStay DEF ManyInv

LEMMA CleanupMany ==
  ASSUME RemoteTypes, ManyInv, Remote!Cleanup
  PROVE  ManyInv'
<1>1. /\ UNCHANGED <<partial, client, slot>> /\ target' = Remote!NoDir
      /\ job' = Remote!Moved("target", "gone")
  BY DEF Remote!Cleanup
<1>2. \A k \in Remote!Jobs :
        /\ job'[k].command = job[k].command /\ job'[k].state = job[k].state
        /\ job'[k].at = IF job[k].at = "target" THEN "gone" ELSE job[k].at
  BY <1>1, MovedJobs DEF Places
<1>3. ASSUME NEW k \in Remote!Jobs PROVE JobInv(k, job'[k], partial', target')
  <2>1. JobInv(k, job[k], partial, target)
    BY DEF ManyInv
  <2> QED
    BY <1>1, <1>2, <2>1, GoneTarget
<1>4. Accepted(target') /\ ~ partial'.marked
  BY <1>1, DirsOf DEF Accepted, ManyInv
<1> QED
  BY <1>1, <1>2, <1>3, <1>4, AskedStay DEF ManyInv

LEMMA RenameMany ==
  ASSUME RemoteTypes, ManyInv, NEW j \in Remote!Jobs, Remote!Rename(j)
  PROVE  ManyInv'
<1> DEFINE q == IF target.there THEN "gone" ELSE "target"
           s == IF partial.there THEN "zero" ELSE "nonzero"
<1>0. /\ partial \in Remote!Dirs /\ target \in Remote!Dirs
      /\ JobInv(j, job[j], partial, target) /\ ~ partial.marked /\ Accepted(target)
  BY DEF RemoteTypes, ManyInv
<1>1. /\ job[j].state = "half" /\ job[j].command = "rename"
      /\ UNCHANGED <<client, slot>> /\ partial' = Remote!NoDir
      /\ target' = IF partial.there
                   THEN [(IF target.there THEN target ELSE partial)
                           EXCEPT !.hands = @ \cup {j}]
                   ELSE target
  BY DEF Remote!Rename
<1>2. /\ job'[j].command = job[j].command /\ job'[j].state = s
      /\ \A k \in Remote!Jobs :
           /\ job'[k].command = job[k].command
           /\ k # j => /\ job'[k].state = job[k].state
                       /\ job'[k].at = IF job[k].at = "staging" THEN q ELSE job[k].at
  <2>1. job' = [Remote!Moved("staging", q) EXCEPT ![j] = Remote!Job("rename", s, "gone")]
    BY DEF Remote!Rename
  <2>2. q \in Places /\ s \in Remote!States
    BY DEF Remote!States, Places
  <2> HIDE DEF q, s
  <2> QED
    BY <1>1, <2>1, <2>2, RenameJobs
<1>3. /\ (Only(partial, j) => partial.complete) /\ ~ Only(target, j)
  BY <1>0, <1>1 DEF JobInv, Fresh, Removed
<1>4. \A i : ~ Only(partial', i)
  BY <1>1, DirsOf DEF Only
<1>5. \/ ~ partial.there /\ target' = target /\ s = "nonzero"
      \/ /\ partial.there /\ target.there /\ s = "zero" /\ q = "gone"
         /\ target'.there /\ target'.hands = target.hands \cup {j}
         /\ target'.marked = target.marked /\ target'.complete = target.complete
      \/ /\ partial.there /\ ~ target.there /\ s = "zero" /\ q = "target"
         /\ target'.there /\ target'.hands = partial.hands \cup {j}
         /\ target'.marked = partial.marked /\ target'.complete = partial.complete
  BY <1>0, <1>1 DEF Remote!Dirs
<1> HIDE DEF q, s
<1>6. Accepted(target')
  BY <1>0, <1>5 DEF Accepted
<1>7. JobInv(j, job'[j], partial', target')
  <2>1. Only(target', j) /\ s = "zero" => target'.complete
    BY <1>3, <1>5 DEF Only
  <2> QED
    BY <1>1, <1>2, <1>4, <1>5, <2>1 DEF JobInv, Unpacks2, Fresh, Removed, Renamed
<1>8. ASSUME NEW k \in Remote!Jobs, k # j
      PROVE  JobInv(k, job'[k], partial', target')
  <2>1. JobInv(k, job[k], partial, target) /\ job[k].at \in Places
    BY DEF ManyInv, RemoteTypes, JobType
  <2>2. /\ job'[k].command = job[k].command /\ job'[k].state = job[k].state
        /\ job'[k].at = IF job[k].at = "staging" THEN q ELSE job[k].at
    BY <1>2, <1>8
  <2>3. Only(target', k) => target' = target
    BY <1>5, <1>8 DEF Only
  <2>4. job'[k].at # "staging" \/ q = "staging"
    BY <2>2
  <2>5. q \in {"gone", "target"}
    BY DEF q
  <2>6. Unpacks2(job'[k]) /\ job'[k].at = "target" =>
          target'.there /\ k \in target'.hands /\ ~ (target'.hands \subseteq {k})
    <3> SUFFICES ASSUME Unpacks2(job'[k]), job'[k].at = "target"
                 PROVE  /\ target'.there /\ k \in target'.hands
                        /\ ~ (target'.hands \subseteq {k})
      OBVIOUS
    <3>1. Unpacks2(job[k])
      BY <2>2 DEF Unpacks2
    <3>2. CASE job[k].at = "target"
      <4>1. target.there /\ k \in target.hands /\ ~ (target.hands \subseteq {k})
        BY <2>1, <3>1, <3>2 DEF JobInv
      <4> QED
        BY <1>5, <4>1
    <3>3. CASE job[k].at = "staging"
      <4>1. partial.there /\ k \in partial.hands /\ q = "target"
        BY <2>1, <2>2, <3>1, <3>3 DEF JobInv
      <4> QED
        BY <1>5, <1>8, <4>1
    <3> QED
      BY <2>2, <3>2, <3>3
  <2>7. Fresh(job'[k]) /\ Only(partial', k) => partial'.complete
    BY <1>4
  <2>8. (Removed(job'[k]) <=> Removed(job[k])) /\ (Renamed(job'[k]) <=> Renamed(job[k]))
    BY <2>2 DEF Removed, Renamed
  <2>9. /\ Removed(job'[k]) => ~ Only(target', k)
        /\ Renamed(job'[k]) /\ Only(target', k) => target'.complete
    BY <2>1, <2>3, <2>8 DEF JobInv
  <2> QED
    BY <1>4, <2>4, <2>5, <2>6, <2>7, <2>9 DEF JobInv
<1>9. ~ partial'.marked
  BY <1>1, DirsOf
<1> QED
  BY <1>1, <1>2, <1>6, <1>7, <1>8, <1>9, AskedStay DEF ManyInv

LEMMA NextMany ==
  ASSUME RemoteTypes, ManyInv, [Remote!Next]_(Remote!vars)
  PROVE  ManyInv'
<1>1. CASE UNCHANGED Remote!vars
  BY <1>1 DEF Remote!vars, Remote!dirs, ManyInv, Asked
<1> QED
  BY <1>1, UserMany, AbandonMany, WorkMany, EndExtractMany, RemoveMany, RenameMany, CleanupMany
     DEF Remote!Next, Remote!Run

LEMMA InitMany == Remote!Init => ManyInv
<1> SUFFICES ASSUME Remote!Init PROVE ManyInv
  OBVIOUS
<1>1. \A j \in Remote!Jobs : job[j] = Remote!NoJob
  BY DEF Remote!Init
<1>2. ASSUME NEW j \in Remote!Jobs PROVE JobInv(j, job[j], partial, target)
  BY <1>1, IdleJob, JobsOf
<1>3. \A c \in Clients : client[c] = "idle"
  BY DEF Remote!Init
<1> QED
  BY <1>2, <1>3, DirsOf DEF Remote!Init, ManyInv, Accepted, Asked, Remote!Commands

\* Whatever is cancelled, crashes, breaks or is left behind, and however many users
\* there are, no marker is left on a tree that is not whole: not here, but for a
\* file that a stranger to the tree was the last to truncate; and not on a target,
\* but where it has several users, or one of whom several commands stay behind or
\* one breaks off, and two of those commands have worked in the directory.
THEOREM NoPartialTreeIsAccepted == MCSpec => []MarkedIsWhole
<1>1. MCSpec => [](LocalTypes /\ RemoteTypes)
  BY TypesInvariance
<1>2. MCSpec => [](LocalTypes /\ LocalInv)
  BY LocalInvariance
<1>3. LocalTypes /\ LocalInv => Local!MarkedIsWhole
  BY WholeHere
<1>4. CASE OneUser
  <2>1. MCInit => DirsInv /\ \A c \in Clients : TargetInv(c)
    BY <1>4, InitTarget DEF MCInit
  <2>2. RemoteTypes /\ DirsInv /\ (\A c \in Clients : TargetInv(c)) /\ [MCNext]_allVars
          => DirsInv' /\ (\A c \in Clients : TargetInv(c))'
    BY <1>4, RemoteSteps, NextTarget
  <2>3. LocalTypes /\ LocalInv /\ DirsInv => MarkedIsWhole
    BY <1>3 DEF MarkedIsWhole, DirsInv, Remote!AcceptedIsWhole
  <2> QED
    BY <1>1, <1>2, <2>1, <2>2, <2>3, PTL DEF MCSpec, allVars
<1>5. CASE ~ OneUser
  <2>1. MCInit => ManyInv
    BY InitMany DEF MCInit
  <2>2. RemoteTypes /\ ManyInv /\ [MCNext]_allVars => ManyInv'
    BY RemoteSteps, NextMany
  <2>3. ~ Remote!OneUser
    BY <1>5, OneUserOf
  <2>4. LocalTypes /\ LocalInv /\ ManyInv => MarkedIsWhole
    BY <1>3, <2>3 DEF MarkedIsWhole, ManyInv, Accepted, Remote!AcceptedIsWhole
  <2> QED
    BY <1>1, <1>2, <2>1, <2>2, <2>4, PTL DEF MCSpec, allVars
<1> QED
  BY <1>4, <1>5
=============================================================================
