----------------------------- MODULE MCInstall -----------------------------
(* How qna comes to where it runs, for TLC.  A behaviour is of a release's *)
(* artifact and its downloads, of a version unpacked here, or of one put   *)
(* in place on a target.                                                   *)
EXTENDS MCArtifactCache
CONSTANTS c1, c2, c3, f1, f2, f3, Calls, Members, CallProcess, Faults,
          Clients, MaxLate, LateBreaks, MaxFaults

ASSUME PlacesAssumption == NoFile \notin Members /\ {MaxLate, MaxFaults} \subseteq Nat

OneAndTwo == [c \in Calls |-> IF c = c3 THEN p2 ELSE p1]
SomeFaults == {{"crash", "cancel", "error"}}

VARIABLES staging, destination, caller, unpacking, faults,
          partial, target, known, client, slot, job, left

localVars  == <<staging, destination, caller, unpacking, faults>>
remoteVars == <<partial, target, known, client, slot, job, left>>

Local  == INSTANCE LocalExtraction WITH ProcessOf <- CallProcess, pc <- caller,
                                        thread <- unpacking
Remote == INSTANCE Provision

-----------------------------------------------------------------------------
VARIABLE of   \* which of the three this behaviour is of

MCInit == /\ of \in {"artifact", "unpacking", "provisioning"}
          /\ Init
          /\ Local!Init /\ (of # "unpacking" => faults = CHOOSE f \in Faults : TRUE)
          /\ Remote!Init /\ (of # "provisioning" => known)

MCNext ==
  /\ UNCHANGED of
  /\ \/ of = "artifact" /\ Next /\ UNCHANGED <<localVars, remoteVars>>
     \/ of = "unpacking" /\ Local!Next /\ UNCHANGED <<vars, remoteVars>>
     \/ of = "provisioning" /\ Remote!Next /\ UNCHANGED <<vars, localVars>>

\* The fairness of each part's specification.
MCSpec == /\ MCInit /\ [][MCNext]_<<of, vars, localVars, remoteVars>>
          /\ \A t \in Tasks : /\ WF_vars(of = "artifact" /\ TaskStep(t))
                              /\ WF_vars(of = "artifact" /\ ThreadStep(t))
          /\ \A c \in Clients : WF_remoteVars(of = "provisioning" /\ Remote!Step(c))
          /\ \A j \in Remote!Jobs : WF_remoteVars(of = "provisioning" /\ Remote!Run(j))

\* The types of what is unpacked here and of what is put on a target.
OthersTypeOK == Local!TypeOK /\ Remote!TypeOK

\* "A partial tree that the marker check would accept" is left nowhere: neither by
\* ensure_extracted here nor by provision_qna on a target.
MarkedIsWhole == Local!MarkedIsWhole /\ Remote!AcceptedIsWhole

\* "Neither a crash nor a concurrent run ever observes a half-extracted tree."
NeverHalfExtracted == Local!NeverHalfExtracted

\* The tree ensure_extracted has handed out stays.
ReturnedStays == Local!ReturnedStays

\* Who waits for an artifact or for qna on a target gets an answer or qna.
Answered == /\ of = "artifact" => EventuallyAnswered
            /\ of = "provisioning" => Remote!ComesToUse
=============================================================================
