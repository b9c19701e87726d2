------------------------------ MODULE MCHosts ------------------------------
(* The two discoveries of hosts, for TLC: of container images and of SSH   *)
(* hosts.  A behaviour is of one of them.                                  *)
EXTENDS SshDiscovery
CONSTANTS alias, seen, heard, inv, m1, m2, own, a1, a2, me, git

MCOrder == <<alias, seen, heard>>
MCSource == [n \in {alias, seen, heard} |->
               IF n = alias THEN "config" ELSE IF n = seen THEN "known_hosts" ELSE "mdns"]
MCNames == {alias, seen, heard, inv}

\* One address for all, none known, and a name between two others.
MCAddresses == { [n \in MCNames |-> {a1}], [n \in MCNames |-> {}],
                 [n \in MCNames |-> IF n = inv THEN {} ELSE IF n = seen THEN {a1, a2}
                                    ELSE IF n = alias THEN {a1} ELSE {a2}] }

\* Each has one name; or what was heard goes by the address that was seen too,
\* and config's alias leads to it or does not; or the alias leads to a git host
\* while this machine is heard.
MCAliases == { [n \in MCNames |-> {n}],
               [n \in MCNames |-> IF n = alias THEN {alias, heard}
                                  ELSE IF n = heard THEN {heard, seen} ELSE {n}],
               [n \in MCNames |-> IF n = heard THEN {heard, seen} ELSE {n}],
               [n \in MCNames |-> IF n = alias THEN {alias, git}
                                  ELSE IF n = heard THEN {heard, me} ELSE {n}] }

\* Keys are named for their machines; a name's key is known or it is not, that of
\* the name heard is not, and the one seen may have one from another machine.
MCNetworks ==
  { [machine |-> m, addresses |-> a, names |-> s,
     known |-> [n \in MCNames |-> IF n \notin k THEN {} ELSE IF n = seen THEN {m1, m[n]} ELSE {m[n]}]] :
    m \in {f \in [MCNames -> {m1, m2}] : f[alias] = m1},
    a \in MCAddresses, s \in MCAliases, k \in SUBSET {alias, seen, inv} }
  \cup
  \* The name seen has this machine's own key.
  { [machine |-> [n \in MCNames |-> m1], addresses |-> a, names |-> [n \in MCNames |-> {n}],
     known |-> [n \in MCNames |-> IF n = seen THEN {own} ELSE {}]] : a \in MCAddresses }

-----------------------------------------------------------------------------
(* Images: one family, two distributions, and a default that is also       *)
(* pulled.                                                                 *)
CONSTANTS Base, Images, Distro, Family, Rank, Remote, Archs, HostArch, UserEntries,
          Catalogs, MaxRuns, u26, u24, deb, web

MCDistro == [i \in {u26, u24, deb} |-> IF i = deb THEN "debian" ELSE "ubuntu"]
MCFamily == [d \in {"debian", "ubuntu"} |-> "debian"]
MCRank == [i \in {u26, u24, deb} |-> IF i = u26 THEN 2 ELSE 1]

\* The web evaluator, under a name an older inventory had for an image; and a
\* host of another kind that has a candidate's name.
MCEntries == { [name |-> <<deb, "none">>, is |-> <<web, "none">>],
               [name |-> <<deb, "x86">>, is |-> <<"other", "none">>] }

\* An image for two architectures and one the registry says nothing of; two
\* tags of one distribution; an image no architecture of qna's is published for.
Pub(x, y, z) == [i \in {u26, u24, deb} |-> IF i = u26 THEN x ELSE IF i = u24 THEN y ELSE z]
MCCatalogs ==
  { [pulled |-> {u26, deb}, published |-> Pub({"x86", "arm"}, {}, {"none"})],
    [pulled |-> {u26, u24}, published |-> Pub({"arm"}, {"arm"}, {})],
    [pulled |-> {u24}, published |-> Pub({"x86"}, {}, {})] }

\* Images are ranked, and every set of them has a newest.
ASSUME ImagesAssumption ==
  /\ Rank \in [Images -> Nat]
  /\ \A S \in SUBSET Images : S # {} => \E i \in S : \A j \in S : Rank[j] <= Rank[i]

\* A manifest names architectures qna is built for, or is not known; qna is built
\* for this machine's.
ASSUME CatalogsAssumption ==
  /\ Remote \subseteq Images /\ HostArch \in Archs
  /\ \A c \in Catalogs : /\ c.pulled \subseteq Images
                         /\ \A i \in Images : \/ c.published[i] = {"none"}
                                              \/ c.published[i] \subseteq Archs

VARIABLES file, writable, pc, runs, existing, catalog, engine, tests, loaded, mine, late,
          ended, torn

Local == INSTANCE Discovery WITH tried <- tests
localVars == <<file, writable, pc, runs, existing, catalog, engine, tests, loaded, mine,
               late, ended, torn>>

-----------------------------------------------------------------------------
VARIABLE of   \* which of the two this behaviour is of

MCInit == /\ of \in {"images", "ssh"}
          /\ Init /\ (of = "images" => net = CHOOSE n \in Networks : TRUE)
          /\ Local!Init
          /\ of = "ssh" => /\ file = Local!Absent /\ writable
                           /\ catalog = CHOOSE c \in Catalogs : TRUE

MCNext == /\ UNCHANGED of
          /\ \/ of = "ssh" /\ Next /\ UNCHANGED localVars
             \/ of = "images" /\ Local!Next /\ UNCHANGED vars

MCSpec == MCInit /\ [][MCNext]_<<of, vars, localVars>>

\* The types of the two.
BothTypesOK == TypeOK /\ Local!TypeOK

\* What discovery of images pulls, keeps and adds.
PullsOnlyForNeed == Local!PullsOnlyForNeed
FileKept == Local!FileKept
AddsOnlyNew == Local!AddsOnlyNew
=============================================================================
