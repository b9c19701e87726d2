----------------------------- MODULE Discovery -----------------------------
(***************************************************************************)
(* discovery.py: auto-discovery tries every candidate host and adds the    *)
(* ones that work to the inventory file, while the user may edit that file *)
(* and may stop the program at any moment.                                 *)
(*                                                                         *)
(* A container image is a candidate once for each architecture.  Images    *)
(* already pulled come first, a chain for each distribution, newest tag    *)
(* first; a family's defaults are pulled only when none of those works.    *)
(***************************************************************************)
EXTENDS Naturals, FiniteSets

CONSTANTS Base,      \* candidates that are no images (_base_candidates)
          Images, Distro, Family, Rank,  \* Distro[i], Family[d], Rank[i]: newest highest
          Remote,    \* those pulled when no local one works (_REMOTE_DEFAULTS)
          Archs, HostArch,
          UserEntries,  \* what the user may write: records of a name and what it is
          Catalogs,  \* the images pulled and what the registries publish, to choose from
          MaxRuns

None == "none"

\* A candidate: where it comes from, the image (or the base host), the arch.
Cand(f, i, a) == [from |-> f, image |-> i, arch |-> a]
Tests == {Cand("base", b, None) : b \in Base}
    \cup {Cand(f, i, a) : f \in {"local", "remote"}, i \in Images, a \in Archs}

\* host_name_for, and what such an entry is whatever its name (_identity).
Entry(t) == [name |-> <<t.image, t.arch>>, is |-> <<t.image, t.arch>>]

VARIABLES
  file,      \* the inventory: there, the placeholder's marker, hosts
  writable,
  pc,        \* where the run is
  runs,
  existing,  \* the hosts when the run began
  catalog,   \* pulled images; what each image's manifest publishes, None when unknown
  engine,    \* a container engine answers
  tried,     \* what came of each test
  loaded,    \* the file as write_discovered read it
  mine, late,  \* the user's entries; those written between a read and its write
  ended,     \* a run came to its end
  torn       \* the program was stopped inside a write

run_vars == <<existing, engine, tried, loaded>>
user_vars == <<mine, late>>
vars == <<file, writable, pc, runs, run_vars, catalog, user_vars, ended, torn>>

Absent == [there |-> FALSE, marker |-> FALSE, hosts |-> {}]
Empty == [Absent EXCEPT !.there = TRUE]
Placeholder == [Empty EXCEPT !.marker = TRUE]
NameOf(hosts) == {h.name : h \in hosts}

\* Every result without an error, or not.
Verdicts == {"clean", "mixed"}

-----------------------------------------------------------------------------
(* What is tried, and when. *)

\* _archs: the manifest's, or this machine's when it is not known.
ArchsOf(i) == IF catalog.published[i] = {None} THEN {HostArch} ELSE catalog.published[i]

\* Mutant: a run that knows hosts by their names alone.
ByName(hosts) == {}

\* What an inventory's entries are (_known_ids).
Known(hosts) == {h.is : h \in hosts}

\* _represented: a distribution's host for the arch, or an image's name, the
\* name without an arch meaning this machine's.
Represented(images, a) ==
  \E i \in images :
    \/ \E j \in Images : Distro[j] = Distro[i] /\ <<j, a>> \in Known(existing)
    \/ <<i, a>> \in NameOf(existing)
    \/ a = HostArch /\ <<i, None>> \in NameOf(existing)

\* Mutant: one host is enough for a family of distributions.
Related(d) == {i \in catalog.pulled : Family[Distro[i]] = Family[d]}

Pulled(d) == {i \in catalog.pulled : Distro[i] = d}
Every(f) == {i \in catalog.pulled \cup Remote : Family[Distro[i]] = f}

\* The candidates of this run's chains.
Listed(t) ==
  \/ /\ t.from = "base"
     /\ Entry(t).name \notin NameOf(existing) /\ Entry(t).is \notin Known(existing)
  \/ /\ t.from = "local" /\ engine
     /\ t.image \in catalog.pulled /\ t.arch \in ArchsOf(t.image)
     /\ ~ Represented(Pulled(Distro[t.image]), t.arch)
  \/ /\ t.from = "remote" /\ engine
     /\ t.image \in Remote /\ t.arch \in ArchsOf(t.image)
     /\ ~ Represented(Every(Family[Distro[t.image]]), t.arch)

Alike(t, u) == t.from = u.from /\ t.arch = u.arch
SameChain(t, u) ==
  /\ Alike(t, u) /\ t.from # "base"
  /\ IF t.from = "local" THEN Distro[t.image] = Distro[u.image]
                         ELSE Family[Distro[t.image]] = Family[Distro[u.image]]

\* first_working: what must have failed before t is tried.
Earlier(t) == {u \in Tests : SameChain(t, u) /\ Rank[u.image] > Rank[t.image] /\ Listed(u)}

\* Mutant: the defaults do not wait for the pulled images.
AtOnce(t) == {}

\* per_arch: the chains a default has to wait for.
Locals(t) == {u \in Tests : /\ t.from = "remote" /\ u.from = "local" /\ u.arch = t.arch
                            /\ Family[Distro[u.image]] = Family[Distro[t.image]] /\ Listed(u)}

\* works: every result came back without an error, and there is one.
Works(t) == tried[t] = "clean"
Failed(t) == tried[t] \in Verdicts /\ ~ Works(t)

MayTest(t) == /\ tried[t] = "no" /\ Listed(t)
              /\ \A u \in Earlier(t) \cup Locals(t) : Failed(u)

\* The gather returns: nothing is left to try.
Tested == \A t \in Tests : ~ MayTest(t)

Winners == {Entry(t) : t \in {u \in Tests : Works(u)}}

-----------------------------------------------------------------------------
Goto(l) == pc' = l /\ UNCHANGED run_vars

\* What a run knows ends with it.
Untried == [t \in Tests |-> "no"]
Over == /\ pc' = "idle" /\ existing' = {} /\ engine' = FALSE
        /\ tried' = Untried /\ loaded' = Absent

Stay == UNCHANGED <<writable, catalog, torn>>

Init ==
  /\ file \in {Absent, Placeholder}
  /\ writable \in BOOLEAN
  /\ pc = "idle" /\ runs = 0
  /\ existing = {} /\ engine = FALSE
  /\ tried = Untried
  /\ catalog \in Catalogs
  /\ loaded = Absent
  /\ mine = {} /\ late = {}
  /\ ended = FALSE /\ torn = FALSE

\* The first run, when no inventory is found (find_or_discover_inventory), and
\* a run that was asked for (discover_into).
Begin == /\ pc = "idle" /\ runs < MaxRuns /\ Goto("ensure") /\ runs' = runs + 1
         /\ UNCHANGED <<file, user_vars, ended>> /\ Stay

FirstRun == ~ file.there /\ Begin
DiscoverInto == file.there /\ Begin

\* ensure_writable: an old file is opened to append, a new one is made ...
EnsureWritable ==
  /\ pc = "ensure"
  /\ IF ~ writable THEN Over /\ UNCHANGED file
     ELSE IF file.there THEN Goto("read") /\ UNCHANGED file
     ELSE Goto("unlink") /\ file' = Empty

Ensure == /\ EnsureWritable
          /\ UNCHANGED <<runs, user_vars, ended>> /\ Stay

\* ... and removed again.
Unlink == /\ pc = "unlink" /\ file' = Absent /\ Goto("read")
          /\ UNCHANGED <<runs, user_vars, ended>> /\ Stay

\* read_existing.
ReadExisting ==
  /\ pc = "read" /\ pc' = "look" /\ existing' = file.hosts
  /\ UNCHANGED <<file, runs, engine, tried, loaded, user_vars, ended>> /\ Stay

\* discover: an engine answers or none does; one that stops answering before
\* its images are listed ends the run.
Look == /\ pc = "look"
        /\ \/ /\ pc' = "test" /\ engine' \in BOOLEAN
              /\ UNCHANGED <<existing, tried, loaded>>
           \/ Over
        /\ UNCHANGED <<file, runs, user_vars, ended>> /\ Stay

\* A candidate's evaluation, which answers or times out.  Evaluations run at
\* once; once one may start nothing keeps it from it, so its end is the step.
Test(t) == /\ pc = "test" /\ MayTest(t)
           /\ \E v \in Verdicts : tried' = [tried EXCEPT ![t] = v]
           /\ UNCHANGED <<file, pc, runs, existing, engine, loaded, user_vars, ended>> /\ Stay

\* Mutant: the file is not read again after the minutes the tests took.
AsItWas == [file EXCEPT !.hosts = existing]

\* write_discovered reads the file again.
Text == file

\* A text with the marker and no hosts is replaced, not appended to.
Fresh(text) == ~ text.there \/ (text.marker /\ text.hosts = {})
\* Mutant: what works is written whatever the file has.
Overwrites(text) == IF Winners \subseteq text.hosts THEN {} ELSE Winners

Added(text) == {h \in Winners : h.name \notin NameOf(text.hosts)}

\* run_auto_discovery: nothing was added, and there is still no file.
NeedsPlaceholder == ~ file.there

Load ==
  /\ pc = "test" /\ Tested
  /\ IF Added(Text) = {}
     THEN /\ Over /\ ended' = TRUE
          /\ file' = IF NeedsPlaceholder THEN Placeholder ELSE file
     ELSE /\ pc' = "save" /\ loaded' = Text
          /\ UNCHANGED <<file, ended, existing, engine, tried>>
  /\ UNCHANGED <<runs, user_vars>> /\ Stay

\* write_text empties the file and fills it.
Truncate == /\ pc = "save" /\ Goto("fill") /\ file' = Empty
            /\ UNCHANGED <<runs, user_vars, ended>> /\ Stay

\* What is written: what was read, and the new hosts.
Fill ==
  /\ pc = "fill" /\ Over /\ ended' = TRUE
  /\ file' = [there |-> TRUE, hosts |-> loaded.hosts \cup Added(loaded),
              marker |-> loaded.marker /\ ~ Fresh(loaded)]
  /\ UNCHANGED <<runs, user_vars>> /\ Stay

\* The user writes a host into the file.
UserWrites(h) ==
  /\ writable /\ pc # "fill" /\ h.name \notin NameOf(file.hosts) \cup NameOf(mine)
  /\ file' = [file EXCEPT !.there = TRUE, !.hosts = @ \cup {h}]
  /\ mine' = mine \cup {h}
  /\ late' = late \cup IF pc \in {"unlink", "save"} THEN {h} ELSE {}
  /\ UNCHANGED <<pc, runs, run_vars, ended>> /\ Stay

\* Ctrl-C, or a crash.
Stop == /\ pc # "idle" /\ Over
        /\ torn' = (torn \/ pc = "fill")
        /\ UNCHANGED <<file, writable, runs, catalog, user_vars, ended>>

Next == \/ FirstRun \/ DiscoverInto \/ Ensure \/ Unlink \/ ReadExisting \/ Look
        \/ \E t \in Tests : Test(t)
        \/ Load \/ Truncate \/ Fill
        \/ \E h \in UserEntries : UserWrites(h)
        \/ Stop

Spec == Init /\ [][Next]_vars

-----------------------------------------------------------------------------
TypeOK ==
  /\ file \in [there : BOOLEAN, marker : BOOLEAN,
               hosts : SUBSET (UserEntries \cup {Entry(t) : t \in Tests})]
  /\ ~ file.there => file = Absent
  /\ pc \in {"idle", "ensure", "unlink", "read", "look", "test", "save", "fill"}
  /\ tried \in [Tests -> {"no"} \cup Verdicts]
  /\ \A g, h \in file.hosts : g.name = h.name => g = h

\* A default is pulled and tried only after every pulled image of its family
\* has failed on that architecture.
PullsLast ==
  \A t \in Tests : t.from = "remote" /\ tried[t] # "no" =>
    \A i \in catalog.pulled :
      Family[Distro[i]] = Family[Distro[t.image]] /\ t.arch \in ArchsOf(i)
        => Failed(Cand("local", i, t.arch))

\* The images that work on a: pulled ones of i's distribution; any of its family.
WorkOn(a) == {t \in Tests : t.from # "base" /\ t.arch = a /\ Works(t)}
OfDistro(i, a) == {t \in WorkOn(a) : t.from = "local" /\ Distro[t.image] = Distro[i]}
OfFamily(i, a) == {t \in WorkOn(a) : Family[Distro[t.image]] = Family[Distro[i]]}

\* Once the tests are over, whether anything is added or not, an image that was
\* passed over has a reason.  A pulled one: the inventory has a host of its
\* distribution for that architecture, or one pulled of that distribution works
\* now.  A default to pull: the same of its family.
NonePassedOver ==
  engine /\ ((pc = "test" /\ Tested) \/ pc \in {"save", "fill"}) =>
    /\ \A i \in catalog.pulled : \A a \in ArchsOf(i) :
         \/ tried[Cand("local", i, a)] \in Verdicts
         \/ Represented({j \in catalog.pulled : Distro[j] = Distro[i]}, a)
         \/ OfDistro(i, a) # {}
    /\ \A i \in Remote : \A a \in ArchsOf(i) :
         \/ tried[Cand("remote", i, a)] \in Verdicts
         \/ Represented(Every(Family[Distro[i]]), a)
         \/ OfFamily(i, a) # {}

\* What is pulled is needed, and what is not tried is not.
PullsOnlyForNeed == PullsLast /\ NonePassedOver

\* What the user wrote while minutes of tests went by is still there, unless it
\* was written between a read of the file and the write that follows it.
UserKept == pc # "fill" /\ ~ torn => mine \ late \subseteq file.hosts

\* Nothing is evaluated for a file that cannot be written.
FailsFirst == ~ writable => \A t \in Tests : tried[t] = "no"

\* "Discovery always leaves that file behind, so it never repeats on its own."
NotRepeated == ended => file.there \/ pc # "idle"

\* The file is good for what discovery and the user need it for.
FileKept == UserKept /\ FailsFirst /\ NotRepeated

\* A host that discovery adds is one whose every result came back without an
\* error, and one the file did not have under another name when the run began.
AddsOnlyNew ==
  [][pc = "fill" => \A h \in file'.hosts \ loaded.hosts :
       /\ \E t \in Tests : Entry(t) = h /\ tried[t] = "clean"
       /\ \A g \in existing : g.is # h.is]_vars
=============================================================================
