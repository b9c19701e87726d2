----------------------------- MODULE HostsProofs -----------------------------
(***************************************************************************)
(* What the hosts run shows of three images and three names, for any       *)
(* number of images, hosts of the user and runs, and for any network.      *)
(***************************************************************************)
EXTENDS MCHosts, SelectionProofs, FiniteSetTheorems, TLAPS

allVars == <<of, vars, localVars>>

-----------------------------------------------------------------------------
(* Discovery of images: types. *)

LEMMA ImageSteps == [MCNext]_allVars => [Local!Next]_(Local!vars)
<1> QED
  BY DEF allVars, MCNext, localVars, Local!vars, Local!run_vars, Local!user_vars

LEMMA SshSteps == [MCNext]_allVars => [Next]_vars
<1> QED
  BY DEF allVars, MCNext

Entries == UserEntries \cup {Local!Entry(t) : t \in Local!Tests}
Files == [there : BOOLEAN, marker : BOOLEAN, hosts : SUBSET Entries]
OneEach(hosts) == \A g, h \in hosts : g.name = h.name => g = h

ImageTypes ==
  /\ file \in Files /\ loaded \in Files
  /\ ~ file.there => file = Local!Absent
  /\ pc \in {"idle", "ensure", "unlink", "read", "look", "test", "save", "fill"}
  /\ tests \in [Local!Tests -> {"no"} \cup Local!Verdicts]
  /\ OneEach(file.hosts) /\ OneEach(loaded.hosts)
  /\ catalog \in Catalogs

LEMMA FlagOf ==
  ASSUME NEW f, f = [there |-> f.there, marker |-> f.marker, hosts |-> f.hosts],
         NEW b \in BOOLEAN
  PROVE  /\ [f EXCEPT !.there = b] = [there |-> b, marker |-> f.marker, hosts |-> f.hosts]
         /\ [f EXCEPT !.marker = b] = [there |-> f.there, marker |-> b, hosts |-> f.hosts]
<1> QED
  OBVIOUS

LEMMA FilesOf ==
  /\ Local!Absent = [there |-> FALSE, marker |-> FALSE, hosts |-> {}]
  /\ Local!Empty = [there |-> TRUE, marker |-> FALSE, hosts |-> {}]
  /\ Local!Placeholder = [there |-> TRUE, marker |-> TRUE, hosts |-> {}]
  /\ Local!Absent \in Files /\ Local!Empty \in Files /\ Local!Placeholder \in Files
  /\ OneEach(Local!Absent.hosts) /\ OneEach(Local!Empty.hosts)
  /\ OneEach(Local!Placeholder.hosts)
<1>1. Local!Absent = [there |-> FALSE, marker |-> FALSE, hosts |-> {}]
  BY DEF Local!Absent
<1>2. Local!Empty = [there |-> TRUE, marker |-> FALSE, hosts |-> {}]
  BY <1>1, FlagOf DEF Local!Empty
<1>3. Local!Placeholder = [there |-> TRUE, marker |-> TRUE, hosts |-> {}]
  BY <1>2, FlagOf DEF Local!Placeholder
<1> QED
  BY <1>1, <1>2, <1>3 DEF Files, OneEach

LEMMA FilesAre ==
  /\ Local!Absent \in Files /\ OneEach(Local!Absent.hosts)
  /\ Local!Empty \in Files /\ OneEach(Local!Empty.hosts) /\ Local!Empty.there
  /\ Local!Placeholder \in Files /\ OneEach(Local!Placeholder.hosts)
  /\ Local!Placeholder.there
<1> QED
  BY FilesOf

LEMMA UntriedOf == Local!Untried \in [Local!Tests -> {"no"} \cup Local!Verdicts]
<1> QED
  BY DEF Local!Untried

\* What is added has names that the file has not, each of them once.
LEMMA AddedOf ==
  ASSUME NEW f \in Files, OneEach(f.hosts)
  PROVE  /\ Local!Added(f) \subseteq Entries
         /\ OneEach(f.hosts \cup Local!Added(f))
<1>1. Local!Added(f) \subseteq {Local!Entry(t) : t \in Local!Tests}
  BY DEF Local!Added, Local!Winners
<1>2. \A h \in Local!Added(f), g \in f.hosts : g.name # h.name
  BY DEF Local!Added, Local!NameOf
<1>3. \A g, h \in Local!Added(f) : g.name = h.name => g = h
  BY <1>1 DEF Local!Entry
<1> QED
  BY <1>1, <1>2, <1>3 DEF Entries, OneEach

LEMMA InitImageTypes == Local!Init => ImageTypes
<1> QED
  BY FilesAre, UntriedOf DEF Local!Init, ImageTypes

LEMMA NextImageTypes == ASSUME ImageTypes, [Local!Next]_(Local!vars) PROVE ImageTypes'
<1>0. /\ file \in Files /\ loaded \in Files /\ (~ file.there => file = Local!Absent)
      /\ pc \in {"idle", "ensure", "unlink", "read", "look", "test", "save", "fill"}
      /\ tests \in [Local!Tests -> {"no"} \cup Local!Verdicts]
      /\ OneEach(file.hosts) /\ OneEach(loaded.hosts) /\ catalog \in Catalogs
  BY DEF ImageTypes
<1>1. CASE Local!FirstRun \/ Local!DiscoverInto
  BY <1>0, <1>1 DEF Local!FirstRun, Local!DiscoverInto, Local!Begin, Local!Goto, Local!Stay,
     Local!run_vars, ImageTypes
<1>2. CASE Local!Ensure
  BY <1>0, <1>2, FilesAre, UntriedOf DEF Local!Ensure, Local!EnsureWritable, Local!Over,
     Local!Goto, Local!Stay, Local!run_vars, ImageTypes
<1>3. CASE Local!Unlink
  BY <1>0, <1>3, FilesAre DEF Local!Unlink, Local!Goto, Local!Stay, Local!run_vars,
     ImageTypes
<1>4. CASE Local!ReadExisting \/ Local!Look
  BY <1>0, <1>4, FilesAre, UntriedOf DEF Local!ReadExisting, Local!Look, Local!Over,
     Local!Stay, ImageTypes
<1>5. ASSUME NEW t \in Local!Tests, Local!Test(t)
      PROVE  ImageTypes'
  BY <1>0, <1>5 DEF Local!Test, Local!Stay, ImageTypes
<1>6. CASE Local!Load
  <2>1. /\ file' = file \/ file' = Local!Placeholder
        /\ loaded' = file \/ loaded' = Local!Absent
        /\ pc' \in {"idle", "save"} /\ UNCHANGED catalog
        /\ tests' = tests \/ tests' = Local!Untried
    BY <1>6 DEF Local!Load, Local!Over, Local!Stay, Local!Text
  <2> QED
    BY <1>0, <2>1, FilesAre, UntriedOf DEF ImageTypes
<1>7. CASE Local!Truncate \/ Local!Stop
  BY <1>0, <1>7, FilesAre, UntriedOf DEF Local!Truncate, Local!Stop, Local!Over, Local!Goto,
     Local!Stay, Local!run_vars, Local!user_vars, ImageTypes
<1>8. CASE Local!Fill
  <2>1. /\ file'.there /\ file'.hosts = loaded.hosts \cup Local!Added(loaded)
        /\ file' \in Files
    BY <1>0, <1>8, AddedOf DEF Local!Fill, Files
  <2>2. loaded' = Local!Absent /\ pc' = "idle" /\ tests' = Local!Untried /\ UNCHANGED catalog
    BY <1>8 DEF Local!Fill, Local!Over, Local!Stay
  <2> QED
    BY <1>0, <2>1, <2>2, FilesAre, UntriedOf, AddedOf DEF ImageTypes, OneEach
<1>9. ASSUME NEW h \in UserEntries, Local!UserWrites(h)
      PROVE  ImageTypes'
  <2>1. /\ file'.there /\ file'.hosts = file.hosts \cup {h} /\ file' \in Files
        /\ UNCHANGED <<pc, loaded, tests, catalog>>
        /\ \A g \in file.hosts : g.name # h.name
    BY <1>0, <1>9 DEF Local!UserWrites, Local!run_vars, Local!Stay, Local!NameOf, Files, Entries
  <2>2. OneEach(file.hosts \cup {h})
    BY <1>0, <2>1 DEF OneEach
  <2> QED
    BY <1>0, <2>1, <2>2 DEF ImageTypes
<1>10. CASE UNCHANGED Local!vars
  BY <1>0, <1>10 DEF Local!vars, Local!run_vars, ImageTypes
<1> QED
  BY <1>1, <1>2, <1>3, <1>4, <1>5, <1>6, <1>7, <1>8, <1>9, <1>10 DEF Local!Next

LEMMA ImageTypesInvariance == MCSpec => []ImageTypes
<1>1. MCInit => ImageTypes
  BY InitImageTypes DEF MCInit
<1>2. ImageTypes /\ [MCNext]_allVars => ImageTypes'
  BY ImageSteps, NextImageTypes
<1> QED
  BY <1>1, <1>2, PTL DEF MCSpec, allVars

-----------------------------------------------------------------------------
(* The file. *)

\* What the user wrote in time is in the file, or in what is about to be written;
\* a file that is new is not there but for the moment of the check.
Keeping ==
  /\ ~ torn => mine \ late \subseteq IF pc = "fill" THEN loaded.hosts ELSE file.hosts
  /\ ~ torn /\ pc = "save" => mine \ late \subseteq loaded.hosts
  /\ ~ torn /\ pc = "unlink" => mine \ late = {}
  /\ ended => file.there /\ pc # "unlink"
  /\ pc = "fill" => file.hosts = {}
  /\ torn \in BOOLEAN

LEMMA NextKeeping == ASSUME ImageTypes, Keeping, [Local!Next]_(Local!vars) PROVE Keeping'
<1>0. file \in Files /\ loaded \in Files /\ (~ file.there => file = Local!Absent)
  BY DEF ImageTypes
<1> USE DEF Keeping
<1>1. CASE Local!FirstRun \/ Local!DiscoverInto
  BY <1>1 DEF Local!FirstRun, Local!DiscoverInto, Local!Begin, Local!Goto, Local!Stay,
     Local!run_vars, Local!user_vars
<1>2. CASE Local!Ensure
  <2>1. UNCHANGED <<mine, late, ended, torn>> /\ pc = "ensure"
    BY <1>2 DEF Local!Ensure, Local!EnsureWritable, Local!Stay, Local!user_vars
  <2>2. \/ UNCHANGED file /\ pc' \in {"idle", "read"}
        \/ ~ file.there /\ file'.there /\ file'.hosts = {} /\ pc' = "unlink"
    BY <1>2, FilesOf DEF Local!Ensure, Local!EnsureWritable, Local!Over, Local!Goto
  <2>3. ~ file.there => file.hosts = {}
    BY <1>0, FilesOf
  <2> QED
    BY <2>1, <2>2, <2>3
<1>3. CASE Local!Unlink
  BY <1>3, FilesOf DEF Local!Unlink, Local!Goto, Local!Stay, Local!user_vars
<1>4. CASE Local!ReadExisting \/ Local!Look
  BY <1>4 DEF Local!ReadExisting, Local!Look, Local!Over, Local!Stay, Local!user_vars
<1>5. ASSUME NEW t \in Local!Tests, Local!Test(t)
      PROVE  Keeping'
  BY <1>5 DEF Local!Test, Local!Stay, Local!user_vars
<1>6. CASE Local!Load
  <2>1. UNCHANGED <<mine, late, torn>> /\ pc = "test"
    BY <1>6 DEF Local!Load, Local!Stay, Local!user_vars
  <2>2. ~ file.there => file.hosts = {}
    BY <1>0, FilesOf
  <2>3. CASE UNCHANGED <<file, ended>> /\ loaded' = file /\ pc' = "save"
    BY <2>1, <2>3
  <2>4. CASE /\ pc' = "idle"
             /\ file' = IF ~ file.there THEN Local!Placeholder ELSE file
    BY <2>1, <2>2, <2>4, FilesOf
  <2> QED
    BY <1>6, <2>3, <2>4 DEF Local!Load, Local!Over, Local!Text, Local!NeedsPlaceholder
<1>7. CASE Local!Truncate
  BY <1>7, FilesOf DEF Local!Truncate, Local!Goto, Local!Stay, Local!run_vars, Local!user_vars
<1>8. CASE Local!Fill
  BY <1>8 DEF Local!Fill, Local!Over, Local!Stay, Local!user_vars
<1>9. ASSUME NEW h \in UserEntries, Local!UserWrites(h)
      PROVE  Keeping'
  <2>1. /\ file'.there /\ file'.hosts = file.hosts \cup {h} /\ pc # "fill"
        /\ UNCHANGED <<pc, loaded, ended, torn>> /\ mine' = mine \cup {h}
        /\ late' = late \cup IF pc \in {"unlink", "save"} THEN {h} ELSE {}
    BY <1>0, <1>9 DEF Local!UserWrites, Local!run_vars, Local!Stay, Files
  <2>2. CASE pc \in {"unlink", "save"}
    BY <2>1, <2>2
  <2>3. CASE pc \notin {"unlink", "save"}
    BY <2>1, <2>3
  <2> QED
    BY <2>2, <2>3
<1>10. CASE Local!Stop
  BY <1>10 DEF Local!Stop, Local!Over, Local!user_vars
<1>11. CASE UNCHANGED Local!vars
  BY <1>11 DEF Local!vars, Local!run_vars, Local!user_vars
<1> QED
  BY <1>1, <1>2, <1>3, <1>4, <1>5, <1>6, <1>7, <1>8, <1>9, <1>10, <1>11 DEF Local!Next

-----------------------------------------------------------------------------
(* The tests. *)

\* Nothing is tried but between the look and the write; what is tried was listed,
\* and what goes before it has failed; at the write nothing is left to try.
Testing ==
  /\ pc \notin {"test", "save", "fill"} => tests = Local!Untried
  /\ ~ writable => pc \in {"idle", "ensure"}
  /\ \A t \in Local!Tests : tests[t] # "no" =>
       Local!Listed(t) /\ \A u \in Local!Earlier(t) \cup Local!Locals(t) : Local!Failed(u)
  /\ pc \in {"save", "fill"} => Local!Tested

LEMMA SameList ==
  ASSUME UNCHANGED <<existing, engine, catalog>>
  PROVE  \A t : /\ Local!Listed(t)' <=> Local!Listed(t)
                /\ Local!Earlier(t)' = Local!Earlier(t)
                /\ Local!Locals(t)' = Local!Locals(t)
<1>1. \A t : Local!Listed(t)' <=> Local!Listed(t)
  BY DEF Local!Listed, Local!Represented, Local!Known, Local!NameOf, Local!Pulled,
     Local!Every, Local!ArchsOf
<1>2. \A t : Local!Earlier(t)' = {u \in Local!Tests :
                Local!SameChain(t, u) /\ Rank[u.image] > Rank[t.image] /\ Local!Listed(u)'}
  BY DEF Local!Earlier, Local!SameChain, Local!Alike
<1>3. \A t : Local!Earlier(t)' = Local!Earlier(t)
  BY <1>1, <1>2 DEF Local!Earlier
<1>4. \A t : Local!Locals(t)' = Local!Locals(t)
  BY <1>1 DEF Local!Locals
<1> QED
  BY <1>1, <1>3, <1>4

LEMMA SameTests ==
  ASSUME UNCHANGED <<tests, existing, engine, catalog>>
  PROVE  /\ \A t : Local!Failed(t)' <=> Local!Failed(t)
         /\ Local!Tested' <=> Local!Tested
<1>1. \A t : Local!Failed(t)' <=> Local!Failed(t)
  BY DEF Local!Failed, Local!Works
<1>2. \A t : Local!MayTest(t)' <=> Local!MayTest(t)
  BY <1>1, SameList DEF Local!MayTest
<1> QED
  BY <1>1, <1>2 DEF Local!Tested

LEMMA NextTesting ==
  ASSUME ImageTypes, Testing, [Local!Next]_(Local!vars)
  PROVE  Testing'
<1>0. tests \in [Local!Tests -> {"no"} \cup Local!Verdicts]
  BY DEF ImageTypes
<1>1. ASSUME UNCHANGED <<tests, existing, engine, catalog, writable>>,
             pc' \notin {"test", "save", "fill"} => pc \notin {"test", "save", "fill"},
             ~ writable => pc' \in {"idle", "ensure"},
             pc' \in {"save", "fill"} => pc \in {"save", "fill"} \/ Local!Tested
      PROVE  Testing'
  <2>1. \A t \in Local!Tests : tests'[t] # "no" => Local!Listed(t)' /\
          \A u \in Local!Earlier(t)' \cup Local!Locals(t)' : Local!Failed(u)'
    BY <1>1, SameList, SameTests DEF Testing
  <2>2. pc' \in {"save", "fill"} => Local!Tested'
    BY <1>1, SameTests DEF Testing
  <2>3. Local!Untried' = Local!Untried
    BY DEF Local!Untried
  <2> QED
    BY <1>1, <2>1, <2>2, <2>3 DEF Testing
<1>2. ASSUME tests' = Local!Untried, UNCHANGED writable, pc' \notin {"save", "fill"},
             ~ writable => pc' \in {"idle", "ensure"}
      PROVE  Testing'
  <2>1. \A t \in Local!Tests : tests'[t] = "no"
    BY <1>2 DEF Local!Untried
  <2>2. Local!Untried' = Local!Untried
    BY DEF Local!Untried
  <2> QED
    BY <1>2, <2>1, <2>2 DEF Testing
<1>3. CASE Local!FirstRun \/ Local!DiscoverInto
  <2>1. /\ UNCHANGED <<tests, writable>> /\ pc = "idle" /\ pc' = "ensure"
    BY <1>3 DEF Local!FirstRun, Local!DiscoverInto, Local!Begin, Local!Goto, Local!Stay,
       Local!run_vars
  <2>2. tests' = Local!Untried
    BY <2>1 DEF Testing
  <2> QED
    BY <1>2, <2>1, <2>2
<1>4. CASE Local!Ensure
  <2>1. /\ tests' = tests \/ tests' = Local!Untried
        /\ UNCHANGED writable /\ pc = "ensure"
        /\ pc' \in {"idle", "read", "unlink"} /\ (~ writable => pc' = "idle")
    BY <1>4 DEF Local!Ensure, Local!EnsureWritable, Local!Over, Local!Goto, Local!Stay,
       Local!run_vars
  <2>2. tests' = Local!Untried
    BY <2>1 DEF Testing
  <2> QED
    BY <1>2, <2>1, <2>2
<1>5. CASE Local!Unlink \/ Local!ReadExisting \/ Local!Look
  <2>1. /\ tests' = tests \/ tests' = Local!Untried
        /\ UNCHANGED writable /\ pc \in {"unlink", "read", "look"}
        /\ pc' \in {"idle", "read", "look", "test"}
    BY <1>5 DEF Local!Unlink, Local!ReadExisting, Local!Look, Local!Over, Local!Goto,
       Local!Stay, Local!run_vars
  <2>2. tests' = Local!Untried /\ writable
    BY <2>1 DEF Testing
  <2> QED
    BY <1>2, <2>1, <2>2
<1>6. ASSUME NEW t \in Local!Tests, Local!Test(t)
      PROVE  Testing'
  <2>1. /\ UNCHANGED <<pc, existing, engine, catalog, writable>>
        /\ pc = "test" /\ Local!MayTest(t)
    BY <1>6 DEF Local!Test, Local!Stay
  <2>2. PICK v \in Local!Verdicts : tests' = [tests EXCEPT ![t] = v]
    BY <1>6 DEF Local!Test
  <2>3. tests[t] = "no" /\ \A x \in Local!Tests : x # t => tests'[x] = tests[x]
    BY <1>0, <2>1, <2>2 DEF Local!MayTest
  <2>4. \A u \in Local!Tests : Local!Failed(u) => Local!Failed(u)'
    BY <2>3 DEF Local!Failed, Local!Works, Local!Verdicts
  <2>5. \A x : Local!Earlier(x) \cup Local!Locals(x) \subseteq Local!Tests
    BY DEF Local!Earlier, Local!Locals
  <2>6. \A x \in Local!Tests : x = t \/ tests[x] # "no" => Local!Listed(x) /\
          \A u \in Local!Earlier(x) \cup Local!Locals(x) : Local!Failed(u)
    BY <2>1 DEF Testing, Local!MayTest
  <2>7. \A x \in Local!Tests : tests'[x] # "no" => Local!Listed(x)' /\
          \A u \in Local!Earlier(x)' \cup Local!Locals(x)' : Local!Failed(u)'
    BY <2>1, <2>3, <2>4, <2>5, <2>6, SameList
  <2> QED
    BY <2>1, <2>7 DEF Testing
<1>7. CASE Local!Load
  <2>1. pc = "test" /\ Local!Tested /\ UNCHANGED <<writable, catalog>>
    BY <1>7 DEF Local!Load, Local!Stay
  <2>2. writable
    BY <2>1 DEF Testing
  <2>3. \/ UNCHANGED <<tests, existing, engine>> /\ pc' = "save"
        \/ tests' = Local!Untried /\ pc' = "idle"
    BY <1>7 DEF Local!Load, Local!Over
  <2> QED
    BY <1>1, <1>2, <2>1, <2>2, <2>3
<1>8. CASE Local!Truncate
  <2>1. /\ UNCHANGED <<tests, existing, engine, catalog, writable>>
        /\ pc = "save" /\ pc' = "fill"
    BY <1>8 DEF Local!Truncate, Local!Goto, Local!run_vars, Local!Stay
  <2>2. writable
    BY <2>1 DEF Testing
  <2> QED
    BY <1>1, <2>1, <2>2
<1>9. CASE Local!Fill \/ Local!Stop
  BY <1>2, <1>9 DEF Local!Fill, Local!Stop, Local!Over, Local!Stay
<1>10. CASE \/ \E h \in UserEntries : Local!UserWrites(h)
            \/ UNCHANGED Local!vars
  <2>1. UNCHANGED <<pc, tests, existing, engine, catalog, writable>>
    BY <1>10 DEF Local!UserWrites, Local!vars, Local!run_vars, Local!Stay
  <2>2. ~ writable => pc \in {"idle", "ensure"}
    BY DEF Testing
  <2> QED
    BY <1>1, <2>1, <2>2
<1> QED
  BY <1>3, <1>4, <1>5, <1>6, <1>7, <1>8, <1>9, <1>10 DEF Local!Next

LEMMA ImageInvariance == MCSpec => [](ImageTypes /\ Keeping /\ Testing)
<1>1. MCInit => ImageTypes
  BY InitImageTypes DEF MCInit
<1>2. MCInit => Keeping
  BY DEF MCInit, Local!Init, Keeping
<1>3. MCInit => Testing
  BY DEF MCInit, Local!Init, Testing, Local!Untried
<1>4. ImageTypes /\ Keeping /\ Testing /\ [MCNext]_allVars => ImageTypes' /\ Keeping' /\ Testing'
  BY ImageSteps, NextImageTypes, NextKeeping, NextTesting
<1> QED
  BY <1>1, <1>2, <1>3, <1>4, PTL DEF MCSpec, allVars

\* The inventory's file keeps what the user writes into it, but for what is written
\* between a read and the write that follows it; a file that cannot be written
\* has nothing evaluated for it; and a discovery that has ended is not repeated.
THEOREM TheFileIsKept == MCSpec => []FileKept
<1>1. ImageTypes /\ Keeping /\ Testing => FileKept
  BY DEF ImageTypes, Keeping, Testing, FileKept, Local!FileKept, Local!UserKept,
     Local!FailsFirst, Local!NotRepeated, Local!Untried
<1> QED
  BY <1>1, ImageInvariance, PTL

\* What is listed goes by no name under which the inventory knows it.
LEMMA ListedIsNew ==
  ASSUME catalog \in Catalogs, NEW t \in Local!Tests, Local!Listed(t)
  PROVE  \A g \in existing : g.is # Local!Entry(t).is
<1>1. t.from \in {"base", "local", "remote"}
      /\ (t.from # "base" => t.image \in Images)
      /\ Local!Entry(t).is = <<t.image, t.arch>>
  BY DEF Local!Tests, Local!Cand, Local!Entry
<1>2. Local!Known(existing) = {g.is : g \in existing}
  BY DEF Local!Known
<1>3. CASE t.from = "base"
  BY <1>2, <1>3 DEF Local!Listed
<1>4. ASSUME NEW S, t.image \in S, t.image \in Images, ~ Local!Represented(S, t.arch)
      PROVE  <<t.image, t.arch>> \notin Local!Known(existing)
  BY <1>4 DEF Local!Represented
<1>5. CASE t.from = "local"
  <2>1. t.image \in Local!Pulled(Distro[t.image])
        /\ ~ Local!Represented(Local!Pulled(Distro[t.image]), t.arch)
    BY <1>5 DEF Local!Listed, Local!Pulled
  <2> QED
    BY <1>1, <1>2, <1>4, <1>5, <2>1
<1>6. CASE t.from = "remote"
  <2>1. t.image \in Local!Every(Family[Distro[t.image]])
        /\ ~ Local!Represented(Local!Every(Family[Distro[t.image]]), t.arch)
    BY <1>6 DEF Local!Listed, Local!Every
  <2> QED
    BY <1>1, <1>2, <1>4, <1>6, <2>1
<1> QED
  BY <1>1, <1>3, <1>5, <1>6

\* A host that discovery adds has answered every expression, and the inventory has
\* it under no name.
THEOREM OnlyNewIsAdded == MCSpec => AddsOnlyNew
<1>1. ASSUME ImageTypes, Keeping, Testing, [Local!Next]_(Local!vars), pc = "fill",
             NEW h \in file'.hosts \ loaded.hosts
      PROVE  /\ \E t \in Local!Tests : Local!Entry(t) = h /\ tests[t] = "clean"
             /\ \A g \in existing : g.is # h.is
  <2>1. file'.hosts \subseteq loaded.hosts \cup Local!Added(loaded)
    <3>1. CASE Local!Fill
      BY <3>1 DEF Local!Fill
    <3>2. CASE UNCHANGED file
      BY <1>1, <3>2 DEF Keeping
    <3>3. Local!Fill \/ UNCHANGED file
      BY <1>1 DEF Local!Next, Local!FirstRun, Local!DiscoverInto, Local!Begin, Local!Ensure,
         Local!EnsureWritable, Local!Unlink, Local!ReadExisting, Local!Look, Local!Test,
         Local!Load, Local!Truncate, Local!UserWrites, Local!Stop, Local!vars
    <3> QED
      BY <3>1, <3>2, <3>3
  <2>2. h \in Local!Added(loaded)
    BY <1>1, <2>1
  <2>3. PICK t \in Local!Tests : Local!Entry(t) = h /\ Local!Works(t)
    BY <2>2 DEF Local!Added, Local!Winners
  <2>4. tests[t] = "clean"
    BY <2>3 DEF Local!Works
  <2>5. Local!Listed(t)
    BY <1>1, <2>4 DEF Testing
  <2> QED
    BY <1>1, <2>3, <2>4, <2>5, ListedIsNew DEF ImageTypes
<1>2. ImageTypes /\ Keeping /\ Testing /\ [Local!Next]_(Local!vars) =>
        [pc = "fill" => \A h \in file'.hosts \ loaded.hosts :
           /\ \E t \in Local!Tests : Local!Entry(t) = h /\ tests[t] = "clean"
           /\ \A g \in existing : g.is # h.is]_(Local!vars)
  BY <1>1
<1> QED
  BY <1>2, ImageInvariance, ImageSteps, PTL
     DEF AddsOnlyNew, Local!AddsOnlyNew, MCSpec, allVars

-----------------------------------------------------------------------------
(* What is pulled. *)

\* The architectures of an image are among those qna is built for.
LEMMA ArchsAre ==
  ASSUME catalog \in Catalogs
  PROVE  /\ catalog.pulled \subseteq Images
         /\ \A i \in Images : Local!ArchsOf(i) \subseteq Archs
<1> QED
  BY CatalogsAssumption DEF Local!ArchsOf, Local!None

\* A host for a distribution is one for its family.
LEMMA FamilyHas ==
  ASSUME NEW i \in catalog.pulled, NEW a,
         ~ Local!Represented(Local!Every(Family[Distro[i]]), a)
  PROVE  ~ Local!Represented(Local!Pulled(Distro[i]), a)
<1>1. Local!Pulled(Distro[i]) \subseteq Local!Every(Family[Distro[i]])
  BY DEF Local!Pulled, Local!Every
<1> QED
  BY <1>1 DEF Local!Represented

LEMMA TestsAre ==
  /\ \A f \in {"local", "remote"}, i \in Images, a \in Archs :
       LET t == Local!Cand(f, i, a)
       IN t \in Local!Tests /\ t.from = f /\ t.image = i /\ t.arch = a
  /\ \A t \in Local!Tests : t.from # "base" =>
       /\ t.from \in {"local", "remote"} /\ t.image \in Images /\ t.arch \in Archs
       /\ t = Local!Cand(t.from, t.image, t.arch)
<1>1. \A f \in {"local", "remote"}, i \in Images, a \in Archs :
        LET t == Local!Cand(f, i, a)
        IN t \in Local!Tests /\ t.from = f /\ t.image = i /\ t.arch = a
  BY DEF Local!Tests, Local!Cand
<1>2. ASSUME NEW t \in Local!Tests, t.from # "base"
      PROVE  /\ t.from \in {"local", "remote"} /\ t.image \in Images /\ t.arch \in Archs
             /\ t = Local!Cand(t.from, t.image, t.arch)
  <2>1. PICK f \in {"local", "remote"}, i \in Images, a \in Archs : t = Local!Cand(f, i, a)
    BY <1>2 DEF Local!Tests, Local!Cand
  <2>2. t.from = f /\ t.image = i /\ t.arch = a
    BY <2>1 DEF Local!Cand
  <2> QED
    BY <2>1, <2>2
<1> QED
  BY <1>1, <1>2

\* The newest image of a chain that has not been tried may be, unless one before it
\* works.
LEMMA NewestUntried ==
  ASSUME ImageTypes, Local!Tested, NEW f \in {"local", "remote"}, NEW t \in Local!Tests,
         t.from = f, Local!Listed(t), tests[t] = "no"
  PROVE  \E u, w \in Local!Tests :
           /\ u = t \/ Local!SameChain(t, u)
           /\ u.from = f /\ tests[u] = "no" /\ Local!Listed(u)
           /\ w \in Local!Earlier(u) \cup Local!Locals(u)
           /\ ~ Local!Failed(w) /\ (Local!SameChain(u, w) => tests[w] # "no")
<1> DEFINE S == {i \in Images : LET u == Local!Cand(f, i, t.arch) IN
                   /\ u = t \/ Local!SameChain(t, u)
                   /\ tests[u] = "no" /\ Local!Listed(u)}
<1>1. t = Local!Cand(f, t.image, t.arch) /\ t.image \in Images /\ t.arch \in Archs
  BY TestsAre
<1>2. t.image \in S
  BY <1>1
<1>3. PICK i \in S : \A j \in S : Rank[j] <= Rank[i]
  BY <1>2, ImagesAssumption
<1> DEFINE u == Local!Cand(f, i, t.arch)
<1>4. /\ u \in Local!Tests /\ u.from = f /\ u.image = i /\ u.arch = t.arch
      /\ u = t \/ Local!SameChain(t, u)
      /\ tests[u] = "no" /\ Local!Listed(u) /\ i \in Images
  BY <1>1, <1>3, TestsAre
<1>5. PICK w \in Local!Earlier(u) \cup Local!Locals(u) : ~ Local!Failed(w)
  BY <1>4 DEF Local!Tested, Local!MayTest
<1>6. w \in Local!Tests
  BY <1>5 DEF Local!Earlier, Local!Locals
<1>7. ASSUME Local!SameChain(u, w), tests[w] = "no"
      PROVE  FALSE
  <2>1. w \in Local!Earlier(u)
    BY <1>4, <1>5, <1>7 DEF Local!Locals, Local!SameChain, Local!Alike
  <2>2. Rank[w.image] > Rank[i] /\ Local!Listed(w)
    BY <1>4, <2>1 DEF Local!Earlier
  <2>3. w.from = f /\ w.arch = t.arch /\ w.from # "base"
    BY <1>4, <1>7 DEF Local!SameChain, Local!Alike
  <2>4. w = Local!Cand(f, w.image, t.arch) /\ w.image \in Images
    BY <1>6, <2>3, TestsAre
  <2>5. Local!SameChain(t, w)
    BY <1>4, <1>7 DEF Local!SameChain, Local!Alike
  <2>6. w.image \in S
    BY <1>7, <2>2, <2>4, <2>5
  <2>7. Rank[w.image] \in Nat /\ Rank[i] \in Nat
    BY <1>4, <2>4, ImagesAssumption
  <2> QED
    BY <1>3, <2>2, <2>6, <2>7
<1> QED
  BY <1>4, <1>5, <1>6, <1>7

FamilyOf(t) == Family[Distro[t.image]]

\* When nothing is left to try, of a pulled image that was listed and not tried one of
\* its distribution works.
LEMMA OneOfItsDistro ==
  ASSUME ImageTypes, Local!Tested, NEW x \in Local!Tests, x.from = "local",
         Local!Listed(x), tests[x] = "no"
  PROVE  \E w \in Local!Tests : /\ w.from = "local" /\ w.arch = x.arch
                                /\ Distro[w.image] = Distro[x.image] /\ Local!Works(w)
<1>0. tests \in [Local!Tests -> {"no"} \cup Local!Verdicts]
  BY DEF ImageTypes
<1>1. PICK u, w \in Local!Tests :
        /\ u = x \/ Local!SameChain(x, u)
        /\ u.from = "local"
        /\ w \in Local!Earlier(u) \cup Local!Locals(u)
        /\ ~ Local!Failed(w) /\ (Local!SameChain(u, w) => tests[w] # "no")
  BY NewestUntried
<1>2. w \in Local!Earlier(u)
  BY <1>1 DEF Local!Locals
<1>3. Local!SameChain(u, w)
  BY <1>2 DEF Local!Earlier
<1>4. Local!Works(w)
  BY <1>0, <1>1, <1>3 DEF Local!Failed
<1> QED
  BY <1>1, <1>3, <1>4 DEF Local!SameChain, Local!Alike

\* Of a default that was listed and not tried one of its family works.
LEMMA OneOfItsFamily ==
  ASSUME ImageTypes, Local!Tested, NEW t \in Local!Tests, t.from = "remote",
         Local!Listed(t), tests[t] = "no"
  PROVE  \E w \in Local!Tests : /\ w.from # "base" /\ w.arch = t.arch
                                /\ FamilyOf(w) = FamilyOf(t) /\ Local!Works(w)
<1>0. tests \in [Local!Tests -> {"no"} \cup Local!Verdicts]
  BY DEF ImageTypes
<1>1. PICK u, w \in Local!Tests :
        /\ u = t \/ Local!SameChain(t, u)
        /\ u.from = "remote"
        /\ w \in Local!Earlier(u) \cup Local!Locals(u)
        /\ ~ Local!Failed(w) /\ (Local!SameChain(u, w) => tests[w] # "no")
  BY NewestUntried
<1>2. u.arch = t.arch /\ FamilyOf(u) = FamilyOf(t)
  BY <1>1 DEF Local!SameChain, Local!Alike, FamilyOf
<1>3. CASE w \in Local!Earlier(u)
  <2>1. Local!SameChain(u, w)
    BY <1>3 DEF Local!Earlier
  <2>2. Local!Works(w)
    BY <1>0, <1>1, <2>1 DEF Local!Failed
  <2> QED
    BY <1>1, <1>2, <2>1, <2>2 DEF Local!SameChain, Local!Alike, FamilyOf
<1>4. CASE w \in Local!Locals(u)
  <2>1. /\ w.from = "local" /\ w.arch = u.arch /\ FamilyOf(w) = FamilyOf(u)
        /\ Local!Listed(w)
    BY <1>4 DEF Local!Locals, FamilyOf
  <2>2. CASE tests[w] = "no"
    <3>1. PICK y \in Local!Tests : /\ y.from = "local" /\ y.arch = w.arch
                                   /\ Distro[y.image] = Distro[w.image] /\ Local!Works(y)
      BY <2>1, <2>2, OneOfItsDistro
    <3> QED
      BY <1>2, <2>1, <3>1 DEF FamilyOf
  <2>3. CASE tests[w] # "no"
    <3>1. Local!Works(w)
      BY <1>0, <1>1, <2>3 DEF Local!Failed
    <3> QED
      BY <1>2, <2>1, <3>1
  <2> QED
    BY <2>2, <2>3
<1> QED
  BY <1>1, <1>3, <1>4

\* An image is pulled only after every pulled one of its family has failed on that
\* architecture.  Once the tests are over, a pulled image that was not tried has a
\* host of its own distribution that is known or works now, and a default that was not
\* pulled has one of its family.
THEOREM PullsAreNeeded == MCSpec => []PullsOnlyForNeed
<1>1. ASSUME ImageTypes, Testing, NEW t \in Local!Tests, t.from = "remote", tests[t] # "no",
             NEW i \in catalog.pulled, Family[Distro[i]] = Family[Distro[t.image]],
             t.arch \in Local!ArchsOf(i)
      PROVE  Local!Failed(Local!Cand("local", i, t.arch))
  <2> DEFINE u == Local!Cand("local", i, t.arch)
  <2>1. i \in Images /\ t.arch \in Archs
    BY <1>1, ArchsAre, TestsAre DEF ImageTypes
  <2>2. u \in Local!Tests /\ u.from = "local" /\ u.image = i /\ u.arch = t.arch
    BY <2>1, TestsAre
  <2>3. Local!Listed(t) /\ \A x \in Local!Locals(t) : Local!Failed(x)
    BY <1>1 DEF Testing
  <2>4. engine /\ ~ Local!Represented(Local!Every(Family[Distro[t.image]]), t.arch)
    BY <1>1, <2>3 DEF Local!Listed
  <2>5. ~ Local!Represented(Local!Pulled(Distro[i]), t.arch)
    BY <1>1, <2>4, FamilyHas
  <2>6. Local!Listed(u)
    BY <1>1, <2>2, <2>4, <2>5 DEF Local!Listed
  <2>7. u \in Local!Locals(t)
    BY <1>1, <2>2, <2>6 DEF Local!Locals
  <2> QED
    BY <2>3, <2>7
<1>2. ASSUME ImageTypes, Local!Tested, engine, NEW i \in catalog.pulled,
             NEW a \in Local!ArchsOf(i),
             ~ Local!Represented({j \in catalog.pulled : Distro[j] = Distro[i]}, a),
             tests[Local!Cand("local", i, a)] \notin Local!Verdicts
      PROVE  Local!OfDistro(i, a) # {}
  <2> DEFINE t == Local!Cand("local", i, a)
  <2>1. i \in Images /\ a \in Archs
    BY <1>2, ArchsAre DEF ImageTypes
  <2>2. t \in Local!Tests /\ t.from = "local" /\ t.image = i /\ t.arch = a
    BY <2>1, TestsAre
  <2>3. Local!Listed(t) /\ tests[t] = "no"
    BY <1>2, <2>2 DEF Local!Listed, Local!Pulled, ImageTypes
  <2>4. PICK w \in Local!Tests : /\ w.from = "local" /\ w.arch = a
                                 /\ Distro[w.image] = Distro[i] /\ Local!Works(w)
    BY <1>2, <2>2, <2>3, OneOfItsDistro
  <2> QED
    BY <2>4 DEF Local!OfDistro, Local!WorkOn
<1>3. ASSUME ImageTypes, Local!Tested, engine, NEW i \in Remote,
             NEW a \in Local!ArchsOf(i),
             ~ Local!Represented(Local!Every(Family[Distro[i]]), a),
             tests[Local!Cand("remote", i, a)] \notin Local!Verdicts
      PROVE  Local!OfFamily(i, a) # {}
  <2> DEFINE t == Local!Cand("remote", i, a)
  <2>1. i \in Images /\ a \in Archs
    BY <1>3, ArchsAre, CatalogsAssumption DEF ImageTypes
  <2>2. t \in Local!Tests /\ t.from = "remote" /\ t.image = i /\ t.arch = a
    BY <2>1, TestsAre
  <2>3. Local!Listed(t) /\ tests[t] = "no"
    BY <1>3, <2>2 DEF Local!Listed, ImageTypes
  <2>4. PICK w \in Local!Tests : /\ w.from # "base" /\ w.arch = a
                                 /\ FamilyOf(w) = FamilyOf(t) /\ Local!Works(w)
    BY <1>3, <2>2, <2>3, OneOfItsFamily
  <2> QED
    BY <2>2, <2>4 DEF Local!OfFamily, Local!WorkOn, FamilyOf
<1>4. ImageTypes /\ Testing => Local!PullsLast
  BY <1>1 DEF Local!PullsLast
<1>5. ImageTypes /\ Testing => Local!NonePassedOver
  <2>1. Testing /\ ((pc = "test" /\ Local!Tested) \/ pc \in {"save", "fill"}) => Local!Tested
    BY DEF Testing
  <2> QED
    BY <1>2, <1>3, <2>1 DEF Local!NonePassedOver
<1>6. ImageTypes /\ Testing => PullsOnlyForNeed
  BY <1>4, <1>5 DEF PullsOnlyForNeed, Local!PullsOnlyForNeed
<1> QED
  BY <1>6, ImageInvariance, PTL

-----------------------------------------------------------------------------
(* Discovery of SSH hosts. *)

SshTypes ==
  /\ phase \in {"list", "pick", "confirm", "probe", "next", "ask", "done", "stopped", "cut"}
  /\ \A n \in DOMAIN kept : kept[n] # {}
  /\ Ready = DOMAIN kept /\ ready \in Seq(ToSet(ready))
  /\ tried \in [Hosts -> {"no"} \cup AsIs \cup WithBecome]
  /\ {remembered, offered} \subseteq Users \cup {None} /\ refused \subseteq Users

LEMMA AppendOf ==
  ASSUME NEW s, s \in Seq(ToSet(s)), NEW e
  PROVE  /\ ToSet(Append(s, e)) = ToSet(s) \cup {e}
         /\ Append(s, e) \in Seq(ToSet(Append(s, e)))
         /\ Len(Append(s, e)) = Len(s) + 1 /\ Len(s) \in Nat
         /\ \A i \in 1 .. Len(s) : Append(s, e)[i] = s[i]
         /\ Append(s, e)[Len(s) + 1] = e
<1> DEFINE X == ToSet(s) \cup {e}
<1>1. s \in Seq(X)
  <2> HIDE DEF X
  <2>1. s \in [1 .. Len(s) -> ToSet(s)] /\ Len(s) \in Nat
    OBVIOUS
  <2>2. ToSet(s) \subseteq X
    BY DEF X
  <2> QED
    BY <2>1, <2>2
<1>2. Append(s, e) \in Seq(X) /\ Len(Append(s, e)) = Len(s) + 1 /\ Len(s) \in Nat
  BY <1>1
<1>3. /\ \A i \in 1 .. Len(s) : Append(s, e)[i] = s[i]
      /\ Append(s, e)[Len(s) + 1] = e
      /\ DOMAIN s = 1 .. Len(s) /\ DOMAIN Append(s, e) = 1 .. Len(s) + 1
  BY <1>1
<1>4. ToSet(Append(s, e)) = X
  <2>1. ToSet(Append(s, e)) \subseteq X
    BY <1>2, <1>3 DEF ToSet
  <2>2. ToSet(s) \subseteq ToSet(Append(s, e))
    BY <1>2, <1>3 DEF ToSet
  <2>3. e \in ToSet(Append(s, e))
    BY <1>2, <1>3 DEF ToSet
  <2> QED
    BY <2>1, <2>2, <2>3
<1> QED
  BY <1>2, <1>3, <1>4

\* A pick is passed over, or its keys are kept and it is tested.
LEMMA ConfirmOf ==
  ASSUME SshTypes, Confirm
  PROVE  LET g == Head(picks) IN
         \/ UNCHANGED <<kept, ready, recorded>>
         \/ \E keys : /\ keys # {} /\ ~ Duplicate(g, keys)
                      /\ kept' = [h \in DOMAIN kept \cup {Lead(g)} |->
                                    IF h = Lead(g) THEN keys ELSE kept[h]]
                      /\ ready' = Append(ready, g)
                      /\ recorded' \subseteq recorded \cup {g}
                      /\ Ready' = Ready \cup {Lead(g)}
                      /\ ToSet(ready') = ToSet(ready) \cup {g}
                      /\ ready' \in Seq(ToSet(ready'))
<1> DEFINE g == Head(picks)
<1>1. PICK keys \in Fetched(g) :
        IF NotFetched(keys) THEN UNCHANGED <<kept, ready, recorded>>
        ELSE /\ recorded' = recorded \cup Recorded(g, keys)
             /\ IF Duplicate(g, keys) THEN UNCHANGED <<kept, ready>>
                ELSE /\ kept' = [h \in DOMAIN kept \cup {Lead(g)} |->
                                   IF h = Lead(g) THEN keys ELSE kept[h]]
                     /\ ready' = Append(ready, g)
  BY DEF Confirm
<1>2. CASE NotFetched(keys)
  BY <1>1, <1>2
<1>3. CASE ~ NotFetched(keys) /\ Duplicate(g, keys)
  BY <1>1, <1>3 DEF Recorded
<1>4. CASE ~ NotFetched(keys) /\ ~ Duplicate(g, keys)
  <2>1. /\ keys # {} /\ recorded' \subseteq recorded \cup {g} /\ ready' = Append(ready, g)
    BY <1>1, <1>4 DEF Recorded, NotFetched
  <2>2. /\ ToSet(ready') = ToSet(ready) \cup {g} /\ ready' \in Seq(ToSet(ready'))
    BY <2>1, AppendOf DEF SshTypes
  <2>3. Ready' = {Lead(h) : h \in ToSet(ready')}
    BY DEF Ready
  <2>4. Ready' = Ready \cup {Lead(g)}
    BY <2>2, <2>3 DEF Ready
  <2> QED
    BY <1>1, <1>4, <2>1, <2>2, <2>4
<1> QED
  BY <1>2, <1>3, <1>4

\* The other steps leave alone what is kept, recorded and ready.
LEMMA OthersKeep ==
  ASSUME [Next]_vars
  PROVE  Confirm \/ UNCHANGED <<kept, ready, recorded>>
<1> QED
  BY DEF Next, List, Pick, Begin, Probed, Prompt, Skip, Write, Stop, Probe, LogIn, vars,
     pick_vars, login_vars

LEMMA LeadsStay == Ready' = {Lead(g) : g \in ToSet(ready')}
<1> QED
  BY DEF Ready

LEMMA InitSshTypes == Init => SshTypes
<1> QED
  BY DEF Init, SshTypes, Ready, ToSet

LEMMA NextSshTypes == ASSUME SshTypes, [Next]_vars PROVE SshTypes'
<1> DEFINE Phases == {"list", "pick", "confirm", "probe", "next", "ask", "done", "stopped", "cut"}
           Names == Users \cup {None}
           Logins == [Hosts -> {"no"} \cup AsIs \cup WithBecome]
<1>1. /\ \A n \in DOMAIN kept' : kept'[n] # {}
      /\ Ready' = DOMAIN kept' /\ ready' \in Seq(ToSet(ready'))
  <2>1. CASE UNCHANGED <<kept, ready, recorded>>
    BY <2>1, LeadsStay DEF SshTypes, Ready
  <2>2. CASE Confirm
    BY <2>1, <2>2, ConfirmOf DEF SshTypes
  <2> QED
    BY <2>1, <2>2, OthersKeep
<1>2. phase' \in Phases
  BY DEF SshTypes, Next, List, Pick, Confirm, Begin, Probed, Prompt, Skip, Write, Stop, Probe,
     LogIn, Settle, vars, pick_vars, login_vars
<1>3. tried' \in Logins
  <2>1. tried' = tried \/ \E n, s : /\ s \in AsIs \cup WithBecome \cup Working \cup {"fails"}
                                    /\ tried' = [tried EXCEPT ![n] = s]
    BY DEF Next, List, Pick, Confirm, Begin, Probed, Prompt, Skip, Write, Stop, Probe,
       Attempt, LogIn, Settle, vars, pick_vars, login_vars
  <2> QED
    BY <2>1 DEF SshTypes, AsIs, WithBecome, Working
<1>4. /\ {remembered', offered'} \subseteq Names /\ refused' \subseteq Users
  <2>1. ASSUME NEW answer \in Names, LogIn(answer)
        PROVE  {remembered', offered'} \subseteq Names /\ refused' \subseteq Users
    <3> DEFINE user == IF answer = None THEN offered ELSE answer
    <3>1. user # None /\ user \in Users
      BY <2>1 DEF LogIn, SshTypes
    <3>2. remembered' = IF answer = None THEN remembered ELSE answer
      BY <2>1 DEF LogIn
    <3>3. \/ UNCHANGED <<offered, refused>>
          \/ refused' = refused \cup {user} /\ offered' = Offer(refused')
      BY <2>1 DEF LogIn
    <3>4. offered' \in Names /\ refused' \subseteq Users
      BY <3>1, <3>3 DEF SshTypes, Offer
    <3> QED
      BY <3>2, <3>4 DEF SshTypes
  <2>2. CASE Prompt
    BY <2>2 DEF Prompt, SshTypes
  <2>3. CASE UNCHANGED <<remembered, offered, refused>>
    BY <2>3 DEF SshTypes
  <2>4. \/ Prompt \/ UNCHANGED <<remembered, offered, refused>>
        \/ \E answer \in Names : LogIn(answer)
    BY DEF Next, List, Pick, Confirm, Begin, Probed, Skip, Write, Stop, Probe, vars,
       login_vars
  <2> QED
    BY <2>1, <2>2, <2>3, <2>4
<1> QED
  BY <1>1, <1>2, <1>3, <1>4 DEF SshTypes

\* What the two discoveries keep has its type, and the hosts to be tested are those
\* whose keys are kept.
THEOREM BothTypesAreKept == MCSpec => []BothTypesOK
<1>1. MCInit => SshTypes
  BY InitSshTypes DEF MCInit
<1>2. SshTypes /\ [MCNext]_allVars => SshTypes'
  BY SshSteps, NextSshTypes
<1>3. ImageTypes /\ SshTypes => BothTypesOK
  BY DEF ImageTypes, SshTypes, BothTypesOK, TypeOK, Local!TypeOK, Files, Entries, OneEach
<1> QED
  BY <1>1, <1>2, <1>3, ImageTypesInvariance, PTL DEF MCSpec, allVars

\* Before the picks nothing is kept.
Beginning ==
  phase \in {"list", "pick"} =>
    /\ kept = [h \in {} |-> {}] /\ picks = <<>> /\ ready = <<>>
    /\ picked = {} /\ recorded = {}

LEMMA NextBeginning == ASSUME Beginning, [Next]_vars PROVE Beginning'
<1>1. CASE List
  BY <1>1 DEF List, Beginning, login_vars
<1>2. CASE UNCHANGED vars
  BY <1>2 DEF Beginning, vars, pick_vars
<1>3. CASE ~ List /\ Next
  <2>1. phase' \notin {"list", "pick"}
    BY <1>3 DEF Next, Pick, Confirm, Begin, Probed, Prompt, Skip, Write, Stop, Probe, LogIn,
       Settle
  <2> QED
    BY <2>1 DEF Beginning
<1> QED
  BY <1>1, <1>2, <1>3

LEMMA SshInvariance == MCSpec => [](SshTypes /\ Beginning)
<1>1. MCInit => SshTypes
  BY InitSshTypes DEF MCInit
<1>2. MCInit => Beginning
  BY DEF MCInit, Init, Beginning
<1>3. SshTypes /\ Beginning /\ [MCNext]_allVars => SshTypes' /\ Beginning'
  BY SshSteps, NextSshTypes, NextBeginning
<1> QED
  BY <1>1, <1>2, <1>3, PTL DEF MCSpec, allVars

\* A host that refuses the login is not tried again but when the user says so.
THEOREM RefusedIsNotRetried == MCSpec => NothingGuessed
<1>1. ASSUME SshTypes, [Next]_vars, NEW n \in Hosts, phase = "probe", tried[n] = "refused"
      PROVE  tried'[n] = "refused"
  <2>1. ASSUME NEW m \in Hosts, Probe(m)
        PROVE  tried'[n] = "refused"
    <3>1. PICK s : tried' = [tried EXCEPT ![m] = s] /\ (tried[m] = "no" \/ tried[m] = "needs become")
      BY <2>1 DEF Probe, Attempt, GoesOn
    <3> QED
      BY <1>1, <3>1 DEF SshTypes
  <2>2. \/ \E m \in Hosts : Probe(m)
        \/ UNCHANGED tried
    BY <1>1 DEF Next, List, Pick, Confirm, Begin, Probed, Prompt, Skip, Write, Stop, LogIn,
       vars, login_vars
  <2> QED
    BY <1>1, <2>1, <2>2
<1>2. SshTypes /\ [Next]_vars =>
        [\A n \in Hosts : phase = "probe" /\ tried[n] = "refused" => tried'[n] = "refused"]_vars
  BY <1>1
<1> QED
  BY <1>2, SshInvariance, SshSteps, PTL DEF NothingGuessed, MCSpec, allVars

\* A user name that a host has refused is not what that host is offered next.
LEMMA RefusedIsNotOffered == MCSpec => []NeverOfferedAgain
<1> DEFINE Inv == None \notin refused /\ NeverOfferedAgain
<1>1. MCInit => Inv
  BY DEF MCInit, Init, NeverOfferedAgain
<1>2. ASSUME Inv, [Next]_vars
      PROVE  Inv'
  <2>1. ASSUME NEW answer \in Users \cup {None}, LogIn(answer)
        PROVE  Inv'
    BY <1>2, <2>1 DEF LogIn, Settle, Offer, NeverOfferedAgain
  <2>2. CASE Prompt
    BY <2>2 DEF Prompt, NeverOfferedAgain
  <2>3. CASE UNCHANGED <<offered, refused>> /\ (phase' = "ask" => phase = "ask")
    BY <1>2, <2>3 DEF NeverOfferedAgain
  <2>4. \/ \E answer \in Users \cup {None} : LogIn(answer)
        \/ Prompt
        \/ UNCHANGED <<offered, refused>> /\ (phase' = "ask" => phase = "ask")
    BY <1>2 DEF Next, List, Pick, Confirm, Begin, Probed, Skip, Write, Stop, Probe, Settle,
       vars, login_vars
  <2> QED
    BY <2>1, <2>2, <2>3, <2>4
<1>3. Inv /\ [MCNext]_allVars => Inv'
  BY <1>2, SshSteps
<1>4. Inv => NeverOfferedAgain
  OBVIOUS
<1> HIDE DEF Inv
<1> QED
  BY <1>1, <1>3, <1>4, PTL DEF MCSpec, allVars

-----------------------------------------------------------------------------
(* Discovery over ssh: the list. *)

\* The places of the names found are numbers, so of some names one comes first.
LEMMA LeadIn == ASSUME NEW g, g # {} PROVE Lead(g) \in g
<1> DEFINE best == Foremost(Foremost(g, {n \in g : Source[n] = "config"}), Hosts \ IPs)
           At(n) == SelectInSeq(Order, LAMBDA x : x = n)
<1>1. \A n : At(n) \in Nat
  <2>1. ASSUME NEW n
        PROVE  At(n) \in Nat
    <3> DEFINE I == {i \in 1 .. Len(Order) : Order[i] = n}
    <3>1. I \in SUBSET Nat
      BY SourceAssumption
    <3>2. At(n) = IF I # {} THEN Min(I) ELSE 0
      BY DEF SelectInSeq
    <3> HIDE DEF I, At
    <3>3. I # {} => \E i \in I : \A j \in I : i <= j
      BY <3>1, LeastOf
    <3>4. I # {} => Min(I) \in I
      BY <3>3 DEF Min
    <3>5. CASE I = {}
      BY <3>2, <3>5
    <3>6. CASE I # {}
      <4>1. At(n) = Min(I) /\ Min(I) \in I
        BY <3>2, <3>4, <3>6
      <4> HIDE DEF I
      <4> QED
        BY <3>1, <4>1, Zenon
    <3> QED
      BY <3>5, <3>6
  <2> QED
    BY <2>1
<1>2. Lead(g) = CHOOSE n \in best : \A m \in best : At(n) <= At(m)
  BY DEF Lead
<1> HIDE DEF At
<1>6. best \subseteq g /\ best # {}
  BY DEF Foremost
<1> HIDE DEF best
<1> DEFINE Ats == {At(n) : n \in best}
<1>3. Ats \in SUBSET Nat /\ Ats # {}
  BY <1>1, <1>6
<1>4. PICK k \in Ats : \A j \in Ats : k <= j
  <2> HIDE DEF Ats
  <2> QED
    BY <1>3, LeastOf
<1>5. \E n \in best : \A m \in best : At(n) <= At(m)
  BY <1>4
<1> QED
  BY <1>2, <1>5, <1>6, Zenon

\* How the groups come about.
Grouping ==
  {f \in [0 .. Len(Order) -> Seq(SUBSET Hosts)] :
     /\ Groups = f[Len(Order)]
     /\ f[0] = <<>>
     /\ \A n \in 1 .. Len(Order) : f[n] = Join(f[n - 1], Order[n])}

LEMMA JoinType ==
  ASSUME NEW gs \in Seq(SUBSET Hosts), NEW e \in Hosts
  PROVE  Join(gs, e) \in Seq(SUBSET Hosts)
<1> DEFINE touching == {g \in ToSet(gs) : \E n \in g : Touches(e, n)}
           others == Chosen(gs, ToSet(gs) \ touching)
<1>1. Join(gs, e) = Append(others, {e} \cup UNION touching)
  BY DEF Join
<1>2. \A g \in ToSet(gs) : g \in SUBSET Hosts
  BY DEF ToSet
<1>3. {e} \cup UNION touching \in SUBSET Hosts
  BY <1>2
<1>4. others \in Seq(SUBSET Hosts)
  BY ChosenIs
<1> HIDE DEF touching, others
<1> QED
  BY <1>1, <1>3, <1>4

LEMMA GroupsGrow == Grouping # {}
<1> DEFINE N == Len(Order)
           S == Seq(SUBSET Hosts)
           F == [n \in 1 .. N |-> [c \in S |-> Join(c, Order[n])]]
           upto[n \in 0 .. N] == IF n = 0 THEN <<>> ELSE Join(upto[n - 1], Order[n])
<1>1. Groups = upto[N]
  BY DEF Groups
<1> HIDE DEF upto
<1>2. N \in Nat /\ <<>> \in S /\ \A n \in 1 .. N : Order[n] \in Hosts
  BY SourceAssumption DEF Hosts
<1> HIDE DEF N
<1>3. \A n \in 1 .. N, c \in S : F[n][c] = Join(c, Order[n]) /\ F[n][c] \in S
  BY <1>2, JoinType
<1>4. StepsIn(F, N, S)
  <2> HIDE DEF F, S
  <2> QED
    BY <1>3 DEF StepsIn
<1> HIDE DEF F, S
<1>5. PICK g : g \in Computed(F, N, S, <<>>)
  BY <1>2, <1>4, Recursion
<1>6. g = [n \in 0 .. N |-> IF n = 0 THEN <<>> ELSE Join(g[n - 1], Order[n])]
  <2>1. g \in [0 .. N -> S] /\ g[0] = <<>> /\ \A n \in 1 .. N : g[n] = F[n][g[n - 1]]
    BY <1>5 DEF Computed
  <2>2. \A n \in 1 .. N : g[n - 1] \in S
    BY <1>2, <2>1
  <2>3. \A n \in 1 .. N : g[n] = Join(g[n - 1], Order[n])
    BY <1>3, <2>1, <2>2
  <2>4. \A n \in 0 .. N : n = 0 \/ n \in 1 .. N
    BY <1>2
  <2>5. \A n \in 0 .. N : g[n] = IF n = 0 THEN <<>> ELSE Join(g[n - 1], Order[n])
    BY <2>1, <2>3, <2>4, Zenon
  <2>6. g = [n \in 0 .. N |-> g[n]]
    BY <2>1
  <2> QED
    BY <2>5, <2>6, Zenon
<1>7. upto = [n \in 0 .. N |-> IF n = 0 THEN <<>> ELSE Join(upto[n - 1], Order[n])]
  BY <1>6, Zenon DEF upto
<1>8. \A n \in 0 .. N : upto[n] = IF n = 0 THEN <<>> ELSE Join(upto[n - 1], Order[n])
  BY <1>7, Zenon
<1>9. upto[0] = <<>> /\ \A n \in 1 .. N : upto[n] = Join(upto[n - 1], Order[n])
  BY <1>2, <1>8
<1>10. \A n \in 0 .. N : upto[n] \in S
  <2>1. \A n \in 1 .. N : upto[n - 1] \in S => upto[n] = F[n][upto[n - 1]]
    BY <1>3, <1>9
  <2> QED
    BY <1>2, <1>4, <1>9, <2>1, Follows
<1>11. upto \in [0 .. N -> S]
  BY <1>7, <1>10
<1> QED
  BY <1>1, <1>9, <1>11, Zenon DEF Grouping, N, S

\* A name touches itself, as its entry goes by a name.
LEMMA OwnTouch ==
  ASSUME net \in Networks, NEW e \in Hosts
  PROVE  Touches(e, e)
<1>1. PICK i \in 1 .. Len(Order) : Order[i] = e
  BY SourceAssumption DEF Hosts, ToSet
<1>2. net.names[e] # {}
  BY <1>1, NamesAssumption
<1> QED
  BY <1>2 DEF Touches

LEMMA TouchBack == ASSUME NEW e, NEW n PROVE Touches(e, n) <=> Touches(n, e)
BY DEF Touches

\* The machines of gs are not one another's, as far as one can tell.
Apart(gs) ==
  \A g, h \in ToSet(gs) : g # h => \A e \in g, n \in h : ~ Touches(e, n)
\* Groups that are not empty, each one listed once and apart from the others.
GroupsOK(gs) ==
  gs \in Seq(SUBSET Hosts) /\ {} \notin ToSet(gs) /\ IsInjective(gs) /\ Apart(gs)

\* One more entry's group touches no other.
LEMMA JoinOK ==
  ASSUME net \in Networks, NEW gs, GroupsOK(gs), NEW e \in Hosts
  PROVE  GroupsOK(Join(gs, e))
<1> DEFINE touching == {g \in ToSet(gs) : \E n \in g : Touches(e, n)}
           others == Chosen(gs, ToSet(gs) \ touching)
           joined == {e} \cup UNION touching
<1>1. Join(gs, e) = Append(others, joined)
  BY DEF Join
<1>2. gs \in Seq(SUBSET Hosts) /\ {} \notin ToSet(gs) /\ IsInjective(gs) /\ Apart(gs)
  BY DEF GroupsOK
<1>3. /\ others \in Seq(SUBSET Hosts)
      /\ ToSet(others) = ToSet(gs) \cap (ToSet(gs) \ touching)
      /\ IsInjective(others)
  BY <1>2, ChosenIs
<1>4. ToSet(others) = ToSet(gs) \ touching
  BY <1>3
<1>5. joined \in SUBSET Hosts /\ joined # {}
  <2>1. \A g \in ToSet(gs) : g \in SUBSET Hosts
    BY <1>2 DEF ToSet
  <2> QED
    BY <2>1
<1> HIDE DEF others
<1>6. /\ Append(others, joined) \in Seq(SUBSET Hosts)
      /\ ToSet(Append(others, joined)) = ToSet(others) \cup {joined}
  <2> HIDE DEF joined
  <2> QED
    BY <1>3, <1>5, OneMore
<1>7. ASSUME NEW h \in ToSet(others), NEW n \in h, NEW m \in joined
      PROVE  ~ Touches(m, n)
  <2>1. h \in ToSet(gs) /\ h \notin touching
    BY <1>4
  <2>2. CASE m = e
    BY <2>1, <2>2
  <2>3. ASSUME NEW g \in touching, m \in g
        PROVE  ~ Touches(m, n)
    BY <1>2, <2>1, <2>3 DEF Apart
  <2> QED
    BY <2>2, <2>3
<1>8. Apart(Append(others, joined))
  <2>1. \A g, h \in ToSet(others) : g # h => \A m \in g, n \in h : ~ Touches(m, n)
    BY <1>2, <1>4 DEF Apart
  <2>2. \A h \in ToSet(others) : \A m \in joined, n \in h : ~ Touches(m, n) /\ ~ Touches(n, m)
    BY <1>7, TouchBack
  <2> HIDE DEF joined
  <2> QED
    BY <1>6, <2>1, <2>2 DEF Apart
<1>9. joined \notin ToSet(others)
  <2>1. Touches(e, e) /\ e \in joined
    BY OwnTouch
  <2> HIDE DEF joined
  <2> QED
    BY <1>7, <2>1
<1> HIDE DEF joined
<1>10. IsInjective(Append(others, joined))
  BY <1>3, <1>5, <1>9, OneMore
<1> QED
  BY <1>1, <1>2, <1>4, <1>5, <1>6, <1>8, <1>10 DEF GroupsOK

LEMMA NoGroupsOK == GroupsOK(<<>>)
BY DEF GroupsOK, Apart, ToSet, IsInjective

LEMMA GroupsAreOK == net \in Networks => GroupsOK(Groups)
<1> SUFFICES ASSUME net \in Networks PROVE GroupsOK(Groups)
  OBVIOUS
<1> DEFINE N == Len(Order)
<1>1. PICK f \in [0 .. N -> Seq(SUBSET Hosts)] :
        /\ Groups = f[N]
        /\ f[0] = <<>>
        /\ \A n \in 1 .. N : f[n] = Join(f[n - 1], Order[n])
  <2>1. PICK f : f \in Grouping
    BY GroupsGrow
  <2> QED
    BY <2>1 DEF Grouping
<1> DEFINE T == {n \in 0 .. N : GroupsOK(f[n])}
<1>2. N \in Nat /\ \A n \in 1 .. N : Order[n] \in Hosts
  BY SourceAssumption DEF Hosts
<1>3. GroupsOK(<<>>)
  BY NoGroupsOK
<1>4. 0 \in T
  BY <1>1, <1>2, <1>3
<1> HIDE DEF N
<1>5. ASSUME NEW n \in 1 .. N, n - 1 \in T
      PROVE  n \in T
  <2>1. f[n] = Join(f[n - 1], Order[n]) /\ GroupsOK(f[n - 1]) /\ Order[n] \in Hosts
    BY <1>1, <1>2, <1>5
  <2>2. GroupsOK(f[n])
    BY <2>1, JoinOK
  <2>3. n \in 0 .. N
    BY <1>2
  <2> QED
    BY <2>2, <2>3
<1> HIDE DEF T
<1>6. N \in T
  <2>1. \A n \in 0 .. N : n \in T
    BY <1>2, <1>4, <1>5, UpTo
  <2> QED
    BY <1>2, <2>1
<1> QED
  BY <1>1, <1>6 DEF T

LEMMA OwnSeq ==
  ASSUME NEW X, NEW t, t \in Seq(X), NEW T, T = ToSet(t)
  PROVE  t \in Seq(T)
<1>1. t \in [1 .. Len(t) -> X] /\ Len(t) \in Nat
  OBVIOUS
<1>2. \A i \in 1 .. Len(t) : t[i] \in T
  BY <1>1 DEF ToSet
<1>3. t \in [1 .. Len(t) -> T]
  BY <1>1, <1>2
<1> QED
  BY <1>1, <1>3

\* A source's candidates are listed once each, those with a name first.
LEMMA SourceIs ==
  ASSUME net \in Networks, NEW s
  PROVE  /\ FromSource(s) \in Seq(SUBSET Hosts) /\ IsInjective(FromSource(s))
         /\ ToSet(FromSource(s)) = Of(s)
<1> DEFINE A == {g \in Of(s) : Lead(g) \notin IPs}
           B == {g \in Of(s) : Lead(g) \in IPs}
           a == Chosen(Groups, A)
           b == Chosen(Groups, B)
<1>1. FromSource(s) = a \o b
  BY DEF FromSource
<1>2. Groups \in Seq(SUBSET Hosts) /\ IsInjective(Groups)
  BY GroupsAreOK DEF GroupsOK
<1>3. Of(s) \subseteq ToSet(Groups) /\ A \cup B = Of(s) /\ A \cap B = {}
  BY DEF Of
<1> HIDE DEF A, B
<1>4. /\ a \in Seq(SUBSET Hosts) /\ IsInjective(a) /\ ToSet(a) = ToSet(Groups) \cap A
      /\ b \in Seq(SUBSET Hosts) /\ IsInjective(b) /\ ToSet(b) = ToSet(Groups) \cap B
  BY <1>2, ChosenIs
<1>5. ToSet(a) = A /\ ToSet(b) = B
  BY <1>3, <1>4
<1> HIDE DEF a, b
<1>6. /\ a \o b \in Seq(SUBSET Hosts) /\ IsInjective(a \o b)
      /\ ToSet(a \o b) = ToSet(a) \cup ToSet(b)
  BY <1>3, <1>4, <1>5, BothOnce
<1> QED
  BY <1>1, <1>3, <1>5, <1>6

\* The candidates are groups that have to be asked about.
LEMMA CandidatesAreOK ==
  net \in Networks => GroupsOK(Candidates) /\ \A g \in ToSet(Candidates) : ~ Dropped(g)
<1> SUFFICES ASSUME net \in Networks
    PROVE  GroupsOK(Candidates) /\ \A g \in ToSet(Candidates) : ~ Dropped(g)
  OBVIOUS
<1> DEFINE a == FromSource("config")
           b == FromSource("known_hosts")
           c == FromSource("mdns")
<1>1. Candidates = a \o b \o c
  BY DEF Candidates, Sources
<1>2. Groups \in Seq(SUBSET Hosts) /\ {} \notin ToSet(Groups) /\ IsInjective(Groups) /\ Apart(Groups)
  BY GroupsAreOK DEF GroupsOK
<1>3. /\ \A g \in Of("config") : g \in ToSet(Groups) /\ ~ Dropped(g)
      /\ \A g \in Of("known_hosts") : g \in ToSet(Groups) /\ ~ Dropped(g)
      /\ \A g \in Of("mdns") : g \in ToSet(Groups) /\ ~ Dropped(g)
  BY DEF Of
<1>4. /\ Of("config") \cap Of("known_hosts") = {}
      /\ Of("config") \cap Of("mdns") = {}
      /\ Of("known_hosts") \cap Of("mdns") = {}
  BY DEF Of
<1>5. /\ a \in Seq(SUBSET Hosts) /\ IsInjective(a) /\ ToSet(a) = Of("config")
      /\ b \in Seq(SUBSET Hosts) /\ IsInjective(b) /\ ToSet(b) = Of("known_hosts")
      /\ c \in Seq(SUBSET Hosts) /\ IsInjective(c) /\ ToSet(c) = Of("mdns")
  BY SourceIs
<1> HIDE DEF a, b, c
<1>6. a \o b \in Seq(SUBSET Hosts) /\ IsInjective(a \o b) /\ ToSet(a \o b) = ToSet(a) \cup ToSet(b)
  <2>1. ToSet(a) \cap ToSet(b) = {}
    BY <1>4, <1>5
  <2> QED
    BY <1>5, <2>1, BothOnce
<1>7. /\ Candidates \in Seq(SUBSET Hosts) /\ IsInjective(Candidates)
      /\ ToSet(Candidates) = ToSet(a) \cup ToSet(b) \cup ToSet(c)
  <2> DEFINE ab == a \o b
  <2>1. ab \in Seq(SUBSET Hosts) /\ IsInjective(ab) /\ ToSet(ab) = ToSet(a) \cup ToSet(b)
    BY <1>6
  <2>2. Candidates = ab \o c
    BY <1>1
  <2> HIDE DEF ab
  <2>3. ToSet(ab) \cap ToSet(c) = {}
    BY <1>4, <1>5, <2>1
  <2>4. /\ ab \o c \in Seq(SUBSET Hosts) /\ IsInjective(ab \o c)
        /\ ToSet(ab \o c) = ToSet(ab) \cup ToSet(c)
    BY <1>5, <2>1, <2>3, BothOnce
  <2> QED
    BY <2>1, <2>2, <2>4
<1>8. \A g \in ToSet(Candidates) : g \in ToSet(Groups) /\ ~ Dropped(g)
  BY <1>3, <1>5, <1>7
<1>9. Apart(Candidates)
  BY <1>2, <1>8 DEF Apart
<1> QED
  BY <1>2, <1>7, <1>8, <1>9 DEF GroupsOK

\* The list is made of such groups.
Listing ==
  net \in Networks /\ GroupsOK(list) /\ \A g \in ToSet(list) : ~ Dropped(g)

\* What that says after a step.
LEMMA ListingNext ==
  ASSUME UNCHANGED net
  PROVE  Listing' <=>
         net \in Networks /\ GroupsOK(list') /\ \A g \in ToSet(list') : ~ Dropped(g)
<1>1. \A e, n : Touches(e, n)' <=> Touches(e, n)
  BY DEF Touches
<1>2. \A g : Dropped(g)' <=> Dropped(g)
  BY DEF Dropped, KeysOf, NamesOf
<1>3. Apart(list)' <=> Apart(list')
  <2>1. Apart(list)' <=>
          \A g, h \in ToSet(list') : g # h => \A e \in g, n \in h : ~ Touches(e, n)'
    BY DEF Apart
  <2> QED
    BY <1>1, <2>1 DEF Apart
<1>4. GroupsOK(list)' <=> GroupsOK(list')
  BY <1>3 DEF GroupsOK
<1>5. Listing' <=>
        net' \in Networks /\ GroupsOK(list)' /\ \A g \in ToSet(list') : ~ Dropped(g)'
  BY DEF Listing
<1> QED
  BY <1>2, <1>4, <1>5

LEMMA NextListing == ASSUME Listing, [Next]_vars PROVE Listing'
<1>1. UNCHANGED net
  BY DEF Next, List, Pick, Confirm, Begin, Probed, Prompt, Skip, Write, Stop, Probe, LogIn, vars
<1>2. list' = Candidates \/ UNCHANGED list
  BY DEF Next, List, Pick, Confirm, Begin, Probed, Prompt, Skip, Write, Stop, Probe, LogIn,
     vars, pick_vars
<1>3. CASE list' = Candidates
  BY <1>1, <1>3, CandidatesAreOK, ListingNext DEF Listing
<1>4. CASE UNCHANGED list
  BY <1>1, <1>4, ListingNext DEF Listing
<1> QED
  BY <1>2, <1>3, <1>4

\* Who is listed is listed once.
LEMMA ListingOnce == Listing => ListedOnce
<1> SUFFICES ASSUME Listing PROVE ListedOnce
  OBVIOUS
<1>1. list \in Seq(SUBSET Hosts) /\ IsInjective(list) /\ Apart(list)
  BY DEF Listing, GroupsOK
<1>2. DOMAIN list = 1 .. Len(list) /\ \A i \in 1 .. Len(list) : list[i] \in ToSet(list)
  BY <1>1 DEF ToSet
<1>3. \A i, j \in 1 .. Len(list) : i # j => list[i] # list[j]
  BY <1>1, <1>2 DEF IsInjective
<1>4. \A i, j \in 1 .. Len(list) :
        i # j => \A e \in list[i], n \in list[j] : ~ Touches(e, n)
  BY <1>1, <1>2, <1>3 DEF Apart
<1>5. \A i \in 1 .. Len(list) : ~ Dropped(list[i])
  BY <1>2 DEF Listing
<1> QED
  BY <1>4, <1>5 DEF ListedOnce

\* Two that go by one name are one, and a choice has each choice once.
LEMMA ListingPicks ==
  Listing =>
    /\ \A g, h \in ToSet(list) : Lead(g) = Lead(h) => g = h
    /\ \A chosen \in SUBSET ToSet(list) :
         LET p == Chosen(list, chosen)
         IN p \in Seq(chosen) /\ ToSet(p) = chosen /\ IsInjective(p)
<1> SUFFICES ASSUME Listing
    PROVE  /\ \A g, h \in ToSet(list) : Lead(g) = Lead(h) => g = h
           /\ \A chosen \in SUBSET ToSet(list) :
                LET p == Chosen(list, chosen)
                IN p \in Seq(chosen) /\ ToSet(p) = chosen /\ IsInjective(p)
  OBVIOUS
<1>1. /\ list \in Seq(SUBSET Hosts) /\ {} \notin ToSet(list) /\ IsInjective(list) /\ Apart(list)
      /\ net \in Networks
  BY DEF Listing, GroupsOK
<1>2. ASSUME NEW g \in ToSet(list), NEW h \in ToSet(list), Lead(g) = Lead(h)
      PROVE  g = h
  <2>1. g # {} /\ h # {} /\ g \in SUBSET Hosts
    BY <1>1 DEF ToSet
  <2>2. Lead(g) \in g /\ Lead(g) \in h
    BY <1>2, <2>1, LeadIn
  <2>3. Touches(Lead(g), Lead(g))
    BY <1>1, <2>1, <2>2, OwnTouch
  <2> QED
    BY <1>1, <2>2, <2>3 DEF Apart
<1>3. ASSUME NEW chosen \in SUBSET ToSet(list), NEW p, p = Chosen(list, chosen)
      PROVE  p \in Seq(chosen) /\ ToSet(p) = chosen /\ IsInjective(p)
  <2>1. p \in Seq(SUBSET Hosts) /\ ToSet(p) = ToSet(list) \cap chosen /\ IsInjective(p)
    BY <1>1, <1>3, ChosenIs
  <2>2. ToSet(p) = chosen
    BY <2>1
  <2> QED
    BY <2>1, <2>2, OwnSeq
<1> QED
  BY <1>2, <1>3

\* The picks to come are on the list, each once, and none of them is ready.
Twins ==
  /\ phase = "confirm" => /\ \A g, h \in ToSet(list) : Lead(g) = Lead(h) => g = h
                          /\ picks \in Seq(ToSet(picks)) /\ ToSet(picks) \subseteq ToSet(list)
                          /\ IsInjective(picks) /\ ToSet(picks) \cap ToSet(ready) = {}
  /\ ToSet(ready) \subseteq ToSet(list)
  /\ IsFiniteSet(Ready) /\ TestedOnce
  /\ TwinsSkipped

LEMMA TailOf ==
  ASSUME NEW s, s \in Seq(ToSet(s)), s # <<>>, IsInjective(s)
  PROVE  /\ Head(s) \in ToSet(s) /\ Head(s) \notin ToSet(Tail(s))
         /\ ToSet(Tail(s)) \subseteq ToSet(s)
         /\ Tail(s) \in Seq(ToSet(Tail(s))) /\ IsInjective(Tail(s))
<1>1. /\ Len(s) \in Nat /\ Len(s) > 0 /\ DOMAIN s = 1 .. Len(s) /\ Head(s) = s[1]
      /\ Tail(s) \in Seq(ToSet(s)) /\ Len(Tail(s)) = Len(s) - 1
      /\ DOMAIN Tail(s) = 1 .. Len(s) - 1
      /\ \A i \in 1 .. Len(s) - 1 : Tail(s)[i] = s[i + 1]
  OBVIOUS
<1>2. \A i, j \in DOMAIN s : s[i] = s[j] => i = j
  BY DEF IsInjective
<1>3. \A i \in 1 .. Len(s) - 1 : i + 1 \in DOMAIN s /\ i + 1 # 1
  BY <1>1
<1>4. Head(s) \in ToSet(s) /\ ToSet(Tail(s)) \subseteq ToSet(s)
  BY <1>1, <1>3 DEF ToSet
<1>5. Head(s) \notin ToSet(Tail(s))
  BY <1>1, <1>2, <1>3 DEF ToSet
<1>6. IsInjective(Tail(s))
  <2>1. \A i, j \in 1 .. Len(s) - 1 : i + 1 = j + 1 => i = j
    BY <1>1
  <2> QED
    BY <1>1, <1>2, <1>3, <2>1 DEF IsInjective
<1>7. Tail(s) \in Seq(ToSet(Tail(s)))
  <2>1. Tail(s) \in Seq(ToSet(s))
    BY <1>1
  <2> QED
    BY <2>1, OwnSeq
<1> QED
  BY <1>4, <1>5, <1>6, <1>7

\* What the twins' property says after a step.
LEMMA TwinsNext ==
  ASSUME UNCHANGED net
  PROVE  TwinsSkipped' <=>
         \A h \in ToSet(ready') :
           /\ \A i \in Inventory : Probable(h, {i}) => kept'[Lead(h)] \cap net.known[i] = {}
           /\ \A k \in ToSet(ready') \ {h} :
                Probable(h, k) => kept'[Lead(h)] \cap kept'[Lead(k)] = {}
<1>1. \A h, k : Probable(h, k)' <=> Probable(h, k)
  BY DEF Probable, AddressesOf, KeysOf
<1>2. TwinsSkipped' <=>
        \A h \in ToSet(ready') :
          /\ \A i \in Inventory : Probable(h, {i})' => kept'[Lead(h)] \cap net'.known[i] = {}
          /\ \A k \in ToSet(ready') \ {h} :
               Probable(h, k)' => kept'[Lead(h)] \cap kept'[Lead(k)] = {}
  BY DEF TwinsSkipped
<1> QED
  BY <1>1, <1>2

LEMMA ConfirmTwins == ASSUME SshTypes, Twins, Confirm PROVE Twins'
<1> DEFINE g == Head(picks)
<1>1. /\ phase = "confirm" /\ phase' = "confirm" /\ picks # <<>> /\ picks' = Tail(picks)
      /\ UNCHANGED <<list, net>>
  BY DEF Confirm
<1>2. /\ \A h, k \in ToSet(list) : Lead(h) = Lead(k) => h = k
      /\ picks \in Seq(ToSet(picks)) /\ ToSet(picks) \subseteq ToSet(list)
      /\ IsInjective(picks) /\ ToSet(picks) \cap ToSet(ready) = {}
      /\ ToSet(ready) \subseteq ToSet(list)
      /\ IsFiniteSet(Ready) /\ TestedOnce /\ TwinsSkipped
  BY <1>1 DEF Twins
<1>3. /\ g \in ToSet(picks) /\ g \notin ToSet(picks') /\ ToSet(picks') \subseteq ToSet(picks)
      /\ picks' \in Seq(ToSet(picks')) /\ IsInjective(picks')
  BY <1>1, <1>2, TailOf
<1>4. CASE UNCHANGED <<kept, ready, recorded>>
  <2>1. Ready' = Ready
    BY <1>4, LeadsStay DEF Ready
  <2>2. TestedOnce'
    <3>1. Len(ready) = Cardinality(Ready)
      BY <1>2 DEF TestedOnce
    <3>2. Len(ready') = Cardinality(Ready')
      BY <1>4, <2>1, <3>1
    <3> QED
      BY <3>2 DEF TestedOnce
  <2>3. TwinsSkipped'
    BY <1>1, <1>2, <1>4, TwinsNext DEF TwinsSkipped
  <2>4. ToSet(ready') = ToSet(ready)
    BY <1>4
  <2> QED
    BY <1>1, <1>2, <1>3, <2>1, <2>2, <2>3, <2>4 DEF Twins
<1>5. ASSUME NEW keys, keys # {}, ~ Duplicate(g, keys),
             kept' = [h \in DOMAIN kept \cup {Lead(g)} |->
                        IF h = Lead(g) THEN keys ELSE kept[h]],
             ready' = Append(ready, g), Ready' = Ready \cup {Lead(g)},
             ToSet(ready') = ToSet(ready) \cup {g}
      PROVE  Twins'
  <2>1. \A h \in ToSet(ready) : h # g /\ h \in ToSet(list) /\ Lead(h) # Lead(g)
                                /\ Lead(h) \in DOMAIN kept
    BY <1>2, <1>3 DEF SshTypes, Ready
  <2>2. Lead(g) \notin Ready
    BY <2>1 DEF Ready
  <2>3. Len(ready') = Len(ready) + 1 /\ Len(ready) \in Nat
    BY <1>5, AppendOf DEF SshTypes
  <2>4. IsFiniteSet(Ready') /\ Cardinality(Ready') = Cardinality(Ready) + 1
    BY <1>2, <1>5, <2>2, FS_AddElement
  <2>5. TestedOnce'
    BY <1>2, <2>3, <2>4 DEF TestedOnce
  <2>6. /\ kept'[Lead(g)] = keys
        /\ \A h \in ToSet(ready) : kept'[Lead(h)] = kept[Lead(h)]
    BY <1>5, <2>1
  <2>7. \A i \in Inventory : Probable(g, {i}) => keys \cap net.known[i] = {}
    BY <1>5 DEF Duplicate
  <2>8. \A h \in ToSet(ready) : Probable(g, h) => keys \cap kept[Lead(h)] = {}
    BY <1>5, <2>1 DEF Duplicate, KeptKeys
  <2>9. \A h, k : Probable(h, k) => Probable(k, h)
    BY DEF Probable
  <2>10. ASSUME NEW h \in ToSet(ready'), NEW i \in Inventory, Probable(h, {i})
         PROVE  kept'[Lead(h)] \cap net.known[i] = {}
    BY <1>2, <1>5, <2>6, <2>7, <2>10 DEF TwinsSkipped
  <2>11. ASSUME NEW h \in ToSet(ready'), NEW k \in ToSet(ready') \ {h}, Probable(h, k)
         PROVE  kept'[Lead(h)] \cap kept'[Lead(k)] = {}
    <3>1. CASE h = g
      BY <1>5, <2>6, <2>8, <2>11, <3>1
    <3>2. CASE k = g
      <4>1. h \in ToSet(ready) /\ Probable(g, h)
        BY <1>5, <2>9, <2>11, <3>2
      <4>2. keys \cap kept[Lead(h)] = {}
        BY <2>8, <4>1
      <4> QED
        BY <2>6, <3>2, <4>1, <4>2
    <3>3. CASE h # g /\ k # g
      BY <1>2, <1>5, <2>6, <2>11, <3>3 DEF TwinsSkipped
    <3> QED
      BY <3>1, <3>2, <3>3
  <2>12. TwinsSkipped'
    BY <1>1, <2>10, <2>11, TwinsNext
  <2> QED
    BY <1>1, <1>2, <1>3, <1>5, <2>4, <2>5, <2>12 DEF Twins
<1> QED
  BY <1>4, <1>5, ConfirmOf

LEMMA NextTwins ==
  ASSUME SshTypes, Beginning, Listing, Twins, [Next]_vars
  PROVE  Twins'
<1>1. CASE Confirm
  BY <1>1, ConfirmTwins
<1>2. CASE UNCHANGED <<kept, ready, recorded>>
  <2>1. UNCHANGED net
    BY DEF Next, List, Pick, Confirm, Begin, Probed, Prompt, Skip, Write, Stop, Probe, LogIn, vars
  <2>2. /\ Ready' = Ready /\ TestedOnce' /\ ToSet(ready') = ToSet(ready)
    <3>1. Ready' = Ready /\ ToSet(ready') = ToSet(ready)
      BY <1>2, LeadsStay DEF Ready
    <3>2. Len(ready) = Cardinality(Ready)
      BY DEF Twins, TestedOnce
    <3>3. Len(ready') = Cardinality(Ready')
      BY <1>2, <3>1, <3>2
    <3> QED
      BY <3>1, <3>3 DEF TestedOnce
  <2>3. TwinsSkipped'
    BY <1>2, <2>1, TwinsNext DEF Twins, TwinsSkipped
  <2>4. CASE Pick
    <3>1. phase = "pick" /\ ready = <<>> /\ UNCHANGED list
      BY <2>4 DEF Pick, Beginning
    <3>2. PICK chosen \in SUBSET ToSet(list) :
            picks' = Chosen(list, chosen)
      <4>1. picked' \in SUBSET ToSet(list) /\ picks' = Chosen(list, picked')
        BY <2>4 DEF Pick
      <4> QED
        BY <4>1
    <3>3. /\ \A g, h \in ToSet(list) : Lead(g) = Lead(h) => g = h
          /\ picks' \in Seq(chosen) /\ ToSet(picks') = chosen /\ IsInjective(picks')
      BY <3>1, <3>2, ListingPicks
    <3>4. ToSet(ready) = {}
      BY <3>1 DEF ToSet
    <3> QED
      BY <2>2, <2>3, <3>1, <3>2, <3>3, <3>4 DEF Twins
  <2>5. CASE List
    <3>1. ready = <<>> /\ phase' # "confirm"
      BY <2>5 DEF List, Beginning
    <3>2. ToSet(ready) = {}
      BY <3>1 DEF ToSet
    <3> QED
      BY <2>2, <2>3, <3>1, <3>2 DEF Twins
  <2>6. CASE UNCHANGED <<list, picks>> /\ (phase' = "confirm" => phase = "confirm")
    BY <2>2, <2>3, <2>6 DEF Twins
  <2>7. \/ Pick \/ List \/ Confirm
        \/ UNCHANGED <<list, picks>> /\ (phase' = "confirm" => phase = "confirm")
    BY DEF Next, Begin, Probed, Prompt, Skip, Write, Stop, Probe, LogIn, Settle, vars, pick_vars
  <2> QED
    BY <1>1, <2>4, <2>5, <2>6, <2>7
<1> QED
  BY <1>1, <1>2, OthersKeep

\* The list is made of groups that are apart, and no twin is tested twice.
LEMMA ListedAndTwins == MCSpec => [](Listing /\ Twins)
<1>1. MCInit => Listing /\ Twins
  <2>1. ASSUME Init PROVE Listing /\ Twins
    <3>1. ready = <<>> /\ list = <<>> /\ phase = "list" /\ net \in Networks
      BY <2>1 DEF Init
    <3>2. ToSet(ready) = {} /\ Ready = {} /\ Len(ready) = 0
      BY <3>1 DEF ToSet, Ready
    <3>3. Twins
      BY <3>1, <3>2, FS_EmptySet DEF Twins, TestedOnce, TwinsSkipped
    <3>4. Listing
      BY <3>1, NoGroupsOK DEF Listing, ToSet
    <3> QED
      BY <3>3, <3>4
  <2> QED
    BY <2>1 DEF MCInit
<1>2. SshTypes /\ Beginning /\ Listing /\ Twins /\ [MCNext]_allVars => Listing' /\ Twins'
  BY SshSteps, NextListing, NextTwins
<1> QED
  BY <1>1, <1>2, SshInvariance, PTL DEF MCSpec, allVars

\* No machine is met twice, at any step: no two entries of the list have a name or a key
\* in common or go by one name, who is chosen is picked once, and no machine is tested
\* under two names that share an address and a key, or asked again for a name it refused.
THEOREM MetOnce == MCSpec => []OncePerMachine
<1>3. Listing /\ Twins => ListedOnce /\ PickedOnce /\ TwinsSkipped /\ TestedOnce
  BY ListingOnce, ListingPicks DEF Twins, PickedOnce
<1>4. ListedOnce /\ PickedOnce /\ TwinsSkipped /\ TestedOnce /\ NeverOfferedAgain
        => OncePerMachine
  BY DEF OncePerMachine
<1>5. MCSpec => [](Listing /\ Twins)
  BY ListedAndTwins
<1>6. MCSpec => []NeverOfferedAgain
  BY RefusedIsNotOffered
<1> QED
  BY <1>3, <1>4, <1>5, <1>6, PTL
-----------------------------------------------------------------------------
(* Discovery over ssh: what becomes of the picks. *)

\* Until the tests are over a pick is still to come, is to be tested, showed no key
\* or is a twin; and each step after that settles one that was tested.
Settling ==
  /\ ToSet(picks) \cup ToSet(ready) \subseteq picked /\ recorded \subseteq ToSet(ready)
  /\ \A g \in picked : g \in ToSet(picks) \cup ToSet(ready) \cup unscanned \/ Twin(g)
  /\ phase \in {"probe", "next", "ask", "done"} => ToSet(picks) = {}
  /\ phase \in {"next", "ask", "done", "stopped"} => \A n \in Ready : tried[n] \in Over
  /\ phase = "done" => /\ \A n \in Ready : tried[n] # "refused"
                       /\ written = Found \ taken /\ taken \subseteq Found
  /\ phase # "done" => written = {} /\ taken = {}

\* The next pick is to be tested now, or is a twin, or showed no key.
LEMMA ConfirmSettles ==
  ASSUME SshTypes, Twins, Confirm
  PROVE  /\ unscanned \subseteq unscanned'
         /\ LET g == Head(picks) IN g \in ToSet(ready') \cup unscanned' \/ Twin(g)
<1> DEFINE g == Head(picks)
<1>1. PICK keys \in Fetched(g) :
        IF NotFetched(keys)
        THEN unscanned' = unscanned \cup {g} /\ UNCHANGED <<kept, ready, recorded>>
        ELSE /\ UNCHANGED unscanned
             /\ recorded' = recorded \cup Recorded(g, keys)
             /\ IF Duplicate(g, keys) THEN UNCHANGED <<kept, ready>>
                ELSE /\ kept' = [h \in DOMAIN kept \cup {Lead(g)} |->
                                   IF h = Lead(g) THEN keys ELSE kept[h]]
                     /\ ready' = Append(ready, g)
  BY DEF Confirm
<1>2. CASE NotFetched(keys)
  BY <1>1, <1>2
<1>3. CASE ~ NotFetched(keys) /\ Duplicate(g, keys)
  <2>1. keys = Presented(g)
    BY <1>3 DEF Fetched, NotFetched
  <2>2. /\ \A h, k \in ToSet(list) : Lead(h) = Lead(k) => h = k
        /\ ToSet(ready) \subseteq ToSet(list)
    BY DEF Twins, Confirm
  <2>3. ASSUME NEW h \in ToSet(list), Lead(h) \in DOMAIN kept
        PROVE  h \in ToSet(ready) /\ KeptKeys(h) = kept[Lead(h)]
    <3>1. PICK r \in ToSet(ready) : Lead(r) = Lead(h)
      BY <2>3 DEF SshTypes, Ready
    <3>2. r = h
      BY <2>2, <3>1
    <3> QED
      BY <2>3, <3>1, <3>2 DEF KeptKeys
  <2>4. Twin(g)
    BY <1>3, <2>1, <2>3 DEF Duplicate, Twin
  <2> QED
    BY <1>1, <1>3, <2>4
<1>4. CASE ~ NotFetched(keys) /\ ~ Duplicate(g, keys)
  <2>1. ready' = Append(ready, g) /\ UNCHANGED unscanned
    BY <1>1, <1>4
  <2>2. g \in ToSet(ready')
    BY <2>1, AppendOf DEF SshTypes
  <2> QED
    BY <2>1, <2>2
<1> QED
  BY <1>2, <1>3, <1>4

\* Who is a twin remains one: who is tested keeps its keys.
LEMMA TwinStays ==
  ASSUME SshTypes, Twins, [Next]_vars, NEW g, Twin(g)
  PROVE  Twin(g)'
<1>1. UNCHANGED net
  BY DEF Next, List, Pick, Confirm, Begin, Probed, Prompt, Skip, Write, Stop, Probe, LogIn, vars
<1>2. Presented(g)' = Presented(g) /\ \A h : Probable(g, h)' <=> Probable(g, h)
  BY <1>1 DEF Presented, Probable, AddressesOf, KeysOf
<1>3. Twin(g)' <=>
        \/ \E i \in Inventory : Probable(g, {i}) /\ Presented(g) \cap net.known[i] # {}
        \/ \E h \in ToSet(ready') : Probable(g, h) /\ Presented(g) \cap kept'[Lead(h)] # {}
  <2>1. Twin(g)' <=>
          \/ \E i \in Inventory : Probable(g, {i})' /\ Presented(g)' \cap net'.known[i] # {}
          \/ \E h \in ToSet(ready') :
               Probable(g, h)' /\ Presented(g)' \cap kept'[Lead(h)] # {}
    BY DEF Twin
  <2> QED
    BY <1>1, <1>2, <2>1
<1>4. ToSet(ready) \subseteq ToSet(ready') /\ \A h \in ToSet(ready) : kept'[Lead(h)] = kept[Lead(h)]
  <2>1. CASE UNCHANGED <<kept, ready, recorded>>
    BY <2>1
  <2>2. CASE Confirm
    <3> DEFINE e == Head(picks)
    <3>1. \/ UNCHANGED <<kept, ready, recorded>>
          \/ \E keys : /\ kept' = [h \in DOMAIN kept \cup {Lead(e)} |->
                                     IF h = Lead(e) THEN keys ELSE kept[h]]
                       /\ ToSet(ready') = ToSet(ready) \cup {e}
      BY <2>2, ConfirmOf
    <3>2. /\ phase = "confirm" /\ picks # <<>>
          /\ \A h, k \in ToSet(list) : Lead(h) = Lead(k) => h = k
          /\ picks \in Seq(ToSet(picks)) /\ ToSet(picks) \subseteq ToSet(list)
          /\ IsInjective(picks) /\ ToSet(picks) \cap ToSet(ready) = {}
          /\ ToSet(ready) \subseteq ToSet(list)
      BY <2>2 DEF Twins, Confirm
    <3>3. e \in ToSet(picks)
      BY <3>2, TailOf
    <3>4. \A h \in ToSet(ready) : Lead(h) # Lead(e) /\ Lead(h) \in DOMAIN kept
      BY <3>2, <3>3 DEF SshTypes, Ready
    <3> QED
      BY <3>1, <3>4
  <2> QED
    BY <2>1, <2>2, OthersKeep
<1> QED
  BY <1>3, <1>4 DEF Twin

LEMMA ConfirmSettling == ASSUME SshTypes, Twins, Settling, Confirm PROVE Settling'
<1> DEFINE e == Head(picks)
<1>1. /\ phase = "confirm" /\ phase' = "confirm" /\ picks # <<>> /\ picks' = Tail(picks)
      /\ UNCHANGED <<picked, tried, taken, written>>
  BY DEF Confirm, login_vars, file_vars
<1>2. picks \in Seq(ToSet(picks)) /\ IsInjective(picks)
  BY <1>1 DEF Twins
<1>3. /\ e \in ToSet(picks) /\ ToSet(picks') \subseteq ToSet(picks)
      /\ ToSet(picks) \subseteq {e} \cup ToSet(picks')
  <2>1. /\ Len(picks) \in Nat /\ DOMAIN picks = 1 .. Len(picks) /\ e = picks[1]
        /\ DOMAIN Tail(picks) = 1 .. Len(picks) - 1
        /\ \A i \in 1 .. Len(picks) - 1 : Tail(picks)[i] = picks[i + 1]
    BY <1>1, <1>2
  <2>2. \A i \in 1 .. Len(picks) : i = 1 \/ (i - 1 \in 1 .. Len(picks) - 1 /\ (i - 1) + 1 = i)
    BY <2>1
  <2>3. \A i \in 1 .. Len(picks) : picks[i] = e \/ picks[i] \in ToSet(picks')
    BY <1>1, <2>1, <2>2 DEF ToSet
  <2>4. e \in ToSet(picks) /\ ToSet(picks') \subseteq ToSet(picks)
    BY <1>1, <1>2, TailOf
  <2> QED
    BY <2>1, <2>3, <2>4 DEF ToSet
<1>4. /\ ToSet(ready) \subseteq ToSet(ready') /\ ToSet(ready') \subseteq ToSet(ready) \cup {e}
      /\ recorded' \subseteq ToSet(ready')
  BY ConfirmOf DEF Settling
<1>5. \A g : Twin(g) => Twin(g)'
  BY TwinStays DEF Next
<1>6. unscanned \subseteq unscanned' /\ (e \in ToSet(ready') \cup unscanned' \/ Twin(e))
  BY ConfirmSettles
<1>7. /\ ToSet(picks) \cup ToSet(ready) \subseteq picked /\ written = {} /\ taken = {}
      /\ \A g \in picked : g \in ToSet(picks) \cup ToSet(ready) \cup unscanned \/ Twin(g)
  BY <1>1 DEF Settling
<1>8. \A g \in picked' : g \in ToSet(picks') \cup ToSet(ready') \cup unscanned' \/ Twin(g)'
  BY <1>1, <1>3, <1>4, <1>5, <1>6, <1>7
<1>9. ToSet(picks') \cup ToSet(ready') \subseteq picked'
  BY <1>1, <1>3, <1>4, <1>7
<1> QED
  BY <1>1, <1>4, <1>7, <1>8, <1>9 DEF Settling

LEMMA NextSettling ==
  ASSUME SshTypes, Beginning, Listing, Twins, Settling, [Next]_vars
  PROVE  Settling'
<1> DEFINE Ended == {"works", "refused", "unreachable", "works become", "fails"}
<1>0. Over = Ended /\ "fails" \in Over /\ Working \subseteq Over
  BY DEF Over, AsIs, WithBecome, Working
<1>1. CASE Confirm
  BY <1>1, ConfirmSettling
<1>2. CASE List
  <2>1. /\ ready = <<>> /\ picked = {} /\ recorded = {} /\ picks = <<>>
        /\ UNCHANGED <<ready, picked, recorded, picks, taken, written>>
        /\ phase = "list" /\ phase' \in {"done", "pick"}
    BY <1>2 DEF List, Beginning, file_vars
  <2>2. ToSet(ready') = {} /\ Ready' = {} /\ ToSet(picks') = {} /\ Found' = {}
    BY <2>1 DEF ToSet, Ready, Found
  <2> QED
    BY <2>1, <2>2 DEF Settling
<1>3. CASE Pick
  <2>1. /\ ready = <<>> /\ recorded = {} /\ UNCHANGED <<ready, recorded, taken, written>>
        /\ picked' \in SUBSET ToSet(list) /\ picks' = Chosen(list, picked')
        /\ phase = "pick" /\ phase' = IF picked' = {} THEN "done" ELSE "confirm"
    BY <1>3 DEF Pick, Beginning, file_vars
  <2>2. ToSet(ready') = {} /\ Ready' = {} /\ Found' = {}
    BY <2>1 DEF ToSet, Ready, Found
  <2>3. ToSet(picks') = picked'
    BY <2>1, ListingPicks
  <2> QED
    BY <2>1, <2>2, <2>3 DEF Settling
<1>4. ASSUME UNCHANGED <<picked, picks, unscanned, kept, recorded, ready>>
      PROVE  /\ ToSet(picks') \cup ToSet(ready') \subseteq picked'
             /\ recorded' \subseteq ToSet(ready') /\ Ready' = Ready
             /\ \A g \in picked' :
                  g \in ToSet(picks') \cup ToSet(ready') \cup unscanned' \/ Twin(g)'
  <2>1. Ready' = Ready
    BY <1>4, LeadsStay DEF Ready
  <2>2. \A g : Twin(g) => Twin(g)'
    BY TwinStays
  <2> QED
    BY <1>4, <2>1, <2>2 DEF Settling
<1>5. CASE Begin \/ \E n \in Hosts : Probe(n)
  <2>1. /\ UNCHANGED <<picked, picks, unscanned, kept, recorded, ready, taken, written>>
        /\ phase # "done" /\ phase' = "probe" /\ (phase = "probe" \/ picks = <<>>)
    BY <1>5 DEF Begin, Probe, pick_vars, file_vars
  <2>2. ToSet(picks') = {}
    BY <2>1 DEF Settling, ToSet
  <2> QED
    BY <1>4, <2>1, <2>2 DEF Settling
<1>6. CASE Probed \/ Prompt
  <2>1. /\ UNCHANGED <<picked, picks, unscanned, kept, recorded, ready, taken, written, tried>>
        /\ phase \in {"probe", "next"} /\ phase' \in {"next", "ask"}
        /\ phase = "probe" => \A n \in Ready : tried[n] \in Over
    BY <1>6 DEF Probed, Prompt, pick_vars, file_vars, login_vars
  <2> QED
    BY <1>4, <2>1 DEF Settling
<1>7. CASE Skip \/ \E answer \in Users \cup {None} : LogIn(answer)
  <2>1. /\ UNCHANGED <<picked, picks, unscanned, kept, recorded, ready, taken, written>>
        /\ phase = "ask" /\ phase' \in {"next", "ask"}
        /\ \/ UNCHANGED tried
           \/ \E s \in Over : tried' = [tried EXCEPT ![Asked] = s]
    BY <1>0, <1>7 DEF Skip, LogIn, Settle, pick_vars, file_vars
  <2>2. \A n \in Ready : tried[n] \in Over
    BY <2>1 DEF Settling
  <2>3. \A n \in Ready : tried'[n] \in Over
    <3>2. DOMAIN tried = Hosts /\ Over \subseteq {"no"} \cup AsIs \cup WithBecome
      BY DEF SshTypes, Over
    <3>3. CASE UNCHANGED tried
      BY <2>2, <3>3
    <3>4. Ready \subseteq Hosts
      <4>1. \A g \in ToSet(list) : g \in SUBSET Hosts /\ g # {}
        BY DEF Listing, GroupsOK, ToSet
      <4>2. \A g \in ToSet(ready) : Lead(g) \in g /\ g \in SUBSET Hosts
        BY <4>1, LeadIn DEF Twins
      <4> QED
        BY <4>2 DEF Ready
    <3>5. ASSUME NEW s \in Over, tried' = [tried EXCEPT ![Asked] = s]
          PROVE  \A n \in Ready : tried'[n] \in Over
      BY <2>2, <3>2, <3>4, <3>5
    <3> QED
      BY <2>1, <3>3, <3>5
  <2> QED
    BY <1>4, <2>1, <2>3 DEF Settling
<1>8. CASE Write
  <2>1. /\ UNCHANGED <<picked, picks, unscanned, kept, recorded, ready, tried>>
        /\ phase = "next" /\ phase' = "done" /\ Refused = <<>>
        /\ taken' \in SUBSET Found /\ written' = Found \ taken'
    BY <1>8 DEF Write, pick_vars, login_vars
  <2>2. Found' = Found
    BY <1>4, <2>1 DEF Found
  <2>3. \A n \in Ready : tried[n] # "refused"
    <3> DEFINE S == {g \in ToSet(ready) : tried[Lead(g)] = "refused"}
    <3>1. ToSet(Refused) = ToSet(ready) \cap S
      <4> HIDE DEF S
      <4>1. ToSet(Chosen(ready, S)) = ToSet(ready) \cap S
        BY ChosenIs DEF SshTypes
      <4> QED
        BY <4>1 DEF Refused, S
    <3>2. ToSet(Refused) = {}
      BY <2>1 DEF ToSet
    <3> QED
      BY <3>1, <3>2 DEF Ready
  <2> QED
    BY <1>4, <2>1, <2>2, <2>3 DEF Settling
<1>9. CASE Stop
  <2>1. /\ UNCHANGED <<picked, picks, unscanned, kept, recorded, ready, tried, taken, written>>
        /\ phase \notin {"done", "stopped", "cut"}
        /\ phase' = IF phase \in {"confirm", "probe"} THEN "cut" ELSE "stopped"
    BY <1>9 DEF Stop, pick_vars, login_vars, file_vars
  <2>2. phase \in {"list", "pick"} => Ready = {}
    BY DEF Beginning, Ready, ToSet
  <2>3. phase' = "stopped" => \A n \in Ready : tried[n] \in Over
    BY <2>1, <2>2 DEF Settling, SshTypes
  <2> QED
    BY <1>4, <2>1, <2>3 DEF Settling
<1>10. CASE UNCHANGED vars
  <2>1. UNCHANGED <<picked, picks, unscanned, kept, recorded, ready, tried, taken, written, phase>>
    BY <1>10 DEF vars, pick_vars, login_vars, file_vars
  <2>2. Found' = Found
    BY <1>4, <2>1 DEF Found
  <2> QED
    BY <1>4, <2>1, <2>2 DEF Settling
<1> QED
  BY <1>1, <1>2, <1>3, <1>5, <1>6, <1>7, <1>8, <1>9, <1>10 DEF Next

\* Once the tests are over, every host that known_hosts was given a key of has been
\* tested; and at the end every pick is settled: in the inventory if it worked and
\* the file had no such name, and otherwise tried in vain, without a key to show, or
\* the same machine as one that was tested or was there.
THEOREM TestedIsWritten == MCSpec => []WritesTheTested
<1>1. ASSUME SshTypes, Beginning, Settling
      PROVE  KeyOnlyForTested
  <2>1. ASSUME phase \notin {"confirm", "probe", "cut"}, NEW g \in recorded
        PROVE  tried[Lead(g)] # "no"
    <3>1. Lead(g) \in Ready
      BY <1>1 DEF Settling, Ready
    <3>2. phase \in {"next", "ask", "done", "stopped"}
      BY <1>1, <2>1 DEF SshTypes, Beginning
    <3>3. tried[Lead(g)] \in Over
      BY <1>1, <3>1, <3>2 DEF Settling
    <3> QED
      BY <3>3 DEF Over, AsIs, WithBecome
  <2> QED
    BY <2>1 DEF KeyOnlyForTested
<1>2. ASSUME Settling
      PROVE  PicksSettled
  <2>1. ASSUME phase = "done"
        PROVE  /\ \A n \in Ready : tried[n] \in Over /\ tried[n] # "refused"
               /\ written \cup taken = Found /\ written \subseteq Ready
               /\ \A g \in picked : g \in ToSet(ready) \cup unscanned \/ Twin(g)
               /\ ToSet(ready) \subseteq picked
    BY <1>2, <2>1 DEF Settling, Found
  <2>2. ASSUME phase = "done", NEW g \in ToSet(ready)
        PROVE  IF Lead(g) \in written \cup taken THEN tried[Lead(g)] \in Working
               ELSE tried[Lead(g)] \in {"unreachable", "fails"}
    <3>1. Lead(g) \in Ready
      BY <2>2 DEF Ready
    <3>2. /\ Lead(g) \in written \cup taken <=> tried[Lead(g)] \in Working
          /\ tried[Lead(g)] \in Over /\ tried[Lead(g)] # "refused"
      BY <2>1, <2>2, <3>1 DEF Found
    <3> QED
      BY <3>2 DEF Over, AsIs, WithBecome, Working
  <2>3. phase = "done" => written \subseteq {Lead(g) : g \in picked \cap ToSet(ready)}
    BY <2>1 DEF Ready
  <2> QED
    BY <2>1, <2>2, <2>3 DEF PicksSettled
<1>3. MCInit => Settling
  BY DEF MCInit, Init, Settling, Ready, ToSet
<1>4. /\ SshTypes /\ Beginning /\ Listing /\ Twins /\ Settling /\ [MCNext]_allVars
      => Settling'
  BY SshSteps, NextSettling
<1>5. MCSpec => []Settling
  BY <1>3, <1>4, SshInvariance, ListedAndTwins, PTL DEF MCSpec, allVars
<1>6. SshTypes /\ Beginning /\ Settling => WritesTheTested
  BY <1>1, <1>2 DEF WritesTheTested
<1> QED
  BY <1>5, <1>6, SshInvariance, PTL

=============================================================================
