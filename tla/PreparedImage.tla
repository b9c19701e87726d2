--------------------------- MODULE PreparedImage ---------------------------
(***************************************************************************)
(* What the container transport does to a host's image before it runs qna  *)
(* in it: the pull of the image for one platform under an alias of its own,*)
(* shared by every transport of a run (DockerEngine.ensure_image,          *)
(* ImageCoordinator.once), and the prepared image, the base with qna copied*)
(* in and the libraries it lacks installed, committed under a tag that     *)
(* names the base's content (TransportContainer._prepare_qna_image).       *)
(*                                                                         *)
(* Runs of several processes share the daemon.  Each call to it is a step  *)
(* of its own; the commands that mend one build container are one step,    *)
(* for nobody else uses it.                                                *)
(***************************************************************************)
EXTENDS Naturals, Sequences, Functions

CONSTANTS Transports, Clients, Platforms, Versions,
          Client, Platform, Version,  \* of each transport
          Native,      \* the daemon's own platform
          Images,      \* what the base image may be like
          Rebuilding,  \* clients run with --rebuild-image
          AutoSetup,   \* clients that may install what is missing
          Fixes,       \* _MAX_LIBRARY_FIXES
          None,        \* no image
          MaxGen,      \* bound: contents the image's name has stood for
          MaxTrouble   \* bound: failures, and what others do to the images

Interpreter == "interpreter"
Unnamed == "newer C library"

\* An image: the distribution's package family, the manager it carries, what
\* qna lacks in it, each once, in the order the loader reports it (what it reports
\* in other words than the two the code looks for last), whether qna is of
\* a foreign architecture, the libraries a package is known for, and a shell.
Kinds == [family: {"deb", "rpm", "other"},
          manager: {"apt-get", "dnf", "none"},
          needs: Seq(STRING), foreign: BOOLEAN, known: SUBSET STRING,
          shell: BOOLEAN]

ASSUME ImageAssumption ==
  /\ Client \in [Transports -> Clients] /\ Platform \in [Transports -> Platforms]
  /\ Version \in [Transports -> Versions]
  /\ Native \in Platforms /\ Images \subseteq Kinds
  /\ \A image \in Images : IsInjective(image.needs)
  /\ Rebuilding \subseteq Clients /\ AutoSetup \subseteq Clients
  /\ {Fixes, MaxTrouble} \subseteq Nat /\ MaxGen \in Nat \ {0}

VARIABLES
  kind,      \* what the base image is like
  indexed,   \* whether the daemon tags whole multi-platform indexes
  newest,    \* the content its name has in the registry; 0: never published
  plain,     \* what the daemon has under the image's own name
  alias,     \* and under the alias of each platform
  blobs,     \* the contents an index's platforms are really here for
  prepared,  \* the prepared images, by tag
  overtaken, \* history: the aliases made by a pull whose image's name stood for
             \* another content when the SDK looked it up again
  pull,      \* the task that pulls for one platform of one run
  job,       \* the task that prepares one image of one run
  at,        \* where each transport is
  trouble    \* what has gone wrong so far, and what others have done

daemon_vars == <<newest, plain, alias, blobs, prepared, overtaken>>
fixed == <<kind, indexed>>
vars == <<fixed, daemon_vars, pull, job, at, trouble>>

Contents == [gen: 1..MaxGen, shows: Platforms]
PullKeys == Clients \X Platforms
Keys == [client: Clients, platform: Platforms, version: Versions]
Tags == [digest: Contents, version: Versions, arch: Platforms]
Prepared == [base: Contents, platform: Platforms, version: Versions,
             needs: Seq(STRING), old: BOOLEAN, moved: BOOLEAN, blind: BOOLEAN]

ASSUME NoneAssumption == None \notin Contents /\ None \notin Prepared

-----------------------------------------------------------------------------
(* The daemon's images. *)

\* An index inspects as the daemon's own platform.
Shows(p) == IF indexed THEN Native ELSE p

\* Pulled for p.
Content(g, p) == [gen |-> g, shows |-> Shows(p)]

\* Whether a container for p can be created from it.
Holds(image, p) ==
  IF indexed THEN <<image.gen, p>> \in blobs ELSE image.shows = p

Fetch(p) ==
  /\ newest > 0
  /\ plain' = Content(newest, p)
  /\ blobs' = blobs \cup {<<newest, p>>}

\* Mutant: the alias is made from what the name stands for by now.
NameAgain(got) == plain

\* The alias is made from the pulled image itself.
Tagged(got) == got

\* prepared_image_tag.
TagOf(image, v, p) == [digest |-> image, version |-> v, arch |-> p]

\* Mutant: the key leaves the version out.
AnyVersion(t) ==
  [client |-> Client[t], platform |-> Platform[t],
   version |-> CHOOSE v \in Versions : TRUE]

\* The key of a transport's prepared image.
KeyOf(t) ==
  [client |-> Client[t], platform |-> Platform[t], version |-> Version[t]]

\* Three fields are history: whether the content looked up is another than the
\* one pulled, whether the alias got another content after the digest was read, and
\* whether the last look at qna failed without naming what it lacks.
Unbuilt == [pc |-> "none", got |-> None, digest |-> None, base |-> None,
            needs |-> <<>>, attempted |-> {}, foreign |-> FALSE,
            refreshed |-> FALSE, lists |-> FALSE, tries |-> 0,
            crossed |-> FALSE, moved |-> FALSE, blind |-> FALSE]

\* The daemon is new to the image, has it under its own name, or served a run
\* of an earlier day.
Init ==
  /\ kind \in Images /\ indexed \in BOOLEAN
  /\ newest \in {0, 1}
  /\ \E before \in {"new", "native", "served"} :
       /\ newest = 0 => before = "native"
       /\ plain = IF before = "new" THEN None ELSE Content(1, Native)
       /\ blobs = CASE before = "new" -> {}
                    [] before = "native" -> {<<1, Native>>}
                    [] OTHER -> {1} \X Platforms
       /\ alias = [p \in Platforms |->
                     IF before = "served" THEN Content(1, p) ELSE None]
       /\ prepared = [tag \in Tags |->
            IF before = "served" /\ tag.digest = Content(1, tag.arch)
                 /\ kind.needs = <<>>
            THEN [base |-> tag.digest, platform |-> tag.arch,
                  version |-> tag.version, needs |-> <<>>, old |-> TRUE,
                  moved |-> FALSE, blind |-> FALSE]
            ELSE None]
  /\ overtaken = {}
  /\ pull = [k \in PullKeys |-> [pc |-> "none", got |-> None, crossed |-> FALSE]]
  /\ job = [k \in Keys |-> Unbuilt]
  /\ at = [t \in Transports |-> "new"]
  /\ trouble = [failure |-> 0, others |-> 0]

-----------------------------------------------------------------------------
(* ensure_image: the alias of one platform. *)

PullGoes(k, pc, got) ==
  pull' = [pull EXCEPT ![k] = [pc |-> pc, got |-> got, crossed |-> FALSE]]

\* An alias that inspects as the daemon's own platform may be an index.
LookForAlias(k) ==
  LET found == alias[k[2]]
  IN  /\ pull[k].pc = "alias"
      /\ PullGoes(k, IF found # None /\ found.shows \in {k[2], Native}
                     THEN "done" ELSE "plain", None)
      /\ UNCHANGED <<fixed, daemon_vars, job, at, trouble>>

\* An image already here, a locally built one above all, is not pulled.
LookForPlain(k) ==
  /\ pull[k].pc = "plain"
  /\ IF plain # None /\ plain.shows = k[2]
     THEN PullGoes(k, "tag", plain) ELSE PullGoes(k, "pull", None)
  /\ UNCHANGED <<fixed, daemon_vars, job, at, trouble>>

\* images.pull of the SDK fetches, and then looks the image up by its name.
Pull(k) ==
  /\ pull[k].pc = "pull"
  /\ \/ Fetch(k[2]) /\ PullGoes(k, "look", Content(newest, k[2]))
     \/ newest = 0 /\ PullGoes(k, "failed", None) /\ UNCHANGED <<plain, blobs>>
  /\ UNCHANGED <<fixed, newest, alias, prepared, overtaken, job, at, trouble>>

LookUp(k) ==
  /\ pull[k].pc = "look"
  /\ pull' = [pull EXCEPT ![k] = [pc |-> "tag", got |-> plain, crossed |-> plain # @.got]]
  /\ UNCHANGED <<fixed, daemon_vars, job, at, trouble>>

\* The alias of a platform is given a content: a build that has read the digest
\* and not started yet starts from this one.
Realias(p, content, crossed) ==
  /\ alias' = [alias EXCEPT ![p] = content]
  /\ overtaken' = IF crossed THEN overtaken \cup {p} ELSE overtaken \ {p}

Between == {"exists", "start", "repull", "relook", "retag", "again"}
Moved(k, p) == job[k].moved \/ (k.platform = p /\ job[k].pc \in Between)

Tag(k) ==
  /\ pull[k].pc = "tag"
  /\ Realias(k[2], Tagged(pull[k].got), pull[k].crossed)
  /\ PullGoes(k, "done", None)
  /\ job' = [j \in Keys |-> [job[j] EXCEPT !.moved = Moved(j, k[2])]]
  /\ UNCHANGED <<fixed, newest, plain, blobs, prepared, at, trouble>>

-----------------------------------------------------------------------------
(* _prepare_qna_image: what one key's task does. *)

Outcomes == {"prepared", "mount", "failed"}

\* A task that is over keeps the digest it looked up, for its tag.
Goes(k, pc) ==
  job' = [job EXCEPT ![k] =
            IF pc \in Outcomes THEN [Unbuilt EXCEPT !.pc = pc, !.digest = job[k].digest]
            ELSE [@ EXCEPT !.pc = pc]]

ReadDigest(k) ==
  /\ job[k].pc = "digest"
  /\ job' = [job EXCEPT ![k].pc = "exists", ![k].digest = alias[k.platform]]
  /\ UNCHANGED <<fixed, daemon_vars, pull, at, trouble>>

TagOfJob(k) == TagOf(job[k].digest, k.version, k.platform)

\* Whether the cached image is used.
Cached(k) == k.client \notin Rebuilding /\ prepared[TagOfJob(k)] # None

LookForPrepared(k) ==
  /\ job[k].pc = "exists"
  /\ Goes(k, IF Cached(k) THEN "prepared" ELSE "start")
  /\ UNCHANGED <<fixed, daemon_vars, pull, at, trouble>>

\* start: the build container, from what the alias stands for now.
StartBuild(k) ==
  /\ job[k].pc \in {"start", "again"}
  /\ \/ /\ Holds(alias[k.platform], k.platform)
        /\ job' = [job EXCEPT ![k].pc = "copy", ![k].base = alias[k.platform],
                              ![k].needs = kind.needs]
     \/ /\ ~Holds(alias[k.platform], k.platform)
        /\ Goes(k, IF job[k].pc = "start" THEN "repull" ELSE "failed")
  /\ UNCHANGED <<fixed, daemon_vars, pull, at, trouble>>

\* _repull_alias: the daemon has the alias but nothing to run for its platform.
Repull(k) ==
  /\ job[k].pc = "repull"
  /\ \/ /\ Fetch(k.platform)
        /\ job' = [job EXCEPT ![k].pc = "relook",
                              ![k].got = Content(newest, k.platform)]
     \/ newest = 0 /\ Goes(k, "failed") /\ UNCHANGED <<plain, blobs>>
  /\ UNCHANGED <<fixed, newest, alias, prepared, overtaken, pull, at, trouble>>

LookUpAgain(k) ==
  /\ job[k].pc = "relook"
  /\ job' = [job EXCEPT ![k].pc = "retag", ![k].got = plain,
                        ![k].crossed = plain # job[k].got]
  /\ UNCHANGED <<fixed, daemon_vars, pull, at, trouble>>

Retag(k) ==
  /\ job[k].pc = "retag"
  /\ Realias(k.platform, Tagged(job[k].got), job[k].crossed)
  /\ job' = [j \in Keys |->
               IF j = k THEN [job[k] EXCEPT !.pc = "again", !.got = None, !.crossed = FALSE,
                                            !.moved = TRUE]
               ELSE [job[j] EXCEPT !.moved = Moved(j, k.platform)]]
  /\ UNCHANGED <<fixed, newest, plain, blobs, prepared, pull, at, trouble>>

\* cp needs a shell; without one the extracted tree is mounted.
Copy(k) ==
  /\ job[k].pc = "copy"
  /\ Goes(k, IF kind.shell THEN "probe" ELSE "mount")
  /\ UNCHANGED <<fixed, daemon_vars, pull, at, trouble>>

-----------------------------------------------------------------------------
(* _make_qna_runnable: one library, or one architecture, at a time. *)

Missing(k) == Head(job[k].needs)

\* Mutant: one attempt more.
SpentLater(k) == job[k].tries > Fixes

\* Whether every attempt has been made, each a look and what it led to.
Spent(k) == job[k].tries = Fixes

\* Mutant: it is looked at again.
LooksAgain(k) == "probe"

\* What cannot be mended, or not in time, is not committed: qna is mounted.
GivenUp(k) == "mount"

\* A look at qna that names something it lacks.
Names(k) == job[k].needs # <<>> /\ Missing(k) # Unnamed

Looked(k, pc, blind) ==
  job' = [job EXCEPT ![k].tries = @ + 1, ![k].pc = pc, ![k].blind = blind]

\* One that names nothing is taken for a qna that links.
Probe(k) ==
  /\ job[k].pc = "probe"
  /\ IF Spent(k) THEN Goes(k, GivenUp(k))
     ELSE IF Names(k) THEN Looked(k, "fix", FALSE)
     ELSE Looked(k, "commit", job[k].needs # <<>>)
  /\ UNCHANGED <<fixed, daemon_vars, pull, at, trouble>>

\* A package with a known name; rpm managers resolve the library itself.
Package(k) ==
  /\ kind.manager # "none"
  /\ kind.manager = "dnf" \/ Missing(k) \in kind.known

\* Not a thing the build has tried before.
MayFix(k) ==
  /\ k.client \in AutoSetup /\ Missing(k) \notin job[k].attempted
  /\ IF Missing(k) = Interpreter THEN kind.family = "deb" ELSE Package(k)

\* The package lists are there when a library is installed: apt-get update runs
\* before the first one, and an install deletes what it used.
HasLists(k) == ~job[k].refreshed \/ job[k].lists

\* Mutant: a library for a foreign qna is installed for the native one.
AlwaysNative(k) == ~kind.foreign

\* The package is for qna's architecture.
Fits(k) == kind.foreign => job[k].foreign

\* One library, for qna's architecture once another has been enabled.
Install(k) ==
  /\ job[k].pc = "fix" /\ MayFix(k) /\ Missing(k) # Interpreter
  /\ IF kind.manager = "apt-get" => HasLists(k)
     THEN job' = [job EXCEPT ![k].pc = "probe",
                             ![k].attempted = @ \cup {Missing(k)},
                             ![k].refreshed = TRUE, ![k].lists = FALSE,
                             ![k].needs = IF Fits(k) THEN Tail(@) ELSE @]
     ELSE Goes(k, GivenUp(k))
  /\ UNCHANGED <<fixed, daemon_vars, pull, at, trouble>>

\* _enable_foreign_arch fetches the lists of the architecture it registers.
EnableArch(k) ==
  /\ job[k].pc = "fix" /\ MayFix(k) /\ Missing(k) = Interpreter
  /\ IF kind.manager = "apt-get"
     THEN job' = [job EXCEPT ![k].pc = "probe",
                             ![k].attempted = @ \cup {Interpreter},
                             ![k].foreign = TRUE, ![k].lists = FALSE,
                             ![k].needs = Tail(@)]
     ELSE Goes(k, GivenUp(k))
  /\ UNCHANGED <<fixed, daemon_vars, pull, at, trouble>>

CannotFix(k) ==
  /\ job[k].pc = "fix" /\ ~MayFix(k)
  /\ Goes(k, GivenUp(k))
  /\ UNCHANGED <<fixed, daemon_vars, pull, at, trouble>>

Commit(k) ==
  /\ job[k].pc = "commit"
  /\ prepared' = [prepared EXCEPT ![TagOfJob(k)] =
                    [base |-> job[k].base, platform |-> k.platform,
                     version |-> k.version, needs |-> job[k].needs,
                     old |-> FALSE, moved |-> job[k].moved, blind |-> job[k].blind]]
  /\ Goes(k, "prepared")
  /\ UNCHANGED <<fixed, newest, plain, alias, blobs, overtaken, pull, at, trouble>>

Prepare(k) ==
  \/ ReadDigest(k) \/ LookForPrepared(k) \/ StartBuild(k) \/ Repull(k) \/ LookUpAgain(k)
  \/ Retag(k) \/ Copy(k) \/ Probe(k) \/ Install(k) \/ EnableArch(k) \/ CannotFix(k) \/ Commit(k)

-----------------------------------------------------------------------------
(* once: the first transport with a key starts its task, all get its outcome.*)

\* Whether the key has no task yet.
Unasked(pc) == pc = "none"

AskPull(t) ==
  LET k == <<Client[t], Platform[t]>>
  IN  /\ at[t] = "new"
      /\ at' = [at EXCEPT ![t] = "pulling"]
      /\ IF Unasked(pull[k].pc) THEN PullGoes(k, "alias", None)
         ELSE UNCHANGED pull
      /\ UNCHANGED <<fixed, daemon_vars, job, trouble>>

AskPrepared(t) ==
  LET k == KeyOf(t)
      p == <<Client[t], Platform[t]>>
  IN  /\ at[t] = "pulling" /\ pull[p].pc = "done"
      /\ at' = [at EXCEPT ![t] = "preparing"]
      /\ job' = IF Unasked(job[k].pc)
                THEN [job EXCEPT ![k] = [Unbuilt EXCEPT !.pc = "digest"]] ELSE job
      /\ UNCHANGED <<fixed, daemon_vars, pull, trouble>>

NoImage(t) ==
  /\ at[t] = "pulling" /\ pull[<<Client[t], Platform[t]>>].pc = "failed"
  /\ at' = [at EXCEPT ![t] = "no image"]
  /\ UNCHANGED <<fixed, daemon_vars, pull, job, trouble>>

Handed(t) ==
  /\ at[t] = "preparing" /\ job[KeyOf(t)].pc \in Outcomes
  /\ at' = [at EXCEPT ![t] = job[KeyOf(t)].pc]
  /\ UNCHANGED <<fixed, daemon_vars, pull, job, trouble>>

-----------------------------------------------------------------------------
(* Failures and other users of the daemon. *)

Happens(what) ==
  /\ trouble.failure + trouble.others < MaxTrouble
  /\ trouble' = [trouble EXCEPT ![what] = @ + 1]

\* The daemon, the registry or the network does not answer in the end, or a
\* command runs out of time.
CallFails ==
  /\ Happens("failure")
  /\ \/ /\ UNCHANGED job
        /\ \E k \in PullKeys : /\ pull[k].pc \in {"alias", "plain", "pull", "look", "tag"}
                               /\ PullGoes(k, "failed", None)
     \/ /\ UNCHANGED pull
        /\ \E k \in Keys : /\ job[k].pc \notin Outcomes \cup {"none"}
                           /\ Goes(k, "failed")
  /\ UNCHANGED <<fixed, daemon_vars, at>>

\* A copy or an install exits with an error.
CommandFails ==
  /\ Happens("failure")
  /\ \E k \in Keys : job[k].pc \in {"copy", "fix"} /\ Goes(k, "mount")
  /\ UNCHANGED <<fixed, daemon_vars, pull, at>>

\* The look at qna is cut short: it fails and names nothing.
ProbeFails ==
  /\ Happens("failure")
  /\ \E k \in Keys : job[k].pc = "probe" /\ ~Spent(k) /\ Looked(k, "commit", TRUE)
  /\ UNCHANGED <<fixed, daemon_vars, pull, at>>

\* The image's name gets a new content in the registry.
Publish ==
  /\ newest \in 1..(MaxGen - 1) /\ newest' = newest + 1
  /\ UNCHANGED <<fixed, plain, alias, blobs, prepared, overtaken, pull, job, at, trouble>>

\* Somebody pulls the image by its own name.
UserPulls ==
  /\ Happens("others")
  /\ \E p \in Platforms : Fetch(p)
  /\ UNCHANGED <<fixed, newest, alias, prepared, overtaken, pull, job, at>>

\* An index loses what it had for one platform.
Lose ==
  /\ indexed /\ Happens("others")
  /\ \E b \in blobs : blobs' = blobs \ {b}
  /\ UNCHANGED <<fixed, newest, plain, alias, prepared, overtaken, pull, job, at>>

-----------------------------------------------------------------------------

Work ==
  \/ \E t \in Transports : AskPull(t) \/ AskPrepared(t) \/ NoImage(t) \/ Handed(t)
  \/ \E k \in PullKeys : LookForAlias(k) \/ LookForPlain(k) \/ Pull(k) \/ LookUp(k) \/ Tag(k)
  \/ \E k \in Keys : Prepare(k)

Outside == CallFails \/ CommandFails \/ ProbeFails \/ Publish \/ UserPulls \/ Lose

Next == Work \/ Outside

\* Every call to the daemon is answered or fails, within its timeout.
Spec == Init /\ [][Next]_vars /\ WF_vars(Work)

-----------------------------------------------------------------------------
(* Properties. *)

TypeOK ==
  /\ kind \in Images /\ indexed \in BOOLEAN /\ newest \in 0..MaxGen
  /\ plain \in Contents \cup {None} /\ alias \in [Platforms -> Contents \cup {None}]
  /\ blobs \subseteq (1..MaxGen) \X Platforms
  /\ DOMAIN prepared = Tags
  /\ \A tag \in Tags : prepared[tag] = None \/ prepared[tag] \in Prepared
  /\ overtaken \subseteq Platforms
  /\ \A k \in PullKeys : pull[k].got \in Contents \cup {None}
  /\ \A k \in Keys : job[k].tries \in 0..Fixes
  /\ at \in [Transports -> Outcomes \cup {"new", "pulling", "preparing", "no image"}]
  /\ trouble.failure + trouble.others <= MaxTrouble

\* "A concurrent pull of the same upstream tag at a different platform can repoint
\* it in between, and must not be allowed to steal this alias" (_ensure_aliased,
\* _repull_alias): the alias of a platform is an image of another one only if the
\* name was repointed between its pull and the SDK's own second look, and then
\* only until the alias is made anew.
AliasIsItsPlatform ==
  \A p \in Platforms :
    alias[p] # None /\ p \notin overtaken => alias[p].shows = Shows(p)

\* "Nothing broken is cached" (_make_qna_runnable): what a later run would start
\* from and never mend is committed only after a look at qna that failed and named
\* nothing, which the code takes for one that links.
NothingBrokenCached ==
  \A tag \in Tags :
    prepared[tag] # None /\ ~prepared[tag].blind => prepared[tag].needs = <<>>

\* A tag names the content its image stands on, unless the alias was given
\* another content between the reading of the digest and the start of the build.
TagNamesItsBase ==
  \A tag \in Tags :
    prepared[tag] # None /\ ~prepared[tag].moved => prepared[tag].base = tag.digest

Running(t) == prepared[TagOf(job[KeyOf(t)].digest, Version[t], Platform[t])]

\* The image a transport is handed is there and holds its own version of qna,
\* for its own platform, on a base for that platform (prepared_image_tag, the
\* key of once), even where an alias was stolen.
OwnBuild ==
  \A t \in Transports :
    at[t] = "prepared" =>
      /\ Running(t) # None
      /\ Running(t).version = Version[t] /\ Running(t).platform = Platform[t]
      /\ Running(t).base.shows = Shows(Platform[t])

\* --rebuild-image never ends with an image of an earlier day.
RebuiltAfresh ==
  \A t \in Transports :
    at[t] = "prepared" /\ Client[t] \in Rebuilding => ~Running(t).old

\* Transports that share a pull share its outcome: a doomed pull is not tried
\* once per target (ImageCoordinator.once).
SharersAgree ==
  \A t, u \in Transports :
    /\ Client[t] = Client[u] /\ Platform[t] = Platform[u]
    /\ at[t] = "no image"
    => at[u] \in {"new", "pulling", "no image"}

\* Each transport is handed what it asked for, and what runs.
HandedItsOwn ==
  NothingBrokenCached /\ TagNamesItsBase /\ OwnBuild /\ RebuiltAfresh /\ SharersAgree

\* What the loop can mend: fewer things than it has attempts, for the last
\* attempt is not looked at again, each one named, and with apt-get no second
\* library.
Libraries == {i \in DOMAIN kind.needs : kind.needs[i] # Interpreter}
Mendable ==
  /\ kind.shell /\ Len(kind.needs) < Fixes
  /\ \A i \in DOMAIN kind.needs : kind.needs[i] # Unnamed
  /\ kind.foreign => kind.needs # <<>> /\ kind.needs[1] = Interpreter
  /\ Libraries # DOMAIN kind.needs => kind.family = "deb" /\ kind.manager = "apt-get"
  /\ \A i \in Libraries : \/ kind.manager = "dnf"
                          \/ kind.manager = "apt-get" /\ kind.needs[i] \in kind.known
  /\ kind.manager = "apt-get" => \A i, j \in Libraries : i = j

\* Without a failure a run that may install things never has to mount qna into
\* an image that could have been mended, a foreign one included.
MendedWhenItCan ==
  Mendable /\ trouble.failure = 0 =>
    \A t \in Transports : Client[t] \in AutoSetup => at[t] # "mount"

\* container_libs.py says why the lists are fetched: Debian images ship none, so
\* apt-get must fetch them first.
ListsBeforeInstall ==
  \A k \in Keys :
    /\ job[k].pc = "fix" /\ MayFix(k) /\ Missing(k) # Interpreter
    /\ kind.manager = "apt-get"
    => HasLists(k)

\* Every transport gets an image, prepared or not, or is told there is none.
AllServed ==
  <>(\A t \in Transports : at[t] \in Outcomes \cup {"no image"})
=============================================================================
