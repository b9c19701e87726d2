------------------------ MODULE PreparedImageProofs ------------------------
(***************************************************************************)
(* What the image run shows on two runs, two platforms and two contents,   *)
(* for any transports, platforms, versions and images.                     *)
(***************************************************************************)
EXTENDS PreparedImage, SequenceTheorems, TLAPS

PullPCs == {"none", "alias", "plain", "pull", "look", "tag", "done", "failed"}
Pulls == [pc : PullPCs, got : Contents \cup {None}, crossed : BOOLEAN]

Things == STRING \cup {Interpreter}
JobPCs == {"none", "digest", "exists", "start", "again", "repull", "relook", "retag",
           "copy", "probe", "fix", "commit"} \cup Outcomes
Jobs == [pc : JobPCs, got : Contents \cup {None}, digest : Contents \cup {None},
         base : Contents \cup {None}, needs : Seq(STRING), attempted : SUBSET Things,
         foreign : BOOLEAN, refreshed : BOOLEAN, lists : BOOLEAN, tries : 0 .. Fixes,
         crossed : BOOLEAN, moved : BOOLEAN, blind : BOOLEAN]

\* Every record, in every part.
DaemonTypes ==
  /\ newest \in 0 .. MaxGen
  /\ plain \in Contents \cup {None} /\ alias \in [Platforms -> Contents \cup {None}]
  /\ blobs \subseteq (1 .. MaxGen) \X Platforms
  /\ prepared \in [Tags -> Prepared \cup {None}]
  /\ overtaken \subseteq Platforms
TroubleType == /\ trouble \in [failure : Nat, others : Nat]
               /\ trouble.failure + trouble.others <= MaxTrouble
Types ==
  /\ kind \in Images /\ indexed \in BOOLEAN
  /\ DaemonTypes /\ TroubleType
  /\ pull \in [PullKeys -> Pulls]
  /\ job \in [Keys -> Jobs]
  /\ at \in [Transports -> Outcomes \cup {"new", "pulling", "preparing", "no image"}]

\* An image that inspects as what p's do, and one that inspects as some do here.
IsFor(image, p) == image # None /\ image.shows = Shows(p)
Inspects(image) == image # None /\ (indexed => image.shows = Native)

\* A pull that is over leaves an alias; what it is about to tag is for its
\* platform, but for one whose name was repointed before the SDK's second look.
PullOK(k, p) == /\ p.pc = "look" => plain # None
                /\ p.pc = "tag" => Inspects(p.got) /\ (~ p.crossed => IsFor(p.got, k[2]))
                /\ p.pc = "look" => IsFor(p.got, k[2])
                /\ p.pc = "done" => alias[k[2]] # None

\* A task starts once there is an alias, and works on a content of its platform,
\* the one its tag names unless the alias was moved; what is committed lacks
\* nothing unless the last look named nothing.
PullOf(k) == <<k.client, k.platform>>
JobOK(k, j) ==
  /\ j.pc # "none" => pull[PullOf(k)].pc = "done"
  /\ j.pc \notin {"none", "digest", "failed"} => j.digest # None
  /\ j.pc = "relook" => plain # None /\ IsFor(j.got, k.platform)
  /\ j.pc = "retag" => Inspects(j.got) /\ (~ j.crossed => IsFor(j.got, k.platform))
  /\ j.pc \in Between /\ ~ j.moved => alias[k.platform] = j.digest
  /\ j.pc \in {"copy", "probe", "fix", "commit"} =>
       IsFor(j.base, k.platform) /\ (~ j.moved => j.base = j.digest)
  /\ j.pc = "fix" => j.needs # <<>>
  /\ j.pc = "commit" /\ ~ j.blind => j.needs = <<>>
  /\ j.pc = "prepared" =>
       LET image == prepared[TagOf(j.digest, k.version, k.platform)]
       IN  image # None /\ (k.client \in Rebuilding => ~ image.old)

\* An image is what its tag says.
TagInv(tag) ==
  prepared[tag] # None =>
    /\ ~ prepared[tag].blind => prepared[tag].needs = <<>>
    /\ ~ prepared[tag].moved => prepared[tag].base = tag.digest
    /\ prepared[tag].version = tag.version /\ prepared[tag].platform = tag.arch
    /\ prepared[tag].base.shows = Shows(tag.arch)

\* A transport has what the tasks it waited for came to.
AtInv(t) ==
  /\ at[t] \in Outcomes \cup {"preparing"} => pull[<<Client[t], Platform[t]>>].pc = "done"
  /\ at[t] = "no image" => pull[<<Client[t], Platform[t]>>].pc = "failed"
  /\ at[t] \in Outcomes => job[KeyOf(t)].pc = at[t]

DaemonInv == /\ plain # None => Inspects(plain)
             /\ \A p \in Platforms : alias[p] # None => Inspects(alias[p])
             /\ AliasIsItsPlatform
             /\ \A tag \in Tags : TagInv(tag)

ImageInv == /\ DaemonInv
            /\ \A k \in PullKeys : PullOK(k, pull[k])
            /\ \A k \in Keys : JobOK(k, job[k])
            /\ \A t \in Transports : AtInv(t)

LEMMA ConstantFacts ==
  /\ Client \in [Transports -> Clients] /\ Platform \in [Transports -> Platforms]
  /\ Version \in [Transports -> Versions]
  /\ Native \in Platforms
  /\ Fixes \in Nat /\ MaxGen \in Nat /\ MaxGen >= 1
  /\ \A image \in Images : image.needs \in Seq(STRING) /\ image \in Kinds
  /\ None \notin Contents /\ None \notin Prepared
<1> QED
  BY ImageAssumption, NoneAssumption DEF Kinds

LEMMA KeyFacts ==
  /\ \A t \in Transports : KeyOf(t) \in Keys /\ <<Client[t], Platform[t]>> \in PullKeys
                           /\ PullOf(KeyOf(t)) = <<Client[t], Platform[t]>>
  /\ \A k \in Keys : /\ PullOf(k) \in PullKeys /\ PullOf(k)[2] = k.platform
                     /\ k.platform \in Platforms /\ k.version \in Versions
                     /\ k.client \in Clients
  /\ \A k \in PullKeys : k[2] \in Platforms
  /\ \A image \in Contents, v \in Versions, p \in Platforms : TagOf(image, v, p) \in Tags
<1> QED
  BY ConstantFacts DEF KeyOf, Keys, PullKeys, PullOf, TagOf, Tags

LEMMA ContentFacts ==
  ASSUME Types, NEW p \in Platforms, NEW g \in 1 .. MaxGen
  PROVE  Content(g, p) \in Contents /\ IsFor(Content(g, p), p)
<1>1. Content(g, p) \in Contents
  BY ConstantFacts DEF Content, Shows, Contents, Types
<1> QED
  BY <1>1, ConstantFacts DEF IsFor, Content

-----------------------------------------------------------------------------
(* The three kinds of steps: of the daemon, of a pull, of a task.          *)

\* What any step does to the daemon's images: nothing is taken away again.
DaemonKeeps ==
  /\ DaemonTypes' /\ DaemonInv'
  /\ plain # None => plain' # None
  /\ \A p \in Platforms : alias[p] # None => alias'[p] # None
  /\ \A tag \in Tags : prepared[tag] # None =>
       prepared'[tag] # None /\ (prepared'[tag].old => prepared[tag].old)

LEMMA DaemonUnchanged ==
  ASSUME Types, ImageInv, UNCHANGED <<fixed, daemon_vars>>
  PROVE  DaemonKeeps
<1> QED
  BY DEF Types, ImageInv, DaemonTypes, DaemonInv, DaemonKeeps, AliasIsItsPlatform, TagInv,
         Inspects, Shows, fixed, daemon_vars

LEMMA DaemonFetches ==
  ASSUME Types, ImageInv, NEW p \in Platforms, Fetch(p),
         UNCHANGED <<fixed, newest, alias, prepared, overtaken>>
  PROVE  /\ DaemonKeeps /\ Content(newest, p) \in Contents /\ IsFor(Content(newest, p), p)
         /\ plain' # None
<1>1. newest \in 1 .. MaxGen
  <2>1. newest \in 0 .. MaxGen /\ newest > 0
    BY DEF Types, DaemonTypes, Fetch
  <2> QED
    BY <2>1, ConstantFacts
<1>2. Content(newest, p) \in Contents /\ IsFor(Content(newest, p), p)
  <2>1. \A g \in 1 .. MaxGen : Content(g, p) \in Contents /\ IsFor(Content(g, p), p)
    BY ContentFacts
  <2> QED
    BY <1>1, <2>1
<1>3. DaemonTypes'
  <2>1. <<newest, p>> \in (1 .. MaxGen) \X Platforms
    BY <1>1
  <2>2. blobs' \subseteq (1 .. MaxGen) \X Platforms /\ plain' \in Contents
    BY <1>2, <2>1 DEF Types, DaemonTypes, Fetch
  <2> QED
    BY <2>2 DEF Types, DaemonTypes
<1>4. plain' # None
  BY <1>2, ConstantFacts DEF Fetch
<1>5. DaemonInv'
  BY <1>2 DEF ImageInv, DaemonInv, AliasIsItsPlatform, TagInv, IsFor, Inspects, Shows, Fetch,
              fixed
<1> QED
  BY <1>2, <1>3, <1>4, <1>5 DEF DaemonKeeps

LEMMA DaemonTags ==
  ASSUME Types, ImageInv, NEW p \in Platforms, NEW image \in Contents, NEW crossed \in BOOLEAN,
         Inspects(image), ~ crossed => IsFor(image, p), Realias(p, image, crossed),
         UNCHANGED <<fixed, newest, plain, blobs, prepared>>
  PROVE  DaemonKeeps /\ alias'[p] # None
<1>1. /\ alias' \in [Platforms -> Contents \cup {None}] /\ alias'[p] = image
      /\ image # None
      /\ \A q \in Platforms : q # p => alias'[q] = alias[q]
  BY ConstantFacts DEF Types, DaemonTypes, Realias
<1>2. /\ overtaken' \subseteq Platforms /\ (~ crossed => p \notin overtaken')
      /\ crossed => p \in overtaken'
      /\ \A q \in Platforms : q # p => (q \in overtaken' <=> q \in overtaken)
  BY DEF Types, DaemonTypes, Realias
<1>3. DaemonTypes'
  BY <1>1, <1>2 DEF Types, DaemonTypes
<1>4. AliasIsItsPlatform'
  BY <1>1, <1>2 DEF ImageInv, DaemonInv, AliasIsItsPlatform, IsFor, Shows, fixed
<1>5. DaemonInv'
  BY <1>1, <1>4 DEF ImageInv, DaemonInv, TagInv, Inspects, Shows, fixed
<1> QED
  BY <1>1, <1>3, <1>5 DEF DaemonKeeps

LEMMA DaemonCommits ==
  ASSUME Types, ImageInv, NEW tag \in Tags, NEW image \in Prepared,
         ~ image.blind => image.needs = <<>>, ~ image.moved => image.base = tag.digest,
         image.version = tag.version, image.platform = tag.arch,
         image.base.shows = Shows(tag.arch), ~ image.old,
         prepared' = [prepared EXCEPT ![tag] = image],
         UNCHANGED <<fixed, newest, plain, alias, blobs, overtaken>>
  PROVE  DaemonKeeps /\ prepared'[tag] = image /\ image # None
<1>1. /\ prepared' \in [Tags -> Prepared \cup {None}] /\ prepared'[tag] = image
      /\ image # None
      /\ \A q \in Tags : q # tag => prepared'[q] = prepared[q]
  BY ConstantFacts DEF Types, DaemonTypes
<1>2. DaemonTypes'
  BY <1>1 DEF Types, DaemonTypes
<1>3. DaemonInv'
  BY <1>1 DEF ImageInv, DaemonInv, AliasIsItsPlatform, TagInv, Inspects, Shows, fixed
<1> QED
  BY <1>1, <1>2, <1>3 DEF DaemonKeeps

\* A task that another's step leaves where it is: if that step moved the alias
\* under it, the task is marked.
Kept(q) ==
  /\ \E m \in BOOLEAN : job'[q] = [job[q] EXCEPT !.moved = m]
  /\ job[q].moved => job'[q].moved
  /\ \/ alias'[q.platform] = alias[q.platform] \/ job[q].pc \notin Between
     \/ job'[q].moved

LEMMA KeptOK ==
  ASSUME Types, ImageInv, NEW q \in Keys, Kept(q), DaemonKeeps, UNCHANGED fixed,
         job[q].pc # "none" => pull'[PullOf(q)].pc = "done"
  PROVE  job'[q] \in Jobs /\ JobOK(q, job[q])' /\ job'[q].pc = job[q].pc
<1>1. JobOK(q, job[q]) /\ job[q] \in Jobs /\ q.platform \in Platforms
  BY KeyFacts DEF ImageInv, Types
<1>2. PICK j \in Jobs : /\ j = job'[q]
                        /\ j.pc = job[q].pc /\ j.digest = job[q].digest /\ j.got = job[q].got
                        /\ j.base = job[q].base /\ j.needs = job[q].needs
                        /\ j.blind = job[q].blind /\ j.crossed = job[q].crossed
                        /\ job[q].moved => j.moved
  BY <1>1 DEF Kept, Jobs
<1>3. job[q].pc = "prepared" =>
        /\ TagOf(job[q].digest, q.version, q.platform) \in Tags
        /\ prepared[TagOf(job[q].digest, q.version, q.platform)] # None
  BY <1>1, KeyFacts DEF JobOK, Jobs
<1>4. j.pc \in Between /\ ~ j.moved => alias'[q.platform] = j.digest
  BY <1>1, <1>2 DEF JobOK, Kept
<1>5. j.pc # "none" => pull'[PullOf(q)].pc = "done"
  BY <1>2
<1> QED
  BY <1>1, <1>2, <1>3, <1>4, <1>5
  DEF JobOK, IsFor, Inspects, Shows, DaemonKeeps, TagOf, PullOf, fixed

LEMMA SameKept ==
  ASSUME Types, NEW q \in Keys, job'[q] = job[q], UNCHANGED alias
  PROVE  Kept(q)
<1>1. job[q] \in Jobs
  BY DEF Types
<1>2. job[q].moved \in BOOLEAN /\ job[q] = [job[q] EXCEPT !.moved = job[q].moved]
  BY <1>1 DEF Jobs
<1> QED
  BY <1>2 DEF Kept

\* A task that is not over goes on, and nothing else does but the daemon.
LEMMA TaskStep ==
  ASSUME Types, ImageInv, NEW k \in Keys, NEW j \in Jobs, job[k].pc \notin Outcomes,
         job'[k] = j, DOMAIN job' = Keys, job' = [q \in Keys |-> job'[q]],
         \A q \in Keys : q # k => Kept(q),
         JobOK(k, job[k])', DaemonKeeps, UNCHANGED <<fixed, pull, at>>, TroubleType'
  PROVE  Types' /\ ImageInv'
<1>1. kind' = kind /\ indexed' = indexed /\ pull' = pull /\ at' = at
  BY DEF fixed
<1>2. ASSUME NEW q \in Keys, q # k
      PROVE  job'[q] \in Jobs /\ JobOK(q, job[q])' /\ job'[q].pc = job[q].pc
  <2>1. JobOK(q, job[q]) /\ Kept(q)
    BY <1>2 DEF ImageInv
  <2>2. job[q].pc # "none" => pull'[PullOf(q)].pc = "done"
    BY <1>1, <2>1 DEF JobOK
  <2> QED
    BY <2>1, <2>2, KeptOK
<1>3. \A q \in Keys : job'[q] \in Jobs
  BY <1>2
<1>4. job' \in [Keys -> Jobs]
  BY <1>3
<1>5. Types'
  BY <1>1, <1>4 DEF Types, DaemonKeeps
<1>6. ASSUME NEW t \in Transports PROVE AtInv(t)'
  <2>1. KeyOf(t) \in Keys /\ AtInv(t)
    BY KeyFacts DEF ImageInv
  <2>2. KeyOf(t) # k => job'[KeyOf(t)].pc = job[KeyOf(t)].pc
    BY <1>2, <2>1
  <2> QED
    BY <1>1, <2>1, <2>2 DEF AtInv, KeyOf
<1>7. ASSUME NEW q \in PullKeys PROVE PullOK(q, pull[q])'
  BY <1>1, KeyFacts DEF ImageInv, PullOK, IsFor, Inspects, Shows, DaemonKeeps
<1> QED
  BY <1>2, <1>5, <1>6, <1>7 DEF ImageInv, DaemonKeeps

LEMMA JobStep ==
  ASSUME Types, ImageInv, NEW k \in Keys, NEW j \in Jobs, job[k].pc \notin Outcomes,
         job' = [job EXCEPT ![k] = j], JobOK(k, job[k])', DaemonKeeps, UNCHANGED alias,
         UNCHANGED <<fixed, pull, at>>, TroubleType'
  PROVE  Types' /\ ImageInv'
<1>1. /\ job'[k] = j /\ DOMAIN job' = Keys /\ job' = [q \in Keys |-> job'[q]]
      /\ \A q \in Keys : q # k => job'[q] = job[q]
  BY DEF Types
<1>2. \A q \in Keys : q # k => Kept(q)
  BY <1>1, SameKept
<1> QED
  BY <1>1, <1>2, TaskStep

\* A pull that is not over goes on, and nothing else does but the daemon.
LEMMA PullStep ==
  ASSUME Types, ImageInv, NEW k \in PullKeys, NEW p \in Pulls,
         pull[k].pc \notin {"done", "failed"}, pull' = [pull EXCEPT ![k] = p],
         PullOK(k, pull[k])', DaemonKeeps, UNCHANGED <<fixed, at>>,
         job' = [q \in Keys |-> job'[q]], \A q \in Keys : Kept(q), TroubleType'
  PROVE  Types' /\ ImageInv'
<1>1. /\ pull' \in [PullKeys -> Pulls]
      /\ \A q \in PullKeys : q # k => pull'[q] = pull[q]
  BY DEF Types
<1>2. kind' = kind /\ indexed' = indexed /\ at' = at
  BY DEF fixed
<1>3. ASSUME NEW q \in Keys
      PROVE  job'[q] \in Jobs /\ JobOK(q, job[q])' /\ job'[q].pc = job[q].pc
  <2>1. JobOK(q, job[q]) /\ Kept(q) /\ PullOf(q) \in PullKeys
    BY KeyFacts DEF ImageInv
  <2>2. job[q].pc # "none" => pull'[PullOf(q)].pc = "done"
    BY <1>1, <2>1 DEF JobOK
  <2> QED
    BY <2>1, <2>2, KeptOK
<1>4. job' \in [Keys -> Jobs]
  <2>1. \A q \in Keys : job'[q] \in Jobs
    BY <1>3
  <2> QED
    BY <2>1
<1>5. Types'
  BY <1>1, <1>2, <1>4 DEF Types, DaemonKeeps
<1>6. ASSUME NEW q \in PullKeys, q # k PROVE PullOK(q, pull[q])'
  BY <1>1, <1>2, <1>6, KeyFacts DEF ImageInv, PullOK, IsFor, Inspects, Shows, DaemonKeeps
<1>7. ASSUME NEW t \in Transports PROVE AtInv(t)'
  <2>1. <<Client[t], Platform[t]>> \in PullKeys /\ AtInv(t) /\ KeyOf(t) \in Keys
    BY KeyFacts DEF ImageInv
  <2>2. job'[KeyOf(t)].pc = job[KeyOf(t)].pc
    BY <1>3, <2>1
  <2> QED
    BY <1>1, <1>2, <2>1, <2>2 DEF AtInv, KeyOf
<1> QED
  BY <1>3, <1>5, <1>6, <1>7 DEF ImageInv, DaemonKeeps

LEMMA UnbuiltType == Unbuilt \in Jobs
<1>1. <<>> \in Seq(STRING) /\ {} \in SUBSET Things /\ 0 \in 0 .. Fixes
  BY ConstantFacts
<1> QED
  BY <1>1 DEF Unbuilt, Jobs, JobPCs

\* An outcome leaves nothing of a task but its digest.
LEMMA GoesFacts ==
  ASSUME Types, NEW k \in Keys, NEW pc \in JobPCs, Goes(k, pc)
  PROVE  \E j \in Jobs : /\ job' = [job EXCEPT ![k] = j]
                         /\ j.pc = pc /\ j.digest = job[k].digest
                         /\ pc \notin Outcomes => j = [job[k] EXCEPT !.pc = pc]
<1>1. job[k] \in Jobs /\ Unbuilt \in Jobs
  BY UnbuiltType DEF Types
<1>2. CASE pc \in Outcomes
  <2> DEFINE j == [Unbuilt EXCEPT !.pc = pc, !.digest = job[k].digest]
  <2>1. j \in Jobs /\ j.pc = pc /\ j.digest = job[k].digest
    BY <1>1 DEF Jobs, Unbuilt
  <2>2. job' = [job EXCEPT ![k] = j]
    BY <1>2 DEF Goes
  <2> QED
    BY <1>2, <2>1, <2>2
<1>3. CASE pc \notin Outcomes
  <2> DEFINE j == [job[k] EXCEPT !.pc = pc]
  <2>1. j \in Jobs /\ j.pc = pc /\ j.digest = job[k].digest
    BY <1>1 DEF Jobs
  <2>2. job' = [job EXCEPT ![k] = j]
    BY <1>3 DEF Goes
  <2> QED
    BY <2>1, <2>2
<1> QED
  BY <1>2, <1>3

-----------------------------------------------------------------------------
(* The tasks, action by action.                                            *)

LEMMA NotOver ==
  Outcomes \cap {"none", "digest", "exists", "start", "again", "repull", "relook", "retag",
                 "copy", "probe", "fix", "commit"} = {}
<1> QED
  BY DEF Outcomes

LEMMA SameTrouble == ASSUME Types, UNCHANGED trouble PROVE TroubleType'
<1> QED
  BY DEF Types, TroubleType

\* What a step that touches neither the daemon nor the trouble keeps.
LEMMA QuietStep ==
  ASSUME Types, ImageInv, UNCHANGED <<fixed, daemon_vars, trouble>>
  PROVE  DaemonKeeps /\ TroubleType' /\ UNCHANGED <<alias, prepared, plain>>
<1> QED
  BY DaemonUnchanged, SameTrouble DEF daemon_vars

LEMMA AliasIsThere ==
  ASSUME Types, ImageInv, NEW k \in Keys, job[k].pc # "none"
  PROVE  Inspects(alias[k.platform]) /\ alias[k.platform] \in Contents
<1>1. /\ pull[PullOf(k)].pc = "done" /\ PullOf(k) \in PullKeys
      /\ PullOf(k)[2] = k.platform /\ k.platform \in Platforms
  BY KeyFacts DEF JobOK, ImageInv
<1> QED
  BY <1>1 DEF ImageInv, DaemonInv, PullOK, Types, DaemonTypes

LEMMA ReadDigestStep ==
  ASSUME Types, ImageInv, NEW k \in Keys, ReadDigest(k)
  PROVE  Types' /\ ImageInv'
<1>1. job[k] \in Jobs /\ job[k].pc = "digest" /\ JobOK(k, job[k])
  BY DEF Types, ImageInv, ReadDigest
<1>2. alias[k.platform] # None /\ alias[k.platform] \in Contents
  BY <1>1, AliasIsThere DEF Inspects
<1>3. PICK j \in Jobs : j = [job[k] EXCEPT !.pc = "exists", !.digest = alias[k.platform]]
  BY <1>1, <1>2 DEF Jobs, JobPCs
<1>4. /\ job' = [job EXCEPT ![k] = j]
      /\ UNCHANGED <<fixed, daemon_vars, pull, at, trouble>>
  BY <1>1, <1>3 DEF ReadDigest, Types, Jobs
<1>5. job'[k] = j /\ j.pc = "exists" /\ j.digest = alias[k.platform]
  BY <1>1, <1>3, <1>4 DEF Types, Jobs
<1>6. DaemonKeeps /\ TroubleType' /\ UNCHANGED <<alias, prepared, plain>>
  BY <1>4, QuietStep
<1>7. JobOK(k, job[k])'
  BY <1>1, <1>2, <1>4, <1>5, <1>6 DEF JobOK, Outcomes
<1> QED
  BY <1>1, <1>4, <1>6, <1>7, JobStep, NotOver

\* A task goes where it may from where it is, if that asks for no more than it has.
LEMMA GoesStep ==
  ASSUME Types, ImageInv, NEW k \in Keys, NEW pc \in JobPCs, Goes(k, pc),
         job[k].pc \notin Outcomes \cup {"none"},
         job[k].pc = "digest" => pc = "failed",
         pc \notin {"none", "digest", "relook", "retag", "commit"},
         pc \in Between => job[k].pc \in Between,
         pc \in {"copy", "probe", "fix"} => job[k].pc \in {"copy", "probe", "fix"},
         pc = "fix" => job[k].needs # <<>>,
         pc = "prepared" => Cached(k),
         DaemonKeeps, UNCHANGED <<fixed, alias, prepared, pull, at>>, TroubleType'
  PROVE  Types' /\ ImageInv'
<1>1. job[k] \in Jobs /\ JobOK(k, job[k])
  BY DEF Types, ImageInv
<1>2. PICK j \in Jobs : /\ job' = [job EXCEPT ![k] = j]
                        /\ j.pc = pc /\ j.digest = job[k].digest
                        /\ pc \notin Outcomes => j = [job[k] EXCEPT !.pc = pc]
  BY GoesFacts
<1>3. job'[k] = j
  BY <1>2 DEF Types
<1>4. pc \notin Outcomes =>
        j.base = job[k].base /\ j.needs = job[k].needs /\ j.moved = job[k].moved
  BY <1>1, <1>2 DEF Jobs
<1>5. pc \in {"copy", "probe", "fix"} \cup Between => pc \notin Outcomes
  BY DEF Outcomes, Between
<1>6. pc \notin {"none", "digest", "failed"} => j.digest # None
  BY <1>1, <1>2 DEF JobOK, Outcomes
<1>7. pc \in {"copy", "probe", "fix"} =>
        IsFor(j.base, k.platform) /\ (~ j.moved => j.base = j.digest)
  BY <1>1, <1>2, <1>4, <1>5 DEF JobOK
<1>8. pc \in Between /\ ~ j.moved => alias'[k.platform] = j.digest
  BY <1>1, <1>2, <1>4, <1>5 DEF JobOK
<1>9. JobOK(k, job[k])'
  BY <1>1, <1>2, <1>3, <1>4, <1>5, <1>6, <1>7, <1>8
  DEF JobOK, IsFor, Shows, fixed, Outcomes, Cached, TagOfJob
<1> QED
  BY <1>2, <1>9, JobStep

LEMMA LookForPreparedStep ==
  ASSUME Types, ImageInv, NEW k \in Keys, LookForPrepared(k)
  PROVE  Types' /\ ImageInv'
<1>1. /\ job[k].pc = "exists" /\ UNCHANGED <<fixed, daemon_vars, pull, at, trouble>>
      /\ Goes(k, IF Cached(k) THEN "prepared" ELSE "start")
  BY DEF LookForPrepared
<1>2. DaemonKeeps /\ TroubleType' /\ UNCHANGED <<alias, prepared, plain>>
  BY <1>1, QuietStep
<1>3. "prepared" \in JobPCs /\ "start" \in JobPCs
  BY DEF JobPCs, Outcomes
<1>4. CASE Cached(k)
  BY <1>1, <1>2, <1>3, <1>4, GoesStep DEF Outcomes, Between
<1>5. CASE ~ Cached(k)
  BY <1>1, <1>2, <1>3, <1>5, GoesStep DEF Outcomes, Between
<1> QED
  BY <1>4, <1>5

\* The base is for the platform even if the alias was stolen: what an index does
\* not hold for it, and another platform's image, cannot be started.
LEMMA StartBuildStep ==
  ASSUME Types, ImageInv, NEW k \in Keys, StartBuild(k)
  PROVE  Types' /\ ImageInv'
<1>1. /\ job[k].pc \in {"start", "again"} /\ job[k] \in Jobs /\ JobOK(k, job[k])
      /\ UNCHANGED <<fixed, daemon_vars, pull, at, trouble>>
  BY DEF StartBuild, Types, ImageInv
<1>2. DaemonKeeps /\ TroubleType' /\ UNCHANGED <<alias, prepared, plain>>
  BY <1>1, QuietStep
<1>3. Inspects(alias[k.platform]) /\ alias[k.platform] \in Contents
  BY <1>1, AliasIsThere
<1>4. CASE /\ Holds(alias[k.platform], k.platform)
           /\ job' = [job EXCEPT ![k].pc = "copy", ![k].base = alias[k.platform],
                                ![k].needs = kind.needs]
  <2>1. kind.needs \in Seq(STRING)
    BY ConstantFacts DEF Types
  <2>2. IsFor(alias[k.platform], k.platform)
    BY <1>3, <1>4 DEF IsFor, Inspects, Holds, Shows
  <2>3. ~ job[k].moved => alias[k.platform] = job[k].digest
    BY <1>1 DEF JobOK, Between
  <2>4. PICK j \in Jobs : j = [job[k] EXCEPT !.pc = "copy", !.base = alias[k.platform],
                                             !.needs = kind.needs]
    BY <1>1, <1>3, <2>1 DEF Jobs, JobPCs
  <2>5. /\ job' = [job EXCEPT ![k] = j]
        /\ j.pc = "copy" /\ j.base = alias[k.platform] /\ j.digest = job[k].digest
        /\ j.moved = job[k].moved
    BY <1>1, <1>4, <2>4 DEF Types, Jobs
  <2>6. job'[k] = j
    BY <2>5 DEF Types
  <2>7. JobOK(k, job[k])'
    BY <1>1, <2>2, <2>3, <2>5, <2>6 DEF JobOK, IsFor, Shows, fixed, Outcomes, Between
  <2> QED
    BY <1>1, <1>2, <2>5, <2>7, JobStep, NotOver
<1>5. CASE Goes(k, "repull")
  BY <1>1, <1>2, <1>5, GoesStep DEF Outcomes, JobPCs, Between
<1>6. CASE Goes(k, "failed")
  BY <1>1, <1>2, <1>6, GoesStep DEF Outcomes, JobPCs, Between
<1> QED
  BY <1>4, <1>5, <1>6 DEF StartBuild

LEMMA RepullStep ==
  ASSUME Types, ImageInv, NEW k \in Keys, Repull(k)
  PROVE  Types' /\ ImageInv'
<1>1. /\ job[k].pc = "repull" /\ job[k] \in Jobs /\ JobOK(k, job[k])
      /\ UNCHANGED <<fixed, newest, alias, prepared, overtaken, pull, at, trouble>>
      /\ k.platform \in Platforms
  BY KeyFacts DEF Repull, Types, ImageInv
<1>2. TroubleType'
  BY <1>1, SameTrouble
<1>3. CASE /\ Fetch(k.platform)
           /\ job' = [job EXCEPT ![k].pc = "relook", ![k].got = Content(newest, k.platform)]
  <2>1. /\ DaemonKeeps /\ Content(newest, k.platform) \in Contents
        /\ IsFor(Content(newest, k.platform), k.platform) /\ plain' # None
    BY <1>1, <1>3, DaemonFetches
  <2>2. PICK j \in Jobs : j = [job[k] EXCEPT !.pc = "relook",
                                             !.got = Content(newest, k.platform)]
    BY <1>1, <2>1 DEF Jobs, JobPCs
  <2>3. /\ job' = [job EXCEPT ![k] = j] /\ j.pc = "relook"
        /\ j.got = Content(newest, k.platform) /\ j.digest = job[k].digest
        /\ j.moved = job[k].moved
    BY <1>1, <1>3, <2>2 DEF Types, Jobs
  <2>4. job'[k] = j
    BY <2>3 DEF Types
  <2>5. JobOK(k, job[k])'
    BY <1>1, <2>1, <2>3, <2>4 DEF JobOK, IsFor, Shows, fixed, Outcomes, Between
  <2> QED
    BY <1>1, <1>2, <2>1, <2>3, <2>5, JobStep, NotOver
<1>4. CASE Goes(k, "failed") /\ UNCHANGED <<plain, blobs>>
  <2>1. DaemonKeeps
    BY <1>1, <1>4, DaemonUnchanged DEF daemon_vars
  <2> QED
    BY <1>1, <1>2, <1>4, <2>1, GoesStep DEF Outcomes, JobPCs, Between
<1> QED
  BY <1>3, <1>4 DEF Repull

LEMMA LookUpAgainStep ==
  ASSUME Types, ImageInv, NEW k \in Keys, LookUpAgain(k)
  PROVE  Types' /\ ImageInv'
<1>1. /\ job[k].pc = "relook" /\ job[k] \in Jobs /\ JobOK(k, job[k])
      /\ UNCHANGED <<fixed, daemon_vars, pull, at, trouble>>
  BY DEF LookUpAgain, Types, ImageInv
<1>2. DaemonKeeps /\ TroubleType' /\ UNCHANGED <<alias, prepared, plain>>
  BY <1>1, QuietStep
<1>3. plain \in Contents /\ Inspects(plain) /\ IsFor(job[k].got, k.platform)
  BY <1>1 DEF JobOK, Types, DaemonTypes, ImageInv, DaemonInv
<1>4. PICK j \in Jobs : j = [job[k] EXCEPT !.pc = "retag", !.got = plain,
                                           !.crossed = plain # job[k].got]
  BY <1>1, <1>3 DEF Jobs, JobPCs
<1>5. /\ job' = [job EXCEPT ![k] = j] /\ j.pc = "retag" /\ j.got = plain
      /\ j.crossed = (plain # job[k].got) /\ j.digest = job[k].digest
      /\ j.moved = job[k].moved
  BY <1>1, <1>4 DEF Types, Jobs, LookUpAgain
<1>6. job'[k] = j
  BY <1>5 DEF Types
<1>7. JobOK(k, job[k])'
  BY <1>1, <1>2, <1>3, <1>5, <1>6
  DEF JobOK, IsFor, Inspects, Shows, fixed, Outcomes, Between
<1> QED
  BY <1>1, <1>2, <1>5, <1>7, JobStep, NotOver

\* What the making of an alias marks.
LEMMA RealiasKept ==
  ASSUME Types, NEW p \in Platforms, NEW content, NEW crossed, Realias(p, content, crossed),
         NEW q \in Keys, job'[q] = [job[q] EXCEPT !.moved = Moved(q, p)]
  PROVE  Kept(q)
<1>1. job[q] \in Jobs /\ q.platform \in Platforms
  BY KeyFacts DEF Types
<1>2. Moved(q, p) \in BOOLEAN /\ job'[q].moved = Moved(q, p)
  BY <1>1 DEF Moved, Jobs
<1>3. q.platform # p => alias'[q.platform] = alias[q.platform]
  BY <1>1 DEF Realias, Types, DaemonTypes
<1> QED
  BY <1>2, <1>3 DEF Kept, Moved

LEMMA RetagStep ==
  ASSUME Types, ImageInv, NEW k \in Keys, Retag(k)
  PROVE  Types' /\ ImageInv'
<1>1. /\ job[k].pc = "retag" /\ job[k] \in Jobs /\ JobOK(k, job[k])
      /\ UNCHANGED <<fixed, newest, plain, blobs, prepared, pull, at, trouble>>
      /\ k.platform \in Platforms /\ job[k].crossed \in BOOLEAN
      /\ Realias(k.platform, job[k].got, job[k].crossed)
  BY KeyFacts DEF Retag, Tagged, Types, ImageInv, Jobs
<1>2. /\ Inspects(job[k].got) /\ job[k].got \in Contents
      /\ ~ job[k].crossed => IsFor(job[k].got, k.platform)
  BY <1>1 DEF JobOK, Inspects, Jobs
<1>3. DaemonKeeps /\ TroubleType'
  BY <1>1, <1>2, DaemonTags, SameTrouble
<1>4. PICK j \in Jobs : j = [job[k] EXCEPT !.pc = "again", !.got = None, !.crossed = FALSE,
                                           !.moved = TRUE]
  BY <1>1 DEF Jobs, JobPCs
<1>5. /\ job'[k] = j /\ j.pc = "again" /\ j.digest = job[k].digest /\ j.moved
      /\ DOMAIN job' = Keys /\ job' = [q \in Keys |-> job'[q]]
      /\ \A q \in Keys : q # k => job'[q] = [job[q] EXCEPT !.moved = Moved(q, k.platform)]
  BY <1>1, <1>4 DEF Types, Jobs, Retag
<1>6. \A q \in Keys : q # k => Kept(q)
  BY <1>1, <1>5, RealiasKept
<1>7. JobOK(k, job[k])'
  BY <1>1, <1>5 DEF JobOK, Outcomes
<1> QED
  BY <1>1, <1>3, <1>5, <1>6, <1>7, TaskStep, NotOver

\* The steps in the build container.
LEMMA CopyStep ==
  ASSUME Types, ImageInv, NEW k \in Keys, Copy(k) \/ CannotFix(k)
  PROVE  Types' /\ ImageInv'
<1>1. /\ job[k].pc \in {"copy", "fix"} /\ JobOK(k, job[k])
      /\ UNCHANGED <<fixed, daemon_vars, pull, at, trouble>>
      /\ Goes(k, "probe") \/ Goes(k, "mount")
  BY DEF Copy, CannotFix, GivenUp, ImageInv
<1>2. DaemonKeeps /\ TroubleType' /\ UNCHANGED <<alias, prepared, plain>>
  BY <1>1, QuietStep
<1>3. CASE Goes(k, "probe")
  BY <1>1, <1>2, <1>3, GoesStep DEF Outcomes, JobPCs, Between
<1>4. CASE Goes(k, "mount")
  BY <1>1, <1>2, <1>4, GoesStep DEF Outcomes, JobPCs, Between
<1> QED
  BY <1>1, <1>3, <1>4

\* A look that is followed by a repair, or by the commit.
LEMMA LookedStep ==
  ASSUME Types, ImageInv, NEW k \in Keys, NEW pc \in {"fix", "commit"}, NEW blind \in BOOLEAN,
         Looked(k, pc, blind), job[k].pc = "probe", ~ Spent(k),
         pc = "fix" => job[k].needs # <<>>,
         pc = "commit" /\ ~ blind => job[k].needs = <<>>,
         DaemonKeeps, UNCHANGED <<fixed, daemon_vars, pull, at>>, TroubleType'
  PROVE  Types' /\ ImageInv'
<1>1. job[k] \in Jobs /\ JobOK(k, job[k])
  BY DEF Types, ImageInv
<1>2. job[k].tries + 1 \in 0 .. Fixes /\ pc \in JobPCs
  BY <1>1, ConstantFacts DEF Spent, Jobs, JobPCs
<1>3. PICK j \in Jobs : j = [job[k] EXCEPT !.tries = job[k].tries + 1, !.pc = pc,
                                           !.blind = blind]
  BY <1>1, <1>2 DEF Jobs
<1>4. /\ job' = [job EXCEPT ![k] = j] /\ j.pc = pc /\ j.digest = job[k].digest
      /\ j.base = job[k].base /\ j.needs = job[k].needs /\ j.moved = job[k].moved
      /\ j.blind = blind
  BY <1>1, <1>3 DEF Types, Jobs, Looked
<1>5. job'[k] = j
  BY <1>4 DEF Types
<1>6. JobOK(k, job[k])'
  BY <1>1, <1>4, <1>5 DEF JobOK, IsFor, Shows, fixed, Outcomes, Between
<1>7. UNCHANGED alias
  BY DEF daemon_vars
<1> QED
  BY <1>4, <1>6, <1>7, JobStep, NotOver

LEMMA ProbeStep ==
  ASSUME Types, ImageInv, NEW k \in Keys, Probe(k)
  PROVE  Types' /\ ImageInv'
<1>1. /\ job[k].pc = "probe" /\ job[k] \in Jobs /\ JobOK(k, job[k])
      /\ UNCHANGED <<fixed, daemon_vars, pull, at, trouble>>
  BY DEF Probe, Types, ImageInv
<1>2. DaemonKeeps /\ TroubleType' /\ UNCHANGED <<alias, prepared, plain>>
  BY <1>1, QuietStep
<1>3. CASE Spent(k)
  BY <1>1, <1>2, <1>3, GoesStep DEF Outcomes, JobPCs, Probe, GivenUp, Between
<1>4. CASE ~ Spent(k) /\ Names(k)
  <2>1. Looked(k, "fix", FALSE) /\ job[k].needs # <<>>
    BY <1>4 DEF Probe, Names
  <2> QED
    BY <1>1, <1>2, <1>4, <2>1, LookedStep
<1>5. CASE ~ Spent(k) /\ ~ Names(k)
  <2>1. Looked(k, "commit", job[k].needs # <<>>) /\ (job[k].needs # <<>>) \in BOOLEAN
    BY <1>5 DEF Probe
  <2> QED
    BY <1>1, <1>2, <1>5, <2>1, LookedStep
<1> QED
  BY <1>3, <1>4, <1>5

\* An install, or another architecture's enabling, is followed by another look.
LEMMA InstallStep ==
  ASSUME Types, ImageInv, NEW k \in Keys, Install(k) \/ EnableArch(k)
  PROVE  Types' /\ ImageInv'
<1>1. /\ job[k].pc = "fix" /\ job[k] \in Jobs /\ JobOK(k, job[k])
      /\ UNCHANGED <<fixed, daemon_vars, pull, at, trouble>>
  BY DEF Install, EnableArch, Types, ImageInv
<1>2. DaemonKeeps /\ TroubleType' /\ UNCHANGED <<alias, prepared, plain>>
  BY <1>1, QuietStep
<1>3. /\ job[k].needs \in Seq(STRING) /\ job[k].needs # <<>>
      /\ Tail(job[k].needs) \in Seq(STRING) /\ Head(job[k].needs) \in STRING
  <2>1. job[k].needs \in Seq(STRING) /\ job[k].needs # <<>>
    BY <1>1 DEF Jobs, JobOK
  <2> QED
    BY <2>1, HeadTailProperties
<1>4. CASE Goes(k, "mount")
  BY <1>1, <1>2, <1>4, GoesStep DEF Outcomes, JobPCs, Between
<1>5. CASE job' = [job EXCEPT ![k].pc = "probe",
                             ![k].attempted = @ \cup {Missing(k)},
                             ![k].refreshed = TRUE, ![k].lists = FALSE,
                             ![k].needs = IF Fits(k) THEN Tail(@) ELSE @]
  <2> DEFINE tried == job[k].attempted \cup {Missing(k)}
             needs == IF Fits(k) THEN Tail(job[k].needs) ELSE job[k].needs
  <2>1. tried \in SUBSET Things /\ needs \in Seq(STRING)
    BY <1>1, <1>3 DEF Missing, Jobs, Things
  <2>2. PICK j \in Jobs : j = [job[k] EXCEPT !.pc = "probe", !.attempted = tried,
                                 !.refreshed = TRUE, !.lists = FALSE, !.needs = needs]
    <3> HIDE DEF tried, needs
    <3> QED
      BY <1>1, <2>1 DEF Jobs, JobPCs
  <2>3. /\ job' = [job EXCEPT ![k] = j] /\ j.pc = "probe"
        /\ j.digest = job[k].digest /\ j.base = job[k].base /\ j.moved = job[k].moved
    BY <1>1, <1>5, <2>2 DEF Types, Jobs
  <2>4. job'[k] = j
    BY <2>3 DEF Types
  <2>5. JobOK(k, job[k])'
    BY <1>1, <2>3, <2>4 DEF JobOK, IsFor, Shows, fixed, Outcomes, Between
  <2> QED
    BY <1>1, <1>2, <2>3, <2>5, JobStep, NotOver
<1>6. CASE job' = [job EXCEPT ![k].pc = "probe",
                             ![k].attempted = @ \cup {Interpreter},
                             ![k].foreign = TRUE, ![k].lists = FALSE,
                             ![k].needs = Tail(@)]
  <2> DEFINE tried == job[k].attempted \cup {Interpreter}
             needs == Tail(job[k].needs)
  <2>1. tried \in SUBSET Things /\ needs \in Seq(STRING)
    BY <1>1, <1>3 DEF Jobs, Things
  <2>2. PICK j \in Jobs : j = [job[k] EXCEPT !.pc = "probe", !.attempted = tried,
                                 !.foreign = TRUE, !.lists = FALSE, !.needs = needs]
    <3> HIDE DEF tried, needs
    <3> QED
      BY <1>1, <2>1 DEF Jobs, JobPCs
  <2>3. /\ job' = [job EXCEPT ![k] = j] /\ j.pc = "probe"
        /\ j.digest = job[k].digest /\ j.base = job[k].base /\ j.moved = job[k].moved
    BY <1>1, <1>6, <2>2 DEF Types, Jobs
  <2>4. job'[k] = j
    BY <2>3 DEF Types
  <2>5. JobOK(k, job[k])'
    BY <1>1, <2>3, <2>4 DEF JobOK, IsFor, Shows, fixed, Outcomes, Between
  <2> QED
    BY <1>1, <1>2, <2>3, <2>5, JobStep, NotOver
<1> QED
  BY <1>4, <1>5, <1>6 DEF Install, EnableArch, GivenUp

LEMMA CommitStep ==
  ASSUME Types, ImageInv, NEW k \in Keys, Commit(k)
  PROVE  Types' /\ ImageInv'
<1>1. /\ job[k].pc = "commit" /\ job[k] \in Jobs /\ JobOK(k, job[k])
      /\ UNCHANGED <<fixed, newest, plain, alias, blobs, overtaken, pull, at, trouble>>
      /\ Goes(k, "prepared")
  BY DEF Commit, Types, ImageInv
<1>2. /\ IsFor(job[k].base, k.platform) /\ (~ job[k].moved => job[k].base = job[k].digest)
      /\ job[k].base \in Contents /\ job[k].digest \in Contents
      /\ ~ job[k].blind => job[k].needs = <<>>
  BY <1>1 DEF JobOK, IsFor, Jobs, Outcomes
<1>3. TagOfJob(k) \in Tags /\ k.platform \in Platforms /\ k.version \in Versions
  BY <1>2, KeyFacts DEF TagOfJob
<1>4. PICK image \in Prepared :
        /\ image = [base |-> job[k].base, platform |-> k.platform, version |-> k.version,
                    needs |-> job[k].needs, old |-> FALSE, moved |-> job[k].moved,
                    blind |-> job[k].blind]
        /\ prepared' = [prepared EXCEPT ![TagOfJob(k)] = image]
  BY <1>1, <1>2, <1>3 DEF Commit, Prepared, Jobs
<1>5. /\ ~ image.blind => image.needs = <<>>
      /\ ~ image.moved => image.base = TagOfJob(k).digest
      /\ image.version = TagOfJob(k).version
      /\ image.platform = TagOfJob(k).arch /\ ~ image.old
      /\ image.base.shows = Shows(TagOfJob(k).arch)
  BY <1>2, <1>4 DEF TagOfJob, TagOf, IsFor
<1>6. DaemonKeeps /\ prepared'[TagOfJob(k)] = image /\ image # None /\ TroubleType'
  BY <1>1, <1>3, <1>4, <1>5, DaemonCommits, SameTrouble
<1>7. PICK j \in Jobs : /\ job' = [job EXCEPT ![k] = j]
                        /\ j.pc = "prepared" /\ j.digest = job[k].digest
  BY <1>1, GoesFacts DEF JobPCs, Outcomes
<1>8. job'[k] = j
  BY <1>7 DEF Types
<1>9. JobOK(k, job[k])'
  BY <1>1, <1>2, <1>5, <1>6, <1>7, <1>8, ConstantFacts
  DEF JobOK, fixed, Outcomes, TagOfJob, Between
<1> QED
  BY <1>1, <1>6, <1>7, <1>9, JobStep, NotOver

LEMMA PrepareStep ==
  ASSUME Types, ImageInv, NEW k \in Keys, Prepare(k)
  PROVE  Types' /\ ImageInv'
<1> QED
  BY ReadDigestStep, LookForPreparedStep, StartBuildStep, RepullStep, LookUpAgainStep, RetagStep,
     CopyStep, ProbeStep, InstallStep, CommitStep DEF Prepare

-----------------------------------------------------------------------------
(* The pulls and the transports.                                           *)

LEMMA SameJobs ==
  ASSUME Types, UNCHANGED <<job, alias>>
  PROVE  job' = [q \in Keys |-> job'[q]] /\ \A q \in Keys : Kept(q)
<1>1. \A q \in Keys : Kept(q)
  BY SameKept
<1> QED
  BY <1>1 DEF Types

LEMMA PullGoesStep ==
  ASSUME Types, ImageInv, NEW k \in PullKeys, NEW pc \in PullPCs, NEW got \in Contents \cup {None},
         PullGoes(k, pc, got), pull[k].pc \notin {"done", "failed"},
         pc \in {"look", "tag"} => IsFor(got, k[2]), (pc = "look" => plain' # None),
         pc = "tag" => Inspects(got), (pc = "done" => alias'[k[2]] # None),
         DaemonKeeps, UNCHANGED <<fixed, job, alias, at>>, TroubleType'
  PROVE  Types' /\ ImageInv'
<1>1. PICK p \in Pulls : p.pc = pc /\ p.got = got /\ pull' = [pull EXCEPT ![k] = p]
  BY DEF PullGoes, Pulls
<1>2. pull'[k] = p
  BY <1>1 DEF Types
<1>3. PullOK(k, pull[k])'
  BY <1>1, <1>2 DEF PullOK, IsFor, Inspects, Shows, fixed
<1>4. job' = [q \in Keys |-> job'[q]] /\ \A q \in Keys : Kept(q)
  BY SameJobs
<1> QED
  BY <1>1, <1>3, <1>4, PullStep

LEMMA LookForAliasStep ==
  ASSUME Types, ImageInv, NEW k \in PullKeys, LookForAlias(k)
  PROVE  Types' /\ ImageInv'
<1> DEFINE pc == IF alias[k[2]] # None /\ alias[k[2]].shows \in {k[2], Native}
                 THEN "done" ELSE "plain"
<1>1. /\ pull[k].pc = "alias" /\ PullGoes(k, pc, None)
      /\ UNCHANGED <<fixed, daemon_vars, job, at, trouble>>
  BY DEF LookForAlias
<1>2. DaemonKeeps /\ TroubleType' /\ UNCHANGED <<alias, prepared, plain>>
  BY <1>1, QuietStep
<1>3. pc \in {"done", "plain"} /\ (pc = "done" => alias[k[2]] # None)
  OBVIOUS
<1> HIDE DEF pc
<1>4. CASE pc = "done"
  BY <1>1, <1>2, <1>3, <1>4, PullGoesStep DEF PullPCs
<1>5. CASE pc = "plain"
  BY <1>1, <1>2, <1>3, <1>5, PullGoesStep DEF PullPCs
<1> QED
  BY <1>3, <1>4, <1>5

LEMMA LookForPlainStep ==
  ASSUME Types, ImageInv, NEW k \in PullKeys, LookForPlain(k)
  PROVE  Types' /\ ImageInv'
<1>1. pull[k].pc = "plain" /\ UNCHANGED <<fixed, daemon_vars, job, at, trouble>>
  BY DEF LookForPlain
<1>2. DaemonKeeps /\ TroubleType' /\ UNCHANGED <<alias, prepared, plain>>
  BY <1>1, QuietStep
<1>3. CASE plain # None /\ plain.shows = k[2] /\ PullGoes(k, "tag", plain)
  <2>1. plain \in Contents /\ IsFor(plain, k[2]) /\ Inspects(plain)
    BY <1>3 DEF Types, DaemonTypes, ImageInv, DaemonInv, IsFor, Inspects, Shows
  <2> QED
    BY <1>1, <1>2, <1>3, <2>1, PullGoesStep DEF PullPCs
<1>4. CASE PullGoes(k, "pull", None)
  BY <1>1, <1>2, <1>4, PullGoesStep DEF PullPCs
<1> QED
  BY <1>3, <1>4 DEF LookForPlain

LEMMA PullsStep ==
  ASSUME Types, ImageInv, NEW k \in PullKeys, Pull(k)
  PROVE  Types' /\ ImageInv'
<1>1. /\ pull[k].pc = "pull" /\ k[2] \in Platforms
      /\ UNCHANGED <<fixed, newest, alias, prepared, overtaken, job, at, trouble>>
  BY KeyFacts DEF Pull
<1>2. TroubleType'
  BY <1>1, SameTrouble
<1>3. CASE Fetch(k[2]) /\ PullGoes(k, "look", Content(newest, k[2]))
  <2>1. /\ DaemonKeeps /\ Content(newest, k[2]) \in Contents
        /\ IsFor(Content(newest, k[2]), k[2]) /\ plain' # None
    BY <1>1, <1>3, DaemonFetches
  <2> QED
    BY <1>1, <1>2, <1>3, <2>1, PullGoesStep DEF PullPCs
<1>4. CASE PullGoes(k, "failed", None) /\ UNCHANGED <<plain, blobs>>
  <2>1. DaemonKeeps
    BY <1>1, <1>4, DaemonUnchanged DEF daemon_vars
  <2> QED
    BY <1>1, <1>2, <1>4, <2>1, PullGoesStep DEF PullPCs
<1> QED
  BY <1>3, <1>4 DEF Pull

LEMMA LookUpStep ==
  ASSUME Types, ImageInv, NEW k \in PullKeys, LookUp(k)
  PROVE  Types' /\ ImageInv'
<1>1. /\ pull[k].pc = "look" /\ PullOK(k, pull[k]) /\ pull[k] \in Pulls
      /\ UNCHANGED <<fixed, daemon_vars, job, at, trouble>>
      /\ pull' = [pull EXCEPT ![k] = [pc |-> "tag", got |-> plain,
                                     crossed |-> plain # pull[k].got]]
  BY DEF LookUp, ImageInv, Types
<1>2. DaemonKeeps /\ TroubleType' /\ UNCHANGED <<alias, prepared, plain>>
  BY <1>1, QuietStep
<1>3. plain \in Contents /\ Inspects(plain) /\ IsFor(pull[k].got, k[2])
  BY <1>1 DEF PullOK, Types, DaemonTypes, ImageInv, DaemonInv
<1> DEFINE other == plain # pull[k].got
<1>4. other \in BOOLEAN
  OBVIOUS
<1> DEFINE p == [pc |-> "tag", got |-> plain, crossed |-> other]
<1>5. p \in Pulls /\ p.pc = "tag" /\ p.got = plain /\ p.crossed = other
  <2> HIDE DEF other
  <2> QED
    BY <1>3, <1>4 DEF Pulls, PullPCs
<1>6. pull' = [pull EXCEPT ![k] = p]
  BY <1>1
<1> HIDE DEF p
<1>7. pull'[k] = p
  BY <1>6 DEF Types
<1>8. PullOK(k, pull[k])'
  BY <1>1, <1>3, <1>5, <1>7 DEF PullOK, IsFor, Inspects, Shows, fixed
<1>9. job' = [q \in Keys |-> job'[q]] /\ \A q \in Keys : Kept(q)
  BY <1>1, <1>2, SameJobs
<1> QED
  BY <1>1, <1>2, <1>5, <1>6, <1>8, <1>9, PullStep

LEMMA TagStep ==
  ASSUME Types, ImageInv, NEW k \in PullKeys, Tag(k)
  PROVE  Types' /\ ImageInv'
<1>1. /\ pull[k].pc = "tag" /\ k[2] \in Platforms /\ PullOK(k, pull[k]) /\ pull[k] \in Pulls
      /\ PullGoes(k, "done", None) /\ Realias(k[2], pull[k].got, pull[k].crossed)
      /\ UNCHANGED <<fixed, newest, plain, blobs, prepared, at, trouble>>
      /\ job' = [j \in Keys |-> [job[j] EXCEPT !.moved = Moved(j, k[2])]]
  BY KeyFacts DEF Tag, Tagged, ImageInv, Types
<1>2. /\ Inspects(pull[k].got) /\ pull[k].got \in Contents /\ pull[k].crossed \in BOOLEAN
      /\ ~ pull[k].crossed => IsFor(pull[k].got, k[2])
  BY <1>1 DEF PullOK, Inspects, Pulls
<1>3. DaemonKeeps /\ TroubleType' /\ alias'[k[2]] # None
  BY <1>1, <1>2, DaemonTags, SameTrouble
<1>4. job' = [q \in Keys |-> job'[q]] /\ \A q \in Keys : Kept(q)
  BY <1>1, RealiasKept
<1>5. PICK p \in Pulls : p.pc = "done" /\ pull' = [pull EXCEPT ![k] = p]
  BY <1>1 DEF PullGoes, Pulls, PullPCs
<1>6. pull'[k] = p
  BY <1>5 DEF Types
<1>7. PullOK(k, pull[k])'
  BY <1>3, <1>5, <1>6 DEF PullOK
<1> QED
  BY <1>1, <1>3, <1>4, <1>5, <1>7, PullStep

\* A transport goes on as far as what it waits for has come.
LEMMA AtStep ==
  ASSUME Types, ImageInv, NEW t \in Transports,
         NEW where \in Outcomes \cup {"new", "pulling", "preparing", "no image"},
         at' = [at EXCEPT ![t] = where], AtInv(t)', UNCHANGED <<fixed, daemon_vars, trouble>>,
         UNCHANGED <<pull, job>>
  PROVE  Types' /\ ImageInv'
<1>1. DaemonKeeps /\ TroubleType'
  BY DaemonUnchanged, SameTrouble
<1>2. /\ \A k \in PullKeys : PullOK(k, pull[k])'
      /\ \A k \in Keys : JobOK(k, job[k])'
  BY DEF ImageInv, PullOK, JobOK, IsFor, Inspects, Shows, fixed, daemon_vars
<1>3. \A u \in Transports : u # t => AtInv(u)'
  BY DEF Types, ImageInv, AtInv, KeyOf
<1> QED
  BY <1>1, <1>2, <1>3 DEF Types, ImageInv, DaemonKeeps, fixed

LEMMA AskPullStep ==
  ASSUME Types, ImageInv, NEW t \in Transports, AskPull(t)
  PROVE  Types' /\ ImageInv'
<1> DEFINE k == <<Client[t], Platform[t]>>
<1>1. /\ k \in PullKeys /\ at[t] = "new" /\ at' = [at EXCEPT ![t] = "pulling"]
      /\ UNCHANGED <<fixed, daemon_vars, job, trouble>>
      /\ IF pull[k].pc = "none" THEN PullGoes(k, "alias", None) ELSE UNCHANGED pull
  BY KeyFacts DEF AskPull, Unasked
<1> HIDE DEF k
<1>2. AtInv(t)'
  BY <1>1 DEF AtInv, Types, Outcomes
<1>3. CASE UNCHANGED pull
  BY <1>1, <1>2, <1>3, AtStep
<1>4. CASE pull[k].pc = "none" /\ PullGoes(k, "alias", None)
  <2>1. PICK p \in Pulls : p.pc = "alias" /\ p.got = None /\ pull' = [pull EXCEPT ![k] = p]
    BY <1>4 DEF PullGoes, Pulls, PullPCs
  <2>2. /\ pull' \in [PullKeys -> Pulls] /\ pull'[k] = p
        /\ \A q \in PullKeys : q # k => pull'[q] = pull[q]
    BY <1>1, <2>1 DEF Types
  <2>3. DaemonKeeps /\ TroubleType'
    BY <1>1, DaemonUnchanged, SameTrouble
  <2>4. Types'
    BY <1>1, <2>2, <2>3 DEF Types, DaemonKeeps, fixed
  <2>5. \A q \in PullKeys : PullOK(q, pull[q])'
    BY <1>1, <2>1, <2>2 DEF ImageInv, PullOK, IsFor, Inspects, Shows, fixed, daemon_vars
  <2>6. ASSUME NEW q \in Keys PROVE JobOK(q, job[q])'
    <3>1. JobOK(q, job[q]) /\ PullOf(q) \in PullKeys
      BY KeyFacts DEF ImageInv
    <3>2. job[q].pc # "none" => pull'[PullOf(q)].pc = "done"
      BY <1>4, <2>2, <3>1 DEF JobOK
    <3> QED
      BY <1>1, <3>1, <3>2 DEF JobOK, IsFor, Inspects, Shows, fixed, daemon_vars, PullOf
  <2>7. ASSUME NEW u \in Transports, u # t PROVE AtInv(u)'
    <3>1. <<Client[u], Platform[u]>> \in PullKeys /\ AtInv(u) /\ at'[u] = at[u] /\ job' = job
      BY <1>1, <2>7, KeyFacts DEF ImageInv, Types
    <3> QED
      BY <1>4, <2>2, <3>1 DEF AtInv, KeyOf
  <2> QED
    BY <1>2, <2>3, <2>4, <2>5, <2>6, <2>7 DEF ImageInv, DaemonKeeps
<1> QED
  BY <1>1, <1>3, <1>4

LEMMA AskPreparedStep ==
  ASSUME Types, ImageInv, NEW t \in Transports, AskPrepared(t)
  PROVE  Types' /\ ImageInv'
<1>1. /\ pull[<<Client[t], Platform[t]>>].pc = "done"
      /\ at[t] = "pulling" /\ at' = [at EXCEPT ![t] = "preparing"]
      /\ UNCHANGED <<fixed, daemon_vars, pull, trouble>>
      /\ job' = IF job[KeyOf(t)].pc = "none"
                THEN [job EXCEPT ![KeyOf(t)] = [Unbuilt EXCEPT !.pc = "digest"]] ELSE job
  BY DEF AskPrepared, Unasked
<1>2. AtInv(t)'
  BY <1>1 DEF AtInv, Types, Outcomes
<1>3. CASE UNCHANGED job
  BY <1>1, <1>2, <1>3, AtStep
<1>4. CASE /\ job[KeyOf(t)].pc = "none"
           /\ job' = [job EXCEPT ![KeyOf(t)] = [Unbuilt EXCEPT !.pc = "digest"]]
  <2>1. PICK j \in Jobs : j.pc = "digest" /\ job' = [job EXCEPT ![KeyOf(t)] = j]
    BY <1>4, UnbuiltType DEF Jobs, JobPCs, Unbuilt
  <2>2. /\ job' \in [Keys -> Jobs] /\ job'[KeyOf(t)] = j /\ KeyOf(t) \in Keys
        /\ PullOf(KeyOf(t)) = <<Client[t], Platform[t]>>
        /\ \A q \in Keys : q # KeyOf(t) => job'[q] = job[q]
    BY <2>1, KeyFacts DEF Types
  <2>3. DaemonKeeps /\ TroubleType'
    BY <1>1, DaemonUnchanged, SameTrouble
  <2>4. Types'
    BY <1>1, <2>2, <2>3 DEF Types, DaemonKeeps, fixed
  <2>5. \A q \in PullKeys : PullOK(q, pull[q])'
    BY <1>1 DEF ImageInv, PullOK, IsFor, Inspects, Shows, fixed, daemon_vars
  <2>6. ASSUME NEW q \in Keys PROVE JobOK(q, job[q])'
    <3>1. CASE q = KeyOf(t)
      BY <1>1, <2>1, <2>2, <3>1 DEF JobOK, Outcomes, Between
    <3>2. CASE q # KeyOf(t)
      BY <1>1, <2>2, <3>2 DEF ImageInv, JobOK, IsFor, Inspects, Shows, fixed, daemon_vars
    <3> QED
      BY <3>1, <3>2
  <2>7. ASSUME NEW u \in Transports, u # t PROVE AtInv(u)'
    <3>1. KeyOf(u) \in Keys /\ AtInv(u) /\ at'[u] = at[u] /\ pull' = pull
      BY <1>1, <2>7, KeyFacts DEF ImageInv, Types
    <3>2. at[u] \in Outcomes => job'[KeyOf(u)].pc = at[u]
      BY <1>4, <2>2, <3>1 DEF AtInv, Outcomes
    <3> QED
      BY <3>1, <3>2 DEF AtInv, KeyOf
  <2> QED
    BY <1>2, <2>3, <2>4, <2>5, <2>6, <2>7 DEF ImageInv, DaemonKeeps
<1> QED
  BY <1>1, <1>3, <1>4

LEMMA EndStep ==
  ASSUME Types, ImageInv, NEW t \in Transports, NoImage(t) \/ Handed(t)
  PROVE  Types' /\ ImageInv'
<1>1. AtInv(t) /\ at[t] \in {"pulling", "preparing"}
      /\ UNCHANGED <<fixed, daemon_vars, pull, job, trouble>>
  BY DEF ImageInv, NoImage, Handed
<1>2. CASE NoImage(t)
  <2>1. AtInv(t)'
    BY <1>1, <1>2 DEF NoImage, AtInv, Types, Outcomes
  <2> QED
    BY <1>1, <1>2, <2>1, AtStep DEF NoImage
<1>3. CASE Handed(t)
  <2>1. AtInv(t)'
    BY <1>1, <1>3 DEF Handed, AtInv, Types, Outcomes, KeyOf
  <2> QED
    BY <1>1, <1>3, <2>1, AtStep DEF Handed
<1> QED
  BY <1>2, <1>3

-----------------------------------------------------------------------------
(* What happens outside.                                                   *)

LEMMA HappensType ==
  ASSUME Types, NEW what \in {"failure", "others"}, Happens(what)
  PROVE  TroubleType'
<1>1. /\ trouble \in [failure : Nat, others : Nat] /\ MaxTrouble \in Nat
      /\ trouble.failure + trouble.others < MaxTrouble
      /\ trouble' = [trouble EXCEPT ![what] = @ + 1]
  BY ImageAssumption DEF Types, TroubleType, Happens
<1>2. CASE what = "failure"
  BY <1>1, <1>2 DEF TroubleType
<1>3. CASE what = "others"
  BY <1>1, <1>3 DEF TroubleType
<1> QED
  BY <1>2, <1>3

LEMMA FailureStep ==
  ASSUME Types, ImageInv, CallFails \/ CommandFails \/ ProbeFails
  PROVE  Types' /\ ImageInv'
<1>1. TroubleType' /\ UNCHANGED <<fixed, daemon_vars, at>>
  BY HappensType DEF CallFails, CommandFails, ProbeFails
<1>2. DaemonKeeps /\ UNCHANGED <<alias, prepared>>
  BY <1>1, DaemonUnchanged DEF daemon_vars
<1>3. ASSUME NEW k \in PullKeys, pull[k].pc \in {"alias", "plain", "pull", "look", "tag"},
             PullGoes(k, "failed", None), UNCHANGED job
      PROVE  Types' /\ ImageInv'
  BY <1>1, <1>2, <1>3, PullGoesStep DEF PullPCs
<1>4. ASSUME NEW k \in Keys, job[k].pc \notin Outcomes \cup {"none"},
             Goes(k, "failed"), UNCHANGED pull
      PROVE  Types' /\ ImageInv'
  BY <1>1, <1>2, <1>4, GoesStep DEF JobPCs, Outcomes, Between
<1>5. ASSUME NEW k \in Keys, job[k].pc \in {"copy", "fix"}, Goes(k, "mount"), UNCHANGED pull
      PROVE  Types' /\ ImageInv'
  BY <1>1, <1>2, <1>5, GoesStep DEF JobPCs, Outcomes, Between
<1>6. ASSUME NEW k \in Keys, job[k].pc = "probe", ~ Spent(k), Looked(k, "commit", TRUE),
             UNCHANGED pull
      PROVE  Types' /\ ImageInv'
  BY <1>1, <1>2, <1>6, LookedStep
<1> QED
  BY <1>3, <1>4, <1>5, <1>6 DEF CallFails, CommandFails, ProbeFails

\* A step of the daemon alone.
LEMMA DaemonStep ==
  ASSUME Types, ImageInv, DaemonKeeps, UNCHANGED <<fixed, alias, pull, job, at>>, TroubleType'
  PROVE  Types' /\ ImageInv'
<1>1. \A k \in PullKeys : PullOK(k, pull[k])'
  BY KeyFacts DEF ImageInv, PullOK, IsFor, Inspects, Shows, fixed, DaemonKeeps
<1>2. ASSUME NEW q \in Keys PROVE JobOK(q, job[q])'
  <2>1. Kept(q) /\ (job[q].pc # "none" => pull'[PullOf(q)].pc = "done")
    BY SameKept DEF ImageInv, JobOK
  <2> QED
    BY <2>1, KeptOK
<1>3. \A t \in Transports : AtInv(t)'
  BY DEF ImageInv, AtInv, KeyOf
<1> QED
  BY <1>1, <1>2, <1>3 DEF Types, ImageInv, DaemonKeeps, fixed

LEMMA OthersStep ==
  ASSUME Types, ImageInv, Publish \/ UserPulls \/ Lose
  PROVE  Types' /\ ImageInv'
<1>1. UNCHANGED <<fixed, alias, pull, job, at>>
  BY DEF Publish, UserPulls, Lose
<1>2. CASE UserPulls
  BY <1>1, <1>2, DaemonFetches, HappensType, DaemonStep DEF UserPulls
<1>3. CASE Publish
  <2>1. /\ newest' \in 0 .. MaxGen
        /\ UNCHANGED <<fixed, plain, alias, blobs, prepared, overtaken, trouble>>
    BY <1>3, ConstantFacts DEF Publish
  <2>2. DaemonKeeps
    BY <2>1 DEF Types, ImageInv, DaemonTypes, DaemonInv, DaemonKeeps, AliasIsItsPlatform,
                TagInv, Inspects, Shows, fixed
  <2> QED
    BY <1>1, <2>1, <2>2, SameTrouble, DaemonStep
<1>4. CASE Lose
  <2>1. /\ blobs' \subseteq blobs
        /\ UNCHANGED <<fixed, newest, plain, alias, prepared, overtaken>>
    BY <1>4 DEF Lose
  <2>2. DaemonKeeps
    BY <2>1 DEF Types, ImageInv, DaemonTypes, DaemonInv, DaemonKeeps, AliasIsItsPlatform,
                TagInv, Inspects, Shows, fixed
  <2>3. TroubleType'
    BY <1>4, HappensType DEF Lose
  <2> QED
    BY <1>1, <2>2, <2>3, DaemonStep
<1> QED
  BY <1>2, <1>3, <1>4

LEMMA NextStep == ASSUME Types, ImageInv, [Next]_vars PROVE Types' /\ ImageInv'
<1>1. CASE Work
  BY <1>1, PrepareStep, LookForAliasStep, LookForPlainStep, PullsStep, LookUpStep, TagStep,
     AskPullStep, AskPreparedStep, EndStep DEF Work
<1>2. CASE Outside
  BY <1>2, FailureStep, OthersStep DEF Outside
<1>3. CASE UNCHANGED vars
  BY <1>3, QuietStep, DaemonStep DEF vars
<1> QED
  BY <1>1, <1>2, <1>3 DEF Next

LEMMA InitInv == Init => Types /\ ImageInv
<1> SUFFICES ASSUME Init PROVE Types /\ ImageInv
  OBVIOUS
<1>1. /\ kind \in Images /\ indexed \in BOOLEAN /\ newest \in {0, 1}
      /\ pull = [k \in PullKeys |-> [pc |-> "none", got |-> None, crossed |-> FALSE]]
      /\ job = [k \in Keys |-> Unbuilt]
      /\ at = [t \in Transports |-> "new"]
      /\ trouble = [failure |-> 0, others |-> 0] /\ overtaken = {}
  BY DEF Init
<1>2. \A p \in Platforms : Content(1, p) \in Contents /\ IsFor(Content(1, p), p)
  BY <1>1, ConstantFacts DEF Content, Shows, Contents, IsFor
<1>3. /\ plain \in {None, Content(1, Native)}
      /\ blobs \in {{}, {<<1, Native>>}, {1} \X Platforms}
      /\ alias \in [Platforms -> Contents \cup {None}]
      /\ \A p \in Platforms : alias[p] \in {None, Content(1, p)}
  BY <1>2 DEF Init
<1>4. blobs \subseteq (1 .. MaxGen) \X Platforms
  BY <1>3, ConstantFacts
<1>5. /\ prepared \in [Tags -> Prepared \cup {None}]
      /\ \A tag \in Tags : TagInv(tag)
  <2>1. PICK before \in {"new", "native", "served"} :
          prepared = [tag \in Tags |->
            IF before = "served" /\ tag.digest = Content(1, tag.arch)
                 /\ kind.needs = <<>>
            THEN [base |-> tag.digest, platform |-> tag.arch,
                  version |-> tag.version, needs |-> <<>>, old |-> TRUE,
                  moved |-> FALSE, blind |-> FALSE]
            ELSE None]
    BY DEF Init
  <2>2. <<>> \in Seq(STRING)
    OBVIOUS
  <2>3. \A tag \in Tags : /\ tag.digest \in Contents /\ tag.version \in Versions
                          /\ tag.arch \in Platforms
    BY DEF Tags
  <2>4. \A tag \in Tags :
          [base |-> tag.digest, platform |-> tag.arch, version |-> tag.version,
           needs |-> <<>>, old |-> TRUE, moved |-> FALSE, blind |-> FALSE] \in Prepared
    BY <2>2, <2>3 DEF Prepared
  <2>5. prepared \in [Tags -> Prepared \cup {None}]
    BY <2>1, <2>4
  <2>6. ASSUME NEW tag \in Tags, prepared[tag] # None PROVE TagInv(tag)
    <3>1. /\ prepared[tag] = [base |-> tag.digest, platform |-> tag.arch,
                              version |-> tag.version, needs |-> <<>>, old |-> TRUE,
                              moved |-> FALSE, blind |-> FALSE]
          /\ tag.digest = Content(1, tag.arch)
      BY <2>1, <2>6
    <3> QED
      BY <3>1 DEF TagInv, Content
  <2> QED
    BY <2>5, <2>6 DEF TagInv
<1>6. Types
  <2>1. TroubleType
    BY <1>1, ImageAssumption DEF TroubleType
  <2>2. DaemonTypes
    BY <1>1, <1>2, <1>3, <1>4, <1>5, ConstantFacts DEF DaemonTypes
  <2>3. pull \in [PullKeys -> Pulls]
    BY <1>1 DEF Pulls, PullPCs
  <2> QED
    BY <1>1, <2>1, <2>2, <2>3, UnbuiltType DEF Types
<1>7. DaemonInv
  BY <1>2, <1>3, <1>5, ConstantFacts DEF DaemonInv, AliasIsItsPlatform, IsFor, Inspects, Shows
<1>8. /\ \A k \in PullKeys : PullOK(k, pull[k])
      /\ \A k \in Keys : JobOK(k, job[k])
      /\ \A t \in Transports : AtInv(t)
  BY <1>1 DEF PullOK, JobOK, AtInv, Unbuilt, Outcomes, Between
<1> QED
  BY <1>6, <1>7, <1>8 DEF ImageInv

LEMMA SpecInv == Spec => [](Types /\ ImageInv)
<1>1. Types /\ ImageInv /\ [Next]_vars => (Types /\ ImageInv)'
  BY NextStep
<1> QED
  BY <1>1, InitInv, PTL DEF Spec

\* Every alias, pull, task and prepared image is one of those there are, and a
\* build looks no more than Fixes times, whatever fails meanwhile.
THEOREM TypeCorrect == Spec => []TypeOK
<1>1. Types => TypeOK
  BY DEF Types, DaemonTypes, TroubleType, TypeOK, Pulls, Jobs
<1> QED
  BY <1>1, SpecInv, PTL

\* However many runs pull the one name, for whatever platforms, while it is
\* published anew: a platform's alias is an image of another only where the name was
\* repointed between a pull and the SDK's second look, until the alias is made anew.
THEOREM AliasesArePlatforms == Spec => []AliasIsItsPlatform
<1>1. ImageInv => AliasIsItsPlatform
  BY DEF ImageInv, DaemonInv
<1> QED
  BY <1>1, SpecInv, PTL

LEMMA HandedOwn == ASSUME Types, ImageInv PROVE HandedItsOwn
<1>1. NothingBrokenCached /\ TagNamesItsBase
  BY DEF ImageInv, DaemonInv, TagInv, NothingBrokenCached, TagNamesItsBase
<1>2. ASSUME NEW t \in Transports, at[t] = "prepared"
      PROVE  LET image == Running(t)
             IN  /\ image # None /\ image.version = Version[t] /\ image.platform = Platform[t]
                 /\ image.base.shows = Shows(Platform[t])
                 /\ Client[t] \in Rebuilding => ~ image.old
  <2>1. KeyOf(t) \in Keys /\ job[KeyOf(t)].pc = "prepared" /\ JobOK(KeyOf(t), job[KeyOf(t)])
        /\ job[KeyOf(t)] \in Jobs
    BY <1>2, KeyFacts DEF ImageInv, AtInv, Outcomes, Types
  <2>2. /\ KeyOf(t).client = Client[t] /\ KeyOf(t).version = Version[t]
        /\ KeyOf(t).platform = Platform[t]
        /\ Version[t] \in Versions /\ Platform[t] \in Platforms
    BY ConstantFacts DEF KeyOf
  <2>3. job[KeyOf(t)].digest \in Contents
    BY <2>1 DEF JobOK, Jobs
  <2> DEFINE tag == TagOf(job[KeyOf(t)].digest, Version[t], Platform[t])
  <2>4. /\ tag \in Tags /\ tag.version = Version[t] /\ tag.arch = Platform[t]
        /\ Running(t) = prepared[tag]
    BY <2>2, <2>3, KeyFacts DEF TagOf, Running
  <2>5. prepared[tag] # None /\ (Client[t] \in Rebuilding => ~ prepared[tag].old)
    BY <2>1, <2>2 DEF JobOK
  <2> HIDE DEF tag
  <2>6. TagInv(tag)
    BY <2>4 DEF ImageInv, DaemonInv
  <2> QED
    BY <2>4, <2>5, <2>6 DEF TagInv
<1>3. SharersAgree
  BY DEF SharersAgree, ImageInv, AtInv, Types
<1> QED
  BY <1>1, <1>2, <1>3 DEF HandedItsOwn, OwnBuild, RebuiltAfresh

\* Whatever runs share the daemon and whatever fails: an image a transport is
\* handed is its own version of qna on a base for its own platform, stolen aliases
\* included, and afresh when it was asked to be; it stands on the content its tag
\* names unless the alias was moved under the build, and lacks nothing unless a look
\* failed and named nothing; and transports that share a failed pull are all told so.
THEOREM EachIsHandedItsOwn == Spec => []HandedItsOwn
<1> QED
  BY HandedOwn, SpecInv, PTL

-----------------------------------------------------------------------------
(* MendedWhenItCan.                                                        *)

\* A build that has not looked yet, and one that has made good the first n
\* things the image lacked.
Early == {"none", "digest", "exists", "start", "again", "repull", "relook", "retag", "copy"}
Fresh(j) == j.attempted = {} /\ ~ j.refreshed /\ j.tries = 0
Progress(j, n) ==
  /\ Len(j.needs) = Len(kind.needs) - n
  /\ \A i \in 1 .. Len(j.needs) : j.needs[i] = kind.needs[i + n]
  /\ \A x \in j.attempted : \E i \in 1 .. n : x = kind.needs[i]
  /\ j.refreshed => \E i \in 1 .. n : kind.needs[i] # Interpreter
  /\ kind.foreign /\ n >= 1 => j.foreign

MendOK(j) ==
  /\ j.pc # "mount"
  /\ j.pc \in Early => Fresh(j)
  /\ j.pc = "copy" => j.needs = kind.needs
  /\ j.pc \in {"probe", "fix"} =>
       \E n \in 0 .. Len(kind.needs) :
         Progress(j, n) /\ j.tries = IF j.pc = "probe" THEN n ELSE n + 1

MendInv ==
  Mendable /\ trouble.failure = 0 =>
    \A k \in Keys : k.client \in AutoSetup => MendOK(job[k])

\* What is missing from kind, and what the build is told of it next.
LEMMA NeedsFacts ==
  ASSUME Types
  PROVE  /\ kind.needs \in Seq(STRING) /\ Len(kind.needs) \in Nat
         /\ DOMAIN kind.needs = 1 .. Len(kind.needs)
         /\ \A i, j \in 1 .. Len(kind.needs) : kind.needs[i] = kind.needs[j] => i = j
<1>1. kind.needs \in Seq(STRING) /\ IsInjective(kind.needs)
  BY ImageAssumption, ConstantFacts DEF Types
<1>2. Len(kind.needs) \in Nat /\ DOMAIN kind.needs = 1 .. Len(kind.needs)
  BY <1>1
<1> QED
  BY <1>1, <1>2 DEF IsInjective

LEMMA NextNeed ==
  ASSUME Types, NEW j \in Jobs, NEW n \in 0 .. Len(kind.needs), Progress(j, n), j.needs # <<>>
  PROVE  /\ n + 1 \in 1 .. Len(kind.needs)
         /\ Head(j.needs) = kind.needs[n + 1]
         /\ Head(j.needs) \notin j.attempted
<1>1. /\ j.needs \in Seq(STRING) /\ Len(j.needs) \in Nat /\ Len(j.needs) >= 1
      /\ Head(j.needs) = j.needs[1]
  <2>1. j.needs \in Seq(STRING)
    BY DEF Jobs
  <2> QED
    BY <2>1, EmptySeq, HeadTailProperties
<1>2. n + 1 \in 1 .. Len(kind.needs)
  BY <1>1, NeedsFacts DEF Progress
<1>3. Head(j.needs) = kind.needs[n + 1]
  <2>1. 1 \in 1 .. Len(j.needs)
    BY <1>1
  <2>2. j.needs[1] = kind.needs[1 + n] /\ 1 + n = n + 1
    BY <2>1 DEF Progress
  <2> QED
    BY <1>1, <2>2
<1>4. ASSUME Head(j.needs) \in j.attempted PROVE FALSE
  <2>1. PICK i \in 1 .. n : Head(j.needs) = kind.needs[i]
    BY <1>4 DEF Progress
  <2>2. i = n + 1
    BY <1>2, <1>3, <2>1, NeedsFacts
  <2> QED
    BY <2>2
<1> QED
  BY <1>2, <1>3, <1>4

\* The next thing made good, by what was tried.
LEMMA OneMore ==
  ASSUME Types, NEW j \in Jobs, NEW n \in 0 .. Len(kind.needs), Progress(j, n),
         j.needs # <<>>, NEW m \in Jobs,
         m.needs = Tail(j.needs), m.attempted = j.attempted \cup {Head(j.needs)},
         m.refreshed => j.refreshed \/ Head(j.needs) # Interpreter,
         kind.foreign => m.foreign
  PROVE  Progress(m, n + 1)
<1>1. /\ j.needs \in Seq(STRING) /\ Len(j.needs) \in Nat /\ Len(j.needs) >= 1
      /\ Len(m.needs) = Len(j.needs) - 1
      /\ \A i \in 1 .. Len(m.needs) : m.needs[i] = j.needs[i + 1]
  <2>1. j.needs \in Seq(STRING)
    BY DEF Jobs
  <2> QED
    BY <2>1, EmptySeq, HeadTailProperties
<1>2. /\ n + 1 \in 1 .. Len(kind.needs) /\ Head(j.needs) = kind.needs[n + 1]
      /\ Len(kind.needs) \in Nat
  BY NextNeed, NeedsFacts
<1>3. Len(m.needs) = Len(kind.needs) - (n + 1)
  BY <1>1, <1>2 DEF Progress
<1>4. ASSUME NEW i \in 1 .. Len(m.needs) PROVE m.needs[i] = kind.needs[i + (n + 1)]
  <2>1. i + 1 \in 1 .. Len(j.needs) /\ (i + 1) + n = i + (n + 1)
    BY <1>1
  <2> QED
    BY <1>1, <2>1 DEF Progress
<1>5. ASSUME NEW x \in m.attempted PROVE \E i \in 1 .. n + 1 : x = kind.needs[i]
  BY <1>2, <1>5 DEF Progress
<1>6. m.refreshed => \E i \in 1 .. n + 1 : kind.needs[i] # Interpreter
  BY <1>2 DEF Progress
<1> QED
  BY <1>3, <1>4, <1>5, <1>6 DEF Progress

\* What Mendable says of the thing a build is to make good next.
LEMMA FixesIt ==
  ASSUME Types, Mendable, NEW k \in Keys, k.client \in AutoSetup,
         NEW n \in 0 .. Len(kind.needs), Progress(job[k], n), job[k].needs # <<>>
  PROVE  /\ MayFix(k)
         /\ Missing(k) # Interpreter =>
              (kind.manager = "apt-get" => HasLists(k)) /\ Fits(k)
         /\ Missing(k) = Interpreter => kind.manager = "apt-get"
         /\ Missing(k) # Unnamed
<1>1. /\ n + 1 \in 1 .. Len(kind.needs) /\ Missing(k) = kind.needs[n + 1]
      /\ Missing(k) \notin job[k].attempted
  BY NextNeed DEF Missing, Types
<1>2. /\ kind.needs \in Seq(STRING) /\ DOMAIN kind.needs = 1 .. Len(kind.needs)
      /\ n + 1 \in DOMAIN kind.needs
  BY <1>1, NeedsFacts
<1>5. Missing(k) # Unnamed
  BY <1>1, <1>2 DEF Mendable
<1>3. CASE Missing(k) = Interpreter
  <2>1. n + 1 \notin Libraries
    BY <1>1, <1>3 DEF Libraries
  <2>2. kind.family = "deb" /\ kind.manager = "apt-get"
    BY <1>2, <2>1 DEF Mendable
  <2> QED
    BY <1>1, <1>3, <1>5, <2>2 DEF MayFix
<1>4. CASE Missing(k) # Interpreter
  <2>1. n + 1 \in Libraries
    BY <1>1, <1>2, <1>4 DEF Libraries
  <2>2. \/ kind.manager = "dnf"
        \/ kind.manager = "apt-get" /\ Missing(k) \in kind.known
    BY <1>1, <2>1 DEF Mendable
  <2>3. MayFix(k)
    BY <1>1, <1>4, <2>2 DEF MayFix, Package
  <2>4. ASSUME kind.manager = "apt-get" PROVE HasLists(k)
    <3>1. SUFFICES ASSUME job[k].refreshed PROVE FALSE
      BY DEF HasLists
    <3>2. PICK i \in 1 .. n : kind.needs[i] # Interpreter
      BY <3>1 DEF Progress
    <3>3. i \in 1 .. Len(kind.needs)
      BY <1>1, NeedsFacts
    <3>4. i \in Libraries
      BY <1>2, <3>2, <3>3 DEF Libraries
    <3>5. i = n + 1
      BY <2>1, <2>4, <3>4 DEF Mendable
    <3> QED
      BY <3>5
  <2>5. Fits(k)
    <3>1. SUFFICES ASSUME kind.foreign PROVE job[k].foreign
      BY DEF Fits
    <3>2. kind.needs[1] = Interpreter
      BY <3>1 DEF Mendable
    <3>3. n >= 1
      BY <1>1, <1>4, <3>2
    <3> QED
      BY <3>1, <3>3 DEF Progress
  <2> QED
    BY <1>4, <1>5, <2>3, <2>4, <2>5
<1> QED
  BY <1>3, <1>4

\* Goes to what is no outcome changes nothing else of a task.
LEMMA GoesMends ==
  ASSUME Types, NEW k \in Keys, NEW pc \in JobPCs, Goes(k, pc), pc # "mount",
         MendOK(job[k]), UNCHANGED kind,
         \/ pc \in Outcomes
         \/ job[k].pc \in Early /\ pc \in Early \ {"copy"}
  PROVE  MendOK(job[k])'
<1>1. PICK j \in Jobs : /\ job' = [job EXCEPT ![k] = j] /\ j.pc = pc
                        /\ pc \notin Outcomes => j = [job[k] EXCEPT !.pc = pc]
  BY GoesFacts
<1>2. job'[k] = j /\ job[k] \in Jobs
  BY <1>1 DEF Types
<1>3. CASE pc \in Outcomes
  BY <1>1, <1>2, <1>3 DEF MendOK, Outcomes, Early
<1>4. CASE pc \notin Outcomes
  <2>1. j.attempted = job[k].attempted /\ j.refreshed = job[k].refreshed
        /\ j.tries = job[k].tries
    BY <1>1, <1>2, <1>4 DEF Jobs
  <2> QED
    BY <1>1, <1>2, <1>4, <2>1 DEF MendOK, Fresh, Early
<1> QED
  BY <1>3, <1>4

LEMMA PrepareMends ==
  ASSUME Types, ImageInv, Mendable, NEW k \in Keys, k.client \in AutoSetup,
         MendOK(job[k]), Prepare(k)
  PROVE  MendOK(job[k])'
<1>1. kind' = kind /\ job[k] \in Jobs /\ JobOK(k, job[k])
  BY DEF Prepare, ReadDigest, LookForPrepared, StartBuild, Repull, LookUpAgain, Retag, Copy,
         Probe, Install, EnableArch, CannotFix, Commit, fixed, Types, ImageInv
<1>2. CASE ReadDigest(k)
  BY <1>1, <1>2 DEF ReadDigest, MendOK, Fresh, Early, Types, Jobs
<1>3. CASE LookForPrepared(k)
  BY <1>1, <1>3, GoesMends DEF LookForPrepared, Outcomes, Early, JobPCs
<1>4. CASE StartBuild(k)
  <2>1. CASE Goes(k, "repull") \/ Goes(k, "failed")
    BY <1>1, <1>4, <2>1, GoesMends DEF StartBuild, Outcomes, Early, JobPCs
  <2>2. CASE job' = [job EXCEPT ![k].pc = "copy", ![k].base = alias[k.platform],
                                ![k].needs = kind.needs]
    <3>1. /\ job'[k].pc = "copy" /\ job'[k].needs = kind.needs
          /\ job'[k].attempted = job[k].attempted /\ job'[k].refreshed = job[k].refreshed
          /\ job'[k].tries = job[k].tries
      BY <1>1, <2>2 DEF Types, Jobs
    <3>2. Fresh(job[k])
      BY <1>4 DEF StartBuild, MendOK, Early
    <3> QED
      BY <1>1, <3>1, <3>2 DEF MendOK, Fresh
  <2> QED
    BY <1>4, <2>1, <2>2 DEF StartBuild
<1>5. CASE Repull(k)
  <2>1. CASE Goes(k, "failed")
    BY <1>1, <2>1, GoesMends DEF Outcomes, JobPCs
  <2>2. CASE job' = [job EXCEPT ![k].pc = "relook", ![k].got = Content(newest, k.platform)]
    BY <1>1, <1>5, <2>2 DEF Repull, MendOK, Fresh, Early, Types, Jobs
  <2> QED
    BY <1>5, <2>1, <2>2 DEF Repull
<1>6. CASE LookUpAgain(k) \/ Retag(k)
  <2>1. CASE LookUpAgain(k)
    <3>1. job[k].pc = "relook" /\ \E other :
            job'[k] = [job[k] EXCEPT !.pc = "retag", !.got = plain, !.crossed = other]
      BY <2>1 DEF LookUpAgain, Types
    <3>2. /\ job'[k].pc = "retag" /\ job'[k].attempted = job[k].attempted
          /\ job'[k].refreshed = job[k].refreshed /\ job'[k].tries = job[k].tries
      BY <1>1, <3>1 DEF Jobs
    <3> QED
      BY <3>1, <3>2 DEF MendOK, Fresh, Early
  <2>2. CASE Retag(k)
    <3>1. /\ job[k].pc = "retag"
          /\ job'[k] = [job[k] EXCEPT !.pc = "again", !.got = None, !.crossed = FALSE,
                                      !.moved = TRUE]
      BY <2>2 DEF Retag
    <3>2. /\ job'[k].pc = "again" /\ job'[k].attempted = job[k].attempted
          /\ job'[k].refreshed = job[k].refreshed /\ job'[k].tries = job[k].tries
      BY <1>1, <3>1 DEF Jobs
    <3> QED
      BY <3>1, <3>2 DEF MendOK, Fresh, Early
  <2> QED
    BY <1>6, <2>1, <2>2
<1>7. CASE Copy(k)
  <2>1. Goes(k, "probe") /\ job[k].pc = "copy"
    BY <1>7 DEF Copy, Mendable
  <2>2. PICK j \in Jobs : job' = [job EXCEPT ![k] = j] /\ j = [job[k] EXCEPT !.pc = "probe"]
    BY <2>1, GoesFacts DEF JobPCs, Outcomes
  <2>3. /\ job'[k] = j /\ j.pc = "probe" /\ j.needs = job[k].needs /\ j.tries = job[k].tries
        /\ j.attempted = job[k].attempted /\ j.refreshed = job[k].refreshed
    BY <1>1, <2>2 DEF Types, Jobs
  <2>4. j.needs = kind.needs /\ Fresh(j)
    BY <2>1, <2>3 DEF MendOK, Fresh, Early
  <2>5. Progress(j, 0) /\ 0 \in 0 .. Len(kind.needs) /\ j.tries = 0
    BY <2>4, NeedsFacts DEF Progress, Fresh
  <2> QED
    BY <1>1, <2>3, <2>5 DEF MendOK, Progress, Early
<1>8. CASE Probe(k)
  <2>1. PICK n \in 0 .. Len(kind.needs) : Progress(job[k], n) /\ job[k].tries = n
    BY <1>8 DEF Probe, MendOK
  <2>2. ~ Spent(k)
    BY <2>1, NeedsFacts, ConstantFacts DEF Spent, Mendable
  <2> DEFINE pc == IF Names(k) THEN "fix" ELSE "commit"
  <2>3. /\ job'[k].pc = pc
        /\ job'[k].tries = n + 1 /\ job'[k].needs = job[k].needs
        /\ job'[k].attempted = job[k].attempted /\ job'[k].refreshed = job[k].refreshed
        /\ job'[k].foreign = job[k].foreign
    <3>1. PICK blind : Looked(k, pc, blind)
      BY <1>8, <2>2 DEF Probe
    <3>2. job'[k] = [job[k] EXCEPT !.tries = @ + 1, !.pc = pc, !.blind = blind]
      BY <3>1 DEF Looked, Types
    <3>3. job[k].tries + 1 = n + 1
      BY <2>1
    <3> HIDE DEF pc
    <3> QED
      BY <1>1, <3>2, <3>3 DEF Jobs
  <2>4. pc \in {"fix", "commit"} /\ n + 1 \in Nat
    BY NeedsFacts
  <2> HIDE DEF pc
  <2>5. Progress(job[k], n)'
    BY <1>1, <2>1, <2>3 DEF Progress
  <2>6. n \in 0 .. Len(kind'.needs)
    BY <1>1, <2>1
  <2>7. CASE pc = "commit"
    BY <2>3, <2>7 DEF MendOK, Early
  <2>8. CASE pc = "fix"
    BY <2>3, <2>5, <2>6, <2>8 DEF MendOK, Early
  <2> QED
    BY <2>4, <2>7, <2>8
<1>9. CASE Install(k) \/ EnableArch(k) \/ CannotFix(k)
  <2>1. job[k].pc = "fix" /\ job[k].needs # <<>>
    BY <1>1, <1>9 DEF Install, EnableArch, CannotFix, JobOK
  <2>2. PICK n \in 0 .. Len(kind.needs) : Progress(job[k], n) /\ job[k].tries = n + 1
    BY <2>1 DEF MendOK
  <2>3. /\ MayFix(k)
        /\ Missing(k) # Interpreter => (kind.manager = "apt-get" => HasLists(k)) /\ Fits(k)
        /\ Missing(k) = Interpreter => kind.manager = "apt-get"
    BY <2>1, <2>2, FixesIt
  <2>4. /\ job'[k].pc = "probe" /\ job'[k].needs = Tail(job[k].needs)
        /\ job'[k].attempted = job[k].attempted \cup {Head(job[k].needs)}
        /\ job'[k].refreshed => job[k].refreshed \/ Head(job[k].needs) # Interpreter
        /\ kind.foreign => job'[k].foreign
        /\ job'[k].tries = n + 1
    <3>1. CASE Install(k)
      <4>1. Missing(k) # Interpreter /\ Fits(k)
        BY <2>3, <3>1 DEF Install
      <4>2. job'[k] = [job[k] EXCEPT !.pc = "probe", !.attempted = @ \cup {Missing(k)},
                         !.refreshed = TRUE, !.lists = FALSE, !.needs = Tail(@)]
        BY <2>3, <3>1, <4>1 DEF Install, Types
      <4> QED
        BY <1>1, <2>2, <4>1, <4>2 DEF Jobs, Missing, Fits
    <3>2. CASE EnableArch(k)
      <4>1. Missing(k) = Interpreter
        BY <3>2 DEF EnableArch
      <4>2. job'[k] = [job[k] EXCEPT !.pc = "probe", !.attempted = @ \cup {Interpreter},
                         !.foreign = TRUE, !.lists = FALSE, !.needs = Tail(@)]
        BY <2>3, <3>2, <4>1 DEF EnableArch, Types
      <4> QED
        BY <1>1, <2>2, <4>1, <4>2 DEF Jobs, Missing
    <3> QED
      BY <1>9, <2>3, <3>1, <3>2 DEF CannotFix
  <2>5. job'[k] \in Jobs
    BY <1>9, InstallStep, CopyStep DEF Types
  <2>6. Progress(job'[k], n + 1)
    BY <1>1, <2>1, <2>2, <2>4, <2>5, OneMore
  <2>7. n + 1 \in 0 .. Len(kind.needs)
    BY <1>1, <2>1, <2>2, NextNeed
  <2> QED
    BY <1>1, <2>4, <2>6, <2>7 DEF MendOK, Progress, Early
<1>10. CASE Commit(k)
  BY <1>1, <1>10, GoesMends DEF Commit, Outcomes, JobPCs
<1> QED
  BY <1>2, <1>3, <1>4, <1>5, <1>6, <1>7, <1>8, <1>9, <1>10 DEF Prepare

\* An alias made anew takes nothing from a build.
LEMMA MovedMends ==
  ASSUME NEW k \in Keys, NEW m, job[k] \in Jobs, job'[k] = [job[k] EXCEPT !.moved = m],
         MendOK(job[k]), kind' = kind
  PROVE  MendOK(job[k])'
<1>1. /\ job'[k].pc = job[k].pc /\ job'[k].needs = job[k].needs
      /\ job'[k].attempted = job[k].attempted /\ job'[k].refreshed = job[k].refreshed
      /\ job'[k].tries = job[k].tries /\ job'[k].foreign = job[k].foreign
  BY DEF Jobs
<1> QED
  BY <1>1 DEF MendOK, Fresh, Progress

LEMMA NextMends ==
  ASSUME Types, ImageInv, MendInv, [Next]_vars
  PROVE  MendInv'
<1> SUFFICES ASSUME Mendable', trouble'.failure = 0,
                    NEW k \in Keys, k.client \in AutoSetup
             PROVE  MendOK(job[k])'
  BY DEF MendInv
<1>1. kind' = kind
  BY DEF Next, Work, Outside, AskPull, AskPrepared, NoImage, Handed, LookForAlias, LookForPlain,
         Pull, LookUp, Tag, Prepare, ReadDigest, LookForPrepared, StartBuild, Repull,
         LookUpAgain, Retag, Copy, Probe, Install, EnableArch, CannotFix, Commit, CallFails,
         CommandFails, ProbeFails, Publish, UserPulls, Lose, vars, fixed
<1>2. Mendable /\ job[k] \in Jobs
  BY <1>1 DEF Mendable, Libraries, Types
<1>3. ASSUME trouble.failure = 0, UNCHANGED job PROVE MendOK(job[k])'
  BY <1>1, <1>2, <1>3 DEF MendInv, MendOK, Progress
<1>4. ASSUME NEW q \in Keys, Prepare(q) PROVE MendOK(job[k])'
  <2>1. trouble' = trouble
    BY <1>4 DEF Prepare, ReadDigest, LookForPrepared, StartBuild, Repull, LookUpAgain, Retag,
         Copy, Probe, Install, EnableArch, CannotFix, Commit
  <2>2. MendOK(job[k])
    BY <1>2, <2>1 DEF MendInv
  <2>3. CASE q = k
    BY <1>2, <1>4, <2>2, <2>3, PrepareMends
  <2>4. CASE q # k
    <3>1. CASE Retag(q)
      <4>1. job'[k] = [job[k] EXCEPT !.moved = Moved(k, q.platform)]
        BY <2>4, <3>1 DEF Retag
      <4> QED
        BY <1>1, <1>2, <2>2, <4>1, MovedMends
    <3>2. CASE ~ Retag(q)
      <4>1. job'[k] = job[k]
        BY <1>4, <2>4, <3>2 DEF Prepare, ReadDigest, LookForPrepared, StartBuild, Repull,
           LookUpAgain, Copy, Probe, Looked, Install, EnableArch, CannotFix, Commit, Goes, Types
      <4> QED
        BY <1>1, <2>2, <4>1 DEF MendOK, Progress
    <3> QED
      BY <3>1, <3>2
  <2> QED
    BY <2>3, <2>4
<1>5. ASSUME NEW t \in Transports, AskPrepared(t) PROVE MendOK(job[k])'
  <2>1. trouble' = trouble /\ MendOK(job[k])
    BY <1>2, <1>5 DEF AskPrepared, MendInv
  <2>2. job'[k] = job[k] \/ job'[k] = [Unbuilt EXCEPT !.pc = "digest"]
    BY <1>5 DEF AskPrepared, Types
  <2>3. CASE job'[k] = job[k]
    BY <1>1, <2>1, <2>3 DEF MendOK, Progress
  <2>4. CASE job'[k] = [Unbuilt EXCEPT !.pc = "digest"]
    BY <2>4 DEF MendOK, Fresh, Early, Unbuilt
  <2> QED
    BY <2>2, <2>3, <2>4
<1>6. ~ CallFails /\ ~ CommandFails /\ ~ ProbeFails
  <2>1. ASSUME Happens("failure") PROVE trouble'.failure # 0
    <3>1. trouble \in [failure : Nat, others : Nat]
      BY DEF Types, TroubleType
    <3>2. trouble'.failure = trouble.failure + 1
      BY <2>1, <3>1 DEF Happens
    <3> QED
      BY <3>1, <3>2
  <2> QED
    BY <2>1 DEF CallFails, CommandFails, ProbeFails
<1>7. ASSUME UserPulls \/ Lose PROVE trouble.failure = 0 /\ UNCHANGED job
  BY <1>7 DEF UserPulls, Lose, Happens, Types, TroubleType
<1>8. ASSUME \/ Publish \/ UNCHANGED vars
             \/ \E t \in Transports : AskPull(t) \/ NoImage(t) \/ Handed(t)
             \/ \E q \in PullKeys : LookForAlias(q) \/ LookForPlain(q) \/ Pull(q) \/ LookUp(q)
      PROVE  UNCHANGED <<job, trouble>>
  BY <1>8 DEF Publish, vars, AskPull, NoImage, Handed, LookForAlias, LookForPlain, Pull, LookUp
<1>9. ASSUME NEW q \in PullKeys, Tag(q) PROVE MendOK(job[k])'
  <2>1. job'[k] = [job[k] EXCEPT !.moved = Moved(k, q[2])] /\ trouble' = trouble
    BY <1>9 DEF Tag
  <2> QED
    BY <1>1, <1>2, <2>1, MovedMends DEF MendInv
<1> QED
  BY <1>3, <1>4, <1>5, <1>6, <1>7, <1>8, <1>9 DEF Next, Work, Outside

\* Where nothing fails, an image that can be mended is, for every transport that
\* may: by as many looks as the loop has, each thing tried once, and the lists
\* fetched once.
THEOREM TheMendableIsMended == Spec => []MendedWhenItCan
<1>1. Init => MendInv
  <2>1. Init => \A k \in Keys : job[k].pc = "none" /\ Fresh(job[k])
    BY DEF Init, Unbuilt, Fresh
  <2> QED
    BY <2>1 DEF MendInv, MendOK
<1>2. Types /\ ImageInv /\ MendInv /\ [Next]_vars => MendInv'
  BY NextMends
<1>3. Types /\ ImageInv /\ MendInv => MendedWhenItCan
  <2> SUFFICES ASSUME Types, ImageInv, MendInv, Mendable, trouble.failure = 0,
                      NEW t \in Transports, Client[t] \in AutoSetup
               PROVE  at[t] # "mount"
    BY DEF MendedWhenItCan
  <2>1. KeyOf(t) \in Keys /\ KeyOf(t).client = Client[t] /\ AtInv(t)
    BY KeyFacts DEF KeyOf, ImageInv
  <2>2. job[KeyOf(t)].pc # "mount"
    BY <2>1 DEF MendInv, MendOK
  <2> QED
    BY <2>1, <2>2 DEF AtInv, Outcomes
<1> QED
  BY <1>1, <1>2, <1>3, SpecInv, PTL DEF Spec
=============================================================================
