# Verification of bigfix-remote-client-relevance

TLA+ models of the program under `src/`, the TLC runs that check them on small
instances, and the TLAPS proofs that hold for every instance. Paths below are
relative to `src/src/bigfix_remote_client_relevance/` unless they begin with
`src/`.

The program evaluates *client relevance* expressions on many *targets* at once:
this machine, ssh hosts, containers, a FastQuery server that answers for many
endpoints, an online evaluator. It finds out what a target is, resolves the
version of the `qna` tool to use, downloads and installs it, runs the
expressions, and streams the results back as they land.

## 1. Inventory

| component | state it keeps | operations | what is hard about it | what makes it correct |
|---|---|---|---|---|
| result stream (`orchestrate._evaluate_stream_indexed`) | a task per group, two semaphores, shared resolver tasks, one queue, the count of sentinels | start, probe, resolve, prepare, evaluate, batch, fall back, release; drain, close | interleaving of all groups, cancellation at every await, fifteen ways out of a group | every cell answered once, permits conserved, nothing running after the call, the call ends |
| fallback and its memory (`_fall_back`, `bootstrap/compat_memory.py`) | the version in use, the remembered verdict per target key | look up, step back, record, forget | decisions of one run steer the next one; several runs share the file; an entry ages | an answer names the version that gave it; a remembered version works; a verdict is not lost; a memory that misleads is healed |
| fan-out lanes, tuples and chunks (`_fanout_tuples`, `_group`, `transports/batch.py`) | free lanes, the `tupling` flag or the batcher, runs in flight | share a run, hand it back, run its expressions one by one | two semaphores, one inside the other; a flag read before and set after an await; answers matched to questions by position | each expression answered once and by its own answer, few runs wasted, no deadlock |
| container lifecycle (`transports/container.py`) | the kept container's id, deadlines inside containers | start, renew, evaluate, fall through to one-shot, stop, reclaim | a container expires while nobody looks; cancellation in the middle of `docker run` | no container left behind, none lost under a command |
| prepared images (`transports/container.py`, `container_libs.py`, `coordination.py`) | aliases and tags in a daemon others use, one future per image | pull, alias, look up, build, mend, commit | pulls of one name for two platforms; a loop of fixes; work shared by key | the image run is the one asked for, nothing broken is kept, an image that can be mended is |
| ssh transport (`transports/ssh.py`) | one connection, what timed out last, whether the target was given up | connect, run, drop, kill, reconnect, release | a command that timed out lives on over there; cancellation in the middle of cleaning up | no leaked connection or silent `qna`; one slow expression costs only itself |
| FastQuery transport (`transports/fastquery.py`) | queries, their rows so far, a deadline and a hard stop | resolve, submit, poll, merge | deadline, floor and cap together; answers that come as the time runs out | nobody who answered is called silent, the hard stop holds |
| local, online evaluator (`transports/local.py`, `online_evaluator.py`) | none between calls | run an expression or a chunk | one subprocess or one request for each call | its timeout ends it |
| artifact cache (`bootstrap/cache.py`) | files on disk, one lock per path | download, verify, rename, reuse | several processes, cancellation during a download | a complete file under its final name |
| local extraction (`bootstrap/extract_local.py`) | a staging tree, a tree, a marker | clear, unpack, mark, install | the unpacking thread outlives its call | what is marked is whole and stays |
| provisioning (`bootstrap/provision.py`, `targets.py`) | directories on the target, the tools known to be there | probe, make, put, extract, rename, mark | a command goes on after its client has given it up | what is marked is whole; the version comes to use |
| release site (`bootstrap/release_site.py`) | none | parse the index, order versions, step back | numeric ordering of dotted versions | `previous_version` is the largest release below |
| host discovery (`discovery.py`) | the inventory file, verdicts of the tests | list, test, save | minutes between reading the file and writing it; a user with an editor | the user's hosts stay, only working hosts are added, nothing pulled in vain |
| ssh discovery (`ssh_discovery.py`) | candidates, keys, logins | list, pick, compare keys, test, prompt, write | one machine under several names; keys trusted from then on | a machine is met once, a key is written for a host that is tested, every pick is settled, no login is guessed |
| inventory, results, rendering, command line, paths | a file, data classes | read, write, print | - | not modelled: one process, no concurrency, formatting |

How they interact: the stream builds one transport per group through a factory
and calls its `resolve_platform`, `resolve_arch`, `prepare`,
`evaluate_client_relevance*` and `aclose`; the resolver goes through the
release site and the artifact cache; ssh and local transports install the
artifact through provisioning or extraction, containers through a prepared
image. Groups share the two semaphores, the resolver tasks, the compatibility
memory and the image coordinator, and nothing else. The discoveries use
transports for single tests and meet the rest in the inventory file.

The hazards each of these is exposed to, at their lines, are in
`PROJECT.json`.

## 2. Plan

In this order, the behaviour the whole program depends on first.

| step | modules | composed with | theorems | state |
|---|---|---|---|---|
| 1 | `ResultStream` (abstract), `EvaluateStream` | the second implements the first | types, permits, nothing outlives the call, implementation | done |
| 2 | `QnaFallback` | takes from `EvaluateStream` that a group evaluates its first expression alone | types, what is remembered works, the newest that starts, the name is true, it heals, the verdict is kept | done |
| 3 | `ContainerLifecycle` | - | types, nothing stranded, the window covers the command | done |
| 4 | `ArtifactStore` (abstract), `ArtifactCache` | the second implements the first | types, serves whole, downloads once, implementation | done |
| 5 | `LocalExtraction`, `Provision` | after the cache, in `MCInstall` | types, what is marked is whole, what is handed out stays | done |
| 6 | `Selection`, `SharedRuns` | sharpens `EvaluateStream`, which leaves open when runs are shared | types, own answers, sharing pays | done |
| 7 | `SshSession`, `FastQuery` | what a unit's evaluation is, in `MCEvaluate` | types, the hard stop, what is said is true, nothing left behind, only the dead are given up | done |
| 8 | `PreparedImage` | before `ContainerLifecycle`'s start | types, the alias is its platform's, each is handed its own, the mendable is mended | done |
| 9 | `Discovery`, `SshDiscovery` | in `MCHosts` | types, the file is kept, only new is added, pulls are needed, every pick is settled, no login is guessed, a machine is met once | done |
| 10 | `ReleaseOrder`: the comparison of dotted versions and the parsing of the index, against reference definitions | `QnaFallback`, which takes the order as given | lemmas on the order | planned |
| 11 | a memory with the entries of several targets, and a file that cannot be read or written | `QnaFallback` | - | planned |
| 12 | cancellation of a shared pull or build | `PreparedImage` | - | planned |

Every safety property of the passing runs is a theorem. Where the code does not do what a
document says in all cases, the property names the cases in which it may fail, and no
others: the instance of its run reaches them, and the theorem holds with them.

Two questions are asked of every module with a memory or a file in it: what
does another process see of it at the worst moment, and what does a cancelled
task leave behind. Runs are kept few. A run checks modules side by side where
they serve one purpose: the MC module has a variable `of` that says which part
a behaviour is of, the other parts stand still in a state of their own, and
the run is one of their sum, not of their product.

## 3. The modules and the code

### ResultStream and EvaluateStream

`ResultStream` is what a caller of `evaluate_many_stream` and its siblings is
told: each result arrives once, the stream runs out only when every cell (one
expression at one target and version) has its first result or the caller gave up,
and the call returns with no transport in use.

`EvaluateStream` is `orchestrate._evaluate_stream_indexed` with everything
nested in it. One action is the code from one `await` to the next, because
nothing else of the event loop runs in between.

| state | code |
|---|---|
| `pc` | where the task of each `_group` is suspended |
| `semaphore`, `flight` | `max_parallel`'s semaphore and the evaluations inside `async with semaphore` |
| `image_semaphore` | `pull_parallel`'s, taken only by transports that have an image phase |
| `resolutions` | the shared resolver tasks (`_resolve`) |
| `queue`, `pending_groups` | the `asyncio.Queue` and the count of `None`s still to be seen |
| `transport` | opened by the factory, left by `_release` |
| `cancelled`, `status` | the generator's `finally`: cancel every task, `gather`, return |

`Start`/`Refuse` are a group's way to its first await; `ProbeEnd`, `ProbeFail`,
`ArchEnd`, `ResolveEnd`, `ResolveFail`, `PrepareEnd` its stages; `EvaluateStart`,
`EvaluateEnd`, `HandBack`, `TooNew`, `StepBack` the evaluations, the chunk that
is sent again one by one and the loop of `_fall_back`; `ReleaseEnd` its two
`finally` blocks. `Unwind` and `ReleaseInterrupted` are a cancellation that
arrives in and after them. `Take`, `TakeSentinel`, `Close` and `Finish` are the
generator and the caller.

### QnaFallback

The version a group ends up running: the lookup in `compat_memory.json`, the
first expression that finds out whether the build starts, `_fall_back` through
`previous_version`, and the record and forget that steer the next run. The
container transport is in it as far as it decides which build really runs
(`_acquire_container` and the kept container: `keeps` are the runs that keep one).
`MayCome` is what an evaluation may come to; a run in `Failing` may meet a failure that is
not "too new" anywhere, and `Accepts` takes it for the end of the search, as
`_is_too_new` does. The file is read in one step and rewritten in another; `Turn` keeps tasks of one
process apart between the two, because there is no await there, and keeps nothing
apart that is in another process. `doubtful` is history: the entry was recorded after such a
failure. `Change` lets the target's runtime be replaced
between runs, `Expire` lets an entry's time run out (`aged`: the runtime has got
older, as when a container's image was rebuilt).

### ContainerLifecycle

Every container the transport starts, from `docker run` to its removal: a
platform probe's or an evaluation's own (`run_one_shot`, `checked`), the one kept
for a batch, the build of a prepared image. Each carries a deadline
(`Window`: what `_deadline_for` widens for a kept or a checked container, the engine's
own for `run_one_shot`, which passes none, one window for all commands of a build) that its
PID 1 obeys (`Expire`); each command has a timeout outside (`InTime`). `missed` are the
transports whose last renewal failed, which nobody looks at. The engine is called
in threads, so a cancelled task stops waiting and the call goes on (`adrift`: a
`docker run` whose id nobody will learn; `fading`: a removal nobody waits for).
`Stopped`/`Closed` may lose the removal; `Kill` ends the process;
`SweepRunning`, `SweepOne` and `SweepExited` are `reclaim_stray_containers` in
another process.

### PreparedImage

What happens before that: `pull` is the task of `ImageCoordinator.once` that
brings the image for one platform under an alias of its own
(`DockerEngine.ensure_image`: `LookForAlias`, `LookForPlain`, `Pull`, `LookUp`, `Tag`), `job`
the one that builds the prepared image (`_prepare_qna_image`: `ReadDigest`,
`LookForPrepared`, `StartBuild`, `Repull`, `LookUpAgain`, `Retag`, `Copy`, then the loop of
`_make_qna_runnable`, `Probe`, `Install`, `EnableArch`, `CannotFix`, and
`Commit`). `LookUp` and `LookUpAgain` are the docker SDK's own second step in `images.pull`: it
fetches, and then reads the image back by its name, which may stand for another by then. `plain`,
`alias`, `blobs` and `prepared` are the daemon's, which
several runs and the user share (`UserPulls`, `Lose`, `Publish`); `indexed` says
whether it keeps whole multi-platform indexes under a name, as the containerd
store does. An image is a record of what decides the loop's way: the package
manager, what `qna` lacks and in which order, which packages are known.

The last of the `_MAX_LIBRARY_FIXES` = 3 attempts is never looked at again, so
two fixes are the most that succeed (`Mendable` says so). A look at `qna` that fails and names
neither a library nor an interpreter (`Unnamed`, `ProbeFails`) counts as one that links, and the
image is committed. `Shows(p)` is what an image pulled for a platform says of itself when it is
inspected. Three fields of a job are history: `crossed` (the name was repointed before the
second look), `moved` (the alias got another content between the reading of the digest,
which the tag names, and the start of the build) and `blind` (the last look named nothing); `overtaken`
are the aliases made from a `crossed` pull.

### SharedRuns

How the expressions of one group are sent when several share a run. In a `qna`
group the first goes alone and the rest in `Chunks` (`chunk_expressions`: by count
and by bytes), in a fan-out group those with hints go as tuples in a few lanes,
beside the others. `Stdouts` are the outputs a process may come back with --
blocks left out, doubled or swapped with the sentinel -- and `Trusted` is
`split_batch_output`; `Splits` and `Clean` are a tuple's cells. `HandBack` ends the
sharing for the group, its expressions then go one by one. `PlanOK` (no expression is
in two runs or twice in one) and `SplitsRightly` (an output that is trusted has each
block at its expression's place) are what the rest relies on of the cutting up and
of the splitting. `Cut` is the loop of `chunk_expressions`, a function of the number of
expressions put away so far, with `AddTo` as its body and `Size` as its running `size`; the
slices of `_fanout_tuples` are the same loop where an expression costs nothing. A comprehension with
a condition is `Chosen`, of the module `Selection`: a function of the number of elements
looked at, which proofs can unfold where the `SelectSeq` of the library cannot be.

### SshSession

`transports/ssh.py` as a group uses it: `Connect`, `Located` (the platform and
where `qna` is, looked up once), `Single` and `Batch`, `Answer`, `Untyped`
(a `qna` without `-showtypes`), `Refuse`. A command that does not answer (`Hang`)
starts the cleaning up: `Drop` closes the connection, `Reach` opens a fresh one,
`Kill` stops what runs there by the command's marker, `CannotKill` says that it
may still run, `CancelCleanup` is a cancellation in the middle. `last` and
`unresponsive` decide whether the next expression is tried at all. `Refuse` includes the
connection that is lost under a command: its failure is no timeout, so nothing looks for
the `qna` that was under way. `Kill` may be answered and have stopped nothing.
`alive` are the runs of `qna` nobody waits for; of those the user has been told of the `excused`,
and `unheard` are those whose connection went or that the kill did not stop. `hung` is history.

### FastQuery

One evaluation on many computers, as one query for all or one for each
(`split`) under a cap on the calls in flight (`Slot`). Time is discrete: `Tick`
waits until what is due has been handled (`Settled`). `Submit`, `Submitted`,
`Poll`, `Awake`, `Check`, `Results` and `CallTimeout` are a query's way, each call
bounded by `Limit` (the deadline, the floor of a call, never past the hard stop);
`Merge` is the result for each computer, or the hand-back of a tuple that is not
`Clean`. `Reply` is a computer that answers the server, at any time.

### LocalExtraction and Provision

`LocalExtraction` is `ensure_extracted` in one process or several: the lock of the process, the
staging tree cleared, filled by a thread file by file (`Open`, `Close`), marked and renamed.
A cancelled call leaves its thread, which writes by path into whatever is at the
staging path by then, and to its open file wherever the tree has gone (`Moved`). A tree
knows whose thread truncated each file last (`last`), the call that made it (`by`) and those
that wrote its marker (`markers`). The one thread stands for `_extract`, whatever the
archive: the two commands `xar` and `cpio` of a macOS package are one unpacking.

`Provision` is `provision_qna` on one target: each command is a `job` the
client waits for, or gives up (`Abandon`) and leaves to go on. `Extract` begins in a
directory and ends (`EndExtract`) in the same directory under whatever name it
then has; an extraction over a tree that was complete leaves it complete until it breaks off. `hands`
are the commands that have worked in a directory. The commands of `extract_commands`
after its `mkdir` are one. `Cleanup` is a target that loses its directories.

### ArtifactStore and ArtifactCache

`ArtifactStore` is a store in which an artifact, once there, is whole and stays;
whoever asks is given it or refused. `ArtifactCache` is `ensure_artifact` in the
tasks of several processes: `local` is the `asyncio.Lock` in `_locks`, `flock` the
lock file, `part` the staging file and `final` the artifact. Files are inodes,
so that a thread goes on writing to the file it opened wherever the name went,
and `content` keeps each chunk as not written, right or wrong. The download
(`Open`, `Write`, `Stop`) is a thread of its own that a cancellation does not
reach.

### Discovery and SshDiscovery

`Discovery` is a run of `discover_into` and `run_auto_discovery`: the file made to
prove the place writable and removed again (`Ensure`, `Unlink`), the read, the
candidates in their chains (`Earlier`, `Locals` and `Listed` say which wait for
which and which are not tried), `Test`, and the write of `write_discovered`, which
reads the file again (`Load`) and then empties and fills it (`Truncate`, `Fill`).
`UserWrites` is the user's editor, `Stop` an interruption anywhere; `late` are
entries written between a read and its write, `torn` an interrupted write. `PullsOnlyForNeed`
speaks of a pulled image's distribution and of a default's family (`NonePassedOver`), as the two
lists of the code do.

`SshDiscovery` is `ssh_discovery.py` from the names found to the hosts added:
`Groups` merges names by keys and aliases, one entry after the other (`Join`), `Candidates`
drops what the inventory has or this machine is, by name or by key, and puts names before bare
addresses, as `Lead` does within a group. `Confirm` fetches and compares a pick's keys, `Probe` tests, `Prompt`, `LogIn`
and `Skip` are the dialogue with one refused host after the other, and `Write` reads the
inventory again and leaves out the names it has by then (`taken`). A `Stop` is "cut" while the keys
are asked for or the tests run, "stopped" after them. `OncePerMachine` says
it of each stage: `ListedOnce` of the merged list, `PickedOnce` of the picks,
`TwinsSkipped` of the keys compared, `TestedOnce` of the tests, `NeverOfferedAgain` of
the logins.

## 4. The runs

Twelve runs, eight that pass and four that show a disagreement; the state
counts are of distinct states.

| run | asks | instance | shows |
|---|---|---|---|
| `stream_pinned` | `PermitsConserved`, `ImplementsResultStream`, `EventuallyOver` | two container groups on one version, one permit of each kind, three expressions, chunks of two, one step back; closed at any moment or never (208,688) | all hold |
| `stream_mixed` | `NothingOutlivesTheRun`, `FastGoesAhead` | a container group beside a fan-out group with two lanes and two endpoints per cell, or beside an ssh host that may never answer (416,744) | nothing of a run is in use when it has returned; the container group is answered however slow the host |
| `fallback` | `FallsBackToNewest`, `RememberedWorks`, `NamesWhatRan`, `HealsAfterUse`, `VerdictsKept` | two groups in two processes, one of which may keep its container and meet any failure; five releases with gaps of each kind, a split at the fourth, two steps; a runtime that grows and may age (1,870,981) | all hold |
| `containers` | `CoversTheEvaluation`, `NothingStranded`, `StraysStop` | a batch that probes, builds with two commands and keeps its container, with a timeout above the idle window, beside a transport that opted out and whose every evaluation has a container, its platform checked or not; missed renewals, lost removals, a kill; or one use of each beside a sweep (341,439) | all hold |
| `image` | `TypeOK`, `AliasIsItsPlatform`, `HandedItsOwn`, `MendedWhenItCan`, `AllServed` | two runs, one with two versions, the other for another platform and with `--rebuild-image`, on one daemon; five images from complete to three libraries short and one with a failure that names nothing; one failure or act of others (549,381) | all hold |
| `install` | `ServesWhole`, `OneDownload`, `ImplementsStore`, `OthersTypeOK`, `MarkedIsWhole`, `ReturnedStays`, `Answered` | the cache: two tasks of one process and one of another, two chunks; unpacking: two calls of one process and one of another, two files, crashes, errors and cancellations in any mixture; a target: three failures, one command left behind (729,418) | all hold |
| `evaluate` | `AllTypesOK`, `OwnAnswers`, `SharingPays`, `ResultsAreTrue`, `HardStop`, `LeavesNothing`, `GivesUpRightly`, `AllEnd` | five expressions that share runs; FastQuery on two computers behind a cap of one call; four expressions over ssh, one always slow (763,874) | all hold |
| `hosts` | `BothTypesOK`, `PullsOnlyForNeed`, `FileKept`, `AddsOnlyNew`, `OncePerMachine`, `WritesTheTested`, `NothingGuessed` | two runs of the discovery of images over three catalogs, the user writing two hosts; ssh hosts under three names and an inventory's, of two machines and this one (1,304,335) | all hold |
| `fallback_kept` | `FallsBackWhenKept` | a kept container | **violated** |
| `image_lists` | `ListsBeforeInstall` | a Debian image that lacks two libraries | **violated** |
| `cache_cancelled` | `ServesWhole` | two tasks of one process, cancellation during a download | **violated** |
| `unpack_partial` | `NeverHalfExtracted` | two calls of one process that unpack one artifact, a cancellation | **violated** |

`SharingPays`, `ResultsAreTrue`, `LeavesNothing`, `GivesUpRightly`, `HandedItsOwn`,
`PullsOnlyForNeed`, `FileKept`, `OwnAnswers`, `OncePerMachine` and `WritesTheTested` are
conjunctions of parts named in their modules; `MarkedIsWhole` of `MCInstall` is
said of the tree unpacked here and of the one on a target.

### Findings

- `fallback_kept`: with `keep_alive` every older candidate of `_fall_back` is
  evaluated in the container that holds the build already found too new, because
  `_acquire_container` (`transports/container.py:1363`) hands back the kept
  container whatever image it is asked for. The run gives up although an older
  build starts, which `src/README.md:712-719` says it finds.
- `image_lists`: `_make_qna_runnable` refreshes the package lists once per build
  (`transports/container.py:1539`), and every `apt-get` install deletes them
  (`container_libs.py:165`), so the second library of a Debian image is installed
  without lists and fails. `container_libs.py:175` says why they have to be fetched
  first. The image is never prepared.
- `cache_cancelled`: all downloads of an artifact write to one `.part`. A task
  cancelled during its download leaves the locks but not the thread, which may
  open (and so truncate) the file another task has just verified and is about to
  rename. The docstring at `bootstrap/cache.py:11` says "a race can never serve a
  partial or corrupt artifact".
- `unpack_partial`: the same of the unpacked tree. The thread of a cancelled call writes by path
  into the staging tree of the next one (`extract_local.py:89`), and truncates a file there
  just before that tree is marked, renamed and returned. The comment at `extract_local.py:80-81` says
  "neither a crash nor a concurrent run ever observes a half-extracted tree"; if the process ends
  before the thread does, the file stays cut and the marker stays.

Met while modelling. The properties name these cases as their exceptions, so that the
runs reach them and everything else is still asked; where there is no such exception it is said how
the instance or the model leaves the case out.

Of the memory and of what a result names (`fallback`):

- `record` and `forget` read and rewrite the memory with nothing held in between
  (`bootstrap/compat_memory.py:97`), so of two processes one's save drops what the other has
  written since: `Overtaken` in `VerdictsKept`. `src/tests/unit/test_compat_memory.py:254` and
  `src/README.md:739` say otherwise.
- `forget` drops the entry whatever it holds by then (`compat_memory.py:109`), also a good verdict that
  another run has recorded since the dropping run was misled: `Misled`.
- `_fall_back` accepts any candidate whose failure is not "too new" (`orchestrate.py:1129`), and
  it is then remembered as the version that worked: `doubtful` in `RememberedWorks` and `HealsAfterUse`.
- On a kept container such a failure bears the name of the candidate, though the build before it
  is what ran: the failures `NamesWhatRan` leaves out.

Of containers (`containers`):

- `run_one_shot` passes no window, so an evaluation in it, as the platform probe, has the engine's
  idle window whatever its timeout (`container.py:1325`, `684-688`); `src/README.md:583-585` and
  `container.py:111-115` say that the window always covers the evaluation about to run. A build gets one
  window for all its commands (`container.py:1422`), and `idle_ttl_s=None` makes `engine.start` use its
  own default (`container.py:707`), where the comment at line 1008 speaks of no deadline. These and a
  renewal that failed are the uses that are not `Widened`.
- The container kept for a batch is renewed only once the next expression has its
  permit. If it has expired by then, the failed renewal is not looked at and the
  dead id stays (`transports/container.py:1366`): this and all later expressions
  fail. `src/tests/unit/test_transport_container.py:2378` calls the deadline "a
  backstop, not a limit on how long a batch may run". No property asks for more than `missed` excuses.
- `reclaim_stray_containers` (`container.py:979`) stops running containers of live runs too. They are
  removed, not expired, so that `CoversTheEvaluation` says nothing of them.

Of images (`image`):

- The docker SDK looks a pulled image up by its name before `ensure_image` aliases it, so a pull for
  another platform in between does steal the alias, which `container.py:249-251` and `652-655`
  say it cannot: `overtaken` in `AliasIsItsPlatform`, until the alias is made anew. `OwnBuild` holds
  all the same: no container for the wrong platform starts from it.
- A look at `qna` that fails and names nothing is taken for one that links (`container.py:1480-1484`) and
  the image committed, where the docstring at lines 1453-1456 says that nothing broken is cached: `blind`
  in `NothingBrokenCached`.
- The tag of a prepared image may name another content than it was built on, when the alias is made anew
  between the reading of the digest and the start of the build: `moved` in `TagNamesItsBase`.

Of what is installed (`install`):

- Two processes unpack one artifact into one `.partial` (`extract_local.py:82`), each clearing what
  the other has written, without any cancellation; the comment at line 43 has the lock keep calls apart. A
  file that another process, or a cancelled call's thread, was the last to truncate is what `MarkedIsWhole`
  leaves out (`Strange`), and a tree removed beside another process what `ReturnedStays` does.
- `Provision` accepts a tree that is not whole, where `provision.py:14-16` says it never does, with two
  ordinary users of one target and no failure at all (they share `.partial`), with two commands of one user left
  behind, or with an unpacking left behind that breaks off: what is accepted then has had commands of two attempts
  at work in it (`AcceptedIsWhole`). The run has one user, who leaves one command; the theorem has all.

Of single evaluations (`evaluate`):

- A connection lost under a running `qna` goes to no cleaning up (`ssh.py:913`), though the comment at
  lines 182-185 knows that `qna` may go on; and the command that stops one ends in `true` and may not be
  allowed its `pkill` (`ssh.py:474-485`), so that it is taken to have succeeded. In both the user is
  told nothing: `unheard` in `HungIsStopped`.
- A results call that begins before a computer's answer and ends after the
  deadline is the last (`fastquery.py:650`), so a computer that answered just in
  time may be called silent where the server is slow; the comment at line 74 says
  that computers that answered must not be. `SilentIsSilent` holds as of the moment
  the last call began, and `QuickLosesNobody` says in time for a server that keeps up.
- Commands that come before `qna` and hang are not counted towards giving a target
  up (`ssh.py:413`), though the docstring at line 408 speaks of any: `GivesUpOnQna`
  is asked of `qna` runs.

Of hosts (`hosts`):

- A key is written as soon as its own pick is settled, and the later picks are still asked for theirs
  (`ssh_discovery.py:1063-1084`). Stopped there, or in the tests, `known_hosts` keeps keys of hosts that were never
  tested, where lines 1063-1064 say "only once it's certain to be tested" and line 5 that nothing is written that
  didn't work: `KeyOnlyForTested` is said of the time after the tests.
- An inventory entry of another transport is no candidate's twin (`ssh_discovery.py:832-834`), so a pick of its
  name is offered and tested, and then silently not written (`discovery.py:511`): `taken`. And a stop at a prompt
  loses what the tests have found.
- Two picks that share no address but are linked by a third name, and present the
  same key, are both tested (`ssh_discovery.py:1023`; lines 35-37 say no machine is).
  `TwinsSkipped` is asked of names that share an address.
- A host that the user adds under another name while the tests run is added again: what the inventory knows is
  what it knew at the first read (`discovery.py:246-250`). `AddsOnlyNew` is said of that.
- A placeholder inventory to which the user has added nothing but `[defaults]` is
  replaced, and those with it; a run stopped between making the file and removing
  it leaves an empty one, and none runs by itself again. `UserKept` speaks of hosts, and not after an interrupted
  write.

Of the stream: a cancellation that arrives in `_release` interrupts `aclose` itself
(`ReleaseInterrupted`): what the transport held is left to its own deadline,
which `StraysStop` shows it obeys.

### Bounds

- *Two groups.* Groups meet only at the semaphores, at a shared resolver and at
  the count of sentinels; two contending for one permit show every conflict, and
  the theorems cover any number. Three expressions are one alone, one chunk of
  two; one more would repeat the chunk. `MaxSteps` is 1 in the stream's runs,
  where a step is one more round, and 2 in `fallback`, where the code has 3, with five
  releases so that the loop may run out of steps before it runs out of releases; the
  theorems have any number.
  `MaxSub` of 2 lets a cell's second result come after its first.
- *Two runs of the fallback*, one in each of two processes: every race on the memory is between one
  reader and one writer. The indexes of `FiveReleases` have a release without an artifact or two
  unlisted ones at places that matter, or no gap; `Runtimes` are none, the oldest, the last before the
  split and the newest. Only one of the runs keeps its container and fails in other ways, so that
  the other shows what is owed to one that does not.
- *Two transports and two containers*: a transport
  has at most two at once, the kept one and one adrift, so that two transports contend for names here.
  `Idle` 2, `Margin` 1 and
  timeouts 1 and 3 lie on both sides of the idle window; only their order
  matters, and `WindowCovers` is proved for all values. `MaxUses` is 2, for a kept
  container must be used again, and 1 beside a sweep.
- *Images.* Two platforms make every conflict about an alias; `MaxGen` 2 lets the
  name move once, `MaxTrouble` 1 is one failure or one act of others. Five
  images: complete, without a shell, with one library more than the loop can mend,
  foreign with one it can, and with one that is mended before `qna` fails without a name. Only the complete
  one is combined with what a daemon may have already, for the pulls do not look into an image: the one without
  a shell meets a daemon that has nothing of it, the other three a daemon with their aliases.
- *Three tasks in two processes and two chunks* for the cache: a race within a
  process and one between processes at the same time; two chunks make "some but
  not all" possible. There is an inode for each download under way, and a run in
  which none is free would only stop a thread from opening one. *Three calls and
  two files* for unpacking: one whose thread is left behind, one that follows in its process, and
  one of another process, with crashes, errors and cancellations in any order. *Three failures and one command
  left behind* on a target: enough for an
  attempt to fail in its cleaning up after another's failure.
- *Five expressions*: one alone and two chunks of two, or two tuples and one beside
  them; costs of 1, 2 and 4 with 3 bytes in a chunk are "fits with another", "only
  alone" and "too large". *Two computers, a cap of one call, `Deadline` and `Floor` 2*:
  calls queue, and the floor of one that begins late passes the deadline; three
  computers and a cap of two pass as well. *Four expressions over ssh*: a single, a batch of
  three of which one is slow, and what follows; two connections are the stuck one and
  the fresh one.
- *Three names, one inventory host, two machines, two addresses, two users* for ssh
  hosts: a twin among the picks and one in the inventory, a third name that
  links two groups. The name heard has no key known beforehand, the name seen is an
  address, which yields to a name, and it may have this machine's own key. Only
  three patterns of addresses and four of aliases are taken. *Three images of two distributions*:
  a newest and an older tag, a default that is pulled and one that is not, a
  catalog for two architectures, one whose manifest says nothing; `MaxRuns` 2 is a
  first run and one into the file it left.

`CHECK_DEADLOCK FALSE` is in the configurations of `install`, `unpack_partial`, `evaluate`, `hosts`,
`image`, `image_lists` and `cache_cancelled`, where the system stops once everybody is
answered, evaluated or served, or the user is done; that it does not stop before
is what `Answered`, `AllEnd` and `AllServed` say, where there is anything to wait for. The stream says that it is over with `Over`.

### Fairness

- Stream: each awaited call has a timeout (the transports' `timeout_s`, the HTTP
  client's), so a group or a unit that can go on does: weak fairness, except for
  targets in `Slow`. `asyncio.Semaphore` wakes its waiters first come, first
  served, so an acquisition that is possible again and again happens: strong
  fairness of `TakeBudget` and `EvaluateStart`. The caller asks for the next
  result until it closes; that it closes is never assumed.
- Containers: time passes, PID 1 ends when its deadline has come,
  `asyncio.wait_for` ends a command by its timeout, and the round trips before a
  command end. Nothing is assumed of removals, of the sweep or of the process.
- Images: weak fairness of `Work`, what the two runs do: each call to the daemon and
  each command in a build container has a timeout. Nothing is owed by the registry or by others.
- Cache: the event loop runs a task that can go on, and a thread's download goes
  on until it ends (`requests` has a timeout per read, the artifact an end). That
  a lock is *had* needs only weak fairness of the task: within a run each task
  takes it at most once, so it cannot be taken from under a waiter for ever.
- A target: each client takes its next step and each command begins and ends, in its
  own time. The failures are finitely many, so `ComesToUse` says that what they leave
  behind does not block the next attempt.
- `evaluate`: weak fairness of the next-state relation of each part. The event loop
  goes on while anything is due and time passes otherwise; every run of `qna`, every
  call and every command has a timeout, of which `CallTimeout`, `Hang` and a failed
  `UnitEnd` are the ends.
- `hosts` and the discoveries have none: the user may walk away from a prompt.

## 5. What is proved

The eight `*Proofs` modules are checked by TLAPS to the last leaf, for every value of
the constants that satisfies the named assumptions of the modules. Types come
first in each. A theorem about an MC module that holds several parts is one of every
part, for an unbounded instance of it: `MCInstall`, `MCEvaluate` and `MCHosts` fix
nothing but what the assumptions in them name.

**EvaluateStreamProofs** (from `GroupsAssumption`, `BoundsAssumption`):
`PermitsSafe`, `NothingOutlives`, `Implementation`, all from
`Invariance`, the inductive invariant `IInv`. `PermitsConserved` alone is not
inductive: that a returned permit was taken needs each unit in flight to belong
to a group that is evaluating (`UnitInv`) and each holder of an image permit to
be one that takes part in the budget (`StageInv`). That the stream does not run
out early needs the count of sentinels tied to the groups not yet seen off
(`SentinelInv`: a sentinel is its group's last burst), and that nothing arrives
twice or is lost needs each result to be in exactly one of three places, not
emitted, on the queue, received (`DeliveryInv`). `ResolverInv` and `CancelInv`
say what a close leaves running.

**QnaFallbackProofs** (from `VersionsAssumption`, which says that requirements
only grow from release to release, and `RunsAssumption`), of any number of runs in any processes, with
failures of any kind: `TypeCorrect`, with
`LoopInv` for the bound of the steps. `WhatIsRememberedWorks`, until the runtime gets older:
`WorksInv` says that a run about to record has seen the version start, or fail in another way, and then
the entry is `doubtful`. `TheNewestThatStarts`, of every run
that keeps no container and meets no other failure: `RunFallsBack` says of a run in
the loop that it has passed every listed release down to where it is, one step each,
and that none of those starts; `fallback_kept` shows why it is not said of a run that keeps one.
`TheNameIsTrue` of every answer: `RunNames` says that the container of a run that is stepping back
holds the build found too new, so that what comes out of it is too new again or a failure, never an answer.
`ItHeals`: `RunHeals` says of a run that was misled that it drops the entry
or that another has been written before it ends, unless it met a failure of another kind in its place.
`TheVerdictIsKept`: what a run is about to write redirects the same versions as what it has read, and
that is what is there, unless it was overtaken; `OneWrites` says that of runs of one process it never is.

**ContainerProofs** (from `UsesAssumption`, `TimesAssumption`): `TypeCorrect` with
`LocalInv` (what the control state says of the two containers a transport knows);
`NothingLeft` for all interleavings and faults; `WindowCovers` for all timeouts, opt-outs and faults, by
`Exclusive` (no container is known to two transports, so none is removed under
another) and `Covered` (where the window is `Widened`, what is left of the deadline is at least what is left of
round trip and command). A use that is not widened is one of four, each named in `Widened` by what the
code does there.

**PreparedImageProofs** (from `ImageAssumption`, which says what the images are and
that each lacks a finite list of things, and `NoneAssumption`), without provisos:
`TypeCorrect`, `AliasesArePlatforms`, `EachIsHandedItsOwn`, `TheMendableIsMended`. The alias
alone is not inductive: between the pull and the tag somebody may publish or pull the
name for another platform, so `PullOK` says of what is about to be tagged that it is
for the platform unless it is `crossed`, `JobOK` that what a build works on is for its platform in any
case, because a container for a platform can only be created from an image of it (`Holds`), `TagInv` that an image is
what its tag says unless the job was `moved` or `blind`. `MendInv` counts what a build has made good so far against its looks.

**InstallProofs**, of the cache (from `CacheAssumption`): `TypeCorrect`; if no task is
cancelled during its download, `Serves`, `DownloadsOnce` and `Implementation`, by
`Locked` (who downloads, checks or renames has the lock file), `Tied` (a thread
writes only to the staging file, only while its task waits for it) and `Verifies`
(what the check said still holds at the rename). `cache_cancelled` shows the
proviso is needed. Of what follows the cache (from `PlacesAssumption`):
`OthersTypesAreKept`, `HandedOutStays` and `NoPartialTreeIsAccepted`, for any number of calls, processes,
users and commands left behind, and faults in any mixture. Here, that one call of a process at a time is
behind the lock (`Excluded`) says nothing of a whole tree, for a cancelled call's thread writes on
without the lock and another process has its own. `LocalInv` therefore follows who truncated each file last:
in the tree a call has made, a file its own thread was the last to truncate, and has left, is
whole (`Owned`, `Sound`), every other truncation is by a thread that is `Foreign` to it, and a marker on a tree of another's
making, or one that appears while a call is clearing, means that another process is at work (`Crossed`,
`Surprised`). On a target there are two invariants. Of one user who leaves one command behind, which may
run at any later moment and does not break off, `TargetInv`: `ExtractsInPlace` says where the
extraction then works, `RenamesWhole` and `RenamesOnce` what the rename finds,
`MarksWhole` and `MarksLate` that a marker, late or not, meets a whole tree. Of all others `ManyInv`: as long
as one command alone has had a hand in a directory (`Only`), what that command has found of it still holds, so that a
marked tree that is not whole has had two.

**EvaluateProofs** (from `TimesAssumption`, `SessionAssumption`, `SizesAssumption`):
`TypesAreKept`, and

- of FastQuery `OneHardStop`, without provisos, and `WhatIsSaidIsTrue`, if there is any time at
  all (`Deadline > 0`): `Polled` says that no query waits past the stop and that one that
  ended well has every row there was when it last asked, `KeptUp` that with a server
  that keeps up it last asks at the deadline or has everything, `ToldInv` that a result is
  what its queries make of it;
- of SSH `NothingIsLeft`, of any failures: `Connections` says which connection is in use
  at each step, `Left` that what runs unmentioned is what is being stopped, or `unheard`. `TheDeadAreGivenUp`, if at
  most one expression is slow: `OneSlow` says that what timed out last had it
  in it, `TwoHung` that a target not given up has at most one that timed out alone;
- of shared runs `AnswersAreTheirOwn` and `SharingAlwaysPays`, without provisos. `OneRun` says
  that the runs an expression is in follow one another and only the last says anything, `Few`
  counts what was wasted and the lanes in use together. What they rest on is what the loops compute.
  `CutOK` is the invariant of the loop of `chunk_expressions`: what has been put away is there once and in
  order, a chunk of several fits, and each chunk could not have taken the next one's first. From it
  come `PlanOK` and `ChunksFit`. `SplitsAlways` is by counting: of
  the two neighbouring blocks of a doubled answer one would be where a trusted output has a sentinel, so
  each expression printed two blocks at most; as there are two for each, each printed exactly two, and
  its own lies where it is looked for.

**HostsProofs** (from `ImagesAssumption`, that a family's tags have a newest, and
`CatalogsAssumption`). Of images: `BothTypesAreKept`, `TheFileIsKept` (`Keeping`: what the user
wrote in time is in the file or in what is about to fill it), `OnlyNewIsAdded`, and `PullsAreNeeded`:
`Testing` says that what goes before anything tried has failed, and of the tags not tried the
newest shows that one of its distribution works (`OneOfItsDistro`), of the defaults not tried that one of their family
does (`OneOfItsFamily`). Of ssh hosts: `TestedIsWritten` (`Settling`: until the tests are over a pick is still
to come, is to be tested, showed no key or is a twin, and each later step settles one; `ConfirmSettles` and
`TwinStays` keep that), `RefusedIsNotRetried` and `MetOnce` (from `SourceAssumption` and `NamesAssumption`: an entry comes
from one of the sources and goes by a name). `GroupsOK` is the invariant of the loop of `_groups`: each
name looked at is in one group, and two groups share no key and no alias; it is kept when an entry joins
several groups, because they all go into the one it makes. `Listing` says so of the candidates and of every
choice among them, `Twins` what the fetched keys have told of the picks accepted so far. None of these has
provisos.

**SelectionProofs**: what sequences made step by step are made of, which the last two need:
`ChosenIs` (a selection's elements are those chosen, and each at most once if it was so in the
sequence), `Flattening` and `PartsInPlace` (where the parts of a concatenation begin and end), `Follows`
(a loop's values). An induction over data needs no more than that a set of numbers has
a least one (`LeastOf`), because what is to be shown for all numbers is made a set first: the
library states it of sets (`WFMin` with `NatLessThanWellFounded`), and the induction theorems, which
take a predicate, are not used.

Only model-checked are the liveness properties (`EventuallyOver`, `FastGoesAhead`,
`StraysStop`, `Answered`, `AllEnd`, `AllServed`), which rest on fairness and so on `ENABLED`, out
of the prover's reach. Every other property of the passing runs is the subject of a theorem; the
provisos that are left are that no task is cancelled during its download (the cache), that there is
any time at all (FastQuery's `WhatIsSaidIsTrue`) and that one expression at most is slow
(`TheDeadAreGivenUp`). What the four runs that find a violation check is
not true of the code and so not proved.

## 6. What is not modelled

Whole components and the reasons are in `PROJECT.json`. Within the modelled ones:

- *Stream*: validation of arguments before the first task; the corrective probe of
  a platform after a failure, which changes a label; a second cancellation while
  the generator is closing; the threads in which a resolver works and which
  outlive its cancelled task. When a fan-out group forms a unit is left open here;
  `SharedRuns` has it.
- *Shared runs*: cancellation, and other groups' permits, which `EvaluateStream`
  has; the text of an output beyond its blocks.
- *Fallback*: the `qna_fallback_from` tag of a result, the entries of other
  targets in the memory file, a file that cannot be read or saved (one that cannot be read for a
  moment counts as empty, `compat_memory.py:132`, so that the next save drops the entries of all targets). The target
  changes only between runs.
- *Containers*: a container created and never
  started; two calls at once on one transport, which the orchestrator never
  makes. The renewal and the platform check have no timeout in the code; the model
  takes them to end within the margin. Ids are not used again.
- *Images*: the cancellation of a shared pull or build; the single commands of one fix, which are one
  step, for nobody else uses the build container.
- *SSH*: a connection lost for good is not replaced until the next command finds
  out, as in the code; a file transfer, which has no timeout
  (`ssh.py:925-926`); two evaluations at once on one transport.
- *FastQuery*: credentials and sessions of the two back ends, the grouping of rows
  by their text.
- *Cache, extraction, provisioning*: a disk that refuses the rename or the `.sha256`
  file beside the artifact; a change of the staging file in the middle of its
  checksum; the lock that a cancelled waiter's thread may still come to hold until it
  is collected; a removal of a tree that stops half way. A full disk is an error like
  any other. Whether a checksum was published is a choice of `Enter`.
- *Discoveries*: the steps inside one test; the sources' own parsing and the
  network; edits of the user that are not new hosts.
