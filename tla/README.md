# A verification of openkal in TLA+

openkal is an interface between a program and the environment it runs in: C
headers and C++ modules that declare the operations of a small kernel
(streams, processes, tasks, files, memory, ...), a kit of portable helpers
built upon those operations, a conformance suite that examines an
implementation, examples, and the probes and scripts that the project runs
upon itself. No implementation of the interface is in the repository. What
can go wrong here is therefore not in a kernel but in the code that *uses* one:
two contexts around a ring or a lock, a harness that watches a tree of
programs through what an environment tells it, a suite that examines an
environment beside copies of itself and must neither blame it for what the
suite did nor leave anything in it, and a script that rewrites files it must
put back.

Paths below are those of the repository. Every module says in its head
comment what it models; `PROJECT.json` maps each definition to its lines.

- [Inventory](#inventory)
- [Modules](#modules)
- [Runs](#runs)
- [Fairness](#fairness)
- [What is proved](#what-is-proved)
- [Findings](#findings)
- [Seen beside the findings](#seen-beside-the-findings)
- [What is taken from outside](#what-is-taken-from-outside)
- [What is not modelled](#what-is-not-modelled)
- [How it was built, and what is left](#how-it-was-built-and-what-is-left)

## Inventory

### Components with state of their own

**The kit's channel** (`kit/src/channel.cppm`). A ring of bytes in one region
of memory, shared by one writing and one reading context: two free-running
32-bit indices `head` and `tail`, a flag `closed`, the bytes. Operations:
`channel_open`, `channel_write`, `channel_read`, `channel_pending`,
`channel_close`, `channel_destroy`. The two contexts meet in shared words and
in `kal_task_wait`/`kal_task_wake` upon the two indices.
*Hard:* every interleaving of the two, the wait that races the move of an
index, a close from either side at any step, wrap-around of the indices,
stores that become visible out of order, the destroy.
*Correct when:* what is read is a prefix of what was written; the ring never
overfills; no context sleeps while the other has moved its index and owes no
wake, and the two never sleep at once; a write reports what it put in; what
`channel_pending` told an end stays true for it; an end that waits learns of a close, and end of input is
not reported over bytes.

**The suite's mutex** (`conformance/src/sections/task.cpp`, 26-59 and
298-308). One word (0 free, 1 held, 2 held and wanted), a plain counter, four
contexts that increment it 20000 times; `run()` starts them, joins them and
compares. *Hard:* the mark and the wait race the release; a release wakes one
of many; a start may fail. *Correct when:* contexts exclude one another, no
sleeper is forgotten, increments are atomic, the counter is read after the
last of them, and a sound environment is not reported as unsound.

**The portable example's lock** (`examples/portable/src/main.cpp`, 75-107).
The same word with other halves: a contender looks, then marks with a compare
and exchange, then waits; a release is a subtraction, a store and a wake.
*Hard:* between the three steps of a release anyone may act. *Correct when:*
the same properties hold.

**The exercise of observable units** (`.github/checks/job_observer.cpp`). A
root, an optional launcher, a helper that declares a unit, a driver and a
writer within it. They speak through four channels of the environment, exit
statuses and one output file; the root holds a reference to the unit. Four
modes: the helper retires the unit itself, is ended before it is acknowledged,
is ended with descendants at work, or was started by a launcher that has ended.
*Hard:* any order of five programs, orphans, ends of channels held by one
program too many, the question asked of a unit whose members have ended and
were not awaited. *Correct when:* no check of the exercise fails in any order;
the unit is called empty only when nobody of it works and nobody can be
admitted; nothing is admitted before it is watched; every exercise ends.

**The probe of process units** (`.github/probes/process_unit.cpp`). The same
question asked of the bare kernels: a unit is a process group on POSIX and a
job on Windows. A harness, an owner, a driver and a writer, which speak through
files put in place by a rename, exit statuses and signals. *Hard:* the owner
is killed at work; the harness loses patience while the programs are still
starting, and its cleaning up kills a group a program is not in yet; dead
programs still count as members. *Correct when:* the checks hold in any order,
the unit is observed empty only when it is, and nothing is left running
however the harness ended.

**The conformance script** (`tools/run-conformance.sh`). It copies two
manifests, rewrites them, restores them in a trap, discards `target` unless a
record in it names this run's features and flags, deletes old suites, builds,
records, and runs the suite it finds. State: two files under version control,
two copies, and a directory that survives from run to run. *Hard:* a kill or a
failed build between any two steps, a request to end while it rewrites, a build
tool that reuses what was compiled for other features. *Correct when:* what is
run is what was asked for, there is exactly one suite to run, and the manifests
are as committed afterwards.

**The conformance suite** (`conformance/src`). `main`, `suite` and `report`
run twenty sections one after another in one directory, count what held, what
did not hold and what was not observed, and end with a status. A section is
blocks; a block is calls, each made where the answers before it allow, some of
them observations. For some blocks the suite starts a *copy* of itself, told by
an argument to perform an errand (`child.cpp`) and observed by the status it
ends with. State: what is in the directory, the handles each program holds, the
copies and what they have of one another, the display's mode, the counts.
*Hard:* suite and copies interleave; a request to end races the copy that is to
take it over; any call may be refused and the block must then release what it
had and say what it did not observe; the suite may be killed and run again
where its first run was; what one section leaves the next finds. *Correct when:*
a conforming environment is never reported as one that does not conform; what
a run made is gone when it ends; no handle is lost or used before it is held;
what is removed is held by nobody; what was not observed is said to be; a
verdict is reached.

**The kit's endpoint** (`kit/src/endpoint.cppm`). `format_v4` and `parse_v4`
over an address and a port. Pure. *Correct when:* each undoes the other.

### Components that are not modelled, or only named

| component | state and interaction | why |
| --- | --- | --- |
| interface headers and modules (`include/`, `src/*.cppm`) | declarations; no definition of an operation | `Calls` names the calls the suite makes; what they answer is external |
| `retire_boundary` | an implementation's system calls, stepped | examines the inside of an implementation that is not here |
| `check-*.sh`, `gen-macros.sh` | one pass over lists of names | keep nothing between runs |
| runners, sandbox | build and run once in a temporary directory | no shared state |
| the substitution example | two trivial implementations of one call | sequential |

### Who meets whom

```
 channel ──────┐ shared words, wait/wake        conformance suite ──starts, awaits,──> copies
               │                                      ^   │          terminates          │
               │                                      │   └─ files, handles: environment ┘
 suite mutex ──┤                                      ^ built and run by
 portable lock ┘                                run-conformance.sh ── manifests, target/
      │                                               (build tool)
 openkal.task (external)
                                   job_observer ── openkal.process (external)
                                   process_unit ── the kernels' groups (external)
```

## Modules

| module | what it is | extends / instances |
| --- | --- | --- |
| `TaskWait` | `kal_task_wait`, `kal_task_wake`: external, as `include/openkal/task.h` promises a caller | |
| `ByteStream` | abstract: a bounded stream of bytes with an end | |
| `Channel` | the ring | `TaskWait`, `ByteStream` |
| `AtomicCounter` | abstract: increments that are one step each | |
| `Mutex` | the suite's mutex and its users | `TaskWait`, `AtomicCounter` |
| `CounterTest` | `run()` around them | extends `Mutex` |
| `PortableMutex` | the portable example's lock and its users | `TaskWait`, `AtomicCounter` |
| `QuietUnit` | abstract: what "the unit is empty" promises | |
| `JobObserver` | the exercise, over `openkal.process` | `QuietUnit` |
| `UnitProbe` | the probe, over process groups | `QuietUnit` |
| `ConformanceRun` | the script, its checkout and its `target` | |
| `Endpoint` | the text of an endpoint | |
| `Calls` | the calls the suite makes of the interface, as data | |
| `Environment` | what a conforming environment answers and becomes: external | `Calls` |
| `FsSection`, `ProcessSection`, `RegionSections`, `ContextSections` | the suite's sections, block by block | `Calls` or `Copies` |
| `Copies` | the errands of a copy, and how one is started | `Calls` |
| `Sections` | the order of the sections, and the blocks of which less holds | these |
| `Blocks` | how a program goes through a block: the next step, what it knows and holds after it | `Calls` |
| `SuiteAlone` | the suite as a program with no environment: answered anything, refused at will, killed at will | `Blocks` |
| `ConformanceSuite` | the programs in an environment: the suite, its copies, its report | `Environment`, `Sections`, `SuiteAlone` |
| `SectionWays` | what is known, held and said on every way through every block, computed | `Sections`, `Blocks` |
| `*Proofs` | theorems about the module they are named for | extend it and `TLAPS` |
| `MCChannel`, `MCCounterTest`, `MCSuite` | what TLC needs beside them: sets; `SectionWays` beside the suite | |

A definition headed by a comment `Mutant:` is a plausible mistake in the action
that follows it. No specification uses it; it exists so that each property can be
seen to notice the mistake.

**`Channel`.** `head`, `tail`, `closed`, `bytes` are the ring's words, `w` and
`r` the locals and the place of the two contexts (`pc`, `len`, `done`, and the
loaded `head`, `tail`, `n`, `i`). A step is an access to a word the *other*
context writes; work upon locals belongs to the step before it. So
`channel_write` (86-121) is `WriteCall`, `WriteTest` (the test of `closed`),
`WriteLoad` (the load of `tail` and what follows from it), `WriteWait`,
`WriteResume`, `WriteByte` per byte, `WriteHead`, `WriteWake`; `channel_read`
(128-159) likewise; `channel_close` (168-177) is a store and two wakes, from
either context between its calls. The writer's context ends when its close
returns and the owner joins it before `channel_destroy`, as the kit's test does:
the join is the guard of `Destroy`. Nothing in the channel itself keeps the region
from being given back while an end uses it, so no property is about that.
`Ordered` says whether the build makes stores visible in program order: the
words are plain, so both are possible. A byte is named by its place in the
stream, so a byte lost, repeated or invented is a wrong number.

**`Mutex`, `PortableMutex`.** `pc[c]` is where a context is in `lock`,
`unlock` and the increment; each atomic operation is one step and the plain
counter is a load and a store. `NoSleeperForgotten` is a statement of what the
three values of the word are for: while someone sleeps, the word is 2, or a wake
is on its way, or someone who is going to mark it 2 is. `CounterTest` adds
`main`: the loop of starts, any of which may fail, the loop of joins by count,
and the observation.

**`JobObserver`.** `at` is the place of each program, `status` its exit,
`parent` who awaits it, `unit` who was placed in the unit, `chan` the words and
the holders of the write end of each channel, `root` the place of the harness.
An ended program stays a member until it is awaited. A read is blocked while its
channel is empty and somebody still holds the write end, which is what makes a
write end too many a deadlock here as it is in the program.

**`UnitProbe`.** The same shape over kernels: `group` and `parent`, `armed`
for those that asked to die with their parent, `files` for the control
records. `linux` chooses between the two systems (adoption by the harness and
dying with the parent exist on one of them), `normal` between the two cases of
`posix_case`. `LosesPatience` is possible at every timed wait, and `CleansUp`
then takes its three steps while the programs go on.

**`ConformanceRun`.** The script step by step, between steps `Kill`, and
between runs `Edit` and `Revert`. A manifest is what the script changes of it.
The build tool is modelled from what the script's comments report of it:
objects per set of dependencies, reused regardless of features and flags.

**`ConformanceSuite`.** The suite's source is straight-line code with a branch
here and there, so it is modelled as data and performed by one interpreter. A
block of a section is a sequence of *steps*, one for each call that makes,
holds, moves, releases or asks something; a step names the call, the variable
its handle is in, the variable its answer is kept in, the answers the source
tests for, whether that test is an observation, and the answers kept before
under which it is made. `Calls` has one operator for each call and for the
forms the source uses them in (`If`, `Claim`, `Repeat`, `Return`, `Leave` for a
section that returns). `FsSection` and the others are then a table of the
source's blocks that can be read beside it. `SuiteStep` performs the step `pc`
is at and answers it with any answer the environment may give; `CopyStep(c)`
does the same of a copy's errand; `summarise` ends the suite. `SuiteRefused`
refuses one call, wherever it is made; `Kill` ends the suite at any step and
runs it again in what is left, copies that still run included.

The environment's state `os` has the nodes beneath the working directory, what
each program holds, the copies with how they ended, and the display's mode. What
files and regions hold is left out except for lengths and positions: an
observation about bytes is an observation of the call that moved them. A claim
(a bit of a capability word) is free at each block, so that every way through
every block is taken; what was claimed before a kill is claimed after it.

`report.silent` and `report.given` are no counts of the program. The first
remembers that a block from which a refusal took an observation ended without a
word of it; the second that an operation gave a handle where the source expects
it to be refused.

**`SuiteAlone`.** The same suite without an environment: where the suite is,
the variables of its block, the handles it holds, the report. `SuiteStep` is
answered anything its source distinguishes (success, an answer it tests for, any
other), `SuiteRefused` may come at any call that can be refused and as often as
may be, and so may `Kill`. It owes nothing to what an environment does, so what
holds of it is a property of the source: handles are kept, all is let go of,
nothing is passed over in silence. `ConformanceSuite` uses its operators for
where a program goes and what it reports, and implements it
(`ImplementsSuiteAlone`) with what the environment records as held for `holds`.
The tables leave out the branches that only an environment that does not conform
can reach, among them two of `process.cpp` (lines 213 and 251) that wait for and
close a program that was to be refused; elsewhere the source keeps what it is given
so and never releases it. So nothing is said of what is held once `report.given`
holds, and `ConformingIsNotReported` says that with one mishap it never does.

**`SectionWays`.** The tables are finite and have no parameters. This module
computes, for each block, the set of `Way`s through it (step, variables, handles,
from whatever the blocks before hand on) and the set of `Word`s (step, variables,
what was refused, whether anything was said since), and states of them, as
assumptions without constants, what the proofs use: `HandlesAreLedThrough` and
`RefusalsAreTold`. TLC evaluates both in full in the run `suite`.

**`Endpoint`.** A text is the digits of its five numbers.

## Runs

| run | shows | properties | states |
| --- | --- | --- | --- |
| `channel` | the ring under every interleaving | `TypeOK`, `BytesIntact`, `WriteCountExact`, `PendingHolds`, `NoLostWake`, `NeverBothAsleep`, `ImplementsByteStream`, `ReadReturns`, `WriteReturns` | 65 356 |
| `counter_test` | the suite's mutex and `run()`, with starts that fail | `MutualExclusion`, `NoSleeperForgotten`, `CountIsExact`, `ImplementsAtomicCounter`, `TestCompletes` | 43 259 |
| `portable_mutex` | the portable lock | `MutualExclusion`, `NoSleeperForgotten`, `ImplementsAtomicCounter`, `EveryContextFinishes` | 38 729 |
| `job_observer` | the four exercises | `TypeOK`, `ChecksHold`, `DoneMeansQuiet`, `AdmissionIsWatched`, `ImplementsQuietUnit`, `Completes` | 164 |
| `unit_probe` | both cases on both systems, with lost patience | `TypeOK`, `ChecksHold`, `ImplementsQuietUnit`, `NothingLingers` | 1 138 |
| `conformance_run` | the script, again and again | `TypeOK`, `ReportsWhatWasAsked`, `SuiteIsUnambiguous`, `ManifestsRestored` | 32 432 |
| `suite` | the whole suite and its copies, with one call refused or one kill and a second run | `TypeOK`, `ConformingIsNotReported`, `LeavesNothingBehind`, `HandlesAreKept`, `RemovesOnlyWhatIsFree`, `UnmadeIsReported`, `ImplementsSuiteAlone`, `Completes` | 272 269 |
| `channel_close`, `channel_eof`, `counter_join`, `conformance_term`, `endpoint_roundtrip` | one finding each (below) | one each, violated | |

**Bounds, and why they are enough.**

- `channel`: a capacity of 2 (the program's is 4096), indices that wrap at 4
  (2^32), five bytes in all (`StreamLen`), writes of 1 or 3 bytes, reads of 1 or 2. The ring fills and empties,
  calls are longer than the ring, slots are reused and both indices wrap
  past zero, which needs five bytes. The ratio of index range to capacity, a
  power of two above 1, is all the code's arithmetic uses; the proofs have it for
  every value.
- `counter_test`: three contexts, two increments each. Three are needed for a
  release that wakes one of two sleepers, two increments for a context that
  comes back to a word others still sleep upon. The proofs have every set.
- `portable_mutex`: three contexts, of which `main` is one, two increments.
- `job_observer`, `unit_probe`: no bound; the scripts are finite, and every
  order of their steps is explored. The five seconds of the exercise are taken to
  be long enough; in the probe every wait may be too long.
- `conformance_run`: two feature sets, two sets of flags, two arrangements,
  three runs, one kill, one edit. Anything stale needs a run that made it, one
  that should have replaced it, and one that is misled.
- `suite`: one mishap in a run (`MaxMishaps`): a refusal or a kill at every step
  there is. The module takes any number, and so do the theorems; what is said of
  one mishap only (`OneMishap`) is said so in the properties. Two copies at once
  (`CopyNames`): one the suite started and one a killed run left; a start for
  which no name is left is refused, which with two never happens. A loop that
  only shows that a block can be repeated is unrolled twice. `AlwaysClaimed =
  {"channel"}` and `ShortReads = FALSE` are assumptions, not bounds: see
  [below](#seen-beside-the-findings).
- `endpoint_roundtrip`: octets 0, 10, 255 and ports of every number of digits.

**Deadlock.** Every cfg turns the check off, for one of three reasons. The
scripts, programs and contexts end, and a state in which all have ended has no
successor. In the channel a reader that nobody writes to may sleep for good, which
is what a channel is for; that no context sleeps when it should not is
`NoLostWake`, `ReadReturns` and `WriteReturns`. The suite waits for
ever for a copy that waits to be terminated and whose termination was refused;
`Completes` names that state and says that there is no other. In the others
the liveness property says that the end is reached.

## Fairness

- *Channel:* `WF` of the steps of an operation that was called
  (`WriterRuns`, `ReaderRuns`): a context inside an operation and not suspended
  keeps running. Nothing obliges a context to make a call or a close, and
  nothing obliges a wait to return spuriously.
- *Mutexes:* `WF` of each started context, by itself, and of `run()`. The
  environment schedules every context; it need not be fair about who gets the
  word, so only weak fairness is assumed and only that everyone finishes is
  claimed (a bounded number of increments).
- *`JobObserver`, `UnitProbe`:* `WF` per program, for the harness, and for
  whoever reaps orphans. A killed program takes no further step. In the probe,
  programs wait 20 s where the harness waits at most 5 s at each wait, so their
  own bounds expire only once it has ended; that is the guard of `WriterGivesUp`.
  The owner is dead before the harness ends and never runs out of patience.
- *`ConformanceSuite`:* `WF` of "some program that can take a step takes one".
  The suite and its copies are finite scripts that wait for one another, so no
  fairness among them is needed. Nothing obliges a mishap to happen.
- *`ConformanceRun`:* none; only safety is claimed.

## What is proved

The theorems hold for every value of the constants that satisfies the named
assumptions. All are of the form `Spec => ...` and rest on an inductive invariant
`IInv`, kept by every action: one lemma per action, or one per part of the
invariant with a step for each action, then `PTL`.

**`ChannelProofs`** (assumes: the capacity divides the index range and is
smaller). `RingBounded` is not inductive: the wrapped indices say nothing of how
far the writer has come. `IInv` ties them to the history
(`Wrapped`: `head = sent % IndexRange`), bounds the history (`Bounded`), and says
what the locals of a context mean while the other moves:

- `WriterInv`: the loaded `head` is current, room computed from an old `tail`
  is never more than the room there is, what was reported and done adds up to
  `sent`, and a write is short only after a close;
- `ReaderInv`: the same of the reader;
- `PendingInv`: what `channel_pending` said, carried through the next call;
- `SleepInv`: who sleeps, upon what, and who owes the wake.

Lemmas `UsedIsDifference`, `SlotOfByte` and `SlotsDistinct` are the arithmetic
of wrapping. From `IInv` follow `AlwaysTypeOK`, `AlwaysRingBounded`,
`AlwaysWriteCountExact`, `AlwaysPendingHolds`, `AlwaysNoLostWake` and
`AlwaysNeverBothAsleep` (two sleepers would need a ring full and empty), all of
them whether or not stores are seen in order.
With `Ordered`, `DataInv` says which byte each slot between `tail` and `head`
holds, and gives `AlwaysBytesIntact` and `RefinesByteStream`. Without it
`BytesIntact` is false: with `Ordered = FALSE` in `channel.cfg` TLC finds a
reader that copies a byte nobody wrote.
`RingBounded` is proved only: what it says of the small instance, the other
properties of its run would notice.

**`MutexProofs`, `PortableMutexProofs`** (assume: the number of increments is
a natural). `IInv` adds to the two properties that sleepers are at the wait,
that what a context loaded inside is still the counter (`SeenIsCurrent`) and that
it locks only to increment. They give `AlwaysMutualExclusion`,
`AlwaysNoSleeperForgotten` and `RefinesAtomicCounter` for every set of contexts,
finite or not. **`CounterTestProofs`** carries them over to the contexts
`run()` starts (`TestUsesMutex`: each step of the test is a step of the mutex or
none), and proves `AlwaysJoinsEveryContext` from `JoinInv`: where every start
succeeded the joins by count are the joins by handle. From it and the
refinement follows `AlwaysCountIsExact`, for every number of contexts and of
increments. A sum over contexts would need an induction, so the increments made
are counted as a set: `IncrementsMade` holds the pair of a context and k for
each k-th increment it has made. `EachIsCounted` says that its cardinality is the
counter; a step of the mutex adds to it one pair or none (`OneIsCounted`), and
when every context is done it is all pairs (`AllAreCounted`).
The `AlwaysTypeOK` of both locks, which no run checks by itself, and of the script
below are read off the invariants.

**`ConformanceRunProofs`** (assumes: no kill leaves a checkout that is used
without a revert, no request to end, `None` is none of the values it stands
beside). `IInv` says how far the manifests are rewritten at each step, that the
copies are what was committed, and that everything compiled was compiled for
what the record says (`MadeForStamp`) — the reason the record is removed with
`target` and written last. It gives `AlwaysReportsWhatWasAsked`,
`AlwaysSuiteIsUnambiguous` and `AlwaysManifestsRestored`.

**`JobObserverProofs`** (assumes nothing: the exercise has no parameter; what is
proved is every order of its five programs in each of the four modes). `ChecksHold`
and `DoneMeansQuiet` speak of the ends of programs that nobody has looked at yet,
so `IInv` says where each program may be for where the one it answers to is:

- `Places`: launcher and helper beside the root (`Beginning`, `Middle`,
  `Closing`), the driver beside the helper and the writer beside the driver
  (`DescendantsFollow`);
- `ParentsAwait`, `NobodyFails`: who is whose child, and with which statuses
  they end;
- `UnitFollows`: who is in the unit;
- `Words`: which words a channel can hold, and who holds its write end, at each step;
- `RootWatches`: when the root holds its reference.

From it: `AlwaysTypeOK`, `AlwaysChecksHold`, `AlwaysDoneMeansQuiet`, the action
property `AdmissionAlwaysWatched` and `RefinesQuietUnit`. For the last two
`OnlyTheseAdmit` shows that two steps alone bring a program into the unit, and
`AdmittedInTime` that they come while the root watches and before anyone asked.

**`UnitProbeProofs`** (assumes nothing likewise; both systems and both cases). A death
may take others with it, so every step that kills is one of the outcomes of
`Died(S)`, and each part of the invariant is shown of those outcomes once. The
parts: who is in the group (`Grouped`), what has not been asked yet
(`NotAsked`), what a record tells of the program that put it in place
(`Starting`), the two cases at work (`Serving`, `Orphaned`), the writer's output
(`Writing`), and that whoever finds the unit empty finds that nobody will enter
it (`QuietIsSettled`). From it: `AlwaysTypeOK`, `AlwaysChecksHold`,
`RefinesQuietUnit`. No part says that the programs reach anything: a harness that
loses patience at any wait is covered by every one of them.

**`ConformanceSuiteProofs`** (assumes that the copies' names are not the suite's,
that the sections are sequences of calls (`SectionsAreCalls`) none of which ends
the suite (`SectionsEndNothing`), that a block begins with a call that is made
(`BlocksBegin`), and that an errand ends its copy whatever is answered on the way
(`ErrandsEnd`)). All but the first are statements about the tables in `FsSection`
and the others, which no constant enters; TLC evaluates them on the tables as they
are, for every valuation of the variables an errand tests. The theorems then hold
for any number of copies, any claims, short reads too, and any number of refusals
and kills (`MaxMishaps`).

`AlwaysTypeOK`. `IInv` is `Sound` of the environment (a copy that runs is about
an errand, a program that has ended holds nothing, and `Rooted`: what a
node is in is there and is not waiting to go with its last handle) with the
places of the suite (`SuitePlace`) and of the copies (`CopyPlaces`, which needs
that a copy that does not run will begin with its first step). `DoEvolves`
shows of every call there is that it keeps the environment sound and leaves a copy
that runs on about its errand; `AfterAStep` and `ErrandGoesOn` that a program goes on
at a step or ends. `Rooted` was not inductive at first: an environment that lets a
file be made in a directory that is gone, or lets a directory be renamed
with what is in it left behind, was permitted and never exercised. `Environment` now
refuses the first and says nothing of the second, which the suite does not do.

`RefinesSuiteAlone`. Each step of the suite is one of `SuiteAlone`, each step of a
copy none. Of every call of the interface a lemma (`OpenGives`, `TreeCallsHold`,
`FileCallsHold`, `ClosingHolds`, `SpawnGives`, ...) says what it changes of the
handles of the program that makes it (what `HoldsAfter` has it change) and that it
changes nothing of what the suite holds where a copy makes it, whoever that call
ends; `DoHolds` puts them together. `ToldApart` shows that every answer is one
`SuiteAlone` gives, and `RInv` adds to `IInv` where the suite's variables are.

`HandlesAreAlwaysKept`, `HoldsNothingMore`, `UnmadeIsAlwaysReported`. These are
theorems of `ConformanceSuite` that its environment has no part in: given the
refinement, they are shown of the steps of `SuiteAlone`. What the tables
contribute is a case for each of their steps and each way to it, which is no work
for a prover, and finite: `SectionWays` computes it. `OnItsWay` says that what the
suite knows and holds is one of the computed ways through the block it is in, and
`HasSaid` that what it was refused and has said is one of the computed words.
`AnswerLeadsOn` and `AnswerIsTold` show that each answer leads from one to another,
within a block, to the next, or to the next section (`WhereItGoesOn`); the
properties are then what `WellLed` and `WellTold` say of each. So they hold for any
copies, claims and reads, and for any number of refusals and kills: of those the
argument uses only that each is a step of `SuiteAlone`. The two of
what is held are about a suite that was given nothing it was to be refused (see
`SuiteAlone` above). `HoldsNothingMore` is then what `LeavesNothingBehind` says of the
suite's own handles, but that it does not say that there are no more contexts
unjoined than calls refused.

**Only model-checked.**

- Everything under fairness, which the prover does not reach: `ReadReturns`,
  `WriteReturns`, `TestCompletes`, `EveryContextFinishes`, both `Completes`,
  `NothingLingers`.
- Of the suite, `ConformingIsNotReported`, `LeavesNothingBehind` (but for the handles
  the suite itself holds, as far as `HoldsNothingMore` covers them) and `RemovesOnlyWhatIsFree`.
  They relate what the tables say, step by step, to what the environment has become,
  so that the finite computation that serves the others would be the run itself.
  What bounds it beyond the source, one mishap and two copies, is stated above.

## Findings

Each is a run that TLC refutes, against a sentence of the repository.

1. `channel_close` — `kit/src/channel.cppm:172`. An end that has tested
   `closed` and not yet called `kal_task_wait` is not asleep when
   `channel_close` wakes, and `closed` is not the word it then waits upon: it
   sleeps and nothing wakes it. The comment at line 164 says both ends "must
   both learn that no more is coming".
2. `channel_eof` — `:146`. The reader loads the indices, finds the ring
   empty and then tests `closed`; a write and a close in between are reported as
   end of input with bytes in the ring. The comment at 142 says that the order
   of the tests prevents this.
3. `counter_join` — `conformance/src/sections/task.cpp:304`. When a start
   fails and a later one succeeds, `run()` joins by count and not by handle; the
   counter is read while a context increments, and a sound mutex is reported as
   losing increments.
4. `conformance_term` — `tools/run-conformance.sh:81`. The trap restores on
   `TERM` and does not exit; what is rewritten after it stays rewritten.
5. `endpoint_roundtrip` — `kit/src/endpoint.cppm:108`. `digits()` writes three
   digits at most and is used for the port: 8080 is written as 080.

## Seen beside the findings

The properties of `suite` are stated with the exceptions under which they hold,
each named in the property; without it TLC refutes the property. They are what a
maintainer may want to know:

- `ConformingIsNotReported`: a run killed while its directory has entries in it
  makes the next one report the environment: `sections/fs.cpp:533` removes that
  directory as if it were empty, and the creation that follows is observed. And
  where every creation of the section's file was refused (four in a row), the
  exclusive open of `fs.cpp:515`, which is to be refused because the file is there,
  succeeds and its handle is lost.
- `LeavesNothingBehind`: a write refused in `make_file` leaves the file
  (`map.cpp:67`, `exec.cpp`); a context refused among the identities leaves a
  later one unjoined (`task.cpp:323`, the same joins by count as finding 3); a killed
  suite's copy may leave its file or the directories of its grants, and a killed
  suite the display's mode.
- `HandlesAreKept` (`Unchecked`): after a refusal, `process.cpp:593` removes a name through a
  directory handle that was never opened, and `task.cpp:323` joins what did not
  start.
- `UnmadeIsReported`: `conformance/README.md:75` says that every unmade
  observation carries the reason it was not made. Nineteen blocks
  (`SaysNothing`) end without a word where a call was refused, the start of a copy
  or the opening of a file for the most part.
- `Completes`: `process.cpp:75` waits for a copy whose termination was refused.
- *Short reads.* `include/openkal/stream.h` lets a read move fewer bytes than it
  was asked for; the suite observes whole counts (`fs.cpp:398` and others). With
  `ShortReads = TRUE` TLC finds a conforming environment reported. The runs
  assume whole reads.
- *Channels.* `process.cpp:268` observes that a channel is created whether or not
  it is claimed, and then that an unclaimed one is refused: an environment that
  does not claim it fails one of the two. The comment above it says such an
  environment is not meant to reach the section, and `AlwaysClaimed` follows it.
- *The channel's words* are plain, a data race in the language's terms; see
  `Ordered`.

Two waits the model does not show going wrong, since it has no lost messages
and no full channel: `datagram.cpp` waits without a bound for a message the
network may lose, and `debug.cpp:65` awaits the copy that faults before it reads
the channel its report is written to, which must hold all of it.

## What is taken from outside

- `openkal.task`: `TaskWait`. The comparison and the suspension are one step,
  a wake of one reaches any sleeper, waits may return spuriously.
- `openkal.process` in `JobObserver`: starting places a child in the unit of
  its starter; observing answers by members not yet awaited; a retirement may or
  may not take the caller out of a unit that is still occupied, does so of one
  that is empty, and learns nothing under an identity that names no running
  program.
- Process groups in `UnitProbe`: a group exists while a member is running or
  unreaped; a system may refuse to signal a group in which nobody runs (the
  probe's answer `unknown`); no number is given twice.
- The whole interface in `Environment`, as its headers promise and the suite
  uses it. Where the interface permits several answers all of them are taken: a
  name that is removed while it is open may go or stay until it is released, a
  request to end may reach a copy as a request or end it, a link may be refused.
  A starter's five seconds are shorter than the twenty a copy waits, and its
  300 ms may be shorter or longer than anything a copy does.
- The build tool and the linker in `ConformanceRun`.
- `kal_task_join` of a handle no start filled returns: there is no context to
  wait for.

## What is not modelled

Within modelled components: the null-handle returns of the channel; more than
one writer or reader, which its header excludes, and a third context that asks
`channel_pending`; failures to make a channel or start a program in the
exercise, which end its harness, and its limit of five seconds; the argument
checks of the script, and a kill of it without a revert, which it declares itself
not made for.

Of the suite: what files, regions and messages hold; branches that only the
answer of an environment that does not conform reaches (`process.cpp`, lines 213
and 251, and what follows an answer to be refused elsewhere); a call of a copy that
is refused for want of something, and with it the status of `child.cpp:272`; the text
of the report;
`locate_self`, which asks for names; the steps of the contexts the task, net and
prof sections start, each of which is obtained and joined (the contended counter
is `CounterTest`); the features left out of a build, which leave out sections.

Of the probe (`partly`): `windows_case`, which follows names and handles of a
kernel that nothing in the repository describes; `reuse_case`, which starts
programs until a number is given again, and asks the kernel rather than the code;
`stderr_intervals`, which measures time. Of the endpoint (`partly`): the refusal
of malformed text and the two constructors, pure functions the kit's tests reach.

The components of the table in the inventory, for the reasons given there.

## How it was built, and what is left

1. `TaskWait`, `ByteStream`, `Channel`, its runs and `ChannelProofs`.
2. `AtomicCounter`, `Mutex`, `CounterTest`, `PortableMutex` and their proofs.
3. `QuietUnit`, `JobObserver`.
4. `ConformanceRun` and its proofs.
5. `UnitProbe` (`posix_case`), `Endpoint`.
6. `Calls`, `Environment`, the sections, `Copies` and `ConformanceSuite`.
7. `AlwaysCountIsExact`, an invariant over the set of increments made.
8. The proofs of `JobObserver`, `UnitProbe` and of the suite's type invariant.
9. `SuiteAlone`, the refinement, and the handles and words of the suite proved
   from `SectionWays`. The proofs found three things the runs had not: the second
   answer of `process.cpp`'s repeated starts was kept in the variable of the first,
   so that the observation could not see the first fail; the environment's
   termination and its calls of a unit reached a copy that does not run; and `Call`
   permitted a close with a directory.

Left: `UnitProbe` with numbers given again and an observation in two steps; the
texts the endpoint refuses; channels of limited room and lost messages in
`Environment`, for the two waits named above.
