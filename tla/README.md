# Verification of netbraid

TLA+ models of netbraid, checked with TLC on small instances and, where the
result matters most and the prover reaches it, proved with TLAPS for every
instance. Two kinds of code are modelled: code whose correctness depends on the
order in which things happen (files that several runs move, download, publish
or read; tools under a deadline; batches that must all be made by one TShark),
and pure reductions of which a property can be stated that does not repeat them.

Paths are relative to the repository root (`src/` in `PROJECT.json`).

## 1. The system

netbraid turns saved captures, samples and logs into provenance-bearing evidence
records, replays them deterministically, and offers finite inference reducers
over them. Beside the Rust crate stand Python scripts that fetch public datasets,
compile caches of them, evaluate, and maintain the local data directories.

```
 data/fetch/*.py --> data/raw, data/receipts          data/migrate/*.py --> data/archive
                        |            \
                   captures           eval/compile-*.py --> caches --> eval/evaluate-*.py
                        v
 adapters::tshark::mod --(run_bounded)--> adapters::tshark::process --> capinfos, tshark
 adapters::{npy,sigmf,zeek,sdr4iot_csv,kismetdb}
                        |
                  evidence records --> replay (log, streams, flows, scenarios) --> infer
```

The Rust crate is mostly a pipeline of functions; state that survives a call
lives in files, concurrency in threads around external tools and in several
programs on one directory.

| Component | State | Operations | What is hard | What makes it correct | Module |
|---|---|---|---|---|---|
| Legacy archive migration (`data/migrate/migrate-legacy-derived.py`) | three directories, inodes, a receipt | `migrate` | no lock; kill at any system call; edits and foreign files; stale digests | no file lost or replaced; the receipt comes last and is true; unknown states are refused untouched; relocations complete | `Migration` |
| Curated artifact fetch (`data/fetch/fetch-curated-eval.py`) | target, partial, receipt and lock of each artifact | acquire, status | kills, stale locks, broken connections, wrong bytes | exclusion; only the publisher's bytes become a target; receipts are true; everything arrives | `CuratedFetch` |
| Other dataset fetchers (`data/fetch/*.py`) | the same without locks | acquire, resume, name, receipt | overlapping invocations, a publisher that changes | a receipt names what stands or stood there; success leaves the artifact on disk | `DatasetFetch` |
| Bounded tool process (`adapters/tshark/process.rs`) | child, pipes, reader threads, clock | `run_bounded` | pipes that fill, exit racing the deadline, descendants that inherit pipes | whole output or an error; no deadlock; it returns | `BoundedProcess` |
| TShark batch (`adapters/tshark/mod.rs`) | two snapshots, workers in chunks | `normalize_saved_captures`, `..._requests` | the installation changes; workers end in any order, fail, panic | reports made with the installation they name; the first failure wins | `TsharkBatch` |
| Saved captures (`adapters/tshark/mod.rs`, `fields.rs`, `replay/saved_capture.rs`) | a private copy, a file of records | stage, measure, dissect, print, read back | capture or copy changing in between; cut, shuffled or doctored streams | the report is of the artifact whose digest it has; a stream is accepted when and only when it is one | `SavedCapture`, `Packets` |
| Flow sessionization (`replay/flow.rs`, `conversation.rs`) | none | partition, sort, cut, orient | equal and reordered times, gaps of exactly the limit, width of integers | the sessions of a reference definition | `FlowSessions` |
| Triage (`replay/triage.rs`) | none | claims of presence and absence | absence in an incomplete capture | a claim holds of the whole capture | `PcapTriage` |
| Host-path log and reduction (`replay/mod.rs`) | a JSONL file | append, strict and recovering reads, `replay`, recurrence | death in mid append, late and repeated records | acknowledged records stay readable; history is stable and recurrence counts it | `EvidenceLog`, `HostPathReplay`, `HostPathHistory` |
| Scenario replay (`replay/scenario.rs`, `scenario/source.rs`) | a directory read file by file | load, validate, replay to a checkpoint, checkpoint inputs | files swapped while they are read; closure of references; order of arrival | conclusions rest on what had arrived; inputs replay to their receipt | `ScenarioReplay` |
| Evidence adapters (`adapters/{npy,sigmf,zeek,sdr4iot_csv,kismetdb}.rs`) | open files, their identity | windows, rows, packets | sources written to or replaced between two reads; windows over the end | what is returned is of one state of the source | `SourceProjection` |
| Inference lineage and composition (`infer/{lineage,composition,qualified_composition,fusion_target}.rs`) | a provenance graph | construct, compose, relate, summarise | cycles, shared ancestry, duplicates | independent of order; shared lineage is reachability | `ClaimComposition` |
| Event relations and claims (`infer/{calibrated_event_relation,content_relation,hypothesis}.rs`, `replay/same_event.rs`) | none | assess, project to claims | states of knowledge that are neither yes nor no | as above | `EventRelation` |
| Factor graph (`infer/factor_graph.rs`) | none | exact inference in a budget | components, budget, rounding | beliefs are the marginals of the whole graph | `FactorGraph` |
| Flow correspondence (`infer/packet_flow_correspondence.rs`) | none | match flows of two tools | competing matches | the answer is that of all matchings together | `FlowCorrespondence` |
| Counters and captures (`infer/counter_capture.rs`) | none | assess | fractions of fixed width, checked products, features that only one side has | exact values rounded down once, and refused only when they do not fit | `CounterCapture` |
| Shifts of signal strength (`infer/rssi_reference_frame.rs`, `rssi_shift_explanation.rs`) | none | classify, attribute, explain | halves of either sign, repeated links, budget | every shifted link is attributed once, gains and losses alike; beliefs are global | `RssiShift` |
| Relation splits (`eval/relation_split_audit.py`, `build-*-split.py`) | a manifest | audit, build | unknown groups, transitive links | a passed split has no leak under any completion of what is unknown | `RelationSplit` |
| Holdout plan (`eval/ujiindoorloc.py`, `evaluate-ujiindoorloc-split-capability.py`) | a search | cover, balance | whole units, exact cover, balance without losing coverage | a plan is found when and only when there is one | `HoldoutPlan` |
| Role-cache publication (`eval/compile-xrf55-joint-role-cache.py`) | files, journal, backups | publish, recover | kill or power loss between any two calls | one whole generation is always within reach | `RoleCache` |
| Caches and the locked test (`eval/compile-xrf55-feature-cache.py`, `evaluate-xrf55-trimodal-fusion.py` and four more) | bundles of matrices and an adapter, a marker | compile, reuse, read, validate, score once | replaced name by name while they are read; kills | reports are of what they name; the test is scored once, after the gate | `LockedTest` |
| Evidence records (`evidence/`) | none | schemas, validation, digests | invariants across fields | only valid records leave the crate | not modelled |
| Command line, remaining evaluators | none | rendering, reports, statistics | floating point | - | not modelled |

Interactions. The batch calls `run_bounded` for every tool run (`MCProcess` has
both for the first of them); each of its workers is the first half of
`SavedCapture`, and what that prints is read by the projections and the
scenarios. Scenarios call the reduction of `replay/mod.rs`. Flow correspondence
and the explanation of shifts build graphs and call the factor graph. Compositions
take the claims of the event relations. Evaluators read what the compilers
publish, the compilers what the fetchers put in `data/raw`; migration and curated
fetch share that directory but no file.

`PROJECT.json` lists the components with their status, maps every definition to
the lines it stands for, and lists under `hazards` each place where something
can go wrong that a test would hardly reach, with the properties about it.

## 2. The modules

Every module says in its head what its data stand for. Operators keep the names
of the code's functions, or of the error a check raises. Definitions headed
`Mutant:` are no part of a model: each is a plausible bug in one definition, used
to show that a property notices it.

**Migration, ArchiveMove, MCMigration.** One action per system call of
`migrate()`, or per run of reads whose order cannot matter. A file is an inode, a
directory maps names to inodes, so `os.link`, `unlink`, `st_nlink` and same-file
comparisons are all there; `ver` is the content of an inode, which other programs
may change (`Edit`), and they may put a file under a free name (`Intrude`).
`mem[p]` is what a run remembers. `IoError` fails any call and runs the `finally`
clause; `Kill` runs nothing; `Rerun` starts again. `Init` is any state a user can
start from: fresh, archived at the earlier place, or split by an interrupted
relocation. `ArchiveMove` is the abstract archive, each file in the source, in
both places or in the archive; `Migration` implements it (`ImplementsArchive`).

**CuratedFetch.** Fetchers work through a list of artifacts: lock, look, resume
or download in attempts, check, promote, write the receipt, unlock. A file is its
length in chunks and whether its bytes are the publisher's; `have[p]` is what the
running digest has consumed, kept apart from the file so that the two can
disagree. Faults are `Refused`, `Interrupted`, `Surplus`, wrong chunks and `Kill`;
`ClearStaleLock` is the operator, who removes a lock that no live fetcher holds. A
status command looks on, in the code's order of tests, without a lock.

**DatasetFetch.** The five fetchers without a lock, on one artifact. They differ
in what they resume, what they pin, how they name a finished file and what a rerun
accepts. Chunks carry the version that the publisher served, and names are bound
to inodes, so a second invocation may write to a file that the first has named.

**BoundedProcess.** The caller, two reader threads, the tool, and a descendant
that may have inherited its pipes. Bytes are counted. The readers are
`read_bounded` with its `take(limit + 1)`; the caller is the poll loop, kill,
wait, and both joins with their verdicts. **MCProcess** composes it with
`TsharkBatch`: the first command of the opening discovery is a run of its own,
which the batch waits for, and goes on with only if its output was whole.

**TsharkBatch.** The installation is a version and a configuration that others
change at any moment. The caller discovers both, starts the workers of a chunk,
joins them in order, discovers again and compares. `variant` chooses between the
sequential function, which also looks for personal plugins at both ends, and the
parallel one. A worker is staged, measured, dissected by the TShark of that
moment, then reports; it may fail or panic at each point.

**SavedCapture, Packets, FlowSessions, PcapTriage, MCSavedCapture.** One capture
from its file to claims: staged copy, capinfos, rows, packets or quarantined rows,
manifest, receipt, printed records, a reader who finds the file intact, cut,
appended to or changed, and what flows and triage make of the accepted stream.
Integer width is kept where sessions are cut (`I64Max`).

**EvidenceLog, HostPathReplay, HostPathHistory, MCEvidenceLog.** The log is a
sequence of newlines and halves of records, so that lines, what parses, and
`byte_offset` are computed as `read_jsonl_bytes` computes them. An append is
several steps; `Stop` leaves what was written; `Repair` cuts the log where the
warning of a recovering read says. `HostPathHistory` composes the log with
`replay()` and the recurrence summaries: what a reader is told at any moment.
`replay` is of a set of records, as the code first puts them in a map by id; the
order of a set that is sorted is that of the ranks of its elements, here and in
`FlowSessions` (`Timeline`, `Sorted`).

**ScenarioReplay, MCScenario.** Loading a directory file by file while another
program swaps one, validation of both manifest versions with the sources and
licenses of the second, replay to a checkpoint, and the inputs of a checkpoint,
which must replay to the receipt.

**SourceProjection, MCSources.** Five adapters as lists of steps (open, read,
check, fence, look for sidecars, answer) on files that other programs write to,
replace or unlink between any two cells; a database is written to under a journal.
What is made of the cells follows the code; `Reference` says from the formats what
an adapter should answer of a given state of the files. `SourceAssumption` says what
may be asked for and what may stand in the files, at first and after a write.

**LockedTest.** Four pairs of compiler and evaluator. A compiler replaces the
matrices of a bundle and last its adapter; evaluators read adapter, digest and
matrix and look again; the trimodal evaluator freezes a profile and claims the
locked test by a marker. **MCDataFiles** joins this module, `DatasetFetch` and
`SourceProjection` in one instance: each behaviour is of one of them.

**RoleCache.** One action per call that changes a name of the output directory or
syncs it. What is durable is kept apart from what is seen, so that a loss of power
forgets any set of changes that was not synced.

**RelationSplit, HoldoutPlan, EventRelation, ClaimComposition, FactorGraph,
FlowCorrespondence, CounterCapture, RssiShift, Analyses, MCAnalyses.** Pure
algorithms as operators, and `Analyses`, in which each is called on jobs and, where it works in rounds (the
builders, the holdout search, the inference), takes several steps with the
choices the code leaves to an order of keys. Logarithms of weights, added in
floating point by the code, are naturals that are multiplied. `CounterCapture`
keeps the width of its fractions as a parameter and every checked operation in
its order, so that what overflows, and where, is part of the model.

`*Proofs` modules hold theorems only.

## 3. What is checked

| Run | Question | Bounds and why they are enough | States |
|---|---|---|---|
| `migration` | two runs at once, stopped and rerun, from every starting state: is the seal true, nothing lost, and does a relocation end | 2 files (one moved, one still to move: a first, a last and a partial state); 2 runs; 1 kill or I/O error and 1 edit or intrusion, at every point | 967,726 |
| `fetch_safety` | two fetchers and a status command: genuine targets, true receipts, coherent files, and everything arrives | 2 artifacts (order, abandonment), 2 chunks (resume in the middle), 2 attempts, 2 faults, 1 wrong chunk | 196,066 |
| `process` | whole output to the batch, no writer left blocked, return | limits and pipe of 1, 3 bytes: exactly the limit, one over, a blocked writer; a batch of one capture, which only waits | 244,894 |
| `process_deadline` | finding 1 | 1 byte, a descendant | violated |
| `batch` | fence and first failure | 3 captures in chunks of 2 (a full and a short chunk) or in turn; 2 changes; 2 failures | 32,867 |
| `evidence_log` | torn logs and repairs; what readers are told of it over time | 3 appends of 5 observations (two observers, one moment twice, a late one, a missing dimension, two contents under one id); 2 stops | 43,551 |
| `saved_capture` | from capture to claims | captures of up to 3 rows of the kinds the projections tell apart; limits of 2 and 3 packets; 1 change of a file meanwhile, 1 damage to the stream; times up to one over the integer width | 99,279 |
| `scenario` | loading, closure, arrival, receipts | 3 files of few records and at times a license, every distribution over 2 checkpoints, 1 swap between any two reads; two sources with the same id, or a license that no source names, are refused | 159,232 |
| `data_files` | files that others write to: downloads, caches, sources | downloads: five kinds, 2 chunks, 2 invocations, 3 starts, 1 kill, 1 change by the publisher, 2 of what is on disk (an edit and a removal). Caches: four families, 2 revisions, 2 roles before the gate, 3 runs, 1 kill, a gate that one pair of revisions passes and one that all do. Sources: five adapters, files well formed, cut and malformed, windows inside, across and beyond the end, 2 changes | 1,363,065 |
| `analyses` | pure algorithms against what was asked of them | audits of 5 observations over 4 roles with up to 2 withheld groups; OSU splits of 6 observations, Ruff splits of 4 devices and 2 campaigns; holdouts of 5 phones, 3 targets, 2 to 4 roles, joint ones of 6 phones; up to 3 claims on 8 sets of records; graphs of 3 variables and 3 factors; flows 2 by 2; windows of counters in fractions of 12 bits, which some results just fit and others exceed; links of up to 3 observers and 3 sources, heard alike, louder, softer, not at all, or too seldom | 60,434 |
| `role_cache` | publication stopped anywhere | one target and the manifest (a first and a last name), 5 runs, 1 error, 2 kills or losses of power | 237,579 |
| `role_cache_copies` | finding 2 | 1 kill | violated |

The bounds are guards on counters, all declared as CONSTANTS (`Max...`);
`Spare` bounds the inodes available to `mkstemp`. Invocations are symmetric in
`data_files`. Deadlock is not checked where a run describes calls that end, or a
bounded number of them: `process`, `batch`, `evidence_log`, `data_files`,
`analyses`, `role_cache`. It is checked in `migration`, `fetch_safety` and the
others.

What the less obvious properties say:

* `SealIsTrue`: when the receipt stands, it names every file by what stands under
  its name in the archive, none is left in a source directory, and what is sealed
  is what the first survey saw.
* `StreamsRoundTrip`: the reader accepts a stream when and only when it is what
  was written; counts, order, receipt and digest leave no gap.
* `ClaimsHoldOfCapture`, `FlowsAreSessions`: claims of absence of the accepted
  stream, also that of later packets in a flow that is said to have ended, are true
  of the whole capture; its flows are the sessions that the limit defines, one flow
  for each, whatever the order of the packets.
* `HistoryIsStable`: what a reader was told of an observation changes only when
  one arrives that belongs before it.
* `AuditIsThreeValued`: a split passes only when no completion of its unknown
  groups leaks, and fails only when all do.
* `ProjectionIsOfSource`: what an adapter returns is what it would have, had it
  seen all files at one moment of the call; and a well-formed source that nobody
  touches is never refused.
* `NothingIsMixed`: a receipt or report is of matrices of one compilation, those
  that it names.
* `ExplanationsAreGlobal`: what the components of flows, or of links, are told
  is what all flows, or all links, taken together would say.
* `CounterVerdictIsExact`: what is written is the exact value rounded down once;
  "not representable" is said only when a number over common denominators does
  not fit.
* `ShiftsAreAttributedOnce`: gains and losses of the same size are judged alike,
  order and repetition of links change nothing, and no shifted link counts twice.
* `AlwaysRecoverable`: after anything, one whole generation, no older than the
  last that was reported, is in place or in the backups that the journal names.

### Findings

1. **`DeadlineHolds` fails.** After the deadline `run_bounded` kills the tool and
   joins the readers, which end only when every holder of the pipes is gone. A
   descendant that inherited them keeps the caller as long as it lives, while
   `docs/saved-pcap-normalization.md:336-337` promises a deadline for every
   subprocess. `AlwaysReturns` holds when descendants end.
2. **`RecoversAtNextCompile` fails on file systems without hard links.** Backups
   are copied there, but `_restore_backup` only links: an interrupted publication
   is never undone, and every later compile fails. The test of that name
   (`eval/test-compile-xrf55-joint-role-cache.py:586`) runs where links work.

Contradicting no document, but worth knowing, each at the place where a property
is weaker than one would wish:

* Two snapshots cannot see an installation that changed after the first and
  changed back before the second (`Reverts`; the comment at
  `adapters/tshark/mod.rs:359-361` claims no more than a difference).
* `_status_one` takes no lock: it tests the lock, the target, then the receipt,
  and may report `orphan_receipt` while a fetcher finishes.
* `append_jsonl` does not compare the new record with the log it has read: a
  second content under a known id is accepted, and the log is unreadable then.
* A receipt temporary left by a kill makes every later migration refuse.
* `open_matrix` of the crossfit evaluator hashes a file and then loads it by
  name without looking again; `NothingIsMixed` leaves that family out.
* The marker of the locked test is linked before the locked role is read, is
  never removed, and its directory is not synced.
* `stage_kismetdb` compares no identity: a writer that begins and commits between
  its two looks for journals leaves a torn copy. `ProjectionIsOfSource` leaves
  that case out. The fence of the other adapters rests on lengths and times that
  change with every write.
* Overlapping invocations of the jamming, OSU and XRF55 fetchers may write to a
  file that is already named (`SuccessIsOnDisk` is of one alone). A partial OSU
  file that is resumed after the publisher changed gives a receipt over a mixture.
  A kill between `os.link` and `os.unlink` of the OSU fetcher leaves the partial
  name on the artifact's own inode: if the artifact is then edited and removed, the
  next run takes the edited bytes for a finished download, as nothing is pinned
  (the proof of `ReceiptsAreGenuine` found this; the property leaves both out).
  A kill between name and receipt leaves OSU, XRF55 and smorffi refused for ever;
  the public fetcher is by any leftover partial (`RefusalsAreKnown`).
* A validated scenario may fail to replay when two artifacts contradict each
  other under one record id.
* The split builders never reach their own error `split_audit_failed`.

### Fairness

* `Migration`: a run that is not over can always make its next call, and one that
  is over can be started again; so that weak fairness of these steps is that
  steps other than edits and intrusions go on (`MCSpec`). The bounds make kills,
  errors and edits finite.
* `CuratedFetch`: weak fairness of each fetcher's progress when nothing goes
  wrong, of `Rerun` and of removing a stale lock. Faults are bounded, so the
  server answers in the end. A whole partial file with a wrong digest stays, so
  `EventuallyAcquired` excludes wrong bytes.
* `BoundedProcess`, and `MCProcess` from the moment that the command is started:
  the caller and both readers are threads the system schedules, and a write goes on
  when there is room. Nothing makes the rest of a batch go on. Nothing makes the tool exit. That time
  passes (`Tick`) and that a descendant ends (`HeirExits`) are hypotheses inside
  the properties that need them.
* `RoleCache`: weak fairness of `Step`, the compiler's next call; errors, kills
  and losses of power are bounded.

All other runs check safety only.

## 4. What is proved

For every value of the constants, in eight modules of proofs:

| Theorem | Property |
|---|---|
| `MigrationProofs!TypeCorrect`, `NothingReplaced`, `NoFileIsLost`, `OneRunMoves` | `TypeOK`, `NeverReplaces`, `NoFileLost`, `OneFreshRunMoves` |
| `MigrationProofs!SealTellsTheTruth`, `SuccessLeavesNothing`, `PartialStatesAreRefused`, `MigrationImplementsArchiveMove` | `SealIsTrue`, `SuccessIsComplete`, `PartialStatesFailClosed`, `ImplementsArchive` |
| `CuratedFetchProofs!TypeCorrect`, `LockExcludes`, `TargetsAreGenuine`, `StoreStaysCoherent`, `DigestsMatch`, `PartialsGrow` | `TypeOK`, `LockExclusion`, `TargetIsGenuine`, `StoreIsCoherent`, `DigestMatchesDisk`, `PartialOnlyGrows` |
| `CuratedFetchProofs!StatusTellsTheTruth`, `AcquisitionsStay` | `StatusVerifiesTruth`; targets and receipts in place are never changed |
| `DataFilesProofs!ReceiptsTellTheTruth`, `RefusalsExplained`, `SuccessIsKept` (of `DatasetFetch`) | `ReceiptsAreGenuine`, `RefusalsAreKnown`, `SuccessIsOnDisk` |
| `TsharkBatchProofs!ProcessTypeCorrect`, `RunsReap` (of `BoundedProcess`) and `AnswersAreWhole` (of both composed) | its `TypeOK`, `ReturnReaps`; `OutputIsWhole` |
| `TsharkBatchProofs!TypeCorrect`, `WorkersEndBeforeFence`, `FirstFailureWins`, `FailureStopsStarts`, `FenceIsSound` | `TypeOK`, `NoWorkerOutlivesFence`, `FirstErrorWins`, `NothingStartsAfterFailure`, `FenceHolds` |
| `EvidenceLogProofs!LogIsWhole`, `TypeCorrect`, `AcknowledgedStays`, `NoRecordIsLost` | the invariant below, `TypeOK`, `AckedIsReadable`, `ReadsAreMonotone` |
| `EvidenceLogProofs!SummariesMatchHistory`, `HistoryStaysStable` (of `HostPathHistory`) | `RecurrenceMatchesHistory`, `HistoryIsStable` |
| `RecordsProofs!ReportsAreOfArtifacts`, `AcceptedFilesAreWhole` | `ReportIsOfArtifact`, `StreamsRoundTrip` |
| `RecordsProofs!FlowsAreTheSessions`, `AbsencesAreOfCaptures` | `FlowsAreSessions`, `ClaimsHoldOfCapture` |
| `ScenarioProofs!ReceiptsRestOnThePast`, `InputsReplay` | `ReceiptsCiteThePast`, `InputsReplayToReceipt` |
| `DataFilesProofs!ReportsAreOfBundles`, `TheTestIsLocked` (of `LockedTest`), and of the composed instance `CachedReportsAreOfBundles`, `CachedTestIsLocked` | `NothingIsMixed`, `LockedTestIsScoredOnce` |
| `DataFilesProofs!ProjectionsAreOfSources` (of `SourceProjection`, in the composed instance) | `ProjectionIsOfSource` |
| `RoleCacheProofs!PublicationIsRecoverable` | `AlwaysRecoverable` |

`TypeOK` of each module, `NeverReplaces`, `OneFreshRunMoves`, `LockExclusion`,
`TargetIsGenuine`, `DigestMatchesDisk`, `PartialOnlyGrows`, `ReturnReaps`, `NoWorkerOutlivesFence` and
`NothingStartsAfterFailure` are proved and therefore not checked by a run as well.

The only assumptions are those on the constants, named in each module, and for
`FenceIsSound` that no change undoes an earlier one (`Reverts = FALSE`). The
assumptions say what the inputs are, of any number and length: captures are
sequences of rows with numbers for times (`CapturesAssumption`), `None` is no
number or record (`NoneAssumption`), ids, observers and moments of observations are
numbers that are ordered as their strings (`RecordsAssumption`), manifests are what
parses (`ManifestsAssumption`), limits and pipes hold some bytes (`ProcessLimits`), and the
tuples of roles and modalities that the sources of `LockedTest` spell out name at
least one (`CachesAssumption`), and requests and files are such as an adapter gets
past its options: whole numbers of samples or rows, files that begin with a header
or metadata, well formed or not (`SourcesAssumption`). TLC evaluates each of them on the instances that run.

None of the properties is inductive as it
stands; the strengthenings are:

* **Migration.** `TypeInv` adds to the types what each place of a run implies of
  its loop index (`RunPlaced`). A name of the archive is only ever bound from
  nothing (`Taken`, `Retired`), which gives `NeverReplaces` directly. `NoFileLost`
  needs (`SafeInv`, from `UnlinkIsSafe` of each run) to know that a run about to
  unlink has seen the same inode under the archive's name, and that this name
  cannot change any more: the fact travels through the states `verify_link`,
  `unlink` because archive names are stable. `OneFreshRunMoves` (`HolderInv`)
  rests on the first name of the archive: whoever holds it linked it from nothing,
  so the link of the first file excludes all other fresh runs.
  `ArchiveInv` follows every run from its survey to the receipt: what the three
  directories can hold (`WorldInv`) and, of each run, the route its world allows
  (`RouteInv`), which label goes with which phase (`PlaceInv`), what it has looked
  at (`SurveyInv`), what it has moved (`MoveInv`), whose digests it has taken in the
  final check (`CheckInv`), and what its receipt says (`ReceiptInv`). With `SealedInv`
  it carries the truth of a seal through everything that other runs do
  afterwards. `PartialStatesFailClosed` needs that what a run has seen while it looks
  at the directories one by one is still so (`LonelyInv`): alone, it is disturbed
  only by intruders, who add names. In the refinement the link of a file is `Copy`, its unlink
  `Retire`, the link of a receipt, new or relocated, `SealArchive`, and every
  other step a stutter.
* **CuratedFetch.** `LockInv` says that a fetcher past the lock is the one the
  lock file names, although a stale lock may be removed: it is removed only when
  nobody holds it. On top of it `Knows` relates what a fetcher has verified at
  each step to the files of its artifact, and `Coherent` relates the files to each
  other; exclusion makes what was checked at one step still true at the next.
  The status command holds no lock. That what it saw is still so when it answers
  (`StatusInv`) rests on `NextSettles`: a target or receipt that is in place is never
  replaced by anything else, whoever moves, which is also `AcquisitionsStay`.
* **DatasetFetch.** On top of the types and of which fetcher takes which steps
  (`TypeInv`, `KindInv`): what passed a check against a pinned digest is the pinned
  version (`PinInv`); an invocation alone at work knows the files it works on,
  because it alone writes to them (`AloneInv`); without a change by the publisher
  what is on disk is a prefix of the artifact, unless it was damaged (`CleanInv`);
  and, for the refusals, an artifact without a receipt comes from a kill, or from
  an invocation that is about to write it (`RefInv`).
* **EvidenceLog.** `Shape` says which byte may follow which, so that of all lines
  only the last can be torn; what is still to write continues exactly where the
  log ends (`Ready`); what was acknowledged is among the records that are there in
  whole, and these are among what was offered (`LogInv`). A recovering read of any
  such file is computed once (`ReadIs`), and both results follow from it.
  What `HostPathHistory` says of the history is about that set of records:
  `Precedes` is a strict order in which no two of them are equal, so that a record's
  rank is the number of those before it (`Ranks`), the timeline has each record at
  its rank, and the previous observation of an observer is the greatest index
  among its earlier ones (`GreatestOf`). The summary's index sets, which are defined
  by times and ids, are then those of the timeline; and a record that arrives moves
  the indices of all later ones but of only one the predecessor.
* **SavedCapture.** `LookInv`: a staged copy, once taken, changes only in view of
  the look that compares it with its digest, so that what the tools counted and the
  report names are of one content. `FileInv`: a file that is being written is a
  prefix of the lines of its report, and one that nobody damaged has them all. Of
  any file it is shown, through the fold of the reader over its records, that counts,
  order and the receipt leave only the one that was written. Flows are cut from a sorted partition: the cut positions are shown to
  divide it into segments (`Segment`, `InSegment`), the session of a packet, which
  is defined without order, to be the segment it is in (`SessionIsSegment`),
  and the map from flows to the sessions they span to be one to one and onto
  (`FlowsAreCounted`); reading backwards changes nothing because all of it is
  a function of the set of packets (`FlowsAreOfSet`).
* **ScenarioReplay.** `LoadInv`: a bundle is loaded only with the very files that its
  manifest declares, and only if its shape and its closure hold. The rest is about
  the folds that ingest, project and copy: which references a checkpoint has seen
  (`IngestedByIs`, `ArrivesOnce`), and that the inputs handed out for it contain
  each artifact its projection reads.
* **Folds** in all of these are taken for what they are, the last of a run of
  states, one for each element; a fact about the run follows from the least state
  that would break it (`UpTo`, from the library's `WFMin`), which is an induction
  that the provers can follow.
* **LockedTest.** `CacheInv`: what each program on the cache remembers is of
  adapters that were published and of matrices that belong to them (`ProcsOK`); the
  documents agree with what made them (`DocsOK`); the marker lets one program
  through, which scores once (`OnceOK`, `ScoredOK`); and what is reported is what was
  scored, or of whole bundles (`ReportOK`).
* **BoundedProcess.** `LifeInv` relates the caller's place to the state of the
  child. `BytesInv` is a conservation law: what was written is in the pipe or in
  the reader's hands (`Conserved`), a reader that ended within its limit ended at
  end of file with the pipe drained (`Drained`), and a good verdict is given only
  on such readers (`Judged`).
* **TsharkBatch.** `LoopInv` relates the number of joined workers to the states
  of all workers (`Started`, `Joined`, `Fenced`). `FenceInv` orders the values
  seen: snapshot, use, snapshot, now (`Compared`, `Ordered`); with a version that
  only grows, equal ends squeeze everything between.
* **SourceProjection.** `SourceInv` is about streams: what is read of one file from
  one place. `ReadInv` says that the cells read are those of the opened inode *if*
  that is still as it was noted; it says nothing of a file that was written to,
  and need not, as such a file does not pass the fence. `MomentInv` is the point of
  the fences: when the last one has passed, there is a state in `seen` that all
  streams could have been read from whole (`AllTaken`). For `sigmf` this holds only
  because the metadata is looked at again after the samples: the moment is that of
  the first fence of the data, with the second of the metadata pending, and the
  mutant without that look breaks it. For `kismet` it needs that no writer
  committed. What remains is to show that the adapters compute from such cells what
  `Reference` says of the files: `NpyWindowIsOfArray`, `SigmfWindowIsOfSamples`,
  `ConnLogIsOfLog`, `DetectionsAreOfFile` and `PacketsAreOfFile`, on facts about
  ranks in finite sets, of sorting and of selecting cells in order, and their
  converses where an adapter refuses.
* **RoleCache.** `Inv` is the types with what every place of the compiler implies
  (`Basic`, `PcInv`) and `Safe`: a name is changed only while the journal that
  decides about it is durably there or durably gone, so that a loss of power can
  never pair new names with an old decision. `AlwaysRecoverable` and the proof
  leave out `hasty` runs: those that began, after a kill, before what the killed
  run had done was durable. The recovery does not sync what it finds, and a loss
  of power may then undo what it was based on.

Only model-checked: everything else that a run lists, namely

* the liveness properties (`RelocationCompletes`, `EventuallyAcquired`, `AlwaysReturns`,
  `WritersAreReleased`, `RecoversByLinks`): fairness and `ENABLED` are out of the
  prover's reach;
* the pure algorithms of `Analyses`: their folds take lambdas, their orders
  `SortSeq` and `SelectSeq`, whose library definitions are recursive operators or
  functions of an operator, which the provers do not unfold.

## 5. What is not modelled

* **Evidence records, command line, fingerprints, `packet_zeek`.** Record schemas,
  stateless summaries and an adapter that renames fields; a definition of what
  they should return would repeat them.
* **The numerical evaluators** (`eval/evaluate-*.py`, `profile-*.py`,
  `compile-*-oracles.py` apart from those named above), about half of the
  implementation's lines. They read derived files once, compute statistics in
  floating point and write a report; no state survives, nothing runs concurrently,
  and TLC has no numbers of that kind. The share of lines that the map covers is
  bounded by them. Where they publish or read shared files they follow the
  patterns of `LockedTest`, whose four families were chosen for their differences.
* **Loss of power** in the migration, the fetchers and the log; a kill loses
  nothing that was written. `RoleCache` has it. The migration syncs `data/raw`
  before the archive, the log syncs nothing.
* **Validation before any state change**: catalogs, options, size limits,
  symbolic links, identifier syntax, file modes. It turns a call into one that does
  nothing.
* **The syntax of fields** of tools and files: a row parses or does not.
* **Careless operators** who remove a lock that is held; more than one writer of a
  log, which `append_jsonl` leaves to its callers; two overlapping compiles of the
  joint role cache, which takes no lock.
* **The reader of the joint role cache** while it is published
  (`evaluate-xrf55-joint-representation-adequacy.py:762`), and the later commands of
  a batch as runs of their own: after the first, `MCProcess` takes for granted that
  a tool run ends.

## 6. Plan

1. The joint role cache read while it is published.
2. Migration with losses of power: what the syncs buy.
3. Every command of a batch composed with `BoundedProcess`.
