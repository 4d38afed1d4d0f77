# Verification of the memory-tiering profiler

TLA+ models of the programs in this repository that decide what is measured, what
is kept and what is believed: the Pin tool and its cache model
(`src/src/profiler/pintool/`), the simulator probe and the trackers
(`src/src/sim/hotskew_probe.hpp`, `tracker.hpp`) and the simulated run that carries it
(`src/src/sim/simcxl/fs_hotskew.py`); the scripts of `src/experiments/` that supervise
simulators, run campaigns, prepare inputs, study the tool and move raw records; and
the scripts of `src/src/analysis/` that read those records. TLC checks them on small
instances; TLAPS proves the most important properties for every value of the
constants. `PROJECT.json` maps each definition to the lines it models.

    tlc -workers 2 -config MCProbe.cfg MCProbe.tla       # model-check one run
    tlapm ProbeProofs.tla                                # check one module's proofs

## 1. Inventory

### The measuring side

| Component | State | Operations | Interacts with |
|---|---|---|---|
| `CacheLevel` (`cache_model.hpp`) | per way: tag, stamp, valid, dirty; a clock; hit, miss and writeback counts | `init`, `access`, `invalidate`, `resetStats` | called by the hierarchy |
| Cache hierarchy (`cache_hierarchy.hpp`, and the levels in `hotskew.cpp`) | per thread L1 and L2, one LLC, a private outcome on its way to the LLC | `accessPrivate`, `accessShared` | every thread; a global lock around the shared part, and around both unless `-private_parallel` |
| `CounterTable` (`counter_table.hpp`) | a 16-bit saturating counter per 64-byte word, reads and writes per page, totals | `record`, `forEachTouchedPage`, `resetCounters` | Pin tool and probe |
| `PairedObserver` (`paired_observer.hpp`) | three streams (accesses, fills, traffic): masks and event counts of the epoch and of the run | `record`, `empty`, `endEpoch`, `rows`, `finish` | Pin tool with `-paired` |
| Pin tool (`hotskew.cpp`) | phase, the gate `g_active`, region flag, instruction count, window counters, epoch number, totals, the epoch, page and paired files | analysis routines for operands and blocks, region markers, `finishEpoch` (from five places), `onFini` | application threads call it concurrently |
| Trackers (`tracker.hpp`) | Space-Saving: heap and key map; Count-Min: rows and CAM | `access`, `topK`, `reset`, `scoreTopK` | Pin tool and probe |
| Simulator probe (`hotskew_probe.hpp`) | counters, trackers, epoch results, the summary file | `onRequest`, `endEpoch`, `writeSummary`, exit callback | called from the simulator's event loop |
| Guest run (`fs_hotskew.py`, the probe patches) | the guest's activity, `Phase.exits` and `.switched`, requests refused, in the bridge and in the controllers, what each probe has counted | m5 exits and the switch of processors, `recvTimingReq` of controller and bridge, retries | hosts the probe; its log is the sim lane's evidence |

### The running side

| Component | State | Operations | Interacts with |
|---|---|---|---|
| Checkpoint supervisor (`checkpoint_sim.py`) | `state.json`, `latest.json`, `images/`, `history/`, `pause.request`, the lock | `run`, `pause`, `status` | the simulator under DMTCP, its coordinator, SIGTERM, the host |
| Paired runner (`run_paired.py`, `run_extension_workload.py`) | a manifest per run directory | refuse, skip, begin, end | runs the Pin tool; started by every campaign and study |
| Revalidation campaign (`revalidation_campaign.py`) | a status file per lane, attempt directories, published results | reuse, attempt, resume, check, publish, pause, stop | supervisor, paired runner, raw analysis |
| Fidelity campaigns (`run_fidelity_campaign.py`, `run_artifact_trial_control.py`, `run_pin_fidelity_stage2.py`, `resume_sim_after_fidelity.py`) | two campaign files, the hold, run directories | wait, hold, run, abort, publish | poll each other's files; the last becomes a sim lane |
| Raw-storage migration (`migrate_raw_storage.py`) | files, partial copies, links, a record each | copy, verify, link, replace | between collection and analysis |
| Pin studies (`validate_pin_scalability.py`, `validate_pin_real_input.py`, `profile_pin_bottleneck.py`, `publish_pin_bottleneck.py`) | a report each, runs, process groups, the induced graph | launch, deadline, terminate, sweep, mark, audit, publish | each is the next one's gate |
| Input preparation (`fetch_twitter.py`, `prepare_fidelity_inputs.py`, `prepare_gplus.py`, `prepare_tc_footprint.py`) | downloads, attempt directories, JSON records | download, verify, build, select, record | campaigns trust the records |
| Shell drivers | none of their own | process launching | superseded by the campaigns |

### The reading side

| Component | State | Operations | Interacts with |
|---|---|---|---|
| Paired audit (`compare_reproduction.py`, `audit_results.py`, `plot_paired.py`) | none; functions of a collection's histograms | accept or raise | gates what is published |
| Streaming analysis (`revalidate_extensions.py`) | block reader, totals, the window before, fast memory per policy | read, yield a window, conclude | the pin lane takes its verdict as proof of a complete collection |
| Batch analyses (`hotskew.py`, `latency_model.py`, `placement_study.py`, `causal_placement.py`, `hotset_turnover.py`, `granularity_sweep.py`, `window_fit.py`) | none | load, select, evaluate | the same records, all at once |
| Publishing, plots, comparisons with papers | none | rendering and arithmetic | result files |

### What is hard

* **Concurrency in the Pin tool.** The gate is read without the lock, and with
  `-private_parallel` a reference's private outcome is computed before it. Other
  threads' references, epoch boundaries and the end of the collection fall between.
* **One event, several observers.** A reference goes into a DRAM count, page counters,
  a demand count and up to three streams, then may close the window all of them share.
  Whether there is something to close is judged by some, whether it is due by others.
* **The gate and the phases.** Six places write `g_active`: fast-forward's end,
  region entry and exit, the length limit, the epoch limit and `main`.
* **The cache bookkeeping.** Dirty data moves through three levels in victims,
  writeback misses that allocate, and ways reused after an invalidation.
* **The trackers.** The heap and its key map move together; the CAM caches
  estimates that the sketch overtakes.
* **Crashes.** A supervisor replaces its only good snapshot step by step; a probe
  rewrites its summary; a lane keeps a job's snapshot only in memory between two
  saves; a migration removes a file it has copied. All can be killed anywhere.
* **Processes that know each other by files.** Campaigns poll campaign files and
  manifests of others, which may be stale, fail after they were complete, or be
  rebuilt with another tool between the hash and the run.
* **Processes that outlive what started them.** A deadline signals a group, but waits
  for its leader only; a recorder ends before what it records.
* **Retries.** A refused request comes again, a failed job is attempted again, a
  download is continued: each must count once and overwrite nothing.
* **Two programs for one quantity.** The streaming analysis and the batch ones
  must agree, wherever a block ends inside a window, or differ in a way that is known.

`PROJECT.json` lists the hazards that matter most, each at its line with the properties
that guard it.

### What makes each component correct

| Component | Properties |
|---|---|
| CacheLevel | It is an LRU set-associative cache: same hits, same victims, same writebacks as the abstract one |
| Hierarchy | No store is lost or invented; nothing is held that was not fetched; the first touch of a line is its fill |
| Pin tool | Observers agree; nothing is lost or counted twice; windows close in time; region invocations are not mixed; nothing inside the region is turned away; a stopped collection stays stopped; limits hold; dumps cover what the summary reports; what a paired run writes passes the audits |
| Trackers | Space-Saving's count and error bounds; heavy hitters are held; Count-Min never under-counts; its CAM is honest |
| Probe | No access lost, epochs as long as configured, fair scores, a summary that survives a kill |
| Guest run | Each request of the timing processor is counted once; a run taken as evidence measured its region |
| Supervisor | A saved snapshot is never lost and can be restored; progress never shrinks; a confirmed pause has saved everything; a demanded pause comes; a saved simulation completes |
| Campaigns | What is called complete is; no complete result is overwritten; a hold lasts; nobody starts before what it waits for is done; restarted campaigns finish |
| Migration | Every raw file can be read at its path at any moment |
| Analyses | A dump is accepted exactly if it is well-formed; streaming gives what loading all gives, or stands to it in a stated way; an oracle is not beaten |
| Pin studies | Reports are true and stay true; nothing of an earlier case of the profile runs while it samples the next |
| Inputs | What a record names is there in full, and is written no more (one fetcher at a time) |

## 2. The modules

```
CacheLines ── LruLevel ── LruCache  <── refined by ── CacheLevel
                 └── CachePath ── CacheHierarchy
CacheLines ── PageCounters ─┬─ PairedAudit ── Profiler (with CachePath)
              PairedStreams ┘
              PageCounters ─── Probe (with SpaceSavingHeap, CountMinTopK)
SpaceSaving <── refined by ── every Space-Saving tracker of Probe
CheckpointSim
PairedRuns ─┬─ RevalidationLanes ─┐
            └─ FidelityCampaigns ─┴─ Campaigns
RawRecords ── BatchAnalyses ── RawAnalysis ─┐
RawMigration, PinStudies,                   ├─ OfflineTools
InputPreparation, GuestRun ─────────────────┘
```

| Module | What it models |
|---|---|
| `CacheLines` | lines, "no line", access types |
| `LruLevel` | the abstract LRU level as a value: a line's recency rank and the dirty lines. `Access` and `Drop` return the level afterwards and what the caller is told |
| `LruCache` | the abstract specification of one level as a state machine over `LruLevel` |
| `CacheLevel` | the class as coded: ways, stamps, the clock, first-free-else-oldest victim. Refines `LruCache` |
| `CachePath` | `accessPrivate` and `accessShared` as operators over `LruLevel` values, in the code's order |
| `CacheHierarchy` | threads over private levels and one LLC. `Reference` is both parts under the lock; `ComputePrivate` and `ApplyShared` are the two halves of `-private_parallel`. History: demanded and filled lines, what the last step sent to memory |
| `PageCounters`, `PairedStreams` | the counter table and the paired observer as values |
| `PairedAudit` | the observer's histograms, and the two audits that read them (`CheckedHistograms` of `compare_reproduction.py`, `AuditResults` of `audit_results.py`) |
| `Profiler` | the Pin tool, section 2.1 |
| `SpaceSaving` | what Space-Saving promises: at most N keys with count and error |
| `SpaceSavingHeap` | the heap with its map, sift-up and sift-down as coded |
| `CountMinTopK` | the sketch and its CAM, with the periodic refresh |
| `Probe` | the probe, section 2.2 |
| `CheckpointSim` | the supervisor, section 2.3 |
| `PairedRuns` | a run directory: manifest, when a run is skipped or refused |
| `RevalidationLanes`, `FidelityCampaigns`, `Campaigns` | the campaigns, section 2.4 |
| `RawRecords`, `BatchAnalyses`, `RawAnalysis` | the analyses, section 2.5 |
| `RawMigration`, `PinStudies`, `InputPreparation`, `GuestRun`, `OfflineTools` | the other tools, section 2.6 |
| `*Proofs` | the theorems, section 5 |
| `MC*` | constants for TLC |

The hierarchy is built on abstract LRU levels rather than on ways and stamps.
`CacheLevel`'s refinement justifies this: for its callers the class *is* the
abstract level, so the larger models need no clocks. In the same way the lanes keep of
a supervised simulation only what they see of it (whether it has an image, is over,
reached its region's end), which is what `CheckpointSim` is checked to preserve.

### 2.1 Profiler

A thread is `unborn`, in the application (`app`), past the gate with a line to do
(`line`), or past its private part (`computed`). `PassGate` and `SkipOperand` are
the unlocked read of `g_active`; an operand may straddle two lines, each with a locked
section of its own. `ComputePrivate` is the part before the lock. `Reference` is
the whole locked section of `analyzeMemRef`: caches, streams, counters, and, when due,
`finishEpoch`. `LateReference` is the locked section that finds the collection
over. `CountBbl` is the block counter with the phase changes, the length limit and
instruction windows; `RoiEnter` and `RoiExit` are the markers; `OnFini` closes the run
and writes the summary; `UnsupportedVector` is the abrupt exit.
`FinishEpoch` is shared by all its callers, as in the code, and a raw dump that
reaches its cap keeps any choice of pages, since the hash map's order decides.
`seen` is history: accesses recorded, the region invocations an open epoch was
fed by, and the (phase, region) pairs in which operands were turned away.
A knob's unit of millions becomes 1.

### 2.2 Probe

`OnRequest` takes a request and `OnLine` counts one of its lines, so that an epoch
may close inside a request. `EndEpoch` scores every slot, clears the counters and
trackers and, with `autoWrite`, begins the summary. `top-k` uses a partial sort,
so any choice among ties is allowed. Writing is `BeginWrite` (the temporary file is
truncated), `Complete` and `Rename`; the simulator makes no request meanwhile, but
`Kill` may strike between any two. The hash is an uninterpreted constant operator.

### 2.3 CheckpointSim

The supervisor's position is `sup`; each action is what it does up to the next point
where another actor or a crash matters. `Replace` moves the old image to a new
history directory, `Relink` rewrites `latest.json`, `Clear` sets leftovers aside and asks
for an image, `Glob` and `Link` are the two halves of a poll, `Prune` drops old
history, `Resume` or `EndPause`/`Pause` go on or stop. The simulator under DMTCP
(`Advance`, `Exit`, `BeginImage`, `EndImage`, `Crash`), the `pause` command with its check
and its request (`CheckAlive`, `Touch`), `Sigterm` and `HostDown` interleave with it.
A snapshot is its directory, the progress it holds and whether it is whole, which
is what its hash distinguishes. DMTCP is external: what it does is what the
supervisor relies on (the command is answered before the checkpoint is taken; an
image may be visible before it is whole; the computation does not advance meanwhile).
`owed` is history: the progress when this run was first told to pause.

### 2.4 Campaigns

A step ends where something else may happen that matters: a status file is saved, a
child starts or ends, a tool is rebuilt, a signal or a kill arrives. In a lane
`Pick` replaces the job's record (only the invocation remembers the old one),
`Publish` is the refusal of `publish_revalidation.py`, `Prepare` chooses the
directory, `LaunchPin` and `LaunchSim` are what the child decides on its own (refuse, skip,
restore, run), `Check` is the evidence. `Interrupt` is SIGTERM inside the try block,
`Kill` everything that saves nothing. `FidelityCampaigns` has two campaigns that abort at
the first failing job, the repetition controls and the wait for them, and the
hold. `Campaigns` composes: both use one Pin tool, which `Rebuild` may
replace under them, and `Resume` is the `exec` of `resume_sim_after_fidelity.py`
into a checkpointed sim lane. A child dies with its lane, as under the service manager.
What the publishers read when a status file is saved is part of the model: the collections
`publish_fidelity.py` scores and the one it selects for a figure (`Scored`, `Selected`,
`FigureDue`), those `publish_pin_stage2.py` takes from the rows of both campaigns
(`Sources`), and the two refusals of `publish_revalidation.py`: a sweep with gaps
(`SweepsWhole`) and a simulation without its region (`SimsEvident`, `compare_simulator_m5.py`).

### 2.5 Analyses

A dump is a sequence of records, whether its end is torn, and the summary. `Read` takes
a block, `Yield` cuts one window off what is pending, checks it and adds it to
every total, `Conclude` compares with the summary. Page and word sizes, hot sets and
policies are operators over sets of records, used both by the streaming analysis
and by the batch ones, each of which adds its own loop. Shares are kept as numerators, or
as pairs of numerator and denominator, so that "equal" is exact. Any exception is the verdict `error`, also a tracker's score that is
no ratio. The analyses that read the summary alone (its histogram, `ValidHistogram`, the pages
with at most so many words, `AtMostOf`, and the bandwidth wasted, `Wasted`) must tell of the
words what the records tell: that is part of `ModelsAgree`.

What is accepted is a well-formed dump (`WellFormed`): not torn, not capped, complete, with
consistent records in order, totals as in the summary, and windows *numbered without a
gap*. The last is more than a complete collection guarantees: finding 2 is a complete
paired collection that is refused.

The turnover is the one quantity for which the two programs do not compute the same
number. Both compare each window with the one before (`Transition`). `hotset_turnover.py`
keeps shares and reports their means, in which every window counts the same (`Mean`,
`Turnover`); `revalidate_extensions.py` keeps the rows (`sums.turnover`) and reports a mean of
the retentions, but shares of the accesses that are weighted by each window's traffic
(`TurnoverReport`). `SameTurnover` therefore claims: the transitions are the same, one for each
window but the first; the retention is the same; and the two shares of the accesses
(coverage and concentration in one, traffic-weighted coverage and oracle in the other)
are the same *if* all windows after the first have as many accesses. Without that premise
the claim is false, and TLC refutes it on a dump of three windows, two of them unequal. Windows of
a collection are of equal length in accesses, or nearly so, except the last and those that a region or a
limit cuts short, and those counted in instructions or references.

### 2.6 The other tools

* `RawMigration`: copy, verify, rename, temporary link, replacement and record of each
  file, with a kill between any two and restarts that begin with a scan.
* `PinStudies`: a run is a leader, which keeps the manifest, and a target, which can
  outlive it. `Terminate` is the signal to the group: any target may be left, and `Swept`
  says who of them is killed. `Settle` marks and audits, `Stop` is a signal to the study.
* `InputPreparation`: several processes run the fetcher and the two preparations, fail
  anywhere, and write JSON in place (`OpenRecord`, then `WriteRecord`).
* `GuestRun`: the script of the guest with its exits, `on_exit`'s switch and stop, and
  requests that are made, refused, sent again, forwarded and served.
* `OfflineTools` is the five tools, each in directories of its own. They share nothing
  that one of them changes, so a behaviour is of one of them; the properties are
  those of the parts, under the parts' names, and the theorems are about them.

## 3. The runs

| Run | Checks | Shows |
|---|---|---|
| `cache_level` | `ImplementsLru` | ways and stamps are an LRU cache, also after invalidations |
| `hierarchy` | `NothingFromNowhere` `FirstTouchFills` `WritebackConservation` | stores, fills and contents agree in both locking modes |
| `profiler` | `AuditsPass` `ObserversAgree` `FillsWithinAccesses` `NothingLost` `RawCoversEpochs` `OneInvocation` `NothingMissed` `Overshoot` `StoppedForGood` | 31 command lines: paired collection, every kind of raw dump, phases, limits, regions |
| `probe` | `EpochsAreWhole` `HeavyHittersKept` `ScoresFair` `NeverUnderestimates` `SummarySurvives` `NewcomersHotter` `ImplementsSpaceSaving` | both trackers, every way of closing an epoch, kills |
| `checkpoint` | `SnapshotKept` `Restorable` `PausedKeepsWork` `NeverBackwards` `Recovers` `PauseHonoured` | the supervisor with crashes everywhere except between the move and the relink |
| `campaigns` | `Verified` `Truthful` `ResultsKept` `HeldStaysQueued` `PinFinishes` `ChainFinishes` | the lanes alone and side by side, the chain, the resumed simulation, with kills, stops, failures, gaps, full disks and rebuilt tools |
| `records` | `RawReachable` `ValidatedIsWhole` `ModelsAgree` `OracleIsBest` `StudiesTruthful` `ProfiledAlone` `InputsAttested` `RoiMeasured` | the five tools of section 2.6 |
| `reference_window` | `ReferenceWindow`, violated | finding 1 |
| `raw_coverage` | `CompleteDumpAnalysable`, violated | finding 2 |
| `regions_audited` | `RegionsAudited`, violated | finding 3 |
| `attempts_fresh` | `AttemptsFresh`, violated | finding 4 |
| `checkpoint_move` | `Restorable`, violated | finding 5 |

`CHECK_DEADLOCK FALSE` everywhere: an application, a simulator and a supervised
command come to an end, and every run has bounds at which it stops.

### Bounds, and why they are enough

* `cache_level`: four lines on two sets of two ways, `MaxClock` 5. Three lines
  compete for one set, so every order of fill, hit, invalidation, refill of a stale
  way and eviction by stamp occurs.
* `hierarchy`: three lines, two threads, L1 and LLC of one line, L2 of two ways: every
  third line evicts at every level. There is no bound on the number of
  references. References that write back at *both* private levels and at the LLC at
  once need deeper caches; these are covered by the theorems, which hold for every geometry.
* `profiler`: each command line has the bounds it needs (`BoundsOf`). Paired
  collection: three lines (operands at two of them under thread-local locking), two
  threads, three operands (straddling ones make up to six references), reference
  windows of 3 and DRAM windows of 4, one or no epoch limit, both locking modes. Raw
  dumps: one thread and four operands (three, and an instruction, without caches or
  writebacks), enough for three windows and a cap reached within an epoch;
  caches on and off, filtered and capped dumps, an application that fails. Phases and regions: two threads, two operands,
  three or four instructions, two region invocations, so that each command line goes
  through all its phases with an operand for each side of a boundary. `WordMax` 1, so
  that word counters saturate at once.
* `probe`: five lines on four pages, budgets 3 and 4, top-1 and top-2, epochs of 4,
  six accesses. The smaller trackers lose pages and words, the larger words only;
  an epoch closes and the next is under way; word counters do not saturate
  (`WordMax` 9); one request crosses a line; `RefreshInterval` 3 makes stale CAM
  entries and refreshes alternate; `MixedHash` collides some keys in one row and some in both.
* `checkpoint`: two units of work, three interval replacements (so that history is
  pruned), two faults and two pause demands. `checkpoint_move`: one unit of work,
  two replacements and one fault.
* `campaigns`: one job of each kind the code tells apart (benchmark, extension workload,
  simulation, input preparation, data set with a figure, threaded job), two repetition controls because one
  complete and one not is the case that matters, two builds of the Pin tool. The
  sets of services run together are `Mixes`: each lane alone with three faults (a later one
  may strike the recovery from an earlier one), the first campaign with the simulation that
  resumes with two, and both lanes and the chain of three campaigns with one. A rebuilt tool
  counts as a fault.
* `records`: `migration` two files and two kills or bad copies; `analysis` dumps of two
  words per page whose counters saturate at 2, all dumps of two windows of up to three
  pages, many of three windows, one dump with every single defect (a record missing,
  repeated, replaced, swapped, altered, torn), blocks of one to three records so that
  block and window boundaries meet in every way, and a tracker's score that is no
  ratio; `studies` three cases (two that are
  audited, one that is cut, as in the profile) and three faults; `inputs` two
  processes, two assets, three graphs, four launches and a fault; `guest` two trials,
  four requests and room for one, so that requests are refused at both controllers.

Thread symmetry is used in `hierarchy` and `profiler`, where no liveness property is checked.

### Fairness

`checkpoint` and `campaigns` check liveness.

`FairSpec` of `CheckpointSim` assumes weak fairness of the supervisor's own steps
(`SupStep`: a live process whose every wait has a poll) and of DMTCP's image writing
(`BeginImage \/ EndImage`). No fairness is assumed of faults, pause requests, the
simulator or the person who restarts a run. `PauseHonoured` needs no more. `Recovers`
cannot hold without a simulator that advances and a command that is run again, so that
is its stated premise, `Persistence`.

`CSpec` of `Campaigns` assumes that processes and their children are live: weak fairness
of each service's own steps, including the end of a healthy child, for every wait in
the code is a poll or a `wait()`. Faults, stops, kills and rebuilds have none. That someone
starts an ended pin lane again is a premise of `PinFinishes` (`Restarted`), as
is that no collection has gaps (`SweepsWhole`: gaps block publishing; that the simulations
never do is proved, not assumed). In the
chain the services are started again (`StartFidelity`, `StartWaiting`, `StartStage2`
under weak fairness). One strong fairness is needed: a campaign that is complete and started
again is "running" for a moment, and whoever polls every ten seconds is assumed to see it
complete some time (`AwaitFidelity`). `ChainFinishes` has the premises that there is one
tool and that the repetition controls neither are stopped nor fail (`TrialsGood`): in
their one directory they cannot be run again, by the code.

## 4. Where the code and its documents disagree

1. **`reference_window`** (`hotskew.cpp:403`). `-epoch_refs` counts references, but
   `finishEpoch` without `-paired` returns early when no reference of the window reached
   DRAM, and leaves `g_epochRefs` as it is: the window runs past its target. The
   knob promises "profiled line-operand references per epoch". With `-paired`, which is how
   the campaigns run it, the window is closed.
2. **`raw_coverage`** (`hotskew.cpp:403`). With `-paired`, a DRAM-window run whose last
   or region-closed epoch has references but no DRAM access takes an epoch id
   with no raw record. `revalidate_extensions.py` refuses such a dump, although
   the run is complete and uncapped. Unpaired runs are fine (`RawCoversEpochs`).
3. **`regions_audited`** (`hotskew.cpp:319`). A thread that passed the unlocked gate inside
   a region and gets the lock after another thread left it fills the caches, but is
   not recorded. In the next region of a cold run the line is demanded and not filled, and
   the assertion of `compare_reproduction.py:50` fails. With one region, or
   with one thread, the audits pass (`AuditsPass`).
4. **`attempts_fresh`** (`revalidation_campaign.py:101`). The docstring promises a new
   attempt directory for an incomplete job; a job with a snapshot is resumed in the old one for
   ever, also when its simulator was rebuilt or its run is over, and then it can never complete.
   Hence there is no `SimFinishes` beside `PinFinishes`.
5. **`checkpoint_move`** (`checkpoint_sim.py:106`). Between the move of the old image
   and the rewriting of `latest.json` a crash leaves `latest.json` naming a file that
   is gone. The image itself survives (`SnapshotKept` holds with faults there, by
   the theorem `SnapshotsSurvive`), but every later run refuses to restore it. That this is
   the *only* such place is the theorem `OnlyTheMoveIsExposed`.

## 5. What is proved

The theorems are of the form `Spec => ...` with the specification as model-checked,
for every value of the constants. Two have a premise besides: `OnlyTheMoveIsExposed` that no fault
strikes between the move and the relink (`"moved" \notin FaultsAt`), and
`HeapsImplementSpaceSaving` that no exact word counter saturates. Assumptions are the named ones in the modules: lines are
naturals, geometries have at least one set and way, page size and counter width are
positive, bounds are naturals, budgets and depth are positive; the lanes share no job, and
neither do the campaigns of the chain, of which data sets, preparations and threaded jobs are
jobs; there are at least two cases of a study and one graph to choose from; the dumps that are
analysed are sequences of records of the right types, in any order and with any counts, and
blocks and divisors are positive; a record of a complete collection has a touched word, and at
least as many accesses as touched words (`WrittenAssumption`: `forEachTouchedPage` of
`counter_table.hpp` skips pages without a touched word, and `record` counts an access with
each bit it sets). None limits how many jobs, threads, faults, attempts, builds,
requests, records or windows there are.

| Module | Theorems | Argument |
|---|---|---|
| `CacheLevelProofs` | `WaysAreOrdered`, `WaysImplementLru` | the refinement of `LruCache` by `CacheLevel`. `LevelInv`: a level's ways hold distinct tags under distinct stamps, none ahead of the clock. A line's rank is the number of ways at least as new as its own; the proof follows what touching or dropping one way does to every such number (`TouchedRank`, `DroppedRank`), that the abstract level overtakes exactly the lines newer than the way taken (`OvertakenAre`), and that it displaces exactly what was in it (`VictimsAre`) |
| `CommonProofs` | lemmas | finite sums (change at one key, addition, lower and upper bounds, also by a constant, over sequences), each from a smallest counterexample, because the library's induction takes an operator; the counters of an epoch are sums over the touched pages; a miss displaces at most one line; what an access does to contents and dirty lines; the same for the private and the shared part of a reference |
| `CacheHierarchyProofs` | `HierarchyTypes`, `NoPhantomLines`, `FirstTouch`, `StoresConserved` | `IndInv == TypeOK /\ NothingFromNowhere /\ WaitingKnown /\ FirstTouchFills`. `NothingFromNowhere` is not inductive: a private outcome waiting for the lock must carry only filled lines, and a waiting hit must be on one (`WaitingKnown`) |
| `ProfilerProofs` | `ToolTypes` | `TypeInv` adds that only accepted command lines run and that an operand under way has its lines |
| | `WindowsClose`, `WindowsOvershoot`, `FillsAreDemanded` | `WindowInv` adds the agreement of the DRAM and page counters: without it a due window might find nothing to close |
| | `ObserversNeverDisagree`, `RawDumpsAreWhole` | `ObserverInv`: `Exact` follows one reference through up to four accesses on five observers; `Whole` says that a total is of some word and that a touched word's page has an access. With it, a window that closes always has a page to dump, and so the ids in the files (`DumpCovers`) have no hole |
| | `NoAccessLost` | `BooksInv`: the rows of the closed epochs add up to the totals, and totals plus open window to what was recorded (`Ledger`); a stream's total is what the closed windows left plus the open one (`Steady`), so that a paired row repeats neither. References are a sum over the threads that have started, which `ThreadsKnown` shows to be finitely many: nothing is assumed of `Threads`. It needs `ObserverInv`: an unpaired window without a page closes as nothing |
| | `InvocationsApart` | `RoiInv`: outside the region the open window has been fed by nobody. It needs `WindowInv`: what is pending when the region is left is seen by the page counters too, so it is closed |
| | `GateMissesNothing`, `StopIsFinal` | `GateInv` relates the unlocked gate to phase and region flag and says what the operands turned away imply of the phase |
| `CheckpointSimProofs` | `SupervisorTypes`, `SnapshotsSurvive`, `PausesLoseNothing`, `ProgressIsKept`, `OnlyTheMoveIsExposed` | `IInv`: where the named snapshot is at each position (`LatestInv`), what `images/` holds while an image is awaited (`ImageInv`), how snapshot, image, simulator and owed work are ordered (`WorkInv`), that a paused run is over (`PauseInv`). The last theorem assumes `"moved" \notin FaultsAt` |
| `CampaignProofs` | `LanesVerified` | `LaneInv`: the row of the job in hand names the tool and the directory of *this* invocation (`InHand`), and a row that is trusted names a directory that deserves it (`Filed`). `Verified` is not inductive without the first: the child reports its end to whoever waits, and the row is judged by what it said before |
| | `CampaignsTruthful`, `CompleteStaysComplete`, `HoldSurvivesRestarts` | `ChainInv`: the first campaign has completed what is before the job in hand, with the tool it started with (`FidelityBehind`); the second runs nothing before the repetition controls are complete (`TrialsBehind`), and these, once complete, can never be launched again; a held campaign's job in hand is no threaded one (`ChainInHand`). `Measured` carries what the resumed simulation waited for. The theorems are about both programs in one: any interleaving, any job lists |
| `OfflineProofs` | `RawStaysReachable` | `TargetFirst`: the target is in place before the script turns to the source, and a record exists only for a link |
| | `ReportsTruthful`, `ProfileRunsAlone` | `PinInv`: a manifest says complete only after its run's last process is gone (`PinRuns`), a case with a row has no leader left (`PinRows`), and while the profile is in a case, of the profile's processes only that case's live (`PinAlone`; targets of the other studies may). A target that outlives its leader is why "no leader" and "nobody" must be told apart |
| | `RecordsName` | `InputInv`: a directory is written only by the process that made it (`Owned`), which never hands it to another; how far that process has got bounds what is in the directory (`Made`); so what a record names is in nobody's hands (`Recorded`). One fetcher at a time is part of the model (`Launch`): the script has no lock, and two would write the same partial files |
| | `RegionIsMeasured` | `GuestInv`: the exits taken tell the guest's activity (`GuestRan`), only the kernel's requests are the timing processor's (`GuestMade`), and each such request is counted or in exactly one queue (`Counts`, an equation of cardinalities kept by every refusal, retry and forwarding) |
| | `OracleStaysBest` | `OracleInv`: the exchange argument again, for records: the k with the highest scores land no less than any k (`BestLandMost`), and no two of them tie, because pages of one window differ. Every policy chooses at most what the oracle may (`CandidatesFit`). Accesses are a recursive sum of the library, whose laws are proved from smallest counterexamples (`AccessesWithout`, `AccessesJoin`) |
| | `OnlyWholeDumpsPass` | `WholeInv`: the windows yielded are a prefix of the records, made of whole windows with consecutive epochs (`WindowsRead`), what is pending is what follows in the file, and the totals are those of the prefix. A window that is refused is one that no well-formed dump has (`NextWindowSound`); at the end the prefix is everything (`AllRead`) |
| | `StreamGivesTheSame` | `AgreeInv`: the streamed totals are those of the records yielded so far (`Modelled`). Every batch analysis is first shown to go over the windows one by one (`TransitionsAre`, `EvaluatedIs`, `SweepsJoin`), so that one more window adds its own part (`NextModelled`): what it adds depends on the window before it only, which the stream has kept. Those that read the summary alone are sums over its histogram, whose entries count the records with that many words (`HistogramAdds`, `WordsAdd`, `WastedIs`). Of the turnover the rows are equal, hence their number and the mean retention; that a mean of shares with one denominator is the share of the sums (`MeanOfEqual`, where `Distributed` is the arithmetic) gives the rest, under the premise stated in 2.5. It needs `WholeInv`, for the records being everything at the end, and an acceptance by every batch loader of what is complete (`BatchAccepts`) |
| `ProbeProofs` | `SketchesNeverUnderestimate`, `CamsStayHonest` | every row counts at least the exact counter of every key; the CAM is honest row by row, so no minimum need be reasoned about until the end |
| | `SummaryIsWhole` | the state of the write determines what the temporary file holds |
| | `EvictedForHotter` | an offer lets a key out of the CAM only for the one offered, whose estimate is higher (`AccessOutranks`); a refresh keeps the keys, in another order |
| | `LinesAreInOneEpoch` | `EpochInv`: the open epoch's total is the sum of its pages' totals, so that closing it adds to the rows exactly what it takes from the counters; the length since the last boundary is that total |
| | `HeapsImplementSpaceSaving` | `HeapInv`: the heap is ordered, and the map and the entries' places are inverse to each other. A sift is a loop (`Loop`): each turn is one swap that leaves one entry out of order, nearer to the end; that it ends is a smallest counterexample. Every access is then one abstract step (`AccessKeepsHeap`). Its premise is that no exact word counter saturates: the words are compared with these counters, which stop at `WordMax` while the tracker counts on |
| | `HeavyHittersAreKept` | `HeapsInv`: the held counts add up to the accesses, and what is not held is at most as frequent as the root (`Summarised`). Words are compared with a history that does not saturate (`Records`), so the invariant needs no premise |
| | `ScoresAreFair` | `FairInv`. An exchange argument: whatever k keys are picked count at most what the k best do (`BestCountsMost`), which exist (`BestExists`); with room for every key the tracker's order is the exact one, which saturation does not change (`SameBest`) |
| | `CountsAreBounded`, `MissedKeysAreCold` | of `SpaceSaving`, alone. The two need each other: a newcomer inherits the smallest count, and only the second says that this covers what it had before |

`HierarchyTypes`, `ToolTypes`, `SupervisorTypes`, `WindowsClose` and `CamsStayHonest` state parts of these
invariants that no run lists any more, because the theorems cover them.

### Only model-checked

* Liveness (`Recovers`, `PauseHonoured`, `PinFinishes`, `ChainFinishes`) and anything with
  `ENABLED`: beyond the prover.
* `ImplementsSpaceSaving` once a word counter has saturated: it then compares different things.
* `AuditsPass`: how the histograms, paired totals and event counts of one collection fit
  together, as `compare_reproduction.py` and `audit_results.py` compute it. What each stream
  holds by itself is proved (`Whole` in `CommonProofs`, `Exact` and `Ledger` in `ProfilerProofs`).

## 6. Not modelled, and why

* The address-to-region map of `CounterTable` and its one-entry cache.
* In the Pin tool: the histograms of the summary, and feeding its trackers (done as in
  `Probe`). One flag for the region is the code's choice and is modelled as it
  is; no document says what concurrent or nested regions should record. `roiExit` writes the
  gate in any phase, also during fast-forward; `NothingMissed` speaks of the profile phase.
* The supervisor's guarded-file comparison, which refuses before it changes anything.
* Orphans: a simulator or a runner that lives on after its supervisor or lane was killed by
  SIGKILL. (The targets that outlive a study's leader *are* modelled.)
* A manifest that the profile's target writes while the study already judges it: `perf` and
  `run_paired.py` are one leader. `ProfiledAlone` covers what lives on, not this race.
* A lane that forgets a job's snapshot (`revalidation_campaign.py:97`) is modelled, but
  nothing promises that the snapshot is used, and no property says so. Gaps in a tracker sweep,
  repetition controls that were killed and a tool rebuilt under the chain block the campaigns for good: they
  are premises of the liveness properties, not cases that these cover.
* Two fetchers of inputs at a time.
* A benchmark that dies inside its region: the guest's script exits as if it had ended, and
  nothing a lane looks at can tell. `RoiMeasured` excludes it by name (`died`).
* The simulated board, caches and disks, which are gem5's, and the calibration test.
* What the code leaves as it is and no document promises otherwise: the length limit counts
  instructions outside regions too (`hotskew.cpp:364`); a run that ends by itself in its last
  allowed window is labelled limited (`:749`); a simulator that exits with 0 during its first
  checkpoint is recorded as failed (`checkpoint_sim.py:119`); a summary that could not be
  written in full, on a full disk, replaces the good one (`hotskew_probe.hpp:232`); a tool
  rebuilt between its hash and its launch (`run_paired.py:115`); a dump that is migrated
  while it is written (`migrate_raw_storage.py:27`).
* Zero budgets and `topK` 0 are outside the constants' assumptions; no script uses them.
* Latency equations, fits, tables, plots and the site: arithmetic and rendering over what
  the modelled analyses produce. The refusals of the publishers are modelled.
* Shell drivers: sequential process launching. The benchmarks' own computation is what is
  measured. Validation programs and tests were read for what they promise.

## 7. Plan

The plan's modules for the cache, the tool, the trackers, the probe, the supervisor, the
campaigns, the paired runner, the migration and the analyses are written. Every invariant and
action property of theirs is proved except the audit that section 5 names. What
remains, in order of importance:

| Step | Modules | Questions |
|---|---|---|
| 1 | `RegionMap` refining `PageCounters` | The one-entry cache never answers for another region, also after a reset |
| 2 | a supervisor that is killed while its simulator lives on | Two writers of one `images/` |
