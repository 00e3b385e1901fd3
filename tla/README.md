# Verification of loc-lm-bench

loc-lm-bench (package `llb`, under `src/src/llb/`) benchmarks locally served
language models on retrieval-augmented question answering: it prepares a corpus
and a gold set, downloads and serves models, runs evaluation campaigns and
publishes their bundles. Most of it is pure data processing. What can go wrong
in ways a test hardly reaches is the part that keeps state across steps: files
that survive crashes, processes that are relaunched, budgets that are spent,
devices that are written. That part is what this project models.

## 1. Inventory

| Component | State | Operations | Hard behaviour | Correct when |
|---|---|---|---|---|
| robotics gate (`robotics/action_executor.py`, `action_gate.py`, `device_emulator.py`, `fake_driver.py`) | device snapshots, fault queues, stops, locks, reservations, unresolved devices, attempted proposals | `process`, `reconcile`, `read`, stops, locks, faults | callers interleave; a write's outcome may be unknown; the world changes between decision and write | each write acts on the state that was decided on, once; an unknown outcome blocks the device |
| durable run (`executor/durability*.py`, `runner*.py`, `tracking/manifest.py`) | staging directory, case journal, pinned fingerprint, bundle | start, resume, case loop, retry, relaunch, publish | kills anywhere, torn lines, relaunches that fail, resumes under another configuration | what was paid for is kept; a bundle is one whole run |
| scorer gate (`auto_rag/verification_auto.py`, `scoring/policy/`) | consent, cost ledger, decided rows, worksheet, accepted rows, stage marker | call, record, abort at the cap, decide, emit, publish | crash between call and record, between ledger and output; resumed batches | spending stays within the consented caps; a row is decided once, on its own score |
| frontier drafting (`prep/frontier/`, `prep/ontology/`) | call and spend budget, cost log, extraction journal | extract windows in a thread pool, draft, write or abort the bundle | concurrent calls share a log and a budget; one thread raises while others run; kills and resumes | no more is spent than the cap and one call; no journaled window is paid twice |
| model download (`backends/model_download/`) | plan and part state, part files, lock | resume, transfer, verify, complete | crash between bytes, checkpoint and rename; server changes the file | what is complete is what was planned |
| sweep (`executor/isolation.py`, `sweep_cells.py`, `vram.py`) | cell results, GPU memory | run a cell in a child, reclaim, cool down | child crashes, leaks | one cell does not bias the next |
| auto-RAG stages (`auto_rag/run.py`, `journal.py`) | pinned manifest, stage markers, event journal | run or reuse each stage in order | interrupted stage, changed settings | a completed run is one run of each stage |
| store builds, generations, refresh (`rag/refresh/`, `rag/vector_store/`, `core/store_generations.py`) | the base directory, immutable generations beside it, a meta file with fingerprints in each | build in place, diff and refresh into a hidden directory, rename, resolve the newest meta, delete a generation | edits, builds, kills and rollbacks while a refresh reads and embeds | a refresh gives what a rebuild would; a store that passes for current is current |
| fine-tuning (`finetune/`) | adapter registry, `state.json`, campaign journal, adapter directories, run bundles | loop rounds, campaign entries, hand training, resume, `gc-adapters` | kills between weights, manifest, bundle, registration and record; collection beside running loops | what is recorded, cited or newest is not collected; what was registered is listed |
| conflicts overlay, review sessions, joint search, agent loop | journals and overlays | resolve, review, search, act | resume, stale decisions | decisions apply to what was seen |
| everything else (`rag`, `graph`, `prep`, `goldset`, `bench`, `board`, `cli`, ...) | none across calls | pure functions | none | covered by unit tests |

Components interact through files (staging directories, journals, manifests,
registries, stores) and through the endpoint of a serving process; the only locks
are the emulator's `Lock`, the draft thread pool's and the download's file lock.

## 2. Modules

Each component has a module of its own, an `MC...` module with the constants of its
runs, and a `...Proofs` module with its theorems. `RobotGate`, `DurableRun`,
`ModelDownload`, `ScorerGate`, `OntologyDraft` and `StoreRefresh` instantiate the
abstract `Workcell`, `CaseRun`, `Snapshot`, `Acceptance`, `Extraction` and `Reindex`
they implement; `SelfImprove` extends `AdapterRegistry`, the registry through which
loops, campaigns, hand trainings and the collector interact. The other components
share no state. The program has no shared scheduler: where several actors interleave
they are callers of one executor, threads of one pool, or a process and the kill
that ends it.

Kept everywhere: each write to disk, network or device that another actor or a
crash could see apart from the next one is a step of its own. Left out
everywhere: wording, logging, metrics, and the content of payloads beyond what
the properties tell apart.

### RobotGate, Workcell (robotics)

| State | Code |
|---|---|
| `dev`, `readFaults`, `writeFaults`, `stops`, `locks`, `reservations` | `DeviceEmulator._drivers`, `_faults`, `_emergency_stops`, `_external_locks`, `_reservations` |
| `unresolved`, `attempted` | `ActionExecutor._unresolved_devices`, `_attempted_non_idempotent` |
| `pc`, `prop`, `snap`, `unavailable`, `outcome`, ... per caller | locals of one call of `process()` or `reconcile()` |
| `attempts`, `doubt` | history: invocations of each proposal; devices with an outcome nobody has observed |

`Reserve`, `Observe`, `Decide`, `BeginInvoke`, `Drive`, `Record`, `Release` are
the steps of `process()`; `ReconcileRead`, `ReconcileClear` those of
`reconcile()`; `SetEmergencyStop`, `SetExternalLock`, `InjectReadFault`,
`InjectFault`, `ReadOperation` are what the workcell's environment does.
`CheckOrder` lists the reasons of `decide_action` in its order: the first one
that applies decides. Reasons that depend on the proposal alone (digests,
arguments, limits, taint) are a constant set `Flaws` per proposal. A configured
effect that does not fit its operation is left out (`_apply_effects`): it raises
before anything is written, as a stale revision does.

`Workcell` is the abstract specification: one admissible proposal at a time
moves a device, at the revision and in a state it names, and a non-idempotent
one reaches the adapter once.

The repository calls the executor from one thread; the emulator's `Lock` and its
reservations are its provision for several, so both are checked: the run with
two callers and the run with one. There is one executor: a second one over the
same devices, or a direct call of `DeviceEmulator.invoke`, is outside the model.

### DurableRun, CaseRun (executor, tracking)

One run id from its staging directory to the published bundle. `meta`,
`journal`, `ragged`, `last`, `broken`, `staged`, `bundle`, `published` are the
files; `config`, `done`, `at`, `attempt`, `relaunches` the process. A journaled
state is represented by the configuration it was computed under. `StartFresh`,
`Pin`, `StartResume`, `Load`, `NextItem`, `CallModel`, `Relaunch`, `Record`,
`Probed`, `Judged`, `DropJournal`, `DropMeta`, `Persist`, `Publish`, `Mirror` are
the steps of `execute_run`; `Stop` is a kill between two of them. Three more
faults are named, so that a run can allow some and not others, and `struck`
remembers which have happened: `tear` (a kill inside an append), `finalize` (a
kill or a failing write while publishing), `abort` (an exception out of the case
loop, which wipes the staging directory of a fresh run). Two processes that
resume one directory at the same time are not modelled.

`CaseRun` is the abstract specification, without process, journal or directory:
one case at a time is asked, an answered case is never asked again, answers keep
the configuration the run was pinned to, and all of them are published at once. It
may lose answers only after it was `mauled`. The mapping takes as `answered` what
the process holds while it runs, and what the journal would load while it does
not (`Answered`); `mauled` is whether a named fault has struck.

### ModelDownload, Snapshot (backends)

`log` is `state.json`, `part` and `final` are the files, a sequence of chunks
each; `mem`, `at`, `got`, `spent`, `tries` belong to the session. Recovery is
`TakeBack` (a published file that is complete no more becomes a part file again),
`RecoverFile`, `Recovered`, `Saved`; the transfer `Loop`, `FetchChunk`,
`FetchFails`, `Refused`, `Checkpoint`; completion `Finalize`, `CheckpointFile`.
`Crash` falls between any two steps, `Rot` is what disks do to part files and to
published ones, and the provider may serve wrong bytes. The directory's file lock
admits one process, and so does the model. Throttling only delays; that free space
is short is one of the ways to be `Refused`, how much of it is short is data.

One crash is special: between cutting chunks off a part file (`_recover_partial`,
`_finalize_file`) and saving the checkpoint. `cut` and `hurt` are history
variables that say it happened, and no guard looks at them: `Crash` is always
possible. `StrandedIfHurt` says that nothing else strands a download, and
`Recoverable`, the same without the exception, is what `model_download_truncate`
finds violated.

`Snapshot` is the abstract specification, without part file, chunk or session:
per file name, whether nothing, good content or decayed content is there
(`Store`), which files the checkpoint claims (`Claimed`), and whether the last
process ended by saying that it had verified the snapshot (`Checked`). Content is
installed good, taken back only when it has decayed, claimed only while it is
there, and a good file that was claimed stays claimed.

### ScorerGate, Acceptance (auto_rag, scoring/policy, goldset)

The autonomous verification gate on the frontier lane. `state` and `cases` are
the cost ledger's two files, `gate` is the gate's own ledger, `worksheet`,
`emitted` and `done` its outputs; `scores`, `missing`, `todo` the batch. A score
remembers the row it was given to, which is what lets `ScoreIsOwn` be stated: the
cost ledger knows positions, the gate's ledger items. `Reserve`, `Reserved`,
`Call`, `Record`, `Recorded` are one paid call with its two rewrites of
`ledger_state.json`; `Decide`, `Append`, `Judge`, `Emit`, `Publish` what follows.
A corpus document that is missing after the rows were written ends the process
where a crash would. `paid` is a history variable, the cost of every answer: a crash
between an answer and the write of `ledger_state.json` does not give the money back,
and the next process does not know of it.
A crash may leave `ledger_state.json` empty and the output half-written. Appends
are atomic, except that `scorer_ledger.jsonl` is flushed in blocks: the fault
`partial` cuts it after some row (a cut just before a newline counts as one
after it). Both caps are present, an absent one being one that is never
reached; rounding of floats is ignored. The local and the human lane keep no
ledger of their own.

`Acceptance` is the abstract specification, without process, ledger or position: a
row without a score is asked for within the caps, gets one score, is decided by
it once every row has one, and what was accepted is published once. The mapping
takes as the score of a row what the two ledgers determine together (`Fixed`), as
calls those that were made, as spend what `ledger_state.json` says.

### OntologyDraft, Extraction (prep)

The frontier drafting bundle. `pinned` and `journal` are the files, `done` is
the loaded journal, `upto` and `next` the queue of the thread pool, `calls` and
`cost` the `DraftBudget`, `newest` the last record of the cost log; `step`,
`window`, `tries`, `parsed`, `share` belong to each thread. A guarded call is
`Reserve` (under the lock), `Answer` (the endpoint, and the log), `ReadCost`
(`records[-1]`) and `Charge` (under the lock): other threads run in between.
`Take` and `Record` are a window, `Submit` and `Extracted` the loop over the
documents, `Draft` and `Drafted` the seeds, `Write` and `Abort` the two ends of
a bundle. When one window raises, a pool is left only after the queue has
drained (`Served`, `Abort`), a single thread at once (`Pooled`). Both phases go
to the frontier, one process runs at a time, kills fall between atomic appends
(torn lines are the subject of `DurableRun`), and the corpus does not change
between processes. Locals are reset when their frame ends.

`Extraction` is the abstract specification, without thread, queue or journal: a
process works off all windows (kept from before, answered and kept, or given up)
before it drafts; a kept window is not asked for again, no window by two threads;
after the budget has refused once, no call is made and nothing is written as
complete. The mapping takes as `asking` the windows in the hands of the pool, as
`left` those and the rest of the queue.

### AdapterRegistry, SelfImprove (finetune)

| State | Code |
|---|---|
| `entries`, `seq`, `torn` | what reading `registry.jsonl` gives, its registrations so far, whether its last line is cut |
| `weights`, `manifest` | each `round-N/adapter` (or hand) directory and its `adapter_manifest.json` |
| `bundles` | the adapters cited by published run bundles, each by digest and by path |
| `saved` | the rounds of `state.json` (loops) or `campaign.progress.jsonl` (campaigns) |
| `pc`, `dataset` | each loop, campaign entry or hand training, and what it trains on |
| `gcpc`, `seen`, `cited`, `plan` | the locals of one `gc-adapters` |
| `acked` | history: registrations that returned |
| `stripped`, `late` | history: directories of which an operator deleted a bundle that alone cited a registered adapter; directories first evaluated when the collector had looked for their bundles |

A round is `Tune`, `Train`, `Stamp`, `Final`, `Register` (or `RegisterFails`,
which an orchestrator survives), `Save`. `Crash` falls between any two of them,
and inside an append it may tear the line; `Resume` and `GoesOn` start again
where the record says. The collector is `GcLoad`, `GcBundles`, `GcJournals`,
`GcDelete` (the directory first) and `GcTombstone`. `Evaluate` is `run-eval
--adapter` of a registered hand adapter, at any time and as often as one likes; it
looked for the directory when it started, so the collector may have taken it by the
time the bundle is published. `Prune` is an operator who deletes any run bundle of
a recorded round, the bundle that a killed attempt of it left included.

What such a deletion does is the operator's: when the bundle alone cited a
registered adapter, the collector may take the directory, and the properties exempt
that directory (`stripped`). Deleting any other bundle takes nothing from anybody,
and no directory but the stripped one is lost. `CitationsHold` is the
documentation's promise without exceptions, and is violated in three ways (sections
4 and 6). Bundles of rounds that are not recorded yet are not deleted: the loop that
made them is running, or is to be resumed.

A torn line is a prefix that does not parse, so the next line is lost with it.
The clock of `created_at` is monotone, there is one base model, an entry of a
campaign has one round, each hand training has a directory of its own, and
registering an identical entry again changes nothing. The evaluation of the base
model, `--force`, merging and serving, hyperparameter search, distillation, the
embedder lane and the contamination guard are left out.

### StoreRefresh, Reindex (rag, core)

`corpus` is the version of each document; `base` and `gens` are the store
directories, each with chunk records, vector rows, the fingerprints per document
and of the whole corpus, and the time of its meta file. `build` and `job` hold
the locals of `build-index` and of each `refresh-index`. `Resolve`,
`Fingerprint`, `ReadChunks`, `ReadIndex`, `ChunkChanged`, `Assemble`, `Stamp`,
`Save`, `Publish` are one refresh: the corpus is read three times, at different
moments, and so is the store. `BuildChunks`, `BuildWhole`, `BuildPrints`,
`SaveChunks`, `SaveIndex`, `SaveMeta` are a build, which writes its three files
in place. `Edit`, `Rollback`, `Kill`, `KillBuild` come from outside and fall
between any two steps.

A document has one chunk, a chunk's fingerprint is the version it was made of,
and a vector is the text it encodes. Duplicates that the exact tier collapsed
are looked at expanded. Meta files have different times. Two faults are named:
`mixed` lets a build write, or die, while its base directory is read; `late` lets
people edit between the chunking of a build and its fingerprints. The embedding
strategy `late` (its vectors depend on neighbours), parent chunks, the lexical
index, siblings of a store, graph refresh and index digests are left out.

`Reindex` is what the chain of stores promises: a refresh reads every document at
some moment after it took the fingerprints it records, a build reads all when it
starts, and which chunks and vectors were carried over, through how many stores,
does not show. `Since`, `Building` and `Seen` map the jobs, the build and the
complete stores to it. One clause concedes what the code does: a document that is
missing when the fingerprints are taken and back when the documents are listed keeps
a chunk it had before, until the next refresh.

## 3. Plan

The order was: robotics gate with its refinement of the abstract workcell,
durable run, model download, scorer gate, frontier drafting, fine-tuning with
garbage collection, store refresh. All are modelled, checked and proved about.

Worth doing next: an abstract specification of the registry of `SelfImprove`; the
eight auto-RAG stages around `ScorerGate`. Section 7 says why the other parts are
left out.

## 4. Runs

| Run | Asks | Shows |
|---|---|---|
| `robot_gate` | do reservations, decisions and attempts stay sound when two threads share the executor? | all hold, and the gate implements `Workcell` |
| `robot_gate_serial` | does doubt block a device when there is one caller, under more faults and a tainted proposal? | yes |
| `durable_run` | is a bundle one whole run after any faults; what do kills cost? | a bundle is whole and of one configuration; the journal and its processes implement `CaseRun`: nothing answered is lost or asked again unless a named fault strikes; a case costs a bounded number of calls; every process ends |
| `durable_run_finalize` | can a run that died while publishing be resumed? | violated: the journal is dropped before the bundle is renamed |
| `model_download` | is what is published verified, what can strand a download, and does restarting complete it? | yes, with rot, wrong bytes, failed requests and crashes anywhere; one kind of crash strands it; parts and checkpoints implement `Snapshot` |
| `model_download_truncate` | can every session recover what the last one left? | violated by a crash between truncating a part file and saving the checkpoint |
| `scorer_gate` | do caps, scores and decisions survive crashes and resumes? | yes, except that each crash may hide the cost of one answer; the two ledgers implement `Acceptance` |
| `ontology_draft` | what does the shared budget cost and lose, and does every process end? | one parsed answer per thread at most; pool, queue and journal implement `Extraction`: nothing is skipped or asked again; every process ends |
| `self_improve` | do a loop, a hand training and the collector keep what the others need, across a kill? | nothing recorded, cited or newest is deleted, but for directories stripped of the only bundle that cited them and evidence first produced behind the scan; what was acknowledged is listed; everybody finishes |
| `self_improve_journal` | ... also when a campaign's run bundles are gone? | violated: the collector looks for `adapter_dir` one level above where campaign journals write it, so none of their rows cites anything |
| `store_refresh` | what do refreshes give while people edit, build, kill and roll back? | the chain of stores implements `Reindex`, a quiet refresh is a rebuild, a store called current is, and refreshing converges |
| `store_refresh_late` | does a store with the fingerprint of the corpus hold the corpus? | violated: a build fingerprints the corpus after it has chunked it |

A violation states what the repository says of its program; the finding in
`PROJECT.json` quotes the line. Eight more configurations are kept beside the
runs, for the disagreements of section 6 that name them.

### Bounds, and why they are enough

- `RobotGate`: two devices, two callers, four proposals, so that two calls compete
  for a device, one depends on the other's, and one needs a revision the other
  makes; a second caller is what interleaving takes, symmetry makes them one case.
  `MaxDisturbances` bounds stops, locks and faults from outside: one with two
  callers, two with one.
- `DurableRun`: three items (a case before, at and after the fault), two
  configurations to mix, three processes (one to leave a fragment, one to append
  to it, one to read both), one retry and one relaunch.
- `ModelDownload`: two files, sessions of two chunks, four faults; every pair of
  crash, failed request, rot and wrong chunk meets in one behaviour.
- `ScorerGate`: four rows, one of each kind, caps that bind before the batch is
  done, two crashes: one to leave a state, one during its repair.
- `OntologyDraft`: two threads, a document with more windows than threads and one
  of a single window, one draft, one retry; four calls and a price above the cap
  let either cap stop any thread at any step; two processes.
- `SelfImprove`: a loop of two rounds (one round is the input of the next) and a
  hand training (an adapter that no journal mentions), five tuning runs (two rounds,
  one of them trained again, the hand training, and one to spare), one kill: enough
  for a kill that tears the registry, the registration that is lost with the torn
  line, a round retrained into the directory of its first attempt, and a collection
  before and after. The campaign has a run of its own, in which it and a loop
  supersede each other.
- `StoreRefresh`: two documents, with versions chosen so that one is deleted, comes
  back with the text of the other and is annotated without a change of text, and the
  other takes over the text of the first, is deleted and comes back; three edits,
  one each of refresher, build, kill and rollback. Three edits are one before a
  refresh, one during it and one after it.

`CHECK_DEADLOCK FALSE` is set where the system may really stop: a published run
(`DurableRun`), a published stage (`ScorerGate`), and where the bound on
processes is used up (`DurableRun`, `OntologyDraft`).

### Fairness

Safety properties are stated of `Spec`. Liveness needs:
- `DurableRun`, `WF(Run)`: one sequential process; model calls have timeouts, so
  it does not stay in one step.
- `ModelDownload`, `WF(Run)`, and `SF` of starting a transfer: a download is
  resumed by whoever started it. That is what "restarting completes it" means;
  nothing in the code restarts it.
- `OntologyDraft`, `WF` of the main thread and of each thread of the pool: the
  operating system runs them and the endpoint answers or times out.
- `SelfImprove`, `WF` of each process' steps and of its resumption: whoever
  started it resumes it, nothing in the code does. The collector needs none.
- `StoreRefresh`, `WF` of a build that was started, and of each refresher: an
  operator, or a timer, runs `refresh-index` again. `Converges` promises nothing
  without it.
`RobotGate` and `ScorerGate` have no liveness property: nothing in their code
retries by itself.

## 5. Proofs

The provers check the theorems for every value of the constants that satisfies
the module's assumption. In all modules types come first, split into Boolean
flags and the rest because the two provers divide that work.

- `RobotGateProofs`. `ReservationDiscipline` from `Discipline`: what is reserved is
  what callers hold, and a caller that is idle has nothing left over.
  `WriteIsFresh` adds that an observed snapshot stays current while its
  reservation lasts (`FreshRead`, `Decided`), because only the holder's `Drive`
  moves a device. `AttemptedOnce` needs `Once`, `Unspent`: a proposal in flight is
  not remembered yet, and no other caller can hold its target.
  `GateImplementsWorkcell` maps each step to a step of `Workcell` or a stutter.
  `SerialDoubt` assumes a single caller: with two it is false (section 6).
- `DurableRunProofs`. `OneRun` says what each phase of the process knows of its
  rows; from it follow `BundlesAreWhole` and `JournalIsPinned` under all faults.
  `CallsAreBounded` counts rounds (`Counted`; the multiplication is a lemma,
  `Rounds`). `KillsLoseNothing` and `KillsRespendNothing` from `Whole`, as long as
  no fault has struck. `ImplementsDurability` is the refinement of `CaseRun`, under
  every fault: `Agrees` says what the process' memory and the journal have in
  common in each phase, so that handing over from one to the other at a kill, a
  load or a publication is a stutter; `Unseen` collects the steps that change
  nothing the mapping looks at, `Suffers` those in which a struck run loses rows.
- `ModelDownloadProofs`. All theorems hold under every fault.
  `PublicationIsVerified` from `Covered` and `Backed`: what memory calls complete
  past recovery is there, and what the checkpoint claims is under one of the file's
  two names at any time. `OnlyTheHurtAreStranded` from `Backed` (every chunk the
  checkpoint names is on disk, unless the process has cut a part file and not saved
  since, or was killed then) and `Sized`. `CheckedAreGood` from `Claims`: a session
  that is to verify has looked at every file it takes for complete, as far as
  recovery has come. `SecuredStays`, an action property, from `Keeps`: memory is
  never short of what the checkpoint secures (so a save loses nothing), and a good
  file under its final name is known as soon as recovery has passed it; with lemmas
  on what cutting, writing and appending do to a valid prefix.
  `DownloadImplementsSnapshot` is the refinement: `Stands` adds that memory and
  checkpoint claim only files that are there, and a lemma per kind of step shows
  which abstract step it is (`StoreChanges`, `ClaimsAnew`, `Forgets`).
- `ScorerGateProofs`. `CallsCapped` from `Booked` (calls made are on disk before
  they are made), and `SpendCapped` from `Funded` (money was left on record when the
  call in flight was reserved) and `Accounted` (what was paid and is not on record
  is the answer in flight and at most one for each crash), under every fault.
  `ScoresAreOwn`, `ScoredAreNotAsked` and `DecisionsAreFinal` from `Aligned`: a
  position of the cost ledger names the same row in every process (`OwnPosition`).
  That fails when the append is cut, and the theorems assume it is not (`Whole`).
  `GateImplementsAcceptance` is the refinement, from the same invariant, `Emitted`
  and `Funded`; there is a lemma per abstract step.
- `OntologyDraftProofs`. `JournaledOnce` from `Exclusive`: no two threads share a
  window, and memory holds the journal while the process extracts.
  `FewAnswersLost` from `Losses`: once the cap is passed no call is reserved, so
  losses and calls in flight together stay within the number of threads.
  `CompleteWithinBudget` from `Within`; `SerialSpend` from `Accounted`: with one
  call in flight the budget is short of exactly that call. `DraftImplementsExtraction`
  is the refinement: a window that a thread leaves was in no other hand
  (`HandsDrop`, from `Exclusive`), and what was refused once stays refused
  (`Halting`), so that the threads still draining the queue make no call.
- `SelfImproveProofs`. `IInv` has a conjunct per argument. `CitedOrInState`: a
  listed adapter of an orchestrator is cited by a bundle, or its directory is known
  by it and recorded where the collector can read it, or the directory was stripped.
  `Scanned` and `Planned`: what each phase of the collector has found out is still
  true (no evidence is still to come of what it may delete, because bundles of a
  round precede its registration and `late` collects those of hand adapters that
  came behind the scan), so that what it deletes is stripped, or a hand adapter
  nobody evaluated in time (`Deletes`). `OneAdapter`: all that is listed or cited of
  a campaign is one adapter. `StrippedRecorded`: only recorded rounds are stripped,
  so a running one has its files (`Ready`). `Newer`: whatever is planned or already
  deleted is outlived by a listed entry that is not planned, which `NewestKept` needs
  because ids may be registered anew while the collector runs; `Newest` and `Largest`
  give such an entry from well-founded induction on `seq`. No theorem assumes
  anything about which rounds' bundles are deleted (`Prunes` is any set), how often,
  or when; the exemptions are those of the properties.
- `StoreRefreshProofs`. `Times` and `Apart` let a time name one store. Vectors and
  chunks depend on different things. `RowsStay`, from `RowsKept`: a refresh that has
  read half of the base reads the other half of the same store (`HalfRead`), which
  is why it assumes no `mixed`. `ChunksFollow`, from `AllTraced`: a store's chunks are
  at least as new as its fingerprints say (`Faithful`), and a job reads the store it
  has compared or a later build (`Compared`, `Traced`); it assumes no `late`, but
  lets builds write under refreshes and die half way. `RefreshRebuilds` and
  `UnchangedCurrent` need both. `StoresImplementReindex` is the refinement, from both
  invariants: `Faithful` is what `Reindex` asks of a refresh (`PublishSeen`).

Model-checked only: liveness (`SessionEnds` twice, `EventuallyComplete`,
`EverythingEnds`, `Converges`), which is out of the provers' reach, as are `ENABLED`
and induction over data. Every other property of a passing run is a theorem. A
condition in a theorem's statement is a fault its run leaves out; where a run or a
configuration ends in a violation, it shows that the condition cannot be dropped.
Proved, and not run any more: `JournalIsPinned`, `PublicationIsAccepted`,
`CompleteWithinBudget`; and `KillsRespendNone`, `CheckedIsGood`, `OnlyUnscoredAreAsked`,
`NeverReasked` and `RowsMatchChunks`, whose place the refinements have taken:
`CaseRun`, `Acceptance` and `Extraction` ask nothing answered again, `Snapshot`
reports only what is good, and the vectors of `Reindex` are those of its chunks.

## 6. Disagreements

Checked by runs: section 4. Found by TLC, each with the configuration that shows
it again (`tlc -config X.cfg MC...`):

- `RobotGateRace.cfg` (`DoubtBlocksTarget`): `reconcile()` reads the device without
  a reservation, and its discard (`robotics/action_executor.py:63`) clears a mark
  younger than the read; its docstring (`:61`) wants "an explicit successful read
  before another proposal can proceed".
- `DurableRunTear.cfg` (`NeverRespent`): the record appended after a torn line is
  glued to it (`executor/durability_journal.py:145`), so that a completed case is
  called again; `executor/durability.py:10` has it reused "instead of re-spending the
  model call".
- `ScorerGatePartial.cfg` (`ScoreIsOwn`): scores are replayed by position
  (`auto_rag/verification_auto.py:61`), and after a cut append a row gets the score
  of another; `docs/impl/current/rigor-board-judge/judging.md:44` promises calls
  "only for unscored cases".
- `ScorerGateSpend.cfg` (`SpendNeverExceeds`): the cost of an answer is first written
  when `ledger_state.json` is rewritten after it, and a resume reads it from there only
  (`scoring/policy/ledger.py:182`), although `ledger.jsonl` has it too. Each process
  that dies between the two lets the next ones spend that much more;
  `docs/impl/current/rigor-board-judge/judging.md:41`: "resume reloads the ledger so
  spend never silently exceeds the cap".
- `OntologyDraftSpend.cfg` (`GuardSeesSpend`): two overlapping calls both charge
  `records[-1]` (`prep/frontier/telemetry.py:134`); the class calls itself
  thread-safe (`:82`).
- `SelfImproveRetrained.cfg` (`CitationsHold`): a loop is killed after it has
  registered a round and before it has recorded it, and resumed: the round is trained
  again into the same directory, which both ids are listed with. Once the run bundle
  of the first attempt is deleted, nothing cites the first id, because the directory
  is known by the last one (`finetune/lifecycle_citations.py:45`), and collecting it
  removes the directory (`finetune/lifecycle.py:129`): the recorded adapter, cited by
  its own bundle and by `state.json`, is gone. `finetune/lifecycle.py:3`: candidates
  "are refused while any durable artifact still cites them".
- `SelfImproveLate.cfg` (`CitationsHold`): a registered hand adapter is superseded
  and evaluated for the first time after the collector has scanned the bundles; its
  new bundle cites an adapter that is deleted, which would "strand evidence that can
  no longer be reproduced" (`finetune/lifecycle.py:5`).
- `StoreRefreshMixed.cfg` (`RefreshIsRebuild`): a refresh reads `chunks.jsonl` and
  the index of a base directory that `build-index` is rewriting, or died rewriting,
  without the check of readability that `load_store` makes.
  `rag/refresh/store_refresh.py:10` says that the result is identical to a rebuild.

Met while modelling, and not run:

- A kill between the registration of a round and the write of `state.json`
  (`finetune/loop.py:160`) is a disagreement by itself: the round is trained again
  into the same directory and the old id stays listed with it, naming other weights,
  though an id can "never be reassigned to different weights"
  (`docs/impl/current/extended-workflows/adapter-registry.md:8`).
- Two hand trainings that share a directory: collecting the superseded one deletes
  the directory of the newest, which is no candidate (`finetune/lifecycle.py:3`).
- `finetune/registry/io.py:47` says one bad append is isolated; the line after a
  torn one is lost with it, and `register_adapter()` then raises a `KeyError` that
  `try_register_adapter` does not catch.
- Two entries of one directory make the lookup by directory ambiguous; a bundle or
  a state file that cannot be read cites nothing, which the collector takes for
  permission.
- A running loop stops at a rejected round (`finetune/loop.py:107`), a resumed
  one goes on from the rejected adapter (`:95`).
- A document without a row in a corpus manifest is indexed by a build and never by
  a refresh.
- A corpus edited and edited back during a refresh: the chunk is of the text in
  between, its fingerprint of the text before and after.
- A document that is missing when a refresh takes its fingerprints and back when it
  lists the documents is not chunked: the store keeps the chunk it had, older than
  the refresh, and the next refresh replaces it.
- A slower build or refresh of an older corpus takes over by the time of its meta
  file; the next refresh corrects it.
- Two refreshes of one store started within a second share a staging directory
  (`core/store_generations.py:63`, `cli/rag/refresh.py:100`).
- A refresh of a corpus that was emptied refuses, and the last store stays live.

- A journal line cut inside a multi-byte character makes `load()` raise
  `UnicodeDecodeError` on every later resume (`executor/durability_journal.py:102`),
  though malformed lines are meant to be skipped (`:89`).
- A relaunch that fails in a fresh run deletes its staging directory with all
  completed cases (`executor/runner_backend.py:225`).
- Bytes of ranges that fail and are fetched again are not charged to the session
  budget (`backends/model_download/transfer.py:121`, against `:189`).
- `ledger_state.json` is rewritten in place (`scoring/policy/ledger.py:166`); a
  crash in between leaves a run whose ledger does not open again. The caps hold.
- The budget abort of the auto-RAG gate is called resumable, but its settings with
  the caps are pinned, so a resume meets the same cap.
- The robot gate looks the unresolved mark of the target up, not those of its
  dependencies (`robotics/action_gate.py:121`); the documentation can be read
  either way (`docs/impl/current/robotics-rag/action-gate-and-emulator.md:21`).
- An answer without content raises after its cost was logged; the cost is never
  charged (`prep/frontier/telemetry.py:127`).
- `DraftBudget` lives in memory: a resumed draft has its caps anew.

## 7. Not modelled

`PROJECT.json` lists every component with its reason. Most of the package is pure
(`rag` retrieval, `graph`, `judge`, `linkage`, `quality`, `bench`, `board`, metrics
and reports): no state across calls, nothing to interleave. Training, serving and
the providers are external. Of the components that keep state these are left out:

- The sweep (`executor/isolation.py`, `sweep_cells.py`, `vram.py`). Cells run one
  after the other, and its gate compares sampled megabytes with a tolerance: what
  it guarantees is a threshold, not an order of steps. Reading it showed that a
  cell that raises skips the reclaim gate (`isolation.py:99`), that the key by which
  a cell is resumed leaves out split and limit (`isolation.py:178`), that the run
  directory of a cell is taken to be the newest one (`sweep_cells.py:118`), and that
  leaks below the tolerance add up.
- The other auto-RAG stages (`auto_rag/run.py`): a fixed order with a marker each;
  the stage that is hard is `ScorerGate`.
- The conflict overlay and review sessions: one process derives an overlay from
  approved decisions, one person appends decisions one by one.
- Joint search: a study storage of a third party; each trial is an evaluation run.
- The agent loop: sequential, bounded by its counters, nothing kept between runs.
- The contention guard and the launchers: decisions on memory and processes of other
  programs, about which a model would be assumptions.
