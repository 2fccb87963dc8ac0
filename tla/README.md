# Specifications of Forge

Forge is a Rust workspace (about 105,000 lines) that builds static sites from
`cms/*.json` and `forge.toml`: a pipeline of phases renders pages and lints them,
every build appends a hash-chained report, sites are kept apart by a shared
fingerprint registry, `forge watch` rebuilds on save, `forge-serve` serves the
result, and `forge-mcp` lets agents record their progress. These TLA+ modules model
the parts whose correctness depends on the order of steps (files written in several
steps, processes without a common lock, crashes between writes, events from another
thread), check them with TLC on small instances and prove the most important facts
with TLAPS for every instance. Paths below are relative to `src/`; `main.rs` alone
is `crates/forge-cli/src/main.rs`.

To check a run: `tlc -config X.cfg M` (module and configuration in the table of
runs). To check the proofs: `tlapm M.tla` for each `*Proofs` module (from nothing,
`MachineProofs` takes about five minutes).

Contents: 1 inventory, 2 modules, 3 runs and bounds, 4 fairness, 5 proofs,
6 divergences, 7 not modelled, 8 plan.

## 1. Inventory

No part of Forge takes a lock on a file, and only two programs have more than one
thread of control (`forge watch` and `forge-serve`). Everything else that is hard
comes from several processes on the same files, from processes that die between
two writes, and from values read early and used late.

### Report chain

- State: `reports/build-<second>.json`, `reports/latest.json`,
  `reports/attest-key.b64`, `reports/attest-pubkey.b64`.
- Operations: `forge build` (`run`, main.rs:1442-1923) stamps itself, runs the
  phases, reads the newest report, chains to it (`attest::chain_step`), signs and
  writes both files; `forge attest init` (main.rs:2281-2425) writes a key pair;
  `forge verify --chain --signatures` (main.rs:4087-4335) lists, reads and walks.
- Interactions: the report of a build is the input of the next one; `forge watch`
  runs builds as children; `verify` and `attest init` run beside them.
- Hard: the file name has one-second resolution; `fs::write` truncates before it
  fills; two builds read the same newest report; keys change between builds, and two
  `attest init` may overlap.
- Correct when: the files form one intact chain; a chain that verifies is the
  whole history of its head; the length claimed is the true depth; a report never
  changes; every signature verifies until a key is replaced.

### Fingerprint registry and uniqueness gate

- State: `fingerprints.jsonl`, shared by the sites of an operator, and each site's
  `cms/`.
- Operations: `forge fingerprint register` and `verify`
  (`fingerprint_registry::append`, `verify_chain`), and the phase
  `uniqueness_gate`, which reads the registry twice.
- Hard: read the last entry, then append, without a lock; an append is two writes;
  the gate's verdict is stale once another site registers.
- Correct when: the chain does not fork while commands take turns; acknowledged
  entries are listed; a site near to one that a build let through came after that
  build looked.

### Site build

- State: `static/` (pages, `loom-skin.css`, `tenant-style.css`,
  `forge-spa-runtime.js`), `cms/`, `forge.toml`, and the findings of the build.
- Operations: the phases `loom_sync`, `substrate_purity`, `render`, `sri` and
  `dynamic_runtime`, in either order (phase list, or `FORGE_PIPELINE=1`), the
  `[strict]` promotions and exemptions, the exit code.
- Interactions: a page names the hashes of stylesheets written after it; phases
  judge the output of this build or of an earlier one; `forge.toml` is read by
  several phases, at different times.
- Hard: edits and kills between any two of these steps; pages that move between
  `a.html` and `a/index.html`; pages left over from earlier builds.
- Correct when: exit code 0 means every listed page was written whole from what was
  listed or later and no page refuses its stylesheets; the next undisturbed build
  repairs what an interrupted one left.

### forge watch

- State: the channel from the `notify` thread, the rebuild count, the child.
- Operations: `run_watch`, `is_relevant_event`, `rebuild_once` (main.rs:2127-2279).
- Hard: saves during a build or as the debounce window closes; events of the
  build's own output; failing builds; the cap.
- Correct when: no save is forgotten; every save is built; when the saves end, so
  do the builds.

### Progress log and the other id-assigning logs

- State: the progress log, a JSONL file whose path the agent passes, and in the same
  form the gap, correction and outcome logs.
- Operations: `record_event` (read all, highest id plus one, append in two writes),
  `read_events`, `resolved_items`; called by one or more `forge-mcp` servers.
- Hard: two servers give out the same id; lines glued together; half a line.
- Correct when: the latest event of an item is what a reader sees; what was
  acknowledged is in every log that reads.

### forge-serve

- State: none of its own; it reads the directory a build and a compressor write.
- Operations: `handle`, `resolve_and_serve`, `mtime` (forge-serve/src/main.rs:170-395),
  the start-up self-test, which loads a page and the stylesheet it names.
- Hard: existence, two modification times in whole seconds and the read are separate
  awaits; `dynamic_runtime` truncates a page before it fills it.
- Correct when: no answer is older than the request; a page gets its own stylesheet;
  what is always there is always served; every request is answered.

### Phase runner

- State: the report of a run; `[strict]` and `[strict.exempt]`.
- Operations: the flat loop of `run` (main.rs:1760-1850) and the type-state pipeline
  of forge-core behind `FORGE_PIPELINE=1`.
- Hard: two runners over one list, which handle findings, errors and policy in
  different places; promotions and exemptions share one table of `forge.toml`.
- Correct when: every phase runs once; both runners end alike; no finding is lost, and
  the policy does what it says.

### Logs and caches of the agents

- State: the chain of identity transitions and the lenient logs (append-only JSONL),
  the session context cache (one file for every site of a machine), the brief made
  from the session log.
- Operations: `build`, `append_to_chain`, `read_chain`; `load_cached`,
  `invalidate_cache`; `build_brief`.
- Hard: appends in two writes, retried; a reader that skips bad lines; a cache shared
  by sessions of different sites, trusted for its age; sorts by whole seconds.
- Correct when: the chain that is read leads from the first identity to the present
  one; a context is of its site and stale by less than its time to live; the brief
  leaves out only what its caps allow.

### Files written for the operator

- State: `static/.well-known/security.txt`, `.githooks/pre-commit`.
- Operations: `forge fix --apply`, `forge audit init-hook`, the phase `required_pages`.
- Hard: look first, write later, in steps and without a lock; the operator and other
  commands write the same files.
- Correct when: a text of the operator's that the command could see is not overwritten.
  That a success means a usable file is what their comments suggest and the code does not
  do (section 6, `OkIsUsable`).

### Machines of one owner

`AuditChain` with `forge audit-log verify` (observability-core), `fail_over`
(dr-core), `Pipeline` (ai-pipeline-core), `decide` and its meter (memberships-core)
and `NullHost` (extension-host). Each is a small state machine whose operations come
in any order; what they promise is about long sequences of legal calls.

### Parts without state changes

About seventy lint phases, the pools and tables of forge-core, the deployment
adapters, the manifest, locale, asset, importer and exporter types, the auditing
tools, onboarding (`advance_to` is one check of public fields that no code moves from
step to step), and `server-stub`, whose handlers return `ok`. The life cycles named in
domains-core, forms-core, privacy-core, federation-core and email-core are enums
with predicates; the code that would move from one state to the next is not in the
repository. `PROJECT.json` lists each part with the reason.

## 2. Modules

| Module | Models | Extends |
|---|---|---|
| `AuditTrail` | the abstract append-only trail of published reports | |
| `BuildChain` | `forge build` and `forge attest init` on `reports/` | |
| `ChainVerify` | `forge verify` beside them | `BuildChain` |
| `JsonLines` | a JSONL file written in two writes per record; strict and lenient readers | |
| `FingerprintRegistry` | the register command on the registry | `JsonLines` |
| `UniquenessGate` | the gate phase, composed with the register command | `FingerprintRegistry` |
| `SiteBuild` | one site: operator, phases that write or compare files, exit code | |
| `PhaseRunner` | the flat loop and the staged pipeline on one site | |
| `Watch` | operator, notify thread, main loop, child build | |
| `Serve` | requests of `forge-serve` beside a build and a compressor | |
| `EventLog` | `record_event` and `resolved_items` on one log | `JsonLines` |
| `IdentityChain` | identity transitions, and with them the lenient logs | `JsonLines` |
| `ContextCache` | `load_cached` of several sessions and sites | |
| `Resumption` | `build_brief` over every history of a few items | |
| `OperatorFiles` | `forge fix --apply`, `forge audit init-hook`, the operator | |
| `AuditLog` | `AuditChain`, its file and `forge audit-log verify` | |
| `Recovery`, `AiPipeline`, `Paywall`, `ExtensionHost` | the machines of one owner | |
| `Listing` | listing a set in order, picking from a sequence, without recursion | |
| `BuildChainProofs`, `VerifyProofs` | proofs: the report chain, and `verify` beside it | `BuildChain`, `ChainVerify` |
| `RegistryProofs`, `GateProofs` | proofs: the registry, alone and under the gate | `UniquenessGate` |
| `SiteBuildProofs` | proofs: the site build | `SiteBuild` |
| `DevLoopProofs` | proofs: `forge watch`, `forge-serve` | `Watch`, `Serve` |
| `SessionProofs` | proofs: the session log and the context cache | `EventLog`, `ContextCache` |
| `MachineProofs` | proofs: every other part of `MCMachines`, and their composition | `MCMachines`, `SessionProofs` |
| `MCDevLoop` | hosts `Watch` and `Serve` for one run | both |
| `MCMachines` | hosts `EventLog`, `ContextCache` and the small machines for one run | all of them |
| other `MC*` | model values, definitions for constants, symmetry | the module named |

**BuildChain.** A report is its number in `sealed`, the order of composition. The
number stands for its bytes and so for its hash: `prev` is the number of the report
whose hash is recorded, 0 for none. `dir` maps a second to `Absent`, `Torn` or a
number. One build passes through `StartBuild` (the clock is read), `PhaseError` or
`ChainStep` (`load_newest_prior_report` and `chain_step`), `SealReport` (sign),
`OpenReport`/`FillReport` and `OpenLatest`/`FillLatest`, the two halves of
`fs::write`; if another process filled the same file in between, the two texts
overlap and the result may not parse. `StopEarly` is a kill or a failed write at any
point. `OneAtATime` and `FreshSecond` are statements about the environment, used by
the serial properties; the code enforces neither. Each of `Attesters` is a process that
runs `forge attest init`: it looks for the key file once (`GenerateKey`) and writes the
two files later (`OpenKey`, `FillKey`, `OpenPub`, `FillPub`), and nothing keeps two
apart. `disturbed` notes that an init was forced or took its key while another was at
work; from then on the two files may be of different pairs (section 6, `PairInstalled`).

**AuditTrail** is what attest.rs and docs/PHASE_PIPELINE.tla promise of the store:
a report is published once, after every report already there, never changes, and
continues the newest one or restarts. `BuildChain!AppendOnlyTrail` is that
specification with `trail <- Published`, the reports that parse, and
`Nothing <- Unpublished` elsewhere: writing is invisible until `FillReport`, which
is `Publish`.

**ChainVerify** lists the directory once, reads file by file (so builds may write
between two reads), skips what does not parse, ends on a file that is not UTF-8 (a
torn file may be cut inside a character), then walks (`Defect`, `ChainVerdict`) and
checks signatures. `ErrorIndex` and `BadPath` are how the path in the error message
is chosen.

**JsonLines.** The file is a sequence of pieces: record numbers, `Torn` and
`Newline`. A record counts only alone on its line. `Readable` is the strict reader,
`Salvaged` the lenient one.

**FingerprintRegistry**, **UniquenessGate.** The register command is `StartRegister`,
`RejectTimestamp` (is the clock at nanosecond zero?), `ComposeEntry`, `WriteBody`,
`WriteNewline`. The gate is `StartGate`, `LookUp`, `Scan`, each reading the registry
as it is then. A fingerprint is that of a one-page site: primitives in order and a
text bucket; `Distance` is `component_distance` on those. Commands of different sites
overlap freely, and an operator may register without a build, after one that failed, or
another content than was built; a site's own build and register command do not overlap.
`overlapped` notes that a command began beside another one. `cleared` notes, for each
entry, the phase that let exactly that content through, with what its two readings saw,
or `NoBuild`.

**SiteBuild.** A page under `static/` records the version it was rendered from and
the stylesheet contents its integrity attributes name. One action per phase, and
within `render` one per page and per stylesheet; `dynamic_runtime` has two per page,
because it uses `fs::write` where `render` renames. `StartBuild` picks mode and
pipeline. Phase `Err` is `PageVanished`. Skins and styles are their contents.
Finding severities go through `Applied` (`[strict]`, `[strict.exempt]`) and `Blocks`.

**Watch.** The sources are the number of saves; the site is the number it was built
from. `pending` is what the notify thread has yet to send, `channel` the mpsc queue.
The initial build runs before the watch is registered, so `missed` remembers saves
made before that, which no event reports. A build makes one event under `static/`.

**EventLog.** An event carries the id it was given and, as a history variable, the
events acknowledged when its call began: the order the callers saw.

**PhaseRunner.** A site is what each phase would return on it: findings or `Err`.
`StartFlat`, `RunFlatPhase`, `EndFlat` are the loop, `StartPipeline`,
`RunStagePhase`, `EndStage`, `IntoReport` the pipeline, `PhaseFails` the early return
of both. They run one after the other on one unchanged site, so that their reports
can be compared; what phases do to files is in `SiteBuild`.

**Serve.** The body of a file is the number of the build that wrote it. A request is
`Resolve`, then `Negotiate`, `StatSource`, `StatSibling` for each accepted coding,
then `ReadSibling` or `ReadFile`; every other process may step in between. The build
renames page and stylesheet (`RenamePage`, `RenameSkin`) and may then truncate and
fill the page (`TruncatePage`, `FillPage`). The compressor and the operator's `rm`
are external. `careful` and `seen.quiet` are history variables: the first turns false
when the compressor runs during a build, a file is written in a second already
stamped, or something is removed; the second says that no file was written since the
load of a page began. Requests read only, so one is followed at a time.

**ContextCache.** A context is its site, the second it was captured and the version
of the identity it read. `LoadCached` looks at the cache, `Load` takes the time and
then reads, `OpenCache` and `FillCache` are the halves of `fs::write`, `WriteFails`
a failed write or a kill.

**IdentityChain.** An operator reads the identity (`ReadIdentity`), edits it and builds
the transition (`BuildTransition`), appends it (`WriteTransition`, `EndTransition`,
either of which may fail: `AppendFails`) and may run the append again (`Retry`).
`ReadChain` skips bad lines.

**Resumption.** Items change status in whole seconds; the brief is an operator on the
state, so it is checked after every history.

**OperatorFiles.** The two commands share their shape: `StartFix` or `StartInitHook`,
`Look`, `OpenFile`, `FillFile`, `MakeExecutable`, and `StopEarly` anywhere; several
processes run them, overlapping or not. `Touch` is the operator, who writes a file in
place, replaces it or removes it, and may leave a text of their own or the canonical hook
with or without the x bit (`Left`). `CheckWellKnown` and `WriteReport` are the build
whose finding `fix` acts on; builds come one after the other here. A report without the
finding (also because `[required_pages]` does not ask for the file) makes `fix` succeed
with nothing to do. `raced` notes that the operator has touched the file since the
command looked.

**AuditLog.** A hash is the record of what was hashed. `AppendEntry` is the code, `Note`
the operator who writes the last hash down; `Rewrite`, `Retime`, `Reseal`, `Relink`,
`Renumber` and `Drop` are every way to edit an entry of the file. The hash covers the
second of an entry's time, which is part of its `kind`, and not the `fraction`.

**Recovery**, **AiPipeline**, **Paywall**, **ExtensionHost** follow `fail_over`;
`advance` and `run_to_completion` with a generator that may answer anything; `decide`
with readers who join and days that pass; `load`, `unload` and `granted`.

`PROJECT.json` maps each definition to its lines.

## 3. Runs and bounds

| Run | Module | Shows |
|---|---|---|
| `chain_serial` | `MCChainVerify` | one builder, distinct seconds, faults, verify beside it: `Linked`, `LatestIsInTrail`, `AppendOnlyTrail`, `FailsOnlyAtTear` |
| `attest_keys` | `MCChainVerify` | two overlapping `attest init`, forced or not, beside a builder and verify, with faults: `SignaturesVerify` |
| `chain_concurrent` | `MCChainVerify` | two builders, two seconds, faults: `DepthIsLength`, `IntactIsWholeHistory` |
| `bad_path` | `MCChainVerify` | violation: the path printed with a gap |
| `gate` | `MCUniquenessGate` | two sites that build and register in any order, overlapping, with faults: `NeverForked`, `AckedIsListed`, `SitesAreApart` |
| `fraction` | `MCFingerprintRegistry` | violation: the command's own timestamp |
| `site_build` | `MCSiteBuild` | a page and its child, two skins, two styles, three modes, both pipelines: `OkMeansFresh`, `OkMeansIntegrity`, `QuietBuildSucceeds` |
| `promotions` | `MCSiteBuild` | violation: `[strict]` with `[strict.exempt]` |
| `own_runtime` | `MCSiteBuild` | violation: the second hybrid build |
| `watch` | `MCDevLoop` | `forge watch`, no cap and a cap of 3: `NoLostWakeup`, `SaveIsBuilt`; `forge-serve`: `FreshAnswer`, `LoadMatches`, `PresentIsServed`, `Answered` |
| `rebuild_storm` | `Watch` | violation: builds that trigger builds |
| `event_log` | `MCMachines` | two servers, one item: `LatestWins`, `AckedReplays`; and one property or two of each part below |

| Part of `event_log` | Property: what holds |
|---|---|
| `PhaseRunner` | `EachPhaseOnce`: every phase once, `render` before the audits; `RunnersAgree`: without `[strict]` both runners report alike; `PolicyIsApplied`: exemptions reach every finding, and promotions where nothing is exempt; the counters account for all |
| `AuditLog` | `NotedIsSealed`: a log that verifies and ends in the hash written down has the entries of that moment, in all that the hash covers |
| `Recovery` | `EveryRegionHasItsTurn`: no region lost, each active again in its turn |
| `AiPipeline` | `NoStageSkipped`, `DriveReturns` |
| `Paywall` | `WaitingOpensOnlyMeters`: waiting opens only a meter whose window rolls |
| `ExtensionHost` | `GrantIsLastGiven`: the grant reported is that of the last load |
| `ContextCache` | `StaleByLessThanTtl`: right site, stale by less than the time to live |
| `Resumption` | `BriefIsHonest`: what is left out is older done work or newer waiting work |
| `IdentityChain` | `ChainIsHistory`: nothing invented or doubled; complete and linked when no append fails |
| `OperatorFiles` | `OwnTextIsKept`: a text of the operator's is changed only by force or when it was written after the look |

The host modules put machines that share no variable into one state space. A variable
`part` is chosen at the start and never changes; only the actions of that part are
taken and the variables of the others keep one fixed value, so the behaviours are
exactly those of each part alone, and no part constrains another.


What the properties say is in the comment before each. Deadlock is not checked:
in every model the operator may stop, and the bounded counters run out.

Bounds, and why they are enough:

- *Chain.* `MaxClock`, `MaxReports` = 3 (serial): a chain can break in the middle,
  between a genesis and a head; three files are the least in which verify skips one
  between two. `attest_keys`: two inits and three keys, since two overlap and a third may
  follow them or replace their key by force. Concurrent: two
  builders in two seconds with three reports have every collision of two writers
  (same second, same parent, overwritten parent); the theorem `DepthCorrect` covers
  the rest. Builders are symmetric in `chain_concurrent`.
- *Registry and gate.* Two sites are the least that can collide, and a conflict is
  between two entries. The four fingerprints are two with the same primitives in another
  order (distance 0, unequal), one at the threshold from both, and one far from all;
  a site's operator may take any of them before each build and each command. Sites are
  symmetric.
- *Site build.* Two edits and three builds: an interrupted or failed build, an edit
  during it and one after it, and the builds that meet its output. The behaviours
  with three edits, without `loom_sync` and `substrate_purity`, hold as well. Two pages
  are parent and child, so pages move. A third skin or style adds nothing to "equal or not".
- *Watch.* Three saves: one in a burst, one as the window closes, one in a build.
- *Phase runner.* Four phases (one before `render`, one after, one more in the first
  stage); each returns nothing, a warning, an error finding, both, or `Err`; no policy,
  a promotion, a promotion with exemptions.
- *Serve.* Two seconds, one build after the first, one run of the compressor or one
  removal, nothing or one file or both compressed before: a stale sibling needs one
  build, and a same-second one needs a second with two writes. The theorems cover any
  number.
- *Small machines.* `AuditLog`: two kinds, three entries, two edits (rewrite, reseal);
  the theorem covers any number. `Recovery`: three regions, the least whose order
  matters. `Paywall`: two tiers, two reads, a window of three days, six days.
  `ExtensionHost`: two ids, two capabilities. `ContextCache`: two sessions in one site
  or two, a time to live of one second, three seconds, one edit a site. `Resumption`:
  three items, a cap of one, three seconds. `IdentityChain`: two operators, three edits,
  two failures. `OperatorFiles`: two processes and two commands, which overlap or follow
  each other when one died.
- *Event log.* One item: only events of one item compete; five events let both
  servers race twice and once more. The theorems cover every number.

## 4. Fairness

`Watch`, `Serve` and `AiPipeline` have liveness properties. Of `Watch`, `FairSpec`
assumes weak fairness of `Deliver` (the notify thread runs), `BuildReads` and
`BuildWrites \/ BuildFails` (the child is scheduled and `forge build` ends, one way
or the other), `Register`, `Receive` (the main loop is blocked only on an empty
channel) and `Spawn` (the debounce window is a finite time from its first event,
main.rs:2190-2202, so a steady stream of events cannot hold it open). Saves, noise,
failures and `Coalesce` are not fair: nothing obliges them to happen. `SaveIsBuilt`
survives a build that fails after reading, because that build has seen the save, and
a command that ends, because the cap or a failed spawn ends it. `Serve` assumes weak
fairness of `Handle`: the runtime polls a task whose await is ready; builds,
compressors, browsers and the clock are not fair, so `Answered` holds although files
may be replaced for ever. `AiPipeline` assumes that a call of `run_to_completion`
goes on until it returns. Every other module is safety only; their processes may
stop anywhere, which the fault actions make explicit.

## 5. Proofs

All theorems are proved to the last leaf, from the named assumptions on constants in
the modules (bounds are naturals, marks are not numbers, switches are Booleans), the
premises a theorem states, and nothing else. The bounds stay arbitrary, so the theorems
hold for every number of builders, servers, sites, pages, regions, phases, seconds,
reports and saves. Every safety property a passing run checks is stated by a theorem.

### Report chain: `BuildChainProofs`, `VerifyProofs`

- `TypeCorrect`, `DepthCorrect`. `TypeOK` is strengthened by `RefsOK`: every number on
  disk or in a process names a composed report. Depth needs `ChainedLength`: a process
  between chaining and sealing holds the length its prior report calls for, stable
  because `sealed` only grows. No environment assumption: this holds under every
  interleaving and crash.
- `LinkedCorrect`: `OneAtATime /\ FreshSecond /\ Spec => []Linked`. The invariant adds
  that one build at most is in flight (`Alone`), that nothing is stamped in the future
  (`Stamped`), and that the file of the build in flight is the newest and what the build
  holds continues the file before it (`Poised`). The step that matters is `FillReport`:
  the file becomes readable and the invariant says what it follows. The two premises are
  needed: `chain_concurrent`'s constants refute `Linked`.
- `LatestIsInTrailCorrect`: the same invariant with `Filed`: the report a build writes to
  `latest.json` is in the trail already.
- `AppendOnlyTrailCorrect`: the refinement, under the same premises. `FillReport` is a
  `Publish` of the abstract trail, which the invariant shows to continue its newest
  report; every other step, opening and a kill included, changes no published file and
  stutters.
- `VerifyKeepsSpec`: `verify` only reads, so all of this holds beside it.
- `IntactIsWholeHistoryCorrect`, with no premise: a chain that passes is the whole
  history of its last report, whatever builds do while it is read. What was walked is
  linked from the start (`LinkedWalk`), and composed reports never change. `Ancestors` is
  the least set closed under `prev`, so that it can be reasoned about without recursion;
  that the walk contains it is by the least report of the walk it would leave out.
- `SignaturesVerifyCorrect`: until an init is forced or begins beside another one
  (`disturbed`). `KeyInv` follows one key through the two files of `init`: one init at
  most is at work, the public key that parses is that of the key file, and whatever is
  signed was signed with it. Afterwards it is false: of `--force` the code says so, and
  of two overlapping inits `PairInstalled` of section 6 shows it.
- `FailsOnlyAtTearCorrect`: with builds one at a time in distinct seconds. `Reading` says
  of the verifier in mid-run that its listing was complete up to its last file, that
  what it took is still what the files hold, and that it took every file that parses
  but perhaps the last of the listing; `SettledFilesStay` is why: only the newest file
  ever changes, and never once it parses.

### Registry and gate: `RegistryProofs`, `GateProofs`

- `RegistryTypeCorrect`, `AckedIsListedCorrect`: with commands that overlap and die, the
  invariant adds that every number in the file or in a process names a composed entry
  (`RefsOK`) and that a body written or acknowledged is in the file (`AckedInFile`):
  appending moves nothing.
- `NeverForkedCorrect`: `RegistrySpec => []NeverForked`. The property speaks of the time
  until two commands overlap; for it the invariant adds that one command runs (`Alone`),
  that what it composed still continues the last entry of the file (`Poised`) and that
  the file is a chain. A torn body or a missing newline does not disturb it, because
  those are no entries; the step that matters is `WriteBody`. Two commands that overlap
  do fork the chain.
- `GateUsesRegistry`: `Spec => RegistrySpec`. Sites that build, gate and register take
  only steps of the registry, or none, so the theorems above hold of the composition
  (`GatedAckedIsListed` is one of them). `GateTypeCorrect` are the gate's own types.
- `SitesAreApartCorrect`: `Spec => []SitesAreApart`, without a premise: builds and
  commands overlap, die, and follow edits. A gate's verdict is about the registry it read,
  so the property relates an entry to what the two readings of its build saw: every
  entry of another site in scope that the scan saw is at distance 0 or beyond the
  threshold, and every equal one that the look-up saw stands behind an equal entry of the
  site itself, where the look-up stops. Near sites that both register stand side by side
  exactly when one came after the other's readings. The invariant says that a phase without
  a strict finding vouches for its content as far as it got (`PhaseSound`), that a command
  which holds such a phase registers that content (`Held`), and that appending moves no
  entry, so what stood before still does (`ClearedSound`). What the property does not
  promise, the code does not do: distance 0 without equality passes both checks
  (`EveryMatchRefused`, section 6).

### Site build: `SiteBuildProofs`

For any pages, skins, `[style]` blocks, policies, edits and builds, killed anywhere.
`OrderInv` says what is true of a build at each point of its order, in both pipelines;
the theorems add one invariant each, kept by one lemma per phase.

- `OkMeansFreshCorrect`: `VersionInv` (what is listed is never newer than what is there)
  and `FreshInv`: a listed page that had its turn is written, from what was listed or
  later, or a strict finding tells of it.
- `OkMeansIntegrityCorrect`: `SriInv`: once `sri` has looked, any top-level page that
  refuses a stylesheet has its finding, and neither the pages nor the stylesheets are
  written after that, but for the runtime, whose half-written page is compared as what it
  will be (`PageAt`).
- `QuietBuildSucceedsCorrect`: `QuietInv`: while nobody edits, a build over a clean site
  renders every page from what it has just read, and the phases find nothing.

The findings these properties rest on can be exempted in `forge.toml`, so the
properties except a build that exempts them; the proof showed where that is needed, and
`MCSiteBuild` has such a policy. `FillPage` fills the page that `TruncatePage` opened: the
path is part of `build.page`, since another page may be torn at that moment.

### Watch and serve: `DevLoopProofs`

- `WatchTypeCorrect`, `NoLostWakeupCorrect`. The invariant adds `AllMissed` (before the
  watch is registered, every save is a missed one) and `CapLeft` (under a cap the loop
  never waits with the last rebuild made). Four lemmas say what appending to and taking
  from a queue does to "a change is on its way".
- `PresentIsServedCorrect`, `FreshAnswerCorrect`: one invariant for both. `Held` says that
  what an undisturbed request has seen is still there. `World` says, for a careful
  operator, that a complete sibling not older than its file by time is not older by body,
  and that what is being compressed is still current. `Browser` says what the request may
  rely on: once the source's time is read, every sibling that will pass the comparison is
  as new as the request asks. `StatSource` establishes it from `World`; the steps of
  builds and compressors keep it by one lemma (`WorldStep`).
- `LoadMatchesCorrect` builds on it. `Settled` says, of a careful world, how old each file
  is at every point of a build (`OfBuild`) and that no sibling holds a newer one
  (`NotNewer`); `Load` that in a load nobody writes in, both files are of the build it
  began with, the comparison in progress is of times that still hold, and every answer so
  far is of that build; `PageFirst` that the stylesheet is asked for after its page.

### Session log and context cache: `SessionProofs`

- `EventLogTypeCorrect`, `LatestWinsCorrect`, `AckedReplaysCorrect`. Ids are not unique,
  so the argument is not "ids grow with the log": the invariant says that an acknowledged
  event, or one about to be, is in the log (`AckedInLog`), that what a call remembers was
  acknowledged (`BeforeAcked`), and that an event's id is above that of every event
  acknowledged before its call began (`IdsGrow`). `Compose` establishes it because it
  reads the whole log after its call began.
- `StaleByLessThanTtlCorrect`: for a positive time to live. The invariant says that a
  context is of its session's site (`OfItsSite`), that what it leaves out was changed no
  earlier than it was captured (`Honest`), of the cache as of every session, and that it
  was captured less than a time to live before the call (`Timely`). Setting the clock back
  ends the last two and keeps the first. `CacheTypeCorrect` holds for any time to live; 0
  turns the cache off.

### The small machines: `MachineProofs`

First, what `Listing` computes: a set that is strictly and totally ordered is listed in
that order, each element once, and picking from a sequence keeps order and number and
distributes over concatenation. Then, part by part:

| Theorem | Inductive invariant, and the step that needs it |
|---|---|
| `EachPhaseOnceCorrect`, `RunnersAgreeCorrect`, `PolicyIsAppliedCorrect` | `RunnerInv`: what ran and what is left are disjoint and, together, all phases (`FlatAt`), or all of the stages up to this one, in the order of the stages (`PipeAt`); and the findings held are, phase by phase, those of the phases that ran (`Reported`), although the two runners meet them in different orders. Counters are cardinalities of positions; the tally by phase adds up by a bijection (`TallyAddsUp`) |
| `NotedIsSealedCorrect` | no property of how the file was edited: `SealedOnce` says that two logs that verify and end in one hash agree in all that is hashed, by the least distance from the end at which they would differ. A hash is the record of what it was computed from, so this is where its injectivity enters |
| `EveryRegionHasItsTurnCorrect` | `InLine` (active and standby together are the regions, each once) and `Rested`: a region in place *i* has rested for at most as many failovers as there are regions behind that place |
| `NoStageSkippedCorrect` | `InOrder`: the artifacts are a beginning of the list of stages, wherever a saved pipeline is resumed |
| `WaitingOpensOnlyMetersCorrect` | an action property, by `PayTypeOK`: of all steps only `NextDay` moves time, and it moves one window at most over its end |
| `GrantIsLastGivenCorrect` | `LoadedOnce` and `AsGiven`: an id is loaded at most once, so the first entry the host finds is the last grant |
| `BriefIsHonestCorrect` | only types; the work is in the sort: a key and then the id order the items strictly and totally, so a cut list leaves out what comes after (`SortedFacts`, `Lists`), and the counts of the five statuses add up (`CountsAddUp`) |
| `ChainIsHistoryCorrect` | `EachOnce`: a transition is in one operator's hands and once in the file until its append is run again. `Orderly`: while nothing fails and nobody overlaps, the *k*-th transition is the piece 2*k* - 1 of the file, with its newline after it |
| `OwnTextIsKeptCorrect` | an action property: `WrittenLater`: where a command that is past its look meets a text of the operator, it was forced, or the operator has touched the file since |

`MachinesRunTheirParts` shows that a behaviour of `MCMachines` is a behaviour of every
part, so these theorems, each of a part's own specification, hold of what TLC runs;
`PartsTypeCorrect`, the types of all parts, is drawn from it.

TLC found each inductive invariant to hold in the runs' settings before it was proved
(but for "is a log", a quantifier over all sets).

### What is only model-checked

All liveness (`SaveIsBuilt`, `Answered`, `DriveReturns`): liveness under fairness and
`ENABLED` are out of the prover's reach. That `Listing` computes what the community
modules' `SelectSeq` and sorting operators do (`ListingAgrees`, an assumption TLC
evaluates on short sequences and small sets): theirs are recursive or choose among
functions, and what a recursive definition computes for every input cannot be proved
here. No theorem uses it. The five properties with an expected violation, and the
statements of section 6, are refuted by TLC.


## 6. Where the code and what it says differ

With a run of their own (see `findings` in `PROJECT.json` for the lines):

- `bad_path`: after a skipped file, the path `verify` prints is the wrong file: the
  index counts reports that parsed and is looked up among all files (main.rs:4306).
- `fraction`: `forge fingerprint register` fails unless the clock shows nanosecond
  zero: it prints the fraction its own library rejects (main.rs:3099).
- `promotions`: a `[strict.exempt]` table makes `[strict]` fail to parse and drops
  every promotion (strict_promotions.rs:76).
- `own_runtime`: `dynamic_runtime` writes a file `substrate_purity` calls
  hand-authored, so the second hybrid build fails (substrate_purity.rs:57).
- `rebuild_storm`: a build's own output triggers the next build (main.rs:2231).

Stated in the modules, refuted with the settings named, and not run:

| Statement | Settings | What happens |
|---|---|---|
| `TornReportTolerated` (`ChainVerify`) | `chain_serial` | the report after a torn one restarts the chain, and verify fails from then on |
| `PairInstalled` (`ChainVerify`) | `attest_keys`, also with `AllowForce` and `Faults` FALSE | two overlapping inits pass the look for the key (main.rs:2287), and the key of one stays beside the public key of the other; every later signature fails |
| `MissingPubkeyCanBeInitialised` (`ChainVerify`) | `attest_keys` | `attest init` dies between its two files; verify says to run it, and it refuses |
| `OneEntryPerLine` (`FingerprintRegistry`) | `gate` | a command dies in an append, or two overlap; the file is refused from then on |
| `ExclusiveAppend` (`FingerprintRegistry`) | `gate` | the doc comment says the caller holds a lock; it holds none |
| `SkippedWasReported` (`UniquenessGate`) | `gate` | the exact match looked up is the site's own entry, which hides the same fingerprint of another site |
| `EveryMatchRefused` (`UniquenessGate`) | `gate` | two sites with the same primitives in another order are at distance 0, which the scan skips (uniqueness_gate.rs:149) |
| `UnreadableIsStale` (`Serve`) | `watch` | the comment on `mtime` says an unreadable time counts as stale (forge-serve/src/main.rs:387-389); for the page it becomes 0, so any sibling counts as fresh |
| `HigherRankReads(rank)` (`Paywall`) | `event_log` | a higher rank has more privileges, says the comment of `Tier::rank`; `decide` compares ids, so an upgrade may close a gated article |
| `AckedIsRead` (`IdentityChain`) | `event_log` | a retry glues itself to the half line of its own first attempt, and both are skipped; after a failed newline a transition is read twice |
| `TimeIsSealed` (`AuditLog`) | `event_log` | the doc of `AuditEntry` says the hash covers `at` (observability-core/src/lib.rs:277-278); it covers `at.unix_timestamp()` (:321), so another fraction or offset verifies |
| `OkIsUsable` (`OperatorFiles`) | `event_log` | called idempotent: after a command that died over the file, or beside one that has just opened it, the next one says all is well, with an empty security.txt or a hook that is not executable; so it does of the canonical hook without the x bit (main.rs:3796), and `fix` of a security.txt removed since the newest report (main.rs:3917) |
| `FreshSkinIsInSync` (`SiteBuild`) | `promotions`, with `Skins = {base, bold}` | a skin with an overlay has a marker that never equals Loom's hash, so a production build always fails; nor is the first build in sync, as `loom_sync` runs before `render` |

Met while reading, with no statement in a module:

- docs/PHASE_PIPELINE.tla:157-160 and 222-223: an aborted build is sealed, and a
  sealed report is never overwritten. A phase that returns `Err` ends `run` without
  a report, and two builds in one second write the same file. Its note on refinement
  relies on `reports/.lock` and `fsync`; the code has neither.
- `FORGE_PIPELINE=1` never loads `[strict]` or `[strict.exempt]` (main.rs:1754).
- `substrate_purity` says it is strict in production and warns in poc
  (substrate_purity.rs:28-29); it is always strict. It and `loom_sync` run before
  `render`, which main.rs says comes before every lint phase.
- The slugs `a--` and `a`, or `a--b` and `a----b`, are written to one path
  (render.rs:543 says pages map one to one).
- The orphan scan, `sri` and the runtime injection see only the top level of
  `static/`, while dynamic_runtime.rs says every page gets the runtime.
- `MeterState` says a meter rolls when more than the window has passed
  (memberships-core/src/lib.rs:138-140); `has_window_rolled` compares with `>=`.
- A save during `forge watch`'s initial build is not seen (`missed` in `Watch`).
- Two racing appends give two gaps one id, and a lookup finds the first.
- The pending items of a brief are in "insertion order", says resumption.rs; within one
  second they come out by id (resumption.rs:92).
- `forge fix` exits with 0 although applying a fix failed (main.rs:4000).
- `loom_sync` slices the skin at byte 1024, which may lie inside a character
  (loom_sync.rs:213).

## 7. Not modelled, and why

- The text of pages, stylesheets and reports: versions and hashes stand for them.
  Hash functions are injective (numbers), signatures hold for the key that made them.
- A clock that goes backwards: the report chain would break by it (hazard at
  main.rs:4129), and the models keep it monotone.
- What a premise or a history variable excuses, and no property therefore says: for
  `Serve`, answers after a compressor that ran during a build or a file written in a second
  already stamped (`careful`); for the registry and the identity chain, what a fork or a glued
  line does to the verdict; for the session log, a file that no longer parses; for the
  brief, which of several items of one second the cap cuts.
- Power loss: there is no `fsync`, and no run looks at a write that was acknowledged
  by the kernel and lost.
- Files placed in `static/` by hand and other phases' findings. Precompressed siblings
  are in `Serve` only, with an external compressor: no phase in the workspace writes them.
- `forge-serve`: connections, headers, the slow log, HEAD as distinct from GET.
- The tools of `forge-mcp` other than the one that records progress and the brief: they
  read files or run `forge` and return its output, one request at a time.
- Lint phases (about seventy): each is a function from the site to findings. In
  `PhaseRunner` they are what it says they may return.
- The parts listed in section 1 as having no state changes.

## 8. Plan

What is left, in the order of what it would add:

1. **Between the parts**: `AuditLog` as a refinement of `AuditTrail`; `SiteBuild` and
   `BuildChain` composed through `PhaseRunner`.
2. **Request loop of forge-mcp**: several servers that record progress while one of them
   runs `forge build` as a child, composing `EventLog` with `BuildChain`.
3. **What the safety half of the liveness properties rests on**, as theorems: that a loop
   of `forge-serve` and of the AI pipeline takes finitely many steps (a variant that
   falls), leaving to TLC only the step from there to `Answered` and `DriveReturns`.
4. **Site build, remaining inputs**: `site.json`, variables, themes and
   `deploy/headers.caddy`, each read by one phase and written by another.
