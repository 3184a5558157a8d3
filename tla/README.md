# Verification of the PETROLE calculation platform

PETROLE lets engineers describe liquid pipeline networks, submit hydraulic
calculations, approve their results and issue reports. This directory holds
TLA+ modules that model parts of it, the TLC configurations that check them on
small instances, and proofs checked by TLAPS. `PROJECT.json` is the index: the
runs, the mutants that show each property can fail, the source lines behind
each definition, the findings, the hazards and the theorems.

Paths below are relative to `src/apps/api/hydro_api/` unless they start with
`src/`.

## 1. Inventory of the system

The platform is a FastAPI application (one PostgreSQL transaction per request,
committed when the handler returns), one worker process that drains a table of
jobs, a React client that polls, and pure Python packages for the physics.
PostgreSQL runs at READ COMMITTED; the application has no other shared state.
Concurrency is therefore between requests, between requests and the worker, and
between a worker and the process that replaces it.

| Component | State | Operations | Interacts with | Hard behaviour | What makes it correct |
|---|---|---|---|---|---|
| Calculation queue and worker (`services/core.py`, `worker.py`) | `calculation_runs`, `background_jobs`, heartbeat | submit, cancel, decide, claim, execute, fail, recover, heartbeat | versions (frozen input), engines, reports | crash and restart, leases, retries, cancellation during execution, lost acknowledgement | one executor per job, final results, bounded attempts, every queued calculation settles |
| Projects, versions, scenarios (`services/core.py`) | `projects`, `model_versions`, `scenarios` | create, clone, edit, approve, archive, restore | network editor, queue | status checked without a lock, stale identity map, waiting for locks | closed versions never change, only drafts are approved |
| Network editor (`services/network.py`, `services/topology.py`) | `network_nodes`, `network_edges`, `asset_instances`, `content_hash` | create, update, delete, import, export, validate, hash, assemble the sections | versions, catalog | two editors of one draft, deletion against reference; rows turned into chainages, groups and models | no dangling row, current hash, approved networks are valid, what is computed is what was drawn |
| Frozen input (`src/packages/domain/hydro_domain/canonical.py`, `serialization.py`) | `calculation_runs.payload`, `input_hash` | assemble, check, write, freeze, read again, replay | versions, rules, engines | a field left out of one of the two directions, a refusal that one side does not make | what is replayed is what was accepted |
| Submissions and reports (`services/core.py`, `services/reports.py`, `storage.py`) | idempotency keys, `reports`, object store | queue, rerun, create a report, a comparison, a transfer | queue, versions, object store | racing duplicates, an object stored before its row, an answer that is lost | one row per key, an answer names the row that was asked for, no report without its object |
| Rule governance (`services/governance.py`) | standards, rules, rule sets, evaluations | create, approve, withdraw, archive, freeze, evaluate | calculations | rules read without a lock while a set is approved, a set named twice | a decision rests on the rules that were frozen |
| Equipment catalog (`services/catalog.py`) | `catalog_items` with versions | create, update, approve, archive, derive a version | network editor | number taken as a maximum plus one, status without a lock | approved items keep the content that was approved |
| Operations (`services/operations.py`) | transfer, comparison and optimization runs | follow a path, simulate a transfer, balance it, compare, optimise | tank engine, optimizer, engines | cached operating points, budget of evaluations, overrides of pumps | a transfer computes the line that was drawn and the path that was named |
| Tank engine (`src/packages/tank_transfer`) | none | preflight, simulate, balance | operations | boundaries of time steps, volumes and levels | volumes conserved and in bounds, termination, a true reason for the stop |
| Optimizer (`src/packages/optimization`) | none | enumerate, evaluate, rank | operations, long-distance engine | budgets in the middle of the enumeration, ties | every candidate has a fate, `optimal` is deserved |
| Hydraulic engines (`src/packages/hydroliquid`, `hydro_domain/pumps.py`, `stations.py`, `fluid.py`) | none | resolve the scenario and the fluid, search an operating point, march the line, check | operations, queue | searches that must not invent a root, boundaries counted twice, checks skipped | the result accounts for the line, an approvable result breaks no limit |
| Data import (`services/data_import.py`) | `data_imports`, datasets, rows | preview, map, validate, replace rows | object store | two imports of one dataset, refusal half way | rows of one import only |
| Authentication, members (`services/auth.py`, `security.py`) | users, sessions, memberships | log in, revoke, change roles | every request | counting administrators without a lock | an organization keeps an administrator |
| Sites, exports, HTTP shell, report layout, validation cases, web client, deployment | see `PROJECT.json` | | | no concurrency of their own | |

The hazards, each at its line, are in `PROJECT.json`, with the properties that
are about each, or the reason why none is.

## 2. Modules

| Module | Content |
|---|---|
| `CalculationQueue` | the queue, the requests on it and the workers; its properties |
| `CalculationLifecycle` | abstract specification: what a client that polls a calculation may see |
| `CalculationQueueProofs` | their theorems: every deployment, a regular one, the refinement |
| `ModelVersions` | a project, its versions and the rows of their networks |
| `ModelVersionsProofs` | its theorems |
| `Submissions` | requests under an idempotency key, their rows and the object store |
| `DataImports` | preview, mapping and import of the rows of a file |
| `SubmissionProofs` | the theorems of both, and those of `Packages` |
| `RuleGovernance` | standards, rule sets, rules, the manifest of a calculation and its evaluation |
| `Catalog` | versions of the items of the equipment catalog |
| `GovernanceProofs` | the theorems of both |
| `Packages` | the frozen input: writing, reading, refusals, fingerprint, replay |
| `NetworkAssembly` | validation of a network, its sections, export and import, the path of a transfer |
| `Quantities`, `Tables` | integers and `None`; interpolation tables |
| `Transfers` | one transfer between two tanks and its balance |
| `NetworkProofs` | the theorems of `NetworkAssembly` and `Transfers` |
| `PumpSearch` | the search of the pumps to run |
| `RootSearch` | the solvers: Newton, bracket, Brent |
| `SearchProofs` | the theorems of both |
| `PumpStations` | pumps and stations in series and in parallel |
| `FluidStates`, `HydraulicChecks` | the properties of a product at a temperature; the checks C-001 to C-012 |
| `LongDistance` | the long-distance engine, which extends the three modules above |
| `ComparisonEngine` | the second engine (pandapipes), next to the first one |
| `LineProofs` | the theorems of stations, line and second engine |
| `OrderLemmas` | what the proofs cite about orders, least elements, and sums over finite sets |
| `MCCalculationQueue`, `MCModelVersions`, `MCComponents` | instances for TLC |

How they compose: `LongDistance` extends the stations, checks and fluid it calls
and `ComparisonEngine` extends `LongDistance`, so that the two engines compute one study.
`Transfers` and `PumpSearch` take the answer of the engine as a constant set, since they must
be right whatever it is. `LongDistance` uses the contract of its solver that `RootSearch`
checks. `MCComponents` gives each part its own steps in one run.

### CalculationQueue

One calculation and its job share one identifier, because
`queue_calculation` inserts both. `status`, `finished`, `result`, `approval`
and `completions` are columns of `calculation_runs` and its audit rows;
`jobStatus`, `attempts`, `lease` and `ready` those of `background_jobs`; a
lease is `fresh` or `stale` instead of a time. `pc` and `current` say where a
worker stands, and the `seen...`, `stale`, `spent` and `condemned` variables
hold what its database session has loaded.

| Action | Code |
|---|---|
| `Submit`, `Cancel`, `Decide` | `queue_calculation`, `cancel_calculation`, `approve_calculation` |
| `Claim`, `SkipCancelled`, `Begin`, `Finish`, `Fail`, `IgnoreFailure` | `_claim_one`, `process_one`, `execute_calculation` |
| `ReadFailedJob`, `ReadFailedCalc`, then `RetryLater` or `GiveUp` | `_mark_failure`: two reads, one commit |
| `SelectStale`, `LoadSpentCalcs`, `CommitRecovery` | `recover_stale_jobs`: two reads, one commit |
| `Heartbeat`, `LeaseExpires`, `BackoffElapses` | the heartbeat thread, the clock |
| `Crash`, `Restart`, `FinishUnacknowledged` | the container restart policy, a commit whose acknowledgement is lost |

A transaction that locks before it reads is one action. `_mark_failure` and
`recover_stale_jobs` read without a lock, so each of their reads is an action
and their commit writes from what was read.

Assumptions taken from the libraries, each visible in an action:

* `process_one` keeps a reference to the calculation it loaded, so the early
  return of `execute_calculation` sees `finished_at` as it was at `Begin`.
* A session keeps the attributes it loaded; `refresh` reads them again.
* The read and the write of the heartbeat are one action.
* The rules that decide eligibility come from the manifest frozen in the input:
  executing it twice gives the same answer. `Verdict` and `Eligible` are
  constants for this reason.

Left out: the synchronous mode of development, `SIGTERM` (a worker ends between
two jobs), and the heartbeat row shown on the status page.

### ModelVersions

`status`, `content` and `hash` are the rows of `model_versions` and of what
belongs to them; a content maps each row (the payload, nodes, edges, assets,
scenarios) to a value or to `Absent`, and a hash is modelled by the content it
was computed from. `Ends[r][x]` is what row `r` holding `x` references by a
foreign key, so an update can move an edge. The other variables are what each
request under way has loaded or written.

| Action | Code |
|---|---|
| `ActivateProject`, `ArchiveProject`, `RestoreProject` | the functions of these names |
| `Create`, `Clone` | `create_model_version`, `clone_model_version` |
| `BeginEdit` | the unlocked check that the version is a draft (`_get_model` and the tests of `update_model_version`, `create_scenario`, `update_scenario`) |
| `WriteRow` | the flush of the row, the constraints, `refresh_model_hash` |
| `CommitEdit` | the update of the hash and the commit |
| `BeginApproval`, `CheckApproval`, `Approve` | `approve_model_version`: load, lock and decide, commit |
| `Archive` | `archive_model_version` |
| `Abandon` | rollback of any request |

Assumptions taken from the libraries:

* Autoflush is off (`database/session.py`): the payload and the hash reach the
  database when `refresh_model_hash` flushes, just before the commit, and the
  two are one action.
* `SELECT ... FOR UPDATE` without `populate_existing` locks the row and returns
  the object the session already holds, with its old attributes. The objects
  loaded by the authorization dependency are not referenced any more when the
  service selects; the one `approve_model_version` loaded itself is.
* Inserting a child row takes a key-share lock on the version, which conflicts
  with `FOR UPDATE`; updating or deleting a child row does not.
* A foreign key makes a deletion and the insertion or update that references
  the deleted row wait for each other (`Blocks`).
* An update that sets the values already loaded writes nothing.

Left out: version numbers (one transaction under the project lock, and a unique
constraint) and `update_project`. `import_topology`, which inserts many rows, is in
`NetworkAssembly`. The reads of a clone, several statements in the code, are one.

### Submissions, RuleGovernance, Catalog, DataImports

Each of these modules has one record per request under way, with what its session has read,
and the committed rows. A request commits once, at its end, and may fail before. A unique
constraint makes an insertion wait for the transaction that holds the key and fail when that
one commits.

| Module | State | Actions and code |
|---|---|---|
| `Submissions` | `rows`, `objects` (the object store), `step`, `frozen`, `tries`, `answer` per client, `draft` | `EditDraft`; the steps of a request: freeze (`canonical_payload_for_calculation`), look (`select` by key), store (`put`), insert (`flush` and its `IntegrityError`), look again, commit; a lost answer and another try. `queue_calculation`, `rerun_calculation`, `create_report`, and `record` for `create_comparison`, `create_operational_report` and `simulate_transfer` differ in which steps they have |
| `RuleGovernance` | `standards`, `sets`, `rules`, `approvals`, `desk`, `runs` | `Begin`, `ComputeHash`, `CommitStandard`, `CommitCreation`, `CommitRule`, `CommitApproval`, `RollBack` of `services/governance.py`; `Submit` (`freeze_rule_sets`), `Settle`, `SettleNothing` (a violated constraint rolls the conclusion back), `EvaluateAgain` (`routers/governance.py`) |
| `Catalog` | `shelf`, `bench`, and what the audit events say: `approvalHashes`, `retired` | `CreateItem`, `ReadToUpdate`/`UpdateItem`, `ReadToApprove`/`ApproveItem`, `ReadToDerive`/`ReadLatest`/`DeriveItem`, `Abandon` |
| `DataImports` | `dataset`, `stored` rows, `imported`, `importing`, `editing` | `BeginEdition`/`EndEdition` (preview, mapping), `AnswerExisting`, `BeginImport`, the steps of an import (delete, insert, refuse, complete), `AbortImport` |

A flush of `Catalog` writes the columns that changed only: a request that has read a draft and commits
after the approval rewrites the content and leaves the status. `catalog.py:211`, `:215` and `:296` promise
that approved and archived versions do not change, so that this is a finding (`catalog_rewritten`).
What holds is `CatalogIsKept`: versions are numbered without a gap, none that was approved or archived is a draft again, and
once the updates that had begun before the approval or the archiving have ended, the content and
its hash rest. `RuleGovernance` has the same race between `create_rule` and `approve_rule_set`:
autoflush is off, so that an approval neither writes nor locks the row of the set before the flush
that follows the computation of the hash, and rules that are committed meanwhile join the approved set.
`EvaluationsAreFinal` claims what is left of "Un jeu approuvé ou archivé est immuable" (`governance.py:383`): an approved set
is joined only by the requests that were under way, and by none once they have ended (`Joining`).

In `DataImports` a cell is read in the unit of its mapping, or of the file, or, for the field `value` of
measurements only, in the unit of its own row.

`AnswersAreTrue` joins two claims: answers under one key name one committed row, which holds what
each client asked for, and a calculation or a report is refused for a conflict only when
another content has its key. `ObjectsFollowRows`: every report row has its object, and an object
without a row is that of a request that failed or is under way. `DecisionIsJustified`:
an eligible result was measured by every rule that counted when a set it names was approved, and complies
with the blocking ones. `EvaluationsAreFinal`: approved rules, recorded evaluations and, with the exception above, approved sets stay. `DatasetIsOneImport`: the rows of a data set are those of one accepted import.

### Packages and NetworkAssembly

`Packages` holds each class of `hydro_domain` as data: the fields it reads, whether they are
required, their default, what `as_dict` writes, and what its constructor refuses. A document
goes from the draft (`AssembleDocument`, `RewriteDocument`) to a frozen row
(`FreezeDocument`) to the objects a worker reads (`ReplayPackage`). The classes nest four deep (a gauge, in a
strapping table, in a tank, in a network, in an input), so that reading, writing and normalising are one operator
per depth (`Decoded0` ... `Decoded`) and not a recursion. `PackagesAreFrozen` says
that a replay reads the object that was accepted, and that two calculations share a fingerprint exactly when their inputs
are alike up to the last digits and to the provenance. `IsDocument` says what a document is: one object, or a scalar, at each
name, and rows with numbers where `Pipeline` sorts them.

`NetworkAssembly` translates `validate_network`, `canonical_sections_from_normalized`,
`export_topology`, `import_topology` and `_validate_hydraulic_context` as operators over the
rows of a network, each called by one action. The loops that add lengths or walk the graph are
written as what they compute: a start is the sum of the lengths before it (`StartOf`), a profile the
concatenation of the profiles of the edges (`ProfileOf`), the nodes the walk reaches the least set that no edge
leaves (`IsClosed`), a sorted list the rows by rank. `NetworkAssumption` says what a stored network is (`IsStored`):
what the unique and check constraints of the tables and the schemas keep. A profile that
covers its edge to the tolerance of the schema is taken to cover it exactly (`CoversEdge`). `NetworksAreComputedAsDrawn` relates the rows to
the sections (one continuous line; pumps, stations, fittings and injections where their rows put
them; every pump in one group, with its model), and the sections to the payload of a transfer, which runs the pumps its
path names and keeps the unavailabilities and the speeds of the scenario.
Three cases are excepted, each for what the code does with it: `PassedTwice` (the line
passes a node twice, whose chainage is that of its last passage), `VersionsCollide` (two pumps on
two versions of one item share a model), and in `TopologyComesBack` `NewerExists` (an import takes
the last version of a code, approved or not). They are in the instances of the run, and the last two are observations below.
Nothing is claimed of the fittings of a segment, nor of the status and the speed of a pump in the row of its station.

### Transfers, PumpSearch and the engines

Quantities are integers in a unit chosen so that the constants of physics vanish: what is
checked is which branch is taken, what is compared with what, what is counted and how a loop
ends.
| Module | State | Actions and code |
|---|---|---|
| `Transfers` | `stage`, `request`, volumes of the tanks, `withdrawn`, `received`, `losses`, `clock`, `evaluations`, `cached`, `reason`, `record` | `BeginTransfer` (`TransferRequest`, `preflight`), `MoveAtImposedFlow`, `MoveAtCachedPoint`, `MoveAtComputedPoint`, `EngineFails`, `RunOutOfTime` (`simulate`, the resolver of `operations.py`), `RecordTransfer`, `ComputeBalance` |
| `PumpSearch` | `quest`, `pending`, `kept`, `refused`, `computed`, `evaluated`, `ranking`, `verdict` | `BeginQuest` (validation), one action per configuration (refused before the engine, evaluated and kept, evaluated and refused, failed), the exhausted budget, the ranking |
| `RootSearch` | `search`, `phase`, `upper`, `expansions`, `worse`, `best`, `iteration`, `fallback` | `BeginSearch`, the steps of `solve_hybrid`, `bracket_root`, `brent` and `solve_monotonic` |
| `PumpStations` | `operation` | `EvaluateStation`: the operators of `pumps.py` and `stations.py` |
| `LongDistance`, `FluidStates`, `HydraulicChecks` | `study`, `simulated` | `SubmitStudy` and the outcomes of `simulate`: refused, no fluid, no solution, a result; the march, the reports and the checks are operators |
| `ComparisonEngine` | `compared` | `RefuseToCompare`, `CompareInvalid`, `CompareUnknownFluid`, `CompareStudy`, `LibraryDiverges`: the outcomes of the adapter; the library is external and may be off the solution |

In `Transfers` the engine may return any flow or fail. A kept point is used again while the
levels have hardly changed, or once the budget is spent. `RootSearch` replaces the secant, the
interpolations and the slope by all the points they may yield: what decides is where the code
accepts them. In `LongDistance` the friction factor is constant, hence a loss is an even
power of the velocity; the regimes of flow are thresholds on the velocity.

Distances along a line are integers, so that what is compared with a tolerance in the code is compared with a
reach here: a metre for a station (`StationReach`), a millionth of one for an injection (`InjectionReach`).
The grid is a set of floats, and a step that is added up may come out next to a point drawn there (with a
step of 1.1 m, 3.3000000000000003 next to 3.3): `RoundedUp` has the multiples of the step that come out one unit
farther, and the first one in `components`. Both points are then within reach of an injection, which is counted twice.
So `ResultAccountsForLine` claims the conservation of flows point by point where no other point of the grid is within reach of
an injection (`InjectionsApart`), and everywhere that an approvable result has at its outlet the flow of the inlet and of every
injection: C-001 refuses what was counted twice, except for two such injections that cancel.

`ApprovableIsSafe` says what an approval guarantees. The maximum of every segment; the minimum of every segment, unless
C-004 is reported as skipped, since `check_maximum_pressure` returns before the minima when no segment has a maximum; the pressures of the stations in service; NPSH, minimum flow and rated power of the
running pumps, as far as each is known; a profile above the vapour pressure, though not the suction of a station, which is
between two points of the profile; and the outlet pressure asked for.

The two engines do not have the same gravity: 9.80665 (`hydraulics.py`) and 9.81 (`pandapipes_adapter.py:51`), which differ by 3.4
parts in ten thousand. In `ComparisonEngine` a pressure is in `Gravity`-ths of the unit of `LongDistance` and a head in
`LibraryGravity`-ths of a unit of height, so that both conversions are products of integers. The library also has its own friction
factor, off that of the first engine by `FactorError` at most. `EnginesAgree` then says exactly what separates the answers: the fittings
lose one pressure, of which the heads reported are as the inverse of the gravities; frictions differ by the spread of the factors;
the outlet pressures differ by these frictions, by what the two gravities make of the difference of height, and by the tolerance of
each segment. The tests of the repository (`tests/unit/test_pandapipes_adapter.py:53-64`, `92-98`) compare two studies with relative
tolerances of 2e-4 to 2e-3, within which these differences lie there.

`PumpSearch` ranks by the value of the objective, then by the identifier of the configuration (`optimizer.py:376`), which is not the order
of the visits; `IdOrder` gives the order of the identifiers, and the sort keeps the visits for what is equal (a stable sort).

The properties, by what they are for: `TransferIsSound` (conservation, limits, the reason of the
stop, balances; with a point that is kept because the budget is spent too, of which nothing else is claimed), `PreflightIsRight`, `SearchIsSound` (a converged answer is a root, Brent's
points enclose a change of sign, a change of method is on record), `NoSolutionIsTrue`,
`BracketNarrows`, `StationsWorkAtOneHead`, `ResultAccountsForLine` (flows against the injections, losses by segment and zones against the march), `OutletFallsWithFlow`, `ApprovableIsSafe`,
`ChecksAreAccounted` (each check is executed or skipped; one that was executed in part, as C-004 by the stations and C-003 by one pump, counts as
executed), `EnginesAgree`, `EveryCandidateAccounted`, `OptimalIsProved`.
Nothing in the constructors ties the chainage of a fitting to its segment. `FittingsInPlace` says that each
fitting lies on its own segment and sees there the velocity that governs its chainage; a fitting at the joint of
two velocities does not. For other lines the march and the report by segment charge a fitting at different
velocities: `EnginesAgree` excepts their pressures, and `ResultAccountsForLine` does not claim that the
losses by segment sum to the fall of the head, nor for lines of which the gravity model has raised a
pressure (`clamped`).

Observations that no run is about, each a hazard of `PROJECT.json` or next to one:

* `long_distance.py:454` warns that without a vapour pressure the checks C-002 and C-003 cannot conclude, and C-003 is
  executed all the same, with a vapour pressure of zero. The checks C-008 and C-009 (`checks.py:549`) are never called.
* An injection may be counted at two points of the grid (`long_distance.py:262-267`), where `pipeline.py:140-141` counts each once.
  C-001 then refuses a result that is wrong by the engine's own doing.
* The suction pressure of a station is no point of the profile that C-002 reads (`long_distance.py:337`): a station may suck at or
  below the vapour pressure without the violation that `long_distance.py:30-31` announces.
* Without a maximum on any segment, the minima are not looked at (`checks.py:273`), although `checks.py:4-5` says of each check
  that it is always executed.
* An unknown power counts as zero in the objective of an optimization (`operations.py:1069`), so that a configuration
  without a power curve is the cheapest.
* The models of the pumps of a site are kept by the code of their item (`network.py:1197`): two pumps on two versions of one item are computed
  with one curve, which the guard of `canonical.py:106` never sees.
* The import of a topology takes the last version of each code, approved or not, where its comment says the last approved one
  (`topology.py:226`).
* `create_rule` tests the status of the set without a lock (`governance.py:382`): a rule may join a set after its approval.

## 3. Runs

Two workers of TLC; every run ends within about three minutes.

| Run | Instance | Shows |
|---|---|---|
| `queue_single` | 2 calculations, 1 worker, 2 attempts, 2 deaths, 1 lapse of a lease | `QueueInv`, `ResultIsFinal`, `AttemptsBounded` for the worker as it is deployed |
| `queue_adverse` | 1 calculation, 2 workers, 2 attempts, 1 death, 1 lapse, 1 lost acknowledgement | what still holds when a job is executed twice: `ApprovedIsEligible`, `VerdictHasResult`, `ErrorAfterLastAttempt` and the types |
| `queue_lifecycle` | 3 calculations, 2 workers, fairness | `OneExecutor`, `CompletedOnce`, the refinement `ImplementsLifecycle` and the liveness `QueuedIsSettled` where no failure races a cancellation |
| `versions_life` | 2 versions of 1 editor with 2 reviewers, a payload with two values, an edge and a node at a time; or 1 version of 2 editors, 2 nodes, an edge that can move, a scenario | types, `HashIsCurrent`, `ApprovedIsValid`, `NoDanglingRow` |
| `components` | every small case of each engine and service, see below; fairness | the properties of the modules after `ModelVersions`, types, and that every loop and request ends (`ComponentsEnd`) |
| `queue_cancel_lost` | 1 calculation, 1 worker | violation: `CancellationIsFinal` |
| `queue_abandoned` | 1 calculation, 1 worker, 1 death, fairness | violation: `AbandonedJobIsRecovered` |
| `queue_reopened` | 1 calculation, 1 worker, 1 lost acknowledgement | violation: `ResultIsFinal` |
| `versions_edited` | 1 version, 1 editor, 1 reviewer | violation: `ApprovedIsImmutable` |
| `versions_revived` | 1 version, 1 reviewer | violation: `ArchivedIsFinal` |
| `line_station_twice` | the lines, with a point of the profile next to a station | violation: `StationsPassedOnce` |
| `catalog_rewritten` | the catalog | violation: `ApprovedItemIsImmutable` |

Why the bounds are enough. Two attempts give a retry and a last attempt, the
only two cases `_mark_failure` and the recovery distinguish. Calculations
interact only through the worker they share and the sets recovery selects, so
two of them show every choice. The deaths, lapses and lost acknowledgements are
bounded (`MaxCrashes`, `MaxLapses`, `MaxLostAcks`); two deaths let a recovery be
interrupted by another death. `ModelVersions` has no bound of its own: the sets
are small and its state space is finite. Two versions are needed for a clone and
for approvals to compete; two editors and three rows let a creation, a move and
a deletion meet. A behaviour of `versions_life` asks one of the two questions
(`EditsOfShared`, `LifeOfOthers` in `MCModelVersions`): a version that two
editors share is edited alone, in a project that stays a draft, since neither
reviews nor the project touch the rows of a draft. Deadlock is not checked: with every calculation settled or
every version archived the system rightly has nothing to do.

The bounds of `components`, and what each is for:

* transfers: two tanks whose strapping tables have two slopes, two steps, two durations, three
  targets, losses or none, a budget of one or two evaluations, flows 0, 2 and 4, so that every
  reason to stop occurs before, at and after another; gaugings that are exact, off by one, or
  without the losses, with no tolerance or one of the three;
* searches: falling, growing, flat, discontinuous and cubic residuals on 0..16, with and without a
  guess and a hard bound, budgets of one and four iterations, at most four expansions;
* stations: strong and weak pumps, one to three groups, two speeds, flows 0..16;
* lines: two segments with a summit or a trough, none to two stations, fittings, injections on a joint and
  inside a segment; scenarios with every pair of known and unknown conditions, gravity, overrides;
  for the second engine lines without stations and answers of the library that are on the
  solution, within the tolerance and beyond it, and a friction factor that is that of the first engine, less or more
  (`Deviations`, `FactorError`); the two gravities as the code has them, in hundred-thousandths divided by five;
  a reach of two units around an injection (`InjectionReach`), with a point of the profile inside it, and a
  first step that comes out one unit farther, next to the injections of the other lines (`RoundedUp`);
* quests: two pumps, one or two speeds, budgets of one, two or none, every objective, every invalid field;
* submissions: three clients on one key of calculations, two reports and two comparisons
  with different contents under one key, two tries each (`MaxTries`), one edit (`MaxDraft`);
* rules: two officers with three requests each (`MaxSessions`), a set of two rules, one calculation that names
  the set once and one that names it twice;
* imports: three importers on two keys, one author with three edits (`MaxEdits`), a file with a column that increases and one that does not (`Columns`),
  and a row of which the unit is unknown, imported as a profile and as measurements;
* packages: a draft with every field and one with the required ones, and every edit of one field
  of one node: absent, null, of another type, out of range, almost equal, other;
* networks: a line of three edges with a station, a tap and a valve, lines that come back to a node, and
  every edit of one row;
* catalog: two curators, three versions (`MaxVersions`), three commits (`MaxWrites`).

The parts share no state, so one run that takes the steps of one part in each behaviour shows
what separate runs would.

Symmetry: the nodes and the reviewers of `MCModelVersions` are interchangeable;
no temporal formula with fairness is checked under it.

### Findings

1. `queue_cancel_lost`. `_mark_failure` reads the job and the calculation
   without a lock and writes later. A cancellation committed in between is
   overwritten: the calculation is queued and executed again.
2. `queue_abandoned`. Recovery runs only when a worker starts. A container
   restarted before the lease is stale finds nothing to recover, and the job of
   its predecessor stays `running`.
3. `queue_reopened`. A commit that was applied and whose acknowledgement was
   lost is handled as a failure: a concluded calculation is queued again.
4. `versions_edited`. Edits check the draft status without a lock; one that
   passed the check before an approval or an archiving commits after it.
5. `versions_revived`. The status an approval tests is the one it loaded before
   it waited for its locks: an archived version can become approved.
6. `line_station_twice`. `station_at` has a tolerance of one metre and is asked at every point
   of the grid: a point of the profile, a fitting or a point added by `profile_step_m` within a metre
   of a station adds the head of its pumps again (`long_distance.py:260`).
7. `catalog_rewritten`. An update that has read a draft commits after the approval (`catalog.py:206`): the approved content changes.

### Fairness

`FairSpec` assumes weak fairness of each worker's own steps and of claiming: the
loop of `worker.py` never blocks, the engine terminates, a dead container is
restarted by its policy. Time passes: delays elapse, leases expire. Nothing is
assumed of users, of failures or of deaths. `QueuedIsSettled` needs the bounds on
deaths and failures that the constants state.

`ComponentsFairness` assumes weak fairness of the steps of an engine that was called, which is
a loop of one process, and of each request that was sent: the database gives a lock to one of
those that wait for it, and ends the transaction of a dead client. Nothing is assumed of
clients that start or try again, of edits, or of failures.

## 4. What is proved

TLAPS proves the following for all values of the constants that satisfy
`QueueAssumption` or `VersionsAssumption`, and the assumptions of each module below.

*Queue, every deployment* (`CalculationQueueProofs`): `TypeCorrect`;
`ApprovalSound`, from `DecisionInv`: a second execution of a frozen input gives
the same result; `VerdictsHaveResults`; `ErrorsAreLast`, from `ErrorInv`: the attempts a session has
seen are a lower bound of the real ones.

*Queue, regular deployment* (same module), where no
acknowledgement is lost and workers do not die or there is only one, which is
what the compose file deploys: `QueueSafety`, and from it `ResultsAreFinal`,
`ExecutorIsUnique`, `CompletionIsUnique`, `AttemptsAreBounded`. None of these is
inductive alone. `QueueInv` adds that the job of a worker is running or
cancelled and has no result (`HeldJobInv`), that what a failing worker has read
is still true but for a cancellation (`FailureViewInv`), that what a recovering
worker has selected is unfinished (`RecoveryViewInv`) and that nobody recovers
unless somebody died (`RecoveryInv`).

*Refinement* (same module), when in addition neither a failure nor a
recovery can race a cancellation (`NoCancelRace`): `LifecycleImplemented`, every
step of the queue is a step of `CalculationLifecycle` or a stutter, from
`AgreementInv`, which `RowsAgreeAlways` states; and `CancellationsAreFinal`. The findings 1 and 3 show that the
two conditions are needed.

*Versions, no condition* (`ModelVersionsProofs`): `TypeCorrect`, with what each
request has in hand (`SessionInv`); `RowsAreWhole`, because what a flushed row
references is present and not being deleted, and what it deletes is not
referenced (`WrittenInv`); `HashesAreCurrent`, because the only author of a
version has loaded what the version still holds and computes the hash of what
it is about to commit (`SeenInv`); `ApprovalsAreValid`, because a network that
was validated under the lock of its version changes only with its hash, which
the lock protects (`CheckedInv`).

*Root searches* (`SearchProofs`), for every residual with integer values (`IntegerResiduals`)
and all searches that satisfy `SearchAssumption`: `SearchTypes`; `SoundSearches`, from
`SearchInv`, which adds that the bracket lies between the lower bound and the physical one (`BoundsHold`)
and what cannot have happened yet in each phase (`FreshUntilBegun`); `NarrowingBracket`, the action
property, from the same invariant. `NoSolutionsMissed`: a search that gives up has missed nothing, because the
last bracket it tried reaches the physical bound and has one sign at both ends (`SignAtTheBound`). It needs
a residual that never turns back (`MonotoneResiduals`, the contract in the docstring of `solve_monotonic`) and enough doublings to
reach the bound (`EnoughExpansions`; the code allows 60, which no physical bound exceeds).

*Quests* (`SearchProofs`), for any requests and any answers of the engine: `CandidatesAccounted`, `OptimalAnswers`. The order
of the visits is the number of pumps, then the speeds, which is one lexicographic order on the keys of a configuration
(`Keys`); the last scenario computed is then that of the greatest configuration counted, and the rank of a
candidate, a cardinality, is a bijection. `QuestInv` adds that the fates are a partition, and that an
incomplete search has refused an allowed configuration for its budget (`BudgetStopsAtAllowed`).

*Transfers* (`NetworkProofs`), for all requests, flows and gaugings that satisfy
`TransferAssumption`, `GaugingAssumption`, `ReasonAssumption` and `PlanAssumption` (a feasible request plans a
withdrawal, of an integer volume; TLC evaluates it on the instances): `TransferTypes` and `SoundTransfers`. The invariant adds to
`TransferIsSound` that a transfer under way is ahead of its target, of the limits of both tanks and of
its clock (`TargetAhead`), that its request passed the checks (`RequestInv`), and where the balance of
the record comes from (`RecordInv`). That a balance closes is then arithmetic: the imbalance is what was left out less what
was misread (`ImbalanceIsMissing`). `PreflightSuffices`: a transfer at an imposed flow that passed the checks
stops for its target or its maximum duration, not for a limit. The code computes in real numbers; in integers this needs a
unit and a tick that divide what a step moves (`WholeMoves`), or a rounded loss would shift the end.

*Networks* (`NetworkProofs`), for any networks, items and contexts that satisfy `NetworkAssumption`, of any number of
rows: `NetworksAreDrawn` and `TopologySurvivesExport`. The inductive invariant, `NetworksFollow`, says that what was
computed was computed of the rows as they are; what remains is what the operators compute. An accepted
network is a chain of edges in the order of their sequences, so that each edge starts where the one before it ends, the profile
climbs from zero to the length of the line, and each pump is listed once, at one chainage, with the
version of its own item. Unless it passes a node twice, counting makes the nodes along it distinct: the chainage of a node is the start of its edge, and an accepted path,
of which each step is an edge and the ends are tanks, can only follow the chain from one end to the other. A copy that
was exported and imported differs from its original by a renaming of identifiers (`Alike`): it has the same problems, the same
chainages and, if its items are the last versions of their codes, the same sections.

*Submissions* (`SubmissionProofs`), for any clients and intents that satisfy `SubmissionAssumption`:
`SubmissionTypes` (one row per key of a table), `TrueAnswers`, `StoredReports`. What makes them inductive: one
transaction at most holds a key, which has no row yet (`KeysAreHeld`); who lost the race finds the row of the winner
when it looks again (`LoserFindsRow`); the try that made a row is over, so that it never removes the object of a row
(`RowsAreFinished`); and the object of a try is stored just before its row, not earlier (`StoredInTime`).

*Packages* (`SubmissionProofs`), for all documents and all edits that satisfy `PackageAssumption`: `PackagesFrozen`. The invariant
(`PackageInv`) says that each row is the package of an accepted input and that what was replayed of it is this input.
It rests on two facts about the operators. What is written of an input is read back as this input (`PackageIsReread`): each field that a class
reads is written and its default is read as itself (`FieldsAreWritten`), what is read passes the same checks again, the lists
are sorted once and for all (`ArrangedStays`), and each pump finds its model in the equipment, which holds one
model per identifier (`EquipmentIsRead`). And the hash is faithful (`HashIsFaithful`): a pump is the only object written without a part,
its model, which the equipment has under the identifier that the pump names; so that inputs that are alike are written alike,
and the converse when their equipments agree (`Alike0` to `Alike3`).

*Imports* (`SubmissionProofs`), for any file, mappings and requests: `ImportTypes`, `WholeImports` (the rows are all those of one
recorded import, from `ImportInv`: only the request that has deleted the rows and holds the row of the data set inserts), and
`UsableDatasets`: positions increase and values are finite, if no change of unit overflows (`ConversionsAreFinite`;
`_normalize_row` tests the number before its conversion only).

*Governance* (`GovernanceProofs`), for any officers, rules, calculations and measures that satisfy
`GovernanceAssumption` and `NoneAssumption` (the constant that stands for no value is none of the values):
`GovernanceTypes`, `JustifiedDecisions`, `FinalEvaluations`. Requests test what they read without a lock, so the
invariant says what stays true of it until they commit (`StillTrue`): the rules an approval has seen are
approved still. A request that writes
a rule has only rules of its own set in hand (`StepJoinsNothing`). `Covered` then says that the manifest of a calculation has the rules of every approval, of
those under way too: one that began before another committed still replaces the audit event, and the calculation may
have been submitted in between. A favourable summary (`FavourableVerdict`) leaves no error and no blocking rule.

*Catalog* (`GovernanceProofs`), for any curators, codes and contents: `NumberedVersions` and `KeptCatalog`. `CatalogInv` adds
that what a request has read is a row of the right shape with the parent it still has and a number of versions that has not
decreased since, that an update is one the row it read allows (`CallHolds`), and that approved and retired rows are not
drafts (`SettledHolds`). An update that did not read a draft changes the status only, so that its flush touches no content
(`WritesLetRest`); neither do the other requests (`AdditionsLetRest`, `ReadsLetRest`).

*Line* (`LineProofs`), for every line, scenario and fluid that the constructors accept (`LineAssumption`: `IsStudy`), of any number of
segments, stations, fittings and injections. `ResultsAreBuilt`: a result is the march, losses, checks and zones of its own
flow and inlet pressure (`Built`), and what a search returned leaves its residual within the tolerance (`LineInv`).
From it `ChecksAccounted`, and `ApprovalIsSafe`: the points of the march are the grid, the grid has the
ends, the profile and the limits of each segment, the reports have every passage and every pump of it, and each check looks at every
point, station or pump it is about; a limit that is passed leaves a violation, and C-004 is skipped only without any maximum. An efficiency is above zero
(`Efficiencies`, refused otherwise by `pumps.py:230`), so that a shaft power is defined. `ResultAccounts` is
an induction along the march for the flows and for the head at each point, then an exchange of sums: the march charges friction by
interval and fittings by chainage, the report by segment. The two agree because each interval lies on one
segment and, with `FittingsInPlace`, each chainage sees one velocity. An approvable result balances because C-001
finds nothing in it: its tolerance admits no residual in whole units (`BalanceFound`), and it is never skipped.

*Stations* (`LineProofs`), for all stations that satisfy `StationAssumption`: `StationHeadsFall`, in every arrangement and at every
speed. An interpolation in a table of which the values fall is monotone, its integer division included (`FallingTable`); the
affinity laws, the sums of a group and the last head at which groups in parallel carry a flow keep that.
`StationsAtOneHead` needs more, since the model counts flows and heads in units: a unit of flow must cost each group a unit of head,
and none may give head at the largest flow (`FallsByUnits`). The curves of the code strictly fall and are searched up to a flow
no pump reaches, so that a small enough unit of head has it; a group at half speed, which has one head at two flows in integers,
is only model-checked. The shares are rounded down: each group then misses less than one unit (`SharesCarry`).

*Operating point* (`LineProofs`): `OutletFalls`, for every line without a bypass that adds head (`BypassesLose`: `stations.py` does not
refuse a negative coefficient). Two marches of the same line at `q` and `q + 1` are compared point by point: the losses of fittings and
segments grow, heads of stations do not, and the first interval, which has a length, makes the difference strict.

*The second engine* (`LineProofs`), for any two gravities, any error of the factor and every deviation of the library (`ComparisonAssumption`): `EnginesAlwaysAgree`.
`EngineInv` adds to `LineInv` that the first engine answers a study with a flow and a pressure by one march of these (`DirectAnswers`)
and that an answer kept is one of the library (`AnswerKept`). What `_incompatibilities` refuses then leaves one flow along the line
(`FlowIsEven`), so that sums over the grid are what a segment loses at once (`EvenLosses`); the outlet pressure of the
first engine follows from the balance of `ResultAccounts`, that of the second by taking the losses one segment after the
other, and the residual of the last segment bounds the deviation (`AnswerIsNear`). A loss under one gravity is the loss under the
other in its own units (`LossesConvert`), and a loss is even and grows with the drag, which bounds the difference of two frictions by the loss
of the difference (`FrictionsAreNear`).

What recursive functions and sums over finite sets compute is proved by taking the least counterexample (`OrderLemmas`), since the
installed provers cannot use the induction theorems.

Only model-checked: the liveness properties `QueuedIsSettled` and `ComponentsEnd` (TLAPS has no
support here for `ENABLED` and fairness); `StationsWorkAtOneHead` for the stations
without `FallsByUnits`, and `OutletFallsWithFlow` for bypasses that add head; `ComponentsTypeOK`, of which the proofs have the parts they need.
The invariants that the proofs of `ModelVersions`, `NetworkAssembly`, `LongDistance` and the services add are
checked by the proofs and are not part of a run.

## 5. Not modelled

* Correlations of friction, viscosity and vapour pressure, PCHIP interpolation, and floating-point error: the models
  have integers and one loss law. Fully closed fittings, whose loss is infinite.
* The text of explanations and warnings, PDF and spreadsheet layout, exports: no property is about them.
* Authentication, sessions, members and sites: rows that the calculations do not depend on. Two
  administrators may both give up their role, each counting the other (`services/auth.py:437`).
* Rows written by one request and read by nobody concurrently: tanks and their strapping tables, the metadata of a
  project, approvals of reports.
* The HTTP shell beyond its transactions, the web client, which polls and shows, and the deployment, of
  which the restart policy of the worker is in `CalculationQueue`.
* pandapipes, CoolProp, the solver of the mathematical program and the object store, which are external: the models use
  any answer that the code can receive.
* The scientific validation cases, which are tests of the engines against published results.
