# Formal models of the India Geopolitical Risk Monitor

The repository publishes one number per closed UTC day, India's press salience
of geopolitical risk, and promises three things about it: the number of a day
is published once and never changes silently, a day that could not be measured
is disclosed instead of skipped, and each published day can be proved from the
git history of `main`. There is no server and no database. The state of the
system is the tree of `main` plus the workflow runs in flight, and its
concurrency is that of a dozen GitHub workflows pushing to one branch. The
modules here model that protocol; the statistics it carries are data to it.

## 1. Inventory

### The parts that keep and change shared state

| part | source | state | operations | behaves hard because | correct when |
|---|---|---|---|---|---|
| ordered backlog pointer | `src/src/final_publication.py` 285-340 | the day of record, the refusal ledger `final_publication_refusals/`, the legacy receipt | `required_target`, `required_next_target` | long mixes of published, refused and skipped days; a day the provider lost for good | no day is passed over without a published lost-source disclosure; what is passed stays as it is; a day still served is reached |
| finalized publication contract | `src/src/final_publication.py` | store and provenance CSV, day cache, transform receipts, status marker, ledger | `acquire_target`, `_commit_candidate_bundle`, `mark_finalized`, `record_status`, `record_pipeline_failed`, `require_promotion_receipt`, `_committed_receipt_parent`, `public_status`, `verify_release_candidate` | five files replaced one by one, kills between them, rollbacks that fail, proofs read from history | store, provenance, receipts and pointer agree in every commit; a refusal carries no byte of a candidate; a receipt names the parent of the commit that introduced it |
| morning contract lane | `.github/workflows/morning.yml`, `src/src/run_daily.py --final-only` | frozen base commit, frozen date, step outcomes, checkout | guard, acquire, pipeline, audit, derived, publish, successor dispatch | 90 minutes between freezing the base and pushing; midnight; a kill at any step | what is pushed is the frozen base plus exactly one day, or one disclosure |
| compare-and-swap publisher | `scripts/publish_final_cas.sh` | the candidate commit | refusal worktree, gate, remote check, release proof, push | anybody may push between check and push | never rewrites `main`, never rebases a final |
| daily enrichment lane | `.github/workflows/daily.yml`, `scripts/stage_daily_outputs.sh` | a checkout pinned at the trigger | acquire D-1, full `run_daily`, staging after success or failure | the checkout is as old as the wait in the queue (up to hours); failed jobs still commit their raw files | writes nothing the morning final depends on |
| rebase publisher | `scripts/publish_push.sh` (15 workflows) | local HEAD, attempt counter, memoized gate verdict | commit, pull --rebase, conflict resolution, manifest refresh, gate, push, retry | several lanes at once, lost answers, resolved conflicts, a verdict carried across attempts | only gated bytes reach `main`, once, with a manifest of themselves; no source change is resolved away |
| lane queue, watchdog, successor | `.github/workflows/watchdog.yml`, `morning.yml` 409-428, `scripts/dispatch_morning_successor.py` | one running and one pending run per concurrency group | cron shots, dispatch, eviction | a newer pending run evicts the waiting one; the watchdog checks and dispatches in two steps; crons are dropped | a stale day keeps getting a run |
| receipt identity lane | `src/src/receipt_identity.py`, `receipt_identity_rights.py`, `.github/workflows/receipt-identity.yml` | `docs/data/receipt_identity.json`, the rights, signers and profile files, a run's payload | `execute`, `verify-payload`, `check_release_rights`, `verify_superseded` | six runs a day over one target; rights that change or expire while a run is under way; a release judged on another commit than the one it was built on | a payload is released on the commit and under the authority it names, on its own day; a closed channel keeps its links; a green run is served |
| ngram acquisition | `src/src/fetch_ngrams.py` | day cache | `compute_day`, window sampling | the provider drops a day's files after a while | a complete frame or nothing |
| event ledger | `src/src/event_ledger.py` | `event_ledger.json`, the archive of signed vintages, the git history of that archive | `build`, `write`, the release procedure | two files written one after the other; rights that lapse; stores that are rebuilt between releases; commits that touch the archive | the public file is a vintage of the archive; a published day stays published; nothing is built on a rewritten archive |
| forecast registry | `src/src/forecasts.py` in `daily.yml` | `validation/forecast_questions.json` | `generate`, `grade` | runs queue on stale checkouts; the registry is not among the paths a rebase resolves; windows close on days the series may not have | a forecast on `main` is never revised; a grade is that of the whole window |
| model budget | `src/src/assistant_router.py` 280-397 | a ledger file and its lock | `reserve` | one process per question; truncate and rewrite in place; kills; midnight | a day licenses no more calls than its cap |
| labelling server | `src/scripts/label_session.py` | the label queue, the open tabs | `build_state`, `apply_label` | threads and tabs over one file that is rewritten whole | no ruling is changed or lost |

They interact through `main`. Morning and daily share the concurrency
group `igrm-pipeline-v3-<ref>`; the other workflows and developers push to `main`
at any moment. The morning lane publishes by compare-and-swap; every other
lane by rebase. The watchdog, the nowcast's guarantor and the successor dispatch
start morning runs. The event ledger and the forecasts run inside the daily job;
the budget and the labelling server run on machines of their own.

### The parts that answer questions about signed archives

Sequential, but with two time axes (when a thing holds, when it was known), which is
where they can go wrong.

* **Semantic lineage** (`event_semantic_lineage.py`): a growing archive of supersede,
  merge and split operations over records that also name what they supersede; a replay
  returns the active records of a day as known at a cutoff. Correct when every archive
  the validation accepts can be replayed, and one version of a lineage is active.
* **Knowledge replay** (`knowledge_replay.py`, `event_ledger_extension.py`): a ledger of complete releases with
  availability receipts, and corrections of events laid over them. Correct when a past cutoff keeps
  its answer and one version of an event is in force on a day.
* **Exposure paths** (`exposure_graph.py`): a breadth-first search cut by hops, paths and
  expansions. Correct when the answer is all simple paths or says that it is not.

### The parts that compute

Everything below is a sequential function of committed files. Nothing in it
runs concurrently; a workflow runs it and publishes with `publish_push.sh`.

* **Episode detection and index** (`build_index.py`, ...): percentile ranks, episode rules.
* **Event study, validation, benchmarks** (`event_study.py`, `validate.py`, ...).
* **Other fetchers** (`fetch_*.py`): incremental stores.
* **Rights and attestations** (`ngram_rights*.py`, `*_attestation*.py`): signed
  decisions validated against schemas. Their verdict reaches the contract.
* **Legacy construction receipts** (`receipts*.py`): links derived from stored frames.
* **Nowcast score** (`nowcast.py`): a provisional score every two hours.
* **The other OGES sidecars and exposure engines**: validators, interval propagation,
  option lattices over a signed release.
* **Clause readers and product compilers**; **question grammar and query admission**;
  **precision audits' sampling and scoring**; **alerts and vintages**; **published site and
  metadata**; **repository controls and evolution scout**; **trade baselines and maps**.

`PROJECT.json` lists each with its files, its status and the reason.

## 2. Modules

```
BacklogOrder                 the pointer and the ledger, operators only
 |- OrderedBacklog           abstract specification: the public record
 |   |- BacklogLiveness      the same with a provider that loses days
 |   '- OrderedBacklogProofs
 '- FinalContract            trees, bundle, receipt, refusal, release proof
     '- FinalPublication     the morning lane          (implements OrderedBacklog)
         '- SharedPipeline   morning and daily lane together
             '- FinalPublicationProofs   about both lanes
AtomicPublication            abstract specification: one publication per lane
 '- PublishPush              publish_push.sh, any number of lanes (implements it)
     |- MCPublishPush        its symmetry set
     '- PublishPushProofs
ReceiptIdentity              the receipt-identity lane
 |- MCReceiptIdentity        its symmetry set
 '- ReceiptIdentityProofs
LaneQueue                    the concurrency group and its triggers
 '- LaneQueueProofs
EventLedger                  the event ledger's signed vintages
 '- EventLedgerProofs
SemanticLineage, KnowledgeReplay, Forecasts,
ModelBudget, LabelSession, ExposurePaths
Sidecars                     these six and EventLedger side by side, for two runs
 |- RevisionProofs           about SemanticLineage and KnowledgeReplay
 '- SidecarsProofs           about the other four and the composition
```

**BacklogOrder** numbers days; day 0 is the registered legacy day 2026-08-09.
`IsNextTarget(t, ...)` says that `required_next_target` returns `t`; that it returns
`None` is `BacklogComplete`. A reason code determines stage and public state, so
a ledger entry is a code and the date of its first identical disclosure.

**OrderedBacklog** is the promise to a reader of `main`: the day of record, the
published days, the legacy binding, the ledger. Its actions are a tick of the
clock, one binding, one publication, one refusal. A run froze its date at most
one midnight ago, hence `Targeted`.

**FinalContract** abstracts a checkout to a record (`Tree`): the days with a row in
store and provenance, the cache, per day the receipt (parent commit and version
of the hashed inputs), marker, ledger, pointer, inputs. A commit is its position
in the linear history of `main`. File hashes are replaced by what they compare:
equality of the inputs and identity of the parent.

**FinalPublication** is `morning.yml`. `phase` is the next step of the run, `run` what
the guard froze, `work` the checkout and later the candidate tree. One action per
step and outcome:

| action | code |
|---|---|
| `Guard` | the guard step: fetch, freeze base and contract day, `required_next_target` |
| `VerifyLegacy`, `AcquireReady`, `AcquireRefused`, `AcquireKilled` | the source step, `acquire_target`; `k` counts the bundle files a kill or a failed rollback left written; a rights refusal before the first request is an `AcquireRefused` |
| `PipelineDone`, `PipelineFailed` | `run_daily --final-only`, `mark_finalized` |
| `AuditPasses/Fails`, `DerivedPasses/Fails` | the two steps after it |
| `MakeCandidate` | candidate commit, or `publish_refusal`'s worktree |
| `GateGreen`, `CheckRemote`, `Push` | `publish_final_cas.sh`, in its order |
| `Abort` | a red gate, a refused proof, a rejected push, the job cap; a red preflight, whose disclosure `gate.sh --publish` stops with the same tests |
| `ForeignPush`, `Tick` | everybody else; the clock |

**SharedPipeline** adds the daily job and the concurrency group. The daily job works on
the commit of its trigger (`DailyTriggered` records it, `DailyStarts` checks it
out), and `RebasedTree` is what `git pull --rebase` with the script's conflict
resolution leaves per contract path.

**PublishPush** is the publisher itself for any number of lanes, files, attempts.
A file's content is who wrote it last. `Pulls`, `Refreshes`, `Gates`, `PushSucceeds`
are the loop body; `PushAnswerLost` is a push the remote took and the client saw
fail; `PullFails`, `RefreshFails`, `GateRefuses`, `PushFails`, `RefusesUnstaged` the error
paths. `green` is an auxiliary variable recording the gate's verdicts, `memo` is the
code's `LAST_GREEN_COMMIT`. **AtomicPublication** is what the script promises its caller: the work is put on
`main` once, "pushed" is answered only when it is there (or there was none), and a failure promises nothing. `Brought` and `Told` map the
loop to it; the push the remote takes is its one step, whether the client hears of it or not.

**ReceiptIdentity** is the lane that publishes D-1 source links. `main` is the history of
two things, the payload and the authority: one name for a version of rights registry,
signers and profile, since the code compares all of them for equality. `Authorized` says
whether a version allows links on a given day; `Expiring` versions stop at `LastDay`.

| action | code |
|---|---|
| `Begins` | checkout of the tip, target frozen |
| `WritesRefusal`, `WritesLinks`, `ExecuteFails` | `execute`: the evaluations, the acquisition, retention, predecessor binding, the write |
| `Verifies`, `VerifyFails` | `--verify-payload`, also over the payload that was checked out when `execute` failed |
| `Pulls`, `PullFails`, `GateRed`, `PushSucceeds`, `PushAnswerLost`, `PushFails` | `publish_push.sh` with the hook `check_release_rights` (`ReleaseVerified`) |
| `ChecksSuperseded` | `verify_superseded` after a failed release |
| `Killed`, `Ends` | the caps; the end of a green run |
| `ForeignPush`, `Tick` | everybody else, who may change the authority but not the payload; the clock |

`WrittenAt` is `git log -1` over the path. A payload binds its predecessor's commit and blob;
on a linear history the commit's position determines the blob. Hook and push are one step.

**LaneQueue** closes what `BacklogLiveness` and `SharedPipeline` assume of the scheduler: that
runs keep starting. A run is folded into its effect on the day of record; what is opened
is everything around it. `Queue` is the group's rule (a new pending run evicts the old one).
`WatchdogChecks`, `WatchdogStandsDown`/`WatchdogClears`, `WatchdogDispatches`, `WatchdogVerifies` are the four steps of
`watchdog.yml`, any trigger may fall between them, and a request that failed counts as "no
run" (`blind`, line 109 ends in `|| echo 0`). `MorningContinues` is the successor step with the
`authorize` of `dispatch_morning_successor.py`; `Guarantor` the step of `nowcast.yml`, which looks at no
queue. The day has three parts, `window`, `daytime`, `evening`, because the crons do.

**EventLedger** is `event_ledger.py` and who feeds it. `Acquire`, `Reregister`, `Decide` change the stores,
the register of unavailable days and the rights; `Sign` is the human signature over the release
the inputs would make now; `Release` and `Refresh` are the two ways `build` is run, `Writes` its two
files in their order with a crash between them; `Commit`, `Checkout`, `CommitEdited` what lanes and hands do
to the archive. The wall clock ticks twice a day, so two releases can share a date.

**SemanticLineage** and **KnowledgeReplay** grow an archive by what validation accepts, and check the
replay at every cutoff and day. Initial states are all small record graphs, each record with the days it is effective.
The operations of a lineage are laid over what the extension's own replay returns (`Bases`): of claims the one set that
`_active_on` computes (`ClaimsOn`), of events any set of effective ones, for `KnowledgeReplay` has the corrections that select them. The replay of a lineage is
a recursive function (`Applied`, one `Apply` per operation in the order of `First`); the cycle check by peeling is
stated as what it decides (`Acyclic`: no set of records that each have an edge from the set).
**Forecasts** is the registry in the queue of the daily job: `Trigger`, `Starts`, `Runs`, then `Pushes` or `Lost`.
**ModelBudget** has one process per question: `Ask`, `Reads` (lock, read, validate), `Truncates`,
`Writes`, `Calls`, and `Killed` anywhere. **LabelSession** has tabs (`Shows`, `Decides`) and the server's threads
(`Reads`, `Writes`, `Refuses`), and `Restarts`. **ExposurePaths** runs `_bounded_paths` one expansion per step.

**Sidecars** extends EventLedger and instantiates the other six parts, none of which shares state
with another. A behaviour picks one of the seven at the start, and the variables of the others stay
at one initial value, so a run explores the sum of their state spaces and not the product. Two runs share
the module: `archives` spends its bounds on the two replays, `sidecars` on the other five parts.

Operators marked "Faulty variant" in a module are not part of a specification. Each
is a plausible bug next to the definition it would replace; `PROJECT.json` "mutants"
names for each property the bug that breaks it.

## 3. Runs

| run | shows | bounds |
|---|---|---|
| `backlog_liveness` | `NoSilentHole`, `PassedDaysFrozen` over every order of ticks, publications, refusals and lost days; `EveryDayIsSettled`: if lost days are disclosed as failed acquisitions, each day is in the end published or passed over with its disclosure | days 0..5, the clock up to 6: two lost days in a row before a third of which the property demands something, so that the pointer has to cross both at once; a retryable failure may disclose any day under any code first |
| `morning_lane` | ordering, rooted receipts, provable finals, releasable candidates, truthful refusals, and that the lane implements `OrderedBacklog` | days 0..3, two versions of the inputs, `main` up to four commits: enough for a refusal, a skip and a publication with a foreign push between them |
| `shared_lane` | `MarkerIsProofOrRefusal`, `RecordNeverRegresses` with a daily job on a stale checkout | days 0..3, one version of the inputs, four commits |
| `publish_push` | exact gating, single publication, that the loop implements `AtomicPublication` (a truthful exit 0 among it), no lost source change, exact manifest | two lanes (symmetric), one file of each kind, three attempts instead of the code's five, developers up to two commits; a third attempt is the first that can follow both a lost answer and a conflict |
| `receipt_identity` | exact binding, release on the target's own day, monotone links, readable predecessors, and that quiet runs release and green runs are served | two channels and two links (symmetric), an authority that holds, one that expires and one that allows nothing, three days, five commits, two attempts: two releases with changes of authority before, between and after them, and a run that meets midnight anywhere |
| `lane_queue` | `WatchdogSparesTheQueue`, `SuccessorHasWork`, `ClosedDayIsPublished` under the fairness of section 4 | five dates: a backlog of several days, a daily job over midnight, a successor of a successor; on the last date the parts of the day repeat, so no behaviour ends because the calendar does |
| `sidecars`: EventLedger | `PublicIsArchived`, `NothingLaundered`, `BuiltOnCleanHistory` | three days of stores with one value, two vintages, three commits, eight half-days: a release, a lapse of rights, a rebuild that drops a day, a second release, a hand edit below an innocent tip. Longer chains are the theorems' |
| `archives`: SemanticLineage | `ReplayAnswers`, `OneVersionActive` | four records with every assignment of links, start and end days, every base the extension may return on a day, two days, three operations whose ids ascend or descend: a chain of two operations with a merge or a split beside it |
| `archives`: KnowledgeReplay | `AnswersStay`, `OneVersionInForce` | three objects, three releases, three times, two valid days: a revision of a revision, with a correction in the past and one in the future |
| `sidecars`: Forecasts | `GradesCoverTheWindow`, `ForecastsStand` | a week of 2 days, a window of 4, one missing day allowed, 12 days, from the first day a question can be asked: two overlapping windows, a run triggered in one week that ends in the next |
| `sidecars`: ModelBudget | `DayWithinCap` | three processes, a cap of two, two days: one process too many, and midnight inside a reservation |
| `sidecars`: LabelSession | `RulingsStay` | two rows, two tabs |
| `sidecars`: ExposurePaths | `AnswerIsExact` | every graph of three edges over four entities, every set of entries, two hops, one path, four expansions: each of the three limits cuts some search |
| `lost_day_livelock`, `rebased_final`, `superseded_refusal`, `late_forecast` | section 6 | as small as the counterexample allows |

Counters are bounded in guards marked `bound:`. In `ReceiptIdentity` the bound is on foreign
pushes and on the start of runs; a run pushes at most once, so it bounds `main`. `MaxDay` stops the
clock (in `LaneQueue` only the date), `MaxCommits` stops `main`. `CHECK_DEADLOCK` is off because a finished calendar, a full
`main`, a full archive, a finished search and lanes that have all ended are the ends of these systems, not
deadlocks. It is on in `lane_queue`, which has no end.

## 4. Fairness

`BacklogLiveness` and `LaneQueue` state fairness; the other specifications are safety
specifications.

`LaneQueue` assumes weak fairness of the clock (`ClockMoves`), of GitHub starting the pending run of a
free group (`Starts`) and of every job ending (`Fails`; each has a `timeout-minutes`), and strong fairness of
two things: of the guarantor's shots of the evening (`EveningGuarantor`) and of a morning run that has a
closed day and publishes it (`MorningPublishes`). Strong, because what enables them comes and goes:
the evening is a part of the day, and a run that waits may be evicted. The grounds: `nowcast.yml`
runs every two hours and its comment reports that this cron does fire; a shot after the
afternoon's daily job has ended meets no daily run that could evict it before midnight (the job
cap, `NoDaily`). Crons, watchdog, successor and every
shot of the night may be dropped for good, and are given no fairness at all. The evening shots are necessary: without
them TLC finds the run of 2026-08-08, every night's daily crons evicting the morning run
that waits. So are the successes: a morning lane that always fails publishes nothing.

`BacklogLiveness` assumes weak fairness of the clock, of binding, of publishing a
served target and of disclosing a lost one; the scheduler's side of it is what `LaneQueue`
shows. A run that can publish does so
unless something fails. Nothing is assumed of defects (`RefusesDefect`) or of the
provider (`ProviderDrops`): they may happen always, sometimes or never. Weak fairness
of publishing means that a target that stays publishable is not refused for ever.

## 5. Proofs

All proofs are checked by tlapm (Z3, Zenon, LS4) for every value of the constants that
satisfies the named assumptions: `MaxDay \in Nat` (at least 2 in `LaneQueue`), the counts, days and limits of `Sidecars` natural (a week, a horizon, a time, a day of the budget and an entity at least one), `InputVersions`, `MaxCommits` and
`MaxAttempts` positive, `Active` among the authorities, `NoPayload` not a payload, `Derived` and `Other` disjoint, lanes distinct from the names
`"none"` and `"dev"`. The sets of lanes, files, channels and links need not be finite.

* **OrderedBacklogProofs**: `TypeCorrect`, `NoHoleInRecord`, `PassedDaysStay`. The
  invariant is `TypeOK /\ NoSilentHole`; a publication crosses only days that
  `IsNextTarget` found disclosed, and no action touches a day at or below `latest`.
* **FinalPublicationProofs**: `TypeCorrect`, `RunsRooted`, `MainStaysOrdered`,
  `MainStaysClosed`, `MainOnlyGrows`, `ReceiptsStayRooted`, `BuildsReleasable`, `RefusalsTellTruth`,
  `LastFinalStaysProvable`, `LaneImplementsBacklog`, and of the shared lane `MarkerStaysMeaningful`, `RecordMovesForward`.
  `MainOrdered` is not inductive: a push appends a tree some run built, so the
  invariant must say what a run in flight holds. `RunRooted` does: between `Guard` and
  `Push` the tree is a function of the frozen base alone (`Base`, a full bundle prefix,
  `FinalTree`, or a refusal tree), and the base is a commit of `main` by then or later.
  With the remote check the base is the tip at the push, so the new commit is `Tip` plus
  one day or one disclosure, which keeps `OrderedTree`. `ReceiptsRooted` adds that a receipt
  is introduced once: the target was unpublished in the base, hence had no receipt there
  (`OrderedTree`), and no other writer touches the path. Refinement follows: each
  push maps to one action of `OrderedBacklog`, everything else stutters.
  The release proof of what a run built needs two facts more: a marker on `main` names an
  earlier commit and is never one of a run in progress (`MarkersRooted`), and a run's own marker remembers
  the published day of its base (`MarkerRemembers`), so that a refusal discloses it although
  `latest.json` already shows the candidate (`RefusalReleasable`). The last final stays provable because its marker
  still is the one its push wrote (`FinalMarkerRooted`) and the receipt is rooted.
* **The shared lane** (same module): `SharedInv` keeps the morning's `TypeOK` and `RunRooted` beside a
  daily job (a morning run is in flight only while it holds the lane), dates everything a commit says of
  its base before the commit (`Backward`), and says what the daily checkout may hold: its pinned tree, or
  its own final. That its marker and receipt name the pinned commit, which no older tree can, is why a rebase
  takes both or neither. `MainOrdered` and `ReceiptsRooted` are not claimed there: the rebase breaks them (section 6).
* **PublishPushProofs**: `TypeCorrect`, `GateIsExact`, `NoDoublePublication`, `ExitZeroIsTrue`,
  `NoSourceChangeLost`, `ManifestIsExact`, `MainOnlyGrows`, `LoopIsOnePublication`. The inductive invariant has four
  parts besides the type: `main` is linear; a lane's HEAD is rooted (its parent is a
  commit of `main`, and if the HEAD is on `main` it is the commit there); relative to its
  parent the HEAD changes a file of `Other` only where the parent still has the content of
  the lane's checkout; and what the program counter promises of HEAD, manifest and verdict. The refinement
  needs that a rebase replaces HEAD by another's commit only when `main` holds the lane's own (`WorkIsKept`);
  then a push is `Publishes` with any answer (`PushPublishes`) and the rest is an answer or a stutter.

* **ReceiptIdentityProofs**: `TypeCorrect`, `BindingsExact`, `ReleasesOnTheirDay`,
  `LinksStayPublished`, `PredecessorsLoad`, `QuietRunsRelease`, `GreenRunsServed`. `MainStep`
  shows that a step leaves `main` alone, appends a commit with the tip's payload, or appends
  a payload the hook verified; binding and day follow from the hook alone. `LinksStay` also
  needs that refusals close no channel (`RefusalsAreLinkFree`). That the predecessor loads
  needs the commit that wrote it to be unique (`WrittenIsUnique`) and to be older than the
  payload built on it (`PredecessorsAreOlder`). The run's own invariant (`RunRooted`) says that
  its payload is the one it checked out or still what `execute` wrote on its base (`Fresh`).

* **LaneQueueProofs**: `TypeCorrect`, `NothingEvicted`, `SuccessorsWork`. Between the watchdog's count and its
  dispatch a morning run can appear in the pending place only through `Queue`, which marks the shot
  overtaken; the type of `latest` (never past yesterday) needs that a run has seen no date to come (`SeesNoFuture`).
* **EventLedgerProofs**: `PublicStaysArchived`, `NothingIsLaundered`, `BuildsOnCleanHistory`, for any number of days,
  values, vintages and commits. What holds of the worktree must hold of every commit, for a
  checkout may return to the last (`CommitsGood`, `WorktreeGood`), and of both only as long as no commit broke the archive,
  which is what each build finds out first. `DeltaComputable` is transitive: this carries the
  comparison with the predecessor to every earlier vintage.
* **RevisionProofs** proves the lemmas about the two histories of versions. Both parts are validated
  before they are replayed, so the inductive invariants say what validation leaves: `LineageInv` (operations with
  valid links, each end in one operation, ordered chains, no cycle) and `ReplayInv` (receipts, release history and
  corrections valid, parents older than children). The work is in what the replays compute from that.
  Of a lineage, `ReplayState` says after n steps of `Applied` what is pending, that the applied operations are
  exactly those in scope, and which records are active (`ActiveAfter`, a set without recursion); no step
  refuses because a consumer in scope has its producer in scope (`ChainTimeValid`) and earlier in the
  order (`FirstReady`, from `Acyclic`). Of the corrections, the versions of an event that a release has seen form a chain
  (`VersionsFormChain`, from `NoFork`), between two of them lies a child of the older one (`ChildBetween`), and of a chain corrected in order
  that child's correction has excluded the older one.
* **SidecarsProofs** states the theorems, all of `SidecarsSpec`. `SidecarsKeepLedger` shows that, in the ledger's variables, a behaviour
  of the composition is one of `EventLedger`, so its theorems carry over; `PartSteps` says the same of the other parts, step by step.
  * `ArchivesReplay`, `OneActiveVersion`, `OneInForceAlways`, `PastAnswersStay`: from RevisionProofs. A past answer stays because a step only
    appends, and what it appends is eligible for a past cutoff only if its receipt is no later (`IndexedLate`), when it is the last.
    `OneActiveVersion` closes under the edges what lies below an active record: below a touched one the successors of operations
    out of scope, below an untouched claim the records that have not started, below an untouched event those outside the base.
  * `GradesAreFinal`, `ForecastsNeverRevised` (`ForecastInv`): every question of every table, that of `main`, of a waiting run's
    checkout and of a run's work, is open or has the grade of its whole window (`ClosedWindow`: once closed, its
    grade does not depend on the day of grading); what a run made stands on what it checked out (`Stands`), and a rebase
    without conflict takes an entry of the run only where `main` still is what the run checked out.
  * `AnswersAreExact` (`PathsInv`): every simple path is found or begins with an entry of the queue, the queue holds no
    prefix of what is found or of another entry, and it is sorted by length with at most one hop between its ends
    (`SearchGood`). Completeness, absence of repetition and that a truncated answer holds the shortest all follow from it.
  * `CapHolds` (`BudgetInv`): the ledger, or the copy of the one process inside the lock, counts every reservation of
    the day it names, and no later day has any.
  * `NoRulingLost` (`LabelsInv`): what the one thread inside the lock has read is still the store.
  * `BudgetAndLabelTypes`: the types of these two.

The provers have no induction. Where a proof needs one (the root of a version, the steps of a replay, a sorted list of a
set's members), it takes the least natural number at which the claim fails (`LeastNatural`, from the library's theorem on
well-founded relations) and refutes it. An instance has its own copy of `Cardinality`; `SameCardinality` and `PathsCardinality` say it is the same.

Every safety property of a passing run is a theorem. Only model-checked are the two liveness properties, `EveryDayIsSettled`
and `ClosedDayIsPublished` (fairness and `ENABLED` are out of reach of the installed provers). The findings of
section 6 are counterexamples, found by TLC on the small instances.

## 6. Where code and comments disagree

Each is a run that TLC must find violated by what the code does.

* `lost_day_livelock`: the skip exists so that "one permanently lost provider day" does not
  block later ones, but only `source_acquisition_failed` licenses it. A dropped day answers
  404, which becomes `source_unavailable` and stays that.
* `rebased_final`: "A finalized marker carrying its receipt block IS the proof pointer". A
  final of the daily job that is rebased over any push has another parent than its receipt
  names, and `_committed_receipt_parent` finds no proof.
* `superseded_refusal`: `verify_superseded` is said to pass only when main retains "every
  article this run closed". It passes at once when main's payload is a refusal. A refusal
  published before the rights were activated makes a later run of that day green although
  none of its links reached `main`.
* `late_forecast`: the registration voids a question "whose commit timestamp is not before its
  window start", and `forecasts.py` repeats it. `grade` voids for missing days only, and nothing reads a
  commit time: a question generated on Sunday and pushed after midnight is graded.

Met while modelling, each in the models above but without a run of its own:

* A daily job that queued behind the morning run finds D-1 unpublished in its pinned checkout,
  finalizes it again, and its rebase replaces the published receipt (`morning.yml:8-9` says the daily runs
  "overwrite nothing the final depends on"; `SharedPipeline`).
* `publish_push.sh` ends with "the run's output is NOT on main" also when the answer of an accepted push
  was lost and the later attempts failed (`PublishPush`).
* Once the rights are approved, a refresh of the event ledger without a signature raises
  instead of publishing the refusal that `governance/event_ledger_contract.json` announces; the daily step continues on error.
* A record's own revision link that has no operation lets an intermediate and a terminal version
  be active together (`LinksCovered`). So does, among claims that no operation touches, a revision that starts
  before its predecessor, or one that expires before it: of claims valid on days 1 to the end, 2 only, and 3 to
  the end, `_active_on` finds on day 3 that the second suppresses nothing, and returns the first and the third.
  The SPEC.md of the semantic lineage enforces the end dates (106-109) and has a replay refuse rather than show an intermediate and a
  terminal version (112-113), but says nothing of records no operation touches. Events corrected out of order
  reach the overlay as two versions too. `BaseInOrder` excludes these, as premises of `OneVersionActive` that the code does not check.
* `load_ledger` validates one ledger and compares no two: a ledger closed earlier and extended with a receipt before its
  close changes past answers. `AnswersKept` allows that one change (`IndexedLate`) and says what the answer becomes.
* A withdrawn revision lets its ancestor return, and corrections
  of a chain in force out of order serve two versions. `InOrder` is the premise that excludes them.
* A kill between truncate and flush empties the budget ledger, and the day starts anew (`emptied`).
* Two label servers, or a server and a hand edit, share no lock.
* A daily run that registers a forecast window `main` already has loses its whole publication to the
  conflict, since `validation/` is not among the paths a rebase settles.

## 7. Not modelled

Tokens, ranks, quantiles and every floating-point series; CSV, JSON and hash formats;
signature checks (their verdict is a nondeterministic outcome, or a publication that does not happen); rendering; HTTP. The
manually dispatched full backfill. GitHub's merge of two edits of one text file is
modelled per file (in `Forecasts` per entry): two sides that changed the same file conflict. A hand edit of
`receipt_identity.json`, and a midnight between the release hook and the push it allows. The days a forecast's series
misses are fixed from the start: a day filled in later, after a grade, is not covered.

The map covers a small share of the source. Most of its 80,000 lines are of three kinds that keep no state
and have one order of execution: validators of closed schemas (the clause readers, the trace, foundry and
sensor sidecars, the rights and attestation modules), statistics over floating-point series, and
rendering. A module about them would restate their conditions.

## 8. What is left

1. Proofs: that `ModelBudget` and `LabelSession` implement specifications that reserve or rule in one step, and `EventLedger` one that appends to a list of vintages.
2. `EventLedger`'s world, dyad, state and episode files, which are taken to reconcile.
3. The nowcast's release hook as a second instance of the hook of `ReceiptIdentity`; the resumable chunk store of `fetch_gdelt`.
4. Pure algorithms against reference definitions: `detect_episodes`, the option lattice, the admission denominator.
