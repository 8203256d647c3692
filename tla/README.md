# Verification of finance-research-agent

TLA+ specifications of the concurrent and failure-prone parts of this
repository, the TLC runs that check them on small instances and the TLAPS
proofs that hold for every instance. Paths are relative to the repository; the
Python package is `src/finance_research_agent`.

## 1. The system and its parts

The program prepares one premarket research *run* per invocation: it allocates
a revision of the market date, collects and freezes evidence, stages a research
packet, validates the brief a model wrote from it, and publishes an immutable
bundle that readers look up by run id or through `latest.json`. All state is in
files under one root; several operating-system processes (the scheduler's CLI
call, the MCP server, a manual CLI call, recovery) work on the same files.

| Part | State | Operations | Interacts with | What is hard | What makes it correct |
|---|---|---|---|---|---|
| Run storage and publication (`adapters/filesystem.py`) | run directories in staging, final and quarantine; `index.json`; `latest.json`; the date's run lock | `allocate_revision`, `create`, `publish_atomically`, `recover_interrupted_publication`, `_quarantine_orphan` | every service below | several durable writes per operation, a crash or OSError between any two, revisions in any order | nothing lost, nothing shown that is not the finished run, receipts permanent, pointer never back |
| Checkpoint log (`checkpoint*`, `freeze_evidence`) | numbered checkpoint files, `frozen-evidence.json`, staged artifacts | append under lock, plain or compare-and-set; freeze; `stage_artifact` | orchestration, validation, publication | callers decide on a lockless read; artifacts are immutable once staged | legal stage sequences only, cutoff immutable, a lost race is refused |
| Lease (`acquire_lease`, `heartbeat`) | one lease file per date | acquire over an expired lease, heartbeat by token | (not called by the publication path) | expiry against a late heartbeat | at most one live token |
| Lockless readers (`load`, `get_latest`, `list_runs`, `get_previous_research_run`) | none | multi-file reads without the run lock | report and history tools | directories move between two reads | what is returned was true at some moment |
| Orchestration (`application/premarket_preparation.py`, `run_service.py`, `preparation_service.py`) | none of its own | prepare, resume, time out, publish an operational failure | checkpoint log, collection, publication | crash and resume at every stage, run-window edges | a run reaches one publication or stays resumable |
| Validation and publication (`application/publication_service.py`, `domain/validation.py`) | validation attempts, checkpoints | `validate_staged_brief`, `publish_validated_brief`, `publish_reduced_report`, `publish_operational_report` | checkpoint log, storage | three kinds of publication racing on one run, retries up to 3 | one kind wins; retry is idempotent |
| Collection and quality (`collection_service.py`, `quality_*.py`, `prior_research.py`) | staged evidence artifacts, cutoff | collect, freeze, evaluate quality | source adapters, checkpoint log | crash between artifact, freeze and checkpoint | evidence never changes after the cutoff |
| Run windows (`domain/market_calendar.py`) | none | which invocation is allowed when | orchestration | boundaries of the session, early closes | windows partition the day |
| Watchlist and portfolio (`config_service.py`, `adapters/yaml_config.py`) | one YAML file and its staging file | read, change, validate, replace | CLI, MCP | a lock per process only, a shared staging name | no lost update inside one process |
| HTTP client (`adapters/http_client.py`) | one pending host resolution, shared; attempt, redirect and time budgets per call | `request` by several threads | source adapters | a resolver or a server that answers late or never, retries and redirects together | a call ends, in time, on addresses resolved for it |
| Source adapters (`adapters/alpaca.py`, `sec.py`, `alpaca_news.py`, `macro.py`, `company_ir.py`, `events.py`) | an identity cache; otherwise none | fetch instruments, bars by pages, prices; collect and merge events | HTTP client, collection | partial, repeated and conflicting answers, rows of the future, one source of several failing | complete or refused; nothing later than the cutoff; an outage is not "no events" |
| Source health and quality (`source_health.py`, `domain/quality.py`) | none | which capabilities remain, for the run and per symbol | collection, plans | failures of several kinds at once | no hole hidden; never contradicts itself |
| Regime, setups, ranking (`domain/regime.py`, `setups.py`, `eligibility.py`, `indicators.py`, `scoring.py`) | none | classify, detect, rank | packet, plans | boundaries, missing series, a ranking of a ranking | fails closed; one plan per exposure; a verdict on every symbol |
| Plans and observations (`domain/plans.py`, `sizing.py`, `observations.py`) | the plan of a packet, seen again by later runs | build, size, expire, observe | run windows, quality, prior research | judged twice, expired several times, observed over more and more sessions | built before its session, within the risk policy, ended once, history stable |
| Briefs (`domain/validation.py`, `application/report_renderer.py`, `evaluation/citation_sampling.py`) | none; attempts are in the checkpoint log | validate a draft, render it, sample claims for review | publication, feedback, scorecard | a graph of claims checked one by one, three readers of the same references | what is shown rests on the packet; what is accepted can be shown and reviewed |
| Agent runtime (`agent/`) | transcript, step counter | bounded model and tool loop | tools | the last step, failing tools | bounded steps, every call answered |
| Release evidence (`scripts/collect_release_evidence.py`, `adapters/shadow_evidence.py`) | lock file with pending sources, one watermark per commit, immutable batches | collect, read | GitHub Actions, scorecard | death or a refused write between any two files | an unfinished collection hides older results |
| Feedback and shadow records (`feedback_service.py`, `shadow_evidence_service.py`) | append-only records | record a review, a day, a correction | published runs | anything may be appended at any time | never overwritten |
| Scorecard and gates (`evaluation/shadow_scorecard.py`, `shadow_evidence_loader.py`) | none | ten gates over all records | the records above | what a later record can change | nobody reviews a day into a better score |
| Deterministic evals, replay (`evaluation/harness.py`, `release_gates.py`, `application/replay_service.py`, `evals/`) | none | compare recorded with expected output | CI | none of this kind | sequential |
| Schemas, settings, entry points | none | validation of fields, dispatch | all | none of this kind | out of scope |

## 2. Plan

Modules in the order of the plan; groups 1 to 4 exist.

1. `RunStore`, `PublicationLedger`, `RunStoreProofs` - storage and publication,
   the abstract record readers rely on, and the proofs. Everything else ends in
   this component and its failures are the hardest to test.
2. `CheckpointLog`, `RunLifecycle` - one run's checkpoint log with the
   acceptance rules of `_checkpoint_unlocked`, and the services as actors that
   read without the lock and write later. `RunEvidenceProofs` proves what is
   said of the evidence, `RunOutcomeProofs`, on top of it, what is said of the
   final checkpoint, the attempts and the publication.
3. `HttpClient`, `HttpClientProofs` - concurrent calls under a run deadline.
4. The research of a run, in the order it happens: `MarketData` and, extending
   it, `DataQuality`; `EventEvidence`; `Regime`; `SetupDetection`;
   `CandidateRanking`; `TradePlan`; `BriefValidation` and, extending it,
   `CitationSampling`. And what outlives a run: `ReleaseEvidence`,
   `ShadowScorecard`. `MCResearch` and `MCRecords` put them together for TLC.
   `ResearchProofs` (collection, quality, event evidence, setups, ranking),
   `TradePlanProofs`, `BriefProofs` (briefs and their samples) and
   `ReleaseEvidenceProofs` (release evidence, scorecard) prove about them.
5. Left: `RunReaders` (the lockless readers against `RunStore`, one file at a
   time), `Watchlist` (processes updating one YAML file), and their proofs.

## 3. RunStore

One market date of `FileSystemRunRepository`. Each process is a program
counter (`pc`), the local variables of the operation it is in (`job`) and the
run lock (`lock`); each action is one durable file-system step.

| Model | Code |
|---|---|
| `staging`, `final`, `orphan` | `runs/<date>/.staging/<id>`, `runs/<date>/<id>`, `diagnostics/orphans/<date>/<id>` |
| a directory's `phase` | absent; exists; its last checkpoint is `PUBLISHED` ("sealed") |
| a directory's `ctx`, `bundle`, `report` | the run that `run.json`, `bundle.json` and `report.md` are about |
| `index`, `latest` | `index.json` (hash pair as the run, `published_at`), `latest.json` |
| `Allocate`, `MakeStaging`, `WriteContext` | `allocate_revision`, `_create_unlocked` |
| `Seal` | `_checkpoint_unlocked` writing the final checkpoint |
| `Publish` ... `Return` | `_publish_atomically_unlocked` in the order of its writes |
| `Quarantine` | `_quarantine_orphan`, including its refusal |
| `Recover` | `recover_interrupted_publication` |
| `Fault` | an OSError at any step: before the rename it ends the operation, after it the quarantine runs |
| `Crash` | the death of the process; the operating system releases its flock |

`_atomic_write` (temporary file, fsync, replace) is one step: a crash leaves
the old or the new content. `created`, `clock` and `faults` are history and
bound variables. Not modelled here: `create()` as an entry point of its own
(allocation is its only caller in the program), symbolic-link checks, corrupted
file contents.

`PublicationLedger` is what readers are promised: receipts issued once, a
publication withdrawn or shown again but never replaced, a pointer that only
advances. `RunStore` implements it with the mapping in `Ledger`.

### Runs

| Run | What it shows |
|---|---|
| `run_store` | 2 processes, 3 run contexts, 3 revisions, 2 faults: the inductive invariant with the types in it, nothing lost (`RunsKeptOnce`), readers see the finished stored run (`ShownRunIsTheStoredRun`), permanent receipts, pointer monotone, settled publications stay; it implements `PublicationLedger`; an operation ends and gives the lock back, whichever writes fail |
| `latest_is_newest` | a statement of the premarket design document that the code does not keep; TLC shows how (PROJECT.json, findings) |

Bounds. Three revisions are the fewest with an order of publication that would
move a careless pointer back past another one; a third run context lets a
quarantined number be given out again while another is in use; two faults,
failed writes or crashes, are enough for a failed publication and the failed
recovery of it. Two processes suffice for any race on one lock. No symmetry is
declared, because the run also checks liveness.

Deadlock is not checked: every revision may be published and every run context
used, and then nobody has anything to do.

Fairness: weak fairness of each process's next step
inside an operation. The code has no waiting inside the lock, so a live process
goes on; nothing is assumed of callers or of faults.

Seen while modelling and left without a run: a quarantined revision's number
is given to another run, since `_existing_revision_ids` does not look into
`diagnostics/orphans`; a failed `latest.json` write quarantines a run whose
receipt stays in `index.json`; a crash between the rename and the index write
leaves a final directory that is no publication.

## 4. CheckpointLog and RunLifecycle

One run, from its allocation to its publication. `CheckpointLog` is its durable
record and the rules by which the repository accepts another checkpoint;
`RunLifecycle` adds the processes of `application/`: *preparers* inside
`prepare_research_packet`, *hosts* inside the validation and publication
services. They share nothing but that record. Each action is one load, or one
durable write under the run lock, with the decisions that follow it.

| Model | Code |
|---|---|
| `log` | `checkpoints/NNNN-<stage>.json`: stage, statuses, cutoff, bound artifacts |
| `staged` | `artifacts/<name>.bin`; an artifact is `<<name, contents>>` |
| `cutoff` | `frozen-evidence.json`; the completion time of the frozen collection, hence that collection |
| `bundle` | what `publish_atomically` published (its own steps are those of `RunStore`) |
| `Accepts` and its parts | the named rules of `_checkpoint_unlocked` |
| `Stageable`, `Stage` | `stage_artifact`: immutable, idempotent for the same bytes |
| `Current`, `Bind` | `checkpoint_if_current`, or `checkpoint` when it is not asked |
| `seen`, `cut` in `job` | the `StoredRun` a call loaded, possibly stale when used |
| `Prepare` ... `FreezeConfiguration` | `prepare_premarket_run` |
| `Dispatch` | `prepare_research_packet` up to its try block: missed window, staged packet, staged failure, or go on |
| `SelectPrior` ... `BindPrior` | `freeze_prior_research` |
| `Collect` ... `SealFreeze` | `collect_and_freeze_market_data_for_run`; `FreezeEvidence` and `SealFreeze` are the two files of one locked `freeze_evidence` |
| `EvaluateQuality` ... `BindQuality` | `checkpoint_collected_market_data_quality` and `checkpoint_market_data_quality` |
| `BuildPacket` ... `BindPacket` | `build_research_packet`, `stage_research_packet` |
| `Reload`, `Fail`, `BindFailure` | the handler of a timeout or outage, `_operational_failure` |
| `LoadForReport` ... `BindReport` | `publish_operational_report` |
| `Validate` ... `BindAttempt` | `validate_staged_brief` |
| `LoadForBrief`, `BindBrief` | `publish_validated_brief`, which renders the draft before it stages or binds anything |
| `Reduce` ... `BindReduced` | `publish_reduced_report` |
| `WindowCloses`, `DeadlinePasses`, `Outage`, `Crash` | time, the calendar library, the death of a process |

Abstracted. Timestamps appear only in one rule that they decide: a freeze is
refused after a failure or a publication, which are written later than the
collection completed. Telemetry artifacts and the delivery status are left out
(neither decides a step). PASS and DEGRADED are one status. The packet and the
reduced report are functions of the frozen collection. INTERNAL_ERROR (a packet
over budget) is merged with the calendar outage: both reach the same handler.
Which briefs are valid is the constant `Valid`, and which of those can be
rendered the constant `Renderable`: a draft recorded as valid whose section
names a claim it does not have makes the renderer raise (section 6). A call that
raises ends like one that returns: nothing is undone.

### Runs

| Run | What it shows |
|---|---|
| `lifecycle_preparers` | 2 preparers, 1 host, 2 possible collections, one of them with a provider deadline, one fault (an outage, or a death between the two files of a freeze): the evidence is frozen once and everything published is about it (`EvidenceFrozenOnce`, `OneEvidence`), failed quality is never synthesized, the bundle is what the log says |
| `lifecycle_hosts` | 1 preparer, 2 hosts, 3 drafts of which one is valid, and renderable: attempts numbered in order and at most three, and after the freeze nothing follows the final checkpoint |
| `lifecycle_live` | 1 preparer, 1 host, 4 drafts (a good one, one that is valid and cannot be rendered, two invalid), one outage or one crash at a resumable step: repeated calls publish the run, unless the valid brief recorded cannot be rendered; types under crashes |
| `ends_without_checkpoint`, `ends_half_frozen` | the same property with a crash at one other step: the run can never be finished |
| `failed_run_not_synthesized` | before the freeze a slow preparer revives a run that was recorded as failed |

Bounds. Two processes of a kind are the fewest that race; a third adds only
another loser of the same compare-and-set. A process that stops forever is in
every behaviour, which is a crash wherever no lock is held; the one step inside
a lock that another process could observe half done is the freeze, and there
the crash is an action. Two collections let two preparers fetch different data.
Three renderable or invalid drafts allow three different attempts and a repair
that succeeds at each of them; the draft that cannot be rendered may come in
place of any of them.

What does not end. `PreparedRunEnds` excepts the run whose recorded valid brief
cannot be rendered. Publishing it raises before anything is staged
(`publication_service.py:308`, `336`), a further attempt is refused after a valid
one, and so is a reduced report (`413-414`). No call of a host publishes such a
run; only an operational report does, once the window is missed. The exception
is part of the property, and nothing else is excepted.

Deadlock is not checked: a published run, or one whose market date is over, is
left alone.

Fairness (`lifecycle_live` and the `ends_` runs). A preparer is invoked again
and goes on (the scheduler and the documented retries call it), so weak fairness of its
steps; a host that can validate or reduce again and again eventually does each
(strong fairness per renderable draft and per reason, because another process may
disable the step in between). No invalid or unrenderable draft is owed. Time is not fair: the window may stay open forever, so the
property asks that calls alone finish the run, without waiting for its date to
be over.

Crash points. `Resumable` in `MCRunLifecycle` lists the steps before which a
crash is harmless. The others are not in it because TLC finds a run that cannot
be finished: before the first checkpoint; between the two files of the freeze;
after the packet is staged and before it is bound, if the window is then
missed; after DEADLINE_EXCEEDED is staged and before its report is published,
if the window is then missed (MISSED_WINDOW has other bytes); after a reduced
reason is staged and before it is bound, if three invalid briefs are then
recorded (the required reason has other bytes; the run then waits for the
window to be missed). The first two have runs of their own.

## 5. HttpClient

Calls of one `SafeHttpClient` that has a run deadline, from different threads.
The client's only shared state is `_pending_resolution`: the host resolution
that runs in a thread of its own, because the system resolver has no timeout.

| Model | Code |
|---|---|
| `clock`, `Tick` | the injected clock; any time may pass before any step |
| `pending`, `resolution` | `_pending_resolution` and the `_PendingResolution` objects, each named by the call that created it |
| `request[c]` | the locals of one call: attempt, redirects, the resolution it waits for, ... |
| `Admit` | `request`, `_validate_request`: validators as one verdict "rejected" |
| `JoinResolution`, `ResolverAnswers`, `AwaitResolution` | `_resolve_addresses`: under the lock, in the worker thread, and the bounded wait; a host in `Literal` is an address and is not resolved; an error of the resolver that is no OSError reaches the caller as it is ("raised") |
| `Send` ... `TransportFails` | the loop of `_request_with_observer`; `RetryStatus` for 429 and 5xx, the last of which is read as a response |
| `BackOff`, `WakeUp` | `_sleep_before_retry`, which gives up at once when the sleep would end too late; the sleeper may return at any time, as the default one, which does nothing (`http_client.py:442`), does |
| `BudgetExpires` | `_DeadlineBudget` around every blocking socket operation |

A redirect follows the address resolution of the first request, since redirects
to another host are refused. Content types, sizes and URLs decide only between
"rejected" and going on.

Run `http_client`: two calls, one with a deadline before and one after the
run's, three hosts, one of them a literal address, two attempts, one redirect,
three ticks. A response is in time and, from a named host, pinned to addresses
resolved for this call's host after it began (`ResponseIsTimelyAndPinned`); attempts and redirects together bound the
requests (`SendsAreBounded`); one resolver thread (`OneResolverThread`); every
call ends (`EveryCallEnds`). Two calls suffice to share, to miss and to outlive
a resolution; two attempts and a redirect are the fewest that interleave.

Fairness: the clock advances and a call's own steps are taken (its thread is
scheduled, its waits have a timeout). Nothing is assumed of servers and
resolvers: in particular no answer is owed. Deadlock is not checked: all calls
end.

## 6. The research of a run

Two modules initialise all their parts and let one of them move, so that a run
checks several: a product would only interleave parts that share no state.
`MCResearch` has the market data with their quality verdict, the event
evidence, the regime, the setups and the ranking; `MCRecords` the plan, the
brief with its review samples, the release evidence and the scorecard. Each is
a sequential piece of the program; what makes it hard is what surrounds it.

| Module | One action per | The surroundings are | Bounds of the run |
|---|---|---|---|
| `MarketData` | step of `collect_market_data`, page of `fetch_daily_bars` | any answer of the provider; time between any two steps | 2 interchangeable symbols and an unrequested one, 2 expected sessions of 3 days, 2 closes, 2 bars a page and, as there is one token, at most two pages (more only in the proof); one failure of a request, since all are treated alike |
| `DataQuality` | evaluation of the finished collection | sources asked again | 2 configurations of roles, 4 reports of each |
| `EventEvidence` | source read, provider that raises | rows with any times; an outage of any source | 5 sources, 1 or 2 rows each; one failure of a request |
| `Regime` | change of one symbol's history, and recalculation | histories of any shape, also over other sessions than SPY's | 9 symbols (XLC has no vote but can be misaligned), 2 to 6 shapes |
| `SetupDetection` | completed session, assessment | closes in any order, up to two objections | windows of 1, 3 and 4 sessions, 3 prices |
| `CandidateRanking` | candidate scored, ranking made | correlations and regimes of any kind, rankings of rankings | 4 candidates of 3 symbols, 2 scores |
| `TradePlan` | invocation, plan, expiry, observation, passing of a sixth of a day | bars, reasons and inputs of any kind | days 1 to 4 with one closed in between, 3 prices |
| `BriefValidation` | part of a draft written, validation, rendering | a model that writes any of the forms and places it anywhere or nowhere | 1 to 3 parts from 15 claims, 2 narratives, 1 warning; 3 frames |
| `CitationSampling` | review sample | hashes in any order | samples of 2 from at most 3 claims |
| `ReleaseEvidence` | write of the collector | any answer of GitHub; a crash or a refused write at each step | 2 collectors, 1 commit, 2 attempts, 2 Python versions |
| `ShadowScorecard` | record appended | any record | 4 records of a 2-day period |

Why these bounds are enough: two symbols or two collectors are the fewest of
which one can disturb the other; two sessions, two attempts, two scores and two
records of a kind the fewest that can be confused or swapped; windows of
different lengths keep their order (short < middle < long); and each limit of
the code (caps, thresholds, minimum counts, ages) lies inside the values, with
values on both sides of it. Where the size of a policy matters to a statement
it is a constant with an assumption the policy's own validator enforces.

What the properties say:

- *Collection.* A symbol has bars exactly when the pages, however cut and
  repeated, hold one well-formed bar per expected session
  (`BarsAreACompleteHistory`), and everything in a collection was read in it
  (`CollectionIsOfOneReading`). A hole reaches the capabilities it takes away
  (`NoHoleIsHidden`) and the result satisfies its validator
  (`QualityIsCoherent`), which otherwise would stop the run with an exception.
- *Events.* `NoEvidenceFromTheFuture`; `DraftMeansCalendarsWereRead`: a draft
  needs every required calendar read to its end.
- *Regime.* One series other than SPY and QQQ does not turn the market from
  permissive to defensive (`OneSeriesIsNotARegime`); losing data never reveals
  a regime (`LosingDataRevealsNothing`). QQQ alone can turn it.
- *Setups.* A proposed stop is below the price it was confirmed at
  (`StopIsBelowTheMarket`). `assessment_concludes` shows the one assessment that
  raises: a breakout over a resistance that is below the average its stop comes
  from.
- *Ranking.* `RankingForgetsTheLast` and `OnePlanPerExposure`.
- *Plans.* `SizedWithinPolicy`, `PlanPrecedesItsSession`, `ExpiryIsFinal`,
  `ObservationIsStable`.
- *Briefs.* `ReportIsGrounded`: every claim in a report leads to evidence or
  metrics of the packet through whatever supports it, its numbers are the
  packet's for that field and unit, and narratives and disabled capabilities
  are shown with what belongs to them. The validator looks at one claim at a
  time; only its walk over the graph excludes inferences that rest on each
  other. `PublishedBriefIsReviewable`: nothing that is rendered makes the
  sampler raise, and an accepted draft fails to render for one reason only.
  `SampleIsTheBest`: the sampler's dynamic program finds what a search over all
  samples finds.
- *Release evidence.* `StaleEvidenceIsNeverRead`: from the announcement of a
  collection to its end nothing older is read, however it ends, provided that
  the collection left any trace: its marker, a lock file emptied by a refused
  write, or an older status removed, torn or replaced.
- *Scorecard.* `LaterReviewsCannotRescue`: after a complete review of a day's
  report a further one improves no gate but the one for citations, which counts
  the supporting verdicts of all reviews. A reduced publication belongs to the
  publications this gate looks at and needs no verdict. A verdict is only ever
  recorded on a claim of the brief under review: the recorder refuses any other
  (`feedback_service.py:145-192`), so the gate's branches for reviews outside the
  sample are never reached through the program.

Briefs use a packet of three items, one metric, one blocked plan, one excluded
symbol and one disabled capability; the forms have, for each of four ids, right
claims and claims wrong in one respect, so that a chain, a circle and a
plan with its narrative fit into three parts next to the exclusion every valid
draft must mention. No candidate is in that packet, as in every packet the
program builds now.

Left out of the scorecard: publications with an invalid context, the
deterministic review of artifacts, and legacy reviews merged with others. The
refusals of a period for unpublished runs and for records older than their
publication do not arise, because the recorder checks the first and stamps
records with a clock that does not step back. What refuses a period in the model
is a reference, of a run or of a review, of another market date.

Abstracted. A text is what the validator's expressions find in it. An issue is
its code, since any issue rejects the draft: messages, order and the limit of
2000 are left out. The code's walks over the claims (a depth-first search for
circles, two lists of pending ids) are what they collect: the least set of
claims that holds the first ones and everything that supports a member. A
structured value is its leaves. The two spellings of a structured field (`field`
and `value`, or the name itself) are one. A packet's references are consistent,
as `premarket_preparation.py` makes them (`build_research_packet` does not
check): a metric is made from evidence that goes into the same packet. Prices and quantities are small integers and quotients are
multiplied out, so the decimal context's rounding to 28 digits is not seen. Time
has the grain of the distinctions the code makes (quarters or sixths of a day).
Sessions all open and close at the same time. Snapshots enter the regime as the
metrics it compares. How a candidate's points are computed is left out: any
number of points may come. Records of one kind have distinct times, and the
clock that stamps them and judges plans does not step back, so no plan is
expired at a time before its last assessment. The code counts the days of a
plan's life in UTC (`plans.py:196-204`); that a daylight-saving change in between
moves the hour in New York is left out. The bar of a closed session is not
revised. A quality evaluation that raises (a mandatory role whose provider reports twice,
`quality.py:228-231`) leaves no verdict; the reader of configured source health
raises for roles other than market data and calendar, so no report of those
comes from it. Deadlock is not checked: collections
end, periods fill up. No fairness is assumed; the properties are safety.

Seen while modelling and left without a run: `validate_research_brief` collects
the claim ids of the sections (`validation.py:475-477`) and never looks them up,
so a draft whose section names a claim it does not have is valid;
`render_markdown_report` then raises KeyError (`report_renderer.py:75`), the
reduced report is refused because a valid brief is recorded
(`publication_service.py:414`), and the run cannot be published, although the
design document (`2026-08-19-ai-market-research-agent-premarket-design.md:641`)
renders the report from the validated draft. In the model this is the first part
of `PublishedBriefIsReviewable`: the state is reached, and it is the only such
one. It is also the exception of `PreparedRunEnds` (section 4). An inference about one symbol may also state a number it inherits from a
supporting claim about another, for the same field and unit; the configured
health reader
supports only the market-data and market-calendar roles, and without the other
two roles in the policy every plan stays blocked; `calculate_regime` never
raises critical stress although the design document mentions it; a run reference
of another market date is accepted with a shadow observation and refused by
every later load of the period, and so is a review of another market date; a release collector that dies right after it
created the lock file, or is refused the write after the truncation, leaves a
file that no later collector repairs, so release evidence stays pending. A collector that is refused the marker before
it truncated the lock file, and then both the removal and the rewriting of the
older status (`shadow_evidence.py:357-373`, `collect_release_evidence.py:666-673`,
`737-738`), has changed no file: the older result stays readable, although
`docs/operations/release-readiness.md:110-114` says that readers cannot fall back
to an older PASS batch. Marker and status are the only two ways to hide it, so
no reader could tell; that is why `StaleEvidenceIsNeverRead` speaks of a
collection that left a trace. A
correction may erase an incident, by design.

## 7. Proofs

`RunStoreProofs` proves, for any finite or infinite set of processes and run
contexts, any `MaxRev >= 1` and any `MaxFaults`, from the four named assumptions
on the constants alone:

- `Invariance`: `Spec => []IInv`. The safety properties are not inductive: what
  a step does depends on the lock holder's locals, so `IInv` adds that only the
  holder is inside an operation (`LockInv`), what a directory can hold
  (`DirInv`: never staged and final at once, whatever was renamed is complete),
  what the locals say of the files at each step (`JobInv`) and that receipts
  name runs created for their revision (`IndexInv`). One lemma per action.
- `TypeCorrectness`, `NothingLost`, `ShownIsStored`: consequences of `IInv`.
- `ReceiptsArePermanent`, `LatestAdvances`, `SettledIsKept`: action properties,
  each from `IInv` and the one or two actions that write the variable.
  `LatestAdvances` needs that a non-empty set of revisions has a largest
  element (`MaxExists`), proved from the well-foundedness of strict inclusion
  on finite sets.
- `Refinement`: `Spec => Ledger!Spec`: the rename is `ShowAgain` or a stutter,
  the index write `Issue`, the latest write `Advance`, the quarantine
  `Withdraw`, every other step a stutter.

`RunEvidenceProofs` proves, for any preparers, hosts, drafts and collections,
what is said of the evidence of a run: `TypeCorrectness`,
`EvidenceIsFrozenOnce`, `EvidenceIsOne`, `FailureStaysOperational`. None of
them is inductive, because a call decides on a run it loaded without the lock
and writes later. `IInv` says three kinds of things:

- of the record (`RecordOK`): what the log, the staged artifacts and the cutoff
  file say together, for instance that a checkpoint with a cutoff carries that
  of the file, and that an artifact about evidence is about the frozen one;
- of every call (`CallOK`): what it knew when it loaded the run and no write of
  anyone undoes, because the log and the artifacts only grow. This is why a
  stale view is harmless: a call's cutoff is none or the run's, and the
  artifact it is about to bind is the one staged;
- of the freeze (`SealOK`): the two files of a freeze are written under the one
  lock that spans two writes, so at most one process is between them and
  nothing was appended meanwhile.

`RunOutcomeProofs` continues it:

- `FinalIsFinal`: `Spec => FinalCheckpointIsFinal`. No invariant is needed: each
  of the five rules that `Accepts` applies after the cutoff excludes a log whose
  last stage is PUBLISHED (`FinalAcceptsNothing`), and every append goes through
  `Accepts`, so it does not matter how stale the caller's view of the run is.
- `AttemptsStayInOrder` and `PublicationIsTrue`, from a second layer
  `OutcomeInv` on top of `IInv`: attempts are staged under consecutive numbers
  and bound in that order, a reduced reason fits the attempts it was decided on,
  and a call that has decided to publish has a reason in the record that no
  other process can take away before it writes.

`HttpClientProofs`: three of the client's properties for any set of calls and
hosts and any deadlines and limits (`ResponsesArePinned`, `SendsBounded`,
`OneResolver`), from `HttpAssumption`: limits are naturals, at least one attempt
is allowed, there is a host. They follow from the inductive `HttpInv`. The
properties are not inductive, because they speak of what was already sent or
returned: `HttpInv` adds what a call may rely on before it sends. Wherever the
next step may send, fewer requests were sent than attempts and redirects allow
(`Budgeted`); from the moment a call waits, the resolution it waits for is of
its own host and, once answered, not older than the call (`Shared`; a literal
address waits for none); and a call
resolves at most once, only the pending resolution is running (`Worker`). One
lemma says that a call that advances disturbs no other (`Advances`); every
action lemma rests on it.

`ReleaseEvidenceProofs`: `StaleEvidenceStaysUnread`, for any collectors,
commits, attempts and versions, a crash or a refused write between any two
files, the marker's refusal before the truncation included. It is about the last
collection of the source that a file shows: one that marked the source, left the
lock file unreadable or changed the status. A collection that was refused all
three has changed no file, so no invariant over the files can tell it from one that
never ran (section 6, the last paragraph). `ReleaseInvariance` states the
invariant itself. Assumed is that there is a version to collect (`PYTHON_VERSIONS` is not
empty; without it an empty set of receipts would count as complete). The
invariant needs four parts: the lock has one holder and the holder is where it
says (`LockOK`); the lock file has one creator, before whom no watermark is
settled (`CreationOK`, which covers the collector that dies between creating
and initialising it); what the holder has reached at each step (`WorkOK`: a
collector that goes on past its first watermark has marked the source, and one
that only announced it may not have); and
that an open collection is hidden while a concluded one is what the watermark
names (`EvidenceOK`).

The same module proves `ReviewsNeverRescue` of the scorecard, for any period,
records, limits and corrections: `LaterReviewsCannotRescue`. Six gates look at
no review at all (`GatesWithoutReviews`); the review times and the usefulness
look at the first complete review of each day, which a later one does not
replace (`FirstReviewStays`, since reviews are appended); the executive gate
looks at all reviews, and one more can only add a mismatch
(`ExecutiveIsNotRescued`, which needs that the day has an identification
already). A median or a sum over the days is never computed: it is the same
function of the same reviews.

`ResearchProofs`: `CollectionStaysOfOneReading`, `BarsStayComplete`,
`QualityStaysCoherent`, `HolesAreNeverHidden`, for any symbols, trading days,
closes, tokens, roles and health reports. The invariant says what a collection
holds at each stage (`StageOK`): the identities before the bars, the bars
before the prices, no result stamped later than now. A finished collection
changes no more, so that a verdict stays one on what was collected
(`VerdictOK`). Pages are read any number of times; the proof needs only that
the records stay a finite set of records the provider served.

`TradePlanProofs`: `PlanStaysBeforeItsSession`, `SizeStaysWithinPolicy`,
`ExpiryStaysFinal`, `ObservationStaysStable`, for any calendar, policy, prices
and lifetime. Assumed of the policy is what the validators of `RiskPolicy`
enforce (`domain/policies.py:210-254`). `ObservationIsStable` compares two
observations, so the invariant has to speak of the bars both were made from
(`SeenOK`): the last observation still equals what the bars through its session
say now. That survives a later expiry only because an expiry leaves every
session that had closed eligible (`ExpiryOK`), and later bars because the bar
of a closed session is never revised. The rounding of sizes rests on lemmas
about integer division.

Of the event evidence it proves `EvidenceIsNeverFromTheFuture` and
`DraftHasReadTheCalendars`, for any sources in any order without repetition,
any answers and any cutoff. The event invariant `EventInv`
says that only sources already read have items, that each source is read at
most once, and that the macro provider raises for all its calendars or for
none: the verdict ignores sources that raised, so a draft would otherwise be
possible with half of the calendars lost. The verdict looks at merged records,
and one verified record makes its group verified: a draft is clean
(`DraftIsClean`) because what can be unverified is news, which never has a
verified record beside it, or the one page of the company.

Of the ranking, `RankingStaysForgetful` and `OnePlanStaysPerExposure`, for any
candidates, correlations, thresholds, penalties and caps. A ranking changes
only what `WithoutCorrelationPenalty` resets (`RankingKeepsTheScore`), so a
ranking of a ranking starts from the scored candidates. For the groups, `Waves`
grows a set of candidates until nothing is added; as many waves as there are
candidates suffice, since each adds one or is the last, so what is reached is
the least set closed under the links: two groups are equal or have no link
between them. A selected candidate is the best of its group and has fewer than `PlanCap`
eligible ones ahead of it; the order is total and without ties (`SortKeyRanks`),
so whoever is first in it can be taken away again and again (`FirstOnes`), and
there are at most `PlanCap` such candidates. Assumed is that points, thresholds,
penalties and caps are naturals.

Of the setups, `StopStaysBelowTheMarket`, for any closes, windows, buffer and
tolerance that `SetupAssumption` allows (positive, short < middle < long). `SetupInv`
adds to the property only that closes are prices. The rest is arithmetic over
sums: an average is a number, no true range is negative, hence neither is their
sum nor the buffer (`TrueRangesSum`), and the price confirmed is above what the
buffer is taken from, for either kind of setup (`ConfirmedIsOverItsStop`).

These arguments are inductions, and the library states induction with an
operator as a parameter, which the provers cannot instantiate. They are carried
out by the least counterexample instead: the set of numbers for which a
statement fails has a least element (`LeastExists`, from the well-foundedness of
the order on the naturals), which is not 0 and whose predecessor leads to a
contradiction. That a recursive function satisfies its own equation is
shown in the same way, from partial solutions up to n (`IsWaves`, `IsSum`).

`BriefProofs`: `ReportStaysGrounded`, `PublishedBriefStaysReviewable` and
`SampleStaysTheBest`, for any packet, any forms of claims and narratives, any
number of parts, any hashes and any size of a sample. `BriefInv`
says that a draft is one the model's schema accepts, that the issues are the
validator's for just this draft, and that a report is what the renderer makes of
it when there is none. What follows from the absence of issues is
collected once, for the draft (`ValidDraft`) and for a claim (`ValidClaim`).

- A claim leads to a source: among the claims it reaches, one with the fewest
  claims below it would, if it had a support, have one with fewer below it,
  because without a circle a claim is not below its own supports
  (`SomeClaimRestsOnNone`). That claim has no supports, so by the rule for its
  type it cites evidence or metrics, which are the packet's
  (`SomeClaimHasASource`).
- A number of a claim is bound, and a binding is the packet's, be it the claim's
  own or inherited from a claim of its field and unit (`BindingsAreInPacket`).
- A narrative's claims are about its plan and a plan's claim repeats the plan's
  status and counter-evidence (`NarrativeIsGrounded`). The sections
  are exactly those required, one of them lists the disabled capabilities, and
  the explanations name all of them (`DisabledIsDisclosed`).
- What the sampler looks up, the validator or the renderer has looked up before:
  the ids of sections the renderer (it raises otherwise), those of narratives and
  supports and the citations the validator (`ShownIsReviewable`).

- The sampler keeps, of the candidates so far, one state for each number of
  claims, set of types and tier anchor, and the property compares its result
  with every set of candidates of that size. After any number of candidates
  (`HoldsTheBest`) every state stands for a set of them, and every set of at most
  the size has a state of its key that it is not preferred to. One
  more candidate keeps that (`AdvanceHoldsTheBest`): a set with it is
  a set without it and one more, a candidate that joins two sets of one
  key leaves them with one key (`KeyWithOneMore`), and it does not change
  which of them is preferred (`AheadWithOneMore`), because the first candidate by
  hash that they do not share decides (`FirstDifferenceDecides`). Nothing is
  lost when the worse states of a key are dropped, nor by taking an undominated
  state at the end: preference is a strict order, and a finite set has an
  element nothing is preferred to (`SomeIsOnTop`). That the
  contexts returned name each chosen claim once needs that the review order
  exists (`ReviewOrderIsComplete`).

`SamplingAssumption` says that the size of a sample is a natural number, every
type has a place in the order of the types, and an authority tier is a value.
`BriefAssumption` says of the constants what the code enforces: the four types
of claims, a narrative has a claim (`PlanNarrative.claim_ids`,
`validation.py:125-130`), metrics are made from evidence of the packet
(`premarket_preparation.py:606-660`), and one of the required sections lists what
is disabled.

Only model-checked:

- `LockIsReleased`, `PreparedRunEnds` and `EveryCallEnds`: liveness, outside the
  prover's reach, like the violated statements about ends.
- `OneSeriesIsNotARegime` and `LosingDataRevealsNothing`: they are true of the
  numbers the code has (the weights 30, 25, 20, 15 and 10, the thresholds 35 and
  -35, the minimum counts of series) and not of all constants that
  `RegimeAssumption` allows; a theorem for all constants would need to assume
  what it says.

## 8. Not modelled

- The run lease: nothing in the program acquires it.
- The lockless readers at the grain of single files, and the watchlist file:
  later extensions (section 2).
- The agent runtime, the deterministic evals and the replay: sequential loops
  over given data without shared state or failure handling of their own.
- Validators of URLs, headers and payload fields, Markdown formatting, schemas, settings,
  command-line and MCP dispatch: formatting and parsing without control that
  another component depends on. Where a validator's verdict decides a step, the
  step has both outcomes.
- GitHub, the market-data and event providers, the resolver, the calendar
  library and the file system are external: they answer anything the code
  distinguishes.
