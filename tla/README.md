# TLA+ models of the AIRA platform

AIRA is a Python research-agent platform. These specifications cover the parts
of it that keep state and share it: the application layer (jobs, executions,
idempotency keys, cancellation), the trust files and the transparency log of
the audit tool, the planning agent, the multi-agent research team with its
message bus, and the pipeline of the single research agent up to the files of
its result. TLC checks them on small instances; TLAPS proofs about each of these parts hold
for every instance.

## 1. Inventory

### Components, state, operations

| Component | Source (`app/...`) | State | Operations |
|---|---|---|---|
| Job record, transition policy | `application/job_record.py`, `job_transition.py` | one record per job: status, version, attempts, timestamps, lease, failure, cancellation | validation, `active_at`, `available_for_queue_at`, `require_transition` |
| Job queue | `application/job_queue_service.py`, `in_memory_job_repository.py` | `_records`, one lock per repository method | `enqueue`, `enqueue_due_jobs`, `acquire`, `start`, `release`, `renew_lease`, `recover_expired_leases` |
| Cancellation | `application/cancellation_service.py`, `in_memory_cancellation_repository.py` | request per id; the job's `cancellation` | `request`, `acknowledge`, `complete` |
| Transaction manager | `application/in_memory_transaction_manager.py` | lock, `_active`, snapshots | `transaction` (snapshot, commit, restore in reverse) |
| Retry scheduling | `application/retry_scheduling_service.py`, `guardrails/retry_policy_evaluator.py` | none; creates the next attempt | `schedule`, `evaluate` |
| Idempotency | `application/idempotency_service.py`, `in_memory_idempotency_repository.py` | one record per (workspace, operation, key) | `begin`, `succeed`, `fail` |
| Executions | `application/{research,tool,workflow}_execution_service.py`, `in_memory_execution_repository.py` | one record per execution | `execute` |
| Research flow | `application/research_application_flow_service.py` | none; drives idempotency and execution in a transaction | `execute` |
| Trust state | `root_trust_state.py`, `manifest_trust_state.py`, `root_transition.py`, `signing_key_manifest.py`, `scripts/audit_report.py` | root state, manifest state and its retired copies as JSON files with lock files | initialise, apply transition, apply manifest, retire |
| Transparency log | `transparency_log.py`, `transparency_log_state.py` | the log, one line per entry; the state of its tip | register, require, export |
| Checkpoints, witnesses, quorums | `transparency_{merkle,checkpoint,checkpoint_state,witness,quorum}.py` | checkpoints, statements, one state file per witness, the verifiers' state file | create, prove, verify, sign, apply |
| Planning | `planning/` | plan with step statuses, attempt, cycle | propose, validate, activate, schedule, execute, complete, fail, skip, cancel, evaluate, replan |
| Registry, message bus, manager | `research/research_agent_registry.py`, `in_memory_research_agent_message_bus.py`, `research_manager_agent.py` | registered agents, messages, deliveries | register, unregister, publish, dispatch, receive, process, acknowledge, fail, cancel |
| Research team | `research/multi_agent_research_orchestrator.py`, `review_revision_loop.py`, the specialist agents | stage, the current assignment's inputs, rounds | one execution per agent, review, revise |
| Single research agent | `research/single_research_agent_pipeline.py` and the components it calls; `research_result_writer.py` | query, candidate, document, evidence and claim sets, evidence cache, search budget; the execution directory | search, read, select, build, verify, judge, replan, assemble, write |
| Reliability queries, evaluation and guardrail repositories | `application/reliability_query_service.py`, ... | read models, append-only stores | queries |
| Budgets, guardrails, caches, memory, tracing | `budget.py`, `guardrails/`, `rag/`, `memory/`, `tracing/` | counters, cache files, in-memory stores | reserve, charge, get, put, prune |
| Gossip, receipts, RAG, evals, reports, schemas | `transparency_gossip*.py`, `rag/`, `evals/`, `report_archive.py`, `audit_report.py`, `schemas/` | none shared | sequential transformation and verification of documents |

### Interaction

*Application layer.* A caller submits a job (`repository.create`). Worker
threads enqueue due jobs, acquire one under a lease, start it, execute it and
store its outcome; any thread may recover expired leases. The cancellation
service writes to the cancellation and the job repository, the retry service
reads a failed job and creates the next one. All of them meet in the job
repository, whose methods are atomic one by one: a service call is a sequence of
them, and `update(record, expected_version)` is the only protection between its
read and its write. The transaction manager serialises the callers that use it
and restores whole repositories when they raise; callers that do not use it are
not held back.

*Audit tool.* Every command is a process of its own. A state file is replaced
atomically under its lock file, but a command may read one file, append to the
log, and replace another file under another lock. Witnesses are other programs:
they see checkpoints and proofs only. Verifiers share a state file that
remembers the last checkpoint they accepted.

*Agents.* The planning loop, the research team and the single agent are
sequential programs around language models, tools and pages whose answers may be
anything. Their difficulty is the number of rounds, limits and early returns
that interact. The message bus is called by agents in any order while others
register and leave.

### What is hard

* a call decides on a record, or a command on a file, that another one replaces
  before it writes;
* leases expire, are renewed, released and recovered while calls of the former
  owner are under way, and every call brings its own `now`;
* batch operations list first and loop afterwards; a conflict abandons the rest;
* cancellation, retry, the research flow, the log, the witnesses and the result
  writer write several things one after another and may be stopped between any
  two of them;
* a rollback replaces repositories that other threads write to;
* `model_copy(update=...)` stores records that no validator has seen;
* two processes read the same trust state and go on under different locks;
* proofs for tree sizes that are not powers of two;
* a plan fails, is skipped or is replaced while other steps are ready;
* a coverage round of the pipeline replaces five sets that belong together and
  may have to take all of them back.

The list with lines is `hazards` in `PROJECT.json`.

### What makes each component correct

* queue: no update is lost; a job moves only along the transition policy; one
  worker at most executes a job; nobody but a recovery with an old `now` takes an
  active lease; stored records satisfy `validate_record` but for the marks of an
  earlier attempt; a due job is queued and an expired lease recovered; the calls
  implement an atomic lifecycle;
* cancellation: an attached cancellation has a stored request and a cancelled
  job a completed one, a cancelled job is not started, one active request per job;
* retry: a retry continues a failed, retryable job, attempts and delays are
  bounded, and so is the number of retries of one failure;
* flow: a key takes effect at most once, atomically; its result can be reused;
  nothing is left open; every call ends;
* trust state: roots form one chain and are logged before they are trusted,
  generations grow, a retired manifest state lies under its own epoch, the log
  names each artifact once and its tip is never ahead of it;
* witnesses: proofs verify exactly for prefixes; without interruption no witness
  and no quorum supports two histories; a verifier moves only along the log;
* planning: proposals are refused exactly when they should be, steps wait for
  their dependencies, finished work stays, enough cycles finish a plan, the loop ends;
* bus and team: an open message has exactly the deliveries it was published with,
  an approved report rests on the claims and every earlier review;
* single agent: the sets of the result belong to one round and pass every
  validator, a second search gives up a source only for a reason, a result is not
  installed before its report.

## 2. Modules

| Module | Models |
|---|---|
| `JobRecord` | the record, its validation, the transition table, the two sort orders |
| `JobLifecycle` | abstract specification: each job changes status in one atomic step, by its owner where it has one |
| `JobQueue` | `EXTENDS JobRecord`. The queue service called by worker threads |
| `JobQueueProofs` | TLAPS proofs about `JobQueue`: interleaving and refinement; stored records and leases |
| `JobCancellation` | `EXTENDS JobQueue`. The cancellation service beside the workers, with and without transactions |
| `JobCancellationProofs` | TLAPS proofs about `JobCancellation` |
| `RetryPolicy` | the retry evaluator as operators |
| `JobRetry` | `EXTENDS JobQueue, RetryPolicy`. The retry service beside the workers |
| `JobRetryProofs` | TLAPS proofs about `JobRetry` |
| `IdempotentOperation` | abstract specification of an idempotency key |
| `ResearchFlow` | the flow, idempotency and execution services, in a transaction |
| `ResearchFlowProofs` | TLAPS proofs about `ResearchFlow` |
| `TrustState` | root and manifest trust state, retired copies, transparency log and its tip, as used by the commands of the audit tool |
| `TrustStateProofs` | TLAPS proofs about `TrustState` |
| `Merkle` | `EXTENDS Loops`. The tree, inclusion and consistency proofs and their verification as functions |
| `Witness` | `EXTENDS Merkle`. Checkpoints of a log that may be restored from a copy, witnesses, quorum, verifiers |
| `WitnessProofs` | TLAPS proofs about `Merkle` and `Witness` |
| `PlanGraph` | the graph checks of a plan, with their reference definitions |
| `Planning` | `EXTENDS PlanGraph`. Planner output, lifecycle, scheduler, runner, evaluator, replanning loop |
| `MessageBus` | registry, bus and manager |
| `ResearchTeam` | the orchestrator and the review and revision loop |
| `ResearchPipeline` | the single research agent's run and the writing of its result |
| `AgentProofs` | TLAPS proofs about `Planning`, `ResearchTeam`, `MessageBus` and `ResearchPipeline` |
| `Loops` | loops of the code over numbers and lists as functions that facts can be proved about |
| `ListFacts` | TLAPS lemmas: induction over numbers, cardinalities, loops, appending, joining and filtering lists |
| `MCJobQueue`, `MCJobCancellation`, `MCJobRetry`, `MCApplication`, `MCTrustState`, `MCAudit`, `MCPlanning`, `MCAgents` | instances for TLC |

`MCAgents` puts `Planning`, `ResearchTeam`, `MessageBus` and `ResearchPipeline`
side by side, `MCApplication` `JobQueue` and `ResearchFlow`, and `MCAudit` `TrustState`
and `Witness`. The parts share no state, so a behaviour shows one of them and the
others rest; nothing is lost compared with separate models.

**How state and actions correspond to the code.**

*Queue.* `jobs` is the repository's `_records`; an id that is not stored has the
record `Absent`. `calls[c]` is the service call thread `c` is in: the records it
read (`seen`), the ones it means to store (`updated`), and for
`enqueue_due_jobs` the ids still to come (`due`). Each operation is a *read*
action named after it, whose guard is the call's checks, and a `Commit` per
write, which is `repository.update` with its version check. A call that raises
before it writes changes nothing and has no action. `executors` is the set of
threads that execute a job: from the moment `start` stored its record to the
moment the outcome is stored. The worker loop is not in the repository; `Report`
stores any outcome the transition policy and `validate_record` accept, `Crash`
and, after a cancellation, `Abandon` end the work otherwise.

*Cancellation and flow.* A call is a record with a `step`; each repository access
is an action, `Raise` ends the call or starts the rollback. `Interruptible` lets
an exception strike between any two steps; `Boundaries` says whether callers
use transactions.

*Trust state.* `root`, `manifest`, `retired`, `log` and `tip` are the files,
`torn` an incomplete last line. `calls[p]` is the command process `p` runs: the
document, the root state it read, and the step it is at. A command that touches
one file under one lock is one step. `Stop` ends a command anywhere and frees its
locks, also because a signature, a time policy or a file check refuses.

*Witness.* A checkpoint is its root hash with the entries it was computed from;
the checks of the code look at sizes, roots and paths only. `signing[w]` is the
checkpoint a witness exported a statement for while its state file still has the
former one. `views[v]` is what a verifier read and verified before it takes
the lock.

*Planning.* `pc` is the part at work, `plan` the caller's plan (`deps`, `tool`,
`step`, `status`), `selected` what the current cycle has yet to execute. With
`driver = "caller"` the lifecycle service is called by hand and the plan then
given to the runner.

*Team and bus.* `stage` is the agent at work, `inputs` the artifacts of its
assignment, `rounds` what synthesis and review were given and returned.
`messages` holds each message with its deliveries in the order of publication.

*Pipeline.* `phase` is the stage of `SingleResearchAgentPipeline.run` that comes
next and `searchRound` the search it belongs to. `answer` holds the local
variables that the workspace and the result are made of, `previous` the copies
`run` keeps while it tries a coverage round, `cache` the `evidence_cache`,
`usage` the search adapter's usage. `files` is the execution directory with the
temporary and the installed files. A source id contains its query and its URL,
so a candidate is the pair of both.

**Abstractions.** Times are integers and `None` is `-1`. Job ids are numbers, so
that the id tie-break is number order. Payloads, texts, metadata, queue names
(one queue) and uuids are left out. Identifiers are normalised. In `ResearchFlow`
an execution's version follows from its status, since only its own call writes it;
the runner is external and returns, raises what the service catches, or raises
something else. Jitter is any value of its range. The category and code lists of
the retry policy are one Boolean. Hashes and signatures are sound: a digest is
the document, a tree hash the term it was computed from. Language models, tools,
the search provider and pages answer anything their contract allows; ranking by
relevance is any order.

Definitions marked `\* Mutant:` or as a plausible slip are variations of the code
that the properties are known to reject; no specification uses them.

## 3. Runs

| Run | Instance | Shows |
|---|---|---|
| `queue_races` | 1 job, 2 workers, clock 0..2, a `now` up to 1 old, versions to 7, leases of 1 or 2, every outcome but cancellation | the inductive invariant `IInv`, `SnapshotFence`, `SingleRunner`, `StoredRecordsSound`, `LeaseTakenByOldCallOnly`, refinement of `JobLifecycle` |
| `queue_requeue` | 1 job, 2 workers, a job reported `retry_scheduled`, every `now` current | violated: `StoredRecordsValid` |
| `application`, queue | 2 jobs, 2 workers, page of 2, fair | `ExpiredLeaseRecovered`, `DueJobQueued` with batches of two |
| `application`, flow | 2 flow callers, 1 direct caller, 1 key, 2 payloads, 3 calls, fair | `ImplementsOperation`, `NoRerun`, `ReusableResult`, `NothingLeftOpen`, `FlowReturns` |
| `queue_crash` | 1 job, 2 workers, fair | violated: `CrashedJobRecovered` |
| `cancel_races` | 1 job, 1 worker, 2 cancellers, 2 requests, interruptions, with and without transactions | `CancellationIsBacked`, `AtMostOneActiveRequest`, `CancelStopsStart`, `CancellationFollowsLifecycle` |
| `cancel_lost` | transactions, no interruption | violated: `RequestTakesEffect` |
| `retry_chain` | 3 jobs, 1 worker, 2 schedulers, a `now` up to 1 old; the policy's limit is the lower one, Retry-After is not capped (the default) | `RetryFollowsFailure`, `RetryLimitsKept`, `RetriesBounded` |
| `retry_twice` | 3 jobs, 1 worker, 2 schedulers | violated: `OneRetryPerFailure` |
| `audit`, files | 2 processes, 3 transitions (two of them rivals), 4 manifests, log of 2 | `TipNeverAhead`, `RootIsLogged`, `RetiredUnderItsEpoch`, `RootChain`, `GenerationsGrow` |
| `audit`, checkpoints | 2 witnesses, quorum 2, 2 verifiers, log to 5, 1 restore, 3 checkpoints | `StatementsConsistent`, `QuorumsAgree`, `ProofsExact`, `RememberedFollowsLog` |
| `trust_orphan` | the files of `audit` | violated: `ManifestUnderCurrentRoot` |
| `agents` | planning: every graph of 3 steps, 3 requests; team: 2 revisions; bus: 3 agents, 2 messages; pipeline: 3 pages, 2 queries, 2 sources | `ProposalChecksExact`, `DependenciesGuardSteps`, `EnoughCyclesFinish`, `FinishedStays`, `LoopEnds`; `ApprovedReportIsGrounded`; `DeliveriesMatchPublish`; `AssembledSetsFit`, `AnswerOfOneRound`, `SupplementKeepsSources`, `ResultNeverAlone` |
| `planning_failure` | every graph of 3 steps | violated: `FailedStepFailsPlan` |

**Bounds.** `MaxClock` and `MaxVersion` bound the clock and how often a job is
acquired and renewed. In `queue_races` version 7 lets a job be leased, recovered,
leased by the other worker, started and reported while a call of the first owner
is still under way, which is where two executors could arise; three clock values and a
`now` that may be one behind put calls before the acquisition, within, at the
expiry and after it. Two workers suffice for
a race between two calls. Two jobs make a batch of two, and an order between
them. Three flow calls are a failure, a restart and a reuse, or two conflicting
flows around a direct execution. `retry_chain` has room for a third attempt,
which the policy's limit must refuse, and for two retries of one failure, after
which no thread may find none; its constraint `RoomForRetry` leaves out the states
where submitted jobs hold all three ids and no retry can be created. That the record's limit and a cap on Retry-After are
kept as well, and with every kind of jitter, is what the theorems add. `MaxEntries` and the documents of `MCTrustState`
allow two rival transitions, a transition after one of them, and a log that is
full. `MaxSize` 5 has sizes that are and are not powers of two on both sides of a
consistency proof; one restore and three checkpoints give two histories and a
common past; with two witnesses every quorum overlaps completely. Three plan
steps have chains, forks, joins and cycles of two and three. Two sources and three
pages, one of them better, make the pipeline substitute a document, find one page
by two queries, and meet documents that are no longer eligible; four provider
calls let every round search, and a round is blocked where credits or time are
spent. `ClaimBudget` 2 and `RelevanceBudget` 1 end
within a claim set. Workers, cancellers, processes, witnesses and verifiers are
symmetric in the runs without liveness. Deadlock is not checked: a bounded run
ends when its ids, clock, versions or documents are used up, and the agents' runs
end when they are done.

**Fairness.** The queue's part of `application` and `queue_crash` assume that time
passes and that one thread calls `recover_expired_leases` and `enqueue_due_jobs` again
and again and is not stopped between a read and its write every time (strong
fairness, since a conflict may undo a read). The lesson describes both as such
recurring duties of the workers. The flow's part assumes that threads are scheduled, that runners end,
and that a transaction lock that stays free is taken (weak fairness: Python's lock
promises no turn to a thread that waits for it, and the number of calls is bounded). `LoopEnds` in `agents` assumes weak fairness of the planning
agent's own steps: the planner and the tools return or raise, and the program
goes on. Nothing assumes that a worker renews its lease or survives.

**What the violations show.**

* `queue_requeue`: `enqueue` of a job that is `retry_scheduled` keeps the failure and
  the start of its attempt. `model_copy` runs no validator, so a queued record
  is stored that `validate_record` refuses. `StoredRecordsSound` says what
  remains true of such a record.
* `retry_twice`: the check for an existing retry and the creation of one are separate
  steps, and every retry has an id of its own. Two threads retry one failure twice;
  `RetriesBounded` says how often it can happen.
* `queue_crash`: `recover_expired_leases` looks at `leased` jobs only. A worker
  that dies after `start` leaves a `running` job with an expired lease for ever.
* `cancel_lost`: a rollback takes a job's version back, so that the version a
  worker read before denotes another record later; its write is accepted and
  overwrites a committed cancellation request.
* `trust_orphan`: `apply_root_transition` looks for a manifest state once, under
  the root lock; `apply_manifest_trust_state` stores one under its own lock
  afterwards. The manifest state then belongs to a root that is gone.
* `planning_failure`: `fail_step` marks the plan failed and validates it; another
  step that is ready makes the validation raise, so the failure is recorded
  nowhere and the plan is neither failed nor replaced.

**Conditions.** Some properties hold only under a condition that the code does
not enforce, and some behaviours are worth knowing without being a violation of
anything the repository says.

*Queue, cancellation, retry, flow.*

* `ExpiredLeaseRecovered` needs a page that holds all leased jobs: with
  `BatchLimit = 1` a newer active lease hides an older expired one.
* `active_at` is also false before `acquired_at`: a recovery whose `now` was taken
  before a lease was acquired takes that lease for expired and queues the job of a
  working owner. `LeaseTakenByOldCallOnly` says that this is the only way.
* A retry scheduled at an older `now` is created before the failure it follows, by
  at most the age of that `now`; `RetryFollowsFailure` says so. A record queued or
  started at an older `now` has its timestamps out of order (`StoredRecordsSound`).
* By default `retry_after_max_seconds` is `None`: a Retry-After of the provider is then
  followed however long it is, beyond `maximum_delay_seconds`. `RetryLimitsKept`
  distinguishes the two cases.
* `acquire` takes one candidate of any executable status and drops it if it is
  not queued, so a due `pending` job hides a queued one until it is enqueued.
* `AtMostOneActiveRequest` needs transactions: the check and the creation it guards
  are separate steps.
* `CancelStopsStart` and `CancellationFollowsLifecycle` hold where nothing is
  rolled back.
* `complete` stores the request as completed before the job record is validated;
  a `now` before `started_at` leaves the job in `cancellation_requested` with no
  request left to complete.
* A runner that raises anything but `RuntimeError` and `ValueError` leaves its
  execution running, or absent inside the flow.

*Trust state.* A transition is blocked by a manifest state only if the command was
told where that state lies; `audit` has both kinds of commands,
`trust_orphan` those that name it. A manifest state is stored before the log is consulted in the
transparency modes. A stop between the line and the tip, or within the line,
closes the log until an operator repairs it. Retiring a manifest state and
initialising it again may lower the generation under the same root;
`GenerationsGrow` is about states that replace one another.

*Witness.* The statement is exported before the state: a witness stopped in
between may sign a contradicting checkpoint later, and `StatementsConsistent` and
`QuorumsAgree` say that this is the only way. A checkpoint that is issued again
for the same size is refused until the log grows. The first statement trusts the
checkpoint it is given.

*Planning.* `_policy_request` drops the first request's `allow_parallel` and
`require_tool` and bounds a replacement by the length of the plan before; the
runner's no-progress check, `PlanStatus.READY` and the decisions `CONTINUE` and
`TERMINAL_FAILURE` are not reached.

*Bus and team.* After a publish that fails half way the message id stays taken.
A review assignment sets `attempt_number` to the round without raising
`maximum_attempts`; the schema would refuse it, but `model_copy` does not validate.

*Pipeline.* The supplemental search does lose documents, and `SupplementKeepsSources`
lists every reason. A supplemental document of much higher quality makes the
others ineligible, and if it bears no evidence the run fails although evidence
had been found; if two queries found the same page, the second selection may try
the page's other document and skip the one with evidence. The
guide and the decision record speak of at most two search rounds; a supplemental and a
coverage search can both follow the first. Query and candidate sets stay merged
after a rejected coverage round. `ResultNeverAlone` is about one writer; when a
cleanup is interrupted, `result.json` may remain without `report.md`.

## 4. Proofs

Each theorem holds for all values of the constants that the named assumptions of
the modules allow, of which TLC evaluates the instances: any number of jobs,
workers, cancellers, callers, processes, witnesses, plan steps or revisions, and
any clock, version or log bound. An invariant is proved from an inductive one
(initially, by every action, hence always); the proof that an action keeps it
has a step per action. Where a theorem needs more than the constants' assumptions,
its `ASSUME` says so.

| Module | Theorems (property proved) | Rest on |
|---|---|---|
| `JobQueueProofs` | `Invariance` (`IInv`), `TypeCorrect`, `NoLostUpdate` (`SnapshotFence`), `AtMostOneRunner` (`SingleRunner`), `PolicyAlwaysRespected`, `QueueImplementsLifecycle` (`ImplementsLifecycle`) | `IInv` |
| | `RecordsStaySound` (`StoredRecordsSound`), `LeasesAreKept` (`LeaseTakenByOldCallOnly`) | `IInv` with `SoundInv` or `LeaseInv` |
| `JobCancellationProofs` | `CancellationTypes`, `CancellationsAreBacked` (`CancellationIsBacked`), `OneActiveRequest` (`AtMostOneActiveRequest`), `CancellationImplementsLifecycle` (`CancellationFollowsLifecycle`), `CancelledNeverStarts` (`CancelStopsStart`) | `TypeInv`, `BackedInv`, `ActiveInv`, `FenceInv` |
| `JobRetryProofs` | `RetryInvariance`, `RetryTypes`, `RetriesKeepLimits` (`RetryLimitsKept`), `RetriesFollowFailures` (`RetryFollowsFailure`), `RetriesAreBounded` (`RetriesBounded`) | `RInv`; the last two also `PastInv` and `CountInv` |
| `ResearchFlowProofs` | `Invariance`, `ResultsStayReusable` (`ReusableResult`), `EverythingIsClosed` (`NothingLeftOpen`), `SucceededNeverReruns` (`NoRerun`), `FlowImplementsOperation` (`ImplementsOperation`) | `IInv` |
| `TrustStateProofs` | `Invariance`, `TrustTypes`, `EntriesNeverConflict` (`NoConflictingEntries`, which no run checks on its own), `TipFollowsLog` (`TipNeverAhead`), `RootsAreLogged` (`RootIsLogged`), `RetiredWhereIssued` (`RetiredUnderItsEpoch`), `EpochsNeverReturn`, `RootsChain` (`RootChain`), `GenerationsOnlyGrow` (`GenerationsGrow`) | `IInv` |
| `WitnessProofs` | `WitnessInvariance`, `WitnessesAreConsistent` (`StatementsConsistent`), `QuorumsAreConsistent` (`QuorumsAgree`), `RememberedExtends` (`RememberedFollowsLog`), `ProofsAreExact` (`ProofsExact`) | `IInv`; `RootsDetermine`, `ConsistencyExact`, `InclusionExact`; `Missing \notin Checkpoint` |
| `AgentProofs`, team and bus | `ReportsAreGrounded` (`ApprovedReportIsGrounded`), `DeliveriesMatch` (`DeliveriesMatchPublish`) | `TeamInv`; `BusInv` |
| planning | `PlanningInvariance`, `StepsAreGuarded` (`DependenciesGuardSteps`), `FinishedStepsStay` (`FinishedStays`), `ChecksAreExact` (`ProposalChecksExact`), `EnoughCyclesSuffice` (`EnoughCyclesFinish`) | `PlanningInv`; the facts about `TopologicalOrder`; `LoopInv` |
| pipeline | `PipelineInvariance`, `AssembledAnswersFit` (`AssembledSetsFit`), `AnswersAreOfOneRound` (`AnswerOfOneRound`), `SupplementsKeepSources` (`SupplementKeepsSources`), `ResultsHaveReports` (`ResultNeverAlone`) | `PipelineInv`; `SupplementInv`; `FilesInv` |

*Queue.* `queue_races` also checks `IInv`. `SingleRunner` is not inductive: that
`start` is stored at most once at a time depends on what the call had read.
`SnapshotFence` says that an accepted write was computed from the stored record;
`WritesJustified` says what each operation's write does to the record it was
computed from; `RecordInv` ties the lease to the status and `RunnerInv` ties the
executing worker to the lease. Together they turn an accepted write into an atomic
step: `CommitKeepsInv` uses them to preserve the invariant, `CommitMaps` to map a
`Commit` to one step of `JobLifecycle`. Read steps keep the invariant by
`BeginKeepsInv` and map to stuttering. `SoundInv` adds that what a call prepares
from a sound record is sound (`model_copy` asks nobody): valid, or in the queue with
no more than the marks of an earlier attempt and of an old `now`. `LeaseInv` says that a
lease a recovery means to take away had expired when it was listed or was acquired
after the recovery's `now`; an accepted write of a recovery finds that very lease.

*Cancellation.* Four layers, because the properties hold under different
conditions. `TypeInv` and `BackedInv` hold with and without transactions and
interruptions: a request is never removed or reopened by a call (`Grows`), and
what a rollback would restore is backed by the requests it would restore
(`SnapshotBacked`), also after the workers' writes in between. `ActiveInv` needs
the transaction lock, under which the check for an active request and the
creation are not interleaved. `FenceInv` is the queue's `IInv` and what the
cancelling calls have read, where nothing takes versions back.

*Retry.* `ChainInv` links every retry to the failed attempt it continues, and
every scheduling call that is under way to the source it read: a failed job is
terminal, so what was read is still stored. `DelayBounded` is about the delays;
that a power of the multiplier is a natural number follows from the loop facts
(`PowersAreNatural`). `PastInv` bounds how long before its failure a retry may be
created by the age of a call's `now`. `CountInv` counts a job's retries together with
the threads that found none and are about to create one: a thread joins them only
while there is no retry, so the sum never exceeds the number of threads.

*Flow.* While a flow holds the lock its changes are confined to its key and its
execution (`ProgressInv`, `ExecInv`). `Committed` is the idempotency repository without them, and
the refinement mapping is read from it: every step of a flow stutters but
`succeed` and `fail`, which commit. Direct executions never touch what a record
names (`OwnerInv`).

*Trust state.* `Justified` says what a command may still rely on when it goes on
under another lock: a transition that waits for the root lock is in the log, and
the log only grows. `EpochsAdvance` makes the epoch a position in the history of
roots.

*Witness.* What a witness has signed without interruption is a prefix of what it
signed last (`SignInv`); two prefixes of one log agree. `QuorumOverlap` counts the
witnesses two quorums share. That what a proof verifies from is a prefix, and that
a root determines the entries, rests on the Merkle tree.

*Merkle tree.* Roots, paths and the walk along a path are recursive functions over
the trees of bounded size. Each comes with a lemma that a function satisfying its
equation exists (`RootsExist`, `PathsExist`, `WalkStates`), and is then reasoned about by
induction over the size of a tree. A hash is the term it was computed from, so no
two terms collide; hence two trees have one root exactly if they have the same leaves
(`RootsDetermine`). The verifier of a consistency proof knows no tree, only the
indices `fn` and `sn`, which it shifts: `Fits` says what the two are for a tree in its place,
`LeftPart` and `RightPart` find the places of its parts, and `ComputesLeft` and
`ComputesRight` follow the walk up one level, so that the walk along a path the log
made ends with both roots (`AllCovered`). The path of a complete old tree lacks the first
hash, exactly when the verifier starts from the old root (`ShiftedToZero`,
`AllSeeded`); there, two walks with the same last root began with the same hash
(`WalkInjective`). For inclusion, the root computed from a path is that of the log with the
entry put in its place (`Included`).

*Team and bus.* `TeamInv` says which reviews and reports each assignment hands on.
`BusInv` is `DeliveriesMatchPublish` with the types; that what a filter leaves is
what the code meant rests on `KeptFacts`.

*Planning.* `PlanningInv` is `DependenciesGuardSteps` for every plan between two
calls, with the types. `ChecksAreExact` is about the graph alone: the loop of
`_topological_order` takes a step in every round as long as one is ready
(`ListFacts` gives the value of a loop after each round), so it ends with all
steps exactly when no set of them waits for itself; and if no two steps are
parallel, each round has one ready step. `EnoughCyclesSuffice` counts: `LoopInv`
says that every cycle before the current one completed at least one step, and,
because a proposal the planner accepted has an order, that a running plan always
has a ready step.

*Pipeline.* `Selected` says what the answer's documents and evidence are: documents
of different pages, at most the maximum, each evaluated and with evidence, and no
evidence twice. `SelectInOrder` is followed through its loop
(`SelectInOrderVisits`), the substitution through its two filters
(`SubstitutionIsSelected`). `SearchInv` and `AnswerInv` say, for every phase and
round, which of the sets exist and fit together: until the claims are built the answer
is `Selected` and `Unclaimed`; then `Claimed`, with exactly the claims built last
left to verify (`ToVerify`); before a round that may be rejected, `previous` is
`Whole`, which is what an answer must be to be written. `SupplementInv` remembers what
the first selection was made of: every document it chose has its evidence in the
cache, so that the second selection, which stops only when it is full or has tried
every eligible page, takes each one that is still eligible and alone on its page
(`SelectionIsExhaustive`). `FilesInv` fixes the order of the two renames and of
the cleanup.

**Hypotheses.** The theorems about the queue and about retries have none: they hold for any
age of a call's `now`, any outcome a worker reports and any number of schedulers,
which `SchedulerAssumption` only requires to be finite.
`Missing \notin Checkpoint` says that the null value is not a record. The constants' assumptions say of the pages that they are finitely many and
of the planned queries that they are a non-empty list without the two names the
later rounds have.

**Only model-checked.** Liveness under fairness, which is out of the prover's reach:
`DueJobQueued`, `ExpiredLeaseRecovered`, `FlowReturns`, `LoopEnds`.

## 5. Not modelled

* The worker loop and the runners (external). Nested transactions and failing
  `restore_state`, and a `snapshot_state` that raises. Repository queries other than the ones services use,
  pagination beyond the first page, and the reliability queries: they change nothing.
* Key statuses and validity windows of the witness trust store, gossip bundles,
  split-view evidence, decision receipts and the offline verifier: read-only
  combinations of documents whose proofs `Merkle` and `Witness` cover.
* Source critic, citation verifier and pipeline executors: each maps one
  assignment to one result and no orchestrator of the repository composes them.
* The pipeline without a document selector or without its planners, the local and
  integrated compositions, the internals of ranking, metrics and metadata; several
  writers with one execution id.
* Budgets, guardrails, file caches, the vector index, memory and tracing; report
  export and archive. They have state, and are the next candidates.
* Language models, retrieval, parsing, evaluation, scripts of experiments and
  schemas: sequential transformations of data, whose results depend on texts the
  models leave out.

## 6. Plan

1. (done) `JobRecord`, `JobQueue`, `JobLifecycle` and their proofs;
   `JobCancellation`, `RetryPolicy`, `JobRetry`; `ResearchFlow`,
   `IdempotentOperation`.
2. (done) `TrustState`, `Merkle`, `Witness`; `PlanGraph`, `Planning`; `MessageBus`,
   `ResearchTeam`; `ResearchPipeline`.
3. (done) Proofs about every component: the invariants and action properties of the
   queue, cancellation, retry, flow, trust state and witnesses, of the team, the bus,
   planning and the writer, and the refinements of `JobLifecycle` and
   `IdempotentOperation`.
4. (done) Proofs about loops, lists and trees: the checks of a proposal, the cycles
   of the planning loop, the sets of the pipeline, and the proofs of the Merkle tree.
5. Models: file caches and their maintenance, the archive of reports, budgets.
