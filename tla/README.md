# TLA+ specifications of backend-services

This directory holds formal models of the parts of the repository that are hard
to test: the workflow engine of the agent platform, the persistent protocol
around a workflow run (cancellation, suspension and resume, approvals,
compensation), the governed execution of a tool, the deletion of a user's data,
and, on the social side, the outbox and the follow projection that works on it.
The modules are checked with TLC on small instances; their main
safety properties are proved with TLAPS for every value of the constants.
`PROJECT.json` is the machine-readable index: which definition models which
lines, which run checks what, the hazards and the findings.

Source paths below are relative to `internal/module/agent/` unless they start
with `internal/` or `docs/`.

## 1. The system

The repository is a Go monorepo with two planes.

* **Social plane**: gateway, auth, user, tweet, follow, messenger and
  notification services over MySQL, Redis, RabbitMQ and Elasticsearch. Writes
  leave a transactional *outbox*; a *canal relay* turns the binlog into
  messages; *consumers* maintain timelines, engagement scores and the search
  index; the *follow projection* keeps follower caches in step with the
  relations.
* **Agent plane**: a ReAct runtime with budgets and admission control, tools
  behind approvals, idempotency records and a circuit breaker, MCP clients and
  servers, a *workflow engine* for user-defined DAGs, durable runs with resume
  and compensation, data deletion with write fences, retention, retrieval.

### Inventory

| Component | State | Operations | Hard behaviour | What makes it correct |
|---|---|---|---|---|
| Workflow scheduler (`workflow/engine`) | traces, in-degree and active-input counters, ready set, blackboard with versions | Execute, ExecuteFromCheckpoint, waves, retries | goroutines behind a semaphore, cancellation, node timeouts, several suspensions, replay | inputs settled and visible before a node starts, only dead paths skipped, replayable event order, always returns |
| Workflow run (`service/workflow_service.go`, `repository/workflow_run_control.go`) | run record in Mongo: status, revision, token, approval, checkpoint | run, commit, cancel, suspend, resume, issue grant | resume races, cancel against commit, stale copies | one execution at a time, cancellations win, suspended runs can be resumed |
| Compensation (`service/`, `repository/workflow_compensation*.go`) | journal records with attempt and lease | plan, drive, claim, settle, retry, reconcile | crash between claim and settlement, several drivers, approvals in the middle | strict order, lease ownership, truthful outcome, recovery |
| Tool governance (`service/tool_approval.go`, `repository/tool_governance.go`, `workflow/tool/executor.go`) | approvals and execution records with leases, archived results | authorize, decide, expire, claim, complete, release, replay | lease shorter than the retries, expiry during execution, a store that fails half way | only approved calls run, an approval is used up only by a result, a key has one answer |
| Circuit breaker (`workflow/tool/circuit_breaker.go`) | state, failures, probe flag | Allow, RecordSuccess, RecordFailure | probe without a result, late results | one probe at a time (modelled, no property: section 5) |
| Workflow compiler (`workflow/ir`) | none | Compile | - | acyclic, references upstream, deterministic order |
| Agent execution runs (`repository/agent_execution_run.go`, `service/agent_execution_resume.go`) | run records, checkpoints | start, suspend, resume, reject | the same races as workflow runs, nested approvals | single resume, no lost suspension |
| Admission and budget (`admission`, `runtime`) | Redis leases and token budget, in-process queue | acquire, renew, release | lease lost while working | limits hold, no leaked slot |
| Data deletion (`deletion`, `repository/data_deletion_*`, `repository/data_retention*`) | request with checkpoint and leases, operation records, retention subject with hold, fence and count of writes | preflight, claim a stage, fence, delete, verify, finalize, cancel, hold, pin a write | late writers, leases that run out, lost replies, a hold in the middle | what is erased stays erased, a legal hold is respected, progress is kept |
| MCP client pool (`mcp/remote`) | sessions | get, evict, reconnect | concurrent reconnects | no session used after close |
| Outbox (`internal/module/tweet/repository/outbox_repo.go`) | rows with owner, token, lease, retries | claim, complete, fail, recover | expired leases, late completion | one owner at a time, done is final |
| Follow projection (`internal/module/follow/projection`) | author row with epoch, cursor and celebrity flag; checkpoints of pair tasks; Redis fence, marks and timelines | register an event, execute a page, advance, give back, dead-letter | lost session lock, late Redis commands, relation changing under a page | timelines and marks end up as the relations say |
| Canal relay (`internal/infrastructure/canal`) | position | publish, save position | crash in between | at least once, in order |
| Consumers (`internal/mq/consumer`) | markers, scores, timelines | apply event | redelivery, replay from the DLQ | effect once while the marker lives |
| Gateway, user, auth, messenger, notification, marketplace, evaluation, retrieval | relational rows, caches | CRUD | - | listed, not modelled |

How the modelled parts interact: `runWorkflowRevision` compiles the definition,
runs a `Scheduler`, and writes its outcome with
`commitWorkflowRunExecutionState`. A suspension stores the scheduler's
checkpoint in the run; `ResumeWorkflowRun` claims the run with a token and
builds a new `Scheduler` from the checkpoint. A failure writes a compensation
plan and drives it; any number of requests, and the reconciler, may drive the
same journal. Approvals are decided by users at any time. The nodes and the
compensations call tools through `Executor.Execute`, which asks the approval
store, claims the idempotency record and asks the breaker before it runs the
handler. On the social side a follow writes its event in the transaction of the
relation; the event's consumer registers two outbox rows (author and pair), and
workers that share the outbox execute them page by page against Redis. The
deletion of a user's data runs beside everything else: some writers of the Mongo
stores pin the retention subject while they write, and the deletion's fence
waits for those; the others ask at most whether there is a fence, and it does
not wait for them.

## 2. Modules

| Module | Models |
|---|---|
| `WorkflowScheduler` | one run of the wave scheduler, its resumes included |
| `MCWorkflowScheduler` | two concrete plans for TLC |
| `WorkflowScheduler_proofs` | TLAPS proofs about every plan: types, counters, visible inputs, final results |
| `WorkflowSchedulerEvents_proofs` | the event stream of every plan |
| `WorkflowSchedulerPaths_proofs` | which nodes a run skips and where it can stall, for every plan |
| `WorkflowRun` | run record, journal, approvals and the drivers that act on them |
| `MCWorkflowRun` | the driver symmetry for TLC |
| `WorkflowRun_proofs` | TLAPS proofs for any number of drivers, compensations, tokens and crashes |
| `ToolGovernance` | one governed tool: executor, approvals, idempotency records, object store, breaker |
| `MCToolGovernance` | its symmetry for TLC |
| `ToolGovernance_proofs` | TLAPS proofs for any number of callers, keys, inputs and calls |
| `TaskLedger` | abstract: what an outbox promises the workers that share it |
| `Outbox` | the rows of the outbox and the conditional updates on them |
| `FollowProjection` | extends `Outbox`: relation changes, ingress, workers, author lock, Redis |
| `MCFollowProjection` | two tasks per event, symmetry |
| `FollowProjection_proofs` | the outbox implements the ledger, types, epochs and the lock, for every instance |
| `FollowProjectionCache_proofs` | timelines and marks in Redis, for every instance |
| `DataDeletion` | one user's deletion requests, stages, holds and writers |
| `MCDataDeletion` | the view under which TLC explores the unbounded specification |
| `DataDeletion_proofs` | TLAPS proofs for any number of requests, stores, workers and writes |

### WorkflowScheduler

The plan is given by constants (`Node`, `Edge`, `Source`, `Target`, ...); edges
have identities, so parallel edges count as the code counts them. The variables
are the scheduler's own maps (`status`, `attempt`, `inDegrees`,
`activeInputs`, `readyIDs`), the wave (`slots`, `result`, `output`), the
blackboard (`sequence` of each node's event, `version`, `branch`) and the
context. The steps are those of the goroutines (`AcquireSlot`, `Execute...`,
`ContextError`, `NodeTimeout`, `RetryAttempt`) and those of the coordinator
(`StartWave`, then one of `CommitHookFails`, `StopWave`, `AdvanceWave`, or
`ReturnPrepared`). Processing the results of a wave is one action: after the
collecting loop only the coordinator runs. `Resume` is
`ExecuteFromCheckpoint` on the checkpoint of the suspension.

Abstractions: of the outputs only `_branch` is kept; a node's delta and the
state writes declared with it are one blackboard event; a handler's result is a
member of `Results` (`unwritable` is an output that lacks a declared field or
that a reducer refuses). Resume inputs are only injected into wait nodes.

### WorkflowRun

Each action is one database operation together with the local code around it;
`local[d]` is what driver `d` (a request or the reconciler) has read and where
it is, so a decision may be stale when it is written. `Crash` may end a driver
between any two operations. The execution of the DAG is one step with an
outcome; `WorkflowScheduler` is about its inside.

Abstractions: times are replaced by the events they cause (`LeaseExpires`,
`ExpireApproval`, a grant that no longer matches); the journal's sequence is
`1..Tasks`, in the order the plan gives it; approval 0 belongs to the workflow's
gated node, approval `s` to compensation `s`; the five retries of the
optimistic commit are one action that succeeds, or `CommitFails`. The
`executing` state of an approval is inside `Execute` and
`ExecuteCompensation`: a successful call consumes it, a failed one releases it.
A repeated call of a compensation has the same effect as the first one, which
is what the idempotency key is for (`effects` is a set). What the executor
really guarantees is in `ToolGovernance`: one answer per key always, one handler
at a time only as long as the lease is not outlived.

### ToolGovernance

`call[c]` is the activation record of one `Executor.execute`; its places are the
accesses to the stores in the order of the code: `Authorize` and `Request`
(approval), `Claim`, `Reclaim`, `Load` (idempotency; the claim of a failed or
abandoned record is a read and a conditional update, hence two actions),
`Allow`, the outcomes of the handler (`Succeed`, `Suspend`, `FailRetryably`,
`FailFinally`, `Backoff`), `Archive`, `Complete`, `Discard`, `Fail`, and
`Release` or `Finish`. Around them: `Decide`, the expiries of approvals and
leases, the reconciler (document by document, as `UpdateMany` works), the open
period of the breaker, and `Crash`, which ends all calls and forgets the
breaker but keeps the stores.

Abstractions: the result of a handler is a pair of the input's digest and a
value from `Values`, so that two runs of one input may compute different
results; a value in `Large` goes to the object store under key and content, as
the object's name is made of them. An attempt id is the caller and the number of
its call. `failures` of the breaker is counted up to the threshold, the only
value it is compared with. A store that fails does so before it wrote: a write
whose acknowledgement is lost is not modelled, and neither are the separate
breakers of several replicas. `answers` is a history variable.

### TaskLedger, Outbox, FollowProjection

`Outbox` has the rows and one action per conditional update (`Claim`,
`Complete`, `Yield`, `Interrupt`, `FailClaim`, `RecoverExpired`); a worker
claims again only after it is done with its claim, so the worker stands for
owner and token. `TaskLedger` says what this is for, in terms of open, held,
done and buried tasks; `KeepsLedger` is the refinement, with `Entry` as the
mapping.

`FollowProjection` adds the rest of one author's projection. `Change` is the
transaction that writes a relation and its event; `Handle` and `RouteFailure`
are the ingress (redelivered when the acknowledgement is lost; dead-lettered
when registration keeps failing). A worker's page is: `ClaimTask`, `Enter` (the
author's session lock), `Decide` (the author's row: follower count, hysteresis,
a new epoch), `BeginAuthor` or `BeginPair`, the Redis commands (`Mark`,
`WriteTweets`), `Recheck`, `Save`, `AdvanceAuthor` or `AdvancePair`, `GiveBack`.
The faults, bounded by `MaxFaults`: a page fails (`Stumble`), a command times
out and may `Land` at any later moment, the session lock is lost while the
worker goes on, a lease runs out, an acknowledgement is lost; evictions
(`Evict`) are counted with them.

Abstractions: ids are positions in their tables; the Redis fence keeps the
epoch, which names the execution as its token does; a command rejected by its
deadline is one that never lands. A follower's timeline is one sorted set for
all the authors it follows, and every write of a page cuts it down to its newest
1000 entries (`cache.go:44`). The model keeps the one author's tweets in it:
`Applied` cuts them down to the newest `Capacity` (`Newest`), and `Evict` stands
for the pages and fan-outs of other authors that push out the oldest, and for
the key's expiry, which leaves none. What was pushed out is kept in the history
variable `evicted`, so that `Written` is what the projection wrote and did not
remove. The filter of deleted and hidden tweets (`cache.go:107`) is not
modelled: the tweets are those that pass it.

### DataDeletion

The request keeps the checkpoint (`done`, `running`, `started`, `revision`), the
subject the hold, the lease, the fence and the writes in flight. A worker's
stage is `ReadRequest`, `AcquireSubject`, `ClaimStage`, `Govern`, then the work
(`EnforceFence`; `DeleteOwned` for a Mongo store; `ClaimOperation`, `Destroy`,
`RecordOperation` for an external one; `Observe` and `VerifyStore`; `Finalize`),
`CompleteStage` and `ReleaseSubject`; `Leave` is an error or a crash. Users and
operators create, cancel and enable requests and apply or release holds, and a
hold may lapse.

There are two kinds of writers. A write in `Pinned` goes to a Mongo store: it
pins the subject, writes, may lose its reply and land late, and unpins. Any
other write lands when it likes, in any store (`LandLoose`): tool approvals
(`tool_governance.go:176`), tool executions (`tool_governance.go:322`) and
execution traces (`execution_trace.go:80`) are written to erased Mongo
collections without a pin, objects and vectors have no pinned writers, and who
asked (`AuthorizeSubjectWrite`) may have asked long before it writes. `data[s]`
is the user's data in a store, as the set of those who wrote it; all that an
unpinned write leaves before the fence is `Old`, like what was there at the
start.

Abstractions: a token is a number drawn at the claim, and one expiry ends all
leases written with it; the count of writes in flight is the set of the writes
it counts; the three states in which a preflight may be repeated are one. The
completion of an external operation is compared with the time taken right after
the deletion (`completedAt`): `Destroy` notes whether the operation's lease was
live then, and `RecordOperation` may come after it ran out. Nothing in the
repository sets `execution_supported`: `EnableExecution` is the operator who
would.

## 3. What TLC checks

| Run | Configuration | Distinct states | Result |
|---|---|---|---|
| `scheduler` | `MCWorkflowScheduler.cfg` | 103,820 | pass |
| `scheduler_roots` | `MCWorkflowSchedulerRoots.cfg` | - | `NeverStalls` violated |
| `run` | `MCWorkflowRun.cfg` | 935,879 | pass |
| `run_recovery` | `MCWorkflowRunRecovery.cfg` | 79,350 | pass |
| `run_wait` | `MCWorkflowRunWait.cfg` | - | `WaitIsResumable` violated |
| `run_cancel` | `MCWorkflowRunCancel.cfg` | - | `CancelCompensates` violated |
| `run_suspended` | `MCWorkflowRunSuspended.cfg` | - | `SuspendedCompensationResumable` violated |
| `run_plan` | `MCWorkflowRunPlan.cfg` | - | `CompensatedIsComplete` violated |
| `tool_governance` | `MCToolGovernance.cfg` | 767,358 | pass |
| `tool_replay` | `MCToolGovernanceReplay.cfg` | - | `CommittedIsReplayable` violated |
| `follow_projection` | `MCFollowProjection.cfg` | 966,666 | pass |
| `data_deletion` | `MCDataDeletion.cfg` | 477,436 | pass |

**scheduler.** `InputsVisible` (a handler runs only when its predecessors are
settled and their outputs are in the generation it reads), `SkipsDeadPathsOnly`,
`EventsReplayable` and `DeclarationOrder` (the event stream has exactly the
successful nodes and no gaps, respects dependencies and does not depend on who
finished first), `SettledIsFinal` (nothing is executed or applied twice, over
resumes too), `NeverStalls`, and `EventuallyReturns`. The plan has a router with
a node both branches reach, a join with a parallel edge, two wait nodes in
different branches, tools that retry and tools that may ask for an approval; the
semaphore (2) is smaller than the wave, the step budget (8) can run out, and two
resumes are enough for a wait and an approval, in either order, in one run.
Every way a handler can end is possible for every tool.

**run.** Two drivers (up to permutation), two compensations of which the second
needs an approval, a workflow with a gated tool and a wait, two tokens and a
crash. Two drivers are what a race needs: one holds what it read while the
other goes on, crashes or finishes; the driver that executed the run becomes
free and plays the retry or the reconciler. Two tokens make one of them
stale. The proofs lift these bounds.

**run_recovery.** `AbandonedIsReclaimed`, under fairness (below), with one
crash. No symmetry, since it is a liveness check. It uses a smaller instance
(no waits, no approval of the main workflow): the property is about the
journal only.

**tool_governance.** `AnswersAgree` (one key, one answer, and never that of
another input), `OneHandlerPerLease`, `ConsumedIsDone`, `RunsOnlyApproved`.
Two calls with one key, with equal or different inputs, a
tool that needs approval and key, an inline and an archived result, two attempts
each, a breaker that opens at the first failure, any earlier failure as the
initial state. Two calls are what a race on a record needs: the one that
outlived its lease and its successor. The expiries are not bounded. One call per
caller: a call that ended leaves nothing but the stores, and those start in
every state an earlier failure or request leaves.

**follow_projection.** `TimelineExact` (once the pair task of a follower's
latest change has succeeded, the timeline of one who follows has every tweet of
the author except those pushed out since they were written, and the timeline of
one who does not has none), `MarksExact` (once all tasks have succeeded, the
author's status fits the count, and exactly the followers of a celebrity are
marked), and `KeepsLedger`. Two workers, two followers, two changes, two tweets
on pages of one, thresholds 2 and 1, so that the second follower makes the
author a celebrity and an unfollow lands on the lower threshold; a timeline of
one entry, so that the two pages do not fit beside each other; one fault of any
kind. Two changes are enough for a task to be overtaken by a newer one, two
pages for a relation to change between them. Whatever the fault, it is the
second execution of a page that could do harm, so one fault is where the races
are; all four properties are proved without the bounds.

**data_deletion.** `ErasedStaysErased`, `HoldRespected` and `ProgressKept`. One
request, an external and a Mongo store, two workers, a pinned and an unpinned
write. `ErasedStaysErased`: a store whose deletion is on record has none of what
it held when the fence came, and no pinned write brings data back, in flight or
late; what is in it again was written behind the fence without a pin, and for
such writers the code promises no more. Claims, holds,
cancellations and expiries are not bounded: tokens and revisions are only
compared for equality, so the view `Seen` renames the tokens in use and keeps of
a revision only whether it is the current one, and the state space is finite; of
a store's data it keeps whether there is any and whether all of it is from
unpinned writes behind the fence, as a deletion removes everything.
The proofs need neither the view nor the bounds.

`CHECK_DEADLOCK FALSE` is set because every one of these systems ends: a
scheduler that has returned has nothing more to do once its resumes are used
up, a run may stay finished, a call returns, all tasks are done or buried, a
deletion is completed.

### Fairness

* `WorkflowScheduler`: weak fairness of the coordinator and of every node's
  goroutine. The Go runtime schedules every runnable goroutine, and handlers
  return because they run under a context with a budget timeout. Cancelling
  and resuming are the user's choice and not assumed.
* `WorkflowRun`: weak fairness of every driver that has started, of lease
  expiry (time passes), and of the reconciler's periodic scan
  (`WorkflowCompensationReconciler.Run`). Users owe the system nothing:
  decisions, retries and resumes are not fair.
* `ToolGovernance`, `FollowProjection` and `DataDeletion` state no fairness and
  check safety only. What they should eventually reach is not owed by the code:
  an exhausted row stays failed until a person acts, a probe that tells nothing
  blocks the breaker until the process restarts, and a preflight whose worker died is taken
  up by nobody (section 5). Their runs also use symmetry, and `data_deletion` a
  view, under which TLC's liveness check would not be sound.

### Findings

Each is a disagreement between the code and what the documentation says, with
a run whose counterexample shows it.

1. **Two suspended roots stall** (`scheduler_roots`). If two root nodes
   suspend in one wave, the checkpoint names the first. The replay only
   readies nodes whose counter reaches zero and the named one
   (`workflow/engine/scheduler.go:199`); the second root has no incoming edge,
   is never started again, and the run ends with "workflow execution stalled".
2. **A wait after an approved tool cannot be resumed** (`run_wait`).
   `suspendWorkflowRun` keeps the approval of the earlier suspension in the
   record (`service/workflow_service.go:615`), and the resume then demands
   that this approval, consumed by now, be approved.
3. **A late cancellation does not compensate** (`run_cancel`). When the
   request arrives after the scheduler has succeeded, the run is committed as
   `canceled` without a plan.
4. **A retry can wipe a suspended compensation** (`run_suspended`).
   `markWorkflowRunCompensating` writes a stale copy of the run
   unconditionally, over a suspension and its token.
5. **`compensated` after a partial plan** (`run_plan`). The plan's bulk write
   can fail half way; what was written is driven and the run reports that all
   compensations are done.
6. **A stale attempt discards the committed result** (`tool_replay`). An attempt
   that outlived its lease and its successor computed the same large result,
   which has one name in the object store. The successor commits; the stale
   attempt's commit is refused and it discards "its" object
   (`workflow/tool/executor.go:608`), the one the record names. Every later
   replay of the key fails.

## 4. What is proved

`WorkflowScheduler_proofs` (assumption: `PlanAssumption`, a finite plan with
injective declaration order; acyclicity is not needed here):

* `InductiveInvariant`. `InputsVisible` is not inductive: that a node starts
  only after its predecessors depends on the counters. The invariant says that
  `inDegrees[n]` is the number of edges into `n` from unsettled nodes
  (`CounterInv`), that the predecessors of every settled, ready or suspended
  node are settled (`PredInv`), that ready nodes are not settled themselves
  (`ReadyInv`), that slots belong to the wave (`SlotInv`), and that settled
  outputs are on the blackboard (`BoardInv`). The interesting step is
  `Resume`, which rebuilds the counters from the traces (`CountAfter` relates
  two successive rounds of `advanceDownstream`).
* `TypeCorrect`, `InputsAlwaysVisible` (`InputsVisible`), `SettledStaysFinal`
  (`SettledIsFinal`), for every plan and any number of resumes.

`WorkflowSchedulerEvents_proofs` (same assumption):

* `EventInvariant`. `EventsReplayable` says that the sequence numbers are
  exactly 2..`version`, that they respect the edges, and that exactly the nodes
  that succeeded have an event. Without induction over the stream, "no gap" is
  a matter of counting: the numbers are distinct and in range (`DistinctInv`)
  and as many as the range has members (`CountInv`). A number of a wave is the
  node's rank in declaration order, and ranks grow with that order
  (`RankGrows`). That no successful node lacks an event needs to know that a
  node which returned outputs or suspended is still running in its trace
  (`ReturnedInv`), so that its result is never refused, and that a checkpoint
  names one suspended node (`CheckpointInv`), which a resume then settles.
* `EventsAlwaysReplayable` (`EventsReplayable`), `DeclarationOrderKept`
  (`DeclarationOrder`).

`WorkflowSchedulerPaths_proofs` (same assumption, where said `Acyclic`):

* `PathInvariant`. `activeInputs[n]` of a node with predecessors is the number
  of its live edges, whether the waves counted them or a resume rebuilt them
  (`ActiveInv`); a wave answers "skipped" for exactly the nodes whose count is
  zero (`SkipInv`). A live edge stays live, and once the predecessors of a node
  are settled a dead one stays dead.
  `OnlyDeadPathsSkipped` (`SkipsDeadPathsOnly`) follows.
* `FrontierInvariant`. While the scheduler has not returned, a node whose
  predecessors are settled is settled or ready; the exception is a root after a
  resume, because the replay only finds nodes by decrementing their counters.
* `StallsOnlyAtRoots`: in an acyclic plan the stall check fails only after a
  resume, and only if a root was left out. `OneRootNeverStalls`: an acyclic
  plan with one root satisfies `NeverStalls`. Finding 1 is the other side: two
  roots are enough to stall. The hypothesis `Acyclic` (every non-empty set of
  nodes has one without predecessors in it) is what the compiler guarantees:
  `deterministicTopologicalOrder` refuses a definition with a cycle. TLC
  evaluates it for the plan of each scheduler run (`PlansAcyclic`).

`WorkflowRun_proofs` (assumption: `RunAssumption`, finitely many drivers,
`NeedsApproval` among the approvals):

* `InductiveInvariant`. A token is issued once, so a request that read the run
  before its compensations cannot claim it afterwards: one execution at a time
  (`ExecInv`). The journal is written by an execution before any driver works
  on it, and never again (`PlanInv`); it has no gaps, and a driver that goes
  for a record has seen every earlier one succeed, which is final
  (`OrderInv`). Compensation drivers exist only once the run has left its main
  phase for good (`PhaseInv`). `ResultInv` ties a driver's result to its place
  in the code.
* `TypeCorrect`, `OneExecution` (`SingleExecution`), `CompensationOrder`
  (`StrictOrder`), `TrueOutcome` (`OutcomeIsTrue`), `CancellationWins`
  (`CancelConverges`), `LeaseProtects` (`LeaseHolds`).

`ToolGovernance_proofs` (assumption: `GovernanceAssumption`):

* `InductiveInvariant`. `AnswersAgree` is not inductive: that two attempts of
  one key cannot both commit depends on what each of them knows of the record.
  The invariant says of every call (`CallInv`) that the result it carries is
  that of its input, that a replayed or committed result is the record's, that
  the record is its own while its lease lasts, and that a record that still
  names its attempt has its digest, late or not. A committed record holds the
  result of its own digest, and attempt ids are drawn by calls that have begun
  (`ExecInv`); answers are the results of their records (`AnswerInv`); an
  approval in use was decided and is never asked for again (`ApprovalInv`), and
  who got past the approval has one (`GrantInv`). That digest and result of a record are final
  (`FinalKept`) is what carries the answers and the consumed approvals over
  every step.
* `TypeCorrect`, `OneAnswer` (`AnswersAgree`), `LeasedHandlerIsAlone`
  (`OneHandlerPerLease`), `ApprovalIsUsedByResult` (`ConsumedIsDone`),
  `HandlersAreApproved` (`RunsOnlyApproved`), with or without approval and key.

`FollowProjection_proofs` (assumptions: `OutboxAssumption`,
`ProjectionAssumption`):

* `TableInvariant`. A row in processing names a worker and has used an attempt
  (`RowsInv`), so recovery takes a task from somebody and an interruption has an
  attempt to give back; a busy worker has a task of the table (`WorkInv`).
* `ImplementsLedger` (`KeepsLedger`): the initial states map to initial states,
  every step of the projection is a step of the table or leaves it alone, and
  every step of the table is a step of the ledger or a stutter.
* `BaseInvariant`. The many branches of the actions do only a few things to the
  state that the properties are about, so every step is first put into a class
  (`StepClasses`): calm, a change of a relation, a command that arrives from a
  worker without the lock, or a worker's progress through one stage of its
  page. The invariants are proved per class. `Base` holds the types and bounds,
  what a worker knows at each stage (`StageInv`), that nothing is known of
  events that have not happened (`KnownInv`), that epochs are given out once
  (`EpochInv`), and that the holder of the lock works with the author's row as
  it is and, once it has begun, is the only one Redis listens to (`LockInv`).
  `TypeCorrect` follows; it says of the timelines that they never hold more than
  `Capacity` of the author's tweets.

`FollowProjectionCache_proofs` (same assumptions), for any number of
followers, tweets, page sizes, changes, workers, faults and evictions, and any
capacity of the timelines:

* `TimelineInvariant`. `TimelineExact` speaks of a task that has succeeded;
  the invariant has to say what holds from the moment it has begun. Then
  everybody who would still write what the follower no longer is has an epoch
  below the fence (`TweetsInv`), the worker that holds the claim goes on from
  the checkpoint as it is (`ResumeInv`), and behind the cursor the tweets of one
  who follows have been written, pushed out since or not, and those of one who
  does not are gone (`CoverInv`). `TimelinesAreExact` (`TimelineExact`) follows.
* `MarksInvariant`. A mark is written from two sides, by the follower's pair
  task and by the author task's scan. A follower whose pair task is past its
  mark is right and nobody current would write the opposite, or the scan has yet
  to come to one of its rows (`MarkInv`); `ScanInv` and `TouchInv` carry this
  through a page that is read, written and saved in separate steps. The last
  author task decides with the number of followers as it is now (`DecideInv`),
  and after it nobody decides otherwise (`DecidedInv`) or tells Redis otherwise
  (`ToldInv`); when it has succeeded the scan is over (`CompleteInv`).
  `MarksAreExact` (`MarksExact`) follows.

TLC checked both invariants on the instance of `follow_projection` before they
were proved.

`DataDeletion_proofs` (assumption: `DeletionAssumption`):

* `InductiveInvariant`. `ErasedStaysErased` is not inductive: that no pinned
  write comes to a store whose stage is done depends on the fence, and that the
  fence is up depends on the order of the stages. The invariant says that a
  checkpoint's fields agree with its status (`CheckpointInv`), that a worker
  whose revision is current is at the next stage (`ReadInv`), that no pinned
  write is in flight behind the fence and no later stage is reached without it
  (`FenceInv`), that the tokens of busy workers are distinct (`TokenInv`), and
  that a worker whose lease is live holds the subject, which then has no hold
  (`LeaseInv`).
* `TypeCorrect`, `ErasedForGood` (`ErasedStaysErased`, for any choice of the
  writes that pin), `HoldIsRespected`
  (`HoldRespected`), `ProgressIsKept` (`ProgressKept`).

Only model-checked: the liveness properties `EventuallyReturns` and
`AbandonedIsReclaimed`, because fairness is out of the prover's reach. Every
other property of a passing run is stated by a theorem, with one restriction:
`NeverStalls` is proved for acyclic plans with one root and, as finding 1
shows, does not hold for every plan.

## 5. Limits

* `CancelConverges` is about executions. A cancellation accepted while a
  *resumed compensation* runs is overwritten when the compensation ends
  (a hazard in `PROJECT.json`).
* Several hazards are in the models without a property, because neither the
  code nor its documents say what should hold; they are listed with a note.

Observations made while modelling, without a run:

* Follow projection: the reset of the cursor when the pair's generation changed
  (`Resumed`) and the re-read before a page is saved do not change the final
  result as long as every event is registered; they matter when an event was
  dead-lettered. A pair task waits for the author's task of its event, and
  claims take the oldest id first, one at a time: a waiting pair task can hold
  back younger ones, and waits for ever when the author's task is exhausted.
* Deletion: when a worker dies between the deletion of a store, Mongo or
  external, and the checkpoint, the next attempt replays the receipt, and
  `VerifyAdapterResult` holds its time against the decision of the new attempt,
  which is younger (`deletion/adapter.go:311`, `Observe`): the stage can never
  succeed. This contradicts `docs/data_retention_worker_runbook.md:11`, which
  says that a successful result must replay its receipt; the test of the replay
  (`deletion/adapter_test.go:121`) passes because it gives receipt and decision
  the same time. TLC reaches such an attempt in 27 states.
  An external store may be deleted under a legal hold by a worker that outlived
  its lease between its checks and `DeleteSubject`
  (`deletion/external_adapter.go:120`): `HoldRespected` states the exception,
  and without it TLC finds the deletion after 22 states, although
  `docs/PRODUCTION_LAUNCH_COMPLETION_PLAN.md:179` calls hold and deletion
  mutually exclusive. Writers that do not pin can fill an erased store again behind the
  fence; the verification sees what came before it. A preflight whose worker died stays
  `preflight_running` until the request is cancelled. A cancellation after the
  fence leaves the fence up, and a later request then conflicts with it.
* Breaker: a probe that is cancelled, suspends, or whose result cannot be
  archived tells the breaker nothing, and the half-open slot stays taken
  (`circuit_breaker.go:78`). The late result of a call from before the breaker
  opened frees the slot of a probe that still runs (`circuit_breaker.go:103`). The
  code states no rule for either.

### Not modelled

* In the modelled parts: writes whose acknowledgement is lost in
  `ToolGovernance`; the breakers of several replicas; repair tasks of the
  projection (`maintenance.go`), the expiry of the Redis fence and marks (7
  days), the unread counter; several authors (they share the outbox, which is
  modelled with one author's tasks, and the followers' timelines, where `Evict`
  stands for them); the fan-out of new tweets, which writes timelines without the
  fence, and the feed recovery (`tweet/cache/feed_recovery.go`); the tweet
  service's own task handlers.
* Planned, section 6: canal relay, engagement and timeline consumers, shared
  admission, agent execution runs, the compiler's order.
* Left out for good: generated protobuf code (nearly a quarter of the implementation's
  lines), HTTP and gRPC translation (gateway, `grpc` servers), CRUD services
  (user, auth, messenger, notification, marketplace), scoring and retrieval, and
  process wiring (`cmd`). They keep no protocol between actors, and a model
  would restate the code. This is most of the implementation by lines: the
  modules are about the protocols, which are a small part of it.

## 6. Plan

Done: `WorkflowScheduler`, `WorkflowRun`, `ToolGovernance`, `Outbox` with
`TaskLedger`, `FollowProjection`, `DataDeletion`, their runs, and the proofs of
all their safety properties.

Next, in this order:

1. `CanalRelay` and the consumers: at-least-once delivery composed with
   deduplication.
2. `SharedAdmission` (leases per scope, token budget); agent execution runs,
   the runtime's counterpart of `WorkflowRun`.
3. The compiler's topological order against a reference definition.
