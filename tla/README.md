# A TLA+ model of Auris Flow

Auris Flow is a control plane for audio work: a FastAPI backend and worker processes over a MySQL
database, with Dagster, an object store, Qdrant and customers' callback endpoints outside. What
the backend promises about all of them rests on a few protocols, and these are modelled:

* the **transactional outbox**: how an event written by one transaction is delivered to a remote
  system by some worker, through crashes, expired leases and lost replies;
* the **task run**: how one run is launched, cancelled, watched, completed by a signed receipt and
  materialized, while all of these race;
* **idempotent requests**: how a write that is sent several times is carried out once;
* **prompt releases**: how a deployment reaches, and leaves, the active head of an environment;
* **label fact sets**: how recomputed facts become whole, vetted, and visible in a namespace;
* **label optimization**: how a scheduler runs bounded sessions of candidate rounds.

Paths below are relative to `src/backend/app` unless they start with `doc/` or `production/`.

## 1. The system

### 1.1 Components

| Component | State it keeps | Operations | What is hard | What makes it correct |
| --- | --- | --- | --- | --- |
| Outbox store (`repositories/outbox_events.py`, `services/outbox_service.py`) | `outbox_events`: status, delivery state, two attempt counters, claim token, lease generation and expiry; `outbox_delivery_attempts` | enqueue, claim, lock an owned claim, renew, clear | several workers, leases that lapse under a working owner | one owner per lease generation; a stale owner changes nothing |
| Outbox worker (`workers/outbox_worker.py`) | none of its own but the claim it works on | prepare, mark started, call, finalize as success, block, retry, redispatch or dead letter | the remote call is atomic with no transaction; retries after unknown outcomes | no second remote run; nothing confirmed that did not happen; event and run agree |
| Adapters (`services/adapters.py`) | none | dispatch, reconcile, run status, terminate | timeouts, misleading errors, late effects | the classification of an answer says whether the remote side may have acted |
| Run lifecycle (`services/run_service.py`) | `runs`: status, status version, dispatch record; completion receipts | transition, stage, apply or reject a receipt, materialize | receipts that come before the binding or during a cancellation | one terminal event; success only with the proof of the bound run |
| Task-run controls (`services/task_run_control_service.py`) | control runs with a captured fence | cancel, synchronise | controls overtaken by receipts, monitors or each other | a stale control has no effect; cancelled means stopped |
| Task-run monitor (`services/task_run_monitor_service.py`) | monitor generation, next query time | deadline cancellation, periodic query | runs in several workers, races with the API | one control at a time; every cancellation is decided |
| Release gate (`services/release_gate_service.py`) | approvals, release heads, snapshots, audit digests | decide, revalidate, materialize | the target drifts between approval and commit | a release takes effect only under a valid approval |
| Idempotent requests (`services/idempotency_service.py`) | reservations with an owner token and a result | reserve, replay, refuse, save | concurrent requests with one key | one execution per key; the same answer afterwards |
| Prompt release (`services/prompt_release_service.py`) | deployments, commands with a frozen head, the active head and its ledger | create, approve-gray, promote, rollback, monitor sample, bootstrap, receipt | receipts of commands whose head has moved; regressions during a promotion | only the head serves, and keeps its service until its rollback; a stale command is harmless; a command ends |
| Label fact sets and recomputation (`services/label_fact_set_service.py`, `label_recomputation_service.py`) | sets, runs, items, append-only facts, the head of a namespace and its ledger | create, run, complete and retry an item, validate, approve, promote, rollback | late and repeated receipts, half-filled sets, label versions that change | what is visible is whole; vetted sets are frozen |
| Label optimization (`workers/label_optimization_worker.py`, `services/label_optimization_*.py`) | schedule with its clock and active session, rounds and their runs | tick (reconcile, scan), edit, scan over the API, retry | a tick works on what it read while receipts and requests commit | sessions end in time and leave nothing behind; rounds build on what the session selected; only what passed is reviewed |
| Dagster jobs (`production/dagster`) | their own run | work, post progress and the receipt | a refused or lost receipt | a job that ends well has been believed |
| Label policy and mapping, human review, hotwords, experiments, import, insights, resources, authentication, migrations, backup, user interface | see `PROJECT.json` | | mostly single transactions over records | |

### 1.2 How they interact

An API request creates a run and its event in one transaction. A worker claims the event, prepares
it in a second transaction, commits a mark in a third, calls the adapter, and records the outcome
in a fourth. A launch binds the run to a Dagster run; the Dagster job posts a signed receipt back
to the API, which applies it, keeps it for later, or refuses it. Applying the receipt of a run
with an execution contract enqueues a materialization event, delivered by the same worker. API and
monitor create *controls*: runs with events of their own, which the same worker delivers to Dagster
and whose outcome it writes into the task run. A release command is such a run too: its delivery
marks the deployment, its receipt moves deployment and head. Generation and evaluation runs of the
optimizer and executions of a recomputation are runs whose receipts their own component reads.
Every step is one database transaction or one
remote call; processes share nothing else.

### 1.3 What is hard here

`PROJECT.json` lists each hazard at its line with the properties aimed at it. In short: a worker
that loses its lease in mid-call; a request that takes effect after its client gave up; an error
reply that hides an effect; two limits on attempts applied by two different functions; a gate that
closes between two transactions; a receipt that overtakes the launch or races a cancellation;
observations that are out of date when they are recorded; deadlines that fire again; a request
repeated while its first copy is still at work; a receipt that comes back to a head that has moved
on; a regression that meets a promotion; a receipt of an earlier attempt; a time limit that strikes
between a read and a commit.

## 2. The modules

| Module | What it is |
| --- | --- |
| `Outbox`, `MCOutbox` | the delivery protocol: producers, gate, claims and leases, worker, remote side |
| `TaskRun`, `MCTaskRun` | one task run with its launch, controls, receipt and materialization |
| `Idempotency`, `MCIdempotency` | callers that repeat requests, the reservation of their key, replay |
| `ActiveBundle` | the abstract promise of a head: who serves, who may start to, who may come back |
| `Release`, `MCRelease` | deployments, two-phase commands and the active head of one environment; implements `ActiveBundle` |
| `FactSets`, `MCFactSets` | fact sets, their recomputation and the heads of namespaces; implements `ActiveBundle` |
| `LabelOptimization`, `MCLabelOptimization` | the scheduler of optimization sessions and what races it |
| `OutboxProofs`, `TaskRunProofs`, `IdempotencyProofs`, `ActiveBundleProofs`, `ReleaseProofs`, `FactSetsProofs`, `LabelOptimizationProofs` | theorems about the module each is named after, proved for all values of its constants (section 4) |

Definitions introduced by a comment that says "Slip" are plausible mistakes in the
definition that follows. No specification uses them. They show that the properties are able to
fail: with any slip in place of its original some property of a run is violated.

### 2.1 `Outbox`

| Model | Code |
| --- | --- |
| `evt[e]` | the row of `outbox_events`; `leased` is `lease_expires_at > now` |
| `rows[e]` | `outbox_delivery_attempts`, indexed by lease generation; a claim that was never prepared has no row in the code and `NoRow` here |
| `run[e]` | `RunRecord.status` of the event's run |
| `gate[e]` | whether the release was approved, and whether its target has drifted from what was approved |
| `work[w]` | the `OutboxClaim` and `PreparedDelivery` in a worker's memory; a batch is as many workers as it has claims |
| `remote[e]`, `late[e]` | effects of the event on the remote side, and requests still under way |
| `Claim`, `Owns` | `claim_events`, `lock_owned_claim` |
| `Prepare...`, `MarkRemoteStarted` | `_prepare_claim`, `_mark_remote_operation_started` |
| `Dispatch...`, `Reconcile` | `_dispatch_prepared` with `dispatch_event` or `reconcile_event` |
| `Finalize...`, `Redispatch`, `DeadLetter`, `ScheduleRetry` | `_finalize_dispatch`, `_finalize_blocked`, `_finalize_failure` with `_mark_retry_or_dead_letter` |
| `Fenced` | any of these when the claim is no longer owned |

Time is abstract: a lease is live or has expired, `LeaseExpire` may strike under a working owner
at any moment, and `LeaseLapse` ends the lease of a worker that is gone. Availability times, the
order in which rows are claimed and the back-off between attempts are left open, which only adds
behaviours. The claim token is drawn where the generation grows, so the generation stands for both.

Two constants say what is assumed of the remote side. `Timely`: a request that takes effect does
so before its client gives up and while its sender holds the lease. `HonestErrors`: an error reply
that is not classified as "outcome unknown" means that nothing happened. Neither is a fact: the run
`outbox_error` and the instance `MCOutboxStall.cfg` show what happens without them.

### 2.2 `TaskRun`

| Model | Code |
| --- | --- |
| `status`, `finished` | status of the run, and the terminal events emitted for it |
| `dispatch` | `payload.dispatch`: absent, the record of a failed call, or the binding to a Dagster run |
| `launch`, `mat` | the outbox events `task_run.requested` and `execution.materialization.requested` |
| `engine`, `asked`, `told` | the Dagster run, whether it was asked to stop, whether its job knows its receipt was taken |
| `receipt` | the row of `run_completion_receipts`; `own` says whether it comes from the bound run |
| `ctl`, `fresh` | the controls under way, and those whose fence still matches the run |
| `overdue`, `deadlines` | whether the deadline has passed, and how many controls it has led to |

A fence is the pair of status version and monitor generation that a control captured. Both only
grow and are compared for equality alone, so the set `fresh` is all that can be told of them: a
transition empties it (`FreshAfter`), a new control enters it. The lease protocol under each
delivery is `Outbox`'s subject; here an attempt succeeds, is repeated, or is given up.
`Contract` distinguishes runs with an execution contract, whose receipt leads to a materialization,
from runs that the receipt itself ends. `Strays` admits the second Dagster run that
`MCOutboxStall.cfg` shows to be possible, with a receipt of its own.

Identity is abstracted: receipts that are replayed with the same nonce, body and run return the
stored answer and change nothing, so one receipt per run is modelled; that a staged receipt may
turn out invalid is the parameter `valid`.

### 2.3 `Idempotency`

| Model | Code |
| --- | --- |
| `saved[k]` | the committed row of `idempotency_records`; one that is in progress is never committed |
| `holder[k]` | the transaction that has inserted the row and not committed: others wait at the unique index |
| `pc[a]`, `answer[a]` | one HTTP request in the server, and the answer on its way |
| `caller[c]` | the retry loop of `CompletionCallbackClient._post_signed`, the one caller in the repository |
| `Reserve`, `Commit`, `Refuse` | `replay_or_conflict`, `save_idempotency_result` with the handler's commit, an exception and the close of the session |

Handlers draw fresh identifiers, so every execution has an answer of its own (`by`); two that agree
are one. A refusal is either stored, and replayed, or raised, and forgotten.

### 2.4 `ActiveBundle` and `Release`

`ActiveBundle` is the abstract specification of a head: `current` serves, `served` have served,
`unfit` are those with something against them. A deployment enters service for the first time only
while it is fit; everything later comes from those that have served. `Release` and `FactSets`
implement it, with different reasons to be unfit: a hard regression on record there, a changed
label version here. The refinement mappings are `Bundle` in `Release`, and `Visible` in `MCFactSets`
for the one namespace that TLC checks and in `FactSetsProofs` for any.

| Model | Code |
| --- | --- |
| `dep[d]` | the row of `release_deployments`; the stage equals the status wherever the code decides on it |
| `cmd[d]` | the latest row of `release_commands` with the run that carries it out; `Open` is the active slot |
| `head`, `ledger` | `release_bundle_heads` and `release_bundle_head_events` of one environment |
| `facts` | whether label, prompt approval, policy, data set, evaluation and scene are still as locked |
| `Create`, `ApproveGray`, `Promote`, `Rollback`, `Sample`, `Bootstrap` | the requests |
| `Dispatch`, `DeadLetter`, `Execute` | the outbox's delivery of the run and its executor |
| `CompleteBlocked`, `CompleteStage`, `CompletePromote`, `CompleteRollback`, `CommandFailure` | the receipt |

The production registry of this commit has no execution contract for
`release_deployment.command-requested`; the tests' fixture supplies one, and the model takes it as
given. A command whose delivery was given up (`run` is `dead`) stays open in the code although
nothing can move its deployment any more, so an open command is no promise that a deployment goes on.
`HeadServes` says instead what the environment may rely on, and the run `release_dead_letter` shows
the slot that is never closed. A receipt whose echo differs from the command is answered by 409 and changes nothing, so
only matching receipts are modelled.

### 2.5 `FactSets`

| Model | Code |
| --- | --- |
| `status`, `manifest` | the row of `label_fact_sets` |
| `run[s]`, `item[s][p]` | `label_recompute_runs` and `label_recompute_run_items`; `exec` is the run of the current attempt |
| `facts[s][p]` | the rows of `label_facts`, by logical key, unique in a namespace |
| `head`, `ledger` | `label_fact_set_heads` and `label_fact_set_head_events` |
| `anchored` | sets whose label version has the resource version that was frozen |
| `CompleteSucceeded`, `CompleteFailed`, `Retry` | `complete_label_recompute_run_item`, `retry_label_recompute_run_item` |
| `Validate`, `Approve`, `Bootstrap`, `Promote`, `Rollback` | the requests that make a set visible |

The model has two consequences of the code that a reader may not expect, and no property against
them: a set whose label version has changed while it is current blocks every later promotion and
rollback of its namespace (`Movable` asks the current set to be intact), and an item that failed
and may not be retried leaves its run unfinished for good. A set that outgrows its budget is
marked blocked and then rolled back with the exception that is raised, so nothing of it is seen.

### 2.6 `LabelOptimization`

| Model | Code |
| --- | --- |
| `schedule` | `label_optimization_schedules`: status, active session, whether a clock is due, bundle |
| `rounds` | `label_optimization_rounds` of the newest session, with the status of their runs; `base` says which round's selected candidate the round's prompt is |
| `tick` | the transaction of `run_once`: when it began, whether a clock was due, the round it read |
| `loose`, `last` | a live optimization run that belongs to no round; when the newest run was created |
| `Begin`, `Abort` | the conditional update that claims the schedule, an exception |
| `Wait`, `HardStop`, `RefuseCandidates`, `CreateEvals`, `GenerationLost`, `JudgeRound` | the cases of `_reconcile_active_session`, each ending in `Finish`, the scan and the clocks |
| `Update`, `Scan`, `Retry` | requests of users |
| `Generated`, `Evaluated`, `LooseOver` | receipts |

The bundle of a round is the one it was created with: model, policy and data set come from the
schedule for every round, the prompt only for the first. A later round is handed the prompt that the
round before it selected or, if that one selected none, its own (`label_optimization_worker.py:715`),
so its prompt is named by the round that selected it, with 0 for the schedule's.

A tick is split where it matters: it reads, others commit, and then it writes what follows from
what it read. The claim update holds the row of the schedule, so there is one tick at a time and
`Update` waits for it; the rows of runs are not locked. Time counts scan intervals, and the three
clocks are one: whether metrics trigger is left open, so which clock fell due makes no difference.
`Registered` says that an execution contract exists for `agent_run.requested`, as in the tests'
fixture; without one every tick with a due clock raises and rolls its reconciliation back.

## 3. The runs

| Run | Instance | Shows |
| --- | --- | --- |
| `outbox_launch` | 1 launch, 2 workers, 2 faults, limits 2/3/3, timely requests, honest errors | at most one Dagster run; failed means nothing left; attempts bounded; the event is settled |
| `outbox_pairs` | any two of a launch, a gated release and a materialization, 2 workers, 1 fault, 2 decisions or drifts, late requests and misleading errors | stale workers harmless; processed means delivered; runs move on; no release through a closed gate; blocked runs and events agree |
| `task_run_race` | 3 controls, contract, strays | one terminal event; success proven; cancelled is stopped; races decided; stale controls harmless |
| `task_run_live` | 2 controls, no contract: the receipt itself ends the run | a cancellation is decided, whatever becomes of its control |
| `idempotency` | 3 callers with one key, 2 of them with one request; 2 attempts each, 2 faults | one execution per key; answers stand; callers finish |
| `release` | 3 deployments of a production environment, 4 commands, 1 drift | only the head serves; the ledger is its history; the active head keeps its service; stale commands are harmless; commands are closed; `ActiveBundle` |
| `fact_sets` | 1 native and 2 recomputed sets, 2 partitions, 2 keys, a budget of 1, 2 attempts, 4 moves of a head | visible sets are whole; vetted sets are frozen; receipts end their own attempt; heads agree with ledgers; `ActiveBundle` |
| `optimization` | 2 candidates, a session of up to 3 rounds, 2 failures, a limit of 1 interval | a session is its last round; nothing outlives it; reviews are earned; every round starts from the newest prompt selected; sessions end |

Four runs are expected to end in a violation. Each checks one sentence of the documentation that
the code does not keep; `PROJECT.json` quotes them under `findings`:

| Run | Sentence | What happens |
| --- | --- | --- |
| `outbox_error` | unknown outcomes are reconciled, never repeated blindly | some errors that follow an effect count as harmless |
| `task_run_lost_cancel` | `cancelling` means termination was requested | a crash before the call is reconciled by a mere query |
| `release_dead_letter` | a failed execution closes the command's active slot and blocks the deployment | a delivery that is given up fails the run only; the command stays open, and every later request for the deployment is refused |
| `optimization_overlap` | one active optimization run per tenant, project and label version | a retry of a failed generation looks at nothing but that run |

Five more instances disagree with the documentation in the same way. They are kept for whoever
takes these sentences up, and are run by hand, e.g. `tlc -config MCOutboxStall.cfg MCOutbox`:

| Instance | Sentence | What happens |
| --- | --- | --- |
| `MCOutboxStall.cfg`, `AtMostOneRun` | `workers/outbox_worker.py:1526`: two proofs of absence make a launch the only safe re-dispatch | the first request was only slow, and there are two Dagster runs |
| `MCTaskRunDeadline.cfg`, `OneDeadlineControl` | `doc/backend-spec/state-machines.md:209`: a single SAFE_TERMINATE control per deadline | the control id is derived from counters that the control changes |
| `MCTaskRunOrphan.cfg`, `EndedRunHoldsNoReceipt` | `doc/backend-spec/event-contracts.md:186`: early receipts end applied or rejected | a dead-lettered launch forgets them |
| `MCTaskRunStuck.cfg`, `WaitsForReceipt` | `doc/runbooks/operations.md:232`: `completion_pending` means that the receipt is missing | it is there, its materialization has been given up |
| `MCReleaseGray.cfg`, `PromotedAfterGray` | `doc/backend-spec/api-contract.md:725`, `state-machines.md:542`: ten percent come before promotion | a healthy sample in shadow leads to `monitoring`, from where promotion is allowed |

Other disagreements were met while reading and have no instance. A receipt with a wrong echo is
refused and leaves its command open (`api-contract.md:725` wants it blocked). The hard stop of an
optimization session writes `blocked` over runs it read without a lock, so a success committed
meanwhile is overwritten (`state-machines.md:33` and 36); an optimization run created over the API
belongs to no round, so no hard stop ever frees the scope from it (`state-machines.md:91`).

### 3.1 Bounds

`MaxFaults` bounds crashes and premature lapses, `MaxFlips` decisions and drifts, `MaxEvents` the
events that are enqueued out of those an instance offers, `DeadlineCap`
the count of deadline controls (two are enough to tell one from several). `MaxAttempts`,
`ClaimMaxAttempts` and `MaxReconcile` are parameters of the code (3, 5 and 5 by default). In
`outbox_launch` the first two differ, as in the code, and all are as small as they can be while an
event still goes through a retry, a lapse, two proofs of absence and a re-dispatch. `outbox_pairs`
offers three events of which two are enqueued, in either order and at any moment: events share
nothing but the workers, so pairs show what a worker carries from one event to the next. Four events
of four kinds, an external write among them, pass as well but need five minutes; the kinds that no
run has (`write`, `index`, `projection`) differ in the answer to a query and in the status their run
ends in, and the theorems cover them. Two workers and
two faults let a stale owner meet one that reconciles or repeats; the theorems of section 4 cover
any number of workers, faults and attempts. `Controls` are slots: a finished control frees its
slot, so there are any number of controls over time, and three at a time are more than API and
monitor create in any race the properties can tell apart. Workers and controls are
interchangeable, hence the symmetry sets; the runs with a liveness property use none.

`idempotency`: three callers are the fewest among which a replay and a conflict meet at one key,
and with two faults a first attempt can be aborted or lose its answer while the second is under
way. Keys do not interact. `release`: four commands publish and promote a deployment and let a
rollback or a second promotion, frozen against the same head, arrive late; a bootstrap needs no
command, so three deployments reach a head that moves there and back. `MaxDrifts` lets the facts of one
bundle change once at any moment. `fact_sets`: two partitions are enough for a half-filled run, two
attempts for a late receipt, and a budget below the number of keys for a refused completion; two
recomputed sets compete for keys and for the head, and `MaxGeneration` leaves room for a rollback
and its repetition. `optimization`: a limit of one interval makes the hard stop reachable from
every stage, and with three rounds a generation can be lost between a round that selected a
candidate and one that starts from it. A horizon of three intervals leaves room for one session; with two
rounds and a horizon of five, in which a second session begins after the cool-down, the safety
properties hold as well (678000 states, run by hand). A session starts only when no other is open
and keeps no round of an older one; the rounds of the newest session are kept, as `NothingOutlives`
has shown of the older ones that nothing is left in them.

Deadlock is not checked: with all events settled and no faults left nothing remains to be done.
That no event is stuck before is what `EventuallySettled` and `CancellationDecided` say.

### 3.2 Fairness

`Outbox`: every worker takes its next step, claims are taken, and the lease of a worker that is
gone runs out. `run_forever` polls in a loop, every remote call has a timeout, and leases are times
in the database. Nothing is assumed of faults.

`TaskRun`: the Dagster run moves on, the monitor creates its query whenever it is due often enough,
and the deliveries of controls move on. Strong fairness is used where other actors may disable a
step again and again: retries are bounded by `_mark_retry_or_dead_letter`, so an attempt does get
beyond its call in the end. A query may fail and be retried any number of times, but not for ever.

`Idempotency`: callers repeat, requests in the server get their turn, and one that waits at the
index gets it in the end (`SF` of `Reserve`): InnoDB grants locks in order. Faults are bounded and
owed nothing.

`Release`: the worker delivers or gives up, the executor answers what it was handed, and receipts
are taken. Users, samples and drifts owe nothing; a command whose delivery was given up is the
exception that `CommandSettles` names.

`LabelOptimization`: the scheduler ticks (`WF` of `Begin`), some tick commits (`SF` of `Commit`:
exceptions may strike again and again, not always), and time passes. The engine owes nothing: it is the
clock that ends a session whose runs never answer.

`FactSets` claims no liveness: every step is a user's or the engine's.

## 4. What is proved

Every invariant and every action property that the passing runs check is also a theorem, and so are
both refinements of `ActiveBundle`. The runs show these on small instances; the theorems hold
for every value of the constants. They use the assumptions next to the `CONSTANTS` of the modules
(sets are not empty, `None` is not a member, limits are natural numbers), and `AtMostOnce` and
`FailureLeavesNothing` the two about the remote side.

None of the safety properties is inductive by itself. Each module states an inductive invariant
(`Inv`; `SafetyInv` and `NoHiddenEffect` in `OutboxProofs`), shows that `Init` implies it and that
every action keeps it, and reads the theorems off it. Every `Inv` was model-checked on the
instances of section 3 before it was proved. Action properties follow from the
invariant and the actions that write the variables in question.

### 4.1 `OutboxProofs`

| Theorem | Property |
| --- | --- |
| `TypeCorrect` | `TypeOK`, with `ClaimsDistinct`: a lease generation is given to one worker |
| `StaleWorkerIsHarmless` | `StaleWorkerHarmless` |
| `ProcessedDelivered` | `ProcessedWasDelivered` |
| `SettledLeavesNoneWaiting`, `BlockedRunIsFound`, `RetriesAreBounded` | `SettledRunMovedOn`, `BlockedTogether`, `AttemptsBounded` |
| `AtMostOnce`, `FailureLeavesNothing` | `AtMostOneRun`, `FailedLeftNothing`, assuming `Timely` and `HonestErrors` |
| `ReleaseNeedsOpenGate` | `ReleasedUnderOpenGate` |

The argument has three layers:

1. `ClaimsDistinct`: generations only grow and each is handed out once, so among all the workers
   that ever claimed an event at most one is `Current`. Everything after this is about that one.
2. `SafetyInv`: what the status of an event says of its delivery state, its counters, its run and
   the step its current worker has reached (`EventInStep`, `ClaimInStep`). `SuccessIsReal` adds that
   a worker that reports success has seen an effect, and effects do not vanish;
   `ProcessedWasDelivered` follows.
3. `NoHiddenEffect`: where an effect can have come from. While an event is `ready` or
   `dispatching` there is none; the mark `outcome_unknown` is committed before the first effect;
   a reply other than success and unknown, in a world of timely requests and honest errors,
   means that there is none. So a launch is only ever sent when `remote` is 0.

`MCOutboxStall.cfg` and the run `outbox_error` show that each of the two assumptions is needed.

### 4.2 `TaskRunProofs`

| Theorem | Property |
| --- | --- |
| `TypeCorrect` | `TypeOK` |
| `RunEndsOnce` | `OneTerminalEvent` |
| `SuccessNeedsProof` | `SuccessIsProven` |
| `CancelledHasStopped` | `CancelledIsStopped` |
| `DecidedTogether` | `DecidedWithCancellation` |
| `StaleControlIsHarmless` | `StaleControlHarmless` |

`LaunchInv` says how far the launch is, seen from the run, its binding and the engine: until the
launch is recorded nobody but the launch moves the run. `ReceiptInv`: a receipt that can still end
the run well is the success of the bound run itself. `ControlInv`: a control is for a bound run,
or for one that was cancelled before its launch, and a cancellation it has observed stays true,
for a Dagster run that has ended never lives again.

### 4.3 `IdempotencyProofs`

| Theorem | Property |
| --- | --- |
| `TypeCorrect` | `TypeOK` |
| `OneKeyOneEffect` | `ExecutedOnce` |
| `AnswersAreTrue` | `ToldWhatStands` |

The unique index is a lock: the attempts at work under a key are the one that holds its uncommitted
row (`Locked`), and a row is held only while none is committed (`HeldIsOpen`). So a committed row is
never written again, and an answer taken from it remains what the row says, on its way
(`AnswersStand`) and arrived (`ToldWhatStands`).

### 4.4 `ActiveBundleProofs` and `ReleaseProofs`

| Theorem | Property |
| --- | --- |
| `ActiveBundleProofs!PromiseKept` | `OnlyTheFitServe`: what serves has entered service, nothing condemned before ever did |
| `TypeCorrect` | `TypeOK` |
| `TrafficIsTheHeads`, `LedgerHasNoGap` | `TrafficFollowsHead`, `LedgerIsHistory` |
| `HeadKeepsItsService` | `HeadServes`: the active head keeps all the traffic until a rollback of it is requested |
| `StaleCommandsAreHarmless` | `StaleCommandHarmless` |
| `ReleaseImplementsActiveBundle` | `ImplementsActiveBundle` |
| `RegressedNeverServes` | `PromiseKept` carried over by the refinement: a deployment with a hard regression on record neither serves nor is in the ledger |

The ledger grows with the head, so generation and length agree (`LedgerInv`). A command in flight
pins its deployment: while it is open the deployment is not observed (`InStep`), so no sample can
condemn what a promotion under way is about to put in service. Once a deployment has served or is
condemned, the only command that can still be open for it is a rollback (`Spent`); hence nothing is
both (`Lived`), and each step of the head is an `Activate` of something fit or a `Restore`.

### 4.5 `FactSetsProofs`

| Theorem | Property |
| --- | --- |
| `TypeCorrect` | `TypeOK` |
| `VisibleIsWhole` | `WholeWhenVisible` |
| `ItemEndsAsItsAttempt` | `ReceiptIsOfThisAttempt` |
| `HeadHasItsLedger` | `HeadIsLedger` |
| `VettedIsFrozen` | `FrozenOnceVetted` |
| `NamespaceImplementsActiveBundle` | every namespace implements `ActiveBundle` |

`FillInv`: a run has work only while its set is reserved for it, a complete run has none left and
kept within the budget, and a vetted set is materialized. Since a complete run offers no step, what
is vetted stays as it is. `HeadInv`: a head and its previous set are published sets of the namespace
that have served, as the ledger tells. TLC cannot check a parameterised instance, so the run
checks the refinement for one namespace and the theorem states it for each.

### 4.6 `LabelOptimizationProofs`

| Theorem | Property |
| --- | --- |
| `TypeCorrect` | `TypeOK` |
| `PointerFollowsSession` | `SessionIsItsLastRound` |
| `NoRunOutlivesItsSession` | `NothingOutlives` |
| `ReviewersSeeWhatPassed` | `ReviewIsEarned` |
| `SessionIsOneLine` | `OneLineage` |

A tick writes the last round from what it read of it, and the engine may have answered since. So
the invariant says what is still true of the reading: all of it but what was read as live
(`SeenStands`). With that, a round that a tick closes has no live run left, and the gates it judged
are those the round keeps. `RoundOK` relates the status of a round to its runs, its selection and the
reason of its stop, `SessionOK` the rounds to the pointer of the schedule and to one another: `Lineage`
carries over from the round that was left to the one that follows, because a round without a
selection hands its own base on (`NextAppended`). The tick's half that is common to all its cases is
one lemma (`FinishStep`), used through `CloseStep` and `FollowStep`.

### 4.7 Model-checked only

* The liveness properties `EventuallySettled`, `CancellationDecided`, `CallersFinish`,
  `CommandSettles` and `SessionEnds`: they rest on fairness, whose `ENABLED` the prover
  does not reason about.
* The runs that end in a violation, which are counterexamples by nature.

## 5. What is not modelled

`PROJECT.json` gives the reason for every component that is left out: most are single transactions
over records, pure compilers of rule documents, presentation, or tooling around databases and
files, in which nothing races. Within the modelled ones:

* an unexpected exception inside `_prepare_claim` is recorded by `_finalize_failure` as a failed
  attempt; `Outbox` knows it only as the end of the worker (`Crash`). With the run of a release
  already blocked by an earlier claim the event may then be pending, or a dead letter, although the run waits
  for a decision;
* telemetry, audit records, agent dispatch records and next-action texts have no effect on the
  protocols; signatures, nonces and hashes are taken to do their work;
* row locks are below the grain of one transaction per action, so deadlocks that the database
  resolves by aborting a transaction appear as failed requests;
* a receipt that arrives while its launch waits for a retry finds a dispatch record without a
  binding and is refused; `TaskRun` has this, but claims nothing about the job that fails over it;
* a shadow sample counts for a promotion as one taken at ten percent does; what the metrics mean
  is outside `Release`;
* the legacy request for an optimization run (`api/routers/labels.py:369`) looks at the scope
  without a lock and then creates; its overlap is the one that `Retry` shows;
* budgets may be edited during a session, and `consecutive_failed_rounds` is never reset; the
  bounds of `LabelOptimization` are constants, and a count that only grows is what it has;
* a paused schedule is never ticked, also with an open session; `SessionEnds` says so.

## 6. Plan

Done: the six protocols with their runs, `ActiveBundle` with two refinements, and a theorem for
every safety and action property of the runs. Next, in this order:

1. More action properties with their theorems, where the invariants of section 4 carry them: what a
   settled event, an ended run and a closed round never do again.
2. What `Timely` and `HonestErrors` give without each other: which half of `AtMostOnce` survives
   late requests, and which survives misleading errors.
3. The composition of `Outbox` and `TaskRun`: that the launch and the controls of `TaskRun` are
   what the delivery protocol of `Outbox` lets them be.
