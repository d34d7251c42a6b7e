# Verification of mailbus

TLA+ specifications of [mailbus](../src/README.md), a message bus for software
agents that keeps its whole state in JSON files.  The Python implementation
(`src/python/lib`) is the reference; paths below are relative to it.

Modules are checked with TLC on small instances, theorems are checked by TLAPS
for every value of the constants.  `PROJECT.json` maps every definition to the
lines it models and lists runs, mutants, hazards, findings and theorems.

## 1. The system

A person (or an intake form) creates a **task**.  The planner gives it a chain
of role types; the **role pipeline** hands the task from one agent to the next.
An agent gets a *work order* in its inbox, is pushed by a CLI, a webhook or A2A,
and answers with a *step result file*.  A periodic **scan** (every few minutes,
in a container and on the host) and an immediate trigger after each result look
at the files and move tasks on.  People intervene through the HTTP API or the
**human queue**.  Nothing but files connects these processes.

| Component | State | Operations | Interacts with |
|---|---|---|---|
| JSON store, file lock (`infra/utils.py`) | files, lock files, a read cache | `json_read`, `json_write`, `file_lock` | everything |
| Task record (`application/orchestration/task_fsm.py`, `domain/fsm.py`) | `tasks/<id>.json`: fsm state and substate, legacy status, chain of steps, plan in `chain[0]`, counters | `ensure_fsm`, `get_active_step`, `create_next_step`, `complete_step`, `apply_rollback`, `revert_failed_advance`, ... | trigger, API |
| Pipeline trigger (`application/orchestration/pipeline/trigger.py`) | none of its own; snapshots of tasks | `trigger` (scan), `trigger_task` (immediate), `_resume_planned_advance`, `_send_task` | task record, results, inboxes, human queue |
| Human decisions (`api/handlers_tasks.py`, `application/orchestration/actions.py`, `human_queue_resolve.py` and `task_recover.py` beside it) | `acceptance.json` | approve, deny, accept, rollback, skip, cancel, pause, continue, resolve | task record, human queue |
| Human queue (`adapters/orchestration/human_queue.py`) | `human-queue.json` | `enqueue`, `close_item`, `close_by_task` | trigger, API |
| Workflow gates (`application/workflow/engine.py`) | gate instances in the task | `maybe_block_after_step`, `on_gate_approve`, `on_gate_deny` | trigger, API |
| Automation counters (`adapters/orchestration/automation.py`) | push and retry counts in the task | bump, exceeded | trigger |
| Task lock (`application/orchestration/task_lock.py`) | `locks/task-<id>.json` with a TTL | acquire, release | `_send_task`, recover, cancel |
| Inbox and delivery (`application/scan/inbox.py`, `application/push/pusher.py`) | `inbox/<agent>/inbox.json`, message states | scan, queue, push, stale recovery | agents, acks |
| Acknowledgements (`adapters/results/ack*.py`) | `ack.json` per agent | write, consume | agents, inboxes |
| Role resolution, failover, collab plans (`application/orchestration/dispatch/`) | round-robin marks, step assignment | resolve, fail over, join | trigger |
| Tracker and reminders (`application/orchestration/tracker.py`) | reminder counts, timeouts | create, list, check | task record |
| A2A transport and polling (`core/a2a/`, `application/orchestration/a2a_poll.py`) | remote task ids on steps | dispatch, poll, cancel, resume | remote agents |
| Intake (`application/workflow/intake/`) | intake documents | gates, spawn | tasks |
| Scheduler, plane, lifecycle, transfer saga | job states, mutexes | run, start, stop | processes |

What is hard here:

* **Interleaving on stale snapshots.** A scan reads *all* tasks before it
  processes the first one and writes each snapshot back; `mailbus-scan`, its
  lock, lives in a machine's temporary directory, so host and container scan at
  once, and people and immediate triggers run in between.
* **Partial failure.** A step of the trigger writes results, orders, queue
  items and the task in separate files; it may die, or a delivery may fail,
  between any two of them.
* **Long sequences of legal calls.** Rollback, skip, continue, pause, denial and
  gates act in almost any state of the task.
* **Locks that give up.** `file_lock` falls back to a global lock after a
  deadline and unlinks its lock file on the way out.
* **Time.** What an inbox does with a message depends on its age, and the same
  message may be pushed, acknowledged, retried and reset by four processes; the
  task lock ends by a ttl; time stamps decide whether a cache is used.
* **Liveness.** Retries, redos and extensions must come to rest; a waiting task
  must have somebody who knows; a lost CLI must not keep a message for ever.

What makes a component correct: a lock excludes, releases after a crash and
never waits for ever (file lock); a chain has unique step ids and at most one
live step (task record); a line ends only when its plan was served, always has
a next move while it executes, uses a result once and never undoes a person's
decision (trigger); a waiting task has its item in the queue, and a person is asked once
(human queue); no work goes out before approval (decisions); a task leaves an
inbox only with its result and an open one is not forgotten (delivery); a
document is never torn and a reader is not stale for long (store); a step uses
one channel and leaves a result, an order or a question (A2A); what an order
links exists (intake); a lock is held until it is released (task lock); what
runs is what is configured (plane); a join comes after its members and before
what follows (collaboration).

## 2. Modules

| Module | Models | Notes |
|---|---|---|
| `FileLock` | `file_lock()` in `infra/utils.py` | threads, nesting, inodes apart from names, fallback, crash |
| `Mutex` | what callers count on from a lock | abstract: taken when free, given back or lost with its process |
| `JsonStore` | `json_read`, `json_write` in `infra/utils.py` | one file, its cache per process, one temporary name |
| `TaskData` | the task record and the pure functions on it | constant-level operators |
| `TaskFsm` | one task: trigger, agents, people, gate, budget | extends `TaskData` |
| `TaskLifecycle` | what the bus promises about a task | abstract: no steps, files, snapshots |
| `TaskRefinement` | `TaskFsm` implements `TaskLifecycle` | `INSTANCE ... WITH` |
| `CollabJoin` | a parallel group and its join at the head of a task | one scan at a time |
| `Delivery` | one agent's inbox with scan, pusher, CLIs, acks | messages of three kinds |
| `HumanQueue` | `human-queue.json`, the acceptances asked in it and those who work on copies of tasks | several tasks |
| `A2aDispatch` | one step handed to a remote agent | retries, polls, questions |
| `TaskLock` | `locks/task-<id>.json` with its callers | names, ttl, cancel |
| `Intake` | one order with its gates and tasks | requests overtaking each other |
| `PlaneSaga` | enabling and disabling frameworks | compensation |
| `MCFileLock`, `MCTaskFsm`, `MCDelivery`, `MCStores` | | constants for TLC; `MCStores` joins the small components |
| `TaskFsmProofs`, `TaskStopProofs`, `TaskLineProofs`, `TaskRefinementProofs` | | TLAPS proofs about the task |
| `DeliveryProofs`, `QueueProofs`, `StoreProofs`, `MCStoresProofs` | | TLAPS proofs; `QueueProofs` is about `HumanQueue`, `A2aDispatch`, `CollabJoin` and `TaskLifecycle`, `StoreProofs` about `FileLock`, `JsonStore`, `TaskLock`, `Intake` and `PlaneSaga`, `MCStoresProofs` about all nine together |

How they fit together: `TaskFsm` is the middle.  An order it gives out (`orders`)
is a message of kind `order` in `Delivery`, whose `StepEnds` is the task moving
on; its `pending` items are those of `HumanQueue`; the branch of `_send_task`
for a remote agent is `A2aDispatch`, the lock around it `TaskLock`; a plan that
begins with a group is `CollabJoin` until its join; the files of all of them are
written through `JsonStore` under `FileLock`; `Intake` creates tasks.  The
modules are checked apart, not as one product: each takes what the others do to
it as an action of its own that may happen whenever its state allows it
(`StepEnds` in `Delivery`, `ScanAsks` in `HumanQueue`), and where a module
relies on another one without its faults section 7 says so.

### FileLock

`dir` is the lock directory (name to inode), `owner` who holds an inode's
`flock`, `fd` each call's descriptor, `place` where a call is, `stack` the
nesting of calls of a thread.  `Enter` is `file_lock` up to its first poll,
`Acquire` a successful poll, `FallBack` the deadline of the path's lock,
`GiveUp` that of the global lock (`TimeoutError`), `Release` and
`UnlinkLockFile` its `finally`, `EnterNested` the re-entrant pass through the
global lock.  `UnlinkOpen` is the set of paths whose lock file can be unlinked
while others have it open: all of them on POSIX, none on Windows.  The run has
one path of each kind, so that one state space shows what either platform does;
the paths share nothing but the global lock.  `SureLock` reads it as the `Mutex`
of the locks whose file nobody unlinks while it is open (the global one, and
Windows' own): a thread holds such a lock while it is in the body by virtue of
it, and everything else, descriptors, polls, timeouts, unlinks, is a stutter.

### JsonStore

A document is the set of updates it contains, with the state of its bytes and
its `mtime`; `tmp` is the temporary file of that name.  `Peek` is a `json_read`
outside the lock whose result will be written back, `ReadLocked` one inside;
either may be served from `cache` (`Hit`: not older than `Ttl`, same `mtime`).
`OpenTmp`, `Dump` and `Replace` are the three steps of `json_write`, each of
which may be the last before `KillUser`.  A caller that enters while another is
inside has waited out its deadline (`overlapped`): `handle` then tells whose
open temporary file was renamed meanwhile.  `Later` advances the clock of the
time stamps.

### TaskData and TaskFsm

The variable `task` is `tasks/<id>.json`; a step is its id `<<step, attempt>>`
(the code writes `s<step>`, or `s<step>a<attempt>` from the second attempt on), its role, `fsm_state` (`fs`), legacy
`status` (`st`) and `result_consumed`.  `plan` is
`chain[0].planned_role_types`.  `orders` are the unanswered work orders, `result`
the result files, `pending` the task's pending queue items by type, `verdict`
the decision in `acceptance.json`.  `snap[w]` is the task as worker `w` holds it
in memory, with `acted` once only its last write is left.  `actor` records who
took the last step, for the action properties.

The trigger is split where other processes can come in between: `Read`
(`list_all`), then one action for everything up to its last write - `Idle`,
`FinishChain`, `ResumePlanned`, `Submit`, `NobodyToRedo`, `Retry` - and `Write`.
The action itself performs the normalising write on entry and the effects on
inboxes, queue and results; `Crash` drops the snapshot before the last write.
`Submit` is `apply_submit` from `complete_step` on with its clarification, gate,
planned-role and role-flow branches; `GiveOut` is the dispatch of the next step
with the budget check and the revert.  A person's request reads and writes
within one handler and is one action: its own races with the scan are those of
the scan's snapshot.  Which agent gets a step, and what the role flow says, are
choices (`AgentMayLack`, `Flow`); what a result says is one of `Kind`.

Constants switch behaviour on and off (`MayCrash`, `SendMayFail`,
`AgentMayLack`, `Concurrent`, `Ops`, ...), so that each run asks its question in
a state space that contains the case and little else.

### TaskLifecycle and TaskRefinement

The abstract lifecycle knows a phase, the roles `served` and those `todo`.
`TaskRefinement` reads the chain as the roles served and maps the fsm state to
the phase; a retry, a failed delivery, a push or a look at the task is a
`Proceed` step.  Overrides (rollback, skip, continue, pause, gates) are not part
of the promise, and the run leaves them out; so does it leave out a missing
agent, which loses a planned role (see Findings).

### CollabJoin

The chain is `Width` members, the join and one step for the rest of the plan.
`DispatchGroup` is `dispatch_parallel_collab_steps`, where each order may fail
to arrive and its step is then never made; `Report` an agent's result.  The
trigger looks at one step (`LookedAt`: the active one, else the latest) and does
one of `Await` (a member is done, others are not), `GroupDone` (all are: the
join is given out, or, under review, the decision is made and not written),
`Advance` (an ordinary step) and `LookAtCompleted` (`_resume_planned_advance`
and the finish of a chain).  `first[m]` is the first member that has `m`'s
agent: results are attributed by agent (`Attributed`).  `SkipStep` and
`ContinueTask` are `apply_skip` and `recover_continue`.

### Delivery

`box[m]` is what `inbox.json` says of a message: delivery state, status, push
count, an age in three classes (the code's limits of 3 to 10 and of 30 to 45
minutes are its borders) and whether a reply is recorded.  `scan` is where the
scan is: `ScanAcks`, `Heal` (`sync_tracker_and_inbox`), `Recover`
(`recover_inbox_stale_states`), `Pick` (the queue and its limits), `Housekeep`.
`job[p]` is a push by the scan or by the API right after a send: `Mark`,
`Launch` or `LaunchFails`, `Finish` (a reply is noted, or the push is).  `cli`
are the messages a CLI works on, `watch` those whose CLI has a thread waiting
for its exit (`Watched`) or its timeout (`TimeOut`); `Crash` is mailbus dying,
which leaves CLIs without a thread.  `Retry` is `cmd_retry`, `Ack` is `cmd_ack`
with the copy it leaves in `ack.json`.  Every function that reads the inbox,
changes it and writes it is one step.

### HumanQueue

`hq[i]` is the status of an acceptance item, `about[i]` its task, `fsm[j]` what
the file of a task says.  Only `enqueue` (`Ask`, which uses a pending item of the
task again) and `close_item` (`CloseItem`) hold the queue's lock.  All others
work on copies, so each of their reads and writes is a step, and anybody may come
between: a scan reads the task (`ScanReads`), writes that copy back and sets it
accepting in memory (`ScanEnsures`), asks (`ScanAsks`) and writes it
(`ScanWrites`), and may die anywhere (`ScanDies`).  A decision in the queue is
`Look`, `CloseItem`, `ReadTask`, one on the task's page `JudgeTask`; both go on
with `FindRest` and `CloseItem` (`close_by_task`) and `WriteTask`.  A cancel is
`CancelReads`, `CancelSaves` and `CancelWrites`.  `BlockUnanswered` is the scan's
timeout.  A request that dies is one that never takes its next step.  Items that
`enqueue` does not deduplicate (`push_budget`, `human_queue.py:73-99`) are not
in the module, so `AskedOnce` says nothing of them.

### A2aDispatch

`remote` are the remote tasks, one for every `SendMessage` that arrived; `leg`
is where the router is, `tries` and `polled` its counters, `noted` the remote id
the task file names.  `SendMessage` may lose its reply, `Poll` concludes, asks
or fails, `FileBus` is the fallback, `CallerWrites` the caller's write of the
task it has had in memory since before the dispatch.  Around it: the remote
agent, the person who answers (`AnswerItem`), `SendResolve` and `ResumePolls`
(`resume_after_resolve`), the scan's `PollPending`, and a cancel.

### TaskLock, Intake, PlaneSaga

`TaskLock`: a call looks, then goes on under the lock it finds (`Borrow`), or
acquires it; names, not calls, hold the lock.  `took` are the calls that
acquired it, `excused` those of them whose lock somebody else ended.
`Intake`: `Begin`, `Check`, `Create`, `Link`, `Write` are the stages of a
request, which writes the whole order it read; `disturbed` notes that one died
or was overtaken.  `PlaneSaga`: `Intent`, `Start`, `CommitEnable`, `Undo` and
`RestoreEntry` are `enable_framework`, `DisableStops` and `DisableWrites`
`disable_framework`, each with the `config.json` it has in memory; `untidy`
notes a stop that failed or an entry of another framework that was undone.

## 3. Runs

| Run | Question | Result |
|---|---|---|
| `stores` | the nine small components, one at a time (below) | holds, 203k states |
| `delivery` | a task closes only with its result, the first open task is pushed until it has one, an order whose step is over leaves the inbox, a waiting message has no pushes counted | holds, 148k states |
| `task_line` | a three-role line with every failure: accepting and succeeded mean finished, waiting has its item, nothing before approval | holds, 76k states |
| `task_people` | rollbacks, skips and gate decisions in any order, orders arriving: unique ids four steps deep | holds, 182k states |
| `task_two_scans` | two scans on stale snapshots, rollbacks, continues, budget pauses, a cancel: one live step, a next move | holds, 365k states up to symmetry |
| `task_live` | the line comes to rest; a result is used once, roles leave the plan only as steps, what a person stopped stays stopped; every scan that leaves it executing uses up a push | holds, 32k states |
| `task_refines` | `TaskFsm` implements `TaskLifecycle` | holds, 46k states |
| `filelock_posix_mutex` | the docstring's exclusion | violated |
| `task_blocked_passed` | a blocked task waits for a person | violated |
| `task_plan_lost` | a role leaves the plan only by becoming a step | violated when an order does not arrive |
| `task_stale_write` | a finished or stopped task stays so | violated by two scans |
| `collab_review` | a group whose join needs a review comes to wait for its reviewer | violated |

`MCStores` chooses a component in its first state and lets the others stand
still, so the state space is the sum of theirs and each property is one
component's:

| Component | Properties in `stores` | Instance |
|---|---|---|
| `FileLock` | `KeepsMutex`, `NoOrphanLock`, `NoDeadlock` | two threads, one path of each platform, nesting, crashes |
| `TaskLifecycle` | `PlanKept` | a plan of three, line extended to six |
| `HumanQueue` | `AskedOnce`, `QueueKept` | two tasks, two items, one scan, one decision, one cancel |
| `JsonStore` | `TornNeedsOverlap`, `StaleIsShort`, `LostOnlyInATick` | two processes, two updates, three ticks, a ttl of two |
| `A2aDispatch` | `OneChannel`, `SomethingLeft`, `DispatchEnds` | two attempts, three polls |
| `Intake` | `LinkedExists`, `AloneIsWhole` | two requests, a gate that spawns and one that does not |
| `TaskLock` | `LockHeld` | two pushes with names of their own, two recoveries that share one |
| `PlaneSaga` | `RunsAsConfigured` | two frameworks, two mounts |
| `CollabJoin` | `JoinIsLast`, `JoinComesFirst`, `GroupIsRead` | a group of three, agents shared in any way |
| all | `StoresTypeOK` | |

**Bounds.** `MaxSteps` bounds the chain and the plan (2 to 4: enough for the
planned roles and a redo or an extension behind them), `PushLimit` and
`RetryLimit` are the code's own limits set low (2 or 3) so that they are
reached, nothing caps the count of retries (`bump_retry_count`), and no run
combines rejected results with an operation that sends a task on after it
blocked on their limit; `MaxServed` bounds the abstract line, `MaxDepth` the
nesting of locks, `Inode` has one more element than can be referred to at once.
Two workers are enough for stale snapshots: a snapshot goes wrong by one other
write. The two scans run the same code, so `task_two_scans` takes them as
symmetric; the runs with liveness do not. One task is enough in `TaskFsm`
because tasks share only the inbox files and the queue file, which the model
keeps per task and `Delivery` and `HumanQueue` share out.

`Instances` of `Delivery` says which messages are sent and which events beside
the pushes happen to them: each kind alone with nearly everything, and two
messages together without faults, for the order of the queue; `MaxPushes` is the
code's limit, set to one so that a counted message would be held back at once.
`Item` bounds the ids of queue items; the tasks of the queue are alike, so the
first item is never the second task's (`FirstAsks` in `MCStores`, in place of a
symmetry that liveness would not allow).  `MaxUpdate` and `MaxTime` the updates and
ticks of a document, `MaxRetries` and `MaxPolls` are settings of the code.  An
untidy state ends a behaviour of `PlaneSaga`, and an overlap stops the clock and
new updates in `JsonStore` (`~untidy`, `~overlapped` in the guards): the
properties claim nothing of such a state or of what follows it.

**Deadlock** is checked in the `TaskFsm` runs except `task_people`, where the
bound `MaxSteps` (not the code) stops a chain that people kept extending.  It is
not checked in `stores`, `delivery` and `collab_review`: a dispatch that
returned, an inbox whose messages are all done and old, an order with all its
gates decided and a document with all its updates really are at rest.
`NoDeadlock` says of the locks what the check would say.

**Fairness.** `FileLock`: a started call is scheduled and its clock advances, so
each of its steps is weakly fair; nobody is obliged to start a call.  `TaskFsm`:
the scan is run again and again by the scheduler (weak fairness of
`Trigger(w)`), and an agent that holds a work order answers in the end
(`Agents`).  People are never obliged to act, so every liveness property ends in
a state where the task waits for one.  `Delivery`: the scan comes back, the API
finishes a push it began, a thread sees the exit or the timeout of its CLI and
time passes; agents need not answer, and a CLI without a thread may run for
ever, so `FirstTaskPushed` says only that nobody being at work and nobody
pushing is never the end of it.  Both liveness properties are stated apart from
a scan that always raises (`ScanFails`, below).  `A2aDispatch`: the router goes
on (`Dispatching`); a dispatcher that was killed is one way to end.
`CollabJoin`: the scan comes back, and agents with an order report.  There is
one weak fairness for all reports: a report is made once for every order, so
they cannot keep one waiting for ever.

## 4. Findings

* `filelock_posix_mutex`: after its timeout a caller goes on under the global
  lock while the holder of the path's lock is still inside, and the unlink on
  exit lets the next caller lock a fresh inode.
* `task_blocked_passed`: a task blocked on its last step (gate, verification) is
  moved to acceptance by the next scan, since `_process_task_pipeline` does not
  look at `blocked` before it finishes a chain.
* `task_plan_lost`: `revert_failed_advance` does not restore the role that
  `resolve_next_assignee` popped.
* `task_stale_write`: a scan that holds an old snapshot takes an accepted task
  back to what it was.
* `collab_review`: `apply_submit` answers `await_join_review` when a group with
  `join_gate: review` is complete, and the trigger has no branch for it: it
  returns without writing.  The stored task stays executing, every scan decides
  the same again, and `apply_approve_join` refuses for ever with
  `not_awaiting_join_review`.

Further behaviour the models have; the hazards of `PROJECT.json` name the lines.

*Task.*  A redo whose order fails hangs; a failing result that finds nobody is
tried again on every scan; a gate approval or a budget resume revives a task
that is blocked for something else, and closes any pending `workflow_gate` item;
a failing result advances while planned roles are left; `continue`, a rollback
and a gate approval each give out a step of an unapproved plan in one call; an
approved gate beside a queued redo gives two live steps; a
crash between archiving a rejected result and pushing the step again leaves an
executing task without an order; a task sent on after it blocked on its retry
limit is counted past it with every further rejection.  Two steps may get one id, and so one result
file: a redo takes the number of the step given up and one attempt more than the
*last* step of the chain, so with a redo whose order failed, a gate approved
beside it, a skip and a rollback, `s1a2` is given up and appended again.

*Group.*  Members that share an agent hang it: a sibling's result is attributed
to the other's step and refused.  A member that fails counts as done.  A group
dispatched in part and continued skips its join.

*Delivery.*  Recovery resets the push count whenever it puts a message back, so
the push limit and the cooldown are never reached (`WaitingIsUncounted`) and a
task nobody answers is pushed for ever.  `try_silent_failure_failover` imports a
module that does not exist: while the CLI of a running order is silent, every
scan ends in recovery and nothing of any agent is pushed (`ScanFails`).  The
push right after a send does not look whether the agent is busy: two CLIs may
work on one message.  The first task of an inbox holds up those behind it for as
long as it is unanswered.  A CLI's timeout resets a task that was answered in
time; the next scan closes it again.

*Queue, A2A.*  A cancel's write loses what others wrote to the queue since it
read it.  The trigger asks for an acceptance (`actions.py:61`) on a copy of the
task and writes the task after it: with a cancel in between, the cancelled task
has an open item, which nothing takes back if the scan dies before its write or
the cancel writes last (seven steps in `HumanQueue`; `QueueKept` claims
nothing of a task somebody has a copy of).  The timeout of a question blocks its task in whatever state it is.  A
retried `SendMessage` leaves the first remote task working; one that still works
after the last poll is recorded as failed; the remote id written to the task
file is overwritten by the caller's copy, so the poll of the scan does not find
it; a denied question leaves the step hanging; one question is enqueued twice
(the second call finds the first item).

*Locks, intake, plane.*  Calls of `recover_continue` share one holder name and
release each other's lock.  A crash between creating a task and linking it makes
every later approval fail (the task exists), and an approved gate may still be
denied.  Enabling a framework again that runs, and failing, stops it and
restores an entry that says it is on (`RunsAsConfigured` forbids only the
opposite); a framework without a stop command is stopped successfully and runs
on, which the model takes as a stop that failed.

## 5. Proofs

Every theorem holds for all values of the constants that meet the named
`ASSUME`s of the modules: these say what type a constant has, that limits are
positive, that a null value is none of the others.

Of `TaskLifecycle`, `QueueProofs` shows `TypeOK`, `JudgedIsServed` and `PlanKept` for any
roles and any plan.  `PlanKept` needs `JudgedIsServed`: a line sent back gets
its redo at the end only because nothing of the plan is left.  `ServeKeepsLine`
(moving the head of `todo` to the end of `served` keeps the concatenation) and
`ExtendKeepsPlan` carry the argument.

`TaskFsmProofs` shows `TypeOK` for any roles, workers, plans and limits.  The
invariant `IInv` says more of every task, on disk and in a worker's memory: it
is `Good`, its chain is never empty, and the step at position *j* has a number
and an attempt of at most *j*.  Only with the latter do step ids stay within the
chain's length when redos count attempts up; the push bound follows from
the check made before each count, and of the retries, which the code lets grow,
nothing is claimed.  `ChainKept` (what keeps the ids of a
prefix keeps a chain) and `ActiveInChain` (`get_active_step` finds a step)
carry the data part, one lemma per action the rest.

`TaskStopProofs` shows `NoRevival` for `Concurrent = FALSE`: at most one
snapshot is out (`OneSnapshot`), one not acted on agrees with the file on the
state (`Agrees`), and the trigger acts only on tasks that are not stopped
(`ActsOnRunning`).  `task_stale_write` is what happens without the assumption,
which the code does not provide for.  The same module shows
`NoWorkBeforeApproval` under that assumption and without `rollback`, `gate` and
`continue`, the three operations that give out the step of a plan nobody has
approved (section 4).  The invariant `ApprovalInv` says what makes it hold: while
the approval is asked for or the task is still `created`, there is no order, no
result and no done step, on disk (`Untouched`) and in what the trigger holds
(`SnapsUntouched`), so no branch of the trigger applies; `Moves`, shown of each
of them, says the trigger neither asks for an approval nor makes a task `created`
again.

It also shows the safety half of `LineComesToRest`.  `ScansWearOut` says that
the counters of pushes and retries never go back and that every scan which
leaves the task executing has used up a push, also when it sends a rejected step
again; as `TaskTypeOK` bounds the pushes, at most `PushLimit` scans do that,
whatever people do between them, with crashes.  `WearInv` compares what the scan holds with the file: before it
acts, it has the file's counters, afterwards, if still executing, more pushes.
Assumed are `Concurrent = FALSE`, as a stale write takes the counters back, and
that orders arrive: `revert_failed_advance` takes back the count of one that does
not, and the next scan tries again, without a limit.

`TaskLineProofs` is about the order of a chain.  Its invariant `LineInv` says of
the task on disk and of every copy a scan holds: the ids of the steps come in
the order `create_next_step` counts them, only the last step may be live, a task
that is being judged or accepted has its plan used up and every step closed, and
a task not yet started has one step.  That is inductive for any number of
workers, with crashes, lost orders and snapshots that overwrite what people
wrote, because it speaks of one copy at a time; `OneLiveStep`, `UniqueStepIds`
and `AcceptingIsFinished` follow from it.  The one request left out is the
workflow gate: `on_gate_approve` may append a step behind one that is still
queued.  The proof goes through a few relations.  What the trigger makes of the
task it holds is one of `Judges`, `Blocks`, `GivesOut` and `Reopens`, what a
person makes of it one of `Relabels`, `Misses`, `SetsOff`, `Replans`, `SendsBack`
and `Marks` (`WorkerActs`, `PeopleRequest`); the invariants are proved of those
and never look at a handler again.
`SucceededIsFinished` and `WaitHasItem` need in addition that no request comes
between a scan's read and its write (`Concurrent = FALSE`): a denial may
otherwise come under a scan that is about to write its acceptance, and a decided
item's task be written back.  `WaitHasItem` also leaves out the requests that
close an item and leave the task as it is (`queue_refused`, `deny_missed`), and a
cancel together with what revives a cancelled task (`rollback`, `pause`): the
cancel has closed the items the task then waits for again.

`TaskRefinementProofs` shows `PlannedRolesServed` and `KeepsLifecycle`, both for
scans that have the task to themselves.  `SoleInv` says that one copy is out and
that it is the task on disk until it is acted on, `ServedInv` that what the scan
is about to write has made a step of the role it took off the plan.  A role is
lost only where the code loses it, which `Lossy` names: no agent for it, an
order that does not arrive, a decomposition into nothing.  The refinement is
shown step by step (`LifecycleInit`, `ScanStep`, `RequestStep`): each step of `TaskFsm`
is one of `TaskLifecycle` or leaves its variables alone.  It holds of the lines
`PlainLine` names, whose people approve, deny and cancel and whose finished
steps never leave the task blocked, for any roles, plans, limits and workers,
with crashes and with auto acceptance.  `CalmInv` (a blocked or unapproved task
has its last step undone, so that no scan takes it for finished) and `OnwardInv`
(what a scan is about to write goes on with the task on disk, so that the two
writes of one scan are one step of the lifecycle) carry it.

The same module shows the two promises of the line that are about result files
and orders.  `ResultUsedOnce`: `SpentInv` says that a result file's step is
consumed as soon as the file was used, and that no request or scan gives back
the mark (`ConsumedKept`).  It holds under `KeepsConsumed`, which lets people act while a scan has the task:
`SpentInv` speaks of the copy, which the scan writes back over what they did,
and of the file only when there is none.  A crash between the
advance and its write, a step continued by hand and an order lost when the owner
confirms open a step beside its used file, as TLC shows on small instances;
gates and two scans that overlap are outside the argument, without a
counterexample.

`ExecutingHasNextMove`: `GoingInv` says that the last step of an
executing task is out (it has an order or a result) and awaits its result, or
ended well and the owner's confirmation resumes from it.  It says so of every
copy a scan holds, and of the file when no scan holds one; of the file at any time
if the scan may die or others act meanwhile (`Shared`).  A retry archives its
result before it gives the order out again, so then such results
(`"unverified"`) have to be left out.  `KeepsGoing` names what people and failures may
do, for any number of scans that overlap with each other and with requests.
TLC refutes the property with `budget` beside results that block a task,
with `gate` or `queue_deny`, with the owner's confirmation beside a rollback, a
denial, a continue or a skip, with rollbacks, denials or continues whose order
is lost, with crashes beside `"unverified"` results, and with overlapping scans
of which one accepts automatically (it withdraws every order, and the other
writes the executing task back).  That the owner's confirmation excludes crashes
and overlap is a limit of the proof.

`DeliveryProofs` shows `TypeOK`, `ClosedTaskAnswered` and `WaitingIsUncounted`
for any number of messages, of any kinds, and any push limit.  A message is
closed by a recorded reply long after the reply, so the invariant adds
`FinishedAnswered` (a task with a recorded reply is answered, or its step is
somebody else's), `UnsentIsNew` and `PushesSent`.  The lemmas go by the
functions on one record (`RecoveredKept`, `HealedKept`, `AcknowledgedKept`):
each keeps a record good, and an action writes only such records.

`QueueProofs` shows `AskedOnce` for any tasks, items, scans and requests.  A cancel
may write an old document back, so the invariant says of every document held
somewhere that it has at most one pending item of a task and none under an id
that nobody was given (`OnePending`, `NewIsAbsent`, `DocsKept`): what a cancel
brings back is never a second item.  The rest of the invariant is what those who
work on copies know: a scan that asks has set its copy accepting, a request
closes an item of its own task (`ScansKnow`, `HandsKnow`).  `QueueKept` follows
from it: apart from that save of a cancel a step asks under an id nobody has or
closes one item (`ItemsKept`), and a task that is over, asked about nowhere and
in nobody's hands stays so (`SettledKept`), as by `StaysSettled` only a copy
could bring it back; `ScanKeepsQueue` and `DecisionKeepsQueue` show both.  `OneChannel` and
`SomethingLeft` of `A2aDispatch` need where in the router a result, an order or
a question can already be there.  Of `CollabJoin` it shows `JoinIsLast` and
`JoinComesFirst` for a group of any width: `AtStart`, `InOrder` and `Undisturbed`
say which steps exist at which point of the line; `AllInMeansAll` turns the count
of the code (as many members over as there are) into every member being over.

`StoreProofs` shows `LockHeld`, `LinkedExists`, `AloneIsWhole`,
`RunsAsConfigured`, `TornNeedsOverlap`, `StaleIsShort` and `LostOnlyInATick`.  `LockHeld` rests on a
call in `took` having seen the lock under its own name (`TakenInside`);
`AloneIsWhole` on what the only request's copy knows of the stored order
(`AloneKnows`); `RunsAsConfigured` on what each
stage of a saga knows of its own framework's entry; `TornNeedsOverlap` on only
one process being inside, whose temporary file is the one of that name
(`Serial`); `StaleIsShort` on a cache expiring `Ttl` after it was read, and what
it misses having come into the file no earlier (`Expires`).  `LostOnlyInATick`
needs what every process knows of the document: `TickInv` says that a cache with
the document's time stamp, and what was read within the lock, miss only updates
of the document's own tick, in which they have one themselves, and that an update
started and not yet written is in no document.

Of `FileLock`, `StoreProofs` shows `LockTypeOK`, `NoOrphanLock` and `KeepsMutex`
for any number of threads, paths and inodes.  The inductive
invariant adds that a polling call has a descriptor (`HasFd`), that every
fallback refers to the inode of the one global name (`OneGlobalInode`: that
name is never unlinked), that a call in its body owns its inode and only such a
call does (`BodyOwns`, `OwnerInBody`), and that a path whose open lock file
cannot be unlinked keeps its inode while in use (`OnePathInode`).  From it follow
`FallbackExclusion` (the global lock) and `OwnLockExclusion` (a path's own), and
the refinement, one lemma per kind of step: `AcquireTakes` and
`AcquireGlobalTakes` find the lock free because an unowned inode means an empty
body, `ReleaseGives` and `DeathVanishes` empty it, and a step after which the same
threads have the same locks is a stutter (`SameHolders`).

`MCStoresProofs` is about the composition `stores` runs.  `StoresAreTheirParts`:
a behaviour of it is, seen by each of the nine components, one of that
component, so the theorems above hold in it; `StoresTypeCorrect` puts the type
theorems together.

Only model-checked: liveness (`NoDeadlock`, `LineComesToRest`,
`FirstTaskPushed`, `WithdrawnOrderClosed`, `DispatchEnds`, `GroupIsRead`), which
rests on fairness.  Every invariant and every action property a run checks is a
theorem, some under assumptions that are named above.

## 6. Order of work

1. The file lock, the task's core and the abstract lifecycle, with their proofs.
2. Inbox, push and acknowledgement; the human queue; the JSON store; the task
   lock.
3. A2A dispatch, intake, the plane's sagas, the collaboration group.
4. The proofs about 2 and 3.
5. The order of a task's chain and the step simulation behind `KeepsLifecycle`.
6. The lock as a mutex, the composition of the small components, what wears a
   line out, and the proofs of 5 for scans that overlap.

What is left and would be next: step failover between two inboxes, the transfer
saga, and rollbacks of a group.

## 7. Not modelled

Every component and the reason is in `PROJECT.json`.  The definitions stand for some 6,400 lines, about a tenth of
the Python library.  Most of the rest is HTTP handlers that format what is
stored, configuration and its checks, command lines and containers of agents,
metrics, and calls to models and integrations; a second implementation is in
Java.  Little of it keeps state that several steps could bring out of order, and
modelling it would mean translating formats.  The exceptions are named below.

* Left out as a whole: the router and planner (the plan is a constant of
  `TaskFsm`), role and station resolution (a choice), step failover (a lookup;
  `Delivery` has what it leaves in the old inbox), the tracker's reminders
  (`_check_timeouts` raises `UnboundLocalError` before it does anything), the
  iteration engine, audit dispatch, the scheduler (one thread, jobs one after
  the other), the transfer saga (as `PlaneSaga`, over files it copies), self
  heal and watchdogs (heuristics over time stamps and process lists), the device
  bridge, the harness, the token ledger.
* In the task: stations, dual coding, more than one gate, gate validators,
  legacy `planned_agents` chains, and the wording of messages, histories and
  audit fields.
* In a group: rollbacks, the role flow, the push budget and crashes; groups that
  are not at the head of a plan are expanded into ordinary roles by the code.
* In delivery: several agents, archiving, forwarding, mark-read, dead letters
  (written, never read) and how a CLI is built and talked to.  Updates of one
  inbox that overwrite each other are left to `JsonStore`: `Delivery` takes
  every function that writes the inbox as one step.
* In the store: the repair of a file that does not parse and `jsonl_append`.
  `TaskLock` does not consider that its file may be read from the cache.
* In A2A: the message-port path, streaming, the wire format and the file bus's
  wait mode.  In intake: gates delegated to the task, decision and stage.  In
  the plane: agent roles and the failing of running tasks before a disable.
