# Corvid: TLA+ models of the agent runtime

Corvid is a language for agents. Its compiler and code generators are
sequential programs on syntax trees; what runs concurrently, is persistent,
depends on time or on a long history is the runtime
(`src/crates/corvid-runtime`, `src/crates/corvid-vm`): a durable SQLite job
queue that a pool of tokio workers and several command-line processes share,
budgets and stall checks on the jobs' agent loops, cron schedules that are
recovered after a restart, an approval queue in which people decide about
jobs' dangerous actions, a store of versioned records, the trace of a run and
its replay, and the collector of the interpreter's heap. That is what this
directory models, checks with TLC and proves with TLAPS.

## Inventory

| component | state | operations | what is hard | correct when |
|---|---|---|---|---|
| Durable job queue (`queue/mod.rs`) | rows of `queue_jobs` (status, lease owner and expiry, attempts, next run, approval), `queue_controls` (paused), `queue_concurrency_limits`, `queue_job_audit_events` | enqueue, lease_next, complete_leased, fail_leased, enter/decide approval wait, retry, cancel, pause, drain, limits | methods take the connection lock several times, so every read is stale at the next write; leases expire under a running worker | one live run per job, no lost attempt, retries in budget, no run past an open approval, limits bounded |
| Worker pool (`worker_pool.rs`) | per worker: the round it is in; the drain flag | worker_loop | workers die, skip, overrun their lease, are drained | every due job is taken, one that a dead or failing worker left behind included; a drain ends every worker |
| Schedules and idempotent enqueue (`queue/mod.rs`, `queue/schedule.rs`) | `queue_schedules` (policy, cursor), `queue_schedule_fires`, the `next_id` counter of each handle | upsert_schedule, recover_schedules, enqueue_typed_idempotent | four statements per occurrence, crash between any two, overlapping recoveries, ids handed out twice | an occurrence is enqueued once and never passed over, a key has one job |
| Approval queue (`approval_queue.rs`, `approval_authorization.rs`) | `approval_queue` row, `approval_queue_audit` | create, approve, deny, expire, comment, delegate | authorised on one read, written later; expiry | a decision is final, in time, and in the audit trail |
| Loop governance (`queue/mod.rs` 623-1082) | loop limits, usage, heartbeats and stall policies of a job | set_loop_limits, record_loop_usage, set_stall_policy, record_loop_heartbeat, check_stall | reports of other processes race the worker, the operator and each other; heartbeats of several sources overtake each other; clocks read before the lock | a job over budget stays out of reach, its overrun is one report, a stopped loop stays stopped, a job whose sources all send heartbeats is not taken away |
| Versioned store (`store.rs`) | records with revision and time | put_record, put_record_if_revision, get_record_with_policy, delete | two statements per call under a mutex that other processes do not share; expiry by key | no acknowledged update is lost, a swap replaces what was read |
| Record and replay (`runtime.rs`, `replay/`) | the trace; a cursor, a mutation counter, reports | call_tool, call_llm, approval_gate, next_rollout_sample, ask_human and their replays, load, complete_run | failed calls, metadata between events, retries after a divergence, truncated traces, edited agents | answers are recorded ones in order, no difference unreported, clean runs replay, a mutation is exact |
| VM heap and cycle collector (`corvid-vm`) | reference counts, shadow counts, colours, root buffer | new, clone, drop, get/set field, weak upgrade, release_object, collect_cycles | a long sequence of legal mutations; collections in the middle of a drop | nothing reachable is freed, no garbage is lost |
| Job checkpoints (`queue/mod.rs` 1331-1433), in-memory queue | appended rows; a map | record_checkpoint, resume_state; enqueue, cancel | little: one critical section each | not modelled |
| Native runtime and collector (`runtime/collector.c`) | reference counts, mark bits, stack maps | retain, release, collect | raw memory | not modelled |
| Authentication, connectors, shadow daemon | sessions, tokens, rate buckets | see `PROJECT.json` | timeouts, refresh races | not modelled yet |
| Front end, code generators, ABI, driver, CLI, editor tools, observability | none shared | pure translations and I/O | - | out of scope: no state a model checker could explore |

Most components meet in the job table: workers, operators (`corvid jobs ...`),
producers, loop reports, schedule recovery and approval decisions are all
clients of `queue_jobs` and coordinate through nothing else. The pool's drain flag is the
only memory they share. `PROJECT.json` lists every component, and under
"hazards" each place where the code is exposed to something a test would hardly
reach, with the properties that cover it.

## Modules

| module | models |
|---|---|
| `DurableQueue` | the job table and its clients other than the workers |
| `WorkerPool` | the worker loop over that table, its properties, its fairness |
| `LeaseService` | what the queue promises about leases, with no table behind it |
| `QueueScheduler` | schedule recovery and idempotent enqueue |
| `ApprovalQueue` | one approval and the actors that work on it |
| `LoopGovernance` | budgets, heartbeats and stall checks, composed with the whole of `WorkerPool` |
| `VersionedStore` | one record and the clients of one or several handles |
| `RecordReplay` | a recorded run, its trace, and a replay of it in any mode |
| `CycleCollector` | the interpreter's heap, its reference counts and trial deletion |
| `MC...` of each of these | values and symmetries for TLC |
| `WorkerPoolProofs`, `QueueProofs` | theorems about the queue and its workers, the second module extending the first |
| `LoopProofs`, `SchedulerProofs`, `ApprovalProofs`, `StoreProofs`, `ReplayProofs`, `CollectorProofs` | theorems about the other components |

**Steps.** A SQL statement or transaction is one step: the connection mutex and
SQLite serialise them. A Rust method that takes the lock more than once is
several steps, and its locals are variables in between. A refused call
(early `return Err`) is a guard when it leaves no local state behind, and a
step that returns to the idle label when it comes after another step.

**`DurableQueue`.** `job` is `queue_jobs`, with SQL NULL as 0 or `NoOne`; `op`
is the call each operator process is in. Row operators (`LeasedRow`,
`FailedRow`, `DecidedRow`, ...) are the SET clauses, guards (`LeaseGuard`,
`LeasedBy`, `EligibleToLease`) the WHERE clauses and filters. `drain_active_leases`
is `DrainPause` then `DrainRelease`; `retry_job` is `RetryRead` then
`RetryWrite`, whose UPDATE is keyed by the id alone, as in the code.

**`WorkerPool`.** `pc` walks through `lease_next_at`: `StartLease` reads the
clock into `t0`, then `CheckPaused`, `ListCandidates`, and per candidate
`CheckConcurrency` and `Claim`; then `Complete`, `FailRead`/`FailWrite`,
`EnterApprovalWait`, `Skip` or `Abandon`. `Abandon` stands for an executor
error, a failing finalising call and the death of the process. `IdOf` is the
worker id written to `lease_owner`, a constant of its own because two processes
on one file may use the same ids; the theorems about leases assume they differ.

**`QueueScheduler`.** Callers share a handle (a `DurableQueueRuntime` and its
id counter) or open their own. A recovery is `StartRecovery` (the clock),
`ListSchedules` (the cursor, `MissedFireTimes` and the missed policy), then for
each occurrence of `due`, a set whose minimum is the one the loop is at, `RecordFire`, `EnqueueFire`, `LinkFire`, and at the end
`MarkChecked`. `enqueue_typed_idempotent` is `LookupKey`, `InsertKey`,
`RereadKey`. `Stop` ends a caller at any of these. One schedule is enough:
recoveries treat schedules one after the other and each has its own rows.

**`ApprovalQueue`.** `Call` reads the clock, `Read` is `require_pending` and the
authorisation, `Reread` the second `require_pending` of expire, `Write` the
transaction of UPDATE and audit insert, rolled back when the audit id (time and
kind) exists. Tenant and role checks compare a caller's context with the row
and are abstracted to the set `Reviewers`.

**`LoopGovernance`** extends `WorkerPool`: every step of the pool is a step of
it (`PoolStep`, which also keeps the `updated_ms` column, `touched`). A usage
report is one transaction, whose time, read before the lock, is any that has
been; heartbeats and stall checks first read the clock (`Begin`), then write, so
that their time may be old. `over` and `acked` are history variables: a report
has found the job over a bound and no operator has retried it; the last
heartbeat that each source got through, which need not be the one in the table.

**`VersionedStore`.** One key. A client works through a handle, whose mutex is
held from `PutRead` to `PutWrite` and from `CasCheck` to `CasWrite`; the
assignment of clients to handles is chosen at the start. A value is the set of
updates it contains, so that a lost update is visible. `acked` collects the
updates acknowledged since the last blind write or deletion. The in-memory
backend is the case of one handle.

**`RecordReplay`.** A live run appends the events of each call, as
`runtime.rs` does, to `trace`; then the trace is loaded, and a replay consumes
it through `cursor`. The agent is arbitrary but deterministic: an agent that is
not edited makes the recorded call as long as it has had the recorded answers
(`Follows`). Errors end a run unless a try expression calls again; the agent
sees that a call failed, never how. Names, arguments and rendered prompts are
one `arg`; JSON values are TRUE, FALSE and Null, two kinds as
`same_json_kind` tells them apart. All rollout samples are one question, because
`emit_seed_read` is given no argument but its purpose: `ReplayAssumption` says
so. `Substituted` and `NoSilentDrift` are stated with a function from the answers
of the replay to those of the recording, increasing, and for `NoSilentDrift` onto. `Crash` cuts the trace inside the events of
the last call. `finish` in the code indexes the event at the cursor, past the
end of the trace in some replays: the phase "panicked".

**`CycleCollector`.** `strong` is the counter in `HeapMeta`; the reference
count of the `Arc` is the number of references that exist (`Refs`). A drop is
`DropValue`, then `ReleaseLast` or `ReleaseShared`, then `FinishRelease`; the
values of a freed payload wait in `pending`. `collect_cycles` is modelled task
by task with its explicit stack; the children of an object are pushed in any
order (`FieldOrders`), since the fields of a struct are a HashMap. Payloads are
cleared with releases suppressed, as in the code, in the single step
`FreeCondemned`. What is reachable, and what loses its last `Arc` when payloads
are cleared (`Unreferenced`), are least sets closed under one step, so that
they can be reasoned about without recursion. One thread. `set_field` drops the
old value while it holds the lock on the object's fields (`locked`); a collection
triggered by that drop stops at this object, because it reads the fields under
the same lock, and the guards on `locked` stop the model there as well. In the
code the `Arc` of a freed object lasts until its children are released; the
model lets it go before, which no collection in between can tell.

**Abstractions.** Payloads, fingerprints, reasons, budgets and wording are left
out: no guard reads them. `fail_leased` and `retry_job` read the clock between
their read and their UPDATE; the model uses the clock at the UPDATE, so its
`next_run_ms` is never earlier than the code's. The increment of `next_id` is
one step with the statement before it. Cron expressions are the set of their
occurrences, at least two ticks apart as in any real cron. SQLite lock timeouts
and I/O errors between processes are the error exits that `Abandon`, `Stop`
and `Die` already take.

## Runs

| run | shows |
|---|---|
| `pool_leases` | two workers that die, fail, overrun and ask for approval, two jobs: fenced and exclusive leases, retries in budget, approval gate, finality, refinement of `LeaseService` |
| `pool_operators` | pause, drain, retry, cancel and limits between any two worker steps: no late call loses an attempt or revives a stopped job; a drain ends every worker; a lasting pause stops the leasing |
| `pool_limits` | a global limit of one is exceeded by at most one lease per further worker; every due job, one left behind by a worker that died, skipped or failed included, is taken unless an older job or a running lease goes first |
| `schedule_recovery` | two callers, three policies, two occurrences, one key: one job per occurrence, correct links, no occurrence passed over, one job per key |
| `approvals` | two reviewers and a requester around the expiry: coverage, timing, finality |
| `loop_budget` | a worker, an operator, an approval, usage reports, two sources of heartbeats and a stall checker on one job: budgets are enforced, overruns bounded, stops and escalations last until an operator acts, and a check takes the job away only if a source is silent or none was ever heard |
| `store_cas` | three clients on one or two handles with all operations: no acknowledged update lost within a process, swaps replace what was read |
| `replay_modes` | every run of up to three calls, its crashes, retries and failures, replayed in every mode, and substituted to an edited agent |
| `vm_cycles` | every program over three objects and four fields, with collections anywhere: nothing live is freed, no garbage is lost |
| `cas_lost_update` | fails: a put of one process comes between the check and the UPDATE of another's compare-and-set, which changes no row and gets Ok |
| `unreplayable_run` | fails: a run with a failed call does not replay |
| `cycle_survivors` | fails: an object that survives the collection of a cycle that referred to it keeps too high a count, and is garbage for good later |

The last three state a line of the repository's documentation or tests;
`PROJECT.json` quotes it under "findings". What does hold is stated beside them:
`SharedHandleKeeps` within one process, `CleanRunsReplay` for runs whose every
call has a recorded result, `NoLostGarbage` up to inflated counts and,
as a theorem, `CollectionComplete`.

**Disagreements that are not runs.** These were met while modelling, or follow
from the guards and properties as they are stated:

- `jobs retry` reads a job's status under one lock and updates by id under
  another, so it can take a job from a worker that leased it in between
  (`queue/mod.rs:572`; `corvid-guarantees/src/registry.rs:508` promises one
  worker per job). `NoLiveOverlap` and `Exclusion` therefore exclude operators
  that revoke.
- `jobs retry` accepts a job in approval_wait (`queue/mod.rs:567`;
  `docs/phase-38-jobs.md:25`); `ApprovalGate` is checked without retries.
- A job that an executor skips or fails on with an error is leased again and
  again, and no attempt is counted (`worker_pool.rs:309`, `:313`); being older it
  also goes first, so younger jobs may wait as long. No job need ever be settled:
  `DueJobsTaken` says what does happen.
- A grant that arrives after an approval wait has expired, and before anybody
  marked it expired, resumes the job (`queue/mod.rs:1772`).
- Two workers can pass one limit check (`queue/mod.rs:1515`;
  `corvid-cli/src/cli/jobs.rs:463`); `OvershootBounded` is what holds.
- Usage is recorded for a job that a stall check terminated, and may move it on to
  loop_budget_exceeded: the list at `queue/mod.rs:761` lacks that status, where the
  message at `:771` says that a terminal job "cannot record loop usage" and the
  list of `check_stall` (`:1024`) has it. `UsageStops` is about jobs over their
  budget.
- A heartbeat that was delayed replaces a newer one of another source
  (`queue/mod.rs:931`), so a job may be taken away although one of its sources is
  alive; `HeartbeatHonoured` is about all of them.
- Every caller of `run_one` has the worker id corvid-run-one
  (`queue/mod.rs:1839`), so one caller's late completion finalises the lease of
  another. Properties of leases are stated of ids that differ.
- With more missed occurrences than the cap, the recovery job is not for the
  latest one (`queue/schedule.rs:72`; `docs/phase-38-jobs.md:64`).
- An occurrence one millisecond after the creation or the last check of a schedule
  that has not fired yet is never seen (`queue/schedule.rs:58`): the start is one
  past the cursor, and `cron.after` excludes the start.
- A process that stops between the fire row and the enqueue leaves an occurrence
  that is never enqueued (`queue/mod.rs:1901`; `docs/phase-38-jobs.md:60`).
- A decision that finds the approval decided still writes its audit event and
  reports success (`approval_queue.rs:549`; `docs/phase-39-auth-approval.md:162`
  says stale approvals fail closed).
- Differential replays report a tool call with other arguments, and mutations
  report everything after their step, where chapter 14.4 of the effects
  specification says that all but the model, or the step, replays strictly.
- An approval cannot be mutated: the event after the request is the decision,
  and `validate_mutation` expects the response there.
- `set_field` can wait for itself: the value it replaces is dropped while the
  fields are locked, and a collection that this triggers may visit the object
  (`value.rs:535`).
- Answers of people are not replayed, so an edited agent that asks one person
  more gets a live answer and nothing is reported; `NoSilentDrift` leaves human
  answers out.
- `cursor.rs:76` indexes past the end of a truncated trace.
- Record revisions start again at one after a deletion (`store.rs:463`), where
  `docs/phase-29-memory-audit.md:39` calls them monotonic.

**Bounds.** Two workers are enough for every race between a holder and a rival;
two jobs for a candidate list that is stale in its second element; three jobs of
two tasks for limits. `MaxTime` and `TTL` let a lease be granted, expire, be
granted again and expire again. `MaxAttempts` is at least max_retries + 1, so it
cuts no behaviour off before the retry budget would, except reruns that an
operator asks for beyond it. In `schedule_recovery` the
clock is read before, between and after the two occurrences, and three ids leave
room for both jobs and the keyed one; the cap on missed occurrences does not bind
there, and `CursorCovers` and its theorem speak of schedules that are created with
a last fire time. Of one created without, as `corvid jobs schedule add` does
(`corvid-cli/src/commands/jobs.rs:555`), they say nothing. In `approvals` the clock steps over the
expiry, and comments and delegations stop after three audit events, while
decisions go on. Workers, callers, handles and reviewers are symmetric; runs
with liveness properties use no symmetry. `loop_budget` has one job, one worker
and one operator that retries, because every race it looks for is about one
row; the limit is no step at all, so that the first report crosses it, and two
usage units make room for another one after a retry. The process that checks for
stalls sends heartbeats as well, so that a delayed heartbeat of one source can
replace a newer one of the other before a check. Approvals and heartbeats meet
only in the status of the job, and `ApprovalsOrHeartbeats` leaves out the
behaviours with both. `store_cas` has three clients so that two share
a handle that the third does not, and three revisions so that a deleted
record's revision is reached again. `replay_modes` has two tool calls that
differ and one call of every other kind; three calls reach a failed call, its
retry and a call that is served the wrong event. An edited agent is replayed by
substitution; in a differential replay the agent goes its own way as soon as the
model answers differently. `vm_cycles` has three objects,
one of them with two fields, and a trigger of two roots: the smallest heap with a
cycle, a survivor it refers to and a second root. Deadlock checking is off in
`pool_operators`, where workers exit by design, and in the two replay runs,
where a replay ends, and in the runs of the collector, where a thread may wait
for itself in `set_field`; a search for other states without a successor found
none.

**Fairness.** `Spec` of `WorkerPool` assumes weak fairness of every worker
(tokio polls every spawned task, the worker loop never blocks on another
worker) and of the clock. No producer, operator, reviewer or drain signal is
assumed ever to act, and no run of a job to end well: an executor may skip, fail
or die every time. `DueJobsTaken` is about one job at a time. A job whose lease
would outlive the bounded clock is not due, so the bound discharges nothing for
the other jobs; the two reasons for passing a job over are conditions on the
step of a worker, not on the clock.
`LoopGovernance` uses the pool's next-state relation and, like the remaining
specifications, states no fairness: only safety is checked of them. Nothing in
the code makes a report, a store call, a replay or a collection happen.

## Proofs

All theorems hold for every value of the constants, under the assumptions
`QueueAssumption`, `PoolAssumption`, `ApprovalAssumption`, `LoopAssumption`,
`StoreAssumption`, `SchedulerAssumption`, `ReplayAssumption` and
`CollectorAssumption`, which TLC evaluates in the runs, and under the hypotheses
named in their statements.

**The queue and its workers.**

- `TypeCorrect`: the type invariant of `WorkerPool`. It needs that a running
  worker has a job and a retrying operator names one (`TypeInv`).
- `Fencing`, `NoLostAttempts` (worker ids differ): while a row names a running
  worker, the lease is the one it was granted, and the attempts `fail_leased`
  read are those in the row. The invariant `LeaseInv` ties expiry and attempt
  count to the worker's locals; lemma `WorkerStep` first reduces the thirteen
  worker actions to being granted a lease, finalising one, or moving on.
- `Exclusion` (ids differ, no retry, drain or cancel): `LiveInv` adds that an
  unexpired lease of a running worker is still in the row, so a rival's claim
  finds it. A retry that races a lease breaks it, so the hypothesis is needed.
- `RetriesInBudget`: under every operator command. `GateHolds`: when operators
  do not retry, because a retry resumes a job that waits for an approval.
- `RevivedByRetryOnly` and `StopsAreFinal`: which rows each UPDATE can reach,
  action by action. The first is about every command; the second assumes that
  no operator retries or cancels, since both rewrite finished jobs by design.
- `RunsBounded` (no retry command): `attempts` alone is not inductive. `RunsInv`
  adds that a job that may still run has counted at most max_retries runs, and
  that so many at most are in the hands of a worker between `FailRead` and
  `FailWrite`, whose write counts one more.
- `LimitsOvershootBounded` (limits do not change meanwhile): the leases under a
  limit and the workers that have passed its check and not yet claimed
  (`Claimers`) are together at most the limit and the number of further workers
  (`LimitInv`): a check adds a claimer only when the leases it counted were below
  the limit, and a claim adds a lease and removes a claimer.
- `LeaseServiceImplemented`: every step of workers and operators is a step of
  `LeaseService` or leaves it alone.

**Approvals, governance, store.**

- `ApprovalTypeCorrect`, `AuditCovered`, `DecisionsInTime`, `DecisionsFinal`:
  from `ApprovalInv`, which says of each call past its read what the read
  established, and that it stays true because a row never changes its expiry.
- `LoopTypeCorrect`, `BudgetsEnforced`, `OverrunsBounded`, `LoopStopsFinal`: a
  step of the pool underneath changes a stopped row only through cancel or
  retry. Lemmas list, per action of `WorkerPool`, the rows it can write; every
  guarded UPDATE asks for a status that a stopped job does not have, and the
  invariant is that `over` implies such a status. `LoopStopsFinal` covers
  escalated jobs too. `HeartbeatsHonoured` is about any number of sources. The
  stored heartbeat is then not the newest one; `HeartInv` says that it is the last
  one that some source got through, and that there is none only if no source got
  any through, so a check that finds it too old has found a silent source.
- `StoreTypeCorrect`, `AcknowledgedKept`, `SwapsRead` (one handle): the mutex
  makes the record under a client between check and write the one it read;
  the invariant says so of each client in a locked section, that revisions only
  grow until a deletion, and that equal revisions mean equal records for every
  client whose record was not deleted.

**Schedules.** `SchedulerTypeCorrect`, `FiresEnqueuedOnce`, `LinksCorrect`,
`KeysIdempotent`: for any callers, handles and numbering. The invariant says what
each label means: from the insert of a fire row to its enqueue one caller alone
owns the occurrence, and no job and no other caller has it; between enqueue and
link the row under the caller's number is the occurrence's. That the numbers are
unique is not needed, and not true: two handles hand out the same ones.
`NothingPassedOver` assumes `WholeSeconds`, which holds of cron occurrences and
which TLC's instance satisfies; without it an occurrence one millisecond after
the cursor is passed over (`schedule.rs:58`). `CursorInv` says that the stored
cursor and each caller's `mark` cover what lies before them, except what the caller
still has to record, so an older cursor written back late does no harm.

**Record and replay.** The proofs are about recordings of any length. `Shape`
says that the trace is a sequence of call groups: an increasing function `s` gives
the position of every call's first event, and the events between `s[k]` and
`s[k+1]` are those the call `log[k]` wrote, as far as a crash left them. Every
recording step extends it (`LiveShape`), and all reading lemmas (`ToolRead`,
`LlmRead`, `ApprovalRead`, `AtCall`, ...) follow from it: at the start of a group
a replayed call reads that group's answer or finds none. On top of it:

- `ReplayTypeCorrect`: no recursion is needed, since `Skip` is a choice with a
  unique solution; that the solution exists is shown by taking the least
  position that is not metadata.
- `SubstitutionRetells`: `Retold` adds that the answers given so far come from
  groups before the cursor, so that the next one can only come from a later one.
  It says nothing of where the cursor is inside a group, which is why it survives
  divergences and retries.
- `DriftIsSeen`: `Told` says that while nothing was reported and no call failed,
  the answers given are those of the first m groups, all of them, and the cursor is
  before the next group or past the end; the end of the run is read only behind
  the last group.
- `CleanRunsCorrect`: `Unbroken` says that the replay has been told a prefix of the
  log and the cursor is before the next group, up to metadata; an unedited agent
  then asks the recorded question and `ReadsNext` shows it is given the recorded
  answer.
- `MutationIsExact`: `StepsCounted` shows, with a bijection between the calls of the
  log and the call events of the trace, that `validate_mutation` and `next_step`
  count alike; up to the counted call the replay is as strict as a substitution,
  and at it the pair of events is accepted.

**The collector.** `CollectorTypeCorrect`, `CountsCorrect`, `CollectionSafe`,
`GarbageKept` and `CollectionIsComplete` hold for heaps of any finite size and
any order in which roots and fields are visited. They rest on one inductive
invariant, `IInv` (`CollectorInvariant`), because each needs the others: an
object that is freed while something refers to it would come back with a wrong
count. Its parts:

- `HeapInv`: a live object is counted at least as often as it is referenced, and
  nothing refers to any other object. `Anchored`: everything live hangs on a
  variable, a value being dropped, a buffered root or an inflated object. Both
  hold between any two steps, also in the middle of a drop or a collection.
- Marking (`MarkCounts`): the shadow of a gray object and its edges from gray
  objects are its strong count and the decrements of it that are still on the
  stack. `DecsFollowVisits` says that a decrement finds its object gray, because
  a visit of it lies above, so no shadow is decremented before it is set up and
  none falls below zero. `MarkFrontier` and `MarkReach` say that what hangs on
  the roots is marked in the end, and nothing else.
- Scanning (`ScanCounts`): the shadow of a marked object is its strong count less
  the edges from marked objects, whatever was whitened or restored so far. Every
  gray object hangs on the roots and tasks that are left (`ScanLeft`), every white
  one hangs on the roots along white objects or on one that is about to be
  restored (`ScanReach`).
- Collecting (`WhiteGarbage`, `WhiteFrontier`): each white object is counted
  exactly by edges from white objects, so it has no reference from outside, and
  all of them are condemned when the last root is done.

Completeness is about sets `U` that are `SelfHeld`: each object of `U` is counted
exactly as often as objects of `U` refer to it. Such a set is marked
(`GarbageMarked`, from `Anchored`), nothing of it is restored (`ScanComplete`: a
shadow that is left over, or a restored holder, would be a reference from outside),
so it is freed. What is live after the collection and hangs on no anchor would
be such a set (`FreeCondemnedStep`). An inflated count is what keeps a set from
being self-held, which is the finding of `cycle_survivors`. The numbers of edges
are handled by a few lemmas on cardinalities (`IntoAdd`, `IntoRemove`,
`PayloadDropped`), the stack by lemmas on what is on it (`Popped`, `Pushed`,
`MarkTasksOn`). Least closed sets replace induction: a set is shown to be closed
and to contain the start. The object that `set_field` has locked restricts what a
collection can do and nothing else: `IInv` does not mention it.

Model-checked only: `DueJobsTaken`, `DrainExits` and `PauseQuiesces`, since
liveness under fairness is outside this prover. Every other property of a
passing run is also a theorem. What the proofs need of least elements is taken
from finite sets, from least closed sets and from the well-foundedness of the
natural numbers, because induction over data cannot be instantiated here. The
three failing runs are counterexamples and have nothing to prove.

## Plan

1. Collections that race drops of other threads; the native collector.
2. Session rotation and single-use OAuth states; connector rate buckets and
   token refresh.

## Not modelled

The compiler and its checkers, the interpreter's evaluation of expressions, the
code generators, the ABI and binding tools, the connectors' HTTP calls, model
adapters, observability, lineage and the command line's parsing and output:
sequential transformations of unbounded data, or I/O. They are most of the
repository's lines. The in-memory queue is a map behind one mutex, and
checkpoints are rows that are only appended. `replay_dispatch.rs` is a
search for the first recorded pair that matches a pattern and keeps no state;
the native tier's replay, the contents of the prompt cache and stream tasks are left out
of `RecordReplay`. Authentication's hashing and signatures are cryptography.
