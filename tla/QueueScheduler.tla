--------------------------- MODULE QueueScheduler ---------------------------
(***************************************************************************)
(* Schedule recovery and idempotent enqueue of the durable queue            *)
(* (corvid-runtime, queue/mod.rs and queue/schedule.rs), run by callers     *)
(* that share a handle on the database file or have one of their own.  A    *)
(* handle is a DurableQueueRuntime: its id counter is seeded from the table *)
(* when it is opened.  A caller may stop at any step; a process that dies   *)
(* is all callers of a handle stopping.  The clock counts milliseconds;     *)
(* 0 is SQL NULL.                                                           *)
(***************************************************************************)
EXTENDS Integers, FiniteSets, FiniteSetsExt

CONSTANTS
    Procs,      \* the callers
    Handles,    \* the DurableQueueRuntime values they share or open
    NoHandle,   \* no handle
    FireTimes,  \* the occurrences of the schedule's cron expression
    Policies,   \* missed policies an upsert may store
    MaxMissed,  \* max_missed_per_schedule
    FirstFire,  \* last_fire_ms the schedule is created with
    Keys,       \* idempotency keys in use
    NoKey,      \* a row without idempotency key
    Clock,      \* bound: the instants at which the clock is read
    MaxId       \* bound: job ids

AllPolicies == {"skip_missed", "fire_once_on_recovery", "enqueue_all_bounded"}

ASSUME SchedulerAssumption ==
    /\ FireTimes \subseteq Nat \ {0}
    /\ IsFiniteSet(FireTimes)
    /\ Policies \subseteq AllPolicies
    /\ Policies # {}
    /\ MaxMissed \in Nat \ {0}
    /\ FirstFire \in Nat
    /\ NoKey \notin Keys
    /\ NoHandle \notin Handles
    /\ Clock \subseteq Nat
    /\ MaxId \in Nat

VARIABLES
    now,       \* now_ms()
    sched,     \* the row of queue_schedules: policy, checked, fired
    fires,     \* the occurrences in queue_schedule_fires
    link,      \* their job_id column; 0 is ''
    rows,      \* queue_jobs by id number
    nextId,    \* the next_id counter of a handle
    pc,        \* the call each caller is in
    handle,    \* the handle it uses
    job,       \* the id fetch_add gave it
    t,         \* the clock recover_schedules read
    mark,      \* the last_fire_ms mark_schedule_checked will write
    due,       \* occurrences still to enqueue, the earliest first
    key,       \* the key of the idempotent enqueue
    waived,    \* history: occurrences a missed policy gave up
    replies    \* history: ids returned for each key

tables == <<now, sched, fires, link, rows>>
locals == <<pc, handle, job, t, mark, due, key>>
history == <<waived, replies>>
vars == <<now, sched, fires, link, rows, nextId, pc, handle, job, t, mark, due,
          key, waived, replies>>

Ids == 1 .. MaxId
NoRow == [fire |-> 0, key |-> NoKey]
Row == [fire: FireTimes \union {0}, key: Keys \union {NoKey}]
Schedule == [policy: Policies, checked: Nat, fired: Nat]
PC == {"closed", "idle", "list", "record", "enqueue", "link", "mark", "insert",
       "reread"}

\* The rows of jobs, fires and schedules and the callers' locals are well typed;
\* a fire's job_id is a job number that was handed out.
TypeOK ==
    /\ now \in Nat
    /\ sched \in Schedule
    /\ fires \subseteq FireTimes
    /\ link \in [FireTimes -> {0} \union Ids]
    /\ rows \in [Ids -> Row]
    /\ pc \in [Procs -> PC]
    /\ nextId \in [Handles -> Nat]
    /\ handle \in [Procs -> Handles \union {NoHandle}]
    /\ job \in [Procs -> {0} \union Ids]
    /\ t \in [Procs -> Nat]
    /\ mark \in [Procs -> Nat]
    /\ due \in [Procs -> SUBSET FireTimes]
    /\ key \in [Procs -> Keys \union {NoKey}]
    /\ waived \subseteq FireTimes
    /\ replies \in [Keys -> SUBSET Ids]

\* upsert_schedule has stored the schedule at time 1.
Init ==
    /\ now = 1
    /\ sched \in {[policy |-> p, checked |-> 1, fired |-> FirstFire] : p \in Policies}
    /\ fires = {}
    /\ link = [f \in FireTimes |-> 0]
    /\ rows = [i \in Ids |-> NoRow]
    /\ pc = [p \in Procs |-> "closed"]
    /\ nextId = [h \in Handles |-> 0]
    /\ handle = [p \in Procs |-> NoHandle]
    /\ job = [p \in Procs |-> 0]
    /\ t = [p \in Procs |-> 0]
    /\ mark = [p \in Procs |-> 0]
    /\ due = [p \in Procs |-> {}]
    /\ key = [p \in Procs |-> NoKey]
    /\ waived = {}
    /\ replies = [k \in Keys |-> {}]

Used == {i \in Ids : rows[i] # NoRow}
HasKey(k) == {i \in Ids : rows[i].key = k}

Goto(p, l) == pc' = [pc EXCEPT ![p] = l]

\* fetch_add on the counter of the caller's handle.  It is one step with the
\* statement before it: only the numbering of one handle's jobs depends on it.
FetchId(p) ==
    /\ nextId[handle[p]] < MaxId
    /\ nextId' = [nextId EXCEPT ![handle[p]] = @ + 1]
    /\ job' = [job EXCEPT ![p] = nextId[handle[p]] + 1]

\* The call returns and its locals go out of scope.
Return(p, l) ==
    /\ Goto(p, l)
    /\ job' = [job EXCEPT ![p] = 0]
    /\ t' = [t EXCEPT ![p] = 0]
    /\ due' = [due EXCEPT ![p] = {}]
    /\ mark' = [mark EXCEPT ![p] = 0]
    /\ key' = [key EXCEPT ![p] = NoKey]

-----------------------------------------------------------------------------
Tick == now' \in {n \in Clock : n > now}
        /\ UNCHANGED <<sched, fires, link, rows, nextId, locals, history>>

UsersOf(h) == {p \in Procs : handle[p] = h}

\* The caller is given a handle others use, or opens one: seed_next_id takes
\* the largest id in the table.
Open(p, h) ==
    /\ pc[p] = "closed"
    /\ Goto(p, "idle")
    /\ handle' = [handle EXCEPT ![p] = h]
    /\ nextId' = IF UsersOf(h) # {} THEN nextId
                 ELSE [nextId EXCEPT ![h] = Max(Used \union {0})]
    /\ UNCHANGED <<tables, job, t, mark, due, key, history>>

\* The caller ends, between any two steps; the last one drops the handle.
Stop(p) ==
    /\ pc[p] # "closed"
    /\ Return(p, "closed")
    /\ handle' = [handle EXCEPT ![p] = NoHandle]
    /\ nextId' = IF UsersOf(handle[p]) # {p} THEN nextId
                 ELSE [nextId EXCEPT ![handle[p]] = 0]
    /\ UNCHANGED <<tables, history>>

\* upsert_schedule on an existing id leaves the recovery cursor alone.
UpsertSchedule(p, policy) ==
    /\ pc[p] = "idle"
    /\ policy # sched.policy
    /\ sched' = [sched EXCEPT !.policy = policy]
    /\ UNCHANGED <<now, fires, link, rows, nextId, locals, history>>

-----------------------------------------------------------------------------
(* recover_schedules *)

\* take(max_missed_per_schedule): the n earliest occurrences of S.
Earliest(S, n) == {f \in S : Cardinality({g \in S : g < f}) < n}

\* Mutation of MissedFireTimes: an occurrence right after the start is passed over.
MissedFireTimesMutant(s, n) ==
    LET start == (IF s.fired # 0 THEN s.fired ELSE s.checked) + 1
    IN  IF n <= s.checked THEN {}
        ELSE Earliest({f \in FireTimes : f >= start + 2 /\ f <= n}, MaxMissed)

\* missed_fire_times: cron.after(start) is strictly after the start, which is
\* itself one past the last fire, or past the last check when nothing fired.
MissedFireTimes(s, n) ==
    LET start == (IF s.fired # 0 THEN s.fired ELSE s.checked) + 1
    IN  IF n <= s.checked THEN {}
        ELSE Earliest({f \in FireTimes : f > start /\ f <= n}, MaxMissed)

StartRecovery(p) ==
    /\ pc[p] = "idle"
    /\ Goto(p, "list")
    /\ t' = [t EXCEPT ![p] = now]
    /\ UNCHANGED <<tables, nextId, handle, job, mark, due, key, history>>

\* What the missed policy enqueues of the missed occurrences.
ToEnqueue(policy, missed) ==
    CASE policy = "skip_missed" -> {}
      [] policy = "fire_once_on_recovery" -> {Max(missed)}
      [] policy = "enqueue_all_bounded" -> missed

\* list_schedules, and what the missed policy makes of the due occurrences.
ListSchedules(p) ==
    LET missed == MissedFireTimes(sched, t[p])
        todo == ToEnqueue(sched.policy, missed)
    IN  /\ pc[p] = "list"
        /\ IF missed = {}
           THEN /\ Goto(p, "mark")
                /\ mark' = [mark EXCEPT ![p] = sched.fired]
                /\ UNCHANGED <<due, waived>>
           ELSE /\ Goto(p, IF todo = {} THEN "mark" ELSE "record")
                /\ mark' = [mark EXCEPT ![p] = Max(missed)]
                /\ due' = [due EXCEPT ![p] = todo]
                /\ waived' = waived \union (missed \ todo)
        /\ UNCHANGED <<tables, nextId, handle, job, t, key, replies>>

\* The occurrence the loop of a recovery is at.
Current(p) == Min(due[p])

NextFire(p) ==
    /\ due' = [due EXCEPT ![p] = @ \ {Current(p)}]
    /\ Goto(p, IF due[p] = {Current(p)} THEN "mark" ELSE "record")

\* Mutation of RecordFire: the count of inserted rows is not looked at.
RecordFireMutant(p) ==
    /\ pc[p] = "record"
    /\ fires' = fires \union {Current(p)}
    /\ FetchId(p)
    /\ Goto(p, "enqueue")
    /\ UNCHANGED <<now, sched, link, rows, due, handle, t, mark, key, history>>

\* enqueue_schedule_fire: insert or ignore the occurrence ...
RecordFire(p) ==
    /\ pc[p] = "record"
    /\ fires' = fires \union {Current(p)}
    /\ IF Current(p) \in fires
       THEN NextFire(p) /\ UNCHANGED <<nextId, job>>
       ELSE FetchId(p) /\ Goto(p, "enqueue") /\ UNCHANGED due
    /\ UNCHANGED <<now, sched, link, rows, handle, t, mark, key, history>>

\* Mutation of EnqueueFire: an insert the primary key refuses is ignored.
EnqueueFireMutant(p) ==
    /\ pc[p] = "enqueue"
    /\ rows' = [rows EXCEPT ![job[p]] =
                  IF @ = NoRow THEN [fire |-> Current(p), key |-> NoKey] ELSE @]
    /\ Goto(p, "link")
    /\ UNCHANGED <<now, sched, fires, link, nextId, handle, job, t, mark, due, key,
                   history>>

\* ... then enqueue its job: an id another handle has used is an error, which
\* ends the recovery ...
EnqueueFire(p) ==
    /\ pc[p] = "enqueue"
    /\ IF rows[job[p]] = NoRow
       THEN /\ rows' = [rows EXCEPT ![job[p]] = [fire |-> Current(p), key |-> NoKey]]
            /\ Goto(p, "link")
            /\ UNCHANGED <<job, t, mark, due, key>>
       ELSE Return(p, "idle") /\ UNCHANGED rows
    /\ UNCHANGED <<now, sched, fires, link, nextId, handle, history>>

\* Mutation of LinkFire: the link names the id after the job's.
LinkFireMutant(p) ==
    /\ pc[p] = "link"
    /\ link' = [link EXCEPT ![Current(p)] = job[p] + 1]
    /\ job' = [job EXCEPT ![p] = 0]
    /\ NextFire(p)
    /\ UNCHANGED <<now, sched, fires, rows, nextId, handle, t, mark, key, history>>

\* ... and link the occurrence to the job.
LinkFire(p) ==
    /\ pc[p] = "link"
    /\ link' = [link EXCEPT ![Current(p)] = job[p]]
    /\ job' = [job EXCEPT ![p] = 0]
    /\ NextFire(p)
    /\ UNCHANGED <<now, sched, fires, rows, nextId, handle, t, mark, key, history>>

\* mark_schedule_checked: the cursor this call computed, even if another
\* caller has moved on.
MarkChecked(p) ==
    /\ pc[p] = "mark"
    /\ sched' = [sched EXCEPT !.checked = t[p],
                              !.fired = IF mark[p] = 0 THEN @ ELSE mark[p]]
    /\ Return(p, "idle")
    /\ UNCHANGED <<now, fires, link, rows, nextId, handle, history>>

-----------------------------------------------------------------------------
(* enqueue_typed_idempotent *)

Reply(k, ids) == replies' = [replies EXCEPT ![k] = @ \union ids]

LookupKey(p, k) ==
    /\ pc[p] = "idle"
    /\ IF HasKey(k) # {}
       THEN Reply(k, HasKey(k)) /\ UNCHANGED <<pc, key, nextId, job>>
       ELSE /\ FetchId(p)
            /\ Goto(p, "insert")
            /\ key' = [key EXCEPT ![p] = k]
            /\ UNCHANGED replies
    /\ UNCHANGED <<tables, handle, t, mark, due, waived>>

\* Mutation of InsertRejected: no unique index on idempotency_key.
InsertRejectedMutant(id, k) == rows[id] # NoRow

\* The primary key, or the unique index on idempotency_key.
InsertRejected(id, k) == rows[id] # NoRow \/ HasKey(k) # {}

InsertKey(p) ==
    /\ pc[p] = "insert"
    /\ IF InsertRejected(job[p], key[p])
       THEN Goto(p, "reread") /\ UNCHANGED <<rows, job, t, mark, due, key, replies>>
       ELSE /\ rows' = [rows EXCEPT ![job[p]] = [fire |-> 0, key |-> key[p]]]
            /\ Reply(key[p], {job[p]})
            /\ Return(p, "idle")
    /\ UNCHANGED <<now, sched, fires, link, nextId, handle, waived>>

\* After a rejected insert: the row of the key, or an error.
RereadKey(p) ==
    /\ pc[p] = "reread"
    /\ Reply(key[p], HasKey(key[p]))
    /\ Return(p, "idle")
    /\ UNCHANGED <<tables, nextId, handle, waived>>

-----------------------------------------------------------------------------
ProcNext(p) ==
    \/ \E h \in Handles : Open(p, h)
    \/ Stop(p)
    \/ \E policy \in Policies : UpsertSchedule(p, policy)
    \/ StartRecovery(p) \/ ListSchedules(p) \/ RecordFire(p) \/ EnqueueFire(p)
    \/ LinkFire(p) \/ MarkChecked(p)
    \/ \E k \in Keys : LookupKey(p, k)
    \/ InsertKey(p) \/ RereadKey(p)

Next == Tick \/ \E p \in Procs : ProcNext(p)

Spec == Init /\ [][Next]_vars

-----------------------------------------------------------------------------
\* However recoveries of several callers overlap, stop half way and rewind
\* each other's cursor, an occurrence is enqueued at most once.
OneJobPerFire ==
    \A i, k \in Used : rows[i].fire = rows[k].fire /\ rows[i].fire # 0 => i = k

\* A linked occurrence names the job that was enqueued for it, never the job
\* another handle created under the same number.
LinksAgree ==
    \A f \in FireTimes : link[f] # 0 => rows[link[f]] = [fire |-> f, key |-> NoKey]

\* Occurrences of a cron expression are whole seconds: none is one millisecond
\* after another, or after the last fire an upsert stored.
WholeSeconds == \A f \in FireTimes \union {FirstFire} : f + 1 \notin FireTimes

\* From the first fire on, the recovery cursor never passes over an
\* occurrence that was neither recorded nor given up by the missed policy.
CursorCovers ==
    \A f \in FireTimes :
        FirstFire # 0 /\ FirstFire < f /\ f <= sched.fired => f \in fires \union waived

\* Callers that race on an idempotency key are all given the same job, and the
\* key has one row.
OneJobPerKey ==
    \A k \in Keys :
        /\ Cardinality(HasKey(k)) <= 1
        /\ replies[k] \subseteq HasKey(k)

=============================================================================
