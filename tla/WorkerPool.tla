----------------------------- MODULE WorkerPool -----------------------------
(***************************************************************************)
(* The worker loop (corvid-runtime, worker_pool.rs) over the job table:     *)
(* each worker calls lease_next, runs the executor on the job it got and    *)
(* finalises it.  lease_next_at and fail_leased take the connection lock    *)
(* several times, so another worker or an operator may run in between.      *)
(*                                                                         *)
(* A worker is a task of one process; IdOf gives the lease_owner it writes. *)
(* Within a pool the ids differ; two processes on one database file, each   *)
(* with a worker-0, or two run-one commands, share one.                     *)
(***************************************************************************)
EXTENDS DurableQueue

CONSTANTS
    Workers,        \* worker tasks
    IdOf,           \* the worker id of each
    Outcomes,       \* what an executor may report
    MayDrain        \* whether the pool's drain flag may be raised

AllOutcomes == {"success", "failure", "skip", "error", "approval"}

ASSUME PoolAssumption ==
    /\ IsFiniteSet(Workers)
    /\ IdOf \in [Workers -> WorkerIds]
    /\ Outcomes \subseteq AllOutcomes
    /\ MayDrain \in BOOLEAN

VARIABLES
    pc,        \* where each worker is
    t0,        \* the clock lease_next passed to lease_next_at
    cand,      \* the candidates of lease_next_at not yet tried
    cur,       \* the job it leased and runs
    att,       \* the attempts fail_leased read
    draining   \* the pool's drain flag

workerVars == <<pc, t0, cand, cur, att>>
vars == <<now, job, paused, limit, audit, op, pc, t0, cand, cur, att, draining>>

\* Between the finalising call and the next loop the worker reports, and
\* "skipped" is a worker whose executor reported Skip.
Running == {"run", "fail"}
Leasing == {"lease", "list", "scan", "claim"}
PC == {"top", "skipped", "exited"} \union Running \union Leasing

\* The columns of every row have a type the parsers accept (parse_status and
\* its like would fail a whole listing), and so have the workers' locals.
TypeOK ==
    /\ TableTypeOK
    /\ pc \in [Workers -> PC]
    /\ t0 \in [Workers -> Nat]
    /\ cand \in [Workers -> SUBSET Jobs]
    /\ cur \in [Workers -> Jobs \union {NoOne}]
    /\ att \in [Workers -> Nat]
    /\ draining \in BOOLEAN

Init ==
    /\ TableInit
    /\ pc = [w \in Workers |-> "top"]
    /\ t0 = [w \in Workers |-> 0]
    /\ cand = [w \in Workers |-> {}]
    /\ cur = [w \in Workers |-> NoOne]
    /\ att = [w \in Workers |-> 0]
    /\ draining = FALSE

Goto(w, l) == pc' = [pc EXCEPT ![w] = l]

\* Back to the top of worker_loop; the locals of the round go out of scope.
Loop(w, l) ==
    /\ Goto(w, l)
    /\ t0' = [t0 EXCEPT ![w] = 0]
    /\ cand' = [cand EXCEPT ![w] = {}]
    /\ cur' = [cur EXCEPT ![w] = NoOne]
    /\ att' = [att EXCEPT ![w] = 0]

tableRest == <<now, paused, limit, audit, op, draining>>
-----------------------------------------------------------------------------
(* lease_next *)

Exit(w) ==
    /\ pc[w] \in {"top", "skipped"}
    /\ draining
    /\ Loop(w, "exited")
    /\ UNCHANGED <<job, tableRest>>

\* Mutation of StartLease: the drain flag is not checked.
StartLeaseMutant(w) ==
    /\ pc[w] \in {"top", "skipped"}
    /\ Goto(w, "lease")
    /\ t0' = [t0 EXCEPT ![w] = now]
    /\ cur' = [cur EXCEPT ![w] = NoOne]
    /\ UNCHANGED <<job, tableRest, cand, att>>

\* lease_next reads the clock before lease_next_at takes any lock.
StartLease(w) ==
    /\ pc[w] \in {"top", "skipped"}
    /\ ~draining
    /\ Goto(w, "lease")
    /\ t0' = [t0 EXCEPT ![w] = now]
    /\ cur' = [cur EXCEPT ![w] = NoOne]
    /\ UNCHANGED <<job, tableRest, cand, att>>

\* Mutation of CheckPaused: the pause flag is not read.
CheckPausedMutant(w) ==
    /\ pc[w] = "lease"
    /\ Goto(w, "list")
    /\ UNCHANGED <<job, tableRest, t0, cand, cur, att>>

CheckPaused(w) ==
    /\ pc[w] = "lease"
    /\ IF paused THEN Loop(w, "top")
       ELSE Goto(w, "list") /\ UNCHANGED <<t0, cand, cur, att>>
    /\ UNCHANGED <<job, tableRest>>

ListCandidates(w) ==
    /\ pc[w] = "list"
    /\ Goto(w, "scan")
    /\ cand' = [cand EXCEPT ![w] = {j \in Jobs : EligibleToLease(job[j], t0[w])}]
    /\ UNCHANGED <<job, tableRest, t0, cur, att>>

\* The next candidate: list() returns rows in the order they were created.
IsFirst(j, S) == j \in S /\ \A i \in S : j <= i

NoCandidate(w) ==
    /\ pc[w] = "scan"
    /\ cand[w] = {}
    /\ Loop(w, "top")
    /\ UNCHANGED <<job, tableRest>>

CheckConcurrency(w) ==
    /\ pc[w] = "scan"
    /\ \E j \in Jobs :
          /\ IsFirst(j, cand[w])
          /\ IF ConcurrencyAllows(j, t0[w])
             THEN Goto(w, "claim") /\ UNCHANGED cand
             ELSE cand' = [cand EXCEPT ![w] = @ \ {j}] /\ UNCHANGED pc
    /\ UNCHANGED <<job, tableRest, t0, cur, att>>

Claim(w) ==
    /\ pc[w] = "claim"
    /\ \E j \in Jobs :
          /\ IsFirst(j, cand[w])
          /\ IF LeaseGuard(job[j], t0[w])
             THEN /\ SetRow(j, LeasedRow(job[j], IdOf[w], t0[w]))
                  /\ Goto(w, "run")
                  /\ cand' = [cand EXCEPT ![w] = {}]
                  /\ cur' = [cur EXCEPT ![w] = j]
             ELSE /\ Goto(w, "scan")
                  /\ cand' = [cand EXCEPT ![w] = @ \ {j}]
                  /\ UNCHANGED <<job, cur>>
    /\ UNCHANGED <<tableRest, t0, att>>

-----------------------------------------------------------------------------
(* The executor's outcome and the finalising call.  A call that finds the    *)
(* job no longer leased by this worker returns Err and changes nothing.      *)

Complete(w) ==
    /\ pc[w] = "run"
    /\ "success" \in Outcomes
    /\ job[cur[w]].attempts < MaxAttempts
    /\ IF LeasedBy(job[cur[w]], IdOf[w])
       THEN SetRow(cur[w], CompletedRow(job[cur[w]]))
       ELSE UNCHANGED job
    /\ Loop(w, "top")
    /\ UNCHANGED tableRest

\* fail_leased: the row is read and checked ...
FailRead(w) ==
    /\ pc[w] = "run"
    /\ "failure" \in Outcomes
    /\ job[cur[w]].attempts < MaxAttempts
    /\ IF LeasedBy(job[cur[w]], IdOf[w])
       THEN /\ Goto(w, "fail")
            /\ att' = [att EXCEPT ![w] = job[cur[w]].attempts]
            /\ UNCHANGED <<t0, cand, cur>>
       ELSE Loop(w, "top")
    /\ UNCHANGED <<job, tableRest>>

\* Mutation of FailWrite: the UPDATE is keyed by the id alone.
FailWriteMutant(w) ==
    /\ pc[w] = "fail"
    /\ SetRow(cur[w], FailedRow(job[cur[w]], cur[w], att[w]))
    /\ Loop(w, "top")
    /\ UNCHANGED tableRest

\* ... and written with the attempt count of that read.
FailWrite(w) ==
    /\ pc[w] = "fail"
    /\ IF LeasedBy(job[cur[w]], IdOf[w])
       THEN SetRow(cur[w], FailedRow(job[cur[w]], cur[w], att[w]))
       ELSE UNCHANGED job
    /\ Loop(w, "top")
    /\ UNCHANGED tableRest

\* jobs wait-approval: the leased job is parked on an approval.
EnterApprovalWait(w, a) ==
    /\ pc[w] = "run"
    /\ "approval" \in Outcomes
    /\ IF LeasedBy(job[cur[w]], IdOf[w])
       THEN SetRow(cur[w], ApprovalWaitRow(job[cur[w]], a))
       ELSE UNCHANGED job
    /\ Loop(w, "top")
    /\ UNCHANGED tableRest

\* JobOutcome::Skip: the job stays as it is.
Skip(w) ==
    /\ pc[w] = "run"
    /\ "skip" \in Outcomes
    /\ Goto(w, "skipped")
    /\ t0' = [t0 EXCEPT ![w] = 0]
    /\ UNCHANGED <<job, tableRest, cand, cur, att>>

\* The executor or the finalising call fails, or the process dies and a new
\* one takes the worker's place: the row stays leased until it expires.
Abandon(w) ==
    /\ pc[w] \in Running
    /\ "error" \in Outcomes
    /\ Loop(w, "top")
    /\ UNCHANGED <<job, tableRest>>

WorkerNext(w) ==
    \/ Exit(w) \/ StartLease(w) \/ CheckPaused(w) \/ ListCandidates(w)
    \/ NoCandidate(w) \/ CheckConcurrency(w) \/ Claim(w)
    \/ Complete(w) \/ FailRead(w) \/ FailWrite(w)
    \/ \E a \in ApprovalIds : EnterApprovalWait(w, a)
    \/ Skip(w) \/ Abandon(w)

\* Ctrl-C or max_runtime_ms.
SignalDrain ==
    /\ MayDrain
    /\ draining' = TRUE
    /\ UNCHANGED <<now, job, paused, limit, audit, op, workerVars>>

Next ==
    \/ TableNext /\ UNCHANGED <<workerVars, draining>>
    \/ SignalDrain
    \/ \E w \in Workers : WorkerNext(w)

\* Tokio schedules every worker task and the wall clock advances; nobody
\* promises that an operator, a producer or an approver ever acts.
Fairness ==
    /\ \A w \in Workers : WF_vars(WorkerNext(w))
    /\ WF_vars(Tick /\ UNCHANGED <<workerVars, draining>>)

Spec == Init /\ [][Next]_vars /\ Fairness

-----------------------------------------------------------------------------
\* No two worker tasks write the same lease_owner: one pool on the database.
UniqueIds == \A v, w \in Workers : IdOf[v] = IdOf[w] => v = w

\* No operator command takes a lease away.
NoRevocation == Commands \intersect {"retry", "drain", "cancel"} = {}

\* While a worker runs a job and the row still names it as the lease's owner,
\* the lease is the one this worker was granted: complete_leased and
\* fail_leased, which compare only the owner, never finalise a later lease.
FencedLease ==
    \A w \in Workers :
        pc[w] \in Running /\ LeasedBy(job[cur[w]], IdOf[w])
            => job[cur[w]].expires = t0[w] + TTL

\* Two workers never run one job while the leases of both are unexpired.
NoLiveOverlap ==
    \A v, w \in Workers :
        /\ v # w /\ pc[v] \in Running /\ pc[w] \in Running /\ cur[v] = cur[w]
        => now >= t0[v] + TTL \/ now >= t0[w] + TTL

\* The attempt counter of a job never goes down: no finished run is
\* forgotten by fail_leased's read and later write.
AttemptsNeverDecrease ==
    [][\A j \in Jobs : job'[j].attempts >= job[j].attempts]_vars

\* A job waits for a retry only while fail_leased has retries left to give,
\* and is dead lettered only when it has none.
RetryBudget ==
    \A j \in Jobs :
        /\ job[j].status = "retry_wait" => job[j].attempts \in 1 .. MaxRetries[j]
        /\ job[j].status = "dead_lettered" => job[j].attempts > MaxRetries[j]

\* Without operators the workers finish at most max_retries + 1 runs of a job.
AttemptsBounded ==
    \A j \in Jobs : job[j].attempts <= MaxRetries[j] + 1

Approved(j, a) ==
    \E i \in DOMAIN audit :
        audit[i] = [job |-> j, kind |-> "approve", approval |-> a]

\* A job that was parked on an approval can be leased, retried or finished
\* only when decide_approval_wait granted the approval and audited the grant.
ApprovalGate ==
    \A j \in Jobs :
        /\ job[j].approval # NoOne
        /\ job[j].status \in {"pending", "leased", "retry_wait", "succeeded",
                              "dead_lettered"}
        => Approved(j, job[j].approval)

\* A job that has stopped stays stopped, whatever a worker that still runs
\* it, or one that listed it before, does next.
TerminalIsFinal ==
    [][\A j \in Jobs : job[j].status \in Terminal =>
           job'[j].status = job[j].status]_vars

\* With operators, a stopped job is leased again only through retry_job: it
\* passes through pending, and a late complete or fail does not revive it.
StoppedOnlyRetried ==
    [][\A j \in Jobs : job[j].status \in Terminal =>
           job'[j].status \in {job[j].status, "pending", "canceled"}]_vars

\* A concurrency limit is exceeded by at most one lease per further worker:
\* concurrency_allows and the lease are separate statements.
OvershootBounded ==
    \A scope \in Scopes :
        limit[scope] # 0 =>
            Cardinality(ActiveLeases(scope, now))
                <= limit[scope] + Cardinality(Workers) - 1

\* The lease protocol as a client of the queue sees it.
StageOf(r) ==
    CASE r.status = "absent" -> "none"
      [] r.status \in {"pending", "retry_wait"} -> "open"
      [] r.status = "leased" -> "held"
      [] r.status \in {"approval_wait", "loop_stall_escalated"} -> "parked"
      [] r.status \in Terminal -> "stopped"
HolderOf(r) == IF r.status = "leased" THEN r.owner ELSE NoOne
DeadlineOf(r) == IF r.status = "leased" THEN r.expires ELSE 0

LS == INSTANCE LeaseService WITH
        Revocable <- ~NoRevocation,
        clock <- now,
        stage <- [j \in Jobs |-> StageOf(job[j])],
        holder <- [j \in Jobs |-> HolderOf(job[j])],
        deadline <- [j \in Jobs |-> DeadlineOf(job[j])]

\* The workers' interleaved scans, claims and finalising calls implement the
\* lease service: a lease changes hands only by expiry, by its holder or by
\* an operator.
ImplementsLeaseService == LS!Spec

\* Nothing is left to wait for: the job is ready, or the lease of a worker that
\* skipped it, failed on it or died has run out.
Due(j) ==
    \/ job[j].status \in {"pending", "retry_wait"} /\ job[j].nextRun <= now
    \/ job[j].status = "leased" /\ job[j].expires <= now

\* The two reasons for which lease_next_at passes a due job over: candidates
\* are tried in the order they were created, so an older job goes first, and
\* another lease under its limit was still running when the round began.
GoesFirst(j) == \E w \in Workers : pc[w] \in Running /\ cur[w] < j
FindsLimitTaken(j) ==
    \E w \in Workers, i \in Jobs \ {j}, scope \in {Global, TaskOf[j]} :
        /\ pc[w] = "scan" /\ IsFirst(j, cand[w])
        /\ limit[scope] # 0 /\ scope \in {Global, TaskOf[i]}
        /\ job[i].status = "leased" /\ job[i].expires > t0[w]

\* No job stays due while the queue is neither paused nor draining: each one is
\* taken in the end, a job whose worker died, skipped it or failed included, or
\* the workers that come by go on finding an older job or a running lease.
DueJobsTaken ==
    \A j \in Jobs :
        Due(j) ~> \/ ~Due(j)
                  \/ GoesFirst(j) \/ FindsLimitTaken(j)
                  \/ paused \/ draining

\* Once the drain flag is up, every worker finishes its job and exits.
DrainExits == draining ~> \A w \in Workers : pc[w] = "exited"

\* When the queue is paused for good, the workers stop taking leases.
PauseQuiesces ==
    <>[]paused => <>[](\A w \in Workers : pc[w] \notin {"list", "scan", "claim"})

=============================================================================
