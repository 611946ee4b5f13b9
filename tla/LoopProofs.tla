----------------------------- MODULE LoopProofs -----------------------------
(***************************************************************************)
(* Loop governance over the pool, proved for every number of jobs, workers, *)
(* operators and governance processes and for every budget and policy.      *)
(*                                                                         *)
(* A step of the pool is first reduced to what it can do to one row: a      *)
(* stopped job stays stopped unless it is retried, and a lease carries the  *)
(* clock of the worker that took it.                                        *)
(***************************************************************************)
EXTENDS LoopGovernance, QueueProofs

\* The statuses in which no worker and no decision may touch a job.
Halted == Terminal \union {"loop_stall_escalated"}

\* What a step of the pool may do to the row of a job.
RowStep(j) ==
    /\ job[j].status \in Halted =>
          job'[j].status \in {job[j].status, "canceled"} \/ Retried(j)
    /\ job'[j] # job[j] /\ job'[j].status = "leased" => job'[j].expires - TTL \in Nat

-----------------------------------------------------------------------------
\* A table step leaves a stopped or escalated job as it is, or cancels or retries it.
LEMMA TableStops ==
    ASSUME TypeInv, TableNext, NEW j \in Jobs, job[j].status \in Halted
    PROVE  job'[j].status \in {job[j].status, "canceled"} \/ Retried(j)
<1> USE DEF TypeInv, TypeOK, TableTypeOK
<1>0. \A i \in Jobs : job[i] \in Row
  OBVIOUS
<1>1. CASE Tick
  BY <1>1 DEF Tick
<1>2. ASSUME NEW i \in Jobs, NEW d \in Delays, Enqueue(i, d)
      PROVE  job'[j] = job[j]
  <2>1. i # j BY <1>2 DEF Enqueue, Halted, Terminal
  <2> QED BY <1>2, <2>1 DEF Enqueue, SetRow
<1>3. ASSUME NEW i \in Jobs, NEW a \in ApprovalIds, NEW d \in Decisions,
             DecideApproval(i, a, d)
      PROVE  job'[j] = job[j]
  <2>1. i # j BY <1>3 DEF DecideApproval, Halted, Terminal
  <2> QED BY <1>3, <2>1 DEF DecideApproval, SetRow
<1>4. ASSUME NEW o \in Operators, DrainRelease(o)
      PROVE  job'[j] = job[j]
  <2>1. job[j].status # "leased" BY DEF Halted, Terminal
  <2> QED BY <1>4, <2>1 DEF DrainRelease
<1>5. ASSUME NEW o \in Operators, RetryWrite(o)
      PROVE  job'[j] = job[j] \/ Retried(j)
  <2>1. op'[o].at = "idle" BY <1>5 DEF RetryWrite, IdleOp
  <2>2. CASE op[o].job = j
    BY <1>5, <2>1, <2>2 DEF RetryWrite, Retried
  <2>3. CASE op[o].job # j
    BY <1>5, <2>3 DEF RetryWrite, SetRow
  <2> QED BY <2>2, <2>3
<1>6. ASSUME NEW o \in Operators, NEW i \in Jobs, Cancel(o, i)
      PROVE  job'[j].status \in {job[j].status, "canceled"}
  BY <1>6, <1>0 DEF Cancel, SetRow, Row
<1>7. ASSUME NEW o \in Operators, OperatorNext(o)
      PROVE  job'[j].status \in {job[j].status, "canceled"} \/ Retried(j)
  BY <1>4, <1>5, <1>6, <1>7
  DEF OperatorNext, SetPaused, DrainPause, RetryRead, SetConcurrencyLimit
<1> QED BY <1>1, <1>2, <1>3, <1>7 DEF TableNext

\* Every step of the pool is such a row step.
LEMMA PoolRows ==
    ASSUME TypeInv, Next, NEW j \in Jobs
    PROVE  RowStep(j)
<1> USE QueueAssumption
<1>0. /\ job \in [Jobs -> Row]
      /\ \A w \in Workers : t0[w] \in Nat
  BY DEF TypeInv, TypeOK, TableTypeOK
<1>1. CASE TableNext
  BY <1>1, TableStops, TableRows DEF RowStep
<1>2. CASE SignalDrain
  BY <1>2 DEF SignalDrain, RowStep
<1>3. ASSUME NEW w \in Workers, NEW i \in Jobs, Grant(w, i)
      PROVE  RowStep(j)
  <2>1. job'[i].expires = t0[w] + TTL
    BY <1>0, <1>3 DEF Grant, SetRow, LeasedRow, Row
  <2>2. job'[i].expires - TTL \in Nat
    BY <1>0, <2>1
  <2>3. job[i].status \notin Halted
    BY <1>3 DEF Grant, LeaseGuard, Halted, Terminal
  <2>4. j # i => job'[j] = job[j]
    BY <1>0, <1>3 DEF Grant, SetRow
  <2>5. CASE j = i
    BY <2>2, <2>3, <2>5, Zenon DEF RowStep
  <2>6. CASE j # i
    BY <2>4, <2>6 DEF RowStep
  <2> QED BY <2>5, <2>6
<1>4. ASSUME NEW w \in Workers, Finalise(w)
      PROVE  RowStep(j)
  <2>1. job[cur[w]].status \notin Halted
    BY <1>4 DEF Finalise, LeasedBy, Halted, Terminal
  <2>2. j # cur[w] => job'[j] = job[j]
    BY <1>4, FinalisedStatus
  <2>3. job'[cur[w]].status # "leased"
    BY <1>0, <1>4, FinalisedStatus DEF SetRow
  <2>4. CASE j = cur[w]
    BY <2>1, <2>3, <2>4 DEF RowStep
  <2>5. CASE j # cur[w]
    BY <2>2, <2>5 DEF RowStep
  <2> QED BY <2>4, <2>5
<1>5. ASSUME NEW w \in Workers, MoveOn(w)
      PROVE  RowStep(j)
  BY <1>5 DEF MoveOn, RowStep
<1> QED BY <1>1, <1>2, <1>3, <1>4, <1>5, WorkerStep DEF Next

\* The clock of the pool does not go back.
LEMMA ClockMonotone ==
    ASSUME TypeInv, Next
    PROVE  now' >= now
<1>0. now \in Nat
  BY DEF TypeInv, TypeOK, TableTypeOK
<1>1. CASE TableNext
  <2>1. ASSUME NEW o \in Operators, OperatorNext(o)
        PROVE  now' = now
    BY <2>1
    DEF OperatorNext, SetPaused, DrainPause, DrainRelease, RetryRead, RetryWrite,
        Cancel, SetConcurrencyLimit
  <2>2. CASE Tick
    BY <1>0, <2>2 DEF Tick
  <2>3. ~Tick => now' = now
    BY <1>1, <2>1 DEF TableNext, Enqueue, DecideApproval
  <2> QED BY <1>0, <2>2, <2>3
<1>2. CASE SignalDrain
  BY <1>0, <1>2 DEF SignalDrain
<1>3. ASSUME NEW w \in Workers, WorkerNext(w)
      PROVE  now' = now
  BY <1>3, WorkerStep DEF Grant, Finalise, MoveOn
<1> QED BY <1>0, <1>1, <1>2, <1>3 DEF Next

-----------------------------------------------------------------------------
(* Types. *)

GovTypeOK ==
    /\ usage \in [Jobs -> [Dims -> Nat]]
    /\ loopLimit \in [Jobs -> [Dims -> Nat \union {Unbounded}]]
    /\ policy \in [Jobs -> StallPolicies \union {NoPolicy}]
    /\ beat \in [Jobs -> Nat]
    /\ touched \in [Jobs -> Nat]
    /\ gov \in [Governors -> [at: {"idle", "beat", "check"},
                              job: Jobs \union {NoOne}, t: Nat]]
    /\ over \in [Jobs -> BOOLEAN]
    /\ acked \in [Governors -> [Jobs -> Nat]]

\* A governance process in the middle of a call knows the job.
GovCallsOK == \A g \in Governors : gov[g].at # "idle" => gov[g].job \in Jobs

LoopTypeInv == TypeInv /\ GovTypeOK /\ GovCallsOK

LEMMA LoopTypeInit == LoopInit => LoopTypeInv
<1> SUFFICES ASSUME LoopInit PROVE LoopTypeInv
  OBVIOUS
<1>1. TypeInv
  BY TypeInit DEF LoopInit
<1>2. GovTypeOK /\ GovCallsOK
  BY DEF LoopInit, GovTypeOK, GovCallsOK, IdleGov
<1> QED BY <1>1, <1>2 DEF LoopTypeInv

\* The row of a job that governance stops is a row.
LEMMA StoppedRowType ==
    ASSUME NEW r \in Row, NEW s \in Status
    PROVE  /\ StoppedRow(r, s) \in Row
           /\ StoppedRow(r, s).status = s
<1>1. StoppedRow(r, s) \in Row
  BY RowUpdates DEF StoppedRow
<1>2. StoppedRow(r, s).status = s
  BY DEF StoppedRow, Unleased, Row
<1> QED BY <1>1, <1>2

\* A step that changes nothing of the pool but one row keeps its types.
LEMMA RowWritten ==
    ASSUME TypeInv, NEW j \in Jobs, NEW r \in Row, SetRow(j, r),
           UNCHANGED <<tableRest, workerVars>>
    PROVE  TypeInv'
BY DEF TypeInv, TypeOK, TableTypeOK, CallsOK, SetRow, tableRest, workerVars

LEMMA PoolUnchanged ==
    ASSUME TypeInv, UNCHANGED vars
    PROVE  TypeInv'
BY DEF TypeInv, TypeOK, TableTypeOK, CallsOK, vars

\* A pool step keeps the types: the time it stamps on a row is a time.
LEMMA LoopTypePool == LoopTypeInv /\ PoolStep => LoopTypeInv'
<1> SUFFICES ASSUME LoopTypeInv, PoolStep PROVE LoopTypeInv'
  OBVIOUS
<1>1. TypeInv'
  BY TypeStep DEF LoopTypeInv, PoolStep
<1>2. now \in Nat
  BY DEF LoopTypeInv, TypeInv, TypeOK, TableTypeOK
<1>3. \A j \in Jobs : job'[j] # job[j] => TouchedAt(j) \in Nat
  <2> SUFFICES ASSUME NEW j \in Jobs, job'[j] # job[j] PROVE TouchedAt(j) \in Nat
    OBVIOUS
  <2>1. RowStep(j) BY PoolRows DEF LoopTypeInv, PoolStep
  <2> QED BY <1>2, <2>1 DEF RowStep, TouchedAt
<1>4. touched' \in [Jobs -> Nat]
  BY <1>2, <1>3 DEF PoolStep, LoopTypeInv, GovTypeOK
<1>5. over' \in [Jobs -> BOOLEAN]
  BY DEF PoolStep, LoopTypeInv, GovTypeOK
<1>6. GovTypeOK' /\ GovCallsOK'
  BY <1>4, <1>5 DEF PoolStep, LoopTypeInv, GovTypeOK, GovCallsOK, govVars
<1> QED BY <1>1, <1>6 DEF LoopTypeInv

\* A governance step keeps the types.
LEMMA LoopTypeGovernance == LoopTypeInv /\ GovernanceStep => LoopTypeInv'
<1> SUFFICES ASSUME LoopTypeInv, GovernanceStep PROVE LoopTypeInv'
  OBVIOUS
<1> USE LoopAssumption DEF LoopTypeInv, GovTypeOK, GovCallsOK
<1>0. now \in Nat /\ \A j \in Jobs : job[j] \in Row
  BY DEF TypeInv, TypeOK, TableTypeOK
<1>1. ASSUME NEW j \in Jobs, NEW row \in LoopLimitRows, SetLoopLimits(j, row)
      PROVE  LoopTypeInv'
  <2>1. TypeInv' BY <1>1, PoolUnchanged DEF SetLoopLimits
  <2> QED BY <1>1, <2>1 DEF SetLoopLimits
<1>2. ASSUME NEW j \in Jobs, NEW delta \in Deltas, RecordLoopUsage(j, delta)
      PROVE  LoopTypeInv'
  <2> DEFINE u == [d \in Dims |-> usage[j][d] + delta[d]]
  <2>1. u \in [Dims -> Nat]
    <3>1. delta \in [Dims -> Nat] /\ usage[j] \in [Dims -> Nat] OBVIOUS
    <3> QED BY <3>1
  <2>2. usage' \in [Jobs -> [Dims -> Nat]]
    <3>1. usage' = [usage EXCEPT ![j] = u] BY <1>2 DEF RecordLoopUsage
    <3> QED BY <2>1, <3>1
  <2>3. UNCHANGED <<tableRest, workerVars, loopLimit, policy, beat, gov, acked>>
    BY <1>2 DEF RecordLoopUsage
  <2>4. \/ UNCHANGED <<job, touched, over>>
        \/ /\ SetRow(j, StoppedRow(job[j], "loop_budget_exceeded"))
           /\ \E t \in 1 .. now : touched' = [touched EXCEPT ![j] = t]
           /\ over' = [over EXCEPT ![j] = TRUE]
    BY <1>2 DEF RecordLoopUsage
  <2>5. CASE UNCHANGED <<job, touched, over>>
    <3>1. TypeInv'
      BY <2>3, <2>5, PoolUnchanged DEF vars, tableRest, workerVars
    <3> QED BY <2>2, <2>3, <2>5, <3>1
  <2>6. CASE /\ SetRow(j, StoppedRow(job[j], "loop_budget_exceeded"))
             /\ \E t \in 1 .. now : touched' = [touched EXCEPT ![j] = t]
             /\ over' = [over EXCEPT ![j] = TRUE]
    <3>1. StoppedRow(job[j], "loop_budget_exceeded") \in Row
      BY <1>0, StoppedRowType DEF Status, Terminal
    <3>2. TypeInv' BY <2>3, <2>6, <3>1, RowWritten
    <3> QED BY <1>0, <2>2, <2>3, <2>6, <3>2
  <2> QED BY <2>4, <2>5, <2>6
<1>3. ASSUME NEW j \in Jobs, NEW p \in StallPolicies, SetStallPolicy(j, p)
      PROVE  LoopTypeInv'
  <2>1. TypeInv' BY <1>3, PoolUnchanged DEF SetStallPolicy
  <2> QED BY <1>3, <2>1 DEF SetStallPolicy
<1>4. ASSUME NEW g \in Governors, NEW what \in {"beat", "check"}, NEW j \in Jobs,
             Begin(g, what, j)
      PROVE  LoopTypeInv'
  <2>1. TypeInv' BY <1>4, PoolUnchanged DEF Begin
  <2>2. gov' = [gov EXCEPT ![g] = [at |-> what, job |-> j, t |-> now]]
    BY <1>4 DEF Begin
  <2>3. GovTypeOK'
    BY <1>0, <1>4, <2>2 DEF Begin
  <2> QED BY <2>1, <2>2, <2>3
<1>5. ASSUME NEW g \in Governors, WriteHeartbeat(g)
      PROVE  LoopTypeInv'
  <2>1. TypeInv' BY <1>5, PoolUnchanged DEF WriteHeartbeat
  <2>2. gov[g].job \in Jobs /\ gov[g].t \in Nat BY <1>5 DEF WriteHeartbeat
  <2>3. beat' \in [Jobs -> Nat] /\ acked' \in [Governors -> [Jobs -> Nat]]
    <3>1. [acked[g] EXCEPT ![gov[g].job] = gov[g].t] \in [Jobs -> Nat]
      BY <2>2
    <3> QED BY <1>5, <2>2, <3>1 DEF WriteHeartbeat
  <2>4. gov' = [gov EXCEPT ![g] = IdleGov] BY <1>5 DEF WriteHeartbeat
  <2> QED BY <1>5, <2>1, <2>3, <2>4 DEF WriteHeartbeat, IdleGov
<1>6. ASSUME NEW g \in Governors, CheckStall(g)
      PROVE  LoopTypeInv'
  <2> DEFINE j == gov[g].job
  <2> DEFINE s == StatusAfterStall(policy[j])
  <2>1. j \in Jobs /\ gov[g].t \in Nat BY <1>6 DEF CheckStall
  <2>2. UNCHANGED <<tableRest, workerVars, usage, loopLimit, policy, beat, over, acked>>
    BY <1>6 DEF CheckStall
  <2>3. gov' = [gov EXCEPT ![g] = IdleGov] BY <1>6 DEF CheckStall
  <2>4. \/ UNCHANGED <<job, touched>>
        \/ /\ SetRow(j, StoppedRow(job[j], s))
           /\ touched' = [touched EXCEPT ![j] = gov[g].t]
    BY <1>6 DEF CheckStall
  <2>5. TypeInv' /\ touched' \in [Jobs -> Nat]
    <3>1. CASE UNCHANGED <<job, touched>>
      BY <2>2, <3>1, PoolUnchanged DEF vars, tableRest, workerVars
    <3>2. CASE /\ SetRow(j, StoppedRow(job[j], s))
               /\ touched' = [touched EXCEPT ![j] = gov[g].t]
      <4>1. s \in Status BY DEF StatusAfterStall, Status, Terminal
      <4>2. StoppedRow(job[j], s) \in Row BY <1>0, <2>1, <4>1, StoppedRowType
      <4>3. TypeInv' BY <2>1, <2>2, <3>2, <4>2, RowWritten
      <4> QED BY <2>1, <3>2, <4>3
    <3> QED BY <2>4, <3>1, <3>2
  <2> QED BY <2>2, <2>3, <2>5 DEF IdleGov
<1> QED BY <1>1, <1>2, <1>3, <1>4, <1>5, <1>6 DEF GovernanceStep

\* Every step keeps the types.
LEMMA LoopTypeStep == LoopTypeInv /\ [LoopNext]_loopVars => LoopTypeInv'
<1> SUFFICES ASSUME LoopTypeInv, [LoopNext]_loopVars PROVE LoopTypeInv'
  OBVIOUS
<1>1. CASE UNCHANGED loopVars
  <2>1. TypeInv' BY <1>1, PoolUnchanged DEF loopVars, LoopTypeInv
  <2> QED BY <1>1, <2>1 DEF loopVars, govVars, LoopTypeInv, GovTypeOK, GovCallsOK
<1> QED BY <1>1, LoopTypePool, LoopTypeGovernance DEF LoopNext

LEMMA LoopTypeInvariant == LoopSpec => []LoopTypeInv
BY LoopTypeInit, LoopTypeStep, PTL DEF LoopSpec

\* Type correctness: no report, heartbeat or stall check stores a status,
\* a time or a usage the queue cannot read back.
THEOREM LoopTypeCorrect == LoopSpec => []LoopTypeOK
<1>1. LoopTypeInv => LoopTypeOK
  BY DEF LoopTypeInv, LoopTypeOK, TypeInv, GovTypeOK
<1> QED BY <1>1, LoopTypeInvariant, PTL

-----------------------------------------------------------------------------
(* Budgets and stops. *)

\* What a governance step may do to a job's row, usage and history.
LEMMA GovernanceRows ==
    ASSUME LoopTypeInv, GovernanceStep, NEW j \in Jobs
    PROVE  \/ /\ job'[j] = job[j]
              /\ over'[j] = over[j]
              /\ usage'[j] = usage[j] \/ ~RefusesUsage(job[j].status)
           \/ /\ ~RefusesUsage(job[j].status)
              /\ job'[j].status = "loop_budget_exceeded"
              /\ over'[j] = TRUE
           \/ /\ job[j].status \notin Terminal
              /\ job'[j].status \in {"loop_stall_escalated", "loop_stall_terminated"}
              /\ over'[j] = over[j]
              /\ usage'[j] = usage[j]
<1> USE DEF LoopTypeInv, GovTypeOK, GovCallsOK
<1>0. job \in [Jobs -> Row]
  BY DEF TypeInv, TypeOK, TableTypeOK
<1>1. CASE UNCHANGED <<job, usage, over>>
  BY <1>1
<1>2. ASSUME NEW i \in Jobs, NEW delta \in Deltas, RecordLoopUsage(i, delta)
      PROVE  \/ /\ job'[j] = job[j]
                /\ over'[j] = over[j]
                /\ usage'[j] = usage[j] \/ ~RefusesUsage(job[j].status)
             \/ /\ ~RefusesUsage(job[j].status)
                /\ job'[j].status = "loop_budget_exceeded"
                /\ over'[j] = TRUE
  <2>1. ~RefusesUsage(job[i].status) BY <1>2 DEF RecordLoopUsage
  <2>2. j # i => usage'[j] = usage[j] BY <1>2 DEF RecordLoopUsage
  <2>3. \/ UNCHANGED <<job, over>>
        \/ /\ SetRow(i, StoppedRow(job[i], "loop_budget_exceeded"))
           /\ over' = [over EXCEPT ![i] = TRUE]
    BY <1>2 DEF RecordLoopUsage
  <2>4. StoppedRow(job[i], "loop_budget_exceeded").status = "loop_budget_exceeded"
    BY <1>0, StoppedRowType DEF Status, Terminal
  <2>5. CASE i = j
    BY <1>0, <2>1, <2>3, <2>4, <2>5 DEF SetRow
  <2>6. CASE i # j
    BY <1>0, <2>2, <2>3, <2>6 DEF SetRow
  <2> QED BY <2>5, <2>6
<1>3. ASSUME NEW g \in Governors, CheckStall(g)
      PROVE  /\ UNCHANGED <<usage, over>>
             /\ \/ job'[j] = job[j]
                \/ /\ job[j].status \notin Terminal
                   /\ job'[j].status \in {"loop_stall_escalated",
                                         "loop_stall_terminated"}
  <2>1. gov[g].job \in Jobs BY <1>3 DEF CheckStall
  <2>2. UNCHANGED <<usage, over>> BY <1>3 DEF CheckStall
  <2>3. \/ UNCHANGED job
        \/ /\ job[gov[g].job].status \notin Terminal
           /\ \E s \in {"loop_stall_escalated", "loop_stall_terminated"} :
                 SetRow(gov[g].job, StoppedRow(job[gov[g].job], s))
    BY <1>3 DEF CheckStall, Stalled, StatusAfterStall
  <2>4. \A s \in {"loop_stall_escalated", "loop_stall_terminated"} :
           StoppedRow(job[gov[g].job], s).status = s
    BY <1>0, <2>1, StoppedRowType DEF Status, Terminal
  <2> QED BY <1>0, <2>1, <2>2, <2>3, <2>4 DEF SetRow
<1> QED
  BY <1>1, <1>2, <1>3
  DEF GovernanceStep, SetLoopLimits, SetStallPolicy, Begin, WriteHeartbeat, vars

\* Every step keeps a job that is over its budget out of the workers' reach.
LEMMA BudgetStep ==
    LoopTypeInv /\ BudgetEnforced /\ [LoopNext]_loopVars => BudgetEnforced'
<1> SUFFICES ASSUME LoopTypeInv, BudgetEnforced, [LoopNext]_loopVars,
                    NEW j \in Jobs, over'[j]
             PROVE  job'[j].status \in {"loop_budget_exceeded", "canceled"}
  BY DEF BudgetEnforced
<1>1. CASE PoolStep
  <2>1. over[j] /\ ~Retried(j) BY <1>1 DEF PoolStep
  <2>2. job[j].status \in {"loop_budget_exceeded", "canceled"}
    BY <2>1 DEF BudgetEnforced
  <2>3. RowStep(j) BY <1>1, PoolRows DEF LoopTypeInv, PoolStep
  <2> QED BY <2>1, <2>2, <2>3 DEF RowStep, Halted, Terminal
<1>2. CASE GovernanceStep
  BY <1>2, GovernanceRows DEF BudgetEnforced, Terminal
<1>3. CASE UNCHANGED loopVars
  BY <1>3 DEF loopVars, vars, BudgetEnforced
<1> QED BY <1>1, <1>2, <1>3 DEF LoopNext

\* Budgets hold: once record_loop_usage_at found a job over a bound, no worker
\* step, late write, decision or stall check makes it leasable again.
THEOREM BudgetsEnforced == LoopSpec => []BudgetEnforced
<1>1. LoopInit => BudgetEnforced
  BY DEF LoopInit, BudgetEnforced
<1> QED BY <1>1, BudgetStep, LoopTypeInvariant, PTL DEF LoopSpec

\* Overruns are final: after that no report adds to the job's usage.
THEOREM OverrunsBounded == LoopSpec => UsageStops
<1>1. ASSUME LoopTypeInv, BudgetEnforced, [LoopNext]_loopVars,
             NEW j \in Jobs, over[j], over'[j]
      PROVE  usage'[j] = usage[j]
  <2>1. CASE PoolStep
    BY <2>1 DEF PoolStep, govVars
  <2>2. CASE GovernanceStep
    <3>1. job[j].status \in {"loop_budget_exceeded", "canceled"}
      BY <1>1 DEF BudgetEnforced
    <3>2. RefusesUsage(job[j].status) BY <3>1 DEF RefusesUsage, Terminal
    <3>3. job[j].status \in Terminal BY <3>1 DEF Terminal
    <3> QED BY <1>1, <2>2, <3>2, <3>3, GovernanceRows
  <2>3. CASE UNCHANGED loopVars
    BY <2>3 DEF loopVars, govVars
  <2> QED BY <1>1, <2>1, <2>2, <2>3 DEF LoopNext
<1>2. LoopTypeInv /\ BudgetEnforced /\ [LoopNext]_loopVars =>
        [\A j \in Jobs : over[j] /\ over'[j] => usage'[j] = usage[j]]_loopVars
  BY <1>1
<1> QED
  BY <1>2, BudgetsEnforced, LoopTypeInvariant, PTL DEF LoopSpec, UsageStops

\* Loop stops are final: only an operator's retry or cancellation takes a job
\* out of the states a budget or a stall check put it in.
THEOREM LoopStopsFinal == LoopSpec => LoopStopIsFinal
<1>1. ASSUME LoopTypeInv, [LoopNext]_loopVars, NEW j \in Jobs,
             NEW S \in {LoopStops, Escalated},
             job[j].status \in S, job'[j].status \notin S
      PROVE  job'[j].status = "canceled" \/ Retried(j)
  <2>0. job[j].status \in Halted
    BY <1>1 DEF LoopStops, Escalated, Halted, Terminal
  <2>1. CASE PoolStep
    <3>1. RowStep(j) BY <1>1, <2>1, PoolRows DEF LoopTypeInv, PoolStep
    <3> QED BY <1>1, <2>0, <3>1 DEF RowStep
  <2>2. CASE GovernanceStep
    BY <1>1, <2>2, GovernanceRows DEF LoopStops, Escalated, Terminal
  <2>3. CASE UNCHANGED loopVars
    BY <1>1, <2>3 DEF loopVars, vars
  <2> QED BY <1>1, <2>1, <2>2, <2>3 DEF LoopNext
<1>2. LoopTypeInv /\ [LoopNext]_loopVars =>
        [\A j \in Jobs, S \in {LoopStops, Escalated} :
            job[j].status \in S /\ job'[j].status \notin S
            => job'[j].status = "canceled" \/ Retried(j)]_loopVars
  BY <1>1
<1> QED BY <1>2, LoopTypeInvariant, PTL DEF LoopSpec, LoopStopIsFinal

-----------------------------------------------------------------------------
(* Heartbeats. *)

\* The stored heartbeat is the last one of some source, whichever of them wrote
\* last; times start at one, so no row is told apart from any heartbeat.
HeartInv ==
    /\ now # 0
    /\ \A g \in Governors : gov[g].at = "beat" => gov[g].t # 0
    /\ \A j \in Jobs :
          \/ beat[j] = 0 /\ \A s \in Governors : acked[s][j] = 0
          \/ beat[j] # 0 /\ \E s \in Governors : acked[s][j] = beat[j]

LEMMA HeartStep ==
    LoopTypeInv /\ HeartInv /\ [LoopNext]_loopVars => HeartInv'
<1> SUFFICES ASSUME LoopTypeInv, HeartInv, [LoopNext]_loopVars
             PROVE  HeartInv'
  OBVIOUS
<1>0. /\ now \in Nat
      /\ gov \in [Governors -> [at: {"idle", "beat", "check"},
                              job: Jobs \union {NoOne}, t: Nat]]
      /\ beat \in [Jobs -> Nat] /\ acked \in [Governors -> [Jobs -> Nat]]
  BY DEF LoopTypeInv, GovTypeOK, TypeInv, TypeOK, TableTypeOK
<1>1. CASE PoolStep
  <2>1. now' # 0
    <3>1. TypeInv' BY <1>1, LoopTypePool DEF LoopTypeInv
    <3> QED
      BY <1>0, <1>1, <3>1, ClockMonotone
      DEF PoolStep, LoopTypeInv, TypeInv, TypeOK, TableTypeOK, HeartInv
  <2>2. UNCHANGED <<beat, gov, acked>> BY <1>1 DEF PoolStep, govVars
  <2> QED BY <2>1, <2>2 DEF HeartInv
<1>2. CASE UNCHANGED <<now, beat, gov, acked>>
  BY <1>2 DEF HeartInv
<1>3. ASSUME NEW g \in Governors, NEW what \in {"beat", "check"}, NEW j \in Jobs,
             Begin(g, what, j)
      PROVE  HeartInv'
  <2>1. /\ gov' = [gov EXCEPT ![g] = [at |-> what, job |-> j, t |-> now]]
        /\ UNCHANGED <<now, beat, acked>>
    BY <1>3 DEF Begin, vars
  <2>2. \A f \in Governors : gov'[f].at = "beat" => gov'[f].t # 0
    BY <1>0, <2>1 DEF HeartInv
  <2> QED BY <2>1, <2>2 DEF HeartInv
<1>4. ASSUME NEW g \in Governors, WriteHeartbeat(g)
      PROVE  HeartInv'
  <2> DEFINE j == gov[g].job
  <2> DEFINE h == gov[g].t
  <2>1. /\ gov[g].at = "beat"
        /\ beat' = [beat EXCEPT ![j] = h]
        /\ acked' = [acked EXCEPT ![g] = [acked[g] EXCEPT ![j] = h]]
        /\ gov' = [gov EXCEPT ![g] = IdleGov]
        /\ now' = now
    BY <1>4 DEF WriteHeartbeat, vars
  <2>2. j \in Jobs BY <2>1 DEF LoopTypeInv, GovCallsOK
  <2>3. h # 0 BY <2>1 DEF HeartInv
  <2>4. beat'[j] = h /\ acked'[g][j] = h
    BY <1>0, <2>1, <2>2
  <2>5. \A i \in Jobs \ {j} :
           /\ beat'[i] = beat[i]
           /\ \A s \in Governors : acked'[s][i] = acked[s][i]
    BY <1>0, <2>1, <2>2
  <2>6. \A i \in Jobs :
           \/ beat'[i] = 0 /\ \A s \in Governors : acked'[s][i] = 0
           \/ beat'[i] # 0 /\ \E s \in Governors : acked'[s][i] = beat'[i]
    BY <2>3, <2>4, <2>5 DEF HeartInv
  <2>7. \A f \in Governors : gov'[f].at = "beat" => gov'[f].t # 0
    BY <1>0, <2>1 DEF HeartInv, IdleGov
  <2> QED BY <2>1, <2>6, <2>7 DEF HeartInv
<1>5. ASSUME NEW g \in Governors, CheckStall(g)
      PROVE  HeartInv'
  <2>1. /\ gov' = [gov EXCEPT ![g] = IdleGov]
        /\ UNCHANGED <<now, beat, acked>>
    BY <1>5 DEF CheckStall, tableRest
  <2>2. \A f \in Governors : gov'[f].at = "beat" => gov'[f].t # 0
    BY <1>0, <2>1 DEF HeartInv, IdleGov
  <2> QED BY <2>1, <2>2 DEF HeartInv
<1> QED
  BY <1>1, <1>2, <1>3, <1>4, <1>5
  DEF LoopNext, GovernanceStep, SetLoopLimits, SetStallPolicy, RecordLoopUsage,
      loopVars, govVars, vars, tableRest

\* Heartbeats count: while every process that reports for a job goes on doing
\* so within the threshold, no stall check stops the job, for any number of
\* sources and checkers and any order in which their delayed calls are written.
THEOREM HeartbeatsHonoured == LoopSpec => HeartbeatHonoured
<1>1. LoopInit => HeartInv
  BY DEF LoopInit, Init, TableInit, HeartInv, IdleGov
<1>2. LoopTypeInv /\ HeartInv /\ [LoopNext]_loopVars => HeartInv'
  BY HeartStep
<1>3. LoopSpec => []HeartInv
  BY <1>1, <1>2, LoopTypeInvariant, PTL DEF LoopSpec
<1>4. ASSUME LoopTypeInv, HeartInv, [LoopNext]_loopVars,
             NEW g \in Governors, StallStep(g)
      PROVE  \/ \A s \in Governors : acked[s][gov[g].job] = 0
             \/ \E s \in Governors : Silent(g, s)
  <2> DEFINE j == gov[g].job
  <2>0. gov \in [Governors -> [at: {"idle", "beat", "check"},
                              job: Jobs \union {NoOne}, t: Nat]]
    BY <1>4 DEF LoopTypeInv, GovTypeOK
  <2>1. gov[g].at = "check" /\ gov'[g].at = "idle" /\ gov'[g] # gov[g]
        /\ job'[j] # job[j]
    BY <1>4 DEF StallStep, IdleGov
  <2>2. GovernanceStep
    BY <1>4, <2>1 DEF LoopNext, PoolStep, loopVars, govVars
  <2>3. CheckStall(g)
    <3>1. ASSUME NEW f \in Governors, gov' = [gov EXCEPT ![f] = IdleGov]
          PROVE  f = g
      BY <2>0, <2>1, <3>1
    <3>2. ASSUME NEW f \in Governors, NEW what \in {"beat", "check"}, NEW i \in Jobs,
                 Begin(f, what, i)
          PROVE  FALSE
      BY <2>0, <2>1, <3>2 DEF Begin
    <3>3. ASSUME NEW f \in Governors, WriteHeartbeat(f)
          PROVE  FALSE
      BY <2>1, <3>1, <3>3 DEF WriteHeartbeat
    <3>4. ASSUME NEW f \in Governors, CheckStall(f)
          PROVE  f = g
      BY <3>1, <3>4 DEF CheckStall
    <3> QED
      BY <2>1, <2>2, <3>2, <3>3, <3>4
      DEF GovernanceStep, SetLoopLimits, SetStallPolicy, RecordLoopUsage
  <2>4. j \in Jobs /\ gov[g].t > LastSign(j) + policy[j].after
    BY <1>4, <2>1, <2>3 DEF CheckStall, Stalled, LoopTypeInv, GovCallsOK
  <2>5. CASE beat[j] = 0
    BY <1>4, <2>4, <2>5 DEF HeartInv
  <2>6. CASE beat[j] # 0
    <3>1. PICK s \in Governors : acked[s][j] = beat[j]
      BY <1>4, <2>4, <2>6 DEF HeartInv
    <3>2. Silent(g, s)
      BY <2>4, <2>6, <3>1 DEF LastSign, Silent
    <3> QED BY <3>2
  <2> QED BY <2>5, <2>6
<1>5. LoopTypeInv /\ HeartInv /\ [LoopNext]_loopVars =>
        [\A g \in Governors : StallStep(g) =>
            \/ \A s \in Governors : acked[s][gov[g].job] = 0
            \/ \E s \in Governors : Silent(g, s)]_loopVars
  BY <1>4
<1> QED
  BY <1>3, <1>5, LoopTypeInvariant, PTL DEF LoopSpec, HeartbeatHonoured
=============================================================================
