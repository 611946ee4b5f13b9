----------------------------- MODULE QueueProofs ----------------------------
(***************************************************************************)
(* What the job table promises whatever the workers' ids are: the retry     *)
(* budget and the number of runs, the approval gate, that stopped jobs stay *)
(* stopped, that concurrency limits are exceeded by a bounded number of     *)
(* leases, and that it implements LeaseService.                             *)
(***************************************************************************)
EXTENDS WorkerPoolProofs, FiniteSetTheorems

-----------------------------------------------------------------------------
(* The retry budget. *)

\* A finalising step writes one row: its status is never open with a count
\* outside the budget.
LEMMA FinalisedBudget ==
    ASSUME TypeInv, NEW w \in Workers, Finalise(w)
    PROVE  /\ cur[w] \in Jobs
           /\ \A j \in Jobs : j # cur[w] => job'[j] = job[j]
           /\ \/ job'[cur[w]].status \in {"succeeded", "approval_wait"}
              \/ /\ job'[cur[w]].status = "retry_wait"
                 /\ job'[cur[w]].attempts \in 1 .. MaxRetries[cur[w]]
              \/ /\ job'[cur[w]].status = "dead_lettered"
                 /\ job'[cur[w]].attempts > MaxRetries[cur[w]]
<1> USE DEF TypeInv, TypeOK, TableTypeOK
<1>1. cur[w] \in Jobs
  BY DEF Finalise, CallsOK
<1>2. job[cur[w]] \in Row /\ att[w] \in Nat /\ MaxRetries[cur[w]] \in Nat
  BY <1>1, QueueAssumption
<1>3. CASE SetRow(cur[w], CompletedRow(job[cur[w]]))
  BY <1>1, <1>2, <1>3 DEF SetRow, CompletedRow, Unleased, Row
<1>4. CASE SetRow(cur[w], FailedRow(job[cur[w]], cur[w], att[w]))
  <2>1. CASE att[w] + 1 <= MaxRetries[cur[w]]
    BY <1>1, <1>2, <1>4, <2>1 DEF SetRow, FailedRow, Unleased, Row
  <2>2. CASE ~(att[w] + 1 <= MaxRetries[cur[w]])
    BY <1>1, <1>2, <1>4, <2>2 DEF SetRow, FailedRow, Unleased, Row
  <2> QED BY <2>1, <2>2
<1>5. ASSUME NEW a \in ApprovalIds,
             SetRow(cur[w], ApprovalWaitRow(job[cur[w]], a))
      PROVE  /\ job'[cur[w]].status = "approval_wait"
             /\ \A j \in Jobs : j # cur[w] => job'[j] = job[j]
  BY <1>1, <1>2, <1>5 DEF SetRow, ApprovalWaitRow, Unleased, Row
<1> QED BY <1>1, <1>3, <1>4, <1>5 DEF Finalise

\* The retry budget: retry_wait means retries are left and dead_lettered that
\* none are, for every worker interleaving and every operator command.
THEOREM RetriesInBudget == Spec => []RetryBudget
<1> DEFINE Inv == TypeInv /\ RetryBudget
<1>1. Init => Inv
  BY TypeInit DEF Init, TableInit, AbsentRow, RetryBudget
<1>2. Inv /\ [Next]_vars => Inv'
  <2> SUFFICES ASSUME Inv, [Next]_vars PROVE RetryBudget'
    BY TypeStep
  <2>1. CASE TableNext
    <3>1. \A j \in Jobs : job'[j] = job[j]
                            \/ job'[j].status \notin {"retry_wait", "dead_lettered"}
      BY <2>1, TableRows
    <3> QED BY <3>1 DEF RetryBudget
  <2>2. CASE SignalDrain \/ UNCHANGED vars
    BY <2>2 DEF SignalDrain, vars, RetryBudget
  <2>3. ASSUME NEW w \in Workers, NEW i \in Jobs, Grant(w, i) PROVE RetryBudget'
    <3>1. job[i] \in Row /\ job \in [Jobs -> Row]
      BY DEF TypeInv, TypeOK, TableTypeOK
    <3>2. job'[i].status = "leased" /\ \A j \in Jobs \ {i} : job'[j] = job[j]
      BY <2>3, <3>1 DEF Grant, SetRow, LeasedRow, Row
    <3> QED BY <3>2 DEF RetryBudget
  <2>4. ASSUME NEW w \in Workers, Finalise(w) PROVE RetryBudget'
    BY <2>4, FinalisedBudget DEF RetryBudget
  <2>5. ASSUME NEW w \in Workers, MoveOn(w) PROVE RetryBudget'
    BY <2>5 DEF MoveOn, RetryBudget
  <2> QED BY <2>1, <2>2, <2>3, <2>4, <2>5, WorkerStep DEF Next
<1> QED BY <1>1, <1>2, PTL DEF Spec

-----------------------------------------------------------------------------
(* The approval gate. *)

Gated == {"pending", "leased", "retry_wait", "succeeded", "dead_lettered"}

\* The log holds the grant of an approval.
Granted(log, j, a) ==
    \E i \in DOMAIN log : log[i] = [job |-> j, kind |-> "approve", approval |-> a]

NoRetryUnderWay == \A o \in Operators : op[o].at # "retry"

NoEarlyApproval ==
    \A j \in Jobs : job[j].status = "absent" => job[j].approval = NoOne

GateInv == TypeInv /\ ApprovalGate /\ NoRetryUnderWay /\ NoEarlyApproval

\* What a step may do to a row without opening the gate: leave it, leave the
\* gated statuses, or keep the approval of a row that has passed the gate.
Harmless(old, new) ==
    \/ new = old
    \/ new.status \notin Gated \union {"absent"}
    \/ /\ new.status # "absent" /\ new.approval = old.approval
       /\ old.status \in Gated \/ new.approval = NoOne

\* A step that is harmless to every row keeps the gate.
LEMMA HarmlessSteps ==
    ASSUME GateInv, audit' = audit,
           \A j \in Jobs : Harmless(job[j], job'[j])
    PROVE  ApprovalGate' /\ NoEarlyApproval'
<1>1. NoEarlyApproval'
  BY DEF GateInv, NoEarlyApproval, Harmless
<1>2. ApprovalGate'
  <2> SUFFICES ASSUME NEW j \in Jobs, job'[j].approval # NoOne,
                      job'[j].status \in Gated
               PROVE  Granted(audit', j, job'[j].approval)
    BY DEF ApprovalGate, Approved, Granted, Gated
  <2>1. job[j].status \in Gated /\ job[j].approval = job'[j].approval
    BY DEF Harmless
  <2>2. Granted(audit, j, job[j].approval)
    BY <2>1 DEF GateInv, ApprovalGate, Approved, Granted, Gated
  <2> QED BY <2>1, <2>2
<1> QED BY <1>1, <1>2

\* A decision is audited in the transaction that makes it.
LEMMA DecisionGate ==
    ASSUME GateInv, NEW i \in Jobs, NEW a \in ApprovalIds, NEW d \in Decisions,
           DecideApproval(i, a, d)
    PROVE  ApprovalGate' /\ NoEarlyApproval'
<1> USE DEF GateInv, TypeInv, TypeOK, TableTypeOK
<1> DEFINE e == [job |-> i, kind |-> d, approval |-> a]
<1>1. e \in AuditEvent /\ audit' = Append(audit, e)
  BY DEF DecideApproval, Audited, AuditEvent
<1>2. /\ job[i] \in Row /\ job[i].approval = a
      /\ \A j \in Jobs \ {i} : job'[j] = job[j]
      /\ job'[i] = DecidedRow(job[i], d)
  BY DEF DecideApproval, SetRow
<1>3. /\ job'[i].approval = a
      /\ \/ job'[i].status = "pending" /\ d = "approve"
         \/ job'[i].status \in {"approval_denied", "approval_expired"}
  <2>1. CASE d = "approve" BY <1>2, <2>1 DEF DecidedRow, Unleased, Row
  <2>2. CASE d = "deny" BY <1>2, <2>2 DEF DecidedRow, Unleased, Row
  <2>3. CASE d = "expire" BY <1>2, <2>3 DEF DecidedRow, Unleased, Row
  <2> QED BY <2>1, <2>2, <2>3 DEF Decisions
<1>4. NoEarlyApproval'
  BY <1>2, <1>3 DEF NoEarlyApproval
<1>5. ApprovalGate'
  <2> SUFFICES ASSUME NEW j \in Jobs, job'[j].approval # NoOne,
                      job'[j].status \in Gated
               PROVE  Granted(audit', j, job'[j].approval)
    BY DEF ApprovalGate, Approved, Granted, Gated
  <2>1. CASE j # i
    <3>1. Granted(audit, j, job[j].approval) /\ job'[j] = job[j]
      BY <1>2, <2>1 DEF ApprovalGate, Approved, Granted, Gated
    <3>2. PICK n \in DOMAIN audit :
            audit[n] = [job |-> j, kind |-> "approve", approval |-> job[j].approval]
      BY <3>1 DEF Granted
    <3>3. n \in DOMAIN audit' /\ audit'[n] = audit[n]
      BY <1>1, <3>2
    <3> QED BY <3>1, <3>2, <3>3 DEF Granted
  <2>2. CASE j = i
    <3>1. d = "approve" BY <1>3, <2>2 DEF Gated
    <3>2. /\ Len(audit) + 1 \in DOMAIN audit'
          /\ audit'[Len(audit) + 1] = e
      BY <1>1
    <3>3. audit'[Len(audit) + 1]
            = [job |-> j, kind |-> "approve", approval |-> job'[j].approval]
      BY <3>1, <3>2, <2>2, <1>3
    <3> QED BY <3>2, <3>3 DEF Granted
  <2> QED BY <2>1, <2>2
<1> QED BY <1>4, <1>5

\* The approval gate: unless an operator may retry jobs, a job parked by
\* enter_approval_wait is never leased, retried or finished before
\* decide_approval_wait granted the approval and audited the grant.
THEOREM GateHolds ==
    ASSUME "retry" \notin Commands
    PROVE  Spec => []ApprovalGate
<1>1. Init => GateInv
  <2> SUFFICES ASSUME Init PROVE GateInv
    OBVIOUS
  <2>1. ApprovalGate /\ NoEarlyApproval
    BY DEF Init, TableInit, AbsentRow, ApprovalGate, NoEarlyApproval
  <2>2. NoRetryUnderWay
    BY DEF Init, TableInit, IdleOp, NoRetryUnderWay
  <2> QED BY <2>1, <2>2, TypeInit DEF GateInv
<1>2. GateInv /\ [Next]_vars => GateInv'
  <2> SUFFICES ASSUME GateInv, [Next]_vars PROVE GateInv'
    OBVIOUS
  <2>0. TypeInv' BY TypeStep DEF GateInv
  <2>t. /\ job \in [Jobs -> Row] /\ \A j \in Jobs : job[j] \in Row
        /\ op \in [Operators -> OpCall]
    BY DEF GateInv, TypeInv, TypeOK, TableTypeOK
  <2>a. ASSUME UNCHANGED <<job, audit, op>> PROVE GateInv'
    BY <2>0, <2>a, HarmlessSteps DEF GateInv, Harmless, NoRetryUnderWay
  <2>1. CASE Tick
    BY <2>1, <2>a DEF Tick
  <2>2. ASSUME NEW j \in Jobs, NEW d \in Delays, Enqueue(j, d) PROVE GateInv'
    <3>1. /\ job[j].approval = NoOne
          /\ job'[j].status = "pending" /\ job'[j].approval = NoOne
          /\ \A i \in Jobs \ {j} : job'[i] = job[i]
      BY <2>2, <2>t DEF Enqueue, SetRow, NewRow, AbsentRow, GateInv, NoEarlyApproval
    <3>2. \A i \in Jobs : Harmless(job[i], job'[i]) BY <3>1 DEF Harmless
    <3>3. audit' = audit /\ op' = op BY <2>2 DEF Enqueue
    <3> QED BY <2>0, <3>2, <3>3, HarmlessSteps DEF GateInv, NoRetryUnderWay
  <2>3. ASSUME NEW j \in Jobs, NEW a \in ApprovalIds, NEW d \in Decisions,
               DecideApproval(j, a, d)
        PROVE  GateInv'
    <3>1. op' = op BY <2>3 DEF DecideApproval
    <3> QED BY <2>0, <2>3, <3>1, DecisionGate DEF GateInv, NoRetryUnderWay
  <2>4. ASSUME NEW o \in Operators, OperatorNext(o) PROVE GateInv'
    <3>1. ~RetryWrite(o) /\ \A j \in Jobs : ~RetryRead(o, j)
      BY DEF RetryWrite, RetryRead, GateInv, NoRetryUnderWay
    <3>2. audit' = audit
      BY <2>4, <3>1 DEF OperatorNext, SetPaused, DrainPause, DrainRelease, Cancel,
                        SetConcurrencyLimit
    <3>3. PICK c \in {IdleOp, [at |-> "drain", job |-> NoOne],
                      [at |-> "drained", job |-> NoOne]} :
            op' = [op EXCEPT ![o] = c]
      BY <2>4, <3>1 DEF OperatorNext, SetPaused, DrainPause, DrainRelease, Cancel,
                        SetConcurrencyLimit
    <3>4. NoRetryUnderWay'
      BY <3>3, <2>t DEF IdleOp, GateInv, NoRetryUnderWay
    <3>5. \A j \in Jobs : Harmless(job[j], job'[j])
      <4>1. CASE UNCHANGED job BY <4>1 DEF Harmless
      <4>2. CASE DrainRelease(o)
        BY <4>2, <2>t DEF DrainRelease, Unleased, Row, Harmless, Gated
      <4>3. ASSUME NEW i \in Jobs, Cancel(o, i)
            PROVE  \A j \in Jobs : Harmless(job[j], job'[j])
        BY <4>3, <2>t DEF Cancel, SetRow, Row, Harmless, Gated
      <4> QED
        BY <2>4, <3>1, <4>1, <4>2, <4>3
        DEF OperatorNext, SetPaused, DrainPause, SetConcurrencyLimit
    <3> QED BY <2>0, <3>2, <3>4, <3>5, HarmlessSteps DEF GateInv
  <2>5. CASE SignalDrain \/ UNCHANGED vars
    BY <2>5, <2>a DEF SignalDrain, vars
  <2>6. ASSUME NEW w \in Workers, NEW i \in Jobs, Grant(w, i) PROVE GateInv'
    <3>1. /\ job'[i].status = "leased" /\ job'[i].approval = job[i].approval
          /\ \A j \in Jobs \ {i} : job'[j] = job[j]
      BY <2>6, <2>t DEF Grant, SetRow, LeasedRow, Row
    <3>2. job[i].status \in Gated
      BY <2>6 DEF Grant, LeaseGuard, Gated
    <3>3. \A j \in Jobs : Harmless(job[j], job'[j])
      BY <3>1, <3>2 DEF Harmless
    <3>4. audit' = audit /\ op' = op BY <2>6 DEF Grant
    <3> QED BY <2>0, <3>3, <3>4, HarmlessSteps DEF GateInv, NoRetryUnderWay
  <2>7. ASSUME NEW w \in Workers, Finalise(w) PROVE GateInv'
    <3>1. /\ cur[w] \in Jobs /\ job[cur[w]] \in Row
          /\ job[cur[w]].status = "leased"
          /\ \A j \in Jobs : j # cur[w] => job'[j] = job[j]
      BY <2>7, <2>t, FinalisedBudget DEF Finalise, LeasedBy, GateInv
    <3>4. ASSUME NEW a \in ApprovalIds,
                 SetRow(cur[w], ApprovalWaitRow(job[cur[w]], a))
          PROVE  \A j \in Jobs : Harmless(job[j], job'[j])
      BY <3>1, <3>4, <2>t DEF SetRow, ApprovalWaitRow, Unleased, Row, Harmless, Gated
    <3>5. \A j \in Jobs : Harmless(job[j], job'[j])
      <4>1. CASE SetRow(cur[w], CompletedRow(job[cur[w]]))
        <5>1. job'[cur[w]] = CompletedRow(job[cur[w]]) BY <4>1, <3>1, <2>t DEF SetRow
        <5> QED BY <5>1, <3>1, ZenonT(40) DEF CompletedRow, Unleased, Row, Harmless, Gated
      <4>2. CASE SetRow(cur[w], FailedRow(job[cur[w]], cur[w], att[w]))
        <5>1. job'[cur[w]] = FailedRow(job[cur[w]], cur[w], att[w])
          BY <4>2, <3>1, <2>t DEF SetRow
        <5>2. /\ job'[cur[w]].status \in {"retry_wait", "dead_lettered"}
              /\ job'[cur[w]].approval = job[cur[w]].approval
          <6>1. CASE att[w] + 1 <= MaxRetries[cur[w]]
            BY <5>1, <6>1, <3>1 DEF FailedRow, Unleased, Row
          <6>2. CASE ~(att[w] + 1 <= MaxRetries[cur[w]])
            BY <5>1, <6>2, <3>1 DEF FailedRow, Unleased, Row
          <6> QED BY <6>1, <6>2
        <5> QED BY <5>2, <3>1 DEF Harmless, Gated
      <4> QED BY <2>7, <4>1, <4>2, <3>4 DEF Finalise
    <3>6. audit' = audit /\ op' = op BY <2>7 DEF Finalise
    <3> QED BY <2>0, <3>5, <3>6, HarmlessSteps DEF GateInv, NoRetryUnderWay
  <2>8. ASSUME NEW w \in Workers, MoveOn(w) PROVE GateInv'
    BY <2>8, <2>a DEF MoveOn
  <2> QED BY <2>1, <2>2, <2>3, <2>4, <2>5, <2>6, <2>7, <2>8, WorkerStep
          DEF Next, TableNext, GateInv
<1>3. GateInv => ApprovalGate
  BY DEF GateInv
<1> QED BY <1>1, <1>2, <1>3, PTL DEF Spec

-----------------------------------------------------------------------------
(* Stopped jobs. *)

\* A table step leaves a stopped job stopped unless an operator cancels it or
\* finishes a retry_job.
LEMMA TableStopped ==
    ASSUME TypeInv, TableNext, NEW j \in Jobs, job[j].status \in Terminal
    PROVE  \/ job'[j].status = job[j].status
           \/ job'[j].status = "canceled" /\ "cancel" \in Commands
           \/ job'[j].status = "pending" /\ \E o \in Operators : op[o].at = "retry"
<1> USE DEF TypeInv, TypeOK, TableTypeOK
<1>0. \A i \in Jobs : job[i] \in Row
  OBVIOUS
<1>1. CASE Tick
  BY <1>1 DEF Tick
<1>2. ASSUME NEW i \in Jobs, NEW d \in Delays, Enqueue(i, d)
      PROVE  job'[j] = job[j]
  BY <1>2 DEF Enqueue, SetRow, Terminal
<1>3. ASSUME NEW i \in Jobs, NEW a \in ApprovalIds, NEW d \in Decisions,
             DecideApproval(i, a, d)
      PROVE  job'[j] = job[j]
  BY <1>3 DEF DecideApproval, SetRow, Terminal
<1>4. ASSUME NEW o \in Operators, DrainRelease(o)
      PROVE  job'[j] = job[j]
  BY <1>4 DEF DrainRelease, Terminal
<1>5. ASSUME NEW o \in Operators, RetryWrite(o)
      PROVE  job'[j].status \in {job[j].status, "pending"} /\ op[o].at = "retry"
  BY <1>5, <1>0 DEF RetryWrite, SetRow, RetriedRow, Unleased, Row
<1>6. ASSUME NEW o \in Operators, NEW i \in Jobs, Cancel(o, i)
      PROVE  job'[j].status \in {job[j].status, "canceled"} /\ "cancel" \in Commands
  BY <1>6, <1>0 DEF Cancel, SetRow, Row
<1>7. ASSUME NEW o \in Operators, OperatorNext(o)
      PROVE  \/ job'[j] = job[j] \/ RetryWrite(o)
             \/ \E i \in Jobs : Cancel(o, i)
  BY <1>4, <1>7
  DEF OperatorNext, SetPaused, DrainPause, RetryRead, SetConcurrencyLimit
<1> QED BY <1>1, <1>2, <1>3, <1>5, <1>6, <1>7 DEF TableNext

\* No worker touches a stopped row: a claim needs an open or leased one, and a
\* late finalising call finds no lease of its worker.
LEMMA WorkersLeaveStopped ==
    ASSUME TypeInv, NEW w \in Workers, WorkerNext(w),
           NEW j \in Jobs, job[j].status \in Terminal
    PROVE  job'[j] = job[j]
<1>1. ASSUME NEW i \in Jobs, Grant(w, i) PROVE job'[j] = job[j]
  <2>1. i # j
    BY <1>1 DEF Grant, LeaseGuard, Terminal
  <2> QED BY <1>1, <2>1 DEF Grant, SetRow, TypeInv, TypeOK, TableTypeOK
<1>2. CASE Finalise(w)
  <2>1. cur[w] # j
    BY <1>2 DEF Finalise, LeasedBy, Terminal
  <2> QED BY <1>2, <2>1, FinalisedBudget
<1>3. CASE MoveOn(w)
  BY <1>3 DEF MoveOn
<1> QED BY <1>1, <1>2, <1>3, WorkerStep

\* The same for every step of the queue.
LEMMA StoppedStep ==
    ASSUME TypeInv, [Next]_vars, NEW j \in Jobs, job[j].status \in Terminal
    PROVE  \/ job'[j].status = job[j].status
           \/ job'[j].status = "canceled" /\ "cancel" \in Commands
           \/ job'[j].status = "pending" /\ \E o \in Operators : op[o].at = "retry"
<1>1. CASE SignalDrain \/ UNCHANGED vars
  BY <1>1 DEF SignalDrain, vars
<1> QED BY <1>1, TableStopped, WorkersLeaveStopped DEF Next

\* With any operator commands, a stopped job is revived by retry_job alone, or
\* relabelled by cancel; no late worker writes over it.
THEOREM RevivedByRetryOnly == Spec => StoppedOnlyRetried
<1>1. TypeInv /\ [Next]_vars =>
        \A j \in Jobs : job[j].status \in Terminal =>
            job'[j].status \in {job[j].status, "pending", "canceled"}
  BY StoppedStep
<1>2. Spec => []TypeInv
  BY TypeInit, TypeStep, PTL DEF Spec
<1> QED BY <1>1, <1>2, PTL DEF Spec, StoppedOnlyRetried

\* The operators call retry_job no more often than the commands in use allow.
LEMMA RetryOperators ==
    ASSUME "retry" \notin Commands
    PROVE  Spec => [](TypeInv /\ NoRetryUnderWay)
<1>1. Init => NoRetryUnderWay
  BY DEF Init, TableInit, IdleOp, NoRetryUnderWay
<1>2. TypeInv /\ NoRetryUnderWay /\ [Next]_vars => NoRetryUnderWay'
  <2> SUFFICES ASSUME TypeInv, NoRetryUnderWay, [Next]_vars PROVE NoRetryUnderWay'
    OBVIOUS
  <2>1. CASE UNCHANGED op
    BY <2>1 DEF NoRetryUnderWay
  <2>2. ASSUME NEW o \in Operators, OperatorNext(o) PROVE NoRetryUnderWay'
    <3>1. ~RetryWrite(o) /\ \A j \in Jobs : ~RetryRead(o, j)
      BY DEF RetryWrite, RetryRead, NoRetryUnderWay
    <3>2. PICK c \in {IdleOp, [at |-> "drain", job |-> NoOne],
                      [at |-> "drained", job |-> NoOne]} :
            op' = [op EXCEPT ![o] = c]
      BY <2>2, <3>1 DEF OperatorNext, SetPaused, DrainPause, DrainRelease, Cancel,
                        SetConcurrencyLimit
    <3> QED BY <3>2 DEF IdleOp, NoRetryUnderWay, TypeInv, TypeOK, TableTypeOK
  <2>3. CASE TableNext
    BY <2>1, <2>2, <2>3 DEF TableNext, Tick, Enqueue, DecideApproval
  <2>4. CASE SignalDrain \/ UNCHANGED vars
    BY <2>1, <2>4 DEF SignalDrain, vars
  <2>5. ASSUME NEW w \in Workers, WorkerNext(w) PROVE UNCHANGED op
    BY <2>5, WorkerStep DEF Grant, Finalise, MoveOn
  <2> QED BY <2>1, <2>3, <2>4, <2>5 DEF Next
<1> QED BY <1>1, <1>2, TypeInit, TypeStep, PTL DEF Spec

\* Without retry and cancel commands a stopped job keeps its status for good.
THEOREM StopsAreFinal ==
    ASSUME Commands \intersect {"retry", "cancel"} = {}
    PROVE  Spec => TerminalIsFinal
<1>1. TypeInv /\ NoRetryUnderWay /\ [Next]_vars =>
        \A j \in Jobs : job[j].status \in Terminal => job'[j].status = job[j].status
  BY StoppedStep DEF NoRetryUnderWay
<1>2. Spec => [](TypeInv /\ NoRetryUnderWay)
  BY RetryOperators
<1> QED BY <1>1, <1>2, PTL DEF Spec, TerminalIsFinal

-----------------------------------------------------------------------------
(* The number of runs. *)

\* A job that may still run has retries left, and so has one that a worker is
\* about to fail; the last run adds one.
RunsInv ==
    /\ TypeInv
    /\ NoRetryUnderWay
    /\ AttemptsBounded
    /\ \A j \in Jobs : job[j].status \notin Terminal => job[j].attempts <= MaxRetries[j]
    /\ \A w \in Workers : pc[w] = "fail" => att[w] <= MaxRetries[cur[w]]

\* Every step keeps the count of runs, if nobody may retry a stopped job.
LEMMA RunsStep ==
    ASSUME "retry" \notin Commands
    PROVE  RunsInv /\ TypeInv' /\ NoRetryUnderWay' /\ [Next]_vars => RunsInv'
<1> SUFFICES ASSUME RunsInv, TypeInv', NoRetryUnderWay', [Next]_vars PROVE RunsInv'
  OBVIOUS
<1> DEFINE Open(r, n) == r.status \notin Terminal => r.attempts <= n
           Bounded(r, n) == r.attempts <= n + 1
<1>t. /\ job \in [Jobs -> Row] /\ \A j \in Jobs : job[j].attempts \in Nat
      /\ \A j \in Jobs : job[j] \in Row /\ MaxRetries[j] \in Nat
      /\ \A v \in Workers : pc[v] = "fail" => cur[v] \in Jobs
      /\ \A v \in Workers : att[v] \in Nat
  BY QueueAssumption DEF RunsInv, TypeInv, TypeOK, TableTypeOK, CallsOK, Running, Row
<1>i. /\ \A j \in Jobs : Bounded(job[j], MaxRetries[j]) /\ Open(job[j], MaxRetries[j])
      /\ \A v \in Workers : pc[v] = "fail" => att[v] <= MaxRetries[cur[v]]
  BY DEF RunsInv, AttemptsBounded
<1>a. ASSUME \A j \in Jobs : \/ job'[j] = job[j]
                             \/ Bounded(job'[j], MaxRetries[j]) /\ Open(job'[j], MaxRetries[j]),
             \A v \in Workers : pc'[v] = "fail" =>
                 \/ pc[v] = "fail" /\ att'[v] = att[v] /\ cur'[v] = cur[v]
                 \/ /\ att'[v] = job[cur[v]].attempts /\ cur'[v] = cur[v]
                    /\ cur[v] \in Jobs /\ job[cur[v]].status = "leased"
      PROVE  RunsInv'
  <2>1. \A j \in Jobs : Bounded(job'[j], MaxRetries[j]) /\ Open(job'[j], MaxRetries[j])
    BY <1>a, <1>i
  <2>2. \A v \in Workers : pc'[v] = "fail" => att'[v] <= MaxRetries[cur'[v]]
    BY <1>a, <1>i DEF Terminal
  <2> QED BY <2>1, <2>2 DEF RunsInv, AttemptsBounded
<1>1. CASE TableNext /\ UNCHANGED <<workerVars, draining>>
  <2>1. ASSUME NEW j \in Jobs
        PROVE  \/ job'[j] = job[j]
               \/ Bounded(job'[j], MaxRetries[j]) /\ Open(job'[j], MaxRetries[j])
    <3>1. CASE job'[j] # job[j] /\ job[j].status \notin Terminal
      <4>1. job'[j].attempts \in {job[j].attempts, 0}
        BY <1>1, <3>1, TableRows DEF RunsInv
      <4>2. job[j].attempts <= MaxRetries[j] BY <1>i, <3>1
      <4> QED BY <4>1, <4>2, <1>t
    <3>2. CASE job'[j] # job[j] /\ job[j].status \in Terminal
      <4>1. job'[j].attempts = job[j].attempts
        BY <1>1, <3>2, TableRows DEF RunsInv, Terminal
      <4>2. job'[j].status \in Terminal
        BY <1>1, <3>2, TableStopped DEF RunsInv, NoRetryUnderWay, Terminal
      <4>3. Bounded(job[j], MaxRetries[j]) BY <1>i
      <4> QED BY <4>1, <4>2, <4>3
    <3> QED BY <3>1, <3>2
  <2> QED BY <1>1, <2>1, <1>a DEF workerVars
<1>2. CASE SignalDrain \/ UNCHANGED vars
  BY <1>2, <1>a DEF SignalDrain, vars, workerVars
<1>3. ASSUME NEW w \in Workers, NEW i \in Jobs, Grant(w, i) PROVE RunsInv'
  <2>1. /\ job'[i].attempts = job[i].attempts
        /\ \A j \in Jobs \ {i} : job'[j] = job[j]
    BY <1>3, <1>t DEF Grant, SetRow, LeasedRow, Row
  <2>2. job[i].status \notin Terminal
    BY <1>3 DEF Grant, LeaseGuard, Terminal
  <2>3. job[i].attempts <= MaxRetries[i]
    BY <1>i, <2>2
  <2>4. Bounded(job'[i], MaxRetries[i]) /\ Open(job'[i], MaxRetries[i])
    BY <2>1, <2>3, <1>t
  <2>5. \A v \in Workers : pc'[v] = "fail" =>
          pc[v] = "fail" /\ att'[v] = att[v] /\ cur'[v] = cur[v]
    BY <1>3 DEF Grant, RunsInv, TypeInv, TypeOK
  <2> QED BY <2>1, <2>4, <2>5, <1>a
<1>4. ASSUME NEW w \in Workers, Finalise(w) PROVE RunsInv'
  <2>1. /\ cur[w] \in Jobs /\ job[cur[w]].status = "leased"
        /\ \A j \in Jobs : j # cur[w] => job'[j] = job[j]
    BY <1>4, FinalisedBudget DEF Finalise, LeasedBy, RunsInv
  <2>2. job[cur[w]].attempts <= MaxRetries[cur[w]]
    BY <1>i, <2>1 DEF Terminal
  <2> DEFINE Fine == Bounded(job'[cur[w]], MaxRetries[cur[w]])
                     /\ Open(job'[cur[w]], MaxRetries[cur[w]])
  <2>3. ASSUME SetRow(cur[w], CompletedRow(job[cur[w]])) PROVE Fine
    <3>1. job'[cur[w]].attempts = job[cur[w]].attempts + 1
          /\ job'[cur[w]].status \in Terminal
      BY <2>1, <2>3, <1>t, EndedRows DEF SetRow, Terminal
    <3> QED BY <2>1, <2>2, <3>1, <1>t
  <2>4. ASSUME pc[w] = "fail", SetRow(cur[w], FailedRow(job[cur[w]], cur[w], att[w]))
        PROVE  Fine
    <3>1. job'[cur[w]] = FailedRow(job[cur[w]], cur[w], att[w])
      BY <2>1, <2>4, <1>t DEF SetRow
    <3>2. att[w] <= MaxRetries[cur[w]]
      BY <2>4, <1>i
    <3>3. CASE att[w] + 1 <= MaxRetries[cur[w]]
      BY <2>1, <1>t, <3>1, <3>3 DEF FailedRow, Unleased, Row
    <3>4. CASE ~(att[w] + 1 <= MaxRetries[cur[w]])
      <4>1. job'[cur[w]].attempts = att[w] + 1 /\ job'[cur[w]].status = "dead_lettered"
        BY <2>1, <1>t, <3>1, <3>4 DEF FailedRow, Unleased, Row
      <4> QED BY <2>1, <1>t, <3>2, <4>1 DEF Terminal
    <3> QED BY <3>3, <3>4
  <2>5. ASSUME NEW a \in ApprovalIds, SetRow(cur[w], ApprovalWaitRow(job[cur[w]], a))
        PROVE  Fine
    <3>1. job'[cur[w]].attempts = job[cur[w]].attempts
      BY <2>1, <2>5, <1>t, EndedRows DEF SetRow
    <3> QED BY <2>1, <2>2, <3>1, <1>t
  <2>6. Fine
    <3> HIDE DEF Fine
    <3> QED BY <1>4, <2>3, <2>4, <2>5 DEF Finalise
  <2>7. \A v \in Workers : pc'[v] = "fail" =>
          pc[v] = "fail" /\ att'[v] = att[v] /\ cur'[v] = cur[v]
    BY <1>4 DEF Finalise, Loop, Goto, RunsInv, TypeInv, TypeOK
  <2> HIDE DEF Open, Bounded
  <2> QED BY <2>1, <2>6, <2>7, <1>a
<1>5. ASSUME NEW w \in Workers, MoveOn(w) PROVE RunsInv'
  <2>1. job' = job
    BY <1>5 DEF MoveOn
  <2>2. ASSUME NEW v \in Workers, pc'[v] = "fail"
        PROVE  \/ pc[v] = "fail" /\ att'[v] = att[v] /\ cur'[v] = cur[v]
               \/ /\ att'[v] = job[cur[v]].attempts /\ cur'[v] = cur[v]
                  /\ cur[v] \in Jobs /\ job[cur[v]].status = "leased"
    <3>1. CASE v # w
      BY <1>5, <2>2, <3>1 DEF MoveOn
    <3>2. CASE v = w
      BY <1>5, <2>2, <3>2
      DEF MoveOn, Running, LeasedBy, RunsInv, TypeInv, CallsOK
    <3> QED BY <3>1, <3>2
  <2> QED BY <2>1, <2>2, <1>a
<1> QED BY <1>1, <1>2, <1>3, <1>4, <1>5, WorkerStep DEF Next, RunsInv

\* Unless an operator may retry jobs, at most max_retries + 1 runs of a job
\* are counted, even when two processes share a worker id and fail_leased
\* writes a count it read before another lease.
THEOREM RunsBounded ==
    ASSUME "retry" \notin Commands
    PROVE  Spec => []AttemptsBounded
<1>1. Init => RunsInv
  <2> SUFFICES ASSUME Init PROVE RunsInv
    OBVIOUS
  <2>1. AttemptsBounded /\ \A j \in Jobs : job[j].attempts <= MaxRetries[j]
    BY QueueAssumption DEF Init, TableInit, AbsentRow, AttemptsBounded
  <2>2. NoRetryUnderWay /\ \A w \in Workers : pc[w] # "fail"
    BY DEF Init, TableInit, IdleOp, NoRetryUnderWay
  <2> QED BY <2>1, <2>2, TypeInit DEF RunsInv
<1>2. RunsInv => AttemptsBounded
  BY DEF RunsInv
<1> QED BY <1>1, <1>2, RunsStep, RetryOperators, PTL DEF Spec

-----------------------------------------------------------------------------
(* Concurrency limits. *)

\* The workers between concurrency_allows and the lease statement of a job
\* that counts against the scope.
Claimers(scope) ==
    {w \in Workers : /\ pc[w] = "claim"
                     /\ \E j \in Jobs : /\ IsFirst(j, cand[w])
                                        /\ scope \in {Global, TaskOf[j]}}

\* Each of them may still add a lease to those the limit admitted.
LimitInv ==
    /\ TypeInv
    /\ \A scope \in Scopes : limit[scope] # 0 =>
          Cardinality(ActiveLeases(scope, now)) + Cardinality(Claimers(scope))
              <= limit[scope] + Cardinality(Workers) - 1

\* The sets that are counted are finite.
LEMMA CountsFinite ==
    ASSUME NEW scope
    PROVE  /\ \A t : /\ IsFiniteSet(ActiveLeases(scope, t))
                     /\ Cardinality(ActiveLeases(scope, t)) \in Nat
           /\ IsFiniteSet(Claimers(scope)) /\ Cardinality(Claimers(scope)) \in Nat
           /\ IsFiniteSet(Workers) /\ Cardinality(Workers) \in Nat
<1>1. IsFiniteSet(Jobs) /\ IsFiniteSet(Workers)
  BY QueueAssumption, PoolAssumption
<1>2. \A t : ActiveLeases(scope, t) \subseteq Jobs
  BY DEF ActiveLeases
<1>3. Claimers(scope) \subseteq Workers
  BY DEF Claimers
<1>4. (\A t : IsFiniteSet(ActiveLeases(scope, t))) /\ IsFiniteSet(Claimers(scope))
  BY <1>1, <1>2, <1>3, FS_Subset
<1> QED BY <1>1, <1>4, FS_CardinalityType

\* A step that adds neither a lease nor a claimer keeps the count.
LEMMA FewerLeases ==
    ASSUME NEW scope \in Scopes, LimitInv, limit' = limit, limit'[scope] # 0,
           ActiveLeases(scope, now)' \subseteq ActiveLeases(scope, now),
           Claimers(scope)' \subseteq Claimers(scope)
    PROVE  Cardinality(ActiveLeases(scope, now)') + Cardinality(Claimers(scope)')
               <= limit'[scope] + Cardinality(Workers) - 1
<1> DEFINE A == ActiveLeases(scope, now)
           C == Claimers(scope)
           B == ActiveLeases(scope, now)'
           D == Claimers(scope)'
<1>1. /\ IsFiniteSet(A) /\ Cardinality(A) \in Nat
      /\ IsFiniteSet(C) /\ Cardinality(C) \in Nat /\ Cardinality(Workers) \in Nat
  BY CountsFinite
<1>2. limit[scope] \in Nat
  BY DEF LimitInv, TypeInv, TypeOK, TableTypeOK
<1>3. Cardinality(A) + Cardinality(C) <= limit[scope] + Cardinality(Workers) - 1
  BY DEF LimitInv
<1>4. B \subseteq A /\ D \subseteq C
  OBVIOUS
<1> HIDE DEF A, B, C, D
<1>5. /\ Cardinality(B) <= Cardinality(A) /\ Cardinality(B) \in Nat
      /\ Cardinality(D) <= Cardinality(C) /\ Cardinality(D) \in Nat
  BY <1>1, <1>4, FS_Subset, FS_CardinalityType
<1>6. Cardinality(B) + Cardinality(D) <= limit'[scope] + Cardinality(Workers) - 1
  BY <1>1, <1>2, <1>3, <1>5
<1> QED BY <1>6 DEF B, D

\* A check of concurrency_allows at a clock reading in the past has counted
\* every lease that is active now.
LEMMA CheckedLimit ==
    ASSUME LimitInv, NEW w \in Workers, NEW j \in Jobs, ConcurrencyAllows(j, t0[w]),
           NEW scope \in {Global, TaskOf[j]}, limit[scope] # 0
    PROVE  Cardinality(ActiveLeases(scope, now)) < limit[scope]
<1>0. now \in Nat /\ t0[w] \in Nat /\ t0[w] <= now
      /\ \A i \in Jobs : job[i].expires \in Nat
  BY DEF LimitInv, TypeInv, TypeOK, TableTypeOK, CallsOK, Row
<1>s. scope \in Scopes /\ limit[scope] \in Nat
  BY QueueAssumption DEF Scopes, LimitInv, TypeInv, TypeOK, TableTypeOK
<1>1. ActiveLeases(scope, now) \subseteq ActiveLeases(scope, t0[w])
  BY <1>0 DEF ActiveLeases
<1>2. Cardinality(ActiveLeases(scope, now)) <= Cardinality(ActiveLeases(scope, t0[w]))
  BY <1>1, CountsFinite, FS_Subset
<1>3. Cardinality(ActiveLeases(scope, t0[w])) < limit[scope]
  BY DEF ConcurrencyAllows
<1> QED BY <1>2, <1>3, <1>s, CountsFinite

\* Rows are left alone or lose their lease, and the clock does not go back.
LEMMA NoNewLease ==
    ASSUME LimitInv, TypeInv', now' >= now, NEW scope,
           \A j \in Jobs : job'[j] = job[j] \/ job'[j].status # "leased"
    PROVE  ActiveLeases(scope, now)' \subseteq ActiveLeases(scope, now)
<1>0. now \in Nat /\ now' \in Nat /\ \A i \in Jobs : job'[i].expires \in Nat
  BY DEF LimitInv, TypeInv, TypeOK, TableTypeOK, Row
<1> QED BY <1>0 DEF ActiveLeases

\* Every step keeps the count, unless operators change limits.
LEMMA LimitStep ==
    ASSUME "limit" \notin Commands
    PROVE  LimitInv /\ [Next]_vars => LimitInv'
<1> SUFFICES ASSUME LimitInv, [Next]_vars PROVE LimitInv'
  OBVIOUS
<1>0. TypeInv /\ TypeInv'
  BY TypeStep DEF LimitInv
<1>t. /\ job \in [Jobs -> Row] /\ pc \in [Workers -> PC]
      /\ cand \in [Workers -> SUBSET Jobs] /\ now \in Nat
  BY <1>0 DEF TypeInv, TypeOK, TableTypeOK
<1>a. ASSUME limit' = limit, now' >= now,
             \A j \in Jobs : job'[j] = job[j] \/ job'[j].status # "leased",
             \A v \in Workers : pc'[v] = "claim" => pc[v] = "claim" /\ cand'[v] = cand[v]
      PROVE  LimitInv'
  <2>1. ASSUME NEW scope \in Scopes, limit'[scope] # 0
        PROVE  Cardinality(ActiveLeases(scope, now)') + Cardinality(Claimers(scope)')
                   <= limit'[scope] + Cardinality(Workers) - 1
    <3>1. ActiveLeases(scope, now)' \subseteq ActiveLeases(scope, now)
      BY <1>0, <1>a, NoNewLease
    <3>2. Claimers(scope)' \subseteq Claimers(scope)
      BY <1>a DEF Claimers, IsFirst
    <3> QED BY <1>a, <2>1, <3>1, <3>2, FewerLeases
  <2> QED BY <1>0, <2>1 DEF LimitInv
<1>b. ASSUME NEW w \in Workers, NEW l \in {"top", "exited"}, Loop(w, l), UNCHANGED tableRest,
             \A j \in Jobs : job'[j] = job[j] \/ job'[j].status # "leased"
      PROVE  LimitInv'
  BY <1>a, <1>b, <1>t DEF Loop, Goto, tableRest
<1>1. CASE TableNext /\ UNCHANGED <<workerVars, draining>>
  <2>1. \A j \in Jobs : job'[j] = job[j] \/ job'[j].status # "leased"
    BY <1>0, <1>1, TableRows
  <2>2. limit' = limit
    BY <1>1
    DEF TableNext, Tick, Enqueue, DecideApproval, OperatorNext, SetPaused, DrainPause,
        DrainRelease, RetryRead, RetryWrite, Cancel, SetConcurrencyLimit
  <2>3. now' \in {now, now + 1}
    BY <1>1
    DEF TableNext, Tick, Enqueue, DecideApproval, OperatorNext, SetPaused, DrainPause,
        DrainRelease, RetryRead, RetryWrite, Cancel, SetConcurrencyLimit
  <2> QED BY <1>1, <1>a, <1>t, <2>1, <2>2, <2>3 DEF workerVars
<1>2. CASE SignalDrain \/ UNCHANGED vars
  BY <1>2, <1>a, <1>t DEF SignalDrain, vars, workerVars
<1>3. ASSUME NEW w \in Workers, CheckConcurrency(w) PROVE LimitInv'
  <2>1. PICK j \in Jobs :
          /\ IsFirst(j, cand[w])
          /\ IF ConcurrencyAllows(j, t0[w])
             THEN Goto(w, "claim") /\ UNCHANGED cand
             ELSE cand' = [cand EXCEPT ![w] = @ \ {j}] /\ UNCHANGED pc
    BY <1>3 DEF CheckConcurrency
  <2>2. UNCHANGED <<job, now, limit>> /\ pc[w] = "scan"
    BY <1>3 DEF CheckConcurrency, tableRest
  <2>3. CASE ~ConcurrencyAllows(j, t0[w])
    BY <2>1, <2>2, <2>3, <1>a, <1>t
  <2>4. CASE ConcurrencyAllows(j, t0[w])
    <3>1. pc' = [pc EXCEPT ![w] = "claim"] /\ cand' = cand
      BY <2>1, <2>4 DEF Goto
    <3>2. ASSUME NEW scope \in Scopes, limit'[scope] # 0
          PROVE  Cardinality(ActiveLeases(scope, now)') + Cardinality(Claimers(scope)')
                     <= limit'[scope] + Cardinality(Workers) - 1
      <4>1. ActiveLeases(scope, now)' = ActiveLeases(scope, now)
        BY <2>2 DEF ActiveLeases
      <4>2. CASE scope \in {Global, TaskOf[j]}
        <5> DEFINE D == Claimers(scope)'
        <5>1. Cardinality(ActiveLeases(scope, now)) < limit[scope]
          BY <2>2, <2>4, <3>2, <4>2, CheckedLimit
        <5>2. D \subseteq Workers
          BY DEF Claimers
        <5> HIDE DEF D
        <5>3. Cardinality(D) <= Cardinality(Workers) /\ Cardinality(D) \in Nat
          BY <5>2, CountsFinite, FS_Subset, FS_CardinalityType
        <5>4. limit[scope] \in Nat /\ limit' = limit
          BY <2>2, <1>0 DEF TypeInv, TypeOK, TableTypeOK
        <5>5. Cardinality(ActiveLeases(scope, now)) \in Nat /\ Cardinality(Workers) \in Nat
          BY CountsFinite
        <5>6. Cardinality(ActiveLeases(scope, now)) + Cardinality(D)
                <= limit'[scope] + Cardinality(Workers) - 1
          BY <5>1, <5>3, <5>4, <5>5
        <5> QED BY <4>1, <5>6 DEF D
      <4>3. CASE scope \notin {Global, TaskOf[j]}
        <5>1. \A i \in Jobs : IsFirst(i, cand[w]) => i = j
          <6>1. \A i \in Jobs : i \in Nat BY QueueAssumption
          <6> QED BY <2>1, <6>1 DEF IsFirst
        <5>2. Claimers(scope)' \subseteq Claimers(scope)
          BY <3>1, <4>3, <5>1, <1>t DEF Claimers
        <5> QED BY <2>2, <3>2, <4>1, <5>2, FewerLeases
      <4> QED BY <4>2, <4>3
    <3> QED BY <1>0, <3>2 DEF LimitInv
  <2> QED BY <2>3, <2>4
<1>4. ASSUME NEW w \in Workers, Claim(w) PROVE LimitInv'
  <2>1. PICK j \in Jobs :
        /\ IsFirst(j, cand[w])
        /\ IF LeaseGuard(job[j], t0[w])
           THEN /\ SetRow(j, LeasedRow(job[j], IdOf[w], t0[w]))
                /\ Goto(w, "run")
                /\ cand' = [cand EXCEPT ![w] = {}]
           ELSE /\ Goto(w, "scan")
                /\ cand' = [cand EXCEPT ![w] = @ \ {j}]
                /\ UNCHANGED job
    BY <1>4 DEF Claim
  <2>2. UNCHANGED <<now, limit>> /\ pc[w] = "claim"
    BY <1>4 DEF Claim, tableRest
  <2>3. CASE ~LeaseGuard(job[j], t0[w])
    BY <2>1, <2>2, <2>3, <1>a, <1>t DEF Goto
  <2>4. CASE LeaseGuard(job[j], t0[w])
    <3>1. /\ job' = [job EXCEPT ![j] = LeasedRow(job[j], IdOf[w], t0[w])]
          /\ pc' = [pc EXCEPT ![w] = "run"]
          /\ cand' = [cand EXCEPT ![w] = {}]
      BY <2>1, <2>4 DEF Goto, SetRow
    <3>2. ASSUME NEW scope \in Scopes, limit'[scope] # 0
          PROVE  Cardinality(ActiveLeases(scope, now)') + Cardinality(Claimers(scope)')
                     <= limit'[scope] + Cardinality(Workers) - 1
      <4>1. CASE scope \in {Global, TaskOf[j]}
        <5> DEFINE A == ActiveLeases(scope, now)
                   B == ActiveLeases(scope, now)'
                   C == Claimers(scope)
                   D == Claimers(scope)'
        <5>1. B \subseteq A \union {j}
          BY <2>2, <3>1, <1>t DEF ActiveLeases
        <5>2. D \subseteq C \ {w} /\ w \in C
          BY <2>1, <2>2, <3>1, <4>1, <1>t DEF Claimers
        <5>3. /\ IsFiniteSet(A) /\ Cardinality(A) \in Nat
              /\ IsFiniteSet(C) /\ Cardinality(C) \in Nat
              /\ Cardinality(Workers) \in Nat
          BY CountsFinite
        <5>4. Cardinality(A) + Cardinality(C) <= limit[scope] + Cardinality(Workers) - 1
          BY <2>2, <3>2 DEF LimitInv
        <5>5. limit[scope] \in Nat /\ limit' = limit
          BY <2>2, <1>0 DEF TypeInv, TypeOK, TableTypeOK
        <5> HIDE DEF A, B, C, D
        <5>6. /\ IsFiniteSet(A \union {j})
              /\ Cardinality(A \union {j}) \in {Cardinality(A), Cardinality(A) + 1}
          BY <5>3, FS_AddElement
        <5>7. IsFiniteSet(C \ {w}) /\ Cardinality(C \ {w}) = Cardinality(C) - 1
          BY <5>2, <5>3, FS_RemoveElement
        <5>8. Cardinality(B) <= Cardinality(A \union {j}) /\ Cardinality(B) \in Nat
          BY <5>1, <5>6, FS_Subset, FS_CardinalityType
        <5>9. Cardinality(D) <= Cardinality(C \ {w}) /\ Cardinality(D) \in Nat
          BY <5>2, <5>7, FS_Subset, FS_CardinalityType
        <5>10. Cardinality(B) + Cardinality(D) <= limit'[scope] + Cardinality(Workers) - 1
          BY <5>3, <5>4, <5>5, <5>6, <5>7, <5>8, <5>9
        <5> QED BY <5>10 DEF B, D
      <4>2. CASE scope \notin {Global, TaskOf[j]}
        <5>1. ActiveLeases(scope, now)' \subseteq ActiveLeases(scope, now)
          BY <2>2, <3>1, <4>2, <1>t DEF ActiveLeases
        <5>2. Claimers(scope)' \subseteq Claimers(scope)
          BY <3>1, <1>t DEF Claimers
        <5> QED BY <2>2, <3>2, <5>1, <5>2, FewerLeases
      <4> QED BY <4>1, <4>2
    <3> QED BY <1>0, <3>2 DEF LimitInv
  <2> QED BY <2>3, <2>4
<1>5. ASSUME NEW w \in Workers, WorkerNext(w), ~CheckConcurrency(w), ~Claim(w)
      PROVE  LimitInv'
  <2>1. limit' = limit /\ now' = now
    BY <1>5
    DEF WorkerNext, tableRest, Exit, StartLease, CheckPaused, ListCandidates, NoCandidate,
        Complete, FailRead, FailWrite, EnterApprovalWait, Skip, Abandon
  <2>2. \A j \in Jobs : job'[j] = job[j] \/ job'[j].status # "leased"
    <3>1. ASSUME NEW i \in Jobs PROVE ~Grant(w, i)
      <4>1. CASE pc[w] = "claim"
        BY <1>5, <4>1
        DEF WorkerNext, Exit, StartLease, CheckPaused, ListCandidates, NoCandidate,
            Complete, FailRead, FailWrite, EnterApprovalWait, Skip, Abandon, Running
      <4> QED BY <4>1 DEF Grant
    <3>2. CASE Finalise(w)
      BY <1>0, <3>2, FinalisedBudget
    <3>3. CASE MoveOn(w)
      BY <3>3 DEF MoveOn
    <3> QED BY <1>0, <1>5, <3>1, <3>2, <3>3, WorkerStep
  <2>3. \A v \in Workers : pc'[v] = "claim" => pc[v] = "claim" /\ cand'[v] = cand[v]
    BY <1>5, <1>t
    DEF WorkerNext, Exit, StartLease, CheckPaused, ListCandidates, NoCandidate,
        Complete, FailRead, FailWrite, EnterApprovalWait, Skip, Abandon, Loop, Goto
  <2> QED BY <2>1, <2>2, <2>3, <1>a, <1>t
<1> QED BY <1>1, <1>2, <1>3, <1>4, <1>5 DEF Next

\* Unless operators change the limits, the leases active in a scope exceed its
\* limit by at most one per further worker: the checks that race past
\* concurrency_allows are bounded by the workers that can be in it.
THEOREM LimitsOvershootBounded ==
    ASSUME "limit" \notin Commands
    PROVE  Spec => []OvershootBounded
<1>1. Init => LimitInv
  <2> SUFFICES ASSUME Init, NEW scope \in Scopes, limit[scope] # 0
               PROVE  Cardinality(ActiveLeases(scope, now)) + Cardinality(Claimers(scope))
                          <= limit[scope] + Cardinality(Workers) - 1
    BY TypeInit DEF LimitInv
  <2>1. ActiveLeases(scope, now) = {} /\ Claimers(scope) = {}
    BY DEF Init, TableInit, AbsentRow, ActiveLeases, Claimers
  <2>2. limit[scope] \in Nat /\ Cardinality(Workers) \in Nat
    BY CountsFinite, QueueAssumption DEF Init, TableInit
  <2> QED BY <2>1, <2>2, FS_EmptySet
<1>2. LimitInv => OvershootBounded
  <2> SUFFICES ASSUME LimitInv, NEW scope \in Scopes, limit[scope] # 0
               PROVE  Cardinality(ActiveLeases(scope, now))
                          <= limit[scope] + Cardinality(Workers) - 1
    BY DEF OvershootBounded
  <2>1. limit[scope] \in Nat
    BY DEF LimitInv, TypeInv, TypeOK, TableTypeOK
  <2> QED BY <2>1, CountsFinite DEF LimitInv
<1> QED BY <1>1, <1>2, LimitStep, PTL DEF Spec

-----------------------------------------------------------------------------
(* The refinement of LeaseService: initial states map to its initial state    *)
(* and every step maps to one of its steps or to a stutter.                   *)

\* The stage, holder and deadline of a row by its status.
LEMMA MappedRow ==
    ASSUME NEW r
    PROVE  /\ r.status = "absent" => StageOf(r) = "none"
           /\ r.status \in {"pending", "retry_wait"} => StageOf(r) = "open"
           /\ r.status = "leased" => /\ StageOf(r) = "held"
                                     /\ HolderOf(r) = r.owner
                                     /\ DeadlineOf(r) = r.expires
           /\ r.status = "approval_wait" => StageOf(r) = "parked"
           /\ r.status \in Terminal => StageOf(r) = "stopped"
           /\ r.status # "leased" => HolderOf(r) = NoOne /\ DeadlineOf(r) = 0
BY DEF StageOf, HolderOf, DeadlineOf, Terminal

\* Writing one row moves one job of the lease service.
LEMMA MappedMove ==
    ASSUME job \in [Jobs -> Row], NEW j \in Jobs, NEW r, SetRow(j, r), now' = now
    PROVE  LS!Move(j, StageOf(r), HolderOf(r), DeadlineOf(r))
BY DEF SetRow, LS!Move

\* The row a finalising step writes.
LEMMA FinalisedStatus ==
    ASSUME TypeInv, NEW w \in Workers, Finalise(w)
    PROVE  /\ cur[w] \in Jobs
           /\ \A j \in Jobs : j # cur[w] => job'[j] = job[j]
           /\ \E r : /\ SetRow(cur[w], r)
                    /\ r.status \in {"succeeded", "retry_wait", "dead_lettered",
                                     "approval_wait"}
           /\ job'[cur[w]].status # "absent"
<1> USE DEF TypeInv, TypeOK, TableTypeOK
<1>1. cur[w] \in Jobs /\ job[cur[w]] \in Row
  BY DEF Finalise, CallsOK
<1>2. \E r : /\ SetRow(cur[w], r)
            /\ r.status \in {"succeeded", "retry_wait", "dead_lettered",
                             "approval_wait"}
  <2>1. CASE SetRow(cur[w], CompletedRow(job[cur[w]]))
    <3>1. CompletedRow(job[cur[w]]).status = "succeeded"
      BY <1>1 DEF CompletedRow, Unleased, Row
    <3> QED BY <2>1, <3>1
  <2>2. CASE SetRow(cur[w], FailedRow(job[cur[w]], cur[w], att[w]))
    <3>1. FailedRow(job[cur[w]], cur[w], att[w]).status
            \in {"retry_wait", "dead_lettered"}
      <4>1. CASE att[w] + 1 <= MaxRetries[cur[w]]
        BY <1>1, <4>1 DEF FailedRow, Unleased, Row
      <4>2. CASE ~(att[w] + 1 <= MaxRetries[cur[w]])
        BY <1>1, <4>2 DEF FailedRow, Unleased, Row
      <4> QED BY <4>1, <4>2
    <3> QED BY <2>2, <3>1
  <2>3. ASSUME NEW a \in ApprovalIds,
               SetRow(cur[w], ApprovalWaitRow(job[cur[w]], a))
        PROVE  ApprovalWaitRow(job[cur[w]], a).status = "approval_wait"
    BY <1>1 DEF ApprovalWaitRow, Unleased, Row
  <2> QED BY <2>1, <2>2, <2>3 DEF Finalise
<1> QED BY <1>1, <1>2 DEF SetRow

\* A command in its second step was allowed to start, and on an enqueued job.
CommandsOK ==
    \A o \in Operators :
        /\ op[o].at = "drain" => "drain" \in Commands
        /\ op[o].at = "retry" => /\ "retry" \in Commands
                                 /\ job[op[o].job].status # "absent"

RefInv == TypeInv /\ CommandsOK

Revocation == ~NoRevocation

\* No step takes a job back to the state before its enqueue.
LEMMA StaysEnqueued ==
    ASSUME TypeInv, [Next]_vars, NEW j \in Jobs, job[j].status # "absent"
    PROVE  job'[j].status # "absent"
<1>0. job \in [Jobs -> Row]
  BY DEF TypeInv, TypeOK, TableTypeOK
<1>1. CASE TableNext
  BY <1>1, TableRows
<1>2. CASE SignalDrain \/ UNCHANGED vars
  BY <1>2 DEF SignalDrain, vars
<1>3. ASSUME NEW w \in Workers, NEW i \in Jobs, Grant(w, i)
      PROVE  job'[j].status # "absent"
  BY <1>0, <1>3 DEF Grant, SetRow, LeasedRow, Row
<1>4. ASSUME NEW w \in Workers, Finalise(w)
      PROVE  job'[j].status # "absent"
  BY <1>4, FinalisedStatus
<1>5. ASSUME NEW w \in Workers, MoveOn(w) PROVE job'[j].status # "absent"
  BY <1>5 DEF MoveOn
<1> QED BY <1>1, <1>2, <1>3, <1>4, <1>5, WorkerStep DEF Next

\* Every step keeps the refinement invariant.
LEMMA RefStep == RefInv /\ [Next]_vars => RefInv'
<1> SUFFICES ASSUME RefInv, [Next]_vars PROVE RefInv'
  OBVIOUS
<1> USE DEF RefInv
<1>0. TypeInv' BY TypeStep
<1>1. /\ op \in [Operators -> OpCall]
      /\ \A o \in Operators : op[o].at = "retry" => op[o].job \in Jobs
  BY DEF TypeInv, TypeOK, TableTypeOK, CallsOK
<1>2. ASSUME op' = op PROVE RefInv'
  <2>1. \A o \in Operators : op[o].at = "retry" => job'[op[o].job].status # "absent"
    BY <1>1, StaysEnqueued DEF CommandsOK
  <2> QED BY <1>0, <1>2, <2>1 DEF CommandsOK
<1>3. ASSUME NEW o \in Operators, OperatorNext(o) PROVE RefInv'
  <2>1. \E c \in OpCall :
          /\ op' = [op EXCEPT ![o] = c]
          /\ c.at = "drain" => "drain" \in Commands
          /\ c.at = "retry" => /\ "retry" \in Commands /\ c.job \in Jobs
                               /\ job[c.job].status # "absent"
    <3>1. CASE op' = [op EXCEPT ![o] = IdleOp]
      <4>1. IdleOp \in OpCall /\ IdleOp.at = "idle" BY DEF IdleOp, OpCall
      <4> QED BY <3>1, <4>1
    <3>2. CASE DrainPause(o)
      <4> DEFINE c == [at |-> "drain", job |-> NoOne]
      <4>1. c \in OpCall /\ c.at = "drain" BY DEF OpCall
      <4>2. op' = [op EXCEPT ![o] = c] /\ "drain" \in Commands
        BY <3>2 DEF DrainPause
      <4> QED BY <4>1, <4>2
    <3>3. CASE DrainRelease(o)
      <4> DEFINE c == [at |-> "drained", job |-> NoOne]
      <4>1. c \in OpCall /\ c.at = "drained" BY DEF OpCall
      <4>2. op' = [op EXCEPT ![o] = c] BY <3>3 DEF DrainRelease
      <4> QED BY <4>1, <4>2
    <3>4. ASSUME NEW j \in Jobs, RetryRead(o, j)
          PROVE  /\ [at |-> "retry", job |-> j] \in OpCall
                 /\ op' = [op EXCEPT ![o] = [at |-> "retry", job |-> j]]
                 /\ "retry" \in Commands /\ job[j].status # "absent"
      BY <3>4 DEF RetryRead, OpCall
    <3> QED
      BY <1>3, <3>1, <3>2, <3>3, <3>4
      DEF OperatorNext, SetPaused, Cancel, RetryWrite, SetConcurrencyLimit
  <2>2. \A p \in Operators :
          /\ op'[p].at = "drain" => "drain" \in Commands
          /\ op'[p].at = "retry" => /\ "retry" \in Commands /\ op'[p].job \in Jobs
                                    /\ job[op'[p].job].status # "absent"
    BY <1>1, <2>1 DEF CommandsOK
  <2>3. \A p \in Operators : op'[p].at = "retry" => job'[op'[p].job].status # "absent"
    BY <2>2, StaysEnqueued
  <2> QED BY <1>0, <2>2, <2>3 DEF CommandsOK
<1>4. CASE TableNext
  <2>1. op' = op \/ \E o \in Operators : OperatorNext(o)
    BY <1>4 DEF TableNext, Tick, Enqueue, DecideApproval
  <2> QED BY <2>1, <1>2, <1>3
<1>5. CASE SignalDrain \/ UNCHANGED vars
  BY <1>5, <1>2 DEF SignalDrain, vars
<1>6. ASSUME NEW w \in Workers, WorkerNext(w) PROVE RefInv'
  <2>1. op' = op BY <1>6, WorkerStep DEF Grant, Finalise, MoveOn
  <2> QED BY <2>1, <1>2
<1> QED BY <1>4, <1>5, <1>6 DEF Next

\* Every step is a step of the lease service or changes none of its state.
LEMMA StepSimulation == RefInv /\ [Next]_vars => [LS!Next]_(LS!leaseVars)
<1> SUFFICES ASSUME RefInv, [Next]_vars PROVE LS!Next \/ UNCHANGED LS!leaseVars
  OBVIOUS
<1>0. /\ now \in Nat /\ job \in [Jobs -> Row] /\ \A j \in Jobs : job[j] \in Row
      /\ TypeInv
  BY DEF RefInv, TypeInv, TypeOK, TableTypeOK
<1>a. ASSUME UNCHANGED <<job, now>> PROVE UNCHANGED LS!leaseVars
  BY <1>a DEF LS!leaseVars
<1>1. CASE Tick
  BY <1>1 DEF Tick, LS!Next, LS!Advance
<1>2. ASSUME NEW j \in Jobs, NEW d \in Delays, Enqueue(j, d) PROVE LS!Next
  <2>1. NewRow(d).status = "pending" BY DEF NewRow, AbsentRow
  <2>2. /\ StageOf(NewRow(d)) = "open" /\ HolderOf(NewRow(d)) = NoOne
        /\ DeadlineOf(NewRow(d)) = 0 /\ StageOf(job[j]) = "none"
    BY <1>2, <2>1, MappedRow DEF Enqueue
  <2>3. LS!Move(j, "open", NoOne, 0)
    BY <1>0, <1>2, <2>2, MappedMove DEF Enqueue
  <2>4. LS!Submit(j) BY <2>2, <2>3 DEF LS!Submit
  <2> QED BY <2>4 DEF LS!Next
<1>3. ASSUME NEW j \in Jobs, NEW a \in ApprovalIds, NEW d \in Decisions,
             DecideApproval(j, a, d)
      PROVE  LS!Next
  <2> DEFINE r == DecidedRow(job[j], d)
  <2>1. r.status \in {"pending", "approval_denied", "approval_expired"}
    <3>1. CASE d = "approve" BY <1>0, <3>1 DEF DecidedRow, Unleased, Row
    <3>2. CASE d = "deny" BY <1>0, <3>2 DEF DecidedRow, Unleased, Row
    <3>3. CASE d = "expire" BY <1>0, <3>3 DEF DecidedRow, Unleased, Row
    <3> QED BY <3>1, <3>2, <3>3 DEF Decisions
  <2> HIDE DEF r
  <2>2. /\ StageOf(r) \in {"open", "stopped"} /\ HolderOf(r) = NoOne
        /\ DeadlineOf(r) = 0 /\ StageOf(job[j]) = "parked"
    BY <1>3, <2>1, MappedRow DEF DecideApproval, Terminal
  <2>3. LS!Move(j, StageOf(r), NoOne, 0)
    BY <1>0, <1>3, <2>2, MappedMove DEF DecideApproval, r
  <2>4. LS!Resolve(j, StageOf(r)) BY <2>2, <2>3 DEF LS!Resolve
  <2> QED BY <2>2, <2>4 DEF LS!Next, LS!Stages
<1>4. ASSUME NEW o \in Operators, DrainRelease(o) PROVE LS!Next
  <2>1. Revocation BY <1>4 DEF DrainRelease, RefInv, CommandsOK, Revocation, NoRevocation
  <2>2. \A j \in Jobs :
          /\ StageOf(job'[j]) = IF StageOf(job[j]) = "held" THEN "open" ELSE StageOf(job[j])
          /\ HolderOf(job'[j]) = NoOne /\ DeadlineOf(job'[j]) = 0
    <3> SUFFICES ASSUME NEW j \in Jobs
                 PROVE /\ StageOf(job'[j]) = IF StageOf(job[j]) = "held" THEN "open" ELSE StageOf(job[j])
                       /\ HolderOf(job'[j]) = NoOne /\ DeadlineOf(job'[j]) = 0
      OBVIOUS
    <3>1. CASE job[j].status = "leased"
      <4>1. job'[j].status = "pending" BY <1>0, <1>4, <3>1 DEF DrainRelease, Unleased, Row
      <4> QED BY <3>1, <4>1, MappedRow
    <3>2. CASE job[j].status # "leased"
      <4>1. job'[j] = job[j] BY <1>4, <3>2 DEF DrainRelease
      <4>2. StageOf(job[j]) # "held" BY <1>0, <3>2 DEF StageOf, Row, Status, Terminal
      <4> QED BY <3>2, <4>1, <4>2, MappedRow
    <3> QED BY <3>1, <3>2
  <2>3. LS!RevokeAll
    BY <1>4, <2>1, <2>2 DEF LS!RevokeAll, DrainRelease, Revocation
  <2> QED BY <2>3 DEF LS!Next
<1>5. ASSUME NEW j \in Jobs, NEW r, SetRow(j, r), now' = now, Revocation,
             job[j].status # "absent", r.status \in {"pending", "canceled"}
      PROVE  LS!Next
  <2>1. /\ StageOf(r) \in {"open", "stopped"} /\ HolderOf(r) = NoOne
        /\ DeadlineOf(r) = 0
    BY <1>5, MappedRow DEF Terminal
  <2>2. StageOf(job[j]) # "none"
    BY <1>0, <1>5 DEF StageOf, Row, Status, Terminal
  <2>3. LS!Move(j, StageOf(r), NoOne, 0)
    BY <1>0, <1>5, <2>1, MappedMove
  <2>4. LS!Override(j, StageOf(r)) BY <1>5, <2>1, <2>2, <2>3 DEF LS!Override, Revocation
  <2> QED BY <2>1, <2>4 DEF LS!Next, LS!Stages
<1>6. ASSUME NEW o \in Operators, RetryWrite(o) PROVE LS!Next
  <2> DEFINE j == op[o].job
  <2>1. j \in Jobs BY <1>0, <1>6 DEF RetryWrite, TypeInv, CallsOK
  <2>2. Revocation /\ job[j].status # "absent"
    BY <1>6 DEF RetryWrite, RefInv, CommandsOK, Revocation, NoRevocation
  <2>3. RetriedRow(job[j]).status = "pending"
    BY <1>0, <2>1 DEF RetriedRow, Unleased, Row
  <2> QED BY <1>5, <1>6, <2>1, <2>2, <2>3 DEF RetryWrite
<1>7. ASSUME NEW o \in Operators, NEW j \in Jobs, Cancel(o, j) PROVE LS!Next
  <2>1. [job[j] EXCEPT !.status = "canceled"].status = "canceled"
    BY <1>0 DEF Row
  <2> QED BY <1>5, <1>7, <2>1 DEF Cancel, Revocation, NoRevocation
<1>8. ASSUME NEW w \in Workers, NEW j \in Jobs, Grant(w, j) PROVE LS!Next
  <2> DEFINE r == LeasedRow(job[j], IdOf[w], t0[w])
  <2>1. r.status = "leased" /\ r.owner = IdOf[w] /\ r.expires = t0[w] + TTL
    BY <1>0 DEF LeasedRow, Row
  <2> HIDE DEF r
  <2>2. LS!Move(j, "held", IdOf[w], t0[w] + TTL)
    BY <1>0, <1>8, <2>1, MappedRow, MappedMove DEF Grant, r
  <2>3. t0[w] \in Nat /\ t0[w] <= now /\ IdOf[w] \in WorkerIds
    BY <1>0, PoolAssumption DEF TypeInv, TypeOK, CallsOK
  <2>4. StageOf(job[j]) = "open"
          \/ (StageOf(job[j]) = "held" /\ DeadlineOf(job[j]) <= now)
    <3>1. CASE job[j].status \in {"pending", "retry_wait"}
      BY <3>1, MappedRow
    <3>2. CASE job[j].status = "leased" /\ job[j].expires <= t0[w]
      <4>1. job[j].expires \in Nat BY <1>0 DEF Row
      <4>2. job[j].expires <= now BY <3>2, <4>1, <2>3, <1>0
      <4> QED BY <3>2, <4>2, MappedRow
    <3> QED BY <1>8, <3>1, <3>2 DEF Grant, LeaseGuard
  <2>5. LS!Acquire(j, IdOf[w])
    <3>1. t0[w] \in 0 .. now BY <1>0, <2>3
    <3> QED BY <3>1, <2>2, <2>4 DEF LS!Acquire
  <2> QED BY <2>3, <2>5 DEF LS!Next
<1>9. ASSUME NEW w \in Workers, Finalise(w) PROVE LS!Next
  <2>1. cur[w] \in Jobs BY <1>0, <1>9, FinalisedStatus
  <2>2. PICK r : /\ SetRow(cur[w], r)
                 /\ r.status \in {"succeeded", "retry_wait", "dead_lettered",
                                  "approval_wait"}
    BY <1>0, <1>9, FinalisedStatus
  <2>3. /\ StageOf(r) \in {"open", "parked", "stopped"}
        /\ HolderOf(r) = NoOne /\ DeadlineOf(r) = 0
    BY <2>2, MappedRow DEF Terminal
  <2>4. StageOf(job[cur[w]]) = "held" /\ HolderOf(job[cur[w]]) = IdOf[w]
    BY <1>9, MappedRow DEF Finalise, LeasedBy
  <2>5. LS!Move(cur[w], StageOf(r), NoOne, 0)
    BY <1>0, <1>9, <2>1, <2>2, <2>3, MappedMove DEF Finalise
  <2>6. LS!Yield(cur[w], IdOf[w], StageOf(r))
    BY <2>1, <2>3, <2>4, <2>5 DEF LS!Yield
  <2>7. IdOf[w] \in WorkerIds /\ StageOf(r) \in LS!Stages
    BY <2>3, PoolAssumption DEF LS!Stages
  <2> QED BY <2>1, <2>6, <2>7 DEF LS!Next
<1>10. ASSUME NEW o \in Operators, OperatorNext(o)
       PROVE  LS!Next \/ UNCHANGED LS!leaseVars
  BY <1>10, <1>a, <1>4, <1>6, <1>7
  DEF OperatorNext, SetPaused, DrainPause, RetryRead, SetConcurrencyLimit
<1>11. CASE TableNext
  BY <1>11, <1>1, <1>2, <1>3, <1>10 DEF TableNext
<1>12. CASE SignalDrain \/ UNCHANGED vars
  BY <1>12, <1>a DEF SignalDrain, vars
<1>13. ASSUME NEW w \in Workers, WorkerNext(w)
       PROVE  LS!Next \/ UNCHANGED LS!leaseVars
  <2>1. CASE MoveOn(w) BY <2>1, <1>a DEF MoveOn
  <2> QED BY <1>0, <1>13, <2>1, <1>8, <1>9, WorkerStep
<1> QED BY <1>11, <1>12, <1>13 DEF Next

\* The queue implements the lease service: however the scans, claims, late
\* finalising calls and operator commands interleave, a lease changes hands
\* only by expiry, by its holder or by a revoking command.
THEOREM LeaseServiceImplemented == Spec => ImplementsLeaseService
<1>1. Init => RefInv
  BY TypeInit DEF Init, TableInit, RefInv, CommandsOK, IdleOp
<1>2. Init => LS!Init
  <2> SUFFICES ASSUME Init PROVE LS!Init
    OBVIOUS
  <2>1. /\ StageOf(AbsentRow) = "none" /\ HolderOf(AbsentRow) = NoOne
        /\ DeadlineOf(AbsentRow) = 0
    BY MappedRow DEF AbsentRow
  <2> QED BY <2>1 DEF Init, TableInit, LS!Init
<1> QED BY <1>1, <1>2, RefStep, StepSimulation, PTL
        DEF Spec, ImplementsLeaseService, LS!Spec
=============================================================================
