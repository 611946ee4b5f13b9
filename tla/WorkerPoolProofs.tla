-------------------------- MODULE WorkerPoolProofs --------------------------
(***************************************************************************)
(* Invariance proofs for WorkerPool and its lease protocol, for every       *)
(* number of jobs, workers and operators and every value of the bounds.     *)
(***************************************************************************)
EXTENDS WorkerPool, TLAPS

-----------------------------------------------------------------------------
(* The row operators keep rows well formed. *)

\* Writing well-typed values into a row gives a row.
LEMMA RowUpdates ==
    ASSUME NEW r \in Row, NEW s \in Status
    PROVE  /\ [r EXCEPT !.status = s] \in Row
           /\ Unleased(r, s) \in Row
           /\ \A n \in Nat : [Unleased(r, s) EXCEPT !.nextRun = n] \in Row
           /\ \A m, n \in Nat :
                 [Unleased(r, s) EXCEPT !.attempts = m, !.nextRun = n] \in Row
           /\ \A id \in WorkerIds, n \in Nat :
                 [r EXCEPT !.status = s, !.owner = id, !.expires = n] \in Row
           /\ \A a \in ApprovalIds, m, n \in Nat :
                 [Unleased(r, s) EXCEPT !.approval = a, !.approvalExpires = m,
                                        !.nextRun = n] \in Row
<1>1. Unleased(r, s) \in Row
  BY DEF Row, Unleased
<1> QED BY <1>1 DEF Row

\* The row a statement writes is again a row.
LEMMA RowTypes ==
    ASSUME NEW r \in Row, now \in Nat
    PROVE  /\ \A id \in WorkerIds, t \in Nat : LeasedRow(r, id, t) \in Row
           /\ CompletedRow(r) \in Row
           /\ \A a \in ApprovalIds : ApprovalWaitRow(r, a) \in Row
           /\ \A d \in Decisions : DecidedRow(r, d) \in Row
           /\ RetriedRow(r) \in Row
           /\ [r EXCEPT !.status = "canceled"] \in Row
           /\ Unleased(r, "pending") \in Row
<1> USE QueueAssumption
<1>0. /\ {"leased", "succeeded", "approval_wait", "pending", "canceled",
          "approval_denied", "approval_expired"} \subseteq Status
      /\ 0 \in Nat
  BY DEF Status, Terminal
<1>1. ASSUME NEW id \in WorkerIds, NEW t \in Nat
      PROVE  LeasedRow(r, id, t) \in Row
  <2>1. t + TTL \in Nat OBVIOUS
  <2> QED BY <1>0, <2>1, RowUpdates DEF LeasedRow
<1>2. CompletedRow(r) \in Row
  <2>1. r.attempts + 1 \in Nat BY DEF Row
  <2> QED BY <1>0, <2>1, RowUpdates DEF CompletedRow
<1>3. ASSUME NEW a \in ApprovalIds
      PROVE  ApprovalWaitRow(r, a) \in Row
  <2>1. now + ApprovalTTL \in Nat OBVIOUS
  <2> QED BY <1>0, <2>1, RowUpdates DEF ApprovalWaitRow
<1>4. \A d \in Decisions : DecidedRow(r, d) \in Row
  <2>1. DecidedRow(r, "approve") \in Row
    BY <1>0, RowUpdates DEF DecidedRow
  <2>2. DecidedRow(r, "deny") \in Row
    BY <1>0, RowUpdates DEF DecidedRow
  <2>3. DecidedRow(r, "expire") \in Row
    BY <1>0, RowUpdates DEF DecidedRow
  <2> QED BY <2>1, <2>2, <2>3 DEF Decisions
<1>5. /\ RetriedRow(r) \in Row
      /\ [r EXCEPT !.status = "canceled"] \in Row
      /\ Unleased(r, "pending") \in Row
  BY <1>0, RowUpdates DEF RetriedRow
<1> QED BY <1>1, <1>2, <1>3, <1>4, <1>5

\* fail_leased writes a row.
LEMMA FailedRowType ==
    ASSUME NEW r \in Row, now \in Nat, NEW j \in Jobs, NEW a \in Nat
    PROVE  FailedRow(r, j, a) \in Row
<1>1. {"retry_wait", "dead_lettered"} \subseteq Status
  BY DEF Status, Terminal
<1>2. BaseDelay * (a + 1) \in Nat
  BY QueueAssumption
<1>3. a + 1 \in Nat /\ now + BaseDelay * (a + 1) \in Nat /\ 0 \in Nat
  BY <1>2
<1>4. CASE a + 1 <= MaxRetries[j]
  BY <1>1, <1>3, <1>4, RowUpdates DEF FailedRow
<1>5. CASE ~(a + 1 <= MaxRetries[j])
  BY <1>1, <1>3, <1>5, RowUpdates DEF FailedRow
<1> QED BY <1>4, <1>5

\* A new row is a row.
LEMMA NewRowType ==
    ASSUME now \in Nat, NEW d \in Nat
    PROVE  AbsentRow \in Row /\ NewRow(d) \in Row
<1>1. AbsentRow \in Row
  BY QueueAssumption DEF AbsentRow, Row, Status, Terminal
<1>2. ASSUME NEW n \in Nat
      PROVE  [AbsentRow EXCEPT !.status = "pending", !.nextRun = n] \in Row
  BY <1>1 DEF Row, Status
<1>3. (IF d = 0 THEN 0 ELSE now + d) \in Nat
  OBVIOUS
<1> QED BY <1>1, <1>2, <1>3 DEF NewRow

-----------------------------------------------------------------------------
(* Type correctness. *)

\* A worker that runs a job has one, its clock reading is not in the future,
\* and an operator in the middle of a retry knows the job.
CallsOK ==
    /\ \A w \in Workers :
          /\ pc[w] \in Running \union {"skipped"} => cur[w] \in Jobs
          /\ t0[w] <= now
    /\ \A o \in Operators : op[o].at = "retry" => op[o].job \in Jobs

TypeInv == TypeOK /\ CallsOK

LEMMA TypeInit == Init => TypeInv
<1> SUFFICES ASSUME Init PROVE TypeInv
  OBVIOUS
<1> USE QueueAssumption, PoolAssumption DEF Init, TableInit
<1>1. AbsentRow \in Row
  BY QueueAssumption DEF AbsentRow, Row, Status, Terminal
<1>2. TableTypeOK
  <2>1. now \in Nat /\ paused \in BOOLEAN /\ limit \in [Scopes -> Nat]
    OBVIOUS
  <2>2. job \in [Jobs -> Row] BY <1>1
  <2>3. audit \in Seq(AuditEvent) OBVIOUS
  <2>4. op \in [Operators -> OpCall] BY DEF OpCall, IdleOp
  <2> QED BY <2>1, <2>2, <2>3, <2>4 DEF TableTypeOK
<1>3. TypeOK
  BY <1>2 DEF TypeOK, PC, Running, Leasing
<1>4. CallsOK
  BY DEF CallsOK, Running, IdleOp
<1> QED BY <1>3, <1>4 DEF TypeInv

\* The steps of the clock, the producers, the approvers and the operators.
LEMMA TypeTable ==
    TypeInv /\ TableNext /\ UNCHANGED <<workerVars, draining>> => TypeInv'
<1> SUFFICES ASSUME TypeInv, TableNext, UNCHANGED <<workerVars, draining>>
             PROVE  TypeInv'
  OBVIOUS
<1> USE QueueAssumption DEF TypeInv, TypeOK, TableTypeOK, workerVars
<1>0. now \in Nat /\ \A j \in Jobs : job[j] \in Row
  OBVIOUS
<1>1. CASE Tick
  BY <1>1 DEF Tick, CallsOK
<1>2. ASSUME NEW j \in Jobs, NEW d \in Delays, Enqueue(j, d) PROVE TypeInv'
  <2>1. NewRow(d) \in Row BY <1>0, NewRowType
  <2> QED BY <1>2, <2>1 DEF Enqueue, SetRow, CallsOK
<1>3. ASSUME NEW j \in Jobs, NEW a \in ApprovalIds, NEW d \in Decisions,
             DecideApproval(j, a, d)
      PROVE  TypeInv'
  <2>1. DecidedRow(job[j], d) \in Row BY <1>0, RowTypes
  <2>2. audit' \in Seq(AuditEvent)
    BY <1>3 DEF DecideApproval, Audited, AuditEvent
  <2> QED BY <1>3, <2>1, <2>2 DEF DecideApproval, SetRow, CallsOK
<1>4. ASSUME NEW o \in Operators, NEW p \in BOOLEAN, SetPaused(o, p)
      PROVE  TypeInv'
  BY <1>4 DEF SetPaused, IdleOp, OpCall, CallsOK
<1>5. ASSUME NEW o \in Operators, DrainPause(o) PROVE TypeInv'
  BY <1>5 DEF DrainPause, OpCall, CallsOK
<1>6. ASSUME NEW o \in Operators, DrainRelease(o) PROVE TypeInv'
  <2>1. \A j \in Jobs : Unleased(job[j], "pending") \in Row BY <1>0, RowTypes
  <2>2. job' \in [Jobs -> Row] BY <1>6, <2>1, <1>0 DEF DrainRelease
  <2> QED BY <1>6, <2>2 DEF DrainRelease, OpCall, CallsOK
<1>7. ASSUME NEW o \in Operators, NEW j \in Jobs, RetryRead(o, j) PROVE TypeInv'
  BY <1>7 DEF RetryRead, OpCall, CallsOK
<1>8. ASSUME NEW o \in Operators, RetryWrite(o) PROVE TypeInv'
  <2>1. op[o].job \in Jobs BY <1>8 DEF RetryWrite, CallsOK
  <2>2. RetriedRow(job[op[o].job]) \in Row BY <1>0, <2>1, RowTypes
  <2> QED BY <1>8, <2>1, <2>2 DEF RetryWrite, SetRow, IdleOp, OpCall, CallsOK
<1>9. ASSUME NEW o \in Operators, NEW j \in Jobs, Cancel(o, j) PROVE TypeInv'
  <2>1. [job[j] EXCEPT !.status = "canceled"] \in Row BY <1>0, RowTypes
  <2> QED BY <1>9, <2>1 DEF Cancel, SetRow, IdleOp, OpCall, CallsOK
<1>10. ASSUME NEW o \in Operators, NEW s \in Scopes, NEW n \in Limits,
              SetConcurrencyLimit(o, s, n)
       PROVE  TypeInv'
  BY <1>10 DEF SetConcurrencyLimit, IdleOp, OpCall, CallsOK
<1> QED
  BY <1>1, <1>2, <1>3, <1>4, <1>5, <1>6, <1>7, <1>8, <1>9, <1>10
  DEF TableNext, OperatorNext

\* The steps of the workers.
LEMMA TypeWorker ==
    ASSUME TypeInv, NEW w \in Workers, WorkerNext(w)
    PROVE  TypeInv'
<1> USE QueueAssumption, PoolAssumption
    DEF TypeInv, TypeOK, TableTypeOK, tableRest
<1>0. now \in Nat /\ (\A j \in Jobs : job[j] \in Row) /\ IdOf[w] \in WorkerIds
  OBVIOUS
<1>a. ASSUME NEW l \in PC \ (Running \union {"skipped"}), Loop(w, l),
             UNCHANGED tableRest, job' \in [Jobs -> Row]
      PROVE  TypeInv'
  BY <1>a DEF Loop, Goto, CallsOK, PC, Running, Leasing
<1>b. /\ {"top", "exited"} \subseteq PC \ (Running \union {"skipped"})
      /\ {"lease", "list", "scan", "claim", "run", "fail", "skipped"} \subseteq PC
      /\ {"lease", "list", "scan", "claim"} \intersect (Running \union {"skipped"}) = {}
  BY DEF PC, Running, Leasing
<1>1. CASE Exit(w)
  BY <1>1, <1>a, <1>b DEF Exit
<1>2. CASE StartLease(w)
  BY <1>2, <1>b DEF StartLease, Goto, CallsOK
<1>3. CASE CheckPaused(w)
  <2>1. CASE paused BY <1>3, <2>1, <1>a, <1>b DEF CheckPaused
  <2>2. CASE ~paused BY <1>3, <2>2, <1>b DEF CheckPaused, Goto, CallsOK
  <2> QED BY <2>1, <2>2
<1>4. CASE ListCandidates(w)
  BY <1>4, <1>b DEF ListCandidates, Goto, CallsOK
<1>5. CASE NoCandidate(w)
  BY <1>5, <1>a, <1>b DEF NoCandidate
<1>6. CASE CheckConcurrency(w)
  <2> PICK j \in Jobs :
        \/ Goto(w, "claim") /\ UNCHANGED cand
        \/ cand' = [cand EXCEPT ![w] = @ \ {j}] /\ UNCHANGED pc
    BY <1>6 DEF CheckConcurrency
  <2>1. UNCHANGED <<job, tableRest, t0, cur, att>>
    BY <1>6 DEF CheckConcurrency
  <2>2. CASE Goto(w, "claim") /\ UNCHANGED cand
    BY <2>1, <2>2, <1>b DEF Goto, CallsOK
  <2>3. CASE cand' = [cand EXCEPT ![w] = @ \ {j}] /\ UNCHANGED pc
    BY <2>1, <2>3 DEF CallsOK
  <2> QED BY <2>2, <2>3
<1>7. CASE Claim(w)
  <2>1. PICK j \in Jobs :
        IF LeaseGuard(job[j], t0[w])
        THEN /\ SetRow(j, LeasedRow(job[j], IdOf[w], t0[w]))
             /\ Goto(w, "run")
             /\ cand' = [cand EXCEPT ![w] = {}]
             /\ cur' = [cur EXCEPT ![w] = j]
        ELSE /\ Goto(w, "scan")
             /\ cand' = [cand EXCEPT ![w] = @ \ {j}]
             /\ UNCHANGED <<job, cur>>
    BY <1>7 DEF Claim
  <2>2. UNCHANGED <<tableRest, t0, att>>
    BY <1>7 DEF Claim
  <2>3. LeasedRow(job[j], IdOf[w], t0[w]) \in Row
    <3>1. job[j] \in Row /\ t0[w] \in Nat BY <1>0
    <3> QED BY <3>1, <1>0, RowTypes
  <2>4. CASE LeaseGuard(job[j], t0[w])
    <3>1. /\ SetRow(j, LeasedRow(job[j], IdOf[w], t0[w]))
          /\ Goto(w, "run")
          /\ cand' = [cand EXCEPT ![w] = {}]
          /\ cur' = [cur EXCEPT ![w] = j]
      BY <2>1, <2>4
    <3>2. job' \in [Jobs -> Row] BY <3>1, <2>3 DEF SetRow
    <3>3. pc' \in [Workers -> PC] BY <3>1, <1>b DEF Goto
    <3>4. cand' \in [Workers -> SUBSET Jobs] BY <3>1
    <3>5. cur' \in [Workers -> Jobs \union {NoOne}] BY <3>1
    <3>6. TypeOK' BY <3>2, <3>3, <3>4, <3>5, <2>2
    <3>7. CallsOK' BY <3>1, <2>2 DEF CallsOK, Goto
    <3> QED BY <3>6, <3>7
  <2>5. CASE ~LeaseGuard(job[j], t0[w])
    <3>1. /\ Goto(w, "scan")
          /\ cand' = [cand EXCEPT ![w] = @ \ {j}]
          /\ UNCHANGED <<job, cur>>
      BY <2>1, <2>5
    <3> QED BY <3>1, <2>2, <1>b DEF Goto, CallsOK
  <2> QED BY <2>4, <2>5
<1>8. CASE Complete(w)
  <2>1. cur[w] \in Jobs BY <1>8 DEF Complete, CallsOK, Running
  <2>2. CompletedRow(job[cur[w]]) \in Row BY <1>0, <2>1, RowTypes
  <2>3. job' \in [Jobs -> Row] BY <1>8, <2>1, <2>2 DEF Complete, SetRow
  <2> QED BY <1>8, <1>a, <1>b, <2>3 DEF Complete
<1>9. CASE FailRead(w)
  <2>1. cur[w] \in Jobs BY <1>9 DEF FailRead, CallsOK, Running
  <2>2. job[cur[w]].attempts \in Nat BY <1>0, <2>1 DEF Row
  <2>3. CASE LeasedBy(job[cur[w]], IdOf[w])
    BY <1>9, <1>b, <2>1, <2>2, <2>3, ZenonT(40) DEF FailRead, Goto, CallsOK
  <2>4. CASE ~LeasedBy(job[cur[w]], IdOf[w])
    BY <1>9, <1>a, <1>b, <2>4 DEF FailRead
  <2> QED BY <2>3, <2>4
<1>10. CASE FailWrite(w)
  <2>1. cur[w] \in Jobs BY <1>10 DEF FailWrite, CallsOK, Running
  <2>2. FailedRow(job[cur[w]], cur[w], att[w]) \in Row
    BY <1>0, <2>1, FailedRowType
  <2>3. job' \in [Jobs -> Row] BY <1>10, <2>1, <2>2 DEF FailWrite, SetRow
  <2> QED BY <1>10, <1>a, <1>b, <2>3 DEF FailWrite
<1>11. ASSUME NEW a \in ApprovalIds, EnterApprovalWait(w, a) PROVE TypeInv'
  <2>1. cur[w] \in Jobs BY <1>11 DEF EnterApprovalWait, CallsOK, Running
  <2>2. ApprovalWaitRow(job[cur[w]], a) \in Row BY <1>0, <2>1, RowTypes
  <2>3. job' \in [Jobs -> Row]
    BY <1>11, <2>1, <2>2 DEF EnterApprovalWait, SetRow
  <2> QED BY <1>11, <1>a, <1>b, <2>3 DEF EnterApprovalWait
<1>12. CASE Skip(w)
  <2>1. cur[w] \in Jobs BY <1>12 DEF Skip, CallsOK, Running
  <2> QED BY <1>12, <1>b, <2>1 DEF Skip, Goto, CallsOK
<1>13. CASE Abandon(w)
  BY <1>13, <1>a, <1>b DEF Abandon
<1> QED
  BY <1>1, <1>2, <1>3, <1>4, <1>5, <1>6, <1>7, <1>8, <1>9, <1>10, <1>11,
     <1>12, <1>13
  DEF WorkerNext

\* Every step keeps the types.
LEMMA TypeStep == TypeInv /\ [Next]_vars => TypeInv'
<1> SUFFICES ASSUME TypeInv, [Next]_vars PROVE TypeInv'
  OBVIOUS
<1>1. CASE SignalDrain
  BY <1>1 DEF SignalDrain, workerVars, TypeInv, TypeOK, TableTypeOK, CallsOK
<1>2. CASE UNCHANGED vars
  BY <1>2 DEF vars, TypeInv, TypeOK, TableTypeOK, CallsOK
<1> QED BY <1>1, <1>2, TypeTable, TypeWorker DEF Next

\* Type correctness: every reachable state of the queue and its workers is
\* well typed, so no lease, retry or audit write stores a malformed row.
THEOREM TypeCorrect == Spec => []TypeOK
<1>1. Spec => []TypeInv
  BY TypeInit, TypeStep, PTL DEF Spec
<1>2. TypeInv => TypeOK
  BY DEF TypeInv
<1> QED BY <1>1, <1>2, PTL

-----------------------------------------------------------------------------
(* The lease protocol: fencing, no lost attempts, and no two live runs.  A  *)
(* worker's step is first reduced to one of three kinds: it is granted a    *)
(* lease, it finalises the lease it holds, or it only moves on.             *)

Grant(w, j) ==
    /\ pc[w] = "claim"
    /\ LeaseGuard(job[j], t0[w])
    /\ SetRow(j, LeasedRow(job[j], IdOf[w], t0[w]))
    /\ pc' = [pc EXCEPT ![w] = "run"]
    /\ cur' = [cur EXCEPT ![w] = j]
    /\ UNCHANGED <<now, audit, op, t0, att>>

Finalise(w) ==
    /\ pc[w] \in Running
    /\ LeasedBy(job[cur[w]], IdOf[w])
    /\ \/ SetRow(cur[w], CompletedRow(job[cur[w]]))
       \/ pc[w] = "fail" /\ SetRow(cur[w], FailedRow(job[cur[w]], cur[w], att[w]))
       \/ \E a \in ApprovalIds : SetRow(cur[w], ApprovalWaitRow(job[cur[w]], a))
    /\ Loop(w, "top")
    /\ UNCHANGED <<now, audit, op>>

MoveOn(w) ==
    /\ UNCHANGED <<now, job, audit, op>>
    /\ \A v \in Workers \ {w} :
          pc'[v] = pc[v] /\ cur'[v] = cur[v] /\ t0'[v] = t0[v] /\ att'[v] = att[v]
    /\ pc'[w] \in Running =>
          /\ pc[w] = "run" /\ pc'[w] = "fail"
          /\ LeasedBy(job[cur[w]], IdOf[w])
          /\ cur'[w] = cur[w] /\ t0'[w] = t0[w] /\ att'[w] = job[cur[w]].attempts

-----------------------------------------------------------------------------
\* Every step of a worker is a grant, a finalisation or moves on.
LEMMA WorkerStep ==
    ASSUME TypeInv, NEW w \in Workers, WorkerNext(w)
    PROVE  (\E j \in Jobs : Grant(w, j)) \/ Finalise(w) \/ MoveOn(w)
<1> USE DEF TypeInv, TypeOK, TableTypeOK, tableRest
<1>a. ASSUME NEW l \in {"top", "exited"}, Loop(w, l), UNCHANGED <<job, tableRest>>
      PROVE  MoveOn(w)
  BY <1>a DEF Loop, Goto, MoveOn, Running
<1>1. CASE Exit(w)
  BY <1>1, <1>a DEF Exit
<1>2. CASE StartLease(w)
  BY <1>2 DEF StartLease, Goto, MoveOn, Running
<1>3. CASE CheckPaused(w)
  <2>1. CASE paused BY <1>3, <2>1, <1>a DEF CheckPaused
  <2>2. CASE ~paused BY <1>3, <2>2 DEF CheckPaused, Goto, MoveOn, Running
  <2> QED BY <2>1, <2>2
<1>4. CASE ListCandidates(w)
  BY <1>4 DEF ListCandidates, Goto, MoveOn, Running
<1>5. CASE NoCandidate(w)
  BY <1>5, <1>a DEF NoCandidate
<1>6. CASE CheckConcurrency(w)
  <2>1. UNCHANGED <<job, tableRest, t0, cur, att>> /\ pc[w] = "scan"
    BY <1>6 DEF CheckConcurrency
  <2>2. Goto(w, "claim") \/ UNCHANGED pc
    BY <1>6 DEF CheckConcurrency
  <2> QED BY <2>1, <2>2 DEF Goto, MoveOn, Running
<1>7. CASE Claim(w)
  <2>1. PICK j \in Jobs :
          IF LeaseGuard(job[j], t0[w])
          THEN /\ SetRow(j, LeasedRow(job[j], IdOf[w], t0[w]))
               /\ Goto(w, "run")
               /\ cur' = [cur EXCEPT ![w] = j]
          ELSE /\ Goto(w, "scan")
               /\ UNCHANGED <<job, cur>>
    BY <1>7 DEF Claim
  <2>2. UNCHANGED <<tableRest, t0, att>> /\ pc[w] = "claim"
    BY <1>7 DEF Claim
  <2>3. CASE LeaseGuard(job[j], t0[w])
    BY <2>1, <2>2, <2>3 DEF Grant, Goto
  <2>4. CASE ~LeaseGuard(job[j], t0[w])
    BY <2>1, <2>2, <2>4 DEF MoveOn, Goto, Running
  <2> QED BY <2>3, <2>4
<1>8. CASE Complete(w)
  <2>1. CASE LeasedBy(job[cur[w]], IdOf[w])
    BY <1>8, <2>1 DEF Complete, Finalise, Running
  <2>2. CASE ~LeasedBy(job[cur[w]], IdOf[w])
    BY <1>8, <2>2, <1>a DEF Complete
  <2> QED BY <2>1, <2>2
<1>9. CASE FailRead(w)
  <2>1. CASE LeasedBy(job[cur[w]], IdOf[w])
    BY <1>9, <2>1 DEF FailRead, Goto, MoveOn, Running
  <2>2. CASE ~LeasedBy(job[cur[w]], IdOf[w])
    BY <1>9, <2>2, <1>a DEF FailRead
  <2> QED BY <2>1, <2>2
<1>10. CASE FailWrite(w)
  <2>1. CASE LeasedBy(job[cur[w]], IdOf[w])
    BY <1>10, <2>1 DEF FailWrite, Finalise, Running
  <2>2. CASE ~LeasedBy(job[cur[w]], IdOf[w])
    BY <1>10, <2>2, <1>a DEF FailWrite
  <2> QED BY <2>1, <2>2
<1>11. ASSUME NEW a \in ApprovalIds, EnterApprovalWait(w, a)
       PROVE  Finalise(w) \/ MoveOn(w)
  <2>1. CASE LeasedBy(job[cur[w]], IdOf[w])
    BY <1>11, <2>1 DEF EnterApprovalWait, Finalise, Running
  <2>2. CASE ~LeasedBy(job[cur[w]], IdOf[w])
    BY <1>11, <2>2, <1>a DEF EnterApprovalWait
  <2> QED BY <2>1, <2>2
<1>12. CASE Skip(w)
  BY <1>12 DEF Skip, Goto, MoveOn, Running
<1>13. CASE Abandon(w)
  BY <1>13, <1>a DEF Abandon
<1> QED
  BY <1>1, <1>2, <1>3, <1>4, <1>5, <1>6, <1>7, <1>8, <1>9, <1>10, <1>11,
     <1>12, <1>13
  DEF WorkerNext
-----------------------------------------------------------------------------
(* Fencing. *)

\* The attempt count that fail_leased holds is current while its lease is.
FreshAttempts ==
    \A w \in Workers :
        pc[w] = "fail" /\ LeasedBy(job[cur[w]], IdOf[w])
            => att[w] = job[cur[w]].attempts

\* A job that was not enqueued has no history.
AbsentClean ==
    \A j \in Jobs : job[j].status = "absent" =>
        job[j].attempts = 0 /\ job[j].approval = NoOne

LeaseInv == TypeInv /\ FencedLease /\ FreshAttempts /\ AbsentClean

\* A table step leaves each row alone or writes a row that is not leased,
\* with the same attempts; it never touches a job nobody enqueued but to
\* enqueue it.
LEMMA TableRows ==
    ASSUME TypeInv, TableNext, NEW j \in Jobs
    PROVE  \/ job'[j] = job[j]
           \/ /\ job'[j].status \notin {"leased", "absent", "retry_wait", "dead_lettered"}
              /\ \/ job'[j].attempts = job[j].attempts
                 \/ job[j].status = "absent" /\ job'[j].attempts = 0
<1> USE DEF TypeInv, TypeOK, TableTypeOK
<1>0. \A i \in Jobs : job[i] \in Row
  OBVIOUS
<1>1. CASE Tick
  BY <1>1 DEF Tick
<1>2. ASSUME NEW i \in Jobs, NEW d \in Delays, Enqueue(i, d)
      PROVE  \/ job'[j] = job[j]
             \/ /\ job[j].status = "absent" /\ job'[j].attempts = 0
                /\ job'[j].status = "pending"
  BY <1>2 DEF Enqueue, SetRow, NewRow, AbsentRow
<1>3. ASSUME NEW i \in Jobs, NEW a \in ApprovalIds, NEW d \in Decisions,
             DecideApproval(i, a, d)
      PROVE  \/ job'[j] = job[j]
             \/ /\ job'[j].attempts = job[j].attempts
                /\ job'[j].status \in {"pending", "approval_denied", "approval_expired"}
  <2>1. job' = [job EXCEPT ![i] = DecidedRow(job[i], d)]
    BY <1>3 DEF DecideApproval, SetRow
  <2>2. CASE d = "approve"
    BY <2>1, <2>2, <1>0 DEF DecidedRow, Unleased, Row
  <2>3. CASE d = "deny"
    BY <2>1, <2>3, <1>0 DEF DecidedRow, Unleased, Row
  <2>4. CASE d = "expire"
    BY <2>1, <2>4, <1>0 DEF DecidedRow, Unleased, Row
  <2> QED BY <2>2, <2>3, <2>4 DEF Decisions
<1>4. ASSUME NEW o \in Operators, OperatorNext(o)
      PROVE  \/ job'[j] = job[j]
             \/ /\ job'[j].attempts = job[j].attempts
                /\ job'[j].status \in {"pending", "canceled"}
  <2>1. CASE UNCHANGED job
    BY <2>1
  <2>2. CASE DrainRelease(o)
    BY <2>2, <1>0 DEF DrainRelease, Unleased, Row
  <2>3. CASE RetryWrite(o)
    <3>1. op[o].job \in Jobs BY <2>3 DEF RetryWrite, CallsOK
    <3> QED BY <2>3, <3>1, <1>0 DEF RetryWrite, SetRow, RetriedRow, Unleased, Row
  <2>4. ASSUME NEW i \in Jobs, Cancel(o, i)
        PROVE  \/ job'[j] = job[j]
               \/ /\ job'[j].attempts = job[j].attempts
                  /\ job'[j].status = "canceled"
    BY <2>4, <1>0 DEF Cancel, SetRow, Row
  <2> QED
    BY <1>4, <2>1, <2>2, <2>3, <2>4
    DEF OperatorNext, SetPaused, DrainPause, RetryRead, SetConcurrencyLimit
<1> QED BY <1>1, <1>2, <1>3, <1>4 DEF TableNext

\* The statements that end a lease.
LEMMA EndedRows ==
    ASSUME NEW r \in Row, NEW j \in Jobs, NEW n \in Nat, r.attempts = n
    PROVE  /\ CompletedRow(r).attempts = n + 1
           /\ CompletedRow(r).status = "succeeded"
           /\ FailedRow(r, j, n).attempts = n + 1
           /\ FailedRow(r, j, n).status \in {"retry_wait", "dead_lettered"}
           /\ \A a \in ApprovalIds :
                 /\ ApprovalWaitRow(r, a).attempts = n
                 /\ ApprovalWaitRow(r, a).status = "approval_wait"
<1>1. CASE n + 1 <= MaxRetries[j]
  BY <1>1 DEF CompletedRow, FailedRow, ApprovalWaitRow, Unleased, Row
<1>2. CASE ~(n + 1 <= MaxRetries[j])
  BY <1>2 DEF CompletedRow, FailedRow, ApprovalWaitRow, Unleased, Row
<1> QED BY <1>1, <1>2

\* A finalised row is not leased and has at least the attempts it had; the
\* other rows stay.
LEMMA FinalisedRows ==
    ASSUME LeaseInv, NEW w \in Workers, Finalise(w)
    PROVE  /\ cur[w] \in Jobs
           /\ job'[cur[w]].status \in
                 {"succeeded", "retry_wait", "dead_lettered", "approval_wait"}
           /\ job'[cur[w]].attempts \in
                 {job[cur[w]].attempts, job[cur[w]].attempts + 1}
           /\ \A j \in Jobs : j # cur[w] => job'[j] = job[j]
<1> USE DEF LeaseInv, TypeInv, TypeOK, TableTypeOK
<1>1. cur[w] \in Jobs
  BY DEF Finalise, CallsOK
<1>2. job[cur[w]] \in Row /\ job[cur[w]].attempts \in Nat
  BY <1>1 DEF Row
<1>3. CASE SetRow(cur[w], CompletedRow(job[cur[w]]))
  BY <1>1, <1>2, <1>3, EndedRows DEF SetRow
<1>4. CASE pc[w] = "fail" /\ SetRow(cur[w], FailedRow(job[cur[w]], cur[w], att[w]))
  <2>1. att[w] = job[cur[w]].attempts
    BY <1>4 DEF Finalise, FreshAttempts
  <2> QED BY <1>1, <1>2, <1>4, <2>1, EndedRows DEF SetRow
<1>5. ASSUME NEW a \in ApprovalIds,
             SetRow(cur[w], ApprovalWaitRow(job[cur[w]], a))
      PROVE  /\ job'[cur[w]].status = "approval_wait"
             /\ job'[cur[w]].attempts = job[cur[w]].attempts
             /\ \A j \in Jobs : j # cur[w] => job'[j] = job[j]
  BY <1>1, <1>2, <1>5, EndedRows DEF SetRow
<1> QED BY <1>1, <1>3, <1>4, <1>5 DEF Finalise

\* Every step keeps the lease invariant, if no two workers share an id.
LEMMA LeaseStep == UniqueIds /\ LeaseInv /\ [Next]_vars => LeaseInv'
<1> SUFFICES ASSUME UniqueIds, LeaseInv, [Next]_vars PROVE LeaseInv'
  OBVIOUS
<1> USE DEF LeaseInv
<1>0. TypeInv'
  BY TypeStep
<1>1. CASE TableNext /\ UNCHANGED <<workerVars, draining>>
  <2>1. \A w \in Workers :
          pc[w] \in Running => cur[w] \in Jobs /\ cur'[w] = cur[w]
    BY <1>1 DEF TypeInv, CallsOK, workerVars
  <2>2. \A j \in Jobs : job'[j] = job[j] \/ job'[j].status \notin {"leased", "absent"}
    BY <1>1, TableRows
  <2>3. FencedLease'
    BY <1>1, <2>1, <2>2 DEF FencedLease, LeasedBy, workerVars
  <2>4. FreshAttempts'
    BY <1>1, <2>1, <2>2 DEF FreshAttempts, LeasedBy, workerVars, Running
  <2>5. AbsentClean'
    BY <2>2 DEF AbsentClean
  <2> QED BY <1>0, <2>3, <2>4, <2>5
<1>2. CASE SignalDrain \/ UNCHANGED vars
  BY <1>0, <1>2
  DEF SignalDrain, vars, workerVars, FencedLease, FreshAttempts, AbsentClean
<1>3. ASSUME NEW w \in Workers, NEW j \in Jobs, Grant(w, j) PROVE LeaseInv'
  <2> USE DEF TypeInv, TypeOK, TableTypeOK
  <2>0. job[j] \in Row OBVIOUS
  <2>1. /\ job'[j].status = "leased" /\ job'[j].owner = IdOf[w]
        /\ job'[j].expires = t0[w] + TTL /\ job'[j].attempts = job[j].attempts
        /\ \A i \in Jobs \ {j} : job'[i] = job[i]
    BY <1>3, <2>0 DEF Grant, SetRow, LeasedRow, Row
  <2>2. /\ pc'[w] = "run" /\ cur'[w] = j /\ t0' = t0 /\ att' = att
        /\ \A v \in Workers \ {w} : pc'[v] = pc[v] /\ cur'[v] = cur[v]
    BY <1>3 DEF Grant
  <2>3. \A v \in Workers \ {w} : ~LeasedBy(job'[j], IdOf[v])
    BY <2>1 DEF LeasedBy, UniqueIds
  <2>4. \A v \in Workers : pc[v] \in Running => cur[v] \in Jobs
    BY DEF CallsOK
  <2>5. FencedLease'
    <3> SUFFICES ASSUME NEW v \in Workers, pc'[v] \in Running,
                        LeasedBy(job'[cur'[v]], IdOf[v])
                 PROVE  job'[cur'[v]].expires = t0'[v] + TTL
      BY DEF FencedLease, LeasedBy
    <3>1. CASE v = w
      BY <3>1, <2>1, <2>2
    <3>2. CASE v # w
      <4>1. cur'[v] = cur[v] /\ pc[v] \in Running /\ t0'[v] = t0[v]
        BY <3>2, <2>2
      <4>2. cur[v] \in Jobs \ {j} BY <4>1, <3>2, <2>3, <2>4
      <4>3. job'[cur'[v]] = job[cur[v]] BY <4>1, <4>2, <2>1
      <4> QED BY <4>1, <4>3 DEF FencedLease
    <3> QED BY <3>1, <3>2
  <2>6. FreshAttempts'
    <3> SUFFICES ASSUME NEW v \in Workers, pc'[v] = "fail",
                        LeasedBy(job'[cur'[v]], IdOf[v])
                 PROVE  att'[v] = job'[cur'[v]].attempts
      BY DEF FreshAttempts, LeasedBy
    <3>1. v # w BY <2>2
    <3>2. cur'[v] = cur[v] /\ pc[v] = "fail" /\ att'[v] = att[v]
      BY <3>1, <2>2
    <3>3. cur[v] \in Jobs \ {j} BY <3>1, <3>2, <2>3, <2>4 DEF Running
    <3>4. job'[cur'[v]] = job[cur[v]] BY <3>2, <3>3, <2>1
    <3> QED BY <3>2, <3>4 DEF FreshAttempts
  <2>7. AbsentClean'
    BY <2>1 DEF AbsentClean
  <2> QED BY <1>0, <2>5, <2>6, <2>7
<1>4. ASSUME NEW w \in Workers, Finalise(w) PROVE LeaseInv'
  <2>1. /\ cur[w] \in Jobs
        /\ job'[cur[w]].status \notin {"leased", "absent"}
        /\ \A j \in Jobs : j # cur[w] => job'[j] = job[j]
    BY <1>4, FinalisedRows
  <2>2. /\ pc'[w] = "top"
        /\ \A v \in Workers \ {w} : /\ pc'[v] = pc[v] /\ cur'[v] = cur[v]
                                   /\ t0'[v] = t0[v] /\ att'[v] = att[v]
    BY <1>4 DEF Finalise, Loop, Goto, TypeInv, TypeOK
  <2>3. \A v \in Workers : pc[v] \in Running => cur[v] \in Jobs
    BY DEF TypeInv, CallsOK
  <2>4. FencedLease'
    BY <2>1, <2>2, <2>3 DEF FencedLease, LeasedBy, Running
  <2>5. FreshAttempts'
    BY <2>1, <2>2, <2>3 DEF FreshAttempts, LeasedBy, Running
  <2>6. AbsentClean'
    BY <2>1 DEF AbsentClean
  <2> QED BY <1>0, <2>4, <2>5, <2>6
<1>5. ASSUME NEW w \in Workers, MoveOn(w) PROVE LeaseInv'
  BY <1>0, <1>5 DEF MoveOn, FencedLease, FreshAttempts, AbsentClean, Running
<1> QED BY <1>1, <1>2, <1>3, <1>4, <1>5, WorkerStep DEF Next

\* The lease invariant holds in every reachable state.
LEMMA LeaseInvariant ==
    ASSUME UniqueIds
    PROVE  Spec => []LeaseInv
<1>1. Init => LeaseInv
  <2> SUFFICES ASSUME Init PROVE LeaseInv
    OBVIOUS
  <2>1. FencedLease /\ FreshAttempts
    BY DEF Init, FencedLease, FreshAttempts, Running
  <2>2. AbsentClean
    BY DEF Init, TableInit, AbsentRow, AbsentClean
  <2> QED BY <2>1, <2>2, TypeInit DEF LeaseInv
<1>2. LeaseInv /\ [Next]_vars => LeaseInv'
  BY LeaseStep
<1> QED BY <1>1, <1>2, PTL DEF Spec

\* Fencing: whatever workers and operators do, the owner check of
\* complete_leased and fail_leased lets a worker finalise only the lease it
\* was granted, provided no two workers write the same lease_owner.
THEOREM Fencing ==
    ASSUME UniqueIds
    PROVE  Spec => []FencedLease
<1>1. LeaseInv => FencedLease
  BY DEF LeaseInv
<1> QED BY <1>1, LeaseInvariant, PTL

\* The read and the later write of fail_leased lose no attempt, with any mix
\* of workers and operator commands.
THEOREM NoLostAttempts ==
    ASSUME UniqueIds
    PROVE  Spec => AttemptsNeverDecrease
<1>1. LeaseInv /\ [Next]_vars
        => \A j \in Jobs : job'[j].attempts >= job[j].attempts
  <2> SUFFICES ASSUME LeaseInv, [Next]_vars, NEW j \in Jobs
               PROVE  job'[j].attempts >= job[j].attempts
    OBVIOUS
  <2>0. job[j] \in Row /\ job[j].attempts \in Nat
    BY DEF LeaseInv, TypeInv, TypeOK, TableTypeOK, Row
  <2>1. CASE TableNext
    <3>1. job[j].status = "absent" => job[j].attempts = 0
      BY DEF LeaseInv, AbsentClean
    <3> QED BY <2>0, <2>1, <3>1, TableRows DEF LeaseInv
  <2>2. CASE SignalDrain \/ UNCHANGED vars
    BY <2>0, <2>2 DEF SignalDrain, vars
  <2>3. ASSUME NEW w \in Workers, NEW i \in Jobs, Grant(w, i)
        PROVE  job'[j].attempts >= job[j].attempts
    <3>1. job' = [job EXCEPT ![i] = LeasedRow(job[i], IdOf[w], t0[w])]
      BY <2>3 DEF Grant, SetRow
    <3>2. job \in [Jobs -> Row]
      BY DEF LeaseInv, TypeInv, TypeOK, TableTypeOK
    <3>3. job'[j].attempts = job[j].attempts
      BY <2>0, <3>1, <3>2 DEF LeasedRow, Row
    <3> QED BY <2>0, <3>3
  <2>4. ASSUME NEW w \in Workers, Finalise(w)
        PROVE  job'[j].attempts >= job[j].attempts
    BY <2>0, <2>4, FinalisedRows
  <2>5. ASSUME NEW w \in Workers, MoveOn(w)
        PROVE  job'[j].attempts >= job[j].attempts
    BY <2>0, <2>5 DEF MoveOn
  <2> QED BY <2>1, <2>2, <2>3, <2>4, <2>5, WorkerStep DEF Next, LeaseInv
<1> QED BY <1>1, LeaseInvariant, PTL DEF Spec, AttemptsNeverDecrease
-----------------------------------------------------------------------------
(* Exclusion, when no operator command takes leases away. *)

\* No operator is between the two steps of a command that revokes leases.
NoRevocationUnderWay == \A o \in Operators : op[o].at \notin {"drain", "retry"}

\* A worker whose lease has not run out is still the row's owner.
LiveLease ==
    \A w \in Workers :
        pc[w] \in Running /\ now < t0[w] + TTL
            => LeasedBy(job[cur[w]], IdOf[w])

LiveInv == LeaseInv /\ NoRevocationUnderWay /\ LiveLease

\* Without revoking commands the table steps leave a leased row alone.
LEMMA LeasedRowsKept ==
    ASSUME NoRevocation, TypeInv, NoRevocationUnderWay, TableNext
    PROVE  /\ NoRevocationUnderWay'
           /\ now' \in {now, now + 1}
           /\ \A j \in Jobs : job[j].status = "leased" => job'[j] = job[j]
<1> USE DEF NoRevocationUnderWay, TypeInv, TypeOK, TableTypeOK
<1>1. CASE Tick
  BY <1>1 DEF Tick
<1>2. ASSUME NEW j \in Jobs, NEW d \in Delays, Enqueue(j, d)
      PROVE  /\ UNCHANGED <<op, now>>
             /\ \A i \in Jobs : job[i].status = "leased" => job'[i] = job[i]
  BY <1>2 DEF Enqueue, SetRow
<1>3. ASSUME NEW j \in Jobs, NEW a \in ApprovalIds, NEW d \in Decisions,
             DecideApproval(j, a, d)
      PROVE  /\ UNCHANGED <<op, now>>
             /\ \A i \in Jobs : job[i].status = "leased" => job'[i] = job[i]
  BY <1>3 DEF DecideApproval, SetRow
<1>4. ASSUME NEW o \in Operators, OperatorNext(o)
      PROVE  /\ UNCHANGED <<job, now>>
             /\ NoRevocationUnderWay'
  <2>1. ~DrainRelease(o) /\ ~RetryWrite(o) /\ ~DrainPause(o)
    BY DEF DrainRelease, RetryWrite, DrainPause, NoRevocation
  <2>2. \A j \in Jobs : ~RetryRead(o, j) /\ ~Cancel(o, j)
    BY DEF RetryRead, Cancel, NoRevocation
  <2>3. (\E p \in BOOLEAN : SetPaused(o, p))
          \/ (\E scope \in Scopes, n \in Limits : SetConcurrencyLimit(o, scope, n))
    BY <1>4, <2>1, <2>2 DEF OperatorNext
  <2>4. UNCHANGED <<job, now>> /\ op' = [op EXCEPT ![o] = IdleOp]
    BY <2>3 DEF SetPaused, SetConcurrencyLimit
  <2> QED BY <2>4 DEF IdleOp
<1> QED BY <1>1, <1>2, <1>3, <1>4 DEF TableNext

\* Every step keeps the live lease invariant: a claim needs an open row or an
\* expired lease, and by fencing the expiry it compares with is the one the
\* running worker was granted.
LEMMA LiveStep ==
    ASSUME UniqueIds, NoRevocation
    PROVE  LiveInv /\ [Next]_vars => LiveInv'
<1> SUFFICES ASSUME LiveInv, [Next]_vars PROVE LiveInv'
  OBVIOUS
<1> USE DEF LiveInv
<1>0. LeaseInv'
  BY LeaseStep
<1>a. /\ now \in Nat /\ TTL \in Nat /\ \A v \in Workers : t0[v] \in Nat /\ t0[v] <= now
      /\ \A v \in Workers : pc[v] \in Running => cur[v] \in Jobs
  BY QueueAssumption DEF LeaseInv, TypeInv, TypeOK, TableTypeOK, CallsOK
<1>1. CASE TableNext /\ UNCHANGED <<workerVars, draining>>
  <2>1. /\ NoRevocationUnderWay'
        /\ now' \in {now, now + 1}
        /\ \A j \in Jobs : job[j].status = "leased" => job'[j] = job[j]
    BY <1>1, LeasedRowsKept DEF LeaseInv
  <2>2. pc' = pc /\ t0' = t0 /\ cur' = cur
    BY <1>1 DEF workerVars
  <2>3. ASSUME NEW v \in Workers, pc[v] \in Running, now' < t0[v] + TTL
        PROVE  LeasedBy(job'[cur[v]], IdOf[v])
    <3>1. now < t0[v] + TTL BY <2>1, <2>3, <1>a
    <3>2. LeasedBy(job[cur[v]], IdOf[v]) BY <3>1, <2>3 DEF LiveLease
    <3> QED BY <3>2, <2>3, <2>1, <1>a DEF LeasedBy
  <2>4. LiveLease'
    BY <2>2, <2>3 DEF LiveLease, LeasedBy
  <2> QED BY <1>0, <2>1, <2>4
<1>2. CASE SignalDrain \/ UNCHANGED vars
  <2>1. UNCHANGED <<now, job, op, pc, t0, cur>>
    BY <1>2 DEF SignalDrain, vars, workerVars
  <2> QED BY <1>0, <2>1 DEF LiveLease, LeasedBy, NoRevocationUnderWay
<1>3. ASSUME NEW w \in Workers, NEW j \in Jobs, Grant(w, j) PROVE LiveInv'
  <2>0. job \in [Jobs -> Row] /\ cur \in [Workers -> Jobs \union {NoOne}]
        /\ pc \in [Workers -> PC]
    BY DEF LeaseInv, TypeInv, TypeOK, TableTypeOK
  <2>1. /\ job'[j].status = "leased" /\ job'[j].owner = IdOf[w]
        /\ \A i \in Jobs \ {j} : job'[i] = job[i]
    BY <1>3, <2>0 DEF Grant, SetRow, LeasedRow, Row
  <2>2. /\ cur'[w] = j /\ t0' = t0 /\ now' = now /\ op' = op
        /\ \A v \in Workers \ {w} : pc'[v] = pc[v] /\ cur'[v] = cur[v]
    BY <1>3, <2>0 DEF Grant
  <2>3. ASSUME NEW v \in Workers \ {w}, pc[v] \in Running, now < t0[v] + TTL
        PROVE  cur[v] # j /\ LeasedBy(job[cur[v]], IdOf[v])
    <3>1. LeasedBy(job[cur[v]], IdOf[v]) BY <2>3 DEF LiveLease
    <3>2. job[cur[v]].expires = t0[v] + TTL
      BY <3>1, <2>3 DEF LeaseInv, FencedLease
    <3>3. ~(job[cur[v]].expires <= t0[w]) BY <3>2, <2>3, <1>a
    <3>4. ~LeaseGuard(job[cur[v]], t0[w])
      BY <3>1, <3>3 DEF LeaseGuard, LeasedBy
    <3> QED BY <3>1, <3>4, <1>3 DEF Grant
  <2>4. LiveLease'
    <3> SUFFICES ASSUME NEW v \in Workers, pc'[v] \in Running, now' < t0'[v] + TTL
                 PROVE  LeasedBy(job'[cur'[v]], IdOf[v])
      BY DEF LiveLease, LeasedBy
    <3>1. CASE v = w BY <3>1, <2>1, <2>2 DEF LeasedBy
    <3>2. CASE v # w
      <4>1. pc[v] \in Running /\ now < t0[v] + TTL /\ cur'[v] = cur[v]
        BY <3>2, <2>2
      <4>2. cur[v] \in Jobs \ {j} /\ LeasedBy(job[cur[v]], IdOf[v])
        BY <4>1, <3>2, <2>3, <1>a
      <4> QED BY <4>1, <4>2, <2>1
    <3> QED BY <3>1, <3>2
  <2> QED BY <1>0, <2>2, <2>4 DEF NoRevocationUnderWay
<1>4. ASSUME NEW w \in Workers, Finalise(w) PROVE LiveInv'
  <2>1. \A j \in Jobs : j # cur[w] => job'[j] = job[j]
    BY <1>4, FinalisedRows
  <2>2. /\ pc'[w] = "top" /\ now' = now /\ op' = op
        /\ \A v \in Workers \ {w} :
              pc'[v] = pc[v] /\ cur'[v] = cur[v] /\ t0'[v] = t0[v]
    BY <1>4 DEF Finalise, Loop, Goto, LeaseInv, TypeInv, TypeOK
  <2>3. LeasedBy(job[cur[w]], IdOf[w])
    BY <1>4 DEF Finalise
  <2>4. LiveLease'
    <3> SUFFICES ASSUME NEW v \in Workers, pc'[v] \in Running, now' < t0'[v] + TTL
                 PROVE  LeasedBy(job'[cur'[v]], IdOf[v])
      BY DEF LiveLease, LeasedBy
    <3>1. v # w BY <2>2 DEF Running
    <3>2. pc[v] \in Running /\ now < t0[v] + TTL /\ cur'[v] = cur[v]
      BY <3>1, <2>2
    <3>3. LeasedBy(job[cur[v]], IdOf[v]) BY <3>2 DEF LiveLease
    <3>4. cur[v] # cur[w] BY <3>1, <3>3, <2>3 DEF LeasedBy, UniqueIds
    <3> QED BY <3>2, <3>3, <3>4, <2>1, <1>a
  <2> QED BY <1>0, <2>2, <2>4 DEF NoRevocationUnderWay
<1>5. ASSUME NEW w \in Workers, MoveOn(w) PROVE LiveInv'
  <2>1. UNCHANGED <<now, job, op>>
    BY <1>5 DEF MoveOn
  <2>2. \A v \in Workers : pc'[v] \in Running =>
          pc[v] \in Running /\ cur'[v] = cur[v] /\ t0'[v] = t0[v]
    BY <1>5 DEF MoveOn, Running
  <2> QED BY <1>0, <2>1, <2>2 DEF LiveLease, LeasedBy, NoRevocationUnderWay
<1> QED BY <1>1, <1>2, <1>3, <1>4, <1>5, WorkerStep DEF Next, LeaseInv

\* Exclusion: without retry, drain and cancel commands, two workers of a pool
\* never run one job while the leases of both last, although lease_next_at
\* claims from a stale candidate list at a stale clock reading.
THEOREM Exclusion ==
    ASSUME UniqueIds, NoRevocation
    PROVE  Spec => []NoLiveOverlap
<1>1. Init => LiveInv
  <2> SUFFICES ASSUME Init PROVE LiveInv
    OBVIOUS
  <2>1. FencedLease /\ FreshAttempts /\ LiveLease
    BY DEF Init, FencedLease, FreshAttempts, LiveLease, Running
  <2>2. AbsentClean /\ NoRevocationUnderWay
    BY DEF Init, TableInit, AbsentRow, AbsentClean, NoRevocationUnderWay, IdleOp
  <2> QED BY <2>1, <2>2, TypeInit DEF LeaseInv, LiveInv
<1>2. LiveInv => NoLiveOverlap
  <2> SUFFICES ASSUME LiveInv, NEW v \in Workers, NEW w \in Workers, v # w,
                      pc[v] \in Running, pc[w] \in Running, cur[v] = cur[w],
                      ~(now >= t0[v] + TTL), ~(now >= t0[w] + TTL)
               PROVE  FALSE
    BY DEF NoLiveOverlap
  <2>1. now \in Nat /\ TTL \in Nat /\ t0[v] \in Nat /\ t0[w] \in Nat
    BY QueueAssumption DEF LiveInv, LeaseInv, TypeInv, TypeOK, TableTypeOK
  <2>2. LeasedBy(job[cur[v]], IdOf[v]) /\ LeasedBy(job[cur[w]], IdOf[w])
    BY <2>1 DEF LiveInv, LiveLease
  <2> QED BY <2>2 DEF LeasedBy, UniqueIds
<1> QED BY <1>1, <1>2, LiveStep, PTL DEF Spec
=============================================================================
