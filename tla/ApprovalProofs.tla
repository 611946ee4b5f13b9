--------------------------- MODULE ApprovalProofs ---------------------------
(***************************************************************************)
(* The audit coverage, the timing and the finality of approval decisions,   *)
(* proved for any actors, reviewers, expiries and bounds.                   *)
(***************************************************************************)
EXTENDS ApprovalQueue, TLAPS

\* A call past its read keeps what the read established: the row is there, it
\* was pending for a decision, and the time checks still hold because a row
\* never changes its expiry.
CallsAuthorised ==
    \A a \in Actors :
        /\ pc[a] # "idle" => row # AbsentRow
        /\ pc[a] \in {"reread", "write"} /\ op[a].kind \in Deciding =>
              seen[a] = "pending"
        /\ pc[a] \in {"reread", "write"} /\ op[a].kind = "approve" =>
              at[a] < row.expires
        /\ pc[a] \in {"reread", "write"} /\ op[a].kind = "expire" =>
              at[a] >= row.expires

AbsentIsEmpty == row.status = "absent" => row = AbsentRow

\* The inductive invariant.
ApprovalInv ==
    /\ TypeOK
    /\ AbsentIsEmpty
    /\ CallsAuthorised
    /\ CoverageComplete
    /\ DecidedInTime

\* What the UPDATE of a transition changes: the row stays typed, keeps its
\* requester and its expiry, and changes its status only from pending.
LEMMA UpdatedRowFacts ==
    ASSUME TypeOK, NEW a \in Actors, row # AbsentRow, AbsentIsEmpty
    PROVE  /\ UpdatedRow(a) \in Row
           /\ UpdatedRow(a).requester = row.requester
           /\ UpdatedRow(a).expires = row.expires
           /\ UpdatedRow(a).status # "absent"
           /\ row.status # "pending" => UpdatedRow(a) = row
           /\ op[a].kind \notin Deciding => UpdatedRow(a).status = row.status
           /\ row.status = "pending" /\ op[a].kind \in Deciding =>
                 /\ UpdatedRow(a).status = Outcome(op[a].kind)
                 /\ UpdatedRow(a).approver = a
                 /\ UpdatedRow(a).updated = at[a]
<1>1. op[a] \in Op /\ at[a] \in Nat
  BY DEF TypeOK
<1>2. CASE row.status # "pending" \/ op[a].kind = "comment"
  BY <1>2 DEF UpdatedRow, TypeOK, AbsentIsEmpty, Deciding
<1>3. CASE row.status = "pending" /\ op[a].kind = "delegate"
  BY <1>1, <1>3 DEF UpdatedRow, TypeOK, Row, Op, Deciding
<1>4. CASE row.status = "pending" /\ op[a].kind \in Deciding
  BY <1>1, <1>4 DEF UpdatedRow, TypeOK, Row, Op, Deciding, Outcome, Status, Decided
<1> QED
  BY <1>1, <1>2, <1>3, <1>4 DEF Op, Kinds, Deciding

\* An empty queue satisfies the invariant.
LEMMA InitApproval == Init => ApprovalInv
  BY ApprovalAssumption DEF Init, ApprovalInv, TypeOK, AbsentIsEmpty, CallsAuthorised,
     CoverageComplete, DecidedInTime, AbsentRow, Row, Op, Status, Decided, Kinds

\* A step that leaves the tables alone keeps everything said of them alone.
LEMMA TablesKept ==
    ASSUME ApprovalInv, UNCHANGED <<row, audit>>
    PROVE  AbsentIsEmpty' /\ CoverageComplete' /\ DecidedInTime'
  BY DEF ApprovalInv, AbsentIsEmpty, CoverageComplete, DecidedInTime

\* Returning from a call needs nothing of the caller any more.
LEMMA ReturnKeeps ==
    ASSUME ApprovalInv, NEW a \in Actors, Return(a), UNCHANGED <<now, row, audit>>
    PROVE  ApprovalInv'
<1>1. TypeOK'
  BY DEF ApprovalInv, TypeOK, Return, Op, Kinds, Status
<1>2. CallsAuthorised'
  BY DEF ApprovalInv, TypeOK, Return, CallsAuthorised
<1> QED
  BY <1>1, <1>2, TablesKept DEF ApprovalInv

\* create writes the row with the event that records it.
LEMMA CreateKeeps ==
    ASSUME ApprovalInv, NEW a \in Actors, NEW expires \in Expiries, Create(a, expires)
    PROVE  ApprovalInv'
<1>1. /\ row' \in Row
      /\ row'.status = "pending"
      /\ row'.requester = a
  BY ApprovalAssumption DEF ApprovalInv, TypeOK, Create, AbsentRow, Row, Status, Decided
<1>2. TypeOK'
  BY <1>1 DEF ApprovalInv, TypeOK, Create, calls, Event, Status, Kinds
<1>3. CallsAuthorised'
  BY DEF ApprovalInv, CallsAuthorised, Create, calls
<1>4. CoverageComplete'
  <2> DEFINE e == [at |-> now, kind |-> "create", actor |-> a,
                   before |-> "absent", after |-> "pending"]
  <2>1. e \in audit' /\ e.kind = "create" /\ e.actor = row'.requester
    BY <1>1 DEF Create
  <2>2. row'.status \notin Decided
    BY <1>1 DEF Decided
  <2> HIDE DEF e
  <2> QED
    BY <2>1, <2>2 DEF CoverageComplete
<1>5. AbsentIsEmpty' /\ DecidedInTime'
  BY <1>1 DEF AbsentIsEmpty, DecidedInTime
<1> QED
  BY <1>2, <1>3, <1>4, <1>5 DEF ApprovalInv

\* A call that has only been made has established nothing yet.
LEMMA CallKeeps ==
    ASSUME ApprovalInv, NEW a \in Actors, NEW kind \in Kinds, NEW to \in Actors,
           Call(a, kind, to)
    PROVE  ApprovalInv'
<1>1. TypeOK'
  BY DEF ApprovalInv, TypeOK, Call, Op
<1>2. CallsAuthorised'
  BY DEF ApprovalInv, TypeOK, Call, CallsAuthorised
<1> QED
  BY <1>1, <1>2, TablesKept DEF ApprovalInv, Call

\* The read checks what CallsAuthorised says of the steps after it.
LEMMA ReadKeeps ==
    ASSUME ApprovalInv, NEW a \in Actors, Read(a)
    PROVE  ApprovalInv'
<1>1. CASE MayProceed(a)
  <2>1. TypeOK'
    BY <1>1 DEF ApprovalInv, TypeOK, Read, Row
  <2>2. op[a].kind \in Deciding => row.status = "pending"
    BY <1>1 DEF MayProceed, Deciding
  <2>3. op[a].kind = "approve" => at[a] < row.expires
    BY <1>1 DEF MayProceed, AuthorizeTransition
  <2>4. op[a].kind = "expire" => at[a] >= row.expires
    BY <1>1 DEF MayProceed
  <2>5. CallsAuthorised'
    BY <1>1, <2>2, <2>3, <2>4 DEF ApprovalInv, TypeOK, Read, CallsAuthorised, Deciding
  <2> QED
    BY <2>1, <2>5, TablesKept DEF ApprovalInv, Read
<1>2. CASE ~MayProceed(a)
  BY <1>2, ReturnKeeps DEF Read
<1> QED
  BY <1>1, <1>2

\* expire looks at the status a second time.
LEMMA RereadKeeps ==
    ASSUME ApprovalInv, NEW a \in Actors, Reread(a)
    PROVE  ApprovalInv'
<1>1. CASE row.status = "pending"
  <2>1. TypeOK' /\ CallsAuthorised'
    BY <1>1 DEF ApprovalInv, TypeOK, Reread, CallsAuthorised
  <2> QED
    BY <2>1, TablesKept DEF ApprovalInv, Reread
<1>2. CASE row.status # "pending"
  BY <1>2, ReturnKeeps DEF Reread
<1> QED
  BY <1>1, <1>2

\* The transaction: either rolled back, or row and event together.
LEMMA WriteKeeps ==
    ASSUME ApprovalInv, NEW a \in Actors, Write(a)
    PROVE  ApprovalInv'
<1>1. CASE UNCHANGED <<row, audit>>
  BY <1>1, ReturnKeeps DEF Write
<1>2. CASE row' = UpdatedRow(a) /\ audit' = audit \union {EventOf(a)}
  <2>1. row # AbsentRow
    BY DEF ApprovalInv, CallsAuthorised, Write
  <2>2. /\ row' \in Row
        /\ row'.requester = row.requester
        /\ row'.expires = row.expires
        /\ row'.status # "absent"
        /\ row.status # "pending" => row' = row
        /\ op[a].kind \notin Deciding => row'.status = row.status
        /\ row.status = "pending" /\ op[a].kind \in Deciding =>
              /\ row'.status = Outcome(op[a].kind)
              /\ row'.approver = a
              /\ row'.updated = at[a]
    BY <1>2, <2>1, UpdatedRowFacts DEF ApprovalInv
  <2>3. op[a] \in Op /\ at[a] \in Nat /\ seen[a] \in Status
    BY DEF ApprovalInv, TypeOK
  <2>4. /\ EventOf(a) \in Event
        /\ EventOf(a).at = at[a] /\ EventOf(a).actor = a /\ EventOf(a).before = seen[a]
        /\ op[a].kind \in Deciding => EventOf(a).after = Outcome(op[a].kind)
    BY <2>3 DEF EventOf, Event, Op, Outcome, Deciding, Status, Decided
  <2>5. TypeOK'
    BY <1>2, <2>2, <2>4 DEF ApprovalInv, TypeOK, Write, Return, Op, Kinds, Status
  <2>6. AbsentIsEmpty'
    BY <2>2 DEF AbsentIsEmpty
  <2>7. CallsAuthorised'
    <3>1. row' # AbsentRow
      BY <2>2 DEF AbsentRow
    <3> QED
      BY <2>2, <3>1 DEF ApprovalInv, TypeOK, CallsAuthorised, Write, Return
  <2>8. CoverageComplete'
    <3>1. CASE row.status = "pending" /\ op[a].kind \in Deciding
      <4>1. EventOf(a).before = "pending"
        BY <2>4, <3>1 DEF ApprovalInv, CallsAuthorised, Write
      <4> QED
        BY <1>2, <2>1, <2>2, <2>4, <3>1, <4>1 DEF ApprovalInv, CoverageComplete
    <3>2. CASE row.status = "pending" /\ op[a].kind \notin Deciding
      BY <1>2, <2>1, <2>2, <3>2 DEF ApprovalInv, CoverageComplete, Decided
    <3>3. CASE row.status # "pending"
      BY <1>2, <2>1, <2>2, <3>3 DEF ApprovalInv, CoverageComplete
    <3> QED
      BY <3>1, <3>2, <3>3
  <2>9. DecidedInTime'
    <3>1. CASE row.status = "pending" /\ op[a].kind \in Deciding
      BY <2>2, <3>1 DEF ApprovalInv, CallsAuthorised, DecidedInTime, Write, Outcome, Deciding
    <3>2. CASE row.status = "pending" /\ op[a].kind \notin Deciding
      BY <2>2, <3>2 DEF DecidedInTime
    <3>3. CASE row.status # "pending"
      BY <2>2, <3>3 DEF ApprovalInv, DecidedInTime
    <3> QED
      BY <3>1, <3>2, <3>3
  <2> QED
    BY <2>5, <2>6, <2>7, <2>8, <2>9 DEF ApprovalInv
<1> QED
  BY <1>1, <1>2 DEF Write

\* Every step keeps the invariant.
LEMMA NextApproval == ApprovalInv /\ [Next]_vars => ApprovalInv'
<1> SUFFICES ASSUME ApprovalInv, [Next]_vars PROVE ApprovalInv'
  OBVIOUS
<1>1. CASE UNCHANGED vars
  BY <1>1 DEF ApprovalInv, TypeOK, AbsentIsEmpty, CallsAuthorised, CoverageComplete,
     DecidedInTime, vars
<1>2. CASE Tick
  <2>1. TypeOK' /\ CallsAuthorised'
    BY <1>2 DEF ApprovalInv, TypeOK, CallsAuthorised, Tick, calls
  <2> QED
    BY <1>2, <2>1, TablesKept DEF ApprovalInv, Tick
<1>3. ASSUME NEW a \in Actors, ActorNext(a) PROVE ApprovalInv'
  <2>1. ASSUME NEW expires \in Expiries, Create(a, expires) PROVE ApprovalInv'
    BY <2>1, CreateKeeps
  <2>2. ASSUME NEW kind \in Kinds, NEW to \in Actors, Call(a, kind, to) PROVE ApprovalInv'
    BY <2>2, CallKeeps
  <2>3. CASE Read(a)
    BY <2>3, ReadKeeps
  <2>4. CASE Reread(a)
    BY <2>4, RereadKeeps
  <2>5. CASE Write(a)
    BY <2>5, WriteKeeps
  <2>6. CASE Die(a)
    BY <2>6, ReturnKeeps DEF Die
  <2> QED
    BY <1>3, <2>1, <2>2, <2>3, <2>4, <2>5, <2>6 DEF ActorNext
<1> QED
  BY <1>1, <1>2, <1>3 DEF Next

\* The invariant holds in every reachable state.
LEMMA ApprovalInvariant == Spec => []ApprovalInv
  BY InitApproval, NextApproval, PTL DEF Spec

\* Type correctness: no interleaving of the transitions stores a malformed row
\* or audit event.
THEOREM ApprovalTypeCorrect == Spec => []TypeOK
<1>1. ApprovalInv => TypeOK
  BY DEF ApprovalInv
<1> QED
  BY <1>1, ApprovalInvariant, PTL

\* For any actors and expiries, however calls of approve, deny, expire,
\* delegate and comment interleave and die: audit_coverage is complete.
THEOREM AuditCovered == Spec => []CoverageComplete
<1>1. ApprovalInv => CoverageComplete
  BY DEF ApprovalInv
<1> QED
  BY <1>1, ApprovalInvariant, PTL

\* approve never grants at or after the expiry, expire never ends one before.
THEOREM DecisionsInTime == Spec => []DecidedInTime
<1>1. ApprovalInv => DecidedInTime
  BY DEF ApprovalInv
<1> QED
  BY <1>1, ApprovalInvariant, PTL

\* A decision, once written, is never replaced, although every transition
\* decides on a row it read before it took the lock it writes under.
THEOREM DecisionsFinal == Spec => DecisionIsFinal
<1>1. ASSUME ApprovalInv, [Next]_vars, row.status \in Decided
      PROVE  row' = row
  <2>1. CASE UNCHANGED vars
    BY <2>1 DEF vars
  <2>2. CASE Tick
    BY <2>2 DEF Tick
  <2>3. ASSUME NEW a \in Actors, ActorNext(a) PROVE row' = row
    <3>1. ASSUME NEW expires \in Expiries, Create(a, expires) PROVE row' = row
      BY <1>1, <3>1 DEF Create, AbsentRow, Decided
    <3>2. CASE Write(a)
      BY <1>1, <3>2 DEF Write, UpdatedRow, Decided
    <3> QED
      BY <2>3, <3>1, <3>2 DEF ActorNext, Call, Read, Reread, Die
  <2> QED
    BY <1>1, <2>1, <2>2, <2>3 DEF Next
<1>2. ApprovalInv /\ [Next]_vars => (row.status \in Decided => row' = row)
  BY <1>1
<1> QED
  BY <1>2, ApprovalInvariant, PTL DEF Spec, DecisionIsFinal
=============================================================================
