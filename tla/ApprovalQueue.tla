--------------------------- MODULE ApprovalQueue ---------------------------
(***************************************************************************)
(* One approval of the approval queue (corvid-runtime, approval_queue.rs    *)
(* and approval_authorization.rs) and the actors that decide, delegate,     *)
(* comment on and expire it.  Calls name the approval and never touch two,  *)
(* so one approval stands for each.  A transition reads the row under one   *)
(* lock, authorises on what it read, and writes the row and its audit event *)
(* in a transaction under another.                                          *)
(***************************************************************************)
EXTENDS Integers, FiniteSets

CONSTANTS
    Actors,     \* actor ids of the approval's tenant
    Reviewers,  \* those whose role is the required role
    NoActor,    \* SQL NULL
    Expiries,   \* contract expiries a request may carry
    MaxTime,    \* bound: the clock stops here
    MaxEvents   \* bound: an audit trail this long gets no comment or delegation

ASSUME ApprovalAssumption ==
    /\ Reviewers \subseteq Actors
    /\ NoActor \notin Actors
    /\ Expiries \subseteq Nat
    /\ MaxTime \in Nat
    /\ MaxEvents \in Nat

VARIABLES
    now,    \* now_ms()
    row,    \* the row of approval_queue
    audit,  \* its events in approval_queue_audit; the id is the time and the kind
    pc,     \* the step each actor's call is at
    op,     \* the call: its transition and its argument
    at,     \* the clock it read
    seen    \* the status it read

vars == <<now, row, audit, pc, op, at, seen>>
calls == <<pc, op, at, seen>>

Decided == {"approved", "denied", "expired"}
Status == Decided \union {"absent", "pending"}
Deciding == {"approve", "deny", "expire"}
Kinds == {"approve", "deny", "expire", "comment", "delegate"}

Row == [status: Status, requester: Actors \union {NoActor},
        approver: Actors \union {NoActor}, delegate: Actors \union {NoActor},
        expires: Nat, updated: Nat]
Op == [kind: Kinds, to: Actors]
Event == [at: Nat, kind: Kinds \union {"create"}, actor: Actors, before: Status,
          after: Status]
AbsentRow == [status |-> "absent", requester |-> NoActor, approver |-> NoActor,
              delegate |-> NoActor, expires |-> 0, updated |-> 0]

\* An approval's row, its audit trail and the calls of the actors are well
\* typed: no transition writes a status the queue does not know.
TypeOK ==
    /\ now \in Nat
    /\ row \in Row
    /\ audit \subseteq Event
    /\ pc \in [Actors -> {"idle", "read", "reread", "write"}]
    /\ op \in [Actors -> Op]
    /\ at \in [Actors -> Nat]
    /\ seen \in [Actors -> Status]

Init ==
    /\ now = 0
    /\ row = AbsentRow
    /\ audit = {}
    /\ pc = [a \in Actors |-> "idle"]
    /\ op = [a \in Actors |-> [kind |-> "comment", to |-> a]]
    /\ at = [a \in Actors |-> 0]
    /\ seen = [a \in Actors |-> "absent"]

Tick == now < MaxTime /\ now' = now + 1 /\ UNCHANGED <<row, audit, calls>>

-----------------------------------------------------------------------------
\* create: a contract that has expired, and an id that exists, are refused.
Create(a, expires) ==
    /\ pc[a] = "idle"
    /\ row = AbsentRow
    /\ expires > now
    /\ row' = [AbsentRow EXCEPT !.status = "pending", !.requester = a,
                                !.expires = expires, !.updated = now]
    /\ audit' = audit \union {[at |-> now, kind |-> "create", actor |-> a,
                               before |-> "absent", after |-> "pending"]}
    /\ UNCHANGED <<now, calls>>

\* The locals of a finished call are forgotten.
Return(a) ==
    /\ pc' = [pc EXCEPT ![a] = "idle"]
    /\ op' = [op EXCEPT ![a] = [kind |-> "comment", to |-> a]]
    /\ at' = [at EXCEPT ![a] = 0]
    /\ seen' = [seen EXCEPT ![a] = "absent"]

\* approve, deny and expire are given the time at which they are called.
Call(a, kind, to) ==
    /\ pc[a] = "idle"
    /\ row # AbsentRow
    /\ kind \in Deciding \/ Cardinality(audit) < MaxEvents
    /\ kind # "delegate" => to = a
    /\ pc' = [pc EXCEPT ![a] = "read"]
    /\ op' = [op EXCEPT ![a] = [kind |-> kind, to |-> to]]
    /\ at' = [at EXCEPT ![a] = now]
    /\ UNCHANGED <<now, row, audit, seen>>

\* Mutation of AuthorizeTransition: expiry is not looked at.
AuthorizeTransitionMutant(a) ==
    /\ a \in Reviewers
    /\ a # row.requester
    /\ row.delegate # NoActor => a = row.delegate

\* authorize_approval_transition
AuthorizeTransition(a) ==
    /\ a \in Reviewers
    /\ a # row.requester
    /\ row.delegate # NoActor => a = row.delegate
    /\ op[a].kind = "approve" => at[a] < row.expires

\* What the read must find for the call to go on.
MayProceed(a) ==
    CASE op[a].kind = "comment" -> TRUE
      [] op[a].kind = "expire" -> row.status = "pending" /\ at[a] >= row.expires
      [] op[a].kind = "delegate" ->
            /\ row.status = "pending"
            /\ AuthorizeTransition(a)
            /\ op[a].to # row.requester
      [] OTHER -> row.status = "pending" /\ AuthorizeTransition(a)

\* require_pending or require_tenant, and the authorisation of the record read.
\* comment and delegate take the time of their event afterwards.
Read(a) ==
    /\ pc[a] = "read"
    /\ IF MayProceed(a)
       THEN /\ pc' = [pc EXCEPT ![a] = IF op[a].kind = "expire" THEN "reread" ELSE "write"]
            /\ seen' = [seen EXCEPT ![a] = row.status]
            /\ at' = [at EXCEPT ![a] = IF op[a].kind \in Deciding THEN @ ELSE now]
            /\ UNCHANGED op
       ELSE Return(a)
    /\ UNCHANGED <<now, row, audit>>

\* transition_expired_at requires the row to be pending once more.
Reread(a) ==
    /\ pc[a] = "reread"
    /\ IF row.status = "pending"
       THEN pc' = [pc EXCEPT ![a] = "write"] /\ UNCHANGED <<op, at, seen>>
       ELSE Return(a)
    /\ UNCHANGED <<now, row, audit>>

\* Mutation of Outcome: the transition is stored where its status goes.
OutcomeMutant(kind) == kind

\* The status a decision leaves behind.
Outcome(kind) == CASE kind = "approve" -> "approved"
                   [] kind = "deny" -> "denied"
                   [] kind = "expire" -> "expired"

\* Mutation of UpdatedRow: the UPDATE does not ask for a pending row.
UpdatedRowMutant(a) ==
    IF op[a].kind \in Deciding
    THEN [row EXCEPT !.status = Outcome(op[a].kind), !.approver = a, !.updated = at[a]]
    ELSE IF op[a].kind = "delegate"
    THEN [row EXCEPT !.delegate = op[a].to, !.updated = at[a]]
    ELSE row

\* The UPDATE of a transition, which changes a pending row only.
UpdatedRow(a) ==
    IF row.status # "pending" \/ op[a].kind = "comment" THEN row
    ELSE IF op[a].kind = "delegate"
    THEN [row EXCEPT !.delegate = op[a].to, !.updated = at[a]]
    ELSE [row EXCEPT !.status = Outcome(op[a].kind), !.approver = a, !.updated = at[a]]

\* insert_audit_tx: the event carries the status read earlier.
EventOf(a) ==
    [at |-> at[a], kind |-> op[a].kind, actor |-> a, before |-> seen[a],
     after |-> IF op[a].kind \in Deciding THEN Outcome(op[a].kind) ELSE seen[a]]

\* Mutation of Write: no transaction, so the process may stop before the audit.
WriteMutant(a) ==
    /\ pc[a] = "write"
    /\ row' = UpdatedRow(a)
    /\ audit' \in {audit, audit \union {EventOf(a)}}
    /\ Return(a)
    /\ UNCHANGED now

\* One transaction; a second event of the same kind and time breaks the primary
\* key of the audit table and rolls it back.
Write(a) ==
    /\ pc[a] = "write"
    /\ IF \E e \in audit : e.at = at[a] /\ e.kind = op[a].kind
       THEN UNCHANGED <<row, audit>>
       ELSE row' = UpdatedRow(a) /\ audit' = audit \union {EventOf(a)}
    /\ Return(a)
    /\ UNCHANGED now

\* The process of a caller ends in the middle of a call.
Die(a) == pc[a] # "idle" /\ Return(a) /\ UNCHANGED <<now, row, audit>>

ActorNext(a) ==
    \/ \E expires \in Expiries : Create(a, expires)
    \/ \E kind \in Kinds, to \in Actors : Call(a, kind, to)
    \/ Read(a) \/ Reread(a) \/ Write(a) \/ Die(a)

Next == Tick \/ \E a \in Actors : ActorNext(a)

Spec == Init /\ [][Next]_vars

-----------------------------------------------------------------------------
\* audit_coverage finds every approval complete: its creation is on record, and
\* a decided one has the event that took it from pending to its status, signed
\* by the approver the row names.  Callers that race, and that die between the
\* read and the transaction, do not open a gap.
CoverageComplete ==
    /\ row # AbsentRow =>
          \E e \in audit : e.kind = "create" /\ e.actor = row.requester
    /\ row.status \in Decided =>
          \E e \in audit : /\ e.before = "pending"
                           /\ e.after = row.status
                           /\ e.actor = row.approver
                           /\ e.at = row.updated

\* Whatever calls were authorised before it, a decision is never replaced by a
\* later one, nor reassigned by a late delegation.
DecisionIsFinal == [][row.status \in Decided => row' = row]_vars

\* An approval is never granted by a call made at or after its contract's
\* expiry, and never expired by one made before it.
DecidedInTime ==
    /\ row.status = "approved" => row.updated < row.expires
    /\ row.status = "expired" => row.updated >= row.expires

=============================================================================
