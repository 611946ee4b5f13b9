---------------------------- MODULE LeaseService ----------------------------
(***************************************************************************)
(* What the durable queue promises about leases, without candidates, scans, *)
(* retries or tables: a job is open, held by one worker until a deadline,   *)
(* parked or stopped.  Someone who is not the holder gets a held job only   *)
(* after the deadline, unless an operator revokes the lease.                *)
(***************************************************************************)
EXTENDS Integers

CONSTANTS
    Jobs,
    WorkerIds,
    TTL,
    NoOne,
    Revocable   \* operators may drain, cancel or retry jobs

VARIABLES clock, stage, holder, deadline

leaseVars == <<clock, stage, holder, deadline>>

Stages == {"none", "open", "held", "parked", "stopped"}

Init ==
    /\ clock = 1
    /\ stage = [j \in Jobs |-> "none"]
    /\ holder = [j \in Jobs |-> NoOne]
    /\ deadline = [j \in Jobs |-> 0]

Move(j, s, id, d) ==
    /\ stage' = [stage EXCEPT ![j] = s]
    /\ holder' = [holder EXCEPT ![j] = id]
    /\ deadline' = [deadline EXCEPT ![j] = d]
    /\ UNCHANGED clock

Advance == clock' = clock + 1 /\ UNCHANGED <<stage, holder, deadline>>

Submit(j) == stage[j] = "none" /\ Move(j, "open", NoOne, 0)

\* A lease is granted on an open job or on one whose lease has run out.  A
\* slow caller's lease may be shorter than TTL, never longer.
Acquire(j, id) ==
    /\ \/ stage[j] = "open"
       \/ stage[j] = "held" /\ deadline[j] <= clock
    /\ \E t \in 0 .. clock : Move(j, "held", id, t + TTL)

\* The holder, and nobody else, gives the job back.
Yield(j, id, s) ==
    /\ stage[j] = "held"
    /\ holder[j] = id
    /\ s \in {"open", "parked", "stopped"}
    /\ Move(j, s, NoOne, 0)

Resolve(j, s) ==
    /\ stage[j] = "parked"
    /\ s \in {"open", "stopped"}
    /\ Move(j, s, NoOne, 0)

\* An operator opens or stops one job, or takes back every lease.
Override(j, s) ==
    /\ Revocable
    /\ stage[j] # "none"
    /\ s \in {"open", "stopped"}
    /\ Move(j, s, NoOne, 0)

RevokeAll ==
    /\ Revocable
    /\ stage' = [j \in Jobs |-> IF stage[j] = "held" THEN "open" ELSE stage[j]]
    /\ holder' = [j \in Jobs |-> NoOne]
    /\ deadline' = [j \in Jobs |-> 0]
    /\ UNCHANGED clock

Next ==
    \/ Advance
    \/ \E j \in Jobs :
          \/ Submit(j)
          \/ \E id \in WorkerIds : Acquire(j, id)
          \/ \E id \in WorkerIds, s \in Stages : Yield(j, id, s)
          \/ \E s \in Stages : Resolve(j, s) \/ Override(j, s)
    \/ RevokeAll

Spec == Init /\ [][Next]_leaseVars
=============================================================================
