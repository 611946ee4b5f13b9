--------------------------- MODULE VersionedStore ---------------------------
(***************************************************************************)
(* Records with revisions (corvid-runtime, store.rs): blind writes,         *)
(* compare-and-set on a revision, reads that expire a record, deletions.    *)
(* One key of one store.  A client is a thread; it works through a handle,  *)
(* an opened backend with one mutex.  Threads of a process share a handle,  *)
(* processes on one SQLite file have their own.                             *)
(*                                                                         *)
(* A SQL statement is a step.  put_record and put_record_if_revision are    *)
(* two statements under the handle's mutex, so a client of another handle   *)
(* may write in between.  get_record_with_policy takes the mutex twice.     *)
(*                                                                         *)
(* A value is the set of the updates it contains: a compare-and-set adds    *)
(* its client's update to the value it read.                                *)
(***************************************************************************)
EXTENDS Integers, FiniteSets

CONSTANTS
    Clients,      \* threads that use the store
    Handles,      \* opened backends
    Assignments,  \* which handle each client may work through
    Ops,          \* the operations in use
    Ttl,          \* ttl_ms of the policy; 0 is no expiry
    LegalHold,    \* the policy's legal_hold
    MaxRev,       \* bound: revisions of the record
    MaxClock,     \* bound: the clock stops here
    NoRecord

AllOps == {"put", "cas", "get", "delete"}
Record == [rev: Nat, val: SUBSET Clients, at: Nat]

ASSUME StoreAssumption ==
    /\ Assignments \subseteq [Clients -> Handles]
    /\ Ops \subseteq AllOps
    /\ Ttl \in Nat
    /\ LegalHold \in BOOLEAN
    /\ MaxRev \in Nat
    /\ MaxClock \in Nat
    /\ NoRecord \notin Record

VARIABLES
    clock,     \* now_ms()
    rec,       \* the row, or NoRecord
    handleOf,  \* the handle of each client
    call,      \* the call each client is in, with its local variables
    acked,     \* history: updates acknowledged since the last blind write
    stale      \* history: clients whose record was deleted since they read it

storeVars == <<clock, rec, handleOf, call, acked, stale>>

Idle == [at |-> "idle", seen |-> NoRecord, rev |-> 0]
Locked == {"put", "swap"}    \* labels inside a locked section

\* The row and the clients' locals are well typed: the sentinel that stands
\* for a missing row is never stored as a revision.
StoreTypeOK ==
    /\ clock \in Nat
    /\ rec \in Record \union {NoRecord}
    /\ handleOf \in [Clients -> Handles]
    /\ call \in [Clients -> [at: {"idle", "read", "put", "swap", "expire"},
                             seen: Record \union {NoRecord}, rev: Nat]]
    /\ acked \subseteq Clients
    /\ stale \subseteq Clients

StoreInit ==
    /\ clock = 1
    /\ rec = NoRecord
    /\ handleOf \in Assignments
    /\ call = [c \in Clients |-> Idle]
    /\ acked = {}
    /\ stale = {}

\* Mutation of Free: the mutex is not taken.
FreeMutant(c) == TRUE

\* The mutex of the client's handle is free.
Free(c) == \A d \in Clients : handleOf[d] = handleOf[c] => call[d].at \notin Locked
Goto(c, l) == call' = [call EXCEPT ![c] = l]
Finish(c) == Goto(c, Idle)

\* Mutation of NextRevision: the sentinel of a missing row is written.
NextRevisionSentinel(r) == IF r = NoRecord THEN -1 ELSE r.rev + 1

\* sqlite_current_revision and the revision after it.
NextRevision(r) == IF r = NoRecord THEN 1 ELSE r.rev + 1

Write(r, v) == rec' = [rev |-> r, val |-> v, at |-> clock]

Erase ==
    /\ rec' = NoRecord
    /\ acked' = {}
    /\ stale' = stale \union {c \in Clients : call[c].at \in {"read", "swap"}}

-----------------------------------------------------------------------------
(* put_record *)

PutRead(c) ==
    /\ "put" \in Ops
    /\ call[c].at = "idle" /\ Free(c)
    /\ NextRevision(rec) <= MaxRev
    /\ Goto(c, [Idle EXCEPT !.at = "put", !.rev = NextRevision(rec)])
    /\ UNCHANGED <<clock, rec, handleOf, acked, stale>>

\* The upsert writes the revision it computed, whatever the row has now.
PutWrite(c) ==
    /\ call[c].at = "put"
    /\ Write(call[c].rev, {c})
    /\ acked' = {}
    /\ Finish(c)
    /\ UNCHANGED <<clock, handleOf, stale>>

-----------------------------------------------------------------------------
(* put_record_if_revision, on a record the client has read *)

GetRecord(c) ==
    /\ "cas" \in Ops
    /\ call[c].at = "idle" /\ Free(c)
    /\ rec # NoRecord
    /\ Goto(c, [Idle EXCEPT !.at = "read", !.seen = rec])
    /\ stale' = stale \ {c}
    /\ UNCHANGED <<clock, rec, handleOf, acked>>

\* Mutation of Matches: a newer revision is accepted as well.
MatchesMutant(r, seen) == r # NoRecord /\ r.rev >= seen.rev

Matches(r, seen) == r # NoRecord /\ r.rev = seen.rev

\* The check: a conflict ends the call.
CasCheck(c) ==
    /\ call[c].at = "read" /\ Free(c)
    /\ call[c].seen.rev < MaxRev
    /\ IF Matches(rec, call[c].seen)
       THEN Goto(c, [call[c] EXCEPT !.at = "swap"])
       ELSE Finish(c)
    /\ UNCHANGED <<clock, rec, handleOf, acked, stale>>

\* The UPDATE is keyed by the revision again; how many rows it changed is
\* not looked at.
CasWrite(c) ==
    /\ call[c].at = "swap"
    /\ IF Matches(rec, call[c].seen)
       THEN Write(call[c].seen.rev + 1, call[c].seen.val \union {c})
       ELSE UNCHANGED rec
    /\ acked' = IF rec = NoRecord THEN {}
                ELSE IF c \in stale THEN {c} ELSE acked \union {c}
    /\ Finish(c)
    /\ UNCHANGED <<clock, handleOf, stale>>

-----------------------------------------------------------------------------
(* get_record_with_policy and delete *)

Expired(r) == Ttl # 0 /\ clock - r.at >= Ttl

\* A record that has not expired is returned and nothing changes.
GetExpired(c) ==
    /\ "get" \in Ops
    /\ call[c].at = "idle" /\ Free(c)
    /\ rec # NoRecord /\ Expired(rec)
    /\ Goto(c, [Idle EXCEPT !.at = "expire"])
    /\ UNCHANGED <<clock, rec, handleOf, acked, stale>>

\* The deletion names the key only.
ExpireDelete(c) ==
    /\ call[c].at = "expire" /\ Free(c)
    /\ Erase
    /\ Finish(c)
    /\ UNCHANGED <<clock, handleOf>>

\* delete_with_policy
Delete(c) ==
    /\ "delete" \in Ops
    /\ ~LegalHold
    /\ call[c].at = "idle" /\ Free(c)
    /\ Erase
    /\ UNCHANGED <<clock, handleOf, call>>

StoreTick ==
    /\ clock < MaxClock
    /\ clock' = clock + 1
    /\ UNCHANGED <<rec, handleOf, call, acked, stale>>

\* An error or the death of the process ends a call at any point.
Abort(c) ==
    /\ call[c].at # "idle"
    /\ Finish(c)
    /\ UNCHANGED <<clock, rec, handleOf, acked, stale>>

StoreNext ==
    \/ StoreTick
    \/ \E c \in Clients :
          \/ PutRead(c) \/ PutWrite(c)
          \/ GetRecord(c) \/ CasCheck(c) \/ CasWrite(c)
          \/ GetExpired(c) \/ ExpireDelete(c) \/ Delete(c) \/ Abort(c)

StoreSpec == StoreInit /\ [][StoreNext]_storeVars

-----------------------------------------------------------------------------
OneHandle == \A c, d \in Clients : handleOf[c] = handleOf[d]

\* A compare-and-set that was acknowledged is in the record until a blind
\* write, a deletion, or the compare-and-set of a client whose record was
\* deleted meanwhile takes the record's place.
AckedUpdatesKept == rec # NoRecord => acked \subseteq rec.val

\* This holds within one process: its threads share the handle's mutex.
SharedHandleKeeps == OneHandle => AckedUpdatesKept

\* A compare-and-set that takes effect replaces the very record its client
\* read, as long as that was not deleted meanwhile (a deleted record's
\* revisions start again at one).
SwapsWhatWasRead ==
    [][\A c \in Clients :
          /\ call[c].at = "swap" /\ rec' # rec /\ CasWrite(c)
          /\ c \notin stale
          /\ OneHandle
          => rec = call[c].seen]_storeVars
=============================================================================
