----------------------------- MODULE StoreProofs ----------------------------
(***************************************************************************)
(* Compare-and-set of VersionedStore, proved for every number of clients    *)
(* and every policy: among clients of one handle an acknowledged update is  *)
(* kept, and a swap replaces the record that was read.                      *)
(***************************************************************************)
EXTENDS VersionedStore, TLAPS

-----------------------------------------------------------------------------
(* Types. *)

\* A client that has read a record knows it.
ReadOK ==
    \A c \in Clients : call[c].at \in {"read", "swap"} => call[c].seen \in Record

StoreTypeInv == StoreTypeOK /\ ReadOK

LEMMA StoreTypeInit == StoreInit => StoreTypeInv
BY StoreAssumption DEF StoreInit, StoreTypeInv, StoreTypeOK, ReadOK, Idle

\* A call that goes on, or ends, keeps the types of the calls.
LEMMA CallTypes ==
    ASSUME StoreTypeInv, NEW c \in Clients, NEW l, Goto(c, l),
           l \in [at: {"idle", "read", "put", "swap", "expire"},
                  seen: Record \union {NoRecord}, rev: Nat],
           l.at \in {"read", "swap"} => l.seen \in Record
    PROVE  /\ call' \in [Clients -> [at: {"idle", "read", "put", "swap", "expire"},
                                     seen: Record \union {NoRecord}, rev: Nat]]
           /\ ReadOK'
BY DEF StoreTypeInv, StoreTypeOK, ReadOK, Goto

LEMMA StoreTypeStep == StoreTypeInv /\ [StoreNext]_storeVars => StoreTypeInv'
<1> SUFFICES ASSUME StoreTypeInv, [StoreNext]_storeVars PROVE StoreTypeInv'
  OBVIOUS
<1> USE DEF StoreTypeInv, StoreTypeOK
<1>0. ASSUME NEW c \in Clients, Finish(c)
      PROVE  /\ call' \in [Clients -> [at: {"idle", "read", "put", "swap", "expire"},
                                       seen: Record \union {NoRecord}, rev: Nat]]
             /\ ReadOK'
  BY <1>0, CallTypes DEF Finish, Idle
<1>1. CASE StoreTick
  BY <1>1 DEF StoreTick, ReadOK
<1>2. CASE UNCHANGED storeVars
  BY <1>2 DEF storeVars, ReadOK
<1>3. ASSUME NEW c \in Clients, PutRead(c) PROVE StoreTypeInv'
  <2>1. NextRevision(rec) \in Nat BY DEF NextRevision, Record
  <2> QED BY <1>3, <2>1, CallTypes DEF PutRead, Idle
<1>4. ASSUME NEW c \in Clients, PutWrite(c) PROVE StoreTypeInv'
  <2>1. rec' \in Record BY <1>4 DEF PutWrite, Write, Record
  <2> QED BY <1>4, <2>1, <1>0 DEF PutWrite
<1>5. ASSUME NEW c \in Clients, GetRecord(c) PROVE StoreTypeInv'
  <2>1. rec \in Record BY <1>5 DEF GetRecord
  <2> QED BY <1>5, <2>1, CallTypes DEF GetRecord, Idle
<1>6. ASSUME NEW c \in Clients, CasCheck(c) PROVE StoreTypeInv'
  <2>1. CASE Matches(rec, call[c].seen)
    <3>1. call[c].seen \in Record BY <1>6 DEF CasCheck, ReadOK
    <3> QED BY <1>6, <2>1, <3>1, CallTypes DEF CasCheck
  <2>2. CASE ~Matches(rec, call[c].seen)
    BY <1>6, <2>2, <1>0 DEF CasCheck
  <2> QED BY <2>1, <2>2
<1>7. ASSUME NEW c \in Clients, CasWrite(c) PROVE StoreTypeInv'
  <2>1. call[c].seen \in Record BY <1>7 DEF CasWrite, ReadOK
  <2>2. rec' \in Record \union {NoRecord}
    BY <1>7, <2>1 DEF CasWrite, Write, Record
  <2> QED BY <1>7, <2>2, <1>0 DEF CasWrite
<1>8. ASSUME NEW c \in Clients, GetExpired(c) PROVE StoreTypeInv'
  BY <1>8, CallTypes DEF GetExpired, Idle
<1>9. ASSUME NEW c \in Clients, ExpireDelete(c) PROVE StoreTypeInv'
  BY <1>9, <1>0 DEF ExpireDelete, Erase
<1>10. ASSUME NEW c \in Clients, Delete(c) PROVE StoreTypeInv'
  BY <1>10 DEF Delete, Erase, ReadOK
<1>11. ASSUME NEW c \in Clients, Abort(c) PROVE StoreTypeInv'
  BY <1>11, <1>0 DEF Abort
<1> QED
  BY <1>1, <1>2, <1>3, <1>4, <1>5, <1>6, <1>7, <1>8, <1>9, <1>10, <1>11
  DEF StoreNext

\* Type correctness: no revision that is written is negative, and a
\* compare-and-set works on a record.
THEOREM StoreTypeCorrect == StoreSpec => []StoreTypeOK
<1>1. StoreTypeInv => StoreTypeOK
  BY DEF StoreTypeInv
<1> QED BY <1>1, StoreTypeInit, StoreTypeStep, PTL DEF StoreSpec

-----------------------------------------------------------------------------
(* One handle. *)

\* One client at most is inside the locked section.
OneInside ==
    \A c, d \in Clients : call[c].at \in Locked /\ call[d].at \in Locked => c = d

\* The record a client has read is the one in the table, or an older one.
SeenOK(c) ==
    call[c].at \in {"read", "swap"} /\ c \notin stale =>
        /\ rec # NoRecord
        /\ rec.rev >= call[c].seen.rev
        /\ rec.rev = call[c].seen.rev => rec = call[c].seen

\* What a client found out under the mutex is still true.
InsideOK(c) ==
    /\ call[c].at = "put" => call[c].rev = NextRevision(rec)
    /\ call[c].at = "swap" => Matches(rec, call[c].seen)

AckedOK == IF rec = NoRecord THEN acked = {} ELSE acked \subseteq rec.val

CasInv ==
    /\ OneInside
    /\ AckedOK
    /\ \A c \in Clients : SeenOK(c) /\ InsideOK(c)

\* A free mutex is free for all of them.
LEMMA NobodyInside ==
    ASSUME OneHandle, NEW c \in Clients, Free(c)
    PROVE  \A d \in Clients : call[d].at \notin Locked
BY DEF OneHandle, Free

\* A client that leaves its call.
LEMMA FinishKeeps ==
    ASSUME StoreTypeInv, CasInv, NEW c \in Clients, Finish(c),
           UNCHANGED <<rec, acked, stale>>
    PROVE  CasInv'
BY DEF StoreTypeInv, StoreTypeOK, CasInv, Finish, Goto, Idle, OneInside, Locked,
       AckedOK, SeenOK, InsideOK

\* A deletion that nobody is inside a locked section of.
LEMMA EraseKeeps ==
    ASSUME StoreTypeInv, NEW c \in Clients,
           \A d \in Clients : call[d].at \notin Locked,
           Erase, Finish(c) \/ UNCHANGED call
    PROVE  CasInv'
<1> USE DEF StoreTypeInv, StoreTypeOK
<1>1. \A d \in Clients : call'[d] = call[d] \/ call'[d].at = "idle"
  BY DEF Finish, Goto, Idle
<1>2. \A d \in Clients : call'[d].at \notin Locked
  BY <1>1 DEF Locked
<1>3. \A d \in Clients : call'[d].at \in {"read", "swap"} => d \in stale'
  BY <1>1 DEF Erase
<1>4. AckedOK' BY DEF AckedOK, Erase
<1> QED BY <1>2, <1>3, <1>4 DEF CasInv, OneInside, SeenOK, InsideOK, Locked

\* The client that is inside writes the next revision.
LEMMA WriteKeeps ==
    ASSUME StoreTypeInv, CasInv, NEW c \in Clients, call[c].at \in Locked,
           NEW v \in SUBSET Clients, NEW n \in Nat, n = NextRevision(rec),
           Write(n, v), Finish(c), acked' \subseteq v, stale' = stale
    PROVE  CasInv'
<1> USE DEF StoreTypeInv, StoreTypeOK
<1>1. rec' = [rev |-> n, val |-> v, at |-> clock] /\ rec' \in Record
  BY DEF Write, Record
<1>0. rec' # NoRecord
  BY <1>1, StoreAssumption
<1>2. \A d \in Clients : d # c => call'[d] = call[d] /\ call[d].at \notin Locked
  BY DEF CasInv, OneInside, Finish, Goto
<1>3. call'[c].at = "idle"
  BY DEF Finish, Goto, Idle
<1>4. AckedOK'
  BY <1>0, <1>1 DEF AckedOK
<1>5. ASSUME NEW d \in Clients PROVE SeenOK(d)'
  <2> SUFFICES ASSUME call'[d].at \in {"read", "swap"}, d \notin stale
               PROVE  /\ rec' # NoRecord
                      /\ rec'.rev >= call'[d].seen.rev
                      /\ rec'.rev = call'[d].seen.rev => rec' = call'[d].seen
    BY DEF SeenOK
  <2>1. d # c /\ call'[d] = call[d] BY <1>2, <1>3
  <2>2. rec # NoRecord /\ rec.rev >= call[d].seen.rev
    BY <2>1 DEF CasInv, SeenOK
  <2>3. call[d].seen.rev \in Nat BY <2>1 DEF ReadOK, Record
  <2>4. rec \in Record /\ n = rec.rev + 1 BY <2>2 DEF NextRevision
  <2>5. rec.rev \in Nat BY <2>4 DEF Record
  <2>6. rec'.rev > call[d].seen.rev BY <1>1, <2>2, <2>3, <2>4, <2>5
  <2> QED BY <1>0, <1>1, <2>1, <2>3, <2>6
<1>6. \A d \in Clients : call'[d].at \notin Locked
  BY <1>2, <1>3 DEF Locked
<1> QED BY <1>4, <1>5, <1>6 DEF CasInv, OneInside, InsideOK, Locked

\* Every step keeps the invariant when all clients share a handle.
LEMMA CasStep ==
    OneHandle /\ StoreTypeInv /\ CasInv /\ [StoreNext]_storeVars => CasInv'
<1> SUFFICES ASSUME OneHandle, StoreTypeInv, CasInv, [StoreNext]_storeVars
             PROVE  CasInv'
  OBVIOUS
<1> USE DEF StoreTypeInv, StoreTypeOK
<1>1. CASE UNCHANGED <<rec, call, acked, stale>>
  BY <1>1 DEF CasInv, OneInside, AckedOK, SeenOK, InsideOK
<1>2. ASSUME NEW c \in Clients, PutRead(c) PROVE CasInv'
  <2>1. \A d \in Clients : call[d].at \notin Locked
    BY <1>2, NobodyInside DEF PutRead
  <2>2. /\ call' = [call EXCEPT ![c] = [Idle EXCEPT !.at = "put",
                                                  !.rev = NextRevision(rec)]]
        /\ UNCHANGED <<rec, acked, stale>>
    BY <1>2 DEF PutRead, Goto
  <2> QED
    BY <2>1, <2>2
    DEF Idle, CasInv, OneInside, Locked, AckedOK, SeenOK, InsideOK
<1>3. ASSUME NEW c \in Clients, PutWrite(c) PROVE CasInv'
  <2>1. /\ call[c].at \in Locked
        /\ call[c].rev = NextRevision(rec) /\ call[c].rev \in Nat
    BY <1>3 DEF PutWrite, Locked, CasInv, InsideOK
  <2> QED BY <1>3, <2>1, WriteKeeps DEF PutWrite
<1>4. ASSUME NEW c \in Clients, GetRecord(c) PROVE CasInv'
  <2>1. /\ call' = [call EXCEPT ![c] = [Idle EXCEPT !.at = "read", !.seen = rec]]
        /\ rec # NoRecord /\ rec \in Record
        /\ stale' = stale \ {c}
        /\ UNCHANGED <<rec, acked>>
    BY <1>4 DEF GetRecord, Goto
  <2>2. rec.rev \in Nat BY <2>1 DEF Record
  <2>3. OneInside' /\ AckedOK'
    BY <2>1 DEF Idle, CasInv, OneInside, Locked, AckedOK
  <2>4. \A d \in Clients : InsideOK(d)'
    BY <2>1 DEF Idle, CasInv, InsideOK
  <2>5. \A d \in Clients : SeenOK(d)'
    BY <2>1, <2>2 DEF Idle, CasInv, SeenOK
  <2> QED BY <2>3, <2>4, <2>5 DEF CasInv
<1>5. ASSUME NEW c \in Clients, CasCheck(c) PROVE CasInv'
  <2>1. \A d \in Clients : call[d].at \notin Locked
    BY <1>5, NobodyInside DEF CasCheck
  <2>2. UNCHANGED <<rec, acked, stale>> /\ call[c].at = "read"
    BY <1>5 DEF CasCheck
  <2>3. CASE Matches(rec, call[c].seen)
    <3>1. call' = [call EXCEPT ![c] = [call[c] EXCEPT !.at = "swap"]]
      BY <1>5, <2>3 DEF CasCheck, Goto
    <3>2. OneInside' /\ AckedOK'
      BY <2>1, <2>2, <3>1 DEF CasInv, OneInside, AckedOK
    <3>3. \A d \in Clients : InsideOK(d)'
      BY <2>2, <2>3, <3>1 DEF CasInv, InsideOK
    <3>4. \A d \in Clients : SeenOK(d)'
      BY <2>2, <3>1 DEF CasInv, SeenOK
    <3> QED BY <3>2, <3>3, <3>4 DEF CasInv
  <2>4. CASE ~Matches(rec, call[c].seen)
    BY <1>5, <2>2, <2>4, FinishKeeps DEF CasCheck
  <2> QED BY <2>3, <2>4
<1>6. ASSUME NEW c \in Clients, CasWrite(c) PROVE CasInv'
  <2> DEFINE seen == call[c].seen
  <2>1. call[c].at = "swap" /\ call[c].at \in Locked
    BY <1>6 DEF CasWrite, Locked
  <2>2. Matches(rec, seen) BY <2>1 DEF CasInv, InsideOK
  <2>3. seen \in Record /\ rec \in Record /\ rec # NoRecord /\ rec.rev = seen.rev
    BY <2>1, <2>2 DEF Matches, ReadOK
  <2>4. /\ Write(seen.rev + 1, seen.val \union {c})
        /\ acked' = IF c \in stale THEN {c} ELSE acked \union {c}
        /\ Finish(c) /\ stale' = stale
    BY <1>6, <2>2, <2>3 DEF CasWrite
  <2>5. seen.rev + 1 \in Nat /\ seen.rev + 1 = NextRevision(rec)
        /\ seen.val \union {c} \in SUBSET Clients
    BY <2>3 DEF NextRevision, Record
  <2>6. acked' \subseteq seen.val \union {c}
    <3>1. CASE c \in stale BY <2>4, <3>1
    <3>2. CASE c \notin stale
      <4>1. rec = seen BY <2>1, <2>3, <3>2 DEF CasInv, SeenOK
      <4>2. acked \subseteq seen.val BY <2>3, <4>1 DEF CasInv, AckedOK
      <4> QED BY <2>4, <3>2, <4>2
    <3> QED BY <3>1, <3>2
  <2> QED BY <2>1, <2>4, <2>5, <2>6, WriteKeeps
<1>7. ASSUME NEW c \in Clients, GetExpired(c) PROVE CasInv'
  <2>1. /\ call' = [call EXCEPT ![c] = [Idle EXCEPT !.at = "expire"]]
        /\ UNCHANGED <<rec, acked, stale>>
    BY <1>7 DEF GetExpired, Goto
  <2> QED
    BY <2>1 DEF Idle, CasInv, OneInside, Locked, AckedOK, SeenOK, InsideOK
<1>8. ASSUME NEW c \in Clients, ExpireDelete(c) PROVE CasInv'
  BY <1>8, NobodyInside, EraseKeeps DEF ExpireDelete
<1>9. ASSUME NEW c \in Clients, Delete(c) PROVE CasInv'
  BY <1>9, NobodyInside, EraseKeeps DEF Delete
<1>10. ASSUME NEW c \in Clients, Abort(c) PROVE CasInv'
  BY <1>10, FinishKeeps DEF Abort
<1> QED
  BY <1>1, <1>2, <1>3, <1>4, <1>5, <1>6, <1>7, <1>8, <1>9, <1>10
  DEF StoreNext, StoreTick, storeVars

\* The invariant of the store: the handles are fixed when they are opened.
StoreInv == StoreTypeInv /\ (OneHandle => CasInv)

LEMMA StoreInvariant == StoreSpec => []StoreInv
<1>1. StoreInit => StoreInv
  <2> SUFFICES ASSUME StoreInit PROVE StoreInv
    OBVIOUS
  <2>1. CasInv
    BY DEF StoreInit, Idle, CasInv, OneInside, Locked, AckedOK, SeenOK, InsideOK
  <2> QED BY <2>1, StoreTypeInit DEF StoreInv
<1>2. StoreInv /\ [StoreNext]_storeVars => StoreInv'
  <2> SUFFICES ASSUME StoreInv, [StoreNext]_storeVars PROVE StoreInv'
    OBVIOUS
  <2>1. handleOf' = handleOf
    BY DEF StoreNext, StoreTick, PutRead, PutWrite, GetRecord, CasCheck, CasWrite,
           GetExpired, ExpireDelete, Delete, Abort, storeVars
  <2>2. OneHandle' <=> OneHandle
    BY <2>1 DEF OneHandle
  <2> QED BY <2>2, StoreTypeStep, CasStep DEF StoreInv
<1> QED BY <1>1, <1>2, PTL DEF StoreSpec

\* No lost update within a process: whatever threads that share a handle
\* write, swap, expire and delete, an acknowledged put_record_if_revision is
\* in the record until something takes the record's place.
THEOREM AcknowledgedKept == StoreSpec => []SharedHandleKeeps
<1>1. StoreInv => SharedHandleKeeps
  BY DEF StoreInv, CasInv, AckedOK, SharedHandleKeeps, AckedUpdatesKept
<1> QED BY <1>1, StoreInvariant, PTL

\* The revision stands for the record: a swap that takes effect replaces the
\* very record that was read, unless that was deleted in between.
THEOREM SwapsRead == StoreSpec => SwapsWhatWasRead
<1>1. ASSUME StoreInv, NEW c \in Clients, call[c].at = "swap", c \notin stale,
             OneHandle
      PROVE  rec = call[c].seen
  BY <1>1 DEF StoreInv, CasInv, SeenOK, InsideOK, Matches
<1>2. StoreInv =>
        [\A c \in Clients :
            /\ call[c].at = "swap" /\ rec' # rec /\ CasWrite(c)
            /\ c \notin stale
            /\ OneHandle
            => rec = call[c].seen]_storeVars
  BY <1>1
<1> QED BY <1>2, StoreInvariant, PTL DEF SwapsWhatWasRead
=============================================================================
