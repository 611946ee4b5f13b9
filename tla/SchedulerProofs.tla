--------------------------- MODULE SchedulerProofs --------------------------
(***************************************************************************)
(* Schedule recovery and idempotent enqueue, proved for any callers,        *)
(* handles, occurrences, policies and keys: an occurrence has one job, its  *)
(* link names that job, a key has one job, and the cursor passes over       *)
(* nothing.                                                                 *)
(***************************************************************************)
EXTENDS QueueScheduler, FiniteSetTheorems, TLAPS

-----------------------------------------------------------------------------
(* Finite sets of numbers. *)

\* A nonempty finite set of numbers has a least and a greatest element, and
\* Min and Max choose them.
LEMMA LeastAndGreatest ==
    ASSUME NEW S, S \subseteq Nat, IsFiniteSet(S), S # {}
    PROVE  /\ Min(S) \in S /\ \A x \in S : Min(S) <= x
           /\ Max(S) \in S /\ \A x \in S : x <= Max(S)
<1> DEFINE Bounded(T) == /\ \E x \in T : \A y \in T : x <= y
                         /\ \E x \in T : \A y \in T : y <= x
           Bad == {T \in FiniteSubsetsOf(S) : T # {} /\ ~Bounded(T)}
           R == StrictSubsetOrdering(S)
<1>1. Bad = {}
  <2> SUFFICES ASSUME Bad # {} PROVE FALSE
    OBVIOUS
  <2>1. IsWellFoundedOn(R, FiniteSubsetsOf(S))
    BY FS_StrictSubsetOrderingWellFounded
  <2>2. Bad \subseteq FiniteSubsetsOf(S)
    OBVIOUS
  <2>3. PICK T \in Bad : \A U \in Bad : ~(<<U, T>> \in R)
    <3> HIDE DEF Bad, R
    <3> QED BY <2>1, <2>2, WFMin
  <2>4. /\ T \in SUBSET S /\ IsFiniteSet(T) /\ T # {} /\ ~Bounded(T)
    BY <2>3 DEF FiniteSubsetsOf
  <2>5. PICK x \in T : TRUE
    BY <2>4
  <2> DEFINE U == T \ {x}
  <2>6. IsFiniteSet(U)
    BY <2>4, FS_RemoveElement
  <2>7. <<U, T>> \in R
    BY <2>4, <2>5 DEF StrictSubsetOrdering
  <2>8. U = {} \/ Bounded(U)
    BY <2>3, <2>4, <2>6, <2>7 DEF FiniteSubsetsOf
  <2>9. Bounded(T)
    <3>1. CASE U = {}
      <4>1. T = {x} BY <2>5, <3>1
      <4> QED BY <4>1, <2>4
    <3>2. CASE Bounded(U)
      <4>1. PICK l \in U : \A y \in U : l <= y BY <3>2
      <4>2. PICK g \in U : \A y \in U : y <= g BY <3>2
      <4>3. T \subseteq Nat /\ \A y \in T : y = x \/ y \in U BY <2>4
      <4>4. \E m \in T : \A y \in T : m <= y
        <5>1. CASE x <= l BY <4>1, <4>3, <5>1
        <5>2. CASE l <= x BY <4>1, <4>3, <5>2
        <5> QED BY <5>1, <5>2, <4>3
      <4>5. \E m \in T : \A y \in T : y <= m
        <5>1. CASE g <= x BY <4>2, <4>3, <5>1
        <5>2. CASE x <= g BY <4>2, <4>3, <5>2
        <5> QED BY <5>1, <5>2, <4>3
      <4> QED BY <4>4, <4>5
    <3> QED BY <2>8, <3>1, <3>2
  <2> QED BY <2>4, <2>9
<1>2. S \in FiniteSubsetsOf(S)
  BY DEF FiniteSubsetsOf
<1>3. Bounded(S)
  BY <1>1, <1>2
<1>4. /\ \E x \in S : \A y \in S : x =< y
      /\ \E x \in S : \A y \in S : x >= y
  BY <1>3
<1> QED BY <1>4 DEF Min, Max

-----------------------------------------------------------------------------
(* Type correctness. *)

\* What a caller's label says about its locals: an open caller has a handle, a
\* recovery in its loop has an occurrence at hand and only then any left, a
\* number that was fetched is an id, and an idempotent enqueue has its key.
LocalsOK ==
    \A p \in Procs :
        /\ pc[p] # "closed" => handle[p] \in Handles
        /\ pc[p] \in {"record", "enqueue", "link"} <=> due[p] # {}
        /\ pc[p] \in {"enqueue", "link", "insert", "reread"} => job[p] \in Ids
        /\ pc[p] \in {"insert", "reread"} => key[p] \in Keys

TypeInv == TypeOK /\ LocalsOK

\* The occurrence a recovery is at is one it has left to enqueue.
LEMMA CurrentIsDue ==
    ASSUME TypeInv, NEW p \in Procs, due[p] # {}
    PROVE  Current(p) \in due[p] /\ Current(p) \in FireTimes /\ Current(p) # 0
<1>1. due[p] \subseteq FireTimes
  BY DEF TypeInv, TypeOK
<1>2. IsFiniteSet(due[p]) /\ due[p] \subseteq Nat /\ 0 \notin due[p]
  BY <1>1, SchedulerAssumption, FS_Subset
<1>3. Min(due[p]) \in due[p]
  BY <1>2, LeastAndGreatest
<1> QED BY <1>1, <1>2, <1>3 DEF Current

\* The number a handle is seeded with.
LEMMA SeedType == Max(Used \union {0}) \in Nat
<1>1. IsFiniteSet(Ids) /\ Ids \subseteq Nat
  BY SchedulerAssumption, FS_Interval DEF Ids
<1>2. Used \subseteq Ids
  BY DEF Used
<1>3. IsFiniteSet(Used)
  BY <1>1, <1>2, FS_Subset
<1>4. IsFiniteSet(Used \union {0})
  BY <1>3, FS_AddElement
<1>5. Used \union {0} \subseteq Nat /\ Used \union {0} # {}
  BY <1>1, <1>2
<1> QED BY <1>4, <1>5, LeastAndGreatest

\* The occurrences a recovery finds missed, and the part its policy enqueues.
LEMMA MissedFacts ==
    ASSUME TypeInv, NEW n \in Nat, MissedFireTimes(sched, n) # {}
    PROVE  LET missed == MissedFireTimes(sched, n)
               todo == ToEnqueue(sched.policy, missed)
           IN  /\ missed \subseteq FireTimes
               /\ Max(missed) \in missed
               /\ \A f \in missed : f <= Max(missed)
               /\ todo \subseteq missed
<1> DEFINE missed == MissedFireTimes(sched, n)
<1>1. missed \subseteq FireTimes
  BY DEF MissedFireTimes, Earliest
<1>2. IsFiniteSet(missed) /\ missed \subseteq Nat /\ missed # {}
  BY <1>1, SchedulerAssumption, FS_Subset
<1>3. Max(missed) \in missed /\ \A f \in missed : f <= Max(missed)
  <2> HIDE DEF missed
  <2> QED BY <1>2, LeastAndGreatest
<1>4. sched.policy \in AllPolicies
  BY SchedulerAssumption DEF TypeInv, TypeOK, Schedule
<1>5. ToEnqueue(sched.policy, missed) \subseteq missed
  <2>1. CASE sched.policy = "skip_missed" BY <2>1 DEF ToEnqueue
  <2>2. CASE sched.policy = "fire_once_on_recovery" BY <2>2, <1>3 DEF ToEnqueue
  <2>3. CASE sched.policy = "enqueue_all_bounded" BY <2>3 DEF ToEnqueue
  <2> QED BY <1>4, <2>1, <2>2, <2>3 DEF AllPolicies
<1> QED BY <1>1, <1>3, <1>5

\* A stored schedule, no fires and closed callers are well typed.
LEMMA TypeInit == Init => TypeInv
<1> SUFFICES ASSUME Init PROVE TypeInv
  OBVIOUS
<1> USE SchedulerAssumption DEF Init
<1>1. NoRow \in Row
  BY DEF NoRow, Row
<1>2. sched \in Schedule
  BY DEF Schedule
<1>3. TypeOK
  BY <1>1, <1>2 DEF TypeOK, PC
<1>4. LocalsOK
  BY DEF LocalsOK
<1> QED BY <1>3, <1>4 DEF TypeInv

\* A call that returns leaves nothing behind.
LEMMA ReturnType ==
    ASSUME TypeInv, NEW p \in Procs, NEW l \in {"idle", "closed"}, Return(p, l)
    PROVE  /\ pc' \in [Procs -> PC] /\ job' \in [Procs -> {0} \union Ids]
           /\ t' \in [Procs -> Nat] /\ mark' \in [Procs -> Nat]
           /\ due' \in [Procs -> SUBSET FireTimes] /\ key' \in [Procs -> Keys \union {NoKey}]
           /\ pc'[p] = l /\ due'[p] = {}
           /\ \A q \in Procs \ {p} : /\ pc'[q] = pc[q] /\ job'[q] = job[q]
                                    /\ due'[q] = due[q] /\ key'[q] = key[q]
                                    /\ mark'[q] = mark[q]
<1>1. l \in PC
  BY DEF PC
<1> QED BY <1>1 DEF Return, Goto, TypeInv, TypeOK

\* Every step keeps the types.
LEMMA TypeStep == TypeInv /\ [Next]_vars => TypeInv'
<1> SUFFICES ASSUME TypeInv, [Next]_vars PROVE TypeInv'
  OBVIOUS
<1> USE SchedulerAssumption DEF TypeInv, tables, locals, history
<1>0. /\ {"idle", "closed", "list", "record", "enqueue", "link", "mark", "insert",
          "reread"} \subseteq PC
      /\ \A f \in FireTimes : [fire |-> f, key |-> NoKey] \in Row
      /\ \A k \in Keys : [fire |-> 0, key |-> k] \in Row
      /\ sched \in Schedule
  BY DEF PC, Row, TypeOK
<1>1. CASE Tick
  BY <1>1 DEF Tick, TypeOK, LocalsOK
<1>2. ASSUME NEW p \in Procs, NEW h \in Handles, Open(p, h) PROVE TypeInv'
  <2>1. nextId' \in [Handles -> Nat]
    BY <1>2, SeedType DEF Open, TypeOK
  <2>2. pc' \in [Procs -> PC] /\ handle' \in [Procs -> Handles \union {NoHandle}]
    BY <1>2, <1>0 DEF Open, Goto, TypeOK
  <2>3. TypeOK'
    BY <1>2, <2>1, <2>2 DEF Open, TypeOK
  <2>4. LocalsOK'
    BY <1>2 DEF Open, Goto, TypeOK, LocalsOK
  <2> QED BY <2>3, <2>4
<1>3. ASSUME NEW p \in Procs, Stop(p) PROVE TypeInv'
  <2>1. Return(p, "closed") /\ handle' = [handle EXCEPT ![p] = NoHandle]
        /\ UNCHANGED <<tables, history>>
    BY <1>3 DEF Stop
  <2>2. nextId' \in [Handles -> Nat]
    BY <1>3 DEF Stop, TypeOK
  <2>3. TypeOK'
    BY <2>1, <2>2, ReturnType DEF TypeOK
  <2>4. LocalsOK'
    BY <2>1, ReturnType DEF TypeOK, LocalsOK
  <2> QED BY <2>3, <2>4
<1>4. ASSUME NEW p \in Procs, NEW q \in Policies, UpsertSchedule(p, q) PROVE TypeInv'
  <2>1. sched' \in Schedule
    BY <1>4, <1>0 DEF UpsertSchedule, Schedule
  <2> QED BY <1>4, <2>1 DEF UpsertSchedule, TypeOK, LocalsOK
<1>5. ASSUME NEW p \in Procs, StartRecovery(p) PROVE TypeInv'
  BY <1>5, <1>0 DEF StartRecovery, Goto, TypeOK, LocalsOK
<1>6. ASSUME NEW p \in Procs, ListSchedules(p) PROVE TypeInv'
  <2> DEFINE missed == MissedFireTimes(sched, t[p])
             todo == ToEnqueue(sched.policy, missed)
  <2>1. t[p] \in Nat /\ sched.fired \in Nat /\ pc[p] = "list" /\ due[p] = {}
    BY <1>6, <1>0 DEF ListSchedules, TypeOK, Schedule, LocalsOK
  <2>2. UNCHANGED <<tables, nextId, handle, job, t, key, replies>>
    BY <1>6 DEF ListSchedules
  <2>3. CASE missed = {}
    <3>1. /\ Goto(p, "mark") /\ mark' = [mark EXCEPT ![p] = sched.fired]
          /\ UNCHANGED <<due, waived>>
      BY <1>6, <2>3 DEF ListSchedules
    <3>2. TypeOK' BY <3>1, <2>1, <2>2, <1>0 DEF Goto, TypeOK
    <3>3. LocalsOK' BY <3>1, <2>1, <2>2 DEF Goto, TypeOK, LocalsOK
    <3> QED BY <3>2, <3>3
  <2>4. CASE missed # {}
    <3>1. /\ Goto(p, IF todo = {} THEN "mark" ELSE "record")
          /\ mark' = [mark EXCEPT ![p] = Max(missed)]
          /\ due' = [due EXCEPT ![p] = todo]
          /\ waived' = waived \union (missed \ todo)
      BY <1>6, <2>4 DEF ListSchedules
    <3>2. missed \subseteq FireTimes /\ Max(missed) \in missed /\ todo \subseteq missed
      BY <2>1, <2>4, MissedFacts
    <3> HIDE DEF missed, todo
    <3>3. Max(missed) \in Nat BY <3>2
    <3>4. TypeOK' BY <3>1, <3>2, <3>3, <2>2, <1>0 DEF Goto, TypeOK
    <3>5. LocalsOK' BY <3>1, <2>1, <2>2 DEF Goto, TypeOK, LocalsOK
    <3> QED BY <3>4, <3>5
  <2> QED BY <2>3, <2>4
<1>a. ASSUME NEW p \in Procs, FetchId(p), handle[p] \in Handles
      PROVE  /\ nextId' \in [Handles -> Nat]
             /\ job' \in [Procs -> {0} \union Ids]
             /\ job'[p] \in Ids
             /\ \A q \in Procs \ {p} : job'[q] = job[q]
  <2>1. nextId[handle[p]] \in Nat /\ nextId[handle[p]] + 1 \in Ids
    BY <1>a DEF FetchId, TypeOK, Ids
  <2> QED BY <1>a, <2>1 DEF FetchId, TypeOK
<1>b. ASSUME NEW p \in Procs, NextFire(p), due[p] # {}
      PROVE  /\ due' \in [Procs -> SUBSET FireTimes] /\ pc' \in [Procs -> PC]
             /\ pc'[p] \in {"record", "mark"}
             /\ pc'[p] = "record" <=> due'[p] # {}
             /\ \A q \in Procs \ {p} : pc'[q] = pc[q] /\ due'[q] = due[q]
  <2>1. Current(p) \in due[p] BY <1>b, CurrentIsDue
  <2> QED BY <1>b, <2>1, <1>0 DEF NextFire, Goto, TypeOK
<1>7. ASSUME NEW p \in Procs, RecordFire(p) PROVE TypeInv'
  <2>1. /\ pc[p] = "record" /\ due[p] # {} /\ handle[p] \in Handles
        /\ fires' = fires \union {Current(p)}
        /\ UNCHANGED <<now, sched, link, rows, handle, t, mark, key, history>>
    BY <1>7 DEF RecordFire, LocalsOK
  <2>2. fires' \subseteq FireTimes
    BY <2>1, CurrentIsDue DEF TypeOK
  <2>3. CASE Current(p) \in fires
    <3>1. NextFire(p) /\ UNCHANGED <<nextId, job>> BY <1>7, <2>3 DEF RecordFire
    <3>2. TypeOK' BY <3>1, <2>1, <2>2, <1>b DEF TypeOK
    <3>3. LocalsOK' BY <3>1, <2>1, <1>b DEF LocalsOK
    <3> QED BY <3>2, <3>3
  <2>4. CASE Current(p) \notin fires
    <3>1. FetchId(p) /\ Goto(p, "enqueue") /\ UNCHANGED due
      BY <1>7, <2>4 DEF RecordFire
    <3>2. pc' \in [Procs -> PC] /\ pc'[p] = "enqueue"
          /\ \A q \in Procs \ {p} : pc'[q] = pc[q]
      BY <3>1, <1>0 DEF Goto, TypeOK
    <3>3. TypeOK' BY <3>1, <3>2, <2>1, <2>2, <1>a DEF TypeOK
    <3>4. LocalsOK' BY <3>1, <3>2, <2>1, <1>a DEF LocalsOK
    <3> QED BY <3>3, <3>4
  <2> QED BY <2>3, <2>4
<1>8. ASSUME NEW p \in Procs, EnqueueFire(p) PROVE TypeInv'
  <2>1. /\ pc[p] = "enqueue" /\ due[p] # {} /\ job[p] \in Ids
        /\ UNCHANGED <<now, sched, fires, link, nextId, handle, history>>
    BY <1>8 DEF EnqueueFire, LocalsOK
  <2>2. CASE rows[job[p]] = NoRow
    <3>1. /\ rows' = [rows EXCEPT ![job[p]] = [fire |-> Current(p), key |-> NoKey]]
          /\ Goto(p, "link") /\ UNCHANGED <<job, t, mark, due, key>>
      BY <1>8, <2>2 DEF EnqueueFire
    <3>2. rows' \in [Ids -> Row]
      BY <3>1, <2>1, <1>0, CurrentIsDue DEF TypeOK
    <3>3. TypeOK' BY <3>1, <3>2, <2>1, <1>0 DEF Goto, TypeOK
    <3>4. LocalsOK' BY <3>1, <2>1 DEF Goto, TypeOK, LocalsOK
    <3> QED BY <3>3, <3>4
  <2>3. CASE rows[job[p]] # NoRow
    <3>1. Return(p, "idle") /\ UNCHANGED rows
      BY <1>8, <2>3 DEF EnqueueFire
    <3>2. TypeOK' BY <3>1, <2>1, ReturnType DEF TypeOK
    <3>3. LocalsOK' BY <3>1, <2>1, ReturnType DEF LocalsOK
    <3> QED BY <3>2, <3>3
  <2> QED BY <2>2, <2>3
<1>9. ASSUME NEW p \in Procs, LinkFire(p) PROVE TypeInv'
  <2>1. /\ pc[p] = "link" /\ due[p] # {} /\ job[p] \in Ids /\ NextFire(p)
        /\ link' = [link EXCEPT ![Current(p)] = job[p]]
        /\ job' = [job EXCEPT ![p] = 0]
        /\ UNCHANGED <<now, sched, fires, rows, nextId, handle, t, mark, key, history>>
    BY <1>9 DEF LinkFire, LocalsOK
  <2>2. link' \in [FireTimes -> {0} \union Ids] /\ job' \in [Procs -> {0} \union Ids]
        /\ \A q \in Procs \ {p} : job'[q] = job[q]
    BY <2>1, CurrentIsDue DEF TypeOK
  <2>3. TypeOK' BY <2>1, <2>2, <1>b DEF TypeOK
  <2>4. LocalsOK' BY <2>1, <2>2, <1>b DEF LocalsOK
  <2> QED BY <2>3, <2>4
<1>10. ASSUME NEW p \in Procs, MarkChecked(p) PROVE TypeInv'
  <2>1. /\ pc[p] = "mark" /\ Return(p, "idle")
        /\ UNCHANGED <<now, fires, link, rows, nextId, handle, history>>
    BY <1>10 DEF MarkChecked
  <2>2. sched' \in Schedule
    BY <1>10, <1>0 DEF MarkChecked, Schedule, TypeOK
  <2>3. TypeOK' BY <2>1, <2>2, ReturnType DEF TypeOK
  <2>4. LocalsOK' BY <2>1, ReturnType DEF LocalsOK
  <2> QED BY <2>3, <2>4
<1>c. ASSUME NEW k \in Keys, NEW I, Reply(k, I), I \subseteq Ids
      PROVE  replies' \in [Keys -> SUBSET Ids]
  BY <1>c DEF Reply, TypeOK
<1>d. \A k : HasKey(k) \subseteq Ids
  BY DEF HasKey
<1>11. ASSUME NEW p \in Procs, NEW k \in Keys, LookupKey(p, k) PROVE TypeInv'
  <2>1. /\ pc[p] = "idle" /\ handle[p] \in Handles
        /\ UNCHANGED <<tables, handle, t, mark, due, waived>>
    BY <1>11 DEF LookupKey, LocalsOK
  <2>2. CASE HasKey(k) # {}
    <3>1. Reply(k, HasKey(k)) /\ UNCHANGED <<pc, key, nextId, job>>
      BY <1>11, <2>2 DEF LookupKey
    <3>2. replies' \in [Keys -> SUBSET Ids] BY <3>1, <1>c, <1>d
    <3> QED BY <3>1, <3>2, <2>1 DEF TypeOK, LocalsOK
  <2>3. CASE HasKey(k) = {}
    <3>1. /\ FetchId(p) /\ Goto(p, "insert") /\ key' = [key EXCEPT ![p] = k]
          /\ UNCHANGED replies
      BY <1>11, <2>3 DEF LookupKey
    <3>2. /\ pc' \in [Procs -> PC] /\ pc'[p] = "insert"
          /\ key' \in [Procs -> Keys \union {NoKey}] /\ key'[p] = k
          /\ \A q \in Procs \ {p} : pc'[q] = pc[q] /\ key'[q] = key[q]
      BY <3>1, <1>0 DEF Goto, TypeOK
    <3>3. TypeOK' BY <3>1, <3>2, <2>1, <1>a DEF TypeOK
    <3>4. LocalsOK' BY <3>1, <3>2, <2>1, <1>a DEF LocalsOK
    <3> QED BY <3>3, <3>4
  <2> QED BY <2>2, <2>3
<1>12. ASSUME NEW p \in Procs, InsertKey(p) PROVE TypeInv'
  <2>1. /\ pc[p] = "insert" /\ job[p] \in Ids /\ key[p] \in Keys
        /\ UNCHANGED <<now, sched, fires, link, nextId, handle, waived>>
    BY <1>12 DEF InsertKey, LocalsOK
  <2>2. CASE InsertRejected(job[p], key[p])
    <3>1. Goto(p, "reread") /\ UNCHANGED <<rows, job, t, mark, due, key, replies>>
      BY <1>12, <2>2 DEF InsertKey
    <3> QED BY <3>1, <2>1, <1>0 DEF Goto, TypeOK, LocalsOK
  <2>3. CASE ~InsertRejected(job[p], key[p])
    <3>1. /\ rows' = [rows EXCEPT ![job[p]] = [fire |-> 0, key |-> key[p]]]
          /\ Reply(key[p], {job[p]}) /\ Return(p, "idle")
      BY <1>12, <2>3 DEF InsertKey
    <3>2. rows' \in [Ids -> Row] BY <3>1, <2>1, <1>0 DEF TypeOK
    <3>3. replies' \in [Keys -> SUBSET Ids] BY <3>1, <2>1, <1>c
    <3>4. TypeOK' BY <3>1, <3>2, <3>3, <2>1, ReturnType DEF TypeOK
    <3>5. LocalsOK' BY <3>1, <2>1, ReturnType DEF LocalsOK
    <3> QED BY <3>4, <3>5
  <2> QED BY <2>2, <2>3
<1>13. ASSUME NEW p \in Procs, RereadKey(p) PROVE TypeInv'
  <2>1. /\ pc[p] = "reread" /\ key[p] \in Keys
        /\ Reply(key[p], HasKey(key[p])) /\ Return(p, "idle")
        /\ UNCHANGED <<tables, nextId, handle, waived>>
    BY <1>13 DEF RereadKey, LocalsOK
  <2>2. replies' \in [Keys -> SUBSET Ids] BY <2>1, <1>c, <1>d
  <2>3. TypeOK' BY <2>1, <2>2, ReturnType DEF TypeOK
  <2>4. LocalsOK' BY <2>1, ReturnType DEF LocalsOK
  <2> QED BY <2>3, <2>4
<1>14. CASE UNCHANGED vars
  BY <1>14 DEF vars, TypeOK, LocalsOK
<1> QED
  BY <1>1, <1>2, <1>3, <1>4, <1>5, <1>6, <1>7, <1>8, <1>9, <1>10, <1>11, <1>12,
     <1>13, <1>14
  DEF Next, ProcNext

\* Type correctness: whatever the callers do, the tables hold rows the parsers
\* accept, and a fire's job_id is an id that was handed out.
THEOREM SchedulerTypeCorrect == Spec => []TypeOK
<1>1. Spec => []TypeInv
  BY TypeInit, TypeStep, PTL DEF Spec
<1>2. TypeInv => TypeOK
  BY DEF TypeInv
<1> QED BY <1>1, <1>2, PTL

-----------------------------------------------------------------------------
(* One job per occurrence, one job per key. *)

\* Who may enqueue an occurrence: the one caller whose insert into the fires
\* table was not ignored, and only until its job is in the table.
FireInv ==
    /\ \A i \in Ids : rows[i].fire # 0 => rows[i].fire \in fires
    /\ \A i, k \in Ids : rows[i].fire = rows[k].fire /\ rows[i].fire # 0 => i = k
    /\ \A p \in Procs : pc[p] = "enqueue" =>
          Current(p) \in fires /\ \A i \in Ids : rows[i].fire # Current(p)
    /\ \A p, q \in Procs :
          pc[p] = "enqueue" /\ pc[q] = "enqueue" /\ Current(p) = Current(q) => p = q
    /\ \A p \in Procs : pc[p] = "link" =>
          rows[job[p]] = [fire |-> Current(p), key |-> NoKey]

\* A key has one row, and every caller was given its id.
KeyInv ==
    \A k \in Keys :
        /\ \A i, j \in HasKey(k) : i = j
        /\ replies[k] \subseteq HasKey(k)

QueueInv == TypeInv /\ FireInv /\ LinksAgree /\ KeyInv

\* Steps that insert no row, record no fire and write no link keep what is
\* said of occurrences, when they bring no caller to the enqueue or the link.
LEMMA NothingInserted ==
    ASSUME FireInv, LinksAgree, UNCHANGED <<fires, rows, link>>,
           \A p \in Procs : pc'[p] \in {"enqueue", "link"} =>
               pc'[p] = pc[p] /\ due'[p] = due[p] /\ job'[p] = job[p]
    PROVE  FireInv' /\ LinksAgree'
<1>1. FireInv'
  BY DEF FireInv, Current
<1>2. LinksAgree'
  BY DEF LinksAgree
<1> QED BY <1>1, <1>2

\* Steps that insert no row and reply nothing, or the row of the key.
LEMMA OldReplies ==
    ASSUME TypeInv, KeyInv, UNCHANGED rows,
           UNCHANGED replies \/ \E k \in Keys : Reply(k, HasKey(k))
    PROVE  KeyInv'
  BY DEF KeyInv, HasKey, Reply, TypeInv, TypeOK

\* A step that inserts a row for an occurrence keeps what is said of keys.
LEMMA FireRowHasNoKey ==
    ASSUME TypeInv, KeyInv, UNCHANGED replies,
           NEW i \in Ids, NEW f, rows[i] = NoRow,
           rows' = [rows EXCEPT ![i] = [fire |-> f, key |-> NoKey]]
    PROVE  KeyInv'
<1>1. \A k \in Keys : HasKey(k)' = HasKey(k)
  BY SchedulerAssumption DEF HasKey, TypeInv, TypeOK, NoRow
<1> QED BY <1>1 DEF KeyInv

\* Every step keeps the invariant.
LEMMA QueueStep == QueueInv /\ [Next]_vars => QueueInv'
<1> SUFFICES ASSUME QueueInv, [Next]_vars PROVE QueueInv'
  OBVIOUS
<1> USE DEF QueueInv, tables, locals, history
<1>0. TypeInv'
  BY TypeStep
<1>1. CASE Tick
  <2>1. KeyInv' BY <1>1, OldReplies DEF Tick
  <2> QED BY <1>0, <1>1, <2>1, NothingInserted DEF Tick
<1>2. ASSUME NEW p \in Procs, NEW h \in Handles, Open(p, h) PROVE QueueInv'
  <2>1. KeyInv' BY <1>2, OldReplies DEF Open
  <2>2. \A q \in Procs : pc'[q] \in {"enqueue", "link"} => pc'[q] = pc[q]
    BY <1>2 DEF Open, Goto, TypeInv, TypeOK
  <2> QED BY <1>0, <1>2, <2>1, <2>2, NothingInserted DEF Open
<1>a. ASSUME NEW p \in Procs, NEW l \in {"idle", "closed"}, Return(p, l),
             UNCHANGED <<fires, rows, link>>
      PROVE  FireInv' /\ LinksAgree'
  <2>1. \A q \in Procs : pc'[q] \in {"enqueue", "link"} =>
            pc'[q] = pc[q] /\ due'[q] = due[q] /\ job'[q] = job[q]
    BY <1>a, ReturnType
  <2> QED BY <1>a, <2>1, NothingInserted
<1>3. ASSUME NEW p \in Procs, Stop(p) PROVE QueueInv'
  <2>1. KeyInv' BY <1>3, OldReplies DEF Stop
  <2> QED BY <1>0, <1>3, <1>a, <2>1 DEF Stop
<1>4. ASSUME NEW p \in Procs, NEW q \in Policies, UpsertSchedule(p, q) PROVE QueueInv'
  <2>1. KeyInv' BY <1>4, OldReplies DEF UpsertSchedule
  <2> QED BY <1>0, <1>4, <2>1, NothingInserted DEF UpsertSchedule
<1>5. ASSUME NEW p \in Procs, StartRecovery(p) PROVE QueueInv'
  <2>1. KeyInv' BY <1>5, OldReplies DEF StartRecovery
  <2>2. \A q \in Procs : pc'[q] \in {"enqueue", "link"} => pc'[q] = pc[q]
    BY <1>5 DEF StartRecovery, Goto, TypeInv, TypeOK
  <2> QED BY <1>0, <1>5, <2>1, <2>2, NothingInserted DEF StartRecovery
<1>6. ASSUME NEW p \in Procs, ListSchedules(p) PROVE QueueInv'
  <2>1. KeyInv' BY <1>6, OldReplies DEF ListSchedules
  <2>2. \A q \in Procs : pc'[q] \in {"enqueue", "link"} =>
            pc'[q] = pc[q] /\ due'[q] = due[q]
    BY <1>6 DEF ListSchedules, Goto, TypeInv, TypeOK
  <2>3. UNCHANGED <<fires, rows, link, job>>
    BY <1>6 DEF ListSchedules
  <2> QED BY <1>0, <2>1, <2>2, <2>3, NothingInserted
<1>7. ASSUME NEW p \in Procs, RecordFire(p) PROVE QueueInv'
  <2>1. /\ pc[p] = "record" /\ due[p] # {} /\ fires' = fires \union {Current(p)}
        /\ UNCHANGED <<link, rows, history>>
    BY <1>7 DEF RecordFire, TypeInv, LocalsOK
  <2>2. KeyInv' BY <2>1, OldReplies
  <2>3. LinksAgree' BY <2>1 DEF LinksAgree
  <2>4. CASE Current(p) \in fires
    <3>1. UNCHANGED fires /\ NextFire(p) /\ UNCHANGED job
      BY <1>7, <2>1, <2>4 DEF RecordFire
    <3>2. \A q \in Procs : pc'[q] \in {"enqueue", "link"} =>
              pc'[q] = pc[q] /\ due'[q] = due[q]
      BY <3>1 DEF NextFire, Goto, TypeInv, TypeOK
    <3> QED BY <1>0, <2>1, <2>2, <3>1, <3>2, NothingInserted
  <2>5. CASE Current(p) \notin fires
    <3>1. /\ UNCHANGED due /\ pc' = [pc EXCEPT ![p] = "enqueue"]
          /\ \A q \in Procs \ {p} : job'[q] = job[q]
      BY <1>7, <2>5 DEF RecordFire, FetchId, Goto, TypeInv, TypeOK
    <3>2. Current(p) # 0 BY <2>1, CurrentIsDue
    <3>3. \A q \in Procs : Current(q)' = Current(q) BY <3>1 DEF Current
    <3>4. pc'[p] = "enqueue" /\ \A q \in Procs \ {p} : pc'[q] = pc[q]
      BY <3>1 DEF TypeInv, TypeOK
    <3>5. FireInv'
      BY <2>1, <2>5, <3>1, <3>2, <3>3, <3>4 DEF FireInv
    <3> QED BY <1>0, <2>2, <2>3, <3>5
  <2> QED BY <2>4, <2>5
<1>8. ASSUME NEW p \in Procs, EnqueueFire(p) PROVE QueueInv'
  <2>1. /\ pc[p] = "enqueue" /\ due[p] # {} /\ job[p] \in Ids
        /\ UNCHANGED <<fires, link, history>>
    BY <1>8 DEF EnqueueFire, TypeInv, LocalsOK
  <2>2. CASE rows[job[p]] = NoRow
    <3>1. /\ rows' = [rows EXCEPT ![job[p]] = [fire |-> Current(p), key |-> NoKey]]
          /\ pc' = [pc EXCEPT ![p] = "link"] /\ UNCHANGED <<job, due>>
      BY <1>8, <2>2 DEF EnqueueFire, Goto
    <3>2. KeyInv' BY <2>1, <2>2, <3>1, FireRowHasNoKey
    <3>3. /\ rows'[job[p]] = [fire |-> Current(p), key |-> NoKey]
          /\ \A i \in Ids \ {job[p]} : rows'[i] = rows[i]
          /\ pc'[p] = "link" /\ \A q \in Procs \ {p} : pc'[q] = pc[q]
          /\ \A q \in Procs : Current(q)' = Current(q)
      BY <2>1, <3>1 DEF TypeInv, TypeOK, Current
    <3>4. LinksAgree'
      <4> SUFFICES ASSUME NEW f \in FireTimes, link[f] # 0
                   PROVE  rows'[link[f]] = [fire |-> f, key |-> NoKey]
        BY <2>1 DEF LinksAgree
      <4>1. rows[link[f]] = [fire |-> f, key |-> NoKey] /\ link[f] \in Ids
        BY DEF LinksAgree, TypeInv, TypeOK
      <4>2. rows[link[f]] # NoRow BY <4>1, SchedulerAssumption DEF NoRow
      <4> QED BY <4>1, <4>2, <2>2, <3>3
    <3>5. FireInv'
      <4>1. Current(p) # 0 /\ rows[job[p]].fire = 0 /\ NoRow.fire = 0
        BY <2>1, <2>2, CurrentIsDue DEF NoRow
      <4>2. \A q \in Procs : pc[q] = "link" => job[q] \in Ids /\ job[q] # job[p]
        <5> SUFFICES ASSUME NEW q \in Procs, pc[q] = "link"
                     PROVE  job[q] \in Ids /\ job[q] # job[p]
          OBVIOUS
        <5>0. rows[job[q]] = [fire |-> Current(q), key |-> NoKey] BY DEF FireInv
        <5>1. rows[job[q]].fire = Current(q) BY <5>0
        <5>2. due[q] # {} /\ job[q] \in Ids BY DEF TypeInv, LocalsOK
        <5>3. Current(q) # 0 BY <5>2, CurrentIsDue
        <5> QED BY <5>1, <5>2, <5>3, <4>1
      <4>3. /\ \A i \in Ids : rows[i].fire # 0 => rows[i].fire \in fires
            /\ \A i, k \in Ids : rows[i].fire = rows[k].fire /\ rows[i].fire # 0 => i = k
            /\ \A q \in Procs : pc[q] = "enqueue" =>
                  Current(q) \in fires /\ \A i \in Ids : rows[i].fire # Current(q)
            /\ \A q \in Procs : pc[q] = "enqueue" /\ Current(q) = Current(p) => q = p
        BY <2>1 DEF FireInv
      <4>4. rows'[job[p]].fire = Current(p)
        BY <3>3
      <4>5. \A i \in Ids : rows'[i].fire # 0 => rows'[i].fire \in fires'
        BY <2>1, <3>3, <4>3, <4>4
      <4>6. \A i, k \in Ids : rows'[i].fire = rows'[k].fire /\ rows'[i].fire # 0 => i = k
        BY <2>1, <3>3, <4>3, <4>4
      <4>7. \A q \in Procs : pc'[q] = "enqueue" =>
              /\ q # p /\ Current(q) \in fires'
              /\ \A i \in Ids : rows'[i].fire # Current(q)
        BY <2>1, <3>3, <4>3, <4>4
      <4>8. \A q \in Procs : pc'[q] = "link" =>
              rows'[job'[q]] = [fire |-> Current(q), key |-> NoKey]
        BY <2>1, <3>1, <3>3, <4>2 DEF FireInv
      <4> QED BY <3>3, <4>5, <4>6, <4>7, <4>8 DEF FireInv
    <3> QED BY <1>0, <3>2, <3>4, <3>5
  <2>3. CASE rows[job[p]] # NoRow
    <3>1. Return(p, "idle") /\ UNCHANGED rows BY <1>8, <2>3 DEF EnqueueFire
    <3>2. KeyInv' BY <2>1, <3>1, OldReplies
    <3> QED BY <1>0, <1>a, <2>1, <3>1, <3>2
  <2> QED BY <2>2, <2>3
<1>9. ASSUME NEW p \in Procs, LinkFire(p) PROVE QueueInv'
  <2>1. /\ pc[p] = "link" /\ due[p] # {} /\ NextFire(p)
        /\ link' = [link EXCEPT ![Current(p)] = job[p]]
        /\ job' = [job EXCEPT ![p] = 0]
        /\ UNCHANGED <<fires, rows, history>>
    BY <1>9 DEF LinkFire, TypeInv, LocalsOK
  <2>2. KeyInv' BY <2>1, OldReplies
  <2>3. rows[job[p]] = [fire |-> Current(p), key |-> NoKey]
    BY <2>1 DEF FireInv
  <2>4. LinksAgree'
    BY <2>1, <2>3, CurrentIsDue DEF LinksAgree, TypeInv, TypeOK
  <2>5. \A q \in Procs : pc'[q] \in {"enqueue", "link"} =>
            pc'[q] = pc[q] /\ due'[q] = due[q] /\ job'[q] = job[q]
    BY <2>1 DEF NextFire, Goto, TypeInv, TypeOK
  <2>6. FireInv'
    BY <2>1, <2>5 DEF FireInv, Current
  <2> QED BY <1>0, <2>2, <2>4, <2>6
<1>10. ASSUME NEW p \in Procs, MarkChecked(p) PROVE QueueInv'
  <2>1. KeyInv' BY <1>10, OldReplies DEF MarkChecked
  <2> QED BY <1>0, <1>10, <1>a, <2>1 DEF MarkChecked
<1>11. ASSUME NEW p \in Procs, NEW k \in Keys, LookupKey(p, k) PROVE QueueInv'
  <2>1. KeyInv' BY <1>11, OldReplies DEF LookupKey
  <2>2. UNCHANGED <<fires, rows, link, due>> /\ pc[p] = "idle"
    BY <1>11 DEF LookupKey
  <2>3. \A q \in Procs : pc'[q] \in {"enqueue", "link"} =>
            pc'[q] = pc[q] /\ job'[q] = job[q]
    BY <1>11 DEF LookupKey, FetchId, Goto, TypeInv, TypeOK
  <2> QED BY <1>0, <2>1, <2>2, <2>3, NothingInserted
<1>12. ASSUME NEW p \in Procs, InsertKey(p) PROVE QueueInv'
  <2>1. /\ pc[p] = "insert" /\ job[p] \in Ids /\ key[p] \in Keys
        /\ UNCHANGED <<fires, link>>
    BY <1>12 DEF InsertKey, TypeInv, LocalsOK
  <2>2. CASE InsertRejected(job[p], key[p])
    <3>1. pc' = [pc EXCEPT ![p] = "reread"] /\ UNCHANGED <<rows, job, due, replies>>
      BY <1>12, <2>2 DEF InsertKey, Goto
    <3>2. KeyInv' BY <3>1, OldReplies
    <3>3. \A q \in Procs : pc'[q] \in {"enqueue", "link"} => pc'[q] = pc[q]
      BY <3>1 DEF TypeInv, TypeOK
    <3> QED BY <1>0, <2>1, <3>1, <3>2, <3>3, NothingInserted
  <2>3. CASE ~InsertRejected(job[p], key[p])
    <3>1. /\ rows' = [rows EXCEPT ![job[p]] = [fire |-> 0, key |-> key[p]]]
          /\ replies' = [replies EXCEPT ![key[p]] = @ \union {job[p]}]
          /\ Return(p, "idle")
          /\ rows[job[p]] = NoRow /\ HasKey(key[p]) = {}
      BY <1>12, <2>3 DEF InsertKey, InsertRejected, Reply
    <3>2. /\ rows'[job[p]] = [fire |-> 0, key |-> key[p]]
          /\ \A i \in Ids \ {job[p]} : rows'[i] = rows[i]
          /\ rows[job[p]].fire = 0 /\ rows[job[p]].key = NoKey
      BY <2>1, <3>1 DEF TypeInv, TypeOK, NoRow
    <3>3. KeyInv'
      <4>1. \A k \in Keys \ {key[p]} : HasKey(k)' = HasKey(k) /\ replies'[k] = replies[k]
        BY <2>1, <3>1, <3>2, SchedulerAssumption DEF HasKey, TypeInv, TypeOK
      <4>2. \A k \in Keys : k = key[p] => HasKey(k)' = {job[p]} /\ replies[k] = {}
        <5> SUFFICES ASSUME NEW k \in Keys, k = key[p]
                     PROVE  HasKey(k)' = {job[p]} /\ replies[k] = {}
          OBVIOUS
        <5>1. HasKey(k)' = {i \in Ids : rows'[i].key = k}
          BY DEF HasKey
        <5>2. \A i \in Ids : rows[i].key # k BY <3>1 DEF HasKey
        <5>3. {i \in Ids : rows'[i].key = k} = {job[p]}
          BY <5>2, <3>2, <2>1
        <5> QED BY <5>1, <5>3, <3>1, <2>1 DEF KeyInv
      <4>3. \A k \in Keys : k = key[p] => replies'[k] = {job[p]}
        BY <4>2, <3>1, <2>1 DEF TypeInv, TypeOK
      <4> QED BY <4>1, <4>2, <4>3 DEF KeyInv
    <3>4. LinksAgree'
      <4> SUFFICES ASSUME NEW f \in FireTimes, link[f] # 0
                   PROVE  rows'[link[f]] = [fire |-> f, key |-> NoKey]
        BY <2>1 DEF LinksAgree
      <4>1. rows[link[f]] = [fire |-> f, key |-> NoKey] /\ link[f] \in Ids
        BY DEF LinksAgree, TypeInv, TypeOK
      <4>2. rows[link[f]] # NoRow BY <4>1, SchedulerAssumption DEF NoRow
      <4> QED BY <4>1, <4>2, <3>1, <3>2
    <3>5. FireInv'
      <4>1. \A q \in Procs : pc'[q] \in {"enqueue", "link"} =>
              /\ q # p /\ pc'[q] = pc[q] /\ job'[q] = job[q] /\ Current(q)' = Current(q)
        BY <3>1, ReturnType DEF Current
      <4>2. \A q \in Procs : pc[q] = "link" => job[q] \in Ids /\ job[q] # job[p]
        <5> SUFFICES ASSUME NEW q \in Procs, pc[q] = "link"
                     PROVE  job[q] \in Ids /\ job[q] # job[p]
          OBVIOUS
        <5>0. rows[job[q]] = [fire |-> Current(q), key |-> NoKey] BY DEF FireInv
        <5>1. rows[job[q]].fire = Current(q) BY <5>0
        <5>2. due[q] # {} /\ job[q] \in Ids BY DEF TypeInv, LocalsOK
        <5>3. Current(q) # 0 BY <5>2, CurrentIsDue
        <5> QED BY <5>1, <5>2, <5>3, <3>2
      <4>3. \A i \in Ids : rows'[i].fire = rows[i].fire
        BY <3>2
      <4>4. \A q \in Procs : pc'[q] = "enqueue" => due[q] # {} /\ Current(q) # 0
        BY <4>1, CurrentIsDue DEF TypeInv, LocalsOK
      <4>5. \A q \in Procs : pc'[q] = "link" =>
              rows'[job'[q]] = [fire |-> Current(q), key |-> NoKey]
        BY <4>1, <4>2, <3>2 DEF FireInv
      <4> QED BY <2>1, <4>1, <4>3, <4>5 DEF FireInv
    <3> QED BY <1>0, <3>3, <3>4, <3>5
  <2> QED BY <2>2, <2>3
<1>13. ASSUME NEW p \in Procs, RereadKey(p) PROVE QueueInv'
  <2>1. key[p] \in Keys BY <1>13 DEF RereadKey, TypeInv, LocalsOK
  <2>2. KeyInv' BY <1>13, <2>1, OldReplies DEF RereadKey
  <2> QED BY <1>0, <1>13, <1>a, <2>2 DEF RereadKey
<1>14. CASE UNCHANGED vars
  <2>1. KeyInv' BY <1>14, OldReplies DEF vars
  <2> QED BY <1>0, <1>14, <2>1, NothingInserted DEF vars
<1> QED
  BY <1>1, <1>2, <1>3, <1>4, <1>5, <1>6, <1>7, <1>8, <1>9, <1>10, <1>11, <1>12,
     <1>13, <1>14
  DEF Next, ProcNext

\* The invariant holds in every reachable state.
LEMMA QueueInvariant == Spec => []QueueInv
<1>1. Init => QueueInv
  <2> SUFFICES ASSUME Init PROVE QueueInv
    OBVIOUS
  <2>1. FireInv
    BY DEF Init, FireInv, NoRow
  <2>2. LinksAgree
    BY DEF Init, LinksAgree
  <2>3. KeyInv
    BY SchedulerAssumption DEF Init, KeyInv, HasKey, NoRow
  <2> QED BY <2>1, <2>2, <2>3, TypeInit DEF QueueInv
<1> QED BY <1>1, QueueStep, PTL DEF Spec

\* However many callers recover the schedule, from whatever cursor, and stop
\* wherever, enqueue_schedule_fire inserts at most one job per occurrence: the
\* fires table is the lock, although the job is inserted two statements later.
THEOREM FiresEnqueuedOnce == Spec => []OneJobPerFire
<1>1. QueueInv => OneJobPerFire
  BY DEF QueueInv, FireInv, OneJobPerFire, Used
<1> QED BY <1>1, QueueInvariant, PTL

\* A linked occurrence names its own job, although handles of two processes
\* hand out the same ids.
THEOREM LinksCorrect == Spec => []LinksAgree
<1>1. QueueInv => LinksAgree
  BY DEF QueueInv
<1> QED BY <1>1, QueueInvariant, PTL

\* Racing enqueue_typed_idempotent calls on a key leave one row and are all
\* given its id.
THEOREM KeysIdempotent == Spec => []OneJobPerKey
<1>1. QueueInv => OneJobPerKey
  <2> SUFFICES ASSUME QueueInv, NEW k \in Keys
               PROVE  Cardinality(HasKey(k)) <= 1 /\ replies[k] \subseteq HasKey(k)
    BY DEF OneJobPerKey
  <2>1. replies[k] \subseteq HasKey(k) /\ \A i, j \in HasKey(k) : i = j
    BY DEF QueueInv, KeyInv
  <2>2. CASE HasKey(k) = {}
    BY <2>1, <2>2, FS_EmptySet
  <2>3. CASE HasKey(k) # {}
    <3>1. PICK i \in HasKey(k) : TRUE BY <2>3
    <3>2. HasKey(k) = {i} BY <3>1, <2>1
    <3> QED BY <3>2, <2>1, FS_Singleton
  <2> QED BY <2>2, <2>3
<1> QED BY <1>1, QueueInvariant, PTL

-----------------------------------------------------------------------------
(* The cursor. *)

\* Every occurrence from the first fire up to c is recorded, given up, or
\* among those in d.
Covers(c, d) ==
    \A f \in FireTimes : FirstFire < f /\ f <= c => f \in fires \union waived \union d

\* The cursor, and the one a recovery will write when it is done with the
\* occurrences it has left, cover what lies behind them.
CursorInv ==
    /\ sched.fired \in FireTimes \union {FirstFire}
    /\ Covers(sched.fired, {})
    /\ \A p \in Procs : pc[p] \in {"record", "enqueue", "link", "mark"} =>
          /\ mark[p] \in FireTimes \union {FirstFire}
          /\ Covers(mark[p], due[p])

\* The earliest n occurrences of a set leave out only later ones.
LEMMA EarliestClosed ==
    ASSUME NEW S, S \subseteq Nat, IsFiniteSet(S), NEW n \in Nat,
           NEW f \in S, NEW g \in Earliest(S, n), f <= g
    PROVE  f \in Earliest(S, n)
<1> DEFINE below(x) == {h \in S : h < x}
<1>1. below(f) \subseteq below(g)
  <2> SUFFICES ASSUME NEW h \in S, h < f PROVE h < g
    OBVIOUS
  <2>1. h \in Nat /\ f \in Nat /\ g \in Nat
    BY DEF Earliest
  <2> QED BY <2>1
<1>2. IsFiniteSet(below(g)) /\ IsFiniteSet(below(f))
  BY FS_Subset
<1>3. Cardinality(below(f)) <= Cardinality(below(g))
  BY <1>1, <1>2, FS_Subset
<1>4. Cardinality(below(f)) \in Nat /\ Cardinality(below(g)) \in Nat
  BY <1>2, FS_CardinalityType
<1>5. Cardinality(below(g)) < n
  BY DEF Earliest
<1> QED BY <1>3, <1>4, <1>5 DEF Earliest

\* A recovery that finds occurrences missed finds all those between the cursor
\* and the last of them.
LEMMA MissedCovers ==
    ASSUME WholeSeconds, FirstFire # 0, TypeInv, CursorInv, NEW n \in Nat,
           MissedFireTimes(sched, n) # {},
           NEW f \in FireTimes, sched.fired < f, f <= Max(MissedFireTimes(sched, n))
    PROVE  f \in MissedFireTimes(sched, n)
<1> DEFINE missed == MissedFireTimes(sched, n)
           after == {g \in FireTimes : g > sched.fired + 1 /\ g <= n}
<1>1. sched.fired # 0 /\ sched.fired \in Nat /\ f # sched.fired + 1 /\ f \in Nat
  BY SchedulerAssumption DEF WholeSeconds, CursorInv
<1>2. missed = Earliest(after, MaxMissed)
  BY <1>1 DEF MissedFireTimes
<1>3. Max(missed) \in missed
  BY MissedFacts
<1>4. Max(missed) \in after
  BY <1>2, <1>3 DEF Earliest
<1>5. f \in after
  <2>1. Max(missed) \in Nat /\ Max(missed) <= n
    BY <1>4, SchedulerAssumption
  <2>2. f <= Max(missed)
    OBVIOUS
  <2>3. f <= n
    <3> HIDE DEF missed
    <3> QED BY <1>1, <2>1, <2>2
  <2>4. f > sched.fired + 1
    BY <1>1
  <2> QED BY <2>3, <2>4
<1>6. after \subseteq Nat /\ IsFiniteSet(after) /\ MaxMissed \in Nat
  BY SchedulerAssumption, FS_Subset
<1>7. f <= Max(missed)
  OBVIOUS
<1> HIDE DEF missed, after
<1>8. f \in Earliest(after, MaxMissed)
  BY <1>2, <1>3, <1>5, <1>6, <1>7, EarliestClosed
<1> QED BY <1>2, <1>8 DEF missed

\* Steps that leave the cursor alone, take nothing back and bring no recovery
\* nearer to its mark keep the invariant.
LEMMA CursorKept ==
    ASSUME CursorInv, sched'.fired = sched.fired,
           fires \subseteq fires', waived \subseteq waived',
           \A p \in Procs : pc'[p] \in {"record", "enqueue", "link", "mark"} =>
               /\ pc[p] \in {"record", "enqueue", "link", "mark"}
               /\ mark'[p] = mark[p]
               /\ due[p] \subseteq due'[p] \union fires'
    PROVE  CursorInv'
  BY DEF CursorInv, Covers

\* Every step keeps the cursor invariant.
LEMMA CursorStep ==
    ASSUME WholeSeconds, FirstFire # 0
    PROVE  QueueInv /\ CursorInv /\ [Next]_vars => CursorInv'
<1> SUFFICES ASSUME QueueInv, CursorInv, [Next]_vars PROVE CursorInv'
  OBVIOUS
<1> USE DEF tables, locals, history
<1>0. TypeInv
  BY DEF QueueInv
<1>1. CASE Tick \/ UNCHANGED vars
  BY <1>1, CursorKept DEF Tick, vars
<1>2. ASSUME NEW p \in Procs, NEW h \in Handles, Open(p, h) PROVE CursorInv'
  BY <1>0, <1>2, CursorKept DEF Open, Goto, TypeInv, TypeOK
<1>a. ASSUME NEW p \in Procs, NEW l \in {"idle", "closed"}, Return(p, l),
             sched'.fired = sched.fired, UNCHANGED <<fires, waived>>
      PROVE  CursorInv'
  <2>1. \A q \in Procs : pc'[q] \in {"record", "enqueue", "link", "mark"} =>
            pc'[q] = pc[q] /\ mark'[q] = mark[q] /\ due'[q] = due[q]
    BY <1>0, <1>a, ReturnType
  <2> QED BY <1>a, <2>1, CursorKept
<1>3. ASSUME NEW p \in Procs, Stop(p) PROVE CursorInv'
  BY <1>3, <1>a DEF Stop
<1>4. ASSUME NEW p \in Procs, NEW q \in Policies, UpsertSchedule(p, q) PROVE CursorInv'
  <2>1. sched'.fired = sched.fired
    BY <1>0, <1>4 DEF UpsertSchedule, TypeInv, TypeOK, Schedule
  <2> QED BY <1>4, <2>1, CursorKept DEF UpsertSchedule
<1>5. ASSUME NEW p \in Procs, StartRecovery(p) PROVE CursorInv'
  BY <1>0, <1>5, CursorKept DEF StartRecovery, Goto, TypeInv, TypeOK
<1>6. ASSUME NEW p \in Procs, ListSchedules(p) PROVE CursorInv'
  <2> DEFINE missed == MissedFireTimes(sched, t[p])
             todo == ToEnqueue(sched.policy, missed)
  <2>1. t[p] \in Nat /\ due[p] = {}
    BY <1>0, <1>6 DEF ListSchedules, TypeInv, TypeOK, LocalsOK
  <2>2. UNCHANGED <<sched, fires>>
    BY <1>6 DEF ListSchedules
  <2>3. CASE missed = {}
    <3>1. /\ pc' = [pc EXCEPT ![p] = "mark"] /\ mark' = [mark EXCEPT ![p] = sched.fired]
          /\ UNCHANGED <<due, waived>>
      BY <1>6, <2>3 DEF ListSchedules, Goto
    <3> QED BY <1>0, <2>1, <2>2, <3>1 DEF CursorInv, Covers, TypeInv, TypeOK
  <2>4. CASE missed # {}
    <3>1. /\ Goto(p, IF todo = {} THEN "mark" ELSE "record")
          /\ mark' = [mark EXCEPT ![p] = Max(missed)]
          /\ due' = [due EXCEPT ![p] = todo]
          /\ waived' = waived \union (missed \ todo)
      BY <1>6, <2>4 DEF ListSchedules
    <3>2. missed \subseteq FireTimes /\ Max(missed) \in missed
      BY <1>0, <2>1, <2>4, MissedFacts
    <3>3. \A f \in FireTimes : sched.fired < f /\ f <= Max(missed) => f \in missed
      BY <1>0, <2>1, <2>4, MissedCovers
    <3> HIDE DEF missed, todo
    <3>4. \A f \in FireTimes : FirstFire < f /\ f <= Max(missed)
              => f \in fires \union waived \union missed
      <4>1. sched.fired \in Nat /\ FireTimes \subseteq Nat
        BY <1>0, SchedulerAssumption DEF TypeInv, TypeOK, Schedule
      <4>2. \A f \in FireTimes : FirstFire < f /\ f <= sched.fired => f \in fires \union waived
        BY DEF CursorInv, Covers
      <4> QED BY <3>3, <4>1, <4>2
    <3>5. /\ mark'[p] = Max(missed) /\ due'[p] = todo
          /\ \A q \in Procs \ {p} : mark'[q] = mark[q] /\ due'[q] = due[q] /\ pc'[q] = pc[q]
      BY <1>0, <3>1 DEF Goto, TypeInv, TypeOK
    <3>6. Covers(mark[p], due[p])'
      BY <3>1, <3>4, <3>5, <2>2 DEF Covers
    <3>7. \A q \in Procs \ {p} : Covers(mark[q], due[q]) => Covers(mark[q], due[q])'
      BY <3>1, <3>5, <2>2 DEF Covers
    <3>8. Covers(sched.fired, {})'
      BY <3>1, <2>2 DEF Covers, CursorInv
    <3> QED BY <2>2, <3>2, <3>5, <3>6, <3>7, <3>8 DEF CursorInv
  <2> QED BY <2>3, <2>4
<1>b. ASSUME NEW p \in Procs, NextFire(p), pc[p] \in {"record", "link"},
             Current(p) \in fires', fires \subseteq fires', UNCHANGED <<sched, mark, waived>>
      PROVE  CursorInv'
  <2>1. \A q \in Procs : pc'[q] \in {"record", "enqueue", "link", "mark"} =>
          /\ pc[q] \in {"record", "enqueue", "link", "mark"}
          /\ due[q] \subseteq due'[q] \union fires'
    BY <1>0, <1>b DEF NextFire, Goto, TypeInv, TypeOK
  <2> QED BY <1>b, <2>1, CursorKept
<1>7. ASSUME NEW p \in Procs, RecordFire(p) PROVE CursorInv'
  <2>1. /\ pc[p] = "record" /\ fires' = fires \union {Current(p)}
        /\ UNCHANGED <<sched, mark, waived>>
    BY <1>7 DEF RecordFire
  <2>2. CASE Current(p) \in fires
    BY <1>7, <1>b, <2>1, <2>2 DEF RecordFire
  <2>3. CASE Current(p) \notin fires
    <3>1. pc' = [pc EXCEPT ![p] = "enqueue"] /\ UNCHANGED due
      BY <1>7, <2>3 DEF RecordFire, Goto
    <3>2. \A q \in Procs : pc'[q] \in {"record", "enqueue", "link", "mark"} =>
            pc[q] \in {"record", "enqueue", "link", "mark"}
      BY <1>0, <2>1, <3>1 DEF TypeInv, TypeOK
    <3> QED BY <2>1, <3>1, <3>2, CursorKept
  <2> QED BY <2>2, <2>3
<1>8. ASSUME NEW p \in Procs, EnqueueFire(p) PROVE CursorInv'
  <2>1. pc[p] = "enqueue" /\ UNCHANGED <<sched, fires, waived>>
    BY <1>8 DEF EnqueueFire
  <2>2. CASE Return(p, "idle")
    BY <1>a, <2>1, <2>2
  <2>3. CASE Goto(p, "link") /\ UNCHANGED <<mark, due>>
    <3>1. \A q \in Procs : pc'[q] \in {"record", "enqueue", "link", "mark"} =>
            pc[q] \in {"record", "enqueue", "link", "mark"}
      BY <1>0, <2>1, <2>3 DEF Goto, TypeInv, TypeOK
    <3> QED BY <2>1, <2>3, <3>1, CursorKept
  <2> QED BY <1>8, <2>2, <2>3 DEF EnqueueFire
<1>9. ASSUME NEW p \in Procs, LinkFire(p) PROVE CursorInv'
  <2>1. pc[p] = "link" /\ NextFire(p) /\ UNCHANGED <<sched, fires, mark, waived>>
    BY <1>9 DEF LinkFire
  <2>2. rows[job[p]] = [fire |-> Current(p), key |-> NoKey]
    BY <2>1 DEF QueueInv, FireInv
  <2>3. job[p] \in Ids /\ due[p] # {}
    BY <1>0, <2>1 DEF TypeInv, LocalsOK
  <2>4. rows[job[p]].fire = Current(p) /\ Current(p) # 0
    BY <1>0, <2>2, <2>3, CurrentIsDue
  <2>5. Current(p) \in fires
    BY <2>3, <2>4 DEF QueueInv, FireInv
  <2> QED BY <1>b, <2>1, <2>5
<1>10. ASSUME NEW p \in Procs, MarkChecked(p) PROVE CursorInv'
  <2>1. /\ pc[p] = "mark" /\ Return(p, "idle") /\ UNCHANGED <<fires, waived>>
    BY <1>10 DEF MarkChecked
  <2>2. sched'.fired = mark[p]
    BY <1>0, <1>10, SchedulerAssumption
    DEF MarkChecked, CursorInv, TypeInv, TypeOK, Schedule
  <2>3. due[p] = {} /\ Covers(mark[p], due[p]) /\ mark[p] \in FireTimes \union {FirstFire}
    BY <1>0, <2>1 DEF TypeInv, LocalsOK, CursorInv
  <2>4. \A q \in Procs : pc'[q] \in {"record", "enqueue", "link", "mark"} =>
          pc'[q] = pc[q] /\ mark'[q] = mark[q] /\ due'[q] = due[q]
    BY <1>0, <2>1, ReturnType
  <2> QED BY <2>1, <2>2, <2>3, <2>4 DEF CursorInv, Covers
<1>11. ASSUME NEW p \in Procs, NEW k \in Keys, LookupKey(p, k) PROVE CursorInv'
  <2>1. UNCHANGED <<sched, fires, mark, due, waived>>
    BY <1>11 DEF LookupKey
  <2>2. \A q \in Procs : pc'[q] \in {"record", "enqueue", "link", "mark"} => pc'[q] = pc[q]
    BY <1>0, <1>11 DEF LookupKey, Goto, TypeInv, TypeOK
  <2> QED BY <2>1, <2>2, CursorKept
<1>12. ASSUME NEW p \in Procs, InsertKey(p) PROVE CursorInv'
  <2>1. UNCHANGED <<sched, fires, waived>>
    BY <1>12 DEF InsertKey
  <2>2. CASE Return(p, "idle")
    BY <1>a, <2>1, <2>2
  <2>3. CASE Goto(p, "reread") /\ UNCHANGED <<mark, due>>
    <3>1. \A q \in Procs : pc'[q] \in {"record", "enqueue", "link", "mark"} => pc'[q] = pc[q]
      BY <1>0, <2>3 DEF Goto, TypeInv, TypeOK
    <3> QED BY <2>1, <2>3, <3>1, CursorKept
  <2> QED BY <1>12, <2>2, <2>3 DEF InsertKey
<1>13. ASSUME NEW p \in Procs, RereadKey(p) PROVE CursorInv'
  BY <1>13, <1>a DEF RereadKey
<1> QED
  BY <1>1, <1>2, <1>3, <1>4, <1>5, <1>6, <1>7, <1>8, <1>9, <1>10, <1>11, <1>12, <1>13
  DEF Next, ProcNext

\* The recovery cursor never passes over an occurrence: overlapping recoveries
\* may rewind it, but mark_schedule_checked only ever writes a time up to which
\* everything was recorded or given up.  When no fire was ever stored the start
\* is last_checked_ms instead, and nothing is claimed.
THEOREM NothingPassedOver ==
    ASSUME WholeSeconds
    PROVE  Spec => []CursorCovers
<1>1. CASE FirstFire = 0
  <2>1. CursorCovers
    BY <1>1 DEF CursorCovers
  <2> QED BY <2>1, PTL
<1>2. CASE FirstFire # 0
  <2>1. Init => CursorInv
    BY SchedulerAssumption DEF Init, CursorInv, Covers
  <2>2. QueueInv /\ CursorInv /\ [Next]_vars => CursorInv'
    BY <1>2, CursorStep
  <2>3. CursorInv => CursorCovers
    BY DEF CursorInv, Covers, CursorCovers
  <2> QED BY <2>1, <2>2, <2>3, QueueInvariant, PTL DEF Spec
<1> QED BY <1>1, <1>2
=============================================================================
