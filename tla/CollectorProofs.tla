--------------------------- MODULE CollectorProofs --------------------------
(***************************************************************************)
(* The interpreter's heap, proved for any number of objects and fields, any *)
(* order of fields, any trigger and any bound on clones: counts cover the   *)
(* references that exist, nothing reachable is freed, and garbage stays     *)
(* within reach of a root or of an object with an inflated count.           *)
(***************************************************************************)
EXTENDS CycleCollector, FiniteSetTheorems, SequenceTheorems, TLAPS

-----------------------------------------------------------------------------
(* The heap, the colours and the task stack as sets. *)

\* The edges into o that start in P, the objects that o holds, and the parts
\* of the heap by colour.
Into(P, o, e) == {x \in P \X Slots : e[x[1]][x[2]] = o}
Fields(q, o, e) == {s \in Slots : e[q][s] = o}
Kids(o) == {edge[o][s] : s \in Slots} \ {NoObject}
Keeps(S, P) == \A p \in S \intersect P : Kids(p) \subseteq S

Live == {o \in Objects : life[o] = "live"}
Gray == {o \in Objects : color[o] = "gray"}
White == {o \in Objects : color[o] = "white"}
Marked == Gray \union White
RootSet == {o \in Objects : \E i \in 1 .. Len(roots) : roots[i] = o}
RootsLeft == {o \in Objects : \E i \in idx .. Len(roots) : roots[i] = o}

\* The tasks on a stack, and the decrements of o on it.
On(st) == {st[i] : i \in 1 .. Len(st)}
Todo == On(stk)
Blacks == {o \in Objects : Task("black", o) \in Todo}
DecsOn(st, o) == {i \in 1 .. Len(st) : st[i] = Task("dec", o)}

-----------------------------------------------------------------------------
(* The heap between two steps, whatever the collector is doing. *)

\* A live object is counted at least once and at least as often as it is
\* referenced; nothing refers to any other object.
HeapInv ==
    \A o \in Objects :
        /\ life[o] = "live" => strong[o] >= Refs(o) /\ strong[o] > 0
        /\ life[o] # "live" => strong[o] = 0 /\ Refs(o) = 0 /\ edge[o] = NoFields
        /\ life[o] = "cleared" => o = dying

\* Where everything that is live can be reached from.
Anchors ==
    {o \in Objects : held[o] > 0 \/ pending[o] > 0} \union RootSet \union Inflated

\* The root buffer holds what the buffered mark says, and live objects hang on
\* an anchor.
Buffering ==
    /\ \A o \in Live : buffered[o] => o \in RootSet
    /\ phase \in {"idle", "mark"} => \A o \in RootSet \intersect Live : buffered[o]
    /\ \A o \in RootSet : life[o] # "absent"
Anchored ==
    \A S \in SUBSET Objects : Anchors \subseteq S /\ Closed(S, edge) => Live \subseteq S

\* Garbage that is complete: each object of U is counted exactly as often as
\* objects of U refer to it.
SelfHeld(U) ==
    \A o \in U : life[o] = "live" /\ strong[o] = Cardinality(Into(U, o, edge))

-----------------------------------------------------------------------------
(* The phases of collect_cycles. *)

IdleInv ==
    /\ Marked = {}
    /\ stk = <<>> /\ idx = 1
    /\ seen = {} /\ condemned = {}

\* Marking: the shadow of a gray object is its count less the edges from gray
\* objects, but for those whose decrement is still on the stack.
MarkCounts ==
    \A o \in Objects :
        /\ o \in Gray => shadow[o] + Cardinality(Into(Gray, o, edge))
                            = strong[o] + Cardinality(DecsOn(stk, o))
        /\ o \notin Gray =>
               Cardinality(DecsOn(stk, o)) = Cardinality(Into(Gray, o, edge))

\* A decrement finds its object gray: a visit of it lies above.
DecsFollowVisits ==
    \A i \in 1 .. Len(stk) :
        stk[i].task = "dec" =>
            \/ stk[i].obj \in Gray
            \/ \E j \in i + 1 .. Len(stk) : stk[j] = Task("visit", stk[i].obj)

\* What is still to be marked has a visit on the stack.
MarkFrontier ==
    /\ \A p \in Gray : \A c \in Kids(p) : c \in Gray \/ Task("visit", c) \in Todo
    /\ \A i \in 1 .. Len(roots) :
           i < idx /\ roots[i] \in Live =>
               roots[i] \in Gray \/ Task("visit", roots[i]) \in Todo

\* Only what hangs on the roots through gray objects is marked.
MarkReach ==
    \A S \in SUBSET Objects :
        RootSet \subseteq S /\ Keeps(S, Gray) =>
            Gray \subseteq S /\ \A k \in Todo : k.obj \in S

MarkInv ==
    /\ White = {} /\ seen = {} /\ condemned = {}
    /\ Gray \subseteq Live
    /\ \A k \in Todo : k.task \in {"visit", "dec"} /\ k.obj \in Live
    /\ MarkCounts
    /\ DecsFollowVisits
    /\ MarkFrontier
    /\ MarkReach

\* Scanning: the shadow of a marked object is its count less the edges from
\* marked objects; what a marked object holds is marked or restored.
ScanCounts ==
    /\ \A o \in Marked : shadow[o] + Cardinality(Into(Marked, o, edge)) = strong[o]
    /\ \A p \in Marked : \A c \in Kids(p) : c \in Marked \/ color[c] = "black"
    /\ \A o \in Blacks : o \in Marked \/ color[o] = "black"
    /\ \A o \in White : shadow[o] = 0 \/ o \in Blacks

\* The gray objects hang on the roots and the tasks that are left.
ScanLeft ==
    \A S \in SUBSET Objects :
        RootsLeft \subseteq S /\ (\A k \in Todo : k.obj \in S) /\ Keeps(S, Gray) =>
            Gray \subseteq S

\* The white objects hang on the roots through white objects, or on objects
\* that are about to be restored.
ScanReach ==
    \A S \in SUBSET Objects :
        RootSet \subseteq S /\ Blacks \subseteq S /\ Keeps(S, White) =>
            White \subseteq S /\ \A k \in Todo : k.obj \in Gray => k.obj \in S

\* Nothing that is complete garbage is restored.
ScanComplete ==
    \A U \in SUBSET Objects :
        SelfHeld(U) => U \subseteq Marked \ Blacks

ScanInv ==
    /\ seen = {} /\ condemned = {}
    /\ Marked \subseteq Live
    /\ \A k \in Todo : k.task \in {"scan", "black"}
    /\ ScanCounts
    /\ ScanLeft
    /\ ScanReach
    /\ ScanComplete

\* Collecting: a white object is counted exactly by the white objects, which
\* are all the complete garbage and hang on the roots.
WhiteGarbage ==
    /\ \A o \in White : strong[o] = Cardinality(Into(White, o, edge))
    /\ \A U \in SUBSET Objects : SelfHeld(U) => U \subseteq White
    /\ \A S \in SUBSET Objects :
           RootSet \subseteq S /\ Keeps(S, White) => White \subseteq S

\* Those that were seen are condemned, what they hold is seen or on the stack.
WhiteFrontier ==
    /\ condemned = seen \intersect White
    /\ \A o \in seen \ White : ~buffered[o]
    /\ \A i \in 1 .. Len(roots) :
           i < idx /\ roots[i] # NoObject =>
               roots[i] \in seen \/ Task("white", roots[i]) \in Todo
    /\ \A p \in condemned : \A c \in Kids(p) : c \in seen \/ Task("white", c) \in Todo

WhiteInv ==
    /\ Gray = {} /\ White \subseteq Live
    /\ \A k \in Todo : k.task = "white"
    /\ WhiteGarbage
    /\ WhiteFrontier

IInv ==
    /\ StateTypeOK /\ HeapInv /\ Buffering /\ Anchored
    /\ phase = "idle" => IdleInv
    /\ phase = "mark" => MarkInv
    /\ phase = "scan" => ScanInv
    /\ phase = "white" => WhiteInv

-----------------------------------------------------------------------------
(* Counting edges and tasks. *)

\* An interval determines its length.
LEMMA SameInterval ==
    ASSUME NEW a \in Nat, NEW b \in Nat, 1 .. a = 1 .. b
    PROVE  a = b
<1>1. a > b => a \in 1 .. a /\ a \notin 1 .. b
  OBVIOUS
<1>2. b > a => b \in 1 .. b /\ b \notin 1 .. a
  OBVIOUS
<1> QED BY <1>1, <1>2

\* The edges into an object are finitely many, and fewer from fewer objects.
LEMMA IntoMonotone ==
    ASSUME NEW P \in SUBSET Objects, NEW Q \in SUBSET P, NEW o, NEW e
    PROVE  /\ IsFiniteSet(Into(P, o, e))
           /\ Cardinality(Into(P, o, e)) \in Nat
           /\ Cardinality(Into(Q, o, e)) \in Nat
           /\ Into(Q, o, e) \subseteq Into(P, o, e)
           /\ Cardinality(Into(Q, o, e)) <= Cardinality(Into(P, o, e))
           /\ Cardinality(Into(Q, o, e)) = Cardinality(Into(P, o, e)) =>
                  Into(Q, o, e) = Into(P, o, e)
<1>1. IsFiniteSet(P) /\ IsFiniteSet(Slots)
  BY CollectorAssumption, FS_Subset
<1>2. IsFiniteSet(P \X Slots)
  BY <1>1, FS_Product
<1>3. Into(P, o, e) \in SUBSET (P \X Slots) /\ Into(Q, o, e) \in SUBSET Into(P, o, e)
  BY DEF Into
<1>4. IsFiniteSet(Into(P, o, e)) /\ IsFiniteSet(Into(Q, o, e))
  BY <1>2, <1>3, FS_Subset
<1> QED BY <1>3, <1>4, FS_Subset, FS_CardinalityType

\* The edges of one object into another are its fields that hold it.
LEMMA IntoOne ==
    ASSUME NEW q \in Objects, NEW o, NEW e
    PROVE  /\ IsFiniteSet(Fields(q, o, e))
           /\ Cardinality(Fields(q, o, e)) \in Nat
           /\ Cardinality(Into({q}, o, e)) = Cardinality(Fields(q, o, e))
<1> DEFINE F == Fields(q, o, e)
           f == [s \in F |-> <<q, s>>]
<1>1. IsFiniteSet(F) /\ Cardinality(F) \in Nat
  BY CollectorAssumption, FS_Subset, FS_CardinalityType DEF Fields
<1>2. f \in Bijection(F, Into({q}, o, e))
  <2>1. f \in [F -> Into({q}, o, e)]
    BY DEF Into, Fields
  <2>2. \A a, b \in F : f[a] = f[b] => a = b
    OBVIOUS
  <2>3. \A t \in Into({q}, o, e) : \E s \in F : f[s] = t
    BY DEF Into, Fields
  <2> QED BY <2>1, <2>2, <2>3 DEF Bijection, Injection, Surjection, IsInjective
<1>3. ExistsBijection(F, Into({q}, o, e))
  BY <1>2 DEF ExistsBijection
<1> QED BY <1>1, <1>3, FS_Bijection

\* One more object adds its fields.
LEMMA IntoAdd ==
    ASSUME NEW P \in SUBSET Objects, NEW q \in Objects, q \notin P, NEW o, NEW e
    PROVE  Cardinality(Into(P \union {q}, o, e))
             = Cardinality(Into(P, o, e)) + Cardinality(Fields(q, o, e))
<1>1. Into(P \union {q}, o, e) = Into(P, o, e) \union Into({q}, o, e)
  BY DEF Into
<1>2. Into(P, o, e) \intersect Into({q}, o, e) = {}
  BY DEF Into
<1>3. IsFiniteSet(Into(P, o, e)) /\ IsFiniteSet(Into({q}, o, e))
  BY IntoMonotone
<1>4. Cardinality(Into(P, o, e)) \in Nat
  BY IntoMonotone
<1>5. Cardinality(Into(P, o, e) \union Into({q}, o, e))
        = Cardinality(Into(P, o, e)) + Cardinality(Into({q}, o, e)) - 0
  <2> DEFINE A == Into(P, o, e)
             B == Into({q}, o, e)
  <2>1. Cardinality(A \intersect B) = 0
    BY <1>2, FS_EmptySet
  <2>2. IsFiniteSet(A) /\ IsFiniteSet(B)
    BY <1>3
  <2> HIDE DEF A, B
  <2>3. Cardinality(A \union B)
          = Cardinality(A) + Cardinality(B) - Cardinality(A \intersect B)
    BY <2>2, FS_Union
  <2> QED BY <2>1, <2>3 DEF A, B
<1>6. /\ Cardinality(Into({q}, o, e)) = Cardinality(Fields(q, o, e))
      /\ Cardinality(Fields(q, o, e)) \in Nat
  BY IntoOne
<1> DEFINE a == Cardinality(Into(P, o, e))
           b == Cardinality(Fields(q, o, e))
           c == Cardinality(Into(P \union {q}, o, e))
<1>7. a \in Nat /\ b \in Nat /\ c = a + b - 0
  BY <1>1, <1>4, <1>5, <1>6
<1> HIDE DEF a, b, c
<1>8. c = a + b
  BY <1>7
<1> QED BY <1>8 DEF a, b, c

\* One object fewer takes its fields away.
LEMMA IntoRemove ==
    ASSUME NEW P \in SUBSET Objects, NEW q \in P, NEW o, NEW e
    PROVE  Cardinality(Into(P, o, e))
             = Cardinality(Into(P \ {q}, o, e)) + Cardinality(Fields(q, o, e))
<1>1. (P \ {q}) \union {q} = P
  OBVIOUS
<1> QED BY <1>1, IntoAdd

-----------------------------------------------------------------------------
(* The task stack. *)

\* What is below the top, and that the top is on the stack.
LEMMA Popped ==
    ASSUME stk \in Seq(Tasks), stk # <<>>
    PROVE  /\ Top \in Tasks /\ Top = Task(Top.task, Top.obj) /\ Top.obj \in Objects
           /\ Rest \in Seq(Tasks)
           /\ Len(stk) \in Nat \ {0} /\ Len(Rest) = Len(stk) - 1
           /\ Top = stk[Len(stk)]
           /\ \A i \in 1 .. Len(Rest) : Rest[i] = stk[i]
           /\ Todo = On(Rest) \union {Top}
           /\ On(Rest) \subseteq Tasks
<1>1. /\ Len(stk) \in Nat \ {0}
      /\ \A i \in 1 .. Len(stk) : stk[i] \in Tasks
  BY EmptySeq, ElementOfSeq
<1>2. Top = stk[Len(stk)] /\ Top \in Tasks
  BY <1>1 DEF Top, Last
<1>3. Top = Task(Top.task, Top.obj) /\ Top.obj \in Objects
  BY <1>2 DEF Tasks, Task
<1>4. /\ Rest \in Seq(Tasks) /\ Len(Rest) = Len(stk) - 1
      /\ \A i \in 1 .. Len(Rest) : Rest[i] = stk[i]
  <2>0. PICK n \in Nat : n = Len(stk) - 1
    BY <1>1
  <2>1. /\ n \in Int /\ 1 \in Int /\ \A i \in 1 .. n : stk[i] \in Tasks
    BY <1>1, <2>0
  <2>2. /\ SubSeq(stk, 1, n) \in Seq(Tasks)
        /\ Len(SubSeq(stk, 1, n)) = IF 1 <= n THEN n - 1 + 1 ELSE 0
        /\ \A i \in 1 .. n - 1 + 1 : SubSeq(stk, 1, n)[i] = stk[1 + i - 1]
    BY <2>1, SubSeqProperties
  <2>3. /\ (IF 1 <= n THEN n - 1 + 1 ELSE 0) = n
        /\ n - 1 + 1 = n /\ \A i \in 1 .. n : 1 + i - 1 = i
    OBVIOUS
  <2>4. \A i \in 1 .. n : SubSeq(stk, 1, n)[i] = stk[i]
    BY <2>2, <2>3
  <2> QED BY <2>0, <2>2, <2>3, <2>4 DEF Rest, Front
<1>5. Todo = On(Rest) \union {Top}
  <2>1. \A i \in 1 .. Len(stk) : i = Len(stk) \/ i \in 1 .. Len(Rest)
    BY <1>1, <1>4
  <2>2. \A i \in 1 .. Len(Rest) : i \in 1 .. Len(stk)
    BY <1>1, <1>4
  <2>3. Len(stk) \in 1 .. Len(stk)
    BY <1>1
  <2> QED BY <1>2, <1>4, <2>1, <2>2, <2>3 DEF On, Todo
<1>6. On(Rest) \subseteq Tasks
  BY <1>4, ElementOfSeq DEF On
<1> QED BY <1>1, <1>2, <1>3, <1>4, <1>5, <1>6

\* What a push leaves on the stack.
LEMMA Pushed ==
    ASSUME NEW r \in Seq(Tasks), NEW ts \in Seq(Tasks)
    PROVE  /\ Push(r, ts) \in Seq(Tasks)
           /\ Len(Push(r, ts)) = Len(r) + Len(ts)
           /\ Len(r) \in Nat /\ Len(ts) \in Nat
           /\ \A i \in 1 .. Len(r) : Push(r, ts)[i] = r[i]
           /\ \A i \in 1 .. Len(ts) : Push(r, ts)[Len(r) + i] = ts[i]
           /\ On(Push(r, ts)) = On(r) \union On(ts)
<1>1. Len(r) \in Nat /\ Len(ts) \in Nat
  BY LenProperties
<1>2. /\ Push(r, ts) \in Seq(Tasks) /\ Len(Push(r, ts)) = Len(r) + Len(ts)
      /\ \A i \in 1 .. Len(r) + Len(ts) :
             Push(r, ts)[i] = IF i <= Len(r) THEN r[i] ELSE ts[i - Len(r)]
  BY ConcatProperties DEF Push
<1>3. \A i \in 1 .. Len(r) : Push(r, ts)[i] = r[i]
  BY <1>1, <1>2
<1>4. ASSUME NEW i \in 1 .. Len(ts) PROVE Push(r, ts)[Len(r) + i] = ts[i]
  <2>1. Len(r) + i \in 1 .. Len(r) + Len(ts) /\ ~(Len(r) + i <= Len(r))
        /\ (Len(r) + i) - Len(r) = i
    BY <1>1
  <2> QED BY <1>2, <2>1
<1>5. \A i \in 1 .. Len(r) + Len(ts) :
          i \in 1 .. Len(r) \/ \E j \in 1 .. Len(ts) : i = Len(r) + j
  <2> SUFFICES ASSUME NEW i \in 1 .. Len(r) + Len(ts), ~(i \in 1 .. Len(r))
               PROVE  \E j \in 1 .. Len(ts) : i = Len(r) + j
    OBVIOUS
  <2>1. i - Len(r) \in 1 .. Len(ts) /\ i = Len(r) + (i - Len(r))
    BY <1>1
  <2> QED BY <2>1
<1>6. /\ \A i \in 1 .. Len(r) : i \in 1 .. Len(r) + Len(ts)
      /\ \A i \in 1 .. Len(ts) : Len(r) + i \in 1 .. Len(r) + Len(ts)
  BY <1>1
<1>7. On(Push(r, ts)) = On(r) \union On(ts)
  <2>1. On(Push(r, ts)) \subseteq On(r) \union On(ts)
    <3> SUFFICES ASSUME NEW i \in 1 .. Len(Push(r, ts))
                 PROVE  Push(r, ts)[i] \in On(r) \union On(ts)
      BY DEF On
    <3>1. CASE i \in 1 .. Len(r)
      BY <1>3, <3>1 DEF On
    <3>2. CASE \E j \in 1 .. Len(ts) : i = Len(r) + j
      BY <1>4, <3>2 DEF On
    <3> QED BY <1>2, <1>5, <3>1, <3>2
  <2>2. On(r) \union On(ts) \subseteq On(Push(r, ts))
    <3>1. ASSUME NEW i \in 1 .. Len(r) PROVE r[i] \in On(Push(r, ts))
      <4>1. i \in 1 .. Len(Push(r, ts)) /\ r[i] = Push(r, ts)[i]
        BY <1>2, <1>3, <1>6
      <4> QED BY <4>1 DEF On
    <3>2. ASSUME NEW i \in 1 .. Len(ts) PROVE ts[i] \in On(Push(r, ts))
      <4>1. Len(r) + i \in 1 .. Len(Push(r, ts)) /\ ts[i] = Push(r, ts)[Len(r) + i]
        BY <1>2, <1>4, <1>6
      <4> QED BY <4>1 DEF On
    <3> QED BY <3>1, <3>2 DEF On
  <2> QED BY <2>1, <2>2
<1> QED BY <1>1, <1>2, <1>3, <1>4, <1>7

\* An order of the fields names each field that holds an object once.
LEMMA FieldOrder ==
    ASSUME NEW o \in Objects, NEW fs \in FieldOrders(o)
    PROVE  /\ Len(fs) \in Nat
           /\ \A i \in 1 .. Len(fs) : fs[i] \in Slots /\ edge[o][fs[i]] # NoObject
           /\ \A i, j \in 1 .. Len(fs) : fs[i] = fs[j] => i = j
           /\ \A s \in Slots : edge[o][s] # NoObject => \E i \in 1 .. Len(fs) : fs[i] = s
<1> DEFINE F == {s \in Slots : edge[o][s] # NoObject}
           n == Cardinality(F)
<1>1. IsFiniteSet(F) /\ n \in Nat
  BY CollectorAssumption, FS_Subset, FS_CardinalityType
<1>2. fs \in [1 .. n -> F] /\ \A i, j \in 1 .. n : i # j => fs[i] # fs[j]
  <2> DEFINE G == [1 .. Cardinality(F) -> F]
  <2>1. fs \in SetToSeqs(F)
    BY DEF FieldOrders
  <2> HIDE DEF F
  <2>2. fs \in {f \in G : \A i, j \in 1 .. Cardinality(F) : i # j => f[i] # f[j]}
    BY <2>1 DEF SetToSeqs
  <2> HIDE DEF G
  <2>3. fs \in G /\ \A i, j \in 1 .. Cardinality(F) : i # j => fs[i] # fs[j]
    BY <2>2, ZenonT(30)
  <2> QED BY <2>3 DEF G
<1> HIDE DEF n
<1>3. Len(fs) = n
  <2>1. fs \in Seq(F)
    BY <1>1, <1>2, SeqDef
  <2>2. Len(fs) \in Nat /\ DOMAIN fs = 1 .. Len(fs)
    BY <2>1, LenProperties
  <2>3. 1 .. Len(fs) = 1 .. n
    BY <1>2, <2>2
  <2> QED BY <1>1, <2>2, <2>3, SameInterval, ZenonT(30)
<1>4. fs \in Injection(1 .. n, F)
  BY <1>2 DEF Injection, IsInjective
<1>5. Cardinality(1 .. n) = Cardinality(F)
  <2>1. Cardinality(1 .. n) = IF 1 > n THEN 0 ELSE n - 1 + 1
    BY <1>1, FS_Interval
  <2>2. Cardinality(1 .. n) = n
    BY <1>1, <2>1
  <2> QED BY <2>2 DEF n
<1>6. fs \in Surjection(1 .. n, F)
  BY <1>1, <1>4, <1>5, FS_Injection
<1>7. \A s \in F : \E i \in 1 .. n : fs[i] = s
  BY <1>6 DEF Surjection
<1> QED BY <1>1, <1>2, <1>3, <1>7

\* One task for each object that o holds.
LEMMA ChildTasksOn ==
    ASSUME StateTypeOK, NEW o \in Objects, NEW fs \in FieldOrders(o),
           NEW t \in {"visit", "dec", "scan", "black", "white"}
    PROVE  /\ ChildTasks(o, fs, t) \in Seq(Tasks)
           /\ On(ChildTasks(o, fs, t)) = {Task(t, c) : c \in Kids(o)}
<1>1. /\ Len(fs) \in Nat
      /\ \A i \in 1 .. Len(fs) : fs[i] \in Slots /\ edge[o][fs[i]] # NoObject
      /\ \A s \in Slots : edge[o][s] # NoObject => \E i \in 1 .. Len(fs) : fs[i] = s
  BY FieldOrder
<1>2. \A s \in Slots : edge[o][s] \in Objects \union {NoObject}
  BY DEF StateTypeOK
<1> DEFINE ct == ChildTasks(o, fs, t)
<1>3. \A i \in 1 .. Len(fs) : Task(t, edge[o][fs[i]]) \in Tasks
  BY <1>1, <1>2 DEF Task, Tasks
<1>4. ct \in [1 .. Len(fs) -> Tasks]
  BY <1>3 DEF ChildTasks
<1>5. ct \in Seq(Tasks)
  BY <1>1, <1>4, SeqDef
<1>6. DOMAIN ct = 1 .. Len(ct) /\ Len(ct) \in Nat
  BY <1>5, LenProperties
<1>7. Len(ct) = Len(fs)
  <2>1. 1 .. Len(ct) = 1 .. Len(fs)
    BY <1>4, <1>6
  <2> QED BY <1>1, <1>6, <2>1, SameInterval
<1>8. \A i \in 1 .. Len(fs) : ct[i] = Task(t, edge[o][fs[i]])
  BY DEF ChildTasks
<1>9. On(ct) = {Task(t, c) : c \in Kids(o)}
  <2>1. On(ct) \subseteq {Task(t, c) : c \in Kids(o)}
    BY <1>1, <1>7, <1>8 DEF On, Kids
  <2>2. ASSUME NEW c \in Kids(o) PROVE Task(t, c) \in On(ct)
    <3>1. PICK s \in Slots : edge[o][s] = c /\ c # NoObject
      BY DEF Kids
    <3>2. PICK i \in 1 .. Len(fs) : fs[i] = s
      BY <1>1, <3>1
    <3> QED BY <1>7, <1>8, <3>1, <3>2 DEF On
  <2> QED BY <2>1, <2>2
<1> QED BY <1>5, <1>9

\* mark_gray's tasks: a decrement and a visit of each object that o holds, the
\* visit above the decrement, and as many decrements as fields.
LEMMA MarkTasksOn ==
    ASSUME StateTypeOK, NEW o \in Objects, NEW fs \in FieldOrders(o)
    PROVE  /\ MarkTasks(o, fs) \in Seq(Tasks)
           /\ On(MarkTasks(o, fs))
                = {Task("dec", c) : c \in Kids(o)} \union {Task("visit", c) : c \in Kids(o)}
           /\ \A i \in 1 .. Len(MarkTasks(o, fs)) :
                  MarkTasks(o, fs)[i].task = "dec" =>
                      \E j \in i + 1 .. Len(MarkTasks(o, fs)) :
                          MarkTasks(o, fs)[j] = Task("visit", MarkTasks(o, fs)[i].obj)
           /\ \A c \in Objects :
                  Cardinality(DecsOn(MarkTasks(o, fs), c)) = Cardinality(FieldsTo(o, c))
<1> DEFINE mt == MarkTasks(o, fs)
           n == Len(fs)
           kid(k) == edge[o][fs[k]]
<1>1. /\ n \in Nat
      /\ \A i \in 1 .. n : fs[i] \in Slots /\ edge[o][fs[i]] # NoObject
      /\ \A i, j \in 1 .. n : fs[i] = fs[j] => i = j
      /\ \A s \in Slots : edge[o][s] # NoObject => \E i \in 1 .. n : fs[i] = s
  BY FieldOrder
<1>2. \A k \in 1 .. n : kid(k) \in Objects
  BY <1>1 DEF StateTypeOK
<1>3. ASSUME NEW i \in 1 .. 2 * n
      PROVE  (i + 1) \div 2 \in 1 .. n
  BY <1>1
<1>4. \A i \in 1 .. 2 * n : mt[i] \in Tasks
  BY <1>2, <1>3 DEF MarkTasks, Task, Tasks
<1>5. mt \in [1 .. 2 * n -> Tasks] /\ 2 * n \in Nat
  BY <1>1, <1>2, <1>3 DEF MarkTasks, Task, Tasks
<1>6. mt \in Seq(Tasks)
  BY <1>5, SeqDef
<1>7. Len(mt) = 2 * n
  <2>1. DOMAIN mt = 1 .. Len(mt) /\ Len(mt) \in Nat
    BY <1>6, LenProperties
  <2>2. 1 .. Len(mt) = 1 .. 2 * n
    BY <1>5, <2>1
  <2> QED BY <1>5, <2>1, <2>2, SameInterval
<1>8. ASSUME NEW k \in 1 .. n
      PROVE  /\ 2 * k - 1 \in 1 .. 2 * n /\ 2 * k \in 1 .. 2 * n
             /\ 2 * k \in (2 * k - 1) + 1 .. 2 * n
             /\ mt[2 * k - 1] = Task("dec", kid(k))
             /\ mt[2 * k] = Task("visit", kid(k))
  <2>1. /\ 2 * k - 1 \in 1 .. 2 * n /\ 2 * k \in 1 .. 2 * n
        /\ 2 * k \in (2 * k - 1) + 1 .. 2 * n
    BY <1>1
  <2>2. /\ (2 * k - 1) % 2 = 1 /\ ((2 * k - 1) + 1) \div 2 = k
        /\ (2 * k) % 2 # 1 /\ (2 * k + 1) \div 2 = k
    BY <1>1
  <2> QED BY <2>1, <2>2 DEF MarkTasks
<1>9. ASSUME NEW i \in 1 .. 2 * n
      PROVE  \E k \in 1 .. n : i = 2 * k - 1 \/ i = 2 * k
  <2>1. i = 2 * ((i + 1) \div 2) - 1 \/ i = 2 * ((i + 1) \div 2)
    BY <1>1
  <2> QED BY <1>3, <2>1
<1> HIDE DEF mt, kid
<1>10. On(mt) = {Task("dec", c) : c \in Kids(o)} \union {Task("visit", c) : c \in Kids(o)}
  <2>1. \A k \in 1 .. n : kid(k) \in Kids(o)
    BY <1>1 DEF kid, Kids
  <2>2. ASSUME NEW i \in 1 .. Len(mt)
        PROVE  \E c \in Kids(o) : mt[i] = Task("dec", c) \/ mt[i] = Task("visit", c)
    <3>1. PICK k \in 1 .. n : i = 2 * k - 1 \/ i = 2 * k
      BY <1>7, <1>9
    <3> QED BY <1>8, <2>1, <3>1
  <2>3. ASSUME NEW c \in Kids(o)
        PROVE  Task("dec", c) \in On(mt) /\ Task("visit", c) \in On(mt)
    <3>1. PICK s \in Slots : edge[o][s] = c /\ c # NoObject
      BY DEF Kids
    <3>2. PICK k \in 1 .. n : fs[k] = s
      BY <1>1, <3>1
    <3>3. kid(k) = c
      BY <3>1, <3>2 DEF kid
    <3> QED BY <1>7, <1>8, <3>3 DEF On
  <2>4. On(mt) \subseteq {Task("dec", c) : c \in Kids(o)}
                         \union {Task("visit", c) : c \in Kids(o)}
    BY <2>2 DEF On
  <2> QED BY <2>3, <2>4
<1>11. ASSUME NEW i \in 1 .. Len(mt), mt[i].task = "dec"
       PROVE  \E j \in i + 1 .. Len(mt) : mt[j] = Task("visit", mt[i].obj)
  <2>1. PICK k \in 1 .. n : i = 2 * k - 1 \/ i = 2 * k
    BY <1>7, <1>9
  <2>2. i # 2 * k
    <3>1. Task("visit", kid(k)).task = "visit"
      BY DEF Task
    <3>2. mt[2 * k].task # "dec"
      BY <1>8, <3>1
    <3> QED BY <1>11, <3>2
  <2>3. i = 2 * k - 1 /\ mt[i] = Task("dec", kid(k)) /\ mt[2 * k] = Task("visit", kid(k))
        /\ 2 * k \in i + 1 .. Len(mt)
    BY <1>7, <1>8, <2>1, <2>2
  <2>4. mt[i].obj = kid(k)
    BY <2>3 DEF Task
  <2> QED BY <2>3, <2>4
<1>12. ASSUME NEW c \in Objects
       PROVE  Cardinality(DecsOn(mt, c)) = Cardinality(FieldsTo(o, c))
  <2> DEFINE F == FieldsTo(o, c)
             pos(s) == CHOOSE k \in 1 .. n : fs[k] = s
             f == [s \in F |-> 2 * pos(s) - 1]
  <2>1. IsFiniteSet(F)
    BY CollectorAssumption, FS_Subset DEF FieldsTo
  <2>2. \A s \in F : pos(s) \in 1 .. n /\ fs[pos(s)] = s /\ kid(pos(s)) = c
    BY <1>1, CollectorAssumption DEF FieldsTo, kid
  <2> HIDE DEF pos
  <2>3. \A s \in F : 2 * pos(s) - 1 \in DecsOn(mt, c)
    BY <1>7, <1>8, <2>2 DEF DecsOn
  <2>4. \A s, t \in F : 2 * pos(s) - 1 = 2 * pos(t) - 1 => s = t
    <3> SUFFICES ASSUME NEW s \in F, NEW t \in F, 2 * pos(s) - 1 = 2 * pos(t) - 1
                 PROVE  s = t
      OBVIOUS
    <3>1. pos(s) \in Nat /\ pos(t) \in Nat
      BY <1>1, <2>2
    <3>2. pos(s) = pos(t)
      BY <3>1
    <3> QED BY <2>2, <3>2
  <2>5. ASSUME NEW i \in DecsOn(mt, c) PROVE \E s \in F : 2 * pos(s) - 1 = i
    <3>1. i \in 1 .. Len(mt) /\ mt[i] = Task("dec", c)
      BY DEF DecsOn
    <3>2. PICK k \in 1 .. n : i = 2 * k - 1 \/ i = 2 * k
      BY <1>7, <1>9, <3>1
    <3>3. i = 2 * k - 1 /\ kid(k) = c
      <4>1. /\ Task("visit", kid(k)).task = "visit" /\ Task("dec", c).task = "dec"
            /\ Task("dec", kid(k)).obj = kid(k) /\ Task("dec", c).obj = c
        BY DEF Task
      <4>2. mt[2 * k] # Task("dec", c)
        BY <1>8, <4>1
      <4>3. i = 2 * k - 1
        BY <3>1, <3>2, <4>2
      <4>4. mt[i] = Task("dec", kid(k))
        BY <1>8, <4>3
      <4> QED BY <3>1, <4>1, <4>3, <4>4
    <3>4. fs[k] \in F
      BY <1>1, <3>3 DEF kid, FieldsTo
    <3>5. pos(fs[k]) = k
      BY <1>1, <2>2, <3>4
    <3> QED BY <3>3, <3>4, <3>5
  <2>6. f \in Bijection(F, DecsOn(mt, c))
    <3> HIDE DEF F
    <3> QED BY <2>3, <2>4, <2>5 DEF Bijection, Injection, Surjection, IsInjective
  <2>7. ExistsBijection(F, DecsOn(mt, c))
    BY <2>6 DEF ExistsBijection
  <2> QED BY <2>1, <2>7, FS_Bijection
<1> QED BY <1>6, <1>10, <1>11, <1>12 DEF mt

\* The decrements on a stack are finitely many.
LEMMA DecsFinite ==
    ASSUME NEW r \in Seq(Tasks), NEW c
    PROVE  IsFiniteSet(DecsOn(r, c)) /\ Cardinality(DecsOn(r, c)) \in Nat
<1>1. Len(r) \in Nat
  BY LenProperties
<1>2. IsFiniteSet(1 .. Len(r))
  BY <1>1, FS_Interval
<1> QED BY <1>2, FS_Subset, FS_CardinalityType DEF DecsOn

\* The decrements after a push.
LEMMA PushedDecs ==
    ASSUME NEW r \in Seq(Tasks), NEW ts \in Seq(Tasks), NEW c
    PROVE  Cardinality(DecsOn(Push(r, ts), c))
             = Cardinality(DecsOn(r, c)) + Cardinality(DecsOn(ts, c))
<1> DEFINE A == DecsOn(r, c)
           B == DecsOn(ts, c)
           D == {i \in 1 .. Len(Push(r, ts)) : i > Len(r) /\ Push(r, ts)[i] = Task("dec", c)}
           f == [i \in B |-> Len(r) + i]
<1>1. /\ Len(Push(r, ts)) = Len(r) + Len(ts) /\ Len(r) \in Nat /\ Len(ts) \in Nat
      /\ \A i \in 1 .. Len(r) : Push(r, ts)[i] = r[i]
      /\ \A i \in 1 .. Len(ts) : Push(r, ts)[Len(r) + i] = ts[i]
  BY Pushed
<1>2. IsFiniteSet(A) /\ IsFiniteSet(B) /\ Cardinality(A) \in Nat /\ Cardinality(B) \in Nat
  BY DecsFinite
<1>3. f \in Bijection(B, D)
  <2>1. \A i \in B : f[i] \in D
    <3> SUFFICES ASSUME NEW i \in B PROVE Len(r) + i \in D
      OBVIOUS
    <3>1. i \in 1 .. Len(ts) /\ ts[i] = Task("dec", c)
      BY DEF DecsOn
    <3>2. Len(r) + i \in 1 .. Len(Push(r, ts)) /\ Len(r) + i > Len(r)
      BY <1>1, <3>1
    <3> QED BY <1>1, <3>1, <3>2
  <2>2. \A i, j \in B : f[i] = f[j] => i = j
    BY <1>1 DEF DecsOn
  <2>3. ASSUME NEW k \in D PROVE \E i \in B : f[i] = k
    <3>1. k - Len(r) \in 1 .. Len(ts) /\ k = Len(r) + (k - Len(r))
      BY <1>1
    <3>2. ts[k - Len(r)] = Task("dec", c)
      BY <1>1, <3>1
    <3>3. k - Len(r) \in B
      BY <3>1, <3>2 DEF DecsOn
    <3> QED BY <3>1, <3>3
  <2> HIDE DEF B, D
  <2> QED BY <2>1, <2>2, <2>3 DEF Bijection, Injection, Surjection, IsInjective
<1>4. IsFiniteSet(D) /\ Cardinality(D) = Cardinality(B)
  <2>1. ExistsBijection(B, D)
    BY <1>3 DEF ExistsBijection
  <2> QED BY <1>2, <2>1, FS_Bijection
<1>5. DecsOn(Push(r, ts), c) = A \union D
  <2>1. \A i \in 1 .. Len(r) : i \in 1 .. Len(Push(r, ts))
    BY <1>1
  <2>2. \A i \in 1 .. Len(Push(r, ts)) : i \in 1 .. Len(r) \/ i > Len(r)
    BY <1>1
  <2>3. A \union D \subseteq DecsOn(Push(r, ts), c)
    BY <1>1, <2>1 DEF DecsOn
  <2>4. DecsOn(Push(r, ts), c) \subseteq A \union D
    BY <1>1, <2>2 DEF DecsOn
  <2> QED BY <2>3, <2>4
<1>6. A \intersect D = {}
  BY <1>1 DEF DecsOn
<1> HIDE DEF A, B, D
<1>7. Cardinality(A \union D) = Cardinality(A) + Cardinality(D) - 0
  BY <1>2, <1>4, <1>6, FS_Union, FS_EmptySet
<1>8. Cardinality(A \union D) = Cardinality(A) + Cardinality(B)
  BY <1>2, <1>4, <1>7
<1> QED BY <1>2, <1>5, <1>8 DEF A, B

-----------------------------------------------------------------------------
(* The program's steps. *)

\* References are counted by natural numbers.
LEMMA RefsSum ==
    ASSUME StateTypeOK, NEW o \in Objects
    PROVE  /\ held[o] \in Nat /\ pending[o] \in Nat /\ strong[o] \in Nat
           /\ Cardinality(InEdges(o, edge)) \in Nat
           /\ Refs(o) = held[o] + pending[o] + Cardinality(InEdges(o, edge))
           /\ Refs(o) \in Nat
           /\ InEdges(o, edge) = Into(Objects, o, edge)
           /\ IsFiniteSet(InEdges(o, edge))
<1>1. InEdges(o, edge) = Into(Objects, o, edge)
  BY DEF InEdges, Into
<1>2. IsFiniteSet(InEdges(o, edge)) /\ Cardinality(InEdges(o, edge)) \in Nat
  BY <1>1, IntoMonotone
<1>3. held[o] \in Nat /\ pending[o] \in Nat /\ strong[o] \in Nat
  BY DEF StateTypeOK
<1>4. Refs(o) = held[o] + pending[o] + Cardinality(InEdges(o, edge))
  BY DEF Refs, RefsIn
<1> QED BY <1>1, <1>2, <1>3, <1>4

\* Whatever is referred to is live.
LEMMA ReferredLive ==
    ASSUME StateTypeOK, HeapInv, NEW o \in Objects
    PROVE  /\ held[o] > 0 => life[o] = "live"
           /\ pending[o] > 0 => life[o] = "live"
           /\ \A p \in Objects, s \in Slots : edge[p][s] = o => life[o] = "live"
           /\ life[o] # "live" => InEdges(o, edge) = {} /\ held[o] = 0 /\ pending[o] = 0
<1> DEFINE n == Cardinality(InEdges(o, edge))
<1>1. /\ held[o] \in Nat /\ pending[o] \in Nat /\ n \in Nat
      /\ Refs(o) = held[o] + pending[o] + n
      /\ IsFiniteSet(InEdges(o, edge))
  BY RefsSum
<1>2. ASSUME life[o] # "live"
      PROVE  held[o] = 0 /\ pending[o] = 0 /\ n = 0
  <2>1. Refs(o) = 0
    BY <1>2 DEF HeapInv
  <2>2. \A a, b, c \in Nat : a + b + c = 0 => a = 0 /\ b = 0 /\ c = 0
    OBVIOUS
  <2> HIDE DEF n
  <2> QED BY <1>1, <2>1, <2>2
<1>3. life[o] # "live" => InEdges(o, edge) = {}
  BY <1>1, <1>2, FS_EmptySet
<1>4. ASSUME NEW p \in Objects, NEW s \in Slots, edge[p][s] = o
      PROVE  life[o] = "live"
  <2>1. <<p, s>> \in InEdges(o, edge)
    BY <1>4 DEF InEdges
  <2> QED BY <1>3, <2>1
<1> QED BY <1>1, <1>2, <1>3, <1>4

\* The heap invariant and what it says of the buffer, from the facts about a
\* step.
LEMMA HeapKept ==
    ASSUME StateTypeOK, StateTypeOK',
           \A x \in Objects :
               /\ life'[x] = "live" => strong'[x] >= Refs(x)' /\ strong'[x] > 0
               /\ life'[x] # "live" => /\ strong'[x] = 0 /\ Refs(x)' = 0
                                       /\ edge'[x] = NoFields
               /\ life'[x] = "cleared" => x = dying'
    PROVE  HeapInv'
BY DEF HeapInv

\* StructValue::new: a fresh object with one reference.
LEMMA NewStep ==
    ASSUME IInv, NEW o \in Objects, New(o)
    PROVE  IInv'
<1>1. StateTypeOK /\ HeapInv /\ Buffering /\ Anchored /\ IdleInv
  BY DEF IInv, New, Quiet
<1>2. StateTypeOK'
  BY <1>1 DEF StateTypeOK, Colors, New, gcVars
<1>3. held[o] = 0 /\ pending[o] = 0 /\ Cardinality(InEdges(o, edge)) = 0
      /\ o \notin RootSet /\ life[o] = "absent"
  BY <1>1, ReferredLive, FS_EmptySet DEF HeapInv, Buffering, New
<1>4. /\ phase = "idle" /\ phase' = "idle" /\ roots' = roots /\ dying' = dying
      /\ edge' = edge /\ pending' = pending
      /\ idx' = idx /\ stk' = stk /\ seen' = seen /\ condemned' = condemned
  BY DEF New, Quiet, gcVars
<1>5. \A x \in Objects :
         /\ life'[x] = IF x = o THEN "live" ELSE life[x]
         /\ strong'[x] = IF x = o THEN 1 ELSE strong[x]
         /\ x # o => buffered'[x] = buffered[x]
         /\ held'[x] = IF x = o THEN 1 ELSE held[x]
         /\ color'[x] = IF x = o THEN "black" ELSE color[x]
  BY <1>1 DEF StateTypeOK, New
<1>6. ~buffered'[o]
  BY <1>1 DEF StateTypeOK, New
<1>7. ASSUME NEW x \in Objects
      PROVE  Refs(x)' = IF x = o THEN 1 ELSE Refs(x)
  <2> DEFINE n == Cardinality(InEdges(x, edge))
  <2>1. /\ Refs(x) = held[x] + pending[x] + n /\ n \in Nat
        /\ Refs(x)' = held'[x] + pending[x] + n
        /\ held[x] \in Nat /\ pending[x] \in Nat
    BY <1>1, <1>4, RefsSum DEF Refs, RefsIn
  <2>2. x = o => held[x] = 0 /\ pending[x] = 0 /\ n = 0
    BY <1>3
  <2> HIDE DEF n
  <2> QED BY <1>5, <2>1, <2>2
<1>8. HeapInv'
  <2> SUFFICES ASSUME NEW x \in Objects
               PROVE  /\ life'[x] = "live" => strong'[x] >= Refs(x)' /\ strong'[x] > 0
                      /\ life'[x] # "live" => /\ strong'[x] = 0 /\ Refs(x)' = 0
                                              /\ edge'[x] = NoFields
                      /\ life'[x] = "cleared" => x = dying'
    BY <1>1, <1>2, HeapKept
  <2>1. CASE x = o
    BY <1>5, <1>7, <2>1
  <2>2. CASE x # o
    BY <1>1, <1>4, <1>5, <1>7, <2>2 DEF HeapInv
  <2> QED BY <2>1, <2>2
<1>9. RootSet' = RootSet /\ RootSet \subseteq Objects
  BY <1>4 DEF RootSet
<1>10. Live' = Live \union {o}
  BY <1>5 DEF Live
<1>11. Buffering'
  <2>1. \A x \in Live' : buffered'[x] => x \in RootSet'
    BY <1>1, <1>5, <1>6, <1>9, <1>10 DEF Buffering, Live
  <2>2. \A x \in RootSet' \intersect Live' : buffered'[x]
    BY <1>1, <1>3, <1>4, <1>5, <1>9, <1>10 DEF Buffering, Live
  <2>3. \A x \in RootSet' : life'[x] # "absent"
    BY <1>1, <1>3, <1>5, <1>9 DEF Buffering
  <2> QED BY <2>1, <2>2, <2>3 DEF Buffering
<1>12. Anchored'
  <2> SUFFICES ASSUME NEW S \in SUBSET Objects, Anchors' \subseteq S, Closed(S, edge)
               PROVE  Live' \subseteq S
    BY <1>4 DEF Anchored
  <2>1. o \in S
    <3>1. held'[o] > 0
      BY <1>5
    <3> QED BY <3>1 DEF Anchors
  <2>2. Inflated \subseteq Inflated'
    BY <1>3, <1>5, <1>7 DEF Inflated
  <2>3. \A x \in Objects : held[x] > 0 \/ pending[x] > 0 => held'[x] > 0 \/ pending'[x] > 0
    BY <1>3, <1>4, <1>5
  <2>4. Anchors \subseteq S
    BY <1>9, <2>2, <2>3 DEF Anchors
  <2>5. Live \subseteq S
    BY <1>1, <2>4 DEF Anchored
  <2> QED BY <1>10, <2>1, <2>5
<1>13. IdleInv'
  BY <1>1, <1>4, <1>5 DEF IdleInv, Marked, Gray, White
<1> QED BY <1>2, <1>4, <1>8, <1>11, <1>12, <1>13 DEF IInv

\* A clone, a field read or a weak upgrade: a counted reference to a live
\* object.
LEMMA RetainStep ==
    ASSUME IInv, NEW o \in Objects, Quiet, life[o] = "live", Retain(o)
    PROVE  IInv'
<1> USE DEF Retain, Quiet, gcVars, metaVars
<1>1. StateTypeOK /\ HeapInv /\ Buffering /\ Anchored /\ IdleInv
  BY DEF IInv
<1>2. StateTypeOK'
  BY <1>1 DEF StateTypeOK
<1>3. \A x \in Objects :
         /\ strong'[x] = IF x = o THEN strong[x] + 1 ELSE strong[x]
         /\ held'[x] = IF x = o THEN held[x] + 1 ELSE held[x]
  BY <1>1 DEF StateTypeOK
<1>4. ASSUME NEW x \in Objects
      PROVE  /\ Refs(x)' = IF x = o THEN Refs(x) + 1 ELSE Refs(x)
             /\ Refs(x) \in Nat /\ strong[x] \in Nat /\ held[x] \in Nat
  <2> DEFINE n == Cardinality(InEdges(x, edge))
  <2>1. /\ Refs(x) = held[x] + pending[x] + n /\ n \in Nat
        /\ Refs(x)' = held'[x] + pending[x] + n
        /\ held[x] \in Nat /\ pending[x] \in Nat /\ strong[x] \in Nat
    BY <1>1, RefsSum DEF Refs, RefsIn
  <2> HIDE DEF n
  <2> QED BY <1>3, <2>1
<1>6. HeapInv'
  BY <1>1, <1>3, <1>4 DEF HeapInv
<1>7. RootSet' = RootSet
  BY DEF RootSet
<1>8. Buffering'
  BY <1>1, <1>7 DEF Buffering, Live
<1>9. Anchored'
  <2> SUFFICES ASSUME NEW S \in SUBSET Objects, Anchors' \subseteq S, Closed(S, edge)
               PROVE  Live \subseteq S
    BY DEF Anchored, Live
  <2>1. \A x \in Inflated : x \in Inflated'
    BY <1>3, <1>4 DEF Inflated
  <2>2. \A x \in Objects : held[x] > 0 => held'[x] > 0
    BY <1>3, <1>4
  <2>3. Anchors \subseteq S
    BY <1>7, <2>1, <2>2 DEF Anchors
  <2> QED BY <1>1, <2>3 DEF Anchored
<1>10. IdleInv'
  BY <1>1 DEF IdleInv, Marked, Gray, White
<1> QED BY <1>2, <1>6, <1>8, <1>9, <1>10 DEF IInv

\* A value is dropped: a reference changes hands.
LEMMA DropStep ==
    ASSUME IInv, NEW o \in Objects, DropValue(o)
    PROVE  IInv'
<1> USE DEF DropValue, Quiet, gcVars, metaVars
<1>1. StateTypeOK /\ HeapInv /\ Buffering /\ Anchored /\ IdleInv
  BY DEF IInv
<1>2. StateTypeOK'
  BY <1>1 DEF StateTypeOK
<1>3. \A x \in Objects :
         /\ held'[x] = IF x = o THEN held[x] - 1 ELSE held[x]
         /\ pending'[x] = IF x = o THEN pending[x] + 1 ELSE pending[x]
  BY <1>1 DEF StateTypeOK
<1>4. ASSUME NEW x \in Objects
      PROVE  /\ Refs(x)' = Refs(x)
             /\ held[x] \in Nat /\ pending[x] \in Nat
  <2> DEFINE n == Cardinality(InEdges(x, edge))
  <2>1. /\ Refs(x) = held[x] + pending[x] + n /\ n \in Nat
        /\ Refs(x)' = held'[x] + pending'[x] + n
        /\ held[x] \in Nat /\ pending[x] \in Nat
    BY <1>1, RefsSum DEF Refs, RefsIn
  <2> HIDE DEF n
  <2> QED BY <1>3, <2>1
<1>6. HeapInv'
  BY <1>1, <1>4 DEF HeapInv
<1>7. RootSet' = RootSet
  BY DEF RootSet
<1>8. Buffering'
  BY <1>1, <1>7 DEF Buffering, Live
<1>9. Anchored'
  <2> SUFFICES ASSUME NEW S \in SUBSET Objects, Anchors' \subseteq S, Closed(S, edge)
               PROVE  Live \subseteq S
    BY DEF Anchored, Live
  <2>1. Inflated' = Inflated
    BY <1>4 DEF Inflated
  <2>2. \A x \in Objects : held[x] > 0 \/ pending[x] > 0 => held'[x] > 0 \/ pending'[x] > 0
    BY <1>3, <1>4
  <2>3. Anchors \subseteq S
    BY <1>7, <2>1, <2>2 DEF Anchors
  <2> QED BY <1>1, <2>3 DEF Anchored
<1>10. IdleInv'
  BY <1>1 DEF IdleInv, Marked, Gray, White
<1> QED BY <1>2, <1>6, <1>8, <1>9, <1>10 DEF IInv

\* A field write moves one edge.
LEMMA IntoWrite ==
    ASSUME StateTypeOK, NEW o \in Objects, NEW s \in Slots, NEW p \in Objects, NEW x \in Objects
    PROVE  Cardinality(InEdges(x, [edge EXCEPT ![o][s] = p]))
             = Cardinality(InEdges(x, edge)) + (IF x = p THEN 1 ELSE 0)
                                             - (IF x = edge[o][s] THEN 1 ELSE 0)
<1> DEFINE e2 == [edge EXCEPT ![o][s] = p]
           A == InEdges(x, edge)
           B == InEdges(x, e2)
<1>1. IsFiniteSet(A) /\ Cardinality(A) \in Nat
  BY RefsSum
<1>2. ASSUME NEW y \in Objects \X Slots
      PROVE  e2[y[1]][y[2]] = IF y = <<o, s>> THEN p ELSE edge[y[1]][y[2]]
  <2>1. y[1] \in Objects /\ y[2] \in Slots /\ (y = <<o, s>> <=> y[1] = o /\ y[2] = s)
    OBVIOUS
  <2>2. edge \in [Objects -> [Slots -> Objects \union {NoObject}]]
    BY DEF StateTypeOK
  <2> QED BY <2>1, <2>2
<1>3. <<o, s>> \in A <=> x = edge[o][s]
  BY DEF InEdges
<1>4. CASE x = p
  <2>1. B = A \union {<<o, s>>}
    BY <1>2, <1>4 DEF InEdges
  <2>2. Cardinality(B) = IF <<o, s>> \in A THEN Cardinality(A) ELSE Cardinality(A) + 1
    BY <1>1, <2>1, FS_AddElement
  <2> HIDE DEF A, B
  <2> QED BY <1>1, <1>3, <1>4, <2>2 DEF A, B
<1>5. CASE x # p
  <2>1. B = A \ {<<o, s>>}
    BY <1>2, <1>5 DEF InEdges
  <2>2. Cardinality(B) = IF <<o, s>> \in A THEN Cardinality(A) - 1 ELSE Cardinality(A)
    BY <1>1, <2>1, FS_RemoveElement
  <2> HIDE DEF A, B
  <2> QED BY <1>1, <1>3, <1>5, <2>2 DEF A, B
<1> QED BY <1>4, <1>5

\* set_field: every reference stays counted.
LEMMA SetFieldStep ==
    ASSUME IInv, NEW o \in Objects, NEW s \in Slots, NEW p \in Objects, SetField(o, s, p)
    PROVE  IInv'
<1> DEFINE old == edge[o][s]
<1>1. StateTypeOK /\ HeapInv /\ Buffering /\ Anchored /\ IdleInv
  BY DEF IInv, SetField, Quiet
<1>2. old \in Objects \union {NoObject} /\ NoObject \notin Objects
  BY <1>1, CollectorAssumption DEF StateTypeOK
<1>3. /\ phase = "idle" /\ phase' = "idle" /\ roots' = roots /\ dying' = dying
      /\ life' = life /\ strong' = strong /\ color' = color /\ buffered' = buffered
      /\ shadow' = shadow
      /\ idx' = idx /\ stk' = stk /\ seen' = seen /\ condemned' = condemned
      /\ life[o] = "live" /\ held[o] > 0 /\ held[p] > 0 /\ (o = p => held[o] > 1)
      /\ edge' = [edge EXCEPT ![o][s] = p]
  BY DEF SetField, Quiet, gcVars, metaVars
<1>4. \A x \in Objects :
         /\ held'[x] = IF x = p THEN held[x] - 1 ELSE held[x]
         /\ pending'[x] = IF x = old THEN pending[x] + 1 ELSE pending[x]
         /\ \A t \in Slots : edge'[x][t] = IF x = o /\ t = s THEN p ELSE edge[x][t]
         /\ x # o => edge'[x] = edge[x]
  BY <1>1, <1>2 DEF StateTypeOK, SetField
<1>5. StateTypeOK'
  <2>1. held' \in [Objects -> Nat]
    BY <1>1, <1>3 DEF StateTypeOK, SetField
  <2>2. pending' \in [Objects -> Nat]
    <3>1. pending \in [Objects -> Nat]
      BY <1>1 DEF StateTypeOK
    <3>2. pending' = IF old = NoObject THEN pending
                     ELSE [pending EXCEPT ![old] = @ + 1]
      BY DEF SetField
    <3> HIDE DEF old
    <3> QED BY <1>2, <3>1, <3>2
  <2>3. edge' \in [Objects -> [Slots -> Objects \union {NoObject}]]
    BY <1>1, <1>3 DEF StateTypeOK
  <2> QED BY <1>1, <1>3, <2>1, <2>2, <2>3 DEF StateTypeOK
<1>6. ASSUME NEW x \in Objects
      PROVE  Refs(x)' = Refs(x)
  <2> DEFINE n == Cardinality(InEdges(x, edge))
             m == Cardinality(InEdges(x, edge'))
  <2>1. /\ Refs(x) = held[x] + pending[x] + n /\ n \in Nat
        /\ Refs(x)' = held'[x] + pending'[x] + m
        /\ held[x] \in Nat /\ pending[x] \in Nat
    BY <1>1, RefsSum DEF Refs, RefsIn
  <2>2. m = n + (IF x = p THEN 1 ELSE 0) - (IF x = old THEN 1 ELSE 0)
    <3>1. Cardinality(InEdges(x, [edge EXCEPT ![o][s] = p]))
            = Cardinality(InEdges(x, edge)) + (IF x = p THEN 1 ELSE 0)
                                            - (IF x = edge[o][s] THEN 1 ELSE 0)
      BY <1>1, IntoWrite
    <3> QED BY <1>3, <3>1
  <2> HIDE DEF n, m, old
  <2> QED BY <1>4, <2>1, <2>2
<1>7. HeapInv'
  <2> SUFFICES ASSUME NEW x \in Objects
               PROVE  /\ life'[x] = "live" => strong'[x] >= Refs(x)' /\ strong'[x] > 0
                      /\ life'[x] # "live" => /\ strong'[x] = 0 /\ Refs(x)' = 0
                                              /\ edge'[x] = NoFields
                      /\ life'[x] = "cleared" => x = dying'
    BY <1>1, <1>5, HeapKept
  <2> QED BY <1>1, <1>3, <1>4, <1>6 DEF HeapInv
<1>8. RootSet' = RootSet /\ RootSet \subseteq Objects /\ Live' = Live
  BY <1>3 DEF RootSet, Live
<1>9. Buffering'
  BY <1>1, <1>3, <1>8 DEF Buffering
<1>10. Anchored'
  <2> SUFFICES ASSUME NEW S \in SUBSET Objects, Anchors' \subseteq S, Closed(S, edge')
               PROVE  Live \subseteq S
    BY <1>8 DEF Anchored
  <2>1. \A x \in Objects : held[x] \in Nat /\ pending[x] \in Nat
    BY <1>1 DEF StateTypeOK
  <2>2. o \in S
    <3>1. held'[o] > 0
      BY <1>3, <1>4, <2>1
    <3> QED BY <3>1 DEF Anchors
  <2>3. p \in S
    BY <1>2, <1>4, <2>2 DEF Closed
  <2>4. old # NoObject => old \in S
    <3> SUFFICES ASSUME old # NoObject PROVE old \in S
      OBVIOUS
    <3>1. old \in Objects
      BY <1>2
    <3>2. pending'[old] > 0
      BY <1>4, <2>1, <3>1
    <3> QED BY <3>1, <3>2 DEF Anchors
  <2>5. Inflated = Inflated'
    BY <1>3, <1>6 DEF Inflated
  <2>6. \A x \in Objects :
            held[x] > 0 \/ pending[x] > 0 => x = p \/ held'[x] > 0 \/ pending'[x] > 0
    BY <1>4, <2>1
  <2>7. Anchors \subseteq S
    BY <1>8, <2>3, <2>5, <2>6 DEF Anchors
  <2>8. Closed(S, edge)
    <3> SUFFICES ASSUME NEW q \in S, NEW t \in Slots, edge[q][t] # NoObject
                 PROVE  edge[q][t] \in S
      BY DEF Closed
    <3>1. CASE q = o /\ t = s
      BY <2>4, <3>1
    <3>2. CASE ~(q = o /\ t = s)
      <4>1. edge'[q][t] = edge[q][t]
        BY <1>4, <3>2
      <4> QED BY <4>1 DEF Closed
    <3> QED BY <3>1, <3>2
  <2> QED BY <1>1, <2>7, <2>8 DEF Anchored
<1>11. IdleInv'
  BY <1>1, <1>3 DEF IdleInv, Marked, Gray, White
<1> QED BY <1>3, <1>5, <1>7, <1>9, <1>10, <1>11 DEF IInv

-----------------------------------------------------------------------------
(* release_object *)

\* A payload that is cleared hands its references over to pending.
LEMMA PayloadDropped ==
    ASSUME StateTypeOK, NEW o \in Objects, NEW x \in Objects, NEW q \in [Objects -> Nat]
    PROVE  /\ Dropped(q, o)[x] \in Nat
           /\ Dropped(q, o)[x] + Cardinality(InEdges(x, [edge EXCEPT ![o] = NoFields]))
                = q[x] + Cardinality(InEdges(x, edge))
           /\ \A s \in Slots : edge[o][s] = x => Dropped(q, o)[x] > 0
           /\ Dropped(q, o)[x] >= q[x]
           /\ Cardinality(InEdges(x, [edge EXCEPT ![o] = NoFields])) \in Nat
<1> DEFINE e2 == [edge EXCEPT ![o] = NoFields]
<1>1. InEdges(x, e2) = Into(Objects \ {o}, x, edge)
  <2>1. \A y \in Objects \X Slots :
            e2[y[1]][y[2]] = IF y[1] = o THEN NoObject ELSE edge[y[1]][y[2]]
    BY DEF StateTypeOK, NoFields
  <2> QED BY <2>1, CollectorAssumption DEF InEdges, Into
<1>2. InEdges(x, edge) = Into(Objects, x, edge)
  BY DEF InEdges, Into
<1> DEFINE a == Cardinality(InEdges(x, e2))
           b == Cardinality(InEdges(x, edge))
           c == Cardinality(FieldsTo(o, x))
           d == Dropped(q, o)[x]
<1>0. FieldsTo(o, x) = Fields(o, x, edge)
  BY DEF FieldsTo, Fields
<1>3. b = a + c
  BY <1>0, <1>1, <1>2, IntoRemove
<1>4. a \in Nat /\ b \in Nat
  BY <1>1, <1>2, IntoMonotone
<1>5. c \in Nat /\ IsFiniteSet(FieldsTo(o, x))
  BY <1>0, IntoOne
<1>6. d = q[x] + c /\ q[x] \in Nat
  BY DEF Dropped
<1>7. ASSUME NEW s \in Slots, edge[o][s] = x PROVE c # 0
  <2>1. s \in FieldsTo(o, x)
    BY <1>7 DEF FieldsTo
  <2> QED BY <1>5, <2>1, FS_EmptySet
<1> HIDE DEF a, b, c, d
<1>8. d \in Nat /\ d + a = q[x] + b /\ (c # 0 => d > 0) /\ d >= q[x]
  BY <1>3, <1>4, <1>5, <1>6
<1> QED BY <1>4, <1>7, <1>8 DEF a, b, d

\* free_zero_path: the object had one reference, and loses it.
LEMMA ReleaseLastStep ==
    ASSUME IInv, NEW o \in Objects, ReleaseLast(o)
    PROVE  IInv'
<1> DEFINE q == [pending EXCEPT ![o] = @ - 1]
<1>1. StateTypeOK /\ HeapInv /\ Buffering /\ Anchored /\ IdleInv
  BY DEF IInv, ReleaseLast
<1>2. /\ phase = "idle" /\ phase' = "idle" /\ roots' = roots /\ held' = held
      /\ dying = NoObject /\ dying' = o
      /\ idx' = idx /\ stk' = stk /\ seen' = seen /\ condemned' = condemned
      /\ pending[o] > 0 /\ strong[o] = 1
      /\ edge' = [edge EXCEPT ![o] = NoFields] /\ pending' = Dropped(q, o)
  BY DEF ReleaseLast, gcVars
<1>3. \A x \in Objects :
         /\ life'[x] = IF x = o THEN "cleared" ELSE life[x]
         /\ strong'[x] = IF x = o THEN 0 ELSE strong[x]
         /\ x # o => buffered'[x] = buffered[x] /\ edge'[x] = edge[x]
         /\ edge'[o] = NoFields
         /\ color'[x] = IF x = o THEN "black" ELSE color[x]
         /\ q[x] = IF x = o THEN pending[x] - 1 ELSE pending[x]
  BY <1>1, <1>2 DEF StateTypeOK, ReleaseLast
<1>4. q \in [Objects -> Nat]
  BY <1>1, <1>2 DEF StateTypeOK
<1> HIDE DEF q
<1>5. ASSUME NEW x \in Objects
      PROVE  /\ Refs(x)' = IF x = o THEN Refs(x) - 1 ELSE Refs(x)
             /\ Refs(x) \in Nat /\ Refs(x)' \in Nat
             /\ pending'[x] \in Nat /\ pending'[x] >= q[x]
             /\ \A s \in Slots : edge[o][s] = x => pending'[x] > 0
  <2> DEFINE n == Cardinality(InEdges(x, edge))
             m == Cardinality(InEdges(x, edge'))
  <2>1. /\ Refs(x) = held[x] + pending[x] + n /\ n \in Nat /\ Refs(x) \in Nat
        /\ Refs(x)' = held[x] + pending'[x] + m
        /\ held[x] \in Nat /\ pending[x] \in Nat
    BY <1>1, <1>2, RefsSum DEF Refs, RefsIn
  <2>2. /\ pending'[x] \in Nat /\ m \in Nat
        /\ pending'[x] + m = q[x] + n /\ pending'[x] >= q[x]
        /\ \A s \in Slots : edge[o][s] = x => pending'[x] > 0
    BY <1>1, <1>2, <1>4, PayloadDropped
  <2>3. q[x] = IF x = o THEN pending[x] - 1 ELSE pending[x]
    BY <1>3
  <2>4. q[x] \in Nat
    BY <1>4
  <2> HIDE DEF n, m
  <2>5. Refs(x)' = held[x] + (q[x] + n)
    BY <2>1, <2>2, <2>4
  <2>6. Refs(x)' \in Nat
    BY <2>1, <2>4, <2>5
  <2>7. Refs(x)' = IF x = o THEN Refs(x) - 1 ELSE Refs(x)
    BY <2>1, <2>3, <2>5
  <2> QED BY <2>1, <2>2, <2>6, <2>7
<1>6. life[o] = "live" /\ Refs(o)' = 0
  <2>1. life[o] = "live"
    BY <1>1, <1>2, ReferredLive
  <2>2. 1 >= Refs(o)
    BY <1>1, <1>2, <2>1 DEF HeapInv
  <2> QED BY <1>5, <2>1, <2>2
<1>7. StateTypeOK'
  <2>1. pending' \in [Objects -> Nat]
    <3>1. pending' = [x \in Objects |-> pending'[x]]
      BY <1>2 DEF Dropped
    <3> QED BY <1>5, <3>1
  <2>2. edge' \in [Objects -> [Slots -> Objects \union {NoObject}]]
    BY <1>1, <1>2 DEF StateTypeOK, NoFields
  <2>3. /\ life' \in [Objects -> {"absent", "live", "cleared"}]
        /\ strong' \in [Objects -> Nat] /\ shadow' \in [Objects -> Nat]
        /\ color' \in [Objects -> Colors] /\ buffered' \in [Objects -> BOOLEAN]
    BY <1>1 DEF StateTypeOK, ReleaseLast, Colors
  <2> QED BY <1>1, <1>2, <2>1, <2>2, <2>3 DEF StateTypeOK
<1>8. HeapInv'
  <2> SUFFICES ASSUME NEW x \in Objects
               PROVE  /\ life'[x] = "live" => strong'[x] >= Refs(x)' /\ strong'[x] > 0
                      /\ life'[x] # "live" => /\ strong'[x] = 0 /\ Refs(x)' = 0
                                              /\ edge'[x] = NoFields
                      /\ life'[x] = "cleared" => x = dying'
    BY <1>1, <1>7, HeapKept
  <2>1. CASE x = o
    BY <1>2, <1>3, <1>6, <2>1
  <2>2. CASE x # o
    <3>1. life[x] = "cleared" => x = NoObject
      BY <1>1, <1>2 DEF HeapInv
    <3> QED BY <1>1, <1>3, <1>5, <2>2, <3>1, CollectorAssumption DEF HeapInv
  <2> QED BY <2>1, <2>2
<1>9. RootSet' = RootSet /\ RootSet \subseteq Objects /\ Live' = Live \ {o}
  BY <1>2, <1>3 DEF RootSet, Live
<1>10. Buffering'
  <2>1. \A x \in Live' : buffered'[x] => x \in RootSet'
    BY <1>1, <1>3, <1>9 DEF Buffering, Live
  <2>2. \A x \in RootSet' \intersect Live' : buffered'[x]
    BY <1>1, <1>2, <1>3, <1>9 DEF Buffering, Live
  <2>3. \A x \in RootSet' : life'[x] # "absent"
    BY <1>1, <1>3, <1>9 DEF Buffering
  <2> QED BY <2>1, <2>2, <2>3 DEF Buffering
<1>11. Anchored'
  <2> SUFFICES ASSUME NEW S \in SUBSET Objects, Anchors' \subseteq S, Closed(S, edge')
               PROVE  Live' \subseteq S
    BY DEF Anchored
  <2>1. \A x \in Objects : pending[x] \in Nat /\ (x # o => q[x] = pending[x])
    BY <1>1, <1>3 DEF StateTypeOK
  <2>2. \A x \in Objects :
            held[x] > 0 \/ pending[x] > 0 => x = o \/ held'[x] > 0 \/ pending'[x] > 0
    BY <1>2, <1>5, <2>1
  <2>3. \A x \in Inflated : x = o \/ x \in Inflated'
    BY <1>3, <1>5 DEF Inflated
  <2>4. Anchors \subseteq S \union {o}
    BY <1>9, <2>2, <2>3 DEF Anchors
  <2>5. Closed(S \union {o}, edge)
    <3> SUFFICES ASSUME NEW p \in S \union {o}, NEW s \in Slots, edge[p][s] # NoObject
                 PROVE  edge[p][s] \in S \union {o}
      BY DEF Closed
    <3>1. CASE p = o
      <4>1. edge[o][s] \in Objects
        BY <1>1, <3>1 DEF StateTypeOK
      <4>2. pending'[edge[o][s]] > 0
        BY <1>5, <4>1
      <4> QED BY <3>1, <4>1, <4>2 DEF Anchors
    <3>2. CASE p # o
      BY <1>3, <3>2 DEF Closed
    <3> QED BY <3>1, <3>2
  <2>6. Live \subseteq S \union {o}
    BY <1>1, <2>4, <2>5 DEF Anchored
  <2> QED BY <1>9, <2>6
<1>12. IdleInv'
  BY <1>1, <1>2, <1>3 DEF IdleInv, Marked, Gray, White
<1> QED BY <1>2, <1>7, <1>8, <1>10, <1>11, <1>12 DEF IInv

\* The marking phase starts with nothing marked.
LEMMA MarkStarts ==
    ASSUME StateTypeOK', IdleInv'
    PROVE  MarkInv'
<1>1. /\ Gray' = {} /\ White' = {} /\ stk' = <<>> /\ idx' = 1
      /\ seen' = {} /\ condemned' = {}
  BY DEF IdleInv, Marked
<1>2. Len(stk') = 0 /\ 1 .. Len(stk') = {}
  BY <1>1
<1>3. Todo' = {} /\ \A o \in Objects : DecsOn(stk', o) = {} /\ Into(Gray', o, edge') = {}
  BY <1>1, <1>2 DEF Todo, On, DecsOn, Into
<1>4. MarkCounts'
  BY <1>1, <1>3, FS_EmptySet DEF MarkCounts
<1>5. DecsFollowVisits'
  BY <1>2 DEF DecsFollowVisits
<1>6. MarkFrontier'
  <2>1. \A i \in 1 .. Len(roots') : ~(i < idx')
    BY <1>1
  <2> QED BY <1>1, <2>1 DEF MarkFrontier
<1>7. MarkReach'
  BY <1>1, <1>3 DEF MarkReach
<1> QED BY <1>1, <1>3, <1>4, <1>5, <1>6, <1>7 DEF MarkInv

\* collect_cycles is called.
LEMMA CollectCyclesStep ==
    ASSUME IInv, CollectCycles
    PROVE  IInv'
<1> USE DEF CollectCycles, BeginCollection, Quiet, heapVars, metaVars
<1>1. StateTypeOK /\ HeapInv /\ Buffering /\ Anchored /\ IdleInv
  BY DEF IInv
<1>2. StateTypeOK'
  BY <1>1 DEF StateTypeOK, Phases
<1>3. HeapInv'
  BY <1>1 DEF HeapInv, Refs
<1>4. RootSet' = RootSet /\ Live' = Live /\ Inflated' = Inflated
  BY DEF RootSet, Live, Inflated, Refs
<1>5. Buffering'
  BY <1>1, <1>4 DEF Buffering
<1>6. Anchored'
  BY <1>1, <1>4 DEF Anchored, Anchors
<1>7. IdleInv'
  BY <1>1 DEF IdleInv, Marked, Gray, White
<1> QED BY <1>2, <1>3, <1>5, <1>6, <1>7, MarkStarts DEF IInv

\* A reference is dropped and others are left: the object is in the root buffer.
LEMMA ReleaseSharedStep ==
    ASSUME IInv, NEW o \in Objects, ReleaseShared(o)
    PROVE  IInv'
<1>1. StateTypeOK /\ HeapInv /\ Buffering /\ Anchored /\ IdleInv
  BY DEF IInv, ReleaseShared
<1>2. /\ phase = "idle" /\ held' = held /\ dying = NoObject /\ dying' = o
      /\ life' = life /\ edge' = edge /\ shadow' = shadow
      /\ pending[o] > 0 /\ strong[o] # 1
      /\ strong' = [strong EXCEPT ![o] = @ - 1]
      /\ pending' = [pending EXCEPT ![o] = @ - 1]
  BY DEF ReleaseShared
<1>3. life[o] = "live" /\ strong[o] \in Nat /\ strong[o] > 1
  <2>1. life[o] = "live"
    BY <1>1, <1>2, ReferredLive
  <2>2. strong[o] \in Nat /\ strong[o] > 0
    BY <1>1, <2>1 DEF HeapInv, StateTypeOK
  <2> QED BY <1>2, <2>1, <2>2
<1>4. \/ phase' = "idle" /\ idx' = idx
      \/ phase' = "mark" /\ idx' = 1
  BY <1>2 DEF ReleaseShared, BeginCollection, gcVars
<1>5. stk' = stk /\ seen' = seen /\ condemned' = condemned
  BY DEF ReleaseShared, BeginCollection, gcVars
<1>6. /\ \A x \in Objects : x # o => buffered'[x] = buffered[x]
      /\ buffered'[o]
      /\ \A x \in Objects : color'[x] = color[x] \/ color'[x] = "purple"
      /\ color' \in [Objects -> Colors] /\ buffered' \in [Objects -> BOOLEAN]
      /\ roots' \in Seq(Objects \union {NoObject})
      /\ RootSet' = RootSet \union {o}
  <2>1. /\ color \in [Objects -> Colors] /\ buffered \in [Objects -> BOOLEAN]
        /\ roots \in Seq(Objects \union {NoObject})
    BY <1>1 DEF StateTypeOK
  <2>2. CASE buffered[o]
    <3>1. buffered' = buffered /\ color' = color /\ roots' = roots
      BY <2>2 DEF ReleaseShared, BufferRoot
    <3>2. o \in RootSet
      BY <1>1, <1>3, <2>2 DEF Buffering, Live
    <3>3. RootSet' = RootSet
      BY <3>1 DEF RootSet
    <3> QED BY <2>1, <2>2, <3>1, <3>2, <3>3
  <2>3. CASE ~buffered[o]
    <3>1. /\ buffered' = [buffered EXCEPT ![o] = TRUE]
          /\ color' = [color EXCEPT ![o] = "purple"]
          /\ roots' = Append(roots, o)
      BY <2>3 DEF ReleaseShared, BufferRoot
    <3>2. /\ roots' \in Seq(Objects \union {NoObject}) /\ Len(roots') = Len(roots) + 1
          /\ \A i \in 1 .. Len(roots) : roots'[i] = roots[i]
          /\ roots'[Len(roots) + 1] = o /\ Len(roots) \in Nat
      BY <2>1, <3>1, AppendProperties, LenProperties
    <3>3. RootSet' = RootSet \union {o}
      <4>1. \A i \in 1 .. Len(roots') : i \in 1 .. Len(roots) \/ i = Len(roots) + 1
        BY <3>2
      <4>2. /\ Len(roots) + 1 \in 1 .. Len(roots')
            /\ \A i \in 1 .. Len(roots) : i \in 1 .. Len(roots')
        BY <3>2
      <4>3. RootSet' \subseteq RootSet \union {o}
        BY <3>2, <4>1 DEF RootSet
      <4>4. o \in RootSet'
        BY <3>2, <4>2 DEF RootSet
      <4>5. RootSet \subseteq RootSet'
        BY <3>2, <4>2 DEF RootSet
      <4> QED BY <4>3, <4>4, <4>5
    <3> QED BY <2>1, <3>1, <3>2, <3>3 DEF Colors
  <2> QED BY <2>2, <2>3
<1>7. StateTypeOK'
  <2>1. strong' \in [Objects -> Nat] /\ pending' \in [Objects -> Nat]
    BY <1>1, <1>2, <1>3 DEF StateTypeOK
  <2>2. phase' \in Phases /\ idx' \in Nat \ {0}
    BY <1>1, <1>4 DEF StateTypeOK, Phases
  <2> QED BY <1>1, <1>2, <1>5, <1>6, <2>1, <2>2 DEF StateTypeOK
<1>8. \A x \in Objects :
         /\ strong'[x] = IF x = o THEN strong[x] - 1 ELSE strong[x]
         /\ pending'[x] = IF x = o THEN pending[x] - 1 ELSE pending[x]
         /\ pending[x] \in Nat /\ strong[x] \in Nat
  BY <1>1, <1>2 DEF StateTypeOK
<1>9. ASSUME NEW x \in Objects
      PROVE  /\ Refs(x)' = IF x = o THEN Refs(x) - 1 ELSE Refs(x)
             /\ Refs(x) \in Nat
  <2> DEFINE n == Cardinality(InEdges(x, edge))
  <2>1. /\ Refs(x) = held[x] + pending[x] + n /\ n \in Nat /\ Refs(x) \in Nat
        /\ Refs(x)' = held[x] + pending'[x] + n
        /\ held[x] \in Nat /\ pending[x] \in Nat
    BY <1>1, <1>2, RefsSum DEF Refs, RefsIn
  <2> HIDE DEF n
  <2> QED BY <1>8, <2>1
<1>10. HeapInv'
  <2> SUFFICES ASSUME NEW x \in Objects
               PROVE  /\ life'[x] = "live" => strong'[x] >= Refs(x)' /\ strong'[x] > 0
                      /\ life'[x] # "live" => /\ strong'[x] = 0 /\ Refs(x)' = 0
                                              /\ edge'[x] = NoFields
                      /\ life'[x] = "cleared" => x = dying'
    BY <1>1, <1>7, HeapKept
  <2>1. CASE x = o
    <3>1. strong[o] >= Refs(o)
      BY <1>1, <1>3 DEF HeapInv
    <3> QED BY <1>2, <1>3, <1>8, <1>9, <2>1, <3>1
  <2>2. CASE x # o
    <3>1. life[x] = "cleared" => x = NoObject
      BY <1>1, <1>2 DEF HeapInv
    <3> QED BY <1>1, <1>2, <1>8, <1>9, <2>2, <3>1, CollectorAssumption DEF HeapInv
  <2> QED BY <2>1, <2>2
<1>11. Live' = Live /\ Live \subseteq Objects /\ RootSet \subseteq Objects
  BY <1>2 DEF Live, RootSet
<1>12. Buffering'
  <2>1. \A x \in Live' : buffered'[x] => x \in RootSet'
    BY <1>1, <1>6, <1>11 DEF Buffering
  <2>2. \A x \in RootSet' \intersect Live' : buffered'[x]
    BY <1>1, <1>2, <1>6, <1>11 DEF Buffering
  <2>3. \A x \in RootSet' : life'[x] # "absent"
    BY <1>1, <1>2, <1>3, <1>6 DEF Buffering
  <2> QED BY <2>1, <2>2, <2>3 DEF Buffering
<1>13. Anchored'
  <2> SUFFICES ASSUME NEW S \in SUBSET Objects, Anchors' \subseteq S, Closed(S, edge)
               PROVE  Live \subseteq S
    BY <1>2, <1>11 DEF Anchored
  <2>1. o \in S /\ RootSet \subseteq S
    BY <1>6 DEF Anchors
  <2>2. \A x \in Objects :
            held[x] > 0 \/ pending[x] > 0 => x = o \/ held'[x] > 0 \/ pending'[x] > 0
    BY <1>2, <1>8
  <2>3. \A x \in Inflated : x = o \/ x \in Inflated'
    BY <1>2, <1>8, <1>9 DEF Inflated
  <2>4. Anchors \subseteq S
    BY <2>1, <2>2, <2>3 DEF Anchors
  <2> QED BY <1>1, <2>4 DEF Anchored
<1>14. IdleInv'
  <2>1. idx' = 1
    BY <1>1, <1>4 DEF IdleInv
  <2>2. Marked' = {}
    BY <1>1, <1>6 DEF IdleInv, Marked, Gray, White
  <2> QED BY <1>1, <1>5, <2>1, <2>2 DEF IdleInv
<1>15. MarkInv'
  BY <1>7, <1>14, MarkStarts
<1> QED BY <1>4, <1>7, <1>10, <1>12, <1>13, <1>14, <1>15 DEF IInv

\* The Arc of the object that was released: it goes with its last reference.
LEMMA FinishReleaseStep ==
    ASSUME IInv, FinishRelease
    PROVE  IInv'
<1>1. StateTypeOK /\ HeapInv /\ Buffering /\ Anchored /\ IdleInv
  BY DEF IInv, FinishRelease
<1>2. PICK d \in Objects : d = dying
  BY <1>1 DEF StateTypeOK, FinishRelease
<1>3. /\ phase = "idle" /\ phase' = "idle" /\ dying' = NoObject /\ held' = held
      /\ shadow' = shadow /\ color' = color /\ buffered' = buffered
      /\ idx' = idx /\ stk' = stk /\ seen' = seen /\ condemned' = condemned
  BY DEF FinishRelease, gcVars, metaVars
<1>4. IdleInv'
  BY <1>1, <1>3 DEF IdleInv, Marked, Gray, White
<1>5. CASE Refs(d) # 0
  <2>1. /\ life' = life /\ pending' = pending /\ edge' = edge /\ strong' = strong
        /\ roots' = roots
    BY <1>2, <1>5 DEF FinishRelease
  <2>2. StateTypeOK'
    BY <1>1, <1>3, <2>1 DEF StateTypeOK
  <2>3. \A x \in Objects : Refs(x)' = Refs(x) /\ life[x] # "cleared"
    BY <1>1, <1>2, <1>3, <1>5, <2>1 DEF Refs, HeapInv
  <2>4. HeapInv'
    BY <1>1, <2>1, <2>3 DEF HeapInv
  <2>5. RootSet' = RootSet /\ Live' = Live /\ Inflated' = Inflated
    BY <2>1, <2>3 DEF RootSet, Live, Inflated
  <2>6. Buffering'
    BY <1>1, <1>3, <2>1, <2>5 DEF Buffering
  <2>7. Anchored'
    BY <1>1, <1>3, <2>1, <2>5 DEF Anchored, Anchors
  <2> QED BY <1>3, <1>4, <2>2, <2>4, <2>6, <2>7 DEF IInv
<1>6. CASE Refs(d) = 0
  <2>1. /\ life' = [life EXCEPT ![d] = "absent"]
        /\ pending' = Dropped(pending, d)
        /\ edge' = [edge EXCEPT ![d] = NoFields]
        /\ strong' = [strong EXCEPT ![d] = 0]
        /\ roots' = WithoutWeak({d})
    BY <1>2, <1>6 DEF FinishRelease
  <2>2. pending \in [Objects -> Nat]
    BY <1>1 DEF StateTypeOK
  <2>3. \A x \in Objects :
           /\ life'[x] = IF x = d THEN "absent" ELSE life[x]
           /\ strong'[x] = IF x = d THEN 0 ELSE strong[x]
           /\ x # d => edge'[x] = edge[x]
           /\ edge'[d] = NoFields
    BY <1>1, <2>1 DEF StateTypeOK
  <2>4. ASSUME NEW x \in Objects
        PROVE  /\ Refs(x)' = Refs(x)
               /\ pending'[x] \in Nat /\ pending'[x] >= pending[x]
               /\ \A s \in Slots : edge[d][s] = x => pending'[x] > 0
    <3> DEFINE n == Cardinality(InEdges(x, edge))
               m == Cardinality(InEdges(x, edge'))
    <3>1. /\ Refs(x) = held[x] + pending[x] + n /\ n \in Nat
          /\ Refs(x)' = held[x] + pending'[x] + m
          /\ held[x] \in Nat /\ pending[x] \in Nat
      BY <1>1, <1>3, RefsSum DEF Refs, RefsIn
    <3>2. /\ pending'[x] \in Nat /\ m \in Nat
          /\ pending'[x] + m = pending[x] + n /\ pending'[x] >= pending[x]
          /\ \A s \in Slots : edge[d][s] = x => pending'[x] > 0
      BY <1>1, <2>1, <2>2, PayloadDropped
    <3> HIDE DEF n, m
    <3>3. Refs(x)' = Refs(x)
      BY <3>1, <3>2
    <3> QED BY <3>2, <3>3
  <2>5. /\ roots' \in Seq(Objects \union {NoObject})
        /\ RootSet' = RootSet \ {d}
    <3>1. /\ Len(roots) \in Nat /\ DOMAIN roots = 1 .. Len(roots)
          /\ \A i \in 1 .. Len(roots) : roots[i] \in Objects \union {NoObject}
      BY <1>1, LenProperties, ElementOfSeq DEF StateTypeOK
    <3>2. roots' = [i \in 1 .. Len(roots) |-> IF roots[i] = d THEN NoObject ELSE roots[i]]
      BY <2>1, <3>1 DEF WithoutWeak
    <3>3. roots' \in [1 .. Len(roots) -> Objects \union {NoObject}]
      BY <3>1, <3>2
    <3>4. roots' \in Seq(Objects \union {NoObject})
      BY <3>1, <3>3, SeqDef
    <3>5. Len(roots') \in Nat /\ DOMAIN roots' = 1 .. Len(roots')
      BY <3>4, LenProperties
    <3>6. Len(roots') = Len(roots)
      BY <3>1, <3>3, <3>5, SameInterval
    <3>7. \A i \in 1 .. Len(roots) : roots'[i] = IF roots[i] = d THEN NoObject ELSE roots[i]
      BY <3>2
    <3>8. RootSet' = RootSet \ {d}
      BY <3>6, <3>7, CollectorAssumption DEF RootSet
    <3> QED BY <3>4, <3>8
  <2>6. StateTypeOK'
    <3>1. pending' \in [Objects -> Nat]
      <4>1. pending' = [x \in Objects |-> pending'[x]]
        BY <2>1 DEF Dropped
      <4> QED BY <2>4, <4>1
    <3>2. edge' \in [Objects -> [Slots -> Objects \union {NoObject}]]
      BY <1>1, <2>1 DEF StateTypeOK, NoFields
    <3>3. /\ life' \in [Objects -> {"absent", "live", "cleared"}]
          /\ strong' \in [Objects -> Nat]
      BY <1>1, <2>1 DEF StateTypeOK
    <3> QED BY <1>1, <1>3, <2>5, <3>1, <3>2, <3>3 DEF StateTypeOK
  <2>7. HeapInv'
    <3> SUFFICES ASSUME NEW x \in Objects
                 PROVE  /\ life'[x] = "live" => strong'[x] >= Refs(x)' /\ strong'[x] > 0
                        /\ life'[x] # "live" => /\ strong'[x] = 0 /\ Refs(x)' = 0
                                                /\ edge'[x] = NoFields
                        /\ life'[x] = "cleared" => x = dying'
      BY <1>1, <2>6, HeapKept
    <3>1. CASE x = d
      BY <1>6, <2>3, <2>4, <3>1
    <3>2. CASE x # d
      BY <1>1, <1>2, <2>3, <2>4, <3>2 DEF HeapInv
    <3> QED BY <3>1, <3>2
  <2>8. Live' = Live \ {d} /\ Live \subseteq Objects /\ RootSet \subseteq Objects
    BY <2>3 DEF Live, RootSet
  <2>9. Buffering'
    <3>1. \A x \in Live' : buffered'[x] => x \in RootSet'
      BY <1>1, <1>3, <2>5, <2>8 DEF Buffering
    <3>2. \A x \in RootSet' \intersect Live' : buffered'[x]
      BY <1>1, <1>3, <2>5, <2>8 DEF Buffering
    <3>3. \A x \in RootSet' : life'[x] # "absent"
      BY <1>1, <2>3, <2>5, <2>8 DEF Buffering
    <3> QED BY <3>1, <3>2, <3>3 DEF Buffering
  <2>10. Anchored'
    <3> SUFFICES ASSUME NEW S \in SUBSET Objects, Anchors' \subseteq S, Closed(S, edge')
                 PROVE  Live' \subseteq S
      BY DEF Anchored
    <3>1. \A x \in Objects :
              held[x] > 0 \/ pending[x] > 0 => held'[x] > 0 \/ pending'[x] > 0
      BY <1>3, <2>2, <2>4
    <3>2. \A x \in Inflated : x = d \/ x \in Inflated'
      BY <2>3, <2>4 DEF Inflated
    <3>3. Anchors \subseteq S \union {d}
      BY <2>5, <3>1, <3>2 DEF Anchors
    <3>4. Closed(S \union {d}, edge)
      <4> SUFFICES ASSUME NEW p \in S \union {d}, NEW s \in Slots, edge[p][s] # NoObject
                   PROVE  edge[p][s] \in S \union {d}
        BY DEF Closed
      <4>1. CASE p = d
        <5>1. edge[d][s] \in Objects
          BY <1>1, <4>1 DEF StateTypeOK
        <5>2. pending'[edge[d][s]] > 0
          BY <2>4, <5>1
        <5> QED BY <4>1, <5>1, <5>2 DEF Anchors
      <4>2. CASE p # d
        BY <2>3, <4>2 DEF Closed
      <4> QED BY <4>1, <4>2
    <3>5. Live \subseteq S \union {d}
      BY <1>1, <3>3, <3>4 DEF Anchored
    <3> QED BY <2>8, <3>5
  <2> QED BY <1>3, <1>4, <2>6, <2>7, <2>9, <2>10 DEF IInv
<1> QED BY <1>5, <1>6

-----------------------------------------------------------------------------
(* Marking. *)

\* A step of a collection leaves the heap alone.
LEMMA HeapSame ==
    ASSUME HeapInv, Anchored, UNCHANGED <<heapVars, dying, roots>>
    PROVE  /\ HeapInv' /\ Anchored'
           /\ RootSet' = RootSet /\ Live' = Live
           /\ life' = life /\ edge' = edge /\ strong' = strong /\ roots' = roots
           /\ held' = held /\ pending' = pending /\ dying' = dying
           /\ \A o : Kids(o)' = Kids(o)
<1>1. /\ life' = life /\ edge' = edge /\ strong' = strong /\ roots' = roots
      /\ held' = held /\ pending' = pending /\ dying' = dying
  BY DEF heapVars
<1>2. \A o : Refs(o)' = Refs(o)
  BY <1>1 DEF Refs
<1>3. RootSet' = RootSet /\ Live' = Live /\ Inflated' = Inflated
  BY <1>1, <1>2 DEF RootSet, Live, Inflated
<1>4. HeapInv'
  BY <1>1, <1>2 DEF HeapInv
<1>5. Anchored'
  BY <1>1, <1>3 DEF Anchored, Anchors
<1>6. \A o : Kids(o)' = Kids(o)
  BY <1>1 DEF Kids
<1> QED BY <1>1, <1>3, <1>4, <1>5, <1>6

\* What an object holds is live.
LEMMA KidsLive ==
    ASSUME StateTypeOK, HeapInv, NEW o \in Objects
    PROVE  Kids(o) \subseteq Live /\ Kids(o) \subseteq Objects
<1> SUFFICES ASSUME NEW c \in Kids(o)
             PROVE  c \in Objects /\ life[c] = "live"
  BY DEF Live
<1>1. PICK s \in Slots : edge[o][s] = c /\ c # NoObject
  BY DEF Kids
<1>2. c \in Objects
  BY <1>1 DEF StateTypeOK
<1> QED BY <1>1, <1>2, ReferredLive

\* The task on top tells the phase.
LEMMA TaskPhase ==
    ASSUME IInv, stk # <<>>
    PROVE  /\ Top \in Todo /\ stk \in Seq(Tasks) /\ phase # "idle"
           /\ Top.task \in {"visit", "dec"} => phase = "mark"
           /\ Top.task \in {"scan", "black"} => phase = "scan"
           /\ Top.task = "white" => phase = "white"
<1>1. stk \in Seq(Tasks) /\ phase \in Phases
  BY DEF IInv, StateTypeOK
<1>2. Top \in Todo
  BY <1>1, Popped
<1>3. /\ phase = "idle" => stk = <<>>
      /\ phase = "mark" => Top.task \in {"visit", "dec"}
      /\ phase = "scan" => Top.task \in {"scan", "black"}
      /\ phase = "white" => Top.task = "white"
  BY <1>2 DEF IInv, IdleInv, MarkInv, ScanInv, WhiteInv
<1> QED BY <1>1, <1>2, <1>3 DEF Phases

\* The decrements below the top.
LEMMA PoppedDecs ==
    ASSUME stk \in Seq(Tasks), stk # <<>>, NEW c
    PROVE  /\ Cardinality(DecsOn(stk, c)) \in Nat /\ Cardinality(DecsOn(Rest, c)) \in Nat
           /\ Cardinality(DecsOn(stk, c)) =
                  IF Top = Task("dec", c) THEN Cardinality(DecsOn(Rest, c)) + 1
                  ELSE Cardinality(DecsOn(Rest, c))
<1>1. /\ Rest \in Seq(Tasks) /\ Len(stk) \in Nat \ {0} /\ Len(Rest) = Len(stk) - 1
      /\ Top = stk[Len(stk)] /\ \A i \in 1 .. Len(Rest) : Rest[i] = stk[i]
  BY Popped
<1>2. /\ IsFiniteSet(DecsOn(Rest, c)) /\ Cardinality(DecsOn(Rest, c)) \in Nat
      /\ Cardinality(DecsOn(stk, c)) \in Nat
  BY <1>1, DecsFinite
<1>3. /\ \A i \in 1 .. Len(stk) : i \in 1 .. Len(Rest) \/ i = Len(stk)
      /\ \A i \in 1 .. Len(Rest) : i \in 1 .. Len(stk)
      /\ Len(stk) \in 1 .. Len(stk) /\ Len(stk) \notin 1 .. Len(Rest)
  BY <1>1
<1>4. CASE Top = Task("dec", c)
  <2>1. DecsOn(stk, c) = DecsOn(Rest, c) \union {Len(stk)}
    BY <1>1, <1>3, <1>4 DEF DecsOn
  <2>2. Len(stk) \notin DecsOn(Rest, c)
    BY <1>3 DEF DecsOn
  <2>3. Cardinality(DecsOn(Rest, c) \union {Len(stk)}) = Cardinality(DecsOn(Rest, c)) + 1
    BY <1>2, <2>2, FS_AddElement
  <2> QED BY <1>2, <1>4, <2>1, <2>3
<1>5. CASE Top # Task("dec", c)
  <2>1. DecsOn(stk, c) = DecsOn(Rest, c)
    BY <1>1, <1>3, <1>5 DEF DecsOn
  <2> QED BY <1>2, <1>5, <2>1
<1> QED BY <1>4, <1>5

\* Complete garbage has no reference from outside.
LEMMA SelfHeldRefs ==
    ASSUME StateTypeOK, HeapInv, NEW U \in SUBSET Objects, SelfHeld(U), NEW o \in U
    PROVE  /\ life[o] = "live" /\ held[o] = 0 /\ pending[o] = 0
           /\ strong[o] = Refs(o)
           /\ \A p \in Objects, s \in Slots : edge[p][s] = o => p \in U
<1> DEFINE n == Cardinality(InEdges(o, edge))
           k == Cardinality(Into(U, o, edge))
<1>1. life[o] = "live" /\ strong[o] = k
  BY DEF SelfHeld
<1>2. /\ held[o] \in Nat /\ pending[o] \in Nat /\ n \in Nat
      /\ Refs(o) = held[o] + pending[o] + n
      /\ InEdges(o, edge) = Into(Objects, o, edge)
  BY RefsSum
<1>3. /\ k \in Nat /\ k <= n
      /\ k = n => Into(U, o, edge) = InEdges(o, edge)
  <2> DEFINE m == Cardinality(Into(Objects, o, edge))
  <2>1. /\ k \in Nat /\ k <= m
        /\ k = m => Into(U, o, edge) = Into(Objects, o, edge)
    BY IntoMonotone
  <2>2. m = n
    BY <1>2
  <2> HIDE DEF k, m, n
  <2> QED BY <1>2, <2>1, <2>2
<1>4. strong[o] >= Refs(o)
  BY <1>1 DEF HeapInv
<1> HIDE DEF n, k
<1>5. held[o] = 0 /\ pending[o] = 0 /\ k = n /\ strong[o] = Refs(o)
  <2>1. k >= held[o] + pending[o] + n
    BY <1>1, <1>2, <1>4
  <2> QED BY <1>1, <1>2, <1>3, <2>1
<1>6. ASSUME NEW p \in Objects, NEW s \in Slots, edge[p][s] = o
      PROVE  p \in U
  <2>1. <<p, s>> \in InEdges(o, edge)
    BY <1>6 DEF InEdges
  <2>2. <<p, s>> \in Into(U, o, edge)
    BY <1>3, <1>5, <2>1
  <2> QED BY <2>2 DEF Into
<1> QED BY <1>1, <1>5, <1>6

\* When marking ends, all complete garbage is marked.
LEMMA GarbageMarked ==
    ASSUME IInv, phase = "mark", stk = <<>>, idx > Len(roots),
           NEW U \in SUBSET Objects, SelfHeld(U)
    PROVE  U \subseteq Gray
<1>1. /\ StateTypeOK /\ HeapInv /\ Buffering /\ Anchored /\ MarkFrontier
  BY DEF IInv, MarkInv
<1>2. Todo = {}
  <2>1. 1 .. Len(stk) = {}
    OBVIOUS
  <2> QED BY <2>1 DEF Todo, On
<1> DEFINE D == (Objects \ U) \union Gray
<1>3. \A p \in Gray : Kids(p) \subseteq Gray
  BY <1>1, <1>2 DEF MarkFrontier
<1>4. \A o \in RootSet \intersect Live : o \in Gray
  <2> SUFFICES ASSUME NEW o \in RootSet \intersect Live PROVE o \in Gray
    OBVIOUS
  <2>1. PICK i \in 1 .. Len(roots) : roots[i] = o
    BY DEF RootSet
  <2>2. i < idx
    <3>1. idx \in Nat /\ Len(roots) \in Nat
      BY <1>1, LenProperties DEF StateTypeOK
    <3> QED BY <3>1
  <2> QED BY <1>1, <1>2, <2>1, <2>2 DEF MarkFrontier
<1>5. Anchors \subseteq D
  <2> SUFFICES ASSUME NEW o \in U, o \in Anchors PROVE o \in Gray
    BY DEF Anchors, RootSet, Inflated
  <2>1. /\ life[o] = "live" /\ held[o] = 0 /\ pending[o] = 0 /\ strong[o] = Refs(o)
    BY <1>1, SelfHeldRefs
  <2>2. Refs(o) \in Nat
    BY <1>1, RefsSum
  <2>3. o \notin Inflated
    BY <2>1, <2>2 DEF Inflated
  <2>4. o \in RootSet /\ o \in Live
    BY <2>1, <2>3 DEF Anchors, Live
  <2> QED BY <1>4, <2>4
<1>6. Closed(D, edge)
  <2> SUFFICES ASSUME NEW p \in D, NEW s \in Slots, edge[p][s] # NoObject
               PROVE  edge[p][s] \in D
    BY DEF Closed
  <2>1. p \in Objects /\ edge[p][s] \in Objects
    BY <1>1 DEF StateTypeOK, Gray
  <2>2. CASE p \in Gray
    <3>1. edge[p][s] \in Kids(p)
      BY DEF Kids
    <3> QED BY <1>3, <2>2, <3>1
  <2>3. CASE p \notin U
    <3>1. edge[p][s] \notin U
      BY <1>1, <2>1, <2>3, SelfHeldRefs
    <3> QED BY <2>1, <3>1
  <2> QED BY <2>2, <2>3
<1>7. Live \subseteq D
  <2>1. D \in SUBSET Objects
    BY DEF Gray
  <2> QED BY <1>1, <1>5, <1>6, <2>1 DEF Anchored
<1>8. U \subseteq Live
  BY DEF SelfHeld, Live
<1> QED BY <1>7, <1>8

\* A root of a loop, and the stack that is filled with it.
LEMMA RootAt ==
    ASSUME StateTypeOK, idx <= Len(roots)
    PROVE  /\ idx \in 1 .. Len(roots) /\ Len(roots) \in Nat /\ idx + 1 \in Nat \ {0}
           /\ roots[idx] \in Objects \union {NoObject}
           /\ \A i \in 1 .. Len(roots) : i < idx + 1 => i < idx \/ i = idx
           /\ \A o \in Objects : roots[idx] = o => o \in RootSet
<1>1. idx \in Nat \ {0} /\ roots \in Seq(Objects \union {NoObject})
  BY DEF StateTypeOK
<1>2. Len(roots) \in Nat /\ idx \in 1 .. Len(roots)
  BY <1>1, LenProperties
<1>3. roots[idx] \in Objects \union {NoObject}
  BY <1>1, <1>2, ElementOfSeq
<1>4. \A o \in Objects : roots[idx] = o => o \in RootSet
  BY <1>2 DEF RootSet
<1> QED BY <1>1, <1>2, <1>3, <1>4

LEMMA OneTask ==
    ASSUME NEW t \in {"visit", "dec", "scan", "black", "white"}, NEW o \in Objects
    PROVE  /\ <<Task(t, o)>> \in Seq(Tasks) /\ On(<<Task(t, o)>>) = {Task(t, o)}
           /\ Len(<<Task(t, o)>>) = 1 /\ <<Task(t, o)>>[1] = Task(t, o)
           /\ Task(t, o).task = t /\ Task(t, o).obj = o
<1>1. Task(t, o) \in Tasks /\ Task(t, o).task = t /\ Task(t, o).obj = o
  BY DEF Task, Tasks
<1>2. /\ Len(<<Task(t, o)>>) = 1 /\ <<Task(t, o)>>[1] = Task(t, o)
      /\ <<Task(t, o)>> \in Seq(Tasks)
  BY <1>1
<1>3. 1 .. 1 = {1}
  OBVIOUS
<1>4. On(<<Task(t, o)>>) = {Task(t, o)}
  BY <1>2, <1>3 DEF On
<1> QED BY <1>1, <1>2, <1>4

LEMMA NoTask ==
    /\ <<>> \in Seq(Tasks) /\ On(<<>>) = {} /\ Len(<<>>) = 0
    /\ \A o : DecsOn(<<>>, o) = {}
<1>1. Len(<<>>) = 0 /\ 1 .. 0 = {} /\ <<>> \in Seq(Tasks)
  OBVIOUS
<1> QED BY <1>1 DEF On, DecsOn

\* The next root of mark_gray's loop.
LEMMA MarkRootNext ==
    ASSUME IInv, MarkRoot, idx <= Len(roots)
    PROVE  IInv'
<1>0. StateTypeOK
  BY DEF IInv
<1>1. /\ phase = "mark" /\ phase' = "mark" /\ stk = <<>> /\ idx' = idx + 1
      /\ UNCHANGED <<heapVars, dying, metaVars, roots, seen, condemned>>
      /\ stk' = IF roots[idx] # NoObject /\ buffered[roots[idx]] /\ strong[roots[idx]] > 0
                THEN <<Task("visit", roots[idx])>> ELSE <<>>
  <2>1. ~(idx > Len(roots))
    BY <1>0, RootAt
  <2> QED BY <2>1 DEF MarkRoot, NextRoot
<1>2. HeapInv /\ Buffering /\ Anchored /\ MarkInv
  BY <1>1 DEF IInv
<1>3. /\ HeapInv' /\ Anchored' /\ RootSet' = RootSet /\ Live' = Live
      /\ life' = life /\ edge' = edge /\ strong' = strong /\ roots' = roots
      /\ held' = held /\ pending' = pending /\ dying' = dying
      /\ \A o : Kids(o)' = Kids(o)
  BY <1>1, <1>2, HeapSame
<1>4. /\ color' = color /\ shadow' = shadow /\ buffered' = buffered
      /\ seen' = seen /\ condemned' = condemned
  BY <1>1 DEF metaVars
<1>5. Gray' = Gray /\ White' = White
  BY <1>4 DEF Gray, White
<1>6. Todo = {} /\ \A o : DecsOn(stk, o) = {}
  BY <1>1, NoTask DEF Todo
<1> DEFINE wanted == roots[idx] \in Live
<1>7. /\ wanted => roots[idx] \in RootSet /\ stk' = <<Task("visit", roots[idx])>>
      /\ ~wanted => stk' = <<>>
  <2>1. /\ roots[idx] \in Objects \union {NoObject} /\ NoObject \notin Objects
        /\ \A o \in Objects : roots[idx] = o => o \in RootSet
    BY <1>0, CollectorAssumption, RootAt
  <2>2. ASSUME wanted
        PROVE  roots[idx] \in RootSet /\ stk' = <<Task("visit", roots[idx])>>
    <3>1. roots[idx] \in Objects /\ life[roots[idx]] = "live" /\ roots[idx] \in RootSet
      BY <2>1, <2>2 DEF Live
    <3>2. strong[roots[idx]] > 0
      BY <1>2, <3>1 DEF HeapInv
    <3>3. buffered[roots[idx]]
      BY <1>1, <1>2, <2>2, <3>1 DEF Buffering
    <3> QED BY <1>1, <2>1, <3>1, <3>2, <3>3
  <2>3. ASSUME ~wanted PROVE stk' = <<>>
    <3>1. CASE roots[idx] = NoObject
      BY <1>1, <3>1
    <3>2. CASE roots[idx] \in Objects
      <4>1. strong[roots[idx]] = 0
        BY <1>2, <2>3, <3>2 DEF HeapInv, Live
      <4> QED BY <1>1, <4>1
    <3> QED BY <2>1, <3>1, <3>2
  <2> QED BY <2>2, <2>3
<1>8. /\ stk' \in Seq(Tasks)
      /\ Todo' = IF wanted THEN {Task("visit", roots[idx])} ELSE {}
      /\ \A k \in Todo' : wanted /\ k = Task("visit", roots[idx]) /\ k.task = "visit"
                          /\ k.obj = roots[idx]
      /\ \A o : DecsOn(stk', o) = {}
      /\ \A i \in 1 .. Len(stk') : stk'[i].task # "dec"
  <2>1. CASE wanted
    <3>1. roots[idx] \in Objects
      BY <2>1 DEF Live
    <3> DEFINE one == <<Task("visit", roots[idx])>>
    <3>2. /\ one \in Seq(Tasks) /\ On(one) = {Task("visit", roots[idx])}
          /\ Len(one) = 1 /\ one[1] = Task("visit", roots[idx])
          /\ Task("visit", roots[idx]).task = "visit"
          /\ Task("visit", roots[idx]).obj = roots[idx]
      BY <3>1, OneTask
    <3>3. \A i \in 1 .. Len(one) : one[i].task = "visit"
      BY <3>2
    <3>4. \A o : Task("dec", o).task = "dec"
      BY DEF Task
    <3>5. \A o : DecsOn(one, o) = {}
      BY <3>3, <3>4 DEF DecsOn
    <3>6. stk' = one
      BY <1>7, <2>1
    <3> HIDE DEF one
    <3> QED BY <2>1, <3>2, <3>3, <3>5, <3>6 DEF Todo
  <2>2. CASE ~wanted
    <3>1. stk' = <<>>
      BY <1>7, <2>2
    <3> QED BY <2>2, <3>1, NoTask DEF Todo
  <2> QED BY <2>1, <2>2
<1> HIDE DEF wanted
<1>9. StateTypeOK'
  <2>1. idx' \in Nat \ {0}
    BY <1>0, <1>1, RootAt
  <2> QED BY <1>0, <1>1, <1>3, <1>4, <1>8, <2>1 DEF StateTypeOK
<1>10. Buffering'
  BY <1>1, <1>2, <1>3, <1>4 DEF Buffering
<1>11. MarkCounts'
  BY <1>2, <1>3, <1>4, <1>5, <1>6, <1>8 DEF MarkInv, MarkCounts
<1>12. DecsFollowVisits'
  BY <1>8 DEF DecsFollowVisits
<1>13. MarkFrontier'
  <2>1. \A p \in Gray' : \A c \in Kids(p)' : c \in Gray'
    BY <1>2, <1>3, <1>5, <1>6 DEF MarkInv, MarkFrontier
  <2>2. ASSUME NEW i \in 1 .. Len(roots), i < idx + 1, roots[i] \in Live
        PROVE  roots[i] \in Gray \/ Task("visit", roots[i]) \in Todo'
    <3>1. CASE i < idx
      BY <1>2, <1>6, <2>2, <3>1 DEF MarkInv, MarkFrontier
    <3>2. CASE i = idx
      BY <1>8, <2>2, <3>2 DEF wanted
    <3> QED BY <1>0, <2>2, <3>1, <3>2, RootAt
  <2> QED BY <1>1, <1>3, <1>5, <2>1, <2>2 DEF MarkFrontier
<1>14. MarkReach'
  <2> SUFFICES ASSUME NEW S \in SUBSET Objects, RootSet \subseteq S, Keeps(S, Gray)'
               PROVE  Gray \subseteq S /\ \A k \in Todo' : k.obj \in S
    BY <1>3, <1>5 DEF MarkReach, Keeps
  <2>1. Keeps(S, Gray)
    BY <1>3, <1>5 DEF Keeps
  <2>2. Gray \subseteq S
    BY <1>2, <2>1 DEF MarkInv, MarkReach
  <2> QED BY <1>7, <1>8, <2>2
<1>15. MarkInv'
  <2>1. \A k \in Todo' : k.task \in {"visit", "dec"} /\ k.obj \in Live'
    BY <1>3, <1>8 DEF wanted
  <2> QED BY <1>2, <1>3, <1>4, <1>5, <1>11, <1>12, <1>13, <1>14, <2>1 DEF MarkInv
<1> QED BY <1>1, <1>3, <1>9, <1>10, <1>15 DEF IInv

\* Marking is done: nothing is on the stack, so the shadow counts are exact.
LEMMA MarkRootDone ==
    ASSUME IInv, MarkRoot, idx > Len(roots)
    PROVE  IInv'
<1>1. /\ phase = "mark" /\ phase' = "scan" /\ stk = <<>> /\ stk' = <<>> /\ idx' = 1
      /\ UNCHANGED <<heapVars, dying, metaVars, roots, seen, condemned>>
  BY DEF MarkRoot, NextRoot
<1>2. StateTypeOK /\ HeapInv /\ Buffering /\ Anchored /\ MarkInv
  BY <1>1 DEF IInv
<1>3. /\ HeapInv' /\ Anchored' /\ RootSet' = RootSet /\ Live' = Live
      /\ life' = life /\ edge' = edge /\ strong' = strong /\ roots' = roots
      /\ held' = held /\ pending' = pending /\ dying' = dying
      /\ \A o : Kids(o)' = Kids(o)
  BY <1>1, <1>2, HeapSame
<1>4. /\ color' = color /\ shadow' = shadow /\ buffered' = buffered
      /\ seen' = seen /\ condemned' = condemned
  BY <1>1 DEF metaVars
<1>5. Gray' = Gray /\ White' = {} /\ Marked' = Gray /\ White = {}
  BY <1>2, <1>4 DEF Gray, White, Marked, MarkInv
<1>6. Todo = {} /\ (\A o : DecsOn(stk, o) = {}) /\ Todo' = {} /\ Blacks' = {}
  BY <1>1, NoTask DEF Todo, Blacks
<1>7. StateTypeOK'
  BY <1>1, <1>2, <1>3, <1>4 DEF StateTypeOK, Phases
<1>8. Buffering'
  BY <1>1, <1>2, <1>3, <1>4 DEF Buffering
<1>9. ScanCounts'
  <2>1. ASSUME NEW o \in Gray
        PROVE  shadow[o] + Cardinality(Into(Gray, o, edge)) = strong[o]
    <3>1. o \in Objects /\ Gray \in SUBSET Objects
      BY DEF Gray
    <3>2. shadow[o] + Cardinality(Into(Gray, o, edge)) = strong[o] + Cardinality(DecsOn(stk, o))
      BY <1>2, <3>1 DEF MarkInv, MarkCounts
    <3>3. Cardinality(DecsOn(stk, o)) = 0 /\ strong[o] \in Nat
      BY <1>2, <1>6, <3>1, FS_EmptySet DEF StateTypeOK
    <3> QED BY <3>2, <3>3
  <2>2. \A p \in Gray : \A c \in Kids(p) : c \in Gray
    BY <1>2, <1>6 DEF MarkInv, MarkFrontier
  <2> QED BY <1>3, <1>4, <1>5, <1>6, <2>1, <2>2 DEF ScanCounts
<1>10. ScanLeft'
  <2> SUFFICES ASSUME NEW S \in SUBSET Objects, RootsLeft' \subseteq S, Keeps(S, Gray)'
               PROVE  Gray \subseteq S
    BY <1>5 DEF ScanLeft
  <2>1. RootSet \subseteq S
    BY <1>1, <1>3 DEF RootSet, RootsLeft
  <2>2. Keeps(S, Gray)
    BY <1>3, <1>5 DEF Keeps
  <2> QED BY <1>2, <2>1, <2>2 DEF MarkInv, MarkReach
<1>11. ScanReach'
  BY <1>5, <1>6 DEF ScanReach
<1>12. ScanComplete'
  <2> SUFFICES ASSUME NEW U \in SUBSET Objects, SelfHeld(U)'
               PROVE  U \subseteq Gray
    BY <1>5, <1>6 DEF ScanComplete
  <2>1. SelfHeld(U)
    BY <1>3 DEF SelfHeld
  <2> QED BY <1>1, <2>1, GarbageMarked
<1>13. ScanInv'
  <2>1. Marked' \subseteq Live' /\ seen' = {} /\ condemned' = {}
    BY <1>2, <1>3, <1>4, <1>5 DEF MarkInv
  <2> QED BY <1>6, <1>9, <1>10, <1>11, <1>12, <2>1 DEF ScanInv
<1> QED BY <1>1, <1>3, <1>7, <1>8, <1>13 DEF IInv

\* A task of mark_gray is popped that adds nothing: a decrement, or a visit of
\* a gray object.
LEMMA MarkPop ==
    ASSUME IInv, phase = "mark", stk # <<>>, stk' = Rest,
           Top.task = "dec" \/ Top.obj \in Gray,
           UNCHANGED <<gcRest, color, buffered, seen, condemned>>,
           shadow' \in [Objects -> Nat], MarkCounts'
    PROVE  IInv'
<1>1. StateTypeOK /\ HeapInv /\ Buffering /\ Anchored /\ MarkInv
  BY DEF IInv
<1>2. /\ UNCHANGED <<heapVars, dying, roots>> /\ phase' = "mark" /\ idx' = idx
      /\ color' = color /\ buffered' = buffered /\ seen' = seen /\ condemned' = condemned
  BY DEF gcRest
<1>3. /\ HeapInv' /\ Anchored' /\ RootSet' = RootSet /\ Live' = Live
      /\ life' = life /\ edge' = edge /\ strong' = strong /\ roots' = roots
      /\ held' = held /\ pending' = pending /\ dying' = dying
      /\ \A o : Kids(o)' = Kids(o)
  BY <1>1, <1>2, HeapSame
<1>4. Gray' = Gray /\ White' = White
  BY <1>2 DEF Gray, White
<1>5. /\ Top = Task(Top.task, Top.obj) /\ Rest \in Seq(Tasks) /\ Todo = On(Rest) \union {Top}
      /\ Len(stk) \in Nat \ {0} /\ Len(Rest) = Len(stk) - 1 /\ Top = stk[Len(stk)]
      /\ \A i \in 1 .. Len(Rest) : Rest[i] = stk[i]
  BY <1>1, Popped DEF StateTypeOK
<1>6. Todo' = On(Rest)
  BY DEF Todo
<1>7. ASSUME NEW c, Task("visit", c) = Top PROVE c \in Gray
  <2>1. Task("visit", c).task = "visit" /\ Task("visit", c).obj = c
    BY DEF Task
  <2> QED BY <1>7, <2>1
<1>8. StateTypeOK'
  BY <1>1, <1>2, <1>3, <1>5 DEF StateTypeOK
<1>9. Buffering'
  BY <1>1, <1>2, <1>3 DEF Buffering
<1>10. DecsFollowVisits'
  <2> SUFFICES ASSUME NEW i \in 1 .. Len(Rest), Rest[i].task = "dec", Rest[i].obj \notin Gray
               PROVE  \E j \in i + 1 .. Len(Rest) : Rest[j] = Task("visit", Rest[i].obj)
    BY <1>4 DEF DecsFollowVisits
  <2>1. i \in 1 .. Len(stk) /\ Rest[i] = stk[i]
    BY <1>5
  <2>2. PICK j \in i + 1 .. Len(stk) : stk[j] = Task("visit", stk[i].obj)
    BY <1>1, <2>1 DEF MarkInv, DecsFollowVisits
  <2>3. j # Len(stk)
    BY <1>5, <1>7, <2>1, <2>2
  <2>4. j \in i + 1 .. Len(Rest) /\ j \in 1 .. Len(Rest)
    BY <1>5, <2>3
  <2> QED BY <1>5, <2>1, <2>2, <2>4
<1>11. MarkFrontier'
  <2>1. \A c : Task("visit", c) \in Todo => c \in Gray \/ Task("visit", c) \in Todo'
    BY <1>5, <1>6, <1>7
  <2>2. \A p \in Gray : \A c \in Kids(p) : c \in Gray \/ Task("visit", c) \in Todo'
    BY <1>1, <2>1 DEF MarkInv, MarkFrontier
  <2>3. \A i \in 1 .. Len(roots) :
           i < idx /\ roots[i] \in Live => roots[i] \in Gray \/ Task("visit", roots[i]) \in Todo'
    BY <1>1, <2>1 DEF MarkInv, MarkFrontier
  <2> QED BY <1>2, <1>3, <1>4, <2>2, <2>3 DEF MarkFrontier
<1>12. MarkReach'
  <2> SUFFICES ASSUME NEW S \in SUBSET Objects, RootSet \subseteq S, Keeps(S, Gray)'
               PROVE  Gray \subseteq S /\ \A k \in Todo' : k.obj \in S
    BY <1>3, <1>4 DEF MarkReach, Keeps
  <2>1. Keeps(S, Gray)
    BY <1>3, <1>4 DEF Keeps
  <2> QED BY <1>1, <1>5, <1>6, <2>1 DEF MarkInv, MarkReach
<1>13. MarkInv'
  <2>1. \A k \in Todo' : k.task \in {"visit", "dec"} /\ k.obj \in Live'
    BY <1>1, <1>3, <1>5, <1>6 DEF MarkInv
  <2> QED BY <1>1, <1>2, <1>3, <1>4, <1>10, <1>11, <1>12, <2>1 DEF MarkInv
<1> QED BY <1>2, <1>3, <1>8, <1>9, <1>13 DEF IInv

\* A visit of an object that is not gray yet.
LEMMA VisitNew ==
    ASSUME IInv, Visit, color[Top.obj] # "gray"
    PROVE  IInv'
<1>1. stk # <<>> /\ Top.task = "visit"
  BY DEF Visit
<1>2. phase = "mark" /\ stk \in Seq(Tasks) /\ Top \in Todo
  BY <1>1, TaskPhase
<1>3. StateTypeOK /\ HeapInv /\ Buffering /\ Anchored /\ MarkInv
  BY <1>2 DEF IInv
<1>4. PICK o \in Objects : o = Top.obj /\ Top = Task("visit", o)
  BY <1>1, <1>2, Popped
<1>5. PICK fs \in FieldOrders(o) : stk' = Push(Rest, MarkTasks(o, fs))
  BY <1>4 DEF Visit
<1> DEFINE mt == MarkTasks(o, fs)
<1>6. /\ UNCHANGED <<heapVars, dying, roots>> /\ phase' = "mark" /\ idx' = idx
      /\ buffered' = buffered /\ seen' = seen /\ condemned' = condemned
      /\ color' = [color EXCEPT ![o] = "gray"]
      /\ shadow' = [shadow EXCEPT ![o] = strong[o]]
      /\ o \notin Gray
  BY <1>2, <1>4 DEF Visit, gcRest, Gray
<1>7. /\ HeapInv' /\ Anchored' /\ RootSet' = RootSet /\ Live' = Live
      /\ life' = life /\ edge' = edge /\ strong' = strong /\ roots' = roots
      /\ held' = held /\ pending' = pending /\ dying' = dying
      /\ \A p : Kids(p)' = Kids(p)
  BY <1>3, <1>6, HeapSame
<1>8. /\ Gray' = Gray \union {o} /\ White' = {} /\ Gray \in SUBSET Objects
      /\ \A x \in Objects : shadow'[x] = IF x = o THEN strong[o] ELSE shadow[x]
  BY <1>3, <1>6 DEF Gray, White, MarkInv, StateTypeOK
<1>9. /\ Rest \in Seq(Tasks) /\ Todo = On(Rest) \union {Top}
      /\ Len(stk) \in Nat \ {0} /\ Len(Rest) = Len(stk) - 1 /\ Top = stk[Len(stk)]
      /\ \A i \in 1 .. Len(Rest) : Rest[i] = stk[i]
  BY <1>1, <1>2, Popped
<1>10. /\ mt \in Seq(Tasks)
       /\ On(mt) = {Task("dec", c) : c \in Kids(o)} \union {Task("visit", c) : c \in Kids(o)}
       /\ \A i \in 1 .. Len(mt) :
              mt[i].task = "dec" =>
                  \E j \in i + 1 .. Len(mt) : mt[j] = Task("visit", mt[i].obj)
       /\ \A c \in Objects : Cardinality(DecsOn(mt, c)) = Cardinality(FieldsTo(o, c))
  BY <1>3, MarkTasksOn
<1> HIDE DEF mt
<1>11. /\ stk' \in Seq(Tasks) /\ Len(stk') = Len(Rest) + Len(mt)
       /\ Len(Rest) \in Nat /\ Len(mt) \in Nat
       /\ \A i \in 1 .. Len(Rest) : stk'[i] = Rest[i]
       /\ \A i \in 1 .. Len(mt) : stk'[Len(Rest) + i] = mt[i]
       /\ Todo' = On(Rest) \union On(mt)
  <2>1. stk' = Push(Rest, mt)
    BY <1>5 DEF mt
  <2>2. Todo' = On(stk')
    BY DEF Todo
  <2>3. Rest \in Seq(Tasks) /\ mt \in Seq(Tasks)
    BY <1>9, <1>10
  <2> QED BY <2>1, <2>2, <2>3, Pushed
<1>12. o \in Live /\ o \in Objects /\ Kids(o) \subseteq Live
  BY <1>2, <1>3, <1>4, KidsLive DEF MarkInv
<1>13. StateTypeOK'
  <2>1. color' \in [Objects -> Colors] /\ shadow' \in [Objects -> Nat]
    BY <1>3, <1>6 DEF StateTypeOK, Colors
  <2> QED BY <1>2, <1>3, <1>6, <1>7, <1>11, <2>1 DEF StateTypeOK
<1>14. Buffering'
  BY <1>2, <1>3, <1>6, <1>7 DEF Buffering
<1>15. MarkCounts'
  <2> SUFFICES ASSUME NEW c \in Objects
               PROVE  /\ c \in Gray' =>
                             shadow'[c] + Cardinality(Into(Gray', c, edge))
                                = strong[c] + Cardinality(DecsOn(stk', c))
                      /\ c \notin Gray' =>
                             Cardinality(DecsOn(stk', c)) = Cardinality(Into(Gray', c, edge))
    BY <1>7 DEF MarkCounts
  <2> DEFINE g == Cardinality(Into(Gray, c, edge))
             h == Cardinality(Into(Gray', c, edge))
             f == Cardinality(FieldsTo(o, c))
             d == Cardinality(DecsOn(stk, c))
             u == Cardinality(DecsOn(stk', c))
  <2>1. g \in Nat
    BY <1>8, IntoMonotone
  <2>2. FieldsTo(o, c) = Fields(o, c, edge)
    BY DEF FieldsTo, Fields
  <2>3. f \in Nat
    BY <2>2, IntoOne
  <2>4. h = g + f
    BY <1>6, <1>8, <2>2, IntoAdd
  <2>5. Top # Task("dec", c)
    BY <1>1 DEF Task
  <2>6. d = Cardinality(DecsOn(Rest, c)) /\ d \in Nat
    BY <1>1, <1>2, <2>5, PoppedDecs
  <2>7. u = Cardinality(DecsOn(Rest, c)) + Cardinality(DecsOn(mt, c))
    BY <1>5, <1>9, <1>10, PushedDecs DEF mt
  <2>8. u = d + f
    BY <1>10, <2>6, <2>7
  <2>9. /\ c \in Gray => shadow[c] + g = strong[c] + d
        /\ c \notin Gray => d = g
    BY <1>3 DEF MarkInv, MarkCounts
  <2>10. shadow[c] \in Nat /\ strong[c] \in Nat
    BY <1>3 DEF StateTypeOK
  <2> HIDE DEF g, h, f, d, u
  <2>11. CASE c = o
    <3>1. shadow'[c] = strong[c] /\ d = g /\ c \in Gray'
      BY <1>6, <1>8, <2>9, <2>11
    <3>2. shadow'[c] + h = strong[c] + u
      BY <2>1, <2>3, <2>4, <2>8, <2>10, <3>1
    <3> QED BY <3>1, <3>2 DEF h, u
  <2>12. CASE c # o
    <3>1. shadow'[c] = shadow[c] /\ (c \in Gray' <=> c \in Gray)
      BY <1>8, <2>12
    <3>2. c \in Gray => shadow'[c] + h = strong[c] + u
      BY <2>1, <2>3, <2>4, <2>6, <2>8, <2>9, <2>10, <3>1
    <3>3. c \notin Gray => u = h
      BY <2>4, <2>8, <2>9
    <3> QED BY <3>1, <3>2, <3>3 DEF h, u
  <2> QED BY <2>11, <2>12
<1>16. DecsFollowVisits'
  <2> SUFFICES ASSUME NEW i \in 1 .. Len(stk'), stk'[i].task = "dec", stk'[i].obj \notin Gray'
               PROVE  \E j \in i + 1 .. Len(stk') : stk'[j] = Task("visit", stk'[i].obj)
    BY DEF DecsFollowVisits
  <2>1. CASE i \in 1 .. Len(Rest)
    <3>1. i \in 1 .. Len(stk) /\ stk'[i] = stk[i]
      BY <1>9, <1>11, <2>1
    <3>2. PICK j \in i + 1 .. Len(stk) : stk[j] = Task("visit", stk[i].obj)
      BY <1>3, <1>8, <3>1 DEF MarkInv, DecsFollowVisits
    <3>3. j # Len(stk)
      <4>1. Task("visit", stk[i].obj).obj = stk[i].obj
        BY DEF Task
      <4>2. Top.obj \in Gray'
        BY <1>4, <1>8
      <4>3. stk[i].obj \notin Gray'
        BY <3>1
      <4>4. stk[j].obj = stk[i].obj
        BY <3>2, <4>1
      <4> QED BY <1>9, <4>2, <4>3, <4>4
    <3>4. j \in i + 1 .. Len(stk') /\ j \in 1 .. Len(Rest)
      BY <1>9, <1>11, <3>3
    <3> QED BY <1>9, <1>11, <3>1, <3>2, <3>4
  <2>2. CASE i \notin 1 .. Len(Rest)
    <3>1. PICK k \in 1 .. Len(mt) : i = Len(Rest) + k
      <4>1. i - Len(Rest) \in 1 .. Len(mt) /\ i = Len(Rest) + (i - Len(Rest))
        BY <1>11, <2>2
      <4> QED BY <4>1
    <3>2. stk'[i] = mt[k]
      BY <1>11, <3>1
    <3>3. PICK j \in k + 1 .. Len(mt) : mt[j] = Task("visit", mt[k].obj)
      BY <1>10, <3>2
    <3>4. j \in 1 .. Len(mt) /\ Len(Rest) + j \in i + 1 .. Len(stk')
      BY <1>11, <3>1
    <3>5. stk'[Len(Rest) + j] = mt[j]
      BY <1>11, <3>4
    <3>6. stk'[Len(Rest) + j] = Task("visit", stk'[i].obj)
      BY <3>2, <3>3, <3>5
    <3> QED BY <3>4, <3>6
  <2> QED BY <2>1, <2>2
<1>17. MarkFrontier'
  <2>1. \A c : Task("visit", c) \in Todo => c \in Gray' \/ Task("visit", c) \in Todo'
    <3> SUFFICES ASSUME NEW c, Task("visit", c) = Top PROVE c \in Gray'
      BY <1>9, <1>11
    <3>1. Task("visit", c).obj = c /\ Task("visit", o).obj = o
      BY DEF Task
    <3> QED BY <1>4, <1>8, <3>1
  <2>2. \A p \in Gray : \A c \in Kids(p) : c \in Gray' \/ Task("visit", c) \in Todo'
    BY <1>3, <1>8, <2>1 DEF MarkInv, MarkFrontier
  <2>3. \A c \in Kids(o) : Task("visit", c) \in Todo'
    BY <1>10, <1>11
  <2>4. \A i \in 1 .. Len(roots) :
           i < idx /\ roots[i] \in Live => roots[i] \in Gray' \/ Task("visit", roots[i]) \in Todo'
    BY <1>3, <1>8, <2>1 DEF MarkInv, MarkFrontier
  <2> QED BY <1>6, <1>7, <1>8, <2>2, <2>3, <2>4 DEF MarkFrontier
<1>18. \A k \in On(mt) : k.task \in {"visit", "dec"} /\ k.obj \in Kids(o)
  BY <1>10 DEF Task
<1>19. MarkReach'
  <2> SUFFICES ASSUME NEW S \in SUBSET Objects, RootSet \subseteq S, Keeps(S, Gray)'
               PROVE  Gray' \subseteq S /\ \A k \in Todo' : k.obj \in S
    BY <1>7 DEF MarkReach
  <2>1. Keeps(S, Gray)
    BY <1>7, <1>8 DEF Keeps
  <2>2. Gray \subseteq S /\ o \in S /\ \A k \in On(Rest) : k.obj \in S
    BY <1>2, <1>3, <1>4, <1>9, <2>1 DEF MarkInv, MarkReach
  <2>3. Kids(o) \subseteq S
    BY <1>7, <1>8, <2>2 DEF Keeps
  <2> QED BY <1>8, <1>11, <1>18, <2>2, <2>3
<1>20. MarkInv'
  <2>1. \A k \in Todo' : k.task \in {"visit", "dec"} /\ k.obj \in Live'
    BY <1>3, <1>7, <1>9, <1>11, <1>12, <1>18 DEF MarkInv
  <2>2. Gray' \subseteq Live' /\ seen' = {} /\ condemned' = {}
    BY <1>3, <1>6, <1>7, <1>8, <1>12 DEF MarkInv
  <2> QED BY <1>8, <1>15, <1>16, <1>17, <1>19, <2>1, <2>2 DEF MarkInv
<1> QED BY <1>6, <1>7, <1>13, <1>14, <1>20 DEF IInv

\* mark_gray: a visit.
LEMMA VisitStep ==
    ASSUME IInv, Visit
    PROVE  IInv'
<1>1. CASE color[Top.obj] # "gray"
  BY <1>1, VisitNew
<1>2. CASE color[Top.obj] = "gray"
  <2>1. /\ stk # <<>> /\ Top.task = "visit" /\ stk' = Rest /\ shadow' = shadow
        /\ UNCHANGED <<gcRest, color, buffered, seen, condemned>>
    BY <1>2 DEF Visit
  <2>2. phase = "mark" /\ stk \in Seq(Tasks)
    BY <2>1, TaskPhase
  <2>3. StateTypeOK /\ MarkInv
    BY <2>2 DEF IInv
  <2>4. Top.obj \in Gray
    BY <1>2, <2>1, <2>2, Popped DEF Gray
  <2>5. Gray' = Gray /\ edge' = edge /\ strong' = strong
    BY <2>1 DEF Gray, gcRest, heapVars
  <2>6. ASSUME NEW c PROVE Cardinality(DecsOn(Rest, c)) = Cardinality(DecsOn(stk, c))
    <3>1. Top # Task("dec", c)
      BY <2>1 DEF Task
    <3> QED BY <2>1, <2>2, <3>1, PoppedDecs
  <2>7. MarkCounts'
    BY <2>1, <2>3, <2>5, <2>6 DEF MarkInv, MarkCounts
  <2>8. shadow' \in [Objects -> Nat]
    BY <2>1, <2>3 DEF StateTypeOK
  <2> QED BY <2>1, <2>2, <2>4, <2>7, <2>8, MarkPop
<1> QED BY <1>1, <1>2

\* mark_gray: a decrement. Its object is gray, and its shadow above zero.
LEMMA DecShadowStep ==
    ASSUME IInv, DecShadow
    PROVE  IInv'
<1>1. /\ stk # <<>> /\ Top.task = "dec" /\ stk' = Rest
      /\ UNCHANGED <<gcRest, color, buffered, seen, condemned>>
  BY DEF DecShadow
<1>2. phase = "mark" /\ stk \in Seq(Tasks)
  BY <1>1, TaskPhase
<1>3. StateTypeOK /\ HeapInv /\ MarkInv
  BY <1>2 DEF IInv
<1>4. PICK o \in Objects : o = Top.obj /\ Top = Task("dec", o)
  BY <1>1, <1>2, Popped
<1>5. shadow' = [shadow EXCEPT ![o] = @ - 1]
  BY <1>4 DEF DecShadow
<1>6. o \in Gray
  <2>1. Len(stk) \in Nat \ {0} /\ Top = stk[Len(stk)]
    BY <1>1, <1>2, Popped
  <2>2. Len(stk) \in 1 .. Len(stk) /\ Len(stk) + 1 .. Len(stk) = {}
    BY <2>1
  <2> QED BY <1>1, <1>3, <1>4, <2>1, <2>2 DEF MarkInv, DecsFollowVisits
<1>7. Gray' = Gray /\ edge' = edge /\ strong' = strong
  BY <1>1 DEF Gray, gcRest, heapVars
<1>8. \A c \in Objects : Top = Task("dec", c) <=> c = o
  BY <1>4 DEF Task
<1>9. \A c \in Objects :
         /\ Cardinality(DecsOn(stk, c)) \in Nat /\ Cardinality(DecsOn(Rest, c)) \in Nat
         /\ Cardinality(DecsOn(stk, c)) = IF c = o THEN Cardinality(DecsOn(Rest, c)) + 1
                                          ELSE Cardinality(DecsOn(Rest, c))
  BY <1>1, <1>2, <1>8, PoppedDecs
<1>10. shadow[o] \in Nat /\ shadow[o] > 0
  <2> DEFINE g == Cardinality(Into(Gray, o, edge))
             n == Cardinality(InEdges(o, edge))
             d == Cardinality(DecsOn(stk, o))
             u == Cardinality(DecsOn(Rest, o))
  <2>1. shadow[o] + g = strong[o] + d
    BY <1>3, <1>6 DEF MarkInv, MarkCounts
  <2>2. d \in Nat /\ u \in Nat /\ d = u + 1
    BY <1>9
  <2>3. g \in Nat /\ g <= n /\ n \in Nat
    <3>1. Gray \in SUBSET Objects /\ InEdges(o, edge) = Into(Objects, o, edge)
      BY <1>3, RefsSum DEF Gray
    <3> QED BY <3>1, IntoMonotone
  <2>4. strong[o] >= Refs(o)
    BY <1>3, <1>6 DEF MarkInv, HeapInv, Live
  <2>5. /\ Refs(o) = held[o] + pending[o] + n /\ held[o] \in Nat /\ pending[o] \in Nat
        /\ strong[o] \in Nat
    BY <1>3, RefsSum
  <2>6. shadow[o] \in Nat
    BY <1>3 DEF StateTypeOK
  <2> HIDE DEF g, n, d, u
  <2>7. strong[o] >= n
    BY <2>3, <2>4, <2>5
  <2> QED BY <2>1, <2>2, <2>3, <2>5, <2>6, <2>7
<1>11. shadow' \in [Objects -> Nat]
  BY <1>3, <1>5, <1>10 DEF StateTypeOK
<1>12. \A x \in Objects :
          shadow'[x] = (IF x = o THEN shadow[x] - 1 ELSE shadow[x]) /\ shadow[x] \in Nat
          /\ strong[x] \in Nat
  BY <1>3, <1>5 DEF StateTypeOK
<1>13. MarkCounts'
  <2> SUFFICES ASSUME NEW c \in Objects
               PROVE  /\ c \in Gray =>
                             shadow'[c] + Cardinality(Into(Gray, c, edge))
                                = strong[c] + Cardinality(DecsOn(Rest, c))
                      /\ c \notin Gray =>
                             Cardinality(DecsOn(Rest, c)) = Cardinality(Into(Gray, c, edge))
    BY <1>1, <1>7 DEF MarkCounts
  <2> DEFINE g == Cardinality(Into(Gray, c, edge))
             d == Cardinality(DecsOn(stk, c))
             u == Cardinality(DecsOn(Rest, c))
  <2>1. g \in Nat
    <3>1. Gray \in SUBSET Objects
      BY DEF Gray
    <3> QED BY <3>1, IntoMonotone
  <2>2. /\ c \in Gray => shadow[c] + g = strong[c] + d
        /\ c \notin Gray => d = g
    BY <1>3 DEF MarkInv, MarkCounts
  <2>3. d \in Nat /\ u \in Nat /\ d = IF c = o THEN u + 1 ELSE u
    BY <1>9
  <2> HIDE DEF g, d, u
  <2>4. c \in Gray => shadow'[c] + g = strong[c] + u
    BY <1>12, <2>1, <2>2, <2>3
  <2>5. c \notin Gray => u = g
    BY <1>6, <2>2, <2>3
  <2> QED BY <2>4, <2>5 DEF g, u
<1> QED BY <1>1, <1>2, <1>11, <1>13, MarkPop

-----------------------------------------------------------------------------
(* Scanning. *)

\* A scan of a root is put on the empty stack.
LEMMA ScanRootNext ==
    ASSUME IInv, ScanRoot, idx <= Len(roots)
    PROVE  IInv'
<1>0. StateTypeOK
  BY DEF IInv
<1>1. /\ phase = "scan" /\ phase' = "scan" /\ stk = <<>> /\ idx' = idx + 1
      /\ UNCHANGED <<heapVars, dying, metaVars, roots, seen, condemned>>
      /\ stk' = IF roots[idx] # NoObject THEN <<Task("scan", roots[idx])>> ELSE <<>>
  <2>1. ~(idx > Len(roots))
    BY <1>0, RootAt
  <2> QED BY <2>1 DEF ScanRoot, NextRoot
<1>2. HeapInv /\ Buffering /\ Anchored /\ ScanInv
  BY <1>1 DEF IInv
<1>3. /\ HeapInv' /\ Anchored' /\ RootSet' = RootSet /\ Live' = Live
      /\ life' = life /\ edge' = edge /\ strong' = strong /\ roots' = roots
      /\ held' = held /\ pending' = pending /\ dying' = dying
      /\ \A o : Kids(o)' = Kids(o)
  BY <1>1, <1>2, HeapSame
<1>4. /\ color' = color /\ shadow' = shadow /\ buffered' = buffered
      /\ seen' = seen /\ condemned' = condemned
  BY <1>1 DEF metaVars
<1>5. Gray' = Gray /\ White' = White /\ Marked' = Marked
  BY <1>4 DEF Gray, White, Marked
<1>6. /\ idx \in 1 .. Len(roots) /\ Len(roots) \in Nat /\ idx + 1 \in Nat \ {0}
      /\ roots[idx] \in Objects \union {NoObject} /\ NoObject \notin Objects
      /\ \A o \in Objects : roots[idx] = o => o \in RootSet
  BY <1>0, RootAt, CollectorAssumption
<1>7. Todo = {} /\ Blacks = {}
  BY <1>1, NoTask DEF Todo, Blacks
<1>8. /\ stk' \in Seq(Tasks)
      /\ \A k \in Todo' : k.task = "scan" /\ k.obj = roots[idx] /\ k.obj \in RootSet
      /\ roots[idx] \in Objects => \E k \in Todo' : k.obj = roots[idx]
      /\ Blacks' = {}
  <2>1. CASE roots[idx] \in Objects
    <3> DEFINE one == <<Task("scan", roots[idx])>>
    <3>1. /\ one \in Seq(Tasks) /\ On(one) = {Task("scan", roots[idx])}
          /\ Task("scan", roots[idx]).task = "scan"
          /\ Task("scan", roots[idx]).obj = roots[idx]
      BY <2>1, OneTask
    <3>2. stk' = one
      BY <1>1, <1>6, <2>1
    <3>3. \A o : Task("black", o).task = "black"
      BY DEF Task
    <3> HIDE DEF one
    <3> QED BY <1>6, <2>1, <3>1, <3>2, <3>3 DEF Todo, Blacks
  <2>2. CASE roots[idx] \notin Objects
    <3>1. stk' = <<>>
      BY <1>1, <1>6, <2>2
    <3> QED BY <2>2, <3>1, NoTask DEF Todo, Blacks
  <2> QED BY <2>1, <2>2
<1>9. StateTypeOK'
  BY <1>0, <1>1, <1>3, <1>4, <1>6, <1>8 DEF StateTypeOK
<1>10. Buffering'
  BY <1>1, <1>2, <1>3, <1>4 DEF Buffering
<1>11. ScanCounts'
  BY <1>2, <1>3, <1>4, <1>5, <1>7, <1>8 DEF ScanInv, ScanCounts
<1>12. ScanLeft'
  <2> SUFFICES ASSUME NEW S \in SUBSET Objects, RootsLeft' \subseteq S,
                      \A k \in Todo' : k.obj \in S, Keeps(S, Gray)'
               PROVE  Gray \subseteq S
    BY <1>5 DEF ScanLeft
  <2>1. RootsLeft \subseteq S
    <3> SUFFICES ASSUME NEW o \in Objects, NEW i \in idx .. Len(roots), roots[i] = o
                 PROVE  o \in S
      BY DEF RootsLeft
    <3>1. CASE i = idx
      BY <1>8, <3>1
    <3>2. CASE i # idx
      <4>1. i \in idx' .. Len(roots')
        BY <1>1, <1>3, <1>6, <3>2
      <4> QED BY <1>3, <4>1 DEF RootsLeft
    <3> QED BY <3>1, <3>2
  <2>2. Keeps(S, Gray)
    BY <1>3, <1>5 DEF Keeps
  <2> QED BY <1>2, <1>7, <2>1, <2>2 DEF ScanInv, ScanLeft
<1>13. ScanReach'
  <2> SUFFICES ASSUME NEW S \in SUBSET Objects, RootSet \subseteq S, Keeps(S, White)'
               PROVE  White \subseteq S /\ \A k \in Todo' : k.obj \in S
    BY <1>3, <1>5 DEF ScanReach
  <2>1. Keeps(S, White)
    BY <1>3, <1>5 DEF Keeps
  <2>2. White \subseteq S
    BY <1>2, <1>7, <2>1 DEF ScanInv, ScanReach
  <2> QED BY <1>8, <2>2
<1>14. ScanComplete'
  <2> SUFFICES ASSUME NEW U \in SUBSET Objects, SelfHeld(U)'
               PROVE  U \subseteq Marked
    BY <1>5, <1>8 DEF ScanComplete
  <2>1. SelfHeld(U)
    BY <1>3 DEF SelfHeld
  <2> QED BY <1>2, <2>1 DEF ScanInv, ScanComplete
<1>15. ScanInv'
  BY <1>2, <1>3, <1>4, <1>5, <1>8, <1>11, <1>12, <1>13, <1>14 DEF ScanInv
<1> QED BY <1>1, <1>3, <1>9, <1>10, <1>15 DEF IInv

\* Scanning is done: nothing is gray, and the white objects are complete garbage.
LEMMA ScanRootDone ==
    ASSUME IInv, ScanRoot, idx > Len(roots)
    PROVE  IInv'
<1>1. /\ phase = "scan" /\ phase' = "white" /\ stk = <<>> /\ stk' = <<>> /\ idx' = 1
      /\ UNCHANGED <<heapVars, dying, metaVars, roots, seen, condemned>>
  BY DEF ScanRoot, NextRoot
<1>2. StateTypeOK /\ HeapInv /\ Buffering /\ Anchored /\ ScanInv
  BY <1>1 DEF IInv
<1>3. /\ HeapInv' /\ Anchored' /\ RootSet' = RootSet /\ Live' = Live
      /\ life' = life /\ edge' = edge /\ strong' = strong /\ roots' = roots
      /\ held' = held /\ pending' = pending /\ dying' = dying
      /\ \A o : Kids(o)' = Kids(o)
  BY <1>1, <1>2, HeapSame
<1>4. /\ color' = color /\ shadow' = shadow /\ buffered' = buffered
      /\ seen' = seen /\ condemned' = condemned
  BY <1>1 DEF metaVars
<1>5. Todo = {} /\ Blacks = {} /\ Todo' = {}
  BY <1>1, NoTask DEF Todo, Blacks
<1>6. Gray = {}
  <2>1. RootsLeft = {}
    <3>1. idx \in Nat /\ Len(roots) \in Nat
      BY <1>2, LenProperties DEF StateTypeOK
    <3>2. idx .. Len(roots) = {}
      BY <3>1
    <3> QED BY <3>2 DEF RootsLeft
  <2>2. Keeps({}, Gray)
    BY DEF Keeps
  <2> QED BY <1>2, <1>5, <2>1, <2>2 DEF ScanInv, ScanLeft
<1>7. Gray' = {} /\ White' = White /\ Marked = White /\ White \subseteq Live
  BY <1>2, <1>4, <1>6 DEF Gray, White, Marked, ScanInv
<1>8. StateTypeOK'
  BY <1>1, <1>2, <1>3, <1>4 DEF StateTypeOK, Phases
<1>9. Buffering'
  BY <1>1, <1>2, <1>3, <1>4 DEF Buffering
<1>10. WhiteGarbage'
  <2>1. ASSUME NEW o \in White PROVE strong[o] = Cardinality(Into(White, o, edge))
    <3>1. White \in SUBSET Objects /\ o \in Objects
      BY DEF White
    <3>2. shadow[o] + Cardinality(Into(White, o, edge)) = strong[o] /\ shadow[o] = 0
      BY <1>2, <1>5, <1>7 DEF ScanInv, ScanCounts
    <3>3. Cardinality(Into(White, o, edge)) \in Nat
      BY <3>1, IntoMonotone
    <3> QED BY <3>2, <3>3
  <2>2. ASSUME NEW U \in SUBSET Objects, SelfHeld(U)' PROVE U \subseteq White
    <3>1. SelfHeld(U)
      BY <1>3, <2>2 DEF SelfHeld
    <3> QED BY <1>2, <1>7, <3>1 DEF ScanInv, ScanComplete
  <2>3. ASSUME NEW S \in SUBSET Objects, RootSet \subseteq S, Keeps(S, White)'
        PROVE  White \subseteq S
    <3>1. Keeps(S, White)
      BY <1>3, <1>7, <2>3 DEF Keeps
    <3> QED BY <1>2, <1>5, <2>3, <3>1 DEF ScanInv, ScanReach
  <2> QED BY <1>3, <1>7, <2>1, <2>2, <2>3 DEF WhiteGarbage
<1>11. WhiteFrontier'
  <2>1. \A i \in 1 .. Len(roots') : ~(i < idx')
    BY <1>1
  <2>2. seen' = {} /\ condemned' = {}
    BY <1>2, <1>4 DEF ScanInv
  <2> QED BY <2>1, <2>2 DEF WhiteFrontier
<1>12. WhiteInv'
  BY <1>3, <1>5, <1>7, <1>10, <1>11 DEF WhiteInv
<1> QED BY <1>1, <1>3, <1>8, <1>9, <1>12 DEF IInv

\* What the steps of scan have in common: their object, what is left on the
\* stack, and what does not change.
LEMMA ScanFrame ==
    ASSUME IInv, Scan \/ ScanBlack
    PROVE  /\ phase = "scan" /\ phase' = "scan" /\ idx' = idx
           /\ StateTypeOK /\ HeapInv /\ Buffering /\ Anchored /\ ScanInv
           /\ HeapInv' /\ Anchored' /\ RootSet' = RootSet /\ Live' = Live
           /\ life' = life /\ edge' = edge /\ strong' = strong /\ roots' = roots
           /\ held' = held /\ pending' = pending /\ dying' = dying
           /\ seen' = seen /\ condemned' = condemned /\ RootsLeft' = RootsLeft
           /\ (\A o : Kids(o)' = Kids(o))
           /\ Top.obj \in Objects /\ Top = Task(Top.task, Top.obj)
           /\ Rest \in Seq(Tasks) /\ Todo = On(Rest) \union {Top} /\ Top \in Todo
<1>1. /\ stk # <<>> /\ Top.task \in {"scan", "black"}
      /\ UNCHANGED <<gcRest, seen, condemned>>
  BY DEF Scan, ScanBlack
<1>2. phase = "scan" /\ stk \in Seq(Tasks) /\ Top \in Todo
  BY <1>1, TaskPhase
<1>3. StateTypeOK /\ HeapInv /\ Buffering /\ Anchored /\ ScanInv
  BY <1>2 DEF IInv
<1>4. /\ UNCHANGED <<heapVars, dying, roots>> /\ phase' = "scan" /\ idx' = idx
      /\ seen' = seen /\ condemned' = condemned
  BY <1>1, <1>2 DEF gcRest
<1>5. /\ HeapInv' /\ Anchored' /\ RootSet' = RootSet /\ Live' = Live
      /\ life' = life /\ edge' = edge /\ strong' = strong /\ roots' = roots
      /\ held' = held /\ pending' = pending /\ dying' = dying
      /\ \A o : Kids(o)' = Kids(o)
  BY <1>3, <1>4, HeapSame
<1>6. RootsLeft' = RootsLeft
  BY <1>4, <1>5 DEF RootsLeft
<1>7. /\ Top.obj \in Objects /\ Top = Task(Top.task, Top.obj)
      /\ Rest \in Seq(Tasks) /\ Todo = On(Rest) \union {Top}
  BY <1>1, <1>2, Popped
<1> QED BY <1>2, <1>3, <1>4, <1>5, <1>6, <1>7

\* The invariant after a step of scan, from its parts.
LEMMA ScanKept ==
    ASSUME IInv, Scan \/ ScanBlack,
           stk' \in Seq(Tasks), color' \in [Objects -> Colors], shadow' \in [Objects -> Nat],
           buffered' \in [Objects -> BOOLEAN], \A x \in Objects : buffered'[x] => buffered[x],
           Marked' \subseteq Marked, \A k \in Todo' : k.task \in {"scan", "black"},
           ScanCounts', ScanLeft', ScanReach', ScanComplete'
    PROVE  IInv'
<1>1. /\ phase' = "scan" /\ idx' = idx
      /\ StateTypeOK /\ Buffering /\ ScanInv
      /\ HeapInv' /\ Anchored' /\ RootSet' = RootSet /\ Live' = Live
      /\ life' = life /\ edge' = edge /\ strong' = strong /\ roots' = roots
      /\ held' = held /\ pending' = pending /\ dying' = dying
      /\ seen' = seen /\ condemned' = condemned
  BY ScanFrame
<1>2. StateTypeOK'
  BY <1>1 DEF StateTypeOK, Phases
<1>3. Buffering'
  <2>1. Live \subseteq Objects
    BY DEF Live
  <2> QED BY <1>1, <2>1 DEF Buffering
<1>4. ScanInv'
  BY <1>1 DEF ScanInv
<1> QED BY <1>1, <1>2, <1>3, <1>4 DEF IInv


LEMMA TaskParts == \A t, o : Task(t, o).task = t /\ Task(t, o).obj = o
BY DEF Task

\* A scan that finds its object white or restored only leaves the stack.
LEMMA ScanSettled ==
    ASSUME IInv, Scan, color[Top.obj] # "gray"
    PROVE  IInv'
<1> DEFINE o == Top.obj
<1>1. /\ stk' = Rest /\ color' = color /\ shadow' = shadow /\ buffered' = buffered
      /\ Top.task = "scan"
  BY DEF Scan
<1>2. /\ StateTypeOK /\ ScanInv /\ RootSet' = RootSet /\ RootsLeft' = RootsLeft
      /\ life' = life /\ edge' = edge /\ strong' = strong
      /\ \A x : Kids(x)' = Kids(x)
      /\ o \in Objects /\ Top = Task(Top.task, o)
      /\ Rest \in Seq(Tasks) /\ Todo = On(Rest) \union {Top}
  BY ScanFrame
<1>3. Todo' = On(Rest) /\ Todo' \subseteq Todo /\ Todo = Todo' \union {Top}
  BY <1>1, <1>2 DEF Todo
<1>4. Blacks' = Blacks
  <2>1. \A x : Task("black", x) # Top
    BY <1>1, <1>2, TaskParts
  <2> QED BY <1>3, <2>1 DEF Blacks
<1>5. Gray' = Gray /\ White' = White /\ Marked' = Marked /\ o \notin Gray
  BY <1>1 DEF Gray, White, Marked
<1>6. ScanCounts'
  BY <1>1, <1>2, <1>4, <1>5 DEF ScanInv, ScanCounts
<1>7. ScanLeft'
  <2> SUFFICES ASSUME NEW S \in SUBSET Objects, RootsLeft \subseteq S,
                      \A k \in Todo' : k.obj \in S, Keeps(S, Gray)'
               PROVE  Gray \subseteq S
    BY <1>2, <1>5 DEF ScanLeft
  <2> DEFINE T == S \union {o}
  <2>1. T \in SUBSET Objects /\ RootsLeft \subseteq T /\ \A k \in Todo : k.obj \in T
    BY <1>2, <1>3
  <2>2. Keeps(T, Gray)
    BY <1>2, <1>5 DEF Keeps
  <2>3. Gray \subseteq T
    BY <1>2, <2>1, <2>2 DEF ScanInv, ScanLeft
  <2> QED BY <1>5, <2>3
<1>8. ScanReach'
  <2> SUFFICES ASSUME NEW S \in SUBSET Objects, RootSet \subseteq S, Blacks \subseteq S,
                      Keeps(S, White)'
               PROVE  White \subseteq S /\ \A k \in Todo' : k.obj \in Gray => k.obj \in S
    BY <1>2, <1>4, <1>5 DEF ScanReach
  <2>1. Keeps(S, White)
    BY <1>2, <1>5 DEF Keeps
  <2> QED BY <1>2, <1>3, <2>1 DEF ScanInv, ScanReach
<1>9. ScanComplete'
  <2> SUFFICES ASSUME NEW U \in SUBSET Objects, SelfHeld(U)'
               PROVE  U \subseteq Marked \ Blacks
    BY <1>4, <1>5 DEF ScanComplete
  <2>1. SelfHeld(U)
    BY <1>2 DEF SelfHeld
  <2> QED BY <1>2, <2>1 DEF ScanInv, ScanComplete
<1>10. \A k \in Todo' : k.task \in {"scan", "black"}
  BY <1>2, <1>3 DEF ScanInv
<1>11. /\ stk' \in Seq(Tasks) /\ color' \in [Objects -> Colors] /\ shadow' \in [Objects -> Nat]
       /\ buffered' \in [Objects -> BOOLEAN]
  BY <1>1, <1>2 DEF StateTypeOK
<1>12. \A x \in Objects : buffered'[x] => buffered[x]
  BY <1>1
<1> QED BY <1>5, <1>6, <1>7, <1>8, <1>9, <1>10, <1>11, <1>12, ScanKept

\* A gray object whose shadow is left over is referenced from outside: it is
\* to be restored, and no complete garbage holds it.
LEMMA ScanSurvivor ==
    ASSUME IInv, Scan, color[Top.obj] = "gray", shadow[Top.obj] > 0
    PROVE  IInv'
<1> DEFINE o == Top.obj
<1>1. /\ stk' = Push(Rest, <<Task("black", o)>>)
      /\ color' = color /\ shadow' = shadow /\ buffered' = buffered
      /\ Top.task = "scan"
  BY DEF Scan
<1>2. /\ StateTypeOK /\ ScanInv /\ RootSet' = RootSet /\ RootsLeft' = RootsLeft
      /\ life' = life /\ edge' = edge /\ strong' = strong
      /\ \A x : Kids(x)' = Kids(x)
      /\ o \in Objects /\ Top = Task(Top.task, o)
      /\ Rest \in Seq(Tasks) /\ Todo = On(Rest) \union {Top}
  BY ScanFrame
<1>3. /\ Todo' = On(Rest) \union {Task("black", o)} /\ stk' \in Seq(Tasks)
  <2>1. /\ <<Task("black", o)>> \in Seq(Tasks)
        /\ On(<<Task("black", o)>>) = {Task("black", o)}
    BY <1>2, OneTask
  <2>2. /\ Push(Rest, <<Task("black", o)>>) \in Seq(Tasks)
        /\ On(Push(Rest, <<Task("black", o)>>))
             = On(Rest) \union On(<<Task("black", o)>>)
    BY <1>2, <2>1, Pushed
  <2> QED BY <1>1, <2>1, <2>2 DEF Todo
<1>4. Blacks' = Blacks \union {o}
  <2>1. \A x : Task("black", x) # Top
    BY <1>1, <1>2, TaskParts
  <2>2. \A x : Task("black", x) = Task("black", o) <=> x = o
    BY TaskParts
  <2> QED BY <1>2, <1>3, <2>1, <2>2 DEF Blacks
<1>5. Gray' = Gray /\ White' = White /\ Marked' = Marked /\ o \in Gray /\ o \in Marked
  BY <1>1, <1>2 DEF Gray, White, Marked
<1>6. ScanCounts'
  BY <1>1, <1>2, <1>4, <1>5 DEF ScanInv, ScanCounts
<1>7. ScanLeft'
  <2> SUFFICES ASSUME NEW S \in SUBSET Objects, RootsLeft \subseteq S,
                      \A k \in Todo' : k.obj \in S, Keeps(S, Gray)'
               PROVE  Gray \subseteq S
    BY <1>2, <1>5 DEF ScanLeft
  <2>1. \A k \in Todo : k.obj \in S
    BY <1>2, <1>3, TaskParts
  <2>2. Keeps(S, Gray)
    BY <1>2, <1>5 DEF Keeps
  <2> QED BY <1>2, <2>1, <2>2 DEF ScanInv, ScanLeft
<1>8. ScanReach'
  <2> SUFFICES ASSUME NEW S \in SUBSET Objects, RootSet \subseteq S, Blacks' \subseteq S,
                      Keeps(S, White)'
               PROVE  White \subseteq S /\ \A k \in Todo' : k.obj \in Gray => k.obj \in S
    BY <1>2, <1>5 DEF ScanReach
  <2>1. Keeps(S, White) /\ Blacks \subseteq S /\ o \in S
    BY <1>2, <1>4, <1>5 DEF Keeps
  <2>2. White \subseteq S /\ \A k \in Todo : k.obj \in Gray => k.obj \in S
    BY <1>2, <2>1 DEF ScanInv, ScanReach
  <2> QED BY <1>2, <1>3, <2>1, <2>2, TaskParts
<1>9. ScanComplete'
  <2> SUFFICES ASSUME NEW U \in SUBSET Objects, SelfHeld(U)'
               PROVE  U \subseteq Marked \ Blacks'
    BY <1>5 DEF ScanComplete
  <2>1. SelfHeld(U)
    BY <1>2 DEF SelfHeld
  <2>2. U \subseteq Marked \ Blacks
    BY <1>2, <2>1 DEF ScanInv, ScanComplete
  <2>3. o \notin U
    <3> SUFFICES ASSUME o \in U PROVE FALSE
      OBVIOUS
    <3>1. Marked \in SUBSET Objects /\ U \in SUBSET Marked
      BY <2>2 DEF Marked, Gray, White
    <3> DEFINE a == Cardinality(Into(U, o, edge))
               b == Cardinality(Into(Marked, o, edge))
    <3>2. a \in Nat /\ b \in Nat /\ a <= b
      BY <3>1, IntoMonotone
    <3>3. strong[o] = a
      BY <2>1 DEF SelfHeld
    <3>4. shadow[o] + b = strong[o]
      BY <1>2, <1>5 DEF ScanInv, ScanCounts
    <3>5. shadow[o] \in Nat /\ shadow[o] > 0
      BY <1>2 DEF StateTypeOK
    <3> HIDE DEF a, b
    <3> QED BY <3>2, <3>3, <3>4, <3>5
  <2> QED BY <1>4, <2>2, <2>3
<1>10. \A k \in Todo' : k.task \in {"scan", "black"}
  BY <1>2, <1>3, TaskParts DEF ScanInv
<1>11. /\ color' \in [Objects -> Colors] /\ shadow' \in [Objects -> Nat]
       /\ buffered' \in [Objects -> BOOLEAN]
  BY <1>1, <1>2 DEF StateTypeOK
<1>12. \A x \in Objects : buffered'[x] => buffered[x]
  BY <1>1
<1> QED BY <1>3, <1>5, <1>6, <1>7, <1>8, <1>9, <1>10, <1>11, <1>12, ScanKept

\* A gray object without a shadow is condemned for now, and what it holds is
\* scanned next.
LEMMA ScanDoomed ==
    ASSUME IInv, Scan, color[Top.obj] = "gray", ~(shadow[Top.obj] > 0)
    PROVE  IInv'
<1> DEFINE o == Top.obj
<1>1. PICK fs \in FieldOrders(o) : stk' = Push(Rest, ChildTasks(o, fs, "scan"))
  BY DEF Scan
<1>2. /\ color' = [color EXCEPT ![o] = "white"]
      /\ shadow' = shadow /\ buffered' = buffered /\ Top.task = "scan"
  BY DEF Scan
<1>3. /\ StateTypeOK /\ ScanInv /\ RootSet' = RootSet /\ RootsLeft' = RootsLeft
      /\ life' = life /\ edge' = edge /\ strong' = strong
      /\ \A x : Kids(x)' = Kids(x)
      /\ o \in Objects /\ Top = Task(Top.task, o)
      /\ Rest \in Seq(Tasks) /\ Todo = On(Rest) \union {Top}
  BY ScanFrame
<1>4. /\ Todo' = On(Rest) \union {Task("scan", c) : c \in Kids(o)} /\ stk' \in Seq(Tasks)
  <2> DEFINE ts == ChildTasks(o, fs, "scan")
  <2>1. ts \in Seq(Tasks) /\ On(ts) = {Task("scan", c) : c \in Kids(o)}
    BY <1>1, <1>3, ChildTasksOn
  <2>2. Push(Rest, ts) \in Seq(Tasks) /\ On(Push(Rest, ts)) = On(Rest) \union On(ts)
    BY <1>3, <2>1, Pushed
  <2> QED BY <1>1, <2>1, <2>2 DEF Todo
<1>5. Blacks' = Blacks
  <2>1. \A x : Task("black", x) # Top
    BY <1>2, <1>3, TaskParts
  <2>2. \A x, c : Task("black", x) # Task("scan", c)
    BY TaskParts
  <2> QED BY <1>3, <1>4, <2>1, <2>2 DEF Blacks
<1>6. /\ color \in [Objects -> Colors] /\ \A x \in Objects : color'[x] = IF x = o THEN "white" ELSE color[x]
  BY <1>2, <1>3 DEF StateTypeOK
<1>7. /\ Gray' = Gray \ {o} /\ White' = White \union {o} /\ Marked' = Marked
      /\ o \in Gray /\ o \in Marked
  BY <1>3, <1>6 DEF Gray, White, Marked
<1>8. shadow[o] = 0
  <2>1. shadow[o] \in Nat
    BY <1>3 DEF StateTypeOK
  <2> QED BY <2>1
<1>9. ScanCounts'
  <2>1. \A x \in Objects : x # o => color'[x] = color[x]
    BY <1>6
  <2>2. \A x \in Objects : x \in Marked \/ color[x] = "black" => x \in Marked' \/ color'[x] = "black"
    BY <1>7, <2>1
  <2>3. \A p \in Marked : p \in Objects /\ Kids(p) \subseteq Objects
    BY <1>3, KidsLive, ScanFrame DEF Marked, Gray, White
  <2>4. Blacks \subseteq Objects
    BY DEF Blacks
  <2>5. /\ \A x \in Marked : shadow[x] + Cardinality(Into(Marked, x, edge)) = strong[x]
        /\ \A p \in Marked : \A c \in Kids(p) : c \in Marked \/ color[c] = "black"
        /\ \A x \in Blacks : x \in Marked \/ color[x] = "black"
        /\ \A x \in White : shadow[x] = 0 \/ x \in Blacks
    BY <1>3 DEF ScanInv, ScanCounts
  <2>6. \A p \in Marked' : \A c \in Kids(p)' : c \in Marked' \/ color'[c] = "black"
    BY <1>3, <1>7, <2>2, <2>3, <2>5
  <2>7. \A x \in Blacks' : x \in Marked' \/ color'[x] = "black"
    BY <1>5, <2>2, <2>4, <2>5
  <2>8. \A x \in White' : shadow'[x] = 0 \/ x \in Blacks'
    BY <1>2, <1>5, <1>7, <1>8, <2>5
  <2>9. \A x \in Marked' : shadow'[x] + Cardinality(Into(Marked', x, edge')) = strong'[x]
    BY <1>2, <1>3, <1>7, <2>5
  <2> QED BY <2>6, <2>7, <2>8, <2>9 DEF ScanCounts
<1>10. ScanLeft'
  <2> SUFFICES ASSUME NEW S \in SUBSET Objects, RootsLeft \subseteq S,
                      \A k \in Todo' : k.obj \in S, Keeps(S, Gray)'
               PROVE  Gray \ {o} \subseteq S
    BY <1>3, <1>7 DEF ScanLeft
  <2> DEFINE T == S \union {o}
  <2>1. T \in SUBSET Objects /\ RootsLeft \subseteq T /\ \A k \in Todo : k.obj \in T
    BY <1>3, <1>4
  <2>2. Kids(o) \subseteq S
    <3>1. \A c \in Kids(o) : Task("scan", c) \in Todo'
      BY <1>4
    <3> QED BY <3>1, TaskParts
  <2>3. Keeps(T, Gray)
    <3> SUFFICES ASSUME NEW p \in T \intersect Gray PROVE Kids(p) \subseteq T
      BY DEF Keeps
    <3>1. CASE p = o
      BY <2>2, <3>1
    <3>2. CASE p # o
      <4>1. p \in S \intersect Gray'
        BY <1>7, <3>2
      <4>2. Kids(p)' \subseteq S
        BY <4>1 DEF Keeps
      <4> QED BY <1>3, <4>2
    <3> QED BY <3>1, <3>2
  <2>4. Gray \subseteq T
    BY <1>3, <2>1, <2>3 DEF ScanInv, ScanLeft
  <2> QED BY <2>4
<1>11. ScanReach'
  <2> SUFFICES ASSUME NEW S \in SUBSET Objects, RootSet \subseteq S, Blacks \subseteq S,
                      Keeps(S, White)'
               PROVE  White' \subseteq S /\ \A k \in Todo' : k.obj \in Gray' => k.obj \in S
    BY <1>3, <1>5 DEF ScanReach
  <2>1. Keeps(S, White \union {o})
    BY <1>3, <1>7 DEF Keeps
  <2>2. Keeps(S, White)
    BY <2>1 DEF Keeps
  <2>3. White \subseteq S /\ \A k \in Todo : k.obj \in Gray => k.obj \in S
    BY <1>3, <2>2 DEF ScanInv, ScanReach
  <2>4. o \in S
    BY <1>3, <1>7, <2>3
  <2>5. Kids(o) \subseteq S
    BY <2>1, <2>4 DEF Keeps
  <2> QED BY <1>3, <1>4, <1>7, <2>3, <2>4, <2>5, TaskParts
<1>12. ScanComplete'
  <2> SUFFICES ASSUME NEW U \in SUBSET Objects, SelfHeld(U)'
               PROVE  U \subseteq Marked \ Blacks
    BY <1>5, <1>7 DEF ScanComplete
  <2>1. SelfHeld(U)
    BY <1>3 DEF SelfHeld
  <2> QED BY <1>3, <2>1 DEF ScanInv, ScanComplete
<1>13. \A k \in Todo' : k.task \in {"scan", "black"}
  BY <1>3, <1>4, TaskParts DEF ScanInv
<1>14. /\ color' \in [Objects -> Colors] /\ shadow' \in [Objects -> Nat]
       /\ buffered' \in [Objects -> BOOLEAN]
  BY <1>2, <1>3 DEF StateTypeOK, Colors
<1>15. \A x \in Objects : buffered'[x] => buffered[x]
  BY <1>2
<1> QED BY <1>4, <1>7, <1>9, <1>10, <1>11, <1>12, <1>13, <1>14, <1>15, ScanKept

LEMMA ScanStep ==
    ASSUME IInv, Scan
    PROVE  IInv'
BY ScanSettled, ScanSurvivor, ScanDoomed

\* The restoration of an object that is restored already.
LEMMA ScanBlackAgain ==
    ASSUME IInv, ScanBlack, color[Top.obj] = "black"
    PROVE  IInv'
<1> DEFINE o == Top.obj
<1>1. /\ stk' = Rest /\ color' = color /\ shadow' = shadow
      /\ buffered' = [buffered EXCEPT ![o] = FALSE]
      /\ Top.task = "black"
  BY DEF ScanBlack
<1>2. /\ StateTypeOK /\ ScanInv /\ RootSet' = RootSet /\ RootsLeft' = RootsLeft
      /\ life' = life /\ edge' = edge /\ strong' = strong
      /\ \A x : Kids(x)' = Kids(x)
      /\ o \in Objects /\ Top = Task(Top.task, o)
      /\ Rest \in Seq(Tasks) /\ Todo = On(Rest) \union {Top}
  BY ScanFrame
<1>3. Todo' = On(Rest) /\ Todo' \subseteq Todo /\ Todo = Todo' \union {Top}
  BY <1>1, <1>2 DEF Todo
<1>4. Blacks' \subseteq Blacks /\ Blacks \subseteq Blacks' \union {o}
  <2>1. \A x : Task("black", x) = Top => x = o
    BY <1>1, <1>2, TaskParts
  <2> QED BY <1>3, <2>1 DEF Blacks
<1>5. /\ Gray' = Gray /\ White' = White /\ Marked' = Marked
      /\ o \notin Gray /\ o \notin White
  BY <1>1 DEF Gray, White, Marked
<1>6. ScanCounts'
  BY <1>1, <1>2, <1>4, <1>5 DEF ScanInv, ScanCounts
<1>7. ScanLeft'
  <2> SUFFICES ASSUME NEW S \in SUBSET Objects, RootsLeft \subseteq S,
                      \A k \in Todo' : k.obj \in S, Keeps(S, Gray)'
               PROVE  Gray \subseteq S
    BY <1>2, <1>5 DEF ScanLeft
  <2> DEFINE T == S \union {o}
  <2>1. T \in SUBSET Objects /\ RootsLeft \subseteq T /\ \A k \in Todo : k.obj \in T
    BY <1>2, <1>3
  <2>2. Keeps(T, Gray)
    BY <1>2, <1>5 DEF Keeps
  <2>3. Gray \subseteq T
    BY <1>2, <2>1, <2>2 DEF ScanInv, ScanLeft
  <2> QED BY <1>5, <2>3
<1>8. ScanReach'
  <2> SUFFICES ASSUME NEW S \in SUBSET Objects, RootSet \subseteq S, Blacks' \subseteq S,
                      Keeps(S, White)'
               PROVE  White \subseteq S /\ \A k \in Todo' : k.obj \in Gray => k.obj \in S
    BY <1>2, <1>5 DEF ScanReach
  <2> DEFINE T == S \union {o}
  <2>1. T \in SUBSET Objects /\ RootSet \subseteq T /\ Blacks \subseteq T
    BY <1>2, <1>4
  <2>2. Keeps(T, White)
    BY <1>2, <1>5 DEF Keeps
  <2>3. White \subseteq T /\ \A k \in Todo : k.obj \in Gray => k.obj \in T
    BY <1>2, <2>1, <2>2 DEF ScanInv, ScanReach
  <2> QED BY <1>3, <1>5, <2>3
<1>9. ScanComplete'
  <2> SUFFICES ASSUME NEW U \in SUBSET Objects, SelfHeld(U)'
               PROVE  U \subseteq Marked \ Blacks'
    BY <1>5 DEF ScanComplete
  <2>1. SelfHeld(U)
    BY <1>2 DEF SelfHeld
  <2>2. U \subseteq Marked \ Blacks
    BY <1>2, <2>1 DEF ScanInv, ScanComplete
  <2> QED BY <1>4, <2>2
<1>10. \A k \in Todo' : k.task \in {"scan", "black"}
  BY <1>2, <1>3 DEF ScanInv
<1>11. /\ stk' \in Seq(Tasks) /\ color' \in [Objects -> Colors] /\ shadow' \in [Objects -> Nat]
       /\ buffered \in [Objects -> BOOLEAN] /\ buffered' \in [Objects -> BOOLEAN]
  BY <1>1, <1>2 DEF StateTypeOK
<1>12. \A x \in Objects : buffered'[x] => buffered[x]
  BY <1>1, <1>11
<1> QED BY <1>5, <1>6, <1>7, <1>8, <1>9, <1>10, <1>11, <1>12, ScanKept

\* Restoring a marked object gives back the references it had taken from the
\* shadows of what it holds, and these are restored next.
LEMMA ScanBlackRestore ==
    ASSUME IInv, ScanBlack, color[Top.obj] # "black"
    PROVE  IInv'
<1> DEFINE o == Top.obj
<1>1. PICK fs \in FieldOrders(o) : stk' = Push(Rest, ChildTasks(o, fs, "black"))
  BY DEF ScanBlack
<1>2. /\ color' = [color EXCEPT ![o] = "black"]
      /\ shadow' = [p \in Objects |-> shadow[p] + Cardinality(FieldsTo(o, p))]
      /\ buffered' = [buffered EXCEPT ![o] = FALSE]
      /\ Top.task = "black"
  BY DEF ScanBlack
<1>3. /\ StateTypeOK /\ HeapInv /\ ScanInv /\ RootSet' = RootSet /\ RootsLeft' = RootsLeft
      /\ life' = life /\ edge' = edge /\ strong' = strong
      /\ \A x : Kids(x)' = Kids(x)
      /\ o \in Objects /\ Top = Task(Top.task, o)
      /\ Rest \in Seq(Tasks) /\ Todo = On(Rest) \union {Top}
  BY ScanFrame
<1>4. /\ Todo' = On(Rest) \union {Task("black", c) : c \in Kids(o)} /\ stk' \in Seq(Tasks)
  <2> DEFINE ts == ChildTasks(o, fs, "black")
  <2>1. ts \in Seq(Tasks) /\ On(ts) = {Task("black", c) : c \in Kids(o)}
    BY <1>1, <1>3, ChildTasksOn
  <2>2. Push(Rest, ts) \in Seq(Tasks) /\ On(Push(Rest, ts)) = On(Rest) \union On(ts)
    BY <1>3, <2>1, Pushed
  <2> QED BY <1>1, <2>1, <2>2 DEF Todo
<1>5. Kids(o) \subseteq Objects /\ \A p \in Marked : p \in Objects /\ Kids(p) \subseteq Objects
  BY <1>3, KidsLive DEF Marked, Gray, White
<1>6. /\ Blacks \subseteq Objects
      /\ Blacks \subseteq Blacks' \union {o}
      /\ Blacks' \subseteq Blacks \union Kids(o)
      /\ Kids(o) \subseteq Blacks'
      /\ o \in Blacks
  <2>1. Top = Task("black", o)
    BY <1>2, <1>3
  <2>2. \A x, c : Task("black", x) = Task("black", c) => x = c
    BY TaskParts
  <2>3. \A x : Task("black", x) \in Todo <=> Task("black", x) \in On(Rest) \/ x = o
    BY <1>3, <2>1, <2>2
  <2>4. \A x : Task("black", x) \in Todo' <=> Task("black", x) \in On(Rest) \/ x \in Kids(o)
    BY <1>4, <2>2
  <2> QED BY <1>3, <1>5, <2>3, <2>4 DEF Blacks
<1>7. /\ color \in [Objects -> Colors]
      /\ \A x \in Objects : color'[x] = IF x = o THEN "black" ELSE color[x]
  BY <1>2, <1>3 DEF StateTypeOK
<1>8. /\ Gray' = Gray \ {o} /\ White' = White \ {o} /\ Marked' = Marked \ {o}
  BY <1>3, <1>7 DEF Gray, White, Marked
<1>9. /\ \A x \in Marked : shadow[x] + Cardinality(Into(Marked, x, edge)) = strong[x]
      /\ \A p \in Marked : \A c \in Kids(p) : c \in Marked \/ color[c] = "black"
      /\ \A x \in Blacks : x \in Marked \/ color[x] = "black"
      /\ \A x \in White : shadow[x] = 0 \/ x \in Blacks
  BY <1>3 DEF ScanInv, ScanCounts
<1>10. o \in Marked
  BY <1>6, <1>9
<1>11. ScanCounts'
  <2>1. \A x \in Objects : x \in Marked \/ color[x] = "black" => x \in Marked' \/ color'[x] = "black"
    BY <1>7, <1>8
  <2>2. ASSUME NEW x \in Marked'
        PROVE  shadow'[x] + Cardinality(Into(Marked', x, edge')) = strong'[x]
    <3>1. Marked \in SUBSET Objects /\ x \in Marked /\ x \in Objects
      BY <1>8 DEF Marked, Gray, White
    <3> DEFINE a == Cardinality(Into(Marked, x, edge))
               b == Cardinality(Into(Marked \ {o}, x, edge))
               f == Cardinality(Fields(o, x, edge))
    <3>2. a = b + f
      BY <1>10, <3>1, IntoRemove
    <3>3. a \in Nat /\ b \in Nat
      BY <3>1, IntoMonotone
    <3>4. f \in Nat
      BY <1>3, IntoOne
    <3>5. shadow[x] \in Nat /\ shadow'[x] = shadow[x] + f
      BY <1>2, <1>3, <3>1 DEF StateTypeOK, FieldsTo, Fields
    <3>6. shadow[x] + a = strong[x]
      BY <1>9, <3>1
    <3>7. Cardinality(Into(Marked', x, edge')) = b
      BY <1>3, <1>8
    <3> HIDE DEF a, b, f
    <3>8. shadow'[x] + b = strong[x]
      BY <3>2, <3>3, <3>4, <3>5, <3>6
    <3> QED BY <1>3, <3>7, <3>8
  <2>3. \A p \in Marked' : \A c \in Kids(p)' : c \in Marked' \/ color'[c] = "black"
    BY <1>3, <1>5, <1>8, <1>9, <2>1
  <2>4. \A x \in Blacks' : x \in Marked' \/ color'[x] = "black"
    BY <1>5, <1>6, <1>9, <1>10, <2>1
  <2>5. ASSUME NEW x \in White', x \notin Blacks'
        PROVE  shadow'[x] = 0
    <3>1. x \in White /\ x # o /\ x \in Objects
      BY <1>8 DEF White
    <3>2. shadow[x] = 0
      BY <1>6, <1>9, <2>5, <3>1
    <3>3. FieldsTo(o, x) = {}
      <4>1. x # NoObject /\ x \notin Kids(o)
        BY <1>6, <2>5, <3>1, CollectorAssumption
      <4> QED BY <4>1 DEF FieldsTo, Kids
    <3>4. Cardinality(FieldsTo(o, x)) = 0
      BY <3>3, FS_EmptySet
    <3> QED BY <1>2, <3>1, <3>2, <3>4
  <2> QED BY <2>2, <2>3, <2>4, <2>5 DEF ScanCounts
<1>12. ScanLeft'
  <2> SUFFICES ASSUME NEW S \in SUBSET Objects, RootsLeft \subseteq S,
                      \A k \in Todo' : k.obj \in S, Keeps(S, Gray)'
               PROVE  Gray \ {o} \subseteq S
    BY <1>3, <1>8 DEF ScanLeft
  <2> DEFINE T == S \union {o}
  <2>1. T \in SUBSET Objects /\ RootsLeft \subseteq T /\ \A k \in Todo : k.obj \in T
    BY <1>3, <1>4
  <2>2. Kids(o) \subseteq S
    BY <1>4, TaskParts
  <2>3. Keeps(T, Gray)
    <3> SUFFICES ASSUME NEW p \in T \intersect Gray PROVE Kids(p) \subseteq T
      BY DEF Keeps
    <3>1. CASE p = o
      BY <2>2, <3>1
    <3>2. CASE p # o
      <4>1. p \in S \intersect Gray'
        BY <1>8, <3>2
      <4>2. Kids(p)' \subseteq S
        BY <4>1 DEF Keeps
      <4> QED BY <1>3, <4>2
    <3> QED BY <3>1, <3>2
  <2>4. Gray \subseteq T
    BY <1>3, <2>1, <2>3 DEF ScanInv, ScanLeft
  <2> QED BY <2>4
<1>13. ScanReach'
  <2> SUFFICES ASSUME NEW S \in SUBSET Objects, RootSet \subseteq S, Blacks' \subseteq S,
                      Keeps(S, White)'
               PROVE  White \ {o} \subseteq S /\ \A k \in Todo' : k.obj \in Gray' => k.obj \in S
    BY <1>3, <1>8 DEF ScanReach
  <2> DEFINE T == S \union {o}
  <2>1. T \in SUBSET Objects /\ RootSet \subseteq T /\ Blacks \subseteq T
    BY <1>3, <1>6
  <2>2. Kids(o) \subseteq S
    BY <1>6
  <2>3. Keeps(T, White)
    <3> SUFFICES ASSUME NEW p \in T \intersect White PROVE Kids(p) \subseteq T
      BY DEF Keeps
    <3>1. CASE p = o
      BY <2>2, <3>1
    <3>2. CASE p # o
      <4>1. p \in S \intersect White'
        BY <1>8, <3>2
      <4>2. Kids(p)' \subseteq S
        BY <4>1 DEF Keeps
      <4> QED BY <1>3, <4>2
    <3> QED BY <3>1, <3>2
  <2>4. White \subseteq T /\ \A k \in Todo : k.obj \in Gray => k.obj \in T
    BY <1>3, <2>1, <2>3 DEF ScanInv, ScanReach
  <2> QED BY <1>3, <1>4, <1>8, <2>2, <2>4, TaskParts
<1>14. ScanComplete'
  <2> SUFFICES ASSUME NEW U \in SUBSET Objects, SelfHeld(U)'
               PROVE  U \subseteq (Marked \ {o}) \ Blacks'
    BY <1>8 DEF ScanComplete
  <2>1. SelfHeld(U)
    BY <1>3 DEF SelfHeld
  <2>2. U \subseteq Marked \ Blacks
    BY <1>3, <2>1 DEF ScanInv, ScanComplete
  <2>3. o \notin U
    BY <1>6, <2>2
  <2>4. \A c \in U : c \notin Kids(o)
    <3> SUFFICES ASSUME NEW c \in U, NEW s \in Slots, edge[o][s] = c PROVE FALSE
      BY DEF Kids
    <3>1. o \in U
      BY <1>3, <2>1, SelfHeldRefs
    <3> QED BY <2>3, <3>1
  <2> QED BY <1>6, <2>2, <2>3, <2>4
<1>15. \A k \in Todo' : k.task \in {"scan", "black"}
  BY <1>3, <1>4, TaskParts DEF ScanInv
<1>16. /\ color' \in [Objects -> Colors] /\ buffered' \in [Objects -> BOOLEAN]
       /\ buffered \in [Objects -> BOOLEAN] /\ shadow \in [Objects -> Nat]
  BY <1>2, <1>3 DEF StateTypeOK, Colors
<1>17. shadow' \in [Objects -> Nat]
  <2>1. \A p \in Objects : Cardinality(FieldsTo(o, p)) \in Nat
    <3>1. \A p \in Objects : FieldsTo(o, p) = Fields(o, p, edge)
      BY DEF FieldsTo, Fields
    <3>2. \A p \in Objects : Cardinality(Fields(o, p, edge)) \in Nat
      BY <1>3, IntoOne
    <3> QED BY <3>1, <3>2
  <2>2. \A p \in Objects : shadow[p] + Cardinality(FieldsTo(o, p)) \in Nat
    BY <1>16, <2>1
  <2> QED BY <1>2, <2>2
<1>18. \A x \in Objects : buffered'[x] => buffered[x]
  BY <1>2, <1>16
<1> QED BY <1>4, <1>8, <1>11, <1>12, <1>13, <1>14, <1>15, <1>16, <1>17, <1>18, ScanKept

LEMMA ScanBlackStep ==
    ASSUME IInv, ScanBlack
    PROVE  IInv'
BY ScanBlackAgain, ScanBlackRestore

-----------------------------------------------------------------------------
(* Collecting the white objects. *)

\* A root is put on the empty stack.
LEMMA WhiteRootStep ==
    ASSUME IInv, WhiteRoot
    PROVE  IInv'
<1>1. /\ phase = "white" /\ phase' = "white" /\ stk = <<>> /\ idx' = idx + 1 /\ idx <= Len(roots)
      /\ UNCHANGED <<heapVars, dying, metaVars, roots, seen, condemned>>
      /\ stk' = IF roots[idx] = NoObject THEN <<>> ELSE <<Task("white", roots[idx])>>
  BY DEF WhiteRoot
<1>2. StateTypeOK /\ HeapInv /\ Buffering /\ Anchored /\ WhiteInv
  BY <1>1 DEF IInv
<1>3. /\ HeapInv' /\ Anchored' /\ RootSet' = RootSet /\ Live' = Live
      /\ life' = life /\ edge' = edge /\ strong' = strong /\ roots' = roots
      /\ held' = held /\ pending' = pending /\ dying' = dying
      /\ \A o : Kids(o)' = Kids(o)
  BY <1>1, <1>2, HeapSame
<1>4. /\ color' = color /\ shadow' = shadow /\ buffered' = buffered
      /\ seen' = seen /\ condemned' = condemned
  BY <1>1 DEF metaVars
<1>5. Gray' = Gray /\ White' = White
  BY <1>4 DEF Gray, White
<1>6. /\ idx \in 1 .. Len(roots) /\ Len(roots) \in Nat /\ idx + 1 \in Nat \ {0}
      /\ roots[idx] \in Objects \union {NoObject} /\ NoObject \notin Objects
      /\ \A i \in 1 .. Len(roots) : i < idx + 1 => i < idx \/ i = idx
  BY <1>1, <1>2, RootAt, CollectorAssumption
<1>7. Todo = {}
  BY <1>1, NoTask DEF Todo
<1>8. /\ stk' \in Seq(Tasks)
      /\ \A k \in Todo' : k.task = "white"
      /\ roots[idx] # NoObject => Task("white", roots[idx]) \in Todo'
  <2>1. CASE roots[idx] \in Objects
    <3> DEFINE one == <<Task("white", roots[idx])>>
    <3>1. /\ one \in Seq(Tasks) /\ On(one) = {Task("white", roots[idx])}
          /\ Task("white", roots[idx]).task = "white"
      BY <2>1, OneTask
    <3>2. stk' = one
      BY <1>1, <1>6, <2>1
    <3> HIDE DEF one
    <3> QED BY <3>1, <3>2 DEF Todo
  <2>2. CASE roots[idx] \notin Objects
    <3>1. stk' = <<>> /\ roots[idx] = NoObject
      BY <1>1, <1>6, <2>2
    <3> QED BY <3>1, NoTask DEF Todo
  <2> QED BY <2>1, <2>2
<1>9. StateTypeOK'
  BY <1>1, <1>2, <1>3, <1>4, <1>6, <1>8 DEF StateTypeOK
<1>10. Buffering'
  BY <1>1, <1>2, <1>3, <1>4 DEF Buffering
<1>11. WhiteGarbage'
  BY <1>2, <1>3, <1>5 DEF WhiteInv, WhiteGarbage, SelfHeld, Keeps
<1>12. WhiteFrontier'
  <2>1. /\ condemned = seen \intersect White
        /\ \A o \in seen \ White : ~buffered[o]
        /\ \A i \in 1 .. Len(roots) : i < idx /\ roots[i] # NoObject => roots[i] \in seen
        /\ \A p \in condemned : \A c \in Kids(p) : c \in seen
    BY <1>2, <1>7 DEF WhiteInv, WhiteFrontier
  <2>2. \A i \in 1 .. Len(roots') :
            i < idx' /\ roots'[i] # NoObject =>
                roots'[i] \in seen' \/ Task("white", roots'[i]) \in Todo'
    BY <1>1, <1>3, <1>4, <1>6, <1>8, <2>1
  <2> QED BY <1>3, <1>4, <1>5, <2>1, <2>2 DEF WhiteFrontier
<1>13. WhiteInv'
  BY <1>2, <1>3, <1>5, <1>8, <1>11, <1>12 DEF WhiteInv
<1> QED BY <1>1, <1>3, <1>9, <1>10, <1>13 DEF IInv

\* A step of collect_white: a white object that is new is condemned and what it
\* holds comes next; any other object is set black and leaves the root buffer.
LEMMA CollectWhiteStep ==
    ASSUME IInv, CollectWhite
    PROVE  IInv'
<1> DEFINE o == Top.obj
<1>1. /\ stk # <<>> /\ Top.task = "white" /\ seen' = seen \union {o}
      /\ UNCHANGED <<gcRest, shadow>>
  BY DEF CollectWhite
<1>2. phase = "white" /\ stk \in Seq(Tasks)
  BY <1>1, TaskPhase
<1>3. StateTypeOK /\ HeapInv /\ Buffering /\ Anchored /\ WhiteInv
  BY <1>2 DEF IInv
<1>4. /\ UNCHANGED <<heapVars, dying, roots>> /\ phase' = "white" /\ idx' = idx
      /\ shadow' = shadow
  BY <1>1, <1>2 DEF gcRest
<1>5. /\ HeapInv' /\ Anchored' /\ RootSet' = RootSet /\ Live' = Live
      /\ life' = life /\ edge' = edge /\ strong' = strong /\ roots' = roots
      /\ held' = held /\ pending' = pending /\ dying' = dying
      /\ \A x : Kids(x)' = Kids(x)
  BY <1>3, <1>4, HeapSame
<1>6. /\ o \in Objects /\ Top = Task("white", o)
      /\ Rest \in Seq(Tasks) /\ Todo = On(Rest) \union {Top}
  BY <1>1, <1>2, Popped
<1>7. /\ condemned = seen \intersect White
      /\ \A x \in seen \ White : ~buffered[x]
      /\ \A i \in 1 .. Len(roots) :
             i < idx /\ roots[i] # NoObject =>
                 roots[i] \in seen \/ Task("white", roots[i]) \in Todo
      /\ \A p \in condemned : \A c \in Kids(p) : c \in seen \/ Task("white", c) \in Todo
      /\ Gray = {} /\ White \subseteq Live /\ \A k \in Todo : k.task = "white"
      /\ seen \subseteq Objects /\ condemned \subseteq Objects
      /\ color \in [Objects -> Colors] /\ buffered \in [Objects -> BOOLEAN]
  BY <1>3 DEF WhiteInv, WhiteFrontier, StateTypeOK
\* What each case has to show.
<1>8. ASSUME stk' \in Seq(Tasks), On(Rest) \subseteq Todo', \A k \in Todo' : k.task = "white",
             color' \in [Objects -> Colors], buffered' \in [Objects -> BOOLEAN],
             \A x \in Objects : buffered'[x] => buffered[x],
             Gray' = {}, White' = White, condemned' = seen' \intersect White,
             o \notin White => ~buffered'[o],
             o \in condemned' \ condemned => \A c \in Kids(o) : Task("white", c) \in Todo'
      PROVE  IInv'
  <2>1. seen' \subseteq Objects /\ condemned' \subseteq Objects
    BY <1>1, <1>6, <1>7, <1>8
  <2>2. StateTypeOK'
    BY <1>3, <1>4, <1>5, <1>8, <2>1 DEF StateTypeOK, Phases
  <2>3. Buffering'
    <3>1. Live \subseteq Objects
      BY DEF Live
    <3> QED BY <1>3, <1>4, <1>5, <1>8, <3>1 DEF Buffering
  <2>4. WhiteGarbage'
    BY <1>3, <1>5, <1>8 DEF WhiteInv, WhiteGarbage, SelfHeld, Keeps
  <2>5. \A x : Task("white", x) \in Todo => x \in seen' \/ Task("white", x) \in Todo'
    <3>1. \A x : Task("white", x) = Top => x = o
      BY <1>6, TaskParts
    <3> QED BY <1>1, <1>6, <1>8, <3>1
  <2>6. \A x \in seen' \ White' : ~buffered'[x]
    BY <1>1, <1>7, <1>8
  <2>7. \A i \in 1 .. Len(roots') :
            i < idx' /\ roots'[i] # NoObject =>
                roots'[i] \in seen' \/ Task("white", roots'[i]) \in Todo'
    BY <1>1, <1>4, <1>5, <1>7, <2>5
  <2>8. \A p \in condemned' : \A c \in Kids(p)' : c \in seen' \/ Task("white", c) \in Todo'
    BY <1>1, <1>5, <1>7, <1>8, <2>5
  <2>9. WhiteFrontier'
    BY <1>8, <2>6, <2>7, <2>8 DEF WhiteFrontier
  <2>10. WhiteInv'
    BY <1>5, <1>7, <1>8, <2>4, <2>9 DEF WhiteInv
  <2> QED BY <1>4, <1>5, <2>2, <2>3, <2>10 DEF IInv
<1>9. CASE o \in seen
  <2>1. stk' = Rest /\ color' = color /\ buffered' = buffered /\ condemned' = condemned
    BY <1>9 DEF CollectWhite
  <2>2. Todo' = On(Rest)
    BY <2>1 DEF Todo
  <2>3. Gray' = {} /\ White' = White
    BY <1>7, <2>1 DEF Gray, White
  <2>4. condemned' = seen' \intersect White
    BY <1>1, <1>7, <1>9, <2>1
  <2> QED BY <1>6, <1>7, <1>8, <1>9, <2>1, <2>2, <2>3, <2>4
<1>10. CASE o \notin seen /\ color[o] = "white"
  <2>1. /\ condemned' = condemned \union {o} /\ color' = color /\ buffered' = buffered
    BY <1>10 DEF CollectWhite
  <2>2. PICK fs \in FieldOrders(o) : stk' = Push(Rest, ChildTasks(o, fs, "white"))
    BY <1>10 DEF CollectWhite
  <2>3. Todo' = On(Rest) \union {Task("white", c) : c \in Kids(o)} /\ stk' \in Seq(Tasks)
    <3> DEFINE ts == ChildTasks(o, fs, "white")
    <3>1. ts \in Seq(Tasks) /\ On(ts) = {Task("white", c) : c \in Kids(o)}
      BY <1>3, <1>6, <2>2, ChildTasksOn
    <3>2. Push(Rest, ts) \in Seq(Tasks) /\ On(Push(Rest, ts)) = On(Rest) \union On(ts)
      BY <1>6, <3>1, Pushed
    <3> QED BY <2>2, <3>1, <3>2 DEF Todo
  <2>4. Gray' = {} /\ White' = White /\ o \in White
    BY <1>6, <1>7, <1>10, <2>1 DEF Gray, White
  <2>5. condemned' = seen' \intersect White
    BY <1>1, <1>7, <2>1, <2>4
  <2>6. \A k \in Todo' : k.task = "white"
    BY <1>6, <1>7, <2>3, TaskParts
  <2> QED BY <1>6, <1>7, <1>8, <2>1, <2>3, <2>4, <2>5, <2>6
<1>11. CASE o \notin seen /\ color[o] # "white"
  <2>1. /\ stk' = Rest /\ condemned' = condemned
        /\ color' = [color EXCEPT ![o] = "black"]
        /\ buffered' = [buffered EXCEPT ![o] = FALSE]
    BY <1>11 DEF CollectWhite
  <2>2. Todo' = On(Rest)
    BY <2>1 DEF Todo
  <2>3. \A x \in Objects : color'[x] = IF x = o THEN "black" ELSE color[x]
    BY <1>7, <2>1
  <2>4. Gray' = {} /\ White' = White /\ o \notin White
    BY <1>6, <1>7, <1>11, <2>3 DEF Gray, White
  <2>5. condemned' = seen' \intersect White
    BY <1>1, <1>7, <2>1, <2>4
  <2>6. /\ color' \in [Objects -> Colors] /\ buffered' \in [Objects -> BOOLEAN]
        /\ \A x \in Objects : buffered'[x] => buffered[x]
        /\ ~buffered'[o]
    BY <1>6, <1>7, <2>1 DEF Colors
  <2> QED BY <1>6, <1>7, <1>8, <2>1, <2>2, <2>4, <2>5, <2>6
<1> QED BY <1>9, <1>10, <1>11

-----------------------------------------------------------------------------
(* The end of collect_cycles. *)

\* The payloads that are cleared no longer refer to anything.
LEMMA ClearedEdges ==
    ASSUME NEW D \in SUBSET Objects, NEW o \in Objects
    PROVE  InEdges(o, Cleared(D)) = Into(Objects \ D, o, edge)
<1>1. o # NoObject
  BY CollectorAssumption
<1>2. \A p \in Objects, s \in Slots :
          Cleared(D)[p][s] = IF p \in D THEN NoObject ELSE edge[p][s]
  BY DEF Cleared, NoFields
<1> QED BY <1>1, <1>2 DEF InEdges, Into

\* The objects that lose their last reference when D is cleared.
LEMMA GoneIs ==
    ASSUME StateTypeOK, NEW D \in SUBSET Objects, NEW o \in Objects
    PROVE  o \in Gone(D) <=>
               /\ life[o] # "absent" /\ o # dying /\ held[o] = 0 /\ pending[o] = 0
               /\ \A p \in Objects, s \in Slots : edge[p][s] = o => p \in D
<1> DEFINE P == Objects \ D
           n == Cardinality(Into(P, o, edge))
<1>1. RefsIn(o, held, pending, Cleared(D)) = held[o] + pending[o] + n
  BY ClearedEdges DEF RefsIn
<1>2. held[o] \in Nat /\ pending[o] \in Nat
  BY RefsSum
<1>3. IsFiniteSet(Into(P, o, edge)) /\ n \in Nat
  BY IntoMonotone
<1>4. n = 0 <=> Into(P, o, edge) = {}
  BY <1>3, FS_EmptySet
<1>5. Into(P, o, edge) = {} <=> \A p \in Objects, s \in Slots : edge[p][s] = o => p \in D
  <2>1. ASSUME Into(P, o, edge) = {}, NEW p \in Objects, NEW s \in Slots, edge[p][s] = o,
               p \notin D
        PROVE  FALSE
    <3>1. <<p, s>> \in Into(P, o, edge)
      BY <2>1 DEF Into
    <3> QED BY <2>1, <3>1
  <2>2. ASSUME \A p \in Objects, s \in Slots : edge[p][s] = o => p \in D,
               NEW x \in Into(P, o, edge)
        PROVE  FALSE
    BY <2>2 DEF Into
  <2> QED BY <2>1, <2>2
<1> HIDE DEF n
<1>6. held[o] + pending[o] + n = 0 <=> held[o] = 0 /\ pending[o] = 0 /\ n = 0
  BY <1>2, <1>3
<1> QED BY <1>1, <1>4, <1>5, <1>6 DEF Gone

\* What is stripped with a set that only it refers to is referred to only by
\* itself as well.
LEMMA Stripped ==
    ASSUME StateTypeOK, NEW R \in SUBSET Objects,
           \A o \in R : held[o] = 0 /\ pending[o] = 0,
           \A o \in R : \A p \in Objects, s \in Slots : edge[p][s] = o => p \in R
    PROVE  /\ R \subseteq Unreferenced(R) /\ Unreferenced(R) \subseteq Objects
           /\ \A o \in Unreferenced(R) :
                 /\ held[o] = 0 /\ pending[o] = 0
                 /\ \A p \in Objects, s \in Slots : edge[p][s] = o => p \in Unreferenced(R)
<1> DEFINE T == Unreferenced(R)
           D == {o \in T : /\ held[o] = 0 /\ pending[o] = 0
                           /\ \A p \in Objects, s \in Slots : edge[p][s] = o => p \in T}
<1>1. R \subseteq T /\ T \subseteq Objects
  BY DEF Unreferenced
<1>2. \A E \in SUBSET Objects : R \subseteq E /\ Gone(E) \subseteq E => T \subseteq E
  BY DEF Unreferenced
<1>3. Gone(T) \subseteq Objects /\ Gone(D) \subseteq Objects
  BY DEF Gone
<1>4. Gone(T) \subseteq T
  <2> SUFFICES ASSUME NEW o \in Gone(T), NEW E \in SUBSET Objects, R \subseteq E,
                      Gone(E) \subseteq E
               PROVE  o \in E
    BY <1>3 DEF Unreferenced
  <2>1. T \subseteq E
    BY <1>2
  <2>2. o \in Gone(E)
    BY <1>1, <1>3, <2>1, GoneIs
  <2> QED BY <2>2
<1>5. R \subseteq D
  BY <1>1
<1>6. D \subseteq T /\ D \in SUBSET Objects
  BY <1>1
<1>7. Gone(D) \subseteq D
  <2> SUFFICES ASSUME NEW o \in Gone(D) PROVE o \in D
    OBVIOUS
  <2>1. /\ o \in Objects /\ life[o] # "absent" /\ o # dying /\ held[o] = 0 /\ pending[o] = 0
        /\ \A p \in Objects, s \in Slots : edge[p][s] = o => p \in D
    <3>1. o \in Objects
      BY <1>3
    <3> HIDE DEF D
    <3> QED BY <1>6, <3>1, GoneIs
  <2>2. \A p \in Objects, s \in Slots : edge[p][s] = o => p \in T
    BY <1>6, <2>1
  <2>3. o \in Gone(T)
    BY <1>1, <2>1, <2>2, GoneIs
  <2> QED BY <1>4, <2>1, <2>2, <2>3
<1>8. T \subseteq D
  BY <1>2, <1>5, <1>6, <1>7
<1> QED BY <1>1, <1>8

\* The white objects are all condemned when the last root is done, and nothing
\* outside of them refers to them.
LEMMA CondemnedWhite ==
    ASSUME IInv, phase = "white", stk = <<>>, idx > Len(roots)
    PROVE  /\ condemned = White /\ RootSet \subseteq seen
           /\ \A o \in White : held[o] = 0 /\ pending[o] = 0
           /\ \A o \in White : \A p \in Objects, s \in Slots : edge[p][s] = o => p \in White
<1>1. StateTypeOK /\ HeapInv /\ WhiteInv
  BY DEF IInv
<1>2. Todo = {}
  BY NoTask DEF Todo
<1>3. /\ condemned = seen \intersect White
      /\ \A i \in 1 .. Len(roots) : i < idx /\ roots[i] # NoObject => roots[i] \in seen
      /\ \A p \in condemned : \A c \in Kids(p) : c \in seen
      /\ seen \in SUBSET Objects
  BY <1>1, <1>2 DEF WhiteInv, WhiteFrontier, StateTypeOK
<1>4. RootSet \subseteq seen
  <2>1. \A i \in 1 .. Len(roots) : i < idx
    <3>1. idx \in Nat /\ Len(roots) \in Nat
      BY <1>1, LenProperties DEF StateTypeOK
    <3> QED BY <3>1
  <2> QED BY <1>3, <2>1, CollectorAssumption DEF RootSet
<1>5. Keeps(seen, White)
  BY <1>3 DEF Keeps
<1>6. White \subseteq seen
  BY <1>1, <1>3, <1>4, <1>5 DEF WhiteInv, WhiteGarbage
<1>7. White \in SUBSET Objects /\ SelfHeld(White)
  BY <1>1 DEF White, SelfHeld, WhiteInv, WhiteGarbage, Live
<1>8. \A o \in White : /\ held[o] = 0 /\ pending[o] = 0
                       /\ \A p \in Objects, s \in Slots : edge[p][s] = o => p \in White
  BY <1>1, <1>7, SelfHeldRefs
<1> QED BY <1>3, <1>4, <1>6, <1>8

\* The condemned objects are freed: what is left is counted no less than it is
\* referenced, and still hangs on an anchor.
LEMMA FreeCondemnedStep ==
    ASSUME IInv, FreeCondemned
    PROVE  IInv'
<1> DEFINE T == Unreferenced(condemned)
           kept(o) == o \in condemned /\ (o = dying \/ held[o] + pending[o] > 0)
<1>1. /\ phase = "white" /\ stk = <<>> /\ idx > Len(roots)
      /\ edge' = Cleared(T)
      /\ life' = [o \in Objects |-> IF o \notin T THEN life[o]
                                    ELSE IF kept(o) THEN "cleared" ELSE "absent"]
      /\ strong' = [o \in Objects |-> IF o \in T THEN 0 ELSE strong[o]]
      /\ shadow' = [o \in Objects |-> 0]
      /\ color' = [o \in Objects |-> IF o \in T THEN "black" ELSE color[o]]
      /\ buffered' = [o \in Objects |-> IF o \in T THEN FALSE ELSE buffered[o]]
      /\ roots' = <<>> /\ phase' = "idle" /\ idx' = 1 /\ seen' = {} /\ condemned' = {}
      /\ held' = held /\ pending' = pending /\ dying' = dying /\ stk' = stk
  BY DEF FreeCondemned
<1>2. StateTypeOK /\ HeapInv /\ Buffering /\ WhiteInv
  BY <1>1 DEF IInv
<1>3. condemned = White /\ RootSet \subseteq seen /\ White \in SUBSET Objects
  BY <1>1, CondemnedWhite DEF White
<1>4. /\ White \subseteq T /\ T \in SUBSET Objects
      /\ \A o \in T : held[o] = 0 /\ pending[o] = 0
      /\ \A o \in T : \A p \in Objects, s \in Slots : edge[p][s] = o => p \in T
  BY <1>1, <1>2, <1>3, CondemnedWhite, Stripped
<1>5. \A o \in Objects :
          /\ edge'[o] = IF o \in T THEN NoFields ELSE edge[o]
          /\ o \in T => life'[o] = "absent" \/ (life'[o] = "cleared" /\ o = dying)
          /\ o \notin T => life'[o] = life[o]
          /\ strong'[o] = IF o \in T THEN 0 ELSE strong[o]
          /\ color'[o] = IF o \in T THEN "black" ELSE color[o]
          /\ buffered'[o] = IF o \in T THEN FALSE ELSE buffered[o]
  <2>1. \A o \in T : ~(held[o] + pending[o] > 0)
    BY <1>4
  <2> HIDE DEF T
  <2> QED BY <1>1, <2>1 DEF Cleared
<1> HIDE DEF T, kept
<1>6. StateTypeOK'
  <2>1. /\ life \in [Objects -> {"absent", "live", "cleared"}]
        /\ edge \in [Objects -> [Slots -> Objects \union {NoObject}]]
        /\ strong \in [Objects -> Nat] /\ color \in [Objects -> Colors]
        /\ buffered \in [Objects -> BOOLEAN]
        /\ held \in [Objects -> Nat] /\ pending \in [Objects -> Nat]
        /\ dying \in Objects \union {NoObject} /\ stk \in Seq(Tasks)
    BY <1>2 DEF StateTypeOK
  <2>2. NoFields \in [Slots -> Objects \union {NoObject}]
    BY DEF NoFields
  <2>3. edge' \in [Objects -> [Slots -> Objects \union {NoObject}]]
    BY <1>1, <2>1, <2>2 DEF Cleared
  <2>4. life' \in [Objects -> {"absent", "live", "cleared"}]
    BY <1>1, <2>1
  <2>5. strong' \in [Objects -> Nat] /\ shadow' \in [Objects -> Nat]
    BY <1>1, <2>1
  <2>6. color' \in [Objects -> Colors] /\ buffered' \in [Objects -> BOOLEAN]
    BY <1>1, <2>1 DEF Colors
  <2>7. roots' \in Seq(Objects \union {NoObject}) /\ idx' \in Nat \ {0}
    BY <1>1
  <2> QED BY <1>1, <2>1, <2>3, <2>4, <2>5, <2>6, <2>7 DEF StateTypeOK, Phases
<1>7. ASSUME NEW o \in Objects
      PROVE  /\ InEdges(o, edge') = Into(Objects \ T, o, edge)
             /\ Refs(o)' \in Nat /\ Refs(o)' <= Refs(o)
             /\ o \in T => Refs(o)' = 0
             /\ Refs(o)' = held[o] + pending[o] + Cardinality(InEdges(o, edge'))
  <2> DEFINE a == Cardinality(Into(Objects, o, edge))
             b == Cardinality(Into(Objects \ T, o, edge))
  <2>1. InEdges(o, edge') = Into(Objects \ T, o, edge)
    BY <1>1, <1>4, ClearedEdges
  <2>2. a \in Nat /\ b \in Nat /\ b <= a
    BY IntoMonotone
  <2>3. held[o] \in Nat /\ pending[o] \in Nat /\ Refs(o) = held[o] + pending[o] + a
    BY <1>2, RefsSum
  <2>4. Refs(o)' = held[o] + pending[o] + b
    BY <1>1, <2>1 DEF Refs, RefsIn
  <2>5. o \in T => b = 0
    <3> SUFFICES ASSUME o \in T PROVE b = 0
      OBVIOUS
    <3>1. Into(Objects \ T, o, edge) = {}
      BY <1>4 DEF Into
    <3> QED BY <3>1, FS_EmptySet
  <2> HIDE DEF a, b
  <2>6. Refs(o)' \in Nat /\ Refs(o)' <= Refs(o)
    BY <2>2, <2>3, <2>4
  <2>7. o \in T => Refs(o)' = 0
    BY <1>4, <2>4, <2>5
  <2> QED BY <2>1, <2>4, <2>6, <2>7 DEF b
<1>8. HeapInv'
  <2> SUFFICES ASSUME NEW o \in Objects
               PROVE  /\ life'[o] = "live" => strong'[o] >= Refs(o)' /\ strong'[o] > 0
                      /\ life'[o] # "live" => /\ strong'[o] = 0 /\ Refs(o)' = 0
                                              /\ edge'[o] = NoFields
                      /\ life'[o] = "cleared" => o = dying'
    BY <1>2, <1>6, HeapKept
  <2>1. CASE o \in T
    BY <1>1, <1>5, <1>7, <2>1
  <2>2. CASE o \notin T
    <3>1. /\ life[o] = "live" => strong[o] >= Refs(o) /\ strong[o] > 0
          /\ life[o] # "live" => strong[o] = 0 /\ Refs(o) = 0 /\ edge[o] = NoFields
          /\ life[o] = "cleared" => o = dying
      BY <1>2 DEF HeapInv
    <3>2. strong[o] \in Nat /\ Refs(o) \in Nat /\ Refs(o)' \in Nat /\ Refs(o)' <= Refs(o)
      BY <1>2, <1>7, RefsSum
    <3>3. life'[o] = life[o] /\ strong'[o] = strong[o] /\ edge'[o] = edge[o]
      BY <1>5, <2>2
    <3> QED BY <1>1, <3>1, <3>2, <3>3
  <2> QED BY <2>1, <2>2
<1>9. Live' \subseteq Live \ T /\ Live' \subseteq Objects
  BY <1>5 DEF Live
<1>10. RootSet' = {}
  <2>1. Len(roots') = 0
    BY <1>1
  <2>2. 1 .. Len(roots') = {}
    BY <2>1
  <2> QED BY <2>2 DEF RootSet
<1>11. Buffering'
  <2>1. ASSUME NEW o \in Live' PROVE ~buffered'[o]
    <3>1. o \in Objects /\ o \in Live /\ o \notin White /\ buffered'[o] = buffered[o]
      BY <1>4, <1>5, <1>9
    <3>2. buffered[o] => o \in seen
      BY <1>2, <1>3, <3>1 DEF Buffering
    <3>3. o \in seen => ~buffered[o]
      BY <1>2, <3>1 DEF WhiteInv, WhiteFrontier
    <3> QED BY <3>1, <3>2, <3>3
  <2> QED BY <1>10, <2>1 DEF Buffering
<1>12. Anchored'
  <2> SUFFICES ASSUME NEW S \in SUBSET Objects, Anchors' \subseteq S, Closed(S, edge')
               PROVE  Live' \subseteq S
    BY DEF Anchored
  <2> DEFINE U == Live' \ S
  <2>1. U \in SUBSET Objects /\ U \subseteq Live \ T
    BY <1>9
  <2>2. ASSUME NEW o \in U
        PROVE  life[o] = "live" /\ strong[o] = Cardinality(Into(U, o, edge))
    <3>1. o \in Objects /\ o \notin T /\ o \notin S /\ life[o] = "live" /\ life'[o] = "live"
      BY <2>1 DEF Live
    <3>2. held[o] = 0 /\ pending[o] = 0 /\ ~(strong'[o] > Refs(o)')
      <4>1. o \notin Anchors'
        BY <3>1
      <4>2. /\ ~(held'[o] > 0) /\ ~(pending'[o] > 0) /\ ~(strong'[o] > Refs(o)')
        BY <3>1, <4>1 DEF Anchors, Inflated
      <4>3. held[o] \in Nat /\ pending[o] \in Nat
        BY <1>2, <3>1, RefsSum
      <4> QED BY <1>1, <4>2, <4>3
    <3>3. InEdges(o, edge') = Into(U, o, edge)
      <4>1. Into(U, o, edge) \subseteq Into(Objects \ T, o, edge)
        BY <2>1 DEF Into
      <4>2. ASSUME NEW p \in Objects \ T, NEW s \in Slots, edge[p][s] = o
            PROVE  p \in U
        <5>1. edge'[p] = edge[p] /\ edge'[p][s] = o /\ o # NoObject
          BY <1>5, <3>1, <4>2, CollectorAssumption
        <5>2. p \notin S
          BY <3>1, <5>1 DEF Closed
        <5>3. life'[p] = "live"
          <6> SUFFICES ASSUME life'[p] # "live" PROVE FALSE
            OBVIOUS
          <6>1. edge'[p] = NoFields
            BY <1>8 DEF HeapInv
          <6> QED BY <5>1, <6>1 DEF NoFields
        <5> QED BY <5>2, <5>3 DEF Live
      <4>3. Into(Objects \ T, o, edge) \subseteq Into(U, o, edge)
        <5> SUFFICES ASSUME NEW x \in Into(Objects \ T, o, edge)
                     PROVE  x \in Into(U, o, edge)
          OBVIOUS
        <5>1. x \in (Objects \ T) \X Slots /\ edge[x[1]][x[2]] = o
          BY DEF Into
        <5>2. x[1] \in Objects \ T /\ x[2] \in Slots /\ x = <<x[1], x[2]>>
          BY <5>1
        <5>3. x[1] \in U
          BY <4>2, <5>1, <5>2
        <5>4. x \in U \X Slots
          BY <5>2, <5>3
        <5> QED BY <5>1, <5>4 DEF Into
      <4> QED BY <1>7, <3>1, <4>1, <4>3
    <3>4. Refs(o)' = Cardinality(Into(U, o, edge)) /\ Refs(o)' \in Nat
      <4>1. Refs(o)' = held[o] + pending[o] + Cardinality(InEdges(o, edge')) /\ Refs(o)' \in Nat
        BY <1>7, <3>1
      <4>2. Cardinality(Into(U, o, edge)) \in Nat
        BY <2>1, IntoMonotone
      <4> QED BY <3>2, <3>3, <4>1, <4>2
    <3>5. strong'[o] >= Refs(o)' /\ strong'[o] = strong[o] /\ strong[o] \in Nat
      BY <1>2, <1>5, <1>8, <3>1, RefsSum DEF HeapInv
    <3> QED BY <3>1, <3>2, <3>4, <3>5
  <2>3. SelfHeld(U)
    BY <2>2 DEF SelfHeld
  <2>4. U \subseteq White
    BY <1>2, <2>1, <2>3 DEF WhiteInv, WhiteGarbage
  <2>5. U = {}
    BY <1>4, <2>1, <2>4
  <2> QED BY <2>5
<1>13. IdleInv'
  <2>1. Marked' = {}
    <3>1. Gray = {}
      BY <1>2 DEF WhiteInv
    <3>2. \A o \in Objects : color'[o] # "gray" /\ color'[o] # "white"
      BY <1>4, <1>5, <3>1 DEF Gray, White
    <3> QED BY <3>2 DEF Marked, Gray, White
  <2> QED BY <1>1, <2>1 DEF IdleInv
<1> QED BY <1>1, <1>6, <1>8, <1>11, <1>12, <1>13 DEF IInv

-----------------------------------------------------------------------------
(* The invariant, and what follows from it. *)

LEMMA InitInv ==
    ASSUME Init
    PROVE  IInv
<1>1. /\ life = [o \in Objects |-> "absent"] /\ held = [o \in Objects |-> 0]
      /\ pending = [o \in Objects |-> 0] /\ dying = NoObject
      /\ edge = [o \in Objects |-> NoFields] /\ strong = [o \in Objects |-> 0]
      /\ shadow = [o \in Objects |-> 0] /\ color = [o \in Objects |-> "black"]
      /\ buffered = [o \in Objects |-> FALSE] /\ roots = <<>> /\ phase = "idle"
      /\ idx = 1 /\ stk = <<>> /\ seen = {} /\ condemned = {}
  BY DEF Init
<1>2. StateTypeOK
  <2>1. NoFields \in [Slots -> Objects \union {NoObject}]
    BY DEF NoFields
  <2> QED BY <1>1, <2>1 DEF StateTypeOK, Colors, Phases
<1>3. HeapInv
  <2> SUFFICES ASSUME NEW o \in Objects PROVE Refs(o) = 0
    BY <1>1 DEF HeapInv
  <2>1. InEdges(o, edge) = {}
    BY <1>1, CollectorAssumption DEF InEdges, NoFields
  <2>2. Cardinality(InEdges(o, edge)) = 0
    BY <2>1, FS_EmptySet
  <2> QED BY <1>1, <2>2 DEF Refs, RefsIn
<1>4. Live = {} /\ RootSet = {} /\ Marked = {}
  <2>1. 1 .. Len(roots) = {}
    BY <1>1
  <2> QED BY <1>1, <2>1 DEF Live, RootSet, Marked, Gray, White
<1>5. Buffering /\ Anchored /\ IdleInv
  BY <1>1, <1>4 DEF Buffering, Anchored, IdleInv
<1> QED BY <1>1, <1>2, <1>3, <1>5 DEF IInv

\* Nothing happens to the heap or to the collector.
LEMMA StutterInv ==
    ASSUME IInv, UNCHANGED vars
    PROVE  IInv'
<1>1. /\ life' = life /\ held' = held /\ pending' = pending /\ dying' = dying
      /\ edge' = edge /\ strong' = strong /\ shadow' = shadow /\ color' = color
      /\ buffered' = buffered /\ roots' = roots /\ phase' = phase /\ idx' = idx
      /\ stk' = stk /\ seen' = seen /\ condemned' = condemned
  BY DEF vars, heapVars, metaVars, gcVars
<1>2. StateTypeOK' /\ UNCHANGED <<heapVars, dying, roots>>
  BY <1>1 DEF IInv, StateTypeOK, heapVars
<1>3. /\ HeapInv' /\ Anchored' /\ RootSet' = RootSet /\ Live' = Live
      /\ \A o : Kids(o)' = Kids(o)
  BY <1>2, HeapSame DEF IInv
<1>4. /\ Gray' = Gray /\ White' = White /\ Marked' = Marked /\ RootsLeft' = RootsLeft
      /\ Todo' = Todo /\ Blacks' = Blacks
  BY <1>1 DEF Gray, White, Marked, RootsLeft, Todo, Blacks
<1>5. Buffering'
  BY <1>1, <1>3 DEF IInv, Buffering
<1>6. phase' = "idle" => IdleInv'
  BY <1>1, <1>4 DEF IInv, IdleInv
<1>7. phase' = "mark" => MarkInv'
  <2> SUFFICES ASSUME phase = "mark" PROVE MarkInv'
    BY <1>1
  <2>1. MarkInv
    BY DEF IInv
  <2>2. MarkCounts' /\ DecsFollowVisits'
    BY <1>1, <1>4, <2>1 DEF MarkInv, MarkCounts, DecsFollowVisits
  <2>3. MarkFrontier' /\ MarkReach'
    BY <1>1, <1>3, <1>4, <2>1 DEF MarkInv, MarkFrontier, MarkReach, Keeps
  <2> QED BY <1>1, <1>3, <1>4, <2>1, <2>2, <2>3 DEF MarkInv
<1>8. phase' = "scan" => ScanInv'
  <2> SUFFICES ASSUME phase = "scan" PROVE ScanInv'
    BY <1>1
  <2>1. ScanInv
    BY DEF IInv
  <2>2. ScanCounts' /\ ScanLeft' /\ ScanReach' /\ ScanComplete'
    BY <1>1, <1>3, <1>4, <2>1
       DEF ScanInv, ScanCounts, ScanLeft, ScanReach, ScanComplete, Keeps, SelfHeld
  <2> QED BY <1>1, <1>3, <1>4, <2>1, <2>2 DEF ScanInv
<1>9. phase' = "white" => WhiteInv'
  <2> SUFFICES ASSUME phase = "white" PROVE WhiteInv'
    BY <1>1
  <2>1. WhiteInv
    BY DEF IInv
  <2>2. WhiteGarbage' /\ WhiteFrontier'
    BY <1>1, <1>3, <1>4, <2>1
       DEF WhiteInv, WhiteGarbage, WhiteFrontier, Keeps, SelfHeld
  <2> QED BY <1>1, <1>3, <1>4, <2>1, <2>2 DEF WhiteInv
<1> QED BY <1>2, <1>3, <1>5, <1>6, <1>7, <1>8, <1>9 DEF IInv

\* The operations of the program.
LEMMA ProgramInv ==
    ASSUME IInv, Program
    PROVE  IInv'
<1>0. StateTypeOK /\ HeapInv
  BY DEF IInv
<1>1. ASSUME NEW o \in Objects, New(o) PROVE IInv'
  BY <1>1, NewStep
<1>2. ASSUME NEW o \in Objects, CloneValue(o) PROVE IInv'
  <2>1. life[o] = "live"
    BY <1>0, <1>2, ReferredLive DEF CloneValue
  <2> QED BY <1>2, <2>1, RetainStep DEF CloneValue
<1>3. ASSUME NEW o \in Objects, UpgradeWeak(o) PROVE IInv'
  <2>1. life[o] = "live"
    BY <1>0, <1>3 DEF UpgradeWeak, HeapInv
  <2> QED BY <1>3, <2>1, RetainStep DEF UpgradeWeak
<1>4. ASSUME NEW o \in Objects, DropValue(o) PROVE IInv'
  BY <1>4, DropStep
<1>5. ASSUME NEW o \in Objects, NEW s \in Slots, GetField(o, s) PROVE IInv'
  <2> DEFINE c == edge[o][s]
  <2>1. c \in Objects
    BY <1>0, <1>5 DEF GetField, StateTypeOK
  <2>2. life[c] = "live"
    BY <1>0, <2>1, ReferredLive
  <2>3. Quiet /\ Retain(c)
    BY <1>5 DEF GetField
  <2> HIDE DEF c
  <2> QED BY <2>1, <2>2, <2>3, RetainStep
<1>6. ASSUME NEW o \in Objects, NEW p \in Objects, NEW s \in Slots, SetField(o, s, p)
      PROVE  IInv'
  BY <1>6, SetFieldStep
<1>7. ASSUME CollectCycles PROVE IInv'
  BY <1>7, CollectCyclesStep
<1> QED BY <1>1, <1>2, <1>3, <1>4, <1>5, <1>6, <1>7 DEF Program

\* The steps of a release and of a collection.
LEMMA RuntimeInv ==
    ASSUME IInv, Runtime
    PROVE  IInv'
<1>0. idx <= Len(roots) \/ idx > Len(roots)
  <2>1. idx \in Nat /\ Len(roots) \in Nat
    BY LenProperties DEF IInv, StateTypeOK
  <2> QED BY <2>1
<1>1. ASSUME NEW o \in Objects, ReleaseLast(o) PROVE IInv'
  BY <1>1, ReleaseLastStep
<1>2. ASSUME NEW o \in Objects, ReleaseShared(o) PROVE IInv'
  BY <1>2, ReleaseSharedStep
<1>3. CASE FinishRelease
  BY <1>3, FinishReleaseStep
<1>4. CASE MarkRoot
  BY <1>0, <1>4, MarkRootNext, MarkRootDone
<1>5. CASE ScanRoot
  BY <1>0, <1>5, ScanRootNext, ScanRootDone
<1>6. CASE WhiteRoot
  BY <1>6, WhiteRootStep
<1>7. CASE Visit
  BY <1>7, VisitStep
<1>8. CASE DecShadow
  BY <1>8, DecShadowStep
<1>9. CASE Scan
  BY <1>9, ScanStep
<1>10. CASE ScanBlack
  BY <1>10, ScanBlackStep
<1>11. CASE CollectWhite
  BY <1>11, CollectWhiteStep
<1>12. CASE FreeCondemned
  BY <1>12, FreeCondemnedStep
<1> QED BY <1>1, <1>2, <1>3, <1>4, <1>5, <1>6, <1>7, <1>8, <1>9, <1>10, <1>11, <1>12
        DEF Runtime

\* The inductive invariant of the heap and of each phase of collect_cycles
\* (cycle_collector.rs) holds in every reachable state.
THEOREM CollectorInvariant == Spec => []IInv
<1>1. Init => IInv
  BY InitInv
<1>2. IInv /\ [Next]_vars => IInv'
  BY StutterInv, ProgramInv, RuntimeInv DEF Next
<1> QED BY <1>1, <1>2, PTL DEF Spec

\* The fields that set_field has locked are those of an object, in every step.
LEMMA LockedTyped ==
    ASSUME locked \in Objects \union {NoObject}, [Next]_vars
    PROVE  locked' \in Objects \union {NoObject}
<1>1. CASE UNCHANGED vars
  BY <1>1 DEF vars
<1>2. ASSUME NEW o \in Objects, NEW p \in Objects, NEW s \in Slots, SetField(o, s, p)
      PROVE  locked' \in Objects \union {NoObject}
  BY <1>2 DEF SetField
<1>3. CASE FinishRelease
  BY <1>3 DEF FinishRelease
<1>4. CASE MarkRoot \/ ScanRoot \/ WhiteRoot
  BY <1>4 DEF NextRoot, MarkRoot, ScanRoot, WhiteRoot
<1>5. CASE Visit \/ DecShadow \/ Scan \/ ScanBlack \/ CollectWhite
  BY <1>5 DEF Visit, DecShadow, Scan, ScanBlack, CollectWhite, gcRest
<1>6. CASE FreeCondemned
  BY <1>6 DEF FreeCondemned
<1>7. ASSUME NEW o \in Objects, ReleaseLast(o) \/ ReleaseShared(o)
      PROVE  locked' = locked
  BY <1>7 DEF ReleaseLast, ReleaseShared
<1>8. ASSUME NEW o \in Objects, New(o) \/ CloneValue(o) \/ UpgradeWeak(o) \/ DropValue(o)
      PROVE  locked' = locked
  BY <1>8 DEF New, CloneValue, UpgradeWeak, DropValue, Retain
<1>9. ASSUME NEW o \in Objects, NEW s \in Slots, GetField(o, s)
      PROVE  locked' = locked
  BY <1>9 DEF GetField, Retain
<1>10. CASE CollectCycles
  BY <1>10 DEF CollectCycles
<1> QED BY <1>1, <1>2, <1>3, <1>4, <1>5, <1>6, <1>7, <1>8, <1>9, <1>10
        DEF Next, Program, Runtime

\* Counters, colours, root buffer, task stack and the locked object are well
\* typed: neither a release nor the marking of a collection takes a counter
\* below zero.
THEOREM CollectorTypeCorrect == Spec => []TypeOK
<1>1. IInv => StateTypeOK
  BY DEF IInv
<1>2. Init => locked \in Objects \union {NoObject}
  BY DEF Init
<1>3. locked \in Objects \union {NoObject} /\ [Next]_vars
          => (locked \in Objects \union {NoObject})'
  BY LockedTyped
<1>4. StateTypeOK /\ locked \in Objects \union {NoObject} => TypeOK
  BY DEF TypeOK
<1> QED BY <1>1, <1>2, <1>3, <1>4, CollectorInvariant, PTL DEF Spec

\* The counter of a live object never falls below the references that exist,
\* however clones, drops, field writes and collections alternate.
THEOREM CountsCorrect == Spec => []CountsCover
<1>1. IInv => CountsCover
  BY DEF IInv, HeapInv, CountsCover
<1> QED BY <1>1, CollectorInvariant, PTL

\* What the program can reach is closed under the fields of its objects.
LEMMA ReachableClosed ==
    ASSUME StateTypeOK
    PROVE  /\ Reachable \in SUBSET Objects /\ LiveRoots \subseteq Reachable
           /\ Closed(Reachable, edge)
<1>1. /\ Reachable \subseteq Objects
      /\ \A x \in Objects :
             x \in Reachable <=> \A D \in SUBSET Objects :
                                    LiveRoots \subseteq D /\ Closed(D, edge) => x \in D
  BY DEF Reachable, ReachableIn
<1>2. LiveRoots \subseteq Reachable
  BY <1>1 DEF LiveRoots
<1>3. ASSUME NEW p \in Reachable, NEW s \in Slots, edge[p][s] # NoObject
      PROVE  edge[p][s] \in Reachable
  <2>1. p \in Objects /\ edge[p][s] \in Objects
    BY <1>1, <1>3 DEF StateTypeOK
  <2>2. ASSUME NEW D \in SUBSET Objects, LiveRoots \subseteq D, Closed(D, edge)
        PROVE  edge[p][s] \in D
    <3>1. p \in D
      BY <1>1, <2>1, <2>2
    <3> QED BY <1>3, <2>2, <3>1 DEF Closed
  <2> QED BY <1>1, <2>1, <2>2
<1> QED BY <1>1, <1>2, <1>3 DEF Closed

\* No release and no collection frees an object that the program can still
\* reach through its variables.
THEOREM CollectionSafe == Spec => []NoLiveCollected
<1>1. IInv => NoLiveCollected
  <2> SUFFICES ASSUME IInv, NEW o \in Reachable PROVE life[o] = "live"
    BY DEF NoLiveCollected
  <2>1. StateTypeOK /\ HeapInv
    BY DEF IInv
  <2>2. Live \in SUBSET Objects /\ LiveRoots \subseteq Live
    BY <2>1, ReferredLive DEF Live, LiveRoots
  <2>3. Closed(Live, edge)
    <3> SUFFICES ASSUME NEW p \in Live, NEW s \in Slots, edge[p][s] # NoObject
                 PROVE  edge[p][s] \in Live
      BY DEF Closed
    <3>1. edge[p][s] \in Kids(p)
      BY DEF Kids
    <3> QED BY <2>1, <2>2, <3>1, KidsLive
  <2>4. o \in Live
    BY <2>2, <2>3 DEF Reachable, ReachableIn
  <2> QED BY <2>4 DEF Live
<1> QED BY <1>1, CollectorInvariant, PTL

\* Garbage is never lost: whenever the program runs, an object it cannot reach
\* hangs on the root buffer or on an object with an inflated count.
THEOREM GarbageKept == Spec => []NoLostGarbage
<1>1. IInv => NoLostGarbage
  <2> DEFINE A == (Range(roots) \ {NoObject}) \union Inflated
  <2> SUFFICES ASSUME IInv, Quiet, NEW g \in Garbage,
                      NEW D \in SUBSET Objects, A \subseteq D, Closed(D, edge)
               PROVE  g \in D
    BY DEF NoLostGarbage, Garbage, ReachableIn
  <2>1. StateTypeOK /\ Anchored
    BY DEF IInv
  <2> DEFINE S == D \union Reachable
  <2>2. S \in SUBSET Objects /\ LiveRoots \subseteq S
    BY <2>1, ReachableClosed
  <2>3. Closed(S, edge)
    BY <2>1, ReachableClosed DEF Closed
  <2>4. RootSet \subseteq Range(roots) \ {NoObject}
    <3>1. DOMAIN roots = 1 .. Len(roots)
      BY <2>1 DEF StateTypeOK
    <3> QED BY <3>1, CollectorAssumption DEF RootSet, Range
  <2>5. Anchors \subseteq S
    BY <2>2, <2>4 DEF Anchors, LiveRoots, Quiet
  <2>6. g \in Live /\ g \notin Reachable
    BY DEF Garbage, Live
  <2>7. Live \subseteq S
    BY <2>1, <2>2, <2>3, <2>5 DEF Anchored
  <2> QED BY <2>6, <2>7
<1> QED BY <1>1, CollectorInvariant, PTL

\* A collection is complete, but for inflated counts: what is live after it can
\* be reached from a variable, from a value that is being dropped, or from an
\* object whose counter is too high.
CollectionComplete ==
    [][FreeCondemned =>
          {o \in Objects : life'[o] = "live"} \subseteq
              ReachableIn({o \in Objects : held'[o] + pending'[o] > 0} \union Inflated',
                          edge')]_vars

\* A collection misses no garbage but what hangs on an inflated count, also when
\* it is triggered inside a drop.
THEOREM CollectionIsComplete == Spec => CollectionComplete
<1> DEFINE A == {o \in Objects : held'[o] + pending'[o] > 0} \union Inflated'
           B == {o \in Objects : life'[o] = "live"}
<1>1. ASSUME IInv, FreeCondemned PROVE B \subseteq ReachableIn(A, edge')
  <2>1. IInv'
    BY <1>1, FreeCondemnedStep
  <2>2. StateTypeOK' /\ Anchored'
    BY <2>1 DEF IInv
  <2>3. RootSet' = {}
    <3>1. roots' = <<>>
      BY <1>1 DEF FreeCondemned
    <3>2. 1 .. Len(roots') = {}
      BY <3>1
    <3> QED BY <3>2 DEF RootSet
  <2>4. Anchors' \subseteq A
    <3>1. \A o \in Objects : held'[o] \in Nat /\ pending'[o] \in Nat
      BY <2>2 DEF StateTypeOK
    <3>2. \A o \in Objects : held'[o] > 0 \/ pending'[o] > 0 => held'[o] + pending'[o] > 0
      BY <3>1
    <3> QED BY <2>3, <3>2 DEF Anchors
  <2> SUFFICES ASSUME NEW S \in SUBSET Objects, A \subseteq S, Closed(S, edge')
               PROVE  B \subseteq S
    BY DEF ReachableIn
  <2>5. Live' \subseteq S
    BY <2>2, <2>4 DEF Anchored
  <2> QED BY <2>5 DEF Live
<1> HIDE DEF A, B
<1>2. IInv /\ [Next]_vars => [FreeCondemned => B \subseteq ReachableIn(A, edge')]_vars
  BY <1>1
<1> QED BY <1>2, CollectorInvariant, PTL DEF Spec, CollectionComplete, A, B
=============================================================================
