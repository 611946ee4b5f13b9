--------------------------- MODULE CycleCollector ---------------------------
(***************************************************************************)
(* Reference counting and trial deletion of the interpreter's heap          *)
(* (corvid-vm, value.rs and cycle_collector.rs).  An object lives in an     *)
(* Arc; beside the Arc's own count it keeps the counter "strong", which     *)
(* clones and drops of values maintain and the collector works on.  The two *)
(* can differ: the payload goes when strong reaches zero, the object itself *)
(* when no reference is left.                                               *)
(*                                                                         *)
(* One thread of the program.  A drop, the drops it causes, and a           *)
(* collection run step by step, and the program waits for them.  The        *)
(* values a freed payload held are in "pending" until each is dropped, in   *)
(* any order: the fields of a struct are a HashMap.                         *)
(***************************************************************************)
EXTENDS Integers, Sequences, FiniteSets, FiniteSetsExt, SequencesExt

CONSTANTS
    Objects,    \* object identities; reused after the object is gone
    SlotsOf,    \* the reference fields of each object
    Trigger,    \* CORVID_VM_GC_TRIGGER; 0 turns the trigger off
    MaxStrong,  \* bound: the strong count up to which values are cloned
    NoObject    \* an empty field, a dead weak reference

Slots == UNION {SlotsOf[o] : o \in Objects}
Colors == {"black", "gray", "white", "purple"}
Phases == {"idle", "mark", "scan", "white"}
Tasks == [task: {"visit", "dec", "scan", "black", "white"}, obj: Objects]

ASSUME CollectorAssumption ==
    /\ IsFiniteSet(Objects)
    /\ NoObject \notin Objects
    /\ IsFiniteSet(Slots)
    /\ Trigger \in Nat
    /\ MaxStrong \in Nat

VARIABLES
    life,      \* "absent", "live", or "cleared": no payload, references left
    held,      \* values in the program's variables
    pending,   \* values of freed payloads that are still to be dropped
    dying,     \* the object whose release is not finished
    locked,    \* the object whose fields set_field has locked
    edge,      \* the payload: the object in each field
    strong, shadow, color, buffered,    \* HeapMeta
    roots,     \* CollectorState.roots, weak references
    phase,     \* where collect_cycles is
    idx,       \* the root its current loop is at
    stk,       \* the task stack, the top at the end
    seen,      \* collect_white's seen set
    condemned  \* the objects it will free

heapVars == <<life, held, pending, edge, strong>>
metaVars == <<shadow, color, buffered>>
gcVars == <<phase, idx, stk, seen, condemned>>
vars == <<heapVars, dying, locked, metaVars, roots, gcVars>>

StateTypeOK ==
    /\ life \in [Objects -> {"absent", "live", "cleared"}]
    /\ held \in [Objects -> Nat]
    /\ pending \in [Objects -> Nat]
    /\ dying \in Objects \union {NoObject}
    /\ edge \in [Objects -> [Slots -> Objects \union {NoObject}]]
    /\ strong \in [Objects -> Nat]
    /\ shadow \in [Objects -> Nat]
    /\ color \in [Objects -> Colors]
    /\ buffered \in [Objects -> BOOLEAN]
    /\ roots \in Seq(Objects \union {NoObject})
    /\ phase \in Phases
    /\ idx \in Nat \ {0}
    /\ stk \in Seq(Tasks)
    /\ seen \subseteq Objects
    /\ condemned \subseteq Objects

\* Counts, colours, the root buffer and the collector's stack are well typed;
\* in particular no counter, strong or shadow, falls below zero.
TypeOK == StateTypeOK /\ locked \in Objects \union {NoObject}

NoFields == [s \in Slots |-> NoObject]

Init ==
    /\ life = [o \in Objects |-> "absent"]
    /\ held = [o \in Objects |-> 0]
    /\ pending = [o \in Objects |-> 0]
    /\ dying = NoObject
    /\ locked = NoObject
    /\ edge = [o \in Objects |-> NoFields]
    /\ strong = [o \in Objects |-> 0]
    /\ shadow = [o \in Objects |-> 0]
    /\ color = [o \in Objects |-> "black"]
    /\ buffered = [o \in Objects |-> FALSE]
    /\ roots = <<>>
    /\ phase = "idle"
    /\ idx = 1
    /\ stk = <<>>
    /\ seen = {}
    /\ condemned = {}

-----------------------------------------------------------------------------
(* The heap as a graph. *)

\* ObjectRef::children: the fields that hold an object, one after the other.
\* Any order: the fields of a struct are a HashMap.  It takes the lock on the
\* fields, so the thread waits for itself at the object that set_field locked.
FieldOrders(o) == SetToSeqs({s \in Slots : edge[o][s] # NoObject})

FieldsTo(o, p) == {s \in Slots : edge[o][s] = p}
InEdges(o, e) == {x \in Objects \X Slots : e[x[1]][x[2]] = o}

\* The references that exist: variables, payloads, values being dropped.
RefsIn(o, h, q, e) == h[o] + q[o] + Cardinality(InEdges(o, e))
Refs(o) == RefsIn(o, held, pending, edge)

\* What can be reached along payloads from the objects of S: the least set
\* that contains them and the objects its members hold.
Closed(D, e) == \A p \in D, s \in Slots : e[p][s] # NoObject => e[p][s] \in D
ReachableIn(S, e) ==
    {o \in Objects : \A D \in SUBSET Objects :
                         S \subseteq D /\ Closed(D, e) => o \in D}

\* What the program can still use: the objects in its variables, and what
\* their payloads lead to.
LiveRoots == {o \in Objects : held[o] > 0}
Reachable == ReachableIn(LiveRoots, edge)

-----------------------------------------------------------------------------
(* The program. *)

Quiet == phase = "idle" /\ dying = NoObject /\ \A o \in Objects : pending[o] = 0

\* StructValue::new and the like.
New(o) ==
    /\ Quiet
    /\ life[o] = "absent"
    /\ life' = [life EXCEPT ![o] = "live"]
    /\ held' = [held EXCEPT ![o] = 1]
    /\ strong' = [strong EXCEPT ![o] = 1]
    /\ shadow' = [shadow EXCEPT ![o] = 0]
    /\ color' = [color EXCEPT ![o] = "black"]
    /\ buffered' = [buffered EXCEPT ![o] = FALSE]
    /\ UNCHANGED <<pending, dying, locked, edge, roots, gcVars>>

\* Mutation of Retain: the clone is not counted.
RetainMutant(o) ==
    /\ strong[o] < MaxStrong
    /\ held[o] < MaxStrong
    /\ held' = [held EXCEPT ![o] = @ + 1]
    /\ UNCHANGED <<life, pending, strong, dying, locked, edge, metaVars, roots, gcVars>>

Retain(o) ==
    /\ strong[o] < MaxStrong
    /\ held' = [held EXCEPT ![o] = @ + 1]
    /\ strong' = [strong EXCEPT ![o] = @ + 1]
    /\ UNCHANGED <<life, pending, dying, locked, edge, metaVars, roots, gcVars>>

CloneValue(o) == Quiet /\ held[o] > 0 /\ Retain(o)

\* get_field
GetField(o, s) ==
    /\ Quiet
    /\ held[o] > 0
    /\ edge[o][s] # NoObject
    /\ Retain(edge[o][s])

\* WeakValue::upgrade: any object whose Arc is still there.
UpgradeWeak(o) == Quiet /\ life[o] # "absent" /\ strong[o] # 0 /\ Retain(o)

\* set_field: a value is moved into the field, and the old one is dropped
\* while the lock on the fields is still held.
SetField(o, s, p) ==
    LET old == edge[o][s]
    IN  /\ Quiet
        /\ held[o] > 0 /\ held[p] > 0
        /\ o = p => held[o] > 1
        /\ life[o] = "live"
        /\ s \in SlotsOf[o]
        /\ held' = [held EXCEPT ![p] = @ - 1]
        /\ edge' = [edge EXCEPT ![o][s] = p]
        /\ pending' = IF old = NoObject THEN pending
                      ELSE [pending EXCEPT ![old] = @ + 1]
        /\ locked' = IF old = NoObject THEN NoObject ELSE o
        /\ UNCHANGED <<life, strong, dying, metaVars, roots, gcVars>>

DropValue(o) ==
    /\ Quiet
    /\ held[o] > 0
    /\ held' = [held EXCEPT ![o] = @ - 1]
    /\ pending' = [pending EXCEPT ![o] = @ + 1]
    /\ UNCHANGED <<life, edge, strong, dying, locked, metaVars, roots, gcVars>>

-----------------------------------------------------------------------------
(* release_object *)

\* The values of a payload, as a number for each object.
Dropped(q, o) ==
    [p \in Objects |-> q[p] + Cardinality(FieldsTo(o, p))]

\* An Arc that is gone leaves dead weak references behind.
WithoutWeak(R) == [i \in DOMAIN roots |-> IF roots[i] \in R THEN NoObject ELSE roots[i]]

BeginCollection ==
    /\ phase' = "mark"
    /\ idx' = 1
    /\ UNCHANGED <<stk, seen, condemned>>

\* Strong reaches zero: free_zero_path clears the payload.
ReleaseLast(o) ==
    LET q == [pending EXCEPT ![o] = @ - 1]
    IN  /\ phase = "idle" /\ dying = NoObject
        /\ pending[o] > 0
        /\ strong[o] = 1
        /\ strong' = [strong EXCEPT ![o] = 0]
        /\ shadow' = [shadow EXCEPT ![o] = 0]
        /\ color' = [color EXCEPT ![o] = "black"]
        /\ buffered' = [buffered EXCEPT ![o] = FALSE]
        /\ pending' = Dropped(q, o)
        /\ edge' = [edge EXCEPT ![o] = NoFields]
        /\ life' = [life EXCEPT ![o] = "cleared"]
        /\ dying' = o
        /\ UNCHANGED <<held, locked, roots, gcVars>>

\* Mutation of BufferRoot: only an object down to its last reference.
BufferRootMutant(o) ==
    IF buffered[o] \/ strong[o] > 2
    THEN UNCHANGED <<buffered, color, roots>>
    ELSE /\ buffered' = [buffered EXCEPT ![o] = TRUE]
         /\ color' = [color EXCEPT ![o] = "purple"]
         /\ roots' = Append(roots, o)

BufferRoot(o) ==
    IF buffered[o]
    THEN UNCHANGED <<buffered, color, roots>>
    ELSE /\ buffered' = [buffered EXCEPT ![o] = TRUE]
         /\ color' = [color EXCEPT ![o] = "purple"]
         /\ roots' = Append(roots, o)

\* Strong stays above zero: the object may head a garbage cycle.
ReleaseShared(o) ==
    /\ phase = "idle" /\ dying = NoObject
    /\ pending[o] > 0
    /\ strong[o] # 1
    /\ strong' = [strong EXCEPT ![o] = @ - 1]
    /\ pending' = [pending EXCEPT ![o] = @ - 1]
    /\ dying' = o
    /\ BufferRoot(o)
    /\ IF Trigger > 0 /\ Len(roots') >= Trigger
       THEN BeginCollection ELSE UNCHANGED gcVars
    /\ UNCHANGED <<life, held, locked, edge, shadow>>

\* The Arc's own count: the last reference takes the object along, and with
\* it what is left of its payload.  (In the code the Arc of a freed object
\* lasts until its children are released; it has no payload, its count is
\* zero and it is not buffered, so a collection in between passes over it.)
\* With the last of the drops set_field returns and unlocks the fields.
FinishRelease ==
    /\ phase = "idle" /\ dying # NoObject
    /\ dying' = NoObject
    /\ IF Refs(dying) = 0
       THEN /\ life' = [life EXCEPT ![dying] = "absent"]
            /\ pending' = Dropped(pending, dying)
            /\ edge' = [edge EXCEPT ![dying] = NoFields]
            /\ strong' = [strong EXCEPT ![dying] = 0]
            /\ roots' = WithoutWeak({dying})
       ELSE UNCHANGED <<life, pending, edge, strong, roots>>
    /\ locked' = IF \E o \in Objects : pending'[o] > 0 THEN locked ELSE NoObject
    /\ UNCHANGED <<held, metaVars, gcVars>>

-----------------------------------------------------------------------------
(* collect_cycles *)

CollectCycles == Quiet /\ BeginCollection
                 /\ UNCHANGED <<heapVars, dying, locked, metaVars, roots>>

Task(t, o) == [task |-> t, obj |-> o]
Push(s, tasks) == s \o tasks
ChildTasks(o, fs, t) == [i \in 1 .. Len(fs) |-> Task(t, edge[o][fs[i]])]

\* mark_gray pushes two tasks per child: the visit is on top.
MarkTasks(o, fs) ==
    [i \in 1 .. 2 * Len(fs) |->
        Task(IF i % 2 = 1 THEN "dec" ELSE "visit", edge[o][fs[(i + 1) \div 2]])]

\* The next root of the loop that is running; a dead one is skipped.
NextRoot(p, wanted(_), t, done) ==
    /\ phase = p /\ stk = <<>>
    /\ IF idx > Len(roots)
       THEN phase' = done /\ idx' = 1 /\ UNCHANGED stk
       ELSE /\ idx' = idx + 1
            /\ stk' = IF roots[idx] # NoObject /\ wanted(roots[idx])
                      THEN <<Task(t, roots[idx])>> ELSE <<>>
            /\ UNCHANGED phase
    /\ UNCHANGED <<heapVars, dying, locked, metaVars, roots, seen, condemned>>

MarkRoot ==
    NextRoot("mark", LAMBDA o : buffered[o] /\ strong[o] > 0, "visit", "scan")
ScanRoot == NextRoot("scan", LAMBDA o : TRUE, "scan", "white")

WhiteRoot ==
    /\ phase = "white" /\ stk = <<>>
    /\ idx <= Len(roots)
    /\ idx' = idx + 1
    /\ stk' = IF roots[idx] = NoObject THEN <<>> ELSE <<Task("white", roots[idx])>>
    /\ UNCHANGED <<heapVars, dying, locked, metaVars, roots, phase, seen, condemned>>

Top == Last(stk)
Rest == Front(stk)
gcRest == <<heapVars, dying, locked, roots, phase, idx>>

\* Mutation of Visit: the shadow count is not set up.
VisitMutant ==
    /\ stk # <<>> /\ Top.task = "visit"
    /\ IF color[Top.obj] = "gray"
       THEN stk' = Rest /\ UNCHANGED color
       ELSE /\ Top.obj # locked
            /\ color' = [color EXCEPT ![Top.obj] = "gray"]
            /\ \E fs \in FieldOrders(Top.obj) :
                  stk' = Push(Rest, MarkTasks(Top.obj, fs))
    /\ UNCHANGED <<gcRest, shadow, buffered, seen, condemned>>

Visit ==
    /\ stk # <<>> /\ Top.task = "visit"
    /\ IF color[Top.obj] = "gray"
       THEN stk' = Rest /\ UNCHANGED <<color, shadow>>
       ELSE /\ Top.obj # locked
            /\ color' = [color EXCEPT ![Top.obj] = "gray"]
            /\ shadow' = [shadow EXCEPT ![Top.obj] = strong[Top.obj]]
            /\ \E fs \in FieldOrders(Top.obj) :
                  stk' = Push(Rest, MarkTasks(Top.obj, fs))
    /\ UNCHANGED <<gcRest, buffered, seen, condemned>>

DecShadow ==
    /\ stk # <<>> /\ Top.task = "dec"
    /\ shadow' = [shadow EXCEPT ![Top.obj] = @ - 1]
    /\ stk' = Rest
    /\ UNCHANGED <<gcRest, color, buffered, seen, condemned>>

Scan ==
    /\ stk # <<>> /\ Top.task = "scan"
    /\ IF color[Top.obj] # "gray"
       THEN stk' = Rest /\ UNCHANGED color
       ELSE IF shadow[Top.obj] > 0
       THEN stk' = Push(Rest, <<Task("black", Top.obj)>>) /\ UNCHANGED color
       ELSE /\ Top.obj # locked
            /\ color' = [color EXCEPT ![Top.obj] = "white"]
            /\ \E fs \in FieldOrders(Top.obj) :
                  stk' = Push(Rest, ChildTasks(Top.obj, fs, "scan"))
    /\ UNCHANGED <<gcRest, shadow, buffered, seen, condemned>>

\* Mutation of ScanBlack: the children of a survivor are not restored.
ScanBlackMutant ==
    /\ stk # <<>> /\ Top.task = "black"
    /\ color' = [color EXCEPT ![Top.obj] = "black"]
    /\ buffered' = [buffered EXCEPT ![Top.obj] = FALSE]
    /\ stk' = Rest
    /\ UNCHANGED <<gcRest, shadow, seen, condemned>>

ScanBlack ==
    LET o == Top.obj
    IN  /\ stk # <<>> /\ Top.task = "black"
        /\ buffered' = [buffered EXCEPT ![o] = FALSE]
        /\ IF color[o] = "black"
           THEN stk' = Rest /\ UNCHANGED <<color, shadow>>
           ELSE /\ o # locked
                /\ color' = [color EXCEPT ![o] = "black"]
                /\ shadow' = [p \in Objects |->
                                 shadow[p] + Cardinality(FieldsTo(o, p))]
                /\ \E fs \in FieldOrders(o) :
                      stk' = Push(Rest, ChildTasks(o, fs, "black"))
        /\ UNCHANGED <<gcRest, seen, condemned>>

CollectWhite ==
    LET o == Top.obj
    IN  /\ stk # <<>> /\ Top.task = "white"
        /\ seen' = seen \union {o}
        /\ IF o \in seen
           THEN stk' = Rest /\ UNCHANGED <<color, buffered, condemned>>
           ELSE IF color[o] = "white"
           THEN /\ o # locked
                /\ condemned' = condemned \union {o}
                /\ \E fs \in FieldOrders(o) :
                      stk' = Push(Rest, ChildTasks(o, fs, "white"))
                /\ UNCHANGED <<color, buffered>>
           ELSE /\ color' = [color EXCEPT ![o] = "black"]
                /\ buffered' = [buffered EXCEPT ![o] = FALSE]
                /\ stk' = Rest /\ UNCHANGED condemned
        /\ UNCHANGED <<gcRest, shadow>>

\* The objects that lose their last Arc when the payloads of D are cleared.
Cleared(D) == [o \in Objects |-> IF o \in D THEN NoFields ELSE edge[o]]
Gone(D) ==
    {o \in Objects : life[o] # "absent" /\ o # dying
                     /\ RefsIn(o, held, pending, Cleared(D)) = 0}

\* Their payloads go as well, and so on.
Unreferenced(R) ==
    {o \in Objects : \A D \in SUBSET Objects :
                         R \subseteq D /\ Gone(D) \subseteq D => o \in D}

\* The end of collect_cycles: the condemned objects are stripped.  Drops are
\* suppressed meanwhile, so the strong counts of objects that survive keep
\* the references they had from the condemned ones.  (Shadow counts are
\* scratch, set by Visit before they are read; the model forgets them here.)
FreeCondemned ==
    LET stripped == Unreferenced(condemned)
        kept(o) == o \in condemned /\ (o = dying \/ held[o] + pending[o] > 0)
    IN  /\ phase = "white" /\ stk = <<>> /\ idx > Len(roots)
        /\ edge' = Cleared(stripped)
        /\ life' = [o \in Objects |-> IF o \notin stripped THEN life[o]
                                      ELSE IF kept(o) THEN "cleared" ELSE "absent"]
        /\ strong' = [o \in Objects |-> IF o \in stripped THEN 0 ELSE strong[o]]
        /\ shadow' = [o \in Objects |-> 0]
        /\ color' = [o \in Objects |-> IF o \in stripped THEN "black" ELSE color[o]]
        /\ buffered' = [o \in Objects |-> IF o \in stripped THEN FALSE ELSE buffered[o]]
        /\ roots' = <<>>
        /\ phase' = "idle"
        /\ idx' = 1
        /\ seen' = {}
        /\ condemned' = {}
        /\ UNCHANGED <<held, pending, dying, locked, stk>>

-----------------------------------------------------------------------------
Program ==
    \/ \E o \in Objects : New(o) \/ CloneValue(o) \/ UpgradeWeak(o) \/ DropValue(o)
    \/ \E o \in Objects, s \in Slots : GetField(o, s)
    \/ \E o, p \in Objects, s \in Slots : SetField(o, s, p)
    \/ CollectCycles

Runtime ==
    \/ \E o \in Objects : ReleaseLast(o) \/ ReleaseShared(o)
    \/ FinishRelease
    \/ MarkRoot \/ ScanRoot \/ WhiteRoot
    \/ Visit \/ DecShadow \/ Scan \/ ScanBlack \/ CollectWhite
    \/ FreeCondemned

Next == Program \/ Runtime

Spec == Init /\ [][Next]_vars

-----------------------------------------------------------------------------
\* Whatever the program can still reach has its payload: no collection and no
\* release frees an object that is in use.
NoLiveCollected == \A o \in Reachable : life[o] = "live"

\* The counter of an object that is left never falls below the references
\* that exist; it is what makes trial deletion safe.
CountsCover == \A o \in Objects : life[o] = "live" => strong[o] >= Refs(o)

\* An object whose counter is too high: a collection took away a reference
\* to it without counting it down.
Inflated == {o \in Objects : life[o] = "live" /\ strong[o] > Refs(o)}

\* Garbage is never lost: whenever the program runs, an object it cannot reach
\* can be reached from a buffered root, so that a collection finds it, or
\* from an object with an inflated count.
Garbage == {o \in Objects : life[o] = "live"} \ Reachable
NoLostGarbage ==
    Quiet => Garbage \subseteq
                 ReachableIn((Range(roots) \ {NoObject}) \union Inflated, edge)

\* tests/cycle_collector.rs: "deep cycle should be reclaimed".  After a
\* collection no garbage is left.
CyclesReclaimed ==
    [][FreeCondemned /\ dying = NoObject => Garbage' = {}]_vars
=============================================================================
