----------------------------- MODULE MemoryPool -----------------------------
(***************************************************************************)
(* Items that the threads of a program share, and the memory they lie in.  *)
(* The main thread has a block of pool items of several sizes and a free   *)
(* list for each size; a sub-thread knows the bounds of that block, and    *)
(* has free lists of its own, which begin with items from the C library.   *)
(* No mutex guards the lists: memory goes to the list of the thread that   *)
(* frees it.  Which thread that is the count of references decides, under  *)
(* a mutex, but not in one critical section.                               *)
(***************************************************************************)
EXTENDS Naturals, FiniteSets, FiniteSetsExt

CONSTANTS
    Main,        \* the main thread
    SubThreads,  \* the others
    Small,       \* items of level 1 in the main thread's block
    Large,       \* items of a higher level in its block
    Heap,        \* places the C library may give out
    Private,     \* RING_VM_ITEMSFORNEWTHREAD
    MaxCount,    \* RING_VM_REFCOUNTMAX
    MaxItems     \* bound: items in use at one time

Threads == {Main} \cup SubThreads

Levels == {"small", "large"}

Block == [l \in Levels |-> IF l = "small" THEN Small ELSE Large]

Pool == Small \cup Large

Places == Pool \cup Heap

ASSUME ConstantsAssumption ==
    /\ Main \notin SubThreads
    /\ Small \cap Large = {} /\ Pool \cap Heap = {}
    /\ IsFiniteSet(Threads) /\ IsFiniteSet(Places)
    /\ Private \in Nat \ {0}
    /\ MaxCount \in Nat \ {0}
    /\ MaxItems \in Nat

VARIABLES
    life,      \* "unborn", "running" or "ended", for each thread
    free,      \* pCurrentItem of each thread and level: the items of the list
    inRange,   \* the places that each thread takes for the pool's, by its bounds
    heap,      \* places given out by the C library
    items,     \* places that hold an item of the program
    rc,        \* nGCReferenceCount
    refs,      \* how many references to each item each thread has
    drops,     \* references given up: the thread, the item, the count it read
    failed     \* the program ended: "no", "overflow" or "invalid pointer"

vars == <<life, free, inRange, heap, items, rc, refs, drops, failed>>

-----------------------------------------------------------------------------
Init ==
    /\ life = [t \in Threads |-> IF t = Main THEN "running" ELSE "unborn"]
    /\ free = [t \in Threads |-> [l \in Levels |-> IF t = Main THEN Block[l] ELSE {}]]
    /\ inRange = [t \in Threads |-> IF t = Main THEN Pool ELSE {}]
    /\ heap = {} /\ items = {}
    /\ rc = [a \in Places |-> 0]
    /\ refs = [t \in Threads |-> [a \in Places |-> 0]]
    /\ drops = {}
    /\ failed = "no"

(* ring_poolmanager_newblockfromsubthread(): the bounds are shared. *)
RangeOfMain(t) == inRange[Main]

(* ring_vm_createthreadstate(): the main thread's block, and private items. *)
Start(t) ==
    \E new \in kSubset(Private, Heap \ heap) :
        /\ life[t] = "unborn"
        /\ life' = [life EXCEPT ![t] = "running"]
        /\ free' = [free EXCEPT ![t].small = new]
        /\ inRange' = [inRange EXCEPT ![t] = RangeOfMain(t)]
        /\ heap' = heap \cup new
        /\ UNCHANGED <<items, rc, refs, drops, failed>>

-----------------------------------------------------------------------------
(* Sizes above those of the lists are the C library's. *)
Sizes == Levels \cup {"huge"}

HasFree(t, l) == l \in Levels /\ free[t][l] # {}

(* The place of new memory: the list of its level, or malloc(). *)
Allocatable(t, l) == IF HasFree(t, l) THEN free[t][l] ELSE Heap \ heap

(* Variant: the head of the list stays its head. *)
FreeAndGiven(t, l, a) == free

FreeAfter(t, l, a) == IF HasFree(t, l) THEN [free EXCEPT ![t][l] = @ \ {a}] ELSE free

(* ring_state_malloc() for an item that the thread has one reference to. *)
Allocate(t, l) ==
    \E a \in Allocatable(t, l) :
        /\ Cardinality(items) < MaxItems
        /\ items' = items \cup {a}
        /\ free' = FreeAfter(t, l, a)
        /\ heap' = heap \cup ({a} \cap Heap)
        /\ rc' = [rc EXCEPT ![a] = 0]
        /\ refs' = [refs EXCEPT ![t][a] = 1]
        /\ UNCHANGED <<life, inRange, drops, failed>>

LevelOf(a) == IF a \in Small THEN "small" ELSE "large"

(* ring_state_free(): the list of the thread that frees, or free(). *)
FreeMemory(t, a) ==
    IF a \in inRange[t]
    THEN /\ free' = [free EXCEPT ![t][LevelOf(a)] = @ \cup {a}]
         /\ UNCHANGED <<heap, failed>>
    ELSE /\ heap' = heap \ {a}
         /\ failed' = IF a \in heap THEN failed ELSE "invalid pointer"
         /\ UNCHANGED free

(* What the owner of memory at a, its only one, has at b from now on. *)
MovedTo(t, a, b) ==
    /\ items' = (items \ {a}) \cup {b}
    /\ rc' = [rc EXCEPT ![b] = 0]
    /\ refs' = [refs EXCEPT ![t] = [@ EXCEPT ![a] = 0, ![b] = 1]]
    /\ UNCHANGED <<life, inRange, drops>>

(* ring_state_realloc() of memory of the pool: it moves if it does not fit. *)
Fits(a, l) == l = "small" \/ (l = "large" /\ a \in Large)

Reallocate(t, a, l) ==
    /\ refs[t][a] = 1 /\ rc[a] = 0
    /\ a \in inRange[t] /\ ~Fits(a, l)
    /\ \E b \in Allocatable(t, l) :
           /\ MovedTo(t, a, b)
           /\ free' = [FreeAfter(t, l, b) EXCEPT ![t][LevelOf(a)] = @ \cup {a}]
           /\ heap' = heap \cup ({b} \cap Heap)
           /\ UNCHANGED failed

(* Of other memory: realloc() may leave it where it is. *)
ReallocateOther(t, a) ==
    /\ refs[t][a] = 1 /\ rc[a] = 0
    /\ a \notin inRange[t]
    /\ \E b \in Heap \ heap :
           /\ MovedTo(t, a, b)
           /\ heap' = (heap \ {a}) \cup {b}
           /\ failed' = IF a \in heap THEN failed ELSE "invalid pointer"
           /\ UNCHANGED free

-----------------------------------------------------------------------------
(* References. *)

(* ring_vm_gc_checknewreference(): thread t refers to an item that thread  *)
(* u refers to, and u does not give it up meanwhile.                       *)
NewReference(t, u, a) ==
    /\ refs[u][a] > 0
    /\ IF rc[a] = MaxCount
       THEN /\ failed' = "overflow"
            /\ UNCHANGED <<rc, refs>>
       ELSE /\ rc' = [rc EXCEPT ![a] = @ + 1]
            /\ refs' = [refs EXCEPT ![t][a] = @ + 1]
            /\ UNCHANGED failed
    /\ UNCHANGED <<life, free, inRange, heap, items, drops>>

(* ring_vm_gc_deleteitem(): first the count is read. *)
ReadCount(t, a) ==
    /\ refs[t][a] > 0
    /\ ~\E d \in drops : d.by = t
    /\ refs' = [refs EXCEPT ![t][a] = @ - 1]
    /\ drops' = drops \cup {[by |-> t, item |-> a, nRefCount |-> rc[a]]}
    /\ UNCHANGED <<life, free, inRange, heap, items, rc, failed>>

(* Variant: an item with one reference more is taken for the last. *)
LastReferenceEarly(d) == d.nRefCount <= 1

LastReference(d) == d.nRefCount = 0

(* Variants: the count that was read is used again; the count has a sign. *)
CountAfterRead(d) == d.nRefCount - 1

CountSigned(d) == rc[d.item] - 1

(* The count has RING_VM_BITSFORREFCOUNT bits and no sign. *)
CountAfter(d) == IF rc[d.item] = 0 THEN MaxCount ELSE rc[d.item] - 1

(* Then the item is freed, or the count is decremented. *)
FinishDrop(d) ==
    /\ drops' = drops \ {d}
    /\ IF LastReference(d)
       THEN /\ items' = items \ {d.item}
            /\ FreeMemory(d.by, d.item)
            /\ UNCHANGED rc
       ELSE /\ rc' = [rc EXCEPT ![d.item] = CountAfter(d)]
            /\ UNCHANGED <<items, free, heap, failed>>
    /\ UNCHANGED <<life, inRange, refs>>

-----------------------------------------------------------------------------
(* Variant: every item of the list is the C library's. *)
GivenBackAll(t) == free[t].small

(* What ring_state_free() gives to the C library of a thread's list. *)
GivenBack(t) == free[t].small \ inRange[t]

(* ring_vm_deletethreadstate(), when the thread's code has run and its     *)
(* scopes are gone.  Items of the block that its lists hold are lost.      *)
Delete(t) ==
    /\ life[t] = "running"
    /\ \A a \in Places : refs[t][a] = 0
    /\ ~\E d \in drops : d.by = t
    /\ life' = [life EXCEPT ![t] = "ended"]
    /\ heap' = heap \ GivenBack(t)
    /\ failed' = IF GivenBack(t) \subseteq heap THEN failed ELSE "invalid pointer"
    /\ free' = [free EXCEPT ![t] = [l \in Levels |-> {}]]
    /\ UNCHANGED <<inRange, items, rc, refs, drops>>

Next ==
    /\ failed = "no"
    /\ \/ \E t \in SubThreads : Start(t) \/ Delete(t)
       \/ \E t \in Threads : /\ life[t] = "running"
                             /\ \/ \E l \in Sizes : Allocate(t, l)
                                \/ \E l \in Sizes, a \in items : Reallocate(t, a, l)
                                \/ \E a \in items : ReallocateOther(t, a)
                                \/ \E u \in Threads, a \in items : NewReference(t, u, a)
                                \/ \E a \in items : ReadCount(t, a)
       \/ \E d \in drops : FinishDrop(d)

Spec == Init /\ [][Next]_vars

-----------------------------------------------------------------------------
TypeOK ==
    /\ life \in [Threads -> {"unborn", "running", "ended"}]
    /\ free \in [Threads -> [Levels -> SUBSET Places]]
    /\ inRange \in [Threads -> SUBSET Pool]
    /\ heap \subseteq Heap
    /\ items \subseteq Places
    /\ rc \in [Places -> 0..MaxCount]
    /\ refs \in [Threads -> [Places -> Nat]]
    /\ drops \subseteq [by : Threads, item : Places, nRefCount : 0..MaxCount]
    /\ failed \in {"no", "overflow", "invalid pointer"}

Lists == {<<t, l>> : t \in Threads, l \in Levels}

ListsWith(a) == {x \in Lists : a \in free[x[1]][x[2]]}

(* An item's memory is in no free list while the item is used, and in one  *)
(* list at most when it is not: no thread gives out memory that another    *)
(* has, though each one frees memory of the main thread's block into a     *)
(* list of its own without a mutex (vmgc.c:1197).                          *)
OneOwner ==
    \A a \in Places : Cardinality(ListsWith(a)) + (IF a \in items THEN 1 ELSE 0) <= 1

(* Memory of the C library goes back to it once, and only its own does:    *)
(* what it has given out is in use or in a list that deleting the thread   *)
(* gives back, and it is never handed an item of the block.  Nothing of    *)
(* the block is lost while no sub-thread has ended.                        *)
MemoryExact ==
    /\ failed # "invalid pointer"
    /\ heap = {a \in Heap : a \in items \/ ListsWith(a) # {}}
    /\ (\A t \in Threads : life[t] # "ended")
         => \A a \in Pool : a \in items \/ ListsWith(a) # {}

(* The references to an item, one by one. *)
References(a) == UNION {{t} \X (1..refs[t][a]) : t \in Threads}

Dropped(a) == {d \in drops : d.item = a}

Owners(a) == Cardinality(References(a)) + Cardinality(Dropped(a))

(* The count is one less than the references, those being given up         *)
(* included, although it is read and decremented in two critical sections: *)
(* when two threads that have the last two references both read one, the   *)
(* item is not freed and the count wraps, but it is never too low.         *)
CountExact ==
    \A a \in items : rc[a] = IF Owners(a) = 0 THEN MaxCount ELSE Owners(a) - 1

(* No thread refers to an item that was freed, in whatever order threads   *)
(* give up their references; reading the count and decrementing it are two *)
(* critical sections (vmgc.c:69-77).                                       *)
NeverFreedInUse ==
    /\ \A t \in Threads, a \in Places : refs[t][a] > 0 => a \in items
    /\ \A d \in drops : d.item \in items
=============================================================================
