------------------------------ MODULE RingList ------------------------------
(***************************************************************************)
(* A Ring list (rlist.c): a doubly linked chain of Items, each of which    *)
(* points at its Item, with two shortcuts to a position, both dropped by   *)
(* every change of the chain: the cache (pLastItem, nNextItem), kept by    *)
(* reads, and an array of the items (pItemsArray), built on demand.        *)
(*                                                                         *)
(* Items and Item are allocated as one block, but live apart: a swap       *)
(* exchanges the items of two links, and variables may refer to an item.   *)
(* nGCReferenceCount decides when the block is freed.                      *)
(*                                                                         *)
(* Most callers pass no state to the functions that read a list; the cache *)
(* is switched off, once threads are used, only for those that pass one.   *)
(***************************************************************************)
EXTENDS Integers, Sequences, FiniteSets, SequencesExt

CONSTANTS
    Blocks,                  \* memory blocks; bound on the size of the list
    Values,                  \* what an item holds
    NULL,
    MaxSizeWithoutListCache, \* RING_LIST_MAXSIZEWITHOUTLISTCACHE
    MaxMoved,                \* bound: links that hold the item of another block
    MaxHeld,                 \* bound: references of variables to items
    MayUseThreads            \* a threads library may be loaded

ASSUME ConstantsAssumption ==
    /\ IsFiniteSet(Blocks)
    /\ NULL \notin Blocks \cup Values
    /\ MaxSizeWithoutListCache \in 0..6
    /\ MaxMoved \in Nat /\ MaxHeld \in Nat
    /\ MayUseThreads \in BOOLEAN

VARIABLES
    list,          \* struct List, with the links pNext, pPrev, pValue of its Items
    content,       \* what each item holds
    allocated,     \* blocks in use
    nGCReferenceCount,
    held,          \* references of variables to each item
    lUsingThreads, \* RingState: a threads library was loaded
    crashed        \* a NULL pointer was followed

memory == <<allocated, nGCReferenceCount>>
vars == <<list, content, memory, held, lUsingThreads, crashed>>

(* Who calls: with the RingState, or through the functions without it. *)
States == {"state", "null"}

Running == ~crashed

-----------------------------------------------------------------------------
(* The chain. *)

(* The link n steps away from a link. *)
Along(link, from, n) ==
    LET at[k \in 0..n] == IF k = 0 THEN from ELSE link[at[k - 1]] IN at[n]

(* The n-th link, counted from the first and from the last. *)
FromFirst(l, n) == Along(l.pNext, l.pFirst, n - 1)
FromLast(l, n) == Along(l.pPrev, l.pLast, l.nSize - n)

(* ring_list_getitemcontainer() *)
Container(l, n) == IF n = l.nSize THEN l.pLast ELSE FromFirst(l, n)

-----------------------------------------------------------------------------
(* Finding an item, and the cache. *)

(* Variant: the array goes, the cached link stays. *)
ClearArrayOnly(l) == [l EXCEPT !.pItemsArray = NULL]

(* ring_list_clearcache() *)
ClearCache(l) == [l EXCEPT !.nNextItem = 0, !.pLastItem = NULL, !.pItemsArray = NULL]

UsesCache(st) == st = "null" \/ ~lUsingThreads

(* Variant: the position is counted from zero. *)
SetCacheAhead(l, link, n, st) ==
    IF UsesCache(st) THEN [l EXCEPT !.pLastItem = link, !.nNextItem = n + 2] ELSE l

(* ring_list_setcache() *)
SetCache(l, link, n, st) ==
    IF UsesCache(st) THEN [l EXCEPT !.pLastItem = link, !.nNextItem = n + 1] ELSE l

(* Variant: the last link but one is not told from the one before it. *)
SmallLinkFar(l, n) ==
    IF n <= 2 THEN FromFirst(l, n)
    ELSE IF n = l.nSize THEN l.pLast
    ELSE CASE n = 3 -> IF l.nSize = 4 THEN l.pPrev[l.pLast] ELSE FromFirst(l, 3)
           [] n = 4 -> l.pPrev[l.pPrev[l.pLast]]
           [] n = 5 -> l.pPrev[l.pLast]

(* A list too small for the cache: the nearest end, by size. *)
SmallLink(l, n) ==
    IF n <= 2 THEN FromFirst(l, n)
    ELSE IF n = l.nSize THEN l.pLast
    ELSE CASE n = 3 -> IF l.nSize = 4 THEN l.pPrev[l.pLast] ELSE FromFirst(l, 3)
           [] n = 4 -> IF l.nSize = 5 THEN l.pPrev[l.pLast] ELSE l.pPrev[l.pPrev[l.pLast]]
           [] n = 5 -> l.pPrev[l.pLast]

(* The cached link may be nearer than both ends. *)
IsNext(l, n) == n = l.nNextItem /\ l.pNext[l.pLastItem] # NULL
IsCurrent(l, n) == n = l.nNextItem - 1
IsAfter(l, n) == n > l.nNextItem /\ n - l.nNextItem < l.nSize - n
IsBefore(l, n) == n < l.nNextItem - 1 /\ l.nNextItem - n < n

(* From the cached link, which is the one at nNextItem - 1. *)
CachedLink(l, n) ==
    IF n >= l.nNextItem - 1
    THEN Along(l.pNext, l.pLastItem, n - (l.nNextItem - 1))
    ELSE Along(l.pPrev, l.pLastItem, (l.nNextItem - 1) - n)

(* Linear search, from the nearest end. *)
LinearLink(l, n) == IF n < l.nSize - n THEN FromFirst(l, n) ELSE FromLast(l, n)

IsSmall(l) == l.nSize <= MaxSizeWithoutListCache

(* The link that ring_list_getitem() walks to, when there is no array. *)
GetLink(l, n, st) ==
    IF IsSmall(l) THEN SmallLink(l, n)
    ELSE IF ~UsesCache(st) THEN LinearLink(l, n)
    ELSE IF n = 1 THEN l.pFirst
    ELSE IF n = l.nSize THEN l.pLast
    ELSE IF /\ l.pLastItem # NULL
            /\ IsNext(l, n) \/ IsCurrent(l, n) \/ IsAfter(l, n) \/ IsBefore(l, n)
         THEN CachedLink(l, n)
    ELSE LinearLink(l, n)

(* ring_list_getitem(): the item, and the list with its cache moved. *)
GetItem(l, n, st) ==
    IF l.pItemsArray # NULL THEN [item |-> l.pItemsArray[n], list |-> l]
    ELSE LET link == GetLink(l, n, st)
         IN  [item |-> l.pValue[link],
              list |-> IF IsSmall(l) THEN l ELSE SetCache(l, link, n, st)]

(* ring_list_setint() and its like, on a list already changed to l. *)
SetItem(l, n, v, st) ==
    LET found == GetItem(l, n, st)
    IN  /\ list' = found.list
        /\ content' = [content EXCEPT ![found.item] = v]

-----------------------------------------------------------------------------
(* Memory.  A block starts with a count of one: two owners, the link and   *)
(* the item.                                                               *)

(* ring_items_new() *)
Allocate(b) ==
    /\ b \notin allocated
    /\ allocated' = allocated \cup {b}
    /\ nGCReferenceCount' = [nGCReferenceCount EXCEPT ![b] = 1]

(* ring_vm_gc_deleteitem() *)
DeleteOwner(m, b) ==
    IF m.count[b] = 0
    THEN [m EXCEPT !.blocks = @ \ {b}]
    ELSE [m EXCEPT !.count[b] = @ - 1]

(* Variant: only the item of the link is released. *)
DeleteItemOnly(m, b) == DeleteOwner(m, list.pValue[b])

(* ring_items_delete(): the item of the link, then the link's own block. *)
DeleteItems(m, b) == DeleteOwner(DeleteOwner(m, list.pValue[b]), b)

Memory == [blocks |-> allocated, count |-> nGCReferenceCount]

SetMemory(m) == allocated' = m.blocks /\ nGCReferenceCount' = m.count

(* The fields of links that are no longer in the list are not looked at. *)
Forget(l, links) ==
    [l EXCEPT !.pNext = [b \in Blocks |-> IF b \in links THEN NULL ELSE @[b]],
              !.pPrev = [b \in Blocks |-> IF b \in links THEN NULL ELSE @[b]],
              !.pValue = [b \in Blocks |-> IF b \in links THEN NULL ELSE @[b]]]

-----------------------------------------------------------------------------
Init ==
    /\ list = [pFirst |-> NULL, pLast |-> NULL, nSize |-> 0,
               pLastItem |-> NULL, nNextItem |-> 0, pItemsArray |-> NULL,
               pNext |-> [b \in Blocks |-> NULL],
               pPrev |-> [b \in Blocks |-> NULL],
               pValue |-> [b \in Blocks |-> NULL]]
    /\ content = [b \in Blocks |-> NULL]
    /\ allocated = {}
    /\ nGCReferenceCount = [b \in Blocks |-> 0]
    /\ held = [b \in Blocks |-> 0]
    /\ lUsingThreads = FALSE
    /\ crashed = FALSE

(* ring_list_newitembyitemsptr() *)
NewItem(l, b) ==
    IF l.nSize > 0
    THEN ClearCache([l EXCEPT !.pNext[l.pLast] = b, !.pPrev[b] = l.pLast, !.pLast = b,
                              !.pValue[b] = b, !.nSize = @ + 1])
    ELSE [l EXCEPT !.pFirst = b, !.pLast = b, !.pValue[b] = b, !.nSize = @ + 1]

(* ring_list_addint() and its like. *)
Add(v, st) ==
    /\ Running
    /\ \E b \in Blocks :
        /\ Allocate(b)
        /\ SetItem(NewItem(list, b), list.nSize + 1, v, st)
    /\ UNCHANGED <<held, lUsingThreads, crashed>>

(* ring_list_insertitem(), at the front. *)
InsertFirst(l, b) ==
    ClearCache([l EXCEPT !.pNext[b] = l.pFirst, !.pPrev[l.pFirst] = b, !.pFirst = b,
                         !.pValue[b] = b, !.nSize = @ + 1])

(* Variant: the back link of the following node is forgotten. *)
InsertAfterOneWay(l, b, pos) ==
    ClearCache([l EXCEPT !.pNext[b] = l.pNext[pos], !.pPrev[b] = pos,
                         !.pNext[pos] = b, !.pValue[b] = b, !.nSize = @ + 1])

(* ring_list_insertitem(), after a link that is not the last. *)
InsertAfter(l, b, pos) ==
    ClearCache([l EXCEPT !.pNext[b] = l.pNext[pos], !.pPrev[l.pNext[pos]] = b,
                         !.pPrev[b] = pos, !.pNext[pos] = b, !.pValue[b] = b,
                         !.nSize = @ + 1])

(* Variant: the cached link is believed without reading the list first. *)
InsertPositionUnread(n, st) ==
    IF list.pLastItem = NULL THEN Container(list, n) ELSE list.pLastItem

(* The link to insert after: the one that reading item n leaves in the     *)
(* cache, or the container of n when there is none.                        *)
InsertPosition(n, st) ==
    LET l == GetItem(list, n, st).list
    IN  IF l.pLastItem = NULL \/ l.pItemsArray # NULL
        THEN Container(l, n)
        ELSE l.pLastItem

(* ring_list_insertint() and its like: after the n-th item. *)
Insert(n, v, st) ==
    /\ Running
    /\ \E b \in Blocks :
        /\ Allocate(b)
        /\ \/ /\ n = list.nSize
              /\ SetItem(NewItem(list, b), n + 1, v, st)
              /\ UNCHANGED crashed
           \/ /\ n = 0 /\ n < list.nSize
              /\ SetItem(InsertFirst(list, b), n + 1, v, st)
              /\ UNCHANGED crashed
           \/ /\ n > 0 /\ n < list.nSize
              /\ LET pos == InsertPosition(n, st)
                 IN  IF list.pNext[pos] = NULL
                     THEN crashed' = TRUE /\ UNCHANGED <<list, content>>
                     ELSE /\ SetItem(InsertAfter(list, b, pos), n + 1, v, st)
                          /\ UNCHANGED crashed
    /\ UNCHANGED <<held, lUsingThreads>>

(* ring_list_setint() and its like. *)
Set(n, v, st) ==
    /\ Running
    /\ SetItem(list, n, v, st)
    /\ UNCHANGED <<memory, held, lUsingThreads, crashed>>

(* ring_list_getitem(), and everything that only reads an item. *)
Get(n, st) ==
    /\ Running
    /\ list' = GetItem(list, n, st).list
    /\ UNCHANGED <<content, memory, held, lUsingThreads, crashed>>

(* The chain without its n-th link. *)
Unlink(l, n) ==
    LET items == IF l.nSize = 1 THEN l.pFirst
                 ELSE IF n = l.nSize THEN l.pLast ELSE FromFirst(l, n)
        prev == IF n = 1 THEN NULL ELSE l.pPrev[items]
        next == l.pNext[items]
    IN  Forget([l EXCEPT !.pFirst = IF n = 1 THEN next ELSE @,
                         !.pLast = IF n = l.nSize THEN prev ELSE @,
                         !.pNext = [b \in Blocks |-> IF b = prev THEN next ELSE @[b]],
                         !.pPrev = [b \in Blocks |-> IF b = next THEN prev ELSE @[b]],
                         !.nSize = @ - 1], {items})

(* ring_list_deleteitem() *)
DeleteItem(n) ==
    /\ Running
    /\ list' = ClearCache(Unlink(list, n))
    /\ SetMemory(DeleteItems(Memory, FromFirst(list, n)))
    /\ UNCHANGED <<content, held, lUsingThreads, crashed>>

(* What is left in use when the last n links are deleted, the last first. *)
Released(n) ==
    LET after[k \in 0..n] ==
            IF k = 0 THEN Memory
            ELSE DeleteItems(after[k - 1], FromLast(list, list.nSize + 1 - k))
    IN  after[n]

(* ring_list_deleteallitems() and ring_list_finishdelete() *)
DeleteAllItems ==
    /\ Running
    /\ list' = Forget(ClearCache([list EXCEPT !.pFirst = NULL, !.pLast = NULL, !.nSize = 0]),
                      Blocks)
    /\ SetMemory(Released(list.nSize))
    /\ UNCHANGED <<content, held, lUsingThreads, crashed>>

(* swap(aList, m, n): ring_list_swap(), then ring_list_clearcache(). *)
SwapItems(m, n, st) ==
    /\ Running
    /\ LET l == GetItem(list, m, st).list
           from == Container(l, m)
           to == Container(l, n)
       IN  list' = ClearCache([l EXCEPT !.pValue[from] = l.pValue[to],
                                        !.pValue[to] = GetItem(list, m, st).item])
    /\ Cardinality({b \in Blocks : list'.pValue[b] \notin {b, NULL}}) <= MaxMoved
    /\ UNCHANGED <<content, memory, held, lUsingThreads, crashed>>

(* ring_list_genarray() *)
GenArray ==
    /\ Running
    /\ list' = [list EXCEPT !.pItemsArray =
                   IF list.nSize = 0 THEN NULL
                   ELSE [n \in 1..list.nSize |-> list.pValue[FromFirst(list, n)]]]
    /\ UNCHANGED <<content, memory, held, lUsingThreads, crashed>>

(* A variable comes to refer to the n-th item, and is deleted. *)
NewReference(n) ==
    LET item == list.pValue[FromFirst(list, n)]
    IN  /\ Running
        /\ held[item] < MaxHeld
        /\ held' = [held EXCEPT ![item] = @ + 1]
        /\ nGCReferenceCount' = [nGCReferenceCount EXCEPT ![item] = @ + 1]
        /\ UNCHANGED <<list, content, allocated, lUsingThreads, crashed>>

DeleteReference(b) ==
    /\ Running
    /\ held[b] > 0
    /\ held' = [held EXCEPT ![b] = @ - 1]
    /\ SetMemory(DeleteOwner(Memory, b))
    /\ UNCHANGED <<list, content, lUsingThreads, crashed>>

(* ring_vm_mutexfunctions() *)
UseThreads ==
    /\ Running
    /\ MayUseThreads
    /\ lUsingThreads' = TRUE
    /\ UNCHANGED <<list, content, memory, held, crashed>>

Next ==
    \/ \E st \in States :
        \/ \E v \in Values : Add(v, st)
        \/ \E n \in 0..list.nSize, v \in Values : Insert(n, v, st)
        \/ \E n \in 1..list.nSize, v \in Values : Set(n, v, st)
        \/ \E n \in 1..list.nSize : Get(n, st)
        \/ \E m, n \in 1..list.nSize : m # n /\ SwapItems(m, n, st)
    \/ \E n \in 1..list.nSize : DeleteItem(n) \/ NewReference(n)
    \/ DeleteAllItems
    \/ GenArray
    \/ \E b \in Blocks : DeleteReference(b)
    \/ UseThreads

Spec == Init /\ [][Next]_vars

-----------------------------------------------------------------------------
(* Properties. *)

Pointers == Blocks \cup {NULL}

(* The fields of the list hold links and sizes of this list. *)
TypeOK ==
    /\ {list.pFirst, list.pLast, list.pLastItem} \subseteq Pointers
    /\ list.nSize \in 0..Cardinality(Blocks)
    /\ list.nNextItem \in 0..Cardinality(Blocks) + 1
    /\ list.pItemsArray = NULL \/ list.pItemsArray \in Seq(Blocks)
    /\ {list.pNext, list.pPrev, list.pValue} \subseteq [Blocks -> Pointers]
    /\ content \in [Blocks -> Values \cup {NULL}]
    /\ allocated \subseteq Blocks
    /\ nGCReferenceCount \in [Blocks -> 0..MaxHeld + 1]
    /\ held \in [Blocks -> 0..MaxHeld]
    /\ lUsingThreads \in BOOLEAN /\ crashed \in BOOLEAN

(* Walking the chain forward and backward meets the same nSize links, none *)
(* of them twice, and ends on NULL at both ends (rlist.c).                 *)
LinksAgree ==
    IF list.nSize = 0 THEN list.pFirst = NULL /\ list.pLast = NULL
    ELSE /\ list.pPrev[list.pFirst] = NULL /\ list.pNext[list.pLast] = NULL
         /\ \A n \in 1..list.nSize : FromFirst(list, n) = FromLast(list, n)
         /\ \A m, n \in 1..list.nSize : FromFirst(list, m) = FromFirst(list, n) => m = n

(* The cached link is the one before nNextItem: no change of the chain     *)
(* leaves a position that has moved or a link that is gone (rlist.c).      *)
CacheCoherent ==
    list.pLastItem # NULL =>
        /\ list.nNextItem - 1 \in 1..list.nSize
        /\ list.pLastItem = FromFirst(list, list.nNextItem - 1)

(* Whatever shortcut is taken, with or without a state, reading item n     *)
(* finds the item of the n-th link (ring_list_getitem).                    *)
ItemFound ==
    \A n \in 1..list.nSize, st \in States :
        GetItem(list, n, st).item = list.pValue[FromFirst(list, n)]

Links == {FromFirst(list, n) : n \in 1..list.nSize}

Owners(b) ==
    (IF b \in Links THEN 1 ELSE 0) + held[b]
      + Cardinality({link \in Links : list.pValue[link] = b})

(* A block is in use exactly as long as its link is in the list, its item  *)
(* is in the list (under whatever link) or a variable refers to its item:  *)
(* it is not freed early, not freed twice, and not kept (vmgc.c, ritems.c).*)
(* An insertion that follows a NULL link has allocated its block by then.  *)
MemoryExact ==
    Running =>
    \A b \in Blocks :
        IF b \in allocated THEN nGCReferenceCount[b] + 1 = Owners(b)
                           ELSE Owners(b) = 0

(* The list behaves as a sequence of values: inserting, deleting, setting  *)
(* and swapping act on the position they name.                             *)
AsSequence == [n \in 1..list.nSize |-> content[list.pValue[FromFirst(list, n)]]]

Abstract == INSTANCE ListSeq WITH values <- AsSequence

ListSeqSpec == Abstract!Spec
=============================================================================
