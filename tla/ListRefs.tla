------------------------------ MODULE ListRefs ------------------------------
(***************************************************************************)
(* Lists that several variables and list items share, after Ref(): a count *)
(* of references for each list, a place where a list waits that was only   *)
(* just made a reference, and the search for cycles that runs whenever a   *)
(* reference goes and others stay.                                         *)
(***************************************************************************)
EXTENDS Naturals, Sequences, FiniteSets, SequencesExt

CONSTANTS
    Lists,     \* addresses of lists
    Vars,      \* variables of the program
    Size,      \* items in each list
    NULL,      \* a value that is no list
    Programs   \* unusual shapes the program may have

Shapes == {"inner",      \* a list goes where the list that alone keeps it was
           "own_cycle"}  \* an item of a cycle is given another list

ASSUME ConstantsAssumption ==
    /\ IsFiniteSet(Lists) /\ IsFiniteSet(Vars)
    /\ Size \in Nat \ {0}
    /\ Programs \subseteq Shapes

VARIABLE mem   \* everything the program's values are kept in

Items == Lists \X (1..Size)

Places == Vars \cup Items

(* The lists in use; what each place holds; nReferenceCount; those with    *)
(* lNewRef; pDeleteLater.                                                  *)
Init ==
    mem = [alive |-> {}, held |-> [p \in Places |-> NULL],
           rc |-> [l \in Lists |-> 0], lNewRef |-> {}, pDeleteLater |-> <<>>]

-----------------------------------------------------------------------------
(* What is reachable. *)

Sublists(m, l) == {m.held[<<l, s>>] : s \in 1..Size} \ {NULL}

(* The lists found from a set of lists by following items. *)
RECURSIVE ReachedFrom(_, _)

ReachedFrom(m, found) ==
    LET more == UNION {Sublists(m, l) : l \in found} \ found
    IN  IF more = {} THEN found ELSE ReachedFrom(m, found \cup more)

(* ring_list_containssublist_gc() *)
ContainsSublist(m, l, check) == check \in ReachedFrom(m, Sublists(m, l))

IsRef(m, l) == m.rc[l] > 0 \/ l \in m.lNewRef

(* Variant: a list that has the same list twice counts as one reference. *)
InternalOnce(m, reached, l) ==
    {i \in reached \X (1..Size) :
        m.held[i] = l /\ \A s \in 1..i[2] - 1 : m.held[<<i[1], s>>] # l}

(* nTempRC + 1: the items of the lists reached that have the list. *)
Internal(m, reached, l) == {i \in reached \X (1..Size) : m.held[i] = l}

(* Variant: only the root's own count is looked at. *)
OutsideRoot(m, root) ==
    m.rc[root] + 1 > Cardinality(Internal(m, ReachedFrom(m, {root}), root))

(* Some list of the cycle has a reference from outside. *)
Outside(m, root) ==
    LET reached == ReachedFrom(m, {root})
    IN  \E l \in reached :
            /\ m.rc[l] + 1 > Cardinality(Internal(m, reached, l))
            /\ ContainsSublist(m, l, root)

-----------------------------------------------------------------------------
(* Deleting. *)

RECURSIVE DeleteRef(_, _)

(* What a place holds goes. *)
Emptied(m, p) ==
    IF m.held[p] = NULL THEN m
    ELSE DeleteRef([m EXCEPT !.held[p] = NULL], m.held[p])

(* ring_list_deleteallitems_gc(): the last item first. *)
DeleteAllItems(m, l) ==
    FoldLeft(LAMBDA n, s : Emptied(n, <<l, Size + 1 - s>>), m, [s \in 1..Size |-> s])

(* The list itself and, through it, its container variable. *)
DeleteContent(m, l) == [DeleteAllItems(m, l) EXCEPT !.alive = @ \ {l}]

(* The items that lead back to the root become strings. *)
Cut(m, root) ==
    LET back == Internal(m, ReachedFrom(m, {root}), root)
    IN  [m EXCEPT !.held = [p \in Places |-> IF p \in back THEN NULL ELSE @[p]],
                  !.rc[root] = 0]

(* ring_list_collectcycles_gc() *)
CollectCycles(m, l) ==
    IF ContainsSublist(m, l, l) /\ ~Outside(m, l) THEN DeleteRef(Cut(m, l), l) ELSE m

(* Variant: a reference goes without looking whether there is one. *)
DeleteRefUnchecked(m, l) ==
    CollectCycles([m EXCEPT !.rc[l] = @ - 1, !.lNewRef = @ \ {l}], l)

(* Variant: the count is taken for the number of owners. *)
DeleteRefAtOne(m, l) ==
    IF m.rc[l] > 1 THEN CollectCycles([m EXCEPT !.rc[l] = @ - 1], l)
    ELSE DeleteContent([m EXCEPT !.rc[l] = 0], l)

(* ring_list_deleteref_gc() *)
DeleteRef(m, l) ==
    LET n == [m EXCEPT !.lNewRef = @ \ {l}]
    IN  IF m.rc[l] > 0 THEN CollectCycles([n EXCEPT !.rc[l] = @ - 1], l)
        ELSE IF IsRef(m, l) THEN [n EXCEPT !.pDeleteLater = Append(@, l)]
        ELSE DeleteContent(m, l)

(* What a reference replaces goes.  A variable is empty by the time its    *)
(* list is deleted (ring_item_deletecontent_gc()); an item still has the   *)
(* list then (ring_list_assignreftoitem_gc()).                             *)
Released(m, p) ==
    IF p \in Vars \/ m.held[p] = NULL THEN Emptied(m, p) ELSE DeleteRef(m, m.held[p])

-----------------------------------------------------------------------------
(* Values for places. *)

Fresh(m) == CHOOSE l \in Lists : l \notin m.alive

WithNew(m, p, l) == [m EXCEPT !.alive = @ \cup {l}, !.held[p] = l]

(* Variant: the list is shared without counting. *)
WithRefUncounted(m, p, l) == [m EXCEPT !.held[p] = l, !.lNewRef = @ \ {l}]

(* ring_list_setlistbyref_gc() *)
WithRef(m, p, l) == [m EXCEPT !.held[p] = l, !.rc[l] = @ + 1, !.lNewRef = @ \ {l}]

(* ring_vm_listcopy() of l, as it is before new gets an item of it: items  *)
(* that are references stay shared.                                        *)
RECURSIVE ListCopy(_, _, _, _)

ListCopy(m, before, new, l) ==
    LET item(n, s) ==
            LET sub == before.held[<<l, s>>]
                p == <<new, s>>
            IN  IF sub = NULL THEN n
                ELSE IF IsRef(n, sub) THEN [n EXCEPT !.held[p] = sub, !.rc[sub] = @ + 1]
                ELSE ListCopy(WithNew(n, p, Fresh(n)), before, Fresh(n), sub)
    IN  FoldLeft(item, m, [s \in 1..Size |-> s])

(* There is memory for the lists that a copy of l may have in its items. *)
RoomToCopy(m, l) ==
    Cardinality(ReachedFrom(m, {l}) \ {l}) <= Cardinality(Lists \ m.alive)

-----------------------------------------------------------------------------
(* Statements. *)

(* What a statement can name: a variable, and an item of a variable's list. *)
Named(m) == Vars \cup ({m.held[v] : v \in Vars} \ {NULL}) \X (1..Size)

(* Naming a variable clears the flag of the list it holds. *)
Load(m, p) ==
    [m EXCEPT !.lNewRef = @ \ {IF p \in Vars THEN m.held[p] ELSE p[1]}]

(* p = [..] *)
NewList(p) ==
    LET m == Emptied(Load(mem, p), p)
    IN  /\ m.alive # Lists
        /\ mem' = WithNew(m, p, Fresh(m))

(* p = 0 *)
SetNumber(p) ==
    /\ mem.held[p] # NULL
    /\ mem' = Emptied(Load(mem, p), p)

(* The scope of a local variable ends. *)
EndScope(v) ==
    /\ mem.held[v] # NULL
    /\ mem' = Emptied(mem, v)

(* Ref(q) whose result is not used. *)
Ref(q) ==
    /\ mem.held[q] # NULL
    /\ mem' = [Load(mem, q) EXCEPT !.lNewRef = @ \cup {mem.held[q]}]

(* The list in an item leads back to the item, which still has it while    *)
(* the search for cycles counts it: the list with the item is freed, or a  *)
(* cycle stays that the item alone kept.                                   *)
LinksCycle(m, p, freed) ==
    /\ p \in Items /\ m.held[p] # NULL
    /\ \/ p[1] \notin freed.alive
       \/ /\ p[1] \in ReachedFrom(m, {m.held[p]}) \ {m.held[p]}
          /\ ContainsSublist([m EXCEPT !.held[p] = NULL], m.held[p], m.held[p])

(* p = Ref(q), or p = q for a list that has references already: the flag   *)
(* is cleared, the old value goes, and the list gets its place.  A list    *)
(* that only the old value keeps is deleted with it.                       *)
AssignRef(p, q, newRef) ==
    LET l == mem.held[q]
        loaded == Load(Load(mem, p), q)
        freed == Released([loaded EXCEPT !.lNewRef = @ \ {l}], p)
    IN  /\ l # NULL
        /\ newRef \/ IsRef(loaded, l)
        /\ IF mem.held[p] = l
           THEN mem' = IF newRef THEN [loaded EXCEPT !.lNewRef = @ \cup {l}] ELSE loaded
           ELSE /\ l \in freed.alive \/ "inner" \in Programs
                /\ ~LinksCycle(loaded, p, freed) \/ "own_cycle" \in Programs
                /\ mem' = WithRef(freed, p, l)

(* v = q for one that has none: a copy is made first. *)
AssignCopy(v, q) ==
    LET l == mem.held[q]
        m == Load(Load(mem, v), q)
        new == Fresh(m)
        made == [m EXCEPT !.alive = @ \cup {new}]
    IN  /\ l # NULL
        /\ mem.held[v] # l
        /\ ~IsRef(m, l)
        /\ m.alive # Lists
        /\ RoomToCopy(made, l)
        /\ mem' = WithNew(Emptied(ListCopy(made, m, new, l), v), v, new)

(* i = q for one that has none: the items of the list in i are replaced,   *)
(* for all that share that list.  Not while they lead back to the list: it *)
(* would be searched for cycles with its items half deleted.               *)
OverwriteItem(i, q) ==
    LET l == mem.held[q]
        old == mem.held[i]
        m == Load(Load(mem, i), q)
        gone == DeleteAllItems(m, old)
    IN  /\ l # NULL /\ old # NULL /\ old # l
        /\ ~IsRef(m, l)
        /\ ~ContainsSublist(m, old, old)
        /\ l \in gone.alive
        /\ RoomToCopy(gone, l)
        /\ mem' = ListCopy(gone, gone, old, l)

(* ring_vm_freetemplists(): the last entry first.  One that was made a     *)
(* reference again while it waited is entered again.                       *)
FreeTempLists ==
    LET free(m, x) == LET n == DeleteRef(m, mem.pDeleteLater[x])
                      IN  [n EXCEPT !.pDeleteLater = RemoveAt(@, x)]
        entries == Len(mem.pDeleteLater)
    IN  /\ entries > 0
        /\ mem' = FoldLeft(free, mem, [x \in 1..entries |-> entries + 1 - x])

Next ==
    \/ \E p \in Named(mem) : NewList(p) \/ SetNumber(p) \/ Ref(p)
    \/ \E v \in Vars : EndScope(v)
    \/ \E p, q \in Named(mem), newRef \in BOOLEAN : AssignRef(p, q, newRef)
    \/ \E v \in Vars, q \in Named(mem) : AssignCopy(v, q)
    \/ \E i \in Named(mem) \ Vars, q \in Named(mem) : OverwriteItem(i, q)
    \/ FreeTempLists

Spec == Init /\ [][Next]_mem

-----------------------------------------------------------------------------
TypeOK ==
    mem \in [alive : SUBSET Lists, held : [Places -> Lists \cup {NULL}],
             rc : [Lists -> Nat], lNewRef : SUBSET Lists, pDeleteLater : Seq(Lists)]

InUse == Vars \cup (mem.alive \X (1..Size))

ByVariables(m) == ReachedFrom(m, {m.held[v] : v \in Vars} \ {NULL})

(* No variable, no item of a list in use and no entry of pDeleteLater has  *)
(* a list that was deleted: neither the counts nor the search for cycles   *)
(* give up a list that the program can still reach.                        *)
NoDangling ==
    /\ {mem.held[p] : p \in InUse} \subseteq mem.alive \cup {NULL}
    /\ Range(mem.pDeleteLater) \subseteq mem.alive

(* After every statement the lists in use are those that variables and     *)
(* pDeleteLater reach: a cycle is deleted as soon as its last reference    *)
(* from outside goes, although the search starts at one list only.         *)
NoGarbage ==
    mem.alive = ByVariables(mem) \cup ReachedFrom(mem, Range(mem.pDeleteLater))

(* nReferenceCount is one less than the places and entries that have it.   *)
CountExact ==
    \A l \in mem.alive :
        mem.rc[l] + 1 = Cardinality({p \in InUse : mem.held[p] = l})
                        + Cardinality({x \in 1..Len(mem.pDeleteLater) :
                                           mem.pDeleteLater[x] = l})

(* Giving up a variable, or the lists that wait, changes no list that the  *)
(* program still reaches: the items that are turned into strings to take a *)
(* cycle apart are the cycle's own.                                        *)
OthersKeepItems ==
    [][\/ \A i \in ByVariables(mem') \X (1..Size) : mem'.held[i] = mem.held[i]
       \/ ~(FreeTempLists \/ \E v \in Vars : EndScope(v))]_mem
=============================================================================
