---------------------------- MODULE TrackedRefs ----------------------------
(***************************************************************************)
(* Variables that refer to items of a list, as those of a for-in loop do,  *)
(* when the items of the list lie in one block of memory and the list goes *)
(* away.  An item with a reference outlives its list by its count, but not *)
(* its block: before the block is freed the items that tracked variables   *)
(* refer to are moved out of it, and the variables are given the new place.*)
(***************************************************************************)
EXTENDS Naturals, Sequences, FiniteSets, SequencesExt

CONSTANTS
    Vars,      \* variables that are given references
    Lists,     \* lists that list(n) makes with blocks
    Size,      \* items in each list
    Heap,      \* room for items allocated one by one
    NULL,      \* no reference; no content
    Programs   \* unusual shapes the program may have

Shapes == {"reuse",  \* a variable that lost its tracking gets a new reference
           "rows"}   \* lists of two dimensions: list(n, m)

ASSUME ConstantsAssumption ==
    /\ Size \in Nat
    /\ IsFiniteSet(Vars) /\ IsFiniteSet(Heap)
    /\ Cardinality(Heap) >= Cardinality(Vars)
    /\ Heap \cap (Lists \X (1..Size)) = {} /\ Vars \cap Lists = {}
    /\ NULL \notin Heap \cup (Lists \X (1..Size))
    /\ Programs \subseteq Shapes

VARIABLES
    chain,              \* the items each list holds, in order
    block,              \* each list's block: "none", "live" or "freed"
    rows,               \* the lists whose items are lists of the same block
    ref,                \* the item each variable refers to, or NULL
    pTrackedVariables,  \* variables to look at when a block goes
    lTrackedList,       \* each variable's own flag: it is being tracked
    mem                 \* items: rc counts, content held, heap in use

vars == <<chain, block, rows, ref, pTrackedVariables, lTrackedList, mem>>

-----------------------------------------------------------------------------
BlockItems(l) == {l} \X (1..Size)

Items == (Lists \X (1..Size)) \cup Heap

(* No list with a block and no tracked variable yet. *)
Init ==
    /\ chain = [l \in Lists |-> <<>>]
    /\ block = [l \in Lists |-> "none"]
    /\ rows = {}
    /\ ref = [v \in Vars |-> NULL]
    /\ pTrackedVariables = <<>>
    /\ lTrackedList = [v \in Vars |-> FALSE]
    /\ mem = [rc |-> [i \in Items |-> 0], held |-> [i \in Items |-> NULL], heap |-> {}]

-----------------------------------------------------------------------------
(* Counting references. *)

(* Variant: an item with one reference left is taken for the list's own. *)
DeleteItemEarly(m, i) ==
    IF m.rc[i] <= 1 THEN [m EXCEPT !.held[i] = NULL, !.heap = @ \ {i}]
                    ELSE [m EXCEPT !.rc[i] = @ - 1]

(* Variant: the count is decreased whoever is left. *)
DeleteItemUnchecked(m, i) == [m EXCEPT !.rc[i] = @ - 1]

(* ring_vm_gc_deleteitem() for one thread: a count of zero is one owner. *)
(* What lies in a registered block is not freed by itself.               *)
DeleteItem(m, i) ==
    IF m.rc[i] = 0 THEN [m EXCEPT !.held[i] = NULL, !.heap = @ \ {i}]
                   ELSE [m EXCEPT !.rc[i] = @ - 1]

(* ring_list_deleteallitems_gc(): an item is in its list once. *)
DeleteItems(m, s) ==
    [rc   |-> [i \in Items |-> IF i \in Range(s) THEN DeleteItem(m, i).rc[i] ELSE m.rc[i]],
     held |-> [i \in Items |-> IF i \in Range(s) THEN DeleteItem(m, i).held[i] ELSE m.held[i]],
     heap |-> {i \in m.heap : i \in Range(s) => i \in DeleteItem(m, i).heap}]

(* Variant: the reference that a variable had is forgotten. *)
ReleaseNothing(m, v) == m

(* The item that a variable refers to loses this reference. *)
Release(m, v) == IF ref[v] = NULL THEN m ELSE DeleteItem(m, ref[v])

(* The elements of s at some places, in their order. *)
Subsequence(s, places) ==
    LET nth(x) == CHOOSE p \in places : Cardinality({q \in places : q <= p}) = x
    IN  [x \in 1..Cardinality(places) |-> s[nth(x)]]

(* ring_vm_gc_checknewreference(): the flag decides, not the list. *)
Track(v) ==
    /\ lTrackedList' = [lTrackedList EXCEPT ![v] = TRUE]
    /\ pTrackedVariables' = IF lTrackedList[v] THEN pTrackedVariables
                                               ELSE Append(pTrackedVariables, v)

(* ring_vm_setreference(), or a list item passed as a parameter. *)
SetReference(v, l, x) ==
    LET i == chain[l][x]
        m == Release(mem, v)
    IN  /\ \/ "reuse" \in Programs
           \/ lTrackedList[v] => v \in Range(pTrackedVariables)
        /\ mem' = [m EXCEPT !.rc[i] = @ + 1]
        /\ ref' = [ref EXCEPT ![v] = i]
        /\ Track(v)
        /\ UNCHANGED <<chain, block, rows>>

(* ring_vm_gc_killreference(): at the end of a loop, or when it starts over. *)
KillReference(v) ==
    /\ ref[v] # NULL
    /\ mem' = Release(mem, v)
    /\ ref' = [ref EXCEPT ![v] = NULL]
    /\ UNCHANGED <<chain, block, rows, pTrackedVariables, lTrackedList>>

(* The variable's scope ends: ring_vm_gc_removetrack(), then its content. *)
EndScope(v) ==
    /\ lTrackedList[v]
    /\ pTrackedVariables' = Subsequence(pTrackedVariables,
                                {x \in DOMAIN pTrackedVariables : pTrackedVariables[x] # v})
    /\ lTrackedList' = [lTrackedList EXCEPT ![v] = FALSE]
    /\ mem' = Release(mem, v)
    /\ ref' = [ref EXCEPT ![v] = NULL]
    /\ UNCHANGED <<chain, block, rows>>

-----------------------------------------------------------------------------
(* Lists in blocks. *)

(* ring_vm_api_newlistusingblocks() *)
NewListUsingBlocks(l, twoDimensions) ==
    LET items == [x \in 1..Size |-> <<l, x>>]
    IN  /\ block[l] # "live"
        /\ twoDimensions => "rows" \in Programs
        /\ block' = [block EXCEPT ![l] = "live"]
        /\ chain' = [chain EXCEPT ![l] = items]
        /\ rows' = (IF twoDimensions THEN rows \cup {l} ELSE rows)
        /\ mem' = [mem EXCEPT !.held = [i \in Items |->
                                            IF i \in BlockItems(l) THEN i ELSE @[i]]]
        /\ UNCHANGED <<ref, pTrackedVariables, lTrackedList>>

(* ring_list_deleteitem_gc() *)
DeleteListItem(l, x) ==
    /\ mem' = DeleteItem(mem, chain[l][x])
    /\ chain' = [chain EXCEPT ![l] = RemoveAt(@, x)]
    /\ UNCHANGED <<block, rows, ref, pTrackedVariables, lTrackedList>>

(* The items of a block that tracked variables refer to. *)
ToMove(l) == {ref[v] : v \in Range(pTrackedVariables)} \cap BlockItems(l)

(* Where each of them goes. *)
NewPlaces(l, m) ==
    CHOOSE to \in [ToMove(l) -> Heap \ m.heap] :
        \A i, j \in ToMove(l) : to[i] = to[j] => i = j

(* The new item takes everything of the old one, its count included. *)
Moved(m, to) ==
    LET old(i) == CHOOSE j \in DOMAIN to : to[j] = i
    IN  [rc   |-> [i \in Items |-> IF i \in Range(to) THEN m.rc[old(i)]
                                   ELSE IF i \in DOMAIN to THEN 0 ELSE m.rc[i]],
         held |-> [i \in Items |-> IF i \in Range(to) THEN m.held[old(i)]
                                   ELSE IF i \in DOMAIN to THEN NULL ELSE m.held[i]],
         heap |-> m.heap \cup Range(to)]

(* A variable is the one that an item is moved for if no earlier variable  *)
(* of the list refers to the same item.                                    *)
MovedFor(x) ==
    \A y \in 1..x - 1 : ref[pTrackedVariables[y]] # ref[pTrackedVariables[x]]

(* Variant: only the variable that an item is moved for is told. *)
FirstFollows(to) ==
    [v \in Vars |-> IF \E x \in 1..Len(pTrackedVariables) :
                            /\ pTrackedVariables[x] = v /\ MovedFor(x)
                            /\ ref[v] \in DOMAIN to
                    THEN to[ref[v]] ELSE ref[v]]

(* Every tracked variable that refers to the old place gets the new one. *)
Follow(to) ==
    [v \in Vars |-> IF v \in Range(pTrackedVariables) /\ ref[v] \in DOMAIN to
                    THEN to[ref[v]] ELSE ref[v]]

(* Those for which the item was not moved are taken out of the list; their *)
(* flag stays set.                                                         *)
TrackedAfter(to) ==
    Subsequence(pTrackedVariables,
                {x \in DOMAIN pTrackedVariables :
                     ref[pTrackedVariables[x]] \in DOMAIN to => MovedFor(x)})

(* ring_list_deleteallitems_gc() and ring_list_finishdelete_gc(), with     *)
(* ring_state_willunregisterblock().                                       *)
DeleteList(l) ==
    LET m == DeleteItems(mem, chain[l])
        to == NewPlaces(l, m)
    IN  /\ block[l] = "live"
        /\ mem' = Moved(m, to)
        /\ ref' = Follow(to)
        /\ pTrackedVariables' = TrackedAfter(to)
        /\ chain' = [chain EXCEPT ![l] = <<>>]
        /\ block' = [block EXCEPT ![l] = "freed"]
        /\ UNCHANGED <<rows, lTrackedList>>

-----------------------------------------------------------------------------
Next ==
    \/ \E v \in Vars, l \in Lists :
           \E x \in 1..Len(chain[l]) : SetReference(v, l, x)
    \/ \E v \in Vars : KillReference(v) \/ EndScope(v)
    \/ \E l \in Lists, twoDimensions \in BOOLEAN : NewListUsingBlocks(l, twoDimensions)
    \/ \E l \in Lists : DeleteList(l)
    \/ \E l \in Lists : \E x \in 1..Len(chain[l]) : DeleteListItem(l, x)

Spec == Init /\ [][Next]_vars

-----------------------------------------------------------------------------
Contents == (Lists \X (1..Size)) \cup {NULL}

TypeOK ==
    /\ chain \in [Lists -> Seq(Lists \X (1..Size))]
    /\ block \in [Lists -> {"none", "live", "freed"}]
    /\ rows \subseteq Lists
    /\ ref \in [Vars -> Items \cup {NULL}]
    /\ pTrackedVariables \in Seq(Vars)
    /\ lTrackedList \in [Vars -> BOOLEAN]
    /\ mem \in [rc : [Items -> Nat], held : [Items -> Contents], heap : SUBSET Heap]

(* The memory of an item, and of a row that an item of a list of two       *)
(* dimensions holds, is there as long as the list's block or the item is.  *)
ItemThere(i) == IF i \in Heap THEN i \in mem.heap ELSE block[i[1]] = "live"

RowThere(i) == mem.held[i] # NULL /\ mem.held[i][1] \in rows
                    => block[mem.held[i][1]] = "live"

(* A variable never refers to memory that was freed, whatever happened to  *)
(* the list its item was in: ring_state_willunregisterblock() has moved    *)
(* the item before the block goes.                                         *)
NoDangling == \A v \in Vars : ref[v] # NULL => ItemThere(ref[v]) /\ RowThere(ref[v])

Owners(i) == {v \in Vars : ref[v] = i} \cup {l \in Lists : i \in Range(chain[l])}

(* nGCReferenceCount is one less than the number of lists and variables    *)
(* that own the item, before and after it is moved; an item allocated for  *)
(* the move goes with its last owner.                                      *)
CountExact ==
    \A i \in Items :
        IF Owners(i) = {} THEN mem.rc[i] = 0 /\ mem.held[i] = NULL /\ i \notin mem.heap
                          ELSE mem.rc[i] = Cardinality(Owners(i)) - 1 /\ mem.held[i] # NULL

(* Deleting a list changes nothing for the variables that refer to its     *)
(* items: what each one refers to is still there, and variables that       *)
(* shared an item share it still.                                          *)
MovedTogether ==
    [][(\E l \in Lists : DeleteList(l)) =>
           \A v \in Vars : ref[v] # NULL =>
               /\ mem'.held[ref'[v]] = mem.held[ref[v]]
               /\ \A w \in Vars : (ref[v] = ref[w]) <=> (ref'[v] = ref'[w])]_vars
=============================================================================
