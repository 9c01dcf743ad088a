------------------------- MODULE TrackedRefsProofs -------------------------
(***************************************************************************)
(* Proofs about TrackedRefs, for variables, lists and blocks of any        *)
(* number, as long as no variable gets a reference after it lost its       *)
(* tracking.                                                               *)
(*                                                                         *)
(* Counting is about owners: giving up one and gaining one change the      *)
(* count of one item (OneOwnerLess, OneOwnerMore), and moving items out of *)
(* a block moves their owners along.  There is room for the move because   *)
(* every item outside the blocks, and every item to move, is owned by a    *)
(* variable (RoomToMove); everything in a block that a variable refers to  *)
(* is moved because the variable is in pTrackedVariables.                  *)
(***************************************************************************)
EXTENDS TrackedRefs, TLAPS, FiniteSetTheorems

-----------------------------------------------------------------------------
(* Sequences. *)

LEMMA RemovedAt ==
    ASSUME NEW S, NEW s \in Seq(S), NEW x \in 1..Len(s)
    PROVE  /\ RemoveAt(s, x) \in Seq(S)
           /\ Len(RemoveAt(s, x)) = Len(s) - 1
           /\ \A k \in 1..Len(s) - 1 :
                  RemoveAt(s, x)[k] = IF k < x THEN s[k] ELSE s[k + 1]
<1> DEFINE a == SubSeq(s, 1, x - 1)
           b == SubSeq(s, x + 1, Len(s))
<1>1. a \in Seq(S) /\ Len(a) = x - 1 /\ \A k \in 1..x - 1 : a[k] = s[k]
  OBVIOUS
<1>2. b \in Seq(S) /\ Len(b) = Len(s) - x /\ \A k \in 1..Len(s) - x : b[k] = s[x + k]
  OBVIOUS
<1>3. RemoveAt(s, x) = a \o b
  BY DEF RemoveAt
<1> HIDE DEF a, b
<1>4. a \o b \in Seq(S) /\ Len(a \o b) = Len(s) - 1
  <2>1. Len(s) \in Nat /\ (x - 1) + (Len(s) - x) = Len(s) - 1
    OBVIOUS
  <2>2. \A c, d \in Seq(S) : c \o d \in Seq(S) /\ Len(c \o d) = Len(c) + Len(d)
    OBVIOUS
  <2> QED BY <1>1, <1>2, <2>1, <2>2
<1>5. ASSUME NEW k \in 1..Len(s) - 1 PROVE (a \o b)[k] = IF k < x THEN s[k] ELSE s[k + 1]
  <2>1. CASE k < x
    BY <1>1, <1>2, <2>1
  <2>2. CASE ~(k < x)
    <3>1. k - (x - 1) \in 1..Len(s) - x /\ x + (k - (x - 1)) = k + 1
      BY <2>2
    <3>2. (a \o b)[k] = b[k - (x - 1)]
      BY <1>1, <1>2, <2>2
    <3> QED BY <1>2, <2>2, <3>1, <3>2
  <2> QED BY <2>1, <2>2
<1> QED BY <1>3, <1>4, <1>5

(* How many of a set of places are not after p. *)
Rank(places, p) == Cardinality({q \in places : q <= p})

LEMMA RankIsPlace ==
    ASSUME NEW n \in Nat, NEW places \in SUBSET (1..n)
    PROVE  /\ Cardinality(places) \in Nat
           /\ \A p \in places : Rank(places, p) \in 1..Cardinality(places)
           /\ \A p, q \in places : Rank(places, p) = Rank(places, q) => p = q
           /\ \A x \in 1..Cardinality(places) : \E p \in places : Rank(places, p) = x
<1> DEFINE upto(p) == {q \in places : q <= p}
<1>1. IsFiniteSet(places) /\ Cardinality(places) \in Nat
  <2>1. IsFiniteSet(1..n)
    BY FS_Interval
  <2>2. IsFiniteSet(places)
    BY <2>1, FS_Subset
  <2> QED BY <2>2, FS_CardinalityType
<1>2. ASSUME NEW p \in places
      PROVE  IsFiniteSet(upto(p)) /\ Cardinality(upto(p)) \in 1..Cardinality(places)
  <2>1. upto(p) \in SUBSET places /\ p \in upto(p)
    OBVIOUS
  <2> HIDE DEF upto
  <2>2. IsFiniteSet(upto(p)) /\ Cardinality(upto(p)) <= Cardinality(places)
    BY <1>1, <2>1, FS_Subset
  <2>3. Cardinality(upto(p)) \in Nat /\ Cardinality(upto(p)) # 0
    BY <2>1, <2>2, FS_CardinalityType, FS_EmptySet
  <2> QED BY <1>1, <2>2, <2>3
<1>3. ASSUME NEW p \in places, NEW q \in places, p < q
      PROVE  Cardinality(upto(p)) # Cardinality(upto(q))
  <2>1. p \in Int /\ q \in Int /\ \A r \in places : r \in Int
    OBVIOUS
  <2>2. upto(p) \in SUBSET upto(q)
    <3>1. \A r \in places : r <= p => r <= q
      BY <1>3, <2>1
    <3> QED BY <3>1
  <2>3. q \in upto(q) /\ q \notin upto(p)
    BY <1>3, <2>1
  <2> HIDE DEF upto
  <2> QED BY <1>2, <2>2, <2>3, FS_Subset
<1>4. ASSUME NEW p \in places, NEW q \in places, Cardinality(upto(p)) = Cardinality(upto(q))
      PROVE  p = q
  <2>1. p \in Int /\ q \in Int
    OBVIOUS
  <2> HIDE DEF upto
  <2> QED BY <1>3, <1>4, <2>1
<1> DEFINE N == Cardinality(places)
           f == [p \in places |-> Cardinality(upto(p))]
<1>5. f \in Injection(places, 1..N)
  <2> HIDE DEF upto
  <2>1. f \in [places -> 1..N]
    BY <1>2
  <2>2. IsInjective(f)
    BY <1>4 DEF IsInjective
  <2> QED BY <2>1, <2>2 DEF Injection
<1>6. IsFiniteSet(1..N) /\ Cardinality(1..N) = N
  BY <1>1, FS_Interval
<1>7. f \in Surjection(places, 1..N)
  <2> HIDE DEF f
  <2> QED BY <1>5, <1>6, FS_Injection
<1>8. \A x \in 1..N : \E p \in places : f[p] = x
  <2> HIDE DEF f
  <2> QED BY <1>7 DEF Surjection
<1>9. \A p \in places : f[p] = Rank(places, p)
  BY DEF Rank
<1> HIDE DEF f, upto
<1>10. \A p \in places : Rank(places, p) = Cardinality(upto(p))
  BY DEF Rank, upto
<1> QED BY <1>1, <1>2, <1>4, <1>8, <1>9, <1>10

LEMMA SubsequenceIs ==
    ASSUME NEW S, NEW s \in Seq(S), NEW places \in SUBSET (DOMAIN s)
    PROVE  /\ Subsequence(s, places) \in Seq(S)
           /\ Range(Subsequence(s, places)) = {s[p] : p \in places}
           /\ IsInjective(s) => IsInjective(Subsequence(s, places))
<1> DEFINE N == Cardinality(places)
           nth(x) == CHOOSE p \in places : Cardinality({q \in places : q <= p}) = x
           t == Subsequence(s, places)
<1>1. /\ N \in Nat
      /\ \A p \in places : Rank(places, p) \in 1..N
      /\ \A p, q \in places : Rank(places, p) = Rank(places, q) => p = q
      /\ \A x \in 1..N : \E p \in places : Rank(places, p) = x
  <2>1. places \in SUBSET (1..Len(s)) /\ Len(s) \in Nat
    OBVIOUS
  <2> QED BY <2>1, RankIsPlace
<1>2. ASSUME NEW x \in 1..N PROVE nth(x) \in places /\ Rank(places, nth(x)) = x
  BY <1>1 DEF Rank
<1>3. ASSUME NEW p \in places PROVE nth(Rank(places, p)) = p
  BY <1>1, <1>2
<1>4. t = [x \in 1..N |-> s[nth(x)]]
  BY DEF Subsequence
<1> HIDE DEF t, nth
<1>5. ASSUME NEW x \in 1..N PROVE nth(x) \in DOMAIN s /\ s[nth(x)] \in S
  <2>1. nth(x) \in DOMAIN s
    BY <1>2
  <2> HIDE DEF N
  <2> QED BY <2>1
<1>6. t \in Seq(S) /\ DOMAIN t = 1..N
  <2> HIDE DEF N
  <2> QED BY <1>1, <1>4, <1>5
<1>7. Range(t) = {s[p] : p \in places}
  <2>1. ASSUME NEW x \in DOMAIN t PROVE t[x] \in {s[p] : p \in places}
    BY <1>2, <1>4, <1>6
  <2>2. ASSUME NEW p \in places PROVE \E x \in DOMAIN t : t[x] = s[p]
    <3>1. Rank(places, p) \in 1..N /\ t[Rank(places, p)] = s[p]
      BY <1>1, <1>3, <1>4
    <3> QED BY <1>6, <3>1
  <2> QED BY <2>1, <2>2 DEF Range
<1>8. ASSUME IsInjective(s) PROVE IsInjective(t)
  <2>1. ASSUME NEW x \in 1..N, NEW y \in 1..N, t[x] = t[y] PROVE x = y
    <3>1. s[nth(x)] = s[nth(y)]
      BY <1>4, <2>1
    <3>2. nth(x) = nth(y)
      BY <1>5, <1>8, <3>1 DEF IsInjective
    <3> QED BY <1>2, <3>2
  <2> QED BY <1>6, <2>1 DEF IsInjective
<1> QED BY <1>6, <1>7, <1>8 DEF t

-----------------------------------------------------------------------------
(* The inductive invariant. *)

PlacesInBlocks == Lists \X (1..Size)

Memory == [rc : [Items -> Nat], held : [Items -> Contents], heap : SUBSET Heap]

(* The count of each item is one less than the number of its owners, of    *)
(* which own says who they are.                                            *)
Exact(m, own) ==
    \A i \in Items :
        /\ IsFiniteSet(own[i])
        /\ own[i] = {} => m.rc[i] = 0 /\ m.held[i] = NULL /\ i \notin m.heap
        /\ own[i] # {} => /\ m.rc[i] = Cardinality(own[i]) - 1
                          /\ m.held[i] # NULL
                          /\ i \in Heap => i \in m.heap

Own == [i \in Items |-> Owners(i)]

(* A list holds items of its block, each once, and none without a block. *)
ChainsInBlocks ==
    \A l \in Lists :
        /\ Range(chain[l]) \subseteq BlockItems(l)
        /\ IsInjective(chain[l])
        /\ block[l] # "live" => chain[l] = <<>>

(* A variable that refers to an item of a block will be looked at before   *)
(* the block is freed, and is in the list of those once.                   *)
InTracked ==
    /\ IsInjective(pTrackedVariables)
    /\ \A v \in Range(pTrackedVariables) : lTrackedList[v]
    /\ \A v \in Vars : ref[v] \in PlacesInBlocks => v \in Range(pTrackedVariables)

BlockThere == \A v \in Vars : ref[v] \in PlacesInBlocks => block[ref[v][1]] = "live"

RowsAllowed == "rows" \notin Programs => rows = {}

IInv == TypeOK /\ ChainsInBlocks /\ InTracked /\ BlockThere /\ Exact(mem, Own) /\ RowsAllowed

LEMMA Disjoint ==
    /\ IsFiniteSet(Vars) /\ IsFiniteSet(Heap)
    /\ Items = PlacesInBlocks \cup Heap
    /\ Heap \cap PlacesInBlocks = {} /\ NULL \notin Items /\ Vars \cap Lists = {}
    /\ \A l \in Lists : BlockItems(l) \subseteq PlacesInBlocks
    /\ \A i \in PlacesInBlocks : i[1] \in Lists /\ i \in BlockItems(i[1])
    /\ \A l \in Lists : \A i \in BlockItems(l) : i[1] = l
BY ConstantsAssumption DEF PlacesInBlocks, Items, BlockItems

(* CountExact says less: nothing of the memory of an item on its own. *)
LEMMA ExactIsCountExact == Exact(mem, Own) => CountExact
BY DEF Exact, Own, CountExact

LEMMA NeverFreed == IInv /\ Programs = {} => NoDangling
<1> SUFFICES ASSUME IInv, Programs = {}, NEW v \in Vars, ref[v] # NULL
             PROVE  ItemThere(ref[v]) /\ RowThere(ref[v])
  BY DEF NoDangling
<1>1. ref[v] \in Items
  BY DEF IInv, TypeOK
<1>2. v \in Own[ref[v]]
  BY <1>1 DEF Own, Owners
<1>3. ref[v] \in Heap => ref[v] \in mem.heap
  BY <1>1, <1>2 DEF IInv, Exact
<1>4. ref[v] \notin Heap => block[ref[v][1]] = "live"
  BY <1>1, Disjoint DEF IInv, BlockThere
<1>5. rows = {}
  BY DEF IInv, RowsAllowed
<1> QED BY <1>3, <1>4, <1>5 DEF ItemThere, RowThere

-----------------------------------------------------------------------------
(* Owners come and go. *)

(* ring_vm_gc_deleteitem() *)
LEMMA Deleted ==
    ASSUME NEW m \in Memory, NEW r \in Items
    PROVE  LET d == DeleteItem(m, r) IN
           /\ d.rc \in [Items -> Int] /\ d.held \in [Items -> Contents] /\ d.heap \in SUBSET Heap
           /\ d = [rc |-> d.rc, held |-> d.held, heap |-> d.heap]
           /\ \A i \in Items : d.rc[i] = IF i = r /\ m.rc[r] # 0 THEN m.rc[r] - 1 ELSE m.rc[i]
           /\ \A i \in Items : d.held[i] = IF i = r /\ m.rc[r] = 0 THEN NULL ELSE m.held[i]
           /\ d.heap = IF m.rc[r] = 0 THEN m.heap \ {r} ELSE m.heap
<1>1. NULL \in Contents /\ m.rc[r] \in Nat
  BY DEF Contents, Memory
<1>2. CASE m.rc[r] = 0
  <2>1. DeleteItem(m, r) = [m EXCEPT !.held[r] = NULL, !.heap = @ \ {r}]
    BY <1>2 DEF DeleteItem
  <2>2. /\ m = [rc |-> m.rc, held |-> m.held, heap |-> m.heap]
        /\ m.rc \in [Items -> Nat] /\ m.held \in [Items -> Contents] /\ m.heap \in SUBSET Heap
    BY DEF Memory
  <2>3. DeleteItem(m, r) =
            [rc |-> m.rc, held |-> [m.held EXCEPT ![r] = NULL], heap |-> m.heap \ {r}]
    BY <2>1, <2>2
  <2> QED BY <1>1, <1>2, <2>2, <2>3
<1>3. CASE m.rc[r] # 0
  <2>1. DeleteItem(m, r) = [m EXCEPT !.rc[r] = @ - 1]
    BY <1>3 DEF DeleteItem
  <2> QED BY <1>1, <1>3, <2>1 DEF Memory
<1> QED BY <1>2, <1>3

(* One owner of r less. *)
Gone(own, r, w) == [i \in Items |-> IF i = r THEN own[r] \ {w} ELSE own[i]]

LEMMA OneOwnerLess ==
    ASSUME NEW W, NEW own \in [Items -> SUBSET W], NEW m \in Memory, Exact(m, own),
           NEW r \in Items, NEW w \in own[r]
    PROVE  /\ DeleteItem(m, r) \in Memory
           /\ Exact(DeleteItem(m, r), Gone(own, r, w))
           /\ Gone(own, r, w)[r] # {} =>
                  DeleteItem(m, r).held = m.held /\ DeleteItem(m, r).heap = m.heap
<1> DEFINE d == DeleteItem(m, r)
           less == Gone(own, r, w)
           N == Cardinality(own[r])
<1>1. /\ IsFiniteSet(own[r]) /\ N \in Nat /\ N # 0 /\ m.rc[r] = N - 1
      /\ IsFiniteSet(own[r] \ {w}) /\ Cardinality(own[r] \ {w}) = N - 1
      /\ own[r] \ {w} = {} <=> N = 1
  <2>1. IsFiniteSet(own[r]) /\ m.rc[r] = N - 1
    BY DEF Exact
  <2>2. N \in Nat /\ N # 0
    BY <2>1, FS_CardinalityType, FS_EmptySet
  <2>3. IsFiniteSet(own[r] \ {w}) /\ Cardinality(own[r] \ {w}) = N - 1
    BY <2>1, FS_RemoveElement
  <2> HIDE DEF N
  <2> QED BY <2>1, <2>2, <2>3, FS_EmptySet
<1>2. /\ d.rc \in [Items -> Int] /\ d.held \in [Items -> Contents] /\ d.heap \in SUBSET Heap
      /\ d = [rc |-> d.rc, held |-> d.held, heap |-> d.heap]
      /\ \A i \in Items : d.rc[i] = IF i = r /\ m.rc[r] # 0 THEN m.rc[r] - 1 ELSE m.rc[i]
      /\ \A i \in Items : d.held[i] = IF i = r /\ m.rc[r] = 0 THEN NULL ELSE m.held[i]
      /\ d.heap = IF m.rc[r] = 0 THEN m.heap \ {r} ELSE m.heap
  BY Deleted
<1> HIDE DEF d, N
<1>3. m.rc \in [Items -> Nat] /\ m.held \in [Items -> Contents]
  BY DEF Memory
<1>4. d \in Memory
  <2>1. \A i \in Items : d.rc[i] \in Nat
    BY <1>1, <1>2, <1>3
  <2>2. d.rc \in [Items -> Nat]
    BY <1>2, <2>1
  <2> QED BY <1>2, <2>2 DEF Memory
<1>5. Exact(d, less)
  <2> SUFFICES ASSUME NEW i \in Items
               PROVE  /\ IsFiniteSet(less[i])
                      /\ less[i] = {} => d.rc[i] = 0 /\ d.held[i] = NULL /\ i \notin d.heap
                      /\ less[i] # {} => /\ d.rc[i] = Cardinality(less[i]) - 1
                                         /\ d.held[i] # NULL
                                         /\ i \in Heap => i \in d.heap
    BY DEF Exact
  <2>1. CASE i = r
    <3>1. less[i] = own[r] \ {w}
      BY <2>1 DEF Gone
    <3>2. m.held[r] # NULL /\ (r \in Heap => r \in m.heap)
      BY DEF Exact
    <3> HIDE DEF less
    <3>3. CASE N = 1
      BY <1>1, <1>2, <2>1, <3>1, <3>3
    <3>4. CASE N # 1
      BY <1>1, <1>2, <2>1, <3>1, <3>2, <3>4
    <3> QED BY <3>3, <3>4
  <2>2. CASE i # r
    <3>1. less[i] = own[i]
      BY <2>2 DEF Gone
    <3>2. d.rc[i] = m.rc[i] /\ d.held[i] = m.held[i] /\ (i \in d.heap <=> i \in m.heap)
      BY <1>2, <2>2
    <3> HIDE DEF less
    <3> QED BY <3>1, <3>2 DEF Exact
  <2> QED BY <2>1, <2>2
<1>6. less[r] # {} => d.held = m.held /\ d.heap = m.heap
  <2>1. less[r] = own[r] \ {w}
    BY DEF Gone
  <2> HIDE DEF less
  <2> QED BY <1>1, <1>2, <1>3, <2>1
<1> QED BY <1>4, <1>5, <1>6 DEF d

LEMMA OneOwnerMore ==
    ASSUME NEW W, NEW own \in [Items -> SUBSET W], NEW m \in Memory, Exact(m, own),
           NEW i \in Items, own[i] # {}, NEW w, w \notin own[i]
    PROVE  /\ [m EXCEPT !.rc[i] = @ + 1] \in Memory
           /\ Exact([m EXCEPT !.rc[i] = @ + 1],
                    [j \in Items |-> IF j = i THEN own[i] \cup {w} ELSE own[j]])
<1> DEFINE d == [m EXCEPT !.rc[i] = @ + 1]
           more == [j \in Items |-> IF j = i THEN own[i] \cup {w} ELSE own[j]]
<1>1. m.rc \in [Items -> Nat]
  BY DEF Memory
<1>2. /\ d.held = m.held /\ d.heap = m.heap /\ d \in Memory
      /\ \A j \in Items : d.rc[j] = IF j = i THEN m.rc[i] + 1 ELSE m.rc[j]
  BY DEF Memory
<1> HIDE DEF d
<1>3. /\ IsFiniteSet(own[i]) /\ Cardinality(own[i]) \in Nat
      /\ IsFiniteSet(own[i] \cup {w}) /\ Cardinality(own[i] \cup {w}) = Cardinality(own[i]) + 1
  <2>1. IsFiniteSet(own[i])
    BY DEF Exact
  <2> QED BY <2>1, FS_CardinalityType, FS_AddElement
<1>4. Exact(d, more)
  <2> SUFFICES ASSUME NEW j \in Items
               PROVE  /\ IsFiniteSet(more[j])
                      /\ more[j] = {} => d.rc[j] = 0 /\ d.held[j] = NULL /\ j \notin d.heap
                      /\ more[j] # {} => /\ d.rc[j] = Cardinality(more[j]) - 1
                                         /\ d.held[j] # NULL
                                         /\ j \in Heap => j \in d.heap
    BY DEF Exact
  <2>1. CASE j = i
    <3>1. more[j] = own[i] \cup {w}
      BY <2>1
    <3>2. m.rc[i] = Cardinality(own[i]) - 1 /\ m.held[i] # NULL /\ (i \in Heap => i \in m.heap)
      BY DEF Exact
    <3> HIDE DEF more
    <3>3. d.rc[j] = Cardinality(more[j]) - 1
      BY <1>1, <1>2, <1>3, <2>1, <3>1, <3>2
    <3> QED BY <1>2, <1>3, <2>1, <3>1, <3>2, <3>3
  <2>2. CASE j # i
    <3>1. more[j] = own[j] /\ d.rc[j] = m.rc[j]
      BY <1>2, <2>2
    <3> HIDE DEF more
    <3> QED BY <1>2, <3>1 DEF Exact
  <2> QED BY <2>1, <2>2
<1> QED BY <1>2, <1>4 DEF d

-----------------------------------------------------------------------------
(* The invariant is inductive. *)

LEMMA InitIInv == Init => IInv
<1> SUFFICES ASSUME Init PROVE IInv
  OBVIOUS
<1> USE DEF Init
<1>1. TypeOK
  BY Disjoint DEF TypeOK, Contents
<1>2. ChainsInBlocks /\ InTracked /\ BlockThere /\ RowsAllowed
  BY Disjoint DEF ChainsInBlocks, InTracked, BlockThere, RowsAllowed, Range, IsInjective
<1>3. ASSUME NEW i \in Items PROVE Own[i] = {}
  BY Disjoint DEF Own, Owners, Range
<1>4. Exact(mem, Own)
  BY <1>3, FS_EmptySet DEF Exact
<1> QED BY <1>1, <1>2, <1>4 DEF IInv

(* The owners of an item. *)
LEMMA OwnIs ==
    ASSUME IInv
    PROVE  /\ Own \in [Items -> SUBSET (Vars \cup Lists)] /\ mem \in Memory
           /\ \A i \in Items, v \in Vars : v \in Own[i] <=> ref[v] = i
           /\ \A i \in Items, l \in Lists : l \in Own[i] <=> i \in Range(chain[l])
           /\ \A l \in Lists : \A i \in Range(chain[l]) : i \in Items /\ i[1] = l /\ l \in Own[i]
           /\ \A l \in Lists : \A x \in 1..Len(chain[l]) :
                  chain[l][x] \in Range(chain[l]) /\ chain[l][x] \in Items
<1>1. Own \in [Items -> SUBSET (Vars \cup Lists)]
  BY DEF Own, Owners
<1>2. mem \in Memory
  BY DEF IInv, TypeOK, Memory
<1>3. \A i \in Items, v \in Vars : v \in Own[i] <=> ref[v] = i
  BY Disjoint DEF Own, Owners
<1>4. \A i \in Items, l \in Lists : l \in Own[i] <=> i \in Range(chain[l])
  BY Disjoint DEF Own, Owners
<1>5. ASSUME NEW l \in Lists, NEW i \in Range(chain[l]) PROVE i \in Items /\ i[1] = l
  BY Disjoint DEF IInv, ChainsInBlocks
<1>6. ASSUME NEW l \in Lists, NEW x \in 1..Len(chain[l]) PROVE chain[l][x] \in Range(chain[l])
  <2>1. chain[l] \in Seq(PlacesInBlocks)
    BY DEF IInv, TypeOK, PlacesInBlocks
  <2> QED BY <2>1 DEF Range
<1> QED BY <1>1, <1>2, <1>3, <1>4, <1>5, <1>6

(* The owners once v has given up what it refers to. *)
Without(v) == [i \in Items |-> Own[i] \ {v}]

LEMMA Released ==
    ASSUME IInv, NEW v \in Vars
    PROVE  /\ Without(v) \in [Items -> SUBSET (Vars \cup Lists)]
           /\ Release(mem, v) \in Memory
           /\ Exact(Release(mem, v), Without(v))
<1>1. Without(v) \in [Items -> SUBSET (Vars \cup Lists)] /\ mem \in Memory
  BY OwnIs DEF Without
<1>2. CASE ref[v] = NULL
  <2>1. Release(mem, v) = mem
    BY <1>2 DEF Release
  <2>2. \A i \in Items : v \notin Own[i]
    BY <1>2, OwnIs, Disjoint
  <2>3. \A i \in Items : Without(v)[i] = Own[i]
    BY <2>2 DEF Without
  <2>4. Exact(mem, Own)
    BY DEF IInv
  <2>5. Exact(mem, Without(v))
    BY <2>3, <2>4 DEF Exact
  <2> QED BY <1>1, <2>1, <2>5
<1>3. CASE ref[v] # NULL
  <2> DEFINE r == ref[v]
  <2>1. Release(mem, v) = DeleteItem(mem, r)
    BY <1>3 DEF Release
  <2>2. r \in Items /\ v \in Own[r]
    BY <1>3, OwnIs DEF IInv, TypeOK
  <2>3. \A i \in Items : i # r => v \notin Own[i]
    BY OwnIs
  <2>4. Without(v) = Gone(Own, r, v)
    BY <2>3 DEF Without, Gone
  <2>5. Exact(mem, Own) /\ Own \in [Items -> SUBSET (Vars \cup Lists)]
    BY OwnIs DEF IInv
  <2> HIDE DEF r
  <2>6. /\ DeleteItem(mem, r) \in Memory
        /\ Exact(DeleteItem(mem, r), Gone(Own, r, v))
    BY <1>1, <2>2, <2>5, OneOwnerLess
  <2>7. Exact(DeleteItem(mem, r), Without(v))
    BY <2>4, <2>6
  <2> QED BY <1>1, <2>1, <2>6, <2>7
<1> QED BY <1>2, <1>3

(* A variable loses its reference. *)
LEMMA ReferenceGone ==
    ASSUME IInv, NEW v \in Vars,
           mem' = Release(mem, v), ref' = [ref EXCEPT ![v] = NULL],
           UNCHANGED <<chain, block, rows>>
    PROVE  /\ Exact(mem, Own)' /\ ChainsInBlocks' /\ BlockThere' /\ RowsAllowed'
           /\ ref' \in [Vars -> Items \cup {NULL}] /\ mem' \in Memory
           /\ \A w \in Vars : ref'[w] \in PlacesInBlocks => ref'[w] = ref[w] /\ w # v
<1>1. /\ ref' \in [Vars -> Items \cup {NULL}]
      /\ ref'[v] = NULL /\ \A w \in Vars : w # v => ref'[w] = ref[w]
  BY DEF IInv, TypeOK
<1>2. mem' \in Memory /\ Exact(mem', Without(v))
  BY Released
<1>3. ASSUME NEW i \in Items PROVE Own'[i] = Without(v)[i]
  <2>1. \A w \in Vars : ref'[w] = i <=> ref[w] = i /\ w # v
    BY <1>1, Disjoint
  <2>2. Own'[i] = {w \in Vars : ref'[w] = i} \cup {l \in Lists : i \in Range(chain[l])}
    BY DEF Own, Owners
  <2>3. Without(v)[i] = ({w \in Vars : ref[w] = i} \cup {l \in Lists : i \in Range(chain[l])}) \ {v}
    BY DEF Own, Owners, Without
  <2> QED BY <2>1, <2>2, <2>3, Disjoint
<1>4. Exact(mem', Own')
  BY <1>2, <1>3 DEF Exact
<1>5. \A w \in Vars : ref'[w] \in PlacesInBlocks => ref'[w] = ref[w] /\ w # v
  BY <1>1, Disjoint
<1>6. ChainsInBlocks' /\ RowsAllowed' /\ BlockThere'
  BY <1>5 DEF IInv, ChainsInBlocks, RowsAllowed, BlockThere, BlockItems
<1> QED BY <1>1, <1>2, <1>4, <1>5, <1>6 DEF Exact

LEMMA KillReferenceStep == ASSUME IInv, NEW v \in Vars, KillReference(v) PROVE IInv'
<1>1. /\ Exact(mem, Own)' /\ ChainsInBlocks' /\ BlockThere' /\ RowsAllowed'
      /\ ref' \in [Vars -> Items \cup {NULL}] /\ mem' \in Memory
      /\ \A w \in Vars : ref'[w] \in PlacesInBlocks => ref'[w] = ref[w] /\ w # v
  BY ReferenceGone DEF KillReference
<1>2. TypeOK'
  BY <1>1 DEF IInv, TypeOK, KillReference, Memory
<1>3. InTracked'
  BY <1>1 DEF IInv, InTracked, KillReference
<1> QED BY <1>1, <1>2, <1>3 DEF IInv

LEMMA EndScopeStep == ASSUME IInv, NEW v \in Vars, EndScope(v) PROVE IInv'
<1> DEFINE places == {x \in DOMAIN pTrackedVariables : pTrackedVariables[x] # v}
<1>1. /\ Exact(mem, Own)' /\ ChainsInBlocks' /\ BlockThere' /\ RowsAllowed'
      /\ ref' \in [Vars -> Items \cup {NULL}] /\ mem' \in Memory
      /\ \A w \in Vars : ref'[w] \in PlacesInBlocks => ref'[w] = ref[w] /\ w # v
  BY ReferenceGone DEF EndScope
<1>2. /\ pTrackedVariables' \in Seq(Vars)
      /\ Range(pTrackedVariables') = {pTrackedVariables[x] : x \in places}
      /\ IsInjective(pTrackedVariables) => IsInjective(pTrackedVariables')
  <2>1. pTrackedVariables \in Seq(Vars) /\ places \in SUBSET (DOMAIN pTrackedVariables)
    BY DEF IInv, TypeOK
  <2>2. pTrackedVariables' = Subsequence(pTrackedVariables, places)
    BY DEF EndScope
  <2> HIDE DEF places
  <2> QED BY <2>1, <2>2, SubsequenceIs
<1>3. Range(pTrackedVariables') = Range(pTrackedVariables) \ {v}
  BY <1>2 DEF Range
<1>4. TypeOK'
  BY <1>1, <1>2 DEF IInv, TypeOK, EndScope, Memory
<1>5. lTrackedList \in [Vars -> BOOLEAN] /\ Range(pTrackedVariables) \subseteq Vars
  BY DEF IInv, TypeOK, Range
<1>6. InTracked'
  <2>1. \A w \in Range(pTrackedVariables') : lTrackedList'[w]
    BY <1>3, <1>5 DEF IInv, InTracked, EndScope
  <2>2. ASSUME NEW w \in Vars, ref'[w] \in PlacesInBlocks PROVE w \in Range(pTrackedVariables')
    BY <1>1, <1>3, <2>2 DEF IInv, InTracked
  <2> QED BY <1>2, <2>1, <2>2 DEF IInv, InTracked
<1> QED BY <1>1, <1>4, <1>6 DEF IInv

LEMMA SetReferenceStep ==
    ASSUME IInv, "reuse" \notin Programs, NEW v \in Vars, NEW l \in Lists,
           NEW x \in 1..Len(chain[l]), SetReference(v, l, x)
    PROVE  IInv'
<1> DEFINE i == chain[l][x]
           m == Release(mem, v)
           more == [j \in Items |-> IF j = i THEN Without(v)[i] \cup {v} ELSE Without(v)[j]]
<1>1. /\ lTrackedList[v] => v \in Range(pTrackedVariables)
      /\ mem' = [m EXCEPT !.rc[i] = @ + 1]
      /\ ref' = [ref EXCEPT ![v] = i]
      /\ lTrackedList' = [lTrackedList EXCEPT ![v] = TRUE]
      /\ pTrackedVariables' = IF lTrackedList[v] THEN pTrackedVariables
                                                 ELSE Append(pTrackedVariables, v)
      /\ UNCHANGED <<chain, block, rows>>
  BY DEF SetReference, Track
<1>2. i \in Items /\ i \in PlacesInBlocks /\ i[1] = l /\ l \in Own[i] /\ i \in Range(chain[l])
  BY OwnIs, Disjoint DEF IInv, ChainsInBlocks
<1> HIDE DEF i
<1>3. /\ m \in Memory /\ Exact(m, Without(v))
      /\ Without(v) \in [Items -> SUBSET (Vars \cup Lists)]
      /\ v \notin Without(v)[i] /\ Without(v)[i] # {}
  <2>1. l # v /\ l \in Without(v)[i] /\ v \notin Without(v)[i]
    BY <1>2, Disjoint DEF Without
  <2> QED BY <2>1, Released
<1> HIDE DEF m
<1>4. mem' \in Memory /\ Exact(mem', more)
  BY <1>1, <1>2, <1>3, OneOwnerMore
<1>5. /\ ref' \in [Vars -> Items \cup {NULL}]
      /\ ref'[v] = i /\ \A w \in Vars : w # v => ref'[w] = ref[w]
  BY <1>1, <1>2 DEF IInv, TypeOK
<1>6. ASSUME NEW j \in Items PROVE Own'[j] = more[j]
  <2>1. Own'[j] = {w \in Vars : ref'[w] = j} \cup {k \in Lists : j \in Range(chain[k])}
    BY <1>1 DEF Own, Owners
  <2>2. Without(v)[j] = ({w \in Vars : ref[w] = j} \cup {k \in Lists : j \in Range(chain[k])}) \ {v}
    BY DEF Own, Owners, Without
  <2>3. CASE j = i
    <3>1. \A w \in Vars : ref'[w] = j <=> (ref[w] = j \/ w = v)
      BY <1>5, <2>3
    <3> QED BY <2>1, <2>2, <2>3, <3>1, Disjoint
  <2>4. CASE j # i
    <3>1. \A w \in Vars : ref'[w] = j <=> (ref[w] = j /\ w # v)
      BY <1>5, <2>4
    <3> QED BY <2>1, <2>2, <2>4, <3>1, Disjoint
  <2> QED BY <2>3, <2>4
<1>7. Exact(mem', Own')
  BY <1>4, <1>6 DEF Exact
<1>8. pTrackedVariables \in Seq(Vars) /\ lTrackedList \in [Vars -> BOOLEAN]
  BY DEF IInv, TypeOK
<1>9. /\ pTrackedVariables' \in Seq(Vars)
      /\ Range(pTrackedVariables') = Range(pTrackedVariables) \cup {v}
      /\ IsInjective(pTrackedVariables')
  <2>1. IsInjective(pTrackedVariables) /\ \A w \in Range(pTrackedVariables) : lTrackedList[w]
    BY DEF IInv, InTracked
  <2>2. CASE lTrackedList[v]
    BY <1>1, <1>8, <2>1, <2>2
  <2>3. CASE ~lTrackedList[v]
    <3>1. pTrackedVariables' = Append(pTrackedVariables, v)
      BY <1>1, <2>3
    <3>2. \A y \in DOMAIN pTrackedVariables : pTrackedVariables[y] # v
      BY <2>1, <2>3 DEF Range
    <3> QED BY <1>8, <2>1, <3>1, <3>2 DEF Range, IsInjective
  <2> QED BY <2>2, <2>3
<1>10. TypeOK'
  BY <1>1, <1>4, <1>5, <1>8, <1>9 DEF IInv, TypeOK, Memory
<1>11. InTracked'
  <2>1. Range(pTrackedVariables) \subseteq Vars
    BY <1>8 DEF Range
  <2>2. \A w \in Range(pTrackedVariables') : lTrackedList'[w]
    BY <1>1, <1>8, <1>9, <2>1 DEF IInv, InTracked
  <2> QED BY <1>5, <1>9, <2>2 DEF IInv, InTracked
<1>12. BlockThere'
  <2>1. block[l] = "live"
    <3>1. chain[l] # <<>>
      BY <1>2 DEF Range
    <3> QED BY <3>1 DEF IInv, ChainsInBlocks
  <2> QED BY <1>1, <1>2, <1>5, <2>1 DEF IInv, BlockThere
<1>13. ChainsInBlocks' /\ RowsAllowed'
  BY <1>1 DEF IInv, ChainsInBlocks, RowsAllowed, BlockItems
<1> QED BY <1>7, <1>10, <1>11, <1>12, <1>13 DEF IInv, Exact

LEMMA NewListStep ==
    ASSUME IInv, NEW l \in Lists, NEW twoDimensions \in BOOLEAN,
           NewListUsingBlocks(l, twoDimensions)
    PROVE  IInv'
<1> DEFINE items == [x \in 1..Size |-> <<l, x>>]
           new(i) == IF i \in BlockItems(l) THEN i ELSE mem.held[i]
<1>1. /\ block[l] # "live"
      /\ twoDimensions => "rows" \in Programs
      /\ block' = [block EXCEPT ![l] = "live"]
      /\ chain' = [chain EXCEPT ![l] = items]
      /\ rows' = (IF twoDimensions THEN rows \cup {l} ELSE rows)
      /\ mem' = [mem EXCEPT !.held = [i \in Items |-> new(i)]]
      /\ UNCHANGED <<ref, pTrackedVariables, lTrackedList>>
  BY DEF NewListUsingBlocks
<1>2. items \in Seq(PlacesInBlocks) /\ Range(items) = BlockItems(l) /\ IsInjective(items)
  BY ConstantsAssumption DEF PlacesInBlocks, BlockItems, Range, IsInjective
<1>3. /\ chain \in [Lists -> Seq(PlacesInBlocks)] /\ chain[l] = <<>>
      /\ mem \in Memory
  BY <1>1, OwnIs DEF IInv, TypeOK, PlacesInBlocks, ChainsInBlocks
<1> HIDE DEF items
<1>4. /\ mem'.rc = mem.rc /\ mem'.heap = mem.heap /\ mem' \in Memory
      /\ \A i \in Items : mem'.held[i] = new(i)
  <2>1. \A i \in Items : new(i) \in Contents
    BY <1>3, Disjoint DEF Memory, Contents, PlacesInBlocks
  <2> HIDE DEF new
  <2> QED BY <1>1, <1>3, <2>1 DEF Memory
<1>5. /\ chain' \in [Lists -> Seq(PlacesInBlocks)] /\ chain'[l] = items
      /\ \A k \in Lists : k # l => chain'[k] = chain[k]
  BY <1>1, <1>2, <1>3
<1>6. /\ block' \in [Lists -> {"none", "live", "freed"}] /\ block'[l] = "live"
      /\ \A k \in Lists : k # l => block'[k] = block[k]
  BY <1>1 DEF IInv, TypeOK
<1>7. ASSUME NEW i \in BlockItems(l)
      PROVE  i \in Items /\ Own[i] = {} /\ Own'[i] = {l}
  <2>1. i \in Items /\ i \in PlacesInBlocks /\ i[1] = l
    BY Disjoint
  <2>2. \A v \in Vars : ref[v] # i
    BY <1>1, <2>1 DEF IInv, BlockThere
  <2>3. \A k \in Lists : i \notin Range(chain[k])
    BY <1>3, <2>1, OwnIs DEF Range
  <2>4. \A k \in Lists : i \in Range(chain'[k]) <=> k = l
    BY <1>2, <1>5, <2>3
  <2>5. Own[i] = {v \in Vars : ref[v] = i} \cup {k \in Lists : i \in Range(chain[k])}
    BY <2>1 DEF Own, Owners
  <2>6. Own'[i] = {v \in Vars : ref[v] = i} \cup {k \in Lists : i \in Range(chain'[k])}
    BY <1>1, <2>1 DEF Own, Owners
  <2> QED BY <2>1, <2>2, <2>3, <2>4, <2>5, <2>6
<1>8. ASSUME NEW i \in Items, i \notin BlockItems(l) PROVE Own'[i] = Own[i]
  <2>1. \A k \in Lists : i \in Range(chain'[k]) <=> i \in Range(chain[k])
    BY <1>2, <1>3, <1>5, <1>8 DEF Range
  <2>2. Own[i] = {v \in Vars : ref[v] = i} \cup {k \in Lists : i \in Range(chain[k])}
    BY DEF Own, Owners
  <2>3. Own'[i] = {v \in Vars : ref[v] = i} \cup {k \in Lists : i \in Range(chain'[k])}
    BY <1>1 DEF Own, Owners
  <2> QED BY <2>1, <2>2, <2>3
<1>9. Exact(mem', Own')
  <2>1. Exact(mem, Own)
    BY DEF IInv
  <2>2. ASSUME NEW i \in BlockItems(l)
        PROVE  /\ IsFiniteSet(Own'[i]) /\ Own'[i] # {}
               /\ mem'.rc[i] = Cardinality(Own'[i]) - 1 /\ mem'.held[i] # NULL /\ i \notin Heap
    <3>1. i \in Items /\ Own[i] = {} /\ Own'[i] = {l} /\ i \notin Heap /\ i # NULL
      BY <1>7, Disjoint
    <3>2. IsFiniteSet({l}) /\ Cardinality({l}) = 1
      BY FS_Singleton
    <3>3. mem'.rc[i] = 0 /\ mem'.held[i] = i
      BY <1>4, <2>1, <3>1 DEF Exact
    <3> QED BY <3>1, <3>2, <3>3
  <2>3. ASSUME NEW i \in Items, i \notin BlockItems(l)
        PROVE  Own'[i] = Own[i] /\ mem'.held[i] = mem.held[i] /\ mem'.rc[i] = mem.rc[i]
    BY <1>4, <1>8, <2>3
  <2> QED BY <1>4, <2>1, <2>2, <2>3 DEF Exact
<1>10. TypeOK'
  BY <1>1, <1>4, <1>5, <1>6 DEF IInv, TypeOK, Memory, PlacesInBlocks
<1>11. ChainsInBlocks'
  BY <1>2, <1>5, <1>6 DEF IInv, ChainsInBlocks, BlockItems
<1>12. InTracked' /\ BlockThere' /\ RowsAllowed'
  BY <1>1, <1>6, Disjoint DEF IInv, InTracked, BlockThere, RowsAllowed
<1> QED BY <1>9, <1>10, <1>11, <1>12 DEF IInv, Exact

LEMMA DeleteListItemStep ==
    ASSUME IInv, NEW l \in Lists, NEW x \in 1..Len(chain[l]), DeleteListItem(l, x)
    PROVE  IInv'
<1> DEFINE i == chain[l][x]
           less == Gone(Own, i, l)
           rest == RemoveAt(chain[l], x)
<1>1. /\ mem' = DeleteItem(mem, i)
      /\ chain' = [chain EXCEPT ![l] = rest]
      /\ UNCHANGED <<block, rows, ref, pTrackedVariables, lTrackedList>>
  BY DEF DeleteListItem
<1>2. i \in Items /\ i \in PlacesInBlocks /\ i[1] = l /\ l \in Own[i] /\ i \in Range(chain[l])
  BY OwnIs, Disjoint DEF IInv, ChainsInBlocks
<1>3. /\ chain \in [Lists -> Seq(PlacesInBlocks)] /\ chain[l] \in Seq(PlacesInBlocks)
      /\ IsInjective(chain[l]) /\ Range(chain[l]) \subseteq BlockItems(l)
  BY DEF IInv, TypeOK, PlacesInBlocks, ChainsInBlocks
<1>4. /\ rest \in Seq(PlacesInBlocks) /\ Len(rest) = Len(chain[l]) - 1
      /\ \A k \in 1..Len(chain[l]) - 1 :
             rest[k] = IF k < x THEN chain[l][k] ELSE chain[l][k + 1]
  BY <1>3, RemovedAt
<1>5. Range(rest) = Range(chain[l]) \ {i} /\ IsInjective(rest)
  <2> HIDE DEF rest
  <2> DEFINE n == Len(chain[l])
             old(k) == IF k < x THEN k ELSE k + 1
  <2>1. n \in Nat /\ DOMAIN chain[l] = 1..n /\ DOMAIN rest = 1..n - 1
    BY <1>3, <1>4
  <2>2. \A k \in 1..n - 1 : old(k) \in 1..n /\ old(k) # x /\ rest[k] = chain[l][old(k)]
    BY <1>4, <2>1
  <2>3. ASSUME NEW j \in 1..n, j # x PROVE \E k \in 1..n - 1 : old(k) = j
    <3>1. CASE j < x
      <4>1. j \in 1..n - 1 /\ old(j) = j
        BY <2>1, <3>1
      <4> QED BY <4>1
    <3>2. CASE j > x
      <4>1. j - 1 \in 1..n - 1 /\ old(j - 1) = j
        BY <2>1, <3>2
      <4> QED BY <4>1
    <3> QED BY <2>3, <3>1, <3>2
  <2>4. \A j, k \in 1..n - 1 : old(j) = old(k) => j = k
    BY <2>1
  <2> HIDE DEF n, old
  <2>5. \A j, k \in 1..n : chain[l][j] = chain[l][k] => j = k
    BY <1>3, <2>1 DEF IsInjective
  <2>6. IsInjective(rest)
    BY <2>1, <2>2, <2>4, <2>5 DEF IsInjective
  <2>7. x \in 1..n
    BY DEF n
  <2>8. \A e \in Range(rest) : e \in Range(chain[l]) /\ e # i
    BY <2>1, <2>2, <2>5, <2>7 DEF Range
  <2>9. ASSUME NEW e \in Range(chain[l]), e # i PROVE e \in Range(rest)
    <3>1. PICK j \in 1..n : e = chain[l][j] /\ j # x
      BY <2>1, <2>9 DEF Range
    <3>2. PICK k \in 1..n - 1 : old(k) = j
      BY <2>3, <3>1
    <3> QED BY <2>1, <2>2, <3>1, <3>2 DEF Range
  <2> QED BY <2>6, <2>8, <2>9
<1> HIDE DEF rest, i
<1>6. /\ chain' \in [Lists -> Seq(PlacesInBlocks)] /\ chain'[l] = rest
      /\ \A k \in Lists : k # l => chain'[k] = chain[k]
  BY <1>1, <1>3, <1>4
<1>7. ASSUME NEW j \in Items PROVE Own'[j] = less[j]
  <2>1. Own'[j] = {v \in Vars : ref[v] = j} \cup {k \in Lists : j \in Range(chain'[k])}
    BY <1>1 DEF Own, Owners
  <2>2. Own[j] = {v \in Vars : ref[v] = j} \cup {k \in Lists : j \in Range(chain[k])}
    BY DEF Own, Owners
  <2>3. \A k \in Lists : j \in Range(chain'[k]) <=> j \in Range(chain[k]) /\ ~(k = l /\ j = i)
    BY <1>5, <1>6
  <2>4. \A v \in Vars : v # l
    BY Disjoint
  <2>5. CASE j = i
    <3>1. Own'[j] = Own[j] \ {l}
      BY <2>1, <2>2, <2>3, <2>4, <2>5
    <3> QED BY <2>5, <3>1 DEF Gone
  <2>6. CASE j # i
    <3>1. Own'[j] = Own[j]
      BY <2>1, <2>2, <2>3, <2>6
    <3> QED BY <2>6, <3>1 DEF Gone
  <2> QED BY <2>5, <2>6
<1>8. mem' \in Memory /\ Exact(mem', less)
  <2>1. /\ mem \in Memory /\ Exact(mem, Own)
        /\ Own \in [Items -> SUBSET (Vars \cup Lists)]
    BY OwnIs DEF IInv
  <2>2. /\ DeleteItem(mem, i) \in Memory
        /\ Exact(DeleteItem(mem, i), Gone(Own, i, l))
    BY <1>2, <2>1, OneOwnerLess
  <2> QED BY <1>1, <2>2
<1>9. Exact(mem', Own')
  BY <1>7, <1>8 DEF Exact
<1>10. TypeOK'
  BY <1>1, <1>6, <1>8 DEF IInv, TypeOK, Memory, PlacesInBlocks
<1>11. ChainsInBlocks'
  <2>1. block[l] = "live"
    <3>1. chain[l] # <<>>
      BY <1>2 DEF Range
    <3> QED BY <3>1 DEF IInv, ChainsInBlocks
  <2> QED BY <1>1, <1>3, <1>5, <1>6, <2>1 DEF IInv, ChainsInBlocks, BlockItems
<1>12. InTracked' /\ BlockThere' /\ RowsAllowed'
  BY <1>1 DEF IInv, InTracked, BlockThere, RowsAllowed
<1> QED BY <1>9, <1>10, <1>11, <1>12 DEF IInv, Exact

-----------------------------------------------------------------------------
(* A list goes away. *)

(* Its items lose an owner, and with the last one what they hold. *)
LEMMA ItemsDeleted ==
    ASSUME IInv, NEW l \in Lists
    PROVE  LET m == DeleteItems(mem, chain[l]) IN
           /\ m \in Memory /\ m.heap = mem.heap
           /\ Without(l) \in [Items -> SUBSET (Vars \cup Lists)]
           /\ Exact(m, Without(l))
           /\ \A i \in Items : Without(l)[i] # {} => m.held[i] = mem.held[i]
<1> DEFINE R == Range(chain[l])
           d(i) == DeleteItem(mem, i)
           m == DeleteItems(mem, chain[l])
<1>1. /\ mem \in Memory /\ Exact(mem, Own)
      /\ Own \in [Items -> SUBSET (Vars \cup Lists)]
      /\ \A i \in R : i \in Items /\ i \in PlacesInBlocks /\ i \notin Heap /\ l \in Own[i]
      /\ \A i \in Items : i \notin R => l \notin Own[i]
  BY OwnIs, Disjoint DEF IInv, ChainsInBlocks
<1>2. /\ m.rc = [i \in Items |-> IF i \in R THEN d(i).rc[i] ELSE mem.rc[i]]
      /\ m.held = [i \in Items |-> IF i \in R THEN d(i).held[i] ELSE mem.held[i]]
      /\ m.heap = {i \in mem.heap : i \in R => i \in d(i).heap}
      /\ m = [rc |-> m.rc, held |-> m.held, heap |-> m.heap]
  BY DEF DeleteItems
<1>3. ASSUME NEW i \in R
      PROVE  /\ d(i).rc[i] \in Nat /\ d(i).held[i] \in Contents
             /\ IsFiniteSet(Own[i] \ {l})
             /\ Own[i] \ {l} = {} => d(i).rc[i] = 0 /\ d(i).held[i] = NULL
             /\ Own[i] \ {l} # {} => /\ d(i).rc[i] = Cardinality(Own[i] \ {l}) - 1
                                     /\ d(i).held[i] # NULL /\ d(i).held = mem.held
  <2> DEFINE less == Gone(Own, i, l)
  <2>1. i \in Items /\ l \in Own[i]
    BY <1>1
  <2>2. /\ d(i) \in Memory /\ Exact(d(i), less)
        /\ Own[i] \ {l} # {} => d(i).held = mem.held
    <3> HIDE DEF R
    <3>1. Own \in [Items -> SUBSET (Vars \cup Lists)] /\ mem \in Memory /\ Exact(mem, Own)
      BY <1>1
    <3>2. /\ DeleteItem(mem, i) \in Memory
          /\ Exact(DeleteItem(mem, i), Gone(Own, i, l))
      BY <2>1, <3>1, OneOwnerLess
    <3>3. Gone(Own, i, l)[i] # {} => DeleteItem(mem, i).held = mem.held
      BY <2>1, <3>1, OneOwnerLess
    <3>4. Gone(Own, i, l)[i] = Own[i] \ {l}
      BY <2>1 DEF Gone
    <3> QED BY <3>2, <3>3, <3>4
  <2>3. less[i] = Own[i] \ {l}
    BY <2>1 DEF Gone
  <2> HIDE DEF less, d
  <2> QED BY <2>1, <2>2, <2>3 DEF Exact, Memory
<1> HIDE DEF m, d, R
<1>4. m.heap = mem.heap
  BY <1>1, <1>2 DEF Memory
<1>5. m \in Memory
  <2>1. m.rc \in [Items -> Nat] /\ m.held \in [Items -> Contents]
    BY <1>1, <1>2, <1>3 DEF Memory
  <2> QED BY <1>1, <1>2, <1>4, <2>1 DEF Memory
<1>6. ASSUME NEW i \in Items
      PROVE  /\ i \in R => /\ Without(l)[i] = Own[i] \ {l}
                           /\ m.rc[i] = d(i).rc[i] /\ m.held[i] = d(i).held[i]
             /\ i \notin R => /\ Without(l)[i] = Own[i]
                              /\ m.rc[i] = mem.rc[i] /\ m.held[i] = mem.held[i]
  BY <1>1, <1>2 DEF Without
<1>7. Exact(m, Without(l))
  <2> SUFFICES ASSUME NEW i \in Items
               PROVE  /\ IsFiniteSet(Without(l)[i])
                      /\ Without(l)[i] = {} => m.rc[i] = 0 /\ m.held[i] = NULL /\ i \notin m.heap
                      /\ Without(l)[i] # {} => /\ m.rc[i] = Cardinality(Without(l)[i]) - 1
                                               /\ m.held[i] # NULL
                                               /\ i \in Heap => i \in m.heap
    BY DEF Exact
  <2>1. CASE i \in R
    <3>1. i \notin Heap /\ i \notin m.heap
      BY <1>1, <1>5, <2>1 DEF Memory
    <3> QED BY <1>3, <1>6, <2>1, <3>1
  <2>2. CASE i \notin R
    BY <1>1, <1>4, <1>6, <2>2 DEF Exact
  <2> QED BY <2>1, <2>2
<1>8. \A i \in Items : Without(l)[i] # {} => m.held[i] = mem.held[i]
  BY <1>3, <1>6
<1>9. Without(l) \in [Items -> SUBSET (Vars \cup Lists)]
  BY <1>1 DEF Without
<1> QED BY <1>4, <1>5, <1>7, <1>8, <1>9 DEF m

(* Every item to move, and every item in use outside the blocks, is owned  *)
(* by a variable, and by one that owns no other: what is free is enough.   *)
LEMMA RoomToMove ==
    ASSUME IInv, NEW l \in Lists
    PROVE  \E to \in [ToMove(l) -> Heap \ mem.heap] :
               \A i, j \in ToMove(l) : to[i] = to[j] => i = j
<1> DEFINE P == ToMove(l)
           H == mem.heap
           F == Heap \ mem.heap
           owner == [i \in P \cup H |-> CHOOSE v \in Vars : ref[v] = i]
<1>1. H \subseteq Heap /\ P \subseteq PlacesInBlocks /\ P \cap H = {} /\ P \cup H \subseteq Items
  <2>1. H \subseteq Heap
    BY DEF IInv, TypeOK
  <2> QED BY <2>1, Disjoint DEF ToMove
<1>2. ASSUME NEW i \in P \cup H PROVE \E v \in Vars : ref[v] = i
  <2>1. CASE i \in P
    <3>1. Range(pTrackedVariables) \subseteq Vars
      BY DEF IInv, TypeOK, Range
    <3> QED BY <2>1, <3>1 DEF ToMove
  <2>2. CASE i \in H
    <3>1. i \in Items /\ i \in Heap
      BY <1>1, <2>2
    <3>2. Own[i] # {}
      BY <2>2, <3>1 DEF IInv, Exact
    <3>3. \A k \in Lists : k \notin Own[i]
      BY <3>1, OwnIs, Disjoint DEF IInv, ChainsInBlocks
    <3> QED BY <3>1, <3>2, <3>3, OwnIs
  <2> QED BY <2>1, <2>2
<1> HIDE DEF P, H, F
<1>3. owner \in Injection(P \cup H, Vars)
  <2>1. ASSUME NEW i \in P \cup H PROVE owner[i] \in Vars /\ ref[owner[i]] = i
    BY <1>2
  <2>2. owner \in [P \cup H -> Vars]
    BY <1>2
  <2> HIDE DEF owner
  <2> QED BY <2>1, <2>2 DEF Injection, IsInjective
<1> HIDE DEF owner
<1>4. /\ IsFiniteSet(P \cup H) /\ Cardinality(P \cup H) <= Cardinality(Vars)
      /\ Cardinality(P \cup H) \in Nat
  BY <1>3, Disjoint, FS_Injection, FS_CardinalityType
<1>5. /\ IsFiniteSet(P) /\ IsFiniteSet(H) /\ Cardinality(P) \in Nat /\ Cardinality(H) \in Nat
      /\ Cardinality(P \cup H) = Cardinality(P) + Cardinality(H)
  <2>1. IsFiniteSet(P) /\ IsFiniteSet(H)
    BY <1>4, FS_Subset
  <2>2. Cardinality(P \cup H) = Cardinality(P) + Cardinality(H) - Cardinality(P \cap H)
    BY <2>1, FS_Union
  <2>3. Cardinality(P \cap H) = 0
    BY <1>1, FS_EmptySet
  <2>4. Cardinality(P) \in Nat /\ Cardinality(H) \in Nat
    BY <2>1, FS_CardinalityType
  <2> QED BY <2>1, <2>2, <2>3, <2>4
<1>6. /\ IsFiniteSet(F) /\ Cardinality(F) \in Nat
      /\ Cardinality(Heap) = Cardinality(F) + Cardinality(H)
  <2>1. IsFiniteSet(F)
    BY Disjoint, FS_Difference DEF F, H
  <2>2. F \cup H = Heap /\ F \cap H = {}
    BY <1>1 DEF F, H
  <2>3. Cardinality(F \cup H) = Cardinality(F) + Cardinality(H) - Cardinality(F \cap H)
    BY <1>5, <2>1, FS_Union
  <2>4. Cardinality(F \cap H) = 0
    BY <2>2, FS_EmptySet
  <2>5. Cardinality(F) \in Nat
    BY <2>1, FS_CardinalityType
  <2>6. Cardinality(F \cup H) = Cardinality(Heap)
    BY <2>2
  <2> QED BY <1>5, <2>1, <2>3, <2>4, <2>5, <2>6
<1>7. Cardinality(P) <= Cardinality(F)
  <2>1. /\ Cardinality(Vars) <= Cardinality(Heap)
        /\ Cardinality(Vars) \in Nat /\ Cardinality(Heap) \in Nat
    BY ConstantsAssumption, FS_CardinalityType
  <2> QED BY <1>4, <1>5, <1>6, <2>1
<1>8. PICK g \in Bijection(1..Cardinality(P), P) : TRUE
  BY <1>5, FS_CardinalityType DEF ExistsBijection
<1>9. PICK h \in Bijection(1..Cardinality(F), F) : TRUE
  BY <1>6, FS_CardinalityType DEF ExistsBijection
<1>10. ASSUME NEW i \in P PROVE \E k \in 1..Cardinality(P) : g[k] = i
  BY <1>8 DEF Bijection, Surjection
<1> DEFINE at(i) == CHOOSE k \in 1..Cardinality(P) : g[k] = i
           to == [i \in P |-> h[at(i)]]
<1>11. ASSUME NEW i \in P PROVE at(i) \in 1..Cardinality(F) /\ g[at(i)] = i
  <2>1. at(i) \in 1..Cardinality(P) /\ g[at(i)] = i
    BY <1>10
  <2> HIDE DEF at
  <2> QED BY <1>5, <1>6, <1>7, <2>1
<1> HIDE DEF at
<1>12. to \in [P -> F]
  BY <1>9, <1>11 DEF Bijection, Injection
<1>13. ASSUME NEW i \in P, NEW j \in P, to[i] = to[j] PROVE i = j
  <2>1. h[at(i)] = h[at(j)]
    BY <1>13
  <2>2. at(i) = at(j)
    BY <1>9, <1>11, <2>1 DEF Bijection, Injection, IsInjective
  <2> QED BY <1>11, <2>2
<1> HIDE DEF to
<1> QED BY <1>12, <1>13 DEF P, F

(* Where the items of l go when it is deleted. *)
To(l) == NewPlaces(l, DeleteItems(mem, chain[l]))

LEMMA ToIs ==
    ASSUME IInv, NEW l \in Lists
    PROVE  /\ To(l) \in [ToMove(l) -> Heap \ mem.heap]
           /\ \A i, j \in ToMove(l) : To(l)[i] = To(l)[j] => i = j
           /\ ToMove(l) \subseteq BlockItems(l) /\ ToMove(l) \subseteq Items
           /\ \A i \in ToMove(l) : /\ To(l)[i] \in Items /\ To(l)[i] \in Heap
                                   /\ To(l)[i] \notin ToMove(l) /\ To(l)[i] \notin mem.heap
<1>1. DeleteItems(mem, chain[l]).heap = mem.heap
  BY ItemsDeleted
<1>2. To(l) = CHOOSE to \in [ToMove(l) -> Heap \ mem.heap] :
                  \A i, j \in ToMove(l) : to[i] = to[j] => i = j
  BY <1>1 DEF To, NewPlaces
<1>3. /\ To(l) \in [ToMove(l) -> Heap \ mem.heap]
      /\ \A i, j \in ToMove(l) : To(l)[i] = To(l)[j] => i = j
  BY <1>2, RoomToMove
<1>4. ToMove(l) \subseteq BlockItems(l) /\ ToMove(l) \subseteq Items
  BY Disjoint DEF ToMove
<1> QED BY <1>3, <1>4, Disjoint

(* What each item is after the move. *)
LEMMA MovedIs ==
    ASSUME IInv, NEW l \in Lists, NEW m \in Memory
    PROVE  LET d == Moved(m, To(l)) IN
           /\ d \in Memory
           /\ d.heap = m.heap \cup {To(l)[i] : i \in ToMove(l)}
           /\ \A i \in ToMove(l) : /\ d.rc[To(l)[i]] = m.rc[i] /\ d.held[To(l)[i]] = m.held[i]
                                   /\ d.rc[i] = 0 /\ d.held[i] = NULL
           /\ \A i \in Items :
                  i \notin ToMove(l) /\ (\A j \in ToMove(l) : i # To(l)[j])
                      => d.rc[i] = m.rc[i] /\ d.held[i] = m.held[i]
<1> DEFINE to == To(l)
           P == ToMove(l)
           old(i) == CHOOSE j \in DOMAIN to : to[j] = i
           rc(i) == IF i \in Range(to) THEN m.rc[old(i)] ELSE IF i \in DOMAIN to THEN 0 ELSE m.rc[i]
           held(i) == IF i \in Range(to) THEN m.held[old(i)]
                      ELSE IF i \in DOMAIN to THEN NULL ELSE m.held[i]
           d == Moved(m, to)
<1>1. d = [rc |-> [i \in Items |-> rc(i)], held |-> [i \in Items |-> held(i)],
           heap |-> m.heap \cup Range(to)]
  BY DEF Moved
<1>2. /\ DOMAIN to = P /\ Range(to) = {to[i] : i \in P} /\ Range(to) \subseteq Heap
      /\ P \subseteq Items
      /\ \A i \in P : to[i] \in Items /\ to[i] \in Range(to) /\ i \notin Range(to)
      /\ \A i, j \in P : to[i] = to[j] => i = j
  BY ToIs DEF Range
<1> HIDE DEF to, P
<1>3. \A i \in Range(to) : old(i) \in P /\ to[old(i)] = i
  BY <1>2
<1>4. \A i \in P : old(to[i]) = i
  BY <1>2, <1>3
<1> HIDE DEF old
<1>5. m.rc \in [Items -> Nat] /\ m.held \in [Items -> Contents] /\ m.heap \in SUBSET Heap
      /\ NULL \in Contents
  BY DEF Memory, Contents
<1>6. \A i \in Items : rc(i) \in Nat /\ held(i) \in Contents
  BY <1>2, <1>3, <1>5
<1>7. /\ \A i \in P : rc(to[i]) = m.rc[i] /\ held(to[i]) = m.held[i] /\ rc(i) = 0 /\ held(i) = NULL
      /\ \A i \in Items : i \notin P /\ (\A j \in P : i # to[j])
                              => rc(i) = m.rc[i] /\ held(i) = m.held[i]
  BY <1>2, <1>4
<1> HIDE DEF rc, held, d
<1>8. /\ d.rc = [i \in Items |-> rc(i)] /\ d.held = [i \in Items |-> held(i)]
      /\ d.heap = m.heap \cup Range(to)
  BY <1>1
<1>9. d \in Memory
  BY <1>1, <1>2, <1>5, <1>6 DEF Memory
<1>10. /\ \A i \in P : /\ d.rc[to[i]] = m.rc[i] /\ d.held[to[i]] = m.held[i]
                       /\ d.rc[i] = 0 /\ d.held[i] = NULL
       /\ \A i \in Items : i \notin P /\ (\A j \in P : i # to[j])
                               => d.rc[i] = m.rc[i] /\ d.held[i] = m.held[i]
  BY <1>2, <1>7, <1>8
<1> QED BY <1>2, <1>8, <1>9, <1>10 DEF d, to, P

(* A variable that refers to an item of the block is tracked, so it        *)
(* follows; the others refer to nothing that was moved or is new.          *)
LEMMA Followed ==
    ASSUME IInv, NEW l \in Lists, DeleteList(l)
    PROVE  /\ ref' \in [Vars -> Items \cup {NULL}]
           /\ \A v \in Vars : ref[v] \in BlockItems(l) =>
                  ref[v] \in ToMove(l) /\ ref'[v] = To(l)[ref[v]]
           /\ \A v \in Vars : ref[v] \notin BlockItems(l) =>
                  ref'[v] = ref[v] /\ \A j \in ToMove(l) : ref[v] # To(l)[j]
<1>1. ref' = [v \in Vars |-> IF v \in Range(pTrackedVariables) /\ ref[v] \in DOMAIN To(l)
                             THEN To(l)[ref[v]] ELSE ref[v]]
  BY DEF DeleteList, Follow, To
<1>2. DOMAIN To(l) = ToMove(l)
  BY ToIs
<1>3. ASSUME NEW v \in Vars, ref[v] \in BlockItems(l)
      PROVE  ref[v] \in ToMove(l) /\ ref'[v] = To(l)[ref[v]] /\ ref'[v] \in Items
  <2>1. v \in Range(pTrackedVariables)
    BY <1>3, Disjoint DEF IInv, InTracked
  <2>2. ref[v] \in ToMove(l)
    BY <1>3, <2>1 DEF ToMove
  <2> QED BY <1>1, <1>2, <2>1, <2>2, ToIs
<1>4. ASSUME NEW v \in Vars, ref[v] \notin BlockItems(l)
      PROVE  ref'[v] = ref[v] /\ \A j \in ToMove(l) : ref[v] # To(l)[j]
  <2>1. ref[v] \notin ToMove(l)
    BY <1>4 DEF ToMove
  <2>2. ASSUME NEW j \in ToMove(l), ref[v] = To(l)[j] PROVE FALSE
    <3>1. ref[v] \in Items /\ ref[v] \in Heap /\ ref[v] \notin mem.heap
      BY <2>2, ToIs
    <3>2. v \in Own[ref[v]]
      BY <3>1, OwnIs
    <3> QED BY <3>1, <3>2 DEF IInv, Exact
  <2> QED BY <1>1, <1>2, <2>1, <2>2
<1>5. ref \in [Vars -> Items \cup {NULL}]
  BY DEF IInv, TypeOK
<1>6. ref' \in [Vars -> Items \cup {NULL}]
  BY <1>1, <1>3, <1>4, <1>5
<1> QED BY <1>3, <1>4, <1>6

(* What was moved has the owners of what it was, which has none. *)
LEMMA OwnersMoved ==
    ASSUME IInv, NEW l \in Lists, DeleteList(l)
    PROVE  /\ \A j \in ToMove(l) : /\ Own'[To(l)[j]] = Without(l)[j]
                                   /\ Own'[j] = {}
                                   /\ Without(l)[To(l)[j]] = {}
           /\ \A i \in Items : i \notin ToMove(l) /\ (\A j \in ToMove(l) : i # To(l)[j])
                                   => Own'[i] = Without(l)[i]
<1>1. /\ \A v \in Vars : ref[v] \in BlockItems(l) =>
             ref[v] \in ToMove(l) /\ ref'[v] = To(l)[ref[v]]
      /\ \A v \in Vars : ref[v] \notin BlockItems(l) =>
             ref'[v] = ref[v] /\ \A j \in ToMove(l) : ref[v] # To(l)[j]
  BY Followed
<1>2. /\ ToMove(l) \subseteq BlockItems(l) /\ ToMove(l) \subseteq Items
      /\ \A i, j \in ToMove(l) : To(l)[i] = To(l)[j] => i = j
      /\ \A j \in ToMove(l) : To(l)[j] \in Items /\ To(l)[j] \in Heap /\ To(l)[j] \notin BlockItems(l)
  BY ToIs, Disjoint
<1>3. \A k \in Lists, i \in Items : i \in Range(chain'[k]) <=> k # l /\ i \in Range(chain[k])
  <2>1. chain' = [chain EXCEPT ![l] = <<>>] /\ chain \in [Lists -> Seq(PlacesInBlocks)]
    BY DEF DeleteList, IInv, TypeOK, PlacesInBlocks
  <2>2. chain'[l] = <<>> /\ \A k \in Lists : k # l => chain'[k] = chain[k]
    BY <2>1
  <2> QED BY <2>2 DEF Range
<1>4. \A i \in Items : Own'[i] = {v \in Vars : ref'[v] = i} \cup {k \in Lists : i \in Range(chain'[k])}
  BY DEF Own, Owners
<1>5. \A i \in Items :
          Without(l)[i] = {v \in Vars : ref[v] = i} \cup {k \in Lists : i \in Range(chain'[k])}
  <2>1. \A v \in Vars : v # l
    BY Disjoint
  <2> QED BY <1>3, <2>1 DEF Without, Own, Owners
<1>6. \A i \in Heap \cup BlockItems(l), k \in Lists : i \notin Range(chain'[k])
  <2>1. \A k \in Lists : \A i \in Range(chain[k]) : i \in Items /\ i[1] = k /\ i \notin Heap
    BY OwnIs, Disjoint DEF IInv, ChainsInBlocks
  <2>2. \A i \in BlockItems(l) : i[1] = l /\ i \in Items
    BY Disjoint
  <2>3. \A i \in Heap : i \in Items
    BY Disjoint
  <2> QED BY <1>3, <2>1, <2>2, <2>3
<1>7. ASSUME NEW j \in ToMove(l)
      PROVE  /\ Own'[To(l)[j]] = Without(l)[j]
             /\ Own'[j] = {}
             /\ Without(l)[To(l)[j]] = {}
  <2>1. \A v \in Vars : ref'[v] = To(l)[j] <=> ref[v] = j
    BY <1>1, <1>2
  <2>2. \A v \in Vars : ref'[v] # j /\ ref[v] # To(l)[j]
    BY <1>1, <1>2
  <2>3. \A k \in Lists : j \notin Range(chain'[k]) /\ To(l)[j] \notin Range(chain'[k])
    BY <1>2, <1>6
  <2>4. j \in Items /\ To(l)[j] \in Items
    BY <1>2
  <2>5. /\ {v \in Vars : ref'[v] = To(l)[j]} = {v \in Vars : ref[v] = j}
        /\ {v \in Vars : ref'[v] = j} = {} /\ {v \in Vars : ref[v] = To(l)[j]} = {}
        /\ {k \in Lists : j \in Range(chain'[k])} = {}
        /\ {k \in Lists : To(l)[j] \in Range(chain'[k])} = {}
    BY <2>1, <2>2, <2>3
  <2> QED BY <1>4, <1>5, <2>4, <2>5
<1>8. ASSUME NEW i \in Items, i \notin ToMove(l), \A j \in ToMove(l) : i # To(l)[j]
      PROVE  Own'[i] = Without(l)[i]
  <2>1. \A v \in Vars : ref'[v] = i <=> ref[v] = i
    BY <1>1, <1>8
  <2>2. {v \in Vars : ref'[v] = i} = {v \in Vars : ref[v] = i}
    BY <2>1
  <2> QED BY <1>4, <1>5, <2>2
<1> QED BY <1>7, <1>8

LEMMA DeleteListStep == ASSUME IInv, NEW l \in Lists, DeleteList(l) PROVE IInv'
<1> DEFINE m == DeleteItems(mem, chain[l])
           P == ToMove(l)
           to == To(l)
<1>1. /\ block[l] = "live"
      /\ mem' = Moved(m, to)
      /\ pTrackedVariables' = TrackedAfter(to)
      /\ chain' = [chain EXCEPT ![l] = <<>>]
      /\ block' = [block EXCEPT ![l] = "freed"]
      /\ UNCHANGED <<rows, lTrackedList>>
  BY DEF DeleteList, To
<1>2. m \in Memory /\ Exact(m, Without(l))
  BY ItemsDeleted
<1>3. /\ mem' \in Memory
      /\ mem'.heap = m.heap \cup {to[i] : i \in P}
      /\ \A i \in P : /\ mem'.rc[to[i]] = m.rc[i] /\ mem'.held[to[i]] = m.held[i]
                      /\ mem'.rc[i] = 0 /\ mem'.held[i] = NULL
      /\ \A i \in Items : i \notin P /\ (\A j \in P : i # to[j])
                              => mem'.rc[i] = m.rc[i] /\ mem'.held[i] = m.held[i]
  <2> HIDE DEF m
  <2> QED BY <1>1, <1>2, MovedIs
<1>4. /\ P \subseteq Items /\ P \subseteq BlockItems(l) /\ DOMAIN to = P
      /\ \A i \in P : to[i] \in Items /\ to[i] \in Heap /\ i \notin Heap
  BY ToIs, Disjoint
<1>5. /\ \A j \in P : /\ Own'[to[j]] = Without(l)[j] /\ Own'[j] = {}
                      /\ Without(l)[to[j]] = {}
      /\ \A i \in Items : i \notin P /\ (\A j \in P : i # to[j]) => Own'[i] = Without(l)[i]
  BY OwnersMoved
<1>6. /\ ref' \in [Vars -> Items \cup {NULL}]
      /\ \A v \in Vars : ref[v] \in BlockItems(l) => ref[v] \in P /\ ref'[v] = to[ref[v]]
      /\ \A v \in Vars : ref[v] \notin BlockItems(l) => ref'[v] = ref[v]
  BY Followed
<1> DEFINE places == {x \in DOMAIN pTrackedVariables :
                          ref[pTrackedVariables[x]] \in DOMAIN to => MovedFor(x)}
<1>7. /\ pTrackedVariables' \in Seq(Vars)
      /\ Range(pTrackedVariables') = {pTrackedVariables[x] : x \in places}
      /\ IsInjective(pTrackedVariables')
  <2>1. /\ pTrackedVariables \in Seq(Vars) /\ IsInjective(pTrackedVariables)
        /\ places \in SUBSET (DOMAIN pTrackedVariables)
    BY DEF IInv, TypeOK, InTracked
  <2>2. pTrackedVariables' = Subsequence(pTrackedVariables, places)
    BY <1>1 DEF TrackedAfter
  <2> HIDE DEF places
  <2> QED BY <2>1, <2>2, SubsequenceIs
<1> HIDE DEF m, P, to
<1>8. Exact(mem', Own')
  <2> SUFFICES ASSUME NEW i \in Items
               PROVE  /\ IsFiniteSet(Own'[i])
                      /\ Own'[i] = {} => mem'.rc[i] = 0 /\ mem'.held[i] = NULL /\ i \notin mem'.heap
                      /\ Own'[i] # {} => /\ mem'.rc[i] = Cardinality(Own'[i]) - 1
                                         /\ mem'.held[i] # NULL
                                         /\ i \in Heap => i \in mem'.heap
    BY DEF Exact
  <2>1. CASE i \in P
    <3>1. i \notin mem'.heap
      BY <1>3, <1>4, <2>1 DEF Memory
    <3> QED BY <1>3, <1>5, <2>1, <3>1, FS_EmptySet
  <2>2. ASSUME NEW j \in P, i = to[j]
        PROVE  /\ IsFiniteSet(Own'[i])
               /\ Own'[i] = {} => mem'.rc[i] = 0 /\ mem'.held[i] = NULL /\ i \notin mem'.heap
               /\ Own'[i] # {} => /\ mem'.rc[i] = Cardinality(Own'[i]) - 1
                                  /\ mem'.held[i] # NULL
                                  /\ i \in Heap => i \in mem'.heap
    <3>1. Own'[i] = Without(l)[j] /\ mem'.rc[i] = m.rc[j] /\ mem'.held[i] = m.held[j]
      BY <1>3, <1>5, <2>2
    <3>2. i \in mem'.heap
      BY <1>3, <2>2
    <3>3. Own'[i] # {}
      <4>1. PICK v \in Vars : ref[v] = j
        <5>1. Range(pTrackedVariables) \subseteq Vars
          BY DEF IInv, TypeOK, Range
        <5> QED BY <5>1 DEF P, ToMove
      <4>2. j \in Items /\ v # l
        BY <1>4, Disjoint
      <4> QED BY <3>1, <4>1, <4>2, OwnIs DEF Without
    <3>4. j \in Items
      BY <1>4
    <3> QED BY <1>2, <3>1, <3>2, <3>3, <3>4 DEF Exact
  <2>3. CASE i \notin P /\ \A j \in P : i # to[j]
    <3>1. Own'[i] = Without(l)[i] /\ mem'.rc[i] = m.rc[i] /\ mem'.held[i] = m.held[i]
      BY <1>3, <1>5, <2>3
    <3>2. i \in mem'.heap <=> i \in m.heap
      BY <1>3, <2>3
    <3> QED BY <1>2, <3>1, <3>2 DEF Exact
  <2> QED BY <2>1, <2>2, <2>3
<1>9. /\ chain' \in [Lists -> Seq(PlacesInBlocks)] /\ chain'[l] = <<>>
      /\ \A k \in Lists : k # l => chain'[k] = chain[k]
  BY <1>1 DEF IInv, TypeOK, PlacesInBlocks
<1>10. /\ block' \in [Lists -> {"none", "live", "freed"}] /\ block'[l] = "freed"
       /\ \A k \in Lists : k # l => block'[k] = block[k]
  BY <1>1 DEF IInv, TypeOK
<1>11. TypeOK'
  BY <1>1, <1>3, <1>6, <1>7, <1>9, <1>10 DEF IInv, TypeOK, Memory, PlacesInBlocks
<1>12. ChainsInBlocks'
  <2>1. Range(<<>>) \subseteq BlockItems(l) /\ IsInjective(<<>>)
    BY DEF Range, IsInjective
  <2> QED BY <1>9, <1>10, <2>1 DEF IInv, ChainsInBlocks, BlockItems
<1>13. \A v \in Vars : ref'[v] \in PlacesInBlocks => ref'[v] = ref[v] /\ ref[v] \notin BlockItems(l)
  BY <1>4, <1>6, Disjoint
<1>14. InTracked'
  <2>1. \A v \in Range(pTrackedVariables') : lTrackedList'[v]
    BY <1>1, <1>7 DEF IInv, InTracked, Range
  <2>2. ASSUME NEW v \in Vars, ref'[v] \in PlacesInBlocks PROVE v \in Range(pTrackedVariables')
    <3>1. ref[v] \in PlacesInBlocks /\ ref[v] \notin P
      BY <1>4, <1>13, <2>2
    <3>2. PICK x \in DOMAIN pTrackedVariables : pTrackedVariables[x] = v
      BY <3>1 DEF IInv, InTracked, Range
    <3>3. x \in places
      BY <1>4, <3>1, <3>2
    <3> QED BY <1>7, <3>2, <3>3
  <2> QED BY <1>7, <2>1, <2>2 DEF InTracked
<1>15. BlockThere'
  <2> SUFFICES ASSUME NEW v \in Vars, ref'[v] \in PlacesInBlocks
               PROVE  block'[ref'[v][1]] = "live"
    BY DEF BlockThere, PlacesInBlocks
  <2>1. ref'[v] = ref[v] /\ ref[v] \in PlacesInBlocks /\ ref[v] \notin BlockItems(l)
    BY <1>13
  <2>2. ref[v][1] \in Lists /\ ref[v][1] # l
    BY <2>1, Disjoint
  <2> QED BY <1>10, <2>1, <2>2 DEF IInv, BlockThere
<1>16. RowsAllowed'
  BY <1>1 DEF IInv, RowsAllowed
<1> QED BY <1>8, <1>11, <1>12, <1>14, <1>15, <1>16 DEF IInv, Exact

LEMMA NextIInv == ASSUME "reuse" \notin Programs, IInv, [Next]_vars PROVE IInv'
<1>1. ASSUME NEW v \in Vars, NEW l \in Lists, NEW x \in 1..Len(chain[l]), SetReference(v, l, x)
      PROVE  IInv'
  BY <1>1, SetReferenceStep
<1>2. ASSUME NEW v \in Vars, KillReference(v) PROVE IInv'
  BY <1>2, KillReferenceStep
<1>3. ASSUME NEW v \in Vars, EndScope(v) PROVE IInv'
  BY <1>3, EndScopeStep
<1>4. ASSUME NEW l \in Lists, NEW twoDimensions \in BOOLEAN, NewListUsingBlocks(l, twoDimensions)
      PROVE  IInv'
  BY <1>4, NewListStep
<1>5. ASSUME NEW l \in Lists, DeleteList(l) PROVE IInv'
  BY <1>5, DeleteListStep
<1>6. ASSUME NEW l \in Lists, NEW x \in 1..Len(chain[l]), DeleteListItem(l, x) PROVE IInv'
  BY <1>6, DeleteListItemStep
<1>7. CASE UNCHANGED vars
  <2>1. UNCHANGED <<chain, block, rows, ref, pTrackedVariables, lTrackedList, mem>>
    BY <1>7 DEF vars
  <2>2. TypeOK'
    BY <2>1 DEF IInv, TypeOK
  <2>3. ChainsInBlocks' /\ InTracked' /\ BlockThere' /\ RowsAllowed'
    BY <2>1 DEF IInv, ChainsInBlocks, InTracked, BlockThere, RowsAllowed, BlockItems
  <2>4. Own' = Own
    BY <2>1 DEF Own, Owners
  <2>5. Exact(mem', Own')
    BY <2>1, <2>4 DEF IInv
  <2> QED BY <2>2, <2>3, <2>5 DEF IInv, Exact
<1> QED BY <1>1, <1>2, <1>3, <1>4, <1>5, <1>6, <1>7 DEF Next

LEMMA Invariant == ASSUME "reuse" \notin Programs PROVE Spec => []IInv
<1>1. Init => IInv
  BY InitIInv
<1>2. IInv /\ [Next]_vars => IInv'
  BY NextIInv
<1> QED BY <1>1, <1>2, PTL DEF Spec

-----------------------------------------------------------------------------
(* What a deletion leaves variables with. *)
LEMMA TogetherStep ==
    ASSUME IInv, NEW l \in Lists, DeleteList(l), NEW v \in Vars, ref[v] # NULL
    PROVE  /\ mem'.held[ref'[v]] = mem.held[ref[v]]
           /\ \A w \in Vars : (ref[v] = ref[w]) <=> (ref'[v] = ref'[w])
<1> DEFINE m == DeleteItems(mem, chain[l])
<1>1. /\ ref' \in [Vars -> Items \cup {NULL}]
      /\ \A u \in Vars : ref[u] \in BlockItems(l) =>
             ref[u] \in ToMove(l) /\ ref'[u] = To(l)[ref[u]]
      /\ \A u \in Vars : ref[u] \notin BlockItems(l) =>
             ref'[u] = ref[u] /\ \A j \in ToMove(l) : ref[u] # To(l)[j]
  BY Followed
<1>2. /\ ToMove(l) \subseteq BlockItems(l)
      /\ \A i, j \in ToMove(l) : To(l)[i] = To(l)[j] => i = j
  BY ToIs
<1>3. ASSUME NEW w \in Vars PROVE (ref[v] = ref[w]) <=> (ref'[v] = ref'[w])
  BY <1>1, <1>2
<1>4. ref[v] \in Items /\ v # l
  BY Disjoint DEF IInv, TypeOK
<1>5. m \in Memory /\ m.held[ref[v]] = mem.held[ref[v]]
  <2>1. v \in Without(l)[ref[v]]
    BY <1>4, OwnIs DEF Without
  <2> QED BY <1>4, <2>1, ItemsDeleted
<1>6. mem' = Moved(m, To(l))
  BY DEF DeleteList, To
<1> HIDE DEF m
<1>7. /\ \A i \in ToMove(l) : mem'.held[To(l)[i]] = m.held[i]
      /\ \A i \in Items : i \notin ToMove(l) /\ (\A j \in ToMove(l) : i # To(l)[j])
                              => mem'.held[i] = m.held[i]
  BY <1>5, <1>6, MovedIs
<1>8. CASE ref[v] \in BlockItems(l)
  BY <1>1, <1>3, <1>5, <1>7, <1>8
<1>9. CASE ref[v] \notin BlockItems(l)
  BY <1>1, <1>2, <1>3, <1>4, <1>5, <1>7, <1>9
<1> QED BY <1>8, <1>9

(* The variables of the model keep their types; in particular there is     *)
(* always room to move items to.                                           *)
THEOREM TypeCorrect == ASSUME "reuse" \notin Programs PROVE Spec => []TypeOK
<1>1. IInv => TypeOK
  BY DEF IInv
<1> QED BY <1>1, Invariant, PTL

(* ring_vm_gc_deleteitem() and ring_state_willunregisterblock(): the count *)
(* of an item is one less than the lists and variables that own it, and    *)
(* memory allocated for a move goes with its last owner.                   *)
THEOREM CountAlwaysExact == ASSUME "reuse" \notin Programs PROVE Spec => []CountExact
<1>1. IInv => CountExact
  BY ExactIsCountExact DEF IInv
<1> QED BY <1>1, Invariant, PTL

(* ring_list_finishdelete_gc(): when a block of items is freed, no variable *)
(* refers to memory in it.                                                  *)
THEOREM NeverDangling == ASSUME Programs = {} PROVE Spec => []NoDangling
<1>1. "reuse" \notin Programs
  OBVIOUS
<1>2. IInv => NoDangling
  BY NeverFreed
<1> QED BY <1>1, <1>2, Invariant, PTL

(* ring_state_willunregisterblock(): what variables refer to survives the  *)
(* move, and variables that shared an item share it still.                 *)
THEOREM AlwaysMovedTogether == ASSUME "reuse" \notin Programs PROVE Spec => MovedTogether
<1>1. ASSUME IInv
      PROVE  (\E l \in Lists : DeleteList(l)) =>
                 \A v \in Vars : ref[v] # NULL =>
                     /\ mem'.held[ref'[v]] = mem.held[ref[v]]
                     /\ \A w \in Vars : (ref[v] = ref[w]) <=> (ref'[v] = ref'[w])
  BY <1>1, TogetherStep
<1> QED BY <1>1, Invariant, PTL DEF Spec, MovedTogether
=============================================================================
