--------------------------- MODULE RingListProofs ---------------------------
(***************************************************************************)
(* Proofs about RingList, for lists, values and variables of any number.   *)
(*                                                                         *)
(* The links of the list are those of a sequence c, each with an item of   *)
(* its own (Shape).  Whatever walks the links is described by an           *)
(* induction on the steps of the walk; every operation of the list then    *)
(* becomes one on c: with an element, without one, with two exchanged.     *)
(* The invariant says that the list has such a sequence, that its          *)
(* shortcuts agree with it, and that each block has as many owners as its  *)
(* count says.                                                             *)
(***************************************************************************)
EXTENDS RingList, TLAPS, WellFoundedInduction, FiniteSetTheorems

-----------------------------------------------------------------------------
(* Induction, and the links n steps away. *)

LEMMA NatOrder == IsWellFoundedOn({p \in Nat \X Nat : p[1] < p[2]}, Nat)
BY NatLessThanWellFounded DEF OpToRel

LEMMA Induction ==
    ASSUME NEW S, 0 \in S, \A n \in Nat : n \in S => n + 1 \in S
    PROVE  Nat \subseteq S
<1> DEFINE T == Nat \ S
           R == {p \in Nat \X Nat : p[1] < p[2]}
<1>1. SUFFICES ASSUME T # {} PROVE FALSE
  OBVIOUS
<1>2. PICK x \in T : \A y \in T : <<y, x>> \notin R
  <2>1. T \subseteq Nat /\ IsWellFoundedOn(R, Nat)
    BY NatOrder
  <2> HIDE DEF R, T
  <2> QED BY <1>1, <2>1, WFMin
<1>3. x \in Nat /\ x # 0 /\ x - 1 \in Nat /\ x - 1 < x /\ (x - 1) + 1 = x
  OBVIOUS
<1>4. x - 1 \notin T
  BY <1>2, <1>3
<1> QED BY <1>2, <1>3, <1>4

Walk(f, link, from, m) == f = [k \in 0..m |-> IF k = 0 THEN from ELSE link[f[k - 1]]]

LEMMA WalkExists ==
    ASSUME NEW link, NEW from, NEW m \in Nat
    PROVE  \E f : Walk(f, link, from, m)
<1> DEFINE S == {k \in Nat : \E f : Walk(f, link, from, k)}
<1>1. 0 \in S
  <2>1. Walk([k \in 0..0 |-> from], link, from, 0)
    BY DEF Walk
  <2> QED BY <2>1
<1>2. ASSUME NEW n \in Nat, n \in S PROVE n + 1 \in S
  <2>1. PICK f : Walk(f, link, from, n)
    BY <1>2
  <2> DEFINE g == [k \in 0..n + 1 |-> IF k = n + 1 THEN link[f[n]] ELSE f[k]]
             h == [k \in 0..n + 1 |-> IF k = 0 THEN from ELSE link[g[k - 1]]]
  <2>2. ASSUME NEW k \in 0..n + 1 PROVE g[k] = h[k]
    <3>1. f = [j \in 0..n |-> IF j = 0 THEN from ELSE link[f[j - 1]]]
      BY <2>1 DEF Walk
    <3>2. CASE k = n + 1
      <4>1. k # 0 /\ k - 1 = n /\ n \in 0..n + 1 /\ n # n + 1
        BY <3>2
      <4> QED BY <4>1, <3>2
    <3>3. CASE k # n + 1
      <4>1. k \in 0..n
        BY <3>3
      <4>2. f[k] = IF k = 0 THEN from ELSE link[f[k - 1]]
        BY <3>1, <4>1
      <4>3. g[k] = f[k]
        BY <3>3
      <4>4. k # 0 => k - 1 \in 0..n + 1 /\ k - 1 # n + 1
        BY <4>1
      <4>5. k # 0 => g[k - 1] = f[k - 1]
        BY <4>4
      <4> QED BY <4>2, <4>3, <4>5
    <3> QED BY <3>2, <3>3
  <2>3. g = h
    BY <2>2
  <2>4. Walk(g, link, from, n + 1)
    BY <2>3 DEF Walk
  <2> QED BY <2>4
<1> HIDE DEF S
<1>3. Nat \subseteq S
  BY <1>1, <1>2, Induction
<1> QED BY <1>3 DEF S

LEMMA WalkUnique ==
    ASSUME NEW link, NEW from, NEW m \in Nat, NEW f, Walk(f, link, from, m),
           NEW n \in Nat, n >= m, NEW g, Walk(g, link, from, n)
    PROVE  \A k \in 0..m : f[k] = g[k]
<1> DEFINE S == {k \in Nat : k <= m => f[k] = g[k]}
<1>1. 0 \in S
  BY DEF Walk
<1>2. ASSUME NEW k \in Nat, k \in S PROVE k + 1 \in S
  <2>1. SUFFICES ASSUME k + 1 <= m PROVE f[k + 1] = g[k + 1]
    OBVIOUS
  <2>2. k + 1 \in 0..m /\ k + 1 \in 0..n /\ k + 1 # 0 /\ (k + 1) - 1 = k /\ k <= m
    BY <2>1
  <2>3. f[k + 1] = link[f[k]] /\ g[k + 1] = link[g[k]]
    BY <2>2 DEF Walk
  <2> QED BY <2>2, <2>3, <1>2
<1> HIDE DEF S
<1>3. Nat \subseteq S
  BY <1>1, <1>2, Induction
<1> QED BY <1>3 DEF S

(* A walk takes one step at a time. *)
LEMMA AlongSteps ==
    ASSUME NEW link, NEW from, NEW n \in Nat
    PROVE  /\ Along(link, from, 0) = from
           /\ Along(link, from, n + 1) = link[Along(link, from, n)]
<1>1. ASSUME NEW m \in Nat
      PROVE  \E f : Walk(f, link, from, m) /\ Along(link, from, m) = f[m]
  <2>1. \E f : f = [k \in 0..m |-> IF k = 0 THEN from ELSE link[f[k - 1]]]
    <3>1. \E f : Walk(f, link, from, m)
      BY WalkExists
    <3> QED BY <3>1 DEF Walk
  <2> DEFINE at == CHOOSE f : f = [k \in 0..m |-> IF k = 0 THEN from ELSE link[f[k - 1]]]
  <2>2. Walk(at, link, from, m)
    BY <2>1 DEF Walk
  <2>3. Along(link, from, m) = at[m]
    BY DEF Along
  <2> HIDE DEF at
  <2> QED BY <2>2, <2>3
<1>2. PICK f : Walk(f, link, from, n) /\ Along(link, from, n) = f[n]
  BY <1>1
<1>3. PICK g : Walk(g, link, from, n + 1) /\ Along(link, from, n + 1) = g[n + 1]
  BY <1>1
<1>4. f[n] = g[n]
  BY <1>2, <1>3, WalkUnique
<1>5. g[n + 1] = link[g[n]]
  <2>1. n + 1 \in 0..n + 1 /\ n + 1 # 0 /\ (n + 1) - 1 = n
    OBVIOUS
  <2> QED BY <1>3, <2>1 DEF Walk
<1>6. PICK h : Walk(h, link, from, 0) /\ Along(link, from, 0) = h[0]
  BY <1>1
<1> QED BY <1>2, <1>3, <1>4, <1>5, <1>6 DEF Walk

-----------------------------------------------------------------------------
(* The inductive invariant. *)

(* The links of the list, in order. *)
Chain(l) == [n \in 1..l.nSize |-> FromFirst(l, n)]

ListTypes ==
    [pFirst : Pointers, pLast : Pointers, nSize : Nat,
     pLastItem : Pointers, nNextItem : Nat, pItemsArray : Seq(Blocks) \cup {NULL},
     pNext : [Blocks -> Pointers], pPrev : [Blocks -> Pointers],
     pValue : [Blocks -> Pointers]]

OneToOne(f, n) == \A i, j \in 1..n : f[i] = f[j] => i = j

(* The links of l are those of c, in both directions. *)
Linked(l, c) ==
    /\ c \in [1..l.nSize -> Blocks]
    /\ OneToOne(c, l.nSize)
    /\ l.nSize = 0 => l.pFirst = NULL /\ l.pLast = NULL
    /\ l.nSize > 0 => /\ l.pFirst = c[1] /\ l.pLast = c[l.nSize]
                      /\ l.pPrev[c[1]] = NULL /\ l.pNext[c[l.nSize]] = NULL
    /\ \A i \in 1..l.nSize - 1 : l.pNext[c[i]] = c[i + 1] /\ l.pPrev[c[i + 1]] = c[i]

LinksOf(l, c) == {c[i] : i \in 1..l.nSize}

(* The items of the links, in order. *)
ItemsOf(l, c) == [i \in 1..l.nSize |-> l.pValue[c[i]]]

ItemSet(l, c) == {l.pValue[c[i]] : i \in 1..l.nSize}

(* What is no link of the list has no fields. *)
Loose(l, c) ==
    \A b \in Blocks : b \notin LinksOf(l, c) =>
        l.pNext[b] = NULL /\ l.pPrev[b] = NULL /\ l.pValue[b] = NULL

(* Each link has an item of its own. *)
Valued(l, c) ==
    ItemsOf(l, c) \in [1..l.nSize -> Blocks] /\ OneToOne(ItemsOf(l, c), l.nSize)

(* Both shortcuts tell the truth, and a small list has no cached link. *)
Cached(l, c) ==
    /\ l.pLastItem = NULL => l.nNextItem = 0
    /\ l.pLastItem # NULL => /\ ~IsSmall(l)
                             /\ l.nNextItem - 1 \in 1..l.nSize
                             /\ l.pLastItem = c[l.nNextItem - 1]
    /\ l.pItemsArray # NULL => l.nSize > 0 /\ l.pItemsArray = ItemsOf(l, c)

Shape(l, c) ==
    l \in ListTypes /\ Linked(l, c) /\ Loose(l, c) /\ Valued(l, c) /\ Cached(l, c)

(* The owners of a block, for the links S, their items V and references h. *)
OwnersOf(b, S, V, h) ==
    (IF b \in S THEN 1 ELSE 0) + (IF b \in V THEN 1 ELSE 0) + h[b]

Counted(m, S, V, h) ==
    \A b \in Blocks : IF b \in m.blocks THEN m.count[b] + 1 = OwnersOf(b, S, V, h)
                                        ELSE OwnersOf(b, S, V, h) = 0

Types ==
    /\ content \in [Blocks -> Values \cup {NULL}]
    /\ allocated \subseteq Blocks
    /\ nGCReferenceCount \in [Blocks -> 0..MaxHeld + 1]
    /\ held \in [Blocks -> 0..MaxHeld]
    /\ lUsingThreads \in BOOLEAN /\ crashed \in BOOLEAN
    /\ crashed => lUsingThreads

MemoryCounted ==
    Running => Counted(Memory, LinksOf(list, Chain(list)), ItemSet(list, Chain(list)), held)

IInv == Types /\ Shape(list, Chain(list)) /\ MemoryCounted

-----------------------------------------------------------------------------
(* Finding items. *)

LEMMA NextWalk ==
    ASSUME NEW l, l.nSize \in Nat, NEW c, Linked(l, c), NEW i \in 1..l.nSize
    PROVE  \A k \in Nat : i + k <= l.nSize => Along(l.pNext, c[i], k) = c[i + k]
<1> DEFINE S == {k \in Nat : i + k <= l.nSize => Along(l.pNext, c[i], k) = c[i + k]}
<1>1. 0 \in S
  <2>1. Along(l.pNext, c[i], 0) = c[i] /\ i + 0 = i
    BY AlongSteps
  <2> QED BY <2>1
<1>2. ASSUME NEW k \in Nat, k \in S PROVE k + 1 \in S
  <2>1. SUFFICES ASSUME i + (k + 1) <= l.nSize
                 PROVE  Along(l.pNext, c[i], k + 1) = c[i + (k + 1)]
    OBVIOUS
  <2>2. i + k <= l.nSize /\ i + k \in 1..l.nSize - 1 /\ (i + k) + 1 = i + (k + 1)
    BY <2>1
  <2>3. Along(l.pNext, c[i], k) = c[i + k]
    BY <1>2, <2>2
  <2>4. l.pNext[c[i + k]] = c[(i + k) + 1]
    BY <2>2 DEF Linked
  <2> QED BY <2>2, <2>3, <2>4, AlongSteps
<1> HIDE DEF S
<1>3. Nat \subseteq S
  BY <1>1, <1>2, Induction
<1> QED BY <1>3 DEF S

LEMMA PrevWalk ==
    ASSUME NEW l, l.nSize \in Nat, NEW c, Linked(l, c), NEW i \in 1..l.nSize
    PROVE  \A k \in Nat : k < i => Along(l.pPrev, c[i], k) = c[i - k]
<1> DEFINE S == {k \in Nat : k < i => Along(l.pPrev, c[i], k) = c[i - k]}
<1>1. 0 \in S
  <2>1. Along(l.pPrev, c[i], 0) = c[i] /\ i - 0 = i
    BY AlongSteps
  <2> QED BY <2>1
<1>2. ASSUME NEW k \in Nat, k \in S PROVE k + 1 \in S
  <2>1. SUFFICES ASSUME k + 1 < i
                 PROVE  Along(l.pPrev, c[i], k + 1) = c[i - (k + 1)]
    OBVIOUS
  <2>2. k < i /\ i - (k + 1) \in 1..l.nSize - 1 /\ (i - (k + 1)) + 1 = i - k
    BY <2>1
  <2>3. Along(l.pPrev, c[i], k) = c[i - k]
    BY <1>2, <2>2
  <2>4. l.pPrev[c[(i - (k + 1)) + 1]] = c[i - (k + 1)]
    BY <2>2 DEF Linked
  <2> QED BY <2>2, <2>3, <2>4, AlongSteps
<1> HIDE DEF S
<1>3. Nat \subseteq S
  BY <1>1, <1>2, Induction
<1> QED BY <1>3 DEF S

(* Both walks and the container find the n-th link. *)
LEMMA LinkFound ==
    ASSUME NEW l, l.nSize \in Nat, NEW c, Linked(l, c), NEW n \in 1..l.nSize
    PROVE  FromFirst(l, n) = c[n] /\ FromLast(l, n) = c[n] /\ Container(l, n) = c[n]
<1>1. l.nSize > 0 /\ 1 \in 1..l.nSize /\ l.nSize \in 1..l.nSize
  OBVIOUS
<1>2. l.pFirst = c[1] /\ l.pLast = c[l.nSize]
  BY <1>1 DEF Linked
<1>3. n - 1 \in Nat /\ 1 + (n - 1) = n /\ n <= l.nSize
  OBVIOUS
<1>4. FromFirst(l, n) = c[n]
  BY <1>1, <1>2, <1>3, NextWalk DEF FromFirst
<1>5. l.nSize - n \in Nat /\ l.nSize - n < l.nSize /\ l.nSize - (l.nSize - n) = n
  OBVIOUS
<1>6. FromLast(l, n) = c[n]
  BY <1>1, <1>2, <1>5, PrevWalk DEF FromLast
<1> QED BY <1>2, <1>4, <1>6 DEF Container

(* The chain of a list is the one that its links are those of. *)
LEMMA ChainIs ==
    ASSUME NEW l, l.nSize \in Nat, NEW c, Linked(l, c)
    PROVE  Chain(l) = c
<1>1. c = [n \in 1..l.nSize |-> c[n]]
  BY DEF Linked
<1>2. \A n \in 1..l.nSize : FromFirst(l, n) = c[n]
  BY LinkFound
<1> QED BY <1>1, <1>2 DEF Chain

(* The nearest end of a small list. *)
LEMMA SmallFound ==
    ASSUME NEW l, l.nSize \in Nat, NEW c, Linked(l, c), NEW n \in 1..l.nSize, IsSmall(l)
    PROVE  SmallLink(l, n) = c[n]
<1>1. l.nSize <= 6
  BY ConstantsAssumption DEF IsSmall
<1>2. FromFirst(l, n) = c[n] /\ l.pLast = c[l.nSize]
  BY LinkFound DEF Linked
<1>3. \A i \in 1..l.nSize - 1 : l.pPrev[c[i + 1]] = c[i]
  BY DEF Linked
<1>4. CASE n <= 2
  BY <1>2, <1>4 DEF SmallLink
<1>5. CASE n > 2 /\ n = l.nSize
  BY <1>2, <1>5 DEF SmallLink
<1>6. CASE n = 3 /\ n # l.nSize
  <2>1. SmallLink(l, n) = IF l.nSize = 4 THEN l.pPrev[l.pLast] ELSE FromFirst(l, 3)
    BY <1>6 DEF SmallLink
  <2>2. l.nSize = 4 => 3 \in 1..l.nSize - 1 /\ 3 + 1 = l.nSize
    BY <1>6
  <2> QED BY <2>1, <2>2, <1>2, <1>3, <1>6
<1>7. CASE n = 4 /\ n # l.nSize
  <2>1. SmallLink(l, n) = IF l.nSize = 5 THEN l.pPrev[l.pLast] ELSE l.pPrev[l.pPrev[l.pLast]]
    BY <1>7 DEF SmallLink
  <2>2. l.nSize = 5 \/ l.nSize = 6
    BY <1>1, <1>7
  <2>3. 4 \in 1..l.nSize - 1 /\ 4 + 1 = 5
    BY <2>2
  <2>4. l.pPrev[c[5]] = c[4]
    BY <2>3, <1>3
  <2>5. CASE l.nSize = 5
    BY <2>1, <2>4, <2>5, <1>2, <1>7
  <2>6. CASE l.nSize = 6
    <3>1. 5 \in 1..l.nSize - 1 /\ 5 + 1 = 6
      BY <2>6
    <3>2. l.pPrev[c[6]] = c[5]
      BY <3>1, <1>3
    <3> QED BY <2>1, <2>4, <2>6, <3>2, <1>2, <1>7
  <2> QED BY <2>2, <2>5, <2>6
<1>8. CASE n = 5 /\ n # l.nSize
  <2>1. SmallLink(l, n) = l.pPrev[l.pLast]
    BY <1>8 DEF SmallLink
  <2>2. l.nSize = 6 /\ 5 \in 1..l.nSize - 1 /\ 5 + 1 = 6
    BY <1>1, <1>8
  <2>3. l.pPrev[c[6]] = c[5]
    BY <2>2, <1>3
  <2> QED BY <2>1, <2>2, <2>3, <1>2, <1>8
<1>9. n <= 2 \/ n = l.nSize \/ n \in {3, 4, 5}
  BY <1>1
<1> QED BY <1>4, <1>5, <1>6, <1>7, <1>8, <1>9

(* Whatever link the search starts from, it ends at the n-th. *)
LEMMA LinkReached ==
    ASSUME NEW l, l.nSize \in Nat, l.nNextItem \in Nat, NEW c, Linked(l, c), Cached(l, c),
           NEW n \in 1..l.nSize, NEW st
    PROVE  GetLink(l, n, st) = c[n]
<1>1. LinearLink(l, n) = c[n]
  BY LinkFound DEF LinearLink
<1>2. IsSmall(l) => SmallLink(l, n) = c[n]
  BY SmallFound
<1>3. (n = 1 => l.pFirst = c[n]) /\ (n = l.nSize => l.pLast = c[n])
  BY DEF Linked
<1>4. l.pLastItem # NULL => CachedLink(l, n) = c[n]
  <2>1. SUFFICES ASSUME l.pLastItem # NULL PROVE CachedLink(l, n) = c[n]
    OBVIOUS
  <2> DEFINE at == l.nNextItem - 1
  <2>2. at \in 1..l.nSize /\ l.pLastItem = c[at]
    BY <2>1 DEF Cached
  <2>3. CASE n >= at
    <3>1. n - at \in Nat /\ at + (n - at) = n /\ n <= l.nSize
      BY <2>2, <2>3
    <3>2. CachedLink(l, n) = Along(l.pNext, l.pLastItem, n - at)
      BY <2>3 DEF CachedLink
    <3> HIDE DEF at
    <3> QED BY <2>2, <3>1, <3>2, NextWalk
  <2>4. CASE ~(n >= at)
    <3>1. at - n \in Nat /\ at - (at - n) = n /\ at - n < at
      BY <2>2, <2>4
    <3>2. CachedLink(l, n) = Along(l.pPrev, l.pLastItem, at - n)
      BY <2>4 DEF CachedLink
    <3> HIDE DEF at
    <3> QED BY <2>2, <3>1, <3>2, PrevWalk
  <2> QED BY <2>3, <2>4
<1> QED BY <1>1, <1>2, <1>3, <1>4 DEF GetLink

(* The cache at a link, the n-th. *)
CacheAt(l, link, n) == [l EXCEPT !.pLastItem = link, !.nNextItem = n + 1]

(* Reading finds the item of the n-th link, and leaves the cache there. *)
LEMMA ItemReached ==
    ASSUME NEW l, l.nSize \in Nat, l.nNextItem \in Nat, NEW c, Linked(l, c), Cached(l, c),
           NEW n \in 1..l.nSize, NEW st
    PROVE  /\ GetItem(l, n, st).item = l.pValue[c[n]]
           /\ GetItem(l, n, st).list =
                IF l.pItemsArray # NULL \/ IsSmall(l) \/ ~UsesCache(st) THEN l
                ELSE CacheAt(l, c[n], n)
<1>1. GetLink(l, n, st) = c[n]
  BY LinkReached
<1>2. l.pItemsArray # NULL => l.pItemsArray[n] = l.pValue[c[n]]
  BY DEF Cached, ItemsOf
<1> QED BY <1>1, <1>2 DEF GetItem, SetCache, CacheAt

-----------------------------------------------------------------------------
(* Changes of the chain. *)

(* A sequence of N elements with b after the first n of them. *)
With(c, N, n, b) ==
    [i \in 1..N + 1 |-> IF i <= n THEN c[i] ELSE IF i = n + 1 THEN b ELSE c[i - 1]]

(* A sequence of N elements without the n-th. *)
Without(c, N, n) == [i \in 1..N - 1 |-> IF i < n THEN c[i] ELSE c[i + 1]]

Entries(c, N) == {c[i] : i \in 1..N}

NoShortcuts(l) == l.pLastItem = NULL /\ l.nNextItem = 0 /\ l.pItemsArray = NULL

LEMMA WithOneToOne ==
    ASSUME NEW c, NEW N \in Nat, NEW n \in 0..N, NEW b, OneToOne(c, N),
           \A i \in 1..N : c[i] # b
    PROVE  OneToOne(With(c, N, n, b), N + 1)
<1> DEFINE d == With(c, N, n, b)
<1>1. SUFFICES ASSUME NEW i \in 1..N + 1, NEW j \in 1..N + 1, d[i] = d[j] PROVE i = j
  BY DEF OneToOne
<1> DEFINE at(k) == IF k <= n THEN k ELSE k - 1
<1>2. \A k \in 1..N + 1 : k # n + 1 => at(k) \in 1..N /\ d[k] = c[at(k)]
  <2>1. TAKE k \in 1..N + 1
  <2>2. d[k] = IF k <= n THEN c[k] ELSE IF k = n + 1 THEN b ELSE c[k - 1]
    BY DEF With
  <2> QED BY <2>2
<1>3. d[n + 1] = b
  <2>1. n + 1 \in 1..N + 1 /\ ~(n + 1 <= n)
    OBVIOUS
  <2> QED BY <2>1 DEF With
<1> HIDE DEF d
<1>4. CASE i = n + 1 \/ j = n + 1
  <2>1. i # j => FALSE
    BY <1>1, <1>2, <1>3, <1>4
  <2> QED BY <2>1
<1>5. CASE i # n + 1 /\ j # n + 1
  <2>1. at(i) = at(j)
    <3>1. at(i) \in 1..N /\ at(j) \in 1..N /\ c[at(i)] = c[at(j)]
      BY <1>1, <1>2, <1>5
    <3> HIDE DEF at
    <3> QED BY <3>1 DEF OneToOne
  <2> QED BY <2>1, <1>5
<1> QED BY <1>4, <1>5

LEMMA WithType ==
    ASSUME NEW S, NEW N \in Nat, NEW c \in [1..N -> S], NEW n \in 0..N, NEW b \in S
    PROVE  With(c, N, n, b) \in [1..N + 1 -> S]
<1>1. ASSUME NEW i \in 1..N + 1
      PROVE  (IF i <= n THEN c[i] ELSE IF i = n + 1 THEN b ELSE c[i - 1]) \in S
  <2>1. i <= n => i \in 1..N
    OBVIOUS
  <2>2. ~(i <= n) /\ i # n + 1 => i - 1 \in 1..N
    OBVIOUS
  <2> QED BY <2>1, <2>2
<1> QED BY <1>1 DEF With

LEMMA WithRange ==
    ASSUME NEW c, NEW N \in Nat, NEW n \in 0..N, NEW b
    PROVE  \A x : x \in Entries(With(c, N, n, b), N + 1) <=> x \in Entries(c, N) \/ x = b
<1> DEFINE d == With(c, N, n, b)
<1>1. \A k \in 1..N + 1 : d[k] = IF k <= n THEN c[k] ELSE IF k = n + 1 THEN b ELSE c[k - 1]
  BY DEF With
<1> HIDE DEF d
<1>2. ASSUME NEW k \in 1..N + 1 PROVE d[k] \in {c[i] : i \in 1..N} \cup {b}
  <2>1. k <= n => k \in 1..N
    OBVIOUS
  <2>2. ~(k <= n) /\ k # n + 1 => k - 1 \in 1..N
    OBVIOUS
  <2> QED BY <1>1, <2>1, <2>2
<1>3. ASSUME NEW i \in 1..N PROVE \E k \in 1..N + 1 : d[k] = c[i]
  <2>1. CASE i <= n
    <3>1. i \in 1..N + 1
      OBVIOUS
    <3> QED BY <3>1, <2>1, <1>1
  <2>2. CASE ~(i <= n)
    <3>1. i + 1 \in 1..N + 1 /\ ~(i + 1 <= n) /\ i + 1 # n + 1 /\ (i + 1) - 1 = i
      BY <2>2
    <3> QED BY <3>1, <1>1
  <2> QED BY <2>1, <2>2
<1>4. \E k \in 1..N + 1 : d[k] = b
  <2>1. n + 1 \in 1..N + 1 /\ ~(n + 1 <= n)
    OBVIOUS
  <2> QED BY <2>1, <1>1
<1> QED BY <1>2, <1>3, <1>4 DEF Entries, d

(* A list that differs by a block b, linked after the first n links. *)
Inserted(l, m, c, n, b) ==
    /\ m \in ListTypes /\ NoShortcuts(m)
    /\ m.nSize = l.nSize + 1
    /\ m.pFirst = (IF n = 0 THEN b ELSE l.pFirst)
    /\ m.pLast = (IF n = l.nSize THEN b ELSE l.pLast)
    /\ m.pValue = [l.pValue EXCEPT ![b] = b]
    /\ m.pNext[b] = IF n = l.nSize THEN NULL ELSE c[n + 1]
    /\ m.pPrev[b] = IF n = 0 THEN NULL ELSE c[n]
    /\ n > 0 => m.pNext[c[n]] = b
    /\ n < l.nSize => m.pPrev[c[n + 1]] = b
    /\ \A x \in Blocks : /\ x # b /\ (n > 0 => x # c[n]) => m.pNext[x] = l.pNext[x]
                         /\ x # b /\ (n < l.nSize => x # c[n + 1]) => m.pPrev[x] = l.pPrev[x]

LEMMA InsertedShape ==
    ASSUME NEW l, NEW c, Shape(l, c), NEW n \in 0..l.nSize, NEW b \in Blocks,
           b \notin LinksOf(l, c), b \notin ItemSet(l, c),
           NEW m, Inserted(l, m, c, n, b)
    PROVE  LET d == With(c, l.nSize, n, b)
           IN  /\ Shape(m, d)
               /\ ItemsOf(m, d) = With(ItemsOf(l, c), l.nSize, n, b)
               /\ LinksOf(m, d) = LinksOf(l, c) \cup {b}
               /\ ItemSet(m, d) = ItemSet(l, c) \cup {b}
<1> DEFINE N == l.nSize
           d == With(c, N, n, b)
<1>1. N \in Nat /\ n \in 0..N /\ m.nSize = N + 1 /\ m \in ListTypes /\ l \in ListTypes
  <2>1. l \in ListTypes
    BY DEF Shape
  <2>2. N \in Nat
    BY <2>1 DEF ListTypes
  <2> QED BY <2>1, <2>2 DEF Inserted
<1>2. c \in [1..N -> Blocks] /\ OneToOne(c, N) /\ (\A i \in 1..N : c[i] # b)
  BY DEF Shape, Linked, LinksOf
<1>3. d \in [1..N + 1 -> Blocks] /\ OneToOne(d, N + 1)
  BY <1>1, <1>2, WithType, WithOneToOne
<1>4. \A i \in 1..N + 1 : d[i] = IF i <= n THEN c[i] ELSE IF i = n + 1 THEN b ELSE c[i - 1]
  BY <1>1 DEF With
<1>5. LinksOf(m, d) = LinksOf(l, c) \cup {b}
  <2>1. \A x : x \in Entries(d, N + 1) <=> x \in Entries(c, N) \/ x = b
    <3> HIDE DEF N
    <3> QED BY <1>1, WithRange
  <2> HIDE DEF d
  <2> QED BY <1>1, <2>1 DEF LinksOf, Entries
<1>6. ItemsOf(l, c) \in [1..N -> Blocks] /\ OneToOne(ItemsOf(l, c), N)
  BY DEF Shape, Valued
<1>7. \A i \in 1..N : ItemsOf(l, c)[i] # b /\ ItemsOf(l, c)[i] = l.pValue[c[i]]
  BY DEF ItemsOf, ItemSet
<1>8. m.pValue[b] = b /\ \A x \in Blocks : x # b => m.pValue[x] = l.pValue[x]
  BY <1>1 DEF Inserted, ListTypes
<1> DEFINE e == With(ItemsOf(l, c), N, n, b)
<1>10. e \in [1..N + 1 -> Blocks] /\ OneToOne(e, N + 1)
  <2>1. \A i \in 1..N : ItemsOf(l, c)[i] # b
    BY <1>7
  <2> QED BY <1>1, <1>6, <2>1, WithType, WithOneToOne
<1>9. ItemsOf(m, d) = e
  <2>1. ASSUME NEW i \in 1..N + 1 PROVE m.pValue[d[i]] = e[i]
    <3>1. e[i] = IF i <= n THEN ItemsOf(l, c)[i]
                 ELSE IF i = n + 1 THEN b ELSE ItemsOf(l, c)[i - 1]
      BY <1>1 DEF With
    <3>2. CASE i <= n
      <4>1. i \in 1..N
        BY <3>2, <1>1
      <4>2. d[i] = c[i] /\ c[i] \in Blocks /\ c[i] # b
        BY <4>1, <3>2, <1>4, <1>2
      <4> QED BY <3>1, <3>2, <4>1, <4>2, <1>7, <1>8
    <3>3. CASE i = n + 1
      <4>1. ~(i <= n)
        BY <3>3
      <4>2. d[i] = b
        BY <4>1, <3>3, <1>4
      <4> QED BY <3>1, <3>3, <4>1, <4>2, <1>8
    <3>4. CASE ~(i <= n) /\ i # n + 1
      <4>1. i - 1 \in 1..N
        BY <3>4, <1>1
      <4>2. d[i] = c[i - 1] /\ c[i - 1] \in Blocks /\ c[i - 1] # b
        BY <4>1, <3>4, <1>4, <1>2
      <4> QED BY <3>1, <3>4, <4>1, <4>2, <1>7, <1>8
    <3> QED BY <3>2, <3>3, <3>4
  <2>2. e = [i \in 1..N + 1 |-> e[i]]
    BY <1>10
  <2>3. ItemsOf(m, d) = [i \in 1..N + 1 |-> m.pValue[d[i]]]
    BY <1>1 DEF ItemsOf
  <2> HIDE DEF e, d
  <2> QED BY <2>1, <2>2, <2>3
<1>11. ItemSet(m, d) = ItemSet(l, c) \cup {b}
  <2>1. ItemSet(m, d) = {e[i] : i \in 1..N + 1}
    <3>1. \A i \in 1..N + 1 : ItemsOf(m, d)[i] = m.pValue[d[i]]
      BY <1>1 DEF ItemsOf
    <3> QED BY <1>1, <1>9, <3>1 DEF ItemSet
  <2>2. ItemSet(l, c) = {ItemsOf(l, c)[i] : i \in 1..N}
    BY <1>7 DEF ItemSet
  <2>3. \A x : x \in Entries(e, N + 1) <=> x \in Entries(ItemsOf(l, c), N) \/ x = b
    <3> HIDE DEF N
    <3> QED BY <1>1, WithRange
  <2> QED BY <2>1, <2>2, <2>3 DEF Entries
<1> HIDE DEF d, e
<1>12. Linked(m, d)
  <2>1. m.nSize > 0 /\ 1 \in 1..N + 1 /\ N + 1 \in 1..N + 1
    BY <1>1
  <2>2. m.pFirst = d[1] /\ m.pPrev[d[1]] = NULL
    <3>1. CASE n = 0
      <4>1. d[1] = b
        BY <3>1, <2>1, <1>4
      <4> QED BY <3>1, <4>1 DEF Inserted
    <3>2. CASE n # 0
      <4>1. N > 0 /\ 1 \in 1..N /\ 1 <= n
        BY <3>2, <1>1
      <4>2. d[1] = c[1] /\ l.pFirst = c[1] /\ l.pPrev[c[1]] = NULL
        BY <4>1, <2>1, <1>4 DEF Shape, Linked
      <4>3. n < N => n + 1 \in 1..N /\ n + 1 # 1
        BY <3>2, <1>1
      <4>4. n < N => c[1] # c[n + 1]
        BY <4>1, <4>3, <1>2 DEF OneToOne
      <4>5. c[1] # b /\ c[1] \in Blocks
        BY <4>1, <1>2
      <4> QED BY <3>2, <4>2, <4>4, <4>5 DEF Inserted
    <3> QED BY <3>1, <3>2
  <2>3. m.pLast = d[N + 1] /\ m.pNext[d[N + 1]] = NULL
    <3>1. CASE n = N
      <4>1. d[N + 1] = b
        BY <3>1, <2>1, <1>1, <1>4
      <4> QED BY <3>1, <4>1 DEF Inserted
    <3>2. CASE n # N
      <4>1. N > 0 /\ N \in 1..N /\ ~(N + 1 <= n) /\ N + 1 # n + 1 /\ (N + 1) - 1 = N
        BY <3>2, <1>1
      <4>2. d[N + 1] = c[N] /\ l.pLast = c[N] /\ l.pNext[c[N]] = NULL
        BY <4>1, <2>1, <1>4 DEF Shape, Linked
      <4>3. n > 0 => n \in 1..N
        BY <1>1
      <4>4. n > 0 => c[N] # c[n]
        BY <4>1, <4>3, <3>2, <1>2 DEF OneToOne
      <4>5. c[N] # b /\ c[N] \in Blocks
        BY <4>1, <1>2
      <4> QED BY <3>2, <4>2, <4>4, <4>5 DEF Inserted
    <3> QED BY <3>1, <3>2
  <2>4. ASSUME NEW i \in 1..N PROVE m.pNext[d[i]] = d[i + 1] /\ m.pPrev[d[i + 1]] = d[i]
    <3>1. i \in 1..N + 1 /\ i + 1 \in 1..N + 1
      BY <1>1
    <3>2. CASE i < n
      <4>1. i <= n /\ i + 1 <= n /\ i \in 1..N - 1 /\ i \in 1..N /\ i + 1 \in 1..N /\ n \in 1..N
        BY <3>2, <1>1
      <4>2. d[i] = c[i] /\ d[i + 1] = c[i + 1]
        BY <4>1, <3>1, <1>4
      <4>3. l.pNext[c[i]] = c[i + 1] /\ l.pPrev[c[i + 1]] = c[i]
        BY <4>1 DEF Shape, Linked
      <4>4. c[i] # c[n] /\ c[i] # b /\ c[i + 1] # b /\ c[i] \in Blocks /\ c[i + 1] \in Blocks
        BY <4>1, <3>2, <1>2 DEF OneToOne
      <4>5. n < N => n + 1 \in 1..N /\ i + 1 # n + 1
        BY <3>2, <1>1
      <4>6. n < N => c[i + 1] # c[n + 1]
        BY <4>1, <4>5, <1>2 DEF OneToOne
      <4> QED BY <4>2, <4>3, <4>4, <4>6 DEF Inserted
    <3>3. CASE i = n
      <4>1. d[i] = c[n] /\ n > 0
        BY <3>1, <3>3, <1>4
      <4>2. d[i + 1] = b
        BY <3>1, <3>3, <1>4
      <4> QED BY <4>1, <4>2 DEF Inserted
    <3>4. CASE i = n + 1
      <4>1. d[i] = b
        BY <3>1, <3>4, <1>4
      <4>2. ~(i + 1 <= n) /\ i + 1 # n + 1 /\ (i + 1) - 1 = n + 1 /\ n < N
        BY <3>4, <1>1
      <4>3. d[i + 1] = c[n + 1]
        BY <4>2, <3>1, <1>4
      <4> QED BY <4>1, <4>2, <4>3 DEF Inserted
    <3>5. CASE i > n + 1
      <4>1. /\ ~(i <= n) /\ i # n + 1 /\ ~(i + 1 <= n) /\ i + 1 # n + 1 /\ (i + 1) - 1 = i
            /\ i - 1 \in 1..N - 1 /\ (i - 1) + 1 = i /\ i - 1 \in 1..N /\ n < N /\ n + 1 \in 1..N
        BY <3>5, <1>1
      <4>2. d[i] = c[i - 1] /\ d[i + 1] = c[i]
        BY <4>1, <3>1, <1>4
      <4>3. l.pNext[c[i - 1]] = c[i] /\ l.pPrev[c[i]] = c[i - 1]
        BY <4>1 DEF Shape, Linked
      <4>4. c[i - 1] # b /\ c[i] # b /\ c[i - 1] \in Blocks /\ c[i] \in Blocks
        BY <4>1, <1>2
      <4>5. n > 0 => n \in 1..N /\ i - 1 # n
        BY <3>5, <1>1
      <4>6. n > 0 => c[i - 1] # c[n]
        BY <4>1, <4>5, <1>2 DEF OneToOne
      <4>7. c[i] # c[n + 1]
        BY <4>1, <1>2 DEF OneToOne
      <4> QED BY <4>1, <4>2, <4>3, <4>4, <4>6, <4>7 DEF Inserted
    <3>6. i < n \/ i = n \/ i = n + 1 \/ i > n + 1
      BY <1>1
    <3> QED BY <3>2, <3>3, <3>4, <3>5, <3>6
  <2>5. m.nSize - 1 = N /\ m.nSize # 0
    BY <1>1
  <2> QED BY <1>1, <1>3, <2>2, <2>3, <2>4, <2>5 DEF Linked
<1>13. Loose(m, d)
  <2>1. SUFFICES ASSUME NEW x \in Blocks, x \notin LinksOf(m, d)
                 PROVE  m.pNext[x] = NULL /\ m.pPrev[x] = NULL /\ m.pValue[x] = NULL
    BY DEF Loose
  <2>2. x # b /\ x \notin LinksOf(l, c)
    BY <2>1, <1>5
  <2>3. l.pNext[x] = NULL /\ l.pPrev[x] = NULL /\ l.pValue[x] = NULL
    BY <2>2 DEF Shape, Loose
  <2>4. (n > 0 => n \in 1..N) /\ (n < N => n + 1 \in 1..N)
    BY <1>1
  <2>5. (n > 0 => x # c[n]) /\ (n < N => x # c[n + 1])
    BY <2>2, <2>4 DEF LinksOf
  <2> QED BY <2>2, <2>3, <2>5, <1>8 DEF Inserted
<1>14. Valued(m, d)
  BY <1>1, <1>9, <1>10 DEF Valued
<1>15. Cached(m, d)
  BY DEF Cached, Inserted, NoShortcuts
<1>16. Shape(m, d)
  BY <1>1, <1>12, <1>13, <1>14, <1>15 DEF Shape
<1> QED BY <1>5, <1>9, <1>11, <1>16 DEF d, e

LEMMA WithoutAt ==
    ASSUME NEW c, NEW N \in Nat, NEW n \in 1..N, NEW i \in 1..N - 1
    PROVE  /\ i < n => i \in 1..N /\ Without(c, N, n)[i] = c[i]
           /\ ~(i < n) => i + 1 \in 1..N /\ Without(c, N, n)[i] = c[i + 1]
BY DEF Without

LEMMA WithoutOneToOne ==
    ASSUME NEW c, NEW N \in Nat, NEW n \in 1..N, OneToOne(c, N)
    PROVE  /\ OneToOne(Without(c, N, n), N - 1)
           /\ \A i \in 1..N - 1 : Without(c, N, n)[i] # c[n]
<1> DEFINE d == Without(c, N, n)
           at(k) == IF k < n THEN k ELSE k + 1
<1>1. \A k \in 1..N - 1 : at(k) \in 1..N /\ d[k] = c[at(k)] /\ at(k) # n
  <2>1. TAKE k \in 1..N - 1
  <2>2. /\ k < n => k \in 1..N /\ d[k] = c[k]
        /\ ~(k < n) => k + 1 \in 1..N /\ d[k] = c[k + 1]
    BY WithoutAt
  <2> HIDE DEF d
  <2>3. CASE k < n
    BY <2>2, <2>3
  <2>4. CASE ~(k < n)
    BY <2>2, <2>4
  <2> QED BY <2>3, <2>4
<1>2. \A i, j \in 1..N - 1 : at(i) = at(j) => i = j
  OBVIOUS
<1> HIDE DEF d, at
<1>3. OneToOne(d, N - 1)
  BY <1>1, <1>2 DEF OneToOne
<1>4. \A i \in 1..N - 1 : d[i] # c[n]
  BY <1>1 DEF OneToOne
<1> QED BY <1>3, <1>4 DEF d

LEMMA WithoutType ==
    ASSUME NEW S, NEW N \in Nat, NEW c \in [1..N -> S], NEW n \in 1..N
    PROVE  Without(c, N, n) \in [1..N - 1 -> S]
<1>1. ASSUME NEW i \in 1..N - 1 PROVE (IF i < n THEN c[i] ELSE c[i + 1]) \in S
  <2>1. i \in 1..N /\ i + 1 \in 1..N
    OBVIOUS
  <2> QED BY <2>1
<1> QED BY <1>1 DEF Without

LEMMA WithoutRange ==
    ASSUME NEW c, NEW N \in Nat, NEW n \in 1..N, OneToOne(c, N)
    PROVE  \A x : x \in Entries(Without(c, N, n), N - 1) <=> x \in Entries(c, N) /\ x # c[n]
<1> DEFINE d == Without(c, N, n)
<1>1. \A i \in 1..N - 1 : /\ i < n => i \in 1..N /\ d[i] = c[i]
                          /\ ~(i < n) => i + 1 \in 1..N /\ d[i] = c[i + 1]
  BY WithoutAt
<1>2. \A i \in 1..N - 1 : d[i] # c[n]
  BY WithoutOneToOne
<1> HIDE DEF d
<1>3. ASSUME NEW i \in 1..N, i # n PROVE \E k \in 1..N - 1 : d[k] = c[i]
  <2>1. CASE i < n
    <3>1. i \in 1..N - 1
      BY <2>1
    <3> QED BY <3>1, <2>1, <1>1
  <2>2. CASE ~(i < n)
    <3>1. i - 1 \in 1..N - 1 /\ ~(i - 1 < n) /\ (i - 1) + 1 = i
      BY <2>2, <1>3
    <3> QED BY <3>1, <1>1
  <2> QED BY <2>1, <2>2
<1>4. \A k \in 1..N - 1 : d[k] \in Entries(c, N)
  BY <1>1 DEF Entries
<1> QED BY <1>2, <1>3, <1>4 DEF Entries, d

(* A list that differs by the n-th link, which is gone. *)
Removed(l, m, c, n) ==
    LET prev == IF n = 1 THEN NULL ELSE c[n - 1]
        next == IF n = l.nSize THEN NULL ELSE c[n + 1]
    IN  /\ m \in ListTypes /\ NoShortcuts(m)
        /\ m.nSize = l.nSize - 1
        /\ m.pFirst = (IF n = 1 THEN next ELSE l.pFirst)
        /\ m.pLast = (IF n = l.nSize THEN prev ELSE l.pLast)
        /\ m.pNext[c[n]] = NULL /\ m.pPrev[c[n]] = NULL /\ m.pValue[c[n]] = NULL
        /\ n > 1 => m.pNext[c[n - 1]] = next
        /\ n < l.nSize => m.pPrev[c[n + 1]] = prev
        /\ \A x \in Blocks :
            x # c[n] => /\ (n > 1 => x # c[n - 1]) => m.pNext[x] = l.pNext[x]
                        /\ (n < l.nSize => x # c[n + 1]) => m.pPrev[x] = l.pPrev[x]
                        /\ m.pValue[x] = l.pValue[x]

LEMMA RemovedShape ==
    ASSUME NEW l, NEW c, Shape(l, c), NEW n \in 1..l.nSize, NEW m, Removed(l, m, c, n)
    PROVE  LET d == Without(c, l.nSize, n)
           IN  /\ Shape(m, d)
               /\ ItemsOf(m, d) = Without(ItemsOf(l, c), l.nSize, n)
               /\ \A x : x \in LinksOf(m, d) <=> x \in LinksOf(l, c) /\ x # c[n]
               /\ \A x : x \in ItemSet(m, d) <=> x \in ItemSet(l, c) /\ x # l.pValue[c[n]]
<1> DEFINE N == l.nSize
           d == Without(c, N, n)
           e == Without(ItemsOf(l, c), N, n)
<1>1. N \in Nat /\ n \in 1..N /\ m.nSize = N - 1 /\ m \in ListTypes /\ l \in ListTypes
  <2>1. l \in ListTypes
    BY DEF Shape
  <2>2. N \in Nat
    BY <2>1 DEF ListTypes
  <2> QED BY <2>1, <2>2 DEF Removed
<1>2. c \in [1..N -> Blocks] /\ OneToOne(c, N) /\ c[n] \in Blocks
  BY <1>1 DEF Shape, Linked
<1>3. d \in [1..N - 1 -> Blocks] /\ OneToOne(d, N - 1)
  BY <1>1, <1>2, WithoutType, WithoutOneToOne
<1>4. \A i \in 1..N - 1 : /\ i < n => i \in 1..N /\ d[i] = c[i]
                          /\ ~(i < n) => i + 1 \in 1..N /\ d[i] = c[i + 1]
  BY <1>1, WithoutAt
<1>5. \A x : x \in LinksOf(m, d) <=> x \in LinksOf(l, c) /\ x # c[n]
  <2>1. \A x : x \in Entries(d, N - 1) <=> x \in Entries(c, N) /\ x # c[n]
    BY <1>1, <1>2, WithoutRange
  <2> HIDE DEF d
  <2> QED BY <1>1, <2>1 DEF LinksOf, Entries
<1>6. ItemsOf(l, c) \in [1..N -> Blocks] /\ OneToOne(ItemsOf(l, c), N)
  BY DEF Shape, Valued
<1>7. \A i \in 1..N : ItemsOf(l, c)[i] = l.pValue[c[i]]
  BY DEF ItemsOf
<1>8. e \in [1..N - 1 -> Blocks] /\ OneToOne(e, N - 1)
  BY <1>1, <1>6, WithoutType, WithoutOneToOne
<1>9. ItemsOf(m, d) = e
  <2>1. ASSUME NEW i \in 1..N - 1 PROVE m.pValue[d[i]] = e[i]
    <3>1. /\ i < n => e[i] = ItemsOf(l, c)[i]
          /\ ~(i < n) => e[i] = ItemsOf(l, c)[i + 1]
      BY <1>1, WithoutAt
    <3>2. d[i] \in Blocks /\ d[i] # c[n]
      BY <1>1, <1>2, <1>3, WithoutOneToOne
    <3>3. m.pValue[d[i]] = l.pValue[d[i]]
      BY <3>2 DEF Removed
    <3> HIDE DEF d, e
    <3> QED BY <3>1, <3>3, <1>4, <1>7
  <2>2. e = [i \in 1..N - 1 |-> e[i]]
    BY <1>8
  <2>3. ItemsOf(m, d) = [i \in 1..N - 1 |-> m.pValue[d[i]]]
    BY <1>1 DEF ItemsOf
  <2> HIDE DEF e, d
  <2> QED BY <2>1, <2>2, <2>3
<1>10. \A x : x \in ItemSet(m, d) <=> x \in ItemSet(l, c) /\ x # l.pValue[c[n]]
  <2>1. \A x : x \in Entries(e, N - 1) <=> x \in Entries(ItemsOf(l, c), N) /\ x # ItemsOf(l, c)[n]
    BY <1>1, <1>6, WithoutRange
  <2>2. ItemSet(m, d) = Entries(e, N - 1)
    <3>1. \A i \in 1..N - 1 : ItemsOf(m, d)[i] = m.pValue[d[i]]
      BY <1>1 DEF ItemsOf
    <3> HIDE DEF d, e
    <3> QED BY <1>1, <1>9, <3>1 DEF ItemSet, Entries
  <2>3. ItemSet(l, c) = Entries(ItemsOf(l, c), N)
    BY <1>7 DEF ItemSet, Entries
  <2> QED BY <2>1, <2>2, <2>3, <1>1, <1>7
<1> HIDE DEF d, e
<1>11. (n > 1 => n - 1 \in 1..N /\ n - 1 \in 1..N - 1) /\ (n < N => n + 1 \in 1..N /\ n \in 1..N - 1)
  BY <1>1
<1>12. ASSUME NEW i \in 1..N, i # n
       PROVE  /\ c[i] \in Blocks /\ c[i] # c[n]
              /\ n > 1 /\ i # n - 1 => c[i] # c[n - 1]
              /\ n < N /\ i # n + 1 => c[i] # c[n + 1]
  BY <1>1, <1>2, <1>11, <1>12 DEF OneToOne
<1>13. Linked(m, d)
  <2>1. m.nSize = 0 => m.pFirst = NULL /\ m.pLast = NULL
    <3>1. SUFFICES ASSUME N = 1 PROVE m.pFirst = NULL /\ m.pLast = NULL
      BY <1>1
    <3>2. n = 1 /\ n = N
      BY <3>1, <1>1
    <3> QED BY <3>2 DEF Removed
  <2>2. ASSUME m.nSize > 0 PROVE m.pFirst = d[1] /\ m.pPrev[d[1]] = NULL
    <3>1. N > 1 /\ 1 \in 1..N - 1 /\ 1 \in 1..N /\ 1 + 1 = 2 /\ 2 \in 1..N
      BY <2>2, <1>1
    <3>2. CASE n = 1
      <4>1. d[1] = c[n + 1] /\ n # N /\ n < N
        BY <3>1, <3>2, <1>4
      <4> QED BY <3>2, <4>1 DEF Removed
    <3>3. CASE n # 1
      <4>1. d[1] = c[1] /\ n > 1 /\ 1 # n + 1
        BY <3>1, <3>3, <1>1, <1>4
      <4>2. l.pFirst = c[1] /\ l.pPrev[c[1]] = NULL
        <5>1. l.nSize > 0
          BY <1>1, <3>1
        <5> QED BY <5>1 DEF Shape, Linked
      <4>3. c[1] \in Blocks /\ c[1] # c[n] /\ (n < N => c[1] # c[n + 1])
        BY <3>1, <3>3, <4>1, <1>12
      <4> QED BY <3>3, <4>1, <4>2, <4>3 DEF Removed
    <3> QED BY <3>2, <3>3
  <2>3. ASSUME m.nSize > 0 PROVE m.pLast = d[N - 1] /\ m.pNext[d[N - 1]] = NULL
    <3>1. N > 1 /\ N - 1 \in 1..N - 1 /\ N \in 1..N /\ (N - 1) + 1 = N
      BY <2>3, <1>1
    <3>2. CASE n = N
      <4>1. d[N - 1] = c[n - 1] /\ n # 1 /\ n > 1
        BY <3>1, <3>2, <1>4
      <4> QED BY <3>2, <4>1 DEF Removed
    <3>3. CASE n # N
      <4>1. d[N - 1] = c[N] /\ n < N /\ N # n - 1
        BY <3>1, <3>3, <1>1, <1>4
      <4>2. l.pLast = c[N] /\ l.pNext[c[N]] = NULL
        BY <3>1 DEF Shape, Linked
      <4>3. c[N] \in Blocks /\ c[N] # c[n] /\ (n > 1 => c[N] # c[n - 1])
        BY <3>1, <3>3, <4>1, <1>12
      <4> QED BY <3>3, <4>1, <4>2, <4>3 DEF Removed
    <3> QED BY <3>2, <3>3
  <2>4. ASSUME NEW i \in 1..m.nSize - 1
        PROVE  m.pNext[d[i]] = d[i + 1] /\ m.pPrev[d[i + 1]] = d[i]
    <3>1. i \in 1..N - 1 /\ i + 1 \in 1..N - 1 /\ i \in 1..N /\ i + 1 \in 1..N
      BY <1>1
    <3>2. CASE i + 1 < n
      <4>1. i < n /\ i # n /\ i + 1 # n /\ n > 1 /\ i # n - 1 /\ i + 1 # n + 1
        BY <3>2, <1>1
      <4>2. d[i] = c[i] /\ d[i + 1] = c[i + 1]
        BY <3>1, <3>2, <4>1, <1>4
      <4>3. l.pNext[c[i]] = c[i + 1] /\ l.pPrev[c[i + 1]] = c[i]
        BY <3>1 DEF Shape, Linked
      <4>4. /\ c[i] \in Blocks /\ c[i] # c[n] /\ c[i] # c[n - 1]
            /\ c[i + 1] \in Blocks /\ c[i + 1] # c[n] /\ (n < N => c[i + 1] # c[n + 1])
        BY <3>1, <4>1, <1>12
      <4> QED BY <4>2, <4>3, <4>4 DEF Removed
    <3>3. CASE i + 1 = n
      <4>1. i < n /\ ~(i + 1 < n) /\ n > 1 /\ n < N /\ n # 1 /\ n # N /\ i = n - 1
        BY <3>1, <3>3, <1>1
      <4>2. d[i] = c[n - 1] /\ d[i + 1] = c[n + 1]
        BY <3>1, <3>3, <4>1, <1>4
      <4> QED BY <4>1, <4>2 DEF Removed
    <3>4. CASE i + 1 > n
      <4>1. /\ ~(i < n) /\ ~(i + 1 < n) /\ i + 1 # n /\ (i + 1) + 1 # n /\ i + 1 # n - 1
            /\ (i + 1) + 1 # n + 1 /\ i + 1 \in 1..N - 1 /\ (i + 1) + 1 \in 1..N
        BY <3>1, <3>4, <1>1
      <4>2. d[i] = c[i + 1] /\ d[i + 1] = c[(i + 1) + 1]
        BY <3>1, <4>1, <1>4
      <4>3. l.pNext[c[i + 1]] = c[(i + 1) + 1] /\ l.pPrev[c[(i + 1) + 1]] = c[i + 1]
        BY <4>1 DEF Shape, Linked
      <4>4. /\ c[i + 1] \in Blocks /\ c[i + 1] # c[n] /\ (n > 1 => c[i + 1] # c[n - 1])
            /\ c[(i + 1) + 1] \in Blocks /\ c[(i + 1) + 1] # c[n]
            /\ n < N => c[(i + 1) + 1] # c[n + 1]
        BY <3>1, <4>1, <1>12
      <4> QED BY <4>2, <4>3, <4>4 DEF Removed
    <3>5. i + 1 < n \/ i + 1 = n \/ i + 1 > n
      BY <1>1
    <3> QED BY <3>2, <3>3, <3>4, <3>5
  <2> QED BY <1>1, <1>3, <2>1, <2>2, <2>3, <2>4 DEF Linked
<1>14. Loose(m, d)
  <2>1. SUFFICES ASSUME NEW x \in Blocks, x \notin LinksOf(m, d)
                 PROVE  m.pNext[x] = NULL /\ m.pPrev[x] = NULL /\ m.pValue[x] = NULL
    BY DEF Loose
  <2>2. CASE x = c[n]
    BY <2>2 DEF Removed
  <2>3. CASE x # c[n]
    <3>1. x \notin LinksOf(l, c)
      BY <2>1, <2>3, <1>5
    <3>2. l.pNext[x] = NULL /\ l.pPrev[x] = NULL /\ l.pValue[x] = NULL
      BY <3>1 DEF Shape, Loose
    <3>3. (n > 1 => x # c[n - 1]) /\ (n < N => x # c[n + 1])
      BY <3>1, <1>11 DEF LinksOf
    <3> QED BY <2>3, <3>2, <3>3 DEF Removed
  <2> QED BY <2>2, <2>3
<1>15. Valued(m, d)
  BY <1>1, <1>8, <1>9 DEF Valued
<1>16. Cached(m, d)
  BY DEF Cached, Removed, NoShortcuts
<1>17. Shape(m, d)
  BY <1>1, <1>13, <1>14, <1>15, <1>16 DEF Shape
<1> QED BY <1>5, <1>9, <1>10, <1>17 DEF d, e

(* The same chain with its cache moved, dropped or filled. *)

LEMMA ReadShape ==
    ASSUME NEW l, NEW c, Shape(l, c), NEW n \in 1..l.nSize, NEW st
    PROVE  LET m == GetItem(l, n, st).list
           IN  /\ Shape(m, c)
               /\ m.nSize = l.nSize /\ m.pNext = l.pNext /\ m.pPrev = l.pPrev
               /\ m.pValue = l.pValue /\ m.pFirst = l.pFirst /\ m.pLast = l.pLast
               /\ m.pItemsArray = l.pItemsArray
<1> DEFINE m == GetItem(l, n, st).list
<1>1. l \in ListTypes /\ Linked(l, c) /\ Cached(l, c)
  BY DEF Shape
<1>2. l.nSize \in Nat /\ l.nNextItem \in Nat
  BY <1>1 DEF ListTypes
<1>3. m = IF l.pItemsArray # NULL \/ IsSmall(l) \/ ~UsesCache(st) THEN l
          ELSE CacheAt(l, c[n], n)
  BY <1>1, <1>2, ItemReached
<1> HIDE DEF m
<1>4. CASE m = l
  BY <1>4 DEF m
<1>5. CASE m # l
  <2>1. m = [l EXCEPT !.pLastItem = c[n], !.nNextItem = n + 1] /\ ~IsSmall(l)
        /\ l.pItemsArray = NULL
    BY <1>3, <1>5 DEF CacheAt
  <2>2. c[n] \in Blocks /\ c[n] # NULL /\ n + 1 \in Nat /\ (n + 1) - 1 = n
    BY <1>1, <1>2, ConstantsAssumption DEF Linked
  <2>3. m \in ListTypes
    BY <1>1, <2>1, <2>2 DEF ListTypes, Pointers
  <2>4. /\ m.nSize = l.nSize /\ m.pNext = l.pNext /\ m.pPrev = l.pPrev
        /\ m.pValue = l.pValue /\ m.pFirst = l.pFirst /\ m.pLast = l.pLast
        /\ m.pItemsArray = l.pItemsArray /\ m.pLastItem = c[n] /\ m.nNextItem = n + 1
    BY <1>1, <2>1 DEF ListTypes
  <2>5. Linked(m, c)
    BY <1>1, <2>4 DEF Linked
  <2>6. LinksOf(m, c) = LinksOf(l, c) /\ ItemsOf(m, c) = ItemsOf(l, c)
    BY <2>4 DEF LinksOf, ItemsOf
  <2>7. Loose(m, c) /\ Valued(m, c)
    BY <2>4, <2>6 DEF Shape, Loose, Valued
  <2>8. Cached(m, c)
    BY <2>1, <2>2, <2>4 DEF Cached, IsSmall
  <2> QED BY <2>3, <2>4, <2>5, <2>7, <2>8 DEF Shape, m
<1> QED BY <1>4, <1>5

LEMMA ClearedShape ==
    ASSUME NEW l, NEW c, l \in ListTypes, Linked(l, c), Loose(l, c), Valued(l, c)
    PROVE  LET m == ClearCache(l)
           IN  /\ Shape(m, c) /\ NoShortcuts(m)
               /\ m.nSize = l.nSize /\ m.pNext = l.pNext /\ m.pPrev = l.pPrev
               /\ m.pValue = l.pValue /\ m.pFirst = l.pFirst /\ m.pLast = l.pLast
<1> DEFINE m == ClearCache(l)
<1>1. /\ m.nSize = l.nSize /\ m.pNext = l.pNext /\ m.pPrev = l.pPrev
      /\ m.pValue = l.pValue /\ m.pFirst = l.pFirst /\ m.pLast = l.pLast
      /\ m.pItemsArray = NULL /\ m.pLastItem = NULL /\ m.nNextItem = 0
  BY DEF ClearCache, ListTypes
<1>2. m \in ListTypes
  BY DEF ClearCache, ListTypes, Pointers
<1> HIDE DEF m
<1>3. LinksOf(m, c) = LinksOf(l, c) /\ ItemsOf(m, c) = ItemsOf(l, c)
  BY <1>1 DEF LinksOf, ItemsOf
<1>4. Linked(m, c) /\ Loose(m, c) /\ Valued(m, c) /\ Cached(m, c)
  <2>1. Linked(m, c)
    BY <1>1 DEF Linked
  <2>2. Loose(m, c) /\ Valued(m, c)
    BY <1>1, <1>3 DEF Loose, Valued
  <2> QED BY <1>1, <2>1, <2>2 DEF Cached
<1> QED BY <1>1, <1>2, <1>4 DEF Shape, NoShortcuts, m

(* ClearCache, field by field. *)
LEMMA ClearedFields ==
    ASSUME NEW l \in ListTypes
    PROVE  LET m == ClearCache(l)
           IN  /\ m \in ListTypes /\ NoShortcuts(m)
               /\ m.nSize = l.nSize /\ m.pNext = l.pNext /\ m.pPrev = l.pPrev
               /\ m.pValue = l.pValue /\ m.pFirst = l.pFirst /\ m.pLast = l.pLast
BY DEF ClearCache, ListTypes, Pointers, NoShortcuts

Exchanged(s, i, j) == [s EXCEPT ![i] = s[j], ![j] = s[i]]

(* The links a and b of a list get each other's items. *)
Swapped(l, a, b) == [l EXCEPT !.pValue[a] = l.pValue[b], !.pValue[b] = l.pValue[a]]

LEMMA SwappedShape ==
    ASSUME NEW l, NEW c, Shape(l, c), NEW i \in 1..l.nSize, NEW j \in 1..l.nSize, i # j,
           NEW m, m = Swapped(l, c[i], c[j])
    PROVE  /\ Shape(ClearCache(m), c) /\ ClearCache(m).nSize = l.nSize
           /\ LinksOf(ClearCache(m), c) = LinksOf(l, c)
           /\ ItemSet(ClearCache(m), c) = ItemSet(l, c)
           /\ ItemsOf(ClearCache(m), c) = Exchanged(ItemsOf(l, c), i, j)
<1> DEFINE N == l.nSize
           e == ItemsOf(l, c)
           f == ItemsOf(m, c)
<1>1. N \in Nat /\ l \in ListTypes /\ c \in [1..N -> Blocks] /\ OneToOne(c, N)
  <2>1. l \in ListTypes /\ Linked(l, c)
    BY DEF Shape
  <2> QED BY <2>1 DEF ListTypes, Linked
<1>2. e \in [1..N -> Blocks] /\ OneToOne(e, N)
  BY DEF Shape, Valued
<1>3. \A k \in 1..N : e[k] = l.pValue[c[k]]
  BY DEF ItemsOf
<1>4. c[i] \in Blocks /\ c[j] \in Blocks /\ c[i] # c[j]
  BY <1>1 DEF OneToOne
<1>5. l.pValue[c[i]] \in Blocks /\ l.pValue[c[j]] \in Blocks
  BY <1>2, <1>3
<1>6. l.pValue \in [Blocks -> Pointers]
  BY <1>1 DEF ListTypes
<1>7. /\ m \in ListTypes
      /\ m.nSize = N /\ m.pNext = l.pNext /\ m.pPrev = l.pPrev
      /\ m.pFirst = l.pFirst /\ m.pLast = l.pLast
      /\ m.pValue = [l.pValue EXCEPT ![c[i]] = l.pValue[c[j]], ![c[j]] = l.pValue[c[i]]]
  <2> DEFINE v == [l.pValue EXCEPT ![c[i]] = l.pValue[c[j]], ![c[j]] = l.pValue[c[i]]]
  <2>1. v \in [Blocks -> Pointers]
    BY <1>5, <1>6 DEF Pointers
  <2>2. m = [l EXCEPT !.pValue = v]
    BY <1>1 DEF ListTypes, Swapped
  <2> HIDE DEF v
  <2>3. m \in ListTypes /\ m.pValue = v
    BY <1>1, <2>1, <2>2 DEF ListTypes
  <2>4. /\ m.nSize = N /\ m.pNext = l.pNext /\ m.pPrev = l.pPrev
        /\ m.pFirst = l.pFirst /\ m.pLast = l.pLast
    BY <1>1, <2>2 DEF ListTypes
  <2> QED BY <2>3, <2>4 DEF v
<1>8. /\ m.pValue[c[i]] = l.pValue[c[j]] /\ m.pValue[c[j]] = l.pValue[c[i]]
      /\ \A x \in Blocks : x # c[i] /\ x # c[j] => m.pValue[x] = l.pValue[x]
  BY <1>4, <1>6, <1>7
<1>9. ASSUME NEW k \in 1..N
      PROVE  f[k] = IF k = i THEN e[j] ELSE IF k = j THEN e[i] ELSE e[k]
  <2>1. f[k] = m.pValue[c[k]]
    BY <1>7 DEF ItemsOf
  <2>2. k # i /\ k # j => c[k] # c[i] /\ c[k] # c[j] /\ c[k] \in Blocks
    BY <1>1 DEF OneToOne
  <2> HIDE DEF e, f
  <2> QED BY <1>3, <1>8, <2>1, <2>2
<1>10. f = [k \in 1..N |-> f[k]]
  <2>1. f = [k \in 1..N |-> m.pValue[c[k]]]
    BY <1>7 DEF ItemsOf
  <2> QED BY <2>1
<1> HIDE DEF e, f
<1>11. f = Exchanged(e, i, j)
  BY <1>2, <1>9, <1>10 DEF Exchanged
<1>12. f \in [1..N -> Blocks] /\ OneToOne(f, N)
  <2>1. f \in [1..N -> Blocks]
    BY <1>2, <1>11 DEF Exchanged
  <2>2. ASSUME NEW a \in 1..N, NEW b \in 1..N, f[a] = f[b] PROVE a = b
    <3> DEFINE at(k) == IF k = i THEN j ELSE IF k = j THEN i ELSE k
    <3>1. at(a) \in 1..N /\ at(b) \in 1..N /\ f[a] = e[at(a)] /\ f[b] = e[at(b)]
      BY <1>9
    <3>2. at(a) = at(b) => a = b
      OBVIOUS
    <3> HIDE DEF at
    <3> QED BY <1>2, <2>2, <3>1, <3>2 DEF OneToOne
  <2> QED BY <2>1, <2>2 DEF OneToOne
<1>13. Linked(m, c)
  <2>1. Linked(l, c)
    BY DEF Shape
  <2> QED BY <1>7, <2>1 DEF Linked
<1>14. LinksOf(m, c) = LinksOf(l, c)
  BY <1>7 DEF LinksOf
<1>15. Loose(m, c)
  <2>1. ASSUME NEW x \in Blocks, x \notin LinksOf(m, c)
        PROVE  m.pNext[x] = NULL /\ m.pPrev[x] = NULL /\ m.pValue[x] = NULL
    <3>1. x # c[i] /\ x # c[j]
      BY <1>14, <2>1 DEF LinksOf
    <3> QED BY <1>7, <1>8, <1>14, <2>1, <3>1 DEF Shape, Loose
  <2> QED BY <2>1 DEF Loose
<1>16. Valued(m, c)
  BY <1>7, <1>12 DEF Valued, f
<1>17. ItemSet(m, c) = ItemSet(l, c)
  <2>1. ItemSet(m, c) = {f[k] : k \in 1..N}
    <3>1. \A k \in 1..N : f[k] = m.pValue[c[k]]
      BY <1>7 DEF ItemsOf, f
    <3> QED BY <1>7, <3>1 DEF ItemSet
  <2>2. ItemSet(l, c) = {e[k] : k \in 1..N}
    BY <1>3 DEF ItemSet
  <2>3. \A k \in 1..N : \E a \in 1..N : f[k] = e[a]
    BY <1>9
  <2>4. \A k \in 1..N : \E a \in 1..N : e[k] = f[a]
    BY <1>9
  <2> QED BY <2>1, <2>2, <2>3, <2>4
<1> DEFINE q == ClearCache(m)
<1>18. Shape(q, c) /\ q.nSize = m.nSize /\ q.pValue = m.pValue
  BY <1>7, <1>13, <1>15, <1>16, ClearedShape
<1> HIDE DEF q
<1>19. LinksOf(q, c) = LinksOf(m, c) /\ ItemSet(q, c) = ItemSet(m, c) /\ ItemsOf(q, c) = f
  BY <1>18 DEF LinksOf, ItemSet, ItemsOf, f
<1> QED BY <1>7, <1>11, <1>14, <1>17, <1>18, <1>19 DEF e, q

(* The array of items is made from the chain. *)
LEMMA ArrayShape ==
    ASSUME NEW l, NEW c, Shape(l, c), NEW m,
           m = [l EXCEPT !.pItemsArray =
                   IF l.nSize = 0 THEN NULL
                   ELSE [n \in 1..l.nSize |-> l.pValue[FromFirst(l, n)]]]
    PROVE  /\ Shape(m, c)
           /\ m.nSize = l.nSize /\ m.pValue = l.pValue
<1> DEFINE N == l.nSize
           a == IF N = 0 THEN NULL ELSE [n \in 1..N |-> l.pValue[FromFirst(l, n)]]
<1>1. N \in Nat /\ l \in ListTypes /\ Linked(l, c) /\ Valued(l, c) /\ Loose(l, c) /\ Cached(l, c)
  BY DEF Shape, ListTypes
<1>2. N # 0 => a = ItemsOf(l, c)
  <2>1. \A n \in 1..N : FromFirst(l, n) = c[n]
    BY <1>1, LinkFound
  <2> QED BY <2>1 DEF ItemsOf
<1>3. a \in Seq(Blocks) \cup {NULL}
  <2>1. ItemsOf(l, c) \in [1..N -> Blocks]
    BY <1>1 DEF Valued
  <2>2. ItemsOf(l, c) \in Seq(Blocks)
    BY <1>1, <2>1
  <2> QED BY <1>2, <2>2
<1>4. m = [l EXCEPT !.pItemsArray = a]
  OBVIOUS
<1> HIDE DEF a
<1>5. /\ m \in ListTypes /\ m.nSize = N /\ m.pNext = l.pNext /\ m.pPrev = l.pPrev
      /\ m.pValue = l.pValue /\ m.pFirst = l.pFirst /\ m.pLast = l.pLast
      /\ m.pItemsArray = a /\ m.pLastItem = l.pLastItem /\ m.nNextItem = l.nNextItem
  BY <1>1, <1>3, <1>4 DEF ListTypes
<1>6. LinksOf(m, c) = LinksOf(l, c) /\ ItemsOf(m, c) = ItemsOf(l, c)
  BY <1>5 DEF LinksOf, ItemsOf
<1>7. Linked(m, c) /\ Loose(m, c) /\ Valued(m, c)
  <2>1. Linked(m, c)
    BY <1>1, <1>5 DEF Linked
  <2> QED BY <1>1, <1>5, <1>6, <2>1 DEF Loose, Valued
<1>8. Cached(m, c)
  <2>1. m.pItemsArray # NULL => m.nSize > 0 /\ m.pItemsArray = ItemsOf(m, c)
    <3>1. a # NULL => N # 0
      BY DEF a
    <3> QED BY <1>1, <1>2, <1>5, <1>6, <3>1
  <2> QED BY <1>1, <1>5, <2>1 DEF Cached, IsSmall
<1> QED BY <1>5, <1>7, <1>8 DEF Shape

-----------------------------------------------------------------------------
(* Memory. *)

MemoryTypes == [blocks : SUBSET Blocks, count : [Blocks -> 0..MaxHeld + 1]]

References == [Blocks -> 0..MaxHeld]

(* An owner of b goes. *)
LEMMA OwnerGone ==
    ASSUME NEW m \in MemoryTypes, NEW S, NEW V, NEW h \in References, Counted(m, S, V, h),
           NEW b \in Blocks, NEW T, NEW W, NEW g \in References,
           OwnersOf(b, T, W, g) + 1 = OwnersOf(b, S, V, h),
           \A x \in Blocks : x # b => OwnersOf(x, T, W, g) = OwnersOf(x, S, V, h)
    PROVE  DeleteOwner(m, b) \in MemoryTypes /\ Counted(DeleteOwner(m, b), T, W, g)
<1> DEFINE d == DeleteOwner(m, b)
           here == OwnersOf(b, T, W, g)
<1>1. m.blocks \in SUBSET Blocks /\ m.count \in [Blocks -> 0..MaxHeld + 1] /\ MaxHeld \in Nat
  BY ConstantsAssumption DEF MemoryTypes
<1>2. here \in Nat
  <2>1. g[b] \in Nat
    BY <1>1 DEF References
  <2> QED BY <2>1 DEF OwnersOf
<1>3. OwnersOf(b, S, V, h) # 0
  BY <1>2
<1>4. b \in m.blocks /\ m.count[b] + 1 = OwnersOf(b, S, V, h)
  BY <1>3 DEF Counted
<1>5. m.count[b] \in Nat /\ m.count[b] = here
  <2>1. m.count[b] \in 0..MaxHeld + 1
    BY <1>1
  <2>2. m.count[b] \in Nat
    BY <1>1, <2>1
  <2>3. m.count[b] + 1 = here + 1
    BY <1>4
  <2> HIDE DEF here
  <2> QED BY <1>2, <2>2, <2>3
<1>6. CASE here = 0
  <2>1. d = [m EXCEPT !.blocks = @ \ {b}]
    BY <1>5, <1>6 DEF DeleteOwner
  <2>2. d \in MemoryTypes /\ d.blocks = m.blocks \ {b} /\ d.count = m.count
    BY <2>1 DEF MemoryTypes
  <2> HIDE DEF d
  <2>3. Counted(d, T, W, g)
    BY <1>6, <2>2 DEF Counted
  <2> QED BY <2>2, <2>3 DEF d
<1>7. CASE here # 0
  <2>1. d = [m EXCEPT !.count[b] = @ - 1]
    BY <1>5, <1>7 DEF DeleteOwner
  <2>2. m.count[b] - 1 \in 0..MaxHeld + 1
    <3>1. m.count[b] \in 0..MaxHeld + 1
      BY <1>1
    <3>2. m.count[b] # 0
      BY <1>5, <1>7
    <3> QED BY <1>1, <3>1, <3>2
  <2>3. d.blocks = m.blocks /\ d.count = [m.count EXCEPT ![b] = m.count[b] - 1]
    BY <2>1 DEF MemoryTypes
  <2>4. d \in MemoryTypes
    <3>1. d = [blocks |-> m.blocks, count |-> [m.count EXCEPT ![b] = m.count[b] - 1]]
      BY <2>1 DEF MemoryTypes
    <3>2. [m.count EXCEPT ![b] = m.count[b] - 1] \in [Blocks -> 0..MaxHeld + 1]
      BY <1>1, <2>2
    <3> HIDE DEF d
    <3> QED BY <1>1, <3>1, <3>2 DEF MemoryTypes
  <2>5. d.count[b] + 1 = here
    <3>1. d.count[b] = m.count[b] - 1
      BY <1>1, <2>3
    <3> HIDE DEF d, here
    <3> QED BY <1>5, <3>1
  <2>6. \A x \in Blocks : x # b => d.count[x] = m.count[x]
    BY <1>1, <2>3
  <2>7. Counted(d, T, W, g)
    <3> HIDE DEF d
    <3>1. ASSUME NEW x \in Blocks
          PROVE  IF x \in d.blocks THEN d.count[x] + 1 = OwnersOf(x, T, W, g)
                                   ELSE OwnersOf(x, T, W, g) = 0
      <4>1. CASE x = b
        BY <1>4, <2>3, <2>5, <4>1
      <4>2. CASE x # b
        <5>1. d.count[x] = m.count[x] /\ OwnersOf(x, T, W, g) = OwnersOf(x, S, V, h)
          BY <2>6, <4>2
        <5>2. IF x \in m.blocks THEN m.count[x] + 1 = OwnersOf(x, S, V, h)
                                ELSE OwnersOf(x, S, V, h) = 0
          BY DEF Counted
        <5> QED BY <2>3, <5>1, <5>2
      <4> QED BY <4>1, <4>2
    <3> QED BY <3>1 DEF Counted
  <2> QED BY <2>4, <2>7
<1> QED BY <1>6, <1>7

LEMMA LinkGone ==
    ASSUME NEW m \in MemoryTypes, NEW S, NEW V, NEW h \in References, Counted(m, S, V, h),
           NEW b \in Blocks, b \in S
    PROVE  DeleteOwner(m, b) \in MemoryTypes /\ Counted(DeleteOwner(m, b), S \ {b}, V, h)
<1>1. \A x \in Blocks : h[x] \in Nat
  BY ConstantsAssumption DEF References
<1>2. OwnersOf(b, S \ {b}, V, h) + 1 = OwnersOf(b, S, V, h)
  BY <1>1 DEF OwnersOf
<1>3. \A x \in Blocks : x # b => OwnersOf(x, S \ {b}, V, h) = OwnersOf(x, S, V, h)
  BY DEF OwnersOf
<1> QED BY <1>2, <1>3, OwnerGone

LEMMA ItemGone ==
    ASSUME NEW m \in MemoryTypes, NEW S, NEW V, NEW h \in References, Counted(m, S, V, h),
           NEW b \in Blocks, b \in V
    PROVE  DeleteOwner(m, b) \in MemoryTypes /\ Counted(DeleteOwner(m, b), S, V \ {b}, h)
<1>1. \A x \in Blocks : h[x] \in Nat
  BY ConstantsAssumption DEF References
<1>2. OwnersOf(b, S, V \ {b}, h) + 1 = OwnersOf(b, S, V, h)
  BY <1>1 DEF OwnersOf
<1>3. \A x \in Blocks : x # b => OwnersOf(x, S, V \ {b}, h) = OwnersOf(x, S, V, h)
  BY DEF OwnersOf
<1> QED BY <1>2, <1>3, OwnerGone

(* The owners are told by membership alone. *)
LEMMA SameOwners ==
    ASSUME NEW m, NEW S, NEW V, NEW h, Counted(m, S, V, h), NEW T, NEW W,
           \A x \in Blocks : (x \in S <=> x \in T) /\ (x \in V <=> x \in W)
    PROVE  Counted(m, T, W, h)
<1>1. \A x \in Blocks : OwnersOf(x, S, V, h) = OwnersOf(x, T, W, h)
  BY DEF OwnersOf
<1> QED BY <1>1 DEF Counted

(* A link of the list and its item are deleted. *)
LEMMA LinkReleased ==
    ASSUME NEW m \in MemoryTypes, NEW S, NEW V, NEW h \in References, Counted(m, S, V, h),
           NEW b \in Blocks, b \in S, list.pValue[b] \in Blocks, list.pValue[b] \in V
    PROVE  /\ DeleteItems(m, b) \in MemoryTypes
           /\ Counted(DeleteItems(m, b), S \ {b}, V \ {list.pValue[b]}, h)
<1>1. /\ DeleteOwner(m, list.pValue[b]) \in MemoryTypes
      /\ Counted(DeleteOwner(m, list.pValue[b]), S, V \ {list.pValue[b]}, h)
  BY ItemGone
<1> QED BY <1>1, LinkGone DEF DeleteItems

(* The memory after deleting links from the last on, step by step. *)
Going(f, n) ==
    f = [k \in 0..n |-> IF k = 0 THEN Memory
                        ELSE DeleteItems(f[k - 1], FromLast(list, list.nSize + 1 - k))]

LEMMA GoingExists ==
    ASSUME NEW m \in Nat PROVE \E f : Going(f, m)
<1> DEFINE S == {k \in Nat : \E f : Going(f, k)}
           link(k) == FromLast(list, list.nSize + 1 - k)
<1>1. 0 \in S
  <2>1. Going([k \in 0..0 |-> Memory], 0)
    BY DEF Going
  <2> QED BY <2>1
<1>2. ASSUME NEW n \in Nat, n \in S PROVE n + 1 \in S
  <2>1. PICK f : Going(f, n)
    BY <1>2
  <2> DEFINE g == [k \in 0..n + 1 |-> IF k = n + 1 THEN DeleteItems(f[n], link(n + 1)) ELSE f[k]]
             h == [k \in 0..n + 1 |-> IF k = 0 THEN Memory ELSE DeleteItems(g[k - 1], link(k))]
  <2>2. ASSUME NEW k \in 0..n + 1 PROVE g[k] = h[k]
    <3>1. f = [j \in 0..n |-> IF j = 0 THEN Memory ELSE DeleteItems(f[j - 1], link(j))]
      BY <2>1 DEF Going
    <3> HIDE DEF link
    <3>2. CASE k = n + 1
      <4>1. k # 0 /\ k - 1 = n /\ n \in 0..n + 1 /\ n # n + 1
        BY <3>2
      <4> QED BY <4>1, <3>2
    <3>3. CASE k # n + 1
      <4>1. k \in 0..n
        BY <3>3
      <4>2. f[k] = IF k = 0 THEN Memory ELSE DeleteItems(f[k - 1], link(k))
        BY <3>1, <4>1
      <4>3. g[k] = f[k]
        BY <3>3
      <4>4. k # 0 => k - 1 \in 0..n + 1 /\ k - 1 # n + 1
        BY <4>1
      <4>5. k # 0 => g[k - 1] = f[k - 1]
        BY <4>4
      <4> QED BY <4>2, <4>3, <4>5
    <3> QED BY <3>2, <3>3
  <2>3. g = h
    BY <2>2
  <2>4. Going(g, n + 1)
    BY <2>3 DEF Going
  <2> QED BY <2>4
<1> HIDE DEF S
<1>3. Nat \subseteq S
  BY <1>1, <1>2, Induction
<1> QED BY <1>3 DEF S

LEMMA GoingUnique ==
    ASSUME NEW m \in Nat, NEW f, Going(f, m), NEW n \in Nat, n >= m, NEW g, Going(g, n)
    PROVE  \A k \in 0..m : f[k] = g[k]
<1> DEFINE S == {k \in Nat : k <= m => f[k] = g[k]}
<1>1. 0 \in S
  BY DEF Going
<1>2. ASSUME NEW k \in Nat, k \in S PROVE k + 1 \in S
  <2>1. SUFFICES ASSUME k + 1 <= m PROVE f[k + 1] = g[k + 1]
    OBVIOUS
  <2>2. k + 1 \in 0..m /\ k + 1 \in 0..n /\ k + 1 # 0 /\ (k + 1) - 1 = k /\ k <= m
    BY <2>1
  <2> DEFINE link == FromLast(list, list.nSize + 1 - (k + 1))
  <2>3. f[k + 1] = DeleteItems(f[k], link) /\ g[k + 1] = DeleteItems(g[k], link)
    BY <2>2 DEF Going
  <2> QED BY <2>2, <2>3, <1>2
<1> HIDE DEF S
<1>3. Nat \subseteq S
  BY <1>1, <1>2, Induction
<1> QED BY <1>3 DEF S

LEMMA ReleasedSteps ==
    ASSUME NEW n \in Nat
    PROVE  /\ Released(0) = Memory
           /\ Released(n + 1) = DeleteItems(Released(n), FromLast(list, list.nSize + 1 - (n + 1)))
<1>1. ASSUME NEW m \in Nat PROVE \E f : Going(f, m) /\ Released(m) = f[m]
  <2>1. \E f : f = [k \in 0..m |-> IF k = 0 THEN Memory
                        ELSE DeleteItems(f[k - 1], FromLast(list, list.nSize + 1 - k))]
    <3>1. \E f : Going(f, m)
      BY GoingExists
    <3> QED BY <3>1 DEF Going
  <2> DEFINE after == CHOOSE f : f = [k \in 0..m |-> IF k = 0 THEN Memory
                        ELSE DeleteItems(f[k - 1], FromLast(list, list.nSize + 1 - k))]
  <2>2. Going(after, m)
    BY <2>1 DEF Going
  <2>3. Released(m) = after[m]
    BY DEF Released
  <2> HIDE DEF after
  <2> QED BY <2>2, <2>3
<1>2. PICK f : Going(f, n) /\ Released(n) = f[n]
  BY <1>1
<1>3. PICK g : Going(g, n + 1) /\ Released(n + 1) = g[n + 1]
  BY <1>1
<1>4. f[n] = g[n]
  BY <1>2, <1>3, GoingUnique
<1>5. g[n + 1] = DeleteItems(g[n], FromLast(list, list.nSize + 1 - (n + 1)))
  <2>1. n + 1 \in 0..n + 1 /\ n + 1 # 0 /\ (n + 1) - 1 = n
    OBVIOUS
  <2> QED BY <1>3, <2>1 DEF Going
<1>6. PICK h : Going(h, 0) /\ Released(0) = h[0]
  BY <1>1
<1>7. h[0] = Memory
  BY <1>6 DEF Going
<1> QED BY <1>2, <1>3, <1>4, <1>5, <1>6, <1>7

(* Each link that is deleted takes the last of the links left. *)
LEMMA ReleasedCounted ==
    ASSUME NEW c, Shape(list, c), held \in References, Memory \in MemoryTypes,
           Counted(Memory, LinksOf(list, c), ItemSet(list, c), held)
    PROVE  /\ Released(list.nSize) \in MemoryTypes
           /\ Counted(Released(list.nSize), {}, {}, held)
<1> DEFINE N == list.nSize
           e == ItemsOf(list, c)
           Fine(k) == /\ Released(k) \in MemoryTypes
                      /\ Counted(Released(k), Entries(c, N - k), Entries(e, N - k), held)
           S == {k \in Nat : k <= N => Fine(k)}
<1>1. N \in Nat /\ Linked(list, c)
  BY DEF Shape, ListTypes
<1>2. c \in [1..N -> Blocks] /\ OneToOne(c, N) /\ e \in [1..N -> Blocks] /\ OneToOne(e, N)
  BY DEF Shape, Linked, Valued
<1>3. \A i \in 1..N : e[i] = list.pValue[c[i]]
  BY DEF ItemsOf
<1>4. 0 \in S
  <2>1. N - 0 = N /\ Released(0) = Memory
    BY <1>1, ReleasedSteps
  <2>2. LinksOf(list, c) = Entries(c, N)
    BY DEF LinksOf, Entries
  <2>3. ItemSet(list, c) = Entries(e, N)
    BY <1>3 DEF ItemSet, Entries
  <2> HIDE DEF N, e
  <2> QED BY <2>1, <2>2, <2>3
<1>5. ASSUME NEW k \in Nat, k \in S PROVE k + 1 \in S
  <2>1. SUFFICES ASSUME k + 1 <= N PROVE Fine(k + 1)
    OBVIOUS
  <2> DEFINE n == N - k
             b == c[n]
  <2>2. k <= N /\ n \in 1..N /\ N + 1 - (k + 1) = n /\ N - (k + 1) = n - 1
    BY <2>1, <1>1
  <2>3. Fine(k)
    BY <1>5, <2>2
  <2>4. Released(k + 1) = DeleteItems(Released(k), b)
    <3>1. FromLast(list, n) = c[n]
      BY <1>1, <2>2, LinkFound
    <3>2. Released(k + 1) = DeleteItems(Released(k), FromLast(list, N + 1 - (k + 1)))
      BY ReleasedSteps
    <3> QED BY <2>2, <3>1, <3>2
  <2>5. b \in Blocks /\ e[n] = list.pValue[b] /\ e[n] \in Blocks
    BY <1>2, <1>3, <2>2
  <2> HIDE DEF n, e, N
  <2>6. n \in Nat /\ n >= 1 /\ n <= N /\ N \in Nat
    BY <1>1, <2>2
  <2>7. b \in Entries(c, n) /\ e[n] \in Entries(e, n)
    BY <2>6 DEF Entries
  <2>8. /\ Released(k + 1) \in MemoryTypes
        /\ Counted(Released(k + 1), Entries(c, n) \ {b}, Entries(e, n) \ {e[n]}, held)
    <3>1. Released(k) \in MemoryTypes /\ Counted(Released(k), Entries(c, n), Entries(e, n), held)
      BY <2>3 DEF n
    <3> QED BY <2>4, <2>5, <2>7, <3>1, LinkReleased
  <2>9. ASSUME NEW f, OneToOne(f, N)
        PROVE  \A x : x \in Entries(f, n) \ {f[n]} <=> x \in Entries(f, n - 1)
    <3>1. \A i \in 1..n : i # n => i \in 1..n - 1
      BY <2>6
    <3>2. \A i \in 1..n - 1 : i \in 1..n /\ i \in 1..N /\ n \in 1..N /\ i # n
      BY <2>6
    <3>3. \A i \in 1..n - 1 : f[i] # f[n]
      BY <2>9, <3>2 DEF OneToOne
    <3> QED BY <3>1, <3>2, <3>3 DEF Entries
  <2>10. \A x \in Blocks : /\ x \in Entries(c, n) \ {b} <=> x \in Entries(c, n - 1)
                           /\ x \in Entries(e, n) \ {e[n]} <=> x \in Entries(e, n - 1)
    BY <1>2, <2>9
  <2>11. Counted(Released(k + 1), Entries(c, n - 1), Entries(e, n - 1), held)
    BY <2>8, <2>10, SameOwners
  <2> QED BY <2>2, <2>8, <2>11
<1> HIDE DEF S
<1>6. Nat \subseteq S
  BY <1>4, <1>5, Induction
<1>7. Fine(N)
  <2>1. N \in S /\ N <= N
    BY <1>1, <1>6
  <2> QED BY <2>1 DEF S
<1>8. N - N = 0 /\ 1..0 = {}
  BY <1>1
<1>9. Entries(c, 0) = {} /\ Entries(e, 0) = {}
  BY <1>8 DEF Entries
<1> QED BY <1>7, <1>8, <1>9

-----------------------------------------------------------------------------
(* Blocks that are linked and unlinked. *)

LEMMA NewItemInserted ==
    ASSUME NEW l, NEW c, Shape(l, c), NEW b \in Blocks, b \notin LinksOf(l, c)
    PROVE  Inserted(l, NewItem(l, b), c, l.nSize, b)
<1> DEFINE N == l.nSize
           m == NewItem(l, b)
<1>1. l \in ListTypes /\ N \in Nat /\ Linked(l, c) /\ Cached(l, c) /\ Loose(l, c)
  BY DEF Shape, ListTypes
<1>2. l.pNext[b] = NULL /\ l.pPrev[b] = NULL
  BY <1>1 DEF Loose
<1>3. CASE N > 0
  <2> DEFINE p == [l EXCEPT !.pNext[l.pLast] = b, !.pPrev[b] = l.pLast, !.pLast = b,
                            !.pValue[b] = b, !.nSize = @ + 1]
  <2>1. N \in 1..N /\ l.pLast = c[N] /\ c[N] \in Blocks /\ l.pNext[c[N]] = NULL
    BY <1>1, <1>3 DEF Linked
  <2>2. c[N] # b
    BY <1>1, <2>1 DEF LinksOf
  <2>3. /\ [l.pNext EXCEPT ![c[N]] = b] \in [Blocks -> Pointers]
        /\ [l.pPrev EXCEPT ![b] = c[N]] \in [Blocks -> Pointers]
        /\ [l.pValue EXCEPT ![b] = b] \in [Blocks -> Pointers]
    BY <1>1, <2>1 DEF ListTypes, Pointers
  <2>4. /\ p \in ListTypes
        /\ p.nSize = N + 1 /\ p.pFirst = l.pFirst /\ p.pLast = b
        /\ p.pNext = [l.pNext EXCEPT ![c[N]] = b]
        /\ p.pPrev = [l.pPrev EXCEPT ![b] = c[N]]
        /\ p.pValue = [l.pValue EXCEPT ![b] = b]
    <3> DEFINE pn == [l.pNext EXCEPT ![c[N]] = b]
               pp == [l.pPrev EXCEPT ![b] = c[N]]
               pv == [l.pValue EXCEPT ![b] = b]
    <3>1. p = [l EXCEPT !.pNext = pn, !.pPrev = pp, !.pLast = b, !.pValue = pv, !.nSize = N + 1]
      BY <1>1, <2>1 DEF ListTypes
    <3> HIDE DEF p, pn, pp, pv
    <3>2. /\ pn \in [Blocks -> Pointers] /\ pp \in [Blocks -> Pointers]
          /\ pv \in [Blocks -> Pointers] /\ N + 1 \in Nat
      BY <1>1, <2>3 DEF pn, pp, pv
    <3>3. /\ p \in ListTypes
          /\ p.nSize = N + 1 /\ p.pFirst = l.pFirst /\ p.pLast = b
          /\ p.pNext = pn /\ p.pPrev = pp /\ p.pValue = pv
      BY <1>1, <3>1, <3>2 DEF ListTypes, Pointers
    <3> QED BY <3>3 DEF pn, pp, pv
  <2>5. m = ClearCache(p)
    BY <1>3 DEF NewItem
  <2> HIDE DEF p, m
  <2>6. /\ m \in ListTypes /\ NoShortcuts(m) /\ m.nSize = N + 1
        /\ m.pFirst = l.pFirst /\ m.pLast = b
        /\ m.pNext = [l.pNext EXCEPT ![c[N]] = b]
        /\ m.pPrev = [l.pPrev EXCEPT ![b] = c[N]]
        /\ m.pValue = [l.pValue EXCEPT ![b] = b]
    BY <2>4, <2>5, ClearedFields
  <2>7. l.pNext \in [Blocks -> Pointers] /\ l.pPrev \in [Blocks -> Pointers]
    BY <1>1 DEF ListTypes
  <2>8. /\ m.pNext[b] = NULL /\ m.pPrev[b] = c[N] /\ m.pNext[c[N]] = b
        /\ \A x \in Blocks : /\ x # c[N] => m.pNext[x] = l.pNext[x]
                             /\ x # b => m.pPrev[x] = l.pPrev[x]
    BY <1>2, <2>1, <2>2, <2>6, <2>7
  <2> QED BY <1>1, <1>3, <2>6, <2>8 DEF Inserted, m
<1>4. CASE N = 0
  <2>1. m = [l EXCEPT !.pFirst = b, !.pLast = b, !.pValue[b] = b, !.nSize = @ + 1]
    BY <1>4 DEF NewItem
  <2>2. [l.pValue EXCEPT ![b] = b] \in [Blocks -> Pointers]
    BY <1>1 DEF ListTypes, Pointers
  <2>3. NoShortcuts(l)
    BY <1>1, <1>4 DEF Cached, NoShortcuts
  <2> DEFINE pv == [l.pValue EXCEPT ![b] = b]
  <2>4. m = [l EXCEPT !.pFirst = b, !.pLast = b, !.pValue = pv, !.nSize = N + 1]
    BY <1>1, <2>1 DEF ListTypes
  <2> HIDE DEF m, pv
  <2>5. m \in ListTypes
    <3>1. pv \in [Blocks -> Pointers] /\ N + 1 \in Nat
      BY <1>1, <2>2 DEF pv
    <3> QED BY <1>1, <2>4, <3>1 DEF ListTypes, Pointers
  <2>6. /\ NoShortcuts(m) /\ m.nSize = N + 1 /\ m.pFirst = b /\ m.pLast = b
        /\ m.pNext = l.pNext /\ m.pPrev = l.pPrev /\ m.pValue = [l.pValue EXCEPT ![b] = b]
    BY <1>1, <2>3, <2>4 DEF NoShortcuts, ListTypes, pv
  <2> QED BY <1>2, <1>4, <2>5, <2>6 DEF Inserted, m
<1> QED BY <1>1, <1>3, <1>4

LEMMA InsertFirstInserted ==
    ASSUME NEW l, NEW c, Shape(l, c), l.nSize > 0, NEW b \in Blocks, b \notin LinksOf(l, c)
    PROVE  Inserted(l, InsertFirst(l, b), c, 0, b)
<1> DEFINE N == l.nSize
           m == InsertFirst(l, b)
           p == [l EXCEPT !.pNext[b] = l.pFirst, !.pPrev[l.pFirst] = b, !.pFirst = b,
                          !.pValue[b] = b, !.nSize = @ + 1]
<1>1. l \in ListTypes /\ N \in Nat /\ Linked(l, c) /\ Loose(l, c)
  BY DEF Shape, ListTypes
<1>2. l.pNext[b] = NULL /\ l.pPrev[b] = NULL
  BY <1>1 DEF Loose
<1>3. 1 \in 1..N /\ l.pFirst = c[1] /\ c[1] \in Blocks
  BY <1>1 DEF Linked
<1>4. c[1] # b
  BY <1>1, <1>3 DEF LinksOf
<1>5. /\ [l.pNext EXCEPT ![b] = c[1]] \in [Blocks -> Pointers]
      /\ [l.pPrev EXCEPT ![c[1]] = b] \in [Blocks -> Pointers]
      /\ [l.pValue EXCEPT ![b] = b] \in [Blocks -> Pointers]
  BY <1>1, <1>3 DEF ListTypes, Pointers
<1> DEFINE pn == [l.pNext EXCEPT ![b] = c[1]]
           pp == [l.pPrev EXCEPT ![c[1]] = b]
           pv == [l.pValue EXCEPT ![b] = b]
<1>6. p = [l EXCEPT !.pNext = pn, !.pPrev = pp, !.pFirst = b, !.pValue = pv, !.nSize = N + 1]
  BY <1>1, <1>3 DEF ListTypes
<1>7. m = ClearCache(p)
  BY DEF InsertFirst
<1> HIDE DEF p, m, pn, pp, pv
<1>8. /\ p \in ListTypes /\ p.nSize = N + 1 /\ p.pFirst = b /\ p.pLast = l.pLast
      /\ p.pNext = pn /\ p.pPrev = pp /\ p.pValue = pv
  <2>1. /\ pn \in [Blocks -> Pointers] /\ pp \in [Blocks -> Pointers]
        /\ pv \in [Blocks -> Pointers] /\ N + 1 \in Nat
    BY <1>1, <1>5 DEF pn, pp, pv
  <2> QED BY <1>1, <1>6, <2>1 DEF ListTypes, Pointers
<1>9. /\ m \in ListTypes /\ NoShortcuts(m) /\ m.nSize = N + 1
      /\ m.pFirst = b /\ m.pLast = l.pLast
      /\ m.pNext = [l.pNext EXCEPT ![b] = c[1]]
      /\ m.pPrev = [l.pPrev EXCEPT ![c[1]] = b]
      /\ m.pValue = [l.pValue EXCEPT ![b] = b]
  <2>1. /\ m \in ListTypes /\ NoShortcuts(m) /\ m.nSize = N + 1
        /\ m.pFirst = b /\ m.pLast = l.pLast /\ m.pNext = pn /\ m.pPrev = pp /\ m.pValue = pv
    BY <1>7, <1>8, ClearedFields
  <2> QED BY <2>1 DEF pn, pp, pv
<1>10. l.pNext \in [Blocks -> Pointers] /\ l.pPrev \in [Blocks -> Pointers]
  BY <1>1 DEF ListTypes
<1>11. /\ m.pNext[b] = c[1] /\ m.pPrev[b] = NULL /\ m.pPrev[c[1]] = b
       /\ \A x \in Blocks : /\ x # b => m.pNext[x] = l.pNext[x]
                            /\ x # c[1] => m.pPrev[x] = l.pPrev[x]
  BY <1>2, <1>3, <1>4, <1>9, <1>10
<1>12. 0 # N /\ 0 + 1 = 1 /\ ~(0 > 0)
  BY <1>1
<1> QED BY <1>9, <1>11, <1>12 DEF Inserted, m

LEMMA InsertAfterInserted ==
    ASSUME NEW l, NEW c, Shape(l, c), NEW n \in 1..l.nSize - 1, NEW b \in Blocks,
           b \notin LinksOf(l, c)
    PROVE  Inserted(l, InsertAfter(l, b, c[n]), c, n, b)
<1> DEFINE N == l.nSize
           pos == c[n]
           m == InsertAfter(l, b, pos)
           p == [l EXCEPT !.pNext[b] = l.pNext[pos], !.pPrev[l.pNext[pos]] = b,
                          !.pPrev[b] = pos, !.pNext[pos] = b, !.pValue[b] = b,
                          !.nSize = @ + 1]
<1>1. l \in ListTypes /\ N \in Nat /\ Linked(l, c) /\ Loose(l, c)
  BY DEF Shape, ListTypes
<1>2. n \in 1..N /\ n + 1 \in 1..N /\ n # n + 1 /\ n > 0 /\ n < N
  BY <1>1
<1>3. /\ pos \in Blocks /\ c[n + 1] \in Blocks /\ l.pNext[pos] = c[n + 1]
      /\ pos # b /\ c[n + 1] # b
  BY <1>1, <1>2 DEF Linked, LinksOf
<1> DEFINE next == c[n + 1]
           pn == [l.pNext EXCEPT ![b] = next, ![pos] = b]
           pp == [l.pPrev EXCEPT ![next] = b, ![b] = pos]
           pv == [l.pValue EXCEPT ![b] = b]
<1>4. pn \in [Blocks -> Pointers] /\ pp \in [Blocks -> Pointers] /\ pv \in [Blocks -> Pointers]
  BY <1>1, <1>3 DEF ListTypes, Pointers
<1>5. p = [l EXCEPT !.pNext = pn, !.pPrev = pp, !.pValue = pv, !.nSize = N + 1]
  BY <1>1, <1>3 DEF ListTypes
<1>6. m = ClearCache(p)
  BY DEF InsertAfter
<1>7. l.pNext \in [Blocks -> Pointers] /\ l.pPrev \in [Blocks -> Pointers]
  BY <1>1 DEF ListTypes
<1>8. /\ pn[b] = next /\ pn[pos] = b /\ pp[next] = b /\ pp[b] = pos
      /\ \A x \in Blocks : /\ x # b /\ x # pos => pn[x] = l.pNext[x]
                           /\ x # b /\ x # next => pp[x] = l.pPrev[x]
  BY <1>3, <1>7
<1> HIDE DEF p, m, pn, pp, pv
<1>9. /\ p \in ListTypes /\ p.nSize = N + 1 /\ p.pFirst = l.pFirst /\ p.pLast = l.pLast
      /\ p.pNext = pn /\ p.pPrev = pp /\ p.pValue = pv
  <2>1. /\ pn \in [Blocks -> Pointers] /\ pp \in [Blocks -> Pointers]
        /\ pv \in [Blocks -> Pointers] /\ N + 1 \in Nat
    BY <1>1, <1>4 DEF pn, pp, pv
  <2> QED BY <1>1, <1>5, <2>1 DEF ListTypes, Pointers
<1>10. /\ m \in ListTypes /\ NoShortcuts(m) /\ m.nSize = N + 1
       /\ m.pFirst = l.pFirst /\ m.pLast = l.pLast
       /\ m.pNext = pn /\ m.pPrev = pp /\ m.pValue = pv
  BY <1>6, <1>9, ClearedFields
<1>11. n # N /\ n # 0
  BY <1>1
<1> QED BY <1>2, <1>8, <1>10, <1>11 DEF Inserted, m, pv

(* Forgetting a link that is out of the chain. *)
LEMMA UnlinkRemoved ==
    ASSUME NEW l, NEW c, Shape(l, c), NEW n \in 1..l.nSize
    PROVE  Removed(l, ClearCache(Unlink(l, n)), c, n)
<1> DEFINE N == l.nSize
           b == IF N = 1 THEN l.pFirst ELSE IF n = N THEN l.pLast ELSE FromFirst(l, n)
           prev == IF n = 1 THEN NULL ELSE l.pPrev[b]
           next == l.pNext[b]
           first == IF n = 1 THEN next ELSE l.pFirst
           last == IF n = N THEN prev ELSE l.pLast
           qn == [x \in Blocks |-> IF x = prev THEN next ELSE l.pNext[x]]
           qp == [x \in Blocks |-> IF x = next THEN prev ELSE l.pPrev[x]]
           pn == [x \in Blocks |-> IF x \in {b} THEN NULL ELSE qn[x]]
           pp == [x \in Blocks |-> IF x \in {b} THEN NULL ELSE qp[x]]
           pv == [x \in Blocks |-> IF x \in {b} THEN NULL ELSE l.pValue[x]]
           q == [l EXCEPT !.pFirst = first, !.pLast = last, !.pNext = qn, !.pPrev = qp,
                          !.nSize = @ - 1]
           m == ClearCache(Unlink(l, n))
<1>1. l \in ListTypes /\ N \in Nat /\ n \in 1..N /\ Linked(l, c) /\ NULL \notin Blocks
  BY ConstantsAssumption DEF Shape, ListTypes
<1>2. c \in [1..N -> Blocks] /\ OneToOne(c, N) /\ c[n] \in Blocks
  BY <1>1 DEF Linked
<1>3. (n # 1 => n - 1 \in 1..N /\ n - 1 \in 1..N - 1 /\ (n - 1) + 1 = n /\ n - 1 # n)
      /\ (n # N => n + 1 \in 1..N /\ n \in 1..N - 1 /\ n + 1 # n)
  BY <1>1
<1>5. /\ b = c[n]
      /\ prev = (IF n = 1 THEN NULL ELSE c[n - 1])
      /\ next = (IF n = N THEN NULL ELSE c[n + 1])
  <2>1. FromFirst(l, n) = c[n]
    BY <1>1, LinkFound
  <2>2. N > 0 /\ l.pFirst = c[1] /\ l.pLast = c[N] /\ l.pNext[c[N]] = NULL
    BY <1>1 DEF Linked
  <2>3. N = 1 => n = 1
    BY <1>1
  <2>4. b = c[n]
    BY <2>1, <2>2, <2>3
  <2> HIDE DEF b
  <2>5. n # 1 => l.pPrev[c[(n - 1) + 1]] = c[n - 1]
    BY <1>1, <1>3 DEF Linked
  <2>6. n # N => l.pNext[c[n]] = c[n + 1]
    BY <1>1, <1>3 DEF Linked
  <2> QED BY <1>3, <2>2, <2>4, <2>5, <2>6
<1>4. prev \in Pointers /\ next \in Pointers /\ prev # b /\ next # b
  <2>1. n # 1 => c[n - 1] \in Blocks /\ c[n - 1] # c[n]
    BY <1>2, <1>3, <1>1 DEF OneToOne
  <2>2. n # N => c[n + 1] \in Blocks /\ c[n + 1] # c[n]
    BY <1>2, <1>3, <1>1 DEF OneToOne
  <2> HIDE DEF b, prev, next
  <2> QED BY <1>1, <1>2, <1>5, <2>1, <2>2 DEF Pointers
<1>6. Unlink(l, n) = Forget(q, {b})
  BY DEF Unlink
<1> HIDE DEF b, prev, next
<1>7. /\ qn \in [Blocks -> Pointers] /\ qp \in [Blocks -> Pointers]
      /\ pn \in [Blocks -> Pointers] /\ pp \in [Blocks -> Pointers] /\ pv \in [Blocks -> Pointers]
  BY <1>1, <1>4 DEF ListTypes, Pointers
<1>8. first \in Pointers /\ last \in Pointers
  BY <1>1, <1>4 DEF ListTypes
<1>9. /\ pn[b] = NULL /\ pp[b] = NULL /\ pv[b] = NULL
      /\ prev \in Blocks => pn[prev] = next
      /\ next \in Blocks => pp[next] = prev
      /\ \A x \in Blocks : x # b => /\ x # prev => pn[x] = l.pNext[x]
                                    /\ x # next => pp[x] = l.pPrev[x]
                                    /\ pv[x] = l.pValue[x]
  BY <1>2, <1>4, <1>5
<1> HIDE DEF first, last, qn, qp
<1>10. /\ q \in ListTypes /\ q.pFirst = first /\ q.pLast = last /\ q.nSize = N - 1
       /\ q.pNext = qn /\ q.pPrev = qp /\ q.pValue = l.pValue
  <2>1. N - 1 \in Nat
    BY <1>1
  <2>2. q = [l EXCEPT !.pFirst = first, !.pLast = last, !.pNext = qn, !.pPrev = qp, !.nSize = N - 1]
    BY <1>1 DEF ListTypes
  <2> HIDE DEF q
  <2> QED BY <1>1, <1>7, <1>8, <2>1, <2>2 DEF ListTypes
<1> HIDE DEF q
<1>11. Forget(q, {b}) = [q EXCEPT !.pNext = pn, !.pPrev = pp, !.pValue = pv]
  BY <1>10 DEF Forget, ListTypes
<1> HIDE DEF pn, pp, pv
<1>13. /\ Forget(q, {b}) \in ListTypes
       /\ Forget(q, {b}).pFirst = first /\ Forget(q, {b}).pLast = last
       /\ Forget(q, {b}).nSize = N - 1 /\ Forget(q, {b}).pNext = pn
       /\ Forget(q, {b}).pPrev = pp /\ Forget(q, {b}).pValue = pv
  <2> DEFINE f == Forget(q, {b})
  <2>1. f = [q EXCEPT !.pNext = pn, !.pPrev = pp, !.pValue = pv]
    BY <1>11
  <2> HIDE DEF f
  <2>2. /\ f \in ListTypes /\ f.pFirst = first /\ f.pLast = last /\ f.nSize = N - 1
        /\ f.pNext = pn /\ f.pPrev = pp /\ f.pValue = pv
    BY <1>7, <1>10, <2>1 DEF ListTypes
  <2> QED BY <2>2 DEF f
<1>14. /\ m \in ListTypes /\ NoShortcuts(m) /\ m.nSize = N - 1
       /\ m.pFirst = first /\ m.pLast = last
       /\ m.pNext = pn /\ m.pPrev = pp /\ m.pValue = pv
  BY <1>6, <1>13, ClearedFields
<1>15. (n > 1 => c[n - 1] = prev /\ prev \in Blocks) /\ (n < N => c[n + 1] = next /\ next \in Blocks)
  BY <1>1, <1>2, <1>3, <1>5
<1> HIDE DEF m
<1>16. /\ n > 1 => m.pNext[c[n - 1]] = next
       /\ n < N => m.pPrev[c[n + 1]] = prev
       /\ m.pNext[b] = NULL /\ m.pPrev[b] = NULL /\ m.pValue[b] = NULL
  BY <1>9, <1>14, <1>15
<1>17. \A x \in Blocks :
            x # b => /\ (n > 1 => x # c[n - 1]) => m.pNext[x] = l.pNext[x]
                     /\ (n < N => x # c[n + 1]) => m.pPrev[x] = l.pPrev[x]
                     /\ m.pValue[x] = l.pValue[x]
  <2>1. TAKE x \in Blocks
  <2>2. (n > 1 => x # c[n - 1]) => x # prev
    <3>1. n > 1 \/ prev = NULL
      BY <1>1, <1>5
    <3> QED BY <1>1, <1>15, <3>1
  <2>3. (n < N => x # c[n + 1]) => x # next
    <3>1. n < N \/ next = NULL
      BY <1>1, <1>5
    <3> QED BY <1>1, <1>15, <3>1
  <2> QED BY <1>9, <1>14, <2>2, <2>3
<1> QED BY <1>5, <1>14, <1>16, <1>17 DEF Removed, m, first, last

-----------------------------------------------------------------------------
(* The steps. *)

(* An item is inserted after a link of the list: after the one that was    *)
(* asked for, unless the cache is off and was left elsewhere.              *)
LEMMA InsertPositionFound ==
    ASSUME NEW c, Shape(list, c), NEW n \in 1..list.nSize, NEW st
    PROVE  \E k \in 1..list.nSize :
                InsertPosition(n, st) = c[k] /\ (UsesCache(st) => k = n)
<1> DEFINE l == GetItem(list, n, st).list
<1>1. Shape(l, c) /\ l.nSize = list.nSize
  BY ReadShape
<1>2. list \in ListTypes /\ Linked(list, c) /\ Cached(list, c)
  BY DEF Shape
<1>3. list.nSize \in Nat /\ list.nNextItem \in Nat
  BY <1>2 DEF ListTypes
<1>4. l = IF list.pItemsArray # NULL \/ IsSmall(list) \/ ~UsesCache(st) THEN list
          ELSE CacheAt(list, c[n], n)
  BY <1>2, <1>3, ItemReached
<1>5. InsertPosition(n, st) =
        IF l.pLastItem = NULL \/ l.pItemsArray # NULL THEN Container(l, n) ELSE l.pLastItem
  BY DEF InsertPosition
<1> HIDE DEF l
<1>6. Container(l, n) = c[n]
  BY <1>1, <1>3, LinkFound DEF Shape
<1>7. CASE l.pLastItem = NULL \/ l.pItemsArray # NULL
  BY <1>5, <1>6, <1>7
<1>8. CASE ~(l.pLastItem = NULL \/ l.pItemsArray # NULL)
  <2>1. CASE list.pItemsArray # NULL \/ IsSmall(list) \/ ~UsesCache(st)
    <3>1. l = list /\ ~UsesCache(st)
      BY <1>2, <1>4, <1>8, <2>1 DEF Cached
    <3>2. list.nNextItem - 1 \in 1..list.nSize /\ l.pLastItem = c[list.nNextItem - 1]
      BY <1>2, <1>8, <3>1 DEF Cached
    <3> QED BY <1>5, <1>8, <3>1, <3>2
  <2>2. CASE ~(list.pItemsArray # NULL \/ IsSmall(list) \/ ~UsesCache(st))
    <3>1. l.pLastItem = c[n]
      BY <1>2, <1>4, <2>2 DEF CacheAt, ListTypes
    <3> QED BY <1>5, <1>8, <3>1
  <2> QED BY <2>1, <2>2
<1> QED BY <1>7, <1>8

(* Setting an item moves the cache and changes the value of that item. *)
LEMMA SetItemShape ==
    ASSUME NEW l, NEW c, Shape(l, c), NEW n \in 1..l.nSize, NEW v, NEW st,
           SetItem(l, n, v, st)
    PROVE  /\ Shape(list', c)
           /\ list'.nSize = l.nSize
           /\ LinksOf(list', c) = LinksOf(l, c)
           /\ ItemSet(list', c) = ItemSet(l, c)
           /\ ItemsOf(list', c) = ItemsOf(l, c)
           /\ content' = [content EXCEPT ![ItemsOf(l, c)[n]] = v]
<1>1. list' = GetItem(l, n, st).list /\ content' = [content EXCEPT ![GetItem(l, n, st).item] = v]
  BY DEF SetItem
<1>2. Shape(list', c) /\ list'.nSize = l.nSize /\ list'.pValue = l.pValue
  BY <1>1, ReadShape
<1>3. l \in ListTypes /\ Linked(l, c) /\ Cached(l, c)
  BY DEF Shape
<1>4. l.nSize \in Nat /\ l.nNextItem \in Nat
  BY <1>3 DEF ListTypes
<1>5. GetItem(l, n, st).item = l.pValue[c[n]]
  BY <1>3, <1>4, ItemReached
<1>6. ItemsOf(l, c)[n] = l.pValue[c[n]]
  BY DEF ItemsOf
<1> QED BY <1>1, <1>2, <1>5, <1>6 DEF LinksOf, ItemSet, ItemsOf

(* A new block has no owner, and gets two. *)
LEMMA BlockTaken ==
    ASSUME NEW S, NEW V, Types, Counted(Memory, S, V, held), NEW b \in Blocks, Allocate(b)
    PROVE  /\ b \notin S /\ b \notin V
           /\ Counted(Memory', S \cup {b}, V \cup {b}, held)
           /\ allocated' \subseteq Blocks
           /\ nGCReferenceCount' \in [Blocks -> 0..MaxHeld + 1]
<1>1. /\ b \notin allocated /\ allocated' = allocated \cup {b}
      /\ nGCReferenceCount' = [nGCReferenceCount EXCEPT ![b] = 1]
  BY DEF Allocate
<1>2. /\ allocated \subseteq Blocks /\ nGCReferenceCount \in [Blocks -> 0..MaxHeld + 1]
      /\ MaxHeld \in Nat /\ held[b] \in Nat
  BY ConstantsAssumption DEF Types
<1>3. OwnersOf(b, S, V, held) = 0
  BY <1>1 DEF Counted, Memory
<1>4. b \notin S /\ b \notin V /\ held[b] = 0
  BY <1>2, <1>3 DEF OwnersOf
<1>5. OwnersOf(b, S \cup {b}, V \cup {b}, held) = 2
  BY <1>4 DEF OwnersOf
<1>6. \A x \in Blocks : x # b =>
        OwnersOf(x, S \cup {b}, V \cup {b}, held) = OwnersOf(x, S, V, held)
  BY DEF OwnersOf
<1>7. /\ Memory'.blocks = allocated \cup {b}
      /\ Memory'.count = [nGCReferenceCount EXCEPT ![b] = 1]
  BY <1>1 DEF Memory
<1>8. Memory'.count[b] = 1 /\ \A x \in Blocks : x # b => Memory'.count[x] = Memory.count[x]
  BY <1>2, <1>7 DEF Memory
<1>9. ASSUME NEW x \in Blocks
      PROVE  IF x \in Memory'.blocks
             THEN Memory'.count[x] + 1 = OwnersOf(x, S \cup {b}, V \cup {b}, held)
             ELSE OwnersOf(x, S \cup {b}, V \cup {b}, held) = 0
  <2>1. CASE x = b
    BY <1>5, <1>7, <1>8, <2>1
  <2>2. CASE x # b
    <3>1. x \in Memory'.blocks <=> x \in Memory.blocks
      BY <1>7, <2>2 DEF Memory
    <3> QED BY <1>6, <1>8, <2>2, <3>1 DEF Counted
  <2> QED BY <2>1, <2>2
<1>10. Counted(Memory', S \cup {b}, V \cup {b}, held)
  BY <1>9 DEF Counted
<1> QED BY <1>1, <1>2, <1>4, <1>10

(* The invariant of the next state, from a chain of its list. *)
LEMMA Taken ==
    ASSUME Types', NEW c, Shape(list', c),
           Running' => Counted(Memory', LinksOf(list', c), ItemSet(list', c), held')
    PROVE  IInv'
<1>1. Chain(list') = c
  <2>1. list'.nSize \in Nat /\ Linked(list', c)
    BY DEF Shape, ListTypes
  <2> QED BY <2>1, ChainIs
<1>2. Shape(list', Chain(list'))
  BY <1>1
<1>3. Running' => Counted(Memory', LinksOf(list', Chain(list')), ItemSet(list', Chain(list')), held')
  BY <1>1
<1> QED BY <1>2, <1>3 DEF IInv, MemoryCounted

(* The values of a list whose items are e. *)
Contents(e, N, value) == [n \in 1..N |-> value[e[n]]]

LEMMA AsSequenceIs ==
    ASSUME NEW c, Shape(list, c)
    PROVE  AsSequence = Contents(ItemsOf(list, c), list.nSize, content)
<1>1. list.nSize \in Nat /\ Linked(list, c)
  BY DEF Shape, ListTypes
<1>2. \A n \in 1..list.nSize : FromFirst(list, n) = c[n]
  BY <1>1, LinkFound
<1>3. \A n \in 1..list.nSize : ItemsOf(list, c)[n] = list.pValue[c[n]]
  BY DEF ItemsOf
<1> QED BY <1>2, <1>3 DEF AsSequence, Contents

LEMMA NextSequenceIs ==
    ASSUME NEW c, Shape(list', c)
    PROVE  AsSequence' = Contents(ItemsOf(list', c), list'.nSize, content')
<1>1. list'.nSize \in Nat /\ Linked(list', c)
  BY DEF Shape, ListTypes
<1>2. \A n \in 1..list'.nSize : FromFirst(list', n) = c[n]
  BY <1>1, LinkFound
<1>3. \A n \in 1..list'.nSize : ItemsOf(list', c)[n] = list'.pValue[c[n]]
  BY DEF ItemsOf
<1>4. AsSequence' = [n \in 1..list'.nSize |-> content'[list'.pValue[FromFirst(list', n)]]]
  BY DEF AsSequence
<1> QED BY <1>2, <1>3, <1>4 DEF Contents

(* Inserting into a sequence and removing from it. *)

Joined(u, s, m, t, n) ==
    /\ Len(u) = m + n
    /\ \A i \in 1..m : u[i] = s[i]
    /\ \A i \in 1..n : u[m + i] = t[i]

LEMMA ConcatIs ==
    ASSUME NEW S, NEW s \in Seq(S), NEW m \in Nat, Len(s) = m,
           NEW t \in Seq(S), NEW n \in Nat, Len(t) = n
    PROVE  s \o t \in Seq(S) /\ Joined(s \o t, s, m, t, n)
BY DEF Joined
LEMMA SeqIs ==
    ASSUME NEW S, NEW s \in Seq(S)
    PROVE  s = [i \in 1..Len(s) |-> s[i]]
OBVIOUS
LEMMA RemoveAtIs ==
    ASSUME NEW S, NEW N \in Nat, NEW s \in [1..N -> S], NEW n \in 1..N
    PROVE  RemoveAt(s, n) = Without(s, N, n)
<1>1. s \in Seq(S) /\ Len(s) = N
  OBVIOUS
<1> DEFINE front == SubSeq(s, 1, n - 1)
           back == SubSeq(s, n + 1, N)
           t == front \o back
<1>2. front \in Seq(S) /\ Len(front) = n - 1 /\ \A i \in 1..n - 1 : front[i] = s[i]
  BY <1>1
<1>3. back \in Seq(S) /\ Len(back) = N - n /\ \A i \in 1..N - n : back[i] = s[n + i]
  BY <1>1
<1>4. n - 1 \in Nat /\ N - n \in Nat
  OBVIOUS
<1>5. RemoveAt(s, n) = t
  BY <1>1 DEF RemoveAt
<1> HIDE DEF front, back
<1>6. t \in Seq(S) /\ Joined(t, front, n - 1, back, N - n)
  BY <1>2, <1>3, <1>4, ConcatIs
<1> HIDE DEF t
<1>7. /\ t \in Seq(S) /\ Len(t) = (n - 1) + (N - n)
      /\ \A i \in 1..n - 1 : t[i] = front[i]
      /\ \A i \in 1..N - n : t[(n - 1) + i] = back[i]
  BY <1>6 DEF Joined
<1>8. Len(t) = N - 1
  BY <1>7
<1>9. ASSUME NEW i \in 1..N - 1 PROVE t[i] = IF i < n THEN s[i] ELSE s[i + 1]
  <2>1. CASE i < n
    <3>1. i \in 1..n - 1
      BY <2>1
    <3> QED BY <3>1, <2>1, <1>2, <1>7
  <2>2. CASE ~(i < n)
    <3>1. i - n + 1 \in 1..N - n /\ (n - 1) + (i - n + 1) = i /\ n + (i - n + 1) = i + 1
      BY <2>2
    <3>2. t[(n - 1) + (i - n + 1)] = back[i - n + 1] /\ back[i - n + 1] = s[n + (i - n + 1)]
      BY <1>3, <1>7, <3>1
    <3> QED BY <3>1, <3>2, <2>2
  <2> QED BY <2>1, <2>2
<1>10. t = [i \in 1..N - 1 |-> t[i]]
  BY <1>7, <1>8, SeqIs
<1> QED BY <1>5, <1>9, <1>10 DEF Without

LEMMA InsertAtIs ==
    ASSUME NEW S, NEW N \in Nat, NEW s \in [1..N -> S], NEW n \in 0..N, NEW v \in S
    PROVE  InsertAt(s, n + 1, v) = With(s, N, n, v)
<1>1. s \in Seq(S) /\ Len(s) = N
  OBVIOUS
<1> DEFINE front == SubSeq(s, 1, n)
           back == SubSeq(s, n + 1, N)
           most == front \o <<v>>
           t == most \o back
<1>2. front \in Seq(S) /\ Len(front) = n /\ \A i \in 1..n : front[i] = s[i]
  BY <1>1
<1>3. back \in Seq(S) /\ Len(back) = N - n /\ \A i \in 1..N - n : back[i] = s[n + i]
  BY <1>1
<1>4. n \in Nat /\ n + 1 \in Nat /\ N - n \in Nat /\ 1 \in Nat
  OBVIOUS
<1>5. InsertAt(s, n + 1, v) = t
  <2>1. (n + 1) - 1 = n
    OBVIOUS
  <2> QED BY <1>1, <2>1 DEF InsertAt
<1>6. <<v>> \in Seq(S) /\ Len(<<v>>) = 1 /\ <<v>>[1] = v
  OBVIOUS
<1> HIDE DEF front, back
<1>7. /\ most \in Seq(S) /\ Len(most) = n + 1
      /\ \A i \in 1..n : most[i] = front[i]
      /\ most[n + 1] = v
  <2> DEFINE one == <<v>>
  <2>1. one \in Seq(S) /\ Len(one) = 1 /\ one[1] = v
    BY <1>6
  <2>2. most = front \o one
    OBVIOUS
  <2> HIDE DEF most, one
  <2>3. front \o one \in Seq(S) /\ Joined(front \o one, front, n, one, 1)
    BY <1>2, <2>1, <1>4, ConcatIs
  <2>4. most \in Seq(S) /\ Joined(most, front, n, one, 1)
    BY <2>2, <2>3
  <2> QED BY <2>1, <2>4 DEF Joined
<1> HIDE DEF most
<1>8. t \in Seq(S) /\ Joined(t, most, n + 1, back, N - n)
  BY <1>3, <1>7, <1>4, ConcatIs
<1> HIDE DEF t
<1>9. /\ t \in Seq(S) /\ Len(t) = (n + 1) + (N - n)
      /\ \A i \in 1..n + 1 : t[i] = most[i]
      /\ \A i \in 1..N - n : t[(n + 1) + i] = back[i]
  BY <1>8 DEF Joined
<1>10. Len(t) = N + 1
  BY <1>9
<1>11. ASSUME NEW i \in 1..N + 1
      PROVE  t[i] = IF i <= n THEN s[i] ELSE IF i = n + 1 THEN v ELSE s[i - 1]
  <2>1. CASE i <= n
    <3>1. i \in 1..n /\ i \in 1..n + 1
      BY <2>1
    <3> QED BY <3>1, <2>1, <1>2, <1>7, <1>9
  <2>2. CASE i = n + 1
    <3>1. i \in 1..n + 1 /\ ~(i <= n)
      BY <2>2
    <3> QED BY <3>1, <2>2, <1>7, <1>9
  <2>3. CASE ~(i <= n) /\ i # n + 1
    <3>1. i - n - 1 \in 1..N - n /\ (n + 1) + (i - n - 1) = i /\ n + (i - n - 1) = i - 1
      BY <2>3
    <3>2. t[(n + 1) + (i - n - 1)] = back[i - n - 1] /\ back[i - n - 1] = s[n + (i - n - 1)]
      BY <1>3, <1>9, <3>1
    <3> QED BY <3>1, <3>2, <2>3
  <2> QED BY <2>1, <2>2, <2>3
<1>12. t = [i \in 1..N + 1 |-> t[i]]
  BY <1>9, <1>10, SeqIs
<1> QED BY <1>5, <1>11, <1>12 DEF With

LEMMA AppendIs ==
    ASSUME NEW S, NEW N \in Nat, NEW s \in [1..N -> S], NEW v \in S
    PROVE  Append(s, v) = With(s, N, N, v)
<1>1. s \in Seq(S) /\ Len(s) = N
  OBVIOUS
<1> DEFINE t == Append(s, v)
<1>2. t \in Seq(S) /\ Len(t) = N + 1
  BY <1>1
<1>3. (\A i \in 1..N : t[i] = s[i]) /\ t[N + 1] = v
  BY <1>1
<1> HIDE DEF t
<1>4. t = [i \in 1..N + 1 |-> t[i]]
  BY <1>2, SeqIs
<1>5. \A i \in 1..N + 1 : t[i] = IF i <= N THEN s[i] ELSE IF i = N + 1 THEN v ELSE s[i - 1]
  BY <1>3
<1> QED BY <1>4, <1>5 DEF With, t

(* What the values become. *)

Held == Values \cup {NULL}

Changed(ct, b, v) == [ct EXCEPT ![b] = v]

LEMMA ContentsType ==
    ASSUME NEW N \in Nat, NEW e \in [1..N -> Blocks], NEW ct \in [Blocks -> Held]
    PROVE  Contents(e, N, ct) \in [1..N -> Held]
BY DEF Contents

LEMMA ContentsWith ==
    ASSUME NEW N \in Nat, NEW e \in [1..N -> Blocks], NEW ct \in [Blocks -> Held],
           NEW n \in 0..N, NEW b \in Blocks, NEW v, b \notin Entries(e, N)
    PROVE  Contents(With(e, N, n, b), N + 1, Changed(ct, b, v)) = With(Contents(e, N, ct), N, n, v)
<1> DEFINE after == Changed(ct, b, v)
           value(i) == after[With(e, N, n, b)[i]]
           C == Contents(e, N, ct)
<1>1. ASSUME NEW i \in 1..N + 1
      PROVE  value(i) = IF i <= n THEN C[i] ELSE IF i = n + 1 THEN v ELSE C[i - 1]
  <2>1. With(e, N, n, b)[i] = IF i <= n THEN e[i] ELSE IF i = n + 1 THEN b ELSE e[i - 1]
    BY DEF With
  <2>2. after[b] = v /\ \A j \in 1..N : C[j] = ct[e[j]] /\ after[e[j]] = ct[e[j]]
    BY DEF Contents, Entries, Changed
  <2>3. CASE i <= n
    <3>1. i \in 1..N
      BY <2>3
    <3> QED BY <2>1, <2>2, <2>3, <3>1
  <2>4. CASE i = n + 1
    <3>1. ~(i <= n)
      BY <2>4
    <3> QED BY <2>1, <2>2, <2>4, <3>1
  <2>5. CASE ~(i <= n) /\ i # n + 1
    <3>1. i - 1 \in 1..N
      BY <2>5
    <3> QED BY <2>1, <2>2, <2>5, <3>1
  <2> QED BY <2>3, <2>4, <2>5
<1>2. Contents(With(e, N, n, b), N + 1, after) = [i \in 1..N + 1 |-> value(i)]
  BY DEF Contents
<1> HIDE DEF value, after, C
<1>3. Contents(With(e, N, n, b), N + 1, after) = With(C, N, n, v)
  BY <1>1, <1>2 DEF With
<1> QED BY <1>3 DEF after, C

LEMMA ContentsWithout ==
    ASSUME NEW N \in Nat, NEW e \in [1..N -> Blocks], NEW ct, NEW n \in 1..N
    PROVE  Contents(Without(e, N, n), N - 1, ct) = Without(Contents(e, N, ct), N, n)
<1> DEFINE C == Contents(e, N, ct)
<1>1. ASSUME NEW i \in 1..N - 1
      PROVE  ct[Without(e, N, n)[i]] = IF i < n THEN C[i] ELSE C[i + 1]
  <2>1. i \in 1..N /\ i + 1 \in 1..N
    OBVIOUS
  <2>2. C[i] = ct[e[i]] /\ C[i + 1] = ct[e[i + 1]]
    BY <2>1 DEF Contents
  <2>3. Without(e, N, n)[i] = IF i < n THEN e[i] ELSE e[i + 1]
    BY DEF Without
  <2> QED BY <2>2, <2>3
<1> HIDE DEF C
<1>2. Contents(Without(e, N, n), N - 1, ct) = Without(C, N, n)
  BY <1>1 DEF Contents, Without
<1> QED BY <1>2 DEF C

LEMMA ContentsSet ==
    ASSUME NEW N \in Nat, NEW e \in [1..N -> Blocks], OneToOne(e, N),
           NEW ct \in [Blocks -> Held], NEW n \in 1..N, NEW v
    PROVE  Contents(e, N, Changed(ct, e[n], v)) = Changed(Contents(e, N, ct), n, v)
<1>1. \A i \in 1..N : Changed(ct, e[n], v)[e[i]] = IF i = n THEN v ELSE ct[e[i]]
  BY DEF OneToOne, Changed
<1> QED BY <1>1 DEF Contents, Changed

LEMMA ContentsSwap ==
    ASSUME NEW N \in Nat, NEW e \in [1..N -> Blocks], NEW ct, NEW i \in 1..N, NEW j \in 1..N
    PROVE  Contents(Exchanged(e, i, j), N, ct) = Exchanged(Contents(e, N, ct), i, j)
BY DEF Contents, Exchanged

-----------------------------------------------------------------------------

(* What IInv says of the list and its memory. *)
LEMMA Invariant ==
    ASSUME IInv, Running
    PROVE  LET c == Chain(list)
               N == list.nSize
               e == ItemsOf(list, c)
           IN  /\ Types /\ Shape(list, c) /\ N \in Nat
               /\ Counted(Memory, LinksOf(list, c), ItemSet(list, c), held)
               /\ e \in [1..N -> Blocks] /\ OneToOne(e, N)
               /\ AsSequence = Contents(e, N, content)
               /\ AsSequence \in [1..N -> Held]
               /\ Memory \in MemoryTypes /\ held \in References
<1> DEFINE c == Chain(list)
<1>1. Types /\ Shape(list, c) /\ Counted(Memory, LinksOf(list, c), ItemSet(list, c), held)
  BY DEF IInv, MemoryCounted
<1> HIDE DEF c
<1>2. /\ list.nSize \in Nat /\ ItemsOf(list, c) \in [1..list.nSize -> Blocks]
      /\ OneToOne(ItemsOf(list, c), list.nSize)
  BY <1>1 DEF Shape, Valued, ListTypes
<1>3. AsSequence = Contents(ItemsOf(list, c), list.nSize, content)
  BY <1>1, AsSequenceIs
<1>4. content \in [Blocks -> Held]
  BY <1>1 DEF Types, Held
<1>5. Contents(ItemsOf(list, c), list.nSize, content) \in [1..list.nSize -> Held]
  BY <1>2, <1>4, ContentsType
<1>6. Memory \in MemoryTypes /\ held \in References
  BY <1>1 DEF Types, Memory, MemoryTypes, References
<1> QED BY <1>1, <1>2, <1>3, <1>5, <1>6 DEF c

(* A block is linked after the k-th link, and the item n + 1 is set. *)
LEMMA LinkAdded ==
    ASSUME IInv, Running, NEW b \in Blocks, Allocate(b),
           NEW k \in 0..list.nSize, NEW m,
           b \notin LinksOf(list, Chain(list)) => Inserted(list, m, Chain(list), k, b),
           NEW n \in 0..list.nSize, NEW v \in Values, NEW st, SetItem(m, n + 1, v, st),
           UNCHANGED <<held, lUsingThreads, crashed>>
    PROVE  IInv' /\ (k = n => AsSequence' = With(AsSequence, list.nSize, n, v))
<1> DEFINE c == Chain(list)
           N == list.nSize
           e == ItemsOf(list, c)
           d == With(c, N, k, b)
           f == With(e, N, k, b)
<1>1. /\ Types /\ Shape(list, c) /\ N \in Nat
      /\ Counted(Memory, LinksOf(list, c), ItemSet(list, c), held)
      /\ e \in [1..N -> Blocks] /\ AsSequence = Contents(e, N, content)
  BY Invariant
<1> HIDE DEF c
<1>2. /\ b \notin LinksOf(list, c) /\ b \notin ItemSet(list, c)
      /\ Counted(Memory', LinksOf(list, c) \cup {b}, ItemSet(list, c) \cup {b}, held)
      /\ allocated' \subseteq Blocks
      /\ nGCReferenceCount' \in [Blocks -> 0..MaxHeld + 1]
  BY <1>1, BlockTaken
<1>3. Inserted(list, m, c, k, b)
  BY <1>2 DEF c
<1>4. /\ Shape(m, d) /\ ItemsOf(m, d) = f
      /\ LinksOf(m, d) = LinksOf(list, c) \cup {b} /\ ItemSet(m, d) = ItemSet(list, c) \cup {b}
  BY <1>1, <1>2, <1>3, InsertedShape
<1>5. m.nSize = N + 1 /\ n + 1 \in 1..m.nSize /\ k \in 0..N /\ n \in 0..N
  BY <1>1, <1>3 DEF Inserted
<1>6. b \notin Entries(e, N)
  BY <1>2 DEF ItemsOf, ItemSet, Entries
<1>7. f \in [1..N + 1 -> Blocks]
  BY <1>1, <1>5, WithType
<1>8. f[k + 1] = b
  <2>1. k + 1 \in 1..N + 1 /\ ~(k + 1 <= k)
    BY <1>1, <1>5
  <2> QED BY <2>1 DEF With
<1> HIDE DEF d, f, N, e
<1>9. /\ Shape(list', d) /\ list'.nSize = N + 1
      /\ LinksOf(list', d) = LinksOf(list, c) \cup {b}
      /\ ItemSet(list', d) = ItemSet(list, c) \cup {b}
      /\ ItemsOf(list', d) = f
      /\ content' = [content EXCEPT ![f[n + 1]] = v]
  BY <1>4, <1>5, SetItemShape
<1>10. content \in [Blocks -> Held]
  BY <1>1 DEF Types, Held
<1>11. content' \in [Blocks -> Held]
  BY <1>5, <1>7, <1>9, <1>10 DEF Held
<1>12. Types'
  BY <1>1, <1>2, <1>11 DEF Types, Held
<1>13. IInv'
  BY <1>2, <1>9, <1>12, Taken
<1>14. ASSUME k = n PROVE AsSequence' = With(AsSequence, N, n, v)
  <2>1. AsSequence' = Contents(f, N + 1, content') /\ content' = Changed(content, b, v)
    BY <1>8, <1>9, <1>14, NextSequenceIs DEF Changed
  <2>2. f = With(e, N, n, b)
    BY <1>14 DEF f
  <2>3. Contents(With(e, N, n, b), N + 1, Changed(content, b, v))
          = With(Contents(e, N, content), N, n, v)
    BY <1>1, <1>5, <1>6, <1>10, ContentsWith
  <2> QED BY <1>1, <2>1, <2>2, <2>3
<1> QED BY <1>13, <1>14 DEF N

LEMMA AddStep ==
    ASSUME IInv, NEW v \in Values, NEW st, Add(v, st)
    PROVE  IInv' /\ AsSequence' = Append(AsSequence, v)
<1>1. /\ Running /\ UNCHANGED <<held, lUsingThreads, crashed>>
      /\ \E b \in Blocks : Allocate(b) /\ SetItem(NewItem(list, b), list.nSize + 1, v, st)
  BY DEF Add
<1>2. Shape(list, Chain(list)) /\ list.nSize \in Nat /\ AsSequence \in [1..list.nSize -> Held]
  BY <1>1, Invariant
<1>3. PICK b \in Blocks : Allocate(b) /\ SetItem(NewItem(list, b), list.nSize + 1, v, st)
  BY <1>1
<1> DEFINE N == list.nSize
           m == NewItem(list, b)
<1>4. b \notin LinksOf(list, Chain(list)) => Inserted(list, m, Chain(list), N, b)
  BY <1>2, NewItemInserted
<1>5. N \in 0..N
  BY <1>2
<1> HIDE DEF m
<1>6. IInv' /\ AsSequence' = With(AsSequence, N, N, v)
  BY <1>1, <1>3, <1>4, <1>5, LinkAdded DEF m
<1>7. v \in Held
  BY DEF Held
<1>8. Append(AsSequence, v) = With(AsSequence, N, N, v)
  BY <1>2, <1>7, AppendIs
<1> QED BY <1>6, <1>8

LEMMA InsertStep ==
    ASSUME IInv, NEW n \in 0..list.nSize, NEW v \in Values, NEW st, Insert(n, v, st)
    PROVE  IInv' /\ (~lUsingThreads => AsSequence' = InsertAt(AsSequence, n + 1, v))
<1> DEFINE c == Chain(list)
           N == list.nSize
           pos == InsertPosition(n, st)
<1>1. /\ Running /\ UNCHANGED <<held, lUsingThreads>>
      /\ \E b \in Blocks :
            /\ Allocate(b)
            /\ \/ /\ n = N
                  /\ SetItem(NewItem(list, b), n + 1, v, st)
                  /\ UNCHANGED crashed
               \/ /\ n = 0 /\ n < N
                  /\ SetItem(InsertFirst(list, b), n + 1, v, st)
                  /\ UNCHANGED crashed
               \/ /\ n > 0 /\ n < N
                  /\ IF list.pNext[pos] = NULL
                     THEN crashed' = TRUE /\ UNCHANGED <<list, content>>
                     ELSE /\ SetItem(InsertAfter(list, b, pos), n + 1, v, st)
                          /\ UNCHANGED crashed
  BY DEF Insert
<1>2. /\ Shape(list, c) /\ N \in Nat /\ AsSequence \in [1..N -> Held] /\ Types
      /\ Counted(Memory, LinksOf(list, c), ItemSet(list, c), held)
  BY <1>1, Invariant
<1>3. n \in 0..N /\ N \in 0..N
  BY <1>2
<1> HIDE DEF N, pos, c
<1>4. PICK b \in Blocks :
            /\ Allocate(b)
            /\ \/ /\ n = N
                  /\ SetItem(NewItem(list, b), n + 1, v, st)
                  /\ UNCHANGED crashed
               \/ /\ n = 0 /\ n < N
                  /\ SetItem(InsertFirst(list, b), n + 1, v, st)
                  /\ UNCHANGED crashed
               \/ /\ n > 0 /\ n < N
                  /\ IF list.pNext[pos] = NULL
                     THEN crashed' = TRUE /\ UNCHANGED <<list, content>>
                     ELSE /\ SetItem(InsertAfter(list, b, pos), n + 1, v, st)
                          /\ UNCHANGED crashed
  BY <1>1
<1>5. InsertAt(AsSequence, n + 1, v) = With(AsSequence, N, n, v)
  <2>1. v \in Held
    BY DEF Held
  <2> QED BY <1>2, <1>3, <2>1, InsertAtIs
<1>6. ASSUME n = N, SetItem(NewItem(list, b), n + 1, v, st), UNCHANGED crashed
      PROVE  IInv' /\ AsSequence' = With(AsSequence, N, n, v)
  <2> DEFINE m == NewItem(list, b)
  <2>1. b \notin LinksOf(list, c) => Inserted(list, m, c, n, b)
    BY <1>2, <1>6, NewItemInserted DEF N
  <2> HIDE DEF m
  <2>2. SetItem(m, n + 1, v, st)
    BY <1>6 DEF m
  <2> QED BY <1>1, <1>3, <1>4, <1>6, <2>1, <2>2, LinkAdded DEF N, c
<1>7. ASSUME n = 0, n < N, SetItem(InsertFirst(list, b), n + 1, v, st), UNCHANGED crashed
      PROVE  IInv' /\ AsSequence' = With(AsSequence, N, n, v)
  <2> DEFINE m == InsertFirst(list, b)
  <2>1. b \notin LinksOf(list, c) => Inserted(list, m, c, n, b)
    BY <1>2, <1>7, InsertFirstInserted DEF N
  <2> HIDE DEF m
  <2>2. SetItem(m, n + 1, v, st)
    BY <1>7 DEF m
  <2> QED BY <1>1, <1>3, <1>4, <1>7, <2>1, <2>2, LinkAdded DEF N, c
<1>8. ASSUME n > 0, n < N
      PROVE  \E k \in 1..N : pos = c[k] /\ (UsesCache(st) => k = n)
  <2>1. n \in 1..N
    BY <1>2, <1>3, <1>8
  <2> QED BY <1>2, <2>1, InsertPositionFound DEF N, pos
<1>9. ~lUsingThreads => UsesCache(st)
  BY DEF UsesCache
<1>10. ASSUME n > 0, n < N, list.pNext[pos] = NULL, crashed' = TRUE, UNCHANGED <<list, content>>
       PROVE  IInv' /\ lUsingThreads
  <2>1. PICK k \in 1..N : pos = c[k] /\ (UsesCache(st) => k = n)
    BY <1>8, <1>10
  <2>2. k \in 1..N - 1 => list.pNext[c[k]] = c[k + 1] /\ c[k + 1] \in Blocks
    <3>1. k \in 1..N - 1 => k + 1 \in 1..N
      BY <1>2
    <3> QED BY <1>2, <3>1 DEF Shape, Linked, N
  <2>3. k \notin 1..N - 1
    BY <1>10, <2>1, <2>2, ConstantsAssumption
  <2>4. k # n
    BY <1>2, <1>3, <1>10, <2>3
  <2>5. lUsingThreads
    BY <1>9, <2>1, <2>4
  <2>6. /\ allocated' \subseteq Blocks
        /\ nGCReferenceCount' \in [Blocks -> 0..MaxHeld + 1]
    BY <1>2, <1>4, BlockTaken
  <2>7. Types'
    BY <1>1, <1>2, <1>10, <2>5, <2>6 DEF Types
  <2>8. Shape(list', c) /\ ~Running'
    BY <1>2, <1>10 DEF Running
  <2> QED BY <2>5, <2>7, <2>8, Taken
<1>11. ASSUME n > 0, n < N, list.pNext[pos] # NULL,
              SetItem(InsertAfter(list, b, pos), n + 1, v, st), UNCHANGED crashed
       PROVE  IInv' /\ (~lUsingThreads => AsSequence' = With(AsSequence, N, n, v))
  <2>1. PICK k \in 1..N : pos = c[k] /\ (UsesCache(st) => k = n)
    BY <1>8, <1>11
  <2>2. k # N
    <3>1. N > 0 => list.pNext[c[N]] = NULL
      BY <1>2 DEF Shape, Linked, N
    <3> QED BY <1>2, <1>11, <2>1, <3>1
  <2>3. k \in 1..N - 1 /\ k \in 0..N
    BY <1>2, <2>2
  <2> DEFINE m == InsertAfter(list, b, pos)
  <2>4. b \notin LinksOf(list, c) => Inserted(list, m, c, k, b)
    BY <1>2, <2>1, <2>3, InsertAfterInserted DEF N
  <2> HIDE DEF m
  <2>5. SetItem(m, n + 1, v, st)
    BY <1>11 DEF m
  <2>6. IInv' /\ (k = n => AsSequence' = With(AsSequence, N, n, v))
    BY <1>1, <1>3, <1>4, <1>11, <2>3, <2>4, <2>5, LinkAdded DEF N, c
  <2> QED BY <1>9, <2>1, <2>6
<1> QED BY <1>4, <1>5, <1>6, <1>7, <1>10, <1>11

LEMMA SetStep ==
    ASSUME IInv, NEW n \in 1..list.nSize, NEW v \in Values, NEW st, Set(n, v, st)
    PROVE  IInv' /\ AsSequence' = [AsSequence EXCEPT ![n] = v]
<1> DEFINE c == Chain(list)
           N == list.nSize
           e == ItemsOf(list, c)
<1>1. /\ Running /\ SetItem(list, n, v, st)
      /\ UNCHANGED <<memory, held, lUsingThreads, crashed>>
  BY DEF Set
<1>2. /\ Types /\ Shape(list, c) /\ N \in Nat
      /\ Counted(Memory, LinksOf(list, c), ItemSet(list, c), held)
      /\ e \in [1..N -> Blocks] /\ OneToOne(e, N) /\ AsSequence = Contents(e, N, content)
  BY <1>1, Invariant
<1>3. n \in 1..N
  OBVIOUS
<1> HIDE DEF c
<1>4. /\ Shape(list', c) /\ list'.nSize = N
      /\ LinksOf(list', c) = LinksOf(list, c) /\ ItemSet(list', c) = ItemSet(list, c)
      /\ ItemsOf(list', c) = e /\ content' = [content EXCEPT ![e[n]] = v]
  BY <1>1, <1>2, SetItemShape
<1> HIDE DEF N, e
<1>5. content \in [Blocks -> Held]
  BY <1>2 DEF Types, Held
<1>6. content' \in [Blocks -> Held]
  BY <1>2, <1>3, <1>4, <1>5 DEF Held
<1>7. Types' /\ Memory' = Memory /\ held' = held
  BY <1>1, <1>2, <1>6 DEF Types, Held, Memory, memory
<1>8. IInv'
  BY <1>2, <1>4, <1>7, Taken
<1>9. AsSequence' = Contents(e, N, Changed(content, e[n], v))
  BY <1>4, NextSequenceIs DEF Changed
<1>10. Contents(e, N, Changed(content, e[n], v)) = Changed(Contents(e, N, content), n, v)
  BY <1>2, <1>3, <1>5, ContentsSet
<1> QED BY <1>2, <1>8, <1>9, <1>10 DEF Changed

(* The chain, its items and their owners are the same. *)
LEMMA SameItems ==
    ASSUME IInv, Running, Shape(list', Chain(list)), list'.nSize = list.nSize,
           list'.pValue = list.pValue, UNCHANGED <<content, memory, held, lUsingThreads, crashed>>
    PROVE  IInv' /\ AsSequence' = AsSequence
<1> DEFINE c == Chain(list)
<1>1. /\ Types /\ Shape(list, c) /\ Counted(Memory, LinksOf(list, c), ItemSet(list, c), held)
      /\ AsSequence = Contents(ItemsOf(list, c), list.nSize, content)
  BY Invariant
<1>2. Shape(list', c)
  OBVIOUS
<1> HIDE DEF c
<1>3. /\ LinksOf(list', c) = LinksOf(list, c) /\ ItemSet(list', c) = ItemSet(list, c)
      /\ ItemsOf(list', c) = ItemsOf(list, c)
  BY DEF LinksOf, ItemSet, ItemsOf
<1>4. Types' /\ Memory' = Memory /\ held' = held
  BY <1>1 DEF Types, Memory, memory
<1>5. IInv'
  BY <1>1, <1>2, <1>3, <1>4, Taken
<1> QED BY <1>1, <1>2, <1>3, <1>5, NextSequenceIs

LEMMA GetStep ==
    ASSUME IInv, NEW n \in 1..list.nSize, NEW st, Get(n, st)
    PROVE  IInv' /\ AsSequence' = AsSequence
<1>1. /\ Running /\ list' = GetItem(list, n, st).list
      /\ UNCHANGED <<content, memory, held, lUsingThreads, crashed>>
  BY DEF Get
<1>2. Shape(list, Chain(list))
  BY <1>1, Invariant
<1>3. Shape(list', Chain(list)) /\ list'.nSize = list.nSize /\ list'.pValue = list.pValue
  BY <1>1, <1>2, ReadShape
<1> QED BY <1>1, <1>3, SameItems

LEMMA GenArrayStep ==
    ASSUME IInv, GenArray
    PROVE  IInv' /\ AsSequence' = AsSequence
<1>1. /\ Running /\ UNCHANGED <<content, memory, held, lUsingThreads, crashed>>
      /\ list' = [list EXCEPT !.pItemsArray =
                     IF list.nSize = 0 THEN NULL
                     ELSE [n \in 1..list.nSize |-> list.pValue[FromFirst(list, n)]]]
  BY DEF GenArray
<1>2. Shape(list, Chain(list))
  BY <1>1, Invariant
<1>3. Shape(list', Chain(list)) /\ list'.nSize = list.nSize /\ list'.pValue = list.pValue
  BY <1>1, <1>2, ArrayShape
<1> QED BY <1>1, <1>3, SameItems

(* What is left in use when m is set. *)
LEMMA MemorySet ==
    ASSUME NEW m \in MemoryTypes, SetMemory(m)
    PROVE  /\ Memory' = m /\ allocated' \subseteq Blocks
           /\ nGCReferenceCount' \in [Blocks -> 0..MaxHeld + 1]
<1>1. m = [blocks |-> m.blocks, count |-> m.count]
  BY DEF MemoryTypes
<1> QED BY <1>1 DEF SetMemory, Memory, MemoryTypes

LEMMA DeleteItemStep ==
    ASSUME IInv, NEW n \in 1..list.nSize, DeleteItem(n)
    PROVE  IInv' /\ AsSequence' = RemoveAt(AsSequence, n)
<1> DEFINE c == Chain(list)
           N == list.nSize
           e == ItemsOf(list, c)
           d == Without(c, N, n)
           m == DeleteItems(Memory, c[n])
<1>1. /\ Running /\ list' = ClearCache(Unlink(list, n))
      /\ SetMemory(DeleteItems(Memory, FromFirst(list, n)))
      /\ UNCHANGED <<content, held, lUsingThreads, crashed>>
  BY DEF DeleteItem
<1>2. /\ Types /\ Shape(list, c) /\ N \in Nat
      /\ Counted(Memory, LinksOf(list, c), ItemSet(list, c), held)
      /\ e \in [1..N -> Blocks] /\ AsSequence = Contents(e, N, content)
      /\ AsSequence \in [1..N -> Held] /\ Memory \in MemoryTypes /\ held \in References
  BY <1>1, Invariant
<1>3. n \in 1..N
  OBVIOUS
<1> HIDE DEF c
<1>4. FromFirst(list, n) = c[n]
  BY <1>2, LinkFound DEF Shape
<1>5. Removed(list, list', c, n)
  BY <1>1, <1>2, UnlinkRemoved
<1>6. /\ Shape(list', d)
      /\ ItemsOf(list', d) = Without(e, N, n)
      /\ \A x : x \in LinksOf(list', d) <=> x \in LinksOf(list, c) /\ x # c[n]
      /\ \A x : x \in ItemSet(list', d) <=> x \in ItemSet(list, c) /\ x # list.pValue[c[n]]
  BY <1>2, <1>5, RemovedShape
<1>7. list'.nSize = N - 1
  BY <1>5 DEF Removed
<1>8. /\ c[n] \in Blocks /\ c[n] \in LinksOf(list, c)
      /\ list.pValue[c[n]] \in Blocks /\ list.pValue[c[n]] \in ItemSet(list, c)
  <2>1. e[n] \in Blocks /\ e[n] = list.pValue[c[n]]
    BY <1>2, <1>3 DEF ItemsOf
  <2> QED BY <2>1, <1>2, <1>3 DEF Shape, Linked, LinksOf, ItemSet
<1> HIDE DEF N, e, d
<1>9. /\ m \in MemoryTypes
      /\ Counted(m, LinksOf(list, c) \ {c[n]}, ItemSet(list, c) \ {list.pValue[c[n]]}, held)
  BY <1>2, <1>8, LinkReleased
<1> HIDE DEF m
<1>10. Counted(m, LinksOf(list', d), ItemSet(list', d), held)
  <2>1. \A x \in Blocks :
            /\ x \in LinksOf(list, c) \ {c[n]} <=> x \in LinksOf(list', d)
            /\ x \in ItemSet(list, c) \ {list.pValue[c[n]]} <=> x \in ItemSet(list', d)
    BY <1>6
  <2> QED BY <1>9, <2>1, SameOwners
<1>11. /\ Memory' = m /\ allocated' \subseteq Blocks
       /\ nGCReferenceCount' \in [Blocks -> 0..MaxHeld + 1]
  <2>1. SetMemory(m)
    BY <1>1, <1>4 DEF m
  <2> QED BY <1>9, <2>1, MemorySet
<1>12. Types' /\ held' = held
  BY <1>1, <1>2, <1>11 DEF Types
<1>13. IInv'
  BY <1>6, <1>10, <1>11, <1>12, Taken
<1>14. AsSequence' = Contents(Without(e, N, n), N - 1, content)
  BY <1>1, <1>6, <1>7, NextSequenceIs
<1>15. Contents(Without(e, N, n), N - 1, content) = Without(Contents(e, N, content), N, n)
  BY <1>2, <1>3, ContentsWithout
<1>16. RemoveAt(AsSequence, n) = Without(AsSequence, N, n)
  BY <1>2, <1>3, RemoveAtIs
<1> QED BY <1>2, <1>13, <1>14, <1>15, <1>16

(* A list without links. *)
LEMMA EmptyShape ==
    ASSUME NEW l \in ListTypes, l.nSize = 0, l.pFirst = NULL, l.pLast = NULL, NoShortcuts(l),
           \A b \in Blocks : l.pNext[b] = NULL /\ l.pPrev[b] = NULL /\ l.pValue[b] = NULL
    PROVE  /\ Shape(l, <<>>)
           /\ LinksOf(l, <<>>) = {} /\ ItemSet(l, <<>>) = {} /\ ItemsOf(l, <<>>) = <<>>
<1>1. 1..l.nSize = {} /\ 1..l.nSize - 1 = {}
  OBVIOUS
<1>2. <<>> \in [1..l.nSize -> Blocks]
  BY <1>1
<1>3. LinksOf(l, <<>>) = {} /\ ItemSet(l, <<>>) = {}
  BY <1>1 DEF LinksOf, ItemSet
<1>4. ItemsOf(l, <<>>) = <<>>
  BY <1>1 DEF ItemsOf
<1>5. Linked(l, <<>>)
  <2>1. ~(l.nSize > 0) /\ OneToOne(<<>>, l.nSize)
    BY <1>1 DEF OneToOne
  <2> QED BY <1>1, <1>2, <2>1 DEF Linked
<1>6. Valued(l, <<>>)
  BY <1>1, <1>2, <1>4 DEF Valued, OneToOne
<1>7. Loose(l, <<>>) /\ Cached(l, <<>>)
  BY DEF Loose, Cached, NoShortcuts
<1> QED BY <1>3, <1>4, <1>5, <1>6, <1>7 DEF Shape

LEMMA DeleteAllItemsStep ==
    ASSUME IInv, DeleteAllItems
    PROVE  IInv' /\ AsSequence' = <<>>
<1> DEFINE c == Chain(list)
           p == [list EXCEPT !.pFirst = NULL, !.pLast = NULL, !.nSize = 0]
           q == ClearCache(p)
           m == Released(list.nSize)
<1>1. /\ Running /\ list' = Forget(q, Blocks)
      /\ SetMemory(m) /\ UNCHANGED <<content, held, lUsingThreads, crashed>>
  BY DEF DeleteAllItems
<1>2. /\ Types /\ Shape(list, c) /\ Counted(Memory, LinksOf(list, c), ItemSet(list, c), held)
      /\ Memory \in MemoryTypes /\ held \in References
  BY <1>1, Invariant
<1> HIDE DEF c
<1>3. list \in ListTypes
  BY <1>2 DEF Shape
<1>4. p \in ListTypes /\ p.nSize = 0 /\ p.pFirst = NULL /\ p.pLast = NULL
  BY <1>3 DEF ListTypes, Pointers
<1> HIDE DEF p
<1>5. q \in ListTypes /\ NoShortcuts(q) /\ q.nSize = 0 /\ q.pFirst = NULL /\ q.pLast = NULL
  BY <1>4, ClearedFields
<1> HIDE DEF q
<1> DEFINE none == [b \in Blocks |-> NULL]
<1>6. list' = [q EXCEPT !.pNext = none, !.pPrev = none, !.pValue = none]
  BY <1>1, <1>5 DEF Forget, ListTypes
<1>7. none \in [Blocks -> Pointers] /\ \A b \in Blocks : none[b] = NULL
  BY DEF Pointers
<1> HIDE DEF none
<1>8. /\ list' \in ListTypes /\ list'.nSize = 0 /\ list'.pFirst = NULL /\ list'.pLast = NULL
      /\ list'.pNext = none /\ list'.pPrev = none /\ list'.pValue = none
  BY <1>5, <1>6, <1>7 DEF ListTypes
<1>9. NoShortcuts(list')
  BY <1>5, <1>6 DEF NoShortcuts, ListTypes
<1>10. /\ Shape(list', <<>>)
       /\ LinksOf(list', <<>>) = {} /\ ItemSet(list', <<>>) = {} /\ ItemsOf(list', <<>>) = <<>>
  BY <1>7, <1>8, <1>9, EmptyShape
<1>11. m \in MemoryTypes /\ Counted(m, {}, {}, held)
  BY <1>2, ReleasedCounted
<1> HIDE DEF m
<1>12. /\ Memory' = m /\ allocated' \subseteq Blocks
       /\ nGCReferenceCount' \in [Blocks -> 0..MaxHeld + 1]
  BY <1>1, <1>11, MemorySet
<1>13. Types' /\ held' = held
  BY <1>1, <1>2, <1>12 DEF Types
<1>14. IInv'
  BY <1>10, <1>11, <1>12, <1>13, Taken
<1>15. AsSequence' = <<>>
  <2>1. AsSequence' = Contents(<<>>, 0, content')
    BY <1>8, <1>10, NextSequenceIs
  <2>2. 1..0 = {}
    OBVIOUS
  <2> QED BY <2>1, <2>2 DEF Contents
<1> QED BY <1>14, <1>15

LEMMA SwapItemsStep ==
    ASSUME IInv, NEW m \in 1..list.nSize, NEW n \in 1..list.nSize, m # n, NEW st,
           SwapItems(m, n, st)
    PROVE  /\ IInv'
           /\ AsSequence' = [AsSequence EXCEPT ![m] = AsSequence[n], ![n] = AsSequence[m]]
<1> DEFINE c == Chain(list)
           N == list.nSize
           e == ItemsOf(list, c)
           l == GetItem(list, m, st).list
           from == Container(l, m)
           to == Container(l, n)
           q == [l EXCEPT !.pValue[from] = l.pValue[to],
                          !.pValue[to] = GetItem(list, m, st).item]
<1>1. /\ Running /\ list' = ClearCache(q)
      /\ UNCHANGED <<content, memory, held, lUsingThreads, crashed>>
  BY DEF SwapItems
<1>2. /\ Types /\ Shape(list, c) /\ N \in Nat
      /\ Counted(Memory, LinksOf(list, c), ItemSet(list, c), held)
      /\ e \in [1..N -> Blocks] /\ AsSequence = Contents(e, N, content)
  BY <1>1, Invariant
<1>3. m \in 1..N /\ n \in 1..N
  OBVIOUS
<1> HIDE DEF c
<1>4. Shape(l, c) /\ l.nSize = N /\ l.pValue = list.pValue
  BY <1>2, ReadShape
<1>5. GetItem(list, m, st).item = list.pValue[c[m]]
  <2>1. Linked(list, c) /\ Cached(list, c) /\ list.nNextItem \in Nat
    BY <1>2 DEF Shape, ListTypes
  <2> QED BY <1>2, <2>1, ItemReached
<1>6. LinksOf(l, c) = LinksOf(list, c) /\ ItemSet(l, c) = ItemSet(list, c) /\ ItemsOf(l, c) = e
  BY <1>4 DEF LinksOf, ItemSet, ItemsOf
<1> HIDE DEF l
<1>7. from = c[m] /\ to = c[n]
  BY <1>2, <1>3, <1>4, LinkFound DEF Shape
<1> HIDE DEF from, to
<1>8. q = Swapped(l, c[m], c[n])
  BY <1>4, <1>5, <1>7 DEF Swapped
<1>9. m \in 1..l.nSize /\ n \in 1..l.nSize
  BY <1>3, <1>4
<1> HIDE DEF q, N, e
<1>10. /\ Shape(list', c) /\ LinksOf(list', c) = LinksOf(list, c)
       /\ ItemSet(list', c) = ItemSet(list, c)
       /\ ItemsOf(list', c) = Exchanged(ItemsOf(l, c), m, n) /\ list'.nSize = N
  BY <1>1, <1>4, <1>6, <1>8, <1>9, SwappedShape
<1>11. Types' /\ Memory' = Memory /\ held' = held
  BY <1>1, <1>2 DEF Types, Memory, memory
<1>12. IInv'
  BY <1>2, <1>10, <1>11, Taken
<1>13. AsSequence' = Contents(Exchanged(e, m, n), N, content)
  BY <1>1, <1>6, <1>10, NextSequenceIs
<1>14. Contents(Exchanged(e, m, n), N, content) = Exchanged(Contents(e, N, content), m, n)
  BY <1>2, <1>3, ContentsSwap
<1> QED BY <1>2, <1>12, <1>13, <1>14 DEF Exchanged

LEMMA NewReferenceStep ==
    ASSUME IInv, NEW n \in 1..list.nSize, NewReference(n)
    PROVE  IInv' /\ AsSequence' = AsSequence
<1> DEFINE c == Chain(list)
           item == list.pValue[FromFirst(list, n)]
           S == LinksOf(list, c)
           V == ItemSet(list, c)
<1>1. /\ Running /\ held[item] < MaxHeld
      /\ held' = [held EXCEPT ![item] = @ + 1]
      /\ nGCReferenceCount' = [nGCReferenceCount EXCEPT ![item] = @ + 1]
      /\ UNCHANGED <<list, content, allocated, lUsingThreads, crashed>>
  BY DEF NewReference
<1>2. /\ Types /\ Shape(list, c) /\ list.nSize \in Nat /\ Counted(Memory, S, V, held)
      /\ ItemsOf(list, c) \in [1..list.nSize -> Blocks]
  BY <1>1, Invariant
<1>3. Shape(list', c) /\ LinksOf(list', c) = S /\ ItemSet(list', c) = V
  BY <1>1, <1>2
<1> HIDE DEF c
<1>4. item \in Blocks /\ item \in V
  <2>1. FromFirst(list, n) = c[n]
    BY <1>2, LinkFound DEF Shape
  <2>2. ItemsOf(list, c)[n] = list.pValue[c[n]]
    BY DEF ItemsOf
  <2> QED BY <1>2, <2>1, <2>2 DEF ItemSet
<1> HIDE DEF item, S, V
<1>5. /\ held \in [Blocks -> 0..MaxHeld] /\ MaxHeld \in Nat
      /\ nGCReferenceCount \in [Blocks -> 0..MaxHeld + 1] /\ allocated \subseteq Blocks
  BY <1>2, ConstantsAssumption DEF Types
<1>6. held[item] \in Nat /\ nGCReferenceCount[item] \in Nat
  BY <1>4, <1>5
<1>7. OwnersOf(item, S, V, held) # 0
  BY <1>4, <1>6 DEF OwnersOf
<1>8. item \in allocated /\ nGCReferenceCount[item] + 1 = OwnersOf(item, S, V, held)
  BY <1>2, <1>4, <1>7 DEF Counted, Memory
<1>9. OwnersOf(item, S, V, held') = OwnersOf(item, S, V, held) + 1
  BY <1>1, <1>4, <1>5, <1>6 DEF OwnersOf
<1>10. \A x \in Blocks : x # item => OwnersOf(x, S, V, held') = OwnersOf(x, S, V, held)
  BY <1>1, <1>5 DEF OwnersOf
<1>11. nGCReferenceCount[item] + 1 \in 0..MaxHeld + 1
  BY <1>1, <1>4, <1>5, <1>6, <1>8 DEF OwnersOf
<1>12. Types'
  <2>1. held' \in [Blocks -> 0..MaxHeld]
    BY <1>1, <1>4, <1>5, <1>6
  <2>2. nGCReferenceCount' \in [Blocks -> 0..MaxHeld + 1]
    BY <1>1, <1>5, <1>11
  <2> QED BY <1>1, <1>2, <2>1, <2>2 DEF Types
<1>13. ASSUME NEW x \in Blocks
       PROVE  IF x \in allocated' THEN nGCReferenceCount'[x] + 1 = OwnersOf(x, S, V, held')
                                  ELSE OwnersOf(x, S, V, held') = 0
  <2>1. CASE x = item
    BY <1>1, <1>4, <1>5, <1>6, <1>8, <1>9, <2>1
  <2>2. CASE x # item
    BY <1>1, <1>2, <1>5, <1>10, <2>2 DEF Counted, Memory
  <2> QED BY <2>1, <2>2
<1>14. Counted(Memory', S, V, held')
  BY <1>13 DEF Counted, Memory
<1>15. IInv'
  BY <1>3, <1>12, <1>14, Taken
<1>16. AsSequence' = AsSequence
  BY <1>1 DEF AsSequence
<1> QED BY <1>15, <1>16

LEMMA DeleteReferenceStep ==
    ASSUME IInv, NEW b \in Blocks, DeleteReference(b)
    PROVE  IInv' /\ AsSequence' = AsSequence
<1> DEFINE c == Chain(list)
           S == LinksOf(list, c)
           V == ItemSet(list, c)
           m == DeleteOwner(Memory, b)
<1>1. /\ Running /\ held[b] > 0 /\ held' = [held EXCEPT ![b] = @ - 1] /\ SetMemory(m)
      /\ UNCHANGED <<list, content, lUsingThreads, crashed>>
  BY DEF DeleteReference
<1>2. /\ Types /\ Shape(list, c) /\ Counted(Memory, S, V, held)
      /\ Memory \in MemoryTypes /\ held \in References /\ MaxHeld \in Nat
  BY <1>1, Invariant, ConstantsAssumption
<1>3. Shape(list', c) /\ LinksOf(list', c) = S /\ ItemSet(list', c) = V
  BY <1>1, <1>2
<1> HIDE DEF c, S, V
<1>4. held[b] \in 0..MaxHeld /\ held[b] \in Nat /\ held[b] - 1 \in 0..MaxHeld
  BY <1>1, <1>2 DEF References
<1>5. held' \in References /\ held'[b] = held[b] - 1
  BY <1>1, <1>2, <1>4 DEF References
<1>6. OwnersOf(b, S, V, held') + 1 = OwnersOf(b, S, V, held)
  BY <1>4, <1>5 DEF OwnersOf
<1>7. \A x \in Blocks : x # b => OwnersOf(x, S, V, held') = OwnersOf(x, S, V, held)
  BY <1>1, <1>2 DEF OwnersOf, References
<1>8. m \in MemoryTypes /\ Counted(m, S, V, held')
  BY <1>2, <1>5, <1>6, <1>7, OwnerGone
<1> HIDE DEF m
<1>9. /\ Memory' = m /\ allocated' \subseteq Blocks
      /\ nGCReferenceCount' \in [Blocks -> 0..MaxHeld + 1]
  BY <1>1, <1>8, MemorySet
<1>10. Types'
  BY <1>1, <1>2, <1>5, <1>9 DEF Types, References
<1>11. IInv'
  BY <1>3, <1>8, <1>9, <1>10, Taken
<1>12. AsSequence' = AsSequence
  BY <1>1 DEF AsSequence
<1> QED BY <1>11, <1>12

LEMMA InitInvariant == Init => IInv
<1> SUFFICES ASSUME Init PROVE IInv
  OBVIOUS
<1> DEFINE none == [b \in Blocks |-> NULL]
<1>1. /\ list = [pFirst |-> NULL, pLast |-> NULL, nSize |-> 0,
                 pLastItem |-> NULL, nNextItem |-> 0, pItemsArray |-> NULL,
                 pNext |-> none, pPrev |-> none, pValue |-> none]
      /\ content = none /\ allocated = {} /\ lUsingThreads = FALSE /\ crashed = FALSE
      /\ nGCReferenceCount = [b \in Blocks |-> 0] /\ held = [b \in Blocks |-> 0]
  BY DEF Init
<1>2. none \in [Blocks -> Pointers] /\ none \in [Blocks -> Values \cup {NULL}]
      /\ \A b \in Blocks : none[b] = NULL
  BY DEF Pointers
<1> HIDE DEF none
<1>3. /\ list \in ListTypes /\ list.nSize = 0 /\ list.pFirst = NULL /\ list.pLast = NULL
      /\ NoShortcuts(list) /\ list.pNext = none /\ list.pPrev = none /\ list.pValue = none
  BY <1>1, <1>2 DEF ListTypes, Pointers, NoShortcuts
<1>4. /\ Shape(list, <<>>) /\ LinksOf(list, <<>>) = {} /\ ItemSet(list, <<>>) = {}
  BY <1>2, <1>3, EmptyShape
<1>5. Types
  <2>1. 0 \in 0..MaxHeld /\ 0 \in 0..MaxHeld + 1
    BY ConstantsAssumption
  <2>2. nGCReferenceCount \in [Blocks -> 0..MaxHeld + 1] /\ held \in [Blocks -> 0..MaxHeld]
    BY <1>1, <2>1
  <2> QED BY <1>1, <1>2, <2>2 DEF Types
<1>6. Counted(Memory, {}, {}, held)
  BY <1>1 DEF Counted, OwnersOf, Memory
<1>7. Chain(list) = <<>>
  BY <1>4, ChainIs DEF Shape, ListTypes
<1> QED BY <1>4, <1>5, <1>6, <1>7 DEF IInv, MemoryCounted

(* What the invariant says, and a step of the abstract list for each step. *)
LEMMA InvariantStep ==
    ASSUME IInv, [Next]_vars
    PROVE  IInv' /\ (~lUsingThreads => [Abstract!Next]_AsSequence)
<1>1. ASSUME NEW st \in States, NEW v \in Values, Add(v, st)
      PROVE  IInv' /\ (~lUsingThreads => [Abstract!Next]_AsSequence)
  BY <1>1, AddStep DEF Abstract!Next, Abstract!Add
<1>2. ASSUME NEW st \in States, NEW n \in 0..list.nSize, NEW v \in Values, Insert(n, v, st)
      PROVE  IInv' /\ (~lUsingThreads => [Abstract!Next]_AsSequence)
  <2>1. IInv' /\ (~lUsingThreads => AsSequence' = InsertAt(AsSequence, n + 1, v))
    BY <1>2, InsertStep
  <2>2. n \in 0..Len(AsSequence)
    <3>1. AsSequence \in [1..list.nSize -> Held] /\ list.nSize \in Nat
      BY <1>2, Invariant DEF Insert
    <3> QED BY <3>1
  <2>3. ~lUsingThreads => Abstract!Insert(n, v)
    BY <2>1 DEF Abstract!Insert, Abstract!InsertAt, InsertAt
  <2>4. \E i \in 0..Len(AsSequence), u \in Values : ~lUsingThreads => Abstract!Insert(i, u)
    BY <2>2, <2>3, Zenon
  <2>5. ~lUsingThreads => Abstract!Next
    BY <2>4 DEF Abstract!Next
  <2> QED BY <2>1, <2>5
<1>3. ASSUME NEW n \in 1..list.nSize PROVE Running => n \in DOMAIN AsSequence
  BY DEF AsSequence
<1>4. ASSUME NEW st \in States, NEW n \in 1..list.nSize, NEW v \in Values, Set(n, v, st)
      PROVE  IInv' /\ (~lUsingThreads => [Abstract!Next]_AsSequence)
  <2>1. n \in DOMAIN AsSequence
    BY <1>3, <1>4 DEF Set
  <2>2. IInv' /\ Abstract!Set(n, v)
    BY <1>4, SetStep DEF Abstract!Set
  <2>3. \E i \in DOMAIN AsSequence, u \in Values : Abstract!Set(i, u)
    BY <2>1, <2>2, Zenon
  <2>4. Abstract!Next
    BY <2>3 DEF Abstract!Next
  <2> QED BY <2>2, <2>4
<1>5. ASSUME NEW st \in States, NEW n \in 1..list.nSize, Get(n, st)
      PROVE  IInv' /\ (~lUsingThreads => [Abstract!Next]_AsSequence)
  BY <1>5, GetStep
<1>6. ASSUME NEW st \in States, NEW m \in 1..list.nSize, NEW n \in 1..list.nSize, m # n,
             SwapItems(m, n, st)
      PROVE  IInv' /\ (~lUsingThreads => [Abstract!Next]_AsSequence)
  <2>1. m \in DOMAIN AsSequence /\ n \in DOMAIN AsSequence
    BY <1>3, <1>6 DEF SwapItems
  <2>2. IInv' /\ Abstract!Swap(m, n)
    BY <1>6, SwapItemsStep DEF Abstract!Swap
  <2>3. \E i, j \in DOMAIN AsSequence : Abstract!Swap(i, j)
    BY <2>1, <2>2, Zenon
  <2>4. Abstract!Next
    BY <2>3 DEF Abstract!Next
  <2> QED BY <2>2, <2>4
<1>7. ASSUME NEW n \in 1..list.nSize, DeleteItem(n)
      PROVE  IInv' /\ (~lUsingThreads => [Abstract!Next]_AsSequence)
  <2>1. n \in DOMAIN AsSequence
    BY <1>3, <1>7 DEF DeleteItem
  <2>2. IInv' /\ Abstract!Delete(n)
    BY <1>7, DeleteItemStep DEF Abstract!Delete, Abstract!RemoveAt, RemoveAt
  <2>3. \E i \in DOMAIN AsSequence : Abstract!Delete(i)
    BY <2>1, <2>2, Zenon
  <2>4. Abstract!Next
    BY <2>3 DEF Abstract!Next
  <2> QED BY <2>2, <2>4
<1>8. ASSUME NEW n \in 1..list.nSize, NewReference(n)
      PROVE  IInv' /\ (~lUsingThreads => [Abstract!Next]_AsSequence)
  BY <1>8, NewReferenceStep
<1>9. ASSUME DeleteAllItems
      PROVE  IInv' /\ (~lUsingThreads => [Abstract!Next]_AsSequence)
  BY <1>9, DeleteAllItemsStep DEF Abstract!Next, Abstract!DeleteAll
<1>10. ASSUME GenArray
       PROVE  IInv' /\ (~lUsingThreads => [Abstract!Next]_AsSequence)
  BY <1>10, GenArrayStep
<1>11. ASSUME NEW b \in Blocks, DeleteReference(b)
       PROVE  IInv' /\ (~lUsingThreads => [Abstract!Next]_AsSequence)
  BY <1>11, DeleteReferenceStep
<1>12. ASSUME UNCHANGED <<list, content, memory, held, crashed>>,
              lUsingThreads' = TRUE \/ UNCHANGED lUsingThreads
       PROVE  IInv' /\ (~lUsingThreads => [Abstract!Next]_AsSequence)
  <2>1. Types /\ Shape(list, Chain(list)) /\ MemoryCounted
    BY DEF IInv
  <2>2. Types' /\ MemoryCounted'
    BY <1>12, <2>1 DEF Types, MemoryCounted, Memory, memory, Running
  <2>3. Shape(list, Chain(list))'
    BY <1>12, <2>1
  <2>4. AsSequence' = AsSequence
    BY <1>12 DEF AsSequence
  <2> QED BY <2>2, <2>3, <2>4 DEF IInv
<1>13. CASE UseThreads
  BY <1>12, <1>13 DEF UseThreads
<1>14. CASE UNCHANGED vars
  BY <1>12, <1>14 DEF vars
<1> QED BY <1>1, <1>2, <1>4, <1>5, <1>6, <1>7, <1>8, <1>9, <1>10, <1>11, <1>13, <1>14 DEF Next

THEOREM SpecInvariant == Spec => []IInv
BY InitInvariant, InvariantStep, PTL DEF Spec

-----------------------------------------------------------------------------
(* The properties. *)

LEMMA LinksAre ==
    ASSUME IInv
    PROVE  LET c == Chain(list)
           IN  /\ list \in ListTypes /\ list.nSize \in Nat /\ Linked(list, c) /\ Cached(list, c)
               /\ Valued(list, c) /\ c \in [1..list.nSize -> Blocks] /\ OneToOne(c, list.nSize)
               /\ \A n \in 1..list.nSize : FromFirst(list, n) = c[n] /\ FromLast(list, n) = c[n]
<1> DEFINE c == Chain(list)
<1>1. Shape(list, c)
  BY DEF IInv
<1> HIDE DEF c
<1>2. /\ list \in ListTypes /\ list.nSize \in Nat /\ Linked(list, c) /\ Cached(list, c)
      /\ Valued(list, c) /\ c \in [1..list.nSize -> Blocks] /\ OneToOne(c, list.nSize)
  BY <1>1 DEF Shape, ListTypes, Linked
<1>3. \A n \in 1..list.nSize : FromFirst(list, n) = c[n] /\ FromLast(list, n) = c[n]
  BY <1>2, LinkFound
<1> QED BY <1>2, <1>3 DEF c

(* A chain has no more links than there are blocks. *)
LEMMA SizeBounded ==
    ASSUME IInv
    PROVE  Cardinality(Blocks) \in Nat /\ list.nSize <= Cardinality(Blocks)
<1> DEFINE c == Chain(list)
           N == list.nSize
<1>1. N \in Nat /\ c \in [1..N -> Blocks] /\ OneToOne(c, N)
  BY LinksAre
<1> HIDE DEF c, N
<1>2. IsFiniteSet(Blocks)
  BY ConstantsAssumption
<1>3. c \in Injection(1..N, Blocks)
  BY <1>1 DEF Injection, IsInjective, OneToOne
<1>4. Cardinality(1..N) <= Cardinality(Blocks)
  BY <1>2, <1>3, FS_Injection
<1>5. Cardinality(1..N) = N
  <2>1. Cardinality(1..N) = IF 1 > N THEN 0 ELSE N - 1 + 1
    BY <1>1, FS_Interval
  <2> QED BY <1>1, <2>1
<1> QED BY <1>2, <1>4, <1>5, FS_CardinalityType DEF N

(* The fields of the list always hold links and sizes of this list, and    *)
(* every count is within its bound (struct List, rlist.h).                 *)
THEOREM TypeCorrect == Spec => []TypeOK
<1>1. IInv => TypeOK
  <2> SUFFICES ASSUME IInv PROVE TypeOK
    OBVIOUS
  <2>1. list \in ListTypes /\ list.nSize \in Nat /\ Cached(list, Chain(list))
    BY LinksAre
  <2>2. Cardinality(Blocks) \in Nat /\ list.nSize <= Cardinality(Blocks)
    BY SizeBounded
  <2>3. list.nNextItem \in 0..Cardinality(Blocks) + 1
    <3>1. list.nNextItem \in Nat
      BY <2>1 DEF ListTypes
    <3>2. list.nNextItem = 0 \/ list.nNextItem - 1 \in 1..list.nSize
      BY <2>1 DEF Cached
    <3> QED BY <2>1, <2>2, <3>1, <3>2
  <2>4. list.nSize \in 0..Cardinality(Blocks)
    BY <2>1, <2>2
  <2>5. /\ {list.pFirst, list.pLast, list.pLastItem} \subseteq Pointers
        /\ list.pItemsArray = NULL \/ list.pItemsArray \in Seq(Blocks)
        /\ {list.pNext, list.pPrev, list.pValue} \subseteq [Blocks -> Pointers]
    BY <2>1 DEF ListTypes
  <2> QED BY <2>3, <2>4, <2>5 DEF TypeOK, IInv, Types
<1> QED BY <1>1, SpecInvariant, PTL

(* Walking the chain forward and backward always meets the same links,     *)
(* none of them twice, whatever was inserted, deleted and swapped and      *)
(* whatever the cache held (rlist.c).                                      *)
THEOREM LinksAlwaysAgree == Spec => []LinksAgree
<1>1. IInv => LinksAgree
  <2> SUFFICES ASSUME IInv PROVE LinksAgree
    OBVIOUS
  <2> DEFINE c == Chain(list)
  <2>1. /\ list.nSize \in Nat /\ Linked(list, c) /\ OneToOne(c, list.nSize)
        /\ \A n \in 1..list.nSize : FromFirst(list, n) = c[n] /\ FromLast(list, n) = c[n]
    BY LinksAre
  <2> HIDE DEF c
  <2>2. ASSUME list.nSize # 0
        PROVE  list.pPrev[list.pFirst] = NULL /\ list.pNext[list.pLast] = NULL
    BY <2>1, <2>2 DEF Linked
  <2>3. list.nSize = 0 => list.pFirst = NULL /\ list.pLast = NULL
    BY <2>1 DEF Linked
  <2>4. \A m, n \in 1..list.nSize : FromFirst(list, m) = FromFirst(list, n) => m = n
    BY <2>1 DEF OneToOne
  <2> QED BY <2>1, <2>2, <2>3, <2>4 DEF LinksAgree
<1> QED BY <1>1, SpecInvariant, PTL

(* No change of the chain leaves a cached position that has moved or a     *)
(* cached link that is gone (ring_list_clearcache).                        *)
THEOREM CacheAlwaysCoherent == Spec => []CacheCoherent
<1>1. IInv => CacheCoherent
  BY LinksAre DEF CacheCoherent, Cached
<1> QED BY <1>1, SpecInvariant, PTL

(* Whichever of the shortcuts a caller takes, reading item n always finds  *)
(* the item of the n-th link (ring_list_getitem).                          *)
THEOREM ItemAlwaysFound == Spec => []ItemFound
<1>1. IInv => ItemFound
  <2> SUFFICES ASSUME IInv, NEW n \in 1..list.nSize, NEW st \in States
               PROVE  GetItem(list, n, st).item = list.pValue[FromFirst(list, n)]
    BY DEF ItemFound
  <2> DEFINE c == Chain(list)
  <2>1. /\ list \in ListTypes /\ list.nSize \in Nat /\ Linked(list, c) /\ Cached(list, c)
        /\ FromFirst(list, n) = c[n]
    BY LinksAre
  <2> HIDE DEF c
  <2>2. list.nNextItem \in Nat
    BY <2>1 DEF ListTypes
  <2> QED BY <2>1, <2>2, ItemReached
<1> QED BY <1>1, SpecInvariant, PTL

LEMMA OwnersAre ==
    ASSUME IInv, NEW b \in Blocks
    PROVE  Owners(b) = OwnersOf(b, LinksOf(list, Chain(list)), ItemSet(list, Chain(list)), held)
<1> DEFINE c == Chain(list)
           N == list.nSize
           of == {link \in Links : list.pValue[link] = b}
<1>1. /\ N \in Nat /\ Valued(list, c) /\ c \in [1..N -> Blocks]
      /\ \A n \in 1..N : FromFirst(list, n) = c[n]
  BY LinksAre
<1> HIDE DEF c
<1>2. Links = LinksOf(list, c)
  BY <1>1 DEF Links, LinksOf
<1>3. Links = {c[n] : n \in 1..N}
  BY <1>2 DEF LinksOf
<1>4. b \in ItemSet(list, c) <=> \E i \in 1..N : list.pValue[c[i]] = b
  BY DEF ItemSet
<1>5. \A i, j \in 1..N : list.pValue[c[i]] = list.pValue[c[j]] => i = j
  BY <1>1 DEF Valued, OneToOne, ItemsOf
<1> HIDE DEF N
<1>6. b \in ItemSet(list, c) => \E x : of = {x}
  <2>1. SUFFICES ASSUME NEW i \in 1..N, list.pValue[c[i]] = b PROVE of = {c[i]}
    BY <1>4
  <2> QED BY <1>3, <1>5, <2>1
<1>7. b \notin ItemSet(list, c) => of = {}
  BY <1>3, <1>4
<1> HIDE DEF of
<1>8. Cardinality(of) = IF b \in ItemSet(list, c) THEN 1 ELSE 0
  BY <1>6, <1>7, FS_Singleton, FS_EmptySet
<1>9. held[b] \in Nat
  BY ConstantsAssumption DEF IInv, Types
<1>10. Owners(b) = (IF b \in LinksOf(list, c) THEN 1 ELSE 0) + held[b] + Cardinality(of)
  BY <1>2 DEF Owners, of
<1> QED BY <1>8, <1>9, <1>10 DEF OwnersOf, c

(* A block is in use exactly as long as its link is in the list, its item  *)
(* is in the list or a variable refers to its item, and its count says how *)
(* many of them there are (ring_vm_gc_deleteitem, ring_items_delete).      *)
THEOREM MemoryAlwaysExact == Spec => []MemoryExact
<1>1. IInv => MemoryExact
  <2> SUFFICES ASSUME IInv, Running, NEW b \in Blocks
               PROVE  IF b \in allocated THEN nGCReferenceCount[b] + 1 = Owners(b)
                                         ELSE Owners(b) = 0
    BY DEF MemoryExact
  <2>1. Owners(b) = OwnersOf(b, LinksOf(list, Chain(list)), ItemSet(list, Chain(list)), held)
    BY OwnersAre
  <2> QED BY <2>1 DEF IInv, MemoryCounted, Counted, Memory
<1> QED BY <1>1, SpecInvariant, PTL

(* Without threads the list is a sequence of values: each step of the code *)
(* changes the position that it names as the sequence does, or nothing.    *)
THEOREM ListIsSequence ==
    ASSUME MayUseThreads = FALSE
    PROVE  Spec => ListSeqSpec
<1> DEFINE Alone == IInv /\ ~lUsingThreads
<1>1. Init => Alone /\ Abstract!Init
  <2> SUFFICES ASSUME Init PROVE Alone /\ Abstract!Init
    OBVIOUS
  <2>1. list.nSize = 0 /\ ~lUsingThreads
    BY DEF Init
  <2>2. 1..0 = {}
    OBVIOUS
  <2>3. AsSequence = <<>>
    BY <2>1, <2>2 DEF AsSequence
  <2> QED BY <2>1, <2>3, InitInvariant DEF Abstract!Init
<1>2. Alone /\ [Next]_vars => Alone' /\ [Abstract!Next]_AsSequence
  <2> SUFFICES ASSUME Alone, [Next]_vars PROVE Alone' /\ [Abstract!Next]_AsSequence
    OBVIOUS
  <2>1. IInv' /\ [Abstract!Next]_AsSequence
    BY InvariantStep
  <2>2. UNCHANGED lUsingThreads
    BY DEF Next, Add, Insert, Set, Get, SwapItems, DeleteItem, NewReference, DeleteAllItems,
           GenArray, DeleteReference, UseThreads, vars
  <2> QED BY <2>1, <2>2
<1> QED BY <1>1, <1>2, PTL DEF Spec, ListSeqSpec, Abstract!Spec

=============================================================================
