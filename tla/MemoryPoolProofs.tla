-------------------------- MODULE MemoryPoolProofs --------------------------
(***************************************************************************)
(* Theorems about MemoryPool, for any number of threads, items and places, *)
(* any limit of the count and any order of steps: memory has one owner,    *)
(* nothing is lost or given back twice, and no thread refers to an item    *)
(* that was freed, although reading the count and decrementing it are two  *)
(* critical sections.                                                      *)
(***************************************************************************)
EXTENDS MemoryPool, FiniteSetTheorems, TLAPS

InLists(a) == \E t \in Threads, l \in Levels : a \in free[t][l]

(* A thread has the bounds of the main thread's block from its start on,   *)
(* and lists while it runs; memory of the C library is in small lists.     *)
ThreadsKnow ==
    /\ life[Main] = "running"
    /\ \A t \in Threads : inRange[t] = IF life[t] = "unborn" THEN {} ELSE Pool
    /\ \A t \in Threads, l \in Levels : life[t] # "running" => free[t][l] = {}
    /\ \A t \in Threads : free[t]["large"] \subseteq Pool

(* No memory is in two lists, or in a list and in use. *)
ListsApart ==
    /\ \A t, u \in Threads, l, k \in Levels : \A a \in free[t][l] :
           a \notin items /\ (a \in free[u][k] => t = u /\ l = k)

(* The C library has given out what is in use or in a list; of the block   *)
(* nothing is lost before a thread ends.                                   *)
PlacesKnown ==
    /\ failed # "invalid pointer"
    /\ \A a \in Heap : a \in heap <=> a \in items \/ InLists(a)
    /\ (\A t \in Threads : life[t] # "ended") => \A a \in Pool : a \in items \/ InLists(a)

(* What a thread that gives a reference up has read: zero, only when that  *)
(* reference was the last.                                                 *)
LastDrop(d) ==
    /\ \A t \in Threads : refs[t][d.item] = 0
    /\ \A e \in drops : e.item = d.item => e = d

DropsKnown ==
    /\ IsFiniteSet(drops)
    /\ \A d \in drops : life[d.by] = "running"
    /\ \A d, e \in drops : d.by = e.by => d = e
    /\ \A d \in drops : d.nRefCount = 0 => LastDrop(d)

(* An item has at most one reference more than the count can say. *)
CountsKnown ==
    \A a \in Places :
        /\ IsFiniteSet(References(a))
        /\ a \in items => Owners(a) <= MaxCount + 1

MemoryInv == ThreadsKnow /\ ListsApart /\ PlacesKnown

CountInv == DropsKnown /\ CountsKnown /\ CountExact /\ NeverFreedInUse

Inv == TypeOK /\ MemoryInv /\ CountInv

-----------------------------------------------------------------------------
(* Counting references: RefSet(refs, a) is References(a). *)

RefSet(r, a) == UNION {{t} \X (1..r[t][a]) : t \in Threads}

Counts == [Threads -> [Places -> Nat]]

LEMMA RefSetMember ==
    ASSUME NEW r, NEW a
    PROVE  \A x : x \in RefSet(r, a) <=>
                  \E t \in Threads, k \in Nat : k \in 1..r[t][a] /\ x = <<t, k>>
BY DEF RefSet

(* Only what refers to the item itself counts. *)
LEMMA SameRefs ==
    ASSUME NEW r, NEW q, NEW a, \A t \in Threads : q[t][a] = r[t][a]
    PROVE  RefSet(q, a) = RefSet(r, a)
<1>1. \A x : x \in RefSet(q, a) <=> x \in RefSet(r, a)
    BY RefSetMember
<1> QED
    BY <1>1

LEMMA NoRefs ==
    ASSUME NEW r, NEW a, \A t \in Threads : r[t][a] = 0
    PROVE  RefSet(r, a) = {} /\ IsFiniteSet(RefSet(r, a)) /\ Cardinality(RefSet(r, a)) = 0
<1>1. \A x : x \notin RefSet(r, a)
    BY RefSetMember
<1> QED
    BY <1>1, FS_EmptySet

(* One reference more is one element more. *)
LEMMA OneRefMore ==
    ASSUME NEW r \in Counts, NEW q \in Counts, NEW a \in Places, NEW t \in Threads,
           q[t][a] = r[t][a] + 1, \A u \in Threads \ {t} : q[u][a] = r[u][a],
           IsFiniteSet(RefSet(r, a))
    PROVE  /\ IsFiniteSet(RefSet(q, a))
           /\ Cardinality(RefSet(q, a)) = Cardinality(RefSet(r, a)) + 1
<1> DEFINE n == r[t][a]
           x == <<t, n + 1>>
<1>1. n \in Nat
    BY DEF Counts
<1>2. x \notin RefSet(r, a)
    BY <1>1, RefSetMember
<1>3. ASSUME NEW y PROVE y \in RefSet(q, a) <=> y \in RefSet(r, a) \/ y = x
    <2>1. ASSUME y \in RefSet(q, a) PROVE y \in RefSet(r, a) \/ y = x
        <3>1. PICK u \in Threads, k \in Nat : k \in 1..q[u][a] /\ y = <<u, k>>
            BY <2>1, RefSetMember
        <3>2. CASE u = t
            BY <1>1, <3>1, <3>2, RefSetMember
        <3>3. CASE u # t
            BY <3>1, <3>3, RefSetMember
        <3> QED
            BY <3>2, <3>3
    <2>2. ASSUME y \in RefSet(r, a) PROVE y \in RefSet(q, a)
        <3>1. PICK u \in Threads, k \in Nat : k \in 1..r[u][a] /\ y = <<u, k>>
            BY <2>2, RefSetMember
        <3>2. k \in 1..q[u][a]
            BY <1>1, <3>1
        <3> QED
            BY <3>1, <3>2, RefSetMember
    <2>3. ASSUME y = x PROVE y \in RefSet(q, a)
        <3>1. n + 1 \in 1..q[t][a]
            BY <1>1
        <3> QED
            BY <2>3, <3>1, RefSetMember
    <2> QED
        BY <2>1, <2>2, <2>3
<1> HIDE DEF x
<1>4. RefSet(q, a) = RefSet(r, a) \cup {x}
    BY <1>3
<1> QED
    BY <1>2, <1>4, FS_AddElement, FS_CardinalityType

LEMMA FirstRef ==
    ASSUME NEW q \in Counts, NEW a \in Places, NEW t \in Threads,
           q[t][a] = 1, \A u \in Threads \ {t} : q[u][a] = 0
    PROVE  IsFiniteSet(RefSet(q, a)) /\ Cardinality(RefSet(q, a)) = 1
<1>1. ASSUME NEW y PROVE y \in RefSet(q, a) <=> y = <<t, 1>>
    <2>1. ASSUME y \in RefSet(q, a) PROVE y = <<t, 1>>
        <3>1. PICK u \in Threads, k \in Nat : k \in 1..q[u][a] /\ y = <<u, k>>
            BY <2>1, RefSetMember
        <3>2. u = t /\ k = 1
            BY <3>1
        <3> QED
            BY <3>1, <3>2
    <2>2. 1 \in 1..q[t][a]
        OBVIOUS
    <2> QED
        BY <2>1, <2>2, RefSetMember
<1>2. RefSet(q, a) = {<<t, 1>>}
    BY <1>1
<1> QED
    BY <1>2, FS_Singleton

(* One less is one element less. *)
LEMMA OneRefLess ==
    ASSUME NEW r \in Counts, NEW q \in Counts, NEW a \in Places, NEW t \in Threads,
           r[t][a] > 0, q[t][a] = r[t][a] - 1,
           \A u \in Threads \ {t} : q[u][a] = r[u][a], IsFiniteSet(RefSet(r, a))
    PROVE  /\ IsFiniteSet(RefSet(q, a))
           /\ Cardinality(RefSet(q, a)) = Cardinality(RefSet(r, a)) - 1
<1>1. r[t][a] \in Nat /\ q[t][a] \in Nat
    BY DEF Counts
<1>2. ASSUME NEW y, y \in RefSet(q, a) PROVE y \in RefSet(r, a)
    <2>1. PICK u \in Threads, k \in Nat : k \in 1..q[u][a] /\ y = <<u, k>>
        BY <1>2, RefSetMember
    <2>2. k \in 1..r[u][a]
        BY <1>1, <2>1
    <2> QED
        BY <2>1, <2>2, RefSetMember
<1>3. IsFiniteSet(RefSet(q, a))
    BY <1>2, FS_Subset
<1>4. r[t][a] = q[t][a] + 1
    BY <1>1
<1>5. \A u \in Threads \ {t} : r[u][a] = q[u][a]
    OBVIOUS
<1>6. Cardinality(RefSet(r, a)) = Cardinality(RefSet(q, a)) + 1
    BY <1>3, <1>4, <1>5, OneRefMore
<1> QED
    BY <1>3, <1>6, FS_CardinalityType

(* Who has a reference is counted, and so is who has two. *)
LEMMA CountedRefs ==
    ASSUME NEW r \in Counts, NEW a \in Places, IsFiniteSet(RefSet(r, a))
    PROVE  /\ Cardinality(RefSet(r, a)) \in Nat
           /\ \A t \in Threads : r[t][a] > 0 => Cardinality(RefSet(r, a)) >= 1
           /\ \A t, u \in Threads :
                  r[t][a] > 0 /\ r[u][a] > 0 /\ t # u => Cardinality(RefSet(r, a)) >= 2
<1>1. Cardinality(RefSet(r, a)) \in Nat
    BY FS_CardinalityType
<1>2. \A t \in Threads : r[t][a] > 0 => <<t, 1>> \in RefSet(r, a)
    <2> SUFFICES ASSUME NEW t \in Threads, r[t][a] > 0 PROVE <<t, 1>> \in RefSet(r, a)
        OBVIOUS
    <2>1. 1 \in 1..r[t][a]
        BY DEF Counts
    <2> QED
        BY <2>1, RefSetMember
<1>3. ASSUME NEW t \in Threads, r[t][a] > 0 PROVE Cardinality(RefSet(r, a)) >= 1
    <2>1. RefSet(r, a) # {}
        BY <1>2, <1>3
    <2> QED
        BY <1>1, <2>1, FS_EmptySet
<1>4. ASSUME NEW t \in Threads, NEW u \in Threads, r[t][a] > 0, r[u][a] > 0, t # u
      PROVE  Cardinality(RefSet(r, a)) >= 2
    <2>1. Cardinality(RefSet(r, a)) # 1
        <3> SUFFICES ASSUME Cardinality(RefSet(r, a)) = 1 PROVE FALSE
            OBVIOUS
        <3>1. PICK x : RefSet(r, a) = {x}
            BY FS_Singleton
        <3>2. <<t, 1>> = x /\ <<u, 1>> = x
            BY <1>2, <1>4, <3>1
        <3> QED
            BY <1>4, <3>2
    <2> QED
        BY <1>1, <1>3, <1>4, <2>1
<1> QED
    BY <1>1, <1>3, <1>4

-----------------------------------------------------------------------------
(* Owners of an item. *)

LEMMA Types ==
    ASSUME TypeOK
    PROVE  /\ refs \in Counts
           /\ \A t \in Threads, a \in Places : refs[t][a] \in Nat
           /\ \A a \in Places : rc[a] \in 0..MaxCount
           /\ \A d \in drops : d.by \in Threads /\ d.item \in Places /\ d.nRefCount \in 0..MaxCount
           /\ MaxCount \in Nat \ {0} /\ items \subseteq Places
<1>1. refs \in Counts /\ \A t \in Threads, a \in Places : refs[t][a] \in Nat
    BY DEF TypeOK, Counts
<1>2. \A d \in drops : d.by \in Threads /\ d.item \in Places /\ d.nRefCount \in 0..MaxCount
    BY DEF TypeOK
<1>3. MaxCount \in Nat \ {0}
    BY ConstantsAssumption
<1>4. (\A a \in Places : rc[a] \in 0..MaxCount) /\ items \subseteq Places
    BY DEF TypeOK
<1> QED
    BY <1>1, <1>2, <1>3, <1>4

LEMMA RefsOf ==
    /\ \A a : References(a) = RefSet(refs, a)
    /\ \A a : References(a)' = RefSet(refs', a)
BY DEF References, RefSet

LEMMA OwnersOf ==
    ASSUME TypeOK, CountInv, NEW a \in Places
    PROVE  /\ IsFiniteSet(References(a)) /\ IsFiniteSet(Dropped(a))
           /\ Cardinality(References(a)) \in Nat /\ Cardinality(Dropped(a)) \in Nat
           /\ Owners(a) \in Nat
           /\ Owners(a) = Cardinality(References(a)) + Cardinality(Dropped(a))
           /\ \A d \in drops : d.item = a => Cardinality(Dropped(a)) >= 1
           /\ \A t \in Threads : refs[t][a] > 0 => Cardinality(References(a)) >= 1
<1>1. IsFiniteSet(References(a)) /\ Cardinality(References(a)) \in Nat
    BY FS_CardinalityType DEF CountInv, CountsKnown
<1>2. IsFiniteSet(Dropped(a))
    BY FS_Subset DEF CountInv, DropsKnown, Dropped
<1>3. Cardinality(Dropped(a)) \in Nat
    BY <1>2, FS_CardinalityType
<1>4. ASSUME NEW d \in drops, d.item = a PROVE Cardinality(Dropped(a)) >= 1
    <2>1. Dropped(a) # {}
        BY <1>4 DEF Dropped
    <2> QED
        BY <1>2, <1>3, <2>1, FS_EmptySet
<1>5. \A t \in Threads : refs[t][a] > 0 => Cardinality(References(a)) >= 1
    BY <1>1, CountedRefs, RefsOf, Types
<1> QED
    BY <1>1, <1>2, <1>3, <1>4, <1>5 DEF Owners

(* An item that no step gives a reference to, or takes one from, keeps its *)
(* owners.                                                                 *)
LEMMA SameOwners ==
    ASSUME NEW a, \A t \in Threads : refs'[t][a] = refs[t][a], Dropped(a)' = Dropped(a)
    PROVE  References(a)' = References(a) /\ Owners(a)' = Owners(a)
<1>1. References(a)' = References(a)
    BY SameRefs, RefsOf
<1> QED
    BY <1>1 DEF Owners

(* The count says how many owners an item has. *)
LEMMA CountSays ==
    ASSUME TypeOK, CountInv, NEW a \in items
    PROVE  /\ Owners(a) \in 0..MaxCount + 1
           /\ rc[a] = IF Owners(a) = 0 THEN MaxCount ELSE Owners(a) - 1
           /\ rc[a] = 0 <=> Owners(a) = 1
<1>1. a \in Places /\ MaxCount \in Nat \ {0}
    BY Types
<1>2. Owners(a) \in Nat /\ Owners(a) <= MaxCount + 1
    BY <1>1, OwnersOf DEF CountInv, CountsKnown
<1>3. rc[a] = IF Owners(a) = 0 THEN MaxCount ELSE Owners(a) - 1
    BY DEF CountInv, CountExact
<1> QED
    BY <1>1, <1>2, <1>3

(* The only owner of an item is a thread, if a thread refers to it. *)
LEMMA SoleOwner ==
    ASSUME TypeOK, CountInv, NEW a \in items, rc[a] = 0, NEW t \in Threads, refs[t][a] > 0
    PROVE  /\ refs[t][a] = 1
           /\ \A u \in Threads \ {t} : refs[u][a] = 0
           /\ \A d \in drops : d.item # a
           /\ Cardinality(References(a)) = 1
<1>1. a \in Places /\ refs \in Counts
    BY Types
<1>2. Owners(a) = 1
    BY CountSays
<1>3. Cardinality(References(a)) = 1 /\ Cardinality(Dropped(a)) = 0
    BY <1>1, <1>2, OwnersOf
<1>4. \A d \in drops : d.item # a
    BY <1>1, <1>3, OwnersOf
<1>5. \A u \in Threads \ {t} : refs[u][a] = 0
    <2> SUFFICES ASSUME NEW u \in Threads \ {t}, refs[u][a] > 0 PROVE FALSE
        BY <1>1, Types
    <2>1. Cardinality(RefSet(refs, a)) >= 2
        BY <1>1, <1>3, CountedRefs, RefsOf, OwnersOf
    <2> QED
        BY <1>3, <2>1, RefsOf
<1>6. refs[t][a] = 1
    <2> SUFFICES ASSUME refs[t][a] # 1 PROVE FALSE
        OBVIOUS
    <2>1. RefSet(refs, a) = {<<t, k>> : k \in 1..refs[t][a]}
        BY <1>1, <1>5, RefSetMember, Types
    <2>2. <<t, 1>> \in References(a) /\ <<t, 2>> \in References(a)
        BY <1>1, <2>1, RefsOf, Types
    <2>3. PICK x : References(a) = {x}
        BY <1>1, <1>3, FS_Singleton, OwnersOf
    <2> QED
        BY <2>2, <2>3
<1> QED
    BY <1>3, <1>4, <1>5, <1>6

-----------------------------------------------------------------------------
(* Steps on the count and the references. *)

LEMMA CountStays ==
    ASSUME CountInv, UNCHANGED <<items, rc, refs, drops>>,
           \A d \in drops : life'[d.by] = "running"
    PROVE  CountInv'
<1>1. \A a : References(a)' = References(a) /\ Dropped(a)' = Dropped(a) /\ Owners(a)' = Owners(a)
    BY DEF References, Dropped, Owners
<1>2. DropsKnown' /\ NeverFreedInUse'
    BY DEF CountInv, DropsKnown, LastDrop, NeverFreedInUse
<1>3. CountsKnown' /\ CountExact'
    BY <1>1 DEF CountInv, CountsKnown, CountExact
<1> QED
    BY <1>2, <1>3 DEF CountInv

(* A thread has the only reference to new memory. *)
LEMMA CountNew ==
    ASSUME TypeOK, TypeOK', CountInv, NEW t \in Threads, NEW a \in Places \ items,
           items' = items \cup {a}, rc' = [rc EXCEPT ![a] = 0],
           refs' = [refs EXCEPT ![t][a] = 1], UNCHANGED <<drops, life>>
    PROVE  CountInv'
<1>1. \A u \in Threads : refs[u][a] = 0
    BY Types DEF CountInv, NeverFreedInUse
<1>2. \A d \in drops : d.item # a
    BY DEF CountInv, NeverFreedInUse
<1>3. /\ refs'[t][a] = refs[t][a] + 1 /\ refs'[t][a] = 1
      /\ \A u \in Threads \ {t} : refs'[u][a] = refs[u][a]
      /\ \A u \in Threads, x \in Places \ {a} : refs'[u][x] = refs[u][x]
    BY <1>1, Types DEF Counts
<1>4. refs \in Counts /\ refs' \in Counts
    BY DEF TypeOK, Counts
<1>5. \A x \in Places : Dropped(x)' = Dropped(x)
    BY DEF Dropped
<1>6. \A x \in Places \ {a} : References(x)' = References(x) /\ Owners(x)' = Owners(x)
    BY <1>3, <1>5, SameOwners
<1>7. IsFiniteSet(References(a)') /\ Cardinality(References(a)') = 1
    <2>1. \A u \in Threads \ {t} : refs'[u][a] = 0
        BY <1>1, <1>3
    <2> QED
        BY <1>3, <1>4, <2>1, FirstRef, RefsOf
<1>8. Owners(a)' = 1
    <2>1. Dropped(a)' = {}
        BY <1>2, <1>5 DEF Dropped
    <2> QED
        BY <1>7, <2>1, FS_EmptySet DEF Owners
<1>9. CountsKnown'
    BY <1>6, <1>7, <1>8, Types DEF CountInv, CountsKnown
<1>10. CountExact'
    <2>1. rc'[a] = 0 /\ \A x \in items : rc'[x] = rc[x]
        BY DEF TypeOK
    <2> QED
        BY <1>6, <1>8, <2>1, Types DEF CountInv, CountExact
<1>11. DropsKnown'
    BY <1>2, <1>3, Types DEF CountInv, DropsKnown, LastDrop
<1>12. NeverFreedInUse'
    BY <1>3 DEF CountInv, NeverFreedInUse
<1> QED
    BY <1>9, <1>10, <1>11, <1>12 DEF CountInv

(* The same after the memory of its only reference has moved. *)
LEMMA CountMove ==
    ASSUME TypeOK, TypeOK', CountInv, NEW t \in Threads, NEW a \in items, NEW b \in Places \ items,
           refs[t][a] = 1, rc[a] = 0, MovedTo(t, a, b)
    PROVE  CountInv'
<1>1. a \in Places /\ a # b
    BY Types
<1>2. /\ \A u \in Threads \ {t} : refs[u][a] = 0
      /\ \A d \in drops : d.item # a
    BY SoleOwner, Types
<1>3. \A u \in Threads : refs[u][b] = 0
    BY Types DEF CountInv, NeverFreedInUse
<1>4. \A d \in drops : d.item # b
    BY DEF CountInv, NeverFreedInUse
<1>5. /\ refs'[t][a] = 0 /\ refs'[t][b] = 1
      /\ \A u \in Threads \ {t} : refs'[u] = refs[u]
      /\ \A u \in Threads, x \in Places \ {a, b} : refs'[u][x] = refs[u][x]
    <2>1. refs \in [Threads -> [Places -> Nat]] /\ refs[t] \in [Places -> Nat]
        BY DEF TypeOK
    <2>2. refs' = [refs EXCEPT ![t] = [refs[t] EXCEPT ![a] = 0, ![b] = 1]]
        BY DEF MovedTo
    <2>3. /\ refs'[t] = [refs[t] EXCEPT ![a] = 0, ![b] = 1]
          /\ \A u \in Threads \ {t} : refs'[u] = refs[u]
        BY <2>1, <2>2
    <2>4. refs'[t][a] = 0 /\ refs'[t][b] = 1 /\ \A x \in Places \ {a, b} : refs'[t][x] = refs[t][x]
        BY <1>1, <2>1, <2>3
    <2> QED
        BY <2>3, <2>4
<1>6. refs \in Counts /\ refs' \in Counts
    BY DEF TypeOK, Counts
<1>7. \A x \in Places : Dropped(x)' = Dropped(x)
    BY DEF Dropped, MovedTo
<1>8. \A x \in Places \ {a, b} : References(x)' = References(x) /\ Owners(x)' = Owners(x)
    BY <1>5, <1>7, SameOwners
<1>9. IsFiniteSet(References(a)')
    BY <1>2, <1>5, NoRefs, RefsOf
<1>10. IsFiniteSet(References(b)') /\ Cardinality(References(b)') = 1
    <2>1. \A u \in Threads \ {t} : refs'[u][b] = 0
        BY <1>3, <1>5
    <2> QED
        BY <1>5, <1>6, <2>1, FirstRef, RefsOf
<1>11. Owners(b)' = 1
    <2>1. Dropped(b)' = {}
        BY <1>4, <1>7 DEF Dropped
    <2> QED
        BY <1>10, <2>1, FS_EmptySet DEF Owners
<1>12. items' = (items \ {a}) \cup {b} /\ drops' = drops /\ life' = life
    BY DEF MovedTo
<1>13. CountsKnown'
    BY <1>8, <1>9, <1>10, <1>11, <1>12, Types DEF CountInv, CountsKnown
<1>14. CountExact'
    <2>1. rc'[b] = 0 /\ \A x \in items \ {a} : rc'[x] = rc[x]
        BY DEF MovedTo, TypeOK
    <2> QED
        BY <1>8, <1>11, <1>12, <2>1, Types DEF CountInv, CountExact
<1>15. DropsKnown'
    BY <1>2, <1>4, <1>5, <1>12, Types DEF CountInv, DropsKnown, LastDrop
<1>16. NeverFreedInUse'
    <2>1. ASSUME NEW u \in Threads, NEW x \in Places, refs'[u][x] > 0 PROVE x \in items'
        <3>1. x # a
            BY <1>2, <1>5, <2>1
        <3> QED
            BY <1>3, <1>5, <1>12, <2>1, <3>1 DEF CountInv, NeverFreedInUse
    <2> QED
        BY <1>2, <1>12, <2>1 DEF CountInv, NeverFreedInUse
<1> QED
    BY <1>13, <1>14, <1>15, <1>16 DEF CountInv

LEMMA CountMore ==
    ASSUME TypeOK, TypeOK', CountInv, NEW t \in Threads, NEW u \in Threads, NEW a \in items,
           NewReference(t, u, a)
    PROVE  CountInv'
<1>1. a \in Places /\ refs[u][a] > 0
    BY Types DEF NewReference
<1>2. items' = items /\ drops' = drops /\ life' = life
    BY DEF NewReference
<1>3. CASE rc[a] = MaxCount
    <2>1. rc' = rc /\ refs' = refs
        BY <1>3 DEF NewReference
    <2> QED
        BY <1>2, <2>1, CountStays DEF CountInv, DropsKnown
<1>4. CASE rc[a] # MaxCount
    <2>1. rc' = [rc EXCEPT ![a] = @ + 1] /\ refs' = [refs EXCEPT ![t][a] = @ + 1]
        BY <1>4 DEF NewReference
    <2>2. rc'[a] = rc[a] + 1 /\ \A x \in Places \ {a} : rc'[x] = rc[x]
        BY <1>1, <2>1 DEF TypeOK
    <2>3. /\ refs'[t][a] = refs[t][a] + 1
          /\ \A v \in Threads \ {t} : refs'[v][a] = refs[v][a]
          /\ \A v \in Threads, x \in Places \ {a} : refs'[v][x] = refs[v][x]
        BY <1>1, <2>1 DEF TypeOK
    <2>4. \A x \in Places : Dropped(x)' = Dropped(x)
        BY <1>2 DEF Dropped
    <2>5. \A x \in Places \ {a} : References(x)' = References(x) /\ Owners(x)' = Owners(x)
        BY <2>3, <2>4, SameOwners
    <2>6. refs \in Counts /\ refs' \in Counts
        BY DEF TypeOK, Counts
    <2>7. /\ IsFiniteSet(References(a)')
          /\ Cardinality(References(a)') = Cardinality(References(a)) + 1
        <3>1. IsFiniteSet(RefSet(refs, a))
            BY <1>1, OwnersOf, RefsOf
        <3>2. /\ IsFiniteSet(RefSet(refs', a))
              /\ Cardinality(RefSet(refs', a)) = Cardinality(RefSet(refs, a)) + 1
            BY <1>1, <2>3, <2>6, <3>1, OneRefMore
        <3> QED
            BY <3>2, RefsOf
    <2>8. Owners(a)' = Owners(a) + 1
        <3>1. Owners(a) = Cardinality(References(a)) + Cardinality(Dropped(a))
            BY DEF Owners
        <3>2. Owners(a)' = Cardinality(References(a)') + Cardinality(Dropped(a))
            BY <1>1, <2>4 DEF Owners
        <3>3. Cardinality(References(a)) \in Nat /\ Cardinality(Dropped(a)) \in Nat
            BY <1>1, OwnersOf
        <3> QED
            BY <2>7, <3>1, <3>2, <3>3
    <2>9. Owners(a) \in 1..MaxCount /\ rc[a] = Owners(a) - 1 /\ MaxCount \in Nat
        <3>1. Owners(a) >= 1
            BY <1>1, OwnersOf
        <3> QED
            BY <1>4, <3>1, CountSays, Types
    <2>10. CountsKnown'
        BY <1>2, <2>5, <2>7, <2>8, <2>9 DEF CountInv, CountsKnown
    <2>11. CountExact'
        <3>1. rc'[a] = Owners(a)' - 1 /\ Owners(a)' # 0
            BY <2>2, <2>8, <2>9
        <3>2. \A x \in items \ {a} : x \in Places \ {a}
            BY Types
        <3> QED
            BY <1>2, <2>2, <2>5, <3>1, <3>2 DEF CountInv, CountExact
    <2>12. DropsKnown'
        <3>1. ASSUME NEW d \in drops, d.nRefCount = 0 PROVE LastDrop(d)'
            <4>1. LastDrop(d) /\ d.item \in Places
                BY <3>1, Types DEF CountInv, DropsKnown
            <4>2. d.item # a
                BY <1>1, <4>1 DEF LastDrop
            <4> QED
                BY <1>2, <2>3, <4>1, <4>2 DEF LastDrop
        <3> QED
            BY <1>2, <3>1 DEF CountInv, DropsKnown
    <2>13. NeverFreedInUse'
        BY <1>2, <2>3 DEF CountInv, NeverFreedInUse
    <2> QED
        BY <2>10, <2>11, <2>12, <2>13 DEF CountInv
<1> QED
    BY <1>3, <1>4

(* Giving a reference up makes a reference a drop: the owners stay. *)
LEMMA CountRead ==
    ASSUME TypeOK, TypeOK', CountInv, NEW t \in Threads, NEW a \in items, life[t] = "running",
           ReadCount(t, a)
    PROVE  CountInv'
<1> DEFINE n == [by |-> t, item |-> a, nRefCount |-> rc[a]]
<1>1. a \in Places /\ refs[t][a] > 0 /\ \A d \in drops : d.by # t
    BY Types DEF ReadCount
<1>2. items' = items /\ rc' = rc /\ life' = life
    BY DEF ReadCount
<1>3. n \notin drops /\ n.by = t /\ n.item = a /\ n.nRefCount = rc[a]
    BY <1>1
<1>4. drops' = drops \cup {n} /\ refs' = [refs EXCEPT ![t][a] = @ - 1]
    BY DEF ReadCount
<1> HIDE DEF n
<1>5. /\ refs'[t][a] = refs[t][a] - 1
      /\ \A v \in Threads \ {t} : refs'[v][a] = refs[v][a]
      /\ \A v \in Threads, x \in Places \ {a} : refs'[v][x] = refs[v][x]
    BY <1>1, <1>4 DEF TypeOK
<1>6. refs \in Counts /\ refs' \in Counts
    BY DEF TypeOK, Counts
<1>7. /\ Dropped(a)' = Dropped(a) \cup {n}
      /\ \A x \in Places \ {a} : Dropped(x)' = Dropped(x)
    BY <1>3, <1>4 DEF Dropped
<1>8. \A x \in Places \ {a} : References(x)' = References(x) /\ Owners(x)' = Owners(x)
    BY <1>5, <1>7, SameOwners
<1>9. /\ IsFiniteSet(References(a)')
      /\ Cardinality(References(a)') = Cardinality(References(a)) - 1
    <2>1. IsFiniteSet(RefSet(refs, a))
        BY <1>1, OwnersOf, RefsOf
    <2>2. /\ IsFiniteSet(RefSet(refs', a))
          /\ Cardinality(RefSet(refs', a)) = Cardinality(RefSet(refs, a)) - 1
        BY <1>1, <1>5, <1>6, <2>1, OneRefLess
    <2> QED
        BY <2>2, RefsOf
<1>10. Cardinality(Dropped(a)') = Cardinality(Dropped(a)) + 1
    <2>1. n \notin Dropped(a)
        BY <1>3 DEF Dropped
    <2> QED
        BY <1>1, <1>7, <2>1, FS_AddElement, OwnersOf
<1>11. Owners(a)' = Owners(a)
    <2>1. Owners(a)' = Cardinality(References(a)') + Cardinality(Dropped(a)')
        BY DEF Owners
    <2>2. /\ Owners(a) = Cardinality(References(a)) + Cardinality(Dropped(a))
          /\ Cardinality(References(a)) \in Nat /\ Cardinality(Dropped(a)) \in Nat
        BY <1>1, OwnersOf
    <2> QED
        BY <1>9, <1>10, <2>1, <2>2
<1>12. CountsKnown'
    BY <1>2, <1>8, <1>9, <1>11 DEF CountInv, CountsKnown
<1>13. CountExact'
    <2>1. \A x \in items : Owners(x)' = Owners(x)
        BY <1>8, <1>11, Types
    <2> QED
        BY <1>2, <2>1 DEF CountInv, CountExact
<1>14. DropsKnown'
    <2>1. IsFiniteSet(drops')
        BY <1>4, FS_AddElement DEF CountInv, DropsKnown
    <2>2. ASSUME NEW d \in drops', d.nRefCount = 0 PROVE LastDrop(d)'
        <3>1. CASE d = n
            <4>1. rc[a] = 0
                BY <1>3, <2>2, <3>1
            <4>2. /\ refs[t][a] = 1
                  /\ \A v \in Threads \ {t} : refs[v][a] = 0
                  /\ \A e \in drops : e.item # a
                BY <1>1, <4>1, SoleOwner
            <4>3. \A v \in Threads : refs'[v][a] = 0
                BY <1>5, <4>2
            <4> QED
                BY <1>3, <1>4, <3>1, <4>2, <4>3 DEF LastDrop
        <3>2. CASE d # n
            <4>1. d \in drops /\ LastDrop(d) /\ d.item \in Places
                BY <1>4, <2>2, <3>2, Types DEF CountInv, DropsKnown
            <4>2. d.item # a
                BY <1>1, <4>1 DEF LastDrop
            <4> QED
                BY <1>3, <1>4, <1>5, <4>1, <4>2 DEF LastDrop
        <3> QED
            BY <3>1, <3>2
    <2>3. \A d \in drops' : life'[d.by] = "running"
        BY <1>2, <1>3, <1>4 DEF CountInv, DropsKnown
    <2>4. \A d, e \in drops' : d.by = e.by => d = e
        BY <1>1, <1>3, <1>4 DEF CountInv, DropsKnown
    <2> QED
        BY <2>1, <2>2, <2>3, <2>4 DEF DropsKnown
<1>15. NeverFreedInUse'
    <2>1. \A v \in Threads, x \in Places : refs'[v][x] > 0 => refs[v][x] > 0
        BY <1>1, <1>5, Types
    <2> QED
        BY <1>2, <1>3, <1>4, <2>1 DEF CountInv, NeverFreedInUse
<1> QED
    BY <1>12, <1>13, <1>14, <1>15 DEF CountInv

(* Finishing frees the item, or decrements its count.  A drop that read    *)
(* zero is the item's only owner.                                          *)
LEMMA CountLess ==
    ASSUME TypeOK, TypeOK', CountInv, NEW d \in drops, FinishDrop(d)
    PROVE  CountInv'
<1> DEFINE a == d.item
<1>1. a \in Places /\ a \in items
    BY Types DEF CountInv, NeverFreedInUse
<1>2. drops' = drops \ {d} /\ refs' = refs /\ life' = life
    BY DEF FinishDrop
<1>3. /\ Dropped(a)' = Dropped(a) \ {d} /\ d \in Dropped(a)
      /\ \A x \in Places \ {a} : Dropped(x)' = Dropped(x)
    BY <1>2 DEF Dropped
<1> HIDE DEF a
<1>4. \A x \in Places \ {a} : References(x)' = References(x) /\ Owners(x)' = Owners(x)
    BY <1>2, <1>3, SameOwners
<1>5. References(a)' = References(a)
    BY <1>1, <1>2, SameRefs, RefsOf
<1>6. Cardinality(Dropped(a)') = Cardinality(Dropped(a)) - 1
    BY <1>1, <1>3, FS_RemoveElement, OwnersOf
<1>7. Owners(a)' = Owners(a) - 1
    <2>1. Owners(a)' = Cardinality(References(a)) + Cardinality(Dropped(a)')
        BY <1>5 DEF Owners
    <2>2. /\ Owners(a) = Cardinality(References(a)) + Cardinality(Dropped(a))
          /\ Cardinality(References(a)) \in Nat /\ Cardinality(Dropped(a)) \in Nat
        BY <1>1, OwnersOf
    <2> QED
        BY <1>6, <2>1, <2>2
<1>8. Owners(a) >= 1
    BY <1>1, OwnersOf DEF a
<1>9. DropsKnown'
    <2>1. IsFiniteSet(drops')
        BY <1>2, FS_RemoveElement DEF CountInv, DropsKnown
    <2>2. ASSUME NEW e \in drops', e.nRefCount = 0 PROVE LastDrop(e)'
        <3>1. e \in drops /\ LastDrop(e)
            BY <1>2, <2>2 DEF CountInv, DropsKnown
        <3> QED
            BY <1>2, <3>1 DEF LastDrop
    <2> QED
        BY <1>2, <2>1, <2>2 DEF CountInv, DropsKnown
<1>10. CASE LastReference(d)
    <2>1. items' = items \ {a} /\ rc' = rc
        BY <1>10 DEF FinishDrop, a
    <2>2. LastDrop(d)
        BY <1>10 DEF CountInv, DropsKnown, LastReference
    <2>3. \A x \in items' : x \in Places \ {a}
        BY <2>1, Types
    <2>4. CountsKnown'
        BY <1>1, <1>4, <1>5, <2>1, <2>3 DEF CountInv, CountsKnown
    <2>5. CountExact'
        BY <1>4, <2>1, <2>3 DEF CountInv, CountExact
    <2>6. NeverFreedInUse'
        <3>1. \A t \in Threads : refs[t][a] = 0
            BY <2>2 DEF LastDrop, a
        <3>2. \A e \in drops' : e.item # a
            BY <1>2, <2>2 DEF LastDrop, a
        <3> QED
            BY <1>2, <2>1, <3>1, <3>2, Types DEF CountInv, NeverFreedInUse
    <2> QED
        BY <1>9, <2>4, <2>5, <2>6 DEF CountInv
<1>11. CASE ~LastReference(d)
    <2>1. items' = items /\ rc' = [rc EXCEPT ![a] = CountAfter(d)]
        BY <1>11 DEF FinishDrop, a
    <2>2. rc'[a] = CountAfter(d) /\ \A x \in Places \ {a} : rc'[x] = rc[x]
        BY <1>1, <2>1 DEF TypeOK
    <2>3. Owners(a) \in 0..MaxCount + 1
        BY <1>1, CountSays
    <2>4. CountsKnown'
        <3>1. IsFiniteSet(References(a)') /\ Owners(a)' <= MaxCount + 1
            BY <1>1, <1>5, <1>7, <2>3, OwnersOf, Types
        <3>2. \A x \in Places \ {a} :
                  /\ IsFiniteSet(References(x)')
                  /\ x \in items' => Owners(x)' <= MaxCount + 1
            BY <1>4, <2>1 DEF CountInv, CountsKnown
        <3> QED
            BY <3>1, <3>2 DEF CountsKnown
    <2>5. CountExact'
        <3>1. rc'[a] = IF rc[a] = 0 THEN MaxCount ELSE rc[a] - 1
            BY <2>2 DEF CountAfter, a
        <3>2. rc[a] = Owners(a) - 1
            BY <1>1, <1>8, <2>3, CountSays
        <3>3. rc'[a] = IF Owners(a)' = 0 THEN MaxCount ELSE Owners(a)' - 1
            BY <1>7, <1>8, <2>3, <3>1, <3>2, Types
        <3>4. \A x \in items \ {a} : rc'[x] = rc[x] /\ Owners(x)' = Owners(x)
            BY <1>4, <2>2, Types
        <3> QED
            BY <2>1, <3>3, <3>4 DEF CountInv, CountExact
    <2>6. NeverFreedInUse'
        BY <1>2, <2>1 DEF CountInv, NeverFreedInUse
    <2> QED
        BY <1>9, <2>4, <2>5, <2>6 DEF CountInv
<1> QED
    BY <1>10, <1>11

-----------------------------------------------------------------------------
(* Memory, step by step. *)

LEMMA Memory ==
    ASSUME TypeOK, MemoryInv
    PROVE  /\ \A t \in Threads, l \in Levels : free[t][l] \subseteq Places
           /\ \A t \in Threads : life[t] = "running" => inRange[t] = Pool
           /\ \A t \in Threads, l \in Levels : life[t] # "running" => free[t][l] = {}
           /\ \A a \in Heap \ heap : a \notin items /\ ~InLists(a)
           /\ \A a \in Places : a \in Pool <=> a \notin Heap
           /\ Pool \subseteq Places /\ Heap \subseteq Places
           /\ items \subseteq Places /\ heap \subseteq Heap
           /\ "small" \in Levels /\ "large" \in Levels /\ \A l \in Levels : l \in {"small", "large"}
<1>1. ASSUME NEW t \in Threads, NEW l \in Levels PROVE free[t][l] \subseteq Places
    <2>1. free \in [Threads -> [Levels -> SUBSET Places]]
        BY DEF TypeOK
    <2>2. free[t][l] \in SUBSET Places
        BY <2>1
    <2> QED
        BY <2>2
<1>2. \A t \in Threads : life[t] = "running" => inRange[t] = Pool
    BY DEF MemoryInv, ThreadsKnow
<1>3. \A t \in Threads, l \in Levels : life[t] # "running" => free[t][l] = {}
    BY DEF MemoryInv, ThreadsKnow
<1>4. \A a \in Heap \ heap : a \notin items /\ ~InLists(a)
    BY DEF MemoryInv, PlacesKnown
<1>5. (\A a \in Places : a \in Pool <=> a \notin Heap) /\ Pool \subseteq Places /\ Heap \subseteq Places
    BY ConstantsAssumption DEF Places
<1>6. items \subseteq Places /\ heap \subseteq Heap
    BY DEF TypeOK
<1> QED
    BY <1>1, <1>2, <1>3, <1>4, <1>5, <1>6 DEF Levels

LEMMA MemoryStays ==
    ASSUME MemoryInv, UNCHANGED <<life, free, inRange, heap, items>>, failed' # "invalid pointer"
    PROVE  MemoryInv'
BY DEF MemoryInv, ThreadsKnow, ListsApart, PlacesKnown, InLists

LEMMA MemoryStart ==
    ASSUME TypeOK, MemoryInv, NEW t \in SubThreads, Start(t)
    PROVE  MemoryInv'
<1>1. t \in Threads /\ Main \in Threads /\ t # Main
    BY ConstantsAssumption DEF Threads
<1>2. PICK new \in kSubset(Private, Heap \ heap) :
          /\ free' = [free EXCEPT ![t].small = new]
          /\ heap' = heap \cup new
    BY DEF Start
<1>3. new \subseteq Heap \ heap
    BY DEF kSubset
<1>4. /\ life[t] = "unborn" /\ life' = [life EXCEPT ![t] = "running"]
      /\ inRange' = [inRange EXCEPT ![t] = inRange[Main]]
      /\ items' = items /\ failed' = failed
    BY DEF Start, RangeOfMain
<1>5. \A l \in Levels : free[t][l] = {}
    BY <1>1, <1>4 DEF MemoryInv, ThreadsKnow
<1>6. /\ free'[t]["small"] = new /\ free'[t]["large"] = {}
      /\ \A u \in Threads \ {t}, l \in Levels : free'[u][l] = free[u][l]
    BY <1>1, <1>2, <1>5 DEF TypeOK, Levels
<1>7. /\ life'[t] = "running" /\ inRange'[t] = Pool
      /\ \A u \in Threads \ {t} : life'[u] = life[u] /\ inRange'[u] = inRange[u]
    BY <1>1, <1>4 DEF TypeOK, MemoryInv, ThreadsKnow
<1>8. \A a \in new : a \in Heap /\ a \notin Pool /\ a \notin items /\ ~InLists(a)
    BY <1>3, Memory
<1>9. \A a : InLists(a)' <=> InLists(a) \/ a \in new
    BY <1>1, <1>5, <1>6, Memory DEF InLists
<1>10. ThreadsKnow'
    BY <1>1, <1>6, <1>7 DEF MemoryInv, ThreadsKnow, Levels
<1>11. ListsApart'
    <2> SUFFICES ASSUME NEW u \in Threads, NEW v \in Threads, NEW l \in Levels, NEW k \in Levels,
                        NEW a \in free'[u][l]
                 PROVE  a \notin items /\ (a \in free'[v][k] => u = v /\ l = k)
        BY <1>4 DEF ListsApart
    <2>1. CASE a \in new
        BY <1>6, <1>8, <2>1, Memory DEF InLists
    <2>2. CASE a \notin new
        BY <1>6, <2>2, Memory DEF MemoryInv, ListsApart
    <2> QED
        BY <2>1, <2>2
<1>12. PlacesKnown'
    <2>1. \A a \in Heap : a \in heap' <=> a \in items' \/ InLists(a)'
        BY <1>2, <1>4, <1>9 DEF MemoryInv, PlacesKnown
    <2>2. (\A u \in Threads : life'[u] # "ended") => \A u \in Threads : life[u] # "ended"
        BY <1>4, <1>7
    <2> QED
        BY <1>4, <1>9, <2>1, <2>2 DEF MemoryInv, PlacesKnown
<1> QED
    BY <1>10, <1>11, <1>12 DEF MemoryInv

(* One list changes and the others do not. *)
LEMMA ListLess ==
    ASSUME NEW f \in [Threads -> [Levels -> SUBSET Places]], NEW t \in Threads, NEW l \in Levels,
           NEW b \in Places
    PROVE  /\ [f EXCEPT ![t][l] = @ \ {b}] \in [Threads -> [Levels -> SUBSET Places]]
           /\ [f EXCEPT ![t][l] = @ \ {b}][t][l] = f[t][l] \ {b}
           /\ \A u \in Threads, k \in Levels :
                  u # t \/ k # l => [f EXCEPT ![t][l] = @ \ {b}][u][k] = f[u][k]
<1>1. [f EXCEPT ![t][l] = @ \ {b}] \in [Threads -> [Levels -> SUBSET Places]]
    OBVIOUS
<1>2. [f EXCEPT ![t][l] = @ \ {b}][t][l] = f[t][l] \ {b}
    OBVIOUS
<1>3. \A u \in Threads, k \in Levels :
          u # t \/ k # l => [f EXCEPT ![t][l] = @ \ {b}][u][k] = f[u][k]
    OBVIOUS
<1> QED
    BY <1>1, <1>2, <1>3

(* The same when memory comes to it. *)
LEMMA ListMore ==
    ASSUME NEW f \in [Threads -> [Levels -> SUBSET Places]], NEW t \in Threads, NEW l \in Levels,
           NEW b \in Places
    PROVE  /\ [f EXCEPT ![t][l] = @ \cup {b}] \in [Threads -> [Levels -> SUBSET Places]]
           /\ [f EXCEPT ![t][l] = @ \cup {b}][t][l] = f[t][l] \cup {b}
           /\ \A u \in Threads, k \in Levels :
                  u # t \/ k # l => [f EXCEPT ![t][l] = @ \cup {b}][u][k] = f[u][k]
<1>1. [f EXCEPT ![t][l] = @ \cup {b}] \in [Threads -> [Levels -> SUBSET Places]]
    OBVIOUS
<1>2. [f EXCEPT ![t][l] = @ \cup {b}][t][l] = f[t][l] \cup {b}
    OBVIOUS
<1>3. \A u \in Threads, k \in Levels :
          u # t \/ k # l => [f EXCEPT ![t][l] = @ \cup {b}][u][k] = f[u][k]
    OBVIOUS
<1> QED
    BY <1>1, <1>2, <1>3

(* New memory is nobody's: it leaves the list it was in. *)
LEMMA Allocation ==
    ASSUME TypeOK, MemoryInv, NEW t \in Threads, life[t] = "running", NEW l \in Sizes,
           NEW b \in Allocatable(t, l)
    PROVE  /\ b \in Places \ items
           /\ FreeAfter(t, l, b) \in [Threads -> [Levels -> SUBSET Places]]
           /\ \A u \in Threads, k \in Levels : FreeAfter(t, l, b)[u][k] = free[u][k] \ {b}
           /\ \A a : a \in heap \cup ({b} \cap Heap) <=> a \in heap \/ (a = b /\ b \in Heap)
<1>1. \A a : a \in heap \cup ({b} \cap Heap) <=> a \in heap \/ (a = b /\ b \in Heap)
    OBVIOUS
<1>2. CASE HasFree(t, l)
    <2>1. l \in Levels /\ b \in free[t][l]
        BY <1>2 DEF HasFree, Allocatable
    <2>2. b \in Places \ items
        BY <2>1, Memory DEF MemoryInv, ListsApart
    <2>3. FreeAfter(t, l, b) = [free EXCEPT ![t][l] = @ \ {b}]
        BY <1>2 DEF FreeAfter
    <2>4. /\ FreeAfter(t, l, b) \in [Threads -> [Levels -> SUBSET Places]]
          /\ FreeAfter(t, l, b)[t][l] = free[t][l] \ {b}
          /\ \A u \in Threads, k \in Levels :
                 u # t \/ k # l => FreeAfter(t, l, b)[u][k] = free[u][k]
        <3>1. free \in [Threads -> [Levels -> SUBSET Places]] /\ b \in Places
            BY <2>2 DEF TypeOK
        <3> QED
            BY <2>1, <2>3, <3>1, ListLess
    <2>5. \A u \in Threads, k \in Levels : u # t \/ k # l => b \notin free[u][k]
        BY <2>1 DEF MemoryInv, ListsApart
    <2>6. \A u \in Threads, k \in Levels : FreeAfter(t, l, b)[u][k] = free[u][k] \ {b}
        BY <2>4, <2>5
    <2> QED
        BY <1>1, <2>2, <2>4, <2>6
<1>3. CASE ~HasFree(t, l)
    <2>1. b \in Heap \ heap
        BY <1>3 DEF Allocatable
    <2>2. b \in Places \ items /\ ~InLists(b)
        BY <2>1, Memory
    <2>3. FreeAfter(t, l, b) = free
        BY <1>3 DEF FreeAfter
    <2>4. FreeAfter(t, l, b) \in [Threads -> [Levels -> SUBSET Places]]
        BY <2>3 DEF TypeOK
    <2>5. \A u \in Threads, k \in Levels : FreeAfter(t, l, b)[u][k] = free[u][k] \ {b}
        BY <2>2, <2>3 DEF InLists
    <2> QED
        BY <1>1, <2>2, <2>4, <2>5
<1> QED
    BY <1>2, <1>3

LEMMA MemoryAllocate ==
    ASSUME TypeOK, MemoryInv, NEW t \in Threads, life[t] = "running", NEW l \in Sizes,
           failed = "no", NEW b \in Allocatable(t, l),
           items' = items \cup {b}, free' = FreeAfter(t, l, b),
           heap' = heap \cup ({b} \cap Heap), UNCHANGED <<life, inRange, failed>>
    PROVE  MemoryInv'
<1>1. /\ b \in Places \ items
      /\ \A u \in Threads, k \in Levels : free'[u][k] = free[u][k] \ {b}
      /\ \A a : a \in heap' <=> a \in heap \/ (a = b /\ b \in Heap)
    BY Allocation
<1>2. \A a : InLists(a)' <=> InLists(a) /\ a # b
    BY <1>1 DEF InLists
<1>3. ThreadsKnow'
    BY <1>1, Memory DEF MemoryInv, ThreadsKnow
<1>4. ListsApart'
    BY <1>1 DEF MemoryInv, ListsApart
<1>5. PlacesKnown'
    BY <1>1, <1>2 DEF MemoryInv, PlacesKnown
<1> QED
    BY <1>3, <1>4, <1>5 DEF MemoryInv

(* Memory of the pool that does not fit any more goes to a list. *)
LEMMA MemoryReallocate ==
    ASSUME TypeOK, MemoryInv, NEW t \in Threads, life[t] = "running", NEW l \in Sizes,
           NEW a \in items, failed = "no", Reallocate(t, a, l)
    PROVE  MemoryInv'
<1>1. PICK b \in Allocatable(t, l) :
          /\ items' = (items \ {a}) \cup {b}
          /\ free' = [FreeAfter(t, l, b) EXCEPT ![t][LevelOf(a)] = @ \cup {a}]
          /\ heap' = heap \cup ({b} \cap Heap)
    BY DEF Reallocate, MovedTo
<1>2. life' = life /\ inRange' = inRange /\ failed' = failed
    BY DEF Reallocate, MovedTo
<1>3. a \in Pool /\ a \notin Heap /\ a \in Places
    BY Memory DEF Reallocate
<1>4. LevelOf(a) \in Levels /\ (LevelOf(a) = "large" => a \in Pool)
    BY <1>3 DEF LevelOf, Levels
<1>5. /\ b \in Places \ items /\ b # a
      /\ FreeAfter(t, l, b) \in [Threads -> [Levels -> SUBSET Places]]
      /\ \A u \in Threads, k \in Levels : FreeAfter(t, l, b)[u][k] = free[u][k] \ {b}
      /\ \A x : x \in heap' <=> x \in heap \/ (x = b /\ b \in Heap)
    BY <1>1, Allocation
<1>6. /\ free'[t][LevelOf(a)] = (free[t][LevelOf(a)] \ {b}) \cup {a}
      /\ \A u \in Threads, k \in Levels :
             u # t \/ k # LevelOf(a) => free'[u][k] = free[u][k] \ {b}
    BY <1>1, <1>4, <1>5
<1>7. \A x : InLists(x)' <=> (InLists(x) /\ x # b) \/ x = a
    BY <1>4, <1>5, <1>6 DEF InLists
<1>8. ~InLists(a)
    BY DEF MemoryInv, ListsApart, InLists
<1>9. ThreadsKnow'
    <2>1. \A u \in Threads : free'[u]["large"] \subseteq Pool
        BY <1>3, <1>6, Memory DEF MemoryInv, ThreadsKnow
    <2>2. \A u \in Threads, k \in Levels : life[u] # "running" => free'[u][k] = {}
        BY <1>6, Memory
    <2> QED
        BY <1>2, <2>1, <2>2 DEF MemoryInv, ThreadsKnow
<1>10. ListsApart'
    <2> SUFFICES ASSUME NEW u \in Threads, NEW v \in Threads, NEW j \in Levels, NEW k \in Levels,
                        NEW x \in free'[u][j]
                 PROVE  x \notin items' /\ (x \in free'[v][k] => u = v /\ j = k)
        BY DEF ListsApart
    <2>1. CASE x = a
        BY <1>1, <1>5, <1>6, <1>8, <2>1 DEF InLists
    <2>2. CASE x # a
        <3>1. x \in free[u][j] /\ x # b
            BY <1>6, <2>2
        <3>2. x \in free'[v][k] => x \in free[v][k]
            BY <1>6, <2>2
        <3> QED
            BY <1>1, <3>1, <3>2 DEF MemoryInv, ListsApart
    <2> QED
        BY <2>1, <2>2
<1>11. PlacesKnown'
    BY <1>1, <1>2, <1>3, <1>5, <1>7 DEF MemoryInv, PlacesKnown
<1> QED
    BY <1>9, <1>10, <1>11 DEF MemoryInv

(* Memory of the C library moves to memory of the C library. *)
LEMMA MemoryReallocateOther ==
    ASSUME TypeOK, MemoryInv, NEW t \in Threads, life[t] = "running",
           NEW a \in items, failed = "no", ReallocateOther(t, a)
    PROVE  MemoryInv'
<1>1. PICK b \in Heap \ heap :
          /\ items' = (items \ {a}) \cup {b}
          /\ heap' = (heap \ {a}) \cup {b}
          /\ failed' = IF a \in heap THEN failed ELSE "invalid pointer"
    BY DEF ReallocateOther, MovedTo
<1>2. life' = life /\ inRange' = inRange /\ free' = free
    BY DEF ReallocateOther, MovedTo
<1>3. a \in Heap /\ a \notin Pool
    BY Memory DEF ReallocateOther
<1>4. a \in heap /\ failed' = failed
    BY <1>1, <1>3 DEF MemoryInv, PlacesKnown
<1>5. b \notin items /\ ~InLists(b) /\ b \notin Pool
    BY Memory
<1>6. ~InLists(a)
    BY DEF MemoryInv, ListsApart, InLists
<1>7. \A x : InLists(x)' <=> InLists(x)
    BY <1>2 DEF InLists
<1>8. ThreadsKnow'
    BY <1>2 DEF MemoryInv, ThreadsKnow
<1>9. ListsApart'
    <2> SUFFICES ASSUME NEW u \in Threads, NEW v \in Threads, NEW l \in Levels, NEW k \in Levels,
                        NEW x \in free[u][l]
                 PROVE  x \notin items' /\ (x \in free[v][k] => u = v /\ l = k)
        BY <1>2 DEF ListsApart
    <2>1. x # b
        BY <1>5 DEF InLists
    <2> QED
        BY <1>1, <2>1 DEF MemoryInv, ListsApart
<1>10. PlacesKnown'
    BY <1>1, <1>2, <1>3, <1>4, <1>5, <1>6, <1>7 DEF MemoryInv, PlacesKnown
<1> QED
    BY <1>8, <1>9, <1>10 DEF MemoryInv

(* Memory of the block goes to a list of the thread that frees it. *)
LEMMA MemoryFinish ==
    ASSUME TypeOK, MemoryInv, CountInv, NEW d \in drops, failed = "no", FinishDrop(d)
    PROVE  MemoryInv'
<1> DEFINE a == d.item
           t == d.by
<1>1. t \in Threads /\ a \in Places /\ a \in items /\ life[t] = "running" /\ inRange[t] = Pool
    BY Types, Memory DEF CountInv, DropsKnown, NeverFreedInUse
<1>2. life' = life /\ inRange' = inRange
    BY DEF FinishDrop
<1>3. CASE ~LastReference(d)
    <2>1. items' = items /\ free' = free /\ heap' = heap /\ failed' = failed
        BY <1>3 DEF FinishDrop
    <2> QED
        BY <1>2, <2>1, MemoryStays
<1>4. CASE LastReference(d)
    <2>1. items' = items \ {a} /\ FreeMemory(t, a)
        BY <1>4 DEF FinishDrop
    <2> HIDE DEF a, t
    <2>2. ~InLists(a)
        BY <1>1 DEF MemoryInv, ListsApart, InLists
    <2>3. CASE a \in Pool
        <3>1. /\ free' = [free EXCEPT ![t][LevelOf(a)] = @ \cup {a}]
              /\ heap' = heap /\ failed' = failed /\ a \notin Heap
            BY <1>1, <2>1, <2>3, Memory DEF FreeMemory
        <3>2. LevelOf(a) \in Levels
            BY DEF LevelOf, Levels
        <3>3. /\ free'[t][LevelOf(a)] = free[t][LevelOf(a)] \cup {a}
              /\ \A u \in Threads, k \in Levels :
                     u # t \/ k # LevelOf(a) => free'[u][k] = free[u][k]
            BY <1>1, <3>1, <3>2 DEF TypeOK
        <3>4. \A x : InLists(x)' <=> InLists(x) \/ x = a
            BY <1>1, <3>2, <3>3 DEF InLists
        <3>5. ThreadsKnow'
            <4>1. \A u \in Threads : free'[u]["large"] \subseteq Pool
                BY <2>3, <3>3, Memory DEF MemoryInv, ThreadsKnow
            <4>2. \A u \in Threads, k \in Levels : life[u] # "running" => free'[u][k] = {}
                BY <1>1, <3>3, Memory
            <4> QED
                BY <1>2, <4>1, <4>2 DEF MemoryInv, ThreadsKnow
        <3>6. ListsApart'
            <4> SUFFICES ASSUME NEW u \in Threads, NEW v \in Threads, NEW j \in Levels,
                                NEW k \in Levels, NEW x \in free'[u][j]
                         PROVE  x \notin items' /\ (x \in free'[v][k] => u = v /\ j = k)
                BY DEF ListsApart
            <4>1. CASE x = a
                BY <2>1, <2>2, <3>3, <4>1 DEF InLists
            <4>2. CASE x # a
                <5>1. x \in free[u][j] /\ (x \in free'[v][k] => x \in free[v][k])
                    BY <3>3, <4>2
                <5> QED
                    BY <2>1, <5>1 DEF MemoryInv, ListsApart
            <4> QED
                BY <4>1, <4>2
        <3>7. PlacesKnown'
            BY <1>2, <2>1, <2>3, <3>1, <3>4 DEF MemoryInv, PlacesKnown
        <3> QED
            BY <3>5, <3>6, <3>7 DEF MemoryInv
    <2>4. CASE a \notin Pool
        <3>1. a \in Heap /\ a \in heap
            BY <1>1, <2>4, Memory DEF MemoryInv, PlacesKnown
        <3>2. free' = free /\ heap' = heap \ {a} /\ failed' = failed
            BY <1>1, <2>1, <2>4, <3>1 DEF FreeMemory
        <3>3. \A x : InLists(x)' <=> InLists(x)
            BY <3>2 DEF InLists
        <3>4. ThreadsKnow' /\ ListsApart'
            BY <1>2, <2>1, <3>2 DEF MemoryInv, ThreadsKnow, ListsApart
        <3>5. PlacesKnown'
            BY <1>2, <2>1, <2>2, <2>4, <3>1, <3>2, <3>3 DEF MemoryInv, PlacesKnown
        <3> QED
            BY <3>4, <3>5 DEF MemoryInv
    <2> QED
        BY <2>3, <2>4
<1> QED
    BY <1>3, <1>4

(* A thread that ends gives back the memory that is the C library's. *)
LEMMA MemoryDelete ==
    ASSUME TypeOK, MemoryInv, NEW t \in SubThreads, failed = "no", Delete(t)
    PROVE  MemoryInv'
<1>1. t \in Threads /\ Main \in Threads /\ t # Main
    BY ConstantsAssumption DEF Threads
<1>2. /\ life[t] = "running" /\ life' = [life EXCEPT ![t] = "ended"]
      /\ heap' = heap \ GivenBack(t)
      /\ failed' = IF GivenBack(t) \subseteq heap THEN failed ELSE "invalid pointer"
      /\ inRange' = inRange /\ items' = items
    BY DEF Delete
<1>3. /\ \A l \in Levels : free'[t][l] = {}
      /\ \A u \in Threads \ {t}, l \in Levels : free'[u][l] = free[u][l]
    BY <1>1 DEF Delete, TypeOK
<1>4. /\ life'[t] = "ended"
      /\ \A u \in Threads \ {t} : life'[u] = life[u]
    BY <1>1, <1>2 DEF TypeOK
<1>5. \A a : a \in GivenBack(t) <=> a \in free[t]["small"] /\ a \notin Pool
    BY <1>1, <1>2, Memory DEF GivenBack
<1>6. \A a \in GivenBack(t) : a \in heap /\ a \notin items
    <2> SUFFICES ASSUME NEW a \in GivenBack(t) PROVE a \in heap /\ a \notin items
        OBVIOUS
    <2>1. a \in free[t]["small"] /\ a \notin Pool
        BY <1>5
    <2>2. a \in Heap /\ InLists(a)
        BY <1>1, <2>1, Memory DEF InLists
    <2> QED
        BY <1>1, <2>1, <2>2, Memory DEF MemoryInv, PlacesKnown, ListsApart
<1>7. failed' = failed
    BY <1>2, <1>6
<1>8. \A a \in Heap : InLists(a) <=> InLists(a)' \/ a \in GivenBack(t)
    <2> SUFFICES ASSUME NEW a \in Heap PROVE InLists(a) <=> InLists(a)' \/ a \in GivenBack(t)
        OBVIOUS
    <2>1. a \notin Pool /\ a \notin free[t]["large"]
        BY <1>1, Memory DEF MemoryInv, ThreadsKnow
    <2> QED
        BY <1>1, <1>3, <1>5, <2>1, Memory DEF InLists
<1>9. \A a \in GivenBack(t) : ~InLists(a)'
    BY <1>1, <1>3, <1>5, Memory DEF MemoryInv, ListsApart, InLists
<1>10. ThreadsKnow'
    <2>1. life'[Main] = "running"
        BY <1>1, <1>4 DEF MemoryInv, ThreadsKnow
    <2>2. \A u \in Threads : inRange'[u] = IF life'[u] = "unborn" THEN {} ELSE Pool
        <3> SUFFICES ASSUME NEW u \in Threads
                     PROVE  inRange'[u] = IF life'[u] = "unborn" THEN {} ELSE Pool
            OBVIOUS
        <3>1. CASE u = t
            BY <1>1, <1>2, <1>4, <3>1, Memory
        <3>2. CASE u # t
            BY <1>2, <1>4, <3>2 DEF MemoryInv, ThreadsKnow
        <3> QED
            BY <3>1, <3>2
    <2>3. \A u \in Threads, l \in Levels : life'[u] # "running" => free'[u][l] = {}
        BY <1>3, <1>4, Memory
    <2>4. \A u \in Threads : free'[u]["large"] \subseteq Pool
        BY <1>3, Memory DEF MemoryInv, ThreadsKnow
    <2> QED
        BY <2>1, <2>2, <2>3, <2>4 DEF ThreadsKnow
<1>11. ListsApart'
    <2>1. \A u \in Threads, l \in Levels : \A a : a \in free'[u][l] => a \in free[u][l]
        BY <1>3
    <2> SUFFICES ASSUME NEW u \in Threads, NEW v \in Threads, NEW l \in Levels, NEW k \in Levels,
                        NEW a \in free'[u][l]
                 PROVE  a \notin items' /\ (a \in free'[v][k] => u = v /\ l = k)
        BY DEF ListsApart
    <2>2. a \in free[u][l] /\ (a \in free'[v][k] => a \in free[v][k])
        BY <2>1
    <2> QED
        BY <1>2, <2>2 DEF MemoryInv, ListsApart
<1>12. PlacesKnown'
    <2>1. \A a \in Heap : a \in heap' <=> a \in items' \/ InLists(a)'
        BY <1>2, <1>6, <1>8, <1>9 DEF MemoryInv, PlacesKnown
    <2> QED
        BY <1>1, <1>4, <1>7, <2>1 DEF MemoryInv, PlacesKnown
<1> QED
    BY <1>10, <1>11, <1>12 DEF MemoryInv

-----------------------------------------------------------------------------
(* Types. *)

LEMMA TypesStay ==
    ASSUME TypeOK, UNCHANGED vars
    PROVE  TypeOK'
BY DEF TypeOK, vars

LEMMA TypesThread ==
    ASSUME TypeOK, MemoryInv, NEW t \in SubThreads, Start(t) \/ Delete(t)
    PROVE  TypeOK'
<1>1. t \in Threads /\ Main \in Threads
    BY DEF Threads
<1>2. items' = items /\ rc' = rc /\ refs' = refs /\ drops' = drops
    BY DEF Start, Delete
<1>3. CASE Start(t)
    <2>1. PICK new \in kSubset(Private, Heap \ heap) :
              free' = [free EXCEPT ![t].small = new] /\ heap' = heap \cup new
        BY <1>3 DEF Start
    <2>2. new \subseteq Heap /\ new \subseteq Places
        BY DEF kSubset, Places
    <2>3. life' \in [Threads -> {"unborn", "running", "ended"}] /\ failed' = failed
        BY <1>1, <1>3 DEF Start, TypeOK
    <2>4. free' \in [Threads -> [Levels -> SUBSET Places]]
        BY <1>1, <2>1, <2>2 DEF TypeOK, Levels
    <2>5. inRange' \in [Threads -> SUBSET Pool]
        BY <1>1, <1>3 DEF Start, RangeOfMain, TypeOK
    <2>6. heap' \subseteq Heap
        BY <2>1, <2>2 DEF TypeOK
    <2> QED
        BY <1>2, <2>3, <2>4, <2>5, <2>6 DEF TypeOK
<1>4. CASE Delete(t)
    <2>1. life' \in [Threads -> {"unborn", "running", "ended"}]
        BY <1>1, <1>4 DEF Delete, TypeOK
    <2>2. free' \in [Threads -> [Levels -> SUBSET Places]]
        <3>1. [l \in Levels |-> {}] \in [Levels -> SUBSET Places]
            OBVIOUS
        <3> QED
            BY <1>1, <1>4, <3>1 DEF Delete, TypeOK
    <2>3. inRange' = inRange /\ heap' \subseteq Heap /\ failed' \in {"no", "overflow", "invalid pointer"}
        BY <1>4 DEF Delete, TypeOK
    <2> QED
        BY <1>2, <2>1, <2>2, <2>3 DEF TypeOK
<1> QED
    BY <1>3, <1>4

LEMMA TypesAllocate ==
    ASSUME TypeOK, MemoryInv, NEW t \in Threads, life[t] = "running", NEW l \in Sizes,
           NEW b \in Allocatable(t, l),
           items' = items \cup {b}, free' = FreeAfter(t, l, b),
           heap' = heap \cup ({b} \cap Heap), rc' = [rc EXCEPT ![b] = 0],
           refs' = [refs EXCEPT ![t][b] = 1], UNCHANGED <<life, inRange, drops, failed>>
    PROVE  TypeOK'
<1>1. b \in Places /\ free' \in [Threads -> [Levels -> SUBSET Places]]
    BY Allocation
<1>2. rc' \in [Places -> 0..MaxCount]
    <2>1. 0 \in 0..MaxCount
        BY ConstantsAssumption
    <2> QED
        BY <1>1, <2>1 DEF TypeOK
<1>3. refs' \in [Threads -> [Places -> Nat]]
    BY <1>1 DEF TypeOK
<1> QED
    BY <1>1, <1>2, <1>3 DEF TypeOK

LEMMA TypesMove ==
    ASSUME TypeOK, NEW t \in Threads, NEW a \in items, NEW b \in Places, MovedTo(t, a, b)
    PROVE  /\ rc' \in [Places -> 0..MaxCount]
           /\ refs' \in [Threads -> [Places -> Nat]]
           /\ items' \subseteq Places
           /\ life' = life /\ inRange' = inRange /\ drops' = drops
<1>1. rc' \in [Places -> 0..MaxCount]
    <2>1. 0 \in 0..MaxCount
        BY ConstantsAssumption
    <2>2. rc' = [rc EXCEPT ![b] = 0] /\ rc \in [Places -> 0..MaxCount]
        BY DEF MovedTo, TypeOK
    <2> QED
        BY <2>1, <2>2
<1>2. refs' \in [Threads -> [Places -> Nat]]
    <2>1. [refs[t] EXCEPT ![a] = 0, ![b] = 1] \in [Places -> Nat]
        BY DEF TypeOK
    <2>2. refs' = [refs EXCEPT ![t] = [refs[t] EXCEPT ![a] = 0, ![b] = 1]]
        BY DEF MovedTo, TypeOK
    <2> QED
        BY <2>1, <2>2 DEF TypeOK
<1> QED
    BY <1>1, <1>2 DEF MovedTo, TypeOK

LEMMA TypesReallocate ==
    ASSUME TypeOK, MemoryInv, NEW t \in Threads, life[t] = "running", NEW l \in Sizes,
           NEW a \in items, Reallocate(t, a, l)
    PROVE  TypeOK'
<1>1. PICK b \in Allocatable(t, l) :
          /\ MovedTo(t, a, b)
          /\ free' = [FreeAfter(t, l, b) EXCEPT ![t][LevelOf(a)] = @ \cup {a}]
          /\ heap' = heap \cup ({b} \cap Heap) /\ failed' = failed
    BY DEF Reallocate
<1>2. b \in Places /\ FreeAfter(t, l, b) \in [Threads -> [Levels -> SUBSET Places]]
    BY Allocation
<1>3. a \in Places /\ LevelOf(a) \in Levels
    BY Types DEF LevelOf, Levels
<1>4. free' \in [Threads -> [Levels -> SUBSET Places]]
    BY <1>1, <1>2, <1>3, ListMore
<1> QED
    BY <1>1, <1>2, <1>4, TypesMove DEF TypeOK

LEMMA TypesReallocateOther ==
    ASSUME TypeOK, MemoryInv, NEW t \in Threads, NEW a \in items, ReallocateOther(t, a)
    PROVE  TypeOK'
<1>1. PICK b \in Heap \ heap : MovedTo(t, a, b) /\ heap' = (heap \ {a}) \cup {b}
    BY DEF ReallocateOther
<1>2. b \in Places
    BY DEF Places
<1>3. free' = free /\ failed' \in {"no", "overflow", "invalid pointer"}
    BY DEF ReallocateOther, TypeOK
<1> QED
    BY <1>1, <1>2, <1>3, TypesMove DEF TypeOK

LEMMA TypesReference ==
    ASSUME TypeOK, NEW t \in Threads, NEW u \in Threads, NEW a \in items, NewReference(t, u, a)
    PROVE  TypeOK'
<1>1. a \in Places
    BY Types
<1>2. CASE rc[a] = MaxCount
    BY <1>2 DEF NewReference, TypeOK
<1>3. CASE rc[a] # MaxCount
    <2>1. rc[a] + 1 \in 0..MaxCount /\ refs[t][a] + 1 \in Nat
        BY <1>1, <1>3, Types
    <2>2. rc' = [rc EXCEPT ![a] = @ + 1] /\ refs' = [refs EXCEPT ![t][a] = @ + 1]
        BY <1>3 DEF NewReference
    <2>3. rc' \in [Places -> 0..MaxCount]
        BY <1>1, <2>1, <2>2 DEF TypeOK
    <2>4. refs' \in [Threads -> [Places -> Nat]]
        BY <1>1, <2>1, <2>2 DEF TypeOK
    <2> QED
        BY <1>3, <2>3, <2>4 DEF NewReference, TypeOK
<1> QED
    BY <1>2, <1>3

LEMMA TypesRead ==
    ASSUME TypeOK, NEW t \in Threads, NEW a \in items, ReadCount(t, a)
    PROVE  TypeOK'
<1>1. a \in Places /\ refs[t][a] - 1 \in Nat /\ rc[a] \in 0..MaxCount
    BY Types DEF ReadCount
<1>2. refs' \in [Threads -> [Places -> Nat]]
    BY <1>1 DEF ReadCount, TypeOK
<1>3. drops' \subseteq [by : Threads, item : Places, nRefCount : 0..MaxCount]
    <2>1. [by |-> t, item |-> a, nRefCount |-> rc[a]]
              \in [by : Threads, item : Places, nRefCount : 0..MaxCount]
        BY <1>1
    <2>2. drops' = drops \cup {[by |-> t, item |-> a, nRefCount |-> rc[a]]}
        BY DEF ReadCount
    <2> QED
        BY <2>1, <2>2 DEF TypeOK
<1> QED
    BY <1>2, <1>3 DEF ReadCount, TypeOK

LEMMA TypesFinish ==
    ASSUME TypeOK, NEW d \in drops, FinishDrop(d)
    PROVE  TypeOK'
<1>1. d.item \in Places /\ d.by \in Threads
    BY Types
<1>2. drops' \subseteq [by : Threads, item : Places, nRefCount : 0..MaxCount]
    BY DEF FinishDrop, TypeOK
<1>3. rc' \in [Places -> 0..MaxCount]
    <2>1. CountAfter(d) \in 0..MaxCount
        BY <1>1, Types DEF CountAfter
    <2> QED
        BY <1>1, <2>1 DEF FinishDrop, TypeOK
<1>4. free' \in [Threads -> [Levels -> SUBSET Places]]
    <2>1. LevelOf(d.item) \in Levels
        BY DEF LevelOf, Levels
    <2>2. free \in [Threads -> [Levels -> SUBSET Places]]
        BY DEF TypeOK
    <2>3. \/ free' = free
          \/ free' = [free EXCEPT ![d.by][LevelOf(d.item)] = @ \cup {d.item}]
        BY DEF FinishDrop, FreeMemory
    <2>4. [free EXCEPT ![d.by][LevelOf(d.item)] = @ \cup {d.item}]
              \in [Threads -> [Levels -> SUBSET Places]]
        BY <1>1, <2>1, <2>2, ListMore
    <2> QED
        BY <2>2, <2>3, <2>4
<1>5. heap' \subseteq Heap /\ items' \subseteq Places /\ failed' \in {"no", "overflow", "invalid pointer"}
    BY DEF FinishDrop, FreeMemory, TypeOK
<1>6. life' = life /\ inRange' = inRange /\ refs' = refs
    BY DEF FinishDrop
<1> QED
    BY <1>2, <1>3, <1>4, <1>5, <1>6 DEF TypeOK

-----------------------------------------------------------------------------
(* The invariant. *)

LEMMA InitInv ==
    ASSUME Init
    PROVE  Inv
<1>1. Main \in Threads /\ MaxCount \in Nat \ {0} /\ Levels = {"small", "large"}
    BY ConstantsAssumption DEF Threads, Levels
<1>2. /\ \A t \in Threads : life[t] = IF t = Main THEN "running" ELSE "unborn"
      /\ \A t \in Threads : inRange[t] = IF t = Main THEN Pool ELSE {}
      /\ \A t \in Threads, l \in Levels : free[t][l] = IF t = Main THEN Block[l] ELSE {}
      /\ \A t \in Threads, a \in Places : refs[t][a] = 0
      /\ heap = {} /\ items = {} /\ drops = {} /\ failed = "no"
    BY DEF Init
<1>3. Block["small"] = Small /\ Block["large"] = Large /\ "small" # "large"
    BY DEF Block, Levels
<1>4. TypeOK
    <2>1. free \in [Threads -> [Levels -> SUBSET Places]]
        <3>1. \A l \in Levels : Block[l] \subseteq Places
            BY <1>1, <1>3 DEF Places, Pool
        <3> QED
            BY <3>1 DEF Init
    <2>2. rc \in [Places -> 0..MaxCount] /\ refs \in [Threads -> [Places -> Nat]]
        <3>1. 0 \in 0..MaxCount /\ 0 \in Nat
            BY <1>1
        <3> QED
            BY <3>1 DEF Init
    <2>3. /\ life \in [Threads -> {"unborn", "running", "ended"}]
          /\ inRange \in [Threads -> SUBSET Pool]
        BY DEF Init
    <2> QED
        BY <1>2, <2>1, <2>2, <2>3 DEF TypeOK
<1>5. \A a : InLists(a) <=> a \in Pool
    BY <1>1, <1>2, <1>3 DEF InLists, Pool
<1>6. ThreadsKnow
    BY <1>1, <1>2, <1>3 DEF ThreadsKnow, Pool
<1>7. ListsApart
    <2> SUFFICES ASSUME NEW t \in Threads, NEW u \in Threads, NEW l \in Levels, NEW k \in Levels,
                        NEW a \in free[t][l]
                 PROVE  a \notin items /\ (a \in free[u][k] => t = u /\ l = k)
        BY DEF ListsApart
    <2>1. t = Main /\ a \in Block[l]
        BY <1>2
    <2>2. a \in free[u][k] => u = Main /\ a \in Block[k]
        BY <1>2
    <2>3. a \in Block[l] /\ a \in Block[k] => l = k
        BY <1>1, <1>3, ConstantsAssumption
    <2> QED
        BY <1>2, <2>1, <2>2, <2>3
<1>8. PlacesKnown
    <2>1. \A a \in Heap : a \notin Pool
        BY ConstantsAssumption
    <2> QED
        BY <1>2, <1>5, <2>1 DEF PlacesKnown
<1>9. CountsKnown
    BY <1>2, NoRefs, RefsOf DEF CountsKnown
<1>10. DropsKnown /\ CountExact /\ NeverFreedInUse
    BY <1>2, FS_EmptySet DEF DropsKnown, CountExact, NeverFreedInUse
<1> QED
    BY <1>4, <1>6, <1>7, <1>8, <1>9, <1>10 DEF Inv, MemoryInv, CountInv

LEMMA NextInv ==
    ASSUME Inv, Next
    PROVE  Inv'
<1>1. TypeOK /\ MemoryInv /\ CountInv /\ failed = "no"
    BY DEF Inv, Next
<1>2. ASSUME NEW t \in SubThreads, Start(t) \/ Delete(t) PROVE Inv'
    <2>1. TypeOK'
        BY <1>1, <1>2, TypesThread
    <2>2. MemoryInv'
        BY <1>1, <1>2, MemoryStart, MemoryDelete
    <2>3. CountInv'
        <3>1. items' = items /\ rc' = rc /\ refs' = refs /\ drops' = drops
            BY <1>2 DEF Start, Delete
        <3>2. \A d \in drops : life'[d.by] = "running"
            <4> SUFFICES ASSUME NEW d \in drops PROVE life'[d.by] = "running"
                OBVIOUS
            <4>1. d.by \in Threads /\ life[d.by] = "running" /\ t \in Threads
                BY <1>1, Types DEF CountInv, DropsKnown, Threads
            <4>2. d.by # t
                BY <1>2, <4>1 DEF Start, Delete
            <4> QED
                BY <1>1, <1>2, <4>1, <4>2 DEF Start, Delete, TypeOK
        <3> QED
            BY <1>1, <3>1, <3>2, CountStays
    <2> QED
        BY <2>1, <2>2, <2>3 DEF Inv
<1>3. ASSUME NEW t \in Threads, life[t] = "running", NEW l \in Sizes, Allocate(t, l) PROVE Inv'
    <2>1. PICK b \in Allocatable(t, l) :
              /\ items' = items \cup {b} /\ free' = FreeAfter(t, l, b)
              /\ heap' = heap \cup ({b} \cap Heap) /\ rc' = [rc EXCEPT ![b] = 0]
              /\ refs' = [refs EXCEPT ![t][b] = 1] /\ UNCHANGED <<life, inRange, drops, failed>>
        BY <1>3 DEF Allocate
    <2>2. TypeOK'
        BY <1>1, <1>3, <2>1, TypesAllocate
    <2>3. MemoryInv'
        BY <1>1, <1>3, <2>1, MemoryAllocate
    <2>4. b \in Places \ items
        BY <1>1, <1>3, Allocation
    <2>5. CountInv'
        BY <1>1, <2>1, <2>2, <2>4, CountNew
    <2> QED
        BY <2>2, <2>3, <2>5 DEF Inv
<1>4. ASSUME NEW t \in Threads, life[t] = "running", NEW l \in Sizes, NEW a \in items,
             Reallocate(t, a, l)
      PROVE  Inv'
    <2>1. TypeOK'
        BY <1>1, <1>4, TypesReallocate
    <2>2. MemoryInv'
        BY <1>1, <1>4, MemoryReallocate
    <2>3. PICK b \in Allocatable(t, l) : MovedTo(t, a, b)
        BY <1>4 DEF Reallocate
    <2>4. b \in Places \ items /\ refs[t][a] = 1 /\ rc[a] = 0
        BY <1>1, <1>4, Allocation DEF Reallocate
    <2>5. CountInv'
        BY <1>1, <2>1, <2>3, <2>4, CountMove
    <2> QED
        BY <2>1, <2>2, <2>5 DEF Inv
<1>5. ASSUME NEW t \in Threads, life[t] = "running", NEW a \in items, ReallocateOther(t, a)
      PROVE  Inv'
    <2>1. TypeOK'
        BY <1>1, <1>5, TypesReallocateOther
    <2>2. MemoryInv'
        BY <1>1, <1>5, MemoryReallocateOther
    <2>3. PICK b \in Heap \ heap : MovedTo(t, a, b)
        BY <1>5 DEF ReallocateOther
    <2>4. b \in Places \ items /\ refs[t][a] = 1 /\ rc[a] = 0
        BY <1>1, <1>5, Memory DEF ReallocateOther
    <2>5. CountInv'
        BY <1>1, <2>1, <2>3, <2>4, CountMove
    <2> QED
        BY <2>1, <2>2, <2>5 DEF Inv
<1>6. ASSUME NEW t \in Threads, life[t] = "running", NEW u \in Threads, NEW a \in items,
             NewReference(t, u, a)
      PROVE  Inv'
    <2>1. TypeOK'
        BY <1>1, <1>6, TypesReference
    <2>2. MemoryInv'
        BY <1>1, <1>6, MemoryStays DEF NewReference
    <2>3. CountInv'
        BY <1>1, <1>6, <2>1, CountMore
    <2> QED
        BY <2>1, <2>2, <2>3 DEF Inv
<1>7. ASSUME NEW t \in Threads, life[t] = "running", NEW a \in items, ReadCount(t, a)
      PROVE  Inv'
    <2>1. TypeOK'
        BY <1>1, <1>7, TypesRead
    <2>2. MemoryInv'
        BY <1>1, <1>7, MemoryStays DEF ReadCount
    <2>3. CountInv'
        BY <1>1, <1>7, <2>1, CountRead
    <2> QED
        BY <2>1, <2>2, <2>3 DEF Inv
<1>8. ASSUME NEW d \in drops, FinishDrop(d) PROVE Inv'
    <2>1. TypeOK'
        BY <1>1, <1>8, TypesFinish
    <2>2. MemoryInv'
        BY <1>1, <1>8, MemoryFinish
    <2>3. CountInv'
        BY <1>1, <1>8, <2>1, CountLess
    <2> QED
        BY <2>1, <2>2, <2>3 DEF Inv
<1> QED
    BY <1>2, <1>3, <1>4, <1>5, <1>6, <1>7, <1>8 DEF Next

LEMMA StutterInv ==
    ASSUME Inv, UNCHANGED vars
    PROVE  Inv'
<1>1. TypeOK' /\ MemoryInv'
    BY TypesStay, MemoryStays DEF Inv, MemoryInv, PlacesKnown, vars
<1>2. CountInv'
    BY CountStays DEF Inv, CountInv, DropsKnown, vars
<1> QED
    BY <1>1, <1>2 DEF Inv

LEMMA AlwaysInv == Spec => []Inv
<1>1. Init => Inv
    BY InitInv
<1>2. Inv /\ [Next]_vars => Inv'
    BY NextInv, StutterInv
<1> QED
    BY <1>1, <1>2, PTL DEF Spec

-----------------------------------------------------------------------------
(* What the invariant implies. *)

LEMMA ListsWithMember ==
    ASSUME NEW a
    PROVE  /\ \A t \in Threads, l \in Levels : <<t, l>> \in ListsWith(a) <=> a \in free[t][l]
           /\ \A x \in ListsWith(a) : \E t \in Threads, l \in Levels : x = <<t, l>> /\ a \in free[t][l]
           /\ ListsWith(a) # {} <=> InLists(a)
<1>1. \A t \in Threads, l \in Levels : <<t, l>> \in ListsWith(a) <=> a \in free[t][l]
    BY DEF ListsWith, Lists
<1>2. \A x \in ListsWith(a) : \E t \in Threads, l \in Levels : x = <<t, l>> /\ a \in free[t][l]
    BY DEF ListsWith, Lists
<1> QED
    BY <1>1, <1>2 DEF InLists

LEMMA OneOwnerHolds ==
    ASSUME Inv
    PROVE  OneOwner
<1> SUFFICES ASSUME NEW a \in Places
             PROVE  Cardinality(ListsWith(a)) + (IF a \in items THEN 1 ELSE 0) <= 1
    BY DEF OneOwner
<1>1. CASE InLists(a)
    <2>1. PICK t \in Threads, l \in Levels : a \in free[t][l]
        BY <1>1 DEF InLists
    <2>2. a \notin items
        BY <2>1 DEF Inv, MemoryInv, ListsApart
    <2>3. \A x : x \in ListsWith(a) <=> x = <<t, l>>
        BY <2>1, ListsWithMember DEF Inv, MemoryInv, ListsApart
    <2>4. ListsWith(a) = {<<t, l>>}
        BY <2>3
    <2>5. Cardinality(ListsWith(a)) = 1
        BY <2>4, FS_Singleton
    <2> QED
        BY <2>2, <2>5
<1>2. CASE ~InLists(a)
    <2>1. ListsWith(a) = {}
        BY <1>2, ListsWithMember
    <2>2. Cardinality(ListsWith(a)) = 0
        BY <2>1, FS_EmptySet
    <2> QED
        BY <2>2
<1> QED
    BY <1>1, <1>2

LEMMA MemoryExactHolds ==
    ASSUME Inv
    PROVE  MemoryExact
<1>1. \A a : ListsWith(a) # {} <=> InLists(a)
    BY ListsWithMember
<1>2. heap = {a \in Heap : a \in items \/ ListsWith(a) # {}}
    BY <1>1 DEF Inv, MemoryInv, PlacesKnown, TypeOK
<1> QED
    BY <1>1, <1>2 DEF Inv, MemoryInv, PlacesKnown, MemoryExact

(* Every variable keeps its type. *)
THEOREM TypeCorrect == Spec => []TypeOK
<1>1. Inv => TypeOK
    BY DEF Inv
<1> QED
    BY <1>1, AlwaysInv, PTL

(* No memory has two owners: ring_state_malloc() gives out what no item    *)
(* lies in and no other list holds, whichever threads free it.             *)
THEOREM MemoryHasOneOwner == Spec => []OneOwner
<1>1. Inv => OneOwner
    BY OneOwnerHolds
<1> QED
    BY <1>1, AlwaysInv, PTL

(* The C library gets back what it gave out and nothing else, and the      *)
(* block loses nothing while no thread has ended: ring_state_free() tells  *)
(* the two kinds of memory apart on every thread.                          *)
THEOREM NothingLostOrFreedTwice == Spec => []MemoryExact
<1>1. Inv => MemoryExact
    BY MemoryExactHolds
<1> QED
    BY <1>1, AlwaysInv, PTL

(* The count is one less than the references, or has wrapped because there *)
(* are none: that ring_vm_gc_deleteitem() reads it and decrements it in    *)
(* two critical sections never makes it too low.                           *)
THEOREM CountIsExact == Spec => []CountExact
<1>1. Inv => CountExact
    BY DEF Inv, CountInv
<1> QED
    BY <1>1, AlwaysInv, PTL

(* No thread refers to a freed item, in any order of giving references up. *)
THEOREM NoUseAfterFree == Spec => []NeverFreedInUse
<1>1. Inv => NeverFreedInUse
    BY DEF Inv, CountInv
<1> QED
    BY <1>1, AlwaysInv, PTL

=============================================================================
