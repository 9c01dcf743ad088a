-------------------------- MODULE ScopeVarsProofs --------------------------
(***************************************************************************)
(* Proofs about ScopeVars, for any function, any number of scopes, lists   *)
(* and instructions, and a cache of any size.  Harmless, Lasting and Usual *)
(* say which unusual shapes of a program each part leaves out.             *)
(*                                                                         *)
(* The cache is a stack, and its array never changes: what a call takes    *)
(* off it from the top on comes back in the opposite order, to the slots   *)
(* it was in.  Taken says so: there is a level of the stack before each    *)
(* scope, and the cached arguments of a scope are, in their order, those   *)
(* between its level and the next one.                                     *)
(*                                                                         *)
(* What instructions keep is there (Kept): in the global scope, or in the  *)
(* scope of the ID they know, which is one as long as no call lives while  *)
(* the IDs start again.  And it is what looking its name up would find     *)
(* (KeptNamed): names are there once in a scope and hide no global ones    *)
(* but as parameters (Fine), in a program of no unusual shape.             *)
(***************************************************************************)
EXTENDS ScopeVars, TLAPS, WellFoundedInduction, FiniteSetTheorems, FunctionTheorems,
        SequenceTheorems

-----------------------------------------------------------------------------
(* Numbers. *)

LEMMA NatOrder == IsWellFoundedOn({p \in Nat \X Nat : p[1] < p[2]}, Nat)
BY NatLessThanWellFounded DEF OpToRel

LEMMA Induction ==
    ASSUME NEW S, 0 \in S, \A n \in Nat : n \in S => n + 1 \in S
    PROVE  Nat \subseteq S
<1> DEFINE T == Nat \ S
           R == {p \in Nat \X Nat : p[1] < p[2]}
<1>1. SUFFICES ASSUME T # {} PROVE FALSE
  OBVIOUS
<1>2. PICK x \in T : \A y \in T : <<y, x>> \notin R
  <2>1. T \subseteq Nat /\ IsWellFoundedOn(R, Nat)
    BY NatOrder
  <2> HIDE DEF R, T
  <2> QED BY <1>1, <2>1, WFMin
<1>3. x \in Nat /\ x # 0 /\ x - 1 \in Nat /\ x - 1 < x /\ (x - 1) + 1 = x
  OBVIOUS
<1>4. x - 1 \notin T
  BY <1>2, <1>3
<1> QED BY <1>2, <1>3, <1>4

LEMMA Chain ==
    ASSUME NEW a \in Int, NEW b \in Int, NEW c \in Int, NEW d \in Int, a <= b, b <= c, c + 1 <= d
    PROVE  a < d
OBVIOUS

LEMMA Between ==
    ASSUME NEW a \in Int, NEW b \in Int, NEW k \in a + 1 .. b
    PROVE  k \in Int /\ a + 1 <= k /\ k <= b
OBVIOUS

(* Each element of P has its own number of these, and each number is one. *)
Numbered(P, slot, lo, hi) ==
    /\ \A p \in P : slot[p] \in lo + 1 .. hi
    /\ \A p, q \in P : slot[p] = slot[q] => p = q
    /\ \A k \in lo + 1 .. hi : \E p \in P : slot[p] = k

LEMMA CountedBy ==
    ASSUME NEW P, NEW lo \in Nat, NEW hi \in Nat, lo <= hi, NEW slot, Numbered(P, slot, lo, hi)
    PROVE  IsFiniteSet(P) /\ Cardinality(P) = hi - lo
<1> USE DEF Numbered
<1> DEFINE T == lo + 1 .. hi
           f == [k \in T |-> CHOOSE p \in P : slot[p] = k]
<1>1. ASSUME NEW k \in T PROVE f[k] \in P /\ slot[f[k]] = k
  OBVIOUS
<1>2. f \in [T -> P]
  BY <1>1
<1> HIDE DEF f
<1>3. IsInjective(f)
  BY <1>1, <1>2 DEF IsInjective
<1>4. ASSUME NEW p \in P PROVE \E k \in T : f[k] = p
  <2>1. slot[p] \in T
    OBVIOUS
  <2> QED BY <1>1, <2>1
<1>5. f \in Bijection(T, P)
  BY <1>2, <1>3, <1>4 DEF Bijection, Injection, Surjection
<1>6. IsFiniteSet(T) /\ Cardinality(T) = hi - lo
  <2>1. lo + 1 \in Int /\ hi \in Int
    OBVIOUS
  <2>2. IsFiniteSet(T) /\ Cardinality(T) = IF lo + 1 > hi THEN 0 ELSE hi - (lo + 1) + 1
    BY <2>1, FS_Interval
  <2> QED BY <2>2
<1>7. ExistsBijection(T, P)
  BY <1>5 DEF ExistsBijection
<1> HIDE DEF T
<1> QED BY <1>6, <1>7, FS_Bijection

-----------------------------------------------------------------------------
(* The scopes and the cache. *)

Ids == 0..IdLimit - 1

(* Levels of the cache: before each scope, and now. *)
Taken(scs, h, count, top) ==
    /\ top \in [1..Len(scs) + 1 -> 0..CacheSize]
    /\ top[1] = CacheSize /\ top[Len(scs) + 1] = count
    /\ \A s \in 1..Len(scs) :
           /\ top[s + 1] <= top[s]
           /\ \A x \in 1..top[s] - top[s + 1] :
                  x \in 1..Len(scs[s]) /\ scs[s][x] = argCache[top[s] - x + 1]
           /\ \A x \in 1..Len(scs[s]) : h[scs[s][x]].cached <=> x <= top[s] - top[s + 1]

(* A list is in one place, is there, and has no cached value without one.  *)
Placed(scs, h) ==
    /\ scs \in Seq(Seq(Lists)) /\ DOMAIN h \subseteq Lists
    /\ h \in [DOMAIN h -> Variable] /\ \A a \in DOMAIN h : h[a].cached => ~h[a].null
    /\ \A s \in 1..Len(scs) : \A x \in 1..Len(scs[s]) : scs[s][x] \in DOMAIN h
    /\ \A s \in 1..Len(scs) : \A x \in 1..Len(scs[s]) :
           \A t \in 1..Len(scs) : \A y \in 1..Len(scs[t]) : scs[s][x] = scs[t][y] => s = t /\ x = y

(* The cache's array has each of its lists in one place. *)
Slots(h) ==
    /\ argCache \in [1..CacheSize -> Lists] /\ IsInjective(argCache)
    /\ \A k \in 1..CacheSize : argCache[k] \in DOMAIN h /\ h[argCache[k]].cached

Data(scs, h, count) ==
    Placed(scs, h) /\ Slots(h) /\ \E top : Taken(scs, h, count, top)

(* A scope's level is not above that of an earlier one. *)
LEMMA Descending ==
    ASSUME NEW scs, Len(scs) \in Nat, NEW h, NEW count, NEW top, Taken(scs, h, count, top),
           CacheSize \in Nat
    PROVE  \A s, t \in 1..Len(scs) + 1 : s <= t => top[t] <= top[s]
<1> DEFINE S == {n \in Nat : \A s \in 1..Len(scs) + 1 :
                                 s + n <= Len(scs) + 1 => top[s + n] <= top[s]}
<1>1. \A s \in 1..Len(scs) + 1 : top[s] \in Int
  BY DEF Taken
<1>2. \A s \in 1..Len(scs) : top[s + 1] <= top[s]
  BY DEF Taken
<1>3. 0 \in S
  BY <1>1
<1>4. ASSUME NEW n \in Nat, n \in S PROVE n + 1 \in S
  <2> SUFFICES ASSUME NEW s \in 1..Len(scs) + 1, s + (n + 1) <= Len(scs) + 1
               PROVE  top[s + (n + 1)] <= top[s]
    OBVIOUS
  <2>1. s + n \in 1..Len(scs) /\ s + (n + 1) = (s + n) + 1 /\ s + n \in 1..Len(scs) + 1
        /\ (s + n) + 1 \in 1..Len(scs) + 1
    OBVIOUS
  <2>2. top[s + n] <= top[s] /\ top[(s + n) + 1] <= top[s + n]
    BY <1>2, <1>4, <2>1
  <2> QED BY <1>1, <2>1, <2>2
<1> HIDE DEF S
<1>5. Nat \subseteq S
  BY <1>3, <1>4, Induction
<1> SUFFICES ASSUME NEW s \in 1..Len(scs) + 1, NEW t \in 1..Len(scs) + 1, s <= t
             PROVE  top[t] <= top[s]
  OBVIOUS
<1>6. t - s \in Nat /\ s + (t - s) = t
  OBVIOUS
<1>7. t - s \in S
  BY <1>5, <1>6
<1> QED BY <1>6, <1>7 DEF S

(* The scope that took slot k. *)
LEMMA TakenBy ==
    ASSUME NEW scs, Len(scs) \in Nat, NEW h, NEW count, NEW top, Taken(scs, h, count, top),
           CacheSize \in Nat, NEW k \in count + 1 .. CacheSize, count \in Nat
    PROVE  \E s \in 1..Len(scs) : k \in top[s + 1] + 1 .. top[s]
<1> DEFINE S == {n \in Nat : n <= Len(scs) /\ top[n + 1] < k =>
                                 \E s \in 1..n : k \in top[s + 1] + 1 .. top[s]}
<1>1. /\ \A s \in 1..Len(scs) + 1 : top[s] \in Int
      /\ top[1] = CacheSize /\ top[Len(scs) + 1] = count
  BY DEF Taken
<1>2. 0 \in S
  BY <1>1
<1>3. ASSUME NEW n \in Nat, n \in S PROVE n + 1 \in S
  <2> SUFFICES ASSUME n + 1 <= Len(scs), top[(n + 1) + 1] < k
               PROVE  \E s \in 1..n + 1 : k \in top[s + 1] + 1 .. top[s]
    OBVIOUS
  <2>1. n + 1 \in 1..Len(scs) + 1 /\ (n + 1) + 1 \in 1..Len(scs) + 1 /\ n <= Len(scs)
    OBVIOUS
  <2>2. CASE top[n + 1] < k
    <3>1. PICK s \in 1..n : k \in top[s + 1] + 1 .. top[s]
      BY <1>3, <2>1, <2>2
    <3>2. s \in 1..n + 1
      OBVIOUS
    <3> QED BY <3>1, <3>2
  <2>3. CASE ~(top[n + 1] < k)
    <3>1. k \in top[(n + 1) + 1] + 1 .. top[n + 1] /\ n + 1 \in 1..n + 1
      BY <1>1, <2>1, <2>3
    <3> QED BY <3>1
  <2> QED BY <2>2, <2>3
<1> HIDE DEF S
<1>4. Nat \subseteq S
  BY <1>2, <1>3, Induction
<1>5. Len(scs) \in S /\ top[Len(scs) + 1] < k
  BY <1>1, <1>4
<1> QED BY <1>5 DEF S

-----------------------------------------------------------------------------
(* Scopes are deleted. *)

LEMMA PlacesAre ==
    ASSUME NEW scs \in Seq(Seq(Lists))
    PROVE  /\ Len(scs) \in Nat
           /\ \A s \in 1..Len(scs) : scs[s] \in Seq(Lists) /\ Len(scs[s]) \in Nat
           /\ \A p \in Places(scs) : /\ p = <<p[1], p[2]>> /\ p[1] \in 1..Len(scs)
                                     /\ p[2] \in 1..Len(scs[p[1]])
           /\ \A s \in 1..Len(scs), x \in Nat : x \in 1..Len(scs[s]) => <<s, x>> \in Places(scs)
<1>1. DOMAIN scs = 1..Len(scs) /\ Len(scs) \in Nat
  OBVIOUS
<1>2. ASSUME NEW s \in 1..Len(scs)
      PROVE  scs[s] \in Seq(Lists) /\ Len(scs[s]) \in Nat /\ DOMAIN scs[s] = 1..Len(scs[s])
  <2>1. scs[s] \in Seq(Lists)
    OBVIOUS
  <2> QED BY <2>1
<1>3. ASSUME NEW p \in Places(scs)
      PROVE  p = <<p[1], p[2]>> /\ p[1] \in 1..Len(scs) /\ p[2] \in 1..Len(scs[p[1]])
  <2>1. PICK s \in DOMAIN scs : p \in {s} \X DOMAIN scs[s]
    BY DEF Places
  <2>2. p = <<p[1], p[2]>> /\ p[1] = s /\ p[2] \in DOMAIN scs[s]
    BY <2>1
  <2> QED BY <1>1, <1>2, <2>2
<1>4. ASSUME NEW s \in 1..Len(scs), NEW x \in Nat, x \in 1..Len(scs[s])
      PROVE  <<s, x>> \in Places(scs)
  <2>1. <<s, x>> \in {s} \X DOMAIN scs[s]
    BY <1>2, <1>4
  <2> QED BY <1>1, <2>1 DEF Places
<1> QED BY <1>1, <1>2, <1>3, <1>4

(* The slot that the list at a place was taken from. *)
SlotOf(scs, top, places) == [p \in places |-> top[p[1]] - p[2] + 1]

LEMMA SlotsOfPlaces ==
    ASSUME NEW scs, NEW h, NEW count \in 0..CacheSize, NEW top, CacheSize \in Nat,
           Placed(scs, h), Taken(scs, h, count, top), NEW n \in 0..Len(scs)
    PROVE  LET P == CachedPlaces(scs, n, h, 0)
               slot == SlotOf(scs, top, P) IN
           /\ count <= top[n + 1] /\ top[n + 1] \in 0..CacheSize
           /\ \A p \in P : /\ slot[p] \in count + 1 .. top[n + 1]
                           /\ At(scs, p) = argCache[slot[p]]
           /\ \A p, q \in P : NoLater(q, p) <=> slot[q] <= slot[p]
           /\ \A p, q \in P : slot[p] = slot[q] => p = q
           /\ \A k \in count + 1 .. top[n + 1] : \E p \in P : slot[p] = k
<1> DEFINE P == CachedPlaces(scs, n, h, 0)
           slot == SlotOf(scs, top, P)
           L == Len(scs)
<1>1. scs \in Seq(Seq(Lists)) /\ L \in Nat /\ count \in Nat
  BY DEF Placed
<1>2. /\ \A s \in 1..L + 1 : top[s] \in 0..CacheSize
      /\ top[1] = CacheSize /\ top[L + 1] = count
      /\ \A s \in 1..L : top[s + 1] <= top[s]
      /\ \A s \in 1..L : \A x \in 1..top[s] - top[s + 1] :
             x \in 1..Len(scs[s]) /\ scs[s][x] = argCache[top[s] - x + 1]
      /\ \A s \in 1..L : \A x \in 1..Len(scs[s]) :
             h[scs[s][x]].cached <=> x <= top[s] - top[s + 1]
  BY <1>1 DEF Taken
<1>3. \A s, t \in 1..L + 1 : s <= t => top[t] <= top[s]
  BY <1>1, Descending
<1>4. n + 1 \in 1..L + 1 /\ L + 1 \in 1..L + 1 /\ n + 1 <= L + 1
  BY <1>1
<1>5. count <= top[n + 1] /\ top[n + 1] \in 0..CacheSize
  BY <1>2, <1>3, <1>4
<1>6. ASSUME NEW p \in P
      PROVE  /\ p = <<p[1], p[2]>> /\ p[1] \in n + 1 .. L /\ p[1] \in 1..L /\ p[1] \in 1..L + 1
             /\ p[1] + 1 \in 1..L + 1 /\ p[2] \in Nat
             /\ top[p[1]] \in Nat /\ top[p[1] + 1] \in Nat
             /\ p[2] \in 1..top[p[1]] - top[p[1] + 1]
             /\ slot[p] = top[p[1]] - p[2] + 1
             /\ slot[p] \in top[p[1] + 1] + 1 .. top[p[1]]
             /\ slot[p] \in count + 1 .. top[n + 1]
             /\ At(scs, p) = argCache[slot[p]]
  <2>1. p \in Places(scs) /\ p[1] \in n + 1 .. L - 0 /\ h[At(scs, p)].cached
    BY DEF CachedPlaces
  <2>2. /\ p = <<p[1], p[2]>> /\ p[1] \in 1..L /\ p[2] \in 1..Len(scs[p[1]])
        /\ Len(scs[p[1]]) \in Nat
    BY <1>1, <2>1, PlacesAre
  <2>3. /\ p[1] \in n + 1 .. L /\ p[1] + 1 \in 1..L + 1 /\ p[1] \in 1..L + 1
        /\ p[2] \in Nat /\ p[2] >= 1
    BY <1>1, <2>1, <2>2
  <2>4. p[2] <= top[p[1]] - top[p[1] + 1]
    BY <1>2, <2>1, <2>2 DEF At
  <2>5. top[p[1]] \in Nat /\ top[p[1] + 1] \in Nat /\ CacheSize \in Nat
    BY <1>2, <2>3
  <2>6. p[2] \in 1..top[p[1]] - top[p[1] + 1]
    BY <2>3, <2>4, <2>5
  <2>7. slot[p] = top[p[1]] - p[2] + 1
    BY DEF SlotOf
  <2>8. slot[p] \in top[p[1] + 1] + 1 .. top[p[1]]
    BY <2>5, <2>6, <2>7
  <2>9. top[p[1]] <= top[n + 1] /\ count <= top[p[1] + 1]
    <3>1. n + 1 <= p[1] /\ p[1] + 1 <= L + 1
      BY <1>1, <2>3
    <3> QED BY <1>2, <1>3, <1>4, <2>3, <3>1
  <2>10. slot[p] \in count + 1 .. top[n + 1]
    BY <1>1, <1>5, <2>5, <2>8, <2>9
  <2>11. At(scs, p) = argCache[slot[p]]
    BY <1>2, <2>2, <2>6, <2>7 DEF At
  <2> HIDE DEF slot
  <2> QED BY <2>2, <2>3, <2>5, <2>6, <2>7, <2>8, <2>10, <2>11
<1> HIDE DEF P, slot, L
<1>7. ASSUME NEW p \in P, NEW q \in P, q[1] > p[1] PROVE slot[q] < slot[p]
  <2>1. p[1] + 1 <= q[1]
    BY <1>1, <1>6, <1>7
  <2>2. top[q[1]] <= top[p[1] + 1]
    BY <1>3, <1>6, <2>1
  <2>3. /\ q[1] \in 1..L + 1 /\ q[1] + 1 \in 1..L + 1 /\ slot[q] \in top[q[1] + 1] + 1 .. top[q[1]]
        /\ p[1] \in 1..L + 1 /\ p[1] + 1 \in 1..L + 1 /\ slot[p] \in top[p[1] + 1] + 1 .. top[p[1]]
    BY <1>6
  <2>4. /\ top[q[1]] \in Nat /\ top[q[1] + 1] \in Nat
        /\ top[p[1]] \in Nat /\ top[p[1] + 1] \in Nat
    BY <1>6
  <2>5. slot[q] \in Int /\ slot[q] <= top[q[1]]
    BY <2>3, <2>4, Between
  <2>6. slot[p] \in Int /\ top[p[1] + 1] + 1 <= slot[p]
    BY <2>3, <2>4, Between
  <2> QED BY <2>2, <2>4, <2>5, <2>6, Chain
<1>8. ASSUME NEW p \in P, NEW q \in P PROVE NoLater(q, p) <=> slot[q] <= slot[p]
  <2>1. slot[p] \in Int /\ slot[q] \in Int /\ p[1] \in Int /\ q[1] \in Int
    BY <1>6
  <2>2. CASE q[1] > p[1]
    BY <1>7, <2>1, <2>2 DEF NoLater
  <2>3. CASE p[1] > q[1]
    BY <1>7, <2>1, <2>3 DEF NoLater
  <2>4. CASE p[1] = q[1]
    <3>1. /\ slot[p] = top[p[1]] - p[2] + 1 /\ slot[q] = top[q[1]] - q[2] + 1
          /\ p[1] \in 1..L + 1 /\ p[2] \in Int /\ q[2] \in Int
      BY <1>6
    <3>2. top[p[1]] \in Nat /\ top[q[1]] = top[p[1]]
      BY <1>6, <2>4
    <3> QED BY <2>1, <2>4, <3>1, <3>2 DEF NoLater
  <2> QED BY <2>1, <2>2, <2>3, <2>4
<1>9. ASSUME NEW p \in P, NEW q \in P, slot[p] = slot[q] PROVE p = q
  <2>1. p[1] \in Int /\ q[1] \in Int /\ slot[p] \in Int
    BY <1>6
  <2>2. p[1] = q[1]
    BY <1>7, <1>9, <2>1
  <2>3. slot[p] = top[p[1]] - p[2] + 1 /\ slot[q] = top[q[1]] - q[2] + 1
    BY <1>6
  <2>4. top[p[1]] \in Nat /\ top[q[1]] = top[p[1]] /\ p[2] \in Nat /\ q[2] \in Nat
    BY <1>6, <2>2
  <2>5. top[p[1]] - p[2] + 1 = top[p[1]] - q[2] + 1
    BY <1>9, <2>3, <2>4
  <2>6. p[2] = q[2]
    BY <2>4, <2>5
  <2> QED BY <1>6, <2>2, <2>6
<1>10. ASSUME NEW k \in count + 1 .. top[n + 1] PROVE \E p \in P : slot[p] = k
  <2>1. k \in count + 1 .. CacheSize
    BY <1>1, <1>5
  <2>2. PICK s \in 1..L : k \in top[s + 1] + 1 .. top[s]
    BY <1>1, <2>1, TakenBy DEF L
  <2>3. s \in 1..L + 1 /\ s + 1 \in 1..L + 1 /\ top[s] \in Nat /\ top[s + 1] \in Nat /\ s \in Nat
    BY <1>1, <1>2
  <2>4. s \in n + 1 .. L
    <3>1. SUFFICES ASSUME s <= n PROVE FALSE
      BY <1>1, <2>3
    <3>2. top[n + 1] <= top[s + 1]
      BY <1>1, <1>3, <1>4, <2>3, <3>1
    <3> QED BY <1>5, <2>2, <2>3, <3>2
  <2> DEFINE x == top[s] - k + 1
  <2>5. x \in 1..top[s] - top[s + 1] /\ x \in Nat /\ top[s] - x + 1 = k
    <3>1. k \in Int /\ k <= top[s] /\ k >= top[s + 1] + 1
      BY <2>2, <2>3, Between
    <3>2. \A t, u, v \in Int : v <= t /\ v >= u + 1 =>
              /\ t - v + 1 \in 1..t - u /\ t - v + 1 \in Nat /\ t - (t - v + 1) + 1 = v
      OBVIOUS
    <3>3. top[s] \in Int /\ top[s + 1] \in Int
      BY <2>3
    <3> QED BY <3>1, <3>2, <3>3
  <2> HIDE DEF x
  <2>6. x \in 1..Len(scs[s])
    BY <1>2, <2>5
  <2>7. h[scs[s][x]].cached
    <3>1. x <= top[s] - top[s + 1]
      BY <2>3, <2>5
    <3> QED BY <1>2, <2>6, <3>1
  <2>8. <<s, x>> \in Places(scs)
    BY <1>1, <2>5, <2>6, PlacesAre DEF L
  <2>9. <<s, x>> \in P
    BY <1>1, <2>4, <2>7, <2>8 DEF P, CachedPlaces, At, L
  <2>10. slot[<<s, x>>] = k
    BY <1>6, <2>5, <2>9
  <2> QED BY <2>9, <2>10
<1> QED BY <1>5, <1>6, <1>8, <1>9, <1>10 DEF P, slot

(* What comes back to the cache goes to the slots it was taken from. *)
LEMMA BackInOrder ==
    ASSUME NEW scs, NEW h, NEW count \in 0..CacheSize, NEW top, CacheSize \in Nat,
           Placed(scs, h), Taken(scs, h, count, top), NEW n \in 0..Len(scs)
    PROVE  LET back == LastToFirst(scs, CachedPlaces(scs, n, h, 0)) IN
           /\ top[n + 1] - count \in Nat /\ DOMAIN back = 1..top[n + 1] - count
           /\ Len(back) = top[n + 1] - count
           /\ \A k \in 1..top[n + 1] - count : back[k] = argCache[count + k]
           /\ ToSet(back) = {At(scs, p) : p \in CachedPlaces(scs, n, h, 0)}
<1> DEFINE P == CachedPlaces(scs, n, h, 0)
           slot == SlotOf(scs, top, P)
           N == top[n + 1] - count
           back == LastToFirst(scs, P)
           rank(p) == Cardinality({q \in P : NoLater(q, p)})
           nth(k) == CHOOSE p \in P : rank(p) = k
<1>1. /\ count <= top[n + 1] /\ top[n + 1] \in 0..CacheSize
      /\ \A p \in P : slot[p] \in count + 1 .. top[n + 1] /\ At(scs, p) = argCache[slot[p]]
      /\ \A p, q \in P : NoLater(q, p) <=> slot[q] <= slot[p]
      /\ \A p, q \in P : slot[p] = slot[q] => p = q
      /\ \A k \in count + 1 .. top[n + 1] : \E p \in P : slot[p] = k
  BY SlotsOfPlaces
<1>2. count \in Nat /\ top[n + 1] \in Nat /\ N \in Nat
  BY <1>1
<1> HIDE DEF P, slot
<1>3. Cardinality(P) = N
  <2>1. Numbered(P, slot, count, top[n + 1])
    BY <1>1 DEF Numbered
  <2> QED BY <1>1, <1>2, <2>1, CountedBy
<1>4. ASSUME NEW p \in P PROVE rank(p) = slot[p] - count
  <2> DEFINE Q == {q \in P : NoLater(q, p)}
  <2>1. slot[p] \in count + 1 .. top[n + 1] /\ slot[p] \in Nat /\ count <= slot[p]
    BY <1>1, <1>2
  <2>2. \A q \in Q : q \in P /\ slot[q] \in count + 1 .. slot[p]
    BY <1>1, <1>2, <2>1
  <2>3. \A k \in count + 1 .. slot[p] : \E q \in Q : slot[q] = k
    <3>1. TAKE k \in count + 1 .. slot[p]
    <3>2. k \in count + 1 .. top[n + 1] /\ k <= slot[p]
      BY <1>2, <2>1
    <3>3. PICK q \in P : slot[q] = k
      BY <1>1, <3>2
    <3> QED BY <1>1, <3>2, <3>3
  <2>4. \A q, r \in Q : slot[q] = slot[r] => q = r
    BY <1>1
  <2> HIDE DEF Q
  <2>5. Numbered(Q, slot, count, slot[p])
    BY <2>2, <2>3, <2>4 DEF Numbered
  <2>6. Cardinality(Q) = slot[p] - count
    BY <1>2, <2>1, <2>5, CountedBy
  <2> QED BY <2>6 DEF Q
<1>5. back = [k \in 1..N |-> At(scs, nth(k))]
  BY <1>3 DEF LastToFirst
<1> HIDE DEF rank
<1>6. ASSUME NEW k \in 1..N PROVE nth(k) \in P /\ slot[nth(k)] = count + k
  <2>1. count + k \in count + 1 .. top[n + 1]
    BY <1>2
  <2>2. PICK p \in P : slot[p] = count + k
    BY <1>1, <2>1
  <2>3. rank(p) = slot[p] - count /\ slot[p] - count = k
    BY <1>2, <1>4, <2>2
  <2>4. nth(k) \in P /\ rank(nth(k)) = k
    BY <2>3
  <2> HIDE DEF nth
  <2>5. slot[nth(k)] - count = k /\ slot[nth(k)] \in Int
    BY <1>1, <1>2, <1>4, <2>4
  <2> QED BY <1>2, <2>4, <2>5
<1> HIDE DEF nth, back, N
<1>7. DOMAIN back = 1..N /\ Len(back) = N
  BY <1>2, <1>5
<1>8. ASSUME NEW k \in 1..N PROVE back[k] = argCache[count + k]
  BY <1>1, <1>5, <1>6
<1>9. ToSet(back) = {At(scs, p) : p \in P}
  <2>1. ASSUME NEW k \in 1..N PROVE back[k] \in {At(scs, p) : p \in P}
    BY <1>5, <1>6
  <2>2. ASSUME NEW p \in P PROVE \E k \in 1..N : back[k] = At(scs, p)
    <3>1. slot[p] - count \in 1..N /\ count + (slot[p] - count) = slot[p]
      BY <1>1, <1>2 DEF N
    <3>2. back[slot[p] - count] = At(scs, p)
      BY <1>1, <1>8, <3>1
    <3> QED BY <3>1, <3>2
  <2> QED BY <1>7, <2>1, <2>2 DEF ToSet
<1> QED BY <1>2, <1>7, <1>8, <1>9 DEF P, back, N

LEMMA OnePlace ==
    ASSUME NEW scs, NEW h, Placed(scs, h),
           NEW s \in 1..Len(scs), NEW x \in 1..Len(scs[s]),
           NEW t \in 1..Len(scs), NEW y \in 1..Len(scs[t]), scs[s][x] = scs[t][y]
    PROVE  s = t /\ x = y
<1>1. \A a \in 1..Len(scs) : \A b \in 1..Len(scs[a]) :
          \A c \in 1..Len(scs) : \A d \in 1..Len(scs[c]) : scs[a][b] = scs[c][d] => a = c /\ b = d
  BY DEF Placed
<1> QED BY <1>1

(* Deleting scopes leaves the cache as it was when the first of them began. *)
LEMMA DeleteKeeps ==
    ASSUME NEW scs, NEW h, NEW count \in 0..CacheSize, CacheSize \in Nat, Data(scs, h, count),
           NEW n \in 1..Len(scs), DeleteScopes(scs, n, h, count, 0)
    PROVE  /\ argCache' = argCache /\ scopes' = SubSeq(scs, 1, n)
           /\ argCount' \in 0..CacheSize /\ Data(scopes', heap', argCount')
           /\ \A s \in 1..n : \A x \in 1..Len(scs[s]) : heap'[scs[s][x]] = h[scs[s][x]]
<1> DEFINE P == CachedPlaces(scs, n, h, 0)
           back == LastToFirst(scs, P)
           gone == {a \in VarsAfter(scs, n) : ~h[a].cached}
           L == Len(scs)
<1>1. PICK top : Taken(scs, h, count, top)
  BY DEF Data
<1>2. Placed(scs, h) /\ Slots(h) /\ n \in 0..L /\ L \in Nat /\ n \in Nat /\ n >= 1 /\ n <= L
  <2>1. scs \in Seq(Seq(Lists))
    BY DEF Data, Placed
  <2> QED BY <2>1 DEF Data
<1>3. /\ scopes' = SubSeq(scs, 1, n)
      /\ argCount' = count + Len(back)
      /\ argCache' = [k \in 1..CacheSize |->
                         IF k \in count + 1 .. count + Len(back) THEN back[k - count] ELSE argCache[k]]
      /\ heap' = [a \in DOMAIN h \ gone |-> IF a \in ToSet(back) THEN CachedArg ELSE h[a]]
  BY DEF DeleteScopes
<1>4. /\ top[n + 1] - count \in Nat /\ Len(back) = top[n + 1] - count
      /\ \A k \in 1..top[n + 1] - count : back[k] = argCache[count + k]
      /\ ToSet(back) = {At(scs, p) : p \in P}
  BY <1>1, <1>2, BackInOrder
<1> HIDE DEF back
<1>5. /\ scs \in Seq(Seq(Lists)) /\ DOMAIN h \subseteq Lists
      /\ h \in [DOMAIN h -> Variable] /\ \A a \in DOMAIN h : h[a].cached => ~h[a].null
      /\ \A s \in 1..L : \A x \in 1..Len(scs[s]) : scs[s][x] \in DOMAIN h
      /\ \A s \in 1..L : \A x \in 1..Len(scs[s]) :
             \A t \in 1..L : \A y \in 1..Len(scs[t]) : scs[s][x] = scs[t][y] => s = t /\ x = y
  BY <1>2 DEF Placed
<1>6. /\ top \in [1..L + 1 -> 0..CacheSize] /\ top[1] = CacheSize
      /\ \A s \in 1..L :
             /\ top[s + 1] <= top[s]
             /\ \A x \in 1..top[s] - top[s + 1] :
                    x \in 1..Len(scs[s]) /\ scs[s][x] = argCache[top[s] - x + 1]
             /\ \A x \in 1..Len(scs[s]) : h[scs[s][x]].cached <=> x <= top[s] - top[s + 1]
  BY <1>1 DEF Taken
<1>7. /\ argCache \in [1..CacheSize -> Lists] /\ IsInjective(argCache)
      /\ \A k \in 1..CacheSize : argCache[k] \in DOMAIN h /\ h[argCache[k]].cached
  BY <1>2 DEF Slots
<1>8. n + 1 \in 1..L + 1 /\ top[n + 1] \in 0..CacheSize /\ count \in Nat
  <2>1. L \in Nat /\ n \in Nat /\ n <= L
    BY <1>2
  <2>2. top \in [1..L + 1 -> 0..CacheSize]
    BY <1>6
  <2> HIDE DEF L, P, gone
  <2>3. n + 1 \in 1..L + 1
    BY <2>1
  <2>4. top[n + 1] \in 0..CacheSize
    BY <2>2, <2>3
  <2>5. count \in Nat
    OBVIOUS
  <2> QED BY <2>3, <2>4, <2>5
<1>9. argCount' = top[n + 1]
  BY <1>3, <1>4, <1>8
<1>10. argCache' = argCache
  <2>1. \A k \in count + 1 .. count + Len(back) : k - count \in 1..top[n + 1] - count
                                               /\ count + (k - count) = k
    BY <1>4, <1>8
  <2>2. \A k \in count + 1 .. count + Len(back) : back[k - count] = argCache[k]
    BY <1>4, <2>1
  <2> QED BY <1>3, <1>7, <2>2
<1>11. /\ Len(scopes') = n /\ scopes' \in Seq(Seq(Lists))
       /\ \A s \in 1..n : s \in 1..L /\ scopes'[s] = scs[s]
  BY <1>2, <1>3, <1>5
<1>12. ASSUME NEW s \in 1..n, NEW x \in 1..Len(scs[s])
       PROVE  /\ scs[s][x] \in DOMAIN heap' /\ scs[s][x] \notin ToSet(back)
              /\ heap'[scs[s][x]] = h[scs[s][x]]
  <2>1. s \in 1..L /\ scs[s][x] \in DOMAIN h
    BY <1>2, <1>5
  <2>2. ASSUME NEW p \in Places(scs), p[1] > n PROVE At(scs, p) # scs[s][x]
    <3>1. p[1] \in 1..L /\ p[2] \in 1..Len(scs[p[1]]) /\ p[2] \in Nat
      <4>1. p[1] \in 1..L /\ p[2] \in 1..Len(scs[p[1]]) /\ Len(scs[p[1]]) \in Nat
        BY <1>5, PlacesAre
      <4> QED BY <4>1
    <3>2. s # p[1]
      BY <1>2, <2>2, <3>1
    <3>3. SUFFICES ASSUME scs[p[1]][p[2]] = scs[s][x] PROVE FALSE
      BY DEF At
    <3>4. p[1] = s
      BY <1>2, <2>1, <3>1, <3>3, OnePlace
    <3> QED BY <3>2, <3>4
  <2>3. scs[s][x] \notin VarsAfter(scs, n)
    BY <2>2 DEF VarsAfter
  <2>4. scs[s][x] \notin ToSet(back)
    <3>1. ASSUME NEW p \in P PROVE At(scs, p) # scs[s][x]
      <4>1. p \in Places(scs) /\ p[1] \in n + 1 .. L - 0
        BY DEF CachedPlaces
      <4>2. p[1] > n
        BY <1>2, <4>1
      <4> QED BY <2>2, <4>1, <4>2
    <3> QED BY <1>4, <3>1
  <2> QED BY <1>3, <2>1, <2>3, <2>4
<1> HIDE DEF P, gone, L
<1>13. Placed(scopes', heap')
  <2>1. DOMAIN heap' \subseteq Lists /\ \A a \in DOMAIN heap' : a \in DOMAIN h
    BY <1>3, <1>5
  <2>2. CachedArg \in Variable /\ CachedArg.cached /\ ~CachedArg.null
    BY DEF CachedArg, Variable, Refs
  <2>3. heap' \in [DOMAIN heap' -> Variable]
    BY <1>3, <1>5, <2>2
  <2>4. \A a \in DOMAIN heap' : heap'[a].cached => ~heap'[a].null
    BY <1>3, <1>5, <2>2
  <2>5. \A s \in 1..Len(scopes') : \A x \in 1..Len(scopes'[s]) : scopes'[s][x] \in DOMAIN heap'
    BY <1>11, <1>12
  <2>6. \A s \in 1..Len(scopes') : \A x \in 1..Len(scopes'[s]) :
            \A t \in 1..Len(scopes') : \A y \in 1..Len(scopes'[t]) :
                scopes'[s][x] = scopes'[t][y] => s = t /\ x = y
    <3> TAKE s \in 1..Len(scopes')
    <3> TAKE x \in 1..Len(scopes'[s])
    <3> TAKE t \in 1..Len(scopes')
    <3> TAKE y \in 1..Len(scopes'[t])
    <3>1. s \in 1..n /\ t \in 1..n
      BY <1>11
    <3>2. s \in 1..L /\ t \in 1..L /\ scopes'[s] = scs[s] /\ scopes'[t] = scs[t]
      BY <1>11, <3>1
    <3>3. x \in 1..Len(scs[s]) /\ y \in 1..Len(scs[t])
      BY <3>2
    <3> QED BY <1>2, <3>2, <3>3, OnePlace DEF L
  <2> QED BY <1>11, <2>1, <2>3, <2>4, <2>5, <2>6 DEF Placed
<1>14. Slots(heap')
  <2>1. ASSUME NEW k \in 1..CacheSize
        PROVE  argCache'[k] \in DOMAIN heap' /\ heap'[argCache'[k]].cached
    <3>1. argCache[k] \in DOMAIN h /\ argCache[k] \notin gone /\ h[argCache[k]].cached
      BY <1>7 DEF gone
    <3>2. CachedArg.cached
      BY DEF CachedArg
    <3> QED BY <1>3, <1>10, <3>1, <3>2
  <2> QED BY <1>7, <1>10, <2>1 DEF Slots
<1>15. Taken(scopes', heap', argCount', [s \in 1..n + 1 |-> top[s]])
  <2> DEFINE u == [s \in 1..n + 1 |-> top[s]]
  <2>1. /\ \A s \in 1..n + 1 : s \in 1..L + 1 /\ u[s] = top[s]
        /\ \A s \in 1..n : u[s] = top[s] /\ u[s + 1] = top[s + 1] /\ s \in 1..L
    BY <1>2
  <2>2. u \in [1..n + 1 -> 0..CacheSize]
    BY <1>6, <2>1
  <2>3. u[1] = CacheSize /\ u[n + 1] = argCount'
    BY <1>2, <1>6, <1>9, <2>1
  <2> HIDE DEF u
  <2>4. ASSUME NEW s \in 1..n
        PROVE  /\ u[s + 1] <= u[s]
               /\ \A x \in 1..u[s] - u[s + 1] :
                      x \in 1..Len(scopes'[s]) /\ scopes'[s][x] = argCache[u[s] - x + 1]
               /\ \A x \in 1..Len(scopes'[s]) : heap'[scopes'[s][x]].cached <=> x <= u[s] - u[s + 1]
    <3>1. s \in 1..L /\ u[s] = top[s] /\ u[s + 1] = top[s + 1] /\ scopes'[s] = scs[s]
      BY <1>11, <2>1
    <3>2. \A x \in 1..Len(scs[s]) : heap'[scs[s][x]].cached <=> x <= top[s] - top[s + 1]
      BY <1>6, <1>12, <3>1
    <3> QED BY <1>6, <3>1, <3>2
  <2> QED BY <1>11, <2>2, <2>3, <2>4 DEF Taken, u
<1>16. argCount' \in 0..CacheSize
  BY <1>8, <1>9
<1> QED BY <1>3, <1>10, <1>12, <1>13, <1>14, <1>15, <1>16 DEF Data

-----------------------------------------------------------------------------
(* Variables change, are added and are deleted. *)

LEMMA SameFlags ==
    ASSUME NEW scs, NEW h, NEW count, Data(scs, h, count), NEW g \in [DOMAIN h -> Variable],
           \A a \in DOMAIN h : g[a].cached = h[a].cached /\ (g[a].cached => ~g[a].null)
    PROVE  Data(scs, g, count)
<1>1. PICK top : Taken(scs, h, count, top)
  BY DEF Data
<1>2. Placed(scs, h) /\ Slots(h) /\ DOMAIN g = DOMAIN h
  BY DEF Data
<1>3. \A s \in 1..Len(scs) : \A x \in 1..Len(scs[s]) : scs[s][x] \in DOMAIN h
  BY <1>2 DEF Placed
<1>4. Placed(scs, g)
  BY <1>2 DEF Placed
<1>5. Slots(g)
  BY <1>2 DEF Slots
<1>6. Taken(scs, g, count, top)
  BY <1>1, <1>3 DEF Taken
<1> QED BY <1>4, <1>5, <1>6 DEF Data

(* A new variable of the active scope has a list of its own. *)
Added(scs, a) == [scs EXCEPT ![Len(scs)] = Append(@, a)]
With(h, a, v) == [b \in DOMAIN h \cup {a} |-> IF b = a THEN v ELSE h[b]]

LEMMA AddedAre ==
    ASSUME NEW scs \in Seq(Seq(Lists)), scs # <<>>, NEW a \in Lists
    PROVE  LET new == Added(scs, a)
               L == Len(scs) IN
           /\ new \in Seq(Seq(Lists)) /\ L \in Nat /\ L >= 1 /\ Len(new) = L
           /\ \A s \in 1..L - 1 : s \in 1..L /\ new[s] = scs[s]
           /\ scs[L] \in Seq(Lists) /\ Len(scs[L]) \in Nat /\ Len(new[L]) = Len(scs[L]) + 1
           /\ \A x \in 1..Len(scs[L]) : new[L][x] = scs[L][x]
           /\ new[L][Len(scs[L]) + 1] = a
<1> DEFINE L == Len(scs)
<1>1. L \in Nat /\ L >= 1 /\ L \in 1..L /\ scs \in [1..L -> Seq(Lists)]
  OBVIOUS
<1>2. scs[L] \in Seq(Lists)
  BY <1>1
<1> DEFINE last == Append(scs[L], a)
<1>3. /\ last \in Seq(Lists) /\ Len(last) = Len(scs[L]) + 1 /\ last[Len(scs[L]) + 1] = a
      /\ \A x \in 1..Len(scs[L]) : last[x] = scs[L][x]
      /\ Len(scs[L]) \in Nat
  BY <1>2
<1> HIDE DEF last, L
<1>4. Added(scs, a) = [scs EXCEPT ![L] = last]
  BY DEF Added, last, L
<1>5. /\ Added(scs, a) \in [1..L -> Seq(Lists)] /\ Added(scs, a)[L] = last
      /\ \A s \in 1..L - 1 : s \in 1..L /\ Added(scs, a)[s] = scs[s]
  BY <1>1, <1>3, <1>4
<1>6. Added(scs, a) \in Seq(Seq(Lists)) /\ Len(Added(scs, a)) = L
  BY <1>1, <1>5
<1> QED BY <1>1, <1>2, <1>3, <1>5, <1>6 DEF L

LEMMA VariableAdded ==
    ASSUME NEW scs, NEW h, NEW count, Data(scs, h, count), scs # <<>>, CacheSize \in Nat,
           NEW a \in Lists \ DOMAIN h, NEW v \in Variable, ~v.cached
    PROVE  Data(Added(scs, a), With(h, a, v), count)
<1> DEFINE new == Added(scs, a)
           g == With(h, a, v)
           L == Len(scs)
<1>1. PICK top : Taken(scs, h, count, top)
  BY DEF Data
<1>2. Placed(scs, h) /\ Slots(h) /\ scs \in Seq(Seq(Lists))
  BY DEF Data, Placed
<1>3. /\ new \in Seq(Seq(Lists)) /\ L \in Nat /\ L >= 1 /\ Len(new) = L
      /\ \A s \in 1..L - 1 : s \in 1..L /\ new[s] = scs[s]
      /\ scs[L] \in Seq(Lists) /\ Len(scs[L]) \in Nat /\ Len(new[L]) = Len(scs[L]) + 1
      /\ \A x \in 1..Len(scs[L]) : new[L][x] = scs[L][x]
      /\ new[L][Len(scs[L]) + 1] = a
  BY <1>2, AddedAre
<1> HIDE DEF new
<1>4. /\ DOMAIN g = DOMAIN h \cup {a} /\ g[a] = v /\ \A b \in DOMAIN h : g[b] = h[b] /\ b # a
      /\ g \in [DOMAIN g -> Variable]
  BY <1>2 DEF With, Placed
<1> HIDE DEF g, L
<1>5. ASSUME NEW s \in 1..L, NEW x \in 1..Len(new[s])
      PROVE  \/ x \in 1..Len(scs[s]) /\ new[s][x] = scs[s][x] /\ scs[s][x] \in DOMAIN h
             \/ s = L /\ x = Len(scs[L]) + 1 /\ new[s][x] = a
  <2>1. \A t \in 1..L : \A y \in 1..Len(scs[t]) : scs[t][y] \in DOMAIN h
    BY <1>2 DEF Placed, L
  <2>2. CASE s \in 1..L - 1
    BY <1>3, <2>1, <2>2
  <2>3. CASE s = L
    <3>1. x \in 1..Len(scs[L]) \/ x = Len(scs[L]) + 1
      BY <1>3, <2>3
    <3> QED BY <1>3, <2>1, <2>3, <3>1
  <2> QED BY <1>3, <2>2, <2>3
<1>6. Placed(new, g)
  <2>1. DOMAIN g \subseteq Lists /\ \A b \in DOMAIN g : g[b].cached => ~g[b].null
    BY <1>2, <1>4 DEF Placed
  <2>2. \A s \in 1..Len(new) : \A x \in 1..Len(new[s]) : new[s][x] \in DOMAIN g
    BY <1>3, <1>4, <1>5
  <2>3. ASSUME NEW s \in 1..Len(new), NEW x \in 1..Len(new[s]),
               NEW t \in 1..Len(new), NEW y \in 1..Len(new[t]), new[s][x] = new[t][y]
        PROVE  s = t /\ x = y
    <3>1. s \in 1..L /\ t \in 1..L
      BY <1>3
    <3>2. CASE new[s][x] = a
      <4>1. s = L /\ x = Len(scs[L]) + 1
        BY <1>4, <1>5, <3>1, <3>2
      <4>2. t = L /\ y = Len(scs[L]) + 1
        BY <1>4, <1>5, <2>3, <3>1, <3>2
      <4> QED BY <4>1, <4>2
    <3>3. CASE new[s][x] # a
      <4>1. x \in 1..Len(scs[s]) /\ new[s][x] = scs[s][x]
        BY <1>5, <3>1, <3>3
      <4>2. y \in 1..Len(scs[t]) /\ new[t][y] = scs[t][y]
        BY <1>5, <2>3, <3>1, <3>3
      <4>3. scs[s][x] = scs[t][y]
        BY <2>3, <4>1, <4>2
      <4> QED BY <1>2, <3>1, <4>1, <4>2, <4>3, OnePlace DEF L
    <3> QED BY <3>2, <3>3
  <2> QED BY <1>3, <1>4, <2>1, <2>2, <2>3 DEF Placed
<1>7. Slots(g)
  BY <1>2, <1>4 DEF Slots
<1>8. Taken(new, g, count, top)
  <2>1. /\ top \in [1..L + 1 -> 0..CacheSize] /\ top[1] = CacheSize /\ top[L + 1] = count
        /\ \A s \in 1..L :
               /\ top[s + 1] <= top[s]
               /\ \A x \in 1..top[s] - top[s + 1] :
                      x \in 1..Len(scs[s]) /\ scs[s][x] = argCache[top[s] - x + 1]
               /\ \A x \in 1..Len(scs[s]) : h[scs[s][x]].cached <=> x <= top[s] - top[s + 1]
    BY <1>1 DEF Taken, L
  <2>2. ASSUME NEW s \in 1..L
        PROVE  \A x \in 1..Len(scs[s]) : x \in 1..Len(new[s]) /\ new[s][x] = scs[s][x]
    <3>1. CASE s = L
      BY <1>3, <3>1
    <3>2. CASE s \in 1..L - 1
      BY <1>3, <3>2
    <3> QED BY <1>3, <3>1, <3>2
  <2>3. top[L + 1] \in Nat /\ top[L] \in Nat /\ top[L] - top[L + 1] <= Len(scs[L])
    <3>1. L \in 1..L /\ L \in 1..L + 1 /\ L + 1 \in 1..L + 1
      BY <1>3
    <3>2. top[L + 1] \in Nat /\ top[L] \in Nat
      BY <2>1, <3>1
    <3>3. \A x \in 1..top[L] - top[L + 1] : x \in 1..Len(scs[L])
      BY <2>1, <3>1
    <3>4. CASE top[L] - top[L + 1] >= 1
      <4>1. top[L] - top[L + 1] \in 1..top[L] - top[L + 1]
        BY <3>2, <3>4
      <4> QED BY <1>3, <3>2, <3>3, <4>1
    <3> QED BY <1>3, <3>2, <3>4
  <2>4. ASSUME NEW s \in 1..L, NEW x \in 1..Len(new[s])
        PROVE  g[new[s][x]].cached <=> x <= top[s] - top[s + 1]
    <3>1. CASE x \in 1..Len(scs[s]) /\ new[s][x] = scs[s][x] /\ scs[s][x] \in DOMAIN h
      BY <1>4, <2>1, <3>1
    <3>2. CASE s = L /\ x = Len(scs[L]) + 1 /\ new[s][x] = a
      BY <1>3, <1>4, <2>3, <3>2
    <3> QED BY <1>5, <3>1, <3>2
  <2> QED BY <1>3, <2>1, <2>2, <2>4 DEF Taken
<1> QED BY <1>6, <1>7, <1>8 DEF Data, new, g

(* The last variable of the active scope is deleted. *)
Cut(scs) == [scs EXCEPT ![Len(scs)] = Front(@)]
Without(h, a) == [b \in DOMAIN h \ {a} |-> h[b]]

LEMMA VariableDropped ==
    ASSUME NEW scs, NEW h, NEW count, Data(scs, h, count), scs # <<>>, CacheSize \in Nat,
           scs[Len(scs)] # <<>>, ~h[Last(scs[Len(scs)])].cached
    PROVE  /\ Data(Cut(scs), Without(h, Last(scs[Len(scs)])), count)
           /\ Len(Cut(scs)) = Len(scs)
<1> DEFINE L == Len(scs)
           last == scs[L]
           N == Len(last)
           a == last[N]
           new == Cut(scs)
           g == Without(h, a)
<1>1. PICK top : Taken(scs, h, count, top)
  BY DEF Data
<1>2. Placed(scs, h) /\ Slots(h) /\ scs \in Seq(Seq(Lists))
  BY DEF Data, Placed
<1>3. L \in Nat /\ L >= 1 /\ L \in 1..L /\ scs \in [1..L -> Seq(Lists)]
  BY <1>2
<1>4. last \in Seq(Lists)
  BY <1>3
<1>5. N \in Nat /\ N >= 1 /\ Last(last) = a
  BY <1>4 DEF Last
<1>6. /\ Front(last) \in Seq(Lists) /\ Len(Front(last)) = N - 1
      /\ \A x \in 1..N - 1 : x \in 1..N /\ Front(last)[x] = last[x]
  BY <1>4, <1>5 DEF Front
<1>7. /\ new \in [1..L -> Seq(Lists)] /\ new[L] = Front(last)
      /\ \A s \in 1..L - 1 : s \in 1..L /\ new[s] = scs[s]
  <2>1. new = [scs EXCEPT ![L] = Front(last)]
    BY DEF Cut
  <2> HIDE DEF new, last, L
  <2> QED BY <1>3, <1>6, <2>1
<1>8. new \in Seq(Seq(Lists)) /\ Len(new) = L
  BY <1>3, <1>7
<1>9. ~h[a].cached
  BY <1>5
<1> HIDE DEF new
<1>10. DOMAIN g = DOMAIN h \ {a} /\ \A b \in DOMAIN g : g[b] = h[b]
  BY DEF Without
<1> HIDE DEF g, N, a, last, L
<1>11. ASSUME NEW s \in 1..L, NEW x \in 1..Len(new[s])
       PROVE  x \in 1..Len(scs[s]) /\ new[s][x] = scs[s][x] /\ ~(s = L /\ x = N)
  <2>1. CASE s \in 1..L - 1
    <3>1. new[s] = scs[s] /\ s # L
      BY <1>3, <1>7, <2>1
    <3> QED BY <3>1
  <2>2. CASE s = L
    <3>1. new[s] = Front(last) /\ scs[s] = last /\ N = Len(last)
      BY <1>7, <2>2 DEF last, N
    <3>2. x \in 1..N - 1
      BY <1>6, <3>1
    <3> QED BY <1>5, <1>6, <3>1, <3>2
  <2> QED BY <1>3, <2>1, <2>2
<1>12. ASSUME NEW s \in 1..L, NEW x \in 1..Len(new[s])
       PROVE  /\ scs[s][x] \in DOMAIN g /\ g[new[s][x]] = h[scs[s][x]]
  <2>1. x \in 1..Len(scs[s]) /\ new[s][x] = scs[s][x] /\ ~(s = L /\ x = N)
    BY <1>11
  <2>2. N \in 1..Len(scs[L]) /\ a = scs[L][N]
    BY <1>5 DEF N, a, last
  <2>3. scs[s][x] # a
    <3> SUFFICES ASSUME scs[s][x] = scs[L][N] PROVE FALSE
      BY <2>2
    <3>1. s = L /\ x = N
      BY <1>2, <1>3, <2>1, <2>2, OnePlace DEF L
    <3> QED BY <2>1, <3>1
  <2>4. \A t \in 1..L : \A y \in 1..Len(scs[t]) : scs[t][y] \in DOMAIN h
    BY <1>2 DEF Placed, L
  <2> QED BY <1>10, <2>1, <2>3, <2>4
<1>13. Placed(new, g)
  <2>1. DOMAIN g \subseteq Lists /\ \A b \in DOMAIN g : g[b].cached => ~g[b].null
    BY <1>2, <1>10 DEF Placed
  <2>2. g \in [DOMAIN g -> Variable]
    BY <1>2, <1>10 DEF Placed, g, Without
  <2>3. \A s \in 1..Len(new) : \A x \in 1..Len(new[s]) : new[s][x] \in DOMAIN g
    BY <1>8, <1>11, <1>12
  <2>4. ASSUME NEW s \in 1..Len(new), NEW x \in 1..Len(new[s]),
               NEW t \in 1..Len(new), NEW y \in 1..Len(new[t]), new[s][x] = new[t][y]
        PROVE  s = t /\ x = y
    <3>1. s \in 1..L /\ t \in 1..L
      BY <1>8
    <3>2. /\ x \in 1..Len(scs[s]) /\ new[s][x] = scs[s][x]
          /\ y \in 1..Len(scs[t]) /\ new[t][y] = scs[t][y]
      BY <1>11, <3>1
    <3>3. scs[s][x] = scs[t][y]
      BY <2>4, <3>2
    <3> QED BY <1>2, <3>1, <3>2, <3>3, OnePlace DEF L
  <2> QED BY <1>8, <2>1, <2>2, <2>3, <2>4 DEF Placed
<1>14. Slots(g)
  BY <1>2, <1>9, <1>10 DEF Slots
<1>15. Taken(new, g, count, top)
  <2>1. /\ top \in [1..L + 1 -> 0..CacheSize] /\ top[1] = CacheSize /\ top[L + 1] = count
        /\ \A s \in 1..L : top[s + 1] <= top[s]
        /\ \A s \in 1..L : \A x \in 1..top[s] - top[s + 1] :
               x \in 1..Len(scs[s]) /\ scs[s][x] = argCache[top[s] - x + 1]
        /\ \A s \in 1..L : \A x \in 1..Len(scs[s]) : h[scs[s][x]].cached <=> x <= top[s] - top[s + 1]
    BY <1>1 DEF Taken, L
  <2>2. ASSUME NEW s \in 1..L, NEW x \in 1..top[s] - top[s + 1]
        PROVE  x \in 1..Len(new[s]) /\ new[s][x] = scs[s][x]
    <3>1. x \in 1..Len(scs[s])
      BY <2>1
    <3>2. CASE s \in 1..L - 1
      BY <1>7, <3>1, <3>2
    <3>3. CASE s = L
      <4>1. s + 1 \in 1..L + 1 /\ s \in 1..L + 1
        BY <1>3
      <4>2. top[s] \in Nat /\ top[s + 1] \in Nat
        BY <2>1, <4>1
      <4>3. x <= top[s] - top[s + 1]
        BY <4>2
      <4>4. h[scs[s][x]].cached
        BY <2>1, <3>1, <4>3
      <4>5. x # N
        BY <1>9, <3>3, <4>4 DEF a, last
      <4>6. x \in 1..N - 1
        BY <1>5, <3>1, <3>3, <4>5 DEF N, last
      <4> QED BY <1>6, <1>7, <3>3, <4>6 DEF last
    <3> QED BY <1>3, <3>2, <3>3
  <2>3. ASSUME NEW s \in 1..L, NEW x \in 1..Len(new[s])
        PROVE  g[new[s][x]].cached <=> x <= top[s] - top[s + 1]
    BY <1>11, <1>12, <2>1
  <2>4. \A s \in 1..L : \A x \in 1..top[s] - top[s + 1] :
            x \in 1..Len(new[s]) /\ new[s][x] = argCache[top[s] - x + 1]
    BY <2>1, <2>2
  <2> QED BY <1>8, <2>1, <2>3, <2>4 DEF Taken
<1>16. Last(scs[Len(scs)]) = a
  BY <1>5 DEF last, L
<1> QED BY <1>8, <1>13, <1>14, <1>15, <1>16 DEF Data, new, g, L

-----------------------------------------------------------------------------
(* A call. *)

(* A list with a slot under the level is in no scope. *)
LEMMA FreeSlots ==
    ASSUME NEW scs, NEW h, NEW count \in 0..CacheSize, CacheSize \in Nat,
           Data(scs, h, count), NEW k \in 1..count,
           NEW s \in 1..Len(scs), NEW x \in 1..Len(scs[s])
    PROVE  scs[s][x] # argCache[k]
<1>1. PICK top : Taken(scs, h, count, top)
  BY DEF Data
<1>2. Placed(scs, h) /\ Slots(h) /\ scs \in Seq(Seq(Lists)) /\ Len(scs) \in Nat
  <2>1. scs \in Seq(Seq(Lists))
    BY DEF Data, Placed
  <2> QED BY <2>1 DEF Data
<1> DEFINE L == Len(scs)
<1> HIDE DEF L
<1>3. /\ top \in [1..L + 1 -> 0..CacheSize] /\ top[L + 1] = count
      /\ \A t \in 1..L : \A y \in 1..top[t] - top[t + 1] :
             y \in 1..Len(scs[t]) /\ scs[t][y] = argCache[top[t] - y + 1]
      /\ \A t \in 1..L : \A y \in 1..Len(scs[t]) : h[scs[t][y]].cached <=> y <= top[t] - top[t + 1]
  BY <1>1 DEF Taken, L
<1>4. \A t, u \in 1..L + 1 : t <= u => top[u] <= top[t]
  BY <1>1, <1>2, Descending DEF L
<1>5. SUFFICES ASSUME scs[s][x] = argCache[k] PROVE FALSE
  OBVIOUS
<1>6. k \in 1..CacheSize /\ k \in Nat /\ k <= count /\ count \in Nat
  OBVIOUS
<1>7. h[scs[s][x]].cached
  BY <1>2, <1>5, <1>6 DEF Slots
<1>8. /\ s \in 1..L /\ L \in Nat /\ s \in 1..L + 1
      /\ s + 1 \in 1..L + 1 /\ L + 1 \in 1..L + 1 /\ s + 1 <= L + 1
  BY <1>2 DEF L
<1>9. x <= top[s] - top[s + 1] /\ x \in Nat /\ x >= 1
  BY <1>3, <1>7, <1>8
<1>10. top[s] \in Nat /\ top[s + 1] \in Nat /\ top[s] <= CacheSize /\ count <= top[s + 1]
  BY <1>3, <1>4, <1>8
<1>11. /\ x \in 1..top[s] - top[s + 1]
       /\ top[s] - x + 1 \in 1..CacheSize /\ top[s] - x + 1 > count
  BY <1>6, <1>9, <1>10
<1>12. argCache[top[s] - x + 1] = argCache[k]
  BY <1>3, <1>5, <1>8, <1>11
<1>13. argCache \in [1..CacheSize -> Lists] /\ IsInjective(argCache)
  BY <1>2 DEF Slots
<1> DEFINE j == top[s] - x + 1
<1>14. j \in 1..CacheSize /\ argCache[j] = argCache[k] /\ j # k
  BY <1>6, <1>11, <1>12
<1> HIDE DEF j
<1> QED BY <1>6, <1>13, <1>14 DEF IsInjective

LEMMA ArgumentsAre ==
    ASSUME Data(scopes, heap, argCount), argCount \in 0..CacheSize, CacheSize \in Nat,
           NEW n \in Nat, NEW fresh \in Fresh(n)
    PROVE  LET args == ArgLists(n, fresh) IN
           /\ args \in Seq(Lists) /\ Len(args) = n /\ DOMAIN args = 1..n
           /\ \A x, y \in 1..n : args[x] = args[y] => x = y
           /\ \A x \in 1..n :
                  /\ x <= argCount => args[x] \in DOMAIN heap /\ args[x] = argCache[argCount - x + 1]
                  /\ x > argCount => args[x] \notin DOMAIN heap
           /\ \A s \in 1..Len(scopes) : \A x \in 1..Len(scopes[s]) :
                  \A y \in 1..n : scopes[s][x] # args[y]
<1> DEFINE args == ArgLists(n, fresh)
           m == IF n > argCount THEN n - argCount ELSE 0
<1>1. Placed(scopes, heap) /\ Slots(heap)
  BY DEF Data
<1>2. /\ argCache \in [1..CacheSize -> Lists] /\ IsInjective(argCache)
      /\ \A k \in 1..CacheSize : argCache[k] \in DOMAIN heap
  BY <1>1 DEF Slots
<1>3. fresh \in [1..m -> Lists \ DOMAIN heap] /\ IsInjective(fresh)
  BY DEF Fresh, Unused
<1>4. /\ DOMAIN args = 1..n
      /\ \A x \in 1..n : args[x] = IF x <= argCount THEN argCache[argCount - x + 1] ELSE fresh[x - argCount]
  BY DEF ArgLists
<1>5. argCount \in Nat /\ argCount <= CacheSize
  OBVIOUS
<1> HIDE DEF args
<1>6. ASSUME NEW x \in 1..n
      PROVE  /\ x <= argCount => /\ argCount - x + 1 \in 1..CacheSize /\ argCount - x + 1 \in 1..argCount
                                 /\ args[x] = argCache[argCount - x + 1] /\ args[x] \in DOMAIN heap
                                 /\ args[x] \in Lists
             /\ x > argCount => /\ x - argCount \in 1..m /\ args[x] = fresh[x - argCount]
                                /\ args[x] \notin DOMAIN heap /\ args[x] \in Lists
  <2>1. CASE x <= argCount
    <3>1. argCount - x + 1 \in 1..CacheSize /\ argCount - x + 1 \in 1..argCount
      BY <1>5, <2>1
    <3>2. args[x] = argCache[argCount - x + 1]
      BY <1>4, <2>1
    <3> QED BY <1>2, <1>5, <2>1, <3>1, <3>2
  <2>2. CASE x > argCount
    <3>1. x - argCount \in 1..m
      BY <1>5, <2>2
    <3>2. args[x] = fresh[x - argCount]
      BY <1>4, <1>5, <2>2
    <3> HIDE DEF m
    <3> QED BY <1>3, <1>5, <2>2, <3>1, <3>2
  <2> QED BY <1>5, <2>1, <2>2
<1> HIDE DEF m
<1>7. \A x \in 1..n : args[x] \in Lists
  BY <1>5, <1>6
<1>8. args \in Seq(Lists) /\ Len(args) = n
  <2>1. args = [x \in 1..n |-> args[x]]
    BY <1>4 DEF args, ArgLists
  <2>2. args \in [1..n -> Lists]
    BY <1>7, <2>1
  <2> QED BY <2>2
<1>9. ASSUME NEW x \in 1..n, NEW y \in 1..n, args[x] = args[y] PROVE x = y
  <2>1. CASE x <= argCount
    <3>1. y <= argCount
      BY <1>5, <1>6, <1>9, <2>1
    <3>2. argCount - x + 1 = argCount - y + 1
      BY <1>2, <1>6, <1>9, <2>1, <3>1 DEF IsInjective
    <3> QED BY <1>5, <3>2
  <2>2. CASE x > argCount
    <3>1. y > argCount
      BY <1>5, <1>6, <1>9, <2>2
    <3>2. x - argCount = y - argCount
      BY <1>3, <1>6, <1>9, <2>2, <3>1 DEF IsInjective
    <3> QED BY <1>5, <3>2
  <2> QED BY <1>5, <2>1, <2>2
<1>10. ASSUME NEW s \in 1..Len(scopes), NEW x \in 1..Len(scopes[s]), NEW y \in 1..n
       PROVE  scopes[s][x] # args[y]
  <2>1. CASE y <= argCount
    <3>1. argCount - y + 1 \in 1..argCount /\ args[y] = argCache[argCount - y + 1]
      BY <1>6, <2>1
    <3> DEFINE k == argCount - y + 1
    <3> HIDE DEF k
    <3>2. k \in 1..argCount /\ args[y] = argCache[k]
      BY <3>1 DEF k
    <3> QED BY <3>2, FreeSlots
  <2>2. CASE y > argCount
    <3>1. args[y] \notin DOMAIN heap
      BY <1>6, <2>2
    <3>2. \A t \in 1..Len(scopes) : \A z \in 1..Len(scopes[t]) : scopes[t][z] \in DOMAIN heap
      BY <1>1 DEF Placed
    <3> QED BY <3>1, <3>2
  <2> QED BY <1>5, <2>1, <2>2
<1> QED BY <1>4, <1>6, <1>8, <1>9, <1>10 DEF args

LEMMA IsVariable ==
    ASSUME NEW n \in ToSet(Params), NEW k \in {"value", "pointer"}, NEW r \in Refs, NEW c \in BOOLEAN
    PROVE  [name |-> n, kind |-> k, ref |-> r, null |-> FALSE, cached |-> c] \in Variable
BY DEF Variable

LEMMA ScopeAdded ==
    ASSUME Data(scopes, heap, argCount), argCount \in 0..CacheSize, CacheSize \in Nat,
           Params \in Seq(ToSet(Params)), NEW n \in 0..Len(Params), NEW fresh \in Fresh(n),
           NEW kinds \in [1..n -> {"value", "pointer"}]
    PROVE  LET args == ArgLists(n, fresh) IN
           /\ Left(n) \in 0..CacheSize
           /\ Data(Append(scopes, args), WithArgs(args, kinds), Left(n))
<1> DEFINE args == ArgLists(n, fresh)
           new == Append(scopes, args)
           g == WithArgs(args, kinds)
           L == Len(scopes)
<1>1. Placed(scopes, heap) /\ Slots(heap) /\ scopes \in Seq(Seq(Lists))
  BY DEF Data, Placed
<1>2. PICK top : Taken(scopes, heap, argCount, top)
  BY DEF Data
<1>3. n \in Nat /\ Len(Params) \in Nat /\ n <= Len(Params) /\ argCount \in Nat /\ argCount <= CacheSize
  OBVIOUS
<1>4. /\ args \in Seq(Lists) /\ Len(args) = n /\ DOMAIN args = 1..n
      /\ \A x, y \in 1..n : args[x] = args[y] => x = y
      /\ \A x \in 1..n :
             /\ x <= argCount => args[x] \in DOMAIN heap /\ args[x] = argCache[argCount - x + 1]
             /\ x > argCount => args[x] \notin DOMAIN heap
      /\ \A s \in 1..Len(scopes) : \A x \in 1..Len(scopes[s]) :
             \A y \in 1..n : scopes[s][x] # args[y]
  BY <1>3, ArgumentsAre
<1> HIDE DEF args
<1>5. ToSet(args) = {args[x] : x \in 1..n} /\ ToSet(args) \subseteq Lists
  BY <1>4 DEF ToSet
<1>6. /\ new \in Seq(Seq(Lists)) /\ L \in Nat /\ Len(new) = L + 1 /\ new[L + 1] = args
      /\ \A s \in 1..L : new[s] = scopes[s]
  BY <1>1, <1>4
<1> HIDE DEF new
<1>7. /\ DOMAIN g = DOMAIN heap \cup ToSet(args)
      /\ \A a \in DOMAIN heap \ ToSet(args) : g[a] = heap[a]
  BY DEF WithArgs
<1>8. ASSUME NEW a \in ToSet(args)
      PROVE  g[a] \in Variable /\ (g[a].cached <=> a \in DOMAIN heap) /\ ~g[a].null
  <2> DEFINE x == CHOOSE y \in DOMAIN args : args[y] = a
  <2>1. x \in 1..n
    BY <1>4, <1>5
  <2> HIDE DEF x
  <2> DEFINE ref == IF kinds[x] = "pointer" THEN "arg" ELSE "no"
  <2>2. Len(Params) - x + 1 \in 1..Len(Params)
    BY <1>3, <2>1
  <2>3. Params[Len(Params) - x + 1] \in ToSet(Params)
    BY <2>2
  <2>4. kinds[x] \in {"value", "pointer"}
    BY <2>1
  <2>5. ref \in Refs
    BY DEF Refs
  <2>6. g[a] = [name |-> Params[Len(Params) - x + 1], kind |-> kinds[x],
                ref |-> ref, null |-> FALSE, cached |-> a \in DOMAIN heap]
    BY DEF WithArgs, x
  <2> HIDE DEF g, ref
  <2>7. CASE a \in DOMAIN heap
    <3>1. (a \in DOMAIN heap) = TRUE
      BY <2>7
    <3>2. g[a] = [name |-> Params[Len(Params) - x + 1], kind |-> kinds[x],
                  ref |-> ref, null |-> FALSE, cached |-> TRUE]
      BY <2>6, <3>1, Zenon
    <3>3. g[a] \in Variable
      BY <2>3, <2>4, <2>5, <3>2, IsVariable
    <3>4. g[a].cached /\ ~g[a].null
      BY <3>2
    <3> QED BY <2>7, <3>3, <3>4
  <2>8. CASE a \notin DOMAIN heap
    <3>1. (a \in DOMAIN heap) = FALSE
      BY <2>8
    <3>2. g[a] = [name |-> Params[Len(Params) - x + 1], kind |-> kinds[x],
                  ref |-> ref, null |-> FALSE, cached |-> FALSE]
      BY <2>6, <3>1, Zenon
    <3>3. g[a] \in Variable
      BY <2>3, <2>4, <2>5, <3>2, IsVariable
    <3>4. ~g[a].cached /\ ~g[a].null
      BY <3>2
    <3> QED BY <2>8, <3>3, <3>4
  <2> QED BY <2>7, <2>8
<1>9. \A x \in 1..n : args[x] \in ToSet(args)
  BY <1>5
<1>10. Placed(new, g)
  <2>1. DOMAIN g \subseteq Lists
    BY <1>1, <1>5, <1>7 DEF Placed
  <2>2. g \in [DOMAIN g -> Variable]
    <3>1. \A a \in DOMAIN g : g[a] \in Variable
      BY <1>1, <1>7, <1>8 DEF Placed
    <3>2. g = [a \in DOMAIN g |-> g[a]]
      BY DEF WithArgs
    <3> HIDE DEF g
    <3> QED BY <3>1, <3>2
  <2>3. \A a \in DOMAIN g : g[a].cached => ~g[a].null
    BY <1>1, <1>7, <1>8 DEF Placed
  <2> HIDE DEF g, L
  <2>4. \A s \in 1..L : \A x \in 1..Len(scopes[s]) : scopes[s][x] \in DOMAIN heap
    BY <1>1 DEF Placed, L
  <2>5. ASSUME NEW s \in 1..Len(new), NEW x \in 1..Len(new[s]) PROVE new[s][x] \in DOMAIN g
    <3>1. CASE s \in 1..L
      BY <1>6, <1>7, <2>4, <3>1
    <3>2. CASE s = L + 1
      BY <1>4, <1>6, <1>7, <1>9, <3>2
    <3> QED BY <1>6, <3>1, <3>2
  <2>6. ASSUME NEW s \in 1..Len(new), NEW x \in 1..Len(new[s]),
               NEW t \in 1..Len(new), NEW y \in 1..Len(new[t]), new[s][x] = new[t][y]
        PROVE  s = t /\ x = y
    <3>1. (s \in 1..L \/ s = L + 1) /\ (t \in 1..L \/ t = L + 1)
      BY <1>6
    <3>2. CASE s \in 1..L /\ t \in 1..L
      <4>1. /\ x \in 1..Len(scopes[s]) /\ y \in 1..Len(scopes[t]) /\ scopes[s][x] = scopes[t][y]
        BY <1>6, <2>6, <3>2
      <4> QED BY <1>1, <3>2, <4>1, OnePlace DEF L
    <3>3. CASE s \in 1..L /\ t = L + 1
      <4>1. x \in 1..Len(scopes[s]) /\ y \in 1..n /\ scopes[s][x] = args[y]
        BY <1>4, <1>6, <2>6, <3>3
      <4> QED BY <1>4, <3>3, <4>1 DEF L
    <3>4. CASE s = L + 1 /\ t \in 1..L
      <4>1. y \in 1..Len(scopes[t]) /\ x \in 1..n /\ scopes[t][y] = args[x]
        BY <1>4, <1>6, <2>6, <3>4
      <4> QED BY <1>4, <3>4, <4>1 DEF L
    <3>5. CASE s = L + 1 /\ t = L + 1
      <4>1. x \in 1..n /\ y \in 1..n /\ args[x] = args[y]
        BY <1>4, <1>6, <2>6, <3>5
      <4> QED BY <1>4, <3>5, <4>1
    <3> QED BY <3>1, <3>2, <3>3, <3>4, <3>5
  <2> QED BY <1>6, <2>1, <2>2, <2>3, <2>5, <2>6 DEF Placed
<1>11. Slots(g)
  <2>1. ASSUME NEW k \in 1..CacheSize PROVE argCache[k] \in DOMAIN g /\ g[argCache[k]].cached
    <3>1. argCache[k] \in DOMAIN heap /\ heap[argCache[k]].cached
      BY <1>1 DEF Slots
    <3> HIDE DEF g
    <3> QED BY <1>7, <1>8, <3>1
  <2> HIDE DEF g
  <2> QED BY <1>1, <2>1 DEF Slots
<1> HIDE DEF g
<1>12. /\ Left(n) \in 0..CacheSize /\ Left(n) <= argCount /\ Left(n) \in Nat
       /\ \A x \in 1..n : x <= argCount <=> x <= argCount - Left(n)
       /\ \A x \in 1..argCount - Left(n) : x \in 1..n /\ x <= argCount
  BY <1>3 DEF Left
<1>13. \E u : Taken(new, g, Left(n), u)
  <2> DEFINE u == [s \in 1..(L + 1) + 1 |-> IF s = (L + 1) + 1 THEN Left(n) ELSE top[s]]
  <2>1. /\ top \in [1..L + 1 -> 0..CacheSize] /\ top[1] = CacheSize /\ top[L + 1] = argCount
        /\ \A s \in 1..L : top[s + 1] <= top[s]
        /\ \A s \in 1..L : \A x \in 1..top[s] - top[s + 1] :
               x \in 1..Len(scopes[s]) /\ scopes[s][x] = argCache[top[s] - x + 1]
        /\ \A s \in 1..L : \A x \in 1..Len(scopes[s]) : heap[scopes[s][x]].cached <=> x <= top[s] - top[s + 1]
        /\ \A s \in 1..L : \A x \in 1..Len(scopes[s]) : scopes[s][x] \in DOMAIN heap
    BY <1>1, <1>2 DEF Taken, Placed
  <2> HIDE DEF L
  <2>2. /\ \A s \in 1..L + 1 : u[s] = top[s]
        /\ u[(L + 1) + 1] = Left(n)
        /\ \A s \in 1..L : u[s] = top[s] /\ u[s + 1] = top[s + 1]
    BY <1>6
  <2>3. u \in [1..(L + 1) + 1 -> 0..CacheSize] /\ u[1] = CacheSize
    BY <1>6, <1>12, <2>1, <2>2
  <2> HIDE DEF u
  <2>4. ASSUME NEW s \in 1..L + 1
        PROVE  /\ u[s + 1] <= u[s]
               /\ \A x \in 1..u[s] - u[s + 1] :
                      x \in 1..Len(new[s]) /\ new[s][x] = argCache[u[s] - x + 1]
               /\ \A x \in 1..Len(new[s]) : g[new[s][x]].cached <=> x <= u[s] - u[s + 1]
    <3>1. CASE s \in 1..L
      <4>1. u[s] = top[s] /\ u[s + 1] = top[s + 1] /\ new[s] = scopes[s]
        BY <1>6, <2>2, <3>1
      <4>2. \A x \in 1..Len(scopes[s]) : g[scopes[s][x]] = heap[scopes[s][x]]
        BY <1>4, <1>5, <1>7, <2>1, <3>1 DEF L
      <4>3. u[s + 1] <= u[s]
        BY <2>1, <3>1, <4>1
      <4>4. \A x \in 1..top[s] - top[s + 1] :
                x \in 1..Len(scopes[s]) /\ scopes[s][x] = argCache[top[s] - x + 1]
        BY <2>1, <3>1
      <4>5. \A x \in 1..Len(scopes[s]) : g[scopes[s][x]].cached <=> x <= top[s] - top[s + 1]
        BY <2>1, <3>1, <4>2
      <4> QED BY <4>1, <4>3, <4>4, <4>5
    <3>2. CASE s = L + 1
      <4>1. u[s] = argCount /\ u[s + 1] = Left(n) /\ new[s] = args /\ Len(new[s]) = n
        BY <1>4, <1>6, <2>1, <2>2, <3>2
      <4>2. \A x \in 1..argCount - Left(n) : x \in 1..n /\ args[x] = argCache[argCount - x + 1]
        <5> TAKE x \in 1..argCount - Left(n)
        <5>1. x \in 1..n /\ x <= argCount
          BY <1>12
        <5> QED BY <1>4, <5>1
      <4>3. ASSUME NEW x \in 1..n PROVE g[args[x]].cached <=> x <= argCount - Left(n)
        <5>1. (x <= argCount => args[x] \in DOMAIN heap) /\ (x > argCount => args[x] \notin DOMAIN heap)
          BY <1>4
        <5>2. x <= argCount \/ x > argCount
          BY <1>3
        <5>3. g[args[x]].cached <=> args[x] \in DOMAIN heap
          BY <1>8, <1>9
        <5>4. x <= argCount <=> x <= argCount - Left(n)
          BY <1>12
        <5> QED BY <1>3, <5>1, <5>2, <5>3, <5>4
      <4>4. /\ Left(n) <= argCount
            /\ \A x \in 1..argCount - Left(n) : x \in 1..n /\ args[x] = argCache[argCount - x + 1]
            /\ \A x \in 1..n : g[args[x]].cached <=> x <= argCount - Left(n)
        BY <1>12, <4>2, <4>3
      <4> QED BY <4>1, <4>4
    <3>3. s \in 1..L \/ s = L + 1
      BY <1>6
    <3> QED BY <3>1, <3>2, <3>3, Zenon
  <2>5. Taken(new, g, Left(n), u)
    BY <1>6, <2>2, <2>3, <2>4 DEF Taken
  <2> QED BY <2>5
<1> QED BY <1>10, <1>11, <1>12, <1>13 DEF Data, new, g, args

-----------------------------------------------------------------------------
(* The invariant.  Besides the data: what calls, braces and try blocks     *)
(* keep fits the scopes, and inner try blocks began in no earlier scope.   *)

Saved == [scopes : Nat, activeID : Ids, brace : BOOLEAN, loops : SUBSET Lists]

TriesIn(ts, n) ==
    /\ ts \in Seq(Saved)
    /\ \A k \in 1..Len(ts) : ts[k].scopes \in 1..n
    /\ \A j \in 1..Len(ts) : \A k \in 1..Len(ts) : j <= k => ts[j].scopes <= ts[k].scopes

Entry == [op : Opcodes, int : Nat, var : Lists \cup {None}, kind : {"none", "value", "pointer"},
          tried : BOOLEAN]

Calls(cs, bs, n) == cs \in Seq(Ids) /\ bs \in Seq(BOOLEAN) /\ Len(cs) + 1 = n /\ Len(bs) = n

IInv ==
    /\ Data(scopes, heap, argCount) /\ argCount \in 0..CacheSize
    /\ Calls(calls, braces, Len(scopes)) /\ TriesIn(tries, Len(scopes))
    /\ scopeID \in Ids /\ activeID \in Ids
    /\ code \in [Instructions -> Entry]

(* No error leaves a class region, no argument is given an object and then *)
(* returned.                                                               *)
Harmless == Programs \cap {"class_error", "return_object"} = {}

Constants ==
    /\ CacheSize \in Nat /\ IdLimit \in Nat \ {0}
    /\ IsFiniteSet(Lists) /\ CacheSize <= Cardinality(Lists)
    /\ Params \in Seq(ToSet(Params))
    /\ \A i \in Instructions : i.inc \in BOOLEAN

LEMMA ConstantsHold == Constants
BY ConstantsAssumption DEF Constants

LEMMA DataStays ==
    ASSUME Data(scopes', heap', argCount'), argCache' = argCache
    PROVE  Data(scopes, heap, argCount)'
<1>1. Placed(scopes, heap)'
  BY DEF Data, Placed
<1>2. Slots(heap)'
  BY DEF Data, Slots
<1>3. PICK top : Taken(scopes', heap', argCount', top)
  BY DEF Data
<1>4. Taken(scopes, heap, argCount, top)'
  BY <1>3 DEF Taken
<1> QED BY <1>1, <1>2, <1>4 DEF Data

LEMMA ScopesAre ==
    ASSUME NEW h, NEW count, Data(scopes, h, count), Calls(calls, braces, Len(scopes))
    PROVE  /\ scopes \in Seq(Seq(Lists)) /\ Len(scopes) \in Nat /\ Len(scopes) >= 1 /\ scopes # <<>>
           /\ calls \in Seq(Ids) /\ Len(calls) = Len(scopes) - 1
           /\ braces \in Seq(BOOLEAN) /\ Len(braces) = Len(scopes)
<1>1. scopes \in Seq(Seq(Lists))
  BY DEF Data, Placed
<1>2. /\ calls \in Seq(Ids) /\ braces \in Seq(BOOLEAN)
      /\ Len(calls) + 1 = Len(scopes) /\ Len(braces) = Len(scopes)
  BY DEF Calls
<1>3. Len(scopes) \in Nat /\ Len(calls) \in Nat
  BY <1>1, <1>2
<1> QED BY <1>1, <1>2, <1>3

LEMMA PrefixIs ==
    ASSUME NEW S, NEW s \in Seq(S), NEW n \in Nat, n <= Len(s)
    PROVE  /\ SubSeq(s, 1, n) \in Seq(S) /\ Len(SubSeq(s, 1, n)) = n
           /\ \A k \in 1..n : k \in 1..Len(s) /\ SubSeq(s, 1, n)[k] = s[k]
<1>1. Len(s) \in Nat /\ \A k \in 1..n : k \in 1..Len(s) /\ s[k] \in S
  OBVIOUS
<1>2. 1 \in Int /\ n \in Int
  OBVIOUS
<1>3. /\ SubSeq(s, 1, n) \in Seq(S)
      /\ Len(SubSeq(s, 1, n)) = IF 1 <= n THEN n - 1 + 1 ELSE 0
      /\ \A k \in 1..n - 1 + 1 : SubSeq(s, 1, n)[k] = s[1 + k - 1]
  BY <1>1, <1>2, SubSeqProperties
<1>4. /\ \A k \in 1..n : k \in 1..n - 1 + 1 /\ 1 + k - 1 = k
      /\ (IF 1 <= n THEN n - 1 + 1 ELSE 0) = n
  OBVIOUS
<1>5. ASSUME NEW k \in 1..n PROVE SubSeq(s, 1, n)[k] = s[k]
  <2>1. SubSeq(s, 1, n)[k] = s[1 + k - 1] /\ 1 + k - 1 = k
    BY <1>3, <1>4
  <2> QED BY <2>1
<1>6. Len(SubSeq(s, 1, n)) = n
  BY <1>3, <1>4
<1> QED BY <1>1, <1>3, <1>5, <1>6

LEMMA FrontIs ==
    ASSUME NEW S, NEW s \in Seq(S), s # <<>>
    PROVE  /\ Front(s) \in Seq(S) /\ Len(Front(s)) = Len(s) - 1
           /\ \A k \in 1..Len(s) - 1 : k \in 1..Len(s) /\ Front(s)[k] = s[k]
<1> DEFINE n == Len(s) - 1
<1>1. n \in Nat /\ n <= Len(s)
  OBVIOUS
<1>2. Front(s) = SubSeq(s, 1, n)
  BY DEF Front
<1> HIDE DEF n
<1>3. Front(s) \in Seq(S) /\ Len(Front(s)) = n
  BY <1>1, <1>2, PrefixIs
<1>4. \A k \in 1..n : k \in 1..Len(s) /\ Front(s)[k] = s[k]
  BY <1>1, <1>2, PrefixIs
<1> QED BY <1>3, <1>4 DEF n

LEMMA LastTry ==
    ASSUME NEW ts, NEW n \in Nat, TriesIn(ts, n), ts # <<>>
    PROVE  Last(ts) \in Saved /\ Last(ts).scopes \in 1..n /\ TriesIn(Front(ts), Last(ts).scopes)
<1>1. ts \in Seq(Saved) /\ Len(ts) \in Nat /\ Len(ts) >= 1
  BY DEF TriesIn
<1>2. Last(ts) = ts[Len(ts)] /\ Len(ts) \in 1..Len(ts)
  BY <1>1 DEF Last
<1>3. Last(ts) \in Saved /\ Last(ts).scopes \in 1..n
  <2>1. ts[Len(ts)] \in Saved
    BY <1>1, <1>2
  <2>2. ts[Len(ts)].scopes \in 1..n
    BY <1>2 DEF TriesIn
  <2> QED BY <1>2, <2>1, <2>2
<1>4. /\ Front(ts) \in Seq(Saved) /\ Len(Front(ts)) = Len(ts) - 1
      /\ \A k \in 1..Len(ts) - 1 : k \in 1..Len(ts) /\ Front(ts)[k] = ts[k] /\ k <= Len(ts)
  BY <1>1, FrontIs
<1>5. \A k \in 1..Len(ts) : ts[k].scopes \in 1..n
  BY DEF TriesIn
<1>6. \A j \in 1..Len(ts) : \A k \in 1..Len(ts) : j <= k => ts[j].scopes <= ts[k].scopes
  BY DEF TriesIn
<1>7. ASSUME NEW k \in 1..Len(ts) - 1 PROVE Front(ts)[k].scopes \in 1..Last(ts).scopes
  <2>1. ts[k].scopes <= Last(ts).scopes /\ ts[k].scopes \in 1..n
    BY <1>2, <1>4, <1>5, <1>6
  <2> QED BY <1>3, <1>4, <2>1
<1>8. ASSUME NEW j \in 1..Len(ts) - 1, NEW k \in 1..Len(ts) - 1, j <= k
      PROVE  Front(ts)[j].scopes <= Front(ts)[k].scopes
  BY <1>4, <1>6, <1>8
<1> QED BY <1>3, <1>4, <1>7, <1>8 DEF TriesIn

LEMMA MoreScopes ==
    ASSUME NEW ts, NEW n \in Nat, NEW m \in Nat, n <= m, TriesIn(ts, n)
    PROVE  TriesIn(ts, m)
BY DEF TriesIn

LEMMA TryAdded ==
    ASSUME NEW ts, NEW n \in Nat, TriesIn(ts, n), NEW t \in Saved, t.scopes = n, n >= 1
    PROVE  TriesIn(Append(ts, t), n)
<1> DEFINE new == Append(ts, t)
           L == Len(ts)
<1>1. /\ ts \in Seq(Saved) /\ L \in Nat /\ new \in Seq(Saved) /\ Len(new) = L + 1
      /\ \A k \in 1..L : new[k] = ts[k]
      /\ new[L + 1] = t
  BY DEF TriesIn
<1> HIDE DEF new, L
<1>2. \A k \in 1..L : ts[k].scopes \in 1..n
  BY DEF TriesIn, L
<1>3. \A j \in 1..L : \A k \in 1..L : j <= k => ts[j].scopes <= ts[k].scopes
  BY DEF TriesIn, L
<1>4. ASSUME NEW k \in 1..L + 1 PROVE new[k].scopes \in 1..n /\ (k \in 1..L \/ k = L + 1)
  <2>1. CASE k \in 1..L
    BY <1>1, <1>2, <2>1
  <2>2. CASE k = L + 1
    BY <1>1, <2>2
  <2> QED BY <1>1, <2>1, <2>2
<1>5. ASSUME NEW j \in 1..L + 1, NEW k \in 1..L + 1, j <= k PROVE new[j].scopes <= new[k].scopes
  <2>1. CASE k \in 1..L
    <3>1. j \in 1..L
      BY <1>1, <1>5, <2>1
    <3> QED BY <1>1, <1>3, <1>5, <2>1, <3>1
  <2>2. CASE k = L + 1
    <3>1. new[k].scopes = n /\ new[j].scopes \in 1..n
      BY <1>1, <1>4, <2>2
    <3> QED BY <3>1
  <2> QED BY <1>4, <2>1, <2>2
<1> QED BY <1>1, <1>4, <1>5 DEF TriesIn, new

(* What leaving a loop by an error does to the variables. *)
LEMMA AfterErrorKeeps ==
    ASSUME NEW scs, NEW h, NEW count, Data(scs, h, count)
    PROVE  Data(scs, AfterError(scs, h), count)
<1> DEFINE g == AfterError(scs, h)
<1>1. h \in [DOMAIN h -> Variable] /\ \A a \in DOMAIN h : h[a].cached => ~h[a].null
  BY DEF Data, Placed
<1>2. /\ DOMAIN g = DOMAIN h /\ g = [a \in DOMAIN h |-> g[a]]
      /\ \A a \in DOMAIN h : g[a] = h[a] \/ g[a] = [h[a] EXCEPT !.ref = "left"]
  BY DEF AfterError
<1> HIDE DEF g
<1>3. ASSUME NEW a \in DOMAIN h
      PROVE  g[a] \in Variable /\ g[a].cached = h[a].cached /\ g[a].null = h[a].null
  <2>1. h[a] \in Variable
    BY <1>1
  <2>2. CASE g[a] = h[a]
    BY <2>1, <2>2
  <2>3. CASE g[a] = [h[a] EXCEPT !.ref = "left"]
    BY <2>1, <2>3 DEF Variable, Refs
  <2> QED BY <1>2, <2>2, <2>3
<1>4. g \in [DOMAIN h -> Variable]
  BY <1>2, <1>3
<1>5. \A a \in DOMAIN h : g[a].cached = h[a].cached /\ (g[a].cached => ~g[a].null)
  BY <1>1, <1>3
<1> QED BY <1>4, <1>5, SameFlags DEF g

(* The control part after scopes, calls and braces were cut to n. *)
LEMMA CallsCut ==
    ASSUME NEW cs, NEW bs, NEW m \in Nat, Calls(cs, bs, m), NEW n \in 1..m, NEW b \in BOOLEAN
    PROVE  Calls(SubSeq(cs, 1, n - 1), [SubSeq(bs, 1, n) EXCEPT ![n] = b], n)
<1>1. cs \in Seq(Ids) /\ bs \in Seq(BOOLEAN) /\ Len(cs) + 1 = m /\ Len(bs) = m /\ Len(cs) \in Nat
  BY DEF Calls
<1> DEFINE k == n - 1
           front == SubSeq(bs, 1, n)
           new == [front EXCEPT ![n] = b]
<1>2. k \in Nat /\ k <= Len(cs) /\ n \in Nat /\ n <= Len(bs) /\ k + 1 = n
  BY <1>1
<1> HIDE DEF k
<1>3. SubSeq(cs, 1, k) \in Seq(Ids) /\ Len(SubSeq(cs, 1, k)) = k
  BY <1>1, <1>2, PrefixIs
<1>4. front \in Seq(BOOLEAN) /\ Len(front) = n
  BY <1>1, <1>2, PrefixIs
<1> HIDE DEF front
<1>5. new \in Seq(BOOLEAN) /\ Len(new) = n
  BY <1>4
<1> QED BY <1>2, <1>3, <1>5 DEF Calls, k, front

LEMMA CatchKeeps ==
    ASSUME Constants, NEW scs, NEW h, NEW count \in 0..CacheSize, Data(scs, h, count),
           NEW m \in Nat, m <= Len(scs), Calls(calls, braces, m), TriesIn(tries, m),
           Catch(scs, h, count, 0)
    PROVE  /\ argCache' = argCache /\ argCount' \in 0..CacheSize
           /\ Data(scopes', heap', argCount')
           /\ Calls(calls', braces', Len(scopes')) /\ TriesIn(tries', Len(scopes'))
           /\ activeID' \in Ids
<1> DEFINE t == Last(tries)
           n == t.scopes
           g == AfterError(scs, h)
<1>1. /\ tries # <<>>
      /\ DeleteScopes(scs, n, g, count, 0)
      /\ calls' = SubSeq(calls, 1, n - 1)
      /\ braces' = [SubSeq(braces, 1, n) EXCEPT ![n] = t.brace]
      /\ activeID' = t.activeID
      /\ tries' = Front(tries)
  BY DEF Catch
<1>2. t \in Saved /\ n \in 1..m /\ TriesIn(Front(tries), n)
  BY <1>1, LastTry
<1>3. t.brace \in BOOLEAN /\ t.activeID \in Ids
  BY <1>2 DEF Saved
<1>4. Data(scs, g, count)
  BY AfterErrorKeeps
<1>5. CacheSize \in Nat /\ scs \in Seq(Seq(Lists)) /\ Len(scs) \in Nat
  <2>1. scs \in Seq(Seq(Lists))
    BY DEF Data, Placed
  <2> QED BY <2>1 DEF Constants
<1> HIDE DEF t, g, n
<1>6. n \in 1..Len(scs) /\ n \in Nat /\ n <= Len(scs)
  BY <1>2, <1>5
<1>7. /\ argCache' = argCache /\ scopes' = SubSeq(scs, 1, n)
      /\ argCount' \in 0..CacheSize /\ Data(scopes', heap', argCount')
  BY <1>1, <1>4, <1>5, <1>6, DeleteKeeps
<1>8. Len(scopes') = n
  BY <1>5, <1>6, <1>7, PrefixIs
<1>9. Calls(calls', braces', n)
  BY <1>1, <1>2, <1>3, CallsCut
<1>10. TriesIn(tries', n)
  BY <1>1, <1>2
<1>11. activeID' \in Ids
  BY <1>1, <1>3
<1> QED BY <1>7, <1>8, <1>9, <1>10, <1>11

-----------------------------------------------------------------------------
(* The instructions. *)

LEMMA VariablesThere ==
    ASSUME NEW h, NEW count, Data(scopes, h, count), NEW s \in 1..Len(scopes)
    PROVE  VarsOf(s) \subseteq Lists /\ VarsOf(s) \subseteq DOMAIN h
<1>1. /\ \A t \in 1..Len(scopes) : \A x \in 1..Len(scopes[t]) : scopes[t][x] \in DOMAIN h
      /\ DOMAIN h \subseteq Lists /\ scopes \in Seq(Seq(Lists))
  BY DEF Data, Placed
<1>2. scopes[s] \in Seq(Lists)
  BY <1>1
<1>3. VarsOf(s) = {scopes[s][x] : x \in 1..Len(scopes[s])}
  BY <1>2 DEF VarsOf, ToSet
<1> QED BY <1>1, <1>3

LEMMA LookupIn ==
    ASSUME IInv, NEW n, Lookup(n) # None, Lookup(n) # Attribute
    PROVE  Lookup(n) \in Lists /\ Lookup(n) \in DOMAIN heap
<1>1. Len(scopes) \in 1..Len(scopes) /\ 1 \in 1..Len(scopes)
  BY ScopesAre DEF IInv
<1>2. VarsOf(Active) \subseteq Lists \cap DOMAIN heap /\ VarsOf(1) \subseteq Lists \cap DOMAIN heap
  BY <1>1, VariablesThere DEF IInv, Active
<1>3. Lookup(n) \in Named(Active, n) \/ Lookup(n) \in Named(1, n)
  BY DEF Lookup
<1> QED BY <1>2, <1>3 DEF Named

LEMMA NewVariableIs ==
    ASSUME NEW n \in Names
    PROVE  NewVariable(n) \in Variable /\ ~NewVariable(n).cached
BY DEF NewVariable, Variable, Refs


LEMMA AddVariableKeeps ==
    ASSUME Constants, IInv, NEW a \in Unused, NEW v \in Variable, ~v.cached,
           scopes' = Added(scopes, a), heap' = With(heap, a, v)
    PROVE  Data(scopes', heap', argCount) /\ Len(scopes') = Len(scopes)
<1>1. a \in Lists \ DOMAIN heap /\ CacheSize \in Nat
  BY DEF Unused, Constants
<1>2. scopes # <<>> /\ scopes \in Seq(Seq(Lists)) /\ Data(scopes, heap, argCount)
  BY ScopesAre DEF IInv
<1>3. Data(Added(scopes, a), With(heap, a, v), argCount)
  BY <1>1, <1>2, VariableAdded
<1>4. Len(Added(scopes, a)) = Len(scopes)
  BY <1>1, <1>2, AddedAre
<1> QED BY <1>3, <1>4

LEMMA SpecialisedIn ==
    ASSUME Constants, IInv, NEW ins \in Entry, NEW a \in Lists, a \in DOMAIN heap, NEW inside
    PROVE  Specialised(ins, a, inside) \in Entry
<1>1. activeID \in Nat
  BY DEF IInv, Constants, Ids
<1>2. heap[a].kind \in {"none", "value", "pointer"}
  <2>1. heap \in [DOMAIN heap -> Variable]
    BY DEF IInv, Data, Placed
  <2>2. heap[a] \in Variable
    BY <2>1
  <2> QED BY <2>2 DEF Variable
<1>3. ASSUME ArgPosition(a) # {} PROVE (CHOOSE x \in ArgPosition(a) : TRUE) \in Nat
  BY <1>3 DEF ArgPosition
<1>4. CASE a \in VarsOf(1)
  BY <1>1, <1>4 DEF Specialised, Entry, Opcodes
<1>5. CASE a \notin VarsOf(1) /\ inside
  BY <1>1, <1>5 DEF Specialised, Entry, Opcodes
<1>6. CASE a \notin VarsOf(1) /\ ~inside /\ ~ins.tried /\ ArgPosition(a) # {}
  BY <1>2, <1>3, <1>6 DEF Specialised, Entry, Opcodes
<1>7. CASE /\ a \notin VarsOf(1)
           /\ ~inside
           /\ ~(~ins.tried /\ ArgPosition(a) # {})
  BY <1>7 DEF Specialised, Entry, Opcodes
<1> QED BY <1>4, <1>5, <1>6, <1>7

LEMMA LoadKeeps ==
    ASSUME Constants, IInv, NEW c \in [Instructions -> Entry], NEW i \in Instructions, NEW inside,
           LoadAddress(c, i, inside)
    PROVE  /\ Data(scopes', heap', argCount) /\ Len(scopes') = Len(scopes)
           /\ code' \in [Instructions -> Entry]
<1> DEFINE a == Lookup(i.name)
<1>1. CASE a = None
  <2>1. PICK b \in Unused : AddVariable(i.name, b)
    BY <1>1 DEF LoadAddress
  <2>2. code' = c
    BY <1>1 DEF LoadAddress
  <2>3. i.name \in Names
    BY DEF Names
  <2>4. scopes' = Added(scopes, b) /\ heap' = With(heap, b, NewVariable(i.name))
    BY <2>1 DEF AddVariable, Added, With, Active
  <2> QED BY <2>2, <2>3, <2>4, NewVariableIs, AddVariableKeeps
<1>2. CASE a # None
  <2>1. /\ code' = IF CanKeep(a) THEN [c EXCEPT ![i] = Specialised(@, a, inside)] ELSE c
        /\ scopes' = scopes /\ heap' = heap
    BY <1>2 DEF LoadAddress
  <2>2. Data(scopes', heap', argCount) /\ Len(scopes') = Len(scopes)
    BY <2>1 DEF IInv
  <2>3. CASE CanKeep(a)
    <3>1. a \in Lists /\ a \in DOMAIN heap
      BY <1>2, <2>3, LookupIn DEF CanKeep
    <3> HIDE DEF a
    <3>2. c[i] \in Entry
      OBVIOUS
    <3>3. Specialised(c[i], a, inside) \in Entry
      BY <3>1, <3>2, SpecialisedIn
    <3>4. code' = [c EXCEPT ![i] = Specialised(c[i], a, inside)]
      BY <2>1, <2>3
    <3> QED BY <2>2, <3>3, <3>4
  <2>4. CASE ~CanKeep(a)
    BY <2>1, <2>2, <2>4
  <2> QED BY <2>3, <2>4
<1> QED BY <1>1, <1>2

LEMMA IncJumpKeeps ==
    ASSUME Constants, IInv, NEW i \in Instructions, HasNumber(i.name), IncJump(i)
    PROVE  /\ Data(scopes', heap', argCount) /\ Len(scopes') = Len(scopes)
           /\ code' \in [Instructions -> Entry]
<1> DEFINE a == Lookup(i.name)
           op == IF a \in VarsOf(1) THEN "INCPJUMP" ELSE "INCLPJUMP"
           int == IF a \in VarsOf(1) THEN code[i].int ELSE activeID
<1>1. a \in Lists
  <2>1. Named(Active, i.name) # {}
    BY DEF HasNumber
  <2>2. a \in Named(Active, i.name)
    BY <2>1 DEF Lookup
  <2>3. Len(scopes) \in 1..Len(scopes)
    BY ScopesAre DEF IInv
  <2>4. VarsOf(Active) \subseteq Lists
    BY <2>3, VariablesThere DEF IInv, Active
  <2> QED BY <2>2, <2>4 DEF Named
<1>2. code \in [Instructions -> Entry] /\ activeID \in Nat
  BY DEF IInv, Constants, Ids
<1>3. /\ scopes' = scopes /\ heap' = heap
      /\ code' = [code EXCEPT ![i].op = op, ![i].int = int, ![i].var = a]
  BY <1>2 DEF IncJump, Entry
<1>4. op \in Opcodes /\ int \in Nat
  BY <1>2 DEF Opcodes, Entry
<1> HIDE DEF a, op, int
<1>5. code' \in [Instructions -> Entry]
  <2> DEFINE one == [code EXCEPT ![i].op = op]
             two == [one EXCEPT ![i].int = int]
  <2>1. code' = [two EXCEPT ![i].var = a]
    BY <1>3
  <2>2. one \in [Instructions -> Entry]
    BY <1>2, <1>4 DEF Entry
  <2> HIDE DEF one
  <2>3. two \in [Instructions -> Entry]
    BY <1>4, <2>2 DEF Entry
  <2> HIDE DEF two
  <2> QED BY <1>1, <2>1, <2>3 DEF Entry
<1> QED BY <1>3, <1>5 DEF IInv

-----------------------------------------------------------------------------
(* The actions. *)

LEMMA Stays ==
    ASSUME Data(scopes', heap', argCount'), argCache' = argCache, argCount' \in 0..CacheSize,
           Calls(calls', braces', Len(scopes')), TriesIn(tries', Len(scopes')),
           scopeID' \in Ids, activeID' \in Ids, code' \in [Instructions -> Entry]
    PROVE  IInv'
<1>1. Data(scopes, heap, argCount)'
  BY DataStays
<1>2. Calls(calls, braces, Len(scopes))' /\ TriesIn(tries, Len(scopes))'
  BY DEF Calls, TriesIn, Ids, Saved
<1>3. /\ scopeID' \in Ids' /\ activeID' \in Ids' /\ code' \in [Instructions -> Entry]'
      /\ (argCount \in 0..CacheSize)'
  BY DEF Ids, Entry, Opcodes
<1> QED BY <1>1, <1>2, <1>3 DEF IInv

LEMMA VariablesOnly ==
    ASSUME IInv, Data(scopes', heap', argCount), Len(scopes') = Len(scopes),
           UNCHANGED <<argCache, argCount, scopeID, activeID, calls, braces, tries>>,
           code' \in [Instructions -> Entry]
    PROVE  IInv'
BY Stays DEF IInv

LEMMA ExecuteKeeps ==
    ASSUME Constants, IInv, NEW i \in Running, NEW inside, Execute(i, inside)
    PROVE  IInv'
<1> DEFINE Good == /\ Data(scopes', heap', argCount) /\ Len(scopes') = Len(scopes)
                   /\ code' \in [Instructions -> Entry]
<1>1. i \in Instructions /\ code \in [Instructions -> Entry] /\ Data(scopes, heap, argCount)
  BY DEF Running, IInv
<1>2. ASSUME UNCHANGED <<scopes, heap, code>> PROVE Good
  BY <1>1, <1>2
<1>3. CASE code[i].op = "LOADADDRESS" /\ LoadAddress(code, i, inside)
  <2>1. Good
    BY <1>1, <1>3, LoadKeeps
  <2> QED BY <2>1, VariablesOnly DEF Execute
<1>4. CASE PushVarPtr(i, inside)
  <2> DEFINE one == [code EXCEPT ![i].op = "LOADADDRESS"]
             c == [one EXCEPT ![i].var = None]
  <2>1. one \in [Instructions -> Entry]
    BY <1>1 DEF Entry, Opcodes
  <2>2. c = [code EXCEPT ![i].op = "LOADADDRESS", ![i].var = None]
    OBVIOUS
  <2> HIDE DEF one
  <2>3. c \in [Instructions -> Entry]
    BY <2>1 DEF Entry
  <2>4. CASE PushKept(i, code[i].var)
    <3>1. Good
      BY <1>2, <2>4 DEF PushKept
    <3> QED BY <3>1, VariablesOnly DEF Execute
  <2>5. CASE LoadAddress(c, i, inside)
    <3> HIDE DEF c
    <3>1. Good
      BY <1>1, <2>3, <2>5, LoadKeeps
    <3> QED BY <3>1, VariablesOnly DEF Execute
  <2> HIDE DEF c
  <2> QED BY <1>4, <2>2, <2>4, <2>5 DEF PushVarPtr
<1>5. CASE PushArg(i, inside)
  <2> DEFINE one == [code EXCEPT ![i].op = "LOADADDRESS"]
             c == [one EXCEPT ![i].tried = FALSE]
             a == scopes[Active][code[i].int]
  <2>1. one \in [Instructions -> Entry]
    BY <1>1 DEF Entry, Opcodes
  <2>2. c = [code EXCEPT ![i].op = "LOADADDRESS", ![i].tried = FALSE]
    OBVIOUS
  <2> HIDE DEF one
  <2>3. c \in [Instructions -> Entry]
    BY <2>1 DEF Entry
  <2>4. CASE PushKept(i, a)
    <3>1. Good
      BY <1>2, <2>4 DEF PushKept
    <3> QED BY <3>1, VariablesOnly DEF Execute
  <2>5. CASE LoadAddress(c, i, inside)
    <3> HIDE DEF c
    <3>1. Good
      BY <1>1, <2>3, <2>5, LoadKeeps
    <3> QED BY <3>1, VariablesOnly DEF Execute
  <2> HIDE DEF c
  <2> QED BY <1>5, <2>2, <2>4, <2>5 DEF PushArg
<1>6. CASE Increment(i)
  <2>1. CASE IncJump(i)
    <3>1. Good
      BY <1>1, <1>6, <2>1, IncJumpKeeps DEF Increment
    <3> QED BY <3>1, VariablesOnly DEF Execute
  <2>2. CASE PushKept(i, code[i].var)
    <3>1. Good
      BY <1>2, <2>2 DEF PushKept
    <3> QED BY <3>1, VariablesOnly DEF Execute
  <2> QED BY <1>6, <2>1, <2>2 DEF Increment
<1> QED BY <1>3, <1>4, <1>5, <1>6 DEF Execute

LEMMA AssignKeeps == ASSUME Constants, IInv, Assign PROVE IInv'
<1> DEFINE a == pushed.var
<1>1. a \in DOMAIN heap /\ heap' = [heap EXCEPT ![a].null = FALSE] /\ scopes' = scopes /\ code' = code
  BY DEF Assign
<1>2. heap \in [DOMAIN heap -> Variable] /\ Data(scopes, heap, argCount)
      /\ \A b \in DOMAIN heap : heap[b].cached => ~heap[b].null
  BY DEF IInv, Data, Placed
<1> HIDE DEF a
<1>3. heap[a] \in Variable
  BY <1>1, <1>2
<1>4. heap' \in [DOMAIN heap -> Variable]
  BY <1>1, <1>2 DEF Variable
<1>5. \A b \in DOMAIN heap : heap'[b].cached = heap[b].cached /\ (heap'[b].cached => ~heap'[b].null)
  BY <1>1, <1>2, <1>3 DEF Variable
<1>6. Data(scopes', heap', argCount)
  BY <1>1, <1>2, <1>4, <1>5, SameFlags
<1> QED BY <1>1, <1>6, VariablesOnly DEF Assign, IInv

LEMMA EndForInKeeps == ASSUME Constants, IInv, NEW n, EndForIn(n) PROVE IInv'
<1>1. PICK a \in Named(Active, n) : heap' = [heap EXCEPT ![a].ref = "no"]
  BY DEF EndForIn
<1>2. heap \in [DOMAIN heap -> Variable] /\ Data(scopes, heap, argCount)
      /\ \A b \in DOMAIN heap : heap[b].cached => ~heap[b].null
  BY DEF IInv, Data, Placed
<1>3. heap' \in [DOMAIN heap -> Variable]
  BY <1>1, <1>2 DEF Variable, Refs
<1>4. \A b \in DOMAIN heap : heap'[b].cached = heap[b].cached /\ (heap'[b].cached => ~heap'[b].null)
  BY <1>1, <1>2 DEF Variable
<1>5. Data(scopes', heap', argCount)
  BY <1>2, <1>3, <1>4, SameFlags DEF EndForIn
<1> QED BY <1>5, VariablesOnly DEF EndForIn, IInv

LEMMA StartLoopKeeps ==
    ASSUME Constants, IInv, NEW i \in Running, NEW in \in BOOLEAN, StartLoop(i.name, in)
    PROVE  IInv'
<1> DEFINE n == i.name
           ref == IF in THEN "loop" ELSE "no"
           Started(v) == [v EXCEPT !.ref = ref, !.null = FALSE]
<1>1. n \in Names /\ ref \in Refs
  BY DEF Running, Names, Refs
<1>2. heap \in [DOMAIN heap -> Variable] /\ Data(scopes, heap, argCount)
      /\ \A b \in DOMAIN heap : heap[b].cached => ~heap[b].null
  BY DEF IInv, Data, Placed
<1>3. /\ code' = code
      /\ UNCHANGED <<argCache, argCount, scopeID, activeID, calls, braces, tries>>
  BY DEF StartLoop
<1>4. ASSUME NEW v \in Variable
      PROVE  Started(v) \in Variable /\ Started(v).cached = v.cached /\ ~Started(v).null
  BY <1>1 DEF Variable
<1>5. CASE Named(Active, n) # {}
  <2>1. PICK a \in Named(Active, n) : heap' = [heap EXCEPT ![a] = Started(@)] /\ scopes' = scopes
    BY <1>5 DEF StartLoop
  <2>2. heap' = [heap EXCEPT ![a] = Started(heap[a])]
    BY <2>1
  <2> HIDE DEF Started
  <2>3. ASSUME NEW b \in DOMAIN heap
        PROVE  /\ heap'[b] \in Variable /\ heap'[b].cached = heap[b].cached
               /\ heap'[b].cached => ~heap'[b].null
    BY <1>2, <1>4, <2>2
  <2>4. heap' \in [DOMAIN heap -> Variable]
    BY <1>2, <2>2, <2>3
  <2>5. Data(scopes', heap', argCount)
    BY <1>2, <2>1, <2>3, <2>4, SameFlags
  <2> QED BY <1>3, <2>1, <2>5, VariablesOnly DEF IInv
<1>6. CASE Named(Active, n) = {}
  <2>1. PICK a \in Unused :
            /\ scopes' = [scopes EXCEPT ![Active] = Append(@, a)]
            /\ heap' = [b \in DOMAIN heap \cup {a} |-> IF b = a THEN Started(NewVariable(n)) ELSE heap[b]]
    BY <1>6 DEF StartLoop
  <2> DEFINE v == Started(NewVariable(n))
  <2>2. scopes' = Added(scopes, a) /\ heap' = With(heap, a, v)
    BY <2>1 DEF Added, With, Active
  <2>3. NewVariable(n) \in Variable /\ ~NewVariable(n).cached
    BY <1>1, NewVariableIs
  <2> HIDE DEF Started
  <2>4. v \in Variable /\ ~v.cached
    BY <1>4, <2>3
  <2> HIDE DEF v
  <2>5. Data(scopes', heap', argCount) /\ Len(scopes') = Len(scopes)
    BY <2>2, <2>4, AddVariableKeeps
  <2> QED BY <1>3, <2>5, VariablesOnly DEF IInv
<1> QED BY <1>5, <1>6

(* What a try block saves. *)
LEMMA TryKeeps == ASSUME Constants, IInv, Try PROVE IInv'
<1> DEFINE t == [scopes |-> Active, activeID |-> activeID, brace |-> braces[Active], loops |-> Loops]
           n == Len(scopes)
<1>1. n \in Nat /\ n >= 1 /\ n \in 1..n /\ braces \in Seq(BOOLEAN) /\ Len(braces) = n
  BY ScopesAre DEF IInv
<1>2. braces[n] \in BOOLEAN
  BY <1>1
<1>3. VarsOf(n) \subseteq Lists
  BY <1>1, VariablesThere DEF IInv
<1>4. Loops \in SUBSET Lists
  BY <1>3 DEF Loops, Active
<1>5. t \in Saved /\ t.scopes = n
  BY <1>1, <1>2, <1>4 DEF Saved, Active, IInv
<1>6. tries' = Append(tries, t)
  BY DEF Try
<1> HIDE DEF t, n
<1>7. TriesIn(tries, n)
  BY DEF IInv, n
<1>8. TriesIn(tries', n)
  BY <1>1, <1>5, <1>6, <1>7, TryAdded
<1>9. UNCHANGED <<scopes, heap, argCache, argCount, scopeID, activeID, calls, braces, code>>
  BY DEF Try
<1> QED BY <1>8, <1>9, Stays DEF IInv, n

LEMMA DoneKeeps == ASSUME Constants, IInv, Done PROVE IInv'
<1>1. /\ tries # <<>> /\ tries' = Front(tries) /\ Last(tries).scopes = Len(scopes)
      /\ UNCHANGED <<scopes, heap, argCache, argCount, scopeID, activeID, calls, braces, code>>
  BY DEF Done, InThisScope, Active
<1>2. Len(scopes) \in Nat /\ TriesIn(tries, Len(scopes))
  BY ScopesAre DEF IInv
<1>3. TriesIn(tries', Len(scopes))
  BY <1>1, <1>2, LastTry
<1> QED BY <1>1, <1>3, Stays DEF IInv

LEMMA CatchInv ==
    ASSUME Constants, IInv, NEW scs, NEW h, NEW count \in 0..CacheSize, Data(scs, h, count),
           Len(scopes) <= Len(scs), Catch(scs, h, count, 0),
           scopeID' \in Ids, code' \in [Instructions -> Entry]
    PROVE  IInv'
<1>1. Len(scopes) \in Nat
  BY ScopesAre DEF IInv
<1>2. Calls(calls, braces, Len(scopes)) /\ TriesIn(tries, Len(scopes))
  BY DEF IInv
<1>3. /\ argCache' = argCache /\ argCount' \in 0..CacheSize
      /\ Data(scopes', heap', argCount')
      /\ Calls(calls', braces', Len(scopes')) /\ TriesIn(tries', Len(scopes'))
      /\ activeID' \in Ids
  BY <1>1, <1>2, CatchKeeps
<1> QED BY <1>3, Stays

LEMMA RaiseKeeps ==
    ASSUME Constants, IInv, Harmless, NEW region \in BOOLEAN, Raise(region)
    PROVE  IInv'
<1>1. ~region
  BY DEF Raise, Harmless
<1>2. Catch(scopes, heap, argCount, 0) /\ scopeID' = scopeID /\ code' = code
  BY <1>1 DEF Raise
<1>3. Len(scopes) <= Len(scopes)
  BY ScopesAre DEF IInv
<1> QED BY <1>2, <1>3, CatchInv DEF IInv

LEMMA ReadNullKeeps == ASSUME Constants, IInv, ReadNull PROVE IInv'
<1> DEFINE a == pushed.var
           last == scopes[Active] # <<>> /\ Last(scopes[Active]) = a
           rest == [scopes EXCEPT ![Active] = Front(@)]
           g == [b \in DOMAIN heap \ {a} |-> heap[b]]
<1>1. /\ a \in DOMAIN heap /\ heap[a].null
      /\ last => Catch(rest, g, argCount, 0)
      /\ ~last => Catch(scopes, heap, argCount, 0)
      /\ scopeID' = scopeID /\ code' = code
  BY DEF ReadNull
<1>2. Len(scopes) <= Len(scopes) /\ scopes # <<>> /\ CacheSize \in Nat
  BY ScopesAre DEF IInv, Constants
<1>3. ~heap[a].cached
  BY <1>1 DEF IInv, Data, Placed
<1>4. CASE last
  <2>1. /\ scopes[Len(scopes)] # <<>> /\ Last(scopes[Len(scopes)]) = a
        /\ rest = Cut(scopes) /\ g = Without(heap, a)
    BY <1>4 DEF Cut, Without, Active
  <2> HIDE DEF rest, g, a, last
  <2>2. Data(rest, g, argCount) /\ Len(rest) = Len(scopes)
    BY <1>2, <1>3, <2>1, VariableDropped DEF IInv
  <2> QED BY <1>1, <1>2, <1>4, <2>2, CatchInv DEF IInv
<1>5. CASE ~last
  BY <1>1, <1>2, <1>5, CatchInv DEF IInv
<1> QED BY <1>4, <1>5

LEMMA BracesKeep == ASSUME Constants, IInv, OpenBraces \/ CloseBraces PROVE IInv'
<1>1. /\ \E b \in BOOLEAN : braces' = [braces EXCEPT ![Active] = b]
      /\ UNCHANGED <<scopes, heap, argCache, argCount, scopeID, activeID, calls, tries, code>>
  BY DEF OpenBraces, CloseBraces
<1>2. Calls(calls, braces', Len(scopes))
  <2>1. braces \in Seq(BOOLEAN) /\ Len(braces) = Len(scopes)
    BY ScopesAre DEF IInv
  <2>2. braces' \in Seq(BOOLEAN) /\ Len(braces') = Len(braces)
    <3>1. PICK b \in BOOLEAN : braces' = [braces EXCEPT ![Active] = b]
      BY <1>1
    <3> DEFINE n == Len(braces)
    <3>2. n \in Nat /\ braces \in [1..n -> BOOLEAN]
      BY <2>1
    <3> HIDE DEF n
    <3>3. braces' \in [1..n -> BOOLEAN]
      BY <3>1, <3>2
    <3>4. braces' \in Seq(BOOLEAN) /\ Len(braces') = n
      BY <3>2, <3>3
    <3> QED BY <3>4 DEF n
  <2>3. Calls(calls, braces, Len(scopes))
    BY DEF IInv
  <2> QED BY <2>1, <2>2, <2>3 DEF Calls
<1> QED BY <1>1, <1>2, Stays DEF IInv

LEMMA NewScopeIs ==
    ASSUME Constants, IInv, NewScope
    PROVE  scopeID' \in Ids /\ NextID \in Ids /\ code' \in [Instructions -> Entry]
<1>1. scopeID \in Nat /\ IdLimit \in Nat /\ IdLimit > 0 /\ code \in [Instructions -> Entry]
  BY DEF IInv, Constants, Ids
<1>2. NextID \in Ids
  BY <1>1 DEF NextID, Ids
<1>3. AfterOverflow(code) \in [Instructions -> Entry]
  <2>1. ASSUME NEW i \in Instructions PROVE AfterOverflow(code)[i] \in Entry
    <3>1. code[i] \in Entry
      BY <1>1
    <3>2. /\ [code[i] EXCEPT !.op = "LOADADDRESS", !.var = None] \in Entry
          /\ [code[i] EXCEPT !.op = "INCJUMP"] \in Entry
      BY <3>1 DEF Entry, Opcodes
    <3>3. \/ AfterOverflow(code)[i] = [code[i] EXCEPT !.op = "LOADADDRESS", !.var = None]
          \/ AfterOverflow(code)[i] = [code[i] EXCEPT !.op = "INCJUMP"]
          \/ AfterOverflow(code)[i] = code[i]
      BY DEF AfterOverflow
    <3> QED BY <3>1, <3>2, <3>3
  <2>2. AfterOverflow(code) = [i \in Instructions |-> AfterOverflow(code)[i]]
    BY DEF AfterOverflow
  <2> QED BY <2>1, <2>2
<1> QED BY <1>1, <1>2, <1>3 DEF NewScope

LEMMA CallKeeps == ASSUME Constants, IInv, NEW kinds \in Kinds, Call(kinds) PROVE IInv'
<1> DEFINE n == Len(Params)
<1>1. PICK fresh \in Fresh(n) : /\ scopes' = Append(scopes, ArgLists(n, fresh))
                                /\ heap' = WithArgs(ArgLists(n, fresh), kinds)
  BY DEF Call
<1>2. /\ argCount' = Left(n) /\ activeID' = NextID /\ NewScope
      /\ calls' = Append(calls, activeID) /\ braces' = Append(braces, FALSE)
      /\ argCache' = argCache /\ tries' = tries
  BY DEF Call
<1>3. n \in 0..n /\ kinds \in [1..n -> {"value", "pointer"}]
  BY DEF Constants, Kinds
<1>4. Left(n) \in 0..CacheSize /\ Data(scopes', heap', Left(n))
  <2> HIDE DEF n
  <2>1. Data(scopes, heap, argCount) /\ argCount \in 0..CacheSize
    BY DEF IInv
  <2> QED BY <1>1, <1>3, <2>1, ScopeAdded DEF Constants, n
<1>5. /\ scopes \in Seq(Seq(Lists)) /\ Len(scopes) \in Nat
      /\ calls \in Seq(Ids) /\ Len(calls) = Len(scopes) - 1
      /\ braces \in Seq(BOOLEAN) /\ Len(braces) = Len(scopes) /\ activeID \in Ids
  BY ScopesAre DEF IInv
<1>6. Len(scopes') = Len(scopes) + 1
  BY <1>1, <1>5
<1>7. Calls(calls', braces', Len(scopes'))
  BY <1>2, <1>5, <1>6 DEF Calls
<1>8. TriesIn(tries', Len(scopes'))
  <2>1. TriesIn(tries, Len(scopes)) /\ Len(scopes) <= Len(scopes) + 1 /\ Len(scopes) + 1 \in Nat
    BY <1>5 DEF IInv
  <2> QED BY <1>2, <1>5, <1>6, <2>1, MoreScopes
<1>9. scopeID' \in Ids /\ activeID' \in Ids /\ code' \in [Instructions -> Entry]
  BY <1>2, NewScopeIs
<1> QED BY <1>2, <1>4, <1>7, <1>8, <1>9, Stays

LEMMA CallFailsKeeps == ASSUME Constants, IInv, NEW n \in 0..Len(Params), CallFails(n) PROVE IInv'
<1> DEFINE kinds == [x \in 1..n |-> "value"]
<1>1. PICK fresh \in Fresh(n) :
          Catch(Append(scopes, ArgLists(n, fresh)), WithArgs(ArgLists(n, fresh), kinds), Left(n), 0)
  BY DEF CallFails
<1>2. NewScope
  BY DEF CallFails
<1>3. kinds \in [1..n -> {"value", "pointer"}]
  OBVIOUS
<1> DEFINE scs == Append(scopes, ArgLists(n, fresh))
           h == WithArgs(ArgLists(n, fresh), kinds)
<1> HIDE DEF kinds
<1>4. Left(n) \in 0..CacheSize /\ Data(scs, h, Left(n))
  <2>1. Data(scopes, heap, argCount) /\ argCount \in 0..CacheSize
    BY DEF IInv
  <2> QED BY <1>3, <2>1, ScopeAdded DEF Constants
<1>5. Len(scopes) <= Len(scs)
  <2>1. scopes \in Seq(Seq(Lists)) /\ Len(scopes) \in Nat
    BY ScopesAre DEF IInv
  <2>2. Len(scs) = Len(scopes) + 1
    BY <2>1
  <2> QED BY <2>1, <2>2
<1>6. scopeID' \in Ids /\ code' \in [Instructions -> Entry]
  BY <1>2, NewScopeIs
<1>7. Catch(scs, h, Left(n), 0)
  BY <1>1
<1> HIDE DEF scs, h
<1> QED BY <1>4, <1>5, <1>6, <1>7, CatchInv

(* Only tries of the callers' scopes are left when a function returns. *)
LEMMA ReturnKeeps ==
    ASSUME Constants, IInv, Harmless, NEW swapped, Return(swapped)
    PROVE  IInv'
<1> DEFINE n == Len(scopes) - 1
           h == [a \in DOMAIN heap |-> IF a \in swapped THEN [heap[a] EXCEPT !.cached = FALSE] ELSE heap[a]]
<1>1. /\ calls # <<>> /\ \A k \in DOMAIN tries : tries[k].scopes # Len(scopes)
      /\ swapped = {} /\ DeleteScopes(scopes, n, h, argCount, 0)
      /\ activeID' = Last(calls) /\ calls' = Front(calls) /\ braces' = Front(braces)
      /\ scopeID' = scopeID /\ tries' = tries /\ code' = code
  BY DEF Return, Harmless, InFunction, InThisScope, Active
<1>2. h = heap
  <2>1. heap = [a \in DOMAIN heap |-> heap[a]]
    BY DEF IInv, Data, Placed
  <2> QED BY <1>1, <2>1
<1>3. /\ scopes \in Seq(Seq(Lists)) /\ Len(scopes) \in Nat
      /\ calls \in Seq(Ids) /\ Len(calls) = n
      /\ braces \in Seq(BOOLEAN) /\ Len(braces) = Len(scopes)
  BY ScopesAre DEF IInv
<1>4. n \in 1..Len(scopes) /\ n \in Nat /\ n + 1 = Len(scopes) /\ n >= 1 /\ n <= Len(scopes)
  BY <1>1, <1>3
<1> HIDE DEF n, h
<1>5. /\ argCache' = argCache /\ scopes' = SubSeq(scopes, 1, n)
      /\ argCount' \in 0..CacheSize /\ Data(scopes', heap', argCount')
  <2>1. Data(scopes, heap, argCount) /\ argCount \in 0..CacheSize /\ CacheSize \in Nat
    BY DEF IInv, Constants
  <2> QED BY <1>1, <1>2, <1>4, <2>1, DeleteKeeps
<1>6. Len(scopes') = n
  BY <1>3, <1>4, <1>5, PrefixIs
<1>7. Last(calls) \in Ids
  BY <1>1, <1>3, <1>4 DEF Last
<1>8. Calls(calls', braces', n)
  <2>1. Front(calls) \in Seq(Ids) /\ Len(Front(calls)) = n - 1
    BY <1>1, <1>3, FrontIs
  <2>2. braces # <<>>
    BY <1>3, <1>4
  <2>3. Front(braces) \in Seq(BOOLEAN) /\ Len(Front(braces)) = n
    BY <1>3, <1>4, <2>2, FrontIs
  <2> QED BY <1>1, <1>4, <2>1, <2>3 DEF Calls
<1>9. TriesIn(tries, n)
  <2>1. TriesIn(tries, Len(scopes))
    BY DEF IInv
  <2>2. DOMAIN tries = 1..Len(tries)
    BY <2>1 DEF TriesIn
  <2>3. ASSUME NEW k \in 1..Len(tries) PROVE tries[k].scopes \in 1..n
    <3>1. tries[k].scopes \in 1..Len(scopes) /\ tries[k].scopes # Len(scopes)
      BY <1>1, <2>1, <2>2 DEF TriesIn
    <3> QED BY <1>4, <3>1
  <2> QED BY <2>1, <2>3 DEF TriesIn
<1>10. scopeID' \in Ids /\ activeID' \in Ids /\ code' \in [Instructions -> Entry]
  BY <1>1, <1>7 DEF IInv
<1> QED BY <1>1, <1>5, <1>6, <1>8, <1>9, <1>10, Stays

-----------------------------------------------------------------------------
(* The invariant is one. *)

LEMMA Starts == ASSUME Constants, Init PROVE IInv
<1>1. CacheSize \in Nat /\ IdLimit \in Nat /\ IdLimit > 0
  BY DEF Constants
<1>2. /\ scopes = << <<>> >> /\ argCache \in [1..CacheSize -> Lists] /\ IsInjective(argCache)
      /\ heap = [a \in ToSet(argCache) |-> CachedArg] /\ argCount = CacheSize
      /\ scopeID = 0 /\ activeID = 0 /\ calls = <<>> /\ tries = <<>> /\ braces = <<FALSE>>
  BY DEF Init
<1>3. /\ scopes \in Seq(Seq(Lists)) /\ Len(scopes) = 1 /\ Len(scopes[1]) = 0
      /\ \A s \in 1..Len(scopes) : s = 1
  BY <1>2
<1>4. ToSet(argCache) \subseteq Lists /\ \A k \in 1..CacheSize : argCache[k] \in ToSet(argCache)
  BY <1>2 DEF ToSet
<1>5. CachedArg \in Variable /\ CachedArg.cached /\ ~CachedArg.null
  BY DEF CachedArg, Variable, Refs
<1>6. Placed(scopes, heap)
  BY <1>2, <1>3, <1>4, <1>5 DEF Placed
<1>7. Slots(heap)
  BY <1>2, <1>4, <1>5 DEF Slots
<1>8. Taken(scopes, heap, argCount, [s \in 1..2 |-> CacheSize])
  <2> DEFINE top == [s \in 1..2 |-> CacheSize]
  <2>1. top \in [1..1 + 1 -> 0..CacheSize] /\ top[1] = CacheSize /\ top[1 + 1] = CacheSize
    BY <1>1
  <2> HIDE DEF top
  <2>2. top[1] - top[1 + 1] = 0
    BY <1>1, <2>1
  <2> QED BY <1>1, <1>2, <1>3, <2>1, <2>2 DEF Taken, top
<1>9. Data(scopes, heap, argCount)
  BY <1>6, <1>7, <1>8 DEF Data
<1>10. Calls(calls, braces, Len(scopes))
  BY <1>2, <1>3 DEF Calls
<1>11. TriesIn(tries, Len(scopes))
  BY <1>2, <1>3 DEF TriesIn
<1>12. code \in [Instructions -> Entry]
  <2>1. code = [i \in Instructions |->
                  [op |-> FirstOpcode(i), int |-> 0, var |-> None, kind |-> "none", tried |-> FALSE]]
    BY DEF Init
  <2>2. \A i \in Instructions : FirstOpcode(i) \in Opcodes
    BY DEF FirstOpcode, Opcodes
  <2> QED BY <2>1, <2>2 DEF Entry
<1> QED BY <1>1, <1>2, <1>9, <1>10, <1>11, <1>12 DEF IInv, Ids

LEMMA Steps == ASSUME Constants, Harmless, IInv, [Next]_vars PROVE IInv'
<1>1. CASE \E i \in Running, inside \in BOOLEAN : Execute(i, inside)
  BY <1>1, ExecuteKeeps
<1>2. CASE Try
  BY <1>2, TryKeeps
<1>3. CASE Done
  BY <1>3, DoneKeeps
<1>4. CASE \E region \in BOOLEAN : Raise(region)
  BY <1>4, RaiseKeeps
<1>5. CASE \E kinds \in Kinds : Call(kinds)
  BY <1>5, CallKeeps
<1>6. CASE \E n \in 0..Len(Params) : CallFails(n)
  BY <1>6, CallFailsKeeps
<1>7. CASE \E swapped \in {{}} \cup {{a} : a \in CachedArgs} : Return(swapped)
  BY <1>7, ReturnKeeps
<1>8. CASE Assign
  BY <1>8, AssignKeeps
<1>9. CASE ReadNull
  BY <1>9, ReadNullKeeps
<1>10. CASE \E i \in Running, in \in BOOLEAN : StartLoop(i.name, in)
  BY <1>10, StartLoopKeeps
<1>11. CASE \E i \in Running : EndForIn(i.name)
  BY <1>11, EndForInKeeps
<1>12. CASE OpenBraces \/ CloseBraces
  BY <1>12, BracesKeep
<1>13. CASE UNCHANGED vars
  <2>1. UNCHANGED <<scopes, heap, code, argCache, argCount, scopeID, activeID, calls, braces, tries>>
    BY <1>13 DEF vars
  <2> QED BY <2>1, VariablesOnly DEF IInv
<1> QED BY <1>1, <1>2, <1>3, <1>4, <1>5, <1>6, <1>7, <1>8, <1>9, <1>10, <1>11, <1>12, <1>13, Zenon
        DEF Next

LEMMA Invariant == ASSUME Harmless PROVE Spec => []IInv
<1>1. Init => IInv
  BY ConstantsHold, Starts
<1>2. IInv /\ [Next]_vars => IInv'
  BY ConstantsHold, Steps
<1> QED BY <1>1, <1>2, PTL DEF Spec

-----------------------------------------------------------------------------
(* What it says. *)

(* The slots from lo + 1 to hi hold as many lists. *)
LEMMA SlotsCounted ==
    ASSUME CacheSize \in Nat, Slots(heap), NEW lo \in Nat, NEW hi \in 0..CacheSize, lo <= hi
    PROVE  Cardinality({argCache[k] : k \in lo + 1 .. hi}) = hi - lo
<1> DEFINE P == {argCache[k] : k \in lo + 1 .. hi}
           slot == [a \in P |-> CHOOSE k \in lo + 1 .. hi : argCache[k] = a]
<1>1. \A k \in lo + 1 .. hi : k \in 1..CacheSize
  OBVIOUS
<1>2. \A a \in P : slot[a] \in lo + 1 .. hi /\ argCache[slot[a]] = a
  OBVIOUS
<1>3. \A k \in lo + 1 .. hi : argCache[k] \in P
  OBVIOUS
<1> HIDE DEF slot, P
<1>4. ASSUME NEW k \in lo + 1 .. hi PROVE slot[argCache[k]] = k
  <2>1. slot[argCache[k]] \in lo + 1 .. hi /\ argCache[slot[argCache[k]]] = argCache[k]
    BY <1>2, <1>3
  <2>2. argCache \in [1..CacheSize -> Lists] /\ IsInjective(argCache)
    BY DEF Slots
  <2> QED BY <1>1, <2>1, <2>2 DEF IsInjective
<1>5. Numbered(P, slot, lo, hi)
  BY <1>2, <1>3, <1>4 DEF Numbered
<1>6. hi \in Nat
  OBVIOUS
<1>7. Cardinality(P) = hi - lo
  BY <1>5, <1>6, CountedBy
<1> QED BY <1>7 DEF P

(* The cached arguments in scopes are what the slots above the count hold. *)
LEMMA UsedAre ==
    ASSUME Constants, IInv
    PROVE  {a \in VarsAfter(scopes, 0) : heap[a].cached}
               = {argCache[k] : k \in argCount + 1 .. CacheSize}
<1> DEFINE P == CachedPlaces(scopes, 0, heap, 0)
<1>1. PICK top : Taken(scopes, heap, argCount, top)
  BY DEF IInv, Data
<1>2. Placed(scopes, heap) /\ argCount \in 0..CacheSize /\ CacheSize \in Nat
      /\ 0 \in 0..Len(scopes) /\ Len(scopes) \in Nat
  BY ScopesAre DEF IInv, Data, Constants
<1>3. top[0 + 1] = CacheSize
  BY <1>1 DEF Taken
<1> DEFINE slot == SlotOf(scopes, top, P)
<1>4. /\ \A p \in P : slot[p] \in argCount + 1 .. top[0 + 1] /\ At(scopes, p) = argCache[slot[p]]
      /\ \A k \in argCount + 1 .. top[0 + 1] : \E p \in P : slot[p] = k
  BY <1>1, <1>2, SlotsOfPlaces
<1> HIDE DEF slot
<1>5. {At(scopes, p) : p \in P} = {argCache[k] : k \in argCount + 1 .. CacheSize}
  BY <1>3, <1>4
<1>6. \A p \in Places(scopes) : p[1] \in 0 + 1 .. Len(scopes) - 0 /\ p[1] > 0
  <2>1. \A p \in Places(scopes) : p[1] \in 1..Len(scopes)
    BY <1>2, PlacesAre DEF Placed
  <2> QED BY <1>2, <2>1
<1>7. P = {p \in Places(scopes) : heap[At(scopes, p)].cached}
  BY <1>6 DEF CachedPlaces
<1>8. VarsAfter(scopes, 0) = {At(scopes, p) : p \in Places(scopes)}
  BY <1>6 DEF VarsAfter
<1> HIDE DEF P
<1> QED BY <1>5, <1>7, <1>8

LEMMA CacheIsExact == ASSUME Constants, IInv PROVE CacheExact
<1> DEFINE free == {argCache[k] : k \in 1..argCount}
           used == {a \in VarsAfter(scopes, 0) : heap[a].cached}
<1>1. CacheSize \in Nat /\ argCount \in 0..CacheSize /\ Slots(heap) /\ Data(scopes, heap, argCount)
  BY DEF Constants, IInv, Data
<1>2. Cardinality(free) = argCount
  <2>1. 0 \in Nat /\ argCount \in 0..CacheSize /\ 0 <= argCount /\ 0 + 1 = 1 /\ argCount - 0 = argCount
    BY <1>1
  <2>2. Cardinality({argCache[k] : k \in 0 + 1 .. argCount}) = argCount - 0
    BY <1>1, <2>1, SlotsCounted
  <2> QED BY <2>1, <2>2
<1>3. Cardinality(used) = CacheSize - argCount
  <2>1. argCount \in Nat /\ CacheSize \in 0..CacheSize /\ argCount <= CacheSize
    BY <1>1
  <2>2. Cardinality({argCache[k] : k \in argCount + 1 .. CacheSize}) = CacheSize - argCount
    BY <1>1, <2>1, SlotsCounted
  <2> QED BY <2>2, UsedAre
<1>4. free \cap VarsAfter(scopes, 0) = {}
  <2>1. SUFFICES ASSUME NEW k \in 1..argCount, NEW p \in Places(scopes) PROVE At(scopes, p) # argCache[k]
    BY DEF VarsAfter
  <2>2. scopes \in Seq(Seq(Lists))
    BY <1>1 DEF Data, Placed
  <2>3. p[1] \in 1..Len(scopes) /\ p[2] \in 1..Len(scopes[p[1]])
    BY <2>2, PlacesAre
  <2> QED BY <1>1, <2>3, FreeSlots DEF At
<1> HIDE DEF free, used
<1>5. argCount + Cardinality(used) = CacheSize
  BY <1>1, <1>3
<1> QED BY <1>2, <1>4, <1>5 DEF CacheExact, free, used

LEMMA TypesAreOK == ASSUME Constants, IInv PROVE TypeOK
<1>1. Placed(scopes, heap) /\ Slots(heap) /\ scopes \in Seq(Seq(Lists))
  BY DEF IInv, Data, Placed
<1>2. DOMAIN heap \subseteq Lists /\ \A a \in DOMAIN heap : heap[a] \in Variable
  BY <1>1 DEF Placed
<1>3. Len(scopes) = Len(calls) + 1 /\ Len(braces) = Len(scopes)
  BY DEF IInv, Calls
<1>4. ASSUME NEW p \in Places(scopes)
      PROVE  p = <<p[1], p[2]>> /\ p[1] \in 1..Len(scopes) /\ p[2] \in 1..Len(scopes[p[1]])
  BY <1>1, PlacesAre
<1>5. \A p \in Places(scopes) : At(scopes, p) \in DOMAIN heap
  <2>1. \A s \in 1..Len(scopes) : \A x \in 1..Len(scopes[s]) : scopes[s][x] \in DOMAIN heap
    BY <1>1 DEF Placed
  <2> QED BY <1>4, <2>1 DEF At
<1>6. ASSUME NEW p \in Places(scopes), NEW q \in Places(scopes), At(scopes, p) = At(scopes, q)
      PROVE  p = q
  <2>1. scopes[p[1]][p[2]] = scopes[q[1]][q[2]]
    BY <1>6 DEF At
  <2>2. p[1] = q[1] /\ p[2] = q[2]
    BY <1>1, <1>4, <2>1, OnePlace
  <2> QED BY <1>4, <2>2
<1>7. argCache \in [1..CacheSize -> Lists] /\ argCount \in 0..CacheSize
  BY <1>1 DEF IInv, Slots
<1>8. scopeID \in 0..IdLimit - 1 /\ activeID \in 0..IdLimit - 1
  BY DEF IInv, Ids
<1>9. \A i \in Instructions : code[i].op \in Opcodes
  BY DEF IInv, Entry
<1> QED BY <1>1, <1>2, <1>3, <1>5, <1>6, <1>7, <1>8, <1>9 DEF TypeOK

-----------------------------------------------------------------------------
(* The theorems. *)

(* Each list that holds a variable is there and in one place of one scope, *)
(* however calls, returns and errors follow each other: nothing that       *)
(* ring_vm_deletescope() frees is still in a scope.                        *)
THEOREM TypeCorrect == ASSUME Harmless PROVE Spec => []TypeOK
<1>1. IInv => TypeOK
  BY ConstantsHold, TypesAreOK
<1> QED BY <1>1, Invariant, PTL

(* A list of the argument cache is free or holds an argument of one scope, *)
(* also when calls fail between two arguments, and when more arguments are *)
(* alive than the cache has lists.                                         *)
THEOREM CacheAlwaysExact == ASSUME Harmless PROVE Spec => []CacheExact
<1>1. IInv => CacheExact
  BY ConstantsHold, CacheIsExact
<1> QED BY <1>1, Invariant, PTL

(* Whatever ring_vm_deletescope() writes back to the cache's array, each   *)
(* of its lists stays in one place of it, so the end deletes each once.    *)
THEOREM SlotsAlwaysDistinct == ASSUME Harmless PROVE Spec => []SlotsDistinct
<1>1. IInv => SlotsDistinct
  BY DEF IInv, Data, Slots, SlotsDistinct
<1> QED BY <1>1, Invariant, PTL

-----------------------------------------------------------------------------
(* What instructions keep.  IDs tell the scopes of calls apart as long as  *)
(* none of them lives while the IDs start again.                           *)

(* The ID of scope s: that of a caller, or the active one. *)
IdOf(cs, act, s) == IF s = Len(cs) + 1 THEN act ELSE cs[s]

IdsRise(cs, act, last) ==
    /\ IdOf(cs, act, 1) = 0
    /\ \A s \in 2..Len(cs) + 1 : IdOf(cs, act, s) <= last
    /\ \A s \in 2..Len(cs) + 1 : \A t \in 2..Len(cs) + 1 :
           s < t => IdOf(cs, act, s) < IdOf(cs, act, t)

IdsSaved(ts, cs, act) == \A k \in 1..Len(ts) : ts[k].activeID = IdOf(cs, act, ts[k].scopes)

Holds(s, a) == \E x \in 1..Len(s) : s[x] = a

KeptGlobal == {"PUSHP", "INCPJUMP"}
KeptLocal == {"PUSHPLOCAL", "INCLPJUMP"}

(* What instruction i keeps, when it is ins, is in the global scope or in  *)
(* the scope whose ID it knows.                                            *)
Kept(i, ins, scs, cs, act, last) ==
    /\ ins.op \in KeptGlobal => Holds(scs[1], ins.var)
    /\ ins.op = "INCPJUMP" => i.text = "main"
    /\ ins.op = "PUSHARG" => i.text = "function"
    /\ ins.op \in KeptLocal =>
           /\ i.text = "function" /\ ins.int <= last
           /\ \A s \in 2..Len(cs) + 1 : IdOf(cs, act, s) = ins.int => Holds(scs[s], ins.var)

AllKept(c, scs, cs, act, last) == \A i \in Instructions : Kept(i, c[i], scs, cs, act, last)

(* Nothing keeps the variable that was made by the last instruction. *)
NotKept(p, c, cs, act) ==
    p.new => \A i \in Instructions :
        /\ c[i].op \in KeptGlobal => c[i].var # p.var
        /\ c[i].op \in KeptLocal /\ cs # <<>> /\ c[i].int = act => c[i].var # p.var

KInv ==
    /\ IdsRise(calls, activeID, scopeID) /\ IdsSaved(tries, calls, activeID)
    /\ AllKept(code, scopes, calls, activeID, scopeID)
    /\ NotKept(pushed, code, calls, activeID)

(* No call lives while the IDs start again, and no variable is read before *)
(* it has a value, unless the reading instruction has just made it.        *)
Lasting == Programs \cap {"uninitialised", "wrap_alive"} = {}

(* What is kept stays kept in scopes that hold as much, under the same IDs. *)
LEMMA KeptStays ==
    ASSUME NEW i, NEW ins, NEW scs, NEW cs, NEW act, NEW last, Kept(i, ins, scs, cs, act, last),
           NEW scs2, NEW cs2, NEW act2, NEW last2, ins.int \in Nat, last \in Nat, last2 \in Nat,
           last <= last2, Len(cs) \in Nat, Len(cs2) \in Nat, Len(cs2) <= Len(cs),
           \A s \in 1..Len(cs2) + 1 : IdOf(cs2, act2, s) = IdOf(cs, act, s),
           ins.op \in KeptGlobal /\ Holds(scs[1], ins.var) => Holds(scs2[1], ins.var),
           \A s \in 2..Len(cs2) + 1 :
               /\ ins.op \in KeptLocal /\ IdOf(cs, act, s) = ins.int
               /\ Holds(scs[s], ins.var)
               => Holds(scs2[s], ins.var)
    PROVE  Kept(i, ins, scs2, cs2, act2, last2)
<1>1. ins.op \in KeptGlobal => Holds(scs2[1], ins.var)
  BY DEF Kept
<1>2. ASSUME ins.op \in KeptLocal PROVE ins.int <= last2
  <2>1. ins.int <= last
    BY <1>2 DEF Kept
  <2> QED BY <2>1
<1>3. ASSUME ins.op \in KeptLocal, NEW s \in 2..Len(cs2) + 1, IdOf(cs2, act2, s) = ins.int
      PROVE  Holds(scs2[s], ins.var)
  <2>1. s \in 1..Len(cs2) + 1 /\ s \in 2..Len(cs) + 1
    OBVIOUS
  <2>2. IdOf(cs, act, s) = ins.int
    BY <1>3, <2>1
  <2>3. Holds(scs[s], ins.var)
    BY <1>3, <2>1, <2>2 DEF Kept
  <2> QED BY <1>3, <2>2, <2>3
<1> QED BY <1>1, <1>2, <1>3 DEF Kept

(* The types of the control part, and its sizes. *)
LEMMA ControlIs ==
    ASSUME Constants, IInv
    PROVE  /\ calls \in Seq(Ids) /\ Len(calls) \in Nat /\ Len(scopes) = Len(calls) + 1
           /\ activeID \in Nat /\ scopeID \in Nat /\ scopes \in Seq(Seq(Lists)) /\ scopes # <<>>
           /\ code \in [Instructions -> Entry] /\ \A i \in Instructions : code[i].int \in Nat
           /\ \A s \in 1..Len(calls) + 1 : IdOf(calls, activeID, s) \in Nat
           /\ \A s \in 1..Len(calls) + 1 : s \in 1..Len(scopes) /\ scopes[s] \in Seq(Lists)
<1>1. /\ scopes \in Seq(Seq(Lists)) /\ scopes # <<>> /\ Len(scopes) \in Nat
      /\ calls \in Seq(Ids) /\ Len(calls) = Len(scopes) - 1
  BY ScopesAre DEF IInv
<1>2. activeID \in Nat /\ scopeID \in Nat /\ code \in [Instructions -> Entry] /\ Ids \subseteq Nat
  BY DEF IInv, Ids, Constants
<1>3. \A i \in Instructions : code[i].int \in Nat
  BY <1>2 DEF Entry
<1>4. Len(calls) \in Nat /\ Len(scopes) = Len(calls) + 1
  BY <1>1
<1>5. ASSUME NEW s \in 1..Len(calls) + 1
      PROVE  /\ IdOf(calls, activeID, s) \in Nat
             /\ s \in 1..Len(scopes) /\ scopes[s] \in Seq(Lists)
  <2>1. s \in 1..Len(calls) \/ s = Len(calls) + 1
    BY <1>4
  <2>2. IdOf(calls, activeID, s) \in Nat
    <3>1. \A k \in 1..Len(calls) : calls[k] \in Ids
      BY <1>1
    <3> QED BY <1>2, <2>1, <3>1 DEF IdOf
  <2>3. s \in 1..Len(scopes)
    BY <1>4
  <2>4. scopes[s] \in Seq(Lists)
    BY <1>1, <2>3
  <2> QED BY <2>2, <2>3, <2>4
<1> QED BY <1>1, <1>2, <1>3, <1>4, <1>5

(* A step that changes no IDs and lets scopes only grow, with the           *)
(* instructions c.                                                         *)
LEMMA GrownKept ==
    ASSUME Constants, IInv, KInv, NEW c, code' = c, \A i \in Instructions : c[i].int \in Nat,
           AllKept(c, scopes, calls, activeID, scopeID), NotKept(pushed', c, calls, activeID),
           calls' = calls, activeID' = activeID, scopeID' = scopeID,
           IdsSaved(tries', calls, activeID),
           \A s \in 1..Len(scopes) : \A a : Holds(scopes[s], a) => Holds(scopes'[s], a)
    PROVE  KInv'
<1>1. Len(calls) \in Nat /\ Len(scopes) = Len(calls) + 1 /\ scopeID \in Nat /\ Len(calls) <= Len(calls)
  BY ControlIs
<1>2. ASSUME NEW i \in Instructions PROVE Kept(i, c[i], scopes', calls, activeID, scopeID)
  <2>1. Kept(i, c[i], scopes, calls, activeID, scopeID) /\ c[i].int \in Nat
    BY DEF AllKept
  <2>2. /\ 1 \in 1..Len(scopes) /\ \A s \in 2..Len(calls) + 1 : s \in 1..Len(scopes)
        /\ scopeID <= scopeID
    BY <1>1
  <2>3. \A s \in 1..Len(calls) + 1 : IdOf(calls, activeID, s) = IdOf(calls, activeID, s)
    OBVIOUS
  <2>4. /\ Holds(scopes[1], c[i].var) => Holds(scopes'[1], c[i].var)
        /\ \A s \in 2..Len(calls) + 1 : Holds(scopes[s], c[i].var) => Holds(scopes'[s], c[i].var)
    BY <2>2
  <2> QED BY <1>1, <2>1, <2>2, <2>3, <2>4, KeptStays
<1>3. AllKept(code, scopes, calls, activeID, scopeID)'
  BY <1>2 DEF AllKept, Kept, IdOf, Holds, KeptGlobal, KeptLocal
<1>4. IdsRise(calls, activeID, scopeID)' /\ IdsSaved(tries, calls, activeID)'
  BY DEF KInv, IdsRise, IdsSaved, IdOf
<1>5. NotKept(pushed, code, calls, activeID)'
  BY DEF NotKept, KeptGlobal, KeptLocal
<1> QED BY <1>3, <1>4, <1>5 DEF KInv

(* The same without a change of the instructions. *)
LEMMA QuietKept ==
    ASSUME Constants, IInv, KInv, code' = code, calls' = calls, activeID' = activeID,
           scopeID' = scopeID, IdsSaved(tries', calls, activeID), ~pushed'.new,
           \A s \in 1..Len(scopes) : \A a : Holds(scopes[s], a) => Holds(scopes'[s], a)
    PROVE  KInv'
<1>1. \A i \in Instructions : code[i].int \in Nat
  BY ControlIs
<1>2. AllKept(code, scopes, calls, activeID, scopeID) /\ NotKept(pushed', code, calls, activeID)
  BY DEF KInv, NotKept
<1> QED BY <1>1, <1>2, GrownKept

(* IDs after the calls above scope n have ended. *)
LEMMA IdsCut ==
    ASSUME NEW cs \in Seq(Ids), NEW act, NEW n \in 1..Len(cs) + 1, NEW act2,
           act2 = IdOf(cs, act, n)
    PROVE  LET cs2 == SubSeq(cs, 1, n - 1) IN
           /\ Len(cs2) = n - 1 /\ Len(cs2) \in Nat /\ Len(cs2) <= Len(cs) /\ Len(cs) \in Nat
           /\ \A s \in 1..n : IdOf(cs2, act2, s) = IdOf(cs, act, s)
<1> DEFINE m == n - 1
           cs2 == SubSeq(cs, 1, m)
<1>1. m \in Nat /\ m <= Len(cs) /\ n = m + 1 /\ Len(cs) \in Nat
  OBVIOUS
<1> HIDE DEF m
<1>2. Len(cs2) = m /\ \A k \in 1..m : k \in 1..Len(cs) /\ cs2[k] = cs[k]
  BY <1>1, PrefixIs
<1> HIDE DEF cs2
<1>3. ASSUME NEW s \in 1..n PROVE IdOf(cs2, act2, s) = IdOf(cs, act, s)
  <2>1. CASE s = n
    BY <1>1, <1>2, <2>1 DEF IdOf
  <2>2. CASE s # n
    <3>1. s \in 1..m /\ s # Len(cs2) + 1 /\ s # Len(cs) + 1
      BY <1>1, <1>2, <2>2
    <3> QED BY <1>2, <3>1 DEF IdOf
  <2> QED BY <2>1, <2>2
<1> QED BY <1>1, <1>2, <1>3 DEF cs2, m

LEMMA IdsRiseCut ==
    ASSUME NEW cs, NEW act, NEW last, Len(cs) \in Nat, IdsRise(cs, act, last),
           NEW cs2, NEW act2, Len(cs2) \in Nat, Len(cs2) <= Len(cs),
           \A s \in 1..Len(cs2) + 1 : IdOf(cs2, act2, s) = IdOf(cs, act, s)
    PROVE  IdsRise(cs2, act2, last)
<1>1. \A s \in 2..Len(cs2) + 1 : s \in 1..Len(cs2) + 1 /\ s \in 2..Len(cs) + 1
  OBVIOUS
<1>2. 1 \in 1..Len(cs2) + 1
  OBVIOUS
<1> QED BY <1>1, <1>2 DEF IdsRise

(* Of the tries only the first are left, none of which began after scope n. *)
LEMMA IdsSavedCut ==
    ASSUME NEW ts, NEW cs, NEW act, IdsSaved(ts, cs, act), NEW n \in Nat,
           NEW ts2, TriesIn(ts2, n), Len(ts2) \in Nat, Len(ts) \in Nat, Len(ts2) <= Len(ts),
           \A k \in 1..Len(ts2) : ts2[k] = ts[k],
           NEW cs2, NEW act2, \A s \in 1..n : IdOf(cs2, act2, s) = IdOf(cs, act, s)
    PROVE  IdsSaved(ts2, cs2, act2)
<1> SUFFICES ASSUME NEW k \in 1..Len(ts2)
             PROVE  ts2[k].activeID = IdOf(cs2, act2, ts2[k].scopes)
  BY DEF IdsSaved
<1>1. ts2[k].scopes \in 1..n /\ k \in 1..Len(ts) /\ ts2[k] = ts[k]
  BY DEF TriesIn
<1> QED BY <1>1 DEF IdsSaved

(* An error: what is kept in the scopes scs stays kept in those that are left. *)
LEMMA CatchKept ==
    ASSUME Constants, IInv, NEW scs, NEW h, NEW count \in 0..CacheSize, Data(scs, h, count),
           Len(scopes) <= Len(scs), Catch(scs, h, count, 0),
           NEW c \in [Instructions -> Entry], NEW last \in Nat,
           IdsRise(calls, activeID, last), IdsSaved(tries, calls, activeID),
           AllKept(c, scs, calls, activeID, last), code' = c, scopeID' = last
    PROVE  KInv'
<1> DEFINE t == Last(tries)
           n == t.scopes
<1>1. /\ tries # <<>> /\ DeleteScopes(scs, n, AfterError(scs, h), count, 0)
      /\ calls' = SubSeq(calls, 1, n - 1) /\ activeID' = t.activeID
      /\ tries' = Front(tries) /\ pushed' = Nothing
  BY DEF Catch
<1>2. /\ calls \in Seq(Ids) /\ Len(calls) \in Nat /\ Len(scopes) = Len(calls) + 1
      /\ Len(scopes) \in Nat
  BY ControlIs
<1>3. /\ n \in 1..Len(scopes) /\ TriesIn(Front(tries), n) /\ tries \in Seq(Saved)
      /\ TriesIn(tries, Len(scopes))
  BY <1>1, <1>2, LastTry DEF IInv, TriesIn
<1>4. /\ Len(tries) \in Nat /\ Len(tries) \in 1..Len(tries) /\ t = tries[Len(tries)]
      /\ Len(Front(tries)) = Len(tries) - 1
      /\ \A k \in 1..Len(tries) - 1 : k \in 1..Len(tries) /\ Front(tries)[k] = tries[k]
  BY <1>1, <1>3, FrontIs DEF Last
<1>5. t.activeID = IdOf(calls, activeID, n)
  BY <1>4 DEF IdsSaved
<1> HIDE DEF t, n
<1>6. n \in 1..Len(calls) + 1 /\ n \in Nat /\ n - 1 \in Nat /\ n >= 1
  BY <1>2, <1>3
<1> DEFINE cs2 == SubSeq(calls, 1, n - 1)
<1>7. /\ Len(cs2) = n - 1 /\ Len(cs2) \in Nat /\ Len(cs2) <= Len(calls)
      /\ \A s \in 1..n : IdOf(cs2, t.activeID, s) = IdOf(calls, activeID, s)
  BY <1>2, <1>5, <1>6, IdsCut
<1> HIDE DEF cs2
<1>8. Len(cs2) + 1 = n
  BY <1>6, <1>7
<1>9. IdsRise(cs2, t.activeID, last)
  BY <1>2, <1>7, <1>8, IdsRiseCut
<1>10. IdsSaved(Front(tries), cs2, t.activeID)
  <2> DEFINE ts2 == Front(tries)
             act2 == t.activeID
  <2>1. Len(ts2) \in Nat /\ Len(ts2) <= Len(tries)
    <3>1. Len(tries) >= 1
      BY <1>4
    <3> QED BY <1>4, <3>1
  <2>2. \A k \in 1..Len(ts2) : ts2[k] = tries[k]
    BY <1>4
  <2>3. TriesIn(ts2, n) /\ \A s \in 1..n : IdOf(cs2, act2, s) = IdOf(calls, activeID, s)
    BY <1>3, <1>7
  <2> HIDE DEF ts2, act2
  <2>4. IdsSaved(tries, calls, activeID) /\ Len(tries) \in Nat /\ n \in Nat
    BY <1>4, <1>6
  <2>5. IdsSaved(ts2, cs2, act2)
    BY <2>1, <2>2, <2>3, <2>4, IdsSavedCut
  <2> QED BY <2>5 DEF ts2, act2
<1>11. scs \in Seq(Seq(Lists)) /\ Len(scs) \in Nat
  <2>1. scs \in Seq(Seq(Lists))
    BY DEF Data, Placed
  <2> QED BY <2>1
<1>12. n <= Len(scs)
  BY <1>2, <1>3, <1>6, <1>11
<1>13. scopes' = SubSeq(scs, 1, n)
  BY <1>1 DEF DeleteScopes
<1>14. \A s \in 1..n : scopes'[s] = scs[s]
  BY <1>6, <1>11, <1>12, <1>13, PrefixIs
<1>15. ASSUME NEW i \in Instructions PROVE Kept(i, c[i], scopes', cs2, t.activeID, last)
  <2>1. Kept(i, c[i], scs, calls, activeID, last) /\ c[i].int \in Nat /\ last <= last
    BY DEF AllKept, Entry
  <2>2. 1 \in 1..n /\ \A s \in 2..Len(cs2) + 1 : s \in 1..n
    BY <1>6, <1>8
  <2>3. /\ Holds(scs[1], c[i].var) => Holds(scopes'[1], c[i].var)
        /\ \A s \in 2..Len(cs2) + 1 : Holds(scs[s], c[i].var) => Holds(scopes'[s], c[i].var)
    BY <1>14, <2>2
  <2> QED BY <1>2, <1>7, <1>8, <2>1, <2>3, KeptStays
<1>16. calls' = cs2 /\ activeID' = t.activeID /\ tries' = Front(tries) /\ scopeID' = last
  BY <1>1 DEF cs2
<1>17. AllKept(code, scopes, calls, activeID, scopeID)'
  BY <1>15, <1>16 DEF AllKept, Kept, IdOf, Holds, KeptGlobal, KeptLocal
<1>18. IdsRise(calls, activeID, scopeID)' /\ IdsSaved(tries, calls, activeID)'
  BY <1>9, <1>10, <1>16 DEF IdsRise, IdsSaved, IdOf
<1>19. NotKept(pushed, code, calls, activeID)'
  BY <1>1 DEF NotKept, Nothing
<1> QED BY <1>17, <1>18, <1>19 DEF KInv

(* A new ID is greater than all that are in use, or no call is left and no *)
(* instruction knows an ID of one.                                         *)
LEMMA NewScopeKept ==
    ASSUME Constants, IInv, KInv, Lasting, NewScope
    PROVE  /\ IdsRise(calls, activeID, NextID) /\ NextID \in Nat
           /\ AllKept(code', scopes, calls, activeID, NextID)
           /\ \A i \in Instructions : code'[i].op \in KeptLocal => code'[i].int < NextID
           /\ \A s \in 2..Len(calls) + 1 : IdOf(calls, activeID, s) < NextID
           /\ code' \in [Instructions -> Entry]
<1>1. /\ Len(calls) \in Nat /\ scopeID \in Nat /\ code \in [Instructions -> Entry]
      /\ calls \in Seq(Ids) /\ \A i \in Instructions : code[i].int \in Nat
      /\ \A s \in 1..Len(calls) + 1 : IdOf(calls, activeID, s) \in Nat
  BY ControlIs
<1>2. scopeID \in 0..IdLimit - 1 /\ IdLimit \in Nat /\ IdLimit > 0
  BY DEF IInv, Ids, Constants
<1>3. code' \in [Instructions -> Entry] /\ NextID \in Nat
  <2>1. NextID \in Ids /\ code' \in [Instructions -> Entry]
    BY NewScopeIs
  <2> QED BY <1>2, <2>1 DEF Ids
<1>4. CASE NextID # 0
  <2>1. NextID = scopeID + 1
    BY <1>2, <1>4 DEF NextID
  <2>2. code' = code
    BY <1>4 DEF NewScope
  <2>3. IdsRise(calls, activeID, scopeID) /\ AllKept(code, scopes, calls, activeID, scopeID)
    BY DEF KInv
  <2>4. \A s \in 2..Len(calls) + 1 : IdOf(calls, activeID, s) \in Nat /\ IdOf(calls, activeID, s) <= scopeID
    BY <1>1, <2>3 DEF IdsRise
  <2> HIDE DEF NextID
  <2>5. \A s \in 2..Len(calls) + 1 : IdOf(calls, activeID, s) <= NextID /\ IdOf(calls, activeID, s) < NextID
    BY <1>1, <2>1, <2>4
  <2>6. IdsRise(calls, activeID, NextID)
    BY <2>3, <2>5 DEF IdsRise
  <2>7. ASSUME NEW i \in Instructions, code[i].op \in KeptLocal
        PROVE  code[i].int < NextID /\ code[i].int <= NextID
    <3>1. code[i].int <= scopeID /\ code[i].int \in Nat
      BY <1>1, <2>3, <2>7 DEF AllKept, Kept
    <3> QED BY <1>1, <2>1, <3>1
  <2>8. AllKept(code, scopes, calls, activeID, NextID)
    BY <2>3, <2>7 DEF AllKept, Kept
  <2> QED BY <1>3, <2>2, <2>5, <2>6, <2>7, <2>8
<1>5. CASE NextID = 0
  <2>1. calls = <<>> /\ Len(calls) = 0 /\ code' = AfterOverflow(code)
    BY <1>1, <1>5 DEF NewScope, Lasting, InFunction
  <2>2. \A s \in 2..Len(calls) + 1 : FALSE
    BY <2>1
  <2> HIDE DEF NextID
  <2>3. IdsRise(calls, activeID, NextID)
    BY <2>2 DEF KInv, IdsRise
  <2>4. ASSUME NEW i \in Instructions
        PROVE  /\ code'[i].op \notin KeptLocal
               /\ code'[i].op \in KeptGlobal \cup {"PUSHARG"} => code'[i] = code[i]
    <3>1. code[i] \in Entry
      BY <1>1
    <3>2. CASE code[i].op = "PUSHPLOCAL"
      <4>1. code'[i] = [code[i] EXCEPT !.op = "LOADADDRESS", !.var = None]
        BY <2>1, <3>2 DEF AfterOverflow
      <4>2. code'[i].op = "LOADADDRESS"
        BY <3>1, <4>1 DEF Entry
      <4> QED BY <4>2 DEF KeptLocal, KeptGlobal
    <3>3. CASE code[i].op = "INCLPJUMP"
      <4>1. code'[i] = [code[i] EXCEPT !.op = "INCJUMP"]
        BY <2>1, <3>3 DEF AfterOverflow
      <4>2. code'[i].op = "INCJUMP"
        BY <3>1, <4>1 DEF Entry
      <4> QED BY <4>2 DEF KeptLocal, KeptGlobal
    <3>4. CASE code[i].op \notin KeptLocal
      <4>1. code[i].op # "PUSHPLOCAL" /\ code[i].op # "INCLPJUMP"
        BY <3>4 DEF KeptLocal
      <4>2. code'[i] = code[i]
        BY <2>1, <4>1 DEF AfterOverflow
      <4> QED BY <3>4, <4>2
    <3> QED BY <3>2, <3>3, <3>4 DEF KeptLocal
  <2>5. AllKept(code', scopes, calls, activeID, NextID)
    <3> SUFFICES ASSUME NEW i \in Instructions
                 PROVE  Kept(i, code'[i], scopes, calls, activeID, NextID)
      BY DEF AllKept
    <3>1. Kept(i, code[i], scopes, calls, activeID, scopeID)
      BY DEF KInv, AllKept
    <3>2. CASE code'[i].op \in KeptGlobal \cup {"PUSHARG"}
      <4>1. code'[i] = code[i] /\ code[i].op \notin KeptLocal
        BY <2>4, <3>2
      <4> QED BY <3>1, <4>1 DEF Kept
    <3>3. CASE code'[i].op \notin KeptGlobal \cup {"PUSHARG"}
      BY <2>4, <3>3 DEF Kept, KeptGlobal
    <3> QED BY <3>2, <3>3
  <2> QED BY <1>3, <2>2, <2>3, <2>4, <2>5
<1> QED BY <1>4, <1>5

-----------------------------------------------------------------------------
(* The instructions. *)

LEMMA HoldsIs ==
    ASSUME IInv, NEW s \in 1..Len(scopes), NEW a
    PROVE  (a \in VarsOf(s) <=> Holds(scopes[s], a)) /\ (Holds(scopes[s], a) => a \in DOMAIN heap)
<1>1. /\ scopes \in Seq(Seq(Lists))
      /\ \A t \in 1..Len(scopes) : \A x \in 1..Len(scopes[t]) : scopes[t][x] \in DOMAIN heap
  BY DEF IInv, Data, Placed
<1>2. scopes[s] \in Seq(Lists)
  BY <1>1
<1>3. VarsOf(s) = {scopes[s][x] : x \in 1..Len(scopes[s])}
  BY <1>2 DEF VarsOf, ToSet
<1> QED BY <1>1, <1>3 DEF Holds

(* No list is in two scopes. *)
LEMMA OneScope ==
    ASSUME IInv, NEW s \in 1..Len(scopes), NEW t \in 1..Len(scopes), NEW a,
           a \in VarsOf(s), a \in VarsOf(t)
    PROVE  s = t
<1>1. Holds(scopes[s], a) /\ Holds(scopes[t], a)
  BY HoldsIs
<1>2. \A x \in 1..Len(scopes[s]) : \A y \in 1..Len(scopes[t]) : scopes[s][x] = scopes[t][y] => s = t
  BY DEF IInv, Data, Placed
<1> QED BY <1>1, <1>2 DEF Holds

(* The active scope is that of a call just if the text that runs is the    *)
(* function's.                                                             *)
LEMMA RunningIs ==
    ASSUME Constants, IInv
    PROVE  /\ Active = Len(scopes) /\ Active = Len(calls) + 1 /\ Active \in 1..Len(scopes) /\ Active \in Nat
           /\ 1 \in 1..Len(scopes) /\ calls # <<>> <=> Active \in 2..Len(calls) + 1
           /\ calls = <<>> <=> Active = 1
           /\ \A i \in Running : i \in Instructions /\ i.text = IF Active = 1 THEN "main" ELSE "function"
<1>1. calls \in Seq(Ids) /\ Len(calls) \in Nat /\ Len(scopes) = Len(calls) + 1
  BY ControlIs
<1>2. Active = Len(scopes) /\ (calls = <<>> <=> Len(calls) = 0)
  BY <1>1 DEF Active
<1>3. calls = <<>> <=> Active = 1
  BY <1>1, <1>2
<1>4. \A i \in Running : i \in Instructions /\ i.text = IF Active = 1 THEN "main" ELSE "function"
  BY <1>3 DEF Running, InFunction
<1>5. calls # <<>> <=> Active \in 2..Len(calls) + 1
  BY <1>1, <1>2
<1>6. Active \in 1..Len(scopes) /\ Active \in Nat /\ 1 \in 1..Len(scopes) /\ Active = Len(calls) + 1
  BY <1>1, <1>2
<1> QED BY <1>2, <1>3, <1>4, <1>5, <1>6

(* The active ID, in a call, is the active scope's only. *)
LEMMA LocalKept ==
    ASSUME Constants, IInv, KInv, NEW i \in Running, NEW ins, ins.op \in KeptLocal,
           ins.int = activeID, ins.var \in VarsOf(Active), Active # 1
    PROVE  Kept(i, ins, scopes, calls, activeID, scopeID)
<1>1. i.text = "function" /\ Active \in 2..Len(calls) + 1 /\ Active = Len(calls) + 1
      /\ Active \in 1..Len(scopes)
  BY RunningIs
<1>2. IdOf(calls, activeID, Active) = activeID
  BY <1>1 DEF IdOf
<1>3. activeID <= scopeID
  BY <1>1, <1>2 DEF KInv, IdsRise
<1>4. ASSUME NEW s \in 2..Len(calls) + 1, IdOf(calls, activeID, s) = ins.int PROVE s = Active
  <2>1. IdOf(calls, activeID, s) = IdOf(calls, activeID, Active)
    BY <1>2, <1>4
  <2>2. IdOf(calls, activeID, s) \in Nat /\ IdOf(calls, activeID, Active) \in Nat /\ Len(calls) \in Nat
    <3>1. s \in 1..Len(calls) + 1 /\ Active \in 1..Len(calls) + 1
      BY <1>1
    <3> QED BY <3>1, ControlIs
  <2>3. s < Active => IdOf(calls, activeID, s) < IdOf(calls, activeID, Active)
    BY <1>1 DEF KInv, IdsRise
  <2>4. ~(s < Active)
    BY <2>1, <2>2, <2>3
  <2> QED BY <1>1, <2>2, <2>4
<1>5. Holds(scopes[Active], ins.var)
  BY <1>1, HoldsIs
<1>6. ins.op \notin KeptGlobal /\ ins.op # "INCPJUMP" /\ ins.op # "PUSHARG"
  BY DEF KeptLocal, KeptGlobal
<1> QED BY <1>1, <1>3, <1>4, <1>5, <1>6 DEF Kept

(* What is kept is there, so a list that was not is not kept. *)
LEMMA NewNotKept ==
    ASSUME Constants, IInv, NEW c, AllKept(c, scopes, calls, activeID, scopeID),
           NEW p, p.var \notin DOMAIN heap
    PROVE  NotKept(p, c, calls, activeID)
<1> SUFFICES ASSUME NEW i \in Instructions
             PROVE  /\ c[i].op \in KeptGlobal => c[i].var # p.var
                    /\ c[i].op \in KeptLocal /\ calls # <<>> /\ c[i].int = activeID => c[i].var # p.var
  BY DEF NotKept
<1>1. Kept(i, c[i], scopes, calls, activeID, scopeID)
  BY DEF AllKept
<1>2. 1 \in 1..Len(scopes) /\ Active \in 1..Len(scopes) /\ Active = Len(calls) + 1
      /\ (calls # <<>> <=> Active \in 2..Len(calls) + 1)
  BY RunningIs
<1>3. ASSUME c[i].op \in KeptGlobal PROVE c[i].var # p.var
  <2>1. Holds(scopes[1], c[i].var)
    BY <1>1, <1>3 DEF Kept
  <2> QED BY <1>2, <2>1, HoldsIs
<1>4. ASSUME c[i].op \in KeptLocal, calls # <<>>, c[i].int = activeID PROVE c[i].var # p.var
  <2>1. IdOf(calls, activeID, Active) = c[i].int
    BY <1>2, <1>4 DEF IdOf
  <2>2. Holds(scopes[Active], c[i].var)
    BY <1>1, <1>2, <1>4, <2>1 DEF Kept
  <2> QED BY <1>2, <2>2, HoldsIs
<1> QED BY <1>3, <1>4

LEMMA AddedHolds ==
    ASSUME Constants, IInv, NEW b \in Lists, NEW s \in 1..Len(scopes), NEW a, Holds(scopes[s], a)
    PROVE  Holds(Added(scopes, b)[s], a)
<1> DEFINE new == Added(scopes, b)
           L == Len(scopes)
<1>1. scopes \in Seq(Seq(Lists)) /\ scopes # <<>>
  BY ControlIs
<1>2. /\ L \in Nat /\ \A t \in 1..L - 1 : new[t] = scopes[t]
      /\ Len(scopes[L]) \in Nat /\ Len(new[L]) = Len(scopes[L]) + 1
      /\ \A x \in 1..Len(scopes[L]) : new[L][x] = scopes[L][x]
  BY <1>1, AddedAre
<1> HIDE DEF new, L
<1>3. s \in 1..L - 1 \/ s = L
  BY <1>2 DEF L
<1>4. CASE s = L
  <2>1. PICK x \in 1..Len(scopes[L]) : scopes[L][x] = a
    BY <1>4 DEF Holds
  <2>2. x \in 1..Len(new[L]) /\ new[L][x] = a
    BY <1>2, <2>1
  <2> QED BY <1>4, <2>2 DEF Holds, new
<1> QED BY <1>2, <1>3, <1>4 DEF new

(* An instruction that keeps what it has found. *)
LEMMA SpecialisedKept ==
    ASSUME Constants, IInv, KInv, NEW i \in Running, NEW ins \in Entry, ins.op = "LOADADDRESS",
           NEW inside, NEW n, Lookup(n) # None, Lookup(n) # Attribute
    PROVE  Kept(i, Specialised(ins, Lookup(n), inside), scopes, calls, activeID, scopeID)
<1> DEFINE a == Lookup(n)
           new == Specialised(ins, a, inside)
<1>1. a \in VarsOf(Active) \/ a \in VarsOf(1)
  BY DEF Lookup, Named
<1>2. /\ Active = 1 \/ i.text = "function"
      /\ 1 \in 1..Len(scopes)
  BY RunningIs
<1> HIDE DEF a
<1>3. CASE a \in VarsOf(1)
  <2>1. new = [ins EXCEPT !.op = "PUSHP", !.int = activeID, !.var = a]
    BY <1>3 DEF Specialised
  <2>2. new.op = "PUSHP" /\ new.var = a
    BY <2>1 DEF Entry
  <2>3. Holds(scopes[1], a)
    BY <1>2, <1>3, HoldsIs
  <2> QED BY <2>2, <2>3 DEF Kept, KeptGlobal, KeptLocal, a
<1>4. CASE a \notin VarsOf(1) /\ inside
  <2>1. new = [ins EXCEPT !.op = "PUSHPLOCAL", !.int = activeID, !.var = a]
    BY <1>4 DEF Specialised
  <2>2. new.op = "PUSHPLOCAL" /\ new.var = a /\ new.int = activeID
    BY <2>1 DEF Entry
  <2>3. a \in VarsOf(Active) /\ Active # 1
    BY <1>1, <1>4
  <2>4. new.op \in KeptLocal
    BY <2>2 DEF KeptLocal
  <2> HIDE DEF new
  <2>5. Kept(i, new, scopes, calls, activeID, scopeID)
    BY <2>2, <2>3, <2>4, LocalKept
  <2> QED BY <2>5 DEF a, new
<1>5. CASE a \notin VarsOf(1) /\ ~inside
  <2>1. \/ new = [ins EXCEPT !.op = "PUSHARG", !.int = CHOOSE x \in ArgPosition(a) : TRUE,
                             !.kind = heap[a].kind, !.tried = TRUE]
        \/ new = [ins EXCEPT !.tried = TRUE]
    BY <1>5 DEF Specialised
  <2>2. new.op \in {"PUSHARG", "LOADADDRESS"}
    BY <2>1 DEF Entry
  <2>3. i.text = "function"
    BY <1>1, <1>2, <1>5
  <2> HIDE DEF new
  <2>4. Kept(i, new, scopes, calls, activeID, scopeID)
    BY <2>2, <2>3 DEF Kept, KeptGlobal, KeptLocal
  <2> QED BY <2>4 DEF a, new
<1> QED BY <1>3, <1>4, <1>5

LEMMA LoadKept ==
    ASSUME Constants, IInv, KInv, NEW i \in Running, NEW inside, NEW c \in [Instructions -> Entry],
           \A j \in Instructions : j # i => c[j] = code[j], c[i].op = "LOADADDRESS",
           LoadAddress(c, i, inside), UNCHANGED <<calls, activeID, scopeID, tries>>
    PROVE  KInv'
<1> DEFINE a == Lookup(i.name)
<1>1. i \in Instructions /\ \A j \in Instructions : c[j].int \in Nat /\ c[j] \in Entry
  BY DEF Running, Entry
<1>2. AllKept(c, scopes, calls, activeID, scopeID)
  <2> SUFFICES ASSUME NEW j \in Instructions PROVE Kept(j, c[j], scopes, calls, activeID, scopeID)
    BY DEF AllKept
  <2>1. CASE j = i
    BY <2>1 DEF Kept, KeptGlobal, KeptLocal
  <2>2. CASE j # i
    BY <2>2 DEF KInv, AllKept
  <2> QED BY <2>1, <2>2
<1>3. IdsSaved(tries', calls, activeID) /\ UNCHANGED <<calls, activeID, scopeID>>
  BY DEF KInv
<1>4. CASE a = None
  <2>1. PICK b \in Unused : AddVariable(i.name, b) /\ Push(i.name, b, "lookup", TRUE)
    BY <1>4 DEF LoadAddress
  <2>2. code' = c
    BY <1>4 DEF LoadAddress
  <2>3. b \in Lists /\ b \notin DOMAIN heap /\ scopes' = Added(scopes, b) /\ pushed'.var = b
    BY <2>1 DEF Unused, AddVariable, Added, Active, Push
  <2>4. NotKept(pushed', c, calls, activeID)
    BY <1>2, <2>3, NewNotKept
  <2>5. \A s \in 1..Len(scopes) : \A v : Holds(scopes[s], v) => Holds(scopes'[s], v)
    BY <2>3, AddedHolds
  <2> QED BY <1>1, <1>2, <1>3, <2>2, <2>4, <2>5, GrownKept
<1>5. CASE a # None
  <2>1. /\ code' = IF CanKeep(a) THEN [c EXCEPT ![i] = Specialised(@, a, inside)] ELSE c
        /\ scopes' = scopes /\ Push(i.name, a, "lookup", FALSE)
    BY <1>5 DEF LoadAddress
  <2>2. NotKept(pushed', code', calls, activeID)
    BY <2>1 DEF Push, NotKept
  <2>3. AllKept(code', scopes, calls, activeID, scopeID) /\ \A j \in Instructions : code'[j].int \in Nat
    <3>1. CASE CanKeep(a)
      <4> DEFINE new == Specialised(c[i], a, inside)
      <4>1. a # Attribute /\ a \in Lists /\ a \in DOMAIN heap
        BY <1>5, <3>1, LookupIn DEF CanKeep
      <4>2. new \in Entry
        BY <1>1, <4>1, SpecialisedIn
      <4>3. Kept(i, new, scopes, calls, activeID, scopeID)
        BY <1>1, <1>5, <4>1, SpecialisedKept
      <4> HIDE DEF new, a
      <4>4. code' = [c EXCEPT ![i] = new]
        BY <2>1, <3>1 DEF new
      <4>5. ASSUME NEW j \in Instructions
            PROVE  Kept(j, code'[j], scopes, calls, activeID, scopeID) /\ code'[j].int \in Nat
        <5>1. CASE j = i
          BY <4>2, <4>3, <4>4, <5>1 DEF Entry
        <5>2. CASE j # i
          BY <1>1, <1>2, <4>4, <5>2 DEF AllKept
        <5> QED BY <5>1, <5>2
      <4> QED BY <4>5 DEF AllKept
    <3>2. CASE ~CanKeep(a)
      BY <1>1, <1>2, <2>1, <3>2
    <3> QED BY <3>1, <3>2
  <2>4. \A s \in 1..Len(scopes) : \A v : Holds(scopes[s], v) => Holds(scopes'[s], v)
    BY <2>1
  <2> QED BY <1>3, <2>2, <2>3, <2>4, GrownKept
<1> QED BY <1>4, <1>5

LEMMA IncJumpKept ==
    ASSUME Constants, IInv, KInv, NEW i \in Running, HasNumber(i.name), IncJump(i),
           UNCHANGED <<calls, activeID, scopeID, tries>>
    PROVE  KInv'
<1> DEFINE a == Lookup(i.name)
           op == IF a \in VarsOf(1) THEN "INCPJUMP" ELSE "INCLPJUMP"
           int == IF a \in VarsOf(1) THEN code[i].int ELSE activeID
           new == [code[i] EXCEPT !.op = op, !.int = int, !.var = a]
<1>1. /\ code \in [Instructions -> Entry] /\ \A j \in Instructions : code[j].int \in Nat
      /\ activeID \in Nat
  BY ControlIs
<1>2. /\ i \in Instructions /\ Active \in 1..Len(scopes) /\ 1 \in 1..Len(scopes)
      /\ i.text = IF Active = 1 THEN "main" ELSE "function"
  BY RunningIs
<1>3. a \in VarsOf(Active)
  BY DEF HasNumber, Lookup, Named
<1>4. code' = [code EXCEPT ![i].op = op, ![i].int = int, ![i].var = a] /\ scopes' = scopes
      /\ ~pushed'.new
  BY <1>1 DEF IncJump, Push, Entry
<1>5. code' = [code EXCEPT ![i] = new]
  BY <1>1, <1>2, <1>4
<1>6. new.op = op /\ new.int = int /\ new.var = a /\ new.int \in Nat
  <2>1. code[i] \in Entry /\ int \in Nat
    BY <1>1, <1>2
  <2> QED BY <2>1 DEF Entry
<1> HIDE DEF new, a
<1>7. Kept(i, new, scopes, calls, activeID, scopeID)
  <2>1. CASE a \in VarsOf(1)
    <3>1. Active = 1
      BY <1>2, <1>3, <2>1, OneScope
    <3>2. Holds(scopes[1], a)
      BY <1>2, <2>1, HoldsIs
    <3>3. i.text = "main"
      BY <1>2, <3>1
    <3> QED BY <1>6, <2>1, <3>2, <3>3 DEF Kept, KeptGlobal, KeptLocal
  <2>2. CASE a \notin VarsOf(1)
    <3>1. Active # 1 /\ new.var \in VarsOf(Active) /\ new.int = activeID /\ new.op \in KeptLocal
      BY <1>3, <1>6, <2>2 DEF KeptLocal
    <3> QED BY <3>1, LocalKept
  <2> QED BY <2>1, <2>2
<1>8. ASSUME NEW j \in Instructions
      PROVE  Kept(j, code'[j], scopes, calls, activeID, scopeID) /\ code'[j].int \in Nat
  <2>1. CASE j = i
    BY <1>1, <1>5, <1>6, <1>7, <2>1
  <2>2. CASE j # i
    BY <1>1, <1>5, <2>2 DEF KInv, AllKept
  <2> QED BY <2>1, <2>2
<1>9. NotKept(pushed', code', calls, activeID)
  BY <1>4 DEF NotKept
<1>10. AllKept(code', scopes, calls, activeID, scopeID)
  BY <1>8 DEF AllKept
<1>11. IdsSaved(tries', calls, activeID) /\ UNCHANGED <<calls, activeID, scopeID>>
  BY DEF KInv
<1>12. \A s \in 1..Len(scopes) : \A v : Holds(scopes[s], v) => Holds(scopes'[s], v)
  BY <1>4
<1> QED BY <1>8, <1>9, <1>10, <1>11, <1>12, GrownKept

LEMMA ExecuteKept ==
    ASSUME Constants, IInv, KInv, NEW i \in Running, NEW inside, Execute(i, inside)
    PROVE  KInv'
<1>1. /\ i \in Instructions /\ code \in [Instructions -> Entry]
      /\ UNCHANGED <<calls, activeID, scopeID, tries>>
  BY DEF Running, IInv, Execute
<1>2. ASSUME NEW a, PushKept(i, a) PROVE KInv'
  <2>1. scopes' = scopes /\ code' = code /\ ~pushed'.new
    BY <1>2 DEF PushKept, Push
  <2>2. IdsSaved(tries', calls, activeID)
    BY <1>1 DEF KInv
  <2> QED BY <1>1, <2>1, <2>2, QuietKept
<1>3. CASE code[i].op = "LOADADDRESS" /\ LoadAddress(code, i, inside)
  BY <1>1, <1>3, LoadKept
<1>4. CASE PushVarPtr(i, inside)
  <2> DEFINE new == [code[i] EXCEPT !.op = "LOADADDRESS", !.var = None]
             c == [code EXCEPT ![i] = new]
  <2>1. code[i] \in Entry
    BY <1>1
  <2>2. c = [code EXCEPT ![i].op = "LOADADDRESS", ![i].var = None]
    BY <1>1
  <2>3. new \in Entry
    BY <2>1 DEF Entry, Opcodes
  <2>4. new.op = "LOADADDRESS"
    BY <2>1 DEF Entry
  <2> HIDE DEF new
  <2>5. c \in [Instructions -> Entry] /\ c[i].op = "LOADADDRESS"
        /\ \A j \in Instructions : j # i => c[j] = code[j]
    BY <1>1, <2>3, <2>4
  <2> HIDE DEF c
  <2>6. CASE LoadAddress(c, i, inside)
    BY <1>1, <2>5, <2>6, LoadKept
  <2>7. CASE PushKept(i, code[i].var)
    BY <1>2, <2>7
  <2> QED BY <1>4, <2>2, <2>6, <2>7 DEF PushVarPtr
<1>5. CASE PushArg(i, inside)
  <2> DEFINE new == [code[i] EXCEPT !.op = "LOADADDRESS", !.tried = FALSE]
             c == [code EXCEPT ![i] = new]
             a == scopes[Active][code[i].int]
  <2>1. code[i] \in Entry
    BY <1>1
  <2>2. c = [code EXCEPT ![i].op = "LOADADDRESS", ![i].tried = FALSE]
    BY <1>1
  <2>3. new \in Entry
    BY <2>1 DEF Entry, Opcodes
  <2>4. new.op = "LOADADDRESS"
    BY <2>1 DEF Entry
  <2> HIDE DEF new
  <2>5. c \in [Instructions -> Entry] /\ c[i].op = "LOADADDRESS"
        /\ \A j \in Instructions : j # i => c[j] = code[j]
    BY <1>1, <2>3, <2>4
  <2> HIDE DEF c
  <2>6. CASE LoadAddress(c, i, inside)
    BY <1>1, <2>5, <2>6, LoadKept
  <2>7. CASE PushKept(i, a)
    BY <1>2, <2>7
  <2> QED BY <1>5, <2>2, <2>6, <2>7 DEF PushArg
<1>6. CASE Increment(i)
  <2>1. CASE IncJump(i)
    BY <1>1, <1>6, <2>1, IncJumpKept DEF Increment
  <2>2. CASE PushKept(i, code[i].var)
    BY <1>2, <2>2
  <2> QED BY <1>6, <2>1, <2>2 DEF Increment
<1> QED BY <1>3, <1>4, <1>5, <1>6 DEF Execute

-----------------------------------------------------------------------------
(* Try blocks, and what the program does with variables. *)

LEMMA TryKept == ASSUME Constants, IInv, KInv, Try PROVE KInv'
<1> DEFINE t == [scopes |-> Active, activeID |-> activeID, brace |-> braces[Active], loops |-> Loops]
<1>1. /\ tries' = Append(tries, t) /\ pushed' = Nothing
      /\ UNCHANGED <<scopes, activeID, calls, code, scopeID>>
  BY DEF Try
<1>2. Active = Len(calls) + 1
  BY RunningIs
<1>3. t.scopes = Active /\ t.activeID = activeID
  OBVIOUS
<1> HIDE DEF t
<1>4. tries \in Seq(Saved) /\ Len(tries) \in Nat
  BY DEF IInv, TriesIn
<1>5. Len(tries') = Len(tries) + 1 /\ tries'[Len(tries) + 1] = t
      /\ \A k \in 1..Len(tries) : tries'[k] = tries[k]
  BY <1>1, <1>4
<1>6. IdsSaved(tries', calls, activeID)
  <2> SUFFICES ASSUME NEW k \in 1..Len(tries')
               PROVE  tries'[k].activeID = IdOf(calls, activeID, tries'[k].scopes)
    BY DEF IdsSaved
  <2>1. CASE k \in 1..Len(tries)
    BY <1>5, <2>1 DEF KInv, IdsSaved
  <2>2. CASE k = Len(tries) + 1
    BY <1>2, <1>3, <1>5, <2>2 DEF IdOf
  <2> QED BY <1>4, <1>5, <2>1, <2>2
<1>7. ~pushed'.new
  BY <1>1 DEF Nothing
<1> QED BY <1>1, <1>6, <1>7, QuietKept

LEMMA DoneKept == ASSUME Constants, IInv, KInv, Done PROVE KInv'
<1>1. /\ tries # <<>> /\ tries' = Front(tries) /\ pushed' = Nothing
      /\ UNCHANGED <<scopes, activeID, calls, code, scopeID>>
  BY DEF Done
<1>2. tries \in Seq(Saved)
  BY DEF IInv, TriesIn
<1>3. Len(tries') = Len(tries) - 1 /\ \A k \in 1..Len(tries) - 1 : k \in 1..Len(tries) /\ tries'[k] = tries[k]
  BY <1>1, <1>2, FrontIs
<1>4. IdsSaved(tries', calls, activeID)
  BY <1>3 DEF KInv, IdsSaved
<1>5. ~pushed'.new
  BY <1>1 DEF Nothing
<1> QED BY <1>1, <1>4, <1>5, QuietKept

(* Assignments, ends of loops and braces leave the scopes alone. *)
LEMMA SameScopesKept ==
    ASSUME Constants, IInv, KInv, ~pushed'.new,
           UNCHANGED <<scopes, scopeID, activeID, calls, tries, code>>
    PROVE  KInv'
<1>1. IdsSaved(tries', calls, activeID)
  BY DEF KInv
<1> QED BY <1>1, QuietKept

LEMMA StartLoopKept ==
    ASSUME Constants, IInv, KInv, NEW n, NEW in, StartLoop(n, in)
    PROVE  KInv'
<1>1. pushed' = Nothing /\ UNCHANGED <<scopeID, activeID, calls, tries, code>>
  BY DEF StartLoop
<1>2. ~pushed'.new
  BY <1>1 DEF Nothing
<1>3. CASE scopes' = scopes
  BY <1>1, <1>2, <1>3, SameScopesKept
<1>4. CASE \E b \in Unused : scopes' = Added(scopes, b)
  <2>1. PICK b \in Lists : scopes' = Added(scopes, b)
    BY <1>4 DEF Unused
  <2>2. \A s \in 1..Len(scopes) : \A v : Holds(scopes[s], v) => Holds(scopes'[s], v)
    BY <2>1, AddedHolds
  <2>3. IdsSaved(tries', calls, activeID)
    BY <1>1 DEF KInv
  <2> QED BY <1>1, <1>2, <2>2, <2>3, QuietKept
<1>5. \/ scopes' = scopes
      \/ \E b \in Unused : scopes' = [scopes EXCEPT ![Active] = Append(@, b)]
  BY DEF StartLoop
<1> QED BY <1>3, <1>4, <1>5 DEF Added, Active

-----------------------------------------------------------------------------
(* Errors, calls and returns. *)

LEMMA RaiseKept ==
    ASSUME Constants, IInv, KInv, Catch(scopes, heap, argCount, 0), scopeID' = scopeID, code' = code
    PROVE  KInv'
<1>1. /\ Data(scopes, heap, argCount) /\ argCount \in 0..CacheSize /\ code \in [Instructions -> Entry]
  BY DEF IInv
<1>2. scopeID \in Nat /\ Len(scopes) <= Len(scopes)
  BY ControlIs
<1>3. /\ IdsRise(calls, activeID, scopeID) /\ IdsSaved(tries, calls, activeID)
      /\ AllKept(code, scopes, calls, activeID, scopeID)
  BY DEF KInv
<1> QED BY <1>1, <1>2, <1>3, CatchKept

LEMMA CutHolds ==
    ASSUME NEW scs \in Seq(Seq(Lists)), scs # <<>>, scs[Len(scs)] # <<>>,
           NEW s \in 1..Len(scs), NEW v, Holds(scs[s], v), s = Len(scs) => v # Last(scs[Len(scs)])
    PROVE  Holds(Cut(scs)[s], v)
<1> DEFINE L == Len(scs)
           w == scs[L]
<1>1. L \in Nat /\ L \in 1..L /\ w \in Seq(Lists) /\ w # <<>> /\ Len(w) \in Nat
  OBVIOUS
<1>2. Cut(scs) = [scs EXCEPT ![L] = Front(w)]
  BY DEF Cut
<1>3. CASE s # L
  BY <1>2, <1>3
<1>4. CASE s = L
  <2>1. Cut(scs)[s] = Front(w)
    BY <1>1, <1>2, <1>4
  <2>2. PICK x \in 1..Len(w) : w[x] = v
    BY <1>4 DEF Holds
  <2>3. v # w[Len(w)]
    BY <1>4 DEF Last
  <2> HIDE DEF w
  <2>4. x \in 1..Len(w) - 1
    BY <1>1, <2>2, <2>3
  <2>5. Len(Front(w)) = Len(w) - 1 /\ Front(w)[x] = v
    BY <1>1, <2>2, <2>4, FrontIs
  <2> QED BY <2>1, <2>4, <2>5 DEF Holds
<1> QED BY <1>3, <1>4

(* A variable that ring_vm_checknull() deletes was made a moment ago, and  *)
(* nothing keeps it.                                                       *)
LEMMA DroppedKept ==
    ASSUME Constants, IInv, KInv, pushed.new, scopes[Active] # <<>>,
           Last(scopes[Active]) = pushed.var
    PROVE  AllKept(code, Cut(scopes), calls, activeID, scopeID)
<1> DEFINE a == pushed.var
           rest == Cut(scopes)
<1>1. /\ scopes \in Seq(Seq(Lists)) /\ scopes # <<>> /\ scopeID \in Nat
  BY ControlIs
<1>2. /\ Active = Len(scopes) /\ Active \in 1..Len(scopes) /\ 1 \in 1..Len(scopes)
      /\ Active = Len(calls) + 1 /\ (calls # <<>> <=> Active \in 2..Len(calls) + 1)
      /\ Len(calls) \in Nat
  BY RunningIs, ControlIs
<1>3. NotKept(pushed, code, calls, activeID)
  BY DEF KInv
<1> SUFFICES ASSUME NEW i \in Instructions
             PROVE  Kept(i, code[i], rest, calls, activeID, scopeID)
  BY DEF AllKept
<1>4. ASSUME NEW s \in 1..Len(scopes), NEW v, Holds(scopes[s], v), s = Active => v # a
      PROVE  Holds(rest[s], v)
  <2>1. s = Len(scopes) => v # Last(scopes[Len(scopes)])
    BY <1>2, <1>4
  <2>2. scopes[Len(scopes)] # <<>>
    BY <1>2
  <2> QED BY <1>1, <1>4, <2>1, <2>2, CutHolds
<1>5. Kept(i, code[i], scopes, calls, activeID, scopeID) /\ code[i].int \in Nat
  BY ControlIs DEF KInv, AllKept
<1>6. code[i].op \in KeptGlobal => code[i].var # a
  BY <1>3 DEF NotKept
<1>7. ASSUME NEW s \in 2..Len(calls) + 1, code[i].op \in KeptLocal,
             IdOf(calls, activeID, s) = code[i].int, s = Active
      PROVE  code[i].var # a
  <2>1. code[i].int = activeID /\ calls # <<>>
    BY <1>2, <1>7 DEF IdOf
  <2> QED BY <1>3, <1>7, <2>1 DEF NotKept
<1> HIDE DEF rest, a
<1>8. code[i].op \in KeptGlobal /\ Holds(scopes[1], code[i].var) => Holds(rest[1], code[i].var)
  BY <1>2, <1>4, <1>6
<1>9. ASSUME NEW s \in 2..Len(calls) + 1, code[i].op \in KeptLocal,
             IdOf(calls, activeID, s) = code[i].int, Holds(scopes[s], code[i].var)
      PROVE  Holds(rest[s], code[i].var)
  <2>1. s \in 1..Len(scopes)
    BY <1>2
  <2> QED BY <1>4, <1>7, <1>9, <2>1
<1>10. \A s \in 1..Len(calls) + 1 : IdOf(calls, activeID, s) = IdOf(calls, activeID, s)
  OBVIOUS
<1>11. scopeID <= scopeID /\ Len(calls) <= Len(calls)
  BY <1>1, <1>2
<1> QED BY <1>1, <1>2, <1>5, <1>8, <1>9, <1>10, <1>11, KeptStays

LEMMA ReadNullKept == ASSUME Constants, IInv, KInv, Lasting, ReadNull PROVE KInv'
<1> DEFINE a == pushed.var
           last == scopes[Active] # <<>> /\ Last(scopes[Active]) = a
           rest == [scopes EXCEPT ![Active] = Front(@)]
           g == [b \in DOMAIN heap \ {a} |-> heap[b]]
<1>1. /\ a \in DOMAIN heap /\ heap[a].null
      /\ last => Catch(rest, g, argCount, 0) /\ pushed.new
      /\ ~last => Catch(scopes, heap, argCount, 0)
      /\ scopeID' = scopeID /\ code' = code
  BY DEF ReadNull, Lasting
<1>2. /\ scopes \in Seq(Seq(Lists)) /\ scopes # <<>> /\ CacheSize \in Nat /\ scopeID \in Nat
      /\ code \in [Instructions -> Entry] /\ argCount \in 0..CacheSize
      /\ Active = Len(scopes) /\ Len(scopes) <= Len(scopes)
  BY ControlIs, RunningIs DEF IInv, Constants
<1>3. ~heap[a].cached
  BY <1>1 DEF IInv, Data, Placed
<1>4. CASE last
  <2>1. /\ scopes[Active] # <<>> /\ Last(scopes[Active]) = a
        /\ rest = Cut(scopes) /\ g = Without(heap, a) /\ pushed.new
    BY <1>1, <1>2, <1>4 DEF Cut, Without
  <2>2. Data(rest, g, argCount) /\ Len(rest) = Len(scopes)
    <3> HIDE DEF rest, g, a, last
    <3> QED BY <1>2, <1>3, <2>1, VariableDropped DEF IInv
  <2>3. AllKept(code, rest, calls, activeID, scopeID)
    BY <2>1, DroppedKept
  <2>4. IdsRise(calls, activeID, scopeID) /\ IdsSaved(tries, calls, activeID)
    BY DEF KInv
  <2> HIDE DEF rest, g, a, last
  <2>5. Catch(rest, g, argCount, 0) /\ Len(scopes) <= Len(rest)
    BY <1>1, <1>2, <1>4, <2>2
  <2> QED BY <1>1, <1>2, <2>2, <2>3, <2>4, <2>5, CatchKept
<1>5. CASE ~last
  BY <1>1, <1>5, RaiseKept
<1> QED BY <1>4, <1>5

(* One scope more. *)
LEMMA AppendedHolds ==
    ASSUME NEW scs, scs \in Seq(Seq(Lists)), NEW w, w \in Seq(Lists), NEW s \in 1..Len(scs)
    PROVE  Append(scs, w)[s] = scs[s]
OBVIOUS

LEMMA CallFailsKept ==
    ASSUME Constants, IInv, KInv, Lasting, NEW n \in 0..Len(Params), CallFails(n)
    PROVE  KInv'
<1> DEFINE kinds == [x \in 1..n |-> "value"]
<1>1. PICK fresh \in Fresh(n) :
          Catch(Append(scopes, ArgLists(n, fresh)), WithArgs(ArgLists(n, fresh), kinds), Left(n), 0)
  BY DEF CallFails
<1>2. NewScope
  BY DEF CallFails
<1>3. kinds \in [1..n -> {"value", "pointer"}]
  OBVIOUS
<1> DEFINE scs == Append(scopes, ArgLists(n, fresh))
           h == WithArgs(ArgLists(n, fresh), kinds)
<1> HIDE DEF kinds
<1>4. Left(n) \in 0..CacheSize /\ Data(scs, h, Left(n)) /\ ArgLists(n, fresh) \in Seq(Lists)
  <2>1. Data(scopes, heap, argCount) /\ argCount \in 0..CacheSize
    BY DEF IInv
  <2>2. Left(n) \in 0..CacheSize /\ Data(scs, h, Left(n))
    BY <1>3, <2>1, ScopeAdded DEF Constants
  <2>3. scs \in Seq(Seq(Lists)) /\ scopes \in Seq(Seq(Lists)) /\ Len(scs) = Len(scopes) + 1
        /\ scs[Len(scopes) + 1] = ArgLists(n, fresh)
    BY <2>2, ControlIs DEF Data, Placed
  <2>4. Len(scopes) + 1 \in 1..Len(scs)
    BY <2>3
  <2> QED BY <2>2, <2>3, <2>4
<1>5. /\ scopes \in Seq(Seq(Lists)) /\ Len(scopes) \in Nat /\ Len(scopes) <= Len(scs)
      /\ \A s \in 1..Len(scopes) : scs[s] = scopes[s]
  <2>1. scopes \in Seq(Seq(Lists)) /\ Len(scopes) \in Nat
    BY ControlIs
  <2>2. Len(scs) = Len(scopes) + 1
    BY <2>1
  <2> QED BY <1>4, <2>1, <2>2
<1>6. /\ IdsRise(calls, activeID, NextID) /\ NextID \in Nat
      /\ AllKept(code', scopes, calls, activeID, NextID)
      /\ code' \in [Instructions -> Entry] /\ scopeID' = NextID
  BY <1>2, NewScopeKept DEF NewScope
<1>7. Catch(scs, h, Left(n), 0)
  BY <1>1
<1>8. IdsSaved(tries, calls, activeID)
  BY DEF KInv
<1> HIDE DEF scs, h
<1>9. ASSUME NEW i \in Instructions PROVE Kept(i, code'[i], scs, calls, activeID, NextID)
  <2>1. Kept(i, code'[i], scopes, calls, activeID, NextID)
    BY <1>6 DEF AllKept
  <2>2. 1 \in 1..Len(scopes) /\ \A s \in 2..Len(calls) + 1 : s \in 1..Len(scopes)
    BY ControlIs
  <2> QED BY <1>5, <2>1, <2>2 DEF Kept
<1>10. AllKept(code', scs, calls, activeID, NextID)
  BY <1>9 DEF AllKept
<1> HIDE DEF NextID
<1> QED BY <1>4, <1>5, <1>6, <1>7, <1>8, <1>10, CatchKept

LEMMA CallKept ==
    ASSUME Constants, IInv, KInv, Lasting, NEW kinds \in Kinds, Call(kinds)
    PROVE  KInv'
<1> DEFINE n == Len(Params)
<1>1. PICK fresh \in Fresh(n) : scopes' = Append(scopes, ArgLists(n, fresh))
  BY DEF Call
<1> DEFINE w == ArgLists(n, fresh)
           L == Len(calls)
<1>2. /\ activeID' = NextID /\ NewScope /\ scopeID' = NextID
      /\ calls' = Append(calls, activeID) /\ tries' = tries /\ pushed' = Nothing
  BY DEF Call, NewScope
<1>3. /\ IdsRise(calls, activeID, NextID) /\ NextID \in Nat
      /\ AllKept(code', scopes, calls, activeID, NextID)
      /\ \A i \in Instructions : code'[i].op \in KeptLocal => code'[i].int < NextID
      /\ \A s \in 2..Len(calls) + 1 : IdOf(calls, activeID, s) < NextID
      /\ code' \in [Instructions -> Entry]
  BY <1>2, NewScopeKept
<1>4. /\ calls \in Seq(Ids) /\ L \in Nat /\ Len(scopes) = L + 1 /\ activeID \in Ids
      /\ scopes \in Seq(Seq(Lists))
      /\ \A s \in 1..L + 1 : IdOf(calls, activeID, s) \in Nat
  BY ControlIs DEF IInv
<1> HIDE DEF w, n, NextID
<1>5. Len(calls') = L + 1 /\ \A s \in 1..L + 1 : calls'[s] = IF s = L + 1 THEN activeID ELSE calls[s]
  BY <1>2, <1>4
<1>6. scopes' = Append(scopes, w) /\ Len(scopes') = L + 2 /\ \A s \in 1..L + 1 : scopes'[s] = scopes[s]
  <2>1. scopes' = Append(scopes, w)
    BY <1>1 DEF w
  <2>2. Len(scopes) \in Nat /\ Len(scopes') = Len(scopes) + 1
    BY <1>4, <2>1
  <2>3. ASSUME NEW s \in 1..Len(scopes) PROVE Append(scopes, w)[s] = scopes[s]
    BY <1>4
  <2> QED BY <1>4, <2>1, <2>2, <2>3
<1>7. /\ IdOf(calls', NextID, L + 2) = NextID
      /\ \A s \in 1..L + 1 : IdOf(calls', NextID, s) = IdOf(calls, activeID, s)
  BY <1>4, <1>5 DEF IdOf
<1>8. IdsRise(calls', NextID, NextID)
  <2>1. IdOf(calls', NextID, 1) = 0
    BY <1>3, <1>4, <1>7 DEF IdsRise
  <2>2. ASSUME NEW s \in 2..L + 2 PROVE s = L + 2 \/ (s \in 2..L + 1 /\ s \in 1..L + 1)
    BY <1>4
  <2>3. \A s \in 2..L + 2 : IdOf(calls', NextID, s) <= NextID
    BY <1>3, <1>7, <2>2 DEF IdsRise
  <2>4. ASSUME NEW s \in 2..L + 2, NEW t \in 2..L + 2, s < t
        PROVE  IdOf(calls', NextID, s) < IdOf(calls', NextID, t)
    <3>1. s \in 2..L + 1 /\ s \in 1..L + 1
      BY <1>4, <2>4
    <3>2. CASE t = L + 2
      BY <1>3, <1>7, <3>1, <3>2
    <3>3. CASE t # L + 2
      <4>1. t \in 2..L + 1 /\ t \in 1..L + 1
        BY <2>2, <3>3
      <4> QED BY <1>3, <1>7, <2>4, <3>1, <4>1 DEF IdsRise
    <3> QED BY <3>2, <3>3
  <2>5. 2..Len(calls') + 1 = 2..L + 2
    BY <1>4, <1>5
  <2> QED BY <2>1, <2>3, <2>4, <2>5 DEF IdsRise
<1>9. IdsSaved(tries, calls', NextID)
  <2> SUFFICES ASSUME NEW k \in 1..Len(tries)
               PROVE  tries[k].activeID = IdOf(calls', NextID, tries[k].scopes)
    BY DEF IdsSaved
  <2>1. tries[k].scopes \in 1..L + 1
    BY <1>4 DEF IInv, TriesIn
  <2> QED BY <1>7, <2>1 DEF KInv, IdsSaved
<1>10. ASSUME NEW i \in Instructions PROVE Kept(i, code'[i], scopes', calls', NextID, NextID)
  <2>1. Kept(i, code'[i], scopes, calls, activeID, NextID)
    BY <1>3 DEF AllKept
  <2>2. code'[i].int \in Nat
    BY <1>3 DEF Entry
  <2>3. 1 \in 1..L + 1
    BY <1>4
  <2>4. ASSUME code'[i].op \in KeptLocal, NEW s \in 2..Len(calls') + 1,
               IdOf(calls', NextID, s) = code'[i].int
        PROVE  Holds(scopes'[s], code'[i].var)
    <3>1. s # L + 2
      BY <1>3, <1>7, <2>2, <2>4
    <3>2. s \in 2..L + 1 /\ s \in 1..L + 1
      BY <1>4, <1>5, <3>1
    <3>3. Holds(scopes[s], code'[i].var)
      BY <1>7, <2>1, <2>4, <3>2 DEF Kept
    <3> QED BY <1>6, <3>2, <3>3
  <2>5. code'[i].op \in KeptGlobal => Holds(scopes'[1], code'[i].var)
    BY <1>6, <2>1, <2>3 DEF Kept
  <2> QED BY <2>1, <2>4, <2>5 DEF Kept
<1>11. AllKept(code, scopes, calls, activeID, scopeID)'
  BY <1>2, <1>10 DEF AllKept, Kept, IdOf, Holds, KeptGlobal, KeptLocal
<1>12. IdsRise(calls, activeID, scopeID)' /\ IdsSaved(tries, calls, activeID)'
  BY <1>2, <1>8, <1>9 DEF IdsRise, IdsSaved, IdOf
<1>13. NotKept(pushed, code, calls, activeID)'
  BY <1>2 DEF NotKept, Nothing
<1> QED BY <1>11, <1>12, <1>13 DEF KInv

LEMMA ReturnKept ==
    ASSUME Constants, IInv, KInv, NEW swapped, Return(swapped)
    PROVE  KInv'
<1> DEFINE n == Len(calls)
           cs2 == Front(calls)
           act2 == Last(calls)
<1>1. /\ calls # <<>> /\ scopes' = SubSeq(scopes, 1, Len(scopes) - 1)
      /\ activeID' = act2 /\ calls' = cs2 /\ pushed' = Nothing
      /\ scopeID' = scopeID /\ tries' = tries /\ code' = code
      /\ \A k \in DOMAIN tries : tries[k].scopes # Len(scopes)
  BY DEF Return, InFunction, InThisScope, Active, DeleteScopes
<1>2. /\ calls \in Seq(Ids) /\ n \in Nat /\ Len(scopes) = n + 1
      /\ scopeID \in Nat /\ scopes \in Seq(Seq(Lists))
      /\ \A i \in Instructions : code[i].int \in Nat
  BY ControlIs
<1>3. n >= 1 /\ n \in 1..n /\ n \in 1..n + 1 /\ n <= Len(scopes) /\ Len(scopes) - 1 = n
  BY <1>1, <1>2
<1>4. cs2 = SubSeq(calls, 1, n - 1) /\ act2 = IdOf(calls, activeID, n)
  <2>1. cs2 = SubSeq(calls, 1, n - 1) /\ act2 = calls[n]
    BY DEF Front, Last
  <2>2. n # Len(calls) + 1
    BY <1>2
  <2> QED BY <2>1, <2>2 DEF IdOf
<1>5. /\ Len(cs2) = n - 1 /\ Len(cs2) \in Nat /\ Len(cs2) <= n
      /\ \A s \in 1..n : IdOf(cs2, act2, s) = IdOf(calls, activeID, s)
  BY <1>2, <1>3, <1>4, IdsCut
<1>6. scopes' = SubSeq(scopes, 1, n)
  BY <1>1, <1>3
<1> HIDE DEF n, cs2, act2
<1>7. \A s \in 1..n : scopes'[s] = scopes[s]
  BY <1>2, <1>3, <1>6, PrefixIs
<1>8. Len(cs2) + 1 = n
  BY <1>2, <1>5
<1>9. IdsRise(cs2, act2, scopeID)
  <2>1. IdsRise(calls, activeID, scopeID)
    BY DEF KInv
  <2> QED BY <1>2, <1>5, <1>8, <2>1, IdsRiseCut DEF n
<1>10. IdsSaved(tries, cs2, act2)
  <2> SUFFICES ASSUME NEW k \in 1..Len(tries)
               PROVE  tries[k].activeID = IdOf(cs2, act2, tries[k].scopes)
    BY DEF IdsSaved
  <2>1. tries[k].scopes \in 1..Len(scopes) /\ k \in DOMAIN tries
    BY DEF IInv, TriesIn
  <2>2. tries[k].scopes \in 1..n
    BY <1>1, <1>2, <2>1
  <2> QED BY <1>5, <2>2 DEF KInv, IdsSaved
<1>11. ASSUME NEW i \in Instructions PROVE Kept(i, code[i], scopes', cs2, act2, scopeID)
  <2>1. Kept(i, code[i], scopes, calls, activeID, scopeID) /\ code[i].int \in Nat /\ scopeID <= scopeID
    BY <1>2 DEF KInv, AllKept
  <2>2. 1 \in 1..n /\ \A s \in 2..Len(cs2) + 1 : s \in 1..n
    BY <1>3, <1>8
  <2>3. /\ Holds(scopes[1], code[i].var) => Holds(scopes'[1], code[i].var)
        /\ \A s \in 2..Len(cs2) + 1 : Holds(scopes[s], code[i].var) => Holds(scopes'[s], code[i].var)
    BY <1>7, <2>2
  <2>4. \A s \in 1..Len(cs2) + 1 : IdOf(cs2, act2, s) = IdOf(calls, activeID, s)
    BY <1>5, <1>8
  <2> QED BY <1>2, <1>5, <2>1, <2>3, <2>4, KeptStays DEF n
<1>12. AllKept(code, scopes, calls, activeID, scopeID)'
  BY <1>1, <1>11 DEF AllKept, Kept, IdOf, Holds, KeptGlobal, KeptLocal
<1>13. IdsRise(calls, activeID, scopeID)' /\ IdsSaved(tries, calls, activeID)'
  BY <1>1, <1>9, <1>10 DEF IdsRise, IdsSaved, IdOf
<1>14. NotKept(pushed, code, calls, activeID)'
  BY <1>1 DEF NotKept, Nothing
<1> QED BY <1>12, <1>13, <1>14 DEF KInv

-----------------------------------------------------------------------------
(* What instructions keep stays there. *)

LEMMA StartsKept == ASSUME Init PROVE KInv
<1>1. /\ calls = <<>> /\ tries = <<>> /\ activeID = 0 /\ scopeID = 0 /\ pushed = Nothing
      /\ code = [i \in Instructions |->
                   [op |-> FirstOpcode(i), int |-> 0, var |-> None, kind |-> "none", tried |-> FALSE]]
  BY DEF Init
<1>2. Len(calls) = 0 /\ Len(tries) = 0 /\ \A s \in 2..Len(calls) + 1 : FALSE
  BY <1>1
<1>3. IdsRise(calls, activeID, scopeID)
  BY <1>1, <1>2 DEF IdsRise, IdOf
<1>4. IdsSaved(tries, calls, activeID)
  BY <1>2 DEF IdsSaved
<1>5. \A i \in Instructions : code[i].op \notin KeptGlobal \cup KeptLocal \cup {"PUSHARG", "INCPJUMP"}
  BY <1>1 DEF FirstOpcode, KeptGlobal, KeptLocal
<1>6. AllKept(code, scopes, calls, activeID, scopeID)
  BY <1>5 DEF AllKept, Kept
<1>7. NotKept(pushed, code, calls, activeID)
  BY <1>1 DEF NotKept, Nothing
<1> QED BY <1>3, <1>4, <1>6, <1>7 DEF KInv

LEMMA StepsKept == ASSUME Constants, Harmless, Lasting, IInv, KInv, [Next]_vars PROVE KInv'
<1>1. CASE \E i \in Running, inside \in BOOLEAN : Execute(i, inside)
  BY <1>1, ExecuteKept
<1>2. CASE Try
  BY <1>2, TryKept
<1>3. CASE Done
  BY <1>3, DoneKept
<1>4. CASE \E region \in BOOLEAN : Raise(region)
  <2>1. PICK region \in BOOLEAN : Raise(region)
    BY <1>4
  <2>2. ~region
    BY <2>1 DEF Raise, Harmless
  <2>3. Catch(scopes, heap, argCount, 0) /\ scopeID' = scopeID /\ code' = code
    BY <2>1, <2>2 DEF Raise
  <2> QED BY <2>3, RaiseKept
<1>5. CASE \E kinds \in Kinds : Call(kinds)
  BY <1>5, CallKept
<1>6. CASE \E n \in 0..Len(Params) : CallFails(n)
  BY <1>6, CallFailsKept
<1>7. CASE \E swapped \in {{}} \cup {{a} : a \in CachedArgs} : Return(swapped)
  BY <1>7, ReturnKept
<1>8. CASE Assign \/ OpenBraces \/ CloseBraces \/ \E i \in Running : EndForIn(i.name)
  <2>1. pushed' = Nothing /\ UNCHANGED <<scopes, scopeID, activeID, calls, tries, code>>
    BY <1>8 DEF Assign, OpenBraces, CloseBraces, EndForIn
  <2>2. ~pushed'.new
    BY <2>1 DEF Nothing
  <2> QED BY <2>1, <2>2, SameScopesKept
<1>9. CASE ReadNull
  BY <1>9, ReadNullKept
<1>10. CASE \E i \in Running, in \in BOOLEAN : StartLoop(i.name, in)
  BY <1>10, StartLoopKept
<1>11. CASE UNCHANGED vars
  <2>1. UNCHANGED <<scopes, scopeID, activeID, calls, tries, code, pushed>>
    BY <1>11 DEF vars
  <2> QED BY <2>1 DEF KInv, IdsRise, IdsSaved, IdOf, AllKept, Kept, Holds, NotKept, KeptGlobal, KeptLocal
<1> QED BY <1>1, <1>2, <1>3, <1>4, <1>5, <1>6, <1>7, <1>8, <1>9, <1>10, <1>11, Zenon DEF Next

LEMMA KeptIsAlive == ASSUME Constants, IInv, KInv PROVE KeptAlive
<1> SUFFICES ASSUME NEW i \in Running
             PROVE  /\ code[i].op \in {"PUSHP", "PUSHPLOCAL", "INCLPJUMP"} /\ code[i].int = activeID
                         => code[i].var \in VarsOf(Active) \cup VarsOf(1)
                    /\ code[i].op = "INCPJUMP" => code[i].var \in VarsOf(1)
  BY DEF KeptAlive
<1>1. /\ i \in Instructions /\ i.text = IF Active = 1 THEN "main" ELSE "function"
      /\ 1 \in 1..Len(scopes) /\ Active \in 1..Len(scopes) /\ Active = Len(calls) + 1
      /\ (calls # <<>> <=> Active \in 2..Len(calls) + 1) /\ (calls = <<>> <=> Active = 1)
  BY RunningIs
<1>2. Kept(i, code[i], scopes, calls, activeID, scopeID)
  BY <1>1 DEF KInv, AllKept
<1>3. ASSUME code[i].op \in KeptGlobal PROVE code[i].var \in VarsOf(1)
  BY <1>1, <1>2, <1>3, HoldsIs DEF Kept
<1>4. ASSUME code[i].op \in KeptLocal, code[i].int = activeID PROVE code[i].var \in VarsOf(Active)
  <2>1. Active \in 2..Len(calls) + 1
    BY <1>1, <1>2, <1>4 DEF Kept
  <2>2. IdOf(calls, activeID, Active) = code[i].int
    BY <1>1, <1>4 DEF IdOf
  <2>3. Holds(scopes[Active], code[i].var)
    BY <1>2, <1>4, <2>1, <2>2 DEF Kept
  <2> QED BY <1>1, <2>3, HoldsIs
<1> QED BY <1>3, <1>4 DEF KeptGlobal, KeptLocal

LEMMA KeptInvariant == ASSUME Harmless, Lasting PROVE Spec => [](IInv /\ KInv)
<1>1. Init => IInv /\ KInv
  BY ConstantsHold, Starts, StartsKept
<1>2. IInv /\ KInv /\ [Next]_vars => (IInv /\ KInv)'
  BY ConstantsHold, Steps, StepsKept
<1> QED BY <1>1, <1>2, PTL DEF Spec

(* An instruction that kept an address never uses one of a variable that   *)
(* is gone: scopes of calls have different IDs as long as none lives while *)
(* the IDs start again, ring_vm_afterscopeidoverflow() makes instructions  *)
(* forget those of ended calls, and the global scope only loses variables  *)
(* that nothing keeps.                                                     *)
THEOREM KeptAlwaysAlive == ASSUME Harmless, Lasting PROVE Spec => []KeptAlive
<1>1. IInv /\ KInv => KeptAlive
  BY ConstantsHold, KeptIsAlive
<1> QED BY <1>1, KeptInvariant, PTL

-----------------------------------------------------------------------------
(* Names.  In a program of no unusual shape, the name that an instruction  *)
(* looks up leads to one variable, and an instruction that has found it    *)
(* runs where the same one would be found again.                           *)

Has(scs, h, s, n) == \E x \in 1..Len(scs[s]) : h[scs[s][x]].name = n

(* In scope s no name is there twice; the parameters come first, and no    *)
(* other variable of a call hides a global one.                            *)
WellNamed(scs, h, s) ==
    /\ \A x \in 1..Len(scs[s]) : \A y \in 1..Len(scs[s]) :
           h[scs[s][x]].name = h[scs[s][y]].name => x = y
    /\ s # 1 =>
        /\ Len(Params) <= Len(scs[s])
        /\ \A x \in 1..Len(Params) : h[scs[s][x]].name = Params[Len(Params) - x + 1]
        /\ \A x \in 1..Len(scs[s]) : x > Len(Params) => ~Has(scs, h, 1, h[scs[s][x]].name)
    /\ \A x \in 1..Len(scs[s]) : h[scs[s][x]].kind # "none" <=> s # 1 /\ x <= Len(Params)

(* Only an argument given by reference is a reference for long, and only a *)
(* local or a global variable can be without a value.                      *)
Plain(v) ==
    (v.kind = "pointer" <=> v.ref = "arg") /\ v.ref # "left" /\ (v.null => v.kind = "none")

(* Braces hide no global variable in a function. *)
Unhidden(scs, h, bs, s) ==
    s # 1 /\ bs[s] => \A n \in Attributes : Has(scs, h, 1, n) => Has(scs, h, s, n)

Fine(scs, h, bs, n) ==
    \A s \in 1..n : /\ WellNamed(scs, h, s) /\ Unhidden(scs, h, bs, s)
                    /\ \A x \in 1..Len(scs[s]) : Plain(h[scs[s][x]])

(* Braces that a try block knows are open, also for a later one there. *)
Braced(ts, bs) ==
    /\ \A k \in 1..Len(ts) : ts[k].brace => bs[ts[k].scopes]
    /\ \A j \in 1..Len(ts) : \A k \in 1..Len(ts) :
           j <= k /\ ts[j].scopes = ts[k].scopes /\ ts[j].brace => ts[k].brace

(* What instruction i keeps, when it is ins, is what its name stands for.  *)
KeptNamed(i, ins, h, cs, act) ==
    /\ ins.op \in KeptGlobal => h[ins.var].name = i.name
    /\ ins.op = "PUSHP" /\ i.text = "function" => i.name \notin ToSet(Params)
    /\ ins.op \in KeptLocal =>
         \A s \in 2..Len(cs) + 1 : IdOf(cs, act, s) = ins.int =>
             h[ins.var].name = i.name /\ (ins.op = "PUSHPLOCAL" => h[ins.var].kind # "pointer")
    /\ ins.op = "PUSHARG" =>
         /\ ins.int \in 1..Len(Params) /\ Params[Len(Params) - ins.int + 1] = i.name
         /\ ins.kind = "value"

AllNamed(c, h, cs, act) == \A i \in Instructions : KeptNamed(i, c[i], h, cs, act)

NInv ==
    /\ Fine(scopes, heap, braces, Len(scopes)) /\ Braced(tries, braces)
    /\ AllNamed(code, heap, calls, activeID)
    /\ LoadIsLookup

(* The program has no unusual shape, and no two parameters have one name.  *)
Usual == Programs = {} /\ IsInjective(Params)

(* In the first n scopes, variables have the names and kinds in g that     *)
(* they have in h.                                                         *)
SameNames(scs, n, h, g) ==
    \A s \in 1..n : \A x \in 1..Len(scs[s]) :
        g[scs[s][x]].name = h[scs[s][x]].name /\ g[scs[s][x]].kind = h[scs[s][x]].kind

LEMMA HasSame ==
    ASSUME NEW scs, NEW h, NEW scs2, NEW g, NEW n \in Nat, \A s \in 1..n : scs2[s] = scs[s],
           SameNames(scs, n, h, g), NEW s \in 1..n, NEW name
    PROVE  Has(scs2, g, s, name) <=> Has(scs, h, s, name)
<1>1. \A x \in 1..Len(scs[s]) : g[scs[s][x]].name = h[scs[s][x]].name
  BY DEF SameNames
<1>2. scs2[s] = scs[s]
  OBVIOUS
<1> QED BY <1>1, <1>2 DEF Has

LEMMA NamedStays ==
    ASSUME NEW scs, NEW h, NEW scs2, NEW g, NEW n \in Nat, n >= 1, \A s \in 1..n : scs2[s] = scs[s],
           SameNames(scs, n, h, g), NEW s \in 1..n, WellNamed(scs, h, s)
    PROVE  WellNamed(scs2, g, s)
<1>1. /\ scs2[s] = scs[s] /\ 1 \in 1..n
      /\ \A x \in 1..Len(scs[s]) : g[scs[s][x]].name = h[scs[s][x]].name /\ g[scs[s][x]].kind = h[scs[s][x]].kind
  BY DEF SameNames
<1>2. \A name : Has(scs2, g, 1, name) <=> Has(scs, h, 1, name)
  BY <1>1, HasSame
<1>3. \A x \in 1..Len(scs[s]) : \A y \in 1..Len(scs[s]) :
          g[scs[s][x]].name = g[scs[s][y]].name => x = y
  BY <1>1 DEF WellNamed
<1>4. ASSUME s # 1
      PROVE  /\ Len(Params) <= Len(scs[s])
             /\ \A x \in 1..Len(Params) : g[scs[s][x]].name = Params[Len(Params) - x + 1]
             /\ \A x \in 1..Len(scs[s]) : x > Len(Params) => ~Has(scs2, g, 1, g[scs[s][x]].name)
  <2>1. /\ Len(Params) <= Len(scs[s])
        /\ \A x \in 1..Len(Params) : h[scs[s][x]].name = Params[Len(Params) - x + 1]
        /\ \A x \in 1..Len(scs[s]) : x > Len(Params) => ~Has(scs, h, 1, h[scs[s][x]].name)
    BY <1>4 DEF WellNamed
  <2>2. ASSUME NEW x \in 1..Len(scs[s]), x > Len(Params) PROVE ~Has(scs2, g, 1, g[scs[s][x]].name)
    <3>1. ~Has(scs, h, 1, h[scs[s][x]].name)
      BY <2>1, <2>2, Zenon
    <3>3. g[scs[s][x]].name = h[scs[s][x]].name
      BY <1>1
    <3>2. ~Has(scs2, g, 1, h[scs[s][x]].name)
      BY <1>2, <3>1
    <3> QED BY <3>2, <3>3
  <2>3. \A x \in 1..Len(Params) : g[scs[s][x]].name = Params[Len(Params) - x + 1]
    <3>1. ASSUME NEW x \in 1..Len(Params) PROVE x \in 1..Len(scs[s])
      <4>1. x \in Int /\ x >= 1 /\ x <= Len(Params)
        OBVIOUS
      <4> QED BY <2>1, <4>1
    <3> QED BY <1>1, <2>1, <3>1
  <2> QED BY <2>1, <2>2, <2>3
<1>5. \A x \in 1..Len(scs[s]) : g[scs[s][x]].kind # "none" <=> s # 1 /\ x <= Len(Params)
  BY <1>1 DEF WellNamed
<1> QED BY <1>1, <1>3, <1>4, <1>5 DEF WellNamed

(* Fewer braces, and the same names. *)
LEMMA FineStays ==
    ASSUME NEW scs, NEW h, NEW bs, NEW n \in Nat, n >= 1, Fine(scs, h, bs, n),
           NEW scs2, NEW g, NEW bs2, \A s \in 1..n : scs2[s] = scs[s], SameNames(scs, n, h, g),
           \A s \in 1..n : bs2[s] => bs[s],
           \A s \in 1..n : \A x \in 1..Len(scs[s]) : Plain(g[scs[s][x]])
    PROVE  Fine(scs2, g, bs2, n)
<1> SUFFICES ASSUME NEW s \in 1..n
             PROVE  /\ WellNamed(scs2, g, s) /\ Unhidden(scs2, g, bs2, s)
                    /\ \A x \in 1..Len(scs2[s]) : Plain(g[scs2[s][x]])
  BY DEF Fine
<1>1. WellNamed(scs, h, s) /\ Unhidden(scs, h, bs, s) /\ scs2[s] = scs[s] /\ 1 \in 1..n
  BY DEF Fine
<1>2. WellNamed(scs2, g, s)
  BY <1>1, NamedStays
<1>3. \A name : /\ Has(scs2, g, 1, name) <=> Has(scs, h, 1, name)
                /\ Has(scs2, g, s, name) <=> Has(scs, h, s, name)
  BY <1>1, HasSame
<1>4. Unhidden(scs2, g, bs2, s)
  BY <1>1, <1>3 DEF Unhidden
<1> QED BY <1>1, <1>2, <1>4

LEMMA KeptNamedStays ==
    ASSUME NEW i, NEW ins, NEW scs, NEW cs, NEW act, NEW last, Kept(i, ins, scs, cs, act, last),
           NEW h, KeptNamed(i, ins, h, cs, act), Len(cs) \in Nat, NEW g,
           NEW cs2, NEW act2, Len(cs2) \in Nat, Len(cs2) <= Len(cs),
           \A s \in 1..Len(cs2) + 1 : IdOf(cs2, act2, s) = IdOf(cs, act, s),
           SameNames(scs, Len(cs2) + 1, h, g)
    PROVE  KeptNamed(i, ins, g, cs2, act2)
<1>1. ASSUME NEW s \in 1..Len(cs2) + 1, Holds(scs[s], ins.var)
      PROVE  g[ins.var].name = h[ins.var].name /\ g[ins.var].kind = h[ins.var].kind
  BY <1>1 DEF SameNames, Holds
<1>2. ASSUME ins.op \in KeptGlobal PROVE g[ins.var].name = i.name
  <2>1. Holds(scs[1], ins.var) /\ h[ins.var].name = i.name /\ 1 \in 1..Len(cs2) + 1
    BY <1>2 DEF Kept, KeptNamed
  <2> QED BY <1>1, <2>1
<1>3. ASSUME ins.op \in KeptLocal, NEW s \in 2..Len(cs2) + 1, IdOf(cs2, act2, s) = ins.int
      PROVE  g[ins.var].name = i.name /\ (ins.op = "PUSHPLOCAL" => g[ins.var].kind # "pointer")
  <2>1. s \in 1..Len(cs2) + 1 /\ s \in 2..Len(cs) + 1
    OBVIOUS
  <2>2. IdOf(cs, act, s) = ins.int
    BY <1>3, <2>1
  <2>3. /\ Holds(scs[s], ins.var) /\ h[ins.var].name = i.name
        /\ ins.op = "PUSHPLOCAL" => h[ins.var].kind # "pointer"
    BY <1>3, <2>1, <2>2 DEF Kept, KeptNamed
  <2> QED BY <1>1, <2>1, <2>3
<1> QED BY <1>2, <1>3 DEF KeptNamed

LEMMA AllNamedStays ==
    ASSUME NEW c, NEW scs, NEW cs, NEW act, NEW last, AllKept(c, scs, cs, act, last),
           NEW h, AllNamed(c, h, cs, act), Len(cs) \in Nat, NEW g,
           NEW cs2, NEW act2, Len(cs2) \in Nat, Len(cs2) <= Len(cs),
           \A s \in 1..Len(cs2) + 1 : IdOf(cs2, act2, s) = IdOf(cs, act, s),
           SameNames(scs, Len(cs2) + 1, h, g)
    PROVE  AllNamed(c, g, cs2, act2)
<1> SUFFICES ASSUME NEW i \in Instructions PROVE KeptNamed(i, c[i], g, cs2, act2)
  BY DEF AllNamed
<1>1. Kept(i, c[i], scs, cs, act, last) /\ KeptNamed(i, c[i], h, cs, act)
  BY DEF AllKept, AllNamed
<1> QED BY <1>1, KeptNamedStays

(* The parts of the invariant after a step. *)
LEMMA NInvAfter ==
    ASSUME Fine(scopes', heap', braces', Len(scopes')), Braced(tries', braces'),
           AllNamed(code', heap', calls', activeID'), LoadIsLookup'
    PROVE  NInv'
<1>1. Fine(scopes, heap, braces, Len(scopes))'
  BY DEF Fine, WellNamed, Unhidden, Has, Plain
<1>2. Braced(tries, braces)'
  BY DEF Braced
<1>3. AllNamed(code, heap, calls, activeID)'
  BY DEF AllNamed, KeptNamed, KeptGlobal, KeptLocal, IdOf
<1> QED BY <1>1, <1>2, <1>3 DEF NInv

-----------------------------------------------------------------------------
(* Looking up. *)

LEMMA NamesAre ==
    ASSUME Constants, IInv, NEW s \in 1..Len(scopes), NEW n
    PROVE  /\ Named(s, n) = {scopes[s][x] : x \in {y \in 1..Len(scopes[s]) : heap[scopes[s][y]].name = n}}
           /\ Named(s, n) # {} <=> Has(scopes, heap, s, n)
<1>1. scopes[s] \in Seq(Lists)
  BY ControlIs
<1>2. VarsOf(s) = {scopes[s][x] : x \in 1..Len(scopes[s])}
  BY <1>1 DEF VarsOf, ToSet
<1>3. Named(s, n) = {scopes[s][x] : x \in {y \in 1..Len(scopes[s]) : heap[scopes[s][y]].name = n}}
  BY <1>2 DEF Named
<1> QED BY <1>3 DEF Has

(* The variable of a name in a scope. *)
LEMMA OneNamed ==
    ASSUME Constants, IInv, NEW s \in 1..Len(scopes), WellNamed(scopes, heap, s), NEW a,
           Holds(scopes[s], a)
    PROVE  Named(s, heap[a].name) = {a}
<1> DEFINE n == heap[a].name
<1>1. Named(s, n) = {scopes[s][x] : x \in {y \in 1..Len(scopes[s]) : heap[scopes[s][y]].name = n}}
  BY NamesAre
<1>2. PICK x \in 1..Len(scopes[s]) : scopes[s][x] = a
  BY DEF Holds
<1>3. ASSUME NEW y \in 1..Len(scopes[s]), heap[scopes[s][y]].name = n PROVE scopes[s][y] = a
  <2>1. y = x
    BY <1>2, <1>3 DEF WellNamed
  <2> QED BY <1>2, <2>1
<1> QED BY <1>1, <1>2, <1>3

(* Looking up a name of the active scope finds the variable there. *)
LEMMA LookupLocal ==
    ASSUME Constants, IInv, WellNamed(scopes, heap, Active), NEW a, Holds(scopes[Active], a)
    PROVE  Lookup(heap[a].name) = a
<1>1. Active \in 1..Len(scopes)
  BY RunningIs
<1>2. Named(Active, heap[a].name) = {a}
  BY <1>1, OneNamed
<1> QED BY <1>2 DEF Lookup

(* And a name of the global scope that nothing hides, the variable there.  *)
LEMMA LookupGlobal ==
    ASSUME Constants, IInv, WellNamed(scopes, heap, 1), NEW a, Holds(scopes[1], a),
           ~Has(scopes, heap, Active, heap[a].name), ~(braces[Active] /\ heap[a].name \in Attributes)
    PROVE  Lookup(heap[a].name) = a
<1>1. 1 \in 1..Len(scopes) /\ Active \in 1..Len(scopes)
  BY RunningIs
<1>2. Named(1, heap[a].name) = {a}
  BY <1>1, OneNamed
<1>3. Named(Active, heap[a].name) = {}
  BY <1>1, NamesAre
<1> QED BY <1>2, <1>3 DEF Lookup

(* What looking a name up finds has this name. *)
LEMMA LookupNamed ==
    ASSUME Constants, IInv, NEW n, Lookup(n) # None, Lookup(n) # Attribute
    PROVE  LET a == Lookup(n) IN
           /\ heap[a].name = n /\ a \in VarsOf(Active) \cup VarsOf(1)
           /\ a \notin VarsOf(Active) => ~Has(scopes, heap, Active, n)
<1> DEFINE a == Lookup(n)
<1>1. Active \in 1..Len(scopes)
  BY RunningIs
<1>2. CASE Named(Active, n) # {}
  <2>1. a \in Named(Active, n)
    BY <1>2 DEF Lookup
  <2> QED BY <2>1 DEF Named
<1>3. CASE Named(Active, n) = {}
  <2>1. ~Has(scopes, heap, Active, n)
    BY <1>1, <1>3, NamesAre
  <2>2. a \in Named(1, n)
    BY <1>3 DEF Lookup
  <2> QED BY <2>1, <2>2 DEF Named
<1> QED BY <1>2, <1>3

(* A name that leads nowhere is in no scope that is looked at. *)
LEMMA LookupNone ==
    ASSUME Constants, IInv, NEW n, Lookup(n) = None
    PROVE  ~Has(scopes, heap, Active, n) /\ ~Has(scopes, heap, 1, n)
<1>1. 1 \in 1..Len(scopes) /\ Active \in 1..Len(scopes)
  BY RunningIs
<1>2. VarsOf(1) \subseteq Lists /\ VarsOf(Active) \subseteq Lists
  <2>1. Data(scopes, heap, argCount)
    BY DEF IInv
  <2> QED BY <1>1, <2>1, VariablesThere
<1>3. None \notin Lists /\ None # Attribute
  BY ConstantsAssumption
<1>4. Named(Active, n) = {}
  <2> SUFFICES ASSUME Named(Active, n) # {} PROVE FALSE
    OBVIOUS
  <2>1. Lookup(n) \in Named(Active, n)
    BY DEF Lookup
  <2> QED BY <1>2, <1>3, <2>1 DEF Named
<1>5. Named(1, n) = {}
  <2> SUFFICES ASSUME Named(1, n) # {} PROVE FALSE
    OBVIOUS
  <2>1. Lookup(n) = Attribute \/ Lookup(n) \in Named(1, n)
    BY <1>4 DEF Lookup
  <2> QED BY <1>2, <1>3, <2>1 DEF Named
<1> QED BY <1>1, <1>4, <1>5, NamesAre

(* A new variable whose name no scope has that is looked at.  *)
LEMMA AddedNamed ==
    ASSUME Constants, IInv, Fine(scopes, heap, braces, Len(scopes)), NEW b \in Unused, NEW v,
           v.kind = "none", Plain(v), ~Has(scopes, heap, Active, v.name), ~Has(scopes, heap, 1, v.name),
           scopes' = Added(scopes, b), heap' = With(heap, b, v)
    PROVE  Fine(scopes', heap', braces, Len(scopes)) /\ Len(scopes') = Len(scopes)
<1> DEFINE L == Len(scopes)
           M == Len(scopes[L])
           new == scopes'[L]
<1>1. /\ scopes \in Seq(Seq(Lists)) /\ scopes # <<>> /\ b \in Lists /\ b \notin DOMAIN heap
      /\ Active = L
  BY ControlIs DEF Unused, Active
<1>2. /\ L \in Nat /\ L >= 1 /\ Len(scopes') = L /\ \A s \in 1..L - 1 : s \in 1..L /\ scopes'[s] = scopes[s]
      /\ M \in Nat /\ Len(new) = M + 1 /\ new[M + 1] = b
      /\ \A x \in 1..M : new[x] = scopes[L][x]
  BY <1>1, AddedAre
<1>3. \A s \in 1..L : \A x \in 1..Len(scopes[s]) : heap'[scopes[s][x]] = heap[scopes[s][x]]
  <2>1. \A s \in 1..L : \A x \in 1..Len(scopes[s]) : scopes[s][x] \in DOMAIN heap
    BY DEF IInv, Data, Placed
  <2> QED BY <1>1, <2>1 DEF With
<1>4. heap'[b] = v
  BY DEF With
<1>5. L \in 1..L /\ Len(Params) \in Nat
  BY <1>2 DEF Constants
<1>6. /\ WellNamed(scopes, heap, L) /\ Unhidden(scopes, heap, braces, L)
      /\ \A x \in 1..M : Plain(heap[scopes[L][x]])
  BY <1>5 DEF Fine
<1> HIDE DEF M, new, L
<1>7. \A x \in 1..M + 1 : x \in 1..M \/ x = M + 1
  BY <1>2
<1>8. ASSUME NEW x \in 1..M
      PROVE  /\ heap'[new[x]] = heap[scopes[L][x]] /\ heap'[new[x]].name # v.name
             /\ x # M + 1
  <2>1. heap'[new[x]] = heap[scopes[L][x]]
    BY <1>2, <1>3, <1>5 DEF M
  <2>2. heap[scopes[L][x]].name # v.name
    BY <1>1 DEF Has, M
  <2> QED BY <1>2, <2>1, <2>2
<1>9. heap'[new[M + 1]] = v
  BY <1>2, <1>4
<1>10. CASE L = 1
  <2>1. WellNamed(scopes', heap', L)
    <3>1. ASSUME NEW x \in 1..M + 1, NEW y \in 1..M + 1, heap'[new[x]].name = heap'[new[y]].name
          PROVE  x = y
      <4>1. CASE x \in 1..M /\ y \in 1..M
        BY <1>6, <1>8, <3>1, <4>1 DEF WellNamed, M
      <4> QED BY <1>7, <1>8, <1>9, <3>1, <4>1
    <3>2. ASSUME NEW x \in 1..M + 1 PROVE heap'[new[x]].kind = "none"
      <4>1. CASE x \in 1..M
        BY <1>6, <1>8, <1>10, <4>1 DEF WellNamed, M
      <4> QED BY <1>7, <1>9, <4>1
    <3> QED BY <1>2, <1>10, <3>1, <3>2 DEF WellNamed, new
  <2>2. Unhidden(scopes', heap', braces, L)
    BY <1>10 DEF Unhidden
  <2>3. ASSUME NEW x \in 1..M + 1 PROVE Plain(heap'[new[x]])
    BY <1>6, <1>7, <1>8, <1>9
  <2>4. \A s \in 1..L : s = L
    BY <1>2, <1>10
  <2> QED BY <1>2, <2>1, <2>2, <2>3, <2>4 DEF Fine, new, L
<1>11. CASE L # 1
  <2>1. L - 1 \in Nat /\ L - 1 >= 1 /\ \A s \in 1..L - 1 : s \in 1..L
    BY <1>2, <1>11
  <2>2. /\ SameNames(scopes, L - 1, heap, heap')
        /\ \A s \in 1..L - 1 : \A x \in 1..Len(scopes[s]) : Plain(heap'[scopes[s][x]])
    BY <1>3, <2>1 DEF SameNames, Fine, L
  <2>3. Fine(scopes, heap, braces, L - 1)
    BY <2>1 DEF Fine, L
  <2>4. Fine(scopes', heap', braces, L - 1)
    <3>1. /\ \A s \in 1..L - 1 : braces[s] => braces[s]
          /\ \A s \in 1..L - 1 : scopes'[s] = scopes[s]
      BY <1>2
    <3> HIDE DEF Fine
    <3> QED BY <2>1, <2>2, <2>3, <3>1, FineStays
  <2>5. 1 \in 1..L - 1
    BY <2>1
  <2>6. \A n : Has(scopes', heap', 1, n) <=> Has(scopes, heap, 1, n)
    BY <1>2, <2>1, <2>2, <2>5, HasSame
  <2>7. WellNamed(scopes', heap', L)
    <3>1. ASSUME NEW x \in 1..M + 1, NEW y \in 1..M + 1, heap'[new[x]].name = heap'[new[y]].name
          PROVE  x = y
      <4>1. CASE x \in 1..M /\ y \in 1..M
        BY <1>6, <1>8, <3>1, <4>1 DEF WellNamed, M
      <4> QED BY <1>7, <1>8, <1>9, <3>1, <4>1
    <3>2. /\ Len(Params) <= M
          /\ \A x \in 1..Len(Params) : heap[scopes[L][x]].name = Params[Len(Params) - x + 1]
          /\ \A x \in 1..M : x > Len(Params) => ~Has(scopes, heap, 1, heap[scopes[L][x]].name)
          /\ \A x \in 1..M : heap[scopes[L][x]].kind # "none" <=> x <= Len(Params)
      BY <1>6, <1>11 DEF WellNamed, M
    <3>3. ASSUME NEW x \in 1..Len(Params) PROVE heap'[new[x]].name = Params[Len(Params) - x + 1]
      <4>1. x \in 1..M
        BY <1>2, <1>5, <3>2
      <4> QED BY <1>8, <3>2, <4>1
    <3>4. ASSUME NEW x \in 1..M + 1, x > Len(Params)
          PROVE  ~Has(scopes', heap', 1, heap'[new[x]].name)
      <4>1. CASE x \in 1..M
        BY <1>8, <2>6, <3>2, <3>4, <4>1
      <4>2. CASE x = M + 1
        BY <1>9, <2>6, <4>2
      <4> QED BY <1>7, <4>1, <4>2
    <3>5. ASSUME NEW x \in 1..M + 1 PROVE heap'[new[x]].kind # "none" <=> x <= Len(Params)
      <4>1. CASE x \in 1..M
        BY <1>8, <3>2, <4>1
      <4>2. CASE x = M + 1
        BY <1>2, <1>5, <1>9, <3>2, <4>2
      <4> QED BY <1>7, <4>1, <4>2
    <3>6. Len(Params) <= M + 1
      BY <1>2, <1>5, <3>2
    <3> QED BY <1>2, <1>11, <3>1, <3>3, <3>4, <3>5, <3>6 DEF WellNamed, new
  <2>8. Unhidden(scopes', heap', braces, L)
    <3>1. ASSUME NEW n, Has(scopes, heap, L, n) PROVE Has(scopes', heap', L, n)
      <4>1. PICK x \in 1..M : heap[scopes[L][x]].name = n
        BY <3>1 DEF Has, M
      <4>2. x \in 1..M + 1 /\ heap'[new[x]].name = n
        BY <1>2, <1>8, <4>1
      <4> QED BY <1>2, <4>2 DEF Has, new
    <3> QED BY <1>6, <2>6, <3>1 DEF Unhidden
  <2>9. ASSUME NEW x \in 1..M + 1 PROVE Plain(heap'[new[x]])
    BY <1>6, <1>7, <1>8, <1>9
  <2>10. ASSUME NEW s \in 1..L PROVE s \in 1..L - 1 \/ s = L
    BY <1>2
  <2> QED BY <1>2, <2>4, <2>7, <2>8, <2>9, <2>10 DEF Fine, new, L
<1> QED BY <1>2, <1>10, <1>11 DEF L

(* What an instruction keeps is what it has found. *)
LEMMA SpecialisedNamed ==
    ASSUME Constants, IInv, KInv, NInv, NEW i \in Running, NEW ins \in Entry, ins.op = "LOADADDRESS",
           NEW inside, Lookup(i.name) # None, CanKeep(Lookup(i.name))
    PROVE  KeptNamed(i, Specialised(ins, Lookup(i.name), inside), heap, calls, activeID)
<1> DEFINE a == Lookup(i.name)
           new == Specialised(ins, a, inside)
<1>1. /\ heap[a].name = i.name /\ a \in VarsOf(Active) \cup VarsOf(1)
      /\ a \notin VarsOf(Active) => ~Has(scopes, heap, Active, i.name)
  BY LookupNamed DEF CanKeep
<1>2. /\ Active \in 1..Len(scopes) /\ 1 \in 1..Len(scopes)
      /\ i.text = (IF Active = 1 THEN "main" ELSE "function")
  BY RunningIs
<1>3. heap[a].ref = "no"
  BY DEF CanKeep
<1>4. /\ Len(Params) \in Nat /\ Params \in Seq(ToSet(Params))
      /\ WellNamed(scopes, heap, Active)
      /\ \A x \in 1..Len(scopes[Active]) : Plain(heap[scopes[Active][x]])
  BY <1>2 DEF Constants, NInv, Fine
<1> HIDE DEF a
<1>5. CASE a \in VarsOf(1)
  <2>1. new = [ins EXCEPT !.op = "PUSHP", !.int = activeID, !.var = a]
    BY <1>5 DEF Specialised
  <2>2. new.op = "PUSHP" /\ new.var = a
    BY <2>1 DEF Entry
  <2>3. ASSUME i.text = "function" PROVE i.name \notin ToSet(Params)
    <3>1. Active # 1
      BY <1>2, <2>3
    <3>2. a \notin VarsOf(Active)
      BY <1>2, <1>5, <3>1, OneScope
    <3>3. ~Has(scopes, heap, Active, i.name)
      BY <1>1, <3>2
    <3> SUFFICES ASSUME i.name \in ToSet(Params) PROVE FALSE
      OBVIOUS
    <3>4. PICK k \in 1..Len(Params) : Params[k] = i.name
      BY <1>4 DEF ToSet
    <3> DEFINE x == Len(Params) - k + 1
    <3>5. x \in 1..Len(Params) /\ Len(Params) - x + 1 = k
      BY <1>4
    <3> HIDE DEF x
    <3>6. /\ Len(Params) <= Len(scopes[Active])
          /\ heap[scopes[Active][x]].name = Params[Len(Params) - x + 1]
      BY <1>4, <3>1, <3>5 DEF WellNamed
    <3>7. x \in 1..Len(scopes[Active])
      <4>1. Len(scopes[Active]) \in Nat
        BY <1>2, ControlIs
      <4> QED BY <1>4, <3>5, <3>6, <4>1
    <3> QED BY <3>3, <3>4, <3>5, <3>6, <3>7 DEF Has
  <2> QED BY <1>1, <2>2, <2>3 DEF KeptNamed, KeptGlobal, KeptLocal, a
<1>6. CASE a \notin VarsOf(1)
  <2>1. Active # 1 /\ a \in VarsOf(Active)
    BY <1>1, <1>6
  <2>2. PICK x \in 1..Len(scopes[Active]) : scopes[Active][x] = a
    BY <1>2, <2>1, HoldsIs DEF Holds
  <2>3. heap[a].kind # "pointer"
    BY <1>3, <1>4, <2>2 DEF Plain
  <2>4. CASE inside
    <3>1. new = [ins EXCEPT !.op = "PUSHPLOCAL", !.int = activeID, !.var = a]
      BY <1>6, <2>4 DEF Specialised
    <3>2. new.op = "PUSHPLOCAL" /\ new.var = a /\ new.int = activeID
      BY <3>1 DEF Entry
    <3> QED BY <1>1, <2>3, <3>2 DEF KeptNamed, KeptGlobal, KeptLocal, a
  <2>5. CASE ~inside /\ ~ins.tried /\ ArgPosition(a) # {}
    <3> DEFINE y == CHOOSE z \in ArgPosition(a) : TRUE
    <3>1. y \in ArgPosition(a)
      BY <2>5
    <3>2. y \in 1..Len(Params) /\ scopes[Active][y] = a /\ y <= Len(scopes[Active])
      BY <3>1 DEF ArgPosition
    <3>3. new = [ins EXCEPT !.op = "PUSHARG", !.int = y, !.kind = heap[a].kind, !.tried = TRUE]
      BY <1>6, <2>5 DEF Specialised
    <3> HIDE DEF y
    <3>4. new.op = "PUSHARG" /\ new.int = y /\ new.kind = heap[a].kind
      BY <3>3 DEF Entry
    <3>5. heap[a].name = Params[Len(Params) - y + 1]
      BY <1>4, <2>1, <3>2 DEF WellNamed
    <3>6. heap[a].kind = "value"
      <4>1. y \in 1..Len(scopes[Active])
        <5>1. Len(scopes[Active]) \in Nat
          BY <1>2, ControlIs
        <5> QED BY <1>4, <3>2, <5>1
      <4>2. heap[a].kind # "none"
        <5>1. heap[scopes[Active][y]].kind # "none" <=> Active # 1 /\ y <= Len(Params)
          BY <1>4, <4>1 DEF WellNamed
        <5> QED BY <1>4, <2>1, <3>2, <5>1
      <4>3. a \in DOMAIN heap /\ heap \in [DOMAIN heap -> Variable]
        BY <2>2, <1>2 DEF IInv, Data, Placed
      <4>4. heap[a] \in Variable
        BY <4>3
      <4> QED BY <2>3, <4>2, <4>4 DEF Variable
    <3> QED BY <1>1, <3>2, <3>4, <3>5, <3>6 DEF KeptNamed, KeptGlobal, KeptLocal, a
  <2>6. CASE ~inside /\ ~(~ins.tried /\ ArgPosition(a) # {})
    <3>1. new = [ins EXCEPT !.tried = TRUE]
      BY <1>6, <2>6 DEF Specialised
    <3>2. new.op = "LOADADDRESS"
      BY <3>1 DEF Entry
    <3> QED BY <3>2 DEF KeptNamed, KeptGlobal, KeptLocal, a
  <2> QED BY <2>4, <2>5, <2>6
<1> QED BY <1>5, <1>6

LEMMA LoadNamed ==
    ASSUME Constants, IInv, KInv, NInv, NEW i \in Running, NEW inside,
           NEW c \in [Instructions -> Entry],
           \A j \in Instructions : j # i => c[j] = code[j], c[i].op = "LOADADDRESS",
           LoadAddress(c, i, inside), UNCHANGED <<calls, activeID, braces, tries>>
    PROVE  NInv'
<1> DEFINE a == Lookup(i.name)
<1>1. i \in Instructions /\ Fine(scopes, heap, braces, Len(scopes)) /\ Braced(tries', braces')
  BY DEF Running, NInv
<1>2. AllNamed(c, heap, calls, activeID)
  <2> SUFFICES ASSUME NEW j \in Instructions PROVE KeptNamed(j, c[j], heap, calls, activeID)
    BY DEF AllNamed
  <2>1. CASE j = i
    BY <2>1 DEF KeptNamed, KeptGlobal, KeptLocal
  <2>2. CASE j # i
    BY <2>2 DEF NInv, AllNamed
  <2> QED BY <2>1, <2>2
<1>3. CASE a = None
  <2>1. PICK b \in Unused : AddVariable(i.name, b) /\ Push(i.name, b, "lookup", TRUE)
    BY <1>3 DEF LoadAddress
  <2> DEFINE v == NewVariable(i.name)
  <2>2. code' = c /\ scopes' = Added(scopes, b) /\ heap' = With(heap, b, v)
    BY <1>3, <2>1 DEF LoadAddress, AddVariable, Added, With, Active
  <2>3. v.kind = "none" /\ v.name = i.name /\ Plain(v)
    BY DEF NewVariable, Plain
  <2>4. ~Has(scopes, heap, Active, i.name) /\ ~Has(scopes, heap, 1, i.name)
    BY <1>3, LookupNone
  <2> HIDE DEF v
  <2>5. Fine(scopes', heap', braces, Len(scopes)) /\ Len(scopes') = Len(scopes)
    BY <1>1, <2>2, <2>3, <2>4, AddedNamed
  <2>6. AllNamed(c, heap', calls, activeID)
    <3>1. /\ Len(calls) \in Nat /\ Len(scopes) = Len(calls) + 1
          /\ \A s \in 1..Len(calls) + 1 : IdOf(calls, activeID, s) = IdOf(calls, activeID, s)
      BY ControlIs
    <3>2. SameNames(scopes, Len(calls) + 1, heap, heap')
      <4>1. \A s \in 1..Len(scopes) : \A x \in 1..Len(scopes[s]) : scopes[s][x] \in DOMAIN heap
        BY DEF IInv, Data, Placed
      <4>2. b \notin DOMAIN heap
        BY DEF Unused
      <4> QED BY <2>2, <3>1, <4>1, <4>2 DEF SameNames, With
    <3>3. AllKept(c, scopes, calls, activeID, scopeID)
      <4> SUFFICES ASSUME NEW j \in Instructions PROVE Kept(j, c[j], scopes, calls, activeID, scopeID)
        BY DEF AllKept
      <4>1. CASE j = i
        BY <4>1 DEF Kept, KeptGlobal, KeptLocal
      <4>2. CASE j # i
        BY <4>2 DEF KInv, AllKept
      <4> QED BY <4>1, <4>2
    <3> QED BY <1>2, <3>1, <3>2, <3>3, AllNamedStays
  <2>7. LoadIsLookup'
    <3>1. /\ pushed'.name = i.name /\ pushed'.var = b /\ pushed'.by = "lookup"
      BY <2>1 DEF Push
    <3> DEFINE L == Len(scopes)
               new == scopes'[L]
               M == Len(scopes[L])
    <3>2. /\ scopes \in Seq(Seq(Lists)) /\ scopes # <<>> /\ b \in Lists /\ Active = L
          /\ L \in 1..Len(scopes)
      BY ControlIs, RunningIs DEF Unused
    <3>3. /\ scopes' \in Seq(Seq(Lists)) /\ Len(scopes') = L /\ Len(new) = M + 1 /\ new[M + 1] = b
          /\ M \in Nat /\ \A x \in 1..M : new[x] = scopes[L][x]
      BY <2>2, <3>2, AddedAre
    <3>4. new \in Seq(Lists)
      BY <3>2, <3>3
    <3>5. Active' = L /\ VarsOf(Active)' = {new[x] : x \in 1..M + 1}
      <4>1. Active' = L
        BY <3>3 DEF Active
      <4>2. VarsOf(Active)' = ToSet(new)
        BY <4>1 DEF VarsOf
      <4> HIDE DEF new, M, L
      <4>3. ToSet(new) = {new[x] : x \in 1..M + 1}
        BY <3>3, <3>4 DEF ToSet
      <4> QED BY <4>1, <4>2, <4>3
    <3>6. heap'[b].name = i.name
      BY <2>2, <2>3 DEF With
    <3>7. ASSUME NEW x \in 1..M PROVE heap'[new[x]].name # i.name
      <4>1. heap[scopes[L][x]].name # i.name
        BY <2>4, <3>2 DEF Has
      <4>2. scopes[L][x] \in DOMAIN heap
        BY <3>2 DEF IInv, Data, Placed
      <4> QED BY <2>2, <3>3, <4>1, <4>2 DEF With, Unused
    <3>8. \A x \in 1..M + 1 : x \in 1..M \/ x = M + 1
      BY <3>3
    <3> HIDE DEF new, M, L
    <3>9. Named(Active, i.name)' = {b}
      <4>1. Named(Active, i.name)' = {w \in VarsOf(Active)' : heap'[w].name = i.name}
        BY DEF Named
      <4>2. b \in VarsOf(Active)'
        <5>1. M + 1 \in 1..M + 1
          BY <3>3
        <5> QED BY <3>3, <3>5, <5>1
      <4>3. ASSUME NEW w \in VarsOf(Active)', heap'[w].name = i.name PROVE w = b
        <5>1. PICK x \in 1..M + 1 : w = new[x]
          BY <3>5
        <5>2. x = M + 1
          BY <3>7, <3>8, <4>3, <5>1
        <5> QED BY <3>3, <5>1, <5>2
      <4> QED BY <3>6, <4>1, <4>2, <4>3
    <3>10. Lookup(i.name)' = b
      BY <3>9 DEF Lookup
    <3> QED BY <3>1, <3>10 DEF LoadIsLookup
  <2> QED BY <1>1, <2>2, <2>5, <2>6, <2>7, NInvAfter
<1>4. CASE a # None
  <2>1. /\ code' = IF CanKeep(a) THEN [c EXCEPT ![i] = Specialised(@, a, inside)] ELSE c
        /\ scopes' = scopes /\ heap' = heap /\ Push(i.name, a, "lookup", FALSE)
    BY <1>4 DEF LoadAddress
  <2>2. AllNamed(code', heap, calls, activeID)
    <3>1. CASE CanKeep(a)
      <4> DEFINE new == Specialised(c[i], a, inside)
      <4>1. c[i] \in Entry
        BY <1>1
      <4>2. KeptNamed(i, new, heap, calls, activeID)
        BY <1>4, <3>1, <4>1, SpecialisedNamed
      <4> HIDE DEF new, a
      <4>3. code' = [c EXCEPT ![i] = new]
        BY <2>1, <3>1 DEF new
      <4>4. ASSUME NEW j \in Instructions PROVE KeptNamed(j, code'[j], heap, calls, activeID)
        <5>1. CASE j = i
          BY <4>2, <4>3, <5>1
        <5>2. CASE j # i
          BY <1>2, <4>3, <5>2 DEF AllNamed
        <5> QED BY <5>1, <5>2
      <4> QED BY <4>4 DEF AllNamed
    <3>2. CASE ~CanKeep(a)
      BY <1>2, <2>1, <3>2
    <3> QED BY <3>1, <3>2
  <2>3. Lookup(i.name)' = Lookup(i.name)
    BY <2>1 DEF Lookup, Named, VarsOf, Active
  <2>4. LoadIsLookup'
    BY <2>1, <2>3 DEF LoadIsLookup, Push
  <2>5. Fine(scopes', heap', braces', Len(scopes'))
    BY <1>1, <2>1
  <2> QED BY <1>1, <2>1, <2>2, <2>4, <2>5, NInvAfter
<1> QED BY <1>3, <1>4

(* What is pushed as it was kept. *)
LEMMA PushKeptNamed ==
    ASSUME Constants, IInv, KInv, NInv, NEW i \in Running, NEW a, PushKept(i, a), Lookup(i.name) = a,
           heap[a].ref = "no", UNCHANGED <<calls, activeID, braces, tries>>
    PROVE  NInv'
<1>1. UNCHANGED <<scopes, heap, code>> /\ pushed' = [name |-> i.name, var |-> a, by |-> "cache", new |-> FALSE]
  BY DEF PushKept, Push
<1>2. Lookup(i.name)' = Lookup(i.name)
  BY <1>1 DEF Lookup, Named, VarsOf, Active
<1>3. LoadIsLookup'
  BY <1>1, <1>2 DEF LoadIsLookup
<1>4. /\ Fine(scopes', heap', braces', Len(scopes')) /\ Braced(tries', braces')
      /\ AllNamed(code', heap', calls', activeID')
  BY <1>1 DEF NInv
<1> QED BY <1>3, <1>4, NInvAfter

(* The number of a for loop is in the active scope. *)
LEMMA NumberIs ==
    ASSUME Constants, IInv, NInv, NEW n, HasNumber(n)
    PROVE  LET a == Lookup(n) IN Holds(scopes[Active], a) /\ heap[a].name = n /\ heap[a].ref = "no"
<1>1. PICK a \in Named(Active, n) : heap[a].ref = "no"
  BY DEF HasNumber
<1>2. Active \in 1..Len(scopes)
  BY RunningIs
<1>3. Holds(scopes[Active], a) /\ heap[a].name = n
  BY <1>1, <1>2, HoldsIs DEF Named
<1>4. WellNamed(scopes, heap, Active)
  BY <1>2 DEF NInv, Fine
<1>5. Lookup(n) = a
  BY <1>3, <1>4, LookupLocal
<1> QED BY <1>1, <1>3, <1>5

LEMMA IncJumpNamed ==
    ASSUME Constants, IInv, KInv, NInv, NEW i \in Running, HasNumber(i.name), IncJump(i),
           UNCHANGED <<calls, activeID, braces, tries>>
    PROVE  NInv'
<1> DEFINE a == Lookup(i.name)
           op == IF a \in VarsOf(1) THEN "INCPJUMP" ELSE "INCLPJUMP"
           int == IF a \in VarsOf(1) THEN code[i].int ELSE activeID
           new == [code[i] EXCEPT !.op = op, !.int = int, !.var = a]
<1>1. i \in Instructions /\ code \in [Instructions -> Entry]
  BY DEF Running, IInv
<1>2. code' = [code EXCEPT ![i] = new] /\ UNCHANGED <<scopes, heap>>
      /\ pushed' = [name |-> i.name, var |-> a, by |-> "lookup", new |-> FALSE]
  BY <1>1 DEF IncJump, Push
<1>3. new.op = op /\ new.var = a
  <2>1. code[i] \in Entry
    BY <1>1
  <2> QED BY <2>1 DEF Entry
<1>4. heap[a].name = i.name
  BY NumberIs
<1>5. KeptNamed(i, new, heap, calls, activeID)
  <2> HIDE DEF new, a
  <2> QED BY <1>3, <1>4 DEF KeptNamed, KeptGlobal, KeptLocal
<1> HIDE DEF new
<1>6. AllNamed(code', heap', calls', activeID')
  <2>1. ASSUME NEW j \in Instructions PROVE KeptNamed(j, code'[j], heap, calls, activeID)
    <3>1. CASE j = i
      BY <1>1, <1>2, <1>5, <3>1
    <3>2. CASE j # i
      BY <1>1, <1>2, <3>2 DEF NInv, AllNamed
    <3> QED BY <3>1, <3>2
  <2> QED BY <1>2, <2>1 DEF AllNamed
<1>7. Lookup(i.name)' = Lookup(i.name)
  BY <1>2 DEF Lookup, Named, VarsOf, Active
<1>8. LoadIsLookup'
  BY <1>2, <1>7 DEF LoadIsLookup
<1>9. Fine(scopes', heap', braces', Len(scopes')) /\ Braced(tries', braces')
  BY <1>2 DEF NInv
<1> QED BY <1>6, <1>8, <1>9, NInvAfter

(* A kept variable is what its name leads to, and it is no reference. *)
LEMMA KeptIsLookup ==
    ASSUME Constants, Usual, IInv, KInv, NInv, NEW i \in Running, NEW a,
           a \in DOMAIN heap => heap[a].ref # "loop",
           \/ code[i].op \in {"PUSHP", "PUSHPLOCAL"} /\ code[i].int = activeID /\ a = code[i].var
           \/ code[i].op = "PUSHARG" /\ a = scopes[Active][code[i].int] /\ heap[a].kind = code[i].kind
    PROVE  Lookup(i.name) = a /\ heap[a].ref = "no"
<1>1. /\ i \in Instructions /\ i.text = (IF Active = 1 THEN "main" ELSE "function")
      /\ 1 \in 1..Len(scopes) /\ Active \in 1..Len(scopes) /\ Active = Len(calls) + 1
      /\ (calls # <<>> <=> Active \in 2..Len(calls) + 1) /\ (calls = <<>> <=> Active = 1)
  BY RunningIs
<1>2. /\ Kept(i, code[i], scopes, calls, activeID, scopeID)
      /\ KeptNamed(i, code[i], heap, calls, activeID)
  BY <1>1 DEF KInv, AllKept, NInv, AllNamed
<1>3. /\ WellNamed(scopes, heap, 1) /\ WellNamed(scopes, heap, Active)
      /\ Unhidden(scopes, heap, braces, Active)
      /\ \A s \in 1..Len(scopes) : \A x \in 1..Len(scopes[s]) : Plain(heap[scopes[s][x]])
  BY <1>1 DEF NInv, Fine
<1>4. heap \in [DOMAIN heap -> Variable]
      /\ \A s \in 1..Len(scopes) : \A x \in 1..Len(scopes[s]) : scopes[s][x] \in DOMAIN heap
  BY DEF IInv, Data, Placed
<1>5. ASSUME NEW s \in 1..Len(scopes), NEW x \in 1..Len(scopes[s]), scopes[s][x] = a,
             heap[a].kind # "pointer"
      PROVE  heap[a].ref = "no"
  <2>1. a \in DOMAIN heap /\ Plain(heap[a])
    BY <1>3, <1>4, <1>5
  <2>2. heap[a] \in Variable
    BY <1>4, <2>1
  <2>3. heap[a].ref \in Refs /\ heap[a].ref # "arg" /\ heap[a].ref # "left" /\ heap[a].ref # "loop"
    BY <1>5, <2>1, <2>2 DEF Plain, Variable
  <2> QED BY <2>3 DEF Refs
<1>6. CASE code[i].op = "PUSHP" /\ code[i].int = activeID /\ a = code[i].var
  <2>1. Holds(scopes[1], a) /\ heap[a].name = i.name
    BY <1>2, <1>6 DEF Kept, KeptNamed, KeptGlobal
  <2>2. PICK x \in 1..Len(scopes[1]) : scopes[1][x] = a
    BY <2>1 DEF Holds
  <2>3. heap[a].kind = "none"
    BY <1>1, <1>3, <2>2 DEF WellNamed
  <2>4. heap[a].ref = "no"
    BY <1>1, <1>5, <2>2, <2>3
  <2>5. CASE Active = 1
    <3>1. Lookup(heap[a].name) = a
      BY <1>3, <2>1, <2>5, LookupLocal
    <3> QED BY <2>1, <2>4, <3>1
  <2>6. CASE Active # 1
    <3>1. i.name \notin ToSet(Params)
      BY <1>1, <1>2, <1>6, <2>6 DEF KeptNamed
    <3>2. ~Has(scopes, heap, Active, i.name)
      <4> SUFFICES ASSUME NEW y \in 1..Len(scopes[Active]), heap[scopes[Active][y]].name = i.name
                   PROVE  FALSE
        BY DEF Has
      <4>1. CASE y > Len(Params)
        <5>1. ~Has(scopes, heap, 1, i.name)
          BY <1>3, <2>6, <4>1 DEF WellNamed
        <5> QED BY <2>1, <2>2, <5>1 DEF Has
      <4>2. CASE ~(y > Len(Params))
        <5>1. Len(Params) \in Nat /\ Params \in Seq(ToSet(Params))
          BY DEF Constants
        <5> DEFINE k == Len(Params) - y + 1
        <5>2. y \in 1..Len(Params) /\ k \in 1..Len(Params)
          BY <4>2, <5>1
        <5> HIDE DEF k
        <5>3. i.name = Params[k]
          BY <1>3, <2>6, <5>2 DEF WellNamed, k
        <5>4. Params[k] \in ToSet(Params)
          BY <5>1, <5>2
        <5> QED BY <3>1, <5>3, <5>4
      <4> QED BY <4>1, <4>2
    <3>3. ~(braces[Active] /\ i.name \in Attributes)
      <4>1. Has(scopes, heap, 1, i.name)
        BY <2>1, <2>2 DEF Has
      <4> QED BY <1>3, <2>6, <3>2, <4>1 DEF Unhidden
    <3>4. Lookup(heap[a].name) = a
      BY <1>3, <2>1, <3>2, <3>3, LookupGlobal
    <3> QED BY <2>1, <2>4, <3>4
  <2> QED BY <2>5, <2>6
<1>7. CASE code[i].op = "PUSHPLOCAL" /\ code[i].int = activeID /\ a = code[i].var
  <2>1. Active \in 2..Len(calls) + 1
    BY <1>1, <1>2, <1>7 DEF Kept, KeptLocal
  <2>2. IdOf(calls, activeID, Active) = code[i].int
    BY <1>1, <1>7 DEF IdOf
  <2>3. Holds(scopes[Active], a)
    BY <1>2, <1>7, <2>1, <2>2 DEF Kept, KeptLocal
  <2>4. heap[a].name = i.name /\ heap[a].kind # "pointer"
    BY <1>2, <1>7, <2>1, <2>2 DEF KeptNamed, KeptLocal
  <2>5. Lookup(heap[a].name) = a
    BY <1>3, <2>3, LookupLocal
  <2>6. heap[a].ref = "no"
    BY <1>1, <1>5, <2>3, <2>4 DEF Holds
  <2> QED BY <2>4, <2>5, <2>6
<1>8. CASE code[i].op = "PUSHARG" /\ a = scopes[Active][code[i].int] /\ heap[a].kind = code[i].kind
  <2> DEFINE x == code[i].int
  <2>1. /\ x \in 1..Len(Params) /\ Params[Len(Params) - x + 1] = i.name /\ code[i].kind = "value"
        /\ Active # 1
    BY <1>1, <1>2, <1>8 DEF Kept, KeptNamed
  <2>2. heap[scopes[Active][x]].name = Params[Len(Params) - x + 1] /\ Len(Params) <= Len(scopes[Active])
    BY <1>3, <2>1 DEF WellNamed
  <2>3. x \in 1..Len(scopes[Active])
    <3>1. Len(scopes[Active]) \in Nat /\ Len(Params) \in Nat
      BY <1>1, ControlIs DEF Constants
    <3> QED BY <2>1, <2>2, <3>1
  <2>4. scopes[Active][x] = a /\ heap[a].kind # "pointer" /\ heap[a].name = i.name
    BY <1>8, <2>1, <2>2
  <2> HIDE DEF x
  <2>5. Holds(scopes[Active], a)
    BY <2>3, <2>4 DEF Holds
  <2>6. Lookup(heap[a].name) = a
    BY <1>3, <2>5, LookupLocal
  <2>7. heap[a].ref = "no"
    BY <1>1, <1>5, <2>3, <2>4
  <2> QED BY <2>4, <2>6, <2>7
<1> QED BY <1>6, <1>7, <1>8

LEMMA ExecuteNamed ==
    ASSUME Constants, Usual, IInv, KInv, NInv, NEW i \in Running, NEW inside, Execute(i, inside)
    PROVE  NInv'
<1>1. /\ i \in Instructions /\ code \in [Instructions -> Entry]
      /\ UNCHANGED <<calls, activeID, braces, tries>>
  BY DEF Running, IInv, Execute
<1>2. ASSUME NEW a, PushKept(i, a) PROVE a \in DOMAIN heap => heap[a].ref # "loop"
  BY <1>2 DEF PushKept, Usual
<1>3. CASE code[i].op = "LOADADDRESS" /\ LoadAddress(code, i, inside)
  BY <1>1, <1>3, LoadNamed
<1>4. CASE PushVarPtr(i, inside)
  <2> DEFINE new == [code[i] EXCEPT !.op = "LOADADDRESS", !.var = None]
             c == [code EXCEPT ![i] = new]
  <2>1. code[i] \in Entry
    BY <1>1
  <2>2. c = [code EXCEPT ![i].op = "LOADADDRESS", ![i].var = None]
    BY <1>1
  <2>3. new \in Entry
    BY <2>1 DEF Entry, Opcodes
  <2>4. new.op = "LOADADDRESS"
    BY <2>1 DEF Entry
  <2> HIDE DEF new
  <2>5. c \in [Instructions -> Entry] /\ c[i].op = "LOADADDRESS"
        /\ \A j \in Instructions : j # i => c[j] = code[j]
    BY <1>1, <2>3, <2>4
  <2> HIDE DEF c
  <2>6. CASE LoadAddress(c, i, inside)
    BY <1>1, <2>5, <2>6, LoadNamed
  <2>7. CASE SameScope(code[i]) /\ PushKept(i, code[i].var)
    <3>1. code[i].int = activeID /\ code[i].op \in {"PUSHP", "PUSHPLOCAL"}
      BY <1>4, <2>7 DEF SameScope, PushVarPtr
    <3>2. Lookup(i.name) = code[i].var /\ heap[code[i].var].ref = "no"
      BY <1>2, <2>7, <3>1, KeptIsLookup
    <3> QED BY <1>1, <2>7, <3>2, PushKeptNamed
  <2> QED BY <1>4, <2>2, <2>6, <2>7 DEF PushVarPtr
<1>5. CASE PushArg(i, inside)
  <2> DEFINE new == [code[i] EXCEPT !.op = "LOADADDRESS", !.tried = FALSE]
             c == [code EXCEPT ![i] = new]
             a == scopes[Active][code[i].int]
  <2>1. code[i] \in Entry
    BY <1>1
  <2>2. c = [code EXCEPT ![i].op = "LOADADDRESS", ![i].tried = FALSE]
    BY <1>1
  <2>3. new \in Entry
    BY <2>1 DEF Entry, Opcodes
  <2>4. new.op = "LOADADDRESS"
    BY <2>1 DEF Entry
  <2> HIDE DEF new
  <2>5. c \in [Instructions -> Entry] /\ c[i].op = "LOADADDRESS"
        /\ \A j \in Instructions : j # i => c[j] = code[j]
    BY <1>1, <2>3, <2>4
  <2> HIDE DEF c
  <2>6. CASE LoadAddress(c, i, inside)
    BY <1>1, <2>5, <2>6, LoadNamed
  <2>7. CASE heap[a].kind = code[i].kind /\ PushKept(i, a)
    <3>1. code[i].op = "PUSHARG"
      BY <1>5 DEF PushArg
    <3>2. Lookup(i.name) = a /\ heap[a].ref = "no"
      BY <1>2, <2>7, <3>1, KeptIsLookup
    <3> QED BY <1>1, <2>7, <3>2, PushKeptNamed
  <2> QED BY <1>5, <2>2, <2>6, <2>7 DEF PushArg
<1>6. CASE Increment(i)
  <2>1. HasNumber(i.name)
    BY <1>6 DEF Increment
  <2>2. CASE IncJump(i)
    BY <1>1, <2>1, <2>2, IncJumpNamed
  <2>3. CASE /\ code[i].op \in {"INCPJUMP", "INCLPJUMP"}
             /\ code[i].op = "INCPJUMP" \/ SameScope(code[i])
             /\ PushKept(i, code[i].var)
    <3> DEFINE a == code[i].var
    <3>1. /\ Kept(i, code[i], scopes, calls, activeID, scopeID)
          /\ KeptNamed(i, code[i], heap, calls, activeID)
      BY <1>1 DEF KInv, AllKept, NInv, AllNamed
    <3>2. /\ i.text = (IF Active = 1 THEN "main" ELSE "function")
          /\ Active \in 1..Len(scopes) /\ Active = Len(calls) + 1
          /\ (calls # <<>> <=> Active \in 2..Len(calls) + 1) /\ (calls = <<>> <=> Active = 1)
      BY RunningIs
    <3>3. WellNamed(scopes, heap, Active)
      BY <3>2 DEF NInv, Fine
    <3>4. Holds(scopes[Active], a) /\ heap[a].name = i.name
      <4>1. CASE code[i].op = "INCPJUMP"
        <5>1. Holds(scopes[1], a) /\ heap[a].name = i.name /\ i.text = "main"
          BY <3>1, <4>1 DEF Kept, KeptNamed, KeptGlobal
        <5> QED BY <3>2, <5>1
      <4>2. CASE code[i].op = "INCLPJUMP" /\ SameScope(code[i])
        <5>1. Active \in 2..Len(calls) + 1
          BY <3>1, <3>2, <4>2 DEF Kept, KeptLocal
        <5>2. IdOf(calls, activeID, Active) = code[i].int
          BY <3>2, <4>2 DEF IdOf, SameScope
        <5> QED BY <3>1, <4>2, <5>1, <5>2 DEF Kept, KeptNamed, KeptLocal
      <4> QED BY <2>3, <4>1, <4>2
    <3>5. Lookup(heap[a].name) = a
      BY <3>3, <3>4, LookupLocal
    <3>6. Lookup(i.name) = a /\ heap[a].ref = "no"
      BY <2>1, <3>4, <3>5, NumberIs
    <3> QED BY <1>1, <2>3, <3>6, PushKeptNamed
  <2> QED BY <1>6, <2>2, <2>3 DEF Increment
<1> QED BY <1>3, <1>4, <1>5, <1>6 DEF Execute

-----------------------------------------------------------------------------
(* Try blocks, and what the program does with variables. *)

LEMMA TryNamed == ASSUME Constants, IInv, NInv, Try PROVE NInv'
<1> DEFINE t == [scopes |-> Active, activeID |-> activeID, brace |-> braces[Active], loops |-> Loops]
<1>1. /\ tries' = Append(tries, t) /\ pushed' = Nothing
      /\ UNCHANGED <<scopes, heap, activeID, calls, braces, code>>
  BY DEF Try
<1>2. t.scopes = Active /\ t.brace = braces[Active]
  OBVIOUS
<1> HIDE DEF t
<1> DEFINE L == Len(tries)
           new == tries'
<1>3. tries \in Seq(Saved) /\ L \in Nat
  BY DEF IInv, TriesIn
<1>4. Len(new) = L + 1 /\ new[L + 1] = t /\ \A k \in 1..L : new[k] = tries[k]
  BY <1>1, <1>3
<1>5. /\ \A k \in 1..L : tries[k].brace => braces[tries[k].scopes]
      /\ \A j \in 1..L : \A k \in 1..L :
             j <= k /\ tries[j].scopes = tries[k].scopes /\ tries[j].brace => tries[k].brace
  BY DEF NInv, Braced
<1> HIDE DEF L, new
<1>6. \A k \in 1..L + 1 : k \in 1..L \/ k = L + 1
  BY <1>3
<1>7. ASSUME NEW k \in 1..L + 1, new[k].brace PROVE braces[new[k].scopes]
  BY <1>2, <1>4, <1>5, <1>6, <1>7
<1>8. ASSUME NEW j \in 1..L + 1, NEW k \in 1..L + 1, j <= k, new[j].scopes = new[k].scopes, new[j].brace
      PROVE  new[k].brace
  <2>1. CASE k \in 1..L
    <3>1. j \in 1..L
      BY <1>3, <1>8, <2>1
    <3> QED BY <1>4, <1>5, <1>8, <2>1, <3>1
  <2>2. CASE k = L + 1
    <3>1. braces[new[j].scopes]
      BY <1>7, <1>8
    <3> QED BY <1>2, <1>4, <1>8, <2>2, <3>1
  <2> QED BY <1>6, <2>1, <2>2
<1>9. Braced(tries', braces')
  BY <1>1, <1>4, <1>7, <1>8 DEF Braced, new
<1>10. LoadIsLookup'
  BY <1>1 DEF LoadIsLookup, Nothing
<1> QED BY <1>1, <1>9, <1>10, NInvAfter DEF NInv

LEMMA BracedFront ==
    ASSUME NEW ts \in Seq(Saved), ts # <<>>, NEW bs, Braced(ts, bs)
    PROVE  Braced(Front(ts), bs)
<1>1. Len(ts) \in Nat /\ Len(Front(ts)) = Len(ts) - 1
      /\ \A k \in 1..Len(ts) - 1 : k \in 1..Len(ts) /\ Front(ts)[k] = ts[k]
  BY FrontIs
<1> QED BY <1>1 DEF Braced

LEMMA DoneNamed == ASSUME Constants, IInv, NInv, Done PROVE NInv'
<1>1. /\ tries # <<>> /\ tries' = Front(tries) /\ pushed' = Nothing
      /\ UNCHANGED <<scopes, heap, activeID, calls, braces, code>>
  BY DEF Done
<1>2. Braced(tries', braces')
  BY <1>1, BracedFront DEF NInv, IInv, TriesIn
<1>3. LoadIsLookup'
  BY <1>1 DEF LoadIsLookup, Nothing
<1> QED BY <1>1, <1>2, <1>3, NInvAfter DEF NInv

(* Variables change their values and are references or not. *)
LEMMA ChangeNamed ==
    ASSUME Constants, IInv, KInv, NInv, pushed' = Nothing,
           UNCHANGED <<scopes, activeID, calls, braces, tries, code>>,
           \A a \in DOMAIN heap : /\ heap'[a].name = heap[a].name /\ heap'[a].kind = heap[a].kind
                                  /\ Plain(heap[a]) => Plain(heap'[a])
    PROVE  NInv'
<1>1. \A s \in 1..Len(scopes) : \A x \in 1..Len(scopes[s]) : scopes[s][x] \in DOMAIN heap
  BY DEF IInv, Data, Placed
<1>2. /\ Len(scopes) \in Nat /\ Len(scopes) >= 1 /\ Len(calls) \in Nat /\ Len(scopes) = Len(calls) + 1
  BY ControlIs
<1>3. SameNames(scopes, Len(scopes), heap, heap')
  BY <1>1 DEF SameNames
<1>4. \A s \in 1..Len(scopes) : \A x \in 1..Len(scopes[s]) : Plain(heap'[scopes[s][x]])
  BY <1>1 DEF NInv, Fine
<1>5. Fine(scopes', heap', braces', Len(scopes'))
  <2>1. /\ Fine(scopes, heap, braces, Len(scopes))
        /\ \A s \in 1..Len(scopes) : scopes'[s] = scopes[s] /\ (braces'[s] => braces[s])
    BY DEF NInv
  <2>2. Fine(scopes', heap', braces', Len(scopes))
    BY <1>2, <1>3, <1>4, <2>1, FineStays
  <2> QED BY <2>2
<1>6. AllNamed(code', heap', calls', activeID')
  <2>1. AllKept(code, scopes, calls, activeID, scopeID) /\ AllNamed(code, heap, calls, activeID)
    BY DEF KInv, NInv
  <2>2. SameNames(scopes, Len(calls) + 1, heap, heap') /\ Len(calls) <= Len(calls)
        /\ \A s \in 1..Len(calls) + 1 : IdOf(calls, activeID, s) = IdOf(calls, activeID, s)
    BY <1>2, <1>3
  <2>3. AllNamed(code, heap', calls, activeID)
    BY <1>2, <2>1, <2>2, AllNamedStays
  <2> QED BY <2>3
<1>7. Braced(tries', braces') /\ LoadIsLookup'
  BY DEF NInv, LoadIsLookup, Nothing
<1> QED BY <1>5, <1>6, <1>7, NInvAfter

LEMMA AssignNamed == ASSUME Constants, IInv, KInv, NInv, Assign PROVE NInv'
<1>1. /\ pushed' = Nothing /\ UNCHANGED <<scopes, activeID, calls, braces, tries, code>>
      /\ heap' = [heap EXCEPT ![pushed.var].null = FALSE]
  BY DEF Assign
<1>2. heap \in [DOMAIN heap -> Variable]
  BY DEF IInv, Data, Placed
<1>3. ASSUME NEW a \in DOMAIN heap
      PROVE  /\ heap'[a].name = heap[a].name /\ heap'[a].kind = heap[a].kind
             /\ Plain(heap[a]) => Plain(heap'[a])
  <2>1. heap[a] \in Variable
    BY <1>2
  <2>2. heap'[a] = heap[a] \/ heap'[a] = [heap[a] EXCEPT !.null = FALSE]
    BY <1>1, <1>2
  <2>3. CASE heap'[a] = [heap[a] EXCEPT !.null = FALSE]
    <3>1. /\ heap'[a].name = heap[a].name /\ heap'[a].kind = heap[a].kind
          /\ heap'[a].ref = heap[a].ref /\ heap'[a].null = FALSE
      BY <2>1, <2>3 DEF Variable
    <3> QED BY <3>1 DEF Plain
  <2> QED BY <2>2, <2>3
<1> QED BY <1>1, <1>3, ChangeNamed

LEMMA EndForInNamed == ASSUME Constants, IInv, KInv, NInv, NEW n, EndForIn(n) PROVE NInv'
<1>1. PICK b \in Named(Active, n) : heap[b].ref = "loop" /\ heap' = [heap EXCEPT ![b].ref = "no"]
  BY DEF EndForIn
<1>2. pushed' = Nothing /\ UNCHANGED <<scopes, activeID, calls, braces, tries, code>>
  BY DEF EndForIn
<1>3. heap \in [DOMAIN heap -> Variable]
  BY DEF IInv, Data, Placed
<1>4. ASSUME NEW a \in DOMAIN heap
      PROVE  /\ heap'[a].name = heap[a].name /\ heap'[a].kind = heap[a].kind
             /\ Plain(heap[a]) => Plain(heap'[a])
  <2>1. heap[a] \in Variable
    BY <1>3
  <2>2. \/ heap'[a] = heap[a]
        \/ heap[a].ref = "loop" /\ heap'[a] = [heap[a] EXCEPT !.ref = "no"]
    <3>1. CASE a = b
      BY <1>1, <1>3, <3>1
    <3>2. CASE a # b
      BY <1>1, <1>3, <3>2
    <3> QED BY <3>1, <3>2
  <2>3. CASE heap[a].ref = "loop" /\ heap'[a] = [heap[a] EXCEPT !.ref = "no"]
    <3>1. /\ heap'[a].name = heap[a].name /\ heap'[a].kind = heap[a].kind
          /\ heap'[a].ref = "no" /\ heap'[a].null = heap[a].null
      BY <2>1, <2>3 DEF Variable
    <3> QED BY <2>3, <3>1 DEF Plain
  <2> QED BY <2>2, <2>3
<1> QED BY <1>2, <1>4, ChangeNamed

LEMMA StartLoopNamed ==
    ASSUME Constants, Usual, IInv, KInv, NInv, NEW n, NEW in \in BOOLEAN, StartLoop(n, in)
    PROVE  NInv'
<1> DEFINE ref == IF in THEN "loop" ELSE "no"
           Started(v) == [v EXCEPT !.ref = ref, !.null = FALSE]
<1>1. pushed' = Nothing /\ UNCHANGED <<activeID, calls, braces, tries, code>>
  BY DEF StartLoop
<1>2. heap \in [DOMAIN heap -> Variable]
  BY DEF IInv, Data, Placed
<1>3. CASE Named(Active, n) # {}
  <2>1. PICK b \in Named(Active, n) : /\ heap[b].ref = "arg" => "argument_loop" \in Programs
                                      /\ heap' = [heap EXCEPT ![b] = Started(@)] /\ scopes' = scopes
    BY <1>3 DEF StartLoop
  <2>2. heap[b].ref # "arg" /\ heap' = [heap EXCEPT ![b] = Started(heap[b])]
    BY <2>1 DEF Usual
  <2>3. ASSUME NEW a \in DOMAIN heap
        PROVE  /\ heap'[a].name = heap[a].name /\ heap'[a].kind = heap[a].kind
               /\ Plain(heap[a]) => Plain(heap'[a])
    <3>1. heap[a] \in Variable
      BY <1>2
    <3>2. \/ heap'[a] = heap[a]
          \/ heap[a].ref # "arg" /\ heap'[a] = [heap[a] EXCEPT !.ref = ref, !.null = FALSE]
      <4>1. CASE a = b
        <5>1. heap'[a] = Started(heap[a])
          BY <1>2, <2>2, <4>1
        <5> QED BY <2>2, <4>1, <5>1
      <4>2. CASE a # b
        BY <1>2, <2>2, <4>2
      <4> QED BY <4>1, <4>2
    <3>3. CASE heap[a].ref # "arg" /\ heap'[a] = [heap[a] EXCEPT !.ref = ref, !.null = FALSE]
      <4>1. /\ heap'[a].name = heap[a].name /\ heap'[a].kind = heap[a].kind
            /\ heap'[a].ref = ref /\ heap'[a].null = FALSE
        BY <3>1, <3>3 DEF Variable
      <4>2. ref # "arg" /\ ref # "left"
        OBVIOUS
      <4> QED BY <3>3, <4>1, <4>2 DEF Plain
    <3> QED BY <3>2, <3>3
  <2> QED BY <1>1, <2>1, <2>3, ChangeNamed
<1>4. CASE Named(Active, n) = {}
  <2>1. Lookup(n) = None
    BY <1>4 DEF StartLoop, Hides, Usual
  <2>2. PICK b \in Unused :
            /\ scopes' = [scopes EXCEPT ![Active] = Append(@, b)]
            /\ heap' = [a \in DOMAIN heap \cup {b} |-> IF a = b THEN Started(NewVariable(n)) ELSE heap[a]]
    BY <1>4 DEF StartLoop
  <2> DEFINE v == Started(NewVariable(n))
  <2>3. scopes' = Added(scopes, b) /\ heap' = With(heap, b, v)
    BY <2>2 DEF Added, With, Active
  <2>4. v.kind = "none" /\ v.name = n /\ Plain(v)
    <3>1. v.kind = "none" /\ v.name = n /\ v.ref = ref /\ v.null = FALSE
      BY DEF NewVariable
    <3>2. ref # "arg" /\ ref # "left"
      OBVIOUS
    <3> QED BY <3>1, <3>2 DEF Plain
  <2>5. ~Has(scopes, heap, Active, n) /\ ~Has(scopes, heap, 1, n)
    BY <2>1, LookupNone
  <2> HIDE DEF v
  <2>6. Fine(scopes, heap, braces, Len(scopes))
    BY DEF NInv
  <2>7. Fine(scopes', heap', braces, Len(scopes)) /\ Len(scopes') = Len(scopes)
    BY <2>3, <2>4, <2>5, <2>6, AddedNamed
  <2>8. AllNamed(code, heap', calls, activeID)
    <3>1. /\ Len(calls) \in Nat /\ Len(scopes) = Len(calls) + 1 /\ Len(calls) <= Len(calls)
          /\ \A s \in 1..Len(calls) + 1 : IdOf(calls, activeID, s) = IdOf(calls, activeID, s)
      BY ControlIs
    <3>2. SameNames(scopes, Len(calls) + 1, heap, heap')
      <4>1. \A s \in 1..Len(scopes) : \A x \in 1..Len(scopes[s]) : scopes[s][x] \in DOMAIN heap
        BY DEF IInv, Data, Placed
      <4>2. b \notin DOMAIN heap
        BY DEF Unused
      <4> QED BY <2>3, <3>1, <4>1, <4>2 DEF SameNames, With
    <3>3. AllKept(code, scopes, calls, activeID, scopeID) /\ AllNamed(code, heap, calls, activeID)
      BY DEF KInv, NInv
    <3> QED BY <3>1, <3>2, <3>3, AllNamedStays
  <2>9. Braced(tries', braces') /\ LoadIsLookup'
    BY <1>1 DEF NInv, LoadIsLookup, Nothing
  <2> QED BY <1>1, <2>7, <2>8, <2>9, NInvAfter
<1> QED BY <1>3, <1>4

LEMMA BracesNamed == ASSUME Constants, Usual, IInv, NInv, OpenBraces \/ CloseBraces PROVE NInv'
<1>1. /\ pushed' = Nothing
      /\ UNCHANGED <<scopes, heap, activeID, calls, tries, code>>
  BY DEF OpenBraces, CloseBraces
<1>2. /\ braces \in Seq(BOOLEAN) /\ Len(braces) = Len(scopes) /\ Active \in 1..Len(scopes)
      /\ 1 \in 1..Len(scopes) /\ (calls = <<>> <=> Active = 1)
  BY ScopesAre, RunningIs DEF IInv
<1>3. PICK b \in BOOLEAN : braces' = [braces EXCEPT ![Active] = b]
                           /\ (b <=> OpenBraces) /\ (~b => CloseBraces)
  <2>1. CASE OpenBraces
    BY <1>2, <2>1 DEF OpenBraces
  <2>2. CASE CloseBraces /\ ~OpenBraces
    BY <2>2 DEF CloseBraces
  <2> QED BY <2>1, <2>2
<1>4. braces'[Active] = b /\ \A s \in 1..Len(scopes) : s # Active => braces'[s] = braces[s]
  BY <1>2, <1>3
<1>5. ASSUME NEW s \in 1..Len(scopes) PROVE Unhidden(scopes, heap, braces', s)
  <2>1. Unhidden(scopes, heap, braces, s)
    BY DEF NInv, Fine
  <2>2. CASE s # Active
    BY <1>4, <2>1, <2>2 DEF Unhidden
  <2>3. CASE s = Active
    <3> SUFFICES ASSUME s # 1, b, NEW n \in Attributes, Has(scopes, heap, 1, n)
                 PROVE  Has(scopes, heap, s, n)
      BY <1>4, <2>3 DEF Unhidden
    <3>1. InFunction
      BY <1>2, <2>3 DEF InFunction
    <3>2. Named(1, n) # {}
      BY <1>2, NamesAre
    <3>3. Named(Active, n) # {}
      BY <1>3, <3>1, <3>2 DEF OpenBraces, Usual
    <3> QED BY <1>2, <2>3, <3>3, NamesAre
  <2> QED BY <2>2, <2>3
<1>6. Fine(scopes', heap', braces', Len(scopes'))
  BY <1>1, <1>5 DEF NInv, Fine
<1>7. Braced(tries', braces')
  <2>1. ASSUME NEW k \in 1..Len(tries), tries[k].brace PROVE braces'[tries[k].scopes]
    <3>1. braces[tries[k].scopes] /\ tries[k].scopes \in 1..Len(scopes) /\ k \in DOMAIN tries
      BY <2>1 DEF NInv, Braced, IInv, TriesIn
    <3>2. CASE tries[k].scopes = Active
      BY <1>3, <1>4, <2>1, <3>1, <3>2 DEF CloseBraces, InThisScope
    <3>3. CASE tries[k].scopes # Active
      BY <1>4, <3>1, <3>3
    <3> QED BY <3>2, <3>3
  <2> QED BY <1>1, <2>1 DEF NInv, Braced
<1>8. LoadIsLookup'
  BY <1>1 DEF LoadIsLookup, Nothing
<1> QED BY <1>1, <1>6, <1>7, <1>8, NInvAfter DEF NInv

-----------------------------------------------------------------------------
(* Errors, calls and returns. *)

(* The scopes that are left are as they were. *)
LEMMA CutNamed ==
    ASSUME Constants, NEW scs, NEW h, NEW count \in 0..CacheSize, Data(scs, h, count),
           NEW n \in 1..Len(scs), DeleteScopes(scs, n, h, count, 0),
           NEW bs, Fine(scs, h, bs, n), NEW bs2, \A s \in 1..n : bs2[s] => bs[s]
    PROVE  Len(scopes') = n /\ Fine(scopes', heap', bs2, n) /\ SameNames(scs, n, h, heap')
<1>1. CacheSize \in Nat /\ scs \in Seq(Seq(Lists)) /\ Len(scs) \in Nat
  <2>1. scs \in Seq(Seq(Lists))
    BY DEF Data, Placed
  <2> QED BY <2>1 DEF Constants
<1>2. n \in Nat /\ n >= 1 /\ n <= Len(scs)
  BY <1>1
<1>3. /\ scopes' = SubSeq(scs, 1, n)
      /\ \A s \in 1..n : \A x \in 1..Len(scs[s]) : heap'[scs[s][x]] = h[scs[s][x]]
  <2>1. CacheSize \in Nat /\ count \in 0..CacheSize /\ n \in 1..Len(scs)
    BY <1>1
  <2>2. Data(scs, h, count) /\ DeleteScopes(scs, n, h, count, 0)
    OBVIOUS
  <2> HIDE DEF Data
  <2> QED BY <2>1, <2>2, DeleteKeeps, SMTT(60)
<1>4. Len(scopes') = n /\ \A s \in 1..n : scopes'[s] = scs[s]
  BY <1>1, <1>2, <1>3, PrefixIs
<1>5. SameNames(scs, n, h, heap')
  BY <1>3 DEF SameNames
<1>6. \A s \in 1..n : \A x \in 1..Len(scs[s]) : Plain(heap'[scs[s][x]])
  BY <1>3 DEF Fine
<1>7. Fine(scopes', heap', bs2, n)
  BY <1>2, <1>4, <1>5, <1>6, FineStays
<1> QED BY <1>4, <1>5, <1>7

LEMMA CatchNamed ==
    ASSUME Constants, Usual, IInv, NEW scs, NEW h, NEW count \in 0..CacheSize, Data(scs, h, count),
           Len(scopes) <= Len(scs), Catch(scs, h, count, 0), IdsSaved(tries, calls, activeID),
           NEW c, NEW last, AllKept(c, scs, calls, activeID, last),
           Fine(scs, h, braces, Len(scopes)), Braced(tries, braces),
           AllNamed(c, h, calls, activeID), code' = c
    PROVE  NInv'
<1> DEFINE t == Last(tries)
           n == t.scopes
<1>1. /\ tries # <<>> /\ DeleteScopes(scs, n, AfterError(scs, h), count, 0)
      /\ AfterError(scs, h) = h
      /\ calls' = SubSeq(calls, 1, n - 1) /\ activeID' = t.activeID
      /\ braces' = [SubSeq(braces, 1, n) EXCEPT ![n] = t.brace]
      /\ tries' = Front(tries) /\ pushed' = Nothing
  BY DEF Catch, Usual
<1>2. /\ calls \in Seq(Ids) /\ Len(calls) \in Nat /\ Len(scopes) = Len(calls) + 1
      /\ Len(scopes) \in Nat /\ braces \in Seq(BOOLEAN) /\ Len(braces) = Len(scopes)
  BY ControlIs, ScopesAre DEF IInv
<1>3. /\ n \in 1..Len(scopes) /\ TriesIn(Front(tries), n) /\ tries \in Seq(Saved)
      /\ TriesIn(tries, Len(scopes))
  BY <1>1, <1>2, LastTry DEF IInv, TriesIn
<1>4. /\ Len(tries) \in Nat /\ Len(tries) \in 1..Len(tries) /\ t = tries[Len(tries)]
      /\ Len(Front(tries)) = Len(tries) - 1
      /\ \A k \in 1..Len(tries) - 1 : k \in 1..Len(tries) /\ Front(tries)[k] = tries[k]
  <2>1. tries \in Seq(Saved) /\ tries # <<>>
    BY <1>1, <1>3
  <2>2. Len(tries) \in Nat /\ Len(tries) \in 1..Len(tries) /\ t = tries[Len(tries)]
    BY <2>1 DEF Last
  <2> HIDE DEF t
  <2> QED BY <2>1, <2>2, FrontIs
<1>5. t.activeID = IdOf(calls, activeID, n) /\ (t.brace => braces[n])
  BY <1>4 DEF IdsSaved, Braced
<1>6. ASSUME NEW k \in 1..Len(tries), tries[k].scopes = n, tries[k].brace PROVE t.brace
  <2>1. k <= Len(tries)
    BY <1>4
  <2> QED BY <1>4, <1>6, <2>1 DEF Braced
<1> HIDE DEF t, n
<1>7. n \in 1..Len(calls) + 1 /\ n \in Nat /\ n - 1 \in Nat /\ n >= 1 /\ n <= Len(braces)
      /\ n \in 1..Len(scs)
  <2>1. scs \in Seq(Seq(Lists))
    BY DEF Data, Placed
  <2>2. Len(scs) \in Nat
    BY <2>1
  <2> QED BY <1>2, <1>3, <2>2
<1> DEFINE cs2 == SubSeq(calls, 1, n - 1)
<1>8. /\ Len(cs2) = n - 1 /\ Len(cs2) \in Nat /\ Len(cs2) <= Len(calls)
      /\ \A s \in 1..n : IdOf(cs2, t.activeID, s) = IdOf(calls, activeID, s)
  BY <1>2, <1>5, <1>7, IdsCut
<1>9. calls' = cs2 /\ activeID' = t.activeID
  BY <1>1
<1> HIDE DEF cs2
<1>10. Len(cs2) + 1 = n
  BY <1>7, <1>8
<1>11. braces'[n] = t.brace /\ \A s \in 1..n : s # n => braces'[s] = braces[s]
  <2> DEFINE front == SubSeq(braces, 1, n)
  <2>1. front \in Seq(BOOLEAN) /\ Len(front) = n /\ \A s \in 1..n : front[s] = braces[s]
    BY <1>2, <1>7, PrefixIs
  <2>2. braces' = [front EXCEPT ![n] = t.brace] /\ n \in 1..n
    BY <1>1, <1>7
  <2> HIDE DEF front
  <2> QED BY <2>1, <2>2
<1>12. \A s \in 1..n : braces'[s] => braces[s]
  BY <1>5, <1>11
<1>13. Fine(scs, h, braces, n)
  BY <1>2, <1>7 DEF Fine
<1>14. Len(scopes') = n /\ Fine(scopes', heap', braces', n) /\ SameNames(scs, n, h, heap')
  <2>1. DeleteScopes(scs, n, h, count, 0)
    BY <1>1
  <2> QED BY <1>7, <1>12, <1>13, <2>1, CutNamed
<1>15. AllNamed(code', heap', calls', activeID')
  <2>1. AllNamed(c, heap', cs2, t.activeID)
    BY <1>2, <1>8, <1>10, <1>14, AllNamedStays
  <2> QED BY <1>9, <2>1
<1>16. Braced(tries', braces')
  <2> DEFINE ts2 == Front(tries)
  <2>1. ASSUME NEW k \in 1..Len(ts2), ts2[k].brace PROVE braces'[ts2[k].scopes]
    <3>1. k \in 1..Len(tries) /\ ts2[k] = tries[k] /\ ts2[k].scopes \in 1..n
      BY <1>3, <1>4 DEF TriesIn
    <3>2. CASE ts2[k].scopes = n
      BY <1>6, <1>11, <2>1, <3>1, <3>2
    <3>3. CASE ts2[k].scopes # n
      BY <1>11, <2>1, <3>1, <3>3 DEF Braced
    <3> QED BY <3>2, <3>3
  <2>2. Braced(ts2, braces)
    BY <1>1, <1>3, BracedFront
  <2> QED BY <1>1, <2>1, <2>2 DEF Braced
<1>17. LoadIsLookup'
  BY <1>1 DEF LoadIsLookup, Nothing
<1> QED BY <1>14, <1>15, <1>16, <1>17, NInvAfter

LEMMA RaiseNamed ==
    ASSUME Constants, Usual, IInv, KInv, NInv, Catch(scopes, heap, argCount, 0), code' = code
    PROVE  NInv'
<1>1. /\ Data(scopes, heap, argCount) /\ argCount \in 0..CacheSize
  BY DEF IInv
<1>2. Len(scopes) <= Len(scopes)
  BY ControlIs
<1>3. /\ IdsSaved(tries, calls, activeID) /\ AllKept(code, scopes, calls, activeID, scopeID)
      /\ Fine(scopes, heap, braces, Len(scopes)) /\ Braced(tries, braces)
      /\ AllNamed(code, heap, calls, activeID)
  BY DEF KInv, NInv
<1> QED BY <1>1, <1>2, <1>3, CatchNamed

LEMMA ReturnNamed ==
    ASSUME Constants, Usual, IInv, KInv, NInv, NEW swapped, Return(swapped)
    PROVE  NInv'
<1> DEFINE n == Len(calls)
           h == [a \in DOMAIN heap |-> IF a \in swapped THEN [heap[a] EXCEPT !.cached = FALSE] ELSE heap[a]]
           cs2 == Front(calls)
           act2 == Last(calls)
<1>1. /\ calls # <<>> /\ swapped = {} /\ DeleteScopes(scopes, Len(scopes) - 1, h, argCount, 0)
      /\ activeID' = act2 /\ calls' = cs2 /\ pushed' = Nothing /\ braces' = Front(braces)
      /\ tries' = tries /\ code' = code
      /\ \A k \in DOMAIN tries : tries[k].scopes # Len(scopes)
  BY DEF Return, InFunction, InThisScope, Active, Usual
<1>2. h = heap
  <2>1. heap = [a \in DOMAIN heap |-> heap[a]]
    BY DEF IInv, Data, Placed
  <2> QED BY <1>1, <2>1
<1>3. /\ calls \in Seq(Ids) /\ n \in Nat /\ Len(scopes) = n + 1
      /\ scopes \in Seq(Seq(Lists)) /\ braces \in Seq(BOOLEAN) /\ Len(braces) = Len(scopes)
  BY ControlIs, ScopesAre DEF IInv
<1>4. n >= 1 /\ n \in 1..n + 1 /\ n \in 1..Len(scopes) /\ Len(scopes) - 1 = n /\ braces # <<>>
  BY <1>1, <1>3
<1>5. cs2 = SubSeq(calls, 1, n - 1) /\ act2 = IdOf(calls, activeID, n)
  <2>1. cs2 = SubSeq(calls, 1, n - 1) /\ act2 = calls[n]
    BY DEF Front, Last
  <2>2. n # Len(calls) + 1
    BY <1>3
  <2> QED BY <2>1, <2>2 DEF IdOf
<1>6. /\ Len(cs2) = n - 1 /\ Len(cs2) \in Nat /\ Len(cs2) <= n
      /\ \A s \in 1..n : IdOf(cs2, act2, s) = IdOf(calls, activeID, s)
  BY <1>3, <1>4, <1>5, IdsCut
<1>7. DeleteScopes(scopes, n, heap, argCount, 0)
  BY <1>1, <1>2, <1>4
<1> HIDE DEF n, cs2, act2, h
<1>8. Len(cs2) + 1 = n
  BY <1>3, <1>6
<1>9. \A s \in 1..n : braces'[s] = braces[s]
  <2>1. \A s \in 1..Len(braces) - 1 : Front(braces)[s] = braces[s]
    BY <1>3, <1>4, FrontIs
  <2> QED BY <1>1, <1>3, <1>4, <2>1
<1>10. Fine(scopes, heap, braces, n)
  BY <1>3 DEF NInv, Fine
<1>11. Len(scopes') = n /\ Fine(scopes', heap', braces', n) /\ SameNames(scopes, n, heap, heap')
  <2>1. Data(scopes, heap, argCount) /\ argCount \in 0..CacheSize
    BY DEF IInv
  <2> QED BY <1>4, <1>7, <1>9, <1>10, <2>1, CutNamed
<1>12. AllNamed(code', heap', calls', activeID')
  <2>1. AllKept(code, scopes, calls, activeID, scopeID) /\ AllNamed(code, heap, calls, activeID)
    BY DEF KInv, NInv
  <2>2. AllNamed(code, heap', cs2, act2)
    BY <1>3, <1>6, <1>8, <1>11, <2>1, AllNamedStays DEF n
  <2> QED BY <1>1, <2>2
<1>13. Braced(tries', braces')
  <2>1. ASSUME NEW k \in 1..Len(tries), tries[k].brace PROVE braces'[tries[k].scopes]
    <3>1. tries[k].scopes \in 1..Len(scopes) /\ k \in DOMAIN tries /\ braces[tries[k].scopes]
      BY <2>1 DEF IInv, TriesIn, NInv, Braced
    <3>2. tries[k].scopes \in 1..n
      BY <1>1, <1>3, <3>1
    <3> QED BY <1>9, <3>1, <3>2
  <2> QED BY <1>1, <2>1 DEF NInv, Braced
<1>14. LoadIsLookup'
  BY <1>1 DEF LoadIsLookup, Nothing
<1> QED BY <1>11, <1>12, <1>13, <1>14, NInvAfter

(* The arguments of a call, and what was there before. *)
LEMMA ArgsNamed ==
    ASSUME Constants, IInv, NEW n \in 0..Len(Params), NEW fresh \in Fresh(n), NEW kinds
    PROVE  LET args == ArgLists(n, fresh)
               h == WithArgs(args, kinds) IN
           /\ args \in Seq(Lists) /\ Len(args) = n
           /\ \A s \in 1..Len(scopes) : \A x \in 1..Len(scopes[s]) : h[scopes[s][x]] = heap[scopes[s][x]]
           /\ \A x \in 1..n : /\ h[args[x]].name = Params[Len(Params) - x + 1]
                              /\ h[args[x]].kind = kinds[x] /\ ~h[args[x]].null
                              /\ h[args[x]].ref = IF kinds[x] = "pointer" THEN "arg" ELSE "no"
<1> DEFINE args == ArgLists(n, fresh)
           h == WithArgs(args, kinds)
<1>1. n \in Nat /\ Data(scopes, heap, argCount) /\ argCount \in 0..CacheSize /\ CacheSize \in Nat
  BY DEF IInv, Constants
<1>2. /\ args \in Seq(Lists) /\ Len(args) = n /\ DOMAIN args = 1..n
      /\ \A x, y \in 1..n : args[x] = args[y] => x = y
      /\ \A s \in 1..Len(scopes) : \A x \in 1..Len(scopes[s]) :
             \A y \in 1..n : scopes[s][x] # args[y]
  BY <1>1, ArgumentsAre
<1>3. \A s \in 1..Len(scopes) : \A x \in 1..Len(scopes[s]) : scopes[s][x] \in DOMAIN heap
  BY DEF IInv, Data, Placed
<1> HIDE DEF args
<1>4. ToSet(args) = {args[x] : x \in 1..n}
  BY <1>2 DEF ToSet
<1>5. ASSUME NEW s \in 1..Len(scopes), NEW x \in 1..Len(scopes[s])
      PROVE  h[scopes[s][x]] = heap[scopes[s][x]]
  <2>1. scopes[s][x] \notin ToSet(args) /\ scopes[s][x] \in DOMAIN heap
    BY <1>2, <1>3, <1>4
  <2> QED BY <2>1 DEF WithArgs
<1>6. ASSUME NEW x \in 1..n
      PROVE  /\ h[args[x]].name = Params[Len(Params) - x + 1]
             /\ h[args[x]].kind = kinds[x] /\ ~h[args[x]].null
             /\ h[args[x]].ref = IF kinds[x] = "pointer" THEN "arg" ELSE "no"
  <2>1. args[x] \in ToSet(args)
    BY <1>4
  <2>2. (CHOOSE y \in DOMAIN args : args[y] = args[x]) = x
    BY <1>2
  <2>3. h[args[x]] = [name |-> Params[Len(Params) - x + 1], kind |-> kinds[x],
                      ref |-> IF kinds[x] = "pointer" THEN "arg" ELSE "no", null |-> FALSE,
                      cached |-> args[x] \in DOMAIN heap]
    BY <2>1, <2>2 DEF WithArgs
  <2> QED BY <2>3
<1> QED BY <1>2, <1>5, <1>6 DEF args

(* Instructions that forget what they kept stand for nothing. *)
LEMMA NewScopeNamed ==
    ASSUME Constants, IInv, NInv, NewScope
    PROVE  AllNamed(code', heap, calls, activeID)
<1> SUFFICES ASSUME NEW i \in Instructions PROVE KeptNamed(i, code'[i], heap, calls, activeID)
  BY DEF AllNamed
<1>1. code[i] \in Entry
  BY DEF IInv
<1>2. KeptNamed(i, code[i], heap, calls, activeID)
  BY DEF NInv, AllNamed
<1>3. \/ code'[i] = [code[i] EXCEPT !.op = "LOADADDRESS", !.var = None]
      \/ code'[i] = [code[i] EXCEPT !.op = "INCJUMP"]
      \/ code'[i] = code[i]
  BY DEF NewScope, AfterOverflow
<1>4. code'[i].op \in {"LOADADDRESS", "INCJUMP"} \/ code'[i] = code[i]
  BY <1>1, <1>3 DEF Entry
<1>5. CASE code'[i].op \in {"LOADADDRESS", "INCJUMP"}
  BY <1>5 DEF KeptNamed, KeptGlobal, KeptLocal
<1> QED BY <1>2, <1>4, <1>5

LEMMA AppendIs ==
    ASSUME NEW S, NEW s \in Seq(S), NEW v \in S
    PROVE  Append(s, v)[Len(s) + 1] = v /\ \A k \in 1..Len(s) : Append(s, v)[k] = s[k]
OBVIOUS

(* A call's arguments have the names of the parameters, in a new scope. *)
LEMMA CallNamed ==
    ASSUME Constants, Usual, Lasting, IInv, KInv, NInv, NEW kinds \in Kinds, Call(kinds)
    PROVE  NInv'
<1> DEFINE n == Len(Params)
<1>1. PICK fresh \in Fresh(n) : /\ scopes' = Append(scopes, ArgLists(n, fresh))
                                /\ heap' = WithArgs(ArgLists(n, fresh), kinds)
  BY DEF Call
<1> DEFINE w == ArgLists(n, fresh)
           L == Len(scopes)
<1>2. /\ activeID' = NextID /\ NewScope /\ braces' = Append(braces, FALSE)
      /\ calls' = Append(calls, activeID) /\ tries' = tries /\ pushed' = Nothing
  BY DEF Call
<1>3. /\ n \in Nat /\ n \in 0..Len(Params)
      /\ \A x \in 1..n : kinds[x] \in {"value", "pointer"}
      /\ \A x, y \in 1..n : Params[x] = Params[y] => x = y
  BY DEF Constants, Kinds, Usual, IsInjective
<1>4. /\ w \in Seq(Lists) /\ Len(w) = n
      /\ \A s \in 1..L : \A x \in 1..Len(scopes[s]) : heap'[scopes[s][x]] = heap[scopes[s][x]]
      /\ \A x \in 1..n : /\ heap'[w[x]].name = Params[n - x + 1]
                         /\ heap'[w[x]].kind = kinds[x] /\ ~heap'[w[x]].null
                         /\ heap'[w[x]].ref = IF kinds[x] = "pointer" THEN "arg" ELSE "no"
  BY <1>1, <1>3, ArgsNamed
<1>5. /\ calls \in Seq(Ids) /\ Len(calls) \in Nat /\ L = Len(calls) + 1 /\ activeID \in Ids
      /\ L \in Nat /\ L >= 1
      /\ scopes \in Seq(Seq(Lists)) /\ braces \in Seq(BOOLEAN) /\ Len(braces) = L
  BY ControlIs, ScopesAre DEF IInv
<1> HIDE DEF w, n, NextID
<1>6. /\ scopes' = Append(scopes, w) /\ Len(scopes') = L + 1 /\ scopes'[L + 1] = w
      /\ \A s \in 1..L : scopes'[s] = scopes[s]
  BY <1>1, <1>4, <1>5 DEF w
<1>7. braces'[L + 1] = FALSE /\ \A s \in 1..L : braces'[s] = braces[s]
  <2>1. braces \in Seq(BOOLEAN) /\ FALSE \in BOOLEAN
    BY <1>5
  <2>2. /\ Append(braces, FALSE)[Len(braces) + 1] = FALSE
        /\ \A s \in 1..Len(braces) : Append(braces, FALSE)[s] = braces[s]
    BY <2>1, AppendIs, Zenon
  <2> QED BY <1>2, <1>5, <2>2
<1>8. Len(calls') = L /\ Len(calls') \in Nat
      /\ \A s \in 1..L : IdOf(calls', NextID, s) = IdOf(calls, activeID, s)
  <2>1. Len(calls') = Len(calls) + 1
        /\ \A s \in 1..Len(calls) + 1 : calls'[s] = IF s = Len(calls) + 1 THEN activeID ELSE calls[s]
    BY <1>2, <1>5
  <2> QED BY <1>5, <2>1 DEF IdOf
<1> HIDE DEF L
<1>9. SameNames(scopes, L, heap, heap')
  BY <1>4 DEF SameNames
<1>10. Fine(scopes', heap', braces', L)
  <2>1. Fine(scopes, heap, braces, L)
    BY DEF NInv, L
  <2>2. \A s \in 1..L : \A x \in 1..Len(scopes[s]) : Plain(heap'[scopes[s][x]])
    BY <1>4, <2>1 DEF Fine
  <2> QED BY <1>5, <1>6, <1>7, <1>9, <2>1, <2>2, FineStays
<1>11. WellNamed(scopes', heap', L + 1)
  <2>1. ASSUME NEW x \in 1..n, NEW y \in 1..n, heap'[w[x]].name = heap'[w[y]].name PROVE x = y
    <3>1. n - x + 1 \in 1..n /\ n - y + 1 \in 1..n
      BY <1>3
    <3>2. Params[n - x + 1] = Params[n - y + 1]
      BY <1>4, <2>1
    <3>3. n - x + 1 = n - y + 1
      BY <1>3, <3>1, <3>2
    <3> QED BY <1>3, <3>3
  <2>2. \A x \in 1..n : heap'[w[x]].kind # "none" /\ x <= n
    BY <1>3, <1>4
  <2>3. \A x \in 1..n : ~(x > n)
    BY <1>3
  <2>4. L + 1 # 1 /\ Len(Params) = n /\ Len(scopes'[L + 1]) = n
    BY <1>4, <1>5, <1>6 DEF n
  <2> QED BY <1>3, <1>4, <1>6, <2>1, <2>2, <2>3, <2>4 DEF WellNamed
<1>12. \A x \in 1..n : Plain(heap'[w[x]])
  BY <1>3, <1>4 DEF Plain
<1>13. Fine(scopes', heap', braces', Len(scopes'))
  <2>1. Unhidden(scopes', heap', braces', L + 1)
    BY <1>7 DEF Unhidden
  <2>2. ASSUME NEW s \in 1..L + 1 PROVE s \in 1..L \/ s = L + 1
    BY <1>5
  <2>3. \A x \in 1..Len(scopes'[L + 1]) : Plain(heap'[scopes'[L + 1][x]])
    BY <1>4, <1>6, <1>12
  <2> QED BY <1>6, <1>10, <1>11, <2>1, <2>2, <2>3 DEF Fine
<1>14. AllNamed(code', heap', calls', activeID')
  <2> SUFFICES ASSUME NEW i \in Instructions PROVE KeptNamed(i, code'[i], heap', calls', NextID)
    BY <1>2 DEF AllNamed
  <2>1. KeptNamed(i, code'[i], heap, calls, activeID)
    BY <1>2, NewScopeNamed DEF AllNamed
  <2>2. /\ Kept(i, code'[i], scopes, calls, activeID, NextID) /\ NextID \in Nat
        /\ code'[i].op \in KeptLocal => code'[i].int < NextID
        /\ code'[i].int \in Nat
    BY <1>2, NewScopeKept DEF AllKept, Entry
  <2>3. KeptNamed(i, code'[i], heap', calls, activeID)
    <3>1. Len(calls) <= Len(calls) /\ SameNames(scopes, Len(calls) + 1, heap, heap')
          /\ \A s \in 1..Len(calls) + 1 : IdOf(calls, activeID, s) = IdOf(calls, activeID, s)
      BY <1>5, <1>9
    <3> QED BY <1>5, <2>1, <2>2, <3>1, KeptNamedStays
  <2>4. ASSUME code'[i].op \in KeptLocal, NEW s \in 2..Len(calls') + 1,
               IdOf(calls', NextID, s) = code'[i].int
        PROVE  s \in 2..Len(calls) + 1 /\ IdOf(calls, activeID, s) = code'[i].int
    <3>1. IdOf(calls', NextID, L + 1) = NextID
      BY <1>8 DEF IdOf
    <3>2. s # L + 1
      BY <2>2, <2>4, <3>1
    <3>3. s \in 1..L /\ s \in 2..Len(calls) + 1
      BY <1>5, <1>8, <3>2
    <3> QED BY <1>8, <2>4, <3>3
  <2> QED BY <2>3, <2>4 DEF KeptNamed
<1>15. Braced(tries', braces')
  <2>1. ASSUME NEW k \in 1..Len(tries), tries[k].brace PROVE braces'[tries[k].scopes]
    <3>1. tries[k].scopes \in 1..L /\ braces[tries[k].scopes]
      BY <2>1 DEF IInv, TriesIn, NInv, Braced, L
    <3> QED BY <1>7, <3>1
  <2> QED BY <1>2, <2>1 DEF NInv, Braced
<1>16. LoadIsLookup'
  BY <1>2 DEF LoadIsLookup, Nothing
<1> QED BY <1>13, <1>14, <1>15, <1>16, NInvAfter

(* A call with fewer or more arguments leaves what was there before. *)
LEMMA CallFailsNamed ==
    ASSUME Constants, Usual, Lasting, IInv, KInv, NInv, NEW n \in 0..Len(Params), CallFails(n)
    PROVE  NInv'
<1> DEFINE kinds == [x \in 1..n |-> "value"]
<1>1. PICK fresh \in Fresh(n) :
          Catch(Append(scopes, ArgLists(n, fresh)), WithArgs(ArgLists(n, fresh), kinds), Left(n), 0)
  BY DEF CallFails
<1>2. NewScope
  BY DEF CallFails
<1>3. kinds \in [1..n -> {"value", "pointer"}]
  OBVIOUS
<1> DEFINE w == ArgLists(n, fresh)
           scs == Append(scopes, w)
           h == WithArgs(w, kinds)
<1> HIDE DEF kinds
<1>4. Left(n) \in 0..CacheSize /\ Data(scs, h, Left(n))
  <2>1. Data(scopes, heap, argCount) /\ argCount \in 0..CacheSize
    BY DEF IInv
  <2> QED BY <1>3, <2>1, ScopeAdded DEF Constants
<1>5. /\ w \in Seq(Lists)
      /\ \A s \in 1..Len(scopes) : \A x \in 1..Len(scopes[s]) : h[scopes[s][x]] = heap[scopes[s][x]]
  BY ArgsNamed
<1>6. /\ scopes \in Seq(Seq(Lists)) /\ Len(scopes) \in Nat /\ Len(scopes) >= 1
      /\ Len(calls) \in Nat /\ Len(scopes) = Len(calls) + 1
  BY ControlIs
<1> HIDE DEF w
<1>7. Len(scopes) <= Len(scs) /\ \A s \in 1..Len(scopes) : scs[s] = scopes[s]
  <2>1. Len(scs) = Len(scopes) + 1
    BY <1>5, <1>6
  <2> QED BY <1>5, <1>6, <2>1, AppendedHolds
<1>8. Catch(scs, h, Left(n), 0)
  BY <1>1 DEF w
<1>9. IdsSaved(tries, calls, activeID) /\ Braced(tries, braces)
  BY DEF KInv, NInv
<1> HIDE DEF scs, h
<1>10. SameNames(scopes, Len(scopes), heap, h)
  BY <1>5 DEF SameNames
<1>11. Fine(scs, h, braces, Len(scopes))
  <2>1. Fine(scopes, heap, braces, Len(scopes))
    BY DEF NInv
  <2>2. \A s \in 1..Len(scopes) : \A x \in 1..Len(scopes[s]) : Plain(h[scopes[s][x]])
    BY <1>5, <2>1 DEF Fine
  <2> QED BY <1>6, <1>7, <1>10, <2>1, <2>2, FineStays
<1>12. AllKept(code', scopes, calls, activeID, NextID) /\ AllNamed(code', heap, calls, activeID)
  BY <1>2, NewScopeKept, NewScopeNamed
<1> HIDE DEF NextID
<1>13. AllKept(code', scs, calls, activeID, NextID)
  <2> SUFFICES ASSUME NEW i \in Instructions
               PROVE  Kept(i, code'[i], scs, calls, activeID, NextID)
    BY DEF AllKept
  <2>1. Kept(i, code'[i], scopes, calls, activeID, NextID)
    BY <1>12 DEF AllKept
  <2>2. 1 \in 1..Len(scopes) /\ \A s \in 2..Len(calls) + 1 : s \in 1..Len(scopes)
    BY <1>6
  <2> QED BY <1>7, <2>1, <2>2 DEF Kept
<1>14. AllNamed(code', h, calls, activeID)
  <2>1. Len(calls) <= Len(calls) /\ SameNames(scopes, Len(calls) + 1, heap, h)
        /\ \A s \in 1..Len(calls) + 1 : IdOf(calls, activeID, s) = IdOf(calls, activeID, s)
    BY <1>6, <1>10
  <2> QED BY <1>6, <1>12, <2>1, AllNamedStays
<1> QED BY <1>4, <1>7, <1>8, <1>9, <1>11, <1>13, <1>14, CatchNamed

(* A variable without a value is no parameter: without it, the others have *)
(* the names they had.                                                     *)
LEMMA DroppedNamed ==
    ASSUME Constants, IInv, NInv, scopes[Active] # <<>>, NEW a, Last(scopes[Active]) = a,
           a \in DOMAIN heap, heap[a].null
    PROVE  /\ Fine(Cut(scopes), Without(heap, a), braces, Len(scopes))
           /\ SameNames(Cut(scopes), Len(scopes), heap, Without(heap, a))
<1> DEFINE L == Len(scopes)
           M == Len(scopes[L])
           rest == Cut(scopes)
           new == rest[L]
           g == Without(heap, a)
<1>1. /\ scopes \in Seq(Seq(Lists)) /\ scopes # <<>> /\ Active = L /\ L \in 1..Len(scopes)
      /\ L \in Nat /\ L >= 1 /\ Len(Params) \in Nat
  BY ControlIs, RunningIs DEF Constants
<1>2. scopes[L] \in Seq(Lists) /\ scopes[L] # <<>>
  BY <1>1
<1>3. M \in Nat /\ M >= 1 /\ M \in 1..M /\ scopes[L][M] = a
  BY <1>1, <1>2 DEF Last
<1>4. /\ new = Front(scopes[L]) /\ \A s \in 1..L : s # L => rest[s] = scopes[s]
  BY <1>1 DEF Cut
<1>5. Len(new) = M - 1 /\ \A x \in 1..M - 1 : x \in 1..M /\ new[x] = scopes[L][x]
  BY <1>2, <1>4, FrontIs
<1>6. /\ \A s \in 1..L : \A x \in 1..Len(scopes[s]) : scopes[s][x] \in DOMAIN heap
      /\ \A s \in 1..L : \A x \in 1..Len(scopes[s]) :
             \A t \in 1..L : \A y \in 1..Len(scopes[t]) : scopes[s][x] = scopes[t][y] => s = t /\ x = y
  BY DEF IInv, Data, Placed
<1>7. Fine(scopes, heap, braces, L)
  BY DEF NInv
<1>8. ASSUME NEW s \in 1..L, s # L, NEW x \in 1..Len(scopes[s])
      PROVE  g[scopes[s][x]] = heap[scopes[s][x]]
  <2>1. scopes[s][x] # a
    BY <1>1, <1>3, <1>6, <1>8
  <2> QED BY <1>6, <2>1 DEF Without
<1>9. ASSUME NEW x \in 1..M - 1 PROVE g[new[x]] = heap[scopes[L][x]]
  <2>1. x # M /\ x \in 1..M
    BY <1>3
  <2>2. scopes[L][x] # a
    BY <1>1, <1>3, <1>6, <2>1
  <2> QED BY <1>1, <1>5, <1>6, <2>1, <2>2 DEF Without
<1>10. WellNamed(scopes, heap, L) /\ Unhidden(scopes, heap, braces, L)
  BY <1>1, <1>7 DEF Fine
<1>11. \A x \in 1..M : Plain(heap[scopes[L][x]])
  BY <1>1, <1>7 DEF Fine
<1>12. heap[a].kind = "none"
  BY <1>3, <1>11 DEF Plain
<1>13. L # 1 => Len(Params) <= M - 1
  <2>1. L # 1 => ~(M <= Len(Params))
    BY <1>3, <1>10, <1>12 DEF WellNamed
  <2> QED BY <1>1, <1>3, <2>1
<1> HIDE DEF M, new, g, rest
<1>14. \A x \in 1..M - 1 : Plain(g[new[x]])
  BY <1>5, <1>9, <1>11
<1>15. SameNames(rest, L, heap, g)
  <2> SUFFICES ASSUME NEW s \in 1..L, NEW x \in 1..Len(rest[s])
               PROVE  g[rest[s][x]].name = heap[rest[s][x]].name /\ g[rest[s][x]].kind = heap[rest[s][x]].kind
    BY DEF SameNames
  <2>1. CASE s = L
    BY <1>5, <1>9, <2>1 DEF new
  <2>2. CASE s # L
    BY <1>4, <1>8, <2>2
  <2> QED BY <2>1, <2>2
<1>16. ASSUME NEW x \in 1..M - 1, NEW y \in 1..M - 1, g[new[x]].name = g[new[y]].name
       PROVE  x = y
  <2>1. x \in 1..M /\ y \in 1..M /\ heap[scopes[L][x]].name = heap[scopes[L][y]].name
    BY <1>5, <1>9, <1>16
  <2> QED BY <1>10, <2>1 DEF WellNamed, M
<1> HIDE DEF L
<1>17. CASE L = 1
  <2>1. \A x \in 1..M - 1 : \A y \in 1..M - 1 : g[new[x]].name = g[new[y]].name => x = y
    BY <1>16
  <2>2. \A x \in 1..M - 1 : g[new[x]].kind = "none"
    BY <1>5, <1>9, <1>10, <1>17 DEF WellNamed, M
  <2>3. WellNamed(rest, g, 1) /\ Unhidden(rest, g, braces, 1)
    BY <1>5, <1>17, <2>1, <2>2 DEF WellNamed, Unhidden, new
  <2>4. \A x \in 1..Len(rest[1]) : Plain(g[rest[1][x]])
    BY <1>5, <1>14, <1>17 DEF new
  <2>5. \A s \in 1..L : s = 1
    BY <1>17
  <2>6. Fine(rest, g, braces, L)
    BY <2>3, <2>4, <2>5 DEF Fine
  <2> QED BY <1>15, <2>6 DEF rest, g, L
<1>18. CASE L # 1
  <2>1. L - 1 \in Nat /\ L - 1 >= 1 /\ \A s \in 1..L - 1 : s \in 1..L /\ s # L
    BY <1>1, <1>18
  <2>2. /\ SameNames(scopes, L - 1, heap, g)
        /\ \A s \in 1..L - 1 : \A x \in 1..Len(scopes[s]) : Plain(g[scopes[s][x]])
    BY <1>7, <1>8, <2>1 DEF SameNames, Fine
  <2>3. /\ Fine(scopes, heap, braces, L - 1)
        /\ \A s \in 1..L - 1 : rest[s] = scopes[s]
    BY <1>4, <1>7, <2>1 DEF Fine
  <2>4. Fine(rest, g, braces, L - 1)
    BY <2>1, <2>2, <2>3, FineStays
  <2>5. 1 \in 1..L - 1
    BY <2>1
  <2>6. \A n : Has(rest, g, 1, n) <=> Has(scopes, heap, 1, n)
    BY <2>1, <2>2, <2>3, <2>5, HasSame
  <2>7. \A x \in 1..M - 1 : \A y \in 1..M - 1 : g[new[x]].name = g[new[y]].name => x = y
    BY <1>16
  <2>8. /\ \A x \in 1..Len(Params) : heap[scopes[L][x]].name = Params[Len(Params) - x + 1]
        /\ \A x \in 1..M : x > Len(Params) => ~Has(scopes, heap, 1, heap[scopes[L][x]].name)
        /\ \A x \in 1..M : heap[scopes[L][x]].kind # "none" <=> x <= Len(Params)
    BY <1>10, <1>18 DEF WellNamed, M
  <2>9. ASSUME NEW x \in 1..Len(Params) PROVE g[new[x]].name = Params[Len(Params) - x + 1]
    <3>1. x \in 1..M - 1
      BY <1>1, <1>3, <1>13, <1>18
    <3> QED BY <1>9, <2>8, <3>1
  <2>10. ASSUME NEW x \in 1..M - 1
         PROVE  /\ x > Len(Params) => ~Has(rest, g, 1, g[new[x]].name)
                /\ g[new[x]].kind # "none" <=> x <= Len(Params)
    BY <1>5, <1>9, <2>6, <2>8
  <2>11. WellNamed(rest, g, L)
    BY <1>5, <1>13, <1>18, <2>7, <2>9, <2>10 DEF WellNamed, new
  <2>12. Unhidden(rest, g, braces, L)
    <3> SUFFICES ASSUME braces[L], NEW n \in Attributes, Has(rest, g, 1, n) PROVE Has(rest, g, L, n)
      BY DEF Unhidden
    <3>1. Has(scopes, heap, 1, n) /\ Has(scopes, heap, L, n)
      BY <1>10, <1>18, <2>6 DEF Unhidden
    <3>2. PICK x \in 1..M : heap[scopes[L][x]].name = n
      BY <3>1 DEF Has, M
    <3>3. x # M
      <4>1. M > Len(Params)
        BY <1>1, <1>3, <1>13, <1>18
      <4> QED BY <1>3, <2>8, <3>1, <3>2, <4>1
    <3>4. x \in 1..M - 1
      BY <1>3, <3>3
    <3> QED BY <1>5, <1>9, <3>2, <3>4 DEF Has, new
  <2>13. \A x \in 1..Len(rest[L]) : Plain(g[rest[L][x]])
    BY <1>5, <1>14 DEF new
  <2>14. ASSUME NEW s \in 1..L PROVE s \in 1..L - 1 \/ s = L
    BY <1>1
  <2>15. Fine(rest, g, braces, L)
    BY <2>4, <2>11, <2>12, <2>13, <2>14 DEF Fine
  <2> QED BY <1>15, <2>15 DEF rest, g, L
<1> QED BY <1>17, <1>18

LEMMA ReadNullNamed ==
    ASSUME Constants, Usual, Lasting, IInv, KInv, NInv, ReadNull PROVE NInv'
<1> DEFINE a == pushed.var
           last == scopes[Active] # <<>> /\ Last(scopes[Active]) = a
           rest == [scopes EXCEPT ![Active] = Front(@)]
           g == [b \in DOMAIN heap \ {a} |-> heap[b]]
<1>1. /\ a \in DOMAIN heap /\ heap[a].null
      /\ last => Catch(rest, g, argCount, 0) /\ pushed.new
      /\ ~last => Catch(scopes, heap, argCount, 0)
      /\ code' = code
  BY DEF ReadNull, Lasting
<1>2. /\ scopes \in Seq(Seq(Lists)) /\ scopes # <<>> /\ CacheSize \in Nat
      /\ argCount \in 0..CacheSize /\ Active = Len(scopes) /\ Len(scopes) <= Len(scopes)
      /\ Len(calls) \in Nat /\ Len(scopes) = Len(calls) + 1 /\ Len(calls) <= Len(calls)
  BY ControlIs, RunningIs DEF IInv, Constants
<1>3. ~heap[a].cached
  BY <1>1 DEF IInv, Data, Placed
<1>4. CASE last
  <2>1. /\ scopes[Active] # <<>> /\ Last(scopes[Active]) = a
        /\ rest = Cut(scopes) /\ g = Without(heap, a) /\ pushed.new
    BY <1>1, <1>2, <1>4 DEF Cut, Without
  <2>2. Data(rest, g, argCount) /\ Len(rest) = Len(scopes)
    <3> HIDE DEF rest, g, a, last
    <3> QED BY <1>2, <1>3, <2>1, VariableDropped DEF IInv
  <2>3. AllKept(code, rest, calls, activeID, scopeID)
    BY <2>1, DroppedKept
  <2>4. /\ IdsSaved(tries, calls, activeID) /\ Braced(tries, braces)
        /\ AllNamed(code, heap, calls, activeID)
    BY DEF KInv, NInv
  <2> HIDE DEF rest, g, a, last
  <2>5. Fine(rest, g, braces, Len(scopes)) /\ SameNames(rest, Len(scopes), heap, g)
    BY <1>1, <2>1, DroppedNamed
  <2>6. AllNamed(code, g, calls, activeID)
    <3>1. SameNames(rest, Len(calls) + 1, heap, g)
          /\ \A s \in 1..Len(calls) + 1 : IdOf(calls, activeID, s) = IdOf(calls, activeID, s)
      BY <1>2, <2>5
    <3> QED BY <1>2, <2>3, <2>4, <3>1, AllNamedStays
  <2>7. Catch(rest, g, argCount, 0) /\ Len(scopes) <= Len(rest)
    BY <1>1, <1>2, <1>4, <2>2
  <2> QED BY <1>1, <1>2, <2>2, <2>3, <2>4, <2>5, <2>6, <2>7, CatchNamed
<1>5. CASE ~last
  BY <1>1, <1>5, RaiseNamed
<1> QED BY <1>4, <1>5

-----------------------------------------------------------------------------
(* What is kept is what looking up finds. *)

LEMMA StartsNamed == ASSUME Init PROVE NInv
<1>1. /\ scopes = << <<>> >> /\ tries = <<>> /\ pushed = Nothing
      /\ code = [i \in Instructions |->
                   [op |-> FirstOpcode(i), int |-> 0, var |-> None, kind |-> "none", tried |-> FALSE]]
  BY DEF Init
<1>2. Len(scopes) = 1 /\ Len(scopes[1]) = 0 /\ Len(tries) = 0
  BY <1>1
<1>3. Fine(scopes, heap, braces, Len(scopes))
  <2>1. ASSUME NEW s \in 1..Len(scopes) PROVE s = 1 /\ 1..Len(scopes[s]) = {}
    BY <1>2
  <2>2. ASSUME NEW s \in 1..Len(scopes)
        PROVE  WellNamed(scopes, heap, s) /\ Unhidden(scopes, heap, braces, s)
    BY <2>1 DEF WellNamed, Unhidden
  <2> QED BY <2>1, <2>2 DEF Fine
<1>4. Braced(tries, braces)
  BY <1>2 DEF Braced
<1>5. AllNamed(code, heap, calls, activeID)
  <2>1. \A i \in Instructions : code[i].op \in {"INCJUMP", "LOADADDRESS"}
    BY <1>1 DEF FirstOpcode
  <2> QED BY <2>1 DEF AllNamed, KeptNamed, KeptGlobal, KeptLocal
<1>6. LoadIsLookup
  BY <1>1 DEF LoadIsLookup, Nothing
<1> QED BY <1>3, <1>4, <1>5, <1>6 DEF NInv

LEMMA StepsNamed ==
    ASSUME Constants, Usual, Lasting, IInv, KInv, NInv, [Next]_vars PROVE NInv'
<1>1. CASE \E i \in Running, inside \in BOOLEAN : Execute(i, inside)
  BY <1>1, ExecuteNamed
<1>2. CASE Try
  BY <1>2, TryNamed
<1>3. CASE Done
  BY <1>3, DoneNamed
<1>4. CASE \E region \in BOOLEAN : Raise(region)
  <2>1. PICK region \in BOOLEAN : Raise(region)
    BY <1>4
  <2>2. ~region
    BY <2>1 DEF Raise, Usual
  <2>3. Catch(scopes, heap, argCount, 0) /\ code' = code
    BY <2>1, <2>2 DEF Raise
  <2> QED BY <2>3, RaiseNamed
<1>5. CASE \E kinds \in Kinds : Call(kinds)
  BY <1>5, CallNamed
<1>6. CASE \E n \in 0..Len(Params) : CallFails(n)
  BY <1>6, CallFailsNamed
<1>7. CASE \E swapped \in {{}} \cup {{a} : a \in CachedArgs} : Return(swapped)
  BY <1>7, ReturnNamed
<1>8. CASE Assign
  BY <1>8, AssignNamed
<1>9. CASE ReadNull
  BY <1>9, ReadNullNamed
<1>10. CASE \E i \in Running, in \in BOOLEAN : StartLoop(i.name, in)
  BY <1>10, StartLoopNamed
<1>11. CASE \E i \in Running : EndForIn(i.name)
  BY <1>11, EndForInNamed
<1>12. CASE OpenBraces \/ CloseBraces
  BY <1>12, BracesNamed
<1>13. CASE UNCHANGED vars
  <2>1. UNCHANGED <<scopes, heap, activeID, calls, braces, tries, code, pushed>>
    BY <1>13 DEF vars
  <2>2. Lookup(pushed.name)' = Lookup(pushed.name)
    BY <2>1 DEF Lookup, Named, VarsOf, Active
  <2>3. LoadIsLookup'
    BY <2>1, <2>2 DEF LoadIsLookup, NInv
  <2>4. /\ Fine(scopes', heap', braces', Len(scopes')) /\ Braced(tries', braces')
        /\ AllNamed(code', heap', calls', activeID')
    BY <2>1 DEF NInv
  <2> QED BY <2>3, <2>4, NInvAfter
<1> QED BY <1>1, <1>2, <1>3, <1>4, <1>5, <1>6, <1>7, <1>8, <1>9, <1>10, <1>11, <1>12, <1>13, Zenon DEF Next

(* An instruction that kept an address, or the position of an argument,    *)
(* leaves the variable on the stack that looking its name up would find,   *)
(* for any number of calls, scopes, parameters and instructions: in scopes *)
(* where no name is there twice and no name hides a global one, what was   *)
(* found once is what would be found again as long as it is there.         *)
THEOREM LoadAlwaysLookup == ASSUME Usual PROVE Spec => []LoadIsLookup
<1>1. Harmless /\ Lasting
  BY DEF Usual, Harmless, Lasting
<1>2. Init => NInv
  BY StartsNamed
<1>3. IInv /\ KInv /\ NInv /\ [Next]_vars => NInv'
  BY <1>1, ConstantsHold, StepsNamed
<1>4. NInv => LoadIsLookup
  BY DEF NInv
<1>5. Spec => [](IInv /\ KInv)
  BY <1>1, KeptInvariant
<1> QED BY <1>2, <1>3, <1>4, <1>5, PTL DEF Spec
=============================================================================
