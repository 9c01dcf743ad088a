----------------------- MODULE VMControlBlocksProofs -----------------------
(***************************************************************************)
(* pExitMark and pTry hold exactly the marked loops and the try blocks     *)
(* that are open, there is one scope for each function that started, and   *)
(* the arrays are not overrun: for every limit and every shape of the      *)
(* program but return inside a try block, which leaves entries in pTry.    *)
(* pForStep holds exactly the steps of the loops that have begun, when no  *)
(* command leaves a loop of a caller either.                               *)
(*                                                                         *)
(* Lists are cut to sizes that entries, calls and marks saved earlier.     *)
(* The order in which blocks are entered is the lexical order of function  *)
(* and depth, and every saved size is the number of entries made before a  *)
(* point of that order; a cut is therefore a cut of what is open.          *)
(* pForStep saved no points: the proof carries, beside it, the list that   *)
(* says of which loop each step is, and commands that count marks remove   *)
(* as many steps because, in one function, both count the same loops.      *)
(***************************************************************************)
EXTENDS VMControlProofs, FiniteSetTheorems

(* The first n entries are those made before the block at depth d of k. *)
CutAt(list, n, k, d) ==
    n \in 0..Len(list) /\ \A i \in 1..Len(list) : i <= n <=> Before(list[i], k, d)

(* Every saved nScopes counts the functions that had started. *)
ScopesKnown(calls, list) ==
    \A i \in 1..Len(list) :
        list[i].state.nScopes = 1 + Started(calls, list[i].state.nFuncCalls)

(* The sizes of one list that the entries of the other saved. *)
ExitsOfTries(exits, tries) ==
    \A h \in 1..Len(tries) :
        CutAt(exits, tries[h].state.nExitMark, tries[h].state.nFuncCalls, Len(tries[h].path))

TriesOfExits(exits, tries) ==
    \A x \in 1..Len(exits) :
        CutAt(tries, exits[x].state.nTry, exits[x].state.nFuncCalls, Len(exits[x].path))

(* The sizes that calls saved. *)
SizesOfCalls(calls, exits, tries) ==
    \A j \in 1..Len(calls) : calls[j].status # "load" =>
        /\ CutAt(exits, calls[j].nExitMark, j, 0)
        /\ calls[j].lSave => CutAt(tries, calls[j].nTry, j, 0)

Data(calls, path, exits, tries) ==
    /\ Matches(calls, path, exits, MarkedLoops) /\ Matches(calls, path, tries, TryBlocks)
    /\ ScopesKnown(calls, exits) /\ ScopesKnown(calls, tries)
    /\ ExitsOfTries(exits, tries) /\ TriesOfExits(exits, tries)
    /\ SizesOfCalls(calls, exits, tries)

-----------------------------------------------------------------------------
(* Counting the functions that started. *)
LEMMA StartedType ==
    ASSUME NEW calls, NEW n \in Nat
    PROVE  /\ IsFiniteSet({m \in 1..n : calls[m].status = "started"})
           /\ Started(calls, n) \in 0..n
<1>1. IsFiniteSet(1..n) /\ Cardinality(1..n) = n
  BY FS_Interval
<1>2. {m \in 1..n : calls[m].status = "started"} \in SUBSET (1..n)
  OBVIOUS
<1>3. /\ IsFiniteSet({m \in 1..n : calls[m].status = "started"})
      /\ Cardinality({m \in 1..n : calls[m].status = "started"}) <= n
  BY <1>1, <1>2, FS_Subset
<1>4. Cardinality({m \in 1..n : calls[m].status = "started"}) \in Nat
  BY <1>3, FS_CardinalityType
<1> QED BY <1>3, <1>4 DEF Started

LEMMA StartedNat ==
    ASSUME NEW calls, NEW n \in Nat
    PROVE  Started(calls, n) \in Nat /\ Started(calls, n) <= n
<1>1. Started(calls, n) \in 0..n
  BY StartedType
<1> QED BY <1>1

LEMMA StartedMonotone ==
    ASSUME NEW calls, NEW n \in Nat, NEW m \in 0..n
    PROVE  Started(calls, m) <= Started(calls, n)
<1>1. /\ {i \in 1..m : calls[i].status = "started"}
           \in SUBSET {i \in 1..n : calls[i].status = "started"}
      /\ m \in Nat
  OBVIOUS
<1> QED BY <1>1, StartedType, FS_Subset DEF Started

LEMMA StartedAgrees ==
    ASSUME NEW calls, NEW other, NEW n \in Nat,
           \A i \in 1..n : (calls[i].status = "started") = (other[i].status = "started")
    PROVE  Started(other, n) = Started(calls, n)
<1>1. {i \in 1..n : other[i].status = "started"} = {i \in 1..n : calls[i].status = "started"}
  OBVIOUS
<1> QED BY <1>1 DEF Started

LEMMA StartedNext ==
    ASSUME NEW calls, NEW n \in Nat
    PROVE  Started(calls, n + 1)
             = IF calls[n + 1].status = "started" THEN Started(calls, n) + 1
                                                  ELSE Started(calls, n)
<1> DEFINE S == {i \in 1..n : calls[i].status = "started"}
           T == {i \in 1..(n + 1) : calls[i].status = "started"}
<1>1. IsFiniteSet(S)
  BY StartedType
<1>0. n + 1 \notin S
  OBVIOUS
<1>2. CASE calls[n + 1].status = "started"
  <2>1. T = S \cup {n + 1}
    BY <1>2
  <2>2. Cardinality(T) = Cardinality(S) + 1
    BY <1>0, <1>1, <2>1, FS_AddElement
  <2> QED BY <1>2, <2>2 DEF Started
<1>3. CASE calls[n + 1].status # "started"
  <2>1. T = S
    BY <1>3
  <2> QED BY <1>3, <2>1 DEF Started
<1> QED BY <1>2, <1>3

-----------------------------------------------------------------------------
(* The order of entering blocks. *)
LEMMA BeforeEarlier ==
    ASSUME NEW e \in Saved, NEW k \in Nat, NEW d \in Nat, NEW c \in Nat, NEW f \in Nat,
           k < c \/ (k = c /\ d <= f), Before(e, k, d)
    PROVE  Before(e, c, f)
<1>1. e.state.nFuncCalls \in Nat /\ Len(e.path) \in Nat
  BY LenProperties DEF Saved, States
<1> QED BY <1>1 DEF Before

(* A size saved at an earlier point is smaller, and still right after a cut *)
(* at a later one.                                                          *)
LEMMA CutWithin ==
    ASSUME NEW list \in Seq(Saved), NEW n, NEW m, NEW c \in Nat, NEW f \in Nat,
           NEW k \in Nat, NEW d \in Nat, CutAt(list, n, c, f), CutAt(list, m, k, d),
           k < c \/ (k = c /\ d <= f)
    PROVE  m <= n /\ CutAt(SubSeq(list, 1, n), m, k, d)
<1>1. n \in 0..Len(list) /\ m \in 0..Len(list) /\ Len(list) \in Nat
  BY LenProperties DEF CutAt
<1>2. m <= n
  <2>1. CASE m = 0
    BY <1>1, <2>1
  <2>2. CASE m # 0
    <3>1. m \in 1..Len(list) /\ list[m] \in Saved
      BY <1>1, <2>2, ElementOfSeq
    <3>2. Before(list[m], k, d)
      BY <1>1, <3>1 DEF CutAt
    <3>3. Before(list[m], c, f)
      BY <3>1, <3>2, BeforeEarlier
    <3> QED BY <3>1, <3>3 DEF CutAt
  <2> QED BY <2>1, <2>2
<1>3. /\ Len(SubSeq(list, 1, n)) = n
      /\ \A i \in 1..n : SubSeq(list, 1, n)[i] = list[i]
  BY <1>1, SubSeqProperties
<1> QED BY <1>1, <1>2, <1>3 DEF CutAt

(* An entry made later does not change the sizes saved earlier. *)
LEMMA CutGrow ==
    ASSUME NEW list \in Seq(Saved), NEW e, NEW n, NEW k, NEW d,
           CutAt(list, n, k, d), ~Before(e, k, d)
    PROVE  CutAt(Append(list, e), n, k, d)
<1>1. Len(list) \in Nat /\ n \in 0..Len(list)
  BY LenProperties DEF CutAt
<1>2. /\ Len(Append(list, e)) = Len(list) + 1
      /\ \A i \in 1..Len(list) : Append(list, e)[i] = list[i]
      /\ Append(list, e)[Len(list) + 1] = e
  BY AppendProperties
<1>3. ASSUME NEW i \in 1..Len(list) + 1
      PROVE  i <= n <=> Before(Append(list, e)[i], k, d)
  <2>1. CASE i = Len(list) + 1
    BY <1>1, <1>2, <2>1
  <2>2. CASE i \in 1..Len(list)
    BY <1>2, <2>2 DEF CutAt
  <2> QED BY <1>1, <2>1, <2>2
<1> QED BY <1>1, <1>2, <1>3 DEF CutAt
-----------------------------------------------------------------------------
(* Cutting a list where functions and blocks are left. *)
LEMMA PlaceType ==
    ASSUME NEW calls \in Seq(Calls), NEW path \in Seq(Blocks), NEW k \in Nat
    PROVE  Place(calls, path, k) \in Seq(Blocks) /\ Len(Place(calls, path, k)) \in Nat
<1>1. CASE k < Len(calls)
  <2>1. k + 1 \in 1..Len(calls)
    BY <1>1, LenProperties
  <2>2. calls[k + 1] \in Calls
    BY <2>1, ElementOfSeq
  <2>3. calls[k + 1].caller.path \in Seq(Blocks)
    BY <2>2 DEF Calls, CallSites, Locs
  <2> QED BY <1>1, <2>3, LenProperties DEF Place
<1>2. CASE ~(k < Len(calls))
  BY <1>2, LenProperties DEF Place
<1> QED BY <1>1, <1>2

LEMMA SavedFields ==
    ASSUME NEW list \in Seq(Saved), NEW i \in 1..Len(list)
    PROVE  /\ list[i] \in Saved /\ list[i].path \in Seq(Blocks) /\ Len(list[i].path) \in Nat \ {0}
           /\ list[i].state \in States /\ list[i].state.nFuncCalls \in Nat
           /\ list[i].state.nScopes \in Int
<1>1. list[i] \in Saved
  BY ElementOfSeq
<1>2. list[i].path \in Seq(Blocks) /\ list[i].path # <<>>
  BY <1>1 DEF Saved
<1>3. Len(list[i].path) \in Nat \ {0}
  BY <1>2, EmptySeq
<1> QED BY <1>1, <1>2, <1>3 DEF Saved, States

(* Prefixes of a list of calls. *)
LEMMA CallsCut ==
    ASSUME NEW calls \in Seq(Calls), NEW c \in 0..Len(calls)
    PROVE  /\ SubSeq(calls, 1, c) \in Seq(Calls) /\ Len(SubSeq(calls, 1, c)) = c
           /\ c \in Nat /\ Len(calls) \in Nat
           /\ \A i \in 1..c : SubSeq(calls, 1, c)[i] = calls[i]
<1>1. c \in Nat /\ Len(calls) \in Nat
  BY LenProperties
<1> QED BY <1>1, SubSeqProperties

LEMMA FrameCut ==
    ASSUME NEW calls \in Seq(Calls), NEW c \in 0..Len(calls), NEW k \in 0..c,
           NEW path, NEW newpath
    PROVE  /\ Frame(SubSeq(calls, 1, c), k) = Frame(calls, k)
           /\ Started(SubSeq(calls, 1, c), k) = Started(calls, k)
           /\ Place(SubSeq(calls, 1, c), newpath, k)
                = IF k < c THEN Place(calls, path, k) ELSE newpath
<1>1. /\ Len(SubSeq(calls, 1, c)) = c /\ c \in Nat /\ Len(calls) \in Nat
      /\ \A i \in 1..c : SubSeq(calls, 1, c)[i] = calls[i]
  BY CallsCut
<1>2. Frame(SubSeq(calls, 1, c), k) = Frame(calls, k)
  BY <1>1 DEF Frame
<1>3. Started(SubSeq(calls, 1, c), k) = Started(calls, k)
  <2>1. k \in Nat /\ \A i \in 1..k : SubSeq(calls, 1, c)[i] = calls[i]
    BY <1>1
  <2> QED BY <2>1, StartedAgrees
<1>4. /\ k < c => Place(SubSeq(calls, 1, c), newpath, k) = Place(calls, path, k)
      /\ ~(k < c) => Place(SubSeq(calls, 1, c), newpath, k) = newpath
  <2>1. k < c => k + 1 \in 1..c /\ k < Len(calls)
    BY <1>1
  <2> QED BY <1>1, <2>1 DEF Place
<1> QED BY <1>2, <1>3, <1>4

LEMMA MatchesCut ==
    ASSUME NEW calls \in Seq(Calls), NEW path \in Seq(Blocks), NEW newpath \in Seq(Blocks),
           NEW list \in Seq(Saved), NEW B, Matches(calls, path, list, B),
           NEW c \in 0..Len(calls), NEW d \in Nat \ {0}, NEW n, CutAt(list, n, c, d),
           d - 1 <= Len(newpath), d - 1 <= Len(Place(calls, path, c)),
           \A i \in 1..(d - 1) : newpath[i] = Place(calls, path, c)[i],
           \A i \in d..Len(newpath) : newpath[i] \notin B
    PROVE  Matches(SubSeq(calls, 1, c), newpath, SubSeq(list, 1, n), B)
<1> DEFINE calls2 == SubSeq(calls, 1, c)
           list2 == SubSeq(list, 1, n)
<1>1. /\ Len(calls2) = c /\ c \in Nat /\ Len(calls) \in Nat
      /\ \A i \in 1..c : calls2[i] = calls[i]
  BY CallsCut
<1>2. n \in 0..Len(list) /\ n \in Nat /\ Len(list) \in Nat /\ Len(newpath) \in Nat
  BY LenProperties DEF CutAt
<1>3. Len(list2) = n /\ \A i \in 1..n : list2[i] = list[i]
  BY <1>2, SubSeqProperties
<1>4. \A k \in 0..c : /\ Frame(calls2, k) = Frame(calls, k)
                      /\ Place(calls2, newpath, k)
                           = IF k < c THEN Place(calls, path, k) ELSE newpath
  BY FrameCut
<1>5. c <= Len(calls) /\ Len(Place(calls, path, c)) \in Nat
  BY <1>1, PlaceType
<1> HIDE DEF calls2, list2
<1>6. ASSUME NEW i \in 1..Len(list2) PROVE IsOpen(calls2, newpath, list2[i], B)
  <2> DEFINE k == list[i].state.nFuncCalls
  <2>1. i \in 1..n /\ i \in 1..Len(list) /\ list2[i] = list[i]
    BY <1>2, <1>3
  <2>2. k \in Nat /\ Len(list[i].path) \in Nat \ {0}
    BY <2>1, SavedFields
  <2>3. IsOpen(calls, path, list[i], B) /\ Before(list[i], c, d)
    BY <2>1 DEF Matches, CutAt
  <2>4. CASE k < c
    <3>1. k \in 0..c
      BY <1>1, <2>2, <2>4
    <3>2. /\ Place(calls2, newpath, k) = Place(calls, path, k)
          /\ Frame(calls2, k) = Frame(calls, k)
      BY <1>4, <2>4, <3>1
    <3>3. IsOpen(calls2, newpath, list[i], B)
      BY <2>3, <3>2 DEF IsOpen
    <3> QED BY <2>1, <3>3
  <2>5. CASE k = c /\ Len(list[i].path) < d
    <3>1. c \in 0..c
      BY <1>1
    <3>2. Place(calls2, newpath, c) = newpath /\ Frame(calls2, c) = Frame(calls, c)
      <4>1. /\ Frame(calls2, c) = Frame(calls, c)
            /\ Place(calls2, newpath, c) = IF c < c THEN Place(calls, path, c) ELSE newpath
        BY <1>4, <3>1
      <4>2. ~(c < c)
        BY <1>1
      <4> QED BY <4>1, <4>2
    <3>3. Len(list[i].path) \in 1..Len(newpath)
      <4> DEFINE a == Len(list[i].path)
                 z == Len(newpath)
      <4>1. a \in Nat \ {0} /\ z \in Nat /\ a < d /\ d - 1 <= z
        BY <1>2, <2>2, <2>5
      <4> HIDE DEF a, z
      <4>2. a \in 1..z
        BY <4>1
      <4> QED BY <4>2 DEF a, z
    <3>4. \A j \in 1..Len(list[i].path) : j \in 1..(d - 1)
      BY <2>2, <2>5
    <3>5. \A j \in 1..Len(list[i].path) : list[i].path[j] = newpath[j]
      BY <2>3, <2>5, <3>4 DEF IsOpen
    <3>6. list[i].path[Len(list[i].path)] \in B /\ Frame(calls2, k)
      BY <2>3, <2>5, <3>2 DEF IsOpen
    <3> QED BY <2>1, <2>5, <3>2, <3>3, <3>5, <3>6 DEF IsOpen
  <2> QED BY <2>3, <2>4, <2>5 DEF Before
<1>7. Ordered(list2)
  <2>1. \A i \in 1..Len(list2) : i \in 1..Len(list) /\ list2[i] = list[i]
    BY <1>2, <1>3
  <2> SUFFICES ASSUME NEW i \in 1..Len(list2), NEW j \in 1..Len(list2), i < j
               PROVE  Before(list2[i], list2[j].state.nFuncCalls, Len(list2[j].path))
    BY DEF Ordered
  <2>2. Before(list[i], list[j].state.nFuncCalls, Len(list[j].path))
    BY <2>1 DEF Matches, Ordered
  <2> QED BY <2>1, <2>2
<1>8. Complete(calls2, newpath, list2, B)
  <2> SUFFICES ASSUME NEW k \in 0..Len(calls2), NEW f \in 1..Len(Place(calls2, newpath, k)),
                      Frame(calls2, k), Place(calls2, newpath, k)[f] \in B
               PROVE  \E i \in 1..Len(list2) :
                          list2[i].state.nFuncCalls = k /\ Len(list2[i].path) = f
    BY DEF Complete
  <2>1. k \in 0..c /\ k \in Nat /\ k \in 0..Len(calls) /\ Frame(calls, k)
    BY <1>1, <1>4, <1>5
  <2>2. /\ f \in 1..Len(Place(calls, path, k)) /\ Place(calls, path, k)[f] \in B
        /\ k < c \/ (k = c /\ f < d)
    <3>1. CASE k < c
      BY <1>4, <2>1, <3>1
    <3>2. CASE k = c
      <4>1. Place(calls2, newpath, k) = newpath
        BY <1>4, <1>1, <2>1, <3>2
      <4>2. f \in 1..Len(newpath) /\ newpath[f] \in B
        BY <4>1
      <4>3. f \in 1..(d - 1)
        BY <1>2, <4>2
      <4> QED BY <1>5, <3>2, <4>2, <4>3
    <3> QED BY <1>1, <2>1, <3>1, <3>2
  <2>3. PICK i \in 1..Len(list) : list[i].state.nFuncCalls = k /\ Len(list[i].path) = f
    BY <2>1, <2>2 DEF Matches, Complete
  <2>4. Before(list[i], c, d)
    BY <2>2, <2>3 DEF Before
  <2>5. i <= n
    BY <2>4 DEF CutAt
  <2>6. i \in 1..Len(list2) /\ list2[i] = list[i]
    BY <1>2, <1>3, <2>5
  <2> QED BY <2>3, <2>6
<1> QED BY <1>6, <1>7, <1>8 DEF Matches, calls2, list2
-----------------------------------------------------------------------------
LEMMA ListCut ==
    ASSUME NEW list \in Seq(Saved), NEW n, NEW c, NEW d, CutAt(list, n, c, d)
    PROVE  /\ n \in Nat /\ SubSeq(list, 1, n) \in Seq(Saved) /\ Len(SubSeq(list, 1, n)) = n
           /\ \A i \in 1..n : /\ i \in 1..Len(list) /\ SubSeq(list, 1, n)[i] = list[i]
                              /\ Before(list[i], c, d)
<1>1. n \in 0..Len(list) /\ n \in Nat /\ Len(list) \in Nat
  BY LenProperties DEF CutAt
<1>2. /\ SubSeq(list, 1, n) \in Seq(Saved) /\ Len(SubSeq(list, 1, n)) = n
      /\ \A i \in 1..n : SubSeq(list, 1, n)[i] = list[i]
  BY <1>1, SubSeqProperties
<1>3. \A i \in 1..n : i \in 1..Len(list) /\ Before(list[i], c, d)
  BY <1>1 DEF CutAt
<1> QED BY <1>1, <1>2, <1>3

LEMMA ScopesCut ==
    ASSUME NEW calls \in Seq(Calls), NEW list \in Seq(Saved), ScopesKnown(calls, list),
           NEW c \in 0..Len(calls), NEW d, NEW n, CutAt(list, n, c, d)
    PROVE  ScopesKnown(SubSeq(calls, 1, c), SubSeq(list, 1, n))
<1> SUFFICES ASSUME NEW i \in 1..Len(SubSeq(list, 1, n))
             PROVE  SubSeq(list, 1, n)[i].state.nScopes
                      = 1 + Started(SubSeq(calls, 1, c), SubSeq(list, 1, n)[i].state.nFuncCalls)
  BY DEF ScopesKnown
<1>1. i \in 1..Len(list) /\ SubSeq(list, 1, n)[i] = list[i] /\ Before(list[i], c, d)
  BY ListCut
<1>2. list[i].state.nFuncCalls \in Nat /\ c \in Nat
  BY <1>1, SavedFields, CallsCut
<1>3. list[i].state.nFuncCalls \in 0..c
  BY <1>1, <1>2 DEF Before
<1>4. Started(SubSeq(calls, 1, c), list[i].state.nFuncCalls)
        = Started(calls, list[i].state.nFuncCalls)
  BY <1>3, FrameCut
<1> QED BY <1>1, <1>4 DEF ScopesKnown

(* The sizes of one list that were saved with another keep after both cuts. *)
LEMMA SizesCut ==
    ASSUME NEW list \in Seq(Saved), NEW n, NEW c \in Nat, NEW d \in Nat, CutAt(list, n, c, d),
           NEW e \in Saved, NEW m, Before(e, c, d),
           CutAt(list, m, e.state.nFuncCalls, Len(e.path))
    PROVE  CutAt(SubSeq(list, 1, n), m, e.state.nFuncCalls, Len(e.path))
<1>1. e.state.nFuncCalls \in Nat /\ Len(e.path) \in Nat
  BY LenProperties DEF Saved, States
<1>2. e.state.nFuncCalls < c \/ (e.state.nFuncCalls = c /\ Len(e.path) <= d)
  BY <1>1 DEF Before
<1> QED BY <1>1, <1>2, CutWithin

LEMMA DataCut ==
    ASSUME NEW calls \in Seq(Calls), NEW path \in Seq(Blocks), NEW newpath \in Seq(Blocks),
           NEW exits \in Seq(Saved), NEW tries \in Seq(Saved), Data(calls, path, exits, tries),
           NEW c \in 0..Len(calls), NEW d \in Nat \ {0},
           NEW n, CutAt(exits, n, c, d), NEW m, CutAt(tries, m, c, d),
           d - 1 <= Len(newpath), d - 1 <= Len(Place(calls, path, c)),
           \A i \in 1..(d - 1) : newpath[i] = Place(calls, path, c)[i],
           \A i \in d..Len(newpath) : newpath[i] \notin MarkedLoops \cup TryBlocks
    PROVE  Data(SubSeq(calls, 1, c), newpath, SubSeq(exits, 1, n), SubSeq(tries, 1, m))
<1>1. /\ c \in Nat /\ Len(SubSeq(calls, 1, c)) = c /\ Len(calls) \in Nat
      /\ \A i \in 1..c : SubSeq(calls, 1, c)[i] = calls[i]
  BY CallsCut
<1>2. /\ \A i \in d..Len(newpath) : newpath[i] \notin MarkedLoops
      /\ \A i \in d..Len(newpath) : newpath[i] \notin TryBlocks
  OBVIOUS
<1>3. /\ Matches(calls, path, exits, MarkedLoops) /\ Matches(calls, path, tries, TryBlocks)
      /\ ScopesKnown(calls, exits) /\ ScopesKnown(calls, tries)
  BY DEF Data
<1>4. Matches(SubSeq(calls, 1, c), newpath, SubSeq(exits, 1, n), MarkedLoops)
  BY <1>2, <1>3, MatchesCut
<1>5. Matches(SubSeq(calls, 1, c), newpath, SubSeq(tries, 1, m), TryBlocks)
  BY <1>2, <1>3, MatchesCut
<1>6. /\ ScopesKnown(SubSeq(calls, 1, c), SubSeq(exits, 1, n))
      /\ ScopesKnown(SubSeq(calls, 1, c), SubSeq(tries, 1, m))
  BY <1>3, ScopesCut
<1>7. ExitsOfTries(SubSeq(exits, 1, n), SubSeq(tries, 1, m))
  <2> SUFFICES ASSUME NEW h \in 1..Len(SubSeq(tries, 1, m)),
                      NEW e, e = SubSeq(tries, 1, m)[h]
               PROVE  CutAt(SubSeq(exits, 1, n), e.state.nExitMark,
                            e.state.nFuncCalls, Len(e.path))
    BY DEF ExitsOfTries
  <2>1. h \in 1..Len(tries) /\ e = tries[h] /\ Before(e, c, d)
    BY ListCut
  <2>2. e \in Saved
    BY <2>1, SavedFields
  <2>3. CutAt(exits, e.state.nExitMark, e.state.nFuncCalls, Len(e.path))
    BY <2>1 DEF Data, ExitsOfTries
  <2> QED BY <1>1, <2>1, <2>2, <2>3, SizesCut
<1>8. TriesOfExits(SubSeq(exits, 1, n), SubSeq(tries, 1, m))
  <2> SUFFICES ASSUME NEW x \in 1..Len(SubSeq(exits, 1, n)),
                      NEW e, e = SubSeq(exits, 1, n)[x]
               PROVE  CutAt(SubSeq(tries, 1, m), e.state.nTry,
                            e.state.nFuncCalls, Len(e.path))
    BY DEF TriesOfExits
  <2>1. x \in 1..Len(exits) /\ e = exits[x] /\ Before(e, c, d)
    BY ListCut
  <2>2. e \in Saved
    BY <2>1, SavedFields
  <2>3. CutAt(tries, e.state.nTry, e.state.nFuncCalls, Len(e.path))
    BY <2>1 DEF Data, TriesOfExits
  <2> QED BY <1>1, <2>1, <2>2, <2>3, SizesCut
<1>9. SizesOfCalls(SubSeq(calls, 1, c), SubSeq(exits, 1, n), SubSeq(tries, 1, m))
  <2> SUFFICES ASSUME NEW j \in 1..c, calls[j].status # "load"
               PROVE  /\ CutAt(SubSeq(exits, 1, n), calls[j].nExitMark, j, 0)
                      /\ calls[j].lSave => CutAt(SubSeq(tries, 1, m), calls[j].nTry, j, 0)
    BY <1>1 DEF SizesOfCalls
  <2>1. j \in 1..Len(calls) /\ j \in Nat /\ 0 \in Nat /\ d \in Nat
        /\ (j < c \/ (j = c /\ 0 <= d))
    BY <1>1
  <2>2. /\ CutAt(exits, calls[j].nExitMark, j, 0)
        /\ calls[j].lSave => CutAt(tries, calls[j].nTry, j, 0)
    BY <2>1 DEF Data, SizesOfCalls
  <2>3. CutAt(SubSeq(exits, 1, n), calls[j].nExitMark, j, 0)
    BY <1>1, <2>1, <2>2, CutWithin
  <2>4. ASSUME calls[j].lSave PROVE CutAt(SubSeq(tries, 1, m), calls[j].nTry, j, 0)
    BY <1>1, <2>1, <2>2, <2>4, CutWithin
  <2> QED BY <2>3, <2>4
<1> QED BY <1>4, <1>5, <1>6, <1>7, <1>8, <1>9 DEF Data

(* No entry was made after the point the code is at. *)
LEMMA NothingLater ==
    ASSUME NEW calls \in Seq(Calls), NEW path \in Seq(Blocks), NEW list \in Seq(Saved),
           NEW B, Matches(calls, path, list, B)
    PROVE  \A i \in 1..Len(list) : Before(list[i], Len(calls), Len(path) + 1)
<1> SUFFICES ASSUME NEW i \in 1..Len(list)
             PROVE  Before(list[i], Len(calls), Len(path) + 1)
  OBVIOUS
<1>1. /\ list[i].state.nFuncCalls \in Nat /\ Len(list[i].path) \in Nat
      /\ Len(calls) \in Nat /\ Len(path) \in Nat
  BY SavedFields, LenProperties
<1>2. IsOpen(calls, path, list[i], B)
  BY DEF Matches
<1>3. list[i].state.nFuncCalls <= Len(calls)
  BY <1>1, <1>2 DEF IsOpen, Frame
<1>4. list[i].state.nFuncCalls = Len(calls) => Len(list[i].path) <= Len(path)
  BY <1>1, <1>2 DEF IsOpen, Place
<1> QED BY <1>1, <1>3, <1>4 DEF Before

(* Leaving the innermost block removes its entry, which is the last. *)
LEMMA CutInnermost ==
    ASSUME NEW calls \in Seq(Calls), NEW path \in Seq(Blocks), NEW list \in Seq(Saved),
           NEW B, Matches(calls, path, list, B), path # <<>>, Frame(calls, Len(calls)),
           NEW n, n = Len(list) - (IF path[Len(path)] \in B THEN 1 ELSE 0)
    PROVE  CutAt(list, n, Len(calls), Len(path))
<1>1. Len(calls) \in Nat /\ Len(path) \in Nat \ {0} /\ Len(list) \in Nat
  BY LenProperties, EmptySeq
<1>2. \A i \in 1..Len(list) : Before(list[i], Len(calls), Len(path) + 1)
  BY NothingLater
<1>3. \A i \in 1..Len(list) :
          list[i].state.nFuncCalls \in Nat /\ Len(list[i].path) \in Nat
  BY SavedFields
<1>4. Place(calls, path, Len(calls)) = path
  BY <1>1 DEF Place
<1>5. CASE path[Len(path)] \in B
  <2>1. PICK t \in 1..Len(list) :
            list[t].state.nFuncCalls = Len(calls) /\ Len(list[t].path) = Len(path)
    <3>1. Len(calls) \in 0..Len(calls) /\ Len(path) \in 1..Len(path)
      BY <1>1
    <3> QED BY <1>4, <1>5, <3>1 DEF Matches, Complete
  <2>2. t = Len(list)
    <3> SUFFICES ASSUME t < Len(list) PROVE FALSE
      BY <1>1
    <3>1. Len(list) \in 1..Len(list)
      BY <1>1
    <3>2. Before(list[t], list[Len(list)].state.nFuncCalls, Len(list[Len(list)].path))
      BY <3>1 DEF Matches, Ordered
    <3> QED BY <1>1, <1>2, <1>3, <2>1, <3>1, <3>2 DEF Before
  <2>3. \A i \in 1..Len(list) : i < t => Before(list[i], Len(calls), Len(path))
    BY <2>1 DEF Matches, Ordered
  <2>4. ~Before(list[t], Len(calls), Len(path))
    BY <1>1, <2>1 DEF Before
  <2> QED BY <1>1, <1>5, <2>2, <2>3, <2>4 DEF CutAt
<1>6. CASE path[Len(path)] \notin B
  <2>1. ASSUME NEW i \in 1..Len(list) PROVE Before(list[i], Len(calls), Len(path))
    <3>1. IsOpen(calls, path, list[i], B)
      BY DEF Matches
    <3>2. ~(list[i].state.nFuncCalls = Len(calls) /\ Len(list[i].path) = Len(path))
      <4> SUFFICES ASSUME list[i].state.nFuncCalls = Len(calls), Len(list[i].path) = Len(path)
                   PROVE  FALSE
        OBVIOUS
      <4>1. list[i].path[Len(path)] = path[Len(path)]
        BY <1>1, <1>4, <3>1 DEF IsOpen
      <4> QED BY <1>6, <3>1, <4>1 DEF IsOpen
    <3> QED BY <1>1, <1>2, <1>3, <3>2 DEF Before
  <2> QED BY <1>1, <1>6, <2>1 DEF CutAt
<1> QED BY <1>5, <1>6
-----------------------------------------------------------------------------
(* Entering a block. *)

(* What was open stays open. *)
LEMMA OpenDeeper ==
    ASSUME NEW calls \in Seq(Calls), NEW path \in Seq(Blocks), NEW b \in Blocks,
           NEW B, NEW e \in Saved, IsOpen(calls, path, e, B)
    PROVE  IsOpen(calls, Append(path, b), e, B)
<1>1. /\ Len(Append(path, b)) = Len(path) + 1 /\ Len(path) \in Nat
      /\ \A d \in 1..Len(path) : Append(path, b)[d] = path[d]
  BY AppendProperties, LenProperties
<1>2. e.state.nFuncCalls \in Nat /\ Len(calls) \in Nat /\ Len(e.path) \in Nat
  BY LenProperties DEF Saved, States
<1>3. CASE e.state.nFuncCalls < Len(calls)
  BY <1>3 DEF IsOpen, Place
<1>4. CASE ~(e.state.nFuncCalls < Len(calls))
  <2>1. /\ Place(calls, path, e.state.nFuncCalls) = path
        /\ Place(calls, Append(path, b), e.state.nFuncCalls) = Append(path, b)
    BY <1>4 DEF Place
  <2>2. Len(e.path) \in 1..Len(path)
    BY <2>1 DEF IsOpen
  <2>3. \A d \in 1..Len(e.path) : d \in 1..Len(path)
    BY <1>1, <1>2, <2>2
  <2>4. \A d \in 1..Len(e.path) : e.path[d] = Append(path, b)[d]
    BY <1>1, <2>1, <2>3 DEF IsOpen
  <2>5. Len(e.path) \in 1..Len(Append(path, b))
    BY <1>1, <2>2
  <2> QED BY <2>1, <2>4, <2>5 DEF IsOpen
<1> QED BY <1>3, <1>4

LEMMA PlaceDeeper ==
    ASSUME NEW calls \in Seq(Calls), NEW path \in Seq(Blocks), NEW b \in Blocks,
           NEW k \in 0..Len(calls), NEW d \in 1..Len(Place(calls, Append(path, b), k))
    PROVE  \/ /\ d \in 1..Len(Place(calls, path, k))
              /\ Place(calls, Append(path, b), k)[d] = Place(calls, path, k)[d]
           \/ /\ k = Len(calls) /\ d = Len(path) + 1
              /\ Place(calls, Append(path, b), k)[d] = b
<1>1. /\ Len(Append(path, b)) = Len(path) + 1 /\ Len(path) \in Nat
      /\ \A i \in 1..Len(path) : Append(path, b)[i] = path[i]
      /\ Append(path, b)[Len(path) + 1] = b
  BY AppendProperties, LenProperties
<1>2. CASE k < Len(calls)
  BY <1>2 DEF Place
<1>3. CASE ~(k < Len(calls))
  <2>1. /\ Place(calls, path, k) = path /\ Place(calls, Append(path, b), k) = Append(path, b)
        /\ k = Len(calls)
    BY <1>3, LenProperties DEF Place
  <2>2. d \in 1..Len(path) \/ d = Len(path) + 1
    BY <1>1, <2>1
  <2> QED BY <1>1, <2>1, <2>2
<1> QED BY <1>2, <1>3

LEMMA MatchesDeeper ==
    ASSUME NEW calls \in Seq(Calls), NEW path \in Seq(Blocks), NEW list \in Seq(Saved),
           NEW B, Matches(calls, path, list, B), NEW b \in Blocks, b \notin B
    PROVE  Matches(calls, Append(path, b), list, B)
<1>1. \A i \in 1..Len(list) : IsOpen(calls, Append(path, b), list[i], B)
  BY OpenDeeper, SavedFields DEF Matches
<1>2. Complete(calls, Append(path, b), list, B)
  BY PlaceDeeper DEF Matches, Complete
<1> QED BY <1>1, <1>2 DEF Matches

LEMMA MatchesAppend ==
    ASSUME NEW calls \in Seq(Calls), NEW path \in Seq(Blocks), NEW list \in Seq(Saved),
           NEW B, Matches(calls, path, list, B), NEW b \in Blocks, b \in B,
           Frame(calls, Len(calls)), NEW e \in Saved, e.path = Append(path, b),
           e.state.nFuncCalls = Len(calls)
    PROVE  Matches(calls, Append(path, b), Append(list, e), B)
<1> DEFINE list2 == Append(list, e)
<1>1. /\ Len(Append(path, b)) = Len(path) + 1 /\ Len(path) \in Nat
      /\ Append(path, b)[Len(path) + 1] = b
  BY AppendProperties, LenProperties
<1>2. /\ Len(list2) = Len(list) + 1 /\ Len(list) \in Nat /\ Len(calls) \in Nat
      /\ \A i \in 1..Len(list) : list2[i] = list[i]
      /\ list2[Len(list) + 1] = e
  BY AppendProperties, LenProperties
<1> HIDE DEF list2
<1>3. IsOpen(calls, Append(path, b), e, B)
  <2>1. Place(calls, Append(path, b), Len(calls)) = Append(path, b)
    BY <1>2 DEF Place
  <2>2. Len(e.path) \in 1..Len(Append(path, b)) /\ e.path[Len(e.path)] \in B
    BY <1>1
  <2> QED BY <2>1, <2>2 DEF IsOpen
<1>4. ASSUME NEW i \in 1..Len(list2) PROVE IsOpen(calls, Append(path, b), list2[i], B)
  <2>1. CASE i \in 1..Len(list)
    BY <1>2, <2>1, OpenDeeper, SavedFields DEF Matches
  <2>2. CASE i = Len(list) + 1
    BY <1>2, <1>3, <2>2
  <2> QED BY <1>2, <2>1, <2>2
<1>5. Ordered(list2)
  <2> SUFFICES ASSUME NEW i \in 1..Len(list2), NEW j \in 1..Len(list2), i < j
               PROVE  Before(list2[i], list2[j].state.nFuncCalls, Len(list2[j].path))
    BY DEF Ordered
  <2>1. CASE j \in 1..Len(list)
    <3>1. i \in 1..Len(list) /\ list2[i] = list[i] /\ list2[j] = list[j]
      BY <1>2, <2>1
    <3> QED BY <2>1, <3>1 DEF Matches, Ordered
  <2>2. CASE j = Len(list) + 1
    <3>1. i \in 1..Len(list) /\ list2[i] = list[i] /\ list2[j] = e
      BY <1>2, <2>2
    <3>2. Before(list[i], Len(calls), Len(path) + 1)
      BY <3>1, NothingLater
    <3> QED BY <1>1, <3>1, <3>2
  <2>3. j \in 1..Len(list) \/ j = Len(list) + 1
    <3>1. Len(list2) = Len(list) + 1 /\ Len(list) \in Nat
      BY <1>2
    <3>2. \A x \in 1..(Len(list) + 1) : x \in 1..Len(list) \/ x = Len(list) + 1
      BY <3>1
    <3> QED BY <3>1, <3>2
  <2> QED BY <2>1, <2>2, <2>3
<1>6. Complete(calls, Append(path, b), list2, B)
  <2> SUFFICES ASSUME NEW k \in 0..Len(calls), NEW d \in 1..Len(Place(calls, Append(path, b), k)),
                      Frame(calls, k), Place(calls, Append(path, b), k)[d] \in B
               PROVE  \E i \in 1..Len(list2) :
                          list2[i].state.nFuncCalls = k /\ Len(list2[i].path) = d
    BY DEF Complete
  <2>1. CASE k = Len(calls) /\ d = Len(path) + 1
    <3>1. Len(list) + 1 \in 1..Len(list2)
      BY <1>2
    <3> QED BY <1>1, <1>2, <2>1, <3>1
  <2>2. CASE d \in 1..Len(Place(calls, path, k))
             /\ Place(calls, Append(path, b), k)[d] = Place(calls, path, k)[d]
    <3>1. PICK i \in 1..Len(list) : list[i].state.nFuncCalls = k /\ Len(list[i].path) = d
      BY <2>2 DEF Matches, Complete
    <3>2. i \in 1..Len(list2) /\ list2[i] = list[i]
      BY <1>2
    <3> QED BY <3>1, <3>2
  <2> QED BY <2>1, <2>2, PlaceDeeper
<1> QED BY <1>4, <1>5, <1>6 DEF Matches, list2

(* Sizes saved before an entry that is made at the point the code is at. *)
LEMMA SizesGrow ==
    ASSUME NEW calls \in Seq(Calls), NEW path \in Seq(Blocks), NEW list \in Seq(Saved),
           NEW e \in Saved, e.state.nFuncCalls = Len(calls), Len(e.path) = Len(path) + 1,
           NEW k \in 0..Len(calls), NEW d \in Nat, k = Len(calls) => d <= Len(path) + 1,
           NEW n, CutAt(list, n, k, d)
    PROVE  CutAt(Append(list, e), n, k, d)
<1>1. Len(calls) \in Nat /\ Len(path) \in Nat
  BY LenProperties
<1>2. ~Before(e, k, d)
  BY <1>1 DEF Before
<1> QED BY <1>2, CutGrow

LEMMA ScopesGrow ==
    ASSUME NEW calls \in Seq(Calls), NEW list \in Seq(Saved), NEW e \in Saved,
           ScopesKnown(calls, list), e.state.nFuncCalls = Len(calls),
           e.state.nScopes = 1 + Started(calls, Len(calls))
    PROVE  ScopesKnown(calls, Append(list, e))
<1>1. /\ Len(Append(list, e)) = Len(list) + 1 /\ Len(list) \in Nat
      /\ \A i \in 1..Len(list) : Append(list, e)[i] = list[i]
      /\ Append(list, e)[Len(list) + 1] = e
  BY AppendProperties, LenProperties
<1>2. \A i \in 1..Len(list) + 1 : i \in 1..Len(list) \/ i = Len(list) + 1
  BY <1>1
<1> QED BY <1>1, <1>2 DEF ScopesKnown

(* All entries that exist were made before the next block. *)
LEMMA WholeList ==
    ASSUME NEW calls \in Seq(Calls), NEW path \in Seq(Blocks), NEW list \in Seq(Saved),
           NEW B, Matches(calls, path, list, B)
    PROVE  CutAt(list, Len(list), Len(calls), Len(path) + 1)
<1>1. Len(list) \in Nat
  BY LenProperties
<1> QED BY <1>1, NothingLater DEF CutAt

(* The entries of a list that matches are at points where the code is. *)
LEMMA PointOfEntry ==
    ASSUME NEW calls \in Seq(Calls), NEW path \in Seq(Blocks), NEW list \in Seq(Saved),
           NEW B, Matches(calls, path, list, B), NEW i \in 1..Len(list)
    PROVE  /\ list[i] \in Saved
           /\ list[i].state.nFuncCalls \in 0..Len(calls) /\ Len(list[i].path) \in Nat
           /\ list[i].state.nFuncCalls = Len(calls) => Len(list[i].path) <= Len(path) + 1
<1>1. /\ list[i].state.nFuncCalls \in Nat /\ Len(list[i].path) \in Nat
      /\ Len(calls) \in Nat /\ Len(path) \in Nat /\ list[i] \in Saved
  BY SavedFields, LenProperties
<1>2. Before(list[i], Len(calls), Len(path) + 1)
  BY NothingLater
<1> QED BY <1>1, <1>2 DEF Before

LEMMA CallPoint ==
    ASSUME NEW calls \in Seq(Calls), NEW path \in Seq(Blocks), NEW j \in 1..Len(calls)
    PROVE  j \in 0..Len(calls) /\ 0 \in Nat /\ (j = Len(calls) => 0 <= Len(path) + 1)
BY LenProperties

LEMMA DataEnterLoop ==
    ASSUME NEW calls \in Seq(Calls), NEW path \in Seq(Blocks),
           NEW exits \in Seq(Saved), NEW tries \in Seq(Saved), Data(calls, path, exits, tries),
           NEW b \in MarkedLoops, Frame(calls, Len(calls)),
           NEW e \in Saved, e.path = Append(path, b), e.state.nFuncCalls = Len(calls),
           e.state.nScopes = 1 + Started(calls, Len(calls)), e.state.nTry = Len(tries)
    PROVE  Data(calls, Append(path, b), Append(exits, e), tries)
<1>1. /\ Matches(calls, path, exits, MarkedLoops) /\ Matches(calls, path, tries, TryBlocks)
      /\ ScopesKnown(calls, exits) /\ ScopesKnown(calls, tries)
  BY DEF Data
<1>2. b \in Blocks /\ b \notin TryBlocks
  BY DEF MarkedLoops, TryBlocks, IsLoop
<1>3. /\ Matches(calls, Append(path, b), Append(exits, e), MarkedLoops)
      /\ Matches(calls, Append(path, b), tries, TryBlocks)
  BY <1>1, <1>2, MatchesAppend, MatchesDeeper
<1>4. ScopesKnown(calls, Append(exits, e))
  BY <1>1, ScopesGrow
<1>5. Len(e.path) = Len(path) + 1 /\ Len(path) \in Nat /\ Len(calls) \in Nat
  BY AppendProperties, LenProperties
<1>6. ExitsOfTries(Append(exits, e), tries)
  <2> SUFFICES ASSUME NEW h \in 1..Len(tries)
               PROVE  CutAt(Append(exits, e), tries[h].state.nExitMark,
                            tries[h].state.nFuncCalls, Len(tries[h].path))
    BY DEF ExitsOfTries
  <2>1. /\ tries[h].state.nFuncCalls \in 0..Len(calls) /\ Len(tries[h].path) \in Nat
        /\ tries[h].state.nFuncCalls = Len(calls) => Len(tries[h].path) <= Len(path) + 1
    BY <1>1, PointOfEntry
  <2>2. CutAt(exits, tries[h].state.nExitMark, tries[h].state.nFuncCalls, Len(tries[h].path))
    BY DEF Data, ExitsOfTries
  <2> QED BY <1>5, <2>1, <2>2, SizesGrow
<1>7. TriesOfExits(Append(exits, e), tries)
  <2>1. /\ Len(Append(exits, e)) = Len(exits) + 1 /\ Len(exits) \in Nat
        /\ \A x \in 1..Len(exits) : Append(exits, e)[x] = exits[x]
        /\ Append(exits, e)[Len(exits) + 1] = e
    BY AppendProperties, LenProperties
  <2>2. \A x \in 1..Len(exits) + 1 : x \in 1..Len(exits) \/ x = Len(exits) + 1
    BY <2>1
  <2>3. CutAt(tries, Len(tries), Len(calls), Len(path) + 1)
    BY <1>1, WholeList
  <2> QED BY <1>5, <2>1, <2>2, <2>3 DEF Data, TriesOfExits
<1>8. SizesOfCalls(calls, Append(exits, e), tries)
  <2> SUFFICES ASSUME NEW j \in 1..Len(calls), calls[j].status # "load"
               PROVE  /\ CutAt(Append(exits, e), calls[j].nExitMark, j, 0)
                      /\ calls[j].lSave => CutAt(tries, calls[j].nTry, j, 0)
    BY DEF SizesOfCalls
  <2>1. j \in 0..Len(calls) /\ 0 \in Nat /\ (j = Len(calls) => 0 <= Len(path) + 1)
    BY CallPoint
  <2>2. /\ CutAt(exits, calls[j].nExitMark, j, 0)
        /\ calls[j].lSave => CutAt(tries, calls[j].nTry, j, 0)
    BY DEF Data, SizesOfCalls
  <2> QED BY <1>5, <2>1, <2>2, SizesGrow
<1> QED BY <1>1, <1>3, <1>4, <1>6, <1>7, <1>8 DEF Data

LEMMA DataEnterTry ==
    ASSUME NEW calls \in Seq(Calls), NEW path \in Seq(Blocks),
           NEW exits \in Seq(Saved), NEW tries \in Seq(Saved), Data(calls, path, exits, tries),
           NEW b \in TryBlocks, Frame(calls, Len(calls)),
           NEW e \in Saved, e.path = Append(path, b), e.state.nFuncCalls = Len(calls),
           e.state.nScopes = 1 + Started(calls, Len(calls)), e.state.nExitMark = Len(exits)
    PROVE  Data(calls, Append(path, b), exits, Append(tries, e))
<1>1. /\ Matches(calls, path, exits, MarkedLoops) /\ Matches(calls, path, tries, TryBlocks)
      /\ ScopesKnown(calls, exits) /\ ScopesKnown(calls, tries)
  BY DEF Data
<1>2. b \in Blocks /\ b \notin MarkedLoops
  BY DEF MarkedLoops, TryBlocks, IsLoop
<1>3. /\ Matches(calls, Append(path, b), exits, MarkedLoops)
      /\ Matches(calls, Append(path, b), Append(tries, e), TryBlocks)
  BY <1>1, <1>2, MatchesAppend, MatchesDeeper
<1>4. ScopesKnown(calls, Append(tries, e))
  BY <1>1, ScopesGrow
<1>5. Len(e.path) = Len(path) + 1 /\ Len(path) \in Nat /\ Len(calls) \in Nat
  BY AppendProperties, LenProperties
<1>6. TriesOfExits(exits, Append(tries, e))
  <2> SUFFICES ASSUME NEW x \in 1..Len(exits)
               PROVE  CutAt(Append(tries, e), exits[x].state.nTry,
                            exits[x].state.nFuncCalls, Len(exits[x].path))
    BY DEF TriesOfExits
  <2>1. /\ exits[x].state.nFuncCalls \in 0..Len(calls) /\ Len(exits[x].path) \in Nat
        /\ exits[x].state.nFuncCalls = Len(calls) => Len(exits[x].path) <= Len(path) + 1
    BY <1>1, PointOfEntry
  <2>2. CutAt(tries, exits[x].state.nTry, exits[x].state.nFuncCalls, Len(exits[x].path))
    BY DEF Data, TriesOfExits
  <2> QED BY <1>5, <2>1, <2>2, SizesGrow
<1>7. ExitsOfTries(exits, Append(tries, e))
  <2>1. /\ Len(Append(tries, e)) = Len(tries) + 1 /\ Len(tries) \in Nat
        /\ \A x \in 1..Len(tries) : Append(tries, e)[x] = tries[x]
        /\ Append(tries, e)[Len(tries) + 1] = e
    BY AppendProperties, LenProperties
  <2>2. \A x \in 1..Len(tries) + 1 : x \in 1..Len(tries) \/ x = Len(tries) + 1
    BY <2>1
  <2>3. CutAt(exits, Len(exits), Len(calls), Len(path) + 1)
    BY <1>1, WholeList
  <2> QED BY <1>5, <2>1, <2>2, <2>3 DEF Data, ExitsOfTries
<1>8. SizesOfCalls(calls, exits, Append(tries, e))
  <2> SUFFICES ASSUME NEW j \in 1..Len(calls), calls[j].status # "load"
               PROVE  /\ CutAt(exits, calls[j].nExitMark, j, 0)
                      /\ calls[j].lSave => CutAt(Append(tries, e), calls[j].nTry, j, 0)
    BY DEF SizesOfCalls
  <2>1. j \in 0..Len(calls) /\ 0 \in Nat /\ (j = Len(calls) => 0 <= Len(path) + 1)
    BY CallPoint
  <2>2. /\ CutAt(exits, calls[j].nExitMark, j, 0)
        /\ calls[j].lSave => CutAt(tries, calls[j].nTry, j, 0)
    BY DEF Data, SizesOfCalls
  <2> QED BY <1>5, <2>1, <2>2, SizesGrow
<1> QED BY <1>1, <1>3, <1>4, <1>6, <1>7, <1>8 DEF Data

LEMMA DataEnterPlain ==
    ASSUME NEW calls \in Seq(Calls), NEW path \in Seq(Blocks),
           NEW exits \in Seq(Saved), NEW tries \in Seq(Saved), Data(calls, path, exits, tries),
           NEW b \in Blocks, b \notin MarkedLoops, b \notin TryBlocks
    PROVE  Data(calls, Append(path, b), exits, tries)
BY MatchesDeeper DEF Data
-----------------------------------------------------------------------------
(* Calls.  A call that is made changes neither which functions run code nor *)
(* where they are; one whose function starts runs code outside every block. *)
SamePlaces(calls, path, calls2, path2) ==
    /\ \A k \in Nat : Frame(calls, k) =>
           /\ Frame(calls2, k) /\ Place(calls2, path2, k) = Place(calls, path, k)
           /\ Started(calls2, k) = Started(calls, k)
    /\ \A k \in Nat : Frame(calls2, k) => Frame(calls, k) \/ Place(calls2, path2, k) = <<>>

LEMMA FrameIndex ==
    ASSUME NEW calls \in Seq(Calls), NEW k, Frame(calls, k)
    PROVE  k \in 0..Len(calls) /\ k \in Nat
BY LenProperties DEF Frame

LEMMA MatchesRecall ==
    ASSUME NEW calls \in Seq(Calls), NEW path, NEW calls2 \in Seq(Calls), NEW path2,
           SamePlaces(calls, path, calls2, path2), NEW list \in Seq(Saved), NEW B,
           Matches(calls, path, list, B), ScopesKnown(calls, list)
    PROVE  Matches(calls2, path2, list, B) /\ ScopesKnown(calls2, list)
<1>1. ASSUME NEW i \in 1..Len(list)
      PROVE  /\ IsOpen(calls2, path2, list[i], B)
             /\ list[i].state.nScopes = 1 + Started(calls2, list[i].state.nFuncCalls)
  <2>1. list[i].state.nFuncCalls \in Nat /\ IsOpen(calls, path, list[i], B)
    BY SavedFields DEF Matches
  <2>2. /\ Frame(calls2, list[i].state.nFuncCalls)
        /\ Place(calls2, path2, list[i].state.nFuncCalls)
             = Place(calls, path, list[i].state.nFuncCalls)
        /\ Started(calls2, list[i].state.nFuncCalls) = Started(calls, list[i].state.nFuncCalls)
    BY <2>1 DEF IsOpen, SamePlaces
  <2> QED BY <2>1, <2>2 DEF IsOpen, ScopesKnown
<1>2. Complete(calls2, path2, list, B)
  <2> SUFFICES ASSUME NEW k \in 0..Len(calls2), NEW d \in 1..Len(Place(calls2, path2, k)),
                      Frame(calls2, k), Place(calls2, path2, k)[d] \in B
               PROVE  \E i \in 1..Len(list) :
                          list[i].state.nFuncCalls = k /\ Len(list[i].path) = d
    BY DEF Complete
  <2>1. k \in Nat
    BY FrameIndex
  <2>2. Place(calls2, path2, k) # <<>>
    OBVIOUS
  <2>3. Frame(calls, k) /\ Place(calls2, path2, k) = Place(calls, path, k)
    BY <2>1, <2>2 DEF SamePlaces
  <2>4. k \in 0..Len(calls)
    BY <2>3, FrameIndex
  <2> QED BY <2>3, <2>4 DEF Matches, Complete
<1> QED BY <1>1, <1>2 DEF Matches, ScopesKnown

LEMMA DataRecall ==
    ASSUME NEW calls \in Seq(Calls), NEW path, NEW calls2 \in Seq(Calls), NEW path2,
           NEW exits \in Seq(Saved), NEW tries \in Seq(Saved), Data(calls, path, exits, tries),
           SamePlaces(calls, path, calls2, path2), SizesOfCalls(calls2, exits, tries)
    PROVE  Data(calls2, path2, exits, tries)
BY MatchesRecall DEF Data

LEMMA PlacesOfLoad ==
    ASSUME NEW calls \in Seq(Calls), NEW path,
           NEW call \in Calls, call.status = "load", call.caller.path = path
    PROVE  SamePlaces(calls, path, Append(calls, call), path)
<1> DEFINE calls2 == Append(calls, call)
<1>1. /\ Len(calls2) = Len(calls) + 1 /\ Len(calls) \in Nat
      /\ \A i \in 1..Len(calls) : calls2[i] = calls[i]
      /\ calls2[Len(calls) + 1] = call
  BY AppendProperties, LenProperties
<1> HIDE DEF calls2
<1>2. ASSUME NEW k \in Nat, Frame(calls, k)
      PROVE  /\ Frame(calls2, k) /\ Place(calls2, path, k) = Place(calls, path, k)
             /\ Started(calls2, k) = Started(calls, k)
  <2>1. k \in 0..Len(calls)
    BY <1>2, FrameIndex
  <2>2. Frame(calls2, k)
    BY <1>1, <1>2 DEF Frame
  <2>3. Place(calls2, path, k) = Place(calls, path, k)
    <3>1. CASE k < Len(calls)
      <4>1. k + 1 \in 1..Len(calls)
        BY <1>1, <2>1, <3>1
      <4> QED BY <1>1, <3>1, <4>1 DEF Place
    <3>2. CASE k = Len(calls)
      BY <1>1, <3>2 DEF Place
    <3> QED BY <1>1, <2>1, <3>1, <3>2
  <2>4. \A i \in 1..k : calls2[i] = calls[i]
    BY <1>1, <2>1
  <2> QED BY <2>2, <2>3, <2>4, StartedAgrees
<1>3. ASSUME NEW k \in Nat, Frame(calls2, k) PROVE Frame(calls, k)
  <2>1. k = 0 \/ (k \in 1..Len(calls) + 1 /\ calls2[k].status = "started")
    BY <1>1, <1>3 DEF Frame
  <2>2. k # Len(calls) + 1
    BY <1>1, <2>1
  <2>3. k = 0 \/ k \in 1..Len(calls)
    BY <1>1, <2>1, <2>2
  <2> QED BY <1>1, <2>1, <2>3 DEF Frame
<1>4. SamePlaces(calls, path, calls2, path)
  BY <1>2, <1>3 DEF SamePlaces
<1> QED BY <1>4 DEF calls2

LEMMA DataLoad ==
    ASSUME NEW calls \in Seq(Calls), NEW path,
           NEW exits \in Seq(Saved), NEW tries \in Seq(Saved), Data(calls, path, exits, tries),
           NEW call \in Calls, call.status = "load", call.caller.path = path
    PROVE  Data(Append(calls, call), path, exits, tries)
<1> DEFINE calls2 == Append(calls, call)
<1>1. /\ calls2 \in Seq(Calls) /\ Len(calls2) = Len(calls) + 1 /\ Len(calls) \in Nat
      /\ \A i \in 1..Len(calls) : calls2[i] = calls[i]
      /\ calls2[Len(calls) + 1] = call
  BY AppendProperties, LenProperties
<1>2. SamePlaces(calls, path, calls2, path)
  BY PlacesOfLoad
<1> HIDE DEF calls2
<1>3. SizesOfCalls(calls2, exits, tries)
  <2>1. \A j \in 1..Len(calls2) : calls2[j].status # "load" =>
            j \in 1..Len(calls) /\ calls2[j] = calls[j]
    BY <1>1
  <2> QED BY <2>1 DEF Data, SizesOfCalls
<1>4. Data(calls2, path, exits, tries)
  BY <1>1, <1>2, <1>3, DataRecall
<1> QED BY <1>4 DEF calls2

(* The last call is replaced by one that is called or started. *)
LEMMA ReplaceLast ==
    ASSUME NEW calls \in Seq(Calls), calls # <<>>, NEW call \in Calls
    PROVE  LET calls2 == Append(Front(calls), call)
           IN  /\ calls2 \in Seq(Calls) /\ Len(calls2) = Len(calls)
               /\ Len(calls) \in Nat \ {0}
               /\ \A i \in 1..(Len(calls) - 1) : calls2[i] = calls[i]
               /\ calls2[Len(calls)] = call /\ Last(calls) = calls[Len(calls)]
<1> DEFINE calls2 == Append(Front(calls), call)
<1>1. Len(calls) \in Nat \ {0} /\ Len(calls) - 1 \in 0..Len(calls)
  BY EmptySeq, LenProperties
<1>2. /\ Front(calls) \in Seq(Calls) /\ Len(Front(calls)) = Len(calls) - 1
      /\ \A i \in 1..(Len(calls) - 1) : Front(calls)[i] = calls[i]
  <2> DEFINE c == Len(calls) - 1
  <2>1. Front(calls) = SubSeq(calls, 1, c)
    BY DEF Front
  <2>2. c \in 0..Len(calls)
    BY <1>1
  <2> HIDE DEF c
  <2>3. /\ SubSeq(calls, 1, c) \in Seq(Calls) /\ Len(SubSeq(calls, 1, c)) = c
        /\ \A i \in 1..c : SubSeq(calls, 1, c)[i] = calls[i]
    BY <2>2, CallsCut
  <2>4. /\ Front(calls) \in Seq(Calls) /\ Len(Front(calls)) = c
        /\ \A i \in 1..c : Front(calls)[i] = calls[i]
    BY <2>1, <2>3
  <2> QED BY <2>4 DEF c
<1>3. /\ calls2 \in Seq(Calls) /\ Len(calls2) = Len(Front(calls)) + 1
      /\ \A i \in 1..Len(Front(calls)) : calls2[i] = Front(calls)[i]
      /\ calls2[Len(Front(calls)) + 1] = call
  BY <1>2, AppendProperties
<1> QED BY <1>1, <1>2, <1>3 DEF Last

LEMMA PlacesOfCall ==
    ASSUME NEW calls \in Seq(Calls), calls # <<>>, calls[Len(calls)].status # "started",
           NEW path, NEW call \in Calls, call.caller = calls[Len(calls)].caller,
           NEW calls2, calls2 = Append(Front(calls), call)
    PROVE  SamePlaces(calls, path, calls2, <<>>)
<1>1. /\ calls2 \in Seq(Calls) /\ Len(calls2) = Len(calls) /\ Len(calls) \in Nat \ {0}
      /\ \A i \in 1..(Len(calls) - 1) : calls2[i] = calls[i]
      /\ calls2[Len(calls)] = call
  BY ReplaceLast
<1>2. ASSUME NEW k \in Nat, k < Len(calls)
      PROVE  /\ Frame(calls2, k) = Frame(calls, k)
             /\ Place(calls2, <<>>, k) = Place(calls, path, k)
             /\ Started(calls2, k) = Started(calls, k)
  <2>1. \A i \in 1..k : i \in 1..(Len(calls) - 1) /\ calls2[i] = calls[i]
    BY <1>1, <1>2
  <2>2. Frame(calls2, k) = Frame(calls, k)
    BY <1>1, <2>1 DEF Frame
  <2>3. calls2[k + 1].caller = calls[k + 1].caller
    <3>1. k + 1 = Len(calls) \/ k + 1 \in 1..(Len(calls) - 1)
      BY <1>1, <1>2
    <3> QED BY <1>1, <3>1
  <2>4. Place(calls2, <<>>, k) = Place(calls, path, k)
    BY <1>1, <1>2, <2>3 DEF Place
  <2>5. Started(calls2, k) = Started(calls, k)
    BY <2>1, StartedAgrees
  <2> QED BY <2>2, <2>4, <2>5
<1>3. ASSUME NEW k \in Nat, Frame(calls, k) PROVE k < Len(calls)
  BY <1>1, <1>3 DEF Frame
<1>4. ASSUME NEW k \in Nat, Frame(calls2, k), ~(k < Len(calls))
      PROVE  Place(calls2, <<>>, k) = <<>>
  BY <1>1, <1>4 DEF Place
<1> QED BY <1>2, <1>3, <1>4 DEF SamePlaces

(* Entries are of functions that had started before the last call. *)
LEMMA WholeListBefore ==
    ASSUME NEW calls \in Seq(Calls), NEW path, NEW list \in Seq(Saved), NEW B,
           Matches(calls, path, list, B), calls # <<>>, calls[Len(calls)].status # "started"
    PROVE  CutAt(list, Len(list), Len(calls), 0)
<1>1. Len(list) \in Nat /\ Len(calls) \in Nat
  BY LenProperties
<1>2. ASSUME NEW i \in 1..Len(list) PROVE Before(list[i], Len(calls), 0)
  <2>1. Frame(calls, list[i].state.nFuncCalls) /\ list[i].state.nFuncCalls \in Nat
    BY SavedFields DEF Matches, IsOpen
  <2>2. list[i].state.nFuncCalls < Len(calls)
    BY <1>1, <2>1, EmptySeq DEF Frame
  <2> QED BY <2>2 DEF Before
<1> QED BY <1>1, <1>2 DEF CutAt

LEMMA DataCall ==
    ASSUME NEW calls \in Seq(Calls), calls # <<>>, calls[Len(calls)].status = "load", NEW path,
           NEW exits \in Seq(Saved), NEW tries \in Seq(Saved), Data(calls, path, exits, tries),
           NEW call \in Calls, call.caller = calls[Len(calls)].caller,
           call.nExitMark = Len(exits), call.lSave => call.nTry = Len(tries),
           NEW calls2, calls2 = Append(Front(calls), call)
    PROVE  Data(calls2, <<>>, exits, tries)
<1>1. /\ calls2 \in Seq(Calls) /\ Len(calls2) = Len(calls) /\ Len(calls) \in Nat \ {0}
      /\ \A i \in 1..(Len(calls) - 1) : calls2[i] = calls[i]
      /\ calls2[Len(calls)] = call
  BY ReplaceLast
<1>2. SamePlaces(calls, path, calls2, <<>>)
  BY PlacesOfCall
<1>3. CutAt(exits, Len(exits), Len(calls), 0) /\ CutAt(tries, Len(tries), Len(calls), 0)
  BY WholeListBefore DEF Data
<1>4. \A j \in 1..Len(calls2) : j = Len(calls) \/ j \in 1..(Len(calls) - 1)
  BY <1>1
<1>5. \A j \in 1..(Len(calls) - 1) : j \in 1..Len(calls)
  BY <1>1
<1>6. SizesOfCalls(calls2, exits, tries)
  BY <1>1, <1>3, <1>4, <1>5 DEF Data, SizesOfCalls
<1> QED BY <1>1, <1>2, <1>6, DataRecall

LEMMA DataStart ==
    ASSUME NEW calls \in Seq(Calls), calls # <<>>, calls[Len(calls)].status = "call", NEW path,
           NEW exits \in Seq(Saved), NEW tries \in Seq(Saved), Data(calls, path, exits, tries),
           NEW call \in Calls, call.caller = calls[Len(calls)].caller,
           call.nExitMark = calls[Len(calls)].nExitMark,
           call.lSave = calls[Len(calls)].lSave, call.nTry = calls[Len(calls)].nTry,
           NEW calls2, calls2 = Append(Front(calls), call)
    PROVE  Data(calls2, <<>>, exits, tries)
<1>1. /\ calls2 \in Seq(Calls) /\ Len(calls2) = Len(calls) /\ Len(calls) \in Nat \ {0}
      /\ \A i \in 1..(Len(calls) - 1) : calls2[i] = calls[i]
      /\ calls2[Len(calls)] = call
  BY ReplaceLast
<1>2. SamePlaces(calls, path, calls2, <<>>)
  BY PlacesOfCall
<1>3. \A j \in 1..Len(calls2) : j = Len(calls) \/ j \in 1..(Len(calls) - 1)
  BY <1>1
<1>4. \A j \in 1..(Len(calls) - 1) : j \in 1..Len(calls)
  BY <1>1
<1>5. SizesOfCalls(calls2, exits, tries)
  <2> SUFFICES ASSUME NEW j \in 1..Len(calls2), calls2[j].status # "load"
               PROVE  /\ CutAt(exits, calls2[j].nExitMark, j, 0)
                      /\ calls2[j].lSave => CutAt(tries, calls2[j].nTry, j, 0)
    BY DEF SizesOfCalls
  <2>1. CASE j = Len(calls)
    BY <1>1, <2>1 DEF Data, SizesOfCalls
  <2>2. CASE j \in 1..(Len(calls) - 1)
    BY <1>1, <1>4, <2>2 DEF Data, SizesOfCalls
  <2> QED BY <1>3, <2>1, <2>2
<1> QED BY <1>1, <1>2, <1>5, DataRecall
-----------------------------------------------------------------------------
(* The machine. *)

(* At a loop's own labels the innermost block is that loop. *)
AtLoop(l) == l.at \in {"init", "next", "end"} => l.path # <<>> /\ IsLoop(l.path[Len(l.path)])

(* What the statuses of the calls say of where the code l is. *)
CallsKnown(calls, l) ==
    /\ \A j \in 1..Len(calls) : calls[j].status = "call" => j = Len(calls) /\ l.at = "newfunc"
    /\ l.at = "newfunc" => calls # <<>> /\ calls[Len(calls)].status = "call" /\ l.path = <<>>
    /\ l.at \in {"end", "optional"} => calls = <<>> \/ calls[Len(calls)].status # "load"
    /\ AtLoop(l)
    /\ \A j \in 1..Len(calls) : AtLoop(calls[j].caller)

(* A loop mark saved what the exit mark of its loop saved. *)
SameMark(m, e) ==
    /\ m.path = e.path /\ m.state.nFuncCalls = e.state.nFuncCalls
    /\ m.state.nScopes = e.state.nScopes /\ m.state.nTry = e.state.nTry

LoopsKnown == \A i \in 1..Live : SameMark(pLoopMark[i], pExitMark[i])

ScopesCounted == nScopes = 1 + Started(aFuncCall, Len(aFuncCall))

Book ==
    /\ Data(aFuncCall, pc.path, pExitMark, pTry)
    /\ CallsKnown(aFuncCall, pc)
    /\ LoopsKnown
    /\ ScopesCounted

(* The types of the lists, as the lemmas on data want them. *)
LEMMA TypesOfLists ==
    ASSUME Inv
    PROVE  /\ aFuncCall \in Seq(Calls) /\ Len(aFuncCall) \in Nat
           /\ pExitMark \in Seq(Saved) /\ pLoopMark \in Seq(Saved) /\ pTry \in Seq(Saved)
           /\ Len(pExitMark) \in Nat /\ Len(pLoopMark) = Len(pExitMark) /\ Len(pTry) \in Nat
           /\ pc \in Locs /\ pc.path \in Seq(Blocks) /\ Len(pc.path) \in Nat
           /\ nScopes \in Int
<1>1. /\ aFuncCall \in Seq(Calls) /\ pExitMark \in Seq(Saved) /\ pLoopMark \in Seq(Saved)
      /\ pTry \in Seq(Saved) /\ pc \in Locs /\ nScopes \in Int
      /\ Len(pLoopMark) = Len(pExitMark)
  BY TypedImpliesTypeOK DEF Inv, TypeOK, MarksPaired
<1>2. pc.path \in Seq(Blocks)
  BY <1>1 DEF Locs
<1> QED BY <1>1, <1>2, LenProperties

LEMMA StatusOfCall ==
    ASSUME NEW calls \in Seq(Calls), NEW j \in 1..Len(calls)
    PROVE  calls[j] \in Calls /\ calls[j].status \in {"load", "call", "started"}
<1>1. calls[j] \in Calls
  BY ElementOfSeq
<1> QED BY <1>1 DEF Calls

(* When no call is being prepared the last function is the one that runs. *)
LEMMA LastIsFrame ==
    ASSUME Inv, CallsKnown(aFuncCall, pc), pc.at # "newfunc",
           ~Loaded \/ pc.at \in {"end", "optional"}
    PROVE  Frame(aFuncCall, Len(aFuncCall))
<1>1. aFuncCall \in Seq(Calls) /\ Len(aFuncCall) \in Nat
  BY TypesOfLists
<1>2. CASE aFuncCall = <<>>
  BY <1>2 DEF Frame
<1>3. CASE aFuncCall # <<>>
  <2>1. Len(aFuncCall) \in 1..Len(aFuncCall)
    BY <1>1, <1>3, EmptySeq
  <2>2. aFuncCall[Len(aFuncCall)].status # "load"
    BY <1>3 DEF Loaded, CallsKnown, Last
  <2>3. aFuncCall[Len(aFuncCall)].status # "call"
    BY <2>1 DEF CallsKnown
  <2>4. aFuncCall[Len(aFuncCall)].status = "started"
    BY <1>1, <2>1, <2>2, <2>3, StatusOfCall
  <2> QED BY <2>1, <2>4 DEF Frame
<1> QED BY <1>2, <1>3

LEMMA BackIsPrefix ==
    ASSUME NEW list, Len(list) \in Nat, NEW n \in 0..Len(list)
    PROVE  Back(list, n) = SubSeq(list, 1, n)
<1>1. (IF n < Len(list) THEN n ELSE Len(list)) = n
  OBVIOUS
<1> QED BY <1>1 DEF Back

LEMMA PrefixOfFront ==
    ASSUME NEW calls \in Seq(Calls), calls # <<>>, NEW k \in 0..(Len(calls) - 1)
    PROVE  Back(Front(calls), k) = SubSeq(calls, 1, k)
<1> DEFINE c == Len(calls) - 1
<1>1. Front(calls) = SubSeq(calls, 1, c)
  BY DEF Front
<1>2. Len(calls) \in Nat \ {0} /\ c \in 0..Len(calls) /\ k \in 0..c /\ k \in 0..Len(calls)
  BY EmptySeq, LenProperties
<1> HIDE DEF c
<1>3. /\ SubSeq(calls, 1, c) \in Seq(Calls) /\ Len(SubSeq(calls, 1, c)) = c /\ c \in Nat
      /\ \A i \in 1..c : SubSeq(calls, 1, c)[i] = calls[i]
  BY <1>2, CallsCut
<1>4. Back(Front(calls), k) = SubSeq(SubSeq(calls, 1, c), 1, k)
  BY <1>1, <1>2, <1>3, BackIsPrefix
<1>5. SubSeq(SubSeq(calls, 1, c), 1, k) = [i \in 1..k |-> SubSeq(calls, 1, c)[i]]
  <2>1. k \in 0..Len(SubSeq(calls, 1, c)) /\ k \in Nat
    BY <1>2, <1>3
  <2> QED BY <1>3, <2>1
<1>6. SubSeq(calls, 1, k) = [i \in 1..k |-> calls[i]]
  BY <1>2
<1>7. \A i \in 1..k : i \in 1..c
  BY <1>2
<1> QED BY <1>3, <1>4, <1>5, <1>6, <1>7

(* Calls that are cut where a function runs. *)
LEMMA CallsCutKnown ==
    ASSUME NEW calls \in Seq(Calls), NEW l, CallsKnown(calls, l),
           NEW c \in 0..Len(calls), NEW l2, l2.at # "newfunc",
           Frame(calls, c) \/ (c < Len(calls) /\ l2.at \notin {"end", "optional"}),
           AtLoop(l2)
    PROVE  CallsKnown(SubSeq(calls, 1, c), l2)
<1> DEFINE calls2 == SubSeq(calls, 1, c)
<1>1. /\ calls2 \in Seq(Calls) /\ Len(calls2) = c /\ c \in Nat /\ Len(calls) \in Nat
      /\ \A i \in 1..c : calls2[i] = calls[i]
  BY CallsCut
<1>2. \A i \in 1..c : i \in 1..Len(calls)
  BY <1>1
<1> HIDE DEF calls2
<1>3. ASSUME NEW j \in 1..Len(calls2) PROVE calls2[j].status # "call"
  <2> SUFFICES ASSUME calls2[j].status = "call" PROVE FALSE
    OBVIOUS
  <2>1. j \in 1..c /\ j \in 1..Len(calls) /\ calls[j].status = "call"
    BY <1>1, <1>2
  <2>2. j = Len(calls)
    BY <2>1 DEF CallsKnown
  <2>3. j = c /\ Frame(calls, c)
    BY <1>1, <2>1, <2>2
  <2> QED BY <2>1, <2>3 DEF Frame
<1>4. l2.at \in {"end", "optional"} => calls2 = <<>> \/ calls2[Len(calls2)].status # "load"
  <2> SUFFICES ASSUME Frame(calls, c) PROVE calls2 = <<>> \/ calls2[Len(calls2)].status # "load"
    OBVIOUS
  <2>1. CASE c = 0
    BY <1>1, <2>1, EmptySeq
  <2>2. CASE c \in 1..Len(calls) /\ calls[c].status = "started"
    <3>1. calls2[Len(calls2)] = calls[c]
      BY <1>1, <2>2
    <3> QED BY <2>2, <3>1
  <2> QED BY <2>1, <2>2 DEF Frame
<1>5. \A j \in 1..Len(calls2) : AtLoop(calls2[j].caller)
  BY <1>1, <1>2 DEF CallsKnown
<1> QED BY <1>3, <1>4, <1>5 DEF CallsKnown, calls2

(* The point of an entry: a function that runs, and a depth of its path. *)
LEMMA PointIsOpen ==
    ASSUME NEW calls \in Seq(Calls), NEW path \in Seq(Blocks), NEW list \in Seq(Saved),
           NEW B, Matches(calls, path, list, B), ScopesKnown(calls, list),
           NEW i \in 1..Len(list), NEW k, k = list[i].state.nFuncCalls
    PROVE  /\ list[i] \in Saved /\ list[i].path \in Seq(Blocks)
           /\ Len(list[i].path) \in Nat \ {0} /\ Len(list[i].path) <= Len(Place(calls, path, k))
           /\ \A d \in 1..Len(list[i].path) : list[i].path[d] = Place(calls, path, k)[d]
           /\ list[i].path[Len(list[i].path)] \in B
           /\ k \in Nat /\ k \in 0..Len(calls) /\ Frame(calls, k)
           /\ list[i].state.nScopes = 1 + Started(calls, k)
<1>1. /\ list[i] \in Saved /\ list[i].path \in Seq(Blocks) /\ k \in Nat
      /\ Len(list[i].path) \in Nat \ {0}
  BY SavedFields
<1>2. IsOpen(calls, path, list[i], B)
  BY DEF Matches
<1>3. /\ Len(list[i].path) \in 1..Len(Place(calls, path, k))
      /\ \A d \in 1..Len(list[i].path) : list[i].path[d] = Place(calls, path, k)[d]
      /\ list[i].path[Len(list[i].path)] \in B /\ Frame(calls, k)
  BY <1>2 DEF IsOpen
<1>4. k \in 0..Len(calls)
  BY <1>3, FrameIndex
<1> QED BY <1>1, <1>3, <1>4 DEF ScopesKnown

(* An ordered list is cut at an entry, without it or with it. *)
LEMMA CutAtEntry ==
    ASSUME NEW list \in Seq(Saved), Ordered(list), NEW h \in 1..Len(list),
           NEW k, k = list[h].state.nFuncCalls, NEW d, d = Len(list[h].path)
    PROVE  CutAt(list, h - 1, k, d) /\ CutAt(list, h, k, d + 1)
<1>1. h \in Nat /\ Len(list) \in Nat /\ k \in Nat /\ d \in Nat
  BY SavedFields, LenProperties
<1>2. ASSUME NEW i \in 1..Len(list)
      PROVE  /\ i < h => Before(list[i], k, d) /\ Before(list[i], k, d + 1)
             /\ i = h => ~Before(list[i], k, d) /\ Before(list[i], k, d + 1)
             /\ h < i => ~Before(list[i], k, d) /\ ~Before(list[i], k, d + 1)
  <2>1. list[i].state.nFuncCalls \in Nat /\ Len(list[i].path) \in Nat
    BY SavedFields
  <2>2. CASE i < h
    <3>1. Before(list[i], k, d)
      BY <2>2 DEF Ordered
    <3> QED BY <1>1, <2>1, <2>2, <3>1 DEF Before
  <2>3. CASE i = h
    BY <1>1, <2>1, <2>3 DEF Before
  <2>4. CASE h < i
    <3>1. Before(list[h], list[i].state.nFuncCalls, Len(list[i].path))
      BY <2>4 DEF Ordered
    <3> QED BY <1>1, <2>1, <2>4, <3>1 DEF Before
  <2> QED BY <1>1, <2>2, <2>3, <2>4
<1>3. \A i \in 1..Len(list) : i <= h - 1 <=> Before(list[i], k, d)
  BY <1>1, <1>2
<1>4. \A i \in 1..Len(list) : i <= h <=> Before(list[i], k, d + 1)
  BY <1>1, <1>2
<1>5. h - 1 \in 0..Len(list) /\ h \in 0..Len(list)
  BY <1>1
<1> QED BY <1>3, <1>4, <1>5 DEF CutAt
-----------------------------------------------------------------------------
(* Errors. *)

(* The entries that a try block's state counts have their loop marks. *)
LEMMA LiveCut ==
    ASSUME Inv, Book, NEW h \in 1..Len(pTry),
           NEW n, CutAt(pExitMark, n, pTry[h].state.nFuncCalls, Len(pTry[h].path))
    PROVE  \A i \in 1..n : SameMark(pLoopMark[i], pExitMark[i])
<1> DEFINE path == pc.path
           k == pTry[h].state.nFuncCalls
           d == Len(pTry[h].path)
<1>1. /\ aFuncCall \in Seq(Calls) /\ Len(aFuncCall) \in Nat
      /\ pExitMark \in Seq(Saved) /\ pTry \in Seq(Saved) /\ Len(pTry) \in Nat
      /\ Len(pExitMark) \in Nat /\ pc.path \in Seq(Blocks) /\ Len(pc.path) \in Nat
  BY TypesOfLists
<1>2. n \in 0..Len(pExitMark) /\ n \in Nat /\ k \in Nat /\ d \in Nat
  BY <1>1, SavedFields DEF CutAt
<1>3. CASE ~(pc.at = "end" /\ Last(pc.path).marked)
  <2>1. Live = Len(pExitMark)
    BY <1>1, <1>3 DEF Live
  <2>2. \A i \in 1..n : i \in 1..Live
    BY <1>1, <1>2, <2>1
  <2> QED BY <2>2 DEF Book, LoopsKnown
<1>4. CASE pc.at = "end" /\ Last(pc.path).marked
  <2>1. Live = Len(pExitMark) - 1
    BY <1>4 DEF Live
  <2>2. /\ pc.path # <<>> /\ IsLoop(pc.path[Len(pc.path)]) /\ pc.path[Len(pc.path)].marked
        /\ pc.at # "newfunc"
    BY <1>4 DEF Book, CallsKnown, AtLoop, Last
  <2>3. pc.path[Len(pc.path)] \in MarkedLoops /\ pc.path[Len(pc.path)] \notin TryBlocks
    <3>1. Len(pc.path) \in 1..Len(pc.path)
      BY <1>1, <2>2, EmptySeq
    <3>2. pc.path[Len(pc.path)] \in Blocks
      BY <1>1, <3>1, ElementOfSeq
    <3> QED BY <2>2, <3>2 DEF MarkedLoops, TryBlocks, IsLoop
  <2>4. Frame(aFuncCall, Len(aFuncCall))
    BY <1>4, LastIsFrame DEF Book
  <2>5. CutAt(pExitMark, Len(pExitMark) - 1, Len(aFuncCall), Len(pc.path))
    BY <1>1, <2>2, <2>3, <2>4, CutInnermost DEF Book, Data
  <2>6. CutAt(pTry, Len(pTry), Len(aFuncCall), Len(pc.path))
    <3>1. Len(pTry) = Len(pTry) - (IF pc.path[Len(pc.path)] \in TryBlocks THEN 1 ELSE 0)
      BY <1>1, <2>3
    <3> QED BY <1>1, <2>2, <2>4, <3>1, CutInnermost DEF Book, Data
  <2>7. Before(pTry[h], Len(aFuncCall), Len(pc.path))
    BY <1>1, <2>6 DEF CutAt
  <2>8. k < Len(aFuncCall) \/ (k = Len(aFuncCall) /\ d <= Len(pc.path))
    BY <1>1, <1>2, <2>7 DEF Before
  <2>9. n <= Len(pExitMark) - 1
    <3> DEFINE m == Len(pExitMark) - 1
    <3> HIDE DEF m, k, d
    <3>1. CutAt(pExitMark, m, Len(aFuncCall), Len(pc.path)) /\ CutAt(pExitMark, n, k, d)
      BY <2>5 DEF m, k, d
    <3>2. n <= m
      BY <1>1, <1>2, <2>8, <3>1, CutWithin
    <3> QED BY <3>2 DEF m
  <2>10. \A i \in 1..n : i \in 1..Live
    BY <1>1, <1>2, <2>1, <2>9
  <2> QED BY <2>10 DEF Book, LoopsKnown
<1> QED BY <1>3, <1>4

(* Where the error that is given to the h-th entry of pTry goes on: the     *)
(* function and depth of its try block, where the calls and pTry are cut.   *)
CaughtAt(h) ==
    LET s == pTry[h].state
        k == s.nFuncCalls
        p == pTry[h].path
        d == Len(p)
    IN  /\ d \in Nat \ {0} /\ d <= Len(Place(aFuncCall, pc.path, k))
        /\ \A i \in 1..d : p[i] = Place(aFuncCall, pc.path, k)[i]
        /\ k \in Nat /\ k \in 0..Len(aFuncCall) /\ Frame(aFuncCall, k)
        /\ s.nScopes = 1 + Started(aFuncCall, k)
        /\ aFuncCall' = SubSeq(aFuncCall, 1, k)
        /\ CutAt(pTry, h - 1, k, d) /\ pTry' = SubSeq(pTry, 1, h - 1)
        /\ pc'.path \in Seq(Blocks) /\ Len(pc'.path) = d /\ pc'.at = "body"
        /\ pc'.path[d] = Block("catch", FALSE, 0)
        /\ \A i \in 1..(d - 1) : pc'.path[i] = p[i]

LEMMA UnwindPoint ==
    ASSUME Inv, Book, NEW h \in 1..Len(pTry), NEW cut, NEW calls, Unwind(h, cut, calls),
           cut.nFuncCalls = pTry[h].state.nFuncCalls,
           \/ calls = aFuncCall
           \/ /\ calls = Front(aFuncCall) /\ aFuncCall # <<>>
              /\ aFuncCall[Len(aFuncCall)].status # "started"
    PROVE  CaughtAt(h)
<1> DEFINE s == pTry[h].state
           k == s.nFuncCalls
           p == pTry[h].path
           d == Len(p)
           catch == Block("catch", FALSE, 0)
           newpath == Append(Front(p), catch)
<1>1. /\ aFuncCall \in Seq(Calls) /\ Len(aFuncCall) \in Nat
      /\ pTry \in Seq(Saved) /\ Len(pTry) \in Nat /\ pc.path \in Seq(Blocks)
  BY TypesOfLists
<1>2. Matches(aFuncCall, pc.path, pTry, TryBlocks) /\ ScopesKnown(aFuncCall, pTry)
  BY DEF Book, Data
<1>3. /\ p \in Seq(Blocks) /\ d \in Nat \ {0} /\ d <= Len(Place(aFuncCall, pc.path, k))
      /\ \A i \in 1..d : p[i] = Place(aFuncCall, pc.path, k)[i]
      /\ k \in Nat /\ k \in 0..Len(aFuncCall) /\ Frame(aFuncCall, k)
      /\ s.nScopes = 1 + Started(aFuncCall, k)
  <2>1. k = pTry[h].state.nFuncCalls
    OBVIOUS
  <2> HIDE DEF k
  <2> QED BY <1>1, <1>2, <2>1, PointIsOpen
<1>4. aFuncCall' = SubSeq(aFuncCall, 1, k)
  <2>1. aFuncCall' = Back(calls, k)
    BY DEF Unwind
  <2>2. CASE calls = aFuncCall
    BY <1>1, <1>3, <2>1, <2>2, BackIsPrefix
  <2>3. CASE calls = Front(aFuncCall) /\ aFuncCall # <<>>
              /\ aFuncCall[Len(aFuncCall)].status # "started"
    <3>1. k # Len(aFuncCall)
      BY <1>1, <1>3, <2>3, EmptySeq DEF Frame
    <3>2. k \in 0..(Len(aFuncCall) - 1)
      BY <1>1, <1>3, <3>1
    <3> QED BY <1>1, <2>1, <2>3, <3>2, PrefixOfFront
  <2> QED BY <2>2, <2>3
<1>5. CutAt(pTry, h - 1, k, d)
  BY <1>1, <1>2, CutAtEntry DEF Matches
<1>6. pTry' = SubSeq(pTry, 1, h - 1)
  BY DEF Unwind, TriesAfterCatch
<1>7. pc'.path = newpath /\ pc'.at = "body"
  BY DEF Unwind, CatchBlock, Loc
<1>8. catch \in Blocks
  BY DEF Blocks, Block
<1>9. /\ newpath \in Seq(Blocks) /\ Len(newpath) = d /\ newpath[d] = catch
      /\ \A i \in 1..(d - 1) : newpath[i] = p[i]
  <2> DEFINE m == d - 1
  <2>1. m \in 0..Len(p) /\ m \in Nat /\ Front(p) = SubSeq(p, 1, m)
    BY <1>3 DEF Front
  <2> HIDE DEF m
  <2>2. /\ Front(p) \in Seq(Blocks) /\ Len(Front(p)) = m
        /\ \A i \in 1..m : Front(p)[i] = p[i]
    BY <1>3, <2>1, SubSeqProperties
  <2> HIDE DEF catch
  <2>3. /\ newpath \in Seq(Blocks) /\ Len(newpath) = m + 1 /\ newpath[m + 1] = catch
        /\ \A i \in 1..m : newpath[i] = Front(p)[i]
    BY <1>8, <2>2, AppendProperties
  <2> QED BY <1>3, <2>2, <2>3 DEF m
<1> HIDE DEF newpath, s, k, p, d
<1>10. \A i \in 1..d : p[i] = Place(aFuncCall, pc.path, k)[i]
  BY <1>3
<1>11. pc'.path = newpath /\ pc'.at = "body" /\ newpath[d] = Block("catch", FALSE, 0)
  BY <1>7, <1>9
<1> QED BY <1>3, <1>4, <1>5, <1>6, <1>9, <1>10, <1>11 DEF CaughtAt, s, k, p, d

LEMMA UnwindBook ==
    ASSUME Inv, Book, NEW h \in 1..Len(pTry), NEW cut, NEW calls, Unwind(h, cut, calls),
           cut.nFuncCalls = pTry[h].state.nFuncCalls,
           cut.nExitMark = pTry[h].state.nExitMark, cut.nLoopMark = pTry[h].state.nExitMark,
           \/ calls = aFuncCall
           \/ /\ calls = Front(aFuncCall) /\ aFuncCall # <<>>
              /\ aFuncCall[Len(aFuncCall)].status # "started"
    PROVE  Book'
<1> DEFINE s == pTry[h].state
           k == s.nFuncCalls
           p == pTry[h].path
           d == Len(p)
           n == s.nExitMark
           newpath == pc'.path
<1>1. /\ aFuncCall \in Seq(Calls) /\ Len(aFuncCall) \in Nat
      /\ pExitMark \in Seq(Saved) /\ pLoopMark \in Seq(Saved) /\ pTry \in Seq(Saved)
      /\ Len(pExitMark) \in Nat /\ Len(pLoopMark) = Len(pExitMark) /\ Len(pTry) \in Nat
      /\ pc.path \in Seq(Blocks)
  BY TypesOfLists
<1>2. Data(aFuncCall, pc.path, pExitMark, pTry) /\ CallsKnown(aFuncCall, pc)
  BY DEF Book
<1>3. /\ d \in Nat \ {0} /\ d <= Len(Place(aFuncCall, pc.path, k))
      /\ \A i \in 1..d : p[i] = Place(aFuncCall, pc.path, k)[i]
      /\ k \in Nat /\ k \in 0..Len(aFuncCall) /\ Frame(aFuncCall, k)
      /\ s.nScopes = 1 + Started(aFuncCall, k)
      /\ aFuncCall' = SubSeq(aFuncCall, 1, k)
      /\ CutAt(pTry, h - 1, k, d) /\ pTry' = SubSeq(pTry, 1, h - 1)
      /\ newpath \in Seq(Blocks) /\ Len(newpath) = d /\ pc'.at = "body"
      /\ newpath[d] = Block("catch", FALSE, 0)
      /\ \A i \in 1..(d - 1) : newpath[i] = p[i]
  <2> HIDE DEF s, k, p, d, newpath
  <2>1. CaughtAt(h)
    BY UnwindPoint
  <2> QED BY <2>1 DEF CaughtAt, s, k, p, d, newpath
<1>4. aFuncCall' = SubSeq(aFuncCall, 1, k)
  BY <1>3
<1>5. CutAt(pExitMark, n, k, d) /\ CutAt(pTry, h - 1, k, d)
  <2>1. CutAt(pExitMark, n, k, d)
    BY <1>2 DEF Data, ExitsOfTries
  <2>2. CutAt(pTry, h - 1, k, d)
    BY <1>3
  <2> QED BY <2>1, <2>2
<1>6. n \in 0..Len(pExitMark) /\ n \in Nat
  BY <1>1, <1>5 DEF CutAt
<1>7. pExitMark' = SubSeq(pExitMark, 1, n) /\ pLoopMark' = SubSeq(pLoopMark, 1, n)
  BY <1>1, <1>6, BackIsPrefix DEF Unwind
<1>8. pTry' = SubSeq(pTry, 1, h - 1)
  BY <1>3
<1>9. Block("catch", FALSE, 0) \notin MarkedLoops \cup TryBlocks
  BY DEF Block, MarkedLoops, TryBlocks, IsLoop
<1>10. /\ newpath \in Seq(Blocks) /\ Len(newpath) = d
       /\ newpath[d] = Block("catch", FALSE, 0)
       /\ \A i \in 1..(d - 1) : newpath[i] = p[i]
  BY <1>3
<1>12. pc'.path = newpath /\ pc'.at = "body"
  BY <1>3
<1> HIDE DEF s, k, p, d, n, newpath
<1>11. Data(SubSeq(aFuncCall, 1, k), newpath, SubSeq(pExitMark, 1, n), SubSeq(pTry, 1, h - 1))
  <2>1. d - 1 <= Len(newpath) /\ d - 1 <= Len(Place(aFuncCall, pc.path, k))
    <3>1. Len(Place(aFuncCall, pc.path, k)) \in Nat
      BY <1>1, <1>3, PlaceType
    <3> QED BY <1>3, <1>10, <3>1
  <2>2. \A i \in 1..(d - 1) : newpath[i] = Place(aFuncCall, pc.path, k)[i]
    BY <1>3, <1>10
  <2>3. \A i \in d..Len(newpath) : newpath[i] \notin MarkedLoops \cup TryBlocks
    <3>1. \A i \in d..Len(newpath) : i = d
      BY <1>3, <1>10
    <3> QED BY <1>9, <1>10, <3>1
  <2> QED BY <1>1, <1>2, <1>3, <1>5, <1>10, <2>1, <2>2, <2>3, DataCut
<1>13. CallsKnown(aFuncCall', pc')
  <2>1. AtLoop(pc') /\ pc'.at # "newfunc"
    BY <1>12 DEF AtLoop
  <2> QED BY <1>1, <1>2, <1>3, <1>4, <2>1, CallsCutKnown
<1>14. LoopsKnown'
  <2>1. \A i \in 1..n : SameMark(pLoopMark[i], pExitMark[i])
    BY <1>5, LiveCut DEF n, k, d, s, p
  <2>2. /\ Len(pExitMark') = n
        /\ \A i \in 1..n : pExitMark'[i] = pExitMark[i] /\ pLoopMark'[i] = pLoopMark[i]
    BY <1>1, <1>6, <1>7, SubSeqProperties
  <2>3. Live' = n
    BY <1>6, <1>12, <2>2 DEF Live
  <2> QED BY <2>1, <2>2, <2>3 DEF LoopsKnown
<1>15. ScopesCounted'
  <2>1. nScopes' = 1 + Started(aFuncCall, k)
    BY <1>3 DEF Unwind, s
  <2>2. Len(aFuncCall') = k
    BY <1>1, <1>3, <1>4, CallsCut
  <2>3. Started(aFuncCall', k) = Started(aFuncCall, k)
    <3>1. k \in 0..k
      BY <1>3
    <3> QED BY <1>1, <1>3, <1>4, <3>1, FrameCut
  <2> QED BY <2>1, <2>2, <2>3 DEF ScopesCounted
<1> QED BY <1>4, <1>7, <1>8, <1>11, <1>12, <1>13, <1>14, <1>15 DEF Book

LEMMA SameBook ==
    ASSUME Book, UNCHANGED <<pc, aFuncCall, nScopes, pExitMark, pLoopMark, pTry>>
    PROVE  Book'
BY DEF Book, LoopsKnown, Live, ScopesCounted

LEMMA UncaughtBook == Book /\ Uncaught => Book'
BY SameBook DEF Uncaught, marks

LEMMA ErrorBook ==
    ASSUME Inv, Book, NEW scopes, NEW calls, Error(scopes, calls),
           \/ calls = aFuncCall
           \/ /\ calls = Front(aFuncCall) /\ aFuncCall # <<>>
              /\ aFuncCall[Len(aFuncCall)].status # "started"
    PROVE  Book'
<1>1. CASE ~Handled(Len(pTry), scopes)
  BY <1>1, UncaughtBook DEF Error
<1>2. CASE Handled(Len(pTry), scopes)
  <2>1. Len(pTry) \in 1..Len(pTry)
    BY <1>2, TypesOfLists DEF Handled
  <2>2. pTry[Len(pTry)].state.nLoopMark = pTry[Len(pTry)].state.nExitMark
    <3>1. pTry[Len(pTry)] \in PairedSaved
      BY <2>1, ElementOfSeq DEF Inv, Typed
    <3> QED BY <3>1 DEF PairedSaved
  <2>3. Unwind(Len(pTry), pTry[Len(pTry)].state, calls)
    BY <1>2 DEF Error
  <2> QED BY <2>1, <2>2, <2>3, UnwindBook
<1> QED BY <1>1, <1>2

LEMMA ErrorNowBook == Inv /\ Book /\ ErrorNow => Book'
BY ErrorBook DEF ErrorNow

-----------------------------------------------------------------------------
(* Moving within a block. *)
LEMMA MoveBook ==
    ASSUME Inv, Book, UNCHANGED <<aFuncCall, nScopes, pExitMark, pLoopMark, pTry>>,
           pc'.path = pc.path, pc.at # "newfunc", pc'.at # "newfunc",
           pc'.at \in {"end", "optional"} => ~Loaded, AtLoop(pc'),
           pc.at # "end"
    PROVE  Book'
<1>1. CallsKnown(aFuncCall', pc')
  <2>1. \A j \in 1..Len(aFuncCall) : aFuncCall[j].status # "call" /\ AtLoop(aFuncCall[j].caller)
    BY DEF Book, CallsKnown
  <2>2. pc'.at \in {"end", "optional"} =>
            aFuncCall = <<>> \/ aFuncCall[Len(aFuncCall)].status # "load"
    BY DEF Loaded, Last
  <2> QED BY <2>1, <2>2 DEF CallsKnown
<1>2. LoopsKnown'
  <2>1. Live = Len(pExitMark) /\ Len(pExitMark) \in Nat
    BY TypesOfLists DEF Live
  <2>2. Live' = Len(pExitMark) \/ Live' = Len(pExitMark) - 1
    BY <2>1 DEF Live
  <2>3. \A i \in 1..Live' : i \in 1..Live
    BY <2>1, <2>2
  <2> QED BY <2>3 DEF Book, LoopsKnown
<1> QED BY <1>1, <1>2 DEF Book, ScopesCounted

LEMMA PushOperandBook == Inv /\ Book /\ PushOperand => Book'
<1> SUFFICES ASSUME Inv, Book, PushOperand PROVE Book'
  OBVIOUS
<1>1. pc' = [pc EXCEPT !.ops = @ + 1] /\ pc \in Locs /\ pc.at \in {"body", "init", "next"}
  BY TypesOfLists DEF PushOperand, InExpr
<1>2. pc'.path = pc.path /\ pc'.at = pc.at
  BY <1>1 DEF Locs
<1>3. AtLoop(pc')
  BY <1>2 DEF Book, CallsKnown, AtLoop
<1> QED BY <1>1, <1>2, <1>3, MoveBook DEF PushOperand, marks

LEMMA FreeStackBook == Inv /\ Book /\ FreeStack => Book'
<1> SUFFICES ASSUME Inv, Book, FreeStack PROVE Book'
  OBVIOUS
<1>1. pc' = [pc EXCEPT !.ops = 0] /\ pc \in Locs /\ pc.at = "body"
  BY TypesOfLists DEF FreeStack
<1>2. pc'.path = pc.path /\ pc'.at = "body"
  BY <1>1 DEF Locs
<1>3. AtLoop(pc')
  BY <1>2 DEF AtLoop
<1> QED BY <1>1, <1>2, <1>3, MoveBook DEF FreeStack, marks

LEMMA StepNumberBook == Inv /\ Book /\ StepNumber => Book'
<1> SUFFICES ASSUME Inv, Book, StepNumber PROVE Book'
  OBVIOUS
<1>1. pc'.path = pc.path /\ pc'.at = "next" /\ pc.at = "init"
  BY DEF StepNumber, Loc
<1>2. AtLoop(pc')
  BY <1>1 DEF Book, CallsKnown, AtLoop
<1> QED BY <1>1, <1>2, MoveBook DEF StepNumber

LEMMA LoopTestBook == Inv /\ Book /\ LoopTest => Book'
<1> SUFFICES ASSUME Inv, Book, LoopTest PROVE Book'
  OBVIOUS
<1>1. pc'.path = pc.path /\ pc'.at \in {"body", "end"} /\ pc.at = "next" /\ ~Loaded
  BY DEF LoopTest, Loc
<1>2. AtLoop(pc')
  BY <1>1 DEF Book, CallsKnown, AtLoop
<1> QED BY <1>1, <1>2, MoveBook DEF LoopTest, marks

LEMMA EndBodyBook == Inv /\ Book /\ EndBody => Book'
<1> SUFFICES ASSUME Inv, Book, EndBody PROVE Book'
  OBVIOUS
<1>1. /\ pc'.path = pc.path /\ pc'.at = "next" /\ pc.at = "body"
      /\ pc.path # <<>> /\ IsLoop(pc.path[Len(pc.path)])
  BY DEF EndBody, AtStatement, Loc, Last
<1>2. AtLoop(pc')
  BY <1>1 DEF AtLoop
<1> QED BY <1>1, <1>2, MoveBook DEF EndBody, marks

-----------------------------------------------------------------------------
(* Jumps to a mark. *)

(* A block that is no try block has no entry of pTry. *)
LEMMA CutSkips ==
    ASSUME NEW calls \in Seq(Calls), NEW path \in Seq(Blocks), NEW list \in Seq(Saved),
           NEW B, Matches(calls, path, list, B), ScopesKnown(calls, list),
           NEW k, NEW d \in Nat, Place(calls, path, k)[d] \notin B, NEW m
    PROVE  CutAt(list, m, k, d) <=> CutAt(list, m, k, d + 1)
<1>1. ASSUME NEW i \in 1..Len(list)
      PROVE  Before(list[i], k, d) <=> Before(list[i], k, d + 1)
  <2>1. /\ Len(list[i].path) \in Nat
        /\ \A f \in 1..Len(list[i].path) :
               list[i].path[f] = Place(calls, path, list[i].state.nFuncCalls)[f]
        /\ list[i].path[Len(list[i].path)] \in B /\ Len(list[i].path) \in Nat \ {0}
    BY PointIsOpen
  <2>2. ~(list[i].state.nFuncCalls = k /\ Len(list[i].path) = d)
    BY <2>1
  <2> QED BY <2>1, <2>2 DEF Before
<1> QED BY <1>1 DEF CutAt

(* Where the code is after a jump to the x-th mark: at its loop, where the  *)
(* calls and pTry are cut.                                                  *)
JumpedTo(x) ==
    LET s == pExitMark[x].state
        k == s.nFuncCalls
        p == pExitMark[x].path
        d == Len(p)
        m == s.nTry
    IN  /\ p \in Seq(Blocks) /\ d \in Nat \ {0} /\ d <= Len(Place(aFuncCall, pc.path, k))
        /\ \A i \in 1..d : p[i] = Place(aFuncCall, pc.path, k)[i]
        /\ p[d] \in MarkedLoops
        /\ k \in Nat /\ k \in 0..Len(aFuncCall) /\ Frame(aFuncCall, k)
        /\ s.nScopes = 1 + Started(aFuncCall, k)
        /\ CutAt(pTry, m, k, d + 1)
        /\ aFuncCall' = SubSeq(aFuncCall, 1, k) /\ pTry' = SubSeq(pTry, 1, m)
        /\ pc'.path = p /\ nScopes' = s.nScopes

LEMMA JumpToPoint ==
    ASSUME Inv, Book, NEW x \in 1..Len(pExitMark),
           NEW mark, SameMark(mark, pExitMark[x]), NEW at, JumpTo(mark, at)
    PROVE  JumpedTo(x) /\ pc'.at = at /\ nSP' = mark.state.nSP
<1> DEFINE s == pExitMark[x].state
           k == s.nFuncCalls
           p == pExitMark[x].path
           d == Len(p)
           m == s.nTry
<1>1. /\ aFuncCall \in Seq(Calls) /\ Len(aFuncCall) \in Nat
      /\ pExitMark \in Seq(Saved) /\ pTry \in Seq(Saved)
      /\ Len(pExitMark) \in Nat /\ Len(pTry) \in Nat
      /\ pc.path \in Seq(Blocks) /\ x \in Nat /\ nScopes \in Int
  BY TypesOfLists
<1>2. /\ Data(aFuncCall, pc.path, pExitMark, pTry) /\ CallsKnown(aFuncCall, pc)
      /\ Matches(aFuncCall, pc.path, pExitMark, MarkedLoops)
      /\ Matches(aFuncCall, pc.path, pTry, TryBlocks)
      /\ ScopesKnown(aFuncCall, pExitMark) /\ ScopesKnown(aFuncCall, pTry)
  BY DEF Book, Data
<1>3. /\ p \in Seq(Blocks) /\ d \in Nat \ {0} /\ d <= Len(Place(aFuncCall, pc.path, k))
      /\ \A i \in 1..d : p[i] = Place(aFuncCall, pc.path, k)[i]
      /\ p[d] \in MarkedLoops
      /\ k \in Nat /\ k \in 0..Len(aFuncCall) /\ Frame(aFuncCall, k)
      /\ s.nScopes = 1 + Started(aFuncCall, k)
  BY <1>1, <1>2, PointIsOpen
<1>4. mark.path = p /\ mark.state.nFuncCalls = k /\ mark.state.nScopes = s.nScopes
      /\ mark.state.nTry = m
  BY DEF SameMark
<1>6. CutAt(pTry, m, k, d) /\ m \in 0..Len(pTry)
  BY <1>2 DEF Data, TriesOfExits, CutAt
<1>7. CutAt(pTry, m, k, d + 1)
  <2>1. Place(aFuncCall, pc.path, k)[d] \notin TryBlocks
    BY <1>3 DEF MarkedLoops, TryBlocks, IsLoop
  <2> QED BY <1>1, <1>2, <1>3, <1>6, <2>1, CutSkips
<1>8. mark.state.nScopes <= nScopes
  <2>1. Started(aFuncCall, k) <= Started(aFuncCall, Len(aFuncCall))
    BY <1>1, <1>3, StartedMonotone
  <2>2. Started(aFuncCall, k) \in Nat /\ Started(aFuncCall, Len(aFuncCall)) \in Nat
    BY <1>1, <1>3, StartedNat
  <2>3. nScopes = 1 + Started(aFuncCall, Len(aFuncCall))
    BY DEF Book, ScopesCounted
  <2>4. mark.state.nScopes = 1 + Started(aFuncCall, k)
    BY <1>3, <1>4
  <2> QED BY <2>1, <2>2, <2>3, <2>4
<1>9. /\ nScopes' = mark.state.nScopes /\ nSP' = mark.state.nSP /\ aFuncCall' = Back(aFuncCall, k)
      /\ pTry' = Back(pTry, m) /\ pc' = Loc(p, at)
  <2>1. ~(mark.state.nScopes > nScopes)
    <3>1. mark.state.nScopes \in Int
      BY <1>3, <1>4, StartedNat
    <3> QED BY <1>1, <1>8, <3>1
  <2> QED BY <1>4, <2>1 DEF JumpTo, TriesAfterExit
<1>10. aFuncCall' = SubSeq(aFuncCall, 1, k) /\ pTry' = SubSeq(pTry, 1, m)
  BY <1>1, <1>3, <1>6, <1>9, BackIsPrefix
<1>11. pc'.path = p /\ pc'.at = at
  BY <1>9 DEF Loc
<1> HIDE DEF s, k, p, d, m
<1> QED BY <1>3, <1>4, <1>7, <1>9, <1>10, <1>11 DEF JumpedTo, s, k, p, d, m

LEMMA JumpToBook ==
    ASSUME Inv, Book, pc.at # "end", NEW x \in 1..Len(pExitMark),
           NEW mark, SameMark(mark, pExitMark[x]), NEW at \in {"next", "end"},
           JumpTo(mark, at), pExitMark' = SubSeq(pExitMark, 1, x),
           \A i \in 1..(x - 1) : pLoopMark'[i] = pLoopMark[i],
           at = "next" => pLoopMark'[x] = pLoopMark[x]
    PROVE  Book'
<1> DEFINE s == pExitMark[x].state
           k == s.nFuncCalls
           p == pExitMark[x].path
           d == Len(p)
           m == s.nTry
<1>1. /\ aFuncCall \in Seq(Calls) /\ Len(aFuncCall) \in Nat
      /\ pExitMark \in Seq(Saved) /\ pTry \in Seq(Saved)
      /\ Len(pExitMark) \in Nat /\ Len(pTry) \in Nat
      /\ pc.path \in Seq(Blocks) /\ x \in Nat /\ nScopes \in Int
  BY TypesOfLists
<1>2. /\ Data(aFuncCall, pc.path, pExitMark, pTry) /\ CallsKnown(aFuncCall, pc)
      /\ Matches(aFuncCall, pc.path, pExitMark, MarkedLoops)
      /\ Matches(aFuncCall, pc.path, pTry, TryBlocks)
      /\ ScopesKnown(aFuncCall, pExitMark) /\ ScopesKnown(aFuncCall, pTry)
  BY DEF Book, Data
<1>3. /\ p \in Seq(Blocks) /\ d \in Nat \ {0} /\ d <= Len(Place(aFuncCall, pc.path, k))
      /\ \A i \in 1..d : p[i] = Place(aFuncCall, pc.path, k)[i]
      /\ p[d] \in MarkedLoops
      /\ k \in Nat /\ k \in 0..Len(aFuncCall) /\ Frame(aFuncCall, k)
      /\ s.nScopes = 1 + Started(aFuncCall, k)
      /\ CutAt(pTry, m, k, d + 1)
      /\ aFuncCall' = SubSeq(aFuncCall, 1, k) /\ pTry' = SubSeq(pTry, 1, m)
      /\ pc'.path = p /\ pc'.at = at
      /\ nScopes' = s.nScopes
  <2> HIDE DEF s, k, p, d, m
  <2>1. JumpedTo(x) /\ pc'.at = at
    BY JumpToPoint
  <2> QED BY <2>1 DEF JumpedTo, s, k, p, d, m
<1>5. CutAt(pExitMark, x, k, d + 1)
  <2>1. Ordered(pExitMark)
    BY <1>2 DEF Matches
  <2> QED BY <1>1, <2>1, CutAtEntry
<1>7. CutAt(pTry, m, k, d + 1)
  BY <1>3
<1>10. /\ aFuncCall' = SubSeq(aFuncCall, 1, k) /\ pTry' = SubSeq(pTry, 1, m)
       /\ nScopes' = s.nScopes
  BY <1>3
<1>11. pc'.path = p /\ pc'.at = at
  BY <1>3
<1> HIDE DEF s, k, p, d, m
<1>12. Data(SubSeq(aFuncCall, 1, k), p, SubSeq(pExitMark, 1, x), SubSeq(pTry, 1, m))
  <2> DEFINE f == d + 1
  <2>1. f \in Nat \ {0} /\ f - 1 = d /\ \A i \in f..Len(p) : FALSE
    BY <1>3 DEF d
  <2>2. CutAt(pExitMark, x, k, f) /\ CutAt(pTry, m, k, f) /\ f - 1 <= Len(p)
    BY <1>3, <1>5, <1>7, <2>1 DEF d
  <2> HIDE DEF f
  <2>3. /\ f - 1 <= Len(Place(aFuncCall, pc.path, k))
        /\ \A i \in 1..(f - 1) : p[i] = Place(aFuncCall, pc.path, k)[i]
    BY <1>3, <2>1
  <2> QED BY <1>1, <1>2, <1>3, <2>1, <2>2, <2>3, DataCut
<1>13. CallsKnown(aFuncCall', pc')
  <2>1. AtLoop(pc') /\ pc'.at # "newfunc"
    <3>1. p # <<>> /\ IsLoop(p[Len(p)])
      BY <1>3, EmptySeq DEF MarkedLoops, d
    <3> QED BY <1>11, <3>1 DEF AtLoop
  <2> QED BY <1>1, <1>2, <1>3, <1>10, <2>1, CallsCutKnown
<1>14. LoopsKnown'
  <2>1. Live = Len(pExitMark)
    BY <1>1 DEF Live
  <2>2. Len(pExitMark') = x /\ \A i \in 1..x : pExitMark'[i] = pExitMark[i]
    BY <1>1, SubSeqProperties
  <2>3. Live' = (IF at = "end" THEN x - 1 ELSE x)
    <3>1. Last(pc'.path).marked
      BY <1>3, <1>11 DEF Last, MarkedLoops, d
    <3> QED BY <1>1, <1>11, <2>2, <3>1 DEF Live
  <2>4. \A i \in 1..Live' : /\ i \in 1..Live /\ pExitMark'[i] = pExitMark[i]
                            /\ pLoopMark'[i] = pLoopMark[i]
    BY <1>1, <2>1, <2>2, <2>3
  <2> QED BY <2>4 DEF Book, LoopsKnown
<1>15. ScopesCounted'
  <2>1. Len(aFuncCall') = k
    BY <1>1, <1>3, <1>10, CallsCut
  <2>2. Started(aFuncCall', k) = Started(aFuncCall, k)
    <3>1. k \in 0..k
      BY <1>3
    <3> QED BY <1>1, <1>3, <1>10, <3>1, FrameCut
  <2> QED BY <1>3, <1>10, <2>1, <2>2 DEF ScopesCounted
<1> QED BY <1>10, <1>11, <1>12, <1>13, <1>14, <1>15 DEF Book

LEMMA ExitLoopsBook ==
    ASSUME Inv, Book, pc.at # "end", NEW n \in 1..Len(pExitMark), ExitLoops(n)
    PROVE  Book'
<1> DEFINE x == Target(n)
<1>1. /\ pExitMark \in Seq(Saved) /\ pLoopMark \in Seq(Saved)
      /\ Len(pExitMark) \in Nat /\ Len(pLoopMark) = Len(pExitMark) /\ n \in Nat
  BY TypesOfLists
<1>2. x \in 1..Len(pExitMark) /\ x - 1 \in 0..Len(pLoopMark) /\ x - 1 \in Nat
  BY <1>1 DEF Target
<1>3. pExitMark' = SubSeq(pExitMark, 1, x) /\ JumpTo(pExitMark[x], "end")
  BY DEF ExitLoops
<1>4. \A i \in 1..(x - 1) : pLoopMark'[i] = pLoopMark[i]
  <2> DEFINE m == x - 1
             keep == SubSeq(pLoopMark, 1, m)
  <2>1. pLoopMark' = Append(keep, pLoopMark[Len(pExitMark)])
    BY DEF ExitLoops, LoopMarksAfterExit
  <2>2. m \in 0..Len(pLoopMark)
    BY <1>2
  <2> HIDE DEF m, x
  <2>3. /\ keep \in Seq(Saved) /\ Len(keep) = m
        /\ \A i \in 1..m : keep[i] = pLoopMark[i]
    BY <1>1, <2>2, SubSeqProperties
  <2> HIDE DEF keep
  <2>4. pLoopMark[Len(pExitMark)] \in Saved
    BY <1>1, <1>2, ElementOfSeq
  <2>5. \A i \in 1..m : pLoopMark'[i] = pLoopMark[i]
    BY <2>1, <2>3, <2>4, AppendProperties
  <2> QED BY <2>5 DEF m
<1>5. SameMark(pExitMark[x], pExitMark[x])
  BY DEF SameMark
<1> HIDE DEF x
<1> QED BY <1>2, <1>3, <1>4, <1>5, JumpToBook

LEMMA LoopOnceBook ==
    ASSUME Inv, Book, pc.at # "end", LoopOnce PROVE Book'
<1>1. CASE ErrorNow
  BY <1>1, ErrorNowBook
<1>2. CASE ~ErrorNow
  <2> DEFINE x == Len(pExitMark)
  <2>1. /\ pLoopMark # <<>> /\ JumpTo(Last(pLoopMark), "next")
        /\ UNCHANGED <<pExitMark, pLoopMark, pForStep>>
    BY <1>2 DEF LoopOnce, marks
  <2>2. /\ pExitMark \in Seq(Saved) /\ pLoopMark \in Seq(Saved)
        /\ Len(pExitMark) \in Nat /\ Len(pLoopMark) = Len(pExitMark)
    BY TypesOfLists
  <2>3. x \in 1..Len(pExitMark) /\ Last(pLoopMark) = pLoopMark[x]
    <3>1. Len(pLoopMark) # 0
      BY <2>1, <2>2, EmptySeq
    <3> QED BY <2>2, <3>1 DEF Last
  <2>4. SameMark(pLoopMark[x], pExitMark[x])
    <3>1. Live = Len(pExitMark)
      BY <2>2 DEF Live
    <3>2. x \in 1..Live
      BY <2>3, <3>1
    <3> QED BY <3>2 DEF Book, LoopsKnown
  <2>5. pExitMark' = SubSeq(pExitMark, 1, x)
    BY <2>1, <2>2, SubSeqFull
  <2> HIDE DEF x
  <2> QED BY <2>1, <2>3, <2>4, <2>5, JumpToBook
<1> QED BY <1>1, <1>2

LEMMA ExitBook == ASSUME NEW n \in Counts, Inv, Book, Exit(n) PROVE Book'
<1>1. pc.at # "end"
  BY DEF Exit, AtStatement
<1>2. CASE ErrorNow
  BY <1>2, ErrorNowBook
<1>3. CASE n \in 1..Len(pExitMark) /\ ExitLoops(n)
  BY <1>1, <1>3, ExitLoopsBook
<1> QED BY <1>2, <1>3 DEF Exit

LEMMA LoopBook == ASSUME NEW n \in Counts, Inv, Book, Loop(n) PROVE Book'
<1>1. pc.at # "end"
  BY DEF Loop, AtStatement
<1>2. CASE LoopOnce
  BY <1>1, <1>2, LoopOnceBook
<1>3. CASE n \in 2..Len(pLoopMark) /\ ExitLoops(n - 1)
  <2>1. n - 1 \in 1..Len(pExitMark)
    BY <1>3, TypesOfLists
  <2> QED BY <1>1, <1>3, <2>1, ExitLoopsBook
<1>4. CASE ErrorNow
  BY <1>4, ErrorNowBook
<1> QED BY <1>2, <1>3, <1>4 DEF Loop

LEMMA OptionalLoopBook == Inv /\ Book /\ OptionalLoop => Book'
<1> SUFFICES ASSUME Inv, Book, OptionalLoop PROVE Book'
  OBVIOUS
<1>1. CASE LoopOnce
  BY <1>1, LoopOnceBook DEF OptionalLoop
<1>2. CASE ~LoopOnce
  <2>1. /\ pc' = [pc EXCEPT !.at = "body"] /\ pc \in Locs /\ pc.at = "optional"
        /\ UNCHANGED <<aFuncCall, nScopes, pExitMark, pLoopMark, pTry>>
    BY <1>2, TypesOfLists DEF OptionalLoop, marks
  <2>2. pc'.path = pc.path /\ pc'.at = "body"
    BY <2>1 DEF Locs
  <2>3. AtLoop(pc')
    BY <2>2 DEF AtLoop
  <2> QED BY <2>1, <2>2, <2>3, MoveBook
<1> QED BY <1>1, <1>2

-----------------------------------------------------------------------------
(* Leaving a block at its end. *)
LEMMA DataLeave ==
    ASSUME NEW calls \in Seq(Calls), NEW path \in Seq(Blocks),
           NEW exits \in Seq(Saved), NEW tries \in Seq(Saved), Data(calls, path, exits, tries),
           path # <<>>, Frame(calls, Len(calls)),
           NEW n, n = Len(exits) - (IF path[Len(path)] \in MarkedLoops THEN 1 ELSE 0),
           NEW m, m = Len(tries) - (IF path[Len(path)] \in TryBlocks THEN 1 ELSE 0)
    PROVE  /\ Data(calls, Front(path), SubSeq(exits, 1, n), SubSeq(tries, 1, m))
           /\ n \in 0..Len(exits) /\ m \in 0..Len(tries)
<1> DEFINE c == Len(calls)
           d == Len(path)
<1>1. Len(calls) \in Nat /\ Len(path) \in Nat \ {0}
  BY LenProperties, EmptySeq
<1>2. CutAt(exits, n, c, d) /\ CutAt(tries, m, c, d)
  BY CutInnermost DEF Data
<1>3. SubSeq(calls, 1, c) = calls
  BY SubSeqFull
<1>4. c \in 0..Len(calls) /\ d \in Nat \ {0} /\ Place(calls, path, c) = path
  BY <1>1 DEF Place
<1>5. /\ Front(path) \in Seq(Blocks) /\ Len(Front(path)) = d - 1
      /\ \A i \in 1..(d - 1) : Front(path)[i] = path[i]
  <2> DEFINE f == d - 1
  <2>1. f \in 0..Len(path) /\ Front(path) = SubSeq(path, 1, f)
    BY <1>1 DEF Front
  <2> HIDE DEF f
  <2>2. /\ Front(path) \in Seq(Blocks) /\ Len(Front(path)) = f
        /\ \A i \in 1..f : Front(path)[i] = path[i]
    BY <1>1, <2>1, SubSeqProperties
  <2> QED BY <2>2 DEF f
<1>6. /\ d - 1 <= Len(Front(path)) /\ d - 1 <= Len(Place(calls, path, c))
      /\ \A i \in d..Len(Front(path)) : FALSE
  BY <1>1, <1>4, <1>5
<1> HIDE DEF c, d
<1>7. Data(SubSeq(calls, 1, c), Front(path), SubSeq(exits, 1, n), SubSeq(tries, 1, m))
  BY <1>2, <1>4, <1>5, <1>6, DataCut
<1> QED BY <1>2, <1>3, <1>7 DEF CutAt

LEMMA BlockOfPath ==
    ASSUME Inv, pc.path # <<>>
    PROVE  pc.path[Len(pc.path)] \in Blocks /\ Last(pc.path) = pc.path[Len(pc.path)]
<1>1. Len(pc.path) \in 1..Len(pc.path)
  BY TypesOfLists, EmptySeq
<1> QED BY <1>1, TypesOfLists, ElementOfSeq DEF Last

(* What the calls say of the place after a block. *)
LEMMA LeaveKnown ==
    ASSUME Inv, Book, pc.at # "newfunc", ~Loaded \/ pc.at = "end",
           pc'.at \in {"body", "optional"}, UNCHANGED aFuncCall
    PROVE  CallsKnown(aFuncCall', pc')
<1>1. \A j \in 1..Len(aFuncCall) : aFuncCall[j].status # "call" /\ AtLoop(aFuncCall[j].caller)
  BY DEF Book, CallsKnown
<1>2. aFuncCall = <<>> \/ aFuncCall[Len(aFuncCall)].status # "load"
  BY DEF Book, CallsKnown, Loaded, Last
<1>3. AtLoop(pc')
  BY DEF AtLoop
<1> QED BY <1>1, <1>2, <1>3 DEF CallsKnown

LEMMA LeaveTryBook == Inv /\ Book /\ (LeaveTry \/ LeaveCatch) => Book'
<1> SUFFICES ASSUME Inv, Book, LeaveTry \/ LeaveCatch PROVE Book'
  OBVIOUS
<1> DEFINE b == pc.path[Len(pc.path)]
           n == Len(pExitMark) - (IF b \in MarkedLoops THEN 1 ELSE 0)
           m == Len(pTry) - (IF b \in TryBlocks THEN 1 ELSE 0)
<1>1. /\ pc.at = "body" /\ ~Loaded /\ pc.path # <<>>
      /\ pc'.path = Front(pc.path) /\ pc'.at = "body"
      /\ UNCHANGED <<aFuncCall, nScopes, pExitMark, pLoopMark>>
  BY DEF LeaveTry, LeaveCatch, AtStatement, Loc, marks
<1>2. /\ aFuncCall \in Seq(Calls) /\ pExitMark \in Seq(Saved) /\ pTry \in Seq(Saved)
      /\ Len(pExitMark) \in Nat /\ Len(pTry) \in Nat /\ pc.path \in Seq(Blocks)
  BY TypesOfLists
<1>3. Frame(aFuncCall, Len(aFuncCall))
  <2>1. CallsKnown(aFuncCall, pc) /\ pc.at = "body" /\ ~Loaded
    BY DEF Book, LeaveTry, LeaveCatch, AtStatement
  <2> QED BY <2>1, LastIsFrame
<1>4. /\ Data(aFuncCall, Front(pc.path), SubSeq(pExitMark, 1, n), SubSeq(pTry, 1, m))
      /\ n \in 0..Len(pExitMark) /\ m \in 0..Len(pTry)
  <2>1. Data(aFuncCall, pc.path, pExitMark, pTry)
    BY DEF Book
  <2> HIDE DEF n, m
  <2>2. /\ n = Len(pExitMark) - (IF pc.path[Len(pc.path)] \in MarkedLoops THEN 1 ELSE 0)
        /\ m = Len(pTry) - (IF pc.path[Len(pc.path)] \in TryBlocks THEN 1 ELSE 0)
    BY DEF n, m
  <2>3. pc.path # <<>>
    BY <1>1
  <2> HIDE DEF b
  <2> QED BY <1>2, <1>3, <2>1, <2>2, <2>3, DataLeave
<1>5. n = Len(pExitMark) /\ SubSeq(pExitMark, 1, n) = pExitMark'
  <2>1. b \notin MarkedLoops
    BY <1>1, BlockOfPath DEF LeaveTry, LeaveCatch, MarkedLoops, IsLoop
  <2> QED BY <1>1, <1>2, <2>1, SubSeqFull
<1>6. SubSeq(pTry, 1, m) = pTry'
  <2>1. CASE LeaveTry
    <3>1. b \in TryBlocks
      BY <1>1, <2>1, BlockOfPath DEF LeaveTry, TryBlocks
    <3>2. m = Len(pTry) - 1 /\ pTry # <<>>
      BY <1>2, <1>4, <3>1, EmptySeq
    <3>3. pTry' = Back(pTry, m)
      BY <2>1, <3>2 DEF LeaveTry, Pop
    <3> HIDE DEF m
    <3> QED BY <1>2, <1>4, <3>3, BackIsPrefix
  <2>2. CASE LeaveCatch
    <3>1. b \notin TryBlocks
      BY <1>1, <2>2, BlockOfPath DEF LeaveCatch, TryBlocks
    <3> QED BY <1>2, <2>2, <3>1, SubSeqFull DEF LeaveCatch
  <2> QED BY <2>1, <2>2
<1> HIDE DEF n, m
<1>7. Data(aFuncCall', pc'.path, pExitMark', pTry')
  BY <1>1, <1>4, <1>5, <1>6
<1>8. CallsKnown(aFuncCall', pc')
  BY <1>1, LeaveKnown
<1>9. LoopsKnown'
  BY <1>1 DEF Book, LoopsKnown, Live
<1> QED BY <1>1, <1>7, <1>8, <1>9 DEF Book, ScopesCounted

LEMMA LoopEndBook == Inv /\ Book /\ LoopEnd => Book'
<1> SUFFICES ASSUME Inv, Book, LoopEnd PROVE Book'
  OBVIOUS
<1> DEFINE b == pc.path[Len(pc.path)]
           n == Len(pExitMark) - (IF b \in MarkedLoops THEN 1 ELSE 0)
           m == Len(pTry) - (IF b \in TryBlocks THEN 1 ELSE 0)
<1>1. /\ pc.at = "end" /\ pc'.path = Front(pc.path) /\ pc'.at = "optional"
      /\ UNCHANGED <<aFuncCall, nScopes, pTry>>
  BY DEF LoopEnd, Loc
<1>2. /\ aFuncCall \in Seq(Calls) /\ pExitMark \in Seq(Saved) /\ pTry \in Seq(Saved)
      /\ pLoopMark \in Seq(Saved) /\ Len(pLoopMark) = Len(pExitMark)
      /\ Len(pExitMark) \in Nat /\ Len(pTry) \in Nat /\ pc.path \in Seq(Blocks)
  BY TypesOfLists
<1>3. pc.path # <<>> /\ IsLoop(b) /\ Frame(aFuncCall, Len(aFuncCall))
  BY <1>1, LastIsFrame DEF Book, CallsKnown, AtLoop
<1>4. /\ Data(aFuncCall, Front(pc.path), SubSeq(pExitMark, 1, n), SubSeq(pTry, 1, m))
      /\ n \in 0..Len(pExitMark) /\ m \in 0..Len(pTry)
  <2>1. /\ Data(aFuncCall, pc.path, pExitMark, pTry)
        /\ n = Len(pExitMark) - (IF pc.path[Len(pc.path)] \in MarkedLoops THEN 1 ELSE 0)
        /\ m = Len(pTry) - (IF pc.path[Len(pc.path)] \in TryBlocks THEN 1 ELSE 0)
    BY DEF Book
  <2>2. /\ aFuncCall \in Seq(Calls) /\ pc.path \in Seq(Blocks)
        /\ pExitMark \in Seq(Saved) /\ pTry \in Seq(Saved)
        /\ pc.path # <<>> /\ Frame(aFuncCall, Len(aFuncCall))
    BY <1>2, <1>3
  <2> HIDE DEF n, m, b
  <2> QED BY <2>1, <2>2, DataLeave
<1>5. SubSeq(pTry, 1, m) = pTry'
  <2>1. b \notin TryBlocks
    BY <1>3 DEF TryBlocks, IsLoop
  <2> QED BY <1>1, <1>2, <2>1, SubSeqFull
<1>6. /\ Live = n
      /\ pExitMark' = SubSeq(pExitMark, 1, n) /\ pLoopMark' = SubSeq(pLoopMark, 1, n)
  <2>1. CASE b.marked
    <3>1. b \in MarkedLoops
      BY <1>3, <2>1, BlockOfPath DEF MarkedLoops
    <3>2. /\ n = Len(pExitMark) - 1 /\ Len(pExitMark) # 0
          /\ pExitMark # <<>> /\ pLoopMark # <<>>
      BY <1>2, <1>4, <3>1, EmptySeq
    <3>3. Live = n
      BY <1>1, <1>3, <2>1, <3>2, BlockOfPath DEF Live
    <3>4. pExitMark' = Back(pExitMark, n) /\ pLoopMark' = Back(pLoopMark, n)
      BY <1>2, <1>3, <2>1, <3>2, BlockOfPath DEF LoopEnd, Pop
    <3> HIDE DEF n
    <3> QED BY <1>2, <1>4, <3>3, <3>4, BackIsPrefix
  <2>2. CASE ~b.marked
    <3>1. b \notin MarkedLoops
      BY <2>2 DEF MarkedLoops
    <3>2. n = Len(pExitMark)
      BY <1>2, <3>1
    <3>3. Live = n
      BY <1>2, <1>3, <2>2, <3>2, BlockOfPath DEF Live
    <3>4. pExitMark' = pExitMark /\ pLoopMark' = pLoopMark
      BY <1>3, <2>2, BlockOfPath DEF LoopEnd
    <3> QED BY <1>2, <3>2, <3>3, <3>4, SubSeqFull
  <2> QED BY <2>1, <2>2
<1>7. n \in Nat /\ n <= Len(pExitMark)
  BY <1>2, <1>4
<1> HIDE DEF n, m, b
<1>8. Data(aFuncCall', pc'.path, pExitMark', pTry')
  BY <1>1, <1>4, <1>5, <1>6
<1>9. CallsKnown(aFuncCall', pc')
  BY <1>1, LeaveKnown
<1>10. LoopsKnown'
  <2>1. /\ Len(pExitMark') = n
        /\ \A i \in 1..n : pExitMark'[i] = pExitMark[i] /\ pLoopMark'[i] = pLoopMark[i]
    BY <1>2, <1>6, <1>7, SubSeqProperties
  <2>2. Live' = n
    BY <1>1, <1>7, <2>1 DEF Live
  <2> QED BY <1>6, <2>1, <2>2 DEF Book, LoopsKnown
<1> QED BY <1>1, <1>8, <1>9, <1>10 DEF Book, ScopesCounted

-----------------------------------------------------------------------------
(* Entering a block. *)
LEMMA MarkEntries ==
    ASSUME Inv, NEW path \in Seq(Blocks) \ {<<>>}, NEW steps \in Seq(Steps \cup {0}),
           PushMarks(path, TRUE, steps)
    PROVE  \E e, l \in Saved :
               /\ pExitMark' = Append(pExitMark, e) /\ pLoopMark' = Append(pLoopMark, l)
               /\ SameMark(l, e) /\ e.path = path
               /\ e.state.nFuncCalls = Len(aFuncCall) /\ e.state.nScopes = nScopes
               /\ e.state.nTry = Len(pTry)
<1> DEFINE n == Len(pExitMark) + 1
           m == Len(pLoopMark) + 1
           exit == [VMState(n, m - 1, Len(pTry)) EXCEPT !.nForStep = Len(steps)]
           loop == [VMState(n, m, Len(pTry)) EXCEPT !.nForStep = Len(steps)]
           e == [path |-> path, state |-> exit]
           l == [path |-> path, state |-> loop]
<1>1. /\ n \in Nat /\ m \in Nat /\ m - 1 \in Nat
      /\ Len(pTry) \in Nat /\ Len(steps) \in Nat
  BY LenProperties, TypesOfLists
<1>2. VMState(n, m - 1, Len(pTry)) \in States /\ VMState(n, m, Len(pTry)) \in States
  BY <1>1, StateType
<1>3. exit \in States /\ loop \in States
  BY <1>1, <1>2 DEF States
<1>4. e \in Saved /\ l \in Saved
  BY <1>3 DEF Saved
<1>5. pExitMark' = Append(pExitMark, e) /\ pLoopMark' = Append(pLoopMark, l)
  BY DEF PushMarks
<1>6. /\ exit.nFuncCalls = Len(aFuncCall) /\ loop.nFuncCalls = Len(aFuncCall)
      /\ exit.nScopes = nScopes /\ loop.nScopes = nScopes
      /\ exit.nTry = Len(pTry) /\ loop.nTry = Len(pTry)
  BY DEF VMState
<1> HIDE DEF exit, loop
<1>7. SameMark(l, e) /\ e.path = path /\ e.state = exit
  BY <1>6 DEF SameMark
<1> HIDE DEF e, l
<1> QED BY <1>4, <1>5, <1>6, <1>7

(* What the calls say of the place in a new block. *)
LEMMA EnterKnown ==
    ASSUME Inv, Book, AtStatement, pc'.at \in {"body", "init", "next"}, AtLoop(pc'),
           UNCHANGED aFuncCall
    PROVE  CallsKnown(aFuncCall', pc')
<1>1. pc.at = "body"
  BY DEF AtStatement
<1>2. \A j \in 1..Len(aFuncCall) : aFuncCall[j].status # "call" /\ AtLoop(aFuncCall[j].caller)
  BY <1>1 DEF Book, CallsKnown
<1> QED BY <1>2 DEF CallsKnown

LEMMA EnterLoopBook ==
    ASSUME Inv, Book, AtStatement, NEW b \in Blocks, IsLoop(b), b.marked \in BOOLEAN,
           NEW path, path = Append(pc.path, b), NEW steps \in Seq(Steps \cup {0}),
           PushMarks(path, b.marked, steps), NEW at \in {"init", "next"}, pc' = Loc(path, at),
           UNCHANGED <<aFuncCall, nScopes, pTry>>
    PROVE  Book'
<1>1. /\ aFuncCall \in Seq(Calls) /\ pExitMark \in Seq(Saved) /\ pTry \in Seq(Saved)
      /\ pLoopMark \in Seq(Saved) /\ Len(pLoopMark) = Len(pExitMark)
      /\ Len(pExitMark) \in Nat /\ Len(pTry) \in Nat /\ pc.path \in Seq(Blocks)
      /\ pc.at = "body"
  BY TypesOfLists DEF AtStatement
<1>2. /\ path \in Seq(Blocks) \ {<<>>} /\ path[Len(path)] = b
  BY PathGrows DEF Last
<1>3. pc'.path = path /\ pc'.at = at
  BY DEF Loc
<1>4. CallsKnown(aFuncCall', pc')
  <2>1. AtLoop(pc')
    BY <1>2, <1>3 DEF AtLoop
  <2> QED BY <1>3, <2>1, EnterKnown
<1>5. Data(aFuncCall, pc.path, pExitMark, pTry) /\ ScopesCounted
  BY DEF Book
<1>6. b \notin TryBlocks
  BY DEF TryBlocks, IsLoop
<1>7. CASE b.marked
  <2>1. PICK e, l \in Saved :
            /\ pExitMark' = Append(pExitMark, e) /\ pLoopMark' = Append(pLoopMark, l)
            /\ SameMark(l, e) /\ e.path = path
            /\ e.state.nFuncCalls = Len(aFuncCall) /\ e.state.nScopes = nScopes
            /\ e.state.nTry = Len(pTry)
    BY <1>2, <1>7, MarkEntries
  <2>2. b \in MarkedLoops
    BY <1>7 DEF MarkedLoops
  <2>3. Frame(aFuncCall, Len(aFuncCall))
    BY <1>1, LastIsFrame DEF Book, AtStatement
  <2>4. e.state.nScopes = 1 + Started(aFuncCall, Len(aFuncCall))
    BY <1>5, <2>1 DEF ScopesCounted
  <2>5. Data(aFuncCall, Append(pc.path, b), Append(pExitMark, e), pTry)
    BY <1>1, <1>5, <2>1, <2>2, <2>3, <2>4, DataEnterLoop
  <2>6. Data(aFuncCall', pc'.path, pExitMark', pTry')
    BY <1>3, <2>1, <2>5
  <2>7. LoopsKnown'
    <3>1. /\ Len(pExitMark') = Len(pExitMark) + 1
          /\ \A i \in 1..Len(pExitMark) :
                 pExitMark'[i] = pExitMark[i] /\ pLoopMark'[i] = pLoopMark[i]
          /\ pExitMark'[Len(pExitMark) + 1] = e /\ pLoopMark'[Len(pExitMark) + 1] = l
      BY <1>1, <2>1, AppendProperties
    <3>2. Live = Len(pExitMark) /\ Live' = Len(pExitMark) + 1
      BY <1>1, <1>3, <3>1 DEF Live
    <3>3. \A i \in 1..Live' : i \in 1..Live \/ i = Len(pExitMark) + 1
      BY <1>1, <3>2
    <3> QED BY <2>1, <3>1, <3>2, <3>3 DEF Book, LoopsKnown
  <2> QED BY <1>4, <1>5, <2>6, <2>7 DEF Book, ScopesCounted
<1>8. CASE ~b.marked
  <2>1. UNCHANGED <<pExitMark, pLoopMark>> /\ b \notin MarkedLoops
    BY <1>8 DEF PushMarks, MarkedLoops
  <2>2. Data(aFuncCall, Append(pc.path, b), pExitMark, pTry)
    BY <1>1, <1>5, <1>6, <2>1, DataEnterPlain
  <2>3. Data(aFuncCall', pc'.path, pExitMark', pTry')
    BY <1>3, <2>1, <2>2
  <2>4. LoopsKnown'
    BY <1>1, <1>3, <2>1 DEF Book, LoopsKnown, Live
  <2> QED BY <1>4, <1>5, <2>3, <2>4 DEF Book, ScopesCounted
<1> QED BY <1>7, <1>8

LEMMA EnterForBook ==
    ASSUME Inv, Book, NEW marked \in MarkChoices, NEW step \in Steps, EnterFor(marked, step)
    PROVE  Book'
<1> DEFINE b == Block("for", marked, step)
           path == Append(pc.path, b)
<1>1. b \in Blocks /\ IsLoop(b) /\ b.marked = marked /\ marked \in BOOLEAN
  BY MarkChoice DEF Block, Blocks, LoopBlocks, IsLoop
<1>2. /\ AtStatement /\ PushMarks(path, b.marked, pForStep) /\ pc' = Loc(path, "init")
      /\ UNCHANGED <<aFuncCall, nScopes, pTry>>
  BY <1>1 DEF EnterFor
<1>3. pForStep \in Seq(Steps \cup {0})
  BY DEF Inv, Typed
<1> HIDE DEF b
<1> QED BY <1>1, <1>2, <1>3, EnterLoopBook

LEMMA EnterWhileBook ==
    ASSUME Inv, Book, NEW marked \in MarkChoices, EnterWhile(marked)
    PROVE  Book'
<1> DEFINE b == Block("while", marked, 0)
           path == Append(pc.path, b)
           steps == Append(pForStep, 0)
<1>1. b \in Blocks /\ IsLoop(b) /\ b.marked = marked /\ marked \in BOOLEAN
  BY MarkChoice DEF Block, Blocks, LoopBlocks, IsLoop
<1>2. /\ AtStatement /\ PushMarks(path, b.marked, steps) /\ pc' = Loc(path, "next")
      /\ UNCHANGED <<aFuncCall, nScopes, pTry>>
  BY <1>1 DEF EnterWhile
<1>3. steps \in Seq(Steps \cup {0})
  BY AppendProperties DEF Inv, Typed
<1> HIDE DEF b, steps
<1> QED BY <1>1, <1>2, <1>3, EnterLoopBook

LEMMA EnterTryBook == Inv /\ Book /\ EnterTry => Book'
<1> SUFFICES ASSUME Inv, Book, EnterTry PROVE Book'
  OBVIOUS
<1> DEFINE b == Block("try", FALSE, 0)
           path == Append(pc.path, b)
           saved == VMState(Len(pExitMark), Len(pLoopMark), Len(pTry) + 1)
           e == [path |-> path, state |-> saved]
<1>1. /\ aFuncCall \in Seq(Calls) /\ pExitMark \in Seq(Saved) /\ pTry \in Seq(Saved)
      /\ Len(pExitMark) \in Nat /\ Len(pTry) \in Nat /\ Len(pLoopMark) = Len(pExitMark)
      /\ pc.path \in Seq(Blocks) /\ pc.at = "body"
  BY TypesOfLists DEF EnterTry, AtStatement
<1>2. b \in TryBlocks /\ b \in Blocks
  BY DEF TryBlocks, Block, Blocks
<1>3. /\ AtStatement /\ pTry' = Append(pTry, e) /\ pc' = Loc(path, "body")
      /\ UNCHANGED <<aFuncCall, nScopes, pExitMark, pLoopMark>>
  BY DEF EnterTry, marks
<1>4. saved \in States
  BY <1>1, StateType
<1>5. /\ saved.nFuncCalls = Len(aFuncCall) /\ saved.nScopes = nScopes
      /\ saved.nExitMark = Len(pExitMark)
  BY DEF VMState
<1> HIDE DEF saved, b
<1>6. path \in Seq(Blocks) \ {<<>>}
  BY <1>2, PathGrows
<1>7. e \in Saved /\ e.path = path /\ e.state = saved
  BY <1>4, <1>6 DEF Saved
<1> HIDE DEF e
<1>8. Frame(aFuncCall, Len(aFuncCall))
  BY <1>1, <1>3, LastIsFrame DEF Book, AtStatement
<1>9. /\ Data(aFuncCall, pc.path, pExitMark, pTry)
      /\ e.state.nScopes = 1 + Started(aFuncCall, Len(aFuncCall))
  BY <1>5, <1>7 DEF Book, ScopesCounted
<1>10. Data(aFuncCall, path, pExitMark, Append(pTry, e))
  BY <1>1, <1>2, <1>5, <1>7, <1>8, <1>9, DataEnterTry
<1>11. pc'.path = path /\ pc'.at = "body"
  BY <1>3 DEF Loc
<1>12. Data(aFuncCall', pc'.path, pExitMark', pTry')
  BY <1>3, <1>10, <1>11
<1>13. CallsKnown(aFuncCall', pc')
  <2>1. AtLoop(pc')
    BY <1>11 DEF AtLoop
  <2> QED BY <1>3, <1>11, <2>1, EnterKnown
<1>14. LoopsKnown'
  BY <1>1, <1>3, <1>11 DEF Book, LoopsKnown, Live
<1> QED BY <1>3, <1>12, <1>13, <1>14 DEF Book, ScopesCounted

-----------------------------------------------------------------------------
(* Calls and returns. *)

(* The last call, and the calls before it. *)
LEMMA FrontOfCalls ==
    ASSUME NEW calls \in Seq(Calls), calls # <<>>, NEW c, c = Len(calls) - 1
    PROVE  /\ c \in Nat /\ c \in 0..Len(calls) /\ Len(calls) = c + 1 /\ Len(calls) \in 1..Len(calls)
           /\ Front(calls) = SubSeq(calls, 1, c) /\ Last(calls) = calls[Len(calls)]
           /\ calls[Len(calls)] \in Calls
           /\ \A path : Place(calls, path, c) = calls[Len(calls)].caller.path
<1>1. /\ c \in Nat /\ c \in 0..Len(calls) /\ Len(calls) = c + 1 /\ Len(calls) \in 1..Len(calls)
  BY LenProperties, EmptySeq
<1>2. Front(calls) = SubSeq(calls, 1, c) /\ Last(calls) = calls[Len(calls)]
  BY DEF Front, Last
<1>3. calls[Len(calls)] \in Calls
  BY <1>1, ElementOfSeq
<1>4. \A path : Place(calls, path, c) = calls[Len(calls)].caller.path
  BY <1>1 DEF Place
<1> QED BY <1>1, <1>2, <1>3, <1>4

LEMMA CallFields ==
    ASSUME NEW call \in Calls
    PROVE  /\ call.caller \in Locs /\ call.caller.at \in {"body", "init", "next"}
           /\ call.caller.path \in Seq(Blocks) /\ Len(call.caller.path) \in Nat
           /\ call.nExitMark \in Nat /\ call.nTry \in Nat /\ call.lSave \in BOOLEAN
           /\ call.nSP \in Int
<1>1. call.caller \in CallSites
  BY DEF Calls
<1>2. call.caller \in Locs /\ call.caller.at \in {"body", "init", "next"}
  BY <1>1 DEF CallSites
<1>3. call.caller.path \in Seq(Blocks)
  BY <1>2 DEF Locs
<1> QED BY <1>2, <1>3, LenProperties DEF Calls

(* Entries made before a call are at points of its callers. *)
LEMMA CutOfFunction ==
    ASSUME NEW calls \in Seq(Calls), calls # <<>>, NEW path \in Seq(Blocks),
           NEW list \in Seq(Saved), NEW B,
           Matches(calls, path, list, B), ScopesKnown(calls, list),
           NEW n, CutAt(list, n, Len(calls), 0),
           NEW c, c = Len(calls) - 1, NEW p, p = calls[Len(calls)].caller.path
    PROVE  CutAt(list, n, c, Len(p) + 1)
<1>1. c \in Nat /\ Len(calls) = c + 1 /\ Place(calls, path, c) = p
  BY FrontOfCalls
<1>2. Len(p) \in Nat
  BY FrontOfCalls, CallFields
<1>3. ASSUME NEW i \in 1..Len(list)
      PROVE  Before(list[i], Len(calls), 0) <=> Before(list[i], c, Len(p) + 1)
  <2> DEFINE k == list[i].state.nFuncCalls
             f == Len(list[i].path)
  <2>1. k \in Nat /\ f \in Nat /\ (k = c => f <= Len(p))
    BY <1>1, PointIsOpen
  <2>2. /\ Before(list[i], Len(calls), 0) <=> k < Len(calls) \/ (k = Len(calls) /\ f < 0)
        /\ Before(list[i], c, Len(p) + 1) <=> k < c \/ (k = c /\ f < Len(p) + 1)
    BY DEF Before
  <2> HIDE DEF k, f
  <2> QED BY <1>1, <1>2, <2>1, <2>2
<1> QED BY <1>3 DEF CutAt

LEMMA DataReturn ==
    ASSUME NEW calls \in Seq(Calls), calls # <<>>, NEW path \in Seq(Blocks),
           NEW exits \in Seq(Saved), NEW tries \in Seq(Saved), Data(calls, path, exits, tries),
           NEW n, CutAt(exits, n, Len(calls), 0), NEW m, CutAt(tries, m, Len(calls), 0)
    PROVE  Data(Front(calls), Last(calls).caller.path,
                SubSeq(exits, 1, n), SubSeq(tries, 1, m))
<1> DEFINE c == Len(calls) - 1
           p == calls[Len(calls)].caller.path
           d == Len(p) + 1
<1>1. /\ c \in 0..Len(calls) /\ Place(calls, path, c) = p
      /\ Front(calls) = SubSeq(calls, 1, c) /\ Last(calls) = calls[Len(calls)]
  BY FrontOfCalls
<1>2. p \in Seq(Blocks) /\ Len(p) \in Nat
  BY FrontOfCalls, CallFields
<1>3. CutAt(exits, n, c, d) /\ CutAt(tries, m, c, d)
  BY CutOfFunction DEF Data
<1>4. d \in Nat \ {0} /\ d - 1 <= Len(p) /\ \A i \in d..Len(p) : FALSE
  BY <1>2
<1> HIDE DEF c, p, d
<1>5. Data(SubSeq(calls, 1, c), p, SubSeq(exits, 1, n), SubSeq(tries, 1, m))
  BY <1>1, <1>2, <1>3, <1>4, DataCut
<1> QED BY <1>1, <1>5 DEF p

(* The machine after a call is left, whatever removed it. *)
LEMMA ReturnBook ==
    ASSUME Inv, Book, aFuncCall # <<>>, pc.at # "end", pc.at # "newfunc",
           NEW n, CutAt(pExitMark, n, Len(aFuncCall), 0),
           NEW m, CutAt(pTry, m, Len(aFuncCall), 0),
           pExitMark' = SubSeq(pExitMark, 1, n), pLoopMark' = SubSeq(pLoopMark, 1, n),
           pTry' = SubSeq(pTry, 1, m), aFuncCall' = Front(aFuncCall),
           pc' = [Last(aFuncCall).caller EXCEPT !.ops = @ + 1],
           nScopes' = nScopes - (IF Last(aFuncCall).status = "started" THEN 1 ELSE 0)
    PROVE  Book'
<1> DEFINE c == Len(aFuncCall) - 1
           call == aFuncCall[Len(aFuncCall)]
<1>1. /\ aFuncCall \in Seq(Calls) /\ pExitMark \in Seq(Saved) /\ pTry \in Seq(Saved)
      /\ pLoopMark \in Seq(Saved) /\ Len(pLoopMark) = Len(pExitMark)
      /\ Len(pExitMark) \in Nat /\ Len(pTry) \in Nat /\ pc.path \in Seq(Blocks)
      /\ nScopes \in Int
  BY TypesOfLists
<1>2. /\ c \in Nat /\ c \in 0..Len(aFuncCall) /\ Len(aFuncCall) = c + 1
      /\ Len(aFuncCall) \in 1..Len(aFuncCall)
      /\ aFuncCall' = SubSeq(aFuncCall, 1, c) /\ Last(aFuncCall) = call /\ call \in Calls
  BY <1>1, FrontOfCalls
<1>3. Data(aFuncCall', pc'.path, pExitMark', pTry')
  <2>1. pc'.path = Last(aFuncCall).caller.path
    BY <1>2, CallFields DEF Locs
  <2>2. Data(Front(aFuncCall), Last(aFuncCall).caller.path,
             SubSeq(pExitMark, 1, n), SubSeq(pTry, 1, m))
    BY <1>1, DataReturn DEF Book
  <2> QED BY <2>1, <2>2
<1>4. pc'.at = call.caller.at /\ pc'.path = call.caller.path
  BY <1>2, CallFields DEF Locs
<1>5. pc'.at \in {"body", "init", "next"}
  BY <1>2, <1>4, CallFields
<1>6. CallsKnown(aFuncCall', pc')
  <2>1. AtLoop(pc')
    <3>1. AtLoop(call.caller)
      BY <1>2 DEF Book, CallsKnown
    <3> QED BY <1>4, <3>1 DEF AtLoop
  <2>2. c < Len(aFuncCall) /\ CallsKnown(aFuncCall, pc)
    BY <1>2 DEF Book
  <2> HIDE DEF c
  <2> QED BY <1>1, <1>2, <1>5, <2>1, <2>2, CallsCutKnown
<1>7. LoopsKnown'
  <2>1. n \in 0..Len(pExitMark) /\ n \in Nat
    BY <1>1 DEF CutAt
  <2>2. /\ Len(pExitMark') = n
        /\ \A i \in 1..n : pExitMark'[i] = pExitMark[i] /\ pLoopMark'[i] = pLoopMark[i]
    BY <1>1, <2>1, SubSeqProperties
  <2>3. Live = Len(pExitMark) /\ Live' = n
    BY <1>1, <1>5, <2>1, <2>2 DEF Live
  <2>4. \A i \in 1..n : i \in 1..Live
    BY <1>1, <2>1, <2>3
  <2> QED BY <2>2, <2>3, <2>4 DEF Book, LoopsKnown
<1>8. ScopesCounted'
  <2>1. /\ nScopes = 1 + Started(aFuncCall, c + 1)
        /\ Started(aFuncCall, c + 1) = IF call.status = "started" THEN Started(aFuncCall, c) + 1
                                                                 ELSE Started(aFuncCall, c)
    BY <1>2, StartedNext DEF Book, ScopesCounted
  <2>2. Started(aFuncCall, c) \in Nat
    BY <1>2, StartedNat
  <2>3. Len(aFuncCall') = c /\ Started(aFuncCall', c) = Started(aFuncCall, c)
    <3>1. c \in 0..c
      BY <1>2
    <3> HIDE DEF c
    <3>2. Len(SubSeq(aFuncCall, 1, c)) = c
      BY <1>1, <1>2, CallsCut
    <3>3. Started(SubSeq(aFuncCall, 1, c), c) = Started(aFuncCall, c)
      BY <1>1, <1>2, <3>1, FrameCut
    <3> QED BY <1>2, <3>2, <3>3
  <2>4. nScopes' = nScopes - (IF call.status = "started" THEN 1 ELSE 0)
    BY <1>2
  <2> HIDE DEF call, c
  <2> QED BY <1>1, <2>1, <2>2, <2>3, <2>4 DEF ScopesCounted
<1> QED BY <1>3, <1>6, <1>7, <1>8 DEF Book

LEMMA StatementCall ==
    ASSUME Inv, Book, AtStatement, aFuncCall # <<>>
    PROVE  aFuncCall[Len(aFuncCall)].status = "started"
<1>1. pc.at = "body" /\ ~Loaded
  BY DEF AtStatement
<1>2. Frame(aFuncCall, Len(aFuncCall))
  BY <1>1, LastIsFrame DEF Book
<1>3. Len(aFuncCall) # 0
  BY TypesOfLists, EmptySeq
<1> QED BY <1>2, <1>3 DEF Frame

(* A plain return outside every try block leaves none in pTry. *)
LEMMA NoTryHere ==
    ASSUME Inv, Book, \A i \in 1..Len(pc.path) : pc.path[i].kind # "try"
    PROVE  CutAt(pTry, Len(pTry), Len(aFuncCall), 0)
<1>1. /\ aFuncCall \in Seq(Calls) /\ pTry \in Seq(Saved) /\ pc.path \in Seq(Blocks)
      /\ Len(pTry) \in Nat /\ Len(aFuncCall) \in Nat
  BY TypesOfLists
<1>2. ASSUME NEW i \in 1..Len(pTry) PROVE Before(pTry[i], Len(aFuncCall), 0)
  <2> DEFINE e == pTry[i]
             k == e.state.nFuncCalls
  <2>1. Matches(aFuncCall, pc.path, pTry, TryBlocks) /\ ScopesKnown(aFuncCall, pTry)
    BY DEF Book, Data
  <2>2. /\ k \in 0..Len(aFuncCall) /\ Len(e.path) \in Nat \ {0}
        /\ Len(e.path) <= Len(Place(aFuncCall, pc.path, k))
        /\ e.path[Len(e.path)] = Place(aFuncCall, pc.path, k)[Len(e.path)]
        /\ e.path[Len(e.path)] \in TryBlocks
    <3> DEFINE list == pTry
               calls == aFuncCall
    <3>1. /\ list \in Seq(Saved) /\ calls \in Seq(Calls) /\ i \in 1..Len(list)
          /\ Matches(calls, pc.path, list, TryBlocks) /\ ScopesKnown(calls, list)
          /\ k = list[i].state.nFuncCalls
      BY <1>1, <2>1
    <3> HIDE DEF k, list, calls
    <3>2. /\ k \in 0..Len(calls) /\ Len(list[i].path) \in Nat \ {0}
          /\ Len(list[i].path) <= Len(Place(calls, pc.path, k))
          /\ \A d \in 1..Len(list[i].path) : list[i].path[d] = Place(calls, pc.path, k)[d]
          /\ list[i].path[Len(list[i].path)] \in TryBlocks
      BY <1>1, <3>1, PointIsOpen
    <3>3. Len(list[i].path) \in 1..Len(list[i].path)
      BY <3>2
    <3> QED BY <3>2, <3>3 DEF list, calls
  <2>3. k # Len(aFuncCall)
    <3> SUFFICES ASSUME k = Len(aFuncCall) PROVE FALSE
      OBVIOUS
    <3>1. Place(aFuncCall, pc.path, k) = pc.path
      BY <1>1 DEF Place
    <3>2. Len(e.path) \in 1..Len(pc.path)
      BY <1>1, <2>2, <3>1, LenProperties
    <3> QED BY <2>2, <3>1, <3>2 DEF TryBlocks
  <2>4. k < Len(aFuncCall)
    BY <1>1, <2>2, <2>3
  <2> QED BY <2>4 DEF Before
<1> QED BY <1>1, <1>2 DEF CutAt

LEMMA ReturnActionBook ==
    ASSUME "return_in_try" \notin Programs, Inv, Book, Return PROVE Book'
<1> DEFINE call == aFuncCall[Len(aFuncCall)]
           n == call.nExitMark
           m == IF call.lSave THEN call.nTry ELSE Len(pTry)
<1>1. /\ aFuncCall \in Seq(Calls) /\ pExitMark \in Seq(Saved) /\ pTry \in Seq(Saved)
      /\ pLoopMark \in Seq(Saved) /\ Len(pLoopMark) = Len(pExitMark)
      /\ Len(pExitMark) \in Nat /\ Len(pTry) \in Nat /\ pc.path \in Seq(Blocks)
  BY TypesOfLists
<1>2. /\ AtStatement /\ aFuncCall # <<>> /\ pc.at = "body"
      /\ call.lSave \/ \A i \in 1..Len(pc.path) : pc.path[i].kind # "try"
      /\ pc' = [Last(aFuncCall).caller EXCEPT !.ops = @ + 1]
      /\ nScopes' = nScopes - 1 /\ aFuncCall' = Front(aFuncCall)
  BY DEF Return, AtStatement, ScopesAfterReturn, Last
<1>3. /\ Len(aFuncCall) \in 1..Len(aFuncCall) /\ call \in Calls /\ Last(aFuncCall) = call
      /\ call.status = "started" /\ call.nLoopMark = call.nExitMark
  <2>1. Last(aFuncCall) \in PairedCalls
    BY <1>2, LastCall
  <2> QED BY <1>1, <1>2, <2>1, FrontOfCalls, StatementCall DEF PairedCalls
<1>4. /\ CutAt(pExitMark, n, Len(aFuncCall), 0)
      /\ call.lSave => CutAt(pTry, call.nTry, Len(aFuncCall), 0)
  BY <1>3 DEF Book, Data, SizesOfCalls
<1>5. CutAt(pTry, m, Len(aFuncCall), 0)
  <2>1. CASE call.lSave
    BY <1>4, <2>1
  <2>2. CASE ~call.lSave
    BY <1>2, <2>2, NoTryHere
  <2> QED BY <2>1, <2>2
<1>6. n \in 0..Len(pExitMark) /\ m \in 0..Len(pTry)
  BY <1>4, <1>5 DEF CutAt
<1>7. /\ pExitMark' = SubSeq(pExitMark, 1, n) /\ pLoopMark' = SubSeq(pLoopMark, 1, n)
  <2>1. pExitMark' = Back(pExitMark, n) /\ pLoopMark' = Back(pLoopMark, n)
    BY <1>3 DEF Return
  <2> HIDE DEF n
  <2> QED BY <1>1, <1>6, <2>1, BackIsPrefix
<1>8. pTry' = SubSeq(pTry, 1, m)
  <2>1. CASE call.lSave
    <3>1. pTry' = Back(pTry, m) /\ m \in 0..Len(pTry)
      BY <1>3, <1>6, <2>1 DEF Return
    <3> HIDE DEF m
    <3> QED BY <1>1, <3>1, BackIsPrefix
  <2>2. CASE ~call.lSave
    <3>1. pTry' = pTry /\ m = Len(pTry)
      BY <1>3, <2>2 DEF Return
    <3> QED BY <1>1, <3>1, SubSeqFull
  <2> QED BY <2>1, <2>2
<1>9. nScopes' = nScopes - (IF Last(aFuncCall).status = "started" THEN 1 ELSE 0)
  BY <1>2, <1>3
<1> HIDE DEF n, m
<1> QED BY <1>2, <1>4, <1>5, <1>7, <1>8, <1>9, ReturnBook

LEMMA LoadedCall ==
    ASSUME Inv, Loaded
    PROVE  /\ aFuncCall # <<>> /\ aFuncCall[Len(aFuncCall)].status = "load"
           /\ Last(aFuncCall) = aFuncCall[Len(aFuncCall)]
BY DEF Loaded, Last

LEMMA CallCBook == Inv /\ Book /\ CallC => Book'
<1> SUFFICES ASSUME Inv, Book, CallC PROVE Book'
  OBVIOUS
<1> DEFINE n == Len(pExitMark)
           m == Len(pTry)
<1>1. /\ aFuncCall \in Seq(Calls) /\ pExitMark \in Seq(Saved) /\ pTry \in Seq(Saved)
      /\ pLoopMark \in Seq(Saved) /\ Len(pLoopMark) = Len(pExitMark)
      /\ pc.path \in Seq(Blocks) /\ nScopes \in Int
  BY TypesOfLists
<1>2. /\ Loaded /\ pc.at \in {"body", "init", "next"}
      /\ pc' = [Last(aFuncCall).caller EXCEPT !.ops = @ + 1]
      /\ aFuncCall' = Front(aFuncCall)
      /\ UNCHANGED <<nScopes, pExitMark, pLoopMark, pTry>>
  BY DEF CallC, InExpr, marks
<1>3. aFuncCall # <<>> /\ aFuncCall[Len(aFuncCall)].status = "load"
      /\ Last(aFuncCall) = aFuncCall[Len(aFuncCall)]
  BY <1>2, LoadedCall
<1>4. CutAt(pExitMark, n, Len(aFuncCall), 0) /\ CutAt(pTry, m, Len(aFuncCall), 0)
  BY <1>1, <1>3, WholeListBefore DEF Book, Data
<1>5. /\ pExitMark' = SubSeq(pExitMark, 1, n) /\ pLoopMark' = SubSeq(pLoopMark, 1, n)
      /\ pTry' = SubSeq(pTry, 1, m)
  BY <1>1, <1>2, SubSeqFull
<1>6. nScopes' = nScopes - (IF Last(aFuncCall).status = "started" THEN 1 ELSE 0)
  BY <1>1, <1>2, <1>3
<1> HIDE DEF n, m
<1> QED BY <1>2, <1>3, <1>4, <1>5, <1>6, ReturnBook

LEMMA CallCRaiseBook == Inv /\ Book /\ CallCRaise => Book'
<1> SUFFICES ASSUME Inv, Book, CallCRaise PROVE Book'
  OBVIOUS
<1>1. CASE ~Handled(Len(pTry), nScopes)
  BY <1>1, UncaughtBook DEF CallCRaise
<1>2. CASE Handled(Len(pTry), nScopes)
  <2>1. Len(pTry) \in 1..Len(pTry)
    BY <1>2, TypesOfLists DEF Handled
  <2>2. pTry[Len(pTry)].state.nLoopMark = pTry[Len(pTry)].state.nExitMark
    <3>1. pTry[Len(pTry)] \in PairedSaved
      BY <2>1, ElementOfSeq DEF Inv, Typed
    <3> QED BY <3>1 DEF PairedSaved
  <2>3. Unwind(Len(pTry), pTry[Len(pTry)].state, aFuncCall)
    BY <1>2 DEF CallCRaise, Last
  <2> QED BY <2>1, <2>2, <2>3, UnwindBook
<1> QED BY <1>1, <1>2

LEMMA LoadFuncBook ==
    ASSUME NEW type \in {"script", "c"}, Inv, Book, LoadFunc(type) PROVE Book'
<1>1. CASE Len(aFuncCall) > MaxCalls /\ ErrorNow
  BY <1>1, ErrorNowBook
<1>2. CASE ~(Len(aFuncCall) > MaxCalls /\ ErrorNow)
  <2> DEFINE call == [type |-> type, status |-> "load", caller |-> pc, nSP |-> nSP,
                      nForStep |-> 0, nExitMark |-> 0, nLoopMark |-> 0,
                      lSave |-> FALSE, nTry |-> 0]
  <2>1. /\ call \in Calls /\ call.status = "load" /\ call.caller = pc
    BY InExprCallSite DEF LoadFunc, Calls, Inv, Typed
  <2>2. /\ aFuncCall' = Append(aFuncCall, call) /\ pc.at \in {"body", "init", "next"}
        /\ UNCHANGED <<pc, nScopes, pExitMark, pLoopMark, pTry>>
    BY <1>2 DEF LoadFunc, InExpr, marks
  <2>3. /\ aFuncCall \in Seq(Calls) /\ pExitMark \in Seq(Saved) /\ pTry \in Seq(Saved)
        /\ Len(aFuncCall) \in Nat
    BY TypesOfLists
  <2> HIDE DEF call
  <2>4. Data(aFuncCall', pc'.path, pExitMark', pTry')
    BY <2>1, <2>2, <2>3, DataLoad DEF Book
  <2>5. /\ Len(aFuncCall') = Len(aFuncCall) + 1
        /\ \A i \in 1..Len(aFuncCall) : aFuncCall'[i] = aFuncCall[i]
        /\ aFuncCall'[Len(aFuncCall) + 1] = call
    BY <2>1, <2>2, <2>3, AppendProperties
  <2>6. \A i \in 1..Len(aFuncCall') : i \in 1..Len(aFuncCall) \/ i = Len(aFuncCall) + 1
    BY <2>3, <2>5
  <2>7. CallsKnown(aFuncCall', pc')
    <3>1. /\ \A j \in 1..Len(aFuncCall) : /\ aFuncCall[j].status # "call"
                                          /\ AtLoop(aFuncCall[j].caller)
          /\ AtLoop(pc)
      BY <2>2 DEF Book, CallsKnown
    <3>2. \A j \in 1..Len(aFuncCall') :
              aFuncCall'[j].status # "call" /\ AtLoop(aFuncCall'[j].caller)
      BY <2>1, <2>5, <2>6, <3>1
    <3> QED BY <2>2, <3>1, <3>2 DEF CallsKnown
  <2>8. ScopesCounted'
    <3>1. Started(aFuncCall', Len(aFuncCall) + 1) = Started(aFuncCall', Len(aFuncCall))
      BY <2>1, <2>3, <2>5, StartedNext
    <3>2. Started(aFuncCall', Len(aFuncCall)) = Started(aFuncCall, Len(aFuncCall))
      BY <2>3, <2>5, StartedAgrees
    <3> QED BY <2>2, <2>5, <3>1, <3>2 DEF Book, ScopesCounted
  <2> QED BY <2>2, <2>4, <2>7, <2>8 DEF Book, LoopsKnown, Live
<1> QED BY <1>1, <1>2

(* The last call is called or starts: what the machine then knows. *)
LEMMA RecallBook ==
    ASSUME Inv, Book, aFuncCall # <<>>, pc.at # "end",
           NEW call \in Calls, aFuncCall' = Append(Front(aFuncCall), call),
           call.caller = aFuncCall[Len(aFuncCall)].caller, pc'.path = <<>>,
           \/ pc.at # "newfunc" /\ call.status = "call" /\ pc'.at = "newfunc"
           \/ pc.at = "newfunc" /\ call.status = "started" /\ pc'.at = "body",
           aFuncCall[Len(aFuncCall)].status # "started",
           nScopes' = nScopes + (IF call.status = "started" THEN 1 ELSE 0),
           Data(aFuncCall', <<>>, pExitMark, pTry), UNCHANGED <<pExitMark, pLoopMark, pTry>>
    PROVE  Book'
<1> DEFINE c == Len(aFuncCall) - 1
<1>1. /\ aFuncCall \in Seq(Calls) /\ nScopes \in Int
  BY TypesOfLists
<1>2. /\ Len(aFuncCall') = Len(aFuncCall) /\ Len(aFuncCall) \in Nat \ {0}
      /\ \A i \in 1..(Len(aFuncCall) - 1) : aFuncCall'[i] = aFuncCall[i]
      /\ aFuncCall'[Len(aFuncCall)] = call
  BY <1>1, ReplaceLast
<1>3. \A j \in 1..Len(aFuncCall') :
          \/ j = Len(aFuncCall)
          \/ /\ j \in 1..(Len(aFuncCall) - 1) /\ j \in 1..Len(aFuncCall) /\ j # Len(aFuncCall)
  BY <1>2
<1>4. CallsKnown(aFuncCall', pc')
  <2>1. /\ \A j \in 1..Len(aFuncCall) : AtLoop(aFuncCall[j].caller)
        /\ \A j \in 1..Len(aFuncCall) : j # Len(aFuncCall) => aFuncCall[j].status # "call"
        /\ Len(aFuncCall) \in 1..Len(aFuncCall)
    BY <1>2 DEF Book, CallsKnown
  <2>2. \A j \in 1..Len(aFuncCall') : AtLoop(aFuncCall'[j].caller)
    BY <1>2, <1>3, <2>1
  <2>3. \A j \in 1..Len(aFuncCall') : aFuncCall'[j].status = "call" =>
            j = Len(aFuncCall') /\ pc'.at = "newfunc"
    BY <1>2, <1>3, <2>1
  <2>4. AtLoop(pc') /\ pc'.at \notin {"end", "optional"}
    BY DEF AtLoop
  <2>5. pc'.at = "newfunc" => /\ aFuncCall' # <<>> /\ pc'.path = <<>>
                              /\ aFuncCall'[Len(aFuncCall')].status = "call"
    <3>1. aFuncCall' # <<>>
      BY <1>1, AppendProperties, FrontLast
    <3> QED BY <1>2, <3>1
  <2> QED BY <2>2, <2>3, <2>4, <2>5 DEF CallsKnown
<1>5. LoopsKnown'
  BY DEF Book, LoopsKnown, Live
<1>6. ScopesCounted'
  <2>1. c \in Nat /\ Len(aFuncCall) = c + 1
    BY <1>2
  <2>2. \A i \in 1..c : aFuncCall'[i] = aFuncCall[i]
    BY <1>2
  <2>3. aFuncCall'[c + 1] = call /\ aFuncCall[c + 1].status # "started"
    BY <1>2, <2>1
  <2>4. nScopes = 1 + Started(aFuncCall, c + 1)
    BY <2>1 DEF Book, ScopesCounted
  <2> HIDE DEF c
  <2>5. Started(aFuncCall', c) = Started(aFuncCall, c) /\ Started(aFuncCall, c) \in Nat
    BY <2>1, <2>2, StartedAgrees, StartedNat
  <2>6. /\ Started(aFuncCall, c + 1) = Started(aFuncCall, c)
        /\ Started(aFuncCall', c + 1) = IF call.status = "started" THEN Started(aFuncCall', c) + 1
                                                                  ELSE Started(aFuncCall', c)
    BY <2>1, <2>3, StartedNext
  <2>7. nScopes' = 1 + Started(aFuncCall', c + 1)
    BY <1>1, <2>4, <2>5, <2>6
  <2> QED BY <1>2, <2>1, <2>7 DEF ScopesCounted
<1> QED BY <1>4, <1>5, <1>6 DEF Book

LEMMA CallScriptBook ==
    ASSUME NEW lSave \in BOOLEAN, Inv, Book, CallScript(lSave) PROVE Book'
<1> DEFINE call == [Last(aFuncCall) EXCEPT
                !.status = "call", !.nForStep = Len(pForStep),
                !.nExitMark = Len(pExitMark), !.nLoopMark = Len(pLoopMark),
                !.lSave = lSave, !.nTry = IF lSave THEN Len(pTry) ELSE 0]
<1>1. /\ aFuncCall \in Seq(Calls) /\ pExitMark \in Seq(Saved) /\ pTry \in Seq(Saved)
      /\ Len(pExitMark) \in Nat /\ Len(pLoopMark) = Len(pExitMark) /\ Len(pTry) \in Nat
      /\ Len(pForStep) \in Nat /\ nScopes \in Int
  BY TypesOfLists, LenProperties DEF Inv, Typed
<1>2. /\ Loaded /\ pc.at \in {"body", "init", "next"} /\ pc' = Loc(<<>>, "newfunc")
      /\ aFuncCall' = Append(Front(aFuncCall), call)
      /\ UNCHANGED <<nScopes, pExitMark, pLoopMark, pTry>>
  BY DEF CallScript, InExpr, marks
<1>3. /\ aFuncCall # <<>> /\ aFuncCall[Len(aFuncCall)].status = "load"
      /\ Last(aFuncCall) = aFuncCall[Len(aFuncCall)] /\ Last(aFuncCall) \in Calls
  BY <1>2, LoadedCall, LastCall
<1>4. /\ call \in Calls /\ call.status = "call" /\ call.caller = aFuncCall[Len(aFuncCall)].caller
      /\ call.nExitMark = Len(pExitMark) /\ call.lSave = lSave
      /\ call.nTry = IF lSave THEN Len(pTry) ELSE 0
  BY <1>1, <1>3 DEF Calls
<1> HIDE DEF call
<1>5. Data(aFuncCall', <<>>, pExitMark, pTry)
  <2>1. Data(aFuncCall, pc.path, pExitMark, pTry) /\ (call.lSave => call.nTry = Len(pTry))
    BY <1>4 DEF Book
  <2> QED BY <1>1, <1>2, <1>3, <1>4, <2>1, DataCall
<1>6. /\ pc'.path = <<>> /\ pc'.at = "newfunc" /\ pc.at # "newfunc" /\ pc.at # "end"
      /\ nScopes' = nScopes + (IF call.status = "started" THEN 1 ELSE 0)
      /\ aFuncCall[Len(aFuncCall)].status # "started"
  BY <1>1, <1>2, <1>3, <1>4 DEF Loc
<1> QED BY <1>2, <1>3, <1>4, <1>5, <1>6, RecallBook

LEMMA NewFuncBook == Inv /\ Book /\ NewFunc => Book'
<1> SUFFICES ASSUME Inv, Book, NewFunc PROVE Book'
  OBVIOUS
<1>1. /\ aFuncCall # <<>> /\ aFuncCall[Len(aFuncCall)].status = "call"
      /\ pc.path = <<>> /\ pc.at = "newfunc"
  BY DEF NewFunc, Book, CallsKnown
<1>2. CASE CallsFull /\ ErrorNow
  BY <1>2, ErrorNowBook
<1>3. CASE ~CallsFull /\ Error(nScopes + 1, Front(aFuncCall))
  BY <1>1, <1>3, ErrorBook
<1>4. CASE ~(CallsFull /\ ErrorNow) /\ ~(~CallsFull /\ Error(nScopes + 1, Front(aFuncCall)))
  <2> DEFINE call == [Last(aFuncCall) EXCEPT !.status = "started"]
  <2>1. /\ aFuncCall' = Append(Front(aFuncCall), call) /\ nScopes' = nScopes + 1
        /\ pc' = [pc EXCEPT !.at = "body"]
        /\ UNCHANGED <<pExitMark, pLoopMark, pTry>>
    BY <1>4 DEF NewFunc, marks
  <2>2. /\ aFuncCall \in Seq(Calls) /\ pExitMark \in Seq(Saved) /\ pTry \in Seq(Saved)
        /\ pc \in Locs
    BY TypesOfLists
  <2>3. Last(aFuncCall) \in Calls /\ Last(aFuncCall) = aFuncCall[Len(aFuncCall)]
    BY <1>1, LastCall DEF Last
  <2>4. /\ call \in Calls /\ call.status = "started"
        /\ call.caller = aFuncCall[Len(aFuncCall)].caller
        /\ call.nExitMark = aFuncCall[Len(aFuncCall)].nExitMark
        /\ call.lSave = aFuncCall[Len(aFuncCall)].lSave
        /\ call.nTry = aFuncCall[Len(aFuncCall)].nTry
    BY <2>3 DEF Calls
  <2> HIDE DEF call
  <2>5. Data(aFuncCall', <<>>, pExitMark, pTry)
    BY <1>1, <2>1, <2>2, <2>4, DataStart DEF Book
  <2>6. /\ pc'.path = <<>> /\ pc'.at = "body" /\ pc.at # "end"
        /\ nScopes' = nScopes + (IF call.status = "started" THEN 1 ELSE 0)
        /\ aFuncCall[Len(aFuncCall)].status # "started"
    BY <1>1, <2>1, <2>2, <2>4 DEF Locs
  <2> QED BY <1>1, <2>1, <2>4, <2>5, <2>6, RecallBook
<1> QED BY <1>2, <1>3, <1>4
-----------------------------------------------------------------------------
(* Two errors of one instruction: the outer entry saved the smaller sizes. *)
LEMMA BothIsOuter ==
    ASSUME NEW s \in States, NEW t \in States, t.nFuncCalls <= s.nFuncCalls,
           t.nExitMark <= s.nExitMark, t.nLoopMark <= s.nLoopMark
    PROVE  /\ Both(s, t).nFuncCalls = t.nFuncCalls
           /\ Both(s, t).nExitMark = t.nExitMark /\ Both(s, t).nLoopMark = t.nLoopMark
<1> DEFINE f == [x \in DOMAIN s |-> IF s[x] < t[x] THEN s[x] ELSE t[x]]
<1>1. DOMAIN s = {"nScopes", "nFuncCalls", "nSP", "nFuncSP",
                  "nExitMark", "nLoopMark", "nTry", "nForStep"}
  BY DEF States
<1>2. /\ f["nFuncCalls"] = t["nFuncCalls"] /\ f["nExitMark"] = t["nExitMark"]
      /\ f["nLoopMark"] = t["nLoopMark"]
  BY <1>1 DEF States
<1>3. Both(s, t) = f
  BY DEF Both
<1> QED BY <1>2, <1>3

LEMMA ExitNonNumberBook == Inv /\ Book /\ ExitNonNumber => Book'
<1> SUFFICES ASSUME Inv, Book, ExitNonNumber PROVE Book'
  OBVIOUS
<1> DEFINE h == Len(pTry)
           g == h - 1
           s == pTry[h].state
           t == pTry[g].state
<1>1. CASE Uncaught
  BY <1>1, UncaughtBook
<1>2. CASE ~Uncaught
  <2>1. /\ Handled(h, nScopes) /\ Handled(g, s.nScopes)
        /\ Unwind(g, Both(s, t), aFuncCall)
    BY <1>2 DEF ExitNonNumber
  <2>2. /\ h \in 1..Len(pTry) /\ g \in 1..Len(pTry) /\ g < h
        /\ pExitMark \in Seq(Saved) /\ pTry \in Seq(Saved)
    BY <2>1, TypesOfLists DEF Handled
  <2> HIDE DEF h, g
  <2>3. /\ s \in States /\ t \in States
        /\ s.nExitMark = s.nLoopMark /\ t.nExitMark = t.nLoopMark
    <3>1. pTry[h] \in PairedSaved /\ pTry[g] \in PairedSaved
      BY <2>2, ElementOfSeq DEF Inv, Typed
    <3> QED BY <3>1 DEF PairedSaved, Saved
  <2>4. /\ s.nFuncCalls \in Nat /\ t.nFuncCalls \in Nat
        /\ Len(pTry[h].path) \in Nat /\ Len(pTry[g].path) \in Nat
    BY <2>2, SavedFields
  <2>5. Before(pTry[g], s.nFuncCalls, Len(pTry[h].path))
    BY <2>2 DEF Book, Data, Matches, Ordered
  <2>6. \/ t.nFuncCalls < s.nFuncCalls
        \/ t.nFuncCalls = s.nFuncCalls /\ Len(pTry[g].path) <= Len(pTry[h].path)
    BY <2>4, <2>5 DEF Before
  <2>7. /\ CutAt(pExitMark, s.nExitMark, s.nFuncCalls, Len(pTry[h].path))
        /\ CutAt(pExitMark, t.nExitMark, t.nFuncCalls, Len(pTry[g].path))
    BY <2>2 DEF Book, Data, ExitsOfTries
  <2> HIDE DEF s, t
  <2>8. t.nExitMark <= s.nExitMark
    BY <2>2, <2>4, <2>6, <2>7, CutWithin
  <2>9. t.nFuncCalls <= s.nFuncCalls
    BY <2>4, <2>6
  <2>10. /\ Both(s, t).nFuncCalls = t.nFuncCalls
         /\ Both(s, t).nExitMark = t.nExitMark /\ Both(s, t).nLoopMark = t.nExitMark
    BY <2>3, <2>8, <2>9, BothIsOuter
  <2> QED BY <2>1, <2>2, <2>10, UnwindBook DEF t
<1> QED BY <1>1, <1>2

-----------------------------------------------------------------------------
LEMMA InitBook == Init => Book
<1> SUFFICES ASSUME Init PROVE Book
  OBVIOUS
<1>1. /\ aFuncCall = <<>> /\ pExitMark = <<>> /\ pLoopMark = <<>> /\ pTry = <<>>
      /\ pc.path = <<>> /\ pc.at = "body" /\ nScopes = 1
  BY DEF Init, Loc
<1>2. Len(<<>>) = 0 /\ \A i \in 1..Len(<<>>) : FALSE
  OBVIOUS
<1>3. Matches(<<>>, <<>>, <<>>, MarkedLoops) /\ Matches(<<>>, <<>>, <<>>, TryBlocks)
  <2>1. \A k \in 0..Len(<<>>) : Place(<<>>, <<>>, k) = <<>>
    BY <1>2 DEF Place
  <2> QED BY <1>2, <2>1 DEF Matches, Ordered, Complete
<1>4. Data(<<>>, <<>>, <<>>, <<>>)
  BY <1>2, <1>3 DEF Data, ScopesKnown, ExitsOfTries, TriesOfExits, SizesOfCalls
<1>5. CallsKnown(aFuncCall, pc)
  BY <1>1, <1>2 DEF CallsKnown, AtLoop
<1>6. LoopsKnown
  BY <1>1, <1>2 DEF LoopsKnown, Live
<1>7. ScopesCounted
  <2>1. Started(<<>>, 0) = 0
    BY StartedNat
  <2> QED BY <1>1, <1>2, <2>1 DEF ScopesCounted
<1> QED BY <1>1, <1>4, <1>5, <1>6, <1>7 DEF Book

LEMMA NextBook ==
    ASSUME "return_in_try" \notin Programs, Inv, Book, [Next]_vars PROVE Book'
<1>1. CASE UNCHANGED vars
  BY <1>1, SameBook DEF vars, marks
<1>2. CASE Raise \/ StackOverflow
  BY <1>2, ErrorNowBook DEF Raise, StackOverflow
<1>3. CASE PushOperand \/ FreeStack
  BY <1>3, PushOperandBook, FreeStackBook
<1>4. ASSUME NEW type \in {"script", "c"}, LoadFunc(type) PROVE Book'
  BY <1>4, LoadFuncBook
<1>5. ASSUME NEW lSave \in BOOLEAN, CallScript(lSave) PROVE Book'
  BY <1>5, CallScriptBook
<1>6. CASE NewFunc \/ CallC \/ CallCRaise
  BY <1>6, NewFuncBook, CallCBook, CallCRaiseBook
<1>7. CASE Return
  BY <1>7, ReturnActionBook
<1>8. CASE EndProgram
  BY <1>8, SameBook DEF EndProgram, marks
<1>9. ASSUME NEW m \in MarkChoices, NEW s \in Steps, EnterFor(m, s) PROVE Book'
  BY <1>9, EnterForBook
<1>10. ASSUME NEW m \in MarkChoices, EnterWhile(m) PROVE Book'
  BY <1>10, EnterWhileBook
<1>11. CASE StepNumber \/ LoopTest \/ EndBody \/ LoopEnd \/ OptionalLoop
  BY <1>11, StepNumberBook, LoopTestBook, EndBodyBook, LoopEndBook, OptionalLoopBook
<1>12. ASSUME NEW n \in Counts, Exit(n) PROVE Book'
  BY <1>12, ExitBook
<1>13. ASSUME NEW n \in Counts, Loop(n) PROVE Book'
  BY <1>13, LoopBook
<1>14. CASE ExitNonNumber \/ EnterTry \/ LeaveTry \/ LeaveCatch
  BY <1>14, ExitNonNumberBook, EnterTryBook, LeaveTryBook
<1> QED
  BY <1>1, <1>2, <1>3, <1>4, <1>5, <1>6, <1>7, <1>8, <1>9, <1>10, <1>11, <1>12, <1>13, <1>14
  DEF Next
-----------------------------------------------------------------------------
(* The arrays.  nSP is checked after every instruction, so what is saved of *)
(* it was within the limit; scopes have no check of their own at all: the   *)
(* one made on aFuncCall is enough because each scope but the first belongs *)
(* to a call that started, and the call being started has none yet.         *)
BoundedSaved == {e \in Saved : e.state.nSP <= MaxStack /\ e.state.nFuncSP <= MaxStack}

BoundedCalls == {c \in Calls : c.nSP <= MaxStack}

Bounds ==
    /\ nSP <= MaxStack + 1 /\ nFuncSP <= MaxStack
    /\ aFuncCall \in Seq(BoundedCalls)
    /\ pExitMark \in Seq(BoundedSaved) /\ pLoopMark \in Seq(BoundedSaved)
    /\ pTry \in Seq(BoundedSaved)
    /\ Len(aFuncCall) <= MaxCalls + 1 /\ nScopes <= MaxCalls + 1

LEMMA LimitTypes ==
    /\ MaxStack \in Nat /\ MaxCalls \in Nat
    /\ Inv => nSP \in Int /\ nFuncSP \in Int /\ nScopes \in Int /\ Len(aFuncCall) \in Nat
<1>1. MaxStack \in Nat /\ MaxCalls \in Nat
  BY ConstantsAssumption
<1>2. Inv => nSP \in Int /\ nFuncSP \in Int /\ nScopes \in Int /\ Len(aFuncCall) \in Nat
  BY TypesOfLists DEF Inv, Typed
<1> QED BY <1>1, <1>2

LEMMA BoundedType ==
    /\ \A e \in BoundedSaved : /\ e \in Saved /\ e.state \in States
                               /\ e.state.nSP \in Int /\ e.state.nScopes \in Int
                               /\ e.state.nSP <= MaxStack /\ e.state.nFuncSP <= MaxStack
    /\ \A c \in BoundedCalls : c \in Calls /\ c.nSP <= MaxStack /\ c.nSP \in Int
BY DEF BoundedSaved, BoundedCalls, Saved, Calls, States

LEMMA UnwindBounds ==
    ASSUME Inv, Bounds, NEW h \in 1..Len(pTry), NEW cut, cut.nFuncCalls \in Nat,
           cut.nExitMark \in Nat, cut.nLoopMark \in Nat, NEW calls \in Seq(BoundedCalls),
           Len(calls) <= MaxCalls + 1, pTry[h].state.nScopes <= MaxCalls + 1,
           Unwind(h, cut, calls), nSP' <= MaxStack + 1
    PROVE  Bounds'
<1>1. pTry[h] \in BoundedSaved /\ Len(pTry) \in Nat
  BY ElementOfSeq, LenProperties DEF Bounds
<1>2. nFuncSP' <= MaxStack /\ nScopes' <= MaxCalls + 1
  BY <1>1, BoundedType DEF Unwind
<1>3. aFuncCall' \in Seq(BoundedCalls) /\ Len(aFuncCall') <= MaxCalls + 1
  <2>1. Len(calls) \in Nat /\ MaxCalls \in Nat
    BY LenProperties, LimitTypes
  <2>2. aFuncCall' = Back(calls, cut.nFuncCalls)
    BY DEF Unwind
  <2> QED BY <2>1, <2>2, BackProperties
<1>4. pExitMark' \in Seq(BoundedSaved) /\ pLoopMark' \in Seq(BoundedSaved)
  BY BackProperties DEF Unwind, Bounds
<1>5. pTry' \in Seq(BoundedSaved)
  <2>1. pTry \in Seq(BoundedSaved) /\ 1 \in 1..Len(pTry) + 1 /\ h - 1 \in 0..Len(pTry)
    BY <1>1 DEF Bounds
  <2> QED BY <2>1, SubSeqProperties DEF Unwind, TriesAfterCatch
<1> QED BY <1>2, <1>3, <1>4, <1>5 DEF Bounds

LEMMA UncaughtBounds == Bounds /\ Uncaught => Bounds'
BY DEF Bounds, Uncaught, marks

LEMMA ErrorBounds ==
    ASSUME Inv, Bounds, NEW scopes \in Int, scopes <= MaxCalls + 1,
           NEW calls \in Seq(BoundedCalls), Len(calls) <= MaxCalls + 1, Error(scopes, calls)
    PROVE  Bounds'
<1> DEFINE h == Len(pTry)
<1>1. CASE ~Handled(h, scopes)
  BY <1>1, UncaughtBounds DEF Error
<1>2. CASE Handled(h, scopes)
  <2>1. h \in 1..Len(pTry)
    BY <1>2, TypesOfLists DEF Handled
  <2>2. pTry[h] \in BoundedSaved
    BY <2>1, ElementOfSeq DEF Bounds
  <2>3. /\ pTry[h].state \in States /\ pTry[h].state.nSP <= MaxStack
        /\ pTry[h].state.nSP \in Int /\ pTry[h].state.nScopes \in Int
    BY <2>2, BoundedType
  <2>4. Unwind(h, pTry[h].state, calls) /\ nSP' = pTry[h].state.nSP
        /\ pTry[h].state.nScopes <= scopes
    BY <1>2 DEF Error, Handled
  <2> HIDE DEF h
  <2>5. nSP' <= MaxStack + 1 /\ pTry[h].state.nScopes <= MaxCalls + 1
    <3>1. MaxStack \in Nat /\ MaxCalls \in Nat
      BY LimitTypes
    <3> QED BY <2>3, <2>4, <3>1
  <2> QED BY <2>1, <2>3, <2>4, <2>5, UnwindBounds DEF States
<1> QED BY <1>1, <1>2

LEMMA ErrorNowBounds == Inv /\ Bounds /\ ErrorNow => Bounds'
BY ErrorBounds, LimitTypes DEF ErrorNow, Bounds

-----------------------------------------------------------------------------
(* Operands and calls. *)
LEMMA LastBounded ==
    ASSUME Bounds, aFuncCall # <<>>
    PROVE  /\ Last(aFuncCall) \in BoundedCalls /\ Last(aFuncCall) \in Calls
           /\ Last(aFuncCall).nSP \in Int /\ Last(aFuncCall).nSP <= MaxStack
           /\ Front(aFuncCall) \in Seq(BoundedCalls)
           /\ Len(Front(aFuncCall)) = Len(aFuncCall) - 1 /\ Len(aFuncCall) \in Nat \ {0}
<1>1. /\ Last(aFuncCall) \in BoundedCalls /\ Front(aFuncCall) \in Seq(BoundedCalls)
      /\ Len(aFuncCall) \in Nat \ {0}
  BY FrontLast DEF Bounds
<1>2. Len(Front(aFuncCall)) = Len(aFuncCall) - 1
  <2> DEFINE m == Len(aFuncCall) - 1
  <2>1. m \in 0..Len(aFuncCall) /\ m \in Nat /\ Front(aFuncCall) = SubSeq(aFuncCall, 1, m)
    BY <1>1 DEF Front
  <2>2. aFuncCall \in Seq(BoundedCalls)
    BY DEF Bounds
  <2> HIDE DEF m
  <2>3. Len(SubSeq(aFuncCall, 1, m)) = m
    BY <2>1, <2>2, SubSeqProperties
  <2> QED BY <2>1, <2>3 DEF m
<1> QED BY <1>1, <1>2, BoundedType

LEMMA StackOfCallerBounded ==
    ASSUME NEW calls \in Seq(BoundedCalls) PROVE StackOfCaller(calls) <= MaxStack
<1>1. CASE calls = <<>>
  BY <1>1, LimitTypes DEF StackOfCaller
<1>2. CASE calls # <<>>
  BY <1>2, FrontLast, BoundedType DEF StackOfCaller
<1> QED BY <1>1, <1>2

LEMMA OperandBounds ==
    ASSUME Inv, Bounds, PushOperand \/ FreeStack \/ StepNumber \/ LoopTest PROVE Bounds'
<1>1. /\ nSP \in Int /\ nFuncSP \in Int /\ MaxStack \in Nat
      /\ nSP <= MaxStack + 1 /\ nFuncSP <= MaxStack
  BY LimitTypes DEF Bounds
<1>2. nFuncSP' <= MaxStack
  BY <1>1 DEF PushOperand, FreeStack, StepNumber, LoopTest
<1>3. nSP' <= MaxStack + 1
  <2>1. CASE PushOperand
    BY <1>1, <2>1 DEF PushOperand, InExpr, Ready
  <2>2. CASE FreeStack
    BY <1>1, <2>2 DEF FreeStack
  <2>3. CASE StepNumber \/ LoopTest
    <3>1. pc.ops \in Nat /\ nSP' = nSP - pc.ops
      BY <2>3 DEF StepNumber, LoopTest, Inv, Typed, Locs
    <3> QED BY <1>1, <3>1
  <2> QED BY <2>1, <2>2, <2>3
<1>4. UNCHANGED <<aFuncCall, nScopes, pExitMark, pLoopMark, pTry>>
  BY DEF PushOperand, FreeStack, StepNumber, LoopTest, marks
<1> QED BY <1>2, <1>3, <1>4 DEF Bounds

LEMMA LoadFuncBounds ==
    ASSUME NEW type \in {"script", "c"}, Inv, Bounds, LoadFunc(type) PROVE Bounds'
<1>1. CASE Len(aFuncCall) > MaxCalls /\ ErrorNow
  BY <1>1, ErrorNowBounds
<1>2. CASE ~(Len(aFuncCall) > MaxCalls /\ ErrorNow)
  <2> DEFINE call == [type |-> type, status |-> "load", caller |-> pc, nSP |-> nSP,
                      nForStep |-> 0, nExitMark |-> 0, nLoopMark |-> 0,
                      lSave |-> FALSE, nTry |-> 0]
  <2>1. call \in BoundedCalls
    BY InExprCallSite, LimitTypes DEF LoadFunc, InExpr, Ready, BoundedCalls, Calls
  <2>2. aFuncCall' = Append(aFuncCall, call) /\ Len(aFuncCall) <= MaxCalls
    BY <1>2 DEF LoadFunc
  <2> HIDE DEF call
  <2>3. aFuncCall' \in Seq(BoundedCalls) /\ Len(aFuncCall') <= MaxCalls + 1
    BY <2>1, <2>2, AppendProperties, LimitTypes DEF Bounds
  <2>4. UNCHANGED <<nScopes, nSP, nFuncSP, pExitMark, pLoopMark, pTry>>
    BY <1>2 DEF LoadFunc, marks
  <2> QED BY <2>3, <2>4 DEF Bounds
<1> QED BY <1>1, <1>2

LEMMA ReplaceBounds ==
    ASSUME Bounds, aFuncCall # <<>>, NEW call \in BoundedCalls,
           aFuncCall' = Append(Front(aFuncCall), call)
    PROVE  aFuncCall' \in Seq(BoundedCalls) /\ Len(aFuncCall') <= MaxCalls + 1
BY LastBounded, AppendProperties DEF Bounds

LEMMA CallScriptBounds ==
    ASSUME NEW lSave \in BOOLEAN, Inv, Bounds, CallScript(lSave) PROVE Bounds'
<1> DEFINE call == [Last(aFuncCall) EXCEPT
                !.status = "call", !.nForStep = Len(pForStep),
                !.nExitMark = Len(pExitMark), !.nLoopMark = Len(pLoopMark),
                !.lSave = lSave, !.nTry = IF lSave THEN Len(pTry) ELSE 0]
<1>1. aFuncCall # <<>> /\ aFuncCall' = Append(Front(aFuncCall), call)
      /\ UNCHANGED <<nScopes, nSP, nFuncSP, pExitMark, pLoopMark, pTry>>
  BY DEF CallScript, Loaded, marks
<1>2. /\ Len(pForStep) \in Nat /\ Len(pTry) \in Nat
      /\ Len(pExitMark) \in Nat /\ Len(pLoopMark) \in Nat
  BY LenProperties DEF Inv, Typed
<1>3. call \in BoundedCalls
  BY <1>1, <1>2, LastBounded DEF BoundedCalls, Calls
<1> HIDE DEF call
<1> QED BY <1>1, <1>3, ReplaceBounds DEF Bounds

(* The scope of a function that starts: as many scopes as calls that have   *)
(* started, the one that starts not counted, and fewer calls than the limit. *)
LEMMA RoomForScope ==
    ASSUME Inv, Book, aFuncCall # <<>>, ~CallsFull
    PROVE  nScopes + 1 <= MaxCalls + 1
<1>1. Len(aFuncCall) \in Nat /\ MaxCalls \in Nat /\ Len(aFuncCall) < MaxCalls
  BY LimitTypes DEF CallsFull
<1>2. nScopes = 1 + Started(aFuncCall, Len(aFuncCall))
  BY DEF Book, ScopesCounted
<1>3. Started(aFuncCall, Len(aFuncCall)) \in Nat
      /\ Started(aFuncCall, Len(aFuncCall)) <= Len(aFuncCall)
  BY <1>1, StartedNat
<1> QED BY <1>1, <1>2, <1>3

LEMMA NewFuncBounds == Inv /\ Book /\ Bounds /\ NewFunc => Bounds'
<1> SUFFICES ASSUME Inv, Book, Bounds, NewFunc PROVE Bounds'
  OBVIOUS
<1>1. aFuncCall # <<>>
  BY DEF NewFunc, Inv, CallStarts
<1>2. CASE CallsFull /\ ErrorNow
  BY <1>2, ErrorNowBounds
<1>3. CASE ~CallsFull /\ Error(nScopes + 1, Front(aFuncCall))
  <2>1. /\ Front(aFuncCall) \in Seq(BoundedCalls) /\ nScopes + 1 \in Int
        /\ Len(Front(aFuncCall)) <= MaxCalls + 1
    BY <1>1, LastBounded, LimitTypes DEF Bounds
  <2>2. nScopes + 1 <= MaxCalls + 1
    BY <1>1, <1>3, RoomForScope
  <2> QED BY <1>3, <2>1, <2>2, ErrorBounds
<1>4. CASE ~(CallsFull /\ ErrorNow) /\ ~(~CallsFull /\ Error(nScopes + 1, Front(aFuncCall)))
  <2> DEFINE call == [Last(aFuncCall) EXCEPT !.status = "started"]
  <2>1. /\ ~CallsFull /\ aFuncCall' = Append(Front(aFuncCall), call)
        /\ nScopes' = nScopes + 1 /\ nFuncSP' = Last(aFuncCall).nSP
        /\ nSP' = Last(aFuncCall).nSP /\ UNCHANGED <<pExitMark, pLoopMark, pTry>>
    BY <1>4 DEF NewFunc, marks
  <2>2. call \in BoundedCalls
    BY <1>1, LastBounded DEF BoundedCalls, Calls
  <2>3. nSP' <= MaxStack + 1 /\ nFuncSP' <= MaxStack
    BY <1>1, <2>1, LastBounded, LimitTypes
  <2> HIDE DEF call
  <2>4. aFuncCall' \in Seq(BoundedCalls) /\ Len(aFuncCall') <= MaxCalls + 1
    BY <1>1, <2>1, <2>2, ReplaceBounds
  <2>5. nScopes' <= MaxCalls + 1
    BY <1>1, <2>1, RoomForScope
  <2> QED BY <2>1, <2>3, <2>4, <2>5 DEF Bounds
<1> QED BY <1>2, <1>3, <1>4

LEMMA ReturnBounds ==
    ASSUME Inv, Bounds, Return PROVE Bounds'
<1> DEFINE call == Last(aFuncCall)
<1>1. /\ aFuncCall # <<>> /\ aFuncCall' = Front(aFuncCall) /\ nScopes' = nScopes - 1
      /\ nFuncSP' = StackOfCaller(Front(aFuncCall)) /\ nSP <= MaxStack
      /\ nSP' = (IF nSP > nFuncSP THEN nFuncSP + 1 ELSE nSP + 1)
  BY DEF Return, AtStatement, Ready, ScopesAfterReturn
<1>2. aFuncCall' \in Seq(BoundedCalls) /\ nFuncSP' <= MaxStack
  BY <1>1, LastBounded, StackOfCallerBounded
<1>3. Len(aFuncCall') <= MaxCalls + 1 /\ nScopes' <= MaxCalls + 1 /\ nSP' <= MaxStack + 1
  <2>1. /\ MaxStack \in Nat /\ MaxCalls \in Nat /\ nScopes \in Int /\ nSP \in Int
        /\ nFuncSP \in Int /\ nFuncSP <= MaxStack /\ nScopes <= MaxCalls + 1
        /\ Len(aFuncCall) <= MaxCalls + 1
    BY LimitTypes DEF Bounds
  <2>2. Len(aFuncCall') = Len(aFuncCall) - 1 /\ Len(aFuncCall) \in Nat
    BY <1>1, LastBounded
  <2> QED BY <1>1, <2>1, <2>2
<1>4. pExitMark' \in Seq(BoundedSaved) /\ pLoopMark' \in Seq(BoundedSaved)
      /\ pTry' \in Seq(BoundedSaved)
  <2>1. call.nExitMark \in Nat /\ call.nLoopMark \in Nat /\ call.nTry \in Nat
    BY <1>1, LastBounded DEF Calls
  <2> QED BY <2>1, BackProperties DEF Return, Bounds
<1> QED BY <1>2, <1>3, <1>4 DEF Bounds

LEMMA CallCBounds ==
    ASSUME Inv, Bounds, CallC PROVE Bounds'
<1>1. /\ aFuncCall # <<>> /\ aFuncCall' = Front(aFuncCall)
      /\ nFuncSP' = StackOfCaller(Front(aFuncCall)) /\ nSP' = Last(aFuncCall).nSP + 1
      /\ UNCHANGED <<nScopes, pExitMark, pLoopMark, pTry>>
  BY DEF CallC, Loaded, marks
<1>2. aFuncCall' \in Seq(BoundedCalls) /\ nFuncSP' <= MaxStack
  BY <1>1, LastBounded, StackOfCallerBounded
<1>3. /\ MaxStack \in Nat /\ MaxCalls \in Nat /\ Len(aFuncCall) \in Nat
      /\ Len(aFuncCall) <= MaxCalls + 1 /\ Len(aFuncCall') = Len(aFuncCall) - 1
      /\ Last(aFuncCall).nSP \in Int /\ Last(aFuncCall).nSP <= MaxStack
  BY <1>1, LastBounded, LimitTypes DEF Bounds
<1>4. Len(aFuncCall') <= MaxCalls + 1 /\ nSP' <= MaxStack + 1
  BY <1>1, <1>3
<1> QED BY <1>1, <1>2, <1>4 DEF Bounds

LEMMA CallCRaiseBounds ==
    ASSUME Inv, Bounds, CallCRaise PROVE Bounds'
<1> DEFINE h == Len(pTry)
<1>1. CASE ~Handled(h, nScopes)
  BY <1>1, UncaughtBounds DEF CallCRaise
<1>2. CASE Handled(h, nScopes)
  <2>1. h \in 1..Len(pTry) /\ aFuncCall # <<>>
    BY <1>2, TypesOfLists DEF Handled, CallCRaise, Loaded
  <2>2. pTry[h] \in BoundedSaved
    BY <2>1, ElementOfSeq DEF Bounds
  <2>3. pTry[h].state \in States /\ pTry[h].state.nScopes \in Int
    BY <2>2, BoundedType
  <2>4. /\ Unwind(h, pTry[h].state, aFuncCall) /\ nSP' = Last(aFuncCall).nSP + 1
        /\ pTry[h].state.nScopes <= nScopes
    BY <1>2 DEF CallCRaise, Handled, Last
  <2> HIDE DEF h
  <2>5. nSP' <= MaxStack + 1 /\ pTry[h].state.nScopes <= MaxCalls + 1
    <3>1. /\ MaxStack \in Nat /\ MaxCalls \in Nat /\ nScopes \in Int
          /\ nScopes <= MaxCalls + 1
      BY LimitTypes DEF Bounds
    <3>2. Last(aFuncCall).nSP \in Int /\ Last(aFuncCall).nSP <= MaxStack
      BY <2>1, LastBounded
    <3> QED BY <2>3, <2>4, <3>1, <3>2
  <2>6. aFuncCall \in Seq(BoundedCalls) /\ Len(aFuncCall) <= MaxCalls + 1
    BY DEF Bounds
  <2> QED BY <2>1, <2>3, <2>4, <2>5, <2>6, UnwindBounds DEF States
<1> QED BY <1>1, <1>2

LEMMA ExitNonNumberBounds ==
    ASSUME Inv, Bounds, ExitNonNumber PROVE Bounds'
<1> DEFINE h == Len(pTry)
           g == h - 1
           s == pTry[h].state
           t == pTry[g].state
<1>1. CASE Uncaught
  BY <1>1, UncaughtBounds
<1>2. CASE ~Uncaught
  <2>1. /\ Handled(h, nScopes) /\ Handled(g, s.nScopes)
        /\ Unwind(g, Both(s, t), aFuncCall) /\ nSP' = t.nSP
    BY <1>2 DEF ExitNonNumber
  <2>2. /\ h \in 1..Len(pTry) /\ g \in 1..Len(pTry)
    BY <2>1, TypesOfLists DEF Handled
  <2>3. s.nScopes <= nScopes /\ t.nScopes <= s.nScopes
    BY <2>1 DEF Handled
  <2> HIDE DEF h, g
  <2>4. /\ pTry[h] \in BoundedSaved /\ pTry[g] \in BoundedSaved
        /\ pTry[h] \in PairedSaved /\ pTry[g] \in PairedSaved
    BY <2>2, ElementOfSeq DEF Bounds, Inv, Typed
  <2>5. /\ s \in States /\ t \in States /\ t.nSP <= MaxStack /\ t.nSP \in Int
        /\ s.nScopes \in Int /\ t.nScopes \in Int
        /\ s.nExitMark = s.nLoopMark /\ t.nExitMark = t.nLoopMark
    BY <2>4, BoundedType DEF PairedSaved
  <2> HIDE DEF s, t
  <2>6. Both(s, t) \in States
    BY <2>5, BothPaired
  <2>7. nSP' <= MaxStack + 1 /\ t.nScopes <= MaxCalls + 1
    <3>1. /\ MaxStack \in Nat /\ MaxCalls \in Nat /\ nScopes \in Int
          /\ nScopes <= MaxCalls + 1
      BY LimitTypes DEF Bounds
    <3> QED BY <2>1, <2>3, <2>5, <3>1
  <2>8. aFuncCall \in Seq(BoundedCalls) /\ Len(aFuncCall) <= MaxCalls + 1
    BY DEF Bounds
  <2> QED BY <2>1, <2>2, <2>6, <2>7, <2>8, UnwindBounds DEF States, t
<1> QED BY <1>1, <1>2

-----------------------------------------------------------------------------
(* Loops and try blocks. *)

(* A state saved between two statements. *)
LEMMA StateBounded ==
    ASSUME Inv, Bounds, Ready, NEW exits \in Nat, NEW loops \in Nat, NEW tries \in Nat,
           NEW steps \in Nat, NEW path \in Seq(Blocks) \ {<<>>}
    PROVE  /\ [path |-> path, state |-> VMState(exits, loops, tries)] \in BoundedSaved
           /\ [path |-> path, state |-> [VMState(exits, loops, tries) EXCEPT !.nForStep = steps]]
                \in BoundedSaved
<1> DEFINE s == VMState(exits, loops, tries)
           u == [s EXCEPT !.nForStep = steps]
<1>1. s \in States
  BY StateType
<1>2. s.nSP = nSP /\ s.nFuncSP = nFuncSP
  BY DEF VMState
<1> HIDE DEF s
<1>3. u \in States /\ u.nSP = nSP /\ u.nFuncSP = nFuncSP
  BY <1>1, <1>2 DEF States
<1> HIDE DEF u
<1>4. nSP <= MaxStack /\ nFuncSP <= MaxStack
  BY DEF Ready, Bounds
<1>5. /\ [path |-> path, state |-> s] \in BoundedSaved
      /\ [path |-> path, state |-> u] \in BoundedSaved
  BY <1>1, <1>2, <1>3, <1>4 DEF BoundedSaved, Saved
<1> QED BY <1>5 DEF s, u

LEMMA PushMarksBounds ==
    ASSUME Inv, Bounds, Ready, NEW path \in Seq(Blocks) \ {<<>>}, NEW marked,
           NEW steps, Len(steps) \in Nat, PushMarks(path, marked, steps)
    PROVE  pExitMark' \in Seq(BoundedSaved) /\ pLoopMark' \in Seq(BoundedSaved)
<1>1. CASE ~marked
  BY <1>1 DEF PushMarks, Bounds
<1>2. CASE ~~marked
  <2> DEFINE n == Len(pExitMark) + 1
             m == Len(pLoopMark) + 1
             exit == [path |-> path, state |->
                         [VMState(n, m - 1, Len(pTry)) EXCEPT !.nForStep = Len(steps)]]
             loop == [path |-> path, state |->
                         [VMState(n, m, Len(pTry)) EXCEPT !.nForStep = Len(steps)]]
  <2>1. n \in Nat /\ m \in Nat /\ m - 1 \in Nat /\ Len(pTry) \in Nat
    BY LenProperties DEF Inv, Typed
  <2>2. exit \in BoundedSaved /\ loop \in BoundedSaved
    BY <2>1, StateBounded
  <2>3. pExitMark' = Append(pExitMark, exit) /\ pLoopMark' = Append(pLoopMark, loop)
    BY <1>2 DEF PushMarks
  <2> HIDE DEF exit, loop
  <2> QED BY <2>2, <2>3, AppendProperties DEF Bounds
<1> QED BY <1>1, <1>2

LEMMA EnterLoopBounds ==
    ASSUME Inv, Bounds, AtStatement, NEW b \in Blocks, NEW marked, NEW steps,
           Len(steps) \in Nat, PushMarks(Append(pc.path, b), marked, steps),
           UNCHANGED <<aFuncCall, nScopes, nSP, nFuncSP, pTry>>
    PROVE  Bounds'
<1>1. Append(pc.path, b) \in Seq(Blocks) \ {<<>>}
  BY PathGrows
<1>2. pExitMark' \in Seq(BoundedSaved) /\ pLoopMark' \in Seq(BoundedSaved)
  BY <1>1, PushMarksBounds DEF AtStatement
<1> QED BY <1>2 DEF Bounds

LEMMA EnterForBounds ==
    ASSUME Inv, Bounds, NEW marked \in MarkChoices, NEW step \in Steps, EnterFor(marked, step)
    PROVE  Bounds'
<1>1. Block("for", marked, step) \in Blocks
  BY MarkChoice DEF Block, Blocks, LoopBlocks
<1>2. Len(pForStep) \in Nat
  BY LenProperties DEF Inv, Typed
<1> QED BY <1>1, <1>2, EnterLoopBounds DEF EnterFor

LEMMA EnterWhileBounds ==
    ASSUME Inv, Bounds, NEW marked \in MarkChoices, EnterWhile(marked)
    PROVE  Bounds'
<1>1. Block("while", marked, 0) \in Blocks
  BY MarkChoice DEF Block, Blocks, LoopBlocks
<1>2. Append(pForStep, 0) \in Seq(Steps \cup {0}) /\ Len(Append(pForStep, 0)) \in Nat
  BY AppendProperties, LenProperties DEF Inv, Typed
<1> QED BY <1>1, <1>2, EnterLoopBounds DEF EnterWhile

LEMMA EnterTryBounds ==
    ASSUME Inv, Bounds, EnterTry PROVE Bounds'
<1> DEFINE path == Append(pc.path, Block("try", FALSE, 0))
           e == [path |-> path,
                 state |-> VMState(Len(pExitMark), Len(pLoopMark), Len(pTry) + 1)]
<1>1. Block("try", FALSE, 0) \in Blocks
  BY DEF Blocks
<1>2. path \in Seq(Blocks) \ {<<>>}
  BY <1>1, PathGrows
<1>3. Len(pExitMark) \in Nat /\ Len(pLoopMark) \in Nat /\ Len(pTry) + 1 \in Nat
  BY LenProperties DEF Inv, Typed
<1>4. Ready
  BY DEF EnterTry, AtStatement
<1> HIDE DEF path
<1>5. e \in BoundedSaved
  BY <1>2, <1>3, <1>4, StateBounded
<1>6. /\ pTry' = Append(pTry, e)
      /\ UNCHANGED <<aFuncCall, nScopes, nSP, nFuncSP, pExitMark, pLoopMark>>
  BY DEF EnterTry, marks, path
<1> HIDE DEF e
<1> QED BY <1>5, <1>6, AppendProperties DEF Bounds

LEMMA LeaveBounds ==
    ASSUME Inv, Bounds, LeaveTry \/ LeaveCatch \/ EndBody \/ LoopEnd PROVE Bounds'
<1>1. UNCHANGED <<aFuncCall, nScopes, nSP, nFuncSP>>
  BY DEF LeaveTry, LeaveCatch, EndBody, LoopEnd, marks
<1>2. /\ pExitMark' = pExitMark \/ pExitMark' = Pop(pExitMark)
      /\ pLoopMark' = pLoopMark \/ pLoopMark' = Pop(pLoopMark)
      /\ pTry' = pTry \/ pTry' = Pop(pTry)
  BY DEF LeaveTry, LeaveCatch, EndBody, LoopEnd, marks
<1> QED BY <1>1, <1>2, PopProperties DEF Bounds

LEMMA JumpToBounds ==
    ASSUME Inv, Bounds, NEW mark \in BoundedSaved, NEW at, JumpTo(mark, at),
           pExitMark' \in Seq(BoundedSaved), pLoopMark' \in Seq(BoundedSaved)
    PROVE  Bounds'
<1> DEFINE s == mark.state
<1>1. CASE s.nScopes > nScopes /\ UNCHANGED <<pc, aFuncCall, nScopes, nSP, nFuncSP, pTry>>
  BY <1>1 DEF Bounds
<1>2. CASE ~(s.nScopes > nScopes /\ UNCHANGED <<pc, aFuncCall, nScopes, nSP, nFuncSP, pTry>>)
  <2>1. s \in States /\ s.nSP <= MaxStack /\ s.nFuncSP <= MaxStack
    BY BoundedType
  <2>2. /\ s.nScopes <= nScopes /\ nScopes' = s.nScopes /\ nSP' = s.nSP
        /\ nFuncSP' = s.nFuncSP /\ aFuncCall' = Back(aFuncCall, s.nFuncCalls)
        /\ pTry' = Back(pTry, s.nTry)
    BY <1>2 DEF JumpTo, TriesAfterExit
  <2>3. s.nFuncCalls \in Nat /\ s.nTry \in Nat /\ s.nScopes \in Int /\ s.nSP \in Int
    BY <2>1 DEF States
  <2> HIDE DEF s
  <2>4. nScopes' <= MaxCalls + 1 /\ nSP' <= MaxStack + 1 /\ nFuncSP' <= MaxStack
    <3>1. MaxStack \in Nat /\ MaxCalls \in Nat /\ nScopes \in Int /\ nScopes <= MaxCalls + 1
      BY LimitTypes DEF Bounds
    <3> QED BY <2>1, <2>2, <2>3, <3>1
  <2>5. aFuncCall' \in Seq(BoundedCalls) /\ Len(aFuncCall') <= MaxCalls + 1
    <3>1. /\ aFuncCall \in Seq(BoundedCalls) /\ Len(aFuncCall) <= MaxCalls + 1
          /\ Len(aFuncCall) \in Nat /\ MaxCalls \in Nat
      BY LimitTypes DEF Bounds
    <3>2. /\ aFuncCall' \in Seq(BoundedCalls)
          /\ Len(aFuncCall') = IF s.nFuncCalls < Len(aFuncCall) THEN s.nFuncCalls
                                                              ELSE Len(aFuncCall)
      BY <2>2, <2>3, <3>1, BackProperties
    <3> QED BY <2>3, <3>1, <3>2
  <2>6. pTry' \in Seq(BoundedSaved)
    BY <2>2, <2>3, BackProperties DEF Bounds
  <2> QED BY <2>4, <2>5, <2>6 DEF Bounds
<1> QED BY <1>1, <1>2

LEMMA ExitLoopsBounds ==
    ASSUME Inv, Bounds, NEW n \in 1..Len(pExitMark), ExitLoops(n)
    PROVE  Bounds'
<1> DEFINE x == Target(n)
<1>1. /\ pExitMark \in Seq(BoundedSaved) /\ pLoopMark \in Seq(BoundedSaved)
      /\ Len(pExitMark) \in Nat /\ Len(pLoopMark) = Len(pExitMark)
  BY TypesOfLists DEF Bounds
<1>2. x \in 1..Len(pExitMark)
  BY <1>1 DEF Target
<1>3. pExitMark' \in Seq(BoundedSaved)
  BY <1>1, <1>2, SubSeqProperties DEF ExitLoops
<1>4. /\ SubSeq(pLoopMark, 1, x - 1) \in Seq(BoundedSaved)
      /\ pLoopMark[Len(pExitMark)] \in BoundedSaved
  BY <1>1, <1>2, SubSeqProperties, ElementOfSeq
<1>5. pLoopMark' \in Seq(BoundedSaved)
  BY <1>4, AppendProperties DEF ExitLoops, LoopMarksAfterExit
<1>6. pExitMark[x] \in BoundedSaved /\ JumpTo(pExitMark[x], "end")
  BY <1>1, <1>2, ElementOfSeq DEF ExitLoops
<1> HIDE DEF x
<1> QED BY <1>3, <1>5, <1>6, JumpToBounds

LEMMA LoopOnceBounds == Inv /\ Bounds /\ LoopOnce => Bounds'
<1> SUFFICES ASSUME Inv, Bounds, LoopOnce PROVE Bounds'
  OBVIOUS
<1>1. CASE ErrorNow
  BY <1>1, ErrorNowBounds
<1>2. CASE ~ErrorNow
  <2>1. Last(pLoopMark) \in BoundedSaved
    BY <1>2, FrontLast DEF LoopOnce, Bounds
  <2>2. JumpTo(Last(pLoopMark), "next") /\ UNCHANGED <<pExitMark, pLoopMark>>
    BY <1>2 DEF LoopOnce, marks
  <2> QED BY <2>1, <2>2, JumpToBounds DEF Bounds
<1> QED BY <1>1, <1>2

LEMMA CommandBounds ==
    ASSUME Inv, Bounds, NEW n \in Counts, Exit(n) \/ Loop(n) PROVE Bounds'
<1>1. CASE ErrorNow \/ LoopOnce
  BY <1>1, ErrorNowBounds, LoopOnceBounds
<1>2. CASE n \in 1..Len(pExitMark) /\ ExitLoops(n)
  BY <1>2, ExitLoopsBounds
<1>3. CASE n \in 2..Len(pLoopMark) /\ ExitLoops(n - 1)
  <2>1. n - 1 \in 1..Len(pExitMark)
    BY <1>3, TypesOfLists
  <2> QED BY <1>3, <2>1, ExitLoopsBounds
<1> QED BY <1>1, <1>2, <1>3 DEF Exit, Loop

LEMMA OptionalLoopBounds == Inv /\ Bounds /\ OptionalLoop => Bounds'
<1> SUFFICES ASSUME Inv, Bounds, OptionalLoop PROVE Bounds'
  OBVIOUS
<1>1. CASE LoopOnce
  BY <1>1, LoopOnceBounds
<1>2. CASE ~LoopOnce
  BY <1>2 DEF OptionalLoop, Bounds, marks
<1> QED BY <1>1, <1>2

-----------------------------------------------------------------------------
LEMMA InitBounds == Init => Bounds
<1> SUFFICES ASSUME Init PROVE Bounds
  OBVIOUS
<1>1. /\ aFuncCall = <<>> /\ pExitMark = <<>> /\ pLoopMark = <<>> /\ pTry = <<>>
      /\ nSP = 0 /\ nFuncSP = 0 /\ nScopes = 1
  BY DEF Init
<1>2. Len(aFuncCall) = 0 /\ MaxStack \in Nat /\ MaxCalls \in Nat
  BY <1>1, LimitTypes, EmptySeq
<1> QED BY <1>1, <1>2, EmptySeq DEF Bounds

LEMMA NextBounds == ASSUME Inv, Book, Bounds, [Next]_vars PROVE Bounds'
<1>1. CASE UNCHANGED vars
  BY <1>1 DEF vars, marks, Bounds
<1>2. CASE Raise \/ StackOverflow
  BY <1>2, ErrorNowBounds DEF Raise, StackOverflow
<1>3. CASE PushOperand \/ FreeStack \/ StepNumber \/ LoopTest
  BY <1>3, OperandBounds
<1>4. ASSUME NEW type \in {"script", "c"}, LoadFunc(type) PROVE Bounds'
  BY <1>4, LoadFuncBounds
<1>5. ASSUME NEW lSave \in BOOLEAN, CallScript(lSave) PROVE Bounds'
  BY <1>5, CallScriptBounds
<1>6. CASE NewFunc \/ Return \/ CallC \/ CallCRaise
  BY <1>6, NewFuncBounds, ReturnBounds, CallCBounds, CallCRaiseBounds
<1>7. CASE EndProgram
  BY <1>7 DEF EndProgram, Bounds, marks
<1>8. ASSUME NEW m \in MarkChoices, NEW s \in Steps, EnterFor(m, s) PROVE Bounds'
  BY <1>8, EnterForBounds
<1>9. ASSUME NEW m \in MarkChoices, EnterWhile(m) PROVE Bounds'
  BY <1>9, EnterWhileBounds
<1>10. CASE EndBody \/ LoopEnd \/ LeaveTry \/ LeaveCatch
  BY <1>10, LeaveBounds
<1>11. CASE OptionalLoop
  BY <1>11, OptionalLoopBounds
<1>12. ASSUME NEW n \in Counts, Exit(n) \/ Loop(n) PROVE Bounds'
  BY <1>12, CommandBounds
<1>13. CASE ExitNonNumber \/ EnterTry
  BY <1>13, ExitNonNumberBounds, EnterTryBounds
<1> QED
  BY <1>1, <1>2, <1>3, <1>4, <1>5, <1>6, <1>7, <1>8, <1>9, <1>10, <1>11, <1>12, <1>13
  DEF Next

-----------------------------------------------------------------------------
(* The steps of for loops.  pForStep has no saved points of its own; loops  *)
(* is a list of entries, one for each of its steps, that say of which loop  *)
(* the step is.  It has the entries that pExitMark would have if every loop *)
(* were marked, but a for loop's step is pushed after its mark: until then, *)
(* the loop has not begun, and the code is where the loop is.               *)
AnyLoop == {b \in Blocks : IsLoop(b)}

BegunCall(call) == [call EXCEPT !.caller = Loc(Begun(call.caller), "body")]

BegunCalls(calls) == [i \in 1..Len(calls) |-> BegunCall(calls[i])]

(* The sizes of pForStep that tries and calls saved. *)
StepsOfTries(loops, tries) ==
    \A h \in 1..Len(tries) :
        CutAt(loops, tries[h].state.nForStep, tries[h].state.nFuncCalls, Len(tries[h].path))

StepsOfCalls(calls, loops) ==
    \A j \in 1..Len(calls) : calls[j].status # "load" => CutAt(loops, calls[j].nForStep, j, 0)

Stack(calls, path, tries, loops) ==
    /\ Matches(calls, path, loops, AnyLoop) /\ ScopesKnown(calls, loops)
    /\ StepsOfTries(loops, tries) /\ StepsOfCalls(calls, loops)

Held(loops, steps) ==
    /\ Len(loops) = Len(steps)
    /\ \A i \in 1..Len(loops) : loops[i].path[Len(loops[i].path)].step = steps[i]

StepsOf(loops) ==
    Stack(BegunCalls(aFuncCall), Begun(pc), pTry, loops) /\ Held(loops, pForStep)

StepList == \E loops \in Seq(Saved) : StepsOf(loops)

-----------------------------------------------------------------------------
(* Where the code is, without a loop that has not begun. *)
LEMMA BegunPath ==
    ASSUME NEW l \in Locs
    PROVE  /\ Begun(l) \in Seq(Blocks) /\ Len(Begun(l)) \in Nat /\ Len(l.path) \in Nat
           /\ Len(Begun(l)) <= Len(l.path) /\ Len(l.path) <= Len(Begun(l)) + 1
           /\ \A d \in 1..Len(Begun(l)) : Begun(l)[d] = l.path[d]
           /\ l.at # "init" => Begun(l) = l.path
           /\ l.at = "init" => Begun(l) = Front(l.path) /\ Len(l.path) = Len(Begun(l)) + 1
<1>1. l.path \in Seq(Blocks) /\ Len(l.path) \in Nat
  BY LenProperties DEF Locs
<1>2. CASE l.at # "init"
  <2>1. Begun(l) = l.path
    BY <1>2 DEF Begun
  <2> QED BY <1>1, <1>2, <2>1
<1>3. CASE l.at = "init"
  <2> DEFINE m == Len(l.path) - 1
  <2>1. Begun(l) = Front(l.path) /\ Front(l.path) = SubSeq(l.path, 1, m)
    BY <1>3 DEF Begun, Front
  <2>2. l.path # <<>>
    BY <1>3 DEF Locs
  <2>3. m \in 0..Len(l.path) /\ m \in Nat /\ Len(l.path) = m + 1
    BY <1>1, <2>2, EmptySeq
  <2> HIDE DEF m
  <2>4. /\ SubSeq(l.path, 1, m) \in Seq(Blocks) /\ Len(SubSeq(l.path, 1, m)) = m
        /\ \A i \in 1..m : SubSeq(l.path, 1, m)[i] = l.path[i]
    BY <1>1, <2>3, SubSeqProperties
  <2> QED BY <1>1, <1>3, <2>1, <2>3, <2>4
<1> QED BY <1>2, <1>3

LEMMA BegunCallType ==
    ASSUME NEW call \in Calls
    PROVE  /\ BegunCall(call) \in Calls /\ BegunCall(call).status = call.status
           /\ BegunCall(call).nForStep = call.nForStep
           /\ BegunCall(call).caller.path = Begun(call.caller) /\ call.caller \in Locs
<1>1. call.caller \in Locs /\ call.caller.at \in {"body", "init", "next"}
  BY CallFields
<1>2. Begun(call.caller) \in Seq(Blocks)
  BY <1>1, BegunPath
<1> DEFINE l == Loc(Begun(call.caller), "body")
<1>3. l \in CallSites /\ l.path = Begun(call.caller)
  BY <1>2 DEF Loc, Locs, CallSites, Labels
<1> HIDE DEF l
<1>4. BegunCall(call) = [call EXCEPT !.caller = l]
  BY DEF BegunCall, l
<1> QED BY <1>1, <1>3, <1>4 DEF Calls

LEMMA BegunCallsType ==
    ASSUME NEW calls \in Seq(Calls)
    PROVE  /\ BegunCalls(calls) \in Seq(Calls) /\ Len(BegunCalls(calls)) = Len(calls)
           /\ Len(calls) \in Nat
           /\ \A i \in 1..Len(calls) : /\ calls[i] \in Calls
                                       /\ BegunCalls(calls)[i] = BegunCall(calls[i])
<1>1. Len(calls) \in Nat /\ \A i \in 1..Len(calls) : calls[i] \in Calls
  BY LenProperties, ElementOfSeq
<1>2. \A i \in 1..Len(calls) : BegunCall(calls[i]) \in Calls
  BY <1>1, BegunCallType
<1> QED BY <1>1, <1>2 DEF BegunCalls

(* Which functions run does not depend on what has begun in them. *)
LEMMA BegunFrames ==
    ASSUME NEW calls \in Seq(Calls)
    PROVE  /\ \A k : Frame(BegunCalls(calls), k) = Frame(calls, k)
           /\ \A n \in 0..Len(calls) : Started(BegunCalls(calls), n) = Started(calls, n)
<1>1. /\ Len(BegunCalls(calls)) = Len(calls) /\ Len(calls) \in Nat
      /\ \A i \in 1..Len(calls) : BegunCalls(calls)[i].status = calls[i].status
  BY BegunCallsType, BegunCallType
<1>2. ASSUME NEW n \in 0..Len(calls)
      PROVE  Started(BegunCalls(calls), n) = Started(calls, n)
  <2>1. n \in Nat /\ \A i \in 1..n : BegunCalls(calls)[i].status = calls[i].status
    BY <1>1
  <2> QED BY <2>1, StartedAgrees
<1> QED BY <1>1, <1>2 DEF Frame

LEMMA BegunPlace ==
    ASSUME NEW calls \in Seq(Calls), NEW l \in Locs, NEW k \in 0..Len(calls),
           NEW q, q = Place(BegunCalls(calls), Begun(l), k),
           NEW p, p = Place(calls, l.path, k)
    PROVE  /\ q \in Seq(Blocks) /\ Len(q) \in Nat /\ p \in Seq(Blocks) /\ Len(p) \in Nat
           /\ Len(q) <= Len(p) /\ Len(p) <= Len(q) + 1
           /\ \A d \in 1..Len(q) : q[d] = p[d]
           /\ q = Begun(At(calls, l, k)) /\ At(calls, l, k) \in Locs
           /\ p = At(calls, l, k).path
<1>1. /\ Len(BegunCalls(calls)) = Len(calls) /\ Len(calls) \in Nat
      /\ \A i \in 1..Len(calls) : /\ calls[i] \in Calls
                                  /\ BegunCalls(calls)[i] = BegunCall(calls[i])
  BY BegunCallsType
<1>2. /\ q = Begun(At(calls, l, k)) /\ At(calls, l, k) \in Locs
      /\ p = At(calls, l, k).path
  <2>1. CASE k < Len(calls)
    <3>1. k + 1 \in 1..Len(calls)
      BY <1>1, <2>1
    <3> QED BY <1>1, <2>1, <3>1, BegunCallType DEF Place, At
  <2>2. CASE ~(k < Len(calls))
    BY <1>1, <2>2 DEF Place, At
  <2> QED BY <2>1, <2>2
<1>3. p \in Seq(Blocks)
  BY <1>2 DEF Locs
<1> QED BY <1>2, <1>3, BegunPath

LEMMA BegunCut ==
    ASSUME NEW calls \in Seq(Calls), NEW c \in 0..Len(calls)
    PROVE  BegunCalls(SubSeq(calls, 1, c)) = SubSeq(BegunCalls(calls), 1, c)
<1>1. /\ BegunCalls(calls) \in Seq(Calls) /\ Len(BegunCalls(calls)) = Len(calls)
      /\ Len(calls) \in Nat
      /\ \A i \in 1..Len(calls) : BegunCalls(calls)[i] = BegunCall(calls[i])
  BY BegunCallsType
<1>2. /\ Len(SubSeq(calls, 1, c)) = c /\ c \in Nat
      /\ \A i \in 1..c : SubSeq(calls, 1, c)[i] = calls[i]
  BY CallsCut
<1>3. BegunCalls(SubSeq(calls, 1, c)) = [i \in 1..c |-> BegunCall(calls[i])]
  BY <1>2 DEF BegunCalls
<1>4. SubSeq(BegunCalls(calls), 1, c) = [i \in 1..c |-> BegunCalls(calls)[i]]
  BY <1>1, <1>2
<1>5. \A i \in 1..c : i \in 1..Len(calls)
  BY <1>1, <1>2
<1> QED BY <1>1, <1>3, <1>4, <1>5

LEMMA BegunAppend ==
    ASSUME NEW calls \in Seq(Calls), NEW call \in Calls
    PROVE  BegunCalls(Append(calls, call)) = Append(BegunCalls(calls), BegunCall(call))
<1>1. /\ BegunCalls(calls) \in Seq(Calls) /\ Len(BegunCalls(calls)) = Len(calls)
      /\ Len(calls) \in Nat
      /\ \A i \in 1..Len(calls) : BegunCalls(calls)[i] = BegunCall(calls[i])
  BY BegunCallsType
<1>2. /\ Len(Append(calls, call)) = Len(calls) + 1
      /\ \A i \in 1..Len(calls) : Append(calls, call)[i] = calls[i]
      /\ Append(calls, call)[Len(calls) + 1] = call
  BY AppendProperties
<1> DEFINE u == BegunCalls(Append(calls, call))
           v == Append(BegunCalls(calls), BegunCall(call))
<1>3. /\ u \in Seq(Calls) /\ Len(u) = Len(calls) + 1
      /\ \A i \in 1..(Len(calls) + 1) : u[i] = BegunCall(Append(calls, call)[i])
  <2>1. Append(calls, call) \in Seq(Calls)
    BY AppendProperties
  <2> QED BY <1>2, <2>1, BegunCallsType
<1>4. /\ v \in Seq(Calls) /\ Len(v) = Len(calls) + 1
      /\ \A i \in 1..Len(calls) : v[i] = BegunCalls(calls)[i]
      /\ v[Len(calls) + 1] = BegunCall(call)
  BY <1>1, BegunCallType, AppendProperties
<1>5. \A i \in 1..(Len(calls) + 1) : i = Len(calls) + 1 \/ i \in 1..Len(calls)
  BY <1>1
<1> HIDE DEF u, v
<1>6. \A i \in 1..Len(u) : u[i] = v[i]
  BY <1>1, <1>2, <1>3, <1>4, <1>5
<1>7. u = v
  BY <1>3, <1>4, <1>6, SeqEqual
<1> QED BY <1>7 DEF u, v

-----------------------------------------------------------------------------
(* Cuts and additions, of the list of loops and of the steps together. *)
LEMMA StackCut ==
    ASSUME NEW calls \in Seq(Calls), NEW path \in Seq(Blocks), NEW newpath \in Seq(Blocks),
           NEW loops \in Seq(Saved), NEW tries \in Seq(Saved), Stack(calls, path, tries, loops),
           NEW c \in 0..Len(calls), NEW d \in Nat \ {0},
           NEW n, CutAt(loops, n, c, d), NEW m, CutAt(tries, m, c, d),
           d - 1 <= Len(newpath), d - 1 <= Len(Place(calls, path, c)),
           \A i \in 1..(d - 1) : newpath[i] = Place(calls, path, c)[i],
           \A i \in d..Len(newpath) : newpath[i] \notin AnyLoop
    PROVE  Stack(SubSeq(calls, 1, c), newpath, SubSeq(tries, 1, m), SubSeq(loops, 1, n))
<1>1. /\ c \in Nat /\ Len(SubSeq(calls, 1, c)) = c /\ Len(calls) \in Nat
      /\ \A i \in 1..c : SubSeq(calls, 1, c)[i] = calls[i]
  BY CallsCut
<1>2. Matches(calls, path, loops, AnyLoop) /\ ScopesKnown(calls, loops)
  BY DEF Stack
<1>3. Matches(SubSeq(calls, 1, c), newpath, SubSeq(loops, 1, n), AnyLoop)
  BY <1>2, MatchesCut
<1>4. ScopesKnown(SubSeq(calls, 1, c), SubSeq(loops, 1, n))
  BY <1>2, ScopesCut
<1>5. StepsOfTries(SubSeq(loops, 1, n), SubSeq(tries, 1, m))
  <2> SUFFICES ASSUME NEW h \in 1..Len(SubSeq(tries, 1, m)),
                      NEW e, e = SubSeq(tries, 1, m)[h]
               PROVE  CutAt(SubSeq(loops, 1, n), e.state.nForStep,
                            e.state.nFuncCalls, Len(e.path))
    BY DEF StepsOfTries
  <2>1. h \in 1..Len(tries) /\ e = tries[h] /\ Before(e, c, d)
    BY ListCut
  <2>2. e \in Saved
    BY <2>1, SavedFields
  <2>3. CutAt(loops, e.state.nForStep, e.state.nFuncCalls, Len(e.path))
    BY <2>1 DEF Stack, StepsOfTries
  <2> QED BY <1>1, <2>1, <2>2, <2>3, SizesCut
<1>6. StepsOfCalls(SubSeq(calls, 1, c), SubSeq(loops, 1, n))
  <2> SUFFICES ASSUME NEW j \in 1..c, calls[j].status # "load"
               PROVE  CutAt(SubSeq(loops, 1, n), calls[j].nForStep, j, 0)
    BY <1>1 DEF StepsOfCalls
  <2>1. j \in 1..Len(calls) /\ j \in Nat /\ 0 \in Nat /\ d \in Nat
        /\ (j < c \/ (j = c /\ 0 <= d))
    BY <1>1
  <2>2. CutAt(loops, calls[j].nForStep, j, 0)
    BY <2>1 DEF Stack, StepsOfCalls
  <2> QED BY <1>1, <2>1, <2>2, CutWithin
<1> QED BY <1>3, <1>4, <1>5, <1>6 DEF Stack

LEMMA HeldCut ==
    ASSUME NEW loops \in Seq(Saved), NEW steps \in Seq(Steps \cup {0}), Held(loops, steps),
           NEW n \in 0..Len(loops)
    PROVE  Held(SubSeq(loops, 1, n), SubSeq(steps, 1, n))
<1>1. Len(loops) \in Nat /\ n \in Nat /\ n \in 0..Len(steps) /\ \A i \in 1..n : i \in 1..Len(loops)
  BY LenProperties DEF Held
<1>2. /\ Len(SubSeq(loops, 1, n)) = n /\ Len(SubSeq(steps, 1, n)) = n
      /\ \A i \in 1..n : SubSeq(loops, 1, n)[i] = loops[i] /\ SubSeq(steps, 1, n)[i] = steps[i]
  BY <1>1, SubSeqProperties
<1> QED BY <1>1, <1>2 DEF Held

LEMMA HeldAppend ==
    ASSUME NEW loops \in Seq(Saved), NEW steps \in Seq(Steps \cup {0}), Held(loops, steps),
           NEW e \in Saved, NEW step \in Steps \cup {0}, e.path[Len(e.path)].step = step
    PROVE  Held(Append(loops, e), Append(steps, step))
<1>1. Len(loops) \in Nat /\ Len(loops) = Len(steps)
  BY LenProperties DEF Held
<1>2. /\ Len(Append(loops, e)) = Len(loops) + 1 /\ Len(Append(steps, step)) = Len(loops) + 1
      /\ \A i \in 1..Len(loops) :
             Append(loops, e)[i] = loops[i] /\ Append(steps, step)[i] = steps[i]
      /\ Append(loops, e)[Len(loops) + 1] = e /\ Append(steps, step)[Len(loops) + 1] = step
  BY <1>1, AppendProperties
<1>3. \A i \in 1..(Len(loops) + 1) : i = Len(loops) + 1 \/ i \in 1..Len(loops)
  BY <1>1
<1> QED BY <1>1, <1>2, <1>3 DEF Held

LEMMA StackRecall ==
    ASSUME NEW calls \in Seq(Calls), NEW path, NEW calls2 \in Seq(Calls), NEW path2,
           NEW loops \in Seq(Saved), NEW tries, Stack(calls, path, tries, loops),
           SamePlaces(calls, path, calls2, path2), StepsOfCalls(calls2, loops)
    PROVE  Stack(calls2, path2, tries, loops)
BY MatchesRecall DEF Stack

LEMMA StackEnterLoop ==
    ASSUME NEW calls \in Seq(Calls), NEW path \in Seq(Blocks),
           NEW loops \in Seq(Saved), NEW tries \in Seq(Saved), Stack(calls, path, tries, loops),
           NEW b \in AnyLoop, Frame(calls, Len(calls)),
           \A h \in 1..Len(tries) : /\ tries[h].state.nFuncCalls \in 0..Len(calls)
                                    /\ Len(tries[h].path) \in Nat
                                    /\ tries[h].state.nFuncCalls = Len(calls)
                                           => Len(tries[h].path) <= Len(path) + 1,
           NEW e \in Saved, e.path = Append(path, b), e.state.nFuncCalls = Len(calls),
           e.state.nScopes = 1 + Started(calls, Len(calls))
    PROVE  Stack(calls, Append(path, b), tries, Append(loops, e))
<1>1. Matches(calls, path, loops, AnyLoop) /\ ScopesKnown(calls, loops) /\ b \in Blocks
  BY DEF Stack, AnyLoop
<1>2. Matches(calls, Append(path, b), Append(loops, e), AnyLoop)
  BY <1>1, MatchesAppend
<1>3. ScopesKnown(calls, Append(loops, e))
  BY <1>1, ScopesGrow
<1>4. Len(e.path) = Len(path) + 1 /\ Len(path) \in Nat /\ Len(calls) \in Nat
  BY AppendProperties, LenProperties
<1>5. StepsOfTries(Append(loops, e), tries)
  <2> SUFFICES ASSUME NEW h \in 1..Len(tries)
               PROVE  CutAt(Append(loops, e), tries[h].state.nForStep,
                            tries[h].state.nFuncCalls, Len(tries[h].path))
    BY DEF StepsOfTries
  <2>1. /\ tries[h].state.nFuncCalls \in 0..Len(calls) /\ Len(tries[h].path) \in Nat
        /\ tries[h].state.nFuncCalls = Len(calls) => Len(tries[h].path) <= Len(path) + 1
    OBVIOUS
  <2>2. CutAt(loops, tries[h].state.nForStep, tries[h].state.nFuncCalls, Len(tries[h].path))
    BY DEF Stack, StepsOfTries
  <2> QED BY <1>4, <2>1, <2>2, SizesGrow
<1>6. StepsOfCalls(calls, Append(loops, e))
  <2> SUFFICES ASSUME NEW j \in 1..Len(calls), calls[j].status # "load"
               PROVE  CutAt(Append(loops, e), calls[j].nForStep, j, 0)
    BY DEF StepsOfCalls
  <2>1. j \in 0..Len(calls) /\ 0 \in Nat /\ (j = Len(calls) => 0 <= Len(path) + 1)
    BY CallPoint
  <2>2. CutAt(loops, calls[j].nForStep, j, 0)
    BY DEF Stack, StepsOfCalls
  <2> QED BY <1>4, <2>1, <2>2, SizesGrow
<1> QED BY <1>2, <1>3, <1>5, <1>6 DEF Stack

LEMMA StackEnterTry ==
    ASSUME NEW calls \in Seq(Calls), NEW path \in Seq(Blocks),
           NEW loops \in Seq(Saved), NEW tries \in Seq(Saved), Stack(calls, path, tries, loops),
           NEW b \in Blocks, b \notin AnyLoop, NEW e, Len(e.path) = Len(path) + 1,
           e.state.nFuncCalls = Len(calls), e.state.nForStep = Len(loops)
    PROVE  Stack(calls, Append(path, b), Append(tries, e), loops)
<1>1. Matches(calls, path, loops, AnyLoop)
  BY DEF Stack
<1>2. Matches(calls, Append(path, b), loops, AnyLoop)
  BY <1>1, MatchesDeeper
<1>3. CutAt(loops, Len(loops), Len(calls), Len(path) + 1)
  BY <1>1, WholeList
<1>4. /\ Len(Append(tries, e)) = Len(tries) + 1 /\ Len(tries) \in Nat
      /\ \A h \in 1..Len(tries) : Append(tries, e)[h] = tries[h]
      /\ Append(tries, e)[Len(tries) + 1] = e
  BY AppendProperties, LenProperties
<1>5. \A h \in 1..(Len(tries) + 1) : h \in 1..Len(tries) \/ h = Len(tries) + 1
  BY <1>4
<1>6. StepsOfTries(loops, Append(tries, e))
  BY <1>3, <1>4, <1>5 DEF Stack, StepsOfTries
<1> QED BY <1>2, <1>6 DEF Stack

-----------------------------------------------------------------------------
(* The machine's lists of steps, as the lemmas on them want them. *)
LEMMA TypesOfSteps ==
    ASSUME Inv
    PROVE  /\ BegunCalls(aFuncCall) \in Seq(Calls) /\ Len(BegunCalls(aFuncCall)) = Len(aFuncCall)
           /\ aFuncCall \in Seq(Calls) /\ Len(aFuncCall) \in Nat
           /\ pTry \in Seq(Saved) /\ pForStep \in Seq(Steps \cup {0}) /\ Len(pForStep) \in Nat
           /\ pc \in Locs /\ pc.path \in Seq(Blocks)
           /\ Begun(pc) \in Seq(Blocks) /\ Len(Begun(pc)) \in Nat
<1>1. /\ aFuncCall \in Seq(Calls) /\ Len(aFuncCall) \in Nat /\ pTry \in Seq(Saved)
      /\ pc \in Locs /\ pc.path \in Seq(Blocks)
  BY TypesOfLists
<1>2. pForStep \in Seq(Steps \cup {0}) /\ Len(pForStep) \in Nat
  BY LenProperties DEF Inv, Typed
<1> QED BY <1>1, <1>2, BegunCallsType, BegunPath

(* Calls, pTry and pForStep are cut at one point of the text. *)
LEMMA StepsCut ==
    ASSUME Inv, NEW loops \in Seq(Saved), StepsOf(loops), Begun(pc') \in Seq(Blocks),
           NEW c \in 0..Len(aFuncCall), NEW d \in Nat \ {0},
           NEW n, CutAt(loops, n, c, d), NEW m, CutAt(pTry, m, c, d),
           aFuncCall' = SubSeq(aFuncCall, 1, c), pTry' = SubSeq(pTry, 1, m),
           pForStep' = SubSeq(pForStep, 1, n),
           NEW place, place = Place(BegunCalls(aFuncCall), Begun(pc), c),
           d - 1 <= Len(Begun(pc')), d - 1 <= Len(place),
           \A i \in 1..(d - 1) : Begun(pc')[i] = place[i],
           \A i \in d..Len(Begun(pc')) : Begun(pc')[i] \notin AnyLoop
    PROVE  StepList'
<1> DEFINE calls == BegunCalls(aFuncCall)
           list == SubSeq(loops, 1, n)
<1>1. /\ calls \in Seq(Calls) /\ Len(calls) = Len(aFuncCall) /\ aFuncCall \in Seq(Calls)
      /\ pTry \in Seq(Saved) /\ Begun(pc) \in Seq(Blocks) /\ pForStep \in Seq(Steps \cup {0})
  BY TypesOfSteps
<1>2. Stack(calls, Begun(pc), pTry, loops) /\ Held(loops, pForStep) /\ c \in 0..Len(calls)
  BY <1>1 DEF StepsOf
<1>3. place = Place(calls, Begun(pc), c)
  OBVIOUS
<1>4. BegunCalls(aFuncCall') = SubSeq(calls, 1, c)
  BY <1>1, BegunCut
<1> HIDE DEF calls
<1>5. Stack(SubSeq(calls, 1, c), Begun(pc'), SubSeq(pTry, 1, m), list)
  BY <1>1, <1>2, <1>3, StackCut
<1>6. list \in Seq(Saved) /\ Held(list, pForStep')
  <2>1. n \in 0..Len(loops) /\ list \in Seq(Saved)
    BY ListCut DEF CutAt
  <2> QED BY <1>1, <1>2, <2>1, HeldCut
<1>7. StepsOf(list)'
  BY <1>4, <1>5, <1>6 DEF StepsOf
<1> QED BY <1>6, <1>7 DEF StepList

-----------------------------------------------------------------------------
(* q is p, or p without its last block. *)
Outer(q, p) ==
    /\ q \in Seq(Blocks) /\ Len(q) \in Nat /\ p \in Seq(Blocks) /\ Len(p) \in Nat
    /\ Len(q) <= Len(p) /\ Len(p) <= Len(q) + 1
    /\ \A d \in 1..Len(q) : q[d] = p[d]

LEMMA BegunOuter ==
    ASSUME Inv, NEW k \in 0..Len(aFuncCall)
    PROVE  Outer(Place(BegunCalls(aFuncCall), Begun(pc), k), Place(aFuncCall, pc.path, k))
<1> DEFINE q == Place(BegunCalls(aFuncCall), Begun(pc), k)
           p == Place(aFuncCall, pc.path, k)
           calls == aFuncCall
           l == pc
<1>1. /\ q = Place(BegunCalls(calls), Begun(l), k) /\ p = Place(calls, l.path, k)
      /\ calls \in Seq(Calls) /\ l \in Locs /\ k \in 0..Len(calls)
  BY TypesOfSteps
<1> HIDE DEF q, p, calls, l
<1> QED BY <1>1, BegunPlace DEF Outer, q, p

(* Errors. *)
LEMMA UnwindSteps ==
    ASSUME Inv, Book, StepList, NEW h \in 1..Len(pTry), NEW cut, NEW calls,
           Unwind(h, cut, calls), cut.nFuncCalls = pTry[h].state.nFuncCalls,
           cut.nForStep = pTry[h].state.nForStep,
           \/ calls = aFuncCall
           \/ /\ calls = Front(aFuncCall) /\ aFuncCall # <<>>
              /\ aFuncCall[Len(aFuncCall)].status # "started"
    PROVE  StepList'
<1> DEFINE k == pTry[h].state.nFuncCalls
           p == pTry[h].path
           d == Len(p)
           n == pTry[h].state.nForStep
           place == Place(aFuncCall, pc.path, k)
           begun == Place(BegunCalls(aFuncCall), Begun(pc), k)
           m == h - 1
<1>1. /\ aFuncCall \in Seq(Calls) /\ pForStep \in Seq(Steps \cup {0}) /\ Len(pForStep) \in Nat
      /\ pc \in Locs
  BY TypesOfSteps
<1>2. /\ d \in Nat \ {0} /\ d <= Len(place) /\ \A i \in 1..d : p[i] = place[i]
      /\ k \in 0..Len(aFuncCall) /\ aFuncCall' = SubSeq(aFuncCall, 1, k)
      /\ CutAt(pTry, m, k, d) /\ pTry' = SubSeq(pTry, 1, m)
      /\ pc'.path \in Seq(Blocks) /\ Len(pc'.path) = d /\ pc'.at = "body"
      /\ pc'.path[d] = Block("catch", FALSE, 0)
      /\ \A i \in 1..(d - 1) : pc'.path[i] = p[i]
  <2> HIDE DEF k, p, d, m
  <2>1. CaughtAt(h)
    BY UnwindPoint
  <2> QED BY <2>1 DEF CaughtAt, k, p, d, m
<1>3. /\ Len(begun) \in Nat /\ Len(place) \in Nat /\ Len(place) <= Len(begun) + 1
      /\ \A i \in 1..Len(begun) : begun[i] = place[i]
  <2>1. k \in 0..Len(aFuncCall)
    BY <1>2
  <2> HIDE DEF k
  <2>2. Outer(begun, place)
    BY <2>1, BegunOuter
  <2> QED BY <2>2 DEF Outer
<1>4. Begun(pc') = pc'.path
  BY <1>2 DEF Begun
<1>5. PICK loops \in Seq(Saved) : StepsOf(loops)
  BY DEF StepList
<1>6. CutAt(loops, n, k, d) /\ Len(loops) = Len(pForStep)
  BY <1>5 DEF StepsOf, Stack, StepsOfTries, Held
<1>7. pForStep' = SubSeq(pForStep, 1, n)
  BY <1>1, <1>6, BackIsPrefix DEF Unwind, CutAt
<1>8. Block("catch", FALSE, 0) \notin AnyLoop
  BY DEF Block, AnyLoop, IsLoop
<1> HIDE DEF k, p, d, n, m, place
<1>9. /\ d - 1 <= Len(Begun(pc')) /\ d - 1 <= Len(begun) /\ Begun(pc') \in Seq(Blocks)
      /\ \A i \in 1..(d - 1) : Begun(pc')[i] = begun[i]
  <2>1. \A i \in 1..(d - 1) : i \in 1..d /\ i \in 1..Len(begun)
    BY <1>2, <1>3
  <2> QED BY <1>2, <1>3, <1>4, <2>1
<1>10. \A i \in d..Len(Begun(pc')) : Begun(pc')[i] \notin AnyLoop
  <2>1. \A i \in d..Len(Begun(pc')) : i = d
    BY <1>2, <1>4
  <2> QED BY <1>2, <1>4, <1>8, <2>1
<1> QED BY <1>2, <1>5, <1>6, <1>7, <1>9, <1>10, StepsCut

LEMMA SameSteps ==
    ASSUME StepList, Begun(pc') = Begun(pc), UNCHANGED <<aFuncCall, pForStep, pTry>>
    PROVE  StepList'
BY DEF StepList, StepsOf

LEMMA UncaughtSteps == StepList /\ Uncaught => StepList'
BY SameSteps DEF Uncaught, marks

LEMMA ErrorSteps ==
    ASSUME Inv, Book, StepList, NEW scopes, NEW calls, Error(scopes, calls),
           \/ calls = aFuncCall
           \/ /\ calls = Front(aFuncCall) /\ aFuncCall # <<>>
              /\ aFuncCall[Len(aFuncCall)].status # "started"
    PROVE  StepList'
<1>1. CASE ~Handled(Len(pTry), scopes)
  BY <1>1, UncaughtSteps DEF Error
<1>2. CASE Handled(Len(pTry), scopes)
  <2>1. Len(pTry) \in 1..Len(pTry)
    BY <1>2, TypesOfLists DEF Handled
  <2>2. Unwind(Len(pTry), pTry[Len(pTry)].state, calls)
    BY <1>2 DEF Error
  <2> QED BY <2>1, <2>2, UnwindSteps
<1> QED BY <1>1, <1>2

LEMMA ErrorNowSteps == Inv /\ Book /\ StepList /\ ErrorNow => StepList'
BY ErrorSteps DEF ErrorNow

-----------------------------------------------------------------------------
(* Moving within a block. *)
LEMMA MoveSteps ==
    ASSUME Inv, StepList,
           PushOperand \/ FreeStack \/ LoopTest \/ EndBody
           \/ (pc.at = "optional" /\ pc' = [pc EXCEPT !.at = "body"]
               /\ UNCHANGED <<aFuncCall, marks, pTry>>)
    PROVE  StepList'
<1>1. pc \in Locs
  BY TypesOfSteps
<1>2. UNCHANGED <<aFuncCall, pForStep, pTry>>
  BY DEF PushOperand, FreeStack, LoopTest, EndBody, marks
<1>3. pc'.path = pc.path /\ (pc'.at = "init" <=> pc.at = "init")
  <2>1. CASE PushOperand
    BY <1>1, <2>1 DEF PushOperand, Locs
  <2>2. CASE FreeStack
    BY <1>1, <2>2 DEF FreeStack, Locs
  <2>3. CASE LoopTest
    BY <1>1, <2>3 DEF LoopTest, Loc
  <2>4. CASE EndBody
    BY <1>1, <2>4 DEF EndBody, AtStatement, Loc
  <2>5. CASE pc.at = "optional" /\ pc' = [pc EXCEPT !.at = "body"]
    BY <1>1, <2>5 DEF Locs
  <2> QED BY <2>1, <2>2, <2>3, <2>4, <2>5
<1>4. Begun(pc') = Begun(pc)
  BY <1>3 DEF Begun
<1> QED BY <1>2, <1>4, SameSteps

-----------------------------------------------------------------------------
(* Entering a block. *)
LEMMA FrontThenLast ==
    ASSUME NEW path \in Seq(Blocks), NEW b \in Blocks
    PROVE  /\ Front(Append(path, b)) = path
           /\ path # <<>> => path = Append(Front(path), path[Len(path)])
<1>1. Len(path) \in Nat
  BY LenProperties
<1>2. Front(Append(path, b)) = path
  <2> DEFINE longer == Append(path, b)
             m == Len(path)
  <2>1. /\ longer \in Seq(Blocks) /\ Len(longer) = m + 1
        /\ \A i \in 1..m : longer[i] = path[i]
    BY AppendProperties
  <2>2. Front(longer) = SubSeq(longer, 1, m)
    BY <1>1, <2>1 DEF Front
  <2>3. m \in 0..Len(longer) /\ m \in Nat
    BY <1>1, <2>1
  <2> HIDE DEF longer, m
  <2>4. /\ SubSeq(longer, 1, m) \in Seq(Blocks) /\ Len(SubSeq(longer, 1, m)) = m
        /\ \A i \in 1..m : SubSeq(longer, 1, m)[i] = longer[i]
    BY <2>1, <2>3, SubSeqProperties
  <2>5. SubSeq(longer, 1, m) = path
    <3>1. Len(path) = m
      BY DEF m
    <3> QED BY <2>1, <2>4, <3>1, SeqEqual
  <2> QED BY <2>2, <2>5 DEF longer
<1>3. ASSUME path # <<>> PROVE path = Append(Front(path), path[Len(path)])
  <2> DEFINE m == Len(path) - 1
             last == path[Len(path)]
             other == Append(Front(path), last)
  <2>1. m \in 0..Len(path) /\ m \in Nat /\ Len(path) = m + 1 /\ Front(path) = SubSeq(path, 1, m)
    BY <1>1, <1>3, EmptySeq DEF Front
  <2>2. last \in Blocks
    BY <1>1, <2>1, ElementOfSeq
  <2> HIDE DEF m, last
  <2>3. /\ Front(path) \in Seq(Blocks) /\ Len(Front(path)) = m
        /\ \A i \in 1..m : Front(path)[i] = path[i]
    BY <2>1, SubSeqProperties
  <2>4. /\ other \in Seq(Blocks) /\ Len(other) = m + 1 /\ other[m + 1] = last
        /\ \A i \in 1..m : other[i] = Front(path)[i]
    BY <2>2, <2>3, AppendProperties
  <2> HIDE DEF other
  <2>5. path[m + 1] = last
    BY <2>1 DEF last
  <2>6. \A i \in 1..(m + 1) : i \in 1..m \/ i = m + 1
    BY <2>1
  <2>7. \A i \in 1..Len(path) : path[i] = other[i]
    BY <2>1, <2>3, <2>4, <2>5, <2>6
  <2>8. path = other
    BY <2>1, <2>4, <2>7, SeqEqual
  <2> QED BY <2>8 DEF other, last
<1> QED BY <1>2, <1>3

LEMMA BeginLoopSteps ==
    ASSUME Inv, Book, StepList, Frame(aFuncCall, Len(aFuncCall)), NEW b \in AnyLoop,
           Begun(pc') = Append(Begun(pc), b), pForStep' = Append(pForStep, b.step),
           UNCHANGED <<aFuncCall, pTry>>
    PROVE  StepList'
<1> DEFINE calls == BegunCalls(aFuncCall)
           path == Begun(pc)
           deeper == Append(path, b)
           saved == VMState(0, 0, 0)
<1>1. /\ calls \in Seq(Calls) /\ Len(calls) = Len(aFuncCall) /\ aFuncCall \in Seq(Calls)
      /\ pTry \in Seq(Saved) /\ pForStep \in Seq(Steps \cup {0}) /\ Len(aFuncCall) \in Nat
      /\ path \in Seq(Blocks) /\ pc \in Locs
  BY TypesOfSteps
<1>2. PICK loops \in Seq(Saved) : Stack(calls, path, pTry, loops) /\ Held(loops, pForStep)
  BY DEF StepList, StepsOf
<1>3. b \in Blocks /\ b.step \in Steps \cup {0}
  BY DEF AnyLoop, Blocks, LoopBlocks, IsLoop, Block
<1>4. PICK e \in Saved : e.path = deeper /\ e.state = saved
  <2>1. saved \in States
    BY StateType
  <2>2. deeper \in Seq(Blocks) \ {<<>>}
    <3>1. /\ deeper \in Seq(Blocks) /\ Len(deeper) = Len(path) + 1 /\ Len(path) \in Nat
      BY <1>1, <1>3, AppendProperties, LenProperties
    <3> QED BY <3>1, EmptySeq
  <2> HIDE DEF saved, deeper
  <2>3. [path |-> deeper, state |-> saved] \in Saved
    BY <2>1, <2>2 DEF Saved
  <2> QED BY <2>3
<1>5. /\ Frame(calls, Len(calls)) /\ saved.nFuncCalls = Len(calls)
      /\ saved.nScopes = 1 + Started(calls, Len(calls))
  <2> DEFINE c == Len(aFuncCall)
  <2>1. c \in 0..Len(aFuncCall) /\ Len(calls) = c
    BY <1>1
  <2>2. saved.nFuncCalls = c /\ saved.nScopes = nScopes
    BY DEF VMState
  <2>3. Frame(aFuncCall, c) /\ nScopes = 1 + Started(aFuncCall, c)
    BY DEF Book, ScopesCounted
  <2> HIDE DEF c, saved
  <2>4. Frame(calls, c) = Frame(aFuncCall, c) /\ Started(calls, c) = Started(aFuncCall, c)
    BY <1>1, <2>1, BegunFrames
  <2> QED BY <2>1, <2>2, <2>3, <2>4
<1>6. \A h \in 1..Len(pTry) : /\ pTry[h].state.nFuncCalls \in 0..Len(calls)
                              /\ Len(pTry[h].path) \in Nat
                              /\ pTry[h].state.nFuncCalls = Len(calls)
                                     => Len(pTry[h].path) <= Len(path) + 1
  <2> SUFFICES ASSUME NEW h \in 1..Len(pTry), NEW k, k = pTry[h].state.nFuncCalls
               PROVE  /\ k \in 0..Len(aFuncCall) /\ Len(pTry[h].path) \in Nat
                      /\ k = Len(aFuncCall) => Len(pTry[h].path) <= Len(path) + 1
    BY <1>1
  <2>1. Matches(aFuncCall, pc.path, pTry, TryBlocks) /\ ScopesKnown(aFuncCall, pTry)
    BY DEF Book, Data
  <2>2. pc.path \in Seq(Blocks) /\ Len(pc.path) \in Nat /\ Len(pc.path) <= Len(path) + 1
    BY <1>1, TypesOfSteps, TypesOfLists, BegunPath
  <2>3. /\ k \in 0..Len(aFuncCall) /\ Len(pTry[h].path) \in Nat
        /\ Len(pTry[h].path) <= Len(Place(aFuncCall, pc.path, k))
    BY <1>1, <2>1, <2>2, PointIsOpen
  <2>4. k = Len(aFuncCall) => Place(aFuncCall, pc.path, k) = pc.path
    BY <1>1 DEF Place
  <2>5. Len(path) \in Nat
    BY <1>1, LenProperties
  <2> QED BY <2>2, <2>3, <2>4, <2>5
<1> HIDE DEF calls, path, saved
<1>7. Stack(calls, Append(path, b), pTry, Append(loops, e))
  BY <1>1, <1>2, <1>4, <1>5, <1>6, StackEnterLoop
<1>8. Held(Append(loops, e), Append(pForStep, b.step)) /\ Append(loops, e) \in Seq(Saved)
  <2>1. e.path[Len(e.path)].step = b.step
    BY <1>1, <1>3, <1>4, AppendProperties
  <2>2. Append(loops, e) \in Seq(Saved)
    BY <1>2, <1>4, AppendProperties
  <2>3. b.step \in Steps \cup {0}
    BY <1>3
  <2> QED BY <1>1, <1>2, <1>4, <2>1, <2>2, <2>3, HeldAppend
<1>9. StepsOf(Append(loops, e))'
  BY <1>7, <1>8 DEF StepsOf, calls, path
<1> QED BY <1>8, <1>9 DEF StepList

LEMMA StepNumberSteps == Inv /\ Book /\ StepList /\ StepNumber => StepList'
<1> SUFFICES ASSUME Inv, Book, StepList, StepNumber PROVE StepList'
  OBVIOUS
<1> DEFINE b == pc.path[Len(pc.path)]
<1>1. /\ pc.at = "init" /\ ~Loaded /\ pc' = Loc(pc.path, "next")
      /\ pForStep' = Append(pForStep, Last(pc.path).step) /\ UNCHANGED <<aFuncCall, pTry>>
  BY DEF StepNumber
<1>2. pc.path # <<>> /\ IsLoop(b) /\ CallsKnown(aFuncCall, pc)
  BY <1>1 DEF Book, CallsKnown, AtLoop
<1>3. b \in AnyLoop /\ Last(pc.path) = b
  BY <1>2, BlockOfPath DEF AnyLoop
<1>4. Begun(pc') = pc.path /\ Begun(pc) = Front(pc.path)
  BY <1>1 DEF Begun, Loc
<1>5. pc.path = Append(Front(pc.path), b)
  <2>1. pc.path \in Seq(Blocks) /\ b \in Blocks
    BY <1>2, TypesOfLists, BlockOfPath
  <2> QED BY <1>2, <2>1, FrontThenLast
<1>6. Frame(aFuncCall, Len(aFuncCall))
  BY <1>1, <1>2, LastIsFrame
<1> HIDE DEF b
<1> QED BY <1>1, <1>3, <1>4, <1>5, <1>6, BeginLoopSteps

LEMMA EnterForSteps ==
    ASSUME Inv, StepList, NEW marked \in MarkChoices, NEW step \in Steps, EnterFor(marked, step)
    PROVE  StepList'
<1> DEFINE b == Block("for", marked, step)
           path == Append(pc.path, b)
<1>1. /\ pc.at = "body" /\ pc' = Loc(path, "init") /\ UNCHANGED <<aFuncCall, pForStep, pTry>>
  BY DEF EnterFor, AtStatement
<1>2. pc.path \in Seq(Blocks) /\ b \in Blocks
  BY TypesOfLists DEF Blocks, LoopBlocks, Block, MarkChoices
<1> HIDE DEF b
<1>3. Front(path) = pc.path
  BY <1>2, FrontThenLast
<1>4. Begun(pc') = Begun(pc)
  BY <1>1, <1>3 DEF Begun, Loc
<1> QED BY <1>1, <1>4, SameSteps

LEMMA EnterWhileSteps ==
    ASSUME Inv, Book, StepList, NEW marked \in MarkChoices, EnterWhile(marked)
    PROVE  StepList'
<1> DEFINE b == Block("while", marked, 0)
<1>1. /\ pc.at = "body" /\ ~Loaded /\ pc' = Loc(Append(pc.path, b), "next")
      /\ pForStep' = Append(pForStep, 0) /\ UNCHANGED <<aFuncCall, pTry>>
  BY DEF EnterWhile, AtStatement
<1>2. b \in AnyLoop /\ b.step = 0
  BY DEF AnyLoop, Blocks, LoopBlocks, Block, MarkChoices, IsLoop
<1> HIDE DEF b
<1>3. Begun(pc') = Append(pc.path, b) /\ Begun(pc) = pc.path
  BY <1>1 DEF Begun, Loc
<1>4. Frame(aFuncCall, Len(aFuncCall))
  BY <1>1, LastIsFrame DEF Book
<1> QED BY <1>1, <1>2, <1>3, <1>4, BeginLoopSteps

LEMMA EnterTrySteps == Inv /\ Book /\ StepList /\ EnterTry => StepList'
<1> SUFFICES ASSUME Inv, Book, StepList, EnterTry PROVE StepList'
  OBVIOUS
<1> DEFINE calls == BegunCalls(aFuncCall)
           b == Block("try", FALSE, 0)
           path == Append(pc.path, b)
           saved == VMState(Len(pExitMark), Len(pLoopMark), Len(pTry) + 1)
           e == [path |-> path, state |-> saved]
<1>1. /\ calls \in Seq(Calls) /\ Len(calls) = Len(aFuncCall)
      /\ pTry \in Seq(Saved) /\ pc.path \in Seq(Blocks) /\ Len(pc.path) \in Nat
  BY TypesOfSteps, TypesOfLists
<1>2. /\ pc.at = "body" /\ pTry' = Append(pTry, e) /\ pc' = Loc(path, "body")
      /\ UNCHANGED <<aFuncCall, pForStep>>
  BY DEF EnterTry, AtStatement, marks
<1>3. b \in Blocks /\ b \notin AnyLoop
  BY DEF Blocks, Block, AnyLoop, IsLoop
<1>4. Begun(pc) = pc.path /\ Begun(pc') = path
  BY <1>2 DEF Begun, Loc
<1>5. PICK loops \in Seq(Saved) : Stack(calls, pc.path, pTry, loops) /\ Held(loops, pForStep)
  BY <1>4 DEF StepList, StepsOf
<1>6. /\ e.state.nFuncCalls = Len(calls) /\ e.state.nForStep = Len(loops)
      /\ e.path = path
  BY <1>1, <1>5 DEF VMState, Held
<1> HIDE DEF b, saved, e, calls
<1>7. Len(e.path) = Len(pc.path) + 1
  BY <1>1, <1>3, <1>6, AppendProperties
<1>8. Stack(calls, path, Append(pTry, e), loops)
  BY <1>1, <1>3, <1>5, <1>6, <1>7, StackEnterTry
<1>9. StepsOf(loops)'
  BY <1>2, <1>4, <1>5, <1>8 DEF StepsOf, calls
<1> QED BY <1>9 DEF StepList

-----------------------------------------------------------------------------
(* Leaving a block. *)
LEMMA LeaveSteps ==
    ASSUME Inv, Book, StepList, pc.path # <<>>, pc.at # "init",
           Frame(aFuncCall, Len(aFuncCall)), Begun(pc') = Front(pc.path), UNCHANGED aFuncCall,
           NEW b, b = pc.path[Len(pc.path)],
           NEW n, n = Len(pForStep) - (IF b \in AnyLoop THEN 1 ELSE 0),
           n \in Nat => pForStep' = SubSeq(pForStep, 1, n),
           NEW m, m = Len(pTry) - (IF b \in TryBlocks THEN 1 ELSE 0),
           m \in Nat => pTry' = SubSeq(pTry, 1, m)
    PROVE  StepList'
<1> DEFINE calls == BegunCalls(aFuncCall)
           c == Len(aFuncCall)
           d == Len(pc.path)
<1>1. /\ calls \in Seq(Calls) /\ Len(calls) = c /\ aFuncCall \in Seq(Calls) /\ c \in Nat
      /\ pTry \in Seq(Saved) /\ pc.path \in Seq(Blocks) /\ d \in Nat /\ pc \in Locs
      /\ Len(pForStep) \in Nat
  BY TypesOfSteps, TypesOfLists
<1>2. Begun(pc) = pc.path
  BY DEF Begun
<1>3. PICK loops \in Seq(Saved) : StepsOf(loops)
  BY DEF StepList
<1>4. Matches(calls, pc.path, loops, AnyLoop) /\ Len(loops) = Len(pForStep)
  BY <1>2, <1>3 DEF StepsOf, Stack, Held
<1>5. Frame(calls, Len(calls))
  BY <1>1, BegunFrames
<1>6. CutAt(loops, n, c, d)
  <2>1. n = Len(loops) - (IF pc.path[Len(pc.path)] \in AnyLoop THEN 1 ELSE 0)
    BY <1>4
  <2> HIDE DEF calls
  <2>2. CutAt(loops, n, Len(calls), Len(pc.path))
    BY <1>1, <1>4, <1>5, <2>1, CutInnermost
  <2> QED BY <1>1, <2>2
<1>7. CutAt(pTry, m, c, d)
  <2>1. m = Len(pTry) - (IF pc.path[Len(pc.path)] \in TryBlocks THEN 1 ELSE 0)
    OBVIOUS
  <2>2. Matches(aFuncCall, pc.path, pTry, TryBlocks)
    BY DEF Book, Data
  <2> QED BY <1>1, <2>1, <2>2, CutInnermost
<1>8. /\ pForStep' = SubSeq(pForStep, 1, n) /\ pTry' = SubSeq(pTry, 1, m)
      /\ aFuncCall' = SubSeq(aFuncCall, 1, c) /\ c \in 0..Len(aFuncCall)
  <2>1. n \in Nat /\ m \in Nat
    BY <1>6, <1>7 DEF CutAt
  <2> QED BY <1>1, <2>1, SubSeqFull
<1>9. d # 0
  BY <1>1, EmptySeq
<1>10. /\ Begun(pc') \in Seq(Blocks) /\ Len(Begun(pc')) = d - 1 /\ d - 1 \in Nat
       /\ \A i \in 1..(d - 1) : Begun(pc')[i] = pc.path[i]
  <2> DEFINE f == d - 1
  <2>1. f \in 0..Len(pc.path) /\ f \in Nat /\ Front(pc.path) = SubSeq(pc.path, 1, f)
    BY <1>1, <1>9 DEF Front
  <2> HIDE DEF f
  <2>2. /\ Begun(pc') \in Seq(Blocks) /\ Len(Begun(pc')) = f
        /\ \A i \in 1..f : Begun(pc')[i] = pc.path[i]
    BY <1>1, <2>1, SubSeqProperties
  <2> QED BY <2>1, <2>2 DEF f
<1>11. Place(calls, Begun(pc), c) = pc.path
  BY <1>1, <1>2 DEF Place
<1> HIDE DEF c, d
<1>12. /\ d \in Nat \ {0} /\ d - 1 <= Len(Begun(pc'))
       /\ \A i \in d..Len(Begun(pc')) : Begun(pc')[i] \notin AnyLoop
  BY <1>1, <1>9, <1>10
<1>13. d - 1 <= Len(pc.path)
  BY <1>1 DEF d
<1> QED BY <1>3, <1>6, <1>7, <1>8, <1>10, <1>11, <1>12, <1>13, StepsCut

LEMMA LeaveTrySteps == Inv /\ Book /\ StepList /\ (LeaveTry \/ LeaveCatch) => StepList'
<1> SUFFICES ASSUME Inv, Book, StepList, LeaveTry \/ LeaveCatch PROVE StepList'
  OBVIOUS
<1> DEFINE b == pc.path[Len(pc.path)]
           n == Len(pForStep) - (IF b \in AnyLoop THEN 1 ELSE 0)
           m == Len(pTry) - (IF b \in TryBlocks THEN 1 ELSE 0)
<1>1. /\ pc.at = "body" /\ ~Loaded /\ pc.path # <<>> /\ Begun(pc') = Front(pc.path)
      /\ UNCHANGED <<aFuncCall, pForStep>>
  BY DEF LeaveTry, LeaveCatch, AtStatement, Loc, marks, Begun
<1>2. /\ pTry \in Seq(Saved) /\ Len(pTry) \in Nat /\ Len(pForStep) \in Nat
      /\ pForStep \in Seq(Steps \cup {0})
  BY TypesOfSteps, TypesOfLists
<1>3. Frame(aFuncCall, Len(aFuncCall))
  BY <1>1, LastIsFrame DEF Book
<1>4. pForStep' = SubSeq(pForStep, 1, n)
  <2>1. b \notin AnyLoop
    BY <1>1, BlockOfPath DEF LeaveTry, LeaveCatch, AnyLoop, IsLoop
  <2> QED BY <1>1, <1>2, <2>1, SubSeqFull
<1>5. m \in Nat => pTry' = SubSeq(pTry, 1, m)
  <2>1. CASE LeaveTry
    <3> SUFFICES ASSUME m \in Nat PROVE pTry' = SubSeq(pTry, 1, m)
      OBVIOUS
    <3>1. b \in TryBlocks
      BY <1>1, <2>1, BlockOfPath DEF LeaveTry, TryBlocks
    <3>2. m = Len(pTry) - 1 /\ pTry # <<>> /\ m \in 0..Len(pTry)
      BY <1>2, <3>1, EmptySeq
    <3>3. pTry' = Back(pTry, m)
      BY <2>1, <3>2 DEF LeaveTry, Pop
    <3> HIDE DEF m
    <3> QED BY <1>2, <3>2, <3>3, BackIsPrefix
  <2>2. CASE LeaveCatch
    <3>1. b \notin TryBlocks
      BY <1>1, <2>2, BlockOfPath DEF LeaveCatch, TryBlocks
    <3> QED BY <1>2, <2>2, <3>1, SubSeqFull DEF LeaveCatch
  <2> QED BY <2>1, <2>2
<1>6. b = pc.path[Len(pc.path)] /\ pc.at # "init"
      /\ n = Len(pForStep) - (IF b \in AnyLoop THEN 1 ELSE 0)
      /\ m = Len(pTry) - (IF b \in TryBlocks THEN 1 ELSE 0)
  BY <1>1
<1> HIDE DEF n, m, b
<1> QED BY <1>1, <1>3, <1>4, <1>5, <1>6, LeaveSteps

LEMMA LoopEndSteps == Inv /\ Book /\ StepList /\ LoopEnd => StepList'
<1> SUFFICES ASSUME Inv, Book, StepList, LoopEnd PROVE StepList'
  OBVIOUS
<1> DEFINE b == pc.path[Len(pc.path)]
           n == Len(pForStep) - (IF b \in AnyLoop THEN 1 ELSE 0)
           m == Len(pTry) - (IF b \in TryBlocks THEN 1 ELSE 0)
<1>1. /\ pc.at = "end" /\ Begun(pc') = Front(pc.path) /\ UNCHANGED <<aFuncCall, pTry>>
      /\ pForStep' = Pop(pForStep)
  BY DEF LoopEnd, Loc, Begun
<1>2. /\ pTry \in Seq(Saved) /\ Len(pTry) \in Nat /\ Len(pForStep) \in Nat
      /\ pForStep \in Seq(Steps \cup {0})
  BY TypesOfSteps, TypesOfLists
<1>3. pc.path # <<>> /\ IsLoop(b) /\ Frame(aFuncCall, Len(aFuncCall))
  BY <1>1, LastIsFrame DEF Book, CallsKnown, AtLoop
<1>4. b \in AnyLoop /\ b \notin TryBlocks
  BY <1>3, BlockOfPath DEF AnyLoop, TryBlocks, IsLoop
<1>5. pTry' = SubSeq(pTry, 1, m)
  BY <1>1, <1>2, <1>4, SubSeqFull
<1>6. n \in Nat => pForStep' = SubSeq(pForStep, 1, n)
  <2> SUFFICES ASSUME n \in Nat PROVE pForStep' = SubSeq(pForStep, 1, n)
    OBVIOUS
  <2>1. n = Len(pForStep) - 1 /\ pForStep # <<>> /\ n \in 0..Len(pForStep)
    BY <1>2, <1>4, EmptySeq
  <2>2. pForStep' = Back(pForStep, n)
    BY <1>1, <2>1 DEF Pop
  <2> HIDE DEF n
  <2> QED BY <1>2, <2>1, <2>2, BackIsPrefix
<1>7. b = pc.path[Len(pc.path)] /\ pc.at # "init"
      /\ n = Len(pForStep) - (IF b \in AnyLoop THEN 1 ELSE 0)
      /\ m = Len(pTry) - (IF b \in TryBlocks THEN 1 ELSE 0)
  BY <1>1
<1> HIDE DEF n, m, b
<1> QED BY <1>1, <1>3, <1>5, <1>6, <1>7, LeaveSteps

-----------------------------------------------------------------------------
(* Calls and returns. *)
LEMMA BegunReplace ==
    ASSUME NEW calls \in Seq(Calls), calls # <<>>, NEW call \in Calls
    PROVE  /\ BegunCalls(calls) # <<>>
           /\ BegunCalls(Front(calls)) = Front(BegunCalls(calls))
           /\ BegunCalls(Append(Front(calls), call))
                = Append(Front(BegunCalls(calls)), BegunCall(call))
           /\ Append(Front(calls), call) \in Seq(Calls)
<1> DEFINE c == Len(calls) - 1
           begun == BegunCalls(calls)
<1>1. begun \in Seq(Calls) /\ Len(begun) = Len(calls) /\ Len(calls) \in Nat /\ Len(calls) # 0
  BY BegunCallsType, EmptySeq
<1>2. c \in 0..Len(calls) /\ Front(calls) = SubSeq(calls, 1, c) /\ Front(begun) = SubSeq(begun, 1, c)
  BY <1>1 DEF Front
<1>3. begun # <<>>
  BY <1>1, EmptySeq
<1> HIDE DEF c
<1>4. BegunCalls(SubSeq(calls, 1, c)) = SubSeq(begun, 1, c) /\ SubSeq(calls, 1, c) \in Seq(Calls)
  BY <1>2, BegunCut, CallsCut
<1> HIDE DEF begun
<1>5. BegunCalls(Append(Front(calls), call)) = Append(BegunCalls(Front(calls)), BegunCall(call))
  BY <1>2, <1>4, BegunAppend
<1>6. Append(Front(calls), call) \in Seq(Calls)
  BY <1>2, <1>4, AppendProperties
<1> QED BY <1>2, <1>3, <1>4, <1>5, <1>6 DEF begun

LEMMA LoadFuncSteps ==
    ASSUME NEW type \in {"script", "c"}, Inv, Book, StepList, LoadFunc(type)
    PROVE  StepList'
<1>1. CASE Len(aFuncCall) > MaxCalls /\ ErrorNow
  BY <1>1, ErrorNowSteps
<1>2. CASE ~(Len(aFuncCall) > MaxCalls /\ ErrorNow)
  <2> DEFINE call == [type |-> type, status |-> "load", caller |-> pc, nSP |-> nSP,
                      nForStep |-> 0, nExitMark |-> 0, nLoopMark |-> 0,
                      lSave |-> FALSE, nTry |-> 0]
             calls == BegunCalls(aFuncCall)
             begun == BegunCall(call)
             calls2 == Append(calls, begun)
  <2>1. /\ call \in Calls /\ call.status = "load" /\ call.caller = pc
    BY InExprCallSite DEF LoadFunc, Calls, Inv, Typed
  <2>2. /\ aFuncCall' = Append(aFuncCall, call) /\ UNCHANGED <<pc, pForStep, pTry>>
    BY <1>2 DEF LoadFunc, marks
  <2>3. /\ aFuncCall \in Seq(Calls) /\ calls \in Seq(Calls) /\ Len(calls) \in Nat
    BY TypesOfSteps
  <2> HIDE DEF call
  <2>4. begun \in Calls /\ begun.status = "load" /\ begun.caller.path = Begun(pc)
    BY <2>1, BegunCallType
  <2>5. BegunCalls(aFuncCall') = calls2
    BY <2>1, <2>2, <2>3, BegunAppend
  <2> HIDE DEF calls, begun
  <2>6. PICK loops \in Seq(Saved) : Stack(calls, Begun(pc), pTry, loops) /\ Held(loops, pForStep)
    BY DEF StepList, StepsOf, calls
  <2>7. SamePlaces(calls, Begun(pc), calls2, Begun(pc))
    BY <2>3, <2>4, PlacesOfLoad
  <2>8. /\ calls2 \in Seq(Calls) /\ Len(calls2) = Len(calls) + 1
        /\ \A i \in 1..Len(calls) : calls2[i] = calls[i]
        /\ calls2[Len(calls) + 1] = begun
    BY <2>3, <2>4, AppendProperties
  <2>9. StepsOfCalls(calls2, loops)
    <3>1. \A j \in 1..Len(calls2) : j \in 1..Len(calls) \/ j = Len(calls) + 1
      BY <2>3, <2>8
    <3>2. StepsOfCalls(calls, loops)
      BY <2>6 DEF Stack
    <3> HIDE DEF calls2
    <3> QED BY <2>4, <2>8, <3>1, <3>2 DEF StepsOfCalls
  <2> HIDE DEF calls2
  <2>10. Stack(calls2, Begun(pc), pTry, loops)
    BY <2>3, <2>6, <2>7, <2>8, <2>9, StackRecall
  <2>11. StepsOf(loops)'
    BY <2>2, <2>5, <2>6, <2>10 DEF StepsOf
  <2> QED BY <2>11 DEF StepList
<1> QED BY <1>1, <1>2

(* The last call is called or starts. *)
LEMMA RecallSteps ==
    ASSUME Inv, StepList, aFuncCall # <<>>,
           NEW last, last = aFuncCall[Len(aFuncCall)], last.status # "started",
           NEW call \in Calls, call.caller = last.caller,
           \/ call.nForStep = Len(pForStep)
           \/ last.status # "load" /\ call.nForStep = last.nForStep,
           aFuncCall' = Append(Front(aFuncCall), call), Begun(pc') = <<>>,
           UNCHANGED <<pForStep, pTry>>
    PROVE  StepList'
<1> DEFINE calls == BegunCalls(aFuncCall)
           path == Begun(pc)
           begun == BegunCall(call)
           calls2 == Append(Front(calls), begun)
<1>1. /\ aFuncCall \in Seq(Calls) /\ calls \in Seq(Calls) /\ Len(calls) = Len(aFuncCall)
      /\ Len(calls) \in Nat /\ path \in Seq(Blocks)
  BY TypesOfSteps
<1>2. calls # <<>> /\ BegunCalls(aFuncCall') = calls2 /\ Len(calls) # 0
  BY <1>1, BegunReplace, EmptySeq
<1>3. last \in Calls /\ calls[Len(calls)] = BegunCall(last) /\ Len(calls) \in 1..Len(calls)
  BY <1>1, <1>2, BegunCallsType
<1>4. /\ begun \in Calls /\ begun.caller = calls[Len(calls)].caller
      /\ begun.nForStep = call.nForStep
      /\ calls[Len(calls)].status = last.status
      /\ calls[Len(calls)].nForStep = last.nForStep
  <2>1. BegunCall(call).caller = Loc(Begun(call.caller), "body")
        /\ BegunCall(last).caller = Loc(Begun(last.caller), "body")
    BY <1>3 DEF BegunCall, Calls
  <2> QED BY <1>3, <2>1, BegunCallType
<1> HIDE DEF calls, begun, path
<1>5. PICK loops \in Seq(Saved) : Stack(calls, path, pTry, loops) /\ Held(loops, pForStep)
  BY DEF StepList, StepsOf, calls, path
<1>6. SamePlaces(calls, path, calls2, <<>>)
  BY <1>1, <1>2, <1>4, PlacesOfCall
<1>7. CutAt(loops, begun.nForStep, Len(calls), 0)
  <2>1. CASE call.nForStep = Len(pForStep)
    <3>1. begun.nForStep = Len(loops) /\ Matches(calls, path, loops, AnyLoop)
      BY <1>4, <1>5, <2>1 DEF Held, Stack
    <3>2. CutAt(loops, Len(loops), Len(calls), 0)
      BY <1>1, <1>2, <1>4, <3>1, WholeListBefore
    <3> QED BY <3>1, <3>2
  <2>2. CASE last.status # "load" /\ call.nForStep = last.nForStep
    BY <1>3, <1>4, <1>5, <2>2 DEF Stack, StepsOfCalls
  <2> QED BY <2>1, <2>2
<1>8. /\ calls2 \in Seq(Calls) /\ Len(calls2) = Len(calls)
      /\ \A i \in 1..(Len(calls) - 1) : calls2[i] = calls[i]
      /\ calls2[Len(calls)] = begun
  BY <1>1, <1>2, <1>4, ReplaceLast
<1>9. StepsOfCalls(calls2, loops)
  <2>1. \A j \in 1..Len(calls2) : j \in 1..Len(calls) /\ (j \in 1..(Len(calls) - 1) \/ j = Len(calls))
    BY <1>1, <1>8
  <2>2. StepsOfCalls(calls, loops)
    BY <1>5 DEF Stack
  <2> HIDE DEF calls2
  <2> QED BY <1>7, <1>8, <2>1, <2>2 DEF StepsOfCalls
<1> HIDE DEF calls2
<1>10. Stack(calls2, <<>>, pTry, loops)
  BY <1>1, <1>5, <1>6, <1>8, <1>9, StackRecall
<1>11. StepsOf(loops)'
  BY <1>2, <1>5, <1>10 DEF StepsOf
<1> QED BY <1>11 DEF StepList

LEMMA CallScriptSteps ==
    ASSUME NEW lSave \in BOOLEAN, Inv, StepList, CallScript(lSave) PROVE StepList'
<1> DEFINE call == [Last(aFuncCall) EXCEPT
                !.status = "call", !.nForStep = Len(pForStep),
                !.nExitMark = Len(pExitMark), !.nLoopMark = Len(pLoopMark),
                !.lSave = lSave, !.nTry = IF lSave THEN Len(pTry) ELSE 0]
           last == aFuncCall[Len(aFuncCall)]
<1>1. /\ Len(pExitMark) \in Nat /\ Len(pLoopMark) \in Nat /\ Len(pTry) \in Nat
      /\ Len(pForStep) \in Nat
  BY TypesOfLists, TypesOfSteps
<1>2. /\ Loaded /\ pc' = Loc(<<>>, "newfunc") /\ aFuncCall' = Append(Front(aFuncCall), call)
      /\ UNCHANGED <<pForStep, pTry>>
  BY DEF CallScript, marks
<1>3. aFuncCall # <<>> /\ last.status = "load" /\ Last(aFuncCall) = last /\ last \in Calls
  BY <1>2, LoadedCall, LastCall
<1>4. call \in Calls /\ call.caller = last.caller /\ call.nForStep = Len(pForStep)
  BY <1>1, <1>3 DEF Calls
<1>5. Begun(pc') = <<>>
  BY <1>2 DEF Begun, Loc
<1>6. last.status # "started" /\ last = aFuncCall[Len(aFuncCall)]
  BY <1>3
<1> HIDE DEF call, last
<1> QED BY <1>2, <1>3, <1>4, <1>5, <1>6, RecallSteps

LEMMA NewFuncSteps == Inv /\ Book /\ StepList /\ NewFunc => StepList'
<1> SUFFICES ASSUME Inv, Book, StepList, NewFunc PROVE StepList'
  OBVIOUS
<1> DEFINE last == aFuncCall[Len(aFuncCall)]
<1>1. aFuncCall # <<>> /\ last.status = "call" /\ pc.path = <<>> /\ pc.at = "newfunc"
  BY DEF NewFunc, Book, CallsKnown
<1>2. CASE CallsFull /\ ErrorNow
  BY <1>2, ErrorNowSteps
<1>3. CASE ~CallsFull /\ Error(nScopes + 1, Front(aFuncCall))
  BY <1>1, <1>3, ErrorSteps
<1>4. CASE ~(CallsFull /\ ErrorNow) /\ ~(~CallsFull /\ Error(nScopes + 1, Front(aFuncCall)))
  <2> DEFINE call == [Last(aFuncCall) EXCEPT !.status = "started"]
  <2>1. /\ aFuncCall' = Append(Front(aFuncCall), call) /\ pc' = [pc EXCEPT !.at = "body"]
        /\ UNCHANGED <<pForStep, pTry>>
    BY <1>4 DEF NewFunc, marks
  <2>2. pc \in Locs
    BY TypesOfLists
  <2>3. Last(aFuncCall) \in Calls /\ Last(aFuncCall) = last
    BY <1>1, LastCall DEF Last
  <2>4. call \in Calls /\ call.caller = last.caller /\ call.nForStep = last.nForStep
    BY <2>3 DEF Calls
  <2>5. Begun(pc') = <<>>
    BY <1>1, <2>1, <2>2 DEF Begun, Locs
  <2>6. last.status # "started" /\ last.status # "load" /\ last = aFuncCall[Len(aFuncCall)]
    BY <1>1
  <2> HIDE DEF call, last
  <2> QED BY <1>1, <2>1, <2>4, <2>5, <2>6, RecallSteps
<1> QED BY <1>2, <1>3, <1>4

(* A block that has not begun is a loop: no entry of pTry is for it. *)
LEMMA TriesOfBegun ==
    ASSUME Inv, Book, aFuncCall # <<>>, NEW m, CutAt(pTry, m, Len(aFuncCall), 0),
           NEW c, c = Len(aFuncCall) - 1,
           NEW l, l = aFuncCall[Len(aFuncCall)].caller
    PROVE  CutAt(pTry, m, c, Len(Begun(l)) + 1)
<1> DEFINE p == l.path
           f == Len(p)
<1>1. /\ aFuncCall \in Seq(Calls) /\ pTry \in Seq(Saved) /\ pc.path \in Seq(Blocks)
      /\ Matches(aFuncCall, pc.path, pTry, TryBlocks) /\ ScopesKnown(aFuncCall, pTry)
  BY TypesOfLists DEF Book, Data
<1>2. CutAt(pTry, m, c, f + 1)
  <2>1. p = aFuncCall[Len(aFuncCall)].caller.path
    OBVIOUS
  <2> HIDE DEF p
  <2> QED BY <1>1, <2>1, CutOfFunction
<1>3. /\ Len(aFuncCall) \in 1..Len(aFuncCall) /\ l \in Locs /\ Place(aFuncCall, pc.path, c) = p
  BY <1>1, FrontOfCalls, CallFields
<1>4. CASE l.at # "init"
  <2>1. Begun(l) = p
    BY <1>4 DEF Begun
  <2> QED BY <1>2, <2>1
<1>5. CASE l.at = "init"
  <2>1. AtLoop(l)
    BY <1>3 DEF Book, CallsKnown
  <2>2. p[f] \notin TryBlocks
    BY <1>5, <2>1 DEF AtLoop, TryBlocks, IsLoop
  <2>3. f \in Nat /\ f = Len(Begun(l)) + 1
    BY <1>3, <1>5, BegunPath
  <2> HIDE DEF p, f
  <2>4. CutAt(pTry, m, c, f)
    BY <1>1, <1>2, <1>3, <2>2, <2>3, CutSkips
  <2> QED BY <2>3, <2>4
<1> QED BY <1>4, <1>5

LEMMA ReturnSteps ==
    ASSUME Inv, Book, StepList, aFuncCall # <<>>,
           NEW m, CutAt(pTry, m, Len(aFuncCall), 0), pTry' = SubSeq(pTry, 1, m),
           NEW call, call = aFuncCall[Len(aFuncCall)],
           \/ call.status # "load" /\ pForStep' = Back(pForStep, call.nForStep)
           \/ call.status # "started" /\ pForStep' = pForStep,
           aFuncCall' = Front(aFuncCall), pc' = [call.caller EXCEPT !.ops = @ + 1]
    PROVE  StepList'
<1> DEFINE calls == BegunCalls(aFuncCall)
           path == Begun(pc)
           c == Len(aFuncCall) - 1
           p == Begun(call.caller)
           d == Len(p) + 1
<1>1. /\ aFuncCall \in Seq(Calls) /\ calls \in Seq(Calls) /\ Len(calls) = Len(aFuncCall)
      /\ path \in Seq(Blocks) /\ pForStep \in Seq(Steps \cup {0}) /\ Len(pForStep) \in Nat
  BY TypesOfSteps
<1>2. /\ c \in Nat /\ c \in 0..Len(aFuncCall) /\ Len(aFuncCall) = c + 1
      /\ Len(aFuncCall) \in 1..Len(aFuncCall) /\ call \in Calls
      /\ aFuncCall' = SubSeq(aFuncCall, 1, c)
  BY <1>1, FrontOfCalls
<1>3. /\ calls # <<>> /\ calls[Len(calls)] = BegunCall(call)
      /\ BegunCall(call).caller.path = p /\ BegunCall(call).status = call.status
      /\ BegunCall(call).nForStep = call.nForStep /\ call.caller \in Locs
      /\ p \in Seq(Blocks) /\ Len(p) \in Nat
  BY <1>1, <1>2, BegunReplace, BegunCallsType, BegunCallType, BegunPath
<1>4. Begun(pc') = p
  <2>1. pc'.path = call.caller.path /\ pc'.at = call.caller.at
    BY <1>3 DEF Locs
  <2> QED BY <2>1 DEF Begun
<1>5. PICK loops \in Seq(Saved) : StepsOf(loops)
  BY DEF StepList
<1>6. Stack(calls, path, pTry, loops) /\ Held(loops, pForStep)
  BY <1>5 DEF StepsOf
<1> HIDE DEF calls, path
<1>7. /\ Matches(calls, path, loops, AnyLoop) /\ ScopesKnown(calls, loops)
      /\ StepsOfCalls(calls, loops) /\ Len(loops) = Len(pForStep)
  BY <1>6 DEF Stack, Held
<1>8. \E n : CutAt(loops, n, Len(calls), 0) /\ pForStep' = SubSeq(pForStep, 1, n)
  <2>1. CASE call.status # "load" /\ pForStep' = Back(pForStep, call.nForStep)
    <3>1. CutAt(loops, call.nForStep, Len(calls), 0)
      BY <1>1, <1>2, <1>3, <1>7, <2>1 DEF StepsOfCalls
    <3>2. call.nForStep \in 0..Len(pForStep)
      BY <1>7, <3>1 DEF CutAt
    <3>3. pForStep' = SubSeq(pForStep, 1, call.nForStep)
      BY <1>1, <2>1, <3>2, BackIsPrefix
    <3> QED BY <3>1, <3>3
  <2>2. CASE call.status # "started" /\ pForStep' = pForStep
    <3>1. CutAt(loops, Len(loops), Len(calls), 0)
      BY <1>1, <1>3, <1>7, <2>2, WholeListBefore
    <3>2. pForStep' = SubSeq(pForStep, 1, Len(pForStep))
      BY <1>1, <2>2, SubSeqFull
    <3> QED BY <1>7, <3>1, <3>2
  <2> QED BY <2>1, <2>2
<1>9. PICK n : CutAt(loops, n, Len(calls), 0) /\ pForStep' = SubSeq(pForStep, 1, n)
  BY <1>8
<1>10. CutAt(loops, n, c, d)
  <2>1. c = Len(calls) - 1 /\ p = calls[Len(calls)].caller.path
    BY <1>1, <1>3
  <2> HIDE DEF c, p
  <2> QED BY <1>1, <1>3, <1>7, <1>9, <2>1, CutOfFunction
<1>11. CutAt(pTry, m, c, d)
  <2> DEFINE l == call.caller
  <2>1. c = Len(aFuncCall) - 1 /\ l = aFuncCall[Len(aFuncCall)].caller /\ d = Len(Begun(l)) + 1
    OBVIOUS
  <2> HIDE DEF c, d, l
  <2> QED BY <2>1, TriesOfBegun
<1>12. Place(calls, path, c) = p
  BY <1>1, <1>2, <1>3 DEF Place
<1>13. /\ d \in Nat \ {0} /\ d - 1 = Len(p) /\ Begun(pc') \in Seq(Blocks)
       /\ d - 1 <= Len(Begun(pc')) /\ d - 1 <= Len(p)
       /\ \A i \in 1..(d - 1) : Begun(pc')[i] = p[i]
       /\ \A i \in d..Len(Begun(pc')) : Begun(pc')[i] \notin AnyLoop
  <2> HIDE DEF p
  <2>1. d \in Nat \ {0} /\ d - 1 = Len(p) /\ d - 1 <= Len(p) /\ \A i \in d..Len(p) : FALSE
    BY <1>3
  <2>2. p \in Seq(Blocks)
    BY <1>3
  <2> HIDE DEF d
  <2> QED BY <1>4, <2>1, <2>2
<1> HIDE DEF c, p, d
<1>14. p = Place(BegunCalls(aFuncCall), Begun(pc), c)
  BY <1>12 DEF calls, path
<1> QED BY <1>2, <1>5, <1>9, <1>10, <1>11, <1>13, <1>14, StepsCut

LEMMA ReturnActionSteps ==
    ASSUME "return_in_try" \notin Programs, Inv, Book, StepList, Return PROVE StepList'
<1> DEFINE call == aFuncCall[Len(aFuncCall)]
           m == IF call.lSave THEN call.nTry ELSE Len(pTry)
<1>1. aFuncCall \in Seq(Calls) /\ pTry \in Seq(Saved) /\ Len(pTry) \in Nat
  BY TypesOfLists
<1>2. /\ AtStatement /\ aFuncCall # <<>>
      /\ call.lSave \/ \A i \in 1..Len(pc.path) : pc.path[i].kind # "try"
      /\ pc' = [call.caller EXCEPT !.ops = @ + 1] /\ aFuncCall' = Front(aFuncCall)
      /\ pForStep' = Back(pForStep, call.nForStep)
      /\ pTry' = (IF call.lSave THEN Back(pTry, call.nTry) ELSE pTry)
  BY DEF Return, Last
<1>3. call.status = "started" /\ Len(aFuncCall) \in 1..Len(aFuncCall)
  BY <1>1, <1>2, StatementCall, FrontOfCalls
<1>4. CutAt(pTry, m, Len(aFuncCall), 0)
  <2>1. CASE call.lSave
    BY <1>3, <2>1 DEF Book, Data, SizesOfCalls
  <2>2. CASE ~call.lSave
    BY <1>2, <2>2, NoTryHere
  <2> QED BY <2>1, <2>2
<1>5. pTry' = SubSeq(pTry, 1, m)
  <2>1. CASE call.lSave
    <3>1. pTry' = Back(pTry, m) /\ m \in 0..Len(pTry)
      BY <1>2, <1>4, <2>1 DEF CutAt
    <3> HIDE DEF m
    <3> QED BY <1>1, <3>1, BackIsPrefix
  <2>2. CASE ~call.lSave
    BY <1>1, <1>2, <2>2, SubSeqFull
  <2> QED BY <2>1, <2>2
<1>6. call = aFuncCall[Len(aFuncCall)] /\ call.status # "load"
  BY <1>3
<1> HIDE DEF call, m
<1> QED BY <1>2, <1>4, <1>5, <1>6, ReturnSteps

LEMMA CallCSteps == Inv /\ Book /\ StepList /\ CallC => StepList'
<1> SUFFICES ASSUME Inv, Book, StepList, CallC PROVE StepList'
  OBVIOUS
<1> DEFINE m == Len(pTry)
           call == aFuncCall[Len(aFuncCall)]
<1>1. aFuncCall \in Seq(Calls) /\ pTry \in Seq(Saved) /\ pc.path \in Seq(Blocks)
  BY TypesOfLists
<1>2. /\ Loaded /\ pc' = [Last(aFuncCall).caller EXCEPT !.ops = @ + 1]
      /\ aFuncCall' = Front(aFuncCall) /\ UNCHANGED <<pForStep, pTry>>
  BY DEF CallC, marks
<1>3. aFuncCall # <<>> /\ call.status = "load" /\ Last(aFuncCall) = call
  BY <1>2, LoadedCall
<1>4. CutAt(pTry, m, Len(aFuncCall), 0)
  BY <1>1, <1>3, WholeListBefore DEF Book, Data
<1>5. pTry' = SubSeq(pTry, 1, m)
  BY <1>1, <1>2, SubSeqFull
<1>6. /\ call = aFuncCall[Len(aFuncCall)] /\ call.status # "started"
      /\ pc' = [call.caller EXCEPT !.ops = @ + 1]
  BY <1>2, <1>3
<1> HIDE DEF m, call
<1> QED BY <1>2, <1>3, <1>4, <1>5, <1>6, ReturnSteps

LEMMA CallCRaiseSteps == Inv /\ Book /\ StepList /\ CallCRaise => StepList'
<1> SUFFICES ASSUME Inv, Book, StepList, CallCRaise PROVE StepList'
  OBVIOUS
<1>1. CASE ~Handled(Len(pTry), nScopes)
  BY <1>1, UncaughtSteps DEF CallCRaise
<1>2. CASE Handled(Len(pTry), nScopes)
  <2>1. Len(pTry) \in 1..Len(pTry)
    BY <1>2, TypesOfLists DEF Handled
  <2>2. Unwind(Len(pTry), pTry[Len(pTry)].state, aFuncCall)
    BY <1>2 DEF CallCRaise, Last
  <2> QED BY <2>1, <2>2, UnwindSteps
<1> QED BY <1>1, <1>2

(* Two errors of one instruction. *)
LEMMA ExitNonNumberSteps == Inv /\ Book /\ StepList /\ ExitNonNumber => StepList'
<1> SUFFICES ASSUME Inv, Book, StepList, ExitNonNumber PROVE StepList'
  OBVIOUS
<1> DEFINE h == Len(pTry)
           g == h - 1
           s == pTry[h].state
           t == pTry[g].state
<1>1. CASE Uncaught
  BY <1>1, UncaughtSteps
<1>2. CASE ~Uncaught
  <2>1. /\ Handled(h, nScopes) /\ Handled(g, s.nScopes)
        /\ Unwind(g, Both(s, t), aFuncCall)
    BY <1>2 DEF ExitNonNumber
  <2>2. /\ h \in 1..Len(pTry) /\ g \in 1..Len(pTry) /\ g < h /\ pTry \in Seq(Saved)
    BY <2>1, TypesOfLists DEF Handled
  <2> HIDE DEF h, g
  <2>3. s \in States /\ t \in States
    BY <2>2, SavedFields
  <2>4. /\ s.nFuncCalls \in Nat /\ t.nFuncCalls \in Nat
        /\ Len(pTry[h].path) \in Nat /\ Len(pTry[g].path) \in Nat
    BY <2>2, SavedFields
  <2>5. Before(pTry[g], s.nFuncCalls, Len(pTry[h].path))
    BY <2>2 DEF Book, Data, Matches, Ordered
  <2>6. \/ t.nFuncCalls < s.nFuncCalls
        \/ t.nFuncCalls = s.nFuncCalls /\ Len(pTry[g].path) <= Len(pTry[h].path)
    BY <2>4, <2>5 DEF Before
  <2>7. PICK loops \in Seq(Saved) : StepsOf(loops)
    BY DEF StepList
  <2>8. /\ CutAt(loops, s.nForStep, s.nFuncCalls, Len(pTry[h].path))
        /\ CutAt(loops, t.nForStep, t.nFuncCalls, Len(pTry[g].path))
    BY <2>2, <2>7 DEF StepsOf, Stack, StepsOfTries
  <2> HIDE DEF s, t
  <2>9. t.nForStep <= s.nForStep
    BY <2>4, <2>6, <2>8, CutWithin
  <2>10. t.nFuncCalls <= s.nFuncCalls
    BY <2>4, <2>6
  <2>11. Both(s, t).nFuncCalls = t.nFuncCalls /\ Both(s, t).nForStep = t.nForStep
    <3> DEFINE f == [x \in DOMAIN s |-> IF s[x] < t[x] THEN s[x] ELSE t[x]]
    <3>1. DOMAIN s = {"nScopes", "nFuncCalls", "nSP", "nFuncSP",
                      "nExitMark", "nLoopMark", "nTry", "nForStep"}
      BY <2>3 DEF States
    <3>2. f["nFuncCalls"] = t["nFuncCalls"] /\ f["nForStep"] = t["nForStep"]
      BY <2>3, <2>9, <2>10, <3>1 DEF States
    <3>3. Both(s, t) = f
      BY DEF Both
    <3> QED BY <3>2, <3>3
  <2> QED BY <2>1, <2>2, <2>11, UnwindSteps DEF t
<1> QED BY <1>1, <1>2

-----------------------------------------------------------------------------
(* Counting the loops of the function that runs, from a depth on: a list    *)
(* that holds the blocks of B has one entry for each of these depths.       *)
DepthsOf(path, f, B) == {g \in f..Len(path) : path[g] \in B}

LEMMA DepthsFinite ==
    ASSUME NEW path \in Seq(Blocks), NEW f \in Nat, NEW B
    PROVE  IsFiniteSet(DepthsOf(path, f, B)) /\ Cardinality(DepthsOf(path, f, B)) \in Nat
<1>1. Len(path) \in Int /\ f \in Int
  BY LenProperties
<1>2. IsFiniteSet(f..Len(path))
  BY <1>1, FS_Interval
<1>3. DepthsOf(path, f, B) \in SUBSET (f..Len(path))
  BY DEF DepthsOf
<1>4. IsFiniteSet(DepthsOf(path, f, B))
  BY <1>2, <1>3, FS_Subset
<1> QED BY <1>4, FS_CardinalityType

LEMMA EntriesBetween ==
    ASSUME NEW x \in Nat, NEW N \in Nat, x <= N
    PROVE  IsFiniteSet((x + 1)..N) /\ Cardinality((x + 1)..N) = N - x
<1> DEFINE a == x + 1
<1>1. a \in Int /\ N \in Int
  OBVIOUS
<1> HIDE DEF a
<1>2. IsFiniteSet(a..N) /\ Cardinality(a..N) = IF a > N THEN 0 ELSE N - a + 1
  BY <1>1, FS_Interval
<1> QED BY <1>2 DEF a

(* The depth of an entry that is not before depth f. *)
LEMMA DepthOfEntry ==
    ASSUME NEW calls \in Seq(Calls), NEW path \in Seq(Blocks), NEW list \in Seq(Saved),
           NEW B, Matches(calls, path, list, B), ScopesKnown(calls, list),
           NEW f \in Nat, NEW i \in 1..Len(list), ~Before(list[i], Len(calls), f)
    PROVE  list[i].state.nFuncCalls = Len(calls) /\ Len(list[i].path) \in DepthsOf(path, f, B)
<1> DEFINE k == list[i].state.nFuncCalls
           d == Len(list[i].path)
<1>1. k = list[i].state.nFuncCalls
  OBVIOUS
<1> HIDE DEF k
<1>2. k \in Nat /\ k \in 0..Len(calls) /\ Len(calls) \in Nat
  <2> HIDE DEF d
  <2>1. k \in 0..Len(calls)
    BY <1>1, PointIsOpen
  <2> QED BY <2>1, LenProperties
<1>10. Len(list[i].path) <= Len(Place(calls, path, k))
  <2> HIDE DEF d
  <2> QED BY <1>1, PointIsOpen
<1>11. \A g \in 1..Len(list[i].path) : list[i].path[g] = Place(calls, path, k)[g]
  <2> HIDE DEF d
  <2> QED BY <1>1, PointIsOpen
<1>12. list[i].path[Len(list[i].path)] \in B
  <2> HIDE DEF d
  <2> QED BY <1>1, PointIsOpen
<1>13. Len(list[i].path) \in Nat \ {0}
  <2> HIDE DEF d
  <2> QED BY <1>1, PointIsOpen
<1>3. k = Len(calls) /\ d >= f
  BY <1>1, <1>2, <1>13 DEF Before
<1>4. Place(calls, path, k) = path
  BY <1>2, <1>3 DEF Place
<1>5. d \in f..Len(path) /\ path[d] = list[i].path[d]
  BY <1>3, <1>4, <1>10, <1>11, <1>13, LenProperties
<1> QED BY <1>1, <1>3, <1>5, <1>12 DEF DepthsOf

LEMMA EntriesFewer ==
    ASSUME NEW calls \in Seq(Calls), NEW path \in Seq(Blocks), NEW list \in Seq(Saved),
           NEW B, Matches(calls, path, list, B), ScopesKnown(calls, list),
           NEW f \in Nat, NEW x \in 0..Len(list),
           \A i \in 1..Len(list) : x < i => ~Before(list[i], Len(calls), f)
    PROVE  Len(list) - x <= Cardinality(DepthsOf(path, f, B))
<1> DEFINE D == DepthsOf(path, f, B)
           N == Len(list)
           S == (x + 1)..N
           depth == [i \in S |-> Len(list[i].path)]
<1>1. N \in Nat /\ x \in Nat /\ x <= N
  BY LenProperties
<1>2. IsFiniteSet(S) /\ Cardinality(S) = N - x
  BY <1>1, EntriesBetween
<1>3. \A i \in S : i \in 1..N /\ x < i /\ i \in Int
  BY <1>1
<1>4. \A i \in S : list[i].state.nFuncCalls = Len(calls) /\ Len(list[i].path) \in D
  BY <1>3, DepthOfEntry
<1>5. ASSUME NEW i \in S, NEW j \in S, i < j PROVE Len(list[i].path) < Len(list[j].path)
  <2>1. Before(list[i], list[j].state.nFuncCalls, Len(list[j].path))
    BY <1>3, <1>5 DEF Matches, Ordered
  <2>2. Len(calls) \in Nat
    BY LenProperties
  <2> QED BY <1>4, <2>1, <2>2 DEF Before
<1>6. \A i \in S : Len(list[i].path) \in Nat
  BY <1>3, SavedFields
<1> HIDE DEF S, D
<1>7. depth \in [S -> D]
  BY <1>4
<1>8. \A i, j \in S : Len(list[i].path) = Len(list[j].path) => i = j
  <2> SUFFICES ASSUME NEW i \in S, NEW j \in S, Len(list[i].path) = Len(list[j].path), i # j
               PROVE  FALSE
    OBVIOUS
  <2>1. i < j \/ j < i
    BY <1>3
  <2> QED BY <1>5, <1>6, <2>1
<1>9. depth \in Injection(S, D)
  BY <1>7, <1>8 DEF Injection, IsInjective
<1>10. IsFiniteSet(D)
  BY DepthsFinite DEF D
<1> HIDE DEF depth
<1>11. Cardinality(S) <= Cardinality(D)
  BY <1>9, <1>10, FS_Injection
<1> QED BY <1>2, <1>11 DEF D

LEMMA EntriesEnough ==
    ASSUME NEW calls \in Seq(Calls), NEW path \in Seq(Blocks), NEW list \in Seq(Saved),
           NEW B, Matches(calls, path, list, B), Frame(calls, Len(calls)),
           NEW f \in Nat \ {0}, NEW x \in 0..Len(list),
           \A i \in 1..x : Before(list[i], Len(calls), f)
    PROVE  Cardinality(DepthsOf(path, f, B)) <= Len(list) - x
<1> DEFINE D == DepthsOf(path, f, B)
           N == Len(list)
           S == (x + 1)..N
           IsAt(i, g) == list[i].state.nFuncCalls = Len(calls) /\ Len(list[i].path) = g
           entry == [g \in D |-> CHOOSE i \in S : IsAt(i, g)]
<1>1. N \in Nat /\ x \in Nat /\ x <= N /\ Len(calls) \in Nat /\ Len(path) \in Nat
  BY LenProperties
<1>2. IsFiniteSet(S) /\ Cardinality(S) = N - x
  BY <1>1, EntriesBetween
<1>3. ASSUME NEW g \in D PROVE \E i \in S : IsAt(i, g)
  <2>1. g \in 1..Len(path) /\ g \in Nat /\ g >= f /\ path[g] \in B
    BY <1>1 DEF DepthsOf
  <2>2. Place(calls, path, Len(calls)) = path /\ Len(calls) \in 0..Len(calls)
    BY <1>1 DEF Place
  <2>3. PICK i \in 1..Len(list) : IsAt(i, g)
    BY <2>1, <2>2 DEF Matches, Complete
  <2>4. i \notin 1..x
    BY <1>1, <2>1, <2>3 DEF Before
  <2>5. i \in S
    BY <1>1, <2>3, <2>4
  <2> QED BY <2>3, <2>5
<1> HIDE DEF S, D
<1>4. \A g \in D : entry[g] \in S /\ Len(list[entry[g]].path) = g
  BY <1>3
<1>5. entry \in [D -> S]
  BY <1>3
<1> HIDE DEF entry
<1>6. entry \in Injection(D, S)
  BY <1>4, <1>5 DEF Injection, IsInjective
<1>7. Cardinality(D) <= Cardinality(S)
  BY <1>2, <1>6, FS_Injection
<1> QED BY <1>2, <1>7 DEF D

LEMMA CutCounts ==
    ASSUME NEW calls \in Seq(Calls), NEW path \in Seq(Blocks), NEW list \in Seq(Saved),
           NEW B, Matches(calls, path, list, B), ScopesKnown(calls, list),
           Frame(calls, Len(calls)),
           NEW f \in Nat \ {0}, NEW x, CutAt(list, x, Len(calls), f)
    PROVE  Cardinality(DepthsOf(path, f, B)) = Len(list) - x /\ x \in 0..Len(list)
<1>1. x \in 0..Len(list) /\ Len(list) \in Nat /\ f \in Nat
  BY LenProperties DEF CutAt
<1>2. \A i \in 1..Len(list) : x < i => ~Before(list[i], Len(calls), f)
  BY <1>1 DEF CutAt
<1>3. \A i \in 1..x : Before(list[i], Len(calls), f)
  BY <1>1 DEF CutAt
<1>4. Len(list) - x <= Cardinality(DepthsOf(path, f, B))
  BY <1>1, <1>2, EntriesFewer
<1>5. Cardinality(DepthsOf(path, f, B)) <= Len(list) - x
  BY <1>1, <1>3, EntriesEnough
<1>6. Cardinality(DepthsOf(path, f, B)) \in Nat
  BY <1>1, DepthsFinite
<1> QED BY <1>1, <1>4, <1>5, <1>6

(* The n-th mark from the end is that of the loop around n - 1 others. *)
AllMarked(path) == \A d \in 1..Len(path) : IsLoop(path[d]) => path[d].marked

LEMMA MarkedAreLoops ==
    ASSUME NEW path \in Seq(Blocks), NEW f \in Nat \ {0},
           AllMarked(path)
    PROVE  DepthsOf(path, f, MarkedLoops) = DepthsOf(path, f, AnyLoop)
<1>1. \A g \in f..Len(path) : g \in 1..Len(path) /\ path[g] \in Blocks
  BY LenProperties, ElementOfSeq
<1>2. \A g \in f..Len(path) : path[g] \in MarkedLoops <=> path[g] \in AnyLoop
  BY <1>1 DEF MarkedLoops, AnyLoop, AllMarked
<1> QED BY <1>2 DEF DepthsOf

MarkIsOfLoop(list, x, n, calls, path) ==
    LET d == Len(list[x].path)
    IN  /\ list[x].state.nFuncCalls = Len(calls) /\ d \in 1..Len(path) /\ path[d] \in AnyLoop
        /\ Cardinality(DepthsOf(path, d, AnyLoop)) = n

LEMMA NthMark ==
    ASSUME NEW calls \in Seq(Calls), NEW path \in Seq(Blocks), NEW list \in Seq(Saved),
           Matches(calls, path, list, MarkedLoops), ScopesKnown(calls, list),
           Frame(calls, Len(calls)), AllMarked(path),
           NEW x \in 1..Len(list), NEW n \in Nat, n = Len(list) - x + 1,
           n <= Cardinality(DepthsOf(path, 1, AnyLoop))
    PROVE  MarkIsOfLoop(list, x, n, calls, path)
<1>a. PICK k : k = list[x].state.nFuncCalls
  OBVIOUS
<1>b. PICK d : d = Len(list[x].path)
  OBVIOUS
<1>1. Len(list) \in Nat /\ Len(calls) \in Nat /\ Len(path) \in Nat /\ x \in Nat
  BY LenProperties
<1>2. CutAt(list, x - 1, k, d) /\ CutAt(list, x, k, d + 1)
  BY <1>a, <1>b, CutAtEntry DEF Matches
<1>3. k \in 0..Len(calls)
  BY <1>a, <1>b, PointIsOpen
<1>4. d \in Nat \ {0}
  BY <1>a, <1>b, PointIsOpen
<1>5. d <= Len(Place(calls, path, k))
  BY <1>a, <1>b, PointIsOpen
<1>6. \A g \in 1..d : list[x].path[g] = Place(calls, path, k)[g]
  BY <1>a, <1>b, PointIsOpen
<1>7. list[x].path[d] \in MarkedLoops
  BY <1>a, <1>b, PointIsOpen
<1>8. k = Len(calls)
  <2> SUFFICES ASSUME k < Len(calls) PROVE FALSE
    BY <1>1, <1>3
  <2>1. \A i \in 1..x : i \in 1..Len(list) /\ Before(list[i], k, d + 1)
    BY <1>1, <1>2 DEF CutAt
  <2>2. \A i \in 1..x : Before(list[i], Len(calls), 1)
    <3>1. \A i \in 1..x : list[i].state.nFuncCalls \in Nat
      BY <2>1, SavedFields
    <3>2. k \in Nat
      BY <1>1, <1>3
    <3>3. ASSUME NEW i \in 1..x PROVE Before(list[i], Len(calls), 1)
      <4>1. Before(list[i], k, d + 1) /\ list[i].state.nFuncCalls \in Nat
        BY <2>1, <3>1
      <4>2. list[i].state.nFuncCalls < Len(calls)
        BY <1>1, <3>2, <4>1 DEF Before
      <4> QED BY <4>2 DEF Before
    <3> QED BY <3>3
  <2>3. x \in 0..Len(list) /\ 1 \in Nat \ {0}
    BY <1>1
  <2>4. Cardinality(DepthsOf(path, 1, MarkedLoops)) <= Len(list) - x
    BY <2>2, <2>3, EntriesEnough
  <2>5. DepthsOf(path, 1, MarkedLoops) = DepthsOf(path, 1, AnyLoop)
    BY MarkedAreLoops
  <2>6. Cardinality(DepthsOf(path, 1, AnyLoop)) \in Nat
    BY DepthsFinite
  <2> QED BY <1>1, <2>4, <2>5, <2>6
<1>9. Place(calls, path, k) = path
  BY <1>1, <1>8 DEF Place
<1>10. d \in 1..Len(path) /\ path[d] \in MarkedLoops
  <2>1. d <= Len(path) /\ \A g \in 1..d : list[x].path[g] = path[g]
    BY <1>5, <1>6, <1>9
  <2>2. d \in 1..d
    BY <1>4
  <2> QED BY <1>1, <1>4, <1>7, <2>1, <2>2
<1>11. Cardinality(DepthsOf(path, d, MarkedLoops)) = Len(list) - (x - 1)
  <2>1. CutAt(list, x - 1, Len(calls), d)
    BY <1>2, <1>8
  <2> DEFINE w == x - 1
  <2> HIDE DEF w
  <2>2. CutAt(list, w, Len(calls), d)
    BY <2>1 DEF w
  <2>3. Cardinality(DepthsOf(path, d, MarkedLoops)) = Len(list) - w
    BY <1>4, <2>2, CutCounts
  <2> QED BY <2>3 DEF w
<1>12. DepthsOf(path, d, MarkedLoops) = DepthsOf(path, d, AnyLoop)
  BY <1>4, MarkedAreLoops
<1> QED BY <1>a, <1>b, <1>1, <1>8, <1>10, <1>11, <1>12 DEF MarkedLoops, AnyLoop, MarkIsOfLoop

LEMMA NthLoop ==
    ASSUME NEW calls \in Seq(Calls), NEW path \in Seq(Blocks), NEW list \in Seq(Saved),
           Matches(calls, path, list, AnyLoop), ScopesKnown(calls, list),
           Frame(calls, Len(calls)), NEW d \in 1..Len(path), path[d] \in AnyLoop,
           NEW n, n = Cardinality(DepthsOf(path, d, AnyLoop)),
           NEW y, y = Len(list) - (n - 1)
    PROVE  n \in Nat /\ y \in 1..Len(list) /\ CutAt(list, y, Len(calls), d + 1)
<1>1. Len(list) \in Nat /\ Len(calls) \in Nat /\ Len(path) \in Nat /\ d \in Nat \ {0}
  BY LenProperties
<1>2. Place(calls, path, Len(calls)) = path /\ Len(calls) \in 0..Len(calls)
  BY <1>1 DEF Place
<1>3. PICK z \in 1..Len(list) : list[z].state.nFuncCalls = Len(calls) /\ Len(list[z].path) = d
  BY <1>2 DEF Matches, Complete
<1>4. CutAt(list, z - 1, Len(calls), d) /\ CutAt(list, z, Len(calls), d + 1)
  <2>1. Ordered(list)
    BY DEF Matches
  <2> QED BY <1>3, <2>1, CutAtEntry
<1> DEFINE w == z - 1
<1>5. CutAt(list, w, Len(calls), d)
  BY <1>4
<1> HIDE DEF w
<1>6. Cardinality(DepthsOf(path, d, AnyLoop)) = Len(list) - w
  BY <1>1, <1>5, CutCounts
<1>7. n = Len(list) - z + 1 /\ z \in Nat
  BY <1>1, <1>6 DEF w
<1>8. y = z
  BY <1>1, <1>7
<1> QED BY <1>1, <1>4, <1>7, <1>8

(* The loops around that one. *)
LEMMA LoopOutside ==
    ASSUME NEW path \in Seq(Blocks), NEW d \in 1..Len(path),
           Cardinality(DepthsOf(path, d, AnyLoop)) < Cardinality(DepthsOf(path, 1, AnyLoop))
    PROVE  \E g \in 1..Len(path) : g < d /\ path[g] \in AnyLoop
<1> SUFFICES ASSUME \A g \in 1..Len(path) : g < d => path[g] \notin AnyLoop
             PROVE  FALSE
  OBVIOUS
<1>1. Len(path) \in Nat
  BY LenProperties
<1>2. DepthsOf(path, d, AnyLoop) = DepthsOf(path, 1, AnyLoop)
  BY <1>1 DEF DepthsOf
<1>3. Cardinality(DepthsOf(path, 1, AnyLoop)) \in Nat
  BY DepthsFinite
<1> QED BY <1>2, <1>3

-----------------------------------------------------------------------------
(* Jumps. *)
LoopsOf(path) == {d \in 1..Len(path) : IsLoop(path[d])}

LEMMA LoopsAreDepths ==
    ASSUME NEW path \in Seq(Blocks) PROVE LoopsOf(path) = DepthsOf(path, 1, AnyLoop)
<1>1. \A d \in 1..Len(path) : path[d] \in Blocks
  BY ElementOfSeq
<1> QED BY <1>1 DEF LoopsOf, DepthsOf, AnyLoop

(* The code jumps to the loop around n - 1 others, whose steps are removed. *)
JumpedOut(n) ==
    /\ AllMarked(pc'.path)
    /\ n < Cardinality(LoopsOf(pc.path)) =>
           \E g \in 1..Len(pc'.path) : IsLoop(pc'.path[g]) /\ g < Len(pc'.path)

LEMMA ExitPoint ==
    ASSUME Inv, Book, StepList, pc.at \in {"body", "optional"},
           Frame(aFuncCall, Len(aFuncCall)), AllMarked(pc.path),
           NEW x \in 1..Len(pExitMark), NEW n \in Nat, n = Len(pExitMark) - x + 1,
           n <= Cardinality(LoopsOf(pc.path)),
           JumpedTo(x), pc'.at \in {"next", "end"},
           n - 1 <= Len(pForStep) => pForStep' = SubSeq(pForStep, 1, Len(pForStep) - (n - 1))
    PROVE  StepList' /\ JumpedOut(n)
<1>1. PICK p : p = pExitMark[x].path
  OBVIOUS
<1>2. PICK k : k = pExitMark[x].state.nFuncCalls
  OBVIOUS
<1>3. PICK m : m = pExitMark[x].state.nTry
  OBVIOUS
<1>4. PICK d : d = Len(p)
  OBVIOUS
<1>5. PICK path \in Seq(Blocks) : path = pc.path
  BY TypesOfLists
<1>6. /\ p \in Seq(Blocks) /\ d \in Nat \ {0}
      /\ \A i \in 1..d : p[i] = Place(aFuncCall, pc.path, k)[i]
      /\ CutAt(pTry, m, k, d + 1)
      /\ aFuncCall' = SubSeq(aFuncCall, 1, k) /\ pTry' = SubSeq(pTry, 1, m)
      /\ pc'.path = p
  BY <1>1, <1>2, <1>3, <1>4 DEF JumpedTo
<1>7. /\ aFuncCall \in Seq(Calls) /\ pExitMark \in Seq(Saved) /\ Len(aFuncCall) \in Nat
      /\ Matches(aFuncCall, path, pExitMark, MarkedLoops) /\ ScopesKnown(aFuncCall, pExitMark)
  BY <1>5, TypesOfLists DEF Book, Data
<1>8. LoopsOf(pc.path) = DepthsOf(path, 1, AnyLoop)
  BY <1>5, LoopsAreDepths
<1>9. /\ k = Len(aFuncCall) /\ d \in 1..Len(path) /\ path[d] \in AnyLoop
      /\ Cardinality(DepthsOf(path, d, AnyLoop)) = n
  <2>1. n <= Cardinality(DepthsOf(path, 1, AnyLoop))
    BY <1>8
  <2>2. d = Len(pExitMark[x].path)
    BY <1>1, <1>4
  <2>3. PICK list \in Seq(Saved) : list = pExitMark
    BY <1>7
  <2>4. PICK calls \in Seq(Calls) : calls = aFuncCall
    BY <1>7
  <2>5. /\ Matches(calls, path, list, MarkedLoops) /\ ScopesKnown(calls, list)
        /\ Frame(calls, Len(calls)) /\ x \in 1..Len(list) /\ n = Len(list) - x + 1
        /\ k = list[x].state.nFuncCalls /\ d = Len(list[x].path)
    BY <1>2, <1>7, <2>2, <2>3, <2>4
  <2>6. AllMarked(path)
    BY <1>5
  <2>7. MarkIsOfLoop(list, x, n, calls, path)
    BY <2>1, <2>5, <2>6, NthMark
  <2> QED BY <2>4, <2>5, <2>7 DEF MarkIsOfLoop
<1>10. Place(aFuncCall, pc.path, k) = path /\ \A i \in 1..d : p[i] = path[i]
  <2>1. Place(aFuncCall, pc.path, k) = path
    <3>1. ~(k < Len(aFuncCall))
      BY <1>7, <1>9
    <3> QED BY <1>5, <3>1 DEF Place
  <2> QED BY <1>6, <2>1
<1>11. Begun(pc) = path /\ Begun(pc') = p
  BY <1>5, <1>6 DEF Begun
<1>12. PICK loops \in Seq(Saved) : StepsOf(loops)
  BY DEF StepList
<1>13. /\ BegunCalls(aFuncCall) \in Seq(Calls) /\ Len(BegunCalls(aFuncCall)) = Len(aFuncCall)
       /\ Matches(BegunCalls(aFuncCall), path, loops, AnyLoop)
       /\ ScopesKnown(BegunCalls(aFuncCall), loops) /\ Len(loops) = Len(pForStep)
       /\ Frame(BegunCalls(aFuncCall), Len(BegunCalls(aFuncCall)))
  <2>1. /\ BegunCalls(aFuncCall) \in Seq(Calls)
        /\ Len(BegunCalls(aFuncCall)) = Len(aFuncCall)
    BY <1>7, BegunCallsType
  <2>2. Frame(BegunCalls(aFuncCall), Len(aFuncCall))
    BY <1>7, BegunFrames
  <2> QED BY <1>11, <1>12, <2>1, <2>2 DEF StepsOf, Stack, Held
<1>14. PICK calls \in Seq(Calls) : calls = BegunCalls(aFuncCall)
  BY <1>13
<1>15. PICK y : y = Len(loops) - (n - 1)
  OBVIOUS
<1>16. y \in 1..Len(loops) /\ CutAt(loops, y, k, d + 1)
  <2>1. /\ Matches(calls, path, loops, AnyLoop) /\ ScopesKnown(calls, loops)
        /\ Frame(calls, Len(calls)) /\ Len(calls) = k
    BY <1>9, <1>13, <1>14
  <2> QED BY <1>9, <1>15, <2>1, NthLoop
<1>17. pForStep' = SubSeq(pForStep, 1, y)
  <2>1. Len(pForStep) \in Nat /\ n - 1 <= Len(pForStep)
    BY <1>13, <1>15, <1>16, TypesOfSteps
  <2> QED BY <1>13, <1>15, <2>1
<1>18. StepList'
  <2>1. PICK place : place = Place(BegunCalls(aFuncCall), Begun(pc), k)
    OBVIOUS
  <2>2. place = path
    BY <1>7, <1>9, <1>11, <1>13, <2>1 DEF Place
  <2>3. PICK e \in Nat \ {0} : e = d + 1
    BY <1>6
  <2>4. CutAt(loops, y, k, e) /\ CutAt(pTry, m, k, e)
    BY <1>6, <1>16, <2>3
  <2>5. /\ e - 1 <= Len(Begun(pc')) /\ e - 1 <= Len(place)
        /\ \A i \in 1..(e - 1) : Begun(pc')[i] = place[i]
        /\ \A i \in e..Len(Begun(pc')) : Begun(pc')[i] \notin AnyLoop
    <3>1. e - 1 = d /\ Len(Begun(pc')) = d /\ Len(path) \in Nat
      BY <1>4, <1>6, <1>11, <2>3, LenProperties
    <3> QED BY <1>9, <1>10, <1>11, <2>2, <2>3, <3>1
  <2>6. k \in 0..Len(aFuncCall) /\ Begun(pc') \in Seq(Blocks)
    BY <1>6, <1>7, <1>9, <1>11
  <2> QED BY <1>6, <1>12, <1>17, <2>1, <2>4, <2>5, <2>6, StepsCut
<1>19. \A g \in 1..d : g \in 1..Len(path) /\ p[g] = path[g]
  BY <1>6, <1>9, <1>10, LenProperties
<1>20. AllMarked(p)
  BY <1>4, <1>5, <1>19 DEF AllMarked
<1>21. ASSUME n < Cardinality(LoopsOf(pc.path))
       PROVE  \E g \in 1..Len(p) : IsLoop(p[g]) /\ g < Len(p)
  <2>1. PICK g \in 1..Len(path) : g < d /\ path[g] \in AnyLoop
    BY <1>8, <1>9, <1>21, LoopOutside
  <2>2. g \in 1..d
    BY <1>6, <2>1, LenProperties
  <2>3. p[g] = path[g]
    BY <1>10, <2>2
  <2> QED BY <1>4, <2>1, <2>2, <2>3, LenProperties DEF AnyLoop
<1> QED BY <1>6, <1>18, <1>20, <1>21 DEF JumpedOut

(* exit and loop commands. *)
LEMMA LoopsFinite ==
    ASSUME Inv
    PROVE  Cardinality(LoopsOf(pc.path)) \in Nat
           /\ ((\E d \in 1..Len(pc.path) : IsLoop(pc.path[d])) => 1 <= Cardinality(LoopsOf(pc.path)))
<1>1. PICK path \in Seq(Blocks) : path = pc.path
  BY TypesOfLists
<1>2. IsFiniteSet(LoopsOf(path)) /\ Cardinality(LoopsOf(path)) \in Nat
  <2>1. 1 \in Nat
    OBVIOUS
  <2> QED BY <2>1, LoopsAreDepths, DepthsFinite
<1>3. ASSUME NEW d \in 1..Len(path), IsLoop(path[d])
      PROVE  1 <= Cardinality(LoopsOf(path))
  <2>1. LoopsOf(path) # {}
    BY <1>3 DEF LoopsOf
  <2>2. Cardinality(LoopsOf(path)) # 0
    BY <1>2, <2>1, FS_EmptySet
  <2> QED BY <1>2, <2>2
<1> QED BY <1>1, <1>2, <1>3

LEMMA ExitLoopsSteps ==
    ASSUME Inv, Book, StepList, AtStatement, AllMarked(pc.path),
           NEW n \in 1..Len(pExitMark), n <= Cardinality(LoopsOf(pc.path)), ExitLoops(n)
    PROVE  /\ StepList' /\ JumpedOut(n) /\ pc'.at = "end"
           /\ \E x \in 1..Len(pExitMark) : nSP' = pExitMark[x].state.nSP
<1>1. Len(pExitMark) \in Nat /\ Len(pForStep) \in Nat /\ pForStep \in Seq(Steps \cup {0})
  BY TypesOfLists, TypesOfSteps
<1>2. PICK x \in 1..Len(pExitMark) : x = Target(n)
  BY <1>1 DEF Target
<1>3. n \in Nat /\ n = Len(pExitMark) - x + 1
  BY <1>1, <1>2 DEF Target
<1>4. JumpTo(pExitMark[x], "end")
  BY <1>2 DEF ExitLoops
<1>5. JumpedTo(x) /\ pc'.at = "end" /\ nSP' = pExitMark[x].state.nSP
  <2>1. PICK mark : mark = pExitMark[x]
    OBVIOUS
  <2>2. PICK at : at = "end"
    OBVIOUS
  <2>3. SameMark(mark, pExitMark[x]) /\ JumpTo(mark, at)
    BY <1>4, <2>1, <2>2 DEF SameMark
  <2> QED BY <2>1, <2>2, <2>3, JumpToPoint
<1>6. ASSUME n - 1 <= Len(pForStep)
      PROVE  pForStep' = SubSeq(pForStep, 1, Len(pForStep) - (n - 1))
  <2>1. PICK m : m = Len(pForStep) - (n - 1)
    OBVIOUS
  <2>2. m \in 0..Len(pForStep) /\ ~(Len(pForStep) < n - 1)
    BY <1>1, <1>6, <2>1
  <2>3. pForStep' = Back(pForStep, m)
    BY <2>1, <2>2 DEF ExitLoops, StepsAfterExit
  <2>4. pForStep' = SubSeq(pForStep, 1, m)
    BY <1>1, <2>2, <2>3, BackIsPrefix
  <2> QED BY <2>1, <2>4
<1>7. Frame(aFuncCall, Len(aFuncCall)) /\ pc.at = "body"
  BY LastIsFrame DEF Book, AtStatement
<1>8. StepList' /\ JumpedOut(n)
  BY <1>3, <1>5, <1>6, <1>7, ExitPoint
<1> QED BY <1>2, <1>5, <1>8

LEMMA LoopOnceSteps ==
    ASSUME Inv, Book, StepList, pc.at \in {"body", "optional"},
           Frame(aFuncCall, Len(aFuncCall)), AllMarked(pc.path),
           pLoopMark # <<>> => 1 <= Cardinality(LoopsOf(pc.path)), LoopOnce
    PROVE  StepList'
<1>1. CASE pLoopMark = <<>>
  BY <1>1, ErrorNowSteps DEF LoopOnce
<1>2. CASE pLoopMark # <<>>
  <2>1. /\ Len(pExitMark) \in Nat /\ Len(pForStep) \in Nat /\ Len(pLoopMark) = Len(pExitMark)
        /\ pForStep \in Seq(Steps \cup {0}) /\ pLoopMark \in Seq(Saved)
    BY TypesOfLists, TypesOfSteps
  <2>2. PICK x : x = Len(pExitMark)
    OBVIOUS
  <2>3. x \in 1..Len(pExitMark) /\ Last(pLoopMark) = pLoopMark[x]
    BY <1>2, <2>1, <2>2, EmptySeq DEF Last
  <2>4. SameMark(pLoopMark[x], pExitMark[x])
    <3>1. Live = Len(pExitMark)
      BY <2>1 DEF Live
    <3> QED BY <2>3, <3>1 DEF Book, LoopsKnown
  <2>5. JumpTo(pLoopMark[x], "next") /\ UNCHANGED pForStep
    BY <1>2, <2>3 DEF LoopOnce, marks
  <2>6. JumpedTo(x) /\ pc'.at = "next"
    <3>1. PICK mark : mark = pLoopMark[x]
      OBVIOUS
    <3>2. PICK at : at = "next"
      OBVIOUS
    <3>3. SameMark(mark, pExitMark[x]) /\ JumpTo(mark, at)
      BY <2>4, <2>5, <3>1, <3>2
    <3> QED BY <2>3, <3>2, <3>3, JumpToPoint
  <2>7. PICK n : n = 1
    OBVIOUS
  <2>8. n \in Nat /\ n = Len(pExitMark) - x + 1 /\ n <= Cardinality(LoopsOf(pc.path))
    BY <1>2, <2>1, <2>2, <2>7
  <2>9. pForStep' = SubSeq(pForStep, 1, Len(pForStep) - (n - 1))
    <3>1. Len(pForStep) - (n - 1) = Len(pForStep)
      BY <2>1, <2>7
    <3> QED BY <2>1, <2>5, <3>1, SubSeqFull
  <2> QED BY <2>3, <2>6, <2>8, <2>9, ExitPoint
<1> QED BY <1>1, <1>2

-----------------------------------------------------------------------------
(* What (loop n) leaves for ICO_OPTIONALLOOP: a marked loop that is not the *)
(* one being left.  No instruction between the two can change that.         *)
OptionalKnown ==
    lOptionalLoop =>
        /\ pc.at \in {"end", "optional"} /\ nSP <= MaxStack /\ AllMarked(pc.path)
        /\ \E d \in 1..Len(pc.path) : /\ IsLoop(pc.path[d])
                                      /\ pc.at = "end" => d < Len(pc.path)

LEMMA CommandLoops ==
    ASSUME Inv, "exit_in_callee" \notin Programs, NEW n \in Nat, CommandAllowed(n)
    PROVE  /\ AllMarked(pc.path)
           /\ n <= Len(pExitMark) => n <= Cardinality(LoopsOf(pc.path))
<1>1. Len(pExitMark) \in Nat
  BY TypesOfLists
<1> QED BY <1>1 DEF CommandAllowed, AllMarked, LoopsOf

LEMMA ExitSteps ==
    ASSUME NEW n \in Counts, Inv, Book, StepList, "exit_in_callee" \notin Programs, Exit(n)
    PROVE  StepList'
<1>1. n \in Nat /\ Len(pExitMark) \in Nat
  BY TypesOfLists DEF Counts
<1>2. CASE n \in 1..Len(pExitMark)
  <2>1. AtStatement /\ ExitLoops(n) /\ CommandAllowed(n) /\ n <= Len(pExitMark)
    BY <1>1, <1>2 DEF Exit
  <2> QED BY <1>1, <1>2, <2>1, CommandLoops, ExitLoopsSteps
<1>3. CASE n \notin 1..Len(pExitMark)
  BY <1>3, ErrorNowSteps DEF Exit
<1> QED BY <1>2, <1>3

LEMMA LoopSteps ==
    ASSUME NEW n \in Counts, Inv, Book, StepList, "exit_in_callee" \notin Programs, Loop(n)
    PROVE  StepList'
<1>1. n \in Nat /\ Len(pExitMark) \in Nat /\ Len(pLoopMark) = Len(pExitMark)
  BY TypesOfLists DEF Counts
<1>2. AtStatement /\ CommandAllowed(n)
  BY DEF Loop
<1>3. Frame(aFuncCall, Len(aFuncCall)) /\ pc.at = "body"
  BY <1>2, LastIsFrame DEF Book, AtStatement
<1>4. AllMarked(pc.path) /\ (n <= Len(pExitMark) => n <= Cardinality(LoopsOf(pc.path)))
  BY <1>1, <1>2, CommandLoops
<1>5. CASE n = 1 /\ LoopOnce
  <2>1. pLoopMark # <<>> => 1 <= Cardinality(LoopsOf(pc.path))
    <3>1. pLoopMark \in Seq(Saved)
      BY TypesOfLists
    <3> QED BY <1>1, <1>4, <1>5, <3>1, EmptySeq
  <2> QED BY <1>3, <1>4, <1>5, <2>1, LoopOnceSteps
<1>6. CASE n \in 2..Len(pLoopMark) /\ ExitLoops(n - 1)
  <2>1. PICK m : m = n - 1
    OBVIOUS
  <2>2. m \in 1..Len(pExitMark) /\ m <= Cardinality(LoopsOf(pc.path)) /\ ExitLoops(m)
    <3>1. Cardinality(LoopsOf(pc.path)) \in Nat
      BY LoopsFinite
    <3> QED BY <1>1, <1>4, <1>6, <2>1, <3>1
  <2> QED BY <1>2, <1>4, <2>2, ExitLoopsSteps
<1>7. CASE ErrorNow
  BY <1>7, ErrorNowSteps
<1> QED BY <1>5, <1>6, <1>7 DEF Loop

LEMMA OptionalLoopSteps ==
    ASSUME Inv, Book, StepList, OptionalKnown, OptionalLoop PROVE StepList'
<1>1. CASE lOptionalLoop /\ LoopOnce
  <2>1. pc.at = "optional" /\ AllMarked(pc.path) /\ \E d \in 1..Len(pc.path) : IsLoop(pc.path[d])
    BY <1>1 DEF OptionalLoop, OptionalKnown
  <2>2. Frame(aFuncCall, Len(aFuncCall))
    BY <2>1, LastIsFrame DEF Book
  <2>3. 1 <= Cardinality(LoopsOf(pc.path))
    BY <2>1, LoopsFinite
  <2> QED BY <1>1, <2>1, <2>2, <2>3, LoopOnceSteps
<1>2. CASE ~(lOptionalLoop /\ LoopOnce)
  <2>1. /\ pc.at = "optional" /\ pc' = [pc EXCEPT !.at = "body"]
        /\ UNCHANGED <<aFuncCall, marks, pTry>>
    BY <1>2 DEF OptionalLoop
  <2> QED BY <2>1, MoveSteps
<1> QED BY <1>1, <1>2

LEMMA NotOptional ==
    ASSUME OptionalKnown, pc.at \notin {"end", "optional"}, UNCHANGED lOptionalLoop
    PROVE  OptionalKnown'
BY DEF OptionalKnown

LEMMA ErrorKeepsOptional == ErrorNow => UNCHANGED lOptionalLoop
BY DEF ErrorNow, Error, Uncaught

(* No loop command is being finished while any other instruction runs. *)
LEMMA OthersNotOptional ==
    ASSUME Inv, OptionalKnown,
           \/ PushOperand \/ FreeStack \/ Raise \/ NewFunc \/ Return \/ EndProgram
           \/ CallC \/ CallCRaise \/ StepNumber \/ LoopTest \/ EndBody
           \/ ExitNonNumber \/ EnterTry \/ LeaveTry \/ LeaveCatch
    PROVE  OptionalKnown'
<1>1. CASE PushOperand \/ FreeStack \/ Return \/ EndProgram
  <2>1. pc.at \notin {"end", "optional"} /\ UNCHANGED lOptionalLoop
    BY <1>1 DEF PushOperand, FreeStack, Return, EndProgram, InExpr, AtStatement
  <2> QED BY <2>1, NotOptional
<1>2. CASE Raise \/ CallC \/ CallCRaise
  <2>1. pc.at \notin {"end", "optional"} /\ UNCHANGED lOptionalLoop
    BY <1>2, ErrorKeepsOptional DEF Raise, CallC, CallCRaise, InExpr, Uncaught
  <2> QED BY <2>1, NotOptional
<1>3. CASE NewFunc \/ ExitNonNumber
  <2>1. pc.at \notin {"end", "optional"}
    BY <1>3 DEF NewFunc, ExitNonNumber, AtStatement
  <2>2. UNCHANGED lOptionalLoop
    BY <1>3, ErrorKeepsOptional DEF NewFunc, ExitNonNumber, Error, Uncaught
  <2> QED BY <2>1, <2>2, NotOptional
<1>4. CASE StepNumber \/ LoopTest \/ EndBody
  <2>1. pc.at \notin {"end", "optional"} /\ UNCHANGED lOptionalLoop
    BY <1>4 DEF StepNumber, LoopTest, EndBody, AtStatement
  <2> QED BY <2>1, NotOptional
<1>5. CASE EnterTry \/ LeaveTry \/ LeaveCatch
  <2>1. pc.at \notin {"end", "optional"} /\ UNCHANGED lOptionalLoop
    BY <1>5 DEF EnterTry, LeaveTry, LeaveCatch, AtStatement
  <2> QED BY <2>1, NotOptional
<1> QED BY <1>1, <1>2, <1>3, <1>4, <1>5

LEMMA EntersNotOptional ==
    /\ \A type \in {"script", "c"} : OptionalKnown /\ LoadFunc(type) => OptionalKnown'
    /\ \A lSave \in BOOLEAN : OptionalKnown /\ CallScript(lSave) => OptionalKnown'
    /\ \A m \in MarkChoices, s \in Steps : OptionalKnown /\ EnterFor(m, s) => OptionalKnown'
    /\ \A m \in MarkChoices : OptionalKnown /\ EnterWhile(m) => OptionalKnown'
    /\ \A n \in Counts : OptionalKnown /\ Exit(n) => OptionalKnown'
<1>1. ASSUME NEW type \in {"script", "c"}, OptionalKnown, LoadFunc(type) PROVE OptionalKnown'
  BY <1>1, NotOptional, ErrorKeepsOptional DEF LoadFunc, InExpr
<1>2. ASSUME NEW lSave \in BOOLEAN, OptionalKnown, CallScript(lSave) PROVE OptionalKnown'
  BY <1>2, NotOptional DEF CallScript, InExpr
<1>3. ASSUME NEW m \in MarkChoices, NEW s \in Steps, OptionalKnown, EnterFor(m, s)
      PROVE  OptionalKnown'
  BY <1>3, NotOptional DEF EnterFor, AtStatement
<1>4. ASSUME NEW m \in MarkChoices, OptionalKnown, EnterWhile(m) PROVE OptionalKnown'
  BY <1>4, NotOptional DEF EnterWhile, AtStatement
<1>5. ASSUME NEW n \in Counts, OptionalKnown, Exit(n) PROVE OptionalKnown'
  BY <1>5, NotOptional, ErrorKeepsOptional DEF Exit, AtStatement
<1> QED BY <1>1, <1>2, <1>3, <1>4, <1>5

LEMMA LoopOptional ==
    ASSUME NEW n \in Counts, Inv, Book, Bounds, StepList, OptionalKnown,
           "exit_in_callee" \notin Programs, Loop(n)
    PROVE  OptionalKnown'
<1>1. n \in Nat /\ Len(pExitMark) \in Nat /\ Len(pLoopMark) = Len(pExitMark)
  BY TypesOfLists DEF Counts
<1>2. AtStatement /\ CommandAllowed(n) /\ pc.at = "body"
  BY DEF Loop, AtStatement
<1>3. CASE n \in 2..Len(pLoopMark) /\ ExitLoops(n - 1)
  <2>1. PICK m : m = n - 1
    OBVIOUS
  <2>2. /\ AllMarked(pc.path) /\ m \in 1..Len(pExitMark) /\ ExitLoops(m)
        /\ m < Cardinality(LoopsOf(pc.path)) /\ m <= Cardinality(LoopsOf(pc.path))
    <3>1. Cardinality(LoopsOf(pc.path)) \in Nat
      BY LoopsFinite
    <3>2. AllMarked(pc.path) /\ n <= Cardinality(LoopsOf(pc.path))
      BY <1>1, <1>2, <1>3, CommandLoops
    <3> QED BY <1>1, <1>3, <2>1, <3>1, <3>2
  <2>3. /\ JumpedOut(m) /\ pc'.at = "end"
        /\ \E x \in 1..Len(pExitMark) : nSP' = pExitMark[x].state.nSP
    BY <1>2, <2>2, ExitLoopsSteps
  <2>4. nSP' <= MaxStack
    BY <2>3, ElementOfSeq, BoundedType DEF Bounds
  <2> QED BY <2>2, <2>3, <2>4 DEF OptionalKnown, JumpedOut
<1>4. CASE LoopOnce
  <2>1. CASE ErrorNow
    BY <1>2, <2>1, ErrorKeepsOptional, NotOptional
  <2>2. CASE ~ErrorNow
    BY <1>4, <2>2 DEF LoopOnce, OptionalKnown
  <2> QED BY <2>1, <2>2
<1>5. CASE ErrorNow
  BY <1>2, <1>5, ErrorKeepsOptional, NotOptional
<1> QED BY <1>3, <1>4, <1>5 DEF Loop

LEMMA OptionalLoopOptional ==
    ASSUME Inv, Book, OptionalKnown, OptionalLoop PROVE OptionalKnown'
<1>1. CASE ~lOptionalLoop
  BY <1>1 DEF OptionalLoop, OptionalKnown
<1>2. CASE lOptionalLoop
  <2>1. pc.at = "optional" /\ AllMarked(pc.path)
    BY <1>2 DEF OptionalLoop, OptionalKnown
  <2>2. PICK d \in 1..Len(pc.path) : IsLoop(pc.path[d])
    BY <1>2 DEF OptionalKnown
  <2>3. Frame(aFuncCall, Len(aFuncCall)) /\ Len(aFuncCall) \in Nat /\ pc.path \in Seq(Blocks)
    BY <2>1, LastIsFrame, TypesOfLists DEF Book
  <2>4. Place(aFuncCall, pc.path, Len(aFuncCall)) = pc.path
    BY <2>3 DEF Place
  <2>5. pc.path[d] \in MarkedLoops
    BY <2>1, <2>2, <2>3, ElementOfSeq DEF AllMarked, MarkedLoops
  <2>6. \E i \in 1..Len(pExitMark) : Len(pExitMark[i].path) = d
    <3>1. Len(aFuncCall) \in 0..Len(aFuncCall)
      BY <2>3
    <3> QED BY <2>3, <2>4, <2>5, <3>1 DEF Book, Data, Matches, Complete
  <2>7. pLoopMark # <<>>
    <3>1. pLoopMark \in Seq(Saved) /\ Len(pLoopMark) = Len(pExitMark) /\ Len(pExitMark) \in Nat
      BY TypesOfLists
    <3> QED BY <2>6, <3>1, EmptySeq
  <2> QED BY <1>2, <2>7 DEF OptionalLoop, LoopOnce, OptionalKnown
<1> QED BY <1>1, <1>2

LEMMA LoopEndOptional == ASSUME Inv, OptionalKnown, LoopEnd PROVE OptionalKnown'
<1>1. CASE ~lOptionalLoop
  BY <1>1 DEF LoopEnd, OptionalKnown
<1>2. CASE lOptionalLoop
  <2>1. /\ pc.at = "end" /\ nSP <= MaxStack /\ AllMarked(pc.path) /\ UNCHANGED nSP
        /\ pc'.at = "optional" /\ pc'.path = Front(pc.path)
    BY <1>2 DEF LoopEnd, OptionalKnown, Loc
  <2>2. PICK d \in 1..Len(pc.path) : IsLoop(pc.path[d]) /\ d < Len(pc.path)
    BY <1>2, <2>1 DEF OptionalKnown
  <2>3. PICK path \in Seq(Blocks) : path = pc.path
    BY TypesOfLists
  <2>4. PICK m : m = Len(path) - 1
    OBVIOUS
  <2>5. m \in 0..Len(path) /\ m \in Nat /\ d \in 1..m /\ Len(path) \in Nat
    BY <2>2, <2>3, <2>4, LenProperties
  <2>6. Front(path) = SubSeq(path, 1, m)
    BY <2>4 DEF Front
  <2>7. /\ Len(Front(path)) = m
        /\ \A i \in 1..m : Front(path)[i] = path[i] /\ i \in 1..Len(path)
    BY <2>5, <2>6, SubSeqProperties
  <2>8. AllMarked(Front(path)) /\ IsLoop(Front(path)[d])
    BY <2>1, <2>2, <2>3, <2>5, <2>7 DEF AllMarked
  <2> QED BY <2>1, <2>3, <2>5, <2>7, <2>8 DEF OptionalKnown
<1> QED BY <1>1, <1>2

LEMMA StackOverflowOptional == ASSUME Inv, OptionalKnown, StackOverflow PROVE OptionalKnown'
<1>1. nSP \in Int /\ MaxStack \in Nat
  BY LimitTypes
<1>2. ~lOptionalLoop
  BY <1>1 DEF StackOverflow, OptionalKnown
<1> QED BY <1>2, ErrorKeepsOptional DEF StackOverflow, OptionalKnown

-----------------------------------------------------------------------------
(* The invariant. *)
StepBook == StepList /\ OptionalKnown

LEMMA InitSteps == Init => StepBook
<1> SUFFICES ASSUME Init PROVE StepBook
  OBVIOUS
<1>1. /\ aFuncCall = <<>> /\ pForStep = <<>> /\ pTry = <<>>
      /\ pc.path = <<>> /\ pc.at = "body" /\ lOptionalLoop = FALSE
  BY DEF Init, Loc
<1>2. Len(<<>>) = 0 /\ \A i \in 1..Len(<<>>) : FALSE
  OBVIOUS
<1>3. BegunCalls(<<>>) = <<>> /\ Begun(pc) = <<>>
  <2>1. <<>> \in Seq(Calls)
    OBVIOUS
  <2>2. BegunCalls(<<>>) \in Seq(Calls) /\ Len(BegunCalls(<<>>)) = 0
    BY <1>2, <2>1, BegunCallsType
  <2> QED BY <1>1, <2>2, EmptySeq DEF Begun
<1>4. Matches(<<>>, <<>>, <<>>, AnyLoop)
  <2>1. \A k \in 0..Len(<<>>) : Place(<<>>, <<>>, k) = <<>>
    BY <1>2 DEF Place
  <2> QED BY <1>2, <2>1 DEF Matches, Ordered, Complete
<1>5. Stack(<<>>, <<>>, <<>>, <<>>) /\ Held(<<>>, <<>>)
  BY <1>2, <1>4 DEF Stack, ScopesKnown, StepsOfTries, StepsOfCalls, Held
<1>6. StepsOf(<<>>)
  BY <1>1, <1>3, <1>5 DEF StepsOf
<1>7. OptionalKnown
  BY <1>1 DEF OptionalKnown
<1>8. <<>> \in Seq(Saved)
  OBVIOUS
<1> QED BY <1>6, <1>7, <1>8 DEF StepBook, StepList

LEMMA NextStepList ==
    ASSUME "return_in_try" \notin Programs, "exit_in_callee" \notin Programs,
           Inv, Book, StepBook, [Next]_vars
    PROVE  StepList'
<1>0. StepList /\ OptionalKnown
  BY DEF StepBook
<1>1. CASE UNCHANGED vars
  BY <1>0, <1>1, SameSteps DEF vars, marks
<1>2. CASE Raise \/ StackOverflow
  BY <1>0, <1>2, ErrorNowSteps DEF Raise, StackOverflow
<1>3. CASE PushOperand \/ FreeStack \/ LoopTest \/ EndBody
  BY <1>0, <1>3, MoveSteps
<1>4. ASSUME NEW type \in {"script", "c"}, LoadFunc(type) PROVE StepList'
  BY <1>0, <1>4, LoadFuncSteps
<1>5. ASSUME NEW lSave \in BOOLEAN, CallScript(lSave) PROVE StepList'
  BY <1>0, <1>5, CallScriptSteps
<1>6. CASE NewFunc \/ CallC \/ CallCRaise
  BY <1>0, <1>6, NewFuncSteps, CallCSteps, CallCRaiseSteps
<1>7. CASE Return
  BY <1>0, <1>7, ReturnActionSteps
<1>8. CASE EndProgram
  BY <1>0, <1>8, SameSteps DEF EndProgram, marks
<1>9. ASSUME NEW m \in MarkChoices, NEW s \in Steps, EnterFor(m, s) PROVE StepList'
  BY <1>0, <1>9, EnterForSteps
<1>10. ASSUME NEW m \in MarkChoices, EnterWhile(m) PROVE StepList'
  BY <1>0, <1>10, EnterWhileSteps
<1>11. CASE StepNumber \/ LoopEnd \/ OptionalLoop
  BY <1>0, <1>11, StepNumberSteps, LoopEndSteps, OptionalLoopSteps
<1>12. ASSUME NEW n \in Counts, Exit(n) PROVE StepList'
  BY <1>0, <1>12, ExitSteps
<1>13. ASSUME NEW n \in Counts, Loop(n) PROVE StepList'
  BY <1>0, <1>13, LoopSteps
<1>14. CASE ExitNonNumber \/ EnterTry \/ LeaveTry \/ LeaveCatch
  BY <1>0, <1>14, ExitNonNumberSteps, EnterTrySteps, LeaveTrySteps
<1> QED
  BY <1>1, <1>2, <1>3, <1>4, <1>5, <1>6, <1>7, <1>8, <1>9, <1>10, <1>11, <1>12, <1>13, <1>14
  DEF Next

LEMMA NextOptional ==
    ASSUME "exit_in_callee" \notin Programs, Inv, Book, Bounds, StepBook, [Next]_vars
    PROVE  OptionalKnown'
<1>0. StepList /\ OptionalKnown
  BY DEF StepBook
<1>1. CASE UNCHANGED vars
  BY <1>0, <1>1 DEF vars, marks, OptionalKnown
<1>2. CASE \/ PushOperand \/ FreeStack \/ Raise \/ NewFunc \/ Return \/ EndProgram
           \/ CallC \/ CallCRaise \/ StepNumber \/ LoopTest \/ EndBody
           \/ ExitNonNumber \/ EnterTry \/ LeaveTry \/ LeaveCatch
  BY <1>0, <1>2, OthersNotOptional
<1>3. CASE StackOverflow
  BY <1>0, <1>3, StackOverflowOptional
<1>4. ASSUME NEW type \in {"script", "c"}, LoadFunc(type) PROVE OptionalKnown'
  BY <1>0, <1>4, EntersNotOptional
<1>5. ASSUME NEW lSave \in BOOLEAN, CallScript(lSave) PROVE OptionalKnown'
  BY <1>0, <1>5, EntersNotOptional
<1>6. ASSUME NEW m \in MarkChoices, NEW s \in Steps, EnterFor(m, s) PROVE OptionalKnown'
  BY <1>0, <1>6, EntersNotOptional
<1>7. ASSUME NEW m \in MarkChoices, EnterWhile(m) PROVE OptionalKnown'
  BY <1>0, <1>7, EntersNotOptional
<1>8. ASSUME NEW n \in Counts, Exit(n) PROVE OptionalKnown'
  BY <1>0, <1>8, EntersNotOptional
<1>9. ASSUME NEW n \in Counts, Loop(n) PROVE OptionalKnown'
  BY <1>0, <1>9, LoopOptional
<1>10. CASE LoopEnd \/ OptionalLoop
  BY <1>0, <1>10, LoopEndOptional, OptionalLoopOptional
<1> QED
  BY <1>1, <1>2, <1>3, <1>4, <1>5, <1>6, <1>7, <1>8, <1>9, <1>10 DEF Next

LEMMA NextSteps ==
    ASSUME "return_in_try" \notin Programs, "exit_in_callee" \notin Programs,
           Inv, Book, Bounds, StepBook, [Next]_vars
    PROVE  StepBook'
BY NextStepList, NextOptional DEF StepBook

-----------------------------------------------------------------------------
(* Points of the order in which loops are entered, and their ranks. *)
PointOf(e) == <<e.state.nFuncCalls, Len(e.path)>>

Points(list) == [i \in 1..Len(list) |-> PointOf(list[i])]

InOrder(N, pt) == \A i, j \in 1..N : EnteredBy(pt[i], pt[j]) <=> i <= j

Holds(P, N, pt) == P = {pt[i] : i \in 1..N}

Rank(P, q) == Cardinality({p \in P : EnteredBy(p, q)})

LEMMA RankOfPoint ==
    ASSUME NEW N \in Nat, NEW pt, InOrder(N, pt), NEW P, Holds(P, N, pt), NEW j \in 1..N
    PROVE  Rank(P, pt[j]) = j
<1> DEFINE S == {p \in P : EnteredBy(p, pt[j])}
           f == [i \in 1..j |-> pt[i]]
<1>1. \A i \in 1..j : i \in 1..N /\ i <= j
  OBVIOUS
<1>2. \A i \in 1..j : f[i] = pt[i] /\ pt[i] \in S
  BY <1>1 DEF InOrder, Holds
<1>3. f \in [1..j -> S]
  BY <1>2
<1>4. \A i, k \in 1..j : pt[i] = pt[k] => i = k
  <2> SUFFICES ASSUME NEW i \in 1..j, NEW k \in 1..j, pt[i] = pt[k] PROVE i = k
    OBVIOUS
  <2>1. i \in 1..N /\ k \in 1..N
    BY <1>1
  <2>2. EnteredBy(pt[i], pt[k]) /\ EnteredBy(pt[k], pt[i])
    <3>1. i <= i
      OBVIOUS
    <3>2. EnteredBy(pt[i], pt[i])
      BY <2>1, <3>1 DEF InOrder
    <3> QED BY <3>2
  <2>3. i <= k /\ k <= i
    BY <2>1, <2>2 DEF InOrder
  <2> QED BY <2>3
<1>5. ASSUME NEW p \in S PROVE \E i \in 1..j : f[i] = p
  <2>1. PICK i \in 1..N : p = pt[i]
    BY <1>5 DEF Holds
  <2>2. i <= j
    BY <2>1 DEF InOrder
  <2>3. i \in 1..j
    BY <2>2
  <2> QED BY <1>2, <2>1, <2>3
<1> HIDE DEF f, S
<1>6. f \in Bijection(1..j, S)
  BY <1>2, <1>3, <1>4, <1>5 DEF Bijection, Injection, Surjection, IsInjective
<1>7. ExistsBijection(1..j, S) /\ j \in Nat
  BY <1>6 DEF ExistsBijection
<1>8. Cardinality(S) = j
  BY <1>7, FS_CountingElements
<1> QED BY <1>8 DEF S, Rank

LEMMA CountOfPoints ==
    ASSUME NEW N \in Nat, NEW pt, InOrder(N, pt), NEW P, Holds(P, N, pt)
    PROVE  Cardinality(P) = N
<1>1. CASE N = 0
  <2>1. P = {}
    BY <1>1 DEF Holds
  <2> QED BY <1>1, <2>1, FS_EmptySet
<1>2. CASE N # 0
  <2>1. N \in 1..N
    BY <1>2
  <2>2. \A p \in P : EnteredBy(p, pt[N])
    BY <2>1 DEF InOrder, Holds
  <2>3. {p \in P : EnteredBy(p, pt[N])} = P
    BY <2>2
  <2>4. Rank(P, pt[N]) = N
    BY <2>1, RankOfPoint
  <2> QED BY <2>3, <2>4 DEF Rank
<1> QED BY <1>1, <1>2

LEMMA PointAtRank ==
    ASSUME NEW N \in Nat, NEW pt, InOrder(N, pt), NEW P, Holds(P, N, pt), NEW i \in 1..N
    PROVE  (CHOOSE q \in P : Rank(P, q) = i) = pt[i]
<1>1. pt[i] \in P /\ Rank(P, pt[i]) = i
  BY RankOfPoint DEF Holds
<1>2. ASSUME NEW q \in P, Rank(P, q) = i PROVE q = pt[i]
  <2>1. PICK j \in 1..N : q = pt[j]
    BY DEF Holds
  <2>2. Rank(P, pt[j]) = j
    BY RankOfPoint
  <2> QED BY <1>2, <2>1, <2>2
<1> QED BY <1>1, <1>2

(* The entries of a list are at points of increasing order. *)
LEMMA PointsInOrder ==
    ASSUME NEW list \in Seq(Saved), Ordered(list),
           NEW i \in 1..Len(list), NEW j \in 1..Len(list)
    PROVE  EnteredBy(Points(list)[i], Points(list)[j]) <=> i <= j
<1>1. /\ list[i].state.nFuncCalls \in Nat /\ Len(list[i].path) \in Nat
      /\ list[j].state.nFuncCalls \in Nat /\ Len(list[j].path) \in Nat
  BY SavedFields
<1>2. /\ Points(list)[i] = PointOf(list[i]) /\ Points(list)[j] = PointOf(list[j])
      /\ PointOf(list[i])[1] = list[i].state.nFuncCalls
      /\ PointOf(list[i])[2] = Len(list[i].path)
      /\ PointOf(list[j])[1] = list[j].state.nFuncCalls
      /\ PointOf(list[j])[2] = Len(list[j].path)
  BY DEF Points, PointOf
<1>3. CASE i < j
  <2>1. Before(list[i], list[j].state.nFuncCalls, Len(list[j].path))
    BY <1>3 DEF Ordered
  <2> QED BY <1>1, <1>2, <1>3, <2>1 DEF Before, EnteredBy
<1>4. CASE j < i
  <2>1. Before(list[j], list[i].state.nFuncCalls, Len(list[i].path))
    BY <1>4 DEF Ordered
  <2> QED BY <1>1, <1>2, <1>4, <2>1 DEF Before, EnteredBy
<1>5. CASE i = j
  BY <1>1, <1>2, <1>5 DEF EnteredBy
<1> QED BY <1>3, <1>4, <1>5

(* The points of the list of loops are those of the loops that have begun. *)
LEMMA PointsAreLoops ==
    ASSUME NEW calls \in Seq(Calls), NEW l \in Locs, NEW list \in Seq(Saved),
           Matches(BegunCalls(calls), Begun(l), list, AnyLoop),
           ScopesKnown(BegunCalls(calls), list)
    PROVE  BegunLoops(calls, l) = {Points(list)[i] : i \in 1..Len(list)}
<1>1. PICK bc \in Seq(Calls) : bc = BegunCalls(calls)
  BY BegunCallsType
<1>2. PICK path \in Seq(Blocks) : path = Begun(l)
  BY BegunPath
<1>3. /\ Len(bc) = Len(calls) /\ Len(calls) \in Nat /\ \A k : Frame(bc, k) = Frame(calls, k)
      /\ Matches(bc, path, list, AnyLoop) /\ ScopesKnown(bc, list)
  BY <1>1, <1>2, BegunCallsType, BegunFrames
<1>4. ASSUME NEW k \in 0..Len(calls)
      PROVE  /\ Place(bc, path, k) = Begun(At(calls, l, k))
             /\ Place(bc, path, k) \in Seq(Blocks)
  <2>1. PICK q : q = Place(bc, path, k)
    OBVIOUS
  <2>2. PICK p : p = Place(calls, l.path, k)
    OBVIOUS
  <2>3. q = Place(BegunCalls(calls), Begun(l), k)
    BY <1>1, <1>2, <2>1
  <2>4. q = Begun(At(calls, l, k)) /\ q \in Seq(Blocks)
    BY <2>2, <2>3, BegunPlace
  <2> QED BY <2>1, <2>4
<1>5. ASSUME NEW i \in 1..Len(list) PROVE Points(list)[i] \in BegunLoops(calls, l)
  <2>1. PICK k : k = list[i].state.nFuncCalls
    OBVIOUS
  <2>2. PICK d : d = Len(list[i].path)
    OBVIOUS
  <2>3. IsOpen(bc, path, list[i], AnyLoop)
    BY <1>3 DEF Matches
  <2>4. Frame(bc, k) /\ k \in 0..Len(bc)
    BY <1>3, <2>1, <2>3, FrameIndex DEF IsOpen
  <2>5. d \in 1..Len(Place(bc, path, k))
    BY <2>1, <2>2, <2>3 DEF IsOpen
  <2>6. Place(bc, path, k)[d] \in AnyLoop
    <3>1. d \in 1..d
      BY <2>5
    <3>2. list[i].path[d] = Place(bc, path, k)[d] /\ list[i].path[d] \in AnyLoop
      BY <2>1, <2>2, <2>3, <3>1 DEF IsOpen
    <3> QED BY <3>2
  <2>7. Points(list)[i] = <<k, d>>
    BY <2>1, <2>2 DEF Points, PointOf
  <2>8. k \in 0..Len(calls) /\ Frame(calls, k)
    BY <1>3, <2>4
  <2>9. Place(bc, path, k) = Begun(At(calls, l, k)) /\ Place(bc, path, k) \in Seq(Blocks)
    BY <1>4, <2>8
  <2>10. d \in DOMAIN Begun(At(calls, l, k)) /\ IsLoop(Begun(At(calls, l, k))[d])
    BY <2>5, <2>6, <2>9 DEF AnyLoop
  <2> QED BY <2>7, <2>8, <2>10 DEF BegunLoops
<1>6. ASSUME NEW q \in BegunLoops(calls, l)
      PROVE  q \in {Points(list)[i] : i \in 1..Len(list)}
  <2>1. PICK k \in 0..Len(calls) :
            Frame(calls, k) /\ q \in {<<k, d>> : d \in {d \in DOMAIN Begun(At(calls, l, k)) :
                                                   IsLoop(Begun(At(calls, l, k))[d])}}
    BY DEF BegunLoops
  <2>2. PICK d \in DOMAIN Begun(At(calls, l, k)) :
            IsLoop(Begun(At(calls, l, k))[d]) /\ q = <<k, d>>
    BY <2>1
  <2>3. Place(bc, path, k) = Begun(At(calls, l, k)) /\ Place(bc, path, k) \in Seq(Blocks)
    BY <1>4
  <2>4. d \in 1..Len(Place(bc, path, k)) /\ IsLoop(Place(bc, path, k)[d])
    BY <2>2, <2>3, LenProperties
  <2>5. Place(bc, path, k)[d] \in AnyLoop
    BY <2>3, <2>4, ElementOfSeq DEF AnyLoop
  <2>6. PICK i \in 1..Len(list) : list[i].state.nFuncCalls = k /\ Len(list[i].path) = d
    BY <1>3, <2>1, <2>4, <2>5 DEF Matches, Complete
  <2>7. Points(list)[i] = q
    BY <2>2, <2>6 DEF Points, PointOf
  <2> QED BY <2>7
<1> QED BY <1>5, <1>6

LEMMA StepsAreOpen ==
    ASSUME Inv, StepList PROVE pForStep = OpenSteps(aFuncCall, pc)
<1>1. PICK list \in Seq(Saved) : StepsOf(list)
  BY DEF StepList
<1>2. PICK calls \in Seq(Calls) : calls = aFuncCall
  BY TypesOfSteps
<1>3. PICK l \in Locs : l = pc
  BY TypesOfSteps
<1>4. PICK steps \in Seq(Steps \cup {0}) : steps = pForStep
  BY TypesOfSteps
<1>5. /\ Matches(BegunCalls(calls), Begun(l), list, AnyLoop) /\ Ordered(list)
      /\ ScopesKnown(BegunCalls(calls), list) /\ Len(list) = Len(steps)
      /\ \A i \in 1..Len(list) : list[i].path[Len(list[i].path)].step = steps[i]
  BY <1>1, <1>2, <1>3, <1>4 DEF StepsOf, Stack, Held, Matches
<1>6. PICK P : P = BegunLoops(calls, l)
  OBVIOUS
<1>7. PICK pt : pt = Points(list)
  OBVIOUS
<1>8. PICK N \in Nat : N = Len(list)
  BY LenProperties
<1>9. Holds(P, N, pt)
  BY <1>5, <1>6, <1>7, <1>8, PointsAreLoops DEF Holds
<1>10. InOrder(N, pt)
  BY <1>5, <1>7, <1>8, PointsInOrder DEF InOrder
<1>11. Cardinality(P) = N
  BY <1>9, <1>10, CountOfPoints
<1>12. ASSUME NEW i \in 1..N PROVE (CHOOSE q \in P : Rank(P, q) = i) = pt[i]
  BY <1>9, <1>10, PointAtRank
<1>13. ASSUME NEW i \in 1..N
       PROVE  Begun(At(calls, l, pt[i][1]))[pt[i][2]].step = steps[i]
  <2>1. PICK k : k = list[i].state.nFuncCalls
    OBVIOUS
  <2>2. PICK d : d = Len(list[i].path)
    OBVIOUS
  <2>3. pt[i][1] = k /\ pt[i][2] = d
    BY <1>7, <1>8, <2>1, <2>2 DEF Points, PointOf
  <2>4. IsOpen(BegunCalls(calls), Begun(l), list[i], AnyLoop)
    BY <1>5, <1>8 DEF Matches
  <2>5. k \in 0..Len(calls)
    BY <2>1, <2>4, FrameIndex, BegunCallsType DEF IsOpen
  <2>6. PICK q : q = Place(BegunCalls(calls), Begun(l), k)
    OBVIOUS
  <2>7. PICK p : p = Place(calls, l.path, k)
    OBVIOUS
  <2>8. q = Begun(At(calls, l, k))
    BY <2>5, <2>6, <2>7, BegunPlace
  <2>9. q[d] = list[i].path[d]
    <3>1. d \in 1..d
      BY <2>2, <2>4, SavedFields, <1>8
    <3> QED BY <2>1, <2>2, <2>4, <2>6, <3>1 DEF IsOpen
  <2> QED BY <1>5, <1>8, <2>2, <2>3, <2>8, <2>9
<1>14. OpenSteps(calls, l) = [i \in 1..N |-> steps[i]]
  <2> DEFINE nth(i) == CHOOSE q \in P : Rank(P, q) = i
             step(q) == Begun(At(calls, l, q[1]))[q[2]].step
  <2>1. OpenSteps(calls, l) = [i \in 1..Cardinality(P) |-> step(nth(i))]
    BY <1>6 DEF OpenSteps, Rank
  <2>2. \A i \in 1..N : step(nth(i)) = steps[i]
    BY <1>12, <1>13
  <2> HIDE DEF nth, step
  <2> QED BY <1>11, <2>1, <2>2
<1>15. steps = [i \in 1..N |-> steps[i]]
  BY <1>5, <1>8
<1> QED BY <1>2, <1>3, <1>4, <1>14, <1>15

-----------------------------------------------------------------------------
(* Every theorem below is of programs that do not return from inside a try  *)
(* block of a plain function: that shape leaves the block in pTry, which    *)
(* breaks them all.  No other shape, nesting or limit breaks the first      *)
(* five; the last asks besides that no command leaves a caller's loop.      *)

(* ring_vm_exit() and ring_vm_loop() find the marks of exactly the loops    *)
(* that are open and whose text has exit or loop, each once, the outermost  *)
(* first, and a loop's two marks stand at one place of both lists.          *)
THEOREM MarksAreLoops ==
    ASSUME "return_in_try" \notin Programs PROVE Spec => []MarksMatchLoops
<1>1. Book => MarksMatchLoops
  BY DEF Book, Data, LoopsKnown, SameMark, MarksMatchLoops
<1>2. Inv /\ Book /\ [Next]_vars => Book'
  BY NextBook
<1> QED BY <1>1, <1>2, InitInv, NextInv, InitBook, PTL DEF Spec

(* pTry holds the try blocks that are open and no finished one, so that     *)
(* ring_vm_catch() hands an error to the innermost block around it.         *)
THEOREM TriesAreOpen ==
    ASSUME "return_in_try" \notin Programs PROVE Spec => []TriesMatch
<1>1. Book => TriesMatch
  BY DEF Book, Data, TriesMatch
<1>2. Inv /\ Book /\ [Next]_vars => Book'
  BY NextBook
<1> QED BY <1>1, <1>2, InitInv, NextInv, InitBook, PTL DEF Spec

(* ring_vm_deletescope(), which returns, errors and jumps call in loops of  *)
(* their own, leaves one scope for the program and each function running.   *)
THEOREM OneScopePerFunction ==
    ASSUME "return_in_try" \notin Programs PROVE Spec => []ScopesMatch
<1>1. Book => ScopesMatch
  BY DEF Book, ScopesCounted, ScopesMatch
<1>2. Inv /\ Book /\ [Next]_vars => Book'
  BY NextBook
<1> QED BY <1>1, <1>2, InitInv, NextInv, InitBook, PTL DEF Spec

(* A catch block runs only after an error made inside its own try block:    *)
(* whatever is removed from pTry to run one was open when the error came.   *)
THEOREM OpenTryCatches ==
    ASSUME "return_in_try" \notin Programs PROVE Spec => CaughtByOpenTry
<1>1. Inv /\ Inv' /\ Book =>
          (Len(pTry') < Len(pTry) /\ pc' = CatchBlock(pTry[Len(pTry') + 1])
              => IsOpen(aFuncCall, pc.path, pTry[Len(pTry') + 1], TryBlocks))
  <2> SUFFICES ASSUME Inv, Inv', Book, Len(pTry') < Len(pTry)
               PROVE  IsOpen(aFuncCall, pc.path, pTry[Len(pTry') + 1], TryBlocks)
    OBVIOUS
  <2>1. Len(pTry) \in Nat /\ Len(pTry') \in Nat
    BY LenProperties DEF Inv, Typed
  <2>2. Len(pTry') + 1 \in 1..Len(pTry)
    BY <2>1
  <2> QED BY <2>2 DEF Book, Data, Matches
<1>2. Inv /\ Book /\ [Next]_vars => Book'
  BY NextBook
<1> QED
  BY <1>1, <1>2, InitInv, NextInv, InitBook, PTL DEF Spec, CaughtByOpenTry

(* aFuncCall, aScopes and aStack never pass their limits: the scopes need   *)
(* no check of their own, because each belongs to a call that is counted.   *)
THEOREM ArraysWithinLimits ==
    ASSUME "return_in_try" \notin Programs PROVE Spec => []WithinArrays
<1>1. Bounds => WithinArrays
  BY DEF Bounds, WithinArrays
<1>2. Inv /\ Book /\ [Next]_vars => Book'
  BY NextBook
<1>3. Inv /\ Book /\ Bounds /\ [Next]_vars => Bounds'
  BY NextBounds
<1> QED BY <1>1, <1>2, <1>3, InitInv, NextInv, InitBook, InitBounds, PTL DEF Spec

(* pForStep holds the steps of the loops that have begun, one for each, the *)
(* outermost first: a jump, a return or an error removes the steps of the   *)
(* loops it leaves and no others, however many and however they are nested. *)
(* The command of a function must not leave a loop of its caller here: the  *)
(* step that is popped would then be that of a loop that goes on.           *)
THEOREM StepsAreLoops ==
    ASSUME "return_in_try" \notin Programs, "exit_in_callee" \notin Programs
    PROVE  Spec => []StepsMatchLoops
<1>1. Inv /\ StepBook => StepsMatchLoops
  BY StepsAreOpen DEF StepBook, StepsMatchLoops
<1>2. Inv /\ Book /\ [Next]_vars => Book'
  BY NextBook
<1>3. Inv /\ Book /\ Bounds /\ [Next]_vars => Bounds'
  BY NextBounds
<1>4. Inv /\ Book /\ Bounds /\ StepBook /\ [Next]_vars => StepBook'
  BY NextSteps
<1> QED
  BY <1>1, <1>2, <1>3, <1>4, InitInv, NextInv, InitBook, InitBounds, InitSteps, PTL DEF Spec
=============================================================================
