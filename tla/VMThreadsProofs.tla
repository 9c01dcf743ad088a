-------------------------- MODULE VMThreadsProofs --------------------------
(***************************************************************************)
(* Theorems about VMThreads: while no hash table grows and no tracked item *)
(* is moved, threads of any number never wait for each other in a circle.  *)
(* The argument is that of lock ordering: every operation takes mutexes in *)
(* the order of Rank, and gives back what it takes.                        *)
(***************************************************************************)
EXTENDS VMThreads, TLAPS

Rank(m) == CASE m = "VM" -> 1 [] m = "POOL" -> 2 [] m = "FUNC" -> 3
             [] m = "VAR" -> 4 [] m = "ITEM" -> 5

(* Between positions i and j of s nothing gives m back. *)
Keeps(s, i, j, m) == \A k \in i..j : s[k] # Unlock(m)

(* Whoever holds the mutexes of held, and has s to do, takes each mutex    *)
(* while holding only mutexes of lower rank.                               *)
InOrder(s, held) ==
    \A i \in 1..Len(s), m \in Mutexes : s[i] = Lock(m) =>
        /\ \A n \in held : Keeps(s, 1, i - 1, n) => Rank(n) < Rank(m)
        /\ \A j \in 1..i - 1, n \in Mutexes :
               s[j] = Lock(n) /\ Keeps(s, j + 1, i - 1, n) => Rank(n) < Rank(m)

(* What is held, and what s takes, is given back. *)
GivesBack(s, held) ==
    /\ \A n \in held : \E k \in 1..Len(s) : s[k] = Unlock(n)
    /\ \A j \in 1..Len(s), n \in Mutexes :
           s[j] = Lock(n) => \E k \in j + 1..Len(s) : s[k] = Unlock(n)

Orderly(s, held) == InOrder(s, held) /\ GivesBack(s, held)

Held(t) == {m \in Mutexes : owner[m] = t}

IsNeither(x) == \A m \in Mutexes : x # Lock(m) /\ x # Unlock(m)

-----------------------------------------------------------------------------
(* What is left of an orderly script after its first step. *)

(* Whether a mutex is kept does not depend on where the script begins. *)
LEMMA TailKeeps ==
    ASSUME NEW s \in Seq(Steps), s # <<>>, NEW m, NEW i \in Nat, NEW j \in Int,
           j <= Len(s) - 1, i >= 1
    PROVE  Keeps(Tail(s), i, j, m) <=> Keeps(s, i + 1, j + 1, m)
<1>1. \A k \in 1..Len(s) - 1 : Tail(s)[k] = s[k + 1]
    OBVIOUS
<1>2. ASSUME Keeps(Tail(s), i, j, m) PROVE Keeps(s, i + 1, j + 1, m)
    <2> SUFFICES ASSUME NEW k \in i + 1..j + 1 PROVE s[k] # Unlock(m)
        BY DEF Keeps
    <2>1. k - 1 \in i..j /\ k - 1 \in 1..Len(s) - 1
        OBVIOUS
    <2> QED
        BY <1>1, <1>2, <2>1 DEF Keeps
<1>3. ASSUME Keeps(s, i + 1, j + 1, m) PROVE Keeps(Tail(s), i, j, m)
    <2> SUFFICES ASSUME NEW k \in i..j PROVE Tail(s)[k] # Unlock(m)
        BY DEF Keeps
    <2>1. k + 1 \in i + 1..j + 1 /\ k \in 1..Len(s) - 1
        OBVIOUS
    <2> QED
        BY <1>1, <1>3, <2>1 DEF Keeps
<1> QED
    BY <1>2, <1>3

(* What is left takes its mutexes in order, for what is held by then. *)
LEMMA TailInOrder ==
    ASSUME NEW s \in Seq(Steps), s # <<>>, NEW held \in SUBSET Mutexes,
           InOrder(s, held), NEW after \in SUBSET Mutexes,
           \A n \in after : \/ n \in held /\ s[1] # Unlock(n)
                            \/ s[1] = Lock(n)
    PROVE  InOrder(Tail(s), after)
<1> SUFFICES ASSUME NEW i \in 1..Len(Tail(s)), NEW m \in Mutexes, Tail(s)[i] = Lock(m)
             PROVE  /\ \A n \in after : Keeps(Tail(s), 1, i - 1, n) => Rank(n) < Rank(m)
                    /\ \A j \in 1..i - 1, n \in Mutexes :
                           Tail(s)[j] = Lock(n) /\ Keeps(Tail(s), j + 1, i - 1, n)
                               => Rank(n) < Rank(m)
    BY DEF InOrder
<1>1. i \in Nat /\ i >= 1 /\ i <= Len(s) - 1 /\ i + 1 \in 1..Len(s) /\ Len(s) \in Nat
    OBVIOUS
<1>2. s[i + 1] = Lock(m)
    BY <1>1
<1>3. ASSUME NEW n \in after, Keeps(Tail(s), 1, i - 1, n) PROVE Rank(n) < Rank(m)
    <2>1. Keeps(s, 2, i, n)
        <3>1. Keeps(s, 1 + 1, (i - 1) + 1, n)
            BY <1>1, <1>3, TailKeeps
        <3> QED BY <3>1, <1>1
    <2>2. CASE n \in held /\ s[1] # Unlock(n)
        <3>1. Keeps(s, 1, (i + 1) - 1, n)
            BY <1>1, <2>1, <2>2 DEF Keeps
        <3> QED
            BY <1>1, <1>2, <2>2, <3>1 DEF InOrder
    <2>3. CASE s[1] = Lock(n)
        <3>1. 1 \in 1..(i + 1) - 1 /\ Keeps(s, 1 + 1, (i + 1) - 1, n)
            BY <1>1, <2>1
        <3> QED
            BY <1>1, <1>2, <2>3, <3>1 DEF InOrder
    <2> QED
        BY <2>2, <2>3
<1>4. ASSUME NEW j \in 1..i - 1, NEW n \in Mutexes, Tail(s)[j] = Lock(n),
             Keeps(Tail(s), j + 1, i - 1, n)
      PROVE  Rank(n) < Rank(m)
    <2>1. s[j + 1] = Lock(n) /\ j + 1 \in 1..(i + 1) - 1
        BY <1>1, <1>4
    <2>2. Keeps(s, (j + 1) + 1, (i + 1) - 1, n)
        <3>1. Keeps(s, (j + 1) + 1, (i - 1) + 1, n)
            BY <1>1, <1>4, TailKeeps
        <3> QED BY <3>1, <1>1
    <2> QED
        BY <1>1, <1>2, <2>1, <2>2 DEF InOrder
<1> QED
    BY <1>3, <1>4

(* What is left gives back what is held by then. *)
LEMMA TailGivesBack ==
    ASSUME NEW s \in Seq(Steps), s # <<>>, NEW held \in SUBSET Mutexes,
           GivesBack(s, held), NEW after \in SUBSET Mutexes,
           \A n \in after : \/ n \in held /\ s[1] # Unlock(n)
                            \/ s[1] = Lock(n)
    PROVE  GivesBack(Tail(s), after)
<1>1. Len(s) \in Nat /\ Len(s) >= 1 /\ Len(Tail(s)) = Len(s) - 1
    OBVIOUS
<1>2. \A k \in 2..Len(s) : k - 1 \in 1..Len(Tail(s)) /\ Tail(s)[k - 1] = s[k]
    BY <1>1
<1>3. ASSUME NEW n \in after PROVE \E k \in 1..Len(Tail(s)) : Tail(s)[k] = Unlock(n)
    <2>1. CASE n \in held /\ s[1] # Unlock(n)
        <3>1. PICK k \in 1..Len(s) : s[k] = Unlock(n)
            BY <2>1 DEF GivesBack
        <3>2. k \in 2..Len(s)
            BY <2>1, <3>1
        <3> QED
            BY <1>2, <3>1, <3>2
    <2>2. CASE s[1] = Lock(n)
        <3>1. PICK k \in 1 + 1..Len(s) : s[k] = Unlock(n)
            BY <1>1, <2>2 DEF GivesBack
        <3>2. k \in 2..Len(s) /\ k - 1 \in 1..Len(Tail(s)) /\ Tail(s)[k - 1] = s[k]
            BY <1>1, <1>2
        <3> QED
            BY <3>1, <3>2
    <2> QED
        BY <2>1, <2>2
<1>4. ASSUME NEW j \in 1..Len(Tail(s)), NEW n \in Mutexes, Tail(s)[j] = Lock(n)
      PROVE  \E k \in j + 1..Len(Tail(s)) : Tail(s)[k] = Unlock(n)
    <2>1. j + 1 \in 1..Len(s) /\ s[j + 1] = Lock(n)
        BY <1>1, <1>4
    <2>2. PICK k \in (j + 1) + 1..Len(s) : s[k] = Unlock(n)
        BY <2>1 DEF GivesBack
    <2>3. k - 1 \in j + 1..Len(Tail(s)) /\ k \in 2..Len(s)
        BY <1>1
    <2> QED
        BY <1>2, <2>2, <2>3
<1> QED
    BY <1>3, <1>4 DEF GivesBack

(* Both of these. *)
LEMMA TailOrderly ==
    ASSUME NEW s \in Seq(Steps), s # <<>>, NEW held \in SUBSET Mutexes,
           Orderly(s, held), NEW after \in SUBSET Mutexes,
           \A n \in after : \/ n \in held /\ s[1] # Unlock(n)
                            \/ s[1] = Lock(n)
    PROVE  Orderly(Tail(s), after)
    BY TailInOrder, TailGivesBack DEF Orderly

-----------------------------------------------------------------------------
(* Scripts that are made of others. *)

(* Two orderly scripts that begin with nothing held, one after the other. *)
LEMMA CatOrderly ==
    ASSUME NEW s \in Seq(Steps), NEW t \in Seq(Steps), Orderly(s, {}), Orderly(t, {})
    PROVE  Orderly(s \o t, {})
<1> DEFINE u == s \o t
           a == Len(s)
<1>1. a \in Nat /\ Len(t) \in Nat /\ Len(u) = a + Len(t)
    OBVIOUS
<1>2. \A i \in 1..a : u[i] = s[i]
    OBVIOUS
<1>3. \A i \in a + 1..Len(u) : i - a \in 1..Len(t) /\ u[i] = t[i - a]
    OBVIOUS
<1> HIDE DEF u, a
<1>4. ASSUME NEW j \in 1..Len(u), NEW n \in Mutexes, u[j] = Lock(n)
      PROVE  \E k \in j + 1..Len(u) : u[k] = Unlock(n) /\ (j <= a => k <= a)
    <2>1. CASE j <= a
        <3>1. j \in 1..Len(s) /\ s[j] = Lock(n)
            BY <1>1, <1>2, <1>4, <2>1 DEF a
        <3>2. PICK k \in j + 1..Len(s) : s[k] = Unlock(n)
            BY <3>1 DEF Orderly, GivesBack
        <3> QED
            BY <1>1, <1>2, <2>1, <3>2 DEF a
    <2>2. CASE j > a
        <3>1. j - a \in 1..Len(t) /\ t[j - a] = Lock(n)
            BY <1>1, <1>3, <1>4, <2>2
        <3>2. PICK k \in (j - a) + 1..Len(t) : t[k] = Unlock(n)
            BY <3>1 DEF Orderly, GivesBack
        <3>3. k + a \in j + 1..Len(u) /\ k + a \in a + 1..Len(u) /\ (k + a) - a = k
            BY <1>1, <2>2
        <3>4. u[k + a] = Unlock(n)
            BY <1>3, <3>2, <3>3
        <3> QED
            BY <1>1, <2>2, <3>3, <3>4
    <2> QED
        BY <1>1, <2>1, <2>2
<1>5. GivesBack(u, {})
    BY <1>4 DEF GivesBack
<1>6. ASSUME NEW i \in 1..Len(u), NEW m \in Mutexes, u[i] = Lock(m),
             NEW j \in 1..i - 1, NEW n \in Mutexes, u[j] = Lock(n), Keeps(u, j + 1, i - 1, n)
      PROVE  Rank(n) < Rank(m)
    <2>1. CASE i <= a
        <3>1. i \in 1..Len(s) /\ s[i] = Lock(m) /\ s[j] = Lock(n)
            <4>1. i \in 1..a /\ j \in 1..a
                BY <1>1, <2>1
            <4>2. u[i] = s[i] /\ u[j] = s[j]
                BY <1>2, <4>1
            <4> QED
                BY <1>6, <4>1, <4>2 DEF a
        <3>2. Keeps(s, j + 1, i - 1, n)
            BY <1>1, <1>2, <1>6, <2>1 DEF Keeps
        <3> QED
            BY <3>1, <3>2 DEF Orderly, InOrder
    <2>2. CASE i > a /\ j <= a
        <3>1. PICK k \in j + 1..Len(u) : u[k] = Unlock(n) /\ k <= a
            BY <1>1, <1>4, <1>6, <2>2
        <3> QED
            BY <1>1, <1>6, <2>2, <3>1 DEF Keeps
    <2>3. CASE i > a /\ j > a
        <3>1. /\ i - a \in 1..Len(t) /\ t[i - a] = Lock(m)
              /\ j - a \in 1..(i - a) - 1 /\ t[j - a] = Lock(n)
            <4>1. i \in a + 1..Len(u) /\ j \in a + 1..Len(u)
                BY <1>1, <2>3
            <4>2. i - a \in 1..Len(t) /\ u[i] = t[i - a] /\ j - a \in 1..Len(t)
                  /\ u[j] = t[j - a]
                BY <1>3, <4>1
            <4>3. j - a \in 1..(i - a) - 1
                BY <1>1, <2>3
            <4> QED
                BY <1>6, <4>2, <4>3
        <3>2. Keeps(t, (j - a) + 1, (i - a) - 1, n)
            <4> SUFFICES ASSUME NEW k \in (j - a) + 1..(i - a) - 1 PROVE t[k] # Unlock(n)
                BY DEF Keeps
            <4>1. k + a \in j + 1..i - 1 /\ k + a \in a + 1..Len(u) /\ (k + a) - a = k
                BY <1>1, <2>3
            <4> QED
                BY <1>3, <1>6, <4>1 DEF Keeps
        <3> QED
            BY <3>1, <3>2 DEF Orderly, InOrder
    <2> QED
        BY <1>1, <2>1, <2>2, <2>3
<1>7. InOrder(u, {})
    BY <1>6 DEF InOrder
<1> QED
    BY <1>5, <1>7 DEF Orderly, u

-----------------------------------------------------------------------------
(* The operations. *)

(* A step is known by what it does and by its mutex. *)
LEMMA StepsDiffer ==
    /\ \A m, n \in Mutexes : /\ Lock(m) = Lock(n) => m = n
                             /\ Unlock(m) = Unlock(n) => m = n
                             /\ Lock(m) # Unlock(n)
    /\ \A m \in Mutexes : Lock(m) \in Steps /\ Unlock(m) \in Steps
    BY DEF Lock, Unlock, Steps

(* The steps on data take nothing and give nothing back. *)
LEMMA DataSteps ==
    /\ \A w \in {"add functions", "add code", "copy functions", "copy code",
                  "generate table", "fill table", "look up"} :
           Do(w) \in Steps /\ IsNeither(Do(w))
    /\ \A w \in {"new variable", "to table"}, x \in Vars :
           <<w, x>> \in Steps /\ IsNeither(<<w, x>>)
    BY DEF IsNeither, Do, Lock, Unlock, Steps

(* The order of the mutexes. *)
LEMMA Ranks ==
    /\ {"VM", "POOL", "FUNC", "VAR", "ITEM"} = Mutexes
    /\ Rank("VM") = 1 /\ Rank("POOL") = 2 /\ Rank("FUNC") = 3
    /\ Rank("VAR") = 4 /\ Rank("ITEM") = 5
    BY DEF Mutexes, Rank

(* A script that takes each mutex once, in the order of Rank, and gives it *)
(* back later.                                                             *)
LEMMA AscendingOrderly ==
    ASSUME NEW s \in Seq(Steps),
           \A i, j \in 1..Len(s), m, n \in Mutexes :
               s[j] = Lock(n) /\ s[i] = Lock(m) /\ j < i => Rank(n) < Rank(m),
           \A j \in 1..Len(s), n \in Mutexes :
               s[j] = Lock(n) => \E k \in j + 1..Len(s) : s[k] = Unlock(n)
    PROVE  Orderly(s, {})
    BY DEF Orderly, InOrder, GivesBack

(* A script with one critical section. *)
LEMMA OneMutex ==
    ASSUME NEW s \in Seq(Steps), NEW m \in Mutexes,
           NEW p \in 1..Len(s), NEW q \in p + 1..Len(s), s[p] = Lock(m), s[q] = Unlock(m),
           \A i \in 1..Len(s) : i # p /\ i # q => IsNeither(s[i])
    PROVE  Orderly(s, {})
<1>1. \A i \in 1..Len(s), n \in Mutexes : s[i] = Lock(n) => i = p /\ n = m
    BY StepsDiffer DEF IsNeither
<1> QED
    BY <1>1, AscendingOrderly

(* A script that takes a second mutex, of higher rank, inside the first. *)
LEMMA TwoMutexes ==
    ASSUME NEW s \in Seq(Steps), NEW m \in Mutexes, NEW n \in Mutexes, Rank(m) < Rank(n),
           NEW p \in 1..Len(s), NEW x \in p + 1..Len(s), NEW y \in x + 1..Len(s),
           NEW q \in y + 1..Len(s),
           s[p] = Lock(m), s[x] = Lock(n), s[y] = Unlock(n), s[q] = Unlock(m),
           \A i \in 1..Len(s) : i \notin {p, q, x, y} => IsNeither(s[i])
    PROVE  Orderly(s, {})
<1>1. \A i \in 1..Len(s), k \in Mutexes :
          s[i] = Lock(k) => (i = p /\ k = m) \/ (i = x /\ k = n)
    BY StepsDiffer DEF IsNeither
<1>2. \A i, j \in 1..Len(s), k, l \in Mutexes :
          s[j] = Lock(l) /\ s[i] = Lock(k) /\ j < i => Rank(l) < Rank(k)
    BY <1>1
<1>3. \A j \in 1..Len(s), k \in Mutexes :
          s[j] = Lock(k) => \E i \in j + 1..Len(s) : s[i] = Unlock(k)
    BY <1>1
<1> QED
    BY <1>2, <1>3, AscendingOrderly

(* Finding a variable looks at a table inside the mutex of variables. *)
LEMMA FindVarOrderly ==
    FindVar(<<>>) \in Seq(Steps) /\ Orderly(FindVar(<<>>), {})
<1> DEFINE a == Lock("VAR")
           b == Do("generate table")
           c == Do("look up")
           d == Unlock("VAR")
           u == FindVar(<<>>)
<1>1. /\ a \in Steps /\ b \in Steps /\ c \in Steps /\ d \in Steps
      /\ IsNeither(b) /\ IsNeither(c)
    BY StepsDiffer, DataSteps, Ranks
<1>2. u = <<a, b>> \o <<>> \o <<c, d>>
    BY DEF FindVar
<1> HIDE DEF a, b, c, d, u
<1>3. u \in Seq(Steps) /\ Len(u) = 4 /\ u[1] = a /\ u[2] = b /\ u[3] = c /\ u[4] = d
    BY <1>1, <1>2
<1>4. \A i \in 1..Len(u) : i = 1 \/ i = 2 \/ i = 3 \/ i = 4
    BY <1>3
<1>5. Orderly(u, {})
    <2>1. "VAR" \in Mutexes /\ u[1] = Lock("VAR") /\ u[4] = Unlock("VAR")
        BY <1>3, Ranks DEF a, d
    <2>2. 1 \in 1..Len(u) /\ 4 \in 1 + 1..Len(u)
        BY <1>3
    <2>3. \A i \in 1..Len(u) : i # 1 /\ i # 4 => IsNeither(u[i])
        BY <1>1, <1>3, <1>4
    <2> QED
        BY <1>3, <2>1, <2>2, <2>3, OneMutex
<1> QED
    BY <1>3, <1>5 DEF u

(* So does creating one. *)
LEMMA NewVarOrderly ==
    ASSUME NEW x \in Vars
    PROVE  NewVar(x, <<>>) \in Seq(Steps) /\ Orderly(NewVar(x, <<>>), {})
<1> DEFINE a == <<"new variable", x>>
           b == Lock("VAR")
           c == <<"to table", x>>
           d == Unlock("VAR")
           u == NewVar(x, <<>>)
<1>1. /\ a \in Steps /\ b \in Steps /\ c \in Steps /\ d \in Steps
      /\ IsNeither(a) /\ IsNeither(c)
    BY StepsDiffer, DataSteps, Ranks
<1>2. u = <<a, b, c>> \o <<>> \o <<d>>
    BY DEF NewVar
<1> HIDE DEF a, b, c, d, u
<1>3. u \in Seq(Steps) /\ Len(u) = 4 /\ u[1] = a /\ u[2] = b /\ u[3] = c /\ u[4] = d
    BY <1>1, <1>2
<1>4. \A i \in 1..Len(u) : i = 1 \/ i = 2 \/ i = 3 \/ i = 4
    BY <1>3
<1>5. Orderly(u, {})
    <2>1. "VAR" \in Mutexes /\ u[2] = Lock("VAR") /\ u[4] = Unlock("VAR")
        BY <1>3, Ranks DEF b, d
    <2>2. 2 \in 1..Len(u) /\ 4 \in 2 + 1..Len(u)
        BY <1>3
    <2>3. \A i \in 1..Len(u) : i # 2 /\ i # 4 => IsNeither(u[i])
        BY <1>1, <1>3, <1>4
    <2> QED
        BY <1>3, <2>1, <2>2, <2>3, OneMutex
<1> QED
    BY <1>3, <1>5 DEF u

(* A search among the functions, inside their mutex. *)
LEMMA FindFunctionOrderly ==
    FindFunction(<<>>) \in Seq(Steps) /\ Orderly(FindFunction(<<>>), {})
<1> DEFINE a == Lock("FUNC")
           b == Unlock("FUNC")
           u == FindFunction(<<>>)
<1>1. /\ a \in Steps /\ b \in Steps
    BY StepsDiffer, DataSteps, Ranks
<1>2. u = <<a>> \o <<>> \o <<b>>
    BY DEF FindFunction
<1> HIDE DEF a, b, u
<1>3. u \in Seq(Steps) /\ Len(u) = 2 /\ u[1] = a /\ u[2] = b
    BY <1>1, <1>2
<1>4. \A i \in 1..Len(u) : i = 1 \/ i = 2
    BY <1>3
<1>5. Orderly(u, {})
    <2>1. "FUNC" \in Mutexes /\ u[1] = Lock("FUNC") /\ u[2] = Unlock("FUNC")
        BY <1>3, Ranks DEF a, b
    <2>2. 1 \in 1..Len(u) /\ 2 \in 1 + 1..Len(u)
        BY <1>3
    <2>3. \A i \in 1..Len(u) : i # 1 /\ i # 2 => IsNeither(u[i])
        BY <1>1, <1>3, <1>4
    <2> QED
        BY <1>3, <2>1, <2>2, <2>3, OneMutex
<1> QED
    BY <1>3, <1>5 DEF u

(* Giving memory back to the pool. *)
LEMMA FreeMemoryOrderly ==
    FreeMemory \in Seq(Steps) /\ Orderly(FreeMemory, {})
<1> DEFINE a == Lock("POOL")
           b == Unlock("POOL")
           u == FreeMemory
<1>1. /\ a \in Steps /\ b \in Steps
    BY StepsDiffer, DataSteps, Ranks
<1>2. u = <<a, b>>
    BY DEF FreeMemory
<1> HIDE DEF a, b, u
<1>3. u \in Seq(Steps) /\ Len(u) = 2 /\ u[1] = a /\ u[2] = b
    BY <1>1, <1>2
<1>4. \A i \in 1..Len(u) : i = 1 \/ i = 2
    BY <1>3
<1>5. Orderly(u, {})
    <2>1. "POOL" \in Mutexes /\ u[1] = Lock("POOL") /\ u[2] = Unlock("POOL")
        BY <1>3, Ranks DEF a, b
    <2>2. 1 \in 1..Len(u) /\ 2 \in 1 + 1..Len(u)
        BY <1>3
    <2>3. \A i \in 1..Len(u) : i # 1 /\ i # 2 => IsNeither(u[i])
        BY <1>1, <1>3, <1>4
    <2> QED
        BY <1>3, <2>1, <2>2, <2>3, OneMutex
<1> QED
    BY <1>3, <1>5 DEF u

(* The callback of a new thread locks the machine and unlocks it. *)
LEMMA CallbackOrderly ==
    Callback \in Seq(Steps) /\ Orderly(Callback, {})
<1> DEFINE a == Lock("VM")
           b == Unlock("VM")
           u == Callback
<1>1. /\ a \in Steps /\ b \in Steps
    BY StepsDiffer, DataSteps, Ranks
<1>2. u = <<a, b>>
    BY DEF Callback
<1> HIDE DEF a, b, u
<1>3. u \in Seq(Steps) /\ Len(u) = 2 /\ u[1] = a /\ u[2] = b
    BY <1>1, <1>2
<1>4. \A i \in 1..Len(u) : i = 1 \/ i = 2
    BY <1>3
<1>5. Orderly(u, {})
    <2>1. "VM" \in Mutexes /\ u[1] = Lock("VM") /\ u[2] = Unlock("VM")
        BY <1>3, Ranks DEF a, b
    <2>2. 1 \in 1..Len(u) /\ 2 \in 1 + 1..Len(u)
        BY <1>3
    <2>3. \A i \in 1..Len(u) : i # 1 /\ i # 2 => IsNeither(u[i])
        BY <1>1, <1>3, <1>4
    <2> QED
        BY <1>3, <2>1, <2>2, <2>3, OneMutex
<1> QED
    BY <1>3, <1>5 DEF u

(* eval() locks only the mutex of functions. *)
LEMMA EvalOrderly ==
    Eval(<<>>) \in Seq(Steps) /\ Orderly(Eval(<<>>), {})
<1> DEFINE a == Do("add functions")
           b == Lock("FUNC")
           c == Unlock("FUNC")
           d == Do("add code")
           u == Eval(<<>>)
<1>1. /\ a \in Steps /\ b \in Steps /\ c \in Steps /\ d \in Steps
      /\ IsNeither(a) /\ IsNeither(d)
    BY StepsDiffer, DataSteps, Ranks
<1>2. u = <<a, b>> \o <<>> \o <<c, d>>
    BY DEF Eval
<1> HIDE DEF a, b, c, d, u
<1>3. u \in Seq(Steps) /\ Len(u) = 4 /\ u[1] = a /\ u[2] = b /\ u[3] = c /\ u[4] = d
    BY <1>1, <1>2
<1>4. \A i \in 1..Len(u) : i = 1 \/ i = 2 \/ i = 3 \/ i = 4
    BY <1>3
<1>5. Orderly(u, {})
    <2>1. "FUNC" \in Mutexes /\ u[2] = Lock("FUNC") /\ u[3] = Unlock("FUNC")
        BY <1>3, Ranks DEF b, c
    <2>2. 2 \in 1..Len(u) /\ 3 \in 2 + 1..Len(u)
        BY <1>3
    <2>3. \A i \in 1..Len(u) : i # 2 /\ i # 3 => IsNeither(u[i])
        BY <1>1, <1>3, <1>4
    <2> QED
        BY <1>3, <2>1, <2>2, <2>3, OneMutex
<1> QED
    BY <1>3, <1>5 DEF u

(* The end of eval() frees memory inside the mutex of the machine. *)
LEMMA ReturnEvalOrderly ==
    ReturnEval \in Seq(Steps) /\ Orderly(ReturnEval, {})
<1> DEFINE a == Lock("VM")
           b == Lock("POOL")
           c == Unlock("POOL")
           d == Unlock("VM")
           u == ReturnEval
<1>1. /\ a \in Steps /\ b \in Steps /\ c \in Steps /\ d \in Steps
    BY StepsDiffer, DataSteps, Ranks
<1>2. u = <<a>> \o <<b, c>> \o <<d>>
    BY DEF ReturnEval, FreeMemory
<1> HIDE DEF a, b, c, d, u
<1>3. u \in Seq(Steps) /\ Len(u) = 4 /\ u[1] = a /\ u[2] = b /\ u[3] = c /\ u[4] = d
    BY <1>1, <1>2
<1>4. \A i \in 1..Len(u) : i = 1 \/ i = 2 \/ i = 3 \/ i = 4
    BY <1>3
<1>5. Orderly(u, {})
    <2>1. /\ u[1] = Lock("VM") /\ u[2] = Lock("POOL")
          /\ u[3] = Unlock("POOL") /\ u[4] = Unlock("VM")
        BY <1>3 DEF a, b, c, d
    <2>2. \A i \in 1..Len(u) : i \notin {1, 4, 2, 3} => IsNeither(u[i])
        BY <1>1, <1>3, <1>4
    <2>3. 1 \in 1..Len(u) /\ 2 \in 1 + 1..Len(u) /\ 3 \in 2 + 1..Len(u) /\ 4 \in 3 + 1..Len(u)
        BY <1>3
    <2>4. "VM" \in Mutexes /\ "POOL" \in Mutexes /\ Rank("VM") < Rank("POOL")
        BY Ranks
    <2> QED
        BY <1>3, <2>1, <2>2, <2>3, <2>4, TwoMutexes
<1> QED
    BY <1>3, <1>5 DEF u

(* So does the end of a thread state. *)
LEMMA DeleteOrderly ==
    DeleteThreadState \in Seq(Steps) /\ Orderly(DeleteThreadState, {})
<1> DEFINE a == Lock("VM")
           b == Lock("POOL")
           c == Unlock("POOL")
           d == Unlock("VM")
           u == DeleteThreadState
<1>1. /\ a \in Steps /\ b \in Steps /\ c \in Steps /\ d \in Steps
    BY StepsDiffer, DataSteps, Ranks
<1>2. u = <<a>> \o <<b, c>> \o <<d>>
    BY DEF DeleteThreadState, FreeMemory
<1> HIDE DEF a, b, c, d, u
<1>3. u \in Seq(Steps) /\ Len(u) = 4 /\ u[1] = a /\ u[2] = b /\ u[3] = c /\ u[4] = d
    BY <1>1, <1>2
<1>4. \A i \in 1..Len(u) : i = 1 \/ i = 2 \/ i = 3 \/ i = 4
    BY <1>3
<1>5. Orderly(u, {})
    <2>1. /\ u[1] = Lock("VM") /\ u[2] = Lock("POOL")
          /\ u[3] = Unlock("POOL") /\ u[4] = Unlock("VM")
        BY <1>3 DEF a, b, c, d
    <2>2. \A i \in 1..Len(u) : i \notin {1, 4, 2, 3} => IsNeither(u[i])
        BY <1>1, <1>3, <1>4
    <2>3. 1 \in 1..Len(u) /\ 2 \in 1 + 1..Len(u) /\ 3 \in 2 + 1..Len(u) /\ 4 \in 3 + 1..Len(u)
        BY <1>3
    <2>4. "VM" \in Mutexes /\ "POOL" \in Mutexes /\ Rank("VM") < Rank("POOL")
        BY Ranks
    <2> QED
        BY <1>3, <2>1, <2>2, <2>3, <2>4, TwoMutexes
<1> QED
    BY <1>3, <1>5 DEF u

(* The functions of a thread of its own, inside the mutex of the machine. *)
LEMMA RunThreadCodeOrderly ==
    RunThreadCode(<<>>) \in Seq(Steps) /\ Orderly(RunThreadCode(<<>>), {})
<1> DEFINE a == Lock("VM")
           b == Lock("FUNC")
           c == Unlock("FUNC")
           d == Unlock("VM")
           u == RunThreadCode(<<>>)
<1>1. /\ a \in Steps /\ b \in Steps /\ c \in Steps /\ d \in Steps
    BY StepsDiffer, DataSteps, Ranks
<1>2. u = <<a, b>> \o <<>> \o <<c, d>>
    BY DEF RunThreadCode
<1> HIDE DEF a, b, c, d, u
<1>3. u \in Seq(Steps) /\ Len(u) = 4 /\ u[1] = a /\ u[2] = b /\ u[3] = c /\ u[4] = d
    BY <1>1, <1>2
<1>4. \A i \in 1..Len(u) : i = 1 \/ i = 2 \/ i = 3 \/ i = 4
    BY <1>3
<1>5. Orderly(u, {})
    <2>1. /\ u[1] = Lock("VM") /\ u[2] = Lock("FUNC")
          /\ u[3] = Unlock("FUNC") /\ u[4] = Unlock("VM")
        BY <1>3 DEF a, b, c, d
    <2>2. \A i \in 1..Len(u) : i \notin {1, 4, 2, 3} => IsNeither(u[i])
        BY <1>1, <1>3, <1>4
    <2>3. 1 \in 1..Len(u) /\ 2 \in 1 + 1..Len(u) /\ 3 \in 2 + 1..Len(u) /\ 4 \in 3 + 1..Len(u)
        BY <1>3
    <2>4. "VM" \in Mutexes /\ "FUNC" \in Mutexes /\ Rank("VM") < Rank("FUNC")
        BY Ranks
    <2> QED
        BY <1>3, <2>1, <2>2, <2>3, <2>4, TwoMutexes
<1> QED
    BY <1>3, <1>5 DEF u

(* An eval() inside the mutex of the machine. *)
LEMMA LockedEvalOrderly ==
    (<<Lock("VM")>> \o Eval(<<>>) \o <<Unlock("VM")>>) \in Seq(Steps)
    /\ Orderly((<<Lock("VM")>> \o Eval(<<>>) \o <<Unlock("VM")>>), {})
<1> DEFINE a == Lock("VM")
           b == Do("add functions")
           c == Lock("FUNC")
           d == Unlock("FUNC")
           e == Do("add code")
           f == Unlock("VM")
           v == Eval(<<>>)
           u == (<<Lock("VM")>> \o Eval(<<>>) \o <<Unlock("VM")>>)
<1>1. /\ a \in Steps /\ b \in Steps /\ c \in Steps /\ d \in Steps /\ e \in Steps /\ f \in Steps
      /\ IsNeither(b) /\ IsNeither(e)
    BY StepsDiffer, DataSteps, Ranks
<1>2. v = <<b, c>> \o <<>> \o <<d, e>> /\ u = <<a>> \o v \o <<f>>
    BY DEF Eval
<1> HIDE DEF a, b, c, d, e, f, v, u
<1>3. v \in Seq(Steps) /\ Len(v) = 4 /\ v[1] = b /\ v[2] = c /\ v[3] = d /\ v[4] = e
    BY <1>1, <1>2
<1>4. u \in Seq(Steps) /\ Len(u) = 6 /\ u[1] = a /\ u[2] = b /\ u[3] = c /\ u[4] = d
      /\ u[5] = e /\ u[6] = f
    BY <1>1, <1>2, <1>3
<1>5. \A i \in 1..Len(u) : i = 1 \/ i = 2 \/ i = 3 \/ i = 4 \/ i = 5 \/ i = 6
    BY <1>4
<1>6. Orderly(u, {})
    <2>1. /\ u[1] = Lock("VM") /\ u[3] = Lock("FUNC")
          /\ u[4] = Unlock("FUNC") /\ u[6] = Unlock("VM")
        BY <1>4 DEF a, c, d, f
    <2>2. \A i \in 1..Len(u) : i \notin {1, 6, 3, 4} => IsNeither(u[i])
        BY <1>1, <1>4, <1>5
    <2>3. 1 \in 1..Len(u) /\ 3 \in 1 + 1..Len(u) /\ 4 \in 3 + 1..Len(u) /\ 6 \in 4 + 1..Len(u)
        BY <1>4
    <2>4. "VM" \in Mutexes /\ "FUNC" \in Mutexes /\ Rank("VM") < Rank("FUNC")
        BY Ranks
    <2> QED
        BY <1>4, <2>1, <2>2, <2>3, <2>4, TwoMutexes
<1> QED
    BY <1>4, <1>6 DEF u

(* The start of a thread state holds four mutexes at a time. *)
LEMMA CreateOrderly ==
    CreateThreadState \in Seq(Steps) /\ Orderly(CreateThreadState, {})
<1> DEFINE a == Lock("VM")
           b == Lock("POOL")
           c == Lock("FUNC")
           d == Lock("VAR")
           e == Do("copy functions")
           f == Do("copy code")
           g == Unlock("VM")
           h == Unlock("POOL")
           k == Unlock("FUNC")
           l == Unlock("VAR")
           u == CreateThreadState
<1>1. /\ a \in Steps /\ b \in Steps /\ c \in Steps /\ d \in Steps /\ e \in Steps
      /\ f \in Steps /\ g \in Steps /\ h \in Steps /\ k \in Steps /\ l \in Steps
      /\ IsNeither(e) /\ IsNeither(f)
    BY StepsDiffer, DataSteps, Ranks
<1>2. u = <<a, b, c, d, e, f, g, h, k, l>>
    BY DEF CreateThreadState
<1> HIDE DEF a, b, c, d, e, f, g, h, k, l, u
<1>3. u \in Seq(Steps) /\ Len(u) = 10 /\ u[1] = a /\ u[2] = b /\ u[3] = c /\ u[4] = d
      /\ u[5] = e /\ u[6] = f /\ u[7] = g /\ u[8] = h /\ u[9] = k /\ u[10] = l
    BY <1>1, <1>2
<1>4. \A i \in 1..Len(u) : i = 1 \/ i = 2 \/ i = 3 \/ i = 4 \/ i = 5 \/ i = 6 \/ i = 7
      \/ i = 8 \/ i = 9 \/ i = 10
    BY <1>3
<1>5. Orderly(u, {})
    <2>1. \A i \in 1..Len(u), m \in Mutexes : u[i] = Lock(m) =>
              \/ i = 1 /\ m = "VM"
              \/ i = 2 /\ m = "POOL"
              \/ i = 3 /\ m = "FUNC"
              \/ i = 4 /\ m = "VAR"
        <3>1. u[1] = Lock("VM") /\ u[2] = Lock("POOL") /\ u[3] = Lock("FUNC")
              /\ u[4] = Lock("VAR") /\ u[7] = Unlock("VM") /\ u[8] = Unlock("POOL")
              /\ u[9] = Unlock("FUNC") /\ u[10] = Unlock("VAR")
            BY <1>3 DEF a, b, c, d, g, h, k, l
        <3>2. \A m \in Mutexes : /\ u[5] # Lock(m) /\ u[6] # Lock(m) /\ u[7] # Lock(m)
                                 /\ u[8] # Lock(m) /\ u[9] # Lock(m) /\ u[10] # Lock(m)
            BY <1>1, <1>3, <3>1, StepsDiffer, Ranks DEF IsNeither
        <3>3. \A m \in Mutexes : /\ u[1] = Lock(m) => m = "VM"
                                 /\ u[2] = Lock(m) => m = "POOL"
                                 /\ u[3] = Lock(m) => m = "FUNC"
                                 /\ u[4] = Lock(m) => m = "VAR"
            BY <3>1, StepsDiffer, Ranks
        <3> QED
            BY <1>4, <3>2, <3>3
    <2>2. u[7] = Unlock("VM") /\ u[8] = Unlock("POOL") /\ u[9] = Unlock("FUNC")
          /\ u[10] = Unlock("VAR")
        BY <1>3 DEF g, h, k, l
    <2>3. \A i, j \in 1..Len(u), m, n \in Mutexes :
              u[j] = Lock(n) /\ u[i] = Lock(m) /\ j < i => Rank(n) < Rank(m)
        BY <2>1, Ranks
    <2>4. \A j \in 1..Len(u), n \in Mutexes :
              u[j] = Lock(n) => \E i \in j + 1..Len(u) : u[i] = Unlock(n)
        BY <1>3, <2>1, <2>2
    <2> QED
        BY <1>3, <2>3, <2>4, AscendingOrderly
<1> QED
    BY <1>3, <1>5 DEF u

-----------------------------------------------------------------------------
(* The operations that are made of these. *)

(* Every operation is orderly for a thread that holds nothing. *)
LEMMA OperationsOrderly ==
    ASSUME "rebuild" \notin Programs, "tracked" \notin Programs, NEW o \in MainOperations
    PROVE  o \in Seq(Steps) /\ Orderly(o, {})
<1>1. Rebuilds = {<<>>}
    BY DEF Rebuilds
<1>2. CASE o \in Operations
    BY <1>1, <1>2, FindVarOrderly, FindFunctionOrderly, FreeMemoryOrderly DEF Operations
<1>3. CASE \E x \in Vars : o = NewVar(x, <<>>)
    BY <1>3, NewVarOrderly
<1>4. CASE o = RunCode(<<>>)
    <2> DEFINE locked == <<Lock("VM")>> \o Eval(<<>>) \o <<Unlock("VM")>>
    <2>1. o = locked \o ReturnEval
        BY <1>4 DEF RunCode
    <2>2. locked \in Seq(Steps) /\ Orderly(locked, {})
        BY LockedEvalOrderly
    <2> HIDE DEF locked
    <2>3. o \in Seq(Steps)
        BY <2>1, <2>2, ReturnEvalOrderly
    <2> QED
        BY <2>1, <2>2, <2>3, ReturnEvalOrderly, CatOrderly
<1>5. CASE o = Eval(<<>>) \o ReturnEval
    <2>1. o \in Seq(Steps)
        BY <1>5, EvalOrderly, ReturnEvalOrderly
    <2> QED
        BY <1>5, <2>1, EvalOrderly, ReturnEvalOrderly, CatOrderly
<1> QED
    BY <1>1, <1>2, <1>3, <1>4, <1>5 DEF MainOperations

(* So is the life of a sub-thread, whatever it does in between. *)
LEMMA LivesOrderly ==
    ASSUME "rebuild" \notin Programs, NEW r \in Rebuilds
    PROVE  /\ CreateThreadState \o RunThreadCode(r) \in Seq(Steps)
           /\ Orderly(CreateThreadState \o RunThreadCode(r), {})
           /\ ReturnEval \o DeleteThreadState \in Seq(Steps)
           /\ Orderly(ReturnEval \o DeleteThreadState, {})
<1>1. r = <<>>
    BY DEF Rebuilds
<1>2. /\ CreateThreadState \o RunThreadCode(r) \in Seq(Steps)
      /\ Orderly(CreateThreadState \o RunThreadCode(r), {})
    BY <1>1, CreateOrderly, RunThreadCodeOrderly, CatOrderly
<1>3. /\ ReturnEval \o DeleteThreadState \in Seq(Steps)
      /\ Orderly(ReturnEval \o DeleteThreadState, {})
    BY ReturnEvalOrderly, DeleteOrderly, CatOrderly
<1> QED
    BY <1>2, <1>3

(* A thread with nothing left to do is orderly if it holds nothing. *)
LEMMA EmptyOrderly == <<>> \in Seq(Steps) /\ Orderly(<<>>, {})
    BY DEF Orderly, InOrder, GivesBack

(* A thread that is through with an orderly script holds nothing. *)
LEMMA DoneHoldsNothing ==
    ASSUME NEW held \in SUBSET Mutexes, Orderly(<<>>, held)
    PROVE  held = {}
    BY DEF Orderly, GivesBack

(* An orderly script stays so for a thread that holds less. *)
LEMMA FewerHeld ==
    ASSUME NEW s \in Seq(Steps), NEW held \in SUBSET Mutexes, NEW after \in SUBSET held,
           Orderly(s, held)
    PROVE  Orderly(s, after)
    BY DEF Orderly, InOrder, GivesBack

(* A step that is neither may come before an orderly script. *)
LEMMA ConsOrderly ==
    ASSUME NEW s \in Seq(Steps), NEW held \in SUBSET Mutexes, Orderly(s, held),
           NEW x \in Steps, IsNeither(x)
    PROVE  Orderly(<<x>> \o s, held)
<1> DEFINE u == <<x>> \o s
<1>1. /\ u \in Seq(Steps) /\ Len(s) \in Nat /\ Len(u) = Len(s) + 1 /\ u[1] = x
      /\ \A i \in 1..Len(s) : u[i + 1] = s[i]
    OBVIOUS
<1> HIDE DEF u
<1>2. \A i \in 2..Len(u) : i - 1 \in 1..Len(s) /\ u[i] = s[i - 1]
    <2> SUFFICES ASSUME NEW i \in 2..Len(u) PROVE i - 1 \in 1..Len(s) /\ u[i] = s[i - 1]
        OBVIOUS
    <2>1. i - 1 \in 1..Len(s) /\ (i - 1) + 1 = i
        BY <1>1
    <2>2. u[(i - 1) + 1] = s[i - 1]
        BY <1>1, <2>1
    <2> QED
        BY <2>1, <2>2
<1>3. \A i \in 1..Len(u), m \in Mutexes : u[i] = Lock(m) => i \in 2..Len(u)
    BY <1>1 DEF IsNeither
<1>4. ASSUME NEW i \in 2..Len(u), NEW j \in 1..i - 1, NEW n, j >= 1, Keeps(u, j + 1, i - 1, n)
      PROVE  Keeps(s, j, (i - 1) - 1, n)
    <2> SUFFICES ASSUME NEW k \in j..(i - 1) - 1 PROVE s[k] # Unlock(n)
        BY DEF Keeps
    <2>1. k + 1 \in j + 1..i - 1 /\ k \in 1..Len(s)
        BY <1>1
    <2> QED
        BY <1>1, <1>4, <2>1 DEF Keeps
<1>5. InOrder(u, held)
    <2> SUFFICES ASSUME NEW i \in 1..Len(u), NEW m \in Mutexes, u[i] = Lock(m)
                 PROVE  /\ \A n \in held : Keeps(u, 1, i - 1, n) => Rank(n) < Rank(m)
                        /\ \A j \in 1..i - 1, n \in Mutexes :
                               u[j] = Lock(n) /\ Keeps(u, j + 1, i - 1, n) => Rank(n) < Rank(m)
        BY DEF InOrder
    <2>1. i \in 2..Len(u)
        BY <1>3
    <2>2. i - 1 \in 1..Len(s) /\ s[i - 1] = Lock(m)
        BY <1>2, <2>1
    <2>3. ASSUME NEW n \in held, Keeps(u, 1, i - 1, n) PROVE Rank(n) < Rank(m)
        <3>1. Keeps(u, 1 + 1, i - 1, n) /\ 1 \in 1..i - 1
            BY <1>1, <2>1, <2>3 DEF Keeps
        <3>2. Keeps(s, 1, (i - 1) - 1, n)
            BY <1>4, <2>1, <3>1
        <3> QED
            BY <2>2, <3>2 DEF Orderly, InOrder
    <2>4. ASSUME NEW j \in 1..i - 1, NEW n \in Mutexes, u[j] = Lock(n),
                 Keeps(u, j + 1, i - 1, n)
          PROVE  Rank(n) < Rank(m)
        <3>1. j \in 1..Len(u) /\ j \in 2..Len(u)
            BY <1>1, <1>3, <2>4
        <3>2. s[j - 1] = Lock(n) /\ j - 1 \in 1..(i - 1) - 1
            BY <1>2, <2>4, <3>1
        <3>3. Keeps(s, j, (i - 1) - 1, n)
            BY <1>4, <2>1, <2>4, <3>1
        <3>4. (j - 1) + 1 = j
            BY <3>1
        <3> QED
            BY <2>2, <3>2, <3>3, <3>4 DEF Orderly, InOrder
    <2> QED
        BY <2>3, <2>4
<1>6. GivesBack(u, held)
    <2>1. ASSUME NEW n \in held PROVE \E k \in 1..Len(u) : u[k] = Unlock(n)
        <3>1. PICK k \in 1..Len(s) : s[k] = Unlock(n)
            BY DEF Orderly, GivesBack
        <3> QED
            BY <1>1, <3>1
    <2>2. ASSUME NEW j \in 1..Len(u), NEW n \in Mutexes, u[j] = Lock(n)
          PROVE  \E k \in j + 1..Len(u) : u[k] = Unlock(n)
        <3>1. j \in 2..Len(u) /\ j - 1 \in 1..Len(s) /\ s[j - 1] = Lock(n)
            BY <1>2, <1>3, <2>2
        <3>2. PICK k \in (j - 1) + 1..Len(s) : s[k] = Unlock(n)
            BY <3>1 DEF Orderly, GivesBack
        <3>3. k + 1 \in j + 1..Len(u) /\ k \in 1..Len(s)
            BY <1>1, <3>1
        <3> QED
            BY <1>1, <3>2, <3>3
    <2> QED
        BY <2>1, <2>2 DEF GivesBack
<1> QED
    BY <1>5, <1>6 DEF Orderly, u

-----------------------------------------------------------------------------
(* The inductive invariant: what a thread has yet to do is orderly for     *)
(* what it holds.                                                          *)
Inv ==
    /\ owner \in [Mutexes -> Threads \cup {Nobody}]
    /\ script \in [Threads -> Seq(Steps)]
    /\ \A t \in Threads : Orderly(script[t], Held(t))

(* No thread holds anything at the start. *)
LEMMA InitInv == Init => Inv
<1> SUFFICES ASSUME Init PROVE Inv
    OBVIOUS
<1>1. owner \in [Mutexes -> Threads \cup {Nobody}] /\ script \in [Threads -> Seq(Steps)]
    BY EmptyOrderly DEF Init
<1>2. \A t \in Threads : script[t] = <<>> /\ Held(t) = {}
    BY ConstantsAssumption DEF Init, Held
<1> QED
    BY <1>1, <1>2, EmptyOrderly DEF Inv

(* A thread that is idle holds nothing, and may begin what is orderly.     *)
LEMMA BeginInv ==
    ASSUME Inv, NEW t \in Threads, Idle(t), NEW o \in Seq(Steps), Orderly(o, {}),
           script' = [script EXCEPT ![t] = o], UNCHANGED owner
    PROVE  Inv'
<1>1. Held(t) = {}
    <2>1. Held(t) \in SUBSET Mutexes /\ Orderly(<<>>, Held(t))
        BY DEF Inv, Idle, Held
    <2> QED
        BY <2>1, DoneHoldsNothing
<1>2. \A u \in Threads : Held(u)' = Held(u)
    BY DEF Held
<1>3. script' \in [Threads -> Seq(Steps)]
    BY DEF Inv
<1>4. ASSUME NEW u \in Threads PROVE Orderly(script[u], Held(u))'
    <2>1. CASE u = t
        <3>1. script'[u] = o /\ Held(u)' = {}
            BY <1>1, <1>2, <2>1 DEF Inv
        <3> QED
            BY <3>1 DEF Orderly, InOrder, GivesBack
    <2>2. CASE u # t
        <3>1. script'[u] = script[u] /\ Held(u)' = Held(u)
            BY <1>2, <2>2 DEF Inv
        <3>2. Orderly(script[u], Held(u))
            BY DEF Inv
        <3>3. Orderly(script'[u], Held(u)')
            BY <3>1, <3>2
        <3> QED
            BY <3>3 DEF Orderly, InOrder, GivesBack
    <2> QED
        BY <2>1, <2>2
<1> QED
    BY <1>3, <1>4 DEF Inv

(* What changes in a step of thread t: its script, and what is held.       *)
LEMMA StepInv ==
    ASSUME Inv, NEW t \in Threads, NEW s \in Seq(Steps), Orderly(s, Held(t)'),
           script' = [script EXCEPT ![t] = s],
           owner' \in [Mutexes -> Threads \cup {Nobody}],
           \A u \in Threads : u # t => Held(u)' \subseteq Held(u)
    PROVE  Inv'
<1>1. script' \in [Threads -> Seq(Steps)]
    BY DEF Inv
<1>2. ASSUME NEW u \in Threads PROVE Orderly(script'[u], Held(u)')
    <2>1. CASE u = t
        BY <2>1 DEF Inv
    <2>2. CASE u # t
        <3>1. script'[u] = script[u] /\ script[u] \in Seq(Steps) /\ Orderly(script[u], Held(u))
            BY <2>2 DEF Inv
        <3>2. Held(u) \in SUBSET Mutexes /\ Held(u)' \in SUBSET Held(u)
            BY <2>2 DEF Held
        <3> QED
            BY <3>1, <3>2, FewerHeld
    <2> QED
        BY <2>1, <2>2
<1> QED
    BY <1>1, <1>2 DEF Inv, Orderly, InOrder, GivesBack

(* A script that is not through has a first step. *)
LEMMA FirstStep ==
    ASSUME NEW x \in Steps
    PROVE  /\ x[1] = "lock" => x[2] \in Mutexes /\ x = Lock(x[2])
           /\ x[1] = "unlock" => x[2] \in Mutexes /\ x = Unlock(x[2])
           /\ x[1] # "unlock" => \A m \in Mutexes : x # Unlock(m)
<1>1. CASE x \in {"lock", "unlock"} \X Mutexes
    BY <1>1 DEF Lock, Unlock
<1>2. CASE x \notin {"lock", "unlock"} \X Mutexes
    <2>1. x[1] \in {"new variable", "to table", "add functions", "add code", "copy functions",
                   "copy code", "generate table", "fill table", "look up"}
        BY <1>2 DEF Steps
    <2>2. x[1] # "lock" /\ x[1] # "unlock"
        BY <2>1
    <2>3. \A m \in Mutexes : Unlock(m)[1] = "unlock"
        BY DEF Unlock
    <2> QED
        BY <2>2, <2>3
<1> QED
    BY <1>1, <1>2

(* A script is its first step and what is left. *)
LEMMA FirstAndRest ==
    ASSUME NEW s \in Seq(Steps), s # <<>>
    PROVE  /\ Head(s) = s[1] /\ s[1] \in Steps /\ 1 \in 1..Len(s)
           /\ Tail(s) \in Seq(Steps)
           /\ \A x \in Steps : <<x>> \o Tail(s) \in Seq(Steps)
    OBVIOUS

(* Taking a mutex keeps the invariant. *)
LEMMA AcquireInv ==
    ASSUME Inv, NEW t \in Threads, Acquire(t)
    PROVE  Inv'
<1> DEFINE s == script[t]
           m == Next1(t)[2]
<1>1. s \in Seq(Steps) /\ s # <<>> /\ Orderly(s, Held(t)) /\ Head(s) = s[1] /\ s[1] \in Steps
    BY DEF Inv, Acquire, Idle
<1>2. m \in Mutexes /\ s[1] = Lock(m)
    <2>1. s[1][1] = "lock" /\ m = s[1][2]
        BY <1>1 DEF Acquire, Next1
    <2> QED
        BY <1>1, <2>1, FirstStep
<1>3. owner[m] = Nobody /\ owner' = [owner EXCEPT ![m] = t]
      /\ script' = [script EXCEPT ![t] = Tail(s)]
    BY DEF Acquire, Advance
<1> HIDE DEF s, m
<1>4. Held(t)' \in SUBSET Mutexes /\ Held(t) \in SUBSET Mutexes
      /\ \A n \in Held(t)' : n \in Held(t) \/ n = m
    BY <1>2, <1>3 DEF Held, Inv
<1>5. \A n \in Held(t)' : \/ n \in Held(t) /\ s[1] # Unlock(n)
                          \/ s[1] = Lock(n)
    BY <1>2, <1>4, StepsDiffer
<1>6. Orderly(Tail(s), Held(t)')
    BY <1>1, <1>4, <1>5, TailOrderly
<1>7. owner' \in [Mutexes -> Threads \cup {Nobody}]
    BY <1>2, <1>3 DEF Inv
<1>8. \A u \in Threads : u # t => Held(u)' \subseteq Held(u)
    BY <1>2, <1>3 DEF Held, Inv
<1>9. Tail(s) \in Seq(Steps)
    BY <1>1
<1> QED
    BY <1>3, <1>6, <1>7, <1>8, <1>9, StepInv

(* Giving one back keeps it. *)
LEMMA ReleaseInv ==
    ASSUME Inv, NEW t \in Threads, Release(t)
    PROVE  Inv'
<1> DEFINE s == script[t]
           m == Next1(t)[2]
<1>1. s \in Seq(Steps) /\ s # <<>> /\ Orderly(s, Held(t)) /\ Head(s) = s[1] /\ s[1] \in Steps
    BY DEF Inv, Release, Idle
<1>2. m \in Mutexes /\ s[1] = Unlock(m)
    <2>1. s[1][1] = "unlock" /\ m = s[1][2]
        BY <1>1 DEF Release, Next1
    <2> QED
        BY <1>1, <2>1, FirstStep
<1>3. owner' = [owner EXCEPT ![m] = Nobody] /\ script' = [script EXCEPT ![t] = Tail(s)]
    BY DEF Release, Advance
<1> HIDE DEF s, m
<1>4. Held(t)' \in SUBSET Mutexes /\ Held(t) \in SUBSET Mutexes
      /\ \A n \in Held(t)' : n \in Held(t) /\ n # m
    BY <1>2, <1>3, ConstantsAssumption DEF Held, Inv
<1>5. \A n \in Held(t)' : n \in Held(t) /\ s[1] # Unlock(n)
    BY <1>2, <1>4, StepsDiffer
<1>6. Orderly(Tail(s), Held(t)')
    BY <1>1, <1>4, <1>5, TailOrderly
<1>7. owner' \in [Mutexes -> Threads \cup {Nobody}]
    BY <1>2, <1>3 DEF Inv
<1>8. \A u \in Threads : u # t => Held(u)' \subseteq Held(u)
    BY <1>2, <1>3, ConstantsAssumption DEF Held, Inv
<1>9. Tail(s) \in Seq(Steps)
    BY <1>1
<1> QED
    BY <1>3, <1>6, <1>7, <1>8, <1>9, StepInv

(* A step that takes nothing and gives nothing back, after which thread t  *)
(* goes on with its script or has one more such step to do.                *)
LEMMA DataInv ==
    ASSUME Inv, NEW t \in Threads, NEW w, w \notin {"lock", "unlock"}, At(t, w),
           UNCHANGED owner,
           NEW p \in {<<>>, <<Do("fill table")>>},
           script' = [script EXCEPT ![t] = p \o Tail(script[t])]
    PROVE  Inv'
<1> DEFINE s == script[t]
<1>1. s \in Seq(Steps) /\ s # <<>> /\ Orderly(s, Held(t)) /\ Head(s)[1] = w
    BY DEF Inv, At, Idle, Next1
<1>2. Head(s) = s[1] /\ s[1] \in Steps /\ Held(t) \in SUBSET Mutexes
    BY <1>1, FirstAndRest DEF Held
<1>3. \A m \in Mutexes : s[1] # Unlock(m)
    BY <1>1, <1>2, FirstStep
<1>4. Held(t)' = Held(t) /\ \A u \in Threads : Held(u)' \subseteq Held(u)
    BY DEF Held
<1> HIDE DEF s
<1>5. Tail(s) \in Seq(Steps) /\ Orderly(Tail(s), Held(t))
    <2>1. Tail(s) \in Seq(Steps)
        BY <1>1, FirstAndRest
    <2>2. \A n \in Held(t) : n \in Held(t) /\ s[1] # Unlock(n)
        BY <1>2, <1>3
    <2> QED
        BY <1>1, <1>2, <2>1, <2>2, TailOrderly
<1>6. p \o Tail(s) \in Seq(Steps) /\ Orderly(p \o Tail(s), Held(t))
    <2>1. CASE p = <<>>
        <3>1. p \o Tail(s) = Tail(s)
            BY <1>5, <2>1
        <3> QED
            BY <1>5, <3>1
    <2>2. CASE p = <<Do("fill table")>>
        <3>1. Do("fill table") \in Steps /\ IsNeither(Do("fill table"))
            BY DataSteps
        <3>2. <<Do("fill table")>> \o Tail(s) \in Seq(Steps)
            BY <1>1, <3>1, FirstAndRest
        <3> QED
            BY <1>2, <1>5, <2>2, <3>1, <3>2, ConsOrderly
    <2> QED
        BY <2>1, <2>2
<1>7. Orderly(p \o Tail(s), Held(t)')
    BY <1>4, <1>6
<1> QED
    BY <1>4, <1>6, <1>7, StepInv DEF s, Inv

(* So does a step on data that only goes on. *)
LEMMA AdvanceInv ==
    ASSUME Inv, NEW t \in Threads, NEW w, w \notin {"lock", "unlock"}, At(t, w),
           UNCHANGED owner,
           Advance(t)
    PROVE  Inv'
<1>1. script[t] \in Seq(Steps) /\ script[t] # <<>>
    BY DEF Inv, At, Idle
<1>2. <<>> \o Tail(script[t]) = Tail(script[t])
    BY <1>1
<1> QED
    BY <1>2, DataInv DEF Advance

(* The invariant is inductive. *)
LEMMA NextInv ==
    ASSUME "rebuild" \notin Programs, "tracked" \notin Programs, Inv, [Next]_vars
    PROVE  Inv'
<1>1. CASE UNCHANGED vars
    BY <1>1 DEF Inv, vars, Held, Orderly, InOrder, GivesBack
<1>2. ASSUME NEW t \in Threads, Begin(t) PROVE Inv'
    <2>1. PICK o \in MainOperations : script' = [script EXCEPT ![t] = o]
        <3>1. Operations \subseteq MainOperations
            BY DEF MainOperations
        <3>2. \E o \in (IF t = Main THEN MainOperations ELSE Operations) :
                 script' = [script EXCEPT ![t] = o]
            BY <1>2 DEF Begin
        <3> QED
            BY <3>1, <3>2
    <2>2. o \in Seq(Steps) /\ Orderly(o, {})
        BY OperationsOrderly
    <2> QED
        BY <1>2, <2>1, <2>2, BeginInv DEF Begin
<1>3. ASSUME NEW t \in Threads, Acquire(t) PROVE Inv'
    BY <1>3, AcquireInv
<1>4. ASSUME NEW t \in Threads, Release(t) PROVE Inv'
    BY <1>4, ReleaseInv
<1>5. ASSUME NEW t \in Threads, AddFunctions(t) PROVE Inv'
    BY <1>5, AdvanceInv DEF AddFunctions
<1>6. ASSUME NEW t \in Threads, AddCode(t) PROVE Inv'
    BY <1>6, AdvanceInv DEF AddCode
<1>7. ASSUME NEW t \in Threads, CopyFunctions(t) PROVE Inv'
    BY <1>7, AdvanceInv DEF CopyFunctions
<1>8. ASSUME NEW t \in Threads, CopyCode(t) PROVE Inv'
    BY <1>8, AdvanceInv DEF CopyCode
<1>9. ASSUME NEW t \in Threads, NewVariable(t) PROVE Inv'
    BY <1>9, AdvanceInv DEF NewVariable
<1>10. ASSUME NEW t \in Threads, ToTable(t) PROVE Inv'
    BY <1>10, AdvanceInv DEF ToTable
<1>11. ASSUME NEW t \in Threads, GenerateTable(t) PROVE Inv'
    <2>1. CASE table.made
        BY <1>11, <2>1, AdvanceInv DEF GenerateTable
    <2>2. CASE ~table.made
        BY <1>11, <2>2, DataInv DEF GenerateTable
    <2> QED
        BY <2>1, <2>2
<1>12. ASSUME NEW t \in Threads, FillTable(t) PROVE Inv'
    BY <1>12, AdvanceInv DEF FillTable
<1>13. ASSUME NEW t \in Threads, LookUp(t) PROVE Inv'
    BY <1>13, AdvanceInv DEF LookUp
<1>14. ASSUME NEW t \in SubThreads, Start(t) PROVE Inv'
    BY <1>14, BeginInv, CallbackOrderly DEF Start, Enter, Threads
<1>15. ASSUME NEW t \in SubThreads, Create(t) PROVE Inv'
    BY <1>15, BeginInv, LivesOrderly DEF Create, Enter, Threads
<1>16. ASSUME NEW t \in SubThreads, Delete(t) PROVE Inv'
    <2>1. <<>> \in Rebuilds
        BY DEF Rebuilds
    <2> QED
        BY <1>16, <2>1, BeginInv, LivesOrderly DEF Delete, Enter, Threads
<1>17. ASSUME NEW t \in SubThreads, End(t) PROVE Inv'
    BY <1>17, BeginInv, EmptyOrderly DEF End, Enter, Threads
<1> QED
    BY <1>1, <1>2, <1>3, <1>4, <1>5, <1>6, <1>7, <1>8, <1>9, <1>10, <1>11, <1>12, <1>13,
       <1>14, <1>15, <1>16, <1>17 DEF Next, Step

-----------------------------------------------------------------------------
(* Of the threads in a circle one waits for the mutex of highest rank; the *)
(* thread that holds it waits for one of higher rank still.                *)
LEMMA WaitsHigher ==
    ASSUME Inv, NEW t \in Threads, NEW u \in Threads, NEW v \in Threads,
           WaitsFor(t, u), WaitsFor(u, v)
    PROVE  Rank(Next1(t)[2]) < Rank(Next1(u)[2])
<1> DEFINE m == Next1(t)[2]
           n == Next1(u)[2]
           s == script[u]
<1>1. /\ s \in Seq(Steps) /\ s # <<>> /\ Orderly(s, Held(u)) /\ Head(s) = s[1]
      /\ s[1] \in Steps
      /\ 1 \in 1..Len(s)
    BY DEF Inv, WaitsFor, Idle
<1>2. n \in Mutexes /\ s[1] = Lock(n)
    <2>1. s[1][1] = "lock" /\ n = s[1][2]
        BY <1>1 DEF WaitsFor, Next1
    <2> QED
        BY <1>1, <2>1, FirstStep
<1>3. m \in Held(u)
    <2>1. script[t] \in Seq(Steps) /\ script[t] # <<>> /\ Head(script[t]) \in Steps
        BY DEF Inv, WaitsFor, Idle
    <2>2. m \in Mutexes
        BY <2>1 DEF WaitsFor, Next1, Steps
    <2> QED
        BY <2>2 DEF WaitsFor, Held
<1>4. Keeps(s, 1, 1 - 1, m)
    BY DEF Keeps
<1> HIDE DEF m, n, s
<1>5. Rank(m) < Rank(n)
    BY <1>1, <1>2, <1>3, <1>4 DEF Orderly, InOrder
<1> QED
    BY <1>5 DEF m, n

(* Going round a circle the rank would have to rise at every thread. *)
LEMMA InvNoCircularWait == Inv => NoCircularWait
<1> SUFFICES ASSUME Inv, NEW S \in SUBSET Threads, S # {},
                    \A t \in S : \E u \in S : WaitsFor(t, u)
             PROVE  FALSE
    BY DEF NoCircularWait
<1> DEFINE R(t) == Rank(Next1(t)[2])
<1>1. \A t \in S : R(t) \in 1..5
    <2> SUFFICES ASSUME NEW t \in S PROVE R(t) \in 1..5
        OBVIOUS
    <2>1. PICK u \in S : WaitsFor(t, u)
        OBVIOUS
    <2>2. script[t] \in Seq(Steps) /\ script[t] # <<>> /\ Head(script[t]) \in Steps
        BY <2>1 DEF Inv, WaitsFor, Idle
    <2>3. Next1(t)[2] \in Mutexes
        BY <2>1, <2>2 DEF WaitsFor, Next1, Steps
    <2> QED
        BY <2>3, Ranks
<1>2. \A t \in S : \E u \in S : R(t) < R(u)
    <2> SUFFICES ASSUME NEW t \in S PROVE \E u \in S : R(t) < R(u)
        OBVIOUS
    <2>1. PICK u \in S : WaitsFor(t, u)
        OBVIOUS
    <2>2. PICK v \in S : WaitsFor(u, v)
        OBVIOUS
    <2> QED
        BY <2>1, <2>2, WaitsHigher
<1> HIDE DEF R
<1>3. \A t \in S : R(t) # 5
    BY <1>1, <1>2
<1>4. \A t \in S : R(t) # 4
    BY <1>1, <1>2, <1>3
<1>5. \A t \in S : R(t) # 3
    BY <1>1, <1>2, <1>3, <1>4
<1>6. \A t \in S : R(t) # 2
    BY <1>1, <1>2, <1>3, <1>4, <1>5
<1> QED
    BY <1>1, <1>2, <1>3, <1>4, <1>5, <1>6

(* However many threads there are, and whatever they do, they do not wait  *)
(* for each other in a circle: as long as no table of a scope or of the    *)
(* functions grows while threads run and no item is moved out of a block   *)
(* (vmthread.c:122, vmgc.c:839, vmgc.c:1001).  eval() does not change this.*)
THEOREM ThreadsNeverBlock ==
    ASSUME "rebuild" \notin Programs, "tracked" \notin Programs
    PROVE  Spec => []NoCircularWait
<1>1. Init => Inv
    BY InitInv
<1>2. Inv /\ [Next]_vars => Inv'
    BY NextInv
<1>3. Inv => NoCircularWait
    BY InvNoCircularWait
<1> QED
    BY <1>1, <1>2, <1>3, PTL DEF Spec

=============================================================================
