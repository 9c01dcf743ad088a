------------------------ MODULE VMThreadsDataProofs ------------------------
(***************************************************************************)
(* Theorems about VMThreads, for any number of threads, variables and      *)
(* operations: what a new thread copies is whole, and nobody reads a hash  *)
(* table that is half made or lacks a variable.  What a thread has yet to  *)
(* do is read as a program: Path says what must hold before it, and what   *)
(* holds after it, if some steps open and some close a section.            *)
(***************************************************************************)
EXTENDS VMThreads, SequenceTheorems, TLAPS

(* Before step i of s a section is open, that a opens and b closes: it was *)
(* open before s if h.                                                     *)
OpenAt(s, h, i, a, b) ==
    \/ h /\ \A k \in 1..i - 1 : s[k] # b
    \/ \E j \in 1..i - 1 : s[j] = a /\ \A k \in j + 1..i - 1 : s[k] # b

(* The steps of W are taken in the section, if it is open before s when h  *)
(* is true; and it is open after s if g is.                                *)
Path(s, h, g, a, b, W) ==
    /\ \A i \in 1..Len(s) : s[i] \in W => OpenAt(s, h, i, a, b)
    /\ g => OpenAt(s, h, Len(s) + 1, a, b)

(* Each step a comes before a step b. *)
Followed(s, a, b) ==
    \A i \in 1..Len(s) : s[i] = a => \E j \in i + 1..Len(s) : s[j] = b

-----------------------------------------------------------------------------
(* Paths in general. *)

LEMMA HeadTail ==
    ASSUME NEW S, NEW s \in Seq(S), s # <<>>
    PROVE  s[1] \in S /\ Tail(s) \in Seq(S) /\ DOMAIN Tail(s) = 1..Len(Tail(s))
    OBVIOUS

LEMMA SingleStep ==
    ASSUME NEW S, NEW x \in S PROVE <<x>> \in Seq(S)
    OBVIOUS

LEMMA HeadIsFirst ==
    ASSUME NEW S, NEW s \in Seq(S), s # <<>> PROVE Head(s) = s[1]
    OBVIOUS

LEMMA TailOpen ==
    ASSUME NEW S, NEW s \in Seq(S), s # <<>>, NEW a, NEW b, NEW h \in BOOLEAN, NEW k \in BOOLEAN,
           s[1] = a => k, h /\ s[1] # b => k, NEW i \in 1..Len(s), OpenAt(s, h, i + 1, a, b)
    PROVE  OpenAt(Tail(s), k, i, a, b)
<1>1. Len(s) \in Nat /\ \A n \in 1..Len(s) - 1 : Tail(s)[n] = s[n + 1]
    OBVIOUS
<1>2. CASE h /\ \A n \in 1..i : s[n] # b
    <2>1. \A n \in 1..i - 1 : Tail(s)[n] # b
        <3> SUFFICES ASSUME NEW n \in 1..i - 1 PROVE Tail(s)[n] # b
            OBVIOUS
        <3>1. n \in 1..Len(s) - 1 /\ n + 1 \in 1..i
            BY <1>1
        <3> QED
            BY <1>1, <1>2, <3>1
    <2> QED
        BY <1>2, <2>1 DEF OpenAt
<1>3. ASSUME NEW j \in 1..i, s[j] = a, \A n \in j + 1..i : s[n] # b
      PROVE  OpenAt(Tail(s), k, i, a, b)
    <2>1. \A n \in j..i - 1 : Tail(s)[n] # b
        <3> SUFFICES ASSUME NEW n \in j..i - 1 PROVE Tail(s)[n] # b
            OBVIOUS
        <3>1. n \in 1..Len(s) - 1 /\ n + 1 \in j + 1..i
            BY <1>1
        <3> QED
            BY <1>1, <1>3, <3>1
    <2>2. CASE j = 1
        BY <1>3, <2>1, <2>2 DEF OpenAt
    <2>3. CASE j # 1
        <3>1. j - 1 \in 1..i - 1 /\ j - 1 \in 1..Len(s) - 1 /\ (j - 1) + 1 = j
            BY <1>1, <2>3
        <3>2. Tail(s)[j - 1] = a
            BY <1>1, <1>3, <3>1
        <3> QED
            BY <2>1, <3>1, <3>2 DEF OpenAt
    <2> QED
        BY <2>2, <2>3
<1>4. (i + 1) - 1 = i
    OBVIOUS
<1> QED
    BY <1>2, <1>3, <1>4 DEF OpenAt

(* What is left of a path is a path. *)
LEMMA TailPath ==
    ASSUME NEW S, NEW s \in Seq(S), s # <<>>, NEW a, NEW b, NEW W,
           NEW h \in BOOLEAN, NEW g \in BOOLEAN, NEW k \in BOOLEAN,
           Path(s, h, g, a, b, W), s[1] = a => k, h /\ s[1] # b => k
    PROVE  Path(Tail(s), k, g, a, b, W)
<1>1. /\ Len(s) \in Nat /\ Len(s) >= 1 /\ Len(Tail(s)) = Len(s) - 1
      /\ \A n \in 1..Len(s) - 1 : Tail(s)[n] = s[n + 1]
    OBVIOUS
<1>2. ASSUME NEW i \in 1..Len(Tail(s)), Tail(s)[i] \in W PROVE OpenAt(Tail(s), k, i, a, b)
    <2>1. i + 1 \in 1..Len(s) /\ s[i + 1] \in W /\ i \in 1..Len(s)
        BY <1>1, <1>2
    <2>2. OpenAt(s, h, i + 1, a, b)
        BY <2>1 DEF Path
    <2> QED
        BY <2>1, <2>2, TailOpen
<1>3. ASSUME g PROVE OpenAt(Tail(s), k, Len(Tail(s)) + 1, a, b)
    <2>1. Len(s) \in 1..Len(s) /\ Len(Tail(s)) + 1 = Len(s)
        BY <1>1
    <2>2. OpenAt(s, h, Len(s) + 1, a, b)
        BY <1>3 DEF Path
    <2>3. OpenAt(Tail(s), k, Len(s), a, b)
        BY <2>1, <2>2, TailOpen
    <2> QED
        BY <2>1, <2>3
<1> QED
    BY <1>2, <1>3 DEF Path

(* A step of W is taken when the section is open, and a path of nothing    *)
(* leaves it as it was.                                                    *)
LEMMA PathNow ==
    ASSUME NEW S, NEW s \in Seq(S), NEW a, NEW b, NEW W, NEW h \in BOOLEAN, NEW g \in BOOLEAN,
           Path(s, h, g, a, b, W)
    PROVE  /\ s # <<>> /\ s[1] \in W => h
           /\ s = <<>> /\ g => h
<1>1. OpenAt(s, h, 1, a, b) => h
    BY DEF OpenAt
<1>2. s # <<>> => 1 \in 1..Len(s)
    OBVIOUS
<1>3. s = <<>> => Len(s) + 1 = 1
    OBVIOUS
<1> QED
    BY <1>1, <1>2, <1>3 DEF Path

(* The section may be open where it need not be. *)
LEMMA PathWeaker ==
    ASSUME NEW S, NEW s \in Seq(S), NEW a, NEW b, NEW W, NEW h \in BOOLEAN, NEW g \in BOOLEAN,
           NEW k \in BOOLEAN, NEW f \in BOOLEAN,
           Path(s, h, g, a, b, W), h => k, f => g
    PROVE  Path(s, k, f, a, b, W)
<1>1. \A i : OpenAt(s, h, i, a, b) => OpenAt(s, k, i, a, b)
    BY DEF OpenAt
<1> QED
    BY <1>1 DEF Path

LEMMA PathLater ==
    ASSUME NEW S, NEW s \in Seq(S), NEW a, NEW b, NEW W, Path(s, FALSE, FALSE, a, b, W)
    PROVE  \A h \in BOOLEAN : Path(s, h, FALSE, a, b, W)
    BY PathWeaker

(* Two paths, one after the other. *)
LEMMA CatPath ==
    ASSUME NEW S, NEW s \in Seq(S), NEW t \in Seq(S), NEW a, NEW b, NEW W,
           NEW h \in BOOLEAN, NEW g \in BOOLEAN, NEW k \in BOOLEAN,
           Path(s, h, g, a, b, W), Path(t, g, k, a, b, W)
    PROVE  Path(s \o t, h, k, a, b, W)
<1> DEFINE u == s \o t
           n == Len(s)
<1>1. n \in Nat /\ Len(t) \in Nat /\ Len(u) = n + Len(t)
    OBVIOUS
<1>2. \A i \in 1..n : u[i] = s[i]
    OBVIOUS
<1>3. \A i \in 1..Len(t) : u[n + i] = t[i]
    OBVIOUS
<1> HIDE DEF u
<1>4. ASSUME NEW i \in 1..n + 1, OpenAt(s, h, i, a, b) PROVE OpenAt(u, h, i, a, b)
    <2>1. \A m \in 1..i - 1 : u[m] = s[m]
        BY <1>1, <1>2
    <2>2. \A j \in 1..i - 1 : \A m \in j + 1..i - 1 : u[m] = s[m]
        BY <1>1, <1>2
    <2> QED
        BY <1>4, <2>1, <2>2 DEF OpenAt
<1>5. g => OpenAt(u, h, n + 1, a, b)
    BY <1>1, <1>4 DEF Path
<1>6. ASSUME NEW i \in 1..Len(t) + 1, OpenAt(t, g, i, a, b) PROVE OpenAt(u, h, n + i, a, b)
    <2>1. CASE g /\ \A m \in 1..i - 1 : t[m] # b
        <3>1. ASSUME NEW m \in n + 1..(n + i) - 1 PROVE u[m] # b
            <4>1. m - n \in 1..i - 1 /\ m - n \in 1..Len(t) /\ n + (m - n) = m
                BY <1>1
            <4> QED
                BY <1>3, <2>1, <4>1
        <3>2. CASE h /\ \A m \in 1..(n + 1) - 1 : u[m] # b
            <4>1. \A m \in 1..(n + i) - 1 : u[m] # b
                BY <1>1, <3>1, <3>2
            <4> QED
                BY <3>2, <4>1 DEF OpenAt
        <3>3. ASSUME NEW j \in 1..(n + 1) - 1, u[j] = a, \A m \in j + 1..(n + 1) - 1 : u[m] # b
              PROVE  OpenAt(u, h, n + i, a, b)
            <4>1. \A m \in j + 1..(n + i) - 1 : u[m] # b
                BY <1>1, <3>1, <3>3
            <4>2. j \in 1..(n + i) - 1
                BY <1>1
            <4> QED
                BY <3>3, <4>1, <4>2 DEF OpenAt
        <3> QED
            BY <1>5, <2>1, <3>2, <3>3 DEF OpenAt
    <2>2. ASSUME NEW j \in 1..i - 1, t[j] = a, \A m \in j + 1..i - 1 : t[m] # b
          PROVE  OpenAt(u, h, n + i, a, b)
        <3>1. n + j \in 1..(n + i) - 1 /\ j \in 1..Len(t)
            BY <1>1
        <3>2. u[n + j] = a
            BY <1>3, <2>2, <3>1
        <3>3. ASSUME NEW m \in (n + j) + 1..(n + i) - 1 PROVE u[m] # b
            <4>1. m - n \in j + 1..i - 1 /\ m - n \in 1..Len(t) /\ n + (m - n) = m
                BY <1>1
            <4> QED
                BY <1>3, <2>2, <4>1
        <3> QED
            BY <3>1, <3>2, <3>3 DEF OpenAt
    <2> QED
        BY <1>6, <2>1, <2>2 DEF OpenAt
<1>7. ASSUME NEW i \in 1..Len(u), u[i] \in W PROVE OpenAt(u, h, i, a, b)
    <2>1. CASE i <= n
        <3>1. i \in 1..n /\ i \in 1..n + 1 /\ s[i] \in W
            BY <1>1, <1>2, <1>7, <2>1
        <3> QED
            BY <1>4, <3>1 DEF Path
    <2>2. CASE i > n
        <3>1. i - n \in 1..Len(t) /\ i - n \in 1..Len(t) + 1 /\ n + (i - n) = i
            BY <1>1, <2>2
        <3>2. t[i - n] \in W
            BY <1>3, <1>7, <3>1
        <3>3. OpenAt(t, g, i - n, a, b)
            BY <3>1, <3>2 DEF Path
        <3>4. OpenAt(u, h, n + (i - n), a, b)
            BY <1>6, <3>1, <3>3
        <3> QED
            BY <3>1, <3>4
    <2> QED
        BY <1>1, <2>1, <2>2
<1>8. k => OpenAt(u, h, Len(u) + 1, a, b)
    <2>1. Len(t) + 1 \in 1..Len(t) + 1 /\ n + (Len(t) + 1) = Len(u) + 1
        BY <1>1
    <2>2. k => OpenAt(t, g, Len(t) + 1, a, b)
        BY DEF Path
    <2>3. k => OpenAt(u, h, n + (Len(t) + 1), a, b)
        BY <1>6, <2>1, <2>2
    <2> QED
        BY <2>1, <2>3
<1> QED
    BY <1>7, <1>8 DEF Path, u

(* A path of one step. *)
LEMMA OnePath ==
    ASSUME NEW x, NEW a, NEW b, NEW W, NEW h \in BOOLEAN, NEW g \in BOOLEAN,
           x \in W => h, g => x = a \/ (h /\ x # b)
    PROVE  Path(<<x>>, h, g, a, b, W)
<1> DEFINE s == <<x>>
<1>1. Len(s) = 1 /\ s[1] = x
    OBVIOUS
<1> HIDE DEF s
<1>2. OpenAt(s, h, 1, a, b) <=> h
    BY DEF OpenAt
<1>3. x = a \/ (h /\ x # b) => OpenAt(s, h, 2, a, b)
    BY <1>1 DEF OpenAt
<1> QED
    BY <1>1, <1>2, <1>3 DEF Path, s

(* Two steps, and three. *)
LEMMA JoinedPair ==
    ASSUME NEW S, NEW x \in S, NEW y \in S
    PROVE  <<x>> \in Seq(S) /\ <<y>> \in Seq(S) /\ <<x, y>> \in Seq(S) /\ <<x, y>> = <<x>> \o <<y>>
<1>1. <<x>> \in Seq(S) /\ <<y>> \in Seq(S) /\ <<x, y>> \in Seq(S) /\ <<x>> \o <<y>> \in Seq(S)
    OBVIOUS
<1>2. Len(<<x, y>>) = 2 /\ Len(<<x>> \o <<y>>) = 2
    OBVIOUS
<1>3. \A i \in 1..2 : <<x, y>>[i] = (<<x>> \o <<y>>)[i]
    OBVIOUS
<1> QED
    BY <1>1, <1>2, <1>3, SeqEqual

LEMMA JoinedTriple ==
    ASSUME NEW S, NEW x \in S, NEW y \in S, NEW z \in S
    PROVE  <<x>> \in Seq(S) /\ <<y, z>> \in Seq(S) /\ <<x, y, z>> = <<x>> \o <<y, z>>
<1>1. <<x>> \in Seq(S) /\ <<y, z>> \in Seq(S) /\ <<x, y, z>> \in Seq(S) /\ <<x>> \o <<y, z>> \in Seq(S)
    OBVIOUS
<1>2. Len(<<x, y, z>>) = 3 /\ Len(<<x>> \o <<y, z>>) = 3
    OBVIOUS
<1>3. \A i \in 1..3 : <<x, y, z>>[i] = (<<x>> \o <<y, z>>)[i]
    OBVIOUS
<1> QED
    BY <1>1, <1>2, <1>3, SeqEqual

LEMMA PairPath ==
    ASSUME NEW S, NEW x \in S, NEW y \in S, NEW a, NEW b, NEW W,
           NEW h \in BOOLEAN, NEW g \in BOOLEAN, NEW k \in BOOLEAN,
           Path(<<x>>, h, g, a, b, W), Path(<<y>>, g, k, a, b, W)
    PROVE  Path(<<x, y>>, h, k, a, b, W)
<1> DEFINE u == <<x>>
           v == <<y>>
<1>1. u \in Seq(S) /\ v \in Seq(S) /\ <<x, y>> = u \o v
    BY JoinedPair
<1>2. Path(u, h, g, a, b, W) /\ Path(v, g, k, a, b, W)
    OBVIOUS
<1> HIDE DEF u, v
<1>3. Path(u \o v, h, k, a, b, W)
    BY <1>1, <1>2, CatPath
<1> QED
    BY <1>1, <1>3

LEMMA TriplePath ==
    ASSUME NEW S, NEW x \in S, NEW y \in S, NEW z \in S, NEW a, NEW b, NEW W,
           NEW h \in BOOLEAN, NEW g \in BOOLEAN, NEW f \in BOOLEAN, NEW k \in BOOLEAN,
           Path(<<x>>, h, g, a, b, W), Path(<<y>>, g, f, a, b, W), Path(<<z>>, f, k, a, b, W)
    PROVE  Path(<<x, y, z>>, h, k, a, b, W)
<1> DEFINE u == <<x>>
           v == <<y, z>>
<1>1. u \in Seq(S) /\ v \in Seq(S) /\ <<x, y, z>> = u \o v
    BY JoinedTriple, ZenonT(60)
<1>2. Path(u, h, g, a, b, W) /\ Path(v, g, k, a, b, W)
    BY PairPath
<1> HIDE DEF u, v
<1>3. Path(u \o v, h, k, a, b, W)
    BY <1>1, <1>2, CatPath
<1> QED
    BY <1>1, <1>3

(* Steps that have nothing to do with the section. *)
LEMMA QuietPath ==
    ASSUME NEW Q, NEW s \in Seq(Q), NEW a, NEW b, NEW W, NEW h \in BOOLEAN,
           b \notin Q, \A x \in Q : x \notin W \/ h
    PROVE  Path(s, h, h, a, b, W)
<1>1. Len(s) \in Nat /\ \A i \in 1..Len(s) : s[i] \in Q
    OBVIOUS
<1>2. \A i \in 1..Len(s) + 1 : h => OpenAt(s, h, i, a, b)
    BY <1>1 DEF OpenAt
<1> QED
    BY <1>1, <1>2 DEF Path

LEMMA TailFollowed ==
    ASSUME NEW S, NEW s \in Seq(S), s # <<>>, NEW a, NEW b, Followed(s, a, b)
    PROVE  /\ Followed(Tail(s), a, b)
           /\ s[1] = a => \E j \in 1..Len(Tail(s)) : Tail(s)[j] = b
<1>1. /\ Len(s) \in Nat /\ Len(s) >= 1 /\ Len(Tail(s)) = Len(s) - 1
      /\ \A n \in 1..Len(s) - 1 : Tail(s)[n] = s[n + 1]
    OBVIOUS
<1>2. ASSUME NEW i \in 1..Len(s), NEW j \in i + 1..Len(s), s[j] = b
      PROVE  j - 1 \in i..Len(Tail(s)) /\ j - 1 \in 1..Len(Tail(s)) /\ Tail(s)[j - 1] = b
    <2>1. j - 1 \in 1..Len(s) - 1 /\ (j - 1) + 1 = j
        BY <1>1
    <2> QED
        BY <1>1, <1>2, <2>1
<1>3. ASSUME NEW i \in 1..Len(Tail(s)), Tail(s)[i] = a
      PROVE  \E j \in i + 1..Len(Tail(s)) : Tail(s)[j] = b
    <2>1. i + 1 \in 1..Len(s) /\ s[i + 1] = a
        BY <1>1, <1>3
    <2>2. PICK j \in (i + 1) + 1..Len(s) : s[j] = b
        BY <2>1 DEF Followed
    <2>3. j - 1 \in i + 1..Len(Tail(s)) /\ Tail(s)[j - 1] = b
        BY <1>2, <2>1, <2>2
    <2> QED
        BY <2>3
<1>4. ASSUME s[1] = a PROVE \E j \in 1..Len(Tail(s)) : Tail(s)[j] = b
    <2>1. 1 \in 1..Len(s)
        BY <1>1
    <2>2. PICK j \in 1 + 1..Len(s) : s[j] = b
        BY <1>4, <2>1 DEF Followed
    <2> QED
        BY <1>2, <2>1, <2>2
<1> QED
    BY <1>3, <1>4 DEF Followed

LEMMA CatFollowed ==
    ASSUME NEW S, NEW s \in Seq(S), NEW t \in Seq(S), NEW a, NEW b,
           Followed(s, a, b), Followed(t, a, b)
    PROVE  Followed(s \o t, a, b)
<1> DEFINE u == s \o t
           n == Len(s)
<1>1. n \in Nat /\ Len(t) \in Nat /\ Len(u) = n + Len(t)
    OBVIOUS
<1>2. \A i \in 1..n : u[i] = s[i]
    OBVIOUS
<1>3. \A i \in 1..Len(t) : u[n + i] = t[i]
    OBVIOUS
<1> HIDE DEF u
<1>4. ASSUME NEW i \in 1..Len(u), u[i] = a PROVE \E j \in i + 1..Len(u) : u[j] = b
    <2>1. CASE i <= n
        <3>1. PICK j \in i + 1..n : s[j] = b
            BY <1>1, <1>2, <1>4, <2>1 DEF Followed
        <3> QED
            BY <1>1, <1>2, <3>1
    <2>2. CASE i > n
        <3>1. i - n \in 1..Len(t) /\ n + (i - n) = i
            BY <1>1, <2>2
        <3>2. PICK j \in (i - n) + 1..Len(t) : t[j] = b
            BY <1>3, <1>4, <3>1 DEF Followed
        <3>3. n + j \in i + 1..Len(u) /\ j \in 1..Len(t)
            BY <1>1, <3>1
        <3> QED
            BY <1>3, <3>2, <3>3
    <2> QED
        BY <1>1, <2>1, <2>2
<1> QED
    BY <1>4 DEF Followed, u

LEMMA QuietFollowed ==
    ASSUME NEW Q, NEW s \in Seq(Q), NEW a, NEW b, a \notin Q
    PROVE  Followed(s, a, b)
<1>1. \A i \in 1..Len(s) : s[i] \in Q
    OBVIOUS
<1> QED
    BY <1>1 DEF Followed

-----------------------------------------------------------------------------
(* The sections of this system. *)

TableSteps == {Do("generate table"), Do("fill table"), Do("look up")} \cup ({"to table"} \X Vars)

MapSteps == {Do("add functions"), Do("add code")}

CopySteps == {Do("copy functions"), Do("copy code")}

NewSteps == {"new variable", "to table"} \X Vars

MutexSteps == {"lock", "unlock"} \X Mutexes

InnerMutexes == {"POOL", "FUNC", "ITEM"}

InnerSteps == {"lock", "unlock"} \X InnerMutexes

Never == <<"never", "">>

(* The table is made, filled, added to and read under the mutex of         *)
(* variables, which only its holder unlocks.                               *)
VarUses == TableSteps \cup {Unlock("VAR")}

VarPath(s, h, g) == Path(s, h, g, Lock("VAR"), Unlock("VAR"), VarUses)

(* Functions and code are added and copied under the mutex of the machine. *)
VMUses == MapSteps \cup CopySteps \cup {Unlock("VM")}

VMPath(s, h, g) == Path(s, h, g, Lock("VM"), Unlock("VM"), VMUses)

(* The table is there when it is read. *)
Readings == {Do("look up")}

MadePath(s, h, g) == Path(s, h, g, Do("generate table"), Never, Readings)

(* A variable is in its list before it is in the table. *)
Addings(x) == {<<"to table", x>>}

DefinedPath(s, x, h, g) == Path(s, h, g, <<"new variable", x>>, Never, Addings(x))

(* The code of the last function is there when the next is added, and when *)
(* the machine is unlocked.                                                *)
EvenSteps == {Do("add functions"), Unlock("VM")}

EvenPath(s, h, g) == Path(s, h, g, Do("add code"), Do("add functions"), EvenSteps)

(* The function is there when its code is added. *)
OddSteps == {Do("add code")}

OddPath(s, h, g) == Path(s, h, g, Do("add functions"), Do("add code"), OddSteps)

(* The functions were copied when the code is. *)
Copyings == {Do("copy code")}

CopyPath(s, h, g) == Path(s, h, g, Do("copy functions"), Never, Copyings)

(* An operation that may begin at any time. *)
Sound(s) ==
    /\ s \in Seq(Steps)
    /\ VarPath(s, FALSE, FALSE) /\ MadePath(s, FALSE, FALSE)
    /\ \A x \in Vars : DefinedPath(s, x, FALSE, FALSE)
    /\ \A x \in Vars : Followed(s, <<"new variable", x>>, <<"to table", x>>)
    /\ EvenPath(s, TRUE, TRUE) /\ OddPath(s, FALSE, FALSE)
    /\ CopyPath(s, FALSE, FALSE) /\ Followed(s, Do("copy functions"), Do("copy code"))

(* What starting and ending a thread does with the main thread's code. *)
Whole(s) == VMPath(s, FALSE, FALSE)

LEMMA Pairs ==
    ASSUME NEW A, NEW B, NEW x \in A \X B
    PROVE  \E a \in A, b \in B : x = <<a, b>>
    OBVIOUS

LEMMA AllSteps ==
    /\ MutexSteps \subseteq Steps /\ InnerSteps \subseteq MutexSteps
    /\ TableSteps \subseteq Steps /\ MapSteps \subseteq Steps /\ CopySteps \subseteq Steps
    /\ NewSteps \subseteq Steps
    /\ Steps \subseteq MutexSteps \cup TableSteps \cup MapSteps \cup CopySteps \cup NewSteps
<1>1. MutexSteps \subseteq Steps /\ InnerSteps \subseteq MutexSteps
    BY DEF MutexSteps, InnerSteps, InnerMutexes, Mutexes, Steps
<1>2. \A w \in {"add functions", "add code", "copy functions", "copy code",
                "generate table", "fill table", "look up"} : Do(w) \in Steps
    BY DEF Steps, Do
<1>3. MapSteps \subseteq Steps /\ CopySteps \subseteq Steps
    BY <1>2 DEF MapSteps, CopySteps
<1>4. NewSteps \subseteq Steps /\ {"to table"} \X Vars \subseteq Steps
    BY DEF NewSteps, Steps
<1>5. TableSteps \subseteq Steps
    BY <1>2, <1>4 DEF TableSteps
<1>6. ASSUME NEW x \in Steps, x \notin MutexSteps, x \notin NewSteps
      PROVE  x \in TableSteps \cup MapSteps \cup CopySteps
    <2> DEFINE Whats == {"add functions", "add code", "copy functions", "copy code",
                         "generate table", "fill table", "look up"}
               Nothing == {""}
    <2>1. x \in Whats \X Nothing
        BY <1>6 DEF Steps, MutexSteps, NewSteps
    <2> HIDE DEF Whats, Nothing
    <2>2. PICK a \in Whats, b \in Nothing : x = <<a, b>>
        BY <2>1, Pairs
    <2>3. x = Do(a)
        BY <2>2 DEF Do, Nothing
    <2> QED
        BY <2>3 DEF TableSteps, MapSteps, CopySteps, Whats
<1> QED
    BY <1>1, <1>3, <1>4, <1>5, <1>6

(* Steps that have nothing to do with a section leave it as it is. *)
LEMMA QuietVar ==
    ASSUME NEW s \in Seq(Steps \ (TableSteps \cup {Lock("VAR"), Unlock("VAR")})), NEW h \in BOOLEAN
    PROVE  VarPath(s, h, h)
<1>1. Unlock("VAR") \notin Steps \ (TableSteps \cup {Lock("VAR"), Unlock("VAR")})
    BY DEF Lock, Unlock
<1>2. \A y \in Steps \ (TableSteps \cup {Lock("VAR"), Unlock("VAR")}) : y \notin VarUses
    BY DEF VarUses, Lock, Unlock
<1> QED
    BY <1>1, <1>2, QuietPath DEF VarPath

LEMMA QuietVM ==
    ASSUME NEW s \in Seq(Steps \ (MapSteps \cup CopySteps \cup {Lock("VM"), Unlock("VM")})), NEW h \in BOOLEAN
    PROVE  VMPath(s, h, h)
<1>1. Unlock("VM") \notin Steps \ (MapSteps \cup CopySteps \cup {Lock("VM"), Unlock("VM")})
    BY DEF Lock, Unlock
<1>2. \A y \in Steps \ (MapSteps \cup CopySteps \cup {Lock("VM"), Unlock("VM")}) : y \notin VMUses
    BY DEF VMUses, Lock, Unlock
<1> QED
    BY <1>1, <1>2, QuietPath DEF VMPath

LEMMA QuietMade ==
    ASSUME NEW s \in Seq(Steps \ Readings), NEW h \in BOOLEAN
    PROVE  MadePath(s, h, h)
<1>1. Never \notin Steps \ Readings
    BY DEF Never, Steps
<1> QED
    BY <1>1, QuietPath DEF MadePath

LEMMA QuietDefined ==
    ASSUME NEW x \in Vars, NEW s \in Seq(Steps \ Addings(x)), NEW h \in BOOLEAN
    PROVE  DefinedPath(s, x, h, h)
<1>1. Never \notin Steps \ Addings(x)
    BY DEF Never, Steps
<1> QED
    BY <1>1, QuietPath DEF DefinedPath

LEMMA QuietOdd ==
    ASSUME NEW s \in Seq(Steps \ MapSteps), NEW h \in BOOLEAN
    PROVE  OddPath(s, h, h)
<1>1. Do("add code") \notin Steps \ MapSteps
    BY DEF MapSteps
<1>2. \A y \in Steps \ MapSteps : y \notin OddSteps
    BY DEF OddSteps, MapSteps
<1> QED
    BY <1>1, <1>2, QuietPath DEF OddPath

LEMMA QuietCopy ==
    ASSUME NEW s \in Seq(Steps \ CopySteps), NEW h \in BOOLEAN
    PROVE  CopyPath(s, h, h)
<1>1. Never \notin Steps \ CopySteps
    BY DEF CopySteps, Never, Steps
<1>2. \A y \in Steps \ CopySteps : y \notin Copyings
    BY DEF Copyings, CopySteps, Never, Steps
<1> QED
    BY <1>1, <1>2, QuietPath DEF CopyPath

LEMMA QuietEven ==
    ASSUME NEW s \in Seq(Steps \ MapSteps)
    PROVE  EvenPath(s, TRUE, TRUE)
<1>1. Do("add functions") \notin Steps \ MapSteps
    BY DEF MapSteps
<1>2. \A y \in Steps \ MapSteps : y \notin EvenSteps \/ TRUE
    OBVIOUS
<1> QED
    BY <1>1, <1>2, QuietPath DEF EvenPath

LEMMA QuietFollow ==
    /\ \A x \in Vars : \A s \in Seq(Steps \ {<<"new variable", x>>}) :
           Followed(s, <<"new variable", x>>, <<"to table", x>>)
    /\ \A s \in Seq(Steps \ CopySteps) : Followed(s, Do("copy functions"), Do("copy code"))
<1>1. ASSUME NEW x \in Vars, NEW s \in Seq(Steps \ {<<"new variable", x>>})
      PROVE  Followed(s, <<"new variable", x>>, <<"to table", x>>)
    <2>1. <<"new variable", x>> \notin Steps \ {<<"new variable", x>>}
        OBVIOUS
    <2> QED
        BY <2>1, QuietFollowed
<1>2. ASSUME NEW s \in Seq(Steps \ CopySteps)
      PROVE  Followed(s, Do("copy functions"), Do("copy code"))
    <2>1. Do("copy functions") \notin Steps \ CopySteps
        BY DEF CopySteps
    <2> QED
        BY <2>1, QuietFollowed
<1> QED
    BY <1>1, <1>2

-----------------------------------------------------------------------------
(* The operations. *)

(* Mutexes other than that of variables. *)
PlainMutexes == {"VM", "POOL", "FUNC", "ITEM"}

PlainSteps == {"lock", "unlock"} \X PlainMutexes

LEMMA MutexNames ==
    \A m : /\ Lock(m) \notin TableSteps \cup MapSteps \cup CopySteps \cup NewSteps
           /\ Unlock(m) \notin TableSteps \cup MapSteps \cup CopySteps \cup NewSteps
           /\ \A x : Lock(m) \notin Addings(x) /\ Unlock(m) \notin Addings(x)
           /\ Lock(m) \notin Readings /\ Unlock(m) \notin Readings
<1>1. \A m : Lock(m)[1] = "lock" /\ Unlock(m)[1] = "unlock"
    BY DEF Lock, Unlock
<1>2. \A y \in NewSteps : y[1] \in {"new variable", "to table"}
    BY DEF NewSteps
<1>3. \A what : Do(what)[1] = what
    BY DEF Do
<1>4. ASSUME NEW y \in MapSteps \cup CopySteps \cup Readings
      PROVE  y[1] # "lock" /\ y[1] # "unlock"
    <2>1. \E w \in {"add functions", "add code", "copy functions", "copy code", "look up"} : y = Do(w)
        BY DEF MapSteps, CopySteps, Readings
    <2> QED
        BY <1>3, <2>1
<1>5. \A y \in {"to table"} \X Vars : y[1] = "to table"
    OBVIOUS
<1>6. \A y \in TableSteps : y[1] # "lock" /\ y[1] # "unlock"
    BY <1>3, <1>5 DEF TableSteps
<1>7. ASSUME NEW x, NEW y \in Addings(x) PROVE y[1] = "to table"
    <2>1. y = <<"to table", x>>
        BY DEF Addings
    <2> QED
        BY <2>1
<1> QED
    BY <1>1, <1>2, <1>4, <1>6, <1>7

(* A step of a mutex is Lock or Unlock of it. *)
LEMMA MutexForm ==
    /\ \A y \in MutexSteps : \E m \in Mutexes : y = Lock(m) \/ y = Unlock(m)
    /\ \A y \in PlainSteps : \E m \in PlainMutexes : y = Lock(m) \/ y = Unlock(m)
    /\ \A y \in InnerSteps : \E m \in InnerMutexes : y = Lock(m) \/ y = Unlock(m)
    /\ \A m \in Mutexes : Lock(m) \in MutexSteps /\ Unlock(m) \in MutexSteps
    /\ \A m \in PlainMutexes : Lock(m) \in PlainSteps /\ Unlock(m) \in PlainSteps
    /\ \A m \in InnerMutexes : Lock(m) \in InnerSteps /\ Unlock(m) \in InnerSteps
<1>1. ASSUME NEW M, NEW y \in {"lock", "unlock"} \X M
      PROVE  \E m \in M : y = Lock(m) \/ y = Unlock(m)
    <2> DEFINE L == {"lock", "unlock"}
    <2>1. y \in L \X M
        OBVIOUS
    <2> HIDE DEF L
    <2>2. PICK a \in L, m \in M : y = <<a, m>>
        BY <2>1, Pairs
    <2> QED
        BY <2>2 DEF L, Lock, Unlock
<1>2. ASSUME NEW M, NEW m \in M
      PROVE  Lock(m) \in {"lock", "unlock"} \X M /\ Unlock(m) \in {"lock", "unlock"} \X M
    BY DEF Lock, Unlock
<1>3. \A y \in MutexSteps : \E m \in Mutexes : y = Lock(m) \/ y = Unlock(m)
    BY <1>1 DEF MutexSteps
<1>4. \A y \in PlainSteps : \E m \in PlainMutexes : y = Lock(m) \/ y = Unlock(m)
    BY <1>1 DEF PlainSteps
<1>5. \A y \in InnerSteps : \E m \in InnerMutexes : y = Lock(m) \/ y = Unlock(m)
    BY <1>1 DEF InnerSteps
<1>6. \A m \in Mutexes : Lock(m) \in MutexSteps /\ Unlock(m) \in MutexSteps
    BY <1>2 DEF MutexSteps
<1>7. \A m \in PlainMutexes : Lock(m) \in PlainSteps /\ Unlock(m) \in PlainSteps
    BY <1>2 DEF PlainSteps
<1>8. \A m \in InnerMutexes : Lock(m) \in InnerSteps /\ Unlock(m) \in InnerSteps
    BY <1>2 DEF InnerSteps
<1> QED
    BY <1>3, <1>4, <1>5, <1>6, <1>7, <1>8

LEMMA PlainAreMutex ==
    /\ InnerSteps \subseteq PlainSteps /\ PlainSteps \subseteq MutexSteps
    /\ PlainSteps \subseteq Steps
    /\ MutexSteps \cap (TableSteps \cup MapSteps \cup CopySteps \cup NewSteps) = {}
    /\ \A x : MutexSteps \cap Addings(x) = {}
    /\ MutexSteps \cap Readings = {}
    /\ \A y \in PlainSteps : y # Lock("VAR") /\ y # Unlock("VAR")
    /\ \A y \in InnerSteps : y # Lock("VM") /\ y # Unlock("VM")
<1>1. InnerSteps \subseteq PlainSteps /\ PlainSteps \subseteq MutexSteps
    BY DEF InnerSteps, InnerMutexes, PlainSteps, PlainMutexes, MutexSteps, Mutexes
<1>2. \A y \in MutexSteps : \E m \in Mutexes : y = Lock(m) \/ y = Unlock(m)
    BY MutexForm
<1>3. \A m, n : (Lock(m) = Lock(n) => m = n) /\ (Unlock(m) = Unlock(n) => m = n) /\ Lock(m) # Unlock(n)
    BY DEF Lock, Unlock
<1>4. \A y \in PlainSteps : y # Lock("VAR") /\ y # Unlock("VAR")
    BY <1>3, MutexForm DEF PlainMutexes
<1>5. \A y \in InnerSteps : y # Lock("VM") /\ y # Unlock("VM")
    BY <1>3, MutexForm DEF InnerMutexes
<1> QED
    BY <1>1, <1>2, <1>4, <1>5, MutexNames, AllSteps

(* Taking and giving back mutexes other than that of variables is sound. *)
LEMMA PlainVar ==
    ASSUME NEW s \in Seq(PlainSteps), NEW h \in BOOLEAN PROVE VarPath(s, h, h)
<1>1. PlainSteps \subseteq Steps \ (TableSteps \cup {Lock("VAR"), Unlock("VAR")})
    BY PlainAreMutex
<1> QED
    BY <1>1, SeqMonotonic, QuietVar

LEMMA MutexQuiet ==
    ASSUME NEW s \in Seq(MutexSteps)
    PROVE  /\ \A h \in BOOLEAN : MadePath(s, h, h)
           /\ \A x \in Vars : \A h \in BOOLEAN : DefinedPath(s, x, h, h)
           /\ \A x \in Vars : Followed(s, <<"new variable", x>>, <<"to table", x>>)
           /\ EvenPath(s, TRUE, TRUE) /\ \A h \in BOOLEAN : OddPath(s, h, h)
           /\ \A h \in BOOLEAN : CopyPath(s, h, h)
           /\ Followed(s, Do("copy functions"), Do("copy code"))
<1>1. /\ s \in Seq(Steps \ Readings) /\ s \in Seq(Steps \ MapSteps) /\ s \in Seq(Steps \ CopySteps)
      /\ \A x \in Vars : s \in Seq(Steps \ Addings(x))
    <2>1. MutexSteps \subseteq Steps \ Readings /\ MutexSteps \subseteq Steps \ MapSteps
        BY PlainAreMutex, AllSteps
    <2>2. MutexSteps \subseteq Steps \ CopySteps
        BY PlainAreMutex, AllSteps
    <2>3. \A x \in Vars : MutexSteps \subseteq Steps \ Addings(x)
        BY PlainAreMutex, AllSteps
    <2> QED
        BY <2>1, <2>2, <2>3, SeqMonotonic
<1>2. ASSUME NEW x \in Vars PROVE s \in Seq(Steps \ {<<"new variable", x>>})
    <2>1. <<"new variable", x>> \in NewSteps
        BY DEF NewSteps
    <2>2. MutexSteps \subseteq Steps \ {<<"new variable", x>>}
        BY <2>1, PlainAreMutex, AllSteps
    <2> QED
        BY <2>2, SeqMonotonic
<1>3. \A h \in BOOLEAN : MadePath(s, h, h)
    BY <1>1, QuietMade
<1>4. \A x \in Vars : \A h \in BOOLEAN : DefinedPath(s, x, h, h)
    BY <1>1, QuietDefined
<1>5. EvenPath(s, TRUE, TRUE) /\ \A h \in BOOLEAN : OddPath(s, h, h)
    BY <1>1, QuietEven, QuietOdd
<1>6. \A h \in BOOLEAN : CopyPath(s, h, h)
    BY <1>1, QuietCopy
<1> QED
    BY <1>1, <1>2, <1>3, <1>4, <1>5, <1>6, QuietFollow

LEMMA PlainSound ==
    ASSUME NEW s \in Seq(PlainSteps) PROVE Sound(s)
<1>1. s \in Seq(MutexSteps) /\ s \in Seq(Steps)
    BY PlainAreMutex, SeqMonotonic
<1> QED
    BY <1>1, PlainVar, MutexQuiet DEF Sound

(* One operation after the other. *)
LEMMA CatSound ==
    ASSUME NEW s, NEW t, Sound(s), Sound(t) PROVE Sound(s \o t)
<1>1. s \in Seq(Steps) /\ t \in Seq(Steps) /\ s \o t \in Seq(Steps)
    <2>1. s \in Seq(Steps) /\ t \in Seq(Steps)
        BY DEF Sound
    <2> QED
        BY <2>1
<1>2. VarPath(s \o t, FALSE, FALSE)
    BY <1>1, CatPath DEF Sound, VarPath
<1>3. MadePath(s \o t, FALSE, FALSE)
    BY <1>1, CatPath DEF Sound, MadePath
<1>4. \A x \in Vars : DefinedPath(s \o t, x, FALSE, FALSE)
    BY <1>1, CatPath DEF Sound, DefinedPath
<1>5. EvenPath(s \o t, TRUE, TRUE)
    BY <1>1, CatPath DEF Sound, EvenPath
<1>6. OddPath(s \o t, FALSE, FALSE)
    BY <1>1, CatPath DEF Sound, OddPath
<1>7. CopyPath(s \o t, FALSE, FALSE)
    BY <1>1, CatPath DEF Sound, CopyPath
<1>8. \A x \in Vars : Followed(s \o t, <<"new variable", x>>, <<"to table", x>>)
    BY <1>1, CatFollowed DEF Sound
<1>9. Followed(s \o t, Do("copy functions"), Do("copy code"))
    BY <1>1, CatFollowed DEF Sound
<1> QED
    BY <1>1, <1>2, <1>3, <1>4, <1>5, <1>6, <1>7, <1>8, <1>9 DEF Sound

LEMMA CatWhole ==
    ASSUME NEW s \in Seq(Steps), NEW t \in Seq(Steps), Whole(s), Whole(t) PROVE Whole(s \o t)
    BY CatPath DEF Whole, VMPath

LEMMA InnerVM ==
    ASSUME NEW s \in Seq(InnerSteps), NEW h \in BOOLEAN PROVE VMPath(s, h, h)
<1>1. InnerSteps \subseteq Steps \ (MapSteps \cup CopySteps \cup {Lock("VM"), Unlock("VM")})
    BY PlainAreMutex
<1> QED
    BY <1>1, SeqMonotonic, QuietVM

(* Operations that take no mutex but the pool's and those of functions and *)
(* items, and those that take the machine's first.                         *)
LEMMA RebuildsInner ==
    Rebuilds \subseteq Seq(InnerSteps) /\ FreeMemory \in Seq(InnerSteps)
<1>1. FreeMemory \in Seq(InnerSteps)
    <2>1. Lock("POOL") \in InnerSteps /\ Unlock("POOL") \in InnerSteps
        BY MutexForm DEF InnerMutexes
    <2> QED
        BY <2>1 DEF FreeMemory
<1>2. <<>> \in Seq(InnerSteps)
    OBVIOUS
<1> QED
    BY <1>1, <1>2 DEF Rebuilds

LEMMA Bracketed ==
    ASSUME NEW S, NEW x \in S, NEW y \in S, NEW q \in Seq(S)
    PROVE  /\ <<x>> \in Seq(S) /\ <<y>> \in Seq(S) /\ <<x>> \o q \in Seq(S)
           /\ <<x>> \o q \o <<y>> \in Seq(S)
    OBVIOUS

LEMMA InnerOperations ==
    /\ \A r \in Rebuilds : FindFunction(r) \in Seq(InnerSteps)
    /\ MoveTracked \in Seq(InnerSteps)
<1>1. \A m \in InnerMutexes : Lock(m) \in InnerSteps /\ Unlock(m) \in InnerSteps
    BY MutexForm
<1>2. \A r \in Rebuilds : FindFunction(r) \in Seq(InnerSteps)
    <2>1. Lock("FUNC") \in InnerSteps /\ Unlock("FUNC") \in InnerSteps
        BY <1>1 DEF InnerMutexes
    <2> QED
        BY <2>1, RebuildsInner, Bracketed DEF FindFunction
<1>3. MoveTracked \in Seq(InnerSteps)
    <2> DEFINE u == <<Lock("POOL"), Lock("ITEM"), Unlock("ITEM")>>
               v == <<Unlock("POOL")>>
    <2>1. /\ Lock("POOL") \in InnerSteps /\ Unlock("POOL") \in InnerSteps
          /\ Lock("ITEM") \in InnerSteps /\ Unlock("ITEM") \in InnerSteps
        BY <1>1 DEF InnerMutexes
    <2>2. u \in Seq(InnerSteps) /\ v \in Seq(InnerSteps)
        BY <2>1
    <2>3. MoveTracked = u \o FreeMemory \o v
        BY DEF MoveTracked
    <2> HIDE DEF u, v
    <2> QED
        BY <2>2, <2>3, RebuildsInner
<1> QED
    BY <1>2, <1>3

(* The mutex of the machine around steps that leave the code alone. *)
LEMMA LockedInner ==
    ASSUME NEW q \in Seq(InnerSteps)
    PROVE  /\ <<Lock("VM")>> \o q \o <<Unlock("VM")>> \in Seq(PlainSteps)
           /\ Whole(<<Lock("VM")>> \o q \o <<Unlock("VM")>>)
<1> DEFINE u == <<Lock("VM")>>
           v == <<Unlock("VM")>>
<1>1. Lock("VM") \in PlainSteps /\ Unlock("VM") \in PlainSteps
    BY MutexForm DEF PlainMutexes
<1>2. q \in Seq(PlainSteps) /\ u \in Seq(PlainSteps) /\ v \in Seq(PlainSteps)
    BY <1>1, PlainAreMutex, SeqMonotonic
<1>3. VMPath(u, FALSE, TRUE) /\ VMPath(v, TRUE, FALSE)
    <2>1. Lock("VM") \notin VMUses
        BY MutexNames DEF VMUses, Lock, Unlock
    <2> QED
        BY <2>1, OnePath DEF VMPath
<1> HIDE DEF u, v
<1>4. VMPath(q, TRUE, TRUE)
    BY InnerVM
<1>5. u \o q \in Seq(PlainSteps) /\ u \o q \o v \in Seq(PlainSteps)
    BY <1>2
<1>6. VMPath(u \o q, FALSE, TRUE)
    BY <1>2, <1>3, <1>4, CatPath DEF VMPath
<1>7. VMPath(u \o q \o v, FALSE, FALSE)
    BY <1>2, <1>3, <1>5, <1>6, CatPath DEF VMPath
<1> QED
    BY <1>5, <1>7 DEF Whole, u, v

LEMMA LifeOperations ==
    /\ Sound(Callback) /\ Whole(Callback)
    /\ Sound(ReturnEval) /\ Whole(ReturnEval)
    /\ Sound(DeleteThreadState) /\ Whole(DeleteThreadState)
    /\ \A r \in Rebuilds : Sound(RunThreadCode(r)) /\ Whole(RunThreadCode(r))
    /\ Callback \in Seq(PlainSteps) /\ ReturnEval \in Seq(PlainSteps)
    /\ DeleteThreadState \in Seq(PlainSteps)
    /\ \A r \in Rebuilds : RunThreadCode(r) \in Seq(PlainSteps)
<1>1. ASSUME NEW s, NEW q \in Seq(InnerSteps), s = <<Lock("VM")>> \o q \o <<Unlock("VM")>>
      PROVE  Sound(s) /\ Whole(s) /\ s \in Seq(PlainSteps)
    BY <1>1, LockedInner, PlainSound
<1>2. Callback = <<Lock("VM")>> \o <<>> \o <<Unlock("VM")>> /\ <<>> \in Seq(InnerSteps)
    BY MutexForm, JoinedPair DEF Callback, PlainMutexes
<1>3. ReturnEval = <<Lock("VM")>> \o FreeMemory \o <<Unlock("VM")>>
    BY DEF ReturnEval
<1>4. DeleteThreadState = <<Lock("VM")>> \o FreeMemory \o <<Unlock("VM")>>
    BY DEF DeleteThreadState
<1>5. ASSUME NEW r \in Rebuilds
      PROVE  \E q \in Seq(InnerSteps) : RunThreadCode(r) = <<Lock("VM")>> \o q \o <<Unlock("VM")>>
    <2> DEFINE a == Lock("VM")
               b == Lock("FUNC")
               c == Unlock("FUNC")
               d == Unlock("VM")
    <2>1. RunThreadCode(r) = <<a, b>> \o r \o <<c, d>>
        BY DEF RunThreadCode
    <2>2. a \in PlainSteps /\ b \in PlainSteps /\ c \in PlainSteps /\ d \in PlainSteps
        BY MutexForm DEF PlainMutexes
    <2>3. b \in InnerSteps /\ c \in InnerSteps /\ r \in Seq(InnerSteps)
        BY MutexForm, RebuildsInner DEF InnerMutexes
    <2>4. r \in Seq(PlainSteps)
        BY <2>3, PlainAreMutex, SeqMonotonic
    <2> HIDE DEF a, b, c, d
    <2>5. <<a, b>> = <<a>> \o <<b>> /\ <<c, d>> = <<c>> \o <<d>>
        BY <2>2, JoinedPair
    <2>6. <<a>> \o (<<b>> \o r \o <<c>>) \o <<d>> = (<<a>> \o <<b>>) \o r \o (<<c>> \o <<d>>)
        BY <2>2, <2>4
    <2>7. <<b>> \o r \o <<c>> \in Seq(InnerSteps)
        BY <2>3
    <2> QED
        BY <2>1, <2>5, <2>6, <2>7 DEF a, d
<1>6. Sound(Callback) /\ Whole(Callback) /\ Callback \in Seq(PlainSteps)
    BY <1>1, <1>2
<1>7. Sound(ReturnEval) /\ Whole(ReturnEval) /\ ReturnEval \in Seq(PlainSteps)
    BY <1>1, <1>3, RebuildsInner
<1>8. Sound(DeleteThreadState) /\ Whole(DeleteThreadState) /\ DeleteThreadState \in Seq(PlainSteps)
    BY <1>1, <1>4, RebuildsInner
<1>9. \A r \in Rebuilds : Sound(RunThreadCode(r)) /\ Whole(RunThreadCode(r)) /\ RunThreadCode(r) \in Seq(PlainSteps)
    BY <1>1, <1>5
<1> QED
    BY <1>6, <1>7, <1>8, <1>9

(* Reading the table. *)
FindSteps == MutexSteps \cup {Do("generate table"), Do("look up")}

LEMMA FindNames ==
    /\ FindSteps \subseteq Steps
    /\ Do("generate table") \in TableSteps /\ Do("look up") \in TableSteps
    /\ FindSteps \cap (MapSteps \cup CopySteps \cup NewSteps) = {}
    /\ \A x : FindSteps \cap Addings(x) = {}
<1>1. \A w \in {"generate table", "look up"} :
          Do(w) \notin MapSteps \cup CopySteps \cup NewSteps /\ \A x : Do(w) \notin Addings(x)
    <2> SUFFICES ASSUME NEW w \in {"generate table", "look up"}
                 PROVE  Do(w) \notin MapSteps \cup CopySteps \cup NewSteps /\ \A x : Do(w) \notin Addings(x)
        OBVIOUS
    <2>1. \A v : Do(v)[1] = v
        BY DEF Do
    <2>2. Do(w) \notin NewSteps
        <3>1. \A y \in NewSteps : y[1] \in {"new variable", "to table"}
            BY DEF NewSteps
        <3> QED
            BY <2>1, <3>1
    <2>3. \A x : Do(w) \notin Addings(x)
        <3> SUFFICES ASSUME NEW x, Do(w) \in Addings(x) PROVE FALSE
            OBVIOUS
        <3>1. Do(w) = <<"to table", x>>
            BY DEF Addings
        <3>2. w = "to table"
            BY <3>1 DEF Do
        <3> QED
            BY <3>2
    <2>4. \A v \in {"add functions", "add code", "copy functions", "copy code"} : Do(w) # Do(v)
        <3>1. \A v : Do(w) = Do(v) => w = v
            BY DEF Do
        <3> QED
            BY <3>1
    <2>5. Do(w) \notin MapSteps \cup CopySteps
        BY <2>4 DEF MapSteps, CopySteps
    <2> QED
        BY <2>2, <2>3, <2>5
<1>2. Do("generate table") \in TableSteps /\ Do("look up") \in TableSteps
    BY DEF TableSteps
<1>3. FindSteps \subseteq Steps
    BY <1>2, AllSteps DEF FindSteps
<1> QED
    BY <1>1, <1>2, <1>3, PlainAreMutex DEF FindSteps

LEMMA FindVarSound ==
    ASSUME NEW r \in Rebuilds
    PROVE  /\ Sound(FindVar(r)) /\ Whole(FindVar(r))
           /\ FindVar(r) \in Seq(FindSteps)
<1> DEFINE a == Lock("VAR")
           b == Do("generate table")
           c == Do("look up")
           d == Unlock("VAR")
           u == <<a, b>>
           v == <<c, d>>
<1>1. r \in Seq(InnerSteps) /\ r \in Seq(PlainSteps) /\ r \in Seq(MutexSteps) /\ r \in Seq(FindSteps)
    BY RebuildsInner, PlainAreMutex, SeqMonotonic, ZenonT(60) DEF FindSteps
<1>2. a \in FindSteps /\ b \in FindSteps /\ c \in FindSteps /\ d \in FindSteps
    BY MutexForm DEF FindSteps, Mutexes
<1>3. FindVar(r) = u \o r \o v
    BY DEF FindVar
<1>4. /\ a \notin VarUses /\ a # d /\ b # d /\ c # d /\ a \notin Readings /\ b \notin Readings
      /\ a # Never /\ b # Never /\ c # Never /\ d # Never
    <2>1. a \notin TableSteps /\ a \notin Readings
        BY MutexNames
    <2>2. a # d /\ b # d /\ c # d /\ b # c
        BY DEF Lock, Unlock, Do
    <2>3. a # Never /\ b # Never /\ c # Never /\ d # Never
        BY DEF Lock, Unlock, Do, Never
    <2> QED
        BY <2>1, <2>2, <2>3 DEF VarUses, Readings
<1>5. VarPath(<<a>>, FALSE, TRUE) /\ VarPath(<<b>>, TRUE, TRUE) /\ VarPath(<<c>>, TRUE, TRUE) /\ VarPath(<<d>>, TRUE, FALSE)
    BY <1>4, OnePath DEF VarPath
<1>6. /\ MadePath(<<a>>, FALSE, FALSE) /\ MadePath(<<b>>, FALSE, TRUE)
      /\ MadePath(<<c>>, TRUE, TRUE) /\ MadePath(<<d>>, TRUE, FALSE)
    BY <1>4, OnePath DEF MadePath
<1> HIDE DEF a, b, c, d
<1>7. u \in Seq(FindSteps) /\ v \in Seq(FindSteps)
    BY <1>2
<1>8. VarPath(u, FALSE, TRUE) /\ VarPath(v, TRUE, FALSE)
    BY <1>2, <1>5, PairPath DEF VarPath
<1>9. MadePath(u, FALSE, TRUE) /\ MadePath(v, TRUE, FALSE)
    BY <1>2, <1>6, PairPath DEF MadePath
<1> HIDE DEF u, v
<1>10. u \o r \in Seq(FindSteps) /\ u \o r \o v \in Seq(FindSteps)
    BY <1>1, <1>7
<1>11. VarPath(u \o r \o v, FALSE, FALSE)
    <2>1. VarPath(r, TRUE, TRUE)
        BY <1>1, PlainVar
    <2>2. VarPath(u \o r, FALSE, TRUE)
        BY <1>1, <1>7, <1>8, <2>1, CatPath DEF VarPath
    <2> QED
        BY <1>7, <1>8, <1>10, <2>2, CatPath DEF VarPath
<1>12. MadePath(u \o r \o v, FALSE, FALSE)
    <2>1. MadePath(r, TRUE, TRUE)
        BY <1>1, MutexQuiet
    <2>2. MadePath(u \o r, FALSE, TRUE)
        BY <1>1, <1>7, <1>9, <2>1, CatPath DEF MadePath
    <2> QED
        BY <1>7, <1>9, <1>10, <2>2, CatPath DEF MadePath
<1> DEFINE w == u \o r \o v
<1>13. w \in Seq(FindSteps) /\ VarPath(w, FALSE, FALSE) /\ MadePath(w, FALSE, FALSE)
    BY <1>10, <1>11, <1>12
<1> HIDE DEF w
<1>14. /\ w \in Seq(Steps) /\ w \in Seq(Steps \ MapSteps) /\ w \in Seq(Steps \ CopySteps)
       /\ \A x \in Vars : w \in Seq(Steps \ Addings(x))
       /\ \A x \in Vars : w \in Seq(Steps \ {<<"new variable", x>>})
    <2>1. FindSteps \subseteq Steps \ MapSteps /\ FindSteps \subseteq Steps \ CopySteps
        BY FindNames
    <2>2. \A x : FindSteps \subseteq Steps \ Addings(x)
        BY FindNames
    <2>3. \A x \in Vars : <<"new variable", x>> \in NewSteps
        BY DEF NewSteps
    <2>4. \A x \in Vars : FindSteps \subseteq Steps \ {<<"new variable", x>>}
        BY <2>3, FindNames
    <2> QED
        BY <1>13, <2>1, <2>2, <2>4, FindNames, SeqMonotonic, ZenonT(60)
<1>15. Sound(w)
    <2>1. \A x \in Vars : DefinedPath(w, x, FALSE, FALSE)
        BY <1>14, QuietDefined
    <2>2. EvenPath(w, TRUE, TRUE) /\ OddPath(w, FALSE, FALSE) /\ CopyPath(w, FALSE, FALSE)
        BY <1>14, QuietEven, QuietOdd, QuietCopy
    <2> QED
        BY <1>13, <1>14, <2>1, <2>2, QuietFollow DEF Sound
<1>16. Whole(w)
    <2>1. VMPath(u, FALSE, FALSE) /\ VMPath(v, FALSE, FALSE)
        <3>1. \A y \in {a, b, c, d} : y \notin VMUses
            <4>1. Do("generate table") \in FindSteps /\ Do("look up") \in FindSteps
                BY DEF FindSteps
            <4>2. b \notin MapSteps \cup CopySteps /\ c \notin MapSteps \cup CopySteps
                BY <1>2, FindNames
            <4>3. a \notin MapSteps \cup CopySteps /\ d \notin MapSteps \cup CopySteps
                BY <1>2, FindNames
            <4>4. a # Unlock("VM") /\ b # Unlock("VM") /\ c # Unlock("VM") /\ d # Unlock("VM")
                BY DEF a, b, c, d, Lock, Unlock, Do
            <4> QED
                BY <4>2, <4>3, <4>4 DEF VMUses
        <3>2. /\ VMPath(<<a>>, FALSE, FALSE) /\ VMPath(<<b>>, FALSE, FALSE)
              /\ VMPath(<<c>>, FALSE, FALSE) /\ VMPath(<<d>>, FALSE, FALSE)
            BY <3>1, OnePath DEF VMPath
        <3> QED
            BY <1>2, <3>2, PairPath DEF VMPath, u, v
    <2>2. VMPath(r, FALSE, FALSE)
        BY <1>1, InnerVM
    <2>3. VMPath(u \o r, FALSE, FALSE)
        BY <1>1, <1>7, <2>1, <2>2, CatPath DEF VMPath
    <2> QED
        BY <1>7, <1>10, <2>1, <2>3, CatPath DEF VMPath, Whole, w
<1> QED
    BY <1>3, <1>13, <1>15, <1>16 DEF w

(* Defining a variable. *)
DefSteps == MutexSteps \cup NewSteps

LEMMA DefNames ==
    /\ DefSteps \subseteq Steps
    /\ DefSteps \cap (MapSteps \cup CopySteps \cup Readings) = {}
<1>1. \A v : Do(v)[1] = v
    BY DEF Do
<1>2. \A y \in NewSteps : y[1] \in {"new variable", "to table"}
    BY DEF NewSteps
<1>3. \A w \in {"add functions", "add code", "copy functions", "copy code", "look up"} : Do(w) \notin NewSteps
    BY <1>1, <1>2
<1>4. NewSteps \cap (MapSteps \cup CopySteps \cup Readings) = {}
    BY <1>3 DEF MapSteps, CopySteps, Readings
<1> QED
    BY <1>4, PlainAreMutex, AllSteps DEF DefSteps

LEMMA NewVarSound ==
    ASSUME NEW x \in Vars, NEW r \in Rebuilds
    PROVE  Sound(NewVar(x, r)) /\ Whole(NewVar(x, r)) /\ NewVar(x, r) \in Seq(DefSteps)
<1> DEFINE n == <<"new variable", x>>
           a == Lock("VAR")
           m == <<"to table", x>>
           d == Unlock("VAR")
           u == <<n, a, m>>
           v == <<d>>
<1>1. r \in Seq(InnerSteps) /\ r \in Seq(PlainSteps) /\ r \in Seq(MutexSteps) /\ r \in Seq(DefSteps)
    BY RebuildsInner, PlainAreMutex, SeqMonotonic DEF DefSteps
<1>2. n \in DefSteps /\ a \in DefSteps /\ m \in DefSteps /\ d \in DefSteps
    <2>1. n \in NewSteps /\ m \in NewSteps
        BY DEF NewSteps
    <2> QED
        BY <2>1, MutexForm DEF DefSteps, Mutexes
<1>3. NewVar(x, r) = u \o r \o v
    BY DEF NewVar
<1>4. n \notin VarUses /\ a \notin VarUses
    <2>1. a \notin TableSteps
        BY MutexNames
    <2>2. n # Unlock("VAR") /\ a # Unlock("VAR")
        BY DEF Lock, Unlock
    <2>3. n # Do("generate table") /\ n # Do("fill table") /\ n # Do("look up")
        BY DEF Do
    <2>4. n \notin {"to table"} \X Vars
        OBVIOUS
    <2> HIDE DEF n, a
    <2> QED
        BY <2>1, <2>2, <2>3, <2>4 DEF VarUses, TableSteps
<1>5. m # d /\ a # d /\ n # d /\ n # Never /\ a # Never /\ m # Never /\ d # Never
    BY DEF Lock, Unlock, Never
<1>6. /\ VarPath(<<n>>, FALSE, FALSE) /\ VarPath(<<a>>, FALSE, TRUE)
      /\ VarPath(<<m>>, TRUE, TRUE) /\ VarPath(<<d>>, TRUE, FALSE)
    BY <1>4, <1>5, OnePath DEF VarPath
<1>7. /\ DefinedPath(<<n>>, x, FALSE, TRUE) /\ DefinedPath(<<a>>, x, TRUE, TRUE)
      /\ DefinedPath(<<m>>, x, TRUE, TRUE) /\ DefinedPath(<<d>>, x, TRUE, FALSE)
    <2>1. n \notin Addings(x)
        BY DEF Addings
    <2> QED
        BY <1>5, <2>1, OnePath DEF DefinedPath
<1>8. \A y \in Vars : y # x => /\ \A z \in {n, a, m, d} : z \notin Addings(y)
                              /\ \A z \in {n, a, m, d} : z # <<"new variable", y>>
    <2> SUFFICES ASSUME NEW y \in Vars, y # x, NEW z \in {n, a, m, d}
                 PROVE  z \notin Addings(y) /\ z # <<"new variable", y>>
        OBVIOUS
    <2>1. a \notin Addings(y) /\ d \notin Addings(y)
        BY MutexNames
    <2>2. n \notin Addings(y) /\ m \notin Addings(y)
        BY DEF Addings
    <2>3. n # <<"new variable", y>> /\ m # <<"new variable", y>>
        OBVIOUS
    <2>4. a # <<"new variable", y>> /\ d # <<"new variable", y>>
        BY DEF Lock, Unlock
    <2> HIDE DEF n, a, m, d
    <2> QED
        BY <2>1, <2>2, <2>3, <2>4
<1>9. Followed(u, n, m)
    <2>1. Len(u) = 3 /\ u[1] = n /\ u[2] = a /\ u[3] = m
        OBVIOUS
    <2>2. n # a /\ n # m
        BY DEF Lock
    <2>3. 3 \in 1 + 1..3
        OBVIOUS
    <2> HIDE DEF u, n, a, m
    <2> QED
        BY <2>1, <2>2, <2>3 DEF Followed
<1> HIDE DEF n, a, m, d
<1>10. u \in Seq(DefSteps) /\ v \in Seq(DefSteps)
    BY <1>2
<1>11. VarPath(u, FALSE, TRUE) /\ DefinedPath(u, x, FALSE, TRUE)
    BY <1>2, <1>6, <1>7, TriplePath DEF VarPath, DefinedPath
<1>12. VarPath(v, TRUE, FALSE) /\ DefinedPath(v, x, TRUE, FALSE)
    BY <1>6, <1>7
<1> HIDE DEF u, v
<1>13. u \o r \in Seq(DefSteps) /\ u \o r \o v \in Seq(DefSteps)
    BY <1>1, <1>10
<1> DEFINE w == u \o r \o v
<1>14. VarPath(w, FALSE, FALSE)
    <2>1. VarPath(r, TRUE, TRUE)
        BY <1>1, PlainVar
    <2>2. VarPath(u \o r, FALSE, TRUE)
        BY <1>1, <1>10, <1>11, <2>1, CatPath DEF VarPath
    <2> QED
        BY <1>10, <1>12, <1>13, <2>2, CatPath DEF VarPath
<1>15. DefinedPath(w, x, FALSE, FALSE)
    <2>1. DefinedPath(r, x, TRUE, TRUE)
        BY <1>1, MutexQuiet
    <2>2. DefinedPath(u \o r, x, FALSE, TRUE)
        BY <1>1, <1>10, <1>11, <2>1, CatPath DEF DefinedPath
    <2> QED
        BY <1>10, <1>12, <1>13, <2>2, CatPath DEF DefinedPath
<1>16. Followed(w, n, m)
    <2>1. Followed(r, n, m)
        BY <1>1, MutexQuiet DEF n, m
    <2>2. Followed(u \o r, n, m)
        BY <1>1, <1>9, <1>10, <2>1, CatFollowed
    <2>3. Followed(v, n, m)
        <3>1. v \in Seq(MutexSteps)
            BY MutexForm DEF v, d, Mutexes
        <3> QED
            BY <3>1, MutexQuiet DEF n, m
    <2> QED
        BY <1>10, <1>13, <2>2, <2>3, CatFollowed
<1>17. ASSUME NEW y \in Vars, y # x
       PROVE  DefinedPath(w, y, FALSE, FALSE) /\ Followed(w, <<"new variable", y>>, <<"to table", y>>)
    <2> DEFINE Q == MutexSteps \cup {n, m}
    <2>1. u \in Seq(Q) /\ v \in Seq(Q) /\ r \in Seq(Q)
        <3>1. a \in Q /\ d \in Q /\ n \in Q /\ m \in Q
            BY MutexForm DEF a, d, Mutexes
        <3> HIDE DEF Q
        <3>2. u \in Seq(Q) /\ v \in Seq(Q)
            BY <3>1 DEF u, v
        <3>3. MutexSteps \subseteq Q
            BY DEF Q
        <3> QED
            BY <1>1, <3>2, <3>3, SeqMonotonic
    <2>2. w \in Seq(Q)
        <3> HIDE DEF Q
        <3> QED
            BY <2>1
    <2>3. Q \subseteq Steps \ Addings(y) /\ Q \subseteq Steps \ {<<"new variable", y>>}
        <3>1. <<"new variable", y>> \in NewSteps
            BY DEF NewSteps
        <3>2. n \in Steps /\ m \in Steps
            BY <1>2, DefNames
        <3> QED
            BY <1>8, <1>17, <3>1, <3>2, PlainAreMutex, AllSteps
    <2> HIDE DEF Q, w
    <2>4. w \in Seq(Steps \ Addings(y)) /\ w \in Seq(Steps \ {<<"new variable", y>>})
        BY <2>2, <2>3, SeqMonotonic
    <2> QED
        BY <2>4, QuietDefined, QuietFollow
<1>18. Whole(w)
    <2>1. VMPath(u, FALSE, FALSE) /\ VMPath(v, FALSE, FALSE)
        <3>1. \A y \in {n, a, m, d} : y \notin VMUses
            <4>1. \A y \in {n, a, m, d} : y \notin MapSteps \cup CopySteps
                BY <1>2, DefNames
            <4>2. n # Unlock("VM") /\ a # Unlock("VM") /\ m # Unlock("VM") /\ d # Unlock("VM")
                BY DEF n, a, m, d, Lock, Unlock
            <4> QED
                BY <4>1, <4>2 DEF VMUses
        <3>2. /\ VMPath(<<n>>, FALSE, FALSE) /\ VMPath(<<a>>, FALSE, FALSE)
              /\ VMPath(<<m>>, FALSE, FALSE) /\ VMPath(<<d>>, FALSE, FALSE)
            BY <3>1, OnePath DEF VMPath
        <3> QED
            BY <1>2, <3>2, TriplePath DEF VMPath, u, v
    <2>2. VMPath(r, FALSE, FALSE)
        BY <1>1, InnerVM
    <2>3. VMPath(u \o r, FALSE, FALSE)
        BY <1>1, <1>10, <2>1, <2>2, CatPath DEF VMPath
    <2> QED
        BY <1>10, <1>13, <2>1, <2>3, CatPath DEF VMPath, Whole
<1>19. w \in Seq(DefSteps)
    BY <1>13
<1> HIDE DEF w
<1>20. Sound(w)
    <2>1. /\ w \in Seq(Steps) /\ w \in Seq(Steps \ MapSteps) /\ w \in Seq(Steps \ CopySteps)
          /\ w \in Seq(Steps \ Readings)
        <3>1. /\ DefSteps \subseteq Steps \ MapSteps /\ DefSteps \subseteq Steps \ CopySteps
              /\ DefSteps \subseteq Steps \ Readings
            BY DefNames
        <3> QED
            BY <1>19, <3>1, DefNames, SeqMonotonic
    <2>2. MadePath(w, FALSE, FALSE) /\ EvenPath(w, TRUE, TRUE) /\ OddPath(w, FALSE, FALSE) /\ CopyPath(w, FALSE, FALSE)
        BY <2>1, QuietMade, QuietEven, QuietOdd, QuietCopy
    <2>3. Followed(w, Do("copy functions"), Do("copy code"))
        BY <2>1, QuietFollow
    <2>4. \A y \in Vars : DefinedPath(w, y, FALSE, FALSE)
        BY <1>15, <1>17
    <2>5. \A y \in Vars : Followed(w, <<"new variable", y>>, <<"to table", y>>)
        BY <1>16, <1>17 DEF n, m
    <2> QED
        BY <1>14, <2>1, <2>2, <2>3, <2>4, <2>5 DEF Sound
<1> QED
    BY <1>3, <1>18, <1>19, <1>20 DEF w

(* Running code. *)
EvalSteps == PlainSteps \cup MapSteps

LEMMA EvalNames ==
    /\ EvalSteps \subseteq Steps
    /\ EvalSteps \cap (TableSteps \cup CopySteps \cup NewSteps \cup Readings) = {}
    /\ \A x : EvalSteps \cap Addings(x) = {}
    /\ \A y \in EvalSteps : y # Lock("VAR") /\ y # Unlock("VAR")
<1>1. \A v, w : Do(v) = Do(w) => v = w
    BY DEF Do
<1>2. \A w \in {"add functions", "add code"} : Do(w) \notin NewSteps
    <2>1. \A v : Do(v)[1] = v
        BY DEF Do
    <2>2. \A y \in NewSteps : y[1] \in {"new variable", "to table"}
        BY DEF NewSteps
    <2> QED
        BY <2>1, <2>2
<1>3. \A w \in {"add functions", "add code"} : Do(w) \notin {"to table"} \X Vars
    BY <1>2 DEF NewSteps
<1>4. \A w \in {"add functions", "add code"} : Do(w) \notin CopySteps \cup Readings
    BY <1>1 DEF CopySteps, Readings
<1>5. \A w \in {"add functions", "add code"} : Do(w) \notin TableSteps
    BY <1>1, <1>3 DEF TableSteps
<1>6. \A w \in {"add functions", "add code"} : \A x : Do(w) \notin Addings(x)
    BY DEF Addings, Do
<1>7. \A w \in {"add functions", "add code"} : Do(w) # Lock("VAR") /\ Do(w) # Unlock("VAR")
    BY DEF Do, Lock, Unlock
<1>8. \A y \in MapSteps : \E w \in {"add functions", "add code"} : y = Do(w)
    BY DEF MapSteps
<1>9. ASSUME NEW y \in MapSteps
      PROVE  /\ y \notin TableSteps \cup CopySteps \cup NewSteps \cup Readings
             /\ \A x : y \notin Addings(x)
             /\ y # Lock("VAR") /\ y # Unlock("VAR")
    <2>1. PICK w \in {"add functions", "add code"} : y = Do(w)
        BY <1>8
    <2>2. \A x : y \notin Addings(x)
        BY <1>6, <2>1
    <2>3. y # Lock("VAR") /\ y # Unlock("VAR")
        BY <1>7, <2>1
    <2> QED
        BY <1>2, <1>4, <1>5, <2>1, <2>2, <2>3
<1>10. EvalSteps \subseteq Steps
    BY PlainAreMutex, AllSteps DEF EvalSteps
<1>11. EvalSteps \cap (TableSteps \cup CopySteps \cup NewSteps \cup Readings) = {}
    BY <1>9, PlainAreMutex DEF EvalSteps
<1>12. \A x : EvalSteps \cap Addings(x) = {}
    BY <1>9, PlainAreMutex DEF EvalSteps
<1>13. \A y \in EvalSteps : y # Lock("VAR") /\ y # Unlock("VAR")
    BY <1>9, PlainAreMutex DEF EvalSteps
<1> QED
    BY <1>10, <1>11, <1>12, <1>13

LEMMA EvalSections ==
    ASSUME NEW r \in Rebuilds
    PROVE  /\ Eval(r) \in Seq(EvalSteps) /\ VMPath(Eval(r), TRUE, TRUE)
           /\ EvenPath(Eval(r), TRUE, TRUE) /\ OddPath(Eval(r), FALSE, FALSE)
<1> DEFINE a == Do("add functions")
           b == Lock("FUNC")
           c == Unlock("FUNC")
           d == Do("add code")
           u == <<a, b>>
           v == <<c, d>>
<1>1. r \in Seq(InnerSteps) /\ r \in Seq(PlainSteps) /\ r \in Seq(MutexSteps) /\ r \in Seq(EvalSteps)
    BY RebuildsInner, PlainAreMutex, SeqMonotonic DEF EvalSteps
<1>2. a \in EvalSteps /\ b \in EvalSteps /\ c \in EvalSteps /\ d \in EvalSteps
    <2>1. a \in MapSteps /\ d \in MapSteps
        BY DEF MapSteps
    <2> QED
        BY <2>1, MutexForm DEF EvalSteps, PlainMutexes
<1>3. Eval(r) = u \o r \o v
    BY DEF Eval
<1>4. /\ a # d /\ a # b /\ a # c /\ b # d /\ c # d
      /\ a # Unlock("VM") /\ b # Unlock("VM") /\ c # Unlock("VM") /\ d # Unlock("VM")
    BY DEF Lock, Unlock, Do
<1>5. /\ VMPath(<<a>>, TRUE, TRUE) /\ VMPath(<<b>>, TRUE, TRUE)
      /\ VMPath(<<c>>, TRUE, TRUE) /\ VMPath(<<d>>, TRUE, TRUE)
    BY <1>4, OnePath DEF VMPath
<1>6. /\ EvenPath(<<a>>, TRUE, FALSE) /\ EvenPath(<<b>>, FALSE, FALSE)
      /\ EvenPath(<<c>>, FALSE, FALSE) /\ EvenPath(<<d>>, FALSE, TRUE)
    <2>1. b \notin EvenSteps /\ c \notin EvenSteps /\ d \notin EvenSteps
        BY <1>4 DEF EvenSteps
    <2> HIDE DEF b, c
    <2> QED
        BY <2>1, OnePath DEF EvenPath
<1>7. /\ OddPath(<<a>>, FALSE, TRUE) /\ OddPath(<<b>>, TRUE, TRUE)
      /\ OddPath(<<c>>, TRUE, TRUE) /\ OddPath(<<d>>, TRUE, FALSE)
    <2>1. a \notin OddSteps
        BY <1>4 DEF OddSteps
    <2> QED
        BY <1>4, <2>1, OnePath DEF OddPath
<1> HIDE DEF a, b, c, d
<1>8. u \in Seq(EvalSteps) /\ v \in Seq(EvalSteps)
    BY <1>2
<1>9. VMPath(u, TRUE, TRUE) /\ VMPath(v, TRUE, TRUE)
    BY <1>2, <1>5, PairPath DEF VMPath
<1>10. EvenPath(u, TRUE, FALSE) /\ EvenPath(v, FALSE, TRUE)
    BY <1>2, <1>6, PairPath DEF EvenPath
<1>11. OddPath(u, FALSE, TRUE) /\ OddPath(v, TRUE, FALSE)
    BY <1>2, <1>7, PairPath DEF OddPath
<1> HIDE DEF u, v
<1>12. u \o r \in Seq(EvalSteps) /\ u \o r \o v \in Seq(EvalSteps)
    BY <1>1, <1>8
<1>13. VMPath(r, TRUE, TRUE) /\ OddPath(r, TRUE, TRUE) /\ EvenPath(r, FALSE, FALSE)
    <2>1. VMPath(r, TRUE, TRUE) /\ OddPath(r, TRUE, TRUE)
        BY <1>1, InnerVM, MutexQuiet
    <2>2. EvenPath(r, FALSE, FALSE)
        <3>1. \A y \in InnerSteps : y \notin MapSteps /\ y # Unlock("VM")
            BY PlainAreMutex
        <3>2. Do("add functions") \in MapSteps
            BY DEF MapSteps
        <3>3. Do("add functions") \notin InnerSteps
            BY <3>1, <3>2
        <3>4. \A y \in InnerSteps : y \notin EvenSteps
            BY <3>1, <3>2 DEF EvenSteps
        <3> QED
            BY <1>1, <3>3, <3>4, QuietPath DEF EvenPath
    <2> QED
        BY <2>1, <2>2
<1>14. VMPath(u \o r \o v, TRUE, TRUE)
    <2>1. VMPath(u \o r, TRUE, TRUE)
        BY <1>1, <1>8, <1>9, <1>13, CatPath DEF VMPath
    <2> QED
        BY <1>8, <1>9, <1>12, <2>1, CatPath DEF VMPath
<1>15. EvenPath(u \o r \o v, TRUE, TRUE)
    <2>1. EvenPath(u \o r, TRUE, FALSE)
        BY <1>1, <1>8, <1>10, <1>13, CatPath DEF EvenPath
    <2> QED
        BY <1>8, <1>10, <1>12, <2>1, CatPath DEF EvenPath
<1>16. OddPath(u \o r \o v, FALSE, FALSE)
    <2>1. OddPath(u \o r, FALSE, TRUE)
        BY <1>1, <1>8, <1>11, <1>13, CatPath DEF OddPath
    <2> QED
        BY <1>8, <1>11, <1>12, <2>1, CatPath DEF OddPath
<1> QED
    BY <1>3, <1>12, <1>14, <1>15, <1>16

LEMMA EvalSound ==
    ASSUME NEW r \in Rebuilds PROVE Sound(Eval(r))
<1> DEFINE s == Eval(r)
<1>1. s \in Seq(EvalSteps) /\ EvenPath(s, TRUE, TRUE) /\ OddPath(s, FALSE, FALSE)
    BY EvalSections
<1> HIDE DEF s
<1>2. /\ s \in Seq(Steps) /\ s \in Seq(Steps \ (TableSteps \cup {Lock("VAR"), Unlock("VAR")}))
      /\ s \in Seq(Steps \ CopySteps) /\ s \in Seq(Steps \ Readings)
      /\ \A x \in Vars : s \in Seq(Steps \ Addings(x))
      /\ \A x \in Vars : s \in Seq(Steps \ {<<"new variable", x>>})
    <2>1. EvalSteps \subseteq Steps \ (TableSteps \cup {Lock("VAR"), Unlock("VAR")})
        BY EvalNames
    <2>2. EvalSteps \subseteq Steps \ CopySteps /\ EvalSteps \subseteq Steps \ Readings
        BY EvalNames
    <2>3. \A x : EvalSteps \subseteq Steps \ Addings(x)
        BY EvalNames
    <2>4. \A x \in Vars : <<"new variable", x>> \in NewSteps
        BY DEF NewSteps
    <2>5. \A x \in Vars : EvalSteps \subseteq Steps \ {<<"new variable", x>>}
        BY <2>4, EvalNames
    <2>6. /\ s \in Seq(Steps) /\ s \in Seq(Steps \ (TableSteps \cup {Lock("VAR"), Unlock("VAR")}))
          /\ s \in Seq(Steps \ CopySteps) /\ s \in Seq(Steps \ Readings)
        BY <1>1, <2>1, <2>2, EvalNames, SeqMonotonic
    <2>7. \A x \in Vars : s \in Seq(Steps \ Addings(x))
        BY <1>1, <2>3, SeqMonotonic
    <2>8. \A x \in Vars : s \in Seq(Steps \ {<<"new variable", x>>})
        BY <1>1, <2>5, SeqMonotonic
    <2> QED
        BY <2>6, <2>7, <2>8
<1>3. VarPath(s, FALSE, FALSE) /\ MadePath(s, FALSE, FALSE) /\ CopyPath(s, FALSE, FALSE)
    BY <1>2, QuietVar, QuietMade, QuietCopy
<1>4. \A x \in Vars : DefinedPath(s, x, FALSE, FALSE)
    BY <1>2, QuietDefined
<1>5. Sound(s)
    BY <1>1, <1>2, <1>3, <1>4, QuietFollow DEF Sound
<1> QED
    BY <1>5 DEF s

LEMMA RunCodeSound ==
    ASSUME NEW r \in Rebuilds
    PROVE  /\ Sound(RunCode(r)) /\ Whole(RunCode(r)) /\ RunCode(r) \in Seq(EvalSteps)
           /\ Sound(Eval(r) \o ReturnEval) /\ Eval(r) \o ReturnEval \in Seq(EvalSteps)
<1> DEFINE u == <<Lock("VM")>>
           v == <<Unlock("VM")>>
           e == Eval(r)
           f == ReturnEval
<1>1. /\ e \in Seq(EvalSteps) /\ VMPath(e, TRUE, TRUE) /\ Sound(e)
      /\ Sound(f) /\ Whole(f) /\ f \in Seq(PlainSteps)
    BY EvalSections, EvalSound, LifeOperations
<1>2. RunCode(r) = u \o e \o v \o f
    BY DEF RunCode
<1>3. Lock("VM") \in PlainSteps /\ Unlock("VM") \in PlainSteps
    BY MutexForm DEF PlainMutexes
<1>4. u \in Seq(PlainSteps) /\ v \in Seq(PlainSteps)
    BY <1>3
<1>5. VMPath(u, FALSE, TRUE) /\ VMPath(v, TRUE, FALSE)
    <2>1. Lock("VM") \notin VMUses
        BY MutexNames DEF VMUses, Lock, Unlock
    <2> QED
        BY <2>1, OnePath DEF VMPath
<1> HIDE DEF u, v, e, f
<1>6. u \in Seq(EvalSteps) /\ v \in Seq(EvalSteps) /\ f \in Seq(EvalSteps)
    BY <1>1, <1>4, SeqMonotonic DEF EvalSteps
<1>7. u \o e \in Seq(EvalSteps) /\ u \o e \o v \in Seq(EvalSteps) /\ u \o e \o v \o f \in Seq(EvalSteps)
    BY <1>1, <1>6
<1>8. Sound(u) /\ Sound(v)
    BY <1>4, PlainSound
<1>9. Sound(u \o e) /\ Sound(u \o e \o v) /\ Sound(u \o e \o v \o f)
    BY <1>1, <1>8, CatSound
<1>10. Whole(u \o e \o v \o f)
    <2>1. VMPath(u \o e, FALSE, TRUE)
        BY <1>1, <1>5, <1>6, CatPath DEF VMPath
    <2>2. VMPath(u \o e \o v, FALSE, FALSE)
        BY <1>5, <1>6, <1>7, <2>1, CatPath DEF VMPath
    <2> QED
        BY <1>1, <1>6, <1>7, <2>2, CatPath DEF VMPath, Whole
<1>11. Sound(e \o f) /\ e \o f \in Seq(EvalSteps)
    BY <1>1, <1>6, CatSound
<1> QED
    BY <1>2, <1>7, <1>9, <1>10, <1>11 DEF e, f

(* Making the state of a thread. *)
LifeSteps == MutexSteps \cup CopySteps

LEMMA LifeNames ==
    /\ LifeSteps \subseteq Steps
    /\ LifeSteps \cap (TableSteps \cup MapSteps \cup NewSteps \cup Readings) = {}
    /\ \A x : LifeSteps \cap Addings(x) = {}
<1>1. \A v, w : Do(v) = Do(w) => v = w
    BY DEF Do
<1>2. \A w \in {"copy functions", "copy code"} : Do(w) \notin NewSteps
    <2>1. \A v : Do(v)[1] = v
        BY DEF Do
    <2>2. \A y \in NewSteps : y[1] \in {"new variable", "to table"}
        BY DEF NewSteps
    <2> QED
        BY <2>1, <2>2
<1>3. \A w \in {"copy functions", "copy code"} : Do(w) \notin {"to table"} \X Vars
    BY <1>2 DEF NewSteps
<1>4. \A w \in {"copy functions", "copy code"} : Do(w) \notin MapSteps \cup Readings
    BY <1>1 DEF MapSteps, Readings
<1>5. \A w \in {"copy functions", "copy code"} : Do(w) \notin TableSteps
    BY <1>1, <1>3 DEF TableSteps
<1>6. \A w \in {"copy functions", "copy code"} : \A x : Do(w) \notin Addings(x)
    BY DEF Addings, Do
<1>7. ASSUME NEW y \in CopySteps
      PROVE  /\ y \notin TableSteps \cup MapSteps \cup NewSteps \cup Readings
             /\ \A x : y \notin Addings(x)
    <2>1. PICK w \in {"copy functions", "copy code"} : y = Do(w)
        BY DEF CopySteps
    <2>2. \A x : y \notin Addings(x)
        BY <1>6, <2>1
    <2> QED
        BY <1>2, <1>4, <1>5, <2>1, <2>2
<1>8. LifeSteps \subseteq Steps
    BY AllSteps DEF LifeSteps
<1>9. LifeSteps \cap (TableSteps \cup MapSteps \cup NewSteps \cup Readings) = {}
    BY <1>7, PlainAreMutex DEF LifeSteps
<1>10. \A x : LifeSteps \cap Addings(x) = {}
    BY <1>7, PlainAreMutex DEF LifeSteps
<1> QED
    BY <1>8, <1>9, <1>10

LEMMA TenSteps ==
    ASSUME NEW S, NEW a \in S, NEW b \in S, NEW c \in S, NEW d \in S, NEW e \in S,
           NEW f \in S, NEW g \in S, NEW h \in S, NEW i \in S, NEW j \in S
    PROVE  <<a, b, c, d, e, f, g, h, i, j>> \in Seq(S)
    OBVIOUS

LEMMA CreateSections ==
    /\ CreateThreadState \in Seq(LifeSteps)
    /\ VarPath(CreateThreadState, FALSE, FALSE) /\ Whole(CreateThreadState)
    /\ CopyPath(CreateThreadState, FALSE, FALSE)
    /\ Followed(CreateThreadState, Do("copy functions"), Do("copy code"))
<1> DEFINE s == CreateThreadState
           F == Do("copy functions")
           C == Do("copy code")
<1>1. \A m \in Mutexes : Lock(m) \in LifeSteps /\ Unlock(m) \in LifeSteps
    BY MutexForm DEF LifeSteps
<1>2. F \in LifeSteps /\ C \in LifeSteps
    BY DEF LifeSteps, CopySteps
<1>3. /\ Len(s) = 10
      /\ s[1] = Lock("VM") /\ s[2] = Lock("POOL") /\ s[3] = Lock("FUNC") /\ s[4] = Lock("VAR")
      /\ s[5] = F /\ s[6] = C
      /\ s[7] = Unlock("VM") /\ s[8] = Unlock("POOL") /\ s[9] = Unlock("FUNC") /\ s[10] = Unlock("VAR")
    BY DEF CreateThreadState
<1>4. s \in Seq(LifeSteps)
    <2>1. /\ Lock("VM") \in LifeSteps /\ Lock("POOL") \in LifeSteps /\ Lock("FUNC") \in LifeSteps
          /\ Lock("VAR") \in LifeSteps /\ Unlock("VM") \in LifeSteps /\ Unlock("POOL") \in LifeSteps
          /\ Unlock("FUNC") \in LifeSteps /\ Unlock("VAR") \in LifeSteps
        BY <1>1 DEF Mutexes
    <2> QED
        BY <1>2, <2>1, TenSteps DEF CreateThreadState
<1> HIDE DEF s
<1>5. \A m \in Mutexes : /\ Lock(m) \notin TableSteps /\ Lock(m) \notin MapSteps /\ Lock(m) \notin CopySteps
                         /\ Unlock(m) \notin TableSteps /\ Unlock(m) \notin MapSteps /\ Unlock(m) \notin CopySteps
    BY MutexNames
<1>6. \A m, n : /\ Lock(m) # Unlock(n) /\ Lock(m) # F /\ Lock(m) # C /\ Unlock(m) # F /\ Unlock(m) # C
                /\ (Unlock(m) = Unlock(n) => m = n) /\ F # C
    BY DEF Lock, Unlock, Do
<1>7. F \notin TableSteps /\ C \notin TableSteps
    BY <1>2, LifeNames
<1> HIDE DEF F, C
<1>8. VarPath(s, FALSE, FALSE)
    <2>1. Lock("VAR") \notin VarUses /\ Lock("VM") \notin VarUses /\ Lock("POOL") \notin VarUses /\ Lock("FUNC") \notin VarUses
        BY <1>5, <1>6 DEF VarUses, Mutexes
    <2>2. Unlock("VM") \notin VarUses /\ Unlock("POOL") \notin VarUses /\ Unlock("FUNC") \notin VarUses
        BY <1>5, <1>6 DEF VarUses, Mutexes
    <2>3. F \notin VarUses /\ C \notin VarUses
        BY <1>6, <1>7 DEF VarUses
    <2>4. \A i \in 1..10 : s[i] \in VarUses => i = 10
        BY <1>3, <2>1, <2>2, <2>3
    <2>5. \A k \in 4 + 1..10 - 1 : s[k] # Unlock("VAR")
        BY <1>3, <1>6
    <2>6. OpenAt(s, FALSE, 10, Lock("VAR"), Unlock("VAR"))
        BY <1>3, <2>5 DEF OpenAt
    <2> QED
        BY <1>3, <2>4, <2>6 DEF VarPath, Path
<1>9. Whole(s)
    <2>1. /\ Lock("VM") \notin VMUses /\ Lock("POOL") \notin VMUses
          /\ Lock("FUNC") \notin VMUses /\ Lock("VAR") \notin VMUses
        BY <1>5, <1>6 DEF VMUses, Mutexes
    <2>2. Unlock("POOL") \notin VMUses /\ Unlock("FUNC") \notin VMUses /\ Unlock("VAR") \notin VMUses
        BY <1>5, <1>6 DEF VMUses, Mutexes
    <2>3. \A i \in 1..10 : s[i] \in VMUses => i \in {5, 6, 7}
        BY <1>3, <2>1, <2>2
    <2>4. \A i \in {5, 6, 7} : \A k \in 1 + 1..i - 1 : s[k] # Unlock("VM")
        BY <1>3, <1>6
    <2>5. \A i \in {5, 6, 7} : OpenAt(s, FALSE, i, Lock("VM"), Unlock("VM"))
        BY <1>3, <2>4 DEF OpenAt
    <2> QED
        BY <1>3, <2>3, <2>5 DEF Whole, VMPath, Path
<1>10. CopyPath(s, FALSE, FALSE)
    <2>1. \A i \in 1..10 : s[i] = C => i = 6
        BY <1>3, <1>6
    <2>2. OpenAt(s, FALSE, 6, F, Never)
        BY <1>3 DEF OpenAt
    <2> QED
        BY <1>3, <2>1, <2>2 DEF CopyPath, Copyings, Path, F, C
<1>11. Followed(s, F, C)
    <2>1. \A i \in 1..10 : s[i] = F => i = 5
        BY <1>3, <1>6
    <2>2. 6 \in 5 + 1..10
        OBVIOUS
    <2> QED
        BY <1>3, <2>1, <2>2 DEF Followed
<1> QED
    BY <1>4, <1>8, <1>9, <1>10, <1>11 DEF s, F, C

LEMMA CreateSound ==
    /\ Sound(CreateThreadState)
    /\ \A r \in Rebuilds : /\ Sound(CreateThreadState \o RunThreadCode(r))
                           /\ Whole(CreateThreadState \o RunThreadCode(r))
                           /\ CreateThreadState \o RunThreadCode(r) \in Seq(LifeSteps)
<1> DEFINE s == CreateThreadState
<1>1. /\ s \in Seq(LifeSteps) /\ VarPath(s, FALSE, FALSE) /\ Whole(s) /\ CopyPath(s, FALSE, FALSE)
      /\ Followed(s, Do("copy functions"), Do("copy code"))
    BY CreateSections
<1> HIDE DEF s
<1>2. /\ s \in Seq(Steps) /\ s \in Seq(Steps \ MapSteps) /\ s \in Seq(Steps \ Readings)
      /\ \A x \in Vars : s \in Seq(Steps \ Addings(x))
      /\ \A x \in Vars : s \in Seq(Steps \ {<<"new variable", x>>})
    <2>1. LifeSteps \subseteq Steps \ MapSteps /\ LifeSteps \subseteq Steps \ Readings
        BY LifeNames
    <2>2. \A x : LifeSteps \subseteq Steps \ Addings(x)
        BY LifeNames
    <2>3. \A x \in Vars : <<"new variable", x>> \in NewSteps
        BY DEF NewSteps
    <2>4. \A x \in Vars : LifeSteps \subseteq Steps \ {<<"new variable", x>>}
        BY <2>3, LifeNames
    <2> QED
        BY <1>1, <2>1, <2>2, <2>4, LifeNames, SeqMonotonic, ZenonT(60)
<1>3. MadePath(s, FALSE, FALSE) /\ EvenPath(s, TRUE, TRUE) /\ OddPath(s, FALSE, FALSE)
    BY <1>2, QuietMade, QuietEven, QuietOdd
<1>4. \A x \in Vars : DefinedPath(s, x, FALSE, FALSE)
    BY <1>2, QuietDefined
<1>5. Sound(s)
    BY <1>1, <1>2, <1>3, <1>4, QuietFollow DEF Sound
<1>6. ASSUME NEW r \in Rebuilds
      PROVE  Sound(s \o RunThreadCode(r)) /\ Whole(s \o RunThreadCode(r)) /\ s \o RunThreadCode(r) \in Seq(LifeSteps)
    <2> DEFINE q == RunThreadCode(r)
    <2>1. Sound(q) /\ Whole(q) /\ q \in Seq(PlainSteps)
        BY LifeOperations
    <2> HIDE DEF q
    <2>2. q \in Seq(LifeSteps) /\ q \in Seq(Steps)
        BY <2>1, PlainAreMutex, SeqMonotonic DEF LifeSteps
    <2>3. s \o q \in Seq(LifeSteps)
        BY <1>1, <2>2, ConcatProperties
    <2>4. Sound(s \o q) /\ Whole(s \o q)
        BY <1>1, <1>2, <1>5, <2>1, <2>2, CatSound, CatWhole
    <2> QED
        BY <2>3, <2>4 DEF q
<1> QED
    BY <1>5, <1>6 DEF s

-----------------------------------------------------------------------------
(* The inductive invariant. *)

MainOnly == NewSteps \cup MapSteps

(* Only the main thread defines variables and functions. *)
ScriptsKnown == \A t \in SubThreads : script[t] \in Seq(Steps \ MainOnly)

(* What a thread has yet to do keeps the rules from where it is. *)
TableRules ==
    /\ \A t \in Threads : VarPath(script[t], owner["VAR"] = t, FALSE)
    /\ \A t \in Threads : MadePath(script[t], table.made, FALSE)

DefinitionRules ==
    \A x \in Vars : /\ DefinedPath(script[Main], x, x \in globals, FALSE)
                    /\ Followed(script[Main], <<"new variable", x>>, <<"to table", x>>)

(* The table lacks a variable only while the variable is being defined. *)
TableFull ==
    table.made /\ (\A t \in Threads : ~At(t, "fill table")) => globals \ BeingDefined \subseteq table.has

CodeRules ==
    /\ EvenPath(script[Main], functions = bytecode, TRUE)
    /\ OddPath(script[Main], functions = bytecode + 1, FALSE)

CopyRules ==
    \A t \in SubThreads : /\ CopyPath(script[t], copied[t].functions <= bytecode, FALSE)
                          /\ Followed(script[t], Do("copy functions"), Do("copy code"))

(* Where no eval runs, functions and code agree unless the main thread     *)
(* holds the machine's mutex.                                              *)
MachineRules ==
    "eval" \notin Programs =>
        /\ \A t \in Threads : VMPath(script[t], owner["VM"] = t, FALSE)
        /\ owner["VM"] # Main => functions = bytecode
        /\ CopyRules /\ SnapshotWhole

Inv ==
    /\ TypeOK /\ ScriptsKnown
    /\ TableRules /\ DefinitionRules /\ TableFull
    /\ CodeRules /\ MachineRules

(* What the name of a step says of it. *)
LEMMA StepNames ==
    ASSUME NEW y \in Steps
    PROVE  /\ y[1] = "lock" => y[2] \in Mutexes /\ y = Lock(y[2])
           /\ y[1] = "unlock" => y[2] \in Mutexes /\ y = Unlock(y[2])
           /\ y[1] = "new variable" => y[2] \in Vars /\ y = <<"new variable", y[2]>>
           /\ y[1] = "to table" => y[2] \in Vars /\ y = <<"to table", y[2]>>
           /\ y[1] \in {"add functions", "add code", "copy functions", "copy code",
                        "generate table", "fill table", "look up"} => y = Do(y[1])
<1>1. CASE y \in MutexSteps
    <2>1. PICK m \in Mutexes : y = Lock(m) \/ y = Unlock(m)
        BY <1>1, MutexForm
    <2>2. CASE y = Lock(m)
        <3>1. y[1] = "lock" /\ y[2] = m
            BY <2>2 DEF Lock
        <3> QED
            BY <2>1, <2>2, <3>1
    <2>3. CASE y = Unlock(m)
        <3>1. y[1] = "unlock" /\ y[2] = m
            BY <2>3 DEF Unlock
        <3> QED
            BY <2>1, <2>3, <3>1
    <2> QED
        BY <2>1, <2>2, <2>3
<1>2. ASSUME NEW x \in Vars, NEW w \in {"new variable", "to table"}, y = <<w, x>>
      PROVE  /\ y[1] = w /\ y[2] \in Vars /\ y = <<w, y[2]>>
    BY <1>2
<1>3. CASE y \in NewSteps
    <2> DEFINE L == {"new variable", "to table"}
    <2>1. y \in L \X Vars
        BY <1>3 DEF NewSteps
    <2> HIDE DEF L
    <2>2. PICK w \in L, x \in Vars : y = <<w, x>>
        BY <2>1, Pairs
    <2>3. w \in {"new variable", "to table"}
        BY DEF L
    <2>4. y[1] = w /\ y[2] \in Vars /\ y = <<w, y[2]>>
        BY <1>2, <2>2, <2>3
    <2> QED
        BY <2>3, <2>4
<1>4. CASE y \in TableSteps \cup MapSteps \cup CopySteps /\ y \notin NewSteps
    <2>1. PICK w \in {"add functions", "add code", "copy functions", "copy code",
                      "generate table", "fill table", "look up"} : y = Do(w)
        <3>1. {"to table"} \X Vars \subseteq NewSteps
            BY DEF NewSteps
        <3> QED
            BY <1>4, <3>1 DEF TableSteps, MapSteps, CopySteps
    <2>2. y[1] = w
        BY <2>1 DEF Do
    <2> QED
        BY <2>1, <2>2
<1> QED
    BY <1>1, <1>3, <1>4, AllSteps

(* What is left of a script, and of those of others. *)
LEMMA Advancing ==
    ASSUME TypeOK, NEW t \in Threads, ~Idle(t), Advance(t)
    PROVE  /\ script[t] \in Seq(Steps) /\ script[t] # <<>>
           /\ Next1(t) = script[t][1] /\ Next1(t) \in Steps
           /\ script'[t] = Tail(script[t]) /\ Tail(script[t]) \in Seq(Steps)
           /\ \A u \in Threads \ {t} : script'[u] = script[u]
           /\ script' \in [Threads -> Seq(Steps)]
<1>1. script \in [Threads -> Seq(Steps)]
    BY DEF TypeOK
<1>2. script[t] \in Seq(Steps) /\ script[t] # <<>>
    BY <1>1 DEF Idle
<1>3. ASSUME NEW s \in Seq(Steps), s # <<>>
      PROVE  Tail(s) \in Seq(Steps) /\ Head(s) = s[1] /\ s[1] \in Steps
    BY <1>3
<1>4. script' = [script EXCEPT ![t] = Tail(script[t])]
    BY DEF Advance
<1> QED
    BY <1>1, <1>2, <1>3, <1>4 DEF Next1

-----------------------------------------------------------------------------
(* What a step does that is taken off the script of its thread. *)

OwnerEffect(t, m) ==
    /\ \A u \in Threads \ {t} : owner[m] = u => owner'[m] = u
    /\ Next1(t) = Lock(m) => owner'[m] = t
    /\ owner[m] = t /\ Next1(t) # Unlock(m) => owner'[m] = t

TableEffect(t) ==
    /\ table'.made = table.made /\ (Next1(t) = Do("generate table") => table'.made)
    /\ table.has \subseteq table'.has
    /\ \A x \in Vars : Next1(t) = <<"to table", x>> /\ table.made => x \in table'.has
    /\ Next1(t) = Do("fill table") => globals' \subseteq table'.has

DefinitionEffect(t) ==
    \A x \in Vars : x \in globals' <=> x \in globals \/ Next1(t) = <<"new variable", x>>

CodeEffect(t) ==
    /\ functions' = IF Next1(t) = Do("add functions") THEN functions + 1 ELSE functions
    /\ bytecode' = IF Next1(t) = Do("add code") THEN bytecode + 1 ELSE bytecode

CopyEffect(t) ==
    \A u \in SubThreads :
        /\ copied'[u].functions =
               IF u = t /\ Next1(t) = Do("copy functions") THEN functions ELSE copied[u].functions
        /\ copied'[u].bytecode =
               IF u = t /\ Next1(t) = Do("copy code") THEN bytecode ELSE copied[u].bytecode

Effect(t) ==
    /\ ~Idle(t) /\ Advance(t)
    /\ OwnerEffect(t, "VAR") /\ ("eval" \notin Programs => OwnerEffect(t, "VM"))
    /\ TableEffect(t) /\ DefinitionEffect(t) /\ CodeEffect(t) /\ CopyEffect(t)

LEMMA OtherNames ==
    ASSUME NEW t, NEW w, Next1(t)[1] = w
    PROVE  /\ \A v : Next1(t) = Do(v) => w = v
           /\ \A m : (Next1(t) = Lock(m) => w = "lock") /\ (Next1(t) = Unlock(m) => w = "unlock")
           /\ \A x : Next1(t) = <<"new variable", x>> => w = "new variable"
           /\ \A x : Next1(t) = <<"to table", x>> => w = "to table"
<1> DEFINE y == Next1(t)
<1>1. y[1] = w
    OBVIOUS
<1> HIDE DEF y
<1>2. ASSUME NEW v, y = Do(v) PROVE w = v
    BY <1>1, <1>2 DEF Do
<1>3. ASSUME NEW m, y = Lock(m) PROVE w = "lock"
    BY <1>1, <1>3 DEF Lock
<1>4. ASSUME NEW m, y = Unlock(m) PROVE w = "unlock"
    BY <1>1, <1>4 DEF Unlock
<1>5. ASSUME NEW v, NEW x, y = <<v, x>> PROVE w = v
    BY <1>1, <1>5
<1> QED
    BY <1>2, <1>3, <1>4, <1>5 DEF y

(* What is left alone is as it was. *)
LEMMA Untouched ==
    ASSUME NEW t \in Threads, NEW w, Next1(t)[1] = w
    PROVE  /\ \A m : owner' = owner /\ w \notin {"lock", "unlock"} => OwnerEffect(t, m)
           /\ UNCHANGED <<globals, table>> /\ w \notin {"to table", "generate table", "fill table"}
                  => TableEffect(t)
           /\ globals' = globals /\ w # "new variable" => DefinitionEffect(t)
           /\ UNCHANGED <<functions, bytecode>> /\ w \notin {"add functions", "add code"} => CodeEffect(t)
           /\ copied' = copied /\ w \notin {"copy functions", "copy code"} => CopyEffect(t)
<1>1. \A v : Next1(t) = Do(v) => w = v
    BY OtherNames
<1>2. \A m : (Next1(t) = Lock(m) => w = "lock") /\ (Next1(t) = Unlock(m) => w = "unlock")
    BY OtherNames
<1>3. /\ \A x : Next1(t) = <<"new variable", x>> => w = "new variable"
      /\ \A x : Next1(t) = <<"to table", x>> => w = "to table"
    BY OtherNames
<1>4. ASSUME NEW m, owner' = owner, w \notin {"lock", "unlock"} PROVE OwnerEffect(t, m)
    BY <1>2, <1>4 DEF OwnerEffect
<1>5. ASSUME UNCHANGED <<globals, table>>, w \notin {"to table", "generate table", "fill table"}
      PROVE  TableEffect(t)
    <2>1. Next1(t) # Do("generate table") /\ Next1(t) # Do("fill table") /\ \A x : Next1(t) # <<"to table", x>>
        BY <1>1, <1>3, <1>5
    <2> QED
        BY <1>5, <2>1 DEF TableEffect
<1>6. ASSUME globals' = globals, w # "new variable" PROVE DefinitionEffect(t)
    BY <1>3, <1>6 DEF DefinitionEffect
<1>7. ASSUME UNCHANGED <<functions, bytecode>>, w \notin {"add functions", "add code"} PROVE CodeEffect(t)
    BY <1>1, <1>7 DEF CodeEffect
<1>8. ASSUME copied' = copied, w \notin {"copy functions", "copy code"} PROVE CopyEffect(t)
    BY <1>1, <1>8 DEF CopyEffect
<1> QED
    BY <1>4, <1>5, <1>6, <1>7, <1>8

(* Whoever gives a mutex back held it. *)
LEMMA HeldWhenReleased ==
    ASSUME Inv, NEW t \in Threads, ~Idle(t)
    PROVE  /\ Next1(t) \in VarUses => owner["VAR"] = t
           /\ "eval" \notin Programs /\ Next1(t) \in VMUses => owner["VM"] = t
<1>1. script[t] \in Seq(Steps) /\ script[t] # <<>> /\ Next1(t) = script[t][1]
    <2>1. script[t] \in Seq(Steps) /\ script[t] # <<>>
        BY DEF Inv, TypeOK, Idle
    <2> QED
        BY <2>1 DEF Next1
<1>2. VarPath(script[t], owner["VAR"] = t, FALSE)
    BY DEF Inv, TableRules
<1>3. Next1(t) \in VarUses => owner["VAR"] = t
    <2> DEFINE s == script[t]
               h == owner["VAR"] = t
    <2>1. s \in Seq(Steps) /\ s # <<>> /\ h \in BOOLEAN /\ VarPath(s, h, FALSE)
        BY <1>1, <1>2
    <2> HIDE DEF s, h
    <2>2. s[1] \in VarUses => h
        BY <2>1, PathNow DEF VarPath
    <2> QED
        BY <1>1, <2>2 DEF s, h
<1>4. ASSUME "eval" \notin Programs, Next1(t) \in VMUses PROVE owner["VM"] = t
    <2> DEFINE s == script[t]
               h == owner["VM"] = t
    <2>1. s \in Seq(Steps) /\ s # <<>> /\ h \in BOOLEAN /\ VMPath(s, h, FALSE)
        BY <1>1, <1>4 DEF Inv, MachineRules
    <2> HIDE DEF s, h
    <2>2. s[1] \in VMUses => h
        BY <2>1, PathNow DEF VMPath
    <2> QED
        BY <1>1, <1>4, <2>2 DEF s, h
<1> QED
    BY <1>3, <1>4

(* The effects of the actions. *)
LEMMA AcquireEffect ==
    ASSUME Inv, NEW t \in Threads, Acquire(t) PROVE Effect(t)
<1>1. ~Idle(t) /\ Advance(t) /\ Next1(t)[1] = "lock" /\ owner[Next1(t)[2]] = Nobody
      /\ UNCHANGED Data /\ owner' = [owner EXCEPT ![Next1(t)[2]] = t]
    BY DEF Acquire
<1>2. Next1(t) \in Steps
    BY <1>1, Advancing DEF Inv
<1>3. PICK n \in Mutexes : Next1(t) = Lock(n) /\ Next1(t)[2] = n
    BY <1>1, <1>2, StepNames
<1>4. owner \in [Mutexes -> Threads \cup {Nobody}]
    BY DEF Inv, TypeOK
<1>5. owner'[n] = t /\ \A m \in Mutexes \ {n} : owner'[m] = owner[m]
    BY <1>1, <1>3, <1>4
<1>6. owner[n] = Nobody /\ Nobody \notin Threads
    BY <1>1, <1>3, ConstantsAssumption
<1>7. \A m : Next1(t) = Lock(m) => m = n
    BY <1>3 DEF Lock
<1>8. \A m \in Mutexes : OwnerEffect(t, m)
    BY <1>5, <1>6, <1>7 DEF OwnerEffect
<1>9. TableEffect(t) /\ DefinitionEffect(t) /\ CodeEffect(t) /\ CopyEffect(t)
    BY <1>1, Untouched DEF Data
<1> QED
    BY <1>1, <1>8, <1>9 DEF Effect, Mutexes

LEMMA ReleaseEffect ==
    ASSUME Inv, NEW t \in Threads, Release(t) PROVE Effect(t)
<1>1. ~Idle(t) /\ Advance(t) /\ Next1(t)[1] = "unlock"
      /\ UNCHANGED Data /\ owner' = [owner EXCEPT ![Next1(t)[2]] = Nobody]
    BY DEF Release
<1>2. Next1(t) \in Steps
    BY <1>1, Advancing DEF Inv
<1>3. PICK n \in Mutexes : Next1(t) = Unlock(n) /\ Next1(t)[2] = n
    BY <1>1, <1>2, StepNames
<1>4. owner \in [Mutexes -> Threads \cup {Nobody}]
    BY DEF Inv, TypeOK
<1>5. \A m \in Mutexes \ {n} : owner'[m] = owner[m]
    BY <1>1, <1>3, <1>4
<1>6. \A m : Next1(t) # Lock(m)
    BY <1>1, OtherNames
<1>7. \A m \in Mutexes : m = n /\ owner[m] = t => OwnerEffect(t, m)
    BY <1>3, <1>6 DEF OwnerEffect
<1>8. \A m \in Mutexes : m # n => OwnerEffect(t, m)
    BY <1>5, <1>6 DEF OwnerEffect
<1>9. OwnerEffect(t, "VAR")
    <2>1. n = "VAR" => owner["VAR"] = t
        BY <1>1, <1>3, HeldWhenReleased DEF VarUses
    <2> QED
        BY <1>7, <1>8, <2>1 DEF Mutexes
<1>10. "eval" \notin Programs => OwnerEffect(t, "VM")
    <2>1. "eval" \notin Programs /\ n = "VM" => owner["VM"] = t
        BY <1>1, <1>3, HeldWhenReleased DEF VMUses
    <2> QED
        BY <1>7, <1>8, <2>1 DEF Mutexes
<1>11. TableEffect(t) /\ DefinitionEffect(t) /\ CodeEffect(t) /\ CopyEffect(t)
    BY <1>1, Untouched DEF Data
<1> QED
    BY <1>1, <1>9, <1>10, <1>11 DEF Effect

LEMMA CodeStepEffect ==
    ASSUME Inv, NEW t \in Threads, AddFunctions(t) \/ AddCode(t) PROVE Effect(t)
<1> DEFINE w == Next1(t)[1]
<1>1. /\ ~Idle(t) /\ Advance(t) /\ w \in {"add functions", "add code"}
      /\ owner' = owner /\ copied' = copied /\ UNCHANGED <<globals, table>>
    BY DEF AddFunctions, AddCode, At
<1>2. Next1(t) \in Steps
    BY <1>1, Advancing DEF Inv
<1>3. Next1(t) = Do(w)
    BY <1>1, <1>2, StepNames
<1>4. \A m : OwnerEffect(t, m)
    BY <1>1, Untouched
<1>5. TableEffect(t) /\ DefinitionEffect(t) /\ CopyEffect(t)
    BY <1>1, Untouched
<1>6. Do("add functions") # Do("add code")
    BY DEF Do
<1>7. CASE AddFunctions(t)
    <2>1. functions' = functions + 1 /\ bytecode' = bytecode /\ w = "add functions"
        BY <1>7 DEF AddFunctions, At
    <2> QED
        BY <1>1, <1>3, <1>4, <1>5, <1>6, <2>1 DEF Effect, CodeEffect
<1>8. CASE AddCode(t)
    <2>1. functions' = functions /\ bytecode' = bytecode + 1 /\ w = "add code"
        BY <1>8 DEF AddCode, At
    <2> QED
        BY <1>1, <1>3, <1>4, <1>5, <1>6, <2>1 DEF Effect, CodeEffect
<1> QED
    BY <1>7, <1>8

LEMMA CopyStepEffect ==
    ASSUME Inv, NEW t \in Threads, CopyFunctions(t) \/ CopyCode(t) PROVE Effect(t)
<1> DEFINE w == Next1(t)[1]
<1>1. /\ ~Idle(t) /\ Advance(t) /\ w \in {"copy functions", "copy code"}
      /\ owner' = owner /\ UNCHANGED <<globals, table>> /\ UNCHANGED <<functions, bytecode>>
    BY DEF CopyFunctions, CopyCode, At
<1>2. Next1(t) \in Steps
    BY <1>1, Advancing DEF Inv
<1>3. Next1(t) = Do(w)
    BY <1>1, <1>2, StepNames
<1>4. \A m : OwnerEffect(t, m)
    BY <1>1, Untouched
<1>5. TableEffect(t) /\ DefinitionEffect(t) /\ CodeEffect(t)
    BY <1>1, Untouched
<1>6. Do("copy functions") # Do("copy code")
    BY DEF Do
<1>7. copied \in [SubThreads -> [functions : Nat, bytecode : Nat]]
    BY DEF Inv, TypeOK
<1>8. CASE CopyFunctions(t)
    <2>1. copied' = [copied EXCEPT ![t].functions = functions] /\ w = "copy functions"
        BY <1>8 DEF CopyFunctions, At
    <2>2. \A u \in SubThreads :
              /\ copied'[u].functions = IF u = t THEN functions ELSE copied[u].functions
              /\ copied'[u].bytecode = copied[u].bytecode
        BY <1>7, <2>1
    <2>3. Next1(t) = Do("copy functions") /\ Next1(t) # Do("copy code")
        BY <1>3, <1>6, <2>1
    <2>4. CopyEffect(t)
        BY <2>2, <2>3 DEF CopyEffect
    <2> QED
        BY <1>1, <1>4, <1>5, <2>4 DEF Effect
<1>9. CASE CopyCode(t)
    <2>1. copied' = [copied EXCEPT ![t].bytecode = bytecode] /\ w = "copy code"
        BY <1>9 DEF CopyCode, At
    <2>2. \A u \in SubThreads :
              /\ copied'[u].functions = copied[u].functions
              /\ copied'[u].bytecode = IF u = t THEN bytecode ELSE copied[u].bytecode
        BY <1>7, <2>1
    <2>3. Next1(t) = Do("copy code") /\ Next1(t) # Do("copy functions")
        BY <1>3, <1>6, <2>1
    <2>4. CopyEffect(t)
        BY <2>2, <2>3 DEF CopyEffect
    <2> QED
        BY <1>1, <1>4, <1>5, <2>4 DEF Effect
<1> QED
    BY <1>8, <1>9

LEMMA NewVariableEffect ==
    ASSUME Inv, NEW t \in Threads, NewVariable(t) PROVE Effect(t)
<1>1. /\ ~Idle(t) /\ Advance(t) /\ Next1(t)[1] = "new variable" /\ globals' = globals \cup {Next1(t)[2]}
      /\ owner' = owner /\ copied' = copied /\ UNCHANGED <<functions, bytecode>> /\ table' = table
    BY DEF NewVariable, At
<1>2. Next1(t) \in Steps
    BY <1>1, Advancing DEF Inv
<1>3. PICK x \in Vars : Next1(t) = <<"new variable", x>> /\ globals' = globals \cup {x}
    BY <1>1, <1>2, StepNames
<1>4. \A m : OwnerEffect(t, m)
    BY <1>1, Untouched
<1>5. CodeEffect(t) /\ CopyEffect(t)
    BY <1>1, Untouched
<1>6. \A y : <<"new variable", x>> = <<"new variable", y>> => y = x
    OBVIOUS
<1>7. DefinitionEffect(t)
    BY <1>3, <1>6 DEF DefinitionEffect
<1>8. TableEffect(t)
    <2>1. \A v : Next1(t) = Do(v) => v = "new variable"
        BY <1>1, OtherNames
    <2>2. Next1(t) # Do("generate table") /\ Next1(t) # Do("fill table")
        BY <2>1
    <2>3. \A y : Next1(t) # <<"to table", y>>
        BY <1>1, OtherNames
    <2> QED
        BY <1>1, <2>2, <2>3 DEF TableEffect
<1> QED
    BY <1>1, <1>4, <1>5, <1>7, <1>8 DEF Effect

LEMMA ToTableEffect ==
    ASSUME Inv, NEW t \in Threads, ToTable(t) PROVE Effect(t)
<1>1. /\ ~Idle(t) /\ Advance(t) /\ Next1(t)[1] = "to table" /\ globals' = globals
      /\ owner' = owner /\ copied' = copied /\ UNCHANGED <<functions, bytecode>>
      /\ table' = (IF table.made THEN [table EXCEPT !.has = @ \cup {Next1(t)[2]}] ELSE table)
    BY DEF ToTable, At
<1>2. Next1(t) \in Steps
    BY <1>1, Advancing DEF Inv
<1>3. PICK x \in Vars : Next1(t) = <<"to table", x>> /\ Next1(t)[2] = x
    BY <1>1, <1>2, StepNames
<1>4. \A m : OwnerEffect(t, m)
    BY <1>1, Untouched
<1>5. CodeEffect(t) /\ CopyEffect(t) /\ DefinitionEffect(t)
    BY <1>1, Untouched
<1>6. table \in [made : BOOLEAN, has : SUBSET globals]
    BY DEF Inv, TypeOK
<1>7. table'.made = table.made /\ table'.has = IF table.made THEN table.has \cup {x} ELSE table.has
    BY <1>1, <1>3, <1>6
<1>8. \A y : <<"to table", x>> = <<"to table", y>> => y = x
    OBVIOUS
<1>9. TableEffect(t)
    <2>1. \A v : Next1(t) = Do(v) => v = "to table"
        BY <1>1, OtherNames
    <2>2. Next1(t) # Do("generate table") /\ Next1(t) # Do("fill table")
        BY <2>1
    <2> QED
        BY <1>3, <1>7, <1>8, <2>2 DEF TableEffect
<1> QED
    BY <1>1, <1>4, <1>5, <1>9 DEF Effect

LEMMA TableStepEffect ==
    ASSUME Inv, NEW t \in Threads, FillTable(t) \/ LookUp(t) \/ (GenerateTable(t) /\ table.made)
    PROVE  Effect(t)
<1> DEFINE w == Next1(t)[1]
<1>1. /\ ~Idle(t) /\ Advance(t) /\ w \in {"fill table", "look up", "generate table"} /\ globals' = globals
      /\ owner' = owner /\ copied' = copied /\ UNCHANGED <<functions, bytecode>>
    BY DEF FillTable, LookUp, GenerateTable, At, Data
<1>2. Next1(t) \in Steps
    BY <1>1, Advancing DEF Inv
<1>3. Next1(t) = Do(w)
    BY <1>1, <1>2, StepNames
<1>4. \A m : OwnerEffect(t, m)
    BY <1>1, Untouched
<1>5. CodeEffect(t) /\ CopyEffect(t) /\ DefinitionEffect(t)
    BY <1>1, Untouched
<1>6. table \in [made : BOOLEAN, has : SUBSET globals]
    BY DEF Inv, TypeOK
<1>7. \A x : Next1(t) # <<"to table", x>>
    BY <1>1, OtherNames
<1>8. \A v : Do(w) = Do(v) => w = v
    BY DEF Do
<1>9. TableEffect(t)
    <2>1. CASE FillTable(t)
        <3>1. w = "fill table" /\ table' = [table EXCEPT !.has = @ \cup globals]
            BY <2>1 DEF FillTable, At
        <3>2. table'.made = table.made /\ table'.has = table.has \cup globals
            BY <1>6, <3>1
        <3>3. Next1(t) # Do("generate table")
            BY <1>3, <1>8, <3>1
        <3> QED
            BY <1>1, <1>7, <3>2, <3>3 DEF TableEffect
    <2>2. CASE LookUp(t) \/ (GenerateTable(t) /\ table.made)
        <3>1. table' = table /\ (w = "look up" \/ (w = "generate table" /\ table.made))
            BY <2>2 DEF LookUp, GenerateTable, At, Data
        <3>2. Next1(t) # Do("fill table") /\ (Next1(t) = Do("generate table") => table.made)
            BY <1>3, <1>8, <3>1
        <3> QED
            BY <1>7, <3>1, <3>2 DEF TableEffect
    <2> QED
        BY <2>1, <2>2
<1> QED
    BY <1>1, <1>4, <1>5, <1>9 DEF Effect

(* Only the main thread defines. *)
LEMMA OnlyMain ==
    ASSUME Inv, NEW t \in Threads, ~Idle(t), Next1(t) \in MainOnly
    PROVE  t = Main
<1> SUFFICES ASSUME t # Main PROVE FALSE
    OBVIOUS
<1> DEFINE s == script[t]
           S == Steps \ MainOnly
<1>1. s \in Seq(S) /\ s # <<>>
    BY DEF Inv, ScriptsKnown, Threads, Idle
<1>2. Head(s) = s[1] /\ S \cap MainOnly = {}
    BY <1>1
<1> HIDE DEF s, S
<1>3. s[1] \in S
    BY <1>1, HeadTail
<1> QED
    BY <1>2, <1>3 DEF Next1, s

-----------------------------------------------------------------------------
(* A step taken off the script keeps the invariant. *)

LEMMA EffectScripts ==
    ASSUME Inv, NEW t \in Threads, Effect(t)
    PROVE  ScriptsKnown' /\ script' \in [Threads -> Seq(Steps)]
<1>1. /\ script[t] # <<>> /\ script'[t] = Tail(script[t])
      /\ \A u \in Threads \ {t} : script'[u] = script[u]
      /\ script' \in [Threads -> Seq(Steps)]
    BY Advancing DEF Inv, Effect
<1>2. ASSUME NEW u \in SubThreads PROVE script'[u] \in Seq(Steps \ MainOnly)
    <2>1. script[u] \in Seq(Steps \ MainOnly) /\ u \in Threads
        BY DEF Inv, ScriptsKnown, Threads
    <2>2. CASE u = t
        <3>1. Tail(script[u]) \in Seq(Steps \ MainOnly)
            BY <1>1, <2>1, <2>2, HeadTail
        <3> QED
            BY <1>1, <2>2, <3>1
    <2>3. CASE u # t
        BY <1>1, <2>1, <2>3
    <2> QED
        BY <2>2, <2>3
<1> QED
    BY <1>1, <1>2 DEF ScriptsKnown

LEMMA EffectTable ==
    ASSUME Inv, NEW t \in Threads, Effect(t) PROVE TableRules'
<1>1. /\ script[t] \in Seq(Steps) /\ script[t] # <<>> /\ script'[t] = Tail(script[t])
      /\ Next1(t) = script[t][1] /\ Next1(t) \in Steps
      /\ \A u \in Threads \ {t} : script'[u] = script[u]
    BY Advancing DEF Inv, Effect
<1>2. OwnerEffect(t, "VAR") /\ TableEffect(t)
    BY DEF Effect
<1>3. \A u \in Threads : script[u] \in Seq(Steps)
    BY DEF Inv, TypeOK
<1>4. table.made \in BOOLEAN /\ table'.made \in BOOLEAN
    BY <1>2 DEF Inv, TypeOK, TableEffect
<1>5. ASSUME NEW u \in Threads
      PROVE  VarPath(script'[u], owner'["VAR"] = u, FALSE) /\ MadePath(script'[u], table'.made, FALSE)
    <2> DEFINE s == script[u]
               h == owner["VAR"] = u
               k == owner'["VAR"] = u
               a == Lock("VAR")
               b == Unlock("VAR")
               f == table.made
               g == table'.made
               c == Do("generate table")
    <2>1. s \in Seq(Steps) /\ VarPath(s, h, FALSE) /\ MadePath(s, f, FALSE)
        BY <1>3 DEF Inv, TableRules
    <2>2. h \in BOOLEAN /\ k \in BOOLEAN /\ f \in BOOLEAN /\ g \in BOOLEAN
        BY <1>4
    <2>3. CASE u = t
        <3>1. s # <<>> /\ script'[u] = Tail(s) /\ s[1] \in Steps
            BY <1>1, <2>3
        <3>2. (s[1] = a => k) /\ (h /\ s[1] # b => k)
            BY <1>1, <1>2, <2>3 DEF OwnerEffect
        <3>3. (s[1] = c => g) /\ (f => g)
            BY <1>1, <1>2, <2>3 DEF TableEffect
        <3> HIDE DEF s, h, k, f, g
        <3>4. VarPath(Tail(s), k, FALSE)
            BY <2>1, <2>2, <3>1, <3>2, TailPath DEF VarPath
        <3>5. MadePath(Tail(s), g, FALSE)
            BY <2>1, <2>2, <3>1, <3>3, TailPath DEF MadePath
        <3> QED
            BY <3>1, <3>4, <3>5 DEF k, g
    <2>4. CASE u # t
        <3>1. script'[u] = s
            BY <1>1, <2>4
        <3>2. (h => k) /\ (f => g)
            BY <1>2, <2>4 DEF OwnerEffect, TableEffect
        <3> HIDE DEF s, h, k, f, g
        <3>3. VarPath(s, k, FALSE)
            BY <2>1, <2>2, <3>2, PathWeaker DEF VarPath
        <3>4. MadePath(s, g, FALSE)
            BY <2>1, <2>2, <3>2, PathWeaker DEF MadePath
        <3> QED
            BY <3>1, <3>3, <3>4 DEF k, g
    <2> QED
        BY <2>3, <2>4
<1> QED
    BY <1>5 DEF TableRules

LEMMA EffectDefinition ==
    ASSUME Inv, NEW t \in Threads, Effect(t) PROVE DefinitionRules'
<1>1. /\ script[t] \in Seq(Steps) /\ script[t] # <<>> /\ script'[t] = Tail(script[t])
      /\ Next1(t) = script[t][1] /\ Next1(t) \in Steps
      /\ \A u \in Threads \ {t} : script'[u] = script[u]
    BY Advancing DEF Inv, Effect
<1>2. DefinitionEffect(t)
    BY DEF Effect
<1>3. script[Main] \in Seq(Steps) /\ Main \in Threads
    BY DEF Inv, TypeOK, Threads
<1>4. ASSUME NEW x \in Vars
      PROVE  /\ DefinedPath(script'[Main], x, x \in globals', FALSE)
             /\ Followed(script'[Main], <<"new variable", x>>, <<"to table", x>>)
    <2> DEFINE s == script[Main]
               a == <<"new variable", x>>
               m == <<"to table", x>>
               h == x \in globals
               k == x \in globals'
    <2>1. s \in Seq(Steps) /\ DefinedPath(s, x, h, FALSE) /\ Followed(s, a, m)
        BY <1>3 DEF Inv, DefinitionRules
    <2>2. h \in BOOLEAN /\ k \in BOOLEAN /\ (h => k)
        <3>1. x \in globals => x \in globals'
            BY <1>2 DEF DefinitionEffect
        <3> QED
            BY <3>1
    <2>3. CASE t = Main
        <3>1. s # <<>> /\ script'[Main] = Tail(s) /\ (s[1] = a => k)
            BY <1>1, <1>2, <2>3 DEF DefinitionEffect
        <3> HIDE DEF s, h, k
        <3>2. DefinedPath(Tail(s), x, k, FALSE)
            BY <2>1, <2>2, <3>1, TailPath DEF DefinedPath
        <3>3. Followed(Tail(s), a, m)
            <4> HIDE DEF a, m
            <4> QED
                BY <2>1, <3>1, TailFollowed
        <3> QED
            BY <3>1, <3>2, <3>3 DEF k
    <2>4. CASE t # Main
        <3>1. script'[Main] = s
            BY <1>1, <1>3, <2>4
        <3> HIDE DEF s, h, k
        <3>2. DefinedPath(s, x, k, FALSE)
            BY <2>1, <2>2, PathWeaker DEF DefinedPath
        <3> QED
            BY <2>1, <3>1, <3>2 DEF k
    <2> QED
        BY <2>3, <2>4
<1> QED
    BY <1>4 DEF DefinitionRules

LEMMA EffectCode ==
    ASSUME Inv, NEW t \in Threads, Effect(t) PROVE CodeRules'
<1>1. /\ script[t] \in Seq(Steps) /\ script[t] # <<>> /\ script'[t] = Tail(script[t])
      /\ Next1(t) = script[t][1]
      /\ \A u \in Threads \ {t} : script'[u] = script[u]
    BY Advancing DEF Inv, Effect
<1>2. CodeEffect(t)
    BY DEF Effect
<1>3. functions \in Nat /\ bytecode \in Nat
    BY DEF Inv, TypeOK
<1> DEFINE s == script[Main]
           a == Do("add functions")
           d == Do("add code")
           e == functions = bytecode
           f == functions' = bytecode'
           g == functions = bytecode + 1
           h == functions' = bytecode' + 1
<1>4. s \in Seq(Steps) /\ EvenPath(s, e, TRUE) /\ OddPath(s, g, FALSE)
    BY DEF Inv, TypeOK, Threads, CodeRules
<1>5. e \in BOOLEAN /\ f \in BOOLEAN /\ g \in BOOLEAN /\ h \in BOOLEAN
    OBVIOUS
<1>6. CASE t = Main
    <2>1. s # <<>> /\ script'[Main] = Tail(s) /\ Next1(t) = s[1]
        BY <1>1, <1>6
    <2>2. a # d
        BY DEF Do
    <2>3. s[1] \in EvenSteps => e
        <3> HIDE DEF s, e, f, g, h
        <3> QED
            BY <1>4, <1>5, <2>1, PathNow DEF EvenPath
    <2>4. s[1] \in OddSteps => g
        <3> HIDE DEF s, e, f, g, h
        <3> QED
            BY <1>4, <1>5, <2>1, PathNow DEF OddPath
    <2>5. (s[1] = a => e) /\ (s[1] = d => g)
        BY <2>3, <2>4 DEF EvenSteps, OddSteps
    <2>6. (s[1] = d => f) /\ (e /\ s[1] # a => f) /\ (s[1] = a => h) /\ (g /\ s[1] # d => h)
        <3>1. CASE s[1] = a
            <4>1. functions' = functions + 1 /\ bytecode' = bytecode /\ s[1] # d
                BY <1>2, <2>1, <2>2, <3>1 DEF CodeEffect
            <4>2. h
                BY <1>3, <2>5, <3>1, <4>1
            <4> QED
                BY <3>1, <4>1, <4>2
        <3>2. CASE s[1] = d
            <4>1. functions' = functions /\ bytecode' = bytecode + 1 /\ s[1] # a
                BY <1>2, <2>1, <2>2, <3>2 DEF CodeEffect
            <4>2. f
                BY <1>3, <2>5, <3>2, <4>1
            <4> QED
                BY <3>2, <4>1, <4>2
        <3>3. CASE s[1] # a /\ s[1] # d
            <4>1. functions' = functions /\ bytecode' = bytecode
                BY <1>2, <2>1, <3>3 DEF CodeEffect
            <4> QED
                BY <3>3, <4>1
        <3> QED
            BY <3>1, <3>2, <3>3
    <2> HIDE DEF s, e, f, g, h
    <2>7. EvenPath(Tail(s), f, TRUE)
        BY <1>4, <1>5, <2>1, <2>6, TailPath DEF EvenPath
    <2>8. OddPath(Tail(s), h, FALSE)
        BY <1>4, <1>5, <2>1, <2>6, TailPath DEF OddPath
    <2> QED
        BY <2>1, <2>7, <2>8 DEF CodeRules, f, h
<1>7. CASE t # Main
    <2>1. script'[Main] = s
        BY <1>1, <1>7 DEF Threads
    <2>2. Next1(t) \notin MapSteps
        <3>1. ~Idle(t)
            BY DEF Effect
        <3> QED
            BY <1>7, <3>1, OnlyMain DEF MainOnly
    <2>3. functions' = functions /\ bytecode' = bytecode
        BY <1>2, <2>2 DEF CodeEffect, MapSteps
    <2> QED
        BY <1>4, <2>1, <2>3 DEF CodeRules
<1> QED
    BY <1>6, <1>7

LEMMA TailRange ==
    ASSUME NEW S, NEW s \in Seq(S), s # <<>>
    PROVE  /\ \A y \in Range(s) : y = s[1] \/ y \in Range(Tail(s))
           /\ Range(Tail(s)) \subseteq Range(s) /\ s[1] \in Range(s)
<1>1. /\ Len(s) \in Nat /\ Len(s) >= 1 /\ DOMAIN s = 1..Len(s)
      /\ DOMAIN Tail(s) = 1..Len(s) - 1
      /\ \A n \in 1..Len(s) - 1 : Tail(s)[n] = s[n + 1]
    OBVIOUS
<1>2. ASSUME NEW y \in Range(s), y # s[1] PROVE y \in Range(Tail(s))
    <2>1. PICK i \in 1..Len(s) : s[i] = y
        BY <1>1 DEF Range
    <2>2. i - 1 \in 1..Len(s) - 1 /\ (i - 1) + 1 = i
        BY <1>1, <1>2, <2>1
    <2>3. Tail(s)[i - 1] = y
        BY <1>1, <2>1, <2>2
    <2> QED
        BY <1>1, <2>2, <2>3 DEF Range
<1>3. ASSUME NEW y \in Range(Tail(s)) PROVE y \in Range(s)
    <2>1. PICK i \in 1..Len(s) - 1 : Tail(s)[i] = y
        BY <1>1 DEF Range
    <2>2. i + 1 \in 1..Len(s) /\ s[i + 1] = y
        BY <1>1, <2>1
    <2> QED
        BY <1>1, <2>2 DEF Range
<1>4. 1 \in 1..Len(s)
    BY <1>1
<1> QED
    BY <1>1, <1>2, <1>3, <1>4 DEF Range

LEMMA FollowedNow ==
    ASSUME NEW S, NEW s \in Seq(S), s # <<>>, NEW a, NEW b, Followed(s, a, b), s[1] = a
    PROVE  b \in Range(Tail(s))
<1>1. PICK j \in 1..Len(Tail(s)) : Tail(s)[j] = b
    BY TailFollowed
<1>2. DOMAIN Tail(s) = 1..Len(Tail(s))
    BY HeadTail
<1> QED
    BY <1>1, <1>2 DEF Range

(* The table stays full: a variable is new before it is being defined no   *)
(* more, and then the table has it.                                        *)
LEMMA EffectFull ==
    ASSUME Inv, NEW t \in Threads, Effect(t), TypeOK' PROVE TableFull'
<1>1. /\ ~Idle(t) /\ script[t] \in Seq(Steps) /\ script[t] # <<>> /\ script'[t] = Tail(script[t])
      /\ Next1(t) = script[t][1] /\ Next1(t) \in Steps
      /\ \A u \in Threads \ {t} : script'[u] = script[u]
    BY Advancing DEF Inv, Effect
<1>2. TableEffect(t) /\ DefinitionEffect(t)
    BY DEF Effect
<1>3. script[Main] \in Seq(Steps) /\ Main \in Threads
    BY DEF Inv, TypeOK, Threads
<1> SUFFICES ASSUME table'.made, \A u \in Threads : ~At(u, "fill table")',
                    NEW x \in globals', x \notin BeingDefined'
             PROVE  x \in table'.has
    BY DEF TableFull
<1>4. CASE Next1(t) = Do("fill table")
    BY <1>2, <1>4 DEF TableEffect
<1>5. CASE Next1(t) # Do("fill table")
    <2> DEFINE n == <<"new variable", x>>
               m == <<"to table", x>>
    <2>1. table.made /\ table.has \subseteq table'.has
        BY <1>2 DEF TableEffect
    <2>2. \A u \in Threads : ~At(u, "fill table")
        <3>1. \A u \in Threads \ {t} : ~At(u, "fill table")
            BY <1>1 DEF At, Idle, Next1
        <3>2. ~At(t, "fill table")
            <4>1. Next1(t)[1] = "fill table" => Next1(t) = Do("fill table")
                BY <1>1, StepNames
            <4> QED
                BY <1>5, <4>1 DEF At
        <3> QED
            BY <3>1, <3>2
    <2>3. globals \ BeingDefined \subseteq table.has
        BY <2>1, <2>2 DEF Inv, TableFull
    <2>4. x \in Vars
        BY DEF TypeOK
    <2>5. CASE t # Main
        <3>1. script'[Main] = script[Main]
            BY <1>1, <1>3, <2>5
        <3>2. BeingDefined' = BeingDefined
            BY <3>1 DEF BeingDefined
        <3>3. Next1(t) \notin NewSteps
            BY <1>1, <2>5, OnlyMain DEF MainOnly
        <3>4. n \in NewSteps
            BY <2>4 DEF NewSteps
        <3>5. x \in globals
            BY <1>2, <2>4, <3>3, <3>4 DEF DefinitionEffect
        <3> QED
            BY <2>1, <2>3, <3>2, <3>5
    <2>6. CASE t = Main
        <3> DEFINE s == script[Main]
        <3>1. s \in Seq(Steps) /\ s # <<>> /\ script'[Main] = Tail(s) /\ Next1(t) = s[1]
            BY <1>1, <2>6
        <3>2. n \notin Range(Tail(s)) /\ m \notin Range(Tail(s))
            BY <2>4, <3>1 DEF BeingDefined
        <3>3. Followed(s, n, m)
            BY <2>4 DEF Inv, DefinitionRules
        <3>4. (x \in BeingDefined) <=> (n \in Range(s) \/ m \in Range(s))
            BY <2>4 DEF BeingDefined
        <3>5. x \in globals \/ s[1] = n
            BY <1>2, <2>4, <3>1 DEF DefinitionEffect
        <3>6. s[1] = m => x \in table'.has
            BY <1>2, <2>1, <2>4, <3>1 DEF TableEffect
        <3> HIDE DEF s, n, m
        <3>7. s[1] # n
            <4>1. s[1] = n => m \in Range(Tail(s))
                BY <3>1, <3>3, FollowedNow
            <4> QED
                BY <3>2, <4>1
        <3>8. CASE x \notin BeingDefined
            BY <2>1, <2>3, <3>5, <3>7, <3>8
        <3>9. CASE x \in BeingDefined
            <4>1. n \in Range(s) \/ m \in Range(s)
                BY <3>4, <3>9
            <4>2. s[1] = n \/ s[1] = m
                BY <3>1, <3>2, <4>1, TailRange
            <4> QED
                BY <3>6, <3>7, <4>2
        <3> QED
            BY <3>8, <3>9
    <2> QED
        BY <2>5, <2>6
<1> QED
    BY <1>4, <1>5

(* A copy is taken when functions and code agree, and the code only grows. *)
LEMMA EffectCopy ==
    ASSUME Inv, NEW t \in Threads, Effect(t), "eval" \notin Programs
    PROVE  CopyRules' /\ SnapshotWhole'
<1>1. /\ ~Idle(t) /\ script[t] \in Seq(Steps) /\ script[t] # <<>> /\ script'[t] = Tail(script[t])
      /\ Next1(t) = script[t][1] /\ Next1(t) \in Steps
      /\ \A u \in Threads \ {t} : script'[u] = script[u]
    BY Advancing DEF Inv, Effect
<1>2. CodeEffect(t) /\ CopyEffect(t)
    BY DEF Effect
<1>3. functions \in Nat /\ bytecode \in Nat
    BY DEF Inv, TypeOK
<1> DEFINE F == Do("copy functions")
           C == Do("copy code")
<1>4. F # C
    BY DEF Do
<1>5. bytecode' \in Nat /\ bytecode <= bytecode'
    <2>1. bytecode' = bytecode \/ bytecode' = bytecode + 1
        BY <1>2 DEF CodeEffect
    <2> QED
        BY <1>3, <2>1
<1>6. ASSUME NEW u \in SubThreads
      PROVE  /\ CopyPath(script'[u], copied'[u].functions <= bytecode', FALSE)
             /\ Followed(script'[u], F, C)
             /\ C \notin Range(script'[u]) => copied'[u].functions <= copied'[u].bytecode
    <2> DEFINE s == script[u]
               h == copied[u].functions <= bytecode
               k == copied'[u].functions <= bytecode'
    <2>1. u \in Threads /\ s \in Seq(Steps) /\ copied[u].functions \in Nat /\ copied[u].bytecode \in Nat
        BY DEF Inv, TypeOK, Threads
    <2>2. CopyPath(s, h, FALSE) /\ Followed(s, F, C)
        BY DEF Inv, MachineRules, CopyRules
    <2>3. C \notin Range(s) => copied[u].functions <= copied[u].bytecode
        BY DEF Inv, MachineRules, SnapshotWhole
    <2>4. h \in BOOLEAN /\ k \in BOOLEAN
        OBVIOUS
    <2>5. CASE u = t
        <3>1. s # <<>> /\ script'[u] = Tail(s) /\ Next1(t) = s[1] /\ s[1] \in Steps
            BY <1>1, <2>5
        <3>2. /\ copied'[u].functions = IF s[1] = F THEN functions ELSE copied[u].functions
              /\ copied'[u].bytecode = IF s[1] = C THEN bytecode ELSE copied[u].bytecode
            BY <1>2, <2>5, <3>1 DEF CopyEffect
        <3>3. s[1] = F => functions = bytecode
            <4>1. F \in VMUses
                BY DEF VMUses, CopySteps
            <4>2. s[1] = F => owner["VM"] = t
                BY <1>1, <3>1, <4>1, HeldWhenReleased
            <4>3. t # Main
                BY <2>5, ConstantsAssumption
            <4> QED
                BY <4>2, <4>3 DEF Inv, MachineRules
        <3>4. (s[1] = F => k) /\ (h => k)
            <4> HIDE DEF s, F, C
            <4>1. s[1] = F => copied'[u].functions = functions /\ functions = bytecode
                BY <3>2, <3>3
            <4>2. s[1] # F => copied'[u].functions = copied[u].functions
                BY <3>2
            <4>3. h \/ s[1] = F => copied'[u].functions <= bytecode /\ copied'[u].functions \in Nat
                BY <1>3, <2>1, <4>1, <4>2
            <4>4. copied'[u].functions <= bytecode /\ copied'[u].functions \in Nat => k
                BY <1>3, <1>5
            <4> QED
                BY <4>3, <4>4
        <3>5. s[1] = C => h
            <4> HIDE DEF s, h, k
            <4> QED
                BY <2>1, <2>2, <2>4, <3>1, PathNow DEF CopyPath, Copyings
        <3>6. C \notin Range(Tail(s)) => copied'[u].functions <= copied'[u].bytecode
            <4> SUFFICES ASSUME C \notin Range(Tail(s)) PROVE copied'[u].functions <= copied'[u].bytecode
                OBVIOUS
            <4>1. CASE s[1] = C
                BY <1>4, <3>2, <3>5, <4>1
            <4>2. CASE s[1] # C
                <5> HIDE DEF s, F, C, h, k
                <5>1. C \notin Range(s)
                    BY <2>1, <3>1, <4>2, TailRange
                <5>2. s[1] # F
                    <6>1. s[1] = F => C \in Range(Tail(s))
                        BY <2>1, <2>2, <3>1, FollowedNow
                    <6> QED
                        BY <6>1
                <5> QED
                    BY <2>3, <3>2, <4>2, <5>1, <5>2
            <4> QED
                BY <4>1, <4>2
        <3> HIDE DEF s, h, k, F, C
        <3>7. CopyPath(Tail(s), k, FALSE)
            BY <2>1, <2>2, <2>4, <3>1, <3>4, TailPath DEF CopyPath, F
        <3>8. Followed(Tail(s), F, C)
            BY <2>1, <2>2, <3>1, TailFollowed
        <3> QED
            BY <3>1, <3>6, <3>7, <3>8 DEF k
    <2>6. CASE u # t
        <3>1. script'[u] = s
            BY <1>1, <2>1, <2>6
        <3>2. copied'[u].functions = copied[u].functions /\ copied'[u].bytecode = copied[u].bytecode
            BY <1>2, <2>6 DEF CopyEffect
        <3>3. h => k
            BY <1>3, <1>5, <2>1, <3>2
        <3> HIDE DEF s, h, k, F, C
        <3>4. CopyPath(s, k, FALSE)
            BY <2>1, <2>2, <2>4, <3>3, PathWeaker DEF CopyPath
        <3> QED
            BY <2>2, <2>3, <3>1, <3>2, <3>4 DEF k
    <2> QED
        BY <2>5, <2>6
<1> QED
    BY <1>6 DEF CopyRules, SnapshotWhole

LEMMA EffectMachine ==
    ASSUME Inv, NEW t \in Threads, Effect(t) PROVE MachineRules'
<1> SUFFICES ASSUME "eval" \notin Programs
             PROVE  /\ \A u \in Threads : VMPath(script'[u], owner'["VM"] = u, FALSE)
                    /\ owner'["VM"] # Main => functions' = bytecode'
    BY EffectCopy DEF MachineRules
<1>1. /\ ~Idle(t) /\ script[t] \in Seq(Steps) /\ script[t] # <<>> /\ script'[t] = Tail(script[t])
      /\ Next1(t) = script[t][1] /\ Next1(t) \in Steps
      /\ \A u \in Threads \ {t} : script'[u] = script[u]
    BY Advancing DEF Inv, Effect
<1>2. OwnerEffect(t, "VM") /\ CodeEffect(t)
    BY DEF Effect
<1>3. \A u \in Threads : script[u] \in Seq(Steps)
    BY DEF Inv, TypeOK
<1>4. ASSUME NEW u \in Threads PROVE VMPath(script'[u], owner'["VM"] = u, FALSE)
    <2> DEFINE s == script[u]
               h == owner["VM"] = u
               k == owner'["VM"] = u
               a == Lock("VM")
               b == Unlock("VM")
    <2>1. s \in Seq(Steps) /\ VMPath(s, h, FALSE)
        BY <1>3 DEF Inv, MachineRules
    <2>2. h \in BOOLEAN /\ k \in BOOLEAN
        OBVIOUS
    <2>3. CASE u = t
        <3>1. s # <<>> /\ script'[u] = Tail(s)
            BY <1>1, <2>3
        <3>2. (s[1] = a => k) /\ (h /\ s[1] # b => k)
            BY <1>1, <1>2, <2>3 DEF OwnerEffect
        <3> HIDE DEF s, h, k
        <3>3. VMPath(Tail(s), k, FALSE)
            BY <2>1, <2>2, <3>1, <3>2, TailPath DEF VMPath
        <3> QED
            BY <3>1, <3>3 DEF k
    <2>4. CASE u # t
        <3>1. script'[u] = s /\ (h => k)
            BY <1>1, <1>2, <2>4 DEF OwnerEffect
        <3> HIDE DEF s, h, k
        <3>2. VMPath(s, k, FALSE)
            BY <2>1, <2>2, <3>1, PathWeaker DEF VMPath
        <3> QED
            BY <3>1, <3>2 DEF k
    <2> QED
        BY <2>3, <2>4
<1>5. ASSUME owner'["VM"] # Main PROVE functions' = bytecode'
    <2>1. CASE owner["VM"] = Main
        <3>1. t = Main /\ Next1(t) = Unlock("VM")
            BY <1>2, <1>5, <2>1 DEF OwnerEffect, Threads
        <3>2. functions = bytecode
            <4> DEFINE s == script[Main]
                       e == functions = bytecode
            <4>1. s \in Seq(Steps) /\ s # <<>> /\ s[1] \in EvenSteps /\ EvenPath(s, e, TRUE) /\ e \in BOOLEAN
                BY <1>1, <3>1 DEF Inv, CodeRules, EvenSteps
            <4> HIDE DEF s, e
            <4>2. e
                BY <4>1, PathNow DEF EvenPath
            <4> QED
                BY <4>2 DEF e
        <3>3. Next1(t) # Do("add functions") /\ Next1(t) # Do("add code")
            BY <3>1 DEF Unlock, Do
        <3> QED
            BY <1>2, <3>2, <3>3 DEF CodeEffect
    <2>2. CASE owner["VM"] # Main
        <3>1. functions = bytecode
            BY <2>2 DEF Inv, MachineRules
        <3>2. Next1(t) \notin MapSteps
            <4>1. CASE t = Main
                BY <1>1, <2>2, <4>1, HeldWhenReleased DEF VMUses
            <4>2. CASE t # Main
                BY <1>1, <4>2, OnlyMain DEF MainOnly
            <4> QED
                BY <4>1, <4>2
        <3>3. Next1(t) # Do("add functions") /\ Next1(t) # Do("add code")
            BY <3>2 DEF MapSteps
        <3> QED
            BY <1>2, <3>1, <3>3 DEF CodeEffect
    <2> QED
        BY <2>1, <2>2
<1> QED
    BY <1>4, <1>5

(* Types. *)
LEMMA CodeType ==
    ASSUME Inv, NEW t \in Threads, Effect(t) PROVE functions' \in Nat /\ bytecode' \in 0..functions'
<1>1. /\ script[t] \in Seq(Steps) /\ script[t] # <<>> /\ Next1(t) = script[t][1]
    BY Advancing DEF Inv, Effect
<1>2. CodeEffect(t) /\ functions \in Nat /\ bytecode \in 0..functions
    BY DEF Effect, Inv, TypeOK
<1>3. Next1(t) = Do("add code") => functions = bytecode + 1 /\ functions' = functions
    <2> SUFFICES ASSUME Next1(t) = Do("add code") PROVE functions = bytecode + 1 /\ functions' = functions
        OBVIOUS
    <2>1. t = Main
        <3>1. ~Idle(t) /\ Next1(t) \in MapSteps
            BY DEF Effect, MapSteps
        <3> QED
            BY <3>1, OnlyMain DEF MainOnly
    <2>2. functions = bytecode + 1
        <3> DEFINE s == script[Main]
                   g == functions = bytecode + 1
        <3>1. s \in Seq(Steps) /\ s # <<>> /\ s[1] \in OddSteps /\ OddPath(s, g, FALSE) /\ g \in BOOLEAN
            BY <1>1, <2>1 DEF Inv, CodeRules, OddSteps
        <3> HIDE DEF s, g
        <3>2. g
            BY <3>1, PathNow DEF OddPath
        <3> QED
            BY <3>2 DEF g
    <2>3. Do("add code") # Do("add functions")
        BY DEF Do
    <2> QED
        BY <1>2, <2>2, <2>3 DEF CodeEffect
<1>4. CASE Next1(t) = Do("add code")
    <2>1. bytecode' = bytecode + 1 /\ functions = bytecode + 1 /\ functions' = functions
        BY <1>2, <1>3, <1>4 DEF CodeEffect
    <2> QED
        BY <1>2, <2>1
<1>5. CASE Next1(t) # Do("add code")
    <2>1. bytecode' = bytecode /\ (functions' = functions \/ functions' = functions + 1)
        BY <1>2, <1>5 DEF CodeEffect
    <2> QED
        BY <1>2, <2>1
<1> QED
    BY <1>4, <1>5

(* The types, if those of what the step changes are known. *)
LEMMA EffectType ==
    ASSUME Inv, NEW t \in Threads, Effect(t), UNCHANGED <<life, ops>>,
           owner' \in [Mutexes -> Threads \cup {Nobody}],
           copied' \in [SubThreads -> [functions : Nat, bytecode : Nat]],
           globals' \subseteq Vars, table' \in [made : BOOLEAN, has : SUBSET globals']
    PROVE  TypeOK'
<1>1. /\ life \in [SubThreads -> {"unborn", "called", "running", "leaving", "ended"}]
      /\ ops \in [Threads -> Nat] /\ \A u \in Threads : ops[u] <= Bound(u)
    BY DEF Inv, TypeOK
<1>2. /\ life' \in [SubThreads -> {"unborn", "called", "running", "leaving", "ended"}]
      /\ ops' \in [Threads -> Nat] /\ \A u \in Threads : ops'[u] <= Bound(u)
    BY <1>1
<1> QED
    BY <1>2, EffectScripts, CodeType DEF TypeOK

LEMMA StepType ==
    ASSUME Inv, NEW t \in Threads, Effect(t),
           \/ Acquire(t) \/ Release(t) \/ AddFunctions(t) \/ AddCode(t) \/ CopyFunctions(t) \/ CopyCode(t)
           \/ NewVariable(t) \/ ToTable(t) \/ (GenerateTable(t) /\ table.made) \/ FillTable(t) \/ LookUp(t)
    PROVE  TypeOK'
<1>1. /\ owner \in [Mutexes -> Threads \cup {Nobody}]
      /\ copied \in [SubThreads -> [functions : Nat, bytecode : Nat]]
      /\ globals \subseteq Vars /\ table \in [made : BOOLEAN, has : SUBSET globals]
      /\ functions \in Nat /\ bytecode \in Nat
    BY DEF Inv, TypeOK
<1>2. /\ script[t] \in Seq(Steps) /\ script[t] # <<>> /\ Next1(t) = script[t][1] /\ Next1(t) \in Steps
    BY Advancing DEF Inv, Effect
<1>3. CASE Acquire(t)
    <2>1. owner' = [owner EXCEPT ![Next1(t)[2]] = t] /\ UNCHANGED <<life, ops, Data>>
        BY <1>3 DEF Acquire
    <2>2. owner' \in [Mutexes -> Threads \cup {Nobody}]
        BY <1>1, <2>1
    <2> QED
        BY <1>1, <2>1, <2>2, EffectType DEF Data
<1>4. CASE Release(t)
    <2>1. owner' = [owner EXCEPT ![Next1(t)[2]] = Nobody] /\ UNCHANGED <<life, ops, Data>>
        BY <1>4 DEF Release
    <2>2. owner' \in [Mutexes -> Threads \cup {Nobody}]
        BY <1>1, <2>1
    <2> QED
        BY <1>1, <2>1, <2>2, EffectType DEF Data
<1>5. CASE AddFunctions(t) \/ AddCode(t) \/ (GenerateTable(t) /\ table.made) \/ LookUp(t)
    <2>1. UNCHANGED <<owner, life, ops, copied, globals, table>>
        BY <1>5 DEF AddFunctions, AddCode, GenerateTable, LookUp, Data
    <2> QED
        BY <1>1, <2>1, EffectType
<1>6. CASE CopyFunctions(t) \/ CopyCode(t)
    <2>1. UNCHANGED <<owner, life, ops, globals, table>>
        BY <1>6 DEF CopyFunctions, CopyCode
    <2>2. \/ copied' = [copied EXCEPT ![t].functions = functions]
          \/ copied' = [copied EXCEPT ![t].bytecode = bytecode]
        BY <1>6 DEF CopyFunctions, CopyCode
    <2>3. copied' \in [SubThreads -> [functions : Nat, bytecode : Nat]]
        BY <1>1, <2>2
    <2> QED
        BY <1>1, <2>1, <2>3, EffectType
<1>7. CASE NewVariable(t)
    <2>1. /\ UNCHANGED <<owner, life, ops, copied, table>> /\ globals' = globals \cup {Next1(t)[2]}
          /\ Next1(t)[1] = "new variable"
        BY <1>7 DEF NewVariable, At
    <2>2. Next1(t)[2] \in Vars
        BY <1>2, <2>1, StepNames
    <2>3. globals' \subseteq Vars /\ table' \in [made : BOOLEAN, has : SUBSET globals']
        BY <1>1, <2>1, <2>2
    <2> QED
        BY <1>1, <2>1, <2>3, EffectType
<1>8. CASE ToTable(t)
    <2>1. /\ UNCHANGED <<owner, life, ops, copied, globals>> /\ Next1(t)[1] = "to table"
          /\ table' = (IF table.made THEN [table EXCEPT !.has = @ \cup {Next1(t)[2]}] ELSE table)
        BY <1>8 DEF ToTable, At
    <2>2. PICK x \in Vars : Next1(t) = <<"to table", x>> /\ Next1(t)[2] = x
        BY <1>2, <2>1, StepNames
    <2>3. t = Main
        <3>1. <<"to table", x>> \in NewSteps
            BY DEF NewSteps
        <3>2. ~Idle(t)
            BY DEF Effect
        <3> QED
            BY <2>2, <3>1, <3>2, OnlyMain DEF MainOnly
    <2>4. x \in globals
        <3> DEFINE s == script[Main]
                   h == x \in globals
        <3>1. s \in Seq(Steps) /\ s # <<>> /\ s[1] = <<"to table", x>>
            BY <1>2, <2>2, <2>3
        <3>2. DefinedPath(s, x, h, FALSE)
            BY DEF Inv, DefinitionRules
        <3> h \in BOOLEAN
            OBVIOUS
        <3>3. <<"to table", x>> \in Addings(x)
            BY DEF Addings
        <3> HIDE DEF s, h
        <3>4. h
            BY <3>1, <3>2, <3>3, PathNow, ZenonT(60) DEF DefinedPath
        <3> QED
            BY <3>4 DEF h
    <2>5. table' \in [made : BOOLEAN, has : SUBSET globals']
        <3>1. table' = [table EXCEPT !.has = @ \cup {x}] \/ table' = table
            BY <2>1, <2>2
        <3>2. {x} \subseteq globals
            BY <2>4
        <3>3. [table EXCEPT !.has = @ \cup {x}] \in [made : BOOLEAN, has : SUBSET globals]
            BY <1>1, <3>2
        <3> QED
            BY <1>1, <2>1, <3>1, <3>3
    <2> QED
        BY <1>1, <2>1, <2>5, EffectType
<1>9. CASE FillTable(t)
    <2>1. /\ UNCHANGED <<owner, life, ops, copied, globals>>
          /\ table' = [table EXCEPT !.has = @ \cup globals]
        BY <1>9 DEF FillTable
    <2>2. table' \in [made : BOOLEAN, has : SUBSET globals']
        BY <1>1, <2>1
    <2> QED
        BY <1>1, <2>1, <2>2, EffectType
<1> QED
    BY <1>3, <1>4, <1>5, <1>6, <1>7, <1>8, <1>9

LEMMA EffectKeepsInv ==
    ASSUME Inv, NEW t \in Threads,
           \/ Acquire(t) \/ Release(t) \/ AddFunctions(t) \/ AddCode(t) \/ CopyFunctions(t) \/ CopyCode(t)
           \/ NewVariable(t) \/ ToTable(t) \/ (GenerateTable(t) /\ table.made) \/ FillTable(t) \/ LookUp(t)
    PROVE  Inv'
<1>1. Effect(t)
    BY AcquireEffect, ReleaseEffect, CodeStepEffect, CopyStepEffect, NewVariableEffect, ToTableEffect, TableStepEffect
<1>2. TypeOK'
    BY <1>1, StepType
<1>3. ScriptsKnown' /\ TableRules' /\ DefinitionRules' /\ CodeRules' /\ MachineRules'
    BY <1>1, EffectScripts, EffectTable, EffectDefinition, EffectCode, EffectMachine
<1>4. TableFull'
    BY <1>1, <1>2, EffectFull
<1> QED
    BY <1>2, <1>3, <1>4 DEF Inv

-----------------------------------------------------------------------------
(* An operation begins. *)

LEMMA LaterPaths ==
    ASSUME NEW o \in Seq(Steps)
    PROVE  /\ VarPath(o, FALSE, FALSE) => \A h \in BOOLEAN : VarPath(o, h, FALSE)
           /\ MadePath(o, FALSE, FALSE) => \A h \in BOOLEAN : MadePath(o, h, FALSE)
           /\ \A x : DefinedPath(o, x, FALSE, FALSE) => \A h \in BOOLEAN : DefinedPath(o, x, h, FALSE)
           /\ OddPath(o, FALSE, FALSE) => \A h \in BOOLEAN : OddPath(o, h, FALSE)
           /\ VMPath(o, FALSE, FALSE) => \A h \in BOOLEAN : VMPath(o, h, FALSE)
           /\ CopyPath(o, FALSE, FALSE) => \A h \in BOOLEAN : CopyPath(o, h, FALSE)
<1>1. VarPath(o, FALSE, FALSE) => \A h \in BOOLEAN : VarPath(o, h, FALSE)
    BY PathLater DEF VarPath
<1>2. MadePath(o, FALSE, FALSE) => \A h \in BOOLEAN : MadePath(o, h, FALSE)
    BY PathLater DEF MadePath
<1>3. \A x : DefinedPath(o, x, FALSE, FALSE) => \A h \in BOOLEAN : DefinedPath(o, x, h, FALSE)
    BY PathLater DEF DefinedPath
<1>4. OddPath(o, FALSE, FALSE) => \A h \in BOOLEAN : OddPath(o, h, FALSE)
    BY PathLater DEF OddPath
<1>5. VMPath(o, FALSE, FALSE) => \A h \in BOOLEAN : VMPath(o, h, FALSE)
    BY PathLater DEF VMPath
<1>6. CopyPath(o, FALSE, FALSE) => \A h \in BOOLEAN : CopyPath(o, h, FALSE)
    BY PathLater DEF CopyPath
<1> QED
    BY <1>1, <1>2, <1>3, <1>4, <1>5, <1>6

LEMMA EvenWhenIdle ==
    ASSUME NEW s \in Seq(Steps), s = <<>>, NEW h \in BOOLEAN, EvenPath(s, h, TRUE) PROVE h
    BY PathNow DEF EvenPath

LEMMA EmptyRange ==
    ASSUME NEW s, s = <<>> PROVE Range(s) = {}
    BY DEF Range

LEMMA NewScript ==
    ASSUME Inv, NEW t \in Threads, NEW o, Idle(t), script' = [script EXCEPT ![t] = o],
           UNCHANGED <<owner, Data>>, Sound(o), "eval" \notin Programs => Whole(o),
           t \in SubThreads => o \in Seq(Steps \ MainOnly),
           life' \in [SubThreads -> {"unborn", "called", "running", "leaving", "ended"}],
           ops' \in [Threads -> Nat], \A u \in Threads : ops'[u] <= Bound(u)
    PROVE  Inv'
<1>1. /\ script \in [Threads -> Seq(Steps)] /\ o \in Seq(Steps)
      /\ script[t] = <<>> /\ <<>> \in Seq(Steps)
    BY ZenonT(60) DEF Inv, TypeOK, Sound, Idle
<1>2. /\ script'[t] = o /\ \A u \in Threads \ {t} : script'[u] = script[u]
      /\ script' \in [Threads -> Seq(Steps)]
    BY <1>1
<1>3. UNCHANGED owner /\ UNCHANGED functions /\ UNCHANGED bytecode /\ UNCHANGED copied
      /\ UNCHANGED globals /\ UNCHANGED table
    BY DEF Data
<1>4. TypeOK'
    BY <1>2, <1>3 DEF Inv, TypeOK
<1>5. ScriptsKnown'
    <2> SUFFICES ASSUME NEW u \in SubThreads PROVE script'[u] \in Seq(Steps \ MainOnly)
        BY DEF ScriptsKnown
    <2>1. u \in Threads /\ script[u] \in Seq(Steps \ MainOnly)
        BY DEF Inv, ScriptsKnown, Threads
    <2> QED
        BY <1>2, <2>1
<1>6. TableRules'
    <2> SUFFICES ASSUME NEW u \in Threads
                 PROVE  VarPath(script'[u], owner["VAR"] = u, FALSE) /\ MadePath(script'[u], table.made, FALSE)
        BY <1>3 DEF TableRules
    <2>1. CASE u # t
        BY <1>2, <2>1 DEF Inv, TableRules
    <2>2. CASE u = t
        <3> DEFINE h == owner["VAR"] = u
                   m == table.made
        <3>1. VarPath(o, FALSE, FALSE) /\ MadePath(o, FALSE, FALSE)
            BY DEF Sound
        <3>2. h \in BOOLEAN
            OBVIOUS
        <3>3. m \in BOOLEAN
            BY DEF Inv, TypeOK
        <3> HIDE DEF h, m
        <3>4. VarPath(o, h, FALSE) /\ MadePath(o, m, FALSE)
            BY <1>1, <3>1, <3>2, <3>3, LaterPaths
        <3> QED
            BY <1>2, <2>2, <3>4 DEF h, m
    <2> QED
        BY <2>1, <2>2
<1>7. DefinitionRules'
    <2> SUFFICES ASSUME NEW x \in Vars
                 PROVE  /\ DefinedPath(script'[Main], x, x \in globals, FALSE)
                        /\ Followed(script'[Main], <<"new variable", x>>, <<"to table", x>>)
        BY <1>3 DEF DefinitionRules
    <2>1. CASE t # Main
        BY <1>2, <2>1 DEF Inv, DefinitionRules, Threads
    <2>2. CASE t = Main
        <3> DEFINE h == x \in globals
        <3>1. DefinedPath(o, x, FALSE, FALSE) /\ Followed(o, <<"new variable", x>>, <<"to table", x>>)
            BY DEF Sound
        <3>2. h \in BOOLEAN
            OBVIOUS
        <3> HIDE DEF h
        <3>3. DefinedPath(o, x, h, FALSE)
            BY <1>1, <3>1, <3>2, LaterPaths
        <3> QED
            BY <1>2, <2>2, <3>1, <3>3 DEF h
    <2> QED
        BY <2>1, <2>2
<1>8. TableFull'
    <2> SUFFICES ASSUME table.made, \A u \in Threads : ~At(u, "fill table")'
                 PROVE  globals \ BeingDefined' \subseteq table.has
        BY <1>3 DEF TableFull
    <2>1. \A u \in Threads : ~At(u, "fill table")
        BY <1>2 DEF At, Idle, Next1
    <2>2. globals \ BeingDefined \subseteq table.has
        BY <2>1 DEF Inv, TableFull
    <2>3. CASE t # Main
        BY <1>2, <2>2, <2>3 DEF BeingDefined, Threads
    <2>4. CASE t = Main
        <3>1. Range(script[Main]) = {}
            BY <1>1, <2>4, EmptyRange
        <3>2. BeingDefined = {}
            BY <3>1 DEF BeingDefined
        <3> QED
            BY <2>2, <3>2
    <2> QED
        BY <2>3, <2>4
<1>9. CodeRules'
    <2> SUFFICES /\ EvenPath(script'[Main], functions = bytecode, TRUE)
                 /\ OddPath(script'[Main], functions = bytecode + 1, FALSE)
        BY <1>3 DEF CodeRules
    <2> DEFINE e == functions = bytecode
               g == functions = bytecode + 1
    <2>1. EvenPath(script[Main], e, TRUE) /\ OddPath(script[Main], g, FALSE)
        BY DEF Inv, CodeRules
    <2>2. CASE t # Main
        BY <1>2, <2>1, <2>2 DEF Threads
    <2>3. CASE t = Main
        <3>1. EvenPath(o, TRUE, TRUE) /\ OddPath(o, FALSE, FALSE)
            BY DEF Sound
        <3>2. EvenPath(<<>>, e, TRUE)
            BY <1>1, <2>1, <2>3
        <3>3. e \in BOOLEAN /\ g \in BOOLEAN
            OBVIOUS
        <3> HIDE DEF e, g
        <3>4. e
            BY <1>1, <3>2, <3>3, EvenWhenIdle
        <3>5. e = TRUE
            BY <3>3, <3>4
        <3>6. EvenPath(o, e, TRUE)
            BY <3>1, <3>5
        <3>7. OddPath(o, g, FALSE)
            BY <1>1, <3>1, <3>3, LaterPaths
        <3> QED
            BY <1>2, <2>3, <3>6, <3>7 DEF e, g
    <2> QED
        BY <2>2, <2>3
<1>10. MachineRules'
    <2> SUFFICES ASSUME "eval" \notin Programs
                 PROVE  /\ \A u \in Threads : VMPath(script'[u], owner["VM"] = u, FALSE)
                        /\ owner["VM"] # Main => functions = bytecode
                        /\ CopyRules' /\ SnapshotWhole'
        BY <1>3 DEF MachineRules
    <2>1. ASSUME NEW u \in Threads PROVE VMPath(script'[u], owner["VM"] = u, FALSE)
        <3>1. CASE u # t
            BY <1>2, <3>1 DEF Inv, MachineRules
        <3>2. CASE u = t
            <4> DEFINE h == owner["VM"] = u
            <4>1. VMPath(o, FALSE, FALSE)
                BY DEF Whole
            <4>2. h \in BOOLEAN
                OBVIOUS
            <4> HIDE DEF h
            <4>3. VMPath(o, h, FALSE)
                BY <1>1, <4>1, <4>2, LaterPaths
            <4> QED
                BY <1>2, <3>2, <4>3 DEF h
        <3> QED
            BY <3>1, <3>2
    <2>2. owner["VM"] # Main => functions = bytecode
        BY DEF Inv, MachineRules
    <2>3. CopyRules'
        <3> SUFFICES ASSUME NEW u \in SubThreads
                     PROVE  /\ CopyPath(script'[u], copied[u].functions <= bytecode, FALSE)
                            /\ Followed(script'[u], Do("copy functions"), Do("copy code"))
            BY <1>3 DEF CopyRules
        <3>1. u \in Threads
            BY DEF Threads
        <3>2. CASE u # t
            BY <1>2, <3>1, <3>2 DEF Inv, MachineRules, CopyRules
        <3>3. CASE u = t
            <4> DEFINE h == copied[u].functions <= bytecode
            <4>1. CopyPath(o, FALSE, FALSE) /\ Followed(o, Do("copy functions"), Do("copy code"))
                BY DEF Sound
            <4>2. h \in BOOLEAN
                OBVIOUS
            <4> HIDE DEF h
            <4>3. CopyPath(o, h, FALSE)
                BY <1>1, <4>1, <4>2, LaterPaths
            <4> QED
                BY <1>2, <3>3, <4>1, <4>3 DEF h
        <3> QED
            BY <3>2, <3>3
    <2>4. SnapshotWhole'
        <3> SUFFICES ASSUME NEW u \in SubThreads, Do("copy code") \notin Range(script'[u])
                     PROVE  copied[u].functions <= copied[u].bytecode
            BY <1>3 DEF SnapshotWhole
        <3>1. u \in Threads
            BY DEF Threads
        <3>2. Do("copy code") \notin Range(script[u])
            <4>1. Range(script[t]) = {}
                BY <1>1, EmptyRange
            <4>2. CASE u = t
                BY <4>1, <4>2
            <4>3. CASE u # t
                BY <1>2, <3>1, <4>3
            <4> QED
                BY <4>2, <4>3
        <3> QED
            BY <3>2 DEF Inv, MachineRules, SnapshotWhole
    <2> QED
        BY <2>1, <2>2, <2>3, <2>4
<1> QED
    BY <1>4, <1>5, <1>6, <1>7, <1>8, <1>9, <1>10 DEF Inv

LEMMA OwnSteps ==
    /\ PlainSteps \subseteq Steps \ MainOnly /\ FindSteps \subseteq Steps \ MainOnly
    /\ LifeSteps \subseteq Steps \ MainOnly /\ InnerSteps \subseteq Steps \ MainOnly
<1>1. MutexSteps \subseteq Steps \ MainOnly
    BY AllSteps, PlainAreMutex DEF MainOnly
<1>2. FindSteps \subseteq Steps \ MainOnly
    BY FindNames DEF MainOnly
<1>3. LifeSteps \subseteq Steps \ MainOnly
    BY LifeNames DEF MainOnly
<1> QED
    BY <1>1, <1>2, <1>3, PlainAreMutex

LEMMA InnerSound ==
    ASSUME NEW o \in Seq(InnerSteps) PROVE Sound(o) /\ Whole(o) /\ o \in Seq(Steps \ MainOnly)
<1>1. o \in Seq(PlainSteps)
    BY PlainAreMutex, SeqMonotonic
<1>2. o \in Seq(Steps \ MainOnly)
    BY OwnSteps, SeqMonotonic
<1>3. VMPath(o, FALSE, FALSE)
    BY InnerVM
<1> QED
    BY <1>1, <1>2, <1>3, PlainSound DEF Whole

(* What any thread does keeps the rules of all sections. *)
LEMMA OperationsSound ==
    ASSUME NEW o \in Operations PROVE Sound(o) /\ Whole(o) /\ o \in Seq(Steps \ MainOnly)
<1>1. CASE \E r \in Rebuilds : o = FindVar(r)
    <2>1. Sound(o) /\ Whole(o) /\ o \in Seq(FindSteps)
        BY <1>1, FindVarSound
    <2> QED
        BY <2>1, OwnSteps, SeqMonotonic
<1>2. CASE \E r \in Rebuilds : o = FindFunction(r)
    <2>1. o \in Seq(InnerSteps)
        BY <1>2, InnerOperations
    <2> QED
        BY <2>1, InnerSound
<1>3. CASE o = FreeMemory \/ o = MoveTracked
    <2>1. o \in Seq(InnerSteps)
        BY <1>3, RebuildsInner, InnerOperations
    <2> QED
        BY <2>1, InnerSound
<1> QED
    BY <1>1, <1>2, <1>3 DEF Operations

LEMMA MainOperationsSound ==
    ASSUME NEW o \in MainOperations, globals \subseteq Vars
    PROVE  Sound(o) /\ ("eval" \notin Programs => Whole(o))
<1>1. CASE o \in Operations
    BY <1>1, OperationsSound
<1>2. CASE \E x \in Vars \ globals, r \in Rebuilds : o = NewVar(x, r)
    BY <1>2, NewVarSound
<1>3. CASE \E r \in Rebuilds : o = RunCode(r)
    BY <1>3, RunCodeSound
<1>4. CASE "eval" \in Programs /\ \E r \in Rebuilds : o = Eval(r) \o ReturnEval
    BY <1>4, RunCodeSound
<1> QED
    BY <1>1, <1>2, <1>3, <1>4 DEF MainOperations

LEMMA BeginKeepsInv ==
    ASSUME Inv, NEW t \in Threads, Begin(t) PROVE Inv'
<1>1. /\ Idle(t) /\ ops[t] < Bound(t) /\ ops' = [ops EXCEPT ![t] = @ + 1]
      /\ UNCHANGED <<owner, life, Data>>
    BY DEF Begin
<1>2. PICK o \in (IF t = Main THEN MainOperations ELSE Operations) : script' = [script EXCEPT ![t] = o]
    BY DEF Begin
<1>3. globals \subseteq Vars /\ ops \in [Threads -> Nat] /\ \A u \in Threads : ops[u] <= Bound(u)
    BY DEF Inv, TypeOK
<1>4. /\ Sound(o) /\ ("eval" \notin Programs => Whole(o))
      /\ t \in SubThreads => o \in Seq(Steps \ MainOnly)
    <2>1. CASE t = Main
        <3>1. t \notin SubThreads /\ o \in MainOperations
            BY <2>1, ConstantsAssumption
        <3> QED
            BY <1>3, <3>1, MainOperationsSound
    <2>2. CASE t # Main
        <3>1. o \in Operations
            BY <2>2
        <3> QED
            BY <3>1, OperationsSound
    <2> QED
        BY <2>1, <2>2
<1>5. life' \in [SubThreads -> {"unborn", "called", "running", "leaving", "ended"}]
    BY <1>1 DEF Inv, TypeOK
<1>6. ops' \in [Threads -> Nat] /\ \A u \in Threads : ops'[u] <= Bound(u)
    <2>1. Bound(t) \in Nat
        BY ConstantsAssumption DEF Bound
    <2>2. ops' \in [Threads -> Nat] /\ ops'[t] = ops[t] + 1 /\ \A u \in Threads \ {t} : ops'[u] = ops[u]
        BY <1>1, <1>3
    <2>3. ops'[t] <= Bound(t)
        BY <1>1, <1>3, <2>1, <2>2
    <2> QED
        BY <1>3, <2>2, <2>3
<1>7. UNCHANGED <<owner, Data>>
    BY <1>1
<1> QED
    BY <1>1, <1>2, <1>4, <1>5, <1>6, <1>7, NewScript

Lives == {"unborn", "called", "running", "leaving", "ended"}

LEMMA EnterStep ==
    ASSUME Inv, NEW t \in SubThreads, NEW from, NEW to \in Lives, NEW o,
           Enter(t, from, to, o), Sound(o), Whole(o), o \in Seq(Steps \ MainOnly)
    PROVE  Inv'
<1>1. /\ Idle(t) /\ life' = [life EXCEPT ![t] = to] /\ script' = [script EXCEPT ![t] = o]
      /\ UNCHANGED <<owner, ops, Data>>
    BY DEF Enter
<1>2. life \in [SubThreads -> Lives]
    BY DEF Inv, TypeOK, Lives
<1>3. life' \in [SubThreads -> Lives]
    BY <1>1, <1>2
<1>4. ops' \in [Threads -> Nat] /\ \A u \in Threads : ops'[u] <= Bound(u)
    BY <1>1 DEF Inv, TypeOK
<1>5. t \in Threads /\ UNCHANGED <<owner, Data>>
    BY <1>1 DEF Threads
<1> QED
    BY <1>1, <1>3, <1>4, <1>5, NewScript DEF Lives

LEMMA EnterKeepsInv ==
    ASSUME Inv, NEW t \in SubThreads, Start(t) \/ Create(t) \/ Delete(t) \/ End(t) PROVE Inv'
<1>1. "called" \in Lives /\ "running" \in Lives /\ "leaving" \in Lives /\ "ended" \in Lives
    BY DEF Lives
<1>2. CASE Start(t)
    <2>1. Callback \in Seq(Steps \ MainOnly)
        BY LifeOperations, OwnSteps, SeqMonotonic
    <2>2. Enter(t, "unborn", "called", Callback)
        BY <1>2 DEF Start
    <2> QED
        BY <1>1, <2>1, <2>2, LifeOperations, EnterStep
<1>3. CASE Create(t)
    <2>1. PICK r \in Rebuilds : Enter(t, "called", "running", CreateThreadState \o RunThreadCode(r))
        BY <1>3 DEF Create
    <2> DEFINE o == CreateThreadState \o RunThreadCode(r)
    <2>2. Sound(o) /\ Whole(o) /\ o \in Seq(LifeSteps) /\ Enter(t, "called", "running", o)
        BY <2>1, CreateSound
    <2> HIDE DEF o
    <2>3. o \in Seq(Steps \ MainOnly)
        BY <2>2, OwnSteps, SeqMonotonic
    <2> QED
        BY <1>1, <2>2, <2>3, EnterStep
<1>4. CASE Delete(t)
    <2> DEFINE e == ReturnEval
               d == DeleteThreadState
    <2>1. Sound(e) /\ Whole(e) /\ e \in Seq(PlainSteps) /\ Sound(d) /\ Whole(d) /\ d \in Seq(PlainSteps)
        BY LifeOperations
    <2>2. Enter(t, "running", "leaving", e \o d)
        BY <1>4 DEF Delete
    <2> HIDE DEF e, d
    <2>3. e \in Seq(Steps) /\ d \in Seq(Steps)
        BY <2>1, PlainAreMutex, SeqMonotonic
    <2>4. e \o d \in Seq(PlainSteps)
        BY <2>1, ConcatProperties
    <2>5. Sound(e \o d) /\ Whole(e \o d)
        BY <2>1, <2>3, CatSound, CatWhole
    <2>6. e \o d \in Seq(Steps \ MainOnly)
        BY <2>4, OwnSteps, SeqMonotonic
    <2> QED
        BY <1>1, <2>2, <2>5, <2>6, EnterStep
<1>5. CASE End(t)
    <2> DEFINE o == <<>>
    <2>1. o \in Seq(InnerSteps) /\ Enter(t, "leaving", "ended", o)
        BY <1>5 DEF End
    <2> HIDE DEF o
    <2>2. Sound(o) /\ Whole(o) /\ o \in Seq(Steps \ MainOnly)
        BY <2>1, InnerSound
    <2> QED
        BY <1>1, <2>1, <2>2, EnterStep
<1> QED
    BY <1>2, <1>3, <1>4, <1>5

(* The table is made, and is to be filled first. *)
LEMMA FillPath ==
    ASSUME NEW s \in Seq(Steps), s # <<>>, NEW f \in Steps, NEW a, NEW b, NEW W,
           NEW h \in BOOLEAN, NEW g \in BOOLEAN, NEW k \in BOOLEAN,
           Path(s, h, g, a, b, W), s[1] = a => k, h /\ s[1] # b => k,
           f \in W => k, f # b
    PROVE  Path(<<f>> \o Tail(s), k, g, a, b, W)
<1> DEFINE u == <<f>>
<1>1. Path(Tail(s), k, g, a, b, W)
    BY TailPath
<1>2. Path(u, k, k, a, b, W)
    BY OnePath
<1>3. u \in Seq(Steps) /\ Tail(s) \in Seq(Steps)
    OBVIOUS
<1> HIDE DEF u
<1>4. Path(u \o Tail(s), k, g, a, b, W)
    BY <1>1, <1>2, <1>3, CatPath
<1> QED
    BY <1>4 DEF u

LEMMA FillFollowed ==
    ASSUME NEW s \in Seq(Steps), s # <<>>, NEW f \in Steps, NEW a, NEW b, Followed(s, a, b), f # a
    PROVE  Followed(<<f>> \o Tail(s), a, b)
<1> DEFINE u == <<f>>
<1>1. Followed(Tail(s), a, b)
    BY TailFollowed
<1>2. Followed(u, a, b)
    <2>1. Len(u) = 1 /\ u[1] = f
        OBVIOUS
    <2> HIDE DEF u
    <2> QED
        BY <2>1 DEF Followed
<1>3. u \in Seq(Steps) /\ Tail(s) \in Seq(Steps)
    OBVIOUS
<1> HIDE DEF u
<1>4. Followed(u \o Tail(s), a, b)
    BY <1>1, <1>2, <1>3, CatFollowed
<1> QED
    BY <1>4 DEF u

LEMMA FillRange ==
    ASSUME NEW S, NEW s \in Seq(S), s # <<>>, NEW f \in S, NEW y \in Range(Tail(s))
    PROVE  y \in Range(<<f>> \o Tail(s))
<1> DEFINE r == Tail(s)
           u == <<f>>
<1>1. r \in Seq(S) /\ u \in Seq(S) /\ Len(u) = 1
    OBVIOUS
<1>2. y \in Range(r)
    OBVIOUS
<1> HIDE DEF r, u
<1>3. DOMAIN r = 1..Len(r) /\ DOMAIN (u \o r) = 1..Len(r) + 1 /\ Len(r) \in Nat
    <2>1. Len(r) \in Nat /\ DOMAIN r = 1..Len(r)
        BY <1>1, LenProperties
    <2>2. u \o r \in Seq(S) /\ Len(u \o r) = Len(u) + Len(r)
        BY <1>1, ConcatProperties
    <2>3. DOMAIN (u \o r) = 1..Len(u \o r)
        BY <2>2, LenProperties
    <2>4. Len(u \o r) = Len(r) + 1
        BY <1>1, <2>1, <2>2
    <2> QED
        BY <2>1, <2>3, <2>4
<1>4. PICK i \in 1..Len(r) : r[i] = y
    BY <1>2, <1>3 DEF Range
<1>5. (u \o r)[i + 1] = y
    BY <1>1, <1>3, <1>4
<1>6. i + 1 \in 1..Len(r) + 1
    BY <1>3
<1>7. y \in Range(u \o r)
    BY <1>3, <1>5, <1>6 DEF Range
<1> QED
    BY <1>7 DEF u, r

(* Whoever makes the table is to fill it next. *)
MakeTable(t, f) ==
    /\ script[t] \in Seq(Steps) /\ script[t] # <<>> /\ script[t][1] = Do("generate table")
    /\ f \in Steps /\ f = Do("fill table") /\ f[1] = "fill table"
    /\ script' \in [Threads -> Seq(Steps)] /\ script'[t] = <<f>> \o Tail(script[t])
    /\ \A u \in Threads \ {t} : script'[u] = script[u]
    /\ owner["VAR"] = t
    /\ table' \in [made : {TRUE}, has : {table.has}]
    /\ UNCHANGED <<owner, life, ops, functions, bytecode, copied, globals>>

LEMMA MakeStep ==
    ASSUME Inv, NEW t \in Threads, GenerateTable(t), ~table.made
    PROVE  MakeTable(t, Do("fill table"))
<1> DEFINE f == Do("fill table")
<1>1. ~Idle(t) /\ Next1(t)[1] = "generate table"
    BY DEF GenerateTable, At
<1>2. script \in [Threads -> Seq(Steps)] /\ table \in [made : BOOLEAN, has : SUBSET globals]
    BY DEF Inv, TypeOK
<1>3. script[t] \in Seq(Steps) /\ script[t] # <<>>
    BY <1>1, <1>2 DEF Idle
<1>4. Next1(t) = script[t][1] /\ script[t][1] \in Steps
    BY <1>3, HeadTail DEF Next1
<1>5. script[t][1] = Do("generate table")
    <2> HIDE DEF Next1
    <2> QED
        BY <1>1, <1>4, StepNames
<1>6. f \in Steps /\ f[1] = "fill table"
    BY AllSteps DEF TableSteps, Do
<1>7. /\ table' = [table EXCEPT !.made = TRUE]
      /\ script' = [script EXCEPT ![t] = <<f>> \o Tail(script[t])]
      /\ UNCHANGED <<owner, life, ops, functions, bytecode, copied, globals>>
    BY DEF GenerateTable
<1>8. <<f>> \o Tail(script[t]) \in Seq(Steps)
    <2>1. Tail(script[t]) \in Seq(Steps)
        BY <1>3, HeadTail
    <2> HIDE DEF f
    <2>2. <<f>> \in Seq(Steps)
        BY <1>6, SingleStep
    <2> QED
        BY <2>1, <2>2, ConcatProperties
<1>9. table' \in [made : {TRUE}, has : {table.has}]
    BY <1>2, <1>7
<1>10. owner["VAR"] = t
    <2>1. Next1(t) \in VarUses
        BY <1>4, <1>5 DEF VarUses, TableSteps
    <2> QED
        BY <1>1, <2>1, HeldWhenReleased
<1> HIDE DEF f
<1>11. script' \in [Threads -> Seq(Steps)] /\ script'[t] = <<f>> \o Tail(script[t])
       /\ \A u \in Threads \ {t} : script'[u] = script[u]
    BY <1>2, <1>7, <1>8
<1> QED
    BY <1>3, <1>5, <1>6, <1>7, <1>9, <1>10, <1>11 DEF MakeTable, f

LEMMA FillNames ==
    ASSUME NEW f, f[1] = "fill table"
    PROVE  /\ \A m : f # Lock(m) /\ f # Unlock(m)
           /\ \A x : f # <<"new variable", x>> /\ f # <<"to table", x>>
           /\ f # Never /\ f \notin Readings
           /\ f \notin MainOnly /\ f \notin MapSteps /\ f \notin CopySteps /\ f \notin EvenSteps
           /\ f \notin OddSteps /\ f \notin VMUses /\ f \notin Copyings
           /\ \A x : f \notin Addings(x)
<1>1. f[1] = "fill table"
    OBVIOUS
<1>2. ASSUME NEW w, NEW z, f = <<w, z>> PROVE w = "fill table"
    <2>1. <<w, z>>[1] = w
        OBVIOUS
    <2> QED
        BY <1>1, <1>2, <2>1
<1>3. \A m : f # Lock(m) /\ f # Unlock(m)
    BY <1>2 DEF Lock, Unlock
<1>4. \A x : f # <<"new variable", x>> /\ f # <<"to table", x>>
    BY <1>2
<1>5. f # Never
    BY <1>2 DEF Never
<1>6. \A w : f = Do(w) => w = "fill table"
    BY <1>2 DEF Do
<1>7. f \notin Readings /\ f \notin MapSteps /\ f \notin CopySteps /\ f \notin OddSteps /\ f \notin Copyings
    BY <1>6 DEF Readings, MapSteps, CopySteps, OddSteps, Copyings
<1>8. f \notin NewSteps
    <2> DEFINE L == {"new variable", "to table"}
    <2>1. NewSteps = L \X Vars /\ "fill table" \notin L
        BY DEF NewSteps
    <2> HIDE DEF L
    <2>2. ASSUME NEW w \in L, NEW x \in Vars PROVE f # <<w, x>>
        BY <1>2, <2>1
    <2> QED
        BY <2>1, <2>2, Pairs
<1>9. f \notin EvenSteps /\ f \notin VMUses
    BY <1>3, <1>6, <1>7 DEF EvenSteps, VMUses
<1> QED
    BY <1>3, <1>4, <1>5, <1>7, <1>8, <1>9 DEF MainOnly, Addings

LEMMA MakeScripts ==
    ASSUME Inv, NEW t \in Threads, NEW f, MakeTable(t, f) PROVE ScriptsKnown' /\ TypeOK'
<1>1. ASSUME NEW u \in SubThreads PROVE script'[u] \in Seq(Steps \ MainOnly)
    <2>1. script[u] \in Seq(Steps \ MainOnly) /\ u \in Threads
        BY DEF Inv, ScriptsKnown, Threads
    <2>2. CASE u # t
        BY <2>1, <2>2 DEF MakeTable
    <2>3. CASE u = t
        <3> DEFINE S == Steps \ MainOnly
                   s == script[u]
        <3>1. f \in S
            BY FillNames DEF MakeTable
        <3>2. s \in Seq(S) /\ s # <<>> /\ script'[u] = <<f>> \o Tail(s)
            BY <2>1, <2>3 DEF MakeTable
        <3> HIDE DEF S, s
        <3>3. Tail(s) \in Seq(S) /\ <<f>> \in Seq(S)
            BY <3>1, <3>2, HeadTail
        <3>4. script'[u] \in Seq(S)
            BY <3>2, <3>3, ConcatProperties
        <3> QED
            BY <3>4 DEF S
    <2> QED
        BY <2>2, <2>3
<1>2. table' \in [made : BOOLEAN, has : SUBSET globals']
    BY DEF Inv, TypeOK, MakeTable
<1>3. TypeOK'
    BY <1>2 DEF Inv, TypeOK, MakeTable
<1> QED
    BY <1>1, <1>3 DEF ScriptsKnown

LEMMA MakeTableRules ==
    ASSUME Inv, NEW t \in Threads, NEW f, MakeTable(t, f) PROVE TableRules'
<1>1. \A u \in Threads : script[u] \in Seq(Steps)
    BY DEF Inv, TypeOK
<1>2. table.made \in BOOLEAN /\ table'.made = TRUE
    <2>1. table' \in [made : {TRUE}, has : {table.has}]
        BY DEF MakeTable
    <2> QED
        BY <2>1 DEF Inv, TypeOK
<1>3. ASSUME NEW u \in Threads
      PROVE  VarPath(script'[u], owner'["VAR"] = u, FALSE) /\ MadePath(script'[u], table'.made, FALSE)
    <2> DEFINE s == script[u]
               h == owner["VAR"] = u
               m == table.made
    <2>1. s \in Seq(Steps) /\ VarPath(s, h, FALSE) /\ MadePath(s, m, FALSE)
        BY <1>1 DEF Inv, TableRules
    <2>2. h \in BOOLEAN /\ m \in BOOLEAN
        BY <1>2
    <2>3. owner' = owner
        BY DEF MakeTable
    <2>4. CASE u = t
        <3>1. s # <<>> /\ script'[u] = <<f>> \o Tail(s) /\ h = TRUE /\ f \in Steps
            BY <2>4 DEF MakeTable
        <3>2. s[1] # Unlock("VAR") /\ f # Unlock("VAR") /\ f # Never
            <4>1. f # Unlock("VAR") /\ f # Never
                BY FillNames DEF MakeTable
            <4>2. s[1] = Do("generate table")
                BY <2>4 DEF MakeTable
            <4>3. Do("generate table") # Unlock("VAR")
                BY DEF Do, Unlock
            <4> QED
                BY <4>1, <4>2, <4>3
        <3> HIDE DEF s, h, m
        <3>3. VarPath(<<f>> \o Tail(s), TRUE, FALSE)
            BY <2>1, <2>2, <3>1, <3>2, FillPath DEF VarPath
        <3>4. MadePath(<<f>> \o Tail(s), TRUE, FALSE)
            BY <2>1, <2>2, <3>1, <3>2, FillPath DEF MadePath
        <3> QED
            BY <1>2, <2>3, <3>1, <3>3, <3>4 DEF h
    <2>5. CASE u # t
        <3>1. script'[u] = s
            BY <2>5 DEF MakeTable
        <3> HIDE DEF s, h, m
        <3>2. MadePath(s, TRUE, FALSE)
            BY <2>1, <2>2, PathWeaker DEF MadePath
        <3> QED
            BY <1>2, <2>1, <2>3, <3>1, <3>2 DEF h
    <2> QED
        BY <2>4, <2>5
<1> QED
    BY <1>3 DEF TableRules

(* A path that the steps around have nothing to do with. *)
LEMMA MakePath ==
    ASSUME Inv, NEW t \in Threads, NEW f, MakeTable(t, f), NEW u \in Threads,
           NEW a, NEW b, NEW W, NEW h \in BOOLEAN, NEW g \in BOOLEAN,
           Path(script[u], h, g, a, b, W), a # Do("generate table"), f \notin W, f # b
    PROVE  Path(script'[u], h, g, a, b, W)
<1>1. CASE u # t
    BY <1>1 DEF MakeTable
<1>2. CASE u = t
    <2> DEFINE s == script[u]
    <2>1. s \in Seq(Steps) /\ s # <<>> /\ script'[u] = <<f>> \o Tail(s) /\ f \in Steps /\ s[1] # a
        BY <1>2 DEF MakeTable
    <2>2. Path(s, h, g, a, b, W)
        OBVIOUS
    <2> HIDE DEF s
    <2>3. Path(<<f>> \o Tail(s), h, g, a, b, W)
        BY <2>1, <2>2, FillPath
    <2> QED
        BY <2>1, <2>3
<1> QED
    BY <1>1, <1>2

LEMMA MakeFollowed ==
    ASSUME Inv, NEW t \in Threads, NEW f, MakeTable(t, f), NEW u \in Threads,
           NEW a, NEW b, Followed(script[u], a, b), f # a
    PROVE  Followed(script'[u], a, b)
<1>1. CASE u # t
    BY <1>1 DEF MakeTable
<1>2. CASE u = t
    <2> DEFINE s == script[u]
    <2>1. s \in Seq(Steps) /\ s # <<>> /\ script'[u] = <<f>> \o Tail(s) /\ f \in Steps
        BY <1>2 DEF MakeTable
    <2>2. Followed(s, a, b)
        OBVIOUS
    <2> HIDE DEF s
    <2>3. Followed(<<f>> \o Tail(s), a, b)
        BY <2>1, <2>2, FillFollowed
    <2> QED
        BY <2>1, <2>3
<1> QED
    BY <1>1, <1>2

LEMMA MakeOtherRules ==
    ASSUME Inv, NEW t \in Threads, NEW f, MakeTable(t, f)
    PROVE  DefinitionRules' /\ CodeRules' /\ TableFull'
<1>1. /\ f # Do("add code") /\ f # Do("add functions") /\ f # Never /\ f \notin EvenSteps /\ f \notin OddSteps
      /\ \A x : f # <<"new variable", x>> /\ f \notin Addings(x)
    BY FillNames DEF MakeTable, MapSteps
<1>2. /\ UNCHANGED globals /\ UNCHANGED functions /\ UNCHANGED bytecode /\ Main \in Threads
    BY DEF MakeTable, Threads
<1>3. /\ \A x : <<"new variable", x>> # Do("generate table")
      /\ Do("add code") # Do("generate table") /\ Do("add functions") # Do("generate table")
    BY DEF Do
<1>4. DefinitionRules'
    <2> SUFFICES ASSUME NEW x \in Vars
                 PROVE  /\ DefinedPath(script'[Main], x, x \in globals, FALSE)
                        /\ Followed(script'[Main], <<"new variable", x>>, <<"to table", x>>)
        BY <1>2 DEF DefinitionRules
    <2> DEFINE h == x \in globals
    <2>1. h \in BOOLEAN
        OBVIOUS
    <2>2. DefinedPath(script[Main], x, h, FALSE) /\ Followed(script[Main], <<"new variable", x>>, <<"to table", x>>)
        BY DEF Inv, DefinitionRules
    <2> HIDE DEF h
    <2>3. DefinedPath(script'[Main], x, h, FALSE)
        BY <1>1, <1>2, <1>3, <2>1, <2>2, MakePath, ZenonT(60) DEF DefinedPath
    <2>4. Followed(script'[Main], <<"new variable", x>>, <<"to table", x>>)
        BY <1>1, <1>2, <2>2, MakeFollowed
    <2> QED
        BY <2>3, <2>4 DEF h
<1>5. CodeRules'
    <2> DEFINE e == functions = bytecode
               o == functions = bytecode + 1
    <2>1. e \in BOOLEAN /\ o \in BOOLEAN /\ EvenPath(script[Main], e, TRUE) /\ OddPath(script[Main], o, FALSE)
        BY DEF Inv, CodeRules
    <2> SUFFICES EvenPath(script'[Main], e, TRUE) /\ OddPath(script'[Main], o, FALSE)
        BY <1>2 DEF CodeRules
    <2> HIDE DEF e, o
    <2>2. EvenPath(script'[Main], e, TRUE)
        BY <1>1, <1>2, <1>3, <2>1, MakePath DEF EvenPath
    <2>3. OddPath(script'[Main], o, FALSE)
        BY <1>1, <1>2, <1>3, <2>1, MakePath DEF OddPath
    <2> QED
        BY <2>2, <2>3
<1>6. TableFull'
    <2>1. At(t, "fill table")'
        <3> DEFINE s == script[t]
                   r == Tail(s)
        <3>1. s \in Seq(Steps) /\ s # <<>> /\ f \in Steps
            BY DEF MakeTable
        <3>2. r \in Seq(Steps)
            BY <3>1, HeadTail
        <3> HIDE DEF s, r
        <3>3. <<f>> \o r # <<>> /\ Head(<<f>> \o r) = f
            BY <3>1, <3>2
        <3>4. script'[t] = <<f>> \o r
            BY DEF MakeTable, r, s
        <3>5. f[1] = "fill table"
            BY DEF MakeTable, Do
        <3> QED
            BY <3>3, <3>4, <3>5 DEF At, Idle, Next1
    <2> QED
        BY <2>1 DEF TableFull
<1> QED
    BY <1>4, <1>5, <1>6

LEMMA MakeMachine ==
    ASSUME Inv, NEW t \in Threads, NEW f, MakeTable(t, f) PROVE MachineRules'
<1> SUFFICES ASSUME "eval" \notin Programs
             PROVE  /\ \A u \in Threads : VMPath(script'[u], owner'["VM"] = u, FALSE)
                    /\ owner'["VM"] # Main => functions' = bytecode'
                    /\ CopyRules' /\ SnapshotWhole'
    BY DEF MachineRules
<1>1. UNCHANGED owner /\ UNCHANGED functions /\ UNCHANGED bytecode /\ UNCHANGED copied
    BY DEF MakeTable
<1>2. f # Unlock("VM") /\ f # Never /\ f \notin VMUses /\ f \notin Copyings /\ f # Do("copy functions")
    BY FillNames DEF MakeTable, CopySteps
<1>3. Lock("VM") # Do("generate table") /\ Do("copy functions") # Do("generate table")
      /\ Do("copy code") # Do("generate table")
    BY DEF Lock, Do
<1>4. ASSUME NEW u \in Threads PROVE VMPath(script'[u], owner["VM"] = u, FALSE)
    <2> DEFINE h == owner["VM"] = u
    <2>1. h \in BOOLEAN /\ VMPath(script[u], h, FALSE)
        BY DEF Inv, MachineRules
    <2> HIDE DEF h
    <2>2. VMPath(script'[u], h, FALSE)
        BY <1>2, <1>3, <2>1, MakePath DEF VMPath
    <2> QED
        BY <2>2 DEF h
<1>5. ASSUME NEW u \in SubThreads
      PROVE  /\ CopyPath(script'[u], copied[u].functions <= bytecode, FALSE)
             /\ Followed(script'[u], Do("copy functions"), Do("copy code"))
    <2> DEFINE h == copied[u].functions <= bytecode
    <2>1. /\ CopyPath(script[u], h, FALSE)
          /\ Followed(script[u], Do("copy functions"), Do("copy code"))
        BY DEF Inv, MachineRules, CopyRules
    <2> h \in BOOLEAN /\ u \in Threads
        BY DEF Threads
    <2> HIDE DEF h
    <2>2. CopyPath(script'[u], h, FALSE)
        BY <1>2, <1>3, <2>1, MakePath DEF CopyPath
    <2>3. Followed(script'[u], Do("copy functions"), Do("copy code"))
        BY <1>2, <2>1, MakeFollowed
    <2> QED
        BY <2>2, <2>3 DEF h
<1>6. ASSUME NEW u \in SubThreads, Do("copy code") \notin Range(script'[u])
      PROVE  copied[u].functions <= copied[u].bytecode
    <2> DEFINE s == script[u]
               C == Do("copy code")
    <2>1. C \notin Range(s)
        <3>1. CASE u # t
            BY <1>6, <3>1 DEF MakeTable, Threads
        <3>2. CASE u = t
            <4>1. s \in Seq(Steps) /\ s # <<>> /\ f \in Steps /\ s[1] # C /\ script'[u] = <<f>> \o Tail(s)
                BY <1>3, <3>2 DEF MakeTable
            <4>2. C \notin Range(<<f>> \o Tail(s))
                BY <1>6, <4>1
            <4> HIDE DEF s, C
            <4>3. C \notin Range(Tail(s))
                BY <4>1, <4>2, FillRange
            <4> QED
                BY <4>1, <4>3, TailRange
        <3> QED
            BY <3>1, <3>2
    <2> QED
        BY <2>1 DEF Inv, MachineRules, SnapshotWhole
<1>7. owner["VM"] # Main => functions = bytecode
    BY DEF Inv, MachineRules
<1>8. CopyRules'
    BY <1>1, <1>5 DEF CopyRules
<1>9. SnapshotWhole'
    BY <1>1, <1>6 DEF SnapshotWhole
<1> QED
    BY <1>1, <1>4, <1>7, <1>8, <1>9

LEMMA MakeKeepsInv ==
    ASSUME Inv, NEW t \in Threads, GenerateTable(t), ~table.made PROVE Inv'
<1> DEFINE f == Do("fill table")
<1>1. MakeTable(t, f)
    BY MakeStep
<1> HIDE DEF f
<1> QED
    BY <1>1, MakeScripts, MakeTableRules, MakeOtherRules, MakeMachine DEF Inv

-----------------------------------------------------------------------------
(* The invariant. *)

LEMMA InitInv ==
    ASSUME Init PROVE Inv
<1> DEFINE e == <<>>
<1>1. e \in Seq(InnerSteps)
    OBVIOUS
<1>2. \A t \in Threads : script[t] = e
    BY DEF Init
<1> HIDE DEF e
<1>3. Sound(e) /\ Whole(e) /\ e \in Seq(Steps \ MainOnly) /\ e \in Seq(Steps)
    BY <1>1, InnerSound DEF Sound
<1>4. TypeOK
    <2>1. script \in [Threads -> Seq(Steps)]
        BY <1>2, <1>3 DEF Init
    <2>2. \A t \in Threads : ops[t] <= Bound(t)
        BY ConstantsAssumption DEF Init, Bound
    <2>3. /\ owner \in [Mutexes -> Threads \cup {Nobody}]
          /\ life \in [SubThreads -> {"unborn", "called", "running", "leaving", "ended"}]
          /\ ops \in [Threads -> Nat]
          /\ functions \in Nat /\ bytecode \in 0..functions
          /\ globals \subseteq Vars
        BY DEF Init
    <2>4. copied \in [SubThreads -> [functions : Nat, bytecode : Nat]]
        BY DEF Init
    <2>5. table \in [made : BOOLEAN, has : SUBSET globals]
        BY DEF Init
    <2> QED
        BY <2>1, <2>2, <2>3, <2>4, <2>5 DEF TypeOK
<1>5. Main \in Threads /\ (\A t \in SubThreads : t \in Threads) /\ functions = 0 /\ bytecode = 0
    BY DEF Init, Threads
<1>6. ScriptsKnown
    BY <1>2, <1>3, <1>5 DEF ScriptsKnown
<1>7. TableRules
    <2>1. ASSUME NEW t \in Threads
          PROVE  VarPath(script[t], owner["VAR"] = t, FALSE) /\ MadePath(script[t], table.made, FALSE)
        <3> DEFINE h == owner["VAR"] = t
                   m == table.made
        <3>1. h \in BOOLEAN /\ m \in BOOLEAN
            BY <1>4 DEF TypeOK
        <3> HIDE DEF h, m
        <3>2. VarPath(e, h, FALSE) /\ MadePath(e, m, FALSE)
            BY <1>3, <3>1, LaterPaths DEF Sound
        <3> QED
            BY <1>2, <3>2 DEF h, m
    <2> QED
        BY <2>1 DEF TableRules
<1>8. DefinitionRules
    <2>1. ASSUME NEW x \in Vars
          PROVE  /\ DefinedPath(script[Main], x, x \in globals, FALSE)
                 /\ Followed(script[Main], <<"new variable", x>>, <<"to table", x>>)
        <3> DEFINE h == x \in globals
        <3>1. h \in BOOLEAN
            OBVIOUS
        <3> HIDE DEF h
        <3>2. DefinedPath(e, x, h, FALSE) /\ Followed(e, <<"new variable", x>>, <<"to table", x>>)
            BY <1>3, <3>1, LaterPaths DEF Sound
        <3> QED
            BY <1>2, <1>5, <3>2 DEF h
    <2> QED
        BY <2>1 DEF DefinitionRules
<1>9. TableFull
    BY DEF Init, TableFull
<1>10. CodeRules
    <2> DEFINE c == functions = bytecode
               o == functions = bytecode + 1
    <2>1. c = TRUE /\ o \in BOOLEAN
        BY <1>5
    <2> HIDE DEF c, o
    <2>2. EvenPath(e, c, TRUE) /\ OddPath(e, o, FALSE)
        BY <1>3, <2>1, LaterPaths DEF Sound
    <2> QED
        BY <1>2, <1>5, <2>2 DEF CodeRules, c, o
<1>11. MachineRules
    <2>1. ASSUME NEW t \in Threads PROVE VMPath(script[t], owner["VM"] = t, FALSE)
        <3> DEFINE h == owner["VM"] = t
        <3>1. h \in BOOLEAN
            OBVIOUS
        <3> HIDE DEF h
        <3>2. VMPath(e, h, FALSE)
            BY <1>3, <3>1, LaterPaths DEF Whole
        <3> QED
            BY <1>2, <3>2 DEF h
    <2>2. ASSUME NEW t \in SubThreads
          PROVE  /\ CopyPath(script[t], copied[t].functions <= bytecode, FALSE)
                 /\ Followed(script[t], Do("copy functions"), Do("copy code"))
        <3> DEFINE h == copied[t].functions <= bytecode
        <3>1. h \in BOOLEAN
            OBVIOUS
        <3> HIDE DEF h
        <3>2. CopyPath(e, h, FALSE) /\ Followed(e, Do("copy functions"), Do("copy code"))
            BY <1>3, <3>1, LaterPaths DEF Sound
        <3> QED
            BY <1>2, <1>5, <3>2 DEF h
    <2>3. SnapshotWhole
        <3>1. \A t \in SubThreads : copied[t].functions <= copied[t].bytecode
            BY DEF Init
        <3> QED
            BY <3>1 DEF SnapshotWhole
    <2> QED
        BY <1>5, <2>1, <2>2, <2>3 DEF MachineRules, CopyRules
<1> QED
    BY <1>4, <1>6, <1>7, <1>8, <1>9, <1>10, <1>11 DEF Inv

LEMMA StutterKeepsInv ==
    ASSUME Inv, UNCHANGED vars PROVE Inv'
<1>1. /\ UNCHANGED owner /\ UNCHANGED script /\ UNCHANGED life /\ UNCHANGED ops /\ UNCHANGED functions
      /\ UNCHANGED bytecode /\ UNCHANGED copied /\ UNCHANGED globals /\ UNCHANGED table
    BY DEF vars
<1>2. TypeOK' /\ ScriptsKnown'
    BY <1>1 DEF Inv, TypeOK, ScriptsKnown
<1>3. TableRules' /\ DefinitionRules' /\ CodeRules'
    BY <1>1 DEF Inv, TableRules, DefinitionRules, CodeRules
<1>4. TableFull'
    BY <1>1 DEF Inv, TableFull, BeingDefined, At, Idle, Next1
<1>5. MachineRules'
    BY <1>1 DEF Inv, MachineRules, CopyRules, SnapshotWhole
<1> QED
    BY <1>2, <1>3, <1>4, <1>5 DEF Inv

LEMMA StepKeepsInv ==
    ASSUME Inv, [Next]_vars PROVE Inv'
<1>1. ASSUME NEW t \in Threads, Step(t) PROVE Inv'
    <2>1. CASE Begin(t)
        BY <2>1, BeginKeepsInv
    <2>2. CASE Acquire(t) \/ Release(t)
        BY <2>2, EffectKeepsInv
    <2>3. CASE AddFunctions(t) \/ AddCode(t) \/ CopyFunctions(t) \/ CopyCode(t)
        BY <2>3, EffectKeepsInv
    <2>4. CASE NewVariable(t) \/ ToTable(t) \/ FillTable(t) \/ LookUp(t)
        BY <2>4, EffectKeepsInv
    <2>5. CASE GenerateTable(t)
        BY <2>5, EffectKeepsInv, MakeKeepsInv
    <2>6. CASE t \in SubThreads /\ (Create(t) \/ Delete(t) \/ End(t))
        BY <2>6, EnterKeepsInv
    <2> QED
        BY <1>1, <2>1, <2>2, <2>3, <2>4, <2>5, <2>6 DEF Step
<1>2. ASSUME NEW t \in SubThreads, Start(t) PROVE Inv'
    BY <1>2, EnterKeepsInv
<1> QED
    BY <1>1, <1>2, StutterKeepsInv DEF Next

(* Whoever looks up holds the mutex of variables, and so nobody else is    *)
(* about to fill the table.                                                *)
LEMMA LookUpFinds ==
    ASSUME Inv PROVE LookupComplete
<1> SUFFICES ASSUME NEW t \in Threads, At(t, "look up") PROVE globals \ BeingDefined \subseteq table.has
    BY DEF LookupComplete
<1>1. ASSUME NEW u \in Threads, ~Idle(u), NEW w \in {"look up", "fill table"}, Next1(u)[1] = w
      PROVE  script[u] \in Seq(Steps) /\ script[u] # <<>> /\ script[u][1] = Do(w) /\ owner["VAR"] = u
    <2>1. script[u] \in Seq(Steps) /\ script[u] # <<>>
        BY <1>1 DEF Inv, TypeOK, Idle
    <2>2. Next1(u) = script[u][1] /\ script[u][1] \in Steps
        <3> DEFINE s == script[u]
        <3>1. s \in Seq(Steps) /\ s # <<>>
            BY <2>1
        <3>2. Next1(u) = Head(s)
            BY DEF Next1
        <3> HIDE DEF s
        <3>3. Head(s) = s[1] /\ s[1] \in Steps
            BY <3>1, HeadTail, HeadIsFirst
        <3> QED
            BY <3>2, <3>3 DEF s
    <2>3. script[u][1] = Do(w)
        BY <1>1, <2>2, StepNames
    <2>4. Next1(u) \in VarUses
        BY <2>2, <2>3 DEF VarUses, TableSteps
    <2>5. owner["VAR"] = u
        BY <1>1, <2>4, HeldWhenReleased
    <2> QED
        BY <2>1, <2>3, <2>5
<1>2. script[t] \in Seq(Steps) /\ script[t] # <<>> /\ script[t][1] = Do("look up") /\ owner["VAR"] = t
    BY <1>1 DEF At
<1>3. table.made
    <2> DEFINE s == script[t]
               m == table.made
    <2>1. s \in Seq(Steps) /\ s # <<>> /\ s[1] \in Readings /\ m \in BOOLEAN /\ MadePath(s, m, FALSE)
        BY <1>2 DEF Inv, TypeOK, TableRules, Readings
    <2> HIDE DEF s, m
    <2>2. m
        BY <2>1, PathNow DEF MadePath
    <2> QED
        BY <2>2 DEF m
<1>4. ASSUME NEW u \in Threads PROVE ~At(u, "fill table")
    <2> SUFFICES ASSUME At(u, "fill table") PROVE FALSE
        OBVIOUS
    <2>1. script[u][1] = Do("fill table") /\ owner["VAR"] = u
        BY <1>1 DEF At
    <2>2. Do("fill table") # Do("look up")
        BY DEF Do
    <2> QED
        BY <1>2, <2>1, <2>2
<1> QED
    BY <1>3, <1>4 DEF Inv, TableFull

THEOREM Invariance == Spec => []Inv
<1>1. Init => Inv
    BY InitInv
<1>2. Inv /\ [Next]_vars => Inv'
    BY StepKeepsInv
<1> QED
    BY <1>1, <1>2, PTL DEF Spec

-----------------------------------------------------------------------------
(* Whatever the program does, each thread holds, has yet to do and has     *)
(* copied what its kind can; no more operations are begun than the bound   *)
(* allows; eval never adds the code of a function before the function      *)
(* (vmeval.c:63), and the hash table has only variables that are in the    *)
(* list (vmvars.c:614).                                                    *)
THEOREM TypeCorrect == Spec => []TypeOK
<1>1. Inv => TypeOK
    BY DEF Inv
<1> QED
    BY <1>1, Invariance, PTL

(* Whoever looks a global variable up in the hash table finds it, unless   *)
(* its definition is not over: no thread reads the table between its       *)
(* making and its filling, and no variable gets lost between a thread that *)
(* makes the table and the main thread that adds to it (vmvars.c:305,      *)
(* 614).                                                                   *)
THEOREM LookupIsComplete == Spec => []LookupComplete
<1>1. Inv => LookupComplete
    BY LookUpFinds
<1> QED
    BY <1>1, Invariance, PTL

(* Where no eval() of the program runs while threads start, the code that  *)
(* a new thread has copied holds every function it has copied              *)
(* (vmthread.c:171): the mutex of the machine is held for both copies, and *)
(* for what code of an event adds (vmeval.c:63).                           *)
THEOREM SnapshotIsWhole ==
    ASSUME "eval" \notin Programs PROVE Spec => []SnapshotWhole
<1>1. Inv => SnapshotWhole
    BY DEF Inv, MachineRules
<1> QED
    BY <1>1, Invariance, PTL

=============================================================================
