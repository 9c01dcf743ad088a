------------------------------ MODULE ScopeVars ------------------------------
(***************************************************************************)
(* Variables of scopes, and what lets the machine find them faster: an     *)
(* instruction that has looked a variable up keeps its address and the ID  *)
(* of the scope it ran in, or the position of an argument, and the lists   *)
(* that hold arguments come from a cache and go back to it.  A function    *)
(* that calls itself stands for all functions; what a variable that refers *)
(* to another one refers to is data.                                       *)
(***************************************************************************)
EXTENDS Naturals, Sequences, FiniteSets, SequencesExt

CONSTANTS
    Params,        \* the parameters of the function, in order
    Attributes,    \* the attributes of the object that braces open
    Instructions,  \* instructions that name a variable: [name, text, inc]
    CacheSize,     \* RING_VM_ARGCACHE_SIZE
    IdLimit,       \* scope IDs: 0 to IdLimit - 1, as nScopeID is unsigned
    MaxScopes,     \* bound: the global scope and nested calls
    MaxTries,      \* bound: open try blocks
    Lists,         \* bound: the lists that hold variables
    None,          \* no variable
    Attribute,     \* an attribute of the object, in whatever list
    Programs       \* unusual shapes the program may have

Shapes == {"shadow",         \* a loop's variable hides a global
           "braces",         \* braces open an object that hides a global
           "uninitialised",  \* a variable without a value is read later
           "forin_error",    \* an error leaves a for-in loop, whose variable is used on
           "argument_loop",  \* a loop's variable is an argument given by reference
           "class_error",    \* an error inside a class region
           "return_object",  \* an argument is given a new object, then returned
           "wrap_loop",      \* the IDs start again, then a for-in loop over a global calls
           "wrap_alive"}     \* the scope IDs start again during a call

Texts == {"main", "function"}

ASSUME ConstantsAssumption ==
    /\ CacheSize \in Nat /\ IdLimit \in Nat \ {0} /\ MaxScopes \in Nat /\ MaxTries \in Nat
    /\ IsFiniteSet(Lists) /\ CacheSize <= Cardinality(Lists)
    /\ None \notin Lists /\ Attribute \notin Lists /\ None # Attribute
    /\ Params \in Seq(ToSet(Params))
    /\ \A i \in Instructions : i.text \in Texts /\ i.inc \in BOOLEAN
    /\ Programs \subseteq Shapes

VARIABLES
    scopes,    \* aScopes: the lists of each scope's variables, the last is active
    heap,      \* the lists that hold variables, by address
    argCache,  \* aArgCache
    argCount,  \* nArgCacheCount
    scopeID,   \* nScopeID
    activeID,  \* nActiveScopeID
    calls,     \* aFuncCall: the nActiveScopeID of each caller
    braces,    \* for each scope: braces are open in it
    tries,     \* pTry: the states saved by open try blocks
    code,      \* the instructions as they are now
    pushed     \* the variable that the last instruction left on the stack

vars == <<scopes, heap, argCache, argCount, scopeID, activeID, calls, braces, tries, code, pushed>>

-----------------------------------------------------------------------------
Nothing == [name |-> "", var |-> None, by |-> "nothing", new |-> FALSE]

(* ref says whether a variable refers to another one: "arg" because it was *)
(* passed so, "loop" as the variable of an open for-in loop, "left" if an  *)
(* error has left the loop.                                                *)
Refs == {"no", "arg", "loop", "left"}

(* A list of the cache while nobody uses it: its name and its type are     *)
(* written when it is taken.                                               *)
CachedArg == [name |-> "", kind |-> "value", ref |-> "no", null |-> FALSE, cached |-> TRUE]

Unused == Lists \ DOMAIN heap

FirstOpcode(i) == IF i.inc THEN "INCJUMP" ELSE "LOADADDRESS"

(* The cache is full; the program's first scope is the global one, ID 0.   *)
Init ==
    /\ scopes = << <<>> >>
    /\ argCache \in {c \in [1..CacheSize -> Lists] : IsInjective(c)}
    /\ heap = [a \in ToSet(argCache) |-> CachedArg]
    /\ argCount = CacheSize
    /\ scopeID = 0 /\ activeID = 0
    /\ calls = <<>> /\ tries = <<>>
    /\ braces = <<FALSE>>
    /\ code = [i \in Instructions |->
                 [op |-> FirstOpcode(i), int |-> 0, var |-> None, kind |-> "none", tried |-> FALSE]]
    /\ pushed = Nothing

-----------------------------------------------------------------------------
(* Looking variables up. *)

VarsOf(s) == ToSet(scopes[s])
Active == Len(scopes)
InFunction == calls # <<>>

Named(s, n) == {a \in VarsOf(s) : heap[a].name = n}

(* ring_vm_findvar(): the active scope, the object of open braces, then    *)
(* the global scope.                                                       *)
Lookup(n) ==
    CASE Named(Active, n) # {}                -> CHOOSE a \in Named(Active, n) : TRUE
      [] Named(Active, n) = {} /\ braces[Active] /\ n \in Attributes -> Attribute
      [] OTHER -> IF Named(1, n) # {} THEN CHOOSE a \in Named(1, n) : TRUE ELSE None

NewVariable(n) == [name |-> n, kind |-> "none", ref |-> "no", null |-> TRUE, cached |-> FALSE]

(* ring_vm_newvar2() *)
AddVariable(n, a) ==
    /\ scopes' = [scopes EXCEPT ![Active] = Append(@, a)]
    /\ heap' = [b \in DOMAIN heap \cup {a} |-> IF b = a THEN NewVariable(n) ELSE heap[b]]

Push(n, a, by, new) == pushed' = [name |-> n, var |-> a, by |-> by, new |-> new]

-----------------------------------------------------------------------------
(* Instructions that replace themselves. *)

(* Variant: an argument is taken for any variable at its position. *)
ArgPositionOff(a) == {x \in 1..Len(Params) : x < Len(scopes[Active]) /\ scopes[Active][x + 1] = a}

ArgPosition(a) == {x \in 1..Len(Params) : x <= Len(scopes[Active]) /\ scopes[Active][x] = a}

(* What ring_vm_loadaddress() makes of an instruction that found a.  A     *)
(* reference and an attribute leave it as it is.  "inside" says that a     *)
(* for loop is open, which is judged from the last call even if that one   *)
(* has only been loaded.                                                   *)
Specialised(ins, a, inside) ==
    CASE a \in VarsOf(1) ->
            [ins EXCEPT !.op = "PUSHP", !.int = activeID, !.var = a]
      [] a \notin VarsOf(1) /\ inside ->
            [ins EXCEPT !.op = "PUSHPLOCAL", !.int = activeID, !.var = a]
      [] a \notin VarsOf(1) /\ ~inside /\ ~ins.tried /\ ArgPosition(a) # {} ->
            [ins EXCEPT !.op = "PUSHARG", !.int = CHOOSE x \in ArgPosition(a) : TRUE,
                        !.kind = heap[a].kind, !.tried = TRUE]
      [] OTHER -> [ins EXCEPT !.tried = TRUE]

CanKeep(a) == a # Attribute /\ heap[a].ref = "no"

(* ring_vm_loadaddress(), on the instructions c. *)
LoadAddress(c, i, inside) ==
    LET a == Lookup(i.name) IN
    \/ /\ a = None
       /\ \E b \in Unused : AddVariable(i.name, b) /\ Push(i.name, b, "lookup", TRUE)
       /\ code' = c
    \/ /\ a # None
       /\ Push(i.name, a, "lookup", FALSE)
       /\ code' = IF CanKeep(a) THEN [c EXCEPT ![i] = Specialised(@, a, inside)] ELSE c
       /\ UNCHANGED <<scopes, heap>>

(* Variant: a kept address is good for the scopes of all calls. *)
AnyScope(ins) == TRUE

(* "Check Scope Life Time" *)
SameScope(ins) == ins.int = activeID

(* What an instruction kept is pushed as it is.  The instructions in the   *)
(* body of a for-in loop see its variable as a reference and keep nothing, *)
(* and the others see it again when the loop is over.                      *)
PushKept(i, a) ==
    /\ a \in DOMAIN heap /\ heap[a].ref = "loop"
         => a \notin VarsOf(Active) /\ "wrap_loop" \in Programs
    /\ Push(i.name, a, "cache", FALSE)
    /\ UNCHANGED <<scopes, heap, code>>

(* ring_vm_pushp(), ring_vm_pushplocal() *)
PushVarPtr(i, inside) ==
    /\ code[i].op \in {"PUSHP", "PUSHPLOCAL"}
    /\ IF SameScope(code[i])
       THEN PushKept(i, code[i].var)
       ELSE LoadAddress([code EXCEPT ![i].op = "LOADADDRESS", ![i].var = None], i, inside)

(* ring_vm_pusharg() *)
PushArg(i, inside) ==
    LET a == scopes[Active][code[i].int] IN
    /\ code[i].op = "PUSHARG"
    /\ IF heap[a].kind = code[i].kind
       THEN PushKept(i, a)
       ELSE LoadAddress([code EXCEPT ![i].op = "LOADADDRESS", ![i].tried = FALSE], i, inside)

(* ring_vm_incjump().  A for loop has made a variable of the active scope  *)
(* and given it a number, so this one is found.                            *)
IncJump(i) ==
    LET a == Lookup(i.name)
        global == a \in VarsOf(1)
    IN  /\ Push(i.name, a, "lookup", FALSE)
        /\ code' = [code EXCEPT ![i].op = IF global THEN "INCPJUMP" ELSE "INCLPJUMP",
                                ![i].int = IF global THEN @ ELSE activeID,
                                ![i].var = a]
        /\ UNCHANGED <<scopes, heap>>

HasNumber(n) == \E a \in Named(Active, n) : heap[a].ref = "no" /\ ~heap[a].null

(* ring_vm_incpjump() and ring_vm_inclpjump(): the former checks no scope. *)
Increment(i) ==
    /\ i.inc /\ HasNumber(i.name)
    /\ \/ code[i].op = "INCJUMP" /\ IncJump(i)
       \/ /\ code[i].op \in {"INCPJUMP", "INCLPJUMP"}
          /\ IF code[i].op = "INCPJUMP" \/ SameScope(code[i])
             THEN PushKept(i, code[i].var)
             ELSE IncJump(i)

(* The instructions of the text that runs now. *)
Running == {i \in Instructions : i.text = (IF InFunction THEN "function" ELSE "main")}

Execute(i, inside) ==
    /\ \/ code[i].op = "LOADADDRESS" /\ LoadAddress(code, i, inside)
       \/ PushVarPtr(i, inside)
       \/ PushArg(i, inside)
       \/ Increment(i)
    /\ UNCHANGED <<argCache, argCount, scopeID, activeID, calls, braces, tries>>

-----------------------------------------------------------------------------
(* Deleting scopes. *)

(* The places of variables: the scope, and the position in it. *)
Places(scs) == UNION {{k} \X DOMAIN scs[k] : k \in DOMAIN scs}

At(scs, p) == scs[p[1]][p[2]]

(* Variant: the first variable of a scope is not looked at. *)
CachedButFirst(scs, n, h, hidden) ==
    {p \in Places(scs) : p[1] \in n + 1 .. Len(scs) - hidden /\ p[2] > 1 /\ h[At(scs, p)].cached}

(* Where lists of the cache are in the scopes after n. *)
CachedPlaces(scs, n, h, hidden) ==
    {p \in Places(scs) : p[1] \in n + 1 .. Len(scs) - hidden /\ h[At(scs, p)].cached}

(* From the last scope on, and in each from its last variable on. *)
NoLater(p, q) == p[1] > q[1] \/ (p[1] = q[1] /\ p[2] >= q[2])

(* The variables at these places in that order. *)
LastToFirst(scs, places) ==
    LET nth(k) == CHOOSE p \in places : Cardinality({q \in places : NoLater(q, p)}) = k
    IN  [k \in 1..Cardinality(places) |-> At(scs, nth(k))]

(* The variables of the scopes after n. *)
VarsAfter(scs, n) == {At(scs, p) : p \in {q \in Places(scs) : q[1] > n}}

(* Variant: scopes are cut without a look at what they hold. *)
DeleteScopesOnly(scs, n, h, count, hidden) ==
    /\ scopes' = SubSeq(scs, 1, n)
    /\ argCount' = count /\ UNCHANGED argCache
    /\ heap' = [a \in {b \in DOMAIN h : h[b].cached \/ b \notin VarsAfter(scs, n)} |-> h[a]]

(* ring_vm_deletescope() until n scopes are left: lists of the cache go    *)
(* back to it, the others are freed.  Those of the last "hidden" scopes    *)
(* are not looked at, but the cache's lists are never freed.               *)
DeleteScopes(scs, n, h, count, hidden) ==
    LET back == LastToFirst(scs, CachedPlaces(scs, n, h, hidden))
        gone == {a \in VarsAfter(scs, n) : ~h[a].cached}
    IN  /\ scopes' = SubSeq(scs, 1, n)
        /\ argCount' = count + Len(back)
        /\ argCache' = [k \in 1..CacheSize |->
                          IF k \in count + 1 .. count + Len(back) THEN back[k - count] ELSE argCache[k]]
        /\ heap' = [a \in DOMAIN h \ gone |-> IF a \in ToSet(back) THEN CachedArg ELSE h[a]]

(* An error leaves the for-in loops that began after the try block did,    *)
(* but their variables go on as references.                                *)
AfterError(scs, h) ==
    LET t == Last(tries) IN
    [a \in DOMAIN h |->
        IF a \in ToSet(scs[t.scopes]) \ t.loops /\ h[a].ref = "loop"
        THEN [h[a] EXCEPT !.ref = "left"] ELSE h[a]]

(* ring_vm_catch(): ring_vm_restorestate() of what the try block saved.    *)
(* Without a try block an error ends the program.                          *)
Catch(scs, h, count, hidden) ==
    LET t == Last(tries) IN
    /\ tries # <<>>
    /\ AfterError(scs, h) # h => "forin_error" \in Programs
    /\ DeleteScopes(scs, t.scopes, AfterError(scs, h), count, hidden)
    /\ calls' = SubSeq(calls, 1, t.scopes - 1)
    /\ braces' = [SubSeq(braces, 1, t.scopes) EXCEPT ![t.scopes] = t.brace]
    /\ activeID' = t.activeID
    /\ tries' = Front(tries)
    /\ pushed' = Nothing

(* The variables of the for-in loops that are open in the active scope. *)
Loops == {a \in VarsOf(Active) : heap[a].ref = "loop"}

Try ==
    /\ Len(tries) < MaxTries
    /\ tries' = Append(tries, [scopes |-> Active, activeID |-> activeID, brace |-> braces[Active],
                              loops |-> Loops])
    /\ pushed' = Nothing
    /\ UNCHANGED <<scopes, heap, argCache, argCount, scopeID, activeID, calls, braces, code>>

InThisScope(t) == t.scopes = Active

(* ring_vm_done() *)
Done ==
    /\ tries # <<>> /\ InThisScope(Last(tries))
    /\ braces[Active] = Last(tries).brace /\ Loops = Last(tries).loops
    /\ tries' = Front(tries)
    /\ pushed' = Nothing
    /\ UNCHANGED <<scopes, heap, argCache, argCount, scopeID, activeID, calls, braces, code>>

(* An error.  In a class region pActiveMem is the new object, so the first *)
(* scope that is deleted is not looked at: the object is, in its place.    *)
Raise(classRegion) ==
    /\ tries # <<>>
    /\ classRegion => "class_error" \in Programs
    /\ Catch(scopes, heap, argCount,
             IF classRegion /\ Active > Last(tries).scopes THEN 1 ELSE 0)
    /\ UNCHANGED <<scopeID, code>>

-----------------------------------------------------------------------------
(* Calls. *)

NextID == (scopeID + 1) % IdLimit

(* Variant: nothing happens when the IDs start again. *)
KeepAll(c) == c

(* ring_vm_afterscopeidoverflow() *)
AfterOverflow(c) ==
    [i \in Instructions |->
        CASE c[i].op = "PUSHPLOCAL" -> [c[i] EXCEPT !.op = "LOADADDRESS", !.var = None]
          [] c[i].op = "INCLPJUMP"  -> [c[i] EXCEPT !.op = "INCJUMP"]
          [] OTHER -> c[i]]

(* Variant: the cache gives all arguments of a call its last list. *)
ArgListsSame(n, fresh) ==
    [x \in 1..n |-> IF x <= argCount THEN argCache[argCount] ELSE fresh[x - argCount]]

(* The lists for the first n arguments that ring_vm_newfunc() adds, from   *)
(* the last one on: from the cache while it has some.                      *)
ArgLists(n, fresh) ==
    [x \in 1..n |-> IF x <= argCount THEN argCache[argCount - x + 1] ELSE fresh[x - argCount]]

Fresh(n) == {s \in [1..(IF n > argCount THEN n - argCount ELSE 0) -> Unused] : IsInjective(s)}

(* ring_vm_addstringarg(), ring_vm_addnumberarg(), ring_vm_addpointerarg() *)
WithArgs(args, kinds) ==
    [a \in DOMAIN heap \cup ToSet(args) |->
        IF a \notin ToSet(args) THEN heap[a]
        ELSE LET x == CHOOSE y \in DOMAIN args : args[y] = a IN
             [name |-> Params[Len(Params) - x + 1], kind |-> kinds[x],
              ref |-> IF kinds[x] = "pointer" THEN "arg" ELSE "no", null |-> FALSE, cached |-> a \in DOMAIN heap]]

Left(n) == IF n > argCount THEN 0 ELSE argCount - n

(* ring_vm_newfunc() before the parameters: a scope and its ID. *)
NewScope ==
    /\ Active < MaxScopes
    /\ NextID = 0 /\ InFunction => "wrap_alive" \in Programs
    /\ scopeID' = NextID
    /\ code' = IF NextID = 0 THEN AfterOverflow(code) ELSE code

(* A call with as many arguments as there are parameters. *)
Call(kinds) ==
    /\ NewScope
    /\ \E fresh \in Fresh(Len(Params)) :
         LET args == ArgLists(Len(Params), fresh) IN
         /\ scopes' = Append(scopes, args)
         /\ heap' = WithArgs(args, kinds)
    /\ argCount' = Left(Len(Params))
    /\ activeID' = NextID
    /\ calls' = Append(calls, activeID)
    /\ braces' = Append(braces, FALSE)
    /\ pushed' = Nothing
    /\ UNCHANGED <<argCache, tries>>

(* A call with fewer or more: an error after n arguments were added. *)
CallFails(n) ==
    /\ NewScope
    /\ \E fresh \in Fresh(n) :
         LET args == ArgLists(n, fresh) IN
         Catch(Append(scopes, args), WithArgs(args, [x \in 1..n |-> "value"]), Left(n), 0)

(* ring_vm_return().  When the result is an object whose variable is one   *)
(* of the function's, the variable's list changes places, flags included,  *)
(* with a temporary one, which is nobody's argument.                       *)
Return(swapped) ==
    /\ InFunction
    /\ \A k \in DOMAIN tries : ~InThisScope(tries[k])
    /\ swapped # {} => "return_object" \in Programs
    /\ DeleteScopes(scopes, Active - 1,
                    [a \in DOMAIN heap |-> IF a \in swapped THEN [heap[a] EXCEPT !.cached = FALSE] ELSE heap[a]],
                    argCount, 0)
    /\ activeID' = Last(calls)
    /\ calls' = Front(calls)
    /\ braces' = Front(braces)
    /\ pushed' = Nothing
    /\ UNCHANGED <<scopeID, tries, code>>

-----------------------------------------------------------------------------
(* What the program does with variables. *)

(* ring_vm_assignment() to the variable loaded last. *)
Assign ==
    /\ pushed.var \in DOMAIN heap /\ heap[pushed.var].null
    /\ heap' = [heap EXCEPT ![pushed.var].null = FALSE]
    /\ pushed' = Nothing
    /\ UNCHANGED <<scopes, argCache, argCount, scopeID, activeID, calls, braces, tries, code>>

(* ring_vm_pushv() of a variable that has no value: ring_vm_checknull()    *)
(* deletes it if it is the last of its scope, and an error follows.  After *)
(* an instruction that kept the address the value is not checked.          *)
ReadNull ==
    LET last == scopes[Active] # <<>> /\ Last(scopes[Active]) = pushed.var
        rest == [scopes EXCEPT ![Active] = Front(@)]
    IN  /\ pushed.by = "lookup" /\ pushed.var \in DOMAIN heap /\ heap[pushed.var].null
        /\ last => pushed.new \/ "uninitialised" \in Programs
        /\ IF last THEN Catch(rest, [a \in DOMAIN heap \ {pushed.var} |-> heap[a]], argCount, 0)
                   ELSE Catch(scopes, heap, argCount, 0)
        /\ UNCHANGED <<scopeID, code>>

Hides(n) == Named(Active, n) = {} /\ Lookup(n) # None

(* A for or a for-in loop starts: ring_vm_loadaddressfirst() looks in the  *)
(* active scope only; the variable is given a number, or                   *)
(* ring_vm_setreference() makes it a reference.                            *)
StartLoop(n, in) ==
    LET Started(v) == [v EXCEPT !.ref = IF in THEN "loop" ELSE "no", !.null = FALSE] IN
    /\ Hides(n) => "shadow" \in Programs
    /\ IF Named(Active, n) # {}
       THEN \E a \in Named(Active, n) :
            /\ heap[a].ref # "loop"
            /\ heap[a].ref = "arg" => "argument_loop" \in Programs
            /\ heap' = [heap EXCEPT ![a] = Started(@)]
            /\ UNCHANGED scopes
       ELSE \E a \in Unused :
            /\ scopes' = [scopes EXCEPT ![Active] = Append(@, a)]
            /\ heap' = [b \in DOMAIN heap \cup {a} |-> IF b = a THEN Started(NewVariable(n)) ELSE heap[b]]
    /\ pushed' = Nothing
    /\ UNCHANGED <<argCache, argCount, scopeID, activeID, calls, braces, tries, code>>

(* ring_vm_gc_killreference() at the end of a for-in loop. *)
EndForIn(n) ==
    /\ \E a \in Named(Active, n) :
         /\ heap[a].ref = "loop"
         /\ \A k \in DOMAIN tries : InThisScope(tries[k]) => a \notin tries[k].loops
         /\ heap' = [heap EXCEPT ![a].ref = "no"]
    /\ pushed' = Nothing
    /\ UNCHANGED <<scopes, argCache, argCount, scopeID, activeID, calls, braces, tries, code>>

(* ring_vm_oop_bracestart(), ring_vm_oop_braceend() *)
OpenBraces ==
    /\ ~braces[Active] /\ Attributes # {}
    /\ (InFunction /\ \E n \in Attributes : Named(1, n) # {} /\ Named(Active, n) = {})
         => "braces" \in Programs
    /\ braces' = [braces EXCEPT ![Active] = TRUE]
    /\ pushed' = Nothing
    /\ UNCHANGED <<scopes, heap, argCache, argCount, scopeID, activeID, calls, tries, code>>

CloseBraces ==
    /\ braces[Active]
    /\ \A k \in DOMAIN tries : InThisScope(tries[k]) => ~tries[k].brace
    /\ braces' = [braces EXCEPT ![Active] = FALSE]
    /\ pushed' = Nothing
    /\ UNCHANGED <<scopes, heap, argCache, argCount, scopeID, activeID, calls, tries, code>>

-----------------------------------------------------------------------------
Names == {i.name : i \in Instructions}
Kinds == [1..Len(Params) -> {"value", "pointer"}]

(* The arguments of the active scope that lists of the cache hold. *)
CachedArgs == {a \in VarsOf(Active) : heap[a].cached}

Next ==
    \/ \E i \in Running, inside \in BOOLEAN : Execute(i, inside)
    \/ Try \/ Done \/ \E region \in BOOLEAN : Raise(region)
    \/ \E kinds \in Kinds : Call(kinds)
    \/ \E n \in 0..Len(Params) : CallFails(n)
    \/ \E swapped \in {{}} \cup {{a} : a \in CachedArgs} : Return(swapped)
    \/ Assign \/ ReadNull
    \/ \E i \in Running, in \in BOOLEAN : StartLoop(i.name, in)
    \/ \E i \in Running : EndForIn(i.name)
    \/ OpenBraces \/ CloseBraces

Spec == Init /\ [][Next]_vars

-----------------------------------------------------------------------------
(* Properties. *)

Variable == [name : Names \cup ToSet(Params) \cup {""}, kind : {"none", "value", "pointer"},
             ref : Refs, null : BOOLEAN, cached : BOOLEAN]
Opcodes == {"LOADADDRESS", "PUSHP", "PUSHPLOCAL", "PUSHARG", "INCJUMP", "INCPJUMP", "INCLPJUMP"}

(* Every scope holds lists that are there, each in one place of one scope. *)
TypeOK ==
    /\ DOMAIN heap \subseteq Lists /\ \A a \in DOMAIN heap : heap[a] \in Variable
    /\ scopes \in Seq(Seq(Lists)) /\ Len(scopes) = Len(calls) + 1 /\ Len(braces) = Len(scopes)
    /\ \A p \in Places(scopes) : At(scopes, p) \in DOMAIN heap
    /\ \A p, q \in Places(scopes) : At(scopes, p) = At(scopes, q) => p = q
    /\ argCache \in [1..CacheSize -> Lists] /\ argCount \in 0..CacheSize
    /\ scopeID \in 0..IdLimit - 1 /\ activeID \in 0..IdLimit - 1
    /\ \A i \in Instructions : code[i].op \in Opcodes

(* An instruction that kept an address or a position leaves the variable   *)
(* on the stack that looking the name up would: the order of scopes holds  *)
(* however often the instruction ran before, and in whatever calls.  Only  *)
(* looking it up goes on to what a variable refers to, so it is no         *)
(* reference.                                                              *)
LoadIsLookup ==
    pushed.by # "nothing" =>
        /\ pushed.var = Lookup(pushed.name)
        /\ pushed.by = "cache" => heap[pushed.var].ref = "no"

(* What an instruction would use without looking it up is a variable of    *)
(* the active scope or of the global one: nothing that a call, an error or *)
(* a read without value deleted, even after the scope IDs started again.   *)
KeptAlive ==
    \A i \in Running :
        /\ code[i].op \in {"PUSHP", "PUSHPLOCAL", "INCLPJUMP"} /\ code[i].int = activeID
             => code[i].var \in VarsOf(Active) \cup VarsOf(1)
        /\ code[i].op = "INCPJUMP" => code[i].var \in VarsOf(1)

(* A list of the cache is free to be taken or holds an argument of one     *)
(* scope: it is neither lost nor given to two calls.                       *)
CacheExact ==
    LET free == {argCache[k] : k \in 1..argCount}
        used == {a \in VarsAfter(scopes, 0) : heap[a].cached}
    IN  /\ Cardinality(free) = argCount
        /\ free \cap VarsAfter(scopes, 0) = {}
        /\ argCount + Cardinality(used) = CacheSize

(* ring_vm_deleteargcache() deletes what is in all places of the array,    *)
(* whatever calls the program ends in: each list is there, and once.       *)
SlotsDistinct ==
    /\ \A k \in 1..CacheSize : argCache[k] \in DOMAIN heap /\ heap[argCache[k]].cached
    /\ IsInjective(argCache)
=============================================================================
