----------------------------- MODULE VMThreads -----------------------------
(***************************************************************************)
(* The threads of a Ring program and the mutexes they share.  A thread     *)
(* that runs Ring code makes a state of its own: it locks four mutexes,    *)
(* copies the functions and the byte code of the main thread, and shares   *)
(* its global scope; then it runs, and deletes the state.  Meanwhile the   *)
(* main thread defines variables and functions.  An operation is the list  *)
(* of its steps in the order of the code: what it locks, does and unlocks. *)
(* The mutexes are those of libuv, which are not recursive.                *)
(***************************************************************************)
EXTENDS Naturals, Sequences, FiniteSets, SequencesExt

CONSTANTS
    Main,        \* the thread of the main virtual machine
    SubThreads,  \* threads of uv_thread_create()
    Vars,        \* global variables the program defines as it runs
    Nobody,      \* no thread
    MaxMainOps,  \* bound: operations of the main thread
    MaxOps,      \* bound: operations of another thread
    Programs     \* unusual shapes the program may have

Shapes == {"rebuild",  \* a hash table that is built or grows while threads run
           "tracked",  \* a list in a block dies while a variable refers to its item
           "eval"}     \* the function eval() while threads start

Threads == {Main} \cup SubThreads

ASSUME ConstantsAssumption ==
    /\ Main \notin SubThreads
    /\ Nobody \notin Threads
    /\ IsFiniteSet(SubThreads)
    /\ MaxMainOps \in Nat /\ MaxOps \in Nat
    /\ Programs \subseteq Shapes

VARIABLES
    owner,      \* the thread that holds each mutex
    script,     \* the steps each thread has yet to do of its operation
    life,       \* what each thread of SubThreads has come to
    ops,        \* operations each thread has begun
    functions,  \* how many functions eval has added to pFunctionsMap
    bytecode,   \* how many of them have their code in pByteCode
    copied,     \* the functions and the code that each thread copied
    globals,    \* variables in the list of the global scope
    table       \* its hash table: is it made, and which variables it has

vars == <<owner, script, life, ops, functions, bytecode, copied, globals, table>>

-----------------------------------------------------------------------------
(* Steps.  VM, POOL, FUNC, VAR and ITEM are pMutex, vPoolManager.pMutex    *)
(* and the custom mutexes of vm.h:21-23.                                   *)

Mutexes == {"VM", "POOL", "FUNC", "VAR", "ITEM"}

Lock(m) == <<"lock", m>>

Unlock(m) == <<"unlock", m>>

Do(what) == <<what, "">>

(* ring_state_free() of memory that the pool does not own. *)
FreeMemory == <<Lock("POOL"), Unlock("POOL")>>

(* ring_hashtable_rebuild() and _deleteitem() free memory under the mutex *)
(* of their table.                                                        *)
Rebuilds == {<<>>} \cup (IF "rebuild" \in Programs THEN {FreeMemory} ELSE {})

-----------------------------------------------------------------------------
(* Operations of the life of a thread. *)

(* uv_thread_callback() *)
Callback == <<Lock("VM"), Unlock("VM")>>

(* Variant: the code is locked before the machine. *)
CreateFunctionsFirst ==
    <<Lock("FUNC"), Lock("VM"), Lock("POOL"), Lock("VAR"), Do("copy functions"), Do("copy code"),
      Unlock("VM"), Unlock("POOL"), Unlock("FUNC"), Unlock("VAR")>>

(* ring_vm_createthreadstate() *)
CreateThreadState ==
    <<Lock("VM"), Lock("POOL"), Lock("FUNC"), Lock("VAR"), Do("copy functions"), Do("copy code"),
      Unlock("VM"), Unlock("POOL"), Unlock("FUNC"), Unlock("VAR")>>

(* Variant: a return before the end. *)
DeleteLocked == <<Lock("VM")>> \o FreeMemory

(* ring_vm_deletethreadstate(): one of many items is freed. *)
DeleteThreadState == <<Lock("VM")>> \o FreeMemory \o <<Unlock("VM")>>

(* Operations of running code. *)

(* Variant: the table is filled and read without its mutex. *)
FindVarUnlocked(rebuild) == <<Do("generate table"), Do("look up")>> \o rebuild

(* ring_vm_findvarusinghashtable() *)
FindVar(rebuild) ==
    <<Lock("VAR"), Do("generate table")>> \o rebuild \o <<Do("look up"), Unlock("VAR")>>

(* Variant: the hash table first. *)
NewVarTableFirst(x, rebuild) ==
    <<Lock("VAR"), <<"to table", x>>>> \o rebuild \o <<Unlock("VAR"), <<"new variable", x>>>>

(* ring_vm_newvar2(), ring_vm_addvarpointertoscopehash() *)
NewVar(x, rebuild) ==
    <<<<"new variable", x>>, Lock("VAR"), <<"to table", x>>>> \o rebuild \o <<Unlock("VAR")>>

(* ring_vm_findfuncusinghashtable(); the methods of mergemethods() and     *)
(* addmethod() are added under the same mutex.                             *)
FindFunction(rebuild) == <<Lock("FUNC")>> \o rebuild \o <<Unlock("FUNC")>>

(* ring_vm_eval(): the parser adds functions, then comes their code. *)
Eval(rebuild) ==
    <<Do("add functions"), Lock("FUNC")>> \o rebuild \o <<Unlock("FUNC"), Do("add code")>>

(* ring_vm_returneval() *)
ReturnEval == <<Lock("VM")>> \o FreeMemory \o <<Unlock("VM")>>

(* Variant: only the function that runs the code locks. *)
RunCodeUnlocked(rebuild) == Eval(rebuild) \o ReturnEval

(* ring_vm_runcode() *)
RunCode(rebuild) == <<Lock("VM")>> \o Eval(rebuild) \o <<Unlock("VM")>> \o ReturnEval

(* ring_state_willunregisterblock(), when it moves an item. *)
MoveTracked == <<Lock("POOL"), Lock("ITEM"), Unlock("ITEM")>> \o FreeMemory \o <<Unlock("POOL")>>

(* ring_state_runcode() of a new thread: its own functions, in its own list. *)
RunThreadCode(rebuild) ==
    <<Lock("VM"), Lock("FUNC")>> \o rebuild \o <<Unlock("FUNC"), Unlock("VM")>>

(* What any thread does at any time. *)
Operations ==
    {FindVar(r) : r \in Rebuilds} \cup {FindFunction(r) : r \in Rebuilds}
      \cup {FreeMemory}
      \cup (IF "tracked" \in Programs THEN {MoveTracked} ELSE {})

(* What the main thread does in addition: events run code, and the program *)
(* defines variables and calls eval().                                     *)
MainOperations ==
    Operations
      \cup {NewVar(x, r) : x \in Vars \ globals, r \in Rebuilds}
      \cup {RunCode(r) : r \in Rebuilds}
      \cup (IF "eval" \in Programs THEN {Eval(r) \o ReturnEval : r \in Rebuilds} ELSE {})

-----------------------------------------------------------------------------
Init ==
    /\ owner = [m \in Mutexes |-> Nobody]
    /\ script = [t \in Threads |-> <<>>]
    /\ life = [t \in SubThreads |-> "unborn"]
    /\ ops = [t \in Threads |-> 0]
    /\ functions = 0 /\ bytecode = 0
    /\ copied = [t \in SubThreads |-> [functions |-> 0, bytecode |-> 0]]
    /\ globals = {} /\ table = [made |-> FALSE, has |-> {}]

Idle(t) == script[t] = <<>>

Next1(t) == Head(script[t])

Data == <<functions, bytecode, copied, globals, table>>

Bound(t) == IF t = Main THEN MaxMainOps ELSE MaxOps

(* A thread that runs begins its next operation. *)
Begin(t) ==
    /\ Idle(t) /\ ops[t] < Bound(t)
    /\ t \in SubThreads => life[t] = "running"
    /\ \E o \in (IF t = Main THEN MainOperations ELSE Operations) :
           script' = [script EXCEPT ![t] = o]
    /\ ops' = [ops EXCEPT ![t] = @ + 1]
    /\ UNCHANGED <<owner, life, Data>>

(* The next part of the life of a thread. *)
Enter(t, from, to, o) ==
    /\ life[t] = from /\ Idle(t)
    /\ life' = [life EXCEPT ![t] = to]
    /\ script' = [script EXCEPT ![t] = o]
    /\ UNCHANGED <<owner, ops, Data>>

(* uv_thread_create(), then ring_vm_runcodefromthread(). *)
Start(t) == Enter(t, "unborn", "called", Callback)

Create(t) ==
    \E r \in Rebuilds : Enter(t, "called", "running", CreateThreadState \o RunThreadCode(r))

Delete(t) == Enter(t, "running", "leaving", ReturnEval \o DeleteThreadState)

End(t) == Enter(t, "leaving", "ended", <<>>)

Advance(t) == script' = [script EXCEPT ![t] = Tail(@)]

Acquire(t) ==
    /\ ~Idle(t) /\ Next1(t)[1] = "lock" /\ owner[Next1(t)[2]] = Nobody
    /\ owner' = [owner EXCEPT ![Next1(t)[2]] = t]
    /\ Advance(t)
    /\ UNCHANGED <<life, ops, Data>>

Release(t) ==
    /\ ~Idle(t) /\ Next1(t)[1] = "unlock"
    /\ owner' = [owner EXCEPT ![Next1(t)[2]] = Nobody]
    /\ Advance(t)
    /\ UNCHANGED <<life, ops, Data>>

-----------------------------------------------------------------------------
(* Steps on shared data. *)

At(t, what) == ~Idle(t) /\ Next1(t)[1] = what

AddFunctions(t) ==
    /\ At(t, "add functions")
    /\ functions' = functions + 1
    /\ Advance(t)
    /\ UNCHANGED <<owner, life, ops, bytecode, copied, globals, table>>

AddCode(t) ==
    /\ At(t, "add code")
    /\ bytecode' = bytecode + 1
    /\ Advance(t)
    /\ UNCHANGED <<owner, life, ops, functions, copied, globals, table>>

CopyFunctions(t) ==
    /\ At(t, "copy functions")
    /\ copied' = [copied EXCEPT ![t].functions = functions]
    /\ Advance(t)
    /\ UNCHANGED <<owner, life, ops, functions, bytecode, globals, table>>

CopyCode(t) ==
    /\ At(t, "copy code")
    /\ copied' = [copied EXCEPT ![t].bytecode = bytecode]
    /\ Advance(t)
    /\ UNCHANGED <<owner, life, ops, functions, bytecode, globals, table>>

NewVariable(t) ==
    /\ At(t, "new variable")
    /\ globals' = globals \cup {Next1(t)[2]}
    /\ Advance(t)
    /\ UNCHANGED <<owner, life, ops, functions, bytecode, copied, table>>

ToTable(t) ==
    /\ At(t, "to table")
    /\ table' = (IF table.made THEN [table EXCEPT !.has = @ \cup {Next1(t)[2]}] ELSE table)
    /\ Advance(t)
    /\ UNCHANGED <<owner, life, ops, functions, bytecode, copied, globals>>

(* ring_list_genhashtable2(): the table is there before its items. *)
GenerateTable(t) ==
    /\ At(t, "generate table")
    /\ IF table.made
       THEN Advance(t) /\ UNCHANGED table
       ELSE /\ table' = [table EXCEPT !.made = TRUE]
            /\ script' = [script EXCEPT ![t] = <<Do("fill table")>> \o Tail(@)]
    /\ UNCHANGED <<owner, life, ops, functions, bytecode, copied, globals>>

FillTable(t) ==
    /\ At(t, "fill table")
    /\ table' = [table EXCEPT !.has = @ \cup globals]
    /\ Advance(t)
    /\ UNCHANGED <<owner, life, ops, functions, bytecode, copied, globals>>

LookUp(t) ==
    /\ At(t, "look up")
    /\ Advance(t)
    /\ UNCHANGED <<owner, life, ops, Data>>

-----------------------------------------------------------------------------
(* What a thread does by itself once it was started. *)
Step(t) ==
    \/ Begin(t) \/ Acquire(t) \/ Release(t)
    \/ AddFunctions(t) \/ AddCode(t) \/ CopyFunctions(t) \/ CopyCode(t)
    \/ NewVariable(t) \/ ToTable(t) \/ GenerateTable(t) \/ FillTable(t) \/ LookUp(t)
    \/ t \in SubThreads /\ (Create(t) \/ Delete(t) \/ End(t))

Next ==
    \/ \E t \in Threads : Step(t)
    \/ \E t \in SubThreads : Start(t)

(* The operating system runs every thread that can go on.  As operations   *)
(* are bounded nobody is kept from a mutex that is free again and again.   *)
Fairness == \A t \in Threads : WF_vars(Step(t))

Spec == Init /\ [][Next]_vars /\ Fairness

-----------------------------------------------------------------------------
Steps ==
    ({"lock", "unlock"} \X Mutexes) \cup ({"new variable", "to table"} \X Vars)
      \cup ({"add functions", "add code", "copy functions", "copy code",
             "generate table", "fill table", "look up"} \X {""})

TypeOK ==
    /\ owner \in [Mutexes -> Threads \cup {Nobody}]
    /\ script \in [Threads -> Seq(Steps)]
    /\ life \in [SubThreads -> {"unborn", "called", "running", "leaving", "ended"}]
    /\ ops \in [Threads -> Nat] /\ \A t \in Threads : ops[t] <= Bound(t)
    /\ functions \in Nat /\ bytecode \in 0..functions
    /\ copied \in [SubThreads -> [functions : Nat, bytecode : Nat]]
    /\ globals \subseteq Vars
    /\ table \in [made : BOOLEAN, has : SUBSET globals]

(* Thread t waits for a mutex that u holds. *)
WaitsFor(t, u) == ~Idle(t) /\ Next1(t)[1] = "lock" /\ owner[Next1(t)[2]] = u

(* No threads wait for each other in a circle, and none for itself: the    *)
(* mutexes that starting a thread takes (vmthread.c:122) and those that    *)
(* eval and the hash tables take while others run are taken in one order.  *)
NoCircularWait ==
    \A S \in SUBSET Threads : S # {} => \E t \in S : \A u \in S : ~WaitsFor(t, u)

(* The code a new thread copies holds every function of the map it copied, *)
(* though the main thread adds both, one after the other, at any time      *)
(* (vmthread.c:171, vmeval.c:63).                                          *)
SnapshotWhole ==
    \A t \in SubThreads :
        Do("copy code") \notin Range(script[t])
            => copied[t].functions <= copied[t].bytecode

BeingDefined == {x \in Vars : <<"to table", x>> \in Range(script[Main])
                                \/ <<"new variable", x>> \in Range(script[Main])}

(* Whoever looks a variable up finds it if its definition is over: the     *)
(* table is never read half made, and a variable does not slip between a   *)
(* thread that makes the table and the one that defines it (vmvars.c:305,  *)
(* 614).                                                                   *)
LookupComplete ==
    \A t \in Threads : At(t, "look up") => globals \ BeingDefined \subseteq table.has

(* A thread that was started comes to its end and deletes its state,       *)
(* whatever the others do.                                                 *)
EveryThreadEnds == \A t \in SubThreads : life[t] = "called" ~> life[t] = "ended"
=============================================================================
