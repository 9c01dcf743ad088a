# A verification development for MonoRing

MonoRing is the Ring programming language: a scanner and parser that emit
bytecode, and a virtual machine that runs it, with its own lists, reference
counting, memory pool and threads. This directory holds TLA+ models of the
machine, the TLC configurations that check them on small instances, and proofs
checked by TLAPS for every instance. Paths are relative to the repository;
`vmexit.c` and the like are in `language/src`, headers in `language/include`.

To check a model: `tlc -config VMControl_text.cfg VMControl`. To check the
proofs: `tlapm` on each module whose name ends in `Proofs`.

## Inventory

| component | state | operations | files |
|---|---|---|---|
| control flow of the machine | `pExitMark`, `pLoopMark`, `pForStep`, `pTry`, `lOptionalLoop`, the saved states in them | `exit n`, `loop n`, loop entry/step/end, try/catch/done, reporting an error | `vmexit.c` `vmtry.c` `vmjump.c` `vmerror.c` `vmstate.c` |
| calls and scopes | `aFuncCall`, `aScopes`/`nCurrentScope`, `nSP`, `nFuncSP` | load, call, start, return, C functions | `vmfuncs.c` `vmvars.c` `vmstack.c` |
| variables of scopes | `aScopes`, `aArgCache`/`nArgCacheCount`, `nScopeID`, `nActiveScopeID`, what instructions keep | find, create and delete a variable, pass arguments, delete a scope | `vmvars.c` `vmstack.c` `vmperf.c` |
| code generation | the emitted bytecode | which instructions a loop, exit, try or return becomes | `stmt.c` |
| lists | `List` (`pFirst`, `pLast`, `nSize`, cache, array, hash table), `Items`, `Item` | add, insert, delete, set, read, swap, array, copy, sort | `rlist.c` `ritems.c` `list_e.c` |
| references to items | `nGCReferenceCount`, `pTrackedVariables`, blocks of items | reference, release, move before a block is freed | `vmgc.c` `ringapi.c` |
| references to lists | `nReferenceCount`, `lNewRef`, `pDeleteLater` | `ref()`, assign, copy, delete, collect cycles | `vmgc.c` `vmlists.c` |
| memory pool | the free lists of each state, the bounds of the main state's block | allocate, free, reallocate, give items to a thread, take them back | `vmgc.c` |
| threads | mutexes of the VM and of the pool, shared scope and tables, copied functions and code | create and delete a thread's state, run code in it | `vmthread.c` `ring_libuv_extension.c` |
| instruction dispatch | `nPC`, `pByteCode`, rewritten opcodes | fetch, dispatch, specialise | `vm.c` `vmperf.c` |
| eval | `pByteCode`, `nEvalReturnPC`, `nInsideEval` | compile and run text, grow the bytecode | `vmeval.c` `codegen.c` |
| objects and braces | `pObjState`, `pBraceObject`, `aBraceObjects` | new, method calls, braces | `vmoop.c` |
| lists under definition | `nListStart`, `pNestedLists` | start, item, end | `vmlists.c` |
| hash tables | buckets, `nRebuildSize` | insert, find, delete, rebuild | `rhtable.c` |
| front end, strings, files, extensions | — | sequential text processing, I/O, wrappers of libraries | the rest |

**How they interact.** Control flow and calls share the value stack and the
scopes; every jump that leaves blocks restores a state saved earlier by another
part (`ring_vm_savestate` / `ring_vm_restorestate`), so each jump cuts many
independent lists to recorded sizes. The machine keeps its own lists (marks,
tries, variables) in the same `List` it gives to programs, so list insertions
happen underneath everything. Items are shared between lists and variables by
reference counts. Threads are separate machines which share bytecode, C
functions, the global scope and the memory pool's blocks, behind mutexes.

**What is hard.**

* *Sequences of legal commands that leave the lists disagreeing.* No single
  structure says which blocks are open. `exit n` counts marks, steps are counted
  in loops, `return` cuts marks to sizes in the call, a catch cuts everything to
  sizes in the try entry. Most tests use one of these at a time.
* *Errors in the middle.* An error unwinds inside an instruction which then
  continues; what it does after the error is done to the catch block's state.
* *Limits.* Calls, scopes and operands live in fixed arrays with checks written
  in three places and with different comparisons.
* *Stale positions.* A list read moves a cache; a write uses what a read left. An
  instruction keeps the address of a variable; the variable goes, or another comes
  before it.
* *Two owners of a block.* Link and item are one allocation with two lifetimes.
* *Threads.* Counts read and written in separate critical sections, mutexes
  taken in several orders, memory freed by a thread that did not allocate it.

**What makes each part correct.** Control flow: each list holds exactly what is
open in the text, and together they behave as one stack of blocks. Calls: scopes
match started calls, operands survive, arrays are not overrun. Lists: reading
position n yields the n-th item by every route; a list is a sequence. References: an
item or a list is there while the program can reach it and gone when it cannot; counts
are exact. Variables: a name means the same however it is looked up, and lists of
arguments are neither lost nor shared. Pool: memory is in one free list or in use, never both. Threads: what they
share is whole when it is read, no circle of them waits, and each one ends.
`PROJECT.json` lists the hazards line by line with the properties that cover them.

## Modules

| module | models | checked with |
|---|---|---|
| `VMControl` | loops, exit/loop, try/catch, errors, calls, the value stack | `VMControl_*.cfg` |
| `ControlStack` | what a program sees of it: one stack of open blocks | as a property of `VMControl` |
| `VMControlProofs` | theorems about `VMControl`: types, the pairing of the mark lists | TLAPS |
| `VMControlBlocksProofs` | theorems about `VMControl`: what marks, tries, steps and scopes stand for, and the limits | TLAPS |
| `RingList` | a list down to its pointers, its cache and its memory | `RingList_*.cfg` |
| `ListSeq` | what a list promises: a sequence | as a property of `RingList` |
| `RingListProofs` | theorems about `RingList`, the refinement among them | TLAPS |
| `TrackedRefs` | variables that refer to items in blocks of memory | `TrackedRefs_moves.cfg` |
| `TrackedRefsProofs` | theorems about `TrackedRefs` | TLAPS |
| `ListRefs` | lists shared by reference, and cycles of them | `ListRefs_*.cfg` |
| `MemoryPool` | items and their memory, shared by threads | `MemoryPool_threads.cfg` |
| `MemoryPoolProofs` | theorems about `MemoryPool` | TLAPS |
| `VMThreads` | threads, their mutexes and what these guard | `VMThreads_*.cfg` |
| `VMThreadsProofs` | theorems about `VMThreads`: who waits for whom | TLAPS |
| `VMThreadsDataProofs` | theorems about `VMThreads`: what threads share | TLAPS |
| `ScopeVars` | variables, arguments and what instructions keep of them, through calls and errors | `ScopeVars_*.cfg` |
| `ScopeVarsProofs` | theorems about `ScopeVars`: the argument cache, what instructions keep | TLAPS |
| `MCRingList`, `MCTrackedRefs`, `MCListRefs`, `MCMemoryPool` | the symmetry of each | |
| `MCScopeVars` | symmetry; the functions and instructions of the two instances | |

The modules meet where the components do: `RingList` gives a list's items and their
memory to `TrackedRefs` (the block of many items), which gives the count of an item to
`MemoryPool` (the count of one that threads share); `MemoryPool`'s `Start` and `Delete`
are what `VMThreads`' `Create` and `Delete` do to memory; `VMThreads` runs the
operations whose results the others model; `ScopeVars` gives the scopes that `VMControl`
counts their contents, with the same saved states cutting them.

### VMControl

The program's text is not fixed: at each point the model may take any statement
that a program could have there, so TLC explores all programs within the bounds.
`pc` is the position in the text: the `path` of blocks around it in the running
function, the label in the innermost one (`body`, `init`, `next`, `end`,
`optional`, `newfunc`) and the operands its expression has pushed. It is the
ground truth: from `pc` and the callers in `aFuncCall` one computes which loops,
tries and functions are open, and the properties compare the machine's lists
with that. `Matches` says that a list holds the open blocks of one sort, each once, the outermost
first, by the function and the depth at which each entry was made; steps do not say where they were
made, so `StepsMatchLoops` compares `pForStep` with the steps of the loops that have begun in the order in
which they were entered (`OpenSteps`). The other variables are the machine's fields under their own names.

One action stands for one instruction or group of instructions without a jump
between: `EnterFor` is what `stmt.c` emits before the start value (`ICO_EXITMARK`),
`StepNumber` is `ICO_STEPNUMBER` with the test's jump, `LoopEnd` is
`ICO_POPEXITMARK` and `ICO_POPSTEP`. `Exit`, `Loop`, `OptionalLoop` are
`ring_vm_exit` and `ring_vm_optionalloop` with every branch;
`LoadFunc`, `CallScript`, `NewFunc`, `Return`, `CallC`, `CallCRaise` are the life
of a call; `EnterTry`, `LeaveTry`, `LeaveCatch` are try blocks. `Error` is
`ring_vm_error` with `ring_vm_catch` and `ring_vm_restorestate`; the actions that
can fail include it, and `Raise` stands for every other instruction that fails.

Loops whose text has no exit or loop command get no marks (`lCheckLoopAndExit` in
the parser, on by default): `marked` is part of the text and a command is allowed
only inside marked loops. A plain call saves no `VMState`; a call made on an
object, in braces, in eval or in a list does (`lSave`).

Four shapes of text lead outside what the machine handles, and `Programs` switches
them on: `return_in_try`, `exit_in_callee`, `exit_nonnumber` and `raise`. `text` has
none of them and every property holds. `calls` has the last three, and the
properties it lists hold with them. What does not is this:

* `return_in_try`: see Findings. With it the other properties about open blocks and
  scopes fail too, `WithinArrays` among them: a catch block of a finished function restores a scope
  that belongs to no call.
* `exit_in_callee` (exit or loop leaves a loop of a caller, or stands in a for loop's
  header): `ring_vm_exit` removes steps by the number of marks (`vmexit.c:82`), while
  only loops with an exit or loop command have marks; `StepsMatchLoops` fails.
* `exit_nonnumber`: the error for a value that is no number does not return
  (`vmexit.c:43`), a second error is reported, and the try block is left already;
  `ControlStackSpec` fails.
* `raise`: a C function that fails inside try leaves one operand
  (`vmfuncs.c:259` writes the stack position of a call that was unwound). `OperandsKept`
  is therefore an inequality; stated as an equality it fails.

Bounds: `MaxNest` blocks in one function, `MaxOps` operands in one expression,
`MaxTry` entries of `pTry`; `MaxCalls` and `MaxStack` are the machine's own limits
with small values, so overflow happens in the runs. A function starts only
while fewer than `MaxCalls` calls exist, and one more may be loading, so
`MaxCalls = 2` gives the program and one function and `MaxCalls = 3` a function called
by a function. `text` has two blocks in each of two frames: exit 2,
loop 2, a try in a loop and a loop in a try, on either side of a call. `calls` has three
frames with one block in each and two operands pending in each: returns, errors and
limits across two functions at once. What one jump must get right is the
difference between two saved sizes, which takes two blocks, or a block and a call.

### ControlStack

One sequence of blocks, `for`, `while`, `try`, `catch` and `func`. `return`
cuts it at the innermost function, an exit at a marked loop of the same function,
an error at the innermost try block, and an error ends the program only if there is
no try block. `VMControl` implements it under the mapping `Control` that
concatenates the open blocks of every frame. What the refinement adds to the
invariants: control never goes anywhere the text does not allow.

### RingList

`list` is `struct List` with the links of its `Items`; a block is one
allocation of link and item together. `content` is an item's value. Reads follow
`ring_list_getitem_gc` branch by branch: the array, the walks for lists of up to
six items, the cached link with its four distances, the linear search from the
nearest end. `Insert` reads first, as the code does, and takes its position from the
cache that read leaves. `DeleteItems` releases the item of the link and
then the block of the link, which differ after `SwapItems`. Callers either
pass the state or not (`States`); with threads in use (`UseThreads`) the cache is
off for those that pass it.

Following a NULL link sets `crashed`, and nothing happens after that: in
`RingList_memory` such a state may be reached, so that run does not check for
deadlock. In the other runs of the list every state has a successor.

Once threads are used, an insertion takes its position from a cache that the read before
it left alone (`rlist.c:548`). With `MayUseThreads` TRUE in the instance of `list_refines`
TLC finds `ListSeqSpec` violated: the new link goes elsewhere, and the value to another
item, or after the last link, where it stops on a NULL. The run has it FALSE;
`list_memory` has it TRUE, and memory stays exact until then. The same proof covers both
(`RingListProofs`).

Bounds: the number of blocks bounds the size of a list, `MaxMoved` the links that
hold another block's item, `MaxHeld` the references of variables to one item.
`RING_LIST_MAXSIZEWITHOUTLISTCACHE` is a constant of the build: 6 for the walks
by hand (six blocks reach each of them), 2 in the runs about the cache, where five
blocks leave three positions that are neither end nor small, one for each
way to use the cached link. All operations treat blocks alike, so `Symmetry` is sound;
no liveness is checked with it.

### TrackedRefs

`list(n)` allocates its items in one block. A variable, that of a for-in loop for
example, refers to an item and counts in `nGCReferenceCount`; when the list goes the
item lives on by its count, but its block is freed. So `ring_state_willunregisterblock`
looks at `pTrackedVariables` for items in the block, moves each to memory of its own
and tells the other variables that refer to it. `DeleteList` is the whole of it: the
items are released, each once, then the block is handled. Freed places are
forgotten unless something refers to them: `held` and `rc` say what an item is, `block` and
`heap` whether its memory is there.

Two shapes have no run, because the code fails with them: `rows` (a two-dimensional
list: the rows lie in a block of lists, and nothing moves them, `ringapi.c:436`) and
`reuse` (a variable that was taken out of `pTrackedVariables` while its flag
`lTrackedList` stays set is not tracked again, `vmgc.c:1010`). TLC finds
`NoDangling` violated with either, and the interpreter crashes on such programs.

Bounds: three variables, so that two share an item while another has a second one; two
lists of two items; room for three items to move to.

### ListRefs

Everything the program's values are kept in is one record, `mem`, since deleting is
recursive: a list deletes its items, each of which may be the last reference of a list,
or start a search for a cycle. The operators on `mem` are the functions of `vmgc.c` under their
names. The actions are statements: assigning a new list, a number, a
reference or a copy to a variable or to an item; `ref()` whose result is not used; the end
of a variable's scope; and `ring_vm_freetemplists`. `nReferenceCount` leaves out the first
owner, so does `CountExact`. `Cut` turns the items that lead back to the root into
strings, as the code does, which is how a deletion along a cycle comes to an end.

The container variable that `ref()` makes for a list follows it, and is part of it here.
An assignment by value to an item whose old list is in a cycle with itself, or holds the
source, is left out (a guard of `OverwriteItem`): the code works on freed items there.
Two shapes have no run, because the code fails with them. `inner` is `v = ref(v[1])`, or
`head = ref(head[:next])`: the old value of the destination is deleted before the list is
counted, and the list with it if nothing else keeps it (`vmgc.c:396`, `vmgc.c:404`);
`NoDangling` fails, and the interpreter loses the value.

`own_cycle` comes from the order in which a reference replaces what was there, which differs
between variables and items (`Released`). A variable is emptied first
(`ring_item_deletecontent_gc`); an item still has its old list while
`ring_list_assignreftoitem_gc` deletes it, and is overwritten after (`vmgc.c:404`, `vmgc.c:405`).
If the old list leads back to the item, the search for cycles counts an item that is about to go
(`LinksCycle`):

* `v[1] = ref(v)`, then `v[1] = ref(w)`: the count of `v`'s list falls to zero, the search finds that
  it still has itself and no reference from outside, and frees it; line 405 writes into the freed
  item. `NoDangling`, `CountExact` and `OthersKeepItems` fail, and the interpreter prints 0 for
  `len(v)`. With a second variable on the list all is well, and the run has that case.
* A list A has itself and `b`'s list B in its items, and only `b[1]` has A: `b[1] = ref(b)`
  leaves A. The search from A finds B, which leads back to A through `b[1]` and which `b` has, so
  the cycle stays; then `b[1]` is overwritten, and nothing reaches A. `NoGarbage` fails.

`LinksCycle` is true of the first case exactly, and of the second whether or not something else
keeps A. All other items are in the run, in the code's order: items that close the only cycle of
their old list, items whose old list is in a cycle that does not lead back to them, and a
list that has itself and two variables.

Bounds: three lists of two items give chains, cycles of one, two and three lists,
cycles that share a list, and a list twice in one list; two variables give references from
outside to two places of a cycle. A copy is made only if there is room for it.

### MemoryPool

The main thread has a block with items of two levels (`Small`, `Large`; a third behaves
as the second) and a free list for each. A sub-thread starts with
`RING_VM_ITEMSFORNEWTHREAD` items from the C library in its list, and with the bounds of
the main thread's block, by which `ring_poolmanager_free` decides. The count of an
item is read and decremented in two critical sections, so giving up a reference is two
actions, `ReadCount` and `FinishDrop`, with those of other threads between. `CountExact` says
what the count is: one less than its `Owners`, that is the references of all threads and those being
given up, and `MaxCount` when there are none. When two threads have the last two references
and both read one, both decrement, and the count wraps; the item is never freed, a leak of the code
which the property admits, and `NeverFreedInUse` says that the opposite does not happen.

Bounds: two sub-threads, so that two threads which do not own the block race; two small
places, one large, two of the C library; two items in use; `MaxCount` 2, so that the count
overflows, and wraps, in the run. A program may end, so deadlock is not checked.

### VMThreads

An operation of a thread is the sequence of its steps in the order of the code: the
mutexes it locks and unlocks, and what it does to shared data between. `Begin`
chooses one, `Acquire` waits for a mutex. The five mutexes are the machine's, the pool's
and three of the custom ones; those of libuv are not recursive. `Create` and `Delete` are
the two halves of `ring_vm_runcodefromthread`. `AddFunctions` and `AddCode` are the parts of
`ring_vm_eval` that a thread being created may come between, `GenerateTable` and `FillTable`
those of `ring_list_genhashtable2`.

Allocation takes no mutex; freeing takes the pool's if the memory is not the pool's own
(`FreeMemory`). Shapes: `rebuild` lets a table grow or be made while threads run, which
frees under the table's mutex (see Findings); `tracked` lets a list in a
block die while a variable refers to its item: the item is freed with the pool's mutex
held (`vmgc.c:1001`), which the same thread then waits for; `eval` lets the program call `eval()`,
which does not take the machine's mutex as events do (`genlib_e.c:1058`), and
`SnapshotWhole` fails. The last two have no run.

Fairness: weak fairness of each thread's steps. The operating system runs every
thread that can go on. A mutex that is free again and again could be taken by others for
ever, and weak fairness would not help; but the bounds on operations (`MaxMainOps`,
`MaxOps`) end that, so what `EveryThreadEnds` shows is that no thread is kept
from its end by the order of locks or by a mutex that is not given back, not that the mutexes are fair.
Nothing is assumed of whether a thread starts. Deadlock is not checked, since threads end;
`NoCircularWait` is stronger, as it speaks of any set of threads.

Bounds: two sub-threads with one operation each besides their life, and a main thread
with two: one thread is created while another runs or ends and the
main thread is inside an operation.

### ScopeVars

A scope is a sequence of lists, each of which holds a variable, at an address of `Lists`.
`Lookup` is `ring_vm_findvar`: the active scope, the object of open braces, the global
scope. The first time an instruction finds a variable, `Specialised` makes it one that knows the
address and the scope ID (`PUSHP`, `PUSHPLOCAL`, `INCLPJUMP`), the address alone
(`INCPJUMP`), or the position among the arguments (`PUSHARG`); `AfterOverflow` undoes
some of this when the IDs start again. `Call` takes lists for arguments from `argCache`, and
`DeleteScopes` gives them back, for a return and for an error alike: `Catch` is the part of
`ring_vm_restorestate` that concerns variables, and `ReadNull` is
`ring_vm_checknull`, which deletes a variable that was read without a value. `pushed` is what
the last instruction left on the stack, which `LoadIsLookup` compares with what looking the name up would find.

The text is not modelled, but what its structure rules out is: loops end
in the order of try blocks around them, and a kept address in the body of a for-in loop is never that
of its variable, whose instructions keep nothing (`PushKept`).

Each shape in `Programs` makes TLC find a property violated, on the instances of the two runs or
on slightly larger ones, and the interpreter fails on programs of `shadow`, `uninitialised`,
`argument_loop`, `class_error`, `forin_error` and `wrap_loop` as the model says. The runs have none of them:

* `shadow`: an instruction of a function that found a global variable goes on using it after a loop made
  a local one of that name (`vmperf.c:7`); `LoadIsLookup` fails. The comment at `vmvars.c:106` puts the
  function's scope first.
* `uninitialised`: a variable that is read without a value is deleted, and instructions that loaded it
  keep its address (`vmstack.c:60`); `KeptAlive` fails.
* `argument_loop`: after a loop over a parameter, an instruction takes the next call's reference for the list
  it refers to (`vmperf.c:36`); `LoadIsLookup` fails.
* `class_error`: an error in a class region, below a function called inside try: the test
  whether the error was in a class region comes after `nInClassRegion` was restored
  (`vmstate.c:68`), the function's arguments are lost to the cache, and a list is deleted
  twice when the program ends; `SlotsDistinct` fails.
* `braces`: in a function, braces open an object with an attribute of the name of a
  global variable that an instruction keeps; `LoadIsLookup` fails as with `shadow`.
* `forin_error`: an error caught outside a for-in loop leaves its variable a reference.
  An instruction that keeps the variable pushes it as it is, and the program sees an empty string
  where a first lookup gives the item; `LoadIsLookup` fails.
* `return_object`: `return` of an object that was assigned to an argument swaps the
  argument's list, with its flags, with a temporary one (`vmfuncs.c:620`); the scope
  frees it, and the cache's array still holds it. `SlotsDistinct` fails.
* `wrap_alive`: a call that lives while the IDs start again keeps addresses under its old ID,
  which a later call is given (`vmvars.c:56`); `KeptAlive` fails.
* `wrap_loop`: `PUSHP` is not reset when the IDs start again. A kept global
  that is the variable of a for-in loop by the time the ID comes back is pushed as it is; `LoadIsLookup` fails.

Bounds: three scopes, the program and two nested calls, of which the second comes when the first has
taken part of the cache; `scope_args` has two parameters and a cache of three lists, so that the second
call takes one list from it and one that is new; `scope_loads` has one name that is
global, local in each call, and an attribute. Three scope IDs, so that they start again within three calls; one try block.
`CacheSize` is `RING_VM_STACK_SIZE` in the code, and the IDs are 32 bits wide. The program may always
go on, and deadlock is checked.

## Runs

| run | question | result |
|---|---|---|
| `text` | are marks, steps and entries of `pTry` those of what is open in the text, and do they implement one stack? | yes; 622,084 states |
| `calls` | do tries, scopes and operands survive returns, errors and failing C functions across functions, within the arrays? | yes; 838,938 states |
| `list_refines` | do cache, array and links agree with the chain, and is a list a sequence, without threads? | yes; 18,401 states |
| `list_memory` | with threads too: are blocks freed exactly on their last release, and do the walks by hand find their item? | yes; 30,512 states |
| `tracked_moves` | do variables keep what they refer to when blocks go? | yes; 17,925 states |
| `list_refs` | are lists there exactly while the program can reach them? | yes; 32,338 states |
| `pool` | does memory have one owner, whatever thread frees it, and the count never free early? | yes; 742,952 states |
| `threads` | do threads end, and is what they share whole, while no table grows? | yes; 462,472 states |
| `scope_args` | has each argument one list, does the cache get each back once, and is an argument found by position the right one? | yes; 11,118 states |
| `scope_loads` | does an instruction that kept an address load what looking the name up would, and nothing that is gone? | yes; 775,048 states |
| `return_in_try`, `deadlock` | the findings below | violated |

Deadlock is not checked where a program may end (`VMControl`, `MemoryPool`,
`VMThreads`) or crash (`list_memory`). Only `threads` checks liveness: the
machine itself is sequential and a program may loop for ever.

Each property was also checked against plausible bugs: definitions commented
"Variant" are such bugs (a position off by one, a list not cut, a missing
clear), used nowhere in the specification; `PROJECT.json` names the definition
each one replaces and the property it breaks.

## Proofs

`VMControlProofs` proves, for all values of the constants that satisfy
`ConstantsAssumption` and for all shapes of `Programs`:

* `TypeCorrect`: `Spec => []TypeOK`. Types matter here since sizes are
  computed by subtraction and used to cut lists.
* `MarksStayPaired`: `Spec => []MarksPaired`. `ring_vm_exit` deletes from
  both mark lists with the size of one of them while it shrinks, so their lengths must agree.

`MarksPaired` is not inductive: `Return` cuts both lists to sizes in
the call, and a catch block to sizes in the entry of `pTry`. The inductive invariant
`Inv` therefore requires that every call saved one size for both lists
(`PairedCalls`), that every entry of `pTry` did (`PairedSaved`), and that
a function about to start has a call (`CallStarts`), which `NewFunc` removes before it
reports an error. The states saved in the loop marks themselves need not agree:
the exit mark is saved between the two pushes, and an exit restores
neither list from it. The proof has one lemma per action; `UnwindInv` and `ErrorInv`
carry the argument for errors and are used by every action that can fail.

`VMControlBlocksProofs` proves, for all values of the constants and for all shapes of `Programs`
but `return_in_try`:

* `MarksAreLoops`: `Spec => []MarksMatchLoops`. exit and loop find the marks of the open loops.
* `TriesAreOpen`: `Spec => []TriesMatch`. An error goes to the innermost try block around it.
* `OneScopePerFunction`: `Spec => []ScopesMatch`.
* `OpenTryCatches`: `Spec => CaughtByOpenTry`, the property that run `return_in_try` finds violated.
  That shape is thus its only cause: no nesting of the others leads there.
* `ArraysWithinLimits`: `Spec => []WithinArrays`.
* `StepsAreLoops`: `Spec => []StepsMatchLoops`, if `Programs` has not `exit_in_callee` either. Whatever
  is nested, the step that `ring_vm_incjump` adds is that of its own loop.

What a list holds after a jump depends on sizes that calls, entries of `pTry` and marks saved long
before. The order of function and depth in which blocks were entered (`Before`) turns each into
a fact that can be kept: `CutAt(list, n, k, d)` says that the first `n` entries are those
made before the block at depth `d` of function `k`. The inductive invariant `Book` requires that
the lists match what is open; that each saved size is such a cut, at the block that saved it
(`ExitsOfTries`, `TriesOfExits`) or at the start of the function that did (`SizesOfCalls`);
that each saved count of scopes is that of the functions started by then (`ScopesKnown`); and
where the code can be while a call is prepared (`CallsKnown`). A jump back cuts
calls, marks and tries at one point, and `DataCut` shows that what is left then matches what is open
there; blocks and calls that are added keep older cuts (`CutGrow`). Entries of `pLoopMark` say the
same as those of `pExitMark` (`LoopsKnown`) but for the one of a loop at its exit label, which after `exit n` is the
innermost loop's. `Return` is where the assumption is used: without a saved state it leaves
`pTry` alone, which is right only outside try blocks. In the model that is a condition on the text,
so the theorems speak of every program that has no such return.

For the arrays the invariant adds `Bounds`: what was saved of `nSP` was within its limit.
Scopes have no limit of their own in the code, and their number is bounded through `Book`: a function
starts while fewer than `MaxCalls` calls exist, its own among them, which has no scope yet.

`pForStep` holds numbers and saves no state, so nothing in it says of which loop a step is. The invariant
`StepList` therefore says that there is a list of entries, one for each step, that names the loops: the
one `pExitMark` would be if every loop were marked, with `Matches` and `CutAt` as before (`Stack`), and each entry's
block has the step (`Held`). A for loop's step is pushed after its mark, when the start value is assigned,
and that expression may call functions and fail; so the list speaks of the text without the loop that has
not begun (`Begun`), and `BegunPlace` to `BegunAppend` carry that through calls. Returns and errors cut the
steps to a saved size, as they do the marks. `ring_vm_exit` does not: it counts marks and removes as many
steps, less one, although only some loops have marks. It is right because all loops of a function in whose text a
command stands are marked there: `CutCounts` shows that what either list holds from a loop on is the number of
loops there, so the `n`-th mark and the `n`-th step from the end are of one loop (`NthMark`, `NthLoop`, `ExitPoint`).
`(loop n)` counts twice, at the command and at `ICO_OPTIONALLOOP`; `OptionalKnown` says that between the two nothing else
runs and a marked loop is still around the code. Last, the entries of the list
are in the order of entering, which gives each loop its rank in `OpenSteps` (`PointAtRank`).

`VMThreadsProofs` proves, for any number of threads, variables and operations:

* `ThreadsNeverBlock`: `Spec => []NoCircularWait`, if `Programs` has neither `rebuild`
  nor `tracked`. With the first, run `deadlock` shows the circle; with the second, a thread
  waits for itself. With `eval`, which no run includes, it holds.

Who waits for whom depends on what each holds and on what it is about to do, which
`NoCircularWait` does not bound. The inductive invariant `Inv` bounds both: what a thread
has left to do is `Orderly` for what it holds. Each mutex in it is taken
while only mutexes of lower `Rank` are held (machine, pool, functions, variables, items),
and what is held or taken is given back. `Rank` is
the order in which `ring_vm_createthreadstate` takes four of them; one lemma per
operation shows that it keeps to it. The steps of a thread keep what is left orderly
(`TailOrderly`), and a thread begins an operation with nothing held, since an orderly
script that is through has given everything back. If every thread of a set waited
for another of it, the mutex a thread waits for would have a lower rank than the one its
holder waits for (`WaitsHigher`); no thread could wait for the highest, so none for the next
one, and none at all.

`VMThreadsDataProofs` proves, for any number of threads, variables and operations:

* `TypeCorrect`: `Spec => []TypeOK`, of which two parts are not types: the code of a function
  never comes before it, and the table has only variables of the list.
* `LookupIsComplete`: `Spec => []LookupComplete`, for all shapes of programs.
* `SnapshotIsWhole`: `Spec => []SnapshotWhole`, if `Programs` has not `eval`; with it the
  property fails.

What makes these hold is where in an operation each step stands: a table is filled between locking
and unlocking, a variable is new before it goes to the table. So the inductive invariant reads what
a thread has yet to do as a program with sections. `Path(s, h, g, a, b, W)` says of a
script `s`: the steps of `W` in it are taken while a section is open that step `a`
opens and `b` closes, if it is open before `s` when `h` is true; and it is open after `s` if
`g` is. Each part of `Inv` is such a path for one pair of steps, in which `h` is a predicate
of the state: `owner["VAR"] = t` for the mutex of variables, `table.made` for the table,
`x \in globals` for the definition of `x`, `functions = bytecode` for code that is added in
pairs. A step off the script shortens the path (`TailPath`) if it changes `h` as the section
says, which is one lemma per action (`AcquireEffect` to `TableStepEffect`); a new
operation brings a path of its own (`OperationsSound`, `CreateSound`), put together
from those of its pieces (`CatPath`). `TableFull` is the rest of `LookupComplete`: a
table that is made and that nobody is about to fill lacks only variables `BeingDefined`. Who looks up
holds the mutex that who fills needs, so that case is the only one. `MachineRules` is
that of `SnapshotWhole`: unless the main thread holds the machine's mutex, functions and code agree.

`MemoryPoolProofs` proves, for any number of threads, places and references, and any width of the
count: `TypeCorrect`, `MemoryHasOneOwner`, `NothingLostOrFreedTwice`, `CountIsExact` and `NoUseAfterFree`, which
are `Spec => []P` for each invariant of run `pool`. They rest on one invariant. Its
part about memory (`MemoryInv`) says which lists a thread has in each part of its life, and that
lists are apart from each other and from items, place by place; from that the counting
in `OneOwner` and `MemoryExact` follows. Its part about counts (`CountInv`) needs two facts
which no property states. An item has at most `MaxCount + 1` owners (`CountsKnown`), or
the count could not tell none from many. And who has read zero had the last reference
(`LastDrop`): nobody else refers to the item or is giving it up. It stays so because
a new reference is taken from one that exists; without it, freeing the item after the
mutex is released could not be shown safe.

`RingListProofs` proves, for any number of blocks, references and values, and each size up to six at which the
cache begins:

* `TypeCorrect`, `LinksAlwaysAgree`, `CacheAlwaysCoherent`, `ItemAlwaysFound` and
  `MemoryAlwaysExact`: `Spec => []P` for each invariant of the runs of `RingList`, threads included.
* `ListIsSequence`: `Spec => ListSeqSpec` if `MayUseThreads = FALSE`. It is the whole
  refinement: initial states map to initial ones, and each step to a step of `ListSeq` or to none.

The properties speak of links that are `n` steps away, which are recursive functions of `n`. `Induction` states
induction on the numbers for sets (`0 \in S`, closed under successor), from a well-founded
order of the library. With it a walk is shown to exist and to be unique, so it goes one link at a time
(`AlongSteps`), and the same is done for what is left in use while a list is deleted
link by link (`ReleasedSteps`). The invariant `IInv` then never mentions a walk: there is a sequence `c`, the chain,
such that each link of the list points at its neighbours in `c` (`Linked`), no other block points
anywhere (`Loose`), the items are as many as the links (`Valued`), cached link and array
agree with `c` (`Cached`), and each count is that of the owners that `c` and `held` give
(`Counted`). Of these `Loose` and the last part of `Cached`, that a small list has no
cached link, are stated by no property: without the one a block that is linked
again could bring an old link along, and without the other an insertion into a list
that was long before would start from a link that its read did not set. Each operation is first shown to
change the fields as if `c` had got an element (`Inserted`), lost one (`Removed`) or had two items
exchanged (`Swapped`), and one lemma for each of these carries the shape over.
The proof found two things in the model: the walks by hand had been one CASE with guards that overlap, which
chooses between the branches, and are now the chain of conditions of the code; and
`MemoryExact` holds with threads too, so its guard went.

`TrackedRefsProofs` proves, for any number of variables and lists and any size of a block:

* `NeverDangling`: `Spec => []NoDangling` if `Programs = {}`: the shapes `reuse` and `rows` break it.
* `TypeCorrect`, `CountAlwaysExact` and `AlwaysMovedTogether`: `Spec => []TypeOK`, `Spec => []CountExact`
  and `Spec => MovedTogether` if `Programs` has not `reuse`.

The invariant adds to what the properties say that a variable which refers to an item of a block is in
`pTrackedVariables` (`InTracked`), that the block is there (`BlockThere`), and that a list holds each item
of its block once, and none without one (`ChainsInBlocks`). `InTracked` is not "a variable
whose flag is set is in the list": the deletion of a list takes variables out that keep their
flag, which is how `reuse` comes about. `Exact` is `CountExact` for owners given as a function, so
that a step can be taken one owner at a time: less one (`OneOwnerLess`), more one
(`OneOwnerMore`), all of a list's (`ItemsDeleted`), those of what is moved (`OwnersMoved`). For the move there must be as
many free places as items to move (`RoomToMove`): each item to move and each item in use outside the
blocks is owned by a variable of its own, and there are as many places as variables. In the code an
item is allocated, so this shows that the bound `Heap` never keeps the model from a step.
What is left of `pTrackedVariables` is given by the places that stay; that places in
ascending order are a sequence at all is a matter of counting (`RankIsPlace`).

`ScopeVarsProofs` proves, for any parameters, any number of lists, scopes, IDs and instructions, and a
cache of any size:

* `TypeCorrect`, `CacheAlwaysExact` and `SlotsAlwaysDistinct`: `Spec => []TypeOK`, `Spec => []CacheExact`
  and `Spec => []SlotsDistinct`, if `Programs` has neither `class_error` nor `return_object`: both
  change flags or places of cached lists behind the cache's back. The other shapes are allowed.
* `KeptAlwaysAlive`: `Spec => []KeptAlive`, without `uninitialised` and `wrap_alive` either (`Lasting`).
* `LoadAlwaysLookup`: `Spec => []LoadIsLookup`, if `Programs` is empty and no two parameters have one
  name (`Usual`). Each shape is a departure that TLC finds (see `ScopeVars` above); the code does not refuse
  a parameter named twice, but then the name means another variable for a cached position than for a search.

`CacheExact` counts lists, which is not inductive: `DeleteScopes` writes the lists it gives
back over the slots above `argCount`, and nothing in the count says that these are the slots the lists came
from. They are. A call takes its lists off the cache from the top down, and whatever ends scopes
gives them back in the opposite order, so the array never changes. `Taken` says this of a state: there is
a level of the cache before each scope, and the cached arguments of a scope are its first variables,
in the order of the slots between its level and the next. Then what a list of scopes gives back is
exactly the slots between two levels, each where it was (`SlotsOfPlaces`, `BackInOrder`), whether one scope is
deleted or an error cuts many (`DeleteKeeps`); `CacheExact` is the counting of those levels
(`SlotsCounted`). `Placed` says that a list is in one place of one scope and is there, and `Slots` that
the array has each list once. A caught error needs the saved scopes to be among those
that exist, for each try block that may still be left: no inner one began in an earlier scope (`TriesIn`).
A variable that is read without a value is deleted from the middle of its scope;
it is never a cached one, which always has a value (`VariableDropped`).

`KeptAlive` speaks of the function that runs now; an instruction keeps what it found in an earlier
call while others run. `KInv` says where that is. The scopes of live calls have IDs that rise with depth,
none above `scopeID`, and the one a try block saved is its scope's (`IdsRise`, `IdsSaved`); an instruction
that kept a global address keeps a variable of the first scope, and one that kept a local address a variable of the
live scope that has the ID it knows, if there is one (`Kept`). A new call gets an ID above all of those,
or it is the first one after a wrap, which made instructions forget local addresses (`NewScopeKept`). A
variable that `ring_vm_checknull` deletes was made by the last instruction, and nothing keeps it (`NotKept`).

For `LoadIsLookup` it must also be the variable that looking up would find: `NInv`. In a scope each name is there
once, the first variables of a call are the parameters in reverse, and no other variable of a call has the name
of a global one (`WellNamed`); open braces hide no global name of a function (`Unhidden`); what is kept has
the instruction's name, or the position of the parameter of that name (`KeptNamed`); and a global address kept in a
function is of a name that is no parameter. A try block's saved braces are still open in its scope, also for
a later block there (`Braced`): after an error the scope's braces are a subset of what they were, so they hide no more.
TLC checked `IInv`, `KInv` and `NInv` as invariants of the runs' instances, and of one with a
parameter, attributes and two try blocks, before they were proved.

Assumed is what the modules name `ConstantsAssumption`: the main thread is not a sub-thread, sets of
threads, variables, places and blocks are finite, the parts of memory are apart, bounds are numbers, and the limit
of a count, of calls and of the stack is at least one.

Model-checked only: `OperandsKept` of `VMControl` and its refinement, which
compare sums and sequences over all functions; the liveness of `VMThreads`; and `ListRefs`,
which is recursive throughout, as the code is. What a recursion computes for every input, liveness
and `ENABLED` are out of the provers' reach.

## Findings

1. `return` inside a try block leaves its entry in `pTry` (`vmfuncs.c:389`): the next
   error runs a catch block of a finished function. Run `return_in_try`.
2. Creating a thread holds the pool's mutex and waits for those of the tables; a thread
   whose table grows holds that table's and frees the old array, which waits for the
   pool's (`vmthread.c:124`, `vmgc.c:839`). Run `deadlock`.

TLC shows more departures, with a constant changed and no run kept for it; each is
described with its module: `exit_in_callee`, `exit_nonnumber`, `raise` (`VMControl`);
insertion once threads are used (`RingList`); `reuse`, `rows` (`TrackedRefs`); `inner`,
`own_cycle` (`ListRefs`); `tracked`, `eval` (`VMThreads`); and the shapes of `ScopeVars`.

## Not modelled

The front end except the shape of control structures, strings, files and the
C interface, which have no interacting state of their own; generated and vendored
extensions, which are nearly all of the repository's lines (sqlite, httplib, miniz, the
bindings to libuv, libui, openssl). The models cover the core of the interpreter in
`language/src`, a few thousand lines.

Within the modelled parts: eval, braces, object states and the error handler of the
debugger change where control returns to and are not in `VMControl`; objects
(`self`, containers) and lists under definition are not in `ListRefs`; sort, search
and hash tables of lists are not in `RingList`; several global scopes, `this`, private
attributes and instructions that keep functions are not in `ScopeVars`; addresses of byte code are not modelled. Values, names and messages are
abstracted everywhere.

## Plan

1. `VMControl`, `ControlStack`, `VMControlProofs`, `RingList`, `ListSeq` — done.
2. `TrackedRefs`, `ListRefs`, `MemoryPool`, `VMThreads`, `ScopeVars` — done.
3. Proofs of `MemoryPool`, `RingList` and its refinement, `TrackedRefs`, `VMThreads`, and what is listed
   above of `VMControl` and `ScopeVars` — done, and `StepsMatchLoops` of `VMControl`. Next: the refinement of
   `ControlStack` by `VMControl`, from `Book` and `StepList`.
4. Further modules: lists under definition and object states as more of `VMControl`'s
   stacks; search in lists; eval's reallocation of byte code.
