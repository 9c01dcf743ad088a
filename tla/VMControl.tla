----------------------------- MODULE VMControl -----------------------------
(***************************************************************************)
(* Control flow of the virtual machine: nested loops with the exit/loop    *)
(* commands, try/catch/done, function calls and the shared value stack.    *)
(*                                                                         *)
(* The machine keeps no tree of open blocks.  It keeps independent lists   *)
(* (pExitMark, pLoopMark, pForStep, pTry, aFuncCall) and counters (scopes, *)
(* nSP, nFuncSP); every jump out of a block cuts each list back to a size  *)
(* that was saved somewhere.  pc is where the running code is in the       *)
(* program's text, from which what is really open can be computed, so the  *)
(* properties compare the lists with the text.                             *)
(***************************************************************************)
EXTENDS Integers, Sequences, SequencesExt

CONSTANTS
    Steps,             \* step values a for loop may be given
    MaxNest,           \* bound: blocks nested in the text of one function
    MaxOps,            \* bound: operands one expression has pending
    MaxTry,            \* bound: entries of pTry, which the code does not limit
    MaxCalls,          \* RING_VM_STACK_CHECKOVERFLOW, on aFuncCall and scopes
    MaxStack,          \* RING_VM_STACK_CHECKOVERFLOW, on nSP
    lCheckLoopAndExit, \* parser flag: drop the marks of loops with no exit/loop
    Programs           \* unusual shapes the program's text may have

Shapes == {"return_in_try",   \* return in a try block of a plain function
           "exit_in_callee",  \* exit/loop that leaves a loop of a caller
           "raise",           \* a C function that fails: raise("...")
           "exit_nonnumber"}  \* exit s, where s holds a string

ASSUME ConstantsAssumption ==
    /\ Steps \subseteq Nat
    /\ MaxNest \in Nat /\ MaxOps \in Nat /\ MaxTry \in Nat
    /\ MaxCalls \in Nat /\ MaxStack \in Nat
    /\ lCheckLoopAndExit \in BOOLEAN
    /\ Programs \subseteq Shapes

VARIABLES
    pc,            \* where the running code is: [path, at, ops]
    aFuncCall,     \* function calls, loaded (parameters) or called
    nScopes,       \* nCurrentScope
    nSP, nFuncSP,  \* stack pointer, and its value where the function started
    pExitMark, pLoopMark, pForStep, pTry,
    lOptionalLoop, \* (loop n) is finishing its implicit (exit n-1)
    status         \* "run", "done", or "error": ended by an uncaught error

marks == <<pExitMark, pLoopMark, pForStep>>
vars == <<pc, aFuncCall, nScopes, nSP, nFuncSP, marks, pTry, lOptionalLoop, status>>

-----------------------------------------------------------------------------
(* The program's text. *)

Block(kind, marked, step) == [kind |-> kind, marked |-> marked, step |-> step]

LoopBlocks == [kind : {"for"}, marked : BOOLEAN, step : Steps]
              \cup [kind : {"while"}, marked : BOOLEAN, step : {0}]

Blocks == LoopBlocks \cup {Block("try", FALSE, 0), Block("catch", FALSE, 0)}

IsLoop(b) == b.kind \in {"for", "while"}

(* A point of the text: the enclosing blocks of the function, the label in *)
(* the innermost one, and how many operands the expression has pushed.     *)
Loc(path, at) == [path |-> path, at |-> at, ops |-> 0]

Labels == {"newfunc",   \* ICO_NEWFUNC, first instruction of a function
           "body",      \* statements of the innermost block
           "init",      \* for: ICO_EXITMARK done, step not pushed yet
           "next",      \* loop label: increment and test
           "end",       \* exit label: ICO_POPEXITMARK, ICO_POPSTEP
           "optional"}  \* ICO_OPTIONALLOOP, after the loop

-----------------------------------------------------------------------------
(* Lists that are cut back to a saved size. *)

Back(list, n) == SubSeq(list, 1, IF n < Len(list) THEN n ELSE Len(list))

Pop(list) == Back(list, IF list = <<>> THEN 0 ELSE Len(list) - 1)

(* Variant: counts the marks of the loop that comes next. *)
VMStateNextMark(exits, loops, tries) ==
    [nScopes |-> nScopes, nFuncCalls |-> Len(aFuncCall), nSP |-> nSP,
     nFuncSP |-> nFuncSP, nExitMark |-> exits + 1, nLoopMark |-> loops + 1,
     nTry |-> tries, nForStep |-> Len(pForStep)]

(* Variant: one step too few. *)
VMStateStepsShort(exits, loops, tries) ==
    [nScopes |-> nScopes, nFuncCalls |-> Len(aFuncCall), nSP |-> nSP,
     nFuncSP |-> nFuncSP, nExitMark |-> exits, nLoopMark |-> loops,
     nTry |-> tries, nForStep |-> Len(pForStep) - 1]

(* ring_vm_savestate(): where each list and counter stood. *)
VMState(exits, loops, tries) ==
    [nScopes |-> nScopes, nFuncCalls |-> Len(aFuncCall), nSP |-> nSP,
     nFuncSP |-> nFuncSP, nExitMark |-> exits, nLoopMark |-> loops,
     nTry |-> tries, nForStep |-> Len(pForStep)]

Loaded == aFuncCall # <<>> /\ Last(aFuncCall).status = "load"

Ready == status = "run" /\ nSP <= MaxStack

(* Points at which an expression may be under evaluation. *)
InExpr == Ready /\ pc.at \in {"body", "init", "next"}

(* Between two statements of a block. *)
AtStatement == Ready /\ pc.at = "body" /\ pc.ops = 0 /\ ~Loaded

(* Variant: nFuncSP is not restored. *)
StackOfNobody(calls) == 0

(* nFuncSP after a function: the stack position of the last call left. *)
StackOfCaller(calls) == IF calls = <<>> THEN 0 ELSE Last(calls).nSP
-----------------------------------------------------------------------------
Init ==
    /\ pc = Loc(<<>>, "body")
    /\ aFuncCall = <<>>
    /\ nScopes = 1
    /\ nSP = 0 /\ nFuncSP = 0
    /\ pExitMark = <<>> /\ pLoopMark = <<>> /\ pForStep = <<>> /\ pTry = <<>>
    /\ lOptionalLoop = FALSE
    /\ status = "run"

-----------------------------------------------------------------------------
(* Errors.  ring_vm_error() gives the error to the last entry of pTry; the *)
(* entry is removed before the catch block runs.  Scopes are deleted until *)
(* the saved one is the last: when it is gone already the program ends.    *)

CatchBlock(try) == Loc(Append(Front(try.path), Block("catch", FALSE, 0)), "body")

(* Variant: the catch block runs with the try block still in pTry. *)
TriesAndCaught(h) == SubSeq(pTry, 1, h)

(* ring_vm_catch() ends with ring_vm_done(). *)
TriesAfterCatch(h) == SubSeq(pTry, 1, h - 1)

(* restorestate(..., RING_STATE_TRYCATCH) from the h-th entry of pTry; cut *)
(* holds the sizes to which the lists are cut.                             *)
Unwind(h, cut, calls) ==
    LET s == pTry[h].state
    IN  /\ nScopes' = s.nScopes
        /\ nFuncSP' = s.nFuncSP
        /\ aFuncCall' = Back(calls, cut.nFuncCalls)
        /\ pExitMark' = Back(pExitMark, cut.nExitMark)
        /\ pLoopMark' = Back(pLoopMark, cut.nLoopMark)
        /\ pForStep' = Back(pForStep, cut.nForStep)
        /\ pTry' = TriesAfterCatch(h)
        /\ pc' = CatchBlock(pTry[h])

Handled(h, scopes) == h > 0 /\ pTry[h].state.nScopes <= scopes

Uncaught ==
    /\ status' = "error"
    /\ UNCHANGED <<pc, aFuncCall, nScopes, nSP, nFuncSP, marks, pTry, lOptionalLoop>>

(* One error, when scopes and calls are what exists at that moment. *)
Error(scopes, calls) ==
    LET h == Len(pTry)
    IN  \/ /\ Handled(h, scopes)
           /\ Unwind(h, pTry[h].state, calls)
           /\ nSP' = pTry[h].state.nSP
           /\ UNCHANGED <<lOptionalLoop, status>>
        \/ ~Handled(h, scopes) /\ Uncaught

ErrorNow == Error(nScopes, aFuncCall)

(* Any instruction of an expression may fail. *)
Raise == InExpr /\ ErrorNow

(* ring_vm_fetch() checks nSP after every instruction. *)
StackOverflow == status = "run" /\ nSP > MaxStack /\ ErrorNow
-----------------------------------------------------------------------------
(* Expressions. *)

PushOperand ==
    /\ InExpr /\ pc.ops < MaxOps
    /\ nSP' = nSP + 1
    /\ pc' = [pc EXCEPT !.ops = @ + 1]
    /\ UNCHANGED <<aFuncCall, nScopes, nFuncSP, marks, pTry, lOptionalLoop, status>>

(* ICO_FREESTACK closes every expression statement. *)
FreeStack ==
    /\ Ready /\ pc.at = "body" /\ ~Loaded
    /\ nFuncSP' = (IF aFuncCall = <<>> THEN 0 ELSE nFuncSP)
    /\ nSP' = nFuncSP'
    /\ pc' = [pc EXCEPT !.ops = 0]
    /\ UNCHANGED <<aFuncCall, nScopes, marks, pTry, lOptionalLoop, status>>

-----------------------------------------------------------------------------
(* Function calls. *)

(* ring_vm_loadfunc2(): the call exists before its parameters are pushed. *)
LoadFunc(type) ==
    /\ InExpr /\ pc.ops < MaxOps
    /\ \/ /\ Len(aFuncCall) > MaxCalls
          /\ ErrorNow
       \/ /\ Len(aFuncCall) <= MaxCalls
          /\ aFuncCall' = Append(aFuncCall,
                 [type |-> type, status |-> "load", caller |-> pc, nSP |-> nSP,
                  nForStep |-> 0, nExitMark |-> 0, nLoopMark |-> 0,
                  lSave |-> FALSE, nTry |-> 0])
          /\ UNCHANGED <<pc, nScopes, nSP, nFuncSP, marks, pTry, lOptionalLoop, status>>

(* ring_vm_call2() of a function of the program.  lSave: a method call, or *)
(* one made while the machine has object, brace, eval or list state, also  *)
(* saves a VMState; a plain call does not.                                 *)
CallScript(lSave) ==
    /\ InExpr /\ Loaded /\ Last(aFuncCall).type = "script"
    /\ aFuncCall' = Append(Front(aFuncCall),
           [Last(aFuncCall) EXCEPT
                !.status = "call", !.nForStep = Len(pForStep),
                !.nExitMark = Len(pExitMark), !.nLoopMark = Len(pLoopMark),
                !.lSave = lSave, !.nTry = IF lSave THEN Len(pTry) ELSE 0])
    /\ pc' = Loc(<<>>, "newfunc")
    /\ UNCHANGED <<nScopes, nSP, nFuncSP, marks, pTry, lOptionalLoop, status>>

(* Variant: the limit is left to ring_vm_funccallnew(). *)
CallsUnchecked == FALSE

(* ring_vm_newscope() counts function calls before it adds a scope. *)
CallsFull == Len(aFuncCall) >= MaxCalls

(* ring_vm_newfunc(): the scope, then the parameters.  On a wrong number of *)
(* parameters the call is deleted before the error is raised.               *)
NewFunc ==
    /\ Ready /\ pc.at = "newfunc"
    /\ \/ CallsFull /\ ErrorNow
       \/ ~CallsFull /\ Error(nScopes + 1, Front(aFuncCall))
       \/ /\ ~CallsFull
          /\ nScopes' = nScopes + 1
          /\ nFuncSP' = Last(aFuncCall).nSP
          /\ nSP' = Last(aFuncCall).nSP
          /\ aFuncCall' = Append(Front(aFuncCall),
                                 [Last(aFuncCall) EXCEPT !.status = "started"])
          /\ pc' = [pc EXCEPT !.at = "body"]
          /\ UNCHANGED <<marks, pTry, lOptionalLoop, status>>

(* Variant: the scope of the function stays. *)
ScopesKept == nScopes

(* ring_vm_deletescope() at the end of a function. *)
ScopesAfterReturn == nScopes - 1

(* ring_vm_return(), with the returned value pushed on the stack.  Without a *)
(* saved VMState nothing cuts pTry back.                                     *)
Return ==
    /\ AtStatement /\ aFuncCall # <<>>
    /\ LET call == Last(aFuncCall)
           calls == Front(aFuncCall)
       IN  /\ \/ "return_in_try" \in Programs
              \/ call.lSave
              \/ \A i \in 1..Len(pc.path) : pc.path[i].kind # "try"
           /\ pc' = [call.caller EXCEPT !.ops = @ + 1]
           /\ nSP' = (IF nSP > nFuncSP THEN nFuncSP + 1 ELSE nSP + 1)
           /\ nFuncSP' = StackOfCaller(calls)
           /\ nScopes' = ScopesAfterReturn
           /\ pForStep' = Back(pForStep, call.nForStep)
           /\ pExitMark' = Back(pExitMark, call.nExitMark)
           /\ pLoopMark' = Back(pLoopMark, call.nLoopMark)
           /\ pTry' = (IF call.lSave THEN Back(pTry, call.nTry) ELSE pTry)
           /\ aFuncCall' = calls
    /\ UNCHANGED <<lOptionalLoop, status>>

(* The end of the program's own statements. *)
EndProgram ==
    /\ AtStatement /\ aFuncCall = <<>> /\ pc.path = <<>>
    /\ status' = "done"
    /\ UNCHANGED <<pc, aFuncCall, nScopes, nSP, nFuncSP, marks, pTry, lOptionalLoop>>

(* ring_vm_call2() and ring_vm_aftercfunction() for a C function. *)
CallC ==
    /\ InExpr /\ Loaded /\ Last(aFuncCall).type = "c"
    /\ pc' = [Last(aFuncCall).caller EXCEPT !.ops = @ + 1]
    /\ nSP' = Last(aFuncCall).nSP + 1
    /\ aFuncCall' = Front(aFuncCall)
    /\ nFuncSP' = StackOfCaller(Front(aFuncCall))
    /\ UNCHANGED <<nScopes, marks, pTry, lOptionalLoop, status>>

(* A C function that reports an error: the catch block's state is restored *)
(* inside pFunc(), and ring_vm_aftercfunction() then still sets nSP from   *)
(* the call it was made for, before it looks at lActiveCatch.              *)
CallCRaise ==
    /\ "raise" \in Programs
    /\ InExpr /\ Loaded /\ Last(aFuncCall).type = "c"
    /\ \/ /\ Handled(Len(pTry), nScopes)
          /\ Unwind(Len(pTry), Last(pTry).state, aFuncCall)
          /\ nSP' = Last(aFuncCall).nSP + 1
          /\ UNCHANGED <<lOptionalLoop, status>>
       \/ ~Handled(Len(pTry), nScopes) /\ Uncaught
-----------------------------------------------------------------------------
(* Loops. *)

(* A loop whose text has no exit/loop command gets no ICO_EXITMARK, unless *)
(* the parser was told not to look.                                        *)
MarkChoices == IF lCheckLoopAndExit THEN BOOLEAN ELSE {TRUE}

(* ring_vm_exitmark(): each entry is in its list when the state is saved. *)
PushMarks(path, marked, steps) ==
    LET n == Len(pExitMark) + 1
        m == Len(pLoopMark) + 1
        s(loops) == [VMState(n, loops, Len(pTry)) EXCEPT !.nForStep = Len(steps)]
    IN  IF marked
        THEN /\ pExitMark' = Append(pExitMark, [path |-> path, state |-> s(m - 1)])
             /\ pLoopMark' = Append(pLoopMark, [path |-> path, state |-> s(m)])
        ELSE UNCHANGED <<pExitMark, pLoopMark>>

EnterFor(marked, step) ==
    LET path == Append(pc.path, Block("for", marked, step))
    IN  /\ AtStatement /\ Len(pc.path) < MaxNest
        /\ PushMarks(path, marked, pForStep)
        /\ pc' = Loc(path, "init")
        /\ UNCHANGED <<aFuncCall, nScopes, nSP, nFuncSP, pForStep, pTry, lOptionalLoop, status>>

(* ICO_ASSIGNMENT consumed the start value; ring_vm_stepnumber(). *)
StepNumber ==
    /\ Ready /\ pc.at = "init" /\ ~Loaded
    /\ pForStep' = Append(pForStep, Last(pc.path).step)
    /\ nSP' = nSP - pc.ops
    /\ pc' = Loc(pc.path, "next")
    /\ UNCHANGED <<aFuncCall, nScopes, nFuncSP, pExitMark, pLoopMark, pTry, lOptionalLoop, status>>

(* while and do push a step of zero, so that every loop has one. *)
EnterWhile(marked) ==
    LET path == Append(pc.path, Block("while", marked, 0))
        steps == Append(pForStep, 0)
    IN  /\ AtStatement /\ Len(pc.path) < MaxNest
        /\ pForStep' = steps
        /\ PushMarks(path, marked, steps)
        /\ pc' = Loc(path, "next")
        /\ UNCHANGED <<aFuncCall, nScopes, nSP, nFuncSP, pTry, lOptionalLoop, status>>

(* The loop's test consumes its operands and runs the body or leaves. *)
LoopTest ==
    /\ Ready /\ pc.at = "next" /\ ~Loaded
    /\ nSP' = nSP - pc.ops
    /\ \E at \in {"body", "end"} : pc' = Loc(pc.path, at)
    /\ UNCHANGED <<aFuncCall, nScopes, nFuncSP, marks, pTry, lOptionalLoop, status>>

EndBody ==
    /\ AtStatement /\ pc.path # <<>> /\ IsLoop(Last(pc.path))
    /\ pc' = Loc(pc.path, "next")
    /\ UNCHANGED <<aFuncCall, nScopes, nSP, nFuncSP, marks, pTry, lOptionalLoop, status>>

(* ring_vm_popexitmark(), ring_vm_popstep(). *)
LoopEnd ==
    /\ Ready /\ pc.at = "end"
    /\ IF Last(pc.path).marked
       THEN pExitMark' = Pop(pExitMark) /\ pLoopMark' = Pop(pLoopMark)
       ELSE UNCHANGED <<pExitMark, pLoopMark>>
    /\ pForStep' = Pop(pForStep)
    /\ pc' = Loc(Front(pc.path), "optional")
    /\ UNCHANGED <<aFuncCall, nScopes, nSP, nFuncSP, pTry, lOptionalLoop, status>>

(* Variant: a try block that is left stays in pTry. *)
TriesLeft(s) == pTry

TriesAfterExit(s) == Back(pTry, s.nTry)

(* restorestate(..., RING_STATE_EXIT): marks and steps are left alone. *)
JumpTo(mark, at) ==
    LET s == mark.state
    IN  \/ /\ s.nScopes <= nScopes
           /\ nScopes' = s.nScopes
           /\ nSP' = s.nSP
           /\ nFuncSP' = s.nFuncSP
           /\ aFuncCall' = Back(aFuncCall, s.nFuncCalls)
           /\ pTry' = TriesAfterExit(s)
           /\ pc' = Loc(mark.path, at)
           /\ UNCHANGED status
        \/ /\ s.nScopes > nScopes
           /\ status' = "error"
           /\ UNCHANGED <<pc, aFuncCall, nScopes, nSP, nFuncSP, pTry>>

(* The position of the mark of the loop that (exit n) leaves. *)
Target(n) == Len(pExitMark) - n + 1

(* Variant: removes the step that ICO_POPSTEP will remove too. *)
StepsWithout(n) ==
    Back(pForStep, IF Len(pForStep) < n THEN 0 ELSE Len(pForStep) - n)

(* ring_vm_popstep() for every loop but the last, which pops its own. *)
StepsAfterExit(n) ==
    Back(pForStep, IF Len(pForStep) < n - 1 THEN 0 ELSE Len(pForStep) - (n - 1))

(* Variant: deletes by the size that pLoopMark had. *)
LoopMarksCut(x) == SubSeq(pLoopMark, 1, x - 1)

(* The deletions use the size of pExitMark after it has shrunk, so the      *)
(* entry of pLoopMark that survives is the innermost loop's;                *)
(* ICO_POPEXITMARK at the exit label removes it.                            *)
LoopMarksAfterExit(x) ==
    Append(SubSeq(pLoopMark, 1, x - 1), pLoopMark[Len(pExitMark)])

(* ring_vm_exit() for n loops. *)
ExitLoops(n) ==
    /\ pExitMark' = SubSeq(pExitMark, 1, Target(n))
    /\ pLoopMark' = LoopMarksAfterExit(Target(n))
    /\ pForStep' = StepsAfterExit(n)
    /\ JumpTo(pExitMark[Target(n)], "end")

(* An exit/loop command is in the text of marked loops only; it counts the *)
(* marks of callers too, which is a program shape of its own.              *)
CommandAllowed(n) ==
    LET loops == {d \in 1..Len(pc.path) : IsLoop(pc.path[d])}
    IN  /\ \A d \in loops : pc.path[d].marked
        /\ \/ "exit_in_callee" \in Programs
           \/ n <= Cardinality(loops)
           \/ n > Len(pExitMark)

Exit(n) ==
    /\ AtStatement /\ CommandAllowed(n)
    /\ \/ /\ n \in 1..Len(pExitMark)
          /\ ExitLoops(n)
          /\ UNCHANGED lOptionalLoop
       \/ n \notin 1..Len(pExitMark) /\ ErrorNow

LoopOnce ==
    \/ /\ pLoopMark # <<>>
       /\ JumpTo(Last(pLoopMark), "next")
       /\ lOptionalLoop' = FALSE
       /\ UNCHANGED marks
    \/ pLoopMark = <<>> /\ ErrorNow

(* (loop n) is an implicit (exit n-1), then a (loop) at ICO_OPTIONALLOOP,   *)
(* where a mark is left, since n-1 of at least n marked loops were left.    *)
Loop(n) ==
    /\ AtStatement /\ CommandAllowed(n)
    /\ \/ n = 1 /\ LoopOnce
       \/ /\ n \in 2..Len(pLoopMark)
          /\ lOptionalLoop' = TRUE
          /\ ExitLoops(n - 1)
       \/ n # 1 /\ n \notin 2..Len(pLoopMark) /\ ErrorNow

OptionalLoop ==
    /\ Ready /\ pc.at = "optional"
    /\ \/ lOptionalLoop /\ LoopOnce
       \/ /\ ~lOptionalLoop
          /\ pc' = [pc EXCEPT !.at = "body"]
          /\ UNCHANGED <<aFuncCall, nScopes, nSP, nFuncSP, marks, pTry, lOptionalLoop, status>>

(* What is left after both of two entries of pTry have cut the lists. *)
Both(s, t) == [f \in DOMAIN s |-> IF s[f] < t[f] THEN s[f] ELSE t[f]]

(* exit s, with no number on the stack: ring_vm_exit() reports the error    *)
(* and does not return, so its last else-branch reports a second one, which *)
(* goes to the try block outside the one that took the first.               *)
ExitNonNumber ==
    LET h == Len(pTry)
    IN  /\ "exit_nonnumber" \in Programs
        /\ AtStatement /\ CommandAllowed(1)
        /\ \/ /\ Handled(h, nScopes)
              /\ Handled(h - 1, pTry[h].state.nScopes)
              /\ Unwind(h - 1, Both(pTry[h].state, pTry[h - 1].state), aFuncCall)
              /\ nSP' = pTry[h - 1].state.nSP
              /\ UNCHANGED <<lOptionalLoop, status>>
           \/ /\ ~(Handled(h, nScopes) /\ Handled(h - 1, pTry[h].state.nScopes))
              /\ Uncaught
-----------------------------------------------------------------------------
(* Try blocks. *)

(* ring_vm_try(): the entry is in pTry when the state is saved. *)
EnterTry ==
    LET path == Append(pc.path, Block("try", FALSE, 0))
    IN  /\ AtStatement /\ Len(pc.path) < MaxNest /\ Len(pTry) < MaxTry
        /\ pTry' = Append(pTry, [path |-> path,
                                 state |-> VMState(Len(pExitMark), Len(pLoopMark),
                                                   Len(pTry) + 1)])
        /\ pc' = Loc(path, "body")
        /\ UNCHANGED <<aFuncCall, nScopes, nSP, nFuncSP, marks, lOptionalLoop, status>>

(* ICO_DONE, reached by the jump at the end of the try block only. *)
LeaveTry ==
    /\ AtStatement /\ pc.path # <<>> /\ Last(pc.path).kind = "try"
    /\ pTry' = Pop(pTry)
    /\ pc' = Loc(Front(pc.path), "body")
    /\ UNCHANGED <<aFuncCall, nScopes, nSP, nFuncSP, marks, lOptionalLoop, status>>

LeaveCatch ==
    /\ AtStatement /\ pc.path # <<>> /\ Last(pc.path).kind = "catch"
    /\ pc' = Loc(Front(pc.path), "body")
    /\ UNCHANGED <<aFuncCall, nScopes, nSP, nFuncSP, marks, pTry, lOptionalLoop, status>>

-----------------------------------------------------------------------------
Counts == 0..(Len(pExitMark) + 1)

Next ==
    \/ PushOperand \/ FreeStack \/ Raise \/ StackOverflow
    \/ \E type \in {"script", "c"} : LoadFunc(type)
    \/ \E lSave \in BOOLEAN : CallScript(lSave)
    \/ NewFunc \/ Return \/ EndProgram
    \/ CallC \/ CallCRaise
    \/ \E m \in MarkChoices, s \in Steps : EnterFor(m, s)
    \/ \E m \in MarkChoices : EnterWhile(m)
    \/ StepNumber \/ LoopTest \/ EndBody \/ LoopEnd \/ OptionalLoop
    \/ \E n \in Counts : Exit(n)
    \/ \E n \in Counts : Loop(n)
    \/ ExitNonNumber
    \/ EnterTry \/ LeaveTry \/ LeaveCatch

Spec == Init /\ [][Next]_vars

-----------------------------------------------------------------------------
(* What is really open: the enclosing blocks of every function that is     *)
(* running, outermost function first.                                      *)

Entered == SelectSeq(aFuncCall, LAMBDA call : call.status # "load")

Frames == [i \in 1..Len(Entered) |-> Entered[i].caller] \o <<pc>>

(* The same block by block, for the lists whose entries say where they were *)
(* made.  The program itself (k = 0) and each call k whose function started *)
(* run code; Place is the path that code is at.                             *)
Frame(calls, k) == k = 0 \/ (k \in 1..Len(calls) /\ calls[k].status = "started")

Place(calls, path, k) == IF k < Len(calls) THEN calls[k + 1].caller.path ELSE path

Started(calls, n) == Cardinality({m \in 1..n : calls[m].status = "started"})

(* Entry e was made before the block at depth d of function k was entered. *)
Before(e, k, d) ==
    \/ e.state.nFuncCalls < k
    \/ e.state.nFuncCalls = k /\ Len(e.path) < d

(* e stands for a block of B that is open. *)
IsOpen(calls, path, e, B) ==
    LET place == Place(calls, path, e.state.nFuncCalls)
    IN  /\ Frame(calls, e.state.nFuncCalls)
        /\ Len(e.path) \in 1..Len(place)
        /\ \A d \in 1..Len(e.path) : e.path[d] = place[d]
        /\ e.path[Len(e.path)] \in B

Ordered(list) ==
    \A i, j \in 1..Len(list) :
        i < j => Before(list[i], list[j].state.nFuncCalls, Len(list[j].path))

Complete(calls, path, list, B) ==
    \A k \in 0..Len(calls) : \A d \in 1..Len(Place(calls, path, k)) :
        Frame(calls, k) /\ Place(calls, path, k)[d] \in B =>
            \E i \in 1..Len(list) : list[i].state.nFuncCalls = k /\ Len(list[i].path) = d

(* list holds the open blocks of B and nothing else, each once, the         *)
(* outermost first.                                                         *)
Matches(calls, path, list, B) ==
    /\ \A i \in 1..Len(list) : IsOpen(calls, path, list[i], B)
    /\ Ordered(list)
    /\ Complete(calls, path, list, B)

MarkedLoops == {b \in Blocks : IsLoop(b) /\ b.marked}

TryBlocks == {b \in Blocks : b.kind = "try"}

(* All the loop marks but that of a loop at its exit label. *)
Live == Len(pExitMark) - (IF pc.at = "end" /\ Last(pc.path).marked THEN 1 ELSE 0)

(* Where the code of function k is, and the blocks there that have begun:   *)
(* a for loop has no step until its start value is assigned.                *)
At(calls, l, k) == IF k < Len(calls) THEN calls[k + 1].caller ELSE l

Begun(l) == IF l.at = "init" THEN Front(l.path) ELSE l.path

(* The loops that have begun: loop <<k, d>> is at depth d of function k.    *)
BegunLoops(calls, l) ==
    UNION {{<<k, d>> : d \in {d \in DOMAIN Begun(At(calls, l, k)) :
                                 IsLoop(Begun(At(calls, l, k))[d])}} :
           k \in {k \in 0..Len(calls) : Frame(calls, k)}}

(* Loop p was entered when q was: it is q or a loop around it.              *)
EnteredBy(p, q) == p[1] < q[1] \/ (p[1] = q[1] /\ p[2] <= q[2])

(* The steps of the loops that have begun, the outermost first.             *)
OpenSteps(calls, l) ==
    LET loops == BegunLoops(calls, l)
        nth(i) == CHOOSE q \in loops : Cardinality({p \in loops : EnteredBy(p, q)}) = i
        step(q) == Begun(At(calls, l, q[1]))[q[2]].step
    IN  [i \in 1..Cardinality(loops) |-> step(nth(i))]

PendingOperands == FoldFunction(+, 0, [i \in 1..Len(Frames) |-> Frames[i].ops])
-----------------------------------------------------------------------------
States == [nScopes : Int, nFuncCalls : Nat, nSP : Int, nFuncSP : Int,
           nExitMark : Nat, nLoopMark : Nat, nTry : Nat, nForStep : Nat]

Locs == {l \in [path : Seq(Blocks), at : Labels, ops : Nat] :
            l.at \in {"init", "next", "end"} => l.path # <<>>}

CallSites == {l \in Locs : l.at \in {"body", "init", "next"}}

Calls == [type : {"script", "c"}, status : {"load", "call", "started"},
          caller : CallSites, nSP : Int, nForStep : Nat, nExitMark : Nat,
          nLoopMark : Nat, lSave : BOOLEAN, nTry : Nat]

Saved == [path : Seq(Blocks) \ {<<>>}, state : States]

(* Every list, counter and saved size has its type; what is restored from a *)
(* saved state is therefore a size, never a value below zero.               *)
TypeOK ==
    /\ pc \in Locs
    /\ aFuncCall \in Seq(Calls)
    /\ nScopes \in Int /\ nSP \in Int /\ nFuncSP \in Int
    /\ pExitMark \in Seq(Saved) /\ pLoopMark \in Seq(Saved) /\ pTry \in Seq(Saved)
    /\ pForStep \in Seq(Steps \cup {0})
    /\ lOptionalLoop \in BOOLEAN
    /\ status \in {"run", "done", "error"}

(* ring_vm_exit() and ring_vm_popexitmark() delete from both mark lists     *)
(* with one index, so the lists must never differ in length.                *)
MarksPaired == Len(pExitMark) = Len(pLoopMark)

(* An exit/loop command finds the marks of exactly the marked loops that    *)
(* are open in the functions that are running.                              *)
MarksMatchLoops == status = "run" =>
    /\ Matches(aFuncCall, pc.path, pExitMark, MarkedLoops)
    /\ \A i \in 1..Live : pLoopMark[i].path = pExitMark[i].path

(* The step a for loop adds to its variable, the last of pForStep, is its   *)
(* own: every way out of a loop removes the steps of the loops it leaves.   *)
StepsMatchLoops == status = "run" => pForStep = OpenSteps(aFuncCall, pc)

(* pTry holds the try blocks that are open and no finished one: an error    *)
(* is taken by the innermost try block around the code that made it.        *)
TriesMatch == status = "run" => Matches(aFuncCall, pc.path, pTry, TryBlocks)

(* One scope for the program and one for each function that started.        *)
ScopesMatch == status = "run" => nScopes = 1 + Started(aFuncCall, Len(aFuncCall))

(* A catch block runs only after an error inside its own try block. *)
CaughtByOpenTry ==
    [][Len(pTry') < Len(pTry) /\ pc' = CatchBlock(pTry[Len(pTry') + 1])
        => IsOpen(aFuncCall, pc.path, pTry[Len(pTry') + 1], TryBlocks)]_vars

(* While an expression with function calls is under way nothing that it     *)
(* pushed is lost, whatever the functions it calls do.  More may be left on *)
(* the stack: each error of a C function that is caught leaves an operand.  *)
OperandsKept ==
    status = "run" /\ pc.at # "newfunc" => nSP >= PendingOperands

(* The arrays aFuncCall, aScopes and aStack are not overrun: the check made *)
(* on aFuncCall, when a function starts, is what protects aScopes.          *)
WithinArrays ==
    /\ Len(aFuncCall) <= MaxCalls + 1
    /\ nScopes <= MaxCalls + 1
    /\ nSP <= MaxStack + 1

-----------------------------------------------------------------------------
(* The machine's lists together implement one stack of open blocks: return, *)
(* exit, loop and errors leave exactly the blocks they are meant to leave.  *)

Shown(b) == [kind |-> b.kind, marked |-> b.marked]

FrameBlocks(i) ==
    LET path == Frames[i].path
    IN  (IF i = 1 THEN <<>> ELSE <<[kind |-> "func", marked |-> FALSE]>>)
        \o [j \in 1..Len(path) |-> Shown(path[j])]

Control == INSTANCE ControlStack WITH
    Blocks <- {Shown(b) : b \in Blocks \ {Block("catch", FALSE, 0)}},
    ctl <- FlattenSeq([i \in 1..Len(Frames) |-> FrameBlocks(i)]),
    over <- status # "run"

ControlStackSpec == Control!Spec
=============================================================================
