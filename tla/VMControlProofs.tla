-------------------------- MODULE VMControlProofs --------------------------
(***************************************************************************)
(* The two mark lists never differ in length, for every program shape and  *)
(* every limit.  The lists are cut to sizes that were saved in calls and   *)
(* in try blocks, so the inductive invariant also says that each of those  *)
(* saved one size for both lists.                                          *)
(***************************************************************************)
EXTENDS VMControl, SequenceTheorems, TLAPS

PairedCalls == {c \in Calls : c.nExitMark = c.nLoopMark}

PairedSaved == {s \in Saved : s.state.nExitMark = s.state.nLoopMark}

Typed ==
    /\ pc \in Locs
    /\ aFuncCall \in Seq(PairedCalls)
    /\ nScopes \in Int /\ nSP \in Int /\ nFuncSP \in Int
    /\ pExitMark \in Seq(Saved) /\ pLoopMark \in Seq(Saved)
    /\ pTry \in Seq(PairedSaved)
    /\ pForStep \in Seq(Steps \cup {0})
    /\ lOptionalLoop \in BOOLEAN
    /\ status \in {"run", "done", "error"}

(* A function that is about to start has a call, whose scope it opens. *)
CallStarts == pc.at = "newfunc" => aFuncCall # <<>>

Inv == Typed /\ MarksPaired /\ CallStarts

-----------------------------------------------------------------------------
(* Cutting a list keeps its type and gives a length that depends on the     *)
(* lengths alone.                                                           *)
LEMMA BackProperties ==
    ASSUME NEW S, NEW list \in Seq(S), NEW n \in Nat
    PROVE  /\ Back(list, n) \in Seq(S)
           /\ Len(Back(list, n)) = IF n < Len(list) THEN n ELSE Len(list)
BY SubSeqProperties DEF Back

LEMMA PopProperties ==
    ASSUME NEW S, NEW list \in Seq(S)
    PROVE  /\ Pop(list) \in Seq(S)
           /\ Len(Pop(list)) = IF Len(list) = 0 THEN 0 ELSE Len(list) - 1
<1>1. CASE list = <<>>
  BY <1>1, BackProperties DEF Pop
<1>2. CASE list # <<>>
  <2>1. Len(list) - 1 \in Nat /\ Len(list) # 0
    BY <1>2, EmptySeq
  <2> QED BY <1>2, <2>1, BackProperties DEF Pop
<1> QED BY <1>1, <1>2

(* The first elements and the last element of a list that is not empty. *)
LEMMA FrontLast ==
    ASSUME NEW S, NEW list \in Seq(S), list # <<>>
    PROVE  Front(list) \in Seq(S) /\ Last(list) \in S /\ Len(list) \in Nat \ {0}
<1>1. Len(list) \in Nat \ {0}
  BY EmptySeq
<1> QED BY <1>1, SubSeqProperties, ElementOfSeq DEF Front, Last

(* The sets of records that the lists hold. *)
LEMMA SavedSubset == PairedSaved \subseteq Saved /\ PairedCalls \subseteq Calls
BY DEF PairedSaved, PairedCalls

LEMMA TypedImpliesTypeOK == Typed => TypeOK
BY SavedSubset, SeqMonotonic DEF Typed, TypeOK
LEMMA StepOfBlock == \A b \in Blocks : b.step \in Steps \cup {0}
BY DEF Blocks, LoopBlocks, Block

-----------------------------------------------------------------------------
(* An error.  The catch block is entered with lists cut to sizes that one   *)
(* entry of pTry, or two of them, saved.                                    *)
LEMMA CatchLoc ==
    ASSUME NEW try \in Saved
    PROVE  /\ CatchBlock(try) \in Locs
           /\ CatchBlock(try).at = "body"
<1>1. try.path \in Seq(Blocks) /\ try.path # <<>>
  BY DEF Saved
<1>2. Front(try.path) \in Seq(Blocks)
  BY <1>1, FrontLast
<1>3. Block("catch", FALSE, 0) \in Blocks
  BY DEF Blocks
<1>4. Append(Front(try.path), Block("catch", FALSE, 0)) \in Seq(Blocks)
  BY <1>2, <1>3, AppendProperties
<1> QED BY <1>4 DEF CatchBlock, Loc, Locs, Labels

LEMMA UnwindInv ==
    ASSUME Inv, NEW h \in 1..Len(pTry), NEW cut \in States,
           cut.nExitMark = cut.nLoopMark, NEW calls \in Seq(PairedCalls),
           Unwind(h, cut, calls), nSP' \in Int, UNCHANGED <<lOptionalLoop, status>>
    PROVE  Inv'
<1>1. pTry[h] \in PairedSaved /\ pTry[h] \in Saved /\ pTry[h].state \in States
  BY ElementOfSeq DEF Inv, Typed, PairedSaved, Saved
<1>2. /\ cut.nFuncCalls \in Nat /\ cut.nExitMark \in Nat
      /\ cut.nLoopMark \in Nat /\ cut.nForStep \in Nat
  BY DEF States
<1>3. pc' \in Locs /\ pc'.at = "body"
  BY <1>1, CatchLoc DEF Unwind
<1>4. nScopes' \in Int /\ nFuncSP' \in Int
  BY <1>1 DEF Unwind, States
<1>5. aFuncCall' \in Seq(PairedCalls)
  BY <1>2, BackProperties DEF Unwind
<1>6. /\ pExitMark' \in Seq(Saved) /\ pLoopMark' \in Seq(Saved)
      /\ Len(pExitMark') = Len(pLoopMark')
  BY <1>2, BackProperties DEF Unwind, Inv, Typed, MarksPaired
<1>7. pForStep' \in Seq(Steps \cup {0})
  BY <1>2, BackProperties DEF Unwind, Inv, Typed
<1>8. pTry' \in Seq(PairedSaved)
  <2>1. pTry \in Seq(PairedSaved) /\ 1 \in 1..Len(pTry) + 1 /\ h - 1 \in 0..Len(pTry)
    BY DEF Inv, Typed
  <2> QED BY <2>1, SubSeqProperties DEF Unwind, TriesAfterCatch
<1> QED
  BY <1>3, <1>4, <1>5, <1>6, <1>7, <1>8 DEF Inv, Typed, MarksPaired, CallStarts

LEMMA UncaughtInv == Inv /\ Uncaught => Inv'
BY DEF Inv, Typed, MarksPaired, CallStarts, Uncaught, marks

LEMMA ErrorInv ==
    ASSUME Inv, NEW scopes, NEW calls \in Seq(PairedCalls), Error(scopes, calls)
    PROVE  Inv'
<1>1. CASE ~Handled(Len(pTry), scopes)
  BY <1>1, UncaughtInv DEF Error
<1>2. CASE Handled(Len(pTry), scopes)
  <2>1. Len(pTry) \in 1..Len(pTry)
    BY <1>2, LenProperties DEF Handled, Inv, Typed
  <2>2. pTry[Len(pTry)] \in PairedSaved
    BY <2>1, ElementOfSeq DEF Inv, Typed
  <2>3. /\ pTry[Len(pTry)].state \in States
        /\ pTry[Len(pTry)].state.nExitMark = pTry[Len(pTry)].state.nLoopMark
        /\ pTry[Len(pTry)].state.nSP \in Int
    BY <2>2 DEF PairedSaved, Saved, States
  <2>4. /\ Unwind(Len(pTry), pTry[Len(pTry)].state, calls)
        /\ nSP' = pTry[Len(pTry)].state.nSP
        /\ UNCHANGED <<lOptionalLoop, status>>
    BY <1>2 DEF Error
  <2> QED BY <2>1, <2>3, <2>4, UnwindInv
<1> QED BY <1>1, <1>2

LEMMA ErrorNowInv == Inv /\ ErrorNow => Inv'
BY ErrorInv DEF ErrorNow, Inv, Typed
-----------------------------------------------------------------------------
(* Expressions and function calls. *)

(* A place in an expression is one a call can be made from. *)
LEMMA InExprCallSite == Inv /\ InExpr => pc \in CallSites
BY DEF Inv, Typed, InExpr, CallSites

LEMMA MoveInExpr ==
    ASSUME NEW l \in CallSites
    PROVE  [l EXCEPT !.ops = @ + 1] \in CallSites
BY DEF CallSites, Locs, Labels

LEMMA PushOperandInv == Inv /\ PushOperand => Inv'
<1> SUFFICES ASSUME Inv, PushOperand PROVE Inv'
  OBVIOUS
<1>1. pc' \in CallSites
  BY InExprCallSite, MoveInExpr DEF PushOperand
<1> QED
  BY <1>1 DEF PushOperand, Inv, Typed, MarksPaired, CallStarts, CallSites, marks

LEMMA FreeStackInv == Inv /\ FreeStack => Inv'
<1> SUFFICES ASSUME Inv, FreeStack PROVE Inv'
  OBVIOUS
<1>1. pc' \in Locs /\ pc'.at = "body"
  BY DEF FreeStack, Inv, Typed, Locs
<1> QED
  BY <1>1 DEF FreeStack, Inv, Typed, MarksPaired, CallStarts, marks

LEMMA LoadFuncInv == ASSUME NEW type \in {"script", "c"}, Inv, LoadFunc(type) PROVE Inv'
<1>1. CASE Len(aFuncCall) > MaxCalls /\ ErrorNow
  BY <1>1, ErrorNowInv
<1>2. CASE ~(Len(aFuncCall) > MaxCalls /\ ErrorNow)
  <2> DEFINE call == [type |-> type, status |-> "load", caller |-> pc, nSP |-> nSP,
                      nForStep |-> 0, nExitMark |-> 0, nLoopMark |-> 0,
                      lSave |-> FALSE, nTry |-> 0]
  <2>1. call \in PairedCalls
    BY InExprCallSite DEF LoadFunc, PairedCalls, Calls, Inv, Typed
  <2>2. aFuncCall' = Append(aFuncCall, call)
    BY <1>2 DEF LoadFunc
  <2>3. aFuncCall' \in Seq(PairedCalls) /\ aFuncCall' # <<>>
    BY <2>1, <2>2, AppendProperties DEF Inv, Typed
  <2> QED
    BY <1>2, <2>3 DEF LoadFunc, Inv, Typed, MarksPaired, CallStarts, marks
<1> QED BY <1>1, <1>2

LEMMA LastCall ==
    ASSUME Inv, aFuncCall # <<>>
    PROVE  /\ Last(aFuncCall) \in PairedCalls /\ Last(aFuncCall) \in Calls
           /\ Front(aFuncCall) \in Seq(PairedCalls)
BY FrontLast DEF Inv, Typed, PairedCalls

LEMMA ReplaceLastCall ==
    ASSUME NEW calls \in Seq(PairedCalls), NEW call \in PairedCalls
    PROVE  Append(calls, call) \in Seq(PairedCalls) /\ Append(calls, call) # <<>>
BY AppendProperties

LEMMA CallScriptInv == ASSUME NEW lSave \in BOOLEAN, Inv, CallScript(lSave) PROVE Inv'
<1> DEFINE call == [Last(aFuncCall) EXCEPT
                !.status = "call", !.nForStep = Len(pForStep),
                !.nExitMark = Len(pExitMark), !.nLoopMark = Len(pLoopMark),
                !.lSave = lSave, !.nTry = IF lSave THEN Len(pTry) ELSE 0]
<1>1. aFuncCall # <<>>
  BY DEF CallScript, Loaded
<1>2. /\ Len(pForStep) \in Nat /\ Len(pTry) \in Nat
      /\ Len(pExitMark) \in Nat /\ Len(pLoopMark) = Len(pExitMark)
  BY LenProperties DEF Inv, Typed, MarksPaired
<1>3. call \in PairedCalls
  BY <1>1, <1>2, LastCall DEF PairedCalls, Calls
<1>4. aFuncCall' \in Seq(PairedCalls) /\ aFuncCall' # <<>>
  BY <1>1, <1>3, LastCall, ReplaceLastCall DEF CallScript
<1>5. pc' \in Locs
  BY DEF CallScript, Loc, Locs, Labels
<1> QED
  BY <1>4, <1>5 DEF CallScript, Inv, Typed, MarksPaired, CallStarts, marks

LEMMA NewFuncInv == Inv /\ NewFunc => Inv'
<1> SUFFICES ASSUME Inv, NewFunc PROVE Inv'
  OBVIOUS
<1>1. aFuncCall # <<>>
  BY DEF NewFunc, Inv, CallStarts
<1>2. CASE CallsFull /\ ErrorNow
  BY <1>2, ErrorNowInv
<1>3. CASE ~CallsFull /\ Error(nScopes + 1, Front(aFuncCall))
  BY <1>1, <1>3, LastCall, ErrorInv
<1>4. CASE ~(CallsFull /\ ErrorNow) /\ ~(~CallsFull /\ Error(nScopes + 1, Front(aFuncCall)))
  <2>1. [Last(aFuncCall) EXCEPT !.status = "started"] \in PairedCalls
    BY <1>1, LastCall DEF PairedCalls, Calls
  <2>2. aFuncCall' \in Seq(PairedCalls)
    BY <1>1, <1>4, <2>1, LastCall, ReplaceLastCall DEF NewFunc
  <2>3. pc' \in Locs /\ pc'.at = "body"
    BY <1>4 DEF NewFunc, Inv, Typed, Locs, Labels
  <2>4. Last(aFuncCall).nSP \in Int
    BY <1>1, LastCall DEF Calls
  <2> QED
    BY <1>4, <2>2, <2>3, <2>4 DEF NewFunc, Inv, Typed, MarksPaired, CallStarts, marks
<1> QED BY <1>2, <1>3, <1>4

LEMMA StackOfCallerType ==
    ASSUME NEW calls \in Seq(PairedCalls) PROVE StackOfCaller(calls) \in Int
<1>1. CASE calls = <<>>
  BY <1>1 DEF StackOfCaller
<1>2. CASE calls # <<>>
  <2>1. Last(calls) \in PairedCalls
    BY <1>2, FrontLast
  <2>2. Last(calls).nSP \in Int
    BY <2>1 DEF PairedCalls, Calls
  <2> QED BY <1>2, <2>2 DEF StackOfCaller
<1> QED BY <1>1, <1>2

LEMMA ReturnInv == Inv /\ Return => Inv'
<1> SUFFICES ASSUME Inv, Return PROVE Inv'
  OBVIOUS
<1> DEFINE call == Last(aFuncCall)
<1>1. call \in Calls /\ call.nExitMark = call.nLoopMark /\ Front(aFuncCall) \in Seq(PairedCalls)
  BY LastCall DEF Return, PairedCalls
<1>2. /\ call.nForStep \in Nat /\ call.nExitMark \in Nat /\ call.nLoopMark \in Nat
      /\ call.nTry \in Nat /\ call.caller \in CallSites
  BY <1>1 DEF Calls
<1>3. pc' \in CallSites
  BY <1>2, MoveInExpr DEF Return
<1>4. /\ pExitMark' \in Seq(Saved) /\ pLoopMark' \in Seq(Saved)
      /\ Len(pExitMark') = Len(pLoopMark')
  BY <1>1, <1>2, BackProperties DEF Return, Inv, Typed, MarksPaired
<1>5. pForStep' \in Seq(Steps \cup {0}) /\ pTry' \in Seq(PairedSaved)
  BY <1>2, BackProperties DEF Return, Inv, Typed
<1>6. aFuncCall' \in Seq(PairedCalls) /\ nFuncSP' \in Int
  BY <1>1, StackOfCallerType DEF Return
<1>7. nSP' \in Int /\ nScopes' \in Int
  BY DEF Return, ScopesAfterReturn, Inv, Typed
<1>8. UNCHANGED <<lOptionalLoop, status>>
  BY DEF Return
<1> QED
  BY <1>3, <1>4, <1>5, <1>6, <1>7, <1>8 DEF Inv, Typed, MarksPaired, CallStarts, CallSites

LEMMA CallCInv == Inv /\ CallC => Inv'
<1> SUFFICES ASSUME Inv, CallC PROVE Inv'
  OBVIOUS
<1>1. Last(aFuncCall) \in Calls /\ Front(aFuncCall) \in Seq(PairedCalls)
  BY LastCall DEF CallC, Loaded
<1>2. pc' \in CallSites /\ nSP' \in Int
  BY <1>1, MoveInExpr DEF CallC, Calls
<1>3. aFuncCall' \in Seq(PairedCalls) /\ nFuncSP' \in Int
  BY <1>1, StackOfCallerType DEF CallC
<1> QED
  BY <1>2, <1>3 DEF CallC, Inv, Typed, MarksPaired, CallStarts, CallSites, marks

LEMMA CallCRaiseInv == Inv /\ CallCRaise => Inv'
<1> SUFFICES ASSUME Inv, CallCRaise PROVE Inv'
  OBVIOUS
<1>1. CASE ~Handled(Len(pTry), nScopes)
  BY <1>1, UncaughtInv DEF CallCRaise
<1>2. CASE Handled(Len(pTry), nScopes)
  <2>1. Len(pTry) \in 1..Len(pTry) /\ pTry # <<>>
    BY <1>2, LenProperties DEF Handled, Inv, Typed
  <2>2. Last(pTry) \in PairedSaved
    BY <2>1, FrontLast DEF Inv, Typed
  <2>3. /\ Last(pTry).state \in States
        /\ Last(pTry).state.nExitMark = Last(pTry).state.nLoopMark
    BY <2>2 DEF PairedSaved, Saved
  <2>4. Unwind(Len(pTry), Last(pTry).state, aFuncCall) /\ UNCHANGED <<lOptionalLoop, status>>
    BY <1>2 DEF CallCRaise
  <2>5. nSP' \in Int
    BY <1>2, LastCall DEF CallCRaise, Loaded, Calls
  <2>6. aFuncCall \in Seq(PairedCalls)
    BY DEF Inv, Typed
  <2> QED BY <2>1, <2>3, <2>4, <2>5, <2>6, UnwindInv
<1> QED BY <1>1, <1>2
-----------------------------------------------------------------------------
(* Loops. *)

LEMMA PathGrows ==
    ASSUME Inv, NEW b \in Blocks, NEW path, path = Append(pc.path, b)
    PROVE  /\ path \in Seq(Blocks) \ {<<>>} /\ Last(path) = b
           /\ \A at \in Labels : Loc(path, at) \in Locs
<1>1. pc.path \in Seq(Blocks)
  BY DEF Inv, Typed, Locs
<1>2. path \in Seq(Blocks) /\ path # <<>> /\ Last(path) = b
  BY <1>1, AppendProperties DEF Last
<1> QED BY <1>2 DEF Loc, Locs

LEMMA StateType ==
    ASSUME Inv, NEW exits \in Nat, NEW loops \in Nat, NEW tries \in Nat
    PROVE  VMState(exits, loops, tries) \in States
<1>1. Len(aFuncCall) \in Nat /\ Len(pForStep) \in Nat
  BY LenProperties DEF Inv, Typed
<1> QED BY <1>1 DEF VMState, States, Inv, Typed

LEMMA PushMarksInv ==
    ASSUME Inv, NEW path \in Seq(Blocks) \ {<<>>}, NEW marked \in BOOLEAN,
           NEW steps \in Seq(Steps \cup {0}), PushMarks(path, marked, steps)
    PROVE  /\ pExitMark' \in Seq(Saved) /\ pLoopMark' \in Seq(Saved)
           /\ Len(pExitMark') = Len(pLoopMark')
<1>1. CASE ~marked
  BY <1>1 DEF PushMarks, Inv, Typed, MarksPaired
<1>2. CASE marked
  <2> DEFINE n == Len(pExitMark) + 1
             m == Len(pLoopMark) + 1
             exit == [VMState(n, m - 1, Len(pTry)) EXCEPT !.nForStep = Len(steps)]
             loop == [VMState(n, m, Len(pTry)) EXCEPT !.nForStep = Len(steps)]
  <2>1. /\ n \in Nat /\ m \in Nat /\ m - 1 \in Nat
        /\ Len(pTry) \in Nat /\ Len(steps) \in Nat
    BY LenProperties DEF Inv, Typed
  <2>2. VMState(n, m - 1, Len(pTry)) \in States /\ VMState(n, m, Len(pTry)) \in States
    BY <2>1, StateType
  <2>3. exit \in States /\ loop \in States
    BY <2>1, <2>2 DEF States
  <2>4. [path |-> path, state |-> exit] \in Saved /\ [path |-> path, state |-> loop] \in Saved
    BY <2>3 DEF Saved
  <2>5. /\ pExitMark' = Append(pExitMark, [path |-> path, state |-> exit])
        /\ pLoopMark' = Append(pLoopMark, [path |-> path, state |-> loop])
    BY <1>2 DEF PushMarks
  <2>6. /\ pExitMark \in Seq(Saved) /\ pLoopMark \in Seq(Saved)
        /\ Len(pExitMark) = Len(pLoopMark)
    BY DEF Inv, Typed, MarksPaired
  <2> HIDE DEF exit, loop
  <2> QED BY <2>4, <2>5, <2>6, AppendProperties
<1> QED BY <1>1, <1>2

LEMMA MarkChoice == MarkChoices \subseteq BOOLEAN
BY DEF MarkChoices

LEMMA EnterForInv ==
    ASSUME Inv, NEW marked \in MarkChoices, NEW step \in Steps, EnterFor(marked, step)
    PROVE  Inv'
<1> DEFINE path == Append(pc.path, Block("for", marked, step))
<1>1. Block("for", marked, step) \in Blocks
  BY MarkChoice DEF Block, Blocks, LoopBlocks
<1>2. path \in Seq(Blocks) \ {<<>>} /\ Loc(path, "init") \in Locs
  BY <1>1, PathGrows DEF Labels
<1>3. pc' = Loc(path, "init") /\ PushMarks(path, marked, pForStep)
  BY DEF EnterFor
<1>4. pForStep \in Seq(Steps \cup {0})
  BY DEF Inv, Typed
<1>5. /\ pExitMark' \in Seq(Saved) /\ pLoopMark' \in Seq(Saved)
      /\ Len(pExitMark') = Len(pLoopMark')
  BY <1>2, <1>3, <1>4, MarkChoice, PushMarksInv
<1>6. pc' \in Locs /\ pc'.at = "init"
  BY <1>2, <1>3 DEF Loc
<1> QED
  BY <1>5, <1>6 DEF EnterFor, Inv, Typed, MarksPaired, CallStarts

LEMMA EnterWhileInv ==
    ASSUME Inv, NEW marked \in MarkChoices, EnterWhile(marked) PROVE Inv'
<1> DEFINE path == Append(pc.path, Block("while", marked, 0))
           steps == Append(pForStep, 0)
<1>1. Block("while", marked, 0) \in Blocks
  BY MarkChoice DEF Block, Blocks, LoopBlocks
<1>2. path \in Seq(Blocks) \ {<<>>} /\ Loc(path, "next") \in Locs
  BY <1>1, PathGrows DEF Labels
<1>3. pc' = Loc(path, "next") /\ PushMarks(path, marked, steps) /\ pForStep' = steps
  BY DEF EnterWhile
<1>4. steps \in Seq(Steps \cup {0})
  BY AppendProperties DEF Inv, Typed
<1>5. /\ pExitMark' \in Seq(Saved) /\ pLoopMark' \in Seq(Saved)
      /\ Len(pExitMark') = Len(pLoopMark')
  BY <1>2, <1>3, <1>4, MarkChoice, PushMarksInv
<1>6. pc' \in Locs /\ pc'.at = "next"
  BY <1>2, <1>3 DEF Loc
<1> QED
  BY <1>3, <1>4, <1>5, <1>6 DEF EnterWhile, Inv, Typed, MarksPaired, CallStarts

LEMMA LocHere ==
    ASSUME Inv, NEW at \in Labels, pc.path # <<>> PROVE Loc(pc.path, at) \in Locs
BY DEF Inv, Typed, Loc, Locs, Labels

LEMMA StepNumberInv == Inv /\ StepNumber => Inv'
<1> SUFFICES ASSUME Inv, StepNumber PROVE Inv'
  OBVIOUS
<1>1. pc.path \in Seq(Blocks) /\ pc.path # <<>> /\ pc.ops \in Nat
  BY DEF StepNumber, Inv, Typed, Locs
<1>2. Last(pc.path).step \in Steps \cup {0}
  BY <1>1, FrontLast, StepOfBlock
<1>3. pForStep' \in Seq(Steps \cup {0})
  BY <1>2, AppendProperties DEF StepNumber, Inv, Typed
<1>4. pc' \in Locs /\ pc'.at = "next"
  BY <1>1, LocHere DEF StepNumber, Loc, Labels
<1> QED
  BY <1>1, <1>3, <1>4 DEF StepNumber, Inv, Typed, MarksPaired, CallStarts

LEMMA LoopTestInv == Inv /\ LoopTest => Inv'
<1> SUFFICES ASSUME Inv, LoopTest PROVE Inv'
  OBVIOUS
<1>1. pc.path # <<>> /\ pc.ops \in Nat
  BY DEF LoopTest, Inv, Typed, Locs
<1>2. PICK at \in {"body", "end"} : pc' = Loc(pc.path, at)
  BY DEF LoopTest
<1>3. pc' \in Locs /\ pc'.at # "newfunc"
  BY <1>1, <1>2, LocHere DEF Loc, Labels
<1> QED
  BY <1>1, <1>3 DEF LoopTest, Inv, Typed, MarksPaired, CallStarts, marks

LEMMA EndBodyInv == Inv /\ EndBody => Inv'
<1> SUFFICES ASSUME Inv, EndBody PROVE Inv'
  OBVIOUS
<1>1. pc' \in Locs /\ pc'.at = "next"
  BY LocHere DEF EndBody, Loc, Labels
<1> QED
  BY <1>1 DEF EndBody, Inv, Typed, MarksPaired, CallStarts, marks

(* Leaving the innermost block. *)
LEMMA PathShrinks ==
    ASSUME Inv, pc.path # <<>>, NEW at \in {"body", "optional"}
    PROVE  Loc(Front(pc.path), at) \in Locs
<1>1. Front(pc.path) \in Seq(Blocks)
  BY FrontLast DEF Inv, Typed, Locs
<1> QED BY <1>1 DEF Loc, Locs, Labels

LEMMA LoopEndInv == Inv /\ LoopEnd => Inv'
<1> SUFFICES ASSUME Inv, LoopEnd PROVE Inv'
  OBVIOUS
<1>1. pc.path # <<>>
  BY DEF LoopEnd, Inv, Typed, Locs
<1>2. pc' \in Locs /\ pc'.at = "optional"
  BY <1>1, PathShrinks DEF LoopEnd, Loc
<1>3. /\ pExitMark' \in Seq(Saved) /\ pLoopMark' \in Seq(Saved)
      /\ Len(pExitMark') = Len(pLoopMark')
  BY PopProperties DEF LoopEnd, Inv, Typed, MarksPaired
<1>4. pForStep' \in Seq(Steps \cup {0})
  BY PopProperties DEF LoopEnd, Inv, Typed
<1> QED
  BY <1>2, <1>3, <1>4 DEF LoopEnd, Inv, Typed, MarksPaired, CallStarts

LEMMA JumpToInv ==
    ASSUME Inv, NEW mark \in Saved, NEW at \in {"next", "end"}, JumpTo(mark, at),
           pExitMark' \in Seq(Saved), pLoopMark' \in Seq(Saved),
           Len(pExitMark') = Len(pLoopMark'),
           pForStep' \in Seq(Steps \cup {0}), lOptionalLoop' \in BOOLEAN
    PROVE  Inv'
<1> DEFINE s == mark.state
<1>1. CASE s.nScopes > nScopes /\ status' = "error"
             /\ UNCHANGED <<pc, aFuncCall, nScopes, nSP, nFuncSP, pTry>>
  BY <1>1 DEF Inv, Typed, MarksPaired, CallStarts
<1>2. CASE ~(s.nScopes > nScopes /\ status' = "error"
             /\ UNCHANGED <<pc, aFuncCall, nScopes, nSP, nFuncSP, pTry>>)
  <2>1. /\ s.nScopes \in Int /\ s.nSP \in Int /\ s.nFuncSP \in Int
        /\ s.nFuncCalls \in Nat /\ s.nTry \in Nat
    BY DEF Saved, States
  <2>2. pc' = Loc(mark.path, at) /\ pc' \in Locs /\ pc'.at = at
    BY <1>2 DEF JumpTo, Saved, Loc, Locs, Labels
  <2>3. aFuncCall' \in Seq(PairedCalls) /\ pTry' \in Seq(PairedSaved)
    BY <1>2, <2>1, BackProperties DEF JumpTo, TriesAfterExit, Inv, Typed
  <2> QED
    BY <1>2, <2>1, <2>2, <2>3 DEF JumpTo, Inv, Typed, MarksPaired, CallStarts
<1> QED BY <1>1, <1>2

(* exit n leaves as many loop marks as exit marks, though the one that is   *)
(* left last is another loop's.                                             *)
LEMMA ExitLoopsInv ==
    ASSUME Inv, NEW n \in 1..Len(pExitMark), ExitLoops(n), lOptionalLoop' \in BOOLEAN
    PROVE  Inv'
<1> DEFINE x == Target(n)
<1>1. /\ pExitMark \in Seq(Saved) /\ pLoopMark \in Seq(Saved)
      /\ pForStep \in Seq(Steps \cup {0})
      /\ Len(pExitMark) \in Nat /\ Len(pLoopMark) = Len(pExitMark) /\ Len(pForStep) \in Nat
  BY LenProperties DEF Inv, Typed, MarksPaired
<1>2. x \in 1..Len(pExitMark) /\ n \in Nat /\ n - 1 \in Nat
  BY <1>1 DEF Target
<1>3. pExitMark' \in Seq(Saved) /\ Len(pExitMark') = x
  BY <1>1, <1>2, SubSeqProperties DEF ExitLoops
<1>4. SubSeq(pLoopMark, 1, x - 1) \in Seq(Saved) /\ Len(SubSeq(pLoopMark, 1, x - 1)) = x - 1
  BY <1>1, <1>2, SubSeqProperties
<1>5. pLoopMark[Len(pExitMark)] \in Saved
  BY <1>1, <1>2, ElementOfSeq
<1>6. pLoopMark' \in Seq(Saved) /\ Len(pLoopMark') = x
  BY <1>2, <1>4, <1>5, AppendProperties DEF ExitLoops, LoopMarksAfterExit
<1>7. pForStep' \in Seq(Steps \cup {0})
  BY <1>1, <1>2, BackProperties DEF ExitLoops, StepsAfterExit
<1>8. pExitMark[x] \in Saved /\ JumpTo(pExitMark[x], "end")
  BY <1>1, <1>2, ElementOfSeq DEF ExitLoops
<1> HIDE DEF x
<1> QED BY <1>3, <1>6, <1>7, <1>8, JumpToInv

LEMMA ExitInv == ASSUME NEW n \in Counts, Inv, Exit(n) PROVE Inv'
<1>1. CASE n \in 1..Len(pExitMark) /\ ExitLoops(n) /\ UNCHANGED lOptionalLoop
  BY <1>1, ExitLoopsInv DEF Inv, Typed
<1>2. CASE ErrorNow
  BY <1>2, ErrorNowInv
<1> QED BY <1>1, <1>2 DEF Exit

LEMMA LoopOnceInv == Inv /\ LoopOnce => Inv'
<1> SUFFICES ASSUME Inv, LoopOnce PROVE Inv'
  OBVIOUS
<1>1. CASE ErrorNow
  BY <1>1, ErrorNowInv
<1>2. CASE ~ErrorNow
  <2>1. Last(pLoopMark) \in Saved
    BY <1>2, FrontLast DEF LoopOnce, Inv, Typed
  <2>2. /\ JumpTo(Last(pLoopMark), "next") /\ lOptionalLoop' = FALSE
        /\ UNCHANGED <<pExitMark, pLoopMark, pForStep>>
    BY <1>2 DEF LoopOnce, marks
  <2>3. /\ pExitMark' \in Seq(Saved) /\ pLoopMark' \in Seq(Saved)
        /\ Len(pExitMark') = Len(pLoopMark') /\ pForStep' \in Seq(Steps \cup {0})
    BY <2>2 DEF Inv, Typed, MarksPaired
  <2> QED BY <2>1, <2>2, <2>3, JumpToInv
<1> QED BY <1>1, <1>2

LEMMA LoopInv == ASSUME NEW n \in Counts, Inv, Loop(n) PROVE Inv'
<1>1. CASE LoopOnce
  BY <1>1, LoopOnceInv
<1>2. CASE n \in 2..Len(pLoopMark) /\ lOptionalLoop' = TRUE /\ ExitLoops(n - 1)
  <2>1. n - 1 \in 1..Len(pExitMark)
    BY <1>2, LenProperties DEF Inv, Typed, MarksPaired
  <2> QED BY <1>2, <2>1, ExitLoopsInv
<1>3. CASE ErrorNow
  BY <1>3, ErrorNowInv
<1> QED BY <1>1, <1>2, <1>3 DEF Loop

LEMMA OptionalLoopInv == Inv /\ OptionalLoop => Inv'
<1> SUFFICES ASSUME Inv, OptionalLoop PROVE Inv'
  OBVIOUS
<1>1. CASE LoopOnce
  BY <1>1, LoopOnceInv
<1>2. CASE ~LoopOnce
  <2>1. pc' \in Locs /\ pc'.at = "body"
    BY <1>2 DEF OptionalLoop, Inv, Typed, Locs, Labels
  <2> QED
    BY <1>2, <2>1 DEF OptionalLoop, Inv, Typed, MarksPaired, CallStarts, marks
<1> QED BY <1>1, <1>2
-----------------------------------------------------------------------------
(* Try blocks. *)

(* Two errors at once: what both entries leave is cut to paired sizes. *)
LEMMA BothPaired ==
    ASSUME NEW s \in States, NEW t \in States,
           s.nExitMark = s.nLoopMark, t.nExitMark = t.nLoopMark
    PROVE  Both(s, t) \in States /\ Both(s, t).nExitMark = Both(s, t).nLoopMark
<1> DEFINE f == [x \in DOMAIN s |-> IF s[x] < t[x] THEN s[x] ELSE t[x]]
<1>1. DOMAIN s = {"nScopes", "nFuncCalls", "nSP", "nFuncSP",
                  "nExitMark", "nLoopMark", "nTry", "nForStep"}
  BY DEF States
<1>2. f = [nScopes |-> f["nScopes"], nFuncCalls |-> f["nFuncCalls"], nSP |-> f["nSP"],
           nFuncSP |-> f["nFuncSP"], nExitMark |-> f["nExitMark"],
           nLoopMark |-> f["nLoopMark"], nTry |-> f["nTry"], nForStep |-> f["nForStep"]]
  BY <1>1
<1>3. /\ f["nScopes"] \in Int /\ f["nSP"] \in Int /\ f["nFuncSP"] \in Int
      /\ f["nFuncCalls"] \in Nat /\ f["nExitMark"] \in Nat /\ f["nLoopMark"] \in Nat
      /\ f["nTry"] \in Nat /\ f["nForStep"] \in Nat
      /\ f["nExitMark"] = f["nLoopMark"]
  BY <1>1 DEF States
<1>4. Both(s, t) = f
  BY DEF Both
<1> HIDE DEF f
<1>5. f \in States
  BY <1>2, <1>3 DEF States
<1> QED BY <1>3, <1>4, <1>5

LEMMA ExitNonNumberInv == Inv /\ ExitNonNumber => Inv'
<1> SUFFICES ASSUME Inv, ExitNonNumber PROVE Inv'
  OBVIOUS
<1> DEFINE h == Len(pTry)
<1>1. CASE Uncaught
  BY <1>1, UncaughtInv
<1>2. CASE ~Uncaught
  <2>1. /\ Handled(h, nScopes) /\ Handled(h - 1, pTry[h].state.nScopes)
        /\ Unwind(h - 1, Both(pTry[h].state, pTry[h - 1].state), aFuncCall)
        /\ nSP' = pTry[h - 1].state.nSP
        /\ UNCHANGED <<lOptionalLoop, status>>
    BY <1>2 DEF ExitNonNumber
  <2>2. h \in 1..Len(pTry) /\ h - 1 \in 1..Len(pTry)
    BY <2>1, LenProperties DEF Handled, Inv, Typed
  <2>3. pTry[h] \in PairedSaved /\ pTry[h - 1] \in PairedSaved
    BY <2>2, ElementOfSeq DEF Inv, Typed
  <2>4. /\ pTry[h].state \in States /\ pTry[h - 1].state \in States
        /\ pTry[h].state.nExitMark = pTry[h].state.nLoopMark
        /\ pTry[h - 1].state.nExitMark = pTry[h - 1].state.nLoopMark
        /\ pTry[h - 1].state.nSP \in Int
    BY <2>3 DEF PairedSaved, Saved, States
  <2>5. /\ Both(pTry[h].state, pTry[h - 1].state) \in States
        /\ Both(pTry[h].state, pTry[h - 1].state).nExitMark
             = Both(pTry[h].state, pTry[h - 1].state).nLoopMark
    BY <2>4, BothPaired
  <2>6. aFuncCall \in Seq(PairedCalls) /\ nSP' \in Int
    BY <2>1, <2>4 DEF Inv, Typed
  <2> QED BY <2>1, <2>2, <2>5, <2>6, UnwindInv
<1> QED BY <1>1, <1>2

LEMMA EnterTryInv == Inv /\ EnterTry => Inv'
<1> SUFFICES ASSUME Inv, EnterTry PROVE Inv'
  OBVIOUS
<1> DEFINE path == Append(pc.path, Block("try", FALSE, 0))
           saved == VMState(Len(pExitMark), Len(pLoopMark), Len(pTry) + 1)
<1>1. Block("try", FALSE, 0) \in Blocks
  BY DEF Blocks
<1>2. path \in Seq(Blocks) \ {<<>>} /\ Loc(path, "body") \in Locs
  BY <1>1, PathGrows DEF Labels
<1>3. /\ Len(pExitMark) \in Nat /\ Len(pLoopMark) = Len(pExitMark)
      /\ Len(pTry) + 1 \in Nat
  BY LenProperties DEF Inv, Typed, MarksPaired
<1>4. saved \in States /\ saved.nExitMark = saved.nLoopMark
  BY <1>3, StateType DEF VMState
<1> HIDE DEF saved
<1>5. [path |-> path, state |-> saved] \in PairedSaved
  BY <1>2, <1>4 DEF PairedSaved, Saved
<1>6. pTry' = Append(pTry, [path |-> path, state |-> saved])
  BY DEF EnterTry, saved
<1>7. pTry' \in Seq(PairedSaved)
  BY <1>5, <1>6, AppendProperties DEF Inv, Typed
<1>8. pc' \in Locs /\ pc'.at = "body"
  BY <1>2 DEF EnterTry, Loc
<1> QED
  BY <1>7, <1>8 DEF EnterTry, Inv, Typed, MarksPaired, CallStarts, marks

LEMMA LeaveTryInv == Inv /\ LeaveTry => Inv'
<1> SUFFICES ASSUME Inv, LeaveTry PROVE Inv'
  OBVIOUS
<1>1. pc' \in Locs /\ pc'.at = "body"
  BY PathShrinks DEF LeaveTry, Loc
<1>2. pTry' \in Seq(PairedSaved)
  BY PopProperties DEF LeaveTry, Inv, Typed
<1> QED
  BY <1>1, <1>2 DEF LeaveTry, Inv, Typed, MarksPaired, CallStarts, marks

LEMMA LeaveCatchInv == Inv /\ LeaveCatch => Inv'
<1> SUFFICES ASSUME Inv, LeaveCatch PROVE Inv'
  OBVIOUS
<1>1. pc' \in Locs /\ pc'.at = "body"
  BY PathShrinks DEF LeaveCatch, Loc
<1> QED
  BY <1>1 DEF LeaveCatch, Inv, Typed, MarksPaired, CallStarts, marks

-----------------------------------------------------------------------------
LEMMA InitInv == Init => Inv
<1> SUFFICES ASSUME Init PROVE Inv
  OBVIOUS
<1>1. <<>> \in Seq(Blocks) /\ pc = Loc(<<>>, "body")
  BY DEF Init
<1>2. pc \in Locs /\ pc.at = "body"
  BY <1>1 DEF Loc, Locs, Labels
<1>3. /\ aFuncCall \in Seq(PairedCalls) /\ pTry \in Seq(PairedSaved)
      /\ pExitMark \in Seq(Saved) /\ pLoopMark \in Seq(Saved)
      /\ pForStep \in Seq(Steps \cup {0})
  BY EmptySeq DEF Init
<1>4. nScopes \in Int /\ nSP \in Int /\ nFuncSP \in Int
  BY DEF Init
<1>5. lOptionalLoop \in BOOLEAN /\ status \in {"run", "done", "error"} /\ pExitMark = pLoopMark
  BY DEF Init
<1> QED BY <1>2, <1>3, <1>4, <1>5 DEF Inv, Typed, MarksPaired, CallStarts

LEMMA NextInv == Inv /\ [Next]_vars => Inv'
<1> SUFFICES ASSUME Inv, [Next]_vars PROVE Inv'
  OBVIOUS
<1>1. CASE UNCHANGED vars
  BY <1>1 DEF vars, marks, Inv, Typed, MarksPaired, CallStarts
<1>2. CASE Raise \/ StackOverflow
  BY <1>2, ErrorNowInv DEF Raise, StackOverflow
<1>3. CASE PushOperand \/ FreeStack
  BY <1>3, PushOperandInv, FreeStackInv
<1>4. ASSUME NEW type \in {"script", "c"}, LoadFunc(type) PROVE Inv'
  BY <1>4, LoadFuncInv
<1>5. ASSUME NEW lSave \in BOOLEAN, CallScript(lSave) PROVE Inv'
  BY <1>5, CallScriptInv
<1>6. CASE NewFunc \/ Return \/ CallC \/ CallCRaise
  BY <1>6, NewFuncInv, ReturnInv, CallCInv, CallCRaiseInv
<1>7. CASE EndProgram
  BY <1>7 DEF EndProgram, Inv, Typed, MarksPaired, CallStarts, marks
<1>8. ASSUME NEW m \in MarkChoices, NEW s \in Steps, EnterFor(m, s) PROVE Inv'
  BY <1>8, EnterForInv
<1>9. ASSUME NEW m \in MarkChoices, EnterWhile(m) PROVE Inv'
  BY <1>9, EnterWhileInv
<1>10. CASE StepNumber \/ LoopTest \/ EndBody \/ LoopEnd \/ OptionalLoop
  BY <1>10, StepNumberInv, LoopTestInv, EndBodyInv, LoopEndInv, OptionalLoopInv
<1>11. ASSUME NEW n \in Counts, Exit(n) PROVE Inv'
  BY <1>11, ExitInv
<1>12. ASSUME NEW n \in Counts, Loop(n) PROVE Inv'
  BY <1>12, LoopInv
<1>13. CASE ExitNonNumber \/ EnterTry \/ LeaveTry \/ LeaveCatch
  BY <1>13, ExitNonNumberInv, EnterTryInv, LeaveTryInv, LeaveCatchInv
<1> QED
  BY <1>1, <1>2, <1>3, <1>4, <1>5, <1>6, <1>7, <1>8, <1>9, <1>10, <1>11, <1>12, <1>13
  DEF Next

(* Whatever the program does, and whatever the limits are, every list and   *)
(* every saved size keeps its type: restoring a state cuts to a real size.  *)
THEOREM TypeCorrect == Spec => []TypeOK
<1>1. Inv => TypeOK
  BY TypedImpliesTypeOK DEF Inv
<1> QED BY <1>1, InitInv, NextInv, PTL DEF Spec

(* ring_vm_exit() and ring_vm_popexitmark() may delete from both mark lists *)
(* with one index: in no program do the lists differ in length.             *)
THEOREM MarksStayPaired == Spec => []MarksPaired
<1>1. Inv => MarksPaired
  BY DEF Inv
<1> QED BY <1>1, InitInv, NextInv, PTL DEF Spec
=============================================================================
