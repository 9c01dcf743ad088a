---------------------------- MODULE ControlStack ----------------------------
(***************************************************************************)
(* What a program sees of control flow: one stack of open blocks.  Every   *)
(* command that leaves blocks cuts this stack at a place determined by the *)
(* program's text alone.  VMControl, which keeps five separate lists, is   *)
(* shown to implement it.                                                  *)
(***************************************************************************)
EXTENDS Naturals, Sequences

CONSTANT Blocks  \* open blocks: records with fields kind and marked

VARIABLES ctl, over

vars == <<ctl, over>>

Func == [kind |-> "func", marked |-> FALSE]

(* A step is stated of c and d, the stack before it and after it. *)

(* The positions of the blocks of one kind, and the innermost of them. *)
Positions(c, kind) == {i \in 1..Len(c) : c[i].kind = kind}

Innermost(c, kind) ==
    CHOOSE i \in Positions(c, kind) : \A j \in Positions(c, kind) : j <= i

Cut(c, n) == SubSeq(c, 1, n)

MarkedLoops(c) ==
    {i \in 1..Len(c) : c[i].kind \in {"for", "while"} /\ c[i].marked}

Init == ctl = <<>> /\ over = FALSE

Open(c, d) == Len(d) = Len(c) + 1 /\ Cut(d, Len(c)) = c /\ d[Len(d)] \in Blocks

Call(c, d) == d = Append(c, Func)

(* A loop, a try block or a catch block runs to its end. *)
Close(c, d) ==
    /\ c # <<>> /\ c[Len(c)].kind # "func"
    /\ d = Cut(c, Len(c) - 1)

(* return leaves the innermost function and every block it opened. *)
Return(c, d) ==
    /\ Positions(c, "func") # {}
    /\ d = Cut(c, Innermost(c, "func") - 1)

(* exit n and loop n go back to a loop of the same function. *)
ExitTo(c, d) ==
    \E i \in MarkedLoops(c) :
        /\ \A j \in Positions(c, "func") : j < i
        /\ d = Cut(c, i)

(* An error is handled by the innermost try block. *)
Handle(c, d) ==
    /\ Positions(c, "try") # {}
    /\ LET i == Innermost(c, "try")
       IN  d = Append(Cut(c, i - 1), [c[i] EXCEPT !.kind = "catch"])

(* The program ends where it ends, or by an error that no try block can take. *)
Stop ==
    /\ Positions(ctl, "try") = {}
    /\ over' = TRUE
    /\ UNCHANGED ctl

Move ==
    \E c \in {ctl}, d \in {ctl'} :
        /\ \/ Open(c, d) \/ Call(c, d) \/ Close(c, d)
           \/ Return(c, d) \/ ExitTo(c, d) \/ Handle(c, d)
        /\ UNCHANGED over

Next == ~over /\ (Move \/ Stop)

Spec == Init /\ [][Next]_vars
=============================================================================
