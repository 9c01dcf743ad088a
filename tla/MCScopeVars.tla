---------------------------- MODULE MCScopeVars ----------------------------
(* Instances of ScopeVars for model checking: a function of two parameters   *)
(* that uses the first one, and a function without parameters that has a  *)
(* for loop over v and is called from a program that uses v too.           *)
EXTENDS ScopeVars, TLC

MCParams == <<"p", "q">>
MCNoParams == <<>>

Ins(n, t, inc) == [name |-> n, text |-> t, inc |-> inc]

MCArguments == {Ins("p", "function", FALSE)}

MCVariables == {Ins("v", t, inc) : t \in Texts, inc \in BOOLEAN}

Symmetry == Permutations(Lists)
=============================================================================
