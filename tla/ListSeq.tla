------------------------------ MODULE ListSeq ------------------------------
(***************************************************************************)
(* What a Ring list promises: a sequence of values, and operations that    *)
(* change one position and leave every other value where it was.           *)
(***************************************************************************)
EXTENDS Naturals, Sequences, SequencesExt

CONSTANT Values

VARIABLE values

Init == values = <<>>

Add(v) == values' = Append(values, v)

(* The new value comes after the first n values. *)
Insert(n, v) == values' = InsertAt(values, n + 1, v)

Delete(n) == values' = RemoveAt(values, n)

Set(n, v) == values' = [values EXCEPT ![n] = v]

Swap(m, n) == values' = [values EXCEPT ![m] = values[n], ![n] = values[m]]

DeleteAll == values' = <<>>

Next ==
    \/ \E v \in Values : Add(v)
    \/ \E n \in 0..Len(values), v \in Values : Insert(n, v)
    \/ \E n \in DOMAIN values : Delete(n)
    \/ \E n \in DOMAIN values, v \in Values : Set(n, v)
    \/ \E m, n \in DOMAIN values : Swap(m, n)
    \/ DeleteAll

Spec == Init /\ [][Next]_values
=============================================================================
