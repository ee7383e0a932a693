--------------------------- MODULE MCTransaction ---------------------------
(* Instances of CpsTransaction for TLC: objects with two attributes. *)
EXTENDS CpsTransaction

Obj(x, y) == [a \in {"a", "b"} |-> IF a = "a" THEN x ELSE y]

OldObjects == {Absent, Obj(0, None)}
Changed == {Obj(1, None), Obj(2, 1)}
=============================================================================
