------------------------------- MODULE MCSync -------------------------------
(* An instance of CpsSync for TLC. *)
EXTENDS CpsSync, TLC

First == [a |-> 1, b |-> 1]
Second == [a |-> 2, b |-> 2]
Objects == {First, Second}
OneAttribute == [a |-> 2, b |-> None]

\* The first synchronisation has an object to change, one to create and one to
\* delete, in any order, or finds the same objects on both sides.
Kinds == {<<First, Second>>, <<First, Absent>>, <<Absent, Second>>}
OneOfEach == {b \in [Keys -> Kinds] : IsInjective(b)}
Same == [k \in Keys |-> <<First, First>>]
OneOfEachOrSame == OneOfEach \cup {Same}
=============================================================================
