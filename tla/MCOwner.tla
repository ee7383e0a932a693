------------------------------ MODULE MCOwner ------------------------------
(* The instance of CpsOwner for TLC: a key and one below it. *)
EXTENDS CpsOwner

TwoKeys == {<<1>>, <<1, 2>>}
ReadOnly == {{"read"}}
=============================================================================
