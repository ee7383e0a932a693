--------------------------- MODULE MCNameService ---------------------------
(* Instances of CpsNameService for TLC. *)
EXTENDS CpsNameService, TLC

\* A key, a key below it, and two more that share a bucket.
MCKeys == {<<1>>, <<1, 2>>, <<2>>, <<3>>}
MCHashes == {"x", "y", "z"}
MCHash == [k \in MCKeys |-> CASE k = <<1>> -> "x"
                              [] k = <<1, 2>> -> "y"
                              [] OTHER -> "z"]
=============================================================================
