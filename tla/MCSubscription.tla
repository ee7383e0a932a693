-------------------------- MODULE MCSubscription --------------------------
(* An instance of CpsSubscription for TLC: the local node and another one, *)
(* which are both in a group at first; one of them leaves it.              *)
EXTENDS CpsSubscription

Here == <<0>>
There == <<1>>
TwoNodes == {Here, There}
CONSTANTS a, k, m

BothInGroup == {<<a, k>>, <<a, m>>}
NoPorts == [g \in Groups |-> [n \in Nodes |-> 0]]
EachOrBoth == {{There}, TwoNodes}
=============================================================================
