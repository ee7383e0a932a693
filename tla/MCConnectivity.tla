-------------------------- MODULE MCConnectivity --------------------------
(* An instance of CpsConnectivity for TLC: the local node and two others,  *)
(* of which one has a name the local node's begins with.  The type of a    *)
(* group is the part of it that its hash leaves out.                       *)
EXTENDS CpsConnectivity, TLC

CONSTANT a

Here == <<1, 0>>
There == <<1>>
Elsewhere == <<2>>
ThreeNodes == {Here, There, Elsewhere}

ThreePorts == a :> (Here :> 1 @@ There :> 2 @@ Elsewhere :> 3)

Choices ==
    a :> {[type |-> "global", nodes |-> ThreeNodes],
          [type |-> "nodal", nodes |-> ThreeNodes]}
=============================================================================
