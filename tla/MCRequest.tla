----------------------------- MODULE MCRequest -----------------------------
(* An instance of CpsRequest for TLC: two owners, of which one serves a key *)
(* and the other one below it, and gets with up to two filters.             *)
EXTENDS CpsRequest, TLC

CONSTANTS o1, o2

Above == <<1>>
Below == <<1, 2>>
OneKey == {Below}

Obj(i, m) == [id |-> i, match |-> m]
TwoOwners == o1 :> <<[key |-> Above, ops |-> {"read"}]>>
             @@ o2 :> <<[key |-> Below, ops |-> {"read", "write"}], [key |-> Above, ops |-> {"read"}]>>
TheirObjects == o1 :> (Above :> <<Obj(1, TRUE), Obj(2, FALSE)>>)
                @@ o2 :> (Below :> <<Obj(3, FALSE), Obj(4, TRUE)>> @@ Above :> <<Obj(5, TRUE)>>)
InDatabases == <<<<>>, <<Obj(6, FALSE), Obj(7, TRUE)>>>>

F(exact, goOn, db) == [key |-> Below, exact |-> exact, goOn |-> goOn, db |-> db]
G(fs, ks, timed) == [filters |-> fs, keys |-> ks, timed |-> timed]
Gets == {G(<<F(FALSE, FALSE, FALSE), F(TRUE, TRUE, TRUE)>>, FALSE, FALSE),
         G(<<F(TRUE, TRUE, FALSE), F(TRUE, FALSE, FALSE)>>, FALSE, TRUE),
         G(<<F(TRUE, FALSE, TRUE), F(FALSE, FALSE, FALSE)>>, TRUE, FALSE),
         G(<<>>, FALSE, FALSE)}
=============================================================================
