---------------------------- MODULE CpsDispatch ----------------------------
(***************************************************************************)
(* How an application that serves CPS objects finds the function for a     *)
(* request (src/src/cps_api_operation_service.cpp): the vector             *)
(* db_functions is kept so that the first function whose key is a prefix   *)
(* of the request's key is the right one.                                  *)
(*                                                                         *)
(* A key is a sequence of elements.  A registered function is a key and    *)
(* the set of the operations it has a callback for.                        *)
(***************************************************************************)
EXTENDS Naturals, Sequences

Operations == {"read", "write", "rollback"}

\* cps_api_key_matches(q, p, false) == 0, on cps_api_key_array_matches.
IsPrefix(p, q) ==
    /\ Len(p) <= Len(q)
    /\ \A n \in 1..Len(p) : p[n] = q[n]

\* insert_functions stops at the first function whose key is a prefix of the
\* new one's, or behind the last.
StopsAtEnd(fs, key, i) == i = Len(fs) + 1
StopsAt(fs, key, i) ==
    /\ \A j \in 1..(i - 1) : ~IsPrefix(fs[j].key, key)
    /\ i <= Len(fs) => IsPrefix(fs[i].key, key)

InsertBefore(fs, i, f) ==
    [n \in 1..(Len(fs) + 1) |-> IF n < i THEN fs[n] ELSE IF n = i THEN f ELSE fs[n - 1]]

\* What is in db_functions after the registration of f.
insert_functions(fs, f) ==
    {InsertBefore(fs, i, f) : i \in {j \in 1..(Len(fs) + 1) : StopsAt(fs, f.key, j)}}

\* No function stands behind one whose key is above its own.
Ordered(fs) ==
    \A i, j \in DOMAIN fs :
        i < j /\ IsPrefix(fs[i].key, fs[j].key) => fs[i].key = fs[j].key

\* The loops of cps_api_handle_get, _commit and _revert run the first function
\* that has a callback for the operation and a key above the request's.
Handles(f, op, q) == op \in f.ops /\ IsPrefix(f.key, q)
FirstHandler(fs, op, q) ==
    {i \in DOMAIN fs : /\ Handles(fs[i], op, q)
                       /\ \A j \in 1..(i - 1) : ~Handles(fs[j], op, q)}
=============================================================================
