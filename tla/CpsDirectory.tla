---------------------------- MODULE CpsDirectory ----------------------------
(***************************************************************************)
(* What the name service promises: for every key the list of the           *)
(* applications that registered it, oldest first, from which everything a  *)
(* connection registered disappears as one when that connection closes.    *)
(* CpsNameService is shown to implement this specification.                *)
(***************************************************************************)
EXTENDS CpsRegistrations

CONSTANTS Keys, Fds, Clients

VARIABLE dir    \* dir[k]: the registrations [addr, fd] of key k, oldest first

Init == dir = [k \in Keys |-> <<>>]

Register(fd, c, k) ==
    dir' = [dir EXCEPT ![k] = Append(@, [addr |-> c, fd |-> fd])]

Disconnect(fd) ==
    dir' = [k \in Keys |-> Without(dir[k], fd)]

Next ==
    \/ \E fd \in Fds, c \in Clients, k \in Keys : Register(fd, c, k)
    \/ \E fd \in Fds : Disconnect(fd)

Spec == Init /\ [][Next]_dir

-----------------------------------------------------------------------------
\* The registered keys that a query for key q falls under.
Prefixes(q) ==
    {k \in Keys : dir[k] # <<>> /\ Len(k) <= Len(q) /\ k = SubSeq(q, 1, Len(k))}

\* The application that is asked about q: the first to register the longest of
\* them (none is an empty set).
Answer(q) ==
    {dir[k][1].addr : k \in {p \in Prefixes(q) : \A o \in Prefixes(q) : Len(o) <= Len(p)}}
=============================================================================
