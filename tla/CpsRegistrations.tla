-------------------------- MODULE CpsRegistrations --------------------------
(***************************************************************************)
(* The registrations of a key, and what is left of them when a connection  *)
(* is gone.  Shared by the directory and the table that implements it.     *)
(***************************************************************************)
EXTENDS Naturals, Sequences

\* The first n registrations of s without the ones made on fd, for every n.
Kept(s, fd) ==
    LET kept[n \in 0..Len(s)] ==
            IF n = 0 THEN <<>>
            ELSE IF s[n].fd = fd THEN kept[n - 1]
                 ELSE Append(kept[n - 1], s[n])
    IN kept

\* The registrations of s without the ones made on fd.
Without(s, fd) == Kept(s, fd)[Len(s)]
=============================================================================
