---------------------------- MODULE CpsAttributes ----------------------------
(***************************************************************************)
(* What the attributes of an object mean to its users, as cps_api_object.h *)
(* describes them: an ordered tree.  An attribute has an identifier and    *)
(* either a value or further attributes; a path of identifiers names the   *)
(* first attribute with each of them.  CpsObject keeps such a tree beside  *)
(* every buffer, and the checks compare the two.                           *)
(***************************************************************************)
EXTENDS Integers, Sequences, SequencesExt, FiniteSetsExt

Leaf(tag, value) == [tag |-> tag, value |-> value, kids |-> <<>>]
Node(tag, kids) == [tag |-> tag, value |-> <<>>, kids |-> kids]

\* the places of the attributes of t with an identifier, and the first one
Places(t, tag) == {i \in DOMAIN t : t[i].tag = tag}
First(t, tag) == IF Places(t, tag) = {} THEN 0 ELSE Min(Places(t, tag))

\* the attributes that path[1], ..., path[k - 1] lead to, for each k
Along(t, path) ==
    LET at[k \in 1 .. Len(path)] ==
            IF k = 1 THEN t
            ELSE LET up == at[k-1]
                     i  == First(up, path[k-1])
                 IN IF i = 0 THEN <<>> ELSE up[i].kids
    IN at

\* t with the attributes `new` added where the path leads: existing
\* containers are used, missing ones are made
Grafted(t, path, new) ==
    LET at == Along(t, path)
        put[k \in 1 .. Len(path)] ==
            IF k = Len(path) THEN Append(at[k], new)
            ELSE LET i == First(at[k], path[k])
                 IN IF i = 0 THEN Append(at[k], Node(path[k], put[k+1]))
                    ELSE [at[k] EXCEPT ![i].kids = put[k+1]]
    IN put[1]

WithoutTags(t, tags) == SelectSeq(t, LAMBDA a : a.tag \notin tags)

IsEmpty(a) == a.value = <<>> /\ a.kids = <<>>

\* The attributes of s replace those of t with the same identifier.  An empty
\* attribute of s only removes them, which cps_api_object.h does not say: this
\* is what cps_api_object_attr_merge does.
Overlaid(t, s) ==
    WithoutTags(t, {s[i].tag : i \in DOMAIN s})
    \o WithoutTags(s, {s[i].tag : i \in {j \in DOMAIN s : IsEmpty(s[j])}})

\* the attributes a path names, in order
NamedBy(t, path) == SelectSeq(Along(t, path)[Len(path)], LAMBDA a : a.tag = Last(path))

=============================================================================
