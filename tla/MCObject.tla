------------------------------ MODULE MCObject ------------------------------
(***************************************************************************)
(* A caller with two allocated objects, one on its stack and two lists.    *)
(* The identifiers are those of a list (10) whose entries 0 and 1 hold a   *)
(* second list (11), and leaves 20 and 21: only where lists are nested do  *)
(* the identifiers of entries occur at two depths.                         *)
(***************************************************************************)
EXTENDS CpsObject, TLC

CONSTANTS o1, o2, o3, st, l1, l2, MaxEdits, MaxMoves, Few

VARIABLES edits, moves

ObjectPaths ==
    {<<20>>, <<10, 0, 20>>, <<10, 1, 20>>, <<10, 0, 11, 0, 20>>, <<10, 0, 11, 1, 20>>}

Values(path) == IF Len(path) = 1 THEN {<<>>, <<2>>} ELSE {<<1>>}

ListSymmetry == Permutations(Lists)

vars == <<objectVars, edits, moves>>

\* o1 starts empty, or with an entry of the inner list and a second entry of
\* the outer one
Filled ==
    EAdd(EAdd(<<>>, <<10, 0, 11, 0, 20>>, <<Data(1)>>), <<10, 1, 20>>, <<Data(1)>>)

MCInit ==
    /\ \/ ObjectInit({o1, o2}, o1, <<>>, DefSize)
       \/ ObjectInit({o1, o2}, o1, Filled, Len(Filled) + StepSize)
    /\ edits = 0 /\ moves = 0

\* o1 is the object under construction, the others are sources and copies
MCEdit ==
    /\ edits < MaxEdits /\ edits' = edits + 1 /\ UNCHANGED moves
    /\ \/ \E o \in {o1, o2, st}, path \in Paths :
            /\ o = o1 \/ Len(path) < 4
            /\ \E v \in Values(path) : AddValue(o, path, v)
       \/ \E s \in {o2, st}, path \in {<<10, 1>>} : AddObject(o1, path, s)
       \/ \E o \in {o1, st}, tag \in {10, 20} : Delete(o, tag)
       \/ \E p \in 1 .. Len(buf[o1]) : DeleteIt(o1, p)
       \/ Replace(o1, 20, 21)
       \/ \E d \in {o1, st}, s \in {o1, o2, st}, dup \in BOOLEAN : Merge(d, s, dup)
       \/ \E d \in {o2, st}, s \in {o1, o2} : Clone(d, s) \/ FromArray(d, s)
       \/ Swap(o1, o2)

MCMove ==
    /\ moves < MaxMoves /\ moves' = moves + 1 /\ UNCHANGED edits
    /\ \/ \E o \in Objects :
            Create(o) \/ Reference(o) \/ ObjectDelete(o)
       \/ \E l \in Lists, o \in Objects :
            \/ ListAppend(l, o) \/ ListAppendRef(l, o) \/ ListAppendClone(l, o)
            \/ ListCreate(l, o)
       \/ \E l \in Lists, k \in 1 .. 2, o \in Objects \cup {Null}, f \in BOOLEAN : ListSet(l, k, o, f)
       \/ \E l, m \in Lists :
            \/ \E s \in 0 .. 1, n \in 1 .. 2 : ListMerge(l, m, s, n)
            \/ \E deep \in BOOLEAN : ListClone(l, m, deep)
       \/ \E l \in Lists :
            \/ \E del \in BOOLEAN : ListClear(l, del)
            \/ \E k \in 1 .. 2 : ListRemove(l, k)

\* long runs of edits with few moves, and long runs of moves with few edits
MCNext ==
    \/ moves <= Few /\ MCEdit
    \/ edits <= Few /\ MCMove

MCSpec == MCInit /\ [][MCNext]_vars

=============================================================================
