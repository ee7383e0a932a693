------------------------------ MODULE CpsObject ------------------------------
(***************************************************************************)
(* CPS objects: cps_api_object.cpp and cps_api_object_attr.cpp.            *)
(*                                                                         *)
(* An object is one buffer that holds its attributes one after the other,  *)
(* each a header (identifier and length) followed by the data; the data of *)
(* a container are again attributes.  The buffer grows by reallocation     *)
(* unless the object was built in memory of the caller.  The model keeps   *)
(* the buffer cell by cell, a header being one cell, because every edit is *)
(* a memmove with lengths the code computes itself: an edit whose lengths  *)
(* are wrong damages attributes it was not asked to touch.                 *)
(*                                                                         *)
(* Objects are counted references.  A list of objects takes over, copies   *)
(* or drops references depending on the call.                              *)
(***************************************************************************)
EXTENDS CpsAttributes, FiniteSets

CONSTANTS
    Objects,        \* what can be allocated, and the objects on a stack
    OnStack,        \* the objects made by cps_api_object_init
    Lists,          \* the object lists
    Null,           \* the null pointer
    Leaves,         \* identifiers of attributes that hold a value
    Containers,     \* identifiers of attributes that hold attributes
    Paths,          \* the identifier lists callers use, each ending in a leaf
    DefSize,        \* DEF_OBJECT_SIZE, in cells
    StepSize,       \* DEF_OBJECT_REALLOC_STEP_SIZE, in cells
    KeyCells        \* sizeof(cps_api_object_data_t), in cells

ASSUME ObjectAssumption ==
    /\ OnStack \subseteq Objects /\ Null \notin Objects
    /\ Leaves \subseteq Nat /\ Containers \subseteq Nat
    /\ Leaves \intersect Containers = {}
    /\ \A path \in Paths : Last(path) \in Leaves /\ Range(Front(path)) \subseteq Containers
    /\ DefSize \in Nat /\ StepSize \in Nat /\ KeyCells \in Nat

VARIABLES
    buf,        \* the used part of an object's buffer, a sequence of cells
    len,        \* the number of cells the buffer has
    ref,        \* ref_count; 0 when the object is not allocated
    torn,       \* the objects whose buffer an embedded add has damaged
    attrs,      \* the attributes the callers of the API were told it has
    list,       \* the content of each object list
    held        \* the references callers hold themselves

contentVars == <<buf, len, torn, attrs>>
refVars == <<ref, list, held>>
objectVars == <<contentVars, refVars>>

----------------------------------------------------------------------------
(* The std_tlv functions. *)

Header(tag, n) == [tag |-> tag, len |-> n, byte |-> 0]
Data(v) == [tag |-> -1, len |-> 0, byte |-> v]

\* std_tlv_find_next: the first attribute `tag` of the attributes that fill
\* the cells p..e-1, or 0
Find(b, p, e, tag) ==
    LET find[q \in p .. e] ==
            IF q >= e THEN 0
            ELSE IF b[q].tag = tag THEN q ELSE find[q + 1 + b[q].len]
    IN find[p]

\* the cell after the attribute at p
After(b, p) == p + 1 + b[p].len

\* where the attributes that fill the cells p..e-1 start
Starts(b, p, e) ==
    LET next[q \in p .. e] == IF q >= e THEN {} ELSE {q} \union next[After(b, q)]
    IN next[p]

TopLevel(b) == Starts(b, 1, Len(b) + 1)

Cut(b, p) == SubSeq(b, 1, p - 1) \o SubSeq(b, After(b, p), Len(b))

----------------------------------------------------------------------------
(* Reading. *)

\* cps_api_object_it: follow the identifiers, inside each attribute found;
\* e is where the container of the attribute ends
It(b, path) ==
    LET at[k \in 0 .. Len(path)] ==
            IF k = 0 THEN [p |-> 1, e |-> Len(b) + 1, hit |-> 0]
            ELSE IF at[k-1].p = 0 THEN at[k-1]
            ELSE LET q == Find(b, at[k-1].p, at[k-1].e, path[k])
                 IN IF q = 0 THEN [p |-> 0, e |-> 0, hit |-> 0]
                    ELSE [p |-> IF k = Len(path) THEN q ELSE q + 1,
                          e |-> IF k = Len(path) THEN at[k-1].e ELSE After(b, q),
                          hit |-> q]
    IN at[Len(path)]

AttrData(b, p) == SubSeq(b, p + 1, After(b, p) - 1)

\* cps_api_object_e_get_list_data: the data of every attribute with the last
\* identifier from the one found to the end of its container
ListData(b, path) ==
    LET it == It(b, path)
        from[q \in 0 .. Len(b) + 1] ==
            IF q = 0 THEN <<>>
            ELSE <<AttrData(b, q)>>
                 \o from[Find(b, After(b, q), it.e, Last(path))]
    IN from[it.hit]

FillListFirst(b, tags) ==
    [t \in tags |-> LET at == {p \in TopLevel(b) : b[p].tag = t}
                    IN IF at = {} THEN 0 ELSE Min(at)]

\* cps_api_object_attr_fill_list: the attribute of each identifier, the last
\* one where there are several
FillList(b, tags) ==
    [t \in tags |-> LET at == {p \in TopLevel(b) : b[p].tag = t}
                    IN IF at = {} THEN 0 ELSE Max(at)]

----------------------------------------------------------------------------
(* Space. *)

\* obj_realloc: only memory of the library's own can be reallocated
CanRealloc(o) == o \notin OnStack

\* reserve_spacespace
CanReserve(o, n) == len[o] - Len(buf[o]) >= n \/ CanRealloc(o)
Reserved(o, n) ==
    IF len[o] - Len(buf[o]) >= n THEN len[o] ELSE n + Len(buf[o]) + StepSize

----------------------------------------------------------------------------
(* Adding an attribute inside containers. *)

\* The first pass of add_embedded counts the containers that exist.  It
\* enters an attribute without ending at its end: what follows the container
\* is searched too.
Counted(b, path) ==
    LET in[k \in 0 .. Len(path) - 1] ==
            IF k = 0 THEN [p |-> 1, n |-> 0]
            ELSE IF in[k-1].n < k - 1 THEN in[k-1]
            ELSE LET q == Find(b, in[k-1].p, Len(b) + 1, path[k])
                 IN IF q = 0 THEN in[k-1] ELSE [p |-> q + 1, n |-> k]
    IN in[Len(path) - 1].n

Needed(b, path, data) == Len(data) + Len(path) - Counted(b, path)

\* The second pass stays inside each container: the headers it entered and
\* the cell after the innermost one's data
Entered(b, path) ==
    LET in[k \in 0 .. Len(path) - 1] ==
            IF k = 0 THEN [p |-> 1, e |-> Len(b) + 1, heads |-> <<>>]
            ELSE IF Len(in[k-1].heads) < k - 1 THEN in[k-1]
            ELSE LET q == Find(b, in[k-1].p, in[k-1].e, path[k])
                 IN IF q = 0 THEN in[k-1]
                    ELSE [p |-> q + 1, e |-> After(b, q),
                          heads |-> Append(in[k-1].heads, q)]
    IN in[Len(path) - 1]

\* what is written at the end of the innermost container: the headers of the
\* containers that are missing, then the attribute
Written(path, found, needed, data) ==
    [k \in 1 .. Len(path) - 1 - found |-> Header(path[found + k], needed - k)]
    \o <<Header(Last(path), Len(data))>> \o data

\* add_embedded: the containers found grow by the space needed, what follows
\* moves up by it, and the new cells are written over the gap
Embedded(b, path, data) ==
    LET needed == Needed(b, path, data)
        inner  == Entered(b, path)
        grown  == [q \in DOMAIN b |->
                     IF q \in Range(inner.heads)
                     THEN Header(b[q].tag, b[q].len + needed) ELSE b[q]]
        w      == Written(path, Len(inner.heads), needed, data)
        moved  == SubSeq(grown, 1, inner.e - 1)
                  \o [k \in 1 .. needed |-> Data(0)]
                  \o SubSeq(grown, inner.e, Len(b))
    IN [q \in 1 .. Len(b) + needed |->
            IF q \in inner.e .. inner.e + Len(w) - 1
            THEN w[q - inner.e + 1] ELSE moved[q]]

\* cps_api_object_e_add
EAdd(b, path, data) ==
    IF Len(path) = 1 THEN b \o <<Header(path[1], Len(data))>> \o data
    ELSE Embedded(b, path, data)

ENeeded(b, path, data) ==
    IF Len(path) = 1 THEN Len(data) + 1 ELSE Needed(b, path, data)

\* the two passes disagree about the containers that exist
Disagree(b, path) ==
    Len(path) > 1 /\ Counted(b, path) # Len(Entered(b, path).heads)

----------------------------------------------------------------------------
(* The remaining edits of a buffer. *)

AttrDeleteOne(b, tags) ==
    LET at == {p \in TopLevel(b) : b[p].tag \in tags}
    IN IF at = {} THEN b ELSE Cut(b, Min(at))

\* cps_api_object_attr_delete: every top-level attribute with the identifier
AttrDelete(b, tags) ==
    LET keep[q \in 1 .. Len(b) + 1] ==
            IF q > Len(b) THEN <<>>
            ELSE (IF b[q].tag \in tags THEN <<>>
                  ELSE SubSeq(b, q, After(b, q) - 1)) \o keep[After(b, q)]
    IN keep[1]

TopTags(b) == {b[p].tag : p \in TopLevel(b)}
EmptyTags(b) == {b[p].tag : p \in {q \in TopLevel(b) : b[q].len = 0}}

\* Mutant: what both have is deleted from the source too.
MergeSrcRepeated(d, s, dup) == IF dup /\ d # <<>> THEN AttrDelete(s, TopTags(d)) ELSE s

\* the destination and the source after __delete_repeated_attributes
MergeDest(d, s, dup) == IF dup /\ d # <<>> THEN AttrDelete(d, TopTags(s)) ELSE d
MergeSrc(d, s, dup) == IF dup /\ d # <<>> THEN AttrDelete(s, EmptyTags(s)) ELSE s

\* cps_api_object_it_attr_replace over the top level of an object
Replaced(b, match, with) ==
    [p \in DOMAIN b |-> IF p \in TopLevel(b) /\ b[p].tag = match
                        THEN Header(with, b[p].len) ELSE b[p]]

----------------------------------------------------------------------------
(* Operations on the content of objects. *)

Live(o) == ref[o] > 0
Readable(o) == Live(o) /\ o \notin torn

\* cps_api_object_e_add
Add(o, path, data, new) ==
    /\ Readable(o)
    /\ CanReserve(o, ENeeded(buf[o], path, data))
    /\ len' = [len EXCEPT ![o] = Reserved(o, ENeeded(buf[o], path, data))]
    /\ buf' = [buf EXCEPT ![o] = EAdd(@, path, data)]
    /\ torn' = IF Disagree(buf[o], path) THEN torn \union {o} ELSE torn
    /\ attrs' = [attrs EXCEPT ![o] = Grafted(@, path, new)]
    /\ UNCHANGED refVars

AddValue(o, path, v) == Add(o, path, [k \in DOMAIN v |-> Data(v[k])], Leaf(Last(path), v))

\* cps_api_object_e_add_object: the attributes of s become the data.  An
\* object is not added to itself: the data would be read from where the
\* buffer was before it grew.
AddObject(o, path, s) ==
    s # o /\ Readable(s) /\ Add(o, path, buf[s], Node(Last(path), attrs[s]))

\* cps_api_object_attr_delete
Delete(o, tag) ==
    /\ Readable(o)
    /\ buf' = [buf EXCEPT ![o] = AttrDelete(@, {tag})]
    /\ attrs' = [attrs EXCEPT ![o] = WithoutTags(@, {tag})]
    /\ UNCHANGED <<len, torn, refVars>>

\* cps_api_object_delete_it, with an iterator at the top level
DeleteIt(o, p) ==
    /\ Readable(o) /\ p \in TopLevel(buf[o])
    /\ buf' = [buf EXCEPT ![o] = Cut(@, p)]
    /\ attrs' = [attrs EXCEPT ![o] =
                    RemoveAt(@, Cardinality({q \in TopLevel(buf[o]) : q <= p}))]
    /\ UNCHANGED <<len, torn, refVars>>

\* cps_api_object_it_attr_replace
Replace(o, match, with) ==
    /\ Readable(o)
    /\ buf' = [buf EXCEPT ![o] = Replaced(@, match, with)]
    /\ attrs' = [attrs EXCEPT ![o] =
                    [i \in DOMAIN @ |-> IF @[i].tag = match
                                        THEN [@[i] EXCEPT !.tag = with] ELSE @[i]]]
    /\ UNCHANGED <<len, torn, refVars>>

\* cps_api_object_attr_merge: the repeated attributes are gone even when
\* there is then no room for the others
Merge(d, s, dup) ==
    LET dest == MergeDest(buf[d], buf[s], dup)
        src  == MergeSrc(buf[d], buf[s], dup)
        tot  == Len(dest) + Len(src)
    IN /\ Readable(d) /\ Readable(s)
       /\ buf[s] # <<>>
       /\ \/ /\ len[d] >= tot \/ CanRealloc(d)
             /\ buf' = [buf EXCEPT ![d] = dest \o src]
             /\ len' = [len EXCEPT ![d] = IF @ < tot THEN tot ELSE @]
             /\ attrs' = [attrs EXCEPT ![d] = IF dup /\ @ # <<>> THEN Overlaid(@, attrs[s])
                                              ELSE @ \o attrs[s]]
          \/ /\ ~(len[d] >= tot \/ CanRealloc(d))
             /\ buf' = [buf EXCEPT ![d] = dest]
             /\ attrs' = [attrs EXCEPT ![d] =
                    IF dup THEN WithoutTags(@, {a.tag : a \in Range(attrs[s])}) ELSE @]
             /\ UNCHANGED len
       /\ UNCHANGED <<torn, refVars>>

\* cps_api_object_clone
Clone(d, s) ==
    /\ Live(d) /\ Readable(s) /\ d # s
    /\ len[d] >= Len(buf[s]) \/ CanRealloc(d)
    /\ buf' = [buf EXCEPT ![d] = buf[s]]
    /\ len' = [len EXCEPT ![d] = IF @ < Len(buf[s]) THEN len[s] ELSE @]
    /\ attrs' = [attrs EXCEPT ![d] = attrs[s]]
    /\ torn' = torn \ {d}
    /\ UNCHANGED refVars

\* cps_api_array_to_object, with the array of s.  The attributes of the
\* object are dropped before it is known that the array fits.
FromArray(d, s) ==
    /\ Live(d) /\ Readable(s) /\ d # s
    /\ buf' = [buf EXCEPT ![d] = IF CanRealloc(d) THEN buf[s] ELSE <<>>]
    /\ len' = [len EXCEPT ![d] = IF CanRealloc(d) THEN Len(buf[s]) + KeyCells ELSE @]
    /\ attrs' = [attrs EXCEPT ![d] = IF CanRealloc(d) THEN attrs[s] ELSE <<>>]
    /\ torn' = torn \ {d}
    /\ UNCHANGED refVars

\* cps_api_object_swap: the content changes places, the references do not.
\* Its callers give it allocated objects: with one on the stack, the mark that
\* tells which memory may be freed would change places as well.
Swap(d, s) ==
    /\ Readable(d) /\ Readable(s) /\ {d, s} \intersect OnStack = {} /\ d # s
    /\ buf' = [buf EXCEPT ![d] = buf[s], ![s] = buf[d]]
    /\ len' = [len EXCEPT ![d] = len[s], ![s] = len[d]]
    /\ attrs' = [attrs EXCEPT ![d] = attrs[s], ![s] = attrs[d]]
    /\ UNCHANGED <<torn, refVars>>

----------------------------------------------------------------------------
(* References. *)

Free == {o \in Objects : ref[o] = 0}

\* objects o1, o2, ... of a sequence gain a reference each time they occur
Occurs(o, s) == Cardinality({k \in DOMAIN s : s[k] = o})
NotGained(s) == ref
Gained(s) == [o \in Objects |-> ref[o] + Occurs(o, s)]

\* obj_delloc: memory of the caller's keeps its last reference
Dropped(s) ==
    [o \in Objects |->
        LET n == ref[o] - Occurs(o, s)
        IN IF o \in OnStack /\ n < 1 THEN 1 ELSE n]

\* the buffers of the objects whose last reference went are given back
Released(r) ==
    /\ buf' = [o \in Objects |-> IF ref[o] > 0 /\ r[o] = 0 THEN <<>> ELSE buf[o]]
    /\ len' = [o \in Objects |-> IF ref[o] > 0 /\ r[o] = 0 THEN 0 ELSE len[o]]
    /\ attrs' = [o \in Objects |-> IF ref[o] > 0 /\ r[o] = 0 THEN <<>> ELSE attrs[o]]
    /\ torn' = {o \in torn : r[o] > 0}

Hold(s) == [o \in Objects |-> held[o] + Occurs(o, s)]

\* cps_api_object_create
Create(o) ==
    /\ o \in Free
    /\ buf' = [buf EXCEPT ![o] = <<>>]
    /\ len' = [len EXCEPT ![o] = DefSize]
    /\ ref' = [ref EXCEPT ![o] = 1]
    /\ held' = [held EXCEPT ![o] = 1]
    /\ UNCHANGED <<torn, attrs, list>>

\* cps_api_object_reference
Reference(o) ==
    /\ Live(o)
    /\ ref' = [ref EXCEPT ![o] = @ + 1]
    /\ held' = [held EXCEPT ![o] = @ + 1]
    /\ UNCHANGED <<contentVars, list>>

\* cps_api_object_delete
ObjectDelete(o) ==
    /\ held[o] > 0 /\ ~(o \in OnStack /\ ref[o] = 1)
    /\ ref' = Dropped(<<o>>)
    /\ Released(ref')
    /\ held' = [held EXCEPT ![o] = @ - 1]
    /\ UNCHANGED list

\* cps_api_object_list_append: the list takes over the caller's reference
ListAppend(l, o) ==
    /\ held[o] > 0 /\ o \notin OnStack
    /\ list' = [list EXCEPT ![l] = Append(@, o)]
    /\ held' = [held EXCEPT ![o] = @ - 1]
    /\ UNCHANGED <<contentVars, ref>>

\* cps_api_object_list_append_copy without clone
ListAppendRef(l, o) ==
    /\ Live(o)
    /\ list' = [list EXCEPT ![l] = Append(@, o)]
    /\ ref' = Gained(<<o>>)
    /\ UNCHANGED <<contentVars, held>>

\* Copies of the objects s[k] are made in the free objects n[k]
Copied(s, n) ==
    LET of == [o \in Range(n) |-> s[CHOOSE k \in DOMAIN n : n[k] = o]]
        Copy(f) == [o \in Objects |-> IF o \in Range(n) THEN f[of[o]] ELSE f[o]]
    IN /\ buf' = Copy(buf)
       /\ attrs' = Copy(attrs)
       /\ len' = [o \in Objects |->
                    IF o \in Range(n)
                    THEN IF DefSize < Len(buf[of[o]]) THEN len[of[o]] ELSE DefSize
                    ELSE len[o]]
       /\ ref' = Gained(n)
       /\ UNCHANGED torn

\* cps_api_object_list_append_copy with clone
ListAppendClone(l, o) ==
    \E n \in Free :
        /\ Readable(o)
        /\ Copied(<<o>>, <<n>>)
        /\ list' = [list EXCEPT ![l] = Append(@, n)]
        /\ UNCHANGED held

\* cps_api_object_list_create_obj_and_append
ListCreate(l, o) ==
    /\ o \in Free
    /\ buf' = [buf EXCEPT ![o] = <<>>]
    /\ len' = [len EXCEPT ![o] = DefSize]
    /\ ref' = [ref EXCEPT ![o] = 1]
    /\ list' = [list EXCEPT ![l] = Append(@, o)]
    /\ UNCHANGED <<torn, attrs, held>>

\* cps_api_object_list_merge_section
ListMerge(l, m, start, number) ==
    LET section == SubSeq(list[m], start + 1, start + number)
    IN /\ start < Len(list[m]) /\ start + number <= Len(list[m])
       /\ list' = [list EXCEPT ![l] = @ \o section]
       /\ ref' = Gained(section)
       /\ UNCHANGED <<contentVars, held>>

\* cps_api_object_list_clone, into a list that is empty
ListClone(l, m, deep) ==
    /\ list[l] = <<>> /\ l # m
    /\ \/ /\ ~deep
          /\ list' = [list EXCEPT ![l] = list[m]]
          /\ ref' = Gained(list[m])
          /\ UNCHANGED contentVars
       \/ /\ deep
          /\ \A k \in DOMAIN list[m] : list[m][k] # Null => Readable(list[m][k])
          /\ \E n \in [DOMAIN list[m] -> Free \union {Null}] :
                /\ \A k \in DOMAIN n : n[k] = Null <=> list[m][k] = Null
                /\ \A j, k \in DOMAIN n : n[j] = n[k] /\ n[j] # Null => j = k
                /\ Copied(list[m], n)
                /\ list' = [list EXCEPT ![l] = n]
    /\ UNCHANGED held

\* cps_api_object_list_clear, cps_api_object_list_destroy
ListClear(l, delete_objects) ==
    /\ \/ /\ delete_objects
          /\ ref' = Dropped(list[l])
          /\ Released(ref')
          /\ UNCHANGED held
       \/ /\ ~delete_objects
          /\ held' = Hold(list[l])
          /\ UNCHANGED <<contentVars, ref>>
    /\ list' = [list EXCEPT ![l] = <<>>]

\* cps_api_object_list_remove: the reference goes to the caller
ListRemove(l, k) ==
    /\ k \in DOMAIN list[l]
    /\ list' = [list EXCEPT ![l] = RemoveAt(@, k)]
    /\ held' = Hold(<<list[l][k]>>)
    /\ UNCHANGED <<contentVars, ref>>

\* cps_api_object_list_set: the list grows with null entries as needed, and
\* takes over the caller's reference, if it is given an object at all
GivenAway(h, o) == [x \in Objects |-> IF x = o THEN h[x] - 1 ELSE h[x]]
ListSet(l, k, o, free_prev) ==
    LET grown == [i \in 1 .. Max({k, Len(list[l])}) |->
                    IF i \in DOMAIN list[l] THEN list[l][i] ELSE Null]
    IN /\ o # Null => held[o] > 0 /\ o \notin OnStack
       /\ list' = [list EXCEPT ![l] = [grown EXCEPT ![k] = o]]
       /\ \/ /\ free_prev
             /\ ref' = Dropped(<<grown[k]>>)
             /\ Released(ref')
             /\ held' = GivenAway(held, o)
          \/ /\ ~free_prev
             /\ held' = GivenAway(Hold(<<grown[k]>>), o)
             /\ UNCHANGED <<contentVars, ref>>

\* the tree the cells p..e-1 of a buffer hold
Decode(b) ==
    LET tree[p \in 1 .. Len(b) + 1, e \in 1 .. Len(b) + 1] ==
            IF p = e THEN <<>>
            ELSE LET n == After(b, p)
                 IN <<IF b[p].tag \in Containers THEN Node(b[p].tag, tree[p + 1, n])
                      ELSE Leaf(b[p].tag, [k \in 1 .. b[p].len |-> b[p + k].byte])>>
                    \o tree[n, e]
    IN tree[1, Len(b) + 1]

\* every attribute ends inside its container, and a leaf holds data only
WellFormed(b) ==
    LET ok[p \in 1 .. Len(b) + 1, e \in 1 .. Len(b) + 1] ==
            \/ p = e
            \/ /\ p < e
               /\ b[p].tag \in Leaves \union Containers
               /\ b[p].len >= 0 /\ After(b, p) <= e
               /\ \/ b[p].tag \in Containers /\ ok[p + 1, After(b, p)]
                  \/ /\ b[p].tag \in Leaves
                     /\ \A q \in p + 1 .. After(b, p) - 1 : b[q].tag = -1
               /\ ok[After(b, p), e]
    IN ok[1, Len(b) + 1]

----------------------------------------------------------------------------
(* The caller has the objects on its stack and the ones in `made`, all empty *)
(* but the first one, which it has filled.                                  *)
ObjectInit(made, first, content, size) ==
    /\ buf = [o \in Objects |-> IF o = first THEN content ELSE <<>>]
    /\ len = [o \in Objects |-> IF o = first THEN size
                                ELSE IF o \in OnStack \union made THEN DefSize ELSE 0]
    /\ ref = [o \in Objects |-> IF o \in OnStack \union made THEN 1 ELSE 0]
    /\ held = ref
    /\ torn = {}
    /\ attrs = [o \in Objects |-> Decode(buf[o])]
    /\ list = [l \in Lists |-> <<>>]

\* Any call of the interface on objects that exist, with any arguments.
Edit ==
    \E o, s \in Objects, path \in Seq(Nat) \ {<<>>}, value \in Seq(Nat), p, q \in Nat :
        \/ AddValue(o, path, value) \/ AddObject(o, path, s)
        \/ Delete(o, p) \/ DeleteIt(o, p) \/ Replace(o, p, q)
        \/ \E dup \in BOOLEAN : Merge(o, s, dup)
        \/ Clone(o, s) \/ FromArray(o, s) \/ Swap(o, s)

Move ==
    \/ \E o \in Objects : Create(o) \/ Reference(o) \/ ObjectDelete(o)
    \/ \E l \in Lists, o \in Objects :
         \/ ListAppend(l, o) \/ ListAppendRef(l, o) \/ ListAppendClone(l, o)
         \/ ListCreate(l, o)
    \/ \E l \in Lists, k \in Nat \ {0}, o \in Objects \cup {Null}, free_prev \in BOOLEAN :
         ListSet(l, k, o, free_prev)
    \/ \E l, m \in Lists :
         \/ \E start, number \in Nat : ListMerge(l, m, start, number)
         \/ \E deep \in BOOLEAN : ListClone(l, m, deep)
    \/ \E l \in Lists :
         \/ \E delete_objects \in BOOLEAN : ListClear(l, delete_objects)
         \/ \E k \in Nat : ListRemove(l, k)

\* The first object of a caller holds what it was given, in well-formed cells.
Cell == [tag : Int, len : Nat, byte : Nat]
Start ==
    \E made \in SUBSET Objects, first \in Objects, content \in Seq(Cell), size \in Nat :
        WellFormed(content) /\ Len(content) <= size /\ ObjectInit(made, first, content, size)

ObjectSpec == Start /\ [][Edit \/ Move]_objectVars

----------------------------------------------------------------------------
(* Properties. *)

\* The entries of lists that hold an object.
ListEntries(o) == UNION {{<<l, k>> : k \in {j \in DOMAIN list[l] : list[l][j] = o}} : l \in Lists}

\* The buffer of an object holds exactly the attributes its users put there:
\* whatever was added at any depth, deleted, merged, copied, swapped or
\* received, no edit of the cells damages, loses or moves an attribute it
\* was not asked to change, and every path that writes has reserved the cells.
\* A merge that removes duplicates is taken for what it does with an attribute
\* without a value, which is to remove it from both (see MergeKeepsAll).
\* Excepted are objects whose buffer add_embedded tore (cps_api_object.cpp,
\* add_embedded, __cps_api_object_attr_delete, cps_api_object_delete_it,
\* cps_api_object_attr_merge).
BufferHoldsAttributes ==
    \A o \in Objects \ torn : Decode(buf[o]) = attrs[o] /\ Len(buf[o]) <= len[o]

\* A reader finds with an iterator, with a list get and with a filled list
\* what the paths name (cps_api_object_it, cps_api_object_e_get_list_data,
\* cps_api_object_attr_fill_list).
ReadersFindNamed ==
    \A o \in Objects \ torn :
        /\ \A path \in Paths :
             LET named == NamedBy(attrs[o], path)
             IN ListData(buf[o], path)
                = [i \in DOMAIN named |->
                     [k \in DOMAIN named[i].value |-> Data(named[i].value[k])]]
        /\ \A t \in Leaves :
             LET at == FillList(buf[o], Leaves)[t] IN
             IF Places(attrs[o], t) = {} THEN at = 0
             ELSE /\ buf[o][at].tag = t
                  /\ Cardinality({p \in TopLevel(buf[o]) : p <= at})
                     = Max(Places(attrs[o], t))

\* An attribute that was added is in the object and the others are
\* undamaged, at any depth (cps_api_object.h: "Add an attribute or embedded
\* attribute to the object.  The attribute will be copied into the object.").
EmbeddedAddsKeepObject == \A o \in Objects : WellFormed(buf[o])

\* Whatever two objects hold, a merge of one into the other that removes what
\* is repeated loses no attribute of either, but those that the source has
\* without a value: these are dropped from both, where cps_api_object.h says of
\* cps_api_object_attr_merge "At the end the dest object will contain all of the
\* attributes of both objects.".
MergeKeepsAll ==
    LET buffers == {buf[o] : o \in Objects \ torn} \ {<<>>}
    IN  \A d, s \in buffers :
            (TopTags(d) \cup TopTags(s)) \ EmptyTags(s)
            \subseteq TopTags(MergeDest(d, s, TRUE) \o MergeSrc(d, s, TRUE))

\* The reference count of an object is the number of its holders, callers and
\* list entries, so that nobody holds an object that was given back and
\* nothing is kept that nobody holds, whatever mixture of append, copy,
\* merge, clone, set, remove and clear led there (cps_api_object.cpp,
\* obj_delloc and the cps_api_object_list functions).
RefsCounted ==
    \A o \in Objects \ OnStack : ref[o] = held[o] + Cardinality(ListEntries(o))


=============================================================================
