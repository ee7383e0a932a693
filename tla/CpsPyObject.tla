---- MODULE CpsPyObject ----
(***************************************************************************)
(* Objects and the Python dictionaries they become                         *)
(* (src/src/python_extension/cps_api_python_utils.cpp).                    *)
(*                                                                         *)
(* An attribute has an identifier and either data or attributes of its     *)
(* own.  What a dictionary value looks like depends on what the metadata   *)
(* says of the identifier.  A Python dictionary has no order of its own:   *)
(* back in an object, attributes come in any order, the values of a leaf   *)
(* list in theirs.                                                         *)
(***************************************************************************)
EXTENDS Naturals, SequencesExt

CONSTANTS
    Ids,       \* identifiers, the numbers of list entries among them
    Kind,      \* what those in the metadata are
    NameOf     \* and how they are called

VARIABLE sample   \* an object

Attr(id, data, sub) == [id |-> id, data |-> data, sub |-> sub]
NoId == 0 - 1

\* py_str_from_attr_id: the number stands for an identifier that has no name.
py_str_from_attr_id(id) == IF id \in DOMAIN Kind THEN NameOf[id] ELSE ToString(id)

\* cps_dict_find_by_name, or else strtoll.
IdOfName(name) == CHOOSE id \in Ids : py_str_from_attr_id(id) = name

\* The entries of a list are numbers without metadata; what they contain is
\* taken for attributes if the list is known.
Has(id, kinds) == id \in DOMAIN Kind /\ Kind[id] \in kinds
Embedded(a, parent) ==
    IF a.id \in DOMAIN Kind THEN Has(a.id, {"list", "container"})
    ELSE Has(parent, {"list"}) /\ a.sub # <<>>

\* py_obj_dump_level: a later attribute of the same name takes the place of an
\* earlier one, except in a leaf list.
RECURSIVE py_obj_dump_level(_, _)
DumpWithoutLists(attrs, parent) ==
    FoldLeft(LAMBDA d, a : (py_str_from_attr_id(a.id) :> [type |-> "bytearray", items |-> <<a>>]) @@ d,
             <<>>, attrs)
py_obj_dump_level(attrs, parent) ==
    LET Value(d, a, name) ==
            IF Embedded(a, parent)
            THEN [type |-> "dict", items |-> py_obj_dump_level(a.sub, a.id)]
            ELSE IF Has(a.id, {"leaf-list"})
            THEN [type |-> "list",
                  items |-> Append(IF name \in DOMAIN d THEN d[name].items ELSE <<>>, a)]
            ELSE [type |-> "bytearray", items |-> <<a>>]
        Set(d, a) ==
            LET name == py_str_from_attr_id(a.id) IN (name :> Value(d, a, name)) @@ d
    IN  FoldLeft(Set, <<>>, attrs)

\* cps_obj_to_dict; the key and the operation become strings beside the data.
cps_obj_to_dict(attrs) == [data |-> py_obj_dump_level(attrs, NoId)]

\* add_to_object: every value is added under the identifiers of the
\* dictionaries around it, so that an empty dictionary leaves nothing.
RECURSIVE add_to_object(_)
add_to_object(d) ==
    LET Added(name) ==
            LET id == IdOfName(name)
            IN  IF d[name].type = "dict"
                THEN LET sub == add_to_object(d[name].items)
                     IN  IF sub = <<>> THEN <<>> ELSE <<Attr(id, 0, sub)>>
                ELSE [i \in DOMAIN d[name].items |-> Attr(id, d[name].items[i].data, d[name].items[i].sub)]
    IN  FlattenSeq([i \in 1 .. Cardinality(DOMAIN d) |-> Added(SetToSeq(DOMAIN d)[i])])

dict_to_cps_obj(dict) == add_to_object(dict.data)

-----------------------------------------------------------------------------
\* An object by its identifiers, without the order between them.
RECURSIVE Unordered(_)
Unordered(attrs) ==
    [id \in {attrs[i].id : i \in DOMAIN attrs} |->
        LET same == SelectSeq(attrs, LAMBDA a : a.id = id)
        IN  [i \in DOMAIN same |-> <<same[i].data, Unordered(same[i].sub)>>]]

\* What the metadata allows: an identifier occurs once, unless it is that of a
\* leaf list, and a list, an entry or a container is not empty.
RECURSIVE Valid(_, _)
Valid(attrs, parent) ==
    \A i \in DOMAIN attrs :
        /\ Has(attrs[i].id, {"leaf-list"}) \/ \A j \in DOMAIN attrs : attrs[j].id = attrs[i].id => i = j
        /\ Embedded(attrs[i], parent) => attrs[i].sub # <<>> /\ Valid(attrs[i].sub, attrs[i].id)

\* An object that the metadata allows survives the way through Python: with
\* attributes the metadata does not know, with lists in lists, and with all
\* the values of its leaf lists in their order.
SurvivesPython ==
    Valid(sample, NoId) =>
        Unordered(dict_to_cps_obj(cps_obj_to_dict(sample))) = Unordered(sample)
====
