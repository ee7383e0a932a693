---- MODULE CpsDictionary ----
(***************************************************************************)
(* The dictionary of a process: names, numbers, keys and owners of the     *)
(* attributes, loaded once from the generated libraries and from the       *)
(* metadata files when the first lookup asks for it.  The flag that says   *)
(* "loaded" is set before the loading starts; some lookups hold the        *)
(* dictionary's lock while they load, some take no lock, and some do not   *)
(* load at all.                                                            *)
(***************************************************************************)
EXTENDS Integers, Sequences, FiniteSets, SequencesExt, Functions, CpsMaps

CONSTANTS Threads, NoThread,
          Path,      \* the libraries found on the search path, in order
          Files,     \* the metadata files: version numbers of the name and entries
          Field,     \* the field of an enumeration that is asked for
          KeyValues, \* values of a key attribute: sequences of bytes
          MaxAsks    \* bound: lookups

\* Nobody else has the name of no thread; Path and the entries are lists.
ASSUME DictAssumption ==
    /\ NoThread \notin Threads
    /\ Path \in Seq(Range(Path))
    /\ \A f \in Files : f.entries \in Seq(Range(f.entries))

VARIABLES ids,       \* the numbers the libraries were built with: model, name
          defs,      \* _class_def: the node of a number
          strs,      \* _str_map: the number of a name
          keyed,     \* _key_to_map_element: the number of a key
          owner,     \* _key_storage_type: the owner type of a key
          enums,     \* _enum_map: the values of the fields of an enumeration
          assoc,     \* _attr_id_to_enum: the enumeration of a number
          lock,      \* the holder of the dictionary's lock
          claimed,   \* "loaded": some thread has begun to load
          loader,    \* the thread that is loading
          left,      \* what it has still to load
          thread,    \* the lookup of each thread
          answer,    \* observer: the last answer, until the next lookup begins
          asks       \* bound: lookups begun

dictVars == <<ids, defs, strs, keyed, owner, enums, assoc, lock, claimed, loader,
              left, thread, answer, asks>>

NoNode == <<>>  \* a null pointer to a node
NoNumber == 0   \* a null pointer to a number
Empty == [x \in {} |-> 0]
Idle == [pc |-> "idle"]
NoAnswer == [op |-> "none"]
NothingLeft == [libs |-> <<>>, seen |-> {}, entries |-> <<>>, files |-> {}]

Tables == <<defs, strs, keyed, owner, enums, assoc>>

\* How an operation uses the lock and the loader, and what it looks up.
Ops == [detail |-> [locks |-> FALSE, inits |-> TRUE],   \* cps_class_map_detail, _attr_type
        name   |-> [locks |-> TRUE,  inits |-> TRUE],   \* cps_attr_id_to_name, key_from_attr
        number |-> [locks |-> TRUE,  inits |-> FALSE],  \* cps_api_attr_name_to_id
        string |-> [locks |-> TRUE,  inits |-> FALSE],  \* cps_class_key_from_string
        class  |-> [locks |-> TRUE,  inits |-> FALSE],  \* cps_class_attr_name, is_valid
        owns   |-> [locks |-> TRUE,  inits |-> FALSE],  \* cps_api_obj_get_ownership_type
        enum   |-> [locks |-> FALSE, inits |-> FALSE],  \* cps_api_enum_value
        level  |-> [locks |-> TRUE,  inits |-> TRUE],   \* cps_class_map_level
        keys   |-> [locks |-> TRUE,  inits |-> TRUE]]   \* cps_api_key_attrs
----
(* What the libraries register. *)

YangNodes == UNION {{<<m, n>> : n \in DOMAIN ids[m]} : m \in DOMAIN ids}
NumberOf(node) == ids[node[1]][node[2]]
IsLeaf(node) == node[2] # "obj"

\* The key of a node: the list, its key attribute, and a leaf itself.
KeyOf(node) ==
    LET m == node[1]
        list == IF "key" \in DOMAIN ids[m] THEN <<ids[m].obj, ids[m].key>> ELSE <<ids[m].obj>>
    IN  IF IsLeaf(node) THEN Append(list, NumberOf(node)) ELSE list

LibEntries(m) == {[kind |-> "node", node |-> <<m, n>>] : n \in DOMAIN ids[m]}

\* Two names of the libraries have one number.
Collide == \E a, b \in YangNodes : a # b /\ NumberOf(a) = NumberOf(b)
----
(* Loading. *)

\* The position of a file is one number made of the parts of its version: each
\* part is divided by 40 more than the one before it, so that the position of
\* 1.2.3 is 1 + 2/40 + 3/80.  Here in units of 1/240.
Position(version) ==
    LET part(i) == IF i > Len(version) THEN 0 ELSE version[i] * <<240, 6, 3, 2>>[i]
    IN  part(1) + part(2) + part(3) + part(4)

\* cps_class_map_init: the first definition of a number and of a key stands,
\* the last one of a name.
Define(node, i, key) ==
    /\ UNCHANGED <<owner, enums, assoc>>
    /\ IF i \in DOMAIN defs THEN UNCHANGED <<defs, strs, keyed>>
       ELSE /\ defs' = Over(defs, Entry(i, [node |-> node, ids |-> key,
                                          cached |-> FALSE, keyIds |-> {}, early |-> FALSE]))
            /\ strs' = Over(Entry(node, i), strs)
            /\ keyed' = Over(keyed, Entry(key, i))

\* A node of a library has its number and key from the generated code.
RegisterNode(node) == Define(node, NumberOf(node), KeyOf(node))

\* __process_node, __process_key: a node of a file has its number in the entry
\* and the names of its key, which must be known; otherwise the entry is dropped.
RegisterEntry(e) ==
    IF \A k \in DOMAIN e.key : e.key[k] = e.node \/ e.key[k] \in DOMAIN strs
    THEN Define(e.node, e.id, [k \in DOMAIN e.key |->
                                  IF e.key[k] = e.node THEN e.id ELSE strs[e.key[k]]])
    ELSE UNCHANGED Tables

\* __process_ownership: the last file to name an object decides.
RegisterOwner(node, type) ==
    /\ UNCHANGED <<defs, strs, keyed, enums, assoc>>
    /\ owner' = IF node \in DOMAIN strs
                THEN Over(Entry(defs[strs[node]].ids, type), owner) ELSE owner

\* cps_class_map_enum_reg and CPSEnum::reg: a value of a field replaces an older
\* one.  The way back, from the value to the name of the field, is left out: what
\* is kept for it points into the file, which is unloaded after it was read.
WithField(values, field, value) == Over(Entry(field, value), values)

\* __process_enum
RegisterField(enum, field, value) ==
    LET values == IF enum \in DOMAIN enums THEN enums[enum] ELSE Empty
    IN  /\ enums' = Over(Entry(enum, WithField(values, field, value)), enums)
        /\ UNCHANGED <<defs, strs, keyed, owner, assoc>>

\* __process_enum_assoc
Associate(node, enum) ==
    /\ assoc' = IF node \in DOMAIN strs THEN Over(Entry(strs[node], enum), assoc) ELSE assoc
    /\ UNCHANGED <<defs, strs, keyed, owner, enums>>

\* Mutant: the lowest position first.
IsNextFileUp(f) == \A g \in left.files : Position(f.version) <= Position(g.version)

\* The next file of cps_api_metadata_import: the highest position first.
IsNextFile(f) == \A g \in left.files : Position(f.version) >= Position(g.version)

\* The claim of cps_api_class_map_init: the first to come loads, the others
\* go on with what there is.
Claim(t) ==
    /\ thread[t].pc = "init"
    /\ IF claimed
       THEN /\ thread' = [thread EXCEPT ![t].pc = "look"]
            /\ UNCHANGED <<claimed, loader, left>>
       ELSE /\ thread' = [thread EXCEPT ![t].pc = "load"]
            /\ claimed' = TRUE /\ loader' = t
            /\ left' = [NothingLeft EXCEPT !.libs = Path, !.files = Files]
    /\ UNCHANGED <<ids, Tables, lock, answer, asks>>

\* _cps_class_data: a library found a second time is not loaded again.
LoadLib(t) ==
    LET m == Head(left.libs)
    IN  /\ thread[t].pc = "load" /\ left.entries = <<>> /\ left.libs # <<>>
        /\ \E order \in SetToSeqs(IF m \in left.seen THEN {} ELSE LibEntries(m)) :
             left' = [left EXCEPT !.libs = Tail(@), !.seen = @ \cup {m}, !.entries = order]
        /\ UNCHANGED <<ids, Tables, lock, claimed, loader, thread, answer, asks>>

\* __process_single_file, after the last library.
LoadFile(t) ==
    /\ thread[t].pc = "load" /\ left.entries = <<>> /\ left.libs = <<>>
    /\ \E f \in left.files :
         /\ IsNextFile(f)
         /\ left' = [left EXCEPT !.files = @ \ {f}, !.entries = f.entries]
    /\ UNCHANGED <<ids, Tables, lock, claimed, loader, thread, answer, asks>>

\* One entry is registered, under the lock, which the loader may already hold,
\* but for the fields of enumerations.
LoadEntry(t) ==
    LET e == Head(left.entries)
    IN  /\ thread[t].pc = "load" /\ left.entries # <<>>
        /\ e.kind # "field" => lock \in {NoThread, t}
        /\ \/ e.kind = "node" /\ RegisterNode(e.node)
           \/ e.kind = "entry" /\ RegisterEntry(e)
           \/ e.kind = "owner" /\ RegisterOwner(e.node, e.type)
           \/ e.kind = "field" /\ RegisterField(e.enum, e.field, e.value)
           \/ e.kind = "assoc" /\ Associate(e.node, e.enum)
        /\ left' = [left EXCEPT !.entries = Tail(@)]
        /\ UNCHANGED <<ids, lock, claimed, loader, thread, answer, asks>>

Loaded(t) ==
    /\ thread[t].pc = "load" /\ left.entries = <<>> /\ left.libs = <<>> /\ left.files = {}
    /\ loader' = NoThread /\ left' = NothingLeft
    /\ thread' = [thread EXCEPT ![t].pc = "look"]
    /\ UNCHANGED <<ids, Tables, lock, claimed, answer, asks>>
----
(* Lookups. *)

Ask(t, op, node) ==
    /\ thread[t].pc = "idle" /\ asks < MaxAsks
    /\ Ops[op].locks => lock = NoThread
    /\ lock' = IF Ops[op].locks THEN t ELSE lock
    /\ thread' = [thread EXCEPT ![t] = [pc |-> IF Ops[op].inits THEN "init" ELSE "look",
                                        op |-> op, node |-> node]]
    /\ asks' = asks + 1
    /\ answer' = NoAnswer
    /\ UNCHANGED <<ids, Tables, claimed, loader, left>>

\* Another thread is in the middle of loading.
Behind(t) == loader \notin {NoThread, t}

\* The lookup comes too early: others are loading, or it does not load itself.
Early(t, op) == Behind(t) \/ (~Ops[op].inits /\ ~claimed)

\* Mutant: the last element of the key is left out.
KeyIdsShort(key) ==
    {i \in Range(SubSeq(key, 1, Len(key) - 1)) : i \in DOMAIN defs /\ IsLeaf(defs[i].node)}

\* The leaves among the elements of a key, as far as they are known.
KeyIds(key) ==
    {i \in Range(key) : i \in DOMAIN defs /\ IsLeaf(defs[i].node)}

\* The bytes between the attributes of a database key, as one, and the byte that
\* stands for any value.
Separator == "#-"
Star == "*"

\* Mutant: nothing between the attributes.
JoinedBare(parts) == FlattenSeq(parts)

\* The attributes, with a separator before each of them.
Joined(parts) == FlattenSeq([k \in DOMAIN parts |-> <<Separator>> \o parts[k]])

\* The key of an instance in the database: the key of its class and, one after
\* the other, the values it has of the key attributes.  One that lacks a value,
\* or with a value that is the one byte *, is a pattern for several; what is
\* escaped in a pattern is left out, it does not make two keys the same.
DbKey(key, keyIds, inst) ==
    LET used == SelectSeq(key, LAMBDA i : i \in keyIds \cap DOMAIN inst)
    IN  [class |-> key, attrs |-> Joined([k \in DOMAIN used |-> inst[used[k]]]),
         wildcard |-> \/ ~ keyIds \subseteq DOMAIN inst
                      \/ \E i \in keyIds \cap DOMAIN inst : inst[i] = <<Star>>]

\* cps_class_map_level: the nodes below a key, or all but deeper ones.
LevelOf(key, children) ==
    {defs[i].node : i \in {j \in DOMAIN defs :
        IsPrefix(key, defs[j].ids) /\ (children => Len(defs[j].ids) = Len(key) + 1)}}

\* cps_api_enum_value; no enumeration or no such field is -1.
EnumOf(i, field) ==
    IF i \in DOMAIN assoc /\ assoc[i] \in DOMAIN enums /\ field \in DOMAIN enums[assoc[i]]
    THEN enums[assoc[i]][field] ELSE -1

\* The values a lookup may find.  A lookup without the lock while another
\* thread inserts is a data race: it may miss what is there.
Found(t, op, node) ==
    LET i == NumberOf(node)
        key == KeyOf(node)
    IN  CASE op = "detail" -> IF i \in DOMAIN defs
                              THEN {defs[i].node} \cup (IF Behind(t) THEN {NoNode} ELSE {})
                              ELSE {NoNode}
          [] op = "name"   -> {IF i \in DOMAIN defs THEN defs[i].node ELSE NoNode}
          [] op = "number" -> {IF node \in DOMAIN strs THEN strs[node] ELSE NoNumber}
          [] op = "string" -> {IF node \in DOMAIN strs THEN defs[strs[node]].ids ELSE <<0>>}
          [] op = "class"  -> {IF key \in DOMAIN keyed THEN defs[keyed[key]].node ELSE NoNode}
          [] op = "owns"   -> {IF key \in DOMAIN owner THEN owner[key] ELSE "service"}
          [] op = "enum"   -> {EnumOf(i, Field)} \cup (IF Behind(t) THEN {-1} ELSE {})
          [] op = "level"  -> {<<LevelOf(key, TRUE), LevelOf(key, FALSE)>>}
          [] op = "keys"   -> {IF key \notin DOMAIN keyed THEN {}
                               ELSE IF defs[keyed[key]].cached
                               THEN defs[keyed[key]].keyIds ELSE KeyIds(key)}

\* cps_api_key_attrs keeps the key attributes of a node from the first time on.
Cached(t, op, node) ==
    LET key == KeyOf(node)
        i == keyed[key]
    IN  IF op = "keys" /\ key \in DOMAIN keyed /\ ~defs[i].cached
        THEN [defs EXCEPT ![i] = [node |-> @.node, ids |-> @.ids, cached |-> TRUE,
                                  keyIds |-> KeyIds(key), early |-> Behind(t)]]
        ELSE defs

Look(t) ==
    LET op == thread[t].op
        node == thread[t].node
    IN  /\ thread[t].pc = "look"
        /\ \E value \in Found(t, op, node) :
             answer' = [op |-> op, node |-> node, value |-> value, early |-> Early(t, op)]
        /\ defs' = Cached(t, op, node)
        /\ lock' = IF Ops[op].locks THEN NoThread ELSE lock
        /\ thread' = [thread EXCEPT ![t] = Idle]
        /\ UNCHANGED <<ids, strs, keyed, owner, enums, assoc, claimed, loader, left, asks>>
----
DictInit(built) ==
    /\ ids = built
    /\ defs = Empty /\ strs = Empty /\ keyed = Empty /\ owner = Empty
    /\ enums = Empty /\ assoc = Empty
    /\ lock = NoThread /\ claimed = FALSE /\ loader = NoThread /\ left = NothingLeft
    /\ thread = [t \in Threads |-> Idle]
    /\ answer = NoAnswer
    /\ asks = 0

DictNext ==
    \E t \in Threads :
       \/ \E op \in DOMAIN Ops, node \in YangNodes : Ask(t, op, node)
       \/ Claim(t) \/ LoadLib(t) \/ LoadFile(t) \/ LoadEntry(t) \/ Loaded(t)
       \/ Look(t)

\* The libraries of a process are those on its search path, every one with its
\* list and numbers for its names.  A metadata file that describes a node of them
\* gives it its number; the nodes of its own have numbers of their own, which are
\* part of their keys.
Installed ==
    /\ DOMAIN ids = Range(Path)
    /\ \A m \in DOMAIN ids : "obj" \in DOMAIN ids[m] /\ IsFiniteSet(DOMAIN ids[m])
    /\ \A node \in YangNodes : NumberOf(node) \in Nat
    /\ \A f \in Files : \A e \in Range(f.entries) :
         /\ e.kind # "node"
         /\ e.kind = "entry" =>
               \/ e.node \in YangNodes /\ e.id = NumberOf(e.node)
               \/ /\ e.node \notin YangNodes /\ \A n \in YangNodes : e.id # NumberOf(n)
                  /\ \E k \in DOMAIN e.key : e.key[k] = e.node

DictSpec == Installed /\ DictInit(ids) /\ [][DictNext]_dictVars
----
(* Correctness. *)

\* Lower version numbers come first, part by part.
Lower(v, w) ==
    \E i \in 1 .. Len(w) : /\ \A j \in 1 .. i - 1 : j <= Len(v) /\ v[j] = w[j]
                           /\ i > Len(v) \/ v[i] < w[i]

\* What the file with the lowest version says among those with an entry of S,
\* or the default.
Lowest(S, default) ==
    LET told == {f \in Files : Range(f.entries) \cap S # {}}
    IN  IF told = {} THEN default
        ELSE CHOOSE e \in S : \E f \in told : /\ e \in Range(f.entries)
                                            /\ \A g \in told : ~Lower(g.version, f.version)
Entries(kind) == {e \in UNION {Range(f.entries) : f \in Files} : e.kind = kind}

ToldOwner(node) ==
    Lowest({e \in Entries("owner") : e.node = node}, [type |-> "service"]).type

ToldEnum(node) ==
    LET enum == Lowest({e \in Entries("assoc") : e.node = node}, [enum |-> ""]).enum
        field == {e \in Entries("field") : e.enum = enum /\ e.field = Field}
    IN  IF field = {} THEN -1 ELSE Lowest(field, 0).value

\* An entry of a file tells of a node of its own when the names of its key are
\* told by the libraries, before it in its file, or in a higher version.
Tells(f, i) ==
    LET e == f.entries[i]
    IN  /\ e.kind = "entry" /\ e.node \notin YangNodes
        /\ \A n \in Range(e.key) \ (YangNodes \cup {e.node}) :
             \E g \in Files : \E j \in DOMAIN g.entries :
                /\ g.entries[j].kind = "entry" /\ g.entries[j].node = n
                /\ (g = f /\ j < i) \/ Lower(f.version, g.version)

FileNodes ==
    UNION {{[node |-> f.entries[i].node, key |-> f.entries[i].key] :
               i \in {j \in DOMAIN f.entries : Tells(f, j)}} : f \in Files}

\* The nodes of the libraries and files with the names of their keys.
NamesOf(node) ==
    LET list == IF <<node[1], "key">> \in YangNodes THEN <<<<node[1], "obj">>, <<node[1], "key">>>>
                ELSE <<<<node[1], "obj">>>>
    IN  IF IsLeaf(node) THEN Append(list, node) ELSE list

NodesTold == {[node |-> n, key |-> NamesOf(n)] : n \in YangNodes} \cup FileNodes

ToldLevel(node, children) ==
    LET below == {x \in NodesTold : IsPrefix(NamesOf(node), x.key)}
    IN  {x.node : x \in {y \in below : children => Len(y.key) = Len(NamesOf(node)) + 1}}

ToldKeyIds(node) == {i \in Range(KeyOf(node)) : \E n \in YangNodes : NumberOf(n) = i /\ IsLeaf(n)}

\* What the libraries and the files say.
Described(op, node) ==
    CASE op \in {"detail", "name", "class"} -> node
      [] op = "number" -> NumberOf(node)
      [] op = "string" -> KeyOf(node)
      [] op = "owns"   -> ToldOwner(node)
      [] op = "enum"   -> ToldEnum(node)
      [] op = "level"  -> <<ToldLevel(node, TRUE), ToldLevel(node, FALSE)>>

\* Files that tell of S are not loaded in the order of their versions: their
\* positions are the other way round, or equal.
Misplaced(S) ==
    \E f, g \in {h \in Files : Range(h.entries) \cap S # {}} :
        Lower(f.version, g.version) /\ Position(f.version) >= Position(g.version)

\* Such files decide on the owner, the enumeration or its field.
OutOfOrder(op, node) ==
    \/ op = "owns" /\ Misplaced({e \in Entries("owner") : e.node = node})
    \/ op = "enum" /\ \/ Misplaced({e \in Entries("assoc") : e.node = node})
                       \/ Misplaced({e \in Entries("field") : e.field = Field})

\* The lookup was answered while another thread was loading, or is one of those
\* that never load and nothing had been loaded, or the numbers collide.
Excused == answer.early \/ Collide

\* A lookup answers what the generated headers and the metadata files say,
\* whatever the order of loading and however the threads interleave, unless
\* the numbers collide, another thread was loading, or the operation is one
\* of those that never load and nothing had been loaded.  Of several files that
\* decide on an owner or an enumeration, the lowest version counts, unless the
\* position the code gives to them is not in the order of their versions, as for
\* 1.0.3 and 1.1 (where a comment speaks of "decimal places to shift each time").
LookupsTellMetadata ==
    answer.op \notin {"none", "keys"} =>
       \/ Excused \/ OutOfOrder(answer.op, answer.node)
       \/ answer.value = Described(answer.op, answer.node)

\* The key attributes that were kept for an object were asked for while another
\* thread was loading: what was missing then stays missing.
KeptEarly(node) == defs[keyed[KeyOf(node)]].early

\* The key attributes that cps_api_key_attrs tells of an object are all of them,
\* however the loading and the lookups of the threads interleave, unless the
\* answer or the first one for this object came while another thread was loading.
KeyAttrsComplete ==
    answer.op = "keys" =>
       answer.value = ToldKeyIds(answer.node) \/ Excused \/ KeptEarly(answer.node)

InstanceKey(inst) == DbKey(KeyOf(answer.node), answer.value, inst)
Instances == [ToldKeyIds(answer.node) -> KeyValues]
Clean(inst) == \A i \in DOMAIN inst : Separator \notin Range(inst[i])

\* Instances of an object that differ in a key attribute have keys of their own
\* in the database, however long the values are, unless the values hold the bytes
\* that the code puts between them, and an instance with all its key attributes is
\* itself and no pattern for others, unless a value is the single byte *, which
\* cps_api_operation.h would have taken for a "specific value".  Nothing is said
\* where the key attributes are not known yet.
InstancesApart ==
    answer.op = "keys" =>
       \/ Excused \/ KeptEarly(answer.node)
       \/ LET key == [x \in Instances |-> InstanceKey(x)]
          IN  /\ \A x, y \in Instances : key[x] = key[y] => x = y \/ ~Clean(x)
              /\ \A x \in Instances : key[x].wildcard => \E i \in DOMAIN x : x[i] = <<Star>>

====
