---- MODULE MCMetadata ----
(***************************************************************************)
(* From the YANG tools to the dictionary of a process: the headers of two  *)
(* models are built, by one run of the tool or several, then the libraries *)
(* compiled from them are installed and loaded by the threads of a         *)
(* process.  The parameters of the library, and the Python extension with  *)
(* the dictionaries it makes of objects, are checked by themselves.        *)
(***************************************************************************)
EXTENDS CpsHistory, CpsDictionary, CpsFlags, CpsPython, CpsPyObject

VARIABLE stage

vars == <<histVars, dictVars, flagVars, pyVars, sample, stage>>

\* Versions of a model, the last of them with more names than a category has
\* numbers.
MCContents == {{"obj", n} : n \in {"key", "attr"}} \cup {{"obj", "key", "attr", "more"}}

\* A category file of a developer: a range of two categories, one reserved, or
\* by mistake both models given the same.
Developer(cats) == [file |-> "text", start |-> 1, end |-> 3, auto |-> FALSE, cats |-> cats]
MCConf == {NoConf, Developer("A" :> 1), Developer("A" :> 1 @@ "B" :> 1)}

MCPath == <<"A", "B", "A">>

\* The files: one without a version, and two that decide on B whose positions
\* are not in the order of their versions.  The entry "box" names "late" in its
\* key, which only a lower version has.
Owns(m, type) == [kind |-> "owner", node |-> <<m, "obj">>, type |-> type]
Describes(n, i, key) == [kind |-> "entry", node |-> <<"A", n>>, id |-> i,
                         key |-> [k \in DOMAIN key |-> <<"A", key[k]>>]]
Fields(value) == [kind |-> "field", enum |-> "E", field |-> "on", value |-> value]
Uses(m, n) == [kind |-> "assoc", node |-> <<m, n>>, enum |-> "E"]
MCFiles == {[version |-> <<>>,
             entries |-> <<Owns("A", "db"), Fields(2), Describes("late", 7, <<"obj", "late">>)>>],
            [version |-> <<1, 0, 3>>,
             entries |-> <<Fields(1), Owns("B", "db"), Owns("A", "service"), Uses("A", "key")>>],
            [version |-> <<1, 1>>,
             entries |-> <<Describes("key", 2, <<"obj", "key", "key">>), Owns("B", "service"),
                           Describes("box", 6, <<"obj", "late", "box">>),
                           Describes("more", 5, <<"obj", "key", "more">>)>>]}

\* Values of one and two bytes, the byte *, and one with a separator in it.
MCKeyValues == {<<"x">>, <<"x", "x">>, <<Star>>, <<"x", Separator, "x">>}

\* Objects with a leaf, a leaf list, a list, a container and an attribute that
\* the metadata does not know.
MCKind == 11 :> "leaf" @@ 12 :> "leaf-list" @@ 13 :> "list" @@ 14 :> "container"
MCNameOf == 11 :> "m/leaf" @@ 12 :> "m/values" @@ 13 :> "m/list" @@ 14 :> "m/box"
UpTo2(S) == {<<>>} \cup {<<a>> : a \in S} \cup (S \X S)
Plain == {Attr(11, 1, <<>>), Attr(12, 1, <<>>), Attr(12, 2, <<>>), Attr(99, 1, <<>>)}
Entry0 == {Attr(0, 0, s) : s \in UpTo2(Plain)}
ListOf2 == {Attr(13, 0, s) : s \in UpTo2({Attr(n, 0, <<a>>) : n \in {0, 1}, a \in Plain})}
Boxes == {Attr(14, 0, <<a>>) : a \in Plain \cup ListOf2}
\* A list in an entry of a list, beside a plain attribute or a container.
Nested == {<<Attr(13, 0, <<Attr(0, 0, <<l, a>>)>>)>> : l \in ListOf2, a \in Plain} \cup
          {<<Attr(13, 0, <<Attr(0, 0, <<b>>), Attr(1, 0, <<a>>)>>)>> : b \in Boxes, a \in Plain}
Samples ==
    UNION {Nested, UpTo2(Plain), Plain \X ListOf2, Boxes \X Plain,
           {<<e>> : e \in Entry0}, {<<Attr(13, 0, <<e>>)>> : e \in Entry0}}

Symmetry == Permutations(Tools) \cup Permutations(Threads) \cup Permutations(Setters)

\* Only the equality of numbers matters to the dictionary: a number is
\* replaced by the place of the first name that has it.
Places == <<<<"A", "obj">>, <<"A", "key">>, <<"B", "obj">>, <<"B", "key">>>>
Placed(h) ==
    LET number(k) == h[Places[k][1]][Places[k][2]]
    IN  [m \in Models |-> [n \in DOMAIN h[m] |->
            Min({k \in 1 .. 4 : number(k) = h[m][n]})]]
InPlace == [m \in Models |-> [n \in {"obj", "key"} |-> CHOOSE k \in 1 .. 4 : Places[k] = <<m, n>>]]

\* The headers in use are compiled and installed, and the build directory is
\* no longer of interest.  Headers with a number twice are not followed: nothing
\* is said of lookups then.
Install ==
    /\ stage = "build" /\ Active = {}
    /\ \A m \in Models : DOMAIN header[m] = {"obj", "key"}
    /\ stage' = "run"
    /\ Placed(header) = InPlace /\ ids' = InPlace
    /\ hist' = [m \in Models |-> NoHistory] /\ conf' = NoConf
    /\ header' = [m \in Models |-> Nothing] /\ given' = [m \in Models |-> Nothing]
    /\ runs' = 0 /\ overlaps' = {} /\ lost' = {}
    /\ UNCHANGED <<tool, defs, strs, keyed, owner, enums, assoc, lock, claimed, loader, left,
                   thread, answer, asks, flagVars, pyVars, sample>>

\* What another undisturbed build may install.
Undisturbed == "A" :> ("obj" :> 1 @@ "key" :> 2 @@ "attr" :> 3) @@ "B" :> ("obj" :> 4)

Init ==
    /\ HistoryInit /\ FlagsInit /\ PyInit
    /\ \/ stage = "build" /\ DictInit([m \in Models |-> Nothing])
       \/ stage \in {"flags", "python", "convert"} /\ conf = NoConf /\ DictInit([m \in Models |-> Nothing])
       \/ stage = "run" /\ conf = NoConf /\ DictInit(Undisturbed)
    /\ sample \in IF stage = "convert" THEN Samples ELSE {<<>>}

Next ==
    \/ stage = "build" /\ HistoryNext /\ UNCHANGED <<dictVars, flagVars, pyVars, sample, stage>>
    \/ Install
    \/ stage = "run" /\ DictNext /\ UNCHANGED <<histVars, flagVars, pyVars, sample, stage>>
    \/ stage = "flags" /\ FlagsNext /\ UNCHANGED <<histVars, dictVars, pyVars, sample, stage>>
    \/ stage = "python" /\ PyNext /\ UNCHANGED <<histVars, dictVars, flagVars, sample, stage>>

Spec == Init /\ [][Next]_vars
====
