---- MODULE CpsHistory ----
(***************************************************************************)
(* The identifiers of the YANG tools.  Every model owns a category, and    *)
(* the names of the model are numbered from category * Span on.  The       *)
(* numbers given out are kept in a history file for each model, and the    *)
(* categories optionally in category.yconf, so that the next build gives   *)
(* every name the number it had (object_history.py).  Several runs of the  *)
(* tool may share the directory, as make -j starts them, and a run may be  *)
(* cut off between any two of its writes.  Enumerations, whose values are  *)
(* numbered the same way in a section of their own, are left out.          *)
(***************************************************************************)
EXTENDS Integers, FiniteSets, FiniteSetsExt, Functions, CpsMaps

CONSTANTS Models,      \* the YANG models, each with a category of its name
          Contents,    \* the sets of names a version of a model may define
          Tools,       \* runs of yin_parser.py that may be active together
          Span,        \* identifiers in a category: 1 << 16
          FirstConf,   \* the category.yconf files a directory may start with
          MaxRuns      \* bound: runs of the tool

\* The categories of a file are numbers from 1 on.
ASSUME HistoryAssumption ==
    /\ IsFiniteSet(Models) /\ "" \notin Models
    /\ \A content \in Contents : IsFiniteSet(content)
    /\ Span \in Nat \ {0}
    /\ \A c \in FirstConf :
          /\ c.start \in Nat /\ c.end \in Nat /\ c.auto \in BOOLEAN
          /\ ~c.auto => c.start > 0
          /\ DOMAIN c.cats \subseteq Models
          /\ c.cats \in [DOMAIN c.cats -> Nat \ {0}]

VARIABLES hist,        \* the history file of each model
          conf,        \* category.yconf
          header,      \* the generated header of each model: name to number
          tool,        \* the runs of the tool
          runs,        \* bound: runs started
          given,       \* observer: the number a header last gave to a name
          overlaps,    \* observer: the sets of models whose runs overlapped
          lost         \* observer: models whose numbers a crash left unsaved

histVars == <<hist, conf, header, tool, runs, given, overlaps, lost>>

Unnamed == "" \* the category an empty history file has
Nothing == [n \in {} |-> 0]

\* A history file: whether it exists, its category (0 is none) and numbers.
NoHistory == [file |-> FALSE, cat |-> 0, ids |-> Nothing]
TornHistory == [file |-> TRUE, cat |-> 0, ids |-> Nothing]

NoConf == [file |-> "none", start |-> 0, end |-> 0, auto |-> TRUE, cats |-> Nothing]

IdleTool == [pc |-> "idle"]
Active == {t \in Tools : tool[t].pc # "idle"}
----
(* The category table of one run: YangHistory_CategoryParser. *)

Taken(table) == Range(table.cats)

\* Mutant: the highest category is given out again.
NextFreeLast(table) ==
    IF table.auto THEN Max(Taken(table) \cup {1})
    ELSE LET free == (table.start .. table.end - 1) \ Taken(table)
         IN  IF free = {} THEN 0 ELSE Min(free)

\* _get_next_free: 0 stands for the exception that the range is used up.
NextFree(table) ==
    IF table.auto THEN Max(Taken(table) \cup {0}) + 1
    ELSE LET free == (table.start .. table.end - 1) \ Taken(table)
         IN  IF free = {} THEN 0 ELSE Min(free)

\* Mutant: the category of the file is not used.
CategoryAnew(table, name, f) ==
    IF name \in DOMAIN table.cats THEN table.cats[name] ELSE NextFree(table)

\* get_category and set_category without overwriting: the table comes before
\* the file, the file before a new number.
Category(table, name, f) ==
    IF name \in DOMAIN table.cats THEN table.cats[name]
    ELSE IF f.cat # 0 THEN f.cat
    ELSE NextFree(table)

\* The table after the file of a category was read.
Noted(table, name, f) ==
    [table EXCEPT !.cats = Over(@, Entry(name, Category(table, name, f))),
                  !.modified = @ \/ name \notin DOMAIN table.cats]

\* The numbers of a file stand if its category is the one of the table.
KeepsIds(table, name, f) == f.cat # 0 /\ Category(table, name, f) = f.cat

\* The name a scan finds in a file.
NameIn(m) == IF hist[m].cat = 0 THEN Unnamed ELSE m

Listing == {m \in Models : hist[m].file}
----
(* One run of the tool: CPSYangModel. *)

\* An exception: ar_parse_yang.sh removes the header and nothing is stored.
Fail(t) ==
    /\ header' = [header EXCEPT ![tool[t].model] = Nothing]
    /\ tool' = [tool EXCEPT ![t] = IdleTool]
    /\ UNCHANGED <<hist, conf, runs, given, overlaps, lost>>

\* A category.yconf that gives one number to two names is refused.
StartRefused(m) ==
    /\ runs < MaxRuns /\ ~IsInjective(conf.cats)
    /\ header' = [header EXCEPT ![m] = Nothing]
    /\ runs' = runs + 1
    /\ UNCHANGED <<hist, conf, tool, given, overlaps, lost>>

\* The run starts: category.yconf is read unless it is missing or empty, and
\* the histories are listed; with a category.yconf they are scanned twice.
Start(t, m) ==
    /\ tool[t].pc = "idle" /\ runs < MaxRuns /\ IsInjective(conf.cats)
    /\ tool' = [tool EXCEPT ![t] =
         [pc |-> "scan", model |-> m, todo |-> Listing,
          again |-> conf.file = "text",
          table |-> [start |-> conf.start, end |-> conf.end, auto |-> conf.auto,
                     cats |-> conf.cats, modified |-> FALSE,
                     writes |-> conf.file # "none"],
          cat |-> 0, ids |-> Nothing, modified |-> FALSE]]
    /\ runs' = runs + 1
    /\ overlaps' = overlaps \cup {{m, tool[u].model} : u \in Active}
    /\ UNCHANGED <<hist, conf, header, given, lost>>

\* _scan_hist: one file is loaded for its category only.
ScanHist(t, m) ==
    LET name == NameIn(m)
        table == tool[t].table
    IN  /\ tool[t].pc = "scan" /\ m \in tool[t].todo
        /\ IF Category(table, name, hist[m]) = 0 THEN Fail(t)
           ELSE /\ tool' = [tool EXCEPT ![t].table = Noted(table, name, hist[m]),
                                        ![t].todo = @ \ {m}]
                /\ UNCHANGED <<hist, conf, header, runs, given, overlaps, lost>>

Rescan(t) ==
    /\ tool[t].pc = "scan" /\ tool[t].todo = {} /\ tool[t].again
    /\ tool' = [tool EXCEPT ![t].todo = Listing, ![t].again = FALSE]
    /\ UNCHANGED <<hist, conf, header, runs, given, overlaps, lost>>

\* setup: the run loads the history of its own model.
Setup(t) ==
    LET m == tool[t].model
        f == hist[m]
        table == tool[t].table
    IN  /\ tool[t].pc = "scan" /\ tool[t].todo = {} /\ ~tool[t].again
        /\ IF Category(table, m, f) = 0 THEN Fail(t)
           ELSE /\ tool' = [tool EXCEPT ![t].pc = "write",
                                        ![t].table = Noted(table, m, f),
                                        ![t].cat = Category(table, m, f),
                                        ![t].ids = IF KeepsIds(table, m, f)
                                                   THEN f.ids ELSE Nothing,
                                        ![t].modified = ~KeepsIds(table, m, f)]
                /\ UNCHANGED <<hist, conf, header, runs, given, overlaps, lost>>

\* The first number not below the category's start or a number in use.
NextIndex(cat, ids) == Max({cat * Span} \cup {i + 1 : i \in Range(ids)})

\* write: the header is printed, each name numbered by add_enum as it comes up.
GenerateHeader(t, content) ==
    LET m == tool[t].model
        old == tool[t].ids
        added == content \ DOMAIN old
        first == NextIndex(tool[t].cat, old)
    IN  /\ tool[t].pc = "write"
        /\ IF added # {} /\ first + Cardinality(added) > (tool[t].cat + 1) * Span
           THEN Fail(t)
           ELSE \E new \in Bijection(added, first .. first + Cardinality(added) - 1) :
                  LET ids == Over(old, new)
                      shown == Restrict(ids, content)
                  IN  /\ header' = [header EXCEPT ![m] = shown]
                      /\ given' = [given EXCEPT ![m] = Over(shown, @)]
                      /\ tool' = [tool EXCEPT ![t].pc = "close", ![t].ids = ids,
                                              ![t].modified = @ \/ added # {}]
                      /\ UNCHANGED <<hist, conf, runs, overlaps, lost>>

\* close: the history is opened for writing, which empties it, if it changed.
OpenHistory(t) ==
    /\ tool[t].pc = "close"
    /\ tool' = [tool EXCEPT ![t].pc = IF tool[t].modified THEN "store" ELSE "conf"]
    /\ hist' = IF tool[t].modified
               THEN [hist EXCEPT ![tool[t].model] = TornHistory] ELSE hist
    /\ UNCHANGED <<conf, header, runs, given, overlaps, lost>>

StoreHistory(t) ==
    /\ tool[t].pc = "store"
    /\ hist' = [hist EXCEPT ![tool[t].model] =
                   [file |-> TRUE, cat |-> tool[t].cat, ids |-> tool[t].ids]]
    /\ tool' = [tool EXCEPT ![t].pc = "conf"]
    /\ UNCHANGED <<conf, header, runs, given, overlaps, lost>>

\* The category file is emptied last, and only if it was there at the start.
OpenConf(t) ==
    LET writes == tool[t].table.writes /\ tool[t].table.modified
    IN  /\ tool[t].pc = "conf"
        /\ tool' = [tool EXCEPT ![t] = IF writes THEN [@ EXCEPT !.pc = "conf-store"]
                                                 ELSE IdleTool]
        /\ conf' = IF writes THEN [NoConf EXCEPT !.file = "empty"] ELSE conf
        /\ UNCHANGED <<hist, header, runs, given, overlaps, lost>>

\* init_file.  The text "False" of auto-generate is read back as true, so that
\* a file once written is no longer bounded by its range.
StoreConf(t) ==
    LET table == tool[t].table
        named == Restrict(table.cats, DOMAIN table.cats \ {Unnamed})
    IN  /\ tool[t].pc = "conf-store"
        /\ conf' = [file |-> "text", start |-> table.start,
                    end |-> Max({table.end} \cup Range(table.cats)),
                    auto |-> TRUE, cats |-> named]
        /\ tool' = [tool EXCEPT ![t] = IdleTool]
        /\ UNCHANGED <<hist, header, runs, given, overlaps, lost>>

\* The machine stops: the files stay as they are.  (A crash before the first
\* write leaves nothing behind and is the same as a run that never was.)
Crash(t) ==
    /\ tool[t].pc \notin {"idle", "scan", "write"}
    /\ tool' = [tool EXCEPT ![t] = IdleTool]
    /\ lost' = IF tool[t].pc \in {"close", "store"} /\ tool[t].modified
               THEN lost \cup {tool[t].model} ELSE lost
    /\ UNCHANGED <<hist, conf, header, runs, given, overlaps>>
----
HistoryInit ==
    /\ hist = [m \in Models |-> NoHistory]
    /\ conf \in FirstConf
    /\ header = [m \in Models |-> Nothing]
    /\ tool = [t \in Tools |-> IdleTool]
    /\ runs = 0
    /\ given = [m \in Models |-> Nothing]
    /\ overlaps = {} /\ lost = {}

HistoryNext ==
    \/ \E m \in Models : StartRefused(m)
    \/ \E t \in Tools :
          \/ \E m \in Models : Start(t, m) \/ ScanHist(t, m)
          \/ Rescan(t) \/ Setup(t)
          \/ \E content \in Contents : GenerateHeader(t, content)
          \/ OpenHistory(t) \/ StoreHistory(t) \/ OpenConf(t) \/ StoreConf(t)
          \/ Crash(t)

HistorySpec == HistoryInit /\ [][HistoryNext]_histVars
----
(* Correctness. *)

\* Models for which the first category.yconf may have reserved a category.  A
\* run that starts while another one writes the file finds it empty, and does
\* not know of the reservation.
Reserved == UNION {DOMAIN c.cats : c \in FirstConf}
Overlapped(m) == \E pair \in overlaps : m \in pair

\* What keeps the numbers of a model from being kept: they were lost in a
\* crash, two of its runs overlapped, or one of its runs overlapped another
\* and its category was a reserved one.
Disturbed(m) == m \in lost \/ {m} \in overlaps \/ (m \in Reserved /\ Overlapped(m))

\* A name keeps its number: whatever headers were generated in between, with
\* the name or without it, a new header gives it the number it last had,
\* unless the model was disturbed.
StableIds ==
    [][\A m \in Models : \A n \in DOMAIN given[m] \cap DOMAIN given'[m] :
          given'[m][n] = given[m][n] \/ Disturbed(m)']_histVars

\* No number has ever meant two names, of one model or of two, unless one of
\* the models was disturbed, their runs overlapped (both may have taken the
\* same new category), or one overlapped some run and the category of the
\* other was a reserved one.
DistinctIds ==
    \A m, m2 \in Models :
       \/ Disturbed(m) \/ Disturbed(m2) \/ {m, m2} \in overlaps
       \/ {m, m2} \cap Reserved # {} /\ (Overlapped(m) \/ Overlapped(m2))
       \/ \A n \in DOMAIN given[m], n2 \in DOMAIN given[m2] :
             given[m][n] = given[m2][n2] => <<m, n>> = <<m2, n2>>
====
