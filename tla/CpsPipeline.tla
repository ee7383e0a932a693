---------------------------- MODULE CpsPipeline ----------------------------
(***************************************************************************)
(* Connections to the databases: the pool                                  *)
(* (src/src/db/cps_api_db_connection_tools.cpp), requests and responses on *)
(* a connection (src/src/db/cps_api_db_connection.cpp), the commands       *)
(* (src/src/db/cps_redis.cpp) and the bulk operations that pipeline them   *)
(* (src/src/db/cps_api_db_pipeline.cpp; cps_api_db_get_bulk and            *)
(* cps_api_db_commit_bulk in src/src/db/cps_api_db_direct.cpp).            *)
(*                                                                         *)
(* A connection is what its two ends hold: the requests in the output      *)
(* buffer and the replies not yet read.  Nothing else ties a reply to its  *)
(* request: a thread takes the next reply for the answer to its own.       *)
(*                                                                         *)
(* An operator named ...Outcomes gives the set of results a call may have, *)
(* as records of the connection, the database and the reply afterwards.    *)
(*                                                                         *)
(* Two addresses: Dst, the local node, and Src, a remote one.              *)
(***************************************************************************)
EXTENDS Naturals, Sequences, SequencesExt

CONSTANTS
    Src, Dst,
    Keys,        \* keys of the objects of one class
    Attrs, Vals, \* attributes of an object and their values
    None,        \* the attribute is not there
    Absent,      \* the object is not there
    NoKey,       \* the key of a newly created, blank object
    Stored,      \* the objects applications create
    Beginnings,  \* what the source and the destination may have at first, by key
    Update,      \* what the bulk set puts into each of its objects
    PoolMax,     \* cps.connect.cache-max-size
    Pipe,        \* cps.pipeline.count
    MaxTroubles, \* bound: connections lost or refused, changes by other processes
    MaxCalls     \* bound: operations

Addrs == {Src, Dst}
Object == [Attrs -> Vals \cup {None}]
Complete == {v \in Object : \A a \in Attrs : v[a] # None}
Blank == [key |-> NoKey, val |-> [a \in Attrs |-> None]]

ASSUME PipelineAssumption ==
    /\ Src # Dst
    /\ IsFiniteSet(Keys) /\ NoKey \notin Keys
    /\ None \notin Vals
    /\ Absent \notin Object
    /\ Stored \subseteq Complete
    /\ Beginnings \subseteq [Keys -> (Stored \cup {Absent}) \X (Stored \cup {Absent})]
    /\ Update \in Object
    /\ PoolMax \in Nat
    /\ Pipe \in Nat \ {0}

VARIABLES
    db,        \* the hash of each key in each database: field object, field dirty
    pool,      \* _pool: idle connections, the last one is taken next
    held,      \* connections taken from the pool, by what they are used for
    bulk,      \* the thread in a bulk operation
    troubles,  \* bound
    calls,     \* bound
    lostBy,    \* history: which threads have lost a connection
    gaveUp,    \* history: a pipeline was left before its last reply, or its
               \*   first requests were lost with a connection
    touched    \* history: what others than the synchronisation did to the objects

pipeVars == <<db, pool, held, bulk, troubles, calls, lostBy, gaveUp, touched>>

Threads == {"bulk", "sync"}

NoHash == [obj |-> Absent, dirty |-> FALSE]

-----------------------------------------------------------------------------
(* The database (external), as far as the commands below use it *)

Request(cmd, key) == [cmd |-> cmd, key |-> key]
Store(o) == [cmd |-> "store", key |-> o.key, val |-> o.val]

\* SCAN lists the hashes there are, in some order.
Scanned(d) == SetToSeq({k \in Keys : d[k] # NoHash})

Effect(d, r) ==
    IF r.key \notin Keys THEN d
    ELSE CASE r.cmd = "mark"   -> [d EXCEPT ![r.key].dirty = TRUE]
           [] r.cmd = "unmark" -> [d EXCEPT ![r.key].dirty = FALSE]
           [] r.cmd = "store"  -> [d EXCEPT ![r.key].obj = r.val]
           [] r.cmd = "del"    -> [d EXCEPT ![r.key] = NoHash]
           [] OTHER            -> d

Answer(d, r) ==
    CASE r.cmd = "get" ->
            IF d[r.key].obj = Absent THEN [of |-> r, is |-> "nil"]
            ELSE [of |-> r, is |-> "object", obj |-> [key |-> r.key, val |-> d[r.key].obj]]
      [] r.cmd = "marked" -> [of |-> r, is |-> IF d[r.key].dirty THEN "string" ELSE "nil"]
      [] r.cmd = "scan"   -> [of |-> r, is |-> "keys", keys |-> Scanned(d)]
      [] r.cmd = "ping"   -> [of |-> r, is |-> "pong"]
      [] OTHER            -> [of |-> r, is |-> "int"]

\* The requests of one buffer are executed one after the other: the database
\* after the first n of them.
After(d, reqs) ==
    LET f[n \in 0..Len(reqs)] == IF n = 0 THEN d ELSE Effect(f[n - 1], reqs[n])
    IN  f

Executed(d, reqs) ==
    [db |-> After(d, reqs)[Len(reqs)],
     in |-> [n \in 1..Len(reqs) |-> Answer(After(d, reqs)[n - 1], reqs[n])]]

-----------------------------------------------------------------------------
(* connection *)

Fresh == [up |-> TRUE, out |-> <<>>, in |-> <<>>]
Broken == [up |-> FALSE, out |-> <<>>, in |-> <<>>]  \* _ctx is a null pointer
Clean(c) == c.out = <<>> /\ c.in = <<>>

\* operation() without a flush: false on a connection that is not up.
Buffered(c, reqs) == IF c.up THEN [c EXCEPT !.out = @ \o reqs] ELSE c

\* operation() reconnects when a request cannot be appended, and appends it to
\* the new connection: it succeeds, and the requests buffered before are gone.
\* The first request of an empty buffer finds the new connection like the old.
Rebuffered(reqs) ==
    {Buffered(Fresh, SubSeq(reqs, i, Len(reqs))) : i \in {n \in DOMAIN reqs : n > 1 \/ gaveUp}}

NoReply == [is |-> "none"]
Outcome(c, d, reply, lost) == [conn |-> c, db |-> d, reply |-> reply, lost |-> lost]

\* reconnect() throws away what is buffered at both ends, and may fail.
Reconnects == {Fresh, Broken}

\* response(): flush and take the next reply.  When nothing is outstanding a
\* local connection is read without a timeout and the call does not return.
ResponseOutcomes(a, c) ==
    LET run == Executed(db[a], c.out)
        in == c.in \o run.in
        answered == {Outcome([up |-> TRUE, out |-> <<>>, in |-> Tail(in)],
                             run.db, Head(in), FALSE) : x \in {1} \cap 1..Len(in)}
        timeouts == {Outcome(n, db[a], NoReply, FALSE) :
                        n \in IF in = <<>> /\ a = Src THEN Reconnects ELSE {}}
        failures == {Outcome(n, Executed(db[a], SubSeq(c.out, 1, i)).db, NoReply, TRUE) :
                        n \in Reconnects,
                        i \in IF troubles < MaxTroubles THEN 0..Len(c.out) ELSE {}}
    IN  IF c.up THEN answered \cup timeouts \cup failures
        ELSE {Outcome(c, db[a], NoReply, FALSE)}

\* command(): a request, appended to the connection or to a new one, and its
\* response.
CommandOutcomes(a, c, r) ==
    UNION {ResponseOutcomes(a, Buffered(n, <<r>>)) :
              n \in {c} \cup IF c.up /\ troubles < MaxTroubles THEN {Fresh} ELSE {}}

\* What a thread notes of an outcome.
Note(thread, o) ==
    /\ troubles' = IF o.lost THEN troubles + 1 ELSE troubles
    /\ lostBy' = IF o.lost THEN lostBy \cup {thread} ELSE lostBy

-----------------------------------------------------------------------------
(* connection_cache *)

\* get(): a remote connection that was idle for long is tried with a ping,
\* which takes an old reply for its own and drops the connection.
TakeOutcomes(a) ==
    LET p == pool[a]
        dropped == {n \in 0..Len(p) :
                       n = 0 \/ (a = Src /\ \A i \in (Len(p) - n + 1)..Len(p) : ~Clean(p[i]))}
        found == {[conn |-> p[Len(p) - n], rest |-> SubSeq(p, 1, Len(p) - n - 1), lost |-> FALSE] :
                     n \in dropped \ {Len(p)}}
        opened == {[conn |-> c, rest |-> <<>>, lost |-> c = Broken] :
                     c \in {Fresh} \cup IF troubles < MaxTroubles THEN {Broken} ELSE {}}
    IN  found \cup IF Len(p) \in dropped THEN opened ELSE {}

\* put(): what is not up, or one too many, is closed.
Put(p, a, c) ==
    IF c.up /\ Len(p[a]) < PoolMax THEN [p EXCEPT ![a] = Append(@, c)] ELSE p

-----------------------------------------------------------------------------
(* Bulk operations on all keys of the local node: cps_api_db_commit_bulk   *)
(* with cps_api_oper_SET or cps_api_oper_DELETE, and cps_api_db_get_bulk    *)

BulkList == [i \in 1..Len(SetToSeq(Keys)) |-> [key |-> SetToSeq(Keys)[i], val |-> Update]]

\* Mutant: the object that was read is thrown away.
MergeNothing(d, s) == s

\* cps_api_object_attr_merge with duplicates removed: the attributes of s win.
Merge(d, s) == [a \in Attrs |-> IF s[a] = None THEN d[a] ELSE s[a]]

\* The range of cps_api_range_split that starts after the first n of a list.
NextRange(l, n) == SubSeq(l, n + 1, IF n + Pipe < Len(l) THEN n + Pipe ELSE Len(l))

PipeInit ==
    /\ \E b \in Beginnings :
          db = [a \in Addrs |-> [k \in Keys |->
                   [NoHash EXCEPT !.obj = IF a = Src THEN b[k][1] ELSE b[k][2]]]]
    /\ pool = [a \in Addrs |-> <<>>]
    /\ held = <<>>
    /\ bulk = [pc |-> "idle", list |-> <<>>, done |-> 0, left |-> 0]
    /\ troubles = 0
    /\ calls = 0
    /\ lostBy = {}
    /\ gaveUp = FALSE
    /\ touched = {}

With(role, c) == held' = [r \in DOMAIN held \cup {role} |-> IF r = role THEN c ELSE held[r]]
Released(roles) == held' = [r \in DOMAIN held \ roles |-> held[r]]

BulkReturns == bulk' = [bulk EXCEPT !.pc = "idle", !.list = <<>>, !.done = 0, !.left = 0]

\* A handler begins: __pre_set (merging) and __handle_create (storing) of a
\* set, __handle_delete (deleting), __cps_api_db_get_bulk (getting).
BulkConnect(pc) ==
    /\ \/ pc \in {"merging", "deleting", "getting"} /\ bulk.pc = "idle" /\ calls < MaxCalls
       \/ pc = "storing" /\ bulk.pc = "store"
    /\ \E t \in TakeOutcomes(Dst) :
          /\ pool' = [pool EXCEPT ![Dst] = t.rest]
          /\ Note("bulk", t)
          /\ IF ~t.conn.up THEN held' = held /\ BulkReturns
             ELSE /\ With("bulk", t.conn)
                  /\ bulk' = IF pc = "storing" THEN [bulk EXCEPT !.pc = pc, !.done = 0]
                             ELSE [bulk EXCEPT !.pc = pc, !.list = BulkList]
    /\ calls' = IF pc = "storing" THEN calls ELSE calls + 1
    /\ UNCHANGED <<db, gaveUp, touched>>

\* The requests of one range: bulk_send_req of merge_objects and
\* get_object_list, and the loops of store_objects and delete_object_list.
BulkRange == NextRange(bulk.list, bulk.done)
BulkRequests ==
    [i \in DOMAIN BulkRange |->
        CASE bulk.pc = "storing"  -> Store(BulkRange[i])
          [] bulk.pc = "deleting" -> Request("del", BulkRange[i].key)
          [] OTHER                -> Request("get", BulkRange[i].key)]

BulkSends ==
    /\ bulk.pc \notin {"idle", "store"}
    /\ bulk.left = 0
    /\ bulk.done < Len(bulk.list)

BulkSend ==
    /\ BulkSends
    /\ With("bulk", Buffered(held["bulk"], BulkRequests))
    /\ bulk' = [bulk EXCEPT !.left = Len(BulkRange)]
    /\ UNCHANGED <<db, pool, troubles, calls, lostBy, gaveUp, touched>>

\* operation() reconnects between two of the requests.
BulkSendRetried ==
    /\ BulkSends
    /\ held["bulk"].up
    /\ troubles < MaxTroubles
    /\ \E c \in Rebuffered(BulkRequests) : With("bulk", c)
    /\ bulk' = [bulk EXCEPT !.left = Len(BulkRange)]
    /\ troubles' = troubles + 1
    /\ gaveUp' = TRUE
    /\ UNCHANGED <<db, pool, calls, lostBy, touched>>

\* The connection goes back to the pool as it is.
BulkRelease(c) == pool' = Put(pool, Dst, c) /\ Released({"bulk"})

\* operation() fails: it cannot reconnect, or the retry fails as well.  The
\* return code of merge_objects is OK from its second range on.
BulkSendFails ==
    /\ BulkSends
    /\ held["bulk"].up
    /\ troubles < MaxTroubles
    /\ \E c \in Reconnects : BulkRelease(c)
    /\ IF bulk.pc = "merging" /\ bulk.done > 0 THEN bulk' = [bulk EXCEPT !.pc = "store"]
       ELSE BulkReturns
    /\ troubles' = troubles + 1
    /\ lostBy' = lostBy \cup {"bulk"}
    /\ UNCHANGED <<db, calls, gaveUp, touched>>

\* The loop of merge_objects over the replies.  A reply that is lost leaves
\* the return code OK, and __pre_set goes on as if the objects were merged.
MergeReply ==
    /\ bulk.pc = "merging"
    /\ bulk.left > 0
    /\ \E o \in ResponseOutcomes(Dst, held["bulk"]) :
          /\ db' = [db EXCEPT ![Dst] = o.db]
          /\ Note("bulk", o)
          /\ IF o.reply.is = "object"
             THEN /\ LET old == bulk.list[bulk.done + 1]
                         new == [key |-> o.reply.obj.key, val |-> Merge(o.reply.obj.val, old.val)]
                     IN bulk' = [bulk EXCEPT !.list[bulk.done + 1] = new,
                                             !.done = @ + 1, !.left = @ - 1]
                  /\ With("bulk", o.conn)
                  /\ UNCHANGED <<pool, gaveUp>>
             ELSE /\ IF o.reply = NoReply THEN bulk' = [bulk EXCEPT !.pc = "store", !.left = 0]
                                          ELSE BulkReturns
                  /\ BulkRelease(o.conn)
                  /\ gaveUp' = (gaveUp \/ (o.reply # NoReply /\ bulk.left > 1))
    /\ UNCHANGED <<calls, touched>>

\* The loop of store_objects over the replies.
StoreReply ==
    /\ bulk.pc = "storing"
    /\ bulk.left > 0
    /\ \E o \in ResponseOutcomes(Dst, held["bulk"]) :
          /\ db' = [db EXCEPT ![Dst] = o.db]
          /\ touched' = touched \cup {"stored"}
          /\ Note("bulk", o)
          /\ IF o.reply # NoReply
             THEN /\ bulk' = [bulk EXCEPT !.done = @ + 1, !.left = @ - 1]
                  /\ With("bulk", o.conn)
                  /\ UNCHANGED pool
             ELSE BulkReturns /\ BulkRelease(o.conn)
    /\ UNCHANGED <<calls, gaveUp>>

\* The loops of delete_object_list and get_object_list over the replies: a
\* failed response leaves the return code OK, and they read on.
ReadOn ==
    /\ bulk.pc \in {"deleting", "getting"}
    /\ bulk.left > 0
    /\ \E o \in ResponseOutcomes(Dst, held["bulk"]) :
          /\ db' = [db EXCEPT ![Dst] = o.db]
          /\ touched' = IF bulk.pc = "deleting" THEN touched \cup {"deleted"} ELSE touched
          /\ Note("bulk", o)
          /\ bulk' = [bulk EXCEPT !.done = @ + 1, !.left = @ - 1]
          /\ With("bulk", o.conn)
    /\ UNCHANGED <<pool, calls, gaveUp>>

\* All ranges are done: on to __handle_create, or to the end.
BulkDone ==
    /\ bulk.pc \notin {"idle", "store"}
    /\ bulk.left = 0
    /\ bulk.done = Len(bulk.list)
    /\ BulkRelease(held["bulk"])
    /\ IF bulk.pc = "merging" THEN bulk' = [bulk EXCEPT !.pc = "store"] ELSE BulkReturns
    /\ UNCHANGED <<db, troubles, calls, lostBy, gaveUp, touched>>

\* Another process creates or deletes an object (external).
OtherProcess ==
    /\ troubles < MaxTroubles
    /\ \E a \in Addrs, k \in Keys, v \in Stored \cup {Absent} :
          /\ db' = [db EXCEPT ![a][k] = IF v = Absent THEN NoHash ELSE [@ EXCEPT !.obj = v]]
          /\ touched' = touched \cup {IF v = Absent THEN "deleted" ELSE "stored"}
    /\ db' # db
    /\ troubles' = troubles + 1
    /\ UNCHANGED <<pool, held, bulk, calls, lostBy, gaveUp>>

PipeStep ==
    \/ \E pc \in {"merging", "storing", "deleting", "getting"} : BulkConnect(pc)
    \/ BulkSend \/ BulkSendRetried \/ BulkSendFails \/ MergeReply \/ StoreReply \/ ReadOn \/ BulkDone
    \/ OtherProcess
=============================================================================
