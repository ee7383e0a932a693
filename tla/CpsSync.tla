------------------------------ MODULE CpsSync ------------------------------
(***************************************************************************)
(* Synchronising one database with another: cps_api_sync and               *)
(* cps_api_reconcile (src/src/non-core/cps_api_db_interface_tools.cpp).    *)
(*                                                                         *)
(* Every hash of the destination gets a field "dirty".  The objects of the *)
(* source, a database or a list, are then read together with those of the  *)
(* destination, in pipelines: where both exist the mark is removed, and    *)
(* the application is asked whether to store what is new or different.     *)
(* What is still marked in the end is deleted, if the application agrees.  *)
(*                                                                         *)
(* The thread shares the pool of connections with the bulk operations of   *)
(* CpsPipeline and the databases with other processes.  The event after a  *)
(* change is handed to the queue of CpsEventQueue and left out here.       *)
(***************************************************************************)
EXTENDS CpsPipeline

VARIABLE
    sync  \* the thread in cps_api_sync or cps_api_reconcile, a record of
          \*   pc         where it is
          \*   list       the source is the list src_objs and not a database
          \*   objs       src_objs; history of the source for cps_api_sync
          \*   keys       keys of the walk that are not requested yet
          \*   cache      _key_cache: keys whose replies are outstanding
          \*   src, dest  params.object_src and params.object_dest
          \*   found      _rc_a: the object is in the destination
          \*   rc         what was returned last
          \*   agreed     history: the application refused no change

vars == <<pipeVars, sync>>

Init ==
    /\ PipeInit
    /\ sync = [pc |-> "idle", list |-> FALSE, objs |-> <<>>, keys |-> <<>>, cache |-> <<>>,
               src |-> Blank, dest |-> Blank, found |-> FALSE, rc |-> "none",
               agreed |-> TRUE]

\* The call begins.  A hash without an object, left by an earlier call, counts
\* as an object deleted by others.
Start ==
    /\ sync.pc = "idle"
    /\ calls < MaxCalls
    /\ \E list \in BOOLEAN :
          sync' = [sync EXCEPT !.pc = "dest", !.list = list, !.rc = "none", !.agreed = TRUE,
                               !.objs = [k \in Keys |-> db[Src][k].obj]]
    /\ touched' = IF \E k \in Keys : db[Dst][k] = [NoHash EXCEPT !.dirty = TRUE]
                  THEN {"deleted"} ELSE {}
    /\ lostBy' = lostBy \ {"sync"}
    /\ calls' = calls + 1
    /\ UNCHANGED <<db, pool, held, bulk, troubles, gaveUp>>

-----------------------------------------------------------------------------
(* Connections *)

\* The connections in the order they are taken: address, and what comes next.
Opens ==
    [dest        |-> <<Dst, "meta">>,
     meta        |-> <<Dst, "marks">>,
     marks       |-> <<Dst, "scan destination">>,
     source_get  |-> <<Src, "source_walk">>,
     source_walk |-> <<Src, "ping">>,
     delete_walk |-> <<Dst, "delete_meta">>,
     delete_meta |-> <<Dst, "cleanup">>,
     cleanup     |-> <<Dst, "scan marked">>]

\* The destructors give the connections back, the last one first.
Roles == <<"cleanup", "delete_meta", "delete_walk", "source_walk", "source_get",
           "marks", "meta", "dest">>
GivenBack(p, role, roles) ==
    IF role \in roles \cap DOMAIN held THEN Put(p, Opens[role][1], held[role]) ELSE p
Pools(roles) ==
    LET f[n \in 0..Len(Roles)] ==
            IF n = 0 THEN pool ELSE GivenBack(f[n - 1], Roles[n], roles)
    IN  f
Release(roles) ==
    /\ pool' = Pools(roles)[Len(Roles)]
    /\ Released(roles)

\* The call returns.
Return ==
    /\ sync.pc \in {"ok", "err"}
    /\ Release(DOMAIN Opens)
    /\ sync' = [sync EXCEPT !.pc = "idle", !.rc = sync.pc, !.keys = <<>>, !.cache = <<>>,
                            !.dest = Blank]
    /\ UNCHANGED <<db, bulk, troubles, calls, lostBy, gaveUp, touched>>

\* connection_request and its valid().
Open(role) ==
    /\ sync.pc = role
    /\ \E t \in TakeOutcomes(Opens[role][1]) :
          /\ Note("sync", t)
          /\ pool' = [pool EXCEPT ![Opens[role][1]] = t.rest]
          /\ IF t.conn.up THEN With(role, t.conn) ELSE UNCHANGED held
          /\ sync' = [sync EXCEPT !.pc = IF t.conn.up THEN Opens[role][2] ELSE "err"]
    /\ UNCHANGED <<db, bulk, calls, gaveUp, touched>>

\* A call on a connection that is held has this outcome.
Uses(role, o) ==
    /\ db' = [db EXCEPT ![Opens[role][1]] = o.db]
    /\ Note("sync", o)
    /\ With(role, o.conn)
    /\ UNCHANGED <<pool, bulk, calls, gaveUp, touched>>

Response(role) == ResponseOutcomes(Opens[role][1], held[role])
Command(role, r) == CommandOutcomes(Opens[role][1], held[role], r)

\* walk_keys: one SCAN, of at most CPS_DB_MAX_ITEMS_PER_SCAN keys.
Walk(pc, role, then) ==
    /\ sync.pc = pc
    /\ \E o \in Command(role, Request("scan", NoKey)) :
          /\ Uses(role, o)
          /\ sync' = IF o.reply.is = "keys" THEN [sync EXCEPT !.pc = then, !.keys = o.reply.keys]
                     ELSE [sync EXCEPT !.pc = "err"]

\* The keys the next pipeline is filled with, and what is left then.
Batch == NextRange(sync.keys, 0)
Rest == SubSeq(sync.keys, Len(Batch) + 1, Len(sync.keys))
Requests(cmd, keys) == [i \in DOMAIN keys |-> Request(cmd, keys[i])]

\* Requests for a pipeline on one connection; a connection that is not up
\* ends the walk with an error.
Fill(pc, role, cmd, then) ==
    /\ sync.pc = pc
    /\ sync.keys # <<>>
    /\ sync' = IF held[role].up THEN [sync EXCEPT !.pc = then, !.cache = Batch, !.keys = Rest]
               ELSE [sync EXCEPT !.pc = "err"]
    /\ With(role, Buffered(held[role], Requests(cmd, Batch)))
    /\ UNCHANGED <<db, pool, bulk, troubles, calls, lostBy, gaveUp, touched>>

\* operation() reconnects between two of the requests, or fails.
FillRetried(pc, role, cmd, then) ==
    /\ sync.pc = pc
    /\ sync.keys # <<>>
    /\ held[role].up
    /\ troubles < MaxTroubles
    /\ \E c \in Rebuffered(Requests(cmd, Batch)) : With(role, c)
    /\ sync' = [sync EXCEPT !.pc = then, !.cache = Batch, !.keys = Rest]
    /\ troubles' = troubles + 1
    /\ gaveUp' = TRUE
    /\ UNCHANGED <<db, pool, bulk, calls, lostBy, touched>>

FillFails(pc, role) ==
    /\ sync.pc = pc
    /\ sync.keys # <<>>
    /\ held[role].up
    /\ troubles < MaxTroubles
    /\ \E c \in Reconnects : With(role, c)
    /\ sync' = [sync EXCEPT !.pc = "err"]
    /\ troubles' = troubles + 1
    /\ lostBy' = lostBy \cup {"sync"}
    /\ UNCHANGED <<db, pool, bulk, calls, gaveUp, touched>>

\* Mutant: one reply of the pipeline is not waited for.
LastReplyLeft(s, reply, request) ==
    [s EXCEPT !.cache = Tail(@), !.pc = IF Len(s.cache) > 2 THEN reply ELSE request]

\* On to the next reply of the pipeline, or to the next pipeline.  Neither _rc_a
\* nor object_src is used again before it is set; object_dest may be.
NextReply(s, reply, request) ==
    [s EXCEPT !.cache = Tail(@), !.pc = IF Len(s.cache) > 1 THEN reply ELSE request,
              !.found = FALSE, !.src = Blank]

-----------------------------------------------------------------------------
(* _mark_dirty_dbkey: for_each_store_field *)

ScanDestination == Walk("scan destination", "meta", "mark")
SendMarks == Fill("mark", "marks", "mark", "mark reply")
SendMarksRetried == FillRetried("mark", "marks", "mark", "mark reply")
SendMarksFails == FillFails("mark", "marks")

\* dbkey_field_set_response, whose result is ignored.
MarkReply ==
    /\ sync.pc = "mark reply"
    /\ \E o \in Response("marks") : Uses("marks", o)
    /\ sync' = NextReply(sync, "mark reply", "mark")

\* All are marked.  cps_api_reconcile has its keys in the list.
Marked ==
    /\ sync.pc = "mark"
    /\ sync.keys = <<>>
    /\ Release({"marks"})
    /\ sync' = IF sync.list
               THEN [sync EXCEPT !.pc = "request",
                                 !.keys = SetToSeq({k \in Keys : sync.objs[k] # Absent})]
               ELSE [sync EXCEPT !.pc = "source_get"]
    /\ UNCHANGED <<db, bulk, troubles, calls, lostBy, gaveUp, touched>>

-----------------------------------------------------------------------------
(* The objects of the source *)

Ping ==
    /\ sync.pc = "ping"
    /\ \E o \in Command("source_walk", Request("ping", NoKey)) :
          /\ Uses("source_walk", o)
          /\ sync' = [sync EXCEPT !.pc = IF o.reply.is = "pong" THEN "scan source" ELSE "err"]

ScanSource == Walk("scan source", "source_walk", "request")

\* cps_api_reconcile passes over a request that fails.
RequestListed ==
    /\ sync.list
    /\ sync.pc = "request"
    /\ IF held["dest"].up THEN Fill("request", "dest", "get", "dest reply")
       ELSE /\ sync.keys # <<>>
            /\ sync' = [sync EXCEPT !.keys = <<>>]
            /\ UNCHANGED pipeVars

RequestListedRetried ==
    sync.list /\ FillRetried("request", "dest", "get", "dest reply")

\* The request that fails is passed over, and with it, when operation() could
\* not reconnect, all that follow.  The replies to those before are read.
RequestListedFails ==
    /\ sync.list
    /\ sync.pc = "request"
    /\ sync.keys # <<>>
    /\ held["dest"].up
    /\ troubles < MaxTroubles
    /\ \E i \in DOMAIN Batch :
          \/ LET asked == SubSeq(Batch, 1, i - 1) IN
             /\ With("dest", Broken)
             /\ sync' = [sync EXCEPT !.pc = IF asked = <<>> THEN "request" ELSE "dest reply",
                                     !.cache = asked, !.keys = <<>>]
             /\ UNCHANGED gaveUp
          \/ LET tried == SubSeq(sync.keys, 1, IF Pipe < Len(sync.keys) THEN Pipe + 1
                                                                       ELSE Len(sync.keys))
                 asked == RemoveAt(tried, i)
             IN
             /\ With("dest", Buffered(Fresh, Requests("get", SubSeq(tried, i + 1, Len(tried)))))
             /\ sync' = [sync EXCEPT !.pc = IF asked = <<>> THEN "request" ELSE "dest reply",
                                     !.cache = asked,
                                     !.keys = SubSeq(@, Len(tried) + 1, Len(@))]
             /\ gaveUp' = (gaveUp \/ i > 1)
    /\ troubles' = troubles + 1
    /\ lostBy' = lostBy \cup {"sync"}
    /\ UNCHANGED <<db, pool, bulk, calls, touched>>

\* cps_api_sync asks both databases for each key.  When one request fails the
\* other may have been buffered; nobody will read its reply.
RequestBoth ==
    /\ ~sync.list
    /\ sync.pc = "request"
    /\ sync.keys # <<>>
    /\ LET up == held["dest"].up /\ held["source_get"].up
           asked == Requests("get", IF up THEN Batch ELSE <<Head(Batch)>>)
       IN  /\ held' = [held EXCEPT !["dest"] = Buffered(@, asked),
                                   !["source_get"] = Buffered(@, asked)]
           /\ sync' = IF up THEN [sync EXCEPT !.pc = "dest reply", !.cache = Batch, !.keys = Rest]
                      ELSE [sync EXCEPT !.pc = "err"]
           /\ gaveUp' = (gaveUp \/ ~up)
    /\ UNCHANGED <<db, pool, bulk, troubles, calls, lostBy, touched>>

\* operation() reconnects between two requests on one of the connections, or
\* fails, and the replies on the other will not be read.
RequestBothRetried ==
    /\ ~sync.list
    /\ sync.pc = "request"
    /\ sync.keys # <<>>
    /\ held["dest"].up /\ held["source_get"].up
    /\ troubles < MaxTroubles
    /\ \E role \in {"dest", "source_get"} :
          \/ LET asked == Requests("get", Batch) IN
             /\ \E c \in Rebuffered(asked) :
                   held' = [r \in DOMAIN held |->
                               CASE r = role -> c
                                 [] r \in {"dest", "source_get"} \ {role} -> Buffered(held[r], asked)
                                 [] OTHER -> held[r]]
             /\ sync' = [sync EXCEPT !.pc = "dest reply", !.cache = Batch, !.keys = Rest]
             /\ UNCHANGED lostBy
          \/ /\ \E c \in Reconnects, i \in DOMAIN Batch :
                   held' = [r \in DOMAIN held |->
                               CASE r = role -> c
                                 [] r \in {"dest", "source_get"} \ {role} ->
                                       Buffered(held[r], Requests("get", SubSeq(Batch, 1, i)))
                                 [] OTHER -> held[r]]
             /\ sync' = [sync EXCEPT !.pc = "err"]
             /\ lostBy' = lostBy \cup {"sync"}
    /\ troubles' = troubles + 1
    /\ gaveUp' = TRUE
    /\ UNCHANGED <<db, pool, bulk, calls, touched>>

\* Mutant: the object is not filled in.
NotReceived(o, old) == old

\* get_object_response leaves the object alone when it fails.
Received(o, old) == IF o.reply.is = "object" THEN o.reply.obj ELSE old

DestReply ==
    /\ sync.pc = "dest reply"
    /\ \E o \in Response("dest") :
          LET k == Head(sync.cache)
              s == [sync EXCEPT !.found = (o.reply.is = "object"), !.dest = Received(o, @)]
          IN  /\ Uses("dest", o)
              /\ sync' = IF sync.list
                         THEN [s EXCEPT !.pc = "compare",
                                        !.src = [key |-> k, val |-> sync.objs[k]]]
                         ELSE [s EXCEPT !.pc = "source reply"]

SourceReply ==
    /\ sync.pc = "source reply"
    /\ \E o \in Response("source_get") :
          /\ Uses("source_get", o)
          /\ sync' = IF o.reply.is = "object"
                     THEN [sync EXCEPT !.pc = "compare", !.src = Received(o, @)]
                     ELSE NextReply(sync, "dest reply", "request")

\* cps_api_obj_tool_matches_filter: all attributes of the filter are there.
Matches(filter, o) == \A a \in Attrs : filter[a] # None => filter[a] = o[a]

\* Mutant: the mark stays on an object that both databases have.
CompareOnly ==
    /\ sync.pc = "compare"
    /\ sync' = IF sync.found /\ Matches(sync.src.val, sync.dest.val)
               THEN NextReply(sync, "dest reply", "request") ELSE [sync EXCEPT !.pc = "apply"]
    /\ UNCHANGED pipeVars

\* _handle_create_set_case, on a connection of its own.  Without a connection
\* it returns an error code, which is a true value.
Compare ==
    /\ sync.pc = "compare"
    /\ \E t \in TakeOutcomes(Dst) :
          LET kept == [pool EXCEPT ![Dst] = t.rest]
              next == NextReply(sync, "dest reply", "request")
              ask == [sync EXCEPT !.pc = "apply"]
          IN  \/ /\ ~t.conn.up
                 /\ Note("sync", t)
                 /\ pool' = kept
                 /\ sync' = next
                 /\ UNCHANGED db
              \/ /\ t.conn.up /\ ~sync.found
                 /\ Note("sync", t)
                 /\ pool' = Put(kept, Dst, t.conn)
                 /\ sync' = ask
                 /\ UNCHANGED db
              \/ /\ t.conn.up /\ sync.found
                 /\ \E o \in CommandOutcomes(Dst, t.conn, Request("unmark", Head(sync.cache))) :
                       /\ Note("sync", o)
                       /\ db' = [db EXCEPT ![Dst] = o.db]
                       /\ pool' = Put(kept, Dst, o.conn)
                       /\ sync' = IF o.reply.is = "int" /\ ~Matches(sync.src.val, sync.dest.val)
                                  THEN ask ELSE next
    /\ UNCHANGED <<held, bulk, calls, gaveUp, touched>>

\* The callback and _process_cb_response: the application refuses, or the
\* object of the source is stored.
Apply ==
    /\ sync.pc = "apply"
    /\ \/ /\ sync' = NextReply([sync EXCEPT !.agreed = FALSE], "dest reply", "request")
          /\ UNCHANGED pipeVars
       \/ /\ \E o \in Command("meta", Store(sync.src)) : Uses("meta", o)
          /\ sync' = NextReply(sync, "dest reply", "request")

SourceDone ==
    /\ sync.pc = "request"
    /\ sync.keys = <<>>
    /\ Release({"source_get", "source_walk"})
    /\ sync' = [sync EXCEPT !.pc = "delete_walk"]
    /\ UNCHANGED <<db, bulk, troubles, calls, lostBy, gaveUp, touched>>

-----------------------------------------------------------------------------
(* _handle_delete_case *)

ScanMarked == Walk("scan marked", "delete_walk", "marked")
SendMarked == Fill("marked", "delete_meta", "marked", "marked reply")
SendMarkedRetried == FillRetried("marked", "delete_meta", "marked", "marked reply")
SendMarkedFails == FillFails("marked", "delete_meta")

MarkedReply ==
    /\ sync.pc = "marked reply"
    /\ \E o \in Response("delete_meta") :
          /\ Uses("delete_meta", o)
          /\ sync' = IF o.reply.is = "string" THEN [sync EXCEPT !.pc = "load"]
                     ELSE NextReply(sync, "marked reply", "marked")

\* get_object, whose result is ignored, and the callback.
Load ==
    /\ sync.pc = "load"
    /\ \E o \in Command("cleanup", Request("get", Head(sync.cache))) :
          /\ Uses("cleanup", o)
          /\ LET s == [sync EXCEPT !.dest = Received(o, @)] IN
             \/ sync' = [s EXCEPT !.pc = "delete"]
             \/ sync' = NextReply([s EXCEPT !.agreed = FALSE], "marked reply", "marked")

\* _process_cb_response: delete_object, and the mark.
Delete ==
    /\ sync.pc = "delete"
    /\ \E o \in Command("cleanup", Request("del", sync.dest.key)) : Uses("cleanup", o)
    /\ sync' = [sync EXCEPT !.pc = "unmark"]

Unmark ==
    /\ sync.pc = "unmark"
    /\ \E o \in Command("cleanup", Request("unmark", Head(sync.cache))) : Uses("cleanup", o)
    /\ sync' = NextReply(sync, "marked reply", "marked")

DeleteDone ==
    /\ sync.pc = "marked"
    /\ sync.keys = <<>>
    /\ sync' = [sync EXCEPT !.pc = "ok"]
    /\ UNCHANGED pipeVars

-----------------------------------------------------------------------------

SyncStep ==
    \/ Start
    \/ \E role \in DOMAIN Opens : Open(role)
    \/ ScanDestination \/ SendMarks \/ SendMarksRetried \/ SendMarksFails \/ MarkReply \/ Marked
    \/ Ping \/ ScanSource
    \/ RequestListed \/ RequestListedRetried \/ RequestListedFails
    \/ RequestBoth \/ RequestBothRetried
    \/ DestReply \/ SourceReply \/ Compare \/ Apply \/ SourceDone
    \/ ScanMarked \/ SendMarked \/ SendMarkedRetried \/ SendMarkedFails \/ MarkedReply \/ Load \/ Delete \/ Unmark \/ DeleteDone
    \/ Return

Next == (PipeStep /\ UNCHANGED sync) \/ SyncStep

Spec == Init /\ [][Next]_vars

-----------------------------------------------------------------------------
(* Properties *)

\* The requests a connection owes replies to.
Outstanding(c) == [i \in DOMAIN c.in |-> c.in[i].of] \o c.out

\* What each thread takes the next reply for, and on which connection.
Awaited ==
    CASE sync.pc = "mark reply"   -> {<<"marks", Request("mark", Head(sync.cache))>>}
      [] sync.pc = "dest reply"   -> {<<"dest", Request("get", Head(sync.cache))>>}
      [] sync.pc = "source reply" -> {<<"source_get", Request("get", Head(sync.cache))>>}
      [] sync.pc = "marked reply" -> {<<"delete_meta", Request("marked", Head(sync.cache))>>}
      [] OTHER -> {}

BulkAwaited ==
    LET o == bulk.list[bulk.done + 1]
        cmd == [merging |-> "get", getting |-> "get", deleting |-> "del"]
    IN  IF bulk.left = 0 THEN {}
        ELSE {<<"bulk", IF bulk.pc = "storing" THEN Store(o) ELSE Request(cmd[bulk.pc], o.key)>>}

\* Connections are in the pool without a reply of their last user, and the next
\* reply is always the one of the request it is taken for: response() just takes
\* the next.  Exceptions: a bulk set that finds an object missing and a
\* synchronisation whose second request fails leave replies behind, and
\* operation(), reconnecting between two requests of a pipeline, drops those
\* before and reports success (gaveUp); and after a lost connection a thread
\* waits for replies that will never come.
PipelinesAligned ==
    gaveUp \/
    /\ \A a \in Addrs : \A i \in DOMAIN pool[a] : Clean(pool[a][i])
    /\ \A w \in Awaited \cup BulkAwaited :
          LET next == Outstanding(held[w[1]])
          IN  IF next = <<>> THEN (IF w[1] = "bulk" THEN "bulk" ELSE "sync") \in lostBy
              ELSE Head(next) = w[2]

\* Applications only create complete objects, and a bulk set of some attributes
\* is merged into what is stored before it is written: no stored object loses
\* attributes.  Exception: when the reply of the merge is lost, merge_objects
\* fails with the return code OK and the objects are written as they are.
AttributesKept ==
    "bulk" \in lostBy \/ \A a \in Addrs, k \in Keys : db[a][k].obj \in Complete \cup {Absent}

\* After a synchronisation that returned OK and whose changes the application all
\* agreed to, the destination has exactly the objects of the source, with their
\* attributes, and no marks, if neither database was changed by others, no
\* connection was lost on the way and none was taken with old replies.
SyncedMeansCovered ==
    sync.pc = "idle" /\ sync.rc = "ok" /\ sync.agreed
      /\ touched = {} /\ "sync" \notin lostBy /\ ~gaveUp
    => \A k \in Keys :
          /\ ~db[Dst][k].dirty
          /\ (db[Dst][k].obj = Absent) <=> (sync.objs[k] = Absent)
          /\ sync.objs[k] # Absent => Matches(sync.objs[k], db[Dst][k].obj)

\* The object that is deleted is the one whose mark was found: params.object_dest
\* is the object of that key.  Exceptions: the object was deleted by others after
\* its key was listed, so that the mark made a hash without an object, or a
\* connection was lost; then object_dest still is the object read before it.
DeletesItsKey ==
    sync.pc = "delete" /\ "deleted" \notin touched /\ "sync" \notin lostBy /\ ~gaveUp
    => sync.dest.key = Head(sync.cache)
=============================================================================
