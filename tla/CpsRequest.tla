----------------------------- MODULE CpsRequest -----------------------------
(***************************************************************************)
(* A get: cps_api_get (src/src/cps_api_operation_common.cpp) asks the      *)
(* database or the owner of every filter, over a connection made with the  *)
(* help of the owner cache (src/src/cps_api_client_ipc.cpp), and the owner *)
(* serves it (src/src/cps_api_operation_service.cpp).                      *)
(*                                                                         *)
(* Keys move from owner to owner and owners end while the client holds     *)
(* handles to them in its cache for TM, or waits for their answers.  The   *)
(* name service is external here (CpsNameService models it): it answers a  *)
(* query for a key with the owner in "answer".  Owners are processes: one  *)
(* that has ended does not come back under its address.                    *)
(* An object is what a filter can tell: whether it matches exactly.        *)
(***************************************************************************)
EXTENDS CpsDispatch, FiniteSets

CONSTANTS
    Owners,      \* processes that serve objects
    NoOwner,     \* no answer, no cached handle
    Keys,        \* the keys of filters
    Functions,   \* db_functions of each owner
    Holdings,    \* what the function with a key returns
    Databases,   \* what the database of each node of the group holds
    Requests,    \* the gets that are made
    TM,          \* how long a handle is cached, in ticks
    MaxTicks,    \* bound: ticks of the clock
    MaxMoves,    \* bound: changes of the name service's answers
    MaxGets      \* bound: gets that are made

Object == [id : Nat, match : BOOLEAN]
Filter == [key : Keys, exact : BOOLEAN, goOn : BOOLEAN, db : BOOLEAN]
Request == [filters : Seq(Filter), keys : BOOLEAN, timed : BOOLEAN]

ASSUME RequestAssumption ==
    /\ NoOwner \notin Owners
    /\ Keys \subseteq Seq(Nat)
    /\ \A o \in Owners : \A i \in DOMAIN Functions[o] : Holdings[o][Functions[o][i].key] \in Seq(Object)
    /\ Databases \in Seq(Seq(Object))
    /\ Requests \subseteq Request
    /\ TM \in Nat
    /\ MaxTicks \in Nat
    /\ MaxMoves \in Nat
    /\ MaxGets \in Nat

VARIABLES
    alive,     \* owners that run
    answer,    \* the name service's answer for each key
    cache,     \* _cache: an owner, its age and how slow it was to get
    pc,        \* where the client is
    req, ix,   \* the get and the filter it is at
    node,      \* the node of the group whose database is next
    from,      \* _cur_lst_len
    list,      \* param->list, or the list it was swapped with
    rc,        \* the return code
    asked,     \* the owner the client has found, and is connected to
    stream,    \* what it has sent and the client has not read
    served,    \* it has handled the request
    slow,      \* history: ticks between the query and the sending
    moved,     \* history: ticks since an owner was the answer for a key
    lag,       \* history: moved, when the request was sent
    gave,      \* history: what was returned for each filter
    cut,       \* history: filters whose answer ended too soon, or is missing a database
    failed,    \* history: filters that failed
    ticks, moves, gets  \* how many there have been

envVars == <<alive, answer, moved, ticks, moves>>
getVars == <<req, ix, node, from, list, rc, gave, cut, failed, gets>>
connVars == <<asked, stream, served, slow, lag>>
requestVars == <<envVars, cache, pc, getVars, connVars>>

NoGet == [filters |-> <<>>, keys |-> FALSE, timed |-> FALSE]
NoEntry == [owner |-> NoOwner, age |-> 0, slow |-> 0]

RequestInit ==
    /\ alive = Owners
    /\ answer \in [Keys -> Owners]
    /\ cache = [k \in Keys |-> NoEntry]
    /\ pc = "idle"
    /\ req = NoGet
    /\ ix = 1
    /\ node = 1
    /\ from = 0
    /\ list = <<>>
    /\ rc = "ERR"
    /\ asked = NoOwner
    /\ stream = <<>>
    /\ served = FALSE
    /\ slow = 0
    /\ moved = [k \in Keys |-> [o \in Owners |-> 0]]
    /\ lag = 0
    /\ gave = <<>>
    /\ cut = {}
    /\ failed = {}
    /\ ticks = 0
    /\ moves = 0
    /\ gets = 0

filter == req.filters[ix]
key == filter.key

-----------------------------------------------------------------------------
(* cps_api_get *)

\* _cps_api_get_clone makes filters of the keys as well, and the results are
\* collected in the list of the copy.
Get(r) ==
    /\ pc = "idle"
    /\ gets < MaxGets
    /\ gets' = gets + 1
    /\ req' = r
    /\ ix' = 1
    /\ node' = 1
    /\ from' = 0
    /\ list' = <<>>
    /\ rc' = "ERR"
    /\ gave' = [i \in DOMAIN r.filters |-> <<>>]
    /\ cut' = {}
    /\ failed' = {}
    /\ pc' = IF r.filters = <<>> THEN "done" ELSE "ask"
    /\ UNCHANGED <<envVars, cache, connVars>>

\* What the databases of the first n nodes of the group hold.
Held[n \in 0 .. Len(Databases)] == IF n = 0 THEN <<>> ELSE Held[n - 1] \o Databases[n]

\* __cps_api_db_operation_get begins with the group.  One that does not resolve
\* has no nodes, and leaves rc as it starts.
DbGet(resolved) ==
    /\ pc = "ask"
    /\ filter.db
    /\ rc' = IF filter.goOn THEN "OK" ELSE "ERR"
    /\ node' = 1
    /\ gave' = [gave EXCEPT ![ix] = Held[Len(Databases)]]
    /\ cut' = IF resolved THEN cut ELSE cut \cup {ix}
    /\ pc' = IF resolved /\ Databases # <<>> THEN "nodes" ELSE "filter"
    /\ UNCHANGED <<envVars, cache, req, ix, from, list, failed, gets, connVars>>

NextNode ==
    /\ pc = "nodes"
    /\ node' = node + 1
    /\ pc' = IF node = Len(Databases) THEN "filter" ELSE "nodes"
    /\ UNCHANGED <<envVars, cache, req, ix, from, gave, failed, gets, connVars>>

\* get_objects: the return code is that of the last node, and for one object
\* that the database does not hold it is an error.
DbAnswers(code) ==
    /\ NextNode
    /\ code = "NO_EXIST" => Databases[node] = <<>>
    /\ rc' = code
    /\ list' = list \o Databases[node]
    /\ UNCHANGED cut

\* There is no connection, or it is lost after the first m objects: a reply
\* that does not come is told as OK (connection::response).
DbLost(m, code) ==
    /\ NextNode
    /\ rc' = code
    /\ list' = list \o SubSeq(Databases[node], 1, m)
    /\ cut' = cut \cup {ix}

\* What matches of the first n objects of l, for every n.
Matching(l) ==
    LET matching[n \in 0 .. Len(l)] ==
            IF n = 0 THEN <<>>
            ELSE IF l[n].match THEN Append(matching[n - 1], l[n]) ELSE matching[n - 1]
    IN matching
Exactly(l) == Matching(l)[Len(l)]

\* _filter_list_as_needed works on the list of the caller, which is empty when
\* keys were given.
FilteredFromStart(l) == IF filter.exact /\ ~req.keys THEN Exactly(l) ELSE l
Filtered(l) ==
    IF filter.exact /\ ~req.keys THEN SubSeq(l, 1, from) \o Exactly(SubSeq(l, from + 1, Len(l))) ELSE l

GoesOn == rc = "OK" \/ filter.goOn

EndFilter ==
    /\ pc = "filter"
    /\ GoesOn
    /\ list' = Filtered(list)
    /\ failed' = IF rc = "OK" THEN failed ELSE failed \cup {ix}
    /\ from' = Len(list')
    /\ IF ix = Len(req.filters) THEN pc' = "done" /\ UNCHANGED ix ELSE pc' = "ask" /\ ix' = ix + 1
    /\ UNCHANGED <<envVars, cache, req, node, rc, gave, cut, gets, connVars>>

StopAtFailure ==
    /\ pc = "filter"
    /\ ~GoesOn
    /\ pc' = "done"
    /\ failed' = failed \cup {ix}
    /\ UNCHANGED <<envVars, cache, req, ix, node, from, list, rc, gave, cut, gets, connVars>>

Forgotten ==
    /\ req' = NoGet
    /\ ix' = 1
    /\ node' = 1
    /\ from' = 0
    /\ list' = <<>>
    /\ rc' = "ERR"
    /\ gave' = <<>>
    /\ cut' = {}
    /\ failed' = {}

Return ==
    /\ pc = "done"
    /\ pc' = "idle"
    /\ Forgotten
    /\ asked' = NoOwner
    /\ stream' = <<>>
    /\ served' = FALSE
    /\ slow' = 0
    /\ lag' = 0
    /\ UNCHANGED <<envVars, cache, gets>>

-----------------------------------------------------------------------------
(* cps_api_get_handle *)

ToService == pc = "ask" /\ ~filter.db

Cached == cache[key].owner # NoOwner
Expired == cache[key].age > TM
Hit == Cached /\ ~Expired /\ cache[key].owner \in alive

\* cache_connect finds an entry that is fresh and connects to its owner, or
\* erases the entry.
Refreshed(k) == [cache EXCEPT ![k].age = 0]
Used(k) == cache
CacheConnect ==
    /\ ToService
    /\ Hit
    /\ asked' = cache[key].owner
    /\ slow' = cache[key].slow
    /\ cache' = Used(key)
    /\ pc' = "send"
    /\ UNCHANGED <<envVars, getVars, stream, served, lag>>

\* cps_api_find_owners, an exchange with the name service.
Query ==
    /\ ToService
    /\ ~Hit
    /\ cache' = [cache EXCEPT ![key] = NoEntry]
    /\ asked' = answer[key]
    /\ slow' = 0
    /\ IF answer[key] = NoOwner THEN rc' = "NO_SERVICE" /\ pc' = "filter" ELSE pc' = "connect" /\ UNCHANGED rc
    /\ UNCHANGED <<envVars, req, ix, node, from, list, gave, cut, failed, gets, stream, served, lag>>

\* fill_cache takes the time when the connection has been made.
ConnectOwner ==
    /\ pc = "connect"
    /\ IF asked \in alive
       THEN /\ cache' = [cache EXCEPT ![key] = [owner |-> asked, age |-> 0, slow |-> slow]]
            /\ pc' = "send"
            /\ UNCHANGED rc
       ELSE /\ rc' = "NO_SERVICE"
            /\ pc' = "filter"
            /\ UNCHANGED cache
    /\ UNCHANGED <<envVars, req, ix, node, from, list, gave, cut, failed, gets, connVars>>

-----------------------------------------------------------------------------
(* cps_api_process_get_request *)

Send ==
    /\ pc = "send"
    /\ rc' = "ERR"
    /\ pc' = IF asked \in alive THEN "receive" ELSE "filter"
    /\ stream' = <<>>
    /\ served' = FALSE
    /\ lag' = moved[key][asked]
    /\ UNCHANGED <<envVars, cache, req, ix, node, from, list, gave, cut, failed, gets, asked, slow>>

Waited == IF req.timed THEN "OK" ELSE rc

ReceiveObject ==
    /\ pc = "receive"
    /\ stream # <<>>
    /\ Head(stream).msg = "GET_RESP"
    /\ list' = Append(list, Head(stream).obj)
    /\ rc' = Waited
    /\ stream' = Tail(stream)
    /\ UNCHANGED <<envVars, cache, pc, req, ix, node, from, gave, cut, failed, gets, asked, served, slow, lag>>

\* The return code, or GET_DONE, ends the answer.
ReceiveLast ==
    /\ pc = "receive"
    /\ stream # <<>>
    /\ Head(stream).msg # "GET_RESP"
    /\ rc' = IF Head(stream).msg = "GET_DONE" THEN "OK" ELSE Head(stream).code
    /\ stream' = Tail(stream)
    /\ pc' = "filter"
    /\ UNCHANGED <<envVars, cache, req, ix, node, from, list, gave, cut, failed, gets, asked, served, slow, lag>>

\* The owner has ended.  Waiting for data it will not send leaves its mark in rc.
ReceiveEnd ==
    /\ pc = "receive"
    /\ stream = <<>>
    /\ asked \notin alive
    /\ rc' = Waited
    /\ cut' = IF rc' = "OK" THEN cut \cup {ix} ELSE cut
    /\ pc' = "filter"
    /\ UNCHANGED <<envVars, cache, req, ix, node, from, list, gave, failed, gets, connVars>>

ReceiveTimeout ==
    /\ pc = "receive"
    /\ req.timed
    /\ stream = <<>>
    /\ asked \in alive
    /\ rc' = "TIMEOUT"
    /\ pc' = "filter"
    /\ UNCHANGED <<envVars, cache, req, ix, node, from, list, gave, cut, failed, gets, connVars>>

-----------------------------------------------------------------------------
(* The owner: cps_api_handle_get *)

Responses(objs) == [i \in DOMAIN objs |-> [msg |-> "GET_RESP", obj |-> objs[i]]]
Answered(objs) == Append(Responses(objs), [msg |-> "GET_DONE"])
ReturnCode == <<[msg |-> "RETURN_CODE", code |-> "ERR"]>>

Serves ==
    /\ pc = "receive"
    /\ asked \in alive
    /\ ~served

HandleGet ==
    /\ Serves
    /\ \E i \in FirstHandler(Functions[asked], "read", key) :
           LET objs == Holdings[asked][Functions[asked][i].key]
           IN stream' = Answered(objs) /\ gave' = [gave EXCEPT ![ix] = objs]
    /\ served' = TRUE
    /\ UNCHANGED <<envVars, cache, pc, req, ix, node, from, list, rc, cut, failed, gets, asked, slow, lag>>

\* There is no function for the key, or it fails.
HandleGetFails ==
    /\ Serves
    /\ stream' = ReturnCode
    /\ served' = TRUE
    /\ UNCHANGED <<envVars, cache, pc, getVars, asked, slow, lag>>

-----------------------------------------------------------------------------
(* Owners, the name service and time *)

\* Of what an owner has sent, a part arrives.
OwnerEnds(o, n) ==
    /\ o \in alive
    /\ alive' = alive \ {o}
    /\ n \in 0 .. Len(stream)
    /\ IF o = asked /\ pc = "receive" THEN stream' = SubSeq(stream, 1, n) ELSE n = 0 /\ UNCHANGED stream
    /\ UNCHANGED <<answer, moved, ticks, moves, cache, pc, getVars, asked, served, slow, lag>>

Move(k, o) ==
    /\ moves < MaxMoves
    /\ o # answer[k]
    /\ o \in alive \cup {NoOwner}
    /\ answer' = [answer EXCEPT ![k] = o]
    /\ moved' = [moved EXCEPT ![k] = [x \in Owners |-> IF x = o \/ x = answer[k] THEN 0 ELSE @[x]]]
    /\ moves' = moves + 1
    /\ UNCHANGED <<alive, ticks, cache, pc, getVars, connVars>>

Tick ==
    /\ ticks < MaxTicks
    /\ ticks' = ticks + 1
    /\ cache' = [k \in Keys |-> IF cache[k].owner = NoOwner THEN cache[k] ELSE [cache[k] EXCEPT !.age = @ + 1]]
    /\ moved' = [k \in Keys |-> [o \in Owners |-> IF o = answer[k] THEN 0 ELSE moved[k][o] + 1]]
    /\ slow' = IF pc \in {"connect", "send"} THEN slow + 1 ELSE slow
    /\ UNCHANGED <<alive, answer, moves, pc, getVars, asked, stream, served, lag>>

RequestNext ==
    \/ \E r \in Requests : Get(r)
    \/ \E resolved \in BOOLEAN : DbGet(resolved)
    \/ \E code \in {"OK", "NO_EXIST"} : DbAnswers(code)
    \/ pc = "nodes" /\ \E m \in 0 .. Len(Databases[node]), code \in {"OK", "COMMUNICATION_ERROR"} : DbLost(m, code)
    \/ EndFilter \/ StopAtFailure \/ Return
    \/ CacheConnect \/ Query \/ ConnectOwner
    \/ Send \/ ReceiveObject \/ ReceiveLast \/ ReceiveEnd \/ ReceiveTimeout
    \/ HandleGet \/ HandleGetFails
    \/ \E o \in Owners, n \in 0 .. Len(stream) : OwnerEnds(o, n)
    \/ \E k \in Keys, o \in Owners \cup {NoOwner} : Move(k, o)
    \/ Tick

RequestSpec == RequestInit /\ [][RequestNext]_requestVars

-----------------------------------------------------------------------------
(* Properties *)

\* A get that returns OK has returned everything the owners gave for its
\* filters and the databases of the group hold, in their order, without what an
\* exact filter excludes, except where the caller asked to go on after a
\* failure, when an owner ended in the middle of an answer that was waited for
\* with a timeout, when the group did not resolve, a database could not be
\* reached or its reply was lost (the return code is that of the last node, and
\* does not tell), and for exact filters that come with keys: they exclude
\* nothing, as it is the caller's list, swapped and empty, that is filtered, while
\* cps_api_object_tools.h promises "an exact match against all attributes".
Narrows(i) == req.filters[i].exact /\ ~req.keys
Wanted(i) == IF Narrows(i) THEN Exactly(gave[i]) ELSE gave[i]
\* l is made of the first n parts, one after the other: the i-th ends at end[i].
MadeOf(l, parts, n) ==
    \E end \in [0 .. n -> 0 .. Len(l)] :
        /\ end[0] = 0 /\ end[n] = Len(l)
        /\ \A i \in 1 .. n : end[i - 1] <= end[i] /\ SubSeq(l, end[i - 1] + 1, end[i]) = parts[i]
OkMeansComplete ==
    pc = "done" /\ rc = "OK" /\ failed = {} /\ cut = {} =>
        MadeOf(list, [i \in DOMAIN req.filters |-> Wanted(i)], Len(req.filters))

\* A request goes to an owner that was the name service's answer for the key
\* at most TM ago, and the time the connecting took: neither the cache nor
\* several gets in a row make an old answer live longer.
SentToRecentOwner == pc = "receive" => lag <= TM + slow
=============================================================================
