--------------------------- MODULE CpsNameService ---------------------------
(***************************************************************************)
(* The CPS name service (src/src/cps_ns.cpp), which maps object keys to    *)
(* the applications that own them, and the hash table it keeps them in     *)
(* (src/inc/opx/private/cps_api_key_cache.h).                              *)
(*                                                                         *)
(* The service has one thread.  A client connects, registers keys or asks  *)
(* for the owner of a key, and is forgotten when its connection closes:    *)
(* _client_closed_ walks the whole table, bucket by bucket, key by key and *)
(* owner by owner, erasing as it goes.  That walk is modelled step by      *)
(* step; it holds cache_lock, so nothing else happens to the table.        *)
(*                                                                         *)
(* Statistics are left out.  A key is a sequence of elements.              *)
(***************************************************************************)
EXTENDS CpsRegistrations, FiniteSets

CONSTANTS
    Keys,        \* the keys that are registered
    Hashes,      \* the values of cps_api_key_hash
    Hash,        \* Hash[k]: the bucket of key k
    Fds,         \* descriptors of the accepted connections (reused)
    Clients,     \* applications, named by the address they serve at
    NoClient,    \* a free descriptor
    NoFd,        \* no walk is under way
    NoHash,      \* the walk is between two buckets
    MaxRegs      \* bound: registrations in the table

ASSUME NameServiceAssumption ==
    /\ Hash \in [Keys -> Hashes]
    /\ \A k \in Keys : k \in Seq(Nat) /\ k # <<>>
    /\ NoClient \notin Clients
    /\ NoFd \notin Fds
    /\ NoHash \notin Hashes
    /\ MaxRegs \in Nat

VARIABLES
    cache,      \* registration: per hash, a vector of [key, owners]
    regFds,     \* reg_created_cache: descriptors that registered something
    client,     \* who is connected on a descriptor
    notified,   \* the last registration event published for a key
    closing,    \* the descriptor _client_closed_ is cleaning up after
    todo,       \* buckets the walk has still to visit
    bucket,     \* the bucket it is in,
    keyIx,      \* the key it looks at (_keys_ix) and
    entryIx     \* the owner of that key it looks at (_entry)

walkState == <<closing, todo, bucket, keyIx, entryIx>>
nsVars == <<cache, regFds, client, notified, walkState>>


NSInit ==
    /\ cache = [h \in Hashes |-> <<>>]
    /\ regFds = {}
    /\ client = [fd \in Fds |-> NoClient]
    /\ notified = [k \in Keys |-> "none"]
    /\ closing = NoFd
    /\ todo = {}
    /\ bucket = NoHash
    /\ keyIx = 1
    /\ entryIx = 1

-----------------------------------------------------------------------------
(* The table *)

\* find_entry, exact: where key k is in its bucket.
Positions(k) == {i \in DOMAIN cache[Hash[k]] : cache[Hash[k]][i].key = k}
Registered(k) == Positions(k) # {}
Owners(k) ==
    IF Registered(k) THEN cache[Hash[k]][CHOOSE i \in Positions(k) : TRUE].owners ELSE <<>>

Registrations == Cardinality(UNION {{k} \X DOMAIN Owners(k) : k \in Keys})

\* Buckets that exist in the table.
Buckets == {h \in Hashes : cache[h] # <<>>}

RemoveIndex(s, i) == SubSeq(s, 1, i - 1) \o SubSeq(s, i + 1, Len(s))

\* find_entry, not exact: the query is shortened until it is found.
Shortened(q, n) == SubSeq(q, 1, n)
FoundLengths(q) == {n \in 1..Len(q) : Shortened(q, n) \in Keys /\ Registered(Shortened(q, n))}
ShortestFirst(q) == {n \in FoundLengths(q) : \A m \in FoundLengths(q) : n <= m}
LongestFirst(q) == {n \in FoundLengths(q) : \A m \in FoundLengths(q) : m <= n}

\* process_query: the first owner in the list (the empty set is "not found").
process_query(q) == {Owners(Shortened(q, n))[1].addr : n \in LongestFirst(q)}

-----------------------------------------------------------------------------
(* Connections and requests *)

Idle == closing = NoFd

\* The socket service accepts a connection.
Accept(fd, c) ==
    /\ Idle
    /\ client[fd] = NoClient
    /\ client' = [client EXCEPT ![fd] = c]
    /\ UNCHANGED <<cache, regFds, notified, walkState>>

\* cps_api_key_cache::insert: behind the keys with the same hash.
InsertKey(entries, k, r) == Append(entries, [key |-> k, owners |-> <<r>>])

\* send_out_key_event: what a subscriber was told last of a key.
SendKeyEvent(k, what) == notified' = [notified EXCEPT ![k] = what]

NewestOwnerFirst(k, r) ==
    cache' = [cache EXCEPT ![Hash[k]] =
        IF Registered(k)
        THEN [i \in DOMAIN @ |-> IF i \in Positions(k)
                                 THEN [@[i] EXCEPT !.owners = <<r>> \o @]
                                 ELSE @[i]]
        ELSE InsertKey(@, k, r)]

\* process_registration: add to the owners of the key, or insert the key.
WithOwner(entry, r) == [entry EXCEPT !.owners = Append(@, r)]
AddOwner(k, r) ==
    cache' = [cache EXCEPT ![Hash[k]] =
        IF Registered(k)
        THEN [i \in DOMAIN @ |-> IF i \in Positions(k) THEN WithOwner(@[i], r) ELSE @[i]]
        ELSE InsertKey(@, k, r)]

process_registration(fd, k) ==
    /\ Idle
    /\ client[fd] # NoClient
    /\ Registrations < MaxRegs
    /\ AddOwner(k, [addr |-> client[fd], fd |-> fd])
    /\ regFds' = regFds \cup {fd}
    /\ SendKeyEvent(k, "create")
    /\ UNCHANGED <<client, walkState>>

-----------------------------------------------------------------------------
(* _client_closed_ *)

ClientClosed(fd) ==
    /\ Idle
    /\ client[fd] # NoClient
    /\ client' = [client EXCEPT ![fd] = NoClient]
    /\ IF fd \in regFds
       THEN closing' = fd /\ todo' = Buckets
       ELSE UNCHANGED <<closing, todo>>
    /\ UNCHANGED <<cache, regFds, notified, bucket, keyIx, entryIx>>

\* The map is unordered: any bucket may come next.
EnterBucket(h) ==
    /\ ~Idle
    /\ bucket = NoHash
    /\ h \in todo
    /\ bucket' = h
    /\ keyIx' = 1
    /\ entryIx' = 1
    /\ UNCHANGED <<cache, regFds, client, notified, closing, todo>>

InBucket == ~Idle /\ bucket # NoHash
AtKey == InBucket /\ keyIx <= Len(cache[bucket])
OwnersHere == cache[bucket][keyIx].owners

\* An owner with the closed descriptor: DELETE is published, and CREATE after
\* it when other owners remain; the scan of the owners starts again.
NotifyDelete == "delete"
NotifyRemaining == IF Len(OwnersHere) > 1 THEN "create" ELSE "delete"

EraseFirstMatch ==
    /\ AtKey
    /\ entryIx <= Len(OwnersHere)
    /\ OwnersHere[entryIx].fd = closing
    /\ cache' = [cache EXCEPT ![bucket][keyIx].owners = RemoveIndex(@, entryIx)]
    /\ SendKeyEvent(cache[bucket][keyIx].key, NotifyRemaining)
    /\ entryIx' = Len(OwnersHere)
    /\ UNCHANGED <<regFds, client, closing, todo, bucket, keyIx>>

EraseOwner ==
    /\ AtKey
    /\ entryIx <= Len(OwnersHere)
    /\ OwnersHere[entryIx].fd = closing
    /\ cache' = [cache EXCEPT ![bucket][keyIx].owners = RemoveIndex(@, entryIx)]
    /\ SendKeyEvent(cache[bucket][keyIx].key, NotifyRemaining)
    /\ entryIx' = 1
    /\ UNCHANGED <<regFds, client, closing, todo, bucket, keyIx>>

NextOwner ==
    /\ AtKey
    /\ entryIx <= Len(OwnersHere)
    /\ OwnersHere[entryIx].fd # closing
    /\ entryIx' = entryIx + 1
    /\ UNCHANGED <<cache, regFds, client, notified, closing, todo, bucket, keyIx>>

\* A key without owners is erased and _keys_ix reset to its first value, and
\* then incremented like after any other key.
EraseEmptyKey ==
    IF OwnersHere = <<>>
    THEN /\ cache' = [cache EXCEPT ![bucket] = RemoveIndex(@, keyIx)]
         /\ keyIx' = 1 + 1
    ELSE /\ keyIx' = keyIx + 1
         /\ UNCHANGED cache

NextKey ==
    /\ AtKey
    /\ entryIx > Len(OwnersHere)
    /\ EraseEmptyKey
    /\ entryIx' = 1
    /\ UNCHANGED <<regFds, client, notified, closing, todo, bucket>>

RestartAlways ==
    /\ InBucket
    /\ keyIx > Len(cache[bucket])
    /\ todo' = Buckets
    /\ bucket' = NoHash
    /\ keyIx' = 1
    /\ entryIx' = 1
    /\ UNCHANGED <<cache, regFds, client, notified, closing>>

\* walk: an empty bucket is erased from the map and the walk starts again.
LeaveBucket ==
    /\ InBucket
    /\ keyIx > Len(cache[bucket])
    /\ todo' = IF cache[bucket] = <<>> THEN Buckets ELSE todo \ {bucket}
    /\ bucket' = NoHash
    /\ keyIx' = 1
    /\ entryIx' = 1
    /\ UNCHANGED <<cache, regFds, client, notified, closing>>

EndCleanup ==
    /\ ~Idle
    /\ bucket = NoHash
    /\ todo = {}
    /\ closing' = NoFd
    /\ regFds' = regFds \ {closing}
    /\ UNCHANGED <<cache, client, notified, todo, bucket, keyIx, entryIx>>

Cleanup ==
    \/ \E h \in Hashes : EnterBucket(h)
    \/ EraseOwner
    \/ NextOwner
    \/ NextKey
    \/ LeaveBucket
    \/ EndCleanup

NSNext ==
    \/ \E fd \in Fds, c \in Clients : Accept(fd, c)
    \/ \E fd \in Fds, k \in Keys : process_registration(fd, k)
    \/ \E fd \in Fds : ClientClosed(fd)
    \/ Cleanup

NSSpec == NSInit /\ [][NSNext]_nsVars
\* The service's thread runs the walk to its end.
NSFairSpec == NSSpec /\ WF_nsVars(Cleanup)

-----------------------------------------------------------------------------
(* Properties *)

\* Whenever the lock is free, a key is in the table exactly as long as it has an
\* owner (process_query takes element 0 of the owners without looking at their
\* number), and the registration events tell the subscribers so: the last one
\* published for a key is CREATE exactly as long as it is there.
EventsMatchTable ==
    Idle =>
        /\ \A h \in Hashes : \A i \in DOMAIN cache[h] : cache[h][i].owners # <<>>
        /\ \A k \in Keys : Registered(k) <=> notified[k] = "create"

Orphaned(k) == \E i \in DOMAIN Owners(k) : client[Owners(k)[i].fd] # Owners(k)[i].addr

\* A registration outlives the connection it was made on only if its key shares
\* a bucket with another key (the walk that skips a key skips it there).
OrphansOnlyByCollision ==
    Idle => \A k \in Keys :
                Orphaned(k) => \E j \in Keys \ {k} : Hash[j] = Hash[k]

\* The cleanup ends although it starts again after every bucket it empties.
CleanupEnds == []<>Idle

\* The keys that have their bucket to themselves.
CleanKeys == {k \in Keys : \A j \in Keys \ {k} : Hash[j] # Hash[k]}

\* For them the table is a directory: what was registered on a connection
\* disappears as one when it closes, although the walk takes many steps.
Contents ==
    [k \in CleanKeys |-> Without(Owners(k), closing)]

Directory == INSTANCE CpsDirectory WITH Keys <- CleanKeys, dir <- Contents

ImplementsDirectory == Directory!Spec

\* A query below such keys only is answered as the directory answers it: by the
\* first owner of the longest registered prefix, of those connected.
Above(q) == {k \in Keys : Len(k) <= Len(q) /\ k = SubSeq(q, 1, Len(k))}
QueryAnswersDirectory ==
    Idle => \A q \in Keys : Above(q) \subseteq CleanKeys =>
                process_query(q) = Directory!Answer(q)
=============================================================================
