------------------------------ MODULE CpsOwner ------------------------------
(***************************************************************************)
(* Applications that own CPS objects and the name service they announce    *)
(* them to (src/src/cps_api_operation_service.cpp).                        *)
(*                                                                         *)
(* An application has a thread that registers functions ("app": it runs    *)
(* cps_api_operation_subsystem_init and then cps_api_register) and the     *)
(* thread of its socket service ("svc"), which runs _timedout now and then *)
(* and _del_client when a connection it watches is lost.  Both reconnect   *)
(* to the name service under db_lock, but test ns_handle before they lock  *)
(* it.  Registrations travel one way: nothing is ever answered.            *)
(*                                                                         *)
(* The name service is CpsDirectory, which CpsNameService is shown to      *)
(* implement; it may crash and lose everything, and be started again.      *)
(* The sockets and the socket service are external.  A number of a closed  *)
(* connection is used again only when nobody holds it any more.            *)
(***************************************************************************)
EXTENDS CpsDispatch, FiniteSets

CONSTANTS
    Owners,        \* the applications
    Keys,          \* the keys they register
    OpSets,        \* the sets of callbacks they register for a key
    Conns,         \* connections to the name service
    NoConn,        \* STD_INVALID_FD
    NoOwner,       \* nobody's connection
    NoFunction,    \* the application thread is not registering anything
    MaxFunctions,  \* bound: functions the applications have registered
    MaxCrashes,    \* bound: crashes of the name service
    MaxRefusals    \* bound: failures of std_socket_service_client_add

Function == [key : Keys, ops : OpSets]

ASSUME OwnerAssumption ==
    /\ Keys \subseteq Seq(Nat)
    /\ OpSets \subseteq SUBSET Operations
    /\ NoConn \notin Conns
    /\ NoOwner \notin Owners
    /\ NoFunction \notin Function
    /\ MaxFunctions \in Nat
    /\ MaxCrashes \in Nat
    /\ MaxRefusals \in Nat

VARIABLES
    functions,   \* db_functions of each application
    nsHandle,    \* ns_handle
    lock,        \* the thread that holds db_lock as a writer, or "free"
    app, svc,    \* where the two threads are
    adding,      \* the function cps_api_register was called for
    resendIx,    \* the loop of reconnect_with_ns
    watched,     \* connections the socket service polls
    peer,        \* whose connection it is
    ownerOpen,   \* connections whose application end is open
    nsOpen,      \* connections whose name service end is open
    chan,        \* keys sent and not yet read by the name service
    dir,         \* the name service's directory
    nsUp,        \* is the name service running
    crashes,     \* crashes of the name service so far
    refusals     \* failures of std_socket_service_client_add so far

threadVars == <<functions, lock, app, svc, adding, resendIx>>
netVars == <<peer, ownerOpen, nsOpen, chan>>
nsVars == <<dir, nsUp, crashes>>
vars == <<threadVars, nsHandle, watched, netVars, nsVars, refusals>>

Directory == INSTANCE CpsDirectory WITH Fds <- Conns, Clients <- Owners

Threads == {"app", "svc"}

\* cps_api_operation_subsystem_init has started the socket service and holds
\* the lock for its own call of reconnect_with_ns.
Init ==
    /\ functions = [o \in Owners |-> <<>>]
    /\ nsHandle = [o \in Owners |-> NoConn]
    /\ lock = [o \in Owners |-> "app"]
    /\ app = [o \in Owners |-> "connect"]
    /\ svc = [o \in Owners |-> "poll"]
    /\ adding = [o \in Owners |-> NoFunction]
    /\ resendIx = [o \in Owners |-> 1]
    /\ watched = [o \in Owners |-> {}]
    /\ peer = [c \in Conns |-> NoOwner]
    /\ ownerOpen = {}
    /\ nsOpen = {}
    /\ chan = [c \in Conns |-> <<>>]
    /\ Directory!Init
    /\ nsUp \in BOOLEAN
    /\ crashes = 0
    /\ refusals = 0

-----------------------------------------------------------------------------
(* Steps of either thread while it holds the lock *)

At(o, t, label) == lock[o] = t /\ (IF t = "app" THEN app[o] ELSE svc[o]) = label

Goto(o, t, label) ==
    /\ app' = IF t = "app" THEN [app EXCEPT ![o] = label] ELSE app
    /\ svc' = IF t = "svc" THEN [svc EXCEPT ![o] = label] ELSE svc
    /\ UNCHANGED lock

\* The return from reconnect_with_ns: cps_api_register goes on, the others
\* release the lock.
Return(o, t) ==
    IF t = "app" /\ adding[o] # NoFunction
    THEN Goto(o, t, "insert")
    ELSE /\ app' = IF t = "app" THEN [app EXCEPT ![o] = "idle"] ELSE app
         /\ svc' = IF t = "svc" THEN [svc EXCEPT ![o] = "poll"] ELSE svc
         /\ lock' = [lock EXCEPT ![o] = "free"]

\* A number nobody holds.
Fresh(c) ==
    /\ c \notin ownerOpen \cup nsOpen
    /\ \A o \in Owners : nsHandle[o] # c /\ c \notin watched[o]

\* reconnect_with_ns: cps_api_ns_create_handle ...
Connect(o, t) ==
    /\ At(o, t, "connect")
    /\ nsUp
    /\ \E c \in Conns :
        /\ Fresh(c)
        /\ nsHandle' = [nsHandle EXCEPT ![o] = c]
        /\ peer' = [peer EXCEPT ![c] = o]
        /\ ownerOpen' = ownerOpen \cup {c}
        /\ nsOpen' = nsOpen \cup {c}
    /\ Goto(o, t, "add")
    /\ UNCHANGED <<functions, adding, resendIx, watched, chan, nsVars, refusals>>

ConnectFails(o, t) ==
    /\ At(o, t, "connect")
    /\ ~nsUp \/ \A c \in Conns : ~Fresh(c)
    /\ nsHandle' = [nsHandle EXCEPT ![o] = NoConn]
    /\ Return(o, t)
    /\ UNCHANGED <<functions, adding, resendIx, watched, netVars, nsVars, refusals>>

\* ... std_socket_service_client_add ...
FirstResentSecond == 2
FirstResent == 1
AddClient(o, t) ==
    /\ At(o, t, "add")
    /\ watched' = [watched EXCEPT ![o] = @ \cup {nsHandle[o]}]
    /\ resendIx' = [resendIx EXCEPT ![o] = FirstResent]
    /\ Goto(o, t, "resend")
    /\ UNCHANGED <<functions, adding, nsHandle, netVars, nsVars, refusals>>

\* (a failure closes the handle and leaves its number in ns_handle)
AddClientFails(o, t) ==
    /\ At(o, t, "add")
    /\ refusals < MaxRefusals
    /\ refusals' = refusals + 1
    /\ ownerOpen' = ownerOpen \ {nsHandle[o]}
    /\ Return(o, t)
    /\ UNCHANGED <<functions, adding, resendIx, nsHandle, watched, peer, nsOpen, chan, nsVars>>

\* ... and register_one_key for every function.
Reachable(o) == nsHandle[o] \in ownerOpen \cap nsOpen

Send(o, key) ==
    /\ Reachable(o)
    /\ chan' = [chan EXCEPT ![nsHandle[o]] = Append(@, key)]
    /\ UNCHANGED <<nsHandle, peer, ownerOpen, nsOpen>>

SendFails(o) ==
    /\ ~Reachable(o)
    /\ ownerOpen' = ownerOpen \ {nsHandle[o]}
    /\ nsHandle' = [nsHandle EXCEPT ![o] = NoConn]
    /\ UNCHANGED <<peer, nsOpen, chan>>

Resend(o, t) ==
    /\ At(o, t, "resend")
    /\ resendIx[o] <= Len(functions[o])
    /\ \/ /\ Send(o, functions[o][resendIx[o]].key)
          /\ resendIx' = [resendIx EXCEPT ![o] = @ + 1]
          /\ UNCHANGED <<lock, app, svc>>
       \/ /\ SendFails(o)
          /\ Return(o, t)
          /\ UNCHANGED resendIx
    /\ UNCHANGED <<functions, adding, watched, nsVars, refusals>>

Reconnected(o, t) ==
    /\ At(o, t, "resend")
    /\ resendIx[o] > Len(functions[o])
    /\ Return(o, t)
    /\ UNCHANGED <<functions, adding, resendIx, nsHandle, watched, netVars, nsVars, refusals>>

Reconnect(o, t) ==
    \/ Connect(o, t)
    \/ ConnectFails(o, t)
    \/ AddClient(o, t)
    \/ AddClientFails(o, t)
    \/ Resend(o, t)
    \/ Reconnected(o, t)

-----------------------------------------------------------------------------
(* cps_api_register *)

Registered == Cardinality(UNION {{o} \X DOMAIN functions[o] : o \in Owners})

CallRegister(o, f) ==
    /\ app[o] = "idle"
    /\ lock[o] = "free"
    /\ Registered < MaxFunctions
    /\ adding' = [adding EXCEPT ![o] = f]
    /\ lock' = [lock EXCEPT ![o] = "app"]
    /\ app' = [app EXCEPT ![o] = IF nsHandle[o] = NoConn THEN "connect" ELSE "insert"]
    /\ UNCHANGED <<functions, svc, resendIx, nsHandle, watched, netVars, nsVars, refusals>>

EndRegister(o) ==
    /\ adding' = [adding EXCEPT ![o] = NoFunction]
    /\ app' = [app EXCEPT ![o] = "idle"]
    /\ lock' = [lock EXCEPT ![o] = "free"]

Insert(o) ==
    /\ At(o, "app", "insert")
    /\ \E fs \in insert_functions(functions[o], adding[o]) :
           functions' = [functions EXCEPT ![o] = fs]
    /\ IF nsHandle[o] = NoConn
       THEN EndRegister(o)
       ELSE Goto(o, "app", "announce") /\ UNCHANGED adding
    /\ UNCHANGED <<svc, resendIx, nsHandle, watched, netVars, nsVars, refusals>>

Announce(o) ==
    /\ At(o, "app", "announce")
    /\ Send(o, adding[o].key) \/ SendFails(o)
    /\ EndRegister(o)
    /\ UNCHANGED <<functions, svc, resendIx, watched, nsVars, refusals>>

-----------------------------------------------------------------------------
(* The thread of the socket service *)

\* _timedout finds ns_handle invalid, without the lock, ...
TimedOut(o) ==
    /\ svc[o] = "poll"
    /\ nsHandle[o] = NoConn
    /\ svc' = [svc EXCEPT ![o] = "reconnect"]
    /\ UNCHANGED <<functions, lock, app, adding, resendIx, nsHandle, watched, netVars, nsVars, refusals>>

\* ... and reconnects under the lock, whatever ns_handle is by then.
LockForReconnect(o) ==
    /\ svc[o] = "reconnect"
    /\ lock[o] = "free"
    /\ lock' = [lock EXCEPT ![o] = "svc"]
    /\ svc' = [svc EXCEPT ![o] = "connect"]
    /\ UNCHANGED <<functions, app, adding, resendIx, nsHandle, watched, netVars, nsVars, refusals>>

\* The service drops a watched connection that either end has closed and calls
\* _del_client, which compares it with ns_handle, without the lock, ...
LostIgnored(o, c) == UNCHANGED svc
LostHandle(o, c) ==
    svc' = IF nsHandle[o] = c THEN [svc EXCEPT ![o] = "clear"] ELSE svc

ConnectionLost(o, c) ==
    /\ svc[o] = "poll"
    /\ c \in watched[o]
    /\ c \notin ownerOpen \cap nsOpen
    /\ watched' = [watched EXCEPT ![o] = @ \ {c}]
    /\ ownerOpen' = ownerOpen \ {c}
    /\ LostHandle(o, c)
    /\ UNCHANGED <<functions, lock, app, adding, resendIx, nsHandle, peer, nsOpen, chan, nsVars, refusals>>

\* ... and clears ns_handle under the lock, whatever it is by then.
Clear(o) ==
    /\ svc[o] = "clear"
    /\ lock[o] = "free"
    /\ nsHandle' = [nsHandle EXCEPT ![o] = NoConn]
    /\ svc' = [svc EXCEPT ![o] = "poll"]
    /\ UNCHANGED <<functions, lock, app, adding, resendIx, watched, netVars, nsVars, refusals>>

\* The process ends and the kernel closes its sockets.
Exit(o) ==
    /\ app[o] # "dead"
    /\ app' = [app EXCEPT ![o] = "dead"]
    /\ svc' = [svc EXCEPT ![o] = "dead"]
    /\ lock' = [lock EXCEPT ![o] = "free"]
    /\ functions' = [functions EXCEPT ![o] = <<>>]
    /\ adding' = [adding EXCEPT ![o] = NoFunction]
    /\ nsHandle' = [nsHandle EXCEPT ![o] = NoConn]
    /\ watched' = [watched EXCEPT ![o] = {}]
    /\ ownerOpen' = {c \in ownerOpen : peer[c] # o}
    /\ UNCHANGED <<resendIx, peer, nsOpen, chan, nsVars, refusals>>

-----------------------------------------------------------------------------
(* The name service *)

NsRegister(c) ==
    /\ c \in nsOpen
    /\ chan[c] # <<>>
    /\ Directory!Register(c, peer[c], Head(chan[c]))
    /\ chan' = [chan EXCEPT ![c] = Tail(@)]
    /\ UNCHANGED <<threadVars, nsHandle, watched, peer, ownerOpen, nsOpen, nsUp, crashes, refusals>>

NsDisconnect(c) ==
    /\ c \in nsOpen \ ownerOpen
    /\ chan[c] = <<>>
    /\ Directory!Disconnect(c)
    /\ nsOpen' = nsOpen \ {c}
    /\ UNCHANGED <<threadVars, nsHandle, watched, peer, ownerOpen, chan, nsUp, crashes, refusals>>

NsCrash ==
    /\ nsUp
    /\ crashes < MaxCrashes
    /\ crashes' = crashes + 1
    /\ nsUp' = FALSE
    /\ nsOpen' = {}
    /\ chan' = [c \in Conns |-> <<>>]
    /\ dir' = [k \in Keys |-> <<>>]
    /\ UNCHANGED <<threadVars, nsHandle, watched, peer, ownerOpen, refusals>>

NsStart ==
    /\ ~nsUp
    /\ nsUp' = TRUE
    /\ UNCHANGED <<threadVars, nsHandle, watched, netVars, dir, crashes, refusals>>

Service(o) == \/ TimedOut(o)
              \/ LockForReconnect(o)
              \/ \E c \in Conns : ConnectionLost(o, c)
              \/ Clear(o)

Next ==
    \/ \E o \in Owners, t \in Threads : Reconnect(o, t)
    \/ \E o \in Owners, f \in Function : CallRegister(o, f)
    \/ \E o \in Owners : Insert(o) \/ Announce(o) \/ Service(o) \/ Exit(o)
    \/ \E c \in Conns : NsRegister(c) \/ NsDisconnect(c)
    \/ NsCrash
    \/ NsStart

Spec == Init /\ [][Next]_vars

\* Threads run, the timer of the socket service fires again and again and the
\* lock is granted to a thread that asks for it again and again; a running
\* name service reads its sockets.  Nobody has to start the name service.
Fairness ==
    /\ \A o \in Owners :
        /\ \A t \in Threads : WF_vars(Reconnect(o, t))
        /\ WF_vars(Insert(o)) /\ WF_vars(Announce(o))
        /\ WF_vars(TimedOut(o)) /\ SF_vars(LockForReconnect(o)) /\ SF_vars(Clear(o))
        /\ \A c \in Conns : WF_vars(ConnectionLost(o, c))
    /\ \A c \in Conns : WF_vars(NsRegister(c)) /\ WF_vars(NsDisconnect(c))

FairSpec == Spec /\ Fairness

-----------------------------------------------------------------------------
(* Properties *)

\* The part of the type invariant that is about the applications.
ProcessesOK ==
    /\ functions \in [Owners -> Seq(Function)]
    /\ nsHandle \in [Owners -> Conns \cup {NoConn}]
    /\ lock \in [Owners -> Threads \cup {"free"}]
    /\ app \in [Owners -> {"idle", "connect", "add", "resend", "insert", "announce", "dead"}]
    /\ svc \in [Owners -> {"poll", "reconnect", "connect", "add", "resend", "clear", "dead"}]
    /\ adding \in [Owners -> Function \cup {NoFunction}]
    /\ resendIx \in [Owners -> Nat \ {0}]
    /\ watched \in [Owners -> SUBSET Conns]
    /\ peer \in [Conns -> Owners \cup {NoOwner}]
    /\ ownerOpen \subseteq Conns
    /\ nsOpen \subseteq Conns
    /\ chan \in [Conns -> Seq(Keys)]
    /\ nsUp \in BOOLEAN
    /\ crashes \in 0..MaxCrashes
    /\ refusals \in 0..MaxRefusals

\* What the program counters say about the variables of the threads: ns_handle
\* is valid where it is added to the service, and cps_api_register has its
\* argument where it uses it.
ThreadsOK ==
    \A o \in Owners :
        /\ \A t \in Threads : At(o, t, "add") => nsHandle[o] # NoConn
        /\ app[o] \in {"insert", "announce"} => adding[o] # NoFunction

\* No function is hidden behind one for a key above its own, in whatever order
\* they were registered: insert_functions keeps db_functions so that the first
\* match of a request is the most specific one.
MostSpecificFirst == \A o \in Owners : Ordered(functions[o])

RegisteredOn(c, key) == \E i \in DOMAIN dir[key] : dir[key][i].fd = c
SentOn(c, key) == \E i \in DOMAIN chan[c] : chan[c][i] = key

\* Registrations are not answered, so an application relies on this: as long
\* as it holds a working handle, the name service has been told on it of all
\* its functions, whatever reconnects, crashes and races led to that handle.
AnnouncedOnHandle ==
    \A o \in Owners :
        lock[o] = "free" /\ nsHandle[o] # NoConn /\ Reachable(o)
            => \A i \in DOMAIN functions[o] :
                   \/ RegisteredOn(nsHandle[o], functions[o][i].key)
                   \/ SentOn(nsHandle[o], functions[o][i].key)

\* the connections of an application that both sides hold open
LiveConnections(o) == {c \in ownerOpen \cap nsOpen : peer[c] = o}

\* All applications are announced and the name service has read everything.
Settled ==
    /\ nsOpen \subseteq ownerOpen
    /\ \A c \in nsOpen : chan[c] = <<>>
    /\ \A o \in Owners : lock[o] = "free" /\ (Reachable(o) \/ functions[o] = <<>>)

\* End to end: when all is settled, the application the name service names for
\* a key and its db_functions together find the most specific function that
\* any application has for it.
Matching(q) ==
    UNION {{functions[o][i] : i \in {j \in DOMAIN functions[o] :
                                        IsPrefix(functions[o][j].key, q)}} : o \in Owners}
RoutedToMostSpecific ==
    Settled =>
        \A q \in Keys, op \in Operations :
            (Matching(q) # {} /\ \A f \in Matching(q) : op \in f.ops) =>
                /\ Directory!Answer(q) # {}
                /\ \A o \in Directory!Answer(q) :
                       \E i \in FirstHandler(functions[o], op, q) :
                           \A f \in Matching(q) : Len(f.key) <= Len(functions[o][i].key)

\* Once the name service stays up, every application gets all its functions
\* registered there and keeps them registered, unless it ends or it is left
\* with a stale handle: one that could not be added to its service, which
\* nothing but the next cps_api_register finds out.
AllRegistered(o) ==
    \A i \in DOMAIN functions[o] :
        \E c \in LiveConnections(o) : RegisteredOn(c, functions[o][i].key)
Stale(o) == refusals > 0 /\ nsHandle[o] \notin {NoConn} \cup watched[o]
RegisteredInTheEnd ==
    \A o \in Owners : <>[]nsUp => <>[](app[o] = "dead" \/ Stale(o) \/ AllRegistered(o))
=============================================================================
