--------------------------- MODULE CpsOwnerProofs ---------------------------
(***************************************************************************)
(* Proofs about CpsDispatch and CpsOwner.                                  *)
(***************************************************************************)
EXTENDS CpsOwner, CpsRegistrationsProofs

(* The prefix relation on keys, which cps_api_key_matches decides. *)

\* A key above a key above a third one is above the third.
LEMMA PrefixTransitive ==
    ASSUME NEW a \in Seq(Nat), NEW b \in Seq(Nat), NEW c \in Seq(Nat),
           IsPrefix(a, b), IsPrefix(b, c)
    PROVE  IsPrefix(a, c)
  BY DEF IsPrefix

\* Two keys above each other are the same key.
LEMMA PrefixAntisymmetric ==
    ASSUME NEW a \in Seq(Nat), NEW b \in Seq(Nat), IsPrefix(a, b), IsPrefix(b, a)
    PROVE  a = b
  BY DEF IsPrefix

\* insert_functions returns a list of functions.
LEMMA InsertType ==
    ASSUME NEW F, NEW fs \in Seq(F), NEW f \in F, NEW gs \in insert_functions(fs, f)
    PROVE  gs \in Seq(F)
  <1>1. PICK i \in 1..(Len(fs) + 1) : gs = InsertBefore(fs, i, f)
    BY DEF insert_functions
  <1>2. \A n \in 1..(Len(fs) + 1) :
            (IF n < i THEN fs[n] ELSE IF n = i THEN f ELSE fs[n - 1]) \in F
    OBVIOUS
  <1> QED
    BY <1>1, <1>2 DEF InsertBefore

\* insert_functions keeps the list ordered: the place it stops at is behind no
\* function whose key is above the new one's, and before none it would hide.
LEMMA InsertOrdered ==
    ASSUME NEW F, \A g \in F : g.key \in Seq(Nat),
           NEW fs \in Seq(F), NEW f \in F, Ordered(fs),
           NEW gs \in insert_functions(fs, f)
    PROVE  Ordered(gs)
  <1>1. PICK i \in 1..(Len(fs) + 1) : StopsAt(fs, f.key, i) /\ gs = InsertBefore(fs, i, f)
    BY DEF insert_functions
  <1>2. DOMAIN gs = 1..(Len(fs) + 1)
    BY <1>1 DEF InsertBefore
  <1>3. \A n \in DOMAIN gs : gs[n] = IF n < i THEN fs[n] ELSE IF n = i THEN f ELSE fs[n - 1]
    BY <1>1 DEF InsertBefore
  <1>4. \A n \in 1..Len(fs) : fs[n].key \in Seq(Nat)
    OBVIOUS
  <1>5. f.key \in Seq(Nat)
    OBVIOUS
  <1> SUFFICES ASSUME NEW m \in DOMAIN gs, NEW n \in DOMAIN gs, m < n,
                      IsPrefix(gs[m].key, gs[n].key)
               PROVE  gs[m].key = gs[n].key
    BY DEF Ordered
  <1>6. CASE m # i /\ n # i
    <2> DEFINE m1 == IF m < i THEN m ELSE m - 1
               n1 == IF n < i THEN n ELSE n - 1
    <2>1. m1 \in DOMAIN fs /\ n1 \in DOMAIN fs /\ m1 < n1
      BY <1>2, <1>6
    <2>2. gs[m] = fs[m1] /\ gs[n] = fs[n1]
      BY <1>3, <1>6
    <2> QED
      BY <2>1, <2>2 DEF Ordered
  <1>7. CASE n = i
    <2>1. gs[m] = fs[m] /\ gs[n] = f /\ m \in 1..(i - 1)
      BY <1>2, <1>3, <1>7
    <2> QED
      BY <2>1, <1>1 DEF StopsAt
  <1>8. CASE m = i
    <2>1. gs[m] = f /\ gs[n] = fs[n - 1] /\ i \in 1..Len(fs) /\ n - 1 \in 1..Len(fs) /\ i <= n - 1
      BY <1>2, <1>3, <1>8
    <2>2. IsPrefix(fs[i].key, f.key) /\ IsPrefix(f.key, fs[n - 1].key)
      BY <2>1, <1>1 DEF StopsAt
    <2>3. IsPrefix(fs[i].key, fs[n - 1].key)
      BY <2>1, <2>2, <1>4, <1>5, PrefixTransitive
    <2>4. fs[i].key = fs[n - 1].key
      <3>1. i \in DOMAIN fs /\ n - 1 \in DOMAIN fs /\ (i = n - 1 \/ i < n - 1)
        BY <2>1
      <3> QED
        BY <3>1, <2>3 DEF Ordered
    <2>5. f.key = fs[i].key
      BY <2>1, <2>2, <2>4, <1>4, <1>5, PrefixAntisymmetric
    <2> QED
      BY <2>1, <2>4, <2>5
  <1> QED
    BY <1>6, <1>7, <1>8

\* In an ordered list the function that is run for a request is the most
\* specific one that can handle it.
THEOREM FirstHandlerIsMostSpecific ==
    ASSUME NEW F, \A g \in F : g.key \in Seq(Nat),
           NEW fs \in Seq(F), Ordered(fs),
           NEW op, NEW q \in Seq(Nat), NEW i \in FirstHandler(fs, op, q),
           NEW j \in DOMAIN fs, Handles(fs[j], op, q)
    PROVE  Len(fs[j].key) <= Len(fs[i].key)
  <1>1. i \in DOMAIN fs /\ Handles(fs[i], op, q) /\ \A k \in 1..(i - 1) : ~Handles(fs[k], op, q)
    BY DEF FirstHandler
  <1>2. fs[i].key \in Seq(Nat) /\ fs[j].key \in Seq(Nat)
    BY <1>1
  <1>3. i <= j
    BY <1>1
  <1> SUFFICES ASSUME Len(fs[i].key) < Len(fs[j].key)
               PROVE  FALSE
    BY <1>2
  <1>4. IsPrefix(fs[i].key, fs[j].key)
    BY <1>1, <1>2 DEF Handles, IsPrefix
  <1>5. i # j
    BY <1>2
  <1>6. fs[i].key = fs[j].key
    BY <1>1, <1>3, <1>4, <1>5 DEF Ordered
  <1> QED
    BY <1>2, <1>6

-----------------------------------------------------------------------------
(* The inductive invariant of the applications *)

\* What is inductive: the list can only be shown to stay ordered where the
\* function being registered is known to be one, which the program counters say.
IInv == ProcessesOK /\ ThreadsOK /\ MostSpecificFirst

\* The key of a registered function is a sequence of key elements.
LEMMA FunctionKeys == \A g \in Function : g \in [key : Keys, ops : OpSets] /\ g.key \in Keys /\ g.key \in Seq(Nat)
  BY OwnerAssumption DEF Function

\* It holds when cps_api_operation_subsystem_init has just started the service.
LEMMA InitIInv == Init => IInv
  <1> SUFFICES ASSUME Init PROVE IInv
    OBVIOUS
  <1> USE OwnerAssumption DEF Init
  <1>1. ProcessesOK
    BY DEF ProcessesOK, Threads
  <1>2. ThreadsOK
    BY DEF ThreadsOK, At, Threads
  <1>3. MostSpecificFirst
    BY DEF MostSpecificFirst, Ordered
  <1> QED
    BY <1>1, <1>2, <1>3 DEF IInv

\* Every step of the threads and of the name service leaves the variables of
\* the applications and of their connections in their types.
LEMMA NextProcessesOK == IInv /\ [Next]_vars => ProcessesOK'
  <1> SUFFICES ASSUME IInv, [Next]_vars PROVE ProcessesOK'
    OBVIOUS
  <1> USE OwnerAssumption DEF IInv, ProcessesOK, Threads, threadVars, netVars, nsVars
  <1>1. ASSUME NEW o \in Owners, NEW t \in Threads, Connect(o, t) PROVE ProcessesOK'
    BY <1>1 DEF Connect, Goto
  <1>2. ASSUME NEW o \in Owners, NEW t \in Threads, ConnectFails(o, t) PROVE ProcessesOK'
    BY <1>2 DEF ConnectFails, Return, Goto
  <1>3. ASSUME NEW o \in Owners, NEW t \in Threads, AddClient(o, t) PROVE ProcessesOK'
    BY <1>3 DEF AddClient, Goto, FirstResent, ThreadsOK
  <1>4. ASSUME NEW o \in Owners, NEW t \in Threads, AddClientFails(o, t) PROVE ProcessesOK'
    <2>1. refusals' \in 0..MaxRefusals
      BY <1>4 DEF AddClientFails
    <2>2. /\ lock' \in [Owners -> Threads \cup {"free"}]
          /\ app' \in [Owners -> {"idle", "connect", "add", "resend", "insert", "announce", "dead"}]
          /\ svc' \in [Owners -> {"poll", "reconnect", "connect", "add", "resend", "clear", "dead"}]
      BY <1>4 DEF AddClientFails, Return, Goto
    <2> QED
      BY <1>4, <2>1, <2>2 DEF AddClientFails
  <1>5. ASSUME NEW o \in Owners, NEW t \in Threads, Resend(o, t) PROVE ProcessesOK'
    <2>1. /\ functions' = functions /\ adding' = adding /\ watched' = watched
          /\ nsUp' = nsUp /\ crashes' = crashes /\ refusals' = refusals
      BY <1>5 DEF Resend
    <2>2. functions[o] \in Seq(Function) /\ resendIx[o] \in 1..Len(functions[o])
      BY <1>5 DEF Resend
    <2>3. functions[o][resendIx[o]].key \in Keys
      BY <2>2, FunctionKeys
    <2>4. CASE Send(o, functions[o][resendIx[o]].key) /\ resendIx' = [resendIx EXCEPT ![o] = @ + 1]
               /\ UNCHANGED <<lock, app, svc>>
      <3>1. nsHandle[o] \in Conns /\ chan[nsHandle[o]] \in Seq(Keys)
        BY <2>4 DEF Send, Reachable
      <3>2. chan' \in [Conns -> Seq(Keys)]
        BY <2>3, <2>4, <3>1 DEF Send
      <3>3. resendIx' \in [Owners -> Nat \ {0}]
        BY <2>4
      <3> QED
        BY <2>1, <2>4, <3>2, <3>3 DEF Send
    <2>5. CASE SendFails(o) /\ Return(o, t) /\ UNCHANGED resendIx
      BY <2>1, <2>5 DEF SendFails, Return, Goto
    <2> QED
      BY <1>5, <2>4, <2>5 DEF Resend
  <1>6. ASSUME NEW o \in Owners, NEW t \in Threads, Reconnected(o, t) PROVE ProcessesOK'
    BY <1>6 DEF Reconnected, Return, Goto
  <1>7. ASSUME NEW o \in Owners, NEW f \in Function, CallRegister(o, f) PROVE ProcessesOK'
    BY <1>7 DEF CallRegister
  <1>8. ASSUME NEW o \in Owners, Insert(o) PROVE ProcessesOK'
    <2>1. adding[o] \in Function
      BY <1>8 DEF Insert, At, ThreadsOK
    <2>2. PICK fs \in insert_functions(functions[o], adding[o]) :
              functions' = [functions EXCEPT ![o] = fs]
      BY <1>8 DEF Insert
    <2>3. functions[o] \in Seq(Function)
      OBVIOUS
    <2>4. fs \in Seq(Function)
      BY <2>1, <2>2, <2>3, InsertType
    <2>5. functions' \in [Owners -> Seq(Function)]
      BY <2>2, <2>4
    <2> QED
      BY <1>8, <2>5 DEF Insert, EndRegister, Goto
  <1>9. ASSUME NEW o \in Owners, Announce(o) PROVE ProcessesOK'
    <2>1. adding[o] \in Function
      BY <1>9 DEF Announce, At, ThreadsOK
    <2>2. adding[o].key \in Keys
      BY <2>1, FunctionKeys
    <2>3. CASE Send(o, adding[o].key)
      <3>1. nsHandle[o] \in Conns /\ chan[nsHandle[o]] \in Seq(Keys)
        BY <2>3 DEF Send, Reachable
      <3>2. chan' \in [Conns -> Seq(Keys)]
        BY <2>2, <2>3, <3>1 DEF Send
      <3> QED
        BY <1>9, <2>3, <3>2 DEF Announce, EndRegister, Send
    <2>4. CASE SendFails(o)
      BY <1>9, <2>4 DEF Announce, EndRegister, SendFails
    <2> QED
      BY <1>9, <2>3, <2>4 DEF Announce
  <1>10. ASSUME NEW o \in Owners, TimedOut(o) PROVE ProcessesOK'
    BY <1>10 DEF TimedOut
  <1>11. ASSUME NEW o \in Owners, LockForReconnect(o) PROVE ProcessesOK'
    BY <1>11 DEF LockForReconnect
  <1>12. ASSUME NEW o \in Owners, NEW c \in Conns, ConnectionLost(o, c) PROVE ProcessesOK'
    BY <1>12 DEF ConnectionLost, LostHandle
  <1>13. ASSUME NEW o \in Owners, Clear(o) PROVE ProcessesOK'
    BY <1>13 DEF Clear
  <1>14. ASSUME NEW o \in Owners, Exit(o) PROVE ProcessesOK'
    BY <1>14 DEF Exit
  <1>15. ASSUME NEW c \in Conns, NsRegister(c) PROVE ProcessesOK'
    <2>1. chan[c] \in Seq(Keys) /\ chan[c] # <<>>
      BY <1>15 DEF NsRegister
    <2>2. Tail(chan[c]) \in Seq(Keys)
      BY <2>1
    <2>3. chan' = [chan EXCEPT ![c] = Tail(chan[c])]
      BY <1>15 DEF NsRegister
    <2> QED
      BY <1>15, <2>2, <2>3 DEF NsRegister
  <1>16. ASSUME NEW c \in Conns, NsDisconnect(c) PROVE ProcessesOK'
    BY <1>16 DEF NsDisconnect
  <1>17. CASE NsCrash
    <2>1. chan' = [c \in Conns |-> <<>>] /\ nsOpen' = {} /\ nsUp' = FALSE
      BY <1>17 DEF NsCrash
    <2>2. chan' \in [Conns -> Seq(Keys)]
      BY <2>1
    <2>3. crashes' \in 0..MaxCrashes
      BY <1>17 DEF NsCrash
    <2>4. UNCHANGED <<threadVars, nsHandle, watched, peer, ownerOpen, refusals>>
      BY <1>17 DEF NsCrash
    <2> QED
      BY <2>1, <2>2, <2>3, <2>4
  <1>18. CASE NsStart
    BY <1>18 DEF NsStart
  <1>19. CASE UNCHANGED vars
    BY <1>19 DEF vars
  <1> QED
    BY <1>1, <1>2, <1>3, <1>4, <1>5, <1>6, <1>7, <1>8, <1>9, <1>10, <1>11, <1>12,
       <1>13, <1>14, <1>15, <1>16, <1>17, <1>18, <1>19 DEF Next, Reconnect, Service

\* The program counters of an application go on agreeing with its variables: no
\* other thread can change ns_handle or the argument of cps_api_register while
\* one of them is between two steps under db_lock.
LEMMA NextThreadsOK == IInv /\ [Next]_vars => ThreadsOK'
  <1> SUFFICES ASSUME IInv, [Next]_vars PROVE ThreadsOK'
    OBVIOUS
  <1>0. /\ nsHandle \in [Owners -> Conns \cup {NoConn}]
        /\ lock \in [Owners -> Threads \cup {"free"}]
        /\ app \in [Owners -> {"idle", "connect", "add", "resend", "insert", "announce", "dead"}]
        /\ svc \in [Owners -> {"poll", "reconnect", "connect", "add", "resend", "clear", "dead"}]
        /\ adding \in [Owners -> Function \cup {NoFunction}]
        /\ ThreadsOK
    BY DEF IInv, ProcessesOK
  <1> USE <1>0 DEF ThreadsOK, At, Threads, threadVars, netVars, nsVars
  <1>1. ASSUME NEW o \in Owners, NEW t \in Threads, Connect(o, t) PROVE ThreadsOK'
    BY <1>1, OwnerAssumption DEF Connect, Goto
  <1>2. ASSUME NEW o \in Owners, NEW t \in Threads, ConnectFails(o, t) PROVE ThreadsOK'
    BY <1>2 DEF ConnectFails, Return, Goto
  <1>3. ASSUME NEW o \in Owners, NEW t \in Threads, AddClient(o, t) PROVE ThreadsOK'
    BY <1>3 DEF AddClient, Goto
  <1>4. ASSUME NEW o \in Owners, NEW t \in Threads, AddClientFails(o, t) PROVE ThreadsOK'
    BY <1>4 DEF AddClientFails, Return, Goto
  <1>5. ASSUME NEW o \in Owners, NEW t \in Threads, Resend(o, t) PROVE ThreadsOK'
    <2>1. CASE nsHandle' = nsHandle /\ UNCHANGED <<lock, app, svc, adding>>
      BY <2>1
    <2>2. CASE SendFails(o) /\ Return(o, t) /\ UNCHANGED adding
      BY <1>5, <2>2 DEF Resend, SendFails, Return, Goto
    <2> QED
      BY <1>5, <2>1, <2>2 DEF Resend, Send
  <1>6. ASSUME NEW o \in Owners, NEW t \in Threads, Reconnected(o, t) PROVE ThreadsOK'
    BY <1>6 DEF Reconnected, Return, Goto
  <1>7. ASSUME NEW o \in Owners, NEW f \in Function, CallRegister(o, f) PROVE ThreadsOK'
    BY <1>7, OwnerAssumption DEF CallRegister
  <1>8. ASSUME NEW o \in Owners, Insert(o) PROVE ThreadsOK'
    <2>1. nsHandle' = nsHandle /\ svc' = svc
      BY <1>8 DEF Insert
    <2>2. CASE EndRegister(o)
      BY <2>1, <2>2 DEF EndRegister
    <2>3. CASE Goto(o, "app", "announce") /\ UNCHANGED adding
      <3>1. app' = [app EXCEPT ![o] = "announce"] /\ lock' = lock /\ adding' = adding
        BY <2>3 DEF Goto
      <3>2. adding[o] # NoFunction
        BY <1>8 DEF Insert
      <3> QED
        BY <2>1, <3>1, <3>2
    <2> QED
      BY <1>8, <2>2, <2>3 DEF Insert
  <1>9. ASSUME NEW o \in Owners, Announce(o) PROVE ThreadsOK'
    BY <1>9 DEF Announce, EndRegister, Send, SendFails
  <1>10. ASSUME NEW o \in Owners, TimedOut(o) PROVE ThreadsOK'
    BY <1>10 DEF TimedOut
  <1>11. ASSUME NEW o \in Owners, LockForReconnect(o) PROVE ThreadsOK'
    BY <1>11 DEF LockForReconnect
  <1>12. ASSUME NEW o \in Owners, NEW c \in Conns, ConnectionLost(o, c) PROVE ThreadsOK'
    BY <1>12 DEF ConnectionLost, LostHandle
  <1>13. ASSUME NEW o \in Owners, Clear(o) PROVE ThreadsOK'
    BY <1>13 DEF Clear
  <1>14. ASSUME NEW o \in Owners, Exit(o) PROVE ThreadsOK'
    BY <1>14 DEF Exit
  <1>15. ASSUME NEW c \in Conns, NsRegister(c) PROVE ThreadsOK'
    BY <1>15 DEF NsRegister
  <1>16. ASSUME NEW c \in Conns, NsDisconnect(c) PROVE ThreadsOK'
    BY <1>16 DEF NsDisconnect
  <1>17. CASE NsCrash
    BY <1>17 DEF NsCrash
  <1>18. CASE NsStart
    BY <1>18 DEF NsStart
  <1>19. CASE UNCHANGED vars
    BY <1>19 DEF vars
  <1> QED
    BY <1>1, <1>2, <1>3, <1>4, <1>5, <1>6, <1>7, <1>8, <1>9, <1>10, <1>11, <1>12,
       <1>13, <1>14, <1>15, <1>16, <1>17, <1>18, <1>19 DEF Next, Reconnect, Service

\* Only cps_api_register and the end of the process change db_functions, and the
\* registration puts the function where the list stays ordered.
LEMMA NextOrdered == IInv /\ [Next]_vars => MostSpecificFirst'
  <1> SUFFICES ASSUME IInv, [Next]_vars PROVE MostSpecificFirst'
    OBVIOUS
  <1> USE DEF IInv
  <1>1. ASSUME NEW o \in Owners, Insert(o) PROVE MostSpecificFirst'
    <2>1. adding[o] \in Function /\ functions[o] \in Seq(Function) /\ Ordered(functions[o])
      BY <1>1 DEF Insert, At, ThreadsOK, ProcessesOK, MostSpecificFirst
    <2>2. PICK fs \in insert_functions(functions[o], adding[o]) :
              functions' = [functions EXCEPT ![o] = fs]
      BY <1>1 DEF Insert
    <2>3. Ordered(fs)
      BY <2>1, <2>2, FunctionKeys, InsertOrdered
    <2>4. \A p \in Owners : functions'[p] = fs \/ functions'[p] = functions[p]
      BY <2>2 DEF ProcessesOK
    <2> QED
      BY <2>3, <2>4 DEF MostSpecificFirst
  <1>2. ASSUME NEW o \in Owners, Exit(o) PROVE MostSpecificFirst'
    <2>1. \A p \in Owners : functions'[p] = <<>> \/ functions'[p] = functions[p]
      BY <1>2 DEF Exit, ProcessesOK
    <2>2. Ordered(<<>>)
      BY DEF Ordered
    <2> QED
      BY <2>1, <2>2 DEF MostSpecificFirst
  <1>3. CASE UNCHANGED functions
    BY <1>3 DEF MostSpecificFirst
  <1>4. (\E o \in Owners : Insert(o) \/ Exit(o)) \/ UNCHANGED functions
    BY DEF Next, vars, threadVars, Reconnect, Service, Connect, ConnectFails, AddClient,
           AddClientFails, Resend, Reconnected, CallRegister, Announce, TimedOut,
           LockForReconnect, ConnectionLost, Clear, NsRegister, NsDisconnect, NsCrash, NsStart
  <1> QED
    BY <1>1, <1>2, <1>3, <1>4

\* The invariant holds in every behaviour of the applications and the service.
LEMMA Inductive == Spec => []IInv
  <1>1. IInv /\ [Next]_vars => IInv'
    BY NextProcessesOK, NextThreadsOK, NextOrdered DEF IInv
  <1> QED
    BY <1>1, InitIInv, PTL DEF Spec

\* Whatever the threads of cps_api_operation_service.cpp and the name service do,
\* for any applications, keys, callbacks, connections and bounds, the state of
\* the applications and of their connections keeps its type: register_one_key
\* never uses an invalid handle and the loop of reconnect_with_ns stays in range.
THEOREM ApplicationsTyped == Spec => []ProcessesOK
  BY Inductive, PTL DEF IInv

\* Whatever the order of the registrations, however many they are and whatever
\* reconnects and crashes come between them, no function in db_functions hides a
\* more specific one behind it from cps_api_handle_get, _commit and _revert.
THEOREM AlwaysMostSpecificFirst == Spec => []MostSpecificFirst
  BY Inductive, PTL DEF IInv

-----------------------------------------------------------------------------
(* What the name service has been told *)

Told(c, key) == RegisteredOn(c, key) \/ SentOn(c, key)
HasKey(o, key) == \E j \in DOMAIN functions[o] : functions[o][j].key = key
Entry == [addr : Owners \cup {NoOwner}, fd : Conns]

DirTyped == dir \in [Keys -> Seq(Entry)]

\* A thread of o is on its way to telling of function i: it is connecting, has not
\* come to it in the loop of reconnect_with_ns, or is registering it.
StillToTell(o, i) ==
    \/ \E t \in Threads : \/ At(o, t, "connect") \/ At(o, t, "add")
                          \/ At(o, t, "resend") /\ i >= resendIx[o]
    \/ At(o, "app", "announce") /\ functions[o][i].key = adding[o].key

\* Everything is told on a working handle, or about to be.
ToldOnHandle ==
    \A o \in Owners :
        Reachable(o) => \A i \in DOMAIN functions[o] :
                            Told(nsHandle[o], functions[o][i].key) \/ StillToTell(o, i)

\* The inductive invariant of AllTold.
ToldInv == IInv /\ DirTyped /\ ToldOnHandle

\* Connections are of the applications that hold them, and what the name service
\* has read, or will read, of a connection was registered by its application,
\* which has not ended if its end is open.
Has(s, x) == \E i \in DOMAIN s : s[i] = x
ToldByOwner ==
    /\ \A c \in ownerOpen \cup nsOpen : peer[c] \in Owners
    /\ \A o \in Owners : nsHandle[o] \in ownerOpen => peer[nsHandle[o]] = o
    /\ \A o \in Owners : app[o] = "announce" => HasKey(o, adding[o].key)
    /\ \A k \in Keys, e \in Entry :
           Has(dir[k], e) => /\ e.fd \in nsOpen /\ e.addr = peer[e.fd]
                             /\ e.fd \in ownerOpen => HasKey(peer[e.fd], k)
    /\ \A c \in Conns, k \in Keys :
           Has(chan[c], k) => /\ c \in nsOpen
                              /\ c \in ownerOpen => HasKey(peer[c], k)

\* The inductive invariant of FoundInTheEnd.
RouteInv == ToldInv /\ ToldByOwner

\* What is in a sequence with one more element, one less, or without a descriptor.
LEMMA AppendHas ==
    ASSUME NEW S, NEW s \in Seq(S), NEW x \in S
    PROVE  /\ Append(s, x) \in Seq(S)
           /\ \A y : Has(Append(s, x), y) <=> Has(s, y) \/ y = x
  <1> DEFINE t == Append(s, x)
  <1>1. t \in Seq(S) /\ DOMAIN t = 1..(Len(s) + 1) /\ DOMAIN s = 1..Len(s) /\ Len(s) \in Nat
    OBVIOUS
  <1>2. t[Len(s) + 1] = x /\ \A i \in 1..Len(s) : t[i] = s[i]
    OBVIOUS
  <1> HIDE DEF t
  <1>3. \A y : Has(t, y) <=> Has(s, y) \/ y = x
    BY <1>1, <1>2 DEF Has
  <1> QED
    BY <1>1, <1>3 DEF t

LEMMA TailHas ==
    ASSUME NEW S, NEW s \in Seq(S), s # <<>>
    PROVE  /\ Head(s) \in S /\ Tail(s) \in Seq(S)
           /\ \A y : Has(s, y) <=> Has(Tail(s), y) \/ y = Head(s)
  <1> DEFINE t == Tail(s)
             h == Head(s)
  <1>1. /\ t \in Seq(S) /\ Len(s) \in Nat /\ Len(s) >= 1 /\ Len(t) = Len(s) - 1
        /\ DOMAIN t = 1..Len(t) /\ DOMAIN s = 1..Len(s)
    OBVIOUS
  <1>2. h = s[1] /\ \A i \in 1..Len(t) : t[i] = s[i + 1]
    OBVIOUS
  <1>3. h \in S
    BY <1>1, <1>2
  <1> HIDE DEF t, h
  <1>4. ASSUME NEW y, Has(s, y) PROVE Has(t, y) \/ y = h
    <2>1. PICK i \in 1..Len(s) : s[i] = y
      BY <1>1, <1>4 DEF Has
    <2>2. CASE i = 1
      BY <1>2, <2>1, <2>2
    <2>3. CASE i # 1
      <3>1. i - 1 \in 1..Len(t) /\ (i - 1) + 1 = i
        BY <1>1, <2>3
      <3>2. t[i - 1] = y
        BY <1>2, <2>1, <3>1
      <3> QED
        BY <1>1, <3>1, <3>2 DEF Has
    <2> QED
      BY <2>2, <2>3
  <1>5. ASSUME NEW y, Has(t, y) PROVE Has(s, y)
    <2>1. PICK i \in 1..Len(t) : t[i] = y
      BY <1>1, <1>5 DEF Has
    <2>2. i + 1 \in 1..Len(s) /\ s[i + 1] = y
      BY <1>1, <1>2, <2>1
    <2> QED
      BY <1>1, <2>2 DEF Has
  <1>6. Has(s, h)
    <2>1. 1 \in DOMAIN s
      BY <1>1
    <2> QED
      BY <1>2, <2>1 DEF Has
  <1> QED
    BY <1>1, <1>3, <1>4, <1>5, <1>6 DEF t, h

LEMMA WithoutHas ==
    ASSUME NEW s \in Seq(Entry), NEW c
    PROVE  /\ Directory!Without(s, c) \in Seq(Entry)
           /\ \A e \in Entry : Has(Directory!Without(s, c), e) <=> Has(s, e) /\ e.fd # c
  <1>1. Directory!Without(s, c) = Without(s, c)
    BY DEF Directory!Without, Without, Directory!Kept, Kept
  <1> QED
    BY <1>1, WithoutRange DEF Has

\* The registrations on a connection.
LEMMA HasFd ==
    ASSUME NEW s \in Seq(Entry), NEW c
    PROVE  (\E i \in DOMAIN s : s[i].fd = c) <=> (\E e \in Entry : Has(s, e) /\ e.fd = c)
  <1>1. \A i \in DOMAIN s : s[i] \in Entry
    OBVIOUS
  <1> QED
    BY <1>1 DEF Has

-----------------------------------------------------------------------------
(* What the steps do to the directory and the channels *)

\* The name service reads a registration.
LEMMA RegisterStep ==
    ASSUME ProcessesOK, DirTyped, NEW c \in Conns, NsRegister(c)
    PROVE  /\ DirTyped'
           /\ Has(chan[c], Head(chan[c])) /\ Head(chan[c]) \in Keys /\ c \in nsOpen
           /\ [addr |-> peer[c], fd |-> c] \in Entry
           /\ \A k \in Keys : \A e : Has(dir'[k], e) <=>
                  Has(dir[k], e) \/ (k = Head(chan[c]) /\ e = [addr |-> peer[c], fd |-> c])
           /\ \A d \in Conns : d # c => chan'[d] = chan[d]
           /\ \A k : Has(chan[c], k) <=> Has(chan'[c], k) \/ k = Head(chan[c])
  <1> DEFINE h == Head(chan[c])
             x == [addr |-> peer[c], fd |-> c]
  <1>1. chan[c] \in Seq(Keys) /\ chan[c] # <<>> /\ c \in nsOpen
    BY DEF NsRegister, ProcessesOK
  <1>2. h \in Keys /\ \A y : Has(chan[c], y) <=> Has(Tail(chan[c]), y) \/ y = h
    BY <1>1, TailHas
  <1>3. /\ dir' = [dir EXCEPT ![h] = Append(dir[h], x)]
        /\ chan' = [chan EXCEPT ![c] = Tail(chan[c])]
    BY DEF NsRegister, Directory!Register
  <1>4. x \in Entry
    BY DEF ProcessesOK, Entry
  <1> HIDE DEF h, x
  <1>5. dir \in [Keys -> Seq(Entry)] /\ dir[h] \in Seq(Entry)
    BY <1>2 DEF DirTyped
  <1>6. Append(dir[h], x) \in Seq(Entry) /\ \A y : Has(Append(dir[h], x), y) <=> Has(dir[h], y) \/ y = x
    BY <1>4, <1>5, AppendHas
  <1>7. \A k \in Keys : dir'[k] = IF k = h THEN Append(dir[h], x) ELSE dir[k]
    BY <1>2, <1>3, <1>5
  <1>8. DirTyped'
    BY <1>3, <1>5, <1>6 DEF DirTyped
  <1>9. \A k \in Keys : \A e : Has(dir'[k], e) <=> Has(dir[k], e) \/ (k = h /\ e = x)
    BY <1>6, <1>7
  <1>10. chan'[c] = Tail(chan[c]) /\ \A d \in Conns : d # c => chan'[d] = chan[d]
    BY <1>3 DEF ProcessesOK
  <1> QED
    BY <1>1, <1>2, <1>4, <1>8, <1>9, <1>10 DEF h, x

\* The name service finds a connection closed.
LEMMA DisconnectStep ==
    ASSUME DirTyped, NEW c \in Conns, NsDisconnect(c)
    PROVE  /\ DirTyped' /\ c \notin ownerOpen /\ nsOpen' = nsOpen \ {c} /\ chan' = chan /\ chan[c] = <<>>
           /\ \A k \in Keys, e \in Entry : Has(dir'[k], e) <=> Has(dir[k], e) /\ e.fd # c
  <1>1. dir' = [k \in Keys |-> Directory!Without(dir[k], c)]
    BY DEF NsDisconnect, Directory!Disconnect
  <1>2. \A k \in Keys : dir[k] \in Seq(Entry)
    BY DEF DirTyped
  <1>3. \A k \in Keys : dir'[k] \in Seq(Entry) /\ dir'[k] = Directory!Without(dir[k], c)
    BY <1>1, <1>2, WithoutHas
  <1>4. DirTyped'
    BY <1>1, <1>2, WithoutHas DEF DirTyped
  <1>5. \A k \in Keys, e \in Entry : Has(dir'[k], e) <=> Has(dir[k], e) /\ e.fd # c
    BY <1>2, <1>3, WithoutHas
  <1> QED
    BY <1>4, <1>5 DEF NsDisconnect

\* An application sends a key on its handle.
LEMMA SendStep ==
    ASSUME ProcessesOK, NEW o \in Owners, NEW key \in Keys, Send(o, key)
    PROVE  /\ nsHandle[o] \in Conns /\ nsHandle[o] \in ownerOpen /\ nsHandle[o] \in nsOpen
           /\ \A d \in Conns : \A k : Has(chan'[d], k) <=> Has(chan[d], k) \/ (d = nsHandle[o] /\ k = key)
           /\ UNCHANGED <<nsHandle, peer, ownerOpen, nsOpen>>
  <1> DEFINE c == nsHandle[o]
  <1>1. c \in ownerOpen /\ c \in nsOpen /\ c \in Conns /\ chan[c] \in Seq(Keys)
    BY DEF Send, Reachable, ProcessesOK
  <1>2. chan' = [chan EXCEPT ![c] = Append(chan[c], key)] /\ UNCHANGED <<nsHandle, peer, ownerOpen, nsOpen>>
    BY DEF Send
  <1> HIDE DEF c
  <1>3. \A d \in Conns : chan'[d] = IF d = c THEN Append(chan[c], key) ELSE chan[d]
    BY <1>1, <1>2 DEF ProcessesOK
  <1>4. \A k : Has(Append(chan[c], key), k) <=> Has(chan[c], k) \/ k = key
    BY <1>1, AppendHas
  <1> QED
    BY <1>1, <1>2, <1>3, <1>4 DEF c

\* What the loop of reconnect_with_ns or cps_api_register sends is the key of a
\* function.
SendsFrom(o) ==
    \/ \E t \in Threads : /\ Resend(o, t) /\ resendIx[o] \in DOMAIN functions[o]
                          /\ Send(o, functions[o][resendIx[o]].key)
    \/ Announce(o) /\ adding[o] \in Function /\ Send(o, adding[o].key)

\* The steps that concern them.
LEMMA NetStep ==
    ASSUME IInv, [Next]_vars
    PROVE  \/ UNCHANGED <<dir, chan>> /\ ~NsCrash /\ \A c \in Conns : ~NsDisconnect(c)
           \/ UNCHANGED dir /\ \E o \in Owners : SendsFrom(o)
           \/ \E c \in Conns : NsRegister(c) \/ NsDisconnect(c)
           \/ NsCrash
  <1> USE DEF IInv
  <1>1. ASSUME NEW o \in Owners, NEW t \in Threads, Resend(o, t)
        PROVE  UNCHANGED dir /\ (UNCHANGED chan \/ SendsFrom(o))
    <2>1. functions[o] \in Seq(Function) /\ resendIx[o] \in Nat \ {0} /\ resendIx[o] <= Len(functions[o])
      BY <1>1 DEF Resend, ProcessesOK
    <2>2. resendIx[o] \in DOMAIN functions[o]
      BY <2>1
    <2> QED
      BY <1>1, <2>2 DEF Resend, SendFails, SendsFrom, nsVars
  <1>2. ASSUME NEW o \in Owners, Announce(o)
        PROVE  UNCHANGED dir /\ (UNCHANGED chan \/ SendsFrom(o))
    <2>1. adding[o] \in Function
      BY <1>2 DEF Announce, At, ThreadsOK, ProcessesOK
    <2> QED
      BY <1>2, <2>1 DEF Announce, SendFails, SendsFrom, nsVars
  <1>3. \/ \E o \in Owners, t \in Threads : Resend(o, t)
        \/ \E o \in Owners : Announce(o)
        \/ UNCHANGED <<dir, chan>>
        \/ \E c \in Conns : NsRegister(c) \/ NsDisconnect(c)
        \/ NsCrash
    BY DEF Next, vars, threadVars, netVars, nsVars, Reconnect, Service, Connect, ConnectFails, AddClient,
           AddClientFails, Reconnected, CallRegister, Insert, Exit, TimedOut,
           LockForReconnect, ConnectionLost, Clear, NsStart
  <1> QED
    BY <1>1, <1>2, <1>3

\* What has been told on a connection that stays open stays told.
LEMMA ToldKept ==
    ASSUME IInv, DirTyped, [Next]_vars, NEW c \in Conns, c \in ownerOpen, c \in nsOpen',
           NEW k \in Keys, Told(c, k)
    PROVE  /\ DirTyped'
           /\ (\E i \in DOMAIN dir'[k] : dir'[k][i].fd = c) \/ Has(chan'[c], k)
  <1>0. ProcessesOK
    BY DEF IInv
  <1>1. dir[k] \in Seq(Entry)
    BY DEF DirTyped
  <1>2. (\E e \in Entry : Has(dir[k], e) /\ e.fd = c) \/ Has(chan[c], k)
    <2>1. (\E i \in DOMAIN dir[k] : dir[k][i].fd = c) \/ Has(chan[c], k)
      BY DEF Told, RegisteredOn, SentOn, Has
    <2> QED
      BY <1>1, <2>1, HasFd
  <1>3. ~NsCrash
    BY DEF NsCrash
  <1>4. DirTyped' /\ ((\E e \in Entry : Has(dir'[k], e) /\ e.fd = c) \/ Has(chan'[c], k))
    <2>1. CASE UNCHANGED <<dir, chan>>
      BY <1>2, <2>1 DEF DirTyped
    <2>2. ASSUME UNCHANGED dir, NEW o \in Owners, SendsFrom(o)
          PROVE  DirTyped' /\ ((\E e \in Entry : Has(dir'[k], e) /\ e.fd = c) \/ Has(chan'[c], k))
      <3>1. PICK key \in Keys : Send(o, key)
        BY <1>0, <2>2, FunctionKeys DEF SendsFrom, ProcessesOK
      <3>2. Has(chan[c], k) => Has(chan'[c], k)
        BY <1>0, <3>1, SendStep
      <3> QED
        BY <1>2, <2>2, <3>2 DEF DirTyped
    <2>3. ASSUME NEW d \in Conns, NsRegister(d)
          PROVE  DirTyped' /\ ((\E e \in Entry : Has(dir'[k], e) /\ e.fd = c) \/ Has(chan'[c], k))
      <3> DEFINE x == [addr |-> peer[d], fd |-> d]
      <3>1. /\ DirTyped' /\ x \in Entry /\ x.fd = d
            /\ \A e : Has(dir'[k], e) <=> Has(dir[k], e) \/ (k = Head(chan[d]) /\ e = x)
            /\ c # d => chan'[c] = chan[c]
            /\ Has(chan[d], k) <=> Has(chan'[d], k) \/ k = Head(chan[d])
        BY <1>0, <2>3, RegisterStep
      <3> HIDE DEF x
      <3> QED
        BY <1>2, <3>1
    <2>4. ASSUME NEW d \in Conns, NsDisconnect(d)
          PROVE  DirTyped' /\ ((\E e \in Entry : Has(dir'[k], e) /\ e.fd = c) \/ Has(chan'[c], k))
      BY <1>2, <2>4, DisconnectStep
    <2> QED
      BY <1>3, <2>1, <2>2, <2>3, <2>4, NetStep
  <1>5. dir'[k] \in Seq(Entry)
    BY <1>4 DEF DirTyped
  <1> QED
    BY <1>4, <1>5, HasFd

-----------------------------------------------------------------------------
(* Everything is told on a working handle *)

\* What an application is and holds stays, and its handle is not made to work.
Same(o) ==
    /\ nsHandle'[o] = nsHandle[o] /\ functions'[o] = functions[o] /\ adding'[o] = adding[o]
    /\ lock'[o] = lock[o] /\ app'[o] = app[o] /\ svc'[o] = svc[o] /\ resendIx'[o] = resendIx[o]
    /\ Reachable(o)' => Reachable(o)

OwnStep(o) ==
    \/ \E t \in Threads : Reconnect(o, t)
    \/ \E f \in Function : CallRegister(o, f)
    \/ Insert(o) \/ Announce(o) \/ Service(o) \/ Exit(o)

\* The steps of others leave an application alone: a number that it holds is not
\* given to another connection.
LEMMA OthersLeave ==
    ASSUME IInv, [Next]_vars, NEW o \in Owners
    PROVE  OwnStep(o) \/ Same(o)
  <1> USE DEF IInv, ProcessesOK, Threads
  <1>1. ASSUME NEW p \in Owners, p # o, NEW t \in Threads, Reconnect(p, t) PROVE Same(o)
    <2>1. CASE Connect(p, t)
      <3>1. PICK c \in Conns : Fresh(c) /\ nsHandle' = [nsHandle EXCEPT ![p] = c]
                               /\ ownerOpen' = ownerOpen \cup {c} /\ nsOpen' = nsOpen \cup {c}
        BY <2>1 DEF Connect
      <3>2. nsHandle[o] # c
        BY <3>1 DEF Fresh
      <3> QED
        BY <1>1, <2>1, <3>1, <3>2 DEF Connect, Goto, Same, Reachable
    <2>2. CASE ConnectFails(p, t)
      BY <1>1, <2>2 DEF ConnectFails, Return, Goto, Same, Reachable, netVars
    <2>3. CASE AddClient(p, t)
      BY <1>1, <2>3 DEF AddClient, Goto, Same, Reachable, netVars
    <2>4. CASE AddClientFails(p, t)
      BY <1>1, <2>4 DEF AddClientFails, Return, Goto, Same, Reachable
    <2>5. CASE Resend(p, t)
      <3>1. functions' = functions /\ adding' = adding
        BY <2>5 DEF Resend
      <3>2. CASE Send(p, functions[p][resendIx[p]].key) /\ resendIx' = [resendIx EXCEPT ![p] = @ + 1]
                 /\ UNCHANGED <<lock, app, svc>>
        BY <1>1, <3>1, <3>2 DEF Send, Same, Reachable
      <3>3. CASE SendFails(p) /\ Return(p, t) /\ UNCHANGED resendIx
        BY <1>1, <3>1, <3>3 DEF SendFails, Return, Goto, Same, Reachable
      <3> QED
        BY <2>5, <3>2, <3>3 DEF Resend
    <2>6. CASE Reconnected(p, t)
      BY <1>1, <2>6 DEF Reconnected, Return, Goto, Same, Reachable, netVars
    <2> QED
      BY <1>1, <2>1, <2>2, <2>3, <2>4, <2>5, <2>6 DEF Reconnect
  <1>2. ASSUME NEW p \in Owners, p # o,
               (\E f \in Function : CallRegister(p, f)) \/ Insert(p) \/ Announce(p)
        PROVE  Same(o)
    <2>1. CASE \E f \in Function : CallRegister(p, f)
      BY <1>2, <2>1 DEF CallRegister, Same, Reachable, netVars
    <2>2. CASE Insert(p)
      BY <1>2, <2>2 DEF Insert, EndRegister, Goto, Same, Reachable, netVars
    <2>3. CASE Announce(p)
      BY <1>2, <2>3 DEF Announce, EndRegister, Send, SendFails, Same, Reachable
    <2> QED
      BY <1>2, <2>1, <2>2, <2>3
  <1>3. ASSUME NEW p \in Owners, p # o, Service(p) \/ Exit(p) PROVE Same(o)
    <2>1. CASE TimedOut(p) \/ LockForReconnect(p) \/ Clear(p)
      BY <1>3, <2>1 DEF TimedOut, LockForReconnect, Clear, Same, Reachable, netVars
    <2>2. ASSUME NEW c \in Conns, ConnectionLost(p, c) PROVE Same(o)
      BY <1>3, <2>2 DEF ConnectionLost, LostHandle, Same, Reachable
    <2>3. CASE Exit(p)
      BY <1>3, <2>3 DEF Exit, Same, Reachable
    <2> QED
      BY <1>3, <2>1, <2>2, <2>3 DEF Service
  <1>4. CASE (\E c \in Conns : NsRegister(c) \/ NsDisconnect(c)) \/ NsCrash \/ NsStart \/ UNCHANGED vars
    BY <1>4 DEF NsRegister, NsDisconnect, NsCrash, NsStart, vars, threadVars, netVars, Same, Reachable
  <1> QED
    BY <1>1, <1>2, <1>3, <1>4 DEF Next, OwnStep

\* The type of the directory.
LEMMA NextDirTyped == IInv /\ DirTyped /\ [Next]_vars => DirTyped'
  <1> SUFFICES ASSUME IInv, DirTyped, [Next]_vars PROVE DirTyped'
    OBVIOUS
  <1>0. ProcessesOK
    BY DEF IInv
  <1>1. CASE UNCHANGED dir
    BY <1>1 DEF DirTyped
  <1>2. CASE NsCrash
    <2>1. dir' = [k \in Keys |-> <<>>] /\ <<>> \in Seq(Entry)
      BY <1>2 DEF NsCrash
    <2> QED
      BY <2>1 DEF DirTyped
  <1> QED
    BY <1>0, <1>1, <1>2, NetStep, RegisterStep, DisconnectStep

\* Every step keeps everything told on a working handle, or about to be.
LEMMA NextTold == ToldInv /\ [Next]_vars => ToldOnHandle'
  <1> SUFFICES ASSUME ToldInv, [Next]_vars, NEW o \in Owners, Reachable(o)',
                      NEW i \in DOMAIN functions'[o], ~StillToTell(o, i)'
               PROVE  Told(nsHandle[o], functions[o][i].key)'
    BY DEF ToldOnHandle
  <1>0. IInv /\ DirTyped /\ ToldOnHandle /\ ProcessesOK /\ ThreadsOK /\ ProcessesOK'
    BY NextProcessesOK DEF ToldInv, IInv
  <1>1. nsHandle'[o] \in Conns /\ nsHandle'[o] \in ownerOpen' /\ nsHandle'[o] \in nsOpen'
        /\ nsHandle'[o] # NoConn
    BY <1>0, OwnerAssumption DEF Reachable, ProcessesOK
  <1>2. ASSUME nsHandle'[o] = nsHandle[o], Reachable(o),
               NEW j \in DOMAIN functions[o], functions'[o][i] = functions[o][j], ~StillToTell(o, j)
        PROVE  Told(nsHandle[o], functions[o][i].key)'
    <2>1. Told(nsHandle[o], functions[o][j].key)
      BY <1>0, <1>2 DEF ToldOnHandle
    <2>2. functions[o] \in Seq(Function)
      BY <1>0 DEF ProcessesOK
    <2>3. functions[o][j] \in Function
      BY <2>2
    <2>4. functions[o][j].key \in Keys
      BY <2>3, FunctionKeys
    <2> DEFINE c == nsHandle[o]
               k == functions[o][j].key
    <2>5. c \in Conns /\ c \in ownerOpen /\ c \in nsOpen' /\ k \in Keys /\ Told(c, k)
      BY <1>1, <1>2, <2>1, <2>4 DEF Reachable
    <2>6. nsHandle'[o] = c /\ functions'[o][i].key = k
      BY <1>2
    <2> HIDE DEF c, k
    <2>7. (\E n \in DOMAIN dir'[k] : dir'[k][n].fd = c) \/ Has(chan'[c], k)
      BY <1>0, <2>5, ToldKept
    <2> QED
      BY <2>6, <2>7 DEF Told, RegisteredOn, SentOn, Has
  <1>3. ASSUME NEW t \in Threads, NEW l \in {"connect", "add"}, At(o, t, l)' PROVE FALSE
    BY <1>3 DEF StillToTell
  <1>4. CASE Same(o)
    <2>1. ~StillToTell(o, i)
      BY <1>4 DEF Same, StillToTell, At
    <2> QED
      BY <1>2, <1>4, <2>1 DEF Same
  <1>5. ASSUME NEW t \in Threads, Reconnect(o, t) PROVE Told(nsHandle[o], functions[o][i].key)'
    <2>0. t \in {"app", "svc"}
      BY DEF Threads
    <2>1. CASE Connect(o, t)
      <3>1. At(o, t, "add")'
        BY <1>0, <2>0, <2>1 DEF Connect, At, Goto, ProcessesOK
      <3> QED
        BY <1>3, <3>1
    <2>2. CASE ConnectFails(o, t)
      BY <1>0, <1>1, <2>2 DEF ConnectFails, ProcessesOK
    <2>3. CASE AddClient(o, t)
      <3>1. At(o, t, "resend")' /\ resendIx'[o] = 1
        BY <1>0, <2>0, <2>3 DEF AddClient, At, Goto, ProcessesOK, FirstResent
      <3>2. functions'[o] \in Seq(Function)
        BY <1>0 DEF ProcessesOK
      <3>3. i >= 1
        BY <3>2
      <3> QED
        BY <3>1, <3>3 DEF StillToTell
    <2>4. CASE AddClientFails(o, t)
      BY <1>0, <1>1, <2>4 DEF AddClientFails, ProcessesOK
    <2>5. CASE Resend(o, t)
      <3>1. /\ functions' = functions /\ At(o, t, "resend")
            /\ resendIx[o] \in Nat /\ functions[o] \in Seq(Function) /\ resendIx[o] \in DOMAIN functions[o]
        BY <1>0, <2>5 DEF Resend, ProcessesOK
      <3>2. CASE Send(o, functions[o][resendIx[o]].key) /\ resendIx' = [resendIx EXCEPT ![o] = @ + 1]
                 /\ UNCHANGED <<lock, app, svc>>
        <4>1. resendIx'[o] = resendIx[o] + 1 /\ At(o, t, "resend")'
          BY <1>0, <3>1, <3>2 DEF ProcessesOK, At
        <4>2. i < resendIx[o] + 1 /\ i \in Nat
          BY <3>1, <4>1 DEF StillToTell
        <4>3. functions[o][resendIx[o]] \in Function
          BY <3>1
        <4>4. functions[o][resendIx[o]].key \in Keys
          BY <4>3, FunctionKeys
        <4>5. nsHandle' = nsHandle /\ Reachable(o)
          BY <3>2 DEF Send
        <4>6. CASE i = resendIx[o]
          <5>1. Has(chan'[nsHandle[o]], functions[o][resendIx[o]].key)
            BY <1>0, <3>2, <4>4, SendStep
          <5>2. Has(chan'[nsHandle'[o]], functions'[o][i].key)
            BY <3>1, <4>5, <4>6, <5>1
          <5> QED
            BY <5>2 DEF Told, SentOn, Has
        <4>7. CASE i # resendIx[o]
          <5>1. ~(i >= resendIx[o])
            BY <3>1, <4>2, <4>7
          <5>2. ~StillToTell(o, i)
            BY <2>0, <3>1, <5>1 DEF StillToTell, At, Threads
          <5> QED
            BY <1>2, <3>1, <4>5, <5>2
        <4> QED
          BY <4>6, <4>7
      <3>3. CASE SendFails(o)
        BY <1>0, <1>1, <3>3 DEF SendFails, ProcessesOK
      <3> QED
        BY <2>5, <3>2, <3>3 DEF Resend
    <2>6. CASE Reconnected(o, t)
      <3>1. /\ UNCHANGED <<functions, nsHandle, netVars>> /\ At(o, t, "resend")
            /\ resendIx[o] \in Nat /\ functions[o] \in Seq(Function) /\ resendIx[o] > Len(functions[o])
        BY <1>0, <2>6 DEF Reconnected, ProcessesOK
      <3>2. ~(i >= resendIx[o])
        BY <3>1
      <3>3. ~StillToTell(o, i)
        BY <2>0, <3>1, <3>2 DEF StillToTell, At, Threads
      <3> QED
        BY <1>2, <3>1, <3>3 DEF netVars, Reachable
    <2> QED
      BY <1>5, <2>1, <2>2, <2>3, <2>4, <2>5, <2>6 DEF Reconnect
  <1>6. ASSUME NEW f \in Function, CallRegister(o, f) PROVE Told(nsHandle[o], functions[o][i].key)'
    <2>1. UNCHANGED <<functions, nsHandle, netVars>> /\ lock[o] = "free"
      BY <1>6 DEF CallRegister
    <2>2. ~StillToTell(o, i)
      BY <2>1 DEF StillToTell, At, Threads
    <2> QED
      BY <1>2, <2>1, <2>2 DEF netVars, Reachable
  <1>7. CASE Insert(o)
    <2>1. /\ UNCHANGED <<nsHandle, netVars>> /\ At(o, "app", "insert") /\ nsHandle[o] # NoConn
          /\ Goto(o, "app", "announce") /\ adding' = adding
      BY <1>1, <1>7 DEF Insert
    <2>2. PICK fs \in insert_functions(functions[o], adding[o]) : functions' = [functions EXCEPT ![o] = fs]
      BY <1>7 DEF Insert
    <2>3. functions'[o] = fs /\ functions[o] \in Seq(Function)
      BY <1>0, <2>2 DEF ProcessesOK
    <2>4. fs[i] = adding[o] \/ \E j \in DOMAIN functions[o] : fs[i] = functions[o][j]
      <3>1. PICK m \in 1..(Len(functions[o]) + 1) : fs = InsertBefore(functions[o], m, adding[o])
        BY <2>2 DEF insert_functions
      <3>2. i \in 1..(Len(functions[o]) + 1)
        BY <2>3, <3>1 DEF InsertBefore
      <3>3. fs[i] = IF i < m THEN functions[o][i] ELSE IF i = m THEN adding[o] ELSE functions[o][i - 1]
        BY <3>1, <3>2 DEF InsertBefore
      <3>4. (i < m => i \in DOMAIN functions[o]) /\ (i > m => i - 1 \in DOMAIN functions[o])
        BY <2>3, <3>1, <3>2
      <3> QED
        BY <3>2, <3>3, <3>4
    <2>5. CASE fs[i] = adding[o]
      <3>1. At(o, "app", "announce")'
        BY <1>0, <2>1 DEF At, Goto, ProcessesOK
      <3>2. functions'[o][i].key = adding'[o].key
        BY <2>1, <2>3, <2>5
      <3> QED
        BY <3>1, <3>2 DEF StillToTell
    <2>6. ASSUME NEW j \in DOMAIN functions[o], fs[i] = functions[o][j]
          PROVE  Told(nsHandle[o], functions[o][i].key)'
      <3>1. ~StillToTell(o, j)
        BY <2>1 DEF StillToTell, At, Threads
      <3> QED
        BY <1>2, <2>1, <2>3, <2>6, <3>1 DEF netVars, Reachable
    <2> QED
      BY <2>4, <2>5, <2>6
  <1>8. CASE Announce(o)
    <2>1. functions' = functions /\ At(o, "app", "announce") /\ adding[o] \in Function
      BY <1>0, <1>8 DEF Announce, At, ThreadsOK, ProcessesOK
    <2>2. CASE Send(o, adding[o].key)
      <3>1. nsHandle' = nsHandle /\ Reachable(o) /\ adding[o].key \in Keys
        BY <2>1, <2>2, FunctionKeys DEF Send
      <3>2. CASE functions[o][i].key = adding[o].key
        <4>1. Has(chan'[nsHandle[o]], adding[o].key)
          BY <1>0, <2>2, <3>1, SendStep
        <4>2. Has(chan'[nsHandle'[o]], functions'[o][i].key)
          BY <2>1, <3>1, <3>2, <4>1
        <4> QED
          BY <4>2 DEF Told, SentOn, Has
      <3>3. CASE functions[o][i].key # adding[o].key
        <4>1. ~StillToTell(o, i)
          BY <2>1, <3>3 DEF StillToTell, At, Threads
        <4> QED
          BY <1>2, <2>1, <3>1, <4>1
      <3> QED
        BY <3>2, <3>3
    <2>3. CASE SendFails(o)
      BY <1>0, <1>1, <2>3 DEF SendFails, ProcessesOK
    <2> QED
      BY <1>8, <2>2, <2>3 DEF Announce
  <1>9. CASE Service(o)
    <2>1. CASE TimedOut(o)
      <3>1. UNCHANGED <<functions, nsHandle, lock, app, adding, resendIx, netVars>>
            /\ svc[o] = "poll" /\ svc'[o] = "reconnect"
        BY <1>0, <2>1 DEF TimedOut, ProcessesOK
      <3>2. ~StillToTell(o, i)
        BY <3>1 DEF StillToTell, At, Threads
      <3> QED
        BY <1>2, <3>1, <3>2 DEF netVars, Reachable
    <2>2. CASE LockForReconnect(o)
      <3>1. At(o, "svc", "connect")'
        BY <1>0, <2>2 DEF LockForReconnect, At, ProcessesOK
      <3> QED
        BY <1>3, <3>1 DEF Threads
    <2>3. ASSUME NEW c \in Conns, ConnectionLost(o, c) PROVE Told(nsHandle[o], functions[o][i].key)'
      <3>1. /\ UNCHANGED <<functions, nsHandle, lock, app, adding, resendIx>>
            /\ svc[o] = "poll" /\ svc'[o] \in {"poll", "clear"}
            /\ ownerOpen' = ownerOpen \ {c} /\ nsOpen' = nsOpen
        BY <1>0, <2>3 DEF ConnectionLost, LostHandle, ProcessesOK
      <3>2. ~StillToTell(o, i)
        BY <3>1 DEF StillToTell, At, Threads
      <3> QED
        BY <1>2, <3>1, <3>2 DEF Reachable
    <2>4. CASE Clear(o)
      BY <1>0, <1>1, <2>4 DEF Clear, ProcessesOK
    <2> QED
      BY <1>9, <2>1, <2>2, <2>3, <2>4 DEF Service
  <1>10. CASE Exit(o)
    BY <1>0, <1>1, <1>10 DEF Exit, ProcessesOK
  <1> QED
    BY <1>0, <1>4, <1>5, <1>6, <1>7, <1>8, <1>9, <1>10, OthersLeave DEF OwnStep

\* At the start nothing is registered and there is no handle.
LEMMA InitTold == Init => ToldInv
  <1> SUFFICES ASSUME Init PROVE ToldInv
    OBVIOUS
  <1>1. DirTyped
    <2>1. dir = [k \in Keys |-> <<>>] /\ <<>> \in Seq(Entry)
      BY DEF Init, Directory!Init
    <2> QED
      BY <2>1 DEF DirTyped
  <1>2. ToldOnHandle
    BY DEF Init, ToldOnHandle
  <1> QED
    BY <1>1, <1>2, InitIInv DEF ToldInv

\* For any applications, keys, connections and bounds: an application that holds
\* a working handle, and whose lock is free, has told the name service on it of
\* all its functions, although both of its threads reconnect, the name service
\* crashes and numbers of connections are used again.
THEOREM AllTold == Spec => []AnnouncedOnHandle
  <1>1. ToldInv /\ [Next]_vars => ToldInv'
    BY NextProcessesOK, NextThreadsOK, NextOrdered, NextDirTyped, NextTold DEF ToldInv, IInv
  <1>2. ToldInv => AnnouncedOnHandle
    BY DEF ToldInv, ToldOnHandle, AnnouncedOnHandle, StillToTell, At, Threads, Told
  <1> QED
    BY <1>1, <1>2, InitTold, PTL DEF Spec

-----------------------------------------------------------------------------
(* What the directory names is served *)

\* An application keeps its functions until it ends, and its end closes all its
\* connections.
LEMMA KeysKept ==
    ASSUME IInv, [Next]_vars, NEW o \in Owners, NEW k, HasKey(o, k)
    PROVE  HasKey(o, k)' \/ Exit(o)
  <1> USE DEF IInv, ProcessesOK
  <1>1. CASE functions'[o] = functions[o]
    BY <1>1 DEF HasKey
  <1>2. CASE Insert(o)
    <2>1. PICK fs \in insert_functions(functions[o], adding[o]) : functions' = [functions EXCEPT ![o] = fs]
      BY <1>2 DEF Insert
    <2>2. functions'[o] = fs /\ functions[o] \in Seq(Function)
      BY <2>1
    <2>3. PICK m \in 1..(Len(functions[o]) + 1) : fs = InsertBefore(functions[o], m, adding[o])
      BY <2>1 DEF insert_functions
    <2>4. PICK j \in DOMAIN functions[o] : functions[o][j].key = k
      BY DEF HasKey
    <2>5. CASE j < m
      <3>1. j \in DOMAIN fs /\ fs[j] = functions[o][j]
        BY <2>2, <2>3, <2>5 DEF InsertBefore
      <3> QED
        BY <2>2, <2>4, <3>1 DEF HasKey
    <2>6. CASE ~(j < m)
      <3>1. j + 1 \in DOMAIN fs /\ fs[j + 1] = functions[o][j]
        <4>1. j + 1 \in 1..(Len(functions[o]) + 1) /\ ~(j + 1 < m) /\ j + 1 # m /\ (j + 1) - 1 = j
          BY <2>2, <2>6
        <4> QED
          BY <2>3, <4>1 DEF InsertBefore
      <3> QED
        BY <2>2, <2>4, <3>1 DEF HasKey
    <2> QED
      BY <2>5, <2>6
  <1>3. OwnStep(o) => Insert(o) \/ Exit(o) \/ functions' = functions
    BY DEF OwnStep, Reconnect, Service, Connect, ConnectFails, AddClient, AddClientFails, Resend,
           Reconnected, CallRegister, Announce, TimedOut, LockForReconnect, ConnectionLost, Clear
  <1> QED
    BY <1>1, <1>2, <1>3, OthersLeave DEF Same

\* Only a new connection is added to the open ones, or changes its application.
LEMMA OpenKept ==
    ASSUME IInv, [Next]_vars
    PROVE  \/ \E o \in Owners, t \in Threads : Connect(o, t)
           \/ /\ ownerOpen' \subseteq ownerOpen /\ peer' = peer
              /\ \A o \in Owners : nsHandle'[o] = nsHandle[o] \/ nsHandle'[o] = NoConn
              /\ nsOpen' = nsOpen \/ NsCrash \/ \E c \in Conns : NsDisconnect(c)
  <1> USE DEF IInv, ProcessesOK
  <1>1. ASSUME NEW o \in Owners, NEW t \in Threads, Reconnect(o, t), ~Connect(o, t)
        PROVE  /\ ownerOpen' \subseteq ownerOpen /\ peer' = peer /\ nsOpen' = nsOpen
               /\ nsHandle' = nsHandle \/ nsHandle' = [nsHandle EXCEPT ![o] = NoConn]
    BY <1>1 DEF Reconnect, ConnectFails, AddClient, AddClientFails, Resend, Reconnected, Send, SendFails, netVars
  <1>2. ASSUME NEW o \in Owners,
               (\E f \in Function : CallRegister(o, f)) \/ Insert(o) \/ Announce(o) \/ Service(o) \/ Exit(o)
        PROVE  /\ ownerOpen' \subseteq ownerOpen /\ peer' = peer /\ nsOpen' = nsOpen
               /\ nsHandle' = nsHandle \/ nsHandle' = [nsHandle EXCEPT ![o] = NoConn]
    BY <1>2 DEF CallRegister, Insert, Announce, Service, Exit, TimedOut, LockForReconnect, ConnectionLost, Clear,
                Send, SendFails, netVars
  <1>3. CASE (\E c \in Conns : NsRegister(c) \/ NsDisconnect(c)) \/ NsCrash \/ NsStart \/ UNCHANGED vars
    BY <1>3 DEF NsRegister, NsDisconnect, NsCrash, NsStart, vars, netVars
  <1> QED
    BY <1>1, <1>2, <1>3 DEF Next

\* The function being announced is in the list.
LEMMA NextAnnounced ==
    ASSUME RouteInv, [Next]_vars, NEW o \in Owners, app'[o] = "announce"
    PROVE  HasKey(o, adding[o].key)'
  <1>0. IInv /\ ToldByOwner /\ ProcessesOK
    BY DEF RouteInv, ToldInv, IInv
  <1>1. CASE Insert(o)
    <2>1. PICK fs \in insert_functions(functions[o], adding[o]) : functions' = [functions EXCEPT ![o] = fs]
      BY <1>1 DEF Insert
    <2>2. functions'[o] = fs /\ functions[o] \in Seq(Function)
      BY <1>0, <2>1 DEF ProcessesOK
    <2>3. PICK m \in 1..(Len(functions[o]) + 1) : fs = InsertBefore(functions[o], m, adding[o])
      BY <2>1 DEF insert_functions
    <2>4. m \in DOMAIN fs /\ fs[m] = adding[o]
      BY <2>2, <2>3 DEF InsertBefore
    <2>5. adding' = adding
      BY <1>0, <1>1 DEF Insert, EndRegister, ProcessesOK
    <2>6. functions'[o][m].key = adding'[o].key /\ m \in DOMAIN functions'[o]
      BY <2>2, <2>4, <2>5
    <2> QED
      BY <2>6 DEF HasKey
  <1>2. CASE ~Insert(o)
    <2>1. app[o] = "announce" /\ adding'[o] = adding[o] /\ functions'[o] = functions[o]
      <3>1. CASE Same(o)
        BY <3>1 DEF Same
      <3>2. ASSUME NEW t \in Threads, Reconnect(o, t)
            PROVE  app[o] = "announce" /\ adding'[o] = adding[o] /\ functions'[o] = functions[o]
        <4>1. t \in {"app", "svc"}
          BY DEF Threads
        <4>2. UNCHANGED <<adding, functions>>
          BY <3>2 DEF Reconnect, Connect, ConnectFails, AddClient, AddClientFails, Resend, Reconnected
        <4>3. Goto(o, t, "add") \/ Goto(o, t, "resend") \/ Return(o, t) \/ UNCHANGED app
          BY <3>2 DEF Reconnect, Connect, ConnectFails, AddClient, AddClientFails, Resend, Reconnected
        <4>4. app[o] = "announce"
          BY <1>0, <4>1, <4>3 DEF Goto, Return, ProcessesOK
        <4> QED
          BY <4>2, <4>4
      <3>3. CASE (\E f \in Function : CallRegister(o, f)) \/ Announce(o) \/ Exit(o)
        BY <1>0, <3>3 DEF CallRegister, Announce, EndRegister, Exit, ProcessesOK
      <3>4. CASE Service(o)
        BY <3>4 DEF Service, TimedOut, LockForReconnect, ConnectionLost, Clear
      <3> QED
        BY <1>0, <1>2, <3>1, <3>2, <3>3, <3>4, OthersLeave DEF OwnStep
    <2> QED
      BY <1>0, <2>1 DEF ToldByOwner, HasKey
  <1> QED
    BY <1>1, <1>2

\* Every step keeps what the name service knows, and will know, of an open
\* connection to what its application serves.
LEMMA NextToldByOwner == RouteInv /\ [Next]_vars => ToldByOwner'
  <1> SUFFICES ASSUME RouteInv, [Next]_vars PROVE ToldByOwner'
    OBVIOUS
  <1>0. IInv /\ DirTyped /\ ToldByOwner /\ ProcessesOK
    BY DEF RouteInv, ToldInv, IInv
  <1> DEFINE Knows(e, k) == /\ e.fd \in nsOpen /\ e.addr = peer[e.fd]
                            /\ e.fd \in ownerOpen => HasKey(peer[e.fd], k)
             Reads(c, k) == c \in nsOpen /\ (c \in ownerOpen => HasKey(peer[c], k))
  <1>1. /\ \A c \in ownerOpen \cup nsOpen : peer[c] \in Owners
        /\ \A o \in Owners : nsHandle[o] \in ownerOpen => peer[nsHandle[o]] = o
        /\ \A o \in Owners : app[o] = "announce" => HasKey(o, adding[o].key)
        /\ \A k \in Keys, e \in Entry : Has(dir[k], e) => Knows(e, k)
        /\ \A c \in Conns, k \in Keys : Has(chan[c], k) => Reads(c, k)
    BY <1>0 DEF ToldByOwner
  <1>2. \A o \in Owners : app'[o] = "announce" => HasKey(o, adding[o].key)'
    BY NextAnnounced
  <1>3. ASSUME NEW c \in ownerOpen, NEW k, HasKey(peer[c], k), peer'[c] = peer[c], c \in ownerOpen'
        PROVE  HasKey(peer[c], k)'
    <2>1. peer[c] \in Owners
      BY <1>1
    <2>2. ~Exit(peer[c])
      BY <1>3 DEF Exit
    <2>3. PICK o \in Owners : o = peer[c] /\ o = peer'[c]
      BY <1>3, <2>1
    <2>4. HasKey(o, k)'
      BY <1>0, <1>3, <2>2, <2>3, KeysKept
    <2> QED
      BY <2>3, <2>4 DEF HasKey
  <1>4. ASSUME NEW o \in Owners, NEW t \in Threads, Connect(o, t) PROVE ToldByOwner'
    <2>1. PICK c \in Conns :
              /\ Fresh(c)
              /\ nsHandle' = [nsHandle EXCEPT ![o] = c] /\ peer' = [peer EXCEPT ![c] = o]
              /\ ownerOpen' = ownerOpen \cup {c} /\ nsOpen' = nsOpen \cup {c}
      BY <1>4 DEF Connect
    <2>2. UNCHANGED <<dir, chan>>
      BY <1>4 DEF Connect, nsVars
    <2>3. c \notin ownerOpen /\ c \notin nsOpen /\ \A p \in Owners : nsHandle[p] # c
      BY <2>1 DEF Fresh
    <2>4. peer'[c] = o /\ \A d \in Conns : d # c => peer'[d] = peer[d]
      BY <1>0, <2>1 DEF ProcessesOK
    <2>5. \A d \in ownerOpen \cup nsOpen : d # c /\ d \in Conns /\ peer'[d] = peer[d]
      BY <1>0, <2>3, <2>4 DEF ProcessesOK
    <2>6. \A d \in (ownerOpen \cup nsOpen)' : peer'[d] \in Owners
      BY <1>1, <2>1, <2>4, <2>5
    <2>7. \A p \in Owners : nsHandle'[p] \in ownerOpen' => peer'[nsHandle'[p]] = p
      <3> SUFFICES ASSUME NEW p \in Owners, nsHandle'[p] \in ownerOpen' PROVE peer'[nsHandle'[p]] = p
        OBVIOUS
      <3>1. CASE p = o
        BY <1>0, <2>1, <2>4, <3>1 DEF ProcessesOK
      <3>2. CASE p # o
        <4>1. nsHandle'[p] = nsHandle[p] /\ nsHandle[p] \in ownerOpen
          BY <1>0, <2>1, <2>3, <3>2 DEF ProcessesOK
        <4> QED
          BY <1>1, <2>5, <4>1
      <3> QED
        BY <3>1, <3>2
    <2>8. \A k \in Keys, e \in Entry : Has(dir'[k], e) => Knows(e, k)'
      <3> SUFFICES ASSUME NEW k \in Keys, NEW e \in Entry, Has(dir[k], e) PROVE Knows(e, k)'
        BY <2>2
      <3>1. Knows(e, k) /\ e.fd # c /\ peer'[e.fd] = peer[e.fd]
        BY <1>1, <2>5
      <3>2. e.fd \in ownerOpen' => HasKey(peer[e.fd], k)'
        BY <1>3, <2>1, <3>1
      <3> QED
        BY <2>1, <3>1, <3>2
    <2>9. \A d \in Conns, k \in Keys : Has(chan'[d], k) => Reads(d, k)'
      <3> SUFFICES ASSUME NEW d \in Conns, NEW k \in Keys, Has(chan[d], k) PROVE Reads(d, k)'
        BY <2>2
      <3>1. Reads(d, k) /\ d # c /\ peer'[d] = peer[d]
        BY <1>1, <2>5
      <3>2. d \in ownerOpen' => HasKey(peer[d], k)'
        BY <1>3, <2>1, <3>1
      <3> QED
        BY <2>1, <3>1, <3>2
    <2> QED
      BY <1>2, <2>6, <2>7, <2>8, <2>9 DEF ToldByOwner
  <1>5. ASSUME ownerOpen' \subseteq ownerOpen, peer' = peer,
               \A o \in Owners : nsHandle'[o] = nsHandle[o] \/ nsHandle'[o] = NoConn,
               nsOpen' = nsOpen \/ NsCrash \/ \E c \in Conns : NsDisconnect(c)
        PROVE  ToldByOwner'
    <2>1. nsOpen' \subseteq nsOpen /\ NoConn \notin ownerOpen
      BY <1>0, <1>5, OwnerAssumption DEF NsCrash, NsDisconnect, ProcessesOK
    <2>2. \A d \in (ownerOpen \cup nsOpen)' : peer'[d] \in Owners
      BY <1>1, <1>5, <2>1
    <2>3. \A p \in Owners : nsHandle'[p] \in ownerOpen' => peer'[nsHandle'[p]] = p
      BY <1>1, <1>5, <2>1
    <2>4. ASSUME NEW k \in Keys, NEW e \in Entry, Knows(e, k), e.fd \in nsOpen' PROVE Knows(e, k)'
      BY <1>3, <1>5, <2>4
    <2>5. ASSUME NEW d \in Conns, NEW k \in Keys, Reads(d, k), d \in nsOpen' PROVE Reads(d, k)'
      BY <1>3, <1>5, <2>5
    <2> HIDE DEF Knows, Reads
    <2>6. CASE nsOpen' = nsOpen /\ UNCHANGED <<dir, chan>>
      <3>1. \A k \in Keys, e \in Entry : Has(dir'[k], e) => Knows(e, k)'
        BY <1>1, <2>4, <2>6 DEF Knows
      <3>2. \A d \in Conns, k \in Keys : Has(chan'[d], k) => Reads(d, k)'
        BY <1>1, <2>5, <2>6 DEF Reads
      <3> QED
        BY <1>2, <2>2, <2>3, <3>1, <3>2 DEF ToldByOwner, Knows, Reads
    <2>7. ASSUME UNCHANGED dir, NEW o \in Owners, SendsFrom(o) PROVE ToldByOwner'
      <3>1. PICK key \in Keys : Send(o, key) /\ HasKey(o, key)
        <4>1. CASE \E t \in Threads : /\ Resend(o, t) /\ resendIx[o] \in DOMAIN functions[o]
                                      /\ Send(o, functions[o][resendIx[o]].key)
          <5>1. functions[o] \in Seq(Function)
            BY <1>0 DEF ProcessesOK
          <5>2. functions[o][resendIx[o]].key \in Keys
            BY <4>1, <5>1, FunctionKeys
          <5> QED
            BY <4>1, <5>2 DEF HasKey
        <4>2. CASE Announce(o) /\ adding[o] \in Function /\ Send(o, adding[o].key)
          <5>1. app[o] = "announce"
            BY <4>2 DEF Announce, At
          <5> QED
            BY <1>1, <4>2, <5>1, FunctionKeys
        <4> QED
          BY <2>7, <4>1, <4>2 DEF SendsFrom
      <3> DEFINE c == nsHandle[o]
      <3>2. /\ c \in Conns /\ c \in ownerOpen /\ c \in nsOpen
            /\ \A d \in Conns : \A k : Has(chan'[d], k) <=> Has(chan[d], k) \/ (d = c /\ k = key)
            /\ UNCHANGED <<ownerOpen, nsOpen>>
        BY <1>0, <3>1, SendStep
      <3>3. Reads(c, key)
        BY <1>1, <3>1, <3>2 DEF Reads
      <3>4. \A k \in Keys, e \in Entry : Has(dir'[k], e) => Knows(e, k)'
        BY <1>1, <2>4, <2>7, <3>2 DEF Knows
      <3> HIDE DEF c
      <3>5. \A d \in Conns, k \in Keys : Has(chan'[d], k) => Reads(d, k)'
        BY <1>1, <2>5, <3>2, <3>3 DEF Reads
      <3> QED
        BY <1>2, <2>2, <2>3, <3>4, <3>5 DEF ToldByOwner, Knows, Reads
    <2>8. ASSUME NEW c \in Conns, NsRegister(c) PROVE ToldByOwner'
      <3> DEFINE x == [addr |-> peer[c], fd |-> c]
                 h == Head(chan[c])
      <3>1. /\ Has(chan[c], h) /\ h \in Keys /\ x \in Entry /\ x.fd = c /\ x.addr = peer[c]
            /\ \A k \in Keys : \A e : Has(dir'[k], e) <=> Has(dir[k], e) \/ (k = h /\ e = x)
            /\ \A d \in Conns : d # c => chan'[d] = chan[d]
            /\ \A k : Has(chan[c], k) <=> Has(chan'[c], k) \/ k = h
        BY <1>0, <2>8, RegisterStep
      <3>2. nsOpen' = nsOpen
        BY <2>8 DEF NsRegister
      <3> HIDE DEF x, h
      <3>3. Reads(c, h)
        BY <1>1, <3>1
      <3>4. Knows(x, h)
        BY <3>1, <3>3 DEF Knows, Reads
      <3>5. \A k \in Keys, e \in Entry : Has(dir'[k], e) => Knows(e, k) /\ e.fd \in nsOpen'
        BY <1>1, <3>1, <3>2, <3>4 DEF Knows
      <3>6. \A k \in Keys, e \in Entry : Has(dir'[k], e) => Knows(e, k)'
        BY <2>4, <3>5
      <3>7. \A d \in Conns, k \in Keys : Has(chan'[d], k) => Reads(d, k) /\ d \in nsOpen'
        BY <1>1, <3>1, <3>2 DEF Reads
      <3>8. \A d \in Conns, k \in Keys : Has(chan'[d], k) => Reads(d, k)'
        BY <2>5, <3>7
      <3> QED
        BY <1>2, <2>2, <2>3, <3>6, <3>8 DEF ToldByOwner, Knows, Reads
    <2>9. ASSUME NEW c \in Conns, NsDisconnect(c) PROVE ToldByOwner'
      <3>1. /\ nsOpen' = nsOpen \ {c} /\ chan' = chan /\ chan[c] = <<>>
            /\ \A k \in Keys, e \in Entry : Has(dir'[k], e) <=> Has(dir[k], e) /\ e.fd # c
        BY <1>0, <2>9, DisconnectStep
      <3>2. \A k : ~Has(chan[c], k)
        BY <3>1 DEF Has
      <3>3. \A k \in Keys, e \in Entry : Has(dir'[k], e) => Knows(e, k) /\ e.fd \in nsOpen'
        BY <1>1, <3>1 DEF Knows
      <3>4. \A d \in Conns, k \in Keys : Has(chan'[d], k) => Reads(d, k) /\ d \in nsOpen'
        BY <1>1, <3>1, <3>2 DEF Reads
      <3>5. \A k \in Keys, e \in Entry : Has(dir'[k], e) => Knows(e, k)'
        BY <2>4, <3>3
      <3>6. \A d \in Conns, k \in Keys : Has(chan'[d], k) => Reads(d, k)'
        BY <2>5, <3>4
      <3> QED
        BY <1>2, <2>2, <2>3, <3>5, <3>6 DEF ToldByOwner, Knows, Reads
    <2>10. CASE NsCrash
      <3>1. dir' = [k \in Keys |-> <<>>] /\ chan' = [c \in Conns |-> <<>>]
        BY <2>10 DEF NsCrash
      <3>2. (\A k \in Keys : \A e : ~Has(dir'[k], e)) /\ (\A c \in Conns : \A k : ~Has(chan'[c], k))
        BY <3>1 DEF Has
      <3> QED
        BY <1>2, <2>2, <2>3, <3>2 DEF ToldByOwner
    <2> QED
      BY <1>0, <1>5, <2>6, <2>7, <2>8, <2>9, <2>10, NetStep
  <1> QED
    BY <1>0, <1>4, <1>5, OpenKept

\* At the start there is no connection.
LEMMA InitRoute == Init => RouteInv
  <1> SUFFICES ASSUME Init PROVE RouteInv
    OBVIOUS
  <1>1. /\ ownerOpen = {} /\ nsOpen = {} /\ app = [o \in Owners |-> "connect"]
        /\ dir = [k \in Keys |-> <<>>] /\ chan = [c \in Conns |-> <<>>]
    BY DEF Init, Directory!Init
  <1>2. ~\E o \in Owners : app[o] = "announce"
    BY <1>1
  <1>3. (\A k \in Keys : \A e : ~Has(dir[k], e)) /\ (\A c \in Conns : \A k : ~Has(chan[c], k))
    BY <1>1 DEF Has
  <1>4. ToldByOwner
    BY <1>1, <1>2, <1>3 DEF ToldByOwner
  <1> QED
    BY <1>4, InitTold DEF RouteInv

-----------------------------------------------------------------------------
(* The end-to-end route of a request *)

\* The query of the name service and the dispatch of the application mean the
\* same by a prefix.
LEMMA SamePrefix ==
    ASSUME NEW k \in Seq(Nat), NEW q \in Seq(Nat)
    PROVE  IsPrefix(k, q) <=> Len(k) <= Len(q) /\ k = SubSeq(q, 1, Len(k))
  <1>1. CASE Len(k) <= Len(q)
    <2> DEFINE s == SubSeq(q, 1, Len(k))
    <2>1. s \in Seq(Nat) /\ Len(s) = Len(k) /\ \A n \in 1..Len(k) : s[n] = q[n]
      BY <1>1
    <2> HIDE DEF s
    <2>2. (\A n \in 1..Len(k) : k[n] = s[n]) => k = s
      BY <2>1, SeqEqual
    <2>3. k = s <=> \A n \in 1..Len(k) : k[n] = q[n]
      BY <2>1, <2>2
    <2> QED
      BY <1>1, <2>3 DEF IsPrefix, s
  <1>2. CASE ~(Len(k) <= Len(q))
    BY <1>2 DEF IsPrefix
  <1> QED
    BY <1>1, <1>2

\* If some function can handle the request, there is a first one.
LEMMA SomeFirstHandler ==
    ASSUME NEW F, NEW fs \in Seq(F), NEW op, NEW q, NEW j \in DOMAIN fs, Handles(fs[j], op, q)
    PROVE  \E i \in DOMAIN fs : i \in FirstHandler(fs, op, q)
  <1> DEFINE T == {i \in DOMAIN fs : Handles(fs[i], op, q)}
  <1>1. T \in SUBSET Nat /\ T # {} /\ DOMAIN fs = 1..Len(fs) /\ Len(fs) \in Nat
    OBVIOUS
  <1> HIDE DEF T
  <1>2. PICK i \in T : \A m \in T : i <= m
    BY <1>1, LeastNumber
  <1>3. i \in DOMAIN fs /\ Handles(fs[i], op, q)
    BY DEF T
  <1>4. ASSUME NEW m \in 1..(i - 1), Handles(fs[m], op, q) PROVE FALSE
    <2>1. m \in T /\ m < i
      BY <1>1, <1>3, <1>4 DEF T
    <2> QED
      BY <1>1, <1>2, <1>3, <2>1
  <1> QED
    BY <1>3, <1>4 DEF FirstHandler

\* A nonempty set of keys above q has a longest one.
LEMMA LongestKey ==
    ASSUME NEW q \in Seq(Nat), NEW P \in SUBSET Seq(Nat), P # {}, \A k \in P : Len(k) <= Len(q)
    PROVE  \E p \in P : \A k \in P : Len(k) <= Len(p)
  <1> DEFINE T == {Len(q) - Len(k) : k \in P}
  <1>1. ASSUME NEW k \in P PROVE Len(k) \in Nat /\ Len(q) \in Nat /\ Len(q) - Len(k) \in Nat
    OBVIOUS
  <1>2. T \in SUBSET Nat /\ T # {}
    BY <1>1
  <1>3. PICK n \in T : \A m \in T : n <= m
    BY <1>2, LeastNumber
  <1>4. PICK p \in P : n = Len(q) - Len(p)
    OBVIOUS
  <1>5. ASSUME NEW k \in P PROVE Len(k) <= Len(p)
    <2>1. n <= Len(q) - Len(k)
      BY <1>3
    <2> QED
      BY <1>1, <1>4, <2>1
  <1> QED
    BY <1>5

\* When all is settled, every function is in the directory ...
LEMMA SettledRegistered ==
    ASSUME RouteInv, Settled, NEW o \in Owners, NEW i \in DOMAIN functions[o]
    PROVE  functions[o][i].key \in Keys /\ dir[functions[o][i].key] # <<>>
  <1> DEFINE k == functions[o][i].key
             c == nsHandle[o]
  <1>1. ProcessesOK /\ DirTyped /\ ToldOnHandle
    BY DEF RouteInv, ToldInv, IInv
  <1>2. functions[o] \in Seq(Function)
    BY <1>1 DEF ProcessesOK
  <1>3. k \in Keys
    BY <1>2, FunctionKeys
  <1>4. functions[o] # <<>>
    BY <1>2
  <1>5. Reachable(o) /\ lock[o] = "free" /\ c \in nsOpen /\ chan[c] = <<>>
    BY <1>4 DEF Settled, Reachable
  <1>6. ~StillToTell(o, i)
    BY <1>5 DEF StillToTell, At, Threads
  <1>7. Told(c, k)
    BY <1>1, <1>5, <1>6 DEF ToldOnHandle
  <1>8. RegisteredOn(c, k)
    BY <1>5, <1>7 DEF Told, SentOn
  <1> QED
    BY <1>3, <1>8 DEF RegisteredOn

\* ... and every application the directory names has the function it is named for.
LEMMA SettledServed ==
    ASSUME RouteInv, Settled, NEW k \in Keys, dir[k] # <<>>
    PROVE  dir[k][1].addr \in Owners /\ HasKey(dir[k][1].addr, k)
  <1> DEFINE e == dir[k][1]
  <1>1. DirTyped /\ ToldByOwner
    BY DEF RouteInv, ToldInv
  <1>2. dir[k] \in Seq(Entry)
    BY <1>1 DEF DirTyped
  <1>3. 1 \in DOMAIN dir[k] /\ e \in Entry
    BY <1>2
  <1>4. Has(dir[k], e)
    BY <1>3 DEF Has
  <1> HIDE DEF e
  <1>5. e.fd \in nsOpen /\ e.addr = peer[e.fd] /\ (e.fd \in ownerOpen => HasKey(peer[e.fd], k))
    BY <1>1, <1>3, <1>4 DEF ToldByOwner
  <1>6. e.fd \in ownerOpen
    BY <1>5 DEF Settled
  <1>7. peer[e.fd] \in Owners
    BY <1>1, <1>6 DEF ToldByOwner
  <1> QED
    BY <1>5, <1>6, <1>7 DEF e

\* So the longest key that is registered above a request is the longest that any
\* application has a function for, and the application named for it runs that.
LEMMA RouteFound == RouteInv => RoutedToMostSpecific
  <1> SUFFICES ASSUME RouteInv, Settled, NEW q \in Keys, NEW op \in Operations,
                      Matching(q) # {}, \A f \in Matching(q) : op \in f.ops
               PROVE  /\ Directory!Answer(q) # {}
                      /\ \A o \in Directory!Answer(q) :
                             \E i \in FirstHandler(functions[o], op, q) :
                                 \A f \in Matching(q) : Len(f.key) <= Len(functions[o][i].key)
    BY DEF RoutedToMostSpecific
  <1> DEFINE P == Directory!Prefixes(q)
  <1>1. ProcessesOK /\ MostSpecificFirst /\ functions \in [Owners -> Seq(Function)]
    BY DEF RouteInv, ToldInv, IInv, ProcessesOK
  <1>2. q \in Seq(Nat) /\ Keys \subseteq Seq(Nat)
    BY OwnerAssumption
  <1>3. \A k \in Keys : k \in P <=> dir[k] # <<>> /\ IsPrefix(k, q)
    BY <1>2, SamePrefix DEF Directory!Prefixes
  <1>4. P \subseteq Keys /\ \A k \in P : Len(k) <= Len(q)
    BY DEF Directory!Prefixes
  <1> HIDE DEF P
  <1>5. ASSUME NEW f \in Matching(q) PROVE f.key \in P
    <2>1. PICK o \in Owners : \E i \in DOMAIN functions[o] :
              f = functions[o][i] /\ IsPrefix(functions[o][i].key, q)
      BY DEF Matching
    <2>2. PICK i \in DOMAIN functions[o] : f = functions[o][i] /\ IsPrefix(functions[o][i].key, q)
      BY <2>1
    <2> QED
      BY <1>3, <2>2, SettledRegistered
  <1>6. ASSUME NEW k \in P, NEW o \in Owners, NEW j \in DOMAIN functions[o], functions[o][j].key = k
        PROVE  functions[o][j] \in Matching(q) /\ Handles(functions[o][j], op, q)
    <2>1. IsPrefix(k, q)
      BY <1>3, <1>4
    <2>2. functions[o][j] \in Matching(q)
      BY <1>6, <2>1 DEF Matching
    <2> QED
      BY <1>6, <2>1, <2>2 DEF Handles
  <1>7. \E p \in P : \A k \in P : Len(k) <= Len(p)
    <2>1. P # {}
      BY <1>5
    <2> QED
      BY <1>2, <1>4, <2>1, LongestKey
  <1>8. Directory!Answer(q) = {dir[k][1].addr : k \in {p \in P : \A o \in P : Len(o) <= Len(p)}}
    BY DEF Directory!Answer, P
  <1>9. Directory!Answer(q) # {}
    BY <1>7, <1>8
  <1>10. ASSUME NEW o \in Directory!Answer(q)
         PROVE  \E i \in FirstHandler(functions[o], op, q) :
                    \A f \in Matching(q) : Len(f.key) <= Len(functions[o][i].key)
    <2>1. PICK p \in P : o = dir[p][1].addr /\ \A k \in P : Len(k) <= Len(p)
      BY <1>8
    <2>2. p \in Keys /\ dir[p] # <<>>
      BY <1>3, <1>4
    <2>3. o \in Owners /\ HasKey(o, p)
      BY <2>1, <2>2, SettledServed
    <2>4. PICK j \in DOMAIN functions[o] : functions[o][j].key = p
      BY <2>3 DEF HasKey
    <2>5. Handles(functions[o][j], op, q)
      BY <1>6, <2>3, <2>4
    <2>6. functions[o] \in Seq(Function) /\ Ordered(functions[o])
      BY <1>1, <2>3 DEF MostSpecificFirst
    <2>7. PICK i \in DOMAIN functions[o] : i \in FirstHandler(functions[o], op, q)
      BY <2>4, <2>5, <2>6, SomeFirstHandler
    <2>8. \A g \in Function : g.key \in Seq(Nat)
      BY FunctionKeys
    <2>9. Len(functions[o][j].key) <= Len(functions[o][i].key)
      BY <1>2, <2>4, <2>5, <2>6, <2>7, <2>8, FirstHandlerIsMostSpecific
    <2>10. ASSUME NEW f \in Matching(q) PROVE Len(f.key) <= Len(functions[o][i].key)
      <3>1. Len(f.key) <= Len(p) /\ Len(f.key) \in Nat /\ Len(p) \in Nat
        BY <1>2, <1>4, <1>5, <2>1
      <3>2. functions[o][i].key \in Seq(Nat)
        BY <2>6, <2>8
      <3> QED
        BY <2>4, <2>9, <3>1, <3>2
    <2> QED
      BY <2>7, <2>10
  <1> QED
    BY <1>9, <1>10

\* For any applications, keys and connections, and however registrations, races,
\* crashes and restarts led there: when every application is announced and the
\* name service has read everything, the application it names for a key, and the
\* function that application picks from db_functions, are the most specific of all
\* that can handle the request.
THEOREM FoundInTheEnd == Spec => []RoutedToMostSpecific
  <1>1. RouteInv /\ [Next]_vars => RouteInv'
    BY NextProcessesOK, NextThreadsOK, NextOrdered, NextDirTyped, NextTold, NextToldByOwner
       DEF RouteInv, ToldInv, IInv
  <1> QED
    BY <1>1, InitRoute, RouteFound, PTL DEF Spec
=============================================================================
