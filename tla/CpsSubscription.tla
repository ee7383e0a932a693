--------------------------- MODULE CpsSubscription ---------------------------
(***************************************************************************)
(* Subscription to events (src/src/db/cps_api_db_event_adapter.cpp and     *)
(* src/src/cps_api_events.cpp).                                            *)
(*                                                                         *)
(* A handle keeps the keys that were registered for each group and a       *)
(* connection to every node of these groups, on which it subscribes to     *)
(* them.  Two threads use it: one registers ("reg"), the other waits for   *)
(* events and hands them to the callbacks ("wait").  A mutex excludes them *)
(* except while the waiting one is in select.  The groups are those of     *)
(* CpsNodeSet, loaded by whichever thread looks them up first.  What the   *)
(* thread does with an event it was given (cb_map) is left out: an event   *)
(* that comes before its callback was added is dropped there.              *)
(*                                                                         *)
(* The nodes are external: they send an event on every connection that has *)
(* subscribed to its key.  The keep-alive of the sockets turns a node that *)
(* is lost into a connection that ends.  What the node has sent is still   *)
(* read.  A descriptor that is used again only makes the walk look at a    *)
(* connection that has nothing to read, and is left out; so is a request   *)
(* that finds no memory to be buffered.                                    *)
(***************************************************************************)
EXTENDS CpsNodeSet, SequencesExt

CONSTANTS
    LocalGroup,     \* the address of the local node, which is a group as well
    Keys,           \* the keys that are registered
    Registrations,  \* for which groups: <<group, key>>
    Filtered,       \* the ones registered with a filter that some events do not match
    GroupKey,       \* the key of connectivity groups, which every handle registers
    Memberships,    \* the sets of nodes the groups ever have
    MaxChanges      \* bound: events published, nodes lost and groups changed

ASSUME SubscriptionAssumption ==
    /\ LocalGroup \in Groups
    /\ IsFiniteSet(Nodes)
    /\ GroupKey \notin Keys
    /\ Registrations \subseteq Groups \X Keys
    /\ Filtered \subseteq Keys
    /\ Memberships \subseteq SUBSET Nodes
    /\ MaxChanges \in Nat

VARIABLES
    groupKeys,    \* _group_keys
    connections,  \* _connections
    groupReg,     \* _group_reg of each node, "none" is no entry
    keys,         \* _keys of each node
    pending,      \* _pending_events: nodes with their new states
    holder,       \* who has the mutex
    reg, wait,    \* where the two threads are
    checking,     \* the groups __check_connections has still to look at
    leftover,     \* nodes it has not found in any group
    syncing,      \* the groups __resync_regs has still to look at
    watch,        \* the connections given to select
    ready,        \* the ones it returned
    toWalk,       \* the connections still to be looked at after it
    reachable,    \* the nodes that can be reached, the local database among them
    broken,       \* connections the node has closed
    subs,         \* what each node has subscribed us to
    wire,         \* what each node has sent and we have not read
    stash,        \* _pending_events of each connection
    unread,       \* history: events sent on this connection and not yet taken
    view,         \* history: what the application was told of each node
    missed,       \* history: keys added to a group while a node was not in it
    changes       \* events, lost nodes and changed groups so far

handleVars == <<groupKeys, connections, groupReg, keys, pending>>
threadVars == <<holder, reg, wait, checking, leftover, syncing, watch, ready, toWalk>>
netVars == <<reachable, broken, subs, wire, stash>>
pastVars == <<unread, view, missed, changes>>
vars == <<nodeSetVars, handleVars, threadVars, netVars, pastVars>>

\* The handle has been created.  The groups exist, with all nodes.
Init ==
    /\ NodeSetInit([g \in Groups |-> IF g = LocalGroup THEN None ELSE [type |-> "nodal", nodes |-> Nodes]])
    /\ groupKeys = [g \in Groups |-> IF g = LocalGroup THEN {GroupKey} ELSE {}]
    /\ connections = {}
    /\ groupReg = [n \in Nodes |-> [g \in Groups |->
                      IF n = Local /\ g = LocalGroup THEN "due" ELSE "none"]]
    /\ keys = [n \in Nodes |-> {}]
    /\ pending = <<>>
    /\ holder = "free"
    /\ reg = "maintain"
    /\ wait = "off"
    /\ checking = {}
    /\ leftover = {}
    /\ syncing = {}
    /\ watch = {}
    /\ ready = {}
    /\ toWalk = {}
    /\ reachable = Nodes
    /\ broken = {}
    /\ subs = [n \in Nodes |-> {}]
    /\ wire = [n \in Nodes |-> <<>>]
    /\ stash = [n \in Nodes |-> <<>>]
    /\ unread = [n \in Nodes |-> <<>>]
    /\ view = {}
    /\ missed = {}
    /\ changes = 0

Change == changes < MaxChanges /\ changes' = changes + 1

\* cps_api_node_set_iterate, after load_groups.
Members(g) == IF g = LocalGroup THEN {Local} ELSE NodesOf(g)
LookUp == ~loadDue /\ UNCHANGED nodeSetVars

-----------------------------------------------------------------------------
(* Connections.  A new one starts with nothing, and of one that is dropped   *)
(* everything that was read from it is dropped as well.                      *)

StateEvents(ns, state) == SetToSeq({[node |-> n, state |-> state] : n \in ns})

Emptied(f, ns, nothing) == [n \in Nodes |-> IF n \in ns THEN nothing ELSE f[n]]
NoRegs == [g \in Groups |-> "none"]

\* An answer is read from the same stream: events before it are kept for later.
TakenForAnswers(ns) == [n \in Nodes |-> stash[n]]
Interleaved(ns) == [n \in Nodes |-> IF n \in ns THEN stash[n] \o wire[n] ELSE stash[n]]

\* The connections of ns are gone or new, the ones of asked have answered.
ForgetWith(ns, asked, knownKeys) ==
    /\ keys' = knownKeys
    /\ broken' = broken \ ns
    /\ subs' = Emptied(subs, ns, {})
    /\ wire' = Emptied(wire, ns \cup asked, <<>>)
    /\ stash' = Emptied(Interleaved(asked), ns, <<>>)
    /\ unread' = Emptied(unread, ns, <<>>)
    /\ missed' = {m \in missed : m[1] \notin ns}

ForgetNodesKeepingKeys(ns, asked) == ForgetWith(ns, asked, keys)
ForgetNodes(ns, asked) == ForgetWith(ns, asked, Emptied(keys, ns, {}))

\* disconnect_node, for the nodes of a set.
DisconnectSilently(ns) ==
    /\ connections' = connections \ ns
    /\ UNCHANGED pending
    /\ ForgetNodes(ns, {})
disconnect_node(ns) ==
    /\ connections' = connections \ ns
    /\ pending' = pending \o StateEvents(ns, FALSE)
    /\ ForgetNodes(ns, {})

-----------------------------------------------------------------------------
(* __maintain_connections, by the thread that has the mutex *)

\* The order of the groups in the hash table.
NextGroup(gs) == CHOOSE g \in gs : TRUE

StartMaintaining(thread) ==
    /\ holder' = thread
    /\ checking' = {g \in Groups : groupKeys[g] # {}}
    /\ leftover' = connections
    /\ syncing' = {}

\* __check_connections connects to the nodes of a group that can be reached.
\* A connection that was not used for a minute is validated by a ping.
CheckGroup(g, idle) ==
    /\ checking # {}
    /\ g = NextGroup(checking)
    /\ LookUp
    /\ checking' = checking \ {g}
    /\ LET new == (Members(g) \cap reachable) \ connections
           pinged == (Members(g) \cap connections \cap idle) \ broken
           dead == Members(g) \cap connections \cap broken \cap idle
           kept == (Members(g) \cap (connections \cup new)) \ dead
       IN /\ connections' = (connections \cup new) \ dead
          /\ pending' = pending \o StateEvents(new, TRUE) \o StateEvents(dead, FALSE)
          /\ ForgetNodes(new \cup dead, pinged)
          /\ groupReg' = [n \in Nodes |->
                 LET r == IF n \in new \cup dead THEN NoRegs ELSE groupReg[n]
                 IN IF n \in kept /\ r[g] = "none" THEN [r EXCEPT ![g] = "due"] ELSE r]
          /\ leftover' = leftover \ kept
    /\ UNCHANGED <<groupKeys, holder, reg, wait, syncing, watch, ready, toWalk, view, changes, reachable>>

\* Nodes of no group, and the ones found dead, are disconnected.
Maintaining == reg = "maintaining" \/ wait \in {"maintain", "maintainInWalk"}
EndCheck ==
    /\ Maintaining
    /\ checking = {}
    /\ syncing = {}
    /\ disconnect_node(leftover)
    /\ groupReg' = Emptied(groupReg, leftover, NoRegs)
    /\ leftover' = {}
    /\ syncing' = {g \in Groups : groupKeys[g] # {}}
    /\ UNCHANGED <<nodeSetVars, groupKeys, holder, reg, wait, checking, watch, ready,
                   toWalk, view, changes, reachable>>

\* What a thread does when it has maintained the connections.
Maintained ==
    IF holder = "reg"
    THEN /\ holder' = "free"
         /\ reg' = "push"
         /\ UNCHANGED <<wait, toWalk>>
    ELSE IF wait = "maintain"
    THEN /\ wait' = "scan"
         /\ UNCHANGED <<holder, reg, toWalk>>
    ELSE /\ toWalk' \in SUBSET toWalk   \* the iterator of the walk may be invalid
         /\ wait' = "walk"
         /\ UNCHANGED <<holder, reg>>

\* __resync_regs subscribes to the keys of a group on its nodes, unless that
\* was done before.
ResyncGroup(g) ==
    /\ syncing # {}
    /\ g = NextGroup(syncing)
    /\ LookUp
    /\ syncing' = syncing \ {g}
    /\ LET due == {n \in Members(g) \cap connections : groupReg[n][g] # "done"}
           lost == {n \in due \cap broken : ~ groupKeys[g] \subseteq keys[n]}
           done == due \ lost
           asked == {n \in done : ~ groupKeys[g] \subseteq keys[n]}
       IN /\ connections' = connections \ lost
          /\ pending' = pending \o StateEvents(lost, FALSE)
          /\ keys' = [n \in Nodes |-> IF n \in lost THEN {} ELSE IF n \in done THEN keys[n] \cup groupKeys[g] ELSE keys[n]]
          /\ subs' = [n \in Nodes |-> IF n \in lost THEN {} ELSE IF n \in asked THEN subs[n] \cup groupKeys[g] ELSE subs[n]]
          /\ groupReg' = [n \in Nodes |-> IF n \in lost THEN NoRegs
                             ELSE IF n \in done THEN [groupReg[n] EXCEPT ![g] = "done"] ELSE groupReg[n]]
          /\ stash' = [n \in Nodes |-> IF n \in lost THEN <<>> ELSE Interleaved(asked)[n]]
          /\ wire' = Emptied(wire, lost \cup asked, <<>>)
          /\ unread' = Emptied(unread, lost, <<>>)
          /\ broken' = broken \ lost
          /\ missed' = {m \in missed : m[1] \notin lost}
    /\ IF syncing = {g} THEN Maintained ELSE UNCHANGED <<holder, reg, wait, toWalk>>
    /\ UNCHANGED <<groupKeys, checking, leftover, watch, ready,
                   view, changes, reachable>>

-----------------------------------------------------------------------------
(* Registration: cps_api_event_thread_reg_object *)

\* _register_one_object marks the nodes that are in the group now.
NoneMarked(g) == {}
Marked(g) == Members(g)
RegisterOneObject(g, k) ==
    /\ reg = "idle"
    /\ holder = "free"
    /\ LookUp
    /\ k \notin groupKeys[g]
    /\ groupKeys' = [groupKeys EXCEPT ![g] = @ \cup {k}]
    /\ groupReg' = [n \in Nodes |-> IF n \in Marked(g) THEN [groupReg[n] EXCEPT ![g] = "due"] ELSE groupReg[n]]
    /\ missed' = missed \cup {<<n, g, k>> : n \in {m \in connections \ Members(g) : groupReg[m][g] = "done"}}
    /\ reg' = "maintain"
    /\ UNCHANGED <<connections, keys, pending, holder, wait, checking, leftover, syncing, watch, ready,
                   toWalk, netVars, unread, view, changes>>

RegMaintains ==
    /\ reg = "maintain"
    /\ holder = "free"
    /\ StartMaintaining("reg")
    /\ reg' = "maintaining"
    /\ UNCHANGED <<nodeSetVars, handleVars, wait, watch, ready, toWalk, netVars, pastVars>>

\* The callback is added when the subscription has been made; the first call
\* has only connected the handle, and then starts the thread.
PushCallback ==
    /\ reg = "push"
    /\ reg' = "idle"
    /\ wait' = IF wait = "off" THEN "start" ELSE wait
    /\ UNCHANGED <<nodeSetVars, handleVars, holder, checking, leftover, syncing, watch, ready, toWalk,
                   netVars, pastVars>>

-----------------------------------------------------------------------------
(* _cps_api_wait_for_event, called in a loop by _thread_function_ *)

\* Connection events are returned before anything else.
ReturnStateEvent ==
    /\ wait = "start"
    /\ holder = "free"
    /\ pending # <<>>
    /\ view' = IF Head(pending).state THEN view \cup {Head(pending).node} ELSE view \ {Head(pending).node}
    /\ pending' = Tail(pending)
    /\ UNCHANGED <<nodeSetVars, groupKeys, connections, groupReg, keys, threadVars, netVars,
                   unread, missed, changes>>

\* The connections are maintained when three seconds have passed since the last
\* time: how fast the loop goes round is a choice.
WaitMaintains ==
    /\ wait = "start"
    /\ holder = "free"
    /\ pending = <<>>
    /\ StartMaintaining("wait")
    /\ wait' = "maintain"
    /\ UNCHANGED <<nodeSetVars, handleVars, reg, watch, ready, toWalk, netVars, pastVars>>

WaitGoesOn ==
    /\ wait = "start"
    /\ holder = "free"
    /\ pending = <<>>
    /\ holder' = "wait"
    /\ wait' = "scan"
    /\ UNCHANGED <<nodeSetVars, handleVars, reg, checking, leftover, syncing, watch, ready, toWalk,
                   netVars, pastVars>>

\* Events that were read already are looked at first; select is called without
\* the mutex.
Scan ==
    /\ wait = "scan"
    /\ IF connections = {} THEN wait' = "start" /\ holder' = "free" /\ UNCHANGED <<watch, ready, toWalk>>
       ELSE IF \E n \in connections : stash[n] # <<>>
       THEN wait' = "walk" /\ toWalk' = connections /\ ready' = {} /\ UNCHANGED <<watch, holder>>
       ELSE wait' = "select" /\ watch' = connections /\ holder' = "free" /\ UNCHANGED <<ready, toWalk>>
    /\ UNCHANGED <<nodeSetVars, handleVars, reg, checking, leftover, syncing, netVars, pastVars>>

\* A connection that was closed meanwhile can make select fail.
Selected ==
    /\ wait = "select"
    /\ holder = "free"
    /\ \/ /\ ready' = {n \in watch \cap connections : wire[n] # <<>> \/ n \in broken}
          /\ IF ready' = {} THEN wait' = "start" /\ UNCHANGED <<toWalk, holder>>
             ELSE wait' = "walk" /\ toWalk' = connections /\ holder' = "wait"
       \/ /\ ~ watch \subseteq connections
          /\ wait' = "start"
          /\ UNCHANGED <<ready, toWalk, holder>>
    /\ watch' = {}
    /\ UNCHANGED <<nodeSetVars, handleVars, reg, checking,
                   leftover, syncing, netVars, pastVars>>

HasData(n) == n \in connections /\ (stash[n] # <<>> \/ n \in ready)

EndWalk ==
    /\ wait = "walk"
    /\ \A n \in toWalk : ~HasData(n)
    /\ toWalk' = {}
    /\ ready' = {}
    /\ wait' = "start"
    /\ holder' = "free"
    /\ UNCHANGED <<nodeSetVars, handleVars, reg, checking, leftover, syncing, watch, netVars, pastVars>>

\* get_event finds the end of the connection.
ReadError(n) ==
    /\ wait = "walk"
    /\ n \in toWalk
    /\ HasData(n)
    /\ stash[n] = <<>>
    /\ wire[n] = <<>>
    /\ n \in broken
    /\ disconnect_node({n})
    /\ groupReg' = [groupReg EXCEPT ![n] = NoRegs]
    /\ toWalk' = {}
    /\ ready' = {}
    /\ wait' = "start"
    /\ holder' = "free"
    /\ UNCHANGED <<nodeSetVars, groupKeys, reg, checking, leftover, syncing, watch, view, changes, reachable>>

\* object_matches_filter: an event of a key with filters may match none of them.
MayNotMatch(e) == e.key \in Filtered

\* get_event takes the first event.  One about a group starts maintenance in
\* the middle of the walk, one that the filter of its key does not match is
\* thrown away, and any other is returned to the thread.
Take(n) ==
    LET all == IF stash[n] = <<>> THEN wire[n] ELSE stash[n]
        e == Head(all)
    IN /\ stash' = [stash EXCEPT ![n] = Tail(all)]
       /\ wire' = IF stash[n] = <<>> THEN [wire EXCEPT ![n] = <<>>] ELSE wire
       /\ unread' = [unread EXCEPT ![n] = Tail(@)]
       /\ \/ /\ e.key = GroupKey
             /\ StartMaintaining("wait")
             /\ wait' = "maintainInWalk"
             /\ toWalk' = toWalk \ {n}
             /\ UNCHANGED ready
          \/ /\ MayNotMatch(e)
             /\ toWalk' = toWalk \ {n}
             /\ UNCHANGED <<ready, wait, holder, checking, leftover, syncing>>
          \/ /\ e.key # GroupKey
             /\ wait' = "start"
             /\ holder' = "free"
             /\ toWalk' = {}
             /\ ready' = {}
             /\ UNCHANGED <<checking, leftover, syncing>>

GetEvent(n) ==
    /\ wait = "walk"
    /\ n \in toWalk
    /\ HasData(n)
    /\ stash[n] # <<>> \/ wire[n] # <<>>
    /\ Take(n)
    /\ UNCHANGED <<nodeSetVars, handleVars, reg, watch, reachable, broken, subs,
                   view, missed, changes>>

-----------------------------------------------------------------------------
(* The nodes and the connectivity agent *)

Send(n, e) ==
    IF n \in connections \ broken /\ e.key \in subs[n]
    THEN /\ wire' = [wire EXCEPT ![n] = Append(@, e)]
         /\ unread' = [unread EXCEPT ![n] = Append(@, e)]
    ELSE UNCHANGED <<wire, unread>>

PublishEvent(n, k) ==
    /\ n \in connections \ broken
    /\ k \in subs[n]
    /\ Change
    /\ Send(n, [key |-> k, id |-> changes'])
    /\ UNCHANGED <<nodeSetVars, handleVars, threadVars, reachable, broken, subs, stash, view, missed>>

Reconfigure(g, ns) ==
    /\ up
    /\ g # LocalGroup
    /\ config[g] # [type |-> "nodal", nodes |-> ns]
    /\ config' = [config EXCEPT ![g] = [type |-> "nodal", nodes |-> ns]]
    /\ Change
    /\ Send(Local, [key |-> GroupKey, id |-> changes'])
    /\ UNCHANGED <<ports, up, processVars, handleVars, threadVars, reachable, broken, subs, stash, view,
                   missed>>

\* A node that can no longer be reached; the local one is its database.
NodeLost(n) ==
    /\ n \in reachable
    /\ reachable' = reachable \ {n}
    /\ up' = (Local \in reachable')
    /\ broken' = broken \cup ({n} \cap connections)
    /\ Change
    /\ UNCHANGED <<config, ports, processVars, handleVars, threadVars, subs, wire, stash, unread,
                   view, missed>>

NodeBack(n) ==
    /\ n \notin reachable
    /\ reachable' = reachable \cup {n}
    /\ up' = (Local \in reachable')
    /\ UNCHANGED <<config, ports, processVars, handleVars, threadVars, broken, subs, wire, stash, pastVars>>

\* The groups are loaded, or a database that stops answering ends the load.
Load == LoadGroups(Groups) /\ UNCHANGED <<handleVars, threadVars, netVars, pastVars>>
LoadCutShort(seen) ==
    /\ up
    /\ seen # Groups
    /\ LoadGroups(seen)
    /\ Change
    /\ UNCHANGED <<handleVars, threadVars, netVars, unread, view, missed>>
\* A load that finds nothing new changes nothing here, and is left out.
LoadAgain ==
    /\ config # groups
    /\ LoadExpires
    /\ UNCHANGED <<handleVars, threadVars, netVars, pastVars>>

MaintainStep ==
    \/ \E g \in Groups, idle \in SUBSET connections : CheckGroup(g, idle)
    \/ EndCheck
    \/ \E g \in Groups : ResyncGroup(g)

WaitStep ==
    \/ ReturnStateEvent
    \/ WaitMaintains
    \/ WaitGoesOn
    \/ Scan
    \/ Selected
    \/ \E n \in Nodes : ReadError(n) \/ GetEvent(n)
    \/ EndWalk

Next ==
    \/ MaintainStep
    \/ WaitStep
    \/ \E r \in Registrations : RegisterOneObject(r[1], r[2])
    \/ RegMaintains
    \/ PushCallback
    \/ \E n \in Nodes, k \in Keys : PublishEvent(n, k)
    \/ \E g \in Groups, ns \in Memberships : Reconfigure(g, ns)
    \/ \E n \in Nodes : NodeLost(n) \/ NodeBack(n)
    \/ Load
    \/ \E seen \in SUBSET Groups : LoadCutShort(seen)
    \/ LoadAgain

\* Threads run, and time passes.  A lookup that finds the groups due loads them
\* and goes on; select leaves the mutex to the other thread time and again.
Fairness ==
    /\ SF_vars(MaintainStep)
    /\ SF_vars(WaitStep)
    /\ SF_vars(RegMaintains)
    /\ WF_vars(PushCallback)
    /\ SF_vars(WaitMaintains)
    /\ WF_vars(Load)
    /\ WF_vars(LoadAgain)

Spec == Init /\ [][Next]_vars
FairSpec == Spec /\ Fairness

-----------------------------------------------------------------------------
(* Properties *)

\* The connection events tell the application the truth: one that has been
\* given all of them knows exactly the nodes the handle is connected to,
\* although a node found dead is reported twice and two threads queue them.
Told(seen, events, n) ==
    IF \E i \in DOMAIN events : events[i].node = n
    THEN \E i \in DOMAIN events :
             /\ events[i].node = n /\ events[i].state
             /\ \A j \in DOMAIN events : events[j].node = n => j <= i
    ELSE n \in seen
StateEventsTrue == \A n \in Nodes : Told(view, pending, n) <=> n \in connections

\* While a connection lasts, no event a node has sent on it is lost, repeated
\* or overtaken, though answers to subscriptions and validations are read
\* from the same stream.
EventsKeptInOrder == \A n \in connections : unread[n] = stash[n] \o wire[n]

\* A node whose registration for a group counts as done sends the events of
\* every key of the group.  The only keys it can lack were added while the
\* node was out of the group and still connected for another: its mark
\* from before is never taken back.
KeysMissedOnlyByRejoin ==
    \A n \in connections \ broken, g \in Groups :
        groupReg[n][g] = "done" =>
            \A k \in groupKeys[g] : k \in subs[n] \/ <<n, g, k>> \in missed

\* In the end every node that can be reached sends the events of all groups it
\* is in, whatever was lost and changed before.
AllSubscribed ==
    Local \in reachable =>
        \A g \in Groups :
            \A n \in IF g = LocalGroup THEN {Local} ELSE IF config[g] = None THEN {} ELSE config[g].nodes :
                n \in reachable => \A k \in groupKeys[g] : k \in subs[n] \/ <<n, g, k>> \in missed
SubscribedInTheEnd == <>[]AllSubscribed
=============================================================================
