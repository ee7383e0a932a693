-------------------------- MODULE CpsConnectivity --------------------------
(***************************************************************************)
(* How a node group becomes known: cps_api_set_node_group stores it        *)
(* (src/src/non-core/cps_api_node.cpp), the connectivity agent             *)
(* (src/scripts/lib/cps_connectivity_agent.py) builds tunnels to its nodes *)
(* and writes the connectivity group, and the processes load that          *)
(* (CpsNodeSet).                                                           *)
(*                                                                         *)
(* The agent keeps the tunnels it has started in memory; each one also has *)
(* a configuration file and a connection object in the database, and these *)
(* survive the agent.  It reacts to events about node groups, of which it  *)
(* gets none while it is not registered for them.                          *)
(***************************************************************************)
EXTENDS CpsNodeSet

CONSTANTS
    GroupChoices,   \* what each group is ever set to
    MaxFaults       \* bound on restarts, replies of the database that are
                    \* lost, tunnels that die and ones that are not built

ASSUME ConnectivityAssumption ==
    /\ GroupChoices \in [Groups -> SUBSET GroupObject]
    /\ MaxFaults \in Nat

VARIABLES
    wanted,      \* the node groups in the local database
    agent,       \* where the agent is in its main function
    notified,    \* an event about a node group waits for the agent
    conns,       \* nodes with a connection object
    tunnels,     \* nodes with a running tunnel
    confs,       \* nodes with a tunnel configuration file
    mapping,     \* tunnel_group_mapping
    unseen,      \* history: a group has changed and the agent was not told, or
                 \* it was, and could not read or write it
    refused,     \* history: nodes no tunnel could be built to in the last _sync
    loaded,      \* history: all groups were loaded since the last _sync
    faults       \* how many faults have happened

agentVars == <<agent, conns, tunnels, confs, mapping, refused>>
historyVars == <<unseen, loaded>>

vars == <<nodeSetVars, wanted, notified, agentVars, historyVars, faults>>

Fault == faults < MaxFaults /\ faults' = faults + 1

Init ==
    /\ NodeSetInit(NoGroups)
    /\ wanted = NoGroups
    /\ agent = "validate"
    /\ notified = FALSE
    /\ conns = {}
    /\ tunnels = {}
    /\ confs = {}
    /\ mapping = {}
    /\ unseen = FALSE
    /\ refused = {}
    /\ loaded = FALSE
    /\ faults = 0

-----------------------------------------------------------------------------
(* cps_api_set_node_group and cps_api_delete_node_group *)

Registered == agent = "run"

Publish ==
    /\ notified' = (notified \/ Registered)
    /\ unseen' = (unseen \/ ~Registered)

PublishNothing == UNCHANGED notified /\ unseen' = TRUE

\* cps_api_create_global_instance tells the nodes of the group, as far as they
\* are known, the port of the database on this node.
Announced(g, obj) == Local \in obj.nodes /\ Local \in NodesOf(g) /\ ~HasMaster(g)

\* The object is stored whole, in one field of its hash.  Nobody asks whether
\* the event was published.
SetNodeGroup(g, obj) ==
    /\ up
    /\ ~loadDue
    /\ wanted' = [wanted EXCEPT ![g] = obj]
    /\ IF obj.type = "nodal"
       THEN (Publish \/ PublishNothing) /\ UNCHANGED ports
       ELSE /\ PublishNothing
            /\ ports' \in {ports} \cup (IF Announced(g, obj) THEN {ports \cup {<<g, Local>>}} ELSE {})
    /\ UNCHANGED <<config, up, processVars, agentVars, loaded, faults>>

DeleteNodeGroup(g) ==
    /\ up
    /\ wanted[g] # None
    /\ DelNodeGroup(g)
    /\ wanted' = [wanted EXCEPT ![g] = None]
    /\ Publish \/ PublishNothing
    /\ UNCHANGED <<config, up, groups, loadDue, agentVars, loaded, faults>>

\* Another node tells us the port of its database.
PeerPort(g, n) ==
    /\ n # Local
    /\ config[g] # None
    /\ n \in config[g].nodes
    /\ ports' = ports \cup {<<g, n>>}
    /\ UNCHANGED <<config, up, processVars, wanted, notified, agentVars, historyVars, faults>>

-----------------------------------------------------------------------------
(* The connectivity agent *)

\* _validate_conn_objs: connection objects without a running tunnel are deleted,
\* at the start and then every 30 seconds.
Validate ==
    /\ conns' = conns \cap tunnels
    /\ agent' = IF agent = "validate" THEN "sync" ELSE agent
    /\ UNCHANGED <<nodeSetVars, wanted, notified, tunnels, confs, mapping, refused, historyVars, faults>>

\* _sync: tunnels are built to the nodes without a connection object, which a
\* configuration file left from before prevents, the connectivity group of
\* every node group is reconciled, and tunnels of this agent that nobody wants
\* are closed.  Starting a tunnel or storing its object can fail.  Nobody looks
\* at the results of the database: what is not read is taken for not there, and
\* what is not written is left.
GroupsSet == {g \in Groups : wanted[g] # None}
NodesIn(gs) == (UNION {wanted[g].nodes : g \in gs}) \ {Local}
Buildable(read, known) == NodesIn(read) \ (known \cup confs)
AllListed(g, connected) == wanted[g].nodes
Listed(g, connected) == wanted[g].nodes \cap (connected \cup {Local})
SyncedConfig(written, connected) ==
    [g \in Groups |-> IF g \in written THEN [wanted[g] EXCEPT !.nodes = Listed(g, connected)] ELSE config[g]]

Sync(read, known, built, written) ==
    LET connected == known \cup built
        closed == (known \ NodesIn(read)) \cap mapping
        answered == read = GroupsSet /\ known = conns /\ written = GroupsSet
    IN /\ ~up => read = {} /\ known = {} /\ built = {} /\ written = {}
       /\ config' = SyncedConfig(written, connected)
       /\ conns' = (conns \cup built) \ closed
       /\ tunnels' = (tunnels \cup built) \ closed
       /\ confs' = (confs \cup built) \ closed
       /\ mapping' = (mapping \cup built) \ closed
       /\ refused' = NodesIn(read) \ connected
       /\ loaded' = FALSE
       /\ unseen' = ~answered
       /\ IF up /\ ~(answered /\ built = Buildable(read, known)) THEN Fault ELSE UNCHANGED faults
       /\ UNCHANGED <<ports, up, processVars, wanted>>

FirstSync ==
    /\ agent = "sync"
    /\ agent' = "register"
    /\ UNCHANGED notified

HandleEvent ==
    /\ agent = "run"
    /\ notified
    /\ notified' = FALSE
    /\ UNCHANGED agent

SyncStep ==
    \E read \in SUBSET GroupsSet, known \in {conns, {}} :
        \E built \in SUBSET Buildable(read, known), written \in SUBSET read :
            Sync(read, known, built, written) /\ (FirstSync \/ HandleEvent)

Register ==
    /\ agent = "register"
    /\ agent' = "run"
    /\ UNCHANGED <<nodeSetVars, wanted, notified, conns, tunnels, confs, mapping, refused, historyVars, faults>>

AgentRestarts ==
    /\ agent # "validate"
    /\ agent' = "validate"
    /\ mapping' = {}
    /\ notified' = FALSE
    /\ unseen' = TRUE
    /\ UNCHANGED <<nodeSetVars, wanted, conns, tunnels, confs, refused, loaded>>
    /\ Fault

TunnelDies(n) ==
    /\ n \in tunnels
    /\ tunnels' = tunnels \ {n}
    /\ UNCHANGED <<nodeSetVars, wanted, notified, agent, conns, confs, mapping, refused, historyVars>>
    /\ Fault

-----------------------------------------------------------------------------
(* A process that works with the groups *)

ProcessStep ==
    /\ \/ /\ \E seen \in SUBSET Groups :
                /\ LoadGroups(seen)
                /\ loaded' = (up /\ seen = Groups)
                /\ IF seen = Groups THEN UNCHANGED faults ELSE Fault
       \/ /\ LoadExpires
          /\ UNCHANGED <<loaded, faults>>
       \/ /\ \E g \in Groups, name \in Nodes :
                SetMasterRefused(g, name) \/ \E n \in Nodes : SetMaster(g, name, n)
          /\ UNCHANGED <<loaded, faults>>
       \/ /\ Restart
          /\ Fault
          /\ loaded' = FALSE
    /\ UNCHANGED <<wanted, notified, agentVars, unseen>>

DatabaseLost ==
    /\ up
    /\ up' = FALSE
    /\ Fault
    /\ UNCHANGED <<config, ports, processVars, wanted, notified, agentVars, historyVars>>

DatabaseBack ==
    /\ ~up
    /\ up' = TRUE
    /\ UNCHANGED <<config, ports, processVars, wanted, notified, agentVars, historyVars, faults>>

Next ==
    \/ \E g \in Groups : \E obj \in GroupChoices[g] : SetNodeGroup(g, obj)
    \/ \E g \in Groups : DeleteNodeGroup(g)
    \/ \E g \in Groups, n \in Nodes : PeerPort(g, n)
    \/ Validate
    \/ SyncStep
    \/ Register
    \/ AgentRestarts
    \/ \E n \in Nodes : TunnelDies(n)
    \/ DatabaseLost \/ DatabaseBack
    \/ ProcessStep

Spec == Init /\ [][Next]_vars

-----------------------------------------------------------------------------
(* Properties *)

\* From cps_api_set_node_group through the agent and the load to the nodes an
\* operation on the group is sent to: once the agent has nothing to do, has been
\* told of every change and the database has answered its last _sync, and all
\* groups have been loaded since, the nodes are the ones that were set, except
\* those no tunnel could be built to.  A change whose event is not published or
\* not handled, and a _sync that the database did not answer, are never made up
\* for.  Only a hash that is the same for another arrangement of the names can
\* keep a process on groups that are no longer so (line 423 of
\* cps_api_node.cpp).
Lists(gs, g, n) == gs[g] # None /\ n \in gs[g].nodes
SameHash ==
    /\ groups # config
    /\ \A g \in Groups : groups[g] = None <=> config[g] = None
    /\ \A n \in Nodes : Cardinality({g \in Groups : Lists(groups, g, n)}) =
                        Cardinality({g \in Groups : Lists(config, g, n)})
ClientsSeeWanted ==
    agent = "run" /\ ~notified /\ ~unseen /\ loaded =>
        \A g \in Groups :
            wanted[g] # None =>
                \/ SameHash
                \/ groups[g] = [wanted[g] EXCEPT !.nodes = @ \ refused]
=============================================================================
