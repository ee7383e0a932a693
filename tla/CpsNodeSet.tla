----------------------------- MODULE CpsNodeSet -----------------------------
(***************************************************************************)
(* The groups of nodes a process works with                                *)
(* (src/src/db/cps_api_db_node_set.cpp, src/src/non-core/cps_api_node.cpp).*)
(*                                                                         *)
(* The connectivity groups are objects in the local database; a process    *)
(* keeps a copy (_groups) that it renews at most every five seconds, and   *)
(* only if the hash of the names in it has changed.  A group whose data is *)
(* kept 1+1 ("global") has a database of its own on every node, one of     *)
(* which cps_api_set_master_node makes the master.  Which one it is is     *)
(* known to the process alone.                                             *)
(*                                                                         *)
(* A node is identified by its name, a sequence of characters.  Its        *)
(* address in a group is the one of the tunnel to it, which is as good as  *)
(* the name.  The address of a group's database on it is made of the host  *)
(* of that tunnel and the port the node has told: the host is 127.0.0.1    *)
(* for every node the connectivity agent has configured, so the port is    *)
(* what tells two of them apart, and the comparisons with 127.0.0.1 in     *)
(* cps_api_set_master_node and update_slaves hold for all of them.         *)
(* The vectors of nodes are sets: what depends on their order is a choice. *)
(***************************************************************************)
EXTENDS Naturals, Sequences, FiniteSets

CONSTANTS
    Groups,      \* names of groups
    Nodes,       \* names of nodes
    Local,       \* the node of the process and of its database
    Port,        \* the port of the database of each group on each node
    None         \* no node, no group object, no address

ASSUME NodeSetAssumption ==
    /\ Nodes \subseteq Seq(Nat)
    /\ Local \in Nodes
    /\ Port \in [Groups -> [Nodes -> Nat]]
    /\ None \notin Nodes

GroupTypes == {"nodal", "global"}
GroupObject == [type : GroupTypes, nodes : SUBSET Nodes]

VARIABLES
    config,      \* the connectivity groups in the local database
    ports,       \* the db-instance objects in it: <<group, node>>
    up,          \* the local database can be reached
    groups,      \* _groups
    loadDue,     \* five seconds have passed since _last_loaded
    nodeMap,     \* _db_node_map; an empty set is no entry
    master,      \* _master, an address
    masterSet    \* _master_set

dbVars == <<config, ports, up>>
processVars == <<groups, loadDue, nodeMap, master, masterSet>>
nodeSetVars == <<dbVars, processVars>>

NoGroups == [g \in Groups |-> None]

NodeSetInit(configured) ==
    /\ config = configured
    /\ ports = {}
    /\ up = TRUE
    /\ groups = NoGroups
    /\ loadDue = TRUE
    /\ nodeMap = [g \in Groups |-> {}]
    /\ master = [g \in Groups |-> None]
    /\ masterSet = {}

IsNamePrefix(p, n) == Len(p) <= Len(n) /\ SubSeq(n, 1, Len(p)) = p

-----------------------------------------------------------------------------
(* cps_api_nodes::load_groups *)

\* gen_hash adds up the hashes of the names of the groups and of the addresses
\* in them: what is left of their arrangement is how often each occurs.
gen_hash(gs) ==
    [names |-> {g \in Groups : gs[g] # None},
     addrs |-> [n \in Nodes |-> Cardinality({g \in Groups : gs[g] # None /\ n \in gs[g].nodes})]]

\* get_port_info for every node of a 1+1 group.
WithPorts(g) ==
    IF config[g] # None /\ config[g].type = "global"
    THEN {n \in config[g].nodes : <<g, n>> \in ports} ELSE {}

\* Every lookup of a group starts with load_groups, so the operations below
\* are only taken when it has nothing to do.  A local database that cannot be
\* reached leaves everything as it was for the next five seconds; of one that
\* stops answering, the groups whose reply has come are taken for all there
\* are.  update_slaves finds no master that is not at 127.0.0.1.
Seen(seen) == [g \in Groups |-> IF g \in seen THEN config[g] ELSE None]
LoadGroups(seen) ==
    /\ loadDue
    /\ loadDue' = FALSE
    /\ IF up
       THEN /\ groups' = IF gen_hash(Seen(seen)) = gen_hash(groups) THEN groups ELSE Seen(seen)
            /\ nodeMap' = [g \in Groups |-> IF g \in seen /\ WithPorts(g) # {} THEN WithPorts(g) ELSE nodeMap[g]]
       ELSE UNCHANGED <<groups, nodeMap>>
    /\ UNCHANGED <<dbVars, master, masterSet>>

LoadExpires ==
    /\ ~loadDue
    /\ loadDue' = TRUE
    /\ UNCHANGED <<dbVars, groups, nodeMap, master, masterSet>>

\* cps_api_db_get_node_group, on which cps_api_node_set_iterate walks: the
\* nodes of a group, of which a master is known by its address only.
HasMaster(g) == groups[g] # None /\ groups[g].type = "global" /\ g \in masterSet
NodesOf(g) == IF groups[g] = None THEN {} ELSE groups[g].nodes

-----------------------------------------------------------------------------
(* cps_api_set_master_node.  A name that is only the beginning of a node's  *)
(* name means that node too.                                                *)

Named(g, name) == {n \in nodeMap[g] : IsNamePrefix(name, n)}

SetMasterAsked(g) == ~loadDue /\ groups[g] # None /\ groups[g].type = "global"

\* cps_api_remove_slave connects to the address, where this node's database of
\* the group listens, or nothing of the group.
Listens(g, n) == up /\ Port[g][n] = Port[g][Local]

\* The node is the master already (and the answer is OK), or cannot be found,
\* or is not told to be no slave: nothing is done.
AlreadyMaster(g, name) == \E n \in Named(g, name) : master[g] = Port[g][n]
SetMasterRefused(g, name) ==
    /\ SetMasterAsked(g)
    /\ \/ Named(g, name) = {}
       \/ AlreadyMaster(g, name)
       \/ \E n \in Named(g, name) : master[g] \notin {None, Port[g][n]} /\ ~Listens(g, n)
    /\ UNCHANGED nodeSetVars

\* A node with another address becomes the master, and as it is taken for the
\* local one nobody becomes its slave.
SetMaster(g, name, n) ==
    /\ SetMasterAsked(g)
    /\ n \in Named(g, name)
    /\ master[g] # Port[g][n]
    /\ master[g] # None => Listens(g, n)
    /\ master' = [master EXCEPT ![g] = Port[g][n]]
    /\ masterSet' = masterSet \cup {g}
    /\ UNCHANGED <<dbVars, groups, loadDue, nodeMap>>

-----------------------------------------------------------------------------
(* cps_api_db_del_node_group, and the end of the process *)

DelNodeGroup(g) ==
    IF groups[g] # None /\ groups[g].type = "global" /\ nodeMap[g] # {} /\ up
    THEN /\ ports' = ports \ ({g} \X nodeMap[g])
         /\ master' = [master EXCEPT ![g] = None]
         /\ nodeMap' = [nodeMap EXCEPT ![g] = {}]
         /\ masterSet' = masterSet \ {g}
    ELSE UNCHANGED <<ports, master, nodeMap, masterSet>>

\* A process that is started again has lost everything but the databases.
Restart ==
    /\ groups' = NoGroups
    /\ loadDue' = TRUE
    /\ nodeMap' = [g \in Groups |-> {}]
    /\ master' = [g \in Groups |-> None]
    /\ masterSet' = {}
    /\ UNCHANGED dbVars
=============================================================================
