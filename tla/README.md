# A verification project for opx-cps

CPS (the Control Plane Service of OpenSwitch OPX) is an object-centric
middleware.  Applications own objects named by hierarchical keys; other
applications read and change them in transactions, and subscribe to events about
them.  Objects live either in the application that registered their key or in a
Redis database, and events travel through Redis.  This directory holds TLA+ models
of the parts of it that carry its concurrency, its failure handling and its error-prone
data structures, the TLC configurations that check them and TLAPS proofs about them.

All paths below are relative to the repository.

## 1. Inventory

| Part | State it keeps | Operations | What is hard | What makes it correct |
|---|---|---|---|---|
| Event queue (`src/db/cps_api_db_events.cpp`) | `_events`, `_published`, `_pushed`, a Redis connection per walk | `publish`, the loop of the thread CPS-Event-Sync, the flush of a static destructor | publishers, the push thread and the exit run concurrently; the walk is outside the mutex; an address cannot be reached; a socket is lost between append and reply | no event twice, order and sequence numbers follow publication, nothing is lost by a retry, everything leaves the queue |
| Name service (`src/cps_ns.cpp`, `inc/opx/private/cps_api_key_cache.h`) | hash table from keys to owners, descriptors that registered something | registration, query, cleanup after a closed connection, registration events | a cleanup that erases what it iterates over, on three levels; colliding keys; reused descriptors | exactly the connected applications are found, longest prefix first; events agree with the table |
| Object owner service (`src/cps_api_operation_service.cpp`) | `db_functions`, `ns_handle`, `db_lock`, the socket service's clients | `cps_api_register`, `_timedout`, `_del_client`, the request handlers | two threads that test `ns_handle` outside the lock; the name service crashes; registrations are not answered | everything is announced on the handle in use and registered in the end; the most specific function is first |
| Transactions (`src/cps_api_operation_common.cpp`, `src/db/cps_api_db_operations.cpp`, `src/db/cps_api_db_direct.cpp`, `src/cps_api_client_ipc.cpp`) | list of changes, list of previous objects | commit of each change, rollback in the opposite order, automated events | read, write and publish are separate requests; failures in the middle, lost replies, late owners, failures of the rollback | success means applied, failure means restored, subscribers can follow |
| Gets and the owner cache (`src/cps_api_operation_common.cpp`, `src/cps_api_client_ipc.cpp`) | cached owners (20 s), the list of results | get over several filters, from the database or an owner | keys that move, owners that end in the middle of an answer, timeouts, filtering a list that grows | OK means complete; an old answer of the name service is not used |
| Event subscription (`src/cps_api_events.cpp`, `src/db/cps_api_db_event_adapter.cpp`) | registrations and callbacks, a connection per node, marks of what is subscribed where | register, wait for an event, resynchronise | the lock is released around select; nodes of a group come and go; answers and events share a stream | events are neither lost nor reordered on a live connection; everything is subscribed in the end |
| Database connections (`src/db/cps_api_db_connection*.cpp`, `_response.cpp`, `_pipeline.cpp`, `cps_redis.cpp`) | pool of connections, output buffer, pending replies | get, put, operation, flush, response, bulk get, set and delete | a connection goes back into the pool with replies still due; a request that fails in the middle of a pipeline | a reply belongs to the request it is taken for |
| Node groups (`src/db/cps_api_db_node_set.cpp`, `src/non-core/cps_api_node.cpp`) and the connectivity agent (`scripts/lib/cps_connectivity_agent.py`) | node groups, connectivity groups, tunnels, a copy cached for 5 s, the master of a group | set, delete and load a group, change of the master, the agent's sync | stale configuration, unreachable nodes, an agent that restarts and misses events | processes see the group that was set |
| Synchronisation (`src/non-core/cps_api_db_interface_tools.cpp`, sync and reconcile scripts) | marks in the destination, pipelines to both databases | mark, compare, create, set, delete, call back | the databases change during the comparison, connections break | the destination equals the source |
| Objects (`src/cps_api_object*.cpp`, `src/non-core/cps_api_object_tools.cpp`) | one buffer of nested attributes, reference counts, lists | add, delete, merge, clone, swap, lists | every edit moves memory by lengths it computes itself; calls differ in who owns a reference | the buffer holds what was put there; counts are the holders |
| Metadata (`src/metadata/*`) | names, numbers, keys, owners, enumerations; parameters | load libraries and files, look up, set and follow a parameter | lookups while another thread loads; caches; files of several versions | a lookup tells what was installed |
| YANG tools (`scripts/lib/yang_tools/py`) | history files, categories, generated headers | number names, keep the numbers | runs that are cut off or overlap | numbers are distinct and stable |
| Python bindings (`src/python_extension/*`) | contexts and method dictionaries of registered callbacks, the interpreter's lock (GIL) | register, call, be called back, convert objects to dictionaries and back | the service's thread calls Python while other threads hold the GIL and wait for the service; references are counted by hand | what a callback uses is alive; nobody waits in a circle; objects survive the conversion |
| Wire protocol, command line tools | nothing of their own | conversions and I/O | none of the above | not modelled |

The parts interact like this.  An application calls `cps_api_register`, which
announces the key to the name service on a connection it keeps; when that
connection is lost, the application announces everything again.  A client that
commits a transaction looks at the storage of each object (a metadata lookup): an object kept
in the database is read, written and published directly, for any other the client asks
the name service for the owner, through its cache, and sends it the request.  Successful
changes are published through the client's own event queue, from which Redis passes them to
the subscribers' adapters.  Which nodes the database code talks to is decided by the node
groups, which the connectivity agent keeps up to date.  All database access shares a pool of
connections.

The places where this code can go wrong in ways a test would hardly reach are the
`hazards` of `PROJECT.json`, each at its line.

## 2. Modules and how they correspond to the code

| Module | Models | Remarks |
|---|---|---|
| `CpsEventQueue` | the event queue | one action per step of `_process_list`, for two walkers: the push thread and the destructor at exit |
| `CpsDirectory` | nothing: the abstract specification of the name service | a closed connection takes all its registrations with it in one step |
| `CpsNameService` | the name service and its key table | `_client_closed_` step by step; refines `CpsDirectory` |
| `CpsDispatch` | `insert_functions` and the choice of the function for a request | pure operators |
| `CpsOwner` | applications, their connections and the name service | composes `CpsDispatch` and `CpsDirectory` |
| `CpsTransaction` | `cps_api_commit` | clients, the node, the owners and a subscriber |
| `CpsRequest` | `cps_api_get`, the owner cache, the handler of a get | uses `CpsDispatch` for the handler; the name service is its answer |
| `CpsNodeSet` | the groups a process works with | used by the next two |
| `CpsConnectivity` | node groups and the connectivity agent | composed with `CpsNodeSet` |
| `CpsSubscription` | the event thread and the adapter | composed with `CpsNodeSet` |
| `CpsPipeline` | connections, their pool, Redis commands, bulk operations | the connections are shared with the next one |
| `CpsSync` | synchronisation and reconciliation | composed with `CpsPipeline` |
| `CpsAttributes` | nothing: what the attributes of an object mean | an ordered tree |
| `CpsObject` | objects and lists of objects | its buffer is compared with the tree of `CpsAttributes` |
| `CpsHistory` | the numbering of the YANG tools | |
| `CpsMaps` | dictionaries as functions | used by `CpsHistory` |
| `CpsDictionary` | the tables of the metadata | looks up what `CpsHistory` numbered |
| `CpsFlags` | the parameters of the library | |
| `CpsPython` | threads, the GIL, registered callbacks and their references in the Python extension | |
| `CpsPyObject` | the conversion of objects to Python dictionaries and back | pure operators, recursive |
| `CpsRegistrations` | the owners of one key, and what is left of them when a connection is gone | used by `CpsDirectory` and `CpsNameService` |
| `CpsRegistrationsProofs` | induction over the natural numbers; proofs about `CpsRegistrations` | extended by most of the next |
| `CpsOwnerProofs`, `CpsTransactionProofs` | proofs about the module of that name; `CpsOwnerProofs` also about `CpsDispatch` | |
| `CpsPipelineProofs` | proofs about `CpsPipeline` and `CpsSync`: types and replies | |
| `CpsSyncProofs` | proofs about `CpsSync`: marks and what is covered | extends `CpsPipelineProofs` |
| `CpsServicesProofs` | proofs about `CpsNameService` and about `CpsEventQueue` | |
| `CpsClientProofs` | proofs about `CpsRequest`, `CpsConnectivity` (with `CpsNodeSet`) and `CpsHistory` | |
| `CpsProcessProofs` | proofs about `CpsFlags`, `CpsPython`, `CpsSubscription`, `CpsObject` and `CpsDictionary` | |
| `MCNameService`, `MCOwner`, `MCTransaction`, `MCConnectivity`, `MCSubscription`, `MCRequest`, `MCSync` | values of constants for TLC | `CpsEventQueue` needs none |
| `MCObject`, `MCMetadata` | values, and the order in which callers and stages take turns | `MCMetadata` composes `CpsHistory`, `CpsDictionary`, `CpsFlags`, `CpsPython` and `CpsPyObject` |

Variables carry the names of the code's variables where they have one; the comment
beside each declaration names the code's otherwise.  `map` in `PROJECT.json` gives the
lines of every definition.

**`CpsEventQueue`.**  `events` is `*_events`, `list[w]` and `ix[w]` are the vector and the
index of a walk, `conn[w]` its `current_addr`, `buffer[w]` the output buffer of its Redis
connection and `stamp[w]` the sequence number written into the entry.  A sent or
discarded entry keeps its place with a null pointer.  Losing a socket is one action
with all its outcomes: the node has read a prefix of what was buffered, may yet read
some more at any later time (`late`), and loses the rest.  `++_pushed` is not guarded
by a lock, so that an increment may be lost when the destructor runs beside the push
thread.  `lossy` is a history variable: it becomes true with the first step that may
lose an accepted event for good.  Time is abstracted: each of the code's timed waits
only delays a step.  The failures simulated for the unit tests are left out, and so is
the logging.

**`CpsNameService`.**  `cache` maps a hash to its bucket, a sequence of keys with their
owners.  The hash is any function from keys to hashes.  `closing`, `todo`, `bucket`,
`keyIx` and `entryIx` are the state of the walk in `_client_closed_`; the unordered map
gives buckets in any order.  The walk holds `cache_lock`, so requests are served
only when it is over.  `notified` is the last registration event of each key.

**`CpsOwner`.**  `app[o]` and `svc[o]` are the program counters of the application's thread and
of its socket service's thread, `lock[o]` the writer of `db_lock`.  `reconnect_with_ns` is a
sequence of actions that either thread may be in.  A connection has two ends
(`ownerOpen`, `nsOpen`) and a channel; the name service may crash with everything it
knows, which closes its ends and empties the channels.  Descriptor numbers are used
again once nobody holds them.

**`CpsTransaction`.**  A client builds a transaction, then `ix` walks `change_list` forward,
and backward after a failure.  `prev` is the list of previous objects with the
positions the code uses, blank objects and null pointers included.  A database change is
three steps (load, write, publish), between which other clients may act.
`before` and `met` are history variables: the objects as they were when the commit
began, and the kinds of failure the behaviour has met.  `mirror` is an external
subscriber that applies the events.  A group has one node.  A delete whose reply is lost counts as
done (`DeleteLost`), an event that cannot be published is skipped (`Publish`), and neither makes the commit
fail; `met` records them with the key.  `_ignore_communication_errors`, which is 0 unless a parameter
sets it, is not modelled.  Owners have a write and a rollback function; the handler
answers OK for a key without one (`cps_api_operation_service.cpp:268`), which is not modelled.

**`CpsRequest`.**  One client issues gets.  The database is that of a group, read node by node (`node` in
`Databases`): the return code is that of the last node, and a lost reply cuts the objects of a
node short and is OK (`DbLost`).  `cache` holds the owner of a key with its age,
and `lag` is a history variable: how long ago the name service gave the owner a request
is sent to.  Answers are streams of objects that an owner sends one by one and that end when
it does.  An owner that ends in the middle of an answer is seen as the end of the answer
when the client waits with a timeout, as an error otherwise, as in the code.

**`CpsNodeSet` and `CpsConnectivity`.**  `config` is the connectivity groups in the local
database, `groups` the process's copy, replaced only when the hash of the names differs.
Node names are sequences of characters because `cps_api_set_master_node` compares them as prefixes.
An address is 127.0.0.1 with a port of the tunnel (`Port`), as the agent writes it; for such
addresses `update_slaves` finds every node local, so that nobody is ever made a slave, and replication is
not part of the state.  Where a tunnel leads is told by the name of the node.  `wanted` is
what `cps_api_set_node_group` stored; the object is one field of a hash, so that a set replaces it.
The agent's `_sync` is one step.  Which groups it could read, which connections it
knows of, which tunnels could be built and whether its configuration was written are inputs
(`read`, `known`, `built`, `written`): a database that does not answer gives it less, and it goes on.
The agent and the process may be
restarted, and the local database be lost and come back, at every step.

**`CpsSubscription`.**  `holder` is the holder of the handle's mutex, `reg` and `wait` the
program counters of the registering and of the event thread.  `groupReg` and `keys` are
`_group_reg` and `_keys` of every node, `subs` what the node itself has subscribed.  Answers to
`SUBSCRIBE` are read from the stream that carries events; what is read on the way is kept in
`stash`.  A load that the database does not answer leaves the groups that were read before
(`LoadCutShort`).  Which callback an event is given to is left out.  `unread`, `view` and `missed` are history
variables.

**`CpsPipeline` and `CpsSync`.**  A connection is the requests in its output buffer and the
replies not yet read (`Outstanding` is both, in order).  Redis executes what is flushed as it
is, one command after the other.  `held` gives the connections a thread has taken, `pool` the
others.  Operators named `...Outcomes` give the set of results of a call, failures
included.  When a request cannot be appended, `operation()` reconnects once and appends it again, which loses what was
buffered before (`Rebuffered`); the actions named `...Retried` and `...Fails` are the two ends of
this.  A pipeline of `_IN_THE_PIPE` requests is `Pipe` long.  `touched`, `lostBy` and `gaveUp`
are history variables: another process changed the databases, a thread lost a
connection, requests and replies may be out of step: a connection went back with replies, a
request was buffered again on a new socket with others lost, or the second request of a
synchronisation failed.

**`CpsObject`.**  A buffer is a sequence of cells; a header is one cell with its identifier and
length.  `add_embedded` is translated with its two loops (`Counted`, `Entered`), every removal
as the `memmove` it is (`Cut`), every growth with the size the code computes.  `attrs` is the
tree the callers have asked for (`CpsAttributes`), `torn` the objects whose buffer
`add_embedded` has damaged.  `ref` is the count in the object, `held` how many references the
caller owns.

**`CpsHistory`, `CpsDictionary`, `CpsFlags`.**  `hist`, `conf` and `header` are the files; a write
opens (and empties) the file in one step and fills it in another, so that a crash may come
between.  `given`, `overlaps` and `lost` are history variables: the last number of every name, the models
whose runs overlapped, those whose numbers a crash left unsaved.  In the dictionary a
lookup is two or more steps (take the lock if it has one, load if it is the first, look), and
the unlocked ones may miss what another thread is inserting.  Versions of files are sequences of
numbers; `Position` computes the order the code gives them.  An entry of a file may bring a node of its own, and is
dropped when its key has a name that is not known by then (`RegisterEntry`).  The key of an
object in the database is a sequence of bytes: the values joined by `Separator`, a wildcard where one is missing or is
the byte `Star` (`DbKey`).

**`CpsPython` and `CpsPyObject`.**  `gil` is the thread with the interpreter's lock, `at[t]` and
`frames[t]` where a thread is and the functions of the extension it is in, `functions` what is
registered, `context` and `refs` the context and the reference count of each dictionary of methods.
A function that releases the GIL gives it up and takes it back in steps of its own; a callback runs
in the thread of the operation service.  `kept` and `leaked` are history variables: the references
the program has, and those `call_object` does not give back.  `CpsPyObject` turns a tree of
attributes into a dictionary and back, with what the metadata says of each identifier; a dictionary
has no order of its own, so that the way back gives a set of objects.

## 3. What the runs check

| Run | Result | Shows |
|---|---|---|
| `EventQueue` | holds, 92,567 states | `DeliveredOnce`, `OrderedDelivery`, `NothingLost`, and under fairness `EveryEventLeaves` |
| `NameService` | holds, 369,082 states | `EventsMatchTable`, `OrphansOnlyByCollision`, `QueryAnswersDirectory`, the refinement `ImplementsDirectory`, and under fairness `CleanupEnds` |
| `Owner` | holds, 354,114 states | `MostSpecificFirst`, `AnnouncedOnHandle`, `RoutedToMostSpecific`, and under fairness `RegisteredInTheEnd` |
| `Transaction` | holds, 10,087,286 states | `SubscriberFollowsDatabase`, `CommittedAsAsked` (`SuccessMeansApplied` and `LastChangeStands`), `FailureUndone` (`FailedSetsRestored` and `OwnersRestored`) |
| `Request` | holds, 4,959,222 states | `OkMeansComplete`, `SentToRecentOwner` |
| `Connectivity` | holds, 1,424,534 states | `ClientsSeeWanted` |
| `Subscription` | holds, 327,535 states | `StateEventsTrue`, `EventsKeptInOrder`, `KeysMissedOnlyByRejoin`, and under fairness `SubscribedInTheEnd` |
| `Database` | holds, 2,986,600 states | `PipelinesAligned`, `AttributesKept`, `SyncedMeansCovered`, `DeletesItsKey` |
| `Objects` | holds, 227,566 states | `BufferHoldsAttributes`, `ReadersFindNamed`, `MergeKeepsAll`, `RefsCounted` |
| `Metadata` | holds, 1,111,638 states | `DistinctIds`, `LookupsTellMetadata`, `KeyAttrsComplete`, `InstancesApart`, `TargetFollowsFlag`, `CallbacksAlive`, `NoWaitCycle`, `SurvivesPython`, and the action property `StableIds` |
| `TransactionRollback` | violated | `RolledBackAtomically`: creates and deletes of database objects are not rolled back |
| `ObjectEmbedded` | violated | `EmbeddedAddsKeepObject`: an embedded add overwrites the attribute behind it |

Every property is stated in words above its definition, and each has a mutant in
`PROJECT.json`: a plausible slip in the definition it names makes TLC find the property
violated.  Many properties of this code hold only with exceptions; the exceptions are part of
the formula, each named by a history variable, so that the property says exactly which
sequences of events it may fail after.

### Disagreements between the code and what it says of itself

The two runs that are violated:

* **Rollback of creates and deletes** (`cps_api_db_operations.cpp:72`).  A DELETE is turned into
  a CREATE and by the next line into a DELETE again.  A CREATE has no previous
  object, so nothing is deleted.  `cps_api_operation.h:452` promises an atomic rollback.
* **Embedded attributes** (`cps_api_object.cpp:513`).  The loop that counts the missing headers
  searches past the end of the container it stands in, the loop that writes them does not.  With
  `{list,0,sub,0,x}` and `{list,1,x}` present, adding `{list,0,sub,1,x}` reserves one header too
  few and overwrites the next one.

Exceptions the properties state, each a weakness met while modelling:

* **Lost deletes** (`cps_api_db_direct.cpp:234`, `CommittedAsAsked`, `SubscriberFollowsDatabase`).  The result of a
  delete is ignored and the return code set to OK: a delete whose reply is lost is
  published, and the commit succeeds.
* **Unpublished events** (`cps_api_db_direct.cpp:345`, `SubscriberFollowsDatabase`).  A connection that is not
  valid is skipped and a failed publication logged; the commit succeeds.
* **Gets over several nodes** (`cps_api_db_direct.cpp:101`, `OkMeansComplete`).  A node that was not reached is forgotten
  when the next one answers, and one whose reply was lost (`cps_api_db_connection.cpp:542`) is OK.
* **Retried requests** (`cps_api_db_connection.cpp:438`, `PipelinesAligned`).  A reconnect inside a pipeline loses the requests
  buffered before, and the call succeeds: their replies never come.
* **Unanswered syncs** (`cps_connectivity_agent.py:167` and `:244`, `ClientsSeeWanted`).  What the agent could not read or
  write is not tried again before the next event.
* **Exact filters with keys** (`cps_api_operation_common.cpp:232`, `OkMeansComplete`).  With keys, `cps_api_get` works on a
  copy of the request that has taken the list, and filters the caller's, which is empty:
  nothing is excluded, where `cps_api_object_tools.h:182` promises "an exact match against all attributes".
* **Merges** (`cps_api_object.cpp:301`, `MergeKeepsAll`, `BufferHoldsAttributes`).  An attribute of both objects is deleted
  from the destination, and from the copy of the source when it is empty there, so that it is in neither.
  `cps_api_object.h:204` says that the destination "will contain all of the attributes of both objects".
* **Order of metadata files** (`cps_api_metadata_import.cpp:320`, `LookupsTellMetadata`).  The parts of a version are
  divided by 1, 40 and 80 and added up: 1.0.3 is 1.0375 and 1.1 is 1.025, so that the files are read in the
  wrong order, where the comment speaks of "decimal places to shift each time".  What such files tell of owners and
  enumerations is excepted (`OutOfOrder`).
* **Bytes in keys** (`cps_api_db_object_key.cpp:71` and `:115`, `InstancesApart`).  A complete key in which one attribute is the
  single byte `*` (a number 42 too) is taken for a pattern, although no wildcard was announced and
  `cps_api_operation.h:240` says that attributes are "specific values".  Two instances have the same key when a value
  holds the byte that separates the values.
* **Cleanup of colliding keys** (`cps_ns.cpp:349`, `OrphansOnlyByCollision`).  After erasing a key from
  its bucket, the index is set to 0 and then incremented, so the bucket's first key is skipped.
  A registration of the closed connection under that key stays.  For keys that have
  their bucket to themselves the refinement of `CpsDirectory` holds.
* **Bulk sets after a lost reply** (`cps_api_db_connection.cpp:542`, `AttributesKept`).  `response` ends
  with the return code OK in every case; `merge_objects` then fails with OK, and
  `cps_api_db_commit_bulk` stores the objects without what was stored before and returns OK.
* **Replies left behind** (`cps_api_db_pipeline.cpp:162`, `PipelinesAligned`).  `merge_objects` stops at an
  object that is missing, and the connection goes back into the pool with the other replies due.
  A thread that reads from a connection to the local node it has lost waits for ever
  (`cps_api_db_connection.cpp:517`).
* **Synchronisation after a lost connection** (`cps_api_db_interface_tools.cpp:380`, `SyncedMeansCovered`).
  Objects of the source that could not be read count as not there, and are deleted in the
  destination.  A mark on an object deleted meanwhile makes a hash without an object, and the
  deletion then hits the object read before it (line 213, `DeletesItsKey`).  A callback that
  returns false does not end the processing.
* **Equal hashes** (`cps_api_node.cpp:423`, `ClientsSeeWanted`).  Groups whose names hash to the same
  value are not loaded; the type of a group is not part of the hash.
* **Rejoined nodes** (`cps_api_db_event_adapter.cpp:182`, `KeysMissedOnlyByRejoin`).  The mark of a
  node for a group is never taken back while it stays connected: keys added while it was out of the group are
  not subscribed when it comes back.
* **Early lookups** (`cps_dictionary_loader.cpp:132`, `LookupsTellMetadata`).  The flag is set before the
  tables are loaded; some lookups take no lock (data races); `cps_api_attr_name_to_id`, `cps_class_key_from_string`,
  `cps_api_obj_get_ownership_type` and the lookups of enumerations never load.
  `cps_class_key_from_string` returns true with the key {0} then.  The key attributes found
  too early are kept for ever (`cps_dictionary.cpp:457`, `KeyAttrsComplete`).
* **Two handlers at once** (`cps_dictionary.cpp:187`, `TargetFollowsFlag`).  The later one may assign
  the older value.
* **Interrupted and parallel builds** (`object_history.py:600`, `StableIds`, `DistinctIds`).  The header is
  written before the history, the history is emptied before it is filled, and two runs may take
  the same new category.  While one run rewrites `category.yconf` the file is empty, and a run that
  starts then does not know which categories are reserved: it may give a reserved one away, or a
  model with a reserved one another.  `Disturbed` names these cases.

Seen while modelling, without a property:

* **Names of masters** (`cps_api_db_node_set.cpp:210`).  `cps_api_set_master_node` compares as many
  characters as the given name has: the first node whose name begins with it becomes the master, which
  need not be the "name of the node which is part of the group" (`cps_api_node.h:115`).
* **Early events** (`cps_api_events.cpp:219`).  A callback is added when the subscription has been made; an event that
  arrives in between is dropped.
* **Concurrent sets** (`cps_api_db_direct.cpp:263`).  Read, merge and write are separate requests: of two
  clients that set different attributes of an object and both succeed, one loses its attribute.
* **Limit of the event queue** (`cps_api_db_events.cpp:392`).  The trim is guarded by the length of
  the list published meanwhile, which stays below the red line: with a node that refuses
  everything the queue grows without bound.
* **Names of enumeration fields** (`cps_dictionary.cpp:202`).  `_id_to_str` keeps the caller's pointer, which
  for a metadata file points into the document that is unloaded afterwards.
* **Library flags** (`cps_dictionary.cpp:168`).  `cps_api_get_library_flags` looks up the output buffer, not the
  flag.  A failed `cps_api_array_to_object` on a stack object drops its attributes
  (`cps_api_object.cpp:652`), and a failed merge has already removed the duplicates.
* **Category files** (`object_history.py:494`).  `bool("False")` is true: after the first rewrite the
  automatic numbering of enumerations is on.
* **Python extension** (`python_extension/`).  `py_add_object_to_trans` appends the change itself as the
  previous object; the list `py_cps_get` fills is only borrowed while the GIL is released; `call_object`
  does not give back its arguments when the method is missing; `_rollback_function` always fails; a
  context is not freed when the registration fails, as `cps_api_register` never says so.  `obj_stats`
  of an object of the own process waits for the service with the GIL in hand, for which a callback
  waits (excepted by `NoWaitCycle`); so does `py_cps_enabled`.

### Bounds, and why they are enough

* `EventQueue`: two nodes, three events, a queue that is full at two and a red line of 0, so
  that a list can be full, halted, put back and trimmed while another event is
  published, and all kinds of failure meet two nodes.  Order and duplicates are
  relations between two events; the third lets one be between them.
* `NameService`: a key, a key below it and two keys of one bucket; two descriptors and two
  clients, so that a descriptor is used by another client after its first one has
  gone; four registrations in the table, so that a key has several owners and a client owns
  one key twice.
* `Owner`: one application with two keys, two registrations, four connections, one
  crash of the name service, which may also be down at first, and one refused client: enough
  for both threads to reconnect at once and for a handle to go stale.  `RoutedToMostSpecific` is
  thus checked within one application; between several, the choice is the name service's
  (`QueryAnswersDirectory`, with two clients).
* `Transaction`: one client, one database and one owned object, objects with two attributes, of
  which a change sets one or both, and up to three changes, so that one object is
  changed twice before a failure.  Every kind of failure the code handles can happen, at most two
  different kinds in one behaviour (`MaxMet`; a lost delete and an unpublished event are kinds of their own): one that makes the commit fail, and
  one that meets the rollback.
* `Request`: two owners, one of which serves a key and the other one above it, four shapes of
  gets (two filters of which one or both are exact, a get of keys, an empty one), a group of two
  databases of which the first is empty, three gets, two
  moves of keys and three ticks with an expiry of one: an entry can be made, used, expire and be
  made again between two gets.
* `Connectivity`: three nodes, one of which has a name that begins with another's, a group that
  is set, changed in its type and deleted, and two faults (restart of the agent or the
  process, lost database, dead tunnel, refused tunnel) at any point, so that one can meet the repair of the other.
* `Subscription`: two nodes, the local group and another one, two keys of which one is filtered, and
  two changes (of the group, of a node's state, or an event published).
* `Database`: two databases with three objects, pipelines of two, so that a walk needs a second
  round, two calls and one trouble (a lost connection or another process's change) at any
  point.  The first synchronisation meets an object to create, one to change and one to
  delete, in any order, or two equal databases.
* `Objects`: three edits with one move, or three moves with one edit, on two allocated objects and one
  on the stack, starting empty or with nested lists; five paths, among them the entries of two
  nested lists whose identifiers coincide.  Sizes (`DefSize`, `StepSize`) are so small that every
  other edit reallocates.
* `Metadata`: two models with two names at a time, one of which comes and goes, and a version with
  more names than a category has numbers; three runs of the tool by two processes, without a
  category file, with one that reserves a category, and with one that is refused as it gives two
  models the same; two threads, three lookups, three
  files (without a version, 1.0.3 and 1.1, so that the code's order is not that of the versions), of which one brings
  a node that another one's key names; keys with values of one and two bytes, the byte `*` and a value with a
  separator; objects with lists in the entries of lists for the conversion; two threads and three calls for
  the parameters; two Python threads beside the service's, two registrations and four calls, nested
  at most twice, so that a callback calls the library while both program threads are in it.  Only what
  distinguishes numbers is kept when the headers are installed, and headers that give a number twice are
  not installed, as nothing is claimed of lookups then.

Symmetry is used in `Objects` (lists) and `Metadata` (tools, threads, setters), where no liveness is
checked.  `CHECK_DEADLOCK FALSE` is given for `Owner`, `Request`, `Database`, `Objects`,
`ObjectEmbedded` and `Metadata`: there the bounds, or processes that have ended, stop the system.

### Fairness

* `CpsEventQueue`: the push thread and the exiting thread run.  `SendEvent` is strongly fair:
  a node that can be connected to, again and again, does not refuse every append for ever.
  Nothing is assumed of a node that cannot be connected to: each
  failed connection uses up the event it halts at.  Without the assumption on `SendEvent`
  the queue grows past its limits, as described above.
* `CpsNameService`: the service's only thread runs its walk.
* `CpsOwner`: threads run, the timer of the socket service fires, `db_lock` is granted to a
  thread that asks for it again and again, and a running name service reads its
  sockets.  Nobody has to start the name service, whose unit file has no
  `Restart=`; the property is therefore about behaviours in which it stays up.
* `CpsSubscription`: both threads run, the mutex is granted to a thread that asks for it again and
  again (hence strong fairness of the steps that take it: the event thread releases it around
  every select), and time passes, so that cached groups are loaded again.
  Nothing is assumed of the nodes: the property speaks about those that can be reached.

## 4. What is proved

35 theorems are checked by TLAPS.  Each holds for every value of the constants that satisfies the
assumption of its module (`EventQueueAssumption`, `NameServiceAssumption`, ...), which says of what
type the constants are and, for `CpsSubscription`, that there are finitely many nodes, for `CpsPipeline`, finitely many keys; TLC
evaluates the assumptions in the runs.  The bounds of the runs are constants too, and any
natural number in the proofs: what a run shows for three events or two owners, the theorem shows for
all.  Every proof has the same shape: a lemma for the initial states, one for each action or group of actions
that keeps the inductive invariant, and the theorem, which combines them.

| Theorem | States | Inductive invariant |
|---|---|---|
| `CpsServicesProofs!QueueTyped` | `TypeOK` | `QInv` |
| `CpsServicesProofs!NeverDeliveredTwice` | `DeliveredOnce` | `OnceInv` |
| `CpsServicesProofs!DeliveredInOrder`, `NoEventLost` | `OrderedDelivery`, `NothingLost` | `OrderInv` |
| `CpsServicesProofs!EventsFollowTable` | `EventsMatchTable` | `TableInv` |
| `CpsServicesProofs!OrphansShareBuckets` | `OrphansOnlyByCollision` | `OrphanInv` |
| `CpsServicesProofs!TableIsDirectory`, `AnswersFromDirectory` | `ImplementsDirectory`, `QueryAnswersDirectory` | `OrphanInv` |
| `CpsOwnerProofs!FirstHandlerIsMostSpecific` | what the handlers pick from an ordered list | |
| `CpsOwnerProofs!AlwaysMostSpecificFirst`, `ApplicationsTyped` | `MostSpecificFirst`, `ProcessesOK` | `IInv` |
| `CpsOwnerProofs!AllTold` | `AnnouncedOnHandle` | `ToldInv` |
| `CpsOwnerProofs!FoundInTheEnd` | `RoutedToMostSpecific` | `RouteInv` |
| `CpsTransactionProofs!Followed`, `Committed`, `Restored` | `SubscriberFollowsDatabase`, `CommittedAsAsked`, `FailureUndone` | `IInv` |
| `CpsClientProofs!OwnersAskedAreRecent` | `SentToRecentOwner` | `OwnerInv` |
| `CpsClientProofs!OkIsComplete` | `OkMeansComplete` | `OwnerInv` and `ListInv` |
| `CpsClientProofs!ProcessesSeeWanted` | `ClientsSeeWanted` | `WantedInv` |
| `CpsClientProofs!NumbersDistinct`, `NumbersStable` | `DistinctIds`, `StableIds` | `HistoryInv` (theorem `HistoryInvariant`) |
| `CpsPipelineProofs!SyncTypeInvariant` | `TypedInv` | `TypedInv` |
| `CpsPipelineProofs!AttributesStayKept` | `AttributesKept` | `TypedInv` |
| `CpsPipelineProofs!RepliesAligned` | `PipelinesAligned` | `TypedInv` and `AlignedInv` |
| `CpsSyncProofs!DeletesTheMarked` | `DeletesItsKey` | with `MarkedInv` |
| `CpsSyncProofs!SyncCovers` | `SyncedMeansCovered` | with `CoveredInv` |
| `CpsProcessProofs!TargetHasTheValue` | `TargetFollowsFlag` | `FlagsInv` |
| `CpsProcessProofs!CallbacksStayAlive`, `NeverWaitInCircle` | `CallbacksAlive`, `NoWaitCycle` | `PyInv` |
| `CpsProcessProofs!ConnectionsTold`, `EventsInOrder`, `OnlyRejoinMisses` | `StateEventsTrue`, `EventsKeptInOrder`, `KeysMissedOnlyByRejoin` | `SubscriptionInv` |
| `CpsProcessProofs!CountsRight` | `RefsCounted` | `ReferencesInv` |
| `CpsProcessProofs!KeyAttrsTold` | `KeyAttrsComplete` | `DictInv` |

`CpsRegistrationsProofs` derives from the well-foundedness of `<` that a set of natural numbers with
0 and with the successor of each of its members is all of them (`LeastNumber`, `Induction`).
With it the recursive functions `Kept`, `Steps` and `Matching` are shown to satisfy the equations they
are defined by, and to have the properties the proofs need.

### The event queue

`TypeOK` alone is not inductive: `SendEvent` uses the entry the walk stands at, which is
an entry with an object only because the walk was there when it stamped it.
`SendingOK` says so, and `QInv == TypeOK /\ SendingOK` is inductive.  `TypeOK` is only proved; no run lists
it.

`DeliveredOnce` speaks about what the nodes have received.  It holds because an event is at
one place at a time on its whole way: in `events` or in the list of one walker
(`WaitingOnce`), then in one output buffer, in one dropped socket or at one node
(`SentOnce`), and never among both (`SentAfterWaiting`, which also says that only
published events are anywhere, so that the next one is new).  `OnceInv` is the
conjunction with `QInv`.  Each step that moves events has a lemma: what an append adds
(`AppendSent`), what a lost or closed socket splits into the part the node has read, the
part it may yet read and the part that is gone (`LeaveSent`), and what a node reads late
(`LateSent`).  The null pointer that `SendEvent` leaves behind in the list is what makes
the retry of a halted list safe (`LiveNulled`).

`OrderInv` adds, as long as nobody but the push thread walks (`MutexFree`): the queue ascends and what
is walked is older than what was published since (`QueueOrdered`), what is buffered is the
youngest of what was sent (`BufferLast`), the nodes have what they read in order (`NodesOrdered`),
sequence numbers ascend with the events, wherever they are by now (`MarksOrdered`), the place of the walk
tells what its list and stamp are (`WalkOK`), and until something is lost the first `pushed` events were
sent and the others wait (`AllThere`).

### The name service

`TableInv` says that every key is in the bucket of its hash, once, that a key without owners is the
one the walk stands at, and that the last event of a key is CREATE as long as it has owners.
`OrphanInv` adds that a connection being cleaned up after is closed, and that every registration
of a key with a bucket of its own is of a connected application or lies where the walk has yet
to come (`OwnersKnown`).  The refinement maps the table to the directory in which the registrations of a
connection are gone as soon as its cleanup has begun (`Contents`, built with `Without`): the first step
of the cleanup is the directory's step, all later ones are stutters, because erasing a registration that
`Without` leaves out changes nothing (`WithoutErased`).

### The object owners

`Ordered` is kept by `insert_functions` because the prefix relation is transitive and
antisymmetric (`PrefixTransitive`, `PrefixAntisymmetric`): the place the loop stops at is
behind no key above the new one, and the function that stops it is above whatever
the new one could hide, so both have the same key (`InsertOrdered`).  The inductive
invariant is `IInv == ProcessesOK /\ ThreadsOK /\ MostSpecificFirst`.  `ThreadsOK` is needed
because the insertion takes its argument from `adding`, which is a function only where the
program counter says so, and because a handle is added to the service only where it is
valid.

`ToldInv` adds that on a handle that works every function has been told, or a thread of the application
is on its way to telling it (`StillToTell`): this is what the two threads that reconnect must
not break for each other.  `RouteInv` adds that what the name service has read, or will read,
on a connection was registered by the application at its other end (`ToldByOwner`).

### Transactions

`TxInv` holds for any number of clients: where a client is, how long its list of previous objects is, and
that the previous object of an owner stands where its change does.  The properties are about a
client that is alone, and so is `LoneInv`: which failures have been met by where the client is
(`Failures`), that the subscriber lacks at most the event about to be published (`Follows`), that the
last of the changes made stands (`LastStands`), that on the way forward the objects are what the first
changes make of them and the previous objects are the ones before each change (`Forwards`), and that on the way
back they are what fewer and fewer changes make of them (`Backwards`).  `After(c, n)` is the objects after
the first n changes, by the recursive function `Steps`.  What a failure excuses is excused key by key
(`Spared`): an object whose delete was lost, or whose event was not published, leaves all
others as they are claimed to be.

### Gets

`OwnerInv` bounds the age of what is cached and of what the client has found by the clock of the
history variable `moved`.  `ListInv` follows the list: up to `_cur_lst_len` it is made of what the earlier filters
contributed (`DoneBefore`); behind it lies a beginning of the owner's answer, and what is on its way
continues it (`Answering`), so that when GET_DONE is read everything is there (`Added`).  Without a
timeout the return code is an error until then, which is why an owner that ends is noticed.

### Node groups, parameters, Python

`WantedInv` follows a group from what was set to the configuration, once the agent
has been told of all changes and the database has answered it (`SyncFollows`), and to the process, once it has loaded (`ConfigFollows`, `GroupsFollow`).
`FlagsInv` says that a target without the value is about to get it and that a handler
with an old value is followed by another one.  `PyInv` counts the references of a
dictionary holder by holder (`RefsInv`), and says who may have the GIL (`GilInv`) and that the service's
thread is in one callback at a time (`ServerInv`).  `FlagsSpec` and `PythonSpec` are what the
run `Metadata` steps through in its stages "flags" and "python".

### The subscription

`SubscriptionInv` is the conjunction of the three properties with the types and `KeysSubscribed` (what counts as subscribed
on a connection, the node has subscribed).  What an application will know of a node
is the last connection event about it (`ToldAppended`, `ToldFirst`).  The set of nodes is finite: a round of the
maintenance queues one event for each.

### The numbers of the YANG tools

A directory whose first `category.yconf` is refused never changes (`Refused`); otherwise `BuildInv` holds.  A
model *holds* a category where a file, the table of a run or a run itself gives it that category
(`Holds`).  A category held in the next state was held before in another place, unless a run
takes a new one (`Takes`); one that takes a new one is the only run of its model and has seen the
categories of all the others that are not running (`SeesConf`, `SeesFiles`, `Knows`).  So a model holds
one category (`OneCategory`) and two models different ones (`OwnCategory`), unless they are among
the disturbed ones the properties except.  The numbers of a history, a run and a header are distinct
and lie in the span of its category (`AllNumbered`), which makes those of two models different; and
what a header gave is in the book of its model, or in the run that is about to write it
(`GivenInBook`, `GivenInRun`), which makes them stay.  The attempt to prove this showed that `Disturbed` has to
except a reserved category whenever runs overlap, those of a third model included: two
models are not enough to see it.

### Connections and the synchronisation

The proof has four layers, each an inductive invariant that uses those below it.  TLC has checked all
four on the instance of the run `Database`.

`TypedInv` gives the types, and the connections a synchronisation has at each place (`Needs`).  It is stated for a set of
values (`TypedFor`) and kept for two of them: all objects always, and the complete ones as long as no bulk
operation has lost a reply.  The second is `AttributesKept`: what is complete in the databases, the
requests, the replies and the list of a bulk set stays so, because a merge with a complete object
is complete.

`AlignedInv` says that a connection in the pool has nothing outstanding, and that one in use owes
exactly the replies its thread is going to take (`Due`, `Served`), or was lost to that thread.  What a pipeline is
waiting for depends on the place alone (`Pending`): all keys of the cache, or those behind the first when its
reply has been taken.  Nothing is claimed once `gaveUp` is set: a bulk set stopped at a missing object, a connection was
replaced below buffered requests, or the second request of a synchronisation failed.

`MarkedInv` is about a synchronisation that lost no connection and beside which nothing was deleted.  Every
mark is on an object, so are the keys about to be marked, and the replies that wait on `delete_meta` tell the marks
as they are (`Answered`): the objects they speak about are only changed after their reply is taken.  So a
mark that was found is on the object that is read next, and the object read is the one deleted.

`CoveredInv` is about one that nothing touched.  It is a statement for each phase: while the destination is
marked, an object is marked, or its key is yet to be sent (`ToMark`); from then on, objects that the source has
not are marked (`OthersMarked`); while the objects are compared, an object of the source has its key still
ahead, or is covered, or the application refused a change (`ToCover`); in the last phase all are covered (`AllCovered`) and what the source has
not is ahead (`ToRemove`).  The steps of bulk operations, which use the same pool, keep all this because they leave
the connections of the synchronisation alone (`HeldSame`) and are counted in `touched` when they write (`Beside`).

### Objects and their references

`CountsRight` is about `ObjectSpec`: any number of objects and lists, and any call of the interface with any
arguments (`Edit`, `Move`), where the run `Objects` takes four objects, one on the stack, and two lists.  `ReferencesInv` is the property with
the types of the counts and the lists, and says that an object has finitely many entries.  Each call is
reduced to one equation (`Balanced`): what it adds to the count of an object, less what it adds to the holders,
is what it adds to the entries.  The lemmas on `Occurs` say how many entries a sequence has when it is
appended to, joined, overwritten at one place or loses one.  Objects on the stack are not counted by the
code (`obj_delloc` leaves them alone) and are excepted.

### The dictionary

`KeyAttrsTold` is about `DictSpec`, for any libraries, files and threads that are `Installed`: the libraries are
those of the search path, each has its list and a number for every name, and the files describe nodes of the
libraries, or nodes of their own with other numbers, which their keys contain.  `DictInv` says that there is one loader, that until it has finished every node
is in the tables or still to come (`NodesComing`), that a key leads to the number of its node and back
(`KeysRight`), and that key attributes that were kept for a number are all of them unless they were kept while the
loader was at work (`CachesRight`).  When numbers collide the tables mix two nodes, and nothing is claimed.

### Only model-checked

* `EveryEventLeaves`, `CleanupEnds`, `RegisteredInTheEnd` and `SubscribedInTheEnd`: liveness under fairness is out
  of the prover's reach.
* `SurvivesPython`: the conversions are RECURSIVE operators over trees.
* `BufferHoldsAttributes` and `ReadersFindNamed` of `CpsObject`: `Decode` recurses over trees of any depth.
* `LookupsTellMetadata` of `CpsDictionary`: which file counts depends on the order the code gives the files (`Position`), which
  is not that of their versions (`Lower`) already for 1.0.3 and 1.1; the property excepts those (`OutOfOrder`).
* `InstancesApart` of `CpsDictionary`: the bytes of a key are joined by a fold over a sequence.
* `MergeKeepsAll` of `CpsObject`.
* The two violated runs, which refute what they state.

## 5. What is not modelled, and the plan

Not modelled, because there is no state to get wrong or because it is plain I/O: the
wire format, the command line tools, the database manager that starts
Redis servers, the parsing of YIN and the text of generated code.

Inside the modelled parts: statistics, logging and waiting times; actions
(`cps_api_perform_action`); `cps_api_db_config_write`, gets by wildcard, bulk creates and
bulk operations over several nodes, atomic counters, replication commands (no group the agent writes leads to any), ignoring
communication errors (`cps.db.ignore-comm-failure`); the choice of the callback for an event and the shutdown of the event thread;
`append_copy`'s exception path and `cps_api_object_reserve` with less than is used (not called
so); printing and parsing of keys and attributes; enumerations in the history files; the key
functions of the Python extension.

Simplified: a descriptor that `register_one_key` has closed is closed again by its callers
(`cps_api_operation_service.cpp:393`, `:411` and `:454`), and is taken not to be another connection's by then; an iterator
that the maintenance of the adapter uses after an erase (`cps_api_db_event_adapter.cpp:518`) only skips nodes; a tool that
ends while it prints a header leaves the one before.

Left for later: the parts above; `BufferHoldsAttributes` for buffers without nested attributes, where
`Decode` is a recursive function over a sequence and the method of `CpsRegistrationsProofs` applies; and
`LookupsTellMetadata`, which needs the position of a file in any order of them.
