--------------------------- MODULE CpsTransaction ---------------------------
(***************************************************************************)
(* Transactions: cps_api_commit (src/src/cps_api_operation_common.cpp),    *)
(* its handling of objects kept in the database                            *)
(* (src/src/db/cps_api_db_operations.cpp, src/src/db/cps_api_db_direct.cpp)*)
(* and its requests to the owners of the other objects                     *)
(* (src/src/cps_api_client_ipc.cpp).                                       *)
(*                                                                         *)
(* A client builds a list of changes and commits them one by one; the      *)
(* first failure makes it undo the earlier ones, last to first, from the   *)
(* list of previous objects.  Each change of a database object reads,      *)
(* writes and publishes an event in separate requests to the node, so that *)
(* clients interleave.  All objects have automated events, and the group   *)
(* of a database object is one node.                                       *)
(*                                                                         *)
(* A create or a set that gets no reply fails; a delete does not, for its  *)
(* result is not looked at, and neither is that of a publication.          *)
(*                                                                         *)
(* External: the node; the owners, which apply what they are asked to,     *)
(* return the previous object and restore it when asked to roll back; and  *)
(* a subscriber that applies the events to a copy of its own.              *)
(***************************************************************************)
EXTENDS Naturals, Sequences, FiniteSets

CONSTANTS
    Clients,
    DbKeys,       \* keys of objects kept in the database
    OwnedKeys,    \* keys of objects kept by their owners
    Attrs, Vals,  \* attributes of an object and their values
    None,         \* the attribute is not there
    Absent,       \* the object is not there
    NoKey,        \* the key of a newly created, blank object
    InitObjects,  \* what may be stored in the beginning
    NewObjects,   \* what clients put into changes
    MayContinue,  \* values of CPS_OBJECT_GROUP_CONTINUE_ON_FAILURE
    Faults,       \* which of the failures below the environment may cause
    MaxChanges,   \* bound: changes in a transaction
    MaxMet        \* bound: different failures in a behaviour

FaultKinds ==
    { "read",      \* the previous object cannot be read from the node
      "refused",   \* the node cannot be reached for the write
      "reply",     \* the node has created or set, but the reply is lost
      "lost",      \* a delete is lost on its connection, and counts as done
      "event",     \* the event cannot be published, which is only logged
      "owner",     \* there is no owner, or it refuses
      "timeout",   \* the owner answers, and acts, too late
      "undo" }     \* a node or an owner cannot be reached for a rollback

Object == [Attrs -> Vals \cup {None}]
NoAttrs == [a \in Attrs |-> None]
Keys == DbKeys \cup OwnedKeys
Change == [op : {"create", "set", "delete"}, key : Keys, obj : Object, continue : BOOLEAN]

NullPtr == [key |-> NoKey, obj |-> Absent]
Blank == [key |-> NoKey, obj |-> NoAttrs]

ASSUME TransactionAssumption ==
    /\ DbKeys \cap OwnedKeys = {}
    /\ NoKey \notin Keys
    /\ None \notin Vals
    /\ Absent \notin Object
    /\ InitObjects \subseteq Object \cup {Absent}
    /\ NewObjects \subseteq Object
    /\ MayContinue \subseteq BOOLEAN
    /\ Faults \subseteq FaultKinds
    /\ MaxChanges \in Nat
    /\ MaxMet \in Nat

VARIABLES
    store,        \* the objects, at the node and at their owners
    before,       \* history: store when the client called cps_api_commit
    mirror,       \* the subscriber's copy
    late,         \* changes an owner will still make
    met,          \* history: the failures there were, each with its key
    change_list,  \* the transaction of each client
    prev,         \* its list of previous objects
    pc,           \* where the client is
    ix,           \* the change it is at
    loaded        \* the object that was read for the change

clientVars == <<change_list, prev, pc, ix, loaded>>
vars == <<store, before, mirror, late, met, clientVars>>

Init ==
    /\ store \in [Keys -> InitObjects]
    /\ before = [c \in Clients |-> store]
    /\ mirror = store
    /\ late = {}
    /\ met = {}
    /\ change_list = [c \in Clients |-> <<>>]
    /\ prev = [c \in Clients |-> <<>>]
    /\ pc = [c \in Clients |-> "build"]
    /\ ix = [c \in Clients |-> 1]
    /\ loaded = [c \in Clients |-> Blank]

\* A failure of that kind happens to the object with that key.
Meet(kind, key) ==
    /\ kind \in Faults
    /\ met' = met \cup {<<kind, key>>}
    /\ Cardinality(met') <= MaxMet

\* No failure of these kinds has happened to the object.
Spared(key, kinds) == \A kind \in kinds : <<kind, key>> \notin met

\* What reading an object from the node gives.
Reads(key, found) ==
    \/ found = store[key] /\ UNCHANGED met
    \/ found = Absent /\ Meet("read", key)

-----------------------------------------------------------------------------
(* Objects and lists of objects *)

\* cps_api_object_attr_merge with duplicates removed: the attributes of s win.
Merge(d, s) == [a \in Attrs |-> IF s[a] = None THEN d[a] ELSE s[a]]

\* The object after an operation on it.
Base(o) == IF o = Absent THEN NoAttrs ELSE o
Applied(op, o, new) ==
    CASE op = "create" -> new
      [] op = "set"    -> Merge(Base(o), new)
      [] op = "delete" -> Absent

\* cps_api_object_list_get and cps_api_object_list_set, which fills up with
\* null pointers.
ListGet(l, i) == IF i <= Len(l) THEN l[i] ELSE NullPtr
ListSet(l, i, e) ==
    [n \in 1..(IF Len(l) < i THEN i ELSE Len(l)) |-> IF n = i THEN e ELSE ListGet(l, n)]

\* An event reaches the subscriber, or it is not published: the node is out of
\* reach or has no room for it.
Publish(op, key, obj) ==
    \/ mirror' = [mirror EXCEPT ![key] = Applied(op, @, obj)] /\ UNCHANGED met
    \/ Meet("event", key) /\ UNCHANGED mirror

-----------------------------------------------------------------------------
(* Building and committing *)

\* cps_api_create, cps_api_set and cps_api_delete.
AddChange(c, ch) ==
    /\ pc[c] = "build"
    /\ Len(change_list[c]) < MaxChanges
    /\ change_list' = [change_list EXCEPT ![c] = Append(@, ch)]
    /\ UNCHANGED <<store, before, mirror, late, met, prev, pc, ix, loaded>>

Commit(c) ==
    /\ pc[c] = "build"
    /\ change_list[c] # <<>>
    /\ pc' = [pc EXCEPT ![c] = "change"]
    /\ before' = [before EXCEPT ![c] = store]
    /\ UNCHANGED <<store, mirror, late, met, change_list, prev, ix, loaded>>

Here(c) == change_list[c][ix[c]]
AtChange(c, keys) == pc[c] = "change" /\ ix[c] <= Len(change_list[c]) /\ Here(c).key \in keys

\* cps_api_db_operation_commit takes or appends an object to load the previous
\* one into; only a set and a delete load it, and both go on when they cannot.
\* A set that found nothing gets a blank object with the right key.
LoadFrom(op, key, found) ==
    CASE op = "create" -> Blank
      [] op = "set"    -> [key |-> key, obj |-> Base(found)]
      [] op = "delete" -> IF found = Absent THEN Blank ELSE [key |-> key, obj |-> found]

PrevSlotBehind(c) == ix[c] + 1
PrevSlot(c) == IF ListGet(prev[c], ix[c]) = NullPtr THEN Len(prev[c]) + 1 ELSE ix[c]

LoadPrevious(c) ==
    /\ AtChange(c, DbKeys)
    /\ \E found \in {store[Here(c).key], Absent} :
        LET entry == LoadFrom(Here(c).op, Here(c).key, found)
        IN /\ Reads(Here(c).key, found)
           /\ loaded' = [loaded EXCEPT ![c] = entry]
           /\ prev' = [prev EXCEPT ![c] = ListSet(@, PrevSlot(c), entry)]
    /\ pc' = [pc EXCEPT ![c] = "write"]
    /\ UNCHANGED <<store, before, mirror, late, change_list, ix>>

\* __one_handle_create, __one_handle_set and __one_handle_delete.
Write(c) == store' = [store EXCEPT ![Here(c).key] =
                Applied(Here(c).op, loaded[c].obj, Here(c).obj)]

Written(c) ==
    /\ pc[c] = "write"
    /\ Write(c)
    /\ pc' = [pc EXCEPT ![c] = "publish"]
    /\ UNCHANGED <<before, mirror, late, met, change_list, prev, ix, loaded>>

\* The failed change itself is not undone, only those before it.
UndoFrom(i) == i

FailedContinues(c) ==
    /\ pc' = [pc EXCEPT ![c] = "change"]
    /\ ix' = [ix EXCEPT ![c] = @ + 1]

\* A failure ends the transaction unless the object says to continue.
Failed(c) ==
    IF Here(c).continue
    THEN /\ pc' = [pc EXCEPT ![c] = "change"]
         /\ ix' = [ix EXCEPT ![c] = @ + 1]
    ELSE /\ pc' = [pc EXCEPT ![c] = "undo"]
         /\ ix' = [ix EXCEPT ![c] = UndoFrom(@)]

WriteFails(c) ==
    /\ pc[c] = "write"
    /\ \/ Meet("refused", Here(c).key) /\ UNCHANGED store
       \/ Here(c).op # "delete" /\ Meet("reply", Here(c).key) /\ Write(c)
    /\ Failed(c)
    /\ UNCHANGED <<before, mirror, late, change_list, prev, loaded>>

\* __one_handle_delete sets its return code to OK once it has a connection,
\* whatever becomes of the request.
DeleteLost(c) ==
    /\ pc[c] = "write"
    /\ Here(c).op = "delete"
    /\ Meet("lost", Here(c).key)
    /\ pc' = [pc EXCEPT ![c] = "publish"]
    /\ UNCHANGED <<store, before, mirror, late, change_list, prev, ix, loaded>>

\* The event of a change that succeeded, of either kind of object.
PublishChange(c) ==
    /\ pc[c] = "publish"
    /\ Publish(Here(c).op, Here(c).key, Here(c).obj)
    /\ pc' = [pc EXCEPT ![c] = "change"]
    /\ ix' = [ix EXCEPT ![c] = @ + 1]
    /\ UNCHANGED <<store, before, late, change_list, prev, loaded>>

\* cps_api_process_commit_request: the owner makes the change and returns the
\* previous object, ...
OwnerCommits(c) ==
    /\ AtChange(c, OwnedKeys)
    /\ LET k == Here(c).key
       IN /\ store' = [store EXCEPT ![k] = Applied(Here(c).op, @, Here(c).obj)]
          /\ prev' = [prev EXCEPT ![c] = ListSet(@, ix[c], [key |-> k, obj |-> store[k]])]
    /\ pc' = [pc EXCEPT ![c] = "publish"]
    /\ UNCHANGED <<before, mirror, late, met, change_list, ix, loaded>>

\* ... refuses it, with or without an answer, ...
OwnerRefuses(c) ==
    /\ AtChange(c, OwnedKeys)
    /\ Meet("owner", Here(c).key)
    /\ \/ UNCHANGED prev
       \/ prev' = [prev EXCEPT ![c] =
              ListSet(@, ix[c], [key |-> Here(c).key, obj |-> store[Here(c).key]])]
    /\ Failed(c)
    /\ UNCHANGED <<store, before, mirror, late, change_list, loaded>>

\* ... or does not answer before cps_api_timeout_wait gives up.
OwnerTimesOut(c) ==
    /\ AtChange(c, OwnedKeys)
    /\ Meet("timeout", Here(c).key)
    /\ late' = late \cup {Here(c)}
    /\ Failed(c)
    /\ UNCHANGED <<store, before, mirror, change_list, prev, loaded>>

OwnerCommitsLate(ch) ==
    /\ ch \in late
    /\ late' = late \ {ch}
    /\ store' = [store EXCEPT ![ch.key] = Applied(ch.op, @, ch.obj)]
    /\ UNCHANGED <<before, mirror, met, clientVars>>

Succeed(c) ==
    /\ pc[c] = "change"
    /\ ix[c] > Len(change_list[c])
    /\ pc' = [pc EXCEPT ![c] = "ok"]
    /\ UNCHANGED <<store, before, mirror, late, met, change_list, prev, ix, loaded>>

-----------------------------------------------------------------------------
(* Rolling back the changes before ix, last to first *)

Undoing(c, keys) == pc[c] = "undo" /\ ix[c] > 1 /\ change_list[c][ix[c] - 1].key \in keys
Undone(c) == change_list[c][ix[c] - 1]
Saved(c) == ListGet(prev[c], ix[c] - 1)

\* cps_api_db_operation_rollback: both tests, one after the other.
RollbackOp(op) ==
    LET first == IF op = "delete" THEN "create" ELSE op
    IN IF first = "create" THEN "delete" ELSE first

\* The saved object is committed with that operation.  A blank one has no key
\* that anything is stored under and no events.
NothingToUndo(c) ==
    /\ Undoing(c, DbKeys)
    /\ Saved(c).key = NoKey
    /\ ix' = [ix EXCEPT ![c] = @ - 1]
    /\ UNCHANGED <<store, before, mirror, late, met, change_list, prev, pc, loaded>>

LoadForUndo(c) ==
    /\ Undoing(c, DbKeys)
    /\ Saved(c).key # NoKey
    /\ \E found \in {store[Saved(c).key], Absent} :
        /\ Reads(Saved(c).key, found)
        /\ loaded' = [loaded EXCEPT ![c] =
               LoadFrom(RollbackOp(Undone(c).op), Saved(c).key, found)]
    /\ pc' = [pc EXCEPT ![c] = "undo_write"]
    /\ UNCHANGED <<store, before, mirror, late, change_list, prev, ix>>

UndoWrite(c) ==
    store' = [store EXCEPT ![Saved(c).key] =
        Applied(RollbackOp(Undone(c).op), loaded[c].obj, Saved(c).obj)]

UndoWritten(c) ==
    /\ pc[c] = "undo_write"
    /\ UndoWrite(c)
    /\ pc' = [pc EXCEPT ![c] = "undo_publish"]
    /\ UNCHANGED <<before, mirror, late, met, change_list, prev, ix, loaded>>

\* A failure to roll back is logged and the next object is tried.
UndoFails(c) ==
    /\ pc[c] = "undo_write"
    /\ \/ Meet("undo", Saved(c).key) /\ UNCHANGED store
       \/ RollbackOp(Undone(c).op) # "delete" /\ Meet("reply", Saved(c).key) /\ UndoWrite(c)
    /\ pc' = [pc EXCEPT ![c] = "undo"]
    /\ ix' = [ix EXCEPT ![c] = @ - 1]
    /\ UNCHANGED <<before, mirror, late, change_list, prev, loaded>>

UndoLost(c) ==
    /\ pc[c] = "undo_write"
    /\ RollbackOp(Undone(c).op) = "delete"
    /\ Meet("lost", Saved(c).key)
    /\ pc' = [pc EXCEPT ![c] = "undo_publish"]
    /\ UNCHANGED <<store, before, mirror, late, change_list, prev, ix, loaded>>

\* Only the database code publishes: the publication in cps_api_commit waits
\* for the return code to be OK, which it is not during a rollback.
UndoSilent(c) == UNCHANGED <<mirror, met>>
UndoEvent(c) == Publish(RollbackOp(Undone(c).op), Saved(c).key, Saved(c).obj)

PublishUndo(c) ==
    /\ pc[c] = "undo_publish"
    /\ UndoEvent(c)
    /\ pc' = [pc EXCEPT ![c] = "undo"]
    /\ ix' = [ix EXCEPT ![c] = @ - 1]
    /\ UNCHANGED <<store, before, late, change_list, prev, loaded>>

\* cps_api_process_rollback_request: only an owned key has an owner.
OwnerRollsBack(c) ==
    /\ Undoing(c, OwnedKeys)
    /\ store' = IF Saved(c).key \in OwnedKeys
                THEN [store EXCEPT ![Saved(c).key] = Saved(c).obj] ELSE store
    /\ ix' = [ix EXCEPT ![c] = @ - 1]
    /\ UNCHANGED <<before, mirror, late, met, change_list, prev, pc, loaded>>

OwnerRefusesRollback(c) ==
    /\ Undoing(c, OwnedKeys)
    /\ Meet("undo", Undone(c).key)
    /\ ix' = [ix EXCEPT ![c] = @ - 1]
    /\ UNCHANGED <<store, before, mirror, late, change_list, prev, pc, loaded>>

Fail(c) ==
    /\ pc[c] = "undo"
    /\ ix[c] = 1
    /\ pc' = [pc EXCEPT ![c] = "failed"]
    /\ UNCHANGED <<store, before, mirror, late, met, change_list, prev, ix, loaded>>

Forward(c) ==
    \/ Commit(c)
    \/ LoadPrevious(c)
    \/ Written(c)
    \/ WriteFails(c)
    \/ DeleteLost(c)
    \/ PublishChange(c)
    \/ OwnerCommits(c)
    \/ OwnerRefuses(c)
    \/ OwnerTimesOut(c)
    \/ Succeed(c)

Backward(c) ==
    \/ NothingToUndo(c)
    \/ LoadForUndo(c)
    \/ UndoWritten(c)
    \/ UndoFails(c)
    \/ UndoLost(c)
    \/ PublishUndo(c)
    \/ OwnerRollsBack(c)
    \/ OwnerRefusesRollback(c)
    \/ Fail(c)

\* The changes a client may ask for; a delete needs only the key.
Asked == {ch \in [op : {"create", "set", "delete"}, key : Keys,
                  obj : NewObjects \cup {NoAttrs}, continue : MayContinue] :
              ch.op = "delete" <=> ch.obj = NoAttrs}

Finished(c) == pc[c] \in {"ok", "failed"}
Terminated ==
    /\ \A c \in Clients : Finished(c)
    /\ late = {}
    /\ UNCHANGED vars

Next ==
    \/ \E c \in Clients, ch \in Asked : AddChange(c, ch)
    \/ \E c \in Clients : Forward(c) \/ Backward(c)
    \/ \E ch \in late : OwnerCommitsLate(ch)
    \/ Terminated

Spec == Init /\ [][Next]_vars

-----------------------------------------------------------------------------
(* Properties *)

Alone == \A c, d \in Clients : c = d
NoContinue(c) == \A i \in DOMAIN change_list[c] : ~change_list[c][i].continue

\* A subscriber that applies the events has a database object as the node has it
\* after every transaction of a lone client, whether it succeeded, was continued
\* or rolled back: what a rollback does to the database it also publishes.  Only
\* the object that could not be read, or whose reply, delete or event was lost,
\* may differ.
SubscriberFollowsDatabase ==
    Alone => \A c \in Clients : Finished(c) =>
        \A k \in DbKeys : Spared(k, {"read", "reply", "lost", "event"}) => mirror[k] = store[k]

\* A transaction of a lone client that returns OK has made all its changes to an
\* object, in their order, whatever happened to other objects, unless it was told
\* to continue, could not read the previous object, which a set and a delete do
\* not treat as a failure, or lost a delete, which counts as done.
Steps(chs, first) ==
    LET f[n \in 0..Len(chs)] ==
            IF n = 0 THEN first
            ELSE [f[n - 1] EXCEPT ![chs[n].key] = Applied(chs[n].op, @, chs[n].obj)]
    IN f
AfterChanges(c) == Steps(change_list[c], before[c])[Len(change_list[c])]
SuccessMeansApplied ==
    Alone => \A c \in Clients : pc[c] = "ok" /\ NoContinue(c) =>
        \A k \in Keys : Spared(k, {"read", "lost"}) => store[k] = AfterChanges(c)[k]

\* Also when previous objects could not be read or deletes were lost, a
\* transaction that returns OK has left the last change of every object in place,
\* unless that is the lost delete: only what older changes wrote may be gone.
LastOf(c, i) == \A j \in DOMAIN change_list[c] :
                    change_list[c][j].key = change_list[c][i].key => j <= i
LastChangeStands ==
    Alone => \A c \in Clients : pc[c] = "ok" /\ NoContinue(c) =>
        \A i \in {j \in DOMAIN change_list[c] : LastOf(c, j)} :
            LET ch == change_list[c][i]
            IN IF ch.op = "delete"
               THEN store[ch.key] = Absent \/ ~Spared(ch.key, {"lost"})
               ELSE /\ store[ch.key] # Absent
                    /\ \A a \in Attrs : ch.obj[a] # None => store[ch.key][a] = ch.obj[a]

\* What OK tells the caller of cps_api_commit.
CommittedAsAsked == SuccessMeansApplied /\ LastChangeStands

\* Of a failed transaction of a lone client that only sets database objects,
\* the rollback restores the value of every attribute there was before, also
\* when the same object is set several times, whatever happened to other objects.
OnlySets(c) ==
    \A i \in DOMAIN change_list[c] :
        change_list[c][i].key \in DbKeys => change_list[c][i].op = "set"
FailedSetsRestored ==
    Alone => \A c \in Clients : pc[c] = "failed" /\ NoContinue(c) /\ OnlySets(c) =>
        \A k \in DbKeys, a \in Attrs :
            Spared(k, {"read", "reply", "undo"}) /\ before[c][k] # Absent /\ before[c][k][a] # None =>
                store[k] # Absent /\ store[k][a] = before[c][k][a]

\* An owner's object is as it was before a failed transaction, unless its owner
\* was late or out of reach: every change before the failed one is undone, in an
\* order that also restores an object that was changed several times, although
\* changes that failed and were ignored leave gaps in the list of previous objects.
OwnersRestored ==
    Alone => \A c \in Clients : pc[c] = "failed" =>
        \A k \in OwnedKeys : Spared(k, {"undo", "timeout"}) => store[k] = before[c][k]

\* What a failure tells the caller of cps_api_commit: the earlier changes are
\* undone, as far as a rollback can undo them.
FailureUndone == FailedSetsRestored /\ OwnersRestored

\* "The request is committed atomically or rolled back atomically"
\* (cps_api_operation.h, line 452): nothing of a failed transaction is left.
RolledBackAtomically ==
    (Alone /\ met \subseteq {"owner", "refused"} \X Keys) =>
        \A c \in Clients : pc[c] = "failed" /\ NoContinue(c) => store = before[c]
=============================================================================
