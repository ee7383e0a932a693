------------------------ MODULE CpsTransactionProofs ------------------------
(***************************************************************************)
(* Proofs about CpsTransaction: what the return code of cps_api_commit     *)
(* tells a client that commits alone, and what a subscriber can follow.    *)
(***************************************************************************)
EXTENDS CpsTransaction, CpsRegistrationsProofs

Stored == Object \cup {Absent}
Entry == [key : Keys \cup {NoKey}, obj : Stored]

(* What holds for any number of clients *)

Labels == {"build", "change", "write", "publish", "ok", "undo", "undo_write", "undo_publish", "failed"}

TxTyped ==
    /\ store \in [Keys -> Stored]
    /\ mirror \in [Keys -> Stored]
    /\ before \in [Clients -> [Keys -> Stored]]
    /\ late \subseteq Change
    /\ \A ch \in late : ch.key \in OwnedKeys
    /\ change_list \in [Clients -> Seq(Change)]
    /\ prev \in [Clients -> Seq(Entry)]
    /\ pc \in [Clients -> Labels]
    /\ ix \in [Clients -> Nat \ {0}]
    /\ loaded \in [Clients -> Entry]

\* Where the client is: at which change, and with how many previous objects.
Placed(c) ==
    /\ pc[c] = "build" => ix[c] = 1 /\ prev[c] = <<>>
    /\ pc[c] \in {"change", "ok"} => ix[c] <= Len(change_list[c]) + 1 /\ Len(prev[c]) < ix[c]
    /\ pc[c] = "ok" => ix[c] = Len(change_list[c]) + 1
    /\ pc[c] \in {"write", "publish"} => ix[c] <= Len(change_list[c]) /\ Len(prev[c]) <= ix[c]
    /\ pc[c] = "write" => Here(c).key \in DbKeys
    /\ pc[c] \in {"undo", "undo_write", "undo_publish", "failed"} => ix[c] <= Len(change_list[c])
    /\ pc[c] \in {"undo_write", "undo_publish"} =>
           ix[c] > 1 /\ Undone(c).key \in DbKeys /\ Saved(c).key # NoKey
    /\ pc[c] = "failed" => ix[c] = 1

\* Also after failures the client was told to ignore, which leave gaps, the
\* previous object of an owner stands where its change does, and an object of the
\* database is a whole one.
PrevOK(c) ==
    \A i \in DOMAIN prev[c] :
        /\ prev[c][i].key \in OwnedKeys =>
               i <= Len(change_list[c]) /\ change_list[c][i].key = prev[c][i].key
        /\ prev[c][i].key \in DbKeys => prev[c][i].obj \in Object

TxInv == TxTyped /\ \A c \in Clients : Placed(c) /\ PrevOK(c)

-----------------------------------------------------------------------------
(* What holds for a lone client *)

\* The objects after the first n changes.
After(c, n) == Steps(change_list[c], before[c])[n]

\* Only late owners change anything by themselves, and before the first failure
\* there are none.
Going(c) == pc[c] \in {"change", "write", "publish", "ok"}
Failures(c) ==
    /\ \A ch \in late : <<"timeout", ch.key>> \in met
    /\ pc[c] = "build" => met = {} /\ late = {}
    /\ Going(c) /\ NoContinue(c) => late = {}
    /\ OnlySets(c) => \A k \in DbKeys : Spared(k, {"lost"})

\* The subscriber has what the database has, but for the event to be published.
Unharmed(k) == Spared(k, {"read", "reply", "lost", "event"})
FollowsAt(c, k) ==
    /\ store[k] = IF pc[c] = "publish" /\ Here(c).key = k
                  THEN Applied(Here(c).op, mirror[k], Here(c).obj)
                  ELSE IF pc[c] = "undo_publish" /\ Saved(c).key = k
                  THEN Applied(RollbackOp(Undone(c).op), mirror[k], Saved(c).obj)
                  ELSE mirror[k]
    /\ pc[c] = "write" /\ Here(c).key = k /\ Here(c).op = "set" =>
          Base(loaded[c].obj) = Base(store[k])
    /\ pc[c] = "undo_write" /\ Saved(c).key = k /\ RollbackOp(Undone(c).op) = "set" =>
          Base(loaded[c].obj) = Base(store[k])
Follows(c) == \A k \in DbKeys : Unharmed(k) => FollowsAt(c, k)

\* How many changes are made.
Made(c) == IF pc[c] = "publish" THEN ix[c] ELSE ix[c] - 1

\* The last change of every object, of those made, stands.
Stands(ch) ==
    IF ch.op = "delete" THEN store[ch.key] = Absent \/ ~Spared(ch.key, {"lost"})
    ELSE /\ store[ch.key] # Absent
         /\ \A a \in Attrs : ch.obj[a] # None => store[ch.key][a] = ch.obj[a]
LastStands(c) ==
    Going(c) /\ NoContinue(c) =>
        \A i \in 1..Made(c) :
            (\A j \in 1..Made(c) : change_list[c][j].key = change_list[c][i].key => j <= i)
                => Stands(change_list[c][i])

\* The previous object of change i is there for the rollback.
Read(k) == Spared(k, {"read", "lost"})
SavedOK(c, i) ==
    LET ch == change_list[c][i]
    IN /\ i <= Len(prev[c])
       /\ ch.key \in DbKeys /\ ch.op = "set" =>
              /\ prev[c][i].key = ch.key
              /\ Read(ch.key) => prev[c][i] = [key |-> ch.key, obj |-> Base(After(c, i - 1)[ch.key])]

\* On the way forward the objects are what the changes so far make of them.
Forwards(c) ==
    Going(c) /\ NoContinue(c) =>
        /\ \A k \in OwnedKeys : store[k] = After(c, Made(c))[k]
        /\ \A k \in DbKeys : Read(k) => store[k] = After(c, Made(c))[k]
        /\ \A i \in 1..(IF pc[c] \in {"write", "publish"} THEN ix[c] ELSE ix[c] - 1) : SavedOK(c, i)
        /\ pc[c] = "write" /\ Here(c).op = "set" /\ Read(Here(c).key) =>
               Base(loaded[c].obj) = Base(store[Here(c).key])

\* On the way back they are what fewer and fewer changes make of them.
Returning(c) == pc[c] \in {"undo", "undo_write", "undo_publish", "failed"}
Left(c) == IF pc[c] = "undo_publish" THEN ix[c] - 2 ELSE ix[c] - 1
KeepsValues(old, new) ==
    old # Absent => \A a \in Attrs : old[a] # None => new # Absent /\ new[a] = old[a]
Undoable(k) == Spared(k, {"read", "reply", "undo"})
Backwards(c) ==
    Returning(c) /\ NoContinue(c) =>
        /\ \A i \in 1..(ix[c] - 1) : SavedOK(c, i)
        /\ OnlySets(c) => \A k \in DbKeys : Undoable(k) => KeepsValues(After(c, Left(c))[k], store[k])

\* Also among gaps, the first previous object of an owner is the object before
\* the transaction, and without one left to restore the object is that.
Reached(k) == Spared(k, {"undo", "timeout"})
ToUndo(c, i) == i \in DOMAIN prev[c] /\ (Returning(c) => i < ix[c])
OwnedAt(c, k) ==
    /\ \A i \in DOMAIN prev[c] :
           prev[c][i].key = k /\ (\A j \in DOMAIN prev[c] : j < i => prev[c][j].key # k)
               => prev[c][i].obj = before[c][k]
    /\ (\A i \in DOMAIN prev[c] : ToUndo(c, i) => prev[c][i].key # k) => store[k] = before[c][k]
Owned(c) ==
    Going(c) \/ Returning(c) => \A k \in OwnedKeys : Reached(k) => OwnedAt(c, k)

LoneInv == \A c \in Clients : /\ Failures(c) /\ Follows(c) /\ LastStands(c)
                              /\ Forwards(c) /\ Backwards(c) /\ Owned(c)

\* The inductive invariant.
IInv == TxInv /\ (Alone => LoneInv)

-----------------------------------------------------------------------------
(* Objects, changes and lists *)

Ops == {"create", "set", "delete"}

LEMMA Distinct ==
    /\ NoAttrs \in Object /\ NoAttrs # Absent /\ Absent \notin Object /\ None \notin Vals
    /\ NoKey \notin Keys /\ DbKeys \subseteq Keys /\ OwnedKeys \subseteq Keys
    /\ \A k \in Keys : k \in DbKeys <=> k \notin OwnedKeys
    /\ Keys = DbKeys \cup OwnedKeys
  BY TransactionAssumption DEF NoAttrs, Object, Keys

\* An operation makes an object of an object, and a set keeps what it does not set.
LEMMA BaseObject == \A o \in Stored : Base(o) \in Object /\ Base(Base(o)) = Base(o)
  BY Distinct DEF Base, Stored

LEMMA MergeObject ==
    ASSUME NEW d \in Object, NEW s \in Object
    PROVE  /\ Merge(d, s) \in Object
           /\ \A a \in Attrs : Merge(d, s)[a] = IF s[a] = None THEN d[a] ELSE s[a]
  BY DEF Merge, Object

LEMMA AppliedCases ==
    \A o, new : /\ Applied("create", o, new) = new
                /\ Applied("set", o, new) = Merge(Base(o), new)
                /\ Applied("delete", o, new) = Absent
  BY DEF Applied

LEMMA AppliedStored ==
    ASSUME NEW op \in Ops, NEW o \in Stored, NEW new \in Object
    PROVE  Applied(op, o, new) \in Stored
  <1>1. Base(o) \in Object /\ Merge(Base(o), new) \in Object
    BY BaseObject, MergeObject
  <1> QED
    BY <1>1, AppliedCases DEF Ops, Stored

\* Only a set depends on what was there, and not on whether it was there.
LEMMA AppliedAlike ==
    ASSUME NEW op \in Ops, NEW o, NEW p, op = "set" => Base(o) = Base(p), NEW new
    PROVE  Applied(op, o, new) = Applied(op, p, new)
  BY AppliedCases DEF Ops

LEMMA ChangeFields ==
    \A ch \in Change : ch.op \in Ops /\ ch.key \in Keys /\ ch.obj \in Object /\ ch.continue \in BOOLEAN
  BY DEF Change, Ops

LEMMA AskedChanges == Asked \subseteq Change
  BY Distinct, TransactionAssumption DEF Asked, Change

LEMMA RollbackOps == \A op \in Ops : RollbackOp(op) \in {"delete", "set"} /\ RollbackOp(op) \in Ops
  BY DEF RollbackOp, Ops

LEMMA LoadedEntry ==
    ASSUME NEW op \in Ops, NEW k \in Keys, NEW found \in Stored
    PROVE  /\ LoadFrom(op, k, found) \in Entry
           /\ LoadFrom(op, k, found).key \in {k, NoKey}
           /\ LoadFrom(op, k, found).obj \in Object
           /\ op = "set" => LoadFrom(op, k, found) = [key |-> k, obj |-> Base(found)]
  BY BaseObject, Distinct DEF LoadFrom, Ops, Blank, Entry, Stored

\* cps_api_object_list_set.
LEMMA ListSetSeq ==
    ASSUME NEW l \in Seq(Entry), NEW e \in Entry, NEW i \in Nat, i >= 1
    PROVE  /\ ListSet(l, i, e) \in Seq(Entry)
           /\ Len(ListSet(l, i, e)) = IF Len(l) < i THEN i ELSE Len(l)
           /\ \A n \in 1..Len(ListSet(l, i, e)) :
                  ListSet(l, i, e)[n] = IF n = i THEN e ELSE ListGet(l, n)
  <1> DEFINE m == IF Len(l) < i THEN i ELSE Len(l)
             s == ListSet(l, i, e)
  <1>1. m \in Nat /\ s = [n \in 1..m |-> IF n = i THEN e ELSE ListGet(l, n)]
    BY DEF ListSet
  <1>2. NullPtr \in Entry
    BY DEF NullPtr, Entry, Stored
  <1>3. \A n \in 1..m : ListGet(l, n) \in Entry
    BY <1>2 DEF ListGet
  <1> HIDE DEF m, s
  <1>4. s \in [1..m -> Entry]
    BY <1>1, <1>3
  <1>5. s \in Seq(Entry) /\ Len(s) = m
    BY <1>1, <1>4
  <1> QED
    BY <1>1, <1>5 DEF m, s

LEMMA SavedEntry ==
    ASSUME NEW l \in Seq(Entry), NEW i \in Nat, i >= 1
    PROVE  /\ ListGet(l, i) \in Entry
           /\ i \in DOMAIN l => ListGet(l, i) = l[i]
           /\ ListGet(l, i).key # NoKey => i \in DOMAIN l
  <1>1. NullPtr \in Entry /\ NullPtr.key = NoKey
    BY DEF NullPtr, Entry, Stored
  <1>2. i \in DOMAIN l <=> i <= Len(l)
    OBVIOUS
  <1> QED
    BY <1>1, <1>2 DEF ListGet

-----------------------------------------------------------------------------
(* Any number of clients *)

LEMMA ClientTypes ==
    ASSUME TxTyped, NEW c \in Clients
    PROVE  /\ prev[c] \in Seq(Entry) /\ Len(prev[c]) \in Nat
           /\ ix[c] \in Nat /\ ix[c] >= 1
           /\ change_list[c] \in Seq(Change) /\ Len(change_list[c]) \in Nat
           /\ DOMAIN change_list[c] = 1..Len(change_list[c])
           /\ loaded[c] \in Entry /\ loaded[c].obj \in Stored
  <1>1. prev[c] \in Seq(Entry) /\ change_list[c] \in Seq(Change)
    BY DEF TxTyped
  <1>2. ix[c] \in Nat \ {0}
    BY DEF TxTyped
  <1>3. loaded[c] \in Entry
    BY DEF TxTyped
  <1>4. loaded[c].obj \in Stored
    BY <1>3 DEF Entry
  <1> QED
    BY <1>1, <1>2, <1>3, <1>4

LEMMA InitTx == Init => TxInv
  <1> SUFFICES ASSUME Init PROVE TxInv
    OBVIOUS
  <1>1. InitObjects \subseteq Stored /\ Blank \in Entry
    BY TransactionAssumption, Distinct DEF Blank, Entry, Stored
  <1>2. TxTyped
    <2>1. store \in [Keys -> Stored] /\ mirror = store /\ before = [c \in Clients |-> store]
      BY <1>1 DEF Init
    <2>2. before \in [Clients -> [Keys -> Stored]]
      BY <2>1, Zenon
    <2> QED
      BY <1>1, <2>1, <2>2 DEF Init, TxTyped, Labels
  <1>3. \A c \in Clients : pc[c] = "build" /\ ix[c] = 1 /\ prev[c] = <<>>
    BY DEF Init
  <1> QED
    BY <1>2, <1>3 DEF TxInv, Placed, PrevOK

\* What a client works on is its own.
Own(c) == <<change_list[c], prev[c], pc[c], ix[c]>>

LEMMA SamePlace ==
    ASSUME NEW c, Placed(c), PrevOK(c), Own(c)' = Own(c)
    PROVE  Placed(c)' /\ PrevOK(c)'
  BY DEF Own, Placed, PrevOK, Here, Undone, Saved

\* A step of a client is a step of that client alone.
LEMMA OwnSteps ==
    ASSUME TxTyped, NEW c \in Clients, Forward(c) \/ Backward(c) \/ \E ch \in Asked : AddChange(c, ch),
           NEW d \in Clients, d # c
    PROVE  Own(d)' = Own(d) /\ loaded'[d] = loaded[d]
  <1> USE DEF TxTyped, Own
  <1>1. ASSUME NEW ch \in Asked, AddChange(c, ch) PROVE Own(d)' = Own(d) /\ loaded'[d] = loaded[d]
    BY <1>1 DEF AddChange
  <1>2. CASE Forward(c)
    BY <1>2 DEF Forward, Commit, LoadPrevious, Written, WriteFails, DeleteLost, PublishChange, OwnerCommits,
                OwnerRefuses, OwnerTimesOut, Succeed, Failed
  <1>3. CASE Backward(c)
    BY <1>3 DEF Backward, NothingToUndo, LoadForUndo, UndoWritten, UndoFails, UndoLost, PublishUndo,
                OwnerRollsBack, OwnerRefusesRollback, Fail
  <1> QED
    BY <1>1, <1>2, <1>3

\* The object before a change of a database object goes to the end of the list.
LEMMA SlotOf ==
    ASSUME TxInv, NEW c \in Clients, AtChange(c, DbKeys)
    PROVE  PrevSlot(c) = Len(prev[c]) + 1 /\ Len(prev[c]) + 1 <= ix[c] /\ prev[c] \in Seq(Entry)
  <1>1. prev[c] \in Seq(Entry) /\ ix[c] \in Nat /\ Len(prev[c]) < ix[c] /\ Len(prev[c]) \in Nat
    BY ClientTypes DEF TxInv, Placed, AtChange
  <1>2. ListGet(prev[c], ix[c]) = NullPtr
    BY <1>1 DEF ListGet
  <1> QED
    BY <1>1, <1>2 DEF PrevSlot

\* A whole object of the database is what a rollback puts back.
LEMMA SavedOf ==
    ASSUME TxInv, NEW c \in Clients, ix[c] > 1, ix[c] <= Len(change_list[c]),
           Undone(c).key \in DbKeys, Saved(c).key # NoKey
    PROVE  /\ Saved(c) \in Entry /\ Saved(c).key \in DbKeys /\ Saved(c).obj \in Object
           /\ Undone(c) \in Change /\ ix[c] - 1 \in DOMAIN prev[c] /\ Saved(c) = prev[c][ix[c] - 1]
  <1>1. prev[c] \in Seq(Entry) /\ ix[c] \in Nat /\ ix[c] - 1 \in Nat /\ ix[c] - 1 >= 1 /\ change_list[c] \in Seq(Change)
    BY ClientTypes DEF TxInv
  <1>2. Saved(c) \in Entry /\ ix[c] - 1 \in DOMAIN prev[c] /\ Saved(c) = prev[c][ix[c] - 1]
    BY <1>1, SavedEntry DEF Saved
  <1>3. Undone(c) \in Change
    BY <1>1 DEF Undone
  <1>4. Saved(c).key \in Keys
    BY <1>2 DEF Entry
  <1>5. Saved(c).key \notin OwnedKeys
    BY <1>2, Distinct DEF TxInv, PrevOK, Undone
  <1> QED
    BY <1>2, <1>3, <1>4, <1>5, Distinct DEF TxInv, PrevOK

LEMMA HereChange ==
    ASSUME TxTyped, NEW c \in Clients, ix[c] <= Len(change_list[c])
    PROVE  /\ Here(c) \in Change /\ Here(c).op \in Ops /\ Here(c).key \in Keys /\ Here(c).obj \in Object
           /\ ix[c] \in DOMAIN change_list[c] /\ change_list[c] \in Seq(Change)
  <1>1. change_list[c] \in Seq(Change) /\ ix[c] \in DOMAIN change_list[c]
    BY ClientTypes
  <1> QED
    BY <1>1, ChangeFields DEF Here

\* A failure ends the forward steps or goes on to the next change.
LEMMA FailedPlace ==
    ASSUME TxInv, NEW c \in Clients, ix[c] <= Len(change_list[c]), Failed(c), change_list' = change_list,
           prev'[c] \in Seq(Entry), Len(prev'[c]) <= ix[c]
    PROVE  Placed(c)' /\ pc' \in [Clients -> Labels] /\ ix' \in [Clients -> Nat \ {0}]
  <1>0. pc \in [Clients -> Labels] /\ ix \in [Clients -> Nat \ {0}] /\ TxTyped
    BY DEF TxInv, TxTyped
  <1>1. ix[c] \in Nat \ {0} /\ Len(change_list[c]) \in Nat /\ Len(prev'[c]) \in Nat
    BY <1>0, ClientTypes
  <1>2. \/ pc'[c] = "change" /\ ix'[c] = ix[c] + 1
        \/ pc'[c] = "undo" /\ ix'[c] = ix[c]
    BY <1>0 DEF Failed, UndoFrom
  <1>3. pc' \in [Clients -> Labels] /\ ix' \in [Clients -> Nat \ {0}]
    BY <1>0, <1>1 DEF Failed, UndoFrom, Labels
  <1> QED
    BY <1>1, <1>2, <1>3 DEF Placed

\* What a step of either kind of object leaves in the store.
LEMMA StoreType ==
    ASSUME TxTyped, NEW k \in Keys, NEW o \in Stored
    PROVE  [store EXCEPT ![k] = o] \in [Keys -> Stored] /\ [mirror EXCEPT ![k] = o] \in [Keys -> Stored]
  BY DEF TxTyped

LEMMA ForwardTx ==
    ASSUME TxInv, NEW c \in Clients, Forward(c)
    PROVE  TxTyped' /\ Placed(c)' /\ PrevOK(c)'
  <1>0. TxTyped /\ Placed(c) /\ PrevOK(c)
    BY DEF TxInv
  <1>1. /\ prev[c] \in Seq(Entry) /\ Len(prev[c]) \in Nat
        /\ ix[c] \in Nat /\ ix[c] >= 1
        /\ change_list[c] \in Seq(Change) /\ Len(change_list[c]) \in Nat
        /\ loaded[c] \in Entry /\ loaded[c].obj \in Stored
    BY <1>0, ClientTypes
  <1>2. CASE Commit(c)
    <2>1. pc[c] = "build" /\ pc'[c] = "change" /\ ix[c] = 1 /\ Len(prev[c]) = 0 /\ UNCHANGED <<ix, prev, change_list>>
      BY <1>0, <1>2 DEF Commit, Placed, TxTyped
    <2>2. TxTyped'
      BY <1>0, <1>2 DEF Commit, TxTyped, Labels
    <2> QED
      BY <1>0, <1>1, <2>1, <2>2 DEF Placed, PrevOK
  <1>3. CASE LoadPrevious(c)
    <2> DEFINE n == Len(prev[c]) + 1
    <2>1. PICK found \in {store[Here(c).key], Absent} :
              LET entry == LoadFrom(Here(c).op, Here(c).key, found)
              IN /\ loaded' = [loaded EXCEPT ![c] = entry]
                 /\ prev' = [prev EXCEPT ![c] = ListSet(@, PrevSlot(c), entry)]
      BY <1>3 DEF LoadPrevious
    <2> DEFINE entry == LoadFrom(Here(c).op, Here(c).key, found)
    <2>2. ix[c] <= Len(change_list[c]) /\ Here(c).key \in DbKeys /\ AtChange(c, DbKeys) /\ pc[c] = "change"
      BY <1>3 DEF LoadPrevious, AtChange
    <2>3. Here(c) \in Change /\ Here(c).op \in Ops /\ Here(c).key \in Keys
      BY <1>0, <2>2, HereChange
    <2>4. found \in Stored
      BY <1>0, <2>3 DEF TxTyped, Stored
    <2>5. entry \in Entry /\ entry.key \in {Here(c).key, NoKey} /\ entry.obj \in Object
      BY <2>3, <2>4, LoadedEntry
    <2>6. PrevSlot(c) = n /\ n <= ix[c]
      BY <2>2, SlotOf
    <2> HIDE DEF entry
    <2>7. /\ prev'[c] = ListSet(prev[c], n, entry)
          /\ prev' = [prev EXCEPT ![c] = ListSet(prev[c], n, entry)] /\ loaded' = [loaded EXCEPT ![c] = entry]
      BY <1>0, <2>1, <2>6 DEF entry, TxTyped
    <2>8. /\ prev'[c] \in Seq(Entry) /\ Len(prev'[c]) = n
          /\ \A i \in 1..n : prev'[c][i] = IF i = n THEN entry ELSE ListGet(prev[c], i)
      <3> DEFINE l == ListSet(prev[c], n, entry)
      <3>1. n \in Nat /\ n >= 1 /\ Len(prev[c]) < n
        BY <1>1
      <3> HIDE DEF n
      <3>2. l \in Seq(Entry) /\ Len(l) = n /\ \A i \in 1..Len(l) : l[i] = IF i = n THEN entry ELSE ListGet(prev[c], i)
        BY <1>1, <2>5, <3>1, ListSetSeq
      <3> QED
        BY <2>7, <3>2
    <2>9. TxTyped'
      <3>1. prev' \in [Clients -> Seq(Entry)] /\ loaded' \in [Clients -> Entry]
        BY <1>0, <2>5, <2>7, <2>8 DEF TxTyped
      <3>2. pc' \in [Clients -> Labels]
        BY <1>0, <1>3 DEF LoadPrevious, TxTyped, Labels
      <3> QED
        BY <1>0, <1>3, <3>1, <3>2 DEF LoadPrevious, TxTyped
    <2>10. pc'[c] = "write" /\ ix'[c] = ix[c] /\ change_list' = change_list /\ ix' = ix
      BY <1>0, <1>3 DEF LoadPrevious, TxTyped
    <2>11. Placed(c)'
      BY <2>2, <2>6, <2>8, <2>10 DEF Placed, Here
    <2>12. ASSUME NEW i \in DOMAIN prev'[c]
           PROVE  /\ prev'[c][i].key \in OwnedKeys =>
                       i <= Len(change_list'[c]) /\ change_list'[c][i].key = prev'[c][i].key
                  /\ prev'[c][i].key \in DbKeys => prev'[c][i].obj \in Object
      <3>1. i \in 1..n
        BY <2>8
      <3>2. CASE i = n
        <4>1. prev'[c][i] = entry
          BY <2>8, <3>1, <3>2
        <4> QED
          BY <4>1, <2>2, <2>5, Distinct
      <3>3. CASE i # n
        <4>1. i \in DOMAIN prev[c] /\ prev'[c][i] = prev[c][i]
          BY <1>1, <2>8, <3>1, <3>3 DEF ListGet
        <4> QED
          BY <1>0, <2>10, <4>1 DEF PrevOK
      <3> QED
        BY <3>2, <3>3
    <2> QED
      BY <2>9, <2>11, <2>12 DEF PrevOK
  <1>4. CASE Written(c) \/ DeleteLost(c) \/ WriteFails(c)
    <2>1. pc[c] = "write" /\ ix[c] <= Len(change_list[c]) /\ Len(prev[c]) <= ix[c]
      BY <1>0, <1>4 DEF Written, DeleteLost, WriteFails, Placed
    <2>2. Here(c).op \in Ops /\ Here(c).key \in Keys /\ Here(c).obj \in Object
      BY <1>0, <2>1, HereChange
    <2>3. Applied(Here(c).op, loaded[c].obj, Here(c).obj) \in Stored
      BY <1>1, <2>2, AppliedStored
    <2>4. store' \in [Keys -> Stored]
      <3>1. store' = store \/ Write(c)
        BY <1>4 DEF Written, DeleteLost, WriteFails
      <3> QED
        BY <1>0, <2>2, <2>3, <3>1, StoreType DEF Write, TxTyped
    <2>5. UNCHANGED <<before, mirror, late, change_list, prev, loaded>>
      BY <1>4 DEF Written, DeleteLost, WriteFails
    <2>6. CASE Written(c) \/ DeleteLost(c)
      <3>1. pc' \in [Clients -> Labels] /\ pc'[c] = "publish" /\ ix' = ix
        BY <1>0, <2>6 DEF Written, DeleteLost, TxTyped, Labels
      <3>2. TxTyped'
        BY <1>0, <2>4, <2>5, <3>1 DEF TxTyped
      <3> QED
        BY <1>0, <2>1, <2>5, <3>1, <3>2 DEF Placed, PrevOK
    <2>7. CASE WriteFails(c)
      <3>1. Failed(c) /\ prev'[c] \in Seq(Entry) /\ Len(prev'[c]) <= ix[c]
        BY <1>1, <2>1, <2>5, <2>7 DEF WriteFails
      <3>2. Placed(c)' /\ pc' \in [Clients -> Labels] /\ ix' \in [Clients -> Nat \ {0}]
        BY <2>1, <2>5, <3>1, FailedPlace
      <3>3. TxTyped'
        BY <1>0, <2>4, <2>5, <3>2 DEF TxTyped
      <3> QED
        BY <1>0, <2>5, <3>2, <3>3 DEF PrevOK
    <2> QED
      BY <1>4, <2>6, <2>7
  <1>5. CASE PublishChange(c)
    <2>1. pc[c] = "publish" /\ ix[c] <= Len(change_list[c]) /\ Len(prev[c]) <= ix[c]
      BY <1>0, <1>5 DEF PublishChange, Placed
    <2>2. Here(c).op \in Ops /\ Here(c).key \in Keys /\ Here(c).obj \in Object
      BY <1>0, <2>1, HereChange
    <2>3. mirror[Here(c).key] \in Stored
      BY <1>0, <2>2 DEF TxTyped
    <2>4. mirror' \in [Keys -> Stored]
      <3>1. \/ mirror' = [mirror EXCEPT ![Here(c).key] = Applied(Here(c).op, mirror[Here(c).key], Here(c).obj)]
            \/ mirror' = mirror
        BY <1>5 DEF PublishChange, Publish
      <3>2. Applied(Here(c).op, mirror[Here(c).key], Here(c).obj) \in Stored
        BY <2>2, <2>3, AppliedStored
      <3>3. mirror \in [Keys -> Stored]
        BY <1>0 DEF TxTyped
      <3> QED
        BY <1>0, <2>2, <3>1, <3>2, <3>3, StoreType
    <2>5. /\ pc' \in [Clients -> Labels] /\ pc'[c] = "change" /\ ix' \in [Clients -> Nat \ {0}] /\ ix'[c] = ix[c] + 1
          /\ UNCHANGED <<store, before, late, change_list, prev, loaded>>
      BY <1>0, <1>1, <1>5 DEF PublishChange, TxTyped, Labels
    <2>6. TxTyped'
      BY <1>0, <2>4, <2>5 DEF TxTyped
    <2> QED
      BY <1>0, <1>1, <2>1, <2>5, <2>6 DEF Placed, PrevOK
  <1>6. CASE OwnerCommits(c) \/ OwnerRefuses(c)
    <2> DEFINE e == [key |-> Here(c).key, obj |-> store[Here(c).key]]
    <2>1. pc[c] = "change" /\ ix[c] <= Len(change_list[c]) /\ Here(c).key \in OwnedKeys /\ Len(prev[c]) < ix[c]
      BY <1>0, <1>6 DEF OwnerCommits, OwnerRefuses, AtChange, Placed
    <2>2. Here(c).op \in Ops /\ Here(c).key \in Keys /\ Here(c).obj \in Object
      BY <1>0, <2>1, HereChange
    <2>3. store[Here(c).key] \in Stored /\ e \in Entry /\ e.key = Here(c).key
      BY <1>0, <2>2 DEF TxTyped, Entry
    <2> HIDE DEF e
    <2>4. store' \in [Keys -> Stored]
      <3>1. CASE OwnerCommits(c)
        <4>1. store' = [store EXCEPT ![Here(c).key] = Applied(Here(c).op, store[Here(c).key], Here(c).obj)]
          BY <3>1 DEF OwnerCommits
        <4> QED
          BY <1>0, <2>2, <2>3, <4>1, AppliedStored, StoreType
      <3>2. CASE OwnerRefuses(c)
        BY <1>0, <3>2 DEF OwnerRefuses, TxTyped
      <3> QED
        BY <1>6, <3>1, <3>2
    <2>5. UNCHANGED <<before, mirror, late, change_list, loaded>>
      BY <1>6 DEF OwnerCommits, OwnerRefuses
    <2>6. prev' = prev \/ prev' = [prev EXCEPT ![c] = ListSet(prev[c], ix[c], e)]
      BY <1>6 DEF OwnerCommits, OwnerRefuses, e
    <2>7. /\ prev' \in [Clients -> Seq(Entry)] /\ prev'[c] \in Seq(Entry) /\ Len(prev'[c]) <= ix[c]
          /\ \A i \in DOMAIN prev'[c] : \/ i \in DOMAIN prev[c] /\ prev'[c][i] = prev[c][i]
                                        \/ prev'[c][i] = NullPtr
                                        \/ i = ix[c] /\ prev'[c][i] = e
      <3>1. CASE prev' = prev
        BY <1>0, <1>1, <2>1, <3>1 DEF TxTyped
      <3>2. CASE prev' = [prev EXCEPT ![c] = ListSet(prev[c], ix[c], e)]
        <4>1. prev'[c] = ListSet(prev[c], ix[c], e)
          BY <1>0, <3>2 DEF TxTyped
        <4>2. /\ prev'[c] \in Seq(Entry) /\ Len(prev'[c]) = ix[c]
              /\ \A i \in 1..Len(prev'[c]) : prev'[c][i] = IF i = ix[c] THEN e ELSE ListGet(prev[c], i)
          BY <1>1, <2>1, <2>3, <4>1, ListSetSeq
        <4>3. prev' \in [Clients -> Seq(Entry)]
          BY <1>0, <3>2, <4>1, <4>2 DEF TxTyped
        <4> QED
          BY <1>1, <4>2, <4>3 DEF ListGet
      <3> QED
        BY <2>6, <3>1, <3>2
    <2>8. PrevOK(c)'
      <3>1. NullPtr.key = NoKey
        BY DEF NullPtr
      <3> QED
        BY <1>0, <2>1, <2>3, <2>5, <2>7, <3>1, Distinct DEF PrevOK, Here
    <2>9. CASE OwnerCommits(c)
      <3>1. pc' \in [Clients -> Labels] /\ pc'[c] = "publish" /\ ix' = ix
        BY <1>0, <2>9 DEF OwnerCommits, TxTyped, Labels
      <3>2. TxTyped'
        BY <1>0, <2>4, <2>5, <2>7, <3>1 DEF TxTyped
      <3> QED
        BY <2>1, <2>5, <2>7, <2>8, <3>1, <3>2 DEF Placed
    <2>10. CASE OwnerRefuses(c)
      <3>1. Placed(c)' /\ pc' \in [Clients -> Labels] /\ ix' \in [Clients -> Nat \ {0}]
        BY <2>1, <2>5, <2>7, <2>10, FailedPlace DEF OwnerRefuses
      <3>2. TxTyped'
        BY <1>0, <2>4, <2>5, <2>7, <3>1 DEF TxTyped
      <3> QED
        BY <2>8, <3>1, <3>2
    <2> QED
      BY <1>6, <2>9, <2>10
  <1>7. CASE OwnerTimesOut(c)
    <2>1. pc[c] = "change" /\ ix[c] <= Len(change_list[c]) /\ Here(c).key \in OwnedKeys /\ Len(prev[c]) < ix[c]
      BY <1>0, <1>7 DEF OwnerTimesOut, AtChange, Placed
    <2>2. Here(c) \in Change
      BY <1>0, <2>1, HereChange
    <2>3. late' = late \cup {Here(c)} /\ UNCHANGED <<store, before, mirror, change_list, prev, loaded>>
      BY <1>7 DEF OwnerTimesOut
    <2>4. Placed(c)' /\ pc' \in [Clients -> Labels] /\ ix' \in [Clients -> Nat \ {0}]
      BY <1>1, <1>7, <2>1, <2>3, FailedPlace DEF OwnerTimesOut
    <2>5. TxTyped'
      BY <1>0, <2>1, <2>2, <2>3, <2>4 DEF TxTyped
    <2> QED
      BY <1>0, <2>3, <2>4, <2>5 DEF PrevOK
  <1>8. CASE Succeed(c)
    <2>1. pc[c] = "change" /\ ix[c] > Len(change_list[c]) /\ pc'[c] = "ok"
          /\ UNCHANGED <<store, before, mirror, late, change_list, prev, ix, loaded>>
      BY <1>0, <1>8 DEF Succeed, TxTyped
    <2>2. TxTyped'
      BY <1>0, <1>8 DEF Succeed, TxTyped, Labels
    <2> QED
      BY <1>0, <1>1, <2>1, <2>2 DEF Placed, PrevOK
  <1> QED
    BY <1>2, <1>3, <1>4, <1>5, <1>6, <1>7, <1>8 DEF Forward

LEMMA BackwardTx ==
    ASSUME TxInv, NEW c \in Clients, Backward(c)
    PROVE  TxTyped' /\ Placed(c)' /\ PrevOK(c)'
  <1>0. TxTyped /\ Placed(c) /\ PrevOK(c)
    BY DEF TxInv
  <1>1. /\ prev[c] \in Seq(Entry) /\ ix[c] \in Nat /\ ix[c] >= 1
        /\ change_list[c] \in Seq(Change) /\ Len(change_list[c]) \in Nat
        /\ loaded[c] \in Entry /\ loaded[c].obj \in Stored
    BY <1>0, ClientTypes
  <1>2. UNCHANGED <<before, late, change_list, prev>>
    BY DEF Backward, NothingToUndo, LoadForUndo, UndoWritten, UndoFails, UndoLost, PublishUndo, OwnerRollsBack,
           OwnerRefusesRollback, Fail
  <1>3. PrevOK(c)'
    BY <1>0, <1>2 DEF PrevOK
  <1>4. ASSUME pc[c] \in {"undo", "undo_write", "undo_publish"}, ix[c] > 1,
               pc' = [pc EXCEPT ![c] = "undo"] \/ (pc[c] = "undo" /\ UNCHANGED pc),
               ix' = [ix EXCEPT ![c] = @ - 1]
        PROVE  Placed(c)' /\ pc' \in [Clients -> Labels] /\ ix' \in [Clients -> Nat \ {0}]
    <2>1. pc'[c] = "undo" /\ ix'[c] = ix[c] - 1 /\ ix[c] <= Len(change_list[c])
      BY <1>0, <1>4 DEF TxTyped, Placed
    <2>2. pc' \in [Clients -> Labels] /\ ix' \in [Clients -> Nat \ {0}]
      <3>1. ix[c] - 1 \in Nat \ {0}
        BY <1>1, <1>4
      <3> QED
        BY <1>0, <1>4, <3>1 DEF TxTyped, Labels
    <2> QED
      BY <1>1, <1>2, <2>1, <2>2 DEF Placed
  <1>5. CASE NothingToUndo(c) \/ OwnerRefusesRollback(c)
    <2>1. UNCHANGED <<store, mirror, loaded>>
      BY <1>5 DEF NothingToUndo, OwnerRefusesRollback
    <2>2. Placed(c)' /\ pc' \in [Clients -> Labels] /\ ix' \in [Clients -> Nat \ {0}]
      BY <1>4, <1>5 DEF NothingToUndo, OwnerRefusesRollback, Undoing
    <2> QED
      BY <1>0, <1>2, <1>3, <2>1, <2>2 DEF TxTyped
  <1>6. CASE LoadForUndo(c)
    <2>1. /\ pc[c] = "undo" /\ ix[c] > 1 /\ Undone(c).key \in DbKeys /\ Saved(c).key # NoKey
          /\ ix[c] <= Len(change_list[c])
      BY <1>0, <1>6 DEF LoadForUndo, Undoing, Undone, Placed
    <2>2. Saved(c).key \in DbKeys /\ Undone(c) \in Change
      BY <2>1, SavedOf
    <2>3. PICK found \in {store[Saved(c).key], Absent} :
              loaded' = [loaded EXCEPT ![c] = LoadFrom(RollbackOp(Undone(c).op), Saved(c).key, found)]
      BY <1>6 DEF LoadForUndo
    <2>4. found \in Stored /\ Saved(c).key \in Keys
      BY <1>0, <2>2, Distinct DEF TxTyped, Stored
    <2>5. LoadFrom(RollbackOp(Undone(c).op), Saved(c).key, found) \in Entry
      BY <2>2, <2>4, ChangeFields, RollbackOps, LoadedEntry
    <2>6. loaded' \in [Clients -> Entry]
      BY <1>0, <2>3, <2>5 DEF TxTyped
    <2>7. /\ pc' \in [Clients -> Labels] /\ pc'[c] = "undo_write" /\ UNCHANGED <<store, mirror, ix>>
      BY <1>0, <1>6 DEF LoadForUndo, TxTyped, Labels
    <2>8. TxTyped'
      BY <1>0, <1>2, <2>6, <2>7 DEF TxTyped
    <2> QED
      BY <1>2, <1>3, <2>1, <2>7, <2>8 DEF Placed, Undone, Saved
  <1>7. CASE UndoWritten(c) \/ UndoLost(c) \/ UndoFails(c) \/ PublishUndo(c)
    <2>1. /\ pc[c] \in {"undo_write", "undo_publish"} /\ ix[c] > 1 /\ Undone(c).key \in DbKeys
          /\ Saved(c).key # NoKey /\ ix[c] <= Len(change_list[c])
      BY <1>0, <1>7 DEF UndoWritten, UndoLost, UndoFails, PublishUndo, Placed
    <2>2. Saved(c).key \in Keys /\ Saved(c).obj \in Object /\ RollbackOp(Undone(c).op) \in Ops
      BY <2>1, SavedOf, ChangeFields, RollbackOps, Distinct
    <2>3. /\ Applied(RollbackOp(Undone(c).op), loaded[c].obj, Saved(c).obj) \in Stored
          /\ Applied(RollbackOp(Undone(c).op), mirror[Saved(c).key], Saved(c).obj) \in Stored
      <3>1. mirror[Saved(c).key] \in Stored
        BY <1>0, <2>2 DEF TxTyped
      <3> QED
        BY <1>1, <2>2, <3>1, AppliedStored
    <2>4. store' \in [Keys -> Stored] /\ mirror' \in [Keys -> Stored] /\ loaded' = loaded
      <3>1. store \in [Keys -> Stored] /\ mirror \in [Keys -> Stored]
        BY <1>0 DEF TxTyped
      <3>2. CASE UndoWritten(c) \/ UndoLost(c) \/ UndoFails(c)
        <4>1. loaded' = loaded /\ mirror' = mirror /\ (store' = store \/ UndoWrite(c))
          BY <3>2 DEF UndoWritten, UndoLost, UndoFails
        <4> QED
          BY <1>0, <2>2, <2>3, <3>1, <4>1, StoreType DEF UndoWrite
      <3>3. CASE PublishUndo(c)
        <4>1. loaded' = loaded /\ store' = store /\ UndoEvent(c)
          BY <3>3 DEF PublishUndo
        <4> QED
          BY <1>0, <2>2, <2>3, <3>1, <4>1, StoreType DEF UndoEvent, Publish
      <3> QED
        BY <1>7, <3>2, <3>3
    <2>5. CASE UndoWritten(c) \/ UndoLost(c)
      <3>1. pc' \in [Clients -> Labels] /\ pc'[c] = "undo_publish" /\ ix' = ix
        BY <1>0, <2>5 DEF UndoWritten, UndoLost, TxTyped, Labels
      <3>2. TxTyped'
        BY <1>0, <1>2, <2>4, <3>1 DEF TxTyped
      <3> QED
        BY <1>2, <1>3, <2>1, <3>1, <3>2 DEF Placed, Undone, Saved
    <2>6. CASE UndoFails(c) \/ PublishUndo(c)
      <3>1. Placed(c)' /\ pc' \in [Clients -> Labels] /\ ix' \in [Clients -> Nat \ {0}]
        BY <1>4, <2>1, <2>6 DEF UndoFails, PublishUndo
      <3> QED
        BY <1>0, <1>2, <1>3, <2>4, <3>1 DEF TxTyped
    <2> QED
      BY <1>7, <2>5, <2>6
  <1>8. CASE OwnerRollsBack(c)
    <2>1. pc[c] = "undo" /\ ix[c] > 1 /\ UNCHANGED <<mirror, loaded, pc>>
      BY <1>8 DEF OwnerRollsBack, Undoing
    <2>2. Placed(c)' /\ pc' \in [Clients -> Labels] /\ ix' \in [Clients -> Nat \ {0}]
      BY <1>4, <1>8, <2>1 DEF OwnerRollsBack
    <2>3. Saved(c) \in Entry
      BY <1>1, <2>1, SavedEntry DEF Saved
    <2>4. store' \in [Keys -> Stored]
      <3>1. CASE Saved(c).key \in OwnedKeys
        BY <1>0, <1>8, <2>3, <3>1, StoreType, Distinct DEF OwnerRollsBack, Entry
      <3>2. CASE Saved(c).key \notin OwnedKeys
        BY <1>0, <1>8, <3>2 DEF OwnerRollsBack, TxTyped
      <3> QED
        BY <3>1, <3>2
    <2> QED
      BY <1>0, <1>2, <1>3, <2>1, <2>2, <2>4 DEF TxTyped
  <1>9. CASE Fail(c)
    <2>1. /\ pc[c] = "undo" /\ ix[c] = 1 /\ pc'[c] = "failed" /\ pc' \in [Clients -> Labels]
          /\ UNCHANGED <<store, mirror, ix, loaded>>
      BY <1>0, <1>9 DEF Fail, TxTyped, Labels
    <2>2. TxTyped'
      BY <1>0, <1>2, <2>1 DEF TxTyped
    <2> QED
      BY <1>0, <1>1, <1>2, <1>3, <2>1, <2>2 DEF Placed
  <1> QED
    BY <1>5, <1>6, <1>7, <1>8, <1>9 DEF Backward

\* For any number of clients: the objects stay objects, and the lists of previous
\* objects are those of the changes.
LEMMA NextTx == TxInv /\ [Next]_vars => TxInv'
  <1> SUFFICES ASSUME TxInv, [Next]_vars PROVE TxInv'
    OBVIOUS
  <1>0. TxTyped /\ \A c \in Clients : Placed(c) /\ PrevOK(c)
    BY DEF TxInv
  <1>1. ASSUME NEW c \in Clients, NEW ch \in Asked, AddChange(c, ch) PROVE TxInv'
    <2>1. change_list[c] \in Seq(Change) /\ ch \in Change
      BY <1>0, ClientTypes, AskedChanges
    <2>2. /\ pc[c] = "build" /\ change_list' = [change_list EXCEPT ![c] = Append(change_list[c], ch)]
          /\ UNCHANGED <<store, before, mirror, late, prev, pc, ix, loaded>>
      BY <1>1 DEF AddChange
    <2>3. TxTyped'
      BY <1>0, <2>1, <2>2 DEF TxTyped
    <2>4. prev[c] = <<>> /\ ix[c] = 1
      BY <1>0, <2>2 DEF Placed
    <2>5. Placed(c)' /\ PrevOK(c)'
      BY <2>2, <2>4 DEF Placed, PrevOK
    <2> QED
      BY <1>0, <1>1, <2>3, <2>5, OwnSteps, SamePlace DEF TxInv
  <1>2. ASSUME NEW c \in Clients, Forward(c) \/ Backward(c) PROVE TxInv'
    BY <1>0, <1>2, ForwardTx, BackwardTx, OwnSteps, SamePlace DEF TxInv
  <1>3. ASSUME NEW ch \in late, OwnerCommitsLate(ch) PROVE TxInv'
    <2>1. ch \in Change /\ ch.op \in Ops /\ ch.key \in Keys /\ ch.obj \in Object /\ store[ch.key] \in Stored
      BY <1>0, ChangeFields DEF TxTyped
    <2>2. /\ store' = [store EXCEPT ![ch.key] = Applied(ch.op, store[ch.key], ch.obj)]
          /\ late' \subseteq late /\ UNCHANGED <<before, mirror, change_list, prev, pc, ix, loaded>>
      BY <1>3 DEF OwnerCommitsLate, clientVars
    <2>3. store' \in [Keys -> Stored]
      BY <1>0, <2>1, <2>2, AppliedStored, StoreType
    <2>4. TxTyped'
      BY <1>0, <2>2, <2>3 DEF TxTyped
    <2> QED
      BY <1>0, <2>2, <2>4, SamePlace DEF TxInv, Own
  <1>4. CASE UNCHANGED vars
    BY <1>0, <1>4, SamePlace DEF TxInv, TxTyped, Own, vars, clientVars
  <1> QED
    BY <1>1, <1>2, <1>3, <1>4 DEF Next, Terminated

-----------------------------------------------------------------------------
(* The objects after the first n changes *)

\* One step of Steps.
OneStep(chs, first, f, n) ==
    IF n = 0 THEN first
    ELSE [f[n - 1] EXCEPT ![chs[n].key] = Applied(chs[n].op, @, chs[n].obj)]

LEMMA StepsOf ==
    ASSUME NEW chs \in Seq(Change), NEW first \in [Keys -> Stored]
    PROVE  /\ \A n \in 0..Len(chs) : Steps(chs, first)[n] \in [Keys -> Stored]
           /\ \A n \in 0..Len(chs) : Steps(chs, first)[n] = OneStep(chs, first, Steps(chs, first), n)
  <1> DEFINE T == {n \in Nat : \E f : f = [m \in 0..n |-> OneStep(chs, first, f, m)]}
  <1>1. 0 \in T
    <2> DEFINE f == [m \in 0..0 |-> first]
    <2>1. \A m \in 0..0 : OneStep(chs, first, f, m) = first
      BY DEF OneStep
    <2>2. f = [m \in 0..0 |-> OneStep(chs, first, f, m)]
      BY <2>1
    <2> HIDE DEF f
    <2> QED
      BY <2>2
  <1>2. ASSUME NEW n \in T PROVE n + 1 \in T
    <2>1. PICK f : f = [m \in 0..n |-> OneStep(chs, first, f, m)]
      OBVIOUS
    <2> DEFINE g == [m \in 0..(n + 1) |-> IF m = n + 1 THEN OneStep(chs, first, f, n + 1) ELSE f[m]]
    <2>2. ASSUME NEW m \in 0..(n + 1) PROVE g[m] = OneStep(chs, first, g, m)
      <3>1. OneStep(chs, first, g, m) = OneStep(chs, first, f, m)
        <4>1. CASE m = 0
          BY <4>1 DEF OneStep
        <4>2. CASE m # 0
          <5>1. m - 1 \in 0..n /\ m - 1 # n + 1 /\ g[m - 1] = f[m - 1]
            BY <4>2
          <5> HIDE DEF g
          <5> QED
            BY <4>2, <5>1 DEF OneStep
        <4> QED
          BY <4>1, <4>2
      <3>2. CASE m = n + 1
        BY <3>1, <3>2
      <3>3. CASE m # n + 1
        <4>1. m \in 0..n /\ g[m] = f[m]
          BY <3>3
        <4>2. f[m] = OneStep(chs, first, f, m)
          BY <2>1, <4>1
        <4> QED
          BY <3>1, <4>1, <4>2
      <3> QED
        BY <3>2, <3>3
    <2>3. g = [m \in 0..(n + 1) |-> OneStep(chs, first, g, m)]
      BY <2>2
    <2> HIDE DEF g
    <2> QED
      BY <2>3
  <1>3. T = Nat
    <2> HIDE DEF T
    <2>1. T \in SUBSET Nat
      BY DEF T
    <2> QED
      BY <1>1, <1>2, <2>1, Induction
  <1>4. \E f : f = [m \in 0..Len(chs) |-> OneStep(chs, first, f, m)]
    <2>1. Len(chs) \in T
      BY <1>3
    <2> QED
      BY <2>1
  <1> DEFINE F == Steps(chs, first)
  <1>5. F = [m \in 0..Len(chs) |-> OneStep(chs, first, F, m)]
    BY <1>4, Zenon DEF Steps, OneStep
  <1> HIDE DEF F
  <1>6. \A n \in 0..Len(chs) : F[n] = OneStep(chs, first, F, n)
    BY <1>5
  <1> DEFINE U == {n \in Nat : n <= Len(chs) => F[n] \in [Keys -> Stored]}
  <1>7. 0 \in U
    <2>1. 0 \in 0..Len(chs)
      OBVIOUS
    <2> QED
      BY <2>1, <1>6 DEF OneStep
  <1>8. ASSUME NEW n \in U PROVE n + 1 \in U
    <2> SUFFICES ASSUME n + 1 <= Len(chs) PROVE F[n + 1] \in [Keys -> Stored]
      OBVIOUS
    <2>1. n + 1 \in 0..Len(chs) /\ n + 1 # 0 /\ (n + 1) - 1 = n /\ F[n] \in [Keys -> Stored]
      OBVIOUS
    <2> DEFINE ch == chs[n + 1]
    <2>2. ch \in Change
      OBVIOUS
    <2>3. ch.op \in Ops /\ ch.key \in Keys /\ ch.obj \in Object
      BY <2>2, ChangeFields
    <2>4. F[n + 1] = [F[n] EXCEPT ![ch.key] = Applied(ch.op, F[n][ch.key], ch.obj)]
      BY <1>6, <2>1 DEF OneStep
    <2> HIDE DEF ch
    <2>5. F[n][ch.key] \in Stored
      BY <2>1, <2>3
    <2>6. Applied(ch.op, F[n][ch.key], ch.obj) \in Stored
      BY <2>3, <2>5, AppliedStored
    <2> QED
      BY <2>1, <2>3, <2>4, <2>6
  <1>9. U = Nat
    <2> HIDE DEF U
    <2>1. U \in SUBSET Nat
      BY DEF U
    <2> QED
      BY <1>7, <1>8, <2>1, Induction
  <1>10. \A n \in 0..Len(chs) : F[n] \in [Keys -> Stored]
    BY <1>9
  <1> QED
    BY <1>6, <1>10 DEF F

\* The same, object by object.
LEMMA AfterOf ==
    ASSUME TxTyped, NEW c \in Clients
    PROVE  /\ After(c, 0) = before[c]
           /\ \A n \in 0..Len(change_list[c]) : After(c, n) \in [Keys -> Stored]
           /\ \A n \in 1..Len(change_list[c]) : \A k \in Keys :
                  After(c, n)[k] = IF k = change_list[c][n].key
                                   THEN Applied(change_list[c][n].op, After(c, n - 1)[k], change_list[c][n].obj)
                                   ELSE After(c, n - 1)[k]
  <1>1. change_list[c] \in Seq(Change) /\ before[c] \in [Keys -> Stored] /\ Len(change_list[c]) \in Nat
    BY ClientTypes DEF TxTyped
  <1> DEFINE chs == change_list[c]
             F == Steps(chs, before[c])
  <1>2. /\ \A n \in 0..Len(chs) : F[n] \in [Keys -> Stored]
        /\ \A n \in 0..Len(chs) : F[n] = OneStep(chs, before[c], F, n)
    BY <1>1, StepsOf
  <1>3. \A n : After(c, n) = F[n]
    BY DEF After
  <1> HIDE DEF F, chs
  <1>4. ASSUME NEW n \in 1..Len(chs), NEW k \in Keys
        PROVE  F[n][k] = IF k = chs[n].key THEN Applied(chs[n].op, F[n - 1][k], chs[n].obj) ELSE F[n - 1][k]
    <2>1. n \in 0..Len(chs) /\ n - 1 \in 0..Len(chs) /\ n # 0
      BY <1>1 DEF chs
    <2>2. F[n - 1] \in [Keys -> Stored]
      BY <1>2, <2>1
    <2>3. F[n] = [F[n - 1] EXCEPT ![chs[n].key] = Applied(chs[n].op, F[n - 1][chs[n].key], chs[n].obj)]
      BY <1>2, <2>1 DEF OneStep
    <2> QED
      BY <2>2, <2>3
  <1>5. 0 \in 0..Len(chs)
    BY <1>1 DEF chs
  <1>6. F[0] = before[c]
    BY <1>2, <1>5 DEF OneStep
  <1> QED
    BY <1>2, <1>3, <1>4, <1>6 DEF chs

-----------------------------------------------------------------------------
(* A lone client *)

LEMMA LoneStep ==
    ASSUME Alone, [Next]_vars, NEW c \in Clients
    PROVE  \/ \E ch \in Asked : AddChange(c, ch)
           \/ Forward(c) \/ Backward(c)
           \/ \E ch \in late : OwnerCommitsLate(ch)
           \/ UNCHANGED vars
  BY DEF Next, Alone, Terminated

\* Where a step of the client leads to.
LEMMA Turns ==
    ASSUME TxInv, NEW c \in Clients
    PROVE  /\ \A ch \in Asked : AddChange(c, ch) =>
                  pc[c] = "build" /\ pc'[c] = "build" /\ met' = met /\ late' = late
           /\ Commit(c) => pc[c] = "build" /\ pc'[c] = "change" /\ ix[c] = 1 /\ ix' = ix
           /\ LoadPrevious(c) => pc[c] = "change" /\ pc'[c] = "write" /\ ix' = ix
           /\ Written(c) => pc[c] = "write" /\ pc'[c] = "publish" /\ ix' = ix
           /\ DeleteLost(c) => pc[c] = "write" /\ pc'[c] = "publish" /\ ix' = ix
           /\ PublishChange(c) => pc[c] = "publish" /\ pc'[c] = "change" /\ ix'[c] = ix[c] + 1
           /\ OwnerCommits(c) => pc[c] = "change" /\ pc'[c] = "publish" /\ ix' = ix
           /\ Succeed(c) => pc[c] = "change" /\ pc'[c] = "ok" /\ ix' = ix
           /\ NothingToUndo(c) => pc[c] = "undo" /\ pc'[c] = "undo" /\ ix'[c] = ix[c] - 1
           /\ LoadForUndo(c) => pc[c] = "undo" /\ pc'[c] = "undo_write" /\ ix' = ix
           /\ UndoWritten(c) => pc[c] = "undo_write" /\ pc'[c] = "undo_publish" /\ ix' = ix
           /\ UndoLost(c) => pc[c] = "undo_write" /\ pc'[c] = "undo_publish" /\ ix' = ix
           /\ UndoFails(c) => pc[c] = "undo_write" /\ pc'[c] = "undo" /\ ix'[c] = ix[c] - 1
           /\ PublishUndo(c) => pc[c] = "undo_publish" /\ pc'[c] = "undo" /\ ix'[c] = ix[c] - 1
           /\ OwnerRollsBack(c) => pc[c] = "undo" /\ pc'[c] = "undo" /\ ix'[c] = ix[c] - 1
           /\ OwnerRefusesRollback(c) => pc[c] = "undo" /\ pc'[c] = "undo" /\ ix'[c] = ix[c] - 1
           /\ Fail(c) => pc[c] = "undo" /\ pc'[c] = "failed" /\ ix' = ix
  <1>1. pc \in [Clients -> Labels] /\ ix \in [Clients -> Nat \ {0}] /\ Placed(c)
    BY DEF TxInv, TxTyped
  <1>2. /\ \A ch \in Asked : AddChange(c, ch) =>
               pc[c] = "build" /\ pc'[c] = "build" /\ met' = met /\ late' = late
        /\ Commit(c) => pc[c] = "build" /\ pc'[c] = "change" /\ ix[c] = 1 /\ ix' = ix
        /\ Succeed(c) => pc[c] = "change" /\ pc'[c] = "ok" /\ ix' = ix
        /\ Fail(c) => pc[c] = "undo" /\ pc'[c] = "failed" /\ ix' = ix
    BY <1>1 DEF AddChange, Commit, Placed, Succeed, Fail
  <1>3. /\ LoadPrevious(c) => pc[c] = "change" /\ pc'[c] = "write" /\ ix' = ix
        /\ Written(c) => pc[c] = "write" /\ pc'[c] = "publish" /\ ix' = ix
        /\ DeleteLost(c) => pc[c] = "write" /\ pc'[c] = "publish" /\ ix' = ix
        /\ PublishChange(c) => pc[c] = "publish" /\ pc'[c] = "change" /\ ix'[c] = ix[c] + 1
        /\ OwnerCommits(c) => pc[c] = "change" /\ pc'[c] = "publish" /\ ix' = ix
    BY <1>1 DEF LoadPrevious, Written, DeleteLost, PublishChange, OwnerCommits, AtChange
  <1>4. /\ NothingToUndo(c) => pc[c] = "undo" /\ pc'[c] = "undo" /\ ix'[c] = ix[c] - 1
        /\ LoadForUndo(c) => pc[c] = "undo" /\ pc'[c] = "undo_write" /\ ix' = ix
        /\ UndoWritten(c) => pc[c] = "undo_write" /\ pc'[c] = "undo_publish" /\ ix' = ix
        /\ UndoLost(c) => pc[c] = "undo_write" /\ pc'[c] = "undo_publish" /\ ix' = ix
        /\ UndoFails(c) => pc[c] = "undo_write" /\ pc'[c] = "undo" /\ ix'[c] = ix[c] - 1
        /\ PublishUndo(c) => pc[c] = "undo_publish" /\ pc'[c] = "undo" /\ ix'[c] = ix[c] - 1
    BY <1>1 DEF NothingToUndo, LoadForUndo, UndoWritten, UndoLost, UndoFails, PublishUndo, Undoing
  <1>5. /\ OwnerRollsBack(c) => pc[c] = "undo" /\ pc'[c] = "undo" /\ ix'[c] = ix[c] - 1
        /\ OwnerRefusesRollback(c) => pc[c] = "undo" /\ pc'[c] = "undo" /\ ix'[c] = ix[c] - 1
    BY <1>1 DEF OwnerRollsBack, OwnerRefusesRollback, Undoing
  <1> QED
    BY <1>2, <1>3, <1>4, <1>5

\* Failures turn the client back, unless it was told to continue.
Fails(c) == WriteFails(c) \/ OwnerRefuses(c) \/ OwnerTimesOut(c)
LEMMA TurnsBack ==
    ASSUME TxInv, NEW c \in Clients, Fails(c)
    PROVE  /\ pc[c] \in {"change", "write"} /\ pc'[c] \in {"change", "undo"}
           /\ ix[c] <= Len(change_list[c])
           /\ change_list' = change_list /\ before' = before /\ mirror' = mirror
           /\ pc'[c] = "undo" => ix'[c] = ix[c]
           /\ NoContinue(c) => pc'[c] = "undo"
  <1>1. pc \in [Clients -> Labels] /\ ix \in [Clients -> Nat \ {0}] /\ Placed(c) /\ TxTyped
    BY DEF TxInv, TxTyped
  <1>2. Failed(c) /\ pc[c] \in {"change", "write"} /\ ix[c] <= Len(change_list[c])
        /\ change_list' = change_list /\ before' = before /\ mirror' = mirror
    BY <1>1 DEF Fails, WriteFails, OwnerRefuses, OwnerTimesOut, AtChange, Placed
  <1>3. ix[c] \in DOMAIN change_list[c]
    BY <1>1, <1>2, ClientTypes
  <1>4. NoContinue(c) => ~Here(c).continue
    BY <1>3 DEF NoContinue, Here
  <1>5. pc'[c] \in {"change", "undo"} /\ (pc'[c] = "undo" => ix'[c] = ix[c]) /\ (~Here(c).continue => pc'[c] = "undo")
    BY <1>1, <1>2 DEF Failed, UndoFrom
  <1> QED
    BY <1>2, <1>4, <1>5

LEMMA MetGrows ==
    ASSUME [Next]_vars
    PROVE  met \subseteq met'
  BY DEF Next, AddChange, Forward, Commit, LoadPrevious, Written, WriteFails, DeleteLost, PublishChange,
         OwnerCommits, OwnerRefuses, OwnerTimesOut, Succeed, Backward, NothingToUndo, LoadForUndo, UndoWritten,
         UndoFails, UndoLost, PublishUndo, UndoEvent, OwnerRollsBack, OwnerRefusesRollback, Fail, OwnerCommitsLate,
         Terminated, vars, Meet, Reads, Publish

\* An object that is spared was spared before.
LEMMA SparedBefore ==
    ASSUME met \subseteq met', NEW k, NEW kinds, Spared(k, kinds)'
    PROVE  Spared(k, kinds)
  BY DEF Spared

\* What a step of the client may meet.
LEMMA MetBy ==
    ASSUME NEW c \in Clients, Forward(c) \/ Backward(c), NEW k, <<"lost", k>> \in met', <<"lost", k>> \notin met
    PROVE  \/ DeleteLost(c) /\ Here(c).key = k
           \/ UndoLost(c) /\ Saved(c).key = k
  <1>1. ASSUME NEW kind, NEW key, Meet(kind, key) PROVE kind = "lost" /\ key = k
    BY <1>1 DEF Meet
  <1>2. met' # met
    OBVIOUS
  <1>3. CASE Forward(c)
    BY <1>1, <1>2, <1>3 DEF Forward, Commit, LoadPrevious, Written, WriteFails, DeleteLost, PublishChange, OwnerCommits,
       OwnerRefuses, OwnerTimesOut, Succeed, Reads, Publish
  <1>4. CASE Backward(c)
    BY <1>1, <1>2, <1>4 DEF Backward, NothingToUndo, LoadForUndo, UndoWritten, UndoFails, UndoLost, PublishUndo,
       UndoEvent, OwnerRollsBack, OwnerRefusesRollback, Fail, Reads, Publish
  <1> QED
    BY <1>3, <1>4

\* Only a create and a delete lose deletes.
LEMMA NoneLost ==
    ASSUME TxInv, NEW c \in Clients, Forward(c) \/ Backward(c), OnlySets(c),
           NEW k \in DbKeys, Spared(k, {"lost"})
    PROVE  Spared(k, {"lost"})'
  <1> SUFFICES ASSUME <<"lost", k>> \in met', <<"lost", k>> \notin met PROVE FALSE
    BY DEF Spared
  <1>0. TxTyped /\ Placed(c) /\ ix[c] \in Nat /\ ix[c] >= 1 /\ Len(change_list[c]) \in Nat
        /\ DOMAIN change_list[c] = 1..Len(change_list[c])
    BY ClientTypes DEF TxInv
  <1>1. CASE DeleteLost(c)
    <2>1. ix[c] <= Len(change_list[c]) /\ Here(c).key \in DbKeys /\ Here(c).op = "delete"
      BY <1>0, <1>1 DEF DeleteLost, Placed
    <2>2. ix[c] \in DOMAIN change_list[c]
      BY <1>0, <2>1
    <2> QED
      BY <2>1, <2>2 DEF OnlySets, Here
  <1>2. CASE UndoLost(c)
    <2>1. ix[c] <= Len(change_list[c]) /\ ix[c] > 1 /\ Undone(c).key \in DbKeys /\ RollbackOp(Undone(c).op) = "delete"
      BY <1>0, <1>2 DEF UndoLost, Placed
    <2>2. ix[c] - 1 \in DOMAIN change_list[c]
      BY <1>0, <2>1
    <2>3. RollbackOp("set") = "set"
      BY DEF RollbackOp
    <2> QED
      BY <2>1, <2>2, <2>3 DEF OnlySets, Undone
  <1> QED
    BY <1>1, <1>2, MetBy

LEMMA NextFailures ==
    ASSUME TxInv, Alone, [Next]_vars, NEW c \in Clients, Failures(c)
    PROVE  Failures(c)'
  <1>1. met \subseteq met'
    BY MetGrows
  <1>2. ASSUME NEW ch \in Asked, AddChange(c, ch) PROVE Failures(c)'
    <2>1. pc[c] = "build" /\ pc'[c] = "build" /\ met' = met /\ late' = late
      BY <1>2, Turns
    <2> QED
      BY <2>1 DEF Failures, Going, Spared
  <1>3. ASSUME Forward(c) \/ Backward(c), change_list' = change_list
        PROVE  OnlySets(c)' => \A k \in DbKeys : Spared(k, {"lost"})'
    <2> SUFFICES ASSUME OnlySets(c)', NEW k \in DbKeys PROVE Spared(k, {"lost"})'
      OBVIOUS
    <2>1. OnlySets(c)
      BY <1>3 DEF OnlySets
    <2>2. Spared(k, {"lost"})
      BY <2>1 DEF Failures
    <2> QED
      BY <1>3, <2>1, <2>2, NoneLost
  <1>4. CASE Commit(c)
    <2>1. met' = met /\ late' = late /\ change_list' = change_list /\ pc[c] = "build" /\ pc'[c] = "change"
      BY <1>4, Turns DEF Commit
    <2> QED
      BY <2>1 DEF Failures, Spared, OnlySets
  <1>5. CASE LoadPrevious(c) \/ Written(c) \/ DeleteLost(c) \/ PublishChange(c) \/ OwnerCommits(c) \/ Succeed(c)
    <2>1. late' = late /\ change_list' = change_list
      BY <1>5 DEF LoadPrevious, Written, DeleteLost, PublishChange, OwnerCommits, Succeed
    <2>2. Going(c) /\ pc'[c] # "build"
      BY <1>5, Turns DEF Going
    <2>3. OnlySets(c)' => \A k \in DbKeys : Spared(k, {"lost"})'
      BY <1>3, <1>5, <2>1 DEF Forward
    <2> QED
      BY <1>1, <2>1, <2>2, <2>3 DEF Failures, NoContinue
  <1>6. CASE Fails(c)
    <2>1. \A ch \in late' : ch \in late \/ <<"timeout", ch.key>> \in met'
      BY <1>6 DEF Fails, WriteFails, OwnerRefuses, OwnerTimesOut, Meet
    <2>2. pc'[c] \in {"change", "undo"} /\ (NoContinue(c)' => pc'[c] = "undo") /\ change_list' = change_list
      BY <1>6, TurnsBack DEF NoContinue
    <2>3. OnlySets(c)' => \A k \in DbKeys : Spared(k, {"lost"})'
      BY <1>3, <1>6, <2>2 DEF Forward, Fails
    <2> QED
      BY <1>1, <2>1, <2>2, <2>3 DEF Failures, Going
  <1>7. CASE Backward(c)
    <2>1. late' = late /\ change_list' = change_list
      BY <1>7 DEF Backward, NothingToUndo, LoadForUndo, UndoWritten, UndoFails, UndoLost, PublishUndo, OwnerRollsBack,
                  OwnerRefusesRollback, Fail
    <2>2. pc'[c] \in {"undo", "undo_write", "undo_publish", "failed"}
      BY <1>7, Turns DEF Backward
    <2>3. OnlySets(c)' => \A k \in DbKeys : Spared(k, {"lost"})'
      BY <1>3, <1>7, <2>1
    <2> QED
      BY <1>1, <2>1, <2>2, <2>3 DEF Failures, Going
  <1>8. CASE (\E ch \in late : OwnerCommitsLate(ch)) \/ UNCHANGED vars
    <2>1. late' \subseteq late /\ UNCHANGED <<met, pc, change_list>>
      BY <1>8 DEF OwnerCommitsLate, vars, clientVars
    <2> QED
      BY <2>1 DEF Failures, Going, NoContinue, OnlySets, Spared
  <1> QED
    BY <1>2, <1>4, <1>5, <1>6, <1>7, <1>8, LoneStep DEF Forward, Fails

\* What is not about the client's own place: an owned object changes.
LEMMA FollowsKept ==
    ASSUME NEW c \in Clients, NEW k \in DbKeys, FollowsAt(c, k), mirror'[k] = mirror[k], store'[k] = store[k],
           loaded' = loaded, Own(c)' = Own(c)
    PROVE  FollowsAt(c, k)'
  <1>1. Here(c)' = Here(c) /\ Undone(c)' = Undone(c) /\ Saved(c)' = Saved(c) /\ pc'[c] = pc[c] /\ ix'[c] = ix[c]
    BY DEF Own, Here, Undone, Saved
  <1> QED
    BY <1>1 DEF FollowsAt

\* The client is where the subscriber has everything.
Quiet(c) == pc[c] \notin {"write", "publish", "undo_write", "undo_publish"}
LEMMA FollowsQuiet ==
    ASSUME NEW c \in Clients, NEW k \in DbKeys, Quiet(c)', store'[k] = mirror'[k]
    PROVE  FollowsAt(c, k)'
  BY DEF FollowsAt, Quiet

\* The failures an unharmed object did not meet.
LEMMA NotMet ==
    ASSUME NEW k, Unharmed(k)', NEW kind \in {"read", "reply", "lost", "event"}, NEW key, Meet(kind, key)
    PROVE  key # k
  BY DEF Unharmed, Spared, Meet

LEMMA NextFollowsAt ==
    ASSUME TxInv, Alone, [Next]_vars, NEW c \in Clients, NEW k \in DbKeys, Unharmed(k)', FollowsAt(c, k)
    PROVE  FollowsAt(c, k)'
  <1>0. TxTyped /\ Placed(c)
    BY DEF TxInv
  <1>1. store \in [Keys -> Stored] /\ mirror \in [Keys -> Stored] /\ k \in Keys
        /\ loaded \in [Clients -> Entry] /\ loaded[c].obj \in Stored
    BY <1>0, ClientTypes, Distinct DEF TxTyped
  <1>2. Quiet(c) \/ pc[c] \in {"write", "undo_write"} => store[k] = mirror[k]
    BY DEF FollowsAt, Quiet
  <1>3. ASSUME (\E ch \in Asked : AddChange(c, ch)) \/ Commit(c) \/ Succeed(c) \/ NothingToUndo(c)
               \/ OwnerRefusesRollback(c) \/ Fail(c) \/ OwnerRefuses(c) \/ OwnerTimesOut(c)
        PROVE  FollowsAt(c, k)'
    <2>1. store' = store /\ mirror' = mirror
      BY <1>3 DEF AddChange, Commit, Succeed, NothingToUndo, OwnerRefusesRollback, Fail, OwnerRefuses, OwnerTimesOut
    <2>2. Quiet(c)' /\ (Quiet(c) \/ pc[c] = "write")
      BY <1>3, Turns, TurnsBack DEF Quiet, Fails
    <2> QED
      BY <1>2, <2>1, <2>2, FollowsQuiet
  <1>4. CASE LoadPrevious(c)
    <2>1. AtChange(c, DbKeys) /\ store' = store /\ mirror' = mirror /\ change_list' = change_list
      BY <1>4 DEF LoadPrevious
    <2>2. ix[c] <= Len(change_list[c]) /\ Here(c).key \in DbKeys
      BY <2>1 DEF AtChange
    <2>3. Here(c).op \in Ops /\ Here(c).key \in Keys
      BY <1>0, <2>2, HereChange
    <2>4. PICK found \in {store[Here(c).key], Absent} :
              Reads(Here(c).key, found) /\ loaded' = [loaded EXCEPT ![c] = LoadFrom(Here(c).op, Here(c).key, found)]
      BY <1>4 DEF LoadPrevious
    <2>5. Here(c).key = k => found = store[k]
      BY <2>4, NotMet DEF Reads
    <2>6. found \in Stored /\ store[Here(c).key] \in Stored
      BY <1>1, <2>3 DEF Stored
    <2>7. Here(c).op = "set" => loaded'[c].obj = Base(found)
      BY <1>1, <2>3, <2>4, <2>6, LoadedEntry
    <2>8. Here(c).op = "set" => Base(loaded'[c].obj) = Base(found)
      BY <2>6, <2>7, BaseObject
    <2>9. pc[c] = "change" /\ pc'[c] = "write" /\ ix' = ix
      BY <1>4, Turns
    <2>10. Here(c)' = Here(c)
      BY <2>1, <2>9 DEF Here
    <2> QED
      BY <1>2, <2>1, <2>5, <2>8, <2>9, <2>10 DEF FollowsAt, Quiet
  <1>5. CASE Written(c) \/ DeleteLost(c)
    <2>1. pc[c] = "write" /\ pc'[c] = "publish" /\ ix' = ix
      BY <1>5, Turns
    <2>2. UNCHANGED <<mirror, change_list>>
      BY <1>5 DEF Written, DeleteLost
    <2>3. Here(c).op \in Ops /\ Here(c).key \in Keys /\ Here(c).key \in DbKeys
      BY <1>0, <2>1, HereChange DEF Placed
    <2>4. Here(c)' = Here(c)
      BY <2>1, <2>2 DEF Here
    <2>5. \/ store' = [store EXCEPT ![Here(c).key] = Applied(Here(c).op, loaded[c].obj, Here(c).obj)]
          \/ store' = store /\ Here(c).key # k
      BY <1>5, NotMet DEF Written, Write, DeleteLost
    <2>6. store[k] = mirror[k] /\ (Here(c).key = k /\ Here(c).op = "set" => Base(loaded[c].obj) = Base(mirror[k]))
      BY <1>2, <2>1 DEF FollowsAt
    <2>7. Here(c).key = k =>
              Applied(Here(c).op, loaded[c].obj, Here(c).obj) = Applied(Here(c).op, mirror[k], Here(c).obj)
      <3> SUFFICES ASSUME Here(c).key = k
                   PROVE  Applied(Here(c).op, loaded[c].obj, Here(c).obj) = Applied(Here(c).op, mirror[k], Here(c).obj)
        OBVIOUS
      <3> QED
        BY <2>3, <2>6, AppliedAlike
    <2>8. store'[k] = IF Here(c).key = k THEN Applied(Here(c).op, mirror[k], Here(c).obj) ELSE mirror[k]
      BY <1>1, <2>3, <2>5, <2>6, <2>7
    <2> QED
      BY <2>1, <2>2, <2>4, <2>8 DEF FollowsAt
  <1>6. CASE WriteFails(c)
    <2>1. Quiet(c)' /\ pc[c] = "write" /\ mirror' = mirror
      BY <1>6, TurnsBack DEF Quiet, Fails, WriteFails
    <2>2. store' = store \/ (Write(c) /\ Here(c).key # k)
      BY <1>6, NotMet DEF WriteFails
    <2>3. store'[k] = store[k]
      BY <1>1, <2>2 DEF Write
    <2> QED
      BY <1>2, <2>1, <2>3, FollowsQuiet
  <1>7. CASE PublishChange(c)
    <2>1. pc[c] = "publish" /\ pc'[c] = "change" /\ ix[c] <= Len(change_list[c])
      BY <1>0, <1>7, Turns DEF Placed
    <2>2. /\ \/ mirror' = [mirror EXCEPT ![Here(c).key] = Applied(Here(c).op, mirror[Here(c).key], Here(c).obj)]
             \/ mirror' = mirror /\ Here(c).key # k
          /\ store' = store
      BY <1>7, NotMet DEF PublishChange, Publish
    <2>3. Here(c).key \in Keys
      BY <1>0, <2>1, HereChange
    <2>4. store[k] = IF Here(c).key = k THEN Applied(Here(c).op, mirror[k], Here(c).obj) ELSE mirror[k]
      BY <2>1 DEF FollowsAt
    <2>5. store'[k] = mirror'[k]
      BY <1>1, <2>2, <2>3, <2>4
    <2> QED
      BY <2>1, <2>5, FollowsQuiet DEF Quiet
  <1>8. CASE OwnerCommits(c)
    <2>1. pc[c] = "change" /\ pc'[c] = "publish" /\ ix' = ix
      BY <1>8, Turns
    <2>2. /\ ix[c] <= Len(change_list[c]) /\ Here(c).key \in OwnedKeys /\ UNCHANGED <<mirror, change_list>>
          /\ store' = [store EXCEPT ![Here(c).key] = Applied(Here(c).op, store[Here(c).key], Here(c).obj)]
      BY <1>8 DEF OwnerCommits, AtChange
    <2>3. Here(c)' = Here(c)
      BY <2>1, <2>2 DEF Here
    <2>4. k # Here(c).key /\ store'[k] = store[k]
      BY <1>1, <2>2, Distinct
    <2> QED
      BY <1>2, <2>1, <2>2, <2>3, <2>4 DEF FollowsAt, Quiet
  <1>9. CASE OwnerRollsBack(c)
    <2>1. Quiet(c) /\ Quiet(c)' /\ mirror' = mirror
      BY <1>9, Turns DEF Quiet, OwnerRollsBack
    <2>2. store'[k] = store[k]
      BY <1>1, <1>9, Distinct DEF OwnerRollsBack
    <2> QED
      BY <1>2, <2>1, <2>2, FollowsQuiet
  <1>10. CASE LoadForUndo(c)
    <2>1. pc[c] = "undo" /\ pc'[c] = "undo_write" /\ ix' = ix /\ UNCHANGED <<store, mirror, change_list, prev>>
      BY <1>10, Turns DEF LoadForUndo
    <2>2. ix[c] > 1 /\ ix[c] <= Len(change_list[c]) /\ Undone(c).key \in DbKeys /\ Saved(c).key # NoKey
      BY <1>0, <1>10, <2>1 DEF LoadForUndo, Undoing, Undone, Placed
    <2>3. Saved(c).key \in DbKeys /\ Saved(c).key \in Keys /\ RollbackOp(Undone(c).op) \in Ops
      BY <2>2, SavedOf, ChangeFields, RollbackOps, Distinct
    <2>4. PICK found \in {store[Saved(c).key], Absent} :
              /\ Reads(Saved(c).key, found)
              /\ loaded' = [loaded EXCEPT ![c] = LoadFrom(RollbackOp(Undone(c).op), Saved(c).key, found)]
      BY <1>10 DEF LoadForUndo
    <2>5. Saved(c).key = k => found = store[k]
      BY <2>4, NotMet DEF Reads
    <2>6. found \in Stored
      BY <1>1, <2>3 DEF Stored
    <2>7. RollbackOp(Undone(c).op) = "set" => loaded'[c].obj = Base(found)
      BY <1>1, <2>3, <2>4, <2>6, LoadedEntry
    <2>8. RollbackOp(Undone(c).op) = "set" => Base(loaded'[c].obj) = Base(found)
      BY <2>6, <2>7, BaseObject
    <2>9. Undone(c)' = Undone(c) /\ Saved(c)' = Saved(c)
      BY <2>1 DEF Undone, Saved
    <2> QED
      BY <1>2, <2>1, <2>5, <2>8, <2>9 DEF FollowsAt, Quiet
  <1>11. ASSUME pc[c] \in {"undo_write", "undo_publish"}
         PROVE  /\ Saved(c).key \in DbKeys /\ Saved(c).key \in Keys /\ RollbackOp(Undone(c).op) \in Ops
    BY <1>0, <1>11, SavedOf, ChangeFields, RollbackOps, Distinct DEF Placed
  <1>12. CASE UndoWritten(c) \/ UndoLost(c)
    <2> DEFINE op == RollbackOp(Undone(c).op)
               s == Saved(c)
    <2>1. pc[c] = "undo_write" /\ pc'[c] = "undo_publish" /\ ix' = ix
      BY <1>12, Turns
    <2>2. UNCHANGED <<mirror, change_list, prev>>
      BY <1>12 DEF UndoWritten, UndoLost
    <2>3. Undone(c)' = Undone(c) /\ Saved(c)' = Saved(c)
      BY <2>1, <2>2 DEF Undone, Saved
    <2>4. s.key \in DbKeys /\ s.key \in Keys /\ op \in Ops
      BY <1>11, <2>1
    <2>5. \/ store' = [store EXCEPT ![s.key] = Applied(op, loaded[c].obj, s.obj)]
          \/ store' = store /\ s.key # k
      BY <1>12, NotMet DEF UndoWritten, UndoWrite, UndoLost
    <2>6. store[k] = mirror[k] /\ (s.key = k /\ op = "set" => Base(loaded[c].obj) = Base(mirror[k]))
      BY <1>2, <2>1 DEF FollowsAt
    <2> HIDE DEF op, s
    <2>7. s.key = k => Applied(op, loaded[c].obj, s.obj) = Applied(op, mirror[k], s.obj)
      <3> SUFFICES ASSUME s.key = k PROVE Applied(op, loaded[c].obj, s.obj) = Applied(op, mirror[k], s.obj)
        OBVIOUS
      <3> QED
        BY <2>4, <2>6, AppliedAlike
    <2>8. store'[k] = IF s.key = k THEN Applied(op, mirror[k], s.obj) ELSE mirror[k]
      BY <1>1, <2>4, <2>5, <2>6, <2>7
    <2> QED
      BY <2>1, <2>2, <2>3, <2>8 DEF FollowsAt, op, s
  <1>13. CASE UndoFails(c)
    <2>1. Quiet(c)' /\ pc[c] = "undo_write" /\ mirror' = mirror
      BY <1>13, Turns DEF Quiet, UndoFails
    <2>2. store' = store \/ (UndoWrite(c) /\ Saved(c).key # k)
      BY <1>13, NotMet DEF UndoFails
    <2>3. store'[k] = store[k]
      BY <1>1, <2>2 DEF UndoWrite
    <2> QED
      BY <1>2, <2>1, <2>3, FollowsQuiet
  <1>14. CASE PublishUndo(c)
    <2> DEFINE op == RollbackOp(Undone(c).op)
               s == Saved(c)
    <2>1. pc[c] = "undo_publish" /\ pc'[c] = "undo"
      BY <1>14, Turns
    <2>2. /\ \/ mirror' = [mirror EXCEPT ![s.key] = Applied(op, mirror[s.key], s.obj)]
             \/ mirror' = mirror /\ s.key # k
          /\ store' = store
      BY <1>14, NotMet DEF PublishUndo, UndoEvent, Publish
    <2>3. s.key \in Keys
      BY <1>11, <2>1
    <2>4. store[k] = IF s.key = k THEN Applied(op, mirror[k], s.obj) ELSE mirror[k]
      BY <2>1 DEF FollowsAt
    <2> HIDE DEF op, s
    <2>5. store'[k] = mirror'[k]
      BY <1>1, <2>2, <2>3, <2>4
    <2> QED
      BY <2>1, <2>5, FollowsQuiet DEF Quiet
  <1>15. ASSUME NEW ch \in late, OwnerCommitsLate(ch) PROVE FollowsAt(c, k)'
    <2>1. ch.key \in OwnedKeys /\ UNCHANGED <<mirror, change_list, prev, pc, ix, loaded>>
      BY <1>0, <1>15 DEF OwnerCommitsLate, TxTyped, clientVars
    <2>2. store'[k] = store[k]
      BY <1>1, <1>15, <2>1, Distinct DEF OwnerCommitsLate
    <2> QED
      BY <1>1, <2>1, <2>2, FollowsKept DEF Own
  <1>16. CASE UNCHANGED vars
    BY <1>1, <1>16, FollowsKept DEF Own, vars, clientVars
  <1> QED
    BY <1>3, <1>4, <1>5, <1>6, <1>7, <1>8, <1>9, <1>10, <1>12, <1>13, <1>14, <1>15, <1>16, LoneStep
       DEF Forward, Backward

LEMMA NextFollows ==
    ASSUME TxInv, Alone, [Next]_vars, NEW c \in Clients, Follows(c)
    PROVE  Follows(c)'
  <1> SUFFICES ASSUME NEW k \in DbKeys, Unharmed(k)' PROVE FollowsAt(c, k)'
    BY DEF Follows
  <1>1. Unharmed(k)
    BY MetGrows, SparedBefore DEF Unharmed
  <1> QED
    BY <1>1, NextFollowsAt DEF Follows

-----------------------------------------------------------------------------
(* The last change of an object stands *)

LEMMA StandsAfter ==
    ASSUME NEW ch \in Change, NEW o \in Stored, store'[ch.key] = Applied(ch.op, o, ch.obj)
    PROVE  Stands(ch)'
  <1>1. ch.op \in Ops /\ ch.obj \in Object /\ Base(o) \in Object
    BY ChangeFields, BaseObject
  <1>2. CASE ch.op = "delete"
    BY <1>2, AppliedCases DEF Stands
  <1>3. CASE ch.op = "create"
    <2>1. store'[ch.key] = ch.obj
      BY <1>3, AppliedCases
    <2> QED
      BY <1>1, <1>3, <2>1, Distinct DEF Stands
  <1>4. CASE ch.op = "set"
    <2>1. store'[ch.key] = Merge(Base(o), ch.obj)
      BY <1>4, AppliedCases
    <2>2. /\ Merge(Base(o), ch.obj) \in Object
          /\ \A a \in Attrs : ch.obj[a] # None => Merge(Base(o), ch.obj)[a] = ch.obj[a]
      BY <1>1, MergeObject
    <2> QED
      BY <1>4, <2>1, <2>2, Distinct DEF Stands
  <1> QED
    BY <1>1, <1>2, <1>3, <1>4 DEF Ops

\* A change is made.
LEMMA StandsMade ==
    ASSUME TxInv, NEW c \in Clients, LastStands(c), change_list' = change_list, met \subseteq met',
           Going(c), pc[c] # "publish", pc'[c] = "publish", ix' = ix, ix[c] <= Len(change_list[c]), NEW o \in Stored,
           \/ store' = [store EXCEPT ![Here(c).key] = Applied(Here(c).op, o, Here(c).obj)]
           \/ store' = store /\ Here(c).op = "delete" /\ <<"lost", Here(c).key>> \in met'
    PROVE  LastStands(c)'
  <1>0. TxTyped
    BY DEF TxInv
  <1>1. Here(c) \in Change /\ Here(c).key \in Keys /\ store \in [Keys -> Stored] /\ ix[c] \in Nat /\ ix[c] >= 1
        /\ change_list[c] \in Seq(Change) /\ Len(change_list[c]) \in Nat
    BY <1>0, HereChange, ClientTypes DEF TxTyped
  <1>2. Made(c) = ix[c] - 1 /\ Made(c)' = ix[c]
    BY DEF Made
  <1>3. PICK ch \in Change : ch = Here(c)
    BY <1>1
  <1>6. Stands(ch)'
    <2>1. \/ store'[ch.key] = Applied(ch.op, o, ch.obj)
          \/ ch.op = "delete" /\ <<"lost", ch.key>> \in met'
      BY <1>1, <1>3
    <2> QED
      BY <2>1, StandsAfter DEF Stands, Spared
  <1> SUFFICES ASSUME NoContinue(c), NEW n \in 1..ix[c],
                      \A j \in 1..ix[c] : change_list[c][j].key = change_list[c][n].key => j <= n
               PROVE  Stands(change_list[c][n])'
    BY <1>2 DEF LastStands, NoContinue
  <1>4. CASE n = ix[c]
    BY <1>3, <1>4, <1>6 DEF Here, Stands
  <1>5. CASE n # ix[c]
    <2>1. n \in 1..(ix[c] - 1) /\ ~(ix[c] <= n) /\ ix[c] \in 1..ix[c] /\ change_list[c][n] \in Change
      BY <1>1, <1>5
    <2>2. change_list[c][n].key # Here(c).key
      BY <2>1 DEF Here
    <2>3. Stands(change_list[c][n])
      <3>1. \A j \in 1..(ix[c] - 1) : change_list[c][j].key = change_list[c][n].key => j <= n
        BY <1>1
      <3> QED
        BY <1>2, <2>1, <3>1 DEF LastStands
    <2>4. store'[change_list[c][n].key] = store[change_list[c][n].key]
      BY <1>1, <2>1, <2>2, ChangeFields
    <2> QED
      BY <2>3, <2>4, SparedBefore DEF Stands
  <1> QED
    BY <1>4, <1>5

\* Nothing is made or undone.
LEMMA StandsKept ==
    ASSUME NEW c \in Clients, LastStands(c), change_list' = change_list, store' = store,
           Going(c), Made(c)' = Made(c), met \subseteq met'
    PROVE  LastStands(c)'
  <1>1. \A ch : Stands(ch) => Stands(ch)'
    BY SparedBefore DEF Stands
  <1> QED
    BY <1>1 DEF LastStands, NoContinue

LEMMA NextLastStands ==
    ASSUME TxInv, Alone, [Next]_vars, NEW c \in Clients, LastStands(c), Failures(c)
    PROVE  LastStands(c)'
  <1>0. TxTyped /\ Placed(c) /\ store \in [Keys -> Stored] /\ ix[c] \in Nat /\ loaded[c].obj \in Stored
        /\ met \subseteq met'
    BY ClientTypes, MetGrows DEF TxInv, TxTyped
  <1>1. CASE ~Going(c)'
    BY <1>1 DEF LastStands
  <1>2. CASE Commit(c)
    <2>1. Made(c)' = 0
      BY <1>2, Turns DEF Made
    <2> QED
      BY <2>1 DEF LastStands
  <1>3. CASE LoadPrevious(c) \/ PublishChange(c) \/ Succeed(c)
    <2>1. store' = store /\ change_list' = change_list
      BY <1>3 DEF LoadPrevious, PublishChange, Succeed
    <2>2. Going(c) /\ Made(c)' = Made(c)
      BY <1>0, <1>3, Turns DEF Going, Made
    <2> QED
      BY <1>0, <2>1, <2>2, StandsKept
  <1>4. CASE Written(c) \/ DeleteLost(c)
    <2>1. /\ \/ store' = [store EXCEPT ![Here(c).key] = Applied(Here(c).op, loaded[c].obj, Here(c).obj)]
             \/ store' = store /\ Here(c).op = "delete" /\ <<"lost", Here(c).key>> \in met'
          /\ change_list' = change_list
      BY <1>4 DEF Written, Write, DeleteLost, Meet
    <2>2. Going(c) /\ pc[c] = "write" /\ pc'[c] = "publish" /\ ix' = ix /\ ix[c] <= Len(change_list[c])
      BY <1>0, <1>4, Turns DEF Going, Placed
    <2> QED
      BY <1>0, <2>1, <2>2, StandsMade
  <1>5. CASE OwnerCommits(c)
    <2>1. /\ store' = [store EXCEPT ![Here(c).key] = Applied(Here(c).op, store[Here(c).key], Here(c).obj)]
          /\ change_list' = change_list /\ ix[c] <= Len(change_list[c])
      BY <1>5 DEF OwnerCommits, AtChange
    <2>2. Going(c) /\ pc[c] = "change" /\ pc'[c] = "publish" /\ ix' = ix
      BY <1>5, Turns DEF Going
    <2>3. store[Here(c).key] \in Stored
      BY <1>0, <2>1, HereChange
    <2> QED
      BY <1>0, <2>1, <2>2, <2>3, StandsMade
  <1>6. CASE Fails(c)
    BY <1>6, TurnsBack DEF LastStands, Going, NoContinue
  <1>7. CASE Backward(c) \/ \E ch \in Asked : AddChange(c, ch)
    <2>1. ~Going(c)'
      BY <1>7, Turns DEF Backward, Going
    <2> QED
      BY <1>1, <2>1
  <1>8. ASSUME NEW ch \in late, OwnerCommitsLate(ch) PROVE LastStands(c)'
    <2>1. UNCHANGED <<change_list, pc>>
      BY <1>8 DEF OwnerCommitsLate, clientVars
    <2>2. ~(Going(c) /\ NoContinue(c))
      BY <1>8 DEF Failures
    <2> QED
      BY <2>1, <2>2 DEF LastStands, Going, NoContinue
  <1>9. CASE UNCHANGED vars
    BY <1>9 DEF LastStands, Going, NoContinue, Made, Stands, Spared, vars, clientVars
  <1> QED
    BY <1>1, <1>2, <1>3, <1>4, <1>5, <1>6, <1>7, <1>8, <1>9, LoneStep DEF Forward, Fails

-----------------------------------------------------------------------------
(* The way forward *)

LEMMA AfterSame ==
    ASSUME NEW c, change_list' = change_list, before' = before
    PROVE  \A n : After(c, n)' = After(c, n)
  BY DEF After

LEMMA SavedKept ==
    ASSUME NEW c, change_list' = change_list, before' = before, met \subseteq met',
           NEW n, SavedOK(c, n), n <= Len(prev'[c]), prev'[c][n] = prev[c][n]
    PROVE  SavedOK(c, n)'
  <1>1. After(c, n - 1)' = After(c, n - 1)
    BY AfterSame
  <1>2. \A k : Read(k)' => Read(k)
    BY SparedBefore DEF Read
  <1> QED
    BY <1>1, <1>2 DEF SavedOK

\* There are as many previous objects as changes made.
LEMMA PrevLen ==
    ASSUME TxInv, NEW c \in Clients, pc[c] \in {"change", "ok"}, \A n \in 1..(ix[c] - 1) : SavedOK(c, n)
    PROVE  Len(prev[c]) = ix[c] - 1
  <1>1. ix[c] \in Nat /\ ix[c] >= 1 /\ Len(prev[c]) \in Nat /\ Len(prev[c]) < ix[c]
    BY ClientTypes DEF TxInv, Placed
  <1>2. ix[c] > 1 => ix[c] - 1 <= Len(prev[c])
    <2>1. ix[c] > 1 => ix[c] - 1 \in 1..(ix[c] - 1)
      BY <1>1
    <2> QED
      BY <2>1 DEF SavedOK
  <1> QED
    BY <1>1, <1>2

\* The previous object of the change at hand is put behind them.
LEMMA SavedAdded ==
    ASSUME TxInv, NEW c \in Clients, pc[c] = "change", \A n \in 1..(ix[c] - 1) : SavedOK(c, n),
           change_list' = change_list, before' = before, met \subseteq met',
           NEW e \in Entry, prev' = [prev EXCEPT ![c] = ListSet(prev[c], ix[c], e)]
    PROVE  /\ \A n \in 1..(ix[c] - 1) : SavedOK(c, n)'
           /\ Len(prev'[c]) = ix[c] /\ prev'[c][ix[c]] = e
  <1>1. ix[c] \in Nat /\ ix[c] >= 1 /\ Len(prev[c]) = ix[c] - 1 /\ prev[c] \in Seq(Entry)
    BY ClientTypes, PrevLen DEF TxInv
  <1>2. prev'[c] = ListSet(prev[c], ix[c], e)
    BY DEF TxInv, TxTyped
  <1>3. /\ Len(prev'[c]) = ix[c]
        /\ \A n \in 1..Len(prev'[c]) : prev'[c][n] = IF n = ix[c] THEN e ELSE ListGet(prev[c], n)
    BY <1>1, <1>2, ListSetSeq
  <1>4. ASSUME NEW n \in 1..(ix[c] - 1) PROVE SavedOK(c, n)'
    <2>1. n \in 1..Len(prev'[c]) /\ n # ix[c] /\ n <= Len(prev[c]) /\ n <= Len(prev'[c])
      BY <1>1, <1>3
    <2>2. prev'[c][n] = prev[c][n]
      BY <1>3, <2>1 DEF ListGet
    <2> QED
      BY <2>1, <2>2, SavedKept
  <1> QED
    BY <1>1, <1>3, <1>4

LEMMA AllSavedKept ==
    ASSUME NEW c, change_list' = change_list, before' = before, prev' = prev, met \subseteq met',
           NEW m, \A n \in 1..m : SavedOK(c, n)
    PROVE  \A n \in 1..m : SavedOK(c, n)'
  <1> SUFFICES ASSUME NEW n \in 1..m PROVE SavedOK(c, n)'
    OBVIOUS
  <1>1. SavedOK(c, n) /\ n <= Len(prev'[c]) /\ prev'[c][n] = prev[c][n]
    BY DEF SavedOK
  <1> QED
    BY <1>1, SavedKept

\* What a change makes of an object is what the list of changes says.
LEMMA AppliedNext ==
    ASSUME TxInv, NEW c \in Clients, ix[c] <= Len(change_list[c]), NEW k \in Keys,
           store[k] = After(c, ix[c] - 1)[k], NEW o,
           store' = [store EXCEPT ![Here(c).key] = Applied(Here(c).op, o, Here(c).obj)],
           Here(c).key = k /\ Here(c).op = "set" => Base(o) = Base(store[k])
    PROVE  store'[k] = After(c, ix[c])[k]
  <1>1. TxTyped /\ store \in [Keys -> Stored] /\ Here(c).op \in Ops /\ Here(c).key \in Keys
        /\ ix[c] \in 1..Len(change_list[c])
    BY HereChange, ClientTypes DEF TxInv, TxTyped
  <1>2. After(c, ix[c])[k] = IF k = Here(c).key THEN Applied(Here(c).op, After(c, ix[c] - 1)[k], Here(c).obj)
                             ELSE After(c, ix[c] - 1)[k]
    BY <1>1, AfterOf DEF Here
  <1>3. CASE k = Here(c).key
    <2>1. store'[k] = Applied(Here(c).op, o, Here(c).obj)
      BY <1>1, <1>3
    <2>2. Applied(Here(c).op, o, Here(c).obj) = Applied(Here(c).op, store[k], Here(c).obj)
      <3>1. Here(c).op = "set" => Base(o) = Base(store[k])
        BY <1>3
      <3>2. Here(c).op \in Ops
        BY <1>1
      <3> QED
        BY ONLY <3>1, <3>2, AppliedAlike
    <2> QED
      BY <1>2, <1>3, <2>1, <2>2
  <1>4. CASE k # Here(c).key
    BY <1>1, <1>2, <1>4
  <1> QED
    BY <1>3, <1>4

LEMMA NextForwards ==
    ASSUME TxInv, Alone, [Next]_vars, NEW c \in Clients, Failures(c), Forwards(c)
    PROVE  Forwards(c)'
  <1>0. TxTyped /\ Placed(c) /\ store \in [Keys -> Stored] /\ ix[c] \in Nat /\ ix[c] >= 1 /\ met \subseteq met'
        /\ change_list[c] \in Seq(Change) /\ Len(change_list[c]) \in Nat
    BY ClientTypes, MetGrows DEF TxInv, TxTyped
  <1>1. CASE ~Going(c)'
    BY <1>1 DEF Forwards
  <1>2. CASE Commit(c)
    <2>1. pc'[c] = "change" /\ ix'[c] = 1 /\ store' = store /\ change_list' = change_list /\ before'[c] = store
      BY <1>0, <1>2, Turns DEF Commit, TxTyped
    <2>2. Made(c)' = 0
      BY <2>1 DEF Made
    <2>3. After(c, 0)' = store
      <3>1. 0 \in 0..Len(change_list'[c]) /\ change_list'[c] \in Seq(Change)
        BY <1>0, <2>1
      <3>2. Steps(change_list'[c], before'[c])[0] = OneStep(change_list'[c], before'[c], Steps(change_list'[c], before'[c]), 0)
        BY <1>0, <2>1, <3>1, StepsOf
      <3> QED
        BY <2>1, <3>2 DEF After, OneStep
    <2>4. After(c, Made(c))' = store'
      BY <2>1, <2>2, <2>3 DEF After
    <2> QED
      BY <2>1, <2>4 DEF Forwards
  <1>3. ASSUME Going(c), NoContinue(c)
        PROVE  /\ \A k \in OwnedKeys : store[k] = After(c, Made(c))[k]
               /\ \A k \in DbKeys : Read(k) => store[k] = After(c, Made(c))[k]
               /\ pc[c] \in {"write", "publish"} => \A n \in 1..ix[c] : SavedOK(c, n)
               /\ pc[c] \in {"change", "ok"} => \A n \in 1..(ix[c] - 1) : SavedOK(c, n)
               /\ pc[c] = "write" /\ Here(c).op = "set" /\ Read(Here(c).key) =>
                      Base(loaded[c].obj) = Base(store[Here(c).key])
    BY <1>3 DEF Forwards
  <1>13. \A k : Read(k)' => Read(k)
    BY <1>0, SparedBefore DEF Read
  <1>4. ASSUME change_list' = change_list, before' = before
        PROVE  /\ \A n : After(c, n)' = After(c, n)
               /\ NoContinue(c)' <=> NoContinue(c)
    BY <1>4, AfterSame DEF NoContinue
  <1>5. CASE LoadPrevious(c)
    <2> SUFFICES ASSUME NoContinue(c)' PROVE Forwards(c)'
      BY DEF Forwards
    <2>1. /\ pc[c] = "change" /\ pc'[c] = "write" /\ ix' = ix /\ store' = store
          /\ change_list' = change_list /\ before' = before /\ AtChange(c, DbKeys)
      BY <1>5, Turns DEF LoadPrevious
    <2>2. Going(c) /\ NoContinue(c)
      BY <1>4, <2>1 DEF Going
    <2>3. Made(c) = ix[c] - 1 /\ Made(c)' = ix[c] - 1 /\ Here(c)' = Here(c)
      BY <2>1 DEF Made, Here
    <2>4. PICK found \in {store[Here(c).key], Absent} :
              /\ Reads(Here(c).key, found)
              /\ loaded' = [loaded EXCEPT ![c] = LoadFrom(Here(c).op, Here(c).key, found)]
              /\ prev' = [prev EXCEPT ![c] = ListSet(prev[c], PrevSlot(c), LoadFrom(Here(c).op, Here(c).key, found))]
      BY <1>5 DEF LoadPrevious
    <2>5. /\ Here(c).op \in Ops /\ Here(c).key \in Keys /\ Here(c).key \in DbKeys /\ Here(c).key \notin OwnedKeys
          /\ found \in Stored
      <3>1. Here(c).op \in Ops /\ Here(c).key \in Keys /\ Here(c).key \in DbKeys
        BY <1>0, <2>1, HereChange DEF AtChange
      <3> QED
        BY <1>0, <3>1, Distinct DEF Stored
    <2> DEFINE e == LoadFrom(Here(c).op, Here(c).key, found)
    <2>6. e \in Entry /\ (Here(c).op = "set" => e = [key |-> Here(c).key, obj |-> Base(found)])
      BY <2>5, LoadedEntry
    <2>7. Read(Here(c).key)' => found = store[Here(c).key]
      BY <2>3, <2>4 DEF Reads, Meet, Read, Spared
    <2>8. \A n \in 1..(ix[c] - 1) : SavedOK(c, n)
      BY <1>3, <2>1, <2>2
    <2>9. PrevSlot(c) = ix[c]
      BY <1>0, <2>1, <2>8, PrevLen, SlotOf
    <2>10. loaded'[c] = e /\ prev' = [prev EXCEPT ![c] = ListSet(prev[c], ix[c], e)]
      BY <1>0, <2>4, <2>9 DEF TxTyped
    <2> HIDE DEF e
    <2>11. (\A n \in 1..(ix[c] - 1) : SavedOK(c, n)') /\ Len(prev'[c]) = ix[c] /\ prev'[c][ix[c]] = e
      BY <1>0, <2>1, <2>6, <2>8, <2>10, SavedAdded
    <2>12. Read(Here(c).key)' => store[Here(c).key] = After(c, ix[c] - 1)[Here(c).key]
      BY <1>3, <1>13, <2>2, <2>3, <2>5
    <2>13. SavedOK(c, ix[c])'
      <3>1. SavedOK(c, ix[c])' <=>
              /\ ix[c] <= Len(prev'[c])
              /\ Here(c).key \in DbKeys /\ Here(c).op = "set" =>
                     /\ prev'[c][ix[c]].key = Here(c).key
                     /\ Read(Here(c).key)' =>
                            prev'[c][ix[c]] = [key |-> Here(c).key, obj |-> Base(After(c, ix[c] - 1)[Here(c).key])]
        BY <1>4, <2>1, <2>3 DEF SavedOK, Here, Read, Spared
      <3> QED
        BY <1>0, <2>5, <2>6, <2>7, <2>11, <2>12, <3>1
    <2>14. \A n \in 1..ix[c] : SavedOK(c, n)'
      <3> SUFFICES ASSUME NEW n \in 1..ix[c] PROVE SavedOK(c, n)'
        OBVIOUS
      <3>1. CASE n = ix[c]
        BY <2>1, <2>13, <3>1
      <3>2. CASE n # ix[c]
        BY <1>0, <2>11, <3>2
      <3> QED
        BY <3>1, <3>2
    <2>15. Here(c).op = "set" /\ Read(Here(c).key)' => Base(loaded'[c].obj) = Base(store[Here(c).key])
      BY <2>5, <2>6, <2>7, <2>10, BaseObject
    <2>16. /\ \A k \in OwnedKeys : store[k] = After(c, ix[c] - 1)[k]
           /\ \A k \in DbKeys : Read(k)' => store[k] = After(c, ix[c] - 1)[k]
      BY <1>3, <1>13, <2>2, <2>3
    <2>17. After(c, Made(c))' = After(c, ix[c] - 1)
      BY <1>4, <2>1, <2>3 DEF After
    <2> QED
      BY <2>1, <2>3, <2>14, <2>15, <2>16, <2>17 DEF Forwards
  <1>6. CASE Written(c) \/ DeleteLost(c)
    <2> SUFFICES ASSUME NoContinue(c)' PROVE Forwards(c)'
      BY DEF Forwards
    <2>1. /\ pc[c] = "write" /\ pc'[c] = "publish" /\ ix' = ix /\ change_list' = change_list /\ before' = before
          /\ prev' = prev /\ ix[c] <= Len(change_list[c]) /\ Here(c).key \in DbKeys
      BY <1>0, <1>6, Turns DEF Written, DeleteLost, Placed
    <2>2. Going(c) /\ NoContinue(c)
      BY <1>4, <2>1 DEF Going
    <2>3. Made(c) = ix[c] - 1 /\ Made(c)' = ix[c]
      BY <2>1 DEF Made
    <2>4. \/ store' = [store EXCEPT ![Here(c).key] = Applied(Here(c).op, loaded[c].obj, Here(c).obj)]
          \/ store' = store /\ <<"lost", Here(c).key>> \in met'
      BY <1>6 DEF Written, Write, DeleteLost, Meet
    <2>9. ASSUME NEW k \in Keys, store' = store, k # Here(c).key, store[k] = After(c, ix[c] - 1)[k]
          PROVE  store'[k] = After(c, ix[c])[k]
      <3>1. ix[c] \in 1..Len(change_list[c])
        BY <1>0, <2>1
      <3>2. After(c, ix[c])[k] = After(c, ix[c] - 1)[k]
        BY <1>0, <2>9, <3>1, AfterOf DEF Here
      <3> QED
        BY <2>9, <3>2
    <2>5. ASSUME NEW k \in OwnedKeys PROVE store'[k] = After(c, ix[c])[k]
      <3>1. k \in Keys /\ k # Here(c).key /\ store[k] = After(c, ix[c] - 1)[k]
        BY <1>3, <2>1, <2>2, <2>3, Distinct
      <3> QED
        BY <2>1, <2>4, <2>9, <3>1, AppliedNext
    <2>6. ASSUME NEW k \in DbKeys, Read(k)' PROVE store'[k] = After(c, ix[c])[k]
      <3>1. k \in Keys /\ store[k] = After(c, ix[c] - 1)[k]
            /\ (Here(c).key = k /\ Here(c).op = "set" => Base(loaded[c].obj) = Base(store[k]))
        BY <1>3, <1>13, <2>1, <2>2, <2>3, <2>6, Distinct
      <3>2. <<"lost", Here(c).key>> \in met' => k # Here(c).key
        BY <2>6 DEF Read, Spared
      <3> QED
        BY <2>1, <2>4, <2>9, <3>1, <3>2, AppliedNext
    <2>7. \A n \in 1..ix[c] : SavedOK(c, n)'
      BY <1>0, <1>3, <2>1, <2>2, AllSavedKept
    <2>8. After(c, Made(c))' = After(c, ix[c])
      BY <1>4, <2>1, <2>3 DEF After
    <2> QED
      BY <2>1, <2>5, <2>6, <2>7, <2>8 DEF Forwards
  <1>7. CASE OwnerCommits(c)
    <2> SUFFICES ASSUME NoContinue(c)' PROVE Forwards(c)'
      BY DEF Forwards
    <2> DEFINE e == [key |-> Here(c).key, obj |-> store[Here(c).key]]
    <2>1. /\ pc[c] = "change" /\ pc'[c] = "publish" /\ ix' = ix /\ change_list' = change_list /\ before' = before
          /\ ix[c] <= Len(change_list[c]) /\ Here(c).key \in OwnedKeys
          /\ store' = [store EXCEPT ![Here(c).key] = Applied(Here(c).op, store[Here(c).key], Here(c).obj)]
          /\ prev' = [prev EXCEPT ![c] = ListSet(prev[c], ix[c], e)]
      BY <1>7, Turns DEF OwnerCommits, AtChange
    <2>2. Going(c) /\ NoContinue(c)
      BY <1>4, <2>1 DEF Going
    <2>3. Made(c) = ix[c] - 1 /\ Made(c)' = ix[c]
      BY <2>1 DEF Made
    <2>4. Here(c).key \in Keys /\ Here(c).key \notin DbKeys /\ e \in Entry
      BY <1>0, <2>1, Distinct DEF Entry
    <2>5. ASSUME NEW k \in OwnedKeys PROVE store'[k] = After(c, ix[c])[k]
      <3>1. k \in Keys /\ store[k] = After(c, ix[c] - 1)[k]
        BY <1>3, <2>2, <2>3, Distinct
      <3> QED
        BY <2>1, <3>1, AppliedNext
    <2>6. ASSUME NEW k \in DbKeys, Read(k)' PROVE store'[k] = After(c, ix[c])[k]
      <3>1. k \in Keys /\ store[k] = After(c, ix[c] - 1)[k]
        BY <1>3, <1>13, <2>2, <2>3, <2>6, Distinct
      <3> QED
        BY <2>1, <3>1, AppliedNext
    <2>7. \A n \in 1..(ix[c] - 1) : SavedOK(c, n)
      BY <1>3, <2>1, <2>2
    <2> HIDE DEF e
    <2>8. (\A n \in 1..(ix[c] - 1) : SavedOK(c, n)') /\ Len(prev'[c]) = ix[c] /\ prev'[c][ix[c]] = e
      BY <1>0, <2>1, <2>4, <2>7, SavedAdded
    <2>9. SavedOK(c, ix[c])'
      <3>1. change_list'[c][ix[c]].key \notin DbKeys
        BY <2>1, <2>4 DEF Here
      <3>2. ix' = ix /\ ix[c] <= Len(prev'[c])
        BY <1>0, <2>1, <2>8
      <3> QED
        BY <3>1, <3>2 DEF SavedOK
    <2>10. \A n \in 1..ix[c] : SavedOK(c, n)'
      <3> SUFFICES ASSUME NEW n \in 1..ix[c] PROVE SavedOK(c, n)'
        OBVIOUS
      <3>1. CASE n = ix[c]
        BY <2>1, <2>9, <3>1
      <3>2. CASE n # ix[c]
        BY <1>0, <2>8, <3>2
      <3> QED
        BY <3>1, <3>2
    <2>11. After(c, Made(c))' = After(c, ix[c])
      BY <1>4, <2>1, <2>3 DEF After
    <2> QED
      BY <2>1, <2>5, <2>6, <2>10, <2>11 DEF Forwards
  <1>8. CASE PublishChange(c) \/ Succeed(c)
    <2> SUFFICES ASSUME NoContinue(c)' PROVE Forwards(c)'
      BY DEF Forwards
    <2>1. /\ store' = store /\ change_list' = change_list /\ before' = before /\ prev' = prev
          /\ \/ pc[c] = "publish" /\ pc'[c] = "change" /\ ix'[c] = ix[c] + 1
             \/ pc[c] = "change" /\ pc'[c] = "ok" /\ ix'[c] = ix[c]
      BY <1>8, Turns DEF PublishChange, Succeed
    <2>2. Going(c) /\ NoContinue(c)
      BY <1>4, <2>1 DEF Going
    <2>3. Made(c)' = Made(c)
      BY <1>0, <2>1 DEF Made
    <2>4. \A n \in 1..(ix'[c] - 1) : SavedOK(c, n)
      BY <1>0, <1>3, <2>1, <2>2
    <2>5. \A n \in 1..(ix'[c] - 1) : SavedOK(c, n)'
      BY <1>0, <2>1, <2>4, AllSavedKept
    <2>6. After(c, Made(c))' = After(c, Made(c))
      BY <2>1, <2>3 DEF After
    <2>7. pc'[c] \notin {"write", "publish"}
      BY <2>1
    <2> QED
      BY <1>3, <1>13, <2>1, <2>2, <2>5, <2>6, <2>7 DEF Forwards
  <1>9. CASE Fails(c)
    BY <1>4, <1>9, TurnsBack DEF Forwards, Going
  <1>10. CASE Backward(c) \/ \E ch \in Asked : AddChange(c, ch)
    <2>1. ~Going(c)'
      BY <1>10, Turns DEF Backward, Going
    <2> QED
      BY <1>1, <2>1
  <1>11. ASSUME NEW ch \in late, OwnerCommitsLate(ch) PROVE Forwards(c)'
    <2>1. UNCHANGED <<change_list, pc>>
      BY <1>11 DEF OwnerCommitsLate, clientVars
    <2>2. ~(Going(c) /\ NoContinue(c))
      BY <1>11 DEF Failures
    <2> QED
      BY <2>1, <2>2 DEF Forwards, Going, NoContinue
  <1>12. CASE UNCHANGED vars
    <2>1. /\ UNCHANGED <<store, before, met, change_list, prev, pc, ix, loaded>>
      BY <1>12 DEF vars, clientVars
    <2> QED
      BY <2>1 DEF Forwards, Going, NoContinue, Made, After, SavedOK, Here, Read, Spared
  <1> QED
    BY <1>1, <1>2, <1>5, <1>6, <1>7, <1>8, <1>9, <1>10, <1>11, <1>12, LoneStep DEF Forward, Fails

-----------------------------------------------------------------------------
(* The way back *)

\* Undoing a change concerns its object alone.
LEMMA AfterUndone ==
    ASSUME TxInv, NEW c \in Clients, ix[c] > 1, ix[c] <= Len(change_list[c]), NEW k \in Keys, k # Undone(c).key
    PROVE  After(c, ix[c] - 1)[k] = After(c, ix[c] - 2)[k]
  <1>1. TxTyped /\ ix[c] \in Nat /\ Len(change_list[c]) \in Nat
    BY ClientTypes DEF TxInv
  <1>2. ix[c] - 1 \in 1..Len(change_list[c]) /\ (ix[c] - 1) - 1 = ix[c] - 2
    BY <1>1
  <1> QED
    BY <1>1, <1>2, AfterOf DEF Undone

\* The previous object of the change to be undone is there.
LEMMA SavedThere ==
    ASSUME TxInv, NEW c \in Clients, Backwards(c), Returning(c), NoContinue(c), ix[c] > 1, ix[c] <= Len(change_list[c])
    PROVE  Undone(c).key \in DbKeys /\ Undone(c).op = "set" =>
               /\ Saved(c).key = Undone(c).key
               /\ Read(Undone(c).key) =>
                      Saved(c) = [key |-> Undone(c).key, obj |-> Base(After(c, ix[c] - 2)[Undone(c).key])]
  <1>1. TxTyped /\ ix[c] \in Nat
    BY ClientTypes DEF TxInv
  <1>2. ix[c] - 1 \in 1..(ix[c] - 1) /\ (ix[c] - 1) - 1 = ix[c] - 2
    BY <1>1
  <1>3. SavedOK(c, ix[c] - 1)
    BY <1>2 DEF Backwards
  <1>4. Saved(c) = prev[c][ix[c] - 1]
    BY <1>3 DEF SavedOK, Saved, ListGet
  <1> QED
    BY <1>2, <1>3, <1>4 DEF SavedOK, Undone

LEMMA BackKept ==
    ASSUME TxInv, NEW c \in Clients, Backwards(c), Returning(c), change_list' = change_list, before' = before,
           prev' = prev, met \subseteq met', ix'[c] \in Nat, ix'[c] <= ix[c],
           NoContinue(c) /\ OnlySets(c) =>
               \A k \in DbKeys : Undoable(k)' => KeepsValues(After(c, Left(c)')[k], store'[k])
    PROVE  Backwards(c)'
  <1> SUFFICES ASSUME NoContinue(c)' PROVE Backwards(c)'
    BY DEF Backwards
  <1>1. NoContinue(c) /\ (OnlySets(c)' <=> OnlySets(c))
    BY DEF NoContinue, OnlySets
  <1>2. After(c, Left(c))' = After(c, Left(c)')
    BY DEF After
  <1>3. \A n \in 1..(ix[c] - 1) : SavedOK(c, n)'
    BY <1>1, AllSavedKept DEF Backwards
  <1>4. \A n \in 1..(ix'[c] - 1) : n \in 1..(ix[c] - 1)
    BY ClientTypes DEF TxInv
  <1> QED
    BY <1>1, <1>2, <1>3, <1>4 DEF Backwards, KeepsValues

LEMMA NextBackwards ==
    ASSUME TxInv, Alone, [Next]_vars, NEW c \in Clients, Failures(c), Forwards(c), Backwards(c)
    PROVE  Backwards(c)'
  <1>0. TxTyped /\ Placed(c) /\ store \in [Keys -> Stored] /\ ix[c] \in Nat /\ ix[c] >= 1 /\ met \subseteq met'
        /\ change_list[c] \in Seq(Change) /\ Len(change_list[c]) \in Nat
    BY ClientTypes, MetGrows DEF TxInv, TxTyped
  <1>1. CASE ~Returning(c)'
    BY <1>1 DEF Backwards
  <1>2. CASE (\E ch \in Asked : AddChange(c, ch)) \/ Commit(c) \/ LoadPrevious(c) \/ Written(c) \/ DeleteLost(c)
             \/ PublishChange(c) \/ OwnerCommits(c) \/ Succeed(c)
    <2>1. ~Returning(c)'
      BY <1>2, Turns DEF Returning
    <2> QED
      BY <1>1, <2>1
  <1>12. /\ \A k : Undoable(k)' => Undoable(k)
         /\ OnlySets(c) => \A k \in DbKeys : Undoable(k)' => Read(k)
    <2>1. \A k : Undoable(k)' => Undoable(k)
      BY <1>0, SparedBefore DEF Undoable
    <2>2. OnlySets(c) => \A k \in DbKeys : Undoable(k) => Read(k)
      BY DEF Failures, Undoable, Read, Spared
    <2> QED
      BY <2>1, <2>2
  <1>3. CASE Fails(c)
    <2> SUFFICES ASSUME NoContinue(c)', Returning(c)' PROVE Backwards(c)'
      BY DEF Backwards
    <2>1. /\ pc[c] \in {"change", "write"} /\ change_list' = change_list /\ before' = before
          /\ ix[c] <= Len(change_list[c])
      BY <1>3, TurnsBack
    <2>2. NoContinue(c) /\ Going(c) /\ (OnlySets(c)' <=> OnlySets(c))
      BY <2>1 DEF NoContinue, OnlySets, Going
    <2>3. pc'[c] = "undo" /\ ix'[c] = ix[c]
      BY <1>3, <2>2, TurnsBack
    <2>4. Made(c) = ix[c] - 1 /\ Left(c)' = ix[c] - 1
      BY <2>1, <2>3 DEF Made, Left
    <2>5. /\ \A k \in DbKeys : Read(k) => store[k] = After(c, ix[c] - 1)[k]
          /\ \A n \in 1..(ix[c] - 1) : SavedOK(c, n)
      BY <1>0, <2>2, <2>4 DEF Forwards
    <2>6. \A k \in DbKeys : Undoable(k)' => store'[k] = store[k]
      <3>1. CASE WriteFails(c)
        <4>1. \/ store' = store
              \/ <<"reply", Here(c).key>> \in met' /\ Write(c)
          BY <3>1 DEF WriteFails, Meet
        <4>2. ASSUME NEW k \in DbKeys, Undoable(k)', <<"reply", Here(c).key>> \in met', Write(c)
              PROVE  store'[k] = store[k]
          <5>1. k # Here(c).key
            BY <4>2 DEF Undoable, Spared
          <5> QED
            BY <1>0, <4>2, <5>1, Distinct DEF Write
        <4> QED
          BY <4>1, <4>2
      <3>2. CASE OwnerRefuses(c) \/ OwnerTimesOut(c)
        BY <3>2 DEF OwnerRefuses, OwnerTimesOut
      <3> QED
        BY <1>3, <3>1, <3>2 DEF Fails
    <2>7. \A n \in 1..(ix[c] - 1) : SavedOK(c, n)'
      <3>1. CASE prev' = prev
        BY <1>0, <2>1, <2>5, <3>1, AllSavedKept
      <3>2. CASE prev' # prev
        <4> DEFINE e == [key |-> Here(c).key, obj |-> store[Here(c).key]]
        <4>1. AtChange(c, OwnedKeys) /\ prev' = [prev EXCEPT ![c] = ListSet(prev[c], ix[c], e)]
          BY <1>3, <3>2 DEF Fails, WriteFails, OwnerRefuses, OwnerTimesOut
        <4>2. e \in Entry /\ pc[c] = "change"
          BY <1>0, <2>1, <4>1, HereChange DEF Entry, AtChange
        <4> HIDE DEF e
        <4> QED
          BY <1>0, <2>1, <2>5, <4>1, <4>2, SavedAdded
      <3> QED
        BY <3>1, <3>2
    <2>8. After(c, Left(c))' = After(c, ix[c] - 1)
      BY <2>1, <2>4 DEF After
    <2>9. OnlySets(c) => \A k \in DbKeys : Undoable(k)' => store'[k] = After(c, ix[c] - 1)[k]
      BY <1>12, <2>5, <2>6
    <2> QED
      BY <2>2, <2>3, <2>7, <2>8, <2>9 DEF Backwards, KeepsValues
  <1>4. ASSUME Returning(c), NoContinue(c)
        PROVE  OnlySets(c) => \A k \in DbKeys : Undoable(k) => KeepsValues(After(c, Left(c))[k], store[k])
    BY <1>4 DEF Backwards
  <1>5. CASE LoadForUndo(c) \/ PublishUndo(c) \/ Fail(c)
    <2>1. store' = store /\ change_list' = change_list /\ before' = before /\ prev' = prev
      BY <1>5 DEF LoadForUndo, PublishUndo, Fail
    <2>2. /\ Returning(c) /\ Left(c)' = Left(c) /\ ix'[c] \in Nat /\ ix'[c] <= ix[c]
      BY <1>0, <1>5, Turns DEF Returning, Left
    <2> QED
      BY <1>0, <1>4, <1>12, <2>1, <2>2, BackKept
  <1>6. ASSUME Undoing(c, OwnedKeys) \/ Undoing(c, DbKeys) \/ pc[c] = "undo_write"
        PROVE  /\ Returning(c) /\ ix[c] > 1 /\ ix[c] <= Len(change_list[c]) /\ Left(c) = ix[c] - 1
               /\ \A k \in Keys : k # Undone(c).key => After(c, ix[c] - 1)[k] = After(c, ix[c] - 2)[k]
    <2>1. Returning(c) /\ ix[c] > 1 /\ ix[c] <= Len(change_list[c]) /\ Left(c) = ix[c] - 1
      BY <1>0, <1>6 DEF Returning, Undoing, Placed, Left
    <2> QED
      BY <2>1, AfterUndone
  <1>7. CASE NothingToUndo(c)
    <2>1. /\ Undoing(c, DbKeys) /\ Saved(c).key = NoKey /\ pc'[c] = "undo" /\ ix'[c] = ix[c] - 1
          /\ store' = store /\ change_list' = change_list /\ before' = before /\ prev' = prev
      BY <1>7, Turns DEF NothingToUndo
    <2>2. /\ Returning(c) /\ ix[c] > 1 /\ ix[c] <= Len(change_list[c]) /\ Left(c) = ix[c] - 1
          /\ \A k \in Keys : k # Undone(c).key => After(c, ix[c] - 1)[k] = After(c, ix[c] - 2)[k]
      BY <1>6, <2>1
    <2>3. Left(c)' = ix[c] - 2 /\ ix'[c] \in Nat /\ ix'[c] <= ix[c]
      BY <1>0, <2>1, <2>2 DEF Left
    <2>4. Undone(c).key \in DbKeys
      BY <2>1 DEF Undoing, Undone
    <2>5. ~(NoContinue(c) /\ OnlySets(c))
      <3> SUFFICES ASSUME NoContinue(c), OnlySets(c) PROVE FALSE
        OBVIOUS
      <3>1. Undone(c).op = "set"
        <4>1. ix[c] - 1 \in DOMAIN change_list[c]
          BY <1>0, <2>2
        <4> QED
          BY <2>4, <4>1 DEF OnlySets, Undone
      <3>2. Saved(c).key = Undone(c).key
        BY <2>2, <2>4, <3>1, SavedThere
      <3> QED
        BY <2>1, <2>4, <3>2, Distinct
    <2> QED
      BY <1>0, <2>1, <2>2, <2>3, <2>5, BackKept
  <1>8. CASE UndoWritten(c) \/ UndoLost(c) \/ UndoFails(c)
    <2>1. /\ pc[c] = "undo_write" /\ Left(c)' = ix[c] - 2 /\ ix'[c] \in Nat /\ ix'[c] <= ix[c]
          /\ change_list' = change_list /\ before' = before /\ prev' = prev
      <3>1. pc[c] = "undo_write" /\ ix[c] > 1 /\ change_list' = change_list /\ before' = before /\ prev' = prev
        BY <1>0, <1>8 DEF UndoWritten, UndoLost, UndoFails, Placed
      <3>2. \/ pc'[c] = "undo_publish" /\ ix'[c] = ix[c]
            \/ pc'[c] = "undo" /\ ix'[c] = ix[c] - 1
        BY <1>8, Turns
      <3> QED
        BY <1>0, <3>1, <3>2 DEF Left
    <2>2. /\ Returning(c) /\ ix[c] > 1 /\ ix[c] <= Len(change_list[c]) /\ Left(c) = ix[c] - 1
          /\ \A k \in Keys : k # Undone(c).key => After(c, ix[c] - 1)[k] = After(c, ix[c] - 2)[k]
      BY <1>6, <2>1
    <2>3. Undone(c).key \in DbKeys /\ Saved(c).key # NoKey
      BY <1>0, <2>1 DEF Placed
    <2>4. /\ Saved(c).key \in DbKeys /\ Saved(c).obj \in Object /\ Undone(c) \in Change
          /\ Undone(c).key \in Keys /\ Saved(c).key \in Keys /\ loaded[c].obj \in Stored
      BY <1>0, <2>2, <2>3, SavedOf, ClientTypes, Distinct
    <2>5. \/ store' = store /\ <<"undo", Saved(c).key>> \in met'
          \/ store' = store /\ RollbackOp(Undone(c).op) = "delete"
          \/ UndoWrite(c)
      BY <1>8 DEF UndoWritten, UndoLost, UndoFails, Meet
    <2>8. NoContinue(c) /\ OnlySets(c) =>
              \A k \in DbKeys : Undoable(k)' => KeepsValues(After(c, Left(c)')[k], store'[k])
      <3> SUFFICES ASSUME NoContinue(c), OnlySets(c), NEW k \in DbKeys, Undoable(k)'
                   PROVE  KeepsValues(After(c, ix[c] - 2)[k], store'[k])
        BY <2>1
      <3>2. Undone(c).op = "set"
        <4>1. ix[c] - 1 \in DOMAIN change_list[c]
          BY <1>0, <2>2
        <4> QED
          BY <2>3, <4>1 DEF OnlySets, Undone
      <3>7. RollbackOp(Undone(c).op) = "set"
        BY <3>2 DEF RollbackOp
      <3> DEFINE old == After(c, ix[c] - 2)[k]
      <3>5. CASE k = Undone(c).key
        <4>5. Saved(c) = [key |-> Undone(c).key, obj |-> Base(After(c, ix[c] - 2)[Undone(c).key])]
          BY <1>12, <2>2, <2>3, <3>2, <3>5, SavedThere
        <4>6. UndoWrite(c)
          <5>1. Saved(c).key = k
            BY <3>5, <4>5
          <5>2. <<"undo", k>> \notin met'
            BY DEF Undoable, Spared
          <5> QED
            BY <2>5, <3>7, <5>1, <5>2
        <4>7. store' = [store EXCEPT ![k] = Merge(Base(loaded[c].obj), Saved(c).obj)]
          <5>1. Applied("set", loaded[c].obj, Saved(c).obj) = Merge(Base(loaded[c].obj), Saved(c).obj)
            BY AppliedCases
          <5>2. Saved(c).key = k
            BY <3>5, <4>5
          <5>3. store' = [store EXCEPT ![Saved(c).key] = Applied(RollbackOp(Undone(c).op), loaded[c].obj, Saved(c).obj)]
            BY <4>6 DEF UndoWrite
          <5> QED
            BY ONLY <3>7, <5>1, <5>2, <5>3
        <4>1. Base(loaded[c].obj) \in Object
          BY <2>4, BaseObject
        <4>2. /\ Merge(Base(loaded[c].obj), Saved(c).obj) \in Object
              /\ \A a \in Attrs : Saved(c).obj[a] # None =>
                     Merge(Base(loaded[c].obj), Saved(c).obj)[a] = Saved(c).obj[a]
          BY <2>4, <4>1, MergeObject
        <4>3. store'[k] = Merge(Base(loaded[c].obj), Saved(c).obj)
          BY <1>0, <2>4, <3>5, <4>7
        <4>4. old # Absent => Saved(c).obj = old
          BY <3>5, <4>5 DEF Base
        <4> QED
          BY <4>2, <4>3, <4>4, Distinct DEF KeepsValues
      <3>6. CASE k # Undone(c).key
        <4>3. Saved(c).key = Undone(c).key
          BY <2>2, <2>3, <3>2, SavedThere
        <4>1. k \in Keys /\ store'[k] = store[k] /\ After(c, ix[c] - 1)[k] = After(c, ix[c] - 2)[k]
          BY <1>0, <2>2, <2>4, <2>5, <3>6, <4>3, Distinct DEF UndoWrite
        <4>2. KeepsValues(After(c, ix[c] - 1)[k], store[k])
          BY <1>4, <1>12, <2>2
        <4> QED
          BY <4>1, <4>2
      <3> QED
        BY <3>5, <3>6
    <2> QED
      BY <1>0, <2>1, <2>2, <2>8, BackKept
  <1>9. CASE OwnerRollsBack(c) \/ OwnerRefusesRollback(c)
    <2>1. /\ Undoing(c, OwnedKeys) /\ change_list' = change_list /\ before' = before /\ prev' = prev
          /\ pc'[c] = "undo" /\ ix'[c] = ix[c] - 1
      BY <1>9, Turns DEF OwnerRollsBack, OwnerRefusesRollback
    <2>2. /\ Returning(c) /\ ix[c] > 1 /\ ix[c] <= Len(change_list[c]) /\ Left(c) = ix[c] - 1
          /\ \A k \in Keys : k # Undone(c).key => After(c, ix[c] - 1)[k] = After(c, ix[c] - 2)[k]
      BY <1>6, <2>1
    <2>3. Left(c)' = ix[c] - 2 /\ ix'[c] \in Nat /\ ix'[c] <= ix[c]
      BY <1>0, <2>1, <2>2 DEF Left
    <2>4. Undone(c).key \in OwnedKeys /\ Undone(c).key \in Keys
          /\ \A k \in DbKeys : k \in Keys /\ k # Undone(c).key
      BY <2>1, Distinct DEF Undoing, Undone
    <2>5. \A k \in DbKeys : store'[k] = store[k]
      BY <1>0, <1>9, Distinct DEF OwnerRollsBack, OwnerRefusesRollback
    <2>6. NoContinue(c) /\ OnlySets(c) =>
              \A k \in DbKeys : Undoable(k)' => KeepsValues(After(c, Left(c)')[k], store'[k])
      BY <1>4, <1>12, <2>2, <2>3, <2>4, <2>5
    <2> QED
      BY <1>0, <2>1, <2>2, <2>3, <2>6, BackKept
  <1>10. ASSUME NEW ch \in late, OwnerCommitsLate(ch) PROVE Backwards(c)'
    <2> SUFFICES ASSUME Returning(c)' PROVE Backwards(c)'
      BY DEF Backwards
    <2>1. UNCHANGED <<before, change_list, prev, pc, ix>> /\ ch.key \in OwnedKeys
      BY <1>0, <1>10 DEF OwnerCommitsLate, clientVars, TxTyped
    <2>2. Returning(c) /\ Left(c)' = Left(c)
      BY <2>1 DEF Returning, Left
    <2>3. \A k \in DbKeys : store'[k] = store[k]
      BY <1>0, <1>10, <2>1, Distinct DEF OwnerCommitsLate
    <2> QED
      BY <1>0, <1>4, <1>12, <2>1, <2>2, <2>3, BackKept
  <1>11. CASE UNCHANGED vars
    <2>1. UNCHANGED <<store, before, met, change_list, prev, pc, ix>>
      BY <1>11 DEF vars, clientVars
    <2> QED
      BY <2>1 DEF Backwards, Returning, NoContinue, OnlySets, Left, After, SavedOK, Read, Undoable, Spared
  <1> QED
    BY <1>2, <1>3, <1>5, <1>7, <1>8, <1>9, <1>10, <1>11, LoneStep DEF Forward, Backward, Fails

-----------------------------------------------------------------------------
(* The objects of the owners *)

\* The previous objects with the key stay, and so does the object.
LEMMA OwnedKept ==
    ASSUME NEW c \in Clients, NEW k, OwnedAt(c, k), before'[c] = before[c], store'[k] = store[k],
           \A i \in DOMAIN prev[c] : i \in DOMAIN prev'[c] /\ prev'[c][i] = prev[c][i],
           \A i \in DOMAIN prev'[c] : prev'[c][i].key = k => i \in DOMAIN prev[c],
           \A i \in DOMAIN prev[c] : prev[c][i].key = k /\ ToUndo(c, i) => ToUndo(c, i)'
    PROVE  OwnedAt(c, k)'
  <1>1. ASSUME NEW i \in DOMAIN prev'[c], prev'[c][i].key = k, \A j \in DOMAIN prev'[c] : j < i => prev'[c][j].key # k
        PROVE  prev'[c][i].obj = before'[c][k]
    <2>1. i \in DOMAIN prev[c] /\ prev'[c][i] = prev[c][i]
      BY <1>1
    <2>2. \A j \in DOMAIN prev[c] : j < i => prev[c][j].key # k
      BY <1>1
    <2> QED
      BY <1>1, <2>1, <2>2 DEF OwnedAt
  <1>2. ASSUME \A i \in DOMAIN prev'[c] : ToUndo(c, i)' => prev'[c][i].key # k
        PROVE  store'[k] = before'[c][k]
    <2>1. \A i \in DOMAIN prev[c] : ToUndo(c, i) => prev[c][i].key # k
      BY <1>2
    <2> QED
      BY <2>1 DEF OwnedAt
  <1> QED
    BY <1>1, <1>2 DEF OwnedAt

LEMMA NextOwnedAt ==
    ASSUME TxInv, Alone, [Next]_vars, NEW c \in Clients, NEW k \in OwnedKeys, Reached(k)', Failures(c),
           Going(c) \/ Returning(c), OwnedAt(c, k)
    PROVE  OwnedAt(c, k)'
  <1>0. /\ TxTyped /\ Placed(c) /\ PrevOK(c) /\ store \in [Keys -> Stored] /\ k \in Keys /\ k \notin DbKeys /\ k # NoKey
        /\ prev \in [Clients -> Seq(Entry)] /\ prev[c] \in Seq(Entry) /\ Len(prev[c]) \in Nat
        /\ DOMAIN prev[c] = 1..Len(prev[c])
        /\ ix[c] \in Nat /\ ix[c] >= 1 /\ Len(change_list[c]) \in Nat /\ met \subseteq met'
    BY ClientTypes, MetGrows, Distinct DEF TxInv, TxTyped
  <1>1. ASSUME before' = before, store'[k] = store[k], prev'[c] = prev[c],
               \A i \in DOMAIN prev[c] : prev[c][i].key = k /\ ToUndo(c, i) => ToUndo(c, i)'
        PROVE  OwnedAt(c, k)'
    BY <1>1, OwnedKept
  <1>2. ASSUME NEW ch \in Asked, AddChange(c, ch) PROVE FALSE
    BY <1>2 DEF AddChange, Going, Returning
  <1>3. ~Commit(c)
    BY DEF Commit, Going, Returning
  <1>4. CASE LoadPrevious(c)
    <2> DEFINE n == Len(prev[c]) + 1
    <2>1. /\ AtChange(c, DbKeys) /\ store' = store /\ before' = before /\ pc[c] = "change" /\ pc'[c] = "write"
          /\ ix[c] <= Len(change_list[c]) /\ Here(c).key \in DbKeys
      BY <1>4, Turns DEF LoadPrevious, AtChange
    <2>2. PICK found \in {store[Here(c).key], Absent} :
              prev' = [prev EXCEPT ![c] = ListSet(prev[c], PrevSlot(c), LoadFrom(Here(c).op, Here(c).key, found))]
      BY <1>4 DEF LoadPrevious
    <2> DEFINE e == LoadFrom(Here(c).op, Here(c).key, found)
    <2>3. Here(c).op \in Ops /\ Here(c).key \in Keys
      BY <1>0, <2>1, HereChange
    <2>4. found \in Stored
      BY <1>0, <2>3 DEF Stored
    <2>5. e \in Entry /\ e.key \in {Here(c).key, NoKey}
      BY <2>3, <2>4, LoadedEntry
    <2>6. PrevSlot(c) = n /\ n \in Nat /\ n >= 1 /\ Len(prev[c]) < n
      BY <1>0, <2>1, SlotOf
    <2> HIDE DEF e
    <2>7. prev'[c] = ListSet(prev[c], n, e)
      BY <1>0, <2>2, <2>6 DEF e
    <2> HIDE DEF n
    <2>8. /\ Len(prev'[c]) = n /\ DOMAIN prev'[c] = 1..n
          /\ \A i \in 1..n : prev'[c][i] = IF i = n THEN e ELSE ListGet(prev[c], i)
      BY <1>0, <2>5, <2>6, <2>7, ListSetSeq
    <2>9. \A i \in DOMAIN prev[c] : i \in DOMAIN prev'[c] /\ prev'[c][i] = prev[c][i]
      BY <1>0, <2>6, <2>8 DEF ListGet
    <2>10. e.key # k
      BY <1>0, <2>1, <2>5
    <2>11. \A i \in DOMAIN prev'[c] : prev'[c][i].key = k => i \in DOMAIN prev[c]
      BY <1>0, <2>6, <2>8, <2>10 DEF n
    <2>12. ~Returning(c) /\ ~Returning(c)'
      BY <2>1 DEF Returning
    <2>13. \A i \in DOMAIN prev[c] : ToUndo(c, i)'
      BY <2>9, <2>12 DEF ToUndo
    <2> QED
      BY <2>1, <2>9, <2>11, <2>13, OwnedKept
  <1>5. CASE Written(c) \/ DeleteLost(c) \/ PublishChange(c) \/ Succeed(c)
    <2>1. before' = before /\ prev' = prev
      BY <1>5 DEF Written, DeleteLost, PublishChange, Succeed
    <2>2. store'[k] = store[k]
      BY <1>0, <1>5 DEF Written, DeleteLost, PublishChange, Succeed, Write, Placed
    <2>3. ~Returning(c)'
      BY <1>5, Turns DEF Returning
    <2> QED
      BY <1>1, <2>1, <2>2, <2>3 DEF ToUndo
  <1>6. CASE WriteFails(c)
    <2>1. before' = before /\ prev' = prev /\ pc[c] = "write" /\ Here(c).key \in DbKeys
          /\ ix[c] <= Len(change_list[c]) /\ Len(prev[c]) <= ix[c]
      BY <1>0, <1>6 DEF WriteFails, Placed
    <2>2. store'[k] = store[k]
      BY <1>0, <1>6, <2>1 DEF WriteFails, Write
    <2>3. pc'[c] \in {"change", "undo"} /\ (pc'[c] = "undo" => ix'[c] = ix[c])
      BY <1>6, TurnsBack DEF Fails
    <2>4. ASSUME NEW i \in DOMAIN prev[c], prev[c][i].key = k PROVE ToUndo(c, i)'
      <3>1. i # ix[c]
        BY <1>0, <2>1, <2>4 DEF PrevOK, Here
      <3> QED
        BY <1>0, <2>1, <2>3, <3>1 DEF ToUndo, Returning
    <2> QED
      BY <1>1, <2>1, <2>2, <2>4
  <1>7. ASSUME OwnerCommits(c) \/ OwnerRefuses(c), prev'[c] = ListSet(prev[c], ix[c], [key |-> Here(c).key, obj |-> store[Here(c).key]])
        PROVE  OwnedAt(c, k)'
    <2> DEFINE e == [key |-> Here(c).key, obj |-> store[Here(c).key]]
    <2>1. pc[c] = "change" /\ ix[c] <= Len(change_list[c]) /\ Here(c).key \in OwnedKeys /\ before' = before
          /\ Len(prev[c]) < ix[c]
      BY <1>0, <1>7 DEF OwnerCommits, OwnerRefuses, AtChange, Placed
    <2>2. e \in Entry /\ e.key = Here(c).key /\ e.obj = store[Here(c).key]
      BY <1>0, <2>1, Distinct DEF Entry
    <2>3. prev'[c] = ListSet(prev[c], ix[c], e)
      BY <1>7
    <2> HIDE DEF e
    <2>4. /\ Len(prev'[c]) = ix[c] /\ DOMAIN prev'[c] = 1..ix[c]
          /\ \A i \in 1..ix[c] : prev'[c][i] = IF i = ix[c] THEN e ELSE ListGet(prev[c], i)
      BY <1>0, <2>1, <2>2, <2>3, ListSetSeq
    <2>5. \A i \in DOMAIN prev[c] : i \in DOMAIN prev'[c] /\ prev'[c][i] = prev[c][i] /\ i < ix[c]
      BY <1>0, <2>1, <2>4 DEF ListGet
    <2>6. \A i \in DOMAIN prev'[c] : i = ix[c] \/ i \in DOMAIN prev[c] \/ prev'[c][i] = NullPtr
      BY <1>0, <2>1, <2>4 DEF ListGet
    <2>7. NullPtr.key # k
      BY <1>0 DEF NullPtr
    <2>8. pc'[c] \in {"publish", "change", "undo"} /\ (pc'[c] = "undo" => ix'[c] = ix[c])
      BY <1>7, Turns, TurnsBack DEF Fails
    <2>9. ix[c] \in DOMAIN prev'[c] /\ prev'[c][ix[c]] = e
      <3>1. ix[c] \in Nat /\ ix[c] >= 1
        BY <1>0
      <3>2. ix[c] \in 1..ix[c]
        BY <3>1
      <3> QED
        BY <2>4, <3>2, Zenon
    <2>10. CASE Here(c).key # k
      <3>1. store'[k] = store[k]
        BY <1>0, <1>7, <2>10 DEF OwnerCommits, OwnerRefuses
      <3>2. \A i \in DOMAIN prev'[c] : prev'[c][i].key = k => i \in DOMAIN prev[c]
        BY <2>2, <2>6, <2>7, <2>9, <2>10
      <3>3. \A i \in DOMAIN prev[c] : ToUndo(c, i)'
        BY <2>5, <2>8 DEF ToUndo, Returning
      <3> QED
        BY <2>1, <2>5, <3>1, <3>2, <3>3, OwnedKept
    <2>11. CASE Here(c).key = k
      <3>1. (\A i \in DOMAIN prev[c] : prev[c][i].key # k) => store[k] = before[c][k]
        BY DEF OwnedAt
      <3>2. ASSUME NEW i \in DOMAIN prev'[c], prev'[c][i].key = k,
                   \A j \in DOMAIN prev'[c] : j < i => prev'[c][j].key # k
            PROVE  prev'[c][i].obj = before'[c][k]
        <4>1. CASE i \in DOMAIN prev[c]
          <5>1. prev[c][i].key = k /\ \A j \in DOMAIN prev[c] : j < i => prev[c][j].key # k
            BY <2>5, <3>2, <4>1
          <5>2. prev[c][i].obj = before[c][k]
            BY <4>1, <5>1 DEF OwnedAt
          <5> QED
            BY <2>1, <2>5, <4>1, <5>2
        <4>2. CASE i = ix[c]
          <5>1. \A j \in DOMAIN prev[c] : prev[c][j].key # k
            BY <2>5, <3>2, <4>2
          <5> QED
            BY <2>1, <2>2, <2>9, <2>11, <3>1, <4>2, <5>1
        <4> QED
          BY <2>6, <2>7, <3>2, <4>1, <4>2
      <3>3. ASSUME \A i \in DOMAIN prev'[c] : ToUndo(c, i)' => prev'[c][i].key # k
            PROVE  store'[k] = before'[c][k]
        <4>1. \A i \in DOMAIN prev[c] : ToUndo(c, i)'
          BY <2>5, <2>8 DEF ToUndo, Returning
        <4>2. store[k] = before[c][k]
          BY <2>5, <3>1, <3>3, <4>1
        <4>3. CASE OwnerCommits(c)
          <5>1. pc'[c] = "publish"
            BY <4>3, Turns
          <5>2. ToUndo(c, ix[c])'
            <6>1. ix' = ix /\ ix[c] \in DOMAIN prev'[c]
              BY <2>9, <4>3, Turns
            <6> QED
              BY <5>1, <6>1 DEF ToUndo, Returning
          <5>3. ix' = ix
            BY <4>3, Turns
          <5> QED
            BY <2>2, <2>9, <2>11, <3>3, <5>2, <5>3
        <4>4. CASE OwnerRefuses(c)
          BY <2>1, <4>2, <4>4 DEF OwnerRefuses
        <4> QED
          BY <1>7, <4>3, <4>4
      <3> QED
        BY <3>2, <3>3 DEF OwnedAt
    <2> QED
      BY <2>10, <2>11
  <1>8. CASE OwnerCommits(c)
    <2>1. prev'[c] = ListSet(prev[c], ix[c], [key |-> Here(c).key, obj |-> store[Here(c).key]])
      BY <1>0, <1>8 DEF OwnerCommits
    <2> QED
      BY <1>7, <1>8, <2>1
  <1>9. CASE OwnerRefuses(c) \/ OwnerTimesOut(c)
    <2>1. \/ prev' = prev
          \/ OwnerRefuses(c) /\ prev'[c] = ListSet(prev[c], ix[c], [key |-> Here(c).key, obj |-> store[Here(c).key]])
      BY <1>0, <1>9 DEF OwnerRefuses, OwnerTimesOut
    <2>2. CASE prev' = prev
      <3>1. store' = store /\ before' = before /\ pc[c] = "change" /\ Len(prev[c]) < ix[c]
        BY <1>0, <1>9 DEF OwnerRefuses, OwnerTimesOut, AtChange, Placed
      <3>2. pc'[c] \in {"change", "undo"} /\ (pc'[c] = "undo" => ix'[c] = ix[c])
        BY <1>9, TurnsBack DEF Fails
      <3>3. \A i \in DOMAIN prev[c] : ToUndo(c, i)'
        BY <1>0, <2>2, <3>1, <3>2 DEF ToUndo, Returning
      <3> QED
        BY <1>1, <2>2, <3>1, <3>3
    <2> QED
      BY <1>7, <2>1, <2>2
  <1>10. ASSUME before' = before, store'[k] = store[k], prev' = prev, pc[c] \in {"undo", "undo_write", "undo_publish"},
                pc'[c] = "undo", ix'[c] = ix[c] - 1, ix[c] > 1, Saved(c).key # k
         PROVE  OwnedAt(c, k)'
    <2>1. ASSUME NEW i \in DOMAIN prev[c], prev[c][i].key = k, ToUndo(c, i) PROVE ToUndo(c, i)'
      <3>1. i < ix[c]
        BY <1>10, <2>1 DEF ToUndo, Returning
      <3>2. i # ix[c] - 1
        <4>1. i = ix[c] - 1 => Saved(c) = prev[c][i]
          BY <1>0, <2>1 DEF Saved, ListGet
        <4> QED
          BY <1>10, <2>1, <4>1
      <3>3. i < ix'[c]
        BY <1>0, <1>10, <3>1, <3>2
      <3> QED
        BY <1>10, <3>3 DEF ToUndo
    <2> QED
      BY <1>1, <1>10, <2>1
  <1>11. CASE NothingToUndo(c)
    <2>1. before' = before /\ store' = store /\ prev' = prev /\ ix[c] > 1 /\ Saved(c).key = NoKey
      BY <1>11 DEF NothingToUndo, Undoing
    <2> QED
      BY <1>0, <1>10, <1>11, <2>1, Turns
  <1>12. CASE UndoFails(c) \/ PublishUndo(c)
    <2>1. before' = before /\ prev' = prev /\ pc[c] \in {"undo_write", "undo_publish"} /\ ix[c] > 1
          /\ ix[c] <= Len(change_list[c]) /\ Undone(c).key \in DbKeys /\ Saved(c).key # NoKey
      BY <1>0, <1>12 DEF UndoFails, PublishUndo, Placed
    <2>2. Saved(c).key # k
      BY <1>0, <2>1, SavedOf
    <2>3. store'[k] = store[k]
      BY <1>0, <1>12, <2>2 DEF UndoFails, PublishUndo, UndoWrite
    <2> QED
      BY <1>10, <1>12, <2>1, <2>2, <2>3, Turns
  <1>13. CASE LoadForUndo(c) \/ UndoWritten(c) \/ UndoLost(c) \/ Fail(c)
    <2>1. before' = before /\ prev' = prev /\ ix' = ix /\ Returning(c) /\ Returning(c)'
      BY <1>13, Turns DEF LoadForUndo, UndoWritten, UndoLost, Fail, Returning
    <2>2. store'[k] = store[k]
      <3>1. CASE UndoWritten(c)
        <4>1. Saved(c).key # k
          BY <1>0, <3>1, SavedOf DEF UndoWritten, Placed
        <4> QED
          BY <1>0, <3>1, <4>1 DEF UndoWritten, UndoWrite
      <3> QED
        BY <1>13, <3>1 DEF LoadForUndo, UndoLost, Fail
    <2> QED
      BY <1>1, <2>1, <2>2 DEF ToUndo
  <1>14. CASE OwnerRefusesRollback(c)
    <2>1. /\ before' = before /\ prev' = prev /\ store' = store /\ ix[c] > 1 /\ pc[c] = "undo" /\ pc'[c] = "undo"
          /\ ix'[c] = ix[c] - 1 /\ <<"undo", Undone(c).key>> \in met' /\ ix[c] <= Len(change_list[c])
      BY <1>0, <1>14, Turns DEF OwnerRefusesRollback, Undoing, Meet, Placed
    <2>2. Undone(c).key # k
      BY <2>1 DEF Reached, Spared
    <2>3. Saved(c).key # k
      <3> SUFFICES ASSUME Saved(c).key = k PROVE FALSE
        OBVIOUS
      <3>1. ix[c] - 1 \in DOMAIN prev[c] /\ Saved(c) = prev[c][ix[c] - 1]
        BY <1>0, <2>1, SavedEntry DEF Saved
      <3> QED
        BY <1>0, <2>2, <3>1 DEF PrevOK, Undone
    <2> QED
      BY <1>10, <2>1, <2>3
  <1>15. CASE OwnerRollsBack(c)
    <2>1. /\ before' = before /\ prev' = prev /\ ix[c] > 1 /\ pc[c] = "undo" /\ pc'[c] = "undo" /\ ix'[c] = ix[c] - 1
          /\ store' = IF Saved(c).key \in OwnedKeys THEN [store EXCEPT ![Saved(c).key] = Saved(c).obj] ELSE store
      BY <1>15, Turns DEF OwnerRollsBack, Undoing
    <2>2. CASE Saved(c).key # k
      <3>1. store'[k] = store[k]
        BY <1>0, <2>1, <2>2
      <3> QED
        BY <1>10, <2>1, <2>2, <3>1
    <2>3. CASE Saved(c).key = k
      <3>1. ix[c] - 1 \in DOMAIN prev[c] /\ Saved(c) = prev[c][ix[c] - 1]
        BY <1>0, <2>1, <2>3, SavedEntry DEF Saved
      <3>2. store'[k] = Saved(c).obj
        BY <1>0, <2>1, <2>3
      <3>3. ASSUME \A i \in DOMAIN prev'[c] : ToUndo(c, i)' => prev'[c][i].key # k
            PROVE  store'[k] = before'[c][k]
        <4>1. \A j \in DOMAIN prev[c] : j < ix[c] - 1 => prev[c][j].key # k
          BY <2>1, <3>3 DEF ToUndo
        <4>2. prev[c][ix[c] - 1].obj = before[c][k]
          BY <2>3, <3>1, <4>1 DEF OwnedAt
        <4> QED
          BY <2>1, <3>1, <3>2, <4>2
      <3> QED
        BY <2>1, <3>3 DEF OwnedAt
    <2> QED
      BY <2>2, <2>3
  <1>16. ASSUME NEW ch \in late, OwnerCommitsLate(ch) PROVE OwnedAt(c, k)'
    <2>1. /\ UNCHANGED <<before, met, prev, pc, ix>>
          /\ store' = [store EXCEPT ![ch.key] = Applied(ch.op, store[ch.key], ch.obj)]
      BY <1>16 DEF OwnerCommitsLate, clientVars
    <2>2. ch.key # k
      BY <2>1 DEF Failures, Reached, Spared
    <2>3. store'[k] = store[k]
      BY <1>0, <2>1, <2>2
    <2> QED
      BY <1>1, <2>1, <2>3 DEF ToUndo, Returning
  <1>17. CASE UNCHANGED vars
    <2>1. UNCHANGED <<store, before, prev, pc, ix>>
      BY <1>17 DEF vars, clientVars
    <2> QED
      BY <1>1, <2>1 DEF ToUndo, Returning
  <1> QED
    BY <1>2, <1>3, <1>4, <1>5, <1>6, <1>8, <1>9, <1>11, <1>12, <1>13, <1>14, <1>15, <1>16, <1>17, LoneStep
       DEF Forward, Backward

LEMMA NextOwned ==
    ASSUME TxInv, Alone, [Next]_vars, NEW c \in Clients, Failures(c), Owned(c)
    PROVE  Owned(c)'
  <1>0. TxTyped /\ Placed(c)
    BY DEF TxInv
  <1> SUFFICES ASSUME Going(c)' \/ Returning(c)', NEW k \in OwnedKeys, Reached(k)' PROVE OwnedAt(c, k)'
    BY DEF Owned
  <1>1. Reached(k)
    BY MetGrows, SparedBefore DEF Reached
  <1>2. CASE Going(c) \/ Returning(c)
    BY <1>1, <1>2, NextOwnedAt DEF Owned
  <1>3. CASE ~(Going(c) \/ Returning(c))
    <2>1. pc[c] = "build"
      BY <1>0, <1>3 DEF TxTyped, Labels, Going, Returning
    <2>2. pc'[c] # "build"
      BY DEF Going, Returning
    <2>3. Commit(c)
      <3>1. Forward(c)
        BY <2>1, <2>2, LoneStep, Turns DEF OwnerCommitsLate, vars, clientVars, Backward
      <3> QED
        BY <2>1, <3>1, Turns, TurnsBack DEF Forward, Fails
    <2>4. before'[c] = store /\ store' = store /\ prev'[c] = <<>>
      BY <1>0, <2>1, <2>3 DEF Commit, TxTyped, Placed
    <2> QED
      BY <2>4 DEF OwnedAt
  <1> QED
    BY <1>2, <1>3

-----------------------------------------------------------------------------
(* The theorems *)

LEMMA InitLone == Init => LoneInv
  <1> SUFFICES ASSUME Init, NEW c \in Clients
               PROVE  Failures(c) /\ Follows(c) /\ LastStands(c) /\ Forwards(c) /\ Backwards(c) /\ Owned(c)
    BY DEF LoneInv
  <1>1. pc[c] = "build" /\ met = {} /\ late = {} /\ mirror = store
    BY DEF Init
  <1>2. Failures(c) /\ Follows(c)
    BY <1>1 DEF Failures, Follows, FollowsAt, Going, Spared
  <1> QED
    BY <1>1, <1>2 DEF LastStands, Forwards, Backwards, Owned, Going, Returning

LEMMA NextInv == IInv /\ [Next]_vars => IInv'
  <1> SUFFICES ASSUME IInv, [Next]_vars PROVE IInv'
    OBVIOUS
  <1>1. TxInv /\ TxInv'
    BY NextTx DEF IInv
  <1>2. Alone' = Alone
    BY DEF Alone
  <1>3. ASSUME Alone, NEW c \in Clients
        PROVE  (Failures(c) /\ Follows(c) /\ LastStands(c) /\ Forwards(c) /\ Backwards(c) /\ Owned(c))'
    <2>1. Failures(c) /\ Follows(c) /\ LastStands(c) /\ Forwards(c) /\ Backwards(c) /\ Owned(c)
      BY <1>3 DEF IInv, LoneInv
    <2> QED
      BY <1>1, <1>3, <2>1, NextFailures, NextFollows, NextLastStands, NextForwards, NextBackwards, NextOwned
  <1> QED
    BY <1>1, <1>2, <1>3 DEF IInv, LoneInv

LEMMA Invariant == Spec => []IInv
  <1>1. Init => IInv
    BY InitTx, InitLone DEF IInv
  <1> QED
    BY <1>1, NextInv, PTL DEF Spec

\* A subscriber that applies the events of cps_api_commit, also those of its
\* rollback, has an object of the database as the node has it when a lone client is
\* done, unless it could not be read or its reply, delete or event was lost; what
\* happened to other objects does not matter.
THEOREM Followed == Spec => []SubscriberFollowsDatabase
  <1>1. IInv => SubscriberFollowsDatabase
    <2> SUFFICES ASSUME IInv, Alone, NEW c \in Clients, Finished(c), NEW k \in DbKeys, Unharmed(k)
                 PROVE  mirror[k] = store[k]
      BY DEF SubscriberFollowsDatabase, Unharmed
    <2>1. Follows(c) /\ pc[c] \notin {"publish", "undo_publish"}
      BY DEF IInv, LoneInv, Finished
    <2> QED
      BY <2>1 DEF Follows, FollowsAt
  <1> QED
    BY <1>1, Invariant, PTL

\* When cps_api_commit returns OK to a lone client that was not told to continue,
\* an object is what its changes make of it one after the other, unless it could
\* not be read or a delete of it was lost; even then its last change stands, if
\* that is not the lost delete.
THEOREM Committed == Spec => []CommittedAsAsked
  <1>1. ASSUME IInv, Alone, NEW c \in Clients, pc[c] = "ok", NoContinue(c)
        PROVE  /\ TxTyped /\ Going(c) /\ Forwards(c) /\ LastStands(c) /\ Made(c) = Len(change_list[c])
               /\ DOMAIN change_list[c] = 1..Len(change_list[c]) /\ Len(change_list[c]) \in Nat
    <2>1. TxTyped /\ Placed(c) /\ Forwards(c) /\ LastStands(c)
      BY <1>1 DEF IInv, TxInv, LoneInv
    <2>2. Len(change_list[c]) \in Nat /\ DOMAIN change_list[c] = 1..Len(change_list[c])
      BY <2>1, ClientTypes
    <2> QED
      BY <1>1, <2>1, <2>2 DEF Going, Made, Placed
  <1>2. IInv => SuccessMeansApplied
    <2> SUFFICES ASSUME IInv, Alone, NEW c \in Clients, pc[c] = "ok", NoContinue(c), NEW k \in Keys, Read(k)
                 PROVE  store[k] = AfterChanges(c)[k]
      BY DEF SuccessMeansApplied, Read
    <2>1. TxTyped /\ Going(c) /\ Forwards(c) /\ Made(c) = Len(change_list[c])
      BY <1>1
    <2>2. store[k] = After(c, Len(change_list[c]))[k]
      BY <2>1, Distinct DEF Forwards
    <2>3. AfterChanges(c) = After(c, Len(change_list[c]))
      BY DEF AfterChanges, After
    <2> QED
      BY <2>2, <2>3
  <1>3. IInv => LastChangeStands
    <2> SUFFICES ASSUME IInv, Alone, NEW c \in Clients, pc[c] = "ok", NoContinue(c),
                        NEW i \in DOMAIN change_list[c], LastOf(c, i)
                 PROVE  Stands(change_list[c][i])
      BY DEF LastChangeStands, Stands
    <2>1. Going(c) /\ LastStands(c) /\ Made(c) = Len(change_list[c]) /\ DOMAIN change_list[c] = 1..Len(change_list[c])
      BY <1>1
    <2> QED
      BY <2>1 DEF LastStands, LastOf
  <1> QED
    BY <1>2, <1>3, Invariant, PTL DEF CommittedAsAsked

\* When cps_api_commit fails for a lone client, its rollback has given every
\* attribute that a database object had its value back, if the client was not told
\* to continue and only set database objects, and has restored the objects of the
\* owners, whether it was told to continue or not.
THEOREM Restored == Spec => []FailureUndone
  <1>1. IInv => FailedSetsRestored
    <2> SUFFICES ASSUME IInv, Alone, NEW c \in Clients, pc[c] = "failed", NoContinue(c), OnlySets(c),
                        NEW k \in DbKeys, NEW a \in Attrs, Undoable(k), before[c][k] # Absent, before[c][k][a] # None
                 PROVE  store[k] # Absent /\ store[k][a] = before[c][k][a]
      BY DEF FailedSetsRestored, Undoable
    <2>1. TxTyped /\ Backwards(c) /\ ix[c] = 1
      BY DEF IInv, TxInv, LoneInv, Placed
    <2>2. Left(c) = 0 /\ Returning(c)
      BY <2>1 DEF Left, Returning
    <2>3. After(c, Left(c)) = before[c]
      BY <2>1, <2>2, AfterOf
    <2>4. KeepsValues(before[c][k], store[k])
      BY <2>1, <2>2, <2>3 DEF Backwards
    <2> QED
      BY <2>4 DEF KeepsValues
  <1>2. IInv => OwnersRestored
    <2> SUFFICES ASSUME IInv, Alone, NEW c \in Clients, pc[c] = "failed", NEW k \in OwnedKeys, Reached(k)
                 PROVE  store[k] = before[c][k]
      BY DEF OwnersRestored, Reached
    <2>1. TxTyped /\ Owned(c) /\ ix[c] = 1 /\ Returning(c)
      BY DEF IInv, TxInv, LoneInv, Placed, Returning
    <2>2. prev[c] \in Seq(Entry)
      BY <2>1, ClientTypes
    <2>3. \A i \in DOMAIN prev[c] : ~ToUndo(c, i)
      BY <2>1, <2>2 DEF ToUndo
    <2> QED
      BY <2>1, <2>3 DEF Owned, OwnedAt
  <1> QED
    BY <1>1, <1>2, Invariant, PTL DEF FailureUndone
=============================================================================
