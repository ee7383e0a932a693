------------------------- MODULE CpsServicesProofs -------------------------
(***************************************************************************)
(* Proofs about the two services that registrations and events go through. *)
(* CpsNameService: events and answers follow the table of owners, and the  *)
(* table implements the directory.  CpsEventQueue: no event is sent twice, *)
(* and, while the process runs, the order of delivery and what is lost.    *)
(***************************************************************************)
EXTENDS CpsEventQueue, CpsNameService, CpsRegistrationsProofs, SequenceTheorems, FiniteSetTheorems, TLAPS

-----------------------------------------------------------------------------
(* The name service *)

Reg == [addr : Clients, fd : Fds]
KeyEntry == [key : Keys, owners : Seq(Reg)]

\* The types of the service's state.
TableTyped ==
    /\ cache \in [Hashes -> Seq(KeyEntry)]
    /\ regFds \subseteq Fds
    /\ client \in [Fds -> Clients \cup {NoClient}]
    /\ notified \in [Keys -> {"none", "create", "delete"}]
    /\ closing \in Fds \cup {NoFd}
    /\ todo \subseteq Hashes
    /\ bucket \in Hashes \cup {NoHash}
    /\ keyIx \in Nat \ {0}
    /\ entryIx \in Nat \ {0}

\* A key is in the bucket of its hash, once.
KeysInPlace ==
    \A h \in Hashes : \A i \in DOMAIN cache[h] :
        /\ Hash[cache[h][i].key] = h
        /\ \A j \in DOMAIN cache[h] : cache[h][i].key = cache[h][j].key => i = j

\* A key without owners is the one the walk is at.
EmptyOnlyHere ==
    \A h \in Hashes : \A i \in DOMAIN cache[h] :
        cache[h][i].owners = <<>> => ~Idle /\ h = bucket /\ i = keyIx

\* The last event of a key is CREATE as long as the key has owners.
EventsTold ==
    \A k \in Keys :
        notified[k] = "create" <=>
            \E i \in DOMAIN cache[Hash[k]] :
                cache[Hash[k]][i].key = k /\ cache[Hash[k]][i].owners # <<>>

\* The walk ends between two buckets.
IdleOutside == Idle => bucket = NoHash

\* The inductive invariant of EventsFollowTable.
TableInv == TableTyped /\ KeysInPlace /\ EmptyOnlyHere /\ EventsTold /\ IdleOutside

\* A connection that is being cleaned up after is closed.
ClosedFirst == ~Idle => client[closing] = NoClient

\* A registration is of a connection that registered something, and it is of the
\* application connected there or one the walk has yet to come to.
Accounted(h, r, j) ==
    /\ r.fd \in regFds
    /\ \/ client[r.fd] = r.addr
       \/ /\ ~Idle /\ r.fd = closing
          /\ h \in todo
          /\ bucket = h => keyIx = 1 /\ j >= entryIx

\* Every registration of a key that has its bucket to itself is accounted for.
OwnersKnown ==
    \A k \in CleanKeys : \A i \in DOMAIN cache[Hash[k]] :
        \A j \in DOMAIN cache[Hash[k]][i].owners :
            Accounted(Hash[k], cache[Hash[k]][i].owners[j], j)

\* The inductive invariant of OrphansShareBuckets.
OrphanInv == TableInv /\ ClosedFirst /\ OwnersKnown

-----------------------------------------------------------------------------
(* The operators of the table *)

\* Erasing the element at an index.
LEMMA RemoveIndexType ==
    ASSUME NEW S, NEW s \in Seq(S), NEW i \in 1..Len(s)
    PROVE  /\ RemoveIndex(s, i) \in Seq(S)
           /\ Len(RemoveIndex(s, i)) = Len(s) - 1
           /\ \A j \in 1..(Len(s) - 1) : RemoveIndex(s, i)[j] = IF j < i THEN s[j] ELSE s[j + 1]
  <1> DEFINE a == SubSeq(s, 1, i - 1)
             b == SubSeq(s, i + 1, Len(s))
  <1>0. Len(s) \in Nat /\ i \in Nat /\ i <= Len(s) /\ 1 <= i
    OBVIOUS
  <1>1. a \in Seq(S) /\ Len(a) = i - 1 /\ \A j \in 1..(i - 1) : a[j] = s[j]
    OBVIOUS
  <1>2. b \in Seq(S) /\ Len(b) = Len(s) - i /\ \A j \in 1..(Len(s) - i) : b[j] = s[j + i]
    OBVIOUS
  <1> HIDE DEF a, b
  <1>3. a \o b \in Seq(S) /\ Len(a \o b) = Len(s) - 1
    <2>0. a \in Seq(S) /\ b \in Seq(S)
      BY <1>1, <1>2
    <2>1. a \o b \in Seq(S) /\ Len(a \o b) = Len(a) + Len(b)
      BY <2>0
    <2> QED
      BY <1>0, <1>1, <1>2, <2>1
  <1>4. ASSUME NEW j \in 1..(Len(s) - 1) PROVE (a \o b)[j] = IF j < i THEN s[j] ELSE s[j + 1]
    <2>1. CASE j < i
      BY <1>1, <1>2, <2>1
    <2>2. CASE ~(j < i)
      <3>1. (a \o b)[j] = b[j - (i - 1)]
        BY <1>1, <1>2, <2>2
      <3>2. b[j - (i - 1)] = s[(j - (i - 1)) + i] /\ (j - (i - 1)) + i = j + 1
        BY <1>2, <2>2
      <3> QED
        BY <2>2, <3>1, <3>2
    <2> QED
      BY <2>1, <2>2
  <1> QED
    BY <1>3, <1>4 DEF RemoveIndex, a, b

\* The types of an entry of the table and of its owners.
LEMMA EntryTyped ==
    ASSUME TableTyped, NEW h \in Hashes, NEW i \in DOMAIN cache[h]
    PROVE  /\ cache[h] \in Seq(KeyEntry) /\ i \in 1..Len(cache[h])
           /\ cache[h][i] \in KeyEntry /\ cache[h][i].key \in Keys /\ cache[h][i].owners \in Seq(Reg)
  <1>1. cache[h] \in Seq(KeyEntry)
    BY DEF TableTyped
  <1>2. cache[h][i] \in KeyEntry /\ i \in 1..Len(cache[h])
    BY <1>1
  <1> QED
    BY <1>1, <1>2 DEF KeyEntry

\* What process_registration does to the table: the owner is added to the entry of
\* the key, which is made when it is not there.
LEMMA AddOwnerTable ==
    ASSUME TableTyped, KeysInPlace, NEW k \in Keys, NEW r \in Reg, AddOwner(k, r)
    PROVE  /\ cache' \in [Hashes -> Seq(KeyEntry)]
           /\ \A h \in Hashes : h # Hash[k] => cache'[h] = cache[h]
           /\ \/ /\ Positions(k) # {} /\ DOMAIN cache'[Hash[k]] = DOMAIN cache[Hash[k]]
                 /\ \A i \in DOMAIN cache[Hash[k]] :
                        cache'[Hash[k]][i] =
                            IF cache[Hash[k]][i].key = k
                            THEN [key |-> k, owners |-> Append(cache[Hash[k]][i].owners, r)]
                            ELSE cache[Hash[k]][i]
              \/ /\ Positions(k) = {}
                 /\ cache'[Hash[k]] = Append(cache[Hash[k]], [key |-> k, owners |-> <<r>>])
  <1> DEFINE c == cache[Hash[k]]
             added == [i \in DOMAIN c |-> IF i \in Positions(k)
                                          THEN WithOwner(c[i], r)
                                          ELSE c[i]]
             made == Append(c, [key |-> k, owners |-> <<r>>])
             new == IF Registered(k) THEN added ELSE made
  <1>1. Hash[k] \in Hashes /\ c \in Seq(KeyEntry)
    BY NameServiceAssumption DEF TableTyped
  <1>2. cache' = [cache EXCEPT ![Hash[k]] = new]
    BY DEF AddOwner, InsertKey
  <1>3. \A i \in DOMAIN c : i \in Positions(k) <=> c[i].key = k
    BY DEF Positions
  <1>4. ASSUME NEW i \in DOMAIN c
        PROVE  /\ added[i] \in KeyEntry
               /\ added[i] = IF c[i].key = k THEN [key |-> k, owners |-> Append(c[i].owners, r)] ELSE c[i]
    <2>1. c[i] \in KeyEntry /\ c[i].owners \in Seq(Reg)
      BY <1>1, EntryTyped
    <2>2. CASE c[i].key = k
      <3>1. added[i] = [c[i] EXCEPT !.owners = Append(c[i].owners, r)]
        BY <1>3, <2>2 DEF WithOwner
      <3>2. Append(c[i].owners, r) \in Seq(Reg)
        BY <2>1
      <3> HIDE DEF added, c
      <3> QED
        BY <2>1, <2>2, <3>1, <3>2 DEF KeyEntry
    <2>3. CASE c[i].key # k
      BY <1>3, <2>1, <2>3
    <2> QED
      BY <2>2, <2>3
  <1>5. added \in Seq(KeyEntry) /\ DOMAIN added = DOMAIN c
    <2>1. DOMAIN c = 1..Len(c) /\ Len(c) \in Nat
      BY <1>1
    <2>2. added \in [1..Len(c) -> KeyEntry]
      BY <1>4, <2>1
    <2> QED
      BY <2>1, <2>2
  <1>6. made \in Seq(KeyEntry)
    <2>1. [key |-> k, owners |-> <<r>>] \in KeyEntry
      BY DEF KeyEntry
    <2> QED
      BY <1>1, <2>1
  <1> HIDE DEF added, made
  <1>7. new \in Seq(KeyEntry)
    BY <1>5, <1>6
  <1>8. cache'[Hash[k]] = new /\ cache' \in [Hashes -> Seq(KeyEntry)] /\ \A h \in Hashes : h # Hash[k] => cache'[h] = cache[h]
    BY <1>1, <1>2, <1>7 DEF TableTyped
  <1>9. CASE Registered(k)
    <2>1. cache'[Hash[k]] = added /\ Positions(k) # {}
      BY <1>8, <1>9 DEF Registered
    <2> QED
      BY <1>4, <1>5, <1>8, <2>1
  <1>10. CASE ~Registered(k)
    <2>1. cache'[Hash[k]] = made /\ Positions(k) = {}
      BY <1>8, <1>10 DEF Registered
    <2> QED
      BY <1>8, <2>1 DEF made
  <1> QED
    BY <1>9, <1>10

-----------------------------------------------------------------------------
(* The table and the events *)

\* The types are kept.
LEMMA NextTyped == TableInv /\ [NSNext]_nsVars => TableTyped'
  <1> SUFFICES ASSUME TableInv, [NSNext]_nsVars PROVE TableTyped'
    OBVIOUS
  <1>0. TableTyped /\ KeysInPlace
    BY DEF TableInv
  <1>1. ASSUME NEW fd \in Fds, NEW c \in Clients, Accept(fd, c) PROVE TableTyped'
    BY <1>0, <1>1 DEF Accept, TableTyped, walkState
  <1>2. ASSUME NEW fd \in Fds, NEW k \in Keys, process_registration(fd, k) PROVE TableTyped'
    <2> DEFINE r == [addr |-> client[fd], fd |-> fd]
    <2>1. r \in Reg
      BY <1>0, <1>2 DEF process_registration, TableTyped, Reg
    <2>2. cache' \in [Hashes -> Seq(KeyEntry)]
      BY <1>0, <1>2, <2>1, AddOwnerTable DEF process_registration
    <2>3. notified' \in [Keys -> {"none", "create", "delete"}]
      BY <1>0, <1>2 DEF process_registration, SendKeyEvent, TableTyped
    <2> QED
      BY <1>0, <1>2, <2>2, <2>3 DEF process_registration, TableTyped, walkState
  <1>3. ASSUME NEW fd \in Fds, ClientClosed(fd) PROVE TableTyped'
    BY <1>0, <1>3 DEF ClientClosed, Buckets, TableTyped
  <1>4. ASSUME NEW h \in Hashes, EnterBucket(h) PROVE TableTyped'
    BY <1>0, <1>4 DEF EnterBucket, TableTyped
  <1>5. ASSUME AtKey
        PROVE  /\ bucket \in Hashes /\ keyIx \in DOMAIN cache[bucket]
               /\ cache[bucket] \in Seq(KeyEntry) /\ OwnersHere \in Seq(Reg)
               /\ cache[bucket][keyIx] \in KeyEntry /\ cache[bucket][keyIx].key \in Keys
    <2>1. bucket \in Hashes
      BY <1>0, <1>5 DEF AtKey, InBucket, TableTyped
    <2>2. cache[bucket] \in Seq(KeyEntry)
      BY <1>0, <2>1 DEF TableTyped
    <2>3. keyIx \in DOMAIN cache[bucket]
      BY <1>0, <1>5, <2>2 DEF AtKey, TableTyped
    <2> QED
      BY <1>0, <2>1, <2>2, <2>3, EntryTyped DEF OwnersHere
  <1>6. CASE EraseOwner
    <2> DEFINE e == [cache[bucket][keyIx] EXCEPT !.owners = RemoveIndex(OwnersHere, entryIx)]
    <2>1. AtKey /\ entryIx \in 1..Len(OwnersHere)
      <3>1. AtKey /\ entryIx <= Len(OwnersHere) /\ OwnersHere \in Seq(Reg)
        BY <1>5, <1>6 DEF EraseOwner
      <3> QED
        BY <1>0, <3>1 DEF TableTyped
    <2>2. RemoveIndex(OwnersHere, entryIx) \in Seq(Reg)
      BY <1>5, <2>1, RemoveIndexType
    <2>3. e \in KeyEntry
      BY <1>5, <2>1, <2>2 DEF KeyEntry
    <2>4. cache' = [cache EXCEPT ![bucket] = [cache[bucket] EXCEPT ![keyIx] = e]]
      BY <1>6 DEF EraseOwner, OwnersHere
    <2> HIDE DEF e
    <2>5. [cache[bucket] EXCEPT ![keyIx] = e] \in Seq(KeyEntry)
      BY <1>5, <2>1, <2>3
    <2>6. cache' \in [Hashes -> Seq(KeyEntry)]
      BY <1>0, <2>4, <2>5 DEF TableTyped
    <2>7. notified' \in [Keys -> {"none", "create", "delete"}]
      BY <1>0, <1>6 DEF EraseOwner, SendKeyEvent, NotifyRemaining, TableTyped
    <2> QED
      BY <1>0, <1>6, <2>6, <2>7 DEF EraseOwner, TableTyped
  <1>7. CASE NextOwner
    BY <1>0, <1>7 DEF NextOwner, TableTyped
  <1>8. CASE NextKey
    <2>1. AtKey
      BY <1>8 DEF NextKey
    <2>2. RemoveIndex(cache[bucket], keyIx) \in Seq(KeyEntry)
      <3>1. keyIx \in 1..Len(cache[bucket])
        BY <1>5, <2>1
      <3> QED
        BY <1>5, <2>1, <3>1, RemoveIndexType
    <2>3. cache' \in [Hashes -> Seq(KeyEntry)] /\ keyIx' \in Nat \ {0}
      <3>1. CASE OwnersHere = <<>>
        <4>1. cache' = [cache EXCEPT ![bucket] = RemoveIndex(cache[bucket], keyIx)] /\ keyIx' = 2
          BY <1>8, <3>1 DEF NextKey, EraseEmptyKey
        <4> DEFINE d == RemoveIndex(cache[bucket], keyIx)
        <4>2. d \in Seq(KeyEntry) /\ cache' = [cache EXCEPT ![bucket] = d]
          BY <2>2, <4>1
        <4> HIDE DEF d
        <4>3. cache' \in [Hashes -> Seq(KeyEntry)]
          BY <1>0, <4>2 DEF TableTyped
        <4> QED
          BY <4>1, <4>3
      <3>2. CASE OwnersHere # <<>>
        BY <1>0, <1>8, <3>2 DEF NextKey, EraseEmptyKey, TableTyped
      <3> QED
        BY <3>1, <3>2
    <2> QED
      BY <1>0, <1>8, <2>3 DEF NextKey, TableTyped
  <1>9. CASE LeaveBucket
    BY <1>0, <1>9 DEF LeaveBucket, Buckets, TableTyped
  <1>10. CASE EndCleanup
    BY <1>0, <1>10 DEF EndCleanup, TableTyped
  <1>11. CASE UNCHANGED nsVars
    BY <1>0, <1>11 DEF nsVars, walkState, TableTyped
  <1> QED
    BY <1>1, <1>2, <1>3, <1>4, <1>6, <1>7, <1>8, <1>9, <1>10, <1>11 DEF NSNext, Cleanup

\* What the walk does at a key and at an owner.
LEMMA EraseOwnerTable ==
    ASSUME TableTyped, EraseOwner
    PROVE  /\ ~Idle /\ bucket \in Hashes /\ bucket # NoHash
           /\ keyIx \in DOMAIN cache[bucket] /\ entryIx \in 1..Len(OwnersHere) /\ OwnersHere \in Seq(Reg)
           /\ \A h \in Hashes : h # bucket => cache'[h] = cache[h]
           /\ DOMAIN cache'[bucket] = DOMAIN cache[bucket]
           /\ \A i \in DOMAIN cache[bucket] : i # keyIx => cache'[bucket][i] = cache[bucket][i]
           /\ cache'[bucket][keyIx].key = cache[bucket][keyIx].key
           /\ cache'[bucket][keyIx].owners = RemoveIndex(OwnersHere, entryIx)
  <1>1. ~Idle /\ bucket \in Hashes /\ bucket # NoHash
    BY DEF EraseOwner, AtKey, InBucket, TableTyped
  <1>2. cache[bucket] \in Seq(KeyEntry)
    BY <1>1 DEF TableTyped
  <1>3. keyIx \in DOMAIN cache[bucket]
    BY <1>2 DEF EraseOwner, AtKey, TableTyped
  <1>4. OwnersHere \in Seq(Reg) /\ cache[bucket][keyIx] \in KeyEntry
    BY <1>1, <1>3, EntryTyped DEF OwnersHere
  <1>5. entryIx \in 1..Len(OwnersHere)
    BY <1>4 DEF EraseOwner, TableTyped
  <1> DEFINE e == [cache[bucket][keyIx] EXCEPT !.owners = RemoveIndex(OwnersHere, entryIx)]
             c == [cache[bucket] EXCEPT ![keyIx] = e]
  <1>6. cache' = [cache EXCEPT ![bucket] = c]
    BY DEF EraseOwner, OwnersHere
  <1>7. e.key = cache[bucket][keyIx].key /\ e.owners = RemoveIndex(OwnersHere, entryIx)
    BY <1>4 DEF KeyEntry
  <1> HIDE DEF e
  <1>8. DOMAIN c = DOMAIN cache[bucket] /\ c[keyIx] = e /\ \A i \in DOMAIN cache[bucket] : i # keyIx => c[i] = cache[bucket][i]
    BY <1>2, <1>3
  <1> HIDE DEF c
  <1>9. cache'[bucket] = c /\ \A h \in Hashes : h # bucket => cache'[h] = cache[h]
    BY <1>1, <1>6 DEF TableTyped
  <1> QED
    BY <1>1, <1>3, <1>4, <1>5, <1>7, <1>8, <1>9

\* A key without owners is taken out of its bucket and those behind it move up.
LEMMA NextKeyTable ==
    ASSUME TableTyped, NextKey
    PROVE  /\ ~Idle /\ bucket \in Hashes /\ bucket # NoHash /\ keyIx \in DOMAIN cache[bucket]
           /\ OwnersHere \in Seq(Reg) /\ entryIx > Len(OwnersHere)
           /\ \A h \in Hashes : h # bucket => cache'[h] = cache[h]
           /\ \/ OwnersHere # <<>> /\ cache' = cache /\ keyIx' = keyIx + 1
              \/ /\ OwnersHere = <<>> /\ keyIx' = 2
                 /\ cache'[bucket] = RemoveIndex(cache[bucket], keyIx)
                 /\ \A i \in DOMAIN cache'[bucket] :
                        /\ i \in Nat
                        /\ i < keyIx => i \in DOMAIN cache[bucket] /\ cache'[bucket][i] = cache[bucket][i]
                        /\ i >= keyIx => i + 1 \in DOMAIN cache[bucket] /\ cache'[bucket][i] = cache[bucket][i + 1]
                 /\ \A i \in DOMAIN cache[bucket] :
                        i # keyIx => \E j \in DOMAIN cache'[bucket] : cache'[bucket][j] = cache[bucket][i]
  <1>1. ~Idle /\ bucket \in Hashes /\ bucket # NoHash
    BY DEF NextKey, AtKey, InBucket, TableTyped
  <1>2. cache[bucket] \in Seq(KeyEntry)
    BY <1>1 DEF TableTyped
  <1>3. keyIx \in DOMAIN cache[bucket] /\ keyIx \in 1..Len(cache[bucket])
    BY <1>2 DEF NextKey, AtKey, TableTyped
  <1>4. OwnersHere \in Seq(Reg)
    BY <1>1, <1>3, EntryTyped DEF OwnersHere
  <1>5. CASE OwnersHere # <<>>
    BY <1>1, <1>3, <1>4, <1>5 DEF NextKey, EraseEmptyKey
  <1>6. CASE OwnersHere = <<>>
    <2> DEFINE c == cache[bucket]
               d == RemoveIndex(c, keyIx)
    <2>1. cache' = [cache EXCEPT ![bucket] = d] /\ keyIx' = 2 /\ entryIx > Len(OwnersHere)
      BY <1>6 DEF NextKey, EraseEmptyKey
    <2>2. cache'[bucket] = d /\ \A h \in Hashes : h # bucket => cache'[h] = cache[h]
      BY <1>1, <2>1 DEF TableTyped
    <2>3. /\ d \in Seq(KeyEntry) /\ Len(d) = Len(c) - 1
          /\ \A j \in 1..(Len(c) - 1) : d[j] = IF j < keyIx THEN c[j] ELSE c[j + 1]
      BY <1>2, <1>3, RemoveIndexType
    <2>4. DOMAIN c = 1..Len(c) /\ Len(c) \in Nat /\ DOMAIN d = 1..Len(d) /\ keyIx \in Nat
      BY <1>2, <1>3, <2>3
    <2> HIDE DEF c, d
    <2>5. ASSUME NEW i \in DOMAIN d
          PROVE  /\ i \in Nat
                 /\ i < keyIx => i \in DOMAIN c /\ d[i] = c[i]
                 /\ i >= keyIx => i + 1 \in DOMAIN c /\ d[i] = c[i + 1]
      BY <2>3, <2>4
    <2>6. ASSUME NEW i \in DOMAIN c, i # keyIx PROVE \E j \in DOMAIN d : d[j] = c[i]
      <3>1. CASE i < keyIx
        <4>1. i \in 1..(Len(c) - 1)
          BY <1>3, <2>4, <3>1 DEF c
        <4> QED
          BY <2>3, <2>4, <3>1, <4>1
      <3>2. CASE i > keyIx
        <4>1. i - 1 \in 1..(Len(c) - 1) /\ ~(i - 1 < keyIx) /\ (i - 1) + 1 = i
          BY <1>3, <2>4, <3>2 DEF c
        <4>2. d[i - 1] = c[i] /\ i - 1 \in DOMAIN d
          BY <2>3, <2>4, <4>1
        <4> QED
          BY <4>2
      <3> QED
        BY <2>4, <2>6, <3>1, <3>2
    <2>7. c = cache[bucket] /\ d = RemoveIndex(cache[bucket], keyIx)
      BY DEF c, d
    <2> QED
      BY <1>1, <1>3, <1>4, <1>6, <2>1, <2>2, <2>5, <2>6, <2>7
  <1> QED
    BY <1>5, <1>6

\* Every step keeps each key in its place, and the events and the table in step.
LEMMA NextTable == TableInv /\ [NSNext]_nsVars => TableInv'
  <1> SUFFICES ASSUME TableInv, [NSNext]_nsVars PROVE TableInv'
    OBVIOUS
  <1>0. TableTyped /\ KeysInPlace /\ EmptyOnlyHere /\ EventsTold /\ IdleOutside /\ TableTyped'
    BY NextTyped DEF TableInv
  <1> SUFFICES KeysInPlace' /\ EmptyOnlyHere' /\ EventsTold' /\ IdleOutside'
    BY <1>0 DEF TableInv
  <1>1. ASSUME UNCHANGED <<cache, notified>>,
               \A h \in Hashes : \A i \in DOMAIN cache[h] : cache[h][i].owners # <<>>,
               IdleOutside'
        PROVE  KeysInPlace' /\ EmptyOnlyHere' /\ EventsTold' /\ IdleOutside'
    BY <1>0, <1>1 DEF KeysInPlace, EmptyOnlyHere, EventsTold
  <1>2. Idle \/ bucket = NoHash => \A h \in Hashes : \A i \in DOMAIN cache[h] : cache[h][i].owners # <<>>
    BY <1>0, NameServiceAssumption DEF EmptyOnlyHere
  <1>3. ASSUME NEW fd \in Fds, NEW c \in Clients, Accept(fd, c)
        PROVE  KeysInPlace' /\ EmptyOnlyHere' /\ EventsTold' /\ IdleOutside'
    BY <1>0, <1>1, <1>2, <1>3 DEF Accept, walkState, IdleOutside, Idle
  <1>4. ASSUME NEW fd \in Fds, NEW k \in Keys, process_registration(fd, k)
        PROVE  KeysInPlace' /\ EmptyOnlyHere' /\ EventsTold' /\ IdleOutside'
    <2> DEFINE r == [addr |-> client[fd], fd |-> fd]
               H == Hash[k]
    <2>1. /\ r \in Reg /\ AddOwner(k, r) /\ Idle
          /\ notified' = [notified EXCEPT ![k] = "create"]
          /\ UNCHANGED <<closing, todo, bucket, keyIx, entryIx>>
      BY <1>0, <1>4 DEF process_registration, SendKeyEvent, walkState, TableTyped, Reg
    <2>2. /\ \A h \in Hashes : h # H => cache'[h] = cache[h]
          /\ \/ /\ Positions(k) # {} /\ DOMAIN cache'[H] = DOMAIN cache[H]
                /\ \A i \in DOMAIN cache[H] :
                       cache'[H][i] = IF cache[H][i].key = k
                                      THEN [key |-> k, owners |-> Append(cache[H][i].owners, r)]
                                      ELSE cache[H][i]
             \/ /\ Positions(k) = {}
                /\ cache'[H] = Append(cache[H], [key |-> k, owners |-> <<r>>])
      BY <1>0, <2>1, AddOwnerTable
    <2>3. H \in Hashes /\ cache[H] \in Seq(KeyEntry) /\ DOMAIN cache[H] = 1..Len(cache[H])
          /\ Len(cache[H]) \in Nat
          /\ \A i \in DOMAIN cache[H] : cache[H][i].owners \in Seq(Reg) /\ cache[H][i].key \in Keys
      <3>1. H \in Hashes
        BY NameServiceAssumption
      <3>2. cache[H] \in Seq(KeyEntry)
        BY <1>0, <3>1 DEF TableTyped
      <3> QED
        BY <1>0, <3>1, <3>2, EntryTyped
    <2>4. /\ \A i \in DOMAIN cache[H] :
                 /\ i \in DOMAIN cache'[H] /\ cache'[H][i].key = cache[H][i].key
                 /\ cache'[H][i].owners # <<>>
                 /\ cache[H][i].key # k => cache'[H][i] = cache[H][i]
          /\ \A i \in DOMAIN cache'[H] :
                 i \notin DOMAIN cache[H] =>
                     cache'[H][i].key = k /\ cache'[H][i].owners # <<>> /\ i = Len(cache[H]) + 1 /\ Positions(k) = {}
          /\ \E i \in DOMAIN cache'[H] : cache'[H][i].key = k
      <3>0. \A i \in DOMAIN cache[H] : cache[H][i].owners # <<>>
        BY <1>2, <2>1, <2>3
      <3>1. CASE /\ Positions(k) # {} /\ DOMAIN cache'[H] = DOMAIN cache[H]
                 /\ \A i \in DOMAIN cache[H] :
                       cache'[H][i] = IF cache[H][i].key = k
                                      THEN [key |-> k, owners |-> Append(cache[H][i].owners, r)]
                                      ELSE cache[H][i]
        <4>1. \A s \in Seq(Reg) : Append(s, r) # <<>>
          BY <2>1
        <4>2. \A i \in DOMAIN cache[H] :
                 /\ cache'[H][i].key = cache[H][i].key
                 /\ cache'[H][i].owners # <<>>
                 /\ cache[H][i].key # k => cache'[H][i] = cache[H][i]
          <5> SUFFICES ASSUME NEW i \in DOMAIN cache[H]
                       PROVE  /\ cache'[H][i].key = cache[H][i].key
                              /\ cache'[H][i].owners # <<>>
                              /\ cache[H][i].key # k => cache'[H][i] = cache[H][i]
            OBVIOUS
          <5>1. CASE cache[H][i].key = k
            <6>1. cache'[H][i] = [key |-> k, owners |-> Append(cache[H][i].owners, r)]
              BY <3>1, <5>1
            <6>2. cache'[H][i].key = k /\ cache'[H][i].owners = Append(cache[H][i].owners, r)
              BY <6>1
            <6>3. cache[H][i].owners \in Seq(Reg)
              BY <2>3
            <6> QED
              BY <4>1, <5>1, <6>2, <6>3
          <5>2. CASE cache[H][i].key # k
            BY <3>0, <3>1, <5>2
          <5> QED
            BY <5>1, <5>2
        <4>3. \E i \in DOMAIN cache[H] : cache[H][i].key = k
          BY <3>1 DEF Positions
        <4> QED
          BY <3>1, <4>2, <4>3
      <3>2. CASE /\ Positions(k) = {}
                 /\ cache'[H] = Append(cache[H], [key |-> k, owners |-> <<r>>])
        <4> DEFINE e == [key |-> k, owners |-> <<r>>]
        <4>1. e.key = k /\ e.owners # <<>> /\ e \in KeyEntry
          BY <2>1 DEF KeyEntry
        <4> HIDE DEF e
        <4>2. /\ DOMAIN cache'[H] = 1..(Len(cache[H]) + 1) /\ cache'[H][Len(cache[H]) + 1] = e
              /\ \A i \in 1..Len(cache[H]) : cache'[H][i] = cache[H][i]
          BY <2>3, <3>2, <4>1 DEF e
        <4> QED
          BY <2>3, <3>0, <3>2, <4>1, <4>2
      <3> QED
        BY <2>2, <3>1, <3>2
    <2> HIDE DEF H, r
    <2>5. H = Hash[k] /\ H \in Hashes
      BY <2>3 DEF H
    <2>6. KeysInPlace'
      <3> SUFFICES ASSUME NEW h \in Hashes, NEW i \in DOMAIN cache'[h]
                   PROVE  /\ Hash[cache'[h][i].key] = h
                          /\ \A j \in DOMAIN cache'[h] : cache'[h][i].key = cache'[h][j].key => i = j
        BY DEF KeysInPlace
      <3>1. CASE h # H
        BY <1>0, <2>2, <3>1 DEF KeysInPlace
      <3>2. CASE h = H
        <4>1. Positions(k) = {} => \A j \in DOMAIN cache[H] : cache[H][j].key # k
          BY <2>5 DEF Positions
        <4> QED
          BY <1>0, <2>4, <2>5, <3>2, <4>1 DEF KeysInPlace
      <3> QED
        BY <3>1, <3>2
    <2>7. \A h \in Hashes : \A i \in DOMAIN cache'[h] : cache'[h][i].owners # <<>>
      BY <1>2, <2>1, <2>2, <2>4
    <2>8. EmptyOnlyHere'
      BY <2>7 DEF EmptyOnlyHere
    <2>9. EventsTold'
      <3> SUFFICES ASSUME NEW q \in Keys
                   PROVE  notified'[q] = "create" <=>
                              \E i \in DOMAIN cache'[Hash[q]] :
                                  cache'[Hash[q]][i].key = q /\ cache'[Hash[q]][i].owners # <<>>
        BY DEF EventsTold
      <3>1. CASE q = k
        BY <1>0, <2>1, <2>4, <2>5, <2>7, <3>1 DEF TableTyped
      <3>2. CASE q # k
        <4>1. notified'[q] = notified[q] /\ Hash[q] \in Hashes
          BY <1>0, <2>1, <3>2, NameServiceAssumption DEF TableTyped
        <4>2. CASE Hash[q] # H
          <5>1. cache'[Hash[q]] = cache[Hash[q]]
            BY <2>2, <4>1, <4>2
          <5> QED
            BY <1>0, <4>1, <5>1 DEF EventsTold
        <4>3. CASE Hash[q] = H
          <5>1. \A i : i \in DOMAIN cache'[H] /\ cache'[H][i].key = q <=> i \in DOMAIN cache[H] /\ cache[H][i].key = q
            BY <2>4, <3>2
          <5>2. \A i \in DOMAIN cache[H] : cache[H][i].owners # <<>>
            BY <1>2, <2>1, <2>5
          <5> QED
            BY <1>0, <2>5, <2>7, <4>1, <4>3, <5>1, <5>2 DEF EventsTold
        <4> QED
          BY <4>2, <4>3
      <3> QED
        BY <3>1, <3>2
    <2>10. IdleOutside'
      BY <1>0, <2>1 DEF IdleOutside, Idle
    <2> QED
      BY <2>6, <2>8, <2>9, <2>10
  <1>5. ASSUME NEW fd \in Fds, ClientClosed(fd)
        PROVE  KeysInPlace' /\ EmptyOnlyHere' /\ EventsTold' /\ IdleOutside'
    BY <1>0, <1>1, <1>2, <1>5 DEF ClientClosed, IdleOutside, Idle
  <1>6. ASSUME NEW h \in Hashes, EnterBucket(h)
        PROVE  KeysInPlace' /\ EmptyOnlyHere' /\ EventsTold' /\ IdleOutside'
    BY <1>1, <1>2, <1>6 DEF EnterBucket, IdleOutside, Idle
  <1>7. CASE EraseOwner
    <2> DEFINE B == bucket
    <2>1. /\ ~Idle /\ B \in Hashes /\ B # NoHash
          /\ keyIx \in DOMAIN cache[B] /\ entryIx \in 1..Len(OwnersHere) /\ OwnersHere \in Seq(Reg)
          /\ \A h \in Hashes : h # B => cache'[h] = cache[h]
          /\ DOMAIN cache'[B] = DOMAIN cache[B]
          /\ \A i \in DOMAIN cache[B] : i # keyIx => cache'[B][i] = cache[B][i]
          /\ cache'[B][keyIx].key = cache[B][keyIx].key
          /\ cache'[B][keyIx].owners = RemoveIndex(OwnersHere, entryIx)
      BY <1>0, <1>7, EraseOwnerTable
    <2>2. /\ notified' = [notified EXCEPT ![cache[B][keyIx].key] = NotifyRemaining]
          /\ UNCHANGED <<closing, todo, bucket, keyIx>>
      BY <1>7 DEF EraseOwner, SendKeyEvent
    <2>3. cache'[B][keyIx].owners # <<>> <=> NotifyRemaining = "create"
      <3>1. /\ RemoveIndex(OwnersHere, entryIx) \in Seq(Reg)
            /\ Len(RemoveIndex(OwnersHere, entryIx)) = Len(OwnersHere) - 1
        BY <2>1, RemoveIndexType
      <3>2. Len(OwnersHere) \in Nat /\ Len(OwnersHere) >= 1
        BY <2>1
      <3>3. RemoveIndex(OwnersHere, entryIx) # <<>> <=> Len(RemoveIndex(OwnersHere, entryIx)) # 0
        BY <3>1, EmptySeq
      <3>4. NotifyRemaining = "create" <=> Len(OwnersHere) > 1
        BY DEF NotifyRemaining
      <3> QED
        BY <2>1, <3>1, <3>2, <3>3, <3>4
    <2>4. cache[B][keyIx].key \in Keys /\ Hash[cache[B][keyIx].key] = B
      BY <1>0, <2>1, EntryTyped DEF KeysInPlace
    <2> HIDE DEF B
    <2>5. B = bucket
      BY DEF B
    <2>6. KeysInPlace'
      BY <1>0, <2>1 DEF KeysInPlace
    <2>7. EmptyOnlyHere'
      BY <1>0, <2>1, <2>2, <2>5 DEF EmptyOnlyHere, Idle
    <2>8. EventsTold'
      <3> SUFFICES ASSUME NEW q \in Keys
                   PROVE  notified'[q] = "create" <=>
                              \E i \in DOMAIN cache'[Hash[q]] :
                                  cache'[Hash[q]][i].key = q /\ cache'[Hash[q]][i].owners # <<>>
        BY DEF EventsTold
      <3>0. Hash[q] \in Hashes
        BY NameServiceAssumption
      <3>1. CASE q = cache[B][keyIx].key
        <4>1. notified'[q] = NotifyRemaining /\ Hash[q] = B
          BY <1>0, <2>2, <2>4, <3>1 DEF TableTyped
        <4>2. \A i \in DOMAIN cache'[B] : cache'[B][i].key = q => i = keyIx
          BY <1>0, <2>1, <3>1 DEF KeysInPlace
        <4> QED
          BY <2>1, <2>3, <3>1, <4>1, <4>2
      <3>2. CASE q # cache[B][keyIx].key
        <4>1. notified'[q] = notified[q]
          BY <1>0, <2>2, <2>4, <3>2 DEF TableTyped
        <4> QED
          BY <1>0, <2>1, <3>0, <3>2, <4>1 DEF EventsTold
      <3> QED
        BY <3>1, <3>2
    <2>9. IdleOutside'
      BY <1>0, <2>1, <2>2 DEF IdleOutside, Idle
    <2> QED
      BY <2>6, <2>7, <2>8, <2>9
  <1>8. CASE NextOwner
    <2>1. UNCHANGED <<cache, notified, closing, bucket, keyIx>>
      BY <1>8 DEF NextOwner
    <2> QED
      BY <1>0, <2>1 DEF KeysInPlace, EmptyOnlyHere, EventsTold, IdleOutside, Idle
  <1>9. CASE NextKey
    <2> DEFINE B == bucket
    <2>1. /\ ~Idle /\ B \in Hashes /\ B # NoHash /\ keyIx \in DOMAIN cache[B]
          /\ \A h \in Hashes : h # B => cache'[h] = cache[h]
          /\ \/ OwnersHere # <<>> /\ cache' = cache /\ keyIx' = keyIx + 1
             \/ /\ OwnersHere = <<>>
                /\ \A i \in DOMAIN cache'[B] :
                       /\ i \in Nat
                       /\ i < keyIx => i \in DOMAIN cache[B] /\ cache'[B][i] = cache[B][i]
                       /\ i >= keyIx => i + 1 \in DOMAIN cache[B] /\ cache'[B][i] = cache[B][i + 1]
                /\ \A i \in DOMAIN cache[B] :
                       i # keyIx => \E j \in DOMAIN cache'[B] : cache'[B][j] = cache[B][i]
      BY <1>0, <1>9, NextKeyTable
    <2>2. UNCHANGED <<notified, closing, bucket>> /\ OwnersHere = cache[B][keyIx].owners /\ keyIx \in Nat
      BY <1>0, <1>9 DEF NextKey, OwnersHere, TableTyped
    <2> HIDE DEF B
    <2>3. B = bucket
      BY DEF B
    <2>4. IdleOutside'
      BY <1>0, <2>2 DEF IdleOutside, Idle
    <2>5. CASE OwnersHere # <<>> /\ cache' = cache
      <3>1. \A h \in Hashes : \A i \in DOMAIN cache[h] : cache[h][i].owners # <<>>
        BY <1>0, <2>2, <2>3, <2>5 DEF EmptyOnlyHere
      <3> QED
        BY <1>1, <2>2, <2>4, <2>5, <3>1
    <2>6. CASE /\ OwnersHere = <<>>
               /\ \A i \in DOMAIN cache'[B] :
                      /\ i \in Nat
                      /\ i < keyIx => i \in DOMAIN cache[B] /\ cache'[B][i] = cache[B][i]
                      /\ i >= keyIx => i + 1 \in DOMAIN cache[B] /\ cache'[B][i] = cache[B][i + 1]
               /\ \A i \in DOMAIN cache[B] :
                      i # keyIx => \E j \in DOMAIN cache'[B] : cache'[B][j] = cache[B][i]
      <3> DEFINE was(i) == IF i < keyIx THEN i ELSE i + 1
      <3>1. \A i \in DOMAIN cache'[B] : /\ i \in Nat /\ was(i) \in DOMAIN cache[B]
                                        /\ cache'[B][i] = cache[B][was(i)] /\ was(i) # keyIx
        BY <2>2, <2>6
      <3>2. \A i, j \in DOMAIN cache'[B] : was(i) = was(j) => i = j
        BY <2>2, <3>1
      <3> HIDE DEF was
      <3>3. KeysInPlace'
        <4> SUFFICES ASSUME NEW h \in Hashes, NEW i \in DOMAIN cache'[h]
                     PROVE  /\ Hash[cache'[h][i].key] = h
                            /\ \A j \in DOMAIN cache'[h] : cache'[h][i].key = cache'[h][j].key => i = j
          BY DEF KeysInPlace
        <4>1. CASE h # B
          BY <1>0, <2>1, <4>1 DEF KeysInPlace
        <4>2. CASE h = B
          BY <1>0, <3>1, <3>2, <4>2 DEF KeysInPlace
        <4> QED
          BY <4>1, <4>2
      <3>4. \A h \in Hashes : \A i \in DOMAIN cache'[h] : cache'[h][i].owners # <<>>
        <4> SUFFICES ASSUME NEW h \in Hashes, NEW i \in DOMAIN cache'[h] PROVE cache'[h][i].owners # <<>>
          OBVIOUS
        <4>1. CASE h # B
          BY <1>0, <2>1, <2>3, <4>1 DEF EmptyOnlyHere
        <4>2. CASE h = B
          BY <1>0, <3>1, <4>2 DEF EmptyOnlyHere
        <4> QED
          BY <4>1, <4>2
      <3>5. EventsTold'
        <4> SUFFICES ASSUME NEW q \in Keys
                     PROVE  (\E i \in DOMAIN cache[Hash[q]] :
                                 cache[Hash[q]][i].key = q /\ cache[Hash[q]][i].owners # <<>>) <=>
                            (\E i \in DOMAIN cache'[Hash[q]] :
                                 cache'[Hash[q]][i].key = q /\ cache'[Hash[q]][i].owners # <<>>)
          BY <1>0, <2>2 DEF EventsTold
        <4>0. Hash[q] \in Hashes
          BY NameServiceAssumption
        <4>1. CASE Hash[q] # B
          BY <2>1, <4>0, <4>1
        <4>2. CASE Hash[q] = B
          <5>1. ASSUME NEW i \in DOMAIN cache[B], cache[B][i].key = q, cache[B][i].owners # <<>>
                PROVE  \E j \in DOMAIN cache'[B] : cache'[B][j].key = q /\ cache'[B][j].owners # <<>>
            <6>1. i # keyIx
              BY <2>2, <2>6, <5>1
            <6>2. PICK j \in DOMAIN cache'[B] : cache'[B][j] = cache[B][i]
              BY <2>6, <6>1
            <6> QED
              BY <5>1, <6>2
          <5>2. ASSUME NEW i \in DOMAIN cache'[B], cache'[B][i].key = q, cache'[B][i].owners # <<>>
                PROVE  \E j \in DOMAIN cache[B] : cache[B][j].key = q /\ cache[B][j].owners # <<>>
            BY <3>1, <5>2
          <5> QED
            BY <4>2, <5>1, <5>2
        <4> QED
          BY <4>1, <4>2
      <3>6. EmptyOnlyHere'
        BY <3>4 DEF EmptyOnlyHere
      <3> QED
        BY <2>4, <3>3, <3>5, <3>6
    <2> QED
      BY <2>1, <2>5, <2>6
  <1>10. CASE LeaveBucket
    <2>1. /\ UNCHANGED <<cache, notified, closing>> /\ bucket' = NoHash /\ bucket \in Hashes
          /\ keyIx > Len(cache[bucket])
      BY <1>0, <1>10 DEF LeaveBucket, InBucket, TableTyped
    <2>2. cache[bucket] \in Seq(KeyEntry)
      BY <1>0, <2>1 DEF TableTyped
    <2>3. keyIx \notin DOMAIN cache[bucket]
      BY <1>0, <2>1, <2>2 DEF TableTyped
    <2>4. \A h \in Hashes : \A i \in DOMAIN cache[h] : cache[h][i].owners # <<>>
      BY <1>0, <2>3 DEF EmptyOnlyHere
    <2> QED
      BY <1>1, <2>1, <2>4 DEF IdleOutside
  <1>11. CASE EndCleanup
    BY <1>1, <1>2, <1>11 DEF EndCleanup, IdleOutside
  <1>12. CASE UNCHANGED nsVars
    BY <1>0, <1>12 DEF nsVars, walkState, KeysInPlace, EmptyOnlyHere, EventsTold, IdleOutside, Idle
  <1> QED
    BY <1>3, <1>4, <1>5, <1>6, <1>7, <1>8, <1>9, <1>10, <1>11, <1>12 DEF NSNext, Cleanup

\* The service starts with an empty table.
LEMMA InitTable == NSInit => TableInv
  <1> SUFFICES ASSUME NSInit PROVE TableInv
    OBVIOUS
  <1>1. TableTyped
    BY DEF NSInit, TableTyped
  <1>2. \A h \in Hashes : cache[h] = <<>> /\ DOMAIN cache[h] = {}
    BY DEF NSInit
  <1>3. KeysInPlace /\ EmptyOnlyHere
    BY <1>2 DEF KeysInPlace, EmptyOnlyHere
  <1>4. EventsTold
    BY <1>2, NameServiceAssumption DEF EventsTold, NSInit
  <1> QED
    BY <1>1, <1>3, <1>4 DEF TableInv, IdleOutside, NSInit

\* For any keys, hash function, connections and applications: whenever the lock is
\* free every key of the table has an owner, and the last registration event of a
\* key is CREATE exactly as long as the key is in the table.
THEOREM EventsFollowTable == NSSpec => []EventsMatchTable
  <1>1. TableInv => EventsMatchTable
    <2> SUFFICES ASSUME TableInv, Idle
                 PROVE  /\ \A h \in Hashes : \A i \in DOMAIN cache[h] : cache[h][i].owners # <<>>
                        /\ \A k \in Keys : Registered(k) <=> notified[k] = "create"
      BY DEF EventsMatchTable
    <2>1. \A h \in Hashes : \A i \in DOMAIN cache[h] : cache[h][i].owners # <<>>
      BY DEF TableInv, EmptyOnlyHere
    <2>2. \A k \in Keys : Registered(k) <=> notified[k] = "create"
      BY <2>1, NameServiceAssumption DEF TableInv, EventsTold, Registered, Positions
    <2> QED
      BY <2>1, <2>2
  <1> QED
    BY <1>1, InitTable, NextTable, PTL DEF NSSpec

-----------------------------------------------------------------------------
(* Registrations that outlive their connection *)

\* The bucket of a key that has it to itself holds that key or nothing.
LEMMA CleanBucket ==
    ASSUME TableTyped, KeysInPlace, NEW k \in CleanKeys, NEW i \in DOMAIN cache[Hash[k]]
    PROVE  /\ k \in Keys /\ Hash[k] \in Hashes
           /\ i = 1 /\ cache[Hash[k]][i].key = k /\ DOMAIN cache[Hash[k]] = {1}
           /\ Len(cache[Hash[k]]) = 1 /\ cache[Hash[k]] # <<>>
  <1>1. k \in Keys /\ Hash[k] \in Hashes /\ \A q \in Keys : Hash[q] = Hash[k] => q = k
    BY NameServiceAssumption DEF CleanKeys
  <1>2. ASSUME NEW j \in DOMAIN cache[Hash[k]] PROVE cache[Hash[k]][j].key = k
    BY <1>1, EntryTyped DEF KeysInPlace
  <1>3. \A j \in DOMAIN cache[Hash[k]] : j = i
    BY <1>1, <1>2 DEF KeysInPlace
  <1>4. cache[Hash[k]] \in Seq(KeyEntry)
    BY <1>1 DEF TableTyped
  <1>5. /\ DOMAIN cache[Hash[k]] = 1..Len(cache[Hash[k]]) /\ Len(cache[Hash[k]]) \in Nat
        /\ Len(cache[Hash[k]]) >= 1 /\ cache[Hash[k]] # <<>>
    BY <1>4
  <1>6. 1 \in DOMAIN cache[Hash[k]] /\ Len(cache[Hash[k]]) \in DOMAIN cache[Hash[k]]
    BY <1>5
  <1>7. i = 1 /\ Len(cache[Hash[k]]) = 1
    BY <1>3, <1>6
  <1> QED
    BY <1>1, <1>2, <1>5, <1>7

\* Every step keeps the registrations of such keys accounted for.
LEMMA NextOwners == OrphanInv /\ [NSNext]_nsVars => ClosedFirst' /\ OwnersKnown'
  <1> SUFFICES ASSUME OrphanInv, [NSNext]_nsVars PROVE ClosedFirst' /\ OwnersKnown'
    OBVIOUS
  <1>0. /\ TableTyped /\ KeysInPlace /\ EmptyOnlyHere /\ IdleOutside /\ ClosedFirst /\ OwnersKnown
        /\ TableTyped' /\ KeysInPlace'
    BY NextTable DEF OrphanInv, TableInv
  <1> DEFINE Reg0(k, i, j) == cache[Hash[k]][i].owners[j]
  <1>1. ASSUME NEW k \in CleanKeys, NEW i \in DOMAIN cache[Hash[k]], NEW j \in DOMAIN cache[Hash[k]][i].owners
        PROVE  /\ Accounted(Hash[k], Reg0(k, i, j), j)
               /\ Reg0(k, i, j).addr \in Clients /\ Reg0(k, i, j).fd \in Fds
               /\ Reg0(k, i, j).addr # NoClient /\ Reg0(k, i, j).fd # NoFd
               /\ i = 1 /\ j \in Nat \ {0} /\ Hash[k] \in Hashes /\ Hash[k] # NoHash /\ Hash[k] \in Buckets
    <2>1. Hash[k] \in Hashes /\ i = 1 /\ cache[Hash[k]] # <<>>
      BY <1>0, CleanBucket
    <2>2. cache[Hash[k]][i].owners \in Seq(Reg)
      BY <1>0, <2>1, EntryTyped
    <2>3. Reg0(k, i, j) \in Reg /\ j \in Nat \ {0}
      BY <2>2
    <2> QED
      BY <1>0, <2>1, <2>3, NameServiceAssumption DEF OwnersKnown, Reg, Buckets
  <1>2. ASSUME NEW fd \in Fds, NEW c \in Clients, Accept(fd, c) PROVE ClosedFirst' /\ OwnersKnown'
    <2>1. /\ Idle /\ client[fd] = NoClient /\ client' = [client EXCEPT ![fd] = c]
          /\ UNCHANGED <<cache, regFds, closing, todo, bucket, keyIx, entryIx>>
      BY <1>2 DEF Accept, walkState
    <2>2. ClosedFirst'
      BY <2>1 DEF ClosedFirst, Idle
    <2> SUFFICES ASSUME NEW k \in CleanKeys, NEW i \in DOMAIN cache[Hash[k]], NEW j \in DOMAIN cache[Hash[k]][i].owners
                 PROVE  Accounted(Hash[k], Reg0(k, i, j), j)'
      BY <2>1, <2>2 DEF OwnersKnown
    <2>3. Reg0(k, i, j).fd \in regFds /\ client[Reg0(k, i, j).fd] = Reg0(k, i, j).addr
      BY <1>1, <2>1 DEF Accounted
    <2>4. client'[Reg0(k, i, j).fd] = client[Reg0(k, i, j).fd]
      <3>1. \A g \in Fds : g # fd => client'[g] = client[g]
        BY <1>0, <2>1 DEF TableTyped
      <3>2. Reg0(k, i, j).fd \in Fds /\ Reg0(k, i, j).fd # fd
        BY <1>1, <2>1, <2>3
      <3> QED
        BY <3>1, <3>2
    <2> QED
      BY <2>1, <2>3, <2>4 DEF Accounted
  <1>3. ASSUME NEW fd \in Fds, NEW q \in Keys, process_registration(fd, q) PROVE ClosedFirst' /\ OwnersKnown'
    <2> DEFINE r == [addr |-> client[fd], fd |-> fd]
    <2>1. /\ Idle /\ client' = client /\ UNCHANGED <<closing, todo, bucket, keyIx, entryIx>>
          /\ regFds' = regFds \cup {fd} /\ AddOwner(q, r) /\ r \in Reg
      BY <1>0, <1>3 DEF process_registration, walkState, TableTyped, Reg
    <2>2. /\ \A h \in Hashes : h # Hash[q] => cache'[h] = cache[h]
          /\ \/ /\ Positions(q) # {} /\ DOMAIN cache'[Hash[q]] = DOMAIN cache[Hash[q]]
                /\ \A i \in DOMAIN cache[Hash[q]] :
                       cache'[Hash[q]][i] = IF cache[Hash[q]][i].key = q
                                            THEN [key |-> q, owners |-> Append(cache[Hash[q]][i].owners, r)]
                                            ELSE cache[Hash[q]][i]
             \/ /\ Positions(q) = {}
                /\ cache'[Hash[q]] = Append(cache[Hash[q]], [key |-> q, owners |-> <<r>>])
      BY <1>0, <2>1, AddOwnerTable
    <2>3. ClosedFirst'
      BY <2>1 DEF ClosedFirst, Idle
    <2> SUFFICES ASSUME NEW k \in CleanKeys, NEW i \in DOMAIN cache'[Hash[k]], NEW j \in DOMAIN cache'[Hash[k]][i].owners
                 PROVE  cache'[Hash[k]][i].owners[j].fd \in regFds' /\ client[cache'[Hash[k]][i].owners[j].fd] = cache'[Hash[k]][i].owners[j].addr
      BY <2>1, <2>3 DEF OwnersKnown, Accounted
    <2>4. r.fd \in regFds' /\ client[r.fd] = r.addr
      BY <2>1
    <2>5. ASSUME NEW i0 \in DOMAIN cache[Hash[k]], NEW j0 \in DOMAIN cache[Hash[k]][i0].owners
          PROVE  Reg0(k, i0, j0).fd \in regFds' /\ client[Reg0(k, i0, j0).fd] = Reg0(k, i0, j0).addr
      BY <1>1, <2>1 DEF Accounted
    <2>6. k \in Keys /\ Hash[k] \in Hashes /\ (q # k => Hash[q] # Hash[k])
      BY NameServiceAssumption DEF CleanKeys
    <2>7. CASE q # k
      <3>1. cache'[Hash[k]] = cache[Hash[k]]
        BY <2>2, <2>6, <2>7
      <3> HIDE DEF r
      <3> QED
        BY <2>5, <3>1
    <2>8. CASE q = k
      <3>1. CASE /\ DOMAIN cache'[Hash[k]] = DOMAIN cache[Hash[k]]
                 /\ \A l \in DOMAIN cache[Hash[k]] :
                        cache'[Hash[k]][l] = IF cache[Hash[k]][l].key = k
                                             THEN [key |-> k, owners |-> Append(cache[Hash[k]][l].owners, r)]
                                             ELSE cache[Hash[k]][l]
        <4>1. i \in DOMAIN cache[Hash[k]] /\ cache[Hash[k]][i].key = k
          BY <1>0, <3>1, CleanBucket
        <4>2. cache'[Hash[k]][i].owners = Append(cache[Hash[k]][i].owners, r) /\ cache[Hash[k]][i].owners \in Seq(Reg)
          <5> DEFINE grown == Append(cache[Hash[k]][i].owners, r)
          <5>1. cache'[Hash[k]][i] = [key |-> k, owners |-> grown]
            BY <3>1, <4>1
          <5>2. cache[Hash[k]][i].owners \in Seq(Reg)
            BY <1>0, <2>6, <4>1, EntryTyped
          <5>3. cache'[Hash[k]][i].owners = grown
            <6> HIDE DEF grown
            <6> QED
              BY <5>1
          <5> QED
            BY <5>2, <5>3
        <4> DEFINE o == cache[Hash[k]][i].owners
        <4> HIDE DEF r
        <4>3. o \in Seq(Reg) /\ r \in Reg /\ j \in DOMAIN Append(o, r) /\ cache'[Hash[k]][i].owners = Append(o, r)
          BY <2>1, <4>2
        <4> HIDE DEF o
        <4>4. \/ j \in DOMAIN o /\ Append(o, r)[j] = o[j]
              \/ Append(o, r)[j] = r
          BY <4>3
        <4> QED
          BY <2>4, <2>5, <4>1, <4>3, <4>4 DEF o
      <3>2. CASE Positions(k) = {} /\ cache'[Hash[k]] = Append(cache[Hash[k]], [key |-> k, owners |-> <<r>>])
        <4> DEFINE c == cache[Hash[k]]
                   e == [key |-> k, owners |-> <<r>>]
        <4>1. c \in Seq(KeyEntry) /\ e \in KeyEntry
          <5>1. c \in Seq(KeyEntry)
            BY <1>0, <2>6 DEF TableTyped
          <5>2. r \in Reg /\ k \in Keys
            BY <2>1, <2>6
          <5> HIDE DEF r
          <5>3. e \in KeyEntry
            BY <5>2 DEF KeyEntry
          <5> QED
            BY <5>1, <5>3
        <4>2. c = <<>>
          <5>1. \A l \in DOMAIN c : FALSE
            BY <1>0, <2>6, <3>2, CleanBucket DEF Positions
          <5> HIDE DEF c
          <5> QED
            BY <4>1, <5>1
        <4>3. cache'[Hash[k]] = <<e>>
          BY <3>2, <4>2
        <4>4. i = 1 /\ cache'[Hash[k]][i] = e
          BY <4>3
        <4>5. cache'[Hash[k]][i].owners = <<r>>
          BY <4>4
        <4>6. cache'[Hash[k]][i].owners[j] = r
          BY <4>5
        <4> QED
          BY <2>4, <4>6
      <3> QED
        BY <2>2, <2>8, <3>1, <3>2
    <2> QED
      BY <2>7, <2>8
  <1>4. ASSUME NEW fd \in Fds, ClientClosed(fd) PROVE ClosedFirst' /\ OwnersKnown'
    <2>1. /\ Idle /\ client' = [client EXCEPT ![fd] = NoClient] /\ bucket = NoHash
          /\ UNCHANGED <<cache, regFds, bucket, keyIx, entryIx>>
          /\ IF fd \in regFds THEN closing' = fd /\ todo' = Buckets ELSE UNCHANGED <<closing, todo>>
      BY <1>0, <1>4 DEF ClientClosed, IdleOutside
    <2>2. client'[fd] = NoClient /\ \A g \in Fds : g # fd => client'[g] = client[g]
      BY <1>0, <2>1 DEF TableTyped
    <2>3. ClosedFirst'
      BY <2>1, <2>2 DEF ClosedFirst, Idle
    <2> SUFFICES ASSUME NEW k \in CleanKeys, NEW i \in DOMAIN cache[Hash[k]], NEW j \in DOMAIN cache[Hash[k]][i].owners
                 PROVE  Accounted(Hash[k], Reg0(k, i, j), j)'
      BY <2>1, <2>3 DEF OwnersKnown
    <2>4. Reg0(k, i, j).fd \in regFds /\ client[Reg0(k, i, j).fd] = Reg0(k, i, j).addr
      BY <1>1, <2>1 DEF Accounted
    <2>5. CASE Reg0(k, i, j).fd = fd
      <3>1. closing' = fd /\ todo' = Buckets /\ fd # NoFd
        BY <1>1, <2>1, <2>4, <2>5
      <3> QED
        BY <1>1, <2>1, <2>4, <2>5, <3>1 DEF Accounted, Idle
    <2>6. CASE Reg0(k, i, j).fd # fd
      BY <1>1, <2>1, <2>2, <2>4, <2>6 DEF Accounted
    <2> QED
      BY <2>5, <2>6
  <1>5. ASSUME UNCHANGED <<cache, regFds, client, closing>>,
               \A k \in CleanKeys : \A i \in DOMAIN cache[Hash[k]] : \A j \in DOMAIN cache[Hash[k]][i].owners :
                   Accounted(Hash[k], Reg0(k, i, j), j) => Accounted(Hash[k], Reg0(k, i, j), j)'
        PROVE  ClosedFirst' /\ OwnersKnown'
    <2>1. ClosedFirst'
      BY <1>0, <1>5 DEF ClosedFirst, Idle
    <2>2. OwnersKnown'
      BY <1>1, <1>5 DEF OwnersKnown
    <2> QED
      BY <2>1, <2>2
  <1>6. ASSUME NEW h \in Hashes, EnterBucket(h) PROVE ClosedFirst' /\ OwnersKnown'
    <2>1. UNCHANGED <<cache, regFds, client, closing, todo>> /\ keyIx' = 1 /\ entryIx' = 1
      BY <1>6 DEF EnterBucket
    <2> QED
      BY <1>1, <1>5, <2>1 DEF Accounted, Idle
  <1>7. CASE EraseOwner
    <2> DEFINE B == bucket
    <2>1. /\ B \in Hashes /\ keyIx \in DOMAIN cache[B] /\ entryIx \in 1..Len(OwnersHere) /\ OwnersHere \in Seq(Reg)
          /\ \A h \in Hashes : h # B => cache'[h] = cache[h]
          /\ DOMAIN cache'[B] = DOMAIN cache[B]
          /\ cache'[B][keyIx].owners = RemoveIndex(OwnersHere, entryIx)
      BY <1>0, <1>7, EraseOwnerTable
    <2>2. UNCHANGED <<regFds, client, closing, todo, bucket, keyIx>> /\ entryIx' = 1
      BY <1>7 DEF EraseOwner
    <2>3. ClosedFirst'
      BY <1>0, <2>2 DEF ClosedFirst, Idle
    <2> SUFFICES ASSUME NEW k \in CleanKeys, NEW i \in DOMAIN cache'[Hash[k]], NEW j \in DOMAIN cache'[Hash[k]][i].owners
                 PROVE  Accounted(Hash[k], cache[Hash[k]][i].owners[j], j)'
      BY <2>3 DEF OwnersKnown
    <2>4. Hash[k] \in Hashes
      BY NameServiceAssumption DEF CleanKeys
    <2>5. CASE Hash[k] # B
      <3>1. cache'[Hash[k]] = cache[Hash[k]]
        BY <2>1, <2>4, <2>5
      <3>2. Accounted(Hash[k], Reg0(k, i, j), j)
        BY <1>1, <3>1
      <3> QED
        BY <2>2, <2>5, <3>1, <3>2 DEF Accounted, Idle
    <2>6. CASE Hash[k] = B
      <3> DEFINE o == OwnersHere
                 d == RemoveIndex(o, entryIx)
      <3>1. i = 1 /\ keyIx = 1 /\ i \in DOMAIN cache[Hash[k]]
        BY <1>0, <2>1, <2>6, CleanBucket
      <3>2. /\ d \in Seq(Reg) /\ Len(d) = Len(o) - 1
            /\ \A l \in 1..(Len(o) - 1) : d[l] = IF l < entryIx THEN o[l] ELSE o[l + 1]
        BY <2>1, RemoveIndexType
      <3>3. /\ o = cache[Hash[k]][i].owners /\ d = cache'[Hash[k]][i].owners
            /\ DOMAIN o = 1..Len(o) /\ Len(o) \in Nat /\ DOMAIN d = 1..Len(d)
        BY <2>1, <2>6, <3>1, <3>2 DEF OwnersHere
      <3> HIDE DEF o, d
      <3>4. j \in 1..(Len(o) - 1) /\ j \in Nat \ {0}
        BY <3>2, <3>3
      <3>5. PICK l \in DOMAIN o : d[j] = o[l]
        <4>1. j \in DOMAIN o /\ j + 1 \in DOMAIN o
          BY <3>3, <3>4
        <4> QED
          BY <3>2, <3>4, <4>1
      <3>6. Accounted(Hash[k], Reg0(k, i, l), l) /\ cache'[Hash[k]][i].owners[j] = Reg0(k, i, l)
        BY <1>1, <3>1, <3>3, <3>5
      <3> QED
        BY <2>2, <3>1, <3>4, <3>6 DEF Accounted, Idle
    <2> QED
      BY <2>5, <2>6
  <1>8. CASE NextOwner
    <2>1. /\ UNCHANGED <<cache, regFds, client, closing, todo, bucket, keyIx>> /\ entryIx' = entryIx + 1
          /\ OwnersHere[entryIx].fd # closing /\ entryIx \in Nat
      BY <1>0, <1>8 DEF NextOwner, TableTyped
    <2>2. ASSUME NEW k \in CleanKeys, NEW i \in DOMAIN cache[Hash[k]], NEW j \in DOMAIN cache[Hash[k]][i].owners,
                 Accounted(Hash[k], Reg0(k, i, j), j)
          PROVE  Accounted(Hash[k], Reg0(k, i, j), j)'
      <3>1. CASE bucket = Hash[k] /\ keyIx = 1 /\ Reg0(k, i, j).fd = closing /\ j >= entryIx
        <4>1. Reg0(k, i, j) = OwnersHere[j] /\ j \in Nat
          BY <1>1, <3>1 DEF OwnersHere
        <4>2. j >= entryIx + 1
          BY <2>1, <3>1, <4>1
        <4> QED
          BY <2>1, <2>2, <4>2 DEF Accounted, Idle
      <3>2. CASE ~(bucket = Hash[k] /\ keyIx = 1 /\ Reg0(k, i, j).fd = closing /\ j >= entryIx)
        BY <2>1, <2>2, <3>2 DEF Accounted, Idle
      <3> QED
        BY <3>1, <3>2
    <2> QED
      BY <1>5, <2>1, <2>2
  <1>9. CASE NextKey
    <2> DEFINE B == bucket
    <2>1. /\ B \in Hashes /\ keyIx \in DOMAIN cache[B] /\ OwnersHere \in Seq(Reg) /\ entryIx > Len(OwnersHere)
          /\ \A h \in Hashes : h # B => cache'[h] = cache[h]
          /\ \/ cache' = cache
             \/ cache'[B] = RemoveIndex(cache[B], keyIx)
      BY <1>0, <1>9, NextKeyTable
    <2>2. UNCHANGED <<regFds, client, closing, todo, bucket>>
      BY <1>9 DEF NextKey
    <2>3. ClosedFirst'
      BY <1>0, <2>2 DEF ClosedFirst, Idle
    <2> SUFFICES ASSUME NEW k \in CleanKeys, NEW i \in DOMAIN cache'[Hash[k]], NEW j \in DOMAIN cache'[Hash[k]][i].owners
                 PROVE  Accounted(Hash[k], cache[Hash[k]][i].owners[j], j)'
      BY <2>3 DEF OwnersKnown
    <2>4. Hash[k] \in Hashes
      BY NameServiceAssumption DEF CleanKeys
    <2>5. CASE Hash[k] # B
      <3>1. cache'[Hash[k]] = cache[Hash[k]]
        BY <2>1, <2>4, <2>5
      <3>2. Accounted(Hash[k], Reg0(k, i, j), j)
        BY <1>1, <3>1
      <3> QED
        BY <2>2, <2>5, <3>1, <3>2 DEF Accounted, Idle
    <2>6. CASE Hash[k] = B
      <3>1. keyIx = 1 /\ Len(cache[B]) = 1 /\ cache[B] \in Seq(KeyEntry)
        BY <1>0, <2>1, <2>6, CleanBucket DEF TableTyped
      <3>2. cache'[B] # RemoveIndex(cache[B], keyIx)
        <4>1. RemoveIndex(cache[B], 1) \in Seq(KeyEntry) /\ Len(RemoveIndex(cache[B], 1)) = 0
          <5>1. 1 \in 1..Len(cache[B])
            BY <3>1
          <5>2. RemoveIndex(cache[B], 1) \in Seq(KeyEntry) /\ Len(RemoveIndex(cache[B], 1)) = Len(cache[B]) - 1
            BY <3>1, <5>1, RemoveIndexType
          <5> QED
            BY <3>1, <5>2
        <4>2. DOMAIN RemoveIndex(cache[B], 1) = {}
          BY <4>1
        <4> QED
          BY <2>6, <3>1, <4>2
      <3>3. cache' = cache
        BY <2>1, <3>2
      <3>4. i = 1 /\ Accounted(Hash[k], Reg0(k, i, j), j) /\ j \in DOMAIN OwnersHere
        BY <1>1, <2>6, <3>1, <3>3 DEF OwnersHere
      <3>5. ~(j >= entryIx)
        BY <1>0, <2>1, <3>4 DEF TableTyped
      <3> QED
        BY <2>2, <2>6, <3>3, <3>4, <3>5 DEF Accounted, Idle
    <2> QED
      BY <2>5, <2>6
  <1>10. CASE LeaveBucket
    <2>1. /\ UNCHANGED <<cache, regFds, client, closing>> /\ bucket' = NoHash
          /\ keyIx > Len(cache[bucket]) /\ (todo' = Buckets \/ todo' = todo \ {bucket})
      BY <1>10 DEF LeaveBucket
    <2>2. ASSUME NEW k \in CleanKeys, NEW i \in DOMAIN cache[Hash[k]], NEW j \in DOMAIN cache[Hash[k]][i].owners,
                 Accounted(Hash[k], Reg0(k, i, j), j)
          PROVE  Accounted(Hash[k], Reg0(k, i, j), j)'
      <3>1. bucket = Hash[k] => keyIx # 1
        <4>1. Len(cache[Hash[k]]) = 1
          BY <1>0, CleanBucket
        <4> QED
          BY <2>1, <4>1
      <3> QED
        BY <1>1, <2>1, <2>2, <3>1 DEF Accounted, Idle
    <2> QED
      BY <1>5, <2>1, <2>2
  <1>11. CASE EndCleanup
    <2>1. /\ ~Idle /\ todo = {} /\ closing' = NoFd /\ regFds' = regFds \ {closing}
          /\ UNCHANGED <<cache, client>>
      BY <1>11 DEF EndCleanup
    <2>2. ClosedFirst'
      BY <2>1 DEF ClosedFirst, Idle
    <2> SUFFICES ASSUME NEW k \in CleanKeys, NEW i \in DOMAIN cache[Hash[k]], NEW j \in DOMAIN cache[Hash[k]][i].owners
                 PROVE  Accounted(Hash[k], Reg0(k, i, j), j)'
      BY <2>1, <2>2 DEF OwnersKnown
    <2>3. Reg0(k, i, j).fd \in regFds /\ client[Reg0(k, i, j).fd] = Reg0(k, i, j).addr
      BY <1>1, <2>1 DEF Accounted
    <2>4. Reg0(k, i, j).fd # closing
      BY <1>0, <1>1, <2>1, <2>3 DEF ClosedFirst
    <2> QED
      BY <2>1, <2>3, <2>4 DEF Accounted
  <1>12. CASE UNCHANGED nsVars
    <2>1. UNCHANGED <<cache, regFds, client, closing, todo, bucket, keyIx, entryIx>>
      BY <1>12 DEF nsVars, walkState
    <2> QED
      BY <1>5, <2>1 DEF Accounted, Idle
  <1> QED
    BY <1>2, <1>3, <1>4, <1>6, <1>7, <1>8, <1>9, <1>10, <1>11, <1>12 DEF NSNext, Cleanup

\* At the start there are no registrations.
LEMMA InitOwners == NSInit => OrphanInv
  <1> SUFFICES ASSUME NSInit PROVE OrphanInv
    OBVIOUS
  <1>1. \A h \in Hashes : DOMAIN cache[h] = {}
    BY DEF NSInit
  <1>2. OwnersKnown
    BY <1>1, NameServiceAssumption DEF OwnersKnown, CleanKeys
  <1> QED
    BY <1>2, InitTable DEF OrphanInv, ClosedFirst, Idle, NSInit

\* For any keys, hash function, connections and applications: when the lock is free
\* a registration whose connection is gone, or another application's by now, is of
\* a key that shares its bucket, however the map orders the buckets of the walk.
THEOREM OrphansShareBuckets == NSSpec => []OrphansOnlyByCollision
  <1>1. OrphanInv /\ [NSNext]_nsVars => OrphanInv'
    BY NextOwners, NextTable DEF OrphanInv
  <1>2. OrphanInv => OrphansOnlyByCollision
    <2> SUFFICES ASSUME OrphanInv, Idle, NEW k \in Keys, Orphaned(k), ~(\E j \in Keys \ {k} : Hash[j] = Hash[k])
                 PROVE  FALSE
      BY DEF OrphansOnlyByCollision
    <2>1. k \in CleanKeys
      BY DEF CleanKeys
    <2>2. PICK j \in DOMAIN Owners(k) : client[Owners(k)[j].fd] # Owners(k)[j].addr
      BY DEF Orphaned
    <2>3. Registered(k)
      <3>1. CASE ~Registered(k)
        <4>1. DOMAIN Owners(k) = {}
          BY <3>1 DEF Owners
        <4> QED
          BY <2>2, <4>1
      <3> QED
        BY <3>1
    <2>4. PICK i \in Positions(k) : Owners(k) = cache[Hash[k]][i].owners
      BY <2>3 DEF Owners, Registered
    <2>5. i \in DOMAIN cache[Hash[k]]
      BY <2>4 DEF Positions
    <2> QED
      BY <2>1, <2>2, <2>4, <2>5 DEF OrphanInv, OwnersKnown, Accounted
  <1> QED
    BY <1>1, <1>2, InitOwners, PTL DEF NSSpec

-----------------------------------------------------------------------------
(* The table is a directory *)

\* The owners of a key in a table c.
OwnersIn(c, k) ==
    LET at == {i \in DOMAIN c[Hash[k]] : c[Hash[k]][i].key = k}
    IN IF at # {} THEN c[Hash[k]][CHOOSE i \in at : TRUE].owners ELSE <<>>

\* For a key that has its bucket to itself they are those of the only entry.
LEMMA CleanOwners ==
    ASSUME NEW c \in [Hashes -> Seq(KeyEntry)],
           \A h \in Hashes : \A i \in DOMAIN c[h] :
               /\ Hash[c[h][i].key] = h
               /\ \A j \in DOMAIN c[h] : c[h][i].key = c[h][j].key => i = j,
           NEW k \in CleanKeys
    PROVE  /\ k \in Keys /\ Hash[k] \in Hashes
           /\ OwnersIn(c, k) \in Seq(Reg)
           /\ \A i \in DOMAIN c[Hash[k]] : i = 1 /\ OwnersIn(c, k) = c[Hash[k]][i].owners
           /\ DOMAIN c[Hash[k]] = {} => OwnersIn(c, k) = <<>>
  <1>1. k \in Keys /\ Hash[k] \in Hashes /\ \A q \in Keys : Hash[q] = Hash[k] => q = k
    BY NameServiceAssumption DEF CleanKeys
  <1> DEFINE b == c[Hash[k]]
             at == {i \in DOMAIN b : b[i].key = k}
  <1>2. b \in Seq(KeyEntry)
    BY <1>1
  <1>3. \A i \in DOMAIN b : b[i].key \in Keys /\ b[i].owners \in Seq(Reg) /\ i \in 1..Len(b)
    <2> HIDE DEF b
    <2>1. \A i \in DOMAIN b : b[i] \in KeyEntry /\ i \in 1..Len(b)
      BY <1>2
    <2> QED
      BY <2>1 DEF KeyEntry
  <1>4. \A i \in DOMAIN b : b[i].key = k
    BY <1>1, <1>3
  <1>5. \A i, j \in DOMAIN b : i = j
    BY <1>1, <1>4
  <1>6. ASSUME NEW i \in DOMAIN b PROVE i = 1 /\ OwnersIn(c, k) = b[i].owners
    <2>1. 1 \in DOMAIN b
      BY <1>2
    <2>2. i = 1
      BY <1>5, <2>1
    <2>3. at # {} /\ \A j \in at : j = i
      BY <1>4, <1>5
    <2>4. (CHOOSE j \in at : TRUE) = i
      <3> HIDE DEF at
      <3> QED
        BY <2>3
    <2> QED
      BY <2>2, <2>3, <2>4 DEF OwnersIn
  <1>7. DOMAIN b = {} => OwnersIn(c, k) = <<>>
    BY DEF OwnersIn
  <1>8. OwnersIn(c, k) \in Seq(Reg)
    <2>1. CASE DOMAIN b = {}
      BY <1>7, <2>1
    <2>2. CASE DOMAIN b # {}
      BY <1>3, <1>6, <2>2
    <2> QED
      BY <2>1, <2>2
  <1> QED
    BY <1>1, <1>6, <1>7, <1>8

\* The directory that the table holds, now and after a step.
LEMMA ContentsOf ==
    /\ Contents = [k \in CleanKeys |-> Without(OwnersIn(cache, k), closing)]
    /\ Contents' = [k \in CleanKeys |-> Without(OwnersIn(cache', k), closing')]
    /\ \A k \in Keys : Owners(k) = OwnersIn(cache, k)
  BY DEF Contents, Owners, Registered, Positions, OwnersIn

\* Nothing is registered on no descriptor.
LEMMA NothingOnNoFd ==
    ASSUME NEW s \in Seq(Reg)
    PROVE  Without(s, NoFd) = s
  <1>1. \A i \in DOMAIN s : s[i] \in Reg
    OBVIOUS
  <1>2. \A i \in DOMAIN s : s[i].fd # NoFd
    BY <1>1, NameServiceAssumption DEF Reg
  <1> QED
    BY <1>2, WithoutNone

\* Every step of the service is a registration or a disconnection of the
\* directory, or leaves it as it is.
LEMMA NextDirectory == OrphanInv /\ OrphanInv' /\ [NSNext]_nsVars => [Directory!Next]_Contents
  <1> SUFFICES ASSUME OrphanInv, OrphanInv', [NSNext]_nsVars PROVE [Directory!Next]_Contents
    OBVIOUS
  <1>0. /\ TableTyped /\ KeysInPlace /\ EmptyOnlyHere /\ IdleOutside /\ ClosedFirst /\ OwnersKnown
        /\ TableTyped' /\ KeysInPlace'
    BY DEF OrphanInv, TableInv
  <1>a. cache \in [Hashes -> Seq(KeyEntry)] /\ cache' \in [Hashes -> Seq(KeyEntry)]
    BY <1>0 DEF TableTyped
  <1>b. ASSUME NEW k \in CleanKeys
        PROVE  /\ k \in Keys /\ Hash[k] \in Hashes
               /\ OwnersIn(cache, k) \in Seq(Reg)
               /\ \A i \in DOMAIN cache[Hash[k]] : i = 1 /\ OwnersIn(cache, k) = cache[Hash[k]][i].owners
               /\ DOMAIN cache[Hash[k]] = {} => OwnersIn(cache, k) = <<>>
    <2>1. \A h \in Hashes : \A i \in DOMAIN cache[h] :
               /\ Hash[cache[h][i].key] = h
               /\ \A j \in DOMAIN cache[h] : cache[h][i].key = cache[h][j].key => i = j
      BY <1>0 DEF KeysInPlace
    <2> QED
      BY <1>a, <2>1, CleanOwners
  <1>c. ASSUME NEW k \in CleanKeys
        PROVE  /\ OwnersIn(cache', k) \in Seq(Reg)
               /\ \A i \in DOMAIN cache'[Hash[k]] : i = 1 /\ OwnersIn(cache', k) = cache'[Hash[k]][i].owners
               /\ DOMAIN cache'[Hash[k]] = {} => OwnersIn(cache', k) = <<>>
    <2>1. \A h \in Hashes : \A i \in DOMAIN cache'[h] :
               /\ Hash[cache'[h][i].key] = h
               /\ \A j \in DOMAIN cache'[h] : cache'[h][i].key = cache'[h][j].key => i = j
      BY <1>0 DEF KeysInPlace
    <2> QED
      BY <1>a, <2>1, CleanOwners
  <1>d. ASSUME NEW k \in CleanKeys, cache'[Hash[k]] = cache[Hash[k]]
        PROVE  OwnersIn(cache', k) = OwnersIn(cache, k)
    BY <1>d DEF OwnersIn
  <1>1. ASSUME UNCHANGED <<cache, closing>> PROVE Contents' = Contents
    BY <1>1, ContentsOf
  <1>2. ASSUME NEW fd \in Fds, NEW k \in Keys, process_registration(fd, k)
        PROVE  Directory!Next \/ Contents' = Contents
    <2> DEFINE r == [addr |-> client[fd], fd |-> fd]
    <2>1. closing = NoFd /\ closing' = NoFd /\ AddOwner(k, r) /\ client[fd] # NoClient
      BY <1>2 DEF process_registration, Idle, walkState
    <2>2. client[fd] \in Clients /\ r \in Reg
      BY <1>0, <2>1 DEF TableTyped, Reg
    <2>3. Contents = [q \in CleanKeys |-> OwnersIn(cache, q)]
      BY <2>1, <1>b, ContentsOf, NothingOnNoFd
    <2>4. Contents' = [q \in CleanKeys |-> OwnersIn(cache', q)]
      BY <2>1, <1>c, ContentsOf, NothingOnNoFd
    <2>5. /\ \A h \in Hashes : h # Hash[k] => cache'[h] = cache[h]
          /\ \/ /\ Positions(k) # {} /\ DOMAIN cache'[Hash[k]] = DOMAIN cache[Hash[k]]
                /\ \A i \in DOMAIN cache[Hash[k]] :
                       cache'[Hash[k]][i] =
                           IF cache[Hash[k]][i].key = k
                           THEN [key |-> k, owners |-> Append(cache[Hash[k]][i].owners, r)]
                           ELSE cache[Hash[k]][i]
             \/ /\ Positions(k) = {}
                /\ cache'[Hash[k]] = Append(cache[Hash[k]], [key |-> k, owners |-> <<r>>])
      BY <1>0, <2>1, <2>2, AddOwnerTable
    <2>6. ASSUME NEW q \in CleanKeys, q # k PROVE OwnersIn(cache', q) = OwnersIn(cache, q)
      <3>1. Hash[q] # Hash[k] /\ Hash[q] \in Hashes
        BY <2>6, <1>b DEF CleanKeys
      <3> QED
        BY <2>5, <3>1, <1>d
    <2>7. CASE k \notin CleanKeys
      BY <2>3, <2>4, <2>6, <2>7
    <2>8. CASE k \in CleanKeys
      <3>1. OwnersIn(cache', k) = Append(OwnersIn(cache, k), r)
        <4>1. CASE Positions(k) # {}
          <5>1. PICK i \in DOMAIN cache[Hash[k]] : cache[Hash[k]][i].key = k
            BY <4>1 DEF Positions
          <5> HIDE DEF r
          <5>2. /\ i \in DOMAIN cache'[Hash[k]]
                /\ cache'[Hash[k]][i] = [key |-> k, owners |-> Append(cache[Hash[k]][i].owners, r)]
            BY <2>5, <4>1, <5>1
          <5>3. cache'[Hash[k]][i].owners = Append(cache[Hash[k]][i].owners, r)
            BY <5>2
          <5> QED
            BY <1>b, <1>c, <2>8, <5>1, <5>2, <5>3
        <4>2. CASE Positions(k) = {}
          <5>1. DOMAIN cache[Hash[k]] = {}
            BY <1>0, <2>8, <4>2, CleanBucket DEF Positions
          <5>2. OwnersIn(cache, k) = <<>> /\ cache[Hash[k]] \in Seq(KeyEntry)
            BY <1>a, <1>b, <2>8, <5>1
          <5>3. cache[Hash[k]] = <<>>
            <6> DEFINE b == cache[Hash[k]]
            <6>1. b \in Seq(KeyEntry) /\ DOMAIN b = {}
              BY <5>1, <5>2
            <6> HIDE DEF b
            <6>2. b = <<>>
              <7>1. Len(b) = 0
                BY <6>1
              <7> QED
                BY <6>1, <7>1, EmptySeq
            <6> QED
              BY <6>2 DEF b
          <5>4. cache'[Hash[k]] = <<[key |-> k, owners |-> <<r>>]>>
            BY <2>5, <4>2, <5>3
          <5>5. 1 \in DOMAIN cache'[Hash[k]] /\ cache'[Hash[k]][1].owners = <<r>>
            BY <5>4
          <5> QED
            <6>1. OwnersIn(cache', k) = <<r>>
              BY <1>c, <2>8, <5>5
            <6>2. Append(<<>>, r) = <<r>>
              OBVIOUS
            <6> QED
              BY <5>2, <6>1, <6>2
        <4> QED
          BY <4>1, <4>2
      <3>2. Contents' = [Contents EXCEPT ![k] = Append(Contents[k], r)]
        <4>1. \A q \in CleanKeys : OwnersIn(cache', q) =
                  IF q = k THEN Append(OwnersIn(cache, k), r) ELSE OwnersIn(cache, q)
          BY <2>6, <3>1
        <4> HIDE DEF r
        <4> QED
          BY <2>3, <2>4, <2>8, <4>1
      <3>3. Directory!Register(fd, client[fd], k)
        BY <3>2 DEF Directory!Register
      <3> QED
        BY <2>2, <2>8, <3>3 DEF Directory!Next
    <2> QED
      BY <2>7, <2>8
  <1>3. ASSUME NEW fd \in Fds, ClientClosed(fd)
        PROVE  Directory!Next \/ Contents' = Contents
    <2>1. closing = NoFd /\ cache' = cache /\ (closing' = fd \/ closing' = closing)
      BY <1>3 DEF ClientClosed, Idle
    <2>2. CASE closing' = fd
      <3>1. Contents = [q \in CleanKeys |-> OwnersIn(cache, q)]
        BY <2>1, <1>b, ContentsOf, NothingOnNoFd
      <3>2. Contents' = [q \in CleanKeys |-> Without(OwnersIn(cache, q), fd)]
        BY <2>1, <2>2, ContentsOf
      <3>3. \A s : Directory!Without(s, fd) = Without(s, fd)
        BY DEF Directory!Without, Without, Directory!Kept, Kept
      <3>4. Directory!Disconnect(fd)
        BY <3>1, <3>2, <3>3 DEF Directory!Disconnect
      <3> QED
        BY <3>4 DEF Directory!Next
    <2>3. CASE closing' = closing
      BY <1>1, <2>1, <2>3
    <2> QED
      BY <2>1, <2>2, <2>3
  <1>4. ASSUME EraseOwner PROVE Contents' = Contents
    <2>1. /\ bucket \in Hashes /\ keyIx \in DOMAIN cache[bucket]
          /\ entryIx \in 1..Len(OwnersHere) /\ OwnersHere \in Seq(Reg)
          /\ \A h \in Hashes : h # bucket => cache'[h] = cache[h]
          /\ DOMAIN cache'[bucket] = DOMAIN cache[bucket]
          /\ cache'[bucket][keyIx].owners = RemoveIndex(OwnersHere, entryIx)
      BY <1>0, <1>4, EraseOwnerTable
    <2>2. closing' = closing /\ OwnersHere[entryIx].fd = closing
      BY <1>4 DEF EraseOwner
    <2> SUFFICES ASSUME NEW k \in CleanKeys
                 PROVE  Without(OwnersIn(cache', k), closing) = Without(OwnersIn(cache, k), closing)
      BY <2>2, ContentsOf
    <2>3. CASE Hash[k] # bucket
      BY <1>b, <1>d, <2>1, <2>3
    <2>4. CASE Hash[k] = bucket
      <3>1. OwnersIn(cache, k) = OwnersHere
        BY <1>b, <2>1, <2>4 DEF OwnersHere
      <3>2. OwnersIn(cache', k) = RemoveIndex(OwnersHere, entryIx)
        BY <1>c, <2>1, <2>4
      <3> DEFINE s == OwnersHere
                 t == RemoveIndex(s, entryIx)
      <3>3. /\ t \in Seq(Reg) /\ Len(t) = Len(s) - 1
            /\ \A j \in 1..Len(t) : t[j] = IF j < entryIx THEN s[j] ELSE s[j + 1]
        BY <2>1, RemoveIndexType
      <3>4. entryIx \in DOMAIN s
        BY <2>1
      <3> HIDE DEF s, t
      <3>5. Without(t, closing) = Without(s, closing)
        BY <2>1, <2>2, <3>3, <3>4, WithoutErased DEF s
      <3> QED
        BY <3>1, <3>2, <3>5 DEF s, t
    <2> QED
      BY <2>3, <2>4
  <1>5. ASSUME NextKey PROVE Contents' = Contents
    <2>1. /\ bucket \in Hashes /\ keyIx \in DOMAIN cache[bucket]
          /\ \A h \in Hashes : h # bucket => cache'[h] = cache[h]
          /\ \/ cache' = cache
             \/ OwnersHere = <<>> /\ cache'[bucket] = RemoveIndex(cache[bucket], keyIx)
      BY <1>0, <1>5, NextKeyTable
    <2>2. closing' = closing
      BY <1>5 DEF NextKey
    <2>3. CASE cache' = cache
      BY <1>1, <2>2, <2>3
    <2>4. CASE OwnersHere = <<>> /\ cache'[bucket] = RemoveIndex(cache[bucket], keyIx)
      <3> SUFFICES ASSUME NEW k \in CleanKeys
                   PROVE  OwnersIn(cache', k) = OwnersIn(cache, k)
        BY <2>2, ContentsOf
      <3>1. CASE Hash[k] # bucket
        BY <1>b, <1>d, <2>1, <3>1
      <3>2. CASE Hash[k] = bucket
        <4>1. OwnersIn(cache, k) = <<>>
          BY <1>b, <2>1, <2>4, <3>2 DEF OwnersHere
        <4>2. keyIx = 1 /\ Len(cache[bucket]) = 1 /\ cache[bucket] \in Seq(KeyEntry)
          BY <1>0, <1>a, <2>1, <3>2, CleanBucket
        <4>3. 1 \in 1..Len(cache[bucket])
          BY <4>2
        <4>4. RemoveIndex(cache[bucket], 1) \in Seq(KeyEntry) /\ Len(RemoveIndex(cache[bucket], 1)) = 0
          <5>1. /\ RemoveIndex(cache[bucket], 1) \in Seq(KeyEntry)
                /\ Len(RemoveIndex(cache[bucket], 1)) = Len(cache[bucket]) - 1
            BY <4>2, <4>3, RemoveIndexType
          <5> QED
            BY <4>2, <5>1
        <4>5. DOMAIN cache'[bucket] = {}
          BY <2>4, <4>2, <4>4
        <4> QED
          BY <1>c, <3>2, <4>1, <4>5
      <3> QED
        BY <3>1, <3>2
    <2> QED
      BY <2>1, <2>3, <2>4
  <1>6. ASSUME EndCleanup PROVE Contents' = Contents
    <2>1. ~Idle /\ todo = {} /\ closing' = NoFd /\ cache' = cache
      BY <1>6 DEF EndCleanup
    <2> SUFFICES ASSUME NEW k \in CleanKeys
                 PROVE  Without(OwnersIn(cache, k), NoFd) = Without(OwnersIn(cache, k), closing)
      BY <2>1, ContentsOf
    <2> DEFINE s == OwnersIn(cache, k)
    <2>2. s \in Seq(Reg)
      BY <1>b
    <2>3. ASSUME NEW j \in DOMAIN s PROVE s[j].fd # closing
      <3>1. DOMAIN cache[Hash[k]] # {}
        <4>1. CASE DOMAIN cache[Hash[k]] = {}
          <5>1. s = <<>>
            BY <1>b, <4>1
          <5> QED
            BY <5>1
        <4> QED
          BY <4>1
      <3>2. PICK i \in DOMAIN cache[Hash[k]] : s = cache[Hash[k]][i].owners
        BY <1>b, <3>1
      <3>3. Accounted(Hash[k], s[j], j)
        BY <1>0, <3>2 DEF OwnersKnown
      <3>4. client[s[j].fd] = s[j].addr
        BY <2>1, <3>3 DEF Accounted
      <3>5. s[j] \in Reg
        BY <2>2
      <3>6. s[j].addr # NoClient
        BY <3>5, NameServiceAssumption DEF Reg
      <3> QED
        BY <1>0, <2>1, <3>4, <3>6 DEF ClosedFirst
    <2> HIDE DEF s
    <2>4. Without(s, closing) = s
      BY <2>2, <2>3, WithoutNone
    <2>5. Without(s, NoFd) = s
      BY <2>2, NothingOnNoFd
    <2> QED
      BY <2>4, <2>5 DEF s
  <1>7. ASSUME \/ \E fd \in Fds, c \in Clients : Accept(fd, c)
               \/ \E h \in Hashes : EnterBucket(h)
               \/ NextOwner \/ LeaveBucket \/ UNCHANGED nsVars
        PROVE  Contents' = Contents
    <2>1. UNCHANGED <<cache, closing>>
      BY <1>7 DEF Accept, EnterBucket, NextOwner, LeaveBucket, nsVars, walkState
    <2> QED
      BY <1>1, <2>1
  <1> QED
    BY <1>2, <1>3, <1>4, <1>5, <1>6, <1>7 DEF NSNext, Cleanup

\* For any keys, hash function, connections and applications: for the keys that
\* have their bucket to themselves the table and its walk of many steps implement
\* the directory, from which a closed connection disappears in one step.
THEOREM TableIsDirectory == NSSpec => ImplementsDirectory
  <1>1. OrphanInv /\ [NSNext]_nsVars => OrphanInv'
    BY NextOwners, NextTable DEF OrphanInv
  <1>2. NSInit => Directory!Init
    <2> SUFFICES ASSUME NSInit PROVE Directory!Init
      OBVIOUS
    <2>1. OrphanInv /\ cache = [h \in Hashes |-> <<>>] /\ closing = NoFd
      BY InitOwners DEF NSInit
    <2>2. ASSUME NEW k \in CleanKeys PROVE OwnersIn(cache, k) = <<>>
      <3>1. Hash[k] \in Hashes
        BY NameServiceAssumption DEF CleanKeys
      <3>2. DOMAIN cache[Hash[k]] = {}
        BY <2>1, <3>1
      <3> QED
        BY <3>2 DEF OwnersIn
    <2>3. Without(<<>>, NoFd) = <<>>
      <3>1. <<>> \in Seq(Reg)
        OBVIOUS
      <3> QED
        BY <3>1, NothingOnNoFd
    <2> QED
      BY <2>1, <2>2, <2>3, ContentsOf DEF Directory!Init
  <1> QED
    BY <1>1, <1>2, InitOwners, NextDirectory, PTL DEF NSSpec, ImplementsDirectory, Directory!Spec

\* For any keys, hash function, connections and applications: with the lock free,
\* a query that falls only under keys with a bucket of their own is answered by
\* the first owner of the longest registered prefix, as in the directory.
THEOREM AnswersFromDirectory == NSSpec => []QueryAnswersDirectory
  <1>1. OrphanInv /\ [NSNext]_nsVars => OrphanInv'
    BY NextOwners, NextTable DEF OrphanInv
  <1>2. OrphanInv => QueryAnswersDirectory
    <2> SUFFICES ASSUME OrphanInv, Idle, NEW q \in Keys, Above(q) \subseteq CleanKeys
                 PROVE  process_query(q) = Directory!Answer(q)
      BY DEF QueryAnswersDirectory
    <2>0. TableTyped /\ KeysInPlace /\ EmptyOnlyHere /\ closing = NoFd
      BY DEF OrphanInv, TableInv, Idle
    <2>1. ASSUME NEW k \in CleanKeys
          PROVE  k \in Keys /\ Contents[k] = Owners(k) /\ (Registered(k) <=> Owners(k) # <<>>)
      <3>1. /\ k \in Keys /\ Hash[k] \in Hashes
            /\ OwnersIn(cache, k) \in Seq(Reg)
            /\ \A i \in DOMAIN cache[Hash[k]] : i = 1 /\ OwnersIn(cache, k) = cache[Hash[k]][i].owners
            /\ DOMAIN cache[Hash[k]] = {} => OwnersIn(cache, k) = <<>>
        <4>1. \A h \in Hashes : \A i \in DOMAIN cache[h] :
                   /\ Hash[cache[h][i].key] = h
                   /\ \A j \in DOMAIN cache[h] : cache[h][i].key = cache[h][j].key => i = j
          BY <2>0 DEF KeysInPlace
        <4>2. cache \in [Hashes -> Seq(KeyEntry)]
          BY <2>0 DEF TableTyped
        <4> QED
          BY <4>1, <4>2, CleanOwners
      <3>2. Owners(k) = OwnersIn(cache, k)
        BY <3>1, ContentsOf
      <3>3. Contents[k] = Owners(k)
        BY <2>0, <3>1, <3>2, ContentsOf, NothingOnNoFd
      <3>4. ASSUME Registered(k) PROVE Owners(k) # <<>>
        <4>1. PICK i \in DOMAIN cache[Hash[k]] : TRUE
          BY <3>4 DEF Registered, Positions
        <4> QED
          BY <2>0, <3>1, <3>2, <4>1 DEF EmptyOnlyHere
      <3>5. ~Registered(k) => Owners(k) = <<>>
        BY DEF Owners
      <3> QED
        BY <3>1, <3>3, <3>4, <3>5
    <2>2. q \in Seq(Nat) /\ Len(q) \in Nat /\ \A k \in Keys : k \in Seq(Nat) /\ k # <<>> /\ Len(k) \in Nat
      BY NameServiceAssumption
    <2> DEFINE P == Directory!Prefixes(q)
    <2>3. P = {k \in CleanKeys : Contents[k] # <<>> /\ Len(k) <= Len(q) /\ k = SubSeq(q, 1, Len(k))}
      BY DEF Directory!Prefixes
    <2>4. ASSUME NEW k \in P PROVE Len(k) \in FoundLengths(q) /\ Shortened(q, Len(k)) = k /\ k \in CleanKeys
      <3>1. k \in CleanKeys /\ Contents[k] # <<>> /\ Len(k) <= Len(q) /\ k = SubSeq(q, 1, Len(k))
        BY <2>3
      <3>2. k \in Keys /\ Registered(k) /\ Len(k) \in 1..Len(q)
        BY <2>1, <2>2, <3>1, EmptySeq
      <3> QED
        BY <3>1, <3>2 DEF FoundLengths, Shortened
    <2>5. ASSUME NEW n \in FoundLengths(q)
          PROVE  Shortened(q, n) \in P /\ Len(Shortened(q, n)) = n /\ n \in Nat
      <3> DEFINE k == Shortened(q, n)
      <3>1. n \in 1..Len(q) /\ k \in Keys /\ Registered(k)
        BY DEF FoundLengths
      <3>2. Len(k) = n
        BY <2>2, <3>1 DEF Shortened
      <3>3. Len(k) <= Len(q) /\ k = SubSeq(q, 1, Len(k))
        BY <2>2, <3>1, <3>2 DEF Shortened
      <3>4. k \in CleanKeys
        BY <3>1, <3>3 DEF Above
      <3>5. Contents[k] # <<>>
        BY <2>1, <3>1, <3>4
      <3> QED
        BY <2>3, <3>1, <3>2, <3>3, <3>4, <3>5
    <2> DEFINE Longest == {p \in P : \A o \in P : Len(o) <= Len(p)}
    <2> HIDE DEF P
    <2>6. Directory!Answer(q) = {Contents[k][1].addr : k \in Longest}
      BY DEF Directory!Answer, P
    <2>7. \A k \in Longest : Len(k) \in LongestFirst(q)
      BY <2>4, <2>5 DEF LongestFirst
    <2>8. \A n \in LongestFirst(q) : Shortened(q, n) \in Longest
      BY <2>4, <2>5 DEF LongestFirst
    <2>9. \A k \in Longest : k \in P
      OBVIOUS
    <2> HIDE DEF Longest
    <2>10. ASSUME NEW k \in Longest PROVE Contents[k][1].addr \in process_query(q)
      <3>1. Len(k) \in LongestFirst(q) /\ Shortened(q, Len(k)) = k /\ Contents[k] = Owners(k)
        BY <2>1, <2>4, <2>7, <2>9
      <3> QED
        BY <3>1 DEF process_query
    <2>11. ASSUME NEW n \in LongestFirst(q)
           PROVE  Owners(Shortened(q, n))[1].addr \in {Contents[k][1].addr : k \in Longest}
      <3>1. Shortened(q, n) \in Longest
        BY <2>8
      <3>2. Contents[Shortened(q, n)] = Owners(Shortened(q, n))
        BY <2>1, <2>4, <2>9, <3>1
      <3> QED
        BY <3>1, <3>2
    <2> QED
      BY <2>6, <2>10, <2>11 DEF process_query
  <1> QED
    BY <1>1, <1>2, InitOwners, PTL DEF NSSpec

-----------------------------------------------------------------------------
(* The event queue *)

\* A walker that is about to send stands at an entry of its list, and that entry
\* has an object.
SendingOK ==
    \A w \in Walkers :
        pc[w] = "send" => ix[w] \in DOMAIN list[w] /\ list[w][ix[w]].obj # NULL

\* The inductive invariant of QueueTyped.
QInv == TypeOK /\ SendingOK

\* The queue starts typed, with no walker about to send.
LEMMA InitQInv == Init => QInv
  <1> SUFFICES ASSUME Init PROVE QInv
    OBVIOUS
  <1> USE EventQueueAssumption DEF Init, Walkers
  <1>1. /\ events \in Seq(Entry)
        /\ published \in 0..MaxPublished
        /\ pushed \in Nat
        /\ pc \in [Walkers -> {"idle", "walk", "send", "halted", "failed", "done"}]
        /\ ix \in [Walkers -> Nat \ {0}]
        /\ conn \in [Walkers -> Addrs \cup {NoAddr}]
        /\ stamp \in [Walkers -> Nat]
    OBVIOUS
  <1>2. list \in [Walkers -> Seq(Entry)] /\ buffer \in [Walkers -> Seq(Message)]
    OBVIOUS
  <1>3. late \in [Addrs -> SUBSET (Seq(Message) \ {<<>>})]
    OBVIOUS
  <1>4. delivered \in [Addrs -> Seq(Receipt)]
    OBVIOUS
  <1>5. lossy \in BOOLEAN
    OBVIOUS
  <1>6. SendingOK
    BY DEF SendingOK
  <1> QED
    BY <1>1, <1>2, <1>3, <1>4, <1>5, <1>6 DEF QInv, TypeOK

\* What a node gets of a buffer when the socket is given up, and when it is not.
LEMMA LeaveType ==
    ASSUME TypeOK, NEW w \in Walkers, NEW thrown \in BOOLEAN, LeaveConnection(w, thrown)
    PROVE  /\ buffer' \in [Walkers -> Seq(Message)]
           /\ late' \in [Addrs -> SUBSET (Seq(Message) \ {<<>>})]
           /\ delivered' \in [Addrs -> Seq(Receipt)]
           /\ lossy' \in BOOLEAN
  <1>1. buffer' \in [Walkers -> Seq(Message)]
    BY DEF LeaveConnection, TypeOK
  <1>2. CASE conn[w] = NoAddr
    BY <1>1, <1>2 DEF LeaveConnection, TypeOK, nodeVars
  <1>3. CASE conn[w] # NoAddr
    <2>1. conn[w] \in Addrs /\ buffer[w] \in Seq(Message)
      BY <1>3 DEF TypeOK
    <2>2. PICK n \in 0..Len(buffer[w]), m \in 0..Len(buffer[w]) :
              /\ n <= m
              /\ delivered' = [delivered EXCEPT ![conn[w]] =
                     @ \o [i \in 1..n |-> [obj     |-> buffer[w][i].obj,
                                           seq     |-> buffer[w][i].seq,
                                           dropped |-> FALSE]]]
              /\ late' = [late EXCEPT ![conn[w]] =
                     IF n < m THEN @ \cup {SubSeq(buffer[w], n + 1, m)} ELSE @]
              /\ lossy' = (lossy \/ thrown \/ n < Len(buffer[w]))
      BY <1>3 DEF LeaveConnection, GiveUpSocket
    <2> DEFINE read == [i \in 1..n |-> [obj     |-> buffer[w][i].obj,
                                        seq     |-> buffer[w][i].seq,
                                        dropped |-> FALSE]]
    <2>3. read \in Seq(Receipt)
      <3>1. \A i \in 1..n : buffer[w][i] \in Message
        BY <2>1
      <3>2. \A i \in 1..n : read[i] \in Receipt
        BY <3>1 DEF Message, Receipt
      <3> QED
        BY <3>2
    <2>4. delivered[conn[w]] \o read \in Seq(Receipt)
      BY <2>1, <2>3 DEF TypeOK
    <2>5. delivered' \in [Addrs -> Seq(Receipt)]
      BY <2>2, <2>4 DEF TypeOK
    <2>6. n < m => SubSeq(buffer[w], n + 1, m) \in Seq(Message) \ {<<>>}
      BY <2>1
    <2>7. late' \in [Addrs -> SUBSET (Seq(Message) \ {<<>>})]
      BY <2>1, <2>2, <2>6 DEF TypeOK
    <2>8. lossy' \in BOOLEAN
      BY <2>2
    <2> QED
      BY <1>1, <2>5, <2>7, <2>8
  <1> QED
    BY <1>2, <1>3

\* An entry of a list, and the list with a null pointer in place of its object.
LEMMA EntryType ==
    ASSUME NEW lst \in Seq(Entry), NEW i \in DOMAIN lst
    PROVE  /\ lst[i] \in Entry
           /\ lst[i].addr \in Addrs
           /\ lst[i].obj \in Nat
           /\ [lst EXCEPT ![i].obj = NULL] \in Seq(Entry)
  <1>1. lst[i] \in Entry
    OBVIOUS
  <1>2. lst[i].addr \in Addrs /\ lst[i].obj \in Nat
    BY <1>1 DEF Entry
  <1>3. [lst[i] EXCEPT !.obj = NULL] \in Entry
    BY <1>1 DEF Entry, NULL
  <1>4. [lst EXCEPT ![i] = [lst[i] EXCEPT !.obj = NULL]] \in Seq(Entry)
    BY <1>3
  <1> QED
    BY <1>1, <1>2, <1>4

\* What is left of a sequence of several elements without its first.
LEMMA TailType ==
    ASSUME NEW S, NEW s \in Seq(S), Len(s) > 1
    PROVE  Tail(s) \in Seq(S) \ {<<>>}
  <1>1. SubSeq(s, 2, Len(s)) \in Seq(S) \ {<<>>}
    <2> DEFINE n == Len(s)
    <2>1. n \in Nat /\ n > 1 /\ \A i \in 1..n : s[i] \in S
      OBVIOUS
    <2>2. SubSeq(s, 2, n) \in Seq(S) /\ Len(SubSeq(s, 2, n)) = n - 1
      BY <2>1, SubSeqProperties
    <2> HIDE DEF n
    <2>3. SubSeq(s, 2, n) # <<>>
      BY <2>1, <2>2
    <2> QED
      BY <2>2, <2>3 DEF n
  <1>2. Tail(s) = SubSeq(s, 2, Len(s))
    OBVIOUS
  <1> QED
    BY <1>1, <1>2, Zenon

\* Trimming a list leaves a list.
LEMMA LimitType ==
    ASSUME NEW lst \in Seq(Entry), NEW limit \in Nat
    PROVE  Limit(lst, limit) \in Seq(Entry)
  BY DEF Limit

\* Every step of the walkers, the publishers and the nodes keeps the types.
LEMMA NextTypeOK == QInv /\ [Next]_vars => TypeOK'
  <1> SUFFICES ASSUME QInv, [Next]_vars PROVE TypeOK'
    OBVIOUS
  <1> USE EventQueueAssumption DEF QInv, walkVars, nodeVars
  <1>1. ASSUME NEW a \in Addrs, Publish(a) PROVE TypeOK'
    <2>1. [addr |-> a, obj |-> published + 1] \in Entry
      BY DEF TypeOK, Entry
    <2>2. events' \in Seq(Entry) /\ published' \in 0..MaxPublished
      BY <1>1, <2>1 DEF Publish, TypeOK
    <2> QED
      BY <1>1, <2>2 DEF Publish, TypeOK
  <1>2. ASSUME NEW w \in Walkers, StartWalk(w) PROVE TypeOK'
    BY <1>2 DEF StartWalk, TypeOK
  <1>3. CASE PutBack
    <2> DEFINE over == Len(events) > Redline
               kept == IF over THEN Limit(list["push"], MaxInflight) ELSE list["push"]
               rest == IF over THEN LimitRest(events, Len(kept)) ELSE events
    <2>1. list["push"] \in Seq(Entry) /\ events \in Seq(Entry)
      BY DEF TypeOK, Walkers
    <2>2. kept \in Seq(Entry)
      BY <2>1, LimitType
    <2>3. rest \in Seq(Entry)
      BY <2>1, <2>2, LimitType DEF LimitRest
    <2>4. events' = kept \o rest /\ lossy' = (lossy \/ kept # list["push"] \/ rest # events)
      BY <1>3 DEF PutBack, Requeued
    <2>5. events' \in Seq(Entry) /\ lossy' \in BOOLEAN
      BY <2>2, <2>3, <2>4
    <2>6. /\ list' = [list EXCEPT !["push"] = <<>>]
          /\ pc' = [pc EXCEPT !["push"] = "idle"]
          /\ UNCHANGED <<published, pushed, ix, conn, buffer, stamp, nodeVars>>
      BY <1>3 DEF PutBack
    <2>7. list' \in [Walkers -> Seq(Entry)]
      <3>1. list \in [Walkers -> Seq(Entry)] /\ <<>> \in Seq(Entry)
        BY DEF TypeOK
      <3>2. list' = [list EXCEPT !["push"] = <<>>]
        BY <2>6
      <3> QED
        BY ONLY <3>1, <3>2
    <2>8. pc' \in [Walkers -> {"idle", "walk", "send", "halted", "failed", "done"}]
      BY <2>6 DEF TypeOK
    <2> HIDE DEF over, kept, rest
    <2> QED
      BY <2>5, <2>6, <2>7, <2>8 DEF TypeOK
  <1>4. ASSUME NEW w \in Walkers, SkipNull(w) PROVE TypeOK'
    BY <1>4 DEF SkipNull, TypeOK
  <1>5. ASSUME NEW w \in Walkers, ChangeConnection(w) PROVE TypeOK'
    <2>1. list[w] \in Seq(Entry) /\ ix[w] \in DOMAIN list[w]
      BY <1>5 DEF ChangeConnection, AtEntry, TypeOK
    <2>2. list[w][ix[w]].addr \in Addrs
      BY <2>1, EntryType
    <2>3. LeaveConnection(w, FALSE)
      BY <1>5 DEF ChangeConnection
    <2>4. /\ conn' = [conn EXCEPT ![w] = list[w][ix[w]].addr]
          /\ UNCHANGED <<events, published, pushed, pc, list, ix, stamp>>
      BY <1>5 DEF ChangeConnection
    <2> QED
      BY <2>2, <2>3, <2>4, LeaveType DEF TypeOK
  <1>6. ASSUME NEW w \in Walkers, NoConnection(w) PROVE TypeOK'
    <2>1. list[w] \in Seq(Entry) /\ ix[w] \in DOMAIN list[w]
      BY <1>6 DEF NoConnection, AtEntry, TypeOK
    <2>2. Discarded(list[w], ix[w]) \in Seq(Entry)
      BY <2>1, EntryType DEF Discarded
    <2>3. LeaveConnection(w, TRUE)
      BY <1>6 DEF NoConnection
    <2>4. /\ conn' = [conn EXCEPT ![w] = NoAddr]
          /\ list' = [list EXCEPT ![w] = Discarded(list[w], ix[w])]
          /\ pc' = [pc EXCEPT ![w] = "halted"]
          /\ UNCHANGED <<events, published, pushed, ix, stamp>>
      BY <1>6 DEF NoConnection
    <2> QED
      BY <2>2, <2>3, <2>4, LeaveType DEF TypeOK
  <1>7. ASSUME NEW w \in Walkers, StampEvent(w) PROVE TypeOK'
    BY <1>7 DEF StampEvent, Sequence, TypeOK
  <1>8. ASSUME NEW w \in Walkers, SendEvent(w) PROVE TypeOK'
    <2>1. list[w] \in Seq(Entry) /\ ix[w] \in DOMAIN list[w] /\ list[w][ix[w]].obj # NULL
      BY <1>8 DEF SendEvent, SendingOK, TypeOK
    <2>2. Sent(list[w], ix[w]) \in Seq(Entry)
      BY <2>1, EntryType DEF Sent
    <2> DEFINE msg == [obj |-> list[w][ix[w]].obj, seq |-> stamp[w]]
    <2>3. msg \in Message
      BY <2>1, EntryType DEF Message, TypeOK
    <2>4. PICK kept \in BOOLEAN :
              /\ buffer' = [buffer EXCEPT ![w] = Append(IF kept THEN @ ELSE <<>>, msg)]
              /\ lossy' = (lossy \/ (~kept /\ buffer[w] # <<>>))
      BY <1>8 DEF SendEvent
    <2>5. buffer' \in [Walkers -> Seq(Message)] /\ lossy' \in BOOLEAN
      <3>1. Append(IF kept THEN buffer[w] ELSE <<>>, msg) \in Seq(Message)
        BY <2>3 DEF TypeOK
      <3> QED
        BY <2>4, <3>1 DEF TypeOK
    <2>6. pushed' \in Nat
      BY <1>8 DEF SendEvent, TypeOK
    <2>7. /\ list' = [list EXCEPT ![w] = Sent(list[w], ix[w])]
          /\ ix' = [ix EXCEPT ![w] = ix[w] + 1]
          /\ pc' = [pc EXCEPT ![w] = "walk"]
          /\ UNCHANGED <<events, published, conn, stamp, nodeVars>>
      BY <1>8 DEF SendEvent
    <2> QED
      BY <2>2, <2>5, <2>6, <2>7 DEF TypeOK
  <1>9. ASSUME NEW w \in Walkers, SendFails(w) PROVE TypeOK'
    <2>1. buffer' \in [Walkers -> Seq(Message)] /\ lossy' \in BOOLEAN
      <3>1. CASE UNCHANGED <<buffer, lossy>>
        BY <3>1 DEF TypeOK
      <3>2. CASE /\ buffer' = [buffer EXCEPT ![w] = <<>>]
                 /\ lossy' = (lossy \/ buffer[w] # <<>>)
        BY <3>2 DEF TypeOK
      <3> QED
        BY <1>9, <3>1, <3>2 DEF SendFails
    <2>2. pc' = [pc EXCEPT ![w] = "halted"]
          /\ UNCHANGED <<events, published, pushed, list, ix, conn, stamp, nodeVars>>
      BY <1>9 DEF SendFails
    <2> QED
      BY <2>1, <2>2 DEF TypeOK
  <1>10. ASSUME NEW w \in Walkers, EndWalk(w) PROVE TypeOK'
    <2>1. LeaveConnection(w, FALSE)
      BY <1>10 DEF EndWalk
    <2>2. list' \in [Walkers -> Seq(Entry)]
      BY <1>10 DEF EndWalk, TypeOK
    <2>3. pc' \in [Walkers -> {"idle", "walk", "send", "halted", "failed", "done"}]
      BY <1>10 DEF EndWalk, TypeOK
    <2>4. conn' = [conn EXCEPT ![w] = NoAddr] /\ UNCHANGED <<events, published, pushed, ix, stamp>>
      BY <1>10 DEF EndWalk
    <2> QED
      BY <2>1, <2>2, <2>3, <2>4, LeaveType DEF TypeOK
  <1>11. ASSUME NEW a \in Addrs, LateDelivery(a) PROVE TypeOK'
    <2>1. PICK s \in late[a] :
              /\ delivered' = [delivered EXCEPT ![a] =
                     Append(@, [obj |-> Head(s).obj, seq |-> Head(s).seq, dropped |-> TRUE])]
              /\ late' = [late EXCEPT ![a] =
                     (@ \ {s}) \cup (IF Len(s) > 1 THEN {Tail(s)} ELSE {})]
              /\ UNCHANGED <<events, published, pushed, walkVars, lossy>>
      BY <1>11 DEF LateDelivery
    <2>2. s \in Seq(Message) /\ s # <<>>
      BY DEF TypeOK
    <2>3. Head(s) \in Message /\ (Len(s) > 1 => Tail(s) \in Seq(Message) \ {<<>>})
      BY <2>2, HeadTailProperties, TailType
    <2>4. [obj |-> Head(s).obj, seq |-> Head(s).seq, dropped |-> TRUE] \in Receipt
      BY <2>3 DEF Message, Receipt
    <2>5. delivered' \in [Addrs -> Seq(Receipt)]
      BY <2>1, <2>4 DEF TypeOK
    <2>6. late' \in [Addrs -> SUBSET (Seq(Message) \ {<<>>})]
      BY <2>1, <2>3 DEF TypeOK
    <2> QED
      BY <2>1, <2>5, <2>6 DEF TypeOK
  <1>12. ASSUME NEW a \in Addrs, LateLoss(a) PROVE TypeOK'
    BY <1>12 DEF LateLoss, TypeOK
  <1>13. CASE UNCHANGED vars
    BY <1>13 DEF vars, TypeOK
  <1>14. CASE Take
    BY <1>2, <1>14 DEF Take, Walkers
  <1>15. CASE ExitFlush
    BY <1>2, <1>15 DEF ExitFlush, Walkers
  <1> QED
    BY <1>1, <1>3, <1>4, <1>5, <1>6, <1>7, <1>8, <1>9, <1>10, <1>11, <1>12, <1>13, <1>14, <1>15
       DEF Next, Walk, Terminated

\* A walker stamps only an entry of its list, and its list and index stay as they
\* are until it has sent it: nobody else touches a list that is being walked.
LEMMA NextSendingOK == QInv /\ [Next]_vars => SendingOK'
  <1> SUFFICES ASSUME QInv, [Next]_vars PROVE SendingOK'
    OBVIOUS
  <1> USE DEF QInv, TypeOK, SendingOK, walkVars, Walkers
  <1>1. ASSUME NEW w \in Walkers, StampEvent(w) PROVE SendingOK'
    BY <1>1 DEF StampEvent, AtEntry
  <1>2. CASE UNCHANGED <<pc, ix, list>>
    BY <1>2
  <1>4. ASSUME NEW w \in Walkers, SkipNull(w) PROVE SendingOK'
    BY <1>4 DEF SkipNull, AtEntry
  <1>5. ASSUME NEW w \in Walkers, NoConnection(w) PROVE SendingOK'
    BY <1>5 DEF NoConnection
  <1>6. ASSUME NEW w \in Walkers, SendEvent(w) PROVE SendingOK'
    BY <1>6 DEF SendEvent
  <1>7. ASSUME NEW w \in Walkers, SendFails(w) PROVE SendingOK'
    BY <1>7 DEF SendFails
  <1>8. ASSUME NEW w \in Walkers, EndWalk(w) PROVE SendingOK'
    BY <1>8 DEF EndWalk
  <1>9. ASSUME NEW w \in Walkers, StartWalk(w) PROVE SendingOK'
    BY <1>9 DEF StartWalk
  <1>10. CASE PutBack
    BY <1>10 DEF PutBack
  <1>11. ASSUME NEW w \in Walkers, ChangeConnection(w) PROVE UNCHANGED <<pc, ix, list>>
    BY <1>11 DEF ChangeConnection
  <1>12. ASSUME NEW a \in Addrs, Publish(a) \/ LateDelivery(a) \/ LateLoss(a)
         PROVE  UNCHANGED <<pc, ix, list>>
    BY <1>12 DEF Publish, LateDelivery, LateLoss
  <1>13. CASE UNCHANGED vars
    BY <1>2, <1>13 DEF vars
  <1> QED
    BY <1>1, <1>2, <1>4, <1>5, <1>6, <1>7, <1>8, <1>9, <1>10, <1>11, <1>12, <1>13
       DEF Next, Walk, Take, ExitFlush, Terminated

\* For any nodes, limits, failures and number of events, the queue, the walks over
\* it, the output buffers and what the nodes receive keep their types: a walk
\* never leaves its list and a node never gets a command that was not an event.
THEOREM QueueTyped == Spec => []TypeOK
  <1>1. QInv /\ [Next]_vars => QInv'
    BY NextTypeOK, NextSendingOK DEF QInv
  <1> QED
    BY <1>1, InitQInv, PTL DEF Spec, QInv

-----------------------------------------------------------------------------
(* No event is in two places *)

\* No object occurs twice in a list.
Distinct(s) == \A i, j \in DOMAIN s : s[i].obj = s[j].obj /\ s[i].obj # NULL => i = j

\* Two sets of objects have none in common.
Disjoint(S, T) == \A n \in S : n \notin T

\* The live objects of a list are those of its entries that are not null.
LEMMA LiveMember ==
    ASSUME NEW s, NEW n
    PROVE  n \in Live(s) <=> n # NULL /\ \E i \in DOMAIN s : s[i].obj = n
  BY DEF Live

\* Adding an object that is not in the list.
LEMMA LiveAppend ==
    ASSUME NEW S, NEW s \in Seq(S), NEW e \in S
    PROVE  /\ \A n \in Live(Append(s, e)) : n \in Live(s) \/ n = e.obj
           /\ Distinct(s) /\ e.obj \notin Live(s) => Distinct(Append(s, e))
  <1> DEFINE t == Append(s, e)
  <1>1. /\ DOMAIN s = 1..Len(s) /\ Len(s) \in Nat
        /\ DOMAIN t = 1..(Len(s) + 1)
        /\ \A i \in 1..Len(s) : t[i] = s[i]
        /\ t[Len(s) + 1] = e
    OBVIOUS
  <1> HIDE DEF t
  <1>2. \A n \in Live(t) : n \in Live(s) \/ n = e.obj
    BY <1>1 DEF Live
  <1>3. ASSUME Distinct(s), e.obj \notin Live(s) PROVE Distinct(t)
    BY <1>1, <1>3 DEF Distinct, Live
  <1> QED
    BY <1>2, <1>3 DEF t

\* Putting one list behind another that has none of its objects.
LEMMA LiveConcat ==
    ASSUME NEW S, NEW s \in Seq(S), NEW t \in Seq(S)
    PROVE  /\ \A n \in Live(s \o t) : n \in Live(s) \/ n \in Live(t)
           /\ Distinct(s) /\ Distinct(t) /\ Disjoint(Live(s), Live(t)) => Distinct(s \o t)
  <1> DEFINE u == s \o t
  <1>1. /\ DOMAIN s = 1..Len(s) /\ Len(s) \in Nat /\ DOMAIN t = 1..Len(t) /\ Len(t) \in Nat
        /\ DOMAIN u = 1..(Len(s) + Len(t))
        /\ \A i \in 1..Len(s) : u[i] = s[i]
        /\ \A i \in 1..(Len(s) + Len(t)) : i > Len(s) => u[i] = t[i - Len(s)]
    OBVIOUS
  <1> HIDE DEF u
  <1>2. \A i \in DOMAIN u : \/ i \in DOMAIN s /\ u[i] = s[i]
                            \/ i - Len(s) \in DOMAIN t /\ u[i] = t[i - Len(s)] /\ i \notin DOMAIN s
    BY <1>1
  <1>3. \A n \in Live(u) : n \in Live(s) \/ n \in Live(t)
    BY <1>2 DEF Live
  <1>4. ASSUME Distinct(s), Distinct(t), Disjoint(Live(s), Live(t)) PROVE Distinct(u)
    <2> SUFFICES ASSUME NEW i \in DOMAIN u, NEW j \in DOMAIN u, u[i].obj = u[j].obj, u[i].obj # NULL
                 PROVE  i = j
      BY DEF Distinct
    <2>1. CASE i \in DOMAIN s /\ j \in DOMAIN s
      BY <2>1, <1>1, <1>4 DEF Distinct
    <2>2. CASE i \notin DOMAIN s /\ j \notin DOMAIN s
      <3>1. /\ i - Len(s) \in DOMAIN t /\ u[i] = t[i - Len(s)]
            /\ j - Len(s) \in DOMAIN t /\ u[j] = t[j - Len(s)]
        BY <2>2, <1>2
      <3>2. i - Len(s) = j - Len(s)
        BY <3>1, <1>4 DEF Distinct
      <3> QED
        BY <3>2, <1>1
    <2>3. CASE i \in DOMAIN s /\ j \notin DOMAIN s
      <3>1. u[i].obj \in Live(s) /\ u[j].obj \in Live(t)
        BY <2>3, <1>2, LiveMember
      <3> QED
        BY <3>1, <1>4 DEF Disjoint
    <2>4. CASE i \notin DOMAIN s /\ j \in DOMAIN s
      <3>1. u[j].obj \in Live(s) /\ u[i].obj \in Live(t)
        BY <2>4, <1>2, LiveMember
      <3> QED
        BY <3>1, <1>4 DEF Disjoint
    <2> QED
      BY <2>1, <2>2, <2>3, <2>4
  <1> QED
    BY <1>3, <1>4 DEF u

\* A part of a list.
LEMMA LiveSubSeq ==
    ASSUME NEW S, NEW s \in Seq(S), NEW m \in 1..(Len(s) + 1), NEW n \in 0..Len(s)
    PROVE  /\ \A k \in Live(SubSeq(s, m, n)) : k \in Live(s)
           /\ Distinct(s) => Distinct(SubSeq(s, m, n))
  <1> DEFINE t == SubSeq(s, m, n)
  <1>1. /\ DOMAIN s = 1..Len(s) /\ Len(s) \in Nat
        /\ \A i \in DOMAIN t : i + m - 1 \in DOMAIN s /\ t[i] = s[i + m - 1] /\ i \in Nat
    OBVIOUS
  <1> HIDE DEF t
  <1>2. \A k \in Live(t) : k \in Live(s)
    BY <1>1 DEF Live
  <1>3. ASSUME Distinct(s) PROVE Distinct(t)
    <2> SUFFICES ASSUME NEW i \in DOMAIN t, NEW j \in DOMAIN t, t[i].obj = t[j].obj, t[i].obj # NULL
                 PROVE  i = j
      BY DEF Distinct
    <2>1. i + m - 1 = j + m - 1
      BY <1>1, <1>3 DEF Distinct
    <2> QED
      BY <2>1, <1>1
  <1> QED
    BY <1>2, <1>3 DEF t

\* A list with a null pointer in place of an object does not have the object.
LEMMA LiveNulled ==
    ASSUME NEW s \in Seq(Entry), NEW i \in DOMAIN s
    PROVE  LET t == [s EXCEPT ![i].obj = NULL]
           IN /\ \A n \in Live(t) : n \in Live(s)
              /\ Distinct(s) => Distinct(t) /\ s[i].obj \notin Live(t)
  <1> DEFINE t == [s EXCEPT ![i].obj = NULL]
  <1>1. s[i] \in Entry
    OBVIOUS
  <1>2. /\ DOMAIN t = DOMAIN s
        /\ \A j \in DOMAIN s : j # i => t[j] = s[j]
        /\ t[i].obj = NULL
    BY <1>1 DEF Entry
  <1> HIDE DEF t
  <1>3. \A n \in Live(t) : n \in Live(s)
    BY <1>2 DEF Live
  <1>4. ASSUME Distinct(s) PROVE Distinct(t) /\ s[i].obj \notin Live(t)
    BY <1>2, <1>4 DEF Distinct, Live
  <1> QED
    BY <1>3, <1>4 DEF t

-----------------------------------------------------------------------------
(* The inductive invariant of DeliveredOnce *)

\* What waits to be sent is in one list, once.
WaitingOnce ==
    /\ Distinct(events)
    /\ \A w \in Walkers : Distinct(list[w]) /\ Disjoint(Live(events), Live(list[w]))
    /\ \A v, w \in Walkers : v # w => Disjoint(Live(list[v]), Live(list[w]))

\* What was sent is in one buffer, in one dropped socket or at one node, once.
SentOnce ==
    /\ \A w \in Walkers : Distinct(buffer[w])
    /\ \A v, w \in Walkers : v # w => Disjoint(Live(buffer[v]), Live(buffer[w]))
    /\ \A a \in Addrs : Distinct(delivered[a])
    /\ \A a, b \in Addrs : a # b => Disjoint(Live(delivered[a]), Live(delivered[b]))
    /\ \A w \in Walkers, a \in Addrs : Disjoint(Live(buffer[w]), Live(delivered[a]))
    /\ \A a \in Addrs : \A s \in late[a] :
        /\ Distinct(s)
        /\ \A w \in Walkers : Disjoint(Live(buffer[w]), Live(s))
        /\ \A b \in Addrs : Disjoint(Live(s), Live(delivered[b]))
        /\ \A b \in Addrs : \A t \in late[b] : a # b \/ s # t => Disjoint(Live(s), Live(t))

\* The objects sent: still in an output buffer, received by a node, or in a socket
\* that was given up and may yet be read.
InBuffers == UNION {Live(buffer[w]) : w \in Walkers}
AtNodes == UNION {Live(delivered[a]) : a \in Addrs}
Sockets == UNION {late[a] : a \in Addrs}
InSockets == UNION {Live(s) : s \in Sockets}
Gone == InBuffers \cup AtNodes \cup InSockets

\* What waits has not been sent, and both have been published.
SentAfterWaiting ==
    /\ \A n \in Live(events) : n \in 1..published /\ n \notin Gone
    /\ \A w \in Walkers : \A n \in Live(list[w]) : n \in 1..published /\ n \notin Gone
    /\ \A n \in Gone : n \in 1..published

\* The inductive invariant of NeverDeliveredTwice.
OnceInv == QInv /\ WaitingOnce /\ SentOnce /\ SentAfterWaiting

\* The members of Gone, one place after the other.
GoneMembers ==
    \A n : n \in Gone <=> \/ \E w \in Walkers : n \in Live(buffer[w])
                          \/ \E a \in Addrs : n \in Live(delivered[a])
                          \/ \E a \in Addrs : \E s \in late[a] : n \in Live(s)

\* Gone is exactly what is in a buffer, at a node or in a dropped socket, before a
\* step ...
LEMMA GoneMember == GoneMembers
  <1>1. \A n : n \in InBuffers <=> \E w \in Walkers : n \in Live(buffer[w])
    BY DEF InBuffers
  <1>2. \A n : n \in AtNodes <=> \E a \in Addrs : n \in Live(delivered[a])
    BY DEF AtNodes
  <1>3. \A s : s \in Sockets <=> \E a \in Addrs : s \in late[a]
    BY DEF Sockets
  <1>4. \A n : n \in InSockets <=> \E s \in Sockets : n \in Live(s)
    BY DEF InSockets
  <1>5. \A n : n \in Gone <=> n \in InBuffers \/ n \in AtNodes \/ n \in InSockets
    BY DEF Gone
  <1> QED
    BY <1>1, <1>2, <1>3, <1>4, <1>5 DEF GoneMembers

\* ... and after it.
LEMMA GoneMemberNext == GoneMembers'
  BY GoneMember, PTL

\* An empty list has no objects.
LEMMA LiveEmpty == Live(<<>>) = {} /\ Distinct(<<>>)
  BY DEF Live, Distinct

\* Losing what is in a buffer.
LEMMA BufferDropped ==
    ASSUME TypeOK, SentOnce, NEW w \in Walkers,
           buffer' = [buffer EXCEPT ![w] = <<>>], UNCHANGED nodeVars
    PROVE  SentOnce' /\ \A n \in Gone' : n \in Gone
  <1>1. /\ Live(buffer'[w]) = {} /\ Distinct(buffer'[w])
        /\ \A v \in Walkers : v # w => buffer'[v] = buffer[v]
        /\ late' = late /\ delivered' = delivered
    BY LiveEmpty DEF TypeOK, nodeVars
  <1>2. SentOnce'
    BY <1>1 DEF SentOnce, Disjoint
  <1>3. \A n \in Gone' : n \in Gone
    BY <1>1, GoneMember, GoneMemberNext DEF GoneMembers
  <1> QED
    BY <1>2, <1>3

\* What a node reads of a buffer, and what it may yet read, have nothing in common
\* and are part of the buffer.
LEMMA BufferSplit ==
    ASSUME NEW b \in Seq(Message), Distinct(b), NEW n \in 0..Len(b), NEW m \in 0..Len(b), n < m,
           NEW read, read = [i \in 1..n |-> [obj |-> b[i].obj, seq |-> b[i].seq, dropped |-> FALSE]]
    PROVE  Disjoint(Live(SubSeq(b, n + 1, m)), Live(read))
  <1> DEFINE t == SubSeq(b, n + 1, m)
  <1>1. /\ \A i \in DOMAIN t : i + n \in DOMAIN b /\ i + n > n /\ t[i] = b[i + n]
        /\ DOMAIN read = 1..n
        /\ \A i \in 1..n : i \in DOMAIN b /\ read[i].obj = b[i].obj
    OBVIOUS
  <1> HIDE DEF t
  <1> SUFFICES ASSUME NEW k \in Live(t), k \in Live(read) PROVE FALSE
    BY DEF Disjoint, t
  <1>2. PICK i \in DOMAIN t : t[i].obj = k /\ k # NULL
    BY LiveMember
  <1>3. PICK j \in DOMAIN read : read[j].obj = k
    BY LiveMember
  <1>4. i + n \in DOMAIN b /\ j \in DOMAIN b /\ b[i + n].obj = b[j].obj /\ b[j].obj # NULL /\ i + n # j
    BY <1>1, <1>2, <1>3
  <1> QED
    BY <1>4 DEF Distinct

\* What a node reads of a buffer has objects of the buffer only, each once.
LEMMA ReadOfBuffer ==
    ASSUME NEW b \in Seq(Message), Distinct(b), NEW n \in 0..Len(b),
           NEW read, read = [i \in 1..n |-> [obj |-> b[i].obj, seq |-> b[i].seq, dropped |-> FALSE]]
    PROVE  /\ read \in Seq(Receipt)
           /\ Distinct(read)
           /\ \A k \in Live(read) : k \in Live(b)
  <1>1. /\ DOMAIN read = 1..n
        /\ \A i \in 1..n : i \in DOMAIN b /\ b[i] \in Message /\ read[i].obj = b[i].obj
    OBVIOUS
  <1>2. read \in Seq(Receipt)
    <2>1. \A i \in 1..n : read[i] \in Receipt
      BY <1>1 DEF Message, Receipt
    <2> QED
      BY <2>1
  <1>3. Distinct(read)
    BY <1>1 DEF Distinct
  <1>4. \A k \in Live(read) : k \in Live(b)
    BY <1>1 DEF Live
  <1> QED
    BY <1>2, <1>3, <1>4

\* Leaving a connection moves what is in its buffer to the node and to the socket
\* that is given up, and nothing else.
LEMMA LeaveSent ==
    ASSUME TypeOK, SentOnce, NEW w \in Walkers, NEW thrown \in BOOLEAN, LeaveConnection(w, thrown)
    PROVE  SentOnce' /\ \A k \in Gone' : k \in Gone
  <1>1. CASE conn[w] = NoAddr
    BY <1>1, BufferDropped DEF LeaveConnection
  <1>2. CASE conn[w] # NoAddr
    <2> DEFINE a == conn[w]
               b == buffer[w]
    <2>1. a \in Addrs /\ b \in Seq(Message) /\ Distinct(b)
      BY <1>2 DEF TypeOK, SentOnce
    <2>2. PICK n \in 0..Len(b), m \in 0..Len(b) :
              /\ n <= m
              /\ delivered' = [delivered EXCEPT ![a] =
                     @ \o [i \in 1..n |-> [obj     |-> b[i].obj,
                                           seq     |-> b[i].seq,
                                           dropped |-> FALSE]]]
              /\ late' = [late EXCEPT ![a] = IF n < m THEN @ \cup {SubSeq(b, n + 1, m)} ELSE @]
      BY <1>2 DEF LeaveConnection, GiveUpSocket
    <2> DEFINE read == [i \in 1..n |-> [obj |-> b[i].obj, seq |-> b[i].seq, dropped |-> FALSE]]
               rest == SubSeq(b, n + 1, m)
    <2>3. read \in Seq(Receipt) /\ Distinct(read) /\ \A k \in Live(read) : k \in Live(b)
      BY <2>1, ReadOfBuffer
    <2>4. n < m => Disjoint(Live(rest), Live(read)) /\ Distinct(rest) /\ \A k \in Live(rest) : k \in Live(b)
      <3> SUFFICES ASSUME n < m
                   PROVE  Disjoint(Live(rest), Live(read)) /\ Distinct(rest) /\ \A k \in Live(rest) : k \in Live(b)
        OBVIOUS
      <3>1. Disjoint(Live(rest), Live(read))
        BY <2>1, BufferSplit
      <3>2. n + 1 \in 1..(Len(b) + 1)
        BY <2>1
      <3> QED
        BY <2>1, <3>1, <3>2, LiveSubSeq
    <2>5. delivered'[a] = delivered[a] \o read /\ delivered[a] \in Seq(Receipt)
      BY <2>1, <2>2 DEF TypeOK
    <2>6. Disjoint(Live(delivered[a]), Live(read))
      BY <2>1, <2>3 DEF SentOnce, Disjoint
    <2>7. /\ Distinct(delivered'[a])
          /\ \A k \in Live(delivered'[a]) : k \in Live(delivered[a]) \/ k \in Live(read)
      <3>1. Distinct(delivered[a])
        BY <2>1 DEF SentOnce
      <3> QED
        BY <2>3, <2>5, <2>6, <3>1, LiveConcat
    <2>8. \A c \in Addrs : c # a => delivered'[c] = delivered[c] /\ late'[c] = late[c]
      BY <2>2 DEF TypeOK
    <2>9. \A s \in late'[a] : s \in late[a] \/ (n < m /\ s = rest)
      BY <2>1, <2>2 DEF TypeOK
    <2>10. /\ Live(buffer'[w]) = {} /\ Distinct(buffer'[w])
           /\ \A v \in Walkers : v # w => buffer'[v] = buffer[v]
      BY LiveEmpty DEF TypeOK, LeaveConnection
    <2> HIDE DEF a, b, read, rest
    <2>11. b = buffer[w] /\ a \in Addrs
      BY <2>1 DEF b
    <2> USE DEF Disjoint
    <2>12. \A v \in Walkers : Distinct(buffer'[v])
      BY <2>10 DEF SentOnce
    <2>13. \A u, v \in Walkers : u # v => Disjoint(Live(buffer'[u]), Live(buffer'[v]))
      BY <2>10 DEF SentOnce
    <2>14. \A c \in Addrs : Distinct(delivered'[c])
      BY <2>7, <2>8 DEF SentOnce
    <2>15. \A c, d \in Addrs : c # d => Disjoint(Live(delivered'[c]), Live(delivered'[d]))
      BY <2>3, <2>7, <2>8, <2>11 DEF SentOnce
    <2>16. \A v \in Walkers, c \in Addrs : Disjoint(Live(buffer'[v]), Live(delivered'[c]))
      BY <2>3, <2>7, <2>8, <2>10, <2>11 DEF SentOnce
    <2>17. ASSUME NEW c \in Addrs, NEW s \in late'[c]
           PROVE  /\ Distinct(s)
                  /\ \A v \in Walkers : Disjoint(Live(buffer'[v]), Live(s))
                  /\ \A d \in Addrs : Disjoint(Live(s), Live(delivered'[d]))
                  /\ \A d \in Addrs : \A t \in late'[d] : c # d \/ s # t => Disjoint(Live(s), Live(t))
      <3>1. s \in late[c] \/ (c = a /\ n < m /\ s = rest)
        BY <2>8, <2>9
      <3>2. CASE s \in late[c]
        <4>1. Distinct(s) /\ \A v \in Walkers : Disjoint(Live(buffer'[v]), Live(s))
          BY <3>2, <2>10 DEF SentOnce
        <4>2. \A d \in Addrs : Disjoint(Live(s), Live(delivered'[d]))
          BY <3>2, <2>3, <2>7, <2>8, <2>11 DEF SentOnce
        <4>3. \A d \in Addrs : \A t \in late'[d] : c # d \/ s # t => Disjoint(Live(s), Live(t))
          BY <3>2, <2>4, <2>8, <2>9, <2>11 DEF SentOnce
        <4> QED
          BY <4>1, <4>2, <4>3
      <3>3. CASE c = a /\ n < m /\ s = rest
        <4>1. Distinct(s) /\ \A v \in Walkers : Disjoint(Live(buffer'[v]), Live(s))
          BY <3>3, <2>4, <2>10, <2>11 DEF SentOnce
        <4>2. \A d \in Addrs : Disjoint(Live(s), Live(delivered'[d]))
          BY <3>3, <2>4, <2>7, <2>8, <2>11 DEF SentOnce
        <4>3. \A d \in Addrs : \A t \in late'[d] : c # d \/ s # t => Disjoint(Live(s), Live(t))
          BY <3>3, <2>4, <2>8, <2>9, <2>11 DEF SentOnce
        <4> QED
          BY <4>1, <4>2, <4>3
      <3> QED
        BY <3>1, <3>2, <3>3
    <2>18. SentOnce'
      BY <2>12, <2>13, <2>14, <2>15, <2>16, <2>17 DEF SentOnce
    <2>19. ASSUME NEW k \in Gone' PROVE k \in Gone
      <3>1. \/ \E v \in Walkers : k \in Live(buffer'[v])
            \/ \E c \in Addrs : k \in Live(delivered'[c])
            \/ \E c \in Addrs : \E s \in late'[c] : k \in Live(s)
        BY GoneMemberNext DEF GoneMembers
      <3>2. k \in Live(b) => k \in Gone
        BY <2>11, GoneMember DEF GoneMembers
      <3>3. CASE \E v \in Walkers : k \in Live(buffer'[v])
        BY <3>3, <2>10, GoneMember DEF GoneMembers
      <3>4. CASE \E c \in Addrs : k \in Live(delivered'[c])
        BY <3>4, <3>2, <2>3, <2>7, <2>8, GoneMember DEF GoneMembers
      <3>5. CASE \E c \in Addrs : \E s \in late'[c] : k \in Live(s)
        BY <3>5, <3>2, <2>4, <2>8, <2>9, GoneMember DEF GoneMembers
      <3> QED
        BY <3>1, <3>3, <3>4, <3>5
    <2> QED
      BY <2>18, <2>19
  <1> QED
    BY <1>1, <1>2

\* A node reads a command from a dropped socket.
LEMMA LateSent ==
    ASSUME TypeOK, SentOnce, NEW a \in Addrs, LateDelivery(a)
    PROVE  SentOnce' /\ \A k \in Gone' : k \in Gone
  <1>1. PICK s \in late[a] :
            /\ delivered' = [delivered EXCEPT ![a] =
                   Append(@, [obj |-> Head(s).obj, seq |-> Head(s).seq, dropped |-> TRUE])]
            /\ late' = [late EXCEPT ![a] =
                   (@ \ {s}) \cup (IF Len(s) > 1 THEN {Tail(s)} ELSE {})]
            /\ buffer' = buffer
    BY DEF LateDelivery, walkVars
  <1> DEFINE e == [obj |-> Head(s).obj, seq |-> Head(s).seq, dropped |-> TRUE]
             rest == Tail(s)
  <1>2. s \in Seq(Message) /\ s # <<>> /\ Distinct(s)
    BY DEF TypeOK, SentOnce
  <1>3. e \in Receipt /\ e.obj \in Live(s)
    <2>1. s[1] \in Message /\ Head(s) = s[1] /\ 1 \in DOMAIN s
      BY <1>2
    <2>2. e \in Receipt /\ e.obj = s[1].obj /\ s[1].obj # NULL
      BY <2>1 DEF Message, Receipt
    <2> QED
      BY <2>1, <2>2, LiveMember
  <1>4. Len(s) > 1 => Distinct(rest) /\ e.obj \notin Live(rest) /\ \A k \in Live(rest) : k \in Live(s)
    <2> SUFFICES ASSUME Len(s) > 1
                 PROVE  Distinct(rest) /\ e.obj \notin Live(rest) /\ \A k \in Live(rest) : k \in Live(s)
      OBVIOUS
    <2>1. rest = SubSeq(s, 2, Len(s)) /\ 2 \in 1..(Len(s) + 1) /\ Len(s) \in 0..Len(s)
      BY <1>2
    <2>2. Distinct(rest) /\ \A k \in Live(rest) : k \in Live(s)
      BY <1>2, <2>1, LiveSubSeq
    <2>3. \A i \in DOMAIN rest : i + 1 \in DOMAIN s /\ rest[i] = s[i + 1] /\ i + 1 # 1
      BY <1>2
    <2>4. e.obj = s[1].obj /\ 1 \in DOMAIN s /\ e.obj # NULL
      BY <1>2, <1>3, LiveMember
    <2> HIDE DEF rest, e
    <2>5. e.obj \notin Live(rest)
      BY <1>2, <2>3, <2>4 DEF Distinct, Live
    <2> QED
      BY <2>2, <2>5
  <1>5. \A c \in Addrs : c # a => delivered'[c] = delivered[c] /\ late'[c] = late[c]
    BY <1>1 DEF TypeOK
  <1>6. \A t \in late'[a] : (t \in late[a] /\ t # s) \/ (Len(s) > 1 /\ t = rest)
    BY <1>1 DEF TypeOK
  <1>7. delivered[a] \in Seq(Receipt) /\ delivered'[a] = Append(delivered[a], e)
    BY <1>1 DEF TypeOK
  <1> HIDE DEF e, rest
  <1>8. /\ Distinct(delivered'[a])
        /\ \A k \in Live(delivered'[a]) : k \in Live(delivered[a]) \/ k = e.obj
    <2>1. Distinct(delivered[a]) /\ e.obj \notin Live(delivered[a])
      BY <1>3 DEF SentOnce, Disjoint
    <2> QED
      BY <2>1, <1>3, <1>7, LiveAppend
  <1> USE DEF Disjoint
  <1>9. /\ \A w \in Walkers : Distinct(buffer'[w])
        /\ \A v, w \in Walkers : v # w => Disjoint(Live(buffer'[v]), Live(buffer'[w]))
    BY <1>1 DEF SentOnce
  <1>10. \A c \in Addrs : Distinct(delivered'[c])
    BY <1>5, <1>8 DEF SentOnce
  <1>11. \A c, d \in Addrs : c # d => Disjoint(Live(delivered'[c]), Live(delivered'[d]))
    BY <1>3, <1>5, <1>8 DEF SentOnce
  <1>12. \A w \in Walkers, c \in Addrs : Disjoint(Live(buffer'[w]), Live(delivered'[c]))
    <2>1. \A w \in Walkers : e.obj \notin Live(buffer[w])
      BY <1>3 DEF SentOnce
    <2>2. \A w \in Walkers, c \in Addrs : Disjoint(Live(buffer[w]), Live(delivered[c]))
      BY DEF SentOnce
    <2> QED
      BY <2>1, <2>2, <1>1, <1>5, <1>8
  <1>13. ASSUME NEW c \in Addrs, NEW t \in late'[c]
         PROVE  /\ Distinct(t)
                /\ \A w \in Walkers : Disjoint(Live(buffer'[w]), Live(t))
                /\ \A d \in Addrs : Disjoint(Live(t), Live(delivered'[d]))
                /\ \A d \in Addrs : \A u \in late'[d] : c # d \/ t # u => Disjoint(Live(t), Live(u))
    <2>1. \/ t \in late[c] /\ (c # a \/ t # s)
          \/ c = a /\ Len(s) > 1 /\ t = rest
      BY <1>5, <1>6
    <2>2. CASE t \in late[c] /\ (c # a \/ t # s)
      <3>1. Distinct(t) /\ \A w \in Walkers : Disjoint(Live(buffer'[w]), Live(t))
        BY <2>2, <1>1 DEF SentOnce
      <3>2. \A d \in Addrs : Disjoint(Live(t), Live(delivered'[d]))
        BY <2>2, <1>3, <1>5, <1>8 DEF SentOnce
      <3>3. \A d \in Addrs : \A u \in late'[d] : c # d \/ t # u => Disjoint(Live(t), Live(u))
        BY <2>2, <1>4, <1>5, <1>6 DEF SentOnce
      <3> QED
        BY <3>1, <3>2, <3>3
    <2>3. CASE c = a /\ Len(s) > 1 /\ t = rest
      <3>1. Distinct(t) /\ \A w \in Walkers : Disjoint(Live(buffer'[w]), Live(t))
        BY <2>3, <1>1, <1>4 DEF SentOnce
      <3>2. \A d \in Addrs : Disjoint(Live(t), Live(delivered'[d]))
        BY <2>3, <1>4, <1>5, <1>8 DEF SentOnce
      <3>3. \A d \in Addrs : \A u \in late'[d] : c # d \/ t # u => Disjoint(Live(t), Live(u))
        BY <2>3, <1>4, <1>5, <1>6 DEF SentOnce
      <3> QED
        BY <3>1, <3>2, <3>3
    <2> QED
      BY <2>1, <2>2, <2>3
  <1>14. SentOnce'
    BY <1>9, <1>10, <1>11, <1>12, <1>13 DEF SentOnce
  <1>15. ASSUME NEW k \in Gone' PROVE k \in Gone
    <2>1. \/ \E w \in Walkers : k \in Live(buffer'[w])
          \/ \E c \in Addrs : k \in Live(delivered'[c])
          \/ \E c \in Addrs : \E t \in late'[c] : k \in Live(t)
      BY GoneMemberNext DEF GoneMembers
    <2>2. k \in Live(s) => k \in Gone
      BY GoneMember DEF GoneMembers
    <2>3. CASE \E w \in Walkers : k \in Live(buffer'[w])
      BY <2>3, <1>1, GoneMember DEF GoneMembers
    <2>4. CASE \E c \in Addrs : k \in Live(delivered'[c])
      BY <2>2, <2>4, <1>3, <1>5, <1>8, GoneMember DEF GoneMembers
    <2>5. CASE \E c \in Addrs : \E t \in late'[c] : k \in Live(t)
      BY <2>2, <2>5, <1>4, <1>5, <1>6, GoneMember DEF GoneMembers
    <2> QED
      BY <2>1, <2>3, <2>4, <2>5
  <1> QED
    BY <1>14, <1>15

\* A dropped socket is reset.
LEMMA LossSent ==
    ASSUME TypeOK, SentOnce, NEW a \in Addrs, LateLoss(a)
    PROVE  SentOnce' /\ \A k \in Gone' : k \in Gone
  <1>1. /\ buffer' = buffer /\ delivered' = delivered
        /\ \A c \in Addrs : \A s \in late'[c] : s \in late[c]
    BY DEF LateLoss, walkVars, TypeOK
  <1>2. SentOnce'
    BY <1>1 DEF SentOnce
  <1>3. \A k \in Gone' : k \in Gone
    BY <1>1, GoneMember, GoneMemberNext DEF GoneMembers
  <1> QED
    BY <1>2, <1>3

\* An event that is nowhere yet is appended to a buffer, behind what was in it or
\* after a reconnect that threw that away.
LEMMA AppendSent ==
    ASSUME TypeOK, SentOnce, NEW w \in Walkers, NEW msg \in Message, NEW old \in Seq(Message),
           old = buffer[w] \/ old = <<>>, msg.obj \notin Gone,
           buffer' = [buffer EXCEPT ![w] = Append(old, msg)], UNCHANGED nodeVars
    PROVE  SentOnce' /\ \A k \in Gone' : k \in Gone \/ k = msg.obj
  <1>1. /\ buffer'[w] = Append(old, msg)
        /\ \A v \in Walkers : v # w => buffer'[v] = buffer[v]
        /\ late' = late /\ delivered' = delivered
    BY DEF TypeOK, nodeVars
  <1>2. /\ Distinct(old) /\ \A k \in Live(old) : k \in Live(buffer[w])
        /\ msg.obj \notin Live(old)
    BY LiveEmpty, GoneMember DEF SentOnce, GoneMembers
  <1>3. /\ Distinct(buffer'[w])
        /\ \A k \in Live(buffer'[w]) : k \in Live(buffer[w]) \/ k = msg.obj
    BY <1>1, <1>2, LiveAppend
  <1>4. /\ \A v \in Walkers : msg.obj \notin Live(buffer[v])
        /\ \A a \in Addrs : msg.obj \notin Live(delivered[a])
        /\ \A a \in Addrs : \A s \in late[a] : msg.obj \notin Live(s)
    BY GoneMember DEF GoneMembers
  <1>5. SentOnce'
    <2> USE DEF Disjoint
    <2>1. \A v \in Walkers : Distinct(buffer'[v])
      BY <1>1, <1>3 DEF SentOnce
    <2>2. \A u, v \in Walkers : u # v => Disjoint(Live(buffer'[u]), Live(buffer'[v]))
      <3>1. \A u, v \in Walkers : u # v => Disjoint(Live(buffer[u]), Live(buffer[v]))
        BY DEF SentOnce
      <3> QED
        BY <1>1, <1>3, <1>4, <3>1
    <2>3. \A v \in Walkers, a \in Addrs : Disjoint(Live(buffer'[v]), Live(delivered'[a]))
      <3>1. \A v \in Walkers, a \in Addrs : Disjoint(Live(buffer[v]), Live(delivered[a]))
        BY DEF SentOnce
      <3> QED
        BY <1>1, <1>3, <1>4, <3>1
    <2>4. \A a \in Addrs : \A s \in late'[a] : \A v \in Walkers : Disjoint(Live(buffer'[v]), Live(s))
      <3>1. \A a \in Addrs : \A s \in late[a] : \A v \in Walkers : Disjoint(Live(buffer[v]), Live(s))
        BY DEF SentOnce
      <3> QED
        BY <1>1, <1>3, <1>4, <3>1
    <2> QED
      BY <1>1, <2>1, <2>2, <2>3, <2>4 DEF SentOnce
  <1>6. \A k \in Gone' : k \in Gone \/ k = msg.obj
    BY <1>1, <1>3, GoneMember, GoneMemberNext DEF GoneMembers
  <1> QED
    BY <1>5, <1>6

\* Trimming a list only takes objects from it.
LEMMA LimitLive ==
    ASSUME NEW lst \in Seq(Entry), Distinct(lst), NEW limit \in Nat
    PROVE  Distinct(Limit(lst, limit)) /\ \A n \in Live(Limit(lst, limit)) : n \in Live(lst)
  <1>1. CASE Len(lst) > limit
    <2>1. 1 \in 1..(Len(lst) + 1) /\ Len(lst) - limit \in 0..Len(lst)
      BY <1>1
    <2> QED
      BY <1>1, <2>1, LiveSubSeq DEF Limit
  <1>2. CASE ~(Len(lst) > limit)
    BY <1>2 DEF Limit
  <1> QED
    BY <1>1, <1>2

\* Steps that only take objects from the lists and send nothing new.
LEMMA OnlyTakes ==
    ASSUME WaitingOnce, SentAfterWaiting, events' = events, published' = published,
           \A w \in Walkers : Distinct(list'[w]) /\ \A n \in Live(list'[w]) : n \in Live(list[w]),
           \A n \in Gone' : n \in Gone
    PROVE  WaitingOnce' /\ SentAfterWaiting'
  <1>1. WaitingOnce'
    BY DEF WaitingOnce, Disjoint
  <1>2. SentAfterWaiting'
    BY DEF SentAfterWaiting
  <1> QED
    BY <1>1, <1>2

\* Every step keeps every event in one place.
LEMMA NextOnce == OnceInv /\ [Next]_vars => WaitingOnce' /\ SentOnce' /\ SentAfterWaiting'
  <1> SUFFICES ASSUME OnceInv, [Next]_vars PROVE WaitingOnce' /\ SentOnce' /\ SentAfterWaiting'
    OBVIOUS
  <1>0. TypeOK /\ SendingOK /\ WaitingOnce /\ SentOnce /\ SentAfterWaiting
    BY DEF OnceInv, QInv
  <1>1. ASSUME UNCHANGED <<buffer, nodeVars>> PROVE SentOnce' /\ Gone' = Gone
    <2>1. SentOnce'
      BY <1>0, <1>1 DEF SentOnce, nodeVars
    <2>2. Gone' = Gone
      BY <1>1 DEF Gone, InBuffers, AtNodes, InSockets, Sockets, nodeVars
    <2> QED
      BY <2>1, <2>2
  <1>2. ASSUME NEW a \in Addrs, Publish(a) PROVE WaitingOnce' /\ SentOnce' /\ SentAfterWaiting'
    <2> DEFINE e == [addr |-> a, obj |-> published + 1]
    <2>1. e \in Entry /\ events \in Seq(Entry) /\ published \in Nat /\ e.obj = published + 1
      BY <1>0 DEF TypeOK, Entry
    <2>2. /\ events' = Append(events, e) /\ published' = published + 1
          /\ list' = list /\ UNCHANGED <<buffer, nodeVars>>
      BY <1>2 DEF Publish, walkVars
    <2> HIDE DEF e
    <2>3. SentOnce' /\ Gone' = Gone
      BY <1>1, <2>2
    <2>4. /\ e.obj \notin Live(events) /\ e.obj \notin Gone
          /\ \A w \in Walkers : e.obj \notin Live(list[w])
      <3>1. e.obj \notin 1..published
        BY <2>1
      <3> QED
        BY <3>1, <1>0 DEF SentAfterWaiting
    <2>5. Distinct(events') /\ \A n \in Live(events') : n \in Live(events) \/ n = e.obj
      BY <1>0, <2>1, <2>2, <2>4, LiveAppend DEF WaitingOnce
    <2>6. WaitingOnce'
      BY <1>0, <2>2, <2>4, <2>5 DEF WaitingOnce, Disjoint
    <2>7. 1..published \subseteq 1..(published + 1) /\ e.obj \in 1..(published + 1)
      BY <2>1
    <2>8. SentAfterWaiting'
      BY <1>0, <2>2, <2>3, <2>4, <2>5, <2>7 DEF SentAfterWaiting
    <2> QED
      BY <2>3, <2>6, <2>8
  <1>3. ASSUME NEW w \in Walkers, StartWalk(w) PROVE WaitingOnce' /\ SentOnce' /\ SentAfterWaiting'
    <2>1. /\ events' = <<>> /\ published' = published /\ UNCHANGED <<buffer, nodeVars>>
          /\ list'[w] = events /\ \A v \in Walkers : v # w => list'[v] = list[v]
      BY <1>0, <1>3 DEF StartWalk, TypeOK
    <2>2. SentOnce' /\ Gone' = Gone
      BY <1>1, <2>1
    <2>3. WaitingOnce'
      BY <1>0, <2>1, LiveEmpty DEF WaitingOnce, Disjoint
    <2>4. SentAfterWaiting'
      BY <1>0, <2>1, <2>2, LiveEmpty DEF SentAfterWaiting
    <2> QED
      BY <2>2, <2>3, <2>4
  <1>4. CASE PutBack
    <2> DEFINE over == Len(events) > Redline
               kept == IF over THEN Limit(list["push"], MaxInflight) ELSE list["push"]
               rest == IF over THEN LimitRest(events, Len(kept)) ELSE events
    <2>1. /\ "push" \in Walkers /\ list["push"] \in Seq(Entry) /\ events \in Seq(Entry)
          /\ Distinct(list["push"]) /\ Distinct(events)
      BY <1>0 DEF TypeOK, Walkers, WaitingOnce
    <2>2. kept \in Seq(Entry) /\ Distinct(kept) /\ \A n \in Live(kept) : n \in Live(list["push"])
      BY <2>1, EventQueueAssumption, LimitType, LimitLive
    <2>3. rest \in Seq(Entry) /\ Distinct(rest) /\ \A n \in Live(rest) : n \in Live(events)
      <3>1. Len(kept) \in Nat
        BY <2>2
      <3> HIDE DEF kept
      <3>2. CASE over /\ ~(Len(kept) > MaxInflight)
        <4>1. MaxInflight - Len(kept) \in Nat
          BY <3>1, <3>2, EventQueueAssumption
        <4> QED
          BY <2>1, <3>2, <4>1, LimitType, LimitLive DEF LimitRest
      <3>3. CASE ~over \/ Len(kept) > MaxInflight
        BY <2>1, <3>3 DEF LimitRest
      <3> QED
        BY <3>2, <3>3
    <2>4. /\ events' = kept \o rest /\ published' = published /\ UNCHANGED <<buffer, nodeVars>>
          /\ list' = [list EXCEPT !["push"] = <<>>]
      BY <1>4 DEF PutBack, Requeued
    <2>5. list'["push"] = <<>> /\ \A v \in Walkers : v # "push" => list'[v] = list[v]
      BY <1>0, <2>1, <2>4 DEF TypeOK
    <2> HIDE DEF over, kept, rest
    <2>6. Disjoint(Live(kept), Live(rest))
      BY <1>0, <2>1, <2>2, <2>3 DEF WaitingOnce, Disjoint
    <2>7. /\ Distinct(events')
          /\ \A n \in Live(events') : n \in Live(list["push"]) \/ n \in Live(events)
      BY <2>2, <2>3, <2>4, <2>6, LiveConcat
    <2>8. SentOnce' /\ Gone' = Gone
      BY <1>1, <2>4
    <2>9. WaitingOnce'
      <3>1. \A v \in Walkers : Distinct(list'[v])
        BY <1>0, <2>5, LiveEmpty DEF WaitingOnce
      <3>2. \A v \in Walkers : Disjoint(Live(events'), Live(list'[v]))
        BY <1>0, <2>1, <2>5, <2>7, LiveEmpty DEF WaitingOnce, Disjoint
      <3>3. \A u, v \in Walkers : u # v => Disjoint(Live(list'[u]), Live(list'[v]))
        BY <1>0, <2>5, LiveEmpty DEF WaitingOnce, Disjoint
      <3> QED
        BY <2>7, <3>1, <3>2, <3>3 DEF WaitingOnce
    <2>10. SentAfterWaiting'
      BY <1>0, <2>1, <2>4, <2>5, <2>7, <2>8, LiveEmpty DEF SentAfterWaiting
    <2> QED
      BY <2>8, <2>9, <2>10
  <1>5. ASSUME NEW w \in Walkers, SendEvent(w) PROVE WaitingOnce' /\ SentOnce' /\ SentAfterWaiting'
    <2> DEFINE msg == [obj |-> list[w][ix[w]].obj, seq |-> stamp[w]]
    <2>1. list[w] \in Seq(Entry) /\ ix[w] \in DOMAIN list[w] /\ list[w][ix[w]].obj # NULL /\ Distinct(list[w])
      BY <1>0, <1>5 DEF SendEvent, SendingOK, TypeOK, WaitingOnce
    <2>2. msg \in Message /\ msg.obj = list[w][ix[w]].obj /\ msg.obj \in Live(list[w])
      <3>1. msg \in Message /\ msg.obj = list[w][ix[w]].obj
        BY <1>0, <2>1, EntryType DEF Message, TypeOK
      <3> QED
        BY <2>1, <3>1, LiveMember
    <2>3. PICK kept \in BOOLEAN : buffer' = [buffer EXCEPT ![w] = Append(IF kept THEN @ ELSE <<>>, msg)]
      BY <1>5 DEF SendEvent
    <2>4. /\ list'[w] = [list[w] EXCEPT ![ix[w]].obj = NULL]
          /\ \A v \in Walkers : v # w => list'[v] = list[v]
          /\ events' = events /\ published' = published /\ UNCHANGED nodeVars
      BY <1>0, <1>5 DEF SendEvent, Sent, TypeOK
    <2>5. msg.obj \notin Gone /\ msg.obj \in 1..published
      BY <1>0, <2>2 DEF SentAfterWaiting
    <2> DEFINE old == IF kept THEN buffer[w] ELSE <<>>
    <2>6. old \in Seq(Message) /\ (old = buffer[w] \/ old = <<>>) /\ buffer' = [buffer EXCEPT ![w] = Append(old, msg)]
      BY <1>0, <2>3 DEF TypeOK
    <2> HIDE DEF old, msg
    <2>7. SentOnce' /\ \A k \in Gone' : k \in Gone \/ k = msg.obj
      BY <1>0, <2>2, <2>4, <2>5, <2>6, AppendSent
    <2>8. /\ Distinct(list'[w]) /\ msg.obj \notin Live(list'[w])
          /\ \A n \in Live(list'[w]) : n \in Live(list[w])
      BY <2>1, <2>2, <2>4, LiveNulled
    <2>9. /\ msg.obj \notin Live(events)
          /\ \A v \in Walkers : v # w => msg.obj \notin Live(list[v])
      BY <1>0, <2>2 DEF WaitingOnce, Disjoint
    <2>10. WaitingOnce'
      BY <1>0, <2>4, <2>8 DEF WaitingOnce, Disjoint
    <2>11. SentAfterWaiting'
      <3>1. \A n \in Live(events') : n \in 1..published' /\ n \notin Gone'
        BY <1>0, <2>4, <2>7, <2>9 DEF SentAfterWaiting
      <3>2. \A v \in Walkers : \A n \in Live(list'[v]) : n \in 1..published' /\ n \notin Gone'
        BY <1>0, <2>4, <2>7, <2>8, <2>9 DEF SentAfterWaiting
      <3>3. \A n \in Gone' : n \in 1..published'
        BY <1>0, <2>4, <2>5, <2>7 DEF SentAfterWaiting
      <3> QED
        BY <3>1, <3>2, <3>3 DEF SentAfterWaiting
    <2> QED
      BY <2>7, <2>10, <2>11
  <1>6. ASSUME events' = events, published' = published, SentOnce', \A n \in Gone' : n \in Gone,
               list' = list
        PROVE  WaitingOnce' /\ SentOnce' /\ SentAfterWaiting'
    <2>1. \A w \in Walkers : Distinct(list'[w]) /\ \A n \in Live(list'[w]) : n \in Live(list[w])
      BY <1>0, <1>6 DEF WaitingOnce
    <2> QED
      BY <1>0, <1>6, <2>1, OnlyTakes
  <1>7. ASSUME NEW w \in Walkers, SkipNull(w) \/ StampEvent(w)
        PROVE  WaitingOnce' /\ SentOnce' /\ SentAfterWaiting'
    <2>1. UNCHANGED <<events, published, list, buffer, nodeVars>>
      BY <1>7 DEF SkipNull, StampEvent
    <2> QED
      BY <1>1, <1>6, <2>1
  <1>8. ASSUME NEW w \in Walkers, ChangeConnection(w) PROVE WaitingOnce' /\ SentOnce' /\ SentAfterWaiting'
    <2>1. LeaveConnection(w, FALSE) /\ UNCHANGED <<events, published, list>>
      BY <1>8 DEF ChangeConnection
    <2> QED
      BY <1>0, <1>6, <2>1, LeaveSent
  <1>9. ASSUME NEW w \in Walkers, NoConnection(w) PROVE WaitingOnce' /\ SentOnce' /\ SentAfterWaiting'
    <2>1. LeaveConnection(w, TRUE) /\ UNCHANGED <<events, published>>
      BY <1>9 DEF NoConnection
    <2>2. list[w] \in Seq(Entry) /\ ix[w] \in DOMAIN list[w] /\ Distinct(list[w])
      BY <1>0, <1>9 DEF NoConnection, AtEntry, TypeOK, WaitingOnce
    <2>3. /\ list'[w] = [list[w] EXCEPT ![ix[w]].obj = NULL]
          /\ \A v \in Walkers : v # w => list'[v] = list[v]
      BY <1>0, <1>9 DEF NoConnection, Discarded, TypeOK
    <2>4. \A v \in Walkers : Distinct(list'[v]) /\ \A n \in Live(list'[v]) : n \in Live(list[v])
      BY <1>0, <2>2, <2>3, LiveNulled DEF WaitingOnce
    <2> QED
      BY <1>0, <2>1, <2>4, LeaveSent, OnlyTakes
  <1>10. ASSUME NEW w \in Walkers, SendFails(w) PROVE WaitingOnce' /\ SentOnce' /\ SentAfterWaiting'
    <2>1. UNCHANGED <<events, published, list, nodeVars>>
      BY <1>10 DEF SendFails
    <2>2. CASE buffer' = buffer
      BY <1>1, <1>6, <2>1, <2>2
    <2>3. CASE buffer' = [buffer EXCEPT ![w] = <<>>]
      BY <1>0, <1>6, <2>1, <2>3, BufferDropped
    <2> QED
      BY <1>10, <2>2, <2>3 DEF SendFails
  <1>11. ASSUME NEW w \in Walkers, EndWalk(w) PROVE WaitingOnce' /\ SentOnce' /\ SentAfterWaiting'
    <2>1. LeaveConnection(w, FALSE) /\ UNCHANGED <<events, published>>
      BY <1>11 DEF EndWalk
    <2>2. /\ list'[w] = list[w] \/ list'[w] = <<>>
          /\ \A v \in Walkers : v # w => list'[v] = list[v]
      BY <1>0, <1>11 DEF EndWalk, TypeOK
    <2>3. \A v \in Walkers : Distinct(list'[v]) /\ \A n \in Live(list'[v]) : n \in Live(list[v])
      BY <1>0, <2>2, LiveEmpty DEF WaitingOnce
    <2> QED
      BY <1>0, <2>1, <2>3, LeaveSent, OnlyTakes
  <1>12. ASSUME NEW a \in Addrs, LateDelivery(a) PROVE WaitingOnce' /\ SentOnce' /\ SentAfterWaiting'
    <2>1. UNCHANGED <<events, published, list>>
      BY <1>12 DEF LateDelivery, walkVars
    <2> QED
      BY <1>0, <1>6, <1>12, <2>1, LateSent
  <1>13. ASSUME NEW a \in Addrs, LateLoss(a) PROVE WaitingOnce' /\ SentOnce' /\ SentAfterWaiting'
    <2>1. UNCHANGED <<events, published, list>>
      BY <1>13 DEF LateLoss, walkVars
    <2> QED
      BY <1>0, <1>6, <1>13, <2>1, LossSent
  <1>14. CASE UNCHANGED vars
    <2>1. UNCHANGED <<events, published, list, buffer, nodeVars>>
      BY <1>14 DEF vars, walkVars
    <2> QED
      BY <1>1, <1>6, <2>1
  <1>15. CASE Take \/ ExitFlush
    BY <1>3, <1>15 DEF Take, ExitFlush, Walkers
  <1> QED
    BY <1>2, <1>4, <1>5, <1>7, <1>8, <1>9, <1>10, <1>11, <1>12, <1>13, <1>14, <1>15
       DEF Next, Walk, Terminated

\* At the start nothing waits and nothing was sent.
LEMMA InitOnce == Init => OnceInv
  <1> SUFFICES ASSUME Init PROVE OnceInv
    OBVIOUS
  <1>1. /\ events = <<>> /\ \A w \in Walkers : list[w] = <<>> /\ buffer[w] = <<>>
        /\ \A a \in Addrs : delivered[a] = <<>> /\ late[a] = {}
    BY DEF Init
  <1>2. \A n : n \notin Gone
    BY <1>1, GoneMember, LiveEmpty DEF GoneMembers
  <1>3. WaitingOnce
    BY <1>1, LiveEmpty DEF WaitingOnce, Disjoint
  <1>4. SentOnce
    BY <1>1, LiveEmpty DEF SentOnce, Disjoint
  <1>5. SentAfterWaiting
    BY <1>1, <1>2, LiveEmpty DEF SentAfterWaiting
  <1> QED
    BY <1>3, <1>4, <1>5, InitQInv DEF OnceInv

\* For any nodes, limits, failures and number of events, no node ever receives an
\* event twice and no two nodes receive the same one, whatever the push thread
\* retries, the sockets lose or deliver late and the destructor flushes meanwhile.
THEOREM NeverDeliveredTwice == Spec => []DeliveredOnce
  <1>1. OnceInv /\ [Next]_vars => OnceInv'
    BY NextOnce, NextTypeOK, NextSendingOK DEF OnceInv, QInv
  <1>2. OnceInv => DeliveredOnce
    <2> SUFFICES ASSUME OnceInv, NEW a \in Addrs, NEW b \in Addrs,
                        NEW i \in DOMAIN delivered[a], NEW j \in DOMAIN delivered[b],
                        delivered[a][i].obj = delivered[b][j].obj
                 PROVE  a = b /\ i = j
      BY DEF DeliveredOnce
    <2>1. delivered[a][i].obj # NULL
      <3>1. delivered[a] \in Seq(Receipt)
        BY DEF OnceInv, QInv, TypeOK
      <3>2. delivered[a][i] \in Receipt
        BY <3>1
      <3> QED
        BY <3>2 DEF Receipt
    <2>2. delivered[a][i].obj \in Live(delivered[a]) /\ delivered[b][j].obj \in Live(delivered[b])
      BY <2>1, LiveMember
    <2>3. a = b
      BY <2>2 DEF OnceInv, SentOnce, Disjoint
    <2> QED
      BY <2>1, <2>3 DEF OnceInv, SentOnce, Distinct
  <1> QED
    BY <1>1, <1>2, InitOnce, PTL DEF Spec

-----------------------------------------------------------------------------
(* The order of delivery, and what may be lost *)

\* The objects of a list ascend, null pointers left aside.
Ascending(s) ==
    \A i, j \in DOMAIN s :
        i < j /\ s[i].obj # NULL /\ s[j].obj # NULL => s[i].obj < s[j].obj

\* Every object of one set is older than every object of the other.
Below(S, T) == \A m \in S, n \in T : m < n

\* The sequence number each sent object carries, wherever it is now.
Mark(e) == [obj |-> e.obj, seq |-> e.seq]
MarksOf(s) == {Mark(s[i]) : i \in DOMAIN s}
BufferMarks == UNION {MarksOf(buffer[w]) : w \in Walkers}
NodeMarks == UNION {MarksOf(delivered[a]) : a \in Addrs}
SocketMarks == UNION {MarksOf(s) : s \in Sockets}
Marks == BufferMarks \cup NodeMarks \cup SocketMarks

\* Before the destructor runs the push thread is the only walker.
OneWalker == list["exit"] = <<>> /\ buffer["exit"] = <<>>

\* Where the push thread is tells what its list, its connection and its stamp are.
WalkOK ==
    /\ pc["push"] = "idle" => list["push"] = <<>>
    /\ pc["push"] \in {"walk", "send"} =>
           \A i \in DOMAIN list["push"] : i < ix["push"] => list["push"][i].obj = NULL
    /\ pc["push"] = "send" => stamp["push"] = pushed /\ conn["push"] # NoAddr
    /\ conn["push"] = NoAddr => buffer["push"] = <<>>

\* The queue ascends, what is being walked is older than what was published since,
\* and what was sent is older than both.
QueueOrdered ==
    /\ Ascending(events) /\ Ascending(list["push"])
    /\ Below(Live(list["push"]), Live(events))
    /\ Below(Gone, Live(list["push"])) /\ Below(Gone, Live(events))

\* The commands in the output buffer ascend and are younger than all that has left it.
BufferLast ==
    /\ Ascending(buffer["push"])
    /\ \A a \in Addrs :
        /\ Below(Live(delivered[a]), Live(buffer["push"]))
        /\ \A s \in late[a] : Below(Live(s), Live(buffer["push"]))

\* What a node reads of a connection in use is younger than what it read before.
InOrder(d) == \A i, j \in DOMAIN d : i < j /\ ~d[j].dropped => d[i].obj < d[j].obj
NodesOrdered == \A a \in Addrs : InOrder(delivered[a])

\* Sequence numbers ascend with the objects and are below the next one.
MarksOrdered ==
    /\ \A x, y \in Marks : x.obj < y.obj => x.seq < y.seq
    /\ \A x \in Marks : x.seq < pushed

\* Until something is lost, the events up to _pushed were sent and the others wait.
AllThere ==
    ~lossy =>
        /\ pushed <= published
        /\ \A n \in Live(events) \cup Live(list["push"]) : n > pushed
        /\ \A n \in 1..published : n > pushed => n \in Live(events) \cup Live(list["push"])
        /\ \A n \in 1..pushed : n \in InBuffers \cup AtNodes

Ordered == OneWalker /\ WalkOK /\ QueueOrdered /\ BufferLast /\ NodesOrdered /\ MarksOrdered /\ AllThere

\* The inductive invariant of DeliveredInOrder and NoEventLost.
OrderInv == OnceInv /\ (MutexFree => Ordered)

-----------------------------------------------------------------------------
(* Lists that ascend *)

\* A younger object at the end.
LEMMA AscendingAppend ==
    ASSUME NEW S, NEW s \in Seq(S), NEW e \in S, e.obj # NULL
    PROVE  /\ Ascending(s) /\ Below(Live(s), {e.obj}) => Ascending(Append(s, e))
           /\ \A n : n \in Live(Append(s, e)) <=> n \in Live(s) \/ n = e.obj
  <1> DEFINE t == Append(s, e)
  <1>1. /\ DOMAIN s = 1..Len(s) /\ Len(s) \in Nat
        /\ DOMAIN t = 1..(Len(s) + 1)
        /\ \A i \in 1..Len(s) : t[i] = s[i]
        /\ t[Len(s) + 1] = e
    OBVIOUS
  <1> HIDE DEF t
  <1>2. ASSUME Ascending(s), Below(Live(s), {e.obj}) PROVE Ascending(t)
    <2> SUFFICES ASSUME NEW i \in DOMAIN t, NEW j \in DOMAIN t, i < j, t[i].obj # NULL, t[j].obj # NULL
                 PROVE  t[i].obj < t[j].obj
      BY DEF Ascending
    <2>1. i \in DOMAIN s /\ t[i] = s[i]
      BY <1>1
    <2>2. CASE j \in DOMAIN s
      BY <1>1, <1>2, <2>1, <2>2 DEF Ascending
    <2>3. CASE j \notin DOMAIN s
      <3>1. t[j] = e
        BY <1>1, <2>3
      <3>2. t[i].obj \in Live(s)
        BY <2>1, LiveMember
      <3> QED
        BY <1>2, <3>1, <3>2 DEF Below
    <2> QED
      BY <2>2, <2>3
  <1>3. ASSUME NEW n PROVE n \in Live(t) <=> n \in Live(s) \/ n = e.obj
    <2>1. ASSUME n \in Live(t) PROVE n \in Live(s) \/ n = e.obj
      BY <1>1, <2>1 DEF Live
    <2>2. ASSUME n \in Live(s) PROVE n \in Live(t)
      BY <1>1, <2>2 DEF Live
    <2>3. ASSUME n = e.obj PROVE n \in Live(t)
      <3>1. Len(s) + 1 \in DOMAIN t
        BY <1>1
      <3> QED
        BY <1>1, <2>3, <3>1, LiveMember
    <2> QED
      BY <2>1, <2>2, <2>3
  <1> QED
    BY <1>2, <1>3 DEF t

\* An older list in front.
LEMMA AscendingConcat ==
    ASSUME NEW S, NEW s \in Seq(S), NEW t \in Seq(S)
    PROVE  /\ Ascending(s) /\ Ascending(t) /\ Below(Live(s), Live(t)) => Ascending(s \o t)
           /\ \A n : n \in Live(s \o t) <=> n \in Live(s) \/ n \in Live(t)
  <1> DEFINE u == s \o t
  <1>1. /\ DOMAIN s = 1..Len(s) /\ Len(s) \in Nat /\ DOMAIN t = 1..Len(t) /\ Len(t) \in Nat
        /\ DOMAIN u = 1..(Len(s) + Len(t))
        /\ \A i \in 1..Len(s) : u[i] = s[i]
        /\ \A i \in 1..(Len(s) + Len(t)) : i > Len(s) => u[i] = t[i - Len(s)]
        /\ \A i \in 1..Len(t) : u[i + Len(s)] = t[i]
    OBVIOUS
  <1> HIDE DEF u
  <1>2. \A i \in DOMAIN u : \/ i \in DOMAIN s /\ u[i] = s[i]
                            \/ i - Len(s) \in DOMAIN t /\ u[i] = t[i - Len(s)] /\ i \notin DOMAIN s
    BY <1>1
  <1>3. ASSUME Ascending(s), Ascending(t), Below(Live(s), Live(t)) PROVE Ascending(u)
    <2> SUFFICES ASSUME NEW i \in DOMAIN u, NEW j \in DOMAIN u, i < j, u[i].obj # NULL, u[j].obj # NULL
                 PROVE  u[i].obj < u[j].obj
      BY DEF Ascending
    <2>1. CASE j \in DOMAIN s
      <3>1. i \in DOMAIN s
        BY <1>1, <2>1
      <3> QED
        BY <1>1, <1>3, <2>1, <3>1 DEF Ascending
    <2>2. CASE i \notin DOMAIN s
      <3>1. j \notin DOMAIN s
        BY <1>1, <2>2
      <3>2. /\ i - Len(s) \in DOMAIN t /\ u[i] = t[i - Len(s)]
            /\ j - Len(s) \in DOMAIN t /\ u[j] = t[j - Len(s)]
        BY <1>2, <2>2, <3>1
      <3>3. i - Len(s) < j - Len(s)
        BY <1>1
      <3> QED
        BY <1>3, <3>2, <3>3 DEF Ascending
    <2>3. CASE i \in DOMAIN s /\ j \notin DOMAIN s
      <3>1. u[i].obj \in Live(s) /\ u[j].obj \in Live(t)
        BY <1>2, <2>3, LiveMember
      <3> QED
        BY <1>3, <3>1 DEF Below
    <2> QED
      BY <2>1, <2>2, <2>3
  <1>4. ASSUME NEW n PROVE n \in Live(u) <=> n \in Live(s) \/ n \in Live(t)
    <2>1. ASSUME n \in Live(u) PROVE n \in Live(s) \/ n \in Live(t)
      BY <1>2, <2>1 DEF Live
    <2>2. ASSUME n \in Live(s) PROVE n \in Live(u)
      <3>1. \A i \in DOMAIN s : i \in DOMAIN u
        BY <1>1
      <3> QED
        BY <1>1, <2>2, <3>1 DEF Live
    <2>3. ASSUME n \in Live(t) PROVE n \in Live(u)
      <3>1. PICK i \in DOMAIN t : t[i].obj = n /\ n # NULL
        BY <2>3, LiveMember
      <3>2. i + Len(s) \in DOMAIN u /\ u[i + Len(s)].obj = n
        BY <1>1, <3>1
      <3> QED
        BY <3>1, <3>2, LiveMember
    <2> QED
      BY <2>1, <2>2, <2>3
  <1> QED
    BY <1>3, <1>4 DEF u

\* A part of a list.
LEMMA AscendingSubSeq ==
    ASSUME NEW S, NEW s \in Seq(S), Ascending(s), NEW m \in 1..(Len(s) + 1), NEW n \in 0..Len(s)
    PROVE  Ascending(SubSeq(s, m, n))
  <1> DEFINE t == SubSeq(s, m, n)
  <1>1. \A i \in DOMAIN t : i + m - 1 \in DOMAIN s /\ t[i] = s[i + m - 1] /\ i \in Nat
    OBVIOUS
  <1> HIDE DEF t
  <1> SUFFICES ASSUME NEW i \in DOMAIN t, NEW j \in DOMAIN t, i < j, t[i].obj # NULL, t[j].obj # NULL
               PROVE  t[i].obj < t[j].obj
    BY DEF Ascending, t
  <1>2. i + m - 1 < j + m - 1
    BY <1>1
  <1> QED
    BY <1>1, <1>2 DEF Ascending

\* A null pointer in place of an object.
LEMMA AscendingNulled ==
    ASSUME NEW s \in Seq(Entry), NEW i \in DOMAIN s
    PROVE  LET t == [s EXCEPT ![i].obj = NULL]
           IN /\ Ascending(s) => Ascending(t)
              /\ \A n \in Live(s) : n \in Live(t) \/ n = s[i].obj
              /\ DOMAIN t = DOMAIN s
              /\ \A j \in DOMAIN s : j # i => t[j] = s[j]
              /\ t[i].obj = NULL
  <1> DEFINE t == [s EXCEPT ![i].obj = NULL]
  <1>1. s[i] \in Entry
    OBVIOUS
  <1>2. /\ DOMAIN t = DOMAIN s
        /\ \A j \in DOMAIN s : j # i => t[j] = s[j]
        /\ t[i].obj = NULL
    BY <1>1 DEF Entry
  <1> HIDE DEF t
  <1>3. Ascending(s) => Ascending(t)
    BY <1>2 DEF Ascending
  <1>4. \A n \in Live(s) : n \in Live(t) \/ n = s[i].obj
    BY <1>2 DEF Live
  <1> QED
    BY <1>2, <1>3, <1>4 DEF t

\* Trimming a list.
LEMMA LimitAscending ==
    ASSUME NEW lst \in Seq(Entry), Ascending(lst), NEW limit \in Nat
    PROVE  Ascending(Limit(lst, limit))
  <1>1. CASE Len(lst) > limit
    <2>1. 1 \in 1..(Len(lst) + 1) /\ Len(lst) - limit \in 0..Len(lst)
      BY <1>1
    <2> QED
      BY <1>1, <2>1, AscendingSubSeq DEF Limit
  <1>2. CASE ~(Len(lst) > limit)
    BY <1>2 DEF Limit
  <1> QED
    BY <1>1, <1>2

\* The first object of an ascending list is its least.
LEMMA FirstIsLeast ==
    ASSUME NEW s \in Seq(Entry), Ascending(s), NEW i \in DOMAIN s, s[i].obj # NULL,
           \A j \in DOMAIN s : j < i => s[j].obj = NULL
    PROVE  \A n \in Live(s) : s[i].obj = n \/ s[i].obj < n
  <1> SUFFICES ASSUME NEW n \in Live(s) PROVE s[i].obj = n \/ s[i].obj < n
    OBVIOUS
  <1>1. PICK j \in DOMAIN s : s[j].obj = n /\ n # NULL
    BY LiveMember
  <1>2. i \in Nat /\ j \in Nat
    OBVIOUS
  <1>3. j = i \/ i < j
    BY <1>1, <1>2
  <1> QED
    BY <1>1, <1>3 DEF Ascending

-----------------------------------------------------------------------------
(* What each kind of step does to what was sent *)

\* The members of Marks, one place after the other.
MarkMembers ==
    \A x : x \in Marks <=> \/ \E w \in Walkers : x \in MarksOf(buffer[w])
                           \/ \E a \in Addrs : x \in MarksOf(delivered[a])
                           \/ \E a \in Addrs : \E s \in late[a] : x \in MarksOf(s)

\* Marks is what the buffers, the nodes and the dropped sockets hold, before a step ...
LEMMA MarkMember == MarkMembers
  <1>1. \A s : s \in Sockets <=> \E a \in Addrs : s \in late[a]
    BY DEF Sockets
  <1>2. \A x : x \in BufferMarks <=> \E w \in Walkers : x \in MarksOf(buffer[w])
    BY DEF BufferMarks
  <1>3. \A x : x \in NodeMarks <=> \E a \in Addrs : x \in MarksOf(delivered[a])
    BY DEF NodeMarks
  <1>4. \A x : x \in SocketMarks <=> \E s \in Sockets : x \in MarksOf(s)
    BY DEF SocketMarks
  <1>5. \A x : x \in Marks <=> x \in BufferMarks \/ x \in NodeMarks \/ x \in SocketMarks
    BY DEF Marks
  <1> QED
    BY <1>1, <1>2, <1>3, <1>4, <1>5 DEF MarkMembers

\* ... and after it.
LEMMA MarkMemberNext == MarkMembers'
  BY MarkMember, PTL

\* A mark is one of some entry.
LEMMA MarkOf ==
    ASSUME NEW s, NEW x
    PROVE  x \in MarksOf(s) <=> \E i \in DOMAIN s : x = Mark(s[i])
  BY DEF MarksOf

\* A node that reads the first n commands of a buffer behind what it received.
LEMMA ReadInOrder ==
    ASSUME NEW d \in Seq(Receipt), NEW b \in Seq(Message), NEW n \in 0..Len(b),
           InOrder(d), Ascending(b), Below(Live(d), Live(b)),
           NEW read, read = [i \in 1..n |-> [obj |-> b[i].obj, seq |-> b[i].seq, dropped |-> FALSE]]
    PROVE  /\ InOrder(d \o read)
           /\ \A x \in MarksOf(d \o read) : x \in MarksOf(d) \/ x \in MarksOf(b)
           /\ \A k \in Live(d) : k \in Live(d \o read)
           /\ n = Len(b) => \A k \in Live(b) : k \in Live(d \o read)
  <1> DEFINE u == d \o read
  <1>1. /\ DOMAIN read = 1..n /\ n \in Nat /\ DOMAIN b = 1..Len(b)
        /\ \A i \in 1..n : i \in DOMAIN b /\ b[i] \in Message
        /\ \A i \in 1..n : read[i] = [obj |-> b[i].obj, seq |-> b[i].seq, dropped |-> FALSE]
    OBVIOUS
  <1>2. \A i \in 1..n : /\ read[i] \in Receipt /\ read[i].obj = b[i].obj /\ read[i].seq = b[i].seq
                        /\ Mark(read[i]) = Mark(b[i]) /\ b[i].obj # NULL
    BY <1>1 DEF Message, Receipt, Mark
  <1>3. read \in Seq(Receipt) /\ Len(read) = n
    BY <1>1, <1>2
  <1> HIDE DEF u
  <1>4. /\ DOMAIN d = 1..Len(d) /\ Len(d) \in Nat
        /\ DOMAIN u = 1..(Len(d) + n)
        /\ \A i \in 1..Len(d) : u[i] = d[i]
        /\ \A i \in 1..(Len(d) + n) : i > Len(d) => u[i] = read[i - Len(d)]
    BY <1>3 DEF u
  <1>5. \A i \in DOMAIN u : \/ i \in DOMAIN d /\ u[i] = d[i]
                            \/ i \notin DOMAIN d /\ i - Len(d) \in 1..n /\ u[i] = read[i - Len(d)]
    <2> SUFFICES ASSUME NEW i \in DOMAIN u
                 PROVE  \/ i \in DOMAIN d /\ u[i] = d[i]
                        \/ i \notin DOMAIN d /\ i - Len(d) \in 1..n /\ u[i] = read[i - Len(d)]
      OBVIOUS
    <2>1. i \in 1..(Len(d) + n) /\ Len(d) \in Nat /\ n \in Nat
      BY <1>1, <1>4
    <2>2. i \in 1..Len(d) \/ (i \notin 1..Len(d) /\ i > Len(d) /\ i - Len(d) \in 1..n)
      BY <2>1
    <2> QED
      BY <1>4, <2>1, <2>2
  <1>6. \A i \in DOMAIN d : d[i].obj # NULL
    <2>1. \A i \in DOMAIN d : d[i] \in Receipt
      OBVIOUS
    <2> QED
      BY <2>1 DEF Receipt
  <1>7. InOrder(u)
    <2> SUFFICES ASSUME NEW i \in DOMAIN u, NEW j \in DOMAIN u, i < j, ~u[j].dropped
                 PROVE  u[i].obj < u[j].obj
      BY DEF InOrder
    <2>1. CASE j \in DOMAIN d
      <3>1. i \in DOMAIN d
        BY <1>4, <2>1
      <3> QED
        BY <1>4, <2>1, <3>1 DEF InOrder
    <2>2. CASE i \notin DOMAIN d
      <3>1. j \notin DOMAIN d
        BY <1>4, <2>2
      <3>2. /\ i - Len(d) \in 1..n /\ u[i].obj = b[i - Len(d)].obj
            /\ j - Len(d) \in 1..n /\ u[j].obj = b[j - Len(d)].obj
        BY <1>2, <1>5, <2>2, <3>1
      <3>3. i - Len(d) < j - Len(d)
        BY <1>4
      <3> QED
        BY <1>1, <1>2, <3>2, <3>3 DEF Ascending
    <2>3. CASE i \in DOMAIN d /\ j \notin DOMAIN d
      <3>1. j - Len(d) \in 1..n /\ u[j].obj = b[j - Len(d)].obj
        BY <1>2, <1>5, <2>3
      <3>2. u[j].obj \in Live(b)
        BY <1>1, <1>2, <3>1, LiveMember
      <3>3. u[i].obj \in Live(d)
        BY <1>4, <1>6, <2>3, LiveMember
      <3> QED
        BY <3>2, <3>3 DEF Below
    <2> QED
      BY <2>1, <2>2, <2>3
  <1>8. \A x \in MarksOf(u) : x \in MarksOf(d) \/ x \in MarksOf(b)
    <2> SUFFICES ASSUME NEW i \in DOMAIN u PROVE Mark(u[i]) \in MarksOf(d) \/ Mark(u[i]) \in MarksOf(b)
      BY MarkOf
    <2>1. CASE i \in DOMAIN d
      BY <1>4, <2>1, MarkOf
    <2>2. CASE i \notin DOMAIN d
      <3>1. i - Len(d) \in 1..n /\ u[i] = read[i - Len(d)]
        BY <1>5, <2>2
      <3>2. i - Len(d) \in DOMAIN b /\ Mark(u[i]) = Mark(b[i - Len(d)])
        BY <1>1, <1>2, <3>1
      <3> QED
        BY <3>2, MarkOf
    <2> QED
      BY <2>1, <2>2
  <1>9. \A k : k \in Live(u) <=> k \in Live(d) \/ k \in Live(read)
    BY <1>3, AscendingConcat DEF u
  <1>10. ASSUME n = Len(b), NEW k \in Live(b) PROVE k \in Live(read)
    <2>1. PICK i \in DOMAIN b : b[i].obj = k /\ k # NULL
      BY LiveMember
    <2>2. i \in DOMAIN read /\ read[i].obj = k
      BY <1>1, <1>2, <1>10, <2>1
    <2> QED
      BY <2>1, <2>2, LiveMember
  <1> QED
    BY <1>7, <1>8, <1>9, <1>10 DEF u

\* What has been sent and not lost is in the push thread's buffer or at a node.
BufferedMembers ==
    buffer["exit"] = <<>> =>
        \A n : n \in InBuffers \cup AtNodes <=>
            n \in Live(buffer["push"]) \/ \E a \in Addrs : n \in Live(delivered[a])

\* InBuffers and AtNodes, one place after the other, before a step ...
LEMMA BufferedMember == BufferedMembers
  <1> SUFFICES ASSUME buffer["exit"] = <<>>
               PROVE  \A n : n \in InBuffers \cup AtNodes <=>
                          n \in Live(buffer["push"]) \/ \E a \in Addrs : n \in Live(delivered[a])
    BY DEF BufferedMembers
  <1>1. \A n : n \in InBuffers <=> \E w \in Walkers : n \in Live(buffer[w])
    BY DEF InBuffers
  <1>2. \A n : n \in AtNodes <=> \E a \in Addrs : n \in Live(delivered[a])
    BY DEF AtNodes
  <1>3. Live(buffer["exit"]) = {}
    BY LiveEmpty
  <1> QED
    BY <1>1, <1>2, <1>3 DEF Walkers

\* ... and after it.
LEMMA BufferedMemberNext == BufferedMembers'
  BY BufferedMember, PTL

\* Leaving the connection of the push thread: nothing is sent that was not in the
\* buffer, the order stays, and if nothing is lost the node has all of it.
LEMMA LeaveOrdered ==
    ASSUME TypeOK, OneWalker, BufferLast, NodesOrdered,
           conn["push"] = NoAddr => buffer["push"] = <<>>,
           NEW thrown \in BOOLEAN, LeaveConnection("push", thrown)
    PROVE  /\ BufferLast' /\ NodesOrdered'
           /\ buffer'["exit"] = <<>> /\ buffer'["push"] = <<>>
           /\ \A x \in Marks' : x \in Marks
           /\ ~lossy' => /\ ~lossy /\ ~thrown
                         /\ \A n \in InBuffers \cup AtNodes : n \in (InBuffers \cup AtNodes)'
  <1>0. "push" \in Walkers /\ "exit" \in Walkers /\ \A w \in Walkers : w = "push" \/ w = "exit"
    BY DEF Walkers
  <1>1. buffer'["push"] = <<>> /\ buffer'["exit"] = <<>> /\ buffer["exit"] = <<>>
    BY <1>0 DEF LeaveConnection, TypeOK, OneWalker
  <1>2. BufferLast'
    BY <1>1, LiveEmpty DEF BufferLast, Ascending, Below
  <1>3. \A n : n \in InBuffers \cup AtNodes <=>
               n \in Live(buffer["push"]) \/ \E a \in Addrs : n \in Live(delivered[a])
    BY <1>1, BufferedMember DEF BufferedMembers
  <1>4. \A n : n \in (InBuffers \cup AtNodes)' <=>
               n \in Live(buffer'["push"]) \/ \E a \in Addrs : n \in Live(delivered'[a])
    BY <1>1, BufferedMemberNext DEF BufferedMembers
  <1>5. CASE conn["push"] = NoAddr
    <2>1. buffer["push"] = <<>> /\ delivered' = delivered /\ late' = late /\ lossy' = (lossy \/ thrown)
      BY <1>5 DEF LeaveConnection, nodeVars
    <2>2. NodesOrdered'
      BY <2>1 DEF NodesOrdered
    <2>3. \A x \in Marks' : x \in Marks
      BY <1>0, <1>1, <2>1, MarkMember, MarkMemberNext DEF MarkMembers
    <2>4. \A n \in InBuffers \cup AtNodes : n \in (InBuffers \cup AtNodes)'
      BY <1>1, <1>3, <1>4, <2>1
    <2> QED
      BY <1>1, <1>2, <2>1, <2>2, <2>3, <2>4
  <1>6. CASE conn["push"] # NoAddr
    <2> DEFINE a == conn["push"]
               b == buffer["push"]
    <2>1. a \in Addrs /\ b \in Seq(Message) /\ delivered[a] \in Seq(Receipt)
      BY <1>0, <1>6 DEF TypeOK
    <2>2. PICK n \in 0..Len(b), m \in 0..Len(b) :
              /\ n <= m
              /\ delivered' = [delivered EXCEPT ![a] =
                     @ \o [i \in 1..n |-> [obj     |-> b[i].obj,
                                           seq     |-> b[i].seq,
                                           dropped |-> FALSE]]]
              /\ late' = [late EXCEPT ![a] = IF n < m THEN @ \cup {SubSeq(b, n + 1, m)} ELSE @]
              /\ lossy' = (lossy \/ thrown \/ n < Len(b))
      BY <1>6 DEF LeaveConnection, GiveUpSocket
    <2> DEFINE read == [i \in 1..n |-> [obj |-> b[i].obj, seq |-> b[i].seq, dropped |-> FALSE]]
               rest == SubSeq(b, n + 1, m)
    <2>3. /\ delivered'[a] = delivered[a] \o read
          /\ \A c \in Addrs : c # a => delivered'[c] = delivered[c] /\ late'[c] = late[c]
          /\ \A s \in late'[a] : s \in late[a] \/ s = rest
      BY <2>1, <2>2 DEF TypeOK
    <2>4. InOrder(delivered[a]) /\ Ascending(b) /\ Below(Live(delivered[a]), Live(b))
      BY <2>1 DEF BufferLast, NodesOrdered
    <2>5. /\ InOrder(delivered'[a])
          /\ \A x \in MarksOf(delivered'[a]) : x \in MarksOf(delivered[a]) \/ x \in MarksOf(b)
          /\ \A k \in Live(delivered[a]) : k \in Live(delivered'[a])
          /\ n = Len(b) => \A k \in Live(b) : k \in Live(delivered'[a])
      <3> DEFINE d == delivered[a] \o read
      <3>1. /\ InOrder(d)
            /\ \A x \in MarksOf(d) : x \in MarksOf(delivered[a]) \/ x \in MarksOf(b)
            /\ \A k \in Live(delivered[a]) : k \in Live(d)
            /\ n = Len(b) => \A k \in Live(b) : k \in Live(d)
        BY <2>1, <2>4, ReadInOrder
      <3> QED
        BY <2>3, <3>1
    <2>6. \A x \in MarksOf(rest) : x \in MarksOf(b)
      <3>1. \A i \in DOMAIN rest : i + n \in DOMAIN b /\ rest[i] = b[i + n]
        BY <2>1
      <3> HIDE DEF rest, b
      <3> QED
        BY <3>1 DEF MarksOf
    <2>7. n = Len(b) \/ n < Len(b)
      BY <2>1
    <2>8. b = buffer["push"] /\ a \in Addrs /\ lossy' = (lossy \/ thrown \/ n < Len(b))
      BY <2>1, <2>2
    <2> HIDE DEF a, b, read, rest
    <2>9. NodesOrdered'
      BY <2>3, <2>5 DEF NodesOrdered
    <2>10. \A x \in Marks' : x \in Marks
      <3>1. Marks' = Marks' /\ \A x : x \notin MarksOf(<<>>)
        BY MarkOf
      <3> SUFFICES ASSUME NEW x \in Marks' PROVE x \in Marks
        OBVIOUS
      <3>2. \/ \E w \in Walkers : x \in MarksOf(buffer'[w])
            \/ \E c \in Addrs : x \in MarksOf(delivered'[c])
            \/ \E c \in Addrs : \E s \in late'[c] : x \in MarksOf(s)
        BY MarkMemberNext DEF MarkMembers
      <3>3. x \in MarksOf(b) => x \in Marks
        BY <1>0, <2>8, MarkMember DEF MarkMembers
      <3>4. CASE \E w \in Walkers : x \in MarksOf(buffer'[w])
        BY <1>0, <1>1, <3>1, <3>4
      <3>5. CASE \E c \in Addrs : x \in MarksOf(delivered'[c])
        BY <2>3, <2>5, <3>3, <3>5, MarkMember DEF MarkMembers
      <3>6. CASE \E c \in Addrs : \E s \in late'[c] : x \in MarksOf(s)
        BY <2>3, <2>6, <3>3, <3>6, MarkMember DEF MarkMembers
      <3> QED
        BY <3>2, <3>4, <3>5, <3>6
    <2>11. ASSUME ~lossy', NEW k \in InBuffers \cup AtNodes PROVE k \in (InBuffers \cup AtNodes)'
      <3>1. n = Len(b)
        BY <2>7, <2>8, <2>11
      <3>2. k \in Live(b) \/ \E c \in Addrs : k \in Live(delivered[c])
        BY <1>3, <2>8
      <3>3. \E c \in Addrs : k \in Live(delivered'[c])
        BY <2>3, <2>5, <2>8, <3>1, <3>2
      <3> QED
        BY <1>4, <3>3
    <2> QED
      BY <1>1, <1>2, <2>8, <2>9, <2>10, <2>11
  <1> QED
    BY <1>5, <1>6

\* A sent object is where its mark is, and both are numbers.
LEMMA MarkTyped ==
    ASSUME TypeOK, NEW x \in Marks
    PROVE  x.obj \in Gone /\ x.obj \in Nat /\ x.seq \in Nat
  <1>1. ASSUME NEW s, s \in Seq(Message) \/ s \in Seq(Receipt), x \in MarksOf(s)
        PROVE  x.obj \in Live(s) /\ x.obj \in Nat /\ x.seq \in Nat
    <2>1. PICK i \in DOMAIN s : x = Mark(s[i])
      BY <1>1, MarkOf
    <2>2. s[i] \in Message \/ s[i] \in Receipt
      BY <1>1
    <2>3. x.obj = s[i].obj /\ x.obj \in Nat \ {NULL} /\ x.seq \in Nat
      BY <2>1, <2>2 DEF Mark, Message, Receipt
    <2> QED
      BY <2>3, LiveMember
  <1>2. \/ \E w \in Walkers : x \in MarksOf(buffer[w])
        \/ \E a \in Addrs : x \in MarksOf(delivered[a])
        \/ \E a \in Addrs : \E s \in late[a] : x \in MarksOf(s)
    BY MarkMember DEF MarkMembers
  <1>3. CASE \E w \in Walkers : x \in MarksOf(buffer[w])
    <2>1. PICK w \in Walkers : x \in MarksOf(buffer[w])
      BY <1>3
    <2>2. buffer[w] \in Seq(Message)
      BY DEF TypeOK
    <2> QED
      BY <1>1, <2>1, <2>2, GoneMember DEF GoneMembers
  <1>4. CASE \E a \in Addrs : x \in MarksOf(delivered[a])
    <2>1. PICK a \in Addrs : x \in MarksOf(delivered[a])
      BY <1>4
    <2>2. delivered[a] \in Seq(Receipt)
      BY DEF TypeOK
    <2> QED
      BY <1>1, <2>1, <2>2, GoneMember DEF GoneMembers
  <1>5. CASE \E a \in Addrs : \E s \in late[a] : x \in MarksOf(s)
    <2>1. PICK a \in Addrs : \E s \in late[a] : x \in MarksOf(s)
      BY <1>5
    <2>2. PICK s \in late[a] : x \in MarksOf(s)
      BY <2>1
    <2>3. s \in Seq(Message)
      BY DEF TypeOK
    <2> QED
      BY <1>1, <2>2, <2>3, GoneMember DEF GoneMembers
  <1> QED
    BY <1>2, <1>3, <1>4, <1>5

\* A node that reads from a dropped socket: its receipt is marked as such.
LEMMA LateOrdered ==
    ASSUME TypeOK, SentOnce, BufferLast, NodesOrdered, buffer["exit"] = <<>>,
           NEW a \in Addrs, LateDelivery(a) \/ LateLoss(a)
    PROVE  /\ BufferLast' /\ NodesOrdered'
           /\ \A x \in Marks' : x \in Marks
           /\ \A n \in InBuffers \cup AtNodes : n \in (InBuffers \cup AtNodes)'
  <1>0. buffer' = buffer
    BY DEF LateDelivery, LateLoss, walkVars
  <1>1. SentOnce' /\ \A k \in Gone' : k \in Gone
    BY LateSent, LossSent
  <1>2. BufferLast'
    <2>1. ASSUME NEW c \in Addrs, NEW k \in Live(delivered'[c]), NEW n \in Live(buffer["push"]) PROVE k < n
      <3>1. k \in Gone /\ \A w \in Walkers : k \notin Live(buffer[w])
        BY <1>0, <1>1, GoneMemberNext DEF SentOnce, Disjoint, GoneMembers
      <3> QED
        BY <3>1, GoneMember DEF BufferLast, Below, GoneMembers
    <2>2. ASSUME NEW c \in Addrs, NEW s \in late'[c], NEW k \in Live(s), NEW n \in Live(buffer["push"]) PROVE k < n
      <3>1. k \in Gone /\ \A w \in Walkers : k \notin Live(buffer[w])
        BY <1>0, <1>1, GoneMemberNext DEF SentOnce, Disjoint, GoneMembers
      <3> QED
        BY <3>1, GoneMember DEF BufferLast, Below, GoneMembers
    <2> QED
      BY <1>0, <2>1, <2>2 DEF BufferLast, Below
  <1>3. CASE LateLoss(a)
    <2>1. delivered' = delivered /\ \A c \in Addrs : \A s \in late'[c] : s \in late[c]
      BY <1>3 DEF LateLoss, TypeOK
    <2>2. NodesOrdered'
      BY <2>1 DEF NodesOrdered
    <2>3. \A x \in Marks' : x \in Marks
      BY <1>0, <2>1, MarkMember, MarkMemberNext DEF MarkMembers
    <2>4. \A n \in InBuffers \cup AtNodes : n \in (InBuffers \cup AtNodes)'
      BY <1>0, <2>1, BufferedMember, BufferedMemberNext DEF BufferedMembers
    <2> QED
      BY <1>2, <2>2, <2>3, <2>4
  <1>4. CASE LateDelivery(a)
    <2>1. PICK s \in late[a] :
              /\ delivered' = [delivered EXCEPT ![a] =
                     Append(@, [obj |-> Head(s).obj, seq |-> Head(s).seq, dropped |-> TRUE])]
              /\ late' = [late EXCEPT ![a] =
                     (@ \ {s}) \cup (IF Len(s) > 1 THEN {Tail(s)} ELSE {})]
      BY <1>4 DEF LateDelivery
    <2> DEFINE e == [obj |-> Head(s).obj, seq |-> Head(s).seq, dropped |-> TRUE]
               d == delivered[a]
               rest == Tail(s)
    <2>2. s \in Seq(Message) /\ s # <<>> /\ d \in Seq(Receipt)
      BY DEF TypeOK
    <2>3. e \in Receipt /\ e.obj # NULL /\ e.dropped /\ Mark(e) \in MarksOf(s)
      <3>1. s[1] \in Message /\ Head(s) = s[1] /\ 1 \in DOMAIN s
        BY <2>2
      <3>2. e \in Receipt /\ e.obj # NULL /\ e.dropped /\ Mark(e) = Mark(s[1])
        BY <3>1 DEF Message, Receipt, Mark
      <3> QED
        BY <3>1, <3>2, MarkOf
    <2>4. Len(s) > 1 => \A x \in MarksOf(rest) : x \in MarksOf(s)
      <3>1. \A i \in DOMAIN rest : i + 1 \in DOMAIN s /\ rest[i] = s[i + 1]
        BY <2>2
      <3> HIDE DEF rest
      <3> QED
        BY <3>1 DEF MarksOf
    <2>5. /\ delivered'[a] = Append(d, e)
          /\ \A c \in Addrs : c # a => delivered'[c] = delivered[c] /\ late'[c] = late[c]
          /\ \A u \in late'[a] : u \in late[a] \/ (Len(s) > 1 /\ u = rest)
      BY <2>1 DEF TypeOK
    <2> HIDE DEF e, rest
    <2>6. /\ DOMAIN d = 1..Len(d) /\ Len(d) \in Nat
          /\ DOMAIN delivered'[a] = 1..(Len(d) + 1)
          /\ \A i \in 1..Len(d) : delivered'[a][i] = d[i]
          /\ delivered'[a][Len(d) + 1] = e
      BY <2>2, <2>3, <2>5
    <2>7. InOrder(delivered'[a])
      <3>1. InOrder(d)
        BY DEF NodesOrdered
      <3> HIDE DEF d
      <3> SUFFICES ASSUME NEW i \in DOMAIN delivered'[a], NEW j \in DOMAIN delivered'[a],
                          i < j, ~delivered'[a][j].dropped
                   PROVE  delivered'[a][i].obj < delivered'[a][j].obj
        BY DEF InOrder
      <3>2. j # Len(d) + 1
        BY <2>3, <2>6
      <3>3. i \in DOMAIN d /\ j \in DOMAIN d
        BY <2>6, <3>2
      <3> QED
        BY <2>6, <3>1, <3>3 DEF InOrder
    <2>8. NodesOrdered'
      BY <2>5, <2>7 DEF NodesOrdered
    <2>9. \A x \in MarksOf(delivered'[a]) : x \in MarksOf(d) \/ x \in MarksOf(s)
      <3> HIDE DEF d
      <3> SUFFICES ASSUME NEW i \in DOMAIN delivered'[a]
                   PROVE  Mark(delivered'[a][i]) \in MarksOf(d) \/ Mark(delivered'[a][i]) \in MarksOf(s)
        BY MarkOf
      <3>1. i = Len(d) + 1 \/ i \in DOMAIN d
        BY <2>6
      <3> QED
        BY <2>3, <2>6, <3>1, MarkOf
    <2>10. \A x \in Marks' : x \in Marks
      <3> SUFFICES ASSUME NEW x \in Marks' PROVE x \in Marks
        OBVIOUS
      <3>1. \/ \E w \in Walkers : x \in MarksOf(buffer[w])
            \/ \E c \in Addrs : x \in MarksOf(delivered'[c])
            \/ \E c \in Addrs : \E u \in late'[c] : x \in MarksOf(u)
        BY <1>0, MarkMemberNext DEF MarkMembers
      <3>2. x \in MarksOf(s) => x \in Marks
        BY MarkMember DEF MarkMembers
      <3> QED
        BY <2>4, <2>5, <2>9, <3>1, <3>2, MarkMember DEF MarkMembers
    <2>11. \A k \in Live(d) : k \in Live(delivered'[a])
      <3> HIDE DEF d
      <3> QED
        BY <2>6 DEF Live
    <2>12. \A n \in InBuffers \cup AtNodes : n \in (InBuffers \cup AtNodes)'
      BY <1>0, <2>5, <2>11, BufferedMember, BufferedMemberNext DEF BufferedMembers
    <2> QED
      BY <1>2, <2>8, <2>10, <2>12
  <1> QED
    BY <1>3, <1>4

-----------------------------------------------------------------------------
(* Every step keeps the order *)

\* Once the destructor has started it never leaves the mutex, and until then only
\* the push thread walks.
LEMMA FreeSteps ==
    ASSUME TypeOK, [Next]_vars, MutexFree'
    PROVE  /\ MutexFree
           /\ \/ \E a \in Addrs : Publish(a) \/ LateDelivery(a) \/ LateLoss(a)
              \/ Take \/ PutBack \/ Walk("push") \/ UNCHANGED vars
  <1>0. "push" \in Walkers /\ "exit" \in Walkers /\ pc \in [Walkers -> {"idle", "walk", "send", "halted", "failed", "done"}]
    BY DEF Walkers, TypeOK
  <1>1. ~ExitFlush
    BY <1>0 DEF ExitFlush, StartWalk, MutexFree
  <1>2. ASSUME Walk("exit") PROVE FALSE
    <2>1. pc["exit"] \in {"walk", "send", "halted"}
      BY <1>2 DEF Walk, SkipNull, ChangeConnection, NoConnection, StampEvent, SendEvent, SendFails, EndWalk, AtEntry
    <2>2. pc'["exit"] # "idle"
      BY <1>0, <1>2, <2>1 DEF Walk, SkipNull, ChangeConnection, NoConnection, StampEvent, SendEvent, SendFails, EndWalk
    <2> QED
      BY <2>2 DEF MutexFree
  <1>3. \/ \E a \in Addrs : Publish(a) \/ LateDelivery(a) \/ LateLoss(a)
        \/ Take \/ PutBack \/ Walk("push") \/ UNCHANGED vars
    BY <1>1, <1>2 DEF Next, Walkers, Terminated
  <1>4. CASE Walk("push")
    <2>1. pc'["exit"] = pc["exit"]
      BY <1>0, <1>4 DEF Walk, SkipNull, ChangeConnection, NoConnection, StampEvent, SendEvent, SendFails, EndWalk
    <2> QED
      BY <1>3, <2>1 DEF MutexFree
  <1>5. CASE ~Walk("push")
    BY <1>3, <1>5 DEF MutexFree, Publish, LateDelivery, LateLoss, Take, PutBack, vars, walkVars
  <1> QED
    BY <1>4, <1>5

\* Publishing, taking the queue and putting a halted list back.
LEMMA QueueStepOrdered ==
    ASSUME OnceInv, Ordered, (\E a \in Addrs : Publish(a)) \/ Take \/ PutBack
    PROVE  Ordered'
  <1>0. /\ TypeOK /\ WaitingOnce /\ SentAfterWaiting
        /\ OneWalker /\ WalkOK /\ QueueOrdered /\ BufferLast /\ NodesOrdered /\ MarksOrdered /\ AllThere
        /\ "push" \in Walkers /\ "exit" \in Walkers
        /\ events \in Seq(Entry) /\ list["push"] \in Seq(Entry) /\ published \in Nat /\ pushed \in Nat
    BY DEF OnceInv, QInv, Ordered, TypeOK, Walkers
  <1>1. buffer' = buffer /\ delivered' = delivered /\ late' = late /\ pushed' = pushed
        /\ conn' = conn /\ stamp' = stamp
    BY DEF Publish, Take, StartWalk, PutBack, nodeVars, walkVars
  <1>2. Gone' = Gone /\ Marks' = Marks /\ (InBuffers \cup AtNodes)' = InBuffers \cup AtNodes
    BY <1>1 DEF Gone, InBuffers, AtNodes, InSockets, Sockets, Marks, BufferMarks, NodeMarks, SocketMarks
  <1>3. BufferLast' /\ NodesOrdered' /\ MarksOrdered'
    BY <1>0, <1>1, <1>2 DEF BufferLast, NodesOrdered, MarksOrdered
  <1>4. /\ \A n \in Live(events) : n \in Nat /\ n <= published
        /\ \A n \in Live(list["push"]) : n \in Nat /\ n <= published
        /\ \A n \in Gone : n \in Nat /\ n <= published
    BY <1>0 DEF SentAfterWaiting
  <1>5. ASSUME NEW a \in Addrs, Publish(a) PROVE Ordered'
    <2> DEFINE e == [addr |-> a, obj |-> published + 1]
    <2>1. e \in Entry /\ e.obj = published + 1 /\ e.obj # NULL
      BY <1>0 DEF Entry, NULL
    <2>2. /\ events' = Append(events, e) /\ published' = published + 1
          /\ list' = list /\ pc' = pc /\ ix' = ix /\ lossy' = lossy
      BY <1>5 DEF Publish, walkVars
    <2> HIDE DEF e
    <2>3. Below(Live(events), {e.obj}) /\ Below(Live(list["push"]), {e.obj}) /\ Below(Gone, {e.obj})
      BY <1>0, <1>4, <2>1 DEF Below
    <2>4. Ascending(events') /\ \A n : n \in Live(events') <=> n \in Live(events) \/ n = e.obj
      BY <1>0, <2>1, <2>2, <2>3, AscendingAppend DEF QueueOrdered
    <2>5. OneWalker' /\ WalkOK'
      BY <1>0, <1>1, <2>2 DEF OneWalker, WalkOK
    <2>6. QueueOrdered'
      BY <1>0, <1>2, <2>2, <2>3, <2>4 DEF QueueOrdered, Below
    <2>7. AllThere'
      <3> SUFFICES ASSUME ~lossy' PROVE AllThere'
        BY DEF AllThere
      <3>1. /\ pushed <= published
            /\ \A n \in Live(events) \cup Live(list["push"]) : n > pushed
            /\ \A n \in 1..published : n > pushed => n \in Live(events) \cup Live(list["push"])
            /\ \A n \in 1..pushed : n \in InBuffers \cup AtNodes
        BY <1>0, <2>2 DEF AllThere
      <3>2. pushed' <= published'
        BY <1>0, <1>1, <2>2, <3>1
      <3>3. \A n \in (Live(events) \cup Live(list["push"]))' : n > pushed'
        BY <1>0, <1>1, <2>1, <2>2, <2>4, <3>1
      <3>4. \A n \in 1..published' : n > pushed' => n \in (Live(events) \cup Live(list["push"]))'
        <4>1. \A n \in 1..(published + 1) : n \in 1..published \/ n = published + 1
          BY <1>0
        <4> QED
          BY <1>1, <2>1, <2>2, <2>4, <3>1, <4>1
      <3>5. \A n \in 1..pushed' : n \in (InBuffers \cup AtNodes)'
        BY <1>1, <1>2, <3>1
      <3> QED
        BY <3>2, <3>3, <3>4, <3>5 DEF AllThere
    <2> QED
      BY <1>3, <2>5, <2>6, <2>7 DEF Ordered
  <1>6. CASE Take
    <2>1. /\ events' = <<>> /\ published' = published /\ lossy' = lossy
          /\ list'["push"] = events /\ list'["exit"] = list["exit"]
          /\ pc'["push"] = "walk" /\ ix'["push"] = 1 /\ pc["push"] = "idle"
      BY <1>0, <1>6 DEF Take, StartWalk, TypeOK
    <2>2. list["push"] = <<>> /\ Live(list["push"]) = {} /\ Live(events') = {} /\ Ascending(events')
      BY <1>0, <2>1, LiveEmpty DEF WalkOK, Ascending
    <2>3. OneWalker' /\ WalkOK'
      BY <1>0, <1>1, <2>1 DEF OneWalker, WalkOK
    <2>4. QueueOrdered'
      BY <1>0, <1>2, <2>1, <2>2 DEF QueueOrdered, Below
    <2>5. AllThere'
      BY <1>0, <1>1, <1>2, <2>1, <2>2 DEF AllThere
    <2> QED
      BY <1>3, <2>3, <2>4, <2>5 DEF Ordered
  <1>7. CASE PutBack
    <2> DEFINE over == Len(events) > Redline
               kept == IF over THEN Limit(list["push"], MaxInflight) ELSE list["push"]
               rest == IF over THEN LimitRest(events, Len(kept)) ELSE events
    <2>1. Ascending(events) /\ Ascending(list["push"]) /\ Distinct(events) /\ Distinct(list["push"])
      BY <1>0 DEF QueueOrdered, WaitingOnce
    <2>2. kept \in Seq(Entry) /\ Ascending(kept) /\ \A n \in Live(kept) : n \in Live(list["push"])
      BY <1>0, <2>1, EventQueueAssumption, LimitType, LimitLive, LimitAscending
    <2>3. rest \in Seq(Entry) /\ Ascending(rest) /\ \A n \in Live(rest) : n \in Live(events)
      <3>1. Len(kept) \in Nat
        BY <2>2
      <3> HIDE DEF kept
      <3>2. CASE over /\ ~(Len(kept) > MaxInflight)
        <4>1. MaxInflight - Len(kept) \in Nat
          BY <3>1, <3>2, EventQueueAssumption
        <4> QED
          BY <1>0, <2>1, <3>2, <4>1, LimitType, LimitLive, LimitAscending DEF LimitRest
      <3>3. CASE ~over \/ Len(kept) > MaxInflight
        BY <1>0, <2>1, <3>3 DEF LimitRest
      <3> QED
        BY <3>2, <3>3
    <2>4. /\ events' = kept \o rest /\ published' = published
          /\ lossy' = (lossy \/ kept # list["push"] \/ rest # events)
          /\ list' = [list EXCEPT !["push"] = <<>>] /\ pc' = [pc EXCEPT !["push"] = "idle"]
      BY <1>7 DEF PutBack, Requeued
    <2> HIDE DEF over, kept, rest
    <2>5. list'["push"] = <<>> /\ list'["exit"] = list["exit"] /\ pc'["push"] = "idle"
      BY <1>0, <2>4 DEF TypeOK
    <2>6. Below(Live(kept), Live(rest))
      BY <1>0, <2>2, <2>3 DEF QueueOrdered, Below
    <2>7. Ascending(events') /\ \A n : n \in Live(events') <=> n \in Live(kept) \/ n \in Live(rest)
      BY <2>2, <2>3, <2>4, <2>6, AscendingConcat
    <2>8. Live(list'["push"]) = {} /\ Ascending(list'["push"])
      BY <2>5, LiveEmpty DEF Ascending
    <2>9. OneWalker' /\ WalkOK'
      BY <1>0, <1>1, <2>5 DEF OneWalker, WalkOK
    <2>10. QueueOrdered'
      BY <1>0, <1>2, <2>2, <2>3, <2>7, <2>8 DEF QueueOrdered, Below
    <2>11. AllThere'
      <3> SUFFICES ASSUME ~lossy' PROVE AllThere'
        BY DEF AllThere
      <3>1. ~lossy /\ kept = list["push"] /\ rest = events
        BY <2>4
      <3> QED
        BY <1>0, <1>1, <1>2, <2>4, <2>7, <2>8, <3>1 DEF AllThere
    <2> QED
      BY <1>3, <2>9, <2>10, <2>11 DEF Ordered
  <1> QED
    BY <1>5, <1>6, <1>7

\* Steps that send nothing new and take nothing from the queue but a thrown event.
LEMMA QuietOrdered ==
    ASSUME QueueOrdered, MarksOrdered, AllThere,
           UNCHANGED <<events, published, pushed>>,
           Ascending(list'["push"]), \A n \in Live(list'["push"]) : n \in Live(list["push"]),
           \A n \in Gone' : n \in Gone, \A x \in Marks' : x \in Marks,
           ~lossy' => /\ ~lossy
                      /\ \A n \in Live(list["push"]) : n \in Live(list'["push"])
                      /\ \A n \in InBuffers \cup AtNodes : n \in (InBuffers \cup AtNodes)'
    PROVE  QueueOrdered' /\ MarksOrdered' /\ AllThere'
  <1>1. QueueOrdered'
    BY DEF QueueOrdered, Below
  <1>2. MarksOrdered'
    BY DEF MarksOrdered
  <1>3. AllThere'
    <2> SUFFICES ASSUME ~lossy' PROVE AllThere'
      BY DEF AllThere
    <2>1. /\ pushed <= published
          /\ \A n \in Live(events) \cup Live(list["push"]) : n > pushed
          /\ \A n \in 1..published : n > pushed => n \in Live(events) \cup Live(list["push"])
          /\ \A n \in 1..pushed : n \in InBuffers \cup AtNodes
      BY DEF AllThere
    <2> QED
      BY <2>1 DEF AllThere
  <1> QED
    BY <1>1, <1>2, <1>3

\* The push thread sends the oldest event that waits.
LEMMA SendOrdered ==
    ASSUME OnceInv, Ordered, SendEvent("push")
    PROVE  Ordered'
  <1>0. /\ TypeOK /\ SendingOK /\ WaitingOnce /\ SentOnce /\ SentAfterWaiting
        /\ OneWalker /\ WalkOK /\ QueueOrdered /\ BufferLast /\ NodesOrdered /\ MarksOrdered /\ AllThere
        /\ "push" \in Walkers /\ "exit" \in Walkers
        /\ list["push"] \in Seq(Entry) /\ published \in Nat /\ pushed \in Nat
    BY DEF OnceInv, QInv, Ordered, TypeOK, Walkers
  <1> DEFINE l == list["push"]
             i0 == ix["push"]
             n0 == l[i0].obj
             msg == [obj |-> n0, seq |-> pushed]
  <1>1. pc["push"] = "send" /\ i0 \in DOMAIN l /\ n0 # NULL /\ stamp["push"] = pushed /\ conn["push"] # NoAddr
    BY <1>0 DEF SendEvent, SendingOK, WalkOK
  <1>2. n0 \in Nat /\ msg \in Message /\ msg.obj = n0 /\ msg.seq = pushed /\ n0 \in Live(l)
    <2>1. n0 \in Nat
      BY <1>0, <1>1, EntryType
    <2>2. msg \in Message /\ msg.obj = n0 /\ msg.seq = pushed
      BY <1>0, <1>1, <2>1 DEF Message
    <2> QED
      BY <1>1, <2>1, <2>2, LiveMember
  <1>3. PICK kept \in BOOLEAN :
            /\ buffer' = [buffer EXCEPT !["push"] = Append(IF kept THEN @ ELSE <<>>, msg)]
            /\ lossy' = (lossy \/ (~kept /\ buffer["push"] # <<>>))
    BY <1>1 DEF SendEvent
  <1> DEFINE old == IF kept THEN buffer["push"] ELSE <<>>
  <1>4. /\ list'["push"] = [l EXCEPT ![i0].obj = NULL] /\ list'["exit"] = list["exit"]
        /\ ix'["push"] = i0 + 1 /\ pc'["push"] = "walk"
        /\ buffer'["push"] = Append(old, msg) /\ buffer'["exit"] = buffer["exit"]
        /\ pushed' = pushed + 1
        /\ UNCHANGED <<events, published, conn, delivered, late>>
    BY <1>0, <1>1, <1>3 DEF SendEvent, Sent, TypeOK, nodeVars
  <1>5. old \in Seq(Message) /\ (old = buffer["push"] \/ old = <<>>) /\ (~lossy' => old = buffer["push"] /\ ~lossy)
    <2>1. buffer["push"] \in Seq(Message) /\ <<>> \in Seq(Message)
      BY <1>0 DEF TypeOK
    <2>2. CASE kept
      BY <1>3, <2>1, <2>2
    <2>3. CASE ~kept
      BY <1>3, <2>1, <2>3
    <2> QED
      BY <2>2, <2>3
  <1>6. i0 \in Nat /\ \A j \in DOMAIN l : j < i0 => l[j].obj = NULL
    BY <1>0, <1>1 DEF WalkOK, TypeOK
  <1>7. /\ Ascending(list'["push"]) /\ DOMAIN list'["push"] = DOMAIN l
        /\ \A n \in Live(l) : n \in Live(list'["push"]) \/ n = n0
        /\ \A j \in DOMAIN l : j # i0 => list'["push"][j] = l[j]
        /\ list'["push"][i0].obj = NULL
    <2> DEFINE t == [l EXCEPT ![i0].obj = NULL]
    <2>1. /\ Ascending(l) => Ascending(t)
          /\ \A n \in Live(l) : n \in Live(t) \/ n = l[i0].obj
          /\ DOMAIN t = DOMAIN l
          /\ \A j \in DOMAIN l : j # i0 => t[j] = l[j]
          /\ t[i0].obj = NULL
      BY <1>0, <1>1, AscendingNulled
    <2>2. Ascending(l) /\ list'["push"] = t
      BY <1>0, <1>4 DEF QueueOrdered
    <2> HIDE DEF t
    <2> QED
      BY <2>1, <2>2
  <1>8. (\A n \in Live(list'["push"]) : n \in Live(l)) /\ n0 \notin Live(list'["push"])
    BY <1>0, <1>1, <1>4, LiveNulled DEF WaitingOnce
  <1>9. \A n \in Live(l) : n0 = n \/ n0 < n
    BY <1>0, <1>1, <1>6, FirstIsLeast DEF QueueOrdered
  <1> HIDE DEF l, i0, n0, msg, old
  <1>10. l = list["push"] /\ i0 = ix["push"]
    BY DEF l, i0
  <1>11. Below(Gone, {n0}) /\ Below({n0}, Live(events)) /\ Below({n0}, Live(list'["push"]))
    BY <1>0, <1>2, <1>8, <1>9, <1>10 DEF QueueOrdered, Below
  <1>12. \A k : k \in Live(buffer'["push"]) <=> k \in Live(old) \/ k = n0
    <2>1. \A k : k \in Live(Append(old, msg)) <=> k \in Live(old) \/ k = msg.obj
      BY <1>1, <1>2, <1>5, AscendingAppend
    <2> QED
      BY <1>2, <1>4, <2>1
  <1>13. \A k \in Live(old) : k \in Live(buffer["push"]) /\ k \in Gone
    BY <1>0, <1>5, LiveEmpty, GoneMember DEF GoneMembers
  <1>14. Ascending(buffer'["push"])
    <2>1. Ascending(old) /\ Below(Live(old), {n0})
      BY <1>0, <1>5, <1>11, <1>13 DEF BufferLast, Ascending, Below
    <2> QED
      BY <1>1, <1>2, <1>4, <1>5, <2>1, AscendingAppend
  <1>15. \A k \in Gone' : k \in Gone \/ k = n0
    <2>1. \A w \in Walkers : w = "push" \/ w = "exit"
      BY DEF Walkers
    <2> QED
      BY <1>4, <1>12, <1>13, <2>1, GoneMember, GoneMemberNext DEF GoneMembers
  <1>16. \A x \in Marks' : x \in Marks \/ x = Mark(msg)
    <2>1. ASSUME NEW x \in MarksOf(buffer'["push"]) PROVE x \in MarksOf(buffer["push"]) \/ x = Mark(msg)
      <3>0. \E j \in DOMAIN buffer'["push"] : x = Mark(buffer'["push"][j])
        BY <2>1, MarkOf
      <3>1. PICK j \in DOMAIN Append(old, msg) : x = Mark(Append(old, msg)[j])
        BY <1>4, <3>0
      <3>2. \/ j \in DOMAIN old /\ Append(old, msg)[j] = old[j]
            \/ Append(old, msg)[j] = msg
        BY <1>2, <1>5
      <3>3. j \in DOMAIN old => old = buffer["push"]
        BY <1>5
      <3> QED
        BY <3>1, <3>2, <3>3, MarkOf
    <2>2. \A w \in Walkers : w = "push" \/ w = "exit"
      BY DEF Walkers
    <2> QED
      BY <1>0, <1>4, <2>1, <2>2, MarkMember, MarkMemberNext DEF MarkMembers
  <1>17. OneWalker'
    BY <1>0, <1>4 DEF OneWalker
  <1>18. WalkOK'
    <2>1. ASSUME NEW j \in DOMAIN l, j < i0 + 1 PROVE list'["push"][j].obj = NULL
      <3>1. j \in Nat
        BY <1>0, <1>10
      <3>2. j < i0 \/ j = i0
        BY <1>6, <2>1, <3>1
      <3> QED
        BY <1>6, <1>7, <3>2
    <2> QED
      BY <1>1, <1>4, <1>7, <2>1 DEF WalkOK
  <1>19. QueueOrdered'
    BY <1>0, <1>4, <1>7, <1>8, <1>10, <1>11, <1>15 DEF QueueOrdered, Below
  <1>20. BufferLast'
    <2>1. ASSUME NEW a \in Addrs PROVE Below(Live(delivered[a]), Live(buffer'["push"]))
      BY <1>0, <1>11, <1>12, <1>13, GoneMember DEF BufferLast, Below, GoneMembers
    <2>2. ASSUME NEW a \in Addrs, NEW s \in late[a] PROVE Below(Live(s), Live(buffer'["push"]))
      BY <1>0, <1>11, <1>12, <1>13, GoneMember DEF BufferLast, Below, GoneMembers
    <2> QED
      BY <1>4, <1>14, <2>1, <2>2 DEF BufferLast
  <1>21. NodesOrdered'
    BY <1>0, <1>4 DEF NodesOrdered
  <1>22. MarksOrdered'
    <2>1. \A x \in Marks : x.obj < n0 /\ x.obj \in Nat /\ x.seq \in Nat /\ x.seq < pushed
      BY <1>0, <1>11, MarkTyped DEF Below, MarksOrdered
    <2>2. Mark(msg).obj = n0 /\ Mark(msg).seq = pushed
      BY <1>2 DEF Mark
    <2>3. \A x \in Marks' : x.seq < pushed'
      BY <1>0, <1>4, <1>16, <2>1, <2>2
    <2>4. ASSUME NEW x \in Marks', NEW y \in Marks', x.obj < y.obj PROVE x.seq < y.seq
      <3>1. CASE x \in Marks /\ y \in Marks
        BY <1>0, <2>4, <3>1 DEF MarksOrdered
      <3>2. CASE x \in Marks /\ y = Mark(msg)
        BY <2>1, <2>2, <3>2
      <3>3. CASE x = Mark(msg)
        BY <1>2, <1>16, <2>1, <2>2, <2>4, <3>3
      <3> QED
        BY <1>16, <3>1, <3>2, <3>3
    <2> QED
      BY <2>3, <2>4 DEF MarksOrdered
  <1>23. AllThere'
    <2> SUFFICES ASSUME ~lossy' PROVE AllThere'
      BY DEF AllThere
    <2>1. /\ pushed <= published
          /\ \A n \in Live(events) \cup Live(l) : n > pushed
          /\ \A n \in 1..published : n > pushed => n \in Live(events) \cup Live(l)
          /\ \A n \in 1..pushed : n \in InBuffers \cup AtNodes
      BY <1>0, <1>5, <1>10 DEF AllThere
    <2>2. /\ \A n \in Live(events) : n \in 1..published
          /\ \A n \in Live(l) : n \in 1..published
      BY <1>0, <1>10 DEF SentAfterWaiting
    <2>3. n0 = pushed + 1 /\ pushed + 1 <= published
      <3>1. n0 > pushed /\ n0 <= published
        BY <1>2, <2>1, <2>2
      <3>2. pushed + 1 \in 1..published
        BY <1>0, <1>2, <3>1
      <3>3. pushed + 1 \in Live(events) \cup Live(l)
        BY <1>0, <2>1, <3>2
      <3>4. n0 <= pushed + 1
        BY <1>0, <1>2, <1>9, <1>11, <3>3 DEF Below
      <3> QED
        BY <1>0, <1>2, <3>1, <3>4
    <2>4. \A n \in (Live(events) \cup Live(list["push"]))' : n > pushed'
      <3>1. \A n \in Live(events') \cup Live(list'["push"]) : n \in Nat /\ n > pushed /\ n # n0
        <4>1. \A n \in Live(events) : n \in Nat /\ n > pushed /\ n # n0
          BY <1>2, <1>11, <2>1, <2>2 DEF Below
        <4>2. \A n \in Live(list'["push"]) : n \in Nat /\ n > pushed /\ n # n0
          BY <1>8, <2>1, <2>2
        <4> QED
          BY <1>4, <4>1, <4>2
      <3>2. \A n \in Nat : n > pushed /\ n # n0 => n > pushed'
        BY <1>0, <1>4, <2>3
      <3> QED
        BY <3>1, <3>2
    <2>5. ASSUME NEW n \in 1..published', n > pushed' PROVE n \in (Live(events) \cup Live(list["push"]))'
      <3>1. n \in 1..published /\ n > pushed /\ n # n0
        BY <1>0, <1>4, <2>3, <2>5
      <3> QED
        BY <1>4, <1>7, <2>1, <3>1
    <2>6. ASSUME NEW n \in 1..pushed' PROVE n \in (InBuffers \cup AtNodes)'
      <3>0. buffer["exit"] = <<>> /\ buffer'["exit"] = <<>>
        BY <1>0, <1>4 DEF OneWalker
      <3>1. \A k : k \in (InBuffers \cup AtNodes)' <=>
                k \in Live(buffer'["push"]) \/ \E a \in Addrs : k \in Live(delivered[a])
        BY <1>4, <3>0, BufferedMemberNext DEF BufferedMembers
      <3>2. n \in 1..pushed \/ n = n0
        BY <1>0, <1>4, <2>3
      <3>3. n \in 1..pushed => n \in Live(buffer["push"]) \/ \E a \in Addrs : n \in Live(delivered[a])
        BY <2>1, <3>0, BufferedMember DEF BufferedMembers
      <3> QED
        BY <1>5, <1>12, <3>1, <3>2, <3>3
    <2> QED
      BY <1>0, <1>4, <2>3, <2>4, <2>5, <2>6 DEF AllThere
  <1> QED
    BY <1>17, <1>18, <1>19, <1>20, <1>21, <1>22, <1>23 DEF Ordered

\* The other steps of the push thread.
LEMMA WalkOrdered ==
    ASSUME OnceInv, Ordered, Walk("push"), ~SendEvent("push")
    PROVE  Ordered'
  <1>0. /\ TypeOK /\ SendingOK /\ WaitingOnce /\ SentOnce
        /\ OneWalker /\ WalkOK /\ QueueOrdered /\ BufferLast /\ NodesOrdered /\ MarksOrdered /\ AllThere
        /\ "push" \in Walkers /\ "exit" \in Walkers /\ \A w \in Walkers : w = "push" \/ w = "exit"
        /\ list["push"] \in Seq(Entry) /\ ix["push"] \in Nat
        /\ pc["push"] \in {"idle", "walk", "send", "halted", "failed", "done"}
    BY DEF OnceInv, QInv, Ordered, TypeOK, Walkers
  <1>1. /\ Ascending(list["push"])
        /\ conn["push"] = NoAddr => buffer["push"] = <<>>
    BY <1>0 DEF QueueOrdered, WalkOK
  <1>2. ASSUME UNCHANGED <<buffer, nodeVars>>
        PROVE  /\ BufferLast' /\ NodesOrdered'
               /\ Gone' = Gone /\ Marks' = Marks /\ (InBuffers \cup AtNodes)' = InBuffers \cup AtNodes
    <2>1. Gone' = Gone /\ Marks' = Marks /\ (InBuffers \cup AtNodes)' = InBuffers \cup AtNodes
      BY <1>2 DEF nodeVars, Gone, InBuffers, AtNodes, InSockets, Sockets, Marks, BufferMarks, NodeMarks, SocketMarks
    <2> QED
      BY <1>0, <1>2, <2>1 DEF nodeVars, BufferLast, NodesOrdered
  <1>3. CASE SkipNull("push") \/ StampEvent("push")
    <2>1. UNCHANGED <<events, published, pushed, list, conn, buffer, nodeVars, lossy>>
      BY <1>3 DEF SkipNull, StampEvent
    <2>2. /\ BufferLast' /\ NodesOrdered'
          /\ Gone' = Gone /\ Marks' = Marks /\ (InBuffers \cup AtNodes)' = InBuffers \cup AtNodes
      BY <1>2, <2>1
    <2>3. QueueOrdered' /\ MarksOrdered' /\ AllThere'
      BY <1>0, <1>1, <2>1, <2>2, QuietOrdered
    <2>4. OneWalker'
      BY <1>0, <2>1 DEF OneWalker
    <2>5. ASSUME SkipNull("push") PROVE WalkOK'
      <3>1. /\ pc["push"] = "walk" /\ pc' = pc /\ stamp' = stamp /\ ix'["push"] = ix["push"] + 1
            /\ list["push"][ix["push"]].obj = NULL
        BY <1>0, <2>5 DEF SkipNull, AtEntry, TypeOK
      <3>2. ASSUME NEW i \in DOMAIN list["push"], i < ix["push"] + 1 PROVE list["push"][i].obj = NULL
        <4>1. i \in Nat
          BY <1>0
        <4>2. i < ix["push"] \/ i = ix["push"]
          BY <1>0, <3>2, <4>1
        <4> QED
          BY <1>0, <3>1, <4>2 DEF WalkOK
      <3> QED
        BY <1>0, <2>1, <3>1, <3>2 DEF WalkOK
    <2>6. ASSUME StampEvent("push") PROVE WalkOK'
      <3>1. /\ pc["push"] = "walk" /\ pc'["push"] = "send" /\ stamp'["push"] = pushed /\ ix' = ix
            /\ conn["push"] = list["push"][ix["push"]].addr /\ ix["push"] \in DOMAIN list["push"]
        BY <1>0, <2>6 DEF StampEvent, Sequence, AtEntry, TypeOK
      <3>2. conn["push"] # NoAddr
        BY <1>0, <3>1, EntryType, EventQueueAssumption
      <3> QED
        BY <1>0, <2>1, <3>1, <3>2 DEF WalkOK
    <2> QED
      BY <1>3, <2>2, <2>3, <2>4, <2>5, <2>6 DEF Ordered
  <1>4. CASE SendFails("push")
    <2>1. /\ UNCHANGED <<events, published, pushed, list, conn, nodeVars>>
          /\ pc'["push"] = "halted" /\ pc["push"] = "send"
      BY <1>0, <1>4 DEF SendFails, TypeOK
    <2>2. \/ buffer' = buffer /\ lossy' = lossy
          \/ buffer' = [buffer EXCEPT !["push"] = <<>>] /\ lossy' = (lossy \/ buffer["push"] # <<>>)
      BY <1>4 DEF SendFails
    <2>3. /\ buffer'["exit"] = <<>> /\ buffer["exit"] = <<>>
          /\ buffer'["push"] = buffer["push"] \/ (buffer'["push"] = <<>> /\ lossy')
          /\ ~lossy' => ~lossy
      BY <1>0, <2>2 DEF OneWalker, TypeOK
    <2>4. /\ delivered' = delivered /\ late' = late
          /\ \A k \in Live(buffer'["push"]) : k \in Live(buffer["push"])
          /\ \A x \in MarksOf(buffer'["push"]) : x \in MarksOf(buffer["push"])
          /\ Ascending(buffer'["push"])
      BY <1>0, <2>1, <2>3, LiveEmpty DEF BufferLast, Ascending, MarksOf, nodeVars
    <2>5. BufferLast' /\ NodesOrdered'
      BY <1>0, <2>4 DEF BufferLast, NodesOrdered, Below
    <2>6. \A k \in Gone' : k \in Gone
      BY <1>0, <2>3, <2>4, GoneMember, GoneMemberNext DEF GoneMembers
    <2>7. \A x \in Marks' : x \in Marks
      BY <1>0, <2>3, <2>4, MarkMember, MarkMemberNext DEF MarkMembers
    <2>8. ~lossy' => \A n \in InBuffers \cup AtNodes : n \in (InBuffers \cup AtNodes)'
      BY <2>3, <2>4, BufferedMember, BufferedMemberNext DEF BufferedMembers
    <2>9. QueueOrdered' /\ MarksOrdered' /\ AllThere'
      BY <1>0, <1>1, <2>1, <2>3, <2>6, <2>7, <2>8, QuietOrdered
    <2>10. OneWalker' /\ WalkOK'
      BY <1>0, <2>1, <2>3 DEF OneWalker, WalkOK
    <2> QED
      BY <2>5, <2>9, <2>10 DEF Ordered
  <1>5. ASSUME NEW thrown \in BOOLEAN, LeaveConnection("push", thrown),
               UNCHANGED <<events, published, pushed>>, list'["exit"] = list["exit"],
               Ascending(list'["push"]), \A n \in Live(list'["push"]) : n \in Live(list["push"]),
               thrown \/ \A n \in Live(list["push"]) : n \in Live(list'["push"]),
               WalkOK'
        PROVE  Ordered'
    <2>1. /\ BufferLast' /\ NodesOrdered'
          /\ buffer'["exit"] = <<>>
          /\ \A x \in Marks' : x \in Marks
          /\ ~lossy' => /\ ~lossy /\ ~thrown
                        /\ \A n \in InBuffers \cup AtNodes : n \in (InBuffers \cup AtNodes)'
      BY <1>0, <1>1, <1>5, LeaveOrdered
    <2>2. \A n \in Gone' : n \in Gone
      BY <1>0, <1>5, LeaveSent
    <2>3. QueueOrdered' /\ MarksOrdered' /\ AllThere'
      BY <1>0, <1>5, <2>1, <2>2, QuietOrdered
    <2>4. OneWalker'
      BY <1>0, <1>5, <2>1 DEF OneWalker
    <2> QED
      BY <1>5, <2>1, <2>3, <2>4 DEF Ordered
  <1>6. ASSUME NEW thrown, LeaveConnection("push", thrown) PROVE buffer'["push"] = <<>>
    BY <1>0, <1>6 DEF LeaveConnection, TypeOK
  <1>7. CASE ChangeConnection("push")
    <2>1. /\ LeaveConnection("push", FALSE) /\ UNCHANGED <<events, published, pushed, pc, list, ix, stamp>>
          /\ pc["push"] = "walk"
      BY <1>7 DEF ChangeConnection, AtEntry
    <2>2. WalkOK'
      BY <1>0, <1>6, <2>1 DEF WalkOK
    <2> QED
      BY <1>1, <1>5, <2>1, <2>2
  <1>8. CASE NoConnection("push")
    <2>1. /\ LeaveConnection("push", TRUE) /\ UNCHANGED <<events, published, pushed, ix, stamp>>
          /\ pc'["push"] = "halted"
          /\ list'["push"] = [list["push"] EXCEPT ![ix["push"]].obj = NULL] /\ list'["exit"] = list["exit"]
          /\ ix["push"] \in DOMAIN list["push"]
      <3>1. ix["push"] \in DOMAIN list["push"]
        BY <1>0, <1>8 DEF NoConnection, AtEntry, TypeOK
      <3>2. LeaveConnection("push", TRUE) /\ UNCHANGED <<events, published, pushed, ix, stamp>>
        BY <1>8 DEF NoConnection
      <3>3. pc' = [pc EXCEPT !["push"] = "halted"] /\ list' = [list EXCEPT !["push"] = [@ EXCEPT ![ix["push"]].obj = NULL]]
        BY <1>8 DEF NoConnection, Discarded
      <3>4. pc'["push"] = "halted" /\ list'["exit"] = list["exit"]
            /\ list'["push"] = [list["push"] EXCEPT ![ix["push"]].obj = NULL]
        BY <1>0, <3>3 DEF TypeOK
      <3> QED
        BY <3>1, <3>2, <3>4
    <2>2. WalkOK'
      BY <1>6, <2>1 DEF WalkOK
    <2>3. Ascending(list'["push"])
      BY <1>0, <1>1, <2>1, AscendingNulled
    <2>4. \A n \in Live(list'["push"]) : n \in Live(list["push"])
      BY <1>0, <2>1, LiveNulled
    <2> QED
      BY <1>5, <2>1, <2>2, <2>3, <2>4
  <1>9. CASE EndWalk("push")
    <2>1. /\ LeaveConnection("push", FALSE) /\ UNCHANGED <<events, published, pushed, ix, stamp>>
          /\ list'["exit"] = list["exit"]
          /\ \/ pc["push"] = "halted" /\ pc'["push"] = "failed" /\ list'["push"] = list["push"]
             \/ /\ pc["push"] = "walk" /\ ix["push"] > Len(list["push"])
                /\ pc'["push"] = "idle" /\ list'["push"] = <<>>
      BY <1>0, <1>9 DEF EndWalk, TypeOK
    <2>2. WalkOK'
      BY <1>6, <2>1 DEF WalkOK
    <2>3. CASE list'["push"] = list["push"]
      BY <1>1, <1>5, <2>1, <2>2, <2>3
    <2>4. CASE pc["push"] = "walk" /\ ix["push"] > Len(list["push"]) /\ list'["push"] = <<>>
      <3>1. \A i \in DOMAIN list["push"] : i < ix["push"]
        BY <1>0, <2>4
      <3>2. \A i \in DOMAIN list["push"] : list["push"][i].obj = NULL
        BY <1>0, <2>4, <3>1 DEF WalkOK
      <3>3. Live(list["push"]) = {} /\ Live(list'["push"]) = {} /\ Ascending(list'["push"])
        BY <2>4, <3>2, LiveEmpty DEF Live, Ascending
      <3> QED
        BY <1>5, <2>1, <2>2, <3>3
    <2> QED
      BY <2>1, <2>3, <2>4
  <1> QED
    BY <1>3, <1>4, <1>7, <1>8, <1>9 DEF Walk

\* A node that reads or drops what was left in a socket.
LEMMA NodeStepOrdered ==
    ASSUME OnceInv, Ordered, NEW a \in Addrs, LateDelivery(a) \/ LateLoss(a)
    PROVE  Ordered'
  <1>0. /\ TypeOK /\ SentOnce
        /\ OneWalker /\ WalkOK /\ QueueOrdered /\ BufferLast /\ NodesOrdered /\ MarksOrdered /\ AllThere
    BY DEF OnceInv, QInv, Ordered
  <1>1. UNCHANGED <<events, published, pushed, walkVars, lossy>>
    BY DEF LateDelivery, LateLoss
  <1>2. /\ BufferLast' /\ NodesOrdered'
        /\ \A x \in Marks' : x \in Marks
        /\ \A n \in InBuffers \cup AtNodes : n \in (InBuffers \cup AtNodes)'
    BY <1>0, LateOrdered DEF OneWalker
  <1>3. \A n \in Gone' : n \in Gone
    BY <1>0, LateSent, LossSent
  <1>4. list' = list /\ Ascending(list["push"])
    BY <1>0, <1>1 DEF walkVars, QueueOrdered
  <1>5. QueueOrdered' /\ MarksOrdered' /\ AllThere'
    BY <1>0, <1>1, <1>2, <1>3, <1>4, QuietOrdered
  <1>6. OneWalker' /\ WalkOK'
    BY <1>0, <1>1 DEF walkVars, OneWalker, WalkOK
  <1> QED
    BY <1>2, <1>5, <1>6 DEF Ordered

\* At the start there is nothing to order.
LEMMA InitOrdered == Init => OrderInv
  <1> SUFFICES ASSUME Init PROVE Ordered
    BY InitOnce DEF OrderInv
  <1>1. /\ events = <<>> /\ published = 0 /\ pushed = 0 /\ pc["push"] = "idle" /\ conn["push"] = NoAddr
        /\ \A w \in Walkers : list[w] = <<>> /\ buffer[w] = <<>>
        /\ \A a \in Addrs : delivered[a] = <<>> /\ late[a] = {}
        /\ "push" \in Walkers /\ "exit" \in Walkers
    BY DEF Init, Walkers
  <1>2. (\A n : n \notin Gone) /\ (\A x : x \notin MarksOf(<<>>)) /\ (\A x : x \notin Marks)
    BY <1>1, GoneMember, MarkMember, LiveEmpty DEF GoneMembers, MarkMembers, MarksOf
  <1>3. OneWalker /\ WalkOK
    BY <1>1 DEF OneWalker, WalkOK
  <1>4. QueueOrdered /\ BufferLast /\ NodesOrdered
    BY <1>1, <1>2, LiveEmpty DEF QueueOrdered, BufferLast, NodesOrdered, InOrder, Ascending, Below
  <1>5. MarksOrdered /\ AllThere
    BY <1>1, <1>2, LiveEmpty DEF MarksOrdered, AllThere
  <1> QED
    BY <1>3, <1>4, <1>5 DEF Ordered

\* Every step keeps the order until the destructor runs.
LEMMA NextOrdered == OrderInv /\ [Next]_vars => OrderInv'
  <1> SUFFICES ASSUME OrderInv, [Next]_vars PROVE OrderInv'
    OBVIOUS
  <1>1. OnceInv'
    BY NextOnce, NextTypeOK, NextSendingOK DEF OrderInv, OnceInv, QInv
  <1>2. ASSUME MutexFree' PROVE Ordered'
    <2>1. MutexFree /\ Ordered /\ TypeOK /\ OnceInv
      BY <1>2, FreeSteps DEF OrderInv, OnceInv, QInv
    <2>2. CASE UNCHANGED vars
      <3>1. UNCHANGED <<events, published, pushed, pc, list, ix, conn, buffer, stamp, late, delivered, lossy>>
        BY <2>2 DEF vars, walkVars, nodeVars
      <3>2. Gone' = Gone /\ Marks' = Marks /\ InBuffers' = InBuffers /\ AtNodes' = AtNodes
        BY <3>1 DEF Gone, InBuffers, AtNodes, InSockets, Sockets, Marks, BufferMarks, NodeMarks, SocketMarks
      <3> QED
        BY <2>1, <3>1, <3>2
           DEF Ordered, OneWalker, WalkOK, QueueOrdered, BufferLast, NodesOrdered, MarksOrdered, AllThere
    <2>3. CASE \E a \in Addrs : LateDelivery(a) \/ LateLoss(a)
      BY <2>1, <2>3, NodeStepOrdered
    <2>4. CASE (\E a \in Addrs : Publish(a)) \/ Take \/ PutBack
      BY <2>1, <2>4, QueueStepOrdered
    <2>5. CASE Walk("push")
      BY <2>1, <2>5, SendOrdered, WalkOrdered
    <2> QED
      BY <1>2, <2>1, <2>2, <2>3, <2>4, <2>5, FreeSteps
  <1> QED
    BY <1>1, <1>2 DEF OrderInv

-----------------------------------------------------------------------------
\* For any nodes, limits, failures and number of events: while the process runs,
\* what a node reads of a connection in use is younger than all it read before,
\* and sequence numbers ascend with the age of the events across all nodes and
\* retries.  The destructor's walk, which overtakes the push thread, is excluded.
THEOREM DeliveredInOrder == Spec => []OrderedDelivery
  <1>1. OrderInv => OrderedDelivery
    <2> SUFFICES ASSUME OrderInv, MutexFree
                 PROVE  /\ \A a \in Addrs :
                               \A i, j \in DOMAIN delivered[a] :
                                   i < j /\ ~delivered[a][j].dropped
                                       => delivered[a][i].obj < delivered[a][j].obj
                        /\ \A r, s \in Receipts : r.obj < s.obj => r.seq < s.seq
      BY DEF OrderedDelivery
    <2>1. NodesOrdered /\ MarksOrdered
      BY DEF OrderInv, Ordered
    <2>2. ASSUME NEW r \in Receipts PROVE Mark(r) \in Marks
      <3>1. PICK a \in Addrs : \E i \in DOMAIN delivered[a] : r = delivered[a][i]
        BY DEF Receipts
      <3>2. Mark(r) \in MarksOf(delivered[a])
        BY <3>1, MarkOf
      <3> QED
        BY <3>2, MarkMember DEF MarkMembers
    <2>3. ASSUME NEW r \in Receipts, NEW s \in Receipts, r.obj < s.obj PROVE r.seq < s.seq
      <3>1. /\ Mark(r) \in Marks /\ Mark(r).obj = r.obj /\ Mark(r).seq = r.seq
            /\ Mark(s) \in Marks /\ Mark(s).obj = s.obj /\ Mark(s).seq = s.seq
        BY <2>2 DEF Mark
      <3> QED
        BY <2>1, <2>3, <3>1 DEF MarksOrdered
    <2> QED
      BY <2>1, <2>3 DEF NodesOrdered, InOrder
  <1> QED
    BY <1>1, InitOrdered, NextOrdered, PTL DEF Spec

\* For any nodes, limits, failures and number of events: until an event is thrown
\* away or a connection lost with commands in it, every accepted event waits, is
\* in the output or was received, and published - pushed counts those that wait.
THEOREM NoEventLost == Spec => []NothingLost
  <1>1. OrderInv => NothingLost
    <2> SUFFICES ASSUME OrderInv, ~lossy, MutexFree
                 PROVE  /\ 1..published \subseteq Waiting \cup Buffered \cup Received
                        /\ Remaining = Cardinality(Waiting)
      BY DEF NothingLost
    <2>1. /\ OneWalker /\ AllThere /\ SentAfterWaiting /\ published \in Nat /\ pushed \in Nat
      BY DEF OrderInv, Ordered, OnceInv, QInv, TypeOK
    <2>2. \A n : n \in Waiting <=> n \in Live(events) \/ n \in Live(list["push"])
      <3>1. \A n : n \in UNION {Live(list[w]) : w \in Walkers} <=> \E w \in Walkers : n \in Live(list[w])
        OBVIOUS
      <3>2. \A n : n \in Waiting <=> n \in Live(events) \/ \E w \in Walkers : n \in Live(list[w])
        BY <3>1 DEF Waiting
      <3>3. Live(list["exit"]) = {}
        BY <2>1, LiveEmpty DEF OneWalker
      <3> QED
        BY <3>2, <3>3 DEF Walkers
    <2>3. /\ pushed <= published
          /\ \A n \in Live(events) \cup Live(list["push"]) : n > pushed
          /\ \A n \in 1..published : n > pushed => n \in Live(events) \cup Live(list["push"])
          /\ \A n \in 1..pushed : n \in InBuffers \cup AtNodes
      BY <2>1 DEF AllThere
    <2>4. \A n \in Waiting : n \in 1..published
      BY <2>1, <2>2 DEF SentAfterWaiting, Walkers
    <2>5. Waiting = (pushed + 1)..published
      <3>1. ASSUME NEW n \in Waiting PROVE n \in (pushed + 1)..published
        <4>1. n \in 1..published /\ n > pushed
          BY <2>2, <2>3, <2>4
        <4> QED
          BY <2>1, <4>1
      <3>2. ASSUME NEW n \in (pushed + 1)..published PROVE n \in Waiting
        <4>1. n \in 1..published /\ n > pushed
          BY <2>1
        <4> QED
          BY <2>2, <2>3, <4>1
      <3> QED
        BY <3>1, <3>2
    <2>6. Remaining = Cardinality(Waiting)
      <3>1. Cardinality((pushed + 1)..published) = IF pushed + 1 > published THEN 0 ELSE published - (pushed + 1) + 1
        BY <2>1, FS_Interval
      <3>2. published - pushed = IF pushed + 1 > published THEN 0 ELSE published - (pushed + 1) + 1
        BY <2>1, <2>3
      <3> QED
        BY <2>5, <3>1, <3>2 DEF Remaining
    <2>7. \A n \in InBuffers : n \in Buffered
      <3>1. \A n : n \in Buffered <=> \E w \in Walkers : n \in {buffer[w][i].obj : i \in DOMAIN buffer[w]}
        BY DEF Buffered
      <3> QED
        BY <3>1 DEF InBuffers, Live
    <2>8. \A n \in AtNodes : n \in Received
      <3>1. \A n : n \in Received <=> \E a \in Addrs : n \in {delivered[a][i].obj : i \in DOMAIN delivered[a]}
        BY DEF Received
      <3> QED
        BY <3>1 DEF AtNodes, Live
    <2>9. ASSUME NEW n \in 1..published PROVE n \in Waiting \cup Buffered \cup Received
      <3>1. n > pushed \/ n \in 1..pushed
        BY <2>1
      <3> QED
        BY <2>2, <2>3, <2>7, <2>8, <3>1
    <2> QED
      BY <2>6, <2>9
  <1> QED
    BY <1>1, InitOrdered, NextOrdered, PTL DEF Spec
=============================================================================
