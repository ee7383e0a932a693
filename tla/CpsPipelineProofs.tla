------------------------- MODULE CpsPipelineProofs --------------------------
(***************************************************************************)
(* Proofs about CpsPipeline and the synchronisation that shares its        *)
(* connections: every reply is taken for the request it answers, and stored *)
(* objects stay complete.                                                  *)
(***************************************************************************)
EXTENDS CpsSync, CpsRegistrationsProofs, FiniteSetTheorems

-----------------------------------------------------------------------------
(* Types and inductive invariants *)

Item(V) == [key : Keys, val : V]
Database(V) == [Keys -> [obj : V \cup {Absent}, dirty : BOOLEAN]]
Req(V) == [cmd : {"get", "marked", "mark", "unmark"}, key : Keys]
          \cup [cmd : {"del", "scan", "ping"}, key : Keys \cup {NoKey}]
          \cup [cmd : {"store"}, key : Keys, val : V]
Distinct(s) == \A i, j \in DOMAIN s : s[i] = s[j] => i = j
Walks == {s \in Seq(Keys) : Distinct(s)}
Reply(V) == [of : Req(V), is : {"nil", "string", "pong", "int"}]
            \cup [of : Req(V), is : {"object"}, obj : Item(V)]
            \cup [of : Req(V), is : {"keys"}, keys : Walks]
Conn(V) == {c \in [up : BOOLEAN, out : Seq(Req(V)), in : Seq(Reply(V))] : c.up \/ Clean(c)}
OpenConn(V) == {c \in Conn(V) : c.up}

SyncRoles == {"dest", "meta", "marks", "source_get", "source_walk",
              "delete_walk", "delete_meta", "cleanup"}

PipeTyped(V) ==
    /\ db \in [Addrs -> Database(V)]
    /\ pool \in [Addrs -> Seq(OpenConn(V))]
    /\ DOMAIN held \subseteq SyncRoles \cup {"bulk"}
    /\ held \in [DOMAIN held -> Conn(V)]
    /\ lostBy \in SUBSET Threads
    /\ gaveUp \in BOOLEAN
    /\ touched \in SUBSET {"stored", "deleted"}

BulkTyped(V) ==
    /\ bulk \in [pc : {"idle", "store", "merging", "storing", "deleting", "getting"},
                 list : Seq(Item(Object)), done : Nat, left : Nat]
    /\ bulk.done + bulk.left <= Len(bulk.list)
    /\ bulk.pc \in {"store", "storing"} => bulk.list \in Seq(Item(V))
    /\ bulk.pc = "merging" => \A i \in 1..bulk.done : bulk.list[i] \in Item(V)
    /\ bulk.pc \in {"idle", "store"} => bulk.left = 0
    /\ bulk.pc = "idle" => bulk.done = 0
    /\ bulk.pc \notin {"idle", "store"} =>
          "bulk" \in DOMAIN held /\ (held["bulk"].up \/ "bulk" \in lostBy)

\* The keys of a pipeline are being answered.
Answering == {"mark reply", "dest reply", "source reply", "compare", "apply",
              "marked reply", "load", "delete", "unmark"}

\* The connections the synchronisation has at each place.
Needs(s) ==
    CASE s.pc = "meta" -> {"dest"}
      [] s.pc \in {"marks", "source_get", "delete_walk"} -> {"dest", "meta"}
      [] s.pc \in {"scan destination", "mark", "mark reply"} -> {"dest", "meta", "marks"}
      [] s.pc = "source_walk" -> {"dest", "meta", "source_get"}
      [] s.pc \in {"ping", "scan source"} -> {"dest", "meta", "source_get", "source_walk"}
      [] s.pc \in {"request", "dest reply", "source reply", "compare", "apply"} ->
            {"dest", "meta"} \cup (IF s.list THEN {} ELSE {"source_get"})
      [] s.pc = "delete_meta" -> {"dest", "meta", "delete_walk"}
      [] s.pc = "cleanup" -> {"dest", "meta", "delete_walk", "delete_meta"}
      [] s.pc \in {"scan marked", "marked", "marked reply", "load", "delete", "unmark"} ->
            {"dest", "meta", "delete_walk", "delete_meta", "cleanup"}
      [] OTHER -> {}

Places == {"idle", "ok", "err", "scan destination", "mark", "ping", "scan source", "request",
           "scan marked", "marked"} \cup SyncRoles \cup Answering

Marking == {"mark", "mark reply"}
Comparing == {"request", "dest reply", "source reply", "compare", "apply"}
Sourcing == {"source_get", "source_walk", "ping", "scan source"} \cup Comparing
Removing == {"marked", "marked reply", "load", "delete", "unmark"}
Deleting == {"delete_walk", "delete_meta", "cleanup", "scan marked"} \cup Removing

SyncRecord(V) ==
    [pc : Places, list : BOOLEAN, objs : [Keys -> V \cup {Absent}] \cup {<<>>},
     keys : Seq(Keys), cache : Seq(Keys),
     src : [key : Keys \cup {NoKey}, val : Object], dest : [key : Keys \cup {NoKey}, val : Object],
     found : BOOLEAN, rc : {"none", "ok", "err"}, agreed : BOOLEAN]

\* All keys of w are of objects in the list.
AllListed(w, objs) == \A i \in DOMAIN w : objs[w[i]] # Absent

SyncOk(s, V) ==
    /\ s \in SyncRecord(V)
    /\ Distinct(s.keys) /\ Distinct(s.cache)
    /\ s.cache # <<>> <=> s.pc \in Answering
    /\ s.pc \in {"compare", "apply"} => s.src \in Item(V)
    /\ s.pc # "idle" => s.objs \in [Keys -> V \cup {Absent}]
    /\ s.pc \in {"source_get", "source_walk", "ping", "scan source", "source reply"} => ~s.list
    /\ s.list /\ s.pc \in Comparing => AllListed(s.keys, s.objs) /\ AllListed(s.cache, s.objs)

Taken ==
    /\ Needs(sync) \subseteq DOMAIN held
    /\ sync.pc = "idle" => SyncRoles \cap DOMAIN held = {}

\* The objects that are stored, sent and read have values in V.
TypedFor(V) == PipeTyped(V) /\ BulkTyped(V) /\ SyncOk(sync, V)

\* They are complete until a bulk operation has lost a connection.
TypedInv ==
    /\ Taken
    /\ TypedFor(Object)
    /\ "bulk" \notin lostBy => TypedFor(Complete)

\* What replies are due on a connection.
BulkRequest(pc, o) ==
    IF pc = "storing" THEN Store(o)
    ELSE Request(IF pc = "deleting" THEN "del" ELSE "get", o.key)

BulkDue(b) == [i \in 1..b.left |-> BulkRequest(b.pc, b.list[b.done + i])]

\* The pipeline of the synchronisation: replies to all keys of the cache, or to
\* all but the first, are due.
AllDue(role, pc) ==
    \/ role = "marks" /\ pc = "mark reply"
    \/ role = "dest" /\ pc = "dest reply"
    \/ role = "source_get" /\ pc \in {"dest reply", "source reply"}
    \/ role = "delete_meta" /\ pc = "marked reply"
RestDue(role, pc) ==
    \/ role = "dest" /\ pc \in {"source reply", "compare", "apply"}
    \/ role = "source_get" /\ pc \in {"compare", "apply"}
    \/ role = "delete_meta" /\ pc \in {"load", "delete", "unmark"}
Pending(role, s) ==
    IF s.list /\ role = "source_get" THEN <<>>
    ELSE IF AllDue(role, s.pc) THEN s.cache
    ELSE IF RestDue(role, s.pc) THEN Tail(s.cache)
    ELSE <<>>
SentOn(role) == IF role = "marks" THEN "mark" ELSE IF role = "delete_meta" THEN "marked" ELSE "get"
SyncDue(role, s) == Requests(SentOn(role), Pending(role, s))

Due(role) == IF role = "bulk" THEN BulkDue(bulk) ELSE SyncDue(role, sync)
ThreadOf(role) == IF role = "bulk" THEN "bulk" ELSE "sync"

\* A connection owes these replies, or none because it was lost.
Served(c, due, thread, lost) ==
    /\ Outstanding(c) = due \/ (Clean(c) /\ thread \in lost)
    /\ c.up \/ thread \in lost

AllClean(p) == \A a \in Addrs : \A i \in DOMAIN p[a] : Clean(p[a][i])

Aligned ==
    /\ AllClean(pool)
    /\ \A role \in DOMAIN held : Served(held[role], Due(role), ThreadOf(role), lostBy)
AlignedInv == gaveUp \/ Aligned

\* A key of a walk.
InRange(k, s) == \E i \in DOMAIN s : s[i] = k

-----------------------------------------------------------------------------
(* Databases, requests and replies *)

\* There are two databases.
LEMMA AddrsAre == Addrs = {Src, Dst} /\ Src # Dst
  BY PipelineAssumption DEF Addrs

\* The values of objects.
LEMMA ObjectsAre ==
    /\ Complete \subseteq Object
    /\ Absent \notin Object
    /\ Update \in Object
    /\ Stored \subseteq Complete
    /\ [a \in Attrs |-> None] \in Object
  BY PipelineAssumption DEF Complete, Object

\* More values, more items.
LEMMA ItemsGrow ==
    ASSUME NEW V, NEW W, V \subseteq W
    PROVE  Item(V) \subseteq Item(W)
  BY DEF Item

\* More values, more databases.
LEMMA DatabasesGrow ==
    ASSUME NEW V, NEW W, V \subseteq W
    PROVE  Database(V) \subseteq Database(W)
  BY DEF Database

\* More values, more requests.
LEMMA ReqsGrow ==
    ASSUME NEW V, NEW W, V \subseteq W
    PROVE  Req(V) \subseteq Req(W)
  BY DEF Req

\* More values, more replies.
LEMMA RepliesGrow ==
    ASSUME NEW V, NEW W, V \subseteq W
    PROVE  Reply(V) \subseteq Reply(W)
  <1>1. Req(V) \subseteq Req(W) /\ Item(V) \subseteq Item(W)
    BY ReqsGrow, ItemsGrow
  <1> QED
    BY <1>1 DEF Reply

\* More values, more connections.
LEMMA ConnsGrow ==
    ASSUME NEW V, NEW W, V \subseteq W
    PROVE  Conn(V) \subseteq Conn(W) /\ OpenConn(V) \subseteq OpenConn(W)
  <1>1. Req(V) \subseteq Req(W) /\ Reply(V) \subseteq Reply(W)
    BY ReqsGrow, RepliesGrow
  <1>2. \A s \in Seq(Req(V)) : s \in Seq(Req(W))
    BY <1>1, SeqMonotonic
  <1>3. \A s \in Seq(Reply(V)) : s \in Seq(Reply(W))
    BY <1>1, SeqMonotonic
  <1>4. Conn(V) \subseteq Conn(W)
    BY <1>2, <1>3 DEF Conn
  <1> QED
    BY <1>4 DEF OpenConn

\* Request keeps the types.
LEMMA RequestTyped ==
    ASSUME NEW V, NEW k \in Keys
    PROVE  /\ Request("get", k) \in Req(V) /\ Request("marked", k) \in Req(V)
           /\ Request("mark", k) \in Req(V) /\ Request("unmark", k) \in Req(V)
           /\ Request("del", k) \in Req(V)
  BY DEF Request, Req

\* Requests without a key.
LEMMA OtherRequestTyped ==
    ASSUME NEW V
    PROVE  /\ Request("scan", NoKey) \in Req(V) /\ Request("ping", NoKey) \in Req(V)
           /\ Request("del", NoKey) \in Req(V)
  BY DEF Request, Req

\* Requests that store an object.
LEMMA StoreTyped ==
    ASSUME NEW V, NEW o \in Item(V)
    PROVE  Store(o) \in Req(V)
  BY DEF Store, Req, Item

\* A request leaves the database typed.
LEMMA EffectTyped ==
    ASSUME NEW V, NEW d \in Database(V), NEW r \in Req(V)
    PROVE  Effect(d, r) \in Database(V)
  <1>1. CASE r.key \notin Keys
    BY <1>1 DEF Effect
  <1>2. CASE r.key \in Keys
    <2>1. CASE r.cmd = "store"
      <3>1. r.val \in V
        BY <2>1 DEF Req
      <3> QED
        BY <1>2, <2>1, <3>1 DEF Effect, Database
    <2>2. CASE r.cmd # "store"
      BY <1>2, <2>2 DEF Effect, Database, NoHash
    <2> QED
      BY <2>1, <2>2
  <1> QED
    BY <1>1, <1>2

\* A finite set as a sequence.
LEMMA SetToSeqIs ==
    ASSUME NEW S, IsFiniteSet(S)
    PROVE  /\ SetToSeq(S) \in Seq(S)
           /\ Distinct(SetToSeq(S))
           /\ \A x \in S : \E i \in DOMAIN SetToSeq(S) : SetToSeq(S)[i] = x
  <1> DEFINE n == Cardinality(S)
             s == SetToSeq(S)
  <1>1. n \in Nat /\ ExistsBijection(1..n, S)
    BY FS_CardinalityType
  <1>2. PICK f \in Bijection(1..n, S) : TRUE
    BY <1>1 DEF ExistsBijection
  <1>3. f \in [1..n -> S] /\ IsInjective(f)
    BY <1>2 DEF Bijection, Injection
  <1>4. s \in [1..n -> S] /\ IsInjective(s)
    <2> HIDE DEF n
    <2>1. s = CHOOSE g \in [1..n -> S] : IsInjective(g)
      BY DEF SetToSeq, n
    <2> QED
      BY <1>3, <2>1
  <1> HIDE DEF s
  <1>5. s \in Injection(1..n, S)
    BY <1>4 DEF Injection
  <1>6. IsFiniteSet(1..n) /\ Cardinality(1..n) = n
    BY <1>1, FS_Interval
  <1>7. s \in Surjection(1..n, S)
    BY <1>5, <1>6, FS_Injection
  <1> HIDE DEF n
  <1>8. s \in Seq(S) /\ DOMAIN s = 1..n
    BY <1>1, <1>4
  <1>9. \A x \in S : \E i \in 1..n : s[i] = x
    BY <1>7 DEF Surjection
  <1>10. Distinct(s)
    BY <1>4 DEF IsInjective, Distinct
  <1> QED
    BY <1>8, <1>9, <1>10 DEF s

\* SCAN lists every hash once.
LEMMA ScannedIs ==
    ASSUME NEW d
    PROVE  /\ Scanned(d) \in Seq(Keys) /\ Distinct(Scanned(d))
           /\ \A i \in DOMAIN Scanned(d) : d[Scanned(d)[i]] # NoHash
           /\ \A k \in Keys : d[k] # NoHash => InRange(k, Scanned(d))
  <1> DEFINE S == {k \in Keys : d[k] # NoHash}
  <1>1. IsFiniteSet(S)
    BY PipelineAssumption, FS_Subset
  <1>2. Scanned(d) = SetToSeq(S)
    BY DEF Scanned
  <1>3. /\ Scanned(d) \in Seq(S) /\ Distinct(Scanned(d))
        /\ \A x \in S : \E i \in DOMAIN Scanned(d) : Scanned(d)[i] = x
    <2> HIDE DEF S
    <2> QED
      BY <1>1, <1>2, SetToSeqIs
  <1>4. Scanned(d) \in Seq(Keys)
    BY <1>3, SeqMonotonic
  <1>5. \A i \in DOMAIN Scanned(d) : Scanned(d)[i] \in S
    BY <1>3
  <1>6. \A k \in Keys : d[k] # NoHash => InRange(k, Scanned(d))
    BY <1>3 DEF InRange
  <1> QED
    BY <1>3, <1>4, <1>5, <1>6

\* The answer is a reply to its request.
LEMMA AnswerTyped ==
    ASSUME NEW V, NEW d \in Database(V), NEW r \in Req(V)
    PROVE  Answer(d, r) \in Reply(V) /\ Answer(d, r).of = r
  <1>1. CASE r.cmd = "get"
    <2>1. r.key \in Keys
      BY <1>1 DEF Req
    <2>2. d[r.key].obj \in V \cup {Absent}
      BY <2>1 DEF Database
    <2>3. CASE d[r.key].obj = Absent
      BY <1>1, <2>3 DEF Answer, Reply
    <2>4. CASE d[r.key].obj # Absent
      <3>1. [key |-> r.key, val |-> d[r.key].obj] \in Item(V)
        BY <2>1, <2>2, <2>4 DEF Item
      <3>2. Answer(d, r) = [of |-> r, is |-> "object", obj |-> [key |-> r.key, val |-> d[r.key].obj]]
        BY <1>1, <2>4 DEF Answer
      <3> QED
        BY <3>1, <3>2 DEF Reply
    <2> QED
      BY <2>3, <2>4
  <1>2. CASE r.cmd = "marked"
    BY <1>2 DEF Answer, Reply
  <1>3. CASE r.cmd = "scan"
    <2>1. Scanned(d) \in Walks
      BY ScannedIs DEF Walks
    <2> QED
      BY <1>3, <2>1 DEF Answer, Reply
  <1>4. CASE r.cmd \notin {"get", "marked", "scan"}
    BY <1>4 DEF Answer, Reply
  <1> QED
    BY <1>1, <1>2, <1>3, <1>4

\* The fields of a reply.
LEMMA ReplyHas ==
    ASSUME NEW V, NEW r \in Reply(V)
    PROVE  /\ r # NoReply /\ r.is # "none"
           /\ r.of \in Req(V)
           /\ r.is = "object" => r.obj \in Item(V)
           /\ r.is = "keys" => r.keys \in Walks
  BY DEF Reply, NoReply

\* One step of After.
AfterStep(d, reqs, f, n) == IF n = 0 THEN d ELSE Effect(f[n - 1], reqs[n])

\* After takes one request at a time.
LEMMA AfterSteps ==
    ASSUME NEW S, NEW d, NEW reqs \in Seq(S)
    PROVE  /\ After(d, reqs)[0] = d
           /\ \A n \in 1..Len(reqs) : After(d, reqs)[n] = Effect(After(d, reqs)[n - 1], reqs[n])
  <1> DEFINE T == {n \in Nat : \E f : f = [m \in 0..n |-> AfterStep(d, reqs, f, m)]}
  <1>1. 0 \in T
    <2> DEFINE f == [m \in 0..0 |-> d]
    <2>1. \A m \in 0..0 : AfterStep(d, reqs, f, m) = d
      BY DEF AfterStep
    <2>2. f = [m \in 0..0 |-> AfterStep(d, reqs, f, m)]
      BY <2>1
    <2> HIDE DEF f
    <2> QED
      BY <2>2
  <1>2. ASSUME NEW n \in T PROVE n + 1 \in T
    <2>1. PICK f : f = [m \in 0..n |-> AfterStep(d, reqs, f, m)]
      OBVIOUS
    <2> DEFINE g == [m \in 0..(n + 1) |-> IF m = n + 1 THEN AfterStep(d, reqs, f, n + 1) ELSE f[m]]
    <2>2. ASSUME NEW m \in 0..(n + 1) PROVE g[m] = AfterStep(d, reqs, g, m)
      <3>1. CASE m = 0
        <4>1. 0 \in 0..n /\ 0 \in 0..(n + 1) /\ 0 # n + 1
          OBVIOUS
        <4>2. g[0] = f[0]
          BY <4>1
        <4>3. f[0] = AfterStep(d, reqs, f, 0)
          BY <4>1, <2>1
        <4>4. AfterStep(d, reqs, f, 0) = AfterStep(d, reqs, g, 0)
          BY DEF AfterStep
        <4> QED
          BY <3>1, <4>2, <4>3, <4>4
      <3>2. CASE m # 0
        <4>1. m - 1 \in 0..n /\ m - 1 # n + 1 /\ g[m - 1] = f[m - 1]
          BY <3>2
        <4>2. AfterStep(d, reqs, g, m) = AfterStep(d, reqs, f, m)
          BY <4>1, <3>2 DEF AfterStep
        <4>3. CASE m = n + 1
          BY <4>2, <4>3
        <4>4. CASE m # n + 1
          <5>1. m \in 0..n
            BY <4>4
          <5>2. f[m] = AfterStep(d, reqs, f, m)
            BY <5>1, <2>1
          <5> QED
            BY <4>4, <5>2, <4>2
        <4> QED
          BY <4>3, <4>4
      <3> QED
        BY <3>1, <3>2
    <2>3. g = [m \in 0..(n + 1) |-> AfterStep(d, reqs, g, m)]
      BY <2>2
    <2> HIDE DEF g
    <2> QED
      BY <2>3
  <1>3. T = Nat
    <2> HIDE DEF T
    <2>1. T \in SUBSET Nat
      BY DEF T
    <2> QED
      BY <1>1, <1>2, <2>1, Induction
  <1>4. Len(reqs) \in T
    BY <1>3
  <1>5. \E f : f = [m \in 0..Len(reqs) |-> AfterStep(d, reqs, f, m)]
    BY <1>4
  <1> DEFINE A == After(d, reqs)
  <1>6. A = [m \in 0..Len(reqs) |-> AfterStep(d, reqs, A, m)]
    BY <1>5, Zenon DEF After, AfterStep
  <1> HIDE DEF A
  <1>7. \A n \in 0..Len(reqs) : A[n] = AfterStep(d, reqs, A, n)
    BY <1>6
  <1>8. A[0] = d
    BY <1>7 DEF AfterStep
  <1>9. \A n \in 1..Len(reqs) : A[n] = Effect(A[n - 1], reqs[n])
    BY <1>7 DEF AfterStep
  <1> QED
    BY <1>8, <1>9 DEF A

\* What every request keeps, their sequence keeps.
LEMMA AfterKeeps ==
    ASSUME NEW D, NEW R, NEW d \in D, NEW reqs \in Seq(R),
           \A e \in D, r \in R : Effect(e, r) \in D
    PROVE  \A n \in 0..Len(reqs) : After(d, reqs)[n] \in D
  <1> DEFINE A == After(d, reqs)
             T == {n \in Nat : n <= Len(reqs) => A[n] \in D}
  <1>1. A[0] = d /\ \A n \in 1..Len(reqs) : A[n] = Effect(A[n - 1], reqs[n])
    BY AfterSteps
  <1> HIDE DEF A
  <1>2. 0 \in T
    BY <1>1
  <1>3. ASSUME NEW n \in T PROVE n + 1 \in T
    <2> SUFFICES ASSUME n + 1 <= Len(reqs) PROVE A[n + 1] \in D
      OBVIOUS
    <2>1. A[n] \in D /\ reqs[n + 1] \in R /\ n + 1 \in 1..Len(reqs) /\ (n + 1) - 1 = n
      OBVIOUS
    <2>2. A[n + 1] = Effect(A[n], reqs[n + 1])
      BY <1>1, <2>1
    <2> QED
      BY <2>1, <2>2
  <1>4. T = Nat
    <2> HIDE DEF T
    <2>1. T \in SUBSET Nat
      BY DEF T
    <2> QED
      BY <1>2, <1>3, <2>1, Induction
  <1>5. \A n \in 0..Len(reqs) : A[n] \in D
    BY <1>4
  <1> QED
    BY <1>5 DEF A

\* Executing a buffer leaves the database typed and answers every request.
LEMMA ExecutedTyped ==
    ASSUME NEW V, NEW d \in Database(V), NEW reqs \in Seq(Req(V))
    PROVE  /\ Executed(d, reqs).db \in Database(V)
           /\ Executed(d, reqs).in \in Seq(Reply(V))
           /\ Len(Executed(d, reqs).in) = Len(reqs)
           /\ \A i \in 1..Len(reqs) : Executed(d, reqs).in[i].of = reqs[i]
  <1> DEFINE A == After(d, reqs)
             in == [n \in 1..Len(reqs) |-> Answer(A[n - 1], reqs[n])]
  <1>1. \A n \in 0..Len(reqs) : A[n] \in Database(V)
    BY AfterKeeps, EffectTyped
  <1>2. Executed(d, reqs).db = A[Len(reqs)] /\ Executed(d, reqs).in = in
    BY DEF Executed
  <1>3. Len(reqs) \in Nat /\ \A n \in 1..Len(reqs) : reqs[n] \in Req(V) /\ n - 1 \in 0..Len(reqs)
    OBVIOUS
  <1> HIDE DEF A
  <1>4. \A n \in 1..Len(reqs) : Answer(A[n - 1], reqs[n]) \in Reply(V) /\ Answer(A[n - 1], reqs[n]).of = reqs[n]
    BY <1>1, <1>3, AnswerTyped
  <1>5. in \in [1..Len(reqs) -> Reply(V)]
    BY <1>4
  <1>6. in \in Seq(Reply(V)) /\ Len(in) = Len(reqs)
    BY <1>3, <1>5
  <1>7. \A i \in 1..Len(reqs) : in[i].of = reqs[i]
    BY <1>4
  <1> HIDE DEF in
  <1> QED
    BY <1>1, <1>2, <1>3, <1>6, <1>7

-----------------------------------------------------------------------------
(* Connections *)

\* The empty sequence.
LEMMA SeqEmpty ==
    ASSUME NEW S, NEW s \in Seq(S)
    PROVE  (s = <<>> <=> Len(s) = 0) /\ Len(s) \in Nat
  BY EmptySeq

\* Head and tail of a sequence.
LEMMA SeqTail ==
    ASSUME NEW S, NEW s \in Seq(S), s # <<>>
    PROVE  /\ Len(s) \in Nat /\ Len(s) >= 1
           /\ Head(s) = s[1] /\ s[1] \in S
           /\ Tail(s) \in Seq(S) /\ Len(Tail(s)) = Len(s) - 1
           /\ \A i \in 1..(Len(s) - 1) : Tail(s)[i] = s[i + 1] /\ i + 1 \in 1..Len(s)
  OBVIOUS

\* Two sequences one after the other.
LEMMA SeqConcat ==
    ASSUME NEW S, NEW s \in Seq(S), NEW t \in Seq(S)
    PROVE  /\ s \o t \in Seq(S) /\ Len(s \o t) = Len(s) + Len(t)
           /\ \A i \in 1..Len(s) : (s \o t)[i] = s[i]
           /\ \A i \in 1..Len(t) : (s \o t)[Len(s) + i] = t[i]
  OBVIOUS

\* Head and tail of such a sequence.
LEMMA ConcatTail ==
    ASSUME NEW S, NEW s \in Seq(S), NEW t \in Seq(S), s # <<>>
    PROVE  Tail(s \o t) = Tail(s) \o t /\ Head(s \o t) = Head(s)
  OBVIOUS

AskedBy(in) == [i \in DOMAIN in |-> in[i].of]

\* The requests that are answered or buffered.
LEMMA AskedIs ==
    ASSUME NEW V, NEW in \in Seq(Reply(V)), NEW out \in Seq(Req(V)),
           NEW all, all = AskedBy(in) \o out
    PROVE  /\ all \in Seq(Req(V))
           /\ Len(all) = Len(in) + Len(out)
           /\ \A i \in 1..Len(in) : all[i] = in[i].of
           /\ \A i \in 1..Len(out) : all[Len(in) + i] = out[i]
           /\ all = <<>> <=> out = <<>> /\ in = <<>>
  <1> DEFINE asked == [i \in DOMAIN in |-> in[i].of]
  <1>2. Len(in) \in Nat /\ Len(out) \in Nat /\ DOMAIN in = 1..Len(in) /\ \A i \in DOMAIN in : in[i] \in Reply(V)
    OBVIOUS
  <1>3. \A i \in DOMAIN in : in[i].of \in Req(V)
    BY <1>2, ReplyHas
  <1>4. asked \in [1..Len(in) -> Req(V)]
    BY <1>2, <1>3
  <1>5. asked \in Seq(Req(V))
    BY <1>2, <1>4
  <1>50. Len(asked) = Len(in)
    BY <1>2, <1>4
  <1>6. \A i \in 1..Len(in) : asked[i] = in[i].of
    BY <1>2
  <1> HIDE DEF asked
  <1>7. all = asked \o out
    BY DEF asked, AskedBy
  <1>8. /\ all \in Seq(Req(V)) /\ Len(all) = Len(in) + Len(out)
        /\ \A i \in 1..Len(in) : all[i] = in[i].of
        /\ \A i \in 1..Len(out) : all[Len(in) + i] = out[i]
    <2>1. /\ asked \o out \in Seq(Req(V)) /\ Len(asked \o out) = Len(asked) + Len(out)
          /\ \A i \in 1..Len(asked) : (asked \o out)[i] = asked[i]
          /\ \A i \in 1..Len(out) : (asked \o out)[Len(asked) + i] = out[i]
      BY <1>5
    <2> QED
      BY <1>50, <1>6, <1>7, <2>1
  <1>9. all = <<>> <=> out = <<>> /\ in = <<>>
    BY <1>2, <1>8, SeqEmpty
  <1> QED
    BY <1>8, <1>9

\* The requests a connection owes replies to.
LEMMA OutstandingTyped ==
    ASSUME NEW V, NEW c \in Conn(V)
    PROVE  /\ Outstanding(c) \in Seq(Req(V))
           /\ Len(Outstanding(c)) = Len(c.in) + Len(c.out)
           /\ \A i \in 1..Len(c.in) : Outstanding(c)[i] = c.in[i].of
           /\ \A i \in 1..Len(c.out) : Outstanding(c)[Len(c.in) + i] = c.out[i]
           /\ Outstanding(c) = <<>> <=> Clean(c)
  <1>1. PICK in \in Seq(Reply(V)), out \in Seq(Req(V)) : c.in = in /\ c.out = out
    BY DEF Conn
  <1>2. Outstanding(c) = AskedBy(in) \o out
    BY <1>1 DEF Outstanding, AskedBy
  <1>3. Clean(c) <=> out = <<>> /\ in = <<>>
    BY <1>1 DEF Clean
  <1>4. /\ Outstanding(c) \in Seq(Req(V))
        /\ Len(Outstanding(c)) = Len(in) + Len(out)
        /\ \A i \in 1..Len(in) : Outstanding(c)[i] = in[i].of
        /\ \A i \in 1..Len(out) : Outstanding(c)[Len(in) + i] = out[i]
        /\ Outstanding(c) = <<>> <=> out = <<>> /\ in = <<>>
    BY <1>2, AskedIs
  <1> QED
    BY <1>1, <1>3, <1>4

\* The fields of a connection.
LEMMA ConnHas ==
    ASSUME NEW V, NEW c \in Conn(V)
    PROVE  /\ c.up \in BOOLEAN /\ c.out \in Seq(Req(V)) /\ c.in \in Seq(Reply(V))
           /\ ~c.up => Clean(c)
           /\ c = [up |-> c.up, out |-> c.out, in |-> c.in]
  BY DEF Conn

\* New connections are clean.
LEMMA NewConns ==
    ASSUME NEW V
    PROVE  /\ Fresh \in OpenConn(V) /\ Fresh \in Conn(V) /\ Broken \in Conn(V)
           /\ Clean(Fresh) /\ Clean(Broken) /\ Fresh.up /\ ~Broken.up
  <1>1. <<>> \in Seq(Req(V)) /\ <<>> \in Seq(Reply(V))
    OBVIOUS
  <1>2. Clean(Fresh) /\ Clean(Broken) /\ Fresh.up /\ ~Broken.up
    BY DEF Fresh, Broken, Clean
  <1>3. Fresh \in Conn(V) /\ Broken \in Conn(V)
    BY <1>1, <1>2 DEF Fresh, Broken, Conn
  <1> QED
    BY <1>2, <1>3 DEF OpenConn

\* operation() without a flush.
LEMMA BufferedIs ==
    ASSUME NEW V, NEW c \in Conn(V), NEW reqs \in Seq(Req(V))
    PROVE  /\ Buffered(c, reqs) \in Conn(V)
           /\ Buffered(c, reqs).up = c.up
           /\ Buffered(c, reqs).in = c.in
           /\ c.up => Buffered(c, reqs).out = c.out \o reqs
           /\ ~c.up => Buffered(c, reqs) = c
           /\ c.up /\ Clean(c) => Outstanding(Buffered(c, reqs)) = reqs
  <1> DEFINE b == Buffered(c, reqs)
  <1>1. CASE ~c.up
    BY <1>1 DEF Buffered
  <1>2. CASE c.up
    <2>1. c.out \in Seq(Req(V)) /\ c.in \in Seq(Reply(V)) /\ c = [up |-> c.up, out |-> c.out, in |-> c.in]
      BY ConnHas
    <2>2. b = [up |-> TRUE, out |-> c.out \o reqs, in |-> c.in]
      BY <1>2, <2>1 DEF Buffered, Conn
    <2>3. c.out \o reqs \in Seq(Req(V))
      BY <2>1
    <2>4. b \in Conn(V)
      BY <2>1, <2>2, <2>3 DEF Conn
    <2>5. ASSUME Clean(c) PROVE Outstanding(b) = reqs
      <3>1. b.out = reqs /\ b.in = <<>>
        BY <2>1, <2>2, <2>5 DEF Clean
      <3>2. /\ Outstanding(b) \in Seq(Req(V))
            /\ Len(Outstanding(b)) = Len(b.in) + Len(b.out)
            /\ \A i \in 1..Len(b.out) : Outstanding(b)[Len(b.in) + i] = b.out[i]
        BY <2>4, OutstandingTyped
      <3> HIDE DEF b
      <3> QED
        BY <3>1, <3>2, SeqEqual
    <2> QED
      BY <1>2, <2>2, <2>4, <2>5
  <1> QED
    BY <1>1, <1>2

\* operation() that appends to a new connection.
LEMMA RebufferedIs ==
    ASSUME NEW V, NEW reqs \in Seq(Req(V)), NEW c \in Rebuffered(reqs)
    PROVE  c \in Conn(V) /\ c.up
  <1>1. PICK i \in 1..Len(reqs) : c = Buffered(Fresh, SubSeq(reqs, i, Len(reqs)))
    BY DEF Rebuffered
  <1>2. SubSeq(reqs, i, Len(reqs)) \in Seq(Req(V))
    OBVIOUS
  <1> QED
    BY <1>1, <1>2, NewConns, BufferedIs

\* The four things that may happen when the next reply is waited for.
Replied(a, c, o) ==
    /\ c.up /\ o.conn.up /\ ~o.lost
    /\ Outstanding(c) # <<>>
    /\ Outstanding(o.conn) = Tail(Outstanding(c))
    /\ o.reply.of = Head(Outstanding(c))
    /\ o.reply = Head(c.in \o Executed(db[a], c.out).in)
    /\ o.conn = [up |-> TRUE, out |-> <<>>, in |-> Tail(c.in \o Executed(db[a], c.out).in)]
    /\ o.db = Executed(db[a], c.out).db

TimedOut(a, c, o) ==
    /\ c.up /\ a = Src /\ Clean(c) /\ o.db = db[a] /\ o.reply = NoReply /\ ~o.lost /\ Clean(o.conn)

Failed(a, c, o) ==
    /\ c.up /\ o.lost /\ o.reply = NoReply /\ Clean(o.conn)
    /\ \E i \in 0..Len(c.out) : o.db = Executed(db[a], SubSeq(c.out, 1, i)).db

NotSent(a, c, o) ==
    ~c.up /\ o.conn = c /\ o.db = db[a] /\ o.reply = NoReply /\ ~o.lost

\* The replies read and those of the requests just sent answer what was
\* outstanding, one for one.
LEMMA AllAnswered ==
    ASSUME NEW V, NEW ins \in Seq(Reply(V)), NEW out \in Seq(Req(V)),
           NEW new \in Seq(Reply(V)), Len(new) = Len(out), \A i \in 1..Len(out) : new[i].of = out[i],
           NEW all \in Seq(Req(V)), Len(all) = Len(ins) + Len(out),
           \A i \in 1..Len(ins) : all[i] = ins[i].of,
           \A i \in 1..Len(out) : all[Len(ins) + i] = out[i]
    PROVE  /\ ins \o new \in Seq(Reply(V)) /\ Len(ins \o new) = Len(all)
           /\ \A i \in 1..Len(all) : all[i] = (ins \o new)[i].of
  <1> DEFINE in == ins \o new
  <1>1. /\ in \in Seq(Reply(V)) /\ Len(in) = Len(ins) + Len(new)
        /\ \A i \in 1..Len(ins) : in[i] = ins[i]
        /\ \A i \in 1..Len(new) : in[Len(ins) + i] = new[i]
    BY SeqConcat
  <1> HIDE DEF in
  <1>2. Len(ins) \in Nat /\ Len(out) \in Nat
    OBVIOUS
  <1>3. ASSUME NEW i \in 1..Len(all) PROVE all[i] = in[i].of
    <2>1. CASE i <= Len(ins)
      <3>1. i \in 1..Len(ins)
        BY <1>2, <2>1
      <3> QED
        BY <1>1, <3>1
    <2>2. CASE i > Len(ins)
      <3> DEFINE j == i - Len(ins)
      <3>1. j \in 1..Len(out) /\ Len(ins) + j = i
        BY <1>2, <2>2
      <3> HIDE DEF j
      <3>2. all[Len(ins) + j] = out[j] /\ in[Len(ins) + j] = new[j] /\ new[j].of = out[j]
        BY <1>1, <3>1
      <3> QED
        BY <3>1, <3>2
    <2> QED
      BY <1>2, <2>1, <2>2
  <1> QED
    BY <1>1, <1>3 DEF in

\* Taking the first of them leaves the rest.
LEMMA FirstTaken ==
    ASSUME NEW V, NEW in \in Seq(Reply(V)), NEW all \in Seq(Req(V)), Len(in) = Len(all), in # <<>>,
           \A i \in 1..Len(all) : all[i] = in[i].of,
           NEW c, c = [up |-> TRUE, out |-> <<>>, in |-> Tail(in)]
    PROVE  /\ c \in Conn(V) /\ all # <<>> /\ Head(in) \in Reply(V)
           /\ Head(in).of = Head(all) /\ Outstanding(c) = Tail(all)
  <1>1. /\ Len(in) \in Nat /\ Len(in) >= 1 /\ Head(in) = in[1] /\ in[1] \in Reply(V)
        /\ Tail(in) \in Seq(Reply(V)) /\ Len(Tail(in)) = Len(in) - 1
        /\ \A i \in 1..(Len(in) - 1) : Tail(in)[i] = in[i + 1] /\ i + 1 \in 1..Len(in)
    BY SeqTail
  <1>2. all # <<>>
    BY <1>1, SeqEmpty
  <1>3. /\ Head(all) = all[1]
        /\ Tail(all) \in Seq(Req(V)) /\ Len(Tail(all)) = Len(all) - 1
        /\ \A i \in 1..(Len(all) - 1) : Tail(all)[i] = all[i + 1]
    BY <1>2, SeqTail
  <1>4. <<>> \in Seq(Req(V)) /\ Len(<<>>) = 0
    OBVIOUS
  <1>5. c \in Conn(V) /\ c.in = Tail(in) /\ c.out = <<>>
    BY <1>1, <1>4 DEF Conn
  <1> DEFINE due == Outstanding(c)
  <1>6. PICK rest \in Seq(Reply(V)) : rest = Tail(in)
    BY <1>1
  <1>61. PICK none \in Seq(Req(V)) : none = <<>>
    BY <1>4
  <1>7. /\ due \in Seq(Req(V)) /\ Len(due) = Len(rest) + Len(none)
        /\ \A i \in 1..Len(rest) : due[i] = rest[i].of
    <2>1. /\ Outstanding(c) \in Seq(Req(V))
          /\ Len(Outstanding(c)) = Len(c.in) + Len(c.out)
          /\ \A i \in 1..Len(c.in) : Outstanding(c)[i] = c.in[i].of
      BY <1>5, OutstandingTyped
    <2>2. c.in = rest /\ c.out = none
      BY <1>5, <1>6, <1>61
    <2> QED
      BY <2>1, <2>2
  <1> HIDE DEF due
  <1>8. Len(due) = Len(all) - 1
    BY <1>1, <1>6, <1>61, <1>7
  <1>9. \A i \in 1..Len(due) : due[i] = Tail(all)[i]
    BY <1>1, <1>3, <1>6, <1>7, <1>8
  <1>10. due = Tail(all)
    BY <1>3, <1>7, <1>8, <1>9, SeqEqual
  <1>11. Head(in).of = Head(all)
    BY <1>1, <1>3
  <1> QED
    BY <1>1, <1>2, <1>5, <1>10, <1>11 DEF due

\* response() has one of four outcomes, whatever the connection holds.
LEMMA ResponseIs ==
    ASSUME NEW V, NEW a, NEW c \in Conn(V), db[a] \in Database(V), NEW o \in ResponseOutcomes(a, c)
    PROVE  /\ o.conn \in Conn(V) /\ o.db \in Database(V) /\ o.lost \in BOOLEAN
           /\ o.reply # NoReply => o.reply \in Reply(V)
           /\ Replied(a, c, o) \/ TimedOut(a, c, o) \/ Failed(a, c, o) \/ NotSent(a, c, o)
  <1> DEFINE run == Executed(db[a], c.out)
             in == c.in \o run.in
             all == Outstanding(c)
  <1>1. c.up \in BOOLEAN /\ c.out \in Seq(Req(V)) /\ c.in \in Seq(Reply(V)) /\ (~c.up => Clean(c))
    BY ConnHas
  <1>2. /\ run.db \in Database(V) /\ run.in \in Seq(Reply(V)) /\ Len(run.in) = Len(c.out)
        /\ \A i \in 1..Len(c.out) : run.in[i].of = c.out[i]
    BY <1>1, ExecutedTyped
  <1>3. /\ all \in Seq(Req(V)) /\ Len(all) = Len(c.in) + Len(c.out)
        /\ \A i \in 1..Len(c.in) : all[i] = c.in[i].of
        /\ \A i \in 1..Len(c.out) : all[Len(c.in) + i] = c.out[i]
        /\ all = <<>> <=> Clean(c)
    BY OutstandingTyped
  <1> HIDE DEF run, all
  <1>4. in \in Seq(Reply(V)) /\ Len(in) = Len(all) /\ \A i \in 1..Len(all) : all[i] = in[i].of
    <2> DEFINE ins == c.in
               out == c.out
               new == run.in
    <2>1. /\ ins \in Seq(Reply(V)) /\ out \in Seq(Req(V))
          /\ new \in Seq(Reply(V)) /\ Len(new) = Len(out) /\ \A i \in 1..Len(out) : new[i].of = out[i]
          /\ all \in Seq(Req(V)) /\ Len(all) = Len(ins) + Len(out)
          /\ \A i \in 1..Len(ins) : all[i] = ins[i].of
          /\ \A i \in 1..Len(out) : all[Len(ins) + i] = out[i]
      BY <1>1, <1>2, <1>3
    <2>2. in = ins \o new
      OBVIOUS
    <2> HIDE DEF ins, out, new, in
    <2>3. /\ ins \o new \in Seq(Reply(V)) /\ Len(ins \o new) = Len(all)
          /\ \A i \in 1..Len(all) : all[i] = (ins \o new)[i].of
      BY <2>1, AllAnswered
    <2> QED
      BY <2>2, <2>3
  <1> HIDE DEF in
  <1>7. CASE ~c.up
    <2>1. o = Outcome(c, db[a], NoReply, FALSE)
      BY <1>7 DEF ResponseOutcomes
    <2> QED
      BY <1>7, <2>1 DEF Outcome, NotSent
  <1>8. ASSUME c.up, 1 \in 1..Len(in),
               o = Outcome([up |-> TRUE, out |-> <<>>, in |-> Tail(in)], run.db, Head(in), FALSE)
        PROVE  /\ o.conn \in Conn(V) /\ o.db \in Database(V) /\ o.lost \in BOOLEAN
               /\ o.reply \in Reply(V)
               /\ Replied(a, c, o)
    <2>1. in # <<>>
      BY <1>8
    <2> DEFINE n == [up |-> TRUE, out |-> <<>>, in |-> Tail(in)]
    <2>2. o.conn = n /\ o.db = run.db /\ o.reply = Head(in) /\ o.lost = FALSE
      BY <1>8 DEF Outcome
    <2>3. n.up
      OBVIOUS
    <2>4. /\ n \in Conn(V) /\ all # <<>> /\ Head(in) \in Reply(V)
          /\ Head(in).of = Head(all) /\ Outstanding(n) = Tail(all)
      BY <1>3, <1>4, <2>1, FirstTaken
    <2>5. o.conn = [up |-> TRUE, out |-> <<>>, in |-> Tail(c.in \o Executed(db[a], c.out).in)]
      BY <2>2 DEF in, run
    <2> HIDE DEF n
    <2>6. Replied(a, c, o)
      BY <1>8, <2>2, <2>3, <2>4, <2>5 DEF Replied, in, run, all
    <2> QED
      BY <1>2, <2>2, <2>4, <2>6
  <1>9. ASSUME c.up, in = <<>>, a = Src, NEW n \in Reconnects, o = Outcome(n, db[a], NoReply, FALSE)
        PROVE  /\ o.conn \in Conn(V) /\ o.db \in Database(V) /\ o.lost \in BOOLEAN
               /\ o.reply = NoReply
               /\ TimedOut(a, c, o)
    <2>1. n \in Conn(V) /\ Clean(n)
      BY NewConns DEF Reconnects
    <2>2. all = <<>>
      BY <1>3, <1>4, <1>9, SeqEmpty
    <2> QED
      BY <1>3, <1>9, <2>1, <2>2 DEF Outcome, TimedOut
  <1>10. ASSUME c.up, NEW n \in Reconnects, NEW i \in 0..Len(c.out),
                o = Outcome(n, Executed(db[a], SubSeq(c.out, 1, i)).db, NoReply, TRUE)
         PROVE  /\ o.conn \in Conn(V) /\ o.db \in Database(V) /\ o.lost \in BOOLEAN
                /\ o.reply = NoReply
                /\ Failed(a, c, o)
    <2>1. n \in Conn(V) /\ Clean(n)
      BY NewConns DEF Reconnects
    <2>2. SubSeq(c.out, 1, i) \in Seq(Req(V))
      BY <1>1
    <2>3. Executed(db[a], SubSeq(c.out, 1, i)).db \in Database(V)
      BY <2>2, ExecutedTyped
    <2> QED
      BY <1>10, <2>1, <2>3 DEF Outcome, Failed
  <1>11. CASE c.up
    <2>1. \/ \E x \in {1} \cap 1..Len(in) :
                o = Outcome([up |-> TRUE, out |-> <<>>, in |-> Tail(in)], run.db, Head(in), FALSE)
          \/ \E n \in IF in = <<>> /\ a = Src THEN Reconnects ELSE {} : o = Outcome(n, db[a], NoReply, FALSE)
          \/ \E n \in Reconnects, i \in IF troubles < MaxTroubles THEN 0..Len(c.out) ELSE {} :
                o = Outcome(n, Executed(db[a], SubSeq(c.out, 1, i)).db, NoReply, TRUE)
      <3> DEFINE cut == IF troubles < MaxTroubles THEN 0..Len(c.out) ELSE {}
                 fail(n, i) == Outcome(n, Executed(db[a], SubSeq(c.out, 1, i)).db, NoReply, TRUE)
                 S1 == {Outcome([up |-> TRUE, out |-> <<>>, in |-> Tail(in)], run.db, Head(in), FALSE) :
                           x \in {1} \cap 1..Len(in)}
                 S2 == {Outcome(n, db[a], NoReply, FALSE) :
                           n \in IF in = <<>> /\ a = Src THEN Reconnects ELSE {}}
                 S3 == {fail(n, i) : n \in Reconnects, i \in cut}
      <3>1. ResponseOutcomes(a, c) = S1 \cup S2 \cup S3
        BY <1>11 DEF ResponseOutcomes, in, run
      <3>2. ASSUME o \in S1
            PROVE  \E x \in {1} \cap 1..Len(in) :
                      o = Outcome([up |-> TRUE, out |-> <<>>, in |-> Tail(in)], run.db, Head(in), FALSE)
        BY <3>2
      <3>3. ASSUME o \in S2
            PROVE  \E n \in IF in = <<>> /\ a = Src THEN Reconnects ELSE {} : o = Outcome(n, db[a], NoReply, FALSE)
        BY <3>3
      <3>4. ASSUME o \in S3
            PROVE  \E n \in Reconnects, i \in cut : o = fail(n, i)
        <4> HIDE DEF cut, fail
        <4> QED
          BY <3>4
      <3>5. o \in S1 \/ o \in S2 \/ o \in S3
        <4> HIDE DEF S1, S2, S3
        <4> QED
          BY <3>1
      <3> HIDE DEF S1, S2, S3
      <3> QED
        BY <3>2, <3>3, <3>4, <3>5
    <2>2. CASE \E x \in {1} \cap 1..Len(in) :
                o = Outcome([up |-> TRUE, out |-> <<>>, in |-> Tail(in)], run.db, Head(in), FALSE)
      BY <1>8, <1>11, <2>2
    <2>3. CASE \E n \in IF in = <<>> /\ a = Src THEN Reconnects ELSE {} : o = Outcome(n, db[a], NoReply, FALSE)
      <3>1. in = <<>> /\ a = Src /\ \E n \in Reconnects : o = Outcome(n, db[a], NoReply, FALSE)
        BY <2>3
      <3> QED
        BY <3>1, <1>9, <1>11
    <2>4. CASE \E n \in Reconnects, i \in IF troubles < MaxTroubles THEN 0..Len(c.out) ELSE {} :
                o = Outcome(n, Executed(db[a], SubSeq(c.out, 1, i)).db, NoReply, TRUE)
      <3>1. \E n \in Reconnects, i \in 0..Len(c.out) :
                o = Outcome(n, Executed(db[a], SubSeq(c.out, 1, i)).db, NoReply, TRUE)
        BY <2>4
      <3> QED
        BY <3>1, <1>10, <1>11
    <2> QED
      BY <2>1, <2>2, <2>3, <2>4
  <1> QED
    BY <1>1, <1>7, <1>11

\* One request executed.
LEMMA OneExecuted ==
    ASSUME NEW V, NEW d, NEW s \in Seq(Req(V)), NEW r
    PROVE  Len(s) = 1 /\ s[1] = r =>
           /\ Executed(d, s).db = Effect(d, r)
           /\ Executed(d, s).in = <<Answer(d, r)>>
           /\ \A i \in 0..1 : Executed(d, SubSeq(s, 1, i)).db \in {d, Effect(d, r)}
  <1>20. /\ After(d, s)[0] = d
         /\ \A n \in 1..Len(s) : After(d, s)[n] = Effect(After(d, s)[n - 1], s[n])
    BY AfterSteps
  <1> SUFFICES ASSUME Len(s) = 1, s[1] = r
               PROVE  /\ Executed(d, s).db = Effect(d, r)
                      /\ Executed(d, s).in = <<Answer(d, r)>>
                      /\ \A i \in 0..1 : Executed(d, SubSeq(s, 1, i)).db \in {d, Effect(d, r)}
    OBVIOUS
  <1>1. 1 \in 1..Len(s) /\ 1 - 1 = 0
    OBVIOUS
  <1>2. After(d, s)[0] = d /\ After(d, s)[1] = Effect(After(d, s)[1 - 1], s[1])
    BY <1>1, <1>20
  <1>3. After(d, s)[1] = Effect(d, r)
    BY <1>1, <1>2
  <1>4. Executed(d, s).db = Effect(d, r)
    BY <1>3 DEF Executed
  <1>5. Executed(d, s).in = <<Answer(d, r)>>
    <2>1. Executed(d, s).in = [n \in 1..1 |-> Answer(After(d, s)[n - 1], s[n])]
      BY DEF Executed
    <2>2. ASSUME NEW n \in 1..1 PROVE Answer(After(d, s)[n - 1], s[n]) = Answer(d, r)
      <3>1. n = 1 /\ n - 1 = 0
        OBVIOUS
      <3> QED
        BY <1>2, <3>1
    <2>3. Executed(d, s).in = [n \in 1..1 |-> Answer(d, r)]
      BY <2>1, <2>2
    <2> QED
      BY <2>3
  <1>6. SubSeq(s, 1, 0) = <<>> /\ SubSeq(s, 1, 1) = s
    <2>1. SubSeq(s, 1, 1) \in Seq(Req(V)) /\ Len(SubSeq(s, 1, 1)) = 1 /\ \A i \in 1..1 : SubSeq(s, 1, 1)[i] = s[i]
      OBVIOUS
    <2>2. SubSeq(s, 1, 1) = s
      BY <2>1, SeqEqual
    <2> QED
      BY <2>2
  <1>7. <<>> \in Seq(Req(V)) /\ Len(<<>>) = 0
    OBVIOUS
  <1>8. Executed(d, <<>>).db = d
    <2>1. After(d, <<>>)[0] = d
      BY <1>7, AfterSteps
    <2> QED
      BY <1>7, <2>1 DEF Executed
  <1>9. ASSUME NEW i \in 0..1
        PROVE  Executed(d, SubSeq(s, 1, i)).db = d \/ Executed(d, SubSeq(s, 1, i)).db = Effect(d, r)
    <2>1. CASE i = 0
      BY <1>6, <1>8, <2>1
    <2>2. CASE i = 1
      BY <1>4, <1>6, <2>2
    <2> QED
      BY <2>1, <2>2
  <1> QED
    BY <1>4, <1>5, <1>9

\* A request on a connection without outstanding replies gets its own answer.
LEMMA CommandIs ==
    ASSUME NEW V, NEW a, NEW c \in Conn(V), Clean(c), NEW r \in Req(V), db[a] \in Database(V),
           NEW o \in CommandOutcomes(a, c, r)
    PROVE  /\ o.conn \in Conn(V) /\ Clean(o.conn)
           /\ \/ /\ c.up /\ o.conn.up /\ ~o.lost
                 /\ o.reply = Answer(db[a], r) /\ o.db = Effect(db[a], r)
              \/ c.up /\ o.lost /\ o.reply = NoReply /\ o.db \in {db[a], Effect(db[a], r)}
              \/ ~c.up /\ ~o.conn.up /\ ~o.lost /\ o.reply = NoReply /\ o.db = db[a]
  <1>0. <<r>> \in Seq(Req(V)) /\ Len(<<r>>) = 1 /\ <<r>>[1] = r
    OBVIOUS
  <1>1. PICK s \in Seq(Req(V)) : s = <<r>> /\ Len(s) = 1 /\ s[1] = r
    BY <1>0, Zenon
  <1> DEFINE b == Buffered(c, s)
  <1>2. /\ b \in Conn(V) /\ b.up = c.up /\ b.in = c.in /\ (c.up => b.out = c.out \o s)
        /\ (~c.up => b = c) /\ (c.up => Outstanding(b) = s)
    BY <1>1, BufferedIs
  <1>3. o \in ResponseOutcomes(a, b)
    <2>1. PICK n : o \in ResponseOutcomes(a, Buffered(n, s)) /\ (n = c \/ (n = Fresh /\ c.up))
      BY <1>1 DEF CommandOutcomes
    <2>2. c.up => c = Fresh
      BY ConnHas DEF Clean, Fresh
    <2> QED
      BY <2>1, <2>2
  <1> HIDE DEF b
  <1>4. /\ o.conn \in Conn(V) /\ o.db \in Database(V) /\ o.lost \in BOOLEAN
        /\ Replied(a, b, o) \/ TimedOut(a, b, o) \/ Failed(a, b, o) \/ NotSent(a, b, o)
    BY <1>2, <1>3, ResponseIs
  <1>5. c.up => b.out = s /\ b.in = <<>>
    BY <1>1, <1>2 DEF Clean
  <1>7. /\ Executed(db[a], s).db = Effect(db[a], r) /\ Executed(db[a], s).in = <<Answer(db[a], r)>>
        /\ \A i \in 0..1 : Executed(db[a], SubSeq(s, 1, i)).db \in {db[a], Effect(db[a], r)}
    <2>1. Len(s) = 1 /\ s[1] = r =>
           /\ Executed(db[a], s).db = Effect(db[a], r)
           /\ Executed(db[a], s).in = <<Answer(db[a], r)>>
           /\ \A i \in 0..1 : Executed(db[a], SubSeq(s, 1, i)).db \in {db[a], Effect(db[a], r)}
      BY OneExecuted
    <2> QED
      BY <1>1, <2>1
  <1>8. CASE Replied(a, b, o)
    <2>1. c.up /\ o.conn.up /\ ~o.lost /\ Outstanding(o.conn) = Tail(s)
      BY <1>2, <1>8 DEF Replied
    <2>2. Tail(s) = <<>>
      BY <1>1
    <2>3. Clean(o.conn)
      BY <1>4, <2>1, <2>2, OutstandingTyped
    <2>4. o.reply = Head(<<>> \o <<Answer(db[a], r)>>) /\ o.db = Effect(db[a], r)
      BY <1>5, <1>7, <1>8, <2>1 DEF Replied
    <2>5. Head(<<>> \o <<Answer(db[a], r)>>) = Answer(db[a], r)
      OBVIOUS
    <2> QED
      BY <1>4, <2>1, <2>3, <2>4, <2>5
  <1>9. CASE TimedOut(a, b, o)
    <2>1. c.up /\ Clean(b)
      BY <1>2, <1>9 DEF TimedOut
    <2>2. s = <<>>
      BY <1>2, <2>1, OutstandingTyped
    <2> QED
      BY <1>1, <2>2, SeqEmpty
  <1>10. CASE Failed(a, b, o)
    <2>1. c.up /\ o.lost /\ o.reply = NoReply /\ Clean(o.conn)
      BY <1>2, <1>10 DEF Failed
    <2>2. \E i \in 0..Len(b.out) : o.db = Executed(db[a], SubSeq(b.out, 1, i)).db
      BY <1>10 DEF Failed
    <2>3. \E i \in 0..Len(s) : o.db = Executed(db[a], SubSeq(s, 1, i)).db
      BY <1>5, <2>1, <2>2
    <2> QED
      BY <1>1, <1>4, <1>7, <2>1, <2>3
  <1>11. CASE NotSent(a, b, o)
    BY <1>2, <1>4, <1>11 DEF NotSent
  <1> QED
    BY <1>4, <1>8, <1>9, <1>10, <1>11

\* get() of the pool gives a connection that is up, or none.
LEMMA TakeIs ==
    ASSUME NEW V, NEW a \in Addrs, pool \in [Addrs -> Seq(OpenConn(V))], NEW t \in TakeOutcomes(a)
    PROVE  /\ t.conn \in Conn(V) /\ t.rest \in Seq(OpenConn(V)) /\ t.lost \in BOOLEAN
           /\ t.lost <=> ~t.conn.up
           /\ AllClean(pool) => Clean(t.conn) /\ \A i \in DOMAIN t.rest : Clean(t.rest[i])
  <1>1. PICK p \in Seq(OpenConn(V)) : p = pool[a]
    OBVIOUS
  <1>2. Len(p) \in Nat /\ \A i \in 1..Len(p) : p[i] \in OpenConn(V)
    OBVIOUS
  <1>3. \A c \in OpenConn(V) : c \in Conn(V) /\ c.up
    BY DEF OpenConn
  <1>4. AllClean(pool) => \A i \in 1..Len(p) : Clean(p[i])
    <2>1. DOMAIN p = 1..Len(p)
      OBVIOUS
    <2> QED
      BY <1>1, <2>1 DEF AllClean
  <1>5. CASE \E n \in 0..(Len(p) - 1) :
                t = [conn |-> p[Len(p) - n], rest |-> SubSeq(p, 1, Len(p) - n - 1), lost |-> FALSE]
    <2>1. PICK n \in 0..(Len(p) - 1) :
                t = [conn |-> p[Len(p) - n], rest |-> SubSeq(p, 1, Len(p) - n - 1), lost |-> FALSE]
      BY <1>5
    <2> DEFINE m == Len(p) - n
    <2>2. m \in 1..Len(p) /\ m - 1 \in 0..Len(p)
      BY <1>2
    <2>3. t.conn = p[m] /\ t.rest = SubSeq(p, 1, m - 1) /\ t.lost = FALSE
      BY <2>1
    <2> HIDE DEF m
    <2>4. /\ SubSeq(p, 1, m - 1) \in Seq(OpenConn(V)) /\ DOMAIN SubSeq(p, 1, m - 1) = 1..(m - 1)
          /\ \A i \in 1..(m - 1) : SubSeq(p, 1, m - 1)[i] = p[i] /\ i \in 1..Len(p)
      BY <1>2, <2>2
    <2> QED
      BY <1>2, <1>3, <1>4, <2>2, <2>3, <2>4
  <1>6. CASE \E c \in {Fresh, Broken} : t = [conn |-> c, rest |-> <<>>, lost |-> c = Broken]
    <2>1. PICK c \in {Fresh, Broken} : t = [conn |-> c, rest |-> <<>>, lost |-> c = Broken]
      BY <1>6
    <2>2. c \in Conn(V) /\ Clean(c) /\ (c = Broken <=> ~c.up)
      BY NewConns
    <2>3. <<>> \in Seq(OpenConn(V)) /\ DOMAIN <<>> = {}
      OBVIOUS
    <2>4. t.conn = c /\ t.rest = <<>> /\ t.lost = (c = Broken)
      BY <2>1
    <2> QED
      BY <2>2, <2>3, <2>4
  <1>7. \/ \E n \in 0..(Len(p) - 1) :
                t = [conn |-> p[Len(p) - n], rest |-> SubSeq(p, 1, Len(p) - n - 1), lost |-> FALSE]
        \/ \E c \in {Fresh, Broken} : t = [conn |-> c, rest |-> <<>>, lost |-> c = Broken]
    <2> DEFINE dropped == {n \in 0..Len(p) :
                       n = 0 \/ (a = Src /\ \A i \in (Len(p) - n + 1)..Len(p) : ~Clean(p[i]))}
               got(n) == [conn |-> p[Len(p) - n], rest |-> SubSeq(p, 1, Len(p) - n - 1), lost |-> FALSE]
               new(c) == [conn |-> c, rest |-> <<>>, lost |-> c = Broken]
               found == {got(n) : n \in dropped \ {Len(p)}}
               opened == {new(c) : c \in {Fresh} \cup IF troubles < MaxTroubles THEN {Broken} ELSE {}}
    <2>1. TakeOutcomes(a) = found \cup IF Len(p) \in dropped THEN opened ELSE {}
      BY <1>1 DEF TakeOutcomes
    <2>2. ASSUME t \in found PROVE \E n \in 0..(Len(p) - 1) : t = got(n)
      <3>1. \A n \in dropped \ {Len(p)} : n \in 0..(Len(p) - 1)
        BY <1>2
      <3> HIDE DEF dropped, got
      <3> QED
        BY <2>2, <3>1
    <2>3. ASSUME t \in opened PROVE \E c \in {Fresh, Broken} : t = new(c)
      <3> HIDE DEF new
      <3> QED
        BY <2>3
    <2>4. t \in found \/ t \in opened
      <3> HIDE DEF found, opened, dropped
      <3> QED
        BY <2>1
    <2> HIDE DEF found, opened
    <2> QED
      BY <2>2, <2>3, <2>4
  <1> QED
    BY <1>5, <1>6, <1>7

Pooled(V) == [Addrs -> Seq(OpenConn(V))]

\* put() keeps the pool typed and clean.
LEMMA PutIs ==
    ASSUME NEW V, NEW p \in Pooled(V), NEW a \in Addrs, NEW c \in Conn(V)
    PROVE  /\ Put(p, a, c) \in Pooled(V)
           /\ AllClean(p) /\ Clean(c) => AllClean(Put(p, a, c))
  <1>1. CASE ~(c.up /\ Len(p[a]) < PoolMax)
    BY <1>1 DEF Put
  <1>2. CASE c.up /\ Len(p[a]) < PoolMax
    <2>1. Put(p, a, c) = [p EXCEPT ![a] = Append(@, c)]
      BY <1>2 DEF Put
    <2>2. c \in OpenConn(V)
      BY <1>2 DEF OpenConn
    <2>3. PICK s \in Seq(OpenConn(V)) : s = p[a]
      BY DEF Pooled
    <2>4. /\ Append(s, c) \in Seq(OpenConn(V)) /\ DOMAIN Append(s, c) = 1..(Len(s) + 1)
          /\ \A i \in 1..(Len(s) + 1) : Append(s, c)[i] = IF i = Len(s) + 1 THEN c ELSE s[i]
      BY <2>2
    <2>5. Put(p, a, c) \in Pooled(V)
      BY <2>1, <2>3, <2>4 DEF Pooled
    <2>6. ASSUME AllClean(p), Clean(c), NEW b \in Addrs, NEW i \in DOMAIN Put(p, a, c)[b]
          PROVE  Clean(Put(p, a, c)[b][i])
      <3>1. CASE b # a
        <4>1. Put(p, a, c)[b] = p[b]
          BY <2>1, <3>1 DEF Pooled
        <4> QED
          BY <2>6, <4>1 DEF AllClean
      <3>2. CASE b = a
        <4>1. Put(p, a, c)[b] = Append(s, c)
          BY <2>1, <2>3, <3>2 DEF Pooled
        <4>2. i \in 1..(Len(s) + 1) /\ Append(s, c)[i] = IF i = Len(s) + 1 THEN c ELSE s[i]
          BY <2>4, <2>6, <4>1
        <4>3. CASE i = Len(s) + 1
          BY <2>6, <4>1, <4>2, <4>3
        <4>4. CASE i # Len(s) + 1
          <5>1. i \in 1..Len(s) /\ DOMAIN s = 1..Len(s)
            BY <4>2, <4>4
          <5>2. Clean(s[i])
            BY <2>3, <2>6, <5>1 DEF AllClean
          <5> QED
            BY <4>1, <4>2, <4>4, <5>2
        <4> QED
          BY <4>3, <4>4
      <3> QED
        BY <3>1, <3>2
    <2> QED
      BY <2>5, <2>6 DEF AllClean
  <1> QED
    BY <1>1, <1>2

\* The connections one by one.
LEMMA OpensAre ==
    /\ DOMAIN Opens = SyncRoles
    /\ Opens["dest"] = <<Dst, "meta">> /\ Opens["meta"] = <<Dst, "marks">>
    /\ Opens["marks"] = <<Dst, "scan destination">>
    /\ Opens["source_get"] = <<Src, "source_walk">> /\ Opens["source_walk"] = <<Src, "ping">>
    /\ Opens["delete_walk"] = <<Dst, "delete_meta">> /\ Opens["delete_meta"] = <<Dst, "cleanup">>
    /\ Opens["cleanup"] = <<Dst, "scan marked">>
  BY DEF Opens, SyncRoles

\* Their addresses.
LEMMA AddrOf ==
    ASSUME NEW role \in SyncRoles
    PROVE  /\ Opens[role][1] \in Addrs
           /\ Opens[role][1] = IF role \in {"source_get", "source_walk"} THEN Src ELSE Dst
  <1>1. Opens[role][1] = IF role \in {"source_get", "source_walk"} THEN Src ELSE Dst
    <2>1. \A x : <<Dst, x>>[1] = Dst /\ <<Src, x>>[1] = Src
      OBVIOUS
    <2>2. \/ role \in {"source_get", "source_walk"} /\ \E x : Opens[role] = <<Src, x>>
          \/ role \notin {"source_get", "source_walk"} /\ \E x : Opens[role] = <<Dst, x>>
      BY OpensAre DEF SyncRoles
    <2> QED
      BY <2>1, <2>2
  <1> QED
    BY <1>1 DEF Addrs

PoolsStep(roles, f, n) == IF n = 0 THEN pool ELSE GivenBack(f[n - 1], Roles[n], roles)

\* Pools gives back one connection at a time.
LEMMA PoolsSteps ==
    ASSUME NEW roles
    PROVE  /\ Pools(roles)[0] = pool
           /\ \A n \in 1..Len(Roles) : Pools(roles)[n] = GivenBack(Pools(roles)[n - 1], Roles[n], roles)
  <1> DEFINE T == {n \in Nat : \E f : f = [m \in 0..n |-> PoolsStep(roles, f, m)]}
  <1>1. 0 \in T
    <2> DEFINE f == [m \in 0..0 |-> pool]
    <2>1. \A m \in 0..0 : PoolsStep(roles, f, m) = pool
      BY DEF PoolsStep
    <2>2. f = [m \in 0..0 |-> PoolsStep(roles, f, m)]
      BY <2>1
    <2> HIDE DEF f
    <2> QED
      BY <2>2
  <1>2. ASSUME NEW n \in T PROVE n + 1 \in T
    <2>1. PICK f : f = [m \in 0..n |-> PoolsStep(roles, f, m)]
      OBVIOUS
    <2> DEFINE g == [m \in 0..(n + 1) |-> IF m = n + 1 THEN PoolsStep(roles, f, n + 1) ELSE f[m]]
    <2>2. ASSUME NEW m \in 0..(n + 1) PROVE g[m] = PoolsStep(roles, g, m)
      <3>1. CASE m = 0
        <4>1. 0 \in 0..n /\ 0 \in 0..(n + 1) /\ 0 # n + 1
          OBVIOUS
        <4>2. g[0] = f[0]
          BY <4>1
        <4>3. f[0] = PoolsStep(roles, f, 0)
          BY <4>1, <2>1
        <4>4. PoolsStep(roles, f, 0) = PoolsStep(roles, g, 0)
          BY DEF PoolsStep
        <4> QED
          BY <3>1, <4>2, <4>3, <4>4
      <3>2. CASE m # 0
        <4>1. m - 1 \in 0..n /\ m - 1 # n + 1 /\ g[m - 1] = f[m - 1]
          BY <3>2
        <4>2. PoolsStep(roles, g, m) = PoolsStep(roles, f, m)
          BY <4>1, <3>2 DEF PoolsStep
        <4>3. CASE m = n + 1
          BY <4>2, <4>3
        <4>4. CASE m # n + 1
          <5>1. m \in 0..n
            BY <4>4
          <5>2. f[m] = PoolsStep(roles, f, m)
            BY <5>1, <2>1
          <5> QED
            BY <4>4, <5>2, <4>2
        <4> QED
          BY <4>3, <4>4
      <3> QED
        BY <3>1, <3>2
    <2>3. g = [m \in 0..(n + 1) |-> PoolsStep(roles, g, m)]
      BY <2>2
    <2> HIDE DEF g
    <2> QED
      BY <2>3
  <1>3. T = Nat
    <2> HIDE DEF T
    <2>1. T \in SUBSET Nat
      BY DEF T
    <2> QED
      BY <1>1, <1>2, <2>1, Induction
  <1>30. Len(Roles) \in Nat
    BY DEF Roles
  <1>4. Len(Roles) \in T
    BY <1>3, <1>30
  <1>5. \E f : f = [m \in 0..Len(Roles) |-> PoolsStep(roles, f, m)]
    BY <1>4
  <1> DEFINE A == Pools(roles)
  <1>6. A = [m \in 0..Len(Roles) |-> PoolsStep(roles, A, m)]
    BY <1>5, Zenon DEF Pools, PoolsStep
  <1> HIDE DEF A
  <1>7. \A n \in 0..Len(Roles) : A[n] = PoolsStep(roles, A, n)
    BY <1>6
  <1>8. A[0] = pool
    BY <1>7, <1>30 DEF PoolsStep
  <1>9. \A n \in 1..Len(Roles) : A[n] = GivenBack(A[n - 1], Roles[n], roles)
    BY <1>7, <1>30 DEF PoolsStep
  <1> QED
    BY <1>8, <1>9 DEF A

\* What giving back one connection keeps, giving back all of them keeps.
LEMMA PoolsKeep ==
    ASSUME NEW D, NEW roles, pool \in D,
           \A p \in D, role \in SyncRoles : GivenBack(p, role, roles) \in D
    PROVE  Pools(roles)[Len(Roles)] \in D
  <1> DEFINE A == Pools(roles)
             N == Len(Roles)
             T == {n \in Nat : n <= N => A[n] \in D}
  <1>1. A[0] = pool /\ \A n \in 1..N : A[n] = GivenBack(A[n - 1], Roles[n], roles)
    BY PoolsSteps
  <1>2. N \in Nat /\ \A n \in 1..N : Roles[n] \in SyncRoles
    <2>1. Roles \in Seq(SyncRoles)
      BY DEF Roles, SyncRoles
    <2> QED
      BY <2>1
  <1> HIDE DEF A, N
  <1>3. 0 \in T
    BY <1>1
  <1>4. ASSUME NEW n \in T PROVE n + 1 \in T
    <2> SUFFICES ASSUME n + 1 <= N PROVE A[n + 1] \in D
      OBVIOUS
    <2>1. A[n] \in D /\ Roles[n + 1] \in SyncRoles /\ n + 1 \in 1..N /\ (n + 1) - 1 = n
      BY <1>2
    <2>2. A[n + 1] = GivenBack(A[n], Roles[n + 1], roles)
      BY <1>1, <2>1
    <2> QED
      BY <2>1, <2>2
  <1>5. T = Nat
    <2> HIDE DEF T
    <2>1. T \in SUBSET Nat
      BY DEF T
    <2> QED
      BY <1>3, <1>4, <2>1, Induction
  <1>6. A[N] \in D
    BY <1>2, <1>5
  <1> QED
    BY <1>6 DEF A, N

\* Connections that are given back.
LEMMA ReleaseIs ==
    ASSUME NEW V, NEW roles, pool \in Pooled(V), held \in [DOMAIN held -> Conn(V)], Release(roles)
    PROVE  /\ pool' \in Pooled(V)
           /\ AllClean(pool) /\ (\A role \in roles \cap DOMAIN held : Clean(held[role])) => AllClean(pool')
           /\ held' = [r \in DOMAIN held \ roles |-> held[r]]
  <1>1. pool' = Pools(roles)[Len(Roles)] /\ held' = [r \in DOMAIN held \ roles |-> held[r]]
    BY DEF Release, Released
  <1>2. ASSUME NEW p \in Pooled(V), NEW role \in SyncRoles
        PROVE  /\ GivenBack(p, role, roles) \in Pooled(V)
               /\ AllClean(p) /\ (role \in roles \cap DOMAIN held => Clean(held[role]))
                  => AllClean(GivenBack(p, role, roles))
    <2>1. CASE role \notin roles \cap DOMAIN held
      BY <2>1 DEF GivenBack
    <2>2. CASE role \in roles \cap DOMAIN held
      <3>1. held[role] \in Conn(V) /\ Opens[role][1] \in Addrs
        BY <2>2, AddrOf
      <3>2. GivenBack(p, role, roles) = Put(p, Opens[role][1], held[role])
        BY <2>2 DEF GivenBack
      <3> QED
        BY <2>2, <3>1, <3>2, PutIs
    <2> QED
      BY <2>1, <2>2
  <1>3. Pools(roles)[Len(Roles)] \in Pooled(V)
    BY <1>2, PoolsKeep
  <1>4. ASSUME AllClean(pool), \A role \in roles \cap DOMAIN held : Clean(held[role])
        PROVE  AllClean(pool')
    <2> DEFINE D == {p \in Pooled(V) : AllClean(p)}
    <2>1. pool \in D
      BY <1>4
    <2>2. \A p \in D, role \in SyncRoles : GivenBack(p, role, roles) \in D
      BY <1>2, <1>4
    <2>3. Pools(roles)[Len(Roles)] \in D
      <3> HIDE DEF D
      <3> QED
        BY <2>1, <2>2, PoolsKeep
    <2> QED
      BY <1>1, <2>3
  <1> QED
    BY <1>1, <1>3, <1>4

-----------------------------------------------------------------------------
(* Walks and pipelines *)

\* A range of a list.
LEMMA RangeIs ==
    ASSUME NEW S, NEW l \in Seq(S), NEW n \in Nat, n <= Len(l)
    PROVE  /\ NextRange(l, n) \in Seq(S)
           /\ n + Len(NextRange(l, n)) <= Len(l)
           /\ n < Len(l) => Len(NextRange(l, n)) >= 1
           /\ \A i \in 1..Len(NextRange(l, n)) : NextRange(l, n)[i] = l[n + i] /\ n + i \in 1..Len(l)
  <1>1. Pipe \in Nat /\ Pipe >= 1 /\ Len(l) \in Nat
    BY PipelineAssumption
  <1>2. PICK m \in Nat : m = (IF n + Pipe < Len(l) THEN n + Pipe ELSE Len(l))
    BY <1>1
  <1>3. n <= m /\ m <= Len(l) /\ (n < Len(l) => n + 1 <= m)
    BY <1>1, <1>2
  <1>4. NextRange(l, n) = SubSeq(l, n + 1, m)
    BY <1>2 DEF NextRange
  <1>5. \A i \in (n + 1)..m : i \in 1..Len(l) /\ l[i] \in S
    BY <1>1, <1>3
  <1>6. /\ SubSeq(l, n + 1, m) \in Seq(S) /\ Len(SubSeq(l, n + 1, m)) = m - n
        /\ \A i \in 1..(m - n) : SubSeq(l, n + 1, m)[i] = l[n + i]
    BY <1>1, <1>3, <1>5
  <1> QED
    BY <1>1, <1>3, <1>4, <1>6

\* A list without its first entries.
LEMMA DropIs ==
    ASSUME NEW S, NEW l \in Seq(S), NEW n \in Nat, n <= Len(l)
    PROVE  /\ SubSeq(l, n + 1, Len(l)) \in Seq(S)
           /\ Len(SubSeq(l, n + 1, Len(l))) = Len(l) - n
           /\ \A i \in 1..(Len(l) - n) : SubSeq(l, n + 1, Len(l))[i] = l[n + i] /\ n + i \in 1..Len(l)
  OBVIOUS

\* A pipeline is filled with some keys; the others are left.
LEMMA BatchIs ==
    ASSUME sync.keys \in Seq(Keys)
    PROVE  /\ Batch \in Seq(Keys) /\ Rest \in Seq(Keys)
           /\ sync.keys # <<>> => Batch # <<>>
           /\ \A i \in DOMAIN Batch : InRange(Batch[i], sync.keys)
           /\ \A i \in DOMAIN Rest : InRange(Rest[i], sync.keys)
           /\ \A k : InRange(k, sync.keys) => InRange(k, Batch) \/ InRange(k, Rest)
           /\ Distinct(sync.keys) => Distinct(Batch) /\ Distinct(Rest)
  <1>1. PICK l \in Seq(Keys) : l = sync.keys
    OBVIOUS
  <1>2. PICK b \in Seq(Keys) : b = Batch
    BY <1>1, RangeIs DEF Batch
  <1>3. /\ Len(b) <= Len(l) /\ (0 < Len(l) => Len(b) >= 1) /\ Len(b) \in Nat /\ Len(l) \in Nat
        /\ \A i \in 1..Len(b) : b[i] = l[i] /\ i \in 1..Len(l)
    BY <1>1, <1>2, RangeIs DEF Batch
  <1>4. PICK r \in Seq(Keys) : r = Rest
    BY <1>1, <1>2, <1>3, DropIs DEF Rest
  <1>5. /\ Len(r) = Len(l) - Len(b)
        /\ \A i \in 1..Len(r) : r[i] = l[Len(b) + i] /\ Len(b) + i \in 1..Len(l)
    BY <1>1, <1>2, <1>3, <1>4, DropIs DEF Rest
  <1>6. DOMAIN b = 1..Len(b) /\ DOMAIN r = 1..Len(r) /\ DOMAIN l = 1..Len(l)
    OBVIOUS
  <1>7. l # <<>> => b # <<>>
    BY <1>3, SeqEmpty
  <1>8. \A i \in DOMAIN b : InRange(b[i], l)
    BY <1>3, <1>6 DEF InRange
  <1>9. \A i \in DOMAIN r : InRange(r[i], l)
    BY <1>5, <1>6 DEF InRange
  <1>10. ASSUME NEW k, InRange(k, l) PROVE InRange(k, b) \/ InRange(k, r)
    <2>1. PICK i \in 1..Len(l) : l[i] = k
      BY <1>6, <1>10 DEF InRange
    <2>2. CASE i <= Len(b)
      <3>1. i \in 1..Len(b)
        BY <1>3, <2>2
      <3> QED
        BY <1>3, <1>6, <2>1, <3>1 DEF InRange
    <2>3. CASE i > Len(b)
      <3>1. PICK j \in 1..Len(r) : Len(b) + j = i
        <4>1. i - Len(b) \in 1..Len(r) /\ Len(b) + (i - Len(b)) = i
          BY <1>3, <1>5, <2>3
        <4> QED
          BY <4>1
      <3> QED
        BY <1>5, <1>6, <2>1, <3>1 DEF InRange
    <2> QED
      BY <1>3, <2>2, <2>3
  <1>11. ASSUME Distinct(l) PROVE Distinct(b) /\ Distinct(r)
    <2>1. \A i, j \in 1..Len(l) : l[i] = l[j] => i = j
      BY <1>6, <1>11 DEF Distinct
    <2>2. Distinct(b)
      BY <1>3, <1>6, <2>1 DEF Distinct
    <2>3. ASSUME NEW i \in 1..Len(r), NEW j \in 1..Len(r), r[i] = r[j] PROVE i = j
      <3>1. Len(b) + i = Len(b) + j
        BY <1>5, <2>1, <2>3
      <3> QED
        BY <1>3, <1>5, <3>1
    <2> QED
      BY <1>6, <2>2, <2>3 DEF Distinct
  <1> QED
    BY <1>1, <1>2, <1>4, <1>7, <1>8, <1>9, <1>10, <1>11

\* The key at the head of a walk and the others.
LEMMA RestOf ==
    ASSUME NEW s \in Seq(Keys), s # <<>>
    PROVE  /\ Head(s) \in Keys /\ Tail(s) \in Seq(Keys)
           /\ Tail(s) # <<>> <=> Len(s) > 1
           /\ \A i \in DOMAIN Tail(s) : InRange(Tail(s)[i], s)
           /\ \A k : InRange(k, s) <=> k = Head(s) \/ InRange(k, Tail(s))
           /\ Distinct(s) => Distinct(Tail(s)) /\ ~InRange(Head(s), Tail(s))
  <1>1. PICK t \in Seq(Keys) : t = Tail(s)
    BY SeqTail
  <1>2. /\ Len(s) \in Nat /\ Len(s) >= 1 /\ Head(s) = s[1] /\ s[1] \in Keys /\ Len(t) = Len(s) - 1
        /\ \A i \in 1..Len(t) : t[i] = s[i + 1] /\ i + 1 \in 1..Len(s)
    BY <1>1, SeqTail
  <1>3. DOMAIN s = 1..Len(s) /\ DOMAIN t = 1..Len(t)
    OBVIOUS
  <1>4. t # <<>> <=> Len(s) > 1
    BY <1>2, SeqEmpty
  <1>5. \A i \in DOMAIN t : InRange(t[i], s)
    BY <1>2, <1>3 DEF InRange
  <1>6. ASSUME NEW k, InRange(k, s), k # Head(s) PROVE InRange(k, t)
    <2>1. PICK i \in 1..Len(s) : s[i] = k
      BY <1>3, <1>6 DEF InRange
    <2>2. i # 1
      BY <1>2, <1>6, <2>1
    <2>3. PICK j \in 1..Len(t) : j + 1 = i
      <3>1. i - 1 \in 1..Len(t) /\ (i - 1) + 1 = i
        BY <1>2, <2>2
      <3> QED
        BY <3>1
    <2> QED
      BY <1>2, <1>3, <2>1, <2>3 DEF InRange
  <1>7. 1 \in 1..Len(s)
    BY <1>2
  <1>8. \A k : k = Head(s) \/ InRange(k, t) => InRange(k, s)
    BY <1>2, <1>3, <1>7 DEF InRange
  <1>9. ASSUME Distinct(s) PROVE Distinct(t) /\ ~InRange(Head(s), t)
    <2>1. \A i, j \in 1..Len(s) : s[i] = s[j] => i = j
      BY <1>3, <1>9 DEF Distinct
    <2>2. ASSUME NEW i \in 1..Len(t), NEW j \in 1..Len(t), t[i] = t[j] PROVE i = j
      <3>1. i + 1 = j + 1
        BY <1>2, <2>1, <2>2
      <3> QED
        BY <3>1
    <2>3. ASSUME NEW i \in 1..Len(t), t[i] = Head(s) PROVE FALSE
      <3>1. i + 1 = 1
        BY <1>2, <1>7, <2>1, <2>3
      <3> QED
        BY <3>1
    <2> QED
      BY <1>3, <2>2, <2>3 DEF Distinct, InRange
  <1> QED
    BY <1>1, <1>2, <1>4, <1>5, <1>6, <1>8, <1>9

\* Part of the keys of listed objects.
LEMMA ListedPart ==
    ASSUME NEW s, NEW t, NEW objs, AllListed(s, objs), \A i \in DOMAIN t : InRange(t[i], s)
    PROVE  AllListed(t, objs)
  BY DEF AllListed, InRange

\* A walk without keys.
LEMMA EmptyWalk ==
    /\ <<>> \in Seq(Keys) /\ Distinct(<<>>) /\ \A objs : AllListed(<<>>, objs)
    /\ \A k : ~InRange(k, <<>>)
  BY DEF Distinct, AllListed, InRange

-----------------------------------------------------------------------------
(* The synchronisation keeps its types *)

\* The blank object.
LEMMA BlankIs == Blank \in [key : Keys \cup {NoKey}, val : Object]
  BY ObjectsAre DEF Blank

\* The fields of the synchronisation.
LEMMA SyncHas ==
    ASSUME NEW V, NEW s, SyncOk(s, V)
    PROVE  /\ s \in SyncRecord(V) /\ s.pc \in Places /\ s.list \in BOOLEAN
           /\ s.keys \in Seq(Keys) /\ s.cache \in Seq(Keys)
           /\ s.src \in [key : Keys \cup {NoKey}, val : Object]
           /\ s.dest \in [key : Keys \cup {NoKey}, val : Object]
           /\ s.agreed \in BOOLEAN /\ s.found \in BOOLEAN
           /\ s.pc \in Answering => s.cache # <<>> /\ Head(s.cache) \in Keys
  <1>1. /\ s \in SyncRecord(V) /\ s.pc \in Places /\ s.list \in BOOLEAN
        /\ s.keys \in Seq(Keys) /\ s.cache \in Seq(Keys)
        /\ s.src \in [key : Keys \cup {NoKey}, val : Object]
        /\ s.dest \in [key : Keys \cup {NoKey}, val : Object]
        /\ s.agreed \in BOOLEAN /\ s.found \in BOOLEAN
    BY DEF SyncOk, SyncRecord
  <1>2. s.pc \in Answering => s.cache # <<>>
    BY DEF SyncOk
  <1> QED
    BY <1>1, <1>2, RestOf

NotListed == {"source_get", "source_walk", "ping", "scan source", "source reply"}

\* The phases are places.
LEMMA PlacesAre ==
    /\ Answering \subseteq Places /\ SyncRoles \subseteq Places /\ Comparing \subseteq Places
    /\ Marking \subseteq Places /\ Deleting \subseteq Places /\ {"ok", "err", "idle"} \subseteq Places
  BY DEF Places, Answering, SyncRoles, Comparing, Marking, Deleting, Removing

\* To another place, with the same keys.
LEMMA MovedOk ==
    ASSUME NEW V, NEW s, SyncOk(s, V), NEW pc \in Places,
           pc # "idle", s.pc # "idle", pc \in Answering <=> s.pc \in Answering,
           pc \in {"compare", "apply"} => s.src \in Item(V),
           pc \in NotListed => ~s.list,
           s.list /\ pc \in Comparing => s.pc \in Comparing
    PROVE  SyncOk([s EXCEPT !.pc = pc], V)
  <1> DEFINE t == [s EXCEPT !.pc = pc]
  <1>1. s \in SyncRecord(V)
    BY SyncHas
  <1>2. /\ t \in SyncRecord(V) /\ t.pc = pc /\ t.list = s.list /\ t.objs = s.objs /\ t.keys = s.keys
        /\ t.cache = s.cache /\ t.src = s.src
    BY <1>1 DEF SyncRecord
  <1> HIDE DEF t
  <1>3. SyncOk(t, V)
    BY <1>2 DEF SyncOk, NotListed
  <1> QED
    BY <1>3 DEF t

\* What was read or decided on the way.
LEMMA NotedOk ==
    ASSUME NEW V, NEW s, SyncOk(s, V), NEW found \in BOOLEAN, NEW agreed \in BOOLEAN,
           NEW src \in [key : Keys \cup {NoKey}, val : Object],
           NEW dest \in [key : Keys \cup {NoKey}, val : Object],
           s.pc \in {"compare", "apply"} => src \in Item(V)
    PROVE  SyncOk([s EXCEPT !.found = found, !.agreed = agreed, !.src = src, !.dest = dest], V)
  <1> DEFINE t == [s EXCEPT !.found = found, !.agreed = agreed, !.src = src, !.dest = dest]
  <1>1. s \in SyncRecord(V)
    BY SyncHas
  <1>2. /\ t \in SyncRecord(V) /\ t.pc = s.pc /\ t.list = s.list /\ t.objs = s.objs /\ t.keys = s.keys
        /\ t.cache = s.cache /\ t.src = src
    BY <1>1 DEF SyncRecord
  <1> HIDE DEF t
  <1>3. SyncOk(t, V)
    BY <1>2 DEF SyncOk
  <1> QED
    BY <1>3 DEF t

\* On to the next reply: the fields.
LEMMA NextReplyIs ==
    ASSUME NEW V, NEW s \in SyncRecord(V), NEW reply, NEW request,
           NEW t, t = NextReply(s, reply, request)
    PROVE  /\ Tail(s.cache) \in Seq(Keys) /\ reply \in Places /\ request \in Places => t \in SyncRecord(V)
           /\ Len(s.cache) > 1 => t.pc = reply
           /\ ~(Len(s.cache) > 1) => t.pc = request
           /\ t.list = s.list /\ t.objs = s.objs /\ t.keys = s.keys /\ t.cache = Tail(s.cache)
           /\ t.dest = s.dest /\ t.rc = s.rc /\ t.agreed = s.agreed /\ t.found = FALSE
  BY BlankIs DEF NextReply, SyncRecord

\* On to the next reply: the types.
LEMMA NextReplyOk ==
    ASSUME NEW V, NEW s, SyncOk(s, V), s.pc \in Answering, NEW reply \in Places, NEW request \in Places,
           \/ reply = "mark reply" /\ request = "mark"
           \/ reply = "marked reply" /\ request = "marked"
           \/ reply = "dest reply" /\ request = "request" /\ s.pc \in Comparing
    PROVE  SyncOk(NextReply(s, reply, request), V)
  <1>0. PICK t : t = NextReply(s, reply, request)
    OBVIOUS
  <1>1. s \in SyncRecord(V) /\ s.cache \in Seq(Keys) /\ s.cache # <<>>
    BY SyncHas
  <1>3. /\ Tail(s.cache) \in Seq(Keys) /\ (Tail(s.cache) # <<>> <=> Len(s.cache) > 1)
        /\ \A i \in DOMAIN Tail(s.cache) : InRange(Tail(s.cache)[i], s.cache)
        /\ Distinct(s.cache) => Distinct(Tail(s.cache))
    BY <1>1, RestOf
  <1>2. /\ Len(s.cache) > 1 => t.pc = reply
        /\ ~(Len(s.cache) > 1) => t.pc = request
        /\ t.list = s.list /\ t.objs = s.objs /\ t.keys = s.keys /\ t.cache = Tail(s.cache)
    BY <1>0, <1>1 DEF NextReply, SyncRecord
  <1>4. t \in SyncRecord(V)
    BY <1>0, <1>1, <1>3, NextReplyIs
  <1>5. t.cache # <<>> <=> t.pc \in Answering
    BY <1>2, <1>3 DEF Answering
  <1>6. t.list /\ t.pc \in Comparing => AllListed(t.keys, t.objs) /\ AllListed(t.cache, t.objs)
    <2> SUFFICES ASSUME t.list, t.pc \in Comparing PROVE AllListed(t.keys, t.objs) /\ AllListed(t.cache, t.objs)
      OBVIOUS
    <2>1. s.list /\ s.pc \in Comparing
      BY <1>2 DEF Comparing
    <2>2. AllListed(s.keys, s.objs) /\ AllListed(s.cache, s.objs)
      BY <2>1 DEF SyncOk
    <2>3. AllListed(Tail(s.cache), s.objs)
      BY <1>3, <2>2, ListedPart
    <2> QED
      BY <1>2, <2>2, <2>3
  <1>7. SyncOk(t, V)
    <2>1. t.pc \notin {"compare", "apply", "idle"} \cup NotListed /\ s.pc # "idle"
      BY <1>2 DEF Answering, NotListed
    <2> QED
      BY <1>2, <1>3, <1>4, <1>5, <1>6, <2>1 DEF SyncOk, NotListed
  <1> QED
    BY <1>0, <1>7

\* A walk has listed these keys.
LEMMA WalkedOk ==
    ASSUME NEW V, NEW s, SyncOk(s, V), NEW keys \in Walks, NEW pc \in Places,
           s.pc \notin Answering, s.pc # "idle", pc \in {"mark", "request", "marked"},
           pc = "request" => ~s.list \/ AllListed(keys, s.objs)
    PROVE  SyncOk([s EXCEPT !.pc = pc, !.keys = keys], V)
  <1> DEFINE t == [s EXCEPT !.pc = pc, !.keys = keys]
  <1>1. s \in SyncRecord(V) /\ keys \in Seq(Keys) /\ Distinct(keys)
    BY SyncHas DEF Walks
  <1>2. /\ t \in SyncRecord(V) /\ t.pc = pc /\ t.list = s.list /\ t.objs = s.objs /\ t.keys = keys
        /\ t.cache = s.cache /\ t.src = s.src
    BY <1>1 DEF SyncRecord
  <1> HIDE DEF t
  <1>3. t.pc \notin Answering \cup NotListed \cup {"compare", "apply", "idle"}
    BY <1>2 DEF Answering, NotListed
  <1>4. s.cache = <<>>
    BY DEF SyncOk
  <1>5. t.list /\ t.pc \in Comparing => AllListed(t.keys, t.objs) /\ AllListed(t.cache, t.objs)
    BY <1>2, <1>4, EmptyWalk DEF Comparing
  <1>6. SyncOk(t, V)
    BY <1>1, <1>2, <1>3, <1>4, <1>5 DEF SyncOk, NotListed
  <1> QED
    BY <1>6 DEF t

\* A pipeline is filled.
LEMMA FilledOk ==
    ASSUME NEW V, SyncOk(sync, V), NEW pc \in Places, sync.keys # <<>>,
           \/ sync.pc = "mark" /\ pc = "mark reply"
           \/ sync.pc = "request" /\ pc = "dest reply"
           \/ sync.pc = "marked" /\ pc = "marked reply"
    PROVE  SyncOk([sync EXCEPT !.pc = pc, !.cache = Batch, !.keys = Rest], V)
  <1> DEFINE t == [sync EXCEPT !.pc = pc, !.cache = Batch, !.keys = Rest]
  <1>1. sync \in SyncRecord(V) /\ sync.keys \in Seq(Keys)
    BY SyncHas
  <1>2. /\ Batch \in Seq(Keys) /\ Rest \in Seq(Keys) /\ Batch # <<>>
        /\ \A i \in DOMAIN Batch : InRange(Batch[i], sync.keys)
        /\ \A i \in DOMAIN Rest : InRange(Rest[i], sync.keys)
        /\ Distinct(sync.keys) => Distinct(Batch) /\ Distinct(Rest)
    BY <1>1, BatchIs
  <1>3. /\ t \in SyncRecord(V) /\ t.pc = pc /\ t.list = sync.list /\ t.objs = sync.objs /\ t.keys = Rest
        /\ t.cache = Batch /\ t.src = sync.src
    BY <1>1, <1>2 DEF SyncRecord
  <1> HIDE DEF t
  <1>4. t.pc \in Answering /\ t.pc \notin NotListed \cup {"compare", "apply", "idle"} /\ sync.pc # "idle"
    BY <1>3 DEF Answering, NotListed
  <1>5. t.list /\ t.pc \in Comparing => AllListed(t.keys, t.objs) /\ AllListed(t.cache, t.objs)
    <2> SUFFICES ASSUME t.list, t.pc \in Comparing PROVE AllListed(t.keys, t.objs) /\ AllListed(t.cache, t.objs)
      OBVIOUS
    <2>1. sync.list /\ sync.pc \in Comparing
      BY <1>3 DEF Comparing
    <2>2. AllListed(sync.keys, sync.objs)
      BY <2>1 DEF SyncOk
    <2> QED
      BY <1>2, <1>3, <2>2, ListedPart
  <1>6. SyncOk(t, V)
    BY <1>2, <1>3, <1>4, <1>5 DEF SyncOk, NotListed
  <1> QED
    BY <1>6 DEF t

\* The state the proof of each step starts from; V is one of the two.
Kind(V) == V \in {Object, Complete}

\* Values are objects, or complete objects.
LEMMA KindIs ==
    ASSUME NEW V, Kind(V)
    PROVE  /\ Complete \subseteq V /\ V \subseteq Object /\ Absent \notin V /\ Stored \subseteq V
           /\ Item(V) \subseteq [key : Keys \cup {NoKey}, val : Object]
           /\ Item(V) \subseteq Item(Object)
  BY ObjectsAre DEF Kind, Item

-----------------------------------------------------------------------------
(* What the parts of a step keep *)

\* A connection is taken or used.
LEMMA WithIs ==
    ASSUME NEW V, held \in [DOMAIN held -> Conn(V)], NEW role, NEW c \in Conn(V), With(role, c)
    PROVE  /\ DOMAIN held' = DOMAIN held \cup {role}
           /\ held' \in [DOMAIN held' -> Conn(V)]
           /\ held'[role] = c
           /\ \A r \in DOMAIN held : r # role => held'[r] = held[r]
  BY DEF With

\* A bulk operation that is left alone.
LEMMA BulkKept ==
    ASSUME NEW V, BulkTyped(V), bulk' = bulk, "bulk" \in lostBy => "bulk" \in lostBy',
           "bulk" \in DOMAIN held => "bulk" \in DOMAIN held' /\ held'["bulk"] = held["bulk"]
    PROVE  BulkTyped(V)'
  BY DEF BulkTyped

\* Lost connections are only added.
LEMMA NoteIs ==
    ASSUME NEW thread \in Threads, NEW o, Note(thread, o), lostBy \in SUBSET Threads
    PROVE  /\ lostBy' \in SUBSET Threads /\ lostBy \subseteq lostBy' /\ lostBy' \subseteq lostBy \cup {thread}
           /\ o.lost => thread \in lostBy'
           /\ ~o.lost => lostBy' = lostBy
  BY DEF Note

\* command() leaves everything typed.
LEMMA CommandTyped ==
    ASSUME NEW V, NEW a, NEW c \in Conn(V), NEW r \in Req(V), db[a] \in Database(V),
           NEW o \in CommandOutcomes(a, c, r)
    PROVE  /\ o.conn \in Conn(V) /\ o.db \in Database(V) /\ o.lost \in BOOLEAN
           /\ o.reply # NoReply => o.reply \in Reply(V)
  <1>1. <<r>> \in Seq(Req(V))
    OBVIOUS
  <1>2. PICK n \in Conn(V) : o \in ResponseOutcomes(a, Buffered(n, <<r>>))
    BY NewConns DEF CommandOutcomes
  <1>3. Buffered(n, <<r>>) \in Conn(V)
    BY <1>1, BufferedIs
  <1> QED
    BY <1>2, <1>3, ResponseIs

\* A call of the synchronisation on a connection it has.
LEMMA UsesTyped ==
    ASSUME NEW V, PipeTyped(V), BulkTyped(V), Taken, NEW role \in SyncRoles, role \in DOMAIN held, NEW o,
           o \in Response(role) \/ \E r \in Req(V) : o \in Command(role, r),
           Uses(role, o)
    PROVE  /\ PipeTyped(V)' /\ BulkTyped(V)'
           /\ DOMAIN held' = DOMAIN held
           /\ o.reply # NoReply => o.reply \in Reply(V)
  <1> DEFINE a == Opens[role][1]
  <1>1. a \in Addrs /\ role # "bulk"
    BY AddrOf DEF SyncRoles
  <1>2. db[a] \in Database(V) /\ held[role] \in Conn(V)
    BY <1>1 DEF PipeTyped
  <1>3. /\ o.conn \in Conn(V) /\ o.db \in Database(V) /\ o.lost \in BOOLEAN
        /\ o.reply # NoReply => o.reply \in Reply(V)
    <2>1. CASE o \in Response(role)
      BY <1>2, <2>1, ResponseIs DEF Response
    <2>2. CASE \E r \in Req(V) : o \in Command(role, r)
      BY <1>2, <2>2, CommandTyped DEF Command
    <2> QED
      BY <2>1, <2>2
  <1>4. /\ db' = [db EXCEPT ![a] = o.db] /\ Note("sync", o) /\ With(role, o.conn)
        /\ UNCHANGED <<pool, bulk, calls, gaveUp, touched>>
    BY DEF Uses
  <1> HIDE DEF a
  <1>5. /\ DOMAIN held' = DOMAIN held
        /\ held' \in [DOMAIN held' -> Conn(V)]
        /\ \A r \in DOMAIN held : r # role => held'[r] = held[r]
    <2>1. held \in [DOMAIN held -> Conn(V)]
      BY DEF PipeTyped
    <2>2. /\ DOMAIN held' = DOMAIN held \cup {role}
          /\ held' \in [DOMAIN held' -> Conn(V)]
          /\ \A r \in DOMAIN held : r # role => held'[r] = held[r]
      BY <1>3, <1>4, <2>1, WithIs
    <2> QED
      BY <2>2
  <1>6. lostBy' \in SUBSET Threads /\ lostBy \subseteq lostBy'
    BY <1>4, NoteIs DEF PipeTyped, Threads
  <1>7. db' \in [Addrs -> Database(V)]
    BY <1>3, <1>4 DEF PipeTyped
  <1>8. PipeTyped(V)'
    BY <1>4, <1>5, <1>6, <1>7 DEF PipeTyped
  <1>9. BulkTyped(V)'
    BY <1>1, <1>4, <1>5, <1>6, BulkKept
  <1> QED
    BY <1>3, <1>5, <1>8, <1>9

\* The object of a reply.
LEMMA ObjectReply ==
    ASSUME NEW V, Kind(V), NEW o, o.reply # NoReply => o.reply \in Reply(V)
    PROVE  /\ o.reply.is = "object" => o.reply.obj \in Item(V)
           /\ o.reply.is = "keys" => o.reply.keys \in Walks
           /\ \A old \in [key : Keys \cup {NoKey}, val : Object] :
                 Received(o, old) \in [key : Keys \cup {NoKey}, val : Object]
  <1>1. NoReply.is = "none"
    BY DEF NoReply
  <1>2. o.reply.is \in {"object", "keys"} => o.reply \in Reply(V)
    BY <1>1
  <1>3. /\ o.reply.is = "object" => o.reply.obj \in Item(V)
        /\ o.reply.is = "keys" => o.reply.keys \in Walks
    BY <1>2, ReplyHas
  <1> QED
    BY <1>3, KindIs DEF Received

\* What TypedFor says.
LEMMA TypedHas ==
    ASSUME NEW V, TypedFor(V), Taken
    PROVE  /\ PipeTyped(V) /\ BulkTyped(V) /\ SyncOk(sync, V)
           /\ Needs(sync) \subseteq DOMAIN held
  BY DEF TypedFor, Taken

\* A step of the synchronisation that uses connections it has.
LEMMA UsedTaken ==
    ASSUME NEW V, PipeTyped(V)', BulkTyped(V)', SyncOk(sync, V)', sync'.pc # "idle",
           Needs(sync)' \subseteq DOMAIN held'
    PROVE  TypedFor(V)' /\ Taken'
  BY DEF TypedFor, Taken

\* A delete without a key.
LEMMA NoKeyTyped == ASSUME NEW V PROVE Request("scan", NoKey) \in Req(V) /\ Request("ping", NoKey) \in Req(V)
  BY OtherRequestTyped

-----------------------------------------------------------------------------
(* TypedFor(V) is kept: the synchronisation *)

\* Walk keeps the types.
LEMMA WalkTyped ==
    ASSUME NEW V, Kind(V), TypedFor(V), Taken, NEW pc, NEW role, NEW then, Walk(pc, role, then),
           \/ pc = "scan destination" /\ role = "meta" /\ then = "mark"
           \/ pc = "scan source" /\ role = "source_walk" /\ then = "request"
           \/ pc = "scan marked" /\ role = "delete_walk" /\ then = "marked"
    PROVE  TypedFor(V)' /\ Taken'
  <1>1. PipeTyped(V) /\ BulkTyped(V) /\ SyncOk(sync, V) /\ Needs(sync) \subseteq DOMAIN held
    BY TypedHas
  <1>2. PICK o \in Command(role, Request("scan", NoKey)) :
          /\ Uses(role, o)
          /\ sync' = IF o.reply.is = "keys" THEN [sync EXCEPT !.pc = then, !.keys = o.reply.keys]
                     ELSE [sync EXCEPT !.pc = "err"]
    BY DEF Walk
  <1>3. sync.pc = pc
    BY DEF Walk
  <1>4. role \in SyncRoles /\ role \in DOMAIN held
    BY <1>1, <1>3 DEF SyncRoles, Needs
  <1>5. /\ PipeTyped(V)' /\ BulkTyped(V)'
        /\ DOMAIN held' = DOMAIN held
        /\ o.reply # NoReply => o.reply \in Reply(V)
    BY <1>1, <1>2, <1>4, UsesTyped, NoKeyTyped
  <1>6. sync \in SyncRecord(V)
    BY <1>1, SyncHas
  <1>7. /\ pc \notin Answering /\ pc # "idle" /\ then \in Places /\ "err" \in Places
        /\ (then = "request" => pc \in NotListed) /\ "err" \notin Answering \cup NotListed \cup Comparing
    BY DEF Answering, Places, NotListed, Comparing
  <1>8. CASE o.reply.is = "keys"
    <2>1. o.reply.keys \in Walks
      BY <1>5, <1>8, ObjectReply
    <2>2. sync' = [sync EXCEPT !.pc = then, !.keys = o.reply.keys]
      BY <1>2, <1>8
    <2>3. then = "request" => ~sync.list
      BY <1>1, <1>3, <1>7 DEF SyncOk, NotListed
    <2>4. SyncOk([sync EXCEPT !.pc = then, !.keys = o.reply.keys], V)
      BY <1>1, <1>3, <1>7, <2>1, <2>3, WalkedOk
    <2>5. sync'.pc = then /\ sync'.list = sync.list
      BY <1>6, <2>2 DEF SyncRecord
    <2>6. Needs(sync)' \subseteq Needs(sync) /\ sync'.pc # "idle"
      BY <1>3, <2>3, <2>5 DEF Needs
    <2> QED
      BY <1>1, <1>5, <2>2, <2>4, <2>6, UsedTaken
  <1>9. CASE o.reply.is # "keys"
    <2>1. sync' = [sync EXCEPT !.pc = "err"]
      BY <1>2, <1>9
    <2>2. SyncOk([sync EXCEPT !.pc = "err"], V)
      BY <1>1, <1>3, <1>7, MovedOk
    <2>3. sync'.pc = "err"
      BY <1>6, <2>1 DEF SyncRecord
    <2>4. Needs(sync)' \subseteq Needs(sync) /\ sync'.pc # "idle"
      BY <2>3 DEF Needs
    <2> QED
      BY <1>1, <1>5, <2>1, <2>2, <2>4, UsedTaken
  <1> QED
    BY <1>8, <1>9

\* The steps that end with the next reply of a pipeline.
LEMMA RepliedTyped ==
    ASSUME NEW V, Kind(V), TypedFor(V), Taken, NEW reply, NEW request, NEW agreed \in BOOLEAN,
           NEW dest \in [key : Keys \cup {NoKey}, val : Object], NEW s,
           s = [sync EXCEPT !.agreed = agreed, !.dest = dest],
           sync' = NextReply(s, reply, request),
           PipeTyped(V)', BulkTyped(V)', DOMAIN held' = DOMAIN held,
           \/ reply = "mark reply" /\ request = "mark" /\ sync.pc = "mark reply"
           \/ reply = "marked reply" /\ request = "marked" /\ sync.pc \in {"marked reply", "load", "unmark"}
           \/ reply = "dest reply" /\ request = "request" /\ sync.pc \in {"source reply", "compare", "apply"}
    PROVE  TypedFor(V)' /\ Taken'
  <1>1. PipeTyped(V) /\ BulkTyped(V) /\ SyncOk(sync, V) /\ Needs(sync) \subseteq DOMAIN held
    BY TypedHas
  <1>2. sync \in SyncRecord(V)
    BY <1>1, SyncHas
  <1>3. SyncOk(s, V)
    <2>1. SyncOk([sync EXCEPT !.found = sync.found, !.agreed = agreed, !.src = sync.src, !.dest = dest], V)
      <3>1. /\ sync.found \in BOOLEAN /\ sync.src \in [key : Keys \cup {NoKey}, val : Object]
            /\ sync.pc \in {"compare", "apply"} => sync.src \in Item(V)
        BY <1>1, <1>2 DEF SyncOk, SyncRecord
      <3> QED
        BY <1>1, <3>1, NotedOk
    <2>2. s = [sync EXCEPT !.found = sync.found, !.agreed = agreed, !.src = sync.src, !.dest = dest]
      BY <1>2 DEF SyncRecord
    <2> QED
      BY <2>1, <2>2
  <1>4. s \in SyncRecord(V) /\ s.pc = sync.pc /\ s.list = sync.list
    BY <1>2, <1>3, SyncHas DEF SyncRecord
  <1>5. s.pc \in Answering /\ reply \in Places /\ request \in Places
        /\ (request = "request" => s.pc \in Comparing)
    BY <1>4 DEF Answering, Places, Comparing
  <1>6. SyncOk(NextReply(s, reply, request), V)
    BY <1>3, <1>5, NextReplyOk
  <1>7. sync'.pc \in {reply, request} /\ sync'.list = sync.list
    BY <1>4 DEF NextReply, SyncRecord
  <1>8. Needs(sync)' \subseteq Needs(sync) /\ sync'.pc # "idle"
    BY <1>7 DEF Needs
  <1> QED
    BY <1>1, <1>6, <1>8, UsedTaken

\* The other steps that use a connection.
LEMMA MovedTyped ==
    ASSUME NEW V, Kind(V), TypedFor(V), Taken, NEW pc \in Places, NEW s, SyncOk(s, V),
           s.pc = sync.pc, s.list = sync.list, sync.pc # "idle",
           sync' = [s EXCEPT !.pc = pc],
           PipeTyped(V)', BulkTyped(V)',
           pc # "idle", pc \in Answering <=> sync.pc \in Answering,
           pc \in {"compare", "apply"} => s.src \in Item(V),
           pc \in NotListed => ~sync.list,
           sync.list /\ pc \in Comparing => sync.pc \in Comparing,
           Needs([sync EXCEPT !.pc = pc]) \subseteq DOMAIN held'
    PROVE  TypedFor(V)' /\ Taken'
  <1>1. PipeTyped(V) /\ BulkTyped(V) /\ SyncOk(sync, V)
    BY TypedHas
  <1>2. sync \in SyncRecord(V) /\ s \in SyncRecord(V)
    BY <1>1, SyncHas
  <1>3. SyncOk([s EXCEPT !.pc = pc], V)
    BY MovedOk
  <1>4. /\ sync'.pc = pc /\ sync'.list = sync.list
        /\ [sync EXCEPT !.pc = pc].pc = pc /\ [sync EXCEPT !.pc = pc].list = sync.list
    BY <1>2 DEF SyncRecord
  <1>5. Needs(sync)' = Needs([sync EXCEPT !.pc = pc])
    BY <1>4 DEF Needs
  <1> QED
    BY <1>3, <1>4, <1>5, UsedTaken

\* A bulk step leaves the synchronisation alone.
LEMMA SyncSame ==
    ASSUME NEW V, NEW s, SyncOk(s, V)
    PROVE  /\ s = [s EXCEPT !.agreed = s.agreed, !.dest = s.dest]
           /\ s.agreed \in BOOLEAN /\ s.dest \in [key : Keys \cup {NoKey}, val : Object]
           /\ \A agreed : [s EXCEPT !.agreed = agreed] = [s EXCEPT !.agreed = agreed, !.dest = s.dest]
  <1>1. s \in SyncRecord(V)
    BY SyncHas
  <1> QED
    BY <1>1 DEF SyncRecord

\* A reply that is taken.
LEMMA RepliedPlain ==
    ASSUME NEW V, Kind(V), TypedFor(V), Taken, NEW reply, NEW request,
           sync' = NextReply(sync, reply, request),
           PipeTyped(V)', BulkTyped(V)', DOMAIN held' = DOMAIN held,
           \/ reply = "mark reply" /\ request = "mark" /\ sync.pc = "mark reply"
           \/ reply = "marked reply" /\ request = "marked" /\ sync.pc \in {"marked reply", "load", "unmark"}
           \/ reply = "dest reply" /\ request = "request" /\ sync.pc \in {"source reply", "compare", "apply"}
    PROVE  TypedFor(V)' /\ Taken'
  <1>1. SyncOk(sync, V)
    BY TypedHas
  <1>2. PICK agreed \in BOOLEAN, dest \in [key : Keys \cup {NoKey}, val : Object] :
            sync = [sync EXCEPT !.agreed = agreed, !.dest = dest]
    <2>1. /\ sync = [sync EXCEPT !.agreed = sync.agreed, !.dest = sync.dest]
          /\ sync.agreed \in BOOLEAN /\ sync.dest \in [key : Keys \cup {NoKey}, val : Object]
      BY <1>1, SyncSame
    <2> QED
      BY <2>1, Zenon
  <1> QED
    BY <1>2, RepliedTyped

\* MarkReply keeps the types.
LEMMA MarkReplyTyped ==
    ASSUME NEW V, Kind(V), TypedFor(V), Taken, MarkReply
    PROVE  TypedFor(V)' /\ Taken'
  <1>1. PipeTyped(V) /\ BulkTyped(V) /\ SyncOk(sync, V) /\ Needs(sync) \subseteq DOMAIN held
    BY TypedHas
  <1>2. PICK o \in Response("marks") : Uses("marks", o)
    BY DEF MarkReply
  <1>3. sync.pc = "mark reply" /\ sync' = NextReply(sync, "mark reply", "mark")
    BY DEF MarkReply
  <1>4. "marks" \in SyncRoles /\ "marks" \in DOMAIN held
    BY <1>1, <1>3 DEF SyncRoles, Needs
  <1>5. PipeTyped(V)' /\ BulkTyped(V)' /\ DOMAIN held' = DOMAIN held
    BY <1>1, <1>2, <1>4, UsesTyped
  <1> QED
    BY <1>1, <1>3, <1>5, RepliedPlain

\* Ping keeps the types.
LEMMA PingTyped ==
    ASSUME NEW V, Kind(V), TypedFor(V), Taken, Ping
    PROVE  TypedFor(V)' /\ Taken'
  <1>1. PipeTyped(V) /\ BulkTyped(V) /\ SyncOk(sync, V) /\ Needs(sync) \subseteq DOMAIN held
    BY TypedHas
  <1>2. PICK o \in Command("source_walk", Request("ping", NoKey)) :
          /\ Uses("source_walk", o)
          /\ sync' = [sync EXCEPT !.pc = IF o.reply.is = "pong" THEN "scan source" ELSE "err"]
    BY DEF Ping
  <1>3. sync.pc = "ping"
    BY DEF Ping
  <1>4. "source_walk" \in SyncRoles /\ "source_walk" \in DOMAIN held
    BY <1>1, <1>3 DEF SyncRoles, Needs
  <1>5. PipeTyped(V)' /\ BulkTyped(V)' /\ DOMAIN held' = DOMAIN held
    BY <1>1, <1>2, <1>4, UsesTyped, NoKeyTyped
  <1>6. PICK pc : pc = IF o.reply.is = "pong" THEN "scan source" ELSE "err"
    OBVIOUS
  <1>7. /\ pc \in Places /\ pc \notin Answering \cup Comparing \cup {"idle"} /\ sync.pc \notin Answering
        /\ pc \in {"scan source", "err"}
    BY <1>3, <1>6 DEF Places, Answering, Comparing
  <1>8. ~sync.list
    BY <1>1, <1>3 DEF SyncOk
  <1>9. Needs([sync EXCEPT !.pc = pc]) \subseteq DOMAIN held'
    <2>1. sync \in SyncRecord(V)
      BY <1>1, SyncHas
    <2>2. [sync EXCEPT !.pc = pc].pc = pc
      BY <2>1 DEF SyncRecord
    <2>3. Needs([sync EXCEPT !.pc = pc]) \subseteq Needs(sync)
      BY <1>3, <1>7, <2>2 DEF Needs
    <2> QED
      BY <1>1, <1>5, <2>3
  <1> QED
    BY <1>1, <1>2, <1>3, <1>5, <1>6, <1>7, <1>8, <1>9, MovedTyped DEF Comparing

\* The connections each place has.
LEMMA NeedsAre ==
    ASSUME NEW V, NEW s, SyncOk(s, V), NEW pc
    PROVE  /\ s.pc = "dest reply" /\ pc \in {"compare", "source reply"}
                => Needs([s EXCEPT !.pc = pc]) \subseteq Needs(s)
           /\ s.pc \in {"source reply", "compare"} /\ pc \in {"compare", "apply"}
                => Needs([s EXCEPT !.pc = pc]) \subseteq Needs(s)
           /\ s.pc \in {"marked reply", "load", "delete"} /\ pc \in {"load", "delete", "unmark"}
                => Needs([s EXCEPT !.pc = pc]) \subseteq Needs(s)
           /\ pc \in {"ok", "err"} => Needs([s EXCEPT !.pc = pc]) = {}
  <1>1. s \in SyncRecord(V)
    BY SyncHas
  <1>2. [s EXCEPT !.pc = pc].pc = pc /\ [s EXCEPT !.pc = pc].list = s.list
    BY <1>1 DEF SyncRecord
  <1> QED
    BY <1>2 DEF Needs

\* DestReply keeps the types.
LEMMA DestReplyTyped ==
    ASSUME NEW V, Kind(V), TypedFor(V), Taken, DestReply
    PROVE  TypedFor(V)' /\ Taken'
  <1>1. PipeTyped(V) /\ BulkTyped(V) /\ SyncOk(sync, V) /\ Needs(sync) \subseteq DOMAIN held
    BY TypedHas
  <1> DEFINE k == Head(sync.cache)
             S(o) == [sync EXCEPT !.found = (o.reply.is = "object"), !.dest = Received(o, @)]
  <1>2. PICK o \in Response("dest") :
          /\ Uses("dest", o)
          /\ sync' = IF sync.list
                     THEN [S(o) EXCEPT !.pc = "compare", !.src = [key |-> k, val |-> sync.objs[k]]]
                     ELSE [S(o) EXCEPT !.pc = "source reply"]
    BY DEF DestReply
  <1>3. sync.pc = "dest reply"
    BY DEF DestReply
  <1>4. "dest" \in SyncRoles /\ "dest" \in DOMAIN held
    BY <1>1, <1>3 DEF SyncRoles, Needs
  <1>5. PipeTyped(V)' /\ BulkTyped(V)' /\ DOMAIN held' = DOMAIN held /\ (o.reply # NoReply => o.reply \in Reply(V))
    BY <1>1, <1>2, <1>4, UsesTyped
  <1>6. /\ sync \in SyncRecord(V) /\ sync.pc \in Answering /\ sync.cache # <<>> /\ k \in Keys /\ sync.cache \in Seq(Keys)
        /\ sync.src \in [key : Keys \cup {NoKey}, val : Object]
        /\ sync.dest \in [key : Keys \cup {NoKey}, val : Object] /\ sync.agreed \in BOOLEAN
    BY <1>1, <1>3, SyncHas DEF Answering
  <1>7. PICK found \in BOOLEAN, dest \in [key : Keys \cup {NoKey}, val : Object] :
            found = (o.reply.is = "object") /\ dest = Received(o, sync.dest)
    BY <1>5, <1>6, ObjectReply
  <1>8. PICK src \in [key : Keys \cup {NoKey}, val : Object] :
            /\ src = IF sync.list THEN [key |-> k, val |-> sync.objs[k]] ELSE sync.src
            /\ sync.list => src \in Item(V)
    <2>1. CASE ~sync.list
      BY <1>6, <2>1
    <2>2. CASE sync.list
      <3>1. AllListed(sync.cache, sync.objs) /\ sync.objs \in [Keys -> V \cup {Absent}]
        BY <1>1, <1>3, <2>2 DEF SyncOk, Comparing
      <3>2. 1 \in DOMAIN sync.cache /\ sync.cache[1] = k
        BY <1>6, SeqTail
      <3>3. sync.objs[k] \in V
        BY <1>6, <3>1, <3>2 DEF AllListed
      <3>4. [key |-> k, val |-> sync.objs[k]] \in Item(V)
        BY <1>6, <3>3 DEF Item
      <3> QED
        BY <2>2, <3>4, KindIs
    <2> QED
      BY <2>1, <2>2
  <1>9. PICK s : s = [sync EXCEPT !.found = found, !.agreed = sync.agreed, !.src = src, !.dest = dest]
    OBVIOUS
  <1>10. SyncOk(s, V)
    BY <1>1, <1>3, <1>6, <1>9, NotedOk
  <1>11. PICK pc : pc = IF sync.list THEN "compare" ELSE "source reply"
    OBVIOUS
  <1>12. sync' = [s EXCEPT !.pc = pc] /\ s.pc = sync.pc /\ s.list = sync.list /\ s.src = src
    BY <1>2, <1>6, <1>7, <1>8, <1>9, <1>11 DEF SyncRecord
  <1>13. Needs([sync EXCEPT !.pc = pc]) \subseteq DOMAIN held'
    <2>1. Needs([sync EXCEPT !.pc = pc]) \subseteq Needs(sync)
      BY <1>1, <1>3, <1>11, NeedsAre
    <2> QED
      BY <1>1, <1>5, <2>1
  <1>14. pc \in Places /\ pc \in Answering /\ pc # "idle" /\ (pc \in NotListed => ~sync.list)
         /\ (pc \in {"compare", "apply"} => sync.list) /\ sync.pc \in Comparing
    BY <1>3, <1>11 DEF Places, Answering, NotListed, Comparing
  <1> HIDE DEF S, k
  <1> QED
    BY <1>3, <1>5, <1>6, <1>8, <1>10, <1>12, <1>13, <1>14, MovedTyped

\* SourceReply keeps the types.
LEMMA SourceReplyTyped ==
    ASSUME NEW V, Kind(V), TypedFor(V), Taken, SourceReply
    PROVE  TypedFor(V)' /\ Taken'
  <1>1. PipeTyped(V) /\ BulkTyped(V) /\ SyncOk(sync, V) /\ Needs(sync) \subseteq DOMAIN held
    BY TypedHas
  <1>2. PICK o \in Response("source_get") :
          /\ Uses("source_get", o)
          /\ sync' = IF o.reply.is = "object"
                     THEN [sync EXCEPT !.pc = "compare", !.src = Received(o, @)]
                     ELSE NextReply(sync, "dest reply", "request")
    BY DEF SourceReply
  <1>3. sync.pc = "source reply"
    BY DEF SourceReply
  <1>30. ~sync.list
    BY <1>1, <1>3 DEF SyncOk
  <1>4. "source_get" \in SyncRoles /\ "source_get" \in DOMAIN held
    BY <1>1, <1>3, <1>30 DEF SyncRoles, Needs
  <1>5. PipeTyped(V)' /\ BulkTyped(V)' /\ DOMAIN held' = DOMAIN held /\ (o.reply # NoReply => o.reply \in Reply(V))
    BY <1>1, <1>2, <1>4, UsesTyped
  <1>6. CASE o.reply.is # "object"
    BY <1>1, <1>2, <1>3, <1>5, <1>6, RepliedPlain
  <1>7. CASE o.reply.is = "object"
    <2>1. PICK src \in Item(V) : src = o.reply.obj
      BY <1>5, <1>7, ObjectReply
    <2>2. src \in [key : Keys \cup {NoKey}, val : Object]
      BY KindIs
    <2>3. /\ sync \in SyncRecord(V) /\ sync.found \in BOOLEAN /\ sync.agreed \in BOOLEAN
          /\ sync.dest \in [key : Keys \cup {NoKey}, val : Object]
      BY <1>1, SyncHas
    <2>4. PICK s : s = [sync EXCEPT !.found = sync.found, !.agreed = sync.agreed, !.src = src, !.dest = sync.dest]
      OBVIOUS
    <2>5. SyncOk(s, V)
      BY <1>1, <2>2, <2>3, <2>4, NotedOk
    <2>6. sync' = [s EXCEPT !.pc = "compare"] /\ s.pc = sync.pc /\ s.list = sync.list /\ s.src = src
      BY <1>2, <1>7, <2>1, <2>3, <2>4 DEF SyncRecord, Received
    <2>7. Needs([sync EXCEPT !.pc = "compare"]) \subseteq DOMAIN held'
      <3>1. Needs([sync EXCEPT !.pc = "compare"]) \subseteq Needs(sync)
        BY <1>1, <1>3, NeedsAre
      <3> QED
        BY <1>1, <1>5, <3>1
    <2>8. "compare" \in Places /\ "compare" \in Answering /\ "compare" \notin NotListed /\ sync.pc \in Answering
      BY <1>3 DEF Places, Answering, NotListed
    <2> QED
      BY <1>3, <1>30, <1>5, <2>1, <2>5, <2>6, <2>7, <2>8, MovedTyped
  <1> QED
    BY <1>6, <1>7

\* Nothing is changed.
LEMMA NoKeep ==
    ASSUME NEW V, PipeTyped(V), BulkTyped(V), UNCHANGED pipeVars
    PROVE  PipeTyped(V)' /\ BulkTyped(V)' /\ held' = held
  <1>1. UNCHANGED <<db, pool, held, bulk, troubles, calls, lostBy, gaveUp, touched>>
    BY DEF pipeVars
  <1> QED
    BY <1>1, BulkKept DEF PipeTyped

\* Apply keeps the types.
LEMMA ApplyTyped ==
    ASSUME NEW V, Kind(V), TypedFor(V), Taken, Apply
    PROVE  TypedFor(V)' /\ Taken'
  <1>1. PipeTyped(V) /\ BulkTyped(V) /\ SyncOk(sync, V) /\ Needs(sync) \subseteq DOMAIN held
    BY TypedHas
  <1>2. sync.pc = "apply"
    BY DEF Apply
  <1>3. CASE sync' = NextReply([sync EXCEPT !.agreed = FALSE], "dest reply", "request") /\ UNCHANGED pipeVars
    <2>1. PipeTyped(V)' /\ BulkTyped(V)' /\ held' = held
      BY <1>1, <1>3, NoKeep
    <2>2. PICK dest \in [key : Keys \cup {NoKey}, val : Object] :
             [sync EXCEPT !.agreed = FALSE] = [sync EXCEPT !.agreed = FALSE, !.dest = dest]
      <3>1. /\ [sync EXCEPT !.agreed = FALSE] = [sync EXCEPT !.agreed = FALSE, !.dest = sync.dest]
            /\ sync.dest \in [key : Keys \cup {NoKey}, val : Object]
        BY <1>1, SyncSame
      <3> QED
        BY <3>1, Zenon
    <2>3. PICK s : s = [sync EXCEPT !.agreed = FALSE, !.dest = dest]
      OBVIOUS
    <2>4. sync' = NextReply(s, "dest reply", "request")
      BY <1>3, <2>2, <2>3
    <2> QED
      BY <1>2, <2>1, <2>3, <2>4, RepliedTyped
  <1>4. CASE /\ \E o \in Command("meta", Store(sync.src)) : Uses("meta", o)
             /\ sync' = NextReply(sync, "dest reply", "request")
    <2>1. Store(sync.src) \in Req(V)
      BY <1>1, <1>2, StoreTyped DEF SyncOk
    <2>2. "meta" \in SyncRoles /\ "meta" \in DOMAIN held
      BY <1>1, <1>2 DEF SyncRoles, Needs
    <2>3. PipeTyped(V)' /\ BulkTyped(V)' /\ DOMAIN held' = DOMAIN held
      BY <1>1, <1>4, <2>1, <2>2, UsesTyped
    <2> QED
      BY <1>2, <1>4, <2>3, RepliedPlain
  <1> QED
    BY <1>3, <1>4 DEF Apply

\* MarkedReply keeps the types.
LEMMA MarkedReplyTyped ==
    ASSUME NEW V, Kind(V), TypedFor(V), Taken, MarkedReply
    PROVE  TypedFor(V)' /\ Taken'
  <1>1. PipeTyped(V) /\ BulkTyped(V) /\ SyncOk(sync, V) /\ Needs(sync) \subseteq DOMAIN held
    BY TypedHas
  <1>2. PICK o \in Response("delete_meta") :
          /\ Uses("delete_meta", o)
          /\ sync' = IF o.reply.is = "string" THEN [sync EXCEPT !.pc = "load"]
                     ELSE NextReply(sync, "marked reply", "marked")
    BY DEF MarkedReply
  <1>3. sync.pc = "marked reply"
    BY DEF MarkedReply
  <1>4. "delete_meta" \in SyncRoles /\ "delete_meta" \in DOMAIN held
    BY <1>1, <1>3 DEF SyncRoles, Needs
  <1>5. PipeTyped(V)' /\ BulkTyped(V)' /\ DOMAIN held' = DOMAIN held
    BY <1>1, <1>2, <1>4, UsesTyped
  <1>6. CASE o.reply.is # "string"
    BY <1>2, <1>3, <1>5, <1>6, RepliedPlain
  <1>7. CASE o.reply.is = "string"
    <2>1. Needs([sync EXCEPT !.pc = "load"]) \subseteq DOMAIN held'
      BY <1>1, <1>3, <1>5, NeedsAre
    <2>2. "load" \in Places /\ "load" \in Answering /\ "load" \notin NotListed \cup Comparing /\ sync.pc \in Answering
      BY <1>3 DEF Places, Answering, NotListed, Comparing
    <2> QED
      BY <1>1, <1>2, <1>3, <1>5, <1>7, <2>1, <2>2, MovedTyped
  <1> QED
    BY <1>6, <1>7

\* Load keeps the types.
LEMMA LoadTyped ==
    ASSUME NEW V, Kind(V), TypedFor(V), Taken, Load
    PROVE  TypedFor(V)' /\ Taken'
  <1>1. PipeTyped(V) /\ BulkTyped(V) /\ SyncOk(sync, V) /\ Needs(sync) \subseteq DOMAIN held
    BY TypedHas
  <1>2. PICK o \in Command("cleanup", Request("get", Head(sync.cache))) :
          /\ Uses("cleanup", o)
          /\ LET s == [sync EXCEPT !.dest = Received(o, @)] IN
             \/ sync' = [s EXCEPT !.pc = "delete"]
             \/ sync' = NextReply([s EXCEPT !.agreed = FALSE], "marked reply", "marked")
    BY DEF Load
  <1>3. sync.pc = "load"
    BY DEF Load
  <1>4. "cleanup" \in SyncRoles /\ "cleanup" \in DOMAIN held
    BY <1>1, <1>3 DEF SyncRoles, Needs
  <1>5. /\ sync \in SyncRecord(V) /\ Head(sync.cache) \in Keys /\ sync.pc \in Answering
        /\ sync.found \in BOOLEAN /\ sync.agreed \in BOOLEAN
        /\ sync.src \in [key : Keys \cup {NoKey}, val : Object]
        /\ sync.dest \in [key : Keys \cup {NoKey}, val : Object]
    BY <1>1, <1>3, SyncHas DEF Answering
  <1>6. PipeTyped(V)' /\ BulkTyped(V)' /\ DOMAIN held' = DOMAIN held /\ (o.reply # NoReply => o.reply \in Reply(V))
    BY <1>1, <1>2, <1>4, <1>5, UsesTyped, RequestTyped
  <1>7. PICK dest \in [key : Keys \cup {NoKey}, val : Object] : dest = Received(o, sync.dest)
    BY <1>5, <1>6, ObjectReply
  <1>8. CASE sync' = [[sync EXCEPT !.dest = Received(o, @)] EXCEPT !.pc = "delete"]
    <2>1. PICK s : s = [sync EXCEPT !.found = sync.found, !.agreed = sync.agreed, !.src = sync.src, !.dest = dest]
      OBVIOUS
    <2>2. SyncOk(s, V)
      BY <1>1, <1>3, <1>5, <2>1, NotedOk
    <2>3. sync' = [s EXCEPT !.pc = "delete"] /\ s.pc = sync.pc /\ s.list = sync.list
      BY <1>5, <1>7, <1>8, <2>1 DEF SyncRecord
    <2>4. Needs([sync EXCEPT !.pc = "delete"]) \subseteq DOMAIN held'
      BY <1>1, <1>3, <1>6, NeedsAre
    <2>5. "delete" \in Places /\ "delete" \in Answering /\ "delete" \notin NotListed \cup Comparing
      BY DEF Places, Answering, NotListed, Comparing
    <2> QED
      BY <1>3, <1>5, <1>6, <2>2, <2>3, <2>4, <2>5, MovedTyped
  <1>9. CASE sync' = NextReply([[sync EXCEPT !.dest = Received(o, @)] EXCEPT !.agreed = FALSE],
                               "marked reply", "marked")
    <2>1. PICK s : s = [sync EXCEPT !.agreed = FALSE, !.dest = dest]
      OBVIOUS
    <2>2. s = [[sync EXCEPT !.dest = Received(o, @)] EXCEPT !.agreed = FALSE]
      BY <1>5, <1>7, <2>1 DEF SyncRecord
    <2> QED
      BY <1>3, <1>6, <1>9, <2>1, <2>2, RepliedTyped
  <1> QED
    BY <1>2, <1>8, <1>9

\* Delete keeps the types.
LEMMA DeleteTyped ==
    ASSUME NEW V, Kind(V), TypedFor(V), Taken, Delete
    PROVE  TypedFor(V)' /\ Taken'
  <1>1. PipeTyped(V) /\ BulkTyped(V) /\ SyncOk(sync, V) /\ Needs(sync) \subseteq DOMAIN held
    BY TypedHas
  <1>2. PICK o \in Command("cleanup", Request("del", sync.dest.key)) : Uses("cleanup", o)
    BY DEF Delete
  <1>3. sync.pc = "delete" /\ sync' = [sync EXCEPT !.pc = "unmark"]
    BY DEF Delete
  <1>4. "cleanup" \in SyncRoles /\ "cleanup" \in DOMAIN held
    BY <1>1, <1>3 DEF SyncRoles, Needs
  <1>5. Request("del", sync.dest.key) \in Req(V)
    <2>1. sync.dest.key \in Keys \cup {NoKey}
      BY <1>1, SyncHas
    <2> QED
      BY <2>1, RequestTyped, OtherRequestTyped
  <1>6. PipeTyped(V)' /\ BulkTyped(V)' /\ DOMAIN held' = DOMAIN held
    BY <1>1, <1>2, <1>4, <1>5, UsesTyped
  <1>7. Needs([sync EXCEPT !.pc = "unmark"]) \subseteq DOMAIN held'
    BY <1>1, <1>3, <1>6, NeedsAre
  <1>8. "unmark" \in Places /\ "unmark" \in Answering /\ "unmark" \notin NotListed \cup Comparing /\ sync.pc \in Answering
    BY <1>3 DEF Places, Answering, NotListed, Comparing
  <1> QED
    BY <1>1, <1>3, <1>6, <1>7, <1>8, MovedTyped

\* Unmark keeps the types.
LEMMA UnmarkTyped ==
    ASSUME NEW V, Kind(V), TypedFor(V), Taken, Unmark
    PROVE  TypedFor(V)' /\ Taken'
  <1>1. PipeTyped(V) /\ BulkTyped(V) /\ SyncOk(sync, V) /\ Needs(sync) \subseteq DOMAIN held
    BY TypedHas
  <1>2. PICK o \in Command("cleanup", Request("unmark", Head(sync.cache))) : Uses("cleanup", o)
    BY DEF Unmark
  <1>3. sync.pc = "unmark" /\ sync' = NextReply(sync, "marked reply", "marked")
    BY DEF Unmark
  <1>4. "cleanup" \in SyncRoles /\ "cleanup" \in DOMAIN held
    BY <1>1, <1>3 DEF SyncRoles, Needs
  <1>5. Request("unmark", Head(sync.cache)) \in Req(V)
    BY <1>1, <1>3, SyncHas, RequestTyped DEF Answering
  <1>6. PipeTyped(V)' /\ BulkTyped(V)' /\ DOMAIN held' = DOMAIN held
    BY <1>1, <1>2, <1>4, <1>5, UsesTyped
  <1> QED
    BY <1>3, <1>6, RepliedPlain

\* Connections that are taken and put back.
LEMMA PooledTyped ==
    ASSUME NEW V, PipeTyped(V), BulkTyped(V), NEW d \in [Addrs -> Database(V)], NEW p \in Pooled(V), NEW o,
           db' = d, pool' = p, Note("sync", o), UNCHANGED <<held, bulk, calls, gaveUp, touched>>
    PROVE  PipeTyped(V)' /\ BulkTyped(V)'
  <1>1. lostBy' \in SUBSET Threads /\ lostBy \subseteq lostBy'
    BY NoteIs DEF PipeTyped, Threads
  <1> QED
    BY <1>1, BulkKept DEF PipeTyped, Pooled

\* Compare keeps the types.
LEMMA CompareTyped ==
    ASSUME NEW V, Kind(V), TypedFor(V), Taken, Compare
    PROVE  TypedFor(V)' /\ Taken'
  <1>1. PipeTyped(V) /\ BulkTyped(V) /\ SyncOk(sync, V) /\ Needs(sync) \subseteq DOMAIN held
    BY TypedHas
  <1>2. sync.pc = "compare" /\ UNCHANGED <<held, bulk, calls, gaveUp, touched>>
    BY DEF Compare
  <1> DEFINE next == NextReply(sync, "dest reply", "request")
             ask == [sync EXCEPT !.pc = "apply"]
  <1>3. PICK t \in TakeOutcomes(Dst) :
          LET kept == [pool EXCEPT ![Dst] = t.rest] IN
              \/ /\ ~t.conn.up
                 /\ Note("sync", t)
                 /\ pool' = kept
                 /\ sync' = next
                 /\ UNCHANGED db
              \/ /\ t.conn.up /\ ~sync.found
                 /\ Note("sync", t)
                 /\ pool' = Put(kept, Dst, t.conn)
                 /\ sync' = ask
                 /\ UNCHANGED db
              \/ /\ t.conn.up /\ sync.found
                 /\ \E o \in CommandOutcomes(Dst, t.conn, Request("unmark", Head(sync.cache))) :
                       /\ Note("sync", o)
                       /\ db' = [db EXCEPT ![Dst] = o.db]
                       /\ pool' = Put(kept, Dst, o.conn)
                       /\ sync' = IF o.reply.is = "int" /\ ~Matches(sync.src.val, sync.dest.val)
                                  THEN ask ELSE next
    BY DEF Compare
  <1>4. PICK kept : kept = [pool EXCEPT ![Dst] = t.rest]
    OBVIOUS
  <1>5. Dst \in Addrs /\ pool \in [Addrs -> Seq(OpenConn(V))] /\ db \in [Addrs -> Database(V)]
    BY <1>1, AddrsAre DEF PipeTyped
  <1>6. t.conn \in Conn(V) /\ t.rest \in Seq(OpenConn(V))
    BY <1>5, TakeIs
  <1>7. kept \in Pooled(V)
    BY <1>4, <1>5, <1>6 DEF Pooled
  <1> HIDE DEF next, ask
  <1>8. PipeTyped(V)' /\ BulkTyped(V)' /\ sync' \in {next, ask}
    <2>1. CASE ~t.conn.up /\ Note("sync", t) /\ pool' = kept /\ sync' = next /\ UNCHANGED db
      BY <1>1, <1>2, <1>5, <1>7, <2>1, PooledTyped
    <2>2. CASE Note("sync", t) /\ pool' = Put(kept, Dst, t.conn) /\ sync' = ask /\ UNCHANGED db
      <3>1. Put(kept, Dst, t.conn) \in Pooled(V)
        BY <1>5, <1>6, <1>7, PutIs
      <3> QED
        BY <1>1, <1>2, <1>5, <2>2, <3>1, PooledTyped
    <2>3. ASSUME NEW o \in CommandOutcomes(Dst, t.conn, Request("unmark", Head(sync.cache))),
                 Note("sync", o), db' = [db EXCEPT ![Dst] = o.db], pool' = Put(kept, Dst, o.conn),
                 sync' \in {next, ask}
          PROVE  PipeTyped(V)' /\ BulkTyped(V)' /\ sync' \in {next, ask}
      <3>1. Request("unmark", Head(sync.cache)) \in Req(V)
        BY <1>1, <1>2, SyncHas, RequestTyped DEF Answering
      <3>2. o.conn \in Conn(V) /\ o.db \in Database(V)
        BY <1>5, <1>6, <3>1, CommandTyped
      <3>3. Put(kept, Dst, o.conn) \in Pooled(V)
        BY <1>5, <1>7, <3>2, PutIs
      <3>4. [db EXCEPT ![Dst] = o.db] \in [Addrs -> Database(V)]
        BY <1>5, <3>2
      <3> QED
        BY <1>1, <1>2, <2>3, <3>3, <3>4, PooledTyped
    <2> QED
      BY <1>3, <1>4, <2>1, <2>2, <2>3
  <1>9. CASE sync' = next
    BY <1>2, <1>8, <1>9, RepliedPlain DEF next
  <1>10. CASE sync' = ask
    <2>1. Needs([sync EXCEPT !.pc = "apply"]) \subseteq DOMAIN held'
      BY <1>1, <1>2, NeedsAre
    <2>2. "apply" \in Places /\ "apply" \in Answering /\ "apply" \notin NotListed /\ sync.pc \in Answering
          /\ sync.pc \in Comparing
      BY <1>2 DEF Places, Answering, NotListed, Comparing
    <2>3. sync.src \in Item(V)
      BY <1>1, <1>2 DEF SyncOk
    <2> QED
      BY <1>1, <1>2, <1>8, <1>10, <2>1, <2>2, <2>3, MovedTyped DEF ask
  <1> QED
    BY <1>8, <1>9, <1>10

\* Start keeps the types.
LEMMA StartTyped ==
    ASSUME NEW V, Kind(V), TypedFor(V), Taken, Start
    PROVE  TypedFor(V)' /\ Taken'
  <1>1. PipeTyped(V) /\ BulkTyped(V) /\ SyncOk(sync, V)
    BY TypedHas
  <1>2. PICK list \in BOOLEAN :
          sync' = [sync EXCEPT !.pc = "dest", !.list = list, !.rc = "none", !.agreed = TRUE,
                               !.objs = [k \in Keys |-> db[Src][k].obj]]
    BY DEF Start
  <1>3. /\ sync.pc = "idle" /\ UNCHANGED <<db, pool, held, bulk, troubles, gaveUp>>
        /\ lostBy' = lostBy \ {"sync"} /\ touched' \in {{}, {"deleted"}}
    BY DEF Start
  <1>4. PICK objs : objs = [k \in Keys |-> db[Src][k].obj]
    OBVIOUS
  <1>5. objs \in [Keys -> V \cup {Absent}]
    <2>1. db[Src] \in Database(V)
      BY <1>1, AddrsAre DEF PipeTyped
    <2> QED
      BY <1>4, <2>1 DEF Database
  <1>6. sync \in SyncRecord(V) /\ "dest" \in Places
    BY <1>1, SyncHas DEF Places, SyncRoles
  <1>7. /\ sync' \in SyncRecord(V) /\ sync'.pc = "dest" /\ sync'.objs = objs /\ sync'.keys = sync.keys
        /\ sync'.cache = sync.cache
    BY <1>2, <1>4, <1>5, <1>6 DEF SyncRecord
  <1>8. SyncOk(sync', V)
    BY <1>1, <1>3, <1>5, <1>7 DEF SyncOk, Answering, Comparing
  <1>9. PipeTyped(V)'
    BY <1>1, <1>3 DEF PipeTyped, Threads
  <1>10. BulkTyped(V)'
    BY <1>1, <1>3, BulkKept
  <1>11. Needs(sync)' = {}
    BY <1>7 DEF Needs
  <1> QED
    BY <1>7, <1>8, <1>9, <1>10, <1>11, UsedTaken

\* Open keeps the types.
LEMMA OpenTyped ==
    ASSUME NEW V, Kind(V), TypedFor(V), Taken, NEW role \in SyncRoles, Open(role)
    PROVE  TypedFor(V)' /\ Taken'
  <1>1. PipeTyped(V) /\ BulkTyped(V) /\ SyncOk(sync, V) /\ Needs(sync) \subseteq DOMAIN held
    BY TypedHas
  <1>2. PICK a \in Addrs : a = Opens[role][1]
    BY AddrOf
  <1>3. PICK t \in TakeOutcomes(a) :
          /\ Note("sync", t)
          /\ pool' = [pool EXCEPT ![a] = t.rest]
          /\ IF t.conn.up THEN With(role, t.conn) ELSE UNCHANGED held
          /\ sync' = [sync EXCEPT !.pc = IF t.conn.up THEN Opens[role][2] ELSE "err"]
    BY <1>2 DEF Open
  <1>4. sync.pc = role /\ UNCHANGED <<db, bulk, calls, gaveUp, touched>>
    BY DEF Open
  <1>5. pool \in [Addrs -> Seq(OpenConn(V))] /\ held \in [DOMAIN held -> Conn(V)]
    BY <1>1 DEF PipeTyped
  <1>6. t.conn \in Conn(V) /\ t.rest \in Seq(OpenConn(V))
    BY <1>5, TakeIs
  <1>7. lostBy' \in SUBSET Threads /\ lostBy \subseteq lostBy'
    BY <1>1, <1>3, NoteIs DEF PipeTyped, Threads
  <1>8. /\ DOMAIN held' = IF t.conn.up THEN DOMAIN held \cup {role} ELSE DOMAIN held
        /\ held' \in [DOMAIN held' -> Conn(V)]
        /\ \A r \in DOMAIN held : r # role => held'[r] = held[r]
    <2>1. CASE t.conn.up
      BY <1>3, <1>5, <1>6, <2>1, WithIs
    <2>2. CASE ~t.conn.up
      BY <1>3, <1>5, <2>2
    <2> QED
      BY <2>1, <2>2
  <1>9. pool' \in [Addrs -> Seq(OpenConn(V))]
    BY <1>3, <1>5, <1>6
  <1>10. PipeTyped(V)'
    <2>1. DOMAIN held' \subseteq SyncRoles \cup {"bulk"}
      BY <1>1, <1>8 DEF PipeTyped
    <2> QED
      BY <1>1, <1>4, <1>7, <1>8, <1>9, <2>1 DEF PipeTyped
  <1>11. BulkTyped(V)'
    <2>1. role # "bulk"
      BY DEF SyncRoles
    <2>2. "bulk" \in DOMAIN held => "bulk" \in DOMAIN held' /\ held'["bulk"] = held["bulk"]
      BY <1>8, <2>1
    <2> QED
      BY <1>1, <1>4, <1>7, <2>2, BulkKept
  <1>12. PICK pc : pc = IF t.conn.up THEN Opens[role][2] ELSE "err"
    OBVIOUS
  <1>13. \/ pc = "err"
         \/ t.conn.up /\ role = "dest" /\ pc = "meta"
         \/ t.conn.up /\ role = "meta" /\ pc = "marks"
         \/ t.conn.up /\ role = "marks" /\ pc = "scan destination"
         \/ t.conn.up /\ role = "source_get" /\ pc = "source_walk"
         \/ t.conn.up /\ role = "source_walk" /\ pc = "ping"
         \/ t.conn.up /\ role = "delete_walk" /\ pc = "delete_meta"
         \/ t.conn.up /\ role = "delete_meta" /\ pc = "cleanup"
         \/ t.conn.up /\ role = "cleanup" /\ pc = "scan marked"
    <2>1. /\ Opens["dest"][2] = "meta" /\ Opens["meta"][2] = "marks"
          /\ Opens["marks"][2] = "scan destination"
          /\ Opens["source_get"][2] = "source_walk" /\ Opens["source_walk"][2] = "ping"
          /\ Opens["delete_walk"][2] = "delete_meta" /\ Opens["delete_meta"][2] = "cleanup"
          /\ Opens["cleanup"][2] = "scan marked"
      BY DEF Opens
    <2> QED
      BY <1>12, <2>1 DEF SyncRoles
  <1>14. sync \in SyncRecord(V)
    BY <1>1, SyncHas
  <1>15. [sync EXCEPT !.pc = pc].pc = pc
    BY <1>14 DEF SyncRecord
  <1>16. Needs([sync EXCEPT !.pc = pc]) \subseteq DOMAIN held'
    <2>1. Needs([sync EXCEPT !.pc = pc]) \subseteq Needs(sync) \cup (IF t.conn.up THEN {role} ELSE {})
      BY <1>4, <1>13, <1>15 DEF Needs
    <2> QED
      BY <1>1, <1>8, <2>1
  <1>17. /\ pc \in Places /\ pc \notin Answering \cup Comparing \cup {"idle"} /\ sync.pc \notin Answering \cup {"idle"}
         /\ pc \in NotListed => sync.pc \in NotListed
    BY <1>4, <1>13 DEF Places, SyncRoles, Answering, Comparing, NotListed
  <1>18. pc \in NotListed => ~sync.list
    BY <1>1, <1>17 DEF SyncOk, NotListed
  <1>19. pc \notin {"compare", "apply"}
    BY <1>17 DEF Comparing
  <1> QED
    BY <1>1, <1>3, <1>10, <1>11, <1>12, <1>16, <1>17, <1>18, <1>19, MovedTyped

\* Connections are given back.
LEMMA ReleaseTyped ==
    ASSUME NEW V, PipeTyped(V), BulkTyped(V), NEW roles \in SUBSET SyncRoles, Release(roles),
           UNCHANGED <<db, bulk, troubles, calls, lostBy, gaveUp, touched>>
    PROVE  PipeTyped(V)' /\ BulkTyped(V)' /\ DOMAIN held' = DOMAIN held \ roles
  <1>1. pool \in Pooled(V) /\ held \in [DOMAIN held -> Conn(V)]
    BY DEF PipeTyped, Pooled
  <1>2. pool' \in Pooled(V) /\ held' = [r \in DOMAIN held \ roles |-> held[r]]
    BY <1>1, ReleaseIs
  <1>3. DOMAIN held' = DOMAIN held \ roles /\ held' \in [DOMAIN held' -> Conn(V)]
        /\ \A r \in DOMAIN held' : held'[r] = held[r]
    BY <1>1, <1>2
  <1>4. "bulk" \notin roles
    BY DEF SyncRoles
  <1>5. PipeTyped(V)'
    BY <1>2, <1>3 DEF PipeTyped, Pooled
  <1>6. BulkTyped(V)'
    BY <1>3, <1>4, BulkKept
  <1> QED
    BY <1>3, <1>5, <1>6

\* Return keeps the types.
LEMMA ReturnTyped ==
    ASSUME NEW V, Kind(V), TypedFor(V), Taken, Return
    PROVE  TypedFor(V)' /\ Taken'
  <1>1. PipeTyped(V) /\ BulkTyped(V) /\ SyncOk(sync, V)
    BY TypedHas
  <1>2. /\ sync.pc \in {"ok", "err"} /\ Release(SyncRoles)
        /\ sync' = [sync EXCEPT !.pc = "idle", !.rc = sync.pc, !.keys = <<>>, !.cache = <<>>, !.dest = Blank]
        /\ UNCHANGED <<db, bulk, troubles, calls, lostBy, gaveUp, touched>>
    BY OpensAre DEF Return
  <1>3. PipeTyped(V)' /\ BulkTyped(V)' /\ DOMAIN held' = DOMAIN held \ SyncRoles
    BY <1>1, <1>2, ReleaseTyped
  <1>4. sync \in SyncRecord(V) /\ "idle" \in Places
    BY <1>1, SyncHas DEF Places
  <1>5. sync' \in SyncRecord(V) /\ sync'.pc = "idle" /\ sync'.keys = <<>> /\ sync'.cache = <<>>
    BY <1>2, <1>4, BlankIs, EmptyWalk DEF SyncRecord
  <1>6. SyncOk(sync', V)
    BY <1>5, EmptyWalk DEF SyncOk, Answering, Comparing
  <1>7. Needs(sync)' = {}
    BY <1>5 DEF Needs
  <1>8. Taken'
    BY <1>3, <1>7 DEF Taken
  <1> QED
    BY <1>3, <1>6, <1>8 DEF TypedFor

\* Marked keeps the types.
LEMMA MarkedTyped ==
    ASSUME NEW V, Kind(V), TypedFor(V), Taken, Marked
    PROVE  TypedFor(V)' /\ Taken'
  <1>1. PipeTyped(V) /\ BulkTyped(V) /\ SyncOk(sync, V) /\ Needs(sync) \subseteq DOMAIN held
    BY TypedHas
  <1> DEFINE S == {k \in Keys : sync.objs[k] # Absent}
  <1>2. /\ sync.pc = "mark" /\ Release({"marks"})
        /\ sync' = IF sync.list THEN [sync EXCEPT !.pc = "request", !.keys = SetToSeq(S)]
                   ELSE [sync EXCEPT !.pc = "source_get"]
        /\ UNCHANGED <<db, bulk, troubles, calls, lostBy, gaveUp, touched>>
    BY DEF Marked
  <1>3. "marks" \in SyncRoles
    BY DEF SyncRoles
  <1>4. PipeTyped(V)' /\ BulkTyped(V)' /\ DOMAIN held' = DOMAIN held \ {"marks"}
    BY <1>1, <1>2, <1>3, ReleaseTyped
  <1>5. sync \in SyncRecord(V)
    BY <1>1, SyncHas
  <1>6. {"dest", "meta"} \subseteq DOMAIN held'
    BY <1>1, <1>2, <1>4 DEF Needs
  <1>7. CASE sync.list
    <2>1. IsFiniteSet(S)
      BY PipelineAssumption, FS_Subset
    <2>2. SetToSeq(S) \in Seq(S) /\ Distinct(SetToSeq(S))
      <3> HIDE DEF S
      <3> QED
        BY <2>1, SetToSeqIs
    <2>3. PICK keys \in Walks : keys = SetToSeq(S)
      <3>1. SetToSeq(S) \in Seq(Keys)
        BY <2>2, SeqMonotonic
      <3> QED
        BY <2>2, <3>1 DEF Walks
    <2>4. AllListed(keys, sync.objs)
      <3>1. \A i \in DOMAIN keys : keys[i] \in S
        <4> HIDE DEF S
        <4> QED
          BY <2>2, <2>3
      <3> QED
        BY <3>1 DEF AllListed
    <2>5. sync' = [sync EXCEPT !.pc = "request", !.keys = keys]
      BY <1>2, <1>7, <2>3
    <2>6. "mark" \notin Answering /\ "request" \in Places
      BY DEF Answering, Places
    <2>7. SyncOk([sync EXCEPT !.pc = "request", !.keys = keys], V)
      BY <1>1, <1>2, <2>4, <2>6, WalkedOk
    <2>8. sync'.pc = "request" /\ sync'.list
      BY <1>5, <1>7, <2>5 DEF SyncRecord
    <2>9. Needs(sync)' = {"dest", "meta"}
      BY <2>8 DEF Needs
    <2> HIDE DEF S
    <2> QED
      BY <1>4, <1>6, <2>5, <2>7, <2>8, <2>9, UsedTaken
  <1>8. CASE ~sync.list
    <2>1. sync' = [sync EXCEPT !.pc = "source_get"]
      BY <1>2, <1>8
    <2>2. "source_get" \in Places /\ "source_get" \notin Answering \cup Comparing /\ "mark" \notin Answering
      BY DEF Answering, Places, Comparing, SyncRoles
    <2>3. [sync EXCEPT !.pc = "source_get"].pc = "source_get"
      BY <1>5 DEF SyncRecord
    <2>4. Needs([sync EXCEPT !.pc = "source_get"]) \subseteq DOMAIN held'
      BY <1>6, <2>3 DEF Needs
    <2> QED
      BY <1>1, <1>2, <1>4, <1>8, <2>1, <2>2, <2>4, MovedTyped
  <1> QED
    BY <1>7, <1>8

\* SourceDone keeps the types.
LEMMA SourceDoneTyped ==
    ASSUME NEW V, Kind(V), TypedFor(V), Taken, SourceDone
    PROVE  TypedFor(V)' /\ Taken'
  <1>1. PipeTyped(V) /\ BulkTyped(V) /\ SyncOk(sync, V) /\ Needs(sync) \subseteq DOMAIN held
    BY TypedHas
  <1>2. /\ sync.pc = "request" /\ Release({"source_get", "source_walk"})
        /\ sync' = [sync EXCEPT !.pc = "delete_walk"]
        /\ UNCHANGED <<db, bulk, troubles, calls, lostBy, gaveUp, touched>>
    BY DEF SourceDone
  <1>3. {"source_get", "source_walk"} \subseteq SyncRoles
    BY DEF SyncRoles
  <1>4. PipeTyped(V)' /\ BulkTyped(V)' /\ DOMAIN held' = DOMAIN held \ {"source_get", "source_walk"}
    BY <1>1, <1>2, <1>3, ReleaseTyped
  <1>5. sync \in SyncRecord(V)
    BY <1>1, SyncHas
  <1>6. {"dest", "meta"} \subseteq DOMAIN held'
    BY <1>1, <1>2, <1>4 DEF Needs
  <1>7. "delete_walk" \in Places /\ "delete_walk" \notin Answering \cup Comparing \cup NotListed /\ "request" \notin Answering
    BY DEF Answering, Places, Comparing, SyncRoles, NotListed
  <1>8. [sync EXCEPT !.pc = "delete_walk"].pc = "delete_walk"
    BY <1>5 DEF SyncRecord
  <1>9. Needs([sync EXCEPT !.pc = "delete_walk"]) \subseteq DOMAIN held'
    BY <1>6, <1>8 DEF Needs
  <1> QED
    BY <1>1, <1>2, <1>4, <1>7, <1>9, MovedTyped

\* DeleteDone keeps the types.
LEMMA DeleteDoneTyped ==
    ASSUME NEW V, Kind(V), TypedFor(V), Taken, DeleteDone
    PROVE  TypedFor(V)' /\ Taken'
  <1>1. PipeTyped(V) /\ BulkTyped(V) /\ SyncOk(sync, V)
    BY TypedHas
  <1>2. sync.pc = "marked" /\ sync' = [sync EXCEPT !.pc = "ok"] /\ UNCHANGED pipeVars
    BY DEF DeleteDone
  <1>3. PipeTyped(V)' /\ BulkTyped(V)' /\ held' = held
    BY <1>1, <1>2, NoKeep
  <1>4. "ok" \in Places /\ "ok" \notin Answering \cup Comparing \cup NotListed /\ "marked" \notin Answering
    BY DEF Answering, Places, Comparing, NotListed
  <1>5. Needs([sync EXCEPT !.pc = "ok"]) = {}
    BY <1>1, NeedsAre
  <1> QED
    BY <1>1, <1>2, <1>3, <1>4, <1>5, MovedTyped

\* The requests of a pipeline.
LEMMA RequestsAre ==
    ASSUME NEW V, NEW keys \in Seq(Keys), NEW cmd \in {"get", "mark", "marked"}
    PROVE  /\ Requests(cmd, keys) \in Seq(Req(V)) /\ Len(Requests(cmd, keys)) = Len(keys)
           /\ DOMAIN Requests(cmd, keys) = DOMAIN keys
           /\ \A i \in DOMAIN keys : Requests(cmd, keys)[i] = Request(cmd, keys[i])
  <1> DEFINE R == [i \in DOMAIN keys |-> Request(cmd, keys[i])]
  <1>1. Len(keys) \in Nat /\ DOMAIN keys = 1..Len(keys) /\ \A i \in DOMAIN keys : keys[i] \in Keys
    OBVIOUS
  <1>2. \A i \in DOMAIN keys : Request(cmd, keys[i]) \in Req(V)
    BY <1>1, RequestTyped
  <1>3. R \in [1..Len(keys) -> Req(V)] /\ \A i \in DOMAIN keys : R[i] = Request(cmd, keys[i])
    BY <1>1, <1>2
  <1> HIDE DEF R
  <1>4. R \in Seq(Req(V)) /\ Len(R) = Len(keys) /\ DOMAIN R = DOMAIN keys
    BY <1>1, <1>3
  <1>5. Requests(cmd, keys) = R
    BY DEF Requests, R
  <1> QED
    BY <1>3, <1>4, <1>5

\* Two connections are used.
LEMMA HeldTyped ==
    ASSUME NEW V, PipeTyped(V), BulkTyped(V), NEW h, held' = h, DOMAIN h = DOMAIN held,
           h \in [DOMAIN h -> Conn(V)], "bulk" \in DOMAIN held => h["bulk"] = held["bulk"],
           gaveUp' \in BOOLEAN, UNCHANGED <<db, pool, bulk, lostBy, touched>>
    PROVE  PipeTyped(V)' /\ BulkTyped(V)'
  <1>1. PipeTyped(V)'
    BY DEF PipeTyped
  <1>2. BulkTyped(V)'
    BY BulkKept
  <1> QED
    BY <1>1, <1>2

\* Fill keeps the types.
LEMMA FillTyped ==
    ASSUME NEW V, Kind(V), TypedFor(V), Taken, NEW pc, NEW role, NEW cmd, NEW then,
           Fill(pc, role, cmd, then),
           \/ pc = "mark" /\ role = "marks" /\ cmd = "mark" /\ then = "mark reply"
           \/ pc = "request" /\ role = "dest" /\ cmd = "get" /\ then = "dest reply" /\ sync.list
           \/ pc = "marked" /\ role = "delete_meta" /\ cmd = "marked" /\ then = "marked reply"
    PROVE  TypedFor(V)' /\ Taken'
  <1>1. PipeTyped(V) /\ BulkTyped(V) /\ SyncOk(sync, V) /\ Needs(sync) \subseteq DOMAIN held
    BY TypedHas
  <1>2. /\ sync.pc = pc /\ sync.keys # <<>>
        /\ sync' = IF held[role].up THEN [sync EXCEPT !.pc = then, !.cache = Batch, !.keys = Rest]
                   ELSE [sync EXCEPT !.pc = "err"]
        /\ With(role, Buffered(held[role], Requests(cmd, Batch)))
        /\ UNCHANGED <<db, pool, bulk, troubles, calls, lostBy, gaveUp, touched>>
    BY DEF Fill
  <1>3. role \in DOMAIN held /\ role # "bulk" /\ held \in [DOMAIN held -> Conn(V)]
    <2>1. role \in Needs(sync)
      BY <1>2 DEF Needs
    <2>2. held \in [DOMAIN held -> Conn(V)]
      BY <1>1 DEF PipeTyped
    <2> QED
      BY <1>1, <2>1, <2>2
  <1>4. sync \in SyncRecord(V) /\ sync.keys \in Seq(Keys)
    BY <1>1, SyncHas
  <1>5. Batch \in Seq(Keys)
    BY <1>4, BatchIs
  <1>6. Requests(cmd, Batch) \in Seq(Req(V))
    BY <1>5, RequestsAre
  <1>7. Buffered(held[role], Requests(cmd, Batch)) \in Conn(V)
    BY <1>3, <1>6, BufferedIs
  <1>8. /\ DOMAIN held' = DOMAIN held \cup {role} /\ held' \in [DOMAIN held' -> Conn(V)]
        /\ \A r \in DOMAIN held : r # role => held'[r] = held[r]
    BY <1>2, <1>3, <1>7, WithIs
  <1>9. DOMAIN held' = DOMAIN held
    BY <1>3, <1>8
  <1>10. PipeTyped(V)' /\ BulkTyped(V)'
    <2>1. gaveUp' \in BOOLEAN
      BY <1>1, <1>2 DEF PipeTyped
    <2> QED
      BY <1>1, <1>2, <1>3, <1>8, <1>9, <2>1, HeldTyped
  <1>11. CASE held[role].up
    <2>1. sync' = [sync EXCEPT !.pc = then, !.cache = Batch, !.keys = Rest]
      BY <1>2, <1>11
    <2>2. then \in Places
      BY DEF Places, Answering
    <2>3. SyncOk([sync EXCEPT !.pc = then, !.cache = Batch, !.keys = Rest], V)
      BY <1>1, <1>2, <2>2, FilledOk
    <2>4. sync'.pc = then /\ sync'.list = sync.list
      BY <1>4, <2>1 DEF SyncRecord
    <2>5. Needs(sync)' = Needs(sync) /\ sync'.pc # "idle"
      BY <1>2, <2>4 DEF Needs
    <2> QED
      BY <1>1, <1>9, <1>10, <2>1, <2>3, <2>5, UsedTaken
  <1>12. CASE ~held[role].up
    <2>1. sync' = [sync EXCEPT !.pc = "err"]
      BY <1>2, <1>12
    <2>2. "err" \in Places /\ "err" \notin Answering \cup Comparing \cup NotListed /\ pc \notin Answering \cup {"idle"}
      BY DEF Places, Answering, Comparing, NotListed
    <2>3. Needs([sync EXCEPT !.pc = "err"]) = {}
      BY <1>1, NeedsAre
    <2> QED
      BY <1>1, <1>2, <1>10, <2>1, <2>2, <2>3, MovedTyped
  <1> QED
    BY <1>11, <1>12

\* RequestListed keeps the types.
LEMMA RequestListedTyped ==
    ASSUME NEW V, Kind(V), TypedFor(V), Taken, RequestListed
    PROVE  TypedFor(V)' /\ Taken'
  <1>1. PipeTyped(V) /\ BulkTyped(V) /\ SyncOk(sync, V) /\ Needs(sync) \subseteq DOMAIN held
    BY TypedHas
  <1>2. sync.list /\ sync.pc = "request"
    BY DEF RequestListed
  <1>3. CASE held["dest"].up
    BY <1>2, <1>3, FillTyped DEF RequestListed
  <1>4. CASE ~held["dest"].up
    <2>1. sync' = [sync EXCEPT !.keys = <<>>] /\ UNCHANGED pipeVars
      BY <1>4 DEF RequestListed
    <2>2. PipeTyped(V)' /\ BulkTyped(V)' /\ held' = held
      BY <1>1, <2>1, NoKeep
    <2>3. sync \in SyncRecord(V)
      BY <1>1, SyncHas
    <2>4. sync' = [sync EXCEPT !.pc = "request", !.keys = <<>>] /\ sync'.pc = sync.pc /\ sync'.list = sync.list
      BY <1>2, <2>1, <2>3 DEF SyncRecord
    <2>5. <<>> \in Walks /\ "request" \in Places /\ "request" \notin Answering
      BY EmptyWalk DEF Walks, Places, Answering
    <2>6. SyncOk([sync EXCEPT !.pc = "request", !.keys = <<>>], V)
      BY <1>1, <1>2, <2>5, EmptyWalk, WalkedOk
    <2>7. Needs(sync)' = Needs(sync) /\ sync'.pc # "idle"
      BY <1>2, <2>4 DEF Needs
    <2> QED
      BY <1>1, <2>2, <2>4, <2>6, <2>7, UsedTaken
  <1> QED
    BY <1>3, <1>4

\* What RequestBoth does to the connections.
LEMMA RequestBothIs ==
    ASSUME NEW V, TypedFor(V), Taken, RequestBoth
    PROVE  \E asked \in Seq(Req(V)) :
              LET up == held["dest"].up /\ held["source_get"].up
                  d == Buffered(held["dest"], asked)
                  s == Buffered(held["source_get"], asked)
              IN  /\ asked = Requests("get", IF up THEN Batch ELSE <<Head(Batch)>>)
                  /\ {"dest", "source_get"} \subseteq DOMAIN held
                  /\ d \in Conn(V) /\ s \in Conn(V)
                  /\ DOMAIN held' = DOMAIN held /\ held' \in [DOMAIN held' -> Conn(V)]
                  /\ held'["dest"] = d /\ held'["source_get"] = s
                  /\ \A r \in DOMAIN held : r \notin {"dest", "source_get"} => held'[r] = held[r]
                  /\ sync' = IF up THEN [sync EXCEPT !.pc = "dest reply", !.cache = Batch, !.keys = Rest]
                             ELSE [sync EXCEPT !.pc = "err"]
                  /\ gaveUp' = (gaveUp \/ ~up)
  <1>1. PipeTyped(V) /\ BulkTyped(V) /\ SyncOk(sync, V) /\ Needs(sync) \subseteq DOMAIN held
    BY TypedHas
  <1> DEFINE up == held["dest"].up /\ held["source_get"].up
             asked == Requests("get", IF up THEN Batch ELSE <<Head(Batch)>>)
             d == Buffered(held["dest"], asked)
             s == Buffered(held["source_get"], asked)
  <1>2. /\ ~sync.list /\ sync.pc = "request" /\ sync.keys # <<>>
        /\ held' = [held EXCEPT !["dest"] = Buffered(@, asked), !["source_get"] = Buffered(@, asked)]
        /\ sync' = IF up THEN [sync EXCEPT !.pc = "dest reply", !.cache = Batch, !.keys = Rest]
                   ELSE [sync EXCEPT !.pc = "err"]
        /\ gaveUp' = (gaveUp \/ ~up)
    BY DEF RequestBoth
  <1>3. {"dest", "source_get"} \subseteq DOMAIN held /\ held \in [DOMAIN held -> Conn(V)]
    <2>1. {"dest", "source_get"} \subseteq Needs(sync)
      BY <1>2 DEF Needs
    <2>2. held \in [DOMAIN held -> Conn(V)]
      BY <1>1 DEF PipeTyped
    <2> QED
      BY <1>1, <2>1, <2>2
  <1>4. Batch \in Seq(Keys) /\ Batch # <<>>
    BY <1>1, <1>2, SyncHas, BatchIs
  <1>5. Head(Batch) \in Keys
    BY <1>4, RestOf
  <1>6. <<Head(Batch)>> \in Seq(Keys)
    BY <1>5
  <1>7. asked \in Seq(Req(V))
    <2>1. PICK b \in Seq(Keys) : b = IF up THEN Batch ELSE <<Head(Batch)>>
      BY <1>4, <1>6
    <2> QED
      BY <2>1, RequestsAre
  <1> HIDE DEF asked, up
  <1>8. d \in Conn(V) /\ s \in Conn(V)
    BY <1>3, <1>7, BufferedIs
  <1>9. held' = [[held EXCEPT !["dest"] = d] EXCEPT !["source_get"] = s]
    BY <1>2, <1>3
  <1> HIDE DEF d, s
  <1>10. /\ DOMAIN held' = DOMAIN held /\ held' \in [DOMAIN held' -> Conn(V)]
         /\ held'["dest"] = d /\ held'["source_get"] = s
         /\ \A r \in DOMAIN held : r \notin {"dest", "source_get"} => held'[r] = held[r]
    BY <1>3, <1>8, <1>9
  <1> QED
    BY <1>2, <1>3, <1>7, <1>8, <1>10 DEF asked, up, d, s

\* RequestBoth keeps the types.
LEMMA RequestBothTyped ==
    ASSUME NEW V, Kind(V), TypedFor(V), Taken, RequestBoth
    PROVE  TypedFor(V)' /\ Taken'
  <1>1. PipeTyped(V) /\ BulkTyped(V) /\ SyncOk(sync, V) /\ Needs(sync) \subseteq DOMAIN held
    BY TypedHas
  <1>2. PICK up \in BOOLEAN :
           /\ sync' = IF up THEN [sync EXCEPT !.pc = "dest reply", !.cache = Batch, !.keys = Rest]
                      ELSE [sync EXCEPT !.pc = "err"]
           /\ gaveUp' = (gaveUp \/ ~up)
    BY Zenon DEF RequestBoth
  <1>3. /\ ~sync.list /\ sync.pc = "request" /\ sync.keys # <<>>
        /\ UNCHANGED <<db, pool, bulk, troubles, calls, lostBy, touched>>
    BY DEF RequestBoth
  <1>4. /\ DOMAIN held' = DOMAIN held /\ held' \in [DOMAIN held' -> Conn(V)]
        /\ \A r \in DOMAIN held : r \notin {"dest", "source_get"} => held'[r] = held[r]
    BY RequestBothIs
  <1>5. PipeTyped(V)' /\ BulkTyped(V)'
    <2>1. "bulk" \in DOMAIN held => held'["bulk"] = held["bulk"]
      BY <1>4
    <2>2. gaveUp' \in BOOLEAN
      BY <1>2
    <2> QED
      BY <1>1, <1>3, <1>4, <2>1, <2>2, HeldTyped
  <1>6. sync \in SyncRecord(V)
    BY <1>1, SyncHas
  <1>7. CASE up
    <2>1. sync' = [sync EXCEPT !.pc = "dest reply", !.cache = Batch, !.keys = Rest]
      BY <1>2, <1>7
    <2>2. "dest reply" \in Places
      BY DEF Places, Answering
    <2>3. SyncOk([sync EXCEPT !.pc = "dest reply", !.cache = Batch, !.keys = Rest], V)
      BY <1>1, <1>3, <2>2, FilledOk
    <2>4. sync'.pc = "dest reply" /\ sync'.list = sync.list
      BY <1>6, <2>1 DEF SyncRecord
    <2>5. Needs(sync)' = Needs(sync) /\ sync'.pc # "idle"
      BY <1>3, <2>4 DEF Needs
    <2> QED
      BY <1>1, <1>4, <1>5, <2>1, <2>3, <2>5, UsedTaken
  <1>8. CASE ~up
    <2>1. sync' = [sync EXCEPT !.pc = "err"]
      BY <1>2, <1>8
    <2>2. "err" \in Places /\ "err" \notin Answering \cup Comparing \cup NotListed /\ "request" \notin Answering
      BY DEF Places, Answering, Comparing, NotListed
    <2>3. Needs([sync EXCEPT !.pc = "err"]) = {}
      BY <1>1, NeedsAre
    <2> QED
      BY <1>1, <1>3, <1>5, <2>1, <2>2, <2>3, MovedTyped
  <1> QED
    BY <1>7, <1>8

\* A walk through some keys of another.
Within(t, s) ==
    /\ t \in Seq(Keys) /\ \A i \in DOMAIN t : InRange(t[i], s)
    /\ Distinct(s) => Distinct(t)

\* A part of a walk.
Part(s, m, n) == SubSeq(s, m, n)
PartOf(t, s, m, n) ==
    /\ Within(t, s) /\ Len(t) = n - m + 1
    /\ \A i \in 1..Len(t) : t[i] = s[m - 1 + i] /\ m - 1 + i \in 1..Len(s)

LEMMA PartIs ==
    ASSUME NEW s \in Seq(Keys), NEW m \in Nat, NEW n \in Nat, 1 <= m, m <= n + 1, n <= Len(s)
    PROVE  PartOf(Part(s, m, n), s, m, n)
  <1>0. PICK t : t = SubSeq(s, m, n)
    OBVIOUS
  <1>1. t \in Seq(Keys) /\ Len(t) = n - m + 1
    <2>1. \A i \in m..n : i \in 1..Len(s) /\ s[i] \in Keys
      OBVIOUS
    <2>2. SubSeq(s, m, n) \in Seq(Keys) /\ Len(SubSeq(s, m, n)) = n - m + 1
      BY <2>1
    <2> QED
      BY <1>0, <2>2
  <1>2. \A i \in 1..Len(t) : t[i] = s[m - 1 + i] /\ m - 1 + i \in 1..Len(s)
    BY <1>0, <1>1
  <1>3. DOMAIN s = 1..Len(s) /\ DOMAIN t = 1..Len(t)
    BY <1>1
  <1>4. \A i \in DOMAIN t : InRange(t[i], s)
    BY <1>2, <1>3 DEF InRange
  <1>5. ASSUME Distinct(s), NEW i \in DOMAIN t, NEW j \in DOMAIN t, t[i] = t[j] PROVE i = j
    <2>1. m - 1 + i = m - 1 + j
      BY <1>2, <1>3, <1>5 DEF Distinct
    <2> QED
      BY <1>3, <2>1
  <1>6. Distinct(s) => Distinct(t)
    BY <1>5 DEF Distinct
  <1> QED
    BY <1>0, <1>1, <1>2, <1>4, <1>6 DEF Within, Part, PartOf

\* A walk without one of its keys.
LEMMA WithoutIs ==
    ASSUME NEW s \in Seq(Keys), NEW n \in 1..Len(s), NEW t, t = RemoveAt(s, n)
    PROVE  Within(t, s) /\ (n = 1 => t = SubSeq(s, 2, Len(s)))
  <1>0. PICK one \in Nat, m \in Nat, p \in Nat, q \in Nat :
           one = 1 /\ m = Len(s) /\ p = n - 1 /\ q = n + 1 /\ n \in Nat /\ n <= m /\ n >= 1
    OBVIOUS
  <1>1. PICK a : a = Part(s, one, p)
    OBVIOUS
  <1>2. PICK b : b = Part(s, q, m)
    OBVIOUS
  <1>3. a \in Seq(Keys) /\ Len(a) = p /\ \A i \in 1..Len(a) : a[i] = s[1 - 1 + i]
    <2>1. one \in Nat /\ p \in Nat /\ 1 <= one /\ one <= p + 1 /\ p <= Len(s) /\ p - one + 1 = p
      BY <1>0
    <2>2. /\ Within(a, s) /\ Len(a) = p - one + 1
          /\ \A i \in 1..Len(a) : a[i] = s[one - 1 + i] /\ one - 1 + i \in 1..Len(s)
      <3>1. PartOf(Part(s, one, p), s, one, p)
        BY <2>1, PartIs
      <3> QED
        BY <1>1, <3>1 DEF PartOf
    <2> QED
      BY <1>0, <2>1, <2>2 DEF Within
  <1>4. b \in Seq(Keys) /\ Len(b) = m - n /\ \A i \in 1..Len(b) : b[i] = s[q - 1 + i]
    <2>1. q \in Nat /\ m \in Nat /\ 1 <= q /\ q <= m + 1 /\ m <= Len(s) /\ m - q + 1 = m - n
      BY <1>0
    <2>2. /\ Within(b, s) /\ Len(b) = m - q + 1
          /\ \A i \in 1..Len(b) : b[i] = s[q - 1 + i] /\ q - 1 + i \in 1..Len(s)
      <3>1. PartOf(Part(s, q, m), s, q, m)
        BY <2>1, PartIs
      <3> QED
        BY <1>2, <3>1 DEF PartOf
    <2> QED
      BY <2>1, <2>2 DEF Within
  <1>5. t = a \o b
    <2>1. SubSeq(s, 1, n - 1) = a /\ SubSeq(s, n + 1, Len(s)) = b
      BY <1>0, <1>1, <1>2 DEF Part
    <2> QED
      BY <2>1 DEF RemoveAt
  <1>6. /\ t \in Seq(Keys) /\ Len(t) = p + (m - n) /\ \A i \in 1..p : t[i] = a[i]
        /\ \A i \in (p + 1)..(p + (m - n)) : t[i] = b[i - p]
    <2>1. a \in Seq(Keys) /\ b \in Seq(Keys) /\ Len(a) = p /\ Len(b) = m - n
      BY <1>3, <1>4
    <2>2. /\ a \o b \in Seq(Keys) /\ Len(a \o b) = Len(a) + Len(b)
          /\ \A i \in 1..Len(a) : (a \o b)[i] = a[i]
          /\ \A i \in (Len(a) + 1)..(Len(a) + Len(b)) : (a \o b)[i] = b[i - Len(a)]
      BY <2>1
    <2> QED
      BY <1>5, <2>1, <2>2
  <1>7. DOMAIN t = 1..Len(t) /\ DOMAIN s = 1..Len(s) /\ Len(t) = m - 1
    BY <1>0, <1>6
  <1> DEFINE at(i) == IF i < n THEN i ELSE i + 1
  <1>8. ASSUME NEW i \in 1..Len(t) PROVE t[i] = s[at(i)] /\ at(i) \in 1..Len(s)
    <2>1. CASE i < n
      <3>1. i \in 1..p /\ i \in 1..Len(a) /\ 1 - 1 + i = i
        BY <1>0, <1>3, <2>1
      <3>2. t[i] = s[i]
        BY <1>3, <1>6, <3>1
      <3> QED
        BY <1>0, <2>1, <3>1, <3>2
    <2>2. CASE i >= n
      <3>1. PICK j \in 1..Len(b) : j = i - p /\ i \in (p + 1)..(p + (m - n)) /\ q - 1 + j = i + 1
        BY <1>0, <1>4, <1>7, <2>2
      <3>2. t[i] = b[j] /\ b[j] = s[q - 1 + j]
        BY <1>4, <1>6, <3>1
      <3>3. t[i] = s[i + 1] /\ i + 1 \in 1..Len(s)
        BY <1>0, <1>7, <3>1, <3>2
      <3> QED
        BY <1>0, <2>2, <3>3
    <2> QED
      BY <1>0, <2>1, <2>2
  <1>9. \A i \in DOMAIN t : InRange(t[i], s)
    BY <1>7, <1>8 DEF InRange
  <1>10. ASSUME Distinct(s), NEW i \in DOMAIN t, NEW j \in DOMAIN t, t[i] = t[j] PROVE i = j
    <2>1. at(i) = at(j)
      BY <1>7, <1>8, <1>10 DEF Distinct
    <2> QED
      BY <1>0, <1>7, <2>1
  <1>11. Distinct(s) => Distinct(t)
    BY <1>10 DEF Distinct
  <1>12. n = 1 => t = SubSeq(s, 2, Len(s))
    <2>1. n = 1 => a = <<>> /\ b = SubSeq(s, 2, Len(s))
      BY <1>0, <1>2, <1>3 DEF Part
    <2>2. <<>> \o b = b
      BY <1>4
    <2> QED
      BY <1>5, <2>1, <2>2
  <1> QED
    BY <1>6, <1>9, <1>11, <1>12 DEF Within

\* A pipeline of other keys of the walk.
SomeOf(t) == t \in Walks /\ \A i \in DOMAIN t : InRange(t[i], sync.keys)
Piped(t, asked, keys) ==
    t = [sync EXCEPT !.pc = IF asked = <<>> THEN "request" ELSE "dest reply",
                     !.cache = asked, !.keys = keys]

PipedTo(t, asked, V) ==
    /\ SyncOk(t, V) /\ t.list = sync.list /\ t.cache = asked
    /\ t.pc = IF asked = <<>> THEN "request" ELSE "dest reply"

LEMMA PipedOk ==
    ASSUME NEW V, SyncOk(sync, V), sync.pc = "request", NEW asked, NEW keys, SomeOf(asked), SomeOf(keys),
           NEW t, Piped(t, asked, keys)
    PROVE  PipedTo(t, asked, V)
  <1> DEFINE pc == IF asked = <<>> THEN "request" ELSE "dest reply"
  <1>1. sync \in SyncRecord(V) /\ pc \in Places /\ pc # "idle"
    BY SyncHas DEF Places, Answering
  <1>2. asked \in Seq(Keys) /\ keys \in Seq(Keys) /\ Distinct(asked) /\ Distinct(keys)
    BY DEF Walks, SomeOf
  <1>3. /\ t \in SyncRecord(V) /\ t.pc = pc /\ t.list = sync.list /\ t.objs = sync.objs /\ t.keys = keys
        /\ t.cache = asked
    BY <1>1, <1>2 DEF SyncRecord, Piped
  <1>4. /\ pc \in Answering <=> asked # <<>>
        /\ pc \notin {"source_get", "source_walk", "ping", "scan source", "source reply", "compare", "apply"}
    BY DEF Answering
  <1>5. sync.list => AllListed(sync.keys, sync.objs)
    BY DEF SyncOk, Comparing
  <1>6. sync.list => AllListed(keys, sync.objs) /\ AllListed(asked, sync.objs)
    BY <1>5 DEF AllListed, InRange, SomeOf
  <1>7. sync.objs \in [Keys -> V \cup {Absent}]
    BY DEF SyncOk
  <1>8. SyncOk(t, V)
    BY <1>1, <1>2, <1>3, <1>4, <1>6, <1>7 DEF SyncOk
  <1> QED
    BY <1>3, <1>8 DEF PipedTo

\* A connection is used, and connections may be lost.
LEMMA LosingTyped ==
    ASSUME NEW V, PipeTyped(V), BulkTyped(V), DOMAIN held' = DOMAIN held,
           held' \in [DOMAIN held' -> Conn(V)], "bulk" \in DOMAIN held => held'["bulk"] = held["bulk"],
           gaveUp' \in BOOLEAN, lostBy' = lostBy \/ lostBy' = lostBy \cup {"sync"},
           UNCHANGED <<db, pool, bulk, touched>>
    PROVE  PipeTyped(V)' /\ BulkTyped(V)'
  <1>1. lostBy' \in SUBSET Threads
    BY DEF PipeTyped, Threads
  <1>2. PipeTyped(V)'
    BY <1>1 DEF PipeTyped
  <1>3. BulkTyped(V)'
    BY BulkKept
  <1> QED
    BY <1>2, <1>3

\* FillRetried keeps the types.
LEMMA FillRetriedTyped ==
    ASSUME NEW V, Kind(V), TypedFor(V), Taken, NEW pc, NEW role, NEW cmd, NEW then,
           FillRetried(pc, role, cmd, then),
           \/ pc = "mark" /\ role = "marks" /\ cmd = "mark" /\ then = "mark reply"
           \/ pc = "request" /\ role = "dest" /\ cmd = "get" /\ then = "dest reply" /\ sync.list
           \/ pc = "marked" /\ role = "delete_meta" /\ cmd = "marked" /\ then = "marked reply"
    PROVE  TypedFor(V)' /\ Taken'
  <1>1. PipeTyped(V) /\ BulkTyped(V) /\ SyncOk(sync, V) /\ Needs(sync) \subseteq DOMAIN held
    BY TypedHas
  <1>2. /\ sync.pc = pc /\ sync.keys # <<>> /\ gaveUp' = TRUE
        /\ sync' = [sync EXCEPT !.pc = then, !.cache = Batch, !.keys = Rest]
        /\ UNCHANGED <<db, pool, bulk, lostBy, touched>>
    BY DEF FillRetried
  <1>3. PICK c \in Rebuffered(Requests(cmd, Batch)) : With(role, c)
    BY DEF FillRetried
  <1>4. role \in DOMAIN held /\ role # "bulk" /\ held \in [DOMAIN held -> Conn(V)]
    <2>1. role \in Needs(sync)
      BY <1>2 DEF Needs
    <2>2. held \in [DOMAIN held -> Conn(V)]
      BY <1>1 DEF PipeTyped
    <2> QED
      BY <1>1, <2>1, <2>2
  <1>5. sync \in SyncRecord(V) /\ sync.keys \in Seq(Keys)
    BY <1>1, SyncHas
  <1>6. Requests(cmd, Batch) \in Seq(Req(V))
    BY <1>5, BatchIs, RequestsAre
  <1>7. c \in Conn(V)
    BY <1>3, <1>6, RebufferedIs
  <1>8. /\ DOMAIN held' = DOMAIN held /\ held' \in [DOMAIN held' -> Conn(V)]
        /\ \A r \in DOMAIN held : r # role => held'[r] = held[r]
    <2>1. /\ DOMAIN held' = DOMAIN held \cup {role} /\ held' \in [DOMAIN held' -> Conn(V)]
          /\ \A r \in DOMAIN held : r # role => held'[r] = held[r]
      BY <1>3, <1>4, <1>7, WithIs
    <2> QED
      BY <1>4, <2>1
  <1>9. PipeTyped(V)' /\ BulkTyped(V)'
    BY <1>1, <1>2, <1>4, <1>8, LosingTyped
  <1>10. then \in Places
    BY DEF Places, Answering
  <1>11. SyncOk([sync EXCEPT !.pc = then, !.cache = Batch, !.keys = Rest], V)
    BY <1>1, <1>2, <1>10, FilledOk
  <1>12. sync'.pc = then /\ sync'.list = sync.list
    BY <1>2, <1>5 DEF SyncRecord
  <1>13. Needs(sync)' = Needs(sync) /\ sync'.pc # "idle"
    BY <1>2, <1>12 DEF Needs
  <1> QED
    BY <1>1, <1>2, <1>8, <1>9, <1>11, <1>13, UsedTaken

\* FillFails keeps the types.
LEMMA FillFailsTyped ==
    ASSUME NEW V, Kind(V), TypedFor(V), Taken, NEW pc, NEW role, FillFails(pc, role),
           (pc = "mark" /\ role = "marks") \/ (pc = "marked" /\ role = "delete_meta")
    PROVE  TypedFor(V)' /\ Taken'
  <1>1. PipeTyped(V) /\ BulkTyped(V) /\ SyncOk(sync, V) /\ Needs(sync) \subseteq DOMAIN held
    BY TypedHas
  <1>2. /\ sync.pc = pc /\ sync' = [sync EXCEPT !.pc = "err"] /\ lostBy' = lostBy \cup {"sync"}
        /\ UNCHANGED <<db, pool, bulk, gaveUp, touched>>
    BY DEF FillFails
  <1>3. PICK c \in Conn(V) : With(role, c)
    BY NewConns DEF FillFails, Reconnects
  <1>4. role \in DOMAIN held /\ role # "bulk" /\ held \in [DOMAIN held -> Conn(V)] /\ gaveUp \in BOOLEAN
    <2>1. role \in Needs(sync)
      BY <1>2 DEF Needs
    <2>2. held \in [DOMAIN held -> Conn(V)] /\ gaveUp \in BOOLEAN
      BY <1>1 DEF PipeTyped
    <2> QED
      BY <1>1, <2>1, <2>2
  <1>5. /\ DOMAIN held' = DOMAIN held /\ held' \in [DOMAIN held' -> Conn(V)]
        /\ \A r \in DOMAIN held : r # role => held'[r] = held[r]
    <2>1. /\ DOMAIN held' = DOMAIN held \cup {role} /\ held' \in [DOMAIN held' -> Conn(V)]
          /\ \A r \in DOMAIN held : r # role => held'[r] = held[r]
      BY <1>3, <1>4, WithIs
    <2> QED
      BY <1>4, <2>1
  <1>6. PipeTyped(V)' /\ BulkTyped(V)'
    BY <1>1, <1>2, <1>4, <1>5, LosingTyped
  <1>7. "err" \in Places /\ "err" \notin Answering \cup Comparing \cup NotListed /\ pc \notin Answering \cup {"idle"}
    BY DEF Places, Answering, Comparing, NotListed
  <1>8. Needs([sync EXCEPT !.pc = "err"]) = {}
    BY <1>1, NeedsAre
  <1> QED
    BY <1>1, <1>2, <1>6, <1>7, <1>8, MovedTyped

\* What RequestListedFails does.
LEMMA RequestListedFailsIs ==
    ASSUME NEW V, Kind(V), TypedFor(V), Taken, RequestListedFails
    PROVE  \E c \in Conn(V), asked \in Walks, keys \in Walks :
              /\ "dest" \in DOMAIN held /\ held \in [DOMAIN held -> Conn(V)] /\ With("dest", c)
              /\ \A i \in DOMAIN asked : InRange(asked[i], sync.keys)
              /\ \A i \in DOMAIN keys : InRange(keys[i], sync.keys)
              /\ sync' = [sync EXCEPT !.pc = IF asked = <<>> THEN "request" ELSE "dest reply",
                                      !.cache = asked, !.keys = keys]
              /\ gaveUp' \in BOOLEAN
              /\ gaveUp' \/ Clean(c) \/ (c.up /\ Outstanding(c) = Requests("get", asked))
  <1>1. PipeTyped(V) /\ SyncOk(sync, V) /\ Needs(sync) \subseteq DOMAIN held
    BY TypedHas
  <1>2. sync.list /\ sync.pc = "request" /\ sync.keys # <<>>
    BY DEF RequestListedFails
  <1>3. "dest" \in DOMAIN held /\ held \in [DOMAIN held -> Conn(V)] /\ gaveUp \in BOOLEAN
    <2>1. "dest" \in Needs(sync)
      BY <1>2 DEF Needs
    <2>2. held \in [DOMAIN held -> Conn(V)] /\ gaveUp \in BOOLEAN
      BY <1>1 DEF PipeTyped
    <2> QED
      BY <1>1, <2>1, <2>2
  <1>40. sync.keys \in Seq(Keys) /\ Distinct(sync.keys)
    BY <1>1, SyncHas DEF SyncOk
  <1>4. PICK l \in Seq(Keys) : l = sync.keys /\ Distinct(l) /\ Len(l) \in Nat
    BY <1>40
  <1>5. PICK b \in Seq(Keys) : /\ b = Batch /\ Distinct(b) /\ Len(b) \in Nat /\ Len(b) <= Len(l)
                               /\ \A i \in DOMAIN b : InRange(b[i], l)
    <2>1. Batch \in Seq(Keys) /\ Distinct(Batch) /\ \A i \in DOMAIN Batch : InRange(Batch[i], l)
      BY <1>4, BatchIs
    <2>2. 0 + Len(NextRange(l, 0)) <= Len(l) /\ NextRange(l, 0) \in Seq(Keys)
      BY <1>4, RangeIs
    <2>3. Len(Batch) <= Len(l)
      BY <1>4, <2>2 DEF Batch
    <2> QED
      BY <2>1, <2>3
  <1> DEFINE n == IF Pipe < Len(l) THEN Pipe + 1 ELSE Len(l)
             tried == SubSeq(l, 1, n)
             Keeps(i) ==
               /\ With("dest", Broken)
               /\ sync' = [sync EXCEPT !.pc = IF SubSeq(b, 1, i - 1) = <<>> THEN "request" ELSE "dest reply",
                                       !.cache = SubSeq(b, 1, i - 1), !.keys = <<>>]
               /\ UNCHANGED gaveUp
             Skips(i) ==
               /\ With("dest", Buffered(Fresh, Requests("get", SubSeq(tried, i + 1, Len(tried)))))
               /\ sync' = [sync EXCEPT !.pc = IF RemoveAt(tried, i) = <<>> THEN "request" ELSE "dest reply",
                                       !.cache = RemoveAt(tried, i),
                                       !.keys = SubSeq(l, Len(tried) + 1, Len(l))]
               /\ gaveUp' = (gaveUp \/ i > 1)
  <1>6. PICK i \in DOMAIN b : Keeps(i) \/ Skips(i)
    <2>1. \E i \in DOMAIN b :
             \/ LET asked == SubSeq(b, 1, i - 1) IN
                /\ With("dest", Broken)
                /\ sync' = [sync EXCEPT !.pc = IF asked = <<>> THEN "request" ELSE "dest reply",
                                        !.cache = asked, !.keys = <<>>]
                /\ UNCHANGED gaveUp
             \/ LET t == SubSeq(l, 1, IF Pipe < Len(l) THEN Pipe + 1 ELSE Len(l))
                    asked == RemoveAt(t, i)
                IN
                /\ With("dest", Buffered(Fresh, Requests("get", SubSeq(t, i + 1, Len(t)))))
                /\ sync' = [sync EXCEPT !.pc = IF asked = <<>> THEN "request" ELSE "dest reply",
                                        !.cache = asked,
                                        !.keys = SubSeq(@, Len(t) + 1, Len(@))]
                /\ gaveUp' = (gaveUp \/ i > 1)
      BY <1>4, <1>5 DEF RequestListedFails
    <2>2. sync \in SyncRecord(V)
      BY <1>1, SyncHas
    <2>3. \A x, y, z : [sync EXCEPT !.pc = x, !.cache = y, !.keys = SubSeq(@, z, Len(@))]
                       = [sync EXCEPT !.pc = x, !.cache = y, !.keys = SubSeq(l, z, Len(l))]
      BY <1>4, <2>2 DEF SyncRecord
    <2>4. PICK i \in DOMAIN b :
             \/ LET asked == SubSeq(b, 1, i - 1) IN
                /\ With("dest", Broken)
                /\ sync' = [sync EXCEPT !.pc = IF asked = <<>> THEN "request" ELSE "dest reply",
                                        !.cache = asked, !.keys = <<>>]
                /\ UNCHANGED gaveUp
             \/ LET t == SubSeq(l, 1, IF Pipe < Len(l) THEN Pipe + 1 ELSE Len(l))
                    asked == RemoveAt(t, i)
                IN
                /\ With("dest", Buffered(Fresh, Requests("get", SubSeq(t, i + 1, Len(t)))))
                /\ sync' = [sync EXCEPT !.pc = IF asked = <<>> THEN "request" ELSE "dest reply",
                                        !.cache = asked,
                                        !.keys = SubSeq(@, Len(t) + 1, Len(@))]
                /\ gaveUp' = (gaveUp \/ i > 1)
      BY <2>1
    <2>5. [sync EXCEPT !.pc = IF RemoveAt(tried, i) = <<>> THEN "request" ELSE "dest reply",
                       !.cache = RemoveAt(tried, i), !.keys = SubSeq(@, Len(tried) + 1, Len(@))]
          = [sync EXCEPT !.pc = IF RemoveAt(tried, i) = <<>> THEN "request" ELSE "dest reply",
                         !.cache = RemoveAt(tried, i), !.keys = SubSeq(l, Len(tried) + 1, Len(l))]
      BY <2>3
    <2>6. Keeps(i) \/ Skips(i)
      BY <2>4, <2>5
    <2> QED
      BY <2>6
  <1>7. i \in 1..Len(b) /\ i \in Nat /\ i - 1 \in Nat
    BY <1>5
  <1>8. CASE Keeps(i)
    <2>0. PICK one \in Nat, p \in Nat : one = 1 /\ p = i - 1 /\ 1 <= one /\ one <= p + 1 /\ p <= Len(b)
      BY <1>5, <1>7
    <2>1. PICK asked : asked = Part(b, one, p)
      OBVIOUS
    <2>10. PartOf(Part(b, one, p), b, one, p)
      BY <1>5, <2>0, PartIs
    <2>11. Within(asked, b)
      BY <2>1, <2>10 DEF PartOf
    <2>12. asked \in Seq(Keys) /\ Distinct(asked) /\ \A j \in DOMAIN asked : InRange(asked[j], b)
      BY <1>5, <2>11 DEF Within
    <2>2. \A j \in DOMAIN asked : InRange(asked[j], sync.keys)
      BY <1>4, <1>5, <2>12 DEF InRange
    <2>3. asked \in Walks /\ <<>> \in Walks /\ DOMAIN <<>> = {}
      BY <2>12, EmptyWalk DEF Walks
    <2>4. /\ sync' = [sync EXCEPT !.pc = IF asked = <<>> THEN "request" ELSE "dest reply",
                                  !.cache = asked, !.keys = <<>>]
          /\ With("dest", Broken) /\ gaveUp' = gaveUp
      BY <1>8, <2>0, <2>1 DEF Part
    <2> QED
      BY <1>3, <2>2, <2>3, <2>4, NewConns
  <1>9. CASE Skips(i)
    <2>1. n \in Nat /\ 1 <= n + 1 /\ n <= Len(l) /\ Len(b) <= n
      <3>1. Pipe \in Nat
        BY PipelineAssumption
      <3>2. b = SubSeq(l, 1, IF Pipe < Len(l) THEN Pipe ELSE Len(l))
        BY <1>4, <1>5, <3>1 DEF Batch, NextRange
      <3>3. Len(b) <= IF Pipe < Len(l) THEN Pipe ELSE Len(l)
        BY <1>4, <3>1, <3>2
      <3> QED
        BY <1>4, <1>5, <3>1, <3>3
    <2> HIDE DEF n
    <2>2. PICK t : t = tried
      OBVIOUS
    <2>20. PICK one \in Nat : one = 1 /\ 1 <= one /\ one <= n + 1
      BY <2>1
    <2>200. PartOf(Part(l, one, n), l, one, n)
      BY <1>4, <2>1, <2>20, PartIs
    <2>201. t = Part(l, one, n)
      BY <2>2, <2>20 DEF Part
    <2>21. Within(t, l) /\ Len(t) = n
      BY <2>1, <2>20, <2>200, <2>201 DEF PartOf
    <2>22. /\ t \in Seq(Keys) /\ Len(t) = n /\ Distinct(t) /\ \A j \in DOMAIN t : InRange(t[j], l)
           /\ i \in 1..Len(t)
      BY <1>4, <1>7, <2>1, <2>21 DEF Within
    <2>3. PICK asked : asked = RemoveAt(t, i)
      OBVIOUS
    <2>31. Within(asked, t) /\ (i = 1 => asked = SubSeq(t, 2, Len(t)))
      BY <2>22, <2>3, WithoutIs
    <2>32. asked \in Seq(Keys) /\ Distinct(asked) /\ \A j \in DOMAIN asked : InRange(asked[j], t)
      BY <2>22, <2>31 DEF Within
    <2>40. PICK p \in Nat, q \in Nat : p = n + 1 /\ q = Len(l) /\ 1 <= p /\ p <= q + 1 /\ q <= Len(l)
      <3>1. n + 1 \in Nat /\ Len(l) \in Nat /\ 1 <= n + 1 /\ n + 1 <= Len(l) + 1 /\ Len(l) <= Len(l)
        BY <1>4, <2>1
      <3> QED
        BY <3>1
    <2>4. PICK keys : keys = Part(l, p, q)
      OBVIOUS
    <2>400. PartOf(Part(l, p, q), l, p, q)
      BY <1>4, <2>40, PartIs
    <2>41. Within(keys, l)
      BY <2>4, <2>400 DEF PartOf
    <2>42. /\ keys \in Seq(Keys) /\ Distinct(keys) /\ \A j \in DOMAIN keys : InRange(keys[j], l)
           /\ keys = SubSeq(l, Len(t) + 1, Len(l))
      BY <1>4, <2>4, <2>22, <2>40, <2>41 DEF Within, Part
    <2>50. PICK u \in Nat : u = i + 1 /\ 1 <= u /\ u <= n + 1 /\ n <= Len(t)
      BY <1>7, <2>1, <2>22
    <2>5. PICK rest : rest = Part(t, u, n)
      OBVIOUS
    <2>500. PartOf(Part(t, u, n), t, u, n)
      BY <2>1, <2>22, <2>50, PartIs
    <2>51. Within(rest, t)
      BY <2>5, <2>500 DEF PartOf
    <2>52. rest \in Seq(Keys) /\ rest = SubSeq(t, i + 1, Len(t))
      BY <2>22, <2>5, <2>50, <2>51 DEF Within, Part
    <2>6. PICK reqs \in Seq(Req(V)) : reqs = Requests("get", rest)
      BY <2>52, RequestsAre
    <2>7. PICK c \in Conn(V) : c = Buffered(Fresh, reqs) /\ c.up /\ Outstanding(c) = reqs
      BY NewConns, BufferedIs
    <2>8. \A j \in DOMAIN asked : InRange(asked[j], sync.keys)
      BY <1>4, <2>22, <2>32 DEF InRange
    <2>9. asked \in Walks /\ keys \in Walks
      BY <2>32, <2>42 DEF Walks
    <2>10. /\ sync' = [sync EXCEPT !.pc = IF asked = <<>> THEN "request" ELSE "dest reply",
                                   !.cache = asked, !.keys = keys]
           /\ With("dest", c) /\ gaveUp' = (gaveUp \/ i > 1)
      BY <1>9, <2>2, <2>3, <2>42, <2>52, <2>6, <2>7
    <2>11. gaveUp' \/ i = 1
      <3>1. i = 1 \/ i > 1
        BY <1>7
      <3> QED
        BY <2>10, <3>1
    <2>12. i = 1 => Outstanding(c) = Requests("get", asked)
      <3>1. i = 1 => u = 2
        BY <2>50
      <3> QED
        BY <2>22, <2>31, <2>5, <2>6, <2>7, <3>1 DEF Part
    <2>13. gaveUp' \in BOOLEAN
      BY <1>3, <2>10
    <2> QED
      BY <1>3, <1>4, <2>42, <2>7, <2>8, <2>9, <2>10, <2>11, <2>12, <2>13
  <1> QED
    BY <1>6, <1>8, <1>9

\* RequestListedFails keeps the types.
LEMMA RequestListedFailsTyped ==
    ASSUME NEW V, Kind(V), TypedFor(V), Taken, RequestListedFails
    PROVE  TypedFor(V)' /\ Taken'
  <1>1. PipeTyped(V) /\ BulkTyped(V) /\ SyncOk(sync, V) /\ Needs(sync) \subseteq DOMAIN held
    BY TypedHas
  <1>2. /\ sync.list /\ sync.pc = "request" /\ lostBy' = lostBy \cup {"sync"}
        /\ UNCHANGED <<db, pool, bulk, touched>>
    BY DEF RequestListedFails
  <1>3. PICK c \in Conn(V), asked \in Walks, keys \in Walks :
              /\ "dest" \in DOMAIN held /\ held \in [DOMAIN held -> Conn(V)] /\ With("dest", c)
              /\ \A i \in DOMAIN asked : InRange(asked[i], sync.keys)
              /\ \A i \in DOMAIN keys : InRange(keys[i], sync.keys)
              /\ sync' = [sync EXCEPT !.pc = IF asked = <<>> THEN "request" ELSE "dest reply",
                                      !.cache = asked, !.keys = keys]
              /\ gaveUp' \in BOOLEAN
    BY RequestListedFailsIs
  <1>4. /\ DOMAIN held' = DOMAIN held /\ held' \in [DOMAIN held' -> Conn(V)]
        /\ \A r \in DOMAIN held : r # "dest" => held'[r] = held[r]
    <2>1. /\ DOMAIN held' = DOMAIN held \cup {"dest"} /\ held' \in [DOMAIN held' -> Conn(V)]
          /\ \A r \in DOMAIN held : r # "dest" => held'[r] = held[r]
      BY <1>3, WithIs
    <2> QED
      BY <1>3, <2>1
  <1>5. PipeTyped(V)' /\ BulkTyped(V)'
    BY <1>1, <1>2, <1>3, <1>4, LosingTyped
  <1>6. /\ SyncOk(sync', V) /\ sync'.list = sync.list
        /\ sync'.pc = IF asked = <<>> THEN "request" ELSE "dest reply"
    <2>1. PICK t : t = [sync EXCEPT !.pc = IF asked = <<>> THEN "request" ELSE "dest reply",
                                    !.cache = asked, !.keys = keys]
      OBVIOUS
    <2>2. SomeOf(asked) /\ SomeOf(keys) /\ Piped(t, asked, keys)
      BY <1>3, <2>1 DEF Piped, SomeOf
    <2>3. PipedTo(t, asked, V)
      BY <1>1, <1>2, <2>2, PipedOk
    <2> QED
      BY <1>3, <2>1, <2>3 DEF PipedTo
  <1>7. SyncOk(sync, V)'
    BY <1>6 DEF SyncOk
  <1>8. Needs(sync)' = Needs(sync) /\ sync'.pc # "idle"
    BY <1>2, <1>6 DEF Needs
  <1> QED
    BY <1>1, <1>4, <1>5, <1>7, <1>8, UsedTaken

\* RequestBothRetried keeps the types.
LEMMA RequestBothRetriedTyped ==
    ASSUME NEW V, Kind(V), TypedFor(V), Taken, RequestBothRetried
    PROVE  TypedFor(V)' /\ Taken'
  <1>1. PipeTyped(V) /\ BulkTyped(V) /\ SyncOk(sync, V) /\ Needs(sync) \subseteq DOMAIN held
    BY TypedHas
  <1>2. /\ ~sync.list /\ sync.pc = "request" /\ sync.keys # <<>> /\ gaveUp' = TRUE
        /\ UNCHANGED <<db, pool, bulk, touched>>
    BY DEF RequestBothRetried
  <1>3. {"dest", "source_get"} \subseteq DOMAIN held /\ held \in [DOMAIN held -> Conn(V)]
    <2>1. {"dest", "source_get"} \subseteq Needs(sync)
      BY <1>2 DEF Needs
    <2>2. held \in [DOMAIN held -> Conn(V)]
      BY <1>1 DEF PipeTyped
    <2> QED
      BY <1>1, <2>1, <2>2
  <1>4. sync \in SyncRecord(V) /\ sync.keys \in Seq(Keys)
    BY <1>1, SyncHas
  <1>5. PICK batch \in Seq(Keys) : batch = Batch
    BY <1>4, BatchIs
  <1>6. Requests("get", batch) \in Seq(Req(V))
    BY RequestsAre
  <1> DEFINE Parts(role, c, reqs) ==
               [r \in DOMAIN held |->
                   CASE r = role -> c
                     [] r \in {"dest", "source_get"} \ {role} -> Buffered(held[r], reqs)
                     [] OTHER -> held[r]]
  <1>7. ASSUME NEW role \in {"dest", "source_get"}, NEW c \in Conn(V), NEW reqs \in Seq(Req(V)),
               held' = Parts(role, c, reqs)
        PROVE  /\ DOMAIN held' = DOMAIN held /\ held' \in [DOMAIN held' -> Conn(V)]
               /\ \A r \in DOMAIN held : r \notin {"dest", "source_get"} => held'[r] = held[r]
    <2>1. \A r \in DOMAIN held : held[r] \in Conn(V) /\ Buffered(held[r], reqs) \in Conn(V)
      BY <1>3, BufferedIs
    <2> QED
      BY <1>7, <2>1
  <1>8. /\ DOMAIN held' = DOMAIN held /\ held' \in [DOMAIN held' -> Conn(V)]
        /\ \A r \in DOMAIN held : r \notin {"dest", "source_get"} => held'[r] = held[r]
        /\ \/ /\ sync' = [sync EXCEPT !.pc = "dest reply", !.cache = Batch, !.keys = Rest]
              /\ lostBy' = lostBy
           \/ sync' = [sync EXCEPT !.pc = "err"] /\ lostBy' = lostBy \cup {"sync"}
    <2>1. PICK role \in {"dest", "source_get"} :
            \/ /\ \E c \in Rebuffered(Requests("get", batch)) : held' = Parts(role, c, Requests("get", batch))
               /\ sync' = [sync EXCEPT !.pc = "dest reply", !.cache = Batch, !.keys = Rest]
               /\ lostBy' = lostBy
            \/ /\ \E c \in Reconnects, i \in DOMAIN batch :
                     held' = Parts(role, c, Requests("get", SubSeq(batch, 1, i)))
               /\ sync' = [sync EXCEPT !.pc = "err"]
               /\ lostBy' = lostBy \cup {"sync"}
      BY <1>5 DEF RequestBothRetried
    <2> HIDE DEF Parts
    <2>2. ASSUME NEW c \in Rebuffered(Requests("get", batch)), held' = Parts(role, c, Requests("get", batch))
          PROVE  /\ DOMAIN held' = DOMAIN held /\ held' \in [DOMAIN held' -> Conn(V)]
                 /\ \A r \in DOMAIN held : r \notin {"dest", "source_get"} => held'[r] = held[r]
      <3>1. c \in Conn(V)
        BY <1>6, RebufferedIs
      <3> QED
        BY <1>6, <1>7, <2>2, <3>1
    <2>3. ASSUME NEW c \in Reconnects, NEW i \in DOMAIN batch,
                 held' = Parts(role, c, Requests("get", SubSeq(batch, 1, i)))
          PROVE  /\ DOMAIN held' = DOMAIN held /\ held' \in [DOMAIN held' -> Conn(V)]
                 /\ \A r \in DOMAIN held : r \notin {"dest", "source_get"} => held'[r] = held[r]
      <3>1. c \in Conn(V)
        BY NewConns DEF Reconnects
      <3>2. SubSeq(batch, 1, i) \in Seq(Keys)
        OBVIOUS
      <3>3. Requests("get", SubSeq(batch, 1, i)) \in Seq(Req(V))
        BY <3>2, RequestsAre
      <3> QED
        BY <1>7, <2>3, <3>1, <3>3
    <2> QED
      BY <2>1, <2>2, <2>3
  <1>9. PipeTyped(V)' /\ BulkTyped(V)'
    BY <1>1, <1>2, <1>8, LosingTyped
  <1>10. CASE sync' = [sync EXCEPT !.pc = "dest reply", !.cache = Batch, !.keys = Rest]
    <2>1. "dest reply" \in Places
      BY DEF Places, Answering
    <2>2. SyncOk([sync EXCEPT !.pc = "dest reply", !.cache = Batch, !.keys = Rest], V)
      BY <1>1, <1>2, <2>1, FilledOk
    <2>3. sync'.pc = "dest reply" /\ sync'.list = sync.list
      BY <1>4, <1>10 DEF SyncRecord
    <2>4. Needs(sync)' = Needs(sync) /\ sync'.pc # "idle"
      BY <1>2, <2>3 DEF Needs
    <2> QED
      BY <1>1, <1>8, <1>9, <1>10, <2>2, <2>4, UsedTaken
  <1>11. CASE sync' = [sync EXCEPT !.pc = "err"]
    <2>1. "err" \in Places /\ "err" \notin Answering \cup Comparing \cup NotListed /\ "request" \notin Answering
      BY DEF Places, Answering, Comparing, NotListed
    <2>2. Needs([sync EXCEPT !.pc = "err"]) = {}
      BY <1>1, NeedsAre
    <2> QED
      BY <1>1, <1>2, <1>9, <1>11, <2>1, <2>2, MovedTyped
  <1> QED
    BY <1>8, <1>10, <1>11

-----------------------------------------------------------------------------
(* Bulk operations keep their types *)

\* The objects of a bulk operation.
LEMMA BulkListIs == BulkList \in Seq(Item(Object))
  <1>1. PICK s \in Seq(Keys) : s = SetToSeq(Keys)
    BY SetToSeqIs, PipelineAssumption
  <1>2. BulkList = [i \in 1..Len(s) |-> [key |-> s[i], val |-> Update]]
    BY <1>1 DEF BulkList
  <1>3. Len(s) \in Nat /\ \A i \in 1..Len(s) : s[i] \in Keys
    OBVIOUS
  <1>4. \A i \in 1..Len(s) : [key |-> s[i], val |-> Update] \in Item(Object)
    BY <1>3, ObjectsAre DEF Item
  <1>5. BulkList \in [1..Len(s) -> Item(Object)]
    BY <1>2, <1>4
  <1> QED
    BY <1>3, <1>5

BulkPlaces == {"idle", "store", "merging", "storing", "deleting", "getting"}
BulkRecord == [pc : BulkPlaces, list : Seq(Item(Object)), done : Nat, left : Nat]

\* BulkTyped of a record and a connection.
BulkOk(b, V) ==
    /\ b \in BulkRecord
    /\ b.done + b.left <= Len(b.list)
    /\ b.pc \in {"store", "storing"} => b.list \in Seq(Item(V))
    /\ b.pc = "merging" => \A i \in 1..b.done : b.list[i] \in Item(V)
    /\ b.pc \in {"idle", "store"} => b.left = 0
    /\ b.pc = "idle" => b.done = 0

\* The types of a bulk operation, field by field.
LEMMA BulkTypedIs ==
    ASSUME NEW V
    PROVE  BulkTyped(V) <=> /\ BulkOk(bulk, V)
                            /\ bulk.pc \notin {"idle", "store"} =>
                                  "bulk" \in DOMAIN held /\ (held["bulk"].up \/ "bulk" \in lostBy)
  BY DEF BulkTyped, BulkOk, BulkRecord, BulkPlaces

\* The same after a step.
LEMMA BulkTypedNext ==
    ASSUME NEW V, BulkOk(bulk', V),
           bulk'.pc \notin {"idle", "store"} =>
              "bulk" \in DOMAIN held' /\ (held'["bulk"].up \/ "bulk" \in lostBy')
    PROVE  BulkTyped(V)'
  BY DEF BulkTyped, BulkOk, BulkRecord, BulkPlaces

\* The fields of a bulk operation.
LEMMA BulkHas ==
    ASSUME NEW V, NEW b, BulkOk(b, V)
    PROVE  /\ b \in BulkRecord /\ b.pc \in BulkPlaces /\ b.list \in Seq(Item(Object)) /\ b.done \in Nat
           /\ b.left \in Nat /\ b.done + b.left <= Len(b.list)
  BY DEF BulkOk, BulkRecord

\* Taking the fields of a new record apart.
LEMMA BulkOkOf ==
    ASSUME NEW V, NEW pc \in BulkPlaces, NEW list \in Seq(Item(Object)), NEW done \in Nat, NEW left \in Nat,
           done + left <= Len(list),
           pc \in {"store", "storing"} => list \in Seq(Item(V)),
           pc = "merging" => \A i \in 1..done : list[i] \in Item(V),
           pc \in {"idle", "store"} => left = 0,
           pc = "idle" => done = 0,
           NEW b, b = [pc |-> pc, list |-> list, done |-> done, left |-> left]
    PROVE  BulkOk(b, V)
  <1>1. b \in BulkRecord /\ b.pc = pc /\ b.list = list /\ b.done = done /\ b.left = left
    BY DEF BulkRecord
  <1> QED
    BY <1>1 DEF BulkOk

\* A bulk operation returns.
LEMMA BulkReturned ==
    ASSUME NEW V, BulkOk(bulk, V), BulkReturns
    PROVE  BulkOk(bulk', V) /\ bulk'.pc = "idle" /\ bulk'.left = 0
  <1>1. bulk' = [pc |-> "idle", list |-> <<>>, done |-> 0, left |-> 0]
    <2>1. bulk \in BulkRecord
      BY BulkHas
    <2> QED
      BY <2>1 DEF BulkReturns, BulkRecord
  <1>2. <<>> \in Seq(Item(Object)) /\ <<>> \in Seq(Item(V)) /\ Len(<<>>) = 0 /\ "idle" \in BulkPlaces
    BY DEF BulkPlaces
  <1>3. PICK list \in Seq(Item(Object)) : list = <<>> /\ Len(list) = 0
    BY <1>2, Zenon
  <1>4. bulk' = [pc |-> "idle", list |-> list, done |-> 0, left |-> 0]
    BY <1>1, <1>3
  <1>5. BulkOk(bulk', V)
    <2>1. 0 + 0 <= Len(list) /\ 0 \in Nat
      BY <1>3
    <2>2. \A b : b = [pc |-> "idle", list |-> list, done |-> 0, left |-> 0] => BulkOk(b, V)
      BY <1>2, <2>1, BulkOkOf
    <2> QED
      BY <1>4, <2>2
  <1> QED
    BY <1>1, <1>5

\* The synchronisation does not notice.
LEMMA SyncIdle ==
    ASSUME NEW V, SyncOk(sync, V), Taken, sync' = sync, PipeTyped(V)', BulkTyped(V)',
           DOMAIN held \subseteq DOMAIN held' \cup {"bulk"}, DOMAIN held' \subseteq DOMAIN held \cup {"bulk"}
    PROVE  TypedFor(V)' /\ Taken'
  <1>1. "bulk" \notin Needs(sync) /\ "bulk" \notin SyncRoles
    BY DEF Needs, SyncRoles
  <1>2. Needs(sync)' = Needs(sync)
    BY DEF Needs
  <1>3. Taken'
    BY <1>1, <1>2 DEF Taken
  <1> QED
    BY <1>3 DEF TypedFor

\* It gives its connection back.
LEMMA BulkReleased ==
    ASSUME NEW V, pool \in Pooled(V), held \in [DOMAIN held -> Conn(V)], NEW c \in Conn(V), BulkRelease(c)
    PROVE  /\ pool' \in Pooled(V) /\ (AllClean(pool) /\ Clean(c) => AllClean(pool'))
           /\ DOMAIN held' = DOMAIN held \ {"bulk"} /\ held' \in [DOMAIN held' -> Conn(V)]
           /\ \A r \in DOMAIN held' : held'[r] = held[r]
  <1>1. pool' = Put(pool, Dst, c) /\ held' = [r \in DOMAIN held \ {"bulk"} |-> held[r]]
    BY DEF BulkRelease, Released
  <1>2. Dst \in Addrs
    BY AddrsAre
  <1>3. pool' \in Pooled(V) /\ (AllClean(pool) /\ Clean(c) => AllClean(pool'))
    BY <1>1, <1>2, PutIs
  <1> QED
    BY <1>1, <1>3

\* A reply that a bulk operation takes.
LEMMA RepliedReply ==
    ASSUME NEW V, NEW a, NEW c \in Conn(V), db[a] \in Database(V), NEW o, Replied(a, c, o)
    PROVE  o.conn.up /\ o.reply \in Reply(V) /\ ~o.lost
  <1>1. o.conn.up /\ ~o.lost /\ Outstanding(c) # <<>> /\ o.reply = Head(c.in \o Executed(db[a], c.out).in)
    BY DEF Replied
  <1>2. PICK in \in Seq(Reply(V)), out \in Seq(Req(V)) : in = c.in /\ out = c.out
    BY ConnHas
  <1>3. PICK new \in Seq(Reply(V)) : new = Executed(db[a], out).in /\ Len(new) = Len(out)
    BY ExecutedTyped
  <1>4. in # <<>> \/ out # <<>>
    BY <1>1, <1>2, OutstandingTyped DEF Clean
  <1>5. Len(in) + Len(new) >= 1
    BY <1>3, <1>4, SeqEmpty
  <1>6. in \o new \in Seq(Reply(V)) /\ Len(in \o new) >= 1
    BY <1>5
  <1>7. in \o new # <<>>
    BY <1>6, SeqEmpty
  <1>8. Head(in \o new) \in Reply(V)
    BY <1>6, <1>7, SeqTail
  <1> QED
    BY <1>1, <1>2, <1>3, <1>8

\* response() for a bulk operation.
LEMMA BulkResponse ==
    ASSUME NEW V, PipeTyped(V), BulkTyped(V), bulk.pc \notin {"idle", "store"},
           NEW o \in ResponseOutcomes(Dst, held["bulk"]), Note("bulk", o)
    PROVE  /\ o.conn \in Conn(V) /\ o.db \in Database(V)
           /\ o.reply # NoReply => o.reply \in Reply(V)
           /\ "bulk" \in DOMAIN held
           /\ lostBy' \in SUBSET Threads /\ lostBy \subseteq lostBy'
           /\ o.conn.up \/ "bulk" \in lostBy'
           /\ o.reply = NoReply => "bulk" \in lostBy'
           /\ [db EXCEPT ![Dst] = o.db] \in [Addrs -> Database(V)]
  <1>1. "bulk" \in DOMAIN held /\ (held["bulk"].up \/ "bulk" \in lostBy)
    BY BulkTypedIs
  <1>2. held["bulk"] \in Conn(V) /\ db[Dst] \in Database(V) /\ Dst # Src
    BY <1>1, AddrsAre DEF PipeTyped
  <1>3. /\ o.conn \in Conn(V) /\ o.db \in Database(V) /\ o.lost \in BOOLEAN
        /\ o.reply # NoReply => o.reply \in Reply(V)
        /\ \/ Replied(Dst, held["bulk"], o) \/ TimedOut(Dst, held["bulk"], o)
           \/ Failed(Dst, held["bulk"], o) \/ NotSent(Dst, held["bulk"], o)
    BY <1>2, ResponseIs
  <1>4. /\ lostBy' \in SUBSET Threads /\ lostBy \subseteq lostBy'
        /\ o.lost => "bulk" \in lostBy'
    BY NoteIs DEF PipeTyped, Threads
  <1>5. (o.conn.up \/ "bulk" \in lostBy') /\ (o.reply = NoReply => "bulk" \in lostBy')
    <2>1. CASE Replied(Dst, held["bulk"], o)
      <3>1. o.conn.up /\ o.reply \in Reply(V)
        BY <1>2, <2>1, RepliedReply
      <3> QED
        BY <3>1, ReplyHas
    <2>2. CASE TimedOut(Dst, held["bulk"], o)
      BY <1>2, <2>2 DEF TimedOut
    <2>3. CASE Failed(Dst, held["bulk"], o)
      BY <1>4, <2>3 DEF Failed
    <2>4. CASE NotSent(Dst, held["bulk"], o)
      BY <1>1, <1>4, <2>4 DEF NotSent
    <2> QED
      BY <1>3, <2>1, <2>2, <2>3, <2>4
  <1>6. [db EXCEPT ![Dst] = o.db] \in [Addrs -> Database(V)]
    BY <1>3 DEF PipeTyped
  <1> QED
    BY <1>1, <1>3, <1>4, <1>5, <1>6

\* BulkConnect keeps the types.
LEMMA BulkConnectTyped ==
    ASSUME NEW V, Kind(V), TypedFor(V), Taken, sync' = sync,
           NEW pc \in {"merging", "storing", "deleting", "getting"}, BulkConnect(pc)
    PROVE  TypedFor(V)' /\ Taken'
  <1>1. PipeTyped(V) /\ BulkTyped(V) /\ SyncOk(sync, V) /\ BulkOk(bulk, V)
    BY TypedHas, BulkTypedIs
  <1>2. PICK t \in TakeOutcomes(Dst) :
          /\ pool' = [pool EXCEPT ![Dst] = t.rest]
          /\ Note("bulk", t)
          /\ IF ~t.conn.up THEN held' = held /\ BulkReturns
             ELSE /\ With("bulk", t.conn)
                  /\ bulk' = IF pc = "storing" THEN [bulk EXCEPT !.pc = pc, !.done = 0]
                             ELSE [bulk EXCEPT !.pc = pc, !.list = BulkList]
    BY DEF BulkConnect
  <1>3. /\ (pc # "storing" /\ bulk.pc = "idle") \/ (pc = "storing" /\ bulk.pc = "store")
        /\ UNCHANGED <<db, gaveUp, touched>>
    BY DEF BulkConnect
  <1>4. Dst \in Addrs /\ pool \in [Addrs -> Seq(OpenConn(V))] /\ held \in [DOMAIN held -> Conn(V)]
        /\ lostBy \in SUBSET Threads /\ "bulk" \in Threads
    BY <1>1, AddrsAre DEF PipeTyped, Threads
  <1>5. t.conn \in Conn(V) /\ t.rest \in Seq(OpenConn(V))
    BY <1>4, TakeIs
  <1>6. lostBy' \in SUBSET Threads /\ lostBy \subseteq lostBy'
    BY <1>2, <1>4, NoteIs
  <1>7. pool' \in [Addrs -> Seq(OpenConn(V))]
    BY <1>2, <1>4, <1>5
  <1>8. CASE ~t.conn.up
    <2>1. held' = held /\ BulkReturns
      BY <1>2, <1>8
    <2>2. PipeTyped(V)'
      BY <1>1, <1>3, <1>6, <1>7, <2>1 DEF PipeTyped
    <2>3. BulkTyped(V)'
      BY <1>1, <2>1, BulkReturned, BulkTypedNext
    <2> QED
      BY <1>1, <2>1, <2>2, <2>3, SyncIdle
  <1>9. CASE t.conn.up
    <2>1. /\ DOMAIN held' = DOMAIN held \cup {"bulk"} /\ held' \in [DOMAIN held' -> Conn(V)]
          /\ held'["bulk"] = t.conn
      BY <1>2, <1>4, <1>5, <1>9, WithIs
    <2>2. PipeTyped(V)'
      <3>1. DOMAIN held' \subseteq SyncRoles \cup {"bulk"}
        BY <1>1, <2>1 DEF PipeTyped
      <3> QED
        BY <1>1, <1>3, <1>6, <1>7, <2>1, <3>1 DEF PipeTyped
    <2>3. bulk \in BulkRecord /\ bulk.list \in Seq(Item(Object)) /\ bulk.done \in Nat /\ bulk.left = 0
      BY <1>1, <1>3, BulkHas DEF BulkOk
    <2>4. BulkOk(bulk', V) /\ bulk'.pc = pc
      <3>1. CASE pc = "storing"
        <4>1. bulk' = [pc |-> pc, list |-> bulk.list, done |-> 0, left |-> 0]
          BY <1>2, <1>9, <2>3, <3>1 DEF BulkRecord
        <4>2. bulk.list \in Seq(Item(V))
          BY <1>1, <1>3, <3>1 DEF BulkOk
        <4>3. PICK l \in Seq(Item(Object)) : l = bulk.list /\ l \in Seq(Item(V))
          BY <2>3, <4>2
        <4>4. Len(l) \in Nat /\ pc \in BulkPlaces /\ 0 \in Nat /\ 0 + 0 <= Len(l)
          BY DEF BulkPlaces
        <4>5. \A b : b = [pc |-> pc, list |-> l, done |-> 0, left |-> 0] => BulkOk(b, V)
          BY <3>1, <4>3, <4>4, BulkOkOf
        <4> QED
          BY <4>1, <4>3, <4>5
      <3>2. CASE pc # "storing"
        <4>1. bulk' = [pc |-> pc, list |-> BulkList, done |-> 0, left |-> 0]
          <5>1. bulk.done = 0
            BY <1>1, <1>3, <3>2 DEF BulkOk
          <5> QED
            BY <1>2, <1>9, <2>3, <3>2, <5>1 DEF BulkRecord
        <4>2. PICK l \in Seq(Item(Object)) : l = BulkList
          BY BulkListIs
        <4>3. Len(l) \in Nat /\ pc \in BulkPlaces /\ 0 \in Nat /\ 0 + 0 <= Len(l) /\ pc \notin {"idle", "store", "storing"}
          BY <3>2 DEF BulkPlaces
        <4>4. \A b : b = [pc |-> pc, list |-> l, done |-> 0, left |-> 0] => BulkOk(b, V)
          <5>1. \A i \in 1..0 : l[i] \in Item(V)
            OBVIOUS
          <5> QED
            BY <4>3, <5>1, BulkOkOf
        <4> QED
          BY <4>1, <4>2, <4>4
      <3> QED
        BY <3>1, <3>2
    <2>5. BulkTyped(V)'
      BY <1>9, <2>1, <2>4, BulkTypedNext
    <2> QED
      BY <1>1, <2>1, <2>2, <2>5, SyncIdle
  <1> QED
    BY <1>8, <1>9

\* The requests of a bulk operation.
LEMMA BulkRequestsAre ==
    ASSUME NEW V, Kind(V), BulkTyped(V), bulk.pc \notin {"idle", "store"}, bulk.left = 0,
           bulk.done < Len(bulk.list)
    PROVE  /\ BulkRequests \in Seq(Req(V)) /\ Len(BulkRequests) = Len(BulkRange) /\ Len(BulkRange) \in Nat
           /\ bulk.done + Len(BulkRange) <= Len(bulk.list)
           /\ \A i \in 1..Len(BulkRange) :
                 BulkRequests[i] = BulkRequest(bulk.pc, bulk.list[bulk.done + i])
  <1> DEFINE range == NextRange(bulk.list, bulk.done)
             reqs == [i \in DOMAIN range |->
                           CASE bulk.pc = "storing"  -> Store(range[i])
                             [] bulk.pc = "deleting" -> Request("del", range[i].key)
                             [] OTHER                -> Request("get", range[i].key)]
  <1>1. BulkOk(bulk, V)
    BY BulkTypedIs
  <1>2. PICK l \in Seq(Item(Object)) : l = bulk.list
    BY <1>1, BulkHas
  <1>3. PICK n \in Nat : n = bulk.done
    BY <1>1, BulkHas
  <1>4. n < Len(l) /\ Len(l) \in Nat
    BY <1>2, <1>3
  <1>5. /\ NextRange(l, n) \in Seq(Item(Object)) /\ n + Len(NextRange(l, n)) <= Len(l)
        /\ \A i \in 1..Len(NextRange(l, n)) : NextRange(l, n)[i] = l[n + i] /\ n + i \in 1..Len(l)
    BY <1>4, RangeIs
  <1>6. PICK r \in Seq(Item(Object)) : r = range
    BY <1>2, <1>3, <1>5
  <1>7. /\ n + Len(r) <= Len(l) /\ Len(r) \in Nat /\ DOMAIN r = 1..Len(r)
        /\ \A i \in 1..Len(r) : r[i] = l[n + i] /\ n + i \in 1..Len(l) /\ r[i] \in Item(Object)
    BY <1>2, <1>3, <1>5, <1>6
  <1> HIDE DEF range
  <1> DEFINE R(i) == BulkRequest(bulk.pc, r[i])
  <1>8. \A i \in 1..Len(r) : R(i) \in Req(V)
    <2>1. CASE bulk.pc = "storing"
      <3>1. l \in Seq(Item(V))
        BY <1>1, <1>2, <2>1 DEF BulkOk
      <3>2. \A i \in 1..Len(r) : r[i] \in Item(V)
        BY <1>7, <3>1
      <3> QED
        BY <2>1, <3>2, StoreTyped DEF BulkRequest
    <2>2. CASE bulk.pc # "storing"
      <3>1. \A i \in 1..Len(r) : r[i].key \in Keys
        BY <1>7 DEF Item
      <3> QED
        BY <2>2, <3>1, RequestTyped DEF BulkRequest
    <2> QED
      BY <2>1, <2>2
  <1>9. reqs = [i \in 1..Len(r) |-> R(i)]
    <2>1. reqs = [i \in 1..Len(r) |->
                           CASE bulk.pc = "storing"  -> Store(r[i])
                             [] bulk.pc = "deleting" -> Request("del", r[i].key)
                             [] OTHER                -> Request("get", r[i].key)]
      BY <1>6, <1>7
    <2>2. \A i : (CASE bulk.pc = "storing"  -> Store(r[i])
                   [] bulk.pc = "deleting" -> Request("del", r[i].key)
                   [] OTHER                -> Request("get", r[i].key)) = R(i)
      BY DEF BulkRequest
    <2> QED
      BY <2>1, <2>2
  <1> HIDE DEF R, reqs
  <1>10. reqs \in [1..Len(r) -> Req(V)] /\ \A i \in 1..Len(r) : reqs[i] = R(i)
    BY <1>8, <1>9
  <1>11. reqs \in Seq(Req(V)) /\ Len(reqs) = Len(r)
    <2>1. PICK m \in Nat : m = Len(r)
      BY <1>7
    <2>2. reqs \in [1..m -> Req(V)]
      BY <1>10, <2>1
    <2>3. reqs \in Seq(Req(V)) /\ Len(reqs) = m
      BY <2>2
    <2> QED
      BY <2>1, <2>3
  <1>12. \A i \in 1..Len(r) : reqs[i] = BulkRequest(bulk.pc, bulk.list[bulk.done + i])
    BY <1>2, <1>3, <1>7, <1>10 DEF R
  <1> QED
    BY <1>2, <1>3, <1>6, <1>7, <1>11, <1>12 DEF reqs, range, BulkRequests, BulkRange

\* BulkSend keeps the types.
LEMMA BulkSendTyped ==
    ASSUME NEW V, Kind(V), TypedFor(V), Taken, sync' = sync, BulkSend
    PROVE  TypedFor(V)' /\ Taken'
  <1>1. PipeTyped(V) /\ BulkTyped(V) /\ SyncOk(sync, V) /\ BulkOk(bulk, V)
    BY TypedHas, BulkTypedIs
  <1> DEFINE range == BulkRange
             reqs == BulkRequests
  <1>2. /\ bulk.pc \notin {"idle", "store"} /\ bulk.left = 0 /\ bulk.done < Len(bulk.list)
        /\ With("bulk", Buffered(held["bulk"], reqs)) /\ bulk' = [bulk EXCEPT !.left = Len(range)]
        /\ UNCHANGED <<db, pool, troubles, calls, lostBy, gaveUp, touched>>
    BY DEF BulkSend, BulkSends
  <1>3. reqs \in Seq(Req(V)) /\ Len(range) \in Nat /\ bulk.done + Len(range) <= Len(bulk.list)
    BY <1>1, <1>2, BulkRequestsAre
  <1>4. PICK n \in Nat : n = Len(range)
    BY <1>3
  <1>5. PICK s \in Seq(Req(V)) : s = reqs
    BY <1>3
  <1>6. With("bulk", Buffered(held["bulk"], s)) /\ bulk' = [bulk EXCEPT !.left = n] /\ bulk.done + n <= Len(bulk.list)
    BY <1>2, <1>3, <1>4, <1>5
  <1> HIDE DEF range, reqs
  <1>7. "bulk" \in DOMAIN held /\ (held["bulk"].up \/ "bulk" \in lostBy)
    BY <1>1, <1>2, BulkTypedIs
  <1>8. held \in [DOMAIN held -> Conn(V)] /\ held["bulk"] \in Conn(V)
    BY <1>1, <1>7 DEF PipeTyped
  <1>9. Buffered(held["bulk"], s) \in Conn(V) /\ Buffered(held["bulk"], s).up = held["bulk"].up
    BY <1>8, BufferedIs
  <1>10. /\ DOMAIN held' = DOMAIN held \cup {"bulk"} /\ held' \in [DOMAIN held' -> Conn(V)]
         /\ held'["bulk"] = Buffered(held["bulk"], s)
    BY <1>6, <1>8, <1>9, WithIs
  <1>11. DOMAIN held' = DOMAIN held
    BY <1>7, <1>10
  <1>12. PipeTyped(V)'
    BY <1>1, <1>2, <1>10, <1>11 DEF PipeTyped
  <1>13. BulkOk(bulk', V) /\ bulk'.pc = bulk.pc
    <2>1. bulk \in BulkRecord
      BY <1>1, BulkHas
    <2>2. /\ bulk' \in BulkRecord /\ bulk'.pc = bulk.pc /\ bulk'.list = bulk.list /\ bulk'.done = bulk.done
          /\ bulk'.left = n
      BY <1>6, <2>1 DEF BulkRecord
    <2> QED
      BY <1>1, <1>2, <1>6, <2>2 DEF BulkOk
  <1>14. BulkTyped(V)'
    BY <1>2, <1>7, <1>9, <1>10, <1>13, BulkTypedNext
  <1> QED
    BY <1>1, <1>11, <1>12, <1>14, SyncIdle

\* BulkSendRetried keeps the types.
LEMMA BulkSendRetriedTyped ==
    ASSUME NEW V, Kind(V), TypedFor(V), Taken, sync' = sync, BulkSendRetried
    PROVE  TypedFor(V)' /\ Taken'
  <1>1. PipeTyped(V) /\ BulkTyped(V) /\ SyncOk(sync, V) /\ BulkOk(bulk, V)
    BY TypedHas, BulkTypedIs
  <1>2. /\ bulk.pc \notin {"idle", "store"} /\ bulk.left = 0 /\ bulk.done < Len(bulk.list)
        /\ bulk' = [bulk EXCEPT !.left = Len(BulkRange)]
        /\ gaveUp' = TRUE /\ UNCHANGED <<db, pool, calls, lostBy, touched>>
    BY DEF BulkSendRetried, BulkSends
  <1>3. PICK c \in Rebuffered(BulkRequests) : With("bulk", c)
    BY DEF BulkSendRetried
  <1>4. /\ BulkRequests \in Seq(Req(V)) /\ Len(BulkRange) \in Nat
        /\ bulk.done + Len(BulkRange) <= Len(bulk.list)
    BY <1>1, <1>2, BulkRequestsAre
  <1>5. PICK n \in Nat : bulk' = [bulk EXCEPT !.left = n] /\ bulk.done + n <= Len(bulk.list)
    BY <1>2, <1>4
  <1>6. "bulk" \in DOMAIN held /\ held \in [DOMAIN held -> Conn(V)]
    BY <1>1, <1>2, BulkTypedIs DEF PipeTyped
  <1>7. c \in Conn(V) /\ c.up
    BY <1>3, <1>4, RebufferedIs
  <1>8. /\ DOMAIN held' = DOMAIN held \cup {"bulk"} /\ held' \in [DOMAIN held' -> Conn(V)]
        /\ held'["bulk"] = c
    BY <1>3, <1>6, <1>7, WithIs
  <1>9. DOMAIN held' = DOMAIN held
    BY <1>6, <1>8
  <1>10. PipeTyped(V)'
    BY <1>1, <1>2, <1>8, <1>9 DEF PipeTyped
  <1>11. BulkOk(bulk', V) /\ bulk'.pc = bulk.pc
    <2>1. bulk \in BulkRecord
      BY <1>1, BulkHas
    <2>2. /\ bulk' \in BulkRecord /\ bulk'.pc = bulk.pc /\ bulk'.list = bulk.list /\ bulk'.done = bulk.done
          /\ bulk'.left = n
      BY <1>5, <2>1 DEF BulkRecord
    <2> QED
      BY <1>1, <1>2, <1>5, <2>2 DEF BulkOk
  <1>12. BulkTyped(V)'
    BY <1>6, <1>7, <1>8, <1>11, BulkTypedNext
  <1> QED
    BY <1>1, <1>9, <1>10, <1>12, SyncIdle

\* The pipeline of a bulk operation is read on.
LEMMA BulkOnTyped ==
    ASSUME NEW V, PipeTyped(V), NEW o, o.conn \in Conn(V), NEW d \in [Addrs -> Database(V)], db' = d,
           With("bulk", o.conn), lostBy' \in SUBSET Threads, "bulk" \in DOMAIN held,
           pool' = pool, gaveUp' = gaveUp, touched' \in SUBSET {"stored", "deleted"}
    PROVE  PipeTyped(V)' /\ DOMAIN held' = DOMAIN held /\ held'["bulk"] = o.conn
  <1>1. held \in [DOMAIN held -> Conn(V)]
    BY DEF PipeTyped
  <1>2. /\ DOMAIN held' = DOMAIN held \cup {"bulk"} /\ held' \in [DOMAIN held' -> Conn(V)]
        /\ held'["bulk"] = o.conn
    BY <1>1, WithIs
  <1>3. DOMAIN held' = DOMAIN held
    BY <1>2
  <1> QED
    BY <1>2, <1>3 DEF PipeTyped

\* A bulk operation gives its connection back.
LEMMA BulkOffTyped ==
    ASSUME NEW V, PipeTyped(V), NEW c \in Conn(V), NEW d \in [Addrs -> Database(V)], db' = d,
           BulkRelease(c), lostBy' \in SUBSET Threads,
           gaveUp' \in BOOLEAN, touched' \in SUBSET {"stored", "deleted"}
    PROVE  PipeTyped(V)' /\ DOMAIN held' = DOMAIN held \ {"bulk"}
  <1>1. held \in [DOMAIN held -> Conn(V)] /\ pool \in Pooled(V)
    BY DEF PipeTyped, Pooled
  <1>2. pool' \in Pooled(V) /\ DOMAIN held' = DOMAIN held \ {"bulk"} /\ held' \in [DOMAIN held' -> Conn(V)]
    BY <1>1, BulkReleased
  <1> QED
    BY <1>2 DEF PipeTyped, Pooled

\* BulkSendFails keeps the types.
LEMMA BulkSendFailsTyped ==
    ASSUME NEW V, Kind(V), TypedFor(V), Taken, sync' = sync, BulkSendFails,
           V = Object \/ "bulk" \notin lostBy'
    PROVE  TypedFor(V)' /\ Taken'
  <1>1. PipeTyped(V) /\ BulkTyped(V) /\ SyncOk(sync, V) /\ BulkOk(bulk, V)
    BY TypedHas, BulkTypedIs
  <1>2. /\ bulk.pc \notin {"idle", "store"} /\ bulk.left = 0
        /\ IF bulk.pc = "merging" /\ bulk.done > 0 THEN bulk' = [bulk EXCEPT !.pc = "store"]
           ELSE BulkReturns
        /\ lostBy' = lostBy \cup {"bulk"} /\ UNCHANGED <<db, calls, gaveUp, touched>>
    BY DEF BulkSendFails, BulkSends
  <1>3. PICK c \in Conn(V) : BulkRelease(c)
    BY NewConns DEF BulkSendFails, Reconnects
  <1>4. /\ db \in [Addrs -> Database(V)] /\ lostBy' \in SUBSET Threads
        /\ gaveUp \in BOOLEAN /\ touched \in SUBSET {"stored", "deleted"}
    BY <1>1, <1>2 DEF PipeTyped, Threads
  <1>5. PipeTyped(V)' /\ DOMAIN held' = DOMAIN held \ {"bulk"}
    BY <1>1, <1>2, <1>3, <1>4, BulkOffTyped
  <1>6. V = Object
    BY <1>2
  <1>7. BulkOk(bulk', V) /\ bulk'.pc \in {"idle", "store"}
    <2>1. CASE ~(bulk.pc = "merging" /\ bulk.done > 0)
      BY <1>1, <1>2, <2>1, BulkReturned
    <2>2. CASE bulk.pc = "merging" /\ bulk.done > 0
      <3>1. bulk \in BulkRecord /\ bulk.left \in Nat
        BY <1>1, BulkHas
      <3>2. PICK n \in Nat, l \in Seq(Item(Object)) : n = bulk.done /\ l = bulk.list /\ n <= Len(l)
        BY <1>1, <1>2, BulkHas
      <3>3. l \in Seq(Item(V))
        BY <1>6, <3>2
      <3>4. bulk' = [pc |-> "store", list |-> l, done |-> n, left |-> 0]
        BY <1>2, <2>2, <3>1, <3>2 DEF BulkRecord
      <3>5. "store" \in BulkPlaces /\ 0 \in Nat /\ n + 0 <= Len(l)
        BY <3>2 DEF BulkPlaces
      <3>6. \A b : b = [pc |-> "store", list |-> l, done |-> n, left |-> 0] => BulkOk(b, V)
        BY <3>3, <3>5, BulkOkOf
      <3> QED
        BY <3>4, <3>6
    <2> QED
      BY <2>1, <2>2
  <1>8. BulkTyped(V)'
    BY <1>7, BulkTypedNext
  <1> QED
    BY <1>1, <1>5, <1>8, SyncIdle

\* A merge with a complete object is complete.
LEMMA MergeIs ==
    ASSUME NEW V, Kind(V), NEW d \in V, NEW s \in Object
    PROVE  Merge(d, s) \in V
  <1>1. d \in Object
    BY KindIs
  <1>2. Merge(d, s) \in Object
    BY <1>1 DEF Merge, Object
  <1>3. CASE V = Object
    BY <1>2, <1>3
  <1>4. CASE V = Complete
    <2>1. \A a \in Attrs : Merge(d, s)[a] # None
      BY <1>4 DEF Merge, Complete
    <2> QED
      BY <1>2, <1>4, <2>1 DEF Complete
  <1> QED
    BY <1>3, <1>4 DEF Kind

\* MergeReply keeps the types.
LEMMA MergeReplyTyped ==
    ASSUME NEW V, Kind(V), TypedFor(V), Taken, sync' = sync, MergeReply,
           V = Object \/ "bulk" \notin lostBy'
    PROVE  TypedFor(V)' /\ Taken'
  <1>1. PipeTyped(V) /\ BulkTyped(V) /\ SyncOk(sync, V) /\ BulkOk(bulk, V)
    BY TypedHas, BulkTypedIs
  <1>2. bulk.pc = "merging" /\ bulk.left > 0 /\ UNCHANGED <<calls, touched>>
    BY DEF MergeReply
  <1>3. PICK o \in ResponseOutcomes(Dst, held["bulk"]) :
          /\ db' = [db EXCEPT ![Dst] = o.db]
          /\ Note("bulk", o)
          /\ IF o.reply.is = "object"
             THEN /\ LET old == bulk.list[bulk.done + 1]
                         new == [key |-> o.reply.obj.key, val |-> Merge(o.reply.obj.val, old.val)]
                     IN bulk' = [bulk EXCEPT !.list[bulk.done + 1] = new,
                                             !.done = @ + 1, !.left = @ - 1]
                  /\ With("bulk", o.conn)
                  /\ UNCHANGED <<pool, gaveUp>>
             ELSE /\ IF o.reply = NoReply THEN bulk' = [bulk EXCEPT !.pc = "store", !.left = 0]
                                          ELSE BulkReturns
                  /\ BulkRelease(o.conn)
                  /\ gaveUp' = (gaveUp \/ (o.reply # NoReply /\ bulk.left > 1))
    BY DEF MergeReply
  <1>4. /\ o.conn \in Conn(V) /\ o.db \in Database(V)
        /\ o.reply # NoReply => o.reply \in Reply(V)
        /\ "bulk" \in DOMAIN held
        /\ lostBy' \in SUBSET Threads /\ lostBy \subseteq lostBy'
        /\ o.conn.up \/ "bulk" \in lostBy'
        /\ o.reply = NoReply => "bulk" \in lostBy'
        /\ [db EXCEPT ![Dst] = o.db] \in [Addrs -> Database(V)]
    BY <1>1, <1>2, <1>3, BulkResponse
  <1>5. bulk \in BulkRecord /\ touched' \in SUBSET {"stored", "deleted"}
    BY <1>1, <1>2, BulkHas DEF PipeTyped
  <1>6. PICK l \in Seq(Item(Object)), n \in Nat, m \in Nat :
           l = bulk.list /\ n = bulk.done /\ m = bulk.left /\ n + m <= Len(l) /\ m > 0
           /\ \A i \in 1..n : l[i] \in Item(V)
    BY <1>1, <1>2, BulkHas DEF BulkOk
  <1>7. CASE o.reply.is = "object"
    <2>1. o.reply.obj \in Item(V)
      BY <1>4, <1>7, ObjectReply
    <2> DEFINE new == [key |-> o.reply.obj.key, val |-> Merge(o.reply.obj.val, l[n + 1].val)]
    <2>2. n + 1 \in 1..Len(l) /\ m - 1 \in Nat /\ Len(l) \in Nat
      BY <1>6
    <2>3. new \in Item(V)
      <3>1. l[n + 1] \in Item(Object)
        BY <2>2
      <3>2. o.reply.obj.val \in V /\ o.reply.obj.key \in Keys /\ l[n + 1].val \in Object
        BY <2>1, <3>1 DEF Item
      <3>3. Merge(o.reply.obj.val, l[n + 1].val) \in V
        BY <3>2, MergeIs
      <3> QED
        BY <3>2, <3>3 DEF Item
    <2>4. bulk' = [bulk EXCEPT !.list = [l EXCEPT ![n + 1] = new], !.done = n + 1, !.left = m - 1]
      BY <1>3, <1>5, <1>6, <1>7 DEF BulkRecord
    <2> HIDE DEF new
    <2>5. PICK w \in Seq(Item(Object)) : w = [l EXCEPT ![n + 1] = new]
      <3>1. new \in Item(Object)
        BY <2>3, KindIs
      <3>2. [l EXCEPT ![n + 1] = new] \in Seq(Item(Object))
        BY <2>2, <3>1
      <3> QED
        BY <3>2
    <2>6. Len(w) = Len(l) /\ \A i \in 1..Len(l) : w[i] = IF i = n + 1 THEN new ELSE l[i]
      BY <2>2, <2>5
    <2>7. bulk' = [pc |-> "merging", list |-> w, done |-> n + 1, left |-> m - 1]
      BY <1>2, <1>5, <2>4, <2>5 DEF BulkRecord
    <2>8. ASSUME NEW i \in 1..(n + 1) PROVE w[i] \in Item(V)
      <3>1. i \in 1..Len(l)
        BY <2>2
      <3>2. CASE i = n + 1
        BY <2>3, <2>6, <3>1, <3>2
      <3>3. CASE i # n + 1
        <4>1. i \in 1..n
          BY <3>3
        <4> QED
          BY <1>6, <2>6, <3>1, <3>3, <4>1
      <3> QED
        BY <3>2, <3>3
    <2>9. n + 1 \in Nat /\ (n + 1) + (m - 1) <= Len(w) /\ "merging" \in BulkPlaces
      BY <1>6, <2>2, <2>6 DEF BulkPlaces
    <2>10. \A b : b = [pc |-> "merging", list |-> w, done |-> n + 1, left |-> m - 1] => BulkOk(b, V)
      BY <2>2, <2>8, <2>9, BulkOkOf
    <2>11. BulkOk(bulk', V)
      BY <2>7, <2>10
    <2>12. PipeTyped(V)' /\ DOMAIN held' = DOMAIN held /\ held'["bulk"] = o.conn
      BY <1>1, <1>3, <1>4, <1>5, <1>7, BulkOnTyped
    <2>13. BulkTyped(V)'
      BY <1>4, <2>11, <2>12, BulkTypedNext
    <2> QED
      BY <1>1, <2>12, <2>13, SyncIdle
  <1>8. CASE o.reply.is # "object"
    <2>1. BulkRelease(o.conn) /\ gaveUp' = (gaveUp \/ (o.reply # NoReply /\ bulk.left > 1))
      BY <1>3, <1>8
    <2>2. PipeTyped(V)' /\ DOMAIN held' = DOMAIN held \ {"bulk"}
      BY <1>1, <1>3, <1>4, <1>5, <2>1, BulkOffTyped
    <2>3. CASE o.reply # NoReply
      <3>1. BulkReturns
        BY <1>3, <1>8, <2>3
      <3>2. BulkTyped(V)'
        BY <1>1, <3>1, BulkReturned, BulkTypedNext
      <3> QED
        BY <1>1, <2>2, <3>2, SyncIdle
    <2>4. CASE o.reply = NoReply
      <3>1. V = Object
        BY <1>4, <2>4
      <3>2. bulk' = [pc |-> "store", list |-> l, done |-> n, left |-> 0]
        BY <1>3, <1>5, <1>6, <1>8, <2>4 DEF BulkRecord
      <3>3. "store" \in BulkPlaces /\ n + 0 <= Len(l) /\ 0 \in Nat
        BY <1>6 DEF BulkPlaces
      <3>4. \A b : b = [pc |-> "store", list |-> l, done |-> n, left |-> 0] => BulkOk(b, V)
        BY <3>1, <3>3, BulkOkOf
      <3>5. BulkOk(bulk', V) /\ bulk'.pc = "store"
        BY <3>2, <3>4
      <3>6. BulkTyped(V)'
        BY <3>5, BulkTypedNext
      <3> QED
        BY <1>1, <2>2, <3>6, SyncIdle
    <2> QED
      BY <2>3, <2>4
  <1> QED
    BY <1>7, <1>8

\* One reply of a range less, on the same connection.
LEMMA BulkOnOk ==
    ASSUME NEW V, BulkOk(bulk, V), bulk.pc \notin {"idle", "store", "merging"}, bulk.left > 0,
           bulk' = [bulk EXCEPT !.done = @ + 1, !.left = @ - 1]
    PROVE  BulkOk(bulk', V) /\ bulk'.pc = bulk.pc
  <1>1. bulk \in BulkRecord
    BY BulkHas
  <1>2. PICK n \in Nat, m \in Nat, l \in Seq(Item(Object)) :
            n = bulk.done /\ m = bulk.left /\ l = bulk.list /\ n + m <= Len(l) /\ m > 0
    BY BulkHas
  <1>3. n + 1 \in Nat /\ m - 1 \in Nat /\ (n + 1) + (m - 1) <= Len(l)
    BY <1>2
  <1>4. bulk' = [pc |-> bulk.pc, list |-> l, done |-> n + 1, left |-> m - 1]
    BY <1>1, <1>2 DEF BulkRecord
  <1>5. bulk.pc \in BulkPlaces /\ (bulk.pc \in {"store", "storing"} => l \in Seq(Item(V)))
    BY <1>2, BulkHas DEF BulkOk
  <1>6. \A b : b = [pc |-> bulk.pc, list |-> l, done |-> n + 1, left |-> m - 1] => BulkOk(b, V)
    BY <1>3, <1>5, BulkOkOf
  <1> QED
    BY <1>4, <1>6

\* StoreReply keeps the types.
LEMMA StoreReplyTyped ==
    ASSUME NEW V, Kind(V), TypedFor(V), Taken, sync' = sync, StoreReply
    PROVE  TypedFor(V)' /\ Taken'
  <1>1. PipeTyped(V) /\ BulkTyped(V) /\ SyncOk(sync, V) /\ BulkOk(bulk, V)
    BY TypedHas, BulkTypedIs
  <1>2. bulk.pc = "storing" /\ bulk.left > 0 /\ UNCHANGED <<calls, gaveUp>>
    BY DEF StoreReply
  <1>3. PICK o \in ResponseOutcomes(Dst, held["bulk"]) :
          /\ db' = [db EXCEPT ![Dst] = o.db]
          /\ touched' = touched \cup {"stored"}
          /\ Note("bulk", o)
          /\ IF o.reply # NoReply
             THEN /\ bulk' = [bulk EXCEPT !.done = @ + 1, !.left = @ - 1]
                  /\ With("bulk", o.conn)
                  /\ UNCHANGED pool
             ELSE BulkReturns /\ BulkRelease(o.conn)
    BY DEF StoreReply
  <1>4. /\ o.conn \in Conn(V) /\ o.db \in Database(V)
        /\ "bulk" \in DOMAIN held
        /\ lostBy' \in SUBSET Threads /\ lostBy \subseteq lostBy'
        /\ o.conn.up \/ "bulk" \in lostBy'
        /\ [db EXCEPT ![Dst] = o.db] \in [Addrs -> Database(V)]
    BY <1>1, <1>2, <1>3, BulkResponse
  <1>5. touched' \in SUBSET {"stored", "deleted"} /\ gaveUp' \in BOOLEAN
    BY <1>1, <1>2, <1>3 DEF PipeTyped
  <1>6. CASE o.reply # NoReply
    <2>1. bulk' = [bulk EXCEPT !.done = @ + 1, !.left = @ - 1] /\ With("bulk", o.conn) /\ pool' = pool
      BY <1>3, <1>6
    <2>2. BulkOk(bulk', V) /\ bulk'.pc = bulk.pc
      BY <1>1, <1>2, <2>1, BulkOnOk
    <2>3. PipeTyped(V)' /\ DOMAIN held' = DOMAIN held /\ held'["bulk"] = o.conn
      BY <1>1, <1>2, <1>3, <1>4, <1>5, <2>1, BulkOnTyped
    <2>4. BulkTyped(V)'
      BY <1>4, <2>2, <2>3, BulkTypedNext
    <2> QED
      BY <1>1, <2>3, <2>4, SyncIdle
  <1>7. CASE o.reply = NoReply
    <2>1. BulkReturns /\ BulkRelease(o.conn)
      BY <1>3, <1>7
    <2>2. PipeTyped(V)' /\ DOMAIN held' = DOMAIN held \ {"bulk"}
      BY <1>1, <1>3, <1>4, <1>5, <2>1, BulkOffTyped
    <2>3. BulkTyped(V)'
      BY <1>1, <2>1, BulkReturned, BulkTypedNext
    <2> QED
      BY <1>1, <2>2, <2>3, SyncIdle
  <1> QED
    BY <1>6, <1>7

\* ReadOn keeps the types.
LEMMA ReadOnTyped ==
    ASSUME NEW V, Kind(V), TypedFor(V), Taken, sync' = sync, ReadOn
    PROVE  TypedFor(V)' /\ Taken'
  <1>1. PipeTyped(V) /\ BulkTyped(V) /\ SyncOk(sync, V) /\ BulkOk(bulk, V)
    BY TypedHas, BulkTypedIs
  <1>2. bulk.pc \in {"deleting", "getting"} /\ bulk.left > 0 /\ UNCHANGED <<pool, calls, gaveUp>>
    BY DEF ReadOn
  <1>3. PICK o \in ResponseOutcomes(Dst, held["bulk"]) :
          /\ db' = [db EXCEPT ![Dst] = o.db]
          /\ touched' = IF bulk.pc = "deleting" THEN touched \cup {"deleted"} ELSE touched
          /\ Note("bulk", o)
          /\ bulk' = [bulk EXCEPT !.done = @ + 1, !.left = @ - 1]
          /\ With("bulk", o.conn)
    BY DEF ReadOn
  <1>4. /\ o.conn \in Conn(V) /\ o.db \in Database(V)
        /\ "bulk" \in DOMAIN held
        /\ lostBy' \in SUBSET Threads /\ lostBy \subseteq lostBy'
        /\ o.conn.up \/ "bulk" \in lostBy'
        /\ [db EXCEPT ![Dst] = o.db] \in [Addrs -> Database(V)]
    BY <1>1, <1>2, <1>3, BulkResponse
  <1>5. touched' \in SUBSET {"stored", "deleted"}
    BY <1>1, <1>2, <1>3 DEF PipeTyped
  <1>6. BulkOk(bulk', V) /\ bulk'.pc = bulk.pc
    BY <1>1, <1>2, <1>3, BulkOnOk
  <1>7. PipeTyped(V)' /\ DOMAIN held' = DOMAIN held /\ held'["bulk"] = o.conn
    BY <1>1, <1>2, <1>3, <1>4, <1>5, BulkOnTyped
  <1>8. BulkTyped(V)'
    BY <1>4, <1>6, <1>7, BulkTypedNext
  <1> QED
    BY <1>1, <1>7, <1>8, SyncIdle

\* BulkDone keeps the types.
LEMMA BulkDoneTyped ==
    ASSUME NEW V, Kind(V), TypedFor(V), Taken, sync' = sync, BulkDone
    PROVE  TypedFor(V)' /\ Taken'
  <1>1. PipeTyped(V) /\ BulkTyped(V) /\ SyncOk(sync, V) /\ BulkOk(bulk, V)
    BY TypedHas, BulkTypedIs
  <1>2. /\ bulk.pc \notin {"idle", "store"} /\ bulk.left = 0 /\ bulk.done = Len(bulk.list)
        /\ BulkRelease(held["bulk"])
        /\ IF bulk.pc = "merging" THEN bulk' = [bulk EXCEPT !.pc = "store"] ELSE BulkReturns
        /\ UNCHANGED <<db, troubles, calls, lostBy, gaveUp, touched>>
    BY DEF BulkDone
  <1>3. "bulk" \in DOMAIN held
    BY <1>1, <1>2, BulkTypedIs
  <1>4. /\ held["bulk"] \in Conn(V) /\ db \in [Addrs -> Database(V)] /\ lostBy \in SUBSET Threads
        /\ gaveUp \in BOOLEAN /\ touched \in SUBSET {"stored", "deleted"}
    BY <1>1, <1>3 DEF PipeTyped
  <1>5. PipeTyped(V)' /\ DOMAIN held' = DOMAIN held \ {"bulk"}
    BY <1>1, <1>2, <1>4, BulkOffTyped
  <1>6. BulkOk(bulk', V) /\ bulk'.pc \in {"idle", "store"}
    <2>1. CASE bulk.pc # "merging"
      BY <1>1, <1>2, <2>1, BulkReturned
    <2>2. CASE bulk.pc = "merging"
      <3>1. bulk \in BulkRecord /\ bulk.left \in Nat
        BY <1>1, BulkHas
      <3>2. PICK n \in Nat, l \in Seq(Item(Object)) :
               n = bulk.done /\ l = bulk.list /\ n = Len(l) /\ \A i \in 1..n : l[i] \in Item(V)
        BY <1>1, <1>2, <2>2, BulkHas DEF BulkOk
      <3>3. l \in Seq(Item(V))
        BY <3>2
      <3>4. bulk' = [pc |-> "store", list |-> l, done |-> n, left |-> 0]
        BY <1>2, <2>2, <3>1, <3>2 DEF BulkRecord
      <3>5. "store" \in BulkPlaces /\ 0 \in Nat /\ n + 0 <= Len(l)
        BY <3>2 DEF BulkPlaces
      <3>6. \A b : b = [pc |-> "store", list |-> l, done |-> n, left |-> 0] => BulkOk(b, V)
        BY <3>3, <3>5, BulkOkOf
      <3> QED
        BY <3>4, <3>6
    <2> QED
      BY <2>1, <2>2
  <1>7. BulkTyped(V)'
    BY <1>6, BulkTypedNext
  <1> QED
    BY <1>1, <1>5, <1>7, SyncIdle

\* OtherProcess keeps the types.
LEMMA OtherProcessTyped ==
    ASSUME NEW V, Kind(V), TypedFor(V), Taken, sync' = sync, OtherProcess
    PROVE  TypedFor(V)' /\ Taken'
  <1>1. PipeTyped(V) /\ BulkTyped(V) /\ SyncOk(sync, V)
    BY TypedHas
  <1>2. PICK a \in Addrs, k \in Keys, v \in Stored \cup {Absent} :
          /\ db' = [db EXCEPT ![a][k] = IF v = Absent THEN NoHash ELSE [@ EXCEPT !.obj = v]]
          /\ touched' = touched \cup {IF v = Absent THEN "deleted" ELSE "stored"}
    BY DEF OtherProcess
  <1>3. UNCHANGED <<pool, held, bulk, calls, lostBy, gaveUp>>
    BY DEF OtherProcess
  <1>4. v \in V \cup {Absent}
    BY KindIs
  <1>5. db \in [Addrs -> Database(V)] /\ db[a] \in Database(V)
    BY <1>1 DEF PipeTyped
  <1>6. PICK d \in Database(V) : d = [db[a] EXCEPT ![k] = IF v = Absent THEN NoHash ELSE [@ EXCEPT !.obj = v]]
    BY <1>4, <1>5 DEF Database, NoHash
  <1>7. db' = [db EXCEPT ![a] = d]
    BY <1>2, <1>5, <1>6
  <1>8. db' \in [Addrs -> Database(V)]
    BY <1>5, <1>7
  <1>9. touched' \in SUBSET {"stored", "deleted"}
    BY <1>1, <1>2 DEF PipeTyped
  <1>10. PipeTyped(V)'
    BY <1>1, <1>3, <1>8, <1>9 DEF PipeTyped
  <1>11. BulkTyped(V)'
    BY <1>1, <1>3, BulkKept
  <1> QED
    BY <1>1, <1>3, <1>10, <1>11, SyncIdle

-----------------------------------------------------------------------------
(* The types hold *)

\* The types at first.
LEMMA InitTyped ==
    ASSUME Init, NEW V, Kind(V)
    PROVE  TypedFor(V) /\ Taken
  <1>1. PICK b \in Beginnings :
          db = [a \in Addrs |-> [k \in Keys |->
                   [NoHash EXCEPT !.obj = IF a = Src THEN b[k][1] ELSE b[k][2]]]]
    BY DEF Init, PipeInit
  <1>2. /\ pool = [a \in Addrs |-> <<>>] /\ held = <<>>
        /\ bulk = [pc |-> "idle", list |-> <<>>, done |-> 0, left |-> 0]
        /\ lostBy = {} /\ gaveUp = FALSE /\ touched = {}
        /\ sync = [pc |-> "idle", list |-> FALSE, objs |-> <<>>, keys |-> <<>>, cache |-> <<>>,
                   src |-> Blank, dest |-> Blank, found |-> FALSE, rc |-> "none",
                   agreed |-> TRUE]
    BY DEF Init, PipeInit
  <1>3. \A k \in Keys : b[k] \in (Stored \cup {Absent}) \X (Stored \cup {Absent})
    BY PipelineAssumption
  <1>4. \A k \in Keys : b[k][1] \in V \cup {Absent} /\ b[k][2] \in V \cup {Absent}
    BY <1>3, KindIs
  <1>5. db \in [Addrs -> Database(V)]
    BY <1>1, <1>4 DEF Database, NoHash
  <1>6. <<>> \in Seq(OpenConn(V)) /\ <<>> \in Seq(Item(Object)) /\ <<>> \in Seq(Item(V)) /\ Len(<<>>) = 0
        /\ DOMAIN <<>> = {}
    OBVIOUS
  <1>7. PipeTyped(V)
    <2>1. pool \in [Addrs -> Seq(OpenConn(V))]
      BY <1>2, <1>6
    <2>2. DOMAIN held = {} /\ held \in [DOMAIN held -> Conn(V)]
      BY <1>2
    <2> QED
      BY <1>2, <1>5, <2>1, <2>2 DEF PipeTyped
  <1>8. BulkTyped(V)
    <2>1. BulkOk(bulk, V)
      BY <1>2, <1>6 DEF BulkOk, BulkRecord, BulkPlaces
    <2> QED
      BY <1>2, <2>1, BulkTypedIs
  <1>9. SyncOk(sync, V)
    <2>1. sync \in SyncRecord(V)
      BY <1>2, BlankIs, EmptyWalk DEF SyncRecord, Places
    <2> QED
      BY <1>2, <2>1, EmptyWalk DEF SyncOk, Answering, Comparing
  <1>10. Taken
    BY <1>2, <1>6 DEF Taken, Needs
  <1> QED
    BY <1>7, <1>8, <1>9, <1>10 DEF TypedFor

\* Losses of the bulk operations are remembered.
LEMMA LossRemembered ==
    ASSUME [Next]_vars, "bulk" \in lostBy
    PROVE  "bulk" \in lostBy'
  <1>1. CASE lostBy' = lostBy
    BY <1>1
  <1>2. ASSUME NEW thread, NEW o, Note(thread, o) PROVE "bulk" \in lostBy'
    BY <1>2 DEF Note
  <1>3. ASSUME NEW role, NEW o, Uses(role, o) PROVE "bulk" \in lostBy'
    BY <1>2, <1>3 DEF Uses
  <1>4. CASE UNCHANGED vars
    BY <1>4 DEF vars, pipeVars
  <1>5. CASE PipeStep
    <2>1. ASSUME NEW pc, BulkConnect(pc) PROVE "bulk" \in lostBy'
      BY <1>2, <2>1 DEF BulkConnect
    <2>2. CASE BulkSend
      BY <1>1, <2>2 DEF BulkSend
    <2>8. CASE BulkSendRetried \/ BulkSendFails
      BY <2>8 DEF BulkSendRetried, BulkSendFails
    <2>3. CASE MergeReply
      BY <1>2, <2>3 DEF MergeReply
    <2>4. CASE StoreReply
      BY <1>2, <2>4 DEF StoreReply
    <2>5. CASE ReadOn
      BY <1>2, <2>5 DEF ReadOn
    <2>6. CASE BulkDone
      BY <1>1, <2>6 DEF BulkDone
    <2>7. CASE OtherProcess
      BY <1>1, <2>7 DEF OtherProcess
    <2> QED
      BY <1>5, <2>1, <2>2, <2>3, <2>4, <2>5, <2>6, <2>7, <2>8 DEF PipeStep
  <1>6. CASE SyncStep
    <2>1. CASE Start
      BY <2>1 DEF Start
    <2>2. ASSUME NEW role, Open(role) PROVE "bulk" \in lostBy'
      BY <1>2, <2>2 DEF Open
    <2>3. ASSUME NEW pc, NEW role, NEW then, Walk(pc, role, then) PROVE "bulk" \in lostBy'
      BY <1>3, <2>3 DEF Walk
    <2>4. ASSUME NEW pc, NEW role, NEW cmd, NEW then, Fill(pc, role, cmd, then) PROVE "bulk" \in lostBy'
      BY <1>1, <2>4 DEF Fill
    <2>5. CASE MarkReply \/ Ping \/ DestReply \/ SourceReply \/ MarkedReply \/ Load \/ Delete \/ Unmark
      BY <1>3, <2>5 DEF MarkReply, Ping, DestReply, SourceReply, MarkedReply, Load, Delete, Unmark
    <2>6. CASE Marked \/ RequestBoth \/ SourceDone \/ DeleteDone \/ Return
      BY <1>1, <2>6 DEF Marked, RequestBoth, SourceDone, DeleteDone, Return, pipeVars
    <2>7. CASE RequestListed
      BY <1>1, <2>4, <2>7 DEF RequestListed, pipeVars
    <2>8. CASE Compare
      BY <1>2, <2>8 DEF Compare
    <2>9. CASE Apply
      BY <1>1, <1>3, <2>9 DEF Apply, pipeVars
    <2>10. ASSUME NEW pc, NEW role, NEW cmd, NEW then,
                  FillRetried(pc, role, cmd, then) \/ FillFails(pc, role)
           PROVE  "bulk" \in lostBy'
      BY <2>10 DEF FillRetried, FillFails
    <2>11. CASE SendMarksRetried \/ SendMarksFails \/ SendMarkedRetried \/ SendMarkedFails \/ RequestListedRetried
      BY <2>10, <2>11
      DEF SendMarksRetried, SendMarksFails, SendMarkedRetried, SendMarkedFails, RequestListedRetried
    <2>12. CASE RequestListedFails \/ RequestBothRetried
      BY <2>12 DEF RequestListedFails, RequestBothRetried
    <2> QED
      BY <1>6, <2>1, <2>2, <2>3, <2>4, <2>5, <2>6, <2>7, <2>8, <2>9, <2>11, <2>12
      DEF SyncStep, ScanDestination, ScanSource, ScanMarked, SendMarks, SendMarked
  <1> QED
    BY <1>4, <1>5, <1>6 DEF Next

\* Every step keeps the types, for either set of values.
LEMMA NextTyped ==
    ASSUME NEW V, Kind(V), TypedFor(V), Taken, [Next]_vars, V = Object \/ "bulk" \notin lostBy'
    PROVE  TypedFor(V)' /\ Taken'
  <1>1. CASE UNCHANGED vars
    <2>1. sync' = sync /\ UNCHANGED pipeVars
      BY <1>1 DEF vars
    <2>2. PipeTyped(V)' /\ BulkTyped(V)' /\ held' = held
      BY <2>1, TypedHas, NoKeep
    <2> QED
      BY <2>1, <2>2, TypedHas, SyncIdle
  <1>2. CASE PipeStep /\ UNCHANGED sync
    <2>1. sync' = sync
      BY <1>2
    <2>2. CASE \E pc \in {"merging", "storing", "deleting", "getting"} : BulkConnect(pc)
      BY <2>1, <2>2, BulkConnectTyped
    <2>3. CASE BulkSend
      BY <2>1, <2>3, BulkSendTyped
    <2>4. CASE MergeReply
      BY <2>1, <2>4, MergeReplyTyped
    <2>5. CASE StoreReply
      BY <2>1, <2>5, StoreReplyTyped
    <2>6. CASE ReadOn
      BY <2>1, <2>6, ReadOnTyped
    <2>7. CASE BulkDone
      BY <2>1, <2>7, BulkDoneTyped
    <2>8. CASE OtherProcess
      BY <2>1, <2>8, OtherProcessTyped
    <2>9. CASE BulkSendRetried
      BY <2>1, <2>9, BulkSendRetriedTyped
    <2>10. CASE BulkSendFails
      BY <2>1, <2>10, BulkSendFailsTyped
    <2> QED
      BY <1>2, <2>2, <2>3, <2>4, <2>5, <2>6, <2>7, <2>8, <2>9, <2>10 DEF PipeStep
  <1>3. CASE SyncStep
    <2>1. CASE \E role \in DOMAIN Opens : Open(role)
      BY <2>1, OpenTyped, OpensAre
    <2>2. CASE ScanDestination \/ ScanSource \/ ScanMarked
      BY <2>2, WalkTyped DEF ScanDestination, ScanSource, ScanMarked
    <2>3. CASE SendMarks \/ SendMarked
      BY <2>3, FillTyped DEF SendMarks, SendMarked
    <2>4. CASE Start \/ Return \/ Marked \/ SourceDone \/ DeleteDone
      BY <2>4, StartTyped, ReturnTyped, MarkedTyped, SourceDoneTyped, DeleteDoneTyped
    <2>5. CASE MarkReply \/ Ping \/ DestReply \/ SourceReply
      BY <2>5, MarkReplyTyped, PingTyped, DestReplyTyped, SourceReplyTyped
    <2>6. CASE RequestListed \/ RequestBoth \/ Compare \/ Apply
      BY <2>6, RequestListedTyped, RequestBothTyped, CompareTyped, ApplyTyped
    <2>7. CASE MarkedReply \/ Load \/ Delete \/ Unmark
      BY <2>7, MarkedReplyTyped, LoadTyped, DeleteTyped, UnmarkTyped
    <2>8. CASE SendMarksRetried \/ SendMarkedRetried \/ RequestListedRetried
      <3>1. CASE SendMarksRetried
        BY <3>1, FillRetriedTyped DEF SendMarksRetried
      <3>2. CASE SendMarkedRetried
        BY <3>2, FillRetriedTyped DEF SendMarkedRetried
      <3>3. CASE RequestListedRetried
        BY <3>3, FillRetriedTyped DEF RequestListedRetried
      <3> QED
        BY <2>8, <3>1, <3>2, <3>3
    <2>9. CASE SendMarksFails \/ SendMarkedFails
      BY <2>9, FillFailsTyped DEF SendMarksFails, SendMarkedFails
    <2>10. CASE RequestListedFails \/ RequestBothRetried
      BY <2>10, RequestListedFailsTyped, RequestBothRetriedTyped
    <2> QED
      BY <1>3, <2>1, <2>2, <2>3, <2>4, <2>5, <2>6, <2>7, <2>8, <2>9, <2>10 DEF SyncStep
  <1> QED
    BY <1>1, <1>2, <1>3 DEF Next

\* TypedInv holds at first.
LEMMA TypedInit == Init => TypedInv
  BY InitTyped DEF TypedInv, Kind

\* Every step keeps TypedInv.
LEMMA TypedNext == TypedInv /\ [Next]_vars => TypedInv'
  <1> SUFFICES ASSUME TypedInv, [Next]_vars PROVE TypedInv'
    OBVIOUS
  <1>1. Kind(Object) /\ Kind(Complete)
    BY DEF Kind
  <1>2. TypedFor(Object)' /\ Taken'
    BY <1>1, NextTyped DEF TypedInv
  <1>3. "bulk" \notin lostBy' => TypedFor(Complete)'
    BY <1>1, NextTyped, LossRemembered DEF TypedInv
  <1> QED
    BY <1>2, <1>3 DEF TypedInv

\* What is stored, sent and read are objects, and complete ones until a bulk
\* operation has lost a connection.
THEOREM SyncTypeInvariant == Spec => []TypedInv
  BY TypedInit, TypedNext, PTL DEF Spec

\* AttributesKept: no stored object loses attributes.
THEOREM AttributesStayKept == Spec => []AttributesKept
  <1>1. TypedInv => AttributesKept
    <2> SUFFICES ASSUME TypedInv, "bulk" \notin lostBy, NEW a \in Addrs, NEW k \in Keys
                 PROVE  db[a][k].obj \in Complete \cup {Absent}
      BY DEF AttributesKept
    <2>1. PipeTyped(Complete)
      BY DEF TypedInv, TypedFor
    <2>2. db[a] \in Database(Complete)
      BY <2>1 DEF PipeTyped
    <2> QED
      BY <2>2 DEF Database
  <1> QED
    BY <1>1, SyncTypeInvariant, PTL

-----------------------------------------------------------------------------
(* Replies that are due *)

\* The requests after the first.
LEMMA RequestsTail ==
    ASSUME NEW keys \in Seq(Keys), NEW cmd
    PROVE  /\ Requests(cmd, <<>>) = <<>>
           /\ keys # <<>> => /\ Requests(cmd, keys) # <<>>
                             /\ Head(Requests(cmd, keys)) = Request(cmd, Head(keys))
                             /\ Tail(Requests(cmd, keys)) = Requests(cmd, Tail(keys))
  <1>1. Requests(cmd, <<>>) = <<>>
    BY DEF Requests
  <1>2. ASSUME keys # <<>>
        PROVE  /\ Requests(cmd, keys) # <<>>
               /\ Head(Requests(cmd, keys)) = Request(cmd, Head(keys))
               /\ Tail(Requests(cmd, keys)) = Requests(cmd, Tail(keys))
    <2> DEFINE n == Len(keys)
               s == Requests(cmd, keys)
               S == {Request(cmd, k) : k \in Keys}
    <2>1. n \in Nat /\ n >= 1 /\ DOMAIN keys = 1..n /\ \A i \in 1..n : keys[i] \in Keys
      BY <1>2, SeqEmpty
    <2>2. s = [i \in 1..n |-> Request(cmd, keys[i])]
      BY <2>1 DEF Requests
    <2>3. s \in [1..n -> S]
      BY <2>1, <2>2
    <2> HIDE DEF s, S
    <2>4. s \in Seq(S) /\ Len(s) = n
      BY <2>1, <2>3
    <2>5. s # <<>>
      BY <2>1, <2>4
    <2>6. Head(s) = s[1] /\ Tail(s) \in Seq(S) /\ Len(Tail(s)) = n - 1 /\ \A i \in 1..(n - 1) : Tail(s)[i] = s[i + 1]
      BY <2>4, <2>5, SeqTail
    <2>7. Tail(keys) \in Seq(Keys) /\ Len(Tail(keys)) = n - 1 /\ Head(keys) = keys[1]
          /\ \A i \in 1..(n - 1) : Tail(keys)[i] = keys[i + 1]
      BY <1>2, SeqTail
    <2>8. s[1] = Request(cmd, keys[1]) /\ \A i \in 1..(n - 1) : s[i + 1] = Request(cmd, keys[i + 1])
      BY <2>1, <2>2
    <2> DEFINE t == Requests(cmd, Tail(keys))
    <2>9. t = [i \in 1..(n - 1) |-> Request(cmd, Tail(keys)[i])]
      BY <2>1, <2>7 DEF Requests
    <2> HIDE DEF t
    <2>10. ASSUME NEW u \in Seq(S), Len(u) = n - 1 PROVE u = [i \in 1..(n - 1) |-> u[i]]
      BY <2>1, <2>10
    <2>11. Tail(s) = [i \in 1..(n - 1) |-> Tail(s)[i]]
      BY <2>6, <2>10, Zenon
    <2>12. Tail(s) = t
      BY <2>11, <2>9, <2>6, <2>7, <2>8
    <2> QED
      BY <2>5, <2>6, <2>7, <2>8, <2>12 DEF s, t
  <1> QED
    BY <1>1, <1>2

\* A connection still owes the same when more are lost.
LEMMA ServedMore ==
    ASSUME NEW c, NEW due, NEW thread, NEW lost, NEW more, lost \subseteq more, Served(c, due, thread, lost)
    PROVE  Served(c, due, thread, more)
  BY DEF Served

\* A connection that owes nothing is clean.
LEMMA ServedNone ==
    ASSUME NEW V, NEW c \in Conn(V), NEW thread, NEW lost
    PROVE  /\ Served(c, <<>>, thread, lost) => Clean(c)
           /\ Clean(c) /\ (c.up \/ thread \in lost) => Served(c, <<>>, thread, lost)
  BY OutstandingTyped DEF Served

\* response() takes the reply to the first request that is due.
LEMMA ServedResponse ==
    ASSUME NEW V, NEW a, NEW c \in Conn(V), db[a] \in Database(V), NEW due, due # <<>>,
           NEW thread \in Threads, lostBy \in SUBSET Threads, Served(c, due, thread, lostBy),
           NEW o \in ResponseOutcomes(a, c), Note(thread, o)
    PROVE  /\ Served(o.conn, Tail(due), thread, lostBy')
           /\ o.reply # NoReply => o.reply.of = Head(due) /\ Outstanding(c) = due
           /\ o.reply = NoReply => Clean(o.conn) /\ thread \in lostBy'
  <1>1. lostBy \subseteq lostBy' /\ (o.lost => thread \in lostBy')
    BY NoteIs
  <1>2. Replied(a, c, o) \/ TimedOut(a, c, o) \/ Failed(a, c, o) \/ NotSent(a, c, o)
    BY ResponseIs
  <1>3. CASE Replied(a, c, o)
    <2>1. Outstanding(c) # <<>> /\ o.conn.up /\ Outstanding(o.conn) = Tail(Outstanding(c))
          /\ o.reply.of = Head(Outstanding(c))
      BY <1>3 DEF Replied
    <2>2. Outstanding(c) = due
      BY <2>1, OutstandingTyped DEF Served
    <2>3. o.reply # NoReply
      BY <1>3, RepliedReply, ReplyHas
    <2> QED
      BY <2>1, <2>2, <2>3 DEF Served
  <1>4. CASE TimedOut(a, c, o)
    <2>1. Outstanding(c) = <<>> /\ Clean(o.conn) /\ o.reply = NoReply
      BY <1>4, OutstandingTyped DEF TimedOut
    <2> QED
      BY <1>1, <2>1 DEF Served
  <1>5. CASE Failed(a, c, o)
    BY <1>1, <1>5 DEF Served, Failed
  <1>6. CASE NotSent(a, c, o)
    <2>1. Clean(o.conn) /\ o.reply = NoReply /\ thread \in lostBy
      BY <1>6, ConnHas DEF Served, NotSent
    <2> QED
      BY <1>1, <2>1 DEF Served
  <1> QED
    BY <1>2, <1>3, <1>4, <1>5, <1>6

\* command() leaves nothing behind.
LEMMA ServedCommand ==
    ASSUME NEW V, NEW a, NEW c \in Conn(V), db[a] \in Database(V), NEW r \in Req(V),
           NEW thread \in Threads, lostBy \in SUBSET Threads, Served(c, <<>>, thread, lostBy),
           NEW o \in CommandOutcomes(a, c, r), Note(thread, o)
    PROVE  Served(o.conn, <<>>, thread, lostBy')
  <1>1. lostBy \subseteq lostBy' /\ (o.lost => thread \in lostBy')
    BY NoteIs
  <1>2. Clean(c)
    BY ServedNone
  <1>3. /\ o.conn \in Conn(V) /\ Clean(o.conn)
        /\ o.conn.up \/ o.lost \/ ~c.up
    BY <1>2, CommandIs
  <1>4. o.conn.up \/ thread \in lostBy'
    BY <1>1, <1>3 DEF Served
  <1> QED
    BY <1>3, <1>4, ServedNone

-----------------------------------------------------------------------------
(* What is due *)

\* Nothing is due outside of a pipeline.
LEMMA NothingDue ==
    ASSUME NEW s, s.pc \notin Answering, NEW role
    PROVE  SyncDue(role, s) = <<>>
  <1>1. Pending(role, s) = <<>>
    BY DEF Pending, AllDue, RestDue, Answering
  <1> QED
    BY <1>1, EmptyWalk, RequestsTail DEF SyncDue

\* What is due depends on the pending keys.
LEMMA DueOf ==
    ASSUME NEW s, NEW t, NEW role, Pending(role, s) = Pending(role, t)
    PROVE  SyncDue(role, s) = SyncDue(role, t)
  BY DEF SyncDue

\* The first reply is taken.
LEMMA DueTaken ==
    ASSUME NEW s, NEW t, NEW role, Pending(role, s) \in Seq(Keys), Pending(role, s) # <<>>,
           Pending(role, t) = Tail(Pending(role, s))
    PROVE  SyncDue(role, s) # <<>> /\ SyncDue(role, t) = Tail(SyncDue(role, s))
  BY RequestsTail DEF SyncDue

\* No pending key, no reply.
LEMMA DueNone ==
    ASSUME NEW s, NEW role, Pending(role, s) = <<>>
    PROVE  SyncDue(role, s) = <<>>
  BY EmptyWalk, RequestsTail DEF SyncDue

\* The reply of these connections is taken, or none.
Takers(pc) ==
    CASE pc = "mark reply" -> {"marks"} [] pc = "source reply" -> {"source_get"}
      [] pc = "marked reply" -> {"delete_meta"} [] OTHER -> {}

\* The places that wait for the next reply, or else for the next pipeline.
Replying(s, reply, request) ==
    \/ reply = "mark reply" /\ request = "mark" /\ s.pc = "mark reply"
    \/ reply = "marked reply" /\ request = "marked" /\ s.pc \in {"marked reply", "load", "unmark"}
    \/ reply = "dest reply" /\ request = "request" /\ s.pc \in {"source reply", "compare", "apply"}

\* On to the next reply: the pending keys.
LEMMA PendingNext ==
    ASSUME NEW V, NEW s, SyncOk(s, V), NEW t, NEW reply, NEW request, t = NextReply(s, reply, request),
           Replying(s, reply, request)
    PROVE  /\ \A role \in Takers(s.pc) :
                 Pending(role, s) = s.cache /\ Pending(role, t) = Tail(s.cache)
           /\ \A role : role \notin Takers(s.pc) => Pending(role, t) = Pending(role, s)
  <1>1. s.cache \in Seq(Keys) /\ s.cache # <<>> /\ s \in SyncRecord(V) /\ (s.pc = "source reply" => ~s.list)
    BY SyncHas DEF SyncOk, Answering, Replying
  <1>2. Tail(s.cache) # <<>> <=> Len(s.cache) > 1
    BY <1>1, RestOf
  <1>3. /\ Len(s.cache) > 1 => t.pc = reply
        /\ ~(Len(s.cache) > 1) => t.pc = request
        /\ t.list = s.list /\ t.cache = Tail(s.cache)
    BY <1>1 DEF NextReply, SyncRecord
  <1>4. t.pc = reply \/ (t.pc = request /\ t.cache = <<>>)
    BY <1>2, <1>3
  <1>5. CASE s.pc = "mark reply"
    BY <1>3, <1>4, <1>5 DEF Pending, AllDue, RestDue, Takers, Replying
  <1>6. CASE s.pc = "source reply"
    BY <1>1, <1>3, <1>4, <1>6 DEF Pending, AllDue, RestDue, Takers, Replying
  <1>7. CASE s.pc = "marked reply"
    BY <1>3, <1>4, <1>7 DEF Pending, AllDue, RestDue, Takers, Replying
  <1>8. CASE s.pc \in {"load", "unmark", "compare", "apply"}
    BY <1>3, <1>4, <1>8 DEF Pending, AllDue, RestDue, Takers, Replying
  <1> QED
    BY <1>5, <1>6, <1>7, <1>8 DEF Replying

\* Other moves and the pending keys.
LEMMA PendingMoved ==
    ASSUME NEW s, NEW t, t.list = s.list, t.cache = s.cache
    PROVE  /\ s.pc = "dest reply" /\ (t.pc = "source reply" \/ (s.list /\ t.pc = "compare")) =>
                 /\ Pending("dest", s) = s.cache /\ Pending("dest", t) = Tail(s.cache)
                 /\ \A role : role # "dest" => Pending(role, t) = Pending(role, s)
           /\ ~s.list /\ s.pc = "source reply" /\ t.pc = "compare" =>
                 /\ Pending("source_get", s) = s.cache /\ Pending("source_get", t) = Tail(s.cache)
                 /\ \A role : role # "source_get" => Pending(role, t) = Pending(role, s)
           /\ s.pc = "marked reply" /\ t.pc = "load" =>
                 /\ Pending("delete_meta", s) = s.cache /\ Pending("delete_meta", t) = Tail(s.cache)
                 /\ \A role : role # "delete_meta" => Pending(role, t) = Pending(role, s)
           /\ \/ s.pc = "compare" /\ t.pc = "apply"
              \/ s.pc = "load" /\ t.pc = "delete"
              \/ s.pc = "delete" /\ t.pc = "unmark"
              => \A role : Pending(role, t) = Pending(role, s)
  BY DEF Pending, AllDue, RestDue

-----------------------------------------------------------------------------
(* The synchronisation takes its own replies *)

\* The facts each step needs.
LEMMA AlignedHas ==
    ASSUME NEW V, TypedFor(V), Taken
    PROVE  /\ pool \in Pooled(V) /\ held \in [DOMAIN held -> Conn(V)] /\ lostBy \in SUBSET Threads
           /\ DOMAIN held \subseteq SyncRoles \cup {"bulk"} /\ "bulk" \notin SyncRoles
           /\ db \in [Addrs -> Database(V)]
           /\ SyncOk(sync, V) /\ sync \in SyncRecord(V)
           /\ Needs(sync) \subseteq DOMAIN held
           /\ \A role \in SyncRoles : Due(role) = SyncDue(role, sync) /\ ThreadOf(role) = "sync"
           /\ Due("bulk") = BulkDue(bulk) /\ ThreadOf("bulk") = "bulk"
           /\ \A role \in SyncRoles : Due(role)' = SyncDue(role, sync')
           /\ Due("bulk")' = BulkDue(bulk')
  <1>1. PipeTyped(V) /\ SyncOk(sync, V) /\ Needs(sync) \subseteq DOMAIN held
    BY TypedHas
  <1>2. sync \in SyncRecord(V)
    BY <1>1 DEF SyncOk
  <1> QED
    BY <1>1, <1>2 DEF PipeTyped, Pooled, Due, ThreadOf, SyncRoles

\* A role is used by a step of the synchronisation.
LEMMA AlignedUses ==
    ASSUME NEW V, TypedFor(V), Taken, Aligned, NEW role \in SyncRoles, role \in DOMAIN held, NEW o,
           Uses(role, o),
           \/ /\ o \in Response(role) /\ SyncDue(role, sync) # <<>>
              /\ SyncDue(role, sync') = Tail(SyncDue(role, sync))
           \/ /\ \E r \in Req(V) : o \in Command(role, r)
              /\ SyncDue(role, sync) = <<>> /\ SyncDue(role, sync') = <<>>,
           \A r \in SyncRoles : r # role => SyncDue(r, sync') = SyncDue(r, sync)
    PROVE  Aligned'
  <1> DEFINE a == Opens[role][1]
  <1>1. a \in Addrs /\ db[a] \in Database(V) /\ held[role] \in Conn(V)
    BY AddrOf, AlignedHas
  <1>2. /\ Note("sync", o) /\ With(role, o.conn) /\ pool' = pool /\ bulk' = bulk
    BY DEF Uses
  <1>3. lostBy \subseteq lostBy' /\ "sync" \in Threads /\ lostBy \in SUBSET Threads
    BY <1>2, NoteIs, AlignedHas DEF Threads
  <1>4. Served(held[role], SyncDue(role, sync), "sync", lostBy)
    BY AlignedHas DEF Aligned
  <1>5. Served(o.conn, SyncDue(role, sync'), "sync", lostBy') /\ o.conn \in Conn(V)
    <2>1. CASE /\ o \in Response(role) /\ SyncDue(role, sync) # <<>>
               /\ SyncDue(role, sync') = Tail(SyncDue(role, sync))
      <3>1. o \in ResponseOutcomes(a, held[role])
        BY <2>1 DEF Response
      <3> HIDE DEF a
      <3> QED
        BY <1>1, <1>2, <1>3, <1>4, <2>1, <3>1, ServedResponse, ResponseIs
    <2>2. CASE /\ \E r \in Req(V) : o \in Command(role, r)
               /\ SyncDue(role, sync) = <<>> /\ SyncDue(role, sync') = <<>>
      <3>1. PICK r \in Req(V) : o \in CommandOutcomes(a, held[role], r)
        BY <2>2 DEF Command
      <3> HIDE DEF a
      <3> QED
        BY <1>1, <1>2, <1>3, <1>4, <2>2, <3>1, ServedCommand, CommandTyped
    <2> QED
      BY <2>1, <2>2
  <1>6. /\ DOMAIN held' = DOMAIN held /\ held'[role] = o.conn
        /\ \A r \in DOMAIN held : r # role => held'[r] = held[r]
    <2>1. held \in [DOMAIN held -> Conn(V)]
      BY AlignedHas
    <2>2. DOMAIN held' = DOMAIN held \cup {role}
      BY <1>2, <1>5, <2>1, WithIs
    <2> QED
      BY <1>2, <1>5, <2>1, <2>2, WithIs
  <1>7. AllClean(pool')
    BY <1>2 DEF Aligned
  <1>8. ASSUME NEW r \in DOMAIN held' PROVE Served(held'[r], Due(r)', ThreadOf(r), lostBy')
    <2>1. CASE r = role
      BY <1>5, <1>6, <2>1, AlignedHas
    <2>2. CASE r # role
      <3>1. held'[r] = held[r] /\ Served(held[r], Due(r), ThreadOf(r), lostBy)
        BY <1>6, <2>2 DEF Aligned
      <3>2. Due(r)' = Due(r)
        <4>1. CASE r = "bulk"
          BY <1>2, <4>1, AlignedHas
        <4>2. CASE r # "bulk"
          <5>1. r \in SyncRoles
            BY <1>6, <4>2, AlignedHas
          <5> QED
            BY <2>2, <5>1, AlignedHas
        <4> QED
          BY <4>1, <4>2
      <3> QED
        BY <1>3, <3>1, <3>2, ServedMore
    <2> QED
      BY <2>1, <2>2
  <1> QED
    BY <1>7, <1>8 DEF Aligned

\* Connections that are held are not used.
LEMMA AlignedKept ==
    ASSUME NEW V, TypedFor(V), Taken, Aligned, AllClean(pool'), lostBy \subseteq lostBy', bulk' = bulk,
           DOMAIN held' \subseteq DOMAIN held, \A r \in DOMAIN held' : held'[r] = held[r],
           \A r \in SyncRoles : r \in DOMAIN held' => SyncDue(r, sync') = SyncDue(r, sync)
    PROVE  Aligned'
  <1>1. ASSUME NEW r \in DOMAIN held' PROVE Served(held'[r], Due(r)', ThreadOf(r), lostBy')
    <2>1. held'[r] = held[r] /\ Served(held[r], Due(r), ThreadOf(r), lostBy)
      BY DEF Aligned
    <2>2. Due(r)' = Due(r)
      <3>1. CASE r = "bulk"
        BY <3>1, AlignedHas
      <3>2. CASE r # "bulk"
        <4>1. r \in SyncRoles
          BY <3>2, AlignedHas
        <4> QED
          BY <4>1, AlignedHas
      <3> QED
        BY <3>1, <3>2
    <2> QED
      BY <2>1, <2>2, ServedMore
  <1> QED
    BY <1>1 DEF Aligned

\* Only the place changes.
LEMMA MovedFields ==
    ASSUME NEW V, NEW s \in SyncRecord(V), NEW pc
    PROVE  /\ [s EXCEPT !.pc = pc].pc = pc /\ [s EXCEPT !.pc = pc].list = s.list
           /\ [s EXCEPT !.pc = pc].cache = s.cache
  BY DEF SyncRecord

\* A step between places where nothing is due.
LEMMA QuietDue ==
    ASSUME sync.pc \notin Answering, sync'.pc \notin Answering
    PROVE  \A r \in SyncRoles : SyncDue(r, sync) = <<>> /\ SyncDue(r, sync') = <<>>
  BY NothingDue

\* Walk keeps the replies aligned.
LEMMA WalkAligned ==
    ASSUME NEW V, Kind(V), TypedFor(V), Taken, Aligned, NEW pc, NEW role, NEW then, Walk(pc, role, then),
           \/ pc = "scan destination" /\ role = "meta" /\ then = "mark"
           \/ pc = "scan source" /\ role = "source_walk" /\ then = "request"
           \/ pc = "scan marked" /\ role = "delete_walk" /\ then = "marked"
    PROVE  Aligned'
  <1>1. PICK o \in Command(role, Request("scan", NoKey)) :
          /\ Uses(role, o)
          /\ sync' = IF o.reply.is = "keys" THEN [sync EXCEPT !.pc = then, !.keys = o.reply.keys]
                     ELSE [sync EXCEPT !.pc = "err"]
    BY DEF Walk
  <1>2. sync.pc = pc /\ role \in SyncRoles /\ role \in DOMAIN held
    BY AlignedHas DEF Walk, Needs, SyncRoles
  <1>3. sync'.pc \in {then, "err"}
    <2>1. sync \in SyncRecord(V)
      BY AlignedHas
    <2> QED
      BY <1>1, <2>1 DEF SyncRecord
  <1>4. sync.pc \notin Answering /\ sync'.pc \notin Answering
    BY <1>2, <1>3 DEF Answering
  <1>5. Request("scan", NoKey) \in Req(V)
    BY NoKeyTyped
  <1> QED
    BY <1>1, <1>2, <1>4, <1>5, QuietDue, AlignedUses

\* Ping keeps the replies aligned.
LEMMA PingAligned ==
    ASSUME NEW V, Kind(V), TypedFor(V), Taken, Aligned, Ping
    PROVE  Aligned'
  <1>1. PICK o \in Command("source_walk", Request("ping", NoKey)) :
          /\ Uses("source_walk", o)
          /\ sync' = [sync EXCEPT !.pc = IF o.reply.is = "pong" THEN "scan source" ELSE "err"]
    BY DEF Ping
  <1>2. sync.pc = "ping" /\ "source_walk" \in SyncRoles /\ "source_walk" \in DOMAIN held
    BY AlignedHas DEF Ping, Needs, SyncRoles
  <1>3. sync'.pc \in {"scan source", "err"}
    <2>1. sync \in SyncRecord(V)
      BY AlignedHas
    <2> QED
      BY <1>1, <2>1 DEF SyncRecord
  <1>4. sync.pc \notin Answering /\ sync'.pc \notin Answering
    BY <1>2, <1>3 DEF Answering
  <1>5. Request("ping", NoKey) \in Req(V)
    BY NoKeyTyped
  <1> QED
    BY <1>1, <1>2, <1>4, <1>5, QuietDue, AlignedUses

\* One reply is taken and the next one is waited for.
LEMMA TakenAligned ==
    ASSUME NEW V, TypedFor(V), Taken, Aligned, NEW role \in SyncRoles, role \in DOMAIN held, NEW o,
           Uses(role, o), o \in Response(role), sync.pc \in Answering,
           Pending(role, sync) = sync.cache, Pending(role, sync') = Tail(sync.cache),
           \A r : r # role => Pending(r, sync') = Pending(r, sync)
    PROVE  Aligned'
  <1>1. sync.cache \in Seq(Keys) /\ sync.cache # <<>>
    BY AlignedHas, SyncHas
  <1>2. SyncDue(role, sync) # <<>> /\ SyncDue(role, sync') = Tail(SyncDue(role, sync))
    BY <1>1, DueTaken
  <1>3. \A r \in SyncRoles : r # role => SyncDue(r, sync') = SyncDue(r, sync)
    BY DueOf
  <1> QED
    BY <1>2, <1>3, AlignedUses

\* A request and its response, on a connection without a pipeline.
LEMMA CommandAligned ==
    ASSUME NEW V, TypedFor(V), Taken, Aligned, NEW role \in SyncRoles, role \in DOMAIN held, NEW o,
           NEW r \in Req(V), Uses(role, o), o \in Command(role, r),
           role \in {"meta", "cleanup"},
           \A x : Pending(x, sync') = Pending(x, sync)
    PROVE  Aligned'
  <1>1. \A s : Pending(role, s) = <<>>
    BY DEF Pending, AllDue, RestDue
  <1>2. SyncDue(role, sync) = <<>> /\ SyncDue(role, sync') = <<>>
    BY <1>1, DueNone
  <1>3. \A x \in SyncRoles : x # role => SyncDue(x, sync') = SyncDue(x, sync)
    BY DueOf
  <1> QED
    BY <1>2, <1>3, AlignedUses

\* MarkReply keeps the replies aligned.
LEMMA MarkReplyAligned ==
    ASSUME NEW V, Kind(V), TypedFor(V), Taken, Aligned, MarkReply
    PROVE  Aligned'
  <1>1. PICK o \in Response("marks") : Uses("marks", o)
    BY DEF MarkReply
  <1>2. sync.pc = "mark reply" /\ sync' = NextReply(sync, "mark reply", "mark")
    BY DEF MarkReply
  <1>3. "marks" \in SyncRoles /\ "marks" \in DOMAIN held
    BY <1>2, AlignedHas DEF Needs, SyncRoles
  <1>4. Takers("mark reply") = {"marks"} /\ sync.pc \in Answering
    BY <1>2 DEF Takers, Answering
  <1>5. /\ Pending("marks", sync) = sync.cache /\ Pending("marks", sync') = Tail(sync.cache)
        /\ \A r : r # "marks" => Pending(r, sync') = Pending(r, sync)
    BY <1>2, <1>4, AlignedHas, PendingNext DEF Replying
  <1> QED
    BY <1>1, <1>3, <1>4, <1>5, TakenAligned

\* DestReply keeps the replies aligned.
LEMMA DestReplyAligned ==
    ASSUME NEW V, Kind(V), TypedFor(V), Taken, Aligned, DestReply
    PROVE  Aligned'
  <1>1. PICK o \in Response("dest") :
          /\ Uses("dest", o)
          /\ LET k == Head(sync.cache)
                 s == [sync EXCEPT !.found = (o.reply.is = "object"), !.dest = Received(o, @)]
             IN  sync' = IF sync.list
                         THEN [s EXCEPT !.pc = "compare",
                                        !.src = [key |-> k, val |-> sync.objs[k]]]
                         ELSE [s EXCEPT !.pc = "source reply"]
    BY DEF DestReply
  <1>2. sync.pc = "dest reply"
    BY DEF DestReply
  <1>3. "dest" \in SyncRoles /\ "dest" \in DOMAIN held
    BY <1>2, AlignedHas DEF Needs, SyncRoles
  <1>4. sync.pc \in Answering
    BY <1>2 DEF Answering
  <1>5. /\ sync'.list = sync.list /\ sync'.cache = sync.cache
        /\ sync'.pc = IF sync.list THEN "compare" ELSE "source reply"
    <2>1. sync \in SyncRecord(V)
      BY AlignedHas
    <2> QED
      BY <1>1, <2>1 DEF SyncRecord
  <1>6. /\ Pending("dest", sync) = sync.cache /\ Pending("dest", sync') = Tail(sync.cache)
        /\ \A r : r # "dest" => Pending(r, sync') = Pending(r, sync)
    BY <1>2, <1>5, PendingMoved
  <1> QED
    BY <1>1, <1>3, <1>4, <1>6, TakenAligned

\* SourceReply keeps the replies aligned.
LEMMA SourceReplyAligned ==
    ASSUME NEW V, Kind(V), TypedFor(V), Taken, Aligned, SourceReply
    PROVE  Aligned'
  <1>1. PICK o \in Response("source_get") :
          /\ Uses("source_get", o)
          /\ sync' = IF o.reply.is = "object"
                     THEN [sync EXCEPT !.pc = "compare", !.src = Received(o, @)]
                     ELSE NextReply(sync, "dest reply", "request")
    BY DEF SourceReply
  <1>2. sync.pc = "source reply" /\ ~sync.list
    BY AlignedHas DEF SourceReply, SyncOk
  <1>3. "source_get" \in SyncRoles /\ "source_get" \in DOMAIN held
    BY <1>2, AlignedHas DEF Needs, SyncRoles
  <1>4. Takers("source reply") = {"source_get"} /\ sync.pc \in Answering
    BY <1>2 DEF Takers, Answering
  <1>5. /\ Pending("source_get", sync) = sync.cache /\ Pending("source_get", sync') = Tail(sync.cache)
        /\ \A r : r # "source_get" => Pending(r, sync') = Pending(r, sync)
    <2>1. CASE o.reply.is = "object"
      <3>1. sync \in SyncRecord(V)
        BY AlignedHas
      <3>2. sync'.list = sync.list /\ sync'.cache = sync.cache /\ sync'.pc = "compare"
        BY <1>1, <2>1, <3>1 DEF SyncRecord
      <3> QED
        BY <1>2, <3>2, PendingMoved
    <2>2. CASE o.reply.is # "object"
      BY <1>1, <1>2, <1>4, <2>2, AlignedHas, PendingNext DEF Replying
    <2> QED
      BY <2>1, <2>2
  <1> QED
    BY <1>1, <1>3, <1>4, <1>5, TakenAligned

\* MarkedReply keeps the replies aligned.
LEMMA MarkedReplyAligned ==
    ASSUME NEW V, Kind(V), TypedFor(V), Taken, Aligned, MarkedReply
    PROVE  Aligned'
  <1>1. PICK o \in Response("delete_meta") :
          /\ Uses("delete_meta", o)
          /\ sync' = IF o.reply.is = "string" THEN [sync EXCEPT !.pc = "load"]
                     ELSE NextReply(sync, "marked reply", "marked")
    BY DEF MarkedReply
  <1>2. sync.pc = "marked reply"
    BY DEF MarkedReply
  <1>3. "delete_meta" \in SyncRoles /\ "delete_meta" \in DOMAIN held
    BY <1>2, AlignedHas DEF Needs, SyncRoles
  <1>4. Takers("marked reply") = {"delete_meta"} /\ sync.pc \in Answering
    BY <1>2 DEF Takers, Answering
  <1>5. /\ Pending("delete_meta", sync) = sync.cache /\ Pending("delete_meta", sync') = Tail(sync.cache)
        /\ \A r : r # "delete_meta" => Pending(r, sync') = Pending(r, sync)
    <2>1. CASE o.reply.is = "string"
      <3>1. sync'.list = sync.list /\ sync'.cache = sync.cache /\ sync'.pc = "load"
        BY <1>1, <2>1, AlignedHas, MovedFields
      <3> QED
        BY <1>2, <3>1, PendingMoved
    <2>2. CASE o.reply.is # "string"
      BY <1>1, <1>2, <1>4, <2>2, AlignedHas, PendingNext DEF Replying
    <2> QED
      BY <2>1, <2>2
  <1> QED
    BY <1>1, <1>3, <1>4, <1>5, TakenAligned

\* Apply keeps the replies aligned.
LEMMA ApplyAligned ==
    ASSUME NEW V, Kind(V), TypedFor(V), Taken, Aligned, Apply
    PROVE  Aligned'
  <1>1. sync.pc = "apply" /\ Takers("apply") = {}
    BY DEF Apply, Takers
  <1>2. SyncOk(sync, V) /\ sync \in SyncRecord(V)
    BY AlignedHas
  <1>3. ASSUME NEW s, SyncOk(s, V), s.pc = sync.pc, s.list = sync.list, s.cache = sync.cache,
               sync' = NextReply(s, "dest reply", "request")
        PROVE  \A r : Pending(r, sync') = Pending(r, sync)
    <2>0. s.pc = "apply" /\ Takers(s.pc) = {}
      BY <1>1, <1>3
    <2>1. \A r : Pending(r, sync') = Pending(r, s)
      <3>1. PICK t, reply, request : t = sync' /\ reply = "dest reply" /\ request = "request"
        OBVIOUS
      <3>2. SyncOk(s, V) /\ t = NextReply(s, reply, request)
        BY <1>3, <3>1
      <3>3. Replying(s, reply, request)
        BY <2>0, <3>1 DEF Replying
      <3>4. \A r : r \notin Takers(s.pc) => Pending(r, t) = Pending(r, s)
        BY <3>2, <3>3, PendingNext
      <3> QED
        BY <2>0, <3>1, <3>4
    <2>2. \A r : Pending(r, s) = Pending(r, sync)
      BY <1>3 DEF Pending
    <2> QED
      BY <2>1, <2>2
  <1>4. CASE sync' = NextReply([sync EXCEPT !.agreed = FALSE], "dest reply", "request") /\ UNCHANGED pipeVars
    <2>1. PICK s : s = [sync EXCEPT !.agreed = FALSE]
      OBVIOUS
    <2>2. s = [sync EXCEPT !.found = sync.found, !.agreed = FALSE, !.src = sync.src, !.dest = sync.dest]
          /\ s.pc = sync.pc /\ s.list = sync.list /\ s.cache = sync.cache
      BY <1>2, <2>1 DEF SyncRecord
    <2>3. /\ sync.found \in BOOLEAN
          /\ sync.src \in [key : Keys \cup {NoKey}, val : Object]
          /\ sync.dest \in [key : Keys \cup {NoKey}, val : Object]
          /\ sync.src \in Item(V)
      BY <1>1, <1>2, SyncHas DEF SyncOk
    <2>4. SyncOk(s, V)
      BY <1>2, <2>2, <2>3, NotedOk
    <2>5. \A r : Pending(r, sync') = Pending(r, sync)
      BY <1>3, <1>4, <2>1, <2>2, <2>4
    <2>6. \A r \in SyncRoles : SyncDue(r, sync') = SyncDue(r, sync)
      BY <2>5, DueOf
    <2>7. AllClean(pool') /\ held' = held /\ lostBy' = lostBy /\ bulk' = bulk
      BY <1>4 DEF Aligned, pipeVars
    <2> QED
      BY <2>6, <2>7, AlignedKept
  <1>5. ASSUME NEW o \in Command("meta", Store(sync.src)), Uses("meta", o),
               sync' = NextReply(sync, "dest reply", "request")
        PROVE  Aligned'
    <2>1. \A r : Pending(r, sync') = Pending(r, sync)
      BY <1>2, <1>3, <1>5
    <2>2. sync.src \in Item(V)
      BY <1>1, <1>2 DEF SyncOk
    <2>3. Store(sync.src) \in Req(V)
      BY <2>2, StoreTyped
    <2>4. "meta" \in SyncRoles /\ "meta" \in DOMAIN held
      BY <1>1, AlignedHas DEF Needs, SyncRoles
    <2> QED
      BY <1>5, <2>1, <2>3, <2>4, CommandAligned
  <1> QED
    BY <1>4, <1>5 DEF Apply

\* Load keeps the replies aligned.
LEMMA LoadAligned ==
    ASSUME NEW V, Kind(V), TypedFor(V), Taken, Aligned, Load
    PROVE  Aligned'
  <1>1. sync.pc = "load" /\ Takers("load") = {}
    BY DEF Load, Takers
  <1>2. SyncOk(sync, V) /\ sync \in SyncRecord(V)
    BY AlignedHas
  <1>3. PICK o \in Command("cleanup", Request("get", Head(sync.cache))) :
          /\ Uses("cleanup", o)
          /\ LET s == [sync EXCEPT !.dest = Received(o, @)] IN
             \/ sync' = [s EXCEPT !.pc = "delete"]
             \/ sync' = NextReply([s EXCEPT !.agreed = FALSE], "marked reply", "marked")
    BY DEF Load
  <1>4. "cleanup" \in SyncRoles /\ "cleanup" \in DOMAIN held
    BY <1>1, AlignedHas DEF SyncRoles, Needs
  <1>5. /\ Head(sync.cache) \in Keys
        /\ sync.found \in BOOLEAN
        /\ sync.src \in [key : Keys \cup {NoKey}, val : Object]
        /\ sync.dest \in [key : Keys \cup {NoKey}, val : Object]
    BY <1>1, <1>2, SyncHas DEF Answering
  <1>6. o.reply # NoReply => o.reply \in Reply(V)
    BY <1>3, <1>4, <1>5, UsesTyped, RequestTyped, TypedHas
  <1>7. PICK dest \in [key : Keys \cup {NoKey}, val : Object] : dest = Received(o, sync.dest)
    BY <1>5, <1>6, ObjectReply
  <1>8. \A r : Pending(r, sync') = Pending(r, sync)
    <2>1. CASE sync' = [[sync EXCEPT !.dest = Received(o, @)] EXCEPT !.pc = "delete"]
      <3>1. sync'.pc = "delete" /\ sync'.list = sync.list /\ sync'.cache = sync.cache
        BY <1>2, <2>1 DEF SyncRecord
      <3> QED
        BY <1>1, <3>1, PendingMoved
    <2>2. CASE sync' = NextReply([[sync EXCEPT !.dest = Received(o, @)] EXCEPT !.agreed = FALSE],
                                 "marked reply", "marked")
      <3>1. PICK s : s = [sync EXCEPT !.found = sync.found, !.agreed = FALSE, !.src = sync.src, !.dest = dest]
        OBVIOUS
      <3>2. s = [[sync EXCEPT !.dest = Received(o, @)] EXCEPT !.agreed = FALSE]
            /\ s.pc = sync.pc /\ s.list = sync.list /\ s.cache = sync.cache
        BY <1>2, <1>7, <3>1 DEF SyncRecord
      <3>3. SyncOk(s, V)
        BY <1>1, <1>2, <1>5, <3>1, NotedOk
      <3>4. sync' = NextReply(s, "marked reply", "marked")
        BY <2>2, <3>2
      <3>0. s.pc = "load" /\ Takers(s.pc) = {}
        BY <1>1, <3>2
      <3>5. \A r : Pending(r, sync') = Pending(r, s)
        BY <3>0, <3>3, <3>4, PendingNext DEF Replying
      <3>6. \A r : Pending(r, s) = Pending(r, sync)
        BY <3>2 DEF Pending
      <3> QED
        BY <3>5, <3>6
    <2> QED
      BY <1>3, <2>1, <2>2
  <1> QED
    BY <1>3, <1>4, <1>5, <1>8, RequestTyped, CommandAligned

\* Delete keeps the replies aligned.
LEMMA DeleteAligned ==
    ASSUME NEW V, Kind(V), TypedFor(V), Taken, Aligned, Delete
    PROVE  Aligned'
  <1>1. sync.pc = "delete" /\ sync' = [sync EXCEPT !.pc = "unmark"]
    BY DEF Delete
  <1>2. PICK o \in Command("cleanup", Request("del", sync.dest.key)) : Uses("cleanup", o)
    BY DEF Delete
  <1>3. "cleanup" \in SyncRoles /\ "cleanup" \in DOMAIN held
    BY <1>1, AlignedHas DEF SyncRoles, Needs
  <1>4. Request("del", sync.dest.key) \in Req(V)
    <2>1. sync.dest \in [key : Keys \cup {NoKey}, val : Object]
      BY AlignedHas, SyncHas
    <2> QED
      BY <2>1 DEF Request, Req
  <1>5. \A r : Pending(r, sync') = Pending(r, sync)
    <2>1. sync'.pc = "unmark" /\ sync'.list = sync.list /\ sync'.cache = sync.cache
      BY <1>1, AlignedHas, MovedFields
    <2>2. sync.pc = "delete"
      BY <1>1
    <2> QED
      BY <2>1, <2>2, PendingMoved
  <1> QED
    BY <1>2, <1>3, <1>4, <1>5, CommandAligned

\* Unmark keeps the replies aligned.
LEMMA UnmarkAligned ==
    ASSUME NEW V, Kind(V), TypedFor(V), Taken, Aligned, Unmark
    PROVE  Aligned'
  <1>1. sync.pc = "unmark" /\ sync' = NextReply(sync, "marked reply", "marked") /\ Takers("unmark") = {}
    BY DEF Unmark, Takers
  <1>2. PICK o \in Command("cleanup", Request("unmark", Head(sync.cache))) : Uses("cleanup", o)
    BY DEF Unmark
  <1>3. "cleanup" \in SyncRoles /\ "cleanup" \in DOMAIN held
    BY <1>1, AlignedHas DEF SyncRoles, Needs
  <1>4. Request("unmark", Head(sync.cache)) \in Req(V)
    BY <1>1, AlignedHas, SyncHas, RequestTyped DEF Answering
  <1>5. \A r : Pending(r, sync') = Pending(r, sync)
    BY <1>1, AlignedHas, PendingNext DEF Replying
  <1> QED
    BY <1>2, <1>3, <1>4, <1>5, CommandAligned

\* A pool from which a connection was taken.
LEMMA PoolTaken ==
    ASSUME NEW V, NEW a \in Addrs, pool \in Pooled(V), AllClean(pool), NEW t \in TakeOutcomes(a),
           NEW kept, kept = [pool EXCEPT ![a] = t.rest]
    PROVE  /\ t.conn \in Conn(V) /\ Clean(t.conn) /\ kept \in Pooled(V) /\ AllClean(kept)
           /\ t.lost <=> ~t.conn.up
  <1>1. /\ t.conn \in Conn(V) /\ t.rest \in Seq(OpenConn(V)) /\ Clean(t.conn)
        /\ \A i \in DOMAIN t.rest : Clean(t.rest[i])
        /\ t.lost <=> ~t.conn.up
    BY TakeIs DEF Pooled
  <1>2. kept \in Pooled(V)
    BY <1>1 DEF Pooled
  <1>3. AllClean(kept)
    <2>1. ASSUME NEW b \in Addrs PROVE \A i \in DOMAIN kept[b] : Clean(kept[b][i])
      <3>1. CASE b = a
        <4>1. kept[b] = t.rest
          BY <3>1 DEF Pooled
        <4> QED
          BY <1>1, <4>1
      <3>2. CASE b # a
        <4>1. kept[b] = pool[b]
          BY <3>2 DEF Pooled
        <4> QED
          BY <4>1 DEF AllClean
      <3> QED
        BY <3>1, <3>2
    <2> QED
      BY <2>1 DEF AllClean
  <1> QED
    BY <1>1, <1>2, <1>3

\* Compare keeps the replies aligned.
LEMMA CompareAligned ==
    ASSUME NEW V, Kind(V), TypedFor(V), Taken, Aligned, Compare
    PROVE  Aligned'
  <1>1. sync.pc = "compare" /\ held' = held /\ bulk' = bulk /\ Takers("compare") = {}
    BY DEF Compare, Takers
  <1> DEFINE next == NextReply(sync, "dest reply", "request")
             ask == [sync EXCEPT !.pc = "apply"]
  <1>3. PICK t \in TakeOutcomes(Dst) :
          LET kept == [pool EXCEPT ![Dst] = t.rest] IN
              \/ /\ ~t.conn.up
                 /\ Note("sync", t)
                 /\ pool' = kept
                 /\ sync' = next
                 /\ UNCHANGED db
              \/ /\ t.conn.up /\ ~sync.found
                 /\ Note("sync", t)
                 /\ pool' = Put(kept, Dst, t.conn)
                 /\ sync' = ask
                 /\ UNCHANGED db
              \/ /\ t.conn.up /\ sync.found
                 /\ \E o \in CommandOutcomes(Dst, t.conn, Request("unmark", Head(sync.cache))) :
                       /\ Note("sync", o)
                       /\ db' = [db EXCEPT ![Dst] = o.db]
                       /\ pool' = Put(kept, Dst, o.conn)
                       /\ sync' = IF o.reply.is = "int" /\ ~Matches(sync.src.val, sync.dest.val)
                                  THEN ask ELSE next
    BY DEF Compare
  <1>4. PICK kept : kept = [pool EXCEPT ![Dst] = t.rest]
    OBVIOUS
  <1>5. Dst \in Addrs /\ db \in [Addrs -> Database(V)] /\ SyncOk(sync, V) /\ lostBy \in SUBSET Threads
    BY AlignedHas, AddrsAre
  <1>6. t.conn \in Conn(V) /\ Clean(t.conn) /\ kept \in Pooled(V) /\ AllClean(kept)
    BY <1>4, <1>5, AlignedHas, PoolTaken DEF Aligned
  <1>7. \A r : Pending(r, next) = Pending(r, sync) /\ Pending(r, ask) = Pending(r, sync)
    <2>1. \A r : Pending(r, next) = Pending(r, sync)
      BY <1>1, <1>5, PendingNext DEF Replying
    <2>2. ask.pc = "apply" /\ ask.list = sync.list /\ ask.cache = sync.cache
      BY AlignedHas, MovedFields
    <2>3. \A r : Pending(r, ask) = Pending(r, sync)
      BY <1>1, <2>2, PendingMoved
    <2> QED
      BY <2>1, <2>3
  <1> HIDE DEF next, ask
  <1>8. AllClean(pool') /\ sync' \in {next, ask} /\ lostBy \subseteq lostBy'
    <2>0. ASSUME NEW o, Note("sync", o) PROVE lostBy \subseteq lostBy'
      BY <1>5, <2>0, NoteIs DEF Threads
    <2>1. CASE ~t.conn.up /\ Note("sync", t) /\ pool' = kept /\ sync' = next /\ UNCHANGED db
      BY <1>6, <2>0, <2>1
    <2>2. CASE Note("sync", t) /\ pool' = Put(kept, Dst, t.conn) /\ sync' = ask /\ UNCHANGED db
      BY <1>5, <1>6, <2>0, <2>2, PutIs
    <2>3. ASSUME NEW o \in CommandOutcomes(Dst, t.conn, Request("unmark", Head(sync.cache))),
                 Note("sync", o), db' = [db EXCEPT ![Dst] = o.db], pool' = Put(kept, Dst, o.conn),
                 sync' \in {next, ask}
          PROVE  AllClean(pool') /\ sync' \in {next, ask} /\ lostBy \subseteq lostBy'
      <3>1. Request("unmark", Head(sync.cache)) \in Req(V)
        BY <1>1, <1>5, SyncHas, RequestTyped DEF Answering
      <3>2. o.conn \in Conn(V) /\ Clean(o.conn)
        BY <1>5, <1>6, <3>1, CommandIs
      <3> QED
        BY <1>5, <1>6, <2>0, <2>3, <3>2, PutIs
    <2> QED
      BY <1>3, <1>4, <2>1, <2>2, <2>3
  <1>9. \A r \in SyncRoles : SyncDue(r, sync') = SyncDue(r, sync)
    BY <1>7, <1>8, DueOf
  <1> QED
    BY <1>1, <1>8, <1>9, AlignedKept

\* DeleteDone keeps the replies aligned.
LEMMA DeleteDoneAligned ==
    ASSUME NEW V, Kind(V), TypedFor(V), Taken, Aligned, DeleteDone
    PROVE  Aligned'
  <1>1. sync.pc = "marked" /\ sync' = [sync EXCEPT !.pc = "ok"] /\ UNCHANGED pipeVars
    BY DEF DeleteDone
  <1>2. sync'.pc = "ok"
    BY <1>1, AlignedHas, MovedFields
  <1>3. \A r \in SyncRoles : SyncDue(r, sync') = SyncDue(r, sync)
    BY <1>1, <1>2, QuietDue DEF Answering
  <1>4. AllClean(pool') /\ held' = held /\ lostBy' = lostBy /\ bulk' = bulk
    BY <1>1 DEF Aligned, pipeVars
  <1> QED
    BY <1>3, <1>4, AlignedKept

\* Connections without a pipeline are given back.
LEMMA ReleaseAligned ==
    ASSUME NEW V, TypedFor(V), Taken, Aligned, NEW roles \in SUBSET SyncRoles, Release(roles),
           sync.pc \notin Answering, sync'.pc \notin Answering,
           UNCHANGED <<db, bulk, troubles, calls, lostBy, gaveUp, touched>>
    PROVE  Aligned'
  <1>1. pool \in Pooled(V) /\ held \in [DOMAIN held -> Conn(V)]
    BY AlignedHas
  <1>2. ASSUME NEW role \in roles \cap DOMAIN held PROVE Clean(held[role])
    <2>1. Served(held[role], SyncDue(role, sync), "sync", lostBy) /\ held[role] \in Conn(V)
      BY <1>1, AlignedHas DEF Aligned
    <2>2. SyncDue(role, sync) = <<>>
      BY NothingDue
    <2> QED
      BY <2>1, <2>2, ServedNone
  <1>3. AllClean(pool') /\ held' = [r \in DOMAIN held \ roles |-> held[r]]
    BY <1>1, <1>2, ReleaseIs DEF Aligned
  <1>4. \A r \in SyncRoles : SyncDue(r, sync') = SyncDue(r, sync)
    BY QuietDue
  <1> QED
    BY <1>3, <1>4, AlignedKept

\* Return, Marked or SourceDone keeps the replies aligned.
LEMMA GivingBackAligned ==
    ASSUME NEW V, Kind(V), TypedFor(V), Taken, Aligned, Return \/ Marked \/ SourceDone
    PROVE  Aligned'
  <1>1. sync \in SyncRecord(V)
    BY AlignedHas
  <1>2. CASE Return
    <2>1. sync.pc \in {"ok", "err"} /\ Release(DOMAIN Opens)
          /\ sync' = [sync EXCEPT !.pc = "idle", !.rc = sync.pc, !.keys = <<>>, !.cache = <<>>,
                                  !.dest = Blank]
          /\ UNCHANGED <<db, bulk, troubles, calls, lostBy, gaveUp, touched>>
      BY <1>2 DEF Return
    <2>2. sync'.pc = "idle"
      BY <1>1, <2>1 DEF SyncRecord
    <2>3. sync.pc \notin Answering /\ sync'.pc \notin Answering
      BY <2>1, <2>2 DEF Answering
    <2> QED
      BY <2>1, <2>3, OpensAre, ReleaseAligned
  <1>3. CASE Marked
    <2>1. sync.pc = "mark" /\ Release({"marks"})
          /\ sync' = (IF sync.list
                      THEN [sync EXCEPT !.pc = "request",
                                        !.keys = SetToSeq({k \in Keys : sync.objs[k] # Absent})]
                      ELSE [sync EXCEPT !.pc = "source_get"])
          /\ UNCHANGED <<db, bulk, troubles, calls, lostBy, gaveUp, touched>>
      BY <1>3 DEF Marked
    <2>2. sync'.pc \in {"request", "source_get"}
      BY <1>1, <2>1 DEF SyncRecord
    <2>3. sync.pc \notin Answering /\ sync'.pc \notin Answering
      BY <2>1, <2>2 DEF Answering
    <2>4. {"marks"} \in SUBSET SyncRoles
      BY DEF SyncRoles
    <2> QED
      BY <2>1, <2>3, <2>4, ReleaseAligned
  <1>4. CASE SourceDone
    <2>1. sync.pc = "request" /\ Release({"source_get", "source_walk"})
          /\ sync' = [sync EXCEPT !.pc = "delete_walk"]
          /\ UNCHANGED <<db, bulk, troubles, calls, lostBy, gaveUp, touched>>
      BY <1>4 DEF SourceDone
    <2>2. sync'.pc = "delete_walk"
      BY <1>1, <2>1, MovedFields
    <2>3. sync.pc \notin Answering /\ sync'.pc \notin Answering
      BY <2>1, <2>2 DEF Answering
    <2>4. {"source_get", "source_walk"} \in SUBSET SyncRoles
      BY DEF SyncRoles
    <2> QED
      BY <2>1, <2>3, <2>4, ReleaseAligned
  <1> QED
    BY <1>2, <1>3, <1>4

\* Start keeps the replies aligned.
LEMMA StartAligned ==
    ASSUME NEW V, Kind(V), TypedFor(V), Taken, Aligned, Start
    PROVE  Aligned'
  <1>1. sync.pc = "idle" /\ lostBy' = lostBy \ {"sync"} /\ UNCHANGED <<db, pool, held, bulk, troubles, gaveUp>>
    BY DEF Start
  <1>2. DOMAIN held \subseteq {"bulk"}
    BY <1>1, AlignedHas DEF Taken
  <1>3. ASSUME NEW r \in DOMAIN held' PROVE Served(held'[r], Due(r)', ThreadOf(r), lostBy')
    <2>1. r = "bulk" /\ r \in DOMAIN held /\ held'[r] = held[r]
      BY <1>1, <1>2
    <2>2. Served(held[r], BulkDue(bulk), "bulk", lostBy)
      BY <2>1, AlignedHas DEF Aligned
    <2>3. Served(held[r], BulkDue(bulk), "bulk", lostBy')
      BY <1>1, <2>2 DEF Served
    <2> QED
      BY <1>1, <2>1, <2>3, AlignedHas
  <1>4. AllClean(pool')
    BY <1>1 DEF Aligned
  <1> QED
    BY <1>3, <1>4 DEF Aligned

\* Open keeps the replies aligned.
LEMMA OpenAligned ==
    ASSUME NEW V, Kind(V), TypedFor(V), Taken, Aligned, NEW role \in SyncRoles, Open(role)
    PROVE  Aligned'
  <1>1. PICK a \in Addrs : a = Opens[role][1]
    BY AddrOf
  <1>2. PICK t \in TakeOutcomes(a) :
          /\ Note("sync", t)
          /\ pool' = [pool EXCEPT ![a] = t.rest]
          /\ IF t.conn.up THEN With(role, t.conn) ELSE UNCHANGED held
          /\ sync' = [sync EXCEPT !.pc = IF t.conn.up THEN Opens[role][2] ELSE "err"]
    BY <1>1 DEF Open
  <1>3. sync.pc = role /\ bulk' = bulk
    BY DEF Open
  <1>4. t.conn \in Conn(V) /\ Clean(t.conn) /\ AllClean(pool')
    BY <1>2, AlignedHas, PoolTaken DEF Aligned
  <1>5. lostBy \subseteq lostBy'
    BY <1>2, AlignedHas, NoteIs DEF Threads
  <1>6. sync.pc \notin Answering /\ sync'.pc \notin Answering
    <2>1. Opens[role][2] \notin Answering
      <3>1. /\ Opens["dest"][2] = "meta" /\ Opens["meta"][2] = "marks"
            /\ Opens["marks"][2] = "scan destination"
            /\ Opens["source_get"][2] = "source_walk" /\ Opens["source_walk"][2] = "ping"
            /\ Opens["delete_walk"][2] = "delete_meta" /\ Opens["delete_meta"][2] = "cleanup"
            /\ Opens["cleanup"][2] = "scan marked"
        BY DEF Opens
      <3> QED
        BY <3>1 DEF SyncRoles, Answering
    <2>2. sync'.pc = IF t.conn.up THEN Opens[role][2] ELSE "err"
      <3>1. PICK pc : pc = IF t.conn.up THEN Opens[role][2] ELSE "err"
        OBVIOUS
      <3>2. sync' = [sync EXCEPT !.pc = pc] /\ sync \in SyncRecord(V)
        BY <1>2, <3>1, AlignedHas
      <3>3. sync'.pc = pc
        BY <3>2, MovedFields
      <3> QED
        BY <3>1, <3>3
    <2> QED
      BY <1>3, <2>1, <2>2 DEF SyncRoles, Answering
  <1>7. \A r \in SyncRoles : SyncDue(r, sync') = SyncDue(r, sync) /\ SyncDue(r, sync') = <<>>
    BY <1>6, QuietDue
  <1>8. CASE ~t.conn.up
    BY <1>2, <1>3, <1>4, <1>5, <1>7, <1>8, AlignedKept
  <1>9. CASE t.conn.up
    <2>1. held \in [DOMAIN held -> Conn(V)]
      BY AlignedHas
    <2>2. /\ DOMAIN held' = DOMAIN held \cup {role} /\ held'[role] = t.conn
          /\ \A r \in DOMAIN held : r # role => held'[r] = held[r]
      BY <1>2, <1>4, <1>9, <2>1, WithIs
    <2>3. ASSUME NEW r \in DOMAIN held' PROVE Served(held'[r], Due(r)', ThreadOf(r), lostBy')
      <3>1. CASE r = role
        <4>1. Due(r)' = <<>>
          BY <1>7, <3>1, AlignedHas
        <4>2. Served(t.conn, <<>>, ThreadOf(r), lostBy')
          BY <1>4, <1>9, ServedNone
        <4> QED
          BY <2>2, <3>1, <4>1, <4>2
      <3>2. CASE r # role
        <4>1. held'[r] = held[r] /\ Served(held[r], Due(r), ThreadOf(r), lostBy) /\ r \in DOMAIN held
          BY <2>2, <3>2 DEF Aligned
        <4>2. Due(r)' = Due(r)
          <5>1. CASE r = "bulk"
            BY <1>3, <5>1, AlignedHas
          <5>2. CASE r # "bulk"
            <6>1. r \in SyncRoles
              BY <4>1, <5>2, AlignedHas
            <6> QED
              BY <1>7, <6>1, AlignedHas
          <5> QED
            BY <5>1, <5>2
        <4> QED
          BY <1>5, <4>1, <4>2, ServedMore
      <3> QED
        BY <3>1, <3>2
    <2> QED
      BY <1>4, <2>3 DEF Aligned
  <1> QED
    BY <1>8, <1>9

\* All keys of a new pipeline are pending.
LEMMA PendingFilled ==
    ASSUME NEW s
    PROVE  /\ s.pc = "mark reply" =>
                 /\ Pending("marks", s) = s.cache
                 /\ \A r : r # "marks" => Pending(r, s) = <<>>
           /\ s.pc = "marked reply" =>
                 /\ Pending("delete_meta", s) = s.cache
                 /\ \A r : r # "delete_meta" => Pending(r, s) = <<>>
           /\ s.pc = "dest reply" /\ s.list =>
                 /\ Pending("dest", s) = s.cache
                 /\ \A r : r # "dest" => Pending(r, s) = <<>>
           /\ s.pc = "dest reply" /\ ~s.list =>
                 /\ Pending("dest", s) = s.cache /\ Pending("source_get", s) = s.cache
                 /\ \A r : r \notin {"dest", "source_get"} => Pending(r, s) = <<>>
  BY DEF Pending, AllDue, RestDue

\* A new pipeline owes all of its replies.
LEMMA FilledServed ==
    ASSUME NEW V, NEW c \in Conn(V), NEW reqs \in Seq(Req(V)), NEW thread, NEW lost,
           Served(c, <<>>, thread, lost)
    PROVE  /\ c.up => Served(Buffered(c, reqs), reqs, thread, lost)
           /\ ~c.up => Buffered(c, reqs) = c
  <1>1. Clean(c)
    BY ServedNone
  <1>2. c.up => Outstanding(Buffered(c, reqs)) = reqs /\ Buffered(c, reqs).up = c.up
    BY <1>1, BufferedIs
  <1>3. ~c.up => Buffered(c, reqs) = c
    BY BufferedIs
  <1> QED
    BY <1>2, <1>3 DEF Served

\* The requests of a pipeline are buffered on some connections.
LEMMA AlignedFilled ==
    ASSUME NEW V, TypedFor(V), Taken, Aligned, NEW roles \in SUBSET SyncRoles, NEW reqs \in Seq(Req(V)),
           UNCHANGED <<pool, bulk, lostBy>>, sync.pc \notin Answering,
           roles \subseteq DOMAIN held, DOMAIN held' = DOMAIN held,
           \A r \in DOMAIN held : r \notin roles => held'[r] = held[r],
           \A r \in roles : /\ held[r].up /\ held'[r] = Buffered(held[r], reqs)
                            /\ SyncDue(r, sync') = reqs,
           \A r \in SyncRoles : r \notin roles => SyncDue(r, sync') = <<>>
    PROVE  Aligned'
  <1>1. \A r \in SyncRoles : SyncDue(r, sync) = <<>>
    BY NothingDue
  <1>2. AllClean(pool')
    BY DEF Aligned
  <1>3. ASSUME NEW r \in DOMAIN held' PROVE Served(held'[r], Due(r)', ThreadOf(r), lostBy')
    <2>1. Served(held[r], Due(r), ThreadOf(r), lostBy)
      BY DEF Aligned
    <2>2. CASE r = "bulk"
      BY <2>1, <2>2, AlignedHas
    <2>3. CASE r \in SyncRoles
      <3>1. Due(r) = <<>> /\ Due(r)' = SyncDue(r, sync') /\ held[r] \in Conn(V)
        BY <1>1, <2>3, AlignedHas
      <3>2. CASE r \in roles
        <4>1. held[r].up /\ held'[r] = Buffered(held[r], reqs) /\ SyncDue(r, sync') = reqs
          BY <3>2
        <4>2. Served(Buffered(held[r], reqs), reqs, ThreadOf(r), lostBy)
          BY <2>1, <3>1, <4>1, FilledServed
        <4> QED
          BY <3>1, <4>1, <4>2
      <3>3. CASE r \notin roles
        BY <2>1, <2>3, <3>1, <3>3
      <3> QED
        BY <3>2, <3>3
    <2> QED
      BY <2>2, <2>3, AlignedHas
  <1> QED
    BY <1>2, <1>3 DEF Aligned

\* Fill keeps the replies aligned.
LEMMA FillAligned ==
    ASSUME NEW V, Kind(V), TypedFor(V), Taken, Aligned, NEW pc, NEW role, NEW cmd, NEW then,
           Fill(pc, role, cmd, then),
           \/ pc = "mark" /\ role = "marks" /\ cmd = "mark" /\ then = "mark reply"
           \/ pc = "request" /\ role = "dest" /\ cmd = "get" /\ then = "dest reply" /\ sync.list
           \/ pc = "marked" /\ role = "delete_meta" /\ cmd = "marked" /\ then = "marked reply"
    PROVE  Aligned'
  <1>1. /\ sync.pc = pc /\ sync.keys # <<>>
        /\ sync' = IF held[role].up THEN [sync EXCEPT !.pc = then, !.cache = Batch, !.keys = Rest]
                   ELSE [sync EXCEPT !.pc = "err"]
        /\ With(role, Buffered(held[role], Requests(cmd, Batch)))
        /\ UNCHANGED <<db, pool, bulk, troubles, calls, lostBy, gaveUp, touched>>
    BY DEF Fill
  <1>2. role \in DOMAIN held /\ role \in SyncRoles
    <2>1. role \in Needs(sync) /\ role \in SyncRoles
      BY <1>1 DEF Needs, SyncRoles
    <2> QED
      BY <2>1, AlignedHas
  <1>3. sync \in SyncRecord(V) /\ sync.keys \in Seq(Keys) /\ held \in [DOMAIN held -> Conn(V)]
    BY AlignedHas, SyncHas
  <1>4. Requests(cmd, Batch) \in Seq(Req(V))
    BY <1>3, BatchIs, RequestsAre
  <1>5. PICK reqs \in Seq(Req(V)) : reqs = Requests(cmd, Batch)
    BY <1>4
  <1>6. Buffered(held[role], reqs) \in Conn(V)
    BY <1>2, <1>3, BufferedIs
  <1>7. /\ DOMAIN held' = DOMAIN held \cup {role} /\ held'[role] = Buffered(held[role], reqs)
        /\ \A r \in DOMAIN held : r # role => held'[r] = held[r]
    BY <1>1, <1>3, <1>5, <1>6, WithIs
  <1>8. sync.pc \notin Answering
    BY <1>1 DEF Answering
  <1>9. CASE held[role].up
    <2>1. sync'.pc = then /\ sync'.list = sync.list /\ sync'.cache = Batch
      BY <1>1, <1>3, <1>9 DEF SyncRecord
    <2>2. Pending(role, sync') = sync'.cache /\ \A r : r # role => Pending(r, sync') = <<>>
      BY <2>1, PendingFilled
    <2>3. SentOn(role) = cmd
      BY DEF SentOn
    <2>4. SyncDue(role, sync') = reqs
      BY <1>5, <2>1, <2>2, <2>3 DEF SyncDue
    <2>5. \A r \in SyncRoles : r \notin {role} => SyncDue(r, sync') = <<>>
      BY <2>2, DueNone
    <2>6. {role} \in SUBSET SyncRoles /\ {role} \subseteq DOMAIN held /\ DOMAIN held' = DOMAIN held
      BY <1>2, <1>7
    <2> QED
      BY <1>1, <1>7, <1>8, <1>9, <2>4, <2>5, <2>6, AlignedFilled
  <1>10. CASE ~held[role].up
    <2>1. sync'.pc = "err"
      BY <1>1, <1>3, <1>10, MovedFields
    <2>2. Buffered(held[role], reqs) = held[role]
      BY <1>2, <1>3, <1>10, BufferedIs
    <2>3. DOMAIN held' = DOMAIN held /\ \A r \in DOMAIN held' : held'[r] = held[r]
      BY <1>2, <1>7, <2>2
    <2>4. \A r \in SyncRoles : SyncDue(r, sync') = SyncDue(r, sync)
      BY <1>8, <2>1, QuietDue DEF Answering
    <2>5. AllClean(pool')
      BY <1>1 DEF Aligned
    <2> QED
      BY <1>1, <2>3, <2>4, <2>5, AlignedKept
  <1> QED
    BY <1>9, <1>10

\* RequestListed keeps the replies aligned.
LEMMA RequestListedAligned ==
    ASSUME NEW V, Kind(V), TypedFor(V), Taken, Aligned, RequestListed
    PROVE  Aligned'
  <1>1. sync.list /\ sync.pc = "request"
    BY DEF RequestListed
  <1>2. CASE held["dest"].up
    BY <1>1, <1>2, FillAligned DEF RequestListed
  <1>3. CASE ~held["dest"].up
    <2>1. sync' = [sync EXCEPT !.keys = <<>>] /\ UNCHANGED pipeVars
      BY <1>3 DEF RequestListed
    <2>2. sync \in SyncRecord(V)
      BY AlignedHas
    <2>3. sync'.pc = "request"
      BY <1>1, <2>1, <2>2 DEF SyncRecord
    <2>4. \A r \in SyncRoles : SyncDue(r, sync') = SyncDue(r, sync)
      BY <1>1, <2>3, QuietDue DEF Answering
    <2>5. AllClean(pool') /\ held' = held /\ lostBy' = lostBy /\ bulk' = bulk
      BY <2>1 DEF Aligned, pipeVars
    <2> QED
      BY <2>4, <2>5, AlignedKept
  <1> QED
    BY <1>2, <1>3

\* The synchronisation loses a connection between two pipelines.
LEMMA AlignedLosing ==
    ASSUME NEW V, TypedFor(V), Taken, Aligned, NEW role \in SyncRoles, role \in DOMAIN held, NEW c \in Conn(V),
           With(role, c), lostBy' = lostBy \cup {"sync"}, UNCHANGED <<pool, bulk>>, sync.pc \notin Answering,
           \A r \in SyncRoles : r # role => SyncDue(r, sync') = <<>>,
           Clean(c) \/ (c.up /\ Outstanding(c) = SyncDue(role, sync'))
    PROVE  Aligned'
  <1>1. \A r \in SyncRoles : SyncDue(r, sync) = <<>>
    BY NothingDue
  <1>2. AllClean(pool')
    BY DEF Aligned
  <1>3. held \in [DOMAIN held -> Conn(V)]
    BY AlignedHas
  <1>4. /\ DOMAIN held' = DOMAIN held /\ held'[role] = c
        /\ \A r \in DOMAIN held : r # role => held'[r] = held[r]
    <2>1. /\ DOMAIN held' = DOMAIN held \cup {role} /\ held'[role] = c
          /\ \A r \in DOMAIN held : r # role => held'[r] = held[r]
      BY <1>3, WithIs
    <2> QED
      BY <2>1
  <1>5. ASSUME NEW r \in DOMAIN held' PROVE Served(held'[r], Due(r)', ThreadOf(r), lostBy')
    <2>1. r \in DOMAIN held /\ Served(held[r], Due(r), ThreadOf(r), lostBy)
      BY <1>4 DEF Aligned
    <2>2. CASE r = role
      <3>1. Due(r)' = SyncDue(r, sync') /\ ThreadOf(r) = "sync"
        BY <2>2, AlignedHas
      <3> QED
        BY <1>4, <2>2, <3>1 DEF Served
    <2>3. CASE r # role
      <3>1. Due(r)' = Due(r) /\ held'[r] = held[r]
        <4>1. CASE r = "bulk"
          BY <1>4, <2>1, <2>3, <4>1, AlignedHas
        <4>2. CASE r \in SyncRoles
          BY <1>1, <1>4, <2>1, <2>3, <4>2, AlignedHas
        <4> QED
          BY <2>1, <4>1, <4>2, AlignedHas
      <3>2. lostBy \subseteq lostBy'
        OBVIOUS
      <3> QED
        BY <2>1, <3>1, <3>2, ServedMore
    <2> QED
      BY <2>2, <2>3
  <1> QED
    BY <1>2, <1>5 DEF Aligned

\* FillFails keeps the replies aligned.
LEMMA FillFailsAligned ==
    ASSUME NEW V, Kind(V), TypedFor(V), Taken, Aligned, NEW pc, NEW role, FillFails(pc, role),
           (pc = "mark" /\ role = "marks") \/ (pc = "marked" /\ role = "delete_meta")
    PROVE  Aligned'
  <1>1. /\ sync.pc = pc /\ sync' = [sync EXCEPT !.pc = "err"] /\ lostBy' = lostBy \cup {"sync"}
        /\ UNCHANGED <<pool, bulk>>
    BY DEF FillFails
  <1>2. PICK c \in Conn(V) : Clean(c) /\ With(role, c)
    BY NewConns DEF FillFails, Reconnects
  <1>3. role \in SyncRoles /\ role \in DOMAIN held
    <2>1. role \in Needs(sync) /\ role \in SyncRoles
      BY <1>1 DEF Needs, SyncRoles
    <2> QED
      BY <2>1, AlignedHas
  <1>4. sync.pc \notin Answering /\ sync'.pc \notin Answering
    <2>1. sync \in SyncRecord(V)
      BY AlignedHas
    <2>2. sync'.pc = "err"
      BY <1>1, <2>1, MovedFields
    <2> QED
      BY <1>1, <2>2 DEF Answering
  <1>5. \A r \in SyncRoles : SyncDue(r, sync') = <<>>
    BY <1>4, QuietDue
  <1> QED
    BY <1>1, <1>2, <1>3, <1>4, <1>5, AlignedLosing

\* RequestListedFails keeps the replies aligned, or gives up.
LEMMA RequestListedFailsAligned ==
    ASSUME NEW V, Kind(V), TypedFor(V), Taken, Aligned, RequestListedFails
    PROVE  AlignedInv'
  <1>1. /\ sync.list /\ sync.pc = "request" /\ lostBy' = lostBy \cup {"sync"}
        /\ UNCHANGED <<pool, bulk>>
    BY DEF RequestListedFails
  <1>2. PICK c \in Conn(V), asked \in Walks, keys \in Walks :
              /\ "dest" \in DOMAIN held /\ With("dest", c)
              /\ sync' = [sync EXCEPT !.pc = IF asked = <<>> THEN "request" ELSE "dest reply",
                                      !.cache = asked, !.keys = keys]
              /\ gaveUp' \/ Clean(c) \/ (c.up /\ Outstanding(c) = Requests("get", asked))
    BY RequestListedFailsIs
  <1>3. CASE gaveUp'
    BY <1>3 DEF AlignedInv
  <1>4. CASE ~gaveUp'
    <2>1. sync \in SyncRecord(V)
      BY AlignedHas
    <2>2. /\ sync'.pc = (IF asked = <<>> THEN "request" ELSE "dest reply")
          /\ sync'.list = sync.list /\ sync'.cache = asked
      BY <1>2, <2>1 DEF SyncRecord
    <2>3. sync.pc \notin Answering /\ "request" \notin Answering
      BY <1>1 DEF Answering
    <2>4. SentOn("dest") = "get" /\ "dest" \in SyncRoles
      BY DEF SentOn, SyncRoles
    <2>5. SyncDue("dest", sync') = Requests("get", asked) /\ \A r \in SyncRoles : r # "dest" => SyncDue(r, sync') = <<>>
      <3>1. CASE asked = <<>>
        <4>1. sync'.pc = "request"
          BY <2>2, <3>1
        <4>2. \A r \in SyncRoles : SyncDue(r, sync') = <<>>
          BY <2>3, <4>1, NothingDue
        <4>3. Requests("get", asked) = <<>>
          BY <3>1, EmptyWalk, RequestsTail
        <4> QED
          BY <2>4, <4>2, <4>3
      <3>2. CASE asked # <<>>
        <4>1. sync'.pc = "dest reply" /\ sync'.list
          BY <1>1, <2>2, <3>2
        <4>2. Pending("dest", sync') = asked /\ \A r : r # "dest" => Pending(r, sync') = <<>>
          BY <2>2, <4>1, PendingFilled
        <4>3. SyncDue("dest", sync') = Requests("get", asked)
          BY <2>4, <4>2 DEF SyncDue
        <4>4. \A r \in SyncRoles : r # "dest" => SyncDue(r, sync') = <<>>
          BY <4>2, DueNone
        <4> QED
          BY <4>3, <4>4
      <3> QED
        BY <3>1, <3>2
    <2>6. Clean(c) \/ (c.up /\ Outstanding(c) = SyncDue("dest", sync'))
      BY <1>2, <1>4, <2>5
    <2>7. Aligned'
      BY <1>1, <1>2, <2>3, <2>4, <2>5, <2>6, AlignedLosing
    <2> QED
      BY <2>7 DEF AlignedInv
  <1> QED
    BY <1>3, <1>4

\* RequestBoth keeps the replies aligned, or gives up.
LEMMA RequestBothAligned ==
    ASSUME NEW V, Kind(V), TypedFor(V), Taken, Aligned, RequestBoth
    PROVE  AlignedInv'
  <1>1. PICK up : up = (held["dest"].up /\ held["source_get"].up)
    OBVIOUS
  <1>2. PICK asked \in Seq(Req(V)) :
                  /\ asked = Requests("get", IF up THEN Batch ELSE <<Head(Batch)>>)
                  /\ {"dest", "source_get"} \subseteq DOMAIN held
                  /\ DOMAIN held' = DOMAIN held
                  /\ held'["dest"] = Buffered(held["dest"], asked)
                  /\ held'["source_get"] = Buffered(held["source_get"], asked)
                  /\ \A r \in DOMAIN held : r \notin {"dest", "source_get"} => held'[r] = held[r]
                  /\ sync' = IF up THEN [sync EXCEPT !.pc = "dest reply", !.cache = Batch, !.keys = Rest]
                             ELSE [sync EXCEPT !.pc = "err"]
                  /\ gaveUp' = (gaveUp \/ ~up)
    BY <1>1, RequestBothIs
  <1>3. ~sync.list /\ sync.pc = "request" /\ UNCHANGED <<pool, bulk, lostBy>> /\ sync.pc \notin Answering
    BY DEF RequestBoth, Answering
  <1>4. CASE ~up
    BY <1>2, <1>4 DEF AlignedInv
  <1>5. CASE up
    <2>1. sync \in SyncRecord(V)
      BY AlignedHas
    <2>2. sync'.pc = "dest reply" /\ ~sync'.list /\ sync'.cache = Batch
      BY <1>2, <1>3, <1>5, <2>1 DEF SyncRecord
    <2>3. /\ Pending("dest", sync') = sync'.cache /\ Pending("source_get", sync') = sync'.cache
          /\ \A r : r \notin {"dest", "source_get"} => Pending(r, sync') = <<>>
      BY <2>2, PendingFilled
    <2>4. SyncDue("dest", sync') = asked /\ SyncDue("source_get", sync') = asked
      BY <1>2, <1>5, <2>2, <2>3 DEF SyncDue, SentOn
    <2>5. \A r \in SyncRoles : r \notin {"dest", "source_get"} => SyncDue(r, sync') = <<>>
      BY <2>3, DueNone
    <2>6. {"dest", "source_get"} \in SUBSET SyncRoles
      BY DEF SyncRoles
    <2>7. \A r \in {"dest", "source_get"} : /\ held[r].up /\ held'[r] = Buffered(held[r], asked)
                                           /\ SyncDue(r, sync') = asked
      BY <1>1, <1>2, <1>5, <2>4
    <2>8. Aligned'
      BY <1>2, <1>3, <2>5, <2>6, <2>7, AlignedFilled
    <2> QED
      BY <2>8 DEF AlignedInv
  <1> QED
    BY <1>4, <1>5

-----------------------------------------------------------------------------
(* Bulk operations take their own replies *)

\* A step of the bulk operation.
LEMMA AlignedBulk ==
    ASSUME NEW V, TypedFor(V), Taken, Aligned, sync' = sync, AllClean(pool'), lostBy \subseteq lostBy',
           \A r \in DOMAIN held' : r # "bulk" => r \in DOMAIN held /\ held'[r] = held[r],
           "bulk" \in DOMAIN held' => Served(held'["bulk"], BulkDue(bulk'), "bulk", lostBy')
    PROVE  Aligned'
  <1>1. ASSUME NEW r \in DOMAIN held' PROVE Served(held'[r], Due(r)', ThreadOf(r), lostBy')
    <2>1. CASE r = "bulk"
      BY <2>1, AlignedHas
    <2>2. CASE r # "bulk"
      <3>1. r \in DOMAIN held /\ held'[r] = held[r]
        BY <2>2
      <3>2. r \in SyncRoles
        BY <2>2, <3>1, AlignedHas
      <3>3. Due(r)' = Due(r)
        BY <3>2, AlignedHas
      <3>4. Served(held[r], Due(r), ThreadOf(r), lostBy)
        BY <3>1 DEF Aligned
      <3> QED
        BY <3>1, <3>3, <3>4, ServedMore
    <2> QED
      BY <2>1, <2>2
  <1> QED
    BY <1>1 DEF Aligned

\* A bulk operation that waits for nothing.
LEMMA NoBulkDue ==
    ASSUME NEW b, b.left = 0
    PROVE  BulkDue(b) = <<>>
  BY DEF BulkDue

\* The next index.
LEMMA IndexMoves ==
    ASSUME NEW n \in Nat, NEW m \in Nat, NEW i \in 1..(m - 1)
    PROVE  i + 1 \in 1..m /\ n + (i + 1) = n + 1 + i /\ n + 1 + i \in (n + 2)..(n + m)
  OBVIOUS

\* The lists agree on what is left of a range after the next reply.
SameRest(w, l, n, m) == \A i \in (n + 2)..(n + m) : w[i] = l[i]

BulkState(pc, l, n, m) == [pc |-> pc, list |-> l, done |-> n, left |-> m]
SomeLeft(l, n, m) == m > 0 /\ n + m <= Len(l)
OneLess(n, m, p, q) == p = n + 1 /\ q = m - 1

Continues(s, t, r, m) == s # <<>> /\ Head(s) = r /\ Tail(s) = t /\ (m = 1 => Tail(s) = <<>>)

\* What is due of a bulk operation after one reply.
LEMMA BulkDueTail ==
    ASSUME NEW pc, NEW l \in Seq(Item(Object)), NEW n \in Nat, NEW m \in Nat, SomeLeft(l, n, m),
           NEW w, SameRest(w, l, n, m), NEW p \in Nat, NEW q \in Nat, OneLess(n, m, p, q)
    PROVE  Continues(BulkDue(BulkState(pc, l, n, m)), BulkDue(BulkState(pc, w, p, q)),
                     BulkRequest(pc, l[p]), m)
  <1>0. m > 0 /\ n + m <= Len(l) /\ p = n + 1 /\ q = m - 1
    BY DEF SomeLeft, OneLess
  <1> DEFINE b == BulkState(pc, l, n, m)
  <1> DEFINE s == [i \in 1..m |-> BulkRequest(pc, l[n + i])]
             t == [i \in 1..(m - 1) |-> BulkRequest(pc, w[n + 1 + i])]
             S == {BulkRequest(pc, l[j]) : j \in 1..Len(l)}
  <1>1. BulkDue(b) = s /\ BulkDue(BulkState(pc, w, p, q)) = t
    BY <1>0 DEF BulkDue, BulkState
  <1>2. \A i \in 1..m : n + i \in 1..Len(l)
    BY <1>0
  <1>3. s \in [1..m -> S]
    BY <1>2
  <1>4. s[1] = BulkRequest(pc, l[n + 1])
    BY <1>0
  <1>5. \A i \in 1..(m - 1) : s[i + 1] = t[i]
    <2>1. ASSUME NEW i \in 1..(m - 1) PROVE s[i + 1] = t[i]
      <3>1. i + 1 \in 1..m /\ n + (i + 1) = n + 1 + i /\ n + 1 + i \in (n + 2)..(n + m)
        BY IndexMoves
      <3>2. w[n + 1 + i] = l[n + 1 + i]
        BY <3>1 DEF SameRest
      <3>3. s[i + 1] = BulkRequest(pc, l[n + (i + 1)])
        BY <3>1
      <3>4. t[i] = BulkRequest(pc, w[n + 1 + i])
        OBVIOUS
      <3> QED
        BY <3>1, <3>2, <3>3, <3>4
    <2> QED
      BY <2>1
  <1>6. DOMAIN t = 1..(m - 1) /\ t = [i \in 1..(m - 1) |-> t[i]]
    OBVIOUS
  <1> HIDE DEF s, t, S
  <1>7. s \in Seq(S) /\ Len(s) = m
    BY <1>3
  <1>8. s # <<>>
    BY <1>0, <1>7
  <1>9. Head(s) = s[1] /\ Tail(s) \in Seq(S) /\ Len(Tail(s)) = m - 1 /\ \A i \in 1..(m - 1) : Tail(s)[i] = s[i + 1]
    BY <1>7, <1>8, SeqTail
  <1>10. ASSUME NEW u \in Seq(S), Len(u) = m - 1 PROVE u = [i \in 1..(m - 1) |-> u[i]]
    BY <1>10
  <1>11. Tail(s) = [i \in 1..(m - 1) |-> Tail(s)[i]]
    BY <1>9, <1>10, Zenon
  <1>12. Tail(s) = t
    BY <1>5, <1>6, <1>9, <1>11
  <1>13. m = 1 => Tail(s) = <<>>
    <2>1. ASSUME NEW u \in Seq(S), Len(u) = 0 PROVE u = <<>>
      BY <2>1, SeqEmpty
    <2>2. m = 1 => Len(Tail(s)) = 0
      BY <1>9
    <2> QED
      BY <1>9, <2>1, <2>2
  <1> QED
    BY <1>0, <1>1, <1>4, <1>8, <1>9, <1>12, <1>13 DEF Continues

\* BulkConnect keeps the replies aligned.
LEMMA BulkConnectAligned ==
    ASSUME NEW V, Kind(V), TypedFor(V), Taken, Aligned, sync' = sync,
           NEW pc \in {"merging", "storing", "deleting", "getting"}, BulkConnect(pc)
    PROVE  Aligned'
  <1>1. BulkOk(bulk, V)
    BY TypedHas, BulkTypedIs
  <1>2. PICK t \in TakeOutcomes(Dst) :
          /\ pool' = [pool EXCEPT ![Dst] = t.rest]
          /\ Note("bulk", t)
          /\ IF ~t.conn.up THEN held' = held /\ BulkReturns
             ELSE /\ With("bulk", t.conn)
                  /\ bulk' = IF pc = "storing" THEN [bulk EXCEPT !.pc = pc, !.done = 0]
                             ELSE [bulk EXCEPT !.pc = pc, !.list = BulkList]
    BY DEF BulkConnect
  <1>3. bulk.pc \in {"idle", "store"}
    BY DEF BulkConnect
  <1>4. Dst \in Addrs /\ pool \in Pooled(V) /\ held \in [DOMAIN held -> Conn(V)]
    BY AddrsAre, AlignedHas
  <1>5. t.conn \in Conn(V) /\ Clean(t.conn) /\ AllClean(pool')
    BY <1>2, <1>4, PoolTaken DEF Aligned
  <1>6. lostBy \subseteq lostBy'
    BY <1>2, NoteIs, AlignedHas DEF Threads
  <1>7. bulk \in BulkRecord /\ bulk.left = 0
    BY <1>1, <1>3 DEF BulkOk
  <1>8. BulkDue(bulk) = <<>>
    BY <1>7, NoBulkDue
  <1>9. CASE ~t.conn.up
    <2>1. held' = held /\ BulkReturns
      BY <1>2, <1>9
    <2>2. bulk'.left = 0
      BY <1>1, <2>1, BulkReturned
    <2>3. BulkDue(bulk') = <<>>
      BY <2>2, NoBulkDue
    <2>4. "bulk" \in DOMAIN held => Served(held["bulk"], <<>>, "bulk", lostBy')
      BY <1>6, <1>8, AlignedHas, ServedMore DEF Aligned
    <2> QED
      BY <1>5, <1>6, <2>1, <2>3, <2>4, AlignedBulk
  <1>10. CASE t.conn.up
    <2>1. bulk'.left = 0
      BY <1>2, <1>7, <1>10 DEF BulkRecord
    <2>2. BulkDue(bulk') = <<>>
      BY <2>1, NoBulkDue
    <2>3. /\ DOMAIN held' = DOMAIN held \cup {"bulk"} /\ held'["bulk"] = t.conn
          /\ \A r \in DOMAIN held : r # "bulk" => held'[r] = held[r]
      BY <1>2, <1>4, <1>5, <1>10, WithIs
    <2>4. Served(t.conn, <<>>, "bulk", lostBy')
      BY <1>5, <1>10, ServedNone
    <2> QED
      BY <1>5, <1>6, <2>2, <2>3, <2>4, AlignedBulk
  <1> QED
    BY <1>9, <1>10

\* BulkSend keeps the replies aligned.
LEMMA BulkSendAligned ==
    ASSUME NEW V, Kind(V), TypedFor(V), Taken, Aligned, sync' = sync, BulkSend
    PROVE  Aligned'
  <1>1. BulkTyped(V) /\ BulkOk(bulk, V)
    BY TypedHas, BulkTypedIs
  <1> DEFINE range == BulkRange
             reqs == BulkRequests
  <1>2. /\ bulk.pc \notin {"idle", "store"} /\ bulk.left = 0 /\ bulk.done < Len(bulk.list)
        /\ With("bulk", Buffered(held["bulk"], reqs)) /\ bulk' = [bulk EXCEPT !.left = Len(range)]
        /\ UNCHANGED <<db, pool, troubles, calls, lostBy, gaveUp, touched>>
    BY DEF BulkSend, BulkSends
  <1>3. /\ reqs \in Seq(Req(V)) /\ Len(range) \in Nat /\ Len(reqs) = Len(range)
        /\ \A i \in 1..Len(range) : reqs[i] = BulkRequest(bulk.pc, bulk.list[bulk.done + i])
    BY <1>1, <1>2, BulkRequestsAre
  <1>4. PICK n \in Nat : n = Len(range)
    BY <1>3
  <1>5. PICK s \in Seq(Req(V)) : s = reqs
    BY <1>3
  <1>6. /\ With("bulk", Buffered(held["bulk"], s)) /\ bulk' = [bulk EXCEPT !.left = n] /\ Len(s) = n
        /\ \A i \in 1..n : s[i] = BulkRequest(bulk.pc, bulk.list[bulk.done + i])
    BY <1>2, <1>3, <1>4, <1>5
  <1> HIDE DEF range, reqs
  <1>7. "bulk" \in DOMAIN held
    BY <1>1, <1>2, BulkTypedIs
  <1>8. held \in [DOMAIN held -> Conn(V)] /\ held["bulk"] \in Conn(V)
    BY <1>7, AlignedHas
  <1>9. Buffered(held["bulk"], s) \in Conn(V)
    BY <1>8, BufferedIs
  <1>10. /\ DOMAIN held' = DOMAIN held \cup {"bulk"} /\ held'["bulk"] = Buffered(held["bulk"], s)
         /\ \A r \in DOMAIN held : r # "bulk" => held'[r] = held[r]
    BY <1>6, <1>8, <1>9, WithIs
  <1>11. BulkDue(bulk) = <<>>
    BY <1>2, NoBulkDue
  <1>12. Served(held["bulk"], <<>>, "bulk", lostBy)
    BY <1>7, <1>11, AlignedHas DEF Aligned
  <1>13. BulkDue(bulk') = s
    <2>1. bulk \in BulkRecord
      BY <1>1, BulkHas
    <2>2. bulk'.pc = bulk.pc /\ bulk'.list = bulk.list /\ bulk'.done = bulk.done /\ bulk'.left = n
      BY <1>6, <2>1 DEF BulkRecord
    <2>3. BulkDue(bulk') = [i \in 1..n |-> BulkRequest(bulk.pc, bulk.list[bulk.done + i])]
      BY <2>2 DEF BulkDue
    <2>4. s = [i \in 1..n |-> s[i]]
      BY <1>6
    <2> QED
      BY <1>6, <2>3, <2>4
  <1>14. Served(Buffered(held["bulk"], s), s, "bulk", lostBy)
    <2>1. CASE held["bulk"].up
      BY <1>8, <1>12, <2>1, FilledServed
    <2>2. CASE ~held["bulk"].up
      <3>1. Buffered(held["bulk"], s) = held["bulk"] /\ Clean(held["bulk"])
        BY <1>8, <1>12, <2>2, FilledServed, ConnHas
      <3> QED
        BY <1>12, <2>2, <3>1 DEF Served
    <2> QED
      BY <2>1, <2>2
  <1>15. AllClean(pool') /\ lostBy' = lostBy
    BY <1>2 DEF Aligned
  <1> QED
    BY <1>10, <1>13, <1>14, <1>15, AlignedBulk

\* The next reply of a bulk operation.
LEMMA BulkServed ==
    ASSUME NEW V, TypedFor(V), Taken, Aligned, bulk.pc \notin {"idle", "store"}, bulk.left # 0,
           NEW o \in ResponseOutcomes(Dst, held["bulk"]), Note("bulk", o)
    PROVE  /\ Served(o.conn, Tail(BulkDue(bulk)), "bulk", lostBy') /\ o.conn \in Conn(V)
           /\ o.reply = NoReply => Clean(o.conn)
           /\ bulk.left = 1 => Clean(o.conn)
           /\ \A p : p = bulk.done + 1 => (o.reply # NoReply => o.reply.of = BulkRequest(bulk.pc, bulk.list[p]))
           /\ \A w, p, q : SameRest(w, bulk.list, bulk.done, bulk.left) /\ p = bulk.done + 1 /\ q = bulk.left - 1
                 => Tail(BulkDue(bulk)) = BulkDue(BulkState(bulk.pc, w, p, q))
           /\ lostBy \subseteq lostBy' /\ "bulk" \in DOMAIN held
  <1>1. BulkTyped(V) /\ BulkOk(bulk, V) /\ PipeTyped(V)
    BY TypedHas, BulkTypedIs
  <1>2. /\ o.conn \in Conn(V) /\ "bulk" \in DOMAIN held /\ lostBy \subseteq lostBy'
    BY <1>1, BulkResponse
  <1>3. Dst \in Addrs /\ db[Dst] \in Database(V) /\ held["bulk"] \in Conn(V) /\ lostBy \in SUBSET Threads
    BY <1>2, AddrsAre, AlignedHas
  <1>4. PICK l \in Seq(Item(Object)), n \in Nat, m \in Nat :
           l = bulk.list /\ n = bulk.done /\ m = bulk.left /\ n + m <= Len(l) /\ m > 0
    BY <1>1, BulkHas
  <1>5. PICK pc : pc = bulk.pc
    OBVIOUS
  <1>51. PICK p \in Nat, q \in Nat : p = n + 1 /\ q = m - 1 /\ OneLess(n, m, p, q)
    BY <1>4 DEF OneLess
  <1>52. OneLess(n, m, p, q)
    BY <1>51
  <1>6. bulk = BulkState(pc, l, n, m)
    <2>1. bulk \in BulkRecord
      BY <1>1, BulkHas
    <2> QED
      BY <1>4, <1>5, <2>1 DEF BulkRecord, BulkState
  <1>7. ASSUME NEW w, SameRest(w, l, n, m)
        PROVE  Continues(BulkDue(bulk), BulkDue(BulkState(pc, w, p, q)), BulkRequest(pc, l[p]), m)
    <2>1. SomeLeft(l, n, m)
      BY <1>4 DEF SomeLeft
    <2> QED
      BY <1>52, <1>6, <1>7, <2>1, BulkDueTail
  <1>71. /\ BulkDue(bulk) # <<>> /\ Head(BulkDue(bulk)) = BulkRequest(pc, l[p])
         /\ m = 1 => Tail(BulkDue(bulk)) = <<>>
    <2>1. SameRest(l, l, n, m)
      BY DEF SameRest
    <2> QED
      BY <1>7, <2>1 DEF Continues
  <1>8. Served(held["bulk"], BulkDue(bulk), "bulk", lostBy) /\ "bulk" \in Threads
    BY <1>2, AlignedHas DEF Aligned, Threads
  <1>9. /\ Served(o.conn, Tail(BulkDue(bulk)), "bulk", lostBy')
        /\ o.reply # NoReply => o.reply.of = Head(BulkDue(bulk))
        /\ o.reply = NoReply => Clean(o.conn)
    BY <1>3, <1>71, <1>8, ServedResponse
  <1>10. m = 1 => Clean(o.conn)
    BY <1>2, <1>71, <1>9, ServedNone
  <1> QED
    BY <1>2, <1>4, <1>5, <1>51, <1>7, <1>71, <1>9, <1>10 DEF Continues

\* The connection goes back to the pool without a reply left on it.
LEMMA BulkGivenBack ==
    ASSUME NEW V, TypedFor(V), Taken, Aligned, sync' = sync, NEW c \in Conn(V), Clean(c), BulkRelease(c),
           lostBy \subseteq lostBy'
    PROVE  Aligned'
  <1>1. pool \in Pooled(V) /\ held \in [DOMAIN held -> Conn(V)] /\ AllClean(pool)
    BY AlignedHas DEF Aligned
  <1>2. /\ AllClean(pool') /\ DOMAIN held' = DOMAIN held \ {"bulk"}
        /\ \A r \in DOMAIN held' : held'[r] = held[r]
    BY <1>1, BulkReleased
  <1> QED
    BY <1>2, AlignedBulk

\* BulkSendFails keeps the replies aligned.
LEMMA BulkSendFailsAligned ==
    ASSUME NEW V, Kind(V), TypedFor(V), Taken, Aligned, sync' = sync, BulkSendFails
    PROVE  Aligned'
  <1>1. PICK c \in Conn(V) : Clean(c) /\ BulkRelease(c)
    BY NewConns DEF BulkSendFails, Reconnects
  <1>2. lostBy \subseteq lostBy'
    BY DEF BulkSendFails
  <1> QED
    BY <1>1, <1>2, BulkGivenBack

\* The connection stays in use.
LEMMA BulkReadOn ==
    ASSUME NEW V, TypedFor(V), Taken, Aligned, sync' = sync, NEW c \in Conn(V), With("bulk", c),
           pool' = pool, lostBy \subseteq lostBy', Served(c, BulkDue(bulk'), "bulk", lostBy')
    PROVE  Aligned'
  <1>1. held \in [DOMAIN held -> Conn(V)] /\ AllClean(pool)
    BY AlignedHas DEF Aligned
  <1>2. /\ DOMAIN held' = DOMAIN held \cup {"bulk"} /\ held'["bulk"] = c
        /\ \A r \in DOMAIN held : r # "bulk" => held'[r] = held[r]
    BY <1>1, WithIs
  <1> QED
    BY <1>1, <1>2, AlignedBulk

\* A bulk operation takes a reply and waits for the others.
LEMMA StepAligned ==
    ASSUME NEW V, TypedFor(V), Taken, Aligned, sync' = sync,
           bulk.pc \notin {"idle", "store"}, bulk.left # 0, pool' = pool,
           NEW o \in ResponseOutcomes(Dst, held["bulk"]), Note("bulk", o), With("bulk", o.conn),
           bulk' = [bulk EXCEPT !.done = @ + 1, !.left = @ - 1]
    PROVE  Aligned'
  <1>1. bulk \in BulkRecord
    BY TypedHas, BulkTypedIs, BulkHas
  <1>2. PICK p, q : p = bulk.done + 1 /\ q = bulk.left - 1
    OBVIOUS
  <1>3. bulk' = BulkState(bulk.pc, bulk.list, p, q)
    BY <1>1, <1>2 DEF BulkRecord, BulkState
  <1>4. SameRest(bulk.list, bulk.list, bulk.done, bulk.left)
    BY DEF SameRest
  <1>5. /\ Served(o.conn, Tail(BulkDue(bulk)), "bulk", lostBy') /\ o.conn \in Conn(V)
        /\ lostBy \subseteq lostBy'
        /\ \A w, x, y : SameRest(w, bulk.list, bulk.done, bulk.left) /\ x = bulk.done + 1 /\ y = bulk.left - 1
              => Tail(BulkDue(bulk)) = BulkDue(BulkState(bulk.pc, w, x, y))
    BY BulkServed
  <1>6. Tail(BulkDue(bulk)) = BulkDue(bulk')
    BY <1>2, <1>3, <1>4, <1>5
  <1> QED
    BY <1>5, <1>6, BulkReadOn

\* MergeReply keeps the replies aligned, or gives up.
LEMMA MergeReplyAligned ==
    ASSUME NEW V, Kind(V), TypedFor(V), Taken, Aligned, sync' = sync, MergeReply
    PROVE  AlignedInv'
  <1>1. BulkOk(bulk, V)
    BY TypedHas, BulkTypedIs
  <1>2. bulk.pc = "merging" /\ bulk.left > 0
    BY DEF MergeReply
  <1>3. PICK o \in ResponseOutcomes(Dst, held["bulk"]) :
          /\ Note("bulk", o)
          /\ IF o.reply.is = "object"
             THEN /\ LET old == bulk.list[bulk.done + 1]
                         new == [key |-> o.reply.obj.key, val |-> Merge(o.reply.obj.val, old.val)]
                     IN bulk' = [bulk EXCEPT !.list[bulk.done + 1] = new,
                                             !.done = @ + 1, !.left = @ - 1]
                  /\ With("bulk", o.conn)
                  /\ UNCHANGED <<pool, gaveUp>>
             ELSE /\ IF o.reply = NoReply THEN bulk' = [bulk EXCEPT !.pc = "store", !.left = 0]
                                          ELSE BulkReturns
                  /\ BulkRelease(o.conn)
                  /\ gaveUp' = (gaveUp \/ (o.reply # NoReply /\ bulk.left > 1))
    BY DEF MergeReply
  <1>4. PICK l \in Seq(Item(Object)), n \in Nat, m \in Nat :
           l = bulk.list /\ n = bulk.done /\ m = bulk.left /\ n + m <= Len(l) /\ m > 0
    BY <1>1, <1>2, BulkHas DEF BulkOk
  <1>5. bulk.left # 0 /\ bulk.pc \notin {"idle", "store"}
    BY <1>2, <1>4
  <1>6. /\ Served(o.conn, Tail(BulkDue(bulk)), "bulk", lostBy') /\ o.conn \in Conn(V)
        /\ lostBy \subseteq lostBy'
        /\ o.reply = NoReply => Clean(o.conn)
        /\ bulk.left = 1 => Clean(o.conn)
        /\ \A w, x, y : SameRest(w, bulk.list, bulk.done, bulk.left) /\ x = bulk.done + 1 /\ y = bulk.left - 1
              => Tail(BulkDue(bulk)) = BulkDue(BulkState(bulk.pc, w, x, y))
    BY <1>3, <1>5, BulkServed
  <1>7. CASE o.reply.is = "object"
    <2> DEFINE new == [key |-> o.reply.obj.key, val |-> Merge(o.reply.obj.val, bulk.list[bulk.done + 1].val)]
    <2>1. PICK w : w = [bulk.list EXCEPT ![bulk.done + 1] = new]
      OBVIOUS
    <2>2. bulk' = [bulk EXCEPT !.list = w, !.done = @ + 1, !.left = @ - 1]
      <3>1. bulk \in BulkRecord
        BY <1>1, BulkHas
      <3> QED
        BY <1>3, <1>7, <2>1, <3>1 DEF BulkRecord
    <2>3. PICK p, q : p = bulk.done + 1 /\ q = bulk.left - 1
      OBVIOUS
    <2>4. bulk' = BulkState(bulk.pc, w, p, q)
      <3>1. bulk \in BulkRecord
        BY <1>1, BulkHas
      <3> QED
        BY <2>2, <2>3, <3>1 DEF BulkRecord, BulkState
    <2>5. SameRest(w, bulk.list, bulk.done, bulk.left)
      <3>1. w = [l EXCEPT ![n + 1] = new]
        BY <1>4, <2>1
      <3> HIDE DEF new
      <3>2. \A i \in (n + 2)..(n + m) : i \in 1..Len(l) /\ i # n + 1
        BY <1>4
      <3>3. \A i \in (n + 2)..(n + m) : w[i] = l[i]
        BY <3>1, <3>2
      <3> QED
        BY <1>4, <3>3 DEF SameRest
    <2>6. Tail(BulkDue(bulk)) = BulkDue(bulk')
      BY <1>6, <2>3, <2>4, <2>5
    <2>7. Aligned'
      BY <1>3, <1>6, <1>7, <2>6, BulkReadOn
    <2> QED
      BY <2>7 DEF AlignedInv
  <1>8. CASE o.reply.is # "object"
    <2>1. BulkRelease(o.conn) /\ gaveUp' = (gaveUp \/ (o.reply # NoReply /\ bulk.left > 1))
      BY <1>3, <1>8
    <2>2. gaveUp' \/ o.reply = NoReply \/ bulk.left = 1
      <3>1. m > 1 \/ m = 1
        BY <1>4
      <3>2. bulk.left > 1 \/ bulk.left = 1
        BY <1>4, <3>1
      <3> QED
        BY <2>1, <3>2, Zenon
    <2>3. CASE gaveUp'
      BY <2>3 DEF AlignedInv
    <2>4. CASE Clean(o.conn)
      BY <1>6, <2>1, <2>4, BulkGivenBack DEF AlignedInv
    <2> QED
      BY <1>6, <2>2, <2>3, <2>4
  <1> QED
    BY <1>7, <1>8

\* StoreReply keeps the replies aligned.
LEMMA StoreReplyAligned ==
    ASSUME NEW V, Kind(V), TypedFor(V), Taken, Aligned, sync' = sync, StoreReply
    PROVE  Aligned'
  <1>1. bulk.left \in Nat
    BY TypedHas, BulkTypedIs, BulkHas
  <1>2. bulk.pc \notin {"idle", "store"} /\ bulk.left # 0
    BY <1>1 DEF StoreReply
  <1>3. PICK o \in ResponseOutcomes(Dst, held["bulk"]) :
          /\ Note("bulk", o)
          /\ IF o.reply # NoReply
             THEN /\ bulk' = [bulk EXCEPT !.done = @ + 1, !.left = @ - 1]
                  /\ With("bulk", o.conn)
                  /\ UNCHANGED pool
             ELSE BulkReturns /\ BulkRelease(o.conn)
    BY DEF StoreReply
  <1>4. CASE o.reply # NoReply
    BY <1>2, <1>3, <1>4, StepAligned
  <1>5. CASE o.reply = NoReply
    BY <1>2, <1>3, <1>5, BulkServed, BulkGivenBack
  <1> QED
    BY <1>4, <1>5

\* ReadOn keeps the replies aligned.
LEMMA ReadOnAligned ==
    ASSUME NEW V, Kind(V), TypedFor(V), Taken, Aligned, sync' = sync, ReadOn
    PROVE  Aligned'
  <1>1. bulk.left \in Nat
    BY TypedHas, BulkTypedIs, BulkHas
  <1>2. bulk.pc \notin {"idle", "store"} /\ bulk.left # 0 /\ pool' = pool
    BY <1>1 DEF ReadOn
  <1>3. PICK o \in ResponseOutcomes(Dst, held["bulk"]) :
          /\ Note("bulk", o)
          /\ bulk' = [bulk EXCEPT !.done = @ + 1, !.left = @ - 1]
          /\ With("bulk", o.conn)
    BY DEF ReadOn
  <1> QED
    BY <1>2, <1>3, StepAligned

\* BulkDone keeps the replies aligned.
LEMMA BulkDoneAligned ==
    ASSUME NEW V, Kind(V), TypedFor(V), Taken, Aligned, sync' = sync, BulkDone
    PROVE  Aligned'
  <1>1. /\ bulk.pc \notin {"idle", "store"} /\ bulk.left = 0 /\ BulkRelease(held["bulk"])
        /\ lostBy' = lostBy
    BY DEF BulkDone
  <1>2. "bulk" \in DOMAIN held
    BY <1>1, TypedHas, BulkTypedIs
  <1>3. held["bulk"] \in Conn(V) /\ Served(held["bulk"], BulkDue(bulk), "bulk", lostBy)
    BY <1>2, AlignedHas DEF Aligned
  <1>4. Clean(held["bulk"])
    BY <1>1, <1>3, NoBulkDue, ServedNone
  <1> QED
    BY <1>1, <1>3, <1>4, BulkGivenBack

\* A step that leaves the connections and the places alone.
LEMMA StillAligned ==
    ASSUME Aligned, UNCHANGED <<pool, held, bulk, lostBy, sync>>
    PROVE  Aligned'
  BY DEF Aligned, Due

\* AlignedInv holds at first.
LEMMA InitAligned == Init => AlignedInv
  <1> SUFFICES ASSUME Init PROVE Aligned
    BY DEF AlignedInv
  <1>1. pool = [a \in Addrs |-> <<>>] /\ held = <<>>
    BY DEF Init, PipeInit
  <1>2. DOMAIN <<>> = {}
    OBVIOUS
  <1> QED
    BY <1>1, <1>2 DEF Aligned, AllClean

\* gaveUp stays.
LEMMA GaveUpRemembered ==
    ASSUME [Next]_vars, gaveUp
    PROVE  gaveUp'
  <1>1. ASSUME NEW role, NEW o, Uses(role, o) PROVE gaveUp'
    BY <1>1 DEF Uses
  <1>2. CASE UNCHANGED vars
    BY <1>2 DEF vars, pipeVars
  <1>3. CASE PipeStep
    BY <1>3 DEF PipeStep, BulkConnect, BulkSend, BulkSendRetried, BulkSendFails, MergeReply, StoreReply,
                   ReadOn, BulkDone, OtherProcess
  <1>4. CASE SyncStep
    <2>1. CASE Start \/ Compare \/ Marked \/ SourceDone \/ Return
      BY <2>1 DEF Start, Compare, Marked, SourceDone, Return
    <2>2. ASSUME NEW role, Open(role) PROVE gaveUp'
      BY <2>2 DEF Open
    <2>3. ASSUME NEW pc, NEW role, NEW then, Walk(pc, role, then) PROVE gaveUp'
      BY <1>1, <2>3 DEF Walk
    <2>4. ASSUME NEW pc, NEW role, NEW cmd, NEW then, Fill(pc, role, cmd, then) PROVE gaveUp'
      BY <2>4 DEF Fill
    <2>5. CASE MarkReply \/ Ping \/ DestReply \/ SourceReply \/ MarkedReply \/ Load \/ Delete \/ Unmark
      BY <1>1, <2>5 DEF MarkReply, Ping, DestReply, SourceReply, MarkedReply, Load, Delete, Unmark
    <2>6. CASE RequestBoth
      BY <2>6 DEF RequestBoth
    <2>7. CASE RequestListed
      BY <2>4, <2>7 DEF RequestListed, pipeVars
    <2>8. CASE Apply \/ DeleteDone
      BY <1>1, <2>8 DEF Apply, DeleteDone, pipeVars
    <2>9. ASSUME NEW pc, NEW role, NEW cmd, NEW then,
                 FillRetried(pc, role, cmd, then) \/ FillFails(pc, role)
          PROVE  gaveUp'
      BY <2>9 DEF FillRetried, FillFails
    <2>10. CASE SendMarksRetried \/ SendMarksFails \/ SendMarkedRetried \/ SendMarkedFails \/ RequestListedRetried
      BY <2>9, <2>10
      DEF SendMarksRetried, SendMarksFails, SendMarkedRetried, SendMarkedFails, RequestListedRetried
    <2>11. CASE RequestListedFails \/ RequestBothRetried
      BY <2>11 DEF RequestListedFails, RequestBothRetried
    <2> QED
      BY <1>4, <2>1, <2>2, <2>3, <2>4, <2>5, <2>6, <2>7, <2>8, <2>10, <2>11
      DEF SyncStep, ScanDestination, ScanSource, ScanMarked, SendMarks, SendMarked
  <1> QED
    BY <1>2, <1>3, <1>4 DEF Next

\* Every step keeps the replies aligned, or gives up.
LEMMA NextAligned ==
    ASSUME NEW V, Kind(V), TypedFor(V), Taken, Aligned, [Next]_vars
    PROVE  AlignedInv'
  <1>0. Aligned' => AlignedInv'
    BY DEF AlignedInv
  <1>1. CASE UNCHANGED vars
    BY <1>0, <1>1, StillAligned DEF vars, pipeVars
  <1>2. CASE PipeStep /\ UNCHANGED sync
    <2>1. sync' = sync
      BY <1>2
    <2>2. CASE \E pc \in {"merging", "storing", "deleting", "getting"} : BulkConnect(pc)
      BY <1>0, <2>1, <2>2, BulkConnectAligned
    <2>3. CASE BulkSend
      BY <1>0, <2>1, <2>3, BulkSendAligned
    <2>4. CASE MergeReply
      BY <2>1, <2>4, MergeReplyAligned
    <2>5. CASE StoreReply
      BY <1>0, <2>1, <2>5, StoreReplyAligned
    <2>6. CASE ReadOn
      BY <1>0, <2>1, <2>6, ReadOnAligned
    <2>7. CASE BulkDone
      BY <1>0, <2>1, <2>7, BulkDoneAligned
    <2>8. CASE OtherProcess
      BY <1>0, <2>1, <2>8, StillAligned DEF OtherProcess
    <2>9. CASE BulkSendRetried
      BY <2>9 DEF BulkSendRetried, AlignedInv
    <2>10. CASE BulkSendFails
      BY <1>0, <2>1, <2>10, BulkSendFailsAligned
    <2> QED
      BY <1>2, <2>2, <2>3, <2>4, <2>5, <2>6, <2>7, <2>8, <2>9, <2>10 DEF PipeStep
  <1>3. CASE SyncStep
    <2>1. CASE \E role \in DOMAIN Opens : Open(role)
      BY <1>0, <2>1, OpenAligned, OpensAre
    <2>2. CASE ScanDestination \/ ScanSource \/ ScanMarked
      BY <1>0, <2>2, WalkAligned DEF ScanDestination, ScanSource, ScanMarked
    <2>3. CASE SendMarks \/ SendMarked
      BY <1>0, <2>3, FillAligned DEF SendMarks, SendMarked
    <2>4. CASE Start \/ Return \/ Marked \/ SourceDone \/ DeleteDone
      BY <1>0, <2>4, StartAligned, GivingBackAligned, DeleteDoneAligned
    <2>5. CASE MarkReply \/ Ping \/ DestReply \/ SourceReply
      BY <1>0, <2>5, MarkReplyAligned, PingAligned, DestReplyAligned, SourceReplyAligned
    <2>6. CASE RequestListed \/ RequestBoth \/ Compare \/ Apply
      BY <1>0, <2>6, RequestListedAligned, RequestBothAligned, CompareAligned, ApplyAligned
    <2>7. CASE MarkedReply \/ Load \/ Delete \/ Unmark
      BY <1>0, <2>7, MarkedReplyAligned, LoadAligned, DeleteAligned, UnmarkAligned
    <2>8. CASE SendMarksRetried \/ SendMarkedRetried \/ RequestListedRetried \/ RequestBothRetried
      BY <2>8
      DEF SendMarksRetried, SendMarkedRetried, RequestListedRetried, FillRetried, RequestBothRetried, AlignedInv
    <2>9. CASE SendMarksFails \/ SendMarkedFails
      BY <1>0, <2>9, FillFailsAligned DEF SendMarksFails, SendMarkedFails
    <2>10. CASE RequestListedFails
      BY <2>10, RequestListedFailsAligned
    <2> QED
      BY <1>3, <2>1, <2>2, <2>3, <2>4, <2>5, <2>6, <2>7, <2>8, <2>9, <2>10 DEF SyncStep
  <1> QED
    BY <1>1, <1>2, <1>3 DEF Next

\* Every step keeps AlignedInv.
LEMMA AlignedNext == TypedInv /\ AlignedInv /\ [Next]_vars => AlignedInv'
  <1> SUFFICES ASSUME TypedInv, AlignedInv, [Next]_vars PROVE AlignedInv'
    OBVIOUS
  <1>1. CASE gaveUp
    BY <1>1, GaveUpRemembered DEF AlignedInv
  <1>2. CASE Aligned
    BY <1>2, NextAligned DEF TypedInv, Kind
  <1> QED
    BY <1>1, <1>2 DEF AlignedInv

\* The first reply that is due is the one that is waited for.
LEMMA AwaitedIs ==
    ASSUME NEW V, TypedFor(V), Taken, NEW w \in Awaited
    PROVE  /\ w[1] \in SyncRoles /\ w[1] \in DOMAIN held
           /\ SyncDue(w[1], sync) # <<>> /\ Head(SyncDue(w[1], sync)) = w[2]
  <1>1. PICK role, cmd : w = <<role, Request(cmd, Head(sync.cache))>> /\
           \/ sync.pc = "mark reply" /\ role = "marks" /\ cmd = "mark"
           \/ sync.pc = "dest reply" /\ role = "dest" /\ cmd = "get"
           \/ sync.pc = "source reply" /\ role = "source_get" /\ cmd = "get"
           \/ sync.pc = "marked reply" /\ role = "delete_meta" /\ cmd = "marked"
    BY DEF Awaited
  <1>2. w[1] = role /\ w[2] = Request(cmd, Head(sync.cache))
    BY <1>1
  <1>3. sync.pc \in Answering /\ SentOn(role) = cmd /\ role \in SyncRoles
    BY <1>1 DEF Answering, SentOn, SyncRoles
  <1>4. sync.cache \in Seq(Keys) /\ sync.cache # <<>> /\ (sync.pc = "source reply" => ~sync.list)
    BY <1>3, AlignedHas, SyncHas DEF SyncOk
  <1>5. role \in DOMAIN held
    <2>1. role \in Needs(sync)
      BY <1>1, <1>4 DEF Needs
    <2> QED
      BY <2>1, AlignedHas
  <1>6. Pending(role, sync) = sync.cache
    BY <1>1, <1>4 DEF Pending, AllDue
  <1>7. SyncDue(role, sync) # <<>> /\ Head(SyncDue(role, sync)) = Request(cmd, Head(sync.cache))
    BY <1>3, <1>4, <1>6, RequestsTail DEF SyncDue
  <1> QED
    BY <1>2, <1>3, <1>5, <1>7

\* What a bulk operation waits for is due.
LEMMA BulkAwaitedIs ==
    ASSUME NEW V, TypedFor(V), Taken, NEW w \in BulkAwaited
    PROVE  /\ w[1] = "bulk" /\ "bulk" \in DOMAIN held
           /\ BulkDue(bulk) # <<>> /\ Head(BulkDue(bulk)) = w[2]
  <1>1. BulkOk(bulk, V) /\ bulk.left # 0
    BY TypedHas, BulkTypedIs DEF BulkAwaited
  <1>2. bulk.pc \in {"merging", "storing", "deleting", "getting"}
    BY <1>1, BulkHas DEF BulkOk, BulkPlaces
  <1>3. "bulk" \in DOMAIN held
    BY <1>2, TypedHas, BulkTypedIs
  <1>4. PICK l \in Seq(Item(Object)), n \in Nat, m \in Nat :
           l = bulk.list /\ n = bulk.done /\ m = bulk.left /\ n + m <= Len(l) /\ m > 0
    BY <1>1, BulkHas
  <1>5. PICK p \in Nat, q \in Nat : p = n + 1 /\ OneLess(n, m, p, q) /\ p = bulk.done + 1
    BY <1>4 DEF OneLess
  <1>6. w = <<"bulk", BulkRequest(bulk.pc, bulk.list[p])>>
    BY <1>1, <1>2, <1>5 DEF BulkAwaited, BulkRequest
  <1>7. PICK pc : pc = bulk.pc
    OBVIOUS
  <1>8. bulk = BulkState(pc, l, n, m)
    <2>1. bulk \in BulkRecord
      BY <1>1, BulkHas
    <2> QED
      BY <1>4, <1>7, <2>1 DEF BulkRecord, BulkState
  <1>9. SomeLeft(l, n, m) /\ SameRest(l, l, n, m) /\ OneLess(n, m, p, q)
    BY <1>4, <1>5 DEF SomeLeft, SameRest
  <1>10. Continues(BulkDue(bulk), BulkDue(BulkState(pc, l, p, q)), BulkRequest(pc, l[p]), m)
    BY <1>8, <1>9, BulkDueTail
  <1>11. BulkDue(bulk) # <<>> /\ Head(BulkDue(bulk)) = BulkRequest(pc, l[p])
    BY <1>10 DEF Continues
  <1> QED
    BY <1>3, <1>4, <1>6, <1>7, <1>11

\* PipelinesAligned: a reply is taken for the request it answers.
THEOREM RepliesAligned == Spec => []PipelinesAligned
  <1>1. TypedInv /\ AlignedInv => PipelinesAligned
    <2> SUFFICES ASSUME TypedInv, Aligned PROVE PipelinesAligned
      BY DEF AlignedInv, PipelinesAligned
    <2>1. TypedFor(Object) /\ Taken
      BY DEF TypedInv
    <2>2. ASSUME NEW role, role \in DOMAIN held, NEW r, Due(role) # <<>>, Head(Due(role)) = r
          PROVE  IF Outstanding(held[role]) = <<>> THEN ThreadOf(role) \in lostBy
                 ELSE Head(Outstanding(held[role])) = r
      <3>1. Served(held[role], Due(role), ThreadOf(role), lostBy) /\ held[role] \in Conn(Object)
        BY <2>1, <2>2, AlignedHas DEF Aligned
      <3>2. Outstanding(held[role]) = <<>> <=> Clean(held[role])
        BY <3>1, OutstandingTyped
      <3> QED
        BY <2>2, <3>1, <3>2 DEF Served
    <2>3. ASSUME NEW w \in Awaited \cup BulkAwaited
          PROVE  IF Outstanding(held[w[1]]) = <<>> THEN (IF w[1] = "bulk" THEN "bulk" ELSE "sync") \in lostBy
                 ELSE Head(Outstanding(held[w[1]])) = w[2]
      <3>1. CASE w \in Awaited
        <4>1. /\ w[1] \in SyncRoles /\ w[1] \in DOMAIN held
              /\ SyncDue(w[1], sync) # <<>> /\ Head(SyncDue(w[1], sync)) = w[2]
          BY <2>1, <3>1, AwaitedIs
        <4>2. Due(w[1]) = SyncDue(w[1], sync) /\ ThreadOf(w[1]) = (IF w[1] = "bulk" THEN "bulk" ELSE "sync")
          BY <2>1, <4>1, AlignedHas DEF ThreadOf
        <4> QED
          BY <2>2, <4>1, <4>2
      <3>2. CASE w \in BulkAwaited
        <4>1. /\ w[1] = "bulk" /\ "bulk" \in DOMAIN held
              /\ BulkDue(bulk) # <<>> /\ Head(BulkDue(bulk)) = w[2]
          BY <2>1, <3>2, BulkAwaitedIs
        <4>2. Due(w[1]) = BulkDue(bulk) /\ ThreadOf(w[1]) = (IF w[1] = "bulk" THEN "bulk" ELSE "sync")
          BY <2>1, <4>1, AlignedHas DEF ThreadOf
        <4> QED
          BY <2>2, <4>1, <4>2
      <3> QED
        BY <3>1, <3>2
    <2>4. \A a \in Addrs : \A i \in DOMAIN pool[a] : Clean(pool[a][i])
      BY DEF Aligned, AllClean
    <2> QED
      BY <2>3, <2>4 DEF PipelinesAligned
  <1> QED
    BY <1>1, TypedInit, TypedNext, InitAligned, AlignedNext, PTL DEF Spec
=============================================================================
