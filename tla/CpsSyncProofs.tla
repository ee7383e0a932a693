--------------------------- MODULE CpsSyncProofs ----------------------------
(***************************************************************************)
(* Proofs about CpsSync: what is deleted is what was marked, and a         *)
(* synchronisation that returned OK left the destination as the source was. *)
(***************************************************************************)
EXTENDS CpsPipelineProofs

-----------------------------------------------------------------------------
(* Inductive invariants *)

\* Nothing has gone wrong for the synchronisation.
Sound == ~gaveUp /\ "sync" \notin lostBy

\* The reply is what the database says now.
Answered(in, d) == \A i \in DOMAIN in : in[i] = Answer(d, in[i].of)

\* A marked hash has an object; so have the keys to mark; a reply tells whether
\* its key is marked; the object read last is the one to delete.
MarksAreReal(d) == \A k \in Keys : d[k].dirty => d[k].obj # Absent
HaveObjects(w, d) == \A i \in DOMAIN w : d[w[i]].obj # Absent
Marks(d, s, h) ==
    /\ MarksAreReal(d)
    /\ s.pc \in Marking => HaveObjects(s.keys, d) /\ HaveObjects(s.cache, d)
    /\ "delete_meta" \in DOMAIN h => Answered(h["delete_meta"].in, d)
    /\ s.pc \in {"load", "delete"} => d[Head(s.cache)].dirty
    /\ s.pc = "delete" => s.dest.key = Head(s.cache)
MarkedInv == Sound /\ "deleted" \notin touched => Marks(db[Dst], sync, held)

\* The walk has not come to the end of this key.
Left(k, s) == InRange(k, s.keys) \/ InRange(k, s.cache)
Asked(k, c) == \E i \in DOMAIN c.out : c.out[i].key = k
Covered(k, s, e) == e[k].obj # Absent /\ ~e[k].dirty /\ Matches(s.objs[k], e[k].obj)

\* The objects of the destination are marked or will be; those that the source
\* has not are marked; what the source has is covered or will be, unless the
\* application refused; what it has not will be removed.
ToMark(s, e, c) == \A k \in Keys : e[k].obj # Absent => e[k].dirty \/ InRange(k, s.keys) \/ Asked(k, c)
OthersMarked(s, e) == \A k \in Keys : s.objs[k] = Absent /\ e[k].obj # Absent => e[k].dirty
ToCover(s, e) == \A k \in Keys : s.objs[k] # Absent => Left(k, s) \/ Covered(k, s, e) \/ ~s.agreed
ToRemove(s, e) == \A k \in Keys : e[k].obj # Absent => s.objs[k] # Absent \/ Left(k, s)
AllCovered(s, e) == \A k \in Keys : s.objs[k] # Absent => Covered(k, s, e)
NothingElse(s, e) == \A k \in Keys : s.objs[k] = Absent => e[k].obj = Absent /\ ~e[k].dirty

\* The objects that were read are those of the databases.
DestRead(s, e) ==
    /\ s.found <=> e[Head(s.cache)].obj # Absent
    /\ s.found => s.dest = [key |-> Head(s.cache), val |-> e[Head(s.cache)].obj]
SourceRead(s) ==
    /\ s.src = [key |-> Head(s.cache), val |-> s.objs[Head(s.cache)]]
    /\ s.objs[Head(s.cache)] # Absent

\* What each place of a synchronisation relies on.
MarkPhase(s, e, h) ==
    /\ s.pc \in Marking => ToMark(s, e, h["marks"])
    /\ s.pc \in Sourcing \cup Deleting => OthersMarked(s, e)
SourcePhase(s, e) ==
    /\ s.pc \in Comparing => ToCover(s, e)
    /\ s.pc \in {"source reply", "compare"} => DestRead(s, e)
    /\ s.pc \in {"compare", "apply"} => SourceRead(s)
    /\ s.pc = "apply" => ~e[Head(s.cache)].dirty
DeletePhase(s, e) ==
    /\ s.pc \in Deleting /\ s.agreed => AllCovered(s, e)
    /\ s.pc \in Removing /\ s.agreed => ToRemove(s, e)
    /\ s.pc = "unmark" => e[Head(s.cache)].obj = Absent
    /\ s.agreed /\ (s.pc = "ok" \/ (s.pc = "idle" /\ s.rc = "ok")) => AllCovered(s, e) /\ NothingElse(s, e)
Phases(s, e, h) == MarkPhase(s, e, h) /\ SourcePhase(s, e) /\ DeletePhase(s, e)
Synced(d, e, s, h) ==
    /\ s.pc # "idle" => \A k \in Keys : d[k].obj = s.objs[k]
    /\ "dest" \in DOMAIN h => Answered(h["dest"].in, e)
    /\ "source_get" \in DOMAIN h => Answered(h["source_get"].in, d)
    /\ Phases(s, e, h)
CoveredInv == Sound /\ touched = {} => Synced(db[Src], db[Dst], sync, held)

-----------------------------------------------------------------------------
(* What requests do, and what their replies say *)

\* What a request does to the hash of a key.
LEMMA EffectIs ==
    ASSUME NEW V, NEW d \in Database(V), NEW r \in Req(V)
    PROVE  /\ r.cmd \in {"get", "marked", "scan", "ping"} => Effect(d, r) = d
           /\ \A k \in Keys : k # r.key => Effect(d, r)[k] = d[k]
           /\ r.key \in Keys =>
                 /\ r.cmd = "mark" => Effect(d, r)[r.key] = [obj |-> d[r.key].obj, dirty |-> TRUE]
                 /\ r.cmd = "unmark" => Effect(d, r)[r.key] = [obj |-> d[r.key].obj, dirty |-> FALSE]
                 /\ r.cmd = "store" => Effect(d, r)[r.key] = [obj |-> r.val, dirty |-> d[r.key].dirty]
                 /\ r.cmd = "del" => Effect(d, r)[r.key] = NoHash
  <1>1. \A k \in Keys : d[k] = [obj |-> d[k].obj, dirty |-> d[k].dirty]
    BY DEF Database
  <1>2. CASE r.cmd \in {"get", "marked", "scan", "ping"}
    BY <1>2 DEF Effect
  <1>3. CASE r.key \notin Keys
    BY <1>2, <1>3 DEF Effect
  <1>4. CASE r.key \in Keys /\ r.cmd = "mark"
    BY <1>1, <1>4 DEF Effect, Database
  <1>5. CASE r.key \in Keys /\ r.cmd = "unmark"
    BY <1>1, <1>5 DEF Effect, Database
  <1>6. CASE r.key \in Keys /\ r.cmd = "store"
    BY <1>1, <1>6 DEF Effect, Database
  <1>7. CASE r.key \in Keys /\ r.cmd = "del"
    BY <1>7 DEF Effect, Database
  <1>8. r.cmd \in {"get", "marked", "scan", "ping", "mark", "unmark", "store", "del"}
    BY DEF Req
  <1> QED
    BY <1>2, <1>3, <1>4, <1>5, <1>6, <1>7, <1>8

\* The database after some of the requests of a buffer.
LEMMA SomeExecuted ==
    ASSUME NEW R, NEW d, NEW reqs \in Seq(R), NEW D, \A n \in 0..Len(reqs) : After(d, reqs)[n] \in D,
           \A e \in D, r \in R : Effect(e, r) \in D
    PROVE  /\ Executed(d, reqs).db \in D
           /\ \A i \in 0..Len(reqs) : Executed(d, SubSeq(reqs, 1, i)).db \in D
  <1>1. Len(reqs) \in Nat
    OBVIOUS
  <1>2. d \in D
    BY <1>1, AfterSteps
  <1>3. \A s \in Seq(R) : Executed(d, s).db = After(d, s)[Len(s)] /\ Len(s) \in 0..Len(s)
    BY DEF Executed
  <1>4. \A s \in Seq(R) : Executed(d, s).db \in D
    BY <1>2, <1>3, AfterKeeps
  <1>5. \A i \in 0..Len(reqs) : SubSeq(reqs, 1, i) \in Seq(R)
    OBVIOUS
  <1> QED
    BY <1>4, <1>5

\* Requests that only read.
Reading == {"get", "marked", "scan", "ping"}
\* Requests that only read: the database stays, and each reply tells it.
LEMMA OnlyRead ==
    ASSUME NEW V, NEW d \in Database(V), NEW reqs \in Seq(Req(V)),
           \A i \in DOMAIN reqs : reqs[i].cmd \in Reading
    PROVE  /\ Executed(d, reqs).db = d
           /\ \A i \in 0..Len(reqs) : Executed(d, SubSeq(reqs, 1, i)).db = d
           /\ \A i \in 1..Len(reqs) : Executed(d, reqs).in[i] = Answer(d, reqs[i])
  <1> DEFINE R == {r \in Req(V) : r.cmd \in Reading}
  <1>1. \A i \in 1..Len(reqs) : reqs[i] \in R
    OBVIOUS
  <1>2. reqs \in Seq(R)
    <2> HIDE DEF R
    <2>1. Len(reqs) \in Nat /\ reqs \in [1..Len(reqs) -> Req(V)]
      OBVIOUS
    <2>2. reqs \in [1..Len(reqs) -> R]
      BY <1>1, <2>1
    <2> QED
      BY <2>1, <2>2
  <1>3. \A e \in {d}, r \in R : Effect(e, r) \in {d}
    BY EffectIs DEF Reading
  <1> HIDE DEF R
  <1>4. \A n \in 0..Len(reqs) : After(d, reqs)[n] \in {d}
    BY <1>2, <1>3, AfterKeeps
  <1>5. Len(reqs) \in Nat /\ \A i \in 1..Len(reqs) : i - 1 \in 0..Len(reqs)
    OBVIOUS
  <1>6. \A i \in 1..Len(reqs) : Executed(d, reqs).in[i] = Answer(After(d, reqs)[i - 1], reqs[i])
    BY <1>5 DEF Executed
  <1>7. /\ Executed(d, reqs).db \in {d}
        /\ \A i \in 0..Len(reqs) : Executed(d, SubSeq(reqs, 1, i)).db \in {d}
    BY <1>2, <1>3, <1>4, SomeExecuted
  <1> QED
    BY <1>4, <1>5, <1>6, <1>7

\* Objects are stored: marks stay, and no object goes away.
Grown(d, e) == \A k \in Keys : e[k].dirty = d[k].dirty /\ (d[k].obj # Absent => e[k].obj # Absent)

\* Requests that read or store.
LEMMA OnlyStored ==
    ASSUME NEW V, Absent \notin V, NEW d \in Database(V), NEW reqs \in Seq(Req(V)),
           \A i \in DOMAIN reqs : reqs[i].cmd \in Reading \cup {"store"}
    PROVE  /\ Grown(d, Executed(d, reqs).db)
           /\ \A i \in 0..Len(reqs) : Grown(d, Executed(d, SubSeq(reqs, 1, i)).db)
  <1> DEFINE R == {r \in Req(V) : r.cmd \in Reading \cup {"store"}}
             D == {e \in Database(V) : Grown(d, e)}
  <1>1. \A i \in 1..Len(reqs) : reqs[i] \in R
    OBVIOUS
  <1>2. reqs \in Seq(R)
    <2> HIDE DEF R
    <2>1. Len(reqs) \in Nat /\ reqs \in [1..Len(reqs) -> Req(V)]
      OBVIOUS
    <2>2. reqs \in [1..Len(reqs) -> R]
      BY <1>1, <2>1
    <2> QED
      BY <2>1, <2>2
  <1>3. ASSUME NEW e \in D, NEW r \in R PROVE Effect(e, r) \in D
    <2>1. Effect(e, r) \in Database(V)
      BY EffectTyped
    <2>2. CASE r.cmd \in Reading
      <3>1. e \in Database(V) /\ r \in Req(V) /\ r.cmd \in {"get", "marked", "scan", "ping"}
        BY <2>2 DEF Reading
      <3>2. Effect(e, r) = e
        BY <3>1, EffectIs
      <3> QED
        BY <3>2
    <2>3. CASE r.cmd = "store"
      <3>1. r.key \in Keys /\ r.val \in V
        BY <2>3 DEF Req
      <3>2. /\ Effect(e, r)[r.key] = [obj |-> r.val, dirty |-> e[r.key].dirty]
            /\ \A k \in Keys : k # r.key => Effect(e, r)[k] = e[k]
        BY <2>3, <3>1, EffectIs
      <3>3. Effect(e, r)[r.key].obj # Absent /\ Effect(e, r)[r.key].dirty = e[r.key].dirty
        BY <3>1, <3>2
      <3> QED
        BY <2>1, <3>2, <3>3 DEF Grown
    <2> QED
      BY <2>2, <2>3
  <1>4. d \in D
    BY DEF Grown
  <1>5. \A e \in D : Grown(d, e)
    OBVIOUS
  <1> HIDE DEF R, D
  <1>6. \A n \in 0..Len(reqs) : After(d, reqs)[n] \in D
    BY <1>2, <1>3, <1>4, AfterKeeps
  <1>7. /\ Executed(d, reqs).db \in D
        /\ \A i \in 0..Len(reqs) : Executed(d, SubSeq(reqs, 1, i)).db \in D
    BY <1>2, <1>3, <1>6, SomeExecuted
  <1> QED
    BY <1>5, <1>7

\* All keys of these requests are marked, and no others.
MarkedAll(d, e, reqs) ==
    \A k \in Keys :
        /\ e[k].obj = d[k].obj
        /\ e[k].dirty <=> d[k].dirty \/ \E i \in DOMAIN reqs : reqs[i].key = k

\* The effect of one mark.
LEMMA MarkIs ==
    ASSUME NEW V, NEW e \in Database(V), NEW r \in Req(V), r.cmd = "mark"
    PROVE  /\ r.key \in Keys
           /\ Effect(e, r)[r.key].obj = e[r.key].obj /\ Effect(e, r)[r.key].dirty = TRUE
           /\ \A k \in Keys : k # r.key => Effect(e, r)[k] = e[k]
  <1>1. r.key \in Keys
    BY DEF Req
  <1>2. /\ Effect(e, r)[r.key] = [obj |-> e[r.key].obj, dirty |-> TRUE]
        /\ \A k \in Keys : k # r.key => Effect(e, r)[k] = e[k]
    BY <1>1, EffectIs
  <1> QED
    BY <1>1, <1>2

\* A pipeline of marks marks its keys and nothing else.
LEMMA OnlyMarked ==
    ASSUME NEW V, NEW d \in Database(V), NEW reqs \in Seq(Req(V)),
           \A i \in DOMAIN reqs : reqs[i].cmd = "mark"
    PROVE  MarkedAll(d, Executed(d, reqs).db, reqs)
  <1> DEFINE A == After(d, reqs)
             Upto(n) == \A k \in Keys :
                            /\ A[n][k].obj = d[k].obj
                            /\ A[n][k].dirty <=> d[k].dirty \/ \E i \in 1..n : reqs[i].key = k
             T == {n \in Nat : n <= Len(reqs) => Upto(n)}
  <1>1. A[0] = d /\ \A n \in 1..Len(reqs) : A[n] = Effect(A[n - 1], reqs[n])
    BY AfterSteps
  <1>2. \A n \in 0..Len(reqs) : A[n] \in Database(V)
    BY AfterKeeps, EffectTyped
  <1>3. Executed(d, reqs).db = A[Len(reqs)]
    BY DEF Executed
  <1> HIDE DEF A
  <1>4. 0 \in T
    BY <1>1
  <1>5. ASSUME NEW n \in T PROVE n + 1 \in T
    <2> SUFFICES ASSUME n + 1 <= Len(reqs) PROVE Upto(n + 1)
      OBVIOUS
    <2>1. Upto(n) /\ n \in 0..Len(reqs) /\ n + 1 \in 1..Len(reqs) /\ (n + 1) - 1 = n
      OBVIOUS
    <2> DEFINE r == reqs[n + 1]
               e == A[n]
    <2>2. r \in Req(V) /\ r.cmd = "mark" /\ r.key \in Keys /\ e \in Database(V)
      BY <1>2, <2>1 DEF Req
    <2>3. A[n + 1] = Effect(e, r)
      BY <1>1, <2>1
    <2> HIDE DEF r, e
    <2>4. /\ A[n + 1][r.key].obj = e[r.key].obj /\ A[n + 1][r.key].dirty = TRUE
          /\ \A k \in Keys : k # r.key => A[n + 1][k] = e[k]
      <3> HIDE DEF T, Upto
      <3>1. /\ Effect(e, r)[r.key].obj = e[r.key].obj /\ Effect(e, r)[r.key].dirty = TRUE
            /\ \A k \in Keys : k # r.key => Effect(e, r)[k] = e[k]
        BY <2>2, MarkIs, Zenon
      <3> QED
        BY <2>3, <3>1, Zenon
    <2> SUFFICES ASSUME NEW k \in Keys
                 PROVE  /\ A[n + 1][k].obj = d[k].obj
                        /\ A[n + 1][k].dirty <=> d[k].dirty \/ \E i \in 1..(n + 1) : reqs[i].key = k
      OBVIOUS
    <2>5. e[k].obj = d[k].obj /\ (e[k].dirty <=> d[k].dirty \/ \E i \in 1..n : reqs[i].key = k)
      BY <2>1 DEF e
    <2>6. (\E i \in 1..(n + 1) : reqs[i].key = k) <=> r.key = k \/ \E i \in 1..n : reqs[i].key = k
      BY <2>1 DEF r
    <2>7. CASE k = r.key
      <3>1. A[n + 1][k].obj = e[k].obj /\ A[n + 1][k].dirty = TRUE
        BY <2>4, <2>7
      <3> QED
        BY <2>5, <2>6, <2>7, <3>1
    <2>8. CASE k # r.key
      <3>1. A[n + 1][k] = e[k]
        BY <2>4, <2>8
      <3> QED
        BY <2>5, <2>6, <2>8, <3>1
    <2> QED
      BY <2>7, <2>8
  <1>6. T = Nat
    <2> HIDE DEF T
    <2>1. T \in SUBSET Nat
      BY DEF T
    <2> QED
      BY <1>4, <1>5, <2>1, Induction
  <1>7. Len(reqs) \in Nat /\ DOMAIN reqs = 1..Len(reqs)
    OBVIOUS
  <1>8. Upto(Len(reqs))
    BY <1>6, <1>7
  <1> QED
    BY <1>3, <1>7, <1>8 DEF MarkedAll

\* The replies and the requests of a connection are for these keys.
LEMMA RequestsOf ==
    ASSUME NEW V, NEW c \in Conn(V), NEW cmd, NEW keys \in Seq(Keys), Outstanding(c) = Requests(cmd, keys)
    PROVE  /\ \A i \in DOMAIN c.in : /\ c.in[i].of = Request(cmd, c.in[i].of.key)
                                     /\ c.in[i].of.key \in Keys /\ InRange(c.in[i].of.key, keys)
           /\ \A i \in DOMAIN c.out : /\ c.out[i] = Request(cmd, c.out[i].key)
                                      /\ c.out[i].key \in Keys /\ InRange(c.out[i].key, keys)
           /\ keys = <<>> => c.in = <<>> /\ c.out = <<>>
  <1> DEFINE all == Outstanding(c)
  <1>1. /\ all \in Seq(Req(V)) /\ Len(all) = Len(c.in) + Len(c.out)
        /\ \A i \in 1..Len(c.in) : all[i] = c.in[i].of
        /\ \A i \in 1..Len(c.out) : all[Len(c.in) + i] = c.out[i]
        /\ all = <<>> <=> Clean(c)
    BY OutstandingTyped
  <1>2. all = [i \in DOMAIN keys |-> Request(cmd, keys[i])]
    BY DEF Requests
  <1> HIDE DEF all
  <1>3. DOMAIN all = DOMAIN keys /\ \A j \in DOMAIN keys : all[j] = Request(cmd, keys[j]) /\ keys[j] \in Keys
    BY <1>2
  <1>4. PICK in \in Seq(Reply(V)), out \in Seq(Req(V)) : c.in = in /\ c.out = out
    BY DEF Conn
  <1>5. /\ Len(in) \in Nat /\ DOMAIN in = 1..Len(in) /\ Len(out) \in Nat /\ DOMAIN out = 1..Len(out)
        /\ DOMAIN all = 1..(Len(in) + Len(out))
    BY <1>1, <1>4
  <1>6. ASSUME NEW r, NEW j \in DOMAIN keys, r = all[j]
        PROVE  r = Request(cmd, r.key) /\ r.key \in Keys /\ InRange(r.key, keys)
    <2>1. r = Request(cmd, keys[j]) /\ keys[j] \in Keys
      BY <1>3, <1>6
    <2>2. r.key = keys[j]
      BY <2>1 DEF Request
    <2> QED
      BY <2>1, <2>2 DEF InRange
  <1>7. ASSUME NEW i \in DOMAIN in PROVE i \in DOMAIN keys /\ in[i].of = all[i]
    BY <1>1, <1>3, <1>4, <1>5
  <1>8. ASSUME NEW i \in DOMAIN out PROVE Len(in) + i \in DOMAIN keys /\ out[i] = all[Len(in) + i]
    BY <1>1, <1>3, <1>4, <1>5
  <1>9. \A i \in DOMAIN in : in[i].of = Request(cmd, in[i].of.key)
                             /\ in[i].of.key \in Keys /\ InRange(in[i].of.key, keys)
    BY <1>6, <1>7
  <1>10. \A i \in DOMAIN out : out[i] = Request(cmd, out[i].key) /\ out[i].key \in Keys /\ InRange(out[i].key, keys)
    BY <1>6, <1>8
  <1>11. keys = <<>> => in = <<>> /\ out = <<>>
    <2>1. keys = <<>> => all = <<>>
      BY <1>2
    <2> QED
      BY <1>1, <1>4, <2>1 DEF Clean
  <1> QED
    BY <1>4, <1>9, <1>10, <1>11

\* What these requests tell is the same.
SameTold(cmd, keys, d, e) ==
    \A k \in Keys : InRange(k, keys) => /\ cmd = "get" => e[k].obj = d[k].obj
                                        /\ cmd = "marked" => e[k].dirty = d[k].dirty

\* Replies stay true while what they tell does not change.
LEMMA StillAnswered ==
    ASSUME NEW V, NEW c \in Conn(V), NEW cmd, NEW keys \in Seq(Keys), Outstanding(c) = Requests(cmd, keys),
           NEW d, NEW e, keys = <<>> \/ Answered(c.in, d), cmd \in {"get", "marked"},
           SameTold(cmd, keys, d, e)
    PROVE  Answered(c.in, e)
  <1>1. CASE keys = <<>>
    <2>1. c.in = <<>>
      BY <1>1, RequestsOf
    <2> QED
      BY <2>1 DEF Answered
  <1>2. CASE keys # <<>>
    <2> SUFFICES ASSUME NEW i \in DOMAIN c.in PROVE c.in[i] = Answer(e, c.in[i].of)
      BY DEF Answered
    <2> DEFINE r == c.in[i].of
    <2>1. r = Request(cmd, r.key) /\ r.key \in Keys /\ InRange(r.key, keys)
      BY RequestsOf
    <2>2. c.in[i] = Answer(d, r)
      BY <1>2 DEF Answered
    <2> HIDE DEF r
    <2>3. r.cmd = cmd
      BY <2>1 DEF Request
    <2>4. CASE cmd = "get"
      <3>1. e[r.key].obj = d[r.key].obj
        BY <2>1, <2>4 DEF SameTold
      <3> QED
        BY <2>2, <2>3, <2>4, <3>1 DEF Answer, r
    <2>5. CASE cmd = "marked"
      <3>1. e[r.key].dirty = d[r.key].dirty
        BY <2>1, <2>5 DEF SameTold
      <3> QED
        BY <2>2, <2>3, <2>5, <3>1 DEF Answer, r
    <2> QED
      BY <2>4, <2>5
  <1> QED
    BY <1>1, <1>2

\* The connections of the synchronisation owe what it waits for.
OwesOnly(h, s) ==
    \A role \in SyncRoles : role \in DOMAIN h =>
        /\ h[role] \in Conn(Object) /\ h[role].up
        /\ Outstanding(h[role]) = Requests(SentOn(role), Pending(role, s))

\* In order, the connections of the synchronisation owe the pending replies.
LEMMA Owing ==
    ASSUME TypedFor(Object), Aligned, "sync" \notin lostBy
    PROVE  OwesOnly(held, sync)
  <1> SUFFICES ASSUME NEW role \in SyncRoles, role \in DOMAIN held
               PROVE  /\ held[role] \in Conn(Object) /\ held[role].up
                      /\ Outstanding(held[role]) = SyncDue(role, sync)
    BY DEF OwesOnly, SyncDue
  <1>1. held[role] \in Conn(Object)
    BY DEF TypedFor, PipeTyped
  <1>2. Due(role) = SyncDue(role, sync) /\ ThreadOf(role) = "sync"
    BY DEF Due, ThreadOf, SyncRoles
  <1>3. Served(held[role], SyncDue(role, sync), "sync", lostBy)
    BY <1>2 DEF Aligned
  <1> QED
    BY <1>1, <1>3 DEF Served

\* The same after the step.
LEMMA OwingNext ==
    ASSUME TypedFor(Object)', Aligned', "sync" \notin lostBy'
    PROVE  OwesOnly(held', sync')
  <1> SUFFICES ASSUME NEW role \in SyncRoles, role \in DOMAIN held'
               PROVE  /\ held'[role] \in Conn(Object) /\ held'[role].up
                      /\ Outstanding(held'[role]) = SyncDue(role, sync')
    BY DEF OwesOnly, SyncDue
  <1>1. held'[role] \in Conn(Object)
    BY DEF TypedFor, PipeTyped
  <1>2. Due(role)' = SyncDue(role, sync') /\ ThreadOf(role) = "sync"
    BY DEF Due, ThreadOf, SyncRoles
  <1>3. Served(held'[role], SyncDue(role, sync'), "sync", lostBy')
    BY <1>2 DEF Aligned
  <1> QED
    BY <1>1, <1>3 DEF Served

\* The keys that are waited for.
LEMMA PendingTyped ==
    ASSUME NEW V, NEW s, SyncOk(s, V), NEW role
    PROVE  /\ Pending(role, s) \in Seq(Keys)
           /\ \A k : InRange(k, Pending(role, s)) => InRange(k, s.cache)
  <1>1. s.cache \in Seq(Keys) /\ (s.cache # <<>> <=> s.pc \in Answering)
    BY SyncHas DEF SyncOk
  <1>2. s.cache # <<>> => Tail(s.cache) \in Seq(Keys) /\ \A k : InRange(k, Tail(s.cache)) => InRange(k, s.cache)
    BY <1>1, RestOf
  <1>3. RestDue(role, s.pc) => s.pc \in Answering
    BY DEF RestDue, Answering
  <1> QED
    BY <1>1, <1>2, <1>3, EmptyWalk DEF Pending

\* True replies followed by true replies.
LEMMA TrueReplies ==
    ASSUME NEW V, NEW d, NEW in \in Seq(Reply(V)), NEW new \in Seq(Reply(V)),
           Answered(in, d), Answered(new, d), in \o new # <<>>
    PROVE  /\ Head(in \o new) = Answer(d, Head(in \o new).of)
           /\ Answered(Tail(in \o new), d)
  <1> DEFINE all == in \o new
  <1>1. /\ all \in Seq(Reply(V)) /\ Len(all) = Len(in) + Len(new)
        /\ \A i \in 1..Len(in) : all[i] = in[i]
        /\ \A i \in 1..Len(new) : all[Len(in) + i] = new[i]
    BY SeqConcat
  <1>2. all # <<>>
    OBVIOUS
  <1> HIDE DEF all
  <1>3. ASSUME NEW i \in 1..Len(all) PROVE all[i] = Answer(d, all[i].of)
    <2>1. Len(in) \in Nat /\ Len(new) \in Nat /\ DOMAIN in = 1..Len(in) /\ DOMAIN new = 1..Len(new)
      OBVIOUS
    <2>2. CASE i \in 1..Len(in)
      BY <1>1, <2>1, <2>2 DEF Answered
    <2>3. CASE i \notin 1..Len(in)
      <3>1. PICK j \in 1..Len(new) : i = Len(in) + j
        <4>1. i - Len(in) \in 1..Len(new) /\ i = Len(in) + (i - Len(in))
          BY <1>1, <2>1, <2>3
        <4> QED
          BY <4>1
      <3>2. all[i] = new[j]
        BY <1>1, <3>1
      <3> QED
        BY <2>1, <3>1, <3>2 DEF Answered
    <2> QED
      BY <2>2, <2>3
  <1>4. /\ Len(all) \in Nat /\ Len(all) >= 1 /\ Head(all) = all[1]
        /\ Tail(all) \in Seq(Reply(V)) /\ Len(Tail(all)) = Len(all) - 1
        /\ \A i \in 1..(Len(all) - 1) : Tail(all)[i] = all[i + 1] /\ i + 1 \in 1..Len(all)
    BY <1>1, <1>2, SeqTail
  <1>5. Head(all) = Answer(d, Head(all).of)
    BY <1>3, <1>4
  <1>6. ASSUME NEW i \in DOMAIN Tail(all) PROVE Tail(all)[i] = Answer(d, Tail(all)[i].of)
    <2>1. i \in 1..(Len(all) - 1)
      BY <1>4
    <2> QED
      BY <1>3, <1>4, <2>1
  <1> QED
    BY <1>5, <1>6 DEF Answered, all

\* A pipeline of reading requests is executed: all replies are true.
TrulyRead(a, c, o, cmd, keys) ==
    /\ o.db = db[a]
    /\ Answered(c.in, db[a]) =>
          /\ o.reply = Answer(db[a], Request(cmd, Head(keys)))
          /\ Answered(o.conn.in, db[a])

\* response() on a pipeline of reads takes a true reply and leaves true ones.
LEMMA ReadReplied ==
    ASSUME NEW V, NEW a, NEW c \in Conn(V), db[a] \in Database(V), NEW o, Replied(a, c, o),
           NEW cmd \in Reading, NEW keys \in Seq(Keys), Outstanding(c) = Requests(cmd, keys)
    PROVE  TrulyRead(a, c, o, cmd, keys)
  <1> DEFINE d == db[a]
  <1>1. PICK in \in Seq(Reply(V)), out \in Seq(Req(V)) : c.in = in /\ c.out = out
    BY DEF Conn
  <1>2. \A i \in DOMAIN out : out[i].cmd \in Reading
    <2>1. \A i \in DOMAIN out : out[i] = Request(cmd, out[i].key)
      BY <1>1, RequestsOf
    <2> QED
      BY <2>1 DEF Request
  <1> DEFINE new == Executed(d, out).in
             all == in \o new
  <1>3. /\ o.db = Executed(d, out).db
        /\ o.reply = Head(all) /\ o.conn = [up |-> TRUE, out |-> <<>>, in |-> Tail(all)]
        /\ Outstanding(c) # <<>> /\ o.reply.of = Head(Outstanding(c))
    BY <1>1 DEF Replied
  <1>4. o.db = d /\ \A i \in 1..Len(out) : new[i] = Answer(d, out[i])
    BY <1>2, <1>3, OnlyRead
  <1>5. /\ new \in Seq(Reply(V)) /\ Len(new) = Len(out)
        /\ \A i \in 1..Len(out) : new[i].of = out[i]
    BY ExecutedTyped
  <1> SUFFICES ASSUME Answered(in, d)
               PROVE  o.reply = Answer(d, Request(cmd, Head(keys))) /\ Answered(o.conn.in, d)
    BY <1>1, <1>4 DEF TrulyRead
  <1> HIDE DEF new, d
  <1>6. Answered(new, d)
    <2>1. DOMAIN new = 1..Len(out)
      BY <1>5
    <2> QED
      BY <1>4, <1>5, <2>1 DEF Answered
  <1>7. all # <<>>
    <2>1. Len(Outstanding(c)) = Len(in) + Len(out) /\ Outstanding(c) \in Seq(Req(V)) /\ Len(Outstanding(c)) # 0
      BY <1>1, <1>3, OutstandingTyped, SeqEmpty
    <2>2. Len(in) + Len(new) # 0
      BY <1>5, <2>1
    <2>3. Len(in \o new) # 0
      BY <1>5, <2>2
    <2> QED
      BY <2>3
  <1>8. Head(all) = Answer(d, Head(all).of) /\ Answered(Tail(all), d)
    BY <1>5, <1>6, <1>7, TrueReplies
  <1> HIDE DEF all
  <1>9. keys # <<>>
    BY <1>3, RequestsTail
  <1>10. o.reply.of = Request(cmd, Head(keys))
    BY <1>3, <1>9, RequestsTail
  <1>11. o.reply = Answer(d, o.reply.of) /\ o.conn.in = Tail(all)
    BY <1>3, <1>8
  <1> QED
    BY <1>8, <1>10, <1>11

\* The synchronisation and its surroundings are in order before and after a step.
InOrder ==
    /\ TypedFor(Object) /\ Taken /\ AllClean(pool) /\ OwesOnly(held, sync)
    /\ TypedFor(Object)' /\ OwesOnly(held', sync')
    /\ "sync" \notin lostBy /\ "sync" \notin lostBy'

\* The facts InOrder gives.
LEMMA OrderHas ==
    ASSUME InOrder
    PROVE  /\ held \in [DOMAIN held -> Conn(Object)] /\ lostBy \in SUBSET Threads
           /\ DOMAIN held \subseteq SyncRoles \cup {"bulk"}
           /\ db \in [Addrs -> Database(Object)] /\ db' \in [Addrs -> Database(Object)]
           /\ db[Src] \in Database(Object) /\ db[Dst] \in Database(Object)
           /\ db'[Src] \in Database(Object) /\ db'[Dst] \in Database(Object)
           /\ SyncOk(sync, Object) /\ sync \in SyncRecord(Object) /\ Needs(sync) \subseteq DOMAIN held
           /\ SyncOk(sync', Object) /\ sync' \in SyncRecord(Object)
           /\ OwesOnly(held, sync) /\ OwesOnly(held', sync')
           /\ pool \in Pooled(Object) /\ AllClean(pool)
           /\ "sync" \notin lostBy /\ "sync" \notin lostBy'
  <1>1. TypedFor(Object) /\ Taken /\ TypedFor(Object)'
    BY DEF InOrder
  <1>2. db \in [Addrs -> Database(Object)] /\ SyncOk(sync, Object) /\ sync \in SyncRecord(Object)
    BY <1>1, AlignedHas
  <1>3. db' \in [Addrs -> Database(Object)] /\ SyncOk(sync', Object)
    BY <1>1 DEF TypedFor, PipeTyped
  <1>4. sync' \in SyncRecord(Object)
    BY <1>3 DEF SyncOk
  <1>5. Src \in Addrs /\ Dst \in Addrs
    BY DEF Addrs
  <1> QED
    BY <1>1, <1>2, <1>3, <1>4, <1>5, AlignedHas DEF InOrder

\* The next reply of a pipeline is taken.
LEMMA SoundResponse ==
    ASSUME InOrder, NEW role \in SyncRoles, role \in DOMAIN held, NEW o \in Response(role), Uses(role, o),
           Pending(role, sync) # <<>>, NEW a, a = Opens[role][1]
    PROVE  /\ DOMAIN held' = DOMAIN held /\ \A r \in DOMAIN held : r # role => held'[r] = held[r]
           /\ \A x \in Addrs : x # a => db'[x] = db[x]
           /\ touched' = touched /\ gaveUp' = gaveUp
           /\ SentOn(role) \in Reading =>
                 /\ db' = db
                 /\ Answered(held[role].in, db[a]) =>
                       /\ o.reply = Answer(db[a], Request(SentOn(role), Head(Pending(role, sync))))
                       /\ Answered(held'[role].in, db[a])
           /\ role = "marks" =>
                 MarkedAll(db[Dst], db'[Dst], held["marks"].out) /\ held'["marks"].out = <<>>
  <1> DEFINE c == held[role]
             keys == Pending(role, sync)
  <1>1. /\ c \in Conn(Object) /\ c.up /\ Outstanding(c) = Requests(SentOn(role), keys)
        /\ keys \in Seq(Keys) /\ a \in Addrs /\ db[a] \in Database(Object)
    <2>1. c \in Conn(Object) /\ c.up /\ Outstanding(c) = Requests(SentOn(role), keys)
      BY OrderHas DEF OwesOnly
    <2>2. keys \in Seq(Keys)
      BY OrderHas, PendingTyped
    <2>3. a \in Addrs /\ db[a] \in Database(Object)
      BY AddrOf, OrderHas
    <2> QED
      BY <2>1, <2>2, <2>3
  <1>2. /\ db' = [db EXCEPT ![a] = o.db] /\ Note("sync", o) /\ With(role, o.conn)
        /\ touched' = touched /\ gaveUp' = gaveUp
    BY DEF Uses
  <1>3. o \in ResponseOutcomes(a, c)
    BY DEF Response
  <1> HIDE DEF c, keys
  <1>4. o.conn \in Conn(Object) /\ (Replied(a, c, o) \/ TimedOut(a, c, o) \/ Failed(a, c, o) \/ NotSent(a, c, o))
    BY <1>1, <1>3, ResponseIs
  <1>5. Replied(a, c, o)
    <2>1. ~o.lost
      BY <1>2, OrderHas, NoteIs DEF Threads
    <2>2. Outstanding(c) # <<>>
      BY <1>1, RequestsTail DEF keys
    <2>3. ~Clean(c)
      BY <1>1, <2>2, OutstandingTyped
    <2> QED
      BY <1>1, <1>4, <2>1, <2>3 DEF TimedOut, Failed, NotSent
  <1>6. /\ DOMAIN held' = DOMAIN held /\ held'[role] = o.conn
        /\ \A r \in DOMAIN held : r # role => held'[r] = held[r]
    <2>1. held \in [DOMAIN held -> Conn(Object)]
      BY OrderHas
    <2>2. DOMAIN held' = DOMAIN held \cup {role}
      BY <1>2, <1>4, <2>1, WithIs
    <2> QED
      BY <1>2, <1>4, <2>1, <2>2, WithIs
  <1>7. db'[a] = o.db /\ \A x \in Addrs : x # a => db'[x] = db[x]
    BY <1>1, <1>2, OrderHas
  <1>8. ASSUME SentOn(role) \in Reading
        PROVE  /\ db' = db
               /\ Answered(c.in, db[a]) =>
                     /\ o.reply = Answer(db[a], Request(SentOn(role), Head(keys)))
                     /\ Answered(held'[role].in, db[a])
    <2>1. /\ o.db = db[a]
          /\ Answered(c.in, db[a]) =>
                 /\ o.reply = Answer(db[a], Request(SentOn(role), Head(keys)))
                 /\ Answered(o.conn.in, db[a])
      <3>1. PICK cmd \in Reading : cmd = SentOn(role)
        BY <1>8
      <3>2. Outstanding(c) = Requests(cmd, keys)
        BY <1>1, <3>1
      <3>3. /\ o.db = db[a]
            /\ Answered(c.in, db[a]) =>
                   /\ o.reply = Answer(db[a], Request(cmd, Head(keys)))
                   /\ Answered(o.conn.in, db[a])
        <4>1. c \in Conn(Object) /\ db[a] \in Database(Object) /\ keys \in Seq(Keys)
          BY <1>1
        <4> QED
          <5>1. TrulyRead(a, c, o, cmd, keys)
            BY <1>5, <3>2, <4>1, ReadReplied
          <5> QED
            BY <5>1 DEF TrulyRead
      <3> QED
        BY <3>1, <3>3
    <2>2. db' = db
      BY <1>2, <2>1, OrderHas
    <2> QED
      BY <1>6, <2>1, <2>2
  <1>9. ASSUME role = "marks"
        PROVE  MarkedAll(db[Dst], db'[Dst], c.out) /\ held'[role].out = <<>>
    <2>1. a = Dst /\ SentOn(role) = "mark"
      BY <1>9, AddrOf DEF SentOn
    <2>2. c.out \in Seq(Req(Object)) /\ \A i \in DOMAIN c.out : c.out[i].cmd = "mark"
      <3>1. \A i \in DOMAIN c.out : c.out[i] = Request("mark", c.out[i].key)
        BY <1>1, <2>1, RequestsOf
      <3>2. \A k : Request("mark", k).cmd = "mark"
        BY DEF Request
      <3>3. c.out \in Seq(Req(Object))
        BY <1>1, ConnHas
      <3>4. ASSUME NEW i \in DOMAIN c.out PROVE c.out[i].cmd = "mark"
        BY <3>1, <3>2, Zenon
      <3> QED
        BY <3>3, <3>4
    <2>3. o.db = Executed(db[a], c.out).db /\ o.conn.out = <<>>
      BY <1>5 DEF Replied
    <2> QED
      BY <1>1, <1>6, <1>7, <2>1, <2>2, <2>3, OnlyMarked
  <1> QED
    BY <1>2, <1>6, <1>7, <1>8, <1>9 DEF c, keys

\* No other connection is used.
OthersKept(role) == DOMAIN held' = DOMAIN held /\ \A x \in DOMAIN held : x # role => held'[x] = held[x]

\* A request and its response.
Commanded(role, r, o, a) ==
    /\ OthersKept(role) /\ held'[role].in = <<>>
    /\ db' = [db EXCEPT ![a] = Effect(db[a], r)] /\ db[a] \in Database(Object)
    /\ o.reply = Answer(db[a], r)
    /\ touched' = touched /\ gaveUp' = gaveUp

\* In order, command() on an idle connection executes its request and no other.
LEMMA SoundCommand ==
    ASSUME InOrder, NEW role \in SyncRoles, role \in DOMAIN held, NEW r \in Req(Object),
           NEW o \in Command(role, r), Uses(role, o), Pending(role, sync) = <<>>,
           NEW a, a = Opens[role][1]
    PROVE  Commanded(role, r, o, a)
  <1> DEFINE c == held[role]
  <1>1. /\ c \in Conn(Object) /\ c.up /\ Clean(c) /\ a \in Addrs /\ db[a] \in Database(Object)
    <2>1. c \in Conn(Object) /\ c.up /\ Outstanding(c) = Requests(SentOn(role), <<>>)
      BY OrderHas DEF OwesOnly
    <2>2. Requests(SentOn(role), <<>>) = <<>>
      BY DEF Requests
    <2>3. a \in Addrs /\ db[a] \in Database(Object)
      BY AddrOf, OrderHas
    <2> QED
      BY <2>1, <2>2, <2>3, OutstandingTyped
  <1>2. /\ db' = [db EXCEPT ![a] = o.db] /\ Note("sync", o) /\ With(role, o.conn)
        /\ touched' = touched /\ gaveUp' = gaveUp
    BY DEF Uses
  <1>3. o \in CommandOutcomes(a, c, r)
    BY DEF Command
  <1> HIDE DEF c
  <1>4. ~o.lost
    BY <1>2, OrderHas, NoteIs DEF Threads
  <1>5. /\ o.conn \in Conn(Object) /\ Clean(o.conn)
        /\ o.reply = Answer(db[a], r) /\ o.db = Effect(db[a], r)
    <2>1. /\ o.conn \in Conn(Object) /\ Clean(o.conn)
          /\ \/ o.reply = Answer(db[a], r) /\ o.db = Effect(db[a], r)
             \/ o.lost \/ ~c.up
      BY <1>1, <1>3, CommandIs
    <2> QED
      BY <1>1, <1>4, <2>1
  <1>6. /\ DOMAIN held' = DOMAIN held /\ held'[role] = o.conn
        /\ \A x \in DOMAIN held : x # role => held'[x] = held[x]
    <2>1. held \in [DOMAIN held -> Conn(Object)]
      BY OrderHas
    <2>2. DOMAIN held' = DOMAIN held \cup {role}
      BY <1>2, <1>5, <2>1, WithIs
    <2> QED
      BY <1>2, <1>5, <2>1, <2>2, WithIs
  <1> QED
    BY <1>1, <1>2, <1>5, <1>6 DEF Clean, Commanded, OthersKept

-----------------------------------------------------------------------------
(* What the steps of a synchronisation do when nothing goes wrong *)

\* These connections carry no pipeline.
LEMMA NonePending ==
    ASSUME NEW s, NEW role \in {"meta", "cleanup", "delete_walk", "source_walk"}
    PROVE  Pending(role, s) = <<>>
  BY DEF Pending, AllDue, RestDue

\* A database is written back as it is.
LEMMA SameDatabase ==
    ASSUME NEW a \in Addrs, db \in [Addrs -> Database(Object)], NEW e, e = [db EXCEPT ![a] = db[a]]
    PROVE  e = db
  OBVIOUS

\* The reply of a scan.
LEMMA ScanAnswer ==
    ASSUME NEW d, NEW r, r = Request("scan", NoKey)
    PROVE  Answer(d, r).is = "keys" /\ Answer(d, r).keys = Scanned(d)
  <1>1. r.cmd = "scan"
    BY DEF Request
  <1> QED
    BY <1>1 DEF Answer

Walked(pc, role, then, a) ==
    /\ OthersKept(role) /\ db' = db /\ a = IF pc = "scan source" THEN Src ELSE Dst
    /\ sync.pc = pc
    /\ sync' = [sync EXCEPT !.pc = then, !.keys = Scanned(db[a])]

\* A walk lists the keys of its database.
LEMMA WalkDoes ==
    ASSUME InOrder, NEW pc, NEW role, NEW then, Walk(pc, role, then),
           \/ pc = "scan destination" /\ role = "meta" /\ then = "mark"
           \/ pc = "scan source" /\ role = "source_walk" /\ then = "request"
           \/ pc = "scan marked" /\ role = "delete_walk" /\ then = "marked",
           NEW a, a = Opens[role][1]
    PROVE  Walked(pc, role, then, a)
  <1>1. PICK o \in Command(role, Request("scan", NoKey)) :
          /\ Uses(role, o)
          /\ sync' = IF o.reply.is = "keys" THEN [sync EXCEPT !.pc = then, !.keys = o.reply.keys]
                     ELSE [sync EXCEPT !.pc = "err"]
    BY DEF Walk
  <1>2. sync.pc = pc /\ role \in SyncRoles /\ role \in DOMAIN held
    BY OrderHas DEF Walk, Needs, SyncRoles
  <1>3. a \in Addrs /\ a = IF pc = "scan source" THEN Src ELSE Dst
    BY <1>2, AddrOf
  <1>4. PICK r : r = Request("scan", NoKey)
    OBVIOUS
  <1>5. r \in Req(Object) /\ o \in Command(role, r) /\ Pending(role, sync) = <<>>
    BY <1>1, <1>4, NoKeyTyped, NonePending
  <1>6. /\ OthersKept(role) /\ db[a] \in Database(Object)
        /\ db' = [db EXCEPT ![a] = Effect(db[a], r)] /\ o.reply = Answer(db[a], r)
    <2>1. Commanded(role, r, o, a)
      BY <1>1, <1>2, <1>5, SoundCommand
    <2> QED
      BY <2>1 DEF Commanded
  <1>7. Effect(db[a], r) = db[a]
    BY <1>4, <1>5, <1>6, EffectIs DEF Request
  <1>8. o.reply.is = "keys" /\ o.reply.keys = Scanned(db[a])
    <2>1. Answer(db[a], r).is = "keys" /\ Answer(db[a], r).keys = Scanned(db[a])
      BY <1>4, ScanAnswer, Zenon
    <2>2. o.reply = Answer(db[a], r)
      BY <1>6
    <2>3. o.reply.is = "keys"
      BY <2>1, <2>2
    <2>4. o.reply.keys = Scanned(db[a])
      BY <2>1, <2>2, Zenon
    <2> QED
      BY <2>3, <2>4
  <1>9. db' = db
    BY <1>3, <1>6, <1>7, SameDatabase, OrderHas
  <1> QED
    BY <1>1, <1>2, <1>3, <1>6, <1>8, <1>9 DEF Walked

\* What Ping does when nothing goes wrong.
LEMMA PingDoes ==
    ASSUME InOrder, Ping
    PROVE  /\ OthersKept("source_walk") /\ db' = db /\ sync.pc = "ping"
           /\ sync' = [sync EXCEPT !.pc = "scan source"]
  <1>1. PICK o \in Command("source_walk", Request("ping", NoKey)) :
          /\ Uses("source_walk", o)
          /\ sync' = [sync EXCEPT !.pc = IF o.reply.is = "pong" THEN "scan source" ELSE "err"]
    BY DEF Ping
  <1>2. sync.pc = "ping" /\ "source_walk" \in SyncRoles /\ "source_walk" \in DOMAIN held
    BY OrderHas DEF Ping, Needs, SyncRoles
  <1>3. PICK a \in Addrs : a = Opens["source_walk"][1]
    BY <1>2, AddrOf
  <1>4. PICK r : r = Request("ping", NoKey)
    OBVIOUS
  <1>5. r \in Req(Object) /\ o \in Command("source_walk", r) /\ Pending("source_walk", sync) = <<>>
    BY <1>1, <1>4, NoKeyTyped, NonePending
  <1>6. /\ OthersKept("source_walk") /\ db[a] \in Database(Object)
        /\ db' = [db EXCEPT ![a] = Effect(db[a], r)] /\ o.reply = Answer(db[a], r)
    <2>1. Commanded("source_walk", r, o, a)
      BY <1>1, <1>2, <1>3, <1>5, SoundCommand
    <2> QED
      BY <2>1 DEF Commanded
  <1>7. Effect(db[a], r) = db[a]
    BY <1>4, <1>5, <1>6, EffectIs DEF Request
  <1>8. o.reply.is = "pong"
    BY <1>4, <1>6 DEF Answer, Request
  <1>9. db' = db
    BY <1>3, <1>6, <1>7, SameDatabase, OrderHas
  <1> QED
    BY <1>1, <1>2, <1>6, <1>8, <1>9

\* What MarkReply does when nothing goes wrong.
LEMMA MarkReplyDoes ==
    ASSUME InOrder, MarkReply
    PROVE  /\ OthersKept("marks") /\ sync.pc = "mark reply" /\ db'[Src] = db[Src]
           /\ MarkedAll(db[Dst], db'[Dst], held["marks"].out) /\ held'["marks"].out = <<>>
           /\ "marks" \in DOMAIN held
           /\ Pending("marks", sync) = sync.cache
           /\ sync' = NextReply(sync, "mark reply", "mark")
  <1>1. PICK o \in Response("marks") : Uses("marks", o)
    BY DEF MarkReply
  <1>2. sync.pc = "mark reply" /\ sync' = NextReply(sync, "mark reply", "mark")
    BY DEF MarkReply
  <1>3. "marks" \in SyncRoles /\ "marks" \in DOMAIN held
    BY <1>2, OrderHas DEF Needs, SyncRoles
  <1>4. Pending("marks", sync) = sync.cache /\ sync.cache # <<>>
    BY <1>2, PendingFilled, OrderHas, SyncHas DEF Answering
  <1>5. PICK a : a = Opens["marks"][1]
    OBVIOUS
  <1>6. a = Dst
    BY <1>3, <1>5, AddrOf
  <1>7. /\ OthersKept("marks") /\ \A x \in Addrs : x # a => db'[x] = db[x]
        /\ MarkedAll(db[Dst], db'[Dst], held["marks"].out) /\ held'["marks"].out = <<>>
    BY <1>1, <1>3, <1>4, <1>5, SoundResponse DEF OthersKept
  <1> QED
    BY <1>2, <1>3, <1>4, <1>6, <1>7, AddrsAre

\* A reply for the first key of the pipeline is taken.
LEMMA ReadDoes ==
    ASSUME InOrder, NEW role \in {"dest", "source_get", "delete_meta"}, role \in DOMAIN held,
           NEW o \in Response(role), Uses(role, o), Pending(role, sync) = sync.cache, sync.pc \in Answering,
           NEW a, a = IF role = "source_get" THEN Src ELSE Dst
    PROVE  /\ OthersKept(role) /\ db' = db
           /\ Answered(held[role].in, db[a]) =>
                 /\ o.reply = Answer(db[a], Request(SentOn(role), Head(sync.cache)))
                 /\ Answered(held'[role].in, db[a])
  <1>1. role \in SyncRoles /\ SentOn(role) \in Reading
    BY DEF SyncRoles, SentOn, Reading
  <1>2. a = Opens[role][1]
    BY <1>1, AddrOf
  <1>3. Pending(role, sync) # <<>>
    BY OrderHas, SyncHas
  <1> QED
    BY <1>1, <1>2, <1>3, SoundResponse DEF OthersKept

\* What a get or a look at the mark answers.
LEMMA AnswerIs ==
    ASSUME NEW d, NEW k
    PROVE  /\ Answer(d, Request("get", k)).is = "object" <=> d[k].obj # Absent
           /\ d[k].obj # Absent => Answer(d, Request("get", k)).obj = [key |-> k, val |-> d[k].obj]
           /\ Answer(d, Request("marked", k)).is = "string" <=> d[k].dirty
           /\ Answer(d, Request("unmark", k)).is = "int"
  <1>1. /\ Request("get", k).key = k /\ Request("get", k).cmd = "get"
        /\ Request("marked", k).key = k /\ Request("marked", k).cmd = "marked"
        /\ Request("unmark", k).cmd = "unmark"
    BY DEF Request
  <1> QED
    BY <1>1 DEF Answer

\* What DestReply does when nothing goes wrong.
LEMMA DestReplyDoes ==
    ASSUME InOrder, DestReply, NEW k, k = Head(sync.cache)
    PROVE  /\ OthersKept("dest") /\ db' = db /\ "dest" \in DOMAIN held /\ sync.pc = "dest reply" /\ k \in Keys
           /\ sync'.pc = IF sync.list THEN "compare" ELSE "source reply"
           /\ sync'.list = sync.list /\ sync'.objs = sync.objs /\ sync'.keys = sync.keys
           /\ sync'.cache = sync.cache /\ sync'.agreed = sync.agreed
           /\ sync.list => sync'.src = [key |-> k, val |-> sync.objs[k]]
           /\ Answered(held["dest"].in, db[Dst]) =>
                 /\ Answered(held'["dest"].in, db[Dst])
                 /\ sync'.found <=> db[Dst][k].obj # Absent
                 /\ sync'.found => sync'.dest = [key |-> k, val |-> db[Dst][k].obj]
  <1>1. PICK o \in Response("dest") :
          /\ Uses("dest", o)
          /\ LET s == [sync EXCEPT !.found = (o.reply.is = "object"), !.dest = Received(o, @)]
             IN  sync' = IF sync.list
                         THEN [s EXCEPT !.pc = "compare",
                                        !.src = [key |-> k, val |-> sync.objs[k]]]
                         ELSE [s EXCEPT !.pc = "source reply"]
    BY DEF DestReply
  <1>2. sync.pc = "dest reply"
    BY DEF DestReply
  <1>3. "dest" \in DOMAIN held
    BY <1>2, OrderHas DEF Needs
  <1>4. sync.pc \in Answering /\ Pending("dest", sync) = sync.cache /\ k \in Keys
    <2>1. sync.pc \in Answering /\ SyncOk(sync, Object)
      BY <1>2, OrderHas DEF Answering
    <2>2. k \in Keys
      BY <2>1, SyncHas
    <2>3. Pending("dest", sync) = sync.cache
      BY <1>2, PendingFilled, OrderHas, SyncHas
    <2> QED
      BY <2>1, <2>2, <2>3
  <1>5. /\ sync'.pc = IF sync.list THEN "compare" ELSE "source reply"
        /\ sync'.list = sync.list /\ sync'.objs = sync.objs /\ sync'.keys = sync.keys
        /\ sync'.cache = sync.cache /\ sync'.agreed = sync.agreed
        /\ sync.list => sync'.src = [key |-> k, val |-> sync.objs[k]]
        /\ sync'.found = (o.reply.is = "object") /\ sync'.dest = Received(o, sync.dest)
    <2>1. sync \in SyncRecord(Object)
      BY OrderHas
    <2> QED
      BY <1>1, <2>1 DEF SyncRecord
  <1>6. /\ OthersKept("dest") /\ db' = db
        /\ Answered(held["dest"].in, db[Dst]) =>
              /\ o.reply = Answer(db[Dst], Request(SentOn("dest"), k))
              /\ Answered(held'["dest"].in, db[Dst])
    BY <1>1, <1>3, <1>4, ReadDoes
  <1>7. SentOn("dest") = "get"
    BY DEF SentOn
  <1>8. ASSUME Answered(held["dest"].in, db[Dst])
        PROVE  /\ Answered(held'["dest"].in, db[Dst])
               /\ sync'.found <=> db[Dst][k].obj # Absent
               /\ sync'.found => sync'.dest = [key |-> k, val |-> db[Dst][k].obj]
    <2>1. o.reply = Answer(db[Dst], Request("get", k)) /\ Answered(held'["dest"].in, db[Dst])
      BY <1>6, <1>7, <1>8
    <2>2. /\ o.reply.is = "object" <=> db[Dst][k].obj # Absent
          /\ db[Dst][k].obj # Absent => o.reply.obj = [key |-> k, val |-> db[Dst][k].obj]
      BY <2>1, AnswerIs
    <2>3. o.reply.is = "object" => sync'.dest = o.reply.obj
      BY <1>5 DEF Received
    <2> QED
      BY <1>5, <2>1, <2>2, <2>3
  <1> QED
    BY <1>2, <1>3, <1>4, <1>5, <1>6, <1>8

\* What SourceReply does when nothing goes wrong.
LEMMA SourceReplyDoes ==
    ASSUME InOrder, SourceReply, NEW k, k = Head(sync.cache)
    PROVE  /\ OthersKept("source_get") /\ db' = db /\ "source_get" \in DOMAIN held
           /\ sync.pc = "source reply" /\ k \in Keys
           /\ \/ /\ sync'.pc = "compare" /\ sync'.found = sync.found /\ sync'.dest = sync.dest
                 /\ sync'.list = sync.list /\ sync'.objs = sync.objs /\ sync'.keys = sync.keys
                 /\ sync'.cache = sync.cache /\ sync'.agreed = sync.agreed
                 /\ Answered(held["source_get"].in, db[Src]) =>
                       db[Src][k].obj # Absent /\ sync'.src = [key |-> k, val |-> db[Src][k].obj]
              \/ /\ sync' = NextReply(sync, "dest reply", "request")
                 /\ Answered(held["source_get"].in, db[Src]) => db[Src][k].obj = Absent
           /\ Answered(held["source_get"].in, db[Src]) => Answered(held'["source_get"].in, db[Src])
  <1>1. PICK o \in Response("source_get") :
          /\ Uses("source_get", o)
          /\ sync' = IF o.reply.is = "object"
                     THEN [sync EXCEPT !.pc = "compare", !.src = Received(o, @)]
                     ELSE NextReply(sync, "dest reply", "request")
    BY DEF SourceReply
  <1>2. sync.pc = "source reply" /\ ~sync.list
    BY OrderHas DEF SourceReply, SyncOk
  <1>3. "source_get" \in DOMAIN held
    BY <1>2, OrderHas DEF Needs
  <1>4. sync.pc \in Answering /\ Pending("source_get", sync) = sync.cache /\ k \in Keys
    <2>1. sync.pc \in Answering /\ SyncOk(sync, Object)
      BY <1>2, OrderHas DEF Answering
    <2>2. k \in Keys
      BY <2>1, SyncHas
    <2>3. Pending("source_get", sync) = sync.cache
      BY <1>2 DEF Pending, AllDue
    <2> QED
      BY <2>1, <2>2, <2>3
  <1>5. /\ OthersKept("source_get") /\ db' = db
        /\ Answered(held["source_get"].in, db[Src]) =>
              /\ o.reply = Answer(db[Src], Request(SentOn("source_get"), k))
              /\ Answered(held'["source_get"].in, db[Src])
    BY <1>1, <1>3, <1>4, ReadDoes
  <1>6. SentOn("source_get") = "get"
    BY DEF SentOn
  <1>7. ASSUME Answered(held["source_get"].in, db[Src])
        PROVE  /\ o.reply.is = "object" <=> db[Src][k].obj # Absent
               /\ db[Src][k].obj # Absent => o.reply.obj = [key |-> k, val |-> db[Src][k].obj]
    <2>1. o.reply = Answer(db[Src], Request("get", k))
      BY <1>5, <1>6, <1>7
    <2> QED
      BY <2>1, AnswerIs
  <1>8. CASE o.reply.is = "object"
    <2>1. /\ sync'.pc = "compare" /\ sync'.found = sync.found /\ sync'.dest = sync.dest
          /\ sync'.list = sync.list /\ sync'.objs = sync.objs /\ sync'.keys = sync.keys
          /\ sync'.cache = sync.cache /\ sync'.agreed = sync.agreed
          /\ sync'.src = o.reply.obj
      <3>1. sync \in SyncRecord(Object)
        BY OrderHas
      <3> QED
        BY <1>1, <1>8, <3>1 DEF SyncRecord, Received
    <2> QED
      BY <1>2, <1>3, <1>4, <1>5, <1>7, <1>8, <2>1
  <1>9. CASE o.reply.is # "object"
    BY <1>1, <1>2, <1>3, <1>4, <1>5, <1>7, <1>9
  <1> QED
    BY <1>8, <1>9

\* What MarkedReply does when nothing goes wrong.
LEMMA MarkedReplyDoes ==
    ASSUME InOrder, MarkedReply, NEW k, k = Head(sync.cache)
    PROVE  /\ OthersKept("delete_meta") /\ db' = db /\ "delete_meta" \in DOMAIN held
           /\ sync.pc = "marked reply" /\ k \in Keys
           /\ \/ /\ sync' = [sync EXCEPT !.pc = "load"]
                 /\ Answered(held["delete_meta"].in, db[Dst]) => db[Dst][k].dirty
              \/ /\ sync' = NextReply(sync, "marked reply", "marked")
                 /\ Answered(held["delete_meta"].in, db[Dst]) => ~db[Dst][k].dirty
           /\ Answered(held["delete_meta"].in, db[Dst]) => Answered(held'["delete_meta"].in, db[Dst])
  <1>1. PICK o \in Response("delete_meta") :
          /\ Uses("delete_meta", o)
          /\ sync' = IF o.reply.is = "string" THEN [sync EXCEPT !.pc = "load"]
                     ELSE NextReply(sync, "marked reply", "marked")
    BY DEF MarkedReply
  <1>2. sync.pc = "marked reply"
    BY DEF MarkedReply
  <1>3. "delete_meta" \in DOMAIN held
    BY <1>2, OrderHas DEF Needs
  <1>4. sync.pc \in Answering /\ Pending("delete_meta", sync) = sync.cache /\ k \in Keys
    <2>1. sync.pc \in Answering /\ SyncOk(sync, Object)
      BY <1>2, OrderHas DEF Answering
    <2>2. k \in Keys
      BY <2>1, SyncHas
    <2>3. Pending("delete_meta", sync) = sync.cache
      BY <1>2, PendingFilled
    <2> QED
      BY <2>1, <2>2, <2>3
  <1>5. /\ OthersKept("delete_meta") /\ db' = db
        /\ Answered(held["delete_meta"].in, db[Dst]) =>
              /\ o.reply = Answer(db[Dst], Request(SentOn("delete_meta"), k))
              /\ Answered(held'["delete_meta"].in, db[Dst])
    BY <1>1, <1>3, <1>4, ReadDoes
  <1>6. SentOn("delete_meta") = "marked"
    BY DEF SentOn
  <1>7. Answered(held["delete_meta"].in, db[Dst]) => (o.reply.is = "string" <=> db[Dst][k].dirty)
    <2> SUFFICES ASSUME Answered(held["delete_meta"].in, db[Dst])
                 PROVE  o.reply.is = "string" <=> db[Dst][k].dirty
      OBVIOUS
    <2>1. o.reply = Answer(db[Dst], Request("marked", k))
      BY <1>5, <1>6
    <2>2. Answer(db[Dst], Request("marked", k)).is = "string" <=> db[Dst][k].dirty
      BY AnswerIs
    <2> QED
      BY <2>1, <2>2
  <1> QED
    BY <1>1, <1>2, <1>3, <1>4, <1>5, <1>7

\* The hashes after a request for one key.
LEMMA EffectOn ==
    ASSUME NEW d \in Database(Object), NEW k \in Keys, NEW e,
           NEW cmd \in {"unmark", "del"}, e = Effect(d, Request(cmd, k))
    PROVE  /\ \A x \in Keys : x # k => e[x] = d[x]
           /\ cmd = "unmark" => e[k].obj = d[k].obj /\ e[k].dirty = FALSE
           /\ cmd = "del" => e[k].obj = Absent /\ e[k].dirty = FALSE
  <1>1. PICK r : r = Request(cmd, k)
    OBVIOUS
  <1>2. r \in Req(Object) /\ r.key = k /\ r.cmd = cmd
    BY <1>1 DEF Request, Req
  <1>3. /\ \A x \in Keys : x # k => e[x] = d[x]
        /\ cmd = "unmark" => e[k] = [obj |-> d[k].obj, dirty |-> FALSE]
        /\ cmd = "del" => e[k] = NoHash
    <2>1. /\ \A x \in Keys : x # r.key => Effect(d, r)[x] = d[x]
          /\ r.cmd = "unmark" => Effect(d, r)[r.key] = [obj |-> d[r.key].obj, dirty |-> FALSE]
          /\ r.cmd = "del" => Effect(d, r)[r.key] = NoHash
      BY <1>2, EffectIs
    <2> QED
      BY <1>1, <1>2, <2>1
  <1> QED
    BY <1>3 DEF NoHash

\* The effect of a store.
LEMMA StoreOn ==
    ASSUME NEW d \in Database(Object), NEW o \in Item(Object), NEW e, e = Effect(d, Store(o))
    PROVE  /\ o.key \in Keys /\ o.val # Absent
           /\ \A x \in Keys : x # o.key => e[x] = d[x]
           /\ e[o.key].obj = o.val /\ e[o.key].dirty = d[o.key].dirty
  <1>1. PICK r : r = Store(o)
    OBVIOUS
  <1>2. r \in Req(Object) /\ r.key = o.key /\ r.val = o.val /\ r.cmd = "store" /\ o.key \in Keys
    BY <1>1, StoreTyped DEF Store, Item
  <1>3. o.val # Absent
    BY ObjectsAre DEF Item
  <1>4. /\ \A x \in Keys : x # o.key => e[x] = d[x]
        /\ e[o.key] = [obj |-> o.val, dirty |-> d[o.key].dirty]
    <2>1. /\ \A x \in Keys : x # r.key => Effect(d, r)[x] = d[x]
          /\ Effect(d, r)[r.key] = [obj |-> r.val, dirty |-> d[r.key].dirty]
      BY <1>2, EffectIs
    <2> QED
      BY <1>1, <1>2, <2>1
  <1> QED
    BY <1>2, <1>3, <1>4

\* One database changes.
LEMMA OneChanged ==
    ASSUME db \in [Addrs -> Database(Object)], NEW e, db' = [db EXCEPT ![Dst] = e]
    PROVE  db'[Dst] = e /\ db'[Src] = db[Src]
  BY AddrsAre

\* A request on a connection to the destination and its response.
LEMMA DestinationDoes ==
    ASSUME InOrder, NEW role \in {"meta", "cleanup"}, role \in DOMAIN held, NEW r \in Req(Object),
           NEW o \in Command(role, r), Uses(role, o)
    PROVE  /\ OthersKept(role) /\ o.reply = Answer(db[Dst], r)
           /\ db'[Dst] = Effect(db[Dst], r) /\ db'[Src] = db[Src]
           /\ r.cmd = "get" => db' = db
  <1>1. role \in SyncRoles /\ Pending(role, sync) = <<>>
    BY NonePending DEF SyncRoles
  <1>2. Dst = Opens[role][1]
    BY <1>1, AddrOf
  <1>3. Commanded(role, r, o, Dst)
    BY <1>1, <1>2, SoundCommand
  <1>4. /\ OthersKept(role) /\ o.reply = Answer(db[Dst], r) /\ db[Dst] \in Database(Object)
        /\ db' = [db EXCEPT ![Dst] = Effect(db[Dst], r)]
    BY <1>3 DEF Commanded
  <1>5. db'[Dst] = Effect(db[Dst], r) /\ db'[Src] = db[Src]
    BY <1>4, OneChanged, OrderHas
  <1>6. ASSUME r.cmd = "get" PROVE db' = db
    <2>1. Effect(db[Dst], r) = db[Dst]
      BY <1>4, <1>6, EffectIs
    <2> QED
      BY <1>4, <2>1, SameDatabase, AddrsAre, OrderHas
  <1> QED
    BY <1>4, <1>5, <1>6

\* What Apply does when nothing goes wrong.
LEMMA ApplyDoes ==
    ASSUME InOrder, Apply
    PROVE  /\ sync.pc = "apply" /\ db'[Src] = db[Src] /\ sync.src \in Item(Object)
           /\ \/ held' = held /\ db' = db /\ sync' = NextReply([sync EXCEPT !.agreed = FALSE], "dest reply", "request")
              \/ /\ OthersKept("meta") /\ db'[Dst] = Effect(db[Dst], Store(sync.src))
                 /\ sync' = NextReply(sync, "dest reply", "request")
  <1>1. sync.pc = "apply"
    BY DEF Apply
  <1>2. sync.src \in Item(Object)
    BY <1>1, OrderHas DEF SyncOk
  <1>3. CASE /\ sync' = NextReply([sync EXCEPT !.agreed = FALSE], "dest reply", "request")
             /\ UNCHANGED pipeVars
    BY <1>1, <1>2, <1>3 DEF pipeVars
  <1>4. ASSUME NEW o \in Command("meta", Store(sync.src)), Uses("meta", o),
               sync' = NextReply(sync, "dest reply", "request")
        PROVE  /\ OthersKept("meta") /\ db'[Dst] = Effect(db[Dst], Store(sync.src))
               /\ db'[Src] = db[Src]
    <2>1. Store(sync.src) \in Req(Object)
      BY <1>2, StoreTyped
    <2>2. "meta" \in DOMAIN held
      BY <1>1, OrderHas DEF Needs
    <2> QED
      BY <1>4, <2>1, <2>2, DestinationDoes
  <1> QED
    BY <1>1, <1>2, <1>3, <1>4 DEF Apply

\* What Load does when nothing goes wrong.
LEMMA LoadDoes ==
    ASSUME InOrder, Load, NEW k, k = Head(sync.cache)
    PROVE  /\ OthersKept("cleanup") /\ db' = db /\ sync.pc = "load" /\ k \in Keys
           /\ \E s \in SyncRecord(Object) :
                 /\ s.pc = sync.pc /\ s.list = sync.list /\ s.objs = sync.objs /\ s.keys = sync.keys
                 /\ s.cache = sync.cache
                 /\ db[Dst][k].obj # Absent => s.dest = [key |-> k, val |-> db[Dst][k].obj]
                 /\ \/ sync' = [s EXCEPT !.pc = "delete"] /\ s.agreed = sync.agreed
                    \/ sync' = NextReply(s, "marked reply", "marked") /\ s.agreed = FALSE
  <1>1. PICK o \in Command("cleanup", Request("get", k)) :
          /\ Uses("cleanup", o)
          /\ LET s == [sync EXCEPT !.dest = Received(o, @)] IN
             \/ sync' = [s EXCEPT !.pc = "delete"]
             \/ sync' = NextReply([s EXCEPT !.agreed = FALSE], "marked reply", "marked")
    BY DEF Load
  <1>2. sync.pc = "load" /\ sync.pc \in Answering /\ "cleanup" \in DOMAIN held
    BY OrderHas DEF Load, Answering, Needs
  <1>3. k \in Keys
    BY <1>2, OrderHas, SyncHas
  <1>4. PICK r \in Req(Object) : r = Request("get", k) /\ r.cmd = "get"
    <2>1. Request("get", k).cmd = "get"
      BY DEF Request
    <2> QED
      BY <1>3, <2>1, RequestTyped
  <1>5. OthersKept("cleanup") /\ o.reply = Answer(db[Dst], r) /\ db' = db
    BY <1>1, <1>2, <1>4, DestinationDoes
  <1>6. /\ o.reply.is = "object" <=> db[Dst][k].obj # Absent
        /\ db[Dst][k].obj # Absent => o.reply.obj = [key |-> k, val |-> db[Dst][k].obj]
    BY <1>4, <1>5, AnswerIs
  <1>7. o.reply # NoReply => o.reply \in Reply(Object)
    BY <1>4, <1>5, OrderHas, AnswerTyped
  <1>8. PICK dest : dest = Received(o, sync.dest)
    OBVIOUS
  <1>9. dest \in [key : Keys \cup {NoKey}, val : Object]
    <2>1. Kind(Object) /\ sync.dest \in [key : Keys \cup {NoKey}, val : Object]
      BY OrderHas, SyncHas DEF Kind
    <2> QED
      BY <1>7, <1>8, <2>1, ObjectReply
  <1>10. db[Dst][k].obj # Absent => dest = [key |-> k, val |-> db[Dst][k].obj]
    BY <1>6, <1>8 DEF Received
  <1>11. sync \in SyncRecord(Object)
    BY OrderHas
  <1>12. PICK s : s = [sync EXCEPT !.dest = dest]
    OBVIOUS
  <1>13. PICK t : t = [s EXCEPT !.agreed = FALSE]
    OBVIOUS
  <1>14. /\ s \in SyncRecord(Object) /\ t \in SyncRecord(Object) /\ s.dest = dest /\ t.dest = dest
         /\ s.agreed = sync.agreed /\ t.agreed = FALSE
    BY <1>9, <1>11, <1>12, <1>13 DEF SyncRecord
  <1>15. /\ s.pc = sync.pc /\ s.list = sync.list /\ s.objs = sync.objs /\ s.keys = sync.keys /\ s.cache = sync.cache
         /\ t.pc = sync.pc /\ t.list = sync.list /\ t.objs = sync.objs /\ t.keys = sync.keys /\ t.cache = sync.cache
    BY <1>11, <1>12, <1>13 DEF SyncRecord
  <1>16. sync' = [s EXCEPT !.pc = "delete"] \/ sync' = NextReply(t, "marked reply", "marked")
    BY <1>1, <1>8, <1>12, <1>13
  <1> QED
    BY <1>2, <1>3, <1>5, <1>10, <1>14, <1>15, <1>16

\* What Delete does when nothing goes wrong.
LEMMA DeleteDoes ==
    ASSUME InOrder, Delete
    PROVE  /\ OthersKept("cleanup") /\ db'[Src] = db[Src] /\ sync.pc = "delete"
           /\ sync.dest.key \in Keys => db'[Dst] = Effect(db[Dst], Request("del", sync.dest.key))
           /\ sync' = [sync EXCEPT !.pc = "unmark"]
  <1>1. PICK o \in Command("cleanup", Request("del", sync.dest.key)) : Uses("cleanup", o)
    BY DEF Delete
  <1>2. sync.pc = "delete" /\ "cleanup" \in DOMAIN held /\ sync' = [sync EXCEPT !.pc = "unmark"]
    BY OrderHas DEF Delete, Needs
  <1>3. sync.dest.key \in Keys \cup {NoKey}
    BY OrderHas, SyncHas
  <1>4. PICK r \in Req(Object) : r = Request("del", sync.dest.key)
    BY <1>3, RequestTyped, OtherRequestTyped
  <1> QED
    BY <1>1, <1>2, <1>4, DestinationDoes

\* What Unmark does when nothing goes wrong.
LEMMA UnmarkDoes ==
    ASSUME InOrder, Unmark
    PROVE  /\ OthersKept("cleanup") /\ db'[Src] = db[Src] /\ sync.pc = "unmark" /\ Head(sync.cache) \in Keys
           /\ db'[Dst] = Effect(db[Dst], Request("unmark", Head(sync.cache)))
           /\ sync' = NextReply(sync, "marked reply", "marked")
  <1>1. PICK o \in Command("cleanup", Request("unmark", Head(sync.cache))) : Uses("cleanup", o)
    BY DEF Unmark
  <1>2. sync.pc = "unmark" /\ "cleanup" \in DOMAIN held /\ sync.pc \in Answering
        /\ sync' = NextReply(sync, "marked reply", "marked")
    BY OrderHas DEF Unmark, Needs, Answering
  <1>3. Head(sync.cache) \in Keys
    BY <1>2, OrderHas, SyncHas
  <1>4. PICK r \in Req(Object) : r = Request("unmark", Head(sync.cache))
    BY <1>3, RequestTyped
  <1> QED
    BY <1>1, <1>2, <1>3, <1>4, DestinationDoes

\* What Compare does when nothing goes wrong.
LEMMA CompareDoes ==
    ASSUME InOrder, Compare
    PROVE  /\ held' = held /\ sync.pc = "compare" /\ db'[Src] = db[Src] /\ Head(sync.cache) \in Keys
           /\ \/ ~sync.found /\ db' = db /\ sync' = [sync EXCEPT !.pc = "apply"]
              \/ /\ sync.found /\ db'[Dst] = Effect(db[Dst], Request("unmark", Head(sync.cache)))
                 /\ sync' = IF ~Matches(sync.src.val, sync.dest.val) THEN [sync EXCEPT !.pc = "apply"]
                            ELSE NextReply(sync, "dest reply", "request")
  <1>1. sync.pc = "compare" /\ sync.pc \in Answering /\ held' = held
    BY DEF Compare, Answering
  <1>2. Head(sync.cache) \in Keys
    BY <1>1, OrderHas, SyncHas
  <1>3. PICK r \in Req(Object) : r = Request("unmark", Head(sync.cache))
    BY <1>2, RequestTyped
  <1>4. Dst \in Addrs /\ db \in [Addrs -> Database(Object)] /\ db[Dst] \in Database(Object)
    BY AddrsAre, OrderHas
  <1>5. PICK t \in TakeOutcomes(Dst) :
          \/ ~t.conn.up /\ Note("sync", t)
          \/ t.conn.up /\ ~sync.found /\ sync' = [sync EXCEPT !.pc = "apply"] /\ UNCHANGED db
          \/ /\ t.conn.up /\ sync.found
             /\ \E o \in CommandOutcomes(Dst, t.conn, r) :
                   /\ Note("sync", o)
                   /\ db' = [db EXCEPT ![Dst] = o.db]
                   /\ sync' = IF o.reply.is = "int" /\ ~Matches(sync.src.val, sync.dest.val)
                              THEN [sync EXCEPT !.pc = "apply"]
                              ELSE NextReply(sync, "dest reply", "request")
    BY <1>3 DEF Compare
  <1>6. t.conn \in Conn(Object) /\ Clean(t.conn) /\ (t.lost <=> ~t.conn.up)
    <2>1. PICK kept : kept = [pool EXCEPT ![Dst] = t.rest]
      OBVIOUS
    <2>2. pool \in Pooled(Object) /\ AllClean(pool)
      BY OrderHas
    <2> QED
      BY <1>4, <2>1, <2>2, PoolTaken
  <1>7. t.conn.up
    <2>1. ~t.conn.up /\ Note("sync", t) => "sync" \in lostBy'
      BY <1>6, OrderHas, NoteIs DEF Threads
    <2> QED
      BY <1>5, <2>1, OrderHas
  <1>8. CASE ~sync.found
    BY <1>1, <1>2, <1>5, <1>7, <1>8
  <1>9. CASE sync.found
    <2>1. PICK o \in CommandOutcomes(Dst, t.conn, r) :
                   /\ Note("sync", o)
                   /\ db' = [db EXCEPT ![Dst] = o.db]
                   /\ sync' = IF o.reply.is = "int" /\ ~Matches(sync.src.val, sync.dest.val)
                              THEN [sync EXCEPT !.pc = "apply"]
                              ELSE NextReply(sync, "dest reply", "request")
      BY <1>5, <1>7, <1>9
    <2>2. ~o.lost
      BY <2>1, OrderHas, NoteIs DEF Threads
    <2>3. o.reply = Answer(db[Dst], r) /\ o.db = Effect(db[Dst], r)
      <3>1. \/ o.reply = Answer(db[Dst], r) /\ o.db = Effect(db[Dst], r)
            \/ o.lost \/ ~t.conn.up
        BY <1>4, <1>6, CommandIs
      <3> QED
        BY <1>7, <2>2, <3>1
    <2>4. o.reply.is = "int"
      <3>1. o.reply = Answer(db[Dst], Request("unmark", Head(sync.cache)))
        BY <1>3, <2>3
      <3>2. Answer(db[Dst], Request("unmark", Head(sync.cache))).is = "int"
        BY AnswerIs
      <3> QED
        BY <3>1, <3>2
    <2>5. db'[Dst] = Effect(db[Dst], r) /\ db'[Src] = db[Src]
      BY <1>4, <2>1, <2>3, OneChanged
    <2> QED
      BY <1>1, <1>2, <1>3, <1>9, <2>1, <2>4, <2>5
  <1> QED
    BY <1>8, <1>9

-----------------------------------------------------------------------------
(* Marks *)

\* No new marks, and objects with a mark stay.
Fewer(d, e) == \A k \in Keys : e[k].dirty => d[k].dirty /\ (d[k].obj # Absent => e[k].obj # Absent)

\* Without new marks, marks stay real.
LEMMA FewerReal ==
    ASSUME NEW d, NEW e, MarksAreReal(d), Fewer(d, e)
    PROVE  MarksAreReal(e)
  BY DEF MarksAreReal, Fewer

\* Replies about marks stay true.
LEMMA ToldKept ==
    ASSUME InOrder,
           \/ Pending("delete_meta", sync') = <<>>
           \/ "delete_meta" \in DOMAIN held' => Answered(held'["delete_meta"].in, db[Dst]),
           \A k \in Keys : InRange(k, Pending("delete_meta", sync')) => db'[Dst][k].dirty = db[Dst][k].dirty
    PROVE  "delete_meta" \in DOMAIN held' => Answered(held'["delete_meta"].in, db'[Dst])
  <1> SUFFICES ASSUME "delete_meta" \in DOMAIN held' PROVE Answered(held'["delete_meta"].in, db'[Dst])
    OBVIOUS
  <1>1. "delete_meta" \in SyncRoles /\ SentOn("delete_meta") = "marked"
    BY DEF SyncRoles, SentOn
  <1>2. PICK c : c = held'["delete_meta"]
    OBVIOUS
  <1>3. PICK keys : keys = Pending("delete_meta", sync')
    OBVIOUS
  <1>4. c \in Conn(Object) /\ Outstanding(c) = Requests("marked", keys)
    BY <1>1, <1>2, <1>3, OrderHas DEF OwesOnly
  <1>5. keys \in Seq(Keys)
    BY <1>3, OrderHas, PendingTyped
  <1>6. keys = <<>> \/ Answered(c.in, db[Dst])
    BY <1>2, <1>3
  <1>7. PICK d, e : d = db[Dst] /\ e = db'[Dst]
    OBVIOUS
  <1>8. \A k \in Keys : InRange(k, keys) => e[k].dirty = d[k].dirty
    BY <1>3, <1>7
  <1>9. PICK cmd : cmd = "marked"
    OBVIOUS
  <1>10. Outstanding(c) = Requests(cmd, keys) /\ cmd \in {"get", "marked"}
    BY <1>4, <1>9
  <1>11. SameTold(cmd, keys, d, e)
    BY <1>8, <1>9 DEF SameTold
  <1>12. keys = <<>> \/ Answered(c.in, d)
    BY <1>6, <1>7
  <1>13. Answered(c.in, e)
    BY <1>4, <1>5, <1>10, <1>11, <1>12, StillAnswered
  <1> QED
    BY <1>2, <1>7, <1>13

Calm == Places \ {"mark", "mark reply", "marked reply", "load", "delete", "unmark"}

\* At a calm place no mark is looked at.
LEMMA CalmIs ==
    ASSUME NEW s, s.pc \in Calm
    PROVE  s.pc \notin Marking /\ s.pc \notin {"load", "delete"} /\ Pending("delete_meta", s) = <<>>
  BY DEF Calm, Marking, Pending, AllDue, RestDue

\* A step to a place where no mark is looked at.
LEMMA CalmMarks ==
    ASSUME InOrder, Marks(db[Dst], sync, held), Fewer(db[Dst], db'[Dst]), sync'.pc \in Calm
    PROVE  Marks(db'[Dst], sync', held')
  <1>1. sync'.pc \notin Marking /\ sync'.pc \notin {"load", "delete"} /\ Pending("delete_meta", sync') = <<>>
    BY CalmIs
  <1>2. MarksAreReal(db'[Dst])
    BY FewerReal DEF Marks
  <1>3. "delete_meta" \in DOMAIN held' => Answered(held'["delete_meta"].in, db'[Dst])
    BY <1>1, ToldKept, EmptyWalk
  <1> QED
    BY <1>1, <1>2, <1>3 DEF Marks

\* A database that stays.
LEMMA SameFewer == ASSUME NEW d PROVE Fewer(d, d) /\ Grown(d, d)
  BY DEF Fewer, Grown

\* Objects that are stored make no mark.
LEMMA GrownFewer == ASSUME NEW d, NEW e, Grown(d, e) PROVE Fewer(d, e)
  BY DEF Fewer, Grown

\* The connection that answers about marks is not used.
LEMMA ToldSame ==
    ASSUME InOrder, Marks(db[Dst], sync, held), NEW role, OthersKept(role), role # "delete_meta",
           \A k \in Keys : InRange(k, Pending("delete_meta", sync')) => db'[Dst][k].dirty = db[Dst][k].dirty
    PROVE  "delete_meta" \in DOMAIN held' => Answered(held'["delete_meta"].in, db'[Dst])
  <1>1. "delete_meta" \in DOMAIN held' => Answered(held'["delete_meta"].in, db[Dst])
    BY DEF Marks, OthersKept
  <1> QED
    BY <1>1, ToldKept

\* ScanDestination keeps the marks right.
LEMMA ScanDestinationMarks ==
    ASSUME InOrder, Marks(db[Dst], sync, held), ScanDestination
    PROVE  Marks(db'[Dst], sync', held')
  <1>1. PICK a : a = Opens["meta"][1]
    OBVIOUS
  <1>2. /\ OthersKept("meta") /\ db' = db /\ a = Dst /\ sync.pc = "scan destination"
        /\ sync' = [sync EXCEPT !.pc = "mark", !.keys = Scanned(db[a])]
    <2>1. Walked("scan destination", "meta", "mark", a)
      BY <1>1, WalkDoes DEF ScanDestination
    <2> QED
      BY <2>1 DEF Walked
  <1>3. sync'.pc = "mark" /\ sync'.keys = Scanned(db[Dst]) /\ sync'.cache = sync.cache
    <2>1. sync \in SyncRecord(Object)
      BY OrderHas
    <2> QED
      BY <1>2, <2>1 DEF SyncRecord
  <1>4. sync'.cache = <<>>
    BY <1>2, <1>3, OrderHas DEF SyncOk, Answering
  <1>5. HaveObjects(Scanned(db[Dst]), db[Dst])
    <2>1. MarksAreReal(db[Dst]) /\ db[Dst] \in Database(Object)
      BY OrderHas DEF Marks
    <2>2. PICK d : d = db[Dst]
      OBVIOUS
    <2>3. PICK w \in Seq(Keys) : w = Scanned(d) /\ \A i \in DOMAIN w : d[w[i]] # NoHash
      BY ScannedIs
    <2>4. ASSUME NEW k \in Keys, d[k] # NoHash PROVE d[k].obj # Absent
      <3>1. d[k] = [obj |-> d[k].obj, dirty |-> d[k].dirty] /\ d[k].dirty \in BOOLEAN
        BY <2>1, <2>2 DEF Database
      <3> QED
        BY <2>1, <2>2, <2>4, <3>1 DEF NoHash, MarksAreReal
    <2>5. \A i \in DOMAIN w : w[i] \in Keys
      OBVIOUS
    <2> QED
      BY <2>2, <2>3, <2>4, <2>5 DEF HaveObjects
  <1>6. "delete_meta" \in DOMAIN held' => Answered(held'["delete_meta"].in, db'[Dst])
    BY <1>2, ToldSame
  <1>7. HaveObjects(<<>>, db[Dst]) /\ MarksAreReal(db[Dst])
    BY DEF HaveObjects, Marks
  <1> QED
    BY <1>2, <1>3, <1>4, <1>5, <1>6, <1>7 DEF Marks

\* Part of the keys to mark.
LEMMA ObjectsPart ==
    ASSUME NEW w, NEW v, NEW d, HaveObjects(w, d), \A i \in DOMAIN v : InRange(v[i], w)
    PROVE  HaveObjects(v, d)
  BY DEF HaveObjects, InRange

\* SendMarks keeps the marks right.
LEMMA SendMarksMarks ==
    ASSUME InOrder, Marks(db[Dst], sync, held), SendMarks
    PROVE  Marks(db'[Dst], sync', held')
  <1>1. /\ sync.pc = "mark" /\ db' = db
        /\ sync' = IF held["marks"].up THEN [sync EXCEPT !.pc = "mark reply", !.cache = Batch, !.keys = Rest]
                   ELSE [sync EXCEPT !.pc = "err"]
    BY DEF SendMarks, Fill
  <1>2. sync \in SyncRecord(Object) /\ sync.keys \in Seq(Keys)
    BY OrderHas, SyncHas
  <1>3. CASE ~held["marks"].up
    <2>1. sync'.pc \in Calm
      BY <1>1, <1>2, <1>3 DEF SyncRecord, Calm, Places
    <2> QED
      BY <1>1, <2>1, CalmMarks, SameFewer
  <1>4. CASE held["marks"].up
    <2>1. sync'.pc = "mark reply" /\ sync'.cache = Batch /\ sync'.keys = Rest
      BY <1>1, <1>2, <1>4 DEF SyncRecord
    <2>2. HaveObjects(sync.keys, db[Dst]) /\ MarksAreReal(db[Dst])
      BY <1>1 DEF Marks, Marking
    <2>3. HaveObjects(Batch, db[Dst]) /\ HaveObjects(Rest, db[Dst])
      BY <1>2, <2>2, BatchIs, ObjectsPart
    <2>4. Pending("delete_meta", sync') = <<>>
      BY <2>1, PendingFilled
    <2>5. "delete_meta" \in DOMAIN held' => Answered(held'["delete_meta"].in, db'[Dst])
      BY <2>4, ToldKept, EmptyWalk
    <2> QED
      BY <1>1, <2>1, <2>2, <2>3, <2>5 DEF Marks
  <1> QED
    BY <1>3, <1>4

\* On to the next reply: the place and the keys.
WentOn(s, t, reply, request) ==
    /\ t.pc = reply \/ t.pc = request
    /\ t.keys = s.keys /\ t.cache = Tail(s.cache) /\ t.objs = s.objs /\ t.list = s.list
    /\ t.agreed = s.agreed /\ t.dest = s.dest /\ t.rc = s.rc

\* On to the next reply: every field.
LEMMA NextReplyAt ==
    ASSUME NEW s \in SyncRecord(Object), NEW t, NEW reply, NEW request, t = NextReply(s, reply, request)
    PROVE  WentOn(s, t, reply, request)
  BY DEF NextReply, SyncRecord, WentOn

\* MarkReply keeps the marks right.
LEMMA MarkReplyMarks ==
    ASSUME InOrder, Marks(db[Dst], sync, held), MarkReply
    PROVE  Marks(db'[Dst], sync', held')
  <1>1. /\ OthersKept("marks") /\ sync.pc = "mark reply" /\ "marks" \in DOMAIN held
        /\ MarkedAll(db[Dst], db'[Dst], held["marks"].out)
        /\ Pending("marks", sync) = sync.cache
        /\ sync' = NextReply(sync, "mark reply", "mark")
    BY MarkReplyDoes
  <1>2. /\ sync'.pc \in {"mark reply", "mark"}
        /\ sync'.keys = sync.keys /\ sync'.cache = Tail(sync.cache)
    <2>1. sync \in SyncRecord(Object)
      BY OrderHas
    <2>2. WentOn(sync, sync', "mark reply", "mark")
      BY <1>1, <2>1, NextReplyAt
    <2> QED
      BY <2>2 DEF WentOn
  <1>3. /\ MarksAreReal(db[Dst]) /\ HaveObjects(sync.keys, db[Dst]) /\ HaveObjects(sync.cache, db[Dst])
    BY <1>1 DEF Marks, Marking
  <1>4. sync.cache \in Seq(Keys) /\ sync.cache # <<>> /\ sync.keys \in Seq(Keys)
    BY <1>1, OrderHas, SyncHas DEF Answering
  <1>5. \A k \in Keys : db'[Dst][k].obj = db[Dst][k].obj
    BY <1>1 DEF MarkedAll
  <1>6. ASSUME NEW k \in Keys, \E i \in DOMAIN held["marks"].out : held["marks"].out[i].key = k
        PROVE  db[Dst][k].obj # Absent
    <2>1. "marks" \in SyncRoles /\ SentOn("marks") = "mark"
      BY DEF SyncRoles, SentOn
    <2>2. PICK c : c = held["marks"]
      OBVIOUS
    <2>3. c \in Conn(Object) /\ Outstanding(c) = Requests("mark", sync.cache)
      BY <1>1, <2>1, <2>2, OrderHas DEF OwesOnly
    <2>4. InRange(k, sync.cache)
      BY <1>4, <1>6, <2>2, <2>3, RequestsOf
    <2> QED
      BY <1>3, <2>4 DEF InRange, HaveObjects
  <1>7. MarksAreReal(db'[Dst])
    <2> SUFFICES ASSUME NEW k \in Keys, db'[Dst][k].dirty PROVE db'[Dst][k].obj # Absent
      BY DEF MarksAreReal
    <2>1. db[Dst][k].dirty \/ \E i \in DOMAIN held["marks"].out : held["marks"].out[i].key = k
      BY <1>1 DEF MarkedAll
    <2>2. db[Dst][k].obj # Absent
      BY <1>3, <1>6, <2>1 DEF MarksAreReal
    <2> QED
      BY <1>5, <2>2
  <1>8. HaveObjects(Tail(sync.cache), db[Dst])
    BY <1>3, <1>4, RestOf, ObjectsPart
  <1>9. HaveObjects(sync.keys, db'[Dst]) /\ HaveObjects(Tail(sync.cache), db'[Dst])
    <2>1. ASSUME NEW w \in Seq(Keys), HaveObjects(w, db[Dst]) PROVE HaveObjects(w, db'[Dst])
      BY <1>5, <2>1 DEF HaveObjects
    <2>2. Tail(sync.cache) \in Seq(Keys)
      BY <1>4, RestOf
    <2> QED
      BY <1>3, <1>4, <1>8, <2>1, <2>2
  <1>10. Pending("delete_meta", sync') = <<>>
    BY <1>2 DEF Pending, AllDue, RestDue
  <1>11. "delete_meta" \in DOMAIN held' => Answered(held'["delete_meta"].in, db'[Dst])
    BY <1>10, ToldKept, EmptyWalk
  <1> QED
    BY <1>2, <1>7, <1>9, <1>11 DEF Marks

\* The keys after the first one are other keys.
LEMMA OtherPending ==
    ASSUME SyncOk(sync, Object), sync.pc \in Answering, NEW w, w = <<>> \/ w = Tail(sync.cache), NEW x
    PROVE  InRange(x, w) => x # Head(sync.cache)
  <1>1. sync.cache \in Seq(Keys) /\ sync.cache # <<>> /\ Distinct(sync.cache)
    BY SyncHas DEF SyncOk
  <1>2. ~InRange(Head(sync.cache), Tail(sync.cache)) /\ ~InRange(x, <<>>)
    BY <1>1, RestOf, EmptyWalk
  <1> QED
    BY <1>2

\* SendMarked keeps the marks right.
LEMMA SendMarkedMarks ==
    ASSUME InOrder, Marks(db[Dst], sync, held), SendMarked
    PROVE  Marks(db'[Dst], sync', held')
  <1>1. /\ sync.pc = "marked" /\ db' = db
        /\ sync' = IF held["delete_meta"].up THEN [sync EXCEPT !.pc = "marked reply", !.cache = Batch, !.keys = Rest]
                   ELSE [sync EXCEPT !.pc = "err"]
        /\ With("delete_meta", Buffered(held["delete_meta"], Requests("marked", Batch)))
    BY DEF SendMarked, Fill
  <1>2. sync \in SyncRecord(Object)
    BY OrderHas
  <1>3. CASE ~held["delete_meta"].up
    <2>1. sync'.pc \in Calm
      BY <1>1, <1>2, <1>3 DEF SyncRecord, Calm, Places
    <2> QED
      BY <1>1, <2>1, CalmMarks, SameFewer
  <1>4. CASE held["delete_meta"].up
    <2>1. sync'.pc = "marked reply"
      BY <1>1, <1>2, <1>4 DEF SyncRecord
    <2>2. "delete_meta" \in DOMAIN held /\ "delete_meta" \in SyncRoles /\ Pending("delete_meta", sync) = <<>>
      BY <1>1, OrderHas DEF Needs, SyncRoles, Pending, AllDue, RestDue
    <2>3. PICK c : c = held["delete_meta"]
      OBVIOUS
    <2>4. c \in Conn(Object) /\ Outstanding(c) = Requests(SentOn("delete_meta"), <<>>)
      BY <2>2, <2>3, OrderHas DEF OwesOnly
    <2>5. c.in = <<>>
      BY <2>4, EmptyWalk, RequestsOf
    <2>6. held'["delete_meta"].in = <<>>
      <3>1. held'["delete_meta"] = Buffered(c, Requests("marked", Batch))
        BY <1>1, <2>3 DEF With
      <3> QED
        BY <2>4, <2>5, <3>1 DEF Buffered, Conn
    <2>7. Answered(held'["delete_meta"].in, db'[Dst])
      BY <2>6 DEF Answered
    <2> QED
      BY <1>1, <2>1, <2>7 DEF Marks, Marking
  <1> QED
    BY <1>3, <1>4

\* MarkedReply keeps the marks right.
LEMMA MarkedReplyMarks ==
    ASSUME InOrder, Marks(db[Dst], sync, held), MarkedReply
    PROVE  Marks(db'[Dst], sync', held')
  <1>1. PICK k : k = Head(sync.cache)
    OBVIOUS
  <1>2. /\ OthersKept("delete_meta") /\ db' = db /\ "delete_meta" \in DOMAIN held
        /\ \/ /\ sync' = [sync EXCEPT !.pc = "load"]
              /\ Answered(held["delete_meta"].in, db[Dst]) => db[Dst][k].dirty
           \/ sync' = NextReply(sync, "marked reply", "marked")
        /\ Answered(held["delete_meta"].in, db[Dst]) => Answered(held'["delete_meta"].in, db[Dst])
    BY <1>1, MarkedReplyDoes
  <1>3. Answered(held["delete_meta"].in, db[Dst]) /\ MarksAreReal(db[Dst])
    BY <1>2 DEF Marks
  <1>4. sync \in SyncRecord(Object)
    BY OrderHas
  <1>5. CASE sync' = [sync EXCEPT !.pc = "load"] /\ db[Dst][k].dirty
    <2>1. sync'.pc = "load" /\ sync'.cache = sync.cache
      BY <1>4, <1>5, MovedFields
    <2> QED
      BY <1>1, <1>2, <1>3, <1>5, <2>1 DEF Marks, Marking
  <1>6. CASE sync' = NextReply(sync, "marked reply", "marked")
    <2>1. WentOn(sync, sync', "marked reply", "marked")
      BY <1>4, <1>6, NextReplyAt
    <2>2. sync'.pc \in {"marked reply", "marked"}
      BY <2>1 DEF WentOn
    <2> QED
      BY <1>2, <1>3, <2>2 DEF Marks, Marking
  <1> QED
    BY <1>2, <1>3, <1>5, <1>6

\* Load keeps the marks right.
LEMMA LoadMarks ==
    ASSUME InOrder, Marks(db[Dst], sync, held), Load
    PROVE  Marks(db'[Dst], sync', held')
  <1>1. PICK k : k = Head(sync.cache)
    OBVIOUS
  <1>2. /\ OthersKept("cleanup") /\ db' = db /\ sync.pc = "load" /\ k \in Keys
        /\ \E s \in SyncRecord(Object) :
              /\ s.cache = sync.cache
              /\ db[Dst][k].obj # Absent => s.dest = [key |-> k, val |-> db[Dst][k].obj]
              /\ sync' = [s EXCEPT !.pc = "delete"] \/ sync' = NextReply(s, "marked reply", "marked")
    BY <1>1, LoadDoes
  <1>3. PICK s \in SyncRecord(Object) :
              /\ s.cache = sync.cache
              /\ db[Dst][k].obj # Absent => s.dest = [key |-> k, val |-> db[Dst][k].obj]
              /\ sync' = [s EXCEPT !.pc = "delete"] \/ sync' = NextReply(s, "marked reply", "marked")
    BY <1>2
  <1>4. db[Dst][k].dirty /\ MarksAreReal(db[Dst])
    BY <1>1, <1>2 DEF Marks
  <1>5. s.dest = [key |-> k, val |-> db[Dst][k].obj]
    BY <1>2, <1>3, <1>4 DEF MarksAreReal
  <1>6. "delete_meta" \in DOMAIN held' => Answered(held'["delete_meta"].in, db'[Dst])
    BY <1>2, ToldSame
  <1>7. CASE sync' = [s EXCEPT !.pc = "delete"]
    <2>1. sync'.pc = "delete" /\ sync'.cache = s.cache /\ sync'.dest = s.dest
      BY <1>7 DEF SyncRecord
    <2>2. sync'.dest.key = Head(sync'.cache)
      <3>1. s.dest.key = k
        BY ONLY <1>5
      <3>2. s.cache = sync.cache
        BY <1>3
      <3> QED
        BY <1>1, <2>1, <3>1, <3>2
    <2> QED
      BY <1>1, <1>2, <1>3, <1>4, <1>6, <2>1, <2>2 DEF Marks, Marking
  <1>8. CASE sync' = NextReply(s, "marked reply", "marked")
    <2>1. WentOn(s, sync', "marked reply", "marked")
      BY <1>8, NextReplyAt
    <2>2. sync'.pc \in {"marked reply", "marked"}
      BY <2>1 DEF WentOn
    <2> QED
      BY <1>2, <1>4, <1>6, <2>2 DEF Marks, Marking
  <1> QED
    BY <1>3, <1>7, <1>8

\* Delete keeps the marks right.
LEMMA DeleteMarks ==
    ASSUME InOrder, Marks(db[Dst], sync, held), Delete
    PROVE  Marks(db'[Dst], sync', held')
  <1>1. /\ OthersKept("cleanup") /\ sync.pc = "delete"
        /\ sync.dest.key \in Keys => db'[Dst] = Effect(db[Dst], Request("del", sync.dest.key))
        /\ sync' = [sync EXCEPT !.pc = "unmark"]
    BY DeleteDoes
  <1>2. sync \in SyncRecord(Object) /\ sync.pc \in Answering /\ SyncOk(sync, Object)
    BY <1>1, OrderHas DEF Answering
  <1>3. PICK k \in Keys : k = Head(sync.cache)
    BY <1>2, SyncHas
  <1>4. sync.dest.key = k
    BY <1>1, <1>3 DEF Marks
  <1>5. PICK e : e = db'[Dst]
    OBVIOUS
  <1>6. /\ \A x \in Keys : x # k => e[x] = db[Dst][x]
        /\ e[k].obj = Absent /\ e[k].dirty = FALSE
    <2>1. e = Effect(db[Dst], Request("del", k)) /\ db[Dst] \in Database(Object)
      BY <1>1, <1>4, <1>5, OrderHas
    <2>2. PICK cmd \in {"unmark", "del"} : cmd = "del"
      OBVIOUS
    <2>3. e = Effect(db[Dst], Request(cmd, k))
      BY <2>1, <2>2
    <2>4. /\ \A x \in Keys : x # k => e[x] = db[Dst][x]
          /\ cmd = "del" => e[k].obj = Absent /\ e[k].dirty = FALSE
      BY <2>1, <2>3, EffectOn
    <2> QED
      BY <2>2, <2>4
  <1>7. Fewer(db[Dst], db'[Dst])
    BY <1>5, <1>6 DEF Fewer
  <1>8. MarksAreReal(db'[Dst])
    BY <1>7, FewerReal DEF Marks
  <1>9. sync'.pc = "unmark" /\ sync'.cache = sync.cache
    BY <1>1, <1>2, MovedFields
  <1>10. Pending("delete_meta", sync') = Tail(sync.cache)
    BY <1>9 DEF Pending, AllDue, RestDue
  <1>11. \A x \in Keys : InRange(x, Pending("delete_meta", sync')) => db'[Dst][x].dirty = db[Dst][x].dirty
    BY <1>2, <1>3, <1>5, <1>6, <1>10, OtherPending
  <1>12. "delete_meta" \in DOMAIN held' => Answered(held'["delete_meta"].in, db'[Dst])
    BY <1>1, <1>11, ToldSame
  <1> QED
    BY <1>8, <1>9, <1>12 DEF Marks, Marking

\* Unmark keeps the marks right.
LEMMA UnmarkMarks ==
    ASSUME InOrder, Marks(db[Dst], sync, held), Unmark
    PROVE  Marks(db'[Dst], sync', held')
  <1>1. /\ OthersKept("cleanup") /\ sync.pc = "unmark" /\ Head(sync.cache) \in Keys
        /\ db'[Dst] = Effect(db[Dst], Request("unmark", Head(sync.cache)))
        /\ sync' = NextReply(sync, "marked reply", "marked")
    BY UnmarkDoes
  <1>2. sync \in SyncRecord(Object) /\ sync.pc \in Answering /\ SyncOk(sync, Object)
    BY <1>1, OrderHas DEF Answering
  <1>3. PICK k \in Keys : k = Head(sync.cache)
    BY <1>1
  <1>4. PICK e : e = db'[Dst]
    OBVIOUS
  <1>5. /\ \A x \in Keys : x # k => e[x] = db[Dst][x]
        /\ e[k].obj = db[Dst][k].obj /\ e[k].dirty = FALSE
    <2>1. e = Effect(db[Dst], Request("unmark", k)) /\ db[Dst] \in Database(Object)
      BY <1>1, <1>3, <1>4, OrderHas
    <2>2. PICK cmd \in {"unmark", "del"} : cmd = "unmark"
      OBVIOUS
    <2>3. e = Effect(db[Dst], Request(cmd, k))
      BY <2>1, <2>2
    <2>4. /\ \A x \in Keys : x # k => e[x] = db[Dst][x]
          /\ cmd = "unmark" => e[k].obj = db[Dst][k].obj /\ e[k].dirty = FALSE
      BY <2>1, <2>3, EffectOn
    <2> QED
      BY <2>2, <2>4
  <1>6. Fewer(db[Dst], db'[Dst])
    BY <1>4, <1>5 DEF Fewer
  <1>7. MarksAreReal(db'[Dst])
    BY <1>6, FewerReal DEF Marks
  <1>8. sync'.pc \in {"marked reply", "marked"} /\ sync'.cache = Tail(sync.cache)
    <2>1. WentOn(sync, sync', "marked reply", "marked")
      BY <1>1, <1>2, NextReplyAt
    <2> QED
      BY <2>1 DEF WentOn
  <1>9. Pending("delete_meta", sync') = Tail(sync.cache) \/ Pending("delete_meta", sync') = <<>>
    BY <1>8 DEF Pending, AllDue, RestDue
  <1>10. \A x \in Keys : InRange(x, Pending("delete_meta", sync')) => db'[Dst][x].dirty = db[Dst][x].dirty
    BY <1>2, <1>3, <1>4, <1>5, <1>9, OtherPending
  <1>11. "delete_meta" \in DOMAIN held' => Answered(held'["delete_meta"].in, db'[Dst])
    BY <1>1, <1>10, ToldSame
  <1> QED
    BY <1>7, <1>8, <1>11 DEF Marks, Marking

\* The calm places.
LEMMA CalmPlaces ==
    /\ {"idle", "ok", "err", "scan destination", "ping", "scan source", "request", "scan marked", "marked",
        "dest reply", "source reply", "compare", "apply"} \subseteq Calm
    /\ SyncRoles \subseteq Calm
  BY DEF Calm, Places, SyncRoles, Answering

\* A step to a calm place that changes no database.
LEMMA QuietMarks ==
    ASSUME InOrder, Marks(db[Dst], sync, held), db' = db, NEW pc \in Calm, sync'.pc = pc
    PROVE  Marks(db'[Dst], sync', held')
  <1>1. Fewer(db[Dst], db'[Dst])
    BY SameFewer
  <1> QED
    BY <1>1, CalmMarks

\* Open keeps the marks right.
LEMMA OpenMarks ==
    ASSUME InOrder, Marks(db[Dst], sync, held), NEW role \in SyncRoles, Open(role)
    PROVE  Marks(db'[Dst], sync', held')
  <1>1. PICK t \in TakeOutcomes(Opens[role][1]) :
            sync' = [sync EXCEPT !.pc = IF t.conn.up THEN Opens[role][2] ELSE "err"]
    BY DEF Open
  <1>2. Opens[role][2] \in Calm /\ "err" \in Calm
    <2>1. Opens[role][2] \in {"meta", "marks", "scan destination", "source_walk", "ping", "delete_meta",
                              "cleanup", "scan marked"}
      <3>1. /\ Opens["dest"][2] = "meta" /\ Opens["meta"][2] = "marks" /\ Opens["marks"][2] = "scan destination"
            /\ Opens["source_get"][2] = "source_walk" /\ Opens["source_walk"][2] = "ping"
            /\ Opens["delete_walk"][2] = "delete_meta" /\ Opens["delete_meta"][2] = "cleanup"
            /\ Opens["cleanup"][2] = "scan marked"
        BY DEF Opens
      <3> QED
        BY ONLY <3>1, role \in SyncRoles, Zenon DEF SyncRoles
    <2> QED
      BY <2>1, CalmPlaces DEF SyncRoles
  <1>3. sync'.pc \in Calm
    <2>1. sync \in SyncRecord(Object)
      BY OrderHas
    <2>2. PICK pc : pc = IF t.conn.up THEN Opens[role][2] ELSE "err"
      OBVIOUS
    <2>3. pc \in Calm /\ sync' = [sync EXCEPT !.pc = pc]
      BY <1>1, <1>2, <2>2
    <2> QED
      BY <2>1, <2>3, MovedFields
  <1>4. db' = db
    BY DEF Open
  <1> QED
    BY <1>3, <1>4, QuietMarks

\* Walk keeps the marks right.
LEMMA WalkMarks ==
    ASSUME InOrder, Marks(db[Dst], sync, held), ScanSource \/ ScanMarked
    PROVE  Marks(db'[Dst], sync', held')
  <1>1. sync \in SyncRecord(Object)
    BY OrderHas
  <1>2. CASE ScanSource
    <2>1. PICK a : a = Opens["source_walk"][1]
      OBVIOUS
    <2>2. Walked("scan source", "source_walk", "request", a)
      BY <1>2, <2>1, WalkDoes DEF ScanSource
    <2>3. db' = db /\ sync'.pc = "request"
      BY <1>1, <2>2 DEF Walked, SyncRecord
    <2> QED
      BY <2>3, CalmPlaces, QuietMarks
  <1>3. CASE ScanMarked
    <2>1. PICK a : a = Opens["delete_walk"][1]
      OBVIOUS
    <2>2. Walked("scan marked", "delete_walk", "marked", a)
      BY <1>3, <2>1, WalkDoes DEF ScanMarked
    <2>3. db' = db /\ sync'.pc = "marked"
      BY <1>1, <2>2 DEF Walked, SyncRecord
    <2> QED
      BY <2>3, CalmPlaces, QuietMarks
  <1> QED
    BY <1>2, <1>3

\* Ping keeps the marks right.
LEMMA PingMarks ==
    ASSUME InOrder, Marks(db[Dst], sync, held), Ping
    PROVE  Marks(db'[Dst], sync', held')
  <1>1. db' = db /\ sync' = [sync EXCEPT !.pc = "scan source"] /\ sync \in SyncRecord(Object)
    BY PingDoes, OrderHas
  <1>2. sync'.pc = "scan source"
    BY <1>1, MovedFields
  <1> QED
    BY <1>1, <1>2, CalmPlaces, QuietMarks

\* Marked keeps the marks right.
LEMMA MarkedMarks ==
    ASSUME InOrder, Marks(db[Dst], sync, held), Marked \/ SourceDone \/ Return \/ DeleteDone
    PROVE  Marks(db'[Dst], sync', held')
  <1>1. sync \in SyncRecord(Object)
    BY OrderHas
  <1>2. db' = db
    BY DEF Marked, SourceDone, Return, DeleteDone, pipeVars
  <1>3. CASE Marked
    <2>1. sync'.pc \in {"request", "source_get"}
      BY <1>1, <1>3 DEF Marked, SyncRecord
    <2> QED
      BY <1>2, <2>1, CalmPlaces, QuietMarks DEF SyncRoles
  <1>4. CASE SourceDone
    <2>1. sync'.pc = "delete_walk"
      BY <1>1, <1>4 DEF SourceDone, SyncRecord
    <2> QED
      BY <1>2, <2>1, CalmPlaces, QuietMarks DEF SyncRoles
  <1>5. CASE Return
    <2>1. sync'.pc = "idle"
      BY <1>1, <1>5 DEF Return, SyncRecord
    <2> QED
      BY <1>2, <2>1, CalmPlaces, QuietMarks
  <1>6. CASE DeleteDone
    <2>1. sync'.pc = "ok"
      BY <1>1, <1>6 DEF DeleteDone, SyncRecord
    <2> QED
      BY <1>2, <2>1, CalmPlaces, QuietMarks
  <1> QED
    BY <1>3, <1>4, <1>5, <1>6

\* Request keeps the marks right.
LEMMA RequestMarks ==
    ASSUME InOrder, Marks(db[Dst], sync, held), RequestListed \/ RequestBoth
    PROVE  Marks(db'[Dst], sync', held')
  <1>1. sync \in SyncRecord(Object)
    BY OrderHas
  <1>2. db' = db
    BY DEF RequestListed, RequestBoth, Fill, pipeVars
  <1>3. sync'.pc \in {"dest reply", "err", "request"}
    <2>1. CASE RequestListed
      <3>1. \/ sync' = [sync EXCEPT !.pc = "dest reply", !.cache = Batch, !.keys = Rest]
            \/ sync' = [sync EXCEPT !.pc = "err"]
            \/ sync' = [sync EXCEPT !.keys = <<>>] /\ sync.pc = "request"
        BY <2>1 DEF RequestListed, Fill
      <3> QED
        BY <1>1, <3>1 DEF SyncRecord
    <2>2. CASE RequestBoth
      <3>1. \/ sync' = [sync EXCEPT !.pc = "dest reply", !.cache = Batch, !.keys = Rest]
            \/ sync' = [sync EXCEPT !.pc = "err"]
        BY <2>2 DEF RequestBoth
      <3> QED
        BY <1>1, <3>1 DEF SyncRecord
    <2> QED
      BY <2>1, <2>2
  <1> QED
    BY <1>2, <1>3, CalmPlaces, QuietMarks

\* DestReply and SourceReply keep the marks right.
LEMMA ReplyMarks ==
    ASSUME InOrder, Marks(db[Dst], sync, held), DestReply \/ SourceReply
    PROVE  Marks(db'[Dst], sync', held')
  <1>1. sync \in SyncRecord(Object)
    BY OrderHas
  <1>2. PICK k : k = Head(sync.cache)
    OBVIOUS
  <1>3. CASE DestReply
    <2>1. db' = db /\ sync'.pc \in {"compare", "source reply"}
      BY <1>2, <1>3, DestReplyDoes
    <2> QED
      BY <2>1, CalmPlaces, QuietMarks
  <1>4. CASE SourceReply
    <2>1. /\ db' = db
          /\ sync'.pc = "compare" \/ sync' = NextReply(sync, "dest reply", "request")
      BY <1>2, <1>4, SourceReplyDoes
    <2>2. sync' = NextReply(sync, "dest reply", "request") => WentOn(sync, sync', "dest reply", "request")
      BY <1>1, NextReplyAt
    <2>3. sync'.pc \in {"compare", "dest reply", "request"}
      BY <2>1, <2>2 DEF WentOn
    <2> QED
      BY <2>1, <2>3, CalmPlaces, QuietMarks
  <1> QED
    BY <1>3, <1>4

\* Compare keeps the marks right.
LEMMA CompareMarks ==
    ASSUME InOrder, Marks(db[Dst], sync, held), Compare
    PROVE  Marks(db'[Dst], sync', held')
  <1>1. sync \in SyncRecord(Object) /\ db[Dst] \in Database(Object)
    BY OrderHas
  <1>2. PICK k : k = Head(sync.cache)
    OBVIOUS
  <1>3. /\ k \in Keys
        /\ db' = db \/ db'[Dst] = Effect(db[Dst], Request("unmark", k))
        /\ \/ sync' = [sync EXCEPT !.pc = "apply"]
           \/ sync' = NextReply(sync, "dest reply", "request")
    BY <1>2, CompareDoes
  <1>4. [sync EXCEPT !.pc = "apply"].pc = "apply"
    BY <1>1, MovedFields
  <1>5. sync' = NextReply(sync, "dest reply", "request") => WentOn(sync, sync', "dest reply", "request")
    BY <1>1, NextReplyAt
  <1>6. sync'.pc \in {"apply", "dest reply", "request"}
    BY <1>3, <1>4, <1>5 DEF WentOn
  <1>7. Fewer(db[Dst], db'[Dst])
    <2>1. CASE db' = db
      BY <2>1, SameFewer
    <2>2. CASE db'[Dst] = Effect(db[Dst], Request("unmark", k))
      <3>0. PICK cmd \in {"unmark", "del"} : cmd = "unmark"
        OBVIOUS
      <3>1. PICK e : cmd = "unmark" /\ e = db'[Dst]
        BY <3>0
      <3>2. e = Effect(db[Dst], Request(cmd, k))
        BY <2>2, <3>1
      <3>4. PICK d \in Database(Object), h \in Keys : d = db[Dst] /\ h = k
        BY <1>1, <1>3
      <3>5. cmd \in {"unmark", "del"} /\ e = Effect(d, Request(cmd, h))
        BY <3>0, <3>2, <3>4
      <3>6. /\ \A x \in Keys : x # h => e[x] = d[x]
            /\ cmd = "unmark" => e[h].obj = d[h].obj /\ e[h].dirty = FALSE
        BY <3>5, EffectOn
      <3>3. /\ \A x \in Keys : x # k => e[x] = db[Dst][x]
            /\ cmd = "unmark" => e[k].obj = db[Dst][k].obj /\ e[k].dirty = FALSE
        BY <3>4, <3>6
      <3> QED
        BY <3>1, <3>3 DEF Fewer
    <2> QED
      BY <1>3, <2>1, <2>2
  <1> QED
    BY <1>6, <1>7, CalmPlaces, CalmMarks

\* Apply keeps the marks right.
LEMMA ApplyMarks ==
    ASSUME InOrder, Marks(db[Dst], sync, held), Apply
    PROVE  Marks(db'[Dst], sync', held')
  <1>1. sync \in SyncRecord(Object) /\ db[Dst] \in Database(Object)
    BY OrderHas
  <1>2. /\ sync.src \in Item(Object)
        /\ \/ db' = db /\ sync' = NextReply([sync EXCEPT !.agreed = FALSE], "dest reply", "request")
           \/ /\ db'[Dst] = Effect(db[Dst], Store(sync.src))
              /\ sync' = NextReply(sync, "dest reply", "request")
    BY ApplyDoes
  <1>3. PICK s \in SyncRecord(Object) : sync' = NextReply(s, "dest reply", "request")
    <2>1. [sync EXCEPT !.agreed = FALSE] \in SyncRecord(Object)
      BY <1>1 DEF SyncRecord
    <2> QED
      BY <1>1, <1>2, <2>1
  <1>4. WentOn(s, sync', "dest reply", "request")
    BY <1>3, NextReplyAt
  <1>5. sync'.pc \in {"dest reply", "request"}
    BY <1>4 DEF WentOn
  <1>6. Fewer(db[Dst], db'[Dst])
    <2>1. CASE db' = db
      BY <2>1, SameFewer
    <2>2. CASE db'[Dst] = Effect(db[Dst], Store(sync.src))
      <3>0. PICK o \in Item(Object) : o = sync.src
        BY <1>2
      <3>1. PICK e : o = sync.src /\ e = db'[Dst]
        BY <3>0
      <3>2. e = Effect(db[Dst], Store(o))
        BY <2>2, <3>1
      <3>3. /\ \A x \in Keys : x # o.key => e[x] = db[Dst][x]
            /\ o.val # Absent /\ e[o.key].obj = o.val /\ e[o.key].dirty = db[Dst][o.key].dirty
        BY <1>1, <3>2, StoreOn
      <3>4. Fewer(db[Dst], e)
        BY <3>3 DEF Fewer
      <3> QED
        BY <3>1, <3>4
    <2> QED
      BY <1>2, <2>1, <2>2
  <1> QED
    BY <1>5, <1>6, CalmPlaces, CalmMarks

\* The synchronisation's connections are not used.
HeldSame ==
    \A r \in SyncRoles : /\ r \in DOMAIN held' <=> r \in DOMAIN held
                         /\ r \in DOMAIN held => held'[r] = held[r]

\* A step of the bulk operation leaves the other connections.
LEMMA HeldSameBy ==
    ASSUME held' = held \/ (\E c : With("bulk", c)) \/ Released({"bulk"})
    PROVE  HeldSame
  <1>1. "bulk" \notin SyncRoles
    BY DEF SyncRoles
  <1>2. CASE held' = held
    BY <1>2 DEF HeldSame
  <1>3. CASE \E c : With("bulk", c)
    <2>1. PICK c : held' = [r \in DOMAIN held \cup {"bulk"} |-> IF r = "bulk" THEN c ELSE held[r]]
      BY <1>3 DEF With
    <2> QED
      BY <1>1, <2>1 DEF HeldSame
  <1>4. CASE Released({"bulk"})
    <2>1. held' = [r \in DOMAIN held \ {"bulk"} |-> held[r]]
      BY <1>4 DEF Released
    <2> QED
      BY <1>1, <2>1 DEF HeldSame
  <1> QED
    BY <1>2, <1>3, <1>4

\* The requests of a bulk operation.
BulkCommand(pc) == IF pc = "storing" THEN "store" ELSE IF pc = "deleting" THEN "del" ELSE "get"

\* The command of its requests.
LEMMA BulkRequestIs ==
    ASSUME NEW pc, NEW o
    PROVE  BulkRequest(pc, o).cmd = BulkCommand(pc)
  <1>1. Store(o).cmd = "store" /\ Request("del", o.key).cmd = "del" /\ Request("get", o.key).cmd = "get"
    BY DEF Store, Request
  <1> QED
    BY <1>1 DEF BulkRequest, BulkCommand

\* All requests of a bulk operation have its command.
LEMMA BulkOut ==
    ASSUME TypedFor(Object), Taken, Aligned, "bulk" \in DOMAIN held, NEW c, c = held["bulk"]
    PROVE  /\ c \in Conn(Object) /\ c.out \in Seq(Req(Object))
           /\ \A i \in DOMAIN c.out : c.out[i].cmd = BulkCommand(bulk.pc)
  <1>1. c \in Conn(Object) /\ Served(c, BulkDue(bulk), "bulk", lostBy) /\ bulk.left \in Nat
    <2>1. held \in [DOMAIN held -> Conn(Object)] /\ Due("bulk") = BulkDue(bulk) /\ ThreadOf("bulk") = "bulk"
      BY AlignedHas
    <2>2. bulk.left \in Nat
      BY TypedHas, BulkTypedIs, BulkHas
    <2> QED
      BY <2>1, <2>2 DEF Aligned
  <1>2. c.out \in Seq(Req(Object)) /\ c.in \in Seq(Reply(Object))
    BY <1>1, ConnHas
  <1>3. CASE Clean(c)
    BY <1>1, <1>2, <1>3 DEF Clean
  <1>4. CASE Outstanding(c) = BulkDue(bulk)
    <2>1. PICK all : all = Outstanding(c)
      OBVIOUS
    <2>2. /\ Len(all) = Len(c.in) + Len(c.out) /\ all \in Seq(Req(Object))
          /\ \A i \in 1..Len(c.out) : all[Len(c.in) + i] = c.out[i]
      BY <1>1, <2>1, OutstandingTyped
    <2>3. ASSUME NEW i \in DOMAIN all PROVE all[i].cmd = BulkCommand(bulk.pc)
      <3>1. all[i] = BulkRequest(bulk.pc, bulk.list[bulk.done + i])
        BY <1>4, <2>1 DEF BulkDue
      <3> QED
        BY <3>1, BulkRequestIs
    <2>4. PICK n \in Nat, m \in Nat : n = Len(c.in) /\ m = Len(c.out)
      BY <1>2
    <2>5. Len(all) = n + m /\ DOMAIN all = 1..(n + m) /\ DOMAIN c.out = 1..m
      BY <1>2, <2>2, <2>4
    <2>6. ASSUME NEW i \in DOMAIN c.out PROVE c.out[i].cmd = BulkCommand(bulk.pc)
      <3>1. n + i \in DOMAIN all
        <4>1. i \in 1..m
          BY <2>5
        <4>2. n + i \in 1..(n + m)
          BY ONLY n \in Nat, m \in Nat, <4>1
        <4> QED
          BY <2>5, <4>2
      <3>2. all[n + i] = c.out[i]
        BY <2>2, <2>4, <2>5
      <3> QED
        BY <2>3, <3>1, <3>2
    <2> QED
      BY <1>1, <1>2, <2>6
  <1> QED
    BY <1>1, <1>3, <1>4 DEF Served

\* What a reply of a bulk operation finds done to the database.
LEMMA BulkEffect ==
    ASSUME TypedFor(Object), Taken, Aligned, "bulk" \in DOMAIN held,
           NEW o \in ResponseOutcomes(Dst, held["bulk"])
    PROVE  /\ bulk.pc \in {"merging", "getting"} => o.db = db[Dst]
           /\ bulk.pc = "storing" => Grown(db[Dst], o.db)
  <1>1. PICK c : c = held["bulk"]
    OBVIOUS
  <1>2. /\ c \in Conn(Object) /\ c.out \in Seq(Req(Object))
        /\ \A i \in DOMAIN c.out : c.out[i].cmd = BulkCommand(bulk.pc)
    BY <1>1, BulkOut
  <1>3. PICK d : d = db[Dst] /\ d \in Database(Object)
    BY AlignedHas, AddrsAre
  <1>4. \/ o.db = d \/ o.db = Executed(d, c.out).db
        \/ \E i \in 0..Len(c.out) : o.db = Executed(d, SubSeq(c.out, 1, i)).db
    <2>1. Replied(Dst, c, o) \/ TimedOut(Dst, c, o) \/ Failed(Dst, c, o) \/ NotSent(Dst, c, o)
      BY <1>1, <1>2, <1>3, ResponseIs
    <2> QED
      BY <1>3, <2>1 DEF Replied, TimedOut, Failed, NotSent
  <1>5. CASE bulk.pc \in {"merging", "getting"}
    <2>1. \A i \in DOMAIN c.out : c.out[i].cmd \in Reading
      BY <1>2, <1>5 DEF BulkCommand, Reading
    <2>2. /\ Executed(d, c.out).db = d
          /\ \A i \in 0..Len(c.out) : Executed(d, SubSeq(c.out, 1, i)).db = d
      BY <1>2, <1>3, <2>1, OnlyRead
    <2> QED
      BY <1>3, <1>4, <1>5, <2>2
  <1>6. CASE bulk.pc = "storing"
    <2>1. \A i \in DOMAIN c.out : c.out[i].cmd \in Reading \cup {"store"}
      BY <1>2, <1>6 DEF BulkCommand
    <2>2. /\ Grown(d, Executed(d, c.out).db)
          /\ \A i \in 0..Len(c.out) : Grown(d, Executed(d, SubSeq(c.out, 1, i)).db)
      BY <1>2, <1>3, <2>1, ObjectsAre, OnlyStored
    <2>3. Grown(d, d)
      BY SameFewer
    <2> QED
      BY <1>3, <1>4, <1>6, <2>2, <2>3
  <1> QED
    BY <1>5, <1>6

\* What bulk operations and other processes do to the synchronisation.
Beside ==
    /\ HeldSame
    /\ touched' = {} => db' = db
    /\ "deleted" \notin touched' => Grown(db[Dst], db'[Dst])
    /\ touched \subseteq touched'

\* A step that changes no database.
LEMMA BesideSame ==
    ASSUME db' = db, touched' = touched, HeldSame
    PROVE  Beside
  BY SameFewer DEF Beside

\* The replies of a bulk operation.
LEMMA BulkReplyBeside ==
    ASSUME TypedFor(Object), Taken, Aligned, MergeReply \/ StoreReply \/ ReadOn
    PROVE  Beside
  <1>1. db \in [Addrs -> Database(Object)] /\ Dst \in Addrs
    BY AlignedHas, AddrsAre
  <1>2. "bulk" \in DOMAIN held
    BY TypedHas, BulkTypedIs DEF MergeReply, StoreReply, ReadOn
  <1>3. PICK o \in ResponseOutcomes(Dst, held["bulk"]) :
           /\ db' = [db EXCEPT ![Dst] = o.db]
           /\ \/ bulk.pc = "merging" /\ touched' = touched
              \/ bulk.pc = "storing" /\ touched' = touched \cup {"stored"}
              \/ bulk.pc = "deleting" /\ touched' = touched \cup {"deleted"}
              \/ bulk.pc = "getting" /\ touched' = touched
           /\ (\E c : With("bulk", c)) \/ Released({"bulk"})
    BY DEF MergeReply, StoreReply, ReadOn, BulkRelease
  <1>4. HeldSame
    BY <1>3, HeldSameBy
  <1>5. /\ bulk.pc \in {"merging", "getting"} => o.db = db[Dst]
        /\ bulk.pc = "storing" => Grown(db[Dst], o.db)
    BY <1>2, BulkEffect
  <1>6. db'[Dst] = o.db
    BY <1>1, <1>3
  <1>7. CASE bulk.pc \in {"merging", "getting"}
    <2>1. db' = db
      BY <1>1, <1>3, <1>5, <1>7, SameDatabase
    <2>2. touched' = touched
      BY <1>3, <1>7
    <2> QED
      BY <1>4, <2>1, <2>2, BesideSame
  <1>8. CASE bulk.pc = "storing"
    BY <1>3, <1>4, <1>5, <1>6, <1>8 DEF Beside
  <1>9. CASE bulk.pc = "deleting"
    BY <1>3, <1>4, <1>9 DEF Beside
  <1> QED
    BY <1>3, <1>7, <1>8, <1>9

\* Another process.
LEMMA OtherBeside ==
    ASSUME TypedFor(Object), Taken, OtherProcess
    PROVE  Beside
  <1>1. db \in [Addrs -> Database(Object)] /\ Dst \in Addrs
    BY AlignedHas, AddrsAre
  <1>2. PICK a \in Addrs, k \in Keys, v \in Stored \cup {Absent} :
           /\ db' = [db EXCEPT ![a][k] = IF v = Absent THEN NoHash ELSE [@ EXCEPT !.obj = v]]
           /\ touched' = touched \cup {IF v = Absent THEN "deleted" ELSE "stored"}
    BY DEF OtherProcess
  <1>3. HeldSame
    BY HeldSameBy DEF OtherProcess
  <1>4. v # Absent => Grown(db[Dst], db'[Dst])
    <2> SUFFICES ASSUME v # Absent, NEW x \in Keys
                 PROVE  db'[Dst][x].dirty = db[Dst][x].dirty /\ (db[Dst][x].obj # Absent => db'[Dst][x].obj # Absent)
      BY DEF Grown
    <2>1. db[Dst] \in Database(Object) /\ db[a] \in Database(Object)
      BY <1>1
    <2>2. CASE a = Dst /\ x = k
      <3>1. db'[Dst][x] = [db[Dst][x] EXCEPT !.obj = v]
        BY <1>1, <1>2, <2>1, <2>2 DEF Database
      <3> QED
        BY <2>1, <3>1 DEF Database
    <2>3. CASE ~(a = Dst /\ x = k)
      <3>1. db'[Dst][x] = db[Dst][x]
        BY <1>1, <1>2, <2>1, <2>3 DEF Database
      <3> QED
        BY <3>1
    <2> QED
      BY <2>2, <2>3
  <1> QED
    BY <1>2, <1>3, <1>4 DEF Beside

\* Every step beside the synchronisation.
LEMMA PipeBeside ==
    ASSUME TypedFor(Object), Taken, Aligned, PipeStep
    PROVE  Beside
  <1>1. CASE \E pc \in {"merging", "storing", "deleting", "getting"} : BulkConnect(pc)
    <2>1. db' = db /\ touched' = touched /\ (held' = held \/ \E c : With("bulk", c))
      BY <1>1 DEF BulkConnect
    <2> QED
      BY <2>1, HeldSameBy, BesideSame
  <1>2. CASE BulkSend
    <2>1. db' = db /\ touched' = touched /\ \E c : With("bulk", c)
      BY <1>2 DEF BulkSend
    <2> QED
      BY <2>1, HeldSameBy, BesideSame
  <1>3. CASE BulkDone
    <2>1. db' = db /\ touched' = touched /\ Released({"bulk"})
      BY <1>3 DEF BulkDone, BulkRelease
    <2> QED
      BY <2>1, HeldSameBy, BesideSame
  <1>4. CASE BulkSendRetried
    <2>1. db' = db /\ touched' = touched /\ \E c : With("bulk", c)
      BY <1>4 DEF BulkSendRetried
    <2> QED
      BY <2>1, HeldSameBy, BesideSame
  <1>5. CASE BulkSendFails
    <2>1. db' = db /\ touched' = touched /\ Released({"bulk"})
      BY <1>5 DEF BulkSendFails, BulkRelease
    <2> QED
      BY <2>1, HeldSameBy, BesideSame
  <1> QED
    BY <1>1, <1>2, <1>3, <1>4, <1>5, BulkReplyBeside, OtherBeside DEF PipeStep

\* A step beside the synchronisation keeps the marks right.
LEMMA BesideMarks ==
    ASSUME InOrder, Marks(db[Dst], sync, held), sync' = sync, Beside, "deleted" \notin touched'
    PROVE  Marks(db'[Dst], sync', held')
  <1>1. Grown(db[Dst], db'[Dst]) /\ HeldSame
    BY DEF Beside
  <1>2. PICK d, e : d = db[Dst] /\ e = db'[Dst]
    OBVIOUS
  <1>3. Grown(d, e) /\ Marks(d, sync, held)
    BY <1>1, <1>2
  <1>4. MarksAreReal(e)
    BY <1>3, GrownFewer, FewerReal DEF Marks
  <1>5. ASSUME NEW w \in Seq(Keys), HaveObjects(w, d) PROVE HaveObjects(w, e)
    BY <1>3, <1>5 DEF HaveObjects, Grown
  <1>6. sync.keys \in Seq(Keys) /\ sync.cache \in Seq(Keys) /\ (sync.pc \in Answering => Head(sync.cache) \in Keys)
    BY OrderHas, SyncHas
  <1>7. sync.pc \in Marking => HaveObjects(sync.keys, e) /\ HaveObjects(sync.cache, e)
    BY <1>3, <1>5, <1>6 DEF Marks
  <1>8. "delete_meta" \in DOMAIN held' => Answered(held'["delete_meta"].in, db'[Dst])
    <2>1. "delete_meta" \in SyncRoles
      BY DEF SyncRoles
    <2>2. "delete_meta" \in DOMAIN held' => Answered(held'["delete_meta"].in, db[Dst])
      BY <1>1, <2>1 DEF HeldSame, Marks
    <2>3. \A k \in Keys : db'[Dst][k].dirty = db[Dst][k].dirty
      BY <1>1 DEF Grown
    <2> QED
      BY <2>2, <2>3, ToldKept
  <1>9. sync.pc \in {"load", "delete"} => e[Head(sync.cache)].dirty
    BY <1>3, <1>6 DEF Marks, Grown, Answering
  <1> QED
    BY <1>2, <1>3, <1>4, <1>7, <1>8, <1>9 DEF Marks

\* Start keeps the marks right.
LEMMA StartMarks ==
    ASSUME TypedFor(Object), Taken, Start, "deleted" \notin touched'
    PROVE  Marks(db'[Dst], sync', held')
  <1>1. db' = db /\ held' = held /\ sync.pc = "idle" /\ sync \in SyncRecord(Object)
    BY AlignedHas DEF Start
  <1>2. sync'.pc = "dest"
    BY <1>1 DEF Start, SyncRecord
  <1>3. "delete_meta" \notin DOMAIN held'
    BY <1>1 DEF Taken, SyncRoles
  <1>4. MarksAreReal(db[Dst])
    <2> SUFFICES ASSUME NEW k \in Keys, db[Dst][k].dirty, db[Dst][k].obj = Absent PROVE FALSE
      BY DEF MarksAreReal
    <2>1. db[Dst] \in Database(Object)
      BY AlignedHas, AddrsAre
    <2>2. db[Dst][k] = [NoHash EXCEPT !.dirty = TRUE]
      <3>1. db[Dst][k] = [obj |-> db[Dst][k].obj, dirty |-> db[Dst][k].dirty] /\ db[Dst][k].dirty = TRUE
        BY <2>1 DEF Database
      <3>2. \A c : [NoHash EXCEPT !.dirty = c] = [obj |-> Absent, dirty |-> c]
        BY DEF NoHash
      <3> QED
        BY <3>1, <3>2
    <2> QED
      BY <2>2 DEF Start
  <1> QED
    BY <1>1, <1>2, <1>3, <1>4 DEF Marks, Marking

\* The step begins and ends in order.
LEMMA InOrderBy ==
    ASSUME TypedFor(Object), Taken, Aligned, TypedFor(Object)', Aligned',
           "sync" \notin lostBy, "sync" \notin lostBy'
    PROVE  InOrder
  <1>1. OwesOnly(held, sync)
    BY Owing
  <1>2. OwesOnly(held', sync')
    BY OwingNext
  <1> QED
    BY <1>1, <1>2 DEF InOrder, Aligned

\* Only a call that begins forgets what happened in the last one.
LEMMA StaysSound ==
    ASSUME [Next]_vars, ~Start
    PROVE  /\ "sync" \in lostBy => "sync" \in lostBy'
           /\ touched \subseteq touched'
  <1>1. CASE UNCHANGED vars
    BY <1>1 DEF vars, pipeVars
  <1>2. CASE PipeStep
    <2>1. touched \subseteq touched'
      BY <1>2 DEF PipeStep, BulkConnect, BulkSend, BulkSendRetried, BulkSendFails, MergeReply, StoreReply,
                  ReadOn, BulkDone, OtherProcess
    <2>2. lostBy \subseteq lostBy'
      BY <1>2 DEF PipeStep, BulkConnect, BulkSend, BulkSendRetried, BulkSendFails, MergeReply, StoreReply,
                  ReadOn, BulkDone, OtherProcess, Note
    <2> QED
      BY <2>1, <2>2
  <1>3. CASE SyncStep
    <2>1. CASE \E role \in DOMAIN Opens : Open(role)
      BY <2>1 DEF Open, Note
    <2>2. CASE ScanDestination \/ ScanSource \/ ScanMarked \/ Ping
      BY <2>2 DEF ScanDestination, ScanSource, ScanMarked, Walk, Ping, Uses, Note
    <2>3. CASE SendMarks \/ SendMarked \/ RequestListed \/ RequestBoth
      BY <2>3 DEF SendMarks, SendMarked, RequestListed, RequestBoth, Fill, pipeVars
    <2>4. CASE MarkReply \/ DestReply \/ SourceReply \/ MarkedReply \/ Load \/ Delete \/ Unmark \/ Apply
      BY <2>4 DEF MarkReply, DestReply, SourceReply, MarkedReply, Load, Delete, Unmark, Apply, Uses, Note, pipeVars
    <2>5. CASE Marked \/ SourceDone \/ DeleteDone \/ Return
      BY <2>5 DEF Marked, SourceDone, DeleteDone, Return, pipeVars
    <2>6. CASE Compare
      BY <2>6 DEF Compare, Note
    <2>7. CASE SendMarksRetried \/ SendMarkedRetried \/ RequestListedRetried
      BY <2>7 DEF SendMarksRetried, SendMarkedRetried, RequestListedRetried, FillRetried
    <2>8. CASE SendMarksFails \/ SendMarkedFails \/ RequestListedFails \/ RequestBothRetried
      BY <2>8 DEF SendMarksFails, SendMarkedFails, FillFails, RequestListedFails, RequestBothRetried
    <2> QED
      BY <1>3, <2>1, <2>2, <2>3, <2>4, <2>5, <2>6, <2>7, <2>8 DEF SyncStep
  <1> QED
    BY <1>1, <1>2, <1>3 DEF Next

\* In order, every request of a pipeline is appended at once.
LEMMA Filling ==
    ASSUME InOrder, ~gaveUp'
    PROVE  /\ ~SendMarksRetried /\ ~SendMarkedRetried /\ ~RequestListedRetried /\ ~RequestBothRetried
           /\ ~SendMarksFails /\ ~SendMarkedFails /\ ~RequestListedFails
  <1>1. ~SendMarksRetried /\ ~SendMarkedRetried /\ ~RequestListedRetried /\ ~RequestBothRetried
    BY DEF SendMarksRetried, SendMarkedRetried, RequestListedRetried, FillRetried, RequestBothRetried
  <1>2. ~SendMarksFails /\ ~SendMarkedFails /\ ~RequestListedFails
    BY DEF SendMarksFails, SendMarkedFails, FillFails, RequestListedFails, InOrder
  <1> QED
    BY <1>1, <1>2

\* Every step but Start keeps the marks right.
LEMMA NextMarks ==
    ASSUME InOrder, Aligned, Marks(db[Dst], sync, held), [Next]_vars, ~Start, ~gaveUp',
           "deleted" \notin touched'
    PROVE  Marks(db'[Dst], sync', held')
  <1>1. CASE UNCHANGED vars
    BY <1>1 DEF vars, pipeVars
  <1>2. CASE PipeStep /\ UNCHANGED sync
    <2>1. Beside /\ sync' = sync
      BY <1>2, PipeBeside DEF InOrder
    <2> QED
      BY <2>1, BesideMarks
  <1>3. CASE SyncStep
    <2>1. CASE \E role \in DOMAIN Opens : Open(role)
      BY <2>1, OpensAre, OpenMarks
    <2>2. CASE ScanDestination \/ ScanSource \/ ScanMarked \/ Ping
      BY <2>2, ScanDestinationMarks, WalkMarks, PingMarks
    <2>3. CASE SendMarks \/ SendMarked \/ RequestListed \/ RequestBoth
      BY <2>3, SendMarksMarks, SendMarkedMarks, RequestMarks
    <2>4. CASE MarkReply \/ DestReply \/ SourceReply \/ MarkedReply
      BY <2>4, MarkReplyMarks, ReplyMarks, MarkedReplyMarks
    <2>5. CASE Load \/ Delete \/ Unmark
      BY <2>5, LoadMarks, DeleteMarks, UnmarkMarks
    <2>6. CASE Compare \/ Apply
      BY <2>6, CompareMarks, ApplyMarks
    <2>7. CASE Marked \/ SourceDone \/ DeleteDone \/ Return
      BY <2>7, MarkedMarks
    <2> QED
      BY <1>3, <2>1, <2>2, <2>3, <2>4, <2>5, <2>6, <2>7, Filling DEF SyncStep
  <1> QED
    BY <1>1, <1>2, <1>3 DEF Next

\* MarkedInv holds at first.
LEMMA MarkedInit == Init => MarkedInv
  <1> SUFFICES ASSUME Init PROVE Marks(db[Dst], sync, held)
    BY DEF MarkedInv
  <1>1. sync.pc = "idle" /\ held = <<>>
    BY DEF Init, PipeInit
  <1>2. "delete_meta" \notin DOMAIN held
    BY <1>1
  <1>3. MarksAreReal(db[Dst])
    <2>1. PICK b \in Beginnings :
              db = [a \in Addrs |-> [k \in Keys |->
                       [NoHash EXCEPT !.obj = IF a = Src THEN b[k][1] ELSE b[k][2]]]]
      BY DEF Init, PipeInit
    <2>2. \A v : [NoHash EXCEPT !.obj = v].dirty = FALSE
      <3>1. NoHash.dirty = FALSE
        BY DEF NoHash
      <3>2. \A v : [NoHash EXCEPT !.obj = v].dirty = NoHash.dirty
        BY DEF NoHash
      <3> QED
        BY <3>1, <3>2
    <2>3. \A k \in Keys : db[Dst][k].dirty = FALSE
      BY <2>1, <2>2, AddrsAre
    <2> QED
      BY <2>3 DEF MarksAreReal
  <1> QED
    BY <1>1, <1>2, <1>3 DEF Marks, Marking

\* Every step keeps MarkedInv.
LEMMA MarkedNext == TypedInv /\ AlignedInv /\ MarkedInv /\ [Next]_vars => MarkedInv'
  <1> SUFFICES ASSUME TypedInv, AlignedInv, MarkedInv, [Next]_vars, Sound', "deleted" \notin touched'
               PROVE  Marks(db'[Dst], sync', held')
    BY DEF MarkedInv
  <1>1. TypedFor(Object) /\ Taken /\ TypedFor(Object)'
    BY TypedNext DEF TypedInv
  <1>2. CASE Start
    BY <1>1, <1>2, StartMarks
  <1>3. CASE ~Start
    <2>1. ~gaveUp /\ ~gaveUp' /\ "sync" \notin lostBy'
      BY GaveUpRemembered DEF Sound
    <2>2. Aligned /\ Aligned'
      <3>1. AlignedInv'
        BY AlignedNext
      <3> QED
        BY <2>1, <3>1 DEF AlignedInv
    <2>3. "sync" \notin lostBy /\ "deleted" \notin touched
      BY <1>3, <2>1, StaysSound
    <2>4. InOrder
      BY <1>1, <2>1, <2>2, <2>3, InOrderBy
    <2>5. Marks(db[Dst], sync, held)
      BY <2>1, <2>3 DEF MarkedInv, Sound
    <2> QED
      BY <1>3, <2>1, <2>2, <2>4, <2>5, NextMarks
  <1> QED
    BY <1>2, <1>3

\* DeletesItsKey: the object that is deleted is the one whose mark was found.
THEOREM DeletesTheMarked == Spec => []DeletesItsKey
  <1>1. MarkedInv => DeletesItsKey
    BY DEF MarkedInv, DeletesItsKey, Sound, Marks
  <1> QED
    BY <1>1, TypedInit, TypedNext, InitAligned, AlignedNext, MarkedInit, MarkedNext, PTL DEF Spec

-----------------------------------------------------------------------------
(* What is covered *)

Early == {"dest", "meta", "marks", "scan destination", "err"}
Walking == {"source_get", "source_walk", "ping", "scan source"}
Listing == {"delete_walk", "delete_meta", "cleanup", "scan marked"}

\* The places of each part.
LEMMA PlaceSets ==
    /\ "dest" \in Early /\ "meta" \in Early /\ "marks" \in Early /\ "scan destination" \in Early /\ "err" \in Early
    /\ "mark" \in Marking /\ "mark reply" \in Marking
    /\ "source_get" \in Walking /\ "source_walk" \in Walking /\ "ping" \in Walking /\ "scan source" \in Walking
    /\ "request" \in Comparing /\ "dest reply" \in Comparing /\ "source reply" \in Comparing
    /\ "compare" \in Comparing /\ "apply" \in Comparing
    /\ "delete_walk" \in Listing /\ "delete_meta" \in Listing /\ "cleanup" \in Listing /\ "scan marked" \in Listing
    /\ "marked" \in Removing /\ "marked reply" \in Removing /\ "load" \in Removing /\ "delete" \in Removing
    /\ "unmark" \in Removing
  BY DEF Early, Marking, Walking, Comparing, Listing, Removing

\* Nothing is relied on before the destination is listed, or after an error.
LEMMA EarlyPhases ==
    ASSUME NEW t, NEW f, NEW g, t.pc \in Early
    PROVE  Phases(t, f, g)
  BY DEF Phases, MarkPhase, SourcePhase, DeletePhase, Marking, Sourcing, Comparing, Deleting, Removing, Walking, Listing, Early

\* While the destination is marked.
LEMMA MarkingPhases ==
    ASSUME NEW t, NEW f, NEW g, t.pc \in Marking
    PROVE  Phases(t, f, g) <=> ToMark(t, f, g["marks"])
  BY DEF Phases, MarkPhase, SourcePhase, DeletePhase, Marking, Sourcing, Comparing, Deleting, Removing, Walking, Listing, Early

\* Until the source is listed.
LEMMA WalkPhases ==
    ASSUME NEW t, NEW f, NEW g, t.pc \in Walking
    PROVE  Phases(t, f, g) <=> OthersMarked(t, f)
  BY DEF Phases, MarkPhase, SourcePhase, DeletePhase, Marking, Sourcing, Comparing, Deleting, Removing, Walking, Listing, Early

\* While the objects are compared.
LEMMA ComparingPhases ==
    ASSUME NEW t, NEW f, NEW g, t.pc \in Comparing
    PROVE  Phases(t, f, g) <=> OthersMarked(t, f) /\ ToCover(t, f)
                                /\ (t.pc \in {"source reply", "compare"} => DestRead(t, f))
                                /\ (t.pc \in {"compare", "apply"} => SourceRead(t))
                                /\ (t.pc = "apply" => ~f[Head(t.cache)].dirty)
  BY DEF Phases, MarkPhase, SourcePhase, DeletePhase, Marking, Sourcing, Comparing, Deleting, Removing, Walking, Listing, Early

\* Until the marks are listed.
LEMMA ListedPhases ==
    ASSUME NEW t, NEW f, NEW g, t.pc \in Listing
    PROVE  Phases(t, f, g) <=> OthersMarked(t, f) /\ (t.agreed => AllCovered(t, f))
  BY DEF Phases, MarkPhase, SourcePhase, DeletePhase, Marking, Sourcing, Comparing, Deleting, Removing, Walking, Listing, Early

\* While the marked objects are removed.
LEMMA RemovingPhases ==
    ASSUME NEW t, NEW f, NEW g, t.pc \in Removing
    PROVE  Phases(t, f, g) <=> OthersMarked(t, f) /\ (t.agreed => AllCovered(t, f) /\ ToRemove(t, f))
                                /\ (t.pc = "unmark" => f[Head(t.cache)].obj = Absent)
  BY DEF Phases, MarkPhase, SourcePhase, DeletePhase, Marking, Sourcing, Comparing, Deleting, Removing, Walking, Listing, Early

\* At the end.
LEMMA EndPhases ==
    ASSUME NEW t, NEW f, NEW g, t.pc \in {"ok", "idle"}
    PROVE  Phases(t, f, g) <=> (t.agreed /\ (t.pc = "idle" => t.rc = "ok") => AllCovered(t, f) /\ NothingElse(t, f))
  BY DEF Phases, MarkPhase, SourcePhase, DeletePhase, Marking, Sourcing, Comparing, Deleting, Removing, Walking, Listing, Early

\* Two places of the same walk.
LEMMA SamePhases ==
    ASSUME NEW s, NEW t, NEW f, NEW h, NEW g, Phases(s, f, h), t.objs = s.objs, t.agreed = s.agreed,
           \/ /\ s.pc \in Walking
              /\ t.pc \in Walking
           \/ /\ s.pc \in Listing
              /\ t.pc \in Listing
    PROVE  Phases(t, f, g)
  <1>1. CASE /\ s.pc \in Walking
             /\ t.pc \in Walking
    <2>1. OthersMarked(s, f)
      BY <1>1, WalkPhases
    <2>2. OthersMarked(t, f)
      BY <2>1 DEF OthersMarked
    <2> QED
      BY <1>1, <2>2, WalkPhases
  <1>2. CASE /\ s.pc \in Listing
             /\ t.pc \in Listing
    <2>1. OthersMarked(s, f) /\ (s.agreed => AllCovered(s, f))
      BY <1>2, ListedPhases
    <2>2. OthersMarked(t, f) /\ (t.agreed => AllCovered(t, f))
      BY <2>1 DEF OthersMarked, AllCovered, Covered
    <2> QED
      BY <1>2, <2>2, ListedPhases
  <1> QED
    BY <1>1, <1>2

\* Replies about objects stay true while those objects do not change.
LEMMA ReadKept ==
    ASSUME InOrder, NEW role \in {"dest", "source_get"}, NEW a, a = IF role = "dest" THEN Dst ELSE Src,
           \/ Pending(role, sync') = <<>>
           \/ role \in DOMAIN held' => Answered(held'[role].in, db[a]),
           \A k \in Keys : InRange(k, Pending(role, sync')) => db'[a][k].obj = db[a][k].obj
    PROVE  role \in DOMAIN held' => Answered(held'[role].in, db'[a])
  <1> SUFFICES ASSUME role \in DOMAIN held' PROVE Answered(held'[role].in, db'[a])
    OBVIOUS
  <1>1. role \in SyncRoles /\ SentOn(role) = "get"
    BY DEF SyncRoles, SentOn
  <1>2. PICK c : c = held'[role]
    OBVIOUS
  <1>3. PICK keys : keys = Pending(role, sync')
    OBVIOUS
  <1>4. c \in Conn(Object) /\ Outstanding(c) = Requests("get", keys)
    BY <1>1, <1>2, <1>3, OrderHas DEF OwesOnly
  <1>5. keys \in Seq(Keys)
    BY <1>3, OrderHas, PendingTyped
  <1>6. PICK d, e : d = db[a] /\ e = db'[a]
    OBVIOUS
  <1>7. keys = <<>> \/ Answered(c.in, d)
    BY <1>2, <1>3, <1>6
  <1>8. PICK cmd : cmd = "get"
    OBVIOUS
  <1>9. Outstanding(c) = Requests(cmd, keys) /\ cmd \in {"get", "marked"}
    BY <1>4, <1>8
  <1>10. SameTold(cmd, keys, d, e)
    <2>1. \A k \in Keys : InRange(k, keys) => e[k].obj = d[k].obj
      BY <1>3, <1>6
    <2> QED
      BY <1>8, <2>1 DEF SameTold
  <1>11. Answered(c.in, e)
    BY <1>4, <1>5, <1>7, <1>9, <1>10, StillAnswered
  <1> QED
    BY <1>2, <1>6, <1>11

Now == Synced(db[Src], db[Dst], sync, held)
Then == Synced(db'[Src], db'[Dst], sync', held')

\* The replies and the source, after a step of the synchronisation.
Reads ==
    /\ sync'.pc # "idle" => \A k \in Keys : db'[Src][k].obj = sync'.objs[k]
    /\ "dest" \in DOMAIN held' => Answered(held'["dest"].in, db'[Dst])
    /\ "source_get" \in DOMAIN held' => Answered(held'["source_get"].in, db'[Src])

\* What holds after a step, in two parts.
LEMMA ThenBy ==
    ASSUME Reads, Phases(sync', db'[Dst], held')
    PROVE  Then
  BY DEF Reads, Then, Synced

\* No reply of these pipelines is due.
LEMMA QuietReads ==
    ASSUME InOrder, Now, db'[Src] = db[Src], sync.pc # "idle", sync'.objs = sync.objs,
           Pending("dest", sync') = <<>>, Pending("source_get", sync') = <<>>
    PROVE  Reads
  <1>1. \A k : ~InRange(k, <<>>)
    BY EmptyWalk
  <1>2. "dest" \in DOMAIN held' => Answered(held'["dest"].in, db'[Dst])
    <2>0. PICK role \in {"dest", "source_get"} : role = "dest"
      OBVIOUS
    <2>1. PICK a : role = "dest" /\ a = Dst
      BY <2>0
    <2>2. Pending(role, sync') = <<>> /\ a = IF role = "dest" THEN Dst ELSE Src
      BY <2>1
    <2>3. role \in DOMAIN held' => Answered(held'[role].in, db'[a])
      BY <1>1, <2>2, ReadKept
    <2> QED
      BY <2>1, <2>3
  <1>3. "source_get" \in DOMAIN held' => Answered(held'["source_get"].in, db'[Src])
    <2>0. PICK role \in {"dest", "source_get"} : role = "source_get"
      OBVIOUS
    <2>1. PICK a : role = "source_get" /\ a = Src
      BY <2>0
    <2>2. Pending(role, sync') = <<>> /\ a = IF role = "dest" THEN Dst ELSE Src
      BY <2>1
    <2>3. role \in DOMAIN held' => Answered(held'[role].in, db'[a])
      BY <1>1, <2>2, ReadKept
    <2> QED
      BY <2>1, <2>3
  <1> QED
    BY <1>2, <1>3 DEF Now, Synced, Reads

\* Elsewhere no object is waited for.
LEMMA QuietPending ==
    ASSUME NEW s, s.pc \notin {"dest reply", "source reply", "compare", "apply"}
    PROVE  Pending("dest", s) = <<>> /\ Pending("source_get", s) = <<>>
  BY DEF Pending, AllDue, RestDue

\* Only the place changes.
MovedTo(s, t, pc) ==
    /\ t.pc = pc /\ t.list = s.list /\ t.objs = s.objs /\ t.keys = s.keys /\ t.cache = s.cache
    /\ t.src = s.src /\ t.dest = s.dest /\ t.found = s.found /\ t.rc = s.rc /\ t.agreed = s.agreed

\* Only the place changes: every field.
LEMMA Moves ==
    ASSUME NEW V, NEW s \in SyncRecord(V), NEW pc, NEW t, t = [s EXCEPT !.pc = pc]
    PROVE  MovedTo(s, t, pc)
  BY DEF SyncRecord, MovedTo

\* What holds before a step, part by part.
LEMMA NowHas ==
    ASSUME Now
    PROVE  /\ sync.pc # "idle" => \A k \in Keys : db[Src][k].obj = sync.objs[k]
           /\ "dest" \in DOMAIN held => Answered(held["dest"].in, db[Dst])
           /\ "source_get" \in DOMAIN held => Answered(held["source_get"].in, db[Src])
           /\ Phases(sync, db[Dst], held)
  BY DEF Now, Synced

\* Start keeps what each place relies on.
LEMMA StartThen ==
    ASSUME TypedFor(Object), Taken, Start
    PROVE  Then
  <1>1. db' = db /\ held' = held /\ sync.pc = "idle" /\ sync \in SyncRecord(Object)
    BY AlignedHas DEF Start
  <1>2. sync'.pc = "dest" /\ sync'.objs = [k \in Keys |-> db[Src][k].obj]
    BY <1>1 DEF Start, SyncRecord
  <1>3. "dest" \notin DOMAIN held' /\ "source_get" \notin DOMAIN held'
    BY <1>1 DEF Taken, SyncRoles
  <1>4. Reads
    BY <1>1, <1>2, <1>3 DEF Reads
  <1>5. Phases(sync', db'[Dst], held')
    BY <1>2, PlaceSets, EarlyPhases
  <1> QED
    BY <1>4, <1>5, ThenBy

\* Open keeps what each place relies on.
LEMMA OpenThen ==
    ASSUME InOrder, Now, NEW role \in SyncRoles, Open(role)
    PROVE  Then
  <1>1. PICK t \in TakeOutcomes(Opens[role][1]) :
            sync' = [sync EXCEPT !.pc = IF t.conn.up THEN Opens[role][2] ELSE "err"]
    BY DEF Open
  <1>2. PICK pc : pc = IF t.conn.up THEN Opens[role][2] ELSE "err"
    OBVIOUS
  <1>3. sync.pc = role /\ db' = db /\ sync \in SyncRecord(Object)
    BY OrderHas DEF Open
  <1>4. MovedTo(sync, sync', pc)
    BY <1>1, <1>2, <1>3, Moves
  <1>5. \/ pc \in Early
        \/ role \in Walking /\ pc \in Walking
        \/ role \in Listing /\ pc \in Listing
    <2>1. /\ Opens["dest"][2] = "meta" /\ Opens["meta"][2] = "marks" /\ Opens["marks"][2] = "scan destination"
          /\ Opens["source_get"][2] = "source_walk" /\ Opens["source_walk"][2] = "ping"
          /\ Opens["delete_walk"][2] = "delete_meta" /\ Opens["delete_meta"][2] = "cleanup"
          /\ Opens["cleanup"][2] = "scan marked"
      BY DEF Opens
    <2> QED
      BY <1>2, <2>1 DEF SyncRoles, Early, Walking, Listing
  <1>6. sync'.pc = pc /\ sync'.objs = sync.objs /\ sync'.agreed = sync.agreed
    BY <1>4 DEF MovedTo
  <1>7. sync'.pc \notin {"dest reply", "source reply", "compare", "apply"} /\ sync.pc # "idle"
    BY <1>3, <1>5, <1>6 DEF Early, Walking, Listing, SyncRoles
  <1>8. Reads
    BY <1>3, <1>6, <1>7, QuietPending, QuietReads
  <1>9. Phases(sync', db'[Dst], held')
    <2>1. Phases(sync, db'[Dst], held)
      BY <1>3, NowHas
    <2>2. CASE pc \in Early
      BY <1>6, <2>2, EarlyPhases
    <2>3. CASE role \in Walking /\ pc \in Walking
      BY <1>3, <1>6, <2>1, <2>3, SamePhases
    <2>4. CASE role \in Listing /\ pc \in Listing
      BY <1>3, <1>6, <2>1, <2>4, SamePhases
    <2> QED
      BY <1>5, <2>2, <2>3, <2>4
  <1> QED
    BY <1>8, <1>9, ThenBy

\* ScanDestination keeps what each place relies on.
LEMMA ScanDestinationThen ==
    ASSUME InOrder, Now, ScanDestination
    PROVE  Then
  <1>1. PICK a : a = Opens["meta"][1]
    OBVIOUS
  <1>2. /\ db' = db /\ a = Dst /\ sync.pc = "scan destination" /\ sync \in SyncRecord(Object)
        /\ sync' = [sync EXCEPT !.pc = "mark", !.keys = Scanned(db[a])]
    <2>1. Walked("scan destination", "meta", "mark", a)
      BY <1>1, WalkDoes DEF ScanDestination
    <2> QED
      BY <2>1, OrderHas DEF Walked
  <1>3. sync'.pc = "mark" /\ sync'.keys = Scanned(db[Dst]) /\ sync'.objs = sync.objs
    BY <1>2 DEF SyncRecord
  <1>4. Reads
    BY <1>2, <1>3, QuietPending, QuietReads
  <1>5. ToMark(sync', db'[Dst], held'["marks"])
    <2> SUFFICES ASSUME NEW k \in Keys, db[Dst][k].obj # Absent PROVE InRange(k, sync'.keys)
      BY <1>2 DEF ToMark
    <2>1. db[Dst][k] # NoHash
      BY DEF NoHash
    <2> QED
      BY <1>3, <2>1, ScannedIs
  <1>6. Phases(sync', db'[Dst], held')
    BY <1>3, <1>5, PlaceSets, MarkingPhases
  <1> QED
    BY <1>4, <1>6, ThenBy

\* The requests of a batch are on the connection.
LEMMA Requested ==
    ASSUME InOrder, NEW role \in SyncRoles, role \in DOMAIN held, Pending(role, sync) = <<>>,
           NEW cmd \in {"mark", "get", "marked"}, NEW keys \in Seq(Keys), NEW c,
           c = Buffered(held[role], Requests(cmd, keys))
    PROVE  /\ c.in = <<>> /\ \A k : InRange(k, keys) => Asked(k, c)
           /\ held[role].up /\ held[role].in = <<>> /\ held[role].out = <<>>
  <1>1. PICK b : b = held[role]
    OBVIOUS
  <1>2. b \in Conn(Object) /\ b.up /\ Outstanding(b) = Requests(SentOn(role), <<>>)
    BY <1>1, OrderHas DEF OwesOnly
  <1>3. b.in = <<>> /\ b.out = <<>>
    BY <1>2, EmptyWalk, RequestsOf
  <1>4. PICK reqs : reqs = Requests(cmd, keys)
    OBVIOUS
  <1>5. DOMAIN reqs = DOMAIN keys /\ \A i \in DOMAIN keys : reqs[i] = Request(cmd, keys[i])
    BY <1>4 DEF Requests
  <1>6. reqs \in Seq(Req(Object))
    <2>1. \A i \in DOMAIN keys : reqs[i] \in Req(Object)
      BY <1>5, RequestTyped
    <2>2. DOMAIN reqs = 1..Len(keys) /\ Len(keys) \in Nat /\ reqs = [i \in DOMAIN keys |-> reqs[i]]
      BY <1>4, <1>5 DEF Requests
    <2> QED
      BY <2>1, <2>2
  <1>7. c = Buffered(b, reqs)
    BY <1>1, <1>4
  <1>8. c.in = <<>> /\ c.out = <<>> \o reqs
    <2>1. Buffered(b, reqs).in = b.in /\ Buffered(b, reqs).out = b.out \o reqs
      BY <1>2, <1>6, BufferedIs
    <2> QED
      BY <1>3, <1>7, <2>1
  <1>9. c.out = reqs
    BY <1>6, <1>8
  <1>10. ASSUME NEW k, InRange(k, keys) PROVE Asked(k, c)
    <2>1. PICK i \in DOMAIN keys : keys[i] = k
      BY <1>10 DEF InRange
    <2>2. reqs[i].key = k
      BY <1>5, <2>1 DEF Request
    <2> QED
      BY <1>5, <1>9, <2>2 DEF Asked
  <1> QED
    BY <1>1, <1>2, <1>3, <1>8, <1>10

\* SendMarks keeps what each place relies on.
LEMMA SendMarksThen ==
    ASSUME InOrder, Now, SendMarks
    PROVE  Then
  <1>1. /\ sync.pc = "mark" /\ db' = db /\ sync \in SyncRecord(Object) /\ sync.keys \in Seq(Keys)
        /\ sync' = IF held["marks"].up THEN [sync EXCEPT !.pc = "mark reply", !.cache = Batch, !.keys = Rest]
                   ELSE [sync EXCEPT !.pc = "err"]
        /\ With("marks", Buffered(held["marks"], Requests("mark", Batch)))
    BY OrderHas, SyncHas DEF SendMarks, Fill
  <1>2. "marks" \in DOMAIN held /\ "marks" \in SyncRoles /\ Pending("marks", sync) = <<>>
    BY <1>1, OrderHas DEF Needs, SyncRoles, Pending, AllDue, RestDue
  <1>3. PICK c : c = Buffered(held["marks"], Requests("mark", Batch))
    OBVIOUS
  <1>4. Batch \in Seq(Keys) /\ \A k : InRange(k, sync.keys) => InRange(k, Batch) \/ InRange(k, Rest)
    BY <1>1, BatchIs
  <1>5. held["marks"].up /\ held["marks"].out = <<>> /\ \A k : InRange(k, Batch) => Asked(k, c)
    BY <1>2, <1>3, <1>4, Requested
  <1>6. held'["marks"] = c
    BY <1>1, <1>3 DEF With
  <1>7. sync'.pc = "mark reply" /\ sync'.keys = Rest /\ sync'.objs = sync.objs
    BY <1>1, <1>5 DEF SyncRecord
  <1>8. Reads
    BY <1>1, <1>7, QuietPending, QuietReads
  <1>9. ToMark(sync, db[Dst], held["marks"])
    BY <1>1, NowHas, PlaceSets, MarkingPhases
  <1>10. ToMark(sync', db'[Dst], held'["marks"])
    <2>1. \A k : ~Asked(k, held["marks"])
      BY <1>5 DEF Asked
    <2> QED
      BY <1>1, <1>4, <1>5, <1>6, <1>7, <1>9, <2>1 DEF ToMark
  <1>11. Phases(sync', db'[Dst], held')
    BY <1>7, <1>10, PlaceSets, MarkingPhases
  <1> QED
    BY <1>8, <1>11, ThenBy

\* MarkReply keeps what each place relies on.
LEMMA MarkReplyThen ==
    ASSUME InOrder, Now, MarkReply
    PROVE  Then
  <1>1. /\ sync.pc = "mark reply" /\ db'[Src] = db[Src] /\ sync \in SyncRecord(Object)
        /\ MarkedAll(db[Dst], db'[Dst], held["marks"].out)
        /\ sync' = NextReply(sync, "mark reply", "mark")
    BY OrderHas, MarkReplyDoes
  <1>2. WentOn(sync, sync', "mark reply", "mark")
    BY <1>1, NextReplyAt
  <1>3. sync'.pc \in {"mark reply", "mark"} /\ sync'.keys = sync.keys /\ sync'.objs = sync.objs
    BY <1>2 DEF WentOn
  <1>4. Reads
    BY <1>1, <1>3, QuietPending, QuietReads
  <1>5. ToMark(sync, db[Dst], held["marks"])
    BY <1>1, NowHas, PlaceSets, MarkingPhases
  <1>6. ToMark(sync', db'[Dst], held'["marks"])
    BY <1>1, <1>3, <1>5 DEF ToMark, MarkedAll, Asked
  <1>7. Phases(sync', db'[Dst], held')
    BY <1>3, <1>6, PlaceSets, MarkingPhases
  <1> QED
    BY <1>4, <1>7, ThenBy

\* Marked keeps what each place relies on.
LEMMA MarkedThen ==
    ASSUME InOrder, Now, Marked
    PROVE  Then
  <1>1. /\ sync.pc = "mark" /\ sync.keys = <<>> /\ db' = db /\ sync \in SyncRecord(Object)
        /\ sync' = IF sync.list
                   THEN [sync EXCEPT !.pc = "request",
                                     !.keys = SetToSeq({k \in Keys : sync.objs[k] # Absent})]
                   ELSE [sync EXCEPT !.pc = "source_get"]
    BY OrderHas DEF Marked
  <1>2. sync'.pc \in {"request", "source_get"} /\ sync'.objs = sync.objs
    BY <1>1 DEF SyncRecord
  <1>3. Reads
    BY <1>1, <1>2, QuietPending, QuietReads
  <1>4. OthersMarked(sync', db'[Dst])
    <2>1. ToMark(sync, db[Dst], held["marks"])
      BY <1>1, NowHas, PlaceSets, MarkingPhases
    <2>2. "marks" \in DOMAIN held /\ "marks" \in SyncRoles /\ Pending("marks", sync) = <<>>
      BY <1>1, OrderHas DEF Needs, SyncRoles, Pending, AllDue, RestDue
    <2>3. PICK c, cmd : cmd = "mark" /\ c = Buffered(held["marks"], Requests(cmd, <<>>))
      OBVIOUS
    <2>4. held["marks"].out = <<>>
      BY <2>2, <2>3, EmptyWalk, Requested
    <2>5. \A k : ~Asked(k, held["marks"]) /\ ~InRange(k, sync.keys)
      BY <1>1, <2>4, EmptyWalk DEF Asked
    <2> QED
      BY <1>1, <2>1, <2>5 DEF ToMark, OthersMarked
  <1>5. CASE sync.list
    <2>1. sync'.pc = "request" /\ sync'.keys = SetToSeq({k \in Keys : sync.objs[k] # Absent})
      BY <1>1, <1>5 DEF SyncRecord
    <2>2. PICK S : S = {k \in Keys : sync.objs[k] # Absent}
      OBVIOUS
    <2>3. IsFiniteSet(S)
      BY <2>2, PipelineAssumption, FS_Subset
    <2>4. \A x \in S : \E i \in DOMAIN sync'.keys : sync'.keys[i] = x
      <3>1. \A x \in S : \E i \in DOMAIN SetToSeq(S) : SetToSeq(S)[i] = x
        BY <2>3, SetToSeqIs
      <3>2. sync'.keys = SetToSeq(S)
        BY <2>1, <2>2
      <3> QED
        BY <3>1, <3>2
    <2>5. ToCover(sync', db'[Dst])
      BY <1>2, <2>2, <2>4 DEF ToCover, Left, InRange
    <2>6. Phases(sync', db'[Dst], held')
      BY <1>4, <2>1, <2>5, PlaceSets, ComparingPhases
    <2> QED
      BY <1>3, <2>6, ThenBy
  <1>6. CASE ~sync.list
    <2>1. sync'.pc = "source_get"
      BY <1>1, <1>6 DEF SyncRecord
    <2>2. Phases(sync', db'[Dst], held')
      BY <1>4, <2>1, PlaceSets, WalkPhases
    <2> QED
      BY <1>3, <2>2, ThenBy
  <1> QED
    BY <1>5, <1>6

\* Ping keeps what each place relies on.
LEMMA PingThen ==
    ASSUME InOrder, Now, Ping
    PROVE  Then
  <1>1. /\ db' = db /\ sync.pc = "ping" /\ sync' = [sync EXCEPT !.pc = "scan source"]
        /\ sync \in SyncRecord(Object)
    BY PingDoes, OrderHas
  <1>2. MovedTo(sync, sync', "scan source")
    BY <1>1, Moves
  <1>3. sync'.pc = "scan source" /\ sync'.objs = sync.objs /\ sync'.agreed = sync.agreed
    BY <1>2 DEF MovedTo
  <1>4. Reads
    BY <1>1, <1>3, QuietPending, QuietReads
  <1>5. Phases(sync', db'[Dst], held')
    <2>1. Phases(sync, db'[Dst], held)
      BY <1>1, NowHas
    <2> QED
      BY <1>1, <1>3, <2>1, PlaceSets, SamePhases
  <1> QED
    BY <1>4, <1>5, ThenBy

\* ScanSource keeps what each place relies on.
LEMMA ScanSourceThen ==
    ASSUME InOrder, Now, ScanSource
    PROVE  Then
  <1>1. PICK a : a = Opens["source_walk"][1]
    OBVIOUS
  <1>2. /\ db' = db /\ a = Src /\ sync.pc = "scan source" /\ sync \in SyncRecord(Object)
        /\ sync' = [sync EXCEPT !.pc = "request", !.keys = Scanned(db[a])]
    <2>1. Walked("scan source", "source_walk", "request", a)
      BY <1>1, WalkDoes DEF ScanSource
    <2> QED
      BY <2>1, OrderHas DEF Walked
  <1>3. sync'.pc = "request" /\ sync'.keys = Scanned(db[Src]) /\ sync'.objs = sync.objs
    BY <1>2 DEF SyncRecord
  <1>4. Reads
    BY <1>2, <1>3, QuietPending, QuietReads
  <1>5. OthersMarked(sync', db'[Dst])
    <2>1. OthersMarked(sync, db[Dst])
      BY <1>2, NowHas, PlaceSets, WalkPhases
    <2> QED
      BY <1>2, <1>3, <2>1 DEF OthersMarked
  <1>6. ToCover(sync', db'[Dst])
    <2> SUFFICES ASSUME NEW k \in Keys, sync.objs[k] # Absent PROVE InRange(k, sync'.keys)
      BY <1>3 DEF ToCover, Left
    <2>1. db[Src][k].obj # Absent
      BY <1>2, NowHas
    <2>2. db[Src][k] # NoHash
      BY <2>1 DEF NoHash
    <2> QED
      BY <1>3, <2>2, ScannedIs
  <1>7. Phases(sync', db'[Dst], held')
    BY <1>3, <1>5, <1>6, PlaceSets, ComparingPhases
  <1> QED
    BY <1>4, <1>7, ThenBy

\* What is left of the walk is the same.
LEMMA CoverSame ==
    ASSUME NEW s, NEW t, NEW e, ToCover(s, e), OthersMarked(s, e), t.objs = s.objs, t.agreed = s.agreed,
           \A k : Left(k, s) => Left(k, t)
    PROVE  ToCover(t, e) /\ OthersMarked(t, e)
  BY DEF ToCover, OthersMarked, Covered

\* A pipeline that is filled loses no key.
LEMMA FilledLeft ==
    ASSUME NEW s, NEW t, s = sync, s.keys \in Seq(Keys), s.cache = <<>>, t.cache = Batch, t.keys = Rest, NEW k
    PROVE  Left(k, s) => Left(k, t)
  <1>1. InRange(k, sync.keys) => InRange(k, Batch) \/ InRange(k, Rest)
    BY BatchIs
  <1>2. ~InRange(k, <<>>)
    BY EmptyWalk
  <1> QED
    BY <1>1, <1>2 DEF Left

\* RequestListed keeps what each place relies on.
LEMMA RequestListedThen ==
    ASSUME InOrder, Now, RequestListed
    PROVE  Then
  <1>1. /\ sync.pc = "request" /\ sync.list /\ sync \in SyncRecord(Object) /\ sync.keys \in Seq(Keys)
        /\ sync.cache = <<>> /\ "dest" \in DOMAIN held /\ "dest" \in SyncRoles
        /\ Pending("dest", sync) = <<>> /\ Pending("source_get", sync) = <<>>
    <2>1. sync.pc = "request" /\ sync.list
      BY DEF RequestListed
    <2>2. SyncOk(sync, Object) /\ Needs(sync) \subseteq DOMAIN held
      BY OrderHas
    <2>3. sync \in SyncRecord(Object) /\ sync.keys \in Seq(Keys)
      BY <2>2, SyncHas
    <2>4. sync.cache = <<>>
      BY <2>1, <2>2 DEF SyncOk, Answering
    <2>5. "dest" \in DOMAIN held /\ "dest" \in SyncRoles
      BY <2>1, <2>2 DEF Needs, SyncRoles
    <2>6. Pending("dest", sync) = <<>> /\ Pending("source_get", sync) = <<>>
      BY <2>1, QuietPending
    <2> QED
      BY <2>1, <2>3, <2>4, <2>5, <2>6
  <1>2. PICK c, cmd : cmd = "get" /\ c = Buffered(held["dest"], Requests(cmd, Batch))
    OBVIOUS
  <1>3. Batch \in Seq(Keys)
    BY <1>1, BatchIs
  <1>4. held["dest"].up /\ c.in = <<>>
    BY <1>1, <1>2, <1>3, Requested
  <1>5. /\ sync' = [sync EXCEPT !.pc = "dest reply", !.cache = Batch, !.keys = Rest]
        /\ db' = db /\ With("dest", Buffered(held["dest"], Requests("get", Batch)))
    BY <1>4 DEF RequestListed, Fill
  <1>6. /\ sync'.pc = "dest reply" /\ sync'.cache = Batch /\ sync'.keys = Rest /\ sync'.objs = sync.objs
        /\ sync'.agreed = sync.agreed /\ sync'.list = sync.list
    BY <1>1, <1>5 DEF SyncRecord
  <1>7. held'["dest"] = c
    BY <1>2, <1>5 DEF With
  <1>8. Reads
    <2>1. Answered(held'["dest"].in, db'[Dst])
      BY <1>4, <1>7 DEF Answered
    <2>2. "source_get" \in DOMAIN held' => Answered(held'["source_get"].in, db'[Src])
      <3>0. PICK role \in {"dest", "source_get"} : role = "source_get"
        OBVIOUS
      <3>1. PICK a : role = "source_get" /\ a = Src
        BY <3>0
      <3>2. Pending(role, sync') = <<>> /\ a = IF role = "dest" THEN Dst ELSE Src
        BY <1>1, <1>6, <3>1 DEF Pending
      <3>3. role \in DOMAIN held' => Answered(held'[role].in, db'[a])
        BY <3>2, EmptyWalk, ReadKept
      <3> QED
        BY <3>1, <3>3
    <2>3. \A k \in Keys : db'[Src][k].obj = sync'.objs[k]
      BY <1>1, <1>5, <1>6, NowHas
    <2> QED
      BY <2>1, <2>2, <2>3 DEF Reads
  <1>9. ToCover(sync, db[Dst]) /\ OthersMarked(sync, db[Dst])
    BY <1>1, NowHas, PlaceSets, ComparingPhases
  <1>10. \A k : Left(k, sync) => Left(k, sync')
    BY <1>1, <1>6, FilledLeft
  <1>11. ToCover(sync', db'[Dst]) /\ OthersMarked(sync', db'[Dst])
    BY <1>5, <1>6, <1>9, <1>10, CoverSame
  <1>12. Phases(sync', db'[Dst], held')
    BY <1>6, <1>11, PlaceSets, ComparingPhases
  <1> QED
    BY <1>8, <1>12, ThenBy

\* RequestBoth keeps what each place relies on.
LEMMA RequestBothThen ==
    ASSUME InOrder, Now, RequestBoth
    PROVE  Then
  <1>1. /\ sync.pc = "request" /\ ~sync.list /\ sync \in SyncRecord(Object) /\ sync.keys \in Seq(Keys)
        /\ sync.cache = <<>> /\ "dest" \in DOMAIN held /\ "dest" \in SyncRoles
        /\ "source_get" \in DOMAIN held /\ "source_get" \in SyncRoles
        /\ Pending("dest", sync) = <<>> /\ Pending("source_get", sync) = <<>>
    <2>1. sync.pc = "request" /\ ~sync.list
      BY DEF RequestBoth
    <2>2. SyncOk(sync, Object) /\ Needs(sync) \subseteq DOMAIN held
      BY OrderHas
    <2>3. sync \in SyncRecord(Object) /\ sync.keys \in Seq(Keys)
      BY <2>2, SyncHas
    <2>4. sync.cache = <<>>
      BY <2>1, <2>2 DEF SyncOk, Answering
    <2>5. "dest" \in DOMAIN held /\ "dest" \in SyncRoles /\ "source_get" \in DOMAIN held /\ "source_get" \in SyncRoles
      BY <2>1, <2>2 DEF Needs, SyncRoles
    <2>6. Pending("dest", sync) = <<>> /\ Pending("source_get", sync) = <<>>
      BY <2>1, QuietPending
    <2> QED
      BY <2>1, <2>3, <2>4, <2>5, <2>6
  <1>2. PICK cmd : cmd = "get"
    OBVIOUS
  <1>3. PICK c, b : /\ c = Buffered(held["dest"], Requests(cmd, Batch))
                    /\ b = Buffered(held["source_get"], Requests(cmd, Batch))
    OBVIOUS
  <1>4. Batch \in Seq(Keys)
    BY <1>1, BatchIs
  <1>5. held["dest"].up /\ c.in = <<>>
    BY <1>1, <1>2, <1>3, <1>4, Requested
  <1>6. held["source_get"].up /\ b.in = <<>>
    BY <1>1, <1>2, <1>3, <1>4, Requested
  <1>7. /\ sync' = [sync EXCEPT !.pc = "dest reply", !.cache = Batch, !.keys = Rest]
        /\ db' = db /\ held' = [held EXCEPT !["dest"] = Buffered(@, Requests("get", Batch)),
                                            !["source_get"] = Buffered(@, Requests("get", Batch))]
    BY <1>5, <1>6 DEF RequestBoth
  <1>8. /\ sync'.pc = "dest reply" /\ sync'.cache = Batch /\ sync'.keys = Rest /\ sync'.objs = sync.objs
        /\ sync'.agreed = sync.agreed /\ sync'.list = sync.list
    BY <1>1, <1>7 DEF SyncRecord
  <1>9. held'["dest"] = c /\ held'["source_get"] = b
    BY <1>1, <1>2, <1>3, <1>7
  <1>10. Reads
    <2>1. Answered(held'["dest"].in, db'[Dst]) /\ Answered(held'["source_get"].in, db'[Src])
      BY <1>5, <1>6, <1>9 DEF Answered
    <2>2. \A k \in Keys : db'[Src][k].obj = sync'.objs[k]
      BY <1>1, <1>7, <1>8, NowHas
    <2> QED
      BY <2>1, <2>2 DEF Reads
  <1>11. ToCover(sync, db[Dst]) /\ OthersMarked(sync, db[Dst])
    BY <1>1, NowHas, PlaceSets, ComparingPhases
  <1>12. \A k : Left(k, sync) => Left(k, sync')
    BY <1>1, <1>8, FilledLeft
  <1>13. ToCover(sync', db'[Dst]) /\ OthersMarked(sync', db'[Dst])
    BY <1>7, <1>8, <1>11, <1>12, CoverSame
  <1>14. Phases(sync', db'[Dst], held')
    BY <1>8, <1>13, PlaceSets, ComparingPhases
  <1> QED
    BY <1>10, <1>14, ThenBy

\* DestReply keeps what each place relies on.
LEMMA DestReplyThen ==
    ASSUME InOrder, Now, DestReply
    PROVE  Then
  <1>1. PICK k : k = Head(sync.cache)
    OBVIOUS
  <1>2. /\ OthersKept("dest") /\ db' = db /\ "dest" \in DOMAIN held /\ sync.pc = "dest reply" /\ k \in Keys
        /\ sync'.pc = IF sync.list THEN "compare" ELSE "source reply"
        /\ sync'.list = sync.list /\ sync'.objs = sync.objs /\ sync'.keys = sync.keys
        /\ sync'.cache = sync.cache /\ sync'.agreed = sync.agreed
        /\ sync.list => sync'.src = [key |-> k, val |-> sync.objs[k]]
        /\ Answered(held["dest"].in, db[Dst]) =>
              /\ Answered(held'["dest"].in, db[Dst])
              /\ sync'.found <=> db[Dst][k].obj # Absent
              /\ sync'.found => sync'.dest = [key |-> k, val |-> db[Dst][k].obj]
    BY <1>1, DestReplyDoes
  <1>3. /\ Answered(held'["dest"].in, db[Dst])
        /\ sync'.found <=> db[Dst][k].obj # Absent
        /\ sync'.found => sync'.dest = [key |-> k, val |-> db[Dst][k].obj]
    BY <1>2, NowHas
  <1>4. Reads
    <2>1. "source_get" \in DOMAIN held' => Answered(held'["source_get"].in, db'[Src])
      BY <1>2, NowHas DEF OthersKept
    <2>2. \A x \in Keys : db'[Src][x].obj = sync'.objs[x]
      BY <1>2, NowHas
    <2> QED
      BY <1>2, <1>3, <2>1, <2>2 DEF Reads
  <1>5. ToCover(sync, db[Dst]) /\ OthersMarked(sync, db[Dst])
    BY <1>2, NowHas, PlaceSets, ComparingPhases
  <1>6. ToCover(sync', db'[Dst]) /\ OthersMarked(sync', db'[Dst])
    BY <1>2, <1>5, CoverSame DEF Left
  <1>7. DestRead(sync', db'[Dst])
    BY <1>1, <1>2, <1>3 DEF DestRead
  <1>8. sync'.pc = "compare" => SourceRead(sync')
    <2> SUFFICES ASSUME sync.list PROVE SourceRead(sync')
      BY <1>2
    <2>1. SyncOk(sync, Object)
      BY OrderHas
    <2>2. AllListed(sync.cache, sync.objs) /\ sync.cache \in Seq(Keys) /\ sync.cache # <<>>
      BY <1>2, <2>1, PlaceSets, SyncHas DEF SyncOk, Answering
    <2>3. sync.objs[k] # Absent
      BY <1>1, <2>2 DEF AllListed
    <2> QED
      BY <1>1, <1>2, <2>3 DEF SourceRead
  <1>9. Phases(sync', db'[Dst], held')
    <2>1. sync'.pc \in Comparing /\ sync'.pc # "apply"
      BY <1>2, PlaceSets
    <2> QED
      BY <1>6, <1>7, <1>8, <2>1, ComparingPhases
  <1> QED
    BY <1>4, <1>9, ThenBy

\* The replies after a step that leaves the connections alone.
LEMMA StillReads ==
    ASSUME InOrder, Now, db'[Src] = db[Src], sync.pc # "idle", sync'.objs = sync.objs,
           "dest" \in DOMAIN held' => Answered(held'["dest"].in, db[Dst]),
           "source_get" \in DOMAIN held' => Answered(held'["source_get"].in, db[Src]),
           \A k \in Keys : InRange(k, Pending("dest", sync')) => db'[Dst][k].obj = db[Dst][k].obj
    PROVE  Reads
  <1>1. "dest" \in DOMAIN held' => Answered(held'["dest"].in, db'[Dst])
    <2>0. PICK role \in {"dest", "source_get"} : role = "dest"
      OBVIOUS
    <2>1. PICK a : role = "dest" /\ a = Dst
      BY <2>0
    <2>2. /\ a = IF role = "dest" THEN Dst ELSE Src
          /\ role \in DOMAIN held' => Answered(held'[role].in, db[a])
          /\ \A k \in Keys : InRange(k, Pending(role, sync')) => db'[a][k].obj = db[a][k].obj
      BY <2>1
    <2>3. role \in DOMAIN held' => Answered(held'[role].in, db'[a])
      BY <2>2, ReadKept
    <2> QED
      BY <2>1, <2>3
  <1>2. "source_get" \in DOMAIN held' => Answered(held'["source_get"].in, db'[Src])
    OBVIOUS
  <1>3. \A k \in Keys : db'[Src][k].obj = sync'.objs[k]
    BY NowHas
  <1> QED
    BY <1>1, <1>2, <1>3 DEF Reads

\* The walk goes on to the next key.
LEMMA LeftOn ==
    ASSUME NEW s, NEW t, s.cache \in Seq(Keys), s.cache # <<>>, t.keys = s.keys, t.cache = Tail(s.cache),
           NEW x, Left(x, s), x # Head(s.cache)
    PROVE  Left(x, t)
  <1>1. InRange(x, s.cache) => InRange(x, Tail(s.cache))
    BY RestOf
  <1> QED
    BY <1>1 DEF Left

\* Its key is done with.
DoneWith(k, s, e, f) ==
    /\ \A x \in Keys : x # k => f[x] = e[x]
    /\ \/ s.objs[k] = Absent /\ f = e
       \/ s.objs[k] # Absent /\ (Covered(k, s, f) \/ ~s.agreed)

\* The first key is done with, the others are left.
LEMMA NextCover ==
    ASSUME NEW s, NEW t, NEW reply, NEW request, WentOn(s, t, reply, request),
           s.cache \in Seq(Keys), s.cache # <<>>, NEW k, k = Head(s.cache), NEW e, NEW f,
           ToCover(s, e), OthersMarked(s, e), DoneWith(k, s, e, f)
    PROVE  ToCover(t, f) /\ OthersMarked(t, f)
  <1>1. t.objs = s.objs /\ t.keys = s.keys /\ t.cache = Tail(s.cache) /\ t.agreed = s.agreed
    BY DEF WentOn
  <1>2. ASSUME NEW x \in Keys, s.objs[x] # Absent PROVE Left(x, t) \/ Covered(x, t, f) \/ ~t.agreed
    <2>1. CASE x = k
      BY <1>1, <1>2, <2>1 DEF Covered, DoneWith
    <2>2. CASE x # k
      <3>1. Left(x, s) \/ Covered(x, s, e) \/ ~s.agreed
        BY <1>2 DEF ToCover
      <3>2. CASE Left(x, s)
        BY <1>1, <2>2, <3>2, LeftOn
      <3>3. CASE Covered(x, s, e) \/ ~s.agreed
        BY <1>1, <2>2, <3>3 DEF Covered, DoneWith
      <3> QED
        BY <3>1, <3>2, <3>3
    <2> QED
      BY <2>1, <2>2
  <1>3. ToCover(t, f)
    BY <1>1, <1>2 DEF ToCover
  <1>4. OthersMarked(t, f)
    BY <1>1 DEF OthersMarked, DoneWith
  <1> QED
    BY <1>3, <1>4

\* At a place of the comparison: what is known of the key that is looked at.
LEMMA ComparingNow ==
    ASSUME InOrder, Now, sync.pc \in {"dest reply", "source reply", "compare", "apply"}, NEW k, k = Head(sync.cache)
    PROVE  /\ sync \in SyncRecord(Object) /\ sync.cache \in Seq(Keys) /\ sync.cache # <<>> /\ k \in Keys
           /\ sync.pc \in Answering /\ SyncOk(sync, Object) /\ sync.pc # "idle"
           /\ \A x \in Keys : db[Src][x].obj = sync.objs[x]
           /\ ToCover(sync, db[Dst]) /\ OthersMarked(sync, db[Dst])
           /\ sync.pc \in {"source reply", "compare"} => DestRead(sync, db[Dst])
           /\ sync.pc \in {"compare", "apply"} => SourceRead(sync)
           /\ sync.pc = "apply" => ~db[Dst][k].dirty
  <1>1. SyncOk(sync, Object) /\ sync.pc \in Answering /\ sync.pc # "idle" /\ sync.pc \in Comparing
    BY OrderHas DEF Answering, Comparing
  <1>2. sync \in SyncRecord(Object) /\ sync.cache \in Seq(Keys) /\ sync.cache # <<>> /\ k \in Keys
    BY <1>1, SyncHas
  <1>3. \A x \in Keys : db[Src][x].obj = sync.objs[x]
    BY <1>1, NowHas
  <1>4. Phases(sync, db[Dst], held)
    BY NowHas
  <1>5. /\ ToCover(sync, db[Dst]) /\ OthersMarked(sync, db[Dst])
        /\ sync.pc \in {"source reply", "compare"} => DestRead(sync, db[Dst])
        /\ sync.pc \in {"compare", "apply"} => SourceRead(sync)
        /\ sync.pc = "apply" => ~db[Dst][Head(sync.cache)].dirty
    BY <1>1, <1>4, ComparingPhases
  <1> QED
    BY <1>1, <1>2, <1>3, <1>5

\* Back to a place where nothing was read yet.
LEMMA UnreadPhases ==
    ASSUME NEW t, NEW f, NEW g, t.pc = "dest reply" \/ t.pc = "request", ToCover(t, f), OthersMarked(t, f)
    PROVE  Phases(t, f, g)
  BY PlaceSets, ComparingPhases

\* SourceReply keeps what each place relies on.
LEMMA SourceReplyThen ==
    ASSUME InOrder, Now, SourceReply
    PROVE  Then
  <1>1. PICK k : k = Head(sync.cache)
    OBVIOUS
  <1>2. /\ OthersKept("source_get") /\ db' = db /\ "source_get" \in DOMAIN held
        /\ sync.pc = "source reply" /\ k \in Keys
        /\ \/ /\ sync'.pc = "compare" /\ sync'.found = sync.found /\ sync'.dest = sync.dest
              /\ sync'.list = sync.list /\ sync'.objs = sync.objs /\ sync'.keys = sync.keys
              /\ sync'.cache = sync.cache /\ sync'.agreed = sync.agreed
              /\ Answered(held["source_get"].in, db[Src]) =>
                    db[Src][k].obj # Absent /\ sync'.src = [key |-> k, val |-> db[Src][k].obj]
           \/ /\ sync' = NextReply(sync, "dest reply", "request")
              /\ Answered(held["source_get"].in, db[Src]) => db[Src][k].obj = Absent
        /\ Answered(held["source_get"].in, db[Src]) => Answered(held'["source_get"].in, db[Src])
    BY <1>1, SourceReplyDoes
  <1>3. Answered(held["source_get"].in, db[Src])
    BY <1>2, NowHas
  <1>4. /\ sync \in SyncRecord(Object) /\ sync.cache \in Seq(Keys) /\ sync.cache # <<>> /\ sync.pc # "idle"
        /\ \A x \in Keys : db[Src][x].obj = sync.objs[x]
        /\ ToCover(sync, db[Dst]) /\ OthersMarked(sync, db[Dst]) /\ DestRead(sync, db[Dst])
    BY <1>1, <1>2, ComparingNow
  <1>5. /\ "dest" \in DOMAIN held' => Answered(held'["dest"].in, db[Dst])
        /\ "source_get" \in DOMAIN held' => Answered(held'["source_get"].in, db[Src])
    BY <1>2, <1>3, NowHas DEF OthersKept
  <1>6. sync'.objs = sync.objs => Reads
    BY <1>2, <1>4, <1>5, StillReads
  <1>7. CASE sync' = NextReply(sync, "dest reply", "request") /\ db[Src][k].obj = Absent
    <2>1. WentOn(sync, sync', "dest reply", "request")
      BY <1>4, <1>7, NextReplyAt
    <2>2. sync'.objs = sync.objs /\ (sync'.pc = "dest reply" \/ sync'.pc = "request")
      BY <2>1 DEF WentOn
    <2>3. sync.objs[k] = Absent
      BY <1>2, <1>4, <1>7
    <2>4. PICK e, f : e = db[Dst] /\ f = db'[Dst]
      OBVIOUS
    <2>5. f = e /\ ToCover(sync, e) /\ OthersMarked(sync, e)
      BY <1>2, <1>4, <2>4
    <2>6. DoneWith(k, sync, e, f)
      BY <2>3, <2>5 DEF DoneWith
    <2>7. ToCover(sync', f) /\ OthersMarked(sync', f)
      BY <1>1, <1>4, <2>1, <2>5, <2>6, NextCover
    <2>8. Phases(sync', db'[Dst], held')
      BY <2>2, <2>4, <2>7, UnreadPhases
    <2> QED
      BY <1>6, <2>2, <2>8, ThenBy
  <1>8. CASE /\ sync'.pc = "compare" /\ sync'.found = sync.found /\ sync'.dest = sync.dest
             /\ sync'.list = sync.list /\ sync'.objs = sync.objs /\ sync'.keys = sync.keys
             /\ sync'.cache = sync.cache /\ sync'.agreed = sync.agreed
             /\ db[Src][k].obj # Absent /\ sync'.src = [key |-> k, val |-> db[Src][k].obj]
    <2>1. ToCover(sync', db'[Dst]) /\ OthersMarked(sync', db'[Dst])
      BY <1>2, <1>4, <1>8, CoverSame DEF Left
    <2>2. DestRead(sync', db'[Dst])
      BY <1>2, <1>4, <1>8 DEF DestRead
    <2>3. SourceRead(sync')
      <3>1. db[Src][k].obj = sync.objs[k]
        BY <1>2, <1>4
      <3> QED
        BY <1>1, <1>8, <3>1 DEF SourceRead
    <2>4. Phases(sync', db'[Dst], held')
      BY <1>8, <2>1, <2>2, <2>3, PlaceSets, ComparingPhases
    <2> QED
      BY <1>6, <1>8, <2>4, ThenBy
  <1> QED
    BY <1>2, <1>3, <1>7, <1>8

\* Compare keeps what each place relies on.
LEMMA CompareThen ==
    ASSUME InOrder, Now, Marks(db[Dst], sync, held), Compare
    PROVE  Then
  <1>1. PICK k : k = Head(sync.cache)
    OBVIOUS
  <1>2. /\ held' = held /\ sync.pc = "compare" /\ db'[Src] = db[Src] /\ k \in Keys
        /\ \/ ~sync.found /\ db' = db /\ sync' = [sync EXCEPT !.pc = "apply"]
           \/ /\ sync.found /\ db'[Dst] = Effect(db[Dst], Request("unmark", k))
              /\ sync' = IF ~Matches(sync.src.val, sync.dest.val) THEN [sync EXCEPT !.pc = "apply"]
                         ELSE NextReply(sync, "dest reply", "request")
    BY <1>1, CompareDoes
  <1>3. /\ sync \in SyncRecord(Object) /\ sync.cache \in Seq(Keys) /\ sync.cache # <<>> /\ sync.pc # "idle"
        /\ ToCover(sync, db[Dst]) /\ OthersMarked(sync, db[Dst]) /\ DestRead(sync, db[Dst]) /\ SourceRead(sync)
    BY <1>1, <1>2, ComparingNow
  <1>4. PICK e, f : e = db[Dst] /\ f = db'[Dst]
    OBVIOUS
  <1>5. /\ \A x \in Keys : x # k => f[x] = e[x]
        /\ f[k].obj = e[k].obj /\ ~f[k].dirty
    <2>1. CASE ~sync.found /\ db' = db
      <3>1. e[k].obj = Absent
        BY <1>1, <1>3, <1>4, <2>1 DEF DestRead
      <3>2. ~e[k].dirty
        BY <1>2, <1>4, <3>1 DEF Marks, MarksAreReal
      <3> QED
        BY <1>4, <2>1, <3>2
    <2>2. CASE db'[Dst] = Effect(db[Dst], Request("unmark", k))
      <3>1. PICK cmd \in {"unmark", "del"} : cmd = "unmark"
        OBVIOUS
      <3>2. f = Effect(e, Request(cmd, k)) /\ e \in Database(Object)
        BY <1>4, <2>2, <3>1, OrderHas
      <3>3. k \in Keys
        BY <1>2
      <3>4. /\ \A x \in Keys : x # k => f[x] = e[x]
            /\ cmd = "unmark" => f[k].obj = e[k].obj /\ f[k].dirty = FALSE
        BY <3>2, <3>3, EffectOn
      <3> QED
        BY <3>1, <3>4
    <2> QED
      BY <1>2, <2>1, <2>2
  <1>6. \A x \in Keys : f[x].obj = e[x].obj
    BY <1>5
  <1>7. /\ "dest" \in DOMAIN held' => Answered(held'["dest"].in, db[Dst])
        /\ "source_get" \in DOMAIN held' => Answered(held'["source_get"].in, db[Src])
    BY <1>2, NowHas
  <1>8. sync'.objs = sync.objs => Reads
    BY <1>2, <1>3, <1>4, <1>6, <1>7, StillReads
  <1>9. sync.objs[k] # Absent /\ sync.src = [key |-> k, val |-> sync.objs[k]]
    BY <1>1, <1>3 DEF SourceRead
  <1>10. CASE sync' = [sync EXCEPT !.pc = "apply"]
    <2>1. MovedTo(sync, sync', "apply")
      BY <1>3, <1>10, Moves
    <2>2. /\ sync'.pc = "apply" /\ sync'.objs = sync.objs /\ sync'.cache = sync.cache /\ sync'.keys = sync.keys
          /\ sync'.agreed = sync.agreed /\ sync'.src = sync.src
      BY <2>1 DEF MovedTo
    <2>3. SourceRead(sync')
      BY <1>3, <2>2 DEF SourceRead
    <2>4. OthersMarked(sync', f)
      <3>1. OthersMarked(sync, e)
        BY <1>3, <1>4
      <3> QED
        BY <1>5, <1>9, <2>2, <3>1 DEF OthersMarked
    <2>5. ToCover(sync', f)
      <3> SUFFICES ASSUME NEW x \in Keys, sync.objs[x] # Absent
                   PROVE  Left(x, sync') \/ Covered(x, sync', f) \/ ~sync'.agreed
        BY <2>2 DEF ToCover
      <3>1. Left(x, sync) \/ Covered(x, sync, e) \/ ~sync.agreed
        BY <1>3, <1>4 DEF ToCover
      <3>2. Left(x, sync) => Left(x, sync')
        BY <2>2 DEF Left
      <3>3. Covered(x, sync, e) => Covered(x, sync', f)
        BY <1>5, <1>6, <2>2 DEF Covered
      <3> QED
        BY <2>2, <3>1, <3>2, <3>3
    <2>6. ~f[Head(sync'.cache)].dirty
      BY <1>1, <1>5, <2>2
    <2>7. Phases(sync', f, held')
      BY <2>2, <2>3, <2>4, <2>5, <2>6, PlaceSets, ComparingPhases
    <2> QED
      BY <1>4, <1>8, <2>2, <2>7, ThenBy
  <1>11. CASE sync' = NextReply(sync, "dest reply", "request") /\ sync.found /\ Matches(sync.src.val, sync.dest.val)
    <2>1. WentOn(sync, sync', "dest reply", "request")
      BY <1>3, <1>11, NextReplyAt
    <2>2. sync'.objs = sync.objs /\ (sync'.pc = "dest reply" \/ sync'.pc = "request")
      BY <2>1 DEF WentOn
    <2>3. sync.dest = [key |-> k, val |-> e[k].obj] /\ e[k].obj # Absent
      BY <1>1, <1>3, <1>4, <1>11 DEF DestRead
    <2>4. Matches(sync.objs[k], f[k].obj)
      <3>1. sync.src.val = sync.objs[k]
        BY <1>9
      <3>2. sync.dest.val = e[k].obj
        BY <2>3
      <3> QED
        BY <1>5, <1>11, <3>1, <3>2
    <2>5. Covered(k, sync, f)
      BY <1>5, <2>3, <2>4 DEF Covered
    <2>6. ToCover(sync, e) /\ OthersMarked(sync, e)
      BY <1>3, <1>4
    <2>7. DoneWith(k, sync, e, f)
      BY <1>5, <1>9, <2>5 DEF DoneWith
    <2>8. ToCover(sync', f) /\ OthersMarked(sync', f)
      BY <1>1, <1>3, <2>1, <2>6, <2>7, NextCover
    <2>9. Phases(sync', f, held')
      BY <2>2, <2>8, UnreadPhases
    <2> QED
      BY <1>4, <1>8, <2>2, <2>9, ThenBy
  <1> QED
    BY <1>2, <1>10, <1>11

\* Apply keeps what each place relies on.
LEMMA ApplyThen ==
    ASSUME InOrder, Now, Apply
    PROVE  Then
  <1>1. PICK k : k = Head(sync.cache)
    OBVIOUS
  <1>2. /\ sync.pc = "apply" /\ db'[Src] = db[Src] /\ sync.src \in Item(Object)
        /\ \/ held' = held /\ db' = db /\ sync' = NextReply([sync EXCEPT !.agreed = FALSE], "dest reply", "request")
           \/ /\ OthersKept("meta") /\ db'[Dst] = Effect(db[Dst], Store(sync.src))
              /\ sync' = NextReply(sync, "dest reply", "request")
    BY ApplyDoes
  <1>3. /\ sync \in SyncRecord(Object) /\ sync.cache \in Seq(Keys) /\ sync.cache # <<>> /\ sync.pc # "idle"
        /\ sync.pc \in Answering /\ SyncOk(sync, Object) /\ k \in Keys
        /\ ToCover(sync, db[Dst]) /\ OthersMarked(sync, db[Dst]) /\ SourceRead(sync) /\ ~db[Dst][k].dirty
    BY <1>1, <1>2, ComparingNow
  <1>4. PICK e, f : e = db[Dst] /\ f = db'[Dst]
    OBVIOUS
  <1>5. /\ "dest" \in DOMAIN held' => Answered(held'["dest"].in, db[Dst])
        /\ "source_get" \in DOMAIN held' => Answered(held'["source_get"].in, db[Src])
    BY <1>2, NowHas DEF OthersKept
  <1>6. sync.objs[k] # Absent /\ sync.src = [key |-> k, val |-> sync.objs[k]]
    BY <1>1, <1>3 DEF SourceRead
  <1>7. CASE db' = db /\ sync' = NextReply([sync EXCEPT !.agreed = FALSE], "dest reply", "request")
    <2>1. PICK s : s = [sync EXCEPT !.agreed = FALSE]
      OBVIOUS
    <2>2. /\ s \in SyncRecord(Object) /\ s.cache = sync.cache /\ s.keys = sync.keys /\ s.objs = sync.objs
          /\ s.agreed = FALSE
      BY <1>3, <2>1 DEF SyncRecord
    <2>3. WentOn(s, sync', "dest reply", "request")
      BY <1>7, <2>1, <2>2, NextReplyAt
    <2>4. sync'.objs = sync.objs /\ (sync'.pc = "dest reply" \/ sync'.pc = "request")
      BY <2>2, <2>3 DEF WentOn
    <2>5. ToCover(s, e) /\ OthersMarked(s, e)
      BY <1>3, <1>4, <2>2 DEF ToCover, OthersMarked
    <2>6. s.cache \in Seq(Keys) /\ s.cache # <<>> /\ k = Head(s.cache) /\ s.objs[k] # Absent /\ ~s.agreed /\ f = e
      BY <1>1, <1>3, <1>4, <1>6, <1>7, <2>2
    <2>7. ToCover(sync', f) /\ OthersMarked(sync', f)
      <3>1. DoneWith(k, s, e, f)
        BY <2>6 DEF DoneWith
      <3> QED
        BY <2>3, <2>5, <2>6, <3>1, NextCover
    <2>8. Phases(sync', f, held')
      BY <2>4, <2>7, UnreadPhases
    <2>9. Reads
      BY <1>2, <1>3, <1>5, <1>7, <2>4, StillReads
    <2> QED
      BY <1>4, <2>8, <2>9, ThenBy
  <1>8. CASE db'[Dst] = Effect(db[Dst], Store(sync.src)) /\ sync' = NextReply(sync, "dest reply", "request")
    <2>1. WentOn(sync, sync', "dest reply", "request")
      BY <1>3, <1>8, NextReplyAt
    <2>2. /\ sync'.objs = sync.objs /\ (sync'.pc = "dest reply" \/ sync'.pc = "request")
          /\ sync'.cache = Tail(sync.cache)
      BY <2>1 DEF WentOn
    <2>3. /\ \A x \in Keys : x # k => f[x] = e[x]
          /\ f[k].obj = sync.objs[k] /\ f[k].dirty = e[k].dirty
      <3>1. PICK o \in Item(Object) : o = sync.src
        BY <1>2
      <3>2. f = Effect(e, Store(o)) /\ e \in Database(Object) /\ o.key = k /\ o.val = sync.objs[k]
        <4>1. f = Effect(e, Store(o)) /\ e \in Database(Object)
          BY <1>4, <1>8, <3>1, OrderHas
        <4>2. o = [key |-> k, val |-> sync.objs[k]]
          BY <1>6, <3>1
        <4>3. o.key = k /\ o.val = sync.objs[k]
          BY ONLY <4>2
        <4> QED
          BY <4>1, <4>3
      <3>3. /\ \A x \in Keys : x # o.key => f[x] = e[x]
            /\ f[o.key].obj = o.val /\ f[o.key].dirty = e[o.key].dirty
        BY <3>2, StoreOn
      <3> QED
        BY <3>2, <3>3
    <2>4. Covered(k, sync, f)
      BY <1>3, <1>4, <1>6, <2>3 DEF Covered, Matches
    <2>5. ToCover(sync, e) /\ OthersMarked(sync, e)
      BY <1>3, <1>4
    <2>6. ToCover(sync', f) /\ OthersMarked(sync', f)
      <3>1. DoneWith(k, sync, e, f)
        BY <1>6, <2>3, <2>4 DEF DoneWith
      <3> QED
        BY <1>1, <1>3, <2>1, <2>5, <3>1, NextCover
    <2>7. Phases(sync', f, held')
      BY <2>2, <2>6, UnreadPhases
    <2>8. Pending("dest", sync') = Tail(sync.cache) \/ Pending("dest", sync') = <<>>
      BY <2>2 DEF Pending, AllDue, RestDue
    <2>9. \A x \in Keys : InRange(x, Pending("dest", sync')) => db'[Dst][x].obj = db[Dst][x].obj
      BY <1>1, <1>3, <1>4, <2>3, <2>8, OtherPending
    <2>10. Reads
      BY <1>2, <1>3, <1>5, <2>2, <2>9, StillReads
    <2> QED
      BY <1>4, <2>7, <2>10, ThenBy
  <1> QED
    BY <1>2, <1>7, <1>8

\* SourceDone keeps what each place relies on.
LEMMA SourceDoneThen ==
    ASSUME InOrder, Now, SourceDone
    PROVE  Then
  <1>1. /\ sync.pc = "request" /\ sync.keys = <<>> /\ db' = db /\ sync' = [sync EXCEPT !.pc = "delete_walk"]
        /\ sync \in SyncRecord(Object)
    BY OrderHas DEF SourceDone
  <1>2. sync.cache = <<>>
    BY <1>1, OrderHas DEF SyncOk, Answering
  <1>3. MovedTo(sync, sync', "delete_walk")
    BY <1>1, Moves
  <1>4. sync'.pc = "delete_walk" /\ sync'.objs = sync.objs /\ sync'.agreed = sync.agreed
    BY <1>3 DEF MovedTo
  <1>5. Reads
    BY <1>1, <1>4, QuietPending, QuietReads
  <1>6. ToCover(sync, db[Dst]) /\ OthersMarked(sync, db[Dst])
    BY <1>1, NowHas, PlaceSets, ComparingPhases
  <1>7. \A k : ~Left(k, sync)
    BY <1>1, <1>2, EmptyWalk DEF Left
  <1>8. OthersMarked(sync', db'[Dst]) /\ (sync'.agreed => AllCovered(sync', db'[Dst]))
    BY <1>1, <1>4, <1>6, <1>7 DEF ToCover, OthersMarked, AllCovered, Covered
  <1>9. Phases(sync', db'[Dst], held')
    BY <1>4, <1>8, PlaceSets, ListedPhases
  <1> QED
    BY <1>5, <1>9, ThenBy

\* ScanMarked keeps what each place relies on.
LEMMA ScanMarkedThen ==
    ASSUME InOrder, Now, ScanMarked
    PROVE  Then
  <1>1. PICK a : a = Opens["delete_walk"][1]
    OBVIOUS
  <1>2. /\ db' = db /\ a = Dst /\ sync.pc = "scan marked" /\ sync \in SyncRecord(Object)
        /\ sync' = [sync EXCEPT !.pc = "marked", !.keys = Scanned(db[a])]
    <2>1. Walked("scan marked", "delete_walk", "marked", a)
      BY <1>1, WalkDoes DEF ScanMarked
    <2> QED
      BY <2>1, OrderHas DEF Walked
  <1>3. /\ sync'.pc = "marked" /\ sync'.keys = Scanned(db[Dst]) /\ sync'.objs = sync.objs
        /\ sync'.agreed = sync.agreed
    BY <1>2 DEF SyncRecord
  <1>4. Reads
    BY <1>2, <1>3, QuietPending, QuietReads
  <1>5. OthersMarked(sync, db[Dst]) /\ (sync.agreed => AllCovered(sync, db[Dst]))
    BY <1>2, NowHas, PlaceSets, ListedPhases
  <1>6. OthersMarked(sync', db'[Dst]) /\ (sync'.agreed => AllCovered(sync', db'[Dst]))
    BY <1>2, <1>3, <1>5 DEF OthersMarked, AllCovered, Covered
  <1>7. ToRemove(sync', db'[Dst])
    <2> SUFFICES ASSUME NEW k \in Keys, db[Dst][k].obj # Absent PROVE InRange(k, sync'.keys)
      BY <1>2 DEF ToRemove, Left
    <2>1. db[Dst][k] # NoHash
      BY DEF NoHash
    <2> QED
      BY <1>3, <2>1, ScannedIs
  <1>8. Phases(sync', db'[Dst], held')
    BY <1>3, <1>6, <1>7, PlaceSets, RemovingPhases
  <1> QED
    BY <1>4, <1>8, ThenBy

\* At a place of the removal.
LEMMA RemovingNow ==
    ASSUME InOrder, Now, sync.pc \in Removing
    PROVE  /\ sync \in SyncRecord(Object) /\ sync.keys \in Seq(Keys) /\ sync.cache \in Seq(Keys)
           /\ SyncOk(sync, Object) /\ sync.pc # "idle"
           /\ sync.cache # <<>> <=> sync.pc # "marked"
           /\ sync.pc # "marked" => Head(sync.cache) \in Keys
           /\ OthersMarked(sync, db[Dst]) /\ (sync.agreed => AllCovered(sync, db[Dst]) /\ ToRemove(sync, db[Dst]))
           /\ sync.pc = "unmark" => db[Dst][Head(sync.cache)].obj = Absent
  <1>1. SyncOk(sync, Object) /\ sync \in SyncRecord(Object)
    BY OrderHas
  <1>2. sync.pc # "idle" /\ (sync.pc \in Answering <=> sync.pc # "marked")
    BY DEF Removing, Answering
  <1>3. sync.keys \in Seq(Keys) /\ sync.cache \in Seq(Keys) /\ (sync.pc # "marked" => Head(sync.cache) \in Keys)
    BY <1>1, <1>2, SyncHas
  <1>4. sync.cache # <<>> <=> sync.pc # "marked"
    BY <1>1, <1>2 DEF SyncOk
  <1>5. Phases(sync, db[Dst], held)
    BY NowHas
  <1>6. /\ OthersMarked(sync, db[Dst]) /\ (sync.agreed => AllCovered(sync, db[Dst]) /\ ToRemove(sync, db[Dst]))
        /\ sync.pc = "unmark" => db[Dst][Head(sync.cache)].obj = Absent
    BY <1>5, RemovingPhases
  <1> QED
    BY <1>1, <1>2, <1>3, <1>4, <1>6

\* The walk of the removal goes on; one key was done with.
NowRemoved(k, s, t, e, f) ==
    /\ t.objs = s.objs /\ (t.agreed => s.agreed)
    /\ \A x : Left(x, s) => Left(x, t) \/ x = k
    /\ \A x \in Keys : x # k => f[x] = e[x]
    /\ f[k].obj # Absent => f[k].obj = e[k].obj /\ f[k].dirty = e[k].dirty
    /\ s.objs[k] # Absent /\ s.agreed /\ Covered(k, s, e) => Covered(k, s, f)
    /\ Left(k, t) \/ f[k].obj = Absent \/ s.objs[k] # Absent

\* One object is removed.
LEMMA RemovedStep ==
    ASSUME NEW k \in Keys, NEW s, NEW t, NEW e, NEW f, NowRemoved(k, s, t, e, f),
           OthersMarked(s, e), s.agreed => AllCovered(s, e) /\ ToRemove(s, e)
    PROVE  OthersMarked(t, f) /\ (t.agreed => AllCovered(t, f) /\ ToRemove(t, f))
  <1>1. OthersMarked(t, f)
    BY DEF NowRemoved, OthersMarked
  <1>2. ASSUME t.agreed PROVE AllCovered(t, f)
    <2>1. s.agreed /\ AllCovered(s, e) /\ t.objs = s.objs
      BY <1>2 DEF NowRemoved
    <2> SUFFICES ASSUME NEW x \in Keys, s.objs[x] # Absent PROVE Covered(x, s, f)
      BY <2>1 DEF AllCovered, Covered
    <2>2. Covered(x, s, e)
      BY <2>1 DEF AllCovered
    <2>3. CASE x = k
      BY <2>1, <2>2, <2>3 DEF NowRemoved
    <2>4. CASE x # k
      BY <2>2, <2>4 DEF NowRemoved, Covered
    <2> QED
      BY <2>3, <2>4
  <1>3. ASSUME t.agreed PROVE ToRemove(t, f)
    <2>1. ToRemove(s, e) /\ t.objs = s.objs
      BY <1>3 DEF NowRemoved
    <2> SUFFICES ASSUME NEW x \in Keys, f[x].obj # Absent PROVE t.objs[x] # Absent \/ Left(x, t)
      BY DEF ToRemove
    <2>2. CASE x = k
      BY <2>1, <2>2 DEF NowRemoved
    <2>3. CASE x # k
      <3>1. f[x] = e[x] /\ (Left(x, s) => Left(x, t))
        BY <2>3 DEF NowRemoved
      <3> QED
        BY <2>1, <3>1 DEF ToRemove
    <2> QED
      BY <2>2, <2>3
  <1> QED
    BY <1>1, <1>2, <1>3

\* The destination is the same.
LEMMA SameRemoved ==
    ASSUME NEW k, NEW s, NEW t, NEW e, t.objs = s.objs, t.agreed => s.agreed, \A x : Left(x, s) => Left(x, t) \/ x = k,
           Left(k, t) \/ e[k].obj = Absent \/ s.objs[k] # Absent
    PROVE  NowRemoved(k, s, t, e, e)
  BY DEF NowRemoved

\* SendMarked keeps what each place relies on.
LEMMA SendMarkedThen ==
    ASSUME InOrder, Now, SendMarked
    PROVE  Then
  <1>1. /\ sync.pc = "marked" /\ db' = db /\ sync.keys # <<>>
        /\ sync' = IF held["delete_meta"].up THEN [sync EXCEPT !.pc = "marked reply", !.cache = Batch, !.keys = Rest]
                   ELSE [sync EXCEPT !.pc = "err"]
    BY DEF SendMarked, Fill
  <1>2. /\ sync \in SyncRecord(Object) /\ sync.keys \in Seq(Keys) /\ sync.cache = <<>> /\ sync.pc # "idle"
        /\ OthersMarked(sync, db[Dst]) /\ (sync.agreed => AllCovered(sync, db[Dst]) /\ ToRemove(sync, db[Dst]))
    BY <1>1, PlaceSets, RemovingNow
  <1>3. held["delete_meta"].up
    <2>1. "delete_meta" \in DOMAIN held /\ "delete_meta" \in SyncRoles
      BY <1>1, OrderHas DEF Needs, SyncRoles
    <2> QED
      BY <2>1, OrderHas DEF OwesOnly
  <1>4. /\ sync'.pc = "marked reply" /\ sync'.keys = Rest /\ sync'.cache = Batch /\ sync'.objs = sync.objs
        /\ sync'.agreed = sync.agreed
    BY <1>1, <1>2, <1>3 DEF SyncRecord
  <1>5. Reads
    BY <1>1, <1>2, <1>4, QuietPending, QuietReads
  <1>6. \A k : Left(k, sync) => Left(k, sync')
    BY <1>2, <1>4, FilledLeft
  <1>7. OthersMarked(sync', db'[Dst]) /\ (sync'.agreed => AllCovered(sync', db'[Dst]) /\ ToRemove(sync', db'[Dst]))
    BY <1>1, <1>2, <1>4, <1>6 DEF OthersMarked, AllCovered, Covered, ToRemove
  <1>8. Phases(sync', db'[Dst], held')
    BY <1>4, <1>7, PlaceSets, RemovingPhases
  <1> QED
    BY <1>5, <1>8, ThenBy

\* MarkedReply keeps what each place relies on.
LEMMA MarkedReplyThen ==
    ASSUME InOrder, Now, Marks(db[Dst], sync, held), MarkedReply
    PROVE  Then
  <1>1. PICK k : k = Head(sync.cache)
    OBVIOUS
  <1>2. /\ db' = db /\ "delete_meta" \in DOMAIN held /\ sync.pc = "marked reply" /\ k \in Keys
        /\ \/ /\ sync' = [sync EXCEPT !.pc = "load"]
              /\ Answered(held["delete_meta"].in, db[Dst]) => db[Dst][k].dirty
           \/ /\ sync' = NextReply(sync, "marked reply", "marked")
              /\ Answered(held["delete_meta"].in, db[Dst]) => ~db[Dst][k].dirty
    BY <1>1, MarkedReplyDoes
  <1>3. Answered(held["delete_meta"].in, db[Dst])
    BY <1>2 DEF Marks
  <1>4. /\ sync \in SyncRecord(Object) /\ sync.cache \in Seq(Keys) /\ sync.cache # <<>> /\ sync.pc # "idle"
        /\ OthersMarked(sync, db[Dst]) /\ (sync.agreed => AllCovered(sync, db[Dst]) /\ ToRemove(sync, db[Dst]))
    BY <1>2, PlaceSets, RemovingNow
  <1>5. PICK e : e = db[Dst] /\ e = db'[Dst]
    BY <1>2
  <1>6. OthersMarked(sync, e) /\ (sync.agreed => AllCovered(sync, e) /\ ToRemove(sync, e))
    BY <1>4, <1>5
  <1>7. CASE sync' = [sync EXCEPT !.pc = "load"]
    <2>1. MovedTo(sync, sync', "load")
      BY <1>4, <1>7, Moves
    <2>2. /\ sync'.pc = "load" /\ sync'.objs = sync.objs /\ sync'.cache = sync.cache /\ sync'.keys = sync.keys
          /\ sync'.agreed = sync.agreed
      BY <2>1 DEF MovedTo
    <2>3. \A x : Left(x, sync) <=> Left(x, sync')
      BY <2>2 DEF Left
    <2>4. Left(k, sync')
      BY <1>1, <1>4, <2>2, RestOf DEF Left
    <2>5. NowRemoved(k, sync, sync', e, e)
      BY <2>2, <2>3, <2>4, SameRemoved
    <2>6. OthersMarked(sync', e) /\ (sync'.agreed => AllCovered(sync', e) /\ ToRemove(sync', e))
      BY <1>2, <1>6, <2>5, RemovedStep
    <2>7. Phases(sync', e, held')
      BY <2>2, <2>6, PlaceSets, RemovingPhases
    <2>8. Reads
      BY <1>2, <1>4, <2>2, QuietPending, QuietReads
    <2> QED
      BY <1>5, <2>7, <2>8, ThenBy
  <1>8. CASE sync' = NextReply(sync, "marked reply", "marked") /\ ~db[Dst][k].dirty
    <2>1. WentOn(sync, sync', "marked reply", "marked")
      BY <1>4, <1>8, NextReplyAt
    <2>2. /\ sync'.pc \in {"marked reply", "marked"} /\ sync'.objs = sync.objs /\ sync'.cache = Tail(sync.cache)
          /\ sync'.keys = sync.keys /\ sync'.agreed = sync.agreed
      BY <2>1 DEF WentOn
    <2>3. \A x : Left(x, sync) => Left(x, sync') \/ x = k
      BY <1>1, <1>4, <2>2, LeftOn
    <2>4. e[k].obj = Absent \/ sync.objs[k] # Absent
      BY <1>2, <1>5, <1>6, <1>8 DEF OthersMarked
    <2>5. NowRemoved(k, sync, sync', e, e)
      BY <2>2, <2>3, <2>4, SameRemoved
    <2>6. OthersMarked(sync', e) /\ (sync'.agreed => AllCovered(sync', e) /\ ToRemove(sync', e))
      BY <1>2, <1>6, <2>5, RemovedStep
    <2>7. Phases(sync', e, held')
      BY <2>2, <2>6, PlaceSets, RemovingPhases
    <2>8. Reads
      BY <1>2, <1>4, <2>2, QuietPending, QuietReads
    <2> QED
      BY <1>5, <2>7, <2>8, ThenBy
  <1> QED
    BY <1>2, <1>3, <1>7, <1>8

\* Load keeps what each place relies on.
LEMMA LoadThen ==
    ASSUME InOrder, Now, Load
    PROVE  Then
  <1>1. PICK k : k = Head(sync.cache)
    OBVIOUS
  <1>2. /\ db' = db /\ sync.pc = "load" /\ k \in Keys
        /\ \E s \in SyncRecord(Object) :
              /\ s.pc = sync.pc /\ s.list = sync.list /\ s.objs = sync.objs /\ s.keys = sync.keys
              /\ s.cache = sync.cache
              /\ \/ sync' = [s EXCEPT !.pc = "delete"] /\ s.agreed = sync.agreed
                 \/ sync' = NextReply(s, "marked reply", "marked") /\ s.agreed = FALSE
    BY <1>1, LoadDoes
  <1>3. PICK s \in SyncRecord(Object) :
              /\ s.objs = sync.objs /\ s.keys = sync.keys /\ s.cache = sync.cache
              /\ \/ sync' = [s EXCEPT !.pc = "delete"] /\ s.agreed = sync.agreed
                 \/ sync' = NextReply(s, "marked reply", "marked") /\ s.agreed = FALSE
    BY <1>2
  <1>4. /\ sync.cache \in Seq(Keys) /\ sync.cache # <<>> /\ sync.pc # "idle"
        /\ OthersMarked(sync, db[Dst]) /\ (sync.agreed => AllCovered(sync, db[Dst]) /\ ToRemove(sync, db[Dst]))
    BY <1>2, PlaceSets, RemovingNow
  <1>5. PICK e : e = db[Dst] /\ e = db'[Dst]
    BY <1>2
  <1>6. OthersMarked(sync, e) /\ (sync.agreed => AllCovered(sync, e) /\ ToRemove(sync, e))
    BY <1>4, <1>5
  <1>7. CASE sync' = [s EXCEPT !.pc = "delete"] /\ s.agreed = sync.agreed
    <2>1. MovedTo(s, sync', "delete")
      BY <1>7, Moves
    <2>2. /\ sync'.pc = "delete" /\ sync'.objs = sync.objs /\ sync'.cache = sync.cache /\ sync'.keys = sync.keys
          /\ sync'.agreed = sync.agreed
      BY <1>3, <1>7, <2>1 DEF MovedTo
    <2>3. \A x : Left(x, sync) <=> Left(x, sync')
      BY <2>2 DEF Left
    <2>4. Left(k, sync')
      BY <1>1, <1>4, <2>2, RestOf DEF Left
    <2>5. NowRemoved(k, sync, sync', e, e)
      BY <2>2, <2>3, <2>4, SameRemoved
    <2>6. OthersMarked(sync', e) /\ (sync'.agreed => AllCovered(sync', e) /\ ToRemove(sync', e))
      BY <1>2, <1>6, <2>5, RemovedStep
    <2>7. Phases(sync', e, held')
      BY <2>2, <2>6, PlaceSets, RemovingPhases
    <2>8. Reads
      BY <1>2, <1>4, <2>2, QuietPending, QuietReads
    <2> QED
      BY <1>5, <2>7, <2>8, ThenBy
  <1>8. CASE sync' = NextReply(s, "marked reply", "marked") /\ s.agreed = FALSE
    <2>1. WentOn(s, sync', "marked reply", "marked")
      BY <1>8, NextReplyAt
    <2>2. sync'.pc \in {"marked reply", "marked"} /\ sync'.objs = sync.objs /\ sync'.agreed = FALSE
      BY <1>3, <1>8, <2>1 DEF WentOn
    <2>3. OthersMarked(sync', e)
      BY <1>6, <2>2 DEF OthersMarked
    <2>4. Phases(sync', e, held')
      BY <2>2, <2>3, PlaceSets, RemovingPhases
    <2>5. Reads
      BY <1>2, <1>4, <2>2, QuietPending, QuietReads
    <2> QED
      BY <1>5, <2>4, <2>5, ThenBy
  <1> QED
    BY <1>3, <1>7, <1>8

\* Delete keeps what each place relies on.
LEMMA DeleteThen ==
    ASSUME InOrder, Now, Marks(db[Dst], sync, held), Delete
    PROVE  Then
  <1>1. PICK k : k = Head(sync.cache)
    OBVIOUS
  <1>2. /\ sync.pc = "delete" /\ sync.dest.key = k /\ db[Dst][k].dirty
        /\ db'[Src] = db[Src] /\ sync' = [sync EXCEPT !.pc = "unmark"]
    BY <1>1, DeleteDoes DEF Marks
  <1>3. /\ sync \in SyncRecord(Object) /\ sync.cache \in Seq(Keys) /\ sync.cache # <<>> /\ sync.pc # "idle"
        /\ k \in Keys
        /\ OthersMarked(sync, db[Dst]) /\ (sync.agreed => AllCovered(sync, db[Dst]) /\ ToRemove(sync, db[Dst]))
    BY <1>1, <1>2, PlaceSets, RemovingNow
  <1>4. PICK e, f : e = db[Dst] /\ f = db'[Dst]
    OBVIOUS
  <1>5. OthersMarked(sync, e) /\ (sync.agreed => AllCovered(sync, e) /\ ToRemove(sync, e))
    BY <1>3, <1>4
  <1>6. (\A x \in Keys : x # k => f[x] = e[x]) /\ f[k].obj = Absent
    <2>1. PICK cmd \in {"unmark", "del"} : cmd = "del"
      OBVIOUS
    <2>2. f = Effect(e, Request(cmd, k)) /\ e \in Database(Object)
      BY <1>2, <1>3, <1>4, <2>1, DeleteDoes, OrderHas
    <2>3. /\ \A x \in Keys : x # k => f[x] = e[x]
          /\ cmd = "del" => f[k].obj = Absent /\ f[k].dirty = FALSE
      BY <1>3, <2>2, EffectOn
    <2> QED
      BY <2>1, <2>3
  <1>7. MovedTo(sync, sync', "unmark")
    BY <1>2, <1>3, Moves
  <1>8. /\ sync'.pc = "unmark" /\ sync'.objs = sync.objs /\ sync'.cache = sync.cache /\ sync'.keys = sync.keys
        /\ sync'.agreed = sync.agreed
    BY <1>7 DEF MovedTo
  <1>9. \A x : Left(x, sync) <=> Left(x, sync')
    BY <1>8 DEF Left
  <1>10. ~Covered(k, sync, e)
    BY <1>2, <1>4 DEF Covered
  <1>11. NowRemoved(k, sync, sync', e, f)
    BY <1>6, <1>8, <1>9, <1>10 DEF NowRemoved
  <1>12. OthersMarked(sync', f) /\ (sync'.agreed => AllCovered(sync', f) /\ ToRemove(sync', f))
    BY <1>3, <1>5, <1>11, RemovedStep
  <1>13. f[Head(sync'.cache)].obj = Absent
    BY <1>1, <1>6, <1>8
  <1>14. Phases(sync', f, held')
    BY <1>8, <1>12, <1>13, PlaceSets, RemovingPhases
  <1>15. Reads
    BY <1>2, <1>3, <1>8, QuietPending, QuietReads
  <1> QED
    BY <1>4, <1>14, <1>15, ThenBy

\* Unmark keeps what each place relies on.
LEMMA UnmarkThen ==
    ASSUME InOrder, Now, Unmark
    PROVE  Then
  <1>1. PICK k : k = Head(sync.cache)
    OBVIOUS
  <1>2. /\ sync.pc = "unmark" /\ db'[Src] = db[Src] /\ k \in Keys
        /\ db'[Dst] = Effect(db[Dst], Request("unmark", k))
        /\ sync' = NextReply(sync, "marked reply", "marked")
    BY <1>1, UnmarkDoes
  <1>3. /\ sync \in SyncRecord(Object) /\ sync.cache \in Seq(Keys) /\ sync.cache # <<>> /\ sync.pc # "idle"
        /\ OthersMarked(sync, db[Dst]) /\ (sync.agreed => AllCovered(sync, db[Dst]) /\ ToRemove(sync, db[Dst]))
        /\ db[Dst][k].obj = Absent
    BY <1>1, <1>2, PlaceSets, RemovingNow
  <1>4. PICK e, f : e = db[Dst] /\ f = db'[Dst]
    OBVIOUS
  <1>5. OthersMarked(sync, e) /\ (sync.agreed => AllCovered(sync, e) /\ ToRemove(sync, e)) /\ e[k].obj = Absent
    BY <1>3, <1>4
  <1>6. (\A x \in Keys : x # k => f[x] = e[x]) /\ f[k].obj = Absent
    <2>1. PICK cmd \in {"unmark", "del"} : cmd = "unmark"
      OBVIOUS
    <2>2. f = Effect(e, Request(cmd, k)) /\ e \in Database(Object) /\ k \in Keys
      BY <1>2, <1>4, <2>1, OrderHas
    <2>3. /\ \A x \in Keys : x # k => f[x] = e[x]
          /\ cmd = "unmark" => f[k].obj = e[k].obj /\ f[k].dirty = FALSE
      BY <2>2, EffectOn
    <2> QED
      BY <1>5, <2>1, <2>3
  <1>7. WentOn(sync, sync', "marked reply", "marked")
    BY <1>2, <1>3, NextReplyAt
  <1>8. /\ sync'.pc \in {"marked reply", "marked"} /\ sync'.objs = sync.objs /\ sync'.cache = Tail(sync.cache)
        /\ sync'.keys = sync.keys /\ sync'.agreed = sync.agreed
    BY <1>7 DEF WentOn
  <1>9. \A x : Left(x, sync) => Left(x, sync') \/ x = k
    BY <1>1, <1>3, <1>8, LeftOn
  <1>10. ~Covered(k, sync, e)
    BY <1>5 DEF Covered
  <1>11. NowRemoved(k, sync, sync', e, f)
    BY <1>6, <1>8, <1>9, <1>10 DEF NowRemoved
  <1>12. OthersMarked(sync', f) /\ (sync'.agreed => AllCovered(sync', f) /\ ToRemove(sync', f))
    BY <1>2, <1>5, <1>11, RemovedStep
  <1>13. Phases(sync', f, held')
    BY <1>8, <1>12, PlaceSets, RemovingPhases
  <1>14. Reads
    BY <1>2, <1>3, <1>8, QuietPending, QuietReads
  <1> QED
    BY <1>4, <1>13, <1>14, ThenBy

\* DeleteDone keeps what each place relies on.
LEMMA DeleteDoneThen ==
    ASSUME InOrder, Now, Marks(db[Dst], sync, held), DeleteDone
    PROVE  Then
  <1>1. sync.pc = "marked" /\ sync.keys = <<>> /\ db' = db /\ sync' = [sync EXCEPT !.pc = "ok"]
    BY DEF DeleteDone, pipeVars
  <1>2. /\ sync \in SyncRecord(Object) /\ sync.cache = <<>> /\ sync.pc # "idle"
        /\ OthersMarked(sync, db[Dst]) /\ (sync.agreed => AllCovered(sync, db[Dst]) /\ ToRemove(sync, db[Dst]))
    BY <1>1, PlaceSets, RemovingNow
  <1>3. MovedTo(sync, sync', "ok")
    BY <1>1, <1>2, Moves
  <1>4. sync'.pc = "ok" /\ sync'.objs = sync.objs /\ sync'.agreed = sync.agreed
    BY <1>3 DEF MovedTo
  <1>5. Reads
    BY <1>1, <1>2, <1>4, QuietPending, QuietReads
  <1>6. \A k : ~Left(k, sync)
    BY <1>1, <1>2, EmptyWalk DEF Left
  <1>7. ASSUME sync'.agreed PROVE AllCovered(sync', db'[Dst]) /\ NothingElse(sync', db'[Dst])
    <2>1. AllCovered(sync, db[Dst]) /\ ToRemove(sync, db[Dst]) /\ MarksAreReal(db[Dst])
      BY <1>2, <1>4, <1>7 DEF Marks
    <2>2. AllCovered(sync', db'[Dst])
      BY <1>1, <1>4, <2>1 DEF AllCovered, Covered
    <2>3. NothingElse(sync', db'[Dst])
      BY <1>1, <1>4, <1>6, <2>1 DEF NothingElse, ToRemove, MarksAreReal
    <2> QED
      BY <2>2, <2>3
  <1>8. Phases(sync', db'[Dst], held')
    BY <1>4, <1>7, EndPhases
  <1> QED
    BY <1>5, <1>8, ThenBy

\* Return keeps what each place relies on.
LEMMA ReturnThen ==
    ASSUME InOrder, Now, Return
    PROVE  Then
  <1>1. /\ sync.pc \in {"ok", "err"} /\ db' = db /\ sync \in SyncRecord(Object)
        /\ sync' = [sync EXCEPT !.pc = "idle", !.rc = sync.pc, !.keys = <<>>, !.cache = <<>>, !.dest = Blank]
    BY OrderHas DEF Return
  <1>2. sync'.pc = "idle" /\ sync'.rc = sync.pc /\ sync'.objs = sync.objs /\ sync'.agreed = sync.agreed
    BY <1>1 DEF SyncRecord
  <1>3. Reads
    BY <1>1, <1>2, QuietPending, QuietReads
  <1>4. ASSUME sync.pc = "ok", sync.agreed PROVE AllCovered(sync', db'[Dst]) /\ NothingElse(sync', db'[Dst])
    <2>1. AllCovered(sync, db[Dst]) /\ NothingElse(sync, db[Dst])
      BY <1>4, NowHas, EndPhases
    <2> QED
      BY <1>1, <1>2, <2>1 DEF AllCovered, Covered, NothingElse
  <1>5. PICK t, f, g : t = sync' /\ f = db'[Dst] /\ g = held'
    OBVIOUS
  <1>6. t.pc \in {"ok", "idle"}
    BY <1>2, <1>5
  <1>7. t.agreed /\ (t.pc = "idle" => t.rc = "ok") => AllCovered(t, f) /\ NothingElse(t, f)
    BY <1>2, <1>4, <1>5
  <1>8. Phases(t, f, g)
    BY <1>6, <1>7, EndPhases
  <1>9. Phases(sync', db'[Dst], held')
    BY <1>5, <1>8
  <1> QED
    BY <1>3, <1>9, ThenBy

\* A step beside the synchronisation that touches no object.
LEMMA BesideThen ==
    ASSUME InOrder, Now, sync' = sync, Beside, touched' = {}
    PROVE  Then
  <1>1. db' = db /\ HeldSame
    BY DEF Beside
  <1>2. "dest" \in SyncRoles /\ "source_get" \in SyncRoles /\ "marks" \in SyncRoles
    BY DEF SyncRoles
  <1>3. Reads
    BY <1>1, <1>2, NowHas DEF HeldSame, Reads
  <1>4. sync.pc \in Marking => held'["marks"] = held["marks"]
    <2>1. sync.pc \in Marking => "marks" \in Needs(sync)
      BY DEF Marking, Needs
    <2>2. Needs(sync) \subseteq DOMAIN held
      BY OrderHas
    <2> QED
      BY <1>1, <1>2, <2>1, <2>2 DEF HeldSame
  <1>5. Phases(sync', db'[Dst], held')
    <2>1. Phases(sync, db[Dst], held)
      BY NowHas
    <2> QED
      BY <1>1, <1>4, <2>1 DEF Phases, MarkPhase
  <1> QED
    BY <1>3, <1>5, ThenBy

\* Every step but Start keeps what each place relies on.
LEMMA NextThen ==
    ASSUME InOrder, Aligned, Marks(db[Dst], sync, held), Now, [Next]_vars, ~Start, ~gaveUp', touched' = {}
    PROVE  Then
  <1>1. CASE UNCHANGED vars
    BY <1>1 DEF vars, pipeVars, Now, Then
  <1>2. CASE PipeStep /\ UNCHANGED sync
    <2>1. Beside /\ sync' = sync
      BY <1>2, PipeBeside DEF InOrder
    <2> QED
      BY <2>1, BesideThen
  <1>3. CASE SyncStep
    <2>1. CASE \E role \in DOMAIN Opens : Open(role)
      BY <2>1, OpensAre, OpenThen
    <2>2. CASE ScanDestination \/ ScanSource \/ ScanMarked \/ Ping
      BY <2>2, ScanDestinationThen, ScanSourceThen, ScanMarkedThen, PingThen
    <2>3. CASE SendMarks \/ SendMarked \/ RequestListed \/ RequestBoth
      BY <2>3, SendMarksThen, SendMarkedThen, RequestListedThen, RequestBothThen
    <2>4. CASE MarkReply \/ DestReply \/ SourceReply \/ MarkedReply
      BY <2>4, MarkReplyThen, DestReplyThen, SourceReplyThen, MarkedReplyThen
    <2>5. CASE Load \/ Delete \/ Unmark
      BY <2>5, LoadThen, DeleteThen, UnmarkThen
    <2>6. CASE Compare \/ Apply
      BY <2>6, CompareThen, ApplyThen
    <2>7. CASE Marked \/ SourceDone \/ DeleteDone \/ Return
      BY <2>7, MarkedThen, SourceDoneThen, DeleteDoneThen, ReturnThen
    <2> QED
      BY <1>3, <2>1, <2>2, <2>3, <2>4, <2>5, <2>6, <2>7, Filling DEF SyncStep
  <1> QED
    BY <1>1, <1>2, <1>3 DEF Next

\* CoveredInv holds at first.
LEMMA CoveredInit == Init => CoveredInv
  <1> SUFFICES ASSUME Init PROVE Now
    BY DEF CoveredInv, Now
  <1>1. sync.pc = "idle" /\ sync.rc = "none" /\ held = <<>>
    BY DEF Init, PipeInit
  <1>2. "dest" \notin DOMAIN held /\ "source_get" \notin DOMAIN held
    BY <1>1
  <1>3. Phases(sync, db[Dst], held)
    BY <1>1, EndPhases
  <1> QED
    BY <1>1, <1>2, <1>3 DEF Now, Synced

\* Every step keeps CoveredInv.
LEMMA CoveredNext == TypedInv /\ AlignedInv /\ MarkedInv /\ CoveredInv /\ [Next]_vars => CoveredInv'
  <1> SUFFICES ASSUME TypedInv, AlignedInv, MarkedInv, CoveredInv, [Next]_vars, Sound', touched' = {}
               PROVE  Then
    BY DEF CoveredInv, Then
  <1>1. TypedFor(Object) /\ Taken /\ TypedFor(Object)'
    BY TypedNext DEF TypedInv
  <1>2. CASE Start
    BY <1>1, <1>2, StartThen
  <1>3. CASE ~Start
    <2>1. ~gaveUp /\ ~gaveUp' /\ "sync" \notin lostBy'
      BY GaveUpRemembered DEF Sound
    <2>2. Aligned /\ Aligned'
      <3>1. AlignedInv'
        BY AlignedNext
      <3> QED
        BY <2>1, <3>1 DEF AlignedInv
    <2>3. "sync" \notin lostBy /\ touched = {}
      BY <1>3, <2>1, StaysSound
    <2>4. InOrder
      BY <1>1, <2>1, <2>2, <2>3, InOrderBy
    <2>5. Marks(db[Dst], sync, held)
      BY <2>1, <2>3 DEF MarkedInv, Sound
    <2>6. Now
      BY <2>1, <2>3 DEF CoveredInv, Sound, Now
    <2> QED
      BY <1>3, <2>1, <2>2, <2>4, <2>5, <2>6, NextThen
  <1> QED
    BY <1>2, <1>3

\* SyncedMeansCovered: a synchronisation that returned OK, agreed to and
\* undisturbed, left the destination as the source was.
THEOREM SyncCovers == Spec => []SyncedMeansCovered
  <1>1. CoveredInv => SyncedMeansCovered
    <2> SUFFICES ASSUME CoveredInv, sync.pc = "idle", sync.rc = "ok", sync.agreed,
                        touched = {}, "sync" \notin lostBy, ~gaveUp, NEW k \in Keys
                 PROVE  /\ ~db[Dst][k].dirty
                        /\ (db[Dst][k].obj = Absent) <=> (sync.objs[k] = Absent)
                        /\ sync.objs[k] # Absent => Matches(sync.objs[k], db[Dst][k].obj)
      BY DEF SyncedMeansCovered
    <2>1. Phases(sync, db[Dst], held)
      BY DEF CoveredInv, Sound, Synced
    <2>2. AllCovered(sync, db[Dst]) /\ NothingElse(sync, db[Dst])
      BY <2>1, EndPhases
    <2> QED
      BY <2>2 DEF AllCovered, Covered, NothingElse
  <1> QED
    BY <1>1, TypedInit, TypedNext, InitAligned, AlignedNext, MarkedInit, MarkedNext,
       CoveredInit, CoveredNext, PTL DEF Spec
=============================================================================
