-------------------------- MODULE CpsClientProofs --------------------------
(***************************************************************************)
(* Proofs about what the clients of the library are given.  CpsRequest:    *)
(* how old the knowledge of an owner may be when a request is sent to it,  *)
(* and what a get that returns OK has returned.  CpsConnectivity: the      *)
(* groups a process sees are the ones that were set.  CpsHistory: the YANG *)
(* tools give every name its own number, and the same number in every      *)
(* build.                                                                  *)
(***************************************************************************)
EXTENDS CpsRequest, CpsConnectivity, CpsHistory, CpsRegistrationsProofs, FiniteSetTheorems

-----------------------------------------------------------------------------
(* Gets *)

CacheEntry == [owner : Owners \cup {NoOwner}, age : Nat, slow : Nat]

\* The client works on a filter of its get.
AtFilter == pc \in {"ask", "nodes", "connect", "send", "receive", "filter"}

RequestTyped ==
    /\ alive \subseteq Owners
    /\ answer \in [Keys -> Owners \cup {NoOwner}]
    /\ moved \in [Keys -> [Owners -> Nat]]
    /\ cache \in [Keys -> CacheEntry]
    /\ pc \in {"idle", "ask", "nodes", "connect", "send", "receive", "filter", "done"}
    /\ req \in Request
    /\ ix \in Nat
    /\ AtFilter => ix \in DOMAIN req.filters
    /\ slow \in Nat
    /\ lag \in Nat

\* The answer of the name service is as new as can be.
AnswersNew == \A k \in Keys : answer[k] # NoOwner => moved[k][answer[k]] = 0

\* What is cached was the answer before it was that old, and before the time
\* its connection took.
CacheBounded ==
    \A k \in Keys : cache[k].owner # NoOwner =>
        moved[k][cache[k].owner] <= cache[k].age + cache[k].slow

\* What the client has found is as old as its query, or as a handle that is
\* still taken from the cache.
AskedBounded ==
    /\ pc = "connect" => asked \in Owners /\ moved[key][asked] <= slow
    /\ pc = "send" => asked \in Owners /\ moved[key][asked] <= TM + slow
    /\ pc = "receive" => lag <= TM + slow

\* The inductive invariant.
OwnerInv == RequestTyped /\ AnswersNew /\ CacheBounded /\ AskedBounded

\* The filter the client works on has a key.
LEMMA KeyType == ASSUME RequestTyped, AtFilter PROVE key \in Keys
  <1>1. req.filters \in Seq(Filter) /\ ix \in DOMAIN req.filters
    BY DEF RequestTyped, Request
  <1>2. req.filters[ix] \in Filter
    BY <1>1
  <1> QED
    BY <1>2 DEF key, filter, Filter

\* At the start everything is new and nothing is cached.
LEMMA InitOwnerInv == RequestInit => OwnerInv
  <1> SUFFICES ASSUME RequestInit PROVE OwnerInv
    OBVIOUS
  <1>1. req \in Request
    BY DEF RequestInit, NoGet, Request
  <1>2. cache \in [Keys -> CacheEntry] /\ \A k \in Keys : cache[k].owner = NoOwner
    BY DEF RequestInit, NoEntry, CacheEntry
  <1>3. moved \in [Keys -> [Owners -> Nat]] /\ \A k \in Keys, o \in Owners : moved[k][o] = 0
    BY DEF RequestInit
  <1>4. RequestTyped
    BY <1>1, <1>2, <1>3 DEF RequestInit, RequestTyped, AtFilter
  <1>5. AnswersNew
    BY <1>3 DEF RequestInit, AnswersNew
  <1> QED
    BY <1>2, <1>4, <1>5 DEF RequestInit, OwnerInv, CacheBounded, AskedBounded

\* The steps of a get that neither look for an owner nor send keep the bounds,
\* as nothing in them depends on such a step.
LEMMA OtherStep ==
    ASSUME OwnerInv, UNCHANGED <<answer, moved, cache>>, alive' \subseteq Owners,
           RequestTyped', pc' \notin {"connect", "send"},
           pc' = "receive" => pc = "receive" /\ lag' = lag /\ slow' = slow
    PROVE  OwnerInv'
  BY DEF OwnerInv, AnswersNew, CacheBounded, AskedBounded

\* Every step keeps the bounds.
LEMMA NextOwnerInv == OwnerInv /\ [RequestNext]_requestVars => OwnerInv'
  <1> SUFFICES ASSUME OwnerInv, [RequestNext]_requestVars PROVE OwnerInv'
    OBVIOUS
  <1> USE DEF envVars, getVars, connVars
  <1>1. ASSUME NEW r \in Requests, Get(r) PROVE OwnerInv'
    <2>1. r \in Request /\ r.filters \in Seq(Filter)
      BY RequestAssumption DEF Request
    <2>2. r.filters # <<>> => 1 \in DOMAIN r.filters
      BY <2>1
    <2>3. RequestTyped'
      BY <1>1, <2>1, <2>2 DEF Get, OwnerInv, RequestTyped, AtFilter
    <2> QED
      BY <1>1, <2>3, OtherStep DEF Get, OwnerInv, RequestTyped
  <1>2. ASSUME (\E resolved \in BOOLEAN : DbGet(resolved)) \/ NextNode PROVE OwnerInv'
    <2>1. /\ pc \in {"ask", "nodes"} /\ pc' \in {"nodes", "filter"}
          /\ UNCHANGED <<envVars, cache, req, ix, connVars>>
      BY <1>2 DEF DbGet, NextNode
    <2>2. RequestTyped'
      BY <2>1 DEF OwnerInv, RequestTyped, AtFilter
    <2> QED
      BY <2>1, <2>2, OtherStep DEF OwnerInv, RequestTyped
  <1>3. CASE EndFilter
    <2>1. req.filters \in Seq(Filter) /\ ix \in DOMAIN req.filters
      BY <1>3 DEF EndFilter, OwnerInv, RequestTyped, AtFilter, Request
    <2>2. ix \in Nat /\ (ix # Len(req.filters) => ix + 1 \in DOMAIN req.filters)
      BY <2>1
    <2>3. RequestTyped'
      BY <1>3, <2>1, <2>2 DEF EndFilter, OwnerInv, RequestTyped, AtFilter
    <2> QED
      BY <1>3, <2>3, OtherStep DEF EndFilter, OwnerInv, RequestTyped
  <1>4. CASE StopAtFailure
    <2>1. RequestTyped'
      BY <1>4 DEF StopAtFailure, OwnerInv, RequestTyped, AtFilter
    <2> QED
      BY <1>4, <2>1, OtherStep DEF StopAtFailure, OwnerInv, RequestTyped
  <1>5. CASE Return
    <2>1. NoGet \in Request
      BY DEF NoGet, Request
    <2>2. RequestTyped'
      BY <1>5, <2>1 DEF Return, Forgotten, OwnerInv, RequestTyped, AtFilter
    <2> QED
      BY <1>5, <2>2, OtherStep DEF Return, OwnerInv, RequestTyped
  <1>6. CASE CacheConnect
    <2>1. key \in Keys /\ key' = key
      BY <1>6, KeyType DEF CacheConnect, ToService, OwnerInv, AtFilter, key, filter
    <2>2. cache[key] \in CacheEntry /\ cache[key].owner # NoOwner /\ cache[key].age <= TM
      BY <1>6, <2>1, RequestAssumption DEF CacheConnect, Hit, Cached, Expired, OwnerInv, RequestTyped, CacheEntry
    <2>3. cache[key].owner \in Owners /\ cache[key].age \in Nat /\ cache[key].slow \in Nat
      BY <2>2 DEF CacheEntry
    <2>4. RequestTyped'
      BY <1>6, <2>3 DEF CacheConnect, ToService, Used, OwnerInv, RequestTyped, AtFilter
    <2>5. moved[key][cache[key].owner] \in Nat
          /\ moved[key][cache[key].owner] <= cache[key].age + cache[key].slow
      BY <2>1, <2>2, <2>3 DEF OwnerInv, RequestTyped, CacheBounded
    <2>6. moved[key][cache[key].owner] <= TM + cache[key].slow
      BY <2>2, <2>3, <2>5, RequestAssumption
    <2>7. AskedBounded'
      BY <1>6, <2>1, <2>3, <2>6 DEF CacheConnect, AskedBounded
    <2> QED
      BY <1>6, <2>4, <2>7 DEF CacheConnect, Used, OwnerInv, AnswersNew, CacheBounded
  <1>7. CASE Query
    <2>1. key \in Keys /\ key' = key
      BY <1>7, KeyType DEF Query, ToService, OwnerInv, AtFilter, key, filter
    <2>2. NoEntry \in CacheEntry /\ NoEntry.owner = NoOwner
      BY DEF NoEntry, CacheEntry
    <2>3. RequestTyped'
      BY <1>7, <2>2 DEF Query, ToService, OwnerInv, RequestTyped, AtFilter
    <2>4. CacheBounded'
      BY <1>7, <2>1, <2>2 DEF Query, OwnerInv, RequestTyped, CacheBounded
    <2>5. AskedBounded'
      BY <1>7, <2>1 DEF Query, OwnerInv, RequestTyped, AnswersNew, AskedBounded
    <2> QED
      BY <1>7, <2>3, <2>4, <2>5 DEF Query, OwnerInv, AnswersNew
  <1>8. CASE ConnectOwner
    <2>1. key \in Keys /\ key' = key
      BY <1>8, KeyType DEF ConnectOwner, OwnerInv, AtFilter, key, filter
    <2>2. asked \in Owners /\ moved[key][asked] <= slow /\ slow \in Nat /\ moved[key][asked] \in Nat
      BY <1>8, <2>1 DEF ConnectOwner, OwnerInv, AskedBounded, RequestTyped
    <2> DEFINE e == [owner |-> asked, age |-> 0, slow |-> slow]
    <2>3. e \in CacheEntry /\ e.owner = asked /\ e.age = 0 /\ e.slow = slow
      BY <2>2 DEF CacheEntry
    <2> HIDE DEF e
    <2>4. CASE asked \in alive
      <3>1. cache' = [cache EXCEPT ![key] = e] /\ pc' = "send"
        BY <1>8, <2>4 DEF ConnectOwner, e
      <3>2. RequestTyped'
        BY <1>8, <2>3, <3>1 DEF ConnectOwner, OwnerInv, RequestTyped, AtFilter
      <3>3. CacheBounded'
        BY <1>8, <2>1, <2>2, <2>3, <3>1 DEF ConnectOwner, OwnerInv, RequestTyped, CacheBounded
      <3>4. AskedBounded'
        BY <1>8, <2>1, <2>2, <3>1, RequestAssumption DEF ConnectOwner, AskedBounded
      <3> QED
        BY <1>8, <3>2, <3>3, <3>4 DEF ConnectOwner, OwnerInv, AnswersNew
    <2>5. CASE asked \notin alive
      <3>1. RequestTyped'
        BY <1>8, <2>5 DEF ConnectOwner, OwnerInv, RequestTyped, AtFilter
      <3> QED
        BY <1>8, <2>5, <3>1, OtherStep DEF ConnectOwner, OwnerInv, RequestTyped
    <2> QED
      BY <2>4, <2>5
  <1>9. CASE Send
    <2>1. key \in Keys
      BY <1>9, KeyType DEF Send, OwnerInv, AtFilter
    <2>2. asked \in Owners /\ moved[key][asked] <= TM + slow /\ moved[key][asked] \in Nat
      BY <1>9, <2>1 DEF Send, OwnerInv, AskedBounded, RequestTyped
    <2>3. RequestTyped'
      BY <1>9, <2>2 DEF Send, OwnerInv, RequestTyped, AtFilter
    <2> QED
      BY <1>9, <2>2, <2>3 DEF Send, OwnerInv, AnswersNew, CacheBounded, AskedBounded
  <1>10. CASE ReceiveObject \/ ReceiveLast \/ ReceiveEnd \/ ReceiveTimeout \/ HandleGet \/ HandleGetFails
    <2>1. /\ pc = "receive" /\ pc' \in {"receive", "filter"}
          /\ UNCHANGED <<envVars, cache, req, ix, asked, slow, lag>>
      BY <1>10 DEF ReceiveObject, ReceiveLast, ReceiveEnd, ReceiveTimeout, HandleGet, HandleGetFails, Serves
    <2>2. RequestTyped'
      BY <2>1 DEF OwnerInv, RequestTyped, AtFilter
    <2> QED
      BY <2>1, <2>2, OtherStep DEF OwnerInv, RequestTyped
  <1>11. ASSUME NEW o \in Owners, NEW n \in 0 .. Len(stream), OwnerEnds(o, n) PROVE OwnerInv'
    <2>1. key' = key
      BY <1>11 DEF OwnerEnds, key, filter
    <2>2. RequestTyped'
      BY <1>11 DEF OwnerEnds, OwnerInv, RequestTyped, AtFilter
    <2> QED
      BY <1>11, <2>1, <2>2 DEF OwnerEnds, OwnerInv, AnswersNew, CacheBounded, AskedBounded
  <1>12. ASSUME NEW k \in Keys, NEW o \in Owners \cup {NoOwner}, Move(k, o) PROVE OwnerInv'
    <2>1. /\ moved' \in [Keys -> [Owners -> Nat]]
          /\ \A l \in Keys, x \in Owners : moved'[l][x] <= moved[l][x] /\ moved'[l][x] \in Nat
          /\ \A l \in Keys \ {k} : moved'[l] = moved[l]
          /\ o # NoOwner => moved'[k][o] = 0
      BY <1>12 DEF Move, OwnerInv, RequestTyped
    <2>2. /\ answer' \in [Keys -> Owners \cup {NoOwner}] /\ answer'[k] = o
          /\ \A l \in Keys \ {k} : answer'[l] = answer[l]
          /\ UNCHANGED <<alive, cache, pc, req, ix, asked, slow, lag>>
      BY <1>12 DEF Move, OwnerInv, RequestTyped
    <2>3. RequestTyped'
      BY <2>1, <2>2 DEF OwnerInv, RequestTyped, AtFilter
    <2>4. AnswersNew'
      BY <2>1, <2>2 DEF OwnerInv, AnswersNew
    <2>5. CacheBounded'
      <3> SUFFICES ASSUME NEW l \in Keys, cache[l].owner # NoOwner
                   PROVE  moved'[l][cache[l].owner] <= cache[l].age + cache[l].slow
        BY <2>2 DEF CacheBounded
      <3>1. cache[l].owner \in Owners /\ cache[l].age \in Nat /\ cache[l].slow \in Nat
        BY DEF OwnerInv, RequestTyped, CacheEntry
      <3>2. moved[l][cache[l].owner] \in Nat /\ moved[l][cache[l].owner] <= cache[l].age + cache[l].slow
        BY <3>1 DEF OwnerInv, RequestTyped, CacheBounded
      <3>3. moved'[l][cache[l].owner] \in Nat /\ moved'[l][cache[l].owner] <= moved[l][cache[l].owner]
        BY <2>1, <3>1
      <3> QED
        BY <3>1, <3>2, <3>3
    <2>6. AskedBounded'
      <3>1. key' = key /\ (AtFilter => key \in Keys)
        BY <2>2, KeyType DEF OwnerInv, key, filter
      <3>2. pc = "connect" => asked \in Owners /\ moved'[key][asked] <= slow
        BY <2>1, <3>1 DEF OwnerInv, RequestTyped, AskedBounded, AtFilter
      <3>3. pc = "send" => asked \in Owners /\ moved'[key][asked] <= TM + slow
        BY <2>1, <3>1, RequestAssumption DEF OwnerInv, RequestTyped, AskedBounded, AtFilter
      <3> QED
        BY <2>2, <3>1, <3>2, <3>3 DEF OwnerInv, AskedBounded
    <2> QED
      BY <2>3, <2>4, <2>5, <2>6 DEF OwnerInv
  <1>13. CASE Tick
    <2>1. /\ moved' \in [Keys -> [Owners -> Nat]]
          /\ \A l \in Keys, x \in Owners : moved'[l][x] <= moved[l][x] + 1 /\ moved'[l][x] \in Nat
          /\ \A l \in Keys : answer[l] # NoOwner => moved'[l][answer[l]] = 0
      BY <1>13 DEF Tick, OwnerInv, RequestTyped
    <2>2. cache' \in [Keys -> CacheEntry]
          /\ \A l \in Keys : /\ cache'[l].owner = cache[l].owner /\ cache'[l].slow = cache[l].slow
                             /\ cache[l].owner # NoOwner => cache'[l].age = cache[l].age + 1
      <3> DEFINE older(l) == [cache[l] EXCEPT !.age = @ + 1]
      <3>1. \A l \in Keys : cache[l] \in CacheEntry
        BY DEF OwnerInv, RequestTyped
      <3>2. \A l \in Keys : /\ older(l) \in CacheEntry /\ older(l).owner = cache[l].owner
                            /\ older(l).slow = cache[l].slow /\ older(l).age = cache[l].age + 1
        BY <3>1 DEF CacheEntry
      <3>3. cache' = [l \in Keys |-> IF cache[l].owner = NoOwner THEN cache[l] ELSE older(l)]
        BY <1>13 DEF Tick
      <3> HIDE DEF older
      <3> QED
        BY <3>1, <3>2, <3>3
    <2>3. /\ slow' \in Nat /\ slow' = (IF pc \in {"connect", "send"} THEN slow + 1 ELSE slow)
          /\ UNCHANGED <<alive, answer, pc, req, ix, asked, lag>>
      BY <1>13 DEF Tick, OwnerInv, RequestTyped
    <2>4. RequestTyped'
      BY <2>1, <2>2, <2>3 DEF OwnerInv, RequestTyped, AtFilter
    <2>5. AnswersNew'
      BY <2>1, <2>3 DEF AnswersNew
    <2>6. CacheBounded'
      <3> SUFFICES ASSUME NEW l \in Keys, cache[l].owner # NoOwner
                   PROVE  moved'[l][cache[l].owner] <= (cache[l].age + 1) + cache[l].slow
        BY <2>2 DEF CacheBounded
      <3>1. cache[l].owner \in Owners /\ cache[l].age \in Nat /\ cache[l].slow \in Nat
        BY DEF OwnerInv, RequestTyped, CacheEntry
      <3>2. moved[l][cache[l].owner] \in Nat /\ moved[l][cache[l].owner] <= cache[l].age + cache[l].slow
        BY <3>1 DEF OwnerInv, RequestTyped, CacheBounded
      <3>3. moved'[l][cache[l].owner] \in Nat /\ moved'[l][cache[l].owner] <= moved[l][cache[l].owner] + 1
        BY <2>1, <3>1
      <3> QED
        BY <3>1, <3>2, <3>3
    <2>7. AskedBounded'
      <3>1. key' = key /\ (AtFilter => key \in Keys)
        BY <2>3, KeyType DEF OwnerInv, key, filter
      <3>2. pc = "connect" => asked \in Owners /\ moved'[key][asked] <= slow'
        BY <2>1, <2>3, <3>1 DEF OwnerInv, RequestTyped, AskedBounded, AtFilter
      <3>3. pc = "send" => asked \in Owners /\ moved'[key][asked] <= TM + slow'
        BY <2>1, <2>3, <3>1, RequestAssumption DEF OwnerInv, RequestTyped, AskedBounded, AtFilter
      <3> QED
        BY <2>3, <3>1, <3>2, <3>3 DEF OwnerInv, AskedBounded
    <2> QED
      BY <2>4, <2>5, <2>6, <2>7 DEF OwnerInv
  <1>14. CASE UNCHANGED requestVars
    BY <1>14 DEF requestVars, OwnerInv, RequestTyped, AtFilter, AnswersNew, CacheBounded, AskedBounded, key, filter
  <1> QED
    BY <1>1, <1>2, <1>3, <1>4, <1>5, <1>6, <1>7, <1>8, <1>9, <1>10, <1>11, <1>12, <1>13, <1>14 DEF RequestNext, DbAnswers, DbLost

\* For any owners, keys, requests and lifetime of handles: a request goes to a
\* process that was the name service's answer for the key at most TM, and the
\* time its connecting took, ago (cps_api_get_handle, cache_connect).
THEOREM OwnersAskedAreRecent == RequestSpec => []SentToRecentOwner
  <1>1. OwnerInv => SentToRecentOwner
    BY DEF OwnerInv, AskedBounded, SentToRecentOwner
  <1>2. RequestSpec => []OwnerInv
    BY InitOwnerInv, NextOwnerInv, PTL DEF RequestSpec
  <1> QED
    BY <1>1, <1>2, PTL

-----------------------------------------------------------------------------
(* What a get returns *)

\* One step of Matching.
MatchingStep(l, f, n) ==
    IF n = 0 THEN <<>>
    ELSE IF l[n].match THEN Append(f[n - 1], l[n]) ELSE f[n - 1]

\* Exactly gives a list of objects.
LEMMA ExactlyType == ASSUME NEW S, NEW l \in Seq(S) PROVE Exactly(l) \in Seq(S)
  <1> DEFINE T == {n \in Nat : \E f : f = [m \in 0..n |-> MatchingStep(l, f, m)]}
  <1>1. 0 \in T
    <2> DEFINE f == [m \in 0..0 |-> <<>>]
    <2>1. \A m \in 0..0 : MatchingStep(l, f, m) = <<>>
      BY DEF MatchingStep
    <2>2. f = [m \in 0..0 |-> MatchingStep(l, f, m)]
      BY <2>1
    <2> HIDE DEF f
    <2> QED
      BY <2>2
  <1>2. ASSUME NEW n \in T PROVE n + 1 \in T
    <2>1. PICK f : f = [m \in 0..n |-> MatchingStep(l, f, m)]
      OBVIOUS
    <2> DEFINE g == [m \in 0..(n + 1) |-> IF m = n + 1 THEN MatchingStep(l, f, n + 1) ELSE f[m]]
    <2>2. ASSUME NEW m \in 0..(n + 1) PROVE g[m] = MatchingStep(l, g, m)
      <3>1. CASE m = 0
        <4>1. 0 \in 0..n /\ 0 \in 0..(n + 1) /\ 0 # n + 1
          OBVIOUS
        <4>2. g[0] = f[0]
          BY <4>1
        <4>3. f[0] = MatchingStep(l, f, 0)
          BY <4>1, <2>1
        <4>4. MatchingStep(l, f, 0) = MatchingStep(l, g, 0)
          BY DEF MatchingStep
        <4> QED
          BY <3>1, <4>2, <4>3, <4>4
      <3>2. CASE m # 0
        <4>1. m - 1 \in 0..n /\ m - 1 # n + 1 /\ g[m - 1] = f[m - 1]
          BY <3>2
        <4>2. MatchingStep(l, g, m) = MatchingStep(l, f, m)
          BY <4>1, <3>2 DEF MatchingStep
        <4>3. CASE m = n + 1
          BY <4>2, <4>3
        <4>4. CASE m # n + 1
          <5>1. m \in 0..n
            BY <4>4
          <5>2. f[m] = MatchingStep(l, f, m)
            BY <5>1, <2>1
          <5> QED
            BY <4>4, <5>2, <4>2
        <4> QED
          BY <4>3, <4>4
      <3> QED
        BY <3>1, <3>2
    <2>3. g = [m \in 0..(n + 1) |-> MatchingStep(l, g, m)]
      BY <2>2
    <2> HIDE DEF g
    <2> QED
      BY <2>3
  <1>3. T = Nat
    <2> HIDE DEF T
    <2>1. T \in SUBSET Nat
      BY DEF T
    <2> QED
      BY <1>1, <1>2, <2>1, Induction
  <1>4. Len(l) \in T
    BY <1>3
  <1>5. \E f : f = [m \in 0..Len(l) |-> MatchingStep(l, f, m)]
    BY <1>4
  <1> DEFINE K == Matching(l)
  <1>6. K = [m \in 0..Len(l) |-> MatchingStep(l, K, m)]
    BY <1>5, Zenon DEF Matching, MatchingStep
  <1> HIDE DEF K
  <1>7. \A n \in 0..Len(l) : K[n] = MatchingStep(l, K, n)
    BY <1>6
  <1> DEFINE U == {n \in Nat : n <= Len(l) => K[n] \in Seq(S)}
  <1>8. 0 \in U
    <2>1. 0 \in 0..Len(l) /\ <<>> \in Seq(S)
      OBVIOUS
    <2>2. K[0] = <<>>
      BY <1>7, <2>1 DEF MatchingStep
    <2> QED
      BY <2>1, <2>2
  <1>9. ASSUME NEW n \in U PROVE n + 1 \in U
    <2> SUFFICES ASSUME n + 1 <= Len(l) PROVE K[n + 1] \in Seq(S)
      OBVIOUS
    <2>1. K[n] \in Seq(S) /\ n + 1 \in 0..Len(l) /\ l[n + 1] \in S
      OBVIOUS
    <2>2. K[n + 1] = IF l[n + 1].match THEN Append(K[n], l[n + 1]) ELSE K[n]
      BY <1>7, <2>1 DEF MatchingStep
    <2> QED
      BY <2>1, <2>2
  <1>10. U = Nat
    <2> HIDE DEF U
    <2>1. U \in SUBSET Nat
      BY DEF U
    <2> QED
      BY <1>8, <1>9, <2>1, Induction
  <1>11. K[Len(l)] \in Seq(S)
    BY <1>10
  <1> QED
    BY <1>11 DEF Exactly, K

\* An empty list is made of no parts.
LEMMA MadeOfNone == ASSUME NEW parts PROVE MadeOf(<<>>, parts, 0)
  <1> DEFINE end == [i \in 0..0 |-> 0]
  <1>1. end \in [0..0 -> 0..Len(<<>>)] /\ end[0] = 0 /\ end[0] = Len(<<>>)
    OBVIOUS
  <1>2. \A i \in 1..0 : end[i - 1] <= end[i] /\ SubSeq(<<>>, end[i - 1] + 1, end[i]) = parts[i]
    OBVIOUS
  <1> HIDE DEF end
  <1> QED
    BY <1>1, <1>2 DEF MadeOf

\* Only the first parts count.
LEMMA MadeOfSame ==
    ASSUME NEW l, NEW parts, NEW others, NEW n \in Nat, MadeOf(l, parts, n),
           \A i \in 1..n : others[i] = parts[i]
    PROVE  MadeOf(l, others, n)
  BY DEF MadeOf

\* One more part.
LEMMA MadeOfMore ==
    ASSUME NEW l \in Seq(Object), NEW parts, NEW n \in Nat, MadeOf(l, parts, n),
           NEW s \in Seq(Object), parts[n + 1] = s
    PROVE  MadeOf(l \o s, parts, n + 1)
  <1> DEFINE t == l \o s
  <1>1. /\ t \in Seq(Object) /\ Len(t) = Len(l) + Len(s) /\ Len(l) \in Nat /\ Len(s) \in Nat
        /\ \A j \in 1..Len(l) : t[j] = l[j]
        /\ \A j \in 1..Len(s) : t[Len(l) + j] = s[j]
    OBVIOUS
  <1> HIDE DEF t
  <1>2. PICK end \in [0..n -> 0..Len(l)] :
            /\ end[0] = 0 /\ end[n] = Len(l)
            /\ \A i \in 1..n : end[i - 1] <= end[i] /\ SubSeq(l, end[i - 1] + 1, end[i]) = parts[i]
    BY DEF MadeOf
  <1> DEFINE e == [i \in 0..(n + 1) |-> IF i = n + 1 THEN Len(t) ELSE end[i]]
  <1>3. e \in [0..(n + 1) -> 0..Len(t)] /\ e[0] = 0 /\ e[n + 1] = Len(t) /\ \A i \in 0..n : e[i] = end[i]
    <2>1. \A i \in 0..(n + 1) : i # n + 1 => i \in 0..n
      OBVIOUS
    <2>2. \A i \in 0..n : end[i] \in 0..Len(l) /\ i # n + 1 /\ i \in 0..(n + 1)
      BY <1>2
    <2>3. Len(l) <= Len(t) /\ Len(t) \in Nat
      BY <1>1
    <2> QED
      BY <1>2, <2>1, <2>2, <2>3
  <1> HIDE DEF e
  <1>4. ASSUME NEW i \in 1..(n + 1) PROVE e[i - 1] <= e[i] /\ SubSeq(t, e[i - 1] + 1, e[i]) = parts[i]
    <2>1. CASE i = n + 1
      <3>1. e[i - 1] = Len(l) /\ e[i] = Len(t)
        BY <1>2, <1>3, <2>1
      <3>2. SubSeq(t, Len(l) + 1, Len(t)) = s
        <4> DEFINE u == SubSeq(t, Len(l) + 1, Len(t))
        <4>1. u \in Seq(Object) /\ Len(u) = Len(s)
          BY <1>1
        <4>2. ASSUME NEW j \in 1..Len(s) PROVE u[j] = s[j]
          <5>1. u[j] = t[Len(l) + 1 + j - 1] /\ Len(l) + 1 + j - 1 = Len(l) + j
            BY <1>1
          <5> QED
            BY <1>1, <5>1
        <4> HIDE DEF u
        <4>3. u = s
          BY <4>1, <4>2, SeqEqual
        <4> QED
          BY <4>3 DEF u
      <3> QED
        BY <1>1, <2>1, <3>1, <3>2
    <2>2. CASE i # n + 1
      <3>1. i \in 1..n /\ i - 1 \in 0..n /\ i \in 0..n
        BY <2>2
      <3>2. /\ e[i - 1] = end[i - 1] /\ e[i] = end[i] /\ end[i - 1] <= end[i]
            /\ end[i - 1] \in 0..Len(l) /\ end[i] \in 0..Len(l)
            /\ SubSeq(l, end[i - 1] + 1, end[i]) = parts[i]
        BY <1>2, <1>3, <3>1
      <3>3. SubSeq(t, end[i - 1] + 1, end[i]) = SubSeq(l, end[i - 1] + 1, end[i])
        <4> DEFINE a == end[i - 1]
                   b == end[i]
                   u == SubSeq(t, a + 1, b)
                   v == SubSeq(l, a + 1, b)
        <4>1. a \in 0..Len(l) /\ b \in 0..Len(l) /\ a <= b /\ b <= Len(t)
          BY <1>1, <3>2
        <4> HIDE DEF a, b
        <4>2. u \in Seq(Object) /\ v \in Seq(Object) /\ Len(u) = b - a /\ Len(v) = b - a
          BY <1>1, <4>1
        <4>3. ASSUME NEW j \in 1..(b - a) PROVE u[j] = v[j]
          <5>1. a + j \in 1..Len(l) /\ a + 1 + j - 1 = a + j
            BY <1>1, <4>1
          <5>2. u[j] = t[a + 1 + j - 1]
            BY <1>1, <4>1
          <5>3. v[j] = l[a + 1 + j - 1]
            BY <1>1, <4>1
          <5> QED
            BY <1>1, <5>1, <5>2, <5>3
        <4> HIDE DEF u, v
        <4>4. u = v
          BY <4>2, <4>3, SeqEqual
        <4> QED
          BY <4>4 DEF u, v, a, b
      <3> QED
        BY <3>2, <3>3
    <2> QED
      BY <2>1, <2>2
  <1>5. MadeOf(t, parts, n + 1)
    BY <1>3, <1>4 DEF MadeOf
  <1> QED
    BY <1>5 DEF t

\* A list is its beginning and the rest.
LEMMA Split ==
    ASSUME NEW l \in Seq(Object), NEW n \in 0..Len(l)
    PROVE  l = SubSeq(l, 1, n) \o SubSeq(l, n + 1, Len(l))
  <1> DEFINE a == SubSeq(l, 1, n)
             b == SubSeq(l, n + 1, Len(l))
             t == a \o b
  <1>1. /\ Len(l) \in Nat /\ n <= Len(l) /\ n \in Nat /\ a \in Seq(Object) /\ b \in Seq(Object)
        /\ Len(a) = n /\ Len(b) = Len(l) - n
    OBVIOUS
  <1>2. \A j \in 1..n : a[j] = l[j]
    OBVIOUS
  <1>3. ASSUME NEW j \in 1..(Len(l) - n) PROVE b[j] = l[n + j]
    <2>1. b[j] = l[n + 1 + j - 1] /\ n + 1 + j - 1 = n + j
      BY <1>1
    <2> QED
      BY <2>1
  <1> HIDE DEF a, b
  <1>4. t \in Seq(Object) /\ Len(t) = Len(l)
    BY <1>1
  <1>5. ASSUME NEW j \in 1..Len(l) PROVE t[j] = l[j]
    <2>1. CASE j <= n
      BY <1>1, <1>2, <2>1
    <2>2. CASE j > n
      <3>1. t[j] = b[j - n] /\ j - n \in 1..(Len(l) - n)
        BY <1>1, <2>2
      <3>2. b[j - n] = l[n + (j - n)] /\ n + (j - n) = j
        BY <1>1, <1>3, <3>1
      <3> QED
        BY <3>1, <3>2
    <2> QED
      BY <1>1, <2>1, <2>2
  <1> HIDE DEF t
  <1>6. t = l
    BY <1>4, <1>5, SeqEqual
  <1> QED
    BY <1>6 DEF t, a, b

\* Two lists joined fall apart again.
LEMMA JoinedApart ==
    ASSUME NEW a \in Seq(Object), NEW b \in Seq(Object)
    PROVE  SubSeq(a \o b, 1, Len(a)) = a /\ SubSeq(a \o b, Len(a) + 1, Len(a \o b)) = b
  <1> DEFINE t == a \o b
             u == SubSeq(t, 1, Len(a))
             v == SubSeq(t, Len(a) + 1, Len(t))
  <1>1. /\ t \in Seq(Object) /\ Len(t) = Len(a) + Len(b) /\ Len(a) \in Nat /\ Len(b) \in Nat
        /\ \A j \in 1..Len(a) : t[j] = a[j]
        /\ \A j \in 1..Len(b) : t[Len(a) + j] = b[j]
    OBVIOUS
  <1> HIDE DEF t
  <1>2. u \in Seq(Object) /\ Len(u) = Len(a) /\ v \in Seq(Object) /\ Len(v) = Len(b)
    BY <1>1
  <1>3. \A j \in 1..Len(a) : u[j] = a[j]
    BY <1>1
  <1>4. ASSUME NEW j \in 1..Len(b) PROVE v[j] = b[j]
    <2>1. v[j] = t[Len(a) + 1 + j - 1] /\ Len(a) + 1 + j - 1 = Len(a) + j
      BY <1>1
    <2> QED
      BY <1>1, <2>1
  <1> HIDE DEF u, v
  <1>5. u = a
    BY <1>2, <1>3, SeqEqual
  <1>6. v = b
    BY <1>2, <1>4, SeqEqual
  <1> QED
    BY <1>5, <1>6 DEF u, v, t

Message ==
    [msg : {"GET_RESP"}, obj : Object] \cup [msg : {"GET_DONE"}] \cup [msg : {"RETURN_CODE"}, code : {"ERR"}]

ListTyped ==
    /\ list \in Seq(Object)
    /\ from \in Nat
    /\ stream \in Seq(Message)
    /\ AtFilter => /\ gave \in [DOMAIN req.filters -> Seq(Object)]
                   /\ from <= Len(list)
    /\ pc \in {"ask", "connect", "send"} => from = Len(list)

\* No filter has failed and no answer has ended too soon.
Whole == failed = {} /\ cut = {}

\* What each filter is to contribute.
Parts == [i \in DOMAIN req.filters |-> Wanted(i)]

\* The list up to _cur_lst_len is what the filters before contributed.
DoneBefore == AtFilter /\ Whole => MadeOf(SubSeq(list, 1, from), Parts, ix - 1)

\* What was received for the filter and what is on its way are the answer of
\* the owner, or a beginning of it.
InAnswer(g, n) ==
    /\ n <= Len(g)
    /\ n + Len(stream) <= Len(g) + 1
    /\ \A j \in 1..n : list[from + j] = g[j]
    /\ \A j \in 1..Len(stream) :
           stream[j] = IF n + j <= Len(g) THEN [msg |-> "GET_RESP", obj |-> g[n + j]] ELSE [msg |-> "GET_DONE"]
Answering ==
    pc = "receive" =>
        /\ ~req.timed => rc = "ERR"
        /\ ~served => stream = <<>> /\ from = Len(list)
        /\ \/ \A j \in 1..Len(stream) : stream[j].msg = "RETURN_CODE"
           \/ InAnswer(gave[ix], Len(list) - from)

\* A filter that has succeeded has added what it was given.
Added == pc = "filter" /\ rc = "OK" /\ Whole => SubSeq(list, from + 1, Len(list)) = gave[ix]

\* The databases before the next one have added what they hold.
FromNodes ==
    pc = "nodes" =>
        /\ node \in 1..Len(Databases)
        /\ gave[ix] = Held[Len(Databases)]
        /\ Whole => SubSeq(list, from + 1, Len(list)) = Held[node - 1]

\* The inductive invariant, beside OwnerInv.
ListInv == ListTyped /\ DoneBefore /\ Answering /\ FromNodes /\ Added /\ OkMeansComplete

\* At the start there is no get.
LEMMA InitListInv == RequestInit => ListInv
  <1> SUFFICES ASSUME RequestInit PROVE ListInv
    OBVIOUS
  <1>1. <<>> \in Seq(Object) /\ <<>> \in Seq(Message)
    OBVIOUS
  <1> QED
    BY <1>1 DEF RequestInit, ListInv, ListTyped, AtFilter, DoneBefore, Answering, FromNodes, Added, OkMeansComplete

\* A step at a filter that leaves the list and what belongs to it alone.
LEMMA SameList ==
    ASSUME ListInv, AtFilter, UNCHANGED <<list, from, req, gave, ix, failed>>, cut' = {} => cut = {},
           stream' \in Seq(Message), pc' \in {"ask", "connect", "send"} => from = Len(list)
    PROVE  ListTyped' /\ DoneBefore'
  <1>1. ListTyped'
    BY DEF ListInv, ListTyped, AtFilter
  <1>2. Parts' = Parts
    BY DEF Parts, Wanted, Narrows
  <1>3. DoneBefore'
    BY <1>2 DEF ListInv, DoneBefore, Whole
  <1> QED
    BY <1>1, <1>3

\* cps_api_get begins.
LEMMA GetList ==
    ASSUME ListInv, NEW r \in Requests, Get(r)
    PROVE  ListInv'
  <1> USE DEF envVars, getVars, connVars
  <1>1. r.filters \in Seq(Filter) /\ <<>> \in Seq(Object) /\ Len(<<>>) = 0 /\ SubSeq(<<>>, 1, 0) = <<>>
    BY RequestAssumption DEF Request
  <1>2. gave' \in [DOMAIN req'.filters -> Seq(Object)]
    BY <1>1 DEF Get
  <1>3. ListTyped'
    BY <1>1, <1>2 DEF Get, ListInv, ListTyped, AtFilter
  <1>4. MadeOf(SubSeq(list', 1, from'), Parts', ix' - 1)
    <2>1. list' = <<>> /\ from' = 0 /\ ix' - 1 = 0
      BY DEF Get
    <2>2. MadeOf(<<>>, Parts', 0)
      BY MadeOfNone
    <2> QED
      BY <1>1, <2>1, <2>2
  <1> QED
    BY <1>3, <1>4 DEF FromNodes, Get, ListInv, DoneBefore, Answering, Added, OkMeansComplete

\* Joining three lists.
LEMMA JoinedAll ==
    ASSUME NEW a \in Seq(Object), NEW b \in Seq(Object), NEW c \in Seq(Object)
    PROVE  (a \o b) \o c = a \o (b \o c)
  <1> DEFINE u == (a \o b) \o c
             v == a \o (b \o c)
  <1>1. /\ u \in Seq(Object) /\ v \in Seq(Object) /\ Len(a) \in Nat /\ Len(b) \in Nat /\ Len(c) \in Nat
        /\ Len(u) = Len(a) + Len(b) + Len(c) /\ Len(v) = Len(u)
    OBVIOUS
  <1>2. ASSUME NEW j \in 1..Len(u) PROVE u[j] = v[j]
    BY <1>1
  <1> HIDE DEF u, v
  <1>3. u = v
    BY <1>1, <1>2, SeqEqual
  <1> QED
    BY <1>3 DEF u, v

\* One step of Held.
HeldStep(f, n) == IF n = 0 THEN <<>> ELSE f[n - 1] \o Databases[n]

\* What the databases hold, one node after the other.
LEMMA HeldIs ==
    /\ Held[0] = <<>>
    /\ \A n \in 0..Len(Databases) : Held[n] \in Seq(Object)
    /\ \A n \in 1..Len(Databases) : Held[n] = Held[n - 1] \o Databases[n]
  <1>0. Databases \in Seq(Seq(Object)) /\ Len(Databases) \in Nat
    BY RequestAssumption
  <1> DEFINE T == {n \in Nat : \E f : f = [m \in 0..n |-> HeldStep(f, m)]}
  <1>1. 0 \in T
    <2> DEFINE f == [m \in 0..0 |-> <<>>]
    <2>1. \A m \in 0..0 : HeldStep(f, m) = <<>>
      BY DEF HeldStep
    <2>2. f = [m \in 0..0 |-> HeldStep(f, m)]
      BY <2>1
    <2> HIDE DEF f
    <2> QED
      BY <2>2
  <1>2. ASSUME NEW n \in T PROVE n + 1 \in T
    <2>1. PICK f : f = [m \in 0..n |-> HeldStep(f, m)]
      OBVIOUS
    <2> DEFINE g == [m \in 0..(n + 1) |-> IF m = n + 1 THEN HeldStep(f, n + 1) ELSE f[m]]
    <2>2. ASSUME NEW m \in 0..(n + 1) PROVE g[m] = HeldStep(g, m)
      <3>1. CASE m = 0
        <4>1. 0 \in 0..n /\ 0 \in 0..(n + 1) /\ 0 # n + 1
          OBVIOUS
        <4>2. g[0] = f[0]
          BY <4>1
        <4>3. f[0] = HeldStep(f, 0)
          BY <4>1, <2>1
        <4>4. HeldStep(f, 0) = HeldStep(g, 0)
          BY DEF HeldStep
        <4> QED
          BY <3>1, <4>2, <4>3, <4>4
      <3>2. CASE m # 0
        <4>1. m - 1 \in 0..n /\ m - 1 # n + 1 /\ g[m - 1] = f[m - 1]
          BY <3>2
        <4>2. HeldStep(g, m) = HeldStep(f, m)
          BY <4>1, <3>2 DEF HeldStep
        <4>3. CASE m = n + 1
          BY <4>2, <4>3
        <4>4. CASE m # n + 1
          <5>1. m \in 0..n
            BY <4>4
          <5>2. f[m] = HeldStep(f, m)
            BY <5>1, <2>1
          <5> QED
            BY <4>4, <5>2, <4>2
        <4> QED
          BY <4>3, <4>4
      <3> QED
        BY <3>1, <3>2
    <2>3. g = [m \in 0..(n + 1) |-> HeldStep(g, m)]
      BY <2>2
    <2> HIDE DEF g
    <2> QED
      BY <2>3
  <1>3. T = Nat
    <2> HIDE DEF T
    <2>1. T \in SUBSET Nat
      BY DEF T
    <2> QED
      BY <1>1, <1>2, <2>1, Induction
  <1>4. Len(Databases) \in T
    BY <1>0, <1>3
  <1>5. \E f : f = [m \in 0..Len(Databases) |-> HeldStep(f, m)]
    BY <1>4
  <1>6. Held = [m \in 0..Len(Databases) |-> HeldStep(Held, m)]
    BY <1>5, Zenon DEF Held, HeldStep
  <1>7. \A n \in 0..Len(Databases) : Held[n] = HeldStep(Held, n)
    BY <1>6
  <1>8. Held[0] = <<>>
    <2>1. 0 \in 0..Len(Databases)
      BY <1>0
    <2> QED
      BY <1>7, <2>1 DEF HeldStep
  <1>9. ASSUME NEW n \in 1..Len(Databases) PROVE Held[n] = Held[n - 1] \o Databases[n]
    <2>1. n \in 0..Len(Databases) /\ n # 0
      BY <1>0
    <2>2. Held[n] = HeldStep(Held, n)
      BY <1>7, <2>1
    <2> QED
      BY <2>1, <2>2, Zenon DEF HeldStep
  <1> DEFINE U == {n \in Nat : n <= Len(Databases) => Held[n] \in Seq(Object)}
  <1>10. 0 \in U
    <2>1. <<>> \in Seq(Object)
      OBVIOUS
    <2> QED
      BY <1>8, <2>1
  <1>11. ASSUME NEW n \in U PROVE n + 1 \in U
    <2> SUFFICES ASSUME n + 1 <= Len(Databases) PROVE Held[n + 1] \in Seq(Object)
      OBVIOUS
    <2>1. Held[n] \in Seq(Object) /\ n + 1 \in 1..Len(Databases) /\ Databases[n + 1] \in Seq(Object) /\ n + 1 - 1 = n
      BY <1>0
    <2>2. PICK m \in 1..Len(Databases) : m = n + 1
      BY <2>1
    <2>3. Held[m] = Held[m - 1] \o Databases[m]
      BY <1>9, Zenon
    <2>4. m - 1 = n
      BY <2>2
    <2>5. Held[m] = Held[n] \o Databases[m]
      BY <2>3, <2>4, Zenon
    <2> QED
      BY <2>1, <2>2, <2>5
  <1>12. U = Nat
    <2> HIDE DEF U
    <2>1. U \in SUBSET Nat
      BY DEF U
    <2> QED
      BY <1>10, <1>11, <2>1, Induction
  <1>13. \A n \in 0..Len(Databases) : Held[n] \in Seq(Object)
    <2> SUFFICES ASSUME NEW n \in 0..Len(Databases) PROVE Held[n] \in Seq(Object)
      OBVIOUS
    <2>1. n \in U /\ n <= Len(Databases)
      BY <1>0, <1>12
    <2> QED
      BY <2>1
  <1> HIDE DEF U
  <1> QED
    BY <1>8, <1>9, <1>13, Zenon

\* A get from the databases begins.
LEMMA DbGetList ==
    ASSUME OwnerInv, ListInv, NEW resolved \in BOOLEAN, DbGet(resolved)
    PROVE  ListInv'
  <1> USE DEF envVars, getVars, connVars
  <1>1. /\ req.filters \in Seq(Filter) /\ ix \in DOMAIN req.filters /\ ix \in Nat /\ pc = "ask"
        /\ list \in Seq(Object) /\ from = Len(list) /\ gave \in [DOMAIN req.filters -> Seq(Object)]
        /\ Databases \in Seq(Seq(Object)) /\ Len(Databases) \in Nat
    BY RequestAssumption DEF DbGet, OwnerInv, RequestTyped, AtFilter, ListInv, ListTyped, Request
  <1>2. /\ UNCHANGED <<req, ix, from, list, failed, stream>> /\ node' = 1 /\ pc' \in {"nodes", "filter"}
        /\ gave' = [gave EXCEPT ![ix] = Held[Len(Databases)]]
        /\ cut' = {} => cut = {} /\ resolved
        /\ pc' = "filter" /\ resolved => Databases = <<>>
        /\ pc' = "nodes" => Databases # <<>>
    BY DEF DbGet
  <1>3. /\ gave' \in [DOMAIN req.filters -> Seq(Object)] /\ gave'[ix] = Held[Len(Databases)]
        /\ \A i \in 1..(ix - 1) : gave'[i] = gave[i]
    <2>1. Len(Databases) \in 0..Len(Databases)
      BY <1>1
    <2>2. Held[Len(Databases)] \in Seq(Object)
      BY <2>1, HeldIs
    <2> QED
      BY <1>1, <1>2, <2>2
  <1>4. SubSeq(list, from + 1, Len(list)) = <<>> /\ SubSeq(list, 1, from) = list
    BY <1>1
  <1>5. ListTyped'
    BY <1>1, <1>2, <1>3 DEF ListInv, ListTyped
  <1>6. DoneBefore'
    <2> SUFFICES ASSUME Whole' PROVE MadeOf(list, Parts', ix - 1)
      BY <1>2, <1>4 DEF DoneBefore
    <2>1. Whole
      BY <1>2 DEF Whole
    <2>2. MadeOf(list, Parts, ix - 1)
      BY <1>1, <1>4, <2>1 DEF ListInv, DoneBefore, AtFilter
    <2>3. \A i \in 1..(ix - 1) : Parts'[i] = Parts[i]
      BY <1>1, <1>2, <1>3 DEF Parts, Wanted, Narrows
    <2>4. ix - 1 \in Nat
      BY <1>1
    <2> QED
      BY <2>2, <2>3, <2>4, MadeOfSame
  <1>7. FromNodes'
    <2>1. Databases # <<>> => 1 \in 1..Len(Databases)
      BY <1>1
    <2>2. 1 - 1 = 0
      OBVIOUS
    <2> QED
      BY <1>2, <1>3, <1>4, <2>1, <2>2, HeldIs DEF FromNodes
  <1>8. Added'
    <2>1. Databases = <<>> => Len(Databases) = 0
      BY <1>1
    <2> QED
      BY <1>2, <1>3, <1>4, <2>1, HeldIs DEF Added, Whole
  <1> QED
    BY <1>2, <1>5, <1>6, <1>7, <1>8 DEF FromNodes, ListInv, Answering, OkMeansComplete

\* A database adds what it holds, or is cut off.
LEMMA NodeList ==
    ASSUME OwnerInv, ListInv, NextNode, NEW new \in Seq(Object), list' = list \o new,
           cut' = {} => cut = {} /\ new = Databases[node]
    PROVE  ListInv'
  <1> USE DEF envVars, getVars, connVars
  <1>1. /\ req.filters \in Seq(Filter) /\ ix \in DOMAIN req.filters /\ ix \in Nat /\ pc = "nodes" /\ AtFilter
        /\ list \in Seq(Object) /\ from \in Nat /\ from <= Len(list) /\ Len(list) \in Nat
        /\ gave \in [DOMAIN req.filters -> Seq(Object)] /\ Len(new) \in Nat
        /\ Databases \in Seq(Seq(Object)) /\ Len(Databases) \in Nat
        /\ node \in 1..Len(Databases) /\ gave[ix] = Held[Len(Databases)]
        /\ Whole => SubSeq(list, from + 1, Len(list)) = Held[node - 1]
    BY RequestAssumption DEF NextNode, OwnerInv, RequestTyped, AtFilter, ListInv, ListTyped, FromNodes, Request
  <1>2. /\ UNCHANGED <<req, ix, from, gave, failed, stream>> /\ node' = node + 1
        /\ pc' = IF node = Len(Databases) THEN "filter" ELSE "nodes"
    BY DEF NextNode
  <1> DEFINE a == SubSeq(list, 1, from)
             b == SubSeq(list, from + 1, Len(list))
  <1>3. a \in Seq(Object) /\ b \in Seq(Object) /\ Len(a) = from /\ list = a \o b
    <2>1. a \in Seq(Object) /\ b \in Seq(Object) /\ Len(a) = from /\ from \in 0..Len(list)
      BY <1>1
    <2> QED
      BY <1>1, <2>1, Split DEF a, b
  <1> HIDE DEF a, b
  <1>4. list' = a \o (b \o new) /\ list' \in Seq(Object) /\ b \o new \in Seq(Object) /\ Len(list') >= Len(list) /\ Len(list') \in Nat
    <2>1. b \o new \in Seq(Object) /\ Len(b) \in Nat /\ Len(b \o new) = Len(b) + Len(new)
      BY <1>1, <1>3
    <2>2. (a \o b) \o new = a \o (b \o new)
      BY <1>3, JoinedAll
    <2>3. list \o new \in Seq(Object) /\ Len(list \o new) = Len(list) + Len(new)
      BY <1>1
    <2> QED
      BY <1>1, <1>3, <2>1, <2>2, <2>3
  <1>5. SubSeq(list', 1, from) = a /\ SubSeq(list', from + 1, Len(list')) = b \o new
    <2> DEFINE c == b \o new
    <2>1. c \in Seq(Object) /\ list' = a \o c
      BY <1>4
    <2> HIDE DEF c
    <2>2. SubSeq(a \o c, 1, Len(a)) = a /\ SubSeq(a \o c, Len(a) + 1, Len(a \o c)) = c
      BY <1>3, <2>1, JoinedApart
    <2> QED
      BY <1>3, <2>1, <2>2 DEF c
  <1>6. ListTyped'
    BY <1>1, <1>2, <1>4 DEF ListInv, ListTyped
  <1>7. DoneBefore'
    <2> SUFFICES ASSUME Whole' PROVE MadeOf(a, Parts', ix - 1)
      BY <1>2, <1>5 DEF DoneBefore
    <2>1. Whole /\ Parts' = Parts
      BY <1>2 DEF Whole, Parts, Wanted, Narrows
    <2> QED
      BY <1>1, <2>1 DEF ListInv, DoneBefore, a
  <1>8. ASSUME Whole' PROVE SubSeq(list', from + 1, Len(list')) = Held[node]
    <2>1. Whole /\ new = Databases[node]
      BY <1>2, <1>8 DEF Whole
    <2>2. b = Held[node - 1]
      BY <1>1, <2>1 DEF b
    <2> QED
      BY <1>1, <1>5, <2>1, <2>2, HeldIs
  <1>9. FromNodes'
    <2>1. node # Len(Databases) => node + 1 \in 1..Len(Databases) /\ node + 1 - 1 = node
      BY <1>1
    <2> QED
      BY <1>1, <1>2, <1>8, <2>1 DEF FromNodes
  <1>10. Added'
    BY <1>1, <1>2, <1>8 DEF Added
  <1> QED
    BY <1>2, <1>6, <1>7, <1>9, <1>10 DEF FromNodes, ListInv, Answering, OkMeansComplete

\* The database of one node answers, or does not.
LEMMA DbNodeList ==
    ASSUME OwnerInv, ListInv,
           \/ \E code \in {"OK", "NO_EXIST"} : DbAnswers(code)
           \/ pc = "nodes" /\ \E m \in 0..Len(Databases[node]), code \in {"OK", "COMMUNICATION_ERROR"} : DbLost(m, code)
    PROVE  ListInv'
  <1>1. pc = "nodes" /\ NextNode
    BY DEF DbAnswers, DbLost, NextNode
  <1>2. Databases[node] \in Seq(Object)
    BY <1>1, RequestAssumption DEF ListInv, FromNodes
  <1>3. CASE \E code \in {"OK", "NO_EXIST"} : DbAnswers(code)
    <2>1. list' = list \o Databases[node] /\ cut' = cut
      BY <1>3 DEF DbAnswers
    <2> QED
      BY <1>1, <1>2, <2>1, NodeList
  <1>4. ASSUME NEW m \in 0..Len(Databases[node]), NEW code \in {"OK", "COMMUNICATION_ERROR"}, DbLost(m, code) PROVE ListInv'
    <2>1. list' = list \o SubSeq(Databases[node], 1, m) /\ cut' # {}
      BY <1>4 DEF DbLost
    <2>2. SubSeq(Databases[node], 1, m) \in Seq(Object)
      BY <1>2
    <2> QED
      BY <1>1, <2>1, <2>2, NodeList
  <1> QED
    BY <1>3, <1>4

\* The filter is applied to what was added behind _cur_lst_len, and the next
\* filter begins behind that.
LEMMA EndFilterList ==
    ASSUME OwnerInv, ListInv, EndFilter
    PROVE  ListInv'
  <1> USE DEF envVars, getVars, connVars
  <1>1. /\ req.filters \in Seq(Filter) /\ ix \in DOMAIN req.filters /\ ix \in Nat /\ ix >= 1 /\ ix \in 1..Len(req.filters)
        /\ list \in Seq(Object) /\ from \in Nat /\ from \in 0..Len(list)
        /\ gave \in [DOMAIN req.filters -> Seq(Object)] /\ pc = "filter" /\ AtFilter
    BY DEF EndFilter, OwnerInv, RequestTyped, AtFilter, ListInv, ListTyped, Request
  <1>2. UNCHANGED <<req, rc, gave, cut, stream>> /\ list' = Filtered(list) /\ from' = Len(list')
    BY DEF EndFilter
  <1>3. failed' = {} => failed = {} /\ rc = "OK"
    BY DEF EndFilter
  <1>4. pc' \in {"ask", "done"} /\ (pc' = "ask" => ix' = ix + 1 /\ ix' - 1 = ix) /\ (pc' = "done" => ix = Len(req.filters))
    BY <1>1 DEF EndFilter
  <1> DEFINE a == SubSeq(list, 1, from)
             b == SubSeq(list, from + 1, Len(list))
             narrow == filter.exact /\ ~req.keys
             c == IF narrow THEN Exactly(b) ELSE b
  <1>5. a \in Seq(Object) /\ b \in Seq(Object)
    BY <1>1
  <1>6. c \in Seq(Object)
    BY <1>5, ExactlyType
  <1>7. list' = a \o c
    <2>1. CASE narrow
      BY <1>2, <2>1 DEF Filtered
    <2>2. CASE ~narrow
      BY <1>1, <1>2, <2>2, Split DEF Filtered
    <2> QED
      BY <2>1, <2>2
  <1>8. list' \in Seq(Object) /\ Len(list') \in Nat /\ SubSeq(list', 1, Len(list')) = list'
    <2>1. a \o c \in Seq(Object)
      BY <1>5, <1>6
    <2>2. list' \in Seq(Object)
      BY <1>7, <2>1
    <2> QED
      BY <2>2
  <1>9. ListTyped'
    BY <1>1, <1>2, <1>4, <1>8 DEF ListInv, ListTyped
  <1>10. Parts' = Parts
    BY <1>2 DEF Parts, Wanted, Narrows
  <1>11. ASSUME failed' = {}, cut' = {} PROVE MadeOf(list', Parts', ix)
    <2>1. Whole /\ rc = "OK"
      BY <1>2, <1>3, <1>11 DEF Whole
    <2>2. MadeOf(a, Parts, ix - 1)
      BY <1>1, <2>1 DEF ListInv, DoneBefore
    <2>3. b = gave[ix]
      BY <1>1, <2>1 DEF ListInv, Added
    <2>4. Parts[ix] = c
      BY <1>1, <2>3 DEF Parts, Wanted, Narrows, filter
    <2> HIDE DEF a, c
    <2>5. ix - 1 \in Nat /\ ix - 1 + 1 = ix
      BY <1>1
    <2>6. MadeOf(a \o c, Parts, ix - 1 + 1)
      BY <1>5, <1>6, <2>2, <2>4, <2>5, MadeOfMore
    <2> QED
      BY <1>7, <1>10, <2>5, <2>6
  <1>12. DoneBefore'
    BY <1>2, <1>4, <1>8, <1>11 DEF DoneBefore, AtFilter, Whole
  <1>13. OkMeansComplete'
    <2> SUFFICES ASSUME pc' = "done", failed' = {}, cut' = {} PROVE MadeOf(list', Parts', Len(req'.filters))
      BY DEF OkMeansComplete, Parts
    <2> QED
      BY <1>2, <1>4, <1>11
  <1> QED
    BY <1>4, <1>9, <1>12, <1>13 DEF FromNodes, ListInv, Answering, Added

\* The get ends at a failure, or returns.
LEMMA StopList ==
    ASSUME ListInv, StopAtFailure \/ Return
    PROVE  ListInv'
  <1> USE DEF envVars, getVars, connVars
  <1>1. CASE StopAtFailure
    <2>1. ListTyped'
      BY <1>1 DEF StopAtFailure, ListInv, ListTyped, AtFilter
    <2> QED
      BY <1>1, <2>1 DEF FromNodes, StopAtFailure, GoesOn, ListInv, DoneBefore, Answering, Added, OkMeansComplete, AtFilter
  <1>2. CASE Return
    <2>1. <<>> \in Seq(Object) /\ <<>> \in Seq(Message)
      OBVIOUS
    <2>2. ListTyped'
      BY <1>2, <2>1 DEF Return, Forgotten, ListInv, ListTyped, AtFilter
    <2> QED
      BY <1>2, <2>2 DEF FromNodes, Return, ListInv, DoneBefore, Answering, Added, OkMeansComplete, AtFilter
  <1> QED
    BY <1>1, <1>2

\* An owner is looked for, and the request is sent.
LEMMA ConnectList ==
    ASSUME ListInv, CacheConnect \/ Query \/ ConnectOwner \/ Send
    PROVE  ListInv'
  <1> USE DEF envVars, getVars, connVars
  <1>1. /\ pc \in {"ask", "connect", "send"} /\ pc' \in {"connect", "send", "receive", "filter"}
        /\ UNCHANGED <<list, from, req, gave, ix, failed, cut>>
        /\ stream' = stream \/ stream' = <<>>
        /\ pc' = "receive" => rc' = "ERR" /\ stream' = <<>> /\ ~served'
        /\ pc' = "filter" => rc' # "OK"
    BY DEF CacheConnect, Query, ConnectOwner, Send, ToService
  <1>2. AtFilter /\ from = Len(list) /\ stream' \in Seq(Message) /\ Len(<<>>) = 0
    <2>1. <<>> \in Seq(Message) /\ Len(<<>>) = 0
      OBVIOUS
    <2>2. stream \in Seq(Message) /\ from = Len(list)
      BY <1>1 DEF ListInv, ListTyped
    <2> QED
      BY <1>1, <2>1, <2>2 DEF AtFilter
  <1>3. ListTyped' /\ DoneBefore'
    BY <1>1, <1>2, SameList
  <1>4. Answering'
    BY <1>1, <1>2 DEF Answering
  <1> QED
    BY <1>1, <1>3, <1>4 DEF FromNodes, ListInv, Added, OkMeansComplete

\* Where the client waits for an answer.
LEMMA Receiving ==
    ASSUME OwnerInv, ListInv, pc = "receive"
    PROVE  /\ AtFilter /\ ix \in DOMAIN req.filters /\ ix \in Nat /\ ix >= 1
           /\ list \in Seq(Object) /\ from \in Nat /\ from <= Len(list) /\ Len(list) \in Nat
           /\ gave \in [DOMAIN req.filters -> Seq(Object)] /\ gave[ix] \in Seq(Object)
           /\ stream \in Seq(Message) /\ Len(stream) \in Nat
           /\ \A j \in 1..Len(stream) : stream[j] \in Message
  <1>1. AtFilter
    BY DEF AtFilter
  <1>2. req.filters \in Seq(Filter) /\ ix \in DOMAIN req.filters /\ ix \in Nat
    BY <1>1 DEF OwnerInv, RequestTyped, Request
  <1> QED
    BY <1>1, <1>2 DEF ListInv, ListTyped

\* One object of the answer is appended.
LEMMA ReceiveObjectList ==
    ASSUME OwnerInv, ListInv, ReceiveObject
    PROVE  ListInv'
  <1> USE DEF envVars, getVars, connVars
  <1> DEFINE o == Head(stream).obj
  <1>1. pc = "receive" /\ pc' = "receive" /\ stream # <<>> /\ Head(stream).msg = "GET_RESP"
        /\ list' = Append(list, o) /\ stream' = Tail(stream) /\ rc' = Waited
        /\ UNCHANGED <<req, ix, from, gave, cut, failed, served>>
    BY DEF ReceiveObject
  <1>2. /\ AtFilter /\ ix \in DOMAIN req.filters /\ ix \in Nat /\ ix >= 1
        /\ list \in Seq(Object) /\ from \in Nat /\ from <= Len(list) /\ Len(list) \in Nat
        /\ gave \in [DOMAIN req.filters -> Seq(Object)] /\ gave[ix] \in Seq(Object)
        /\ stream \in Seq(Message) /\ Len(stream) \in Nat
        /\ \A j \in 1..Len(stream) : stream[j] \in Message
    BY <1>1, Receiving
  <1>3. /\ 1 \in 1..Len(stream) /\ Head(stream) = stream[1] /\ stream[1].msg = "GET_RESP"
        /\ Tail(stream) \in Seq(Message) /\ Len(Tail(stream)) = Len(stream) - 1
        /\ \A j \in 1..Len(Tail(stream)) : Tail(stream)[j] = stream[j + 1]
    BY <1>1, <1>2
  <1>4. o \in Object
    BY <1>2, <1>3 DEF Message
  <1>0. PICK n \in Nat : n = Len(list) - from
    <2>1. Len(list) - from \in Nat
      BY <1>2
    <2> QED
      BY <2>1, Zenon
  <1>5. InAnswer(gave[ix], n)
    BY <1>0, <1>1, <1>3 DEF ListInv, Answering
  <1>6. n + 1 <= Len(gave[ix]) /\ o = gave[ix][n + 1]
    BY <1>2, <1>3, <1>5 DEF InAnswer
  <1> HIDE DEF o
  <1>7. /\ list' \in Seq(Object) /\ Len(list') = Len(list) + 1 /\ list'[Len(list) + 1] = o
        /\ \A j \in 1..Len(list) : list'[j] = list[j]
    BY <1>1, <1>2, <1>4
  <1>8. SubSeq(list', 1, from) = SubSeq(list, 1, from)
    <2> DEFINE u == SubSeq(list', 1, from)
               v == SubSeq(list, 1, from)
    <2>1. u \in Seq(Object) /\ v \in Seq(Object) /\ Len(u) = from /\ Len(v) = from
      BY <1>2, <1>7
    <2>2. \A j \in 1..from : u[j] = v[j]
      BY <1>2, <1>7
    <2> HIDE DEF u, v
    <2>3. u = v
      BY <2>1, <2>2, SeqEqual
    <2> QED
      BY <2>3 DEF u, v
  <1>9. Parts' = Parts
    BY <1>1 DEF Parts, Wanted, Narrows
  <1>10. ListTyped'
    BY <1>1, <1>2, <1>3, <1>7 DEF ListTyped
  <1>11. DoneBefore'
    BY <1>1, <1>2, <1>8, <1>9 DEF ListInv, DoneBefore, Whole
  <1>12. InAnswer(gave[ix], n + 1)'
    <2>1. Len(gave[ix]) \in Nat
      BY <1>2
    <2>2. n + 1 + Len(stream') <= Len(gave[ix]) + 1
      BY <1>1, <1>2, <1>3, <1>5, <1>6, <2>1 DEF InAnswer
    <2>3. ASSUME NEW j \in 1..(n + 1) PROVE list'[from + j] = gave[ix][j]
      <3>1. CASE j = n + 1
        BY <1>0, <1>2, <1>6, <1>7, <3>1
      <3>2. CASE j # n + 1
        <4>1. PICK f \in Nat, m \in Nat : f = from /\ m = Len(list)
          BY <1>2
        <4>2. n = m - f /\ f <= m
          BY <1>0, <1>2, <4>1
        <4>3. j \in 1..n /\ f + j \in 1..m
          BY <3>2, <4>1, <4>2
        <4>4. j \in 1..n /\ from + j \in 1..Len(list)
          BY <4>1, <4>3
        <4> QED
          BY <1>5, <1>7, <4>4 DEF InAnswer
      <3> QED
        BY <3>1, <3>2
    <2>4. ASSUME NEW j \in 1..Len(stream')
          PROVE  stream'[j] = IF n + 1 + j <= Len(gave[ix])
                              THEN [msg |-> "GET_RESP", obj |-> gave[ix][n + 1 + j]] ELSE [msg |-> "GET_DONE"]
      <3>1. j \in 1..Len(Tail(stream)) /\ stream'[j] = Tail(stream)[j]
        BY <1>1
      <3>2. stream'[j] = stream[j + 1]
        BY <1>3, <3>1
      <3>3. j \in Nat /\ j >= 1 /\ j <= Len(Tail(stream)) /\ Len(Tail(stream)) = Len(stream) - 1
        BY <1>2, <1>3, <3>1
      <3>4. j + 1 \in 1..Len(stream) /\ n + (j + 1) = n + 1 + j
        BY <1>2, <3>3
      <3> QED
        BY <1>5, <3>2, <3>4 DEF InAnswer
    <2> QED
      BY <1>1, <1>6, <2>2, <2>3, <2>4 DEF InAnswer
  <1>13. Answering'
    <2>1. ~req.timed => rc = "ERR"
      BY <1>1 DEF ListInv, Answering
    <2>2. served
      BY <1>1 DEF ListInv, Answering
    <2>3. Len(list') - from' = n + 1
      BY <1>0, <1>1, <1>2, <1>7
    <2> QED
      BY <1>1, <1>12, <2>1, <2>2, <2>3 DEF Answering, Waited
  <1> QED
    BY <1>1, <1>10, <1>11, <1>13 DEF FromNodes, ListInv, Added, OkMeansComplete

\* The answer ends: with GET_DONE everything has been received.
LEMMA ReceiveLastList ==
    ASSUME OwnerInv, ListInv, ReceiveLast \/ ReceiveEnd \/ ReceiveTimeout
    PROVE  ListInv'
  <1> USE DEF envVars, getVars, connVars
  <1>1. /\ pc = "receive" /\ pc' = "filter" /\ UNCHANGED <<req, ix, from, list, gave, failed>>
        /\ cut' = {} => cut = {}
        /\ stream' = stream \/ (stream # <<>> /\ stream' = Tail(stream))
    BY DEF ReceiveLast, ReceiveEnd, ReceiveTimeout
  <1>2. /\ AtFilter /\ ix \in DOMAIN req.filters /\ ix \in Nat /\ ix >= 1
        /\ list \in Seq(Object) /\ from \in Nat /\ from <= Len(list) /\ Len(list) \in Nat
        /\ gave \in [DOMAIN req.filters -> Seq(Object)] /\ gave[ix] \in Seq(Object)
        /\ stream \in Seq(Message) /\ Len(stream) \in Nat
        /\ \A j \in 1..Len(stream) : stream[j] \in Message
    BY <1>1, Receiving
  <1>3. stream' \in Seq(Message)
    <2>1. stream # <<>> => Tail(stream) \in Seq(Message)
      BY <1>2
    <2> QED
      BY <1>1, <1>2, <2>1
  <1>4. ListTyped' /\ DoneBefore'
    BY <1>1, <1>2, <1>3, SameList
  <1>5. Added'
    <2> SUFFICES ASSUME rc' = "OK", cut' = {} PROVE SubSeq(list, from + 1, Len(list)) = gave[ix]
      BY <1>1 DEF Added, Whole
    <2>1. CASE ReceiveLast
      <3>1. /\ stream # <<>> /\ Head(stream).msg # "GET_RESP"
            /\ "OK" = IF Head(stream).msg = "GET_DONE" THEN "OK" ELSE Head(stream).code
        BY <2>1 DEF ReceiveLast
      <3>2. 1 \in 1..Len(stream) /\ Head(stream) = stream[1] /\ stream[1] \in Message
        BY <1>2, <3>1
      <3>3. stream[1].msg = "GET_DONE"
        BY <3>1, <3>2 DEF Message
      <3>4. PICK n \in Nat : n = Len(list) - from
        <4>1. Len(list) - from \in Nat
          BY <1>2
        <4> QED
          BY <4>1, Zenon
      <3>5. InAnswer(gave[ix], n)
        BY <1>1, <3>2, <3>3, <3>4 DEF ListInv, Answering
      <3>6. n = Len(gave[ix])
        <4>1. ~(n + 1 <= Len(gave[ix]))
          <5>1. stream[1] = IF n + 1 <= Len(gave[ix])
                            THEN [msg |-> "GET_RESP", obj |-> gave[ix][n + 1]] ELSE [msg |-> "GET_DONE"]
            BY <3>2, <3>5 DEF InAnswer
          <5> QED
            BY <3>3, <5>1
        <4> QED
          BY <1>2, <3>5, <4>1 DEF InAnswer
      <3> DEFINE u == SubSeq(list, from + 1, Len(list))
      <3>7. u \in Seq(Object) /\ Len(u) = n
        BY <1>2, <3>4
      <3>8. ASSUME NEW j \in 1..n PROVE u[j] = gave[ix][j]
        <4>1. u[j] = list[from + 1 + j - 1] /\ from + 1 + j - 1 = from + j
          BY <1>2, <3>4
        <4> QED
          BY <3>5, <4>1 DEF InAnswer
      <3> HIDE DEF u
      <3>9. u = gave[ix]
        BY <1>2, <3>6, <3>7, <3>8, SeqEqual
      <3> QED
        BY <3>9 DEF u
    <2>2. CASE ReceiveEnd
      BY <2>2 DEF ReceiveEnd
    <2>3. CASE ReceiveTimeout
      BY <2>3 DEF ReceiveTimeout
    <2> QED
      BY <2>1, <2>2, <2>3
  <1> QED
    BY <1>1, <1>4, <1>5 DEF FromNodes, ListInv, Answering, OkMeansComplete

\* The owner answers with what its function has returned.
LEMMA HandleGetList ==
    ASSUME OwnerInv, ListInv, HandleGet
    PROVE  ListInv'
  <1> USE DEF envVars, getVars, connVars
  <1>1. /\ pc = "receive" /\ asked \in alive /\ ~served /\ served'
        /\ UNCHANGED <<pc, req, ix, from, list, rc, cut, failed>>
    BY DEF HandleGet, Serves
  <1>2. /\ AtFilter /\ ix \in DOMAIN req.filters /\ ix \in Nat /\ ix >= 1
        /\ list \in Seq(Object) /\ from \in Nat /\ from <= Len(list) /\ Len(list) \in Nat
        /\ gave \in [DOMAIN req.filters -> Seq(Object)] /\ gave[ix] \in Seq(Object)
        /\ stream \in Seq(Message) /\ Len(stream) \in Nat
        /\ \A j \in 1..Len(stream) : stream[j] \in Message
    BY <1>1, Receiving
  <1>3. PICK i \in FirstHandler(Functions[asked], "read", key) :
            /\ stream' = Answered(Holdings[asked][Functions[asked][i].key])
            /\ gave' = [gave EXCEPT ![ix] = Holdings[asked][Functions[asked][i].key]]
    BY DEF HandleGet
  <1> DEFINE objs == Holdings[asked][Functions[asked][i].key]
  <1>4. objs \in Seq(Object)
    <2>1. asked \in Owners
      BY <1>1 DEF OwnerInv, RequestTyped
    <2>2. i \in DOMAIN Functions[asked]
      BY <1>3 DEF FirstHandler
    <2> QED
      BY <2>1, <2>2, RequestAssumption
  <1>5. stream' = Answered(objs) /\ gave' = [gave EXCEPT ![ix] = objs]
    BY <1>3
  <1> HIDE DEF objs
  <1>6. gave' \in [DOMAIN req.filters -> Seq(Object)] /\ gave'[ix] = objs
    BY <1>2, <1>4, <1>5
  <1>7. /\ Responses(objs) \in Seq(Message) /\ Len(Responses(objs)) = Len(objs) /\ Len(objs) \in Nat
        /\ \A j \in 1..Len(objs) : Responses(objs)[j] = [msg |-> "GET_RESP", obj |-> objs[j]]
    <2>1. Responses(objs) = [j \in 1..Len(objs) |-> [msg |-> "GET_RESP", obj |-> objs[j]]]
      BY <1>4 DEF Responses
    <2>2. \A j \in 1..Len(objs) : [msg |-> "GET_RESP", obj |-> objs[j]] \in Message
      BY <1>4 DEF Message
    <2> QED
      BY <1>4, <2>1, <2>2
  <1>8. /\ stream' \in Seq(Message) /\ Len(stream') = Len(objs) + 1
        /\ \A j \in 1..Len(stream') :
               stream'[j] = IF j <= Len(objs) THEN [msg |-> "GET_RESP", obj |-> objs[j]] ELSE [msg |-> "GET_DONE"]
    <2> DEFINE d == [msg |-> "GET_DONE"]
               r == Responses(objs)
    <2>1. d \in Message
      BY DEF Message
    <2>2. stream' = Append(r, d)
      BY <1>5 DEF Answered
    <2> HIDE DEF d, r
    <2>3. /\ r \in Seq(Message) /\ Len(r) = Len(objs) /\ Len(objs) \in Nat
          /\ \A j \in 1..Len(objs) : r[j] = [msg |-> "GET_RESP", obj |-> objs[j]]
      BY <1>7 DEF r
    <2>4. stream' \in Seq(Message) /\ Len(stream') = Len(objs) + 1
      BY <2>1, <2>2, <2>3
    <2>5. (\A j \in 1..Len(objs) : stream'[j] = r[j]) /\ stream'[Len(objs) + 1] = d
      BY <2>1, <2>2, <2>3
    <2>6. ASSUME NEW j \in 1..Len(stream')
          PROVE  stream'[j] = IF j <= Len(objs) THEN [msg |-> "GET_RESP", obj |-> objs[j]] ELSE d
      <3>1. CASE j <= Len(objs)
        <4>1. j \in 1..Len(objs)
          BY <2>3, <2>4, <3>1
        <4>2. stream'[j] = r[j] /\ r[j] = [msg |-> "GET_RESP", obj |-> objs[j]]
          BY <2>3, <2>5, <4>1
        <4> QED
          BY <3>1, <4>2
      <3>2. CASE ~(j <= Len(objs))
        BY <2>3, <2>4, <2>5, <3>2
      <3> QED
        BY <3>1, <3>2
    <2> QED
      BY <2>4, <2>6 DEF d
  <1>9. from = Len(list) /\ (~req.timed => rc = "ERR")
    BY <1>1 DEF ListInv, Answering
  <1>10. InAnswer(gave[ix], 0)'
    <2>1. \A j \in 1..Len(stream') : 0 + j = j
      BY <1>8
    <2> QED
      BY <1>1, <1>6, <1>7, <1>8, <2>1 DEF InAnswer
  <1>11. Answering'
    <2>1. Len(list') - from' = 0
      BY <1>1, <1>2, <1>9
    <2> QED
      BY <1>1, <1>9, <1>10, <2>1 DEF Answering
  <1>12. ListTyped'
    BY <1>1, <1>2, <1>6, <1>8 DEF ListTyped, AtFilter
  <1>13. DoneBefore'
    <2> SUFFICES ASSUME Whole PROVE MadeOf(SubSeq(list, 1, from), Parts', ix - 1)
      BY <1>1 DEF DoneBefore, Whole
    <2>1. MadeOf(SubSeq(list, 1, from), Parts, ix - 1)
      BY <1>2 DEF ListInv, DoneBefore
    <2>2. DOMAIN req.filters = 1..Len(req.filters) /\ Len(req.filters) \in Nat
      BY DEF OwnerInv, RequestTyped, Request
    <2>3. \A j \in 1..(ix - 1) : j \in DOMAIN req.filters /\ j # ix
      BY <1>2, <2>2
    <2>4. \A j \in 1..(ix - 1) : gave'[j] = gave[j]
      BY <1>2, <1>5, <2>3
    <2>5. \A j \in 1..(ix - 1) : Parts'[j] = Parts[j]
      BY <1>1, <2>3, <2>4 DEF Parts, Wanted, Narrows
    <2>6. ix - 1 \in Nat
      BY <1>2
    <2> QED
      BY <2>1, <2>5, <2>6, MadeOfSame
  <1> QED
    BY <1>1, <1>11, <1>12, <1>13 DEF FromNodes, ListInv, Added, OkMeansComplete

\* A part of the answer arrives, or the refusal.
LEMMA PartialList ==
    ASSUME OwnerInv, ListInv, HandleGetFails \/ \E o \in Owners, n \in 0..Len(stream) : OwnerEnds(o, n)
    PROVE  ListInv'
  <1> USE DEF envVars, getVars, connVars
  <1>1. CASE HandleGetFails
    <2>1. /\ pc = "receive" /\ served' /\ stream' = ReturnCode
          /\ UNCHANGED <<pc, req, ix, from, list, rc, gave, cut, failed>>
      BY <1>1 DEF HandleGetFails, Serves
    <2>2. AtFilter
      BY <2>1 DEF AtFilter
    <2> DEFINE e == [msg |-> "RETURN_CODE", code |-> "ERR"]
    <2>3. e \in Message /\ e.msg = "RETURN_CODE"
      BY DEF Message
    <2>4. stream' = <<e>>
      BY <2>1 DEF ReturnCode
    <2> HIDE DEF e
    <2>5. stream' \in Seq(Message) /\ \A j \in 1..Len(stream') : stream'[j].msg = "RETURN_CODE"
      BY <2>3, <2>4
    <2>6. ListTyped' /\ DoneBefore'
      BY <2>1, <2>2, <2>5, SameList
    <2> QED
      BY <2>1, <2>5, <2>6 DEF FromNodes, ListInv, Answering, Added, OkMeansComplete
  <1>2. ASSUME NEW o \in Owners, NEW n \in 0..Len(stream), OwnerEnds(o, n) PROVE ListInv'
    <2>1. /\ UNCHANGED <<pc, req, ix, node, from, list, rc, gave, cut, failed, served>>
          /\ stream' = stream \/ (pc = "receive" /\ stream' = SubSeq(stream, 1, n))
      BY <1>2 DEF OwnerEnds
    <2>2. Parts' = Parts
      BY <2>1 DEF Parts, Wanted, Narrows
    <2>3. CASE stream' = stream
      BY <2>1, <2>2, <2>3
         DEF FromNodes, ListInv, ListTyped, AtFilter, DoneBefore, Whole, Answering, InAnswer, FromNodes, Added, OkMeansComplete, Parts
    <2>4. CASE pc = "receive" /\ stream' = SubSeq(stream, 1, n)
      <3>1. /\ AtFilter /\ stream \in Seq(Message) /\ Len(stream) \in Nat /\ gave[ix] \in Seq(Object)
            /\ from \in Nat /\ Len(list) \in Nat /\ from <= Len(list)
        BY <2>4, Receiving
      <3>2. /\ stream' \in Seq(Message) /\ Len(stream') = n /\ n \in Nat /\ n <= Len(stream)
            /\ \A j \in 1..n : stream'[j] = stream[j] /\ j \in 1..Len(stream)
        BY <2>4, <3>1
      <3>3. ListTyped' /\ DoneBefore'
        BY <2>1, <2>4, <3>1, <3>2, SameList
      <3>4. ~served => stream' = <<>>
        BY <2>4, <3>2 DEF ListInv, Answering
      <3>5. PICK g : g = gave[ix]
        OBVIOUS
      <3>6. PICK m \in Nat : m = Len(list) - from
        <4>1. Len(list) - from \in Nat
          BY <3>1
        <4> QED
          BY <4>1, Zenon
      <3>7. InAnswer(g, m) => InAnswer(g, m)'
        <4>1. g \in Seq(Object) /\ Len(g) \in Nat
          BY <3>1, <3>5
        <4> SUFFICES ASSUME InAnswer(g, m) PROVE InAnswer(g, m)'
          OBVIOUS
        <4>2. m <= Len(g) /\ m + Len(stream') <= Len(g) + 1
          BY <3>1, <3>2, <4>1 DEF InAnswer
        <4>3. \A j \in 1..m : list'[from' + j] = g[j]
          BY <2>1 DEF InAnswer
        <4>4. \A j \in 1..Len(stream') :
                  stream'[j] = IF m + j <= Len(g) THEN [msg |-> "GET_RESP", obj |-> g[m + j]] ELSE [msg |-> "GET_DONE"]
          BY <3>2 DEF InAnswer
        <4> QED
          BY <4>2, <4>3, <4>4 DEF InAnswer
      <3>8. Answering'
        BY <2>1, <2>4, <3>2, <3>4, <3>5, <3>6, <3>7 DEF ListInv, Answering
      <3> QED
        BY <2>1, <2>4, <3>3, <3>8 DEF FromNodes, ListInv, Added, OkMeansComplete
    <2> QED
      BY <2>1, <2>3, <2>4
  <1> QED
    BY <1>1, <1>2

\* Every step keeps the list.
LEMMA NextListInv == OwnerInv /\ ListInv /\ [RequestNext]_requestVars => ListInv'
  <1> SUFFICES ASSUME OwnerInv, ListInv, [RequestNext]_requestVars PROVE ListInv'
    OBVIOUS
  <1>1. ASSUME NEW k \in Keys, NEW o \in Owners \cup {NoOwner}, Move(k, o)
        PROVE  UNCHANGED <<pc, getVars, stream, served>>
    BY <1>1 DEF Move, connVars
  <1>3. ASSUME UNCHANGED <<pc, getVars, stream, served>> PROVE ListInv'
    <2>1. UNCHANGED <<pc, req, ix, node, from, list, rc, gave, cut, failed, stream, served>>
      BY <1>3 DEF getVars
    <2>2. Parts' = Parts
      BY <2>1 DEF Parts, Wanted, Narrows
    <2> QED
      BY <2>1, <2>2
         DEF ListInv, ListTyped, AtFilter, DoneBefore, Whole, Answering, InAnswer, FromNodes, Added, OkMeansComplete, Parts
  <1>4. CASE Tick
    <2>1. UNCHANGED <<pc, getVars, stream, served>>
      BY <1>4 DEF Tick
    <2> QED
      BY <1>3, <2>1
  <1>5. CASE UNCHANGED requestVars
    <2>1. UNCHANGED <<pc, getVars, stream, served>>
      BY <1>5 DEF requestVars, connVars
    <2> QED
      BY <1>3, <2>1
  <1> QED
    BY <1>1, <1>3, <1>4, <1>5, GetList, DbGetList, EndFilterList, StopList, ConnectList, ReceiveObjectList,
       ReceiveLastList, HandleGetList, PartialList, DbNodeList DEF RequestNext

\* For any owners, filters, nodes and objects: a get that returns OK has
\* returned, in their order, what the owners gave for its filters and what the
\* databases of the group hold, without what an exact filter excludes, unless
\* the caller went on after a failure, an owner ended within an answer that was
\* waited for with a timeout, a database of the group did not answer, or the
\* exact filter came with keys (cps_api_get, _filter_list_as_needed,
\* __cps_api_db_operation_get, cps_api_process_get_request).
THEOREM OkIsComplete == RequestSpec => []OkMeansComplete
  <1>1. RequestInit => OwnerInv /\ ListInv
    BY InitOwnerInv, InitListInv
  <1>2. (OwnerInv /\ ListInv) /\ [RequestNext]_requestVars => (OwnerInv /\ ListInv)'
    BY NextOwnerInv, NextListInv
  <1>3. OwnerInv /\ ListInv => OkMeansComplete
    BY DEF ListInv
  <1> QED
    BY <1>1, <1>2, <1>3, PTL DEF RequestSpec

-----------------------------------------------------------------------------
(* The groups *)

\* Once the agent has been told of every change, the connectivity groups are
\* the node groups without the nodes no tunnel could be built to.
ConfigFollows ==
    ~notified /\ ~unseen =>
        \A g \in Groups : wanted[g] # None => config[g] = [wanted[g] EXCEPT !.nodes = @ \ refused]

\* What was loaded since is the configuration, or cannot be told from it.
GroupsFollow == loaded => groups = config \/ gen_hash(config) = gen_hash(groups)

\* The inductive invariant of ProcessesSeeWanted.
WantedInv ==
    /\ notified \in BOOLEAN /\ unseen \in BOOLEAN /\ loaded \in BOOLEAN
    /\ config = [g \in Groups |-> config[g]]
    /\ ConfigFollows
    /\ GroupsFollow

\* A _sync that the database has answered lists of every group the nodes it is
\* connected to, which are all but those it refuses.
LEMMA SyncFollows ==
    ASSUME NEW read \in SUBSET GroupsSet, NEW known, NEW built, NEW written, Sync(read, known, built, written), ~unseen'
    PROVE  \A g \in Groups : wanted'[g] # None => config'[g] = [wanted'[g] EXCEPT !.nodes = @ \ refused']
  <1>1. /\ config' = SyncedConfig(GroupsSet, known \cup built) /\ refused' = NodesIn(GroupsSet) \ (known \cup built)
        /\ wanted' = wanted
    BY DEF Sync
  <1>2. ASSUME NEW g \in Groups, wanted[g] # None
        PROVE  g \in GroupsSet /\ Listed(g, known \cup built) = wanted[g].nodes \ refused'
    <2>1. wanted[g].nodes \subseteq NodesIn(GroupsSet) \cup {Local} /\ Local \notin NodesIn(GroupsSet) /\ g \in GroupsSet
      <3> DEFINE all == {wanted[h].nodes : h \in GroupsSet}
      <3>1. wanted[g].nodes \in all /\ g \in GroupsSet
        BY <1>2 DEF GroupsSet
      <3>2. NodesIn(GroupsSet) = (UNION all) \ {Local}
        BY DEF NodesIn
      <3> HIDE DEF all
      <3> QED
        BY <3>1, <3>2
    <2> QED
      BY <1>1, <2>1 DEF Listed
  <1> QED
    BY <1>1, <1>2 DEF SyncedConfig

\* Every step keeps the groups in line.
LEMMA NextWanted == WantedInv /\ [Next]_vars => WantedInv'
  <1> SUFFICES ASSUME WantedInv, [Next]_vars PROVE WantedInv'
    OBVIOUS
  <1> USE DEF nodeSetVars, dbVars, processVars, historyVars, agentVars
  <1>1. ASSUME UNCHANGED <<wanted, config, refused, groups>>,
               notified' = notified, unseen' = unseen, loaded' = loaded
        PROVE  WantedInv'
    BY <1>1 DEF WantedInv, ConfigFollows, GroupsFollow, gen_hash
  <1>2. ASSUME UNCHANGED <<config, groups, loaded>>, notified' \in BOOLEAN, unseen' \in BOOLEAN,
               notified' \/ unseen'
        PROVE  WantedInv'
    BY <1>2 DEF WantedInv, ConfigFollows, GroupsFollow, gen_hash
  <1>3. ASSUME NEW g \in Groups, NEW obj \in GroupChoices[g], SetNodeGroup(g, obj) PROVE WantedInv'
    <2>1. UNCHANGED <<config, groups, loaded>>
      BY <1>3 DEF SetNodeGroup
    <2>2. notified' \in BOOLEAN /\ unseen' \in BOOLEAN /\ (notified' \/ unseen')
      BY <1>3 DEF SetNodeGroup, Publish, PublishNothing, WantedInv
    <2> QED
      BY <1>2, <2>1, <2>2
  <1>4. ASSUME NEW g \in Groups, DeleteNodeGroup(g) PROVE WantedInv'
    <2>1. UNCHANGED <<config, groups, loaded>>
      BY <1>4 DEF DeleteNodeGroup
    <2>2. notified' \in BOOLEAN /\ unseen' \in BOOLEAN /\ (notified' \/ unseen')
      BY <1>4 DEF DeleteNodeGroup, Publish, PublishNothing, WantedInv
    <2> QED
      BY <1>2, <2>1, <2>2
  <1>5. CASE SyncStep
    <2>1. PICK read \in SUBSET GroupsSet, known \in {conns, {}} :
              \E built \in SUBSET Buildable(read, known), written \in SUBSET read :
                  Sync(read, known, built, written) /\ (FirstSync \/ HandleEvent)
      BY <1>5 DEF SyncStep
    <2>2. PICK built \in SUBSET Buildable(read, known), written \in SUBSET read :
              Sync(read, known, built, written) /\ (FirstSync \/ HandleEvent)
      BY <2>1
    <2>3. unseen' \in BOOLEAN /\ loaded' = FALSE /\ notified' \in {notified, FALSE}
      BY <2>2 DEF Sync, FirstSync, HandleEvent
    <2>4. config' = [g \in Groups |-> config'[g]]
      BY <2>2 DEF Sync, SyncedConfig
    <2> QED
      BY <2>2, <2>3, <2>4, SyncFollows DEF WantedInv, ConfigFollows, GroupsFollow
  <1>6. CASE AgentRestarts
    BY <1>2, <1>6 DEF AgentRestarts, WantedInv
  <1>7. CASE \/ \E g \in Groups, n \in Nodes : PeerPort(g, n)
             \/ Validate \/ Register
             \/ \E n \in Nodes : TunnelDies(n)
             \/ DatabaseLost \/ DatabaseBack
    BY <1>1, <1>7 DEF PeerPort, Validate, Register, TunnelDies, DatabaseLost, DatabaseBack
  <1>8. CASE ProcessStep
    <2>1. UNCHANGED <<wanted, notified, refused, unseen>>
      BY <1>8 DEF ProcessStep
    <2>2. ASSUME NEW seen \in SUBSET Groups, LoadGroups(seen), loaded' = (up /\ seen = Groups) PROVE WantedInv'
      <3>1. config' = config
        BY <2>2 DEF LoadGroups
      <3>2. loaded' => groups' = config \/ (groups' = groups /\ gen_hash(config) = gen_hash(groups))
        <4> SUFFICES ASSUME up, seen = Groups
                     PROVE  groups' = config \/ (groups' = groups /\ gen_hash(config) = gen_hash(groups))
          BY <2>2
        <4>1. groups' = IF gen_hash(Seen(Groups)) = gen_hash(groups) THEN groups ELSE Seen(Groups)
          BY <2>2 DEF LoadGroups
        <4>2. Seen(Groups) = config
          BY DEF Seen, WantedInv
        <4> QED
          BY <4>1, <4>2
      <3>3. GroupsFollow'
        BY <2>2, <3>1, <3>2 DEF GroupsFollow, gen_hash
      <3>4. ConfigFollows'
        BY <2>1, <3>1 DEF WantedInv, ConfigFollows
      <3>5. loaded' \in BOOLEAN
        BY <2>2
      <3> QED
        BY <2>1, <2>2, <3>1, <3>3, <3>4, <3>5 DEF WantedInv, LoadGroups
    <2>3. CASE LoadExpires /\ loaded' = loaded
      BY <1>1, <2>1, <2>3 DEF LoadExpires
    <2>4. ASSUME NEW g \in Groups, NEW name \in Nodes, loaded' = loaded,
                 \/ SetMasterRefused(g, name)
                 \/ \E n \in Nodes : SetMaster(g, name, n)
          PROVE  WantedInv'
      <3>1. config' = config /\ groups' = groups
        BY <2>4 DEF SetMasterRefused, SetMaster
      <3> QED
        BY <1>1, <2>1, <2>4, <3>1
    <2>5. CASE Restart /\ loaded' = FALSE
      BY <2>1, <2>5 DEF Restart, WantedInv, ConfigFollows, GroupsFollow
    <2> QED
      BY <1>8, <2>2, <2>3, <2>4, <2>5 DEF ProcessStep
  <1>9. CASE UNCHANGED vars
    BY <1>1, <1>9 DEF vars
  <1> QED
    BY <1>3, <1>4, <1>5, <1>6, <1>7, <1>8, <1>9 DEF Next

\* Groups with the hash of the configuration differ from it only where the
\* names are arranged in another way.
LEMMA SameHashMeans ==
    ASSUME gen_hash(config) = gen_hash(groups), groups # config
    PROVE  SameHash
  <1>1. /\ {g \in Groups : config[g] # None} = {g \in Groups : groups[g] # None}
        /\ [n \in Nodes |-> Cardinality({g \in Groups : config[g] # None /\ n \in config[g].nodes})]
           = [n \in Nodes |-> Cardinality({g \in Groups : groups[g] # None /\ n \in groups[g].nodes})]
    BY DEF gen_hash
  <1>2. \A g \in Groups : groups[g] = None <=> config[g] = None
    BY <1>1
  <1>3. \A n \in Nodes : Cardinality({g \in Groups : groups[g] # None /\ n \in groups[g].nodes}) =
                         Cardinality({g \in Groups : config[g] # None /\ n \in config[g].nodes})
    BY <1>1
  <1> QED
    BY <1>2, <1>3 DEF SameHash, Lists

\* For any groups and nodes: from cps_api_set_node_group through _sync of the
\* connectivity agent to load_groups, a process ends up with the nodes that
\* were set, except those no tunnel could be built to, unless the agent missed
\* an event, the database did not answer it or the process, or the hash of the
\* names hides the difference.
THEOREM ProcessesSeeWanted == Spec => []ClientsSeeWanted
  <1>1. Init => WantedInv
    BY DEF Init, NodeSetInit, NoGroups, WantedInv, ConfigFollows, GroupsFollow
  <1>2. WantedInv => ClientsSeeWanted
    <2> SUFFICES ASSUME WantedInv, ~notified, ~unseen, loaded, NEW g \in Groups, wanted[g] # None, ~SameHash
                 PROVE  groups[g] = [wanted[g] EXCEPT !.nodes = @ \ refused]
      BY DEF ClientsSeeWanted
    <2>1. groups = config
      BY SameHashMeans DEF WantedInv, GroupsFollow
    <2> QED
      BY <2>1 DEF WantedInv, ConfigFollows
  <1>3. Spec => []WantedInv
    BY <1>1, NextWanted, PTL DEF Spec
  <1> QED
    BY <1>2, <1>3, PTL

-----------------------------------------------------------------------------
(* The identifiers of the YANG tools *)

Names == UNION Contents

Partial(D, R) == UNION {[X -> R] : X \in SUBSET D}

Book == [file : BOOLEAN, cat : Nat, ids : Partial(Names, Nat)]

CatTable == [start : Nat, end : Nat, auto : BOOLEAN,
             cats : Partial(Models \cup {Unnamed}, Nat \ {0}),
             modified : BOOLEAN, writes : BOOLEAN]

RunOfTool == [pc : {"scan", "write", "close", "store", "conf", "conf-store"},
              model : Models, todo : SUBSET Models, again : BOOLEAN, table : CatTable,
              cat : Nat, ids : Partial(Names, Nat), modified : BOOLEAN]

HistoryTyped ==
    /\ hist \in [Models -> Book]
    /\ conf.start \in Nat /\ conf.end \in Nat /\ conf.auto \in BOOLEAN
    /\ conf.cats \in Partial(Models, Nat \ {0})
    /\ tool \in [Tools -> {IdleTool} \cup RunOfTool]
    /\ given \in [Models -> Partial(Names, Nat)]
    /\ overlaps \in SUBSET SUBSET Models
    /\ lost \in SUBSET Models
    /\ \A m \in Models : hist[m].file \/ hist[m].cat = 0
    /\ \A m \in Models : hist[m].cat = 0 => hist[m].ids = Nothing

\* Some place has the category c for m.
Holds(m, c) ==
    \/ m \in DOMAIN conf.cats /\ conf.cats[m] = c
    \/ hist[m].cat = c /\ c # 0
    \/ \E t \in Active : m \in DOMAIN tool[t].table.cats /\ tool[t].table.cats[m] = c

OneCategory ==
    \A m \in Models : ~Disturbed(m) => \A c, d \in Nat : Holds(m, c) /\ Holds(m, d) => c = d

Quiet(m, m2) ==
    /\ ~Disturbed(m) /\ ~Disturbed(m2) /\ {m, m2} \notin overlaps
    /\ {m, m2} \cap Reserved = {} \/ ~(Overlapped(m) \/ Overlapped(m2))

OwnCategory ==
    \A m, m2 \in Models : m # m2 /\ Quiet(m, m2) =>
        \A c \in Nat : ~(Holds(m, c) /\ Holds(m2, c))

HasCategory(t) == tool[t].pc \notin {"idle", "scan"}

\* The model has a category in its file, or a run is about to write it there.
Settled(m) ==
    hist[m].cat # 0 \/ \E u \in Active : tool[u].model = m /\ tool[u].pc = "store"

Elsewhere(m) ==
    \/ m \in DOMAIN conf.cats
    \/ \E t \in Active : m \in DOMAIN tool[t].table.cats /\ ~(tool[t].model = m /\ HasCategory(t))

KnownIfSettled ==
    \A m \in Models : ~Disturbed(m) /\ m \notin Reserved /\ Elsewhere(m) => Settled(m)

OverlapsSeen ==
    \A t, u \in Active : t # u => {tool[t].model, tool[u].model} \in overlaps

SeesConf ==
    \A t \in Active : ~Overlapped(tool[t].model) => DOMAIN conf.cats \subseteq DOMAIN tool[t].table.cats

SeesFiles ==
    \A t \in Active, m \in Models :
        tool[t].pc = "scan" /\ {tool[t].model, m} \notin overlaps /\ hist[m].cat # 0
        => m \in tool[t].todo \cup DOMAIN tool[t].table.cats

OwnEntry ==
    \A t \in Active : HasCategory(t) =>
        /\ tool[t].cat # 0
        /\ tool[t].model \in DOMAIN tool[t].table.cats
        /\ tool[t].table.cats[tool[t].model] = tool[t].cat
        /\ tool[t].pc = "store" => tool[t].modified

\* The numbers of a category, all different.
Numbered(ids, cat) ==
    /\ \A n \in DOMAIN ids : cat * Span <= ids[n] /\ ids[n] < (cat + 1) * Span
    /\ \A n, k \in DOMAIN ids : ids[n] = ids[k] => n = k

AllNumbered ==
    /\ \A m \in Models : Numbered(hist[m].ids, hist[m].cat)
    /\ \A t \in Active : HasCategory(t) => Numbered(tool[t].ids, tool[t].cat)

Contains(ids, part) == \A n \in DOMAIN part : n \in DOMAIN ids /\ ids[n] = part[n]

WritesBook(t, m) == t \in Active /\ tool[t].model = m /\ tool[t].pc \in {"close", "store"}

GivenInBook ==
    \A m \in Models : ~Disturbed(m) =>
        \/ \E t \in Tools : WritesBook(t, m)
        \/ Contains(hist[m].ids, given[m])

GivenInRun ==
    \A t \in Active : ~Disturbed(tool[t].model) =>
        /\ tool[t].pc \in {"write", "close", "store"} => Contains(tool[t].ids, given[tool[t].model])
        /\ tool[t].pc \in {"write", "close"} /\ ~tool[t].modified =>
              hist[tool[t].model].cat # 0 /\ hist[tool[t].model].ids = tool[t].ids
        /\ tool[t].pc \in {"conf", "conf-store"} => hist[tool[t].model].cat # 0

BuildInv ==
    /\ HistoryTyped
    /\ OverlapsSeen /\ SeesConf /\ SeesFiles
    /\ OneCategory /\ OwnCategory /\ KnownIfSettled
    /\ OwnEntry /\ AllNumbered
    /\ GivenInBook /\ GivenInRun

\* A directory whose first category.yconf is refused stays as it is.
Refused ==
    /\ ~IsInjective(conf.cats)
    /\ \A t \in Tools : tool[t] = IdleTool
    /\ \A m \in Models : given[m] = Nothing

HistoryInv == Refused \/ BuildInv

LEMMA PartialIs ==
    ASSUME NEW D, NEW R, NEW f
    PROVE  f \in Partial(D, R) <=> DOMAIN f \subseteq D /\ f \in [DOMAIN f -> R]
  <1>1. ASSUME f \in Partial(D, R) PROVE DOMAIN f \subseteq D /\ f \in [DOMAIN f -> R]
    <2>1. PICK X \in SUBSET D : f \in [X -> R]
      BY <1>1 DEF Partial
    <2> QED
      BY <2>1
  <1>2. ASSUME DOMAIN f \subseteq D, f \in [DOMAIN f -> R] PROVE f \in Partial(D, R)
    BY <1>2 DEF Partial
  <1> QED
    BY <1>1, <1>2

LEMMA NothingPartial ==
    ASSUME NEW D, NEW R
    PROVE  Nothing \in Partial(D, R) /\ DOMAIN Nothing = {}
  <1>1. DOMAIN Nothing = {} /\ Nothing \in [DOMAIN Nothing -> R]
    BY DEF Nothing
  <1> QED
    BY <1>1, PartialIs

LEMMA OverIs ==
    ASSUME NEW f, NEW g
    PROVE  /\ DOMAIN Over(f, g) = DOMAIN f \cup DOMAIN g
           /\ \A k \in DOMAIN f : Over(f, g)[k] = f[k]
           /\ \A k \in DOMAIN g : k \notin DOMAIN f => Over(f, g)[k] = g[k]
  BY DEF Over

LEMMA OverPartial ==
    ASSUME NEW D, NEW R, NEW f \in Partial(D, R), NEW g \in Partial(D, R)
    PROVE  Over(f, g) \in Partial(D, R)
  <1>1. DOMAIN f \subseteq D /\ f \in [DOMAIN f -> R] /\ DOMAIN g \subseteq D /\ g \in [DOMAIN g -> R]
    BY PartialIs
  <1> DEFINE h == Over(f, g)
  <1>2. h \in [DOMAIN f \cup DOMAIN g -> R] /\ DOMAIN h = DOMAIN f \cup DOMAIN g
    BY <1>1 DEF Over
  <1> HIDE DEF h
  <1>3. DOMAIN h \subseteq D /\ h \in [DOMAIN h -> R]
    BY <1>1, <1>2
  <1> QED
    BY <1>3, PartialIs DEF h

LEMMA EntryPartial ==
    ASSUME NEW D, NEW R, NEW k \in D, NEW v \in R
    PROVE  Entry(k, v) \in Partial(D, R) /\ DOMAIN Entry(k, v) = {k} /\ Entry(k, v)[k] = v
  <1>1. DOMAIN Entry(k, v) = {k} /\ Entry(k, v)[k] = v /\ Entry(k, v) \in [{k} -> R]
    BY DEF Entry
  <1> QED
    BY <1>1, PartialIs

LEMMA RestrictPartial ==
    ASSUME NEW D, NEW R, NEW f \in Partial(D, R), NEW S \in SUBSET DOMAIN f
    PROVE  /\ DOMAIN Restrict(f, S) = S
           /\ \A k \in S : Restrict(f, S)[k] = f[k]
           /\ \A E : S \subseteq E => Restrict(f, S) \in Partial(E, R)
  <1>1. f \in [DOMAIN f -> R]
    BY PartialIs
  <1>2. DOMAIN Restrict(f, S) = S /\ \A k \in S : Restrict(f, S)[k] = f[k]
    BY DEF Restrict
  <1>3. Restrict(f, S) \in [S -> R]
    BY <1>1 DEF Restrict
  <1> QED
    BY <1>2, <1>3, PartialIs

\* A finite set of numbers is bounded.
LEMMA FiniteBounded ==
    ASSUME NEW S \in SUBSET Nat, IsFiniteSet(S)
    PROVE  \E b \in Nat : \A x \in S : x <= b
  <1> DEFINE B(n) == \A f \in [1..n -> Nat] : \E b \in Nat : \A i \in 1..n : f[i] <= b
             T == {n \in Nat : B(n)}
  <1>1. B(0)
    OBVIOUS
  <1>2. ASSUME NEW n \in Nat, B(n) PROVE B(n + 1)
    <2>1. ASSUME NEW f \in [1..(n + 1) -> Nat]
          PROVE  \E b \in Nat : \A i \in 1..(n + 1) : f[i] <= b
      <3> DEFINE g == [i \in 1..n |-> f[i]]
      <3>1. g \in [1..n -> Nat]
        OBVIOUS
      <3>2. PICK b \in Nat : \A i \in 1..n : g[i] <= b
        BY <1>2, <3>1
      <3>3. f[n + 1] \in Nat /\ \A i \in 1..n : f[i] <= b /\ f[i] \in Nat
        BY <3>2
      <3>4. \A i \in 1..(n + 1) : f[i] <= b + f[n + 1]
        BY <3>3
      <3>5. b + f[n + 1] \in Nat
        BY <3>3
      <3> QED
        BY <3>4, <3>5
    <2> QED
      BY <2>1
  <1>3. \A n \in Nat : B(n)
    <2> HIDE DEF B
    <2>2. 0 \in T /\ T \in SUBSET Nat
      BY <1>1
    <2>3. \A n \in T : n + 1 \in T
      BY <1>2
    <2>1. T = Nat
      <3> HIDE DEF T
      <3> QED
        BY <2>2, <2>3, Induction
    <2> QED
      BY <2>1
  <1>4. PICK n \in Nat : ExistsSurjection(1..n, S)
    BY FS_NatSurjection
  <1>5. PICK f \in Surjection(1..n, S) : TRUE
    BY <1>4 DEF ExistsSurjection
  <1>7. f \in [1..n -> Nat] /\ \A x \in S : \E i \in 1..n : f[i] = x
    BY <1>5 DEF Surjection
  <1>6. PICK b \in Nat : \A i \in 1..n : f[i] <= b
    BY <1>3, <1>4, <1>7
  <1> QED
    BY <1>6, <1>7

LEMMA BoundedMax ==
    ASSUME NEW S \in SUBSET Nat, S # {}, NEW b \in Nat, \A x \in S : x <= b
    PROVE  Max(S) \in S /\ \A x \in S : x <= Max(S)
  <1> DEFINE T == {b - x : x \in S}
  <1>1. T \in SUBSET Nat /\ T # {}
    <2>1. \A x \in S : b - x \in Nat
      OBVIOUS
    <2>2. PICK x \in S : TRUE
      OBVIOUS
    <2>3. b - x \in T
      BY <2>2
    <2> QED
      BY <2>1, <2>3
  <1>2. PICK d \in T : \A e \in T : d <= e
    BY <1>1, LeastNumber
  <1>3. PICK m \in S : d = b - m
    OBVIOUS
  <1>4. \A x \in S : m >= x
    BY <1>2, <1>3
  <1>5. \E x \in S : \A y \in S : x >= y
    BY <1>4
  <1>6. Max(S) \in S /\ \A y \in S : Max(S) >= y
    BY <1>5 DEF Max
  <1> QED
    BY <1>6

LEMMA MinIs ==
    ASSUME NEW S \in SUBSET Nat, S # {}
    PROVE  Min(S) \in S
  <1>1. \E n \in S : \A m \in S : n <= m
    BY LeastNumber
  <1> QED
    BY <1>1 DEF Min

\* A new category is one that the table does not have.
LEMMA FreeIsFree ==
    ASSUME NEW table \in CatTable
    PROVE  NextFree(table) \in Nat /\ NextFree(table) \notin Taken(table)
  <1> DEFINE S == Taken(table)
  <1>1. table.cats \in Partial(Models \cup {Unnamed}, Nat \ {0})
    BY DEF CatTable
  <1>2. DOMAIN table.cats \subseteq Models \cup {Unnamed} /\ table.cats \in [DOMAIN table.cats -> Nat \ {0}]
    BY <1>1, PartialIs
  <1>3. S \in SUBSET (Nat \ {0})
    BY <1>2 DEF Taken, Range
  <1>4. IsFiniteSet(S)
    <2>1. IsFiniteSet(Models \cup {Unnamed})
      BY HistoryAssumption, FS_AddElement
    <2>2. IsFiniteSet(DOMAIN table.cats)
      BY <2>1, <1>2, FS_Subset
    <2>3. IsFiniteSet({table.cats[x] : x \in DOMAIN table.cats})
      <3> DEFINE f == table.cats
      <3>1. f \in Surjection(DOMAIN f, Range(f))
        BY <1>2 DEF Surjection, Range
      <3> HIDE DEF f
      <3>2. IsFiniteSet(Range(f))
        BY <3>1, <2>2, FS_Surjection DEF f
      <3> QED
        BY <3>2 DEF Range, f
    <2> QED
      BY <2>3 DEF Taken, Range
  <1> HIDE DEF S
  <1>5. CASE table.auto
    <2>7. IsFiniteSet(S \cup {0})
      BY <1>4, FS_AddElement
    <2>8. S \cup {0} \in SUBSET Nat /\ S \cup {0} # {}
      BY <1>3
    <2>1. S \cup {0} \in SUBSET Nat /\ S \cup {0} # {} /\ IsFiniteSet(S \cup {0})
      BY <2>7, <2>8
    <2>2. PICK b \in Nat : \A x \in S \cup {0} : x <= b
      BY <2>1, FiniteBounded
    <2> DEFINE M == Max(S \cup {0})
    <2>3. M \in S \cup {0} /\ \A x \in S \cup {0} : x <= M
      BY <2>1, <2>2, BoundedMax
    <2>4. NextFree(table) = M + 1
      BY <1>5 DEF NextFree, S
    <2> HIDE DEF M
    <2>5. M \in Nat /\ \A x \in S : x <= M /\ x \in Nat
      BY <2>1, <2>3
    <2>6. M + 1 \in Nat /\ M + 1 \notin S
      <3>1. M + 1 \in Nat /\ ~(M + 1 <= M)
        BY <2>5
      <3> QED
        BY <2>5, <3>1
    <2> QED
      BY <2>4, <2>6 DEF S
  <1>6. CASE ~table.auto
    <2> DEFINE free == (table.start .. table.end - 1) \ S
    <2>1. table.start \in Nat /\ table.end \in Nat
      BY DEF CatTable
    <2>2. free \in SUBSET Nat
      <3>1. \A x \in table.start .. table.end - 1 : x \in Nat
        BY <2>1
      <3> QED
        BY <3>1
    <2>3. NextFree(table) = IF free = {} THEN 0 ELSE Min(free)
      BY <1>6 DEF NextFree, S
    <2>4. 0 \notin S
      BY <1>3
    <2>5. free # {} => Min(free) \in free
      BY <2>2, MinIs
    <2>6. free # {} => Min(free) \in Nat /\ Min(free) \notin S
      BY <2>2, <2>5
    <2> HIDE DEF free
    <2>9. NextFree(table) \in Nat /\ NextFree(table) \notin S
      BY <2>3, <2>4, <2>6
    <2> QED
      BY <2>9 DEF S
  <1>7. table.auto \in BOOLEAN
    BY DEF CatTable
  <1> QED
    BY <1>5, <1>6, <1>7

LEMMA ActiveIs ==
    ASSUME HistoryTyped, NEW t \in Tools
    PROVE  t \in Active <=> tool[t] \in RunOfTool
  BY DEF HistoryTyped, Active, IdleTool, RunOfTool

LEMMA CategoryTyped ==
    ASSUME NEW table \in CatTable, NEW name \in Models \cup {Unnamed}, NEW f \in Book,
           Category(table, name, f) # 0
    PROVE  /\ Category(table, name, f) \in Nat \ {0}
           /\ Noted(table, name, f) \in CatTable
           /\ Noted(table, name, f).cats = Over(table.cats, Entry(name, Category(table, name, f)))
  <1> DEFINE D == Models \cup {Unnamed}
             R == Nat \ {0}
  <1>1. table.cats \in Partial(D, R)
    BY DEF CatTable
  <1>2. table.cats \in [DOMAIN table.cats -> R]
    BY <1>1, PartialIs
  <1>3. NextFree(table) \in Nat /\ f.cat \in Nat
    BY FreeIsFree DEF Book
  <1>4. Category(table, name, f) \in R
    BY <1>2, <1>3 DEF Category
  <1>5. Entry(name, Category(table, name, f)) \in Partial(D, R)
    BY <1>4, EntryPartial
  <1>6. Over(table.cats, Entry(name, Category(table, name, f))) \in Partial(D, R)
    BY <1>1, <1>5, OverPartial
  <1> QED
    BY <1>4, <1>6 DEF Noted, CatTable

LEMMA TypedInit == HistoryInit => HistoryTyped
  <1> SUFFICES ASSUME HistoryInit PROVE HistoryTyped
    OBVIOUS
  <1>1. Nothing \in Partial(Names, Nat)
    BY NothingPartial
  <1>2. NoHistory \in Book
    BY <1>1 DEF NoHistory, Book
  <1>3. conf.cats \in Partial(Models, Nat \ {0})
    BY HistoryAssumption, PartialIs DEF HistoryInit
  <1>4. conf.start \in Nat /\ conf.end \in Nat /\ conf.auto \in BOOLEAN
    BY HistoryAssumption DEF HistoryInit
  <1>5. hist \in [Models -> Book] /\ \A m \in Models : hist[m].cat = 0 /\ hist[m].ids = Nothing
    BY <1>2 DEF HistoryInit, NoHistory
  <1>6. tool \in [Tools -> {IdleTool} \cup RunOfTool]
    BY DEF HistoryInit
  <1>7. given \in [Models -> Partial(Names, Nat)] /\ overlaps \in SUBSET SUBSET Models /\ lost \in SUBSET Models
    BY <1>1 DEF HistoryInit
  <1> QED
    BY <1>3, <1>4, <1>5, <1>6, <1>7 DEF HistoryTyped

LEMMA FailTyped ==
    ASSUME HistoryTyped, NEW t \in Tools, Fail(t)
    PROVE  HistoryTyped'
  <1>1. tool' \in [Tools -> {IdleTool} \cup RunOfTool]
    BY DEF HistoryTyped, Fail
  <1> QED
    BY <1>1 DEF HistoryTyped, Fail

LEMMA StartTyped ==
    ASSUME HistoryTyped, NEW t \in Tools, NEW m \in Models, Start(t, m)
    PROVE  HistoryTyped'
  <1>1. conf.cats \in Partial(Models \cup {Unnamed}, Nat \ {0})
    BY PartialIs DEF HistoryTyped
  <1>2. Nothing \in Partial(Names, Nat)
    BY NothingPartial
  <1> DEFINE table == [start |-> conf.start, end |-> conf.end, auto |-> conf.auto,
                       cats |-> conf.cats, modified |-> FALSE, writes |-> conf.file # "none"]
             new == [pc |-> "scan", model |-> m, todo |-> Listing, again |-> conf.file = "text",
                     table |-> table, cat |-> 0, ids |-> Nothing, modified |-> FALSE]
  <1>3. table \in CatTable
    BY <1>1 DEF HistoryTyped, CatTable
  <1>4. tool' = [tool EXCEPT ![t] = new]
    BY DEF Start
  <1>5. Listing \in SUBSET Models
    BY DEF Listing
  <1>6. new \in RunOfTool
    <2> HIDE DEF table
    <2> QED
      BY <1>2, <1>3, <1>5 DEF RunOfTool
  <1> HIDE DEF new
  <1>7. tool' \in [Tools -> {IdleTool} \cup RunOfTool]
    BY <1>4, <1>6 DEF HistoryTyped
  <1>8. \A u \in Active : tool[u].model \in Models
    BY ActiveIs DEF Active, RunOfTool
  <1>9. overlaps' \in SUBSET SUBSET Models
    BY <1>8 DEF Start, HistoryTyped
  <1> QED
    BY <1>7, <1>9 DEF HistoryTyped, Start

LEMMA ScanTyped ==
    ASSUME HistoryTyped, NEW t \in Tools, NEW m \in Models, ScanHist(t, m)
    PROVE  HistoryTyped'
  <1>1. CASE Fail(t)
    BY <1>1, FailTyped
  <1>2. CASE ~Fail(t)
    <2> DEFINE table == tool[t].table
    <2>1. tool[t] \in RunOfTool
      BY ActiveIs DEF ScanHist, Active
    <2>2. table \in CatTable /\ hist[m] \in Book /\ NameIn(m) \in Models \cup {Unnamed}
      BY <2>1 DEF HistoryTyped, RunOfTool, NameIn
    <2>3. Category(table, NameIn(m), hist[m]) # 0 /\ UNCHANGED <<hist, conf, header, runs, given, overlaps, lost>>
      BY <1>2 DEF ScanHist
    <2>4. tool' = [tool EXCEPT ![t].table = Noted(table, NameIn(m), hist[m]), ![t].todo = @ \ {m}]
      BY <1>2 DEF ScanHist
    <2>5. Noted(table, NameIn(m), hist[m]) \in CatTable
      BY <2>2, <2>3, CategoryTyped
    <2>6. tool'[t] \in RunOfTool
      BY <2>1, <2>4, <2>5 DEF HistoryTyped, RunOfTool
    <2>7. tool' \in [Tools -> {IdleTool} \cup RunOfTool]
      BY <2>4, <2>6 DEF HistoryTyped
    <2> QED
      BY <2>3, <2>7 DEF HistoryTyped
  <1> QED
    BY <1>1, <1>2

LEMMA SetupTyped ==
    ASSUME HistoryTyped, NEW t \in Tools, Setup(t)
    PROVE  HistoryTyped'
  <1>1. CASE Fail(t)
    BY <1>1, FailTyped
  <1>2. CASE ~Fail(t)
    <2> DEFINE table == tool[t].table
               m == tool[t].model
               c == Category(table, m, hist[m])
    <2>1. tool[t] \in RunOfTool
      BY ActiveIs DEF Setup, Active
    <2>2. table \in CatTable /\ m \in Models /\ hist[m] \in Book
      BY <2>1 DEF HistoryTyped, RunOfTool
    <2>3. c # 0 /\ UNCHANGED <<hist, conf, header, runs, given, overlaps, lost>>
      BY <1>2 DEF Setup
    <2>4. tool' = [tool EXCEPT ![t].pc = "write",
                               ![t].table = Noted(table, m, hist[m]),
                               ![t].cat = c,
                               ![t].ids = IF KeepsIds(table, m, hist[m]) THEN hist[m].ids ELSE Nothing,
                               ![t].modified = ~KeepsIds(table, m, hist[m])]
      BY <1>2 DEF Setup
    <2>5. Noted(table, m, hist[m]) \in CatTable /\ c \in Nat
      BY <2>2, <2>3, CategoryTyped
    <2>6. hist[m].ids \in Partial(Names, Nat) /\ Nothing \in Partial(Names, Nat)
      BY <2>2, NothingPartial DEF Book
    <2>7. KeepsIds(table, m, hist[m]) \in BOOLEAN
      BY DEF KeepsIds
    <2>8. tool'[t] \in RunOfTool
      <3> HIDE DEF table, m, c
      <3> QED
        BY <2>1, <2>4, <2>5, <2>6, <2>7 DEF HistoryTyped, RunOfTool
    <2>9. tool' \in [Tools -> {IdleTool} \cup RunOfTool]
      BY <2>4, <2>8 DEF HistoryTyped
    <2> QED
      BY <2>3, <2>9 DEF HistoryTyped
  <1> QED
    BY <1>1, <1>2

LEMMA SpanTimes ==
    ASSUME NEW c \in Nat, NEW d \in Nat
    PROVE  /\ c * Span \in Nat /\ (c + 1) * Span \in Nat
           /\ c * Span < (c + 1) * Span
           /\ c < d => (c + 1) * Span <= d * Span
  <1>0. Span \in Nat \ {0}
    BY HistoryAssumption, Zenon
  <1>1. Span \in Nat /\ Span > 0
    BY <1>0
  <1>2. c * Span \in Nat /\ (c + 1) * Span = c * Span + Span
    BY <1>1
  <1>3. ASSUME c < d PROVE (c + 1) * Span <= d * Span
    <2>1. PICK k \in Nat : d = (c + 1) + k
      <3>1. d - (c + 1) \in Nat /\ d = (c + 1) + (d - (c + 1))
        BY <1>3
      <3> QED
        BY <3>1
    <2>2. d * Span = (c + 1) * Span + k * Span /\ k * Span \in Nat
      BY <1>1, <2>1
    <2> QED
      BY <1>1, <1>2, <2>2
  <1> QED
    BY <1>1, <1>2, <1>3

\* The next number is above all that were given out in the category.
LEMMA NextIndexIs ==
    ASSUME NEW cat \in Nat, NEW ids \in Partial(Names, Nat), Numbered(ids, cat)
    PROVE  /\ NextIndex(cat, ids) \in Nat /\ NextIndex(cat, ids) >= cat * Span
           /\ \A n \in DOMAIN ids : ids[n] < NextIndex(cat, ids)
  <1> DEFINE S == {cat * Span} \cup {i + 1 : i \in Range(ids)}
             lo == cat * Span
             hi == (cat + 1) * Span
  <1>1. lo \in Nat /\ hi \in Nat /\ lo < hi
    BY SpanTimes
  <1>2. ids \in [DOMAIN ids -> Nat]
    BY PartialIs
  <1>3. \A n \in DOMAIN ids : ids[n] \in Nat /\ lo <= ids[n] /\ ids[n] < hi
    BY <1>2 DEF Numbered
  <1>4. \A i \in Range(ids) : i \in Nat /\ i < hi
    BY <1>3 DEF Range
  <1>5. NextIndex(cat, ids) = Max(S)
    BY DEF NextIndex
  <1>6. \A n \in DOMAIN ids : ids[n] + 1 \in S
    BY DEF Range
  <1>7. lo \in S
    OBVIOUS
  <1>8. \A x \in S : x = lo \/ \E i \in Range(ids) : x = i + 1
    OBVIOUS
  <1> HIDE DEF S, lo, hi
  <1>9. \A x \in S : x \in Nat /\ x <= hi
    BY <1>1, <1>4, <1>8
  <1>10. Max(S) \in S /\ \A x \in S : x <= Max(S)
    BY <1>1, <1>7, <1>9, BoundedMax
  <1>11. Max(S) \in Nat /\ lo <= Max(S)
    BY <1>7, <1>9, <1>10
  <1>12. \A n \in DOMAIN ids : ids[n] + 1 <= Max(S)
    BY <1>6, <1>10
  <1>13. \A n \in DOMAIN ids : ids[n] < Max(S)
    BY <1>3, <1>11, <1>12
  <1> QED
    BY <1>1, <1>5, <1>11, <1>13 DEF lo

LEMMA NewNumbers ==
    ASSUME NEW cat \in Nat, NEW old \in Partial(Names, Nat), Numbered(old, cat),
           NEW content \in Contents,
           NEW new \in Bijection(content \ DOMAIN old,
                                 NextIndex(cat, old) .. NextIndex(cat, old) + Cardinality(content \ DOMAIN old) - 1),
           content \ DOMAIN old = {}
             \/ NextIndex(cat, old) + Cardinality(content \ DOMAIN old) <= (cat + 1) * Span
    PROVE  /\ Over(old, new) \in Partial(Names, Nat)
           /\ Numbered(Over(old, new), cat)
           /\ DOMAIN Over(old, new) = DOMAIN old \cup content
           /\ \A n \in DOMAIN old : Over(old, new)[n] = old[n]
           /\ content \ DOMAIN old = {} => Over(old, new) = old
  <1> DEFINE added == content \ DOMAIN old
             first == NextIndex(cat, old)
             k == Cardinality(added)
             ids == Over(old, new)
             lo == cat * Span
             hi == (cat + 1) * Span
  <1>1. IsFiniteSet(added) /\ k \in Nat
    <2>1. IsFiniteSet(content) /\ added \subseteq content
      BY HistoryAssumption
    <2> QED
      BY <2>1, FS_Subset, FS_CardinalityType
  <1>2. first \in Nat /\ first >= lo /\ \A n \in DOMAIN old : old[n] < first
    BY NextIndexIs
  <1>3. new \in [added -> first .. first + k - 1] /\ \A a, b \in added : new[a] = new[b] => a = b
    BY DEF Bijection, Injection, IsInjective
  <1>4. lo \in Nat /\ hi \in Nat
    BY SpanTimes
  <1>5. DOMAIN old \subseteq Names /\ old \in [DOMAIN old -> Nat]
    BY PartialIs
  <1>6. DOMAIN ids = DOMAIN old \cup added /\ (\A n \in DOMAIN old : ids[n] = old[n])
          /\ \A n \in added : ids[n] = new[n]
    <2>1. DOMAIN new = added /\ \A n \in added : n \notin DOMAIN old
      BY <1>3
    <2> HIDE DEF added
    <2>2. DOMAIN Over(old, new) = DOMAIN old \cup DOMAIN new
          /\ (\A n \in DOMAIN old : Over(old, new)[n] = old[n])
          /\ \A n \in DOMAIN new : n \notin DOMAIN old => Over(old, new)[n] = new[n]
      BY OverIs, Zenon
    <2> QED
      BY <2>1, <2>2
  <1>7. \A n \in DOMAIN old : lo <= old[n] /\ old[n] < hi /\ old[n] \in Nat
    BY <1>5 DEF Numbered
  <1>8. \A n, j \in DOMAIN old : old[n] = old[j] => n = j
    BY DEF Numbered
  <1>9. added # {} => first + k <= hi
    OBVIOUS
  <1>10. added \subseteq Names
    BY DEF Names
  <1>11. added = {} => ids = old
    <2> SUFFICES ASSUME added = {} PROVE ids = old
      OBVIOUS
    <2>1. DOMAIN new = {}
      BY <1>3
    <2>2. ids = [n \in DOMAIN old |-> old[n]]
      BY <2>1 DEF Over
    <2> QED
      BY <2>2, <1>5
  <1>12. content \subseteq DOMAIN old \cup added /\ added \subseteq content
    OBVIOUS
  <1>13. ids = [n \in DOMAIN ids |-> ids[n]]
    BY DEF Over
  <1> HIDE DEF added, first, k, ids, lo, hi
  <1>14. \A n \in added : new[n] \in Nat /\ first <= new[n] /\ new[n] < hi /\ lo <= new[n]
    <2> SUFFICES ASSUME NEW n \in added PROVE new[n] \in Nat /\ first <= new[n] /\ new[n] < hi /\ lo <= new[n]
      OBVIOUS
    <2>1. new[n] \in first .. first + k - 1
      BY <1>3
    <2>2. first + k <= hi
      BY <1>9
    <2> QED
      BY <2>1, <2>2, <1>1, <1>2, <1>4
  <1>15. \A n \in DOMAIN ids : ids[n] \in Nat /\ lo <= ids[n] /\ ids[n] < hi
    BY <1>6, <1>7, <1>14
  <1>16. \A n, j \in DOMAIN ids : ids[n] = ids[j] => n = j
    <2> SUFFICES ASSUME NEW n \in DOMAIN ids, NEW j \in DOMAIN ids, ids[n] = ids[j] PROVE n = j
      OBVIOUS
    <2>1. CASE n \in DOMAIN old /\ j \in DOMAIN old
      BY <2>1, <1>6, <1>8
    <2>2. CASE n \in added /\ j \in added
      BY <2>2, <1>6, <1>3
    <2>3. CASE n \in DOMAIN old /\ j \in added
      <3>1. old[n] = new[j] /\ old[n] < first /\ first <= new[j]
        BY <2>3, <1>2, <1>6, <1>14
      <3> QED
        BY <3>1, <2>3, <1>2, <1>7, <1>14
    <2>4. CASE n \in added /\ j \in DOMAIN old
      <3>1. old[j] = new[n] /\ old[j] < first /\ first <= new[n]
        BY <2>4, <1>2, <1>6, <1>14
      <3> QED
        BY <3>1, <2>4, <1>2, <1>7, <1>14
    <2> QED
      BY <2>1, <2>2, <2>3, <2>4, <1>6
  <1>17. ids \in Partial(Names, Nat)
    <2>1. DOMAIN ids \subseteq Names /\ ids \in [DOMAIN ids -> Nat]
      BY <1>5, <1>6, <1>10, <1>13, <1>15
    <2> QED
      BY <2>1, PartialIs
  <1>18. DOMAIN ids = DOMAIN old \cup content
    BY <1>6, <1>12
  <1>19. Numbered(ids, cat)
    BY <1>15, <1>16 DEF Numbered, lo, hi
  <1> QED
    BY <1>6, <1>11, <1>17, <1>18, <1>19 DEF ids, added

\* The steps of a run leave the other runs alone.
Others(t) == \A u \in Tools \ {t} : tool'[u] = tool[u]

LEMMA Updated ==
    ASSUME HistoryTyped, NEW t \in Tools, NEW new, tool' = [tool EXCEPT ![t] = new]
    PROVE  tool'[t] = new /\ Others(t)
             /\ (new \in {IdleTool} \cup RunOfTool => tool' \in [Tools -> {IdleTool} \cup RunOfTool])
  BY DEF HistoryTyped, Others

\* A run of m takes a category that no one had.
Takes(t, m, c) ==
    /\ tool[t].pc = "scan" /\ tool[t].todo = {} /\ tool[t].model = m
    /\ m \notin DOMAIN tool[t].table.cats /\ hist[m].cat = 0
    /\ c = NextFree(tool[t].table)

\* Where the categories of category.yconf come from.
ConfFrom(t) ==
    \A m \in DOMAIN conf'.cats :
       \/ m \in DOMAIN conf.cats /\ conf'.cats[m] = conf.cats[m]
       \/ /\ tool[t].pc = "conf-store" /\ m \in DOMAIN tool[t].table.cats
          /\ conf'.cats[m] = tool[t].table.cats[m]

\* Where the categories of the files come from.
HistFrom(t) ==
    \A m \in Models : hist'[m].cat # 0 =>
       \/ hist'[m].cat = hist[m].cat
       \/ tool[t].pc = "store" /\ tool[t].model = m /\ hist'[m].cat = tool[t].cat

\* Where the categories of the table of a run come from.
TableFrom(t) ==
    /\ DOMAIN tool[t].table.cats \subseteq DOMAIN tool'[t].table.cats
    /\ \A m \in DOMAIN tool'[t].table.cats \cap Models :
          \/ m \in DOMAIN tool[t].table.cats /\ tool'[t].table.cats[m] = tool[t].table.cats[m]
          \/ hist[m].cat # 0 /\ tool'[t].table.cats[m] = hist[m].cat
          \/ Takes(t, m, tool'[t].table.cats[m]) /\ tool'[t].pc = "write"

\* A scan has read a file or will read it.
ScanFrom(t) ==
    tool'[t].pc = "scan" =>
       /\ tool[t].pc = "scan" /\ hist' = hist
       /\ \A m \in tool[t].todo \cup DOMAIN tool[t].table.cats :
             hist[m].cat # 0 => m \in tool'[t].todo \cup DOMAIN tool'[t].table.cats

Begins(t) ==
    /\ Others(t) /\ tool[t] = IdleTool /\ tool'[t] \in RunOfTool
    /\ UNCHANGED <<hist, conf, given, lost>>
    /\ overlaps' = overlaps \cup {{tool'[t].model, tool[u].model} : u \in Active}
    /\ tool'[t].pc = "scan" /\ tool'[t].todo = Listing /\ tool'[t].table.cats = conf.cats

Stops(t) ==
    /\ Others(t) /\ tool[t] \in RunOfTool /\ tool'[t] = IdleTool
    /\ UNCHANGED <<hist, given, overlaps>> /\ lost \subseteq lost'
    /\ ConfFrom(t)
    /\ tool[t].pc \in {"close", "store"} /\ tool[t].modified => tool[t].model \in lost'

CarriesOn(t) ==
    /\ Others(t) /\ tool[t] \in RunOfTool /\ tool'[t] \in RunOfTool
    /\ tool'[t].model = tool[t].model
    /\ UNCHANGED <<overlaps, lost>>
    /\ ConfFrom(t) /\ HistFrom(t) /\ TableFrom(t) /\ ScanFrom(t)

\* It goes on reading files.
Scans(t) == CarriesOn(t) /\ UNCHANGED <<hist, conf, given>> /\ tool'[t].pc = "scan"

Idles == UNCHANGED <<hist, conf, tool, given, overlaps, lost>>

LEMMA FailStops ==
    ASSUME HistoryTyped, NEW t \in Tools, tool[t].pc \in {"scan", "write"}, Fail(t)
    PROVE  HistoryTyped' /\ Stops(t)
  <1>1. tool[t] \in RunOfTool
    BY ActiveIs DEF Active
  <1>2. tool'[t] = IdleTool /\ Others(t)
    BY Updated DEF Fail
  <1>3. HistoryTyped'
    BY FailTyped
  <1> QED
    BY <1>1, <1>2, <1>3 DEF Fail, Stops, ConfFrom

LEMMA StartBegins ==
    ASSUME HistoryTyped, NEW t \in Tools, NEW m \in Models, Start(t, m)
    PROVE  HistoryTyped' /\ Begins(t)
  <1>1. HistoryTyped'
    BY StartTyped
  <1>2. t \notin Active /\ tool[t] = IdleTool
    BY DEF Active, Start, HistoryTyped, IdleTool, RunOfTool
  <1> DEFINE table == [start |-> conf.start, end |-> conf.end, auto |-> conf.auto,
                       cats |-> conf.cats, modified |-> FALSE, writes |-> conf.file # "none"]
             new == [pc |-> "scan", model |-> m, todo |-> Listing, again |-> conf.file = "text",
                     table |-> table, cat |-> 0, ids |-> Nothing, modified |-> FALSE]
  <1>3. tool' = [tool EXCEPT ![t] = new]
    BY DEF Start
  <1>4. tool'[t] = new /\ Others(t)
    BY <1>3, Updated
  <1>5. tool'[t].pc = "scan" /\ tool'[t].model = m /\ tool'[t].todo = Listing /\ tool'[t].table.cats = conf.cats
    BY <1>4
  <1>6. tool'[t] \in RunOfTool
    BY <1>1, <1>5 DEF HistoryTyped, IdleTool
  <1> QED
    BY <1>1, <1>2, <1>4, <1>5, <1>6 DEF Begins, Start

\* What reading a file adds to the table.
LEMMA NotedFrom ==
    ASSUME NEW table \in CatTable, NEW name \in Models \cup {Unnamed}, NEW f \in Book,
           Category(table, name, f) # 0
    PROVE  /\ DOMAIN Noted(table, name, f).cats = DOMAIN table.cats \cup {name}
           /\ \A k \in DOMAIN table.cats : Noted(table, name, f).cats[k] = table.cats[k]
           /\ Noted(table, name, f).cats[name] = Category(table, name, f)
  <1> DEFINE c == Category(table, name, f)
             g == Entry(name, c)
             h == table.cats
  <1>1. Noted(table, name, f).cats = Over(h, g)
    BY CategoryTyped
  <1>2. DOMAIN g = {name} /\ g[name] = c
    BY DEF Entry
  <1>3. DOMAIN Over(h, g) = DOMAIN h \cup DOMAIN g
        /\ (\A n \in DOMAIN h : Over(h, g)[n] = h[n])
        /\ \A n \in DOMAIN g : n \notin DOMAIN h => Over(h, g)[n] = g[n]
    BY OverIs, Zenon
  <1>4. name \in DOMAIN h => c = h[name]
    BY DEF Category
  <1> HIDE DEF c, g, h
  <1>5. Over(h, g)[name] = c
    BY <1>2, <1>3, <1>4
  <1> QED
    BY <1>1, <1>2, <1>3, <1>5 DEF c, h

LEMMA ScanGoesOn ==
    ASSUME HistoryTyped, NEW t \in Tools, NEW m \in Models, ScanHist(t, m)
    PROVE  HistoryTyped' /\ (Stops(t) \/ Scans(t))
  <1>0. HistoryTyped' /\ tool[t].pc = "scan"
    BY ScanTyped DEF ScanHist
  <1>1. CASE Fail(t)
    <2>1. tool[t].pc \in {"scan", "write"}
      BY <1>0
    <2> QED
      BY <2>1, <1>1, FailStops
  <1>2. CASE ~Fail(t)
    <2> DEFINE table == tool[t].table
               name == NameIn(m)
               c == Category(table, name, hist[m])
               new == Noted(table, name, hist[m])
    <2>1. tool[t] \in RunOfTool
      BY ActiveIs DEF ScanHist, Active
    <2>2. table \in CatTable /\ hist[m] \in Book /\ name \in Models \cup {Unnamed}
      BY <2>1 DEF HistoryTyped, RunOfTool, NameIn
    <2>3. c # 0 /\ UNCHANGED <<hist, conf, header, runs, given, overlaps, lost>>
      BY <1>2 DEF ScanHist
    <2>4. tool' = [tool EXCEPT ![t].table = new, ![t].todo = @ \ {m}]
      BY <1>2 DEF ScanHist
    <2>5. Others(t)
      BY <2>4 DEF HistoryTyped, Others
    <2>6. tool'[t].pc = "scan" /\ tool'[t].model = tool[t].model /\ tool'[t].table = new
          /\ tool'[t].todo = tool[t].todo \ {m}
      <3> HIDE DEF new
      <3> QED
        BY <1>0, <2>1, <2>4 DEF RunOfTool, HistoryTyped
    <2>7. tool'[t] \in RunOfTool
      BY <1>0, <2>6 DEF HistoryTyped, IdleTool
    <2>8. DOMAIN new.cats = DOMAIN table.cats \cup {name}
          /\ (\A k \in DOMAIN table.cats : new.cats[k] = table.cats[k]) /\ new.cats[name] = c
      BY <2>2, <2>3, NotedFrom
    <2>9. Unnamed \notin Models
      BY HistoryAssumption DEF Unnamed
    <2>10. name \in Models => name = m /\ hist[m].cat # 0
      BY <2>9 DEF NameIn
    <2>11. hist[m].cat # 0 => name = m
      BY DEF NameIn
    <2>12. name \notin DOMAIN table.cats /\ hist[m].cat # 0 => c = hist[m].cat
      BY DEF Category
    <2> HIDE DEF name, c, new
    <2>13. ConfFrom(t) /\ HistFrom(t)
      BY <2>3 DEF ConfFrom, HistFrom
    <2>14. TableFrom(t)
      BY <2>6, <2>8, <2>10, <2>12 DEF TableFrom
    <2>15. ScanFrom(t)
      BY <1>0, <2>3, <2>6, <2>8, <2>11 DEF ScanFrom
    <2> QED
      BY <1>0, <2>1, <2>3, <2>5, <2>6, <2>7, <2>13, <2>14, <2>15 DEF CarriesOn, Scans
  <1> QED
    BY <1>1, <1>2

LEMMA RescanGoesOn ==
    ASSUME HistoryTyped, NEW t \in Tools, Rescan(t)
    PROVE  HistoryTyped' /\ Scans(t)
  <1>1. tool[t] \in RunOfTool /\ tool[t].pc = "scan"
    BY ActiveIs DEF Rescan, Active
  <1>2. UNCHANGED <<hist, conf, header, runs, given, overlaps, lost>>
    BY DEF Rescan
  <1>3. tool' = [tool EXCEPT ![t].todo = Listing, ![t].again = FALSE]
    BY DEF Rescan
  <1>4. Others(t)
    BY <1>3 DEF HistoryTyped, Others
  <1>5. tool'[t].pc = "scan" /\ tool'[t].model = tool[t].model /\ tool'[t].table = tool[t].table
        /\ tool'[t].todo = Listing
    BY <1>1, <1>3 DEF RunOfTool, HistoryTyped
  <1>6. Listing \in SUBSET Models
    BY DEF Listing
  <1>7. tool'[t] \in RunOfTool
    <2> HIDE DEF Listing
    <2> QED
      BY <1>1, <1>3, <1>6 DEF HistoryTyped, RunOfTool
  <1>8. tool' \in [Tools -> {IdleTool} \cup RunOfTool]
    BY <1>3, <1>7 DEF HistoryTyped
  <1>9. HistoryTyped'
    BY <1>2, <1>8 DEF HistoryTyped
  <1>10. ConfFrom(t) /\ HistFrom(t)
    BY <1>2 DEF ConfFrom, HistFrom
  <1>11. TableFrom(t)
    BY <1>5 DEF TableFrom
  <1>12. \A m \in Models : hist[m].cat # 0 => m \in Listing
    BY DEF Listing, HistoryTyped
  <1>13. tool[t].todo \subseteq Models /\ tool[t].table.cats \in Partial(Models \cup {Unnamed}, Nat \ {0})
    BY <1>1 DEF RunOfTool, CatTable
  <1>15. ScanFrom(t)
    BY <1>1, <1>2, <1>5, <1>12, <1>13 DEF ScanFrom
  <1> QED
    BY <1>1, <1>2, <1>4, <1>5, <1>7, <1>9, <1>10, <1>11, <1>15 DEF CarriesOn, Scans

\* The run of a model has its category.
SetsUp(t) ==
    LET m == tool[t].model
        kept == KeepsIds(tool[t].table, m, hist[m])
    IN  /\ CarriesOn(t) /\ UNCHANGED <<hist, conf, given>>
        /\ tool[t].pc = "scan" /\ tool'[t].pc = "write"
        /\ m \in DOMAIN tool'[t].table.cats /\ tool'[t].table.cats[m] = tool'[t].cat
        /\ tool'[t].cat = Category(tool[t].table, m, hist[m]) /\ tool'[t].cat # 0
        /\ tool'[t].ids = IF kept THEN hist[m].ids ELSE Nothing
        /\ tool'[t].modified <=> ~kept

LEMMA SetupGoesOn ==
    ASSUME HistoryTyped, NEW t \in Tools, Setup(t)
    PROVE  HistoryTyped' /\ (Stops(t) \/ SetsUp(t))
  <1>0. HistoryTyped' /\ tool[t].pc = "scan" /\ tool[t].todo = {}
    BY SetupTyped DEF Setup
  <1>1. CASE Fail(t)
    <2>1. tool[t].pc \in {"scan", "write"}
      BY <1>0
    <2> QED
      BY <2>1, <1>1, FailStops
  <1>2. CASE ~Fail(t)
    <2> DEFINE table == tool[t].table
               m == tool[t].model
               f == hist[m]
               c == Category(table, m, f)
               new == Noted(table, m, f)
               kept == KeepsIds(table, m, f)
    <2>1. tool[t] \in RunOfTool
      BY ActiveIs DEF Setup, Active
    <2>2. table \in CatTable /\ m \in Models /\ f \in Book
      BY <2>1 DEF HistoryTyped, RunOfTool
    <2>3. c # 0 /\ UNCHANGED <<hist, conf, header, runs, given, overlaps, lost>>
      BY <1>2 DEF Setup
    <2>4. tool' = [tool EXCEPT ![t].pc = "write", ![t].table = new, ![t].cat = c,
                               ![t].ids = IF kept THEN f.ids ELSE Nothing,
                               ![t].modified = ~kept]
      BY <1>2 DEF Setup
    <2>5. Others(t)
      BY <2>4 DEF HistoryTyped, Others
    <2>6. /\ tool'[t].pc = "write" /\ tool'[t].model = tool[t].model /\ tool'[t].table = new
          /\ tool'[t].cat = c /\ tool'[t].ids = (IF kept THEN f.ids ELSE Nothing)
          /\ tool'[t].modified = ~kept
      <3> HIDE DEF new, kept, c, f
      <3> QED
        BY <2>1, <2>4 DEF RunOfTool, HistoryTyped
    <2>7. tool'[t] \in RunOfTool
      BY <1>0, <2>6 DEF HistoryTyped, IdleTool
    <2>8. DOMAIN new.cats = DOMAIN table.cats \cup {m}
          /\ (\A k \in DOMAIN table.cats : new.cats[k] = table.cats[k]) /\ new.cats[m] = c
      BY <2>2, <2>3, NotedFrom
    <2>9. m \notin DOMAIN table.cats /\ f.cat # 0 => c = f.cat
      BY DEF Category
    <2>10. m \notin DOMAIN table.cats /\ f.cat = 0 => c = NextFree(table)
      BY DEF Category
    <2>11. ConfFrom(t) /\ HistFrom(t)
      BY <2>3 DEF ConfFrom, HistFrom
    <2>12. ScanFrom(t)
      BY <2>6 DEF ScanFrom
    <2>13. TableFrom(t)
      <3> HIDE DEF c, new
      <3> QED
        BY <1>0, <2>6, <2>8, <2>9, <2>10 DEF TableFrom, Takes
    <2>14. CarriesOn(t)
      BY <2>1, <2>3, <2>5, <2>6, <2>7, <2>11, <2>12, <2>13 DEF CarriesOn
    <2>15. m \in DOMAIN tool'[t].table.cats /\ tool'[t].table.cats[m] = tool'[t].cat
      <3> HIDE DEF c, new
      <3> QED
        BY <2>6, <2>8
    <2>16. tool'[t].modified <=> ~kept
      BY <2>6, Zenon
    <2> HIDE DEF kept
    <2> QED
      BY <1>0, <2>3, <2>6, <2>14, <2>15, <2>16 DEF SetsUp, kept
  <1> QED
    BY <1>1, <1>2

LEMMA SameTable ==
    ASSUME HistoryTyped, NEW t \in Tools, tool[t] \in RunOfTool, tool[t].pc # "scan",
           tool'[t].pc # "scan", tool'[t].table = tool[t].table
    PROVE  TableFrom(t) /\ ScanFrom(t)
  BY DEF TableFrom, ScanFrom

\* The header of a model is printed.
Prints(t) ==
    LET m == tool[t].model
    IN  /\ CarriesOn(t) /\ UNCHANGED <<hist, conf>>
        /\ tool[t].pc = "write" /\ tool'[t].pc = "close"
        /\ tool'[t].table = tool[t].table /\ tool'[t].cat = tool[t].cat
        /\ Numbered(tool'[t].ids, tool'[t].cat)
        /\ Contains(tool'[t].ids, tool[t].ids)
        /\ \A k \in Models \ {m} : given'[k] = given[k]
        /\ \A n \in DOMAIN given'[m] :
              \/ n \in DOMAIN tool'[t].ids /\ given'[m][n] = tool'[t].ids[n]
              \/ n \in DOMAIN given[m] /\ given'[m][n] = given[m][n]
        /\ ~tool'[t].modified => ~tool[t].modified /\ tool'[t].ids = tool[t].ids

LEMMA HeaderGoesOn ==
    ASSUME HistoryTyped, NEW t \in Tools, NEW content \in Contents, GenerateHeader(t, content),
           Numbered(tool[t].ids, tool[t].cat)
    PROVE  HistoryTyped' /\ (Stops(t) \/ Prints(t))
  <1>0. tool[t].pc = "write" /\ tool[t] \in RunOfTool
    BY ActiveIs DEF GenerateHeader, Active
  <1>1. CASE Fail(t)
    <2>1. tool[t].pc \in {"scan", "write"}
      BY <1>0
    <2> QED
      BY <2>1, <1>1, FailStops
  <1>2. CASE ~Fail(t)
    <2> DEFINE m == tool[t].model
               old == tool[t].ids
               added == content \ DOMAIN old
               cat == tool[t].cat
               first == NextIndex(cat, old)
    <2>1. m \in Models /\ old \in Partial(Names, Nat) /\ cat \in Nat /\ tool[t].modified \in BOOLEAN
      BY <1>0 DEF RunOfTool
    <2>0. Numbered(old, cat)
      OBVIOUS
    <2>2. added = {} \/ ~(first + Cardinality(added) > (cat + 1) * Span)
      BY <1>2 DEF GenerateHeader
    <2>3. PICK new \in Bijection(added, first .. first + Cardinality(added) - 1) :
             LET ids == Over(old, new)
                 shown == Restrict(ids, content)
             IN  /\ header' = [header EXCEPT ![m] = shown]
                 /\ given' = [given EXCEPT ![m] = Over(shown, @)]
                 /\ tool' = [tool EXCEPT ![t].pc = "close", ![t].ids = ids,
                                         ![t].modified = @ \/ added # {}]
                 /\ UNCHANGED <<hist, conf, runs, overlaps, lost>>
      BY <1>2 DEF GenerateHeader
    <2> DEFINE ids == Over(old, new)
               shown == Restrict(ids, content)
    <2>4. added = {} \/ first + Cardinality(added) <= (cat + 1) * Span
      <3>1. IsFiniteSet(content) /\ added \subseteq content
        BY HistoryAssumption
      <3>2. Cardinality(added) \in Nat
        BY <3>1, FS_Subset, FS_CardinalityType
      <3>3. first \in Nat
        BY <2>1, NextIndexIs
      <3>4. (cat + 1) * Span \in Nat
        BY <2>1, SpanTimes
      <3> HIDE DEF added, first
      <3> QED
        BY <2>2, <3>2, <3>3, <3>4
    <2>5. /\ ids \in Partial(Names, Nat) /\ Numbered(ids, cat)
          /\ DOMAIN ids = DOMAIN old \cup content
          /\ \A n \in DOMAIN old : ids[n] = old[n]
          /\ added = {} => ids = old
      <3>1. content \ DOMAIN old = {}
              \/ NextIndex(cat, old) + Cardinality(content \ DOMAIN old) <= (cat + 1) * Span
        BY <2>4
      <3>2. new \in Bijection(content \ DOMAIN old,
                   NextIndex(cat, old) .. NextIndex(cat, old) + Cardinality(content \ DOMAIN old) - 1)
        BY <2>3
      <3> HIDE DEF old, cat
      <3>3. /\ Over(old, new) \in Partial(Names, Nat)
            /\ Numbered(Over(old, new), cat)
            /\ DOMAIN Over(old, new) = DOMAIN old \cup content
            /\ \A n \in DOMAIN old : Over(old, new)[n] = old[n]
            /\ content \ DOMAIN old = {} => Over(old, new) = old
        BY <2>1, <2>0, <3>1, <3>2, NewNumbers
      <3> QED
        BY <3>3
    <2>6. /\ given' = [given EXCEPT ![m] = Over(shown, @)]
          /\ tool' = [tool EXCEPT ![t].pc = "close", ![t].ids = ids,
                                  ![t].modified = @ \/ added # {}]
          /\ UNCHANGED <<hist, conf, runs, overlaps, lost>>
      BY <2>3
    <2> HIDE DEF ids
    <2>7. DOMAIN shown = content /\ (\A n \in content : shown[n] = ids[n]) /\ shown \in Partial(Names, Nat)
      <3>1. content \in SUBSET DOMAIN ids /\ content \subseteq Names
        BY <2>5 DEF Names
      <3> QED
        BY <2>5, <3>1, RestrictPartial
    <2> HIDE DEF shown
    <2>8. given[m] \in Partial(Names, Nat)
      BY <2>1 DEF HistoryTyped
    <2>9. Over(shown, given[m]) \in Partial(Names, Nat)
      BY <2>7, <2>8, OverPartial
    <2>10. given' \in [Models -> Partial(Names, Nat)]
      BY <2>1, <2>6, <2>9 DEF HistoryTyped
    <2>11. given'[m] = Over(shown, given[m]) /\ \A k \in Models \ {m} : given'[k] = given[k]
      BY <2>1, <2>6 DEF HistoryTyped
    <2>12. DOMAIN Over(shown, given[m]) = DOMAIN shown \cup DOMAIN given[m]
          /\ (\A n \in DOMAIN shown : Over(shown, given[m])[n] = shown[n])
          /\ \A n \in DOMAIN given[m] : n \notin DOMAIN shown => Over(shown, given[m])[n] = given[m][n]
      BY OverIs, Zenon
    <2>13. Others(t)
      BY <2>6 DEF HistoryTyped, Others
    <2> HIDE DEF added
    <2>14. /\ tool'[t].pc = "close" /\ tool'[t].model = tool[t].model /\ tool'[t].table = tool[t].table
           /\ tool'[t].cat = cat /\ tool'[t].ids = ids
           /\ tool'[t].modified = (tool[t].modified \/ added # {})
      BY <1>0, <2>6 DEF RunOfTool, HistoryTyped
    <2>15. tool'[t] \in RunOfTool
      BY <1>0, <2>1, <2>5, <2>6 DEF HistoryTyped, RunOfTool
    <2>16. tool' \in [Tools -> {IdleTool} \cup RunOfTool]
      BY <2>6, <2>15 DEF HistoryTyped
    <2>17. HistoryTyped'
      BY <2>6, <2>10, <2>16 DEF HistoryTyped
    <2>18. ConfFrom(t) /\ HistFrom(t)
      BY <2>6 DEF ConfFrom, HistFrom
    <2>19. TableFrom(t) /\ ScanFrom(t)
      BY <1>0, <2>14, SameTable
    <2>20. CarriesOn(t)
      BY <1>0, <2>6, <2>13, <2>14, <2>15, <2>18, <2>19 DEF CarriesOn
    <2>21. ~tool'[t].modified => ~tool[t].modified /\ tool'[t].ids = tool[t].ids
      BY <2>5, <2>14
    <2>22. Contains(tool'[t].ids, tool[t].ids)
      BY <2>5, <2>14 DEF Contains
    <2>23. \A n \in DOMAIN given'[m] :
              \/ n \in DOMAIN tool'[t].ids /\ given'[m][n] = tool'[t].ids[n]
              \/ n \in DOMAIN given[m] /\ given'[m][n] = given[m][n]
      BY <2>5, <2>7, <2>11, <2>12, <2>14
    <2>24. Numbered(tool'[t].ids, tool'[t].cat)
      BY <2>5, <2>14
    <2>25. UNCHANGED <<hist, conf>>
      BY <2>6
    <2>26. Prints(t)
      BY <1>0, <2>11, <2>14, <2>20, <2>21, <2>22, <2>23, <2>24, <2>25 DEF Prints
    <2> QED
      BY <2>17, <2>26
  <1> QED
    BY <1>1, <1>2

\* The file of a model is rewritten, in two steps.
Empties(t) ==
    LET m == tool[t].model
    IN  /\ CarriesOn(t) /\ UNCHANGED <<conf, given>>
        /\ tool[t].pc = "close"
        /\ tool'[t].table = tool[t].table /\ tool'[t].cat = tool[t].cat
        /\ tool'[t].ids = tool[t].ids /\ tool'[t].modified = tool[t].modified
        /\ \A k \in Models \ {m} : hist'[k] = hist[k]
        /\ \/ tool[t].modified /\ tool'[t].pc = "store" /\ hist'[m] = TornHistory
           \/ ~tool[t].modified /\ tool'[t].pc = "conf" /\ hist'[m] = hist[m]

Stores(t) ==
    LET m == tool[t].model
    IN  /\ CarriesOn(t) /\ UNCHANGED <<conf, given>>
        /\ tool[t].pc = "store" /\ tool'[t].pc = "conf"
        /\ tool'[t].table = tool[t].table /\ tool'[t].cat = tool[t].cat
        /\ tool'[t].ids = tool[t].ids /\ tool'[t].modified = tool[t].modified
        /\ \A k \in Models \ {m} : hist'[k] = hist[k]
        /\ hist'[m].cat = tool[t].cat /\ hist'[m].ids = tool[t].ids

LEMMA OpenGoesOn ==
    ASSUME HistoryTyped, NEW t \in Tools, OpenHistory(t)
    PROVE  HistoryTyped' /\ Empties(t)
  <1>0. tool[t].pc = "close" /\ tool[t] \in RunOfTool
    BY ActiveIs DEF OpenHistory, Active
  <1> DEFINE m == tool[t].model
             place == IF tool[t].modified THEN "store" ELSE "conf"
  <1>1. m \in Models /\ tool[t].modified \in BOOLEAN
    BY <1>0 DEF RunOfTool
  <1>2. /\ tool' = [tool EXCEPT ![t].pc = place]
        /\ hist' = IF tool[t].modified THEN [hist EXCEPT ![m] = TornHistory] ELSE hist
        /\ UNCHANGED <<conf, header, runs, given, overlaps, lost>>
    BY DEF OpenHistory
  <1>3. /\ tool'[t].pc = place /\ tool'[t].model = tool[t].model /\ tool'[t].table = tool[t].table
        /\ tool'[t].cat = tool[t].cat /\ tool'[t].ids = tool[t].ids
        /\ tool'[t].modified = tool[t].modified
    <2> HIDE DEF place
    <2> QED
      BY <1>0, <1>2 DEF RunOfTool, HistoryTyped
  <1>4. tool'[t] \in RunOfTool
    BY <1>0, <1>1, <1>2 DEF HistoryTyped, RunOfTool
  <1>5. tool' \in [Tools -> {IdleTool} \cup RunOfTool]
    BY <1>2, <1>4 DEF HistoryTyped
  <1>6. Others(t)
    BY <1>2 DEF HistoryTyped, Others
  <1>7. TornHistory \in Book /\ TornHistory.cat = 0 /\ TornHistory.ids = Nothing /\ TornHistory.file
    BY NothingPartial DEF TornHistory, Book
  <1>8. /\ hist' \in [Models -> Book]
        /\ \A k \in Models \ {m} : hist'[k] = hist[k]
        /\ hist'[m] = IF tool[t].modified THEN TornHistory ELSE hist[m]
    BY <1>1, <1>2, <1>7 DEF HistoryTyped
  <1>9. \A k \in Models : (hist'[k].file \/ hist'[k].cat = 0) /\ (hist'[k].cat = 0 => hist'[k].ids = Nothing)
    BY <1>7, <1>8 DEF HistoryTyped
  <1>10. HistoryTyped'
    BY <1>2, <1>5, <1>8, <1>9 DEF HistoryTyped
  <1>11. ConfFrom(t)
    BY <1>2 DEF ConfFrom
  <1>12. HistFrom(t)
    BY <1>7, <1>8 DEF HistFrom
  <1>13. TableFrom(t) /\ ScanFrom(t)
    BY <1>0, <1>3, SameTable
  <1>14. CarriesOn(t)
    BY <1>0, <1>2, <1>3, <1>4, <1>6, <1>11, <1>12, <1>13 DEF CarriesOn
  <1> QED
    BY <1>0, <1>1, <1>2, <1>3, <1>8, <1>10, <1>14 DEF Empties

LEMMA StoreGoesOn ==
    ASSUME HistoryTyped, NEW t \in Tools, StoreHistory(t), tool[t].cat # 0
    PROVE  HistoryTyped' /\ Stores(t)
  <1>0. tool[t].pc = "store" /\ tool[t] \in RunOfTool
    BY ActiveIs DEF StoreHistory, Active
  <1> DEFINE m == tool[t].model
             new == [file |-> TRUE, cat |-> tool[t].cat, ids |-> tool[t].ids]
  <1>1. m \in Models /\ new \in Book
    BY <1>0 DEF RunOfTool, Book
  <1>2. /\ tool' = [tool EXCEPT ![t].pc = "conf"]
        /\ hist' = [hist EXCEPT ![m] = new]
        /\ UNCHANGED <<conf, header, runs, given, overlaps, lost>>
    BY DEF StoreHistory
  <1>3. /\ tool'[t].pc = "conf" /\ tool'[t].model = tool[t].model /\ tool'[t].table = tool[t].table
        /\ tool'[t].cat = tool[t].cat /\ tool'[t].ids = tool[t].ids
        /\ tool'[t].modified = tool[t].modified
    BY <1>0, <1>2 DEF RunOfTool, HistoryTyped
  <1>4. tool'[t] \in RunOfTool
    BY <1>0, <1>2 DEF HistoryTyped, RunOfTool
  <1>5. tool' \in [Tools -> {IdleTool} \cup RunOfTool]
    BY <1>2, <1>4 DEF HistoryTyped
  <1>6. Others(t)
    BY <1>2 DEF HistoryTyped, Others
  <1>7. new.file /\ new.cat = tool[t].cat /\ new.ids = tool[t].ids
    OBVIOUS
  <1> HIDE DEF new
  <1>8. /\ hist' \in [Models -> Book]
        /\ \A k \in Models \ {m} : hist'[k] = hist[k]
        /\ hist'[m] = new
    BY <1>1, <1>2 DEF HistoryTyped
  <1>9. \A k \in Models : (hist'[k].file \/ hist'[k].cat = 0) /\ (hist'[k].cat = 0 => hist'[k].ids = Nothing)
    BY <1>7, <1>8 DEF HistoryTyped
  <1>10. HistoryTyped'
    BY <1>2, <1>5, <1>8, <1>9 DEF HistoryTyped
  <1>11. ConfFrom(t)
    BY <1>2 DEF ConfFrom
  <1>12. HistFrom(t)
    BY <1>0, <1>7, <1>8 DEF HistFrom
  <1>13. TableFrom(t) /\ ScanFrom(t)
    BY <1>0, <1>3, SameTable
  <1>14. CarriesOn(t)
    BY <1>0, <1>2, <1>3, <1>4, <1>6, <1>11, <1>12, <1>13 DEF CarriesOn
  <1> QED
    BY <1>0, <1>1, <1>2, <1>3, <1>7, <1>8, <1>10, <1>14 DEF Stores

\* category.yconf is emptied.
EmptiesConf(t) ==
    /\ CarriesOn(t) /\ UNCHANGED <<hist, given>>
    /\ tool[t].pc = "conf" /\ tool'[t].pc = "conf-store"
    /\ tool'[t].table = tool[t].table /\ tool'[t].cat = tool[t].cat
    /\ tool'[t].ids = tool[t].ids /\ tool'[t].modified = tool[t].modified

LEMMA OpenConfGoesOn ==
    ASSUME HistoryTyped, NEW t \in Tools, OpenConf(t)
    PROVE  HistoryTyped' /\ (Stops(t) \/ EmptiesConf(t))
  <1>0. tool[t].pc = "conf" /\ tool[t] \in RunOfTool
    BY ActiveIs DEF OpenConf, Active
  <1> DEFINE writes == tool[t].table.writes /\ tool[t].table.modified
  <1>1. UNCHANGED <<hist, header, runs, given, overlaps, lost>>
    BY DEF OpenConf
  <1>2. CASE writes
    <2> DEFINE new == [tool[t] EXCEPT !.pc = "conf-store"]
               empty == [NoConf EXCEPT !.file = "empty"]
    <2>1. tool' = [tool EXCEPT ![t] = new] /\ conf' = empty
      BY <1>2 DEF OpenConf, HistoryTyped
    <2>2. new \in RunOfTool /\ new.pc = "conf-store" /\ new.model = tool[t].model
          /\ new.table = tool[t].table /\ new.cat = tool[t].cat /\ new.ids = tool[t].ids
          /\ new.modified = tool[t].modified
      BY <1>0 DEF RunOfTool
    <2> HIDE DEF new
    <2>3. tool'[t] = new /\ Others(t) /\ tool' \in [Tools -> {IdleTool} \cup RunOfTool]
      BY <2>1, <2>2, Updated
    <2>4. conf'.start \in Nat /\ conf'.end \in Nat /\ conf'.auto \in BOOLEAN /\ conf'.cats = Nothing
      BY <2>1 DEF NoConf
    <2>5. conf'.cats \in Partial(Models, Nat \ {0}) /\ DOMAIN conf'.cats = {}
      BY <2>4, NothingPartial
    <2>6. HistoryTyped'
      BY <1>1, <2>3, <2>4, <2>5 DEF HistoryTyped
    <2>7. ConfFrom(t) /\ HistFrom(t)
      BY <1>1, <2>5 DEF ConfFrom, HistFrom
    <2>8. TableFrom(t) /\ ScanFrom(t)
      BY <1>0, <2>2, <2>3, SameTable
    <2> QED
      BY <1>0, <1>1, <2>2, <2>3, <2>6, <2>7, <2>8 DEF EmptiesConf, CarriesOn
  <1>3. CASE ~writes
    <2>1. tool' = [tool EXCEPT ![t] = IdleTool] /\ conf' = conf
      BY <1>3 DEF OpenConf
    <2>2. tool'[t] = IdleTool /\ Others(t) /\ tool' \in [Tools -> {IdleTool} \cup RunOfTool]
      BY <2>1, Updated
    <2>3. HistoryTyped'
      BY <1>1, <2>1, <2>2 DEF HistoryTyped
    <2> QED
      BY <1>0, <1>1, <2>1, <2>2, <2>3 DEF Stops, ConfFrom
  <1> QED
    BY <1>2, <1>3

LEMMA StoreConfStops ==
    ASSUME HistoryTyped, NEW t \in Tools, StoreConf(t)
    PROVE  HistoryTyped' /\ Stops(t)
  <1>0. tool[t].pc = "conf-store" /\ tool[t] \in RunOfTool
    BY ActiveIs DEF StoreConf, Active
  <1>1. UNCHANGED <<hist, header, runs, given, overlaps, lost>>
    BY DEF StoreConf
  <1> DEFINE table == tool[t].table
             D == DOMAIN table.cats \ {Unnamed}
             named == Restrict(table.cats, D)
             S == {table.end} \cup Range(table.cats)
  <1>2. table.start \in Nat /\ table.end \in Nat /\ table.cats \in Partial(Models \cup {Unnamed}, Nat \ {0})
    BY <1>0 DEF RunOfTool, CatTable
  <1>3. tool' = [tool EXCEPT ![t] = IdleTool]
    BY DEF StoreConf
  <1>4. /\ conf'.start = table.start /\ conf'.end = Max(S) /\ conf'.auto = TRUE
        /\ conf'.cats = named
    BY DEF StoreConf
  <1>5. tool'[t] = IdleTool /\ Others(t) /\ tool' \in [Tools -> {IdleTool} \cup RunOfTool]
    BY <1>3, Updated
  <1>6. table.cats \in [DOMAIN table.cats -> Nat \ {0}] /\ DOMAIN table.cats \subseteq Models \cup {Unnamed}
    BY <1>2, PartialIs
  <1>7. D \in SUBSET DOMAIN table.cats /\ D \subseteq Models
    BY <1>6
  <1>8. DOMAIN named = D /\ (\A k \in D : named[k] = table.cats[k]) /\ named \in Partial(Models, Nat \ {0})
    BY <1>2, <1>7, RestrictPartial
  <1>9. Max(S) \in Nat
    <2>1. Range(table.cats) \in SUBSET Nat
      BY <1>6 DEF Range
    <2>2. IsFiniteSet(Range(table.cats))
      <3>1. IsFiniteSet(Models \cup {Unnamed})
        BY HistoryAssumption, FS_AddElement
      <3>2. IsFiniteSet(DOMAIN table.cats)
        BY <3>1, <1>6, FS_Subset
      <3> DEFINE f == table.cats
      <3>3. f \in Surjection(DOMAIN f, Range(f))
        BY <1>6 DEF Surjection, Range
      <3> HIDE DEF f
      <3>4. IsFiniteSet(Range(f))
        BY <3>2, <3>3, FS_Surjection DEF f
      <3> QED
        BY <3>4 DEF f
    <2>3. IsFiniteSet(Range(table.cats) \cup {table.end})
      BY <2>2, FS_AddElement
    <2>4. S = Range(table.cats) \cup {table.end}
      OBVIOUS
    <2>5. IsFiniteSet(S) /\ S \in SUBSET Nat /\ S # {}
      BY <1>2, <2>1, <2>3, <2>4
    <2> HIDE DEF S
    <2>6. PICK b \in Nat : \A x \in S : x <= b
      BY <2>5, FiniteBounded
    <2>7. Max(S) \in S
      BY <2>5, <2>6, BoundedMax
    <2> QED
      BY <2>5, <2>7
  <1> HIDE DEF named, S, D
  <1>10. HistoryTyped'
    BY <1>1, <1>2, <1>4, <1>5, <1>8, <1>9 DEF HistoryTyped
  <1>11. ConfFrom(t)
    BY <1>0, <1>4, <1>7, <1>8 DEF ConfFrom
  <1> QED
    BY <1>0, <1>1, <1>5, <1>10, <1>11 DEF Stops

LEMMA CrashStops ==
    ASSUME HistoryTyped, NEW t \in Tools, Crash(t)
    PROVE  HistoryTyped' /\ Stops(t)
  <1>0. tool[t] \in RunOfTool
    BY ActiveIs DEF Crash, Active
  <1>1. UNCHANGED <<hist, conf, header, runs, given, overlaps>> /\ tool' = [tool EXCEPT ![t] = IdleTool]
    BY DEF Crash
  <1>2. tool'[t] = IdleTool /\ Others(t) /\ tool' \in [Tools -> {IdleTool} \cup RunOfTool]
    BY <1>1, Updated
  <1>3. tool[t].model \in Models
    BY <1>0 DEF RunOfTool
  <1>4. /\ lost \subseteq lost' /\ lost' \in SUBSET Models
        /\ tool[t].pc \in {"close", "store"} /\ tool[t].modified => tool[t].model \in lost'
    BY <1>3 DEF Crash, HistoryTyped
  <1>5. HistoryTyped'
    BY <1>1, <1>2, <1>4 DEF HistoryTyped
  <1> QED
    BY <1>0, <1>1, <1>2, <1>4, <1>5 DEF Stops, ConfFrom

\* What a run may do in a step.
RunStep(t) ==
    \/ Begins(t) \/ Stops(t) \/ Scans(t) \/ SetsUp(t) \/ Prints(t)
    \/ Empties(t) \/ Stores(t) \/ EmptiesConf(t)

LEMMA StepIs ==
    ASSUME HistoryTyped, OwnEntry, AllNumbered, [HistoryNext]_histVars
    PROVE  HistoryTyped' /\ (Idles \/ \E t \in Tools : RunStep(t))
  <1> USE DEF RunStep
  <1>1. CASE UNCHANGED histVars
    BY <1>1 DEF histVars, Idles, HistoryTyped
  <1>2. ASSUME NEW m \in Models, StartRefused(m) PROVE HistoryTyped' /\ Idles
    BY <1>2 DEF StartRefused, Idles, HistoryTyped
  <1>3. ASSUME NEW t \in Tools, NEW m \in Models, Start(t, m) PROVE HistoryTyped' /\ RunStep(t)
    BY <1>3, StartBegins
  <1>4. ASSUME NEW t \in Tools, NEW m \in Models, ScanHist(t, m) PROVE HistoryTyped' /\ RunStep(t)
    BY <1>4, ScanGoesOn
  <1>5. ASSUME NEW t \in Tools, Rescan(t) PROVE HistoryTyped' /\ RunStep(t)
    BY <1>5, RescanGoesOn
  <1>6. ASSUME NEW t \in Tools, Setup(t) PROVE HistoryTyped' /\ RunStep(t)
    BY <1>6, SetupGoesOn
  <1>7. ASSUME NEW t \in Tools, NEW content \in Contents, GenerateHeader(t, content)
        PROVE  HistoryTyped' /\ RunStep(t)
    <2>1. Numbered(tool[t].ids, tool[t].cat)
      BY <1>7 DEF GenerateHeader, AllNumbered, HasCategory, Active
    <2> QED
      BY <1>7, <2>1, HeaderGoesOn
  <1>8. ASSUME NEW t \in Tools, OpenHistory(t) PROVE HistoryTyped' /\ RunStep(t)
    BY <1>8, OpenGoesOn
  <1>9. ASSUME NEW t \in Tools, StoreHistory(t) PROVE HistoryTyped' /\ RunStep(t)
    <2>1. tool[t].cat # 0
      BY <1>9 DEF StoreHistory, OwnEntry, HasCategory, Active
    <2> QED
      BY <1>9, <2>1, StoreGoesOn
  <1>10. ASSUME NEW t \in Tools, OpenConf(t) PROVE HistoryTyped' /\ RunStep(t)
    BY <1>10, OpenConfGoesOn
  <1>11. ASSUME NEW t \in Tools, StoreConf(t) PROVE HistoryTyped' /\ RunStep(t)
    BY <1>11, StoreConfStops
  <1>12. ASSUME NEW t \in Tools, Crash(t) PROVE HistoryTyped' /\ RunStep(t)
    BY <1>12, CrashStops
  <1> HIDE DEF RunStep
  <1> QED
    BY <1>1, <1>2, <1>3, <1>4, <1>5, <1>6, <1>7, <1>8, <1>9, <1>10, <1>11, <1>12 DEF HistoryNext

\* A step begins a run, ends it or goes on with it.
LEMMA StepKinds ==
    ASSUME NEW t \in Tools, RunStep(t)
    PROVE  Begins(t) \/ Stops(t) \/ CarriesOn(t)
  BY DEF RunStep, Scans, SetsUp, Prints, Empties, Stores, EmptiesConf

LEMMA ActiveThen ==
    ASSUME HistoryTyped, HistoryTyped', NEW t \in Tools, Begins(t) \/ Stops(t) \/ CarriesOn(t)
    PROVE  /\ \A u \in Tools : u # t => tool'[u] = tool[u] /\ (u \in Active' <=> u \in Active)
           /\ Begins(t) => t \notin Active /\ t \in Active'
           /\ Stops(t) => t \in Active /\ t \notin Active'
           /\ CarriesOn(t) => t \in Active /\ t \in Active'
  <1>1. \A u \in Tools : u # t => tool'[u] = tool[u]
    BY DEF Begins, Stops, CarriesOn, Others
  <1>2. \A u \in Tools : u # t => (u \in Active' <=> u \in Active)
    BY <1>1 DEF Active
  <1>3. tool[t] \in RunOfTool => t \in Active
    BY DEF Active, RunOfTool
  <1>4. tool'[t] \in RunOfTool => t \in Active'
    BY DEF Active, RunOfTool
  <1>5. tool[t] = IdleTool => t \notin Active
    BY DEF Active, IdleTool
  <1>6. tool'[t] = IdleTool => t \notin Active'
    BY DEF Active, IdleTool
  <1> QED
    BY <1>1, <1>2, <1>3, <1>4, <1>5, <1>6 DEF Begins, Stops, CarriesOn

LEMMA ObserversGrow ==
    ASSUME NEW t \in Tools, Begins(t) \/ Stops(t) \/ CarriesOn(t)
    PROVE  overlaps \subseteq overlaps' /\ lost \subseteq lost'
  BY DEF Begins, Stops, CarriesOn

LEMMA DisturbedGrows ==
    ASSUME overlaps \subseteq overlaps', lost \subseteq lost', NEW m, NEW m2
    PROVE  /\ Overlapped(m) => Overlapped(m)'
           /\ Disturbed(m) => Disturbed(m)'
           /\ Quiet(m, m2)' => Quiet(m, m2)
  <1>1. Overlapped(m) => Overlapped(m)'
    BY DEF Overlapped
  <1>2. Overlapped(m2) => Overlapped(m2)'
    BY DEF Overlapped
  <1>3. Disturbed(m) => Disturbed(m)'
    BY <1>1 DEF Disturbed
  <1>4. Disturbed(m2) => Disturbed(m2)'
    BY <1>2 DEF Disturbed
  <1> QED
    BY <1>1, <1>2, <1>3, <1>4 DEF Quiet

LEMMA OverlapsSeenStep ==
    ASSUME HistoryTyped, HistoryTyped', OverlapsSeen, NEW t \in Tools, RunStep(t)
    PROVE  OverlapsSeen'
  <1>0. Begins(t) \/ Stops(t) \/ CarriesOn(t)
    BY StepKinds
  <1>1. /\ \A u \in Tools : u # t => tool'[u] = tool[u] /\ (u \in Active' <=> u \in Active)
        /\ Begins(t) => t \notin Active /\ t \in Active'
        /\ Stops(t) => t \in Active /\ t \notin Active'
        /\ CarriesOn(t) => t \in Active /\ t \in Active'
    BY <1>0, ActiveThen
  <1>2. overlaps \subseteq overlaps'
    BY <1>0, ObserversGrow
  <1>3. ASSUME NEW u \in Active', u # t, t \in Active' PROVE {tool'[t].model, tool'[u].model} \in overlaps'
    <2>0. u \in Tools /\ u \in Active /\ tool'[u] = tool[u]
      BY <1>1, <1>3 DEF Active
    <2>1. CASE Begins(t)
      BY <1>3, <2>0, <2>1 DEF Begins
    <2>2. CASE CarriesOn(t)
      <3>1. t \in Active /\ tool'[t].model = tool[t].model
        BY <1>1, <2>2 DEF CarriesOn
      <3> QED
        BY <1>2, <1>3, <2>0, <3>1 DEF OverlapsSeen
    <2> QED
      BY <1>0, <1>1, <1>3, <2>1, <2>2
  <1>4. ASSUME NEW u \in Active', NEW v \in Active', u # v, u # t, v # t
        PROVE  {tool'[u].model, tool'[v].model} \in overlaps'
    <2>0. u \in Active /\ tool'[u] = tool[u] /\ v \in Active /\ tool'[v] = tool[v]
      BY <1>1, <1>4 DEF Active
    <2> QED
      BY <1>2, <1>4, <2>0 DEF OverlapsSeen
  <1>5. \A a, b : {a, b} = {b, a}
    OBVIOUS
  <1> SUFFICES ASSUME NEW u \in Active', NEW v \in Active', u # v
               PROVE  {tool'[u].model, tool'[v].model} \in overlaps'
    BY DEF OverlapsSeen
  <1>6. CASE u = t
    BY <1>3, <1>6
  <1>7. CASE v = t
    <2>1. {tool'[t].model, tool'[u].model} \in overlaps'
      BY <1>3, <1>7
    <2> QED
      BY <1>5, <1>7, <2>1
  <1> QED
    BY <1>4, <1>6, <1>7

LEMMA SeesConfStep ==
    ASSUME HistoryTyped, HistoryTyped', OverlapsSeen, SeesConf, NEW t \in Tools, RunStep(t)
    PROVE  SeesConf'
  <1>0. Begins(t) \/ Stops(t) \/ CarriesOn(t)
    BY StepKinds
  <1>1. /\ \A u \in Tools : u # t => tool'[u] = tool[u] /\ (u \in Active' <=> u \in Active)
        /\ Begins(t) => t \notin Active /\ t \in Active'
        /\ Stops(t) => t \in Active /\ t \notin Active'
        /\ CarriesOn(t) => t \in Active /\ t \in Active'
    BY <1>0, ActiveThen
  <1>2. overlaps \subseteq overlaps' /\ lost \subseteq lost'
    BY <1>0, ObserversGrow
  <1> SUFFICES ASSUME NEW u \in Active', ~Overlapped(tool[u].model)', NEW m \in DOMAIN conf'.cats
               PROVE  m \in DOMAIN tool'[u].table.cats
    BY DEF SeesConf
  <1>3. u \in Tools
    BY DEF Active
  <1>4. ~Overlapped(tool'[u].model)
    BY <1>2 DEF Overlapped
  <1>5. Begins(t) \/ ConfFrom(t)
    BY <1>0 DEF Stops, CarriesOn
  <1>6. CASE u = t
    <2>1. CASE Begins(t)
      BY <1>6, <2>1 DEF Begins
    <2>2. CASE CarriesOn(t)
      <3>1. t \in Active /\ tool'[t].model = tool[t].model
            /\ DOMAIN tool[t].table.cats \subseteq DOMAIN tool'[t].table.cats
        BY <1>1, <2>2 DEF CarriesOn, TableFrom
      <3>2. DOMAIN conf.cats \subseteq DOMAIN tool[t].table.cats
        BY <1>4, <1>6, <3>1 DEF SeesConf
      <3>3. m \in DOMAIN conf.cats \/ m \in DOMAIN tool[t].table.cats
        BY <2>2 DEF CarriesOn, ConfFrom
      <3> QED
        BY <1>6, <3>1, <3>2, <3>3
    <2> QED
      BY <1>0, <1>1, <1>6, <2>1, <2>2
  <1>7. CASE u # t
    <2>0. u \in Active /\ tool'[u] = tool[u]
      BY <1>1, <1>3, <1>7
    <2>1. DOMAIN conf.cats \subseteq DOMAIN tool[u].table.cats
      BY <1>4, <2>0 DEF SeesConf
    <2>2. m \in DOMAIN conf.cats
      <3>1. CASE Begins(t)
        BY <3>1 DEF Begins
      <3>2. CASE t \in Active
        <4>1. {tool[u].model, tool[t].model} \in overlaps
          BY <1>7, <2>0, <3>2 DEF OverlapsSeen
        <4>2. Overlapped(tool[u].model)
          BY <4>1 DEF Overlapped
        <4> QED
          BY <1>4, <2>0, <4>2
      <3> QED
        BY <1>0, <1>1, <3>1, <3>2
    <2> QED
      BY <2>0, <2>1, <2>2
  <1> QED
    BY <1>6, <1>7

LEMMA SeesFilesStep ==
    ASSUME HistoryTyped, HistoryTyped', OverlapsSeen, SeesFiles, NEW t \in Tools, RunStep(t)
    PROVE  SeesFiles'
  <1>0. Begins(t) \/ Stops(t) \/ CarriesOn(t)
    BY StepKinds
  <1>1. /\ \A u \in Tools : u # t => tool'[u] = tool[u] /\ (u \in Active' <=> u \in Active)
        /\ Begins(t) => t \notin Active /\ t \in Active'
        /\ Stops(t) => t \in Active /\ t \notin Active'
        /\ CarriesOn(t) => t \in Active /\ t \in Active'
    BY <1>0, ActiveThen
  <1>2. overlaps \subseteq overlaps' /\ lost \subseteq lost'
    BY <1>0, ObserversGrow
  <1> SUFFICES ASSUME NEW u \in Active', NEW m \in Models, tool'[u].pc = "scan",
                      {tool'[u].model, m} \notin overlaps', hist'[m].cat # 0
               PROVE  m \in tool'[u].todo \cup DOMAIN tool'[u].table.cats
    BY DEF SeesFiles
  <1>3. u \in Tools /\ {tool'[u].model, m} \notin overlaps
    BY <1>2 DEF Active
  <1>4. CASE u = t
    <2>1. CASE Begins(t)
      <3>1. hist[m].cat # 0 /\ m \in Listing
        BY <2>1 DEF Begins, Listing, HistoryTyped
      <3> QED
        BY <1>4, <2>1, <3>1 DEF Begins
    <2>2. CASE CarriesOn(t)
      <3>1. t \in Active /\ tool'[t].model = tool[t].model /\ hist' = hist /\ tool[t].pc = "scan"
        BY <1>1, <1>4, <2>2 DEF CarriesOn, ScanFrom
      <3>2. m \in tool[t].todo \cup DOMAIN tool[t].table.cats
        BY <1>3, <1>4, <3>1 DEF SeesFiles
      <3> QED
        BY <1>4, <2>2, <3>1, <3>2 DEF CarriesOn, ScanFrom
    <2> QED
      BY <1>0, <1>1, <1>4, <2>1, <2>2
  <1>5. CASE u # t
    <2>0. u \in Active /\ tool'[u] = tool[u]
      BY <1>1, <1>3, <1>5
    <2>1. hist[m].cat # 0
      <3>1. CASE Begins(t) \/ Stops(t)
        BY <3>1 DEF Begins, Stops
      <3>2. CASE CarriesOn(t)
        <4>1. CASE hist'[m].cat = hist[m].cat
          BY <4>1
        <4>2. CASE tool[t].model = m
          <5>1. {tool[u].model, tool[t].model} \in overlaps
            BY <1>1, <1>5, <2>0, <3>2 DEF OverlapsSeen
          <5> QED
            BY <1>3, <2>0, <4>2, <5>1
        <4> QED
          BY <3>2, <4>1, <4>2 DEF CarriesOn, HistFrom
      <3> QED
        BY <1>0, <3>1, <3>2
    <2> QED
      BY <1>3, <2>0, <2>1 DEF SeesFiles
  <1> QED
    BY <1>4, <1>5

\* A category comes from a place that had it already, unless a run takes a new one.
LEMMA HoldsBack ==
    ASSUME HistoryTyped, HistoryTyped', OwnEntry, NEW t \in Tools, RunStep(t),
           NEW m \in Models, NEW c, Holds(m, c)'
    PROVE  Holds(m, c) \/ (t \in Active /\ CarriesOn(t) /\ Takes(t, m, c))
  <1>0. Begins(t) \/ Stops(t) \/ CarriesOn(t)
    BY StepKinds
  <1>1. /\ \A u \in Tools : u # t => tool'[u] = tool[u] /\ (u \in Active' <=> u \in Active)
        /\ Begins(t) => t \notin Active /\ t \in Active'
        /\ Stops(t) => t \in Active /\ t \notin Active'
        /\ CarriesOn(t) => t \in Active /\ t \in Active'
    BY <1>0, ActiveThen
  <1>2. CASE m \in DOMAIN conf'.cats /\ conf'.cats[m] = c
    <2>1. CASE Begins(t)
      BY <1>2, <2>1 DEF Begins, Holds
    <2>2. CASE Stops(t) \/ CarriesOn(t)
      <3>1. t \in Active /\ ConfFrom(t)
        BY <1>1, <2>2 DEF Stops, CarriesOn
      <3> QED
        BY <1>2, <3>1 DEF ConfFrom, Holds
    <2> QED
      BY <1>0, <2>1, <2>2
  <1>3. CASE hist'[m].cat = c /\ c # 0
    <2>1. CASE Begins(t) \/ Stops(t)
      BY <1>3, <2>1 DEF Begins, Stops, Holds
    <2>2. CASE CarriesOn(t)
      <3>1. CASE hist'[m].cat = hist[m].cat
        BY <1>3, <3>1 DEF Holds
      <3>2. CASE tool[t].pc = "store" /\ tool[t].model = m /\ hist'[m].cat = tool[t].cat
        <4>1. t \in Active
          BY <1>1, <2>2
        <4>2. m \in DOMAIN tool[t].table.cats /\ tool[t].table.cats[m] = tool[t].cat
          BY <3>2, <4>1 DEF OwnEntry, HasCategory
        <4> QED
          BY <1>3, <3>2, <4>1, <4>2 DEF Holds
      <3> QED
        BY <1>3, <2>2, <3>1, <3>2 DEF CarriesOn, HistFrom
    <2> QED
      BY <1>0, <2>1, <2>2
  <1>4. ASSUME NEW u \in Active', m \in DOMAIN tool'[u].table.cats, tool'[u].table.cats[m] = c
        PROVE  Holds(m, c) \/ (t \in Active /\ CarriesOn(t) /\ Takes(t, m, c))
    <2>0. u \in Tools
      BY DEF Active
    <2>1. CASE u # t
      <3>1. u \in Active /\ tool'[u] = tool[u]
        BY <1>1, <2>0, <2>1
      <3> QED
        BY <1>4, <3>1 DEF Holds
    <2>2. CASE u = t /\ Begins(t)
      BY <1>4, <2>2 DEF Begins, Holds
    <2>3. CASE u = t /\ CarriesOn(t)
      <3>1. t \in Active
        BY <1>1, <2>3
      <3>2. \/ m \in DOMAIN tool[t].table.cats /\ tool[t].table.cats[m] = c
            \/ hist[m].cat # 0 /\ hist[m].cat = c
            \/ Takes(t, m, c)
        BY <1>4, <2>3 DEF CarriesOn, TableFrom
      <3> QED
        BY <2>3, <3>1, <3>2 DEF Holds
    <2> QED
      BY <1>0, <1>1, <2>1, <2>2, <2>3
  <1> QED
    BY <1>2, <1>3, <1>4 DEF Holds

\* A run that is to take a new category for m is the only one of m.
LEMMA TakerAlone ==
    ASSUME OverlapsSeen, NEW t \in Active, NEW u \in Active, NEW m, NEW m2,
           tool[t].model = m, tool[u].model = m2, {m, m2} \notin overlaps
    PROVE  u = t
  BY DEF OverlapsSeen

LEMMA AloneIfApart ==
    ASSUME OverlapsSeen, NEW t \in Active, NEW u \in Active, ~Overlapped(tool[t].model)
    PROVE  u = t
  BY DEF OverlapsSeen, Overlapped

\* A model whose run takes a new category had none.
LEMMA TakesFirst ==
    ASSUME HistoryTyped, OverlapsSeen, SeesConf, KnownIfSettled,
           NEW t \in Active, NEW m \in Models, NEW c, Takes(t, m, c), ~Disturbed(m), NEW d
    PROVE  ~Holds(m, d)
  <1> SUFFICES ASSUME Holds(m, d) PROVE FALSE
    OBVIOUS
  <1>1. /\ tool[t].pc = "scan" /\ tool[t].model = m /\ m \notin DOMAIN tool[t].table.cats /\ hist[m].cat = 0
    BY DEF Takes
  <1>2. {m} \notin overlaps /\ (m \in Reserved => ~Overlapped(m))
    BY DEF Disturbed
  <1>3. ASSUME NEW u \in Active, tool[u].model = m PROVE u = t
    <2>1. {m, m} = {m}
      OBVIOUS
    <2>2. u # t => {tool[t].model, tool[u].model} \in overlaps
      BY DEF OverlapsSeen
    <2> QED
      BY <1>1, <1>2, <1>3, <2>1, <2>2
  <1>4. Elsewhere(m)
    <2>1. CASE m \in DOMAIN conf.cats
      BY <2>1 DEF Elsewhere
    <2>2. ASSUME NEW u \in Active, m \in DOMAIN tool[u].table.cats PROVE Elsewhere(m)
      <3>1. u # t
        BY <1>1, <2>2
      <3>2. tool[u].model # m
        BY <1>3, <3>1
      <3> QED
        BY <2>2, <3>2 DEF Elsewhere
    <2> QED
      BY <1>1, <2>1, <2>2 DEF Holds
  <1>5. CASE m \notin Reserved
    <2>1. Settled(m)
      BY <1>4, <1>5 DEF KnownIfSettled
    <2>2. PICK u \in Active : tool[u].model = m /\ tool[u].pc = "store"
      BY <1>1, <2>1 DEF Settled
    <2> QED
      BY <1>1, <1>3, <2>2
  <1>6. CASE m \in Reserved
    <2>1. ~Overlapped(m)
      BY <1>2, <1>6
    <2>2. \A u \in Active : u = t
      BY <1>1, <2>1, AloneIfApart
    <2>3. m \in DOMAIN conf.cats
      BY <1>1, <1>4, <2>2 DEF Elsewhere
    <2> QED
      BY <1>1, <2>1, <2>3 DEF SeesConf
  <1> QED
    BY <1>5, <1>6

\* And the category is not the one of a quiet other model.
LEMMA TakesFresh ==
    ASSUME HistoryTyped, OverlapsSeen, SeesConf, SeesFiles, OneCategory, KnownIfSettled,
           NEW t \in Active, NEW m \in Models, NEW m2 \in Models, m # m2,
           NEW c \in Nat, Takes(t, m, c), Quiet(m, m2)
    PROVE  ~Holds(m2, c)
  <1> SUFFICES ASSUME Holds(m2, c) PROVE FALSE
    OBVIOUS
  <1>0. t \in Tools /\ tool[t] \in RunOfTool
    BY ActiveIs DEF Active
  <1>1. tool[t].pc = "scan" /\ tool[t].model = m /\ tool[t].todo = {} /\ c = NextFree(tool[t].table)
    BY DEF Takes
  <1>2. ~Disturbed(m2) /\ {m, m2} \notin overlaps
        /\ (m2 \in Reserved => ~Overlapped(m))
    BY DEF Quiet
  <1>3. \A u \in Active : tool[u].model # m2
    <2> SUFFICES ASSUME NEW u \in Active, tool[u].model = m2 PROVE FALSE
      OBVIOUS
    <2>1. u = t
      BY <1>1, <1>2, TakerAlone
    <2> QED
      BY <1>1, <2>1
  <1>4. hist[m2].cat # 0 => m2 \in DOMAIN tool[t].table.cats
    BY <1>1, <1>2 DEF SeesFiles
  <1>5. m2 \in DOMAIN tool[t].table.cats
    <2>1. CASE hist[m2].cat # 0
      BY <1>4, <2>1
    <2>2. CASE hist[m2].cat = 0
      <3>0. Elsewhere(m2)
        BY <1>3, <2>2 DEF Holds, Elsewhere
      <3>1. CASE m2 \notin Reserved
        <4>1. Settled(m2)
          BY <1>2, <3>0, <3>1 DEF KnownIfSettled
        <4> QED
          BY <1>3, <2>2, <4>1 DEF Settled
      <3>2. CASE m2 \in Reserved
        <4>1. ~Overlapped(m)
          BY <1>2, <3>2
        <4>2. \A u \in Active : u = t
          BY <1>1, <4>1, AloneIfApart
        <4>3. DOMAIN conf.cats \subseteq DOMAIN tool[t].table.cats
          BY <1>1, <4>1 DEF SeesConf
        <4> QED
          BY <3>0, <4>2, <4>3 DEF Elsewhere
      <3> QED
        BY <3>1, <3>2
    <2> QED
      BY <2>1, <2>2
  <1> DEFINE d == tool[t].table.cats[m2]
  <1>6. Holds(m2, d)
    BY <1>5 DEF Holds
  <1>7. tool[t].table \in CatTable
    BY <1>0 DEF RunOfTool
  <1>8. tool[t].table.cats \in Partial(Models \cup {Unnamed}, Nat \ {0})
    BY <1>7 DEF CatTable
  <1>9. tool[t].table.cats \in [DOMAIN tool[t].table.cats -> Nat \ {0}]
    BY <1>8, PartialIs
  <1>10. d \in Nat
    BY <1>5, <1>9
  <1>11. c = d
    BY <1>2, <1>6, <1>10 DEF OneCategory
  <1>12. d \in Taken(tool[t].table)
    BY <1>5 DEF Taken, Range
  <1> QED
    BY <1>1, <1>7, <1>11, <1>12, FreeIsFree

LEMMA OneCategoryStep ==
    ASSUME HistoryTyped, HistoryTyped', OwnEntry, OverlapsSeen, SeesConf, KnownIfSettled, OneCategory,
           NEW t \in Tools, RunStep(t)
    PROVE  OneCategory'
  <1>0. Begins(t) \/ Stops(t) \/ CarriesOn(t)
    BY StepKinds
  <1>1. overlaps \subseteq overlaps' /\ lost \subseteq lost'
    BY <1>0, ObserversGrow
  <1> SUFFICES ASSUME NEW m \in Models, ~Disturbed(m)', NEW c \in Nat, NEW d \in Nat,
                      Holds(m, c)', Holds(m, d)'
               PROVE  c = d
    BY DEF OneCategory
  <1>2. ~Disturbed(m)
    BY <1>1, DisturbedGrows
  <1>3. Holds(m, c) \/ (t \in Active /\ CarriesOn(t) /\ Takes(t, m, c))
    BY HoldsBack
  <1>4. Holds(m, d) \/ (t \in Active /\ CarriesOn(t) /\ Takes(t, m, d))
    BY HoldsBack
  <1>5. CASE Holds(m, c) /\ Holds(m, d)
    BY <1>2, <1>5 DEF OneCategory
  <1>6. ASSUME NEW e, t \in Active, Takes(t, m, e) PROVE ~Holds(m, c) /\ ~Holds(m, d)
    BY <1>2, <1>6, TakesFirst
  <1>7. Takes(t, m, c) /\ Takes(t, m, d) => c = d
    BY DEF Takes
  <1> QED
    BY <1>3, <1>4, <1>5, <1>6, <1>7

LEMMA OwnCategoryStep ==
    ASSUME HistoryTyped, HistoryTyped', OwnEntry, OverlapsSeen, SeesConf, SeesFiles, KnownIfSettled,
           OneCategory, OwnCategory, NEW t \in Tools, RunStep(t)
    PROVE  OwnCategory'
  <1>0. Begins(t) \/ Stops(t) \/ CarriesOn(t)
    BY StepKinds
  <1>1. overlaps \subseteq overlaps' /\ lost \subseteq lost'
    BY <1>0, ObserversGrow
  <1> SUFFICES ASSUME NEW m \in Models, NEW m2 \in Models, m # m2, Quiet(m, m2)', NEW c \in Nat,
                      Holds(m, c)', Holds(m2, c)'
               PROVE  FALSE
    BY DEF OwnCategory
  <1>2. Quiet(m, m2)
    BY <1>1, DisturbedGrows
  <1>3. Quiet(m2, m)
    <2>1. {m, m2} = {m2, m}
      OBVIOUS
    <2> QED
      BY <1>2, <2>1 DEF Quiet
  <1>4. Holds(m, c) \/ (t \in Active /\ CarriesOn(t) /\ Takes(t, m, c))
    BY HoldsBack
  <1>5. Holds(m2, c) \/ (t \in Active /\ CarriesOn(t) /\ Takes(t, m2, c))
    BY HoldsBack
  <1>6. CASE Holds(m, c) /\ Holds(m2, c)
    BY <1>2, <1>6 DEF OwnCategory
  <1>7. t \in Active /\ Takes(t, m, c) => ~Holds(m2, c)
    BY <1>2, TakesFresh
  <1>8. t \in Active /\ Takes(t, m2, c) => ~Holds(m, c)
    BY <1>3, TakesFresh
  <1>9. ~(Takes(t, m, c) /\ Takes(t, m2, c))
    BY DEF Takes
  <1> QED
    BY <1>4, <1>5, <1>6, <1>7, <1>8, <1>9

\* A run that goes on either keeps what it has, or sets up, or prints.
LEMMA KeepsOwn ==
    ASSUME NEW t \in Tools, RunStep(t), CarriesOn(t), ~SetsUp(t), ~Prints(t), ~Scans(t),
           ~Begins(t), ~Stops(t)
    PROVE  /\ tool'[t].table = tool[t].table /\ tool'[t].cat = tool[t].cat
           /\ tool'[t].ids = tool[t].ids /\ tool'[t].modified = tool[t].modified
           /\ given' = given
           /\ \/ tool[t].pc = "close" /\ tool'[t].pc \in {"store", "conf"}
              \/ tool[t].pc = "store" /\ tool'[t].pc = "conf"
              \/ tool[t].pc = "conf" /\ tool'[t].pc = "conf-store"
           /\ tool'[t].pc = "store" => tool'[t].modified
  BY DEF RunStep, Empties, Stores, EmptiesConf

LEMMA OwnEntryStep ==
    ASSUME HistoryTyped, HistoryTyped', OwnEntry, NEW t \in Tools, RunStep(t)
    PROVE  OwnEntry'
  <1>0. Begins(t) \/ Stops(t) \/ CarriesOn(t)
    BY StepKinds
  <1>1. /\ \A u \in Tools : u # t => tool'[u] = tool[u] /\ (u \in Active' <=> u \in Active)
        /\ Begins(t) => t \notin Active /\ t \in Active'
        /\ Stops(t) => t \in Active /\ t \notin Active'
        /\ CarriesOn(t) => t \in Active /\ t \in Active'
    BY <1>0, ActiveThen
  <1> DEFINE Own(u) == /\ tool'[u].cat # 0
                       /\ tool'[u].model \in DOMAIN tool'[u].table.cats
                       /\ tool'[u].table.cats[tool'[u].model] = tool'[u].cat
                       /\ tool'[u].pc = "store" => tool'[u].modified
  <1> SUFFICES ASSUME NEW u \in Active', tool'[u].pc \notin {"idle", "scan"}
               PROVE  Own(u)
    BY DEF OwnEntry, HasCategory
  <1>2. CASE u # t
    <2>1. u \in Active /\ tool'[u] = tool[u]
      BY <1>1, <1>2 DEF Active
    <2> QED
      BY <2>1 DEF OwnEntry, HasCategory
  <1>3. CASE u = t
    <2>1. CarriesOn(t) /\ ~Begins(t) /\ ~Stops(t) /\ ~Scans(t) /\ t \in Active /\ tool'[t].model = tool[t].model
      BY <1>0, <1>1, <1>3 DEF Begins, Scans, CarriesOn
    <2>2. CASE SetsUp(t)
      BY <1>3, <2>1, <2>2 DEF SetsUp
    <2>3. CASE Prints(t)
      BY <1>3, <2>1, <2>3 DEF Prints, OwnEntry, HasCategory
    <2>4. CASE ~SetsUp(t) /\ ~Prints(t)
      BY <1>3, <2>1, <2>4, KeepsOwn DEF OwnEntry, HasCategory
    <2> QED
      BY <2>2, <2>3, <2>4
  <1> QED
    BY <1>2, <1>3

LEMMA NothingNumbered ==
    ASSUME NEW c PROVE Numbered(Nothing, c)
  BY DEF Numbered, Nothing

LEMMA AllNumberedStep ==
    ASSUME HistoryTyped, HistoryTyped', AllNumbered, NEW t \in Tools, RunStep(t)
    PROVE  AllNumbered'
  <1>0. Begins(t) \/ Stops(t) \/ CarriesOn(t)
    BY StepKinds
  <1>1. /\ \A u \in Tools : u # t => tool'[u] = tool[u] /\ (u \in Active' <=> u \in Active)
        /\ Begins(t) => t \notin Active /\ t \in Active'
        /\ Stops(t) => t \in Active /\ t \notin Active'
        /\ CarriesOn(t) => t \in Active /\ t \in Active'
    BY <1>0, ActiveThen
  <1>2. ASSUME NEW m \in Models PROVE Numbered(hist'[m].ids, hist'[m].cat)
    <2>0. Numbered(hist[m].ids, hist[m].cat)
      BY DEF AllNumbered
    <2>1. CASE hist'[m] = hist[m]
      BY <2>0, <2>1
    <2>2. CASE hist'[m] # hist[m]
      <3>1. Empties(t) \/ Stores(t)
        BY <2>2 DEF RunStep, Begins, Stops, Scans, SetsUp, Prints, EmptiesConf
      <3>2. t \in Active
        BY <1>1, <3>1 DEF Empties, Stores
      <3>3. CASE Empties(t)
        <4>1. hist'[m] = TornHistory
          BY <2>2, <3>3 DEF Empties
        <4> QED
          BY <4>1, NothingNumbered DEF TornHistory
      <3>4. CASE Stores(t)
        <4>1. hist'[m].ids = tool[t].ids /\ hist'[m].cat = tool[t].cat /\ tool[t].pc = "store"
          BY <2>2, <3>4 DEF Stores
        <4> QED
          BY <3>2, <4>1 DEF AllNumbered, HasCategory
      <3> QED
        BY <3>1, <3>3, <3>4
    <2> QED
      BY <2>1, <2>2
  <1>3. ASSUME NEW u \in Active', tool'[u].pc \notin {"idle", "scan"}
        PROVE  Numbered(tool'[u].ids, tool'[u].cat)
    <2>1. CASE u # t
      <3>1. u \in Active /\ tool'[u] = tool[u]
        BY <1>1, <2>1 DEF Active
      <3> QED
        BY <1>3, <3>1 DEF AllNumbered, HasCategory
    <2>2. CASE u = t
      <3>1. CarriesOn(t) /\ ~Begins(t) /\ ~Stops(t) /\ ~Scans(t) /\ t \in Active /\ tool[t] \in RunOfTool
        BY <1>0, <1>1, <1>3, <2>2 DEF Begins, Scans, CarriesOn
      <3>2. CASE SetsUp(t)
        <4> DEFINE m == tool[t].model
        <4>1. m \in Models
          BY <3>1 DEF RunOfTool
        <4>2. CASE KeepsIds(tool[t].table, m, hist[m])
          <5>1. tool'[t].ids = hist[m].ids /\ tool'[t].cat = hist[m].cat
            BY <3>2, <4>2 DEF SetsUp, KeepsIds
          <5> QED
            BY <2>2, <4>1, <5>1 DEF AllNumbered
        <4>3. CASE ~KeepsIds(tool[t].table, m, hist[m])
          <5>1. tool'[t].ids = Nothing
            BY <3>2, <4>3 DEF SetsUp
          <5> QED
            BY <2>2, <5>1, NothingNumbered
        <4> QED
          BY <4>2, <4>3
      <3>3. CASE Prints(t)
        BY <2>2, <3>3 DEF Prints
      <3>4. CASE ~SetsUp(t) /\ ~Prints(t)
        BY <2>2, <3>1, <3>4, KeepsOwn DEF AllNumbered, HasCategory
      <3> QED
        BY <3>2, <3>3, <3>4
    <2> QED
      BY <2>1, <2>2
  <1> QED
    BY <1>2, <1>3 DEF AllNumbered, HasCategory

\* Once in the file of a model a category is kept there, or about to be.
LEMMA SettledKept ==
    ASSUME HistoryTyped, HistoryTyped', OwnEntry, NEW t \in Tools, RunStep(t),
           NEW m \in Models, ~Disturbed(m)', Settled(m)
    PROVE  Settled(m)'
  <1>0. Begins(t) \/ Stops(t) \/ CarriesOn(t)
    BY StepKinds
  <1>1. /\ \A u \in Tools : u # t => tool'[u] = tool[u] /\ (u \in Active' <=> u \in Active)
        /\ Begins(t) => t \notin Active /\ t \in Active'
        /\ Stops(t) => t \in Active /\ t \notin Active'
        /\ CarriesOn(t) => t \in Active /\ t \in Active'
    BY <1>0, ActiveThen
  <1>2. CASE hist[m].cat # 0
    <2>1. CASE hist'[m] = hist[m]
      BY <1>2, <2>1 DEF Settled
    <2>2. CASE hist'[m] # hist[m]
      <3>1. Empties(t) \/ Stores(t)
        BY <2>2 DEF RunStep, Begins, Stops, Scans, SetsUp, Prints, EmptiesConf
      <3>2. t \in Active /\ t \in Active' /\ tool'[t].model = tool[t].model
        BY <1>1, <3>1 DEF Empties, Stores, CarriesOn
      <3>3. CASE Empties(t)
        BY <2>2, <3>2, <3>3 DEF Empties, Settled
      <3>4. CASE Stores(t)
        <4>1. hist'[m].cat = tool[t].cat /\ tool[t].pc = "store"
          BY <2>2, <3>4 DEF Stores
        <4> QED
          BY <3>2, <4>1 DEF OwnEntry, HasCategory, Settled
      <3> QED
        BY <3>1, <3>3, <3>4
    <2> QED
      BY <2>1, <2>2
  <1>3. ASSUME NEW u \in Active, tool[u].model = m, tool[u].pc = "store" PROVE Settled(m)'
    <2>1. CASE u # t
      <3>1. u \in Active' /\ tool'[u] = tool[u]
        BY <1>1, <2>1 DEF Active
      <3> QED
        BY <1>3, <3>1 DEF Settled
    <2>2. CASE u = t
      <3>1. CASE Stops(t)
        <4>1. tool[t].modified
          BY <1>3, <2>2 DEF OwnEntry, HasCategory
        <4> QED
          BY <1>3, <2>2, <3>1, <4>1 DEF Stops, Disturbed
      <3>2. CASE ~Stops(t)
        <4>1. ~Begins(t)
          BY <1>1, <2>2
        <4>2. Stores(t)
          BY <1>3, <2>2, <3>2, <4>1 DEF RunStep, Scans, SetsUp, Prints, Empties, EmptiesConf, CarriesOn, ScanFrom
        <4>3. hist'[m].cat = tool[t].cat
          BY <1>3, <2>2, <4>2 DEF Stores
        <4> QED
          BY <1>3, <2>2, <4>3 DEF OwnEntry, HasCategory, Settled
      <3> QED
        BY <3>1, <3>2
    <2> QED
      BY <2>1, <2>2
  <1> QED
    BY <1>2, <1>3 DEF Settled

LEMMA KnownIfSettledStep ==
    ASSUME HistoryTyped, HistoryTyped', OwnEntry, KnownIfSettled, GivenInRun, NEW t \in Tools, RunStep(t)
    PROVE  KnownIfSettled'
  <1>0. Begins(t) \/ Stops(t) \/ CarriesOn(t)
    BY StepKinds
  <1>1. /\ \A u \in Tools : u # t => tool'[u] = tool[u] /\ (u \in Active' <=> u \in Active)
        /\ Begins(t) => t \notin Active /\ t \in Active'
        /\ Stops(t) => t \in Active /\ t \notin Active'
        /\ CarriesOn(t) => t \in Active /\ t \in Active'
    BY <1>0, ActiveThen
  <1>2. overlaps \subseteq overlaps' /\ lost \subseteq lost'
    BY <1>0, ObserversGrow
  <1> SUFFICES ASSUME NEW m \in Models, ~Disturbed(m)', m \notin Reserved, Elsewhere(m)'
               PROVE  Settled(m)'
    BY DEF KnownIfSettled, Reserved
  <1>3. ~Disturbed(m)
    BY <1>2, DisturbedGrows
  <1>4. Elsewhere(m) => Settled(m)
    BY <1>3 DEF KnownIfSettled
  <1>5. CASE m \in DOMAIN conf'.cats
    <2>1. CASE m \in DOMAIN conf.cats
      BY <1>4, <2>1, SettledKept DEF Elsewhere
    <2>2. CASE tool[t].pc = "conf-store" /\ m \in DOMAIN tool[t].table.cats /\ t \in Active
      <3>1. CASE tool[t].model = m
        <4>1. hist[m].cat # 0
          BY <1>3, <2>2, <3>1 DEF GivenInRun
        <4> QED
          BY <4>1, SettledKept DEF Settled
      <3>2. CASE tool[t].model # m
        BY <1>4, <2>2, <3>2, SettledKept DEF Elsewhere
      <3> QED
        BY <3>1, <3>2
    <2>3. CASE Begins(t)
      <3>1. conf' = conf
        BY <2>3 DEF Begins
      <3> QED
        BY <1>5, <2>1, <3>1
    <2>4. CASE Stops(t) \/ CarriesOn(t)
      <3>1. ConfFrom(t) /\ t \in Active
        BY <1>1, <2>4 DEF Stops, CarriesOn
      <3> QED
        BY <1>5, <2>1, <2>2, <3>1 DEF ConfFrom
    <2> QED
      BY <1>0, <2>3, <2>4
  <1>6. ASSUME NEW u \in Active', m \in DOMAIN tool'[u].table.cats,
               ~(tool'[u].model = m /\ tool'[u].pc \notin {"idle", "scan"})
        PROVE  Settled(m)'
    <2>1. CASE u # t
      <3>1. u \in Active /\ tool'[u] = tool[u]
        BY <1>1, <2>1 DEF Active
      <3> QED
        BY <1>4, <1>6, <3>1, SettledKept DEF Elsewhere, HasCategory
    <2>2. CASE u = t /\ Begins(t)
      <3>1. m \in DOMAIN conf.cats
        BY <1>6, <2>2 DEF Begins
      <3> QED
        BY <1>4, <3>1, SettledKept DEF Elsewhere
    <2>3. CASE u = t /\ CarriesOn(t)
      <3>0. t \in Active /\ tool'[t].model = tool[t].model /\ (tool'[t].pc = "scan" => tool[t].pc = "scan")
        BY <1>1, <2>3 DEF CarriesOn, ScanFrom
      <3>1. CASE m \in DOMAIN tool[t].table.cats
        <4>1. tool'[t].pc # "idle"
          BY <2>3 DEF Active
        <4>2. ~(tool[t].model = m /\ tool[t].pc \notin {"idle", "scan"})
          BY <1>6, <2>3, <3>0, <4>1
        <4> QED
          BY <1>4, <3>0, <3>1, <4>2, SettledKept DEF Elsewhere, HasCategory
      <3>2. CASE hist[m].cat # 0
        BY <3>2, SettledKept DEF Settled
      <3>3. CASE Takes(t, m, tool'[t].table.cats[m]) /\ tool'[t].pc = "write"
        BY <1>6, <2>3, <3>0, <3>3 DEF Takes
      <3> QED
        BY <1>6, <2>3, <3>1, <3>2, <3>3 DEF CarriesOn, TableFrom
    <2> QED
      BY <1>0, <1>1, <2>1, <2>2, <2>3
  <1> QED
    BY <1>5, <1>6 DEF Elsewhere, HasCategory

\* A model that was not disturbed has one run at a time.
LEMMA OneRun ==
    ASSUME OverlapsSeen, NEW t \in Active, NEW u \in Active, tool[u].model = tool[t].model,
           ~Disturbed(tool[t].model)
    PROVE  u = t
  <1>1. {tool[t].model, tool[t].model} = {tool[t].model}
    OBVIOUS
  <1>2. {tool[t].model} \notin overlaps
    BY DEF Disturbed
  <1> QED
    BY <1>1, <1>2 DEF OverlapsSeen

LEMMA GivenInBookStep ==
    ASSUME HistoryTyped, HistoryTyped', OwnEntry, GivenInBook, GivenInRun, NEW t \in Tools, RunStep(t)
    PROVE  GivenInBook'
  <1>0. Begins(t) \/ Stops(t) \/ CarriesOn(t)
    BY StepKinds
  <1>1. /\ \A u \in Tools : u # t => tool'[u] = tool[u] /\ (u \in Active' <=> u \in Active)
        /\ Begins(t) => t \notin Active /\ t \in Active'
        /\ Stops(t) => t \in Active /\ t \notin Active'
        /\ CarriesOn(t) => t \in Active /\ t \in Active'
    BY <1>0, ActiveThen
  <1>2. overlaps \subseteq overlaps' /\ lost \subseteq lost'
    BY <1>0, ObserversGrow
  <1> SUFFICES ASSUME NEW m \in Models, ~Disturbed(m)', \A u \in Tools : ~WritesBook(u, m)'
               PROVE  Contains(hist'[m].ids, given'[m])
    BY DEF GivenInBook
  <1>3. ~Disturbed(m)
    BY <1>2, DisturbedGrows
  <1>4. ASSUME NEW u \in Tools, WritesBook(u, m) PROVE u = t
    <2> SUFFICES ASSUME u # t PROVE FALSE
      OBVIOUS
    <2>1. u \in Active' /\ tool'[u] = tool[u]
      BY <1>1, <1>4 DEF WritesBook
    <2> QED
      BY <1>4, <2>1 DEF WritesBook
  <1>5. CASE WritesBook(t, m)
    <2>0. t \in Active /\ tool[t].model = m /\ tool[t].pc \in {"close", "store"}
      BY <1>5 DEF WritesBook
    <2>1. Contains(tool[t].ids, given[m])
      BY <1>3, <2>0 DEF GivenInRun
    <2>2. tool[t].pc = "close" /\ ~tool[t].modified => hist[m].ids = tool[t].ids
      BY <1>3, <2>0 DEF GivenInRun
    <2>3. CASE Stops(t)
      <3>1. hist' = hist /\ given' = given /\ ~tool[t].modified
        BY <2>0, <2>3 DEF Stops, Disturbed
      <3>2. tool[t].pc = "close"
        BY <2>0, <3>1 DEF OwnEntry, HasCategory
      <3> QED
        BY <2>1, <2>2, <3>1, <3>2
    <2>4. CASE ~Stops(t)
      <3>0. CarriesOn(t) /\ ~Begins(t) /\ t \in Active' /\ tool'[t].model = m
        BY <1>0, <1>1, <2>0, <2>4 DEF CarriesOn
      <3>1. Empties(t) \/ Stores(t)
        BY <2>0, <2>4, <3>0 DEF RunStep, Scans, SetsUp, Prints, EmptiesConf, CarriesOn, ScanFrom
      <3>2. CASE Empties(t)
        <4>1. tool'[t].pc # "store"
          BY <3>0 DEF WritesBook
        <4>2. ~tool[t].modified /\ hist'[m] = hist[m] /\ given' = given /\ tool[t].pc = "close"
          BY <2>0, <3>2, <4>1 DEF Empties
        <4> QED
          BY <2>1, <2>2, <4>2
      <3>3. CASE Stores(t)
        <4>1. hist'[m].ids = tool[t].ids /\ given' = given
          BY <2>0, <3>3 DEF Stores
        <4> QED
          BY <2>1, <4>1
      <3> QED
        BY <3>1, <3>2, <3>3
    <2> QED
      BY <2>3, <2>4
  <1>6. CASE ~WritesBook(t, m)
    <2>1. Contains(hist[m].ids, given[m])
      BY <1>3, <1>4, <1>6 DEF GivenInBook
    <2>2. hist'[m] = hist[m]
      <3> SUFFICES ASSUME hist'[m] # hist[m] PROVE FALSE
        OBVIOUS
      <3>1. Empties(t) \/ Stores(t)
        BY DEF RunStep, Begins, Stops, Scans, SetsUp, Prints, EmptiesConf
      <3>2. t \in Active /\ tool[t].model = m /\ tool[t].pc \in {"close", "store"}
        BY <1>1, <3>1 DEF Empties, Stores
      <3> QED
        BY <1>6, <3>2 DEF WritesBook
    <2>3. given'[m] = given[m]
      <3> SUFFICES ASSUME given'[m] # given[m] PROVE FALSE
        OBVIOUS
      <3>1. Prints(t)
        BY DEF RunStep, Begins, Stops, Scans, SetsUp, Empties, Stores, EmptiesConf
      <3>2. t \in Active' /\ tool'[t].model = m /\ tool'[t].pc = "close"
        BY <1>1, <3>1 DEF Prints, CarriesOn
      <3> QED
        BY <3>2 DEF WritesBook
    <2> QED
      BY <2>1, <2>2, <2>3
  <1> QED
    BY <1>5, <1>6

LEMMA ContainsMore ==
    ASSUME NEW a, NEW b, NEW c, Contains(a, b), Contains(b, c)
    PROVE  Contains(a, c)
  BY DEF Contains

\* What the run of an undisturbed model knows.
Knows(t, m) ==
    /\ tool[t].pc \in {"write", "close", "store"} => Contains(tool[t].ids, given[m])
    /\ tool[t].pc \in {"write", "close"} /\ ~tool[t].modified =>
          hist[m].cat # 0 /\ hist[m].ids = tool[t].ids
    /\ tool[t].pc \in {"conf", "conf-store"} => hist[m].cat # 0

LEMMA GivenInRunStep ==
    ASSUME HistoryTyped, HistoryTyped', OwnEntry, OverlapsSeen, OverlapsSeen', OneCategory,
           GivenInBook, GivenInRun, NEW t \in Tools, RunStep(t)
    PROVE  GivenInRun'
  <1>0. Begins(t) \/ Stops(t) \/ CarriesOn(t)
    BY StepKinds
  <1>1. /\ \A u \in Tools : u # t => tool'[u] = tool[u] /\ (u \in Active' <=> u \in Active)
        /\ Begins(t) => t \notin Active /\ t \in Active'
        /\ Stops(t) => t \in Active /\ t \notin Active'
        /\ CarriesOn(t) => t \in Active /\ t \in Active'
    BY <1>0, ActiveThen
  <1>2. overlaps \subseteq overlaps' /\ lost \subseteq lost'
    BY <1>0, ObserversGrow
  <1>3. ASSUME NEW u \in Active', NEW m \in Models, tool'[u].model = m, ~Disturbed(m)'
        PROVE  Knows(u, m)'
    <2>1. ~Disturbed(m)
      BY <1>2, <1>3, DisturbedGrows
    <2>2. CASE u # t
      <3>1. u \in Active /\ tool'[u] = tool[u] /\ u \in Tools
        BY <1>1, <2>2 DEF Active
      <3>2. Knows(u, m)
        BY <1>3, <2>1, <3>1 DEF GivenInRun, Knows
      <3>3. t \in Active => tool[t].model # m
        BY <1>3, <2>1, <2>2, <3>1, OneRun
      <3>4. hist'[m] = hist[m]
        <4> SUFFICES ASSUME hist'[m] # hist[m] PROVE FALSE
          OBVIOUS
        <4>1. Empties(t) \/ Stores(t)
          BY DEF RunStep, Begins, Stops, Scans, SetsUp, Prints, EmptiesConf
        <4>2. t \in Active /\ tool[t].model = m
          BY <1>1, <4>1 DEF Empties, Stores
        <4> QED
          BY <3>3, <4>2
      <3>5. given'[m] = given[m]
        <4> SUFFICES ASSUME given'[m] # given[m] PROVE FALSE
          OBVIOUS
        <4>1. Prints(t)
          BY DEF RunStep, Begins, Stops, Scans, SetsUp, Empties, Stores, EmptiesConf
        <4>2. t \in Active /\ tool[t].model = m
          BY <1>1, <4>1 DEF Prints, CarriesOn
        <4> QED
          BY <3>3, <4>2
      <3> QED
        BY <3>1, <3>2, <3>4, <3>5 DEF Knows
    <2>3. CASE u = t /\ tool'[t].pc = "scan"
      BY <2>3 DEF Knows
    <2>4. CASE u = t /\ tool'[t].pc # "scan"
      <3>0. CarriesOn(t) /\ ~Begins(t) /\ ~Stops(t) /\ ~Scans(t) /\ t \in Active /\ tool[t].model = m
            /\ tool[t] \in RunOfTool
        BY <1>0, <1>1, <1>3, <2>4 DEF Begins, Scans, CarriesOn
      <3>1. Knows(t, m)
        BY <2>1, <3>0 DEF GivenInRun, Knows
      <3>2. CASE SetsUp(t)
        <4> DEFINE table == tool[t].table
                   kept == KeepsIds(table, m, hist[m])
        <4>1. /\ tool[t].pc = "scan" /\ tool'[t].pc = "write" /\ hist' = hist /\ given' = given
              /\ tool'[t].ids = IF kept THEN hist[m].ids ELSE Nothing
              /\ tool'[t].modified <=> ~kept
          BY <3>0, <3>2 DEF SetsUp
        <4>2. \A w \in Tools : ~WritesBook(w, m)
          <5> SUFFICES ASSUME NEW w \in Tools, WritesBook(w, m) PROVE FALSE
            OBVIOUS
          <5>1. w \in Active /\ tool[w].model = m /\ tool[w].pc \in {"close", "store"}
            BY DEF WritesBook
          <5>2. w = t
            BY <2>1, <3>0, <5>1, OneRun
          <5> QED
            BY <4>1, <5>1, <5>2
        <4>3. Contains(hist[m].ids, given[m])
          BY <2>1, <4>2 DEF GivenInBook
        <4>4. CASE hist[m].cat # 0
          <5>1. Category(table, m, hist[m]) = hist[m].cat
            <6>1. CASE m \in DOMAIN table.cats
              <7>1. table.cats[m] \in Nat
                <8>1. table.cats \in Partial(Models \cup {Unnamed}, Nat \ {0})
                  BY <3>0 DEF RunOfTool, CatTable
                <8>2. table.cats \in [DOMAIN table.cats -> Nat \ {0}]
                  BY <8>1, PartialIs
                <8> QED
                  BY <6>1, <8>2
              <7>2. hist[m].cat \in Nat
                BY DEF HistoryTyped, Book
              <7>3. Holds(m, table.cats[m]) /\ Holds(m, hist[m].cat)
                BY <3>0, <4>4, <6>1 DEF Holds
              <7>4. table.cats[m] = hist[m].cat
                BY <2>1, <7>1, <7>2, <7>3 DEF OneCategory
              <7> QED
                BY <6>1, <7>4 DEF Category
            <6>2. CASE m \notin DOMAIN table.cats
              BY <4>4, <6>2 DEF Category
            <6> QED
              BY <6>1, <6>2
          <5>2. kept
            BY <4>4, <5>1 DEF KeepsIds
          <5>3. tool'[t].ids = hist[m].ids
            BY <4>1, <5>2
          <5> HIDE DEF kept
          <5> QED
            BY <2>4, <4>1, <4>3, <4>4, <5>2, <5>3 DEF Knows
        <4>5. CASE hist[m].cat = 0
          <5>1. hist[m].ids = Nothing /\ ~kept
            BY <4>5 DEF HistoryTyped, KeepsIds
          <5>2. tool'[t].ids = hist[m].ids /\ tool'[t].modified
            BY <4>1, <5>1
          <5> QED
            BY <2>4, <4>1, <4>3, <5>2 DEF Knows
        <4> QED
          BY <4>4, <4>5
      <3>3. CASE Prints(t)
        <4>1. Contains(tool[t].ids, given[m]) /\ Contains(tool'[t].ids, tool[t].ids)
          BY <3>1, <3>3 DEF Knows, Prints
        <4>2. Contains(tool'[t].ids, given[m])
          BY <4>1, ContainsMore
        <4>3. \A n \in DOMAIN given'[m] :
                \/ n \in DOMAIN tool'[t].ids /\ given'[m][n] = tool'[t].ids[n]
                \/ n \in DOMAIN given[m] /\ given'[m][n] = given[m][n]
          BY <3>0, <3>3 DEF Prints
        <4>4. Contains(tool'[t].ids, given'[m])
          BY <4>2, <4>3 DEF Contains
        <4>5. ~tool'[t].modified => hist'[m].cat # 0 /\ hist'[m].ids = tool'[t].ids
          BY <3>1, <3>3 DEF Prints, Knows
        <4>6. tool'[t].pc = "close"
          BY <3>3 DEF Prints
        <4> QED
          BY <2>4, <4>4, <4>5, <4>6 DEF Knows
      <3>4. CASE Empties(t)
        BY <2>4, <3>0, <3>1, <3>4 DEF Empties, Knows
      <3>5. CASE Stores(t)
        <4>1. tool[t].cat # 0
          BY <3>0, <3>5 DEF Stores, OwnEntry, HasCategory
        <4> QED
          BY <2>4, <3>0, <3>5, <4>1 DEF Stores, Knows
      <3>6. CASE EmptiesConf(t)
        BY <2>4, <3>0, <3>1, <3>6 DEF EmptiesConf, Knows
      <3> QED
        BY <3>0, <3>2, <3>3, <3>4, <3>5, <3>6 DEF RunStep
    <2> QED
      BY <2>2, <2>3, <2>4
  <1> SUFFICES ASSUME NEW u \in Active', ~Disturbed(tool[u].model)'
               PROVE  Knows(u, tool[u].model)'
    BY DEF GivenInRun, Knows
  <1>4. u \in Tools /\ tool'[u].model \in Models
    BY DEF Active, HistoryTyped, RunOfTool, IdleTool
  <1> QED
    BY <1>3, <1>4

LEMMA InvIdles == BuildInv /\ Idles => BuildInv'
  <1> SUFFICES ASSUME BuildInv, Idles PROVE BuildInv'
    OBVIOUS
  <1> USE DEF Idles
  <1>1. Active' = Active
    BY DEF Active
  <1>2. HistoryTyped'
    BY DEF BuildInv, HistoryTyped
  <1>3. \A m : (Disturbed(m)' <=> Disturbed(m)) /\ (Overlapped(m)' <=> Overlapped(m))
    BY DEF Disturbed, Overlapped
  <1>4. OverlapsSeen' /\ SeesConf' /\ SeesFiles'
    BY <1>1, <1>3 DEF BuildInv, OverlapsSeen, SeesConf, SeesFiles
  <1>5. \A m, c : Holds(m, c)' <=> Holds(m, c)
    BY <1>1 DEF Holds
  <1>6. \A m, m2 : Quiet(m, m2)' <=> Quiet(m, m2)
    BY <1>3 DEF Quiet
  <1>7. OneCategory' /\ OwnCategory'
    BY <1>3, <1>5, <1>6 DEF BuildInv, OneCategory, OwnCategory
  <1>8. \A m : (Settled(m)' <=> Settled(m)) /\ (Elsewhere(m)' <=> Elsewhere(m))
    BY <1>1 DEF Settled, Elsewhere, HasCategory
  <1>9. KnownIfSettled'
    BY <1>3, <1>8 DEF BuildInv, KnownIfSettled
  <1>10. OwnEntry' /\ AllNumbered'
    BY <1>1 DEF BuildInv, OwnEntry, AllNumbered, HasCategory
  <1>11. GivenInBook'
    BY <1>1, <1>3 DEF BuildInv, GivenInBook, WritesBook
  <1>12. GivenInRun'
    BY <1>1, <1>3 DEF BuildInv, GivenInRun
  <1> QED
    BY <1>2, <1>4, <1>7, <1>9, <1>10, <1>11, <1>12 DEF BuildInv

LEMMA InvInit == HistoryInit => HistoryInv
  <1> SUFFICES ASSUME HistoryInit, IsInjective(conf.cats) PROVE BuildInv
    BY DEF HistoryInv, Refused, HistoryInit
  <1>1. HistoryTyped
    BY TypedInit
  <1>2. Active = {}
    BY DEF HistoryInit, Active, IdleTool
  <1>3. \A m \in Models : hist[m].cat = 0 /\ hist[m].ids = Nothing /\ given[m] = Nothing
    BY DEF HistoryInit, NoHistory
  <1>4. DOMAIN Nothing = {}
    BY DEF Nothing
  <1>5. OverlapsSeen /\ SeesConf /\ SeesFiles /\ OwnEntry /\ GivenInRun
    BY <1>2 DEF OverlapsSeen, SeesConf, SeesFiles, OwnEntry, GivenInRun
  <1>6. \A m \in Models : \A c : Holds(m, c) => m \in DOMAIN conf.cats /\ conf.cats[m] = c
    BY <1>2, <1>3 DEF Holds
  <1>7. OneCategory
    BY <1>6 DEF OneCategory
  <1>8. IsInjective(conf.cats) /\ conf \in FirstConf
    BY DEF HistoryInit
  <1>9. \A m, m2 \in DOMAIN conf.cats : conf.cats[m] = conf.cats[m2] => m = m2
    BY <1>8 DEF IsInjective
  <1>10. OwnCategory
    BY <1>6, <1>9 DEF OwnCategory
  <1>11. KnownIfSettled
    BY <1>2, <1>8 DEF KnownIfSettled, Elsewhere, Reserved
  <1>12. AllNumbered
    BY <1>2, <1>3, NothingNumbered DEF AllNumbered
  <1>13. GivenInBook
    BY <1>3, <1>4 DEF GivenInBook, Contains
  <1> QED
    BY <1>1, <1>5, <1>7, <1>10, <1>11, <1>12, <1>13 DEF BuildInv

LEMMA InvStep == BuildInv /\ [HistoryNext]_histVars => BuildInv'
  <1> SUFFICES ASSUME BuildInv, [HistoryNext]_histVars PROVE BuildInv'
    OBVIOUS
  <1>1. /\ HistoryTyped /\ OverlapsSeen /\ SeesConf /\ SeesFiles
        /\ OneCategory /\ OwnCategory /\ KnownIfSettled
        /\ OwnEntry /\ AllNumbered /\ GivenInBook /\ GivenInRun
    BY DEF BuildInv
  <1>2. HistoryTyped' /\ (Idles \/ \E t \in Tools : RunStep(t))
    BY <1>1, StepIs
  <1>3. ASSUME NEW t \in Tools, RunStep(t) PROVE BuildInv'
    <2>1. OverlapsSeen'
      BY <1>1, <1>2, <1>3, OverlapsSeenStep
    <2>2. SeesConf'
      BY <1>1, <1>2, <1>3, SeesConfStep
    <2>3. SeesFiles'
      BY <1>1, <1>2, <1>3, SeesFilesStep
    <2>4. OneCategory'
      BY <1>1, <1>2, <1>3, OneCategoryStep
    <2>5. OwnCategory'
      BY <1>1, <1>2, <1>3, OwnCategoryStep
    <2>6. KnownIfSettled'
      BY <1>1, <1>2, <1>3, KnownIfSettledStep
    <2>7. OwnEntry'
      BY <1>1, <1>2, <1>3, OwnEntryStep
    <2>8. AllNumbered'
      BY <1>1, <1>2, <1>3, AllNumberedStep
    <2>9. GivenInBook'
      BY <1>1, <1>2, <1>3, GivenInBookStep
    <2>10. GivenInRun'
      BY <1>1, <1>2, <1>3, <2>1, GivenInRunStep
    <2> QED
      BY <1>2, <2>1, <2>2, <2>3, <2>4, <2>5, <2>6, <2>7, <2>8, <2>9, <2>10 DEF BuildInv
  <1> QED
    BY <1>2, <1>3, InvIdles

LEMMA RefusedStep == Refused /\ [HistoryNext]_histVars => Refused' /\ given' = given
  <1> SUFFICES ASSUME Refused, [HistoryNext]_histVars PROVE Refused' /\ given' = given
    OBVIOUS
  <1>1. UNCHANGED <<conf, tool, given>>
    <2>1. \A t \in Tools : tool[t].pc = "idle"
      BY DEF Refused, IdleTool
    <2>2. \A t \in Tools : ~Rescan(t) /\ ~Setup(t) /\ ~OpenHistory(t) /\ ~StoreHistory(t)
                             /\ ~OpenConf(t) /\ ~StoreConf(t) /\ ~Crash(t)
      BY <2>1 DEF Rescan, Setup, OpenHistory, StoreHistory, OpenConf, StoreConf, Crash
    <2>3. \A t \in Tools, m \in Models : ~Start(t, m) /\ ~ScanHist(t, m)
      BY <2>1 DEF Refused, Start, ScanHist
    <2>4. \A t \in Tools, content \in Contents : ~GenerateHeader(t, content)
      BY <2>1 DEF GenerateHeader
    <2>5. (\E m \in Models : StartRefused(m)) \/ UNCHANGED histVars
      BY <2>2, <2>3, <2>4 DEF HistoryNext
    <2> QED
      BY <2>5 DEF StartRefused, histVars
  <1> QED
    BY <1>1 DEF Refused

LEMMA HistoryInvStep == HistoryInv /\ [HistoryNext]_histVars => HistoryInv'
  BY InvStep, RefusedStep DEF HistoryInv

\* The numbers of an undisturbed model that were given out lie in a category it has.
LEMMA GivenIsNumbered ==
    ASSUME BuildInv, NEW m \in Models, ~Disturbed(m), DOMAIN given[m] # {}
    PROVE  \E c \in Nat : \E ids : Holds(m, c) /\ Numbered(ids, c) /\ Contains(ids, given[m])
  <1>1. /\ HistoryTyped /\ OwnEntry /\ AllNumbered /\ GivenInBook /\ GivenInRun
    BY DEF BuildInv
  <1>2. ASSUME NEW t \in Tools, WritesBook(t, m)
        PROVE  \E c \in Nat : \E ids : Holds(m, c) /\ Numbered(ids, c) /\ Contains(ids, given[m])
    <2>1. t \in Active /\ tool[t].model = m /\ tool[t].pc \in {"close", "store"}
      BY <1>2 DEF WritesBook
    <2>2. HasCategory(t)
      BY <2>1 DEF HasCategory
    <2>3. m \in DOMAIN tool[t].table.cats /\ tool[t].table.cats[m] = tool[t].cat
      BY <1>1, <2>1, <2>2 DEF OwnEntry
    <2>4. Numbered(tool[t].ids, tool[t].cat) /\ Contains(tool[t].ids, given[m])
      BY <1>1, <2>1, <2>2 DEF AllNumbered, GivenInRun
    <2>5. Holds(m, tool[t].cat)
      BY <2>1, <2>3 DEF Holds
    <2>6. tool[t].cat \in Nat
      BY <1>1, <2>1, ActiveIs DEF RunOfTool
    <2> QED
      BY <2>4, <2>5, <2>6
  <1>3. ASSUME Contains(hist[m].ids, given[m])
        PROVE  \E c \in Nat : \E ids : Holds(m, c) /\ Numbered(ids, c) /\ Contains(ids, given[m])
    <2>1. hist[m].ids # Nothing
      BY <1>3 DEF Contains, Nothing
    <2>2. hist[m].cat # 0 /\ hist[m].cat \in Nat
      BY <1>1, <2>1 DEF HistoryTyped, Book
    <2>3. Holds(m, hist[m].cat) /\ Numbered(hist[m].ids, hist[m].cat)
      BY <1>1, <2>2 DEF Holds, AllNumbered
    <2> QED
      BY <1>3, <2>2, <2>3
  <1> QED
    BY <1>1, <1>2, <1>3 DEF GivenInBook

\* Two categories have no number in common.
LEMMA CategoriesApart ==
    ASSUME NEW c \in Nat, NEW d \in Nat, NEW x \in Nat,
           c * Span <= x, x < (c + 1) * Span, d * Span <= x, x < (d + 1) * Span
    PROVE  c = d
  <1>1. c * Span \in Nat /\ (c + 1) * Span \in Nat /\ (c < d => (c + 1) * Span <= d * Span)
    BY SpanTimes
  <1>2. d * Span \in Nat /\ (d + 1) * Span \in Nat /\ (d < c => (d + 1) * Span <= c * Span)
    BY SpanTimes
  <1>3. ~(c < d)
    BY <1>1, <1>2
  <1>4. ~(d < c)
    BY <1>1, <1>2
  <1> QED
    BY <1>3, <1>4

LEMMA InvDistinct == BuildInv => DistinctIds
  <1> SUFFICES ASSUME BuildInv, NEW m \in Models, NEW m2 \in Models,
                      ~Disturbed(m), ~Disturbed(m2), {m, m2} \notin overlaps,
                      ~({m, m2} \cap Reserved # {} /\ (Overlapped(m) \/ Overlapped(m2))),
                      NEW n \in DOMAIN given[m], NEW n2 \in DOMAIN given[m2],
                      given[m][n] = given[m2][n2]
               PROVE  m = m2 /\ n = n2
    BY DEF DistinctIds
  <1>1. PICK c \in Nat : \E ids : Holds(m, c) /\ Numbered(ids, c) /\ Contains(ids, given[m])
    BY GivenIsNumbered
  <1>2. PICK ids : Holds(m, c) /\ Numbered(ids, c) /\ Contains(ids, given[m])
    BY <1>1
  <1>3. PICK c2 \in Nat : \E ids2 : Holds(m2, c2) /\ Numbered(ids2, c2) /\ Contains(ids2, given[m2])
    BY GivenIsNumbered
  <1>4. PICK ids2 : Holds(m2, c2) /\ Numbered(ids2, c2) /\ Contains(ids2, given[m2])
    BY <1>3
  <1>5. given[m] \in Partial(Names, Nat)
    BY DEF BuildInv, HistoryTyped
  <1>6. given[m][n] \in Nat
    BY <1>5, PartialIs
  <1>7. CASE m = m2
    <2>1. n \in DOMAIN ids /\ n2 \in DOMAIN ids /\ ids[n] = ids[n2]
      BY <1>2, <1>7 DEF Contains
    <2> QED
      BY <1>2, <1>7, <2>1 DEF Numbered
  <1>8. CASE m # m2
    <2>1. n \in DOMAIN ids /\ ids[n] = given[m][n] /\ n2 \in DOMAIN ids2 /\ ids2[n2] = given[m][n]
      BY <1>2, <1>4 DEF Contains
    <2>2. /\ c * Span <= given[m][n] /\ given[m][n] < (c + 1) * Span
          /\ c2 * Span <= given[m][n] /\ given[m][n] < (c2 + 1) * Span
      BY <1>2, <1>4, <2>1 DEF Numbered
    <2>3. c = c2
      BY <1>6, <2>2, CategoriesApart
    <2>4. Quiet(m, m2)
      BY DEF Quiet
    <2> QED
      BY <1>2, <1>4, <1>8, <2>3, <2>4 DEF BuildInv, OwnCategory
  <1> QED
    BY <1>7, <1>8

LEMMA StepStable ==
    ASSUME BuildInv, [HistoryNext]_histVars, NEW m \in Models, NEW n \in DOMAIN given[m] \cap DOMAIN given'[m]
    PROVE  given'[m][n] = given[m][n] \/ Disturbed(m)'
  <1>1. /\ HistoryTyped /\ OwnEntry /\ AllNumbered /\ GivenInRun
    BY DEF BuildInv
  <1>2. HistoryTyped' /\ (Idles \/ \E t \in Tools : RunStep(t))
    BY <1>1, StepIs
  <1>3. CASE given'[m] = given[m]
    BY <1>3
  <1>4. CASE given'[m] # given[m]
    <2>1. PICK t \in Tools : RunStep(t)
      BY <1>2, <1>4 DEF Idles
    <2>2. Prints(t)
      BY <1>4, <2>1 DEF RunStep, Begins, Stops, Scans, SetsUp, Empties, Stores, EmptiesConf
    <2>3. tool[t].model = m /\ tool[t].pc = "write" /\ overlaps' = overlaps /\ lost' = lost
      BY <1>4, <2>2 DEF Prints, CarriesOn
    <2>4. t \in Active
      BY <2>3 DEF Active
    <2>5. Disturbed(m) => Disturbed(m)'
      BY <2>3, DisturbedGrows
    <2>6. ASSUME ~Disturbed(m) PROVE given'[m][n] = given[m][n]
      <3>1. Contains(tool[t].ids, given[m])
        BY <1>1, <2>3, <2>4, <2>6 DEF GivenInRun
      <3>2. Contains(tool'[t].ids, tool[t].ids)
        BY <2>2 DEF Prints
      <3>3. n \in DOMAIN tool'[t].ids /\ tool'[t].ids[n] = given[m][n]
        BY <3>1, <3>2 DEF Contains
      <3> QED
        BY <2>2, <2>3, <3>3 DEF Prints
    <2> QED
      BY <2>5, <2>6
  <1> QED
    BY <1>3, <1>4

LEMMA RefusedDistinct == Refused => DistinctIds
  BY DEF Refused, DistinctIds, Nothing

\* The inductive invariant of the YANG tools, for every set of models, versions
\* of them and runs of the tool.
THEOREM HistoryInvariant == HistorySpec => []HistoryInv
  BY InvInit, HistoryInvStep, PTL DEF HistorySpec

\* No number of a header has ever meant two names, of one model or of two, but
\* for models that were disturbed or overlapped (object_history.py, add_enum and
\* get_category).
THEOREM NumbersDistinct == HistorySpec => []DistinctIds
  <1>1. HistoryInv => DistinctIds
    BY InvDistinct, RefusedDistinct DEF HistoryInv
  <1> QED
    BY HistoryInvariant, <1>1, PTL

\* A name keeps the number it had in an earlier header, unless the model was
\* disturbed (object_history.py, the history files).
THEOREM NumbersStable == HistorySpec => StableIds
  <1>1. HistoryInv /\ [HistoryNext]_histVars =>
          [\A m \in Models : \A n \in DOMAIN given[m] \cap DOMAIN given'[m] :
             given'[m][n] = given[m][n] \/ Disturbed(m)']_histVars
    BY StepStable, RefusedStep DEF HistoryInv
  <1> QED
    BY <1>1, HistoryInvariant, PTL DEF HistorySpec, StableIds
=============================================================================
