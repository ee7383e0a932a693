----------------------- MODULE CpsRegistrationsProofs -----------------------
(***************************************************************************)
(* What Without leaves of a list of registrations, by induction over the   *)
(* length of the list.                                                     *)
(***************************************************************************)
EXTENDS CpsRegistrations, WellFoundedInduction, SequenceTheorems, TLAPS

LEMMA LeastNumber ==
    ASSUME NEW T \in SUBSET Nat, T # {}
    PROVE  \E n \in T : \A m \in T : n <= m
  <1> DEFINE R == OpToRel(<, Nat)
  <1>1. IsWellFoundedOn(R, Nat)
    BY NatLessThanWellFounded
  <1>2. PICK n \in T : \A y \in T : ~ (<<y, n>> \in R)
    BY <1>1, WFMin, Zenon
  <1>3. ASSUME NEW m \in T PROVE n <= m
    <2>1. ~(m < n)
      BY <1>2 DEF OpToRel
    <2> QED
      BY <2>1
  <1> QED
    BY <1>3

LEMMA Induction ==
    ASSUME NEW T \in SUBSET Nat, 0 \in T, \A n \in T : n + 1 \in T
    PROVE  T = Nat
  <1> SUFFICES ASSUME Nat \ T # {} PROVE FALSE
    OBVIOUS
  <1>1. PICK n \in Nat \ T : \A m \in Nat \ T : n <= m
    BY LeastNumber
  <1>2. n # 0 /\ n - 1 \in Nat /\ ~(n <= n - 1)
    OBVIOUS
  <1>3. n - 1 \in T
    BY <1>1, <1>2
  <1> QED
    BY <1>2, <1>3

\* One step of Kept.
KeptStep(s, fd, f, n) ==
    IF n = 0 THEN <<>>
    ELSE IF s[n].fd = fd THEN f[n - 1] ELSE Append(f[n - 1], s[n])

LEMMA KeptSteps ==
    ASSUME NEW S, NEW s \in Seq(S), NEW fd
    PROVE  /\ Kept(s, fd) \in [0..Len(s) -> Seq(S)]
           /\ \A n \in 0..Len(s) : Kept(s, fd)[n] = KeptStep(s, fd, Kept(s, fd), n)
  <1> DEFINE F(n) == CHOOSE f : f = [m \in 0..n |-> KeptStep(s, fd, f, m)]
             T == {n \in Nat : \E f : f = [m \in 0..n |-> KeptStep(s, fd, f, m)]}
  <1>1. 0 \in T
    <2> DEFINE f == [m \in 0..0 |-> <<>>]
    <2>1. \A m \in 0..0 : KeptStep(s, fd, f, m) = <<>>
      BY DEF KeptStep
    <2>2. f = [m \in 0..0 |-> KeptStep(s, fd, f, m)]
      BY <2>1
    <2> HIDE DEF f
    <2> QED
      BY <2>2
  <1>2. ASSUME NEW n \in T PROVE n + 1 \in T
    <2>1. PICK f : f = [m \in 0..n |-> KeptStep(s, fd, f, m)]
      OBVIOUS
    <2> DEFINE g == [m \in 0..(n + 1) |-> IF m = n + 1 THEN KeptStep(s, fd, f, n + 1) ELSE f[m]]
    <2>2. ASSUME NEW m \in 0..(n + 1) PROVE g[m] = KeptStep(s, fd, g, m)
      <3>1. CASE m = 0
        <4>1. 0 \in 0..n /\ 0 \in 0..(n + 1) /\ 0 # n + 1
          OBVIOUS
        <4>2. g[0] = f[0]
          BY <4>1
        <4>3. f[0] = KeptStep(s, fd, f, 0)
          BY <4>1, <2>1
        <4>4. KeptStep(s, fd, f, 0) = KeptStep(s, fd, g, 0)
          BY DEF KeptStep
        <4> QED
          BY <3>1, <4>2, <4>3, <4>4
      <3>2. CASE m # 0
        <4>1. m - 1 \in 0..n /\ m - 1 # n + 1 /\ g[m - 1] = f[m - 1]
          BY <3>2
        <4>2. KeptStep(s, fd, g, m) = KeptStep(s, fd, f, m)
          BY <4>1, <3>2 DEF KeptStep
        <4>3. CASE m = n + 1
          BY <4>2, <4>3
        <4>4. CASE m # n + 1
          <5>1. m \in 0..n
            BY <4>4
          <5>2. f[m] = KeptStep(s, fd, f, m)
            BY <5>1, <2>1
          <5> QED
            BY <4>4, <5>2, <4>2
        <4> QED
          BY <4>3, <4>4
      <3> QED
        BY <3>1, <3>2
    <2>3. g = [m \in 0..(n + 1) |-> KeptStep(s, fd, g, m)]
      BY <2>2
    <2> HIDE DEF g
    <2> QED
      BY <2>3
  <1>3. T = Nat
    <2> HIDE DEF T
    <2>1. T \in SUBSET Nat
      BY DEF T
    <2> QED
      BY <1>1, <1>2, <2>1, Induction
  <1>4. Len(s) \in T
    BY <1>3
  <1>5. \E f : f = [m \in 0..Len(s) |-> KeptStep(s, fd, f, m)]
    BY <1>4
  <1> DEFINE K == Kept(s, fd)
  <1>6. K = [m \in 0..Len(s) |-> KeptStep(s, fd, K, m)]
    BY <1>5, Zenon DEF Kept, KeptStep
  <1> HIDE DEF K
  <1>7. \A n \in 0..Len(s) : K[n] = KeptStep(s, fd, K, n)
    BY <1>6
  <1> DEFINE U == {n \in Nat : n <= Len(s) => K[n] \in Seq(S)}
  <1>8. 0 \in U
    <2>1. 0 \in 0..Len(s) /\ <<>> \in Seq(S)
      OBVIOUS
    <2>2. K[0] = <<>>
      BY <1>7, <2>1 DEF KeptStep
    <2> QED
      BY <2>1, <2>2
  <1>9. ASSUME NEW n \in U PROVE n + 1 \in U
    <2> SUFFICES ASSUME n + 1 <= Len(s) PROVE K[n + 1] \in Seq(S)
      OBVIOUS
    <2>1. K[n] \in Seq(S) /\ n + 1 \in 0..Len(s) /\ s[n + 1] \in S
      OBVIOUS
    <2>2. K[n + 1] = IF s[n + 1].fd = fd THEN K[n] ELSE Append(K[n], s[n + 1])
      BY <1>7, <2>1 DEF KeptStep
    <2> QED
      BY <2>1, <2>2
  <1>10. U = Nat
    <2> HIDE DEF U
    <2>1. U \in SUBSET Nat
      BY DEF U
    <2> QED
      BY <1>8, <1>9, <2>1, Induction
  <1>11. \A n \in 0..Len(s) : K[n] \in Seq(S)
    BY <1>10
  <1>12. K \in [0..Len(s) -> Seq(S)]
    <2>1. \A n \in 0..Len(s) : KeptStep(s, fd, K, n) \in Seq(S)
      BY <1>7, <1>11
    <2> QED
      BY <2>1, <1>6
  <1> QED
    BY <1>7, <1>12 DEF K

\* A list without registrations on fd stays as it is.
LEMMA WithoutNone ==
    ASSUME NEW S, NEW s \in Seq(S), NEW fd, \A i \in DOMAIN s : s[i].fd # fd
    PROVE  Without(s, fd) = s
  <1> DEFINE K == Kept(s, fd)
             T == {n \in Nat : n <= Len(s) => K[n] = SubSeq(s, 1, n)}
  <1>1. \A n \in 0..Len(s) : K[n] = KeptStep(s, fd, K, n)
    BY KeptSteps
  <1> HIDE DEF K
  <1>2. 0 \in T
    <2>1. 0 \in 0..Len(s) /\ SubSeq(s, 1, 0) = <<>>
      OBVIOUS
    <2> QED
      BY <2>1, <1>1 DEF KeptStep
  <1>3. ASSUME NEW n \in T PROVE n + 1 \in T
    <2> SUFFICES ASSUME n + 1 <= Len(s) PROVE K[n + 1] = SubSeq(s, 1, n + 1)
      OBVIOUS
    <2>1. n + 1 \in 0..Len(s) /\ n + 1 \in DOMAIN s /\ n + 1 # 0 /\ (n + 1) - 1 = n
      OBVIOUS
    <2>2. K[n] = SubSeq(s, 1, n)
      OBVIOUS
    <2>3. K[n + 1] = Append(SubSeq(s, 1, n), s[n + 1])
      BY <1>1, <2>1, <2>2 DEF KeptStep
    <2>4. Append(SubSeq(s, 1, n), s[n + 1]) = SubSeq(s, 1, n + 1)
      BY <2>1
    <2> QED
      BY <2>3, <2>4
  <1>4. T = Nat
    <2> HIDE DEF T
    <2>1. T \in SUBSET Nat
      BY DEF T
    <2> QED
      BY <1>2, <1>3, <2>1, Induction
  <1>5. K[Len(s)] = SubSeq(s, 1, Len(s))
    BY <1>4
  <1>6. SubSeq(s, 1, Len(s)) = s
    OBVIOUS
  <1> QED
    BY <1>5, <1>6 DEF Without, K

\* Taking out one registration on fd leaves as many of the others.
LEMMA WithoutErased ==
    ASSUME NEW S, NEW s \in Seq(S), NEW fd, NEW i \in DOMAIN s, s[i].fd = fd,
           NEW t \in Seq(S), Len(t) = Len(s) - 1,
           \A j \in 1..Len(t) : t[j] = IF j < i THEN s[j] ELSE s[j + 1]
    PROVE  Without(t, fd) = Without(s, fd)
  <1> DEFINE K == Kept(s, fd)
             L == Kept(t, fd)
             T == {n \in Nat : n <= Len(s) => K[n] = L[IF n < i THEN n ELSE n - 1]}
  <1>1. \A n \in 0..Len(s) : K[n] = KeptStep(s, fd, K, n)
    BY KeptSteps
  <1>2. \A n \in 0..Len(t) : L[n] = KeptStep(t, fd, L, n)
    BY KeptSteps
  <1> HIDE DEF K, L
  <1>3. 0 \in T
    <2>1. 0 \in 0..Len(s) /\ 0 \in 0..Len(t) /\ 0 < i
      OBVIOUS
    <2>2. K[0] = <<>> /\ L[0] = <<>>
      BY <2>1, <1>1, <1>2 DEF KeptStep
    <2> QED
      BY <2>1, <2>2
  <1>4. ASSUME NEW n \in T PROVE n + 1 \in T
    <2> SUFFICES ASSUME n + 1 <= Len(s)
                 PROVE  K[n + 1] = L[IF n + 1 < i THEN n + 1 ELSE n]
      OBVIOUS
    <2>1. n + 1 \in 0..Len(s) /\ n + 1 # 0 /\ (n + 1) - 1 = n
      OBVIOUS
    <2>2. K[n] = L[IF n < i THEN n ELSE n - 1]
      OBVIOUS
    <2>3. K[n + 1] = IF s[n + 1].fd = fd THEN K[n] ELSE Append(K[n], s[n + 1])
      BY <1>1, <2>1 DEF KeptStep
    <2>4. CASE n + 1 < i
      <3>1. n + 1 \in 0..Len(t) /\ n + 1 \in 1..Len(t) /\ n < i
        BY <2>4
      <3>2. t[n + 1] = s[n + 1]
        BY <3>1, <2>4
      <3>3. L[n + 1] = IF t[n + 1].fd = fd THEN L[n] ELSE Append(L[n], t[n + 1])
        BY <1>2, <2>1, <3>1 DEF KeptStep
      <3> QED
        BY <2>2, <2>3, <2>4, <3>1, <3>2, <3>3
    <2>5. CASE n + 1 = i
      <3>1. K[n + 1] = K[n]
        BY <2>3, <2>5
      <3> QED
        BY <2>2, <2>5, <3>1
    <2>6. CASE n + 1 > i
      <3>1. n \in 0..Len(t) /\ n \in 1..Len(t) /\ ~(n < i) /\ n # 0
        BY <2>6
      <3>2. t[n] = s[n + 1]
        BY <3>1
      <3>3. L[n] = IF t[n].fd = fd THEN L[n - 1] ELSE Append(L[n - 1], t[n])
        BY <1>2, <3>1 DEF KeptStep
      <3> QED
        BY <2>2, <2>3, <2>6, <3>1, <3>2, <3>3
    <2> QED
      BY <2>4, <2>5, <2>6
  <1>5. T = Nat
    <2> HIDE DEF T
    <2>1. T \in SUBSET Nat
      BY DEF T
    <2> QED
      BY <1>3, <1>4, <2>1, Induction
  <1>6. K[Len(s)] = L[Len(s) - 1]
    <2>1. Len(s) \in T /\ ~(Len(s) < i)
      BY <1>5
    <2> QED
      BY <2>1
  <1> QED
    BY <1>6 DEF Without, K, L

\* What is left was there, and was not made on fd.
LEMMA WithoutRange ==
    ASSUME NEW S, NEW s \in Seq(S), NEW fd
    PROVE  /\ Without(s, fd) \in Seq(S)
           /\ \A r \in S : (\E j \in DOMAIN Without(s, fd) : Without(s, fd)[j] = r) <=>
                           (\E i \in DOMAIN s : s[i] = r) /\ r.fd # fd
  <1> DEFINE K == Kept(s, fd)
             In(n, r) == \E j \in DOMAIN K[n] : K[n][j] = r
             T == {n \in Nat : n <= Len(s) =>
                      \A r \in S : In(n, r) <=> (\E i \in 1..n : s[i] = r) /\ r.fd # fd}
  <1>1. \A n \in 0..Len(s) : K[n] = KeptStep(s, fd, K, n)
    BY KeptSteps
  <1>2. \A n \in 0..Len(s) : K[n] \in Seq(S)
    BY KeptSteps
  <1> HIDE DEF K
  <1>3. 0 \in T
    <2>1. 0 \in 0..Len(s)
      OBVIOUS
    <2>2. K[0] = <<>>
      BY <2>1, <1>1 DEF KeptStep
    <2> QED
      BY <2>1, <2>2
  <1>4. ASSUME NEW n \in T PROVE n + 1 \in T
    <2> SUFFICES ASSUME n + 1 <= Len(s), NEW r \in S
                 PROVE  In(n + 1, r) <=> (\E i \in 1..(n + 1) : s[i] = r) /\ r.fd # fd
      OBVIOUS
    <2>1. n + 1 \in 0..Len(s) /\ n \in 0..Len(s) /\ n + 1 # 0 /\ (n + 1) - 1 = n
      OBVIOUS
    <2>2. In(n, r) <=> (\E i \in 1..n : s[i] = r) /\ r.fd # fd
      OBVIOUS
    <2>3. K[n + 1] = IF s[n + 1].fd = fd THEN K[n] ELSE Append(K[n], s[n + 1])
      BY <1>1, <2>1 DEF KeptStep
    <2>4. (\E i \in 1..(n + 1) : s[i] = r) <=> (\E i \in 1..n : s[i] = r) \/ s[n + 1] = r
      OBVIOUS
    <2>5. CASE s[n + 1].fd = fd
      BY <2>2, <2>3, <2>4, <2>5
    <2>6. CASE s[n + 1].fd # fd
      <3>1. K[n] \in Seq(S) /\ s[n + 1] \in S
        BY <1>2, <2>1
      <3>2. In(n + 1, r) <=> In(n, r) \/ s[n + 1] = r
        <4> DEFINE a == K[n]
                   b == Append(a, s[n + 1])
        <4>1. DOMAIN b = 1..(Len(a) + 1) /\ DOMAIN a = 1..Len(a) /\ Len(a) \in Nat
          BY <3>1
        <4>2. b[Len(a) + 1] = s[n + 1] /\ \A j \in 1..Len(a) : b[j] = a[j]
          BY <3>1
        <4>3. K[n + 1] = b
          BY <2>3, <2>6
        <4> HIDE DEF a, b
        <4>4. (\E j \in DOMAIN b : b[j] = r) <=> (\E j \in DOMAIN a : a[j] = r) \/ s[n + 1] = r
          BY <4>1, <4>2
        <4> QED
          BY <4>3, <4>4 DEF a
      <3> QED
        BY <2>2, <2>4, <2>6, <3>2
    <2> QED
      BY <2>5, <2>6
  <1>5. T = Nat
    <2> HIDE DEF T
    <2>1. T \in SUBSET Nat
      BY DEF T
    <2> QED
      BY <1>3, <1>4, <2>1, Induction
  <1>6. \A r \in S : In(Len(s), r) <=> (\E i \in 1..Len(s) : s[i] = r) /\ r.fd # fd
    BY <1>5
  <1>7. K[Len(s)] \in Seq(S) /\ DOMAIN s = 1..Len(s)
    BY <1>2
  <1> QED
    BY <1>6, <1>7 DEF Without, K
=============================================================================
