-------------------------- MODULE InputTensorProofs --------------------------
(***************************************************************************)
(* Proofs about the tokenizer and the input tensor: whatever the vocabulary*)
(* and the words, the ids of a word are those of its division into longest *)
(* pieces; and whatever the length of rows and whichever requests of a     *)
(* batch are late, row b of the tensor is that of the b-th valid request.  *)
(***************************************************************************)
EXTENDS InputTensor, EngineProofs, WellFoundedInduction

-----------------------------------------------------------------------------
(* Sequences of sequences                                                  *)

LEMMA Inductive ==
  ASSUME NEW S, 0 \in S, \A n \in Nat : n \in S => n + 1 \in S
  PROVE  Nat \subseteq S
<1> DEFINE T == Nat \ S
<1>1. T \in SUBSET Nat /\ (\A n \in Nat : n \in T <=> n \notin S)
  OBVIOUS
<1> HIDE DEF T
<1>2. ASSUME T # {} PROVE FALSE
  <2>1. PICK n \in T : \A k \in T : ~(<<k, n>> \in OpToRel(<, Nat))
    BY <1>1, <1>2, NatLessThanWellFounded, WFMin
  <2>2. n \in Nat /\ \A k \in T : ~(k < n)
    BY <1>1, <2>1 DEF OpToRel
  <2>3. n # 0
    BY <1>1, <2>1
  <2>4. n - 1 \in Nat /\ n - 1 < n /\ n - 1 + 1 = n
    BY <2>2, <2>3
  <2>5. n - 1 \in S
    BY <1>1, <2>2, <2>4
  <2>6. n \in S
    BY <2>4, <2>5
  <2> QED
    BY <1>1, <2>1, <2>2, <2>6
<1> QED
  BY <1>1, <1>2

\* The sequences f that FlattenSeq builds one on the other.
LEMMA FlattenIs ==
  ASSUME NEW X, NEW s \in Seq(Seq(X)), Len(s) # 0
  PROVE  \E f \in [1..Len(s) -> Seq(X)] :
            /\ f[1] = s[1]
            /\ \A i \in 2..Len(s) : f[i] = f[i - 1] \o s[i]
            /\ FlattenSeq(s) = f[Len(s)]
<1> DEFINE N == Len(s)
           step(g) == [i \in 1..N |-> IF i = 1 THEN s[i] ELSE g[i - 1] \o s[i]]
           flatten == CHOOSE g : g = step(g)
           Good(m) == {f \in [1..m -> Seq(X)] :
                         \A i \in 1..m : f[i] = IF i = 1 THEN s[i] ELSE f[i - 1] \o s[i]}
           S == {m \in Nat : m <= N => Good(m) # {}}
<1>1. FlattenSeq(s) = flatten[N]
  BY DEF FlattenSeq
<1>2. N \in Nat /\ N # 0 /\ \A i \in 1..N : s[i] \in Seq(X)
  OBVIOUS
<1>3. 0 \in S
  <2> DEFINE f == [i \in 1..0 |-> <<>>]
  <2>1. 1..0 = {}
    OBVIOUS
  <2>2. f \in [1..0 -> Seq(X)] /\ \A i \in 1..0 : f[i] = IF i = 1 THEN s[i] ELSE f[i - 1] \o s[i]
    BY <2>1, Zenon
  <2>3. f \in Good(0)
    BY <2>2, Zenon
  <2> QED
    BY <2>3, Zenon
<1>4. ASSUME NEW m \in Nat, m \in S PROVE m + 1 \in S
  <2> SUFFICES ASSUME m + 1 <= N PROVE Good(m + 1) # {}
    OBVIOUS
  <2>0. m <= N
    BY <1>2
  <2>1. PICK f \in Good(m) : TRUE
    BY <1>4, <2>0, Zenon
  <2> DEFINE e == IF m = 0 THEN s[1] ELSE f[m] \o s[m + 1]
             h == [i \in 1..m + 1 |-> IF i = m + 1 THEN e ELSE f[i]]
  <2>2. s[1] \in Seq(X) /\ s[m + 1] \in Seq(X) /\ (m # 0 => f[m] \in Seq(X))
    BY <1>2
  <2>3. e \in Seq(X)
    BY <2>2
  <2> HIDE DEF e
  <2>4. h \in [1..m + 1 -> Seq(X)]
    BY <2>3
  <2>5. ASSUME NEW i \in 1..m + 1
        PROVE  h[i] = IF i = 1 THEN s[i] ELSE h[i - 1] \o s[i]
    <3>1. CASE i = m + 1
      <4>1. CASE m = 0
        <5>1. h[i] = e /\ i = 1
          BY <3>1, <4>1
        <5> QED
          BY <4>1, <5>1 DEF e
      <4>2. CASE m # 0
        <5>1. h[i] = e /\ h[i - 1] = f[m]
          BY <3>1, <4>2
        <5> QED
          BY <3>1, <4>2, <5>1, i # 1, Zenon DEF e
      <4> QED
        BY <4>1, <4>2
    <3>2. CASE i # m + 1
      <4>1. i \in 1..m /\ h[i] = f[i] /\ (i # 1 => h[i - 1] = f[i - 1])
        BY <3>2
      <4>2. f[i] = IF i = 1 THEN s[i] ELSE f[i - 1] \o s[i]
        BY <2>1, <4>1, Zenon
      <4> HIDE DEF h
      <4> QED
        BY <4>1, <4>2, Zenon
    <3> QED
      BY <3>1, <3>2
  <2> HIDE DEF h
  <2>6. h \in Good(m + 1)
    BY <2>4, <2>5, Zenon
  <2> HIDE DEF Good
  <2> QED
    BY <2>6, Zenon
<1> HIDE DEF S
<1>5. N \in S
  BY <1>2, <1>3, <1>4, Inductive
<1>6. PICK f \in Good(N) : TRUE
  BY <1>2, <1>5 DEF S
<1>7. f = step(f)
  OBVIOUS
<1>8. flatten = step(flatten)
  BY <1>7
<1> HIDE DEF flatten
<1>9a. DOMAIN flatten = 1..N
  BY <1>8
<1>9b. ASSUME NEW i \in 1..N
       PROVE  flatten[i] = IF i = 1 THEN s[i] ELSE flatten[i - 1] \o s[i]
  BY <1>8
<1>9c. flatten = [i \in 1..N |-> flatten[i]]
  BY <1>8
<1> DEFINE R == {m \in Nat : m + 1 <= N => flatten[m + 1] \in Seq(X)}
<1>9. 0 \in R
  BY <1>2, <1>9b
<1>10. ASSUME NEW m \in Nat, m \in R PROVE m + 1 \in R
  <2> SUFFICES ASSUME m + 2 <= N PROVE flatten[m + 2] \in Seq(X)
    OBVIOUS
  <2>1. flatten[m + 1] \in Seq(X) /\ s[m + 2] \in Seq(X) /\ m + 2 \in 1..N
    BY <1>2, <1>10
  <2>2. flatten[m + 2] = flatten[m + 1] \o s[m + 2]
    <3>1. PICK i \in Nat : i = m + 2
      OBVIOUS
    <3>2. i \in 1..N /\ i # 1 /\ i - 1 = m + 1
      BY <2>1, <3>1
    <3>3. flatten[i] = flatten[i - 1] \o s[i]
      BY <1>9b, <3>2, Zenon
    <3> QED
      BY <3>1, <3>2, <3>3
  <2> QED
    BY <2>1, <2>2
<1> HIDE DEF R
<1>11. Nat \subseteq R
  BY <1>9, <1>10, Inductive
<1>12. ASSUME NEW i \in 1..N PROVE flatten[i] \in Seq(X)
  <2>1. i - 1 \in R /\ i - 1 + 1 = i
    BY <1>2, <1>11
  <2> QED
    BY <1>2, <2>1 DEF R
<1>13. flatten \in [1..N -> Seq(X)]
  BY <1>9c, <1>12
<1>14. flatten[1] = s[1] /\ \A i \in 2..N : flatten[i] = flatten[i - 1] \o s[i]
  <2>1. 1 \in 1..N
    BY <1>2
  <2>2. ASSUME NEW i \in 2..N PROVE i \in 1..N /\ i # 1
    OBVIOUS
  <2> QED
    BY <1>9b, <2>1, <2>2, Zenon
<1> QED
  BY <1>1, <1>13, <1>14

LEMMA FlattenType ==
  ASSUME NEW X, NEW s \in Seq(Seq(X))
  PROVE  FlattenSeq(s) \in Seq(X)
<1>1. CASE Len(s) = 0
  <2>1. FlattenSeq(s) = s
    BY <1>1 DEF FlattenSeq
  <2>2. s = <<>>
    BY <1>1
  <2>3. <<>> \in Seq(X)
    OBVIOUS
  <2> QED
    BY <2>1, <2>2, <2>3
<1>2. CASE Len(s) # 0
  <2>1. PICK f \in [1..Len(s) -> Seq(X)] : FlattenSeq(s) = f[Len(s)]
    BY <1>2, FlattenIs
  <2>2. Len(s) \in 1..Len(s)
    BY <1>2
  <2> QED
    BY <2>1, <2>2
<1> QED
  BY <1>1, <1>2

LEMMA Products ==
  ASSUME NEW L \in Nat, NEW b \in Nat, NEW m \in Nat
  PROVE  /\ (m + 1) * L = m * L + L
         /\ m * L \in Nat
         /\ b <= m => b * L <= m * L
         /\ 0 * L = 0 /\ 1 * L = L
<1>1. (m + 1) * L = m * L + L /\ m * L \in Nat /\ 0 * L = 0 /\ 1 * L = L
  OBVIOUS
<1>2. ASSUME b <= m PROVE b * L <= m * L
  <2>1. PICK d \in Nat : m = b + d
    <3>1. m - b \in Nat /\ m = b + (m - b)
      BY <1>2
    <3> QED
      BY <3>1
  <2>2. m * L = b * L + d * L
    BY <2>1
  <2>3. d * L \in Nat /\ b * L \in Nat
    OBVIOUS
  <2> QED
    BY <2>2, <2>3
<1> QED
  BY <1>1, <1>2

\* A part of the front of a concatenation, and its end.
LEMMA Parts ==
  ASSUME NEW X, NEW s \in Seq(X), NEW t \in Seq(X)
  PROVE  /\ s \o t \in Seq(X) /\ Len(s \o t) = Len(s) + Len(t)
         /\ SubSeq(s \o t, Len(s) + 1, Len(s) + Len(t)) = t
         /\ SubSeq(s, 1, Len(s)) = s
  OBVIOUS

LEMMA FrontPart ==
  ASSUME NEW X, NEW s \in Seq(X), NEW t \in Seq(X), NEW i \in Nat, NEW k \in Nat,
         1 <= i, k <= Len(s)
  PROVE  SubSeq(s \o t, i, k) = SubSeq(s, i, k)
  OBVIOUS

\* Of rows of equal length the b-th is found at its place.
LEMMA FlattenRows ==
  ASSUME NEW X, NEW L \in Nat, NEW s \in Seq(Seq(X)),
         \A i \in DOMAIN s : Len(s[i]) = L
  PROVE  /\ Len(FlattenSeq(s)) = Len(s) * L
         /\ \A b \in DOMAIN s : SubSeq(FlattenSeq(s), (b - 1) * L + 1, b * L) = s[b]
<1>1. CASE Len(s) = 0
  <2>1. FlattenSeq(s) = s
    BY <1>1 DEF FlattenSeq
  <2>2. DOMAIN s = {} /\ Len(s) * L = 0
    BY <1>1
  <2> QED
    BY <1>1, <2>1, <2>2
<1>2. CASE Len(s) # 0
  <2> DEFINE N == Len(s)
  <2>1. N \in Nat /\ N # 0 /\ DOMAIN s = 1..N /\ \A i \in 1..N : s[i] \in Seq(X) /\ Len(s[i]) = L
    BY <1>2
  <2>2. PICK f \in [1..N -> Seq(X)] :
            /\ f[1] = s[1]
            /\ \A i \in 2..N : f[i] = f[i - 1] \o s[i]
            /\ FlattenSeq(s) = f[N]
    BY <1>2, FlattenIs
  <2> DEFINE Whole(m) ==
               /\ Len(f[m]) = m * L
               /\ \A b \in 1..m : SubSeq(f[m], (b - 1) * L + 1, b * L) = s[b]
             S == {m \in Nat : m + 1 <= N => Whole(m + 1)}
  <2> HIDE DEF N
  <2>3. 0 \in S
    <3>1. f[1] = s[1] /\ s[1] \in Seq(X) /\ Len(s[1]) = L /\ SubSeq(s[1], 1, Len(s[1])) = s[1]
      BY <2>1, <2>2, 1 \in 1..N, Parts
    <3>2. 1 * L = L /\ 0 * L = 0 /\ (1 - 1) * L + 1 = 1
      OBVIOUS
    <3>3. Len(f[1]) = 1 * L
      BY <3>1, <3>2
    <3>4. SubSeq(f[1], (1 - 1) * L + 1, 1 * L) = s[1]
      BY <3>1, <3>2, Zenon
    <3>5. Whole(1)
      <4>1. \A b \in 1..1 : b = 1
        OBVIOUS
      <4> QED
        BY <3>3, <3>4, <4>1, Zenon
    <3>6. 0 + 1 = 1 /\ 0 \in Nat
      OBVIOUS
    <3> HIDE DEF Whole
    <3> QED
      BY <3>5, <3>6
  <2>4. ASSUME NEW m \in Nat, m \in S PROVE m + 1 \in S
    <3> SUFFICES ASSUME m + 1 + 1 <= N PROVE Whole(m + 1 + 1)
      OBVIOUS
    <3>1. PICK n \in Nat : n = m + 1
      OBVIOUS
    <3>2. n + 1 \in 2..N /\ n \in 1..N /\ n + 1 \in 1..N /\ n + 1 - 1 = n /\ n + 1 <= N
      BY <2>1, <3>1
    <3>3. Whole(n)
      <4> HIDE DEF Whole
      <4>1. m + 1 <= N => Whole(m + 1)
        BY <2>4
      <4> QED
        BY <3>1, <3>2, <4>1
    <3>4. f[n + 1] = f[n] \o s[n + 1] /\ f[n] \in Seq(X) /\ s[n + 1] \in Seq(X)
          /\ Len(s[n + 1]) = L
      <4>1. PICK k \in 2..N : k = n + 1
        BY <3>2
      <4>2. f[k] = f[k - 1] \o s[k]
        BY <2>2, Zenon
      <4>3. k - 1 = n
        BY <3>2, <4>1
      <4> QED
        BY <2>1, <3>2, <4>1, <4>2, <4>3
    <3> DEFINE u == f[n]
               v == s[n + 1]
    <3>4a. f[n + 1] = u \o v /\ u \in Seq(X) /\ v \in Seq(X) /\ Len(v) = L
      BY <3>4
    <3>5. Len(u) = n * L /\ n * L \in Nat /\ (n + 1) * L = n * L + L
      BY <3>3, Products
    <3>5a. v = s[n + 1] /\ \A b \in 1..n : SubSeq(u, (b - 1) * L + 1, b * L) = s[b]
      BY <3>3, Zenon
    <3> HIDE DEF u, v, Whole
    <3>6. Len(f[n + 1]) = (n + 1) * L
      <4>1. Len(u \o v) = Len(u) + Len(v)
        BY <3>4a, Parts
      <4> QED
        BY <3>4a, <3>5, <4>1
    <3>7. ASSUME NEW b \in 1..n + 1
          PROVE  SubSeq(f[n + 1], (b - 1) * L + 1, b * L) = s[b]
      <4>1. CASE b = n + 1
        <5>1. (b - 1) * L + 1 = Len(u) + 1 /\ b * L = Len(u) + Len(v)
          BY <3>4a, <3>5, <4>1
        <5>2. SubSeq(u \o v, Len(u) + 1, Len(u) + Len(v)) = v
          BY <3>4a, Parts
        <5> QED
          BY <3>4a, <3>5a, <4>1, <5>1, <5>2
      <4>2. CASE b # n + 1
        <5>1. b \in 1..n /\ b \in Nat /\ b <= n /\ b - 1 \in Nat
          BY <4>2
        <5>2. b * L <= n * L /\ b * L \in Nat /\ (b - 1) * L \in Nat
          BY <5>1, Products
        <5>3. SubSeq(u \o v, (b - 1) * L + 1, b * L) = SubSeq(u, (b - 1) * L + 1, b * L)
          <6> DEFINE from == (b - 1) * L + 1
                     to == b * L
          <6>1. from \in Nat /\ to \in Nat /\ 1 <= from /\ to <= Len(u)
            <7>1. (b - 1) * L + 1 \in Nat /\ 1 <= (b - 1) * L + 1 /\ b * L \in Nat
              <8>1. \A p \in Nat : p + 1 \in Nat /\ 1 <= p + 1
                OBVIOUS
              <8> QED
                BY <5>2, <8>1, Zenon
            <7>2. b * L <= Len(u)
              BY <3>5, <5>2, Zenon
            <7> QED
              BY <7>1, <7>2, Zenon
          <6> HIDE DEF from, to
          <6>2. SubSeq(u \o v, from, to) = SubSeq(u, from, to)
            BY <3>4a, <6>1, FrontPart
          <6> QED
            BY <6>2 DEF from, to
        <5>4. SubSeq(u, (b - 1) * L + 1, b * L) = s[b]
          BY <3>5a, <5>1, Zenon
        <5> QED
          BY <3>4a, <5>3, <5>4, Zenon
      <4> QED
        BY <4>1, <4>2
    <3>8. Whole(n + 1)
      BY <3>6, <3>7, Zenon DEF Whole
    <3> HIDE DEF Whole
    <3> QED
      BY <3>1, <3>8
  <2> HIDE DEF S
  <2>5. Nat \subseteq S
    BY <2>3, <2>4, Inductive
  <2>6. N - 1 \in S /\ N - 1 + 1 = N
    BY <2>1, <2>5
  <2>7. Whole(N)
    <3> HIDE DEF Whole
    <3> USE DEF S
    <3>1. N - 1 + 1 <= N => Whole(N - 1 + 1)
      BY <2>6, Zenon
    <3> QED
      BY <2>1, <2>6, <3>1
  <2> QED
    BY <2>1, <2>2, <2>7, Zenon DEF N
<1> QED
  BY <1>1, <1>2

-----------------------------------------------------------------------------
(* The places of a word                                                    *)

LEMMA MaxIsMember ==
  ASSUME NEW L \in Nat, NEW S \in SUBSET (1..L), S # {}
  PROVE  Max(S) \in S /\ \A x \in S : Max(S) >= x
<1> DEFINE T == {k \in Nat : L - k \in S}
<1>1. PICK y \in S : TRUE
  OBVIOUS
<1>2. L - y \in Nat /\ L - (L - y) = y
  OBVIOUS
<1>3. L - y \in T
  BY <1>2
<1>4. PICK k \in T : \A j \in T : ~(<<j, k>> \in OpToRel(<, Nat))
  <2>1. T \in SUBSET Nat /\ T # {}
    BY <1>3
  <2> HIDE DEF T
  <2> QED
    BY <2>1, NatLessThanWellFounded, WFMin
<1>5. k \in Nat /\ L - k \in S /\ \A j \in T : j \in Nat /\ ~(j < k)
  BY <1>4 DEF OpToRel
<1>6. ASSUME NEW x \in S PROVE L - k >= x
  <2>1. L - x \in Nat /\ L - (L - x) = x
    OBVIOUS
  <2>2. L - x \in T
    BY <2>1
  <2>3. ~(L - x < k)
    BY <1>5, <2>2
  <2> QED
    BY <1>5, <2>1, <2>3
<1>7. \E x \in S : \A z \in S : x >= z
  BY <1>5, <1>6
<1> QED
  BY <1>7, Zenon DEF Max

\* g gives to each place the value there and what the next place has, or an end.
Divides(g, n, bad, stop, v, nxt) ==
    \A i \in 1..n + 1 : g[i] = IF i > n THEN <<>>
                             ELSE IF i \in stop THEN <<bad>>
                             ELSE <<v[i]>> \o g[nxt[i]]

LEMMA Division ==
  ASSUME NEW U, NEW n \in Nat, NEW bad \in U, NEW stop \in SUBSET (1..n),
         NEW v \in [1..n -> U], NEW nxt \in [1..n -> 1..n + 1],
         \A i \in 1..n : nxt[i] > i
  PROVE  \E g \in [1..n + 1 -> Seq(U)] : Divides(g, n, bad, stop, v, nxt)
<1> DEFINE Rule(g, i) == g[i] = IF i > n THEN <<>>
                                ELSE IF i \in stop THEN <<bad>> ELSE <<v[i]>> \o g[nxt[i]]
           Good(m) == {g \in [m..n + 1 -> Seq(U)] : \A i \in m..n + 1 : Rule(g, i)}
           S == {k \in Nat : k <= n => Good(n + 1 - k) # {}}
<1>1. 0 \in S
  <2> DEFINE g == [i \in n + 1..n + 1 |-> <<>>]
  <2>1. g \in [n + 1..n + 1 -> Seq(U)]
    <3>1. <<>> \in Seq(U)
      OBVIOUS
    <3> QED
      BY <3>1, Zenon
  <2>2. ASSUME NEW i \in n + 1..n + 1 PROVE Rule(g, i)
    <3>1. i > n /\ g[i] = <<>>
      OBVIOUS
    <3> QED
      BY <3>1, Zenon
  <2>3. g \in Good(n + 1)
    BY <2>1, <2>2, Zenon
  <2>4. n + 1 - 0 = n + 1
    OBVIOUS
  <2> HIDE DEF Good
  <2> QED
    BY <2>3, <2>4
<1>2. ASSUME NEW k \in Nat, k \in S PROVE k + 1 \in S
  <2> HIDE DEF Good
  <2> SUFFICES ASSUME k + 1 <= n PROVE Good(n + 1 - (k + 1)) # {}
    OBVIOUS
  <2> USE DEF Good
  <2>1. PICK m \in 1..n : m = n - k
    <3>1. n - k \in 1..n
      OBVIOUS
    <3> QED
      BY <3>1
  <2>2. n + 1 - (k + 1) = m /\ n + 1 - k = m + 1 /\ k <= n
    BY <2>1
  <2>2a. Good(m + 1) # {}
    <3> HIDE DEF Good
    <3>1. Good(n + 1 - k) # {}
      BY <1>2, <2>2
    <3> QED
      BY <2>2, <3>1
  <2>3. PICK f \in Good(m + 1) : TRUE
    BY <2>2a, Zenon
  <2> DEFINE e == IF m \in stop THEN <<bad>> ELSE <<v[m]>> \o f[nxt[m]]
             g == [i \in m..n + 1 |-> IF i = m THEN e ELSE f[i]]
  <2>4. nxt[m] \in m + 1..n + 1 /\ v[m] \in U
    OBVIOUS
  <2>5. f[nxt[m]] \in Seq(U) /\ f \in [m + 1..n + 1 -> Seq(U)]
    BY <2>3, <2>4
  <2>6. e \in Seq(U)
    BY <2>4, <2>5
  <2>7. g \in [m..n + 1 -> Seq(U)]
    <3> HIDE DEF e
    <3> QED
      BY <2>5, <2>6
  <2>8. ASSUME NEW i \in m..n + 1 PROVE Rule(g, i)
    <3>1. CASE i = m
      <4>1. ~(i > n) /\ g[nxt[i]] = f[nxt[i]] /\ g[i] = e
        <5> HIDE DEF e
        <5> QED
          BY <2>4, <3>1, SMTT(30)
      <4> HIDE DEF g
      <4> QED
        BY <3>1, <4>1, Zenon
    <3>2. CASE i # m
      <4>1. i \in m + 1..n + 1 /\ (~(i > n) => nxt[i] \in m + 1..n + 1 /\ nxt[i] \in m..n + 1 /\ nxt[i] # m)
        BY <3>2
      <4> HIDE DEF e
      <4>2. g[i] = f[i] /\ (~(i > n) => g[nxt[i]] = f[nxt[i]])
        BY <3>2, <4>1
      <4>3. Rule(f, i)
        BY <2>3, <4>1, Zenon
      <4> HIDE DEF g
      <4> QED
        BY <4>2, <4>3, Zenon
    <3> QED
      BY <3>1, <3>2
  <2>9. g \in Good(m)
    <3> HIDE DEF g, Rule
    <3> QED
      BY <2>7, <2>8, Zenon
  <2> HIDE DEF Good
  <2> QED
    BY <2>2, <2>9
<1> HIDE DEF S
<1>3. n \in S
  BY <1>1, <1>2, Inductive
<1>4. Good(1) # {}
  <2>1. n + 1 - n = 1 /\ n <= n
    OBVIOUS
  <2> HIDE DEF Good
  <2> USE DEF S
  <2>2. Good(n + 1 - n) # {}
    BY <1>3, <2>1
  <2> QED
    BY <2>1, <2>2
<1> QED
  BY <1>4, Zenon DEF Divides

\* A division is determined by its rule.
LEMMA DivisionType ==
  ASSUME NEW U, NEW n \in Nat, NEW bad \in U, NEW stop \in SUBSET (1..n),
         NEW v \in [1..n -> U], NEW nxt \in [1..n -> 1..n + 1],
         \A i \in 1..n : nxt[i] > i,
         NEW g,
         Divides(g, n, bad, stop, v, nxt)
  PROVE  \A i \in 1..n + 1 : g[i] \in Seq(U)
<1> USE DEF Divides
<1> DEFINE S == {k \in Nat : \A i \in 1..n + 1 : i >= n + 1 - k => g[i] \in Seq(U)}
<1>1. 0 \in S
  <2>1. ASSUME NEW i \in 1..n + 1, i >= n + 1 - 0 PROVE g[i] \in Seq(U)
    <3>1. i > n
      BY <2>1
    <3>2. g[i] = <<>>
      BY <3>1, Zenon
    <3>3. <<>> \in Seq(U)
      OBVIOUS
    <3> QED
      BY <3>2, <3>3, Zenon
  <2> QED
    BY <2>1
<1>2. ASSUME NEW k \in Nat, k \in S PROVE k + 1 \in S
  <2> SUFFICES ASSUME NEW i \in 1..n + 1, i >= n + 1 - (k + 1) PROVE g[i] \in Seq(U)
    OBVIOUS
  <2>1. CASE i > n
    <3>1. g[i] = <<>> /\ <<>> \in Seq(U)
      <4>1. <<>> \in Seq(U)
        OBVIOUS
      <4> QED
        BY <2>1, <4>1, Zenon
    <3> QED
      BY <3>1, Zenon
  <2>2. CASE ~(i > n) /\ i \in stop
    <3>1. g[i] = <<bad>>
      BY <2>2, Zenon
    <3>2. <<bad>> \in Seq(U)
      OBVIOUS
    <3> QED
      BY <3>1, <3>2, Zenon
  <2>3. CASE ~(i > n) /\ i \notin stop
    <3>1. g[i] = <<v[i]>> \o g[nxt[i]]
      BY <2>3, Zenon
    <3>2. i \in 1..n /\ nxt[i] \in 1..n + 1 /\ nxt[i] > i /\ v[i] \in U
      BY <2>3
    <3>3. nxt[i] >= n + 1 - k
      BY <3>2
    <3>4. g[nxt[i]] \in Seq(U)
      BY <1>2, <3>2, <3>3
    <3>5. \A t \in Seq(U) : <<v[i]>> \o t \in Seq(U)
      BY <3>2
    <3> QED
      BY <3>1, <3>4, <3>5, Zenon
  <2> QED
    BY <2>1, <2>2, <2>3
<1> HIDE DEF S
<1>3. n \in S
  BY <1>1, <1>2, Inductive
<1>4. \A i \in 1..n + 1 : i >= n + 1 - n
  OBVIOUS
<1> QED
  BY <1>3, <1>4 DEF S

-----------------------------------------------------------------------------
(* The words of a message                                                  *)

\* The ids that the tokenizer writes.
Ids == {vocab[line] : line \in DOMAIN vocab} \cup {Bad, Unknown, Cls, Sep, 0}

\* Where a piece that begins at start may end, the ids of the places, and the
\* places after the longest pieces.
EndsAt(word, start) == {end \in start..Len(word) : Piece(word, start, end) \in DOMAIN vocab}
Stops(word) == {i \in 1..Len(word) : EndsAt(word, i) = {}}
IdAt(word) == [i \in 1..Len(word) |-> IF EndsAt(word, i) = {} THEN Bad
                                      ELSE vocab[Piece(word, i, Max(EndsAt(word, i)))]]
After(word) == [i \in 1..Len(word) |-> IF EndsAt(word, i) = {} THEN i + 1
                                       ELSE Max(EndsAt(word, i)) + 1]

LEMMA VocabIds ==
  ASSUME NEW line \in DOMAIN vocab
  PROVE  vocab[line] \in Nat /\ vocab[line] \in Ids
<1> DEFINE S == {i \in DOMAIN VocabFile : VocabFile[i] = line}
<1>1. VocabFile \in Seq(Seq(Chars)) /\ line \in ToSet(VocabFile) /\ vocab[line] = Max(S) - 1
  BY TokenizerAssumption, Zenon DEF vocab
<1>2. S # {}
  BY <1>1 DEF ToSet
<1>3. S \in SUBSET (1..Len(VocabFile)) /\ Len(VocabFile) \in Nat
  BY <1>1
<1> HIDE DEF S
<1>4. Max(S) \in S
  BY <1>2, <1>3, MaxIsMember
<1> DEFINE m == Max(S)
<1> HIDE DEF m
<1>5. vocab[line] \in Nat
  <2>1. m \in 1..Len(VocabFile) /\ vocab[line] = m - 1
    BY <1>1, <1>3, <1>4 DEF m
  <2> QED
    BY <1>3, <2>1
<1> QED
  BY <1>5, Zenon DEF Ids

LEMMA PlaceTypes ==
  ASSUME NEW word, Len(word) \in Nat
  PROVE  /\ Stops(word) \in SUBSET (1..Len(word))
         /\ IdAt(word) \in [1..Len(word) -> Ids]
         /\ After(word) \in [1..Len(word) -> 1..Len(word) + 1]
         /\ \A i \in 1..Len(word) : After(word)[i] > i
         /\ \A i \in 1..Len(word) : EndsAt(word, i) # {} =>
               /\ Max(EndsAt(word, i)) \in EndsAt(word, i)
               /\ \A end \in EndsAt(word, i) : Max(EndsAt(word, i)) >= end
<1> DEFINE n == Len(word)
           Ends(i) == EndsAt(word, i)
<1>1. n \in Nat /\ Bad \in Ids
  BY DEF Ids
<1>2. ASSUME NEW i \in 1..n, Ends(i) # {}
      PROVE  /\ Max(Ends(i)) \in Ends(i) /\ \A end \in Ends(i) : Max(Ends(i)) >= end
             /\ Max(Ends(i)) \in i..n
             /\ vocab[Piece(word, i, Max(Ends(i)))] \in Ids
  <2>1. Ends(i) \in SUBSET (1..n)
    BY DEF EndsAt
  <2>2. Max(Ends(i)) \in Ends(i) /\ \A end \in Ends(i) : Max(Ends(i)) >= end
    <3> HIDE DEF Ends
    <3> QED
      BY <1>1, <1>2, <2>1, MaxIsMember
  <2> DEFINE m == Max(Ends(i))
  <2> HIDE DEF m
  <2>3. m \in i..n /\ Piece(word, i, m) \in DOMAIN vocab
    BY <2>2 DEF m, EndsAt
  <2>4. vocab[Piece(word, i, m)] \in Ids
    BY <2>3, VocabIds
  <2> QED
    BY <2>2, <2>3, <2>4 DEF m
<1> HIDE DEF Ends, n
<1>3. IdAt(word) = [i \in 1..n |-> IF Ends(i) = {} THEN Bad
                                   ELSE vocab[Piece(word, i, Max(Ends(i)))]]
      /\ After(word) = [i \in 1..n |-> IF Ends(i) = {} THEN i + 1 ELSE Max(Ends(i)) + 1]
  BY DEF IdAt, After, Ends, n
<1>4. IdAt(word) \in [1..n -> Ids]
  BY <1>1, <1>2, <1>3, Zenon
<1>5. ASSUME NEW i \in 1..n PROVE After(word)[i] \in 1..n + 1 /\ After(word)[i] > i
  <2>1. CASE Ends(i) = {}
    BY <1>1, <1>3, <2>1
  <2>2. CASE Ends(i) # {}
    <3>1. Max(Ends(i)) \in i..n
      BY <1>2, <2>2
    <3> QED
      BY <1>1, <1>3, <2>2, <3>1
  <2> QED
    BY <2>1, <2>2
<1>6. After(word) \in [1..n -> 1..n + 1]
  BY <1>3, <1>5, Zenon
<1> QED
  BY <1>2, <1>4, <1>5, <1>6 DEF n, Ends, Stops

\* What the tokenizer writes for a word is a division of it into longest pieces,
\* as far as there is one.
LEMMA WordDivides ==
  ASSUME NEW word, Len(word) \in Nat
  PROVE  \E ids : /\ Divides(ids, Len(word), Bad, Stops(word), IdAt(word), After(word))
                  /\ wordpiece_tokenize(word) = IF Contains(ids[1], Bad) THEN <<Unknown>>
                                                ELSE ids[1]
<1> DEFINE n == Len(word)
           Ends(start) == {end \in start..n : Piece(word, start, end) \in DOMAIN vocab}
           rest(g, start) ==
             IF start > n THEN <<>>
             ELSE IF Ends(start) = {} THEN <<Bad>>
             ELSE <<vocab[Piece(word, start, Max(Ends(start)))]>> \o g[Max(Ends(start)) + 1]
           step(g) == [start \in 1..n + 1 |-> rest(g, start)]
           ids == CHOOSE g : g = step(g)
           stop == Stops(word)
           v == IdAt(word)
           nxt == After(word)
<1>1. wordpiece_tokenize(word) = IF Contains(ids[1], Bad) THEN <<Unknown>> ELSE ids[1]
  BY DEF wordpiece_tokenize
<1>2. n \in Nat /\ Bad \in Ids
  BY DEF Ids
<1>3. /\ stop \in SUBSET (1..n)
      /\ v \in [1..n -> Ids] /\ nxt \in [1..n -> 1..n + 1]
      /\ \A i \in 1..n : nxt[i] > i
  BY PlaceTypes
\* What the rule of a division is here.
<1>4. ASSUME NEW g, NEW i \in 1..n + 1
      PROVE  rest(g, i) = IF i > n THEN <<>>
                          ELSE IF i \in stop THEN <<Bad>> ELSE <<v[i]>> \o g[nxt[i]]
  <2>1. CASE i > n
    BY <2>1, Zenon
  <2>2. CASE ~(i > n)
    <3>1. i \in 1..n
      BY <1>2, <2>2
    <3> QED
      BY <2>2, <3>1, Zenon DEF EndsAt, Stops, IdAt, After
  <2> QED
    BY <2>1, <2>2
<1> HIDE DEF rest, stop, v, nxt, n
<1>5. PICK g \in [1..n + 1 -> Seq(Ids)] : Divides(g, n, Bad, stop, v, nxt)
  BY <1>2, <1>3, Division, Zenon
<1>6. g = step(g)
  <2>1. \A i \in 1..n + 1 : g[i] = rest(g, i)
    BY <1>4, <1>5, Zenon DEF Divides
  <2>2. g = [i \in 1..n + 1 |-> g[i]]
    BY <1>5
  <2> QED
    BY <2>1, <2>2, Zenon
<1>7. ids = step(ids)
  <2> HIDE DEF step
  <2> QED
    BY <1>6, Zenon
<1> HIDE DEF ids
<1>8. Divides(ids, n, Bad, stop, v, nxt)
  <2>1. ASSUME NEW i \in 1..n + 1 PROVE ids[i] = rest(ids, i)
    <3>1. step(ids)[i] = rest(ids, i)
      BY Zenon
    <3> HIDE DEF step
    <3> QED
      BY <1>7, <3>1, Zenon
  <2> QED
    BY <1>4, <2>1, Zenon DEF Divides
<1> QED
  BY <1>1, <1>8, Zenon DEF stop, v, nxt, n

LEMMA WordIds ==
  ASSUME NEW word, Len(word) \in Nat
  PROVE  wordpiece_tokenize(word) \in Seq(Ids)
<1>1. PICK ids :
        /\ Divides(ids, Len(word), Bad, Stops(word), IdAt(word), After(word))
        /\ wordpiece_tokenize(word) = IF Contains(ids[1], Bad) THEN <<Unknown>> ELSE ids[1]
  BY WordDivides
<1>2. Bad \in Ids /\ Unknown \in Ids
  BY DEF Ids
<1>3. ids[1] \in Seq(Ids)
  <2>1. \A i \in 1..Len(word) + 1 : ids[i] \in Seq(Ids)
    BY <1>1, <1>2, PlaceTypes, DivisionType, Zenon
  <2>2. 1 \in 1..Len(word) + 1
    OBVIOUS
  <2> QED
    BY <2>1, <2>2, Zenon
<1>4. <<Unknown>> \in Seq(Ids)
  BY <1>2
<1> QED
  BY <1>1, <1>3, <1>4

LEMMA PutBefore ==
  ASSUME NEW X, NEW x \in X, NEW j \in Nat, NEW t \in [1..j -> X]
  PROVE  <<x>> \o t = [m \in 1..j + 1 |-> IF m = 1 THEN x ELSE t[m - 1]]
  OBVIOUS

\* A division into longest pieces is the one the tokenizer finds.
LEMMA PiecesWritten ==
  ASSUME NEW word, Len(word) \in Nat, NEW ids,
         Divides(ids, Len(word), Bad, Stops(word), IdAt(word), After(word)),
         NEW k \in Nat, NEW ends \in [1..k -> 1..Len(word)], LongestPieces(word, ends)
  PROVE  /\ ids[1] = [i \in 1..k |-> vocab[Piece(word, PieceStart(ends, i), ends[i])]]
         /\ \A i \in 1..k : Piece(word, PieceStart(ends, i), ends[i]) \in DOMAIN vocab
<1> DEFINE n == Len(word)
           start(i) == PieceStart(ends, i)
           val(i) == vocab[Piece(word, start(i), ends[i])]
           S == {j \in Nat : j <= k => ids[start(k + 1 - j)] = [m \in 1..j |-> val(k - j + m)]}
<1>1. /\ n \in Nat /\ start(k + 1) = n + 1 /\ start(1) = 1
      /\ \A i \in 1..k : /\ start(i) <= ends[i] /\ start(i) \in 1..n
                         /\ start(i + 1) = ends[i] + 1
                         /\ Piece(word, start(i), ends[i]) \in DOMAIN vocab
                         /\ \A end \in ends[i] + 1..n : Piece(word, start(i), end) \notin DOMAIN vocab
  <2>1. DOMAIN ends = 1..k /\ Len(ends) = k
    OBVIOUS
  <2>2. /\ start(k + 1) = n + 1
        /\ \A i \in 1..k : /\ start(i) <= ends[i]
                           /\ Piece(word, start(i), ends[i]) \in DOMAIN vocab
                           /\ \A end \in ends[i] + 1..n : Piece(word, start(i), end) \notin DOMAIN vocab
    BY <2>1, Zenon DEF LongestPieces
  <2>3. ASSUME NEW i \in 1..k PROVE start(i) \in Int /\ start(i) >= 1 /\ start(i + 1) = ends[i] + 1
    <3>1. i # 1 => i - 1 \in 1..k
      OBVIOUS
    <3>2. i + 1 # 1 /\ i + 1 - 1 = i /\ ends[i] \in 1..n
      OBVIOUS
    <3> QED
      BY <3>1, <3>2 DEF PieceStart
  <2>4. ASSUME NEW i \in 1..k PROVE start(i) \in 1..n
    <3> HIDE DEF start
    <3>1. start(i) \in Int /\ start(i) >= 1 /\ start(i) <= ends[i] /\ ends[i] \in 1..n
      BY <2>2, <2>3
    <3> QED
      BY <3>1
  <2>5. start(1) = 1
    BY Zenon DEF PieceStart
  <2> QED
    BY <2>2, <2>3, <2>4, <2>5, Zenon
<1> HIDE DEF start
<1>2. ASSUME NEW i \in 1..k
      PROVE  val(i) \in Ids /\ ids[start(i)] = <<val(i)>> \o ids[start(i + 1)]
  <2> DEFINE p == start(i)
             E == EndsAt(word, p)
  <2>1. p \in 1..n /\ p \in 1..n + 1 /\ ~(p > n) /\ ends[i] \in Int /\ ends[i] <= n /\ p <= ends[i]
    <3>1. n \in Nat /\ start(i) \in 1..n /\ start(i) <= ends[i] /\ ends[i] \in 1..n
      BY <1>1
    <3> HIDE DEF n
    <3> QED
      BY <3>1
  <2>2. ends[i] \in E
    BY <1>1, <2>1 DEF EndsAt
  <2>3. ASSUME NEW end \in E PROVE end \in Int /\ end <= ends[i]
    <3>1. end \in Int /\ end <= n /\ Piece(word, p, end) \in DOMAIN vocab
      BY <2>1 DEF EndsAt
    <3>2. end \notin ends[i] + 1..n
      BY <1>1, <3>1
    <3> QED
      BY <2>1, <3>1, <3>2
  <2>4. E # {} /\ p \notin Stops(word)
    BY <2>2, Zenon DEF Stops
  <2>5. Max(E) \in E /\ Max(E) >= ends[i]
    BY <1>1, <2>1, <2>2, <2>4, PlaceTypes, Zenon
  <2>6. Max(E) = ends[i]
    <3> DEFINE m == Max(E)
    <3>1. m \in Int /\ m <= ends[i] /\ m >= ends[i]
      BY <2>3, <2>5, Zenon
    <3> HIDE DEF m
    <3>2. m = ends[i]
      BY <2>1, <3>1
    <3> QED
      BY <3>2 DEF m
  <2>7. IdAt(word)[p] = val(i) /\ After(word)[p] = ends[i] + 1
    BY <2>1, <2>4, <2>6, Zenon DEF IdAt, After
  <2>8. ids[p] = <<IdAt(word)[p]>> \o ids[After(word)[p]]
    BY <2>1, <2>4, Zenon DEF Divides
  <2>9. val(i) \in Ids
    BY <1>1, VocabIds, Zenon
  <2>10. start(i + 1) = ends[i] + 1
    BY <1>1, Zenon
  <2> QED
    BY <2>7, <2>8, <2>9, <2>10, Zenon
<1>3. 0 \in S
  <2>1. n + 1 \in 1..n + 1 /\ n + 1 > n /\ k + 1 - 0 = k + 1
    BY <1>1
  <2>2. ids[n + 1] = <<>>
    BY <2>1, Zenon DEF Divides
  <2> HIDE DEF val
  <2>3. [m \in 1..0 |-> val(k - 0 + m)] = <<>>
    OBVIOUS
  <2> QED
    BY <1>1, <2>1, <2>2, <2>3
<1>4. ASSUME NEW j \in Nat, j \in S PROVE j + 1 \in S
  <2> HIDE DEF val
  <2> SUFFICES ASSUME j + 1 <= k
               PROVE  ids[start(k + 1 - (j + 1))] = [m \in 1..j + 1 |-> val(k - (j + 1) + m)]
    OBVIOUS
  <2>1. PICK i \in 1..k : i = k - j
    <3>1. k - j \in 1..k
      OBVIOUS
    <3> QED
      BY <3>1
  <2>2. k + 1 - (j + 1) = i /\ k + 1 - j = i + 1 /\ j <= k
        /\ \A m \in 1..j : k - j + m = i + m
    BY <2>1
  <2> DEFINE t == [m \in 1..j |-> val(i + m)]
  <2>3. ids[start(i + 1)] = t
    <3>1. ids[start(k + 1 - j)] = [m \in 1..j |-> val(k - j + m)]
      BY <1>4, <2>2
    <3>2. [m \in 1..j |-> val(k - j + m)] = t
      BY <2>1
    <3> QED
      BY <2>2, <3>1, <3>2
  <2>4. t \in [1..j -> Ids]
    <3>1. ASSUME NEW m \in 1..j PROVE i + m \in 1..k
      BY <2>1
    <3> QED
      BY <1>2, <3>1
  <2>5. <<val(i)>> \o t = [m \in 1..j + 1 |-> IF m = 1 THEN val(i) ELSE t[m - 1]]
    <3> HIDE DEF t
    <3> QED
      BY <1>2, <2>4, PutBefore
  <2>6. ASSUME NEW m \in 1..j + 1
        PROVE  (IF m = 1 THEN val(i) ELSE t[m - 1]) = val(k - (j + 1) + m)
    <3>1. CASE m = 1
      <4>1. k - (j + 1) + m = i
        BY <2>1, <3>1
      <4> QED
        BY <3>1, <4>1
    <3>2. CASE m # 1
      <4>1. m - 1 \in 1..j /\ i + (m - 1) = k - (j + 1) + m
        BY <2>1, <3>2
      <4> QED
        BY <3>2, <4>1
    <3> QED
      BY <3>1, <3>2
  <2>7. [m \in 1..j + 1 |-> IF m = 1 THEN val(i) ELSE t[m - 1]]
          = [m \in 1..j + 1 |-> val(k - (j + 1) + m)]
    BY <2>6, Zenon
  <2> HIDE DEF t
  <2>8. ids[start(i)] = <<val(i)>> \o t
    BY <1>2, <2>3
  <2> QED
    BY <2>2, <2>5, <2>7, <2>8
<1> HIDE DEF S
<1>5. k \in S
  BY <1>3, <1>4, Inductive
<1>6. ids[1] = [i \in 1..k |-> val(i)]
  <2> USE DEF S
  <2> HIDE DEF val
  <2>1. ids[start(k + 1 - k)] = [m \in 1..k |-> val(k - k + m)]
    BY <1>5
  <2>2. k + 1 - k = 1 /\ \A m \in 1..k : k - k + m = m
    OBVIOUS
  <2> QED
    BY <1>1, <2>1, <2>2
<1> QED
  BY <1>1, <1>6, Zenon DEF start

\* Where piece i begins when the first one begins at p, and a division from p.
StartFrom(p, ends, i) == IF i = 1 THEN p ELSE ends[i - 1] + 1
DividesFrom(word, p, k, ends) ==
    /\ StartFrom(p, ends, k + 1) = Len(word) + 1
    /\ \A i \in 1..k :
         /\ StartFrom(p, ends, i) <= ends[i]
         /\ Piece(word, StartFrom(p, ends, i), ends[i]) \in DOMAIN vocab
         /\ \A end \in ends[i] + 1..Len(word) :
              Piece(word, StartFrom(p, ends, i), end) \notin DOMAIN vocab

\* A longest piece and a division of what is after it.
LEMMA PieceBefore ==
  ASSUME NEW word, Len(word) \in Nat, NEW p \in 1..Len(word), NEW e \in EndsAt(word, p),
         \A end \in EndsAt(word, p) : e >= end,
         NEW k \in Nat, NEW f \in [1..k -> 1..Len(word)], DividesFrom(word, e + 1, k, f)
  PROVE  \E ends \in [1..k + 1 -> 1..Len(word)] : DividesFrom(word, p, k + 1, ends)
<1> DEFINE n == Len(word)
           ends == [i \in 1..k + 1 |-> IF i = 1 THEN e ELSE f[i - 1]]
<1>1. n \in Nat /\ e \in p..n /\ e \in 1..n /\ Piece(word, p, e) \in DOMAIN vocab
  BY DEF EndsAt
<1>2. ends \in [1..k + 1 -> 1..n]
  <2>1. ASSUME NEW i \in 1..k + 1 PROVE (IF i = 1 THEN e ELSE f[i - 1]) \in 1..n
    BY <1>1
  <2> QED
    BY <2>1, Zenon
<1>3. ASSUME NEW i \in 1..k + 1, i # 1
      PROVE  ends[i] = f[i - 1] /\ i - 1 \in 1..k
  <2>1. ends[i] = f[i - 1]
    BY <1>3, Zenon
  <2>2. i - 1 \in 1..k
    BY <1>3
  <2> QED
    BY <2>1, <2>2
<1>4. ends[1] = e
  OBVIOUS
<1> HIDE DEF ends
<1>5. ASSUME NEW i \in 1..k + 2, i # 1
      PROVE  StartFrom(p, ends, i) = StartFrom(e + 1, f, i - 1)
  <2>1. CASE i = 2
    <3>1. i - 1 = 1
      BY <2>1
    <3> QED
      BY <1>4, <1>5, <3>1, Zenon DEF StartFrom
  <2>2. CASE i # 2
    <3>1. PICK h \in 1..k + 1 : h = i - 1
      <4>1. i - 1 \in 1..k + 1
        BY <1>5
      <4> QED
        BY <4>1
    <3>2. h # 1
      BY <2>2, <3>1
    <3> QED
      BY <1>3, <1>5, <3>1, <3>2, Zenon DEF StartFrom
  <2> QED
    BY <2>1, <2>2
<1>6. StartFrom(p, ends, k + 1 + 1) = n + 1
  <2>1. PICK m \in 1..k + 2 : m = k + 1 + 1 /\ m # 1 /\ m - 1 = k + 1
    <3>1. k + 1 + 1 \in 1..k + 2 /\ k + 1 + 1 # 1 /\ k + 1 + 1 - 1 = k + 1
      OBVIOUS
    <3> QED
      BY <3>1
  <2>2. StartFrom(p, ends, m) = StartFrom(e + 1, f, m - 1)
    BY <1>5, <2>1, Zenon
  <2>3. StartFrom(e + 1, f, k + 1) = n + 1
    BY Zenon DEF DividesFrom
  <2> QED
    BY <2>1, <2>2, <2>3, Zenon
<1>7. ASSUME NEW i \in 1..k + 1
      PROVE  /\ StartFrom(p, ends, i) <= ends[i]
             /\ Piece(word, StartFrom(p, ends, i), ends[i]) \in DOMAIN vocab
             /\ \A end \in ends[i] + 1..n :
                  Piece(word, StartFrom(p, ends, i), end) \notin DOMAIN vocab
  <2>1. CASE i = 1
    <3>1. StartFrom(p, ends, i) = p /\ ends[i] = e
      BY <1>4, <2>1, Zenon DEF StartFrom
    <3>2. ASSUME NEW end \in e + 1..n PROVE Piece(word, p, end) \notin DOMAIN vocab
      <4>1. end \in p..n /\ ~(e >= end)
        BY <1>1
      <4>2. end \notin EndsAt(word, p)
        BY <4>1
      <4> QED
        BY <4>1, <4>2 DEF EndsAt
    <3>3. p <= e
      BY <1>1
    <3> QED
      BY <1>1, <3>1, <3>2, <3>3, Zenon
  <2>2. CASE i # 1
    <3>1. i \in 1..k + 2
      OBVIOUS
    <3>2. StartFrom(p, ends, i) = StartFrom(e + 1, f, i - 1) /\ ends[i] = f[i - 1] /\ i - 1 \in 1..k
      BY <1>3, <1>5, <2>2, <3>1, Zenon
    <3> QED
      BY <3>2, Zenon DEF DividesFrom
  <2> QED
    BY <2>1, <2>2
<1>8. DividesFrom(word, p, k + 1, ends)
  BY <1>6, <1>7, Zenon DEF DividesFrom
<1> QED
  BY <1>2, <1>8, Zenon

\* The tokenizer gives up only where there is no division.
LEMMA DivisionFound ==
  ASSUME NEW word, Len(word) \in Nat, NEW ids,
         Divides(ids, Len(word), Bad, Stops(word), IdAt(word), After(word)),
         ~Contains(ids[1], Bad)
  PROVE  Divisions(word) # {}
<1> DEFINE n == Len(word)
           Found(p) == \E k \in 0..n + 1 - p : \E ends \in [1..k -> 1..n] :
                          DividesFrom(word, p, k, ends)
           S == {j \in Nat : \A p \in 1..n + 1 : p >= n + 1 - j /\ ~Contains(ids[p], Bad)
                                                  => Found(p)}
<1>1. n \in Nat /\ \A p \in 1..n + 1 : ids[p] \in Seq(Ids)
  <2>1. Bad \in Ids
    BY DEF Ids
  <2> QED
    BY <2>1, PlaceTypes, DivisionType, Zenon
<1>2. Found(n + 1)
  <2> DEFINE f == [i \in 1..0 |-> 0]
  <2>1. 1..0 = {} /\ 0 \in 0..n + 1 - (n + 1) /\ 0 + 1 = 1
    BY <1>1
  <2>2. f \in [1..0 -> 1..n]
    BY <2>1, Zenon
  <2>3. StartFrom(n + 1, f, 0 + 1) = n + 1
    BY <2>1, Zenon DEF StartFrom
  <2>4. DividesFrom(word, n + 1, 0, f)
    <3> HIDE DEF f
    <3> QED
      BY <2>1, <2>3, Zenon DEF DividesFrom
  <2> HIDE DEF f
  <2> QED
    BY <2>1, <2>2, <2>4, Zenon
<1> HIDE DEF n
<1>3. 0 \in S
  <2>1. ASSUME NEW p \in 1..n + 1, p >= n + 1 - 0 PROVE p = n + 1
    BY <1>1, <2>1
  <2> HIDE DEF Found
  <2> QED
    BY <1>2, <2>1
<1>4. ASSUME NEW j \in Nat, j \in S PROVE j + 1 \in S
  <2> HIDE DEF Found
  <2> SUFFICES ASSUME NEW p \in 1..n + 1, p >= n + 1 - (j + 1), ~Contains(ids[p], Bad)
               PROVE  Found(p)
    OBVIOUS
  <2>1. CASE p > n
    <3>1. p = n + 1
      BY <1>1, <2>1
    <3> QED
      BY <1>2, <3>1
  <2>2. CASE ~(p > n)
    <3> DEFINE q == After(word)[p]
               e == Max(EndsAt(word, p))
    <3>1. p \in 1..n
      BY <1>1, <2>2
    <3>2. p \notin Stops(word)
      <4>1. ASSUME p \in Stops(word) PROVE FALSE
        <5>1. ids[p] = <<Bad>>
          BY <2>2, <4>1, Zenon DEF Divides, n
        <5>2. Contains(<<Bad>>, Bad)
          <6>1. 1 \in 1..Len(<<Bad>>) /\ <<Bad>>[1] = Bad
            OBVIOUS
          <6> QED
            BY <6>1, Zenon DEF Contains
        <5> QED
          BY <5>1, <5>2
      <4> QED
        BY <4>1
    <3>3. EndsAt(word, p) # {}
      BY <3>1, <3>2, Zenon DEF Stops, n
    <3>4. e \in EndsAt(word, p) /\ \A end \in EndsAt(word, p) : e >= end
      BY <3>1, <3>3, PlaceTypes, Zenon DEF n
    <3>5. q = e + 1
      BY <3>1, <3>3, Zenon DEF After, n
    <3>6. q \in 1..n + 1 /\ q > p /\ IdAt(word)[p] \in Ids
      BY <3>1, PlaceTypes, Zenon DEF n
    <3>7. ids[p] = <<IdAt(word)[p]>> \o ids[q]
      BY <2>2, <3>2, Zenon DEF Divides, n
    <3> HIDE DEF q, e
    <3>8. ~Contains(ids[q], Bad)
      <4>1. ids[q] \in Seq(Ids)
        BY <1>1, <3>6
      <4>2. ASSUME NEW i \in 1..Len(ids[q]), ids[q][i] = Bad PROVE FALSE
        <5>1. PICK s \in Seq(Ids) : s = ids[q]
          BY <4>1
        <5>2. PICK x \in Ids : x = IdAt(word)[p]
          BY <3>6
        <5>3. i + 1 \in 1..Len(<<x>> \o s) /\ (<<x>> \o s)[i + 1] = s[i]
          BY <5>1
        <5>4. Contains(ids[p], Bad)
          BY <3>7, <4>2, <5>1, <5>2, <5>3, Zenon DEF Contains
        <5> QED
          BY <5>4
      <4> QED
        BY <4>2 DEF Contains
    <3>9. Found(q)
      <4>1. q >= n + 1 - j
        BY <1>1, <3>1, <3>6
      <4> QED
        BY <1>4, <3>6, <3>8, <4>1
    <3>10. PICK k \in 0..n + 1 - q : \E f \in [1..k -> 1..n] : DividesFrom(word, q, k, f)
      BY <3>9, Zenon DEF Found
    <3>11. k \in Nat /\ k + 1 \in 0..n + 1 - p
      BY <1>1, <3>1, <3>6
    <3>12. \E ends \in [1..k + 1 -> 1..n] : DividesFrom(word, p, k + 1, ends)
      BY <3>1, <3>4, <3>5, <3>10, <3>11, PieceBefore, Zenon DEF n
    <3> QED
      BY <3>11, <3>12, Zenon DEF Found
  <2> QED
    BY <2>1, <2>2
<1> HIDE DEF S
<1>5. n \in S
  BY <1>1, <1>3, <1>4, Inductive
<1>6. Found(1)
  <2>1. 1 \in 1..n + 1 /\ 1 >= n + 1 - n
    BY <1>1
  <2> HIDE DEF Found
  <2> QED
    BY <1>5, <2>1 DEF S
<1>7. PICK k \in 0..n + 1 - 1 : \E ends \in [1..k -> 1..n] : DividesFrom(word, 1, k, ends)
  BY <1>6, Zenon
<1>8. PICK ends \in [1..k -> 1..n] : DividesFrom(word, 1, k, ends)
  BY <1>7, Zenon
<1>9. k \in 0..n /\ k \in Nat /\ DOMAIN ends = 1..k /\ Len(ends) = k
  BY <1>1
<1>10. \A i : StartFrom(1, ends, i) = PieceStart(ends, i)
  BY Zenon DEF StartFrom, PieceStart
<1>11. LongestPieces(word, ends)
  BY <1>8, <1>9, <1>10, Zenon DEF DividesFrom, LongestPieces, n
<1> QED
  BY <1>9, <1>11, Zenon DEF Divisions, n

\* For every vocabulary and every word: when the word has a division into
\* pieces that are each the longest that fits, greedily from the left, its ids
\* are those of the pieces, and otherwise it is unknown (tokenizer.cpp:64-101).
THEOREM WordsSpelled ==
  ASSUME NEW X, NEW word \in Seq(X)
  PROVE  Spelled(word)
<1>0. Len(word) \in Nat
  OBVIOUS
<1>1. PICK ids :
        /\ Divides(ids, Len(word), Bad, Stops(word), IdAt(word), After(word))
        /\ wordpiece_tokenize(word) = IF Contains(ids[1], Bad) THEN <<Unknown>> ELSE ids[1]
  BY <1>0, WordDivides
<1>2. Divisions(word) = {} => wordpiece_tokenize(word) = <<Unknown>>
  BY <1>0, <1>1, DivisionFound
<1>3. ASSUME NEW ends \in Divisions(word)
      PROVE  wordpiece_tokenize(word) =
               [i \in DOMAIN ends |-> vocab[Piece(word, PieceStart(ends, i), ends[i])]]
  <2> DEFINE ids1 == [i \in DOMAIN ends |-> vocab[Piece(word, PieceStart(ends, i), ends[i])]]
  <2>1. PICK k \in 0..Len(word) : ends \in [1..k -> 1..Len(word)]
    BY Zenon DEF Divisions
  <2>2. k \in Nat /\ DOMAIN ends = 1..k /\ LongestPieces(word, ends)
    BY <2>1 DEF Divisions
  <2>3. /\ ids[1] = [i \in 1..k |-> vocab[Piece(word, PieceStart(ends, i), ends[i])]]
        /\ \A i \in 1..k : Piece(word, PieceStart(ends, i), ends[i]) \in DOMAIN vocab
    BY <1>0, <1>1, <2>1, <2>2, PiecesWritten
  <2>4. ids1 = ids[1]
    BY <2>2, <2>3, Zenon
  <2>5. ids1 \in [1..k -> Nat]
    BY <2>2, <2>3, VocabIds, Zenon
  <2> HIDE DEF ids1
  <2>6. ~Contains(ids[1], Bad)
    <3>1. Len(ids1) = k /\ Bad \notin Nat
      BY <2>2, <2>5 DEF Bad
    <3> QED
      BY <2>4, <2>5, <3>1 DEF Contains
  <2>7. wordpiece_tokenize(word) = ids[1]
    BY <1>1, <2>6
  <2> QED
    BY <2>4, <2>7 DEF ids1
<1> QED
  BY <1>2, <1>3, Zenon DEF Spelled

-----------------------------------------------------------------------------
(* The row of a message                                                    *)

LEMMA Padded ==
  ASSUME NEW X, NEW s \in Seq(X), NEW m \in Nat, NEW x \in X
  PROVE  s \o [i \in 1..m |-> x] \in Seq(X) /\ Len(s \o [i \in 1..m |-> x]) = Len(s) + m
<1>1. [i \in 1..m |-> x] \in Seq(X) /\ Len([i \in 1..m |-> x]) = m
  OBVIOUS
<1> QED
  BY <1>1, Parts

\* However long the text, its row has MaxLength ids.
LEMMA TokenRow ==
  ASSUME NEW text \in Seq(Seq(Chars))
  PROVE  tokenize(text) \in Seq(Ids) /\ Len(tokenize(text)) = MaxLength
<1> DEFINE low(word) == [i \in DOMAIN word |-> Lower(word[i])]
           words == [k \in DOMAIN text |-> wordpiece_tokenize(low(text[k]))]
           long == <<Cls>> \o FlattenSeq(words)
           row == Resize(long) \o <<Sep>>
<1>1. tokenize(text) = row \o [i \in 1..MaxLength - Len(row) |-> 0]
  BY DEF tokenize
<1>2. Cls \in Ids /\ Sep \in Ids /\ 0 \in Ids
  BY DEF Ids
<1>3. MaxLength \in Nat /\ MaxLength # 0
  BY TokenizerAssumption
<1>4. words \in Seq(Seq(Ids))
  <2>1. ASSUME NEW k \in DOMAIN text PROVE wordpiece_tokenize(low(text[k])) \in Seq(Ids)
    <3>1. text[k] \in Seq(Chars)
      OBVIOUS
    <3>2. Len(low(text[k])) \in Nat
      <4>1. PICK u \in Seq(Chars) : u = text[k]
        BY <3>1
      <4>2. DOMAIN u = 1..Len(u) /\ Len(u) \in Nat
        OBVIOUS
      <4>3. DOMAIN low(u) = 1..Len(u)
        BY <4>2
      <4>4. Len(low(u)) = Len(u)
        BY <4>2, <4>3
      <4> QED
        BY <4>1, <4>2, <4>4
    <3> QED
      BY <3>2, WordIds
  <2>2. DOMAIN text = 1..Len(text) /\ Len(text) \in Nat
    OBVIOUS
  <2>3. PICK N \in Nat : N = Len(text)
    BY <2>2
  <2>4. words \in [1..N -> Seq(Ids)]
    BY <2>1, <2>2, <2>3, Zenon
  <2> HIDE DEF words
  <2> QED
    BY <2>4
<1> HIDE DEF words
<1>5. long \in Seq(Ids)
  <2>1. FlattenSeq(words) \in Seq(Ids) /\ <<Cls>> \in Seq(Ids)
    BY <1>2, <1>4, FlattenType
  <2> QED
    BY <2>1, Parts
<1> HIDE DEF long
<1>6. Resize(long) \in Seq(Ids) /\ Len(Resize(long)) \in Nat /\ Len(Resize(long)) < MaxLength
  <2>1. CASE Len(long) >= MaxLength
    <3>1. Resize(long) = SubSeq(long, 1, MaxLength - 1)
      BY <2>1 DEF Resize
    <3>2. SubSeq(long, 1, MaxLength - 1) \in Seq(Ids)
          /\ Len(SubSeq(long, 1, MaxLength - 1)) = MaxLength - 1
      BY <1>3, <1>5, <2>1
    <3> QED
      BY <1>3, <3>1, <3>2
  <2>2. CASE ~(Len(long) >= MaxLength)
    BY <1>3, <1>5, <2>2 DEF Resize
  <2> QED
    BY <2>1, <2>2
<1>7. row \in Seq(Ids) /\ Len(row) \in Nat /\ Len(row) <= MaxLength
  <2>1. <<Sep>> \in Seq(Ids) /\ Len(<<Sep>>) = 1
    BY <1>2
  <2>2. row \in Seq(Ids) /\ Len(row) = Len(Resize(long)) + 1
    BY <1>6, <2>1, Parts
  <2> QED
    BY <1>3, <1>6, <2>2
<1> HIDE DEF row
<1>8. MaxLength - Len(row) \in Nat /\ Len(row) + (MaxLength - Len(row)) = MaxLength
  BY <1>3, <1>7
<1>9. PICK m \in Nat : m = MaxLength - Len(row)
  BY <1>8
<1>10. /\ row \o [i \in 1..m |-> 0] \in Seq(Ids)
       /\ Len(row \o [i \in 1..m |-> 0]) = Len(row) + m
  BY <1>2, <1>7, Padded
<1> QED
  BY <1>1, <1>8, <1>9, <1>10

-----------------------------------------------------------------------------
(* The tensor                                                              *)

\* The rows of a worker that is about to run are those of requests.
LEMMA TensorRows ==
  ASSUME PoolFacts, NEW w \in Workers, wpc[w] = "run"
  PROVE  /\ local[w].valid \in Seq(Nat)
         /\ \A b \in DOMAIN local[w].valid : local[w].batch[local[w].valid[b]] \in Requests
<1>1. local[w].valid \in Seq(Nat) /\ local[w].batch \in Seq(Item)
  BY Types DEF PoolFacts, EngineInv, Batch
<1>2. RowsIn(local[w]) \subseteq InBatch(w) /\ Pill \notin InBatch(w)
  <2>1. Awaits(wpc[w], local[w]) = RowsIn(local[w])
    BY DEF Awaits
  <2>2. Awaits(wpc[w], local[w]) \subseteq InBatch(w)
    BY AwaitsBatch DEF PoolFacts
  <2>3. Pill \notin InBatch(w)
    BY DEF PoolFacts, PoolInv, BatchInv, Clean, BatchOf, InBatch
  <2> QED
    BY <2>1, <2>2, <2>3
<1>3. InBatch(w) \subseteq Requests \cup {Pill}
  BY <1>1 DEF InBatch, Item
<1> QED
  BY <1>1, <1>2, <1>3 DEF RowsIn

LEMMA Aligned == PoolFacts => RowsAligned
<1> SUFFICES ASSUME PoolFacts, NEW w \in Workers, wpc[w] = "run"
             PROVE  LET valid == local[w].valid IN
                    /\ Len(BatchTokens(w)) = Len(valid) * MaxLength
                    /\ \A b \in DOMAIN valid :
                         SubSeq(BatchTokens(w), (b - 1) * MaxLength + 1, b * MaxLength)
                           = Row[local[w].batch[valid[b]]]
  BY DEF RowsAligned
<1> DEFINE valid == local[w].valid
           rows == [b \in DOMAIN valid |-> Row[local[w].batch[valid[b]]]]
<1>1. valid \in Seq(Nat) /\ \A b \in DOMAIN valid : local[w].batch[valid[b]] \in Requests
  BY TensorRows
<1>2. ASSUME NEW r \in Requests
      PROVE  Row[r] \in Seq(Ids) /\ Len(Row[r]) = MaxLength
  <2>1. Text[r] \in Seq(Seq(Chars))
    BY TextAssumption
  <2>2. Row[r] = tokenize(Text[r])
    BY DEF Row
  <2> QED
    BY <2>1, <2>2, TokenRow
<1> HIDE DEF valid
<1>3. PICK N \in Nat : N = Len(valid) /\ DOMAIN valid = 1..N
  BY <1>1
<1>4. ASSUME NEW b \in 1..N PROVE rows[b] \in Seq(Ids) /\ Len(rows[b]) = MaxLength
  <2>1. rows[b] = Row[local[w].batch[valid[b]]] /\ local[w].batch[valid[b]] \in Requests
    BY <1>1, <1>3
  <2> QED
    BY <1>2, <2>1
<1>5. rows \in [1..N -> Seq(Ids)]
  BY <1>3, <1>4, Zenon
<1> HIDE DEF rows
<1>6. rows \in Seq(Seq(Ids)) /\ Len(rows) = N /\ DOMAIN rows = 1..N
  BY <1>5
<1>7. MaxLength \in Nat /\ \A i \in DOMAIN rows : Len(rows[i]) = MaxLength
  BY <1>4, <1>6, TokenizerAssumption
<1>8. /\ Len(FlattenSeq(rows)) = Len(rows) * MaxLength
      /\ \A b \in DOMAIN rows :
           SubSeq(FlattenSeq(rows), (b - 1) * MaxLength + 1, b * MaxLength) = rows[b]
  BY <1>6, <1>7, FlattenRows, Zenon
<1>9. BatchTokens(w) = FlattenSeq(rows)
  BY DEF BatchTokens, rows, valid
<1>10. \A b \in DOMAIN valid : rows[b] = Row[local[w].batch[valid[b]]]
  BY DEF rows
<1>11. /\ Len(BatchTokens(w)) = Len(valid) * MaxLength
       /\ \A b \in DOMAIN valid :
            SubSeq(BatchTokens(w), (b - 1) * MaxLength + 1, b * MaxLength)
              = Row[local[w].batch[valid[b]]]
  BY <1>3, <1>6, <1>8, <1>9, <1>10, Zenon
<1> QED
  BY <1>11 DEF valid

\* Whatever the lengths of the lines and whichever requests of the batch are
\* dropped as late, row b of the tensor that ONNX reads is the tokenized log
\* line of the b-th valid request (thread_pool.hpp:78-110).
THEOREM TensorAligned == Spec => []RowsAligned
  BY Aligned, PoolInvariant, PTL
=============================================================================
