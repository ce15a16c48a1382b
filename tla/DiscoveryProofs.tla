----------------------------- MODULE DiscoveryProofs ---------------------------
(***************************************************************************)
(* Whatever the network answers, and in whatever order: the reports are    *)
(* complete, and the process ends within the waves of its pools.           *)
(***************************************************************************)
EXTENDS Discovery, SequenceTheorems, FiniteSetTheorems, WellFoundedInduction, TLAPS

(* A set of natural numbers has a least one, which Min chooses.             *)
LEMMA HasMin ==
  ASSUME NEW S \in SUBSET Nat, S # {}
  PROVE  Min(S) \in S /\ \A n \in S : Min(S) <= n
<1> DEFINE R == { ss \in Nat \X Nat : ss[1] < ss[2] }
<1>1. IsWellFoundedOn(R, Nat)
  BY NatLessThanWellFounded DEF OpToRel
<1>2. \A m, n \in Nat : n < m => <<n, m>> \in R
  OBVIOUS
<1> HIDE DEF R
<1>3. PICK m \in S : \A n \in S : ~ (<<n, m>> \in R)
  <2>1. S \subseteq Nat /\ S # {}
    OBVIOUS
  <2>2. \E m \in S : \A n \in S : ~ (<<n, m>> \in R)
    BY ONLY <1>1, <2>1, WFMin
  <2> QED
    BY ONLY <2>2
<1>4. ASSUME NEW n \in S PROVE m <= n
  <2>1. {m, n} \subseteq Nat
    OBVIOUS
  <2>2. ~ (n < m)
    BY <1>2, <1>3, <2>1
  <2> QED
    BY ONLY <2>1, <2>2
<1>5. \E x \in S : \A y \in S : x <= y
  BY <1>4
<1> QED
  BY ONLY <1>5 DEF Min

(* A set of two numbers has a greatest.                                     *)
LEMMA MaxOfTwo ==
  ASSUME NEW a \in Nat, NEW b \in Nat
  PROVE  Max({a, b}) \in Nat /\ a <= Max({a, b}) /\ b <= Max({a, b})
<1>1. \E x \in {a, b} : \A y \in {a, b} : x >= y
  <2>1. CASE a >= b
    BY <2>1
  <2>2. CASE ~(a >= b)
    BY <2>2
  <2> QED
    BY <2>1, <2>2
<1>2. Max({a, b}) \in {a, b} /\ \A y \in {a, b} : Max({a, b}) >= y
  BY ONLY <1>1 DEF Max
<1> QED
  BY <1>2

(* A quotient by w, and that of a number which is greater by w or more.     *)
LEMMA Quotient ==
  ASSUME NEW a \in Nat, NEW w \in Nat \ {0}
  PROVE  a \div w \in Nat /\ w * (a \div w) <= a /\ a < w * (a \div w) + w
OBVIOUS

\* Another w makes it greater by one.
LEMMA Quotients ==
  ASSUME NEW a \in Nat, NEW b \in Nat, NEW w \in Nat \ {0}, a + w <= b
  PROVE  (a \div w) + 1 <= b \div w
<1> DEFINE p == a \div w
           q == b \div w
<1>1. {p, q} \subseteq Nat /\ w * p <= a /\ b < w * q + w
  BY Quotient
<1> HIDE DEF p, q
<1>2. w * (p + 1) < w * (q + 1)
  BY <1>1
<1>3. p + 1 <= q
  BY <1>1, <1>2
<1> QED
  BY <1>3 DEF p, q

\* One more time s fits between p times s and q times s.
LEMMA Products ==
  ASSUME NEW p \in Nat, NEW q \in Nat, NEW s \in Nat, p + 1 <= q
  PROVE  {p * s, q * s} \subseteq Nat /\ p * s + s <= q * s
<1> DEFINE d == q - (p + 1)
<1>1. d \in Nat /\ q = p + 1 + d
  OBVIOUS
<1> HIDE DEF d
<1>2. {p * s, q * s, d * s} \subseteq Nat /\ q * s = p * s + s + d * s
  BY <1>1
<1> QED
  BY <1>2

(* A function that takes each of a set to its own of another one, and       *)
(* leaves none out.                                                         *)
LEMMA OneToOne ==
  ASSUME NEW S, NEW T, IsFiniteSet(S), NEW f, f \in [S -> T],
         \A a, b \in S : f[a] = f[b] => a = b,
         \A t \in T : \E s \in S : f[s] = t
  PROVE  IsFiniteSet(T) /\ Cardinality(S) = Cardinality(T)
<1>1. f \in Injection(S, T)
  BY DEF Injection, IsInjective
<1>2. f \in Surjection(S, T)
  BY DEF Surjection
<1>3. f \in Bijection(S, T)
  BY <1>1, <1>2 DEF Bijection
<1> QED
  BY <1>3, FS_Bijection DEF ExistsBijection

-------------------------------------------------------------------------------
(* FlattenSeq(), whose recursion has a solution since it goes down.         *)
Flattens(f, ss, m) ==
  f = [i \in 1 .. m |-> IF i = 1 THEN ss[i] ELSE f[i - 1] \o ss[i]]

LEMMA FlattensExist ==
  ASSUME NEW ss, NEW m \in Nat
  PROVE  \E f : Flattens(f, ss, m)
<1> DEFINE Bad == { x \in Nat : ~\E f : Flattens(f, ss, x) }
           x == Min(Bad)
<1>1. SUFFICES ASSUME Bad # {} PROVE FALSE
  OBVIOUS
<1>2. Bad \in SUBSET Nat /\ \A y \in Nat : y \in Bad <=> ~\E f : Flattens(f, ss, y)
  OBVIOUS
<1> HIDE DEF Bad
<1>3. x \in Bad /\ \A y \in Bad : x <= y
  BY <1>1, <1>2, HasMin
<1> HIDE DEF x
<1>4. x \in Nat /\ ~\E f : Flattens(f, ss, x)
  BY <1>2, <1>3
<1>5. CASE x = 0
  <2> DEFINE e == [i \in 1 .. 0 |-> 0]
  <2>1. e = [i \in 1 .. 0 |-> IF i = 1 THEN ss[i] ELSE e[i - 1] \o ss[i]]
    OBVIOUS
  <2> HIDE DEF e
  <2>2. Flattens(e, ss, 0)
    BY <2>1 DEF Flattens
  <2> QED
    BY <1>4, <1>5, <2>2
<1>6. CASE x # 0
  <2>1. x - 1 \in Nat /\ ~(x <= x - 1)
    BY <1>4, <1>6
  <2>2. PICK f : Flattens(f, ss, x - 1)
    BY <1>2, <1>3, <2>1
  <2> DEFINE last == IF x = 1 THEN ss[x] ELSE f[x - 1] \o ss[x]
             h == [i \in 1 .. x |-> IF i = x THEN last ELSE f[i]]
  <2>3. \A i \in 1 .. x - 1 : f[i] = IF i = 1 THEN ss[i] ELSE f[i - 1] \o ss[i]
    BY <2>2 DEF Flattens
  <2>4. ASSUME NEW i \in 1 .. x
        PROVE  h[i] = IF i = 1 THEN ss[i] ELSE h[i - 1] \o ss[i]
    <3>1. CASE i = x /\ x = 1
      BY <3>1
    <3>2. CASE i = x /\ x # 1
      <4>1. x - 1 \in 1 .. x /\ x - 1 # x
        BY <1>4, <1>6, <3>2
      <4>2. h[x] = last /\ h[x - 1] = f[x - 1]
        BY <4>1, <3>2
      <4> QED
        BY <3>2, <4>2
    <3>3. CASE i # x
      <4>1. i \in 1 .. x - 1 /\ (i # 1 => i - 1 \in 1 .. x /\ i - 1 # x)
        BY <1>4, <3>3
      <4>2. h[i] = f[i] /\ (i # 1 => h[i - 1] = f[i - 1])
        BY <3>3, <4>1
      <4> QED
        BY <2>3, <4>1, <4>2
    <3> QED
      BY <3>1, <3>2, <3>3
  <2>5. h = [i \in 1 .. x |-> h[i]]
    OBVIOUS
  <2> HIDE DEF h
  <2>6. Flattens(h, ss, x)
    BY <2>4, <2>5 DEF Flattens
  <2> QED
    BY <1>4, <2>6
<1> QED
  BY <1>5, <1>6

\* What it flattens is a sequence.
LEMMA FlattenSeqType ==
  ASSUME NEW S, NEW ss \in Seq(Seq(S))
  PROVE  FlattenSeq(ss) \in Seq(S)
<1> DEFINE m == Len(ss)
           f == CHOOSE g : Flattens(g, ss, m)
<1>1. m \in Nat /\ \A i \in 1 .. m : ss[i] \in Seq(S)
  BY ElementOfSeq, LenProperties
<1>2. FlattenSeq(ss) = IF m = 0 THEN ss ELSE f[m]
  BY DEF FlattenSeq, Flattens
<1>3. Flattens(f, ss, m)
  BY <1>1, FlattensExist
<1> HIDE DEF f
<1>4. \A i \in 1 .. m : f[i] = IF i = 1 THEN ss[i] ELSE f[i - 1] \o ss[i]
  BY <1>3 DEF Flattens
<1>5. CASE m = 0
  BY <1>2, <1>5, EmptySeq
<1>6. CASE m # 0
  <2> HIDE DEF m
  <2> DEFINE Bad == { i \in 1 .. m : f[i] \notin Seq(S) }
             x == Min(Bad)
  <2>1. SUFFICES ASSUME Bad # {} PROVE FALSE
    BY <1>1, <1>2, <1>6
  <2>2. Bad \in SUBSET Nat /\ \A i : i \in Bad <=> i \in 1 .. m /\ f[i] \notin Seq(S)
    OBVIOUS
  <2> HIDE DEF Bad
  <2>3. x \in Bad /\ \A i \in Bad : x <= i
    BY ONLY <2>1, <2>2, HasMin
  <2> HIDE DEF x
  <2>4. x \in 1 .. m /\ f[x] \notin Seq(S)
    BY <2>2, <2>3
  <2>5. x # 1
    BY <1>1, <1>4, <2>4
  <2>6. x - 1 \in 1 .. m /\ ~(x <= x - 1)
    BY <1>1, <2>4, <2>5
  <2>7. f[x - 1] \in Seq(S)
    BY <2>2, <2>3, <2>6
  <2>8. f[x] = f[x - 1] \o ss[x] /\ ss[x] \in Seq(S)
    BY <1>1, <1>4, <2>4, <2>5
  <2>9. f[x - 1] \o ss[x] \in Seq(S)
    BY <2>7, <2>8, ConcatProperties
  <2> QED
    BY <2>4, <2>8, <2>9
<1> QED
  BY <1>5, <1>6

\* The hosts of a scan are of the configured subnets, and no more than MaxHosts.
LEMMA HostsType ==
  ASSUME config \in Configs
  PROVE  /\ Enumerated \in Seq(Nat) /\ Hosts \in Seq(Nat)
         /\ Len(Hosts) = Least(MaxHosts, Len(Enumerated))
         /\ \A i \in 1 .. Len(Hosts) : Hosts[i] = Enumerated[i]
<1> DEFINE s == config.subnets
           ss == [n \in DOMAIN s |-> IF s[n].valid THEN s[n].hosts ELSE <<>>]
<1>1. s \in Seq(Subnet)
  BY DiscoveryAssumption DEF Config
<1>2. DOMAIN s = 1 .. Len(s) /\ Len(s) \in Nat /\ \A n \in 1 .. Len(s) : s[n] \in Subnet
  BY <1>1, ElementOfSeq, LenProperties
<1>3. \A n \in 1 .. Len(s) : s[n].hosts \in Seq(Nat)
  BY <1>2 DEF Subnet
<1>4. <<>> \in Seq(Nat)
  OBVIOUS
<1>5. ss \in [1 .. Len(s) -> Seq(Nat)]
  BY <1>2, <1>3, <1>4
<1>6. Enumerated = FlattenSeq(ss)
  BY DEF Enumerated
<1>7. \E n \in Nat : ss \in [1 .. n -> Seq(Nat)]
  BY <1>2, <1>5
<1> HIDE DEF ss
<1>8. ss \in Seq(Seq(Nat))
  BY ONLY <1>7, SeqDef
<1>9. Enumerated \in Seq(Nat)
  BY ONLY <1>6, <1>8, FlattenSeqType
<1> DEFINE l == Least(MaxHosts, Len(Enumerated))
<1>10. l \in Nat /\ l <= Len(Enumerated) /\ Len(Enumerated) \in Nat
  BY <1>9, LenProperties, DiscoveryAssumption DEF Least
<1>11. /\ Hosts \in Seq(Nat) /\ Len(Hosts) = l
       /\ \A i \in 1 .. l : Hosts[i] = Enumerated[i]
  <2>1. \A i \in 1 .. l : i \in 1 .. Len(Enumerated)
    BY <1>10
  <2>2. \A i \in 1 .. l : Enumerated[i] \in Nat
    BY <1>9, <2>1, ElementOfSeq
  <2> HIDE DEF l
  <2> DEFINE h == [i \in 1 .. l |-> Enumerated[i]]
  <2>3. Hosts = h
    <3>1. SubSeq(Enumerated, 1, l) = h
      BY <1>9, <1>10
    <3> QED
      BY <3>1 DEF Hosts, l
  <2>4. h \in [1 .. l -> Nat]
    BY <2>2
  <2>5. Len(h) = l /\ \A i \in 1 .. l : h[i] = Enumerated[i]
    BY <1>10
  <2>6. \E n \in Nat : h \in [1 .. n -> Nat]
    BY <1>10, <2>4
  <2> HIDE DEF h
  <2>7. h \in Seq(Nat)
    BY ONLY <2>6, SeqDef
  <2> QED
    BY <2>3, <2>5, <2>7
<1> QED
  BY <1>9, <1>11

(* ByPort() of entries of different ports has each of them, in ascending    *)
(* order: their ranks are those of a permutation.                           *)
LEMMA ByPortSorts ==
  ASSUME NEW E \in Seq(Nat \X BOOLEAN),
         \A i, j \in 1 .. Len(E) : i # j => E[i][1] # E[j][1]
  PROVE  /\ ByPort(E) \in Seq(Nat \X BOOLEAN) /\ Len(ByPort(E)) = Len(E)
         /\ \A n \in 1 .. Len(E) - 1 : ByPort(E)[n][1] < ByPort(E)[n + 1][1]
         /\ \A i \in 1 .. Len(E) : \E n \in 1 .. Len(E) : ByPort(E)[n] = E[i]
<1> DEFINE N == Len(E)
           D == 1 .. N
           p == [i \in D |-> E[i][1]]
           smaller(i) == { j \in D : p[j] < p[i] }
           r == [i \in D |-> Cardinality(smaller(i))]
           c(n) == CHOOSE i \in D : r[i] = n - 1
<1>1. N \in Nat /\ DOMAIN E = D /\ \A i \in D : E[i] \in Nat \X BOOLEAN
  BY LenProperties, ElementOfSeq
<1>2. \A i \in D : p[i] \in Nat
  BY <1>1
<1>3. \A i, j \in D : p[i] = p[j] => i = j
  OBVIOUS
<1>4. ByPort(E) = [n \in D |-> E[c(n)]]
  <2> DEFINE below(i) == { j \in DOMAIN E : E[j][1] < E[i][1] }
             d(n) == CHOOSE i \in DOMAIN E : Cardinality(below(i)) = n - 1
  <2>1. ByPort(E) = [n \in DOMAIN E |-> E[d(n)]]
    BY DEF ByPort
  <2>2. \A i \in D : below(i) = smaller(i)
    BY <1>1
  <2> HIDE DEF below, smaller
  <2>3. ASSUME NEW n PROVE d(n) = c(n)
    <3>1. ASSUME NEW i
          PROVE  (i \in DOMAIN E /\ Cardinality(below(i)) = n - 1) <=> (i \in D /\ r[i] = n - 1)
      BY <1>1, <2>2
    <3> QED
      BY <3>1
  <2> HIDE DEF d, c, D
  <2> QED
    BY <1>1, <2>1, <2>3
<1> HIDE DEF p
<1>5. IsFiniteSet(D) /\ Cardinality(D) = N
  <2>1. N \in Int /\ (IF 1 > N THEN 0 ELSE N - 1 + 1) = N
    BY <1>1
  <2> HIDE DEF N
  <2> QED
    BY <2>1, FS_Interval
<1>6. ASSUME NEW i \in D PROVE IsFiniteSet(smaller(i)) /\ r[i] \in 0 .. N - 1
  <2> DEFINE T == smaller(i)
  <2>1. T \subseteq D \ {i} /\ r[i] = Cardinality(T) /\ i \in D
    BY <1>2
  <2> HIDE DEF T, D, r
  <2>2. IsFiniteSet(D \ {i}) /\ Cardinality(D \ {i}) = N - 1
    BY ONLY <1>5, <2>1, FS_RemoveElement
  <2>3. IsFiniteSet(T) /\ Cardinality(T) <= N - 1 /\ Cardinality(T) \in Nat
    BY ONLY <2>1, <2>2, FS_Subset, FS_CardinalityType
  <2>4. r[i] \in 0 .. N - 1
    BY <1>1, <2>1, <2>3
  <2> QED
    BY <2>3, <2>4 DEF T
<1>7. ASSUME NEW i \in D, NEW j \in D, p[i] < p[j] PROVE r[i] < r[j]
  <2> DEFINE T == smaller(i)
             U == smaller(j)
  <2>1. T \subseteq U /\ i \in U /\ i \notin T
    BY <1>2, <1>7
  <2>2. r[i] = Cardinality(T) /\ r[j] = Cardinality(U) /\ IsFiniteSet(U) /\ IsFiniteSet(T)
    BY <1>6
  <2> HIDE DEF T, U, r
  <2>3. Cardinality(T) <= Cardinality(U) /\ Cardinality(T) # Cardinality(U)
    BY ONLY <2>1, <2>2, FS_Subset
  <2>4. {Cardinality(T), Cardinality(U)} \subseteq Nat
    BY ONLY <2>2, FS_CardinalityType
  <2> QED
    BY ONLY <2>2, <2>3, <2>4
<1>8. \A i, j \in D : p[i] < p[j] => r[i] < r[j]
  BY <1>7
<1>9. \A i \in D : p[i] \in Int /\ r[i] \in Int
  <2>1. \A i \in D : r[i] \in 0 .. N - 1
    BY <1>6
  <2> HIDE DEF D, r
  <2> QED
    BY <1>1, <1>2, <2>1
<1>10. \A n \in 0 .. N - 1 : \E i \in D : r[i] = n
  <2> DEFINE R == 0 .. N - 1
  <2>1. r \in [D -> R]
    BY <1>6
  <2>2. IsFiniteSet(R) /\ Cardinality(R) = N
    <3>1. N - 1 \in Int /\ 0 \in Int /\ (IF 0 > N - 1 THEN 0 ELSE N - 1 - 0 + 1) = N
      BY <1>1
    <3> DEFINE M == N - 1
    <3> HIDE DEF M
    <3>2. IsFiniteSet(0 .. M) /\ Cardinality(0 .. M) = N
      BY ONLY <3>1, FS_Interval DEF M
    <3> QED
      BY <3>2 DEF M
  <2>3. ASSUME NEW i \in D, NEW j \in D, r[i] = r[j] PROVE i = j
    <3>1. i \in D /\ j \in D /\ r[i] = r[j]
      BY <2>3
    <3> HIDE DEF r, D
    <3>2. ~(p[i] < p[j]) /\ ~(p[j] < p[i])
      BY <1>8, <1>9, <3>1
    <3> QED
      BY <1>3, <1>9, <3>1, <3>2
  <2> HIDE DEF D, R, r
  <2>4. r \in Injection(D, R)
    BY ONLY <2>1, <2>3 DEF Injection, IsInjective
  <2>5. r \in Surjection(D, R)
    BY ONLY <1>5, <2>2, <2>4, FS_Injection
  <2>6. \A n \in R : \E i \in D : r[i] = n
    BY ONLY <2>5 DEF Surjection
  <2> QED
    BY <2>6 DEF R
<1>11. ASSUME NEW n \in D PROVE c(n) \in D /\ r[c(n)] = n - 1
  <2>1. n - 1 \in 0 .. N - 1
    BY <1>1
  <2> HIDE DEF D, r
  <2> QED
    BY <1>10, <2>1
<1>12. \A n \in D : ByPort(E)[n] = E[c(n)] /\ ByPort(E)[n][1] = p[c(n)]
  <2>1. \A i \in D : E[i][1] = p[i]
    BY DEF p
  <2> HIDE DEF D, c
  <2> QED
    BY <1>4, <1>11, <2>1
<1>13. ByPort(E) \in Seq(Nat \X BOOLEAN) /\ Len(ByPort(E)) = N
  <2> HIDE DEF c
  <2>1. ByPort(E) \in [D -> Nat \X BOOLEAN]
    BY <1>1, <1>4, <1>11
  <2>0. D = 1 .. N /\ N \in Nat
    BY <1>1
  <2> HIDE DEF D, N
  <2>2. \E n \in Nat : ByPort(E) \in [1 .. n -> Nat \X BOOLEAN]
    BY ONLY <2>0, <2>1
  <2>3. ByPort(E) \in Seq(Nat \X BOOLEAN)
    BY ONLY <2>2, SeqDef
  <2>4. Len(ByPort(E)) \in Nat /\ 1 .. Len(ByPort(E)) = 1 .. N
    BY <2>0, <2>1, <2>3, LenProperties
  <2>5. Len(ByPort(E)) = N
    BY ONLY <2>0, <2>4
  <2> QED
    BY <2>3, <2>5
<1>14. ASSUME NEW n \in 1 .. N - 1 PROVE ByPort(E)[n][1] < ByPort(E)[n + 1][1]
  <2>1. n \in D /\ n + 1 \in D /\ n \in Int
    BY <1>1
  <2> DEFINE i == c(n)
             j == c(n + 1)
  <2>2. i \in D /\ j \in D /\ r[i] = n - 1 /\ r[j] = (n + 1) - 1
    BY <1>11, <2>1
  <2>3. ByPort(E)[n][1] = p[i] /\ ByPort(E)[n + 1][1] = p[j]
    BY <1>12, <2>1
  <2> HIDE DEF i, j, c, D, r
  <2>4. r[i] < r[j]
    BY <2>1, <2>2
  <2>5. {p[i], p[j], r[i], r[j]} \subseteq Int
    BY <1>9, <2>2
  <2>6. ~(p[j] < p[i]) /\ p[i] # p[j]
    BY <1>3, <1>8, <2>2, <2>4, <2>5
  <2> QED
    BY <2>3, <2>5, <2>6
<1>15. ASSUME NEW i \in D PROVE \E n \in D : ByPort(E)[n] = E[i]
  <2> DEFINE n == r[i] + 1
  <2>1. n \in D /\ n - 1 = r[i]
    <3>1. r[i] \in 0 .. N - 1
      BY <1>6
    <3> HIDE DEF r
    <3> QED
      BY <1>1, <3>1
  <2> HIDE DEF n, D, r
  <2>2. c(n) \in D /\ r[c(n)] = r[i]
    BY <1>11, <2>1
  <2>3. c(n) = i
    <3> DEFINE k == c(n)
    <3> HIDE DEF k, c
    <3>1. k \in D /\ r[k] = r[i]
      BY <2>2 DEF k
    <3>2. ~(p[i] < p[k]) /\ ~(p[k] < p[i])
      BY <1>8, <1>9, <3>1
    <3>3. k = i
      BY <1>3, <1>9, <3>1, <3>2
    <3> QED
      BY <3>3 DEF k
  <2> QED
    BY <1>12, <2>1, <2>3
<1> QED
  BY <1>13, <1>14, <1>15

-------------------------------------------------------------------------------
Typed ==
  /\ config \in Configs
  /\ pc \in {"begin", "network", "scan", "services", "probe", "wait", "ended"}
  /\ jobs \in Seq(Nat)
  /\ outcome \in [DOMAIN jobs -> Outcomes \cup {"waiting", "running"}]
  /\ age \in [DOMAIN jobs -> 0 .. JobTime]
  /\ found \in Seq(DOMAIN jobs)
  /\ yielded \in SUBSET DOMAIN jobs
  /\ sent \in [{"network", "services"} -> [entries : Seq(Nat \X BOOLEAN), truncated : BOOLEAN]]
  /\ stopping \in BOOLEAN /\ left \in Nat \cup {Never} /\ exited \in BOOLEAN

Over(i) == outcome[i] \in Outcomes

\* There are jobs to do only while the thread gathers their outcomes.
Submitted ==
  /\ pc = "scan" => jobs = Hosts
  /\ pc = "probe" => jobs = config.ports
  /\ pc \notin {"scan", "probe"} => \A i \in DOMAIN jobs : Over(i)

\* The jobs are taken in the order in which they were submitted.
InOrder ==
  \A i, j \in DOMAIN jobs : i < j /\ outcome[j] # "waiting" => outcome[i] # "waiting"

Manned == Cardinality(Running) <= Workers

\* What was found is what as_completed() has yielded, each job once.
Gathered ==
  /\ \A i \in yielded : Over(i)
  /\ pc \in {"scan", "probe"} =>
       /\ \A m, n \in 1 .. Len(found) : found[m] = found[n] => m = n
       /\ \A n \in 1 .. Len(found) :
            found[n] \in yielded /\ (pc = "probe" \/ outcome[found[n]] = "up")
       /\ \A i \in yielded : pc = "probe" \/ outcome[i] = "up" =>
            \E n \in 1 .. Len(found) : found[n] = i

\* The second by which a job is taken, and the last for the process.
Due(i) == ((i - 1) \div Workers) * JobTime

WavesOf(n, workers) == (n + workers - 1) \div workers
Longest ==
  JobTime * Max({WavesOf(Len(Hosts), MaxWorkers), WavesOf(Len(config.ports), PortWorkers)})

OnTime ==
  /\ left <= Longest
  /\ \A i \in DOMAIN jobs :
       /\ outcome[i] = "waiting" => age[i] = 0 /\ left <= Due(i)
       /\ outcome[i] = "running" => left <= Due(i) + age[i]

Inv == Typed /\ Submitted /\ InOrder /\ Manned /\ Gathered /\ OnTime
(* What is configured does not change.                                      *)
LEMMA Configured ==
  ASSUME UNCHANGED config
  PROVE  UNCHANGED <<Enumerated, Hosts, Longest>>
<1>1. UNCHANGED Enumerated
  BY DEF Enumerated
<1>2. UNCHANGED Hosts
  BY <1>1 DEF Hosts
<1>3. UNCHANGED Longest
  BY <1>2 DEF Longest
<1> QED
  BY <1>1, <1>2, <1>3

\* The jobs of a pool, and its workers.
LEMMA Jobs ==
  ASSUME Typed
  PROVE  /\ Len(jobs) \in Nat /\ DOMAIN jobs = 1 .. Len(jobs)
         /\ Len(found) \in Nat /\ DOMAIN found = 1 .. Len(found)
         /\ \A n \in 1 .. Len(found) : found[n] \in DOMAIN jobs
         /\ \A i \in DOMAIN jobs : outcome[i] \in Outcomes \cup {"waiting", "running"}
         /\ Workers \in Nat \ {0}
<1>1. Len(jobs) \in Nat /\ DOMAIN jobs = 1 .. Len(jobs)
  BY LenProperties DEF Typed
<1>2. Len(found) \in Nat /\ DOMAIN found = 1 .. Len(found)
      /\ \A n \in 1 .. Len(found) : found[n] \in DOMAIN jobs
  BY LenProperties, ElementOfSeq DEF Typed
<1>3. \A i \in DOMAIN jobs : outcome[i] \in Outcomes \cup {"waiting", "running"}
  BY DEF Typed
<1>4. Workers \in Nat \ {0}
  BY DiscoveryAssumption DEF Workers
<1> QED
  BY <1>1, <1>2, <1>3, <1>4

LEMMA RunningFinite ==
  ASSUME Typed
  PROVE  IsFiniteSet(Running) /\ Cardinality(Running) \in Nat
<1>1. Running \subseteq 1 .. Len(jobs) /\ Len(jobs) \in Int
  BY Jobs DEF Running
<1>2. IsFiniteSet(1 .. Len(jobs))
  BY <1>1, FS_Interval
<1>3. IsFiniteSet(Running)
  BY <1>1, <1>2, FS_Subset
<1> QED
  BY <1>3, FS_CardinalityType

\* The waiting job which is taken first.
LEMMA FirstWaiting ==
  ASSUME Typed, Waiting # {}
  PROVE  /\ Min(Waiting) \in DOMAIN jobs /\ outcome[Min(Waiting)] = "waiting"
         /\ \A j \in DOMAIN jobs : outcome[j] = "waiting" => Min(Waiting) <= j
<1>1. Waiting \in SUBSET Nat
  BY Jobs DEF Waiting
<1>2. Min(Waiting) \in Waiting /\ \A j \in Waiting : Min(Waiting) <= j
  BY <1>1, HasMin
<1> QED
  BY <1>2 DEF Waiting

(* A job that is taken in time has ended before those are due that wait for *)
(* its worker, and before the process has to end.                           *)
LEMMA DueSteps ==
  ASSUME Typed, Submitted
  PROVE  /\ Longest \in Nat
         /\ \A i \in DOMAIN jobs : Due(i) \in Nat
         /\ \A i, j \in DOMAIN jobs : i + Workers <= j => Due(i) + JobTime <= Due(j)
         /\ pc \in {"scan", "probe"} => \A i \in DOMAIN jobs : Due(i) + JobTime <= Longest
<1> DEFINE q(i) == (i - 1) \div Workers
           a == WavesOf(Len(Hosts), MaxWorkers)
           b == WavesOf(Len(config.ports), PortWorkers)
           m == Max({a, b})
<1>1. /\ Len(jobs) \in Nat /\ DOMAIN jobs = 1 .. Len(jobs) /\ Workers \in Nat \ {0}
      /\ JobTime \in Nat /\ {MaxWorkers, PortWorkers} \subseteq Nat \ {0}
  BY Jobs, DiscoveryAssumption
<1>2. Len(Hosts) \in Nat /\ Len(config.ports) \in Nat
  <2>1. Hosts \in Seq(Nat) /\ config.ports \in Seq(Nat)
    BY HostsType, DiscoveryAssumption DEF Typed, Config
  <2> QED
    BY <2>1, LenProperties
<1>3. a \in Nat /\ b \in Nat
  <2>1. ASSUME NEW n \in Nat, NEW w \in Nat \ {0} PROVE WavesOf(n, w) \in Nat
    <3>1. n + w - 1 \in Nat
      OBVIOUS
    <3> QED
      BY <3>1, Quotient DEF WavesOf
  <2> QED
    BY <1>1, <1>2, <2>1
<1> HIDE DEF a, b
<1>4. m \in Nat /\ a <= m /\ b <= m
  BY <1>3, MaxOfTwo
<1>5. Longest = JobTime * m
  BY DEF Longest, a, b
<1>6. \A i \in DOMAIN jobs : i - 1 \in Nat /\ q(i) \in Nat
  BY <1>1, Quotient
<1> HIDE DEF m
<1>7. ASSUME NEW i \in DOMAIN jobs, NEW j \in DOMAIN jobs, i + Workers <= j PROVE q(i) + 1 <= q(j)
  <2>1. (i - 1) + Workers <= j - 1
    BY <1>1, <1>7
  <2> QED
    BY <1>1, <1>6, <2>1, Quotients
<1>8. ASSUME pc \in {"scan", "probe"}, NEW i \in DOMAIN jobs PROVE q(i) + 1 <= m
  <2>1. WavesOf(Len(jobs), Workers) \in {a, b}
    BY <1>8 DEF Submitted, Workers, a, b
  <2>2. q(i) + 1 <= WavesOf(Len(jobs), Workers)
    <3>1. (i - 1) + Workers <= Len(jobs) + Workers - 1 /\ Len(jobs) + Workers - 1 \in Nat
      BY <1>1, <1>8
    <3> QED
      BY <1>1, <1>6, <1>8, <3>1, Quotients DEF WavesOf
  <2> HIDE DEF q
  <2> QED
    BY <1>3, <1>4, <1>6, <1>8, <2>1, <2>2
<1> HIDE DEF q
<1>9. \A i \in DOMAIN jobs : Due(i) = q(i) * JobTime
  BY DEF Due, q
<1>10. Longest \in Nat /\ Longest = m * JobTime
  BY <1>1, <1>4, <1>5
<1>11. \A i \in DOMAIN jobs : q(i) * JobTime \in Nat
  BY <1>1, <1>6
<1>12. ASSUME NEW i \in DOMAIN jobs, NEW j \in DOMAIN jobs, i + Workers <= j
       PROVE  q(i) * JobTime + JobTime <= q(j) * JobTime
  BY <1>1, <1>6, <1>7, <1>12, Products
<1>13. ASSUME pc \in {"scan", "probe"}, NEW i \in DOMAIN jobs
       PROVE  q(i) * JobTime + JobTime <= m * JobTime
  BY <1>1, <1>4, <1>6, <1>8, <1>13, Products
<1> QED
  BY <1>9, <1>10, <1>11, <1>12, <1>13

(* While a job waits and every worker is busy, one of them is at a job of   *)
(* the wave before, or of an earlier one.                                   *)
LEMMA OneWaveAhead ==
  ASSUME Typed, InOrder, Cardinality(Running) = Workers,
         NEW i \in DOMAIN jobs, outcome[i] = "waiting"
  PROVE  \E j \in Running : j + Workers <= i
<1> DEFINE R == Running
           w == Workers
<1>1. Len(jobs) \in Nat /\ DOMAIN jobs = 1 .. Len(jobs) /\ w \in Nat \ {0} /\ i \in Nat \ {0}
  BY Jobs
<1>2. ASSUME NEW j \in R PROVE j \in 1 .. (i - 1)
  <2>1. j \in 1 .. Len(jobs) /\ j # i /\ ~(i < j)
    BY <1>1, <1>2 DEF InOrder, Running
  <2> QED
    BY ONLY <1>1, <2>1
<1>3. Cardinality(R) = w
  OBVIOUS
<1> HIDE DEF R, w
<1>4. SUFFICES ASSUME \A j \in R : ~(j + w <= i) PROVE FALSE
  BY DEF R, w
<1> DEFINE a == i - w + 1
           b == i - 1
<1>5. R \in SUBSET (a .. b)
  BY <1>1, <1>2, <1>4
<1>6. a \in Int /\ b \in Int /\ (IF a > b THEN 0 ELSE b - a + 1) < w
  BY <1>1
<1> HIDE DEF a, b
<1>7. IsFiniteSet(a .. b) /\ Cardinality(a .. b) < w
  BY ONLY <1>6, FS_Interval
<1>8. Cardinality(R) <= Cardinality(a .. b)
  BY ONLY <1>5, <1>7, FS_Subset
<1>9. Cardinality(a .. b) \in Nat
  BY ONLY <1>7, FS_CardinalityType
<1> QED
  BY ONLY <1>1, <1>3, <1>7, <1>8, <1>9

-------------------------------------------------------------------------------
(* A step which is no pool's leaves it as it is.                            *)
LEMMA PoolStays ==
  ASSUME Inv, Typed', UNCHANGED <<config, pc, left>>, NoPool
  PROVE  Inv'
<1>1. UNCHANGED <<Hosts, Longest, Running, Workers>> /\ \A i : Due(i)' = Due(i) /\ Over(i)' = Over(i)
  BY Configured DEF NoPool, Running, Workers, Due, Over
<1>2. Submitted' /\ InOrder' /\ Manned'
  BY <1>1 DEF Inv, NoPool, Submitted, InOrder, Manned
<1>3. Gathered' /\ OnTime'
  BY <1>1 DEF Inv, NoPool, Gathered, OnTime
<1> QED
  BY <1>2, <1>3 DEF Inv

(* A step of the thread without a pool, or to where it has none.            *)
LEMMA NoneLeft ==
  ASSUME Inv, Typed', UNCHANGED <<config, left>>, NoPool,
         pc' \notin {"scan", "probe"}, \A i \in DOMAIN jobs : Over(i)
  PROVE  Inv'
<1>1. \A i : Over(i)' = Over(i)
  BY DEF NoPool, Over
<1>2. \A i \in DOMAIN jobs : outcome[i] # "running" /\ outcome[i] # "waiting"
  BY DEF Over, Outcomes
<1>3. Submitted' /\ InOrder'
  BY <1>1 DEF Inv, NoPool, Submitted, InOrder
<1>4. Manned'
  <2>1. Running' = {}
    BY <1>2 DEF NoPool, Running
  <2>2. Workers' \in Nat
    BY DiscoveryAssumption DEF Workers
  <2> QED
    BY <2>1, <2>2, FS_EmptySet DEF Manned
<1>5. Gathered'
  BY <1>1 DEF Inv, NoPool, Gathered
<1>6. OnTime'
  BY <1>2, Configured DEF Inv, NoPool, OnTime
<1> QED
  BY <1>3, <1>4, <1>5, <1>6 DEF Inv

\* Jobs are submitted before the main thread has ended.
LEMMA Submits ==
  ASSUME Inv, NEW list \in Seq(Nat), Submit(list), UNCHANGED <<config, sent, stopping, left, exited>>,
         \/ pc' = "scan" /\ list = Hosts
         \/ pc' = "probe" /\ list = config.ports
  PROVE  Inv'
<1>1. Len(list) \in Nat /\ DOMAIN list = 1 .. Len(list)
  BY LenProperties
<1>2. /\ jobs' = list /\ found' = <<>> /\ yielded' = {} /\ left' = -1
      /\ outcome' = [i \in DOMAIN list |-> "waiting"] /\ age' = [i \in DOMAIN list |-> 0]
  BY DEF Submit, Never
<1>3. 0 \in 0 .. JobTime /\ JobTime \in Nat /\ Workers' \in Nat \ {0}
  BY DiscoveryAssumption DEF Workers
<1>4. Typed'
  <2>1. found' \in Seq(DOMAIN jobs')
    BY <1>2
  <2>2. outcome' \in [DOMAIN jobs' -> Outcomes \cup {"waiting", "running"}]
        /\ age' \in [DOMAIN jobs' -> 0 .. JobTime]
    BY <1>2, <1>3
  <2> QED
    BY <1>2, <2>1, <2>2 DEF Inv, Typed
<1>5. Submitted' /\ InOrder'
  BY <1>2, Configured DEF Submitted, InOrder
<1>6. Manned'
  <2>1. Running' = {}
    BY <1>2 DEF Running
  <2> QED
    BY <1>3, <2>1, FS_EmptySet DEF Manned
<1>7. Gathered'
  <2>1. Len(found') = 0 /\ 1 .. 0 = {}
    BY <1>2
  <2> QED
    BY <1>2, <2>1 DEF Gathered
<1>8. OnTime'
  <2>1. ASSUME NEW i \in DOMAIN list PROVE -1 <= Due(i)'
    <3> DEFINE w == Workers'
               d == (i - 1) \div w
    <3>1. i - 1 \in Nat
      BY <1>1
    <3>2. d \in Nat
      BY <1>3, <3>1, Quotient
    <3> HIDE DEF d
    <3>3. -1 <= d * JobTime
      BY <1>3, <3>2
    <3> QED
      BY <3>3 DEF Due, d
  <2>2. Longest' \in Nat
    BY Configured, DueSteps DEF Inv
  <2> QED
    BY <1>2, <2>1, <2>2 DEF OnTime
<1> QED
  BY <1>4, <1>5, <1>6, <1>7, <1>8 DEF Inv

LEMMA Takes ==
  ASSUME Inv, Take
  PROVE  Inv'
<1> DEFINE i == Min(Waiting)
<1>1. /\ UNCHANGED <<config, pc, jobs, age, found, yielded, sent, stopping, left, exited>>
      /\ outcome' = [outcome EXCEPT ![i] = "running"]
      /\ Waiting # {} /\ Cardinality(Running) < Workers
  BY DEF Take
<1>2. Typed /\ Submitted /\ InOrder /\ Gathered /\ OnTime
  BY DEF Inv
<1>3. i \in DOMAIN jobs /\ outcome[i] = "waiting"
      /\ \A j \in DOMAIN jobs : outcome[j] = "waiting" => i <= j
  BY <1>1, <1>2, FirstWaiting
<1> HIDE DEF i
<1>4. DOMAIN jobs \subseteq Nat
  BY <1>2, Jobs
<1>5. \A j \in DOMAIN jobs : outcome'[j] = IF j = i THEN "running" ELSE outcome[j]
  BY <1>1, <1>2 DEF Typed
<1>6. Typed'
  BY <1>1, <1>2, <1>3 DEF Typed
<1>7. \A j \in DOMAIN jobs : Over(j)' = Over(j)
  BY <1>3, <1>5 DEF Over, Outcomes
<1>8. UNCHANGED <<Hosts, Longest, Workers>> /\ \A j : Due(j)' = Due(j)
  BY <1>1, Configured DEF Workers, Due
<1>9. Submitted'
  BY <1>1, <1>2, <1>7, <1>8 DEF Submitted
<1>10. InOrder'
  BY <1>1, <1>2, <1>3, <1>4, <1>5 DEF InOrder
<1>11. Manned'
  <2>1. Running' = Running \cup {i} /\ i \notin Running
    BY <1>1, <1>3, <1>5 DEF Running
  <2>2. IsFiniteSet(Running) /\ Cardinality(Running) \in Nat /\ Workers \in Nat
    BY <1>2, RunningFinite, Jobs
  <2>3. Cardinality(Running') = Cardinality(Running) + 1
    BY <2>1, <2>2, FS_AddElement
  <2> QED
    BY <1>1, <1>8, <2>2, <2>3 DEF Manned
<1>12. Gathered'
  <2>1. yielded \subseteq DOMAIN jobs /\ \A n \in 1 .. Len(found) : found[n] \in DOMAIN jobs
    BY <1>2, Jobs DEF Typed
  <2>2. \A j \in DOMAIN jobs : outcome'[j] = "up" <=> outcome[j] = "up"
    BY <1>3, <1>5
  <2> QED
    BY <1>1, <1>2, <1>7, <2>1, <2>2 DEF Gathered
<1>13. OnTime'
  <2>1. age[i] = 0 /\ left <= Due(i) /\ Due(i) \in Nat
    BY <1>2, <1>3, DueSteps DEF OnTime
  <2>2. left <= Due(i) + age[i]
    BY <2>1
  <2> QED
    BY <1>1, <1>2, <1>5, <1>8, <2>2 DEF OnTime
<1> QED
  BY <1>6, <1>9, <1>10, <1>11, <1>12, <1>13 DEF Inv

LEMMA Answers ==
  ASSUME Inv, Answer
  PROVE  Inv'
<1>1. PICK i \in Running, end \in Outcomes :
        /\ outcome' = [outcome EXCEPT ![i] = end]
        /\ age' = [age EXCEPT ![i] = 0]
  BY DEF Answer
<1>2. UNCHANGED <<config, pc, jobs, found, yielded, sent, stopping, left, exited>>
  BY DEF Answer
<1>3. Typed /\ Submitted /\ InOrder /\ Manned /\ Gathered /\ OnTime
  BY DEF Inv
<1>4. i \in DOMAIN jobs /\ outcome[i] = "running" /\ end # "waiting" /\ end # "running"
  BY DEF Running, Outcomes
<1>5. \A j \in DOMAIN jobs : /\ outcome'[j] = IF j = i THEN end ELSE outcome[j]
                             /\ age'[j] = IF j = i THEN 0 ELSE age[j]
  BY <1>1, <1>3 DEF Typed
<1>6. Typed'
  <2>1. 0 \in 0 .. JobTime
    BY DiscoveryAssumption
  <2> QED
    BY <1>1, <1>2, <1>3, <2>1 DEF Typed
<1>7. ~Over(i) /\ \A j \in DOMAIN jobs : Over(j)' <=> Over(j) \/ j = i
  BY <1>4, <1>5 DEF Over, Outcomes
<1>8. UNCHANGED <<Hosts, Longest, Workers>> /\ \A j : Due(j)' = Due(j)
  BY <1>2, Configured DEF Workers, Due
<1>9. Submitted'
  BY <1>2, <1>3, <1>7, <1>8 DEF Submitted
<1>10. InOrder'
  BY <1>2, <1>3, <1>4, <1>5 DEF InOrder
<1>11. Manned'
  <2>1. Running' \subseteq Running
    BY <1>2, <1>4, <1>5 DEF Running
  <2>2. IsFiniteSet(Running) /\ Cardinality(Running) \in Nat /\ Workers \in Nat
    BY <1>3, RunningFinite, Jobs
  <2>3. Cardinality(Running') \in Nat /\ Cardinality(Running') <= Cardinality(Running)
    BY <2>1, <2>2, FS_Subset, FS_CardinalityType
  <2> QED
    BY <1>3, <1>8, <2>2, <2>3 DEF Manned
<1>12. Gathered'
  <2>1. yielded \subseteq DOMAIN jobs /\ \A n \in 1 .. Len(found) : found[n] \in DOMAIN jobs
    BY <1>3, Jobs DEF Typed
  <2>2. \A j \in yielded : Over(j)' /\ outcome'[j] = outcome[j]
    BY <1>3, <1>5, <1>7, <2>1 DEF Gathered
  <2>3. pc \in {"scan", "probe"} => \A n \in 1 .. Len(found) : found[n] \in yielded
    BY <1>3 DEF Gathered
  <2> QED
    BY <1>2, <1>3, <2>1, <2>2, <2>3 DEF Gathered
<1>13. OnTime'
  BY <1>2, <1>3, <1>4, <1>5, <1>8 DEF OnTime
<1> QED
  BY <1>6, <1>9, <1>10, <1>11, <1>12, <1>13 DEF Inv

LEMMA Yields ==
  ASSUME Inv, Yield
  PROVE  Inv'
<1> DEFINE counts(i) == pc = "probe" \/ outcome[i] = "up"
           len == Len(found)
<1>1. PICK i \in DOMAIN jobs \ (yielded \cup Running \cup Waiting) :
        /\ yielded' = yielded \cup {i}
        /\ found' = IF counts(i) THEN Append(found, i) ELSE found
  BY DEF Yield
<1>2. UNCHANGED <<config, pc, jobs, outcome, age, sent, stopping, left, exited>>
      /\ pc \in {"scan", "probe"}
  BY DEF Yield
<1>3. Typed /\ Submitted /\ InOrder /\ Manned /\ Gathered /\ OnTime
  BY DEF Inv
<1>4. i \in DOMAIN jobs /\ i \notin yielded /\ Over(i)
  BY <1>3, Jobs DEF Running, Waiting, Over
<1>5. found \in Seq(DOMAIN jobs) /\ len \in Nat /\ \A n \in 1 .. len : found[n] \in DOMAIN jobs
  BY <1>3, Jobs DEF Typed
<1>6. /\ \A m, n \in 1 .. len : found[m] = found[n] => m = n
      /\ \A n \in 1 .. len : found[n] \in yielded /\ counts(found[n])
      /\ \A j \in yielded : counts(j) => \E n \in 1 .. len : found[n] = j
  BY <1>2, <1>3 DEF Gathered
<1>7. counts(i) => /\ found' \in Seq(DOMAIN jobs) /\ Len(found') = len + 1
                   /\ \A n \in 1 .. len : found'[n] = found[n]
                   /\ found'[len + 1] = i
  <2>1. /\ Append(found, i) \in Seq(DOMAIN jobs) /\ Len(Append(found, i)) = len + 1
        /\ \A n \in 1 .. len : Append(found, i)[n] = found[n]
        /\ Append(found, i)[len + 1] = i
    BY <1>4, <1>5, AppendProperties
  <2> QED
    BY <1>1, <2>1
<1>8. ~counts(i) => found' = found
  BY <1>1
<1>9. Typed'
  BY <1>1, <1>2, <1>3, <1>4, <1>7, <1>8 DEF Typed
<1>10. UNCHANGED <<Hosts, Longest, Workers, Running>> /\ \A j : Due(j)' = Due(j) /\ Over(j)' = Over(j)
  BY <1>2, Configured DEF Workers, Due, Running, Over
<1>11. Submitted' /\ InOrder' /\ Manned' /\ OnTime'
  BY <1>2, <1>3, <1>10 DEF Submitted, InOrder, Manned, OnTime
<1>12. Gathered'
  <2>1. \A j \in yielded' : Over(j)'
    BY <1>1, <1>3, <1>4, <1>10 DEF Gathered
  <2>2. CASE counts(i)
    <3>1. \A n \in 1 .. len + 1 : n \in 1 .. len \/ n = len + 1
      BY <1>5
    <3>2. 1 .. len \subseteq 1 .. len + 1 /\ len + 1 \in 1 .. len + 1 /\ len + 1 \notin 1 .. len
      BY <1>5
    <3>3. /\ Len(found') = len + 1 /\ found'[len + 1] = i
          /\ \A n \in 1 .. len : found'[n] = found[n]
      BY <1>7, <2>2
    <3> HIDE DEF len, counts
    <3>4. \A n \in 1 .. len : found'[n] \in yielded /\ found'[n] # i
      BY <1>4, <1>6, <3>3
    <3>5. \A m, n \in 1 .. len + 1 : found'[m] = found'[n] => m = n
      BY <1>6, <3>1, <3>3, <3>4
    <3>6. \A n \in 1 .. len + 1 : found'[n] \in yielded' /\ counts(found'[n])
      BY <1>1, <1>6, <2>2, <3>1, <3>3
    <3>7. ASSUME NEW j \in yielded', counts(j) PROVE \E n \in 1 .. len + 1 : found'[n] = j
      <4>1. CASE j = i
        BY <3>2, <3>3, <4>1
      <4>2. CASE j # i
        <5>1. j \in yielded
          BY <1>1, <3>7, <4>2
        <5>2. PICK n \in 1 .. len : found[n] = j
          BY <1>6, <3>7, <5>1
        <5> QED
          BY <3>2, <3>3, <5>2
      <4> QED
        BY <4>1, <4>2
    <3>8. \A j : counts(j) <=> pc' = "probe" \/ outcome'[j] = "up"
      BY <1>2 DEF counts
    <3> QED
      BY <2>1, <3>3, <3>5, <3>6, <3>7, <3>8 DEF Gathered
  <2>3. CASE ~counts(i)
    <3>1. UNCHANGED found
      BY <1>8, <2>3
    <3>2. \A j \in yielded' : counts(j) => j \in yielded
      BY <1>1, <2>3
    <3> QED
      BY <1>1, <1>2, <1>6, <2>1, <3>1, <3>2 DEF Gathered
  <2> QED
    BY <2>2, <2>3
<1> QED
  BY <1>9, <1>11, <1>12 DEF Inv

LEMMA Leaves ==
  ASSUME Inv, Leave
  PROVE  Inv'
<1>1. UNCHANGED <<config, pc, jobs, outcome, age, found, yielded, sent, stopping, exited>> /\ left' = 0
  BY DEF Leave
<1>2. Typed /\ Submitted /\ InOrder /\ Manned /\ Gathered /\ OnTime
  BY DEF Inv
<1>3. Typed'
  BY <1>1, <1>2 DEF Typed
<1>4. UNCHANGED <<Hosts, Longest, Workers, Running>> /\ \A j : Due(j)' = Due(j) /\ Over(j)' = Over(j)
  BY <1>1, Configured DEF Workers, Due, Running, Over
<1>5. Submitted' /\ InOrder' /\ Manned' /\ Gathered'
  BY <1>1, <1>2, <1>4 DEF Submitted, InOrder, Manned, Gathered
<1>6. OnTime'
  <2>1. ASSUME NEW i \in DOMAIN jobs PROVE 0 <= Due(i) /\ 0 <= Due(i) + age[i]
    <3>1. Due(i) \in Nat /\ age[i] \in Nat
      BY <1>2, DueSteps, DiscoveryAssumption DEF Typed
    <3> QED
      BY ONLY <3>1
  <2>2. 0 <= Longest
    BY <1>2, DueSteps
  <2> QED
    BY <1>1, <1>2, <1>4, <2>1, <2>2 DEF OnTime
<1> QED
  BY <1>3, <1>5, <1>6 DEF Inv

LEMMA Ticks ==
  ASSUME Inv, Tick
  PROVE  Inv'
<1>1. /\ UNCHANGED <<config, pc, jobs, outcome, found, yielded, sent, stopping, exited>>
      /\ age' = [i \in DOMAIN age |-> IF i \in Running THEN age[i] + 1 ELSE age[i]]
      /\ left' = IF left = Never THEN Never ELSE left + 1
      /\ Running # {} /\ (Waiting = {} \/ Cardinality(Running) = Workers)
      /\ \A i \in Running : age[i] < JobTime
  BY DEF Tick
<1>2. Typed /\ Submitted /\ InOrder /\ Manned /\ Gathered /\ OnTime
  BY DEF Inv
<1>3. \A i \in DOMAIN jobs : age[i] \in 0 .. JobTime
  BY <1>2 DEF Typed
<1>4. JobTime \in Nat /\ left \in Nat \cup {-1} /\ Never = -1
  BY <1>2, DiscoveryAssumption DEF Typed, Never
<1>5. \A i \in DOMAIN jobs : age'[i] = IF outcome[i] = "running" THEN age[i] + 1 ELSE age[i]
  BY <1>1, <1>2 DEF Typed, Running
<1>6. Typed'
  <2>1. \A i \in DOMAIN jobs : age'[i] \in 0 .. JobTime
    BY <1>1, <1>3, <1>4, <1>5 DEF Running
  <2>2. age' \in [DOMAIN jobs -> 0 .. JobTime]
    BY <1>1, <1>2, <2>1 DEF Typed
  <2>3. left' \in Nat \cup {Never}
    BY <1>1, <1>4
  <2> QED
    BY <1>1, <1>2, <2>2, <2>3 DEF Typed
<1>7. UNCHANGED <<Hosts, Longest, Workers, Running>> /\ \A j : Due(j)' = Due(j) /\ Over(j)' = Over(j)
  BY <1>1, Configured DEF Workers, Due, Running, Over
<1>8. Submitted' /\ InOrder' /\ Manned' /\ Gathered'
  BY <1>1, <1>2, <1>7 DEF Submitted, InOrder, Manned, Gathered
<1>9. OnTime'
  <2>1. Longest \in Nat /\ \A i \in DOMAIN jobs : Due(i) \in Nat
    BY <1>2, DueSteps
  <2>2. left' <= left + 1
    BY <1>1, <1>4
  <2>3. ASSUME NEW i \in Running
        PROVE  i \in DOMAIN jobs /\ left <= Due(i) + age[i] /\ left' <= Due(i) + JobTime
    <3>1. i \in DOMAIN jobs /\ left <= Due(i) + age[i] /\ age[i] < JobTime
      BY <1>1, <1>2 DEF Running, OnTime
    <3>2. {age[i], JobTime, Due(i)} \subseteq Nat /\ left \in Int /\ left' \in Int
      BY <1>1, <1>3, <1>4, <2>1, <3>1
    <3> QED
      BY ONLY <2>2, <3>1, <3>2
  <2>4. left' <= Longest
    <3>1. PICK i \in Running : TRUE
      BY <1>1
    <3>2. pc \in {"scan", "probe"}
      BY <1>2, <3>1 DEF Submitted, Running, Over, Outcomes
    <3>3. i \in DOMAIN jobs /\ left' <= Due(i) + JobTime
      BY <2>3, <3>1
    <3>4. Due(i) + JobTime <= Longest
      BY <1>2, <3>2, <3>3, DueSteps
    <3>5. {JobTime, Due(i), Longest} \subseteq Nat /\ left' \in Int
      BY <1>1, <1>4, <2>1, <3>3
    <3> QED
      BY ONLY <3>3, <3>4, <3>5
  <2>5. ASSUME NEW i \in DOMAIN jobs, outcome[i] = "waiting" PROVE left' <= Due(i)
    <3>1. Cardinality(Running) = Workers
      BY <1>1, <2>5 DEF Waiting
    <3>2. PICK j \in Running : j + Workers <= i
      BY <1>2, <2>5, <3>1, OneWaveAhead
    <3>3. j \in DOMAIN jobs /\ left' <= Due(j) + JobTime
      BY <2>3, <3>2
    <3>4. Due(j) + JobTime <= Due(i)
      BY <1>2, <3>2, <3>3, DueSteps
    <3>5. {JobTime, Due(i), Due(j)} \subseteq Nat /\ left' \in Int
      BY <1>1, <1>4, <2>1, <3>3
    <3> QED
      BY ONLY <3>3, <3>4, <3>5
  <2>6. ASSUME NEW i \in DOMAIN jobs, outcome[i] = "running" PROVE left' <= Due(i) + age'[i]
    <3>1. i \in Running /\ age'[i] = age[i] + 1
      BY <1>5, <2>6 DEF Running
    <3>2. left <= Due(i) + age[i]
      BY <2>3, <3>1
    <3>3. {age[i], Due(i)} \subseteq Nat /\ left \in Int /\ left' \in Int
      BY <1>1, <1>3, <1>4, <2>1
    <3> QED
      BY ONLY <2>2, <3>1, <3>2, <3>3
  <2> QED
    BY <1>1, <1>2, <1>5, <1>7, <2>4, <2>5, <2>6 DEF OnTime
<1> QED
  BY <1>6, <1>8, <1>9 DEF Inv

-------------------------------------------------------------------------------
\* A report's entries, whether of hosts or of ports.
LEMMA EntriesType ==
  ASSUME Typed
  PROVE  /\ Entries(found) \in Seq(Nat \X BOOLEAN) /\ Len(Entries(found)) = Len(found)
         /\ \A n \in 1 .. Len(found) :
              Entries(found)[n] = <<jobs[found[n]], outcome[found[n]] = "up">>
<1> DEFINE e == Entries(found)
           len == Len(found)
<1>1. len \in Nat /\ DOMAIN found = 1 .. len /\ \A n \in 1 .. len : found[n] \in DOMAIN jobs
  BY Jobs
<1>2. \A i \in DOMAIN jobs : jobs[i] \in Nat
  BY Jobs, ElementOfSeq DEF Typed
<1>3. e = [n \in 1 .. len |-> <<jobs[found[n]], outcome[found[n]] = "up">>]
  BY <1>1 DEF Entries
<1>4. \A n \in 1 .. len : <<jobs[found[n]], outcome[found[n]] = "up">> \in Nat \X BOOLEAN
  BY <1>1, <1>2
<1>5. e \in [1 .. len -> Nat \X BOOLEAN]
  BY <1>3, <1>4
<1>6. \E n \in Nat : e \in [1 .. n -> Nat \X BOOLEAN]
  BY <1>1, <1>5
<1>7. \A n \in 1 .. len : e[n] = <<jobs[found[n]], outcome[found[n]] = "up">>
  BY <1>3
<1> HIDE DEF e
<1>8. e \in Seq(Nat \X BOOLEAN)
  BY ONLY <1>6, SeqDef
<1>9. Len(e) = len
  <2>1. Len(e) \in Nat /\ 1 .. Len(e) = 1 .. len
    BY <1>5, <1>8, LenProperties
  <2> QED
    BY <1>1, <2>1
<1> QED
  BY <1>7, <1>8, <1>9 DEF e

\* The ports that are probed differ, and so do those of the entries.
LEMMA EntriesDiffer ==
  ASSUME Inv, pc = "probe", NEW m \in 1 .. Len(found), NEW n \in 1 .. Len(found), m # n
  PROVE  Entries(found)[m][1] # Entries(found)[n][1]
<1>1. Typed /\ jobs = config.ports /\ found[m] # found[n]
  BY DEF Inv, Submitted, Gathered
<1>2. found[m] \in DOMAIN jobs /\ found[n] \in DOMAIN jobs
  BY <1>1, Jobs
<1>3. jobs[found[m]] # jobs[found[n]]
  BY <1>1, <1>2, DiscoveryAssumption DEF Keys, Typed
<1> QED
  BY <1>1, <1>3, EntriesType

LEMMA PortsSorted ==
  ASSUME Inv, pc = "probe"
  PROVE  LET e == Entries(found)
         IN  /\ ByPort(e) \in Seq(Nat \X BOOLEAN) /\ Len(ByPort(e)) = Len(found)
             /\ \A n \in 1 .. Len(found) - 1 : ByPort(e)[n][1] < ByPort(e)[n + 1][1]
             /\ \A i \in 1 .. Len(found) : \E n \in 1 .. Len(found) : ByPort(e)[n] = e[i]
<1> DEFINE e == Entries(found)
<1>1. e \in Seq(Nat \X BOOLEAN) /\ Len(e) = Len(found)
  BY EntriesType DEF Inv
<1>2. \A m, n \in 1 .. Len(e) : m # n => e[m][1] # e[n][1]
  BY <1>1, EntriesDiffer
<1> HIDE DEF e
<1>3. /\ ByPort(e) \in Seq(Nat \X BOOLEAN) /\ Len(ByPort(e)) = Len(e)
      /\ \A n \in 1 .. Len(e) - 1 : ByPort(e)[n][1] < ByPort(e)[n + 1][1]
      /\ \A i \in 1 .. Len(e) : \E n \in 1 .. Len(e) : ByPort(e)[n] = e[i]
  BY ONLY <1>1, <1>2, ByPortSorts
<1> QED
  BY <1>1, <1>3 DEF e

LEMMA Sends ==
  ASSUME Inv, SendHosts \/ SendPorts
  PROVE  Inv'
<1>1. UNCHANGED <<config, stopping, left, exited>> /\ NoPool
  BY DEF SendHosts, SendPorts, Untouched
<1>2. pc' \in {"services", "wait"} /\ yielded = DOMAIN jobs
  BY DEF SendHosts, SendPorts, Goto
<1>3. Typed
  BY DEF Inv
<1>4. Entries(found) \in Seq(Nat \X BOOLEAN) /\ Truncated \in BOOLEAN
  BY <1>3, EntriesType DEF Truncated
<1>5. sent' \in [{"network", "services"} -> [entries : Seq(Nat \X BOOLEAN), truncated : BOOLEAN]]
  <2>1. CASE SendHosts
    BY <1>3, <1>4, <2>1 DEF SendHosts, Typed
  <2>2. CASE SendPorts
    <3>1. ByPort(Entries(found)) \in Seq(Nat \X BOOLEAN)
      BY <2>2, PortsSorted DEF SendPorts, Goto
    <3> QED
      BY <1>3, <2>2, <3>1 DEF SendPorts, Typed
  <2> QED
    BY <2>1, <2>2
<1>6. Typed'
  BY <1>1, <1>2, <1>3, <1>5 DEF NoPool, Typed
<1>7. \A i \in DOMAIN jobs : Over(i)
  BY <1>2 DEF Inv, Gathered
<1> QED
  BY <1>1, <1>2, <1>6, <1>7, NoneLeft

LEMMA Inductive == Spec => []Inv
<1>1. Init => Inv
  <2> SUFFICES ASSUME Init PROVE Inv
    OBVIOUS
  <2>1. /\ config \in Configs /\ pc = "begin" /\ jobs = <<>> /\ outcome = <<>> /\ age = <<>>
        /\ found = <<>> /\ yielded = {} /\ left = -1 /\ stopping = FALSE /\ exited = FALSE
        /\ DOMAIN jobs = {}
    BY DEF Init, Never
  <2>2. sent \in [{"network", "services"} -> [entries : Seq(Nat \X BOOLEAN), truncated : BOOLEAN]]
    <3>1. <<>> \in Seq(Nat \X BOOLEAN)
      OBVIOUS
    <3> QED
      BY <3>1 DEF Init, NoReport
  <2>3. Typed
    <3>1. outcome \in [DOMAIN jobs -> Outcomes \cup {"waiting", "running"}]
      BY <2>1
    <3>2. age \in [DOMAIN jobs -> 0 .. JobTime] /\ found \in Seq(DOMAIN jobs) /\ jobs \in Seq(Nat)
      BY <2>1
    <3> QED
      BY <2>1, <2>2, <3>1, <3>2 DEF Typed, Never
  <2>4. Submitted /\ InOrder /\ Gathered
    BY <2>1 DEF Submitted, InOrder, Gathered
  <2>5. Manned
    <3>1. Running = {}
      BY <2>1 DEF Running
    <3>2. Workers \in Nat
      BY <2>3, Jobs
    <3> QED
      BY <3>1, <3>2, FS_EmptySet DEF Manned
  <2>6. OnTime
    BY <2>1, <2>3, <2>4, DueSteps DEF OnTime
  <2> QED
    BY <2>3, <2>4, <2>5, <2>6 DEF Inv
<1>2. Inv /\ [Next]_vars => Inv'
  <2> SUFFICES ASSUME Inv, [Next]_vars PROVE Inv'
    OBVIOUS
  <2>1. Typed /\ Submitted
    BY DEF Inv
  <2>2. CASE Begin \/ Wait \/ Raise \/ Disabled \/ NoHosts
    <3>1. /\ UNCHANGED <<config, stopping, left, exited>> /\ NoPool
          /\ pc' \in {"begin", "network", "services", "wait", "ended"}
          /\ pc \notin {"scan", "probe"}
      BY <2>2 DEF Begin, Wait, Raise, Disabled, NoHosts, Untouched, Goto
    <3>2. sent' \in [{"network", "services"} -> [entries : Seq(Nat \X BOOLEAN), truncated : BOOLEAN]]
      <4>1. UNCHANGED sent \/ sent' = [sent EXCEPT !["network"] = NoReport]
        BY <2>2 DEF Begin, Wait, Raise, Disabled, NoHosts
      <4>2. NoReport \in [entries : Seq(Nat \X BOOLEAN), truncated : BOOLEAN]
        <5>1. <<>> \in Seq(Nat \X BOOLEAN)
          OBVIOUS
        <5> QED
          BY <5>1 DEF NoReport
      <4> QED
        BY <2>1, <4>1, <4>2 DEF Typed
    <3>3. Typed'
      BY <2>1, <3>1, <3>2 DEF Typed, NoPool
    <3>4. \A i \in DOMAIN jobs : Over(i)
      BY <2>1, <3>1 DEF Submitted
    <3> QED
      BY <3>1, <3>3, <3>4, NoneLeft
  <2>3. CASE ScanHosts
    <3>1. Hosts \in Seq(Nat)
      BY <2>1, HostsType DEF Typed
    <3>2. Submit(Hosts) /\ UNCHANGED <<config, sent, stopping, left, exited>> /\ pc' = "scan"
      BY <2>3 DEF ScanHosts, Untouched, Goto
    <3> QED
      BY <3>1, <3>2, Submits
  <2>4. CASE ProbePorts
    <3>1. config.ports \in Seq(Nat)
      BY <2>1, DiscoveryAssumption DEF Typed, Config
    <3>2. Submit(config.ports) /\ UNCHANGED <<config, sent, stopping, left, exited>> /\ pc' = "probe"
      BY <2>4 DEF ProbePorts, Untouched, Goto
    <3> QED
      BY <3>1, <3>2, Submits
  <2>5. CASE SendHosts \/ SendPorts
    BY <2>5, Sends
  <2>6. CASE Yield \/ Take \/ Answer \/ Tick \/ Leave
    BY <2>6, Yields, Takes, Answers, Ticks, Leaves
  <2>7. CASE Signal \/ Exit \/ UNCHANGED vars
    <3>1. /\ UNCHANGED <<config, pc, left, sent>> /\ NoPool
          /\ stopping' \in BOOLEAN /\ exited' \in BOOLEAN
      BY <2>1, <2>7 DEF Signal, Exit, vars, NoPool, Typed
    <3>2. Typed'
      BY <2>1, <3>1 DEF Typed, NoPool
    <3> QED
      BY <3>1, <3>2, PoolStays
  <2> QED
    BY <2>2, <2>3, <2>4, <2>5, <2>6, <2>7 DEF Next, Thread
<1> QED
  BY <1>1, <1>2, PTL DEF Spec

-------------------------------------------------------------------------------
(* The type invariant: no pool has more jobs running than workers, and none *)
(* is yielded before it has ended.                                          *)
THEOREM Typing == Spec => []TypeOK
<1>1. Inv => TypeOK
  <2> SUFFICES ASSUME Inv PROVE TypeOK
    OBVIOUS
  <2>1. Typed
    BY DEF Inv
  <2>2. yielded \cap (Running \cup Waiting) = {}
    BY DEF Inv, Gathered, Over, Outcomes, Running, Waiting
  <2>3. Cardinality(Running) <= Workers
    BY DEF Inv, Manned
  <2> QED
    BY <2>1, <2>2, <2>3 DEF TypeOK, Typed
<1> QED
  BY <1>1, Inductive, PTL

(* After its main thread the process ends within the waves of jobs that a   *)
(* pool still has.                                                          *)
THEOREM Exiting == Spec => []ExitsWithin
<1>1. Inv => ExitsWithin
  BY DEF Inv, OnTime, Longest, WavesOf, ExitsWithin
<1> QED
  BY <1>1, Inductive, PTL

(* The report of a scan has an entry for each scan that found its host up.  *)
LEMMA HostsReported ==
  ASSUME Inv, SendHosts
  PROVE  HostsComplete(sent'["network"])
<1> DEFINE report == sent'["network"]
           up == { i \in DOMAIN jobs : outcome[i] = "up" }
           len == Len(found)
           e == Entries(found)
<1>1. Typed /\ pc = "scan" /\ jobs = Hosts /\ yielded = DOMAIN jobs
  BY DEF Inv, Submitted, SendHosts, Goto
<1>2. report.entries = e /\ report.truncated = Truncated
  BY <1>1 DEF SendHosts, Typed
<1>3. /\ len \in Nat /\ \A n \in 1 .. len : found[n] \in up
      /\ \A m, n \in 1 .. len : found[m] = found[n] => m = n
      /\ \A i \in up : \E n \in 1 .. len : found[n] = i
  BY <1>1, Jobs DEF Inv, Gathered
<1>4. Len(e) = len /\ DOMAIN e = 1 .. len /\ \A n \in 1 .. len : e[n] = <<jobs[found[n]], TRUE>>
  <2>1. Len(e) = len /\ e \in Seq(Nat \X BOOLEAN)
    BY <1>1, EntriesType
  <2>2. DOMAIN e = 1 .. len
    BY <2>1, LenProperties
  <2>3. \A n \in 1 .. len : e[n] = <<jobs[found[n]], outcome[found[n]] = "up">>
    BY <1>1, EntriesType
  <2>4. \A n \in 1 .. len : (outcome[found[n]] = "up") = TRUE
    BY <1>3
  <2> QED
    BY <2>1, <2>2, <2>3, <2>4
<1>5. DOMAIN found = 1 .. len
  BY <1>1, Jobs
<1> HIDE DEF e, len, up
<1>6. ASSUME NEW N \in SUBSET (1 .. len), NEW T,
             \A n \in N : found[n] \in T,
             \A i \in T : \E n \in N : found[n] = i
      PROVE  Cardinality(N) = Cardinality(T)
  <2> DEFINE f == [n \in N |-> found[n]]
  <2>1. IsFiniteSet(N)
    <3>1. IsFiniteSet(1 .. len)
      BY <1>3, FS_Interval
    <3> QED
      BY <3>1, FS_Subset
  <2>2. f \in [N -> T] /\ (\A a, b \in N : f[a] = f[b] => a = b) /\ \A i \in T : \E n \in N : f[n] = i
    BY <1>3, <1>6
  <2> HIDE DEF f
  <2> QED
    BY <2>1, <2>2, OneToOne
<1>7. Len(e) = Cardinality(up)
  <2>1. Cardinality(1 .. len) = Cardinality(up)
    BY <1>3, <1>6
  <2>2. 1 \in Int /\ len \in Int /\ (IF 1 > len THEN 0 ELSE len - 1 + 1) = len
    BY <1>3
  <2>3. Cardinality(1 .. len) = len
    BY ONLY <2>2, FS_Interval
  <2> QED
    BY <1>4, <2>1, <2>3
<1>8. ASSUME NEW h
      PROVE  Cardinality({ n \in DOMAIN e : e[n] = <<h, TRUE>> }) = Cardinality({ i \in up : jobs[i] = h })
  <2> DEFINE N == { n \in DOMAIN e : e[n] = <<h, TRUE>> }
             T == { i \in up : jobs[i] = h }
  <2>1. \A n \in 1 .. len : e[n] = <<h, TRUE>> <=> jobs[found[n]] = h
    <3>1. \A x : <<x, TRUE>> = <<h, TRUE>> => x = h
      <4>1. \A x : <<x, TRUE>>[1] = x
        OBVIOUS
      <4> QED
        BY <4>1
    <3> QED
      BY <1>4, <3>1
  <2>2. \A n : n \in N <=> n \in 1 .. len /\ jobs[found[n]] = h
    BY <1>4, <2>1
  <2>3. \A i : i \in T <=> i \in up /\ jobs[i] = h
    OBVIOUS
  <2> HIDE DEF N, T
  <2>4. N \in SUBSET (1 .. len) /\ \A n \in N : found[n] \in T
    BY <1>3, <2>2, <2>3
  <2>5. \A i \in T : \E n \in N : found[n] = i
    BY <1>3, <2>2, <2>3
  <2>6. Cardinality(N) = Cardinality(T)
    BY <1>6, <2>4, <2>5
  <2> QED
    BY <2>6 DEF N, T
<1>9. /\ Len(jobs) = Least(MaxHosts, Len(Enumerated))
      /\ \A i \in DOMAIN jobs : jobs[i] = Enumerated[i]
  BY <1>1, HostsType, Jobs DEF Typed
<1>10. report.truncated <=> Len(jobs) < Len(Enumerated)
  <2>1. Len(Enumerated) \in Nat /\ MaxHosts \in Nat
    BY <1>1, HostsType, LenProperties, DiscoveryAssumption DEF Typed
  <2>2. Truncated <=> Len(jobs) < Len(Enumerated)
    BY <1>9, <2>1 DEF Truncated, Least
  <2> QED
    BY <1>2, <2>2
<1> HIDE DEF report
<1>11. HostsComplete(report)
  <2>1. Len(report.entries) = Cardinality({ i \in DOMAIN jobs : outcome[i] = "up" })
    BY <1>2, <1>7 DEF up
  <2>2. ASSUME NEW h
        PROVE  Cardinality({ n \in DOMAIN report.entries : report.entries[n] = <<h, TRUE>> })
                 = Cardinality({ i \in { j \in DOMAIN jobs : outcome[j] = "up" } : jobs[i] = h })
    BY <1>2, <1>8 DEF up
  <2> QED
    BY ONLY <1>9, <1>10, <2>1, <2>2 DEF HostsComplete
<1> QED
  BY <1>11 DEF report

\* The report on services has every port, and whether its own probe succeeded.
LEMMA PortsReported ==
  ASSUME Inv, SendPorts
  PROVE  PortsComplete(sent'["services"])
<1> DEFINE report == sent'["services"]
           len == Len(found)
           e == Entries(found)
           b == ByPort(e)
<1>1. Typed /\ pc = "probe" /\ jobs = config.ports /\ yielded = DOMAIN jobs
  BY DEF Inv, Submitted, SendPorts, Goto
<1>2. report.entries = b
  BY <1>1 DEF SendPorts, Typed
<1>3. /\ b \in Seq(Nat \X BOOLEAN) /\ Len(b) = len
      /\ \A n \in 1 .. len - 1 : b[n][1] < b[n + 1][1]
      /\ \A i \in 1 .. len : \E n \in 1 .. len : b[n] = e[i]
  BY <1>1, PortsSorted
<1>4. \A n \in 1 .. len : e[n] = <<jobs[found[n]], outcome[found[n]] = "up">>
  BY <1>1, EntriesType
<1>5. len \in Nat /\ DOMAIN found = 1 .. len /\ found \in [1 .. len -> DOMAIN jobs]
      /\ Len(jobs) \in Nat /\ DOMAIN jobs = 1 .. Len(jobs)
  BY <1>1, Jobs, LenProperties DEF Typed
<1>6. /\ \A m, n \in 1 .. len : found[m] = found[n] => m = n
      /\ \A i \in DOMAIN jobs : \E n \in 1 .. len : found[n] = i
  BY <1>1 DEF Inv, Gathered
<1> HIDE DEF e, b, len
<1>7. len = Len(jobs)
  <2>1. \A n \in Nat : 1 \in Int /\ n \in Int /\ (IF 1 > n THEN 0 ELSE n - 1 + 1) = n
    OBVIOUS
  <2>2. \A n \in Nat : IsFiniteSet(1 .. n) /\ Cardinality(1 .. n) = n
    BY ONLY <2>1, FS_Interval
  <2> DEFINE D == 1 .. len
             J == DOMAIN jobs
  <2>3. /\ IsFiniteSet(D) /\ found \in [D -> J]
        /\ \A m, n \in D : found[m] = found[n] => m = n
        /\ \A i \in J : \E n \in D : found[n] = i
    BY <1>5, <1>6, <2>2
  <2>4. Cardinality(D) = len /\ Cardinality(J) = Len(jobs)
    BY <1>5, <2>2
  <2> HIDE DEF D, J
  <2>5. Cardinality(D) = Cardinality(J)
    BY ONLY <2>3, OneToOne
  <2> QED
    BY <2>4, <2>5
<1>8. DOMAIN b = 1 .. len
  BY <1>3, LenProperties
<1>9. ASSUME NEW i \in DOMAIN jobs PROVE <<jobs[i], outcome[i] = "up">> \in ToSet(b)
  <2>1. PICK m \in 1 .. len : found[m] = i
    BY <1>6
  <2>2. PICK n \in 1 .. len : b[n] = e[m]
    BY <1>3
  <2>3. b[n] = <<jobs[i], outcome[i] = "up">>
    BY <1>4, <2>1, <2>2
  <2> QED
    BY <1>8, <2>2, <2>3 DEF ToSet
<1> HIDE DEF report
<1>10. PortsComplete(report)
  BY <1>1, <1>2, <1>3, <1>7, <1>9 DEF PortsComplete
<1> QED
  BY <1>10 DEF report

(* The reports are complete, in whatever order jobs end and whatever raises. *)
THEOREM Reporting == Spec => ReportsComplete
<1>1. Inv /\ [Next]_vars =>
        [/\ pc = "scan" /\ pc' = "services" => HostsComplete(sent'["network"])
         /\ pc = "probe" /\ pc' = "wait" => PortsComplete(sent'["services"])]_vars
  <2> SUFFICES ASSUME Inv, Next
               PROVE  /\ pc = "scan" /\ pc' = "services" => HostsComplete(sent'["network"])
                      /\ pc = "probe" /\ pc' = "wait" => PortsComplete(sent'["services"])
    OBVIOUS
  <2>1. ASSUME pc = "scan", pc' = "services" PROVE SendHosts
    <3>1. ~(Begin \/ Wait \/ Raise \/ Disabled \/ ScanHosts \/ NoHosts \/ ProbePorts \/ SendPorts)
      BY <2>1 DEF Begin, Wait, Raise, Disabled, ScanHosts, NoHosts, ProbePorts, SendPorts, Goto
    <3>2. ~(Yield \/ Take \/ Answer \/ Tick \/ Signal \/ Leave \/ Exit)
      BY <2>1 DEF Yield, Take, Answer, Tick, Signal, Leave, Exit
    <3> QED
      BY <3>1, <3>2 DEF Next, Thread
  <2>2. ASSUME pc = "probe", pc' = "wait" PROVE SendPorts
    <3>1. ~(Begin \/ Wait \/ Raise \/ Disabled \/ ScanHosts \/ NoHosts \/ ProbePorts \/ SendHosts)
      BY <2>2 DEF Begin, Wait, Raise, Disabled, ScanHosts, NoHosts, ProbePorts, SendHosts, Goto
    <3>2. ~(Yield \/ Take \/ Answer \/ Tick \/ Signal \/ Leave \/ Exit)
      BY <2>2 DEF Yield, Take, Answer, Tick, Signal, Leave, Exit
    <3> QED
      BY <3>1, <3>2 DEF Next, Thread
  <2> QED
    BY <2>1, <2>2, HostsReported, PortsReported
<1> QED
  BY <1>1, Inductive, PTL DEF Spec, ReportsComplete

===============================================================================
