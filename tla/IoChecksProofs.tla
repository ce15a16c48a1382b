----------------------------- MODULE IoChecksProofs ----------------------------
(***************************************************************************)
(* Whatever is configured, and in whatever order probes end: every target  *)
(* has its answer at its own place, and the checks take no longer than     *)
(* their waves.                                                            *)
(***************************************************************************)
EXTENDS IoChecks, SequenceTheorems, FiniteSetTheorems, WellFoundedInduction, TLAPS

(* A set of natural numbers has a least one, which Min chooses.             *)
LEMMA HasMin ==
  ASSUME NEW S \in SUBSET Nat, S # {}
  PROVE  Min(S) \in S /\ \A n \in S : Min(S) <= n
<1> DEFINE R == { ss \in Nat \X Nat : ss[1] < ss[2] }
<1>1. IsWellFoundedOn(R, Nat)
  BY NatLessThanWellFounded DEF OpToRel
<1>2. \A m, n \in Nat : n < m => <<n, m>> \in R
  OBVIOUS
<1> HIDE DEF R
<1>3. PICK m \in S : \A n \in S : ~ (<<n, m>> \in R)
  <2>1. S \subseteq Nat /\ S # {}
    OBVIOUS
  <2>2. \E m \in S : \A n \in S : ~ (<<n, m>> \in R)
    BY ONLY <1>1, <2>1, WFMin
  <2> QED
    BY ONLY <2>2
<1>4. ASSUME NEW n \in S PROVE m <= n
  <2>1. {m, n} \subseteq Nat
    OBVIOUS
  <2>2. ~ (n < m)
    BY <1>2, <1>3, <2>1
  <2> QED
    BY ONLY <2>1, <2>2
<1>5. \E x \in S : \A y \in S : x <= y
  BY <1>4
<1> QED
  BY ONLY <1>5 DEF Min

(* A bounded set of natural numbers has a greatest one, which Max chooses.  *)
LEMMA HasMax ==
  ASSUME NEW S \in SUBSET Nat, S # {}, NEW b \in Nat, \A n \in S : n <= b
  PROVE  Max(S) \in S /\ \A n \in S : n <= Max(S)
<1> DEFINE B == { m \in Nat : \A n \in S : n <= m }
           m == Min(B)
<1>1. B \in SUBSET Nat /\ B # {}
  OBVIOUS
<1>2. \A x \in Nat : x \in B <=> \A n \in S : n <= x
  OBVIOUS
<1> HIDE DEF B
<1>3. m \in B /\ \A x \in B : m <= x
  BY ONLY <1>1, HasMin
<1>4. m \in Nat /\ \A n \in S : n <= m
  BY <1>1, <1>2, <1>3
<1> HIDE DEF m
<1>5. m \in S
  <2>1. SUFFICES ASSUME m \notin S PROVE FALSE
    OBVIOUS
  <2>2. PICK n \in S : TRUE
    OBVIOUS
  <2>3. m # 0
    BY <1>4, <2>1, <2>2
  <2>4. ASSUME NEW x \in S PROVE x <= m - 1
    <3>1. x \in Nat /\ x <= m /\ x # m
      BY <1>4, <2>1
    <3> QED
      BY ONLY <1>4, <3>1
  <2>5. m - 1 \in Nat
    BY <1>4, <2>3
  <2>6. m <= m - 1
    BY <1>2, <1>3, <2>4, <2>5
  <2> QED
    BY <1>4, <2>6
<1>6. \E x \in S : \A y \in S : x >= y
  <2>1. \A y \in S : m >= y
    BY <1>4
  <2> QED
    BY ONLY <1>5, <2>1
<1>7. Max(S) \in S /\ \A y \in S : Max(S) >= y
  BY ONLY <1>6 DEF Max
<1>8. ASSUME NEW n \in S PROVE n <= Max(S)
  BY <1>7
<1> QED
  BY <1>7, <1>8

-------------------------------------------------------------------------------
(* The sums of UpTo(), whose recursion has a solution since it goes down.   *)
Sums(g, k, m) ==
  g = [n \in 0 .. m |-> IF n = 0 THEN 0 ELSE g[n - 1] + config[k][n].most]

LEMMA SumsExist ==
  ASSUME NEW k, NEW m \in Nat
  PROVE  \E g : Sums(g, k, m)
<1> DEFINE Bad == { x \in Nat : ~\E g : Sums(g, k, x) }
           x == Min(Bad)
<1>1. SUFFICES ASSUME Bad # {} PROVE FALSE
  OBVIOUS
<1>2. Bad \in SUBSET Nat /\ \A y \in Nat : y \in Bad <=> ~\E g : Sums(g, k, y)
  OBVIOUS
<1> HIDE DEF Bad
<1>3. x \in Bad /\ \A y \in Bad : x <= y
  BY <1>1, <1>2, HasMin
<1> HIDE DEF x
<1>4. x \in Nat /\ ~\E g : Sums(g, k, x)
  BY <1>2, <1>3
<1>5. CASE x = 0
  <2>1. Sums([n \in 0 .. 0 |-> 0], k, 0)
    BY DEF Sums
  <2> QED
    BY <1>4, <1>5, <2>1
<1>6. CASE x # 0
  <2>1. x - 1 \in Nat /\ ~(x <= x - 1)
    BY <1>4, <1>6
  <2>2. PICK g : Sums(g, k, x - 1)
    BY <1>2, <1>3, <2>1
  <2> DEFINE h == [n \in 0 .. x |-> IF n = x THEN g[x - 1] + config[k][x].most ELSE g[n]]
  <2>3. \A n \in 0 .. x - 1 :
          g[n] = IF n = 0 THEN 0 ELSE g[n - 1] + config[k][n].most
    BY <2>2 DEF Sums
  <2>4. ASSUME NEW n \in 0 .. x
        PROVE  h[n] = IF n = 0 THEN 0 ELSE h[n - 1] + config[k][n].most
    <3>1. CASE n = x
      <4>1. x - 1 \in 0 .. x /\ x - 1 # x
        BY <1>4, <1>6
      <4> QED
        BY <1>6, <3>1, <4>1
    <3>2. CASE n # x /\ n # 0
      <4>1. n \in 0 .. x - 1 /\ n - 1 \in 0 .. x /\ n - 1 # x
        BY <1>4, <3>2
      <4> QED
        BY <2>3, <3>2, <4>1
    <3>3. CASE n # x /\ n = 0
      <4>1. n \in 0 .. x - 1
        BY <1>4, <3>3
      <4> QED
        BY <2>3, <3>3, <4>1
    <3> QED
      BY <3>1, <3>2, <3>3
  <2>5. h = [n \in 0 .. x |-> h[n]]
    OBVIOUS
  <2> HIDE DEF h
  <2>6. Sums(h, k, x)
    BY <2>4, <2>5 DEF Sums
  <2> QED
    BY <1>4, <2>6
<1> QED
  BY <1>5, <1>6

(* UpTo() adds a target's time to that of those before it.                  *)
LEMMA UpToSteps ==
  ASSUME NEW k, Count(k) \in Nat
  PROVE  /\ UpTo(k)[0] = 0
         /\ \A n \in 1 .. Count(k) : UpTo(k)[n] = UpTo(k)[n - 1] + config[k][n].most
<1>1. PICK g : Sums(g, k, Count(k))
  BY SumsExist
<1>2. UpTo(k) = CHOOSE h : Sums(h, k, Count(k))
  BY DEF UpTo, Sums
<1>3. Sums(UpTo(k), k, Count(k))
  BY <1>1, <1>2
<1> QED
  BY <1>3 DEF Sums

\* Of each check, so many targets are configured.
LEMMA Targets ==
  ASSUME config \in Configs, NEW k \in Kinds
  PROVE  /\ config[k] \in Seq(Target) /\ Count(k) \in Nat /\ Indices(k) = 1 .. Count(k)
         /\ \A i \in 1 .. Count(k) : config[k][i].fault \in Faults /\ config[k][i].most \in Nat
<1>1. config[k] \in Seq(Target)
  BY ChecksAssumption
<1>2. \A i \in 1 .. Len(config[k]) : config[k][i] \in Target
  BY ONLY <1>1, ElementOfSeq
<1>3. Len(config[k]) \in Nat /\ DOMAIN config[k] = 1 .. Len(config[k])
  BY ONLY <1>1, LenProperties
<1> QED
  BY <1>1, <1>2, <1>3 DEF Count, Indices, Target

(* The sums of natural numbers grow.                                        *)
LEMMA UpToGrows ==
  ASSUME config \in Configs, NEW k \in Kinds
  PROVE  /\ \A n \in 0 .. Count(k) : UpTo(k)[n] \in Nat
         /\ \A m, n \in 0 .. Count(k) : m <= n => UpTo(k)[m] <= UpTo(k)[n]
<1> DEFINE c == Count(k)
           u == UpTo(k)
           t == [i \in 1 .. c |-> config[k][i].most]
<1>1. c \in Nat /\ \A i \in 1 .. c : t[i] \in Nat
  BY Targets
<1>2. u[0] = 0 /\ \A n \in 1 .. c : u[n] = u[n - 1] + t[n]
  BY Targets, UpToSteps
<1> HIDE DEF c, u, t
<1>3. \A n \in 0 .. c : u[n] \in Nat
  <2> DEFINE Bad == { n \in 0 .. c : u[n] \notin Nat }
             x == Min(Bad)
  <2>1. SUFFICES ASSUME Bad # {} PROVE FALSE
    OBVIOUS
  <2>2. Bad \in SUBSET Nat /\ \A n \in 0 .. c : n \in Bad <=> u[n] \notin Nat
    BY <1>1
  <2>3. \A n \in Bad : n \in 0 .. c
    OBVIOUS
  <2> HIDE DEF Bad
  <2>4. x \in Bad /\ \A n \in Bad : x <= n
    BY ONLY <2>1, <2>2, HasMin
  <2> HIDE DEF x
  <2>5. x \in 1 .. c /\ x - 1 \in 0 .. c /\ ~(x <= x - 1)
    BY <1>1, <1>2, <2>2, <2>3, <2>4
  <2>6. u[x - 1] \in Nat /\ t[x] \in Nat /\ u[x] = u[x - 1] + t[x]
    BY <1>1, <1>2, <2>2, <2>4, <2>5
  <2>7. u[x] \in Nat
    BY <2>6
  <2> QED
    BY <2>2, <2>3, <2>4, <2>7
<1>4. ASSUME NEW m \in 0 .. c, NEW n \in 0 .. c, m <= n PROVE u[m] <= u[n]
  <2> DEFINE Bad == { y \in 0 .. c : m <= y /\ ~(u[m] <= u[y]) }
             x == Min(Bad)
  <2>1. SUFFICES ASSUME Bad # {} PROVE FALSE
    BY <1>4
  <2>2. Bad \in SUBSET Nat /\ \A y \in 0 .. c : y \in Bad <=> m <= y /\ ~(u[m] <= u[y])
    BY <1>1
  <2>3. \A y \in Bad : y \in 0 .. c
    OBVIOUS
  <2> HIDE DEF Bad
  <2>4. x \in Bad /\ \A y \in Bad : x <= y
    BY ONLY <2>1, <2>2, HasMin
  <2> HIDE DEF x
  <2>5. x \in 0 .. c /\ m <= x /\ ~(u[m] <= u[x])
    BY <2>2, <2>3, <2>4
  <2>6. u[m] \in Nat /\ u[x] \in Nat
    BY <1>3, <2>5
  <2>7. x # m
    BY <2>5, <2>6
  <2>8. x \in 1 .. c /\ x - 1 \in 0 .. c /\ m <= x - 1 /\ ~(x <= x - 1)
    BY <1>1, <2>5, <2>7
  <2>9. u[m] <= u[x - 1]
    BY <2>2, <2>4, <2>8
  <2>10. u[x] = u[x - 1] + t[x] /\ {u[x - 1], t[x]} \subseteq Nat
    BY <1>1, <1>2, <1>3, <2>8
  <2> QED
    BY <2>5, <2>6, <2>9, <2>10
<1> QED
  BY <1>3, <1>4 DEF c, u

(* No target of a check takes longer than its slowest.                      *)
LEMMA SlowestBounds ==
  ASSUME config \in Configs, NEW k \in Kinds
  PROVE  Slowest(k) \in Nat /\ \A i \in 1 .. Count(k) : config[k][i].most <= Slowest(k)
<1> DEFINE S == {0} \cup { config[k][i].most : i \in Indices(k) }
<1>1. /\ Count(k) \in Nat /\ Indices(k) = 1 .. Count(k)
      /\ \A i \in 1 .. Count(k) : config[k][i].most \in Nat
  BY Targets
<1>2. S \in SUBSET Nat /\ S # {}
  BY <1>1
<1>3. UpTo(k)[Count(k)] \in Nat
  BY <1>1, UpToGrows
<1>4. ASSUME NEW i \in 1 .. Count(k) PROVE config[k][i].most <= UpTo(k)[Count(k)]
  <2>1. UpTo(k)[i] = UpTo(k)[i - 1] + config[k][i].most
    BY <1>1, UpToSteps
  <2>2. i \in 0 .. Count(k) /\ i - 1 \in 0 .. Count(k) /\ Count(k) \in 0 .. Count(k) /\ i <= Count(k)
    BY <1>1
  <2>3. UpTo(k)[i - 1] \in Nat /\ UpTo(k)[i] <= UpTo(k)[Count(k)]
    BY <2>2, UpToGrows
  <2> QED
    BY <1>1, <1>3, <2>1, <2>3
<1>5. \A n \in S : n <= UpTo(k)[Count(k)]
  BY <1>1, <1>3, <1>4
<1>6. \A i \in 1 .. Count(k) : config[k][i].most \in S
  BY <1>1
<1> HIDE DEF S
<1>7. Max(S) \in S /\ \A n \in S : n <= Max(S)
  BY ONLY <1>2, <1>3, <1>5, HasMax
<1>8. Slowest(k) = Max(S)
  BY DEF Slowest, S
<1> QED
  BY <1>2, <1>6, <1>7, <1>8

-------------------------------------------------------------------------------
\* The places of a check's targets.
Places(k) == 1 .. Count(k)

Shaped ==
  /\ config \in Configs /\ time \in Nat
  /\ task \in [Kinds -> {"idle", "running", "raising", "raised", "returned"}]
  /\ DOMAIN probe = Kinds /\ DOMAIN started = Kinds
  /\ DOMAIN gathered = Kinds /\ DOMAIN results = Kinds

Typed(k) ==
  /\ probe[k] \in [Places(k) -> {"waiting", "running", "answered", "raised"}]
  /\ started[k] \in [Places(k) -> Nat]
  /\ gathered[k] \in 0 .. Count(k)

\* Until it is submitted, a check has done nothing, and no time has passed.
Untouched(k) ==
  /\ task[k] # "idle" => Count(k) > 0
  /\ task[k] = "idle" =>
       /\ \A i \in Places(k) : probe[k][i] = "waiting"
       /\ gathered[k] = 0 /\ results[k] = Fresh(k)
       /\ Count(k) > 0 => time = 0

\* The targets are taken in the order of the configuration.
InOrder(k) ==
  \A i, j \in Places(k) : i < j /\ probe[k][j] # "waiting" => probe[k][i] # "waiting"

\* No check has more probes running than its pool has workers.
Manned(k) == k \in Pooled => Cardinality(Running(k)) <= Workers(k)

\* What a pool's check has taken is at the places of their own.
Collected(k) == k \in Pooled =>
  /\ results[k] \in [Places(k) -> 0 .. Count(k)]
  /\ \A i \in 1 .. gathered[k] : results[k][i] = i /\ Over(k, i)
  /\ task[k] = "returned" => gathered[k] = Count(k)

\* The icmp check has looked at all of its targets before.
Pinged(k) == k = "icmp" =>
  /\ results[k] = [i \in Places(k) |-> i]
  /\ task[k] # "raising"
  /\ task[k] \in {"running", "returned"} => ~Spoilt(k)
  /\ task[k] = "raised" => Spoilt(k)

\* A target of the wrong type raises, and its check with it.
Raised(k) == k \in {"dns", "http"} =>
  /\ \A i \in Places(k) : Over(k, i) => (probe[k][i] = "raised" <=> config[k][i].fault = "target")
  /\ \A i \in 1 .. gathered[k] : probe[k][i] # "raised"
  /\ task[k] \in {"raising", "raised"} => Spoilt(k)

\* The services check asks for one service after another.
Asked(k) == k = "services" =>
  /\ \A i \in Places(k) :
       /\ probe[k][i] # "raised"
       /\ probe[k][i] = "answered" => config[k][i].fault # "target"
       /\ probe[k][i] = "running" => config[k][i].fault \notin {"target", "foreign"}
  /\ \A i, j \in Places(k) : i < j /\ probe[k][i] = "running" => probe[k][j] = "waiting"
  /\ task[k] # "raising"
  /\ task[k] = "returned" => \A i \in Places(k) : Over(k, i)
  /\ task[k] = "raised" => Spoilt(k)

\* It keeps the answers in the order in which it has them.
Kept(k) == k = "services" =>
  /\ results[k] \in Seq(Places(k))
  /\ \A n \in 1 .. Len(results[k]) :
       LET i == results[k][n] IN
         n <= i /\ probe[k][i] = "answered" /\ config[k][i].fault # "foreign"
  /\ \A i \in Places(k) : probe[k][i] = "answered" /\ config[k][i].fault # "foreign" =>
       \E n \in 1 .. Len(results[k]) : results[k][n] = i
  /\ \A m, n \in 1 .. Len(results[k]) : m < n => results[k][m] < results[k][n]

\* The time by which a target is taken, and by which a check is through.
Due(k, i) ==
  IF k = "services" THEN UpTo(k)[i - 1] ELSE ((i - 1) \div Width) * Slowest(k)
Through(k) == IF k = "services" THEN Together(k) ELSE Waves(k) * Slowest(k)

OnTime(k) == task[k] \in {"running", "raising"} =>
  /\ time <= Through(k)
  /\ \A i \in Places(k) :
       /\ probe[k][i] = "waiting" /\ (k = "services" => Running(k) = {}) => time <= Due(k, i)
       /\ probe[k][i] = "running" =>
            started[k][i] <= Due(k, i) /\ time <= started[k][i] + config[k][i].most

Sound(k) ==
  /\ Typed(k) /\ Untouched(k) /\ InOrder(k) /\ Manned(k)
  /\ Collected(k) /\ Pinged(k) /\ Raised(k) /\ Asked(k) /\ Kept(k)
  /\ OnTime(k)

Reported ==
  /\ \A k \in Kinds :
       /\ checks[k].end \in {"none", "absent", "error", "answers"}
       /\ checks[k].of \in Seq(Places(k))
  /\ EveryTargetAnswers

Inv == Shaped /\ Reported /\ \A k \in Kinds : Sound(k)

(* What is configured does not change.                                      *)
LEMMA Configured ==
  ASSUME UNCHANGED config, NEW k \in Kinds
  PROVE  /\ UNCHANGED <<Count(k), Indices(k), Places(k), Workers(k), Spoilt(k), Fresh(k)>>
         /\ UNCHANGED <<Through(k), Slowest(k), UpTo(k)>>
         /\ \A i : Due(k, i)' = Due(k, i)
<1>1. UNCHANGED <<Count(k), Indices(k)>>
  BY DEF Count, Indices
<1>2. UNCHANGED <<Places(k), Workers(k), Spoilt(k), Fresh(k)>>
  BY <1>1 DEF Places, Workers, Least, Spoilt, Fresh
<1>3. UNCHANGED Slowest(k)
  BY <1>1 DEF Slowest
<1>4. UNCHANGED UpTo(k)
  BY <1>1 DEF UpTo
<1>5. UNCHANGED Through(k)
  BY <1>1, <1>3, <1>4 DEF Through, Together, Waves
<1>6. ASSUME NEW i PROVE Due(k, i)' = Due(k, i)
  BY <1>3, <1>4 DEF Due
<1> QED
  BY <1>1, <1>2, <1>3, <1>4, <1>5, <1>6

(* A quotient by w, and that of a number which is greater by w or more.     *)
LEMMA Quotient ==
  ASSUME NEW a \in Nat, NEW w \in Nat \ {0}
  PROVE  a \div w \in Nat /\ w * (a \div w) <= a /\ a < w * (a \div w) + w
OBVIOUS

\* Another w makes it greater by one.
LEMMA Quotients ==
  ASSUME NEW a \in Nat, NEW b \in Nat, NEW w \in Nat \ {0}, a + w <= b
  PROVE  (a \div w) + 1 <= b \div w
<1> DEFINE p == a \div w
           q == b \div w
<1>1. {p, q} \subseteq Nat /\ w * p <= a /\ b < w * q + w
  BY Quotient
<1> HIDE DEF p, q
<1>2. w * (p + 1) < w * (q + 1)
  BY <1>1
<1>3. p + 1 <= q
  BY <1>1, <1>2
<1> QED
  BY <1>3 DEF p, q

\* One more time s fits between p times s and q times s.
LEMMA Products ==
  ASSUME NEW p \in Nat, NEW q \in Nat, NEW s \in Nat, p + 1 <= q
  PROVE  {p * s, q * s} \subseteq Nat /\ p * s + s <= q * s
<1> DEFINE d == q - (p + 1)
<1>1. d \in Nat /\ q = p + 1 + d
  OBVIOUS
<1> HIDE DEF d
<1>2. {p * s, q * s, d * s} \subseteq Nat /\ q * s = p * s + s + d * s
  BY <1>1
<1> QED
  BY <1>2

(* A target that is taken in time is done before the ones are due that wait *)
(* for its worker, and before its check has to be through.                  *)
LEMMA DueSteps ==
  ASSUME config \in Configs, NEW k \in Kinds
  PROVE  /\ Through(k) \in Nat
         /\ \A i \in Places(k) : Due(k, i) \in Nat /\ Due(k, i) + config[k][i].most <= Through(k)
         /\ \A i, j \in Places(k) :
              (IF k = "services" THEN i < j ELSE i + Width <= j) =>
                Due(k, i) + config[k][i].most <= Due(k, j)
<1>1. Count(k) \in Nat /\ \A i \in 1 .. Count(k) : config[k][i].most \in Nat
  BY Targets
<1>2. CASE k = "services"
  <2>1. /\ Through(k) = UpTo(k)[Count(k)]
        /\ \A i \in Places(k) : Due(k, i) = UpTo(k)[i - 1]
    BY <1>2 DEF Through, Together, Due
  <2>2. \A i \in Places(k) : UpTo(k)[i] = UpTo(k)[i - 1] + config[k][i].most
    BY <1>1, UpToSteps DEF Places
  <2>3. /\ \A n \in 0 .. Count(k) : UpTo(k)[n] \in Nat
        /\ \A m, n \in 0 .. Count(k) : m <= n => UpTo(k)[m] <= UpTo(k)[n]
    BY UpToGrows
  <2>4. Count(k) \in 0 .. Count(k)
    BY <1>1
  <2>5. ASSUME NEW i \in Places(k)
        PROVE  i - 1 \in 0 .. Count(k) /\ i \in 0 .. Count(k) /\ i <= Count(k)
    BY <1>1 DEF Places
  <2>6. ASSUME NEW i \in Places(k), NEW j \in Places(k), i < j
        PROVE  Due(k, i) + config[k][i].most <= Due(k, j)
    <3>1. i <= j - 1
      BY <1>1, <2>6 DEF Places
    <3> QED
      BY <2>1, <2>2, <2>3, <2>5, <3>1
  <2> QED
    BY <1>2, <2>1, <2>2, <2>3, <2>4, <2>5, <2>6
<1>3. CASE k # "services"
  <2> DEFINE q(i) == (i - 1) \div Width
             s == Slowest(k)
             w == Waves(k)
  <2>1. s \in Nat /\ Width \in Nat \ {0} /\ \A i \in Places(k) : config[k][i].most <= s
    BY ChecksAssumption, SlowestBounds DEF Places
  <2>2. Through(k) = w * s /\ \A i \in Places(k) : Due(k, i) = q(i) * s
    BY <1>3 DEF Through, Due
  <2>3. \A i \in Places(k) : i - 1 \in Nat /\ i <= Count(k) /\ i \in Int
    BY <1>1 DEF Places
  <2>4. w \in Nat /\ \A i \in Places(k) : q(i) \in Nat /\ q(i) + 1 <= w
    <3>1. Count(k) + Width - 1 \in Nat
      BY <1>1, <2>1
    <3>2. w \in Nat
      BY <2>1, <3>1, Quotient DEF Waves
    <3>3. ASSUME NEW i \in Places(k) PROVE q(i) \in Nat /\ q(i) + 1 <= w
      <4>1. (i - 1) + Width <= Count(k) + Width - 1
        BY <1>1, <2>1, <2>3
      <4> QED
        BY <2>1, <2>3, <3>1, <4>1, Quotient, Quotients DEF Waves
    <3> QED
      BY <3>2, <3>3
  <2>5. ASSUME NEW i \in Places(k), NEW j \in Places(k), i + Width <= j PROVE q(i) + 1 <= q(j)
    <3>1. (i - 1) + Width <= j - 1
      BY <2>1, <2>3, <2>5
    <3> QED
      BY <2>1, <2>3, <3>1, Quotients
  <2> HIDE DEF q, s, w
  <2>6. ASSUME NEW i \in Places(k), NEW b \in Nat, q(i) + 1 <= b
        PROVE  {q(i) * s, b * s} \subseteq Nat /\ q(i) * s + config[k][i].most <= b * s
    <3>1. {q(i) * s, b * s} \subseteq Nat /\ q(i) * s + s <= b * s
      BY <2>1, <2>4, <2>6, Products
    <3>2. config[k][i].most \in Nat /\ config[k][i].most <= s
      BY <1>1, <2>1 DEF Places
    <3> QED
      BY ONLY <2>1, <3>1, <3>2
  <2>7. ASSUME NEW i \in Places(k)
        PROVE  q(i) * s \in Nat /\ q(i) * s + config[k][i].most <= w * s
    BY <2>4, <2>6
  <2>8. w * s \in Nat
    BY <2>1, <2>4
  <2>9. ASSUME NEW i \in Places(k), NEW j \in Places(k), i + Width <= j
        PROVE  q(i) * s + config[k][i].most <= q(j) * s
    BY <2>4, <2>5, <2>6, <2>9
  <2> QED
    BY <1>3, <2>2, <2>7, <2>8, <2>9
<1> QED
  BY <1>2, <1>3

(* A check with which nothing happens at this second stays sound.           *)
LEMMA StaysSound ==
  ASSUME UNCHANGED <<config, time>>, NEW k \in Kinds, Sound(k),
         UNCHANGED <<task[k], probe[k], started[k], gathered[k], results[k]>>
  PROVE  Sound(k)'
<1>1. /\ UNCHANGED <<Count(k), Indices(k), Places(k), Workers(k), Spoilt(k), Fresh(k)>>
      /\ UNCHANGED Through(k)
      /\ \A i : Due(k, i)' = Due(k, i)
  BY Configured
<1>2. UNCHANGED Running(k) /\ \A i : Over(k, i)' = Over(k, i)
  BY <1>1 DEF Running, Over
<1>3. Typed(k)' /\ Untouched(k)' /\ InOrder(k)' /\ Manned(k)'
  BY <1>1, <1>2 DEF Sound, Typed, Untouched, InOrder, Manned
<1>4. Collected(k)' /\ Pinged(k)'
  BY <1>1, <1>2 DEF Sound, Collected, Pinged
<1>5. Raised(k)' /\ Asked(k)'
  BY <1>1, <1>2 DEF Sound, Raised, Asked
<1>6. Kept(k)'
  BY <1>1 DEF Sound, Kept
<1>7. OnTime(k)'
  BY <1>1, <1>2 DEF Sound, OnTime
<1> QED
  BY <1>3, <1>4, <1>5, <1>6, <1>7 DEF Sound

(* A step of one check leaves the others sound, and what was returned.      *)
LEMMA OneCheckMoves ==
  ASSUME Inv, UNCHANGED <<config, time, checks>>, NEW k \in Kinds, Shaped', Sound(k)',
         \A l \in Kinds \ {k} :
           UNCHANGED <<task[l], probe[l], started[l], gathered[l], results[l]>>
  PROVE  Inv'
<1>1. ASSUME NEW l \in Kinds PROVE Sound(l)'
  BY <1>1, StaysSound DEF Inv
<1>2. EveryTargetAnswers'
  <2>1. \A l \in Kinds : UNCHANGED <<Count(l), Indices(l), Spoilt(l)>>
    BY Configured
  <2>2. \A l \in Kinds : UNCHANGED Good(l)
    BY <2>1 DEF Good
  <2> QED
    BY <2>1, <2>2 DEF Inv, Reported, EveryTargetAnswers
<1>3. Reported'
  <2>1. \A l \in Kinds : UNCHANGED Places(l)
    BY Configured
  <2> QED
    BY <1>2, <2>1 DEF Inv, Reported
<1> QED
  BY <1>1, <1>3 DEF Inv

LEMMA Submits ==
  ASSUME Inv, NEW k \in Kinds, Submit(k)
  PROVE  Inv'
<1>1. Sound(k) /\ Shaped
  BY DEF Inv
<1>2. /\ UNCHANGED <<Count(k), Indices(k), Places(k), Workers(k), Spoilt(k), Fresh(k)>>
      /\ \A i : Due(k, i)' = Due(k, i)
  BY Configured DEF Submit
<1>3. UNCHANGED Running(k) /\ \A i : Over(k, i)' = Over(k, i)
  BY <1>2 DEF Submit, Running, Over
<1>4. /\ task[k] = "idle" /\ Count(k) > 0
      /\ task'[k] = IF k = "icmp" /\ Spoilt(k) THEN "raised" ELSE "running"
      /\ UNCHANGED <<config, time, probe, started, gathered, results, checks>>
  BY <1>1 DEF Submit, Shaped, Spoilt
<1>5. Shaped'
  BY <1>1 DEF Submit, Shaped
<1>6. Typed(k)' /\ Untouched(k)' /\ InOrder(k)' /\ Manned(k)'
  BY <1>1, <1>2, <1>3, <1>4 DEF Sound, Typed, Untouched, InOrder, Manned
<1>7. Collected(k)' /\ Pinged(k)'
  BY <1>1, <1>2, <1>3, <1>4 DEF Sound, Collected, Pinged
<1>8. Raised(k)' /\ Asked(k)' /\ Kept(k)'
  <2>1. Raised(k)'
    BY <1>1, <1>2, <1>3, <1>4 DEF Sound, Raised
  <2>2. Asked(k)'
    BY <1>1, <1>2, <1>3, <1>4 DEF Sound, Asked
  <2>3. Kept(k)'
    BY <1>1, <1>2, <1>4 DEF Sound, Kept
  <2> QED
    BY <2>1, <2>2, <2>3
<1>9. OnTime(k)'
  <2>1. time = 0 /\ \A i \in Places(k) : probe[k][i] = "waiting"
    BY <1>1, <1>4 DEF Sound, Untouched
  <2>2. Through(k) >= 0 /\ \A i \in Places(k) : Due(k, i) >= 0
    BY <1>1, DueSteps DEF Shaped
  <2>3. UNCHANGED Through(k)
    BY <1>4, Configured
  <2> QED
    BY <1>2, <1>4, <2>1, <2>2, <2>3 DEF OnTime
<1>10. Sound(k)'
  BY <1>6, <1>7, <1>8, <1>9 DEF Sound
<1>11. \A l \in Kinds \ {k} : UNCHANGED task[l]
  BY <1>1 DEF Submit, Shaped
<1> QED
  BY <1>4, <1>5, <1>10, <1>11, OneCheckMoves

\* The waiting target which is taken first, and how many are running.
LEMMA FirstWaiting ==
  ASSUME config \in Configs, NEW k \in Kinds, Typed(k), Waiting(k) # {}
  PROVE  /\ Min(Waiting(k)) \in Places(k) /\ probe[k][Min(Waiting(k))] = "waiting"
         /\ \A j \in Places(k) : probe[k][j] = "waiting" => Min(Waiting(k)) <= j
<1>1. Indices(k) = Places(k) /\ Places(k) \subseteq Nat
  BY Targets DEF Places
<1>2. \A j : j \in Waiting(k) <=> j \in Places(k) /\ probe[k][j] = "waiting"
  BY <1>1 DEF Waiting
<1>3. Waiting(k) \in SUBSET Nat
  BY <1>1, <1>2
<1>4. Min(Waiting(k)) \in Waiting(k) /\ \A j \in Waiting(k) : Min(Waiting(k)) <= j
  BY <1>3, HasMin
<1> QED
  BY <1>2, <1>4

LEMMA RunningFinite ==
  ASSUME config \in Configs, NEW k \in Kinds
  PROVE  /\ IsFiniteSet(Running(k)) /\ Cardinality(Running(k)) \in Nat
         /\ \A i : i \in Running(k) <=> i \in Places(k) /\ probe[k][i] = "running"
<1>1. Count(k) \in Nat /\ Indices(k) = 1 .. Count(k)
  BY Targets
<1>2. Running(k) \subseteq 1 .. Count(k)
  BY <1>1 DEF Running
<1>3. IsFiniteSet(1 .. Count(k))
  BY <1>1, FS_Interval
<1>4. IsFiniteSet(Running(k))
  BY <1>2, <1>3, FS_Subset
<1>5. Cardinality(Running(k)) \in Nat
  BY <1>4, FS_CardinalityType
<1> QED
  BY <1>1, <1>4, <1>5 DEF Running, Places

LEMMA Takes ==
  ASSUME Inv, NEW k \in Kinds, Take(k)
  PROVE  Inv'
<1> DEFINE i == Min(Waiting(k))
<1>1. Sound(k) /\ Shaped
  BY DEF Inv
<1>2. UNCHANGED <<config, time, task, gathered, results, checks>>
  BY DEF Take
<1>3. /\ UNCHANGED <<Count(k), Indices(k), Places(k), Workers(k), Spoilt(k), Fresh(k)>>
      /\ UNCHANGED Through(k)
      /\ \A j : Due(k, j)' = Due(k, j)
  BY <1>2, Configured
<1>4. i \in Places(k) /\ probe[k][i] = "waiting"
      /\ \A j \in Places(k) : probe[k][j] = "waiting" => i <= j
  BY <1>1, FirstWaiting DEF Take, Sound, Shaped
<1>5. /\ k \in Pooled /\ task[k] \in {"running", "raising"}
      /\ Cardinality(Running(k)) < Workers(k)
      /\ probe' = [probe EXCEPT ![k][i] = "running"]
      /\ started' = [started EXCEPT ![k][i] = time]
  BY DEF Take
<1> HIDE DEF i
<1>6. Shaped'
  BY <1>1, <1>2, <1>5 DEF Shaped
<1>7. Typed(k) /\ Places(k) \subseteq Nat /\ time \in Nat
  BY <1>1, Targets DEF Sound, Shaped, Places
<1>8. /\ probe'[k] = [probe[k] EXCEPT ![i] = "running"]
      /\ started'[k] = [started[k] EXCEPT ![i] = time]
      /\ \A l \in Kinds \ {k} : UNCHANGED <<probe[l], started[l]>>
  BY <1>1, <1>5 DEF Shaped
<1>9. /\ \A j \in Places(k) : probe'[k][j] = IF j = i THEN "running" ELSE probe[k][j]
      /\ \A j \in Places(k) : started'[k][j] = IF j = i THEN time ELSE started[k][j]
  BY <1>7, <1>8 DEF Typed
<1>10. Typed(k)'
  BY <1>2, <1>3, <1>4, <1>7, <1>8 DEF Typed
<1>11. \A j \in Places(k) : Over(k, j)' = Over(k, j)
  BY <1>4, <1>9 DEF Over
<1>12. Untouched(k)' /\ InOrder(k)'
  <2>1. Untouched(k)'
    BY <1>1, <1>2, <1>3, <1>5 DEF Sound, Untouched
  <2>2. InOrder(k)'
    BY <1>1, <1>3, <1>4, <1>7, <1>9 DEF Sound, InOrder
  <2> QED
    BY <2>1, <2>2
<1>13. Manned(k)'
  <2>1. \A j : j \in Running(k) <=> j \in Places(k) /\ probe[k][j] = "running"
    BY <1>1, RunningFinite DEF Shaped
  <2>2. \A j : j \in Running(k)' <=> j \in Places(k) /\ probe'[k][j] = "running"
    BY <1>1, <1>2, <1>3, Targets DEF Shaped, Running, Places
  <2>3. Running(k)' = Running(k) \cup {i} /\ i \notin Running(k)
    BY <1>4, <1>9, <2>1, <2>2
  <2>4. IsFiniteSet(Running(k)) /\ Cardinality(Running(k)) \in Nat
    BY <1>1, RunningFinite DEF Shaped
  <2>5. Cardinality(Running(k))' = Cardinality(Running(k)) + 1
    BY <2>3, <2>4, FS_AddElement
  <2>6. Workers(k) \in Int
    BY <1>1, ChecksAssumption, Targets DEF Shaped, Workers, Least
  <2> QED
    BY <1>3, <1>5, <2>4, <2>5, <2>6 DEF Manned
<1>14. Collected(k)' /\ Pinged(k)'
  <2>1. 1 .. gathered[k] \subseteq Places(k)
    BY <1>1, <1>7, Targets DEF Shaped, Typed, Places
  <2>2. Collected(k)'
    BY <1>1, <1>2, <1>3, <1>11, <2>1 DEF Sound, Collected
  <2>3. Pinged(k)'
    BY <1>1, <1>2, <1>3 DEF Sound, Pinged
  <2> QED
    BY <2>2, <2>3
<1>15. Raised(k)' /\ Asked(k)' /\ Kept(k)'
  <2>1. 1 .. gathered[k] \subseteq Places(k)
    BY <1>1, <1>7, Targets DEF Shaped, Typed, Places
  <2>2. Raised(k)'
    BY <1>1, <1>2, <1>3, <1>9, <1>11, <1>4, <2>1 DEF Sound, Raised, Over
  <2>3. k # "services"
    BY <1>5 DEF Pooled
  <2> QED
    BY <2>2, <2>3 DEF Asked, Kept
<1>16. OnTime(k)'
  <2>1. time <= Due(k, i)
    BY <1>1, <1>4, <1>5 DEF Sound, OnTime, Pooled
  <2>2. time <= time + config[k][i].most
    BY <1>1, <1>4, <1>7, Targets DEF Shaped, Places
  <2>3. k # "services"
    BY <1>5 DEF Pooled
  <2> QED
    BY <1>1, <1>2, <1>3, <1>5, <1>9, <2>1, <2>2, <2>3 DEF Sound, OnTime
<1>17. Sound(k)'
  BY <1>10, <1>12, <1>13, <1>14, <1>15, <1>16 DEF Sound
<1> QED
  BY <1>2, <1>6, <1>8, <1>17, OneCheckMoves

LEMMA Finishes ==
  ASSUME Inv, NEW k \in Pooled, NEW i \in Indices(k), NEW raises \in BOOLEAN, Ends(k, i, raises),
         k # "icmp" => (raises <=> config[k][i].fault = "target")
  PROVE  Inv'
<1> DEFINE end == IF raises THEN "raised" ELSE "answered"
<1>1. Sound(k) /\ Shaped /\ k \in Kinds
  BY DEF Inv, Kinds
<1>2. UNCHANGED <<config, time, task, started, gathered, results, checks>>
  BY DEF Ends
<1>3. /\ UNCHANGED <<Count(k), Indices(k), Places(k), Workers(k), Spoilt(k), Fresh(k)>>
      /\ UNCHANGED Through(k)
      /\ \A j : Due(k, j)' = Due(k, j)
  BY <1>1, <1>2, Configured
<1>4. /\ probe[k][i] = "running" /\ i \in Places(k)
      /\ probe' = [probe EXCEPT ![k][i] = end] /\ end \in {"raised", "answered"}
      /\ end = "raised" <=> raises
  BY <1>1, Targets DEF Ends, Shaped, Places
<1> HIDE DEF end
<1>5. Shaped'
  BY <1>1, <1>2, <1>4 DEF Shaped
<1>6. Typed(k) /\ Places(k) \subseteq Nat
  BY <1>1, Targets DEF Sound, Shaped, Places
<1>7. /\ probe'[k] = [probe[k] EXCEPT ![i] = end]
      /\ \A l \in Kinds \ {k} : UNCHANGED probe[l]
  BY <1>1, <1>4 DEF Shaped
<1>8. \A j \in Places(k) : probe'[k][j] = IF j = i THEN end ELSE probe[k][j]
  BY <1>6, <1>7 DEF Typed
<1>9. Typed(k)'
  BY <1>2, <1>3, <1>4, <1>6, <1>7 DEF Typed
<1>10. /\ \A j \in Places(k) : Over(k, j) => Over(k, j)' /\ j # i
       /\ \A j \in Places(k) : Over(k, j)' => Over(k, j) \/ j = i
  BY <1>4, <1>8 DEF Over
<1>11. Untouched(k)' /\ InOrder(k)'
  <2>1. Untouched(k)'
    BY <1>1, <1>2, <1>3, <1>4 DEF Sound, Untouched
  <2>2. InOrder(k)'
    BY <1>1, <1>3, <1>4, <1>8 DEF Sound, InOrder
  <2> QED
    BY <2>1, <2>2
<1>12. Manned(k)'
  <2>1. \A j : j \in Running(k) <=> j \in Places(k) /\ probe[k][j] = "running"
    BY <1>1, RunningFinite DEF Shaped
  <2>2. \A j : j \in Running(k)' <=> j \in Places(k) /\ probe'[k][j] = "running"
    BY <1>1, <1>2, <1>3, Targets DEF Shaped, Running, Places
  <2>3. Running(k)' \subseteq Running(k)
    BY <1>4, <1>8, <2>1, <2>2
  <2>4. IsFiniteSet(Running(k)) /\ Cardinality(Running(k)) \in Nat
    BY <1>1, RunningFinite DEF Shaped
  <2>5. Cardinality(Running(k)') \in Nat /\ Cardinality(Running(k)') <= Cardinality(Running(k))
    BY <2>3, <2>4, FS_Subset, FS_CardinalityType
  <2>6. Workers(k) \in Int
    BY <1>1, ChecksAssumption, Targets DEF Shaped, Workers, Least
  <2> QED
    BY <1>1, <1>3, <2>4, <2>5, <2>6 DEF Sound, Manned
<1>13. 1 .. gathered[k] \subseteq Places(k)
  BY <1>1, <1>6, Targets DEF Shaped, Typed, Places
<1>14. Collected(k)' /\ Pinged(k)'
  <2>1. Collected(k)'
    BY <1>1, <1>2, <1>3, <1>10, <1>13 DEF Sound, Collected
  <2>2. Pinged(k)'
    BY <1>1, <1>2, <1>3 DEF Sound, Pinged
  <2> QED
    BY <2>1, <2>2
<1>15. Raised(k)' /\ Asked(k)' /\ Kept(k)'
  <2>1. k # "services"
    BY DEF Pooled
  <2>2. CASE k \in {"dns", "http"}
    <3>1. \A j \in Places(k) : Over(k, j)' => (probe'[k][j] = "raised" <=> config[k][j].fault = "target")
      BY <1>1, <1>4, <1>8, <1>10, <2>2 DEF Sound, Raised
    <3>2. ASSUME NEW j \in 1 .. gathered[k] PROVE probe'[k][j] # "raised"
      <4>1. j \in Places(k) /\ Over(k, j) /\ probe[k][j] # "raised"
        BY <1>1, <1>13, <2>2 DEF Sound, Raised, Collected
      <4> QED
        BY <1>8, <1>10, <4>1
    <3> QED
      BY <1>1, <1>2, <1>3, <2>1, <2>2, <3>1, <3>2 DEF Sound, Raised, Asked, Kept
  <2>3. CASE k \notin {"dns", "http"}
    BY <2>1, <2>3 DEF Raised, Asked, Kept
  <2> QED
    BY <2>2, <2>3
<1>16. OnTime(k)'
  <2>1. k # "services" /\ end # "waiting" /\ end # "running"
    BY <1>4 DEF Pooled
  <2> QED
    BY <1>1, <1>2, <1>3, <1>8, <2>1 DEF Sound, OnTime
<1>17. Sound(k)'
  BY <1>9, <1>11, <1>12, <1>14, <1>15, <1>16 DEF Sound
<1> QED
  BY <1>1, <1>2, <1>5, <1>7, <1>17, OneCheckMoves

LEMMA Gathers ==
  ASSUME Inv, NEW k \in Kinds, Gather(k)
  PROVE  Inv'
<1> DEFINE i == gathered[k] + 1
<1>1. Sound(k) /\ Shaped
  BY DEF Inv
<1>2. UNCHANGED <<config, time, probe, started, checks>>
  BY DEF Gather
<1>3. /\ UNCHANGED <<Count(k), Indices(k), Places(k), Workers(k), Spoilt(k), Fresh(k)>>
      /\ UNCHANGED Through(k)
      /\ \A j : Due(k, j)' = Due(k, j)
  BY <1>2, Configured
<1>4. UNCHANGED Running(k) /\ \A j : Over(k, j)' = Over(k, j)
  BY <1>2, <1>3 DEF Running, Over
<1>5. /\ k \in Pooled /\ k # "services" /\ task[k] = "running" /\ gathered[k] < Count(k)
      /\ Over(k, i)
  BY DEF Gather, Pooled
<1>6. Count(k) \in Nat /\ gathered[k] \in 0 .. Count(k)
  BY <1>1, Targets DEF Shaped, Sound, Typed
<1>7. /\ i \in 1 .. Count(k) /\ i \in Places(k)
      /\ \A j \in 1 .. i : j \in 1 .. gathered[k] \/ j = i
  BY <1>5, <1>6 DEF Places
<1>8. CASE probe[k][i] = "raised" /\ k # "icmp"
  <2>1. task' = [task EXCEPT ![k] = "raising"] /\ UNCHANGED <<gathered, results>>
    BY <1>8 DEF Gather
  <2>2. Shaped' /\ task'[k] = "raising" /\ \A l \in Kinds \ {k} : UNCHANGED task[l]
    BY <1>1, <1>2, <2>1 DEF Shaped
  <2>3. k \in {"dns", "http"} /\ Spoilt(k)
    BY <1>1, <1>5, <1>7, <1>8, Targets DEF Pooled, Sound, Raised, Shaped, Spoilt
  <2>4. Typed(k)' /\ Untouched(k)' /\ InOrder(k)' /\ Manned(k)'
    BY <1>1, <1>2, <1>3, <1>4, <1>5, <2>1, <2>2 DEF Sound, Typed, Untouched, InOrder, Manned
  <2>5. Collected(k)' /\ Pinged(k)'
    BY <1>1, <1>2, <1>3, <1>4, <1>8, <2>1, <2>2 DEF Sound, Collected, Pinged
  <2>6. Raised(k)' /\ Asked(k)' /\ Kept(k)'
    BY <1>1, <1>2, <1>3, <1>4, <1>5, <2>1, <2>3 DEF Sound, Raised, Asked, Kept
  <2>7. OnTime(k)'
    BY <1>1, <1>2, <1>3, <1>4, <1>5 DEF Sound, OnTime
  <2>8. Sound(k)'
    BY <2>4, <2>5, <2>6, <2>7 DEF Sound
  <2> QED
    BY <1>2, <2>1, <2>2, <2>8, OneCheckMoves
<1>9. CASE ~(probe[k][i] = "raised" /\ k # "icmp")
  <2>1. /\ results' = [results EXCEPT ![k][i] = i] /\ gathered' = [gathered EXCEPT ![k] = i]
        /\ UNCHANGED task
    BY <1>9 DEF Gather
  <2>2. /\ Shaped' /\ results'[k] = [results[k] EXCEPT ![i] = i] /\ gathered'[k] = i
        /\ \A l \in Kinds \ {k} : UNCHANGED <<results[l], gathered[l]>>
    BY <1>1, <1>2, <2>1 DEF Shaped
  <2>3. results[k] \in [Places(k) -> 0 .. Count(k)]
    BY <1>1, <1>5 DEF Sound, Collected
  <2>4. /\ results'[k] \in [Places(k) -> 0 .. Count(k)]
        /\ \A j \in Places(k) : results'[k][j] = IF j = i THEN i ELSE results[k][j]
    BY <1>6, <1>7, <2>2, <2>3
  <2>5. Typed(k)' /\ Untouched(k)' /\ InOrder(k)' /\ Manned(k)'
    <3>1. Typed(k)'
      BY <1>1, <1>2, <1>3, <1>6, <1>7, <2>2 DEF Sound, Typed
    <3>2. Untouched(k)'
      BY <1>1, <1>3, <1>5, <2>1 DEF Sound, Untouched
    <3> QED
      BY <1>1, <1>2, <1>3, <1>4, <3>1, <3>2 DEF Sound, InOrder, Manned
  <2>6. 1 .. gathered[k] \subseteq Places(k)
    BY <1>6 DEF Places
  <2>7. Collected(k)'
    <3>1. ASSUME NEW j \in 1 .. i PROVE results'[k][j] = j /\ Over(k, j)
      BY <1>1, <1>5, <1>7, <2>4, <2>6 DEF Sound, Collected
    <3> QED
      BY <1>3, <1>4, <1>5, <2>1, <2>2, <2>4, <3>1 DEF Collected
  <2>8. Pinged(k)'
    <3>1. ASSUME k = "icmp" PROVE results'[k] = [j \in Places(k) |-> j]
      BY <1>1, <1>7, <2>2, <3>1 DEF Sound, Pinged
    <3> QED
      BY <1>1, <1>3, <2>1, <3>1 DEF Sound, Pinged
  <2>9. Raised(k)'
    <3>1. ASSUME k \in {"dns", "http"}, NEW j \in 1 .. i PROVE probe[k][j] # "raised"
      BY <1>1, <1>7, <1>9, <3>1 DEF Sound, Raised
    <3> QED
      BY <1>1, <1>2, <1>3, <1>4, <2>1, <2>2, <3>1 DEF Sound, Raised
  <2>10. Asked(k)' /\ Kept(k)'
    BY <1>5 DEF Asked, Kept
  <2>11. OnTime(k)'
    BY <1>1, <1>2, <1>3, <1>4, <2>1 DEF Sound, OnTime
  <2>12. Sound(k)'
    BY <2>5, <2>7, <2>8, <2>9, <2>10, <2>11 DEF Sound
  <2> QED
    BY <1>2, <2>1, <2>2, <2>12, OneCheckMoves
<1> QED
  BY <1>8, <1>9

LEMMA LeavesPool ==
  ASSUME Inv, NEW k \in Kinds, LeavePool(k)
  PROVE  Inv'
<1>1. Sound(k) /\ Shaped
  BY DEF Inv
<1>2. UNCHANGED <<config, time, probe, started, gathered, results, checks>>
  BY DEF LeavePool
<1>3. UNCHANGED <<Count(k), Indices(k), Places(k), Workers(k), Spoilt(k), Fresh(k)>>
  BY <1>2, Configured
<1>4. UNCHANGED Running(k) /\ \A j : Over(k, j)' = Over(k, j)
  BY <1>2, <1>3 DEF Running, Over
<1>5. /\ k \in Pooled /\ k # "services" /\ Shaped'
      /\ \A l \in Kinds \ {k} : UNCHANGED task[l]
      /\ \/ task[k] = "raising" /\ task'[k] = "raised"
         \/ task[k] = "running" /\ gathered[k] = Count(k) /\ task'[k] = "returned"
  BY <1>1, <1>2 DEF LeavePool, Pooled, Shaped
<1>6. Typed(k)' /\ Untouched(k)' /\ InOrder(k)' /\ Manned(k)'
  BY <1>1, <1>2, <1>3, <1>4, <1>5 DEF Sound, Typed, Untouched, InOrder, Manned
<1>7. Collected(k)' /\ Pinged(k)'
  <2>1. Collected(k)'
    BY <1>1, <1>2, <1>3, <1>4, <1>5 DEF Sound, Collected
  <2>2. Pinged(k)'
    BY <1>1, <1>2, <1>3, <1>5 DEF Sound, Pinged
  <2> QED
    BY <2>1, <2>2
<1>8. Raised(k)' /\ Asked(k)' /\ Kept(k)'
  BY <1>1, <1>2, <1>3, <1>4, <1>5 DEF Sound, Raised, Asked, Kept
<1>9. OnTime(k)'
  BY <1>5 DEF OnTime
<1>10. Sound(k)'
  BY <1>6, <1>7, <1>8, <1>9 DEF Sound
<1> QED
  BY <1>2, <1>5, <1>10, OneCheckMoves

LEMMA Asks ==
  ASSUME Inv, Ask
  PROVE  Inv'
<1> DEFINE k == "services"
           i == Min(Waiting(k))
           f == config[k][i].fault
<1>1. k \in Kinds /\ k \notin Pooled /\ k \notin {"icmp", "dns", "http"}
  BY DEF Kinds, Pooled
<1>2. Sound(k) /\ Shaped
  BY <1>1 DEF Inv
<1>3. /\ UNCHANGED <<config, time, gathered, results, checks>>
      /\ task[k] = "running" /\ Running(k) = {} /\ Waiting(k) # {}
  BY DEF Ask
<1>4. /\ UNCHANGED <<Count(k), Indices(k), Places(k), Workers(k), Spoilt(k), Fresh(k)>>
      /\ UNCHANGED Through(k)
      /\ \A j : Due(k, j)' = Due(k, j)
  BY <1>1, <1>3, Configured
<1>5. i \in Places(k) /\ probe[k][i] = "waiting"
      /\ \A j \in Places(k) : probe[k][j] = "waiting" => i <= j
  BY <1>1, <1>2, <1>3, FirstWaiting DEF Sound, Shaped
<1>6. Typed(k) /\ Places(k) \subseteq Nat /\ time \in Nat
  BY <1>1, <1>2, Targets DEF Sound, Shaped, Places
<1>7. \A j \in Places(k) : probe[k][j] # "running"
  BY <1>1, <1>2, <1>3, RunningFinite DEF Shaped
<1>8. \A j \in Places(k) : j > i => probe[k][j] = "waiting"
  BY <1>2, <1>5, <1>6 DEF Sound, InOrder
<1>9. Manned(k)' /\ Collected(k)' /\ Pinged(k)' /\ Raised(k)'
  BY <1>1 DEF Manned, Collected, Pinged, Raised
<1>10. CASE f = "target"
  <2>1. task' = [task EXCEPT ![k] = "raised"] /\ UNCHANGED <<probe, started>>
    BY <1>10 DEF Ask
  <2>2. Shaped' /\ task'[k] = "raised" /\ \A l \in Kinds \ {k} : UNCHANGED task[l]
    BY <1>1, <1>2, <1>3, <2>1 DEF Shaped
  <2>3. Spoilt(k)
    BY <1>1, <1>2, <1>5, <1>10, Targets DEF Spoilt, Shaped, Places
  <2>4. Typed(k)' /\ InOrder(k)' /\ Untouched(k)'
    BY <1>2, <1>3, <1>4, <2>1, <2>2 DEF Sound, Typed, InOrder, Untouched
  <2>5. Asked(k)'
    BY <1>2, <1>3, <1>4, <2>1, <2>2, <2>3 DEF Sound, Asked
  <2>6. Kept(k)'
    BY <1>2, <1>3, <1>4, <2>1 DEF Sound, Kept
  <2>7. OnTime(k)'
    BY <2>2 DEF OnTime
  <2>8. Sound(k)'
    BY <1>9, <2>4, <2>5, <2>6, <2>7 DEF Sound
  <2> QED
    BY <1>1, <1>3, <2>1, <2>2, <2>8, OneCheckMoves
<1>11. CASE f # "target"
  <2> DEFINE end == IF f = "foreign" THEN "answered" ELSE "running"
  <2>1. /\ UNCHANGED task /\ probe' = [probe EXCEPT ![k][i] = end]
        /\ started' = IF f = "foreign" THEN started ELSE [started EXCEPT ![k][i] = time]
    BY <1>11 DEF Ask
  <2>2. end \in {"answered", "running"} /\ (end = "answered" <=> f = "foreign")
    OBVIOUS
  <2>3. /\ Shaped' /\ probe'[k] = [probe[k] EXCEPT ![i] = end]
        /\ \A l \in Kinds \ {k} : UNCHANGED <<probe[l], started[l]>>
    BY <1>1, <1>2, <1>3, <2>1 DEF Shaped
  <2>4. started'[k] = IF f = "foreign" THEN started[k] ELSE [started[k] EXCEPT ![i] = time]
    BY <1>1, <1>2, <2>1 DEF Shaped
  <2> HIDE DEF f, end
  <2>5. \A j \in Places(k) :
          /\ probe'[k][j] = IF j = i THEN end ELSE probe[k][j]
          /\ started'[k][j] = IF j = i /\ f # "foreign" THEN time ELSE started[k][j]
    BY <1>6, <2>3, <2>4 DEF Typed
  <2> HIDE DEF i
  <2>6. Typed(k)'
    BY <1>3, <1>4, <1>5, <1>6, <2>2, <2>3, <2>4 DEF Typed
  <2>7. Untouched(k)' /\ InOrder(k)'
    <3>1. Untouched(k)'
      BY <1>2, <1>3, <1>4, <2>1 DEF Sound, Untouched
    <3>2. InOrder(k)'
      BY <1>2, <1>4, <1>5, <1>6, <2>2, <2>5 DEF Sound, InOrder
    <3> QED
      BY <3>1, <3>2
  <2>8. Asked(k)'
    <3>1. \A j \in Places(k) :
            /\ probe'[k][j] # "raised"
            /\ probe'[k][j] = "answered" => config[k][j].fault # "target"
            /\ probe'[k][j] = "running" => config[k][j].fault \notin {"target", "foreign"}
      BY <1>2, <1>11, <2>2, <2>5 DEF Sound, Asked, f
    <3>2. \A j, l \in Places(k) : j < l /\ probe'[k][j] = "running" => probe'[k][l] = "waiting"
      BY <1>5, <1>6, <1>7, <1>8, <2>2, <2>5
    <3> QED
      BY <1>3, <1>4, <2>1, <3>1, <3>2 DEF Asked
  <2>9. Kept(k)'
    <3>1. \A j \in Places(k) : probe[k][j] = "answered" => probe'[k][j] = "answered"
      BY <1>5, <2>5
    <3>2. \A j \in Places(k) : probe'[k][j] = "answered" =>
            probe[k][j] = "answered" \/ config[k][j].fault = "foreign"
      BY <2>2, <2>5 DEF f
    <3>3. results[k] \in Seq(Places(k)) /\ \A n \in 1 .. Len(results[k]) : results[k][n] \in Places(k)
      BY <1>1, <1>2, ElementOfSeq DEF Sound, Kept
    <3> QED
      BY <1>2, <1>3, <1>4, <3>1, <3>2, <3>3 DEF Sound, Kept
  <2>10. OnTime(k)'
    <3>1. time <= Due(k, i) /\ time <= Through(k)
          /\ \A j \in Places(k) : probe[k][j] = "waiting" => time <= Due(k, j)
      BY <1>2, <1>3, <1>5 DEF Sound, OnTime
    <3>2. time <= time + config[k][i].most
      BY <1>1, <1>2, <1>5, <1>6, Targets DEF Shaped, Places
    <3>3. \A j \in Places(k) : probe'[k][j] = "running" => j = i /\ f # "foreign"
      BY <1>7, <2>2, <2>5
    <3>4. \A j \in Places(k) : probe'[k][j] = "waiting" => probe[k][j] = "waiting"
      BY <2>2, <2>5
    <3> QED
      BY <1>3, <1>4, <1>5, <2>1, <2>5, <3>1, <3>2, <3>3, <3>4 DEF OnTime
  <2>11. Sound(k)'
    BY <1>9, <2>6, <2>7, <2>8, <2>9, <2>10 DEF Sound
  <2> QED
    BY <1>1, <1>3, <2>1, <2>3, <2>11, OneCheckMoves
<1> QED
  BY <1>10, <1>11

LEMMA IsTold ==
  ASSUME Inv, Told
  PROVE  Inv'
<1> DEFINE k == "services"
           r == results[k]
           len == Len(r)
<1>1. k \in Kinds /\ k \notin Pooled /\ k \notin {"icmp", "dns", "http"}
  BY DEF Kinds, Pooled
<1>2. Sound(k) /\ Shaped
  BY <1>1 DEF Inv
<1>3. PICK i \in Running(k) :
        /\ probe' = [probe EXCEPT ![k][i] = "answered"]
        /\ results' = [results EXCEPT ![k] = Append(@, i)]
  BY DEF Told
<1>4. UNCHANGED <<config, time, task, started, gathered, checks>>
  BY DEF Told
<1>5. /\ UNCHANGED <<Count(k), Indices(k), Places(k), Workers(k), Spoilt(k), Fresh(k)>>
      /\ UNCHANGED Through(k)
      /\ \A j : Due(k, j)' = Due(k, j)
  BY <1>1, <1>4, Configured
<1>6. i \in Places(k) /\ probe[k][i] = "running"
  BY <1>1, <1>2, RunningFinite DEF Shaped
<1>7. Typed(k) /\ Places(k) \subseteq Nat \ {0} /\ time \in Nat
  BY <1>1, <1>2, Targets DEF Sound, Shaped, Places
<1>8. \A j \in Places(k) : j > i => probe[k][j] = "waiting"
  BY <1>2, <1>6, <1>7 DEF Sound, Asked
<1>9. \A j \in Places(k) : j # i => probe[k][j] # "running"
  BY <1>2, <1>6, <1>7 DEF Sound, Asked
<1>10. Manned(k)' /\ Collected(k)' /\ Pinged(k)' /\ Raised(k)'
  BY <1>1 DEF Manned, Collected, Pinged, Raised
<1>11. /\ Shaped' /\ probe'[k] = [probe[k] EXCEPT ![i] = "answered"] /\ results'[k] = Append(r, i)
       /\ \A l \in Kinds \ {k} : UNCHANGED <<probe[l], results[l]>>
  BY <1>1, <1>2, <1>3, <1>4 DEF Shaped
<1>12. \A j \in Places(k) : probe'[k][j] = IF j = i THEN "answered" ELSE probe[k][j]
  BY <1>7, <1>11 DEF Typed
<1>13. Typed(k)'
  BY <1>4, <1>5, <1>7, <1>11 DEF Typed
<1>14. Untouched(k)' /\ InOrder(k)'
  <2>1. task[k] # "idle"
    BY <1>2, <1>6 DEF Sound, Untouched
  <2>2. Untouched(k)'
    BY <1>2, <1>4, <1>5, <2>1 DEF Sound, Untouched
  <2>3. InOrder(k)'
    BY <1>2, <1>5, <1>6, <1>12 DEF Sound, InOrder
  <2> QED
    BY <2>2, <2>3
<1>15. config[k][i].fault \notin {"target", "foreign"}
  BY <1>2, <1>6 DEF Sound, Asked
<1>16. Asked(k)'
  <2>1. \A j \in Places(k) :
          /\ probe'[k][j] # "raised"
          /\ probe'[k][j] = "answered" => config[k][j].fault # "target"
          /\ probe'[k][j] # "running"
    BY <1>2, <1>9, <1>12, <1>15 DEF Sound, Asked
  <2>2. task[k] = "returned" => \A j \in Places(k) : Over(k, j)'
    BY <1>2, <1>12 DEF Sound, Asked, Over
  <2>3. task[k] # "raising" /\ (task[k] = "raised" => Spoilt(k))
    BY <1>2 DEF Sound, Asked
  <2> QED
    BY <1>4, <1>5, <2>1, <2>2, <2>3 DEF Asked
<1>17. Kept(k)'
  <2>1. r \in Seq(Places(k)) /\ len \in Nat /\ \A n \in 1 .. len : r[n] \in Places(k)
    BY <1>2, ElementOfSeq, LenProperties DEF Sound, Kept
  <2>2. \A n \in 1 .. len : n <= r[n] /\ probe[k][r[n]] = "answered" /\ config[k][r[n]].fault # "foreign"
    BY <1>2 DEF Sound, Kept
  <2>3. \A n \in 1 .. len : r[n] < i
    <3>1. ASSUME NEW n \in 1 .. len PROVE r[n] < i
      <4>1. r[n] \in Nat /\ i \in Nat /\ r[n] # i /\ ~(r[n] > i)
        BY <1>6, <1>7, <1>8, <2>1, <2>2
      <4> QED
        BY ONLY <4>1
    <3> QED
      BY <3>1
  <2>4. /\ results'[k] \in Seq(Places(k)) /\ Len(results'[k]) = len + 1
        /\ \A n \in 1 .. len : results'[k][n] = r[n]
        /\ results'[k][len + 1] = i
    BY <1>6, <1>11, <2>1, AppendProperties
  <2>5. len + 1 <= i
    <3>1. CASE len = 0
      BY <1>6, <1>7, <3>1
    <3>2. CASE len # 0
      <4>1. len \in 1 .. len
        BY <2>1, <3>2
      <4>2. len <= r[len] /\ r[len] < i /\ {len, r[len], i} \subseteq Nat
        BY <1>6, <1>7, <2>1, <2>2, <2>3, <4>1
      <4> QED
        BY ONLY <4>2
    <3> QED
      BY <3>1, <3>2
  <2>6. \A n \in 1 .. len + 1 : n \in 1 .. len \/ n = len + 1
    BY <2>1
  <2>7. 1 .. len \subseteq 1 .. len + 1 /\ len + 1 \in 1 .. len + 1
    BY <2>1
  <2>8. \A n \in 1 .. len : probe'[k][r[n]] = "answered"
    BY <1>12, <2>1, <2>2
  <2>9. probe'[k][i] = "answered"
    BY <1>6, <1>12
  <2> HIDE DEF r, len
  <2>10. ASSUME NEW n \in 1 .. len + 1
         PROVE  LET j == results'[k][n] IN
                n <= j /\ probe'[k][j] = "answered" /\ config[k][j].fault # "foreign"
    <3>1. CASE n \in 1 .. len
      BY <2>2, <2>4, <2>8, <3>1
    <3>2. CASE n = len + 1
      BY <1>15, <2>4, <2>5, <2>9, <3>2
    <3> QED
      BY <2>6, <3>1, <3>2
  <2>11. ASSUME NEW j \in Places(k), probe'[k][j] = "answered", config[k][j].fault # "foreign"
         PROVE  \E n \in 1 .. len + 1 : results'[k][n] = j
    <3>1. CASE j = i
      BY <2>4, <2>7, <3>1
    <3>2. CASE j # i
      <4>1. probe[k][j] = "answered"
        BY <1>12, <2>11, <3>2
      <4>2. PICK n \in 1 .. len : r[n] = j
        BY <1>2, <2>11, <4>1 DEF Sound, Kept, r, len
      <4> QED
        BY <2>4, <2>7, <4>2
    <3> QED
      BY <3>1, <3>2
  <2>12. ASSUME NEW m \in 1 .. len + 1, NEW n \in 1 .. len + 1, m < n
         PROVE  results'[k][m] < results'[k][n]
    <3>1. m \in 1 .. len
      BY <2>1, <2>12
    <3>2. CASE n \in 1 .. len
      BY <1>2, <2>4, <2>12, <3>1, <3>2 DEF Sound, Kept, r, len
    <3>3. CASE n = len + 1
      BY <2>3, <2>4, <3>1, <3>3
    <3> QED
      BY <2>6, <3>2, <3>3
  <2> QED
    BY <1>4, <1>5, <2>4, <2>10, <2>11, <2>12 DEF Kept
<1>18. OnTime(k)'
  <2>1. ASSUME task[k] \in {"running", "raising"}, NEW j \in Places(k), probe[k][j] = "waiting"
        PROVE  time <= Due(k, j)
    <3>1. started[k][i] <= Due(k, i) /\ time <= started[k][i] + config[k][i].most
      BY <1>2, <1>6, <2>1 DEF Sound, OnTime
    <3>2. j # i /\ ~(j < i)
      BY <1>2, <1>6, <2>1 DEF Sound, InOrder
    <3>3. i < j
      BY <1>6, <1>7, <2>1, <3>2
    <3>4. Due(k, i) + config[k][i].most <= Due(k, j) /\ {Due(k, i), Due(k, j)} \subseteq Nat
      BY <1>1, <1>2, <1>6, <2>1, <3>3, DueSteps DEF Shaped
    <3>5. {time, started[k][i], config[k][i].most} \subseteq Nat
      BY <1>1, <1>2, <1>6, <1>7, Targets DEF Typed, Shaped, Places
    <3> QED
      BY ONLY <3>1, <3>4, <3>5
  <2>2. \A j \in Places(k) :
          /\ probe'[k][j] = "waiting" => probe[k][j] = "waiting"
          /\ probe'[k][j] # "running"
    BY <1>9, <1>12
  <2> QED
    BY <1>2, <1>4, <1>5, <2>1, <2>2 DEF Sound, OnTime
<1>19. Sound(k)'
  BY <1>10, <1>13, <1>14, <1>16, <1>17, <1>18 DEF Sound
<1> QED
  BY <1>1, <1>4, <1>11, <1>19, OneCheckMoves

LEMMA HasAskedAll ==
  ASSUME Inv, AskedAll
  PROVE  Inv'
<1> DEFINE k == "services"
<1>1. k \in Kinds /\ k \notin Pooled /\ k \notin {"icmp", "dns", "http"}
  BY DEF Kinds, Pooled
<1>2. Sound(k) /\ Shaped
  BY <1>1 DEF Inv
<1>3. UNCHANGED <<config, time, probe, started, gathered, results, checks>>
  BY DEF AskedAll
<1>4. UNCHANGED <<Count(k), Indices(k), Places(k), Workers(k), Spoilt(k), Fresh(k)>>
  BY <1>1, <1>3, Configured
<1>5. \A j : Over(k, j)' = Over(k, j)
  BY <1>3 DEF Over
<1>6. /\ task[k] = "running" /\ task'[k] = "returned" /\ \A j \in Places(k) : Over(k, j)
      /\ Shaped' /\ \A l \in Kinds \ {k} : UNCHANGED task[l]
  BY <1>1, <1>2, <1>3, Targets DEF AskedAll, Shaped, Places
<1>7. Manned(k)' /\ Collected(k)' /\ Pinged(k)' /\ Raised(k)' /\ OnTime(k)'
  BY <1>1, <1>6 DEF Manned, Collected, Pinged, Raised, OnTime
<1>8. Typed(k)' /\ Untouched(k)' /\ InOrder(k)'
  BY <1>2, <1>3, <1>4, <1>6 DEF Sound, Typed, Untouched, InOrder
<1>9. Asked(k)'
  BY <1>2, <1>3, <1>4, <1>5, <1>6 DEF Sound, Asked
<1>10. Kept(k)'
  BY <1>2, <1>3, <1>4 DEF Sound, Kept
<1>11. Sound(k)'
  BY <1>7, <1>8, <1>9, <1>10 DEF Sound
<1> QED
  BY <1>1, <1>3, <1>6, <1>11, OneCheckMoves

(* While a target waits and every worker is busy, one of them is at a       *)
(* target of the wave before, or of an earlier one.                         *)
LEMMA OneWaveAhead ==
  ASSUME config \in Configs, NEW k \in Kinds, Typed(k), InOrder(k),
         Cardinality(Running(k)) = Workers(k),
         NEW i \in Places(k), probe[k][i] = "waiting"
  PROVE  \E j \in Running(k) : j + Width <= i
<1> DEFINE R == Running(k)
<1>1. Count(k) \in Nat /\ Width \in Nat \ {0} /\ i \in 1 .. Count(k)
  BY Targets, ChecksAssumption DEF Places
<1>2. \A j : j \in R <=> j \in Places(k) /\ probe[k][j] = "running"
  BY RunningFinite
<1>3. ASSUME NEW j \in R PROVE j \in 1 .. (i - 1)
  <2>1. j \in 1 .. Count(k) /\ j # i /\ ~(i < j)
    BY <1>1, <1>2, <1>3 DEF InOrder, Places
  <2> QED
    BY ONLY <1>1, <2>1
<1>4. Cardinality(R) = Workers(k)
  OBVIOUS
<1> HIDE DEF R
<1>5. Cardinality(R) <= i - 1
  <2>1. R \in SUBSET (1 .. (i - 1))
    BY <1>3
  <2>2. 1 \in Int /\ i - 1 \in Int /\ (IF 1 > i - 1 THEN 0 ELSE (i - 1) - 1 + 1) = i - 1
    BY ONLY <1>1
  <2> DEFINE b == i - 1
  <2> HIDE DEF b
  <2>3. IsFiniteSet(1 .. b) /\ Cardinality(1 .. b) = b
    BY ONLY <2>2, FS_Interval DEF b
  <2>4. R \in SUBSET (1 .. b)
    BY <2>1 DEF b
  <2>5. Cardinality(R) <= b
    BY ONLY <2>3, <2>4, FS_Subset
  <2> QED
    BY <2>5 DEF b
<1>6. Workers(k) = Width
  BY <1>1, <1>4, <1>5 DEF Workers, Least
<1>7. SUFFICES ASSUME \A j \in R : ~(j + Width <= i) PROVE FALSE
  BY DEF R
<1> DEFINE a == i - Width + 1
           b == i - 1
<1>8. R \in SUBSET (a .. b)
  BY <1>1, <1>3, <1>7
<1>9. a \in Int /\ b \in Int /\ (IF a > b THEN 0 ELSE b - a + 1) < Width
  BY <1>1
<1> HIDE DEF a, b
<1>10. IsFiniteSet(a .. b) /\ Cardinality(a .. b) < Width
  BY ONLY <1>9, FS_Interval
<1>11. Cardinality(R) <= Cardinality(a .. b)
  BY ONLY <1>8, <1>10, FS_Subset
<1>12. Cardinality(a .. b) \in Nat
  BY ONLY <1>10, FS_CardinalityType
<1> QED
  BY ONLY <1>1, <1>4, <1>6, <1>10, <1>11, <1>12

LEMMA Ticks ==
  ASSUME Inv, Tick
  PROVE  Inv'
<1>1. Shaped /\ \A k \in Kinds : Sound(k)
  BY DEF Inv
<1>2. UNCHANGED <<config, task, probe, started, gathered, results, checks>> /\ time' = time + 1
  BY DEF Tick
<1>3. ASSUME NEW k \in Kinds PROVE Sound(k)'
  <2>1. /\ UNCHANGED <<Count(k), Indices(k), Places(k), Workers(k), Spoilt(k), Fresh(k)>>
        /\ UNCHANGED Through(k)
        /\ \A i : Due(k, i)' = Due(k, i)
    BY <1>2, Configured
  <2>2. UNCHANGED Running(k) /\ \A i : Over(k, i)' = Over(k, i)
    BY <1>2, <2>1 DEF Running, Over
  <2>3. Sound(k) /\ \A j : j \in Running(k) <=> j \in Places(k) /\ probe[k][j] = "running"
    BY <1>1, RunningFinite DEF Shaped
  <2>4. task[k] = "idle" => Count(k) = 0
    BY <2>3, Targets DEF Tick, Ended, Waits, Sound, Untouched
  <2>5. Typed(k)' /\ Untouched(k)' /\ InOrder(k)' /\ Manned(k)'
    <3>1. Untouched(k)'
      BY <1>2, <2>1, <2>3, <2>4 DEF Sound, Untouched
    <3> QED
      BY <1>2, <2>1, <2>2, <2>3, <3>1 DEF Sound, Typed, InOrder, Manned
  <2>6. Collected(k)' /\ Pinged(k)'
    BY <1>2, <2>1, <2>2, <2>3 DEF Sound, Collected, Pinged
  <2>7. Raised(k)' /\ Asked(k)'
    BY <1>2, <2>1, <2>2, <2>3 DEF Sound, Raised, Asked
  <2>8. Kept(k)'
    BY <1>2, <2>1, <2>3 DEF Sound, Kept
  <2>9. OnTime(k)'
    <3>1. SUFFICES ASSUME task[k] \in {"running", "raising"}
                   PROVE  /\ time + 1 <= Through(k)
                          /\ \A i \in Places(k) :
                               /\ probe[k][i] = "waiting" /\ (k = "services" => Running(k) = {}) =>
                                    time + 1 <= Due(k, i)
                               /\ probe[k][i] = "running" =>
                                    /\ started[k][i] <= Due(k, i)
                                    /\ time + 1 <= started[k][i] + config[k][i].most
      BY <1>2, <2>1, <2>2 DEF OnTime
    <3>2. Waits(k)
      BY <2>3, <3>1 DEF Tick, Ended, Sound, Untouched
    <3>3. \A i \in Places(k) :
            {time, Due(k, i), Through(k), started[k][i], config[k][i].most} \subseteq Nat
      BY <1>1, <2>3, DueSteps, Targets DEF Shaped, Sound, Typed, Places
    <3>4. ASSUME NEW i \in Running(k)
          PROVE  /\ i \in Places(k) /\ started[k][i] <= Due(k, i)
                 /\ time + 1 <= started[k][i] + config[k][i].most
                 /\ time + 1 <= Due(k, i) + config[k][i].most
      <4>1. time - started[k][i] < config[k][i].most
        BY DEF Tick
      <4>2. i \in Places(k) /\ started[k][i] <= Due(k, i)
        BY <2>3, <3>1, <3>4 DEF Sound, OnTime
      <4>3. {time, Due(k, i), started[k][i], config[k][i].most} \subseteq Nat
        BY <3>3, <4>2
      <4> QED
        BY ONLY <4>1, <4>2, <4>3
    <3>5. time + 1 <= Through(k)
      <4>1. PICK i \in Running(k) : TRUE
        BY <3>2 DEF Waits
      <4>2. i \in Places(k) /\ time + 1 <= Due(k, i) + config[k][i].most
        BY <3>4, <4>1
      <4>3. Due(k, i) + config[k][i].most <= Through(k)
        BY <1>1, <4>2, DueSteps DEF Shaped
      <4>4. {time, Due(k, i), Through(k), config[k][i].most} \subseteq Nat
        BY <3>3, <4>2
      <4> QED
        BY ONLY <4>2, <4>3, <4>4
    <3>6. ASSUME NEW i \in Places(k), probe[k][i] = "waiting", k = "services" => Running(k) = {}
          PROVE  time + 1 <= Due(k, i)
      <4>1. k # "services" /\ k \in Pooled
        BY <3>2, <3>6 DEF Waits, Kinds
      <4>2. i \in Waiting(k)
        BY <1>1, <3>6, Targets DEF Waiting, Shaped, Places
      <4>3. Cardinality(Running(k)) = Workers(k)
        BY <3>2, <4>1, <4>2 DEF Waits
      <4>4. PICK j \in Running(k) : j + Width <= i
        BY <1>1, <2>3, <3>6, <4>3, OneWaveAhead DEF Shaped, Sound
      <4>5. j \in Places(k) /\ time + 1 <= Due(k, j) + config[k][j].most
        BY <3>4, <4>4
      <4>6. Due(k, j) + config[k][j].most <= Due(k, i)
        BY <1>1, <3>6, <4>1, <4>4, <4>5, DueSteps DEF Shaped
      <4>7. {time, Due(k, i), Due(k, j), config[k][j].most} \subseteq Nat
        BY <3>3, <3>6, <4>5
      <4> QED
        BY ONLY <4>5, <4>6, <4>7
    <3> QED
      BY <2>3, <3>4, <3>5, <3>6
  <2> QED
    BY <2>5, <2>6, <2>7, <2>8, <2>9 DEF Sound
<1>4. Shaped'
  BY <1>1, <1>2 DEF Shaped
<1>5. Reported'
  <2>1. \A k \in Kinds : UNCHANGED <<Count(k), Indices(k), Places(k), Spoilt(k)>>
    BY <1>2, Configured
  <2>2. \A k \in Kinds : UNCHANGED Good(k)
    BY <1>2, <2>1 DEF Good
  <2>3. EveryTargetAnswers'
    BY <1>2, <2>1, <2>2 DEF Inv, Reported, EveryTargetAnswers
  <2> QED
    BY <1>2, <2>1, <2>3 DEF Inv, Reported
<1> QED
  BY <1>3, <1>4, <1>5 DEF Inv

-------------------------------------------------------------------------------
\* Before a check is submitted: at the start, and again when all have returned.
Begins ==
  /\ config \in Configs
  /\ time = 0
  /\ task = Each("idle")
  /\ probe = EachTarget("waiting") /\ started = EachTarget(0)
  /\ gathered = Each(0) /\ results = [k \in Kinds |-> Fresh(k)]

LEMMA Beginning == Begins => Shaped /\ \A k \in Kinds : Sound(k)
<1> SUFFICES ASSUME Begins PROVE Shaped /\ \A k \in Kinds : Sound(k)
  OBVIOUS
<1>1. Shaped
  BY DEF Begins, Shaped, Each, EachTarget
<1>2. ASSUME NEW k \in Kinds PROVE Sound(k)
  <2>1. Count(k) \in Nat /\ Indices(k) = 1 .. Count(k) /\ Places(k) = 1 .. Count(k)
    BY Targets DEF Begins, Places
  <2>2. /\ time = 0 /\ task[k] = "idle" /\ probe[k] = [i \in Places(k) |-> "waiting"]
        /\ started[k] = [i \in Places(k) |-> 0] /\ gathered[k] = 0 /\ results[k] = Fresh(k)
    BY <2>1 DEF Begins, Each, EachTarget
  <2>3. Typed(k) /\ Untouched(k) /\ InOrder(k) /\ OnTime(k)
    BY <2>1, <2>2 DEF Typed, Untouched, InOrder, OnTime
  <2>4. Manned(k)
    <3>1. Running(k) = {}
      BY <2>1, <2>2 DEF Running
    <3>2. Workers(k) >= 0
      BY <2>1, ChecksAssumption DEF Workers, Least
    <3> QED
      BY <3>1, <3>2, FS_EmptySet DEF Manned
  <2>5. Collected(k)
    <3>1. k \in Pooled => Fresh(k) \in [Places(k) -> 0 .. Count(k)]
      BY <2>1 DEF Fresh, Pooled
    <3> QED
      BY <2>1, <2>2, <3>1 DEF Collected
  <2>6. Pinged(k)
    BY <2>1, <2>2 DEF Pinged, Fresh
  <2>7. Raised(k)
    BY <2>1, <2>2 DEF Raised, Over
  <2>8. Asked(k)
    BY <2>1, <2>2 DEF Asked
  <2>9. Kept(k)
    <3>1. ASSUME k = "services" PROVE results[k] = <<>>
      BY <2>2, <3>1 DEF Fresh
    <3>2. <<>> \in Seq(Places(k)) /\ Len(<<>>) = 0 /\ 1 .. 0 = {}
      OBVIOUS
    <3>3. \A i \in Places(k) : probe[k][i] # "answered"
      BY <2>2
    <3> QED
      BY <3>1, <3>2, <3>3 DEF Kept
  <2> QED
    BY <2>3, <2>4, <2>5, <2>6, <2>7, <2>8, <2>9 DEF Sound
<1> QED
  BY <1>1, <1>2

LEMMA BeginsAgain == Begins' => (Shaped /\ \A k \in Kinds : Sound(k))'
BY Beginning, PTL

(* What a check has when it has ended is what it has to report.             *)
LEMMA EndsSound ==
  ASSUME config \in Configs, NEW k \in Kinds, Sound(k), Ended(k), Count(k) > 0
  PROVE  /\ task[k] \in {"raised", "returned"}
         /\ Spoilt(k) <=> task[k] = "raised"
         /\ task[k] = "returned" =>
              /\ results[k] \in Seq(Places(k))
              /\ k # "services" => results[k] = [i \in Indices(k) |-> i]
              /\ k = "services" => InOrderOnce(results[k], Good(k))
<1>1. Count(k) \in Nat \ {0} /\ Indices(k) = Places(k) /\ Places(k) = 1 .. Count(k)
  BY Targets DEF Places
<1>2. task[k] \in {"raised", "returned"}
  BY DEF Ended
<1>3. CASE k = "services"
  <2>1. task[k] = "raised" => Spoilt(k)
    BY <1>3 DEF Sound, Asked
  <2>2. ASSUME task[k] = "returned", NEW i \in Places(k)
        PROVE  probe[k][i] = "answered" /\ config[k][i].fault # "target"
    BY <1>3, <2>2 DEF Sound, Asked, Over
  <2>3. results[k] \in Seq(Places(k)) /\ DOMAIN results[k] = 1 .. Len(results[k])
        /\ \A n \in 1 .. Len(results[k]) : results[k][n] \in Places(k)
    BY <1>3, ElementOfSeq, LenProperties DEF Sound, Kept
  <2>4. ASSUME task[k] = "returned" PROVE InOrderOnce(results[k], Good(k))
    <3>1. { results[k][n] : n \in DOMAIN results[k] } = Good(k)
      <4>1. ASSUME NEW n \in DOMAIN results[k] PROVE results[k][n] \in Good(k)
        BY <1>1, <1>3, <2>3, <4>1 DEF Good, Sound, Kept
      <4>2. ASSUME NEW i \in Good(k) PROVE \E n \in DOMAIN results[k] : results[k][n] = i
        <5>1. i \in Places(k) /\ config[k][i].fault # "foreign" /\ probe[k][i] = "answered"
          BY <1>1, <2>2, <2>4 DEF Good
        <5> QED
          BY <1>3, <2>3, <5>1 DEF Sound, Kept
      <4> QED
        BY <4>1, <4>2
    <3>2. \A m, n \in DOMAIN results[k] : m < n => results[k][m] < results[k][n]
      BY <1>3, <2>3 DEF Sound, Kept
    <3> QED
      BY <3>1, <3>2 DEF InOrderOnce
  <2>5. task[k] = "returned" => ~Spoilt(k)
    BY <1>1, <2>2 DEF Spoilt
  <2> QED
    BY <1>2, <1>3, <2>1, <2>3, <2>4, <2>5
<1>4. CASE k # "services"
  <2>1. k \in Pooled
    BY <1>4 DEF Kinds
  <2>2. task[k] = "raised" => Spoilt(k)
    BY <2>1 DEF Pooled, Sound, Raised, Pinged
  <2>3. ASSUME task[k] = "returned", NEW i \in Places(k)
        PROVE  results[k][i] = i /\ Over(k, i)
    BY <1>1, <2>1, <2>3 DEF Sound, Collected
  <2>4. ASSUME task[k] = "returned" PROVE ~Spoilt(k)
    <3>1. CASE k = "icmp"
      BY <2>4, <3>1 DEF Sound, Pinged
    <3>2. CASE k # "icmp"
      <4>1. k \in {"dns", "http"} /\ gathered[k] = Count(k)
        BY <2>1, <2>4, <3>2 DEF Pooled, Sound, Collected
      <4>2. \A i \in Places(k) : Over(k, i) /\ probe[k][i] # "raised"
        BY <1>1, <2>3, <2>4, <4>1 DEF Sound, Raised
      <4> QED
        BY <1>1, <4>1, <4>2 DEF Sound, Raised, Spoilt
    <3> QED
      BY <3>1, <3>2
  <2>5. ASSUME task[k] = "returned" PROVE results[k] = [i \in Places(k) |-> i]
    <3>1. results[k] \in [Places(k) -> 0 .. Count(k)]
      BY <2>1 DEF Sound, Collected
    <3> QED
      BY <2>3, <2>5, <3>1
  <2>6. [i \in Places(k) |-> i] \in Seq(Places(k))
    <3>1. [i \in 1 .. Count(k) |-> i] \in [1 .. Count(k) -> Places(k)]
      BY <1>1
    <3> QED
      BY <1>1, <3>1, SeqDef
  <2> QED
    BY <1>1, <1>2, <1>4, <2>2, <2>4, <2>5, <2>6
<1> QED
  BY <1>3, <1>4

LEMMA Returns ==
  ASSUME Inv, Return
  PROVE  Inv'
<1>1. config \in Configs /\ \A k \in Kinds : Sound(k)
  BY DEF Inv, Shaped
<1>2. UNCHANGED config
  BY DEF Return
<1>3. \A k \in Kinds :
        UNCHANGED <<Count(k), Indices(k), Places(k), Spoilt(k), Fresh(k)>>
  BY <1>2, Configured
<1>4. Begins'
  <2>1. UNCHANGED EachTarget("waiting") /\ UNCHANGED EachTarget(0)
    BY <1>3 DEF EachTarget
  <2>2. UNCHANGED [k \in Kinds |-> Fresh(k)]
    BY <1>3
  <2> QED
    BY <1>1, <1>2, <2>1, <2>2 DEF Return, Begins, Each
<1>5. Shaped' /\ \A k \in Kinds : Sound(k)'
  BY <1>4, BeginsAgain
<1>6. ASSUME NEW k \in Kinds
      PROVE  /\ Count(k) = 0 => checks'[k].end = "absent" /\ checks'[k].of = <<>>
             /\ Count(k) # 0 /\ task[k] = "raised" => checks'[k].end = "error" /\ checks'[k].of = <<>>
             /\ Count(k) # 0 /\ task[k] # "raised" =>
                  checks'[k].end = "answers" /\ checks'[k].of = results[k]
  <2> DEFINE r == CASE Count(k) = 0 -> Report("absent", <<>>)
                    [] task[k] = "raised" -> Report("error", <<>>)
                    [] OTHER -> Report("answers", results[k])
  <2>1. checks'[k] = r
    BY DEF Return
  <2>2. Ended(k)
    BY DEF Return
  <2>3. Count(k) = 0 => r = Report("absent", <<>>)
    BY <1>1, <2>2, Targets DEF Sound, Untouched
  <2>4. Count(k) # 0 /\ task[k] = "raised" => r = Report("error", <<>>)
    OBVIOUS
  <2>5. Count(k) # 0 /\ task[k] # "raised" => r = Report("answers", results[k])
    OBVIOUS
  <2> HIDE DEF r
  <2>6. \A end, of : Report(end, of).end = end /\ Report(end, of).of = of
    BY DEF Report
  <2> QED
    BY <2>1, <2>3, <2>4, <2>5, <2>6
<1>7. ASSUME NEW k \in Kinds
      PROVE  /\ checks'[k].end \in {"none", "absent", "error", "answers"}
             /\ checks'[k].of \in Seq(Places(k))
             /\ checks'[k].end # "none" /\ Count(k) > 0 =>
                  IF Spoilt(k) THEN checks'[k].end = "error"
                  ELSE /\ checks'[k].end = "answers"
                       /\ k # "services" => checks'[k].of = [i \in Indices(k) |-> i]
                       /\ k = "services" => InOrderOnce(checks'[k].of, Good(k))
  <2>1. Count(k) \in Nat /\ <<>> \in Seq(Places(k)) /\ Ended(k) /\ Sound(k)
    BY <1>1, Targets DEF Return
  <2>2. CASE Count(k) = 0
    <3>1. checks'[k].end = "absent" /\ checks'[k].of = <<>>
      BY <1>6, <2>2
    <3>2. ~(Count(k) > 0)
      BY <2>2
    <3> QED
      BY <2>1, <3>1, <3>2
  <2>3. CASE Count(k) # 0 /\ task[k] = "raised"
    <3>1. Spoilt(k)
      <4>1. Count(k) > 0
        BY <2>1, <2>3
      <4> QED
        BY <1>1, <2>1, <2>3, <4>1, EndsSound
    <3>2. checks'[k].end = "error" /\ checks'[k].of = <<>>
      BY <1>6, <2>3
    <3> QED
      BY <2>1, <3>1, <3>2
  <2>4. CASE Count(k) # 0 /\ task[k] # "raised"
    <3>1. /\ ~Spoilt(k) /\ results[k] \in Seq(Places(k))
          /\ k # "services" => results[k] = [i \in Indices(k) |-> i]
          /\ k = "services" => InOrderOnce(results[k], Good(k))
      <4>1. Count(k) > 0
        BY <2>1, <2>4
      <4> QED
        BY <1>1, <2>1, <2>4, <4>1, EndsSound
    <3>2. checks'[k].end = "answers" /\ checks'[k].of = results[k]
      BY <1>6, <2>4
    <3> QED
      BY <3>1, <3>2
  <2> QED
    BY <2>2, <2>3, <2>4
<1>8. EveryTargetAnswers'
  <2>1. \A k \in Kinds : UNCHANGED Good(k)
    BY <1>2, <1>3 DEF Good
  <2> QED
    BY <1>3, <1>7, <2>1 DEF EveryTargetAnswers
<1>9. Reported'
  BY <1>3, <1>7, <1>8 DEF Reported
<1> QED
  BY <1>5, <1>9 DEF Inv

LEMMA Inductive == Spec => []Inv
<1>1. Init => Inv
  <2> SUFFICES ASSUME Init PROVE Inv
    OBVIOUS
  <2>1. Begins
    BY DEF Init, Begins
  <2>2. ASSUME NEW k \in Kinds
        PROVE  checks[k].end = "none" /\ checks[k].of \in Seq(Places(k))
    <3>1. checks[k] = Report("none", <<>>)
      BY DEF Init, Each
    <3> QED
      BY <3>1 DEF Report
  <2>3. Reported
    BY <2>2 DEF Reported, EveryTargetAnswers
  <2> QED
    BY <2>1, <2>3, Beginning DEF Inv
<1>2. Inv /\ [Next]_vars => Inv'
  <2> SUFFICES ASSUME Inv, [Next]_vars PROVE Inv'
    OBVIOUS
  <2>1. ASSUME NEW k \in Kinds, Submit(k) \/ Take(k) \/ Gather(k) \/ LeavePool(k) PROVE Inv'
    BY <2>1, Submits, Takes, Gathers, LeavesPool
  <2>2. CASE Ask \/ AskedAll \/ Told
    BY <2>2, Asks, HasAskedAll, IsTold
  <2>3. CASE Return
    BY <2>3, Returns
  <2>4. CASE Tick
    BY <2>4, Ticks
  <2>5. ASSUME NEW i \in Indices("http"), HttpProbe(i) PROVE Inv'
    <3>1. "http" \in Pooled /\ (config["http"][i].fault = "target") \in BOOLEAN
      BY DEF Pooled
    <3> QED
      BY <2>5, <3>1, Finishes DEF HttpProbe
  <2>6. ASSUME NEW i \in Indices("dns"), DnsProbe(i) PROVE Inv'
    <3>1. "dns" \in Pooled /\ (config["dns"][i].fault = "target") \in BOOLEAN
      BY DEF Pooled
    <3> QED
      BY <2>6, <3>1, Finishes DEF DnsProbe
  <2>7. ASSUME NEW i \in Indices("icmp"), PingProbe(i) PROVE Inv'
    <3>1. "icmp" \in Pooled /\ TRUE \in BOOLEAN /\ FALSE \in BOOLEAN
      BY DEF Pooled
    <3> QED
      BY <2>7, <3>1, Finishes DEF PingProbe
  <2>8. CASE UNCHANGED vars
    <3>1. /\ UNCHANGED <<config, time, checks>> /\ Shaped'
          /\ \A k \in Kinds : UNCHANGED <<task[k], probe[k], started[k], gathered[k], results[k]>>
      BY <2>8 DEF vars, Inv, Shaped
    <3>2. "dns" \in Kinds /\ Sound("dns")'
      BY <3>1, StaysSound DEF Kinds, Pooled, Inv
    <3> QED
      BY <3>1, <3>2, OneCheckMoves
  <2> QED
    BY <2>1, <2>2, <2>3, <2>4, <2>5, <2>6, <2>7, <2>8 DEF Next, Step
<1> QED
  BY <1>1, <1>2, PTL DEF Spec

-------------------------------------------------------------------------------
(* The type invariant: no pool has more probes running than its width.      *)
THEOREM Typing == Spec => []TypeOK
<1>1. Inv => TypeOK
  <2> SUFFICES ASSUME Inv PROVE TypeOK
    OBVIOUS
  <2>1. Shaped
    BY DEF Inv
  <2>2. ASSUME NEW k \in Kinds
        PROVE  /\ probe[k] \in [Indices(k) -> {"waiting", "running", "answered", "raised"}]
               /\ started[k] \in [Indices(k) -> Nat]
               /\ gathered[k] \in 0 .. Count(k)
               /\ results[k] \in Seq(0 .. Count(k)) /\ Len(results[k]) <= Count(k)
               /\ checks[k].end \in {"none", "absent", "error", "answers"}
               /\ checks[k].of \in Seq(1 .. Count(k))
               /\ Cardinality({ i \in Indices(k) : probe[k][i] = "running" }) <= Width
    <3>1. Sound(k) /\ Count(k) \in Nat /\ Indices(k) = Places(k) /\ Places(k) = 1 .. Count(k)
      BY <2>1, Targets DEF Inv, Shaped, Places
    <3>2. checks[k].end \in {"none", "absent", "error", "answers"} /\ checks[k].of \in Seq(1 .. Count(k))
      BY <3>1 DEF Inv, Reported
    <3>3. CASE k = "services"
      <4>1. results[k] \in Seq(Places(k)) /\ Len(results[k]) \in Nat
            /\ \A n \in 1 .. Len(results[k]) : results[k][n] \in Places(k) /\ n <= results[k][n]
        BY <3>1, <3>3, ElementOfSeq, LenProperties DEF Sound, Kept
      <4>2. Len(results[k]) <= Count(k)
        <5>1. CASE Len(results[k]) = 0
          BY <3>1, <5>1
        <5>2. CASE Len(results[k]) # 0
          <6>1. Len(results[k]) \in 1 .. Len(results[k])
            BY <4>1, <5>2
          <6>2. results[k][Len(results[k])] \in 1 .. Count(k)
                /\ Len(results[k]) <= results[k][Len(results[k])]
            BY <3>1, <4>1, <6>1
          <6> QED
            BY <3>1, <4>1, <6>2
        <5> QED
          BY <5>1, <5>2
      <4>3. results[k] \in Seq(0 .. Count(k))
        <5>1. results[k] \in [1 .. Len(results[k]) -> 0 .. Count(k)]
          BY <3>1, <4>1, LenProperties
        <5>2. \E n \in Nat : results[k] \in [1 .. n -> 0 .. Count(k)]
          BY <4>1, <5>1
        <5> QED
          BY ONLY <5>2, SeqDef
      <4>4. Cardinality(Running(k)) <= Width
        <5>1. \A i \in Running(k) : i \in Places(k) /\ probe[k][i] = "running"
          BY <2>1, RunningFinite DEF Shaped
        <5>2. \A i, j \in Running(k) : i = j
          <6>1. \A i, j \in Running(k) : ~(i < j)
            BY <3>1, <3>3, <5>1 DEF Sound, Asked
          <6>2. \A i \in Running(k) : i \in Nat
            BY <3>1, <5>1
          <6> QED
            BY <6>1, <6>2
        <5>3. CASE Running(k) = {}
          BY <5>3, FS_EmptySet, ChecksAssumption
        <5>4. CASE Running(k) # {}
          <6>1. PICK i \in Running(k) : TRUE
            BY <5>4
          <6>2. Running(k) = {i}
            BY <5>2, <6>1
          <6>3. Cardinality({i}) = 1
            BY FS_Singleton
          <6> QED
            BY <6>2, <6>3, ChecksAssumption
        <5> QED
          BY <5>3, <5>4
      <4> QED
        BY <3>1, <3>2, <4>2, <4>3, <4>4 DEF Sound, Typed, Running
    <3>4. CASE k # "services"
      <4>1. k \in Pooled
        BY <3>4 DEF Kinds
      <4>2. results[k] \in [1 .. Count(k) -> 0 .. Count(k)]
        BY <3>1, <4>1 DEF Sound, Collected
      <4>3. results[k] \in Seq(0 .. Count(k)) /\ Len(results[k]) = Count(k)
        BY <3>1, <4>2, SeqDef, LenProperties
      <4>4. Cardinality(Running(k)) <= Workers(k) /\ Workers(k) <= Width
        BY <3>1, <4>1, ChecksAssumption DEF Sound, Manned, Workers, Least
      <4>5. {Cardinality(Running(k)), Workers(k), Width} \subseteq Nat
        BY <2>1, <3>1, RunningFinite, ChecksAssumption DEF Shaped, Workers, Least
      <4>6. Cardinality(Running(k)) <= Width
        BY ONLY <4>4, <4>5
      <4> QED
        BY <3>1, <3>2, <4>3, <4>6 DEF Sound, Typed, Running
    <3> QED
      BY <3>3, <3>4
  <2> QED
    BY <2>1, <2>2 DEF TypeOK, Shaped
<1> QED
  BY <1>1, Inductive, PTL

(* Every target of every check is reported, at its own place, whatever the  *)
(* order in which probes end.                                               *)
THEOREM Answering == Spec => []EveryTargetAnswers
<1>1. Inv => EveryTargetAnswers
  BY DEF Inv, Reported
<1> QED
  BY <1>1, Inductive, PTL

(* The checks take as long as the slowest of them, and that one takes as    *)
(* many waves as its pool needs.                                            *)
THEOREM InWaves == Spec => []WithinWaves
<1>1. Inv => WithinWaves
  BY DEF Inv, Sound, OnTime, Through, WithinWaves
<1> QED
  BY <1>1, Inductive, PTL

===============================================================================
