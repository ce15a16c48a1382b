---------------------------- MODULE RetryQueueProofs ----------------------------
(***************************************************************************)
(* Proofs about the retry queue and its callers, for any threads,          *)
(* payloads, sizes and limits, in three parts: what the list operations of *)
(* retry_queue.py return, for every queue; the sender that uses them       *)
(* (Delivery, which implements Outbox); and what the queue promises to any *)
(* number of callers whatever they do (QueueClients).                      *)
(***************************************************************************)
EXTENDS Delivery, QueueClients, SequenceTheorems, FiniteSetTheorems, TLAPS

(* The members of Contents, without its DOMAIN. *)
LEMMA ContentsMember ==
  ASSUME NEW s \in Seq(Entry)
  PROVE  /\ \A i \in 1 .. Len(s) : s[i].payload \in Contents(s)
         /\ \A p \in Contents(s) : \E i \in 1 .. Len(s) : p = s[i].payload
         /\ Contents(s) \subseteq Payloads
<1>1. DOMAIN s = 1 .. Len(s) /\ \A i \in 1 .. Len(s) : s[i] \in Entry
  BY LenProperties, ElementOfSeq
<1> QED
  BY <1>1 DEF Contents, Entry

(* The empty queue holds nothing. *)
LEMMA ContentsEmpty == Contents(<<>>) = {}
BY DEF Contents

(* A non-empty queue holds its front's payload, and its tail's payloads. *)
LEMMA ContentsHeadTail ==
  ASSUME NEW s \in Seq(Entry), s # <<>>
  PROVE  /\ Head(s) \in Entry /\ Tail(s) \in Seq(Entry)
         /\ Len(Tail(s)) = Len(s) - 1 /\ Len(s) \in Nat \ {0}
         /\ Contents(s) = {Head(s).payload} \cup Contents(Tail(s))
<1>1. /\ Tail(s) \in Seq(Entry) /\ Head(s) \in Entry
      /\ Len(Tail(s)) = Len(s) - 1
      /\ \A i \in 1 .. Len(Tail(s)) : Tail(s)[i] = s[i + 1]
  BY HeadTailProperties
<1>2. Len(s) \in Nat \ {0} /\ Head(s) = s[1]
  BY EmptySeq, LenProperties
<1>3. Contents(s) \subseteq {Head(s).payload} \cup Contents(Tail(s))
  <2> SUFFICES ASSUME NEW i \in 1 .. Len(s), i # 1
               PROVE  s[i].payload \in Contents(Tail(s))
    BY <1>2, ContentsMember
  <2>1. i - 1 \in 1 .. Len(Tail(s)) /\ Tail(s)[i - 1] = s[i]
    BY <1>1, <1>2
  <2> QED
    BY <1>1, <2>1, ContentsMember
<1>4. Head(s).payload \in Contents(s)
  BY <1>2, ContentsMember
<1>5. Contents(Tail(s)) \subseteq Contents(s)
  <2> SUFFICES ASSUME NEW i \in 1 .. Len(Tail(s))
               PROVE  Tail(s)[i].payload \in Contents(s)
    BY <1>1, ContentsMember
  <2>1. i + 1 \in 1 .. Len(s) /\ Tail(s)[i] = s[i + 1]
    BY <1>1, <1>2
  <2> QED
    BY <2>1, ContentsMember
<1> QED
  BY <1>1, <1>2, <1>3, <1>4, <1>5

(* Appending an entry adds its payload. *)
LEMMA ContentsAppend ==
  ASSUME NEW s \in Seq(Entry), NEW e \in Entry
  PROVE  /\ Append(s, e) \in Seq(Entry) /\ Len(Append(s, e)) = Len(s) + 1
         /\ Contents(Append(s, e)) = Contents(s) \cup {e.payload}
<1> DEFINE a == Append(s, e)
<1>1. /\ a \in Seq(Entry) /\ Len(a) = Len(s) + 1
      /\ \A i \in 1 .. Len(s) : a[i] = s[i]
      /\ a[Len(s) + 1] = e
  BY AppendProperties
<1>2. Len(s) \in Nat
  BY LenProperties
<1> HIDE DEF a
<1>3. Contents(a) \subseteq Contents(s) \cup {e.payload}
  <2> SUFFICES ASSUME NEW i \in 1 .. Len(a), i # Len(s) + 1
               PROVE  a[i].payload \in Contents(s)
    BY <1>1, ContentsMember
  <2>1. i \in 1 .. Len(s) /\ a[i] = s[i]
    BY <1>1, <1>2
  <2> QED
    BY <2>1, ContentsMember
<1>4. Contents(s) \subseteq Contents(a)
  <2> SUFFICES ASSUME NEW i \in 1 .. Len(s)
               PROVE  s[i].payload \in Contents(a)
    BY ContentsMember
  <2>1. i \in 1 .. Len(a) /\ a[i] = s[i]
    BY <1>1, <1>2
  <2> QED
    BY <1>1, <2>1, ContentsMember
<1>5. e.payload \in Contents(a)
  <2>1. Len(s) + 1 \in 1 .. Len(a)
    BY <1>1, <1>2
  <2> QED
    BY <1>1, <2>1, ContentsMember
<1> QED
  BY <1>1, <1>3, <1>4, <1>5 DEF a

(* enqueue(): the new payload is in, the others are too unless a full queue *)
(* popped its front; the size grows only below max_size.                   *)
LEMMA PushProperties ==
  ASSUME NEW q \in Seq(Entry), NEW e \in Entry, QueueAssumption
  PROVE  /\ Push(q, e) \in Seq(Entry)
         /\ Overflows(q) => Len(Push(q, e)) = Len(q) /\ q # <<>>
         /\ ~Overflows(q) => Len(Push(q, e)) = Len(q) + 1 /\ Len(q) < MaxSize
         /\ e.payload \in Contents(Push(q, e))
         /\ Contents(Push(q, e)) \subseteq Contents(q) \cup {e.payload}
         /\ Overflows(q) => Contents(q) \subseteq Contents(Push(q, e)) \cup {Head(q).payload}
         /\ ~Overflows(q) => Contents(q) \subseteq Contents(Push(q, e))
<1>1. CASE Overflows(q)
  <2>1. q # <<>>
    BY <1>1, EmptySeq DEF Overflows, QueueAssumption
  <2>2. Push(q, e) = Append(Tail(q), e)
    BY <1>1 DEF Push
  <2>3. /\ Tail(q) \in Seq(Entry) /\ Len(Tail(q)) = Len(q) - 1 /\ Len(q) \in Nat
        /\ Contents(q) = {Head(q).payload} \cup Contents(Tail(q))
    BY <2>1, ContentsHeadTail
  <2>4. /\ Append(Tail(q), e) \in Seq(Entry)
        /\ Len(Append(Tail(q), e)) = Len(Tail(q)) + 1
        /\ Contents(Append(Tail(q), e)) = Contents(Tail(q)) \cup {e.payload}
    BY <2>3, ContentsAppend
  <2> HIDE DEF Contents
  <2> QED
    BY <1>1, <2>1, <2>2, <2>3, <2>4
<1>2. CASE ~Overflows(q)
  <2>1. Push(q, e) = Append(q, e)
    BY <1>2 DEF Push
  <2>2. Len(q) < MaxSize
    BY <1>2, LenProperties DEF Overflows, QueueAssumption
  <2> QED
    BY <1>2, <2>1, <2>2, ContentsAppend
<1> QED
  BY <1>1, <1>2

(* dequeue(): the batch and what stays are the queue, split in two. *)
LEMMA DequeueProperties ==
  ASSUME NEW q \in Seq(Entry), NEW n \in Nat
  PROVE  /\ Front(q, n) \in Seq(Entry) /\ Rest(q, n) \in Seq(Entry)
         /\ Len(Front(q, n)) = IF n < Len(q) THEN n ELSE Len(q)
         /\ Len(Rest(q, n)) = IF n < Len(q) THEN Len(q) - n ELSE 0
         /\ Contents(q) = Contents(Front(q, n)) \cup Contents(Rest(q, n))
<1> DEFINE k == IF n < Len(q) THEN n ELSE Len(q)
           f == Front(q, n)
           r == Rest(q, n)
<1>1. Len(q) \in Nat /\ \A i \in 1 .. Len(q) : q[i] \in Entry
  BY LenProperties, ElementOfSeq
<1>2. k \in Nat /\ k <= Len(q) /\ k <= n
  BY <1>1
<1>3. /\ f \in Seq(Entry) /\ Len(f) = k
      /\ \A i \in 1 .. k : f[i] = q[i]
  <2>1. \A i \in 1 .. k : q[i] \in Entry
    BY <1>1, <1>2
  <2>2. f = SubSeq(q, 1, k)
    BY DEF Front
  <2>3. /\ SubSeq(q, 1, k) \in Seq(Entry)
        /\ Len(SubSeq(q, 1, k)) = IF 1 <= k THEN k - 1 + 1 ELSE 0
        /\ \A i \in 1 .. k - 1 + 1 : SubSeq(q, 1, k)[i] = q[1 + i - 1]
    <3> HIDE DEF k
    <3> QED BY <1>2, <2>1, SubSeqProperties
  <2> QED
    BY <1>2, <2>2, <2>3
<1>4. /\ r \in Seq(Entry) /\ Len(r) = IF n < Len(q) THEN Len(q) - n ELSE 0
      /\ \A i \in 1 .. Len(q) - n : r[i] = q[n + i]
  <2>1. \A i \in n + 1 .. Len(q) : q[i] \in Entry
    BY <1>1
  <2>2. /\ SubSeq(q, n + 1, Len(q)) \in Seq(Entry)
        /\ Len(SubSeq(q, n + 1, Len(q))) =
             IF n + 1 <= Len(q) THEN Len(q) - (n + 1) + 1 ELSE 0
        /\ \A i \in 1 .. Len(q) - (n + 1) + 1 :
             SubSeq(q, n + 1, Len(q))[i] = q[n + 1 + i - 1]
    BY <1>1, <2>1, SubSeqProperties
  <2> QED
    BY <1>1, <2>2 DEF Rest
<1> HIDE DEF f, r
<1>5. Contents(q) \subseteq Contents(f) \cup Contents(r)
  <2> SUFFICES ASSUME NEW i \in 1 .. Len(q)
               PROVE  q[i].payload \in Contents(f) \cup Contents(r)
    BY ContentsMember
  <2>1. CASE i <= n
    <3>1. i \in 1 .. Len(f) /\ f[i] = q[i]
      BY <1>1, <1>3, <2>1
    <3> QED
      BY <1>3, <3>1, ContentsMember
  <2>2. CASE i > n
    <3>1. i - n \in 1 .. Len(r) /\ r[i - n] = q[i]
      BY <1>1, <1>4, <2>2
    <3> QED
      BY <1>4, <3>1, ContentsMember
  <2> QED
    BY <2>1, <2>2
<1>6. Contents(f) \subseteq Contents(q)
  <2> SUFFICES ASSUME NEW i \in 1 .. Len(f)
               PROVE  f[i].payload \in Contents(q)
    BY <1>3, ContentsMember
  <2>1. i \in 1 .. Len(q) /\ f[i] = q[i]
    BY <1>1, <1>2, <1>3
  <2> QED
    BY <2>1, ContentsMember
<1>7. Contents(r) \subseteq Contents(q)
  <2> SUFFICES ASSUME NEW i \in 1 .. Len(r)
               PROVE  r[i].payload \in Contents(q)
    BY <1>4, ContentsMember
  <2>1. n + i \in 1 .. Len(q) /\ r[i] = q[n + i]
    BY <1>1, <1>4
  <2> QED
    BY <2>1, ContentsMember
<1> QED
  BY <1>2, <1>3, <1>4, <1>5, <1>6, <1>7 DEF f, r

(* requeue(), one entry: nothing that was queued goes, nothing but the      *)
(* entry's payload comes, and the size grows by one at most.               *)
LEMMA PutBackProperties ==
  ASSUME NEW q \in Seq(Entry), NEW e \in Entry
  PROVE  /\ PutBack(q, e) \in Seq(Entry)
         /\ Len(PutBack(q, e)) <= Len(q) + 1
         /\ Contents(q) \subseteq Contents(PutBack(q, e))
         /\ Contents(PutBack(q, e)) \subseteq Contents(q) \cup {e.payload}
<1> DEFINE one == <<Retried(e)>>
           b == one \o q
<1>1. Len(q) \in Nat
  BY LenProperties
<1>2. Retried(e) \in Entry /\ Retried(e).payload = e.payload
  BY DEF Retried, Entry
<1>3. one \in Seq(Entry) /\ Len(one) = 1 /\ one[1] = Retried(e)
  BY <1>2
<1>4. /\ b \in Seq(Entry) /\ Len(b) = Len(q) + 1
      /\ \A i \in 1 .. Len(q) + 1 : b[i] = IF i <= 1 THEN Retried(e) ELSE q[i - 1]
  <2> HIDE DEF one
  <2>1. /\ one \o q \in Seq(Entry)
        /\ Len(one \o q) = Len(one) + Len(q)
        /\ \A i \in 1 .. Len(one) + Len(q) :
             (one \o q)[i] = IF i <= Len(one) THEN one[i] ELSE q[i - Len(one)]
    BY <1>3, ConcatProperties
  <2> QED
    BY <1>1, <1>3, <2>1
<1> HIDE DEF b
<1>5. Contents(q) \subseteq Contents(b)
  <2> SUFFICES ASSUME NEW i \in 1 .. Len(q)
               PROVE  q[i].payload \in Contents(b)
    BY ContentsMember
  <2>1. i + 1 \in 1 .. Len(b) /\ b[i + 1] = q[i]
    BY <1>1, <1>4
  <2> QED
    BY <1>4, <2>1, ContentsMember
<1>6. Contents(b) \subseteq Contents(q) \cup {e.payload}
  <2> SUFFICES ASSUME NEW i \in 1 .. Len(b)
               PROVE  b[i].payload \in Contents(q) \cup {e.payload}
    BY <1>4, ContentsMember
  <2>1. CASE i = 1
    BY <1>1, <1>2, <1>4, <2>1
  <2>2. CASE i # 1
    <3>1. i - 1 \in 1 .. Len(q) /\ b[i] = q[i - 1]
      BY <1>1, <1>4, <2>2
    <3> QED
      BY <3>1, ContentsMember
  <2> QED
    BY <2>1, <2>2
<1>7. PutBack(q, e) = b \/ PutBack(q, e) = q
  BY DEF PutBack, b
<1> QED
  BY <1>1, <1>4, <1>5, <1>6, <1>7

-------------------------------------------------------------------------------
(* What the operations leave of the order of a list and of its timestamps. *)
Stamps(s) == { s[i].timestamp : i \in 1 .. Len(s) }

Distinct(s) ==
  \A i, j \in 1 .. Len(s) : s[i].timestamp = s[j].timestamp => i = j

Ordered(s) ==
  \A i, j \in 1 .. Len(s) :
    i < j /\ s[i].retries = 0 => s[j].retries = 0 /\ s[i].timestamp < s[j].timestamp

\* f picks the entries of r out of s, in their order.
Picks(f, r, s) ==
  /\ f \in [1 .. Len(r) -> 1 .. Len(s)]
  /\ \A i, j \in 1 .. Len(r) : i < j => f[i] < f[j]
  /\ \A i \in 1 .. Len(r) : r[i] = s[f[i]]

(* What is true of a list's order and timestamps is true of a part of it. *)
LEMMA PartOf ==
  ASSUME NEW r \in Seq(Entry), NEW s \in Seq(Entry), NEW f, Picks(f, r, s)
  PROVE  /\ Stamps(r) \subseteq Stamps(s)
         /\ Distinct(s) => Distinct(r)
         /\ Ordered(s) => Ordered(r)
<1>1. Stamps(r) \subseteq Stamps(s)
  BY DEF Picks, Stamps
<1>2. ASSUME Distinct(s) PROVE Distinct(r)
  <2> SUFFICES ASSUME NEW i \in 1 .. Len(r), NEW j \in 1 .. Len(r), i < j
               PROVE  r[i].timestamp # r[j].timestamp
    BY LenProperties DEF Distinct
  <2>1. /\ f[i] \in 1 .. Len(s) /\ f[j] \in 1 .. Len(s) /\ f[i] < f[j]
        /\ r[i] = s[f[i]] /\ r[j] = s[f[j]]
    BY DEF Picks
  <2> QED
    BY <1>2, <2>1, LenProperties DEF Distinct
<1>3. ASSUME Ordered(s) PROVE Ordered(r)
  <2> SUFFICES ASSUME NEW i \in 1 .. Len(r), NEW j \in 1 .. Len(r), i < j, r[i].retries = 0
               PROVE  r[j].retries = 0 /\ r[i].timestamp < r[j].timestamp
    BY DEF Ordered
  <2>1. /\ f[i] \in 1 .. Len(s) /\ f[j] \in 1 .. Len(s) /\ f[i] < f[j]
        /\ r[i] = s[f[i]] /\ r[j] = s[f[j]]
    BY DEF Picks
  <2> QED
    BY <1>3, <2>1 DEF Ordered
<1> QED
  BY <1>1, <1>2, <1>3

(* A list without its first entry. *)
LEMMA TailStamps ==
  ASSUME NEW s \in Seq(Entry), s # <<>>
  PROVE  /\ Tail(s) \in Seq(Entry) /\ Stamps(Tail(s)) \subseteq Stamps(s)
         /\ Head(s) \in Entry /\ Head(s).timestamp \in Stamps(s)
         /\ Distinct(s) => Distinct(Tail(s)) /\ Head(s).timestamp \notin Stamps(Tail(s))
         /\ Ordered(s) => Ordered(Tail(s))
<1> DEFINE r == Tail(s)
           f == [i \in 1 .. Len(r) |-> i + 1]
<1>1. /\ r \in Seq(Entry) /\ Head(s) \in Entry /\ Head(s) = s[1]
      /\ Len(r) = Len(s) - 1 /\ Len(s) \in Nat \ {0}
      /\ \A i \in 1 .. Len(r) : r[i] = s[i + 1]
  BY HeadTailProperties, EmptySeq
<1> HIDE DEF r
<1>2. Picks(f, r, s)
  BY <1>1 DEF Picks
<1>3. Head(s).timestamp \in Stamps(s)
  BY <1>1 DEF Stamps
<1>4. ASSUME Distinct(s) PROVE Head(s).timestamp \notin Stamps(r)
  BY <1>1, <1>4 DEF Stamps, Distinct
<1> HIDE DEF f
<1> QED
  BY <1>1, <1>2, <1>3, <1>4, PartOf DEF r

(* A list without its i-th entry. *)
Without(s, i) == SubSeq(s, 1, i - 1) \o SubSeq(s, i + 1, Len(s))

LEMMA WithoutStamps ==
  ASSUME NEW s \in Seq(Entry), NEW i \in 1 .. Len(s)
  PROVE  /\ Without(s, i) \in Seq(Entry) /\ Len(Without(s, i)) = Len(s) - 1
         /\ Stamps(Without(s, i)) \subseteq Stamps(s)
         /\ Distinct(s) => Distinct(Without(s, i))
<1> DEFINE r == Without(s, i)
           a == SubSeq(s, 1, i - 1)
           b == SubSeq(s, i + 1, Len(s))
           f == [j \in 1 .. Len(r) |-> IF j < i THEN j ELSE j + 1]
<1>1. Len(s) \in Nat /\ i \in Nat /\ \A j \in 1 .. Len(s) : s[j] \in Entry
  BY LenProperties, ElementOfSeq
<1>2. /\ a \in Seq(Entry) /\ Len(a) = i - 1
      /\ \A j \in 1 .. i - 1 : a[j] = s[j]
  <2>1. \A j \in 1 .. i - 1 : s[j] \in Entry
    BY <1>1
  <2>2. /\ a \in Seq(Entry) /\ Len(a) = IF 1 <= i - 1 THEN i - 1 - 1 + 1 ELSE 0
        /\ \A j \in 1 .. i - 1 - 1 + 1 : a[j] = s[1 + j - 1]
    BY <1>1, <2>1, SubSeqProperties
  <2> QED
    BY <1>1, <2>2
<1>3. /\ b \in Seq(Entry) /\ Len(b) = Len(s) - i
      /\ \A j \in 1 .. Len(s) - i : b[j] = s[i + j]
  <2>1. \A j \in i + 1 .. Len(s) : s[j] \in Entry
    BY <1>1
  <2>2. /\ b \in Seq(Entry)
        /\ Len(b) = IF i + 1 <= Len(s) THEN Len(s) - (i + 1) + 1 ELSE 0
        /\ \A j \in 1 .. Len(s) - (i + 1) + 1 : b[j] = s[i + 1 + j - 1]
    BY <1>1, <2>1, SubSeqProperties
  <2> QED
    BY <1>1, <2>2
<1> HIDE DEF a, b
<1>4. /\ a \o b \in Seq(Entry) /\ Len(a \o b) = Len(a) + Len(b)
      /\ \A j \in 1 .. Len(a) + Len(b) :
           (a \o b)[j] = IF j <= Len(a) THEN a[j] ELSE b[j - Len(a)]
  BY <1>2, <1>3, ConcatProperties
<1>5. r = a \o b
  BY DEF Without, a, b
<1> HIDE DEF r
<1>6. r \in Seq(Entry) /\ Len(r) = Len(s) - 1
  <2>1. r \in Seq(Entry) /\ Len(r) = Len(a) + Len(b)
    BY <1>4, <1>5, Zenon
  <2> QED
    BY <1>1, <1>2, <1>3, <2>1
<1>7. ASSUME NEW j \in 1 .. i - 1 PROVE r[j] = s[j]
  BY <1>1, <1>2, <1>3, <1>4, <1>5
<1>8. ASSUME NEW j \in i .. Len(s) - 1 PROVE r[j] = s[j + 1]
  <2>1. j \in 1 .. Len(a) + Len(b) /\ ~(j <= Len(a)) /\ j - Len(a) \in 1 .. Len(s) - i
        /\ i + (j - Len(a)) = j + 1
    BY <1>1, <1>2, <1>3
  <2> QED
    BY <1>1, <1>2, <1>3, <1>4, <1>5, <2>1
<1>9. Picks(f, r, s)
  <2>1. f \in [1 .. Len(r) -> 1 .. Len(s)]
    BY <1>1, <1>6
  <2>2. \A j, k \in 1 .. Len(r) : j < k => f[j] < f[k]
    BY <1>1, <1>6
  <2>3. ASSUME NEW j \in 1 .. Len(r) PROVE r[j] = s[f[j]]
    <3>1. CASE j < i
      BY <1>1, <1>6, <1>7, <3>1
    <3>2. CASE ~(j < i)
      <4>1. j \in i .. Len(s) - 1
        BY <1>1, <1>6, <3>2
      <4> QED
        BY <1>8, <3>2, <4>1
    <3> QED
      BY <3>1, <3>2
  <2> QED
    BY <2>1, <2>2, <2>3 DEF Picks
<1> HIDE DEF f
<1>10. /\ Stamps(r) \subseteq Stamps(s)
       /\ Distinct(s) => Distinct(r)
       /\ Ordered(s) => Ordered(r)
  BY <1>6, <1>9, PartOf
<1> QED
  BY <1>6, <1>10 DEF r

(* enqueue(): a new timestamp, larger than all others, at the end. *)
LEMMA PushStamps ==
  ASSUME NEW q \in Seq(Entry), NEW e \in Entry, QueueAssumption,
         \A x \in Stamps(q) : x < e.timestamp
  PROVE  /\ Stamps(Push(q, e)) \subseteq Stamps(q) \cup {e.timestamp}
         /\ Distinct(q) => Distinct(Push(q, e))
         /\ Ordered(q) /\ e.retries = 0 => Ordered(Push(q, e))
<1> DEFINE s == IF Overflows(q) THEN Tail(q) ELSE q
           r == Append(s, e)
<1>1. /\ s \in Seq(Entry) /\ Stamps(s) \subseteq Stamps(q)
      /\ Distinct(q) => Distinct(s)
      /\ Ordered(q) => Ordered(s)
  <2>1. Overflows(q) => q # <<>>
    BY PushProperties
  <2> QED
    BY <2>1, TailStamps
<1> HIDE DEF s
<1>2. /\ Len(r) = Len(s) + 1 /\ Len(s) \in Nat
      /\ \A i \in 1 .. Len(s) : r[i] = s[i] /\ s[i] \in Entry
      /\ r[Len(s) + 1] = e
  BY <1>1, AppendProperties, LenProperties, ElementOfSeq
<1> HIDE DEF r
<1>3. \A i \in 1 .. Len(s) :
        /\ s[i].timestamp \in Stamps(q)
        /\ s[i].timestamp \in Nat /\ s[i].timestamp < e.timestamp
  BY <1>1, <1>2 DEF Stamps, Entry
<1>4. e.timestamp \in Nat /\ e.retries \in Nat
  BY DEF Entry
<1>5. Stamps(r) \subseteq Stamps(q) \cup {e.timestamp}
  <2> SUFFICES ASSUME NEW i \in 1 .. Len(r)
               PROVE  r[i].timestamp \in Stamps(q) \cup {e.timestamp}
    BY DEF Stamps
  <2>1. i \in 1 .. Len(s) \/ i = Len(s) + 1
    BY <1>2
  <2> QED
    BY <1>2, <1>3, <2>1
<1>6. ASSUME Distinct(q) PROVE Distinct(r)
  BY <1>1, <1>2, <1>3, <1>4, <1>6 DEF Distinct
<1>7. ASSUME Ordered(q), e.retries = 0 PROVE Ordered(r)
  <2> SUFFICES ASSUME NEW i \in 1 .. Len(r), NEW j \in 1 .. Len(r), i < j, r[i].retries = 0
               PROVE  r[j].retries = 0 /\ r[i].timestamp < r[j].timestamp
    BY DEF Ordered
  <2>1. i \in 1 .. Len(s) /\ r[i] = s[i] /\ s[i].timestamp < e.timestamp
    BY <1>2, <1>3
  <2>2. CASE j = Len(s) + 1
    BY <1>2, <1>7, <2>1, <2>2
  <2>3. CASE j \in 1 .. Len(s)
    BY <1>1, <1>2, <1>7, <2>1, <2>3 DEF Ordered
  <2> QED
    BY <1>2, <2>2, <2>3
<1> QED
  BY <1>5, <1>6, <1>7 DEF Push, r, s

(* dequeue(): two parts of the queue that share nothing. *)
LEMMA DequeueStamps ==
  ASSUME NEW q \in Seq(Entry), NEW n \in Nat
  PROVE  /\ Stamps(Front(q, n)) \subseteq Stamps(q) /\ Stamps(Rest(q, n)) \subseteq Stamps(q)
         /\ Distinct(q) => /\ Distinct(Front(q, n)) /\ Distinct(Rest(q, n))
                           /\ Stamps(Front(q, n)) \cap Stamps(Rest(q, n)) = {}
         /\ Ordered(q) => Ordered(Rest(q, n))
<1> DEFINE k == IF n < Len(q) THEN n ELSE Len(q)
           a == Front(q, n)
           b == Rest(q, n)
           f == [i \in 1 .. Len(a) |-> i]
           g == [i \in 1 .. Len(b) |-> n + i]
<1>1. Len(q) \in Nat /\ \A i \in 1 .. Len(q) : q[i] \in Entry
  BY LenProperties, ElementOfSeq
<1>2. k \in Nat /\ k <= Len(q) /\ k <= n
  BY <1>1
<1>3. a \in Seq(Entry) /\ Len(a) = k /\ \A i \in 1 .. k : a[i] = q[i]
  <2>1. \A i \in 1 .. k : q[i] \in Entry
    BY <1>1, <1>2
  <2>2. a = SubSeq(q, 1, k)
    BY DEF Front
  <2>3. /\ SubSeq(q, 1, k) \in Seq(Entry)
        /\ Len(SubSeq(q, 1, k)) = IF 1 <= k THEN k - 1 + 1 ELSE 0
        /\ \A i \in 1 .. k - 1 + 1 : SubSeq(q, 1, k)[i] = q[1 + i - 1]
    <3> HIDE DEF k
    <3> QED BY <1>2, <2>1, SubSeqProperties
  <2> QED
    BY <1>2, <2>2, <2>3
<1>4. /\ b \in Seq(Entry) /\ Len(b) = IF n < Len(q) THEN Len(q) - n ELSE 0
      /\ \A i \in 1 .. Len(q) - n : b[i] = q[n + i]
  <2>1. \A i \in n + 1 .. Len(q) : q[i] \in Entry
    BY <1>1
  <2>2. /\ SubSeq(q, n + 1, Len(q)) \in Seq(Entry)
        /\ Len(SubSeq(q, n + 1, Len(q))) =
             IF n + 1 <= Len(q) THEN Len(q) - (n + 1) + 1 ELSE 0
        /\ \A i \in 1 .. Len(q) - (n + 1) + 1 :
             SubSeq(q, n + 1, Len(q))[i] = q[n + 1 + i - 1]
    BY <1>1, <2>1, SubSeqProperties
  <2> QED
    BY <1>1, <2>2 DEF Rest
<1> HIDE DEF a, b
<1>5. Picks(f, a, q)
  BY <1>1, <1>2, <1>3 DEF Picks
<1>6. Picks(g, b, q)
  BY <1>1, <1>4 DEF Picks
<1>7. ASSUME Distinct(q) PROVE Stamps(a) \cap Stamps(b) = {}
  <2> SUFFICES ASSUME NEW i \in 1 .. Len(a), NEW j \in 1 .. Len(b)
               PROVE  a[i].timestamp # b[j].timestamp
    BY DEF Stamps
  <2>1. /\ i \in 1 .. Len(q) /\ n + j \in 1 .. Len(q) /\ i # n + j
        /\ a[i] = q[i] /\ b[j] = q[n + j]
    BY <1>1, <1>2, <1>3, <1>4
  <2> QED
    BY <1>7, <2>1 DEF Distinct
<1> HIDE DEF f, g
<1> QED
  BY <1>3, <1>4, <1>5, <1>6, <1>7, PartOf DEF a, b

(* requeue(), one entry: what stands in front of all others was retried. *)
LEMMA PutBackStamps ==
  ASSUME NEW q \in Seq(Entry), NEW e \in Entry
  PROVE  /\ Stamps(PutBack(q, e)) \subseteq Stamps(q) \cup {e.timestamp}
         /\ Distinct(q) /\ e.timestamp \notin Stamps(q) => Distinct(PutBack(q, e))
         /\ Ordered(q) => Ordered(PutBack(q, e))
<1> DEFINE x == Retried(e)
           one == <<x>>
           b == one \o q
<1>1. Len(q) \in Nat
  BY LenProperties
<1>2. x \in Entry /\ x.timestamp = e.timestamp /\ x.retries # 0
  BY DEF Retried, Entry
<1> HIDE DEF x
<1>3. one \in Seq(Entry) /\ Len(one) = 1 /\ one[1] = x
  BY <1>2
<1>4. Len(b) = Len(q) + 1 /\ b[1] = x /\ \A i \in 2 .. Len(q) + 1 : b[i] = q[i - 1]
  <2> HIDE DEF one
  <2>1. /\ Len(one \o q) = Len(one) + Len(q)
        /\ \A i \in 1 .. Len(one) + Len(q) :
             (one \o q)[i] = IF i <= Len(one) THEN one[i] ELSE q[i - Len(one)]
    BY <1>3, ConcatProperties
  <2> QED
    BY <1>1, <1>3, <2>1
<1> HIDE DEF b
<1>5. Stamps(b) \subseteq Stamps(q) \cup {e.timestamp}
  <2> SUFFICES ASSUME NEW i \in 2 .. Len(q) + 1 PROVE b[i].timestamp \in Stamps(q)
    BY <1>1, <1>2, <1>4 DEF Stamps
  <2>1. i - 1 \in 1 .. Len(q) /\ b[i] = q[i - 1]
    BY <1>1, <1>4
  <2> QED
    BY <2>1 DEF Stamps
<1>6. ASSUME Distinct(q), e.timestamp \notin Stamps(q) PROVE Distinct(b)
  <2>1. \A i \in 1 .. Len(q) : q[i].timestamp # x.timestamp
    BY <1>2, <1>6 DEF Stamps
  <2> SUFFICES ASSUME NEW i \in 1 .. Len(b), NEW j \in 1 .. Len(b), i < j,
                      b[i].timestamp = b[j].timestamp
               PROVE  FALSE
    BY <1>1, <1>4 DEF Distinct
  <2>2. j - 1 \in 1 .. Len(q) /\ b[j] = q[j - 1]
    BY <1>1, <1>4
  <2>3. i # 1
    BY <1>4, <2>1, <2>2
  <2>4. i - 1 \in 1 .. Len(q) /\ b[i] = q[i - 1] /\ i - 1 # j - 1
    BY <1>1, <1>4, <2>3
  <2> QED
    BY <1>6, <2>2, <2>4 DEF Distinct
<1>7. ASSUME Ordered(q) PROVE Ordered(b)
  <2> SUFFICES ASSUME NEW i \in 1 .. Len(b), NEW j \in 1 .. Len(b), i < j, b[i].retries = 0
               PROVE  b[j].retries = 0 /\ b[i].timestamp < b[j].timestamp
    BY DEF Ordered
  <2>1. i # 1
    BY <1>2, <1>4
  <2>2. /\ i - 1 \in 1 .. Len(q) /\ j - 1 \in 1 .. Len(q) /\ i - 1 < j - 1
        /\ b[i] = q[i - 1] /\ b[j] = q[j - 1]
    BY <1>1, <1>4, <2>1
  <2> QED
    BY <1>7, <2>2 DEF Ordered
<1>8. PutBack(q, e) = b \/ PutBack(q, e) = q
  BY DEF PutBack, b, x
<1> QED
  BY <1>5, <1>6, <1>7, <1>8

-------------------------------------------------------------------------------
(***************************************************************************)
(* The sender (Delivery).  Typing comes first; then Inductive, conjunct by *)
(* conjunct, each relative to the ones before it.                          *)
(***************************************************************************)
USE DEF queueVars, flushVars, histVars

(* A new entry of the queue is well formed. *)
LEMMA NewEntryType ==
  ASSUME NEW p \in Payloads
  PROVE  NewEntry(p, 0) \in Entry /\ NewEntry(p, 0).payload = p
BY DEF NewEntry, Entry

(* The program counters change for one thread only. *)
LEMMA GotoType ==
  ASSUME NEW t \in Threads, NEW from, NEW to, Goto(t, from, to),
         pc \in [Threads -> {"idle", "post", "enqueue", "requeue", "save"}],
         to \in {"idle", "post", "enqueue", "requeue", "save"}
  PROVE  /\ pc' \in [Threads -> {"idle", "post", "enqueue", "requeue", "save"}]
         /\ pc[t] = from /\ pc'[t] = to
         /\ \A u \in Threads : u # t => pc'[u] = pc[u]
BY DEF Goto

-------------------------------------------------------------------------------
(* Type correctness of Delivery: every step keeps every variable in its     *)
(* type; the one thing to see is that a thread that enqueues has a job.    *)
JobTyped == \A t \in Threads : pc[t] \in {"post", "enqueue"} => job[t] \in Payloads

FlushTyped == flushing /\ pc[Main] \in {"post", "enqueue"} => batch # <<>>

Typed == TypeOK /\ JobTyped /\ FlushTyped /\ (writing => Persist)

LEMMA TypedInit == ASSUME Init, QueueAssumption, DeliveryAssumption PROVE Typed
BY EmptySeq DEF Init, Typed, TypeOK, JobTyped, FlushTyped, QueueInit, QueueTypeOK, QueueAssumption,
       DeliveryAssumption

LEMMA TypedNext ==
  ASSUME Typed, [Next]_vars, QueueAssumption, DeliveryAssumption
  PROVE  Typed'
<1> USE DEF Typed, TypeOK, QueueTypeOK, JobTyped, FlushTyped
<1> USE QueueAssumption, DeliveryAssumption
<1> USE DEF DeliveryAssumption
<1>1. ASSUME NEW t \in Threads, NEW p \in Payloads, Send(t, p) PROVE Typed'
  BY <1>1, GotoType DEF Send
<1>2. ASSUME NEW t \in Threads, PostOk(t) PROVE Typed'
  <2>1. batch' \in Seq(Entry)
    BY <1>2, ContentsHeadTail DEF PostOk, Goto, Flushing
  <2> QED
    BY <1>2, <2>1, GotoType DEF PostOk, Flushing
<1>3. ASSUME NEW t \in Threads, PostError(t) PROVE Typed'
  BY <1>3, GotoType DEF PostError, PostRejected, PostUnacknowledged, Flushing
<1>16. ASSUME NEW t \in Threads, PostRaises(t) PROVE Typed'
  BY <1>16, GotoType DEF PostRaises, Flushing
<1>4. ASSUME NEW t \in Threads, EnqueueFailed(t) PROVE Typed'
  <2>1. job[t] \in Payloads /\ (Flushing(t) => batch # <<>>)
    BY <1>4 DEF EnqueueFailed, Goto, Flushing
  <2>2. queue' \in Seq(Entry)
    BY <1>4, <2>1, NewEntryType, PushProperties DEF EnqueueFailed, Enqueue
  <2>3. batch' \in Seq(Entry) /\ failed' \in Seq(Entry)
    BY <1>4, <2>1, ContentsHeadTail, ContentsAppend DEF EnqueueFailed
  <2>4. Popped(queue) \subseteq Payloads
    <3>1. Overflows(queue) => queue # <<>>
      BY <2>1, NewEntryType, PushProperties
    <3> QED
      BY <3>1, ContentsHeadTail DEF Popped, Entry
  <2> QED
    BY <1>4, <2>2, <2>3, <2>4, GotoType DEF EnqueueFailed, Enqueue, Lock, Flushing
<1>5. ASSUME NEW t \in Threads, SaveBegin(t) PROVE Typed'
  BY <1>5, EmptySeq DEF SaveBegin, SaveOpen, QueueAssumption
<1>6. ASSUME NEW t \in Threads, SaveEnd(t) PROVE Typed'
  <2>1. queue' = queue /\ file' \in Seq(Entry) /\ holder' = Nobody /\ writing' = FALSE
    BY <1>6 DEF SaveEnd, SaveReturn, SaveWrite, SaveFail, SaveSkip
  <2>2. Goto(t, "save", "idle") /\ UNCHANGED <<phase, job, flushVars, histVars, starts>>
    BY <1>6 DEF SaveEnd
  <2>3. /\ pc' \in [Threads -> {"idle", "post", "enqueue", "requeue", "save"}]
        /\ pc'[t] = "idle" /\ \A u \in Threads : u # t => pc'[u] = pc[u]
    BY <2>2, GotoType
  <2>4. JobTyped' /\ FlushTyped'
    BY <2>2, <2>3
  <2> QED
    BY <2>1, <2>2, <2>3, <2>4
<1>7. ASSUME RetryFlush \/ FinalFlush PROVE Typed'
  <2>1. queue' \in Seq(Entry) /\ batch' \in Seq(Entry)
    BY <1>7, DequeueProperties DEF RetryFlush, FinalFlush, BeginFlush, Dequeue
  <2>2. /\ Goto(Main, "idle", "save") /\ holder' = Main /\ phase' \in {"loop", "closing"}
        /\ flushing' = TRUE
        /\ UNCHANGED <<file, writing, job, failed, histVars, starts>>
    BY <1>7 DEF RetryFlush, FinalFlush, BeginFlush, Dequeue, Lock
  <2> QED
    BY <2>1, <2>2, GotoType DEF QueueAssumption
<1>8. CASE FlushPost
  <2>1. Head(batch).payload \in Payloads
    BY <1>8, ContentsHeadTail DEF FlushPost, Entry
  <2> QED
    BY <1>8, <2>1, GotoType DEF FlushPost
<1>9. CASE FlushRequeue
  BY <1>9, GotoType DEF FlushRequeue, RequeueBegin, Lock
<1>10. CASE RequeueOne
  <2>1. Head(failed) \in Entry /\ failed' \in Seq(Entry)
    BY <1>10, ContentsHeadTail DEF RequeueOne
  <2>2. queue' \in Seq(Entry)
    BY <1>10, <2>1, PutBackProperties DEF RequeueOne, RequeueEntry
  <2> QED
    BY <1>10, <2>1, <2>2 DEF RequeueOne, RequeueEntry
<1>11. CASE RequeueSave
  BY <1>11, GotoType DEF RequeueSave
<1>12. CASE FlushReturn
  BY <1>12 DEF FlushReturn
<1>13. CASE Exit \/ Crash
  <2>1. /\ queue' = <<>> /\ batch' = <<>> /\ failed' = <<>> /\ holder' = Nobody
        /\ writing' = FALSE /\ phase' = "down" /\ flushing' = FALSE
        /\ pc' = [t \in Threads |-> "idle"] /\ job' = [t \in Threads |-> NoPayload]
        /\ UNCHANGED <<file, histVars, starts>>
    BY <1>13 DEF Exit, Crash, Gone, Vanish
  <2> QED
    BY <2>1, EmptySeq
<1>14. CASE Start
  BY <1>14, ContentsMember DEF Start, Load
<1>15. CASE UNCHANGED vars
  BY <1>15 DEF vars
<1> QED
  BY <1>1, <1>2, <1>3, <1>4, <1>5, <1>6, <1>7, <1>8, <1>9, <1>10, <1>11, <1>12, <1>13,
     <1>14, <1>15, <1>16 DEF Next, PostError

(* Every behaviour is well typed: the type invariant of the runs, for every *)
(* number of threads, payloads and sizes.                                  *)
THEOREM Typing == Spec => []TypeOK
<1>1. Init => Typed
  BY TypedInit, QueueAssumption, DeliveryAssumption
<1>2. Typed /\ [Next]_vars => Typed'
  BY TypedNext, QueueAssumption, DeliveryAssumption
<1>3. Typed => TypeOK
  BY DEF Typed
<1> QED
  BY <1>1, <1>2, <1>3, PTL DEF Spec

-------------------------------------------------------------------------------
(* What one job's change does to the set of payloads being posted. *)
LEMMA PostingChange ==
  ASSUME TypeOK, NEW t \in Threads, NEW x, job' = [job EXCEPT ![t] = x]
  PROVE  /\ Posting \subseteq Posting' \cup {job[t]}
         /\ Posting' \subseteq Posting \cup {x}
         /\ x # NoPayload => x \in Posting'
         /\ job[t] # NoPayload => job[t] \in Posting
         /\ job'[t] = x
         /\ \A u \in Threads : u # t => job'[u] = job[u]
BY DEF Posting, TypeOK

LEMMA InductiveInit ==
  ASSUME Init, QueueAssumption, DeliveryAssumption
  PROVE  Inductive
<1> USE DEF Init, QueueInit, DeliveryAssumption, QueueAssumption
<1>1. Posting = {}
  BY DEF Posting
<1>2. Contents(<<>>) = {} /\ Len(<<>>) = 0
  BY ContentsEmpty
<1>3. LockDiscipline
  BY DEF LockDiscipline
<1>4. JobDiscipline
  BY DEF JobDiscipline
<1>5. FlushDiscipline
  BY <1>2 DEF FlushDiscipline
<1>6. NothingInvented /\ NeverQueued /\ FailedCovered /\ Conserved
  BY <1>1, <1>2 DEF NothingInvented, NeverQueued, FailedCovered, Conserved, Live, InHand
<1> QED
  BY <1>3, <1>4, <1>5, <1>6 DEF Inductive

(* The sets that NothingInvented, FailedCovered and Conserved are about. *)
LEMMA SetsUnfolded ==
  /\ Live = Contents(queue) \cup Contents(batch) \cup Contents(failed) \cup Posting
  /\ Live' = Contents(queue') \cup Contents(batch') \cup Contents(failed') \cup Posting'
BY DEF Live, InHand

-------------------------------------------------------------------------------
(* One lemma per group of actions: each keeps Inductive. *)

Sound == Typed /\ Inductive

(* A send gives the agent a payload, which is then being posted. *)
LEMMA SendSound ==
  ASSUME Sound, DeliveryAssumption, NEW t \in Threads, NEW p \in Payloads, Send(t, p)
  PROVE  Inductive'
<1> USE DEF Sound, Typed, TypeOK, QueueTypeOK, Inductive, DeliveryAssumption
<1>1. /\ Goto(t, "idle", "post") /\ job' = [job EXCEPT ![t] = p]
      /\ submitted' = submitted \cup {p} /\ charge' = charge \cup {p}
      /\ phase # "down" /\ (t = Main => ~flushing)
      /\ UNCHANGED <<queue, file, holder, phase, flushing, batch, failed, accepted, evicted,
                     refused>>
  BY DEF Send
<1>2. /\ pc[t] = "idle" /\ pc'[t] = "post"
      /\ \A u \in Threads : u # t => pc'[u] = pc[u]
  BY <1>1, GotoType
<1>3. /\ Posting \subseteq Posting' \cup {job[t]} /\ Posting' \subseteq Posting \cup {p}
      /\ p \in Posting' /\ job'[t] = p /\ \A u \in Threads : u # t => job'[u] = job[u]
  <2>1. p # NoPayload
    OBVIOUS
  <2> QED
    BY <1>1, <2>1, PostingChange
<1>4. job[t] = NoPayload
  BY <1>2 DEF JobDiscipline
<1>5. LockDiscipline'
  BY <1>1, <1>2 DEF LockDiscipline
<1>6. JobDiscipline'
  BY <1>1, <1>2, <1>3 DEF JobDiscipline
<1>7. FlushDiscipline'
  BY <1>1, <1>2 DEF FlushDiscipline
<1>8. NothingInvented' /\ FailedCovered' /\ Conserved'
  <2>1. Posting \subseteq Posting'
    BY <1>3, <1>4 DEF Posting
  <2> QED
    BY <1>1, <1>3, <2>1, SetsUnfolded DEF NothingInvented, FailedCovered, Conserved
<1>9. NeverQueued'
  BY <1>1, <1>2, <1>3 DEF NeverQueued
<1> QED
  BY <1>5, <1>6, <1>7, <1>8, <1>9

(* A successful POST settles its payload; in a flush, that of the batch's   *)
(* first entry.                                                            *)
LEMMA PostOkSound ==
  ASSUME Sound, QueueAssumption, DeliveryAssumption, NEW t \in Threads, PostOk(t)
  PROVE  Inductive'
<1> USE DEF Sound, Typed, TypeOK, QueueTypeOK, Inductive, DeliveryAssumption
<1>1. /\ Goto(t, "post", "idle") /\ job' = [job EXCEPT ![t] = NoPayload]
      /\ batch' = (IF Flushing(t) THEN Tail(batch) ELSE batch)
      /\ accepted' = accepted \cup {job[t]} /\ job[t] \notin Unencodable
      /\ UNCHANGED <<queue, file, holder, phase, flushing, failed, submitted, charge, evicted,
                     refused>>
  BY DEF PostOk
<1>2. /\ pc[t] = "post" /\ pc'[t] = "idle"
      /\ \A u \in Threads : u # t => pc'[u] = pc[u]
  BY <1>1, GotoType
<1>3. /\ Posting \subseteq Posting' \cup {job[t]} /\ Posting' \subseteq Posting \cup {NoPayload}
      /\ job'[t] = NoPayload /\ \A u \in Threads : u # t => job'[u] = job[u]
  BY <1>1, PostingChange
<1>4. job[t] # NoPayload /\ job[t] \in Posting
  BY <1>2, <1>1, PostingChange DEF JobDiscipline
<1>5. /\ Flushing(t) => batch # <<>> /\ Head(batch).payload = job[t]
      /\ Flushing(t) => Len(batch') = Len(batch) - 1 /\ batch' \in Seq(Entry)
      /\ Contents(batch) \subseteq Contents(batch') \cup {job[t]}
      /\ Contents(batch') \subseteq Contents(batch)
  BY <1>1, <1>4, ContentsHeadTail DEF JobDiscipline, Flushing
<1>6. LockDiscipline'
  BY <1>1, <1>2 DEF LockDiscipline
<1>7. JobDiscipline'
  BY <1>1, <1>2, <1>3 DEF JobDiscipline, Flushing
<1>8. FlushDiscipline'
  <2>1. Len(failed) \in Nat /\ Len(batch) \in Nat /\ Len(queue) \in Nat
    BY LenProperties
  <2>2. ~Flushing(t) => UNCHANGED batch
    BY <1>1
  <2>3. Flushing(t) => batch # <<>> /\ pc[Main] = "post" /\ flushing
    BY <1>2, <1>5 DEF Flushing
  <2> QED
    BY <1>1, <1>2, <1>5, <2>1, <2>2, <2>3 DEF FlushDiscipline
<1>9. NothingInvented' /\ FailedCovered' /\ Conserved'
  <2>1. Posting' \subseteq Posting
    BY <1>3 DEF Posting
  <2>2. job[t] \in submitted
    BY <1>4, SetsUnfolded DEF NothingInvented
  <2> QED
    BY <1>1, <1>3, <1>5, <2>1, <2>2, SetsUnfolded DEF NothingInvented, FailedCovered, Conserved
<1>10. NeverQueued'
  BY <1>1, <1>2, <1>3, <1>5 DEF NeverQueued
<1> QED
  BY <1>6, <1>7, <1>8, <1>9, <1>10

(* A failed POST leaves its payload with the thread that enqueues it. *)
LEMMA PostErrorSound ==
  ASSUME Sound, DeliveryAssumption, NEW t \in Threads, PostError(t)
  PROVE  Inductive'
<1> USE DEF Sound, Typed, TypeOK, QueueTypeOK, Inductive, DeliveryAssumption
<1>1. /\ Goto(t, "post", "enqueue") /\ accepted \subseteq accepted'
      /\ accepted' \subseteq accepted \cup {job[t]} /\ job[t] \notin Unencodable
      /\ UNCHANGED <<queue, file, holder, phase, job, flushing, batch, failed, submitted,
                     charge, evicted, refused>>
  BY DEF PostError, PostRejected, PostUnacknowledged
<1>2. /\ pc[t] = "post" /\ pc'[t] = "enqueue"
      /\ \A u \in Threads : u # t => pc'[u] = pc[u]
  BY <1>1, GotoType
<1>3. job[t] # NoPayload /\ Posting' = Posting /\ job[t] \in Posting
  BY <1>1, <1>2 DEF JobDiscipline, Posting
<1>4. LockDiscipline'
  BY <1>1, <1>2 DEF LockDiscipline
<1>5. JobDiscipline'
  BY <1>1, <1>2 DEF JobDiscipline
<1>6. FlushDiscipline'
  BY <1>1, <1>2 DEF FlushDiscipline
<1>7. NothingInvented' /\ FailedCovered' /\ Conserved'
  BY <1>1, <1>3, SetsUnfolded DEF NothingInvented, FailedCovered, Conserved
<1>8. NeverQueued'
  BY <1>1, <1>2 DEF NeverQueued
<1> QED
  BY <1>4, <1>5, <1>6, <1>7, <1>8

(* A POST that raises drops its payload, which is none of a flush: what a   *)
(* flush posts was queued, so that JSON can express it.                    *)
LEMMA PostRaisesSound ==
  ASSUME Sound, DeliveryAssumption, NEW t \in Threads, PostRaises(t)
  PROVE  Inductive'
<1> USE DEF Sound, Typed, TypeOK, QueueTypeOK, Inductive, DeliveryAssumption
<1>1. /\ Goto(t, "post", "idle") /\ job' = [job EXCEPT ![t] = NoPayload]
      /\ refused' = refused \cup {job[t]} /\ job[t] \in Unencodable
      /\ UNCHANGED <<queue, file, holder, phase, flushing, batch, failed, submitted, charge,
                     accepted, evicted>>
  BY DEF PostRaises
<1>2. /\ pc[t] = "post" /\ pc'[t] = "idle"
      /\ \A u \in Threads : u # t => pc'[u] = pc[u]
  BY <1>1, GotoType
<1>3. /\ Posting \subseteq Posting' \cup {job[t]} /\ Posting' \subseteq Posting \cup {NoPayload}
      /\ job'[t] = NoPayload /\ \A u \in Threads : u # t => job'[u] = job[u]
  BY <1>1, PostingChange
<1>4. job[t] # NoPayload /\ job[t] \in Posting
  BY <1>2, <1>1, PostingChange DEF JobDiscipline
<1>5. ~Flushing(t)
  <2>1. flushing /\ t = Main => batch # <<>> /\ job[t] = Head(batch).payload
    BY <1>4 DEF JobDiscipline
  <2>2. flushing /\ t = Main => job[t] \in Contents(batch)
    BY <2>1, ContentsHeadTail
  <2> QED
    BY <1>1, <2>2 DEF NeverQueued, Flushing
<1>6. LockDiscipline'
  BY <1>1, <1>2 DEF LockDiscipline
<1>7. JobDiscipline'
  BY <1>1, <1>2, <1>3, <1>5 DEF JobDiscipline, Flushing
<1>8. FlushDiscipline'
  BY <1>1, <1>2 DEF FlushDiscipline
<1>9. NothingInvented' /\ FailedCovered' /\ Conserved'
  <2>1. Posting' \subseteq Posting
    BY <1>3 DEF Posting
  <2>2. job[t] \in submitted
    BY <1>4, SetsUnfolded DEF NothingInvented
  <2> QED
    BY <1>1, <1>3, <2>1, <2>2, SetsUnfolded DEF NothingInvented, FailedCovered, Conserved
<1>10. NeverQueued'
  BY <1>1, <1>2, <1>3 DEF NeverQueued
<1> QED
  BY <1>6, <1>7, <1>8, <1>9, <1>10

(* enqueue() takes the payload over from the thread; in a flush, the        *)
(* batch's first entry, whose payload it is, joins `failed`.               *)
LEMMA EnqueueFailedSound ==
  ASSUME Sound, QueueAssumption, DeliveryAssumption, NEW t \in Threads, EnqueueFailed(t)
  PROVE  Inductive'
<1> USE DEF Sound, Typed, TypeOK, QueueTypeOK, Inductive, DeliveryAssumption
<1> DEFINE e == NewEntry(job[t], 0)
<1>1. /\ Goto(t, "enqueue", "save") /\ job' = [job EXCEPT ![t] = NoPayload]
      /\ holder = Nobody /\ holder' = t
      /\ queue' = Push(queue, e) /\ evicted' = evicted \cup Popped(queue)
      /\ batch' = (IF Flushing(t) THEN Tail(batch) ELSE batch)
      /\ failed' = (IF Flushing(t) THEN Append(failed, Head(batch)) ELSE failed)
      /\ UNCHANGED <<file, phase, flushing, submitted, charge, accepted, refused>>
  BY DEF EnqueueFailed, Enqueue, Lock
<1>2. /\ pc[t] = "enqueue" /\ pc'[t] = "save"
      /\ \A u \in Threads : u # t => pc'[u] = pc[u]
  BY <1>1, GotoType
<1>3. /\ Posting \subseteq Posting' \cup {job[t]} /\ Posting' \subseteq Posting \cup {NoPayload}
      /\ job'[t] = NoPayload /\ \A u \in Threads : u # t => job'[u] = job[u]
  BY <1>1, PostingChange
<1>4. job[t] \in Payloads /\ job[t] # NoPayload /\ job[t] \in Posting
  BY <1>1, <1>2, PostingChange DEF JobTyped, JobDiscipline
<1>5. e \in Entry /\ e.payload = job[t]
  BY <1>4, NewEntryType
<1> HIDE DEF e
<1>6. /\ queue' \in Seq(Entry) /\ Len(queue) \in Nat
      /\ Len(queue') = Len(queue) \/ (Len(queue) < MaxSize /\ Len(queue') = Len(queue) + 1)
      /\ job[t] \in Contents(queue')
      /\ Contents(queue') \subseteq Contents(queue) \cup {job[t]}
      /\ Contents(queue) \subseteq Contents(queue') \cup Popped(queue)
      /\ Popped(queue) \subseteq Contents(queue)
  <2>1. /\ Overflows(queue) => queue # <<>> /\ Popped(queue) = {Head(queue).payload}
        /\ ~Overflows(queue) => Popped(queue) = {}
    BY <1>5, PushProperties DEF Popped
  <2>2. Overflows(queue) => Head(queue).payload \in Contents(queue)
    BY <2>1, ContentsHeadTail
  <2>3. /\ queue' \in Seq(Entry) /\ Len(queue) \in Nat
        /\ Len(queue') = Len(queue) \/ (Len(queue) < MaxSize /\ Len(queue') = Len(queue) + 1)
    BY <1>1, <1>5, PushProperties, LenProperties
  <2>4. /\ job[t] \in Contents(queue')
        /\ Contents(queue') \subseteq Contents(queue) \cup {job[t]}
        /\ Contents(queue) \subseteq Contents(queue') \cup Popped(queue)
    BY <1>1, <1>5, <2>1, PushProperties
  <2>5. Popped(queue) \subseteq Contents(queue)
    BY <2>1, <2>2
  <2> QED
    BY <2>3, <2>4, <2>5
<1>7. /\ Flushing(t) => batch # <<>> /\ Head(batch).payload = job[t] /\ Head(batch) \in Entry
      /\ Flushing(t) => Len(batch') = Len(batch) - 1
      /\ Contents(batch) \subseteq Contents(batch') \cup {job[t]}
      /\ Contents(batch') \subseteq Contents(batch)
  BY <1>1, <1>4, ContentsHeadTail DEF JobDiscipline, Flushing
<1>8. /\ Flushing(t) => Len(failed') = Len(failed) + 1
      /\ Contents(failed) \subseteq Contents(failed')
      /\ Contents(failed') \subseteq Contents(failed) \cup {job[t]}
  BY <1>1, <1>7, ContentsAppend
<1>9. /\ ~Flushing(t) => UNCHANGED <<batch, failed>>
      /\ Flushing(t) => t = Main /\ flushing
  BY <1>1 DEF Flushing
<1>10. pc[Main] # "requeue" /\ pc'[Main] # "requeue"
  <2>1. holder # Main
    BY <1>1 DEF QueueAssumption
  <2> QED
    BY <1>1, <1>2, <2>1 DEF LockDiscipline
<1>11. LockDiscipline'
  <2>1. \A u \in Threads : u # Nobody
    BY DEF QueueAssumption
  <2> QED
    BY <1>1, <1>2, <2>1 DEF LockDiscipline
<1>12. JobDiscipline'
  <2>1. \A u \in Threads : job'[u] # NoPayload <=> pc'[u] \in {"post", "enqueue"}
    BY <1>2, <1>3 DEF JobDiscipline
  <2>2. flushing /\ job'[Main] # NoPayload => UNCHANGED batch /\ job'[Main] = job[Main]
    BY <1>3, <1>9
  <2> QED
    BY <1>1, <2>1, <2>2 DEF JobDiscipline
<1>13. FlushDiscipline'
  <2>1. Len(failed) \in Nat /\ Len(batch) \in Nat /\ MaxSize \in Nat /\ BatchSize \in Nat
    BY LenProperties DEF QueueAssumption
  <2>2. Len(batch') + Len(failed') <= BatchSize
    BY <1>7, <1>8, <1>9, <2>1 DEF FlushDiscipline
  <2>3. batch' # <<>> \/ failed' # <<>> => Len(queue') <= MaxSize
    <3>1. batch' # <<>> \/ failed' # <<>> => batch # <<>> \/ failed # <<>>
      BY <1>7, <1>9
    <3> QED
      BY <1>6, <1>10, <2>1, <3>1 DEF FlushDiscipline
  <2>4. Len(queue') <= MaxSize + BatchSize
    BY <1>6, <1>10, <2>1 DEF FlushDiscipline
  <2>5. ~flushing => batch' = <<>> /\ failed' = <<>>
    BY <1>9 DEF FlushDiscipline
  <2>6. Len(queue') + (IF pc'[Main] = "requeue" THEN Len(failed') ELSE 0)
          <= MaxSize + BatchSize
    <3>1. Len(queue') \in Nat
      BY <1>6, LenProperties
    <3> QED
      BY <1>10, <2>1, <2>4, <3>1
  <2>7. Len(file') <= MaxSize + BatchSize
    BY <1>1 DEF FlushDiscipline
  <2> QED
    BY <1>1, <1>10, <2>2, <2>3, <2>5, <2>6, <2>7 DEF FlushDiscipline
<1>14. NothingInvented' /\ FailedCovered' /\ Conserved'
  <2>1. Posting' \subseteq Posting
    BY <1>3 DEF Posting
  <2>2. job[t] \in charge
    BY <1>4, SetsUnfolded DEF NothingInvented
  <2>3. NothingInvented'
    BY <1>1, <1>6, <1>7, <1>8, <2>1, <2>2, SetsUnfolded DEF NothingInvented
  <2>4. FailedCovered'
    BY <1>1, <1>6, <1>8 DEF FailedCovered
  <2>5. Conserved'
    BY <1>1, <1>3, <1>6, <1>7, <1>8, SetsUnfolded DEF Conserved
  <2> QED
    BY <2>3, <2>4, <2>5
<1>15. NeverQueued'
  <2>1. job[t] \notin Unencodable
    BY <1>2 DEF NeverQueued
  <2> QED
    BY <1>1, <1>2, <1>3, <1>6, <1>7, <1>8, <2>1 DEF NeverQueued
<1> QED
  BY <1>11, <1>12, <1>13, <1>14, <1>15

(* Saving touches the file only: it ends up empty or with the queue in it. *)
LEMMA SaveSound ==
  ASSUME Sound, QueueAssumption, DeliveryAssumption, NEW t \in Threads,
         SaveBegin(t) \/ SaveEnd(t)
  PROVE  Inductive'
<1> USE DEF Sound, Typed, TypeOK, QueueTypeOK, Inductive, DeliveryAssumption
<1>1. /\ UNCHANGED <<queue, phase, job, flushVars, histVars>>
      /\ file' = <<>> \/ file' = queue \/ file' = file
  BY DEF SaveBegin, SaveOpen, SaveEnd, SaveReturn, SaveWrite, SaveFail, SaveSkip
<1>2. \/ pc' = pc /\ holder' = holder
      \/ Goto(t, "save", "idle") /\ holder = t /\ holder' = Nobody
  BY DEF SaveBegin, SaveOpen, SaveEnd, SaveReturn, SaveWrite, SaveFail, SaveSkip
<1>3. /\ \A u \in Threads : u # t => pc'[u] = pc[u]
      /\ pc'[t] = pc[t] \/ (pc[t] = "save" /\ pc'[t] = "idle")
  BY <1>2, GotoType
<1>4. LockDiscipline'
  <2>1. Nobody \notin Threads
    BY DEF QueueAssumption
  <2>2. CASE pc' = pc /\ holder' = holder
    BY <1>1, <2>2 DEF LockDiscipline
  <2>3. CASE Goto(t, "save", "idle") /\ holder = t /\ holder' = Nobody
    <3>1. pc[t] = "save" /\ pc'[t] = "idle"
      BY <2>3, GotoType
    <3> QED
      BY <1>1, <1>3, <2>1, <2>3, <3>1 DEF LockDiscipline
  <2> QED
    BY <1>2, <2>2, <2>3
<1>5. JobDiscipline'
  BY <1>1, <1>3 DEF JobDiscipline
<1>6. FlushDiscipline'
  <2>1. pc'[Main] = "requeue" <=> pc[Main] = "requeue"
    BY <1>3
  <2>2. Len(queue) \in Nat /\ Len(failed) \in Nat /\ Len(<<>>) = 0 /\ MaxSize \in Nat
        /\ BatchSize \in Nat
    BY LenProperties, EmptySeq DEF QueueAssumption
  <2>3. Len(file') <= MaxSize + BatchSize
    BY <1>1, <2>2 DEF FlushDiscipline
  <2> QED
    BY <1>1, <2>1, <2>3 DEF FlushDiscipline
<1>7. NothingInvented' /\ FailedCovered' /\ Conserved'
  <2>1. Contents(file') \subseteq Live \cup Contents(file)
    BY <1>1, ContentsEmpty, SetsUnfolded
  <2>2. Posting' = Posting
    BY <1>1 DEF Posting
  <2> QED
    BY <1>1, <2>1, <2>2, SetsUnfolded DEF NothingInvented, FailedCovered, Conserved
<1>8. NeverQueued'
  BY <1>1, <1>3, ContentsEmpty DEF NeverQueued
<1> QED
  BY <1>4, <1>5, <1>6, <1>7, <1>8

(* A flush moves the front of the queue into the batch. *)
LEMMA BeginFlushSound ==
  ASSUME Sound, QueueAssumption, DeliveryAssumption, RetryFlush \/ FinalFlush
  PROVE  Inductive'
<1> USE DEF Sound, Typed, TypeOK, QueueTypeOK, Inductive, DeliveryAssumption
<1>1. /\ Goto(Main, "idle", "save") /\ holder = Nobody /\ holder' = Main
      /\ queue' = Rest(queue, BatchSize) /\ batch' = Front(queue, BatchSize)
      /\ ~flushing /\ flushing' = TRUE /\ phase = "loop" /\ phase' # "down"
      /\ UNCHANGED <<file, job, failed, histVars>>
  BY DEF RetryFlush, FinalFlush, BeginFlush, Dequeue, Lock
<1>2. /\ pc[Main] = "idle" /\ pc'[Main] = "save"
      /\ \A u \in Threads : u # Main => pc'[u] = pc[u]
  BY <1>1, GotoType
<1>3. batch = <<>> /\ failed = <<>>
  BY <1>1 DEF FlushDiscipline
<1>4. /\ queue' \in Seq(Entry) /\ batch' \in Seq(Entry)
      /\ Len(batch') = IF BatchSize < Len(queue) THEN BatchSize ELSE Len(queue)
      /\ Len(queue') = IF BatchSize < Len(queue) THEN Len(queue) - BatchSize ELSE 0
      /\ Contents(queue) = Contents(batch') \cup Contents(queue')
  BY <1>1, DequeueProperties
<1>5. LockDiscipline'
  BY <1>1, <1>2 DEF LockDiscipline, QueueAssumption
<1>6. JobDiscipline'
  BY <1>1, <1>2 DEF JobDiscipline
<1>7. FlushDiscipline'
  <2>1. /\ Len(queue) \in Nat /\ MaxSize \in Nat /\ BatchSize \in Nat
        /\ Len(queue) <= MaxSize + BatchSize /\ Len(failed) = 0
    BY <1>2, <1>3, LenProperties, EmptySeq DEF QueueAssumption, FlushDiscipline
  <2>2. Len(queue') <= MaxSize /\ Len(batch') <= BatchSize
        /\ Len(queue') \in Nat /\ Len(batch') \in Nat
    BY <1>4, <2>1
  <2>3. Len(file') <= MaxSize + BatchSize
    BY <1>1 DEF FlushDiscipline
  <2> QED
    BY <1>1, <1>2, <2>1, <2>2, <2>3 DEF FlushDiscipline
<1>8. NothingInvented' /\ FailedCovered' /\ Conserved'
  <2>1. Posting' = Posting
    BY <1>1 DEF Posting
  <2>2. Contents(failed) = {} /\ Contents(batch) = {}
    BY <1>3, ContentsEmpty
  <2> QED
    BY <1>1, <1>4, <2>1, <2>2, SetsUnfolded DEF NothingInvented, FailedCovered, Conserved
<1>9. NeverQueued'
  BY <1>1, <1>2, <1>4 DEF NeverQueued
<1> QED
  BY <1>5, <1>6, <1>7, <1>8, <1>9

(* The flush posts the payload of its batch's first entry. *)
LEMMA FlushPostSound ==
  ASSUME Sound, DeliveryAssumption, FlushPost
  PROVE  Inductive'
<1> USE DEF Sound, Typed, TypeOK, QueueTypeOK, Inductive, DeliveryAssumption
<1> DEFINE p == Head(batch).payload
<1>1. /\ Goto(Main, "idle", "post") /\ job' = [job EXCEPT ![Main] = p]
      /\ flushing /\ batch # <<>>
      /\ UNCHANGED <<queue, file, holder, phase, flushing, batch, failed, histVars>>
  BY DEF FlushPost
<1>2. /\ pc[Main] = "idle" /\ pc'[Main] = "post"
      /\ \A u \in Threads : u # Main => pc'[u] = pc[u]
  BY <1>1, GotoType
<1>3. p \in Payloads /\ p # NoPayload /\ p \in Contents(batch)
  BY <1>1, ContentsHeadTail, ContentsMember
<1> HIDE DEF p
<1>4. /\ Posting \subseteq Posting' \cup {job[Main]} /\ Posting' \subseteq Posting \cup {p}
      /\ job'[Main] = p /\ \A u \in Threads : u # Main => job'[u] = job[u]
  BY <1>1, PostingChange
<1>5. LockDiscipline'
  BY <1>1, <1>2 DEF LockDiscipline
<1>6. JobDiscipline'
  BY <1>1, <1>2, <1>3, <1>4 DEF JobDiscipline, p
<1>7. FlushDiscipline'
  BY <1>1, <1>2 DEF FlushDiscipline
<1>8. NothingInvented' /\ FailedCovered' /\ Conserved'
  <2>1. job[Main] = NoPayload
    BY <1>2 DEF JobDiscipline
  <2>2. Posting \subseteq Posting'
    BY <1>4, <2>1 DEF Posting
  <2> QED
    BY <1>1, <1>3, <1>4, <2>2, SetsUnfolded DEF NothingInvented, FailedCovered, Conserved
<1>9. NeverQueued'
  BY <1>1, <1>2, <1>4 DEF NeverQueued
<1> QED
  BY <1>5, <1>6, <1>7, <1>8, <1>9

(* requeue() gives entries back one by one under the lock: what it drops at *)
(* the limit has a settled payload or a copy in the queue.                 *)
LEMMA RequeueOneSound ==
  ASSUME Sound, QueueAssumption, DeliveryAssumption, RequeueOne
  PROVE  Inductive'
<1> USE DEF Sound, Typed, TypeOK, QueueTypeOK, Inductive, DeliveryAssumption
<1>1. /\ pc[Main] = "requeue" /\ failed # <<>> /\ failed' = Tail(failed)
      /\ queue' = PutBack(queue, Head(failed))
      /\ UNCHANGED <<file, holder, phase, pc, job, flushing, batch, histVars>>
  BY DEF RequeueOne, RequeueEntry
<1>2. /\ Head(failed) \in Entry /\ Len(failed') = Len(failed) - 1 /\ Len(failed) \in Nat
      /\ failed' \in Seq(Entry)
      /\ Contents(failed) = {Head(failed).payload} \cup Contents(failed')
  BY <1>1, ContentsHeadTail
<1>3. /\ queue' \in Seq(Entry) /\ Len(queue') <= Len(queue) + 1
      /\ Contents(queue) \subseteq Contents(queue')
      /\ Contents(queue') \subseteq Contents(queue) \cup {Head(failed).payload}
  BY <1>1, <1>2, PutBackProperties
<1>4. LockDiscipline' /\ JobDiscipline'
  BY <1>1 DEF LockDiscipline, JobDiscipline
<1>5. FlushDiscipline'
  <2>1. /\ Len(queue) \in Nat /\ Len(queue') \in Nat /\ Len(batch) \in Nat
        /\ MaxSize \in Nat /\ BatchSize \in Nat
    BY <1>3, LenProperties DEF QueueAssumption
  <2>2. Len(queue') + Len(failed') <= MaxSize + BatchSize
    BY <1>1, <1>2, <1>3, <2>1 DEF FlushDiscipline
  <2>3. Len(batch') + Len(failed') <= BatchSize
    BY <1>1, <1>2, <2>1 DEF FlushDiscipline
  <2>4. flushing
    BY <1>1 DEF FlushDiscipline
  <2> QED
    BY <1>1, <2>2, <2>3, <2>4 DEF FlushDiscipline
<1>6. NothingInvented' /\ FailedCovered' /\ Conserved'
  <2>1. Posting' = Posting
    BY <1>1 DEF Posting
  <2> QED
    BY <1>1, <1>2, <1>3, <2>1, SetsUnfolded DEF NothingInvented, FailedCovered, Conserved
<1>7. NeverQueued'
  BY <1>1, <1>2, <1>3 DEF NeverQueued
<1> QED
  BY <1>4, <1>5, <1>6, <1>7

(* The other steps of a flush move the main thread only. *)
LEMMA FlushControlSound ==
  ASSUME Sound, QueueAssumption, DeliveryAssumption, FlushRequeue \/ RequeueSave \/ FlushReturn
  PROVE  Inductive'
<1> USE DEF Sound, Typed, TypeOK, QueueTypeOK, Inductive, DeliveryAssumption
<1>1. UNCHANGED <<queue, file, phase, job, batch, failed, histVars>>
  BY DEF FlushRequeue, RequeueBegin, RequeueSave, FlushReturn
<1>2. NothingInvented' /\ FailedCovered' /\ Conserved'
  <2>1. Posting' = Posting
    BY <1>1 DEF Posting
  <2> QED
    BY <1>1, <2>1, SetsUnfolded DEF NothingInvented, FailedCovered, Conserved
<1>3. /\ Len(queue) \in Nat /\ Len(failed) \in Nat /\ Len(batch) \in Nat
      /\ MaxSize \in Nat /\ BatchSize \in Nat
  BY LenProperties DEF QueueAssumption
<1>4. CASE FlushRequeue
  <2>1. /\ Goto(Main, "idle", "requeue") /\ holder = Nobody /\ holder' = Main
        /\ flushing /\ flushing' = flushing /\ batch = <<>> /\ failed # <<>>
    BY <1>4 DEF FlushRequeue, RequeueBegin, Lock
  <2>2. /\ pc[Main] = "idle" /\ pc'[Main] = "requeue"
        /\ \A u \in Threads : u # Main => pc'[u] = pc[u]
    BY <2>1, GotoType
  <2>3. LockDiscipline' /\ JobDiscipline' /\ NeverQueued'
    BY <1>1, <2>1, <2>2 DEF LockDiscipline, JobDiscipline, NeverQueued, QueueAssumption
  <2>4. FlushDiscipline'
    <3>1. Len(queue) <= MaxSize /\ Len(failed) <= BatchSize
      BY <1>3, <2>1, <2>2 DEF FlushDiscipline
    <3>2. Len(queue) + Len(failed) <= MaxSize + BatchSize
      BY <1>3, <3>1
    <3> QED
      BY <1>1, <2>1, <2>2, <3>2 DEF FlushDiscipline
  <2> QED
    BY <1>2, <2>3, <2>4
<1>5. CASE RequeueSave
  <2>1. Goto(Main, "requeue", "save") /\ failed = <<>> /\ holder' = holder /\ flushing' = flushing
    BY <1>5 DEF RequeueSave
  <2>2. /\ pc[Main] = "requeue" /\ pc'[Main] = "save"
        /\ \A u \in Threads : u # Main => pc'[u] = pc[u]
    BY <2>1, GotoType
  <2>3. LockDiscipline' /\ JobDiscipline' /\ NeverQueued'
    BY <1>1, <2>1, <2>2 DEF LockDiscipline, JobDiscipline, NeverQueued
  <2>4. FlushDiscipline'
    <3>1. Len(queue) <= MaxSize + BatchSize /\ batch = <<>> /\ flushing
      BY <1>3, <2>1, <2>2, EmptySeq DEF FlushDiscipline
    <3> QED
      BY <1>1, <1>3, <2>1, <2>2, <3>1 DEF FlushDiscipline
  <2> QED
    BY <1>2, <2>3, <2>4
<1>6. CASE FlushReturn
  <2>1. /\ pc' = pc /\ holder' = holder /\ flushing /\ flushing' = FALSE
        /\ batch = <<>> /\ failed = <<>> /\ pc[Main] = "idle"
    BY <1>6 DEF FlushReturn
  <2>2. LockDiscipline' /\ JobDiscipline' /\ FlushDiscipline' /\ NeverQueued'
    BY <1>1, <2>1 DEF LockDiscipline, JobDiscipline, FlushDiscipline, NeverQueued
  <2> QED
    BY <1>2, <2>2
<1> QED
  BY <1>4, <1>5, <1>6

(* The end of the process leaves the file and the history; a start makes    *)
(* the file's payloads the new process's charge.                           *)
LEMMA ProcessSound ==
  ASSUME Sound, QueueAssumption, DeliveryAssumption, Exit \/ Crash \/ Start
  PROVE  Inductive'
<1> USE DEF Sound, Typed, TypeOK, QueueTypeOK, Inductive, DeliveryAssumption
<1>1. Contents(<<>>) = {} /\ Len(<<>>) = 0 /\ MaxSize \in Nat /\ BatchSize \in Nat
  BY ContentsEmpty DEF QueueAssumption
<1>2. CASE Exit \/ Crash
  <2>1. /\ queue' = <<>> /\ batch' = <<>> /\ failed' = <<>> /\ holder' = Nobody
        /\ phase' = "down" /\ flushing' = FALSE
        /\ pc' = [t \in Threads |-> "idle"] /\ job' = [t \in Threads |-> NoPayload]
        /\ UNCHANGED <<file, histVars>>
    BY <1>2 DEF Exit, Crash, Gone, Vanish
  <2>2. Posting' = {}
    BY <2>1 DEF Posting
  <2>3. LockDiscipline' /\ JobDiscipline' /\ NeverQueued'
    BY <1>1, <2>1 DEF LockDiscipline, JobDiscipline, NeverQueued, QueueAssumption
  <2>4. FlushDiscipline'
    BY <1>1, <2>1 DEF FlushDiscipline
  <2>5. NothingInvented' /\ FailedCovered' /\ Conserved'
    BY <1>1, <2>1, <2>2, SetsUnfolded DEF NothingInvented, FailedCovered, Conserved
  <2> QED
    BY <2>3, <2>4, <2>5
<1>3. CASE Start
  <2>1. /\ queue' = file /\ phase' = "loop" /\ charge' = Contents(file) /\ phase = "down"
        /\ UNCHANGED <<file, holder, pc, job, flushing, batch, failed, submitted, accepted, evicted,
                       refused>>
    BY <1>3 DEF Start, Load
  <2>2. ~flushing /\ batch = <<>> /\ failed = <<>> /\ \A t \in Threads : pc[t] = "idle"
    BY <2>1 DEF LockDiscipline, FlushDiscipline
  <2>3. Posting' = {}
    BY <2>1, <2>2 DEF JobDiscipline, Posting
  <2>4. LockDiscipline' /\ JobDiscipline' /\ NeverQueued'
    BY <2>1, <2>2 DEF LockDiscipline, JobDiscipline, NeverQueued
  <2>5. FlushDiscipline'
    BY <1>1, <2>1, <2>2, LenProperties DEF FlushDiscipline
  <2>6. NothingInvented' /\ FailedCovered' /\ Conserved'
    BY <1>1, <2>1, <2>2, <2>3, SetsUnfolded DEF NothingInvented, FailedCovered, Conserved
  <2> QED
    BY <2>4, <2>5, <2>6
<1> QED
  BY <1>2, <1>3

LEMMA SoundNext ==
  ASSUME Sound, [Next]_vars, QueueAssumption, DeliveryAssumption
  PROVE  Sound'
<1>1. Typed'
  BY TypedNext DEF Sound
<1>2. ASSUME UNCHANGED vars PROVE Inductive'
  BY <1>2 DEF vars, Sound, Inductive, LockDiscipline, JobDiscipline, FlushDiscipline,
              NothingInvented, NeverQueued, FailedCovered, Conserved, Live, InHand, Posting
<1> QED
  <2>1. ASSUME NEW t \in Threads,
               \/ \E p \in Payloads : Send(t, p)
               \/ PostOk(t)
               \/ PostRejected(t)
               \/ PostUnacknowledged(t)
               \/ PostRaises(t)
               \/ EnqueueFailed(t)
               \/ SaveBegin(t)
               \/ SaveEnd(t)
        PROVE  Inductive'
    BY <2>1, SendSound, PostOkSound, PostErrorSound, PostRaisesSound, EnqueueFailedSound,
       SaveSound
    DEF PostError
  <2>2. ASSUME \/ RetryFlush \/ FinalFlush \/ FlushPost \/ FlushRequeue \/ RequeueOne
               \/ RequeueSave \/ FlushReturn \/ Exit \/ Crash \/ Start
        PROVE  Inductive'
    BY <2>2, BeginFlushSound, FlushPostSound, RequeueOneSound, FlushControlSound, ProcessSound
  <2> QED
    BY <1>1, <1>2, <2>1, <2>2 DEF Next, Sound

(* The inductive invariant that the runs check holds of every instance. *)
THEOREM Soundness == Spec => []Inductive
<1>1. Init => Sound
  BY TypedInit, InductiveInit, QueueAssumption, DeliveryAssumption DEF Sound
<1>2. Sound /\ [Next]_vars => Sound'
  BY SoundNext, QueueAssumption, DeliveryAssumption
<1>3. Sound => Inductive
  BY DEF Sound
<1> QED
  BY <1>1, <1>2, <1>3, PTL DEF Spec

(* However the threads interleave and whatever the network, the disk and    *)
(* the process do, the queue outgrows max_size by one batch at most.       *)
THEOREM BoundedQueue == Spec => []QueueWithinSlack
<1>1. Init => Sound
  BY TypedInit, InductiveInit, QueueAssumption, DeliveryAssumption DEF Sound
<1>2. Sound /\ [Next]_vars => Sound'
  BY SoundNext, QueueAssumption, DeliveryAssumption
<1>3. Sound => QueueWithinSlack
  <2> SUFFICES ASSUME Sound PROVE QueueWithinSlack
    OBVIOUS
  <2>1. Len(queue) \in Nat /\ Len(failed) \in Nat /\ MaxSize \in Nat /\ BatchSize \in Nat
    BY LenProperties, QueueAssumption, DeliveryAssumption
    DEF Sound, Typed, TypeOK, QueueTypeOK, QueueAssumption, DeliveryAssumption
  <2> QED
    BY <2>1 DEF Sound, Inductive, FlushDiscipline, QueueWithinSlack
<1> QED
  BY <1>1, <1>2, <1>3, PTL DEF Spec

(* While the process runs, it loses no payload but what JSON cannot express. *)
THEOREM NoSilentLoss == Spec => []Conserved
<1>1. Inductive => Conserved
  BY DEF Inductive
<1> QED
  BY <1>1, Soundness, PTL

-------------------------------------------------------------------------------
(* The file: in step with the queue whenever no method runs, and short of   *)
(* nothing but the entry being added while a method has not yet saved; what *)
(* requeue() puts back has a copy in the file already or is settled.       *)
Saved == accepted \cup evicted \cup Contents(file)

FileSynced ==
  (phase # "down" /\ Persist /\ ~DiskFaults) =>
    /\ holder = Nobody => file = queue
    /\ pc[Main] = "requeue" => Contents(queue) \subseteq Saved
    /\ ~writing => Contents(queue) \subseteq Saved \cup Adding

LEMMA FileSyncedNext ==
  ASSUME Sound, FileSynced, [Next]_vars, QueueAssumption, DeliveryAssumption
  PROVE  FileSynced'
<1> DEFINE Goal == /\ holder' = Nobody => file' = queue'
                   /\ pc'[Main] = "requeue" => Contents(queue') \subseteq Saved'
                   /\ ~writing' => Contents(queue') \subseteq Saved' \cup Adding'
<1> SUFFICES ASSUME Persist, ~DiskFaults, phase' # "down"
             PROVE  Goal
  BY DEF FileSynced
<1> USE DEF FileSynced, Saved, Adding
<1>1. /\ Nobody \notin Threads /\ Main \in Threads
      /\ pc \in [Threads -> {"idle", "post", "enqueue", "requeue", "save"}]
      /\ queue \in Seq(Entry) /\ failed \in Seq(Entry)
  BY DEF QueueAssumption, DeliveryAssumption, Sound, Typed, TypeOK, QueueTypeOK
<1>2. \A t \in Threads : holder = t <=> pc[t] \in {"requeue", "save"}
  BY DEF Sound, Inductive, LockDiscipline
<1>3. ASSUME phase # "down", UNCHANGED queueVars, accepted \subseteq accepted', evicted' = evicted,
             pc'[Main] = "requeue" => pc[Main] = "requeue"
      PROVE  Goal
  BY <1>3
<1>4. ASSUME NEW t \in Threads, NEW p \in Payloads, Send(t, p) PROVE Goal
  <2>1. pc'[Main] = "requeue" => pc[Main] = "requeue"
    BY <1>1, <1>4, GotoType DEF Send
  <2> QED
    BY <1>3, <1>4, <2>1 DEF Send
<1>5. ASSUME NEW t \in Threads, PostOk(t) \/ PostError(t) \/ PostRaises(t) PROVE Goal
  <2>1. /\ UNCHANGED <<queueVars, phase, evicted>> /\ accepted \subseteq accepted'
        /\ Goto(t, "post", "idle") \/ Goto(t, "post", "enqueue")
    BY <1>5 DEF PostOk, PostError, PostRejected, PostUnacknowledged, PostRaises
  <2>2. pc'[Main] = "requeue" => pc[Main] = "requeue"
    BY <1>1, <2>1, GotoType
  <2> QED
    BY <1>3, <2>1, <2>2
<1>6. ASSUME NEW t \in Threads, EnqueueFailed(t) PROVE Goal
  <2> DEFINE e == NewEntry(job[t], 0)
  <2>1. /\ Goto(t, "enqueue", "save") /\ holder = Nobody /\ holder' = t /\ phase' = phase
        /\ queue' = Push(queue, e) /\ file' = file
        /\ accepted' = accepted /\ evicted' = evicted \cup Popped(queue)
    BY <1>6 DEF EnqueueFailed, Enqueue, Lock
  <2>2. pc[t] = "enqueue" /\ pc'[t] = "save" /\ \A u \in Threads : u # t => pc'[u] = pc[u]
    BY <1>1, <2>1, GotoType
  <2>3. pc'[Main] # "requeue"
    BY <1>1, <1>2, <2>1, <2>2
  <2>4. e \in Entry /\ e.payload = job[t]
    BY <2>2, NewEntryType DEF Sound, Typed, JobTyped
  <2> HIDE DEF e
  <2>5. Contents(queue') \subseteq Contents(file) \cup {e.payload}
    BY <1>1, <2>1, <2>4, PushProperties, QueueAssumption
  <2>6. queue' # <<>> /\ queue'[Len(queue')] = e
    <3>1. PICK q \in Seq(Entry) : queue' = Append(q, e)
      <4>1. Overflows(queue) => Tail(queue) \in Seq(Entry)
        BY <1>1, <2>4, PushProperties, ContentsHeadTail, QueueAssumption
      <4> QED
        BY <1>1, <2>1, <4>1 DEF Push
    <3> QED
      BY <2>4, <3>1
  <2>7. Adding' = {e.payload}
    BY <1>1, <2>1, <2>6
  <2> HIDE DEF Adding
  <2> QED
    BY <1>1, <2>1, <2>3, <2>5, <2>7
<1>7. ASSUME NEW t \in Threads, SaveBegin(t) PROVE Goal
  <2>1. holder = t /\ holder' = t /\ writing' = TRUE /\ pc[t] = "save" /\ pc' = pc
    BY <1>7 DEF SaveBegin, SaveOpen
  <2> QED
    BY <1>1, <1>2, <2>1
<1>8. ASSUME NEW t \in Threads, SaveEnd(t) PROVE Goal
  <2>1. file' = queue' /\ holder' = Nobody /\ Goto(t, "save", "idle") /\ holder = t
    BY <1>8 DEF SaveEnd, SaveReturn, SaveWrite, SaveFail, SaveSkip
  <2>2. pc[t] = "save" /\ pc'[t] = "idle" /\ \A u \in Threads : u # t => pc'[u] = pc[u]
    BY <1>1, <2>1, GotoType
  <2> QED
    BY <1>1, <1>2, <2>1, <2>2
<1>9. ASSUME RetryFlush \/ FinalFlush PROVE Goal
  <2>1. /\ phase # "down" /\ holder = Nobody /\ holder' = Main /\ Goto(Main, "idle", "save")
        /\ queue' = Rest(queue, BatchSize) /\ UNCHANGED <<file, accepted, evicted>>
    BY <1>9 DEF RetryFlush, FinalFlush, BeginFlush, Dequeue, Lock
  <2>2. pc'[Main] = "save"
    BY <1>1, <2>1, GotoType
  <2>3. Contents(queue') \subseteq Contents(queue)
    BY <1>1, <2>1, DequeueProperties, QueueAssumption
  <2> QED
    BY <1>1, <2>1, <2>2, <2>3
<1>10. CASE FlushRequeue
  <2>1. /\ flushing /\ holder = Nobody /\ holder' = Main
        /\ UNCHANGED <<queue, file, phase, accepted, evicted>>
    BY <1>10 DEF FlushRequeue, RequeueBegin, Lock
  <2> QED
    BY <1>1, <2>1
<1>11. CASE RequeueOne
  <2>1. /\ pc[Main] = "requeue" /\ failed # <<>> /\ holder = Main /\ holder' = Main
        /\ queue' = PutBack(queue, Head(failed))
        /\ UNCHANGED <<file, writing, phase, pc, accepted, evicted>>
    BY <1>1, <1>11 DEF RequeueOne, RequeueEntry
  <2>2. Head(failed) \in Entry /\ Head(failed).payload \in Contents(failed)
    BY <1>1, <2>1, ContentsHeadTail
  <2>3. Contents(queue') \subseteq Contents(queue) \cup {Head(failed).payload}
    BY <1>1, <2>1, <2>2, PutBackProperties
  <2>4. Contents(failed) \subseteq accepted \cup evicted \cup Contents(queue)
    BY DEF Sound, Inductive, FailedCovered
  <2>5. Contents(queue) \subseteq Saved
    BY <2>1
  <2>6. Contents(queue') \subseteq Saved'
    BY <2>1, <2>2, <2>3, <2>4, <2>5
  <2> QED
    BY <1>1, <2>1, <2>6
<1>12. CASE RequeueSave
  <2>1. /\ Goto(Main, "requeue", "save") /\ pc[Main] = "requeue"
        /\ UNCHANGED <<queueVars, phase, accepted, evicted>>
    BY <1>1, <1>12, GotoType DEF RequeueSave
  <2>2. pc'[Main] = "save"
    BY <1>1, <2>1, GotoType
  <2> QED
    BY <1>3, <2>1, <2>2
<1>13. CASE FlushPost \/ FlushReturn
  <2>1. pc'[Main] # "requeue" /\ UNCHANGED <<queueVars, phase, accepted, evicted>>
    BY <1>1, <1>13, GotoType DEF FlushPost, FlushReturn
  <2> QED
    BY <1>3, <2>1
<1>14. CASE Exit \/ Crash
  BY <1>14 DEF Exit, Crash, Gone
<1>15. CASE Start
  <2>1. phase = "down" /\ queue' = file /\ UNCHANGED <<file, pc>>
    BY <1>15 DEF Start, Load
  <2>2. pc[Main] = "idle"
    BY <1>1, <2>1 DEF Sound, Inductive, LockDiscipline
  <2> QED
    BY <2>1, <2>2
<1>16. CASE UNCHANGED vars
  BY <1>3, <1>16 DEF vars
<1> QED
  BY <1>4, <1>5, <1>6, <1>7, <1>8, <1>9, <1>10, <1>11, <1>12, <1>13, <1>14, <1>15, <1>16
     DEF Next, PostError

(* A crash costs what threads have in hand and the entry being added, and   *)
(* nothing else, unless it hits the save of a method; on a disk that takes *)
(* every write.                                                            *)
THEOREM BoundedLoss == Spec => []CrashLosesOnlyHands
<1>1. Init => Sound /\ FileSynced
  BY TypedInit, InductiveInit, QueueAssumption, DeliveryAssumption
  DEF Sound, Init, QueueInit, FileSynced, Saved, DeliveryAssumption
<1>2. Sound /\ FileSynced /\ [Next]_vars => Sound' /\ FileSynced'
  BY SoundNext, FileSyncedNext, QueueAssumption, DeliveryAssumption
<1>3. Sound /\ FileSynced => CrashLosesOnlyHands
  BY DEF Sound, Inductive, FileSynced, Saved, Conserved, CrashLosesOnlyHands, Live
<1> QED
  BY <1>1, <1>2, <1>3, PTL DEF Spec

-------------------------------------------------------------------------------
(* Delivery implements Outbox.  While the process runs, what it holds of    *)
(* the unsettled payloads is exactly its charge, so a step that leaves the *)
(* history variables alone leaves every status alone.                      *)
ChargeStatus(p) ==
  IF p \notin submitted THEN "new"
  ELSE IF p \in accepted THEN "delivered"
  ELSE IF p \in evicted THEN "discarded"
  ELSE IF p \in refused THEN "refused"
  ELSE IF p \in charge THEN "pending" ELSE "lost"

LEMMA StatusByCharge ==
  ASSUME Sound, phase # "down", NEW p
  PROVE  StatusOf(p) = ChargeStatus(p)
BY DEF Sound, Inductive, NothingInvented, Conserved, StatusOf, ChargeStatus, Held

LEMMA StatusByFile ==
  ASSUME phase = "down", NEW p
  PROVE  StatusOf(p) = IF p \notin submitted THEN "new"
                       ELSE IF p \in accepted THEN "delivered"
                       ELSE IF p \in evicted THEN "discarded"
                       ELSE IF p \in refused THEN "refused"
                       ELSE IF p \in Contents(file) THEN "pending" ELSE "lost"
BY DEF StatusOf, Held

(* A step of the running process that changes one payload's status. *)
LEMMA OneStatus ==
  ASSUME NEW x \in Payloads, phase # "down", phase' # "down",
         \A q \in Payloads : q # x => StatusOf(q)' = StatusOf(q),
         \/ StatusOf(x) = "new" /\ StatusOf(x)' = "pending"
         \/ /\ x \notin Unencodable
            /\ StatusOf(x) \in {"pending", "discarded"} /\ StatusOf(x)' = "delivered"
         \/ x \notin Unencodable /\ StatusOf(x) = "pending" /\ StatusOf(x)' = "discarded"
         \/ x \in Unencodable /\ StatusOf(x) = "pending" /\ StatusOf(x)' = "refused"
         \/ StatusOf(x)' = StatusOf(x)
  PROVE  Promise!Next \/ UNCHANGED <<[p \in Payloads |-> StatusOf(p)], phase # "down">>
<1> DEFINE S == [q \in Payloads |-> StatusOf(q)]
           T == [q \in Payloads |-> StatusOf(q)']
<1>1. \A s : StatusOf(x)' = s => T = [q \in Payloads |-> IF q \in {x} THEN s ELSE S[q]]
  OBVIOUS
<1>2. S[x] = StatusOf(x)
  OBVIOUS
<1>3. UNCHANGED (phase # "down")
  OBVIOUS
<1>4. CASE StatusOf(x)' = StatusOf(x)
  <2>1. T = S
    BY <1>4
  <2> QED
    BY <1>3, <2>1
<1>5. CASE StatusOf(x) = "new" /\ StatusOf(x)' = "pending"
  <2>1. Promise!Submit(x)
    BY <1>1, <1>2, <1>5 DEF Promise!Submit, Promise!Become
  <2> QED
    BY <1>3, <2>1 DEF Promise!Next
<1>6. CASE /\ x \notin Unencodable
           /\ StatusOf(x) \in {"pending", "discarded"} /\ StatusOf(x)' = "delivered"
  <2>1. Promise!Deliver(x)
    BY <1>1, <1>2, <1>6 DEF Promise!Deliver, Promise!Become
  <2> QED
    BY <1>3, <2>1 DEF Promise!Next
<1>7. CASE x \notin Unencodable /\ StatusOf(x) = "pending" /\ StatusOf(x)' = "discarded"
  <2>1. Promise!Discard(x)
    BY <1>1, <1>2, <1>7 DEF Promise!Discard, Promise!Become
  <2> QED
    BY <1>3, <2>1 DEF Promise!Next
<1>8. CASE x \in Unencodable /\ StatusOf(x) = "pending" /\ StatusOf(x)' = "refused"
  <2>1. Promise!Refuse(x)
    BY <1>1, <1>2, <1>8 DEF Promise!Refuse, Promise!Become
  <2> QED
    BY <1>3, <2>1 DEF Promise!Next
<1> QED
  BY <1>4, <1>5, <1>6, <1>7, <1>8

LEMMA PromiseInit ==
  ASSUME Init
  PROVE  Promise!Init
<1>1. \A p \in Payloads : StatusOf(p) = "new"
  BY DEF Init, StatusOf
<1> QED
  BY <1>1 DEF Promise!Init, Init

(* Every step of Delivery is a step of Outbox or leaves it alone. *)
LEMMA PromiseNext ==
  ASSUME Sound, Sound', [Next]_vars, QueueAssumption, DeliveryAssumption
  PROVE  Promise!Next \/ UNCHANGED <<[p \in Payloads |-> StatusOf(p)], phase # "down">>
<1> DEFINE Goal == Promise!Next \/ UNCHANGED <<[p \in Payloads |-> StatusOf(p)], phase # "down">>
<1>1. phase # "down" => \A p : StatusOf(p) = ChargeStatus(p)
  BY StatusByCharge
<1>2. phase' # "down" => \A p : StatusOf(p)' = ChargeStatus(p)'
  <2> SUFFICES ASSUME phase' # "down", NEW p PROVE StatusOf(p)' = ChargeStatus(p)'
    OBVIOUS
  <2> QED
    BY DEF Sound, Inductive, NothingInvented, Conserved, StatusOf, ChargeStatus, Held
<1>3. ASSUME phase # "down", phase' # "down", UNCHANGED histVars PROVE Goal
  <2>1. \A p : StatusOf(p)' = StatusOf(p)
    BY <1>1, <1>2, <1>3 DEF ChargeStatus
  <2> QED
    BY <1>3, <2>1
<1>4. ASSUME NEW t \in Threads, NEW p \in Payloads, Send(t, p) PROVE Goal
  <2>1. /\ phase # "down" /\ phase' # "down" /\ p \notin submitted
        /\ submitted' = submitted \cup {p} /\ charge' = charge \cup {p}
        /\ UNCHANGED <<accepted, evicted, refused>>
    BY <1>4 DEF Send
  <2>2. p \notin accepted \cup evicted \cup refused
    BY <2>1 DEF Sound, Inductive, NothingInvented
  <2>3. StatusOf(p) = "new" /\ StatusOf(p)' = "pending"
    BY <1>1, <1>2, <2>1, <2>2 DEF ChargeStatus
  <2>4. \A q \in Payloads : q # p => StatusOf(q)' = StatusOf(q)
    BY <1>1, <1>2, <2>1 DEF ChargeStatus
  <2> QED
    BY <2>1, <2>3, <2>4, OneStatus
<1>5. ASSUME NEW t \in Threads, PostOk(t) \/ PostError(t) PROVE Goal
  <2>1. /\ pc[t] = "post"
        /\ accepted' = accepted \/ accepted' = accepted \cup {job[t]}
        /\ UNCHANGED <<phase, submitted, charge, evicted, refused>>
        /\ job[t] \notin Unencodable
    BY <1>5 DEF PostOk, PostError, PostRejected, PostUnacknowledged, Goto
  <2>2. phase # "down" /\ phase' # "down"
    BY <2>1 DEF Sound, Inductive, LockDiscipline
  <2>3. CASE accepted' = accepted
    BY <1>3, <2>1, <2>2, <2>3
  <2>4. CASE accepted' = accepted \cup {job[t]}
    <3>1. job[t] \in Payloads /\ job[t] # NoPayload
      BY <2>1 DEF Sound, Typed, JobTyped, Inductive, JobDiscipline
    <3>2. job[t] \in charge /\ job[t] \in submitted
      BY <3>1 DEF Sound, Inductive, NothingInvented, Live, InHand, Posting
    <3>3. \A q \in Payloads : q # job[t] => StatusOf(q)' = StatusOf(q)
      BY <1>1, <1>2, <2>1, <2>2, <2>4 DEF ChargeStatus
    <3>9. job[t] \notin refused
      BY <2>1 DEF Sound, Inductive, Conserved
    <3>4. StatusOf(job[t]) \in {"pending", "discarded", "delivered"}
      BY <1>1, <2>2, <3>2, <3>9 DEF ChargeStatus
    <3>5. \A q : q = job[t] => StatusOf(q)' = "delivered"
      BY <1>2, <2>1, <2>2, <2>4, <3>2 DEF ChargeStatus
    <3>6. PICK p \in Payloads : p = job[t]
      BY <3>1
    <3>7. /\ StatusOf(p) \in {"pending", "discarded", "delivered"} /\ StatusOf(p)' = "delivered"
          /\ p \notin Unencodable
          /\ \A q \in Payloads : q # p => StatusOf(q)' = StatusOf(q)
      BY <2>1, <3>3, <3>4, <3>5, <3>6
    <3> QED
      BY <2>2, <3>7, OneStatus
  <2> QED
    BY <2>1, <2>3, <2>4
<1>13. ASSUME NEW t \in Threads, PostRaises(t) PROVE Goal
  <2>1. /\ pc[t] = "post" /\ refused' = refused \cup {job[t]} /\ job[t] \in Unencodable
        /\ UNCHANGED <<phase, submitted, charge, accepted, evicted>>
    BY <1>13 DEF PostRaises, Goto
  <2>2. phase # "down" /\ phase' # "down"
    BY <2>1 DEF Sound, Inductive, LockDiscipline
  <2>3. job[t] \in Payloads /\ job[t] # NoPayload
    BY <2>1 DEF Sound, Typed, JobTyped, Inductive, JobDiscipline
  <2>4. job[t] \in charge /\ job[t] \in submitted
    BY <2>3 DEF Sound, Inductive, NothingInvented, Live, InHand, Posting
  <2>5. job[t] \notin accepted \cup evicted
    BY <2>1 DEF Sound, Inductive, NeverQueued
  <2>6. PICK p \in Payloads : p = job[t]
    BY <2>3
  <2>7. \A q \in Payloads : q # p => StatusOf(q)' = StatusOf(q)
    BY <1>1, <1>2, <2>1, <2>2, <2>6 DEF ChargeStatus
  <2>8. /\ StatusOf(p) \in {"pending", "refused"} /\ StatusOf(p)' = "refused"
        /\ p \in Unencodable
    BY <1>1, <1>2, <2>1, <2>2, <2>4, <2>5, <2>6 DEF ChargeStatus
  <2> QED
    BY <2>2, <2>7, <2>8, OneStatus
<1>6. ASSUME NEW t \in Threads, EnqueueFailed(t) PROVE Goal
  <2>1. /\ pc[t] = "enqueue" /\ evicted' = evicted \cup Popped(queue)
        /\ UNCHANGED <<phase, submitted, charge, accepted, refused>>
    BY <1>6 DEF EnqueueFailed, Goto
  <2>2. phase # "down" /\ phase' # "down"
    BY <2>1 DEF Sound, Inductive, LockDiscipline
  <2>3. CASE ~Overflows(queue)
    <3>1. evicted' = evicted
      BY <2>1, <2>3 DEF Popped
    <3> QED
      BY <1>3, <2>1, <2>2, <3>1
  <2>4. CASE Overflows(queue)
    <3>1. queue \in Seq(Entry) /\ queue # <<>>
      BY <2>4, EmptySeq DEF Overflows, QueueAssumption, Sound, Typed, TypeOK, QueueTypeOK
    <3>2. PICK p \in Payloads : p = Head(queue).payload
      BY <3>1, ContentsHeadTail DEF Entry
    <3>3. p \in charge /\ p \in submitted
      BY <3>1, <3>2, ContentsHeadTail DEF Sound, Inductive, NothingInvented, Live
    <3>7. p \notin Unencodable /\ p \notin refused
      BY <3>1, <3>2, ContentsHeadTail DEF Sound, Inductive, NeverQueued, Conserved
    <3>4. evicted' = evicted \cup {p}
      BY <2>1, <2>4, <3>2 DEF Popped
    <3>5. \A q \in Payloads : q # p => StatusOf(q)' = StatusOf(q)
      BY <1>1, <1>2, <2>1, <2>2, <3>4 DEF ChargeStatus
    <3>6. \/ StatusOf(p) = "pending" /\ StatusOf(p)' = "discarded"
          \/ StatusOf(p)' = StatusOf(p)
      BY <1>1, <1>2, <2>1, <2>2, <3>3, <3>4, <3>7 DEF ChargeStatus
    <3> QED
      BY <2>2, <3>5, <3>6, <3>7, OneStatus
  <2> QED
    BY <2>3, <2>4
<1>7. ASSUME NEW t \in Threads, SaveBegin(t) \/ SaveEnd(t) PROVE Goal
  <2>1. pc[t] = "save" /\ UNCHANGED <<phase, histVars>>
    BY <1>7 DEF SaveBegin, SaveEnd, Goto
  <2>2. phase # "down"
    BY <2>1 DEF Sound, Inductive, LockDiscipline
  <2> QED
    BY <1>3, <2>1, <2>2
<1>8. ASSUME RetryFlush \/ FinalFlush PROVE Goal
  <2>1. phase # "down" /\ phase' # "down" /\ UNCHANGED histVars
    BY <1>8 DEF RetryFlush, FinalFlush, BeginFlush
  <2> QED
    BY <1>3, <2>1
<1>9. ASSUME FlushPost \/ FlushRequeue \/ RequeueOne \/ RequeueSave \/ FlushReturn PROVE Goal
  <2>1. (flushing \/ pc[Main] = "requeue") /\ UNCHANGED <<phase, histVars>>
    BY <1>9 DEF FlushPost, FlushRequeue, RequeueOne, RequeueSave, FlushReturn, Goto
  <2>2. phase # "down"
    BY <2>1 DEF Sound, Inductive, LockDiscipline, DeliveryAssumption
  <2> QED
    BY <1>3, <2>1, <2>2
<1>10. ASSUME Exit \/ Crash PROVE Goal
  <2>1. /\ phase # "down" /\ phase' = "down" /\ UNCHANGED <<file, histVars>>
    BY <1>10 DEF Exit, Crash, Gone, Vanish
  <2>2. Contents(file) \subseteq charge
    BY DEF Sound, Inductive, NothingInvented
  <2> DEFINE P == { p \in Payloads : StatusOf(p) = "pending" /\ p \notin Contents(file) }
  <2>3. \A p \in Payloads : StatusOf(p)' = IF p \in P THEN "lost" ELSE StatusOf(p)
    <3> SUFFICES ASSUME NEW p \in Payloads
                 PROVE  StatusOf(p)' = IF p \in P THEN "lost" ELSE StatusOf(p)
      OBVIOUS
    <3>1. StatusOf(p)' = IF p \notin submitted THEN "new"
                         ELSE IF p \in accepted THEN "delivered"
                         ELSE IF p \in evicted THEN "discarded"
                         ELSE IF p \in refused THEN "refused"
                         ELSE IF p \in Contents(file) THEN "pending" ELSE "lost"
      BY <2>1 DEF StatusOf, Held
    <3>2. StatusOf(p) = ChargeStatus(p)
      BY <1>1, <2>1
    <3> QED
      BY <2>2, <3>1, <3>2 DEF ChargeStatus
  <2>4. P \in SUBSET { p \in Payloads : StatusOf(p) = "pending" }
    OBVIOUS
  <2> HIDE DEF P
  <2>5. Promise!Become(P, "lost")
    BY <2>3 DEF Promise!Become
  <2>6. Promise!Die
    BY <2>1, <2>4, <2>5 DEF Promise!Die
  <2> QED
    BY <2>6 DEF Promise!Next
<1>11. ASSUME Start PROVE Goal
  <2>1. /\ phase = "down" /\ phase' # "down" /\ charge' = Contents(file)
        /\ UNCHANGED <<submitted, accepted, evicted, refused>>
    BY <1>11 DEF Start
  <2>2. \A p : StatusOf(p)' = StatusOf(p)
    BY <1>2, <2>1, StatusByFile DEF ChargeStatus
  <2>3. Promise!Revive
    BY <2>1, <2>2 DEF Promise!Revive
  <2> QED
    BY <2>3 DEF Promise!Next
<1>12. ASSUME UNCHANGED vars PROVE Goal
  <2>1. UNCHANGED <<phase, file, queue, batch, failed, job, submitted, accepted, evicted, refused>>
    BY <1>12 DEF vars
  <2>2. \A p : StatusOf(p)' = StatusOf(p)
    BY <2>1 DEF StatusOf, Held, Live, InHand, Posting
  <2> QED
    BY <2>1, <2>2
<1> QED
  BY <1>4, <1>5, <1>6, <1>7, <1>8, <1>9, <1>10, <1>11, <1>12, <1>13
     DEF Next, PostError

(* Delivery implements Outbox for every instance: once handed over, a       *)
(* payload stays pending until it is delivered, evicted or, when JSON       *)
(* cannot express it, refused; only the death of the process loses others. *)
THEOREM Refinement == Spec => KeepsPromise
<1>1. Init => Sound /\ Promise!Init
  BY TypedInit, InductiveInit, PromiseInit, QueueAssumption, DeliveryAssumption DEF Sound
<1>2. Sound /\ [Next]_vars => Sound'
  BY SoundNext, QueueAssumption, DeliveryAssumption
<1>3. Sound /\ Sound' /\ [Next]_vars =>
        [Promise!Next]_<<[p \in Payloads |-> StatusOf(p)], phase # "down">>
  BY PromiseNext, QueueAssumption, DeliveryAssumption
<1>4. Spec => Promise!Init /\ [][Promise!Next]_<<[p \in Payloads |-> StatusOf(p)], phase # "down">>
  BY <1>1, <1>2, <1>3, PTL DEF Spec
<1> QED
  BY <1>4, PTL DEF KeepsPromise, Promise!Spec

-------------------------------------------------------------------------------
(***************************************************************************)
(* Any callers (QueueClients).  The lock gives a method the queue to       *)
(* itself, so that a step is one of a few effects on the queue, on a       *)
(* consumer's hands and on the file; each part of the invariant is kept by *)
(* each effect.                                                            *)
(***************************************************************************)
USE QueueAssumption, ClientAssumption DEF QueueAssumption, ClientAssumption

ClientTyped ==
  /\ QueueTypeOK
  /\ up \in BOOLEAN
  /\ at \in [Threads -> {"idle", "requeue", "save"}]
  /\ hands \in [Threads -> Seq(Entry)]
  /\ clock \in Nat

\* Who is inside a method holds the lock; a process that is down holds nothing;
\* no file is open without a path.
Exclusive ==
  /\ writing => Persist
  /\ \A t \in Threads : at[t] # "idle" <=> holder = t
  /\ ~up => /\ holder = Nobody /\ queue = <<>>
            /\ \A t \in Threads : hands[t] = <<>>

-------------------------------------------------------------------------------
(* The effects. *)

Adds ==
  /\ \E p \in Payloads : queue' = Push(queue, NewEntry(p, clock))
  /\ clock' = clock + 1
  /\ UNCHANGED <<file, hands>>

Hands(t) ==
  /\ hands[t] = <<>>
  /\ queue' = Rest(queue, BatchSize)
  /\ hands' = [hands EXCEPT ![t] = Front(queue, BatchSize)]
  /\ UNCHANGED <<file, clock>>

Settles(t) ==
  /\ \E i \in 1 .. Len(hands[t]) : hands' = [hands EXCEPT ![t] = Without(hands[t], i)]
  /\ UNCHANGED <<queue, file, clock>>

GivesBack(t) ==
  /\ hands[t] # <<>>
  /\ queue' = PutBack(queue, Head(hands[t]))
  /\ hands' = [hands EXCEPT ![t] = Tail(hands[t])]
  /\ UNCHANGED <<file, clock>>

\* clear(), or the process's end.
Empties ==
  /\ queue' = <<>>
  /\ hands' = hands \/ hands' = [t \in Threads |-> <<>>]
  /\ UNCHANGED <<file, clock>>

Saves ==
  /\ file' \in {file, <<>>, queue}
  /\ UNCHANGED <<queue, hands, clock>>

Reloads ==
  /\ \A t \in Threads : hands[t] = <<>>
  /\ queue' = file
  /\ UNCHANGED <<file, hands, clock>>

(* Every step has one of them. *)
LEMMA Effects ==
  ASSUME ClientTyped, Exclusive, [ClientNext]_clientVars
  PROVE  \/ Adds \/ Empties \/ Saves \/ Reloads
         \/ \E t \in Consumers : Hands(t) \/ Settles(t) \/ GivesBack(t)
<1> USE DEF Go, Lock, queueVars
<1>1. ASSUME NEW t \in Threads, NEW p \in Payloads, CallEnqueue(t, p) PROVE Adds
  BY <1>1 DEF CallEnqueue, Enqueue, Adds
<1>2. ASSUME NEW t \in Threads, CallClear(t) PROVE Empties
  BY <1>2 DEF CallClear, Clear, Empties
<1>3. ASSUME NEW t \in Threads, BeginSave(t) \/ EndSave(t) PROVE Saves
  BY <1>3 DEF BeginSave, SaveOpen, EndSave, SaveReturn, SaveWrite, SaveFail, SaveSkip, Saves
<1>4. ASSUME NEW t \in Consumers, CallDequeue(t) PROVE Hands(t)
  BY <1>4 DEF CallDequeue, Dequeue, Hands
<1>5. ASSUME NEW t \in Consumers, NEW i \in DOMAIN hands[t], Settle(t, i) PROVE Settles(t)
  <2>1. i \in 1 .. Len(hands[t])
    BY <1>5, LenProperties DEF ClientTyped
  <2> QED
    BY <1>5, <2>1 DEF Settle, Settles, Without
<1>6. ASSUME NEW t \in Consumers, CallRequeue(t) \/ RequeueEnd(t) PROVE Saves
  BY <1>6 DEF CallRequeue, RequeueBegin, RequeueEnd, Saves
<1>7. ASSUME NEW t \in Consumers, RequeueNext(t) PROVE GivesBack(t)
  BY <1>7 DEF RequeueNext, RequeueEntry, GivesBack
<1>8. CASE Kill
  BY <1>8 DEF Kill, Vanish, Empties
<1>9. CASE Restart
  BY <1>9 DEF Restart, Load, Exclusive, Reloads
<1>10. CASE UNCHANGED clientVars
  BY <1>10 DEF clientVars, Saves
<1> QED
  BY <1>1, <1>2, <1>3, <1>4, <1>5, <1>6, <1>7, <1>8, <1>9, <1>10 DEF ClientNext

(* Every effect is well typed. *)
LEMMA EffectsTyped ==
  ASSUME ClientTyped, Exclusive, [ClientNext]_clientVars
  PROVE  /\ queue' \in Seq(Entry) /\ file' \in Seq(Entry)
         /\ hands' \in [Threads -> Seq(Entry)] /\ clock' \in Nat
<1> USE DEF ClientTyped, QueueTypeOK
<1>1. CASE Adds
  <2>1. PICK p \in Payloads : queue' = Push(queue, NewEntry(p, clock))
    BY <1>1 DEF Adds
  <2>2. NewEntry(p, clock) \in Entry
    BY DEF NewEntry, Entry
  <2> QED
    BY <1>1, <2>1, <2>2, PushProperties DEF Adds
<1>2. ASSUME NEW t \in Consumers, Hands(t)
      PROVE  queue' \in Seq(Entry) /\ hands' \in [Threads -> Seq(Entry)]
  BY <1>2, DequeueProperties DEF Hands
<1>3. ASSUME NEW t \in Consumers, Settles(t) PROVE hands' \in [Threads -> Seq(Entry)]
  <2>1. PICK i \in 1 .. Len(hands[t]) : hands' = [hands EXCEPT ![t] = Without(hands[t], i)]
    BY <1>3 DEF Settles
  <2> QED
    BY <2>1, WithoutStamps
<1>4. ASSUME NEW t \in Consumers, GivesBack(t)
      PROVE  queue' \in Seq(Entry) /\ hands' \in [Threads -> Seq(Entry)]
  <2>1. Head(hands[t]) \in Entry /\ Tail(hands[t]) \in Seq(Entry)
    BY <1>4, ContentsHeadTail DEF GivesBack
  <2> QED
    BY <1>4, <2>1, PutBackProperties DEF GivesBack
<1>0. <<>> \in Seq(Entry)
  BY EmptySeq
<1>5. CASE Empties
  <2>1. [t \in Threads |-> <<>>] \in [Threads -> Seq(Entry)]
    BY <1>0
  <2> QED
    BY <1>0, <1>5, <2>1 DEF Empties
<1>9. CASE Saves \/ Reloads
  BY <1>0, <1>9 DEF Saves, Reloads
<1>6. (\E t \in Consumers : Hands(t) \/ Settles(t) \/ GivesBack(t)) =>
        UNCHANGED <<file, clock>>
  BY DEF Hands, Settles, GivesBack
<1>7. ASSUME NEW t \in Consumers, Settles(t) PROVE queue' = queue
  BY <1>7 DEF Settles
<1>8. CASE \E t \in Consumers : Hands(t) \/ Settles(t) \/ GivesBack(t)
  BY <1>2, <1>3, <1>4, <1>6, <1>7, <1>8
<1> QED
  BY <1>1, <1>5, <1>8, <1>9, Effects

-------------------------------------------------------------------------------
(* The lock, and the file when it is free. *)

\* Every step keeps the types, the lock's discipline and the file in step.
LEMMA LockStep ==
  ASSUME ClientTyped, Exclusive, FileInSync, [ClientNext]_clientVars
  PROVE  ClientTyped' /\ Exclusive' /\ FileInSync'
<1> USE DEF ClientTyped, QueueTypeOK, Exclusive, FileInSync, Go, Lock, queueVars
<1>0. /\ queue' \in Seq(Entry) /\ file' \in Seq(Entry)
      /\ hands' \in [Threads -> Seq(Entry)] /\ clock' \in Nat
  BY EffectsTyped
<1>1. ASSUME NEW t \in Threads, NEW p \in Payloads, CallEnqueue(t, p)
      PROVE  ClientTyped' /\ Exclusive' /\ FileInSync'
  BY <1>1, <1>0 DEF CallEnqueue, Enqueue
<1>2. ASSUME NEW t \in Threads, CallClear(t) PROVE ClientTyped' /\ Exclusive' /\ FileInSync'
  BY <1>2, <1>0 DEF CallClear, Clear
<1>3. ASSUME NEW t \in Threads, BeginSave(t) PROVE ClientTyped' /\ Exclusive' /\ FileInSync'
  BY <1>3, <1>0 DEF BeginSave, SaveOpen
<1>4. ASSUME NEW t \in Threads, EndSave(t) PROVE ClientTyped' /\ Exclusive' /\ FileInSync'
  <2>1. /\ holder = t /\ holder' = Nobody /\ up' = up /\ queue' = queue /\ hands' = hands
        /\ at' = [at EXCEPT ![t] = "idle"]
        /\ writing' => Persist
        /\ writing' = FALSE
        /\ Persist /\ ~DiskFaults => file' = queue
    BY <1>4 DEF EndSave, SaveReturn, SaveWrite, SaveFail, SaveSkip
  <2> QED
    BY <2>1, <1>0
<1>5. ASSUME NEW t \in Consumers, CallDequeue(t) PROVE ClientTyped' /\ Exclusive' /\ FileInSync'
  BY <1>5, <1>0 DEF CallDequeue, Dequeue
<1>6. ASSUME NEW t \in Consumers, NEW i \in DOMAIN hands[t], Settle(t, i)
      PROVE  ClientTyped' /\ Exclusive' /\ FileInSync'
  BY <1>6, <1>0 DEF Settle
<1>7. ASSUME NEW t \in Consumers, CallRequeue(t) PROVE ClientTyped' /\ Exclusive' /\ FileInSync'
  BY <1>7, <1>0 DEF CallRequeue, RequeueBegin
<1>12. ASSUME NEW t \in Consumers, RequeueEnd(t) PROVE ClientTyped' /\ Exclusive' /\ FileInSync'
  BY <1>12, <1>0 DEF RequeueEnd
<1>8. ASSUME NEW t \in Consumers, RequeueNext(t) PROVE ClientTyped' /\ Exclusive' /\ FileInSync'
  <2>1. holder = t /\ t \in Threads /\ up /\ UNCHANGED <<up, at, holder, writing, file>>
    BY <1>8 DEF RequeueNext, RequeueEntry
  <2> QED
    BY <2>1, <1>0
<1>9. CASE Kill
  BY <1>9, <1>0 DEF Kill, Vanish
<1>10. CASE Restart
  BY <1>10, <1>0 DEF Restart, Load
<1>11. CASE UNCHANGED clientVars
  BY <1>11 DEF clientVars
<1> QED
  BY <1>1, <1>2, <1>3, <1>4, <1>5, <1>6, <1>7, <1>8, <1>9, <1>10, <1>11,
     <1>12 DEF ClientNext

-------------------------------------------------------------------------------
(* Room for what the consumers hold is not given away: enqueue() fills the *)
(* queue up to max_size only, whatever they still hold.                    *)
HandsHeld(h) == { x \in Consumers \X (1 .. BatchSize) : x[2] <= Len(h[x[1]]) }
Cap == Cardinality(Consumers) * BatchSize

Counted ==
  /\ \A t \in Consumers : Len(hands[t]) <= BatchSize
  /\ Len(queue) + Cardinality(HandsHeld(hands)) <= MaxSize + Cap
  /\ Len(file) <= MaxSize + Cap

\* 1 to n are n numbers.
LEMMA IntervalSize ==
  ASSUME NEW n \in Nat
  PROVE  IsFiniteSet(1 .. n) /\ Cardinality(1 .. n) = n
BY FS_Interval

\* What consumers hold is at most a batch each.
LEMMA HeldFinite ==
  /\ Cap \in Nat
  /\ \A h : IsFiniteSet(HandsHeld(h)) /\ Cardinality(HandsHeld(h)) \in 0 .. Cap
<1>1. /\ IsFiniteSet(1 .. BatchSize) /\ Cardinality(1 .. BatchSize) = BatchSize
      /\ Cardinality(Consumers) \in Nat /\ BatchSize \in Nat
  BY IntervalSize, FS_CardinalityType
<1>2. /\ IsFiniteSet(Consumers \X (1 .. BatchSize))
      /\ Cardinality(Consumers \X (1 .. BatchSize)) = Cap
  BY <1>1, FS_Product DEF Cap
<1>3. Cap \in Nat
  BY <1>2, FS_CardinalityType
<1>4. ASSUME NEW h PROVE IsFiniteSet(HandsHeld(h)) /\ Cardinality(HandsHeld(h)) \in 0 .. Cap
  <2>1. HandsHeld(h) \in SUBSET (Consumers \X (1 .. BatchSize))
    BY DEF HandsHeld
  <2>2. IsFiniteSet(HandsHeld(h)) /\ Cardinality(HandsHeld(h)) <= Cap
    BY <1>2, <2>1, FS_Subset
  <2> QED
    BY <1>3, <2>2, FS_CardinalityType
<1> QED
  BY <1>3, <1>4

(* A consumer with one entry less. *)
LEMMA HeldLess ==
  ASSUME NEW h \in [Threads -> Seq(Entry)], NEW t \in Consumers, NEW s \in Seq(Entry),
         Len(h[t]) \in 1 .. BatchSize, Len(s) = Len(h[t]) - 1
  PROVE  Cardinality(HandsHeld([h EXCEPT ![t] = s])) = Cardinality(HandsHeld(h)) - 1
<1> DEFINE x == <<t, Len(h[t])>>
           g == [h EXCEPT ![t] = s]
<1>1. x \in HandsHeld(h)
  BY DEF HandsHeld
<1>2. \A u \in Consumers : g[u] = IF u = t THEN s ELSE h[u]
  OBVIOUS
<1> HIDE DEF g
<1>3. HandsHeld(g) = HandsHeld(h) \ {x}
  <2>1. ASSUME NEW u \in Consumers, NEW i \in 1 .. BatchSize
        PROVE  <<u, i>> \in HandsHeld(g) <=> <<u, i>> \in HandsHeld(h) \ {x}
    <3>1. /\ <<u, i>> \in HandsHeld(g) <=> i <= Len(g[u])
          /\ <<u, i>> \in HandsHeld(h) <=> i <= Len(h[u])
          /\ <<u, i>> = x <=> u = t /\ i = Len(h[t])
      BY DEF HandsHeld
    <3> QED
      BY <1>2, <3>1
  <2> QED
    BY <2>1 DEF HandsHeld
<1>4. Cardinality(HandsHeld(h) \ {x}) = Cardinality(HandsHeld(h)) - 1
  <2> HIDE DEF x
  <2> QED
    BY <1>1, HeldFinite, FS_RemoveElement
<1> QED
  BY <1>3, <1>4 DEF g

(* A consumer with a batch in its empty hands. *)
LEMMA HeldMore ==
  ASSUME NEW h \in [Threads -> Seq(Entry)], NEW t \in Consumers, NEW s \in Seq(Entry),
         h[t] = <<>>, Len(s) <= BatchSize
  PROVE  Cardinality(HandsHeld([h EXCEPT ![t] = s])) = Cardinality(HandsHeld(h)) + Len(s)
<1> DEFINE g == [h EXCEPT ![t] = s]
           B == {t} \X (1 .. Len(s))
<1>1. \A u \in Consumers : g[u] = IF u = t THEN s ELSE h[u]
  OBVIOUS
<1>2. Len(s) \in Nat /\ Len(h[t]) = 0
  BY LenProperties, EmptySeq
<1> HIDE DEF g
<1>3. HandsHeld(g) = HandsHeld(h) \cup B /\ HandsHeld(h) \cap B = {}
  <2>1. ASSUME NEW u \in Consumers, NEW i \in 1 .. BatchSize
        PROVE  /\ <<u, i>> \in HandsHeld(g) <=> <<u, i>> \in HandsHeld(h) \cup B
               /\ ~(<<u, i>> \in HandsHeld(h) /\ <<u, i>> \in B)
    <3>1. /\ <<u, i>> \in HandsHeld(g) <=> i <= Len(g[u])
          /\ <<u, i>> \in HandsHeld(h) <=> i <= Len(h[u])
          /\ <<u, i>> \in B <=> u = t /\ i <= Len(s)
      BY <1>2 DEF HandsHeld
    <3> QED
      BY <1>1, <1>2, <3>1
  <2>2. B \subseteq Consumers \X (1 .. BatchSize)
    BY <1>2
  <2> QED
    BY <2>1, <2>2 DEF HandsHeld
<1>4. IsFiniteSet(B) /\ Cardinality(B) = Len(s)
  <2>1. /\ IsFiniteSet(1 .. Len(s)) /\ Cardinality(1 .. Len(s)) = Len(s)
        /\ IsFiniteSet({t}) /\ Cardinality({t}) = 1
    BY <1>2, IntervalSize, FS_Singleton
  <2>2. Cardinality(B) = 1 * Len(s) /\ IsFiniteSet(B)
    BY <2>1, FS_Product
  <2> QED
    BY <1>2, <2>2
<1> HIDE DEF B
<1>5. Cardinality(HandsHeld(g)) = Cardinality(HandsHeld(h)) + Len(s) - 0
  BY <1>3, <1>4, HeldFinite, FS_Union, FS_EmptySet
<1> QED
  BY <1>2, <1>5, HeldFinite DEF g

\* Empty hands hold nothing.
LEMMA HeldNothing ==
  ASSUME NEW h \in [Threads -> Seq(Entry)], \A t \in Consumers : h[t] = <<>>
  PROVE  Cardinality(HandsHeld(h)) = 0
<1>1. HandsHeld(h) = {}
  <2>1. \A t \in Consumers : Len(h[t]) = 0
    BY EmptySeq
  <2> QED
    BY <2>1 DEF HandsHeld
<1> QED
  BY <1>1, FS_EmptySet

\* No step gives away the room of what is held.
LEMMA CountedStep ==
  ASSUME ClientTyped, Exclusive, Counted, [ClientNext]_clientVars
  PROVE  Counted'
<1> USE DEF Counted
<1>1. /\ queue \in Seq(Entry) /\ file \in Seq(Entry) /\ hands \in [Threads -> Seq(Entry)]
      /\ Len(queue) \in Nat /\ Len(file) \in Nat /\ \A t \in Threads : Len(hands[t]) \in Nat
      /\ Cap \in Nat /\ MaxSize \in Nat /\ BatchSize \in Nat /\ clock \in Nat
      /\ \A h : Cardinality(HandsHeld(h)) \in 0 .. Cap
  BY LenProperties, HeldFinite DEF ClientTyped, QueueTypeOK
<1>2. CASE Adds
  <2>1. PICK p \in Payloads : queue' = Push(queue, NewEntry(p, clock))
    BY <1>2 DEF Adds
  <2>2. NewEntry(p, clock) \in Entry
    BY <1>1 DEF NewEntry, Entry
  <2>3. Len(queue') = Len(queue) \/ (Len(queue') = Len(queue) + 1 /\ Len(queue) < MaxSize)
    BY <1>1, <2>1, <2>2, PushProperties
  <2>4. UNCHANGED <<file, hands>>
    BY <1>2 DEF Adds
  <2> QED
    BY <1>1, <2>3, <2>4
<1>3. ASSUME NEW t \in Consumers, Hands(t) PROVE Counted'
  <2> DEFINE b == Front(queue, BatchSize)
             q == Rest(queue, BatchSize)
  <2>1. /\ b \in Seq(Entry) /\ Len(b) \in Nat /\ Len(b) <= BatchSize
        /\ Len(q) + Len(b) = Len(queue) /\ Len(q) \in Nat
    BY <1>1, DequeueProperties
  <2>2. /\ hands[t] = <<>> /\ queue' = q /\ hands' = [hands EXCEPT ![t] = b]
        /\ file' = file
    BY <1>3 DEF Hands
  <2> HIDE DEF b, q
  <2>3. Cardinality(HandsHeld(hands')) = Cardinality(HandsHeld(hands)) + Len(b)
    BY <1>1, <2>1, <2>2, HeldMore
  <2>4. \A u \in Consumers : Len(hands'[u]) <= BatchSize
    BY <1>1, <2>1, <2>2
  <2> QED
    BY <1>1, <2>1, <2>2, <2>3, <2>4
<1>4. ASSUME NEW t \in Consumers, NEW s \in Seq(Entry),
             Len(hands[t]) # 0, Len(s) = Len(hands[t]) - 1,
             hands' = [hands EXCEPT ![t] = s], file' = file,
             Len(queue') <= Len(queue) + 1, Len(queue') \in Nat
      PROVE  Counted'
  <2>3. Len(hands[t]) \in 1 .. BatchSize
    BY <1>1, <1>4
  <2>1. Cardinality(HandsHeld(hands')) = Cardinality(HandsHeld(hands)) - 1
    BY <1>1, <1>4, <2>3, HeldLess
  <2>2. \A u \in Consumers : Len(hands'[u]) <= BatchSize
    BY <1>1, <1>4
  <2> QED
    BY <1>1, <1>4, <2>1, <2>2
<1>5. ASSUME NEW t \in Consumers, Settles(t) PROVE Counted'
  <2>1. PICK i \in 1 .. Len(hands[t]) : hands' = [hands EXCEPT ![t] = Without(hands[t], i)]
    BY <1>5 DEF Settles
  <2>2. hands[t] \in Seq(Entry) /\ Len(hands[t]) # 0
    BY <1>1
  <2>3. Without(hands[t], i) \in Seq(Entry) /\ Len(Without(hands[t], i)) = Len(hands[t]) - 1
    BY <2>2, WithoutStamps
  <2>4. queue' = queue /\ file' = file
    BY <1>5 DEF Settles
  <2>5. Len(queue') \in Nat /\ Len(queue') <= Len(queue) + 1
    BY <1>1, <2>4
  <2> QED
    BY <1>4, <2>1, <2>2, <2>3, <2>4, <2>5
<1>6. ASSUME NEW t \in Consumers, GivesBack(t) PROVE Counted'
  <2>1. /\ hands[t] \in Seq(Entry) /\ hands[t] # <<>> /\ queue' = PutBack(queue, Head(hands[t]))
        /\ hands' = [hands EXCEPT ![t] = Tail(hands[t])] /\ file' = file
    BY <1>1, <1>6 DEF GivesBack
  <2>2. /\ Tail(hands[t]) \in Seq(Entry) /\ Head(hands[t]) \in Entry
        /\ Len(Tail(hands[t])) = Len(hands[t]) - 1 /\ Len(hands[t]) # 0
    BY <2>1, ContentsHeadTail
  <2>3. queue' \in Seq(Entry) /\ Len(queue') <= Len(queue) + 1
    BY <1>1, <2>1, <2>2, PutBackProperties
  <2>4. Len(queue') \in Nat
    BY <2>3, LenProperties
  <2> QED
    BY <1>4, <2>1, <2>2, <2>3, <2>4
<1>7. CASE Empties
  <2>1. Len(queue') = 0 /\ file' = file
    BY <1>7, EmptySeq DEF Empties
  <2>2. \A u \in Consumers : Len(hands'[u]) <= BatchSize
    BY <1>1, <1>7, EmptySeq DEF Empties
  <2> QED
    BY <1>1, <2>1, <2>2
<1>8. CASE Saves
  BY <1>1, <1>8, EmptySeq DEF Saves
<1>9. CASE Reloads
  <2>1. Cardinality(HandsHeld(hands)) = 0
    BY <1>1, <1>9, HeldNothing DEF Reloads
  <2> QED
    BY <1>1, <1>9, <2>1 DEF Reloads
<1> QED
  BY <1>2, <1>3, <1>5, <1>6, <1>7, <1>8, <1>9, Effects

-------------------------------------------------------------------------------
(* A timestamp is in one place only: the queue, or one consumer's hands.   *)
(* The file may repeat what is elsewhere, but is read only by a process    *)
(* that holds nothing.                                                     *)
Unique ==
  /\ Distinct(queue) /\ Distinct(file)
  /\ \A t \in Threads : Distinct(hands[t]) /\ Stamps(queue) \cap Stamps(hands[t]) = {}
  /\ \A t, u \in Threads : t # u => Stamps(hands[t]) \cap Stamps(hands[u]) = {}

\* The next timestamp is new.
Past ==
  /\ \A x \in Stamps(queue) \cup Stamps(file) : x < clock
  /\ \A t \in Threads : \A x \in Stamps(hands[t]) : x < clock

InOrder == Ordered(queue) /\ Ordered(file)

\* An empty list repeats nothing, and is in order.
LEMMA EmptyList == Stamps(<<>>) = {} /\ Distinct(<<>>) /\ Ordered(<<>>)
<1>1. Len(<<>>) = 0
  BY EmptySeq
<1> QED
  BY <1>1 DEF Stamps, Distinct, Ordered

\* Timestamps are numbers.
LEMMA StampsNat ==
  ASSUME NEW s \in Seq(Entry)
  PROVE  Stamps(s) \subseteq Nat
<1>1. \A i \in 1 .. Len(s) : s[i] \in Entry
  BY ElementOfSeq
<1> QED
  BY <1>1 DEF Stamps, Entry

\* Every step keeps entries in one place, and the retried ones in front.
LEMMA OrderStep ==
  ASSUME ClientTyped, Exclusive, Unique, Past, InOrder, [ClientNext]_clientVars
  PROVE  Unique' /\ Past' /\ InOrder'
<1> USE DEF Unique, Past, InOrder
<1>1. /\ queue \in Seq(Entry) /\ file \in Seq(Entry) /\ hands \in [Threads -> Seq(Entry)]
      /\ clock \in Nat
      /\ Stamps(queue) \subseteq Nat /\ Stamps(file) \subseteq Nat
      /\ \A t \in Threads : hands[t] \in Seq(Entry) /\ Stamps(hands[t]) \subseteq Nat
      /\ Consumers \subseteq Threads /\ BatchSize \in Nat
  BY StampsNat DEF ClientTyped, QueueTypeOK
<1>2. CASE Adds
  <2>1. PICK p \in Payloads : queue' = Push(queue, NewEntry(p, clock))
    BY <1>2 DEF Adds
  <2>2. /\ NewEntry(p, clock) \in Entry /\ NewEntry(p, clock).retries = 0
        /\ NewEntry(p, clock).timestamp = clock
    BY <1>1 DEF NewEntry, Entry
  <2>3. /\ Stamps(queue') \subseteq Stamps(queue) \cup {clock}
        /\ Distinct(queue') /\ Ordered(queue')
    BY <1>1, <2>1, <2>2, PushStamps
  <2>4. clock' = clock + 1 /\ file' = file /\ hands' = hands
    BY <1>2 DEF Adds
  <2>5. clock \notin Stamps(queue) /\ \A t \in Threads : clock \notin Stamps(hands[t])
    BY <1>1
  <2>6. Unique'
    BY <1>1, <2>3, <2>4, <2>5
  <2>7. Past'
    BY <1>1, <2>3, <2>4
  <2> QED
    BY <2>3, <2>4, <2>6, <2>7
<1>3. ASSUME NEW t \in Consumers, Hands(t) PROVE Unique' /\ Past' /\ InOrder'
  <2> DEFINE b == Front(queue, BatchSize)
             q == Rest(queue, BatchSize)
  <2>1. /\ Stamps(b) \subseteq Stamps(queue) /\ Stamps(q) \subseteq Stamps(queue)
        /\ Distinct(b) /\ Distinct(q) /\ Stamps(b) \cap Stamps(q) = {} /\ Ordered(q)
    BY <1>1, DequeueStamps
  <2> HIDE DEF b, q
  <2>2. /\ queue' = q /\ file' = file /\ clock' = clock
        /\ \A u \in Threads : hands'[u] = IF u = t THEN b ELSE hands[u]
    BY <1>1, <1>3 DEF Hands, b, q
  <2>3. Unique'
    BY <1>1, <2>1, <2>2
  <2>4. Past'
    BY <1>1, <2>1, <2>2
  <2> QED
    BY <2>1, <2>2, <2>3, <2>4
<1>4. ASSUME NEW t \in Consumers, Settles(t) PROVE Unique' /\ Past' /\ InOrder'
  <2>1. PICK i \in 1 .. Len(hands[t]) : hands' = [hands EXCEPT ![t] = Without(hands[t], i)]
    BY <1>4 DEF Settles
  <2> DEFINE s == Without(hands[t], i)
  <2>2. Stamps(s) \subseteq Stamps(hands[t]) /\ Distinct(s)
    BY <1>1, WithoutStamps
  <2>3. \A u \in Threads : hands'[u] = IF u = t THEN s ELSE hands[u]
    BY <1>1, <2>1
  <2>4. queue' = queue /\ file' = file /\ clock' = clock
    BY <1>4 DEF Settles
  <2> HIDE DEF s
  <2>5. Unique'
    BY <1>1, <2>2, <2>3, <2>4
  <2>6. Past'
    BY <1>1, <2>2, <2>3, <2>4
  <2> QED
    BY <2>4, <2>5, <2>6
<1>5. ASSUME NEW t \in Consumers, GivesBack(t) PROVE Unique' /\ Past' /\ InOrder'
  <2> DEFINE s == Tail(hands[t])
             e == Head(hands[t])
             q == PutBack(queue, e)
  <2>1. /\ e \in Entry /\ e.timestamp \in Stamps(hands[t])
        /\ Stamps(s) \subseteq Stamps(hands[t]) /\ Distinct(s) /\ e.timestamp \notin Stamps(s)
    <3>1. hands[t] \in Seq(Entry) /\ hands[t] # <<>> /\ Distinct(hands[t])
      BY <1>1, <1>5 DEF GivesBack
    <3> QED
      BY <3>1, TailStamps
  <2>2. e.timestamp \notin Stamps(queue)
    BY <1>1, <2>1
  <2>3. /\ Stamps(q) \subseteq Stamps(queue) \cup {e.timestamp}
        /\ Distinct(q) /\ Ordered(q)
    BY <1>1, <2>1, <2>2, PutBackStamps
  <2>4. /\ queue' = q /\ file' = file /\ clock' = clock
        /\ \A u \in Threads : hands'[u] = IF u = t THEN s ELSE hands[u]
    BY <1>1, <1>5 DEF GivesBack
  <2> HIDE DEF s, e, q
  <2>5. \A u \in Threads : Distinct(hands'[u]) /\ Stamps(hands'[u]) \subseteq Stamps(hands[u])
                           /\ e.timestamp \notin Stamps(hands'[u])
    <3> SUFFICES ASSUME NEW u \in Threads
                 PROVE  /\ Distinct(hands'[u]) /\ Stamps(hands'[u]) \subseteq Stamps(hands[u])
                        /\ e.timestamp \notin Stamps(hands'[u])
      OBVIOUS
    <3>1. CASE u = t
      <4>1. hands'[u] = s
        BY <2>4, <3>1
      <4> QED
        BY <2>1, <3>1, <4>1
    <3>2. CASE u # t
      <4>1. hands'[u] = hands[u] /\ t \in Threads
        BY <1>1, <2>4, <3>2
      <4>2. Stamps(hands[t]) \cap Stamps(hands[u]) = {} /\ Distinct(hands[u])
        BY <3>2, <4>1
      <4> QED
        BY <2>1, <4>1, <4>2
    <3> QED
      BY <3>1, <3>2
  <2>6. Unique'
    <3>1. \A u \in Threads : Stamps(queue') \cap Stamps(hands'[u]) = {}
      BY <1>1, <2>3, <2>4, <2>5
    <3>2. \A u, v \in Threads : u # v => Stamps(hands'[u]) \cap Stamps(hands'[v]) = {}
      BY <2>5
    <3> QED
      BY <2>3, <2>4, <2>5, <3>1, <3>2
  <2>7. Past'
    BY <1>1, <2>1, <2>3, <2>4, <2>5
  <2> QED
    BY <2>3, <2>4, <2>6, <2>7
<1>6. CASE Empties
  <2>1. /\ queue' = <<>> /\ file' = file /\ clock' = clock
        /\ \A u \in Threads : hands'[u] = hands[u] \/ hands'[u] = <<>>
    BY <1>1, <1>6 DEF Empties
  <2>2. \A u \in Threads : Distinct(hands'[u]) /\ Stamps(hands'[u]) \subseteq Stamps(hands[u])
    BY <2>1, EmptyList
  <2> QED
    BY <1>1, <2>1, <2>2, EmptyList
<1>7. CASE Saves
  BY <1>1, <1>7, EmptyList DEF Saves
<1>8. CASE Reloads
  <2>1. \A u \in Threads : hands'[u] = <<>> /\ Stamps(hands'[u]) = {} /\ Distinct(hands'[u])
    BY <1>8, EmptyList DEF Reloads
  <2>2. queue' = file /\ file' = file /\ clock' = clock
    BY <1>8 DEF Reloads
  <2> QED
    BY <1>1, <2>1, <2>2
<1> QED
  BY <1>2, <1>3, <1>4, <1>5, <1>6, <1>7, <1>8, Effects

-------------------------------------------------------------------------------
ClientInductive ==
  ClientTyped /\ Exclusive /\ FileInSync /\ Counted /\ Unique /\ Past /\ InOrder

\* The queue starts empty, and nobody holds anything.
LEMMA ClientInductiveInit == ClientInit => ClientInductive
<1> SUFFICES ASSUME ClientInit PROVE ClientInductive
  OBVIOUS
<1> USE DEF ClientInit, QueueInit
<1>1. hands \in [Threads -> Seq(Entry)] /\ \A t \in Threads : hands[t] = <<>>
  BY EmptySeq
<1>2. ClientTyped /\ Exclusive /\ FileInSync
  BY <1>1, EmptySeq DEF ClientTyped, QueueTypeOK, Exclusive, FileInSync
<1>3. Counted
  <2>1. Cardinality(HandsHeld(hands)) = 0
    BY <1>1, HeldNothing
  <2>2. Len(queue) = 0 /\ Len(file) = 0 /\ \A t \in Consumers : Len(hands[t]) = 0
    BY <1>1, EmptySeq
  <2> QED
    BY <2>1, <2>2, HeldFinite DEF Counted
<1>4. Unique /\ Past /\ InOrder
  <2>1. queue = <<>> /\ file = <<>>
    OBVIOUS
  <2> QED
    BY <1>1, <2>1, EmptyList DEF Unique, Past, InOrder
<1> QED
  BY <1>2, <1>3, <1>4 DEF ClientInductive

\* Every step keeps the inductive invariant.
LEMMA ClientInductiveNext == ClientInductive /\ [ClientNext]_clientVars => ClientInductive'
BY LockStep, CountedStep, OrderStep DEF ClientInductive

\* So it is one.
LEMMA ClientInvariance == ClientSpec => []ClientInductive
BY ClientInductiveInit, ClientInductiveNext, PTL DEF ClientSpec

(* The type invariant of the run, with its bound on the queue's length:     *)
(* requeue() makes no room, and yet the list outgrows max_size by no more  *)
(* than what all consumers can hold, whatever they settle and lose.        *)
THEOREM ClientTyping == ClientSpec => []ClientTypeOK
<1>1. ClientInductive => ClientTypeOK
  <2> SUFFICES ASSUME ClientInductive PROVE Len(queue) <= MaxSize + Cap
    BY DEF ClientInductive, ClientTyped, ClientTypeOK, Cap
  <2>1. Len(queue) \in Nat
    BY LenProperties DEF ClientInductive, ClientTyped, QueueTypeOK
  <2> QED
    BY <2>1, HeldFinite DEF ClientInductive, Counted
<1> QED
  BY <1>1, ClientInvariance, PTL

(* While no method runs, the file is the queue.                            *)
THEOREM Synced == ClientSpec => []FileInSync
BY ClientInvariance, PTL DEF ClientInductive

(* The order that callers can rely on, for every interleaving of enqueue(), *)
(* dequeue(), requeue() and restarts.                                      *)
THEOREM InTurn == ClientSpec => []RetriedFirst
<1>1. ClientInductive => RetriedFirst
  <2> SUFFICES ASSUME ClientInductive PROVE RetriedFirst
    OBVIOUS
  <2>1. DOMAIN queue = 1 .. Len(queue)
    BY LenProperties DEF ClientInductive, ClientTyped, QueueTypeOK
  <2> QED
    BY <2>1 DEF ClientInductive, InOrder, Ordered, RetriedFirst
<1> QED
  BY <1>1, ClientInvariance, PTL

(* No entry is in two places, through any number of crashes and reloads.   *)
THEOREM OnePlace == ClientSpec => []EntryOnce
<1>1. ClientInductive => EntryOnce
  <2> SUFFICES ASSUME ClientInductive,
                      NEW a \in Places, NEW b \in Places,
                      EntryAt(a).timestamp = EntryAt(b).timestamp
               PROVE  a = b
    BY DEF EntryOnce
  <2>1. /\ DOMAIN queue = 1 .. Len(queue)
        /\ \A t \in Threads : DOMAIN hands[t] = 1 .. Len(hands[t])
    BY LenProperties DEF ClientInductive, ClientTyped, QueueTypeOK
  <2>2. ASSUME NEW x \in Places
        PROVE  \/ \E i \in 1 .. Len(queue) : x = <<Nobody, i>> /\ EntryAt(x) = queue[i]
               \/ \E t \in Threads : \E i \in 1 .. Len(hands[t]) :
                    x = <<t, i>> /\ EntryAt(x) = hands[t][i]
    BY <2>1, <2>2 DEF Places, EntryAt
  <2>3. Unique
    BY DEF ClientInductive
  <2>4. CASE \E i \in 1 .. Len(queue) : a = <<Nobody, i>> /\ EntryAt(a) = queue[i]
    <3>1. PICK i \in 1 .. Len(queue) : a = <<Nobody, i>> /\ EntryAt(a) = queue[i]
      BY <2>4
    <3>2. EntryAt(a).timestamp \in Stamps(queue)
      BY <3>1 DEF Stamps
    <3>3. ASSUME NEW t \in Threads, NEW j \in 1 .. Len(hands[t]),
                 b = <<t, j>> /\ EntryAt(b) = hands[t][j]
          PROVE  FALSE
      BY <2>3, <3>2, <3>3 DEF Unique, Stamps
    <3>4. PICK j \in 1 .. Len(queue) : b = <<Nobody, j>> /\ EntryAt(b) = queue[j]
      BY <2>2, <3>3
    <3> QED
      BY <2>3, <3>1, <3>4 DEF Unique, Distinct
  <2>5. CASE \E t \in Threads : \E i \in 1 .. Len(hands[t]) :
                a = <<t, i>> /\ EntryAt(a) = hands[t][i]
    <3>1. PICK t \in Threads : \E i \in 1 .. Len(hands[t]) :
            a = <<t, i>> /\ EntryAt(a) = hands[t][i]
      BY <2>5
    <3>2. PICK i \in 1 .. Len(hands[t]) : a = <<t, i>> /\ EntryAt(a) = hands[t][i]
      BY <3>1
    <3>3. EntryAt(a).timestamp \in Stamps(hands[t])
      BY <3>2 DEF Stamps
    <3>4. ASSUME NEW j \in 1 .. Len(queue), b = <<Nobody, j>> /\ EntryAt(b) = queue[j]
          PROVE  FALSE
      BY <2>3, <3>3, <3>4 DEF Unique, Stamps
    <3>5. PICK u \in Threads : \E j \in 1 .. Len(hands[u]) :
            b = <<u, j>> /\ EntryAt(b) = hands[u][j]
      BY <2>2, <3>4
    <3>6. PICK j \in 1 .. Len(hands[u]) : b = <<u, j>> /\ EntryAt(b) = hands[u][j]
      BY <3>5
    <3>7. EntryAt(b).timestamp \in Stamps(hands[u])
      BY <3>6 DEF Stamps
    <3>8. t = u
      BY <2>3, <3>3, <3>7 DEF Unique
    <3> QED
      BY <2>3, <3>2, <3>6, <3>8 DEF Unique, Distinct
  <2> QED
    BY <2>2, <2>4, <2>5
<1> QED
  BY <1>1, ClientInvariance, PTL
===============================================================================
