--------------------------- MODULE LogMonitorProofs ---------------------------
(***************************************************************************)
(* The log monitor reports no line twice, unless the file was disturbed    *)
(* between a stat and its open or is read again after a truncation, and     *)
(* leaves no line unread behind its position, unless nothing that it looks  *)
(* at shows that the file fell short of it: for any number of files, lines  *)
(* and disturbances, whatever a result is capped at, whatever raises.      *)
(***************************************************************************)
EXTENDS LogMonitor, SequenceTheorems, TLAPS

Once(s) == \A m, n \in 1 .. Len(s) : s[m] = s[n] => m = n

Slice(s, p, q) == SubSeq(s, p + 1, q)

(* The lines of s after position p, up to q.                                *)
LEMMA SliceLines ==
  ASSUME NEW s \in Seq(Lines), NEW p \in Nat, NEW q \in 0 .. Len(s)
  PROVE  /\ Slice(s, p, q) \in Seq(Lines) /\ Len(Slice(s, p, q)) \in Nat /\ Len(s) \in Nat
         /\ \A n \in 1 .. Len(Slice(s, p, q)) :
              p + n \in 1 .. q /\ Slice(s, p, q)[n] = s[p + n]
         /\ \A n \in 1 .. q : n > p => \E m \in 1 .. Len(Slice(s, p, q)) : Slice(s, p, q)[m] = s[n]
         /\ Once(s) => Once(Slice(s, p, q))
<1> DEFINE r == Slice(s, p, q)
<1>1. Len(s) \in Nat /\ \A i \in 1 .. Len(s) : s[i] \in Lines
  BY LenProperties, ElementOfSeq
<1>2. \A i \in p + 1 .. q : s[i] \in Lines
  BY <1>1
<1>3. /\ r \in Seq(Lines)
      /\ Len(r) = IF p + 1 <= q THEN q - (p + 1) + 1 ELSE 0
      /\ \A i \in 1 .. q - (p + 1) + 1 : r[i] = s[(p + 1) + i - 1]
  BY <1>1, <1>2, SubSeqProperties DEF Slice
<1> HIDE DEF r
<1>4. Len(r) \in Nat
  BY <1>1, <1>3
<1>5. ASSUME NEW n \in 1 .. Len(r)
      PROVE  p + n \in 1 .. q /\ r[n] = s[p + n]
  <2>1. p + n \in 1 .. q /\ (p + 1) + n - 1 = p + n /\ n \in 1 .. q - (p + 1) + 1
    BY <1>1, <1>3
  <2> QED
    BY <1>3, <2>1
<1>6. ASSUME NEW n \in 1 .. q, n > p
      PROVE  \E m \in 1 .. Len(r) : r[m] = s[n]
  <2>1. n - p \in 1 .. Len(r) /\ p + (n - p) = n
    BY <1>1, <1>3, <1>6
  <2> QED
    BY <1>5, <2>1
<1>7. Once(s) => Once(r)
  <2>1. \A n \in 1 .. Len(r) : p + n \in 1 .. Len(s)
    BY <1>1, <1>5
  <2> QED
    BY <1>4, <1>5, <2>1 DEF Once
<1> QED
  BY <1>1, <1>3, <1>4, <1>5, <1>6, <1>7 DEF r

Joined(s, t, k) == s \o SubSeq(t, 1, k)

(* s and the first k lines of t.                                            *)
LEMMA JoinedLines ==
  ASSUME NEW s \in Seq(Lines), NEW t \in Seq(Lines), NEW k \in 0 .. Len(t)
  PROVE  /\ Joined(s, t, k) \in Seq(Lines)
         /\ Len(Joined(s, t, k)) = Len(s) + k /\ Len(s) \in Nat /\ Len(t) \in Nat
         /\ \A n \in 1 .. Len(s) : Joined(s, t, k)[n] = s[n]
         /\ \A n \in 1 .. k : Joined(s, t, k)[Len(s) + n] = t[n]
<1>1. Len(s) \in Nat /\ Len(t) \in Nat /\ \A i \in 1 .. Len(t) : t[i] \in Lines
  BY LenProperties, ElementOfSeq
<1>2. \A i \in 1 .. k : t[i] \in Lines
  BY <1>1
<1>3. /\ SubSeq(t, 1, k) \in Seq(Lines)
      /\ Len(SubSeq(t, 1, k)) = k
      /\ \A i \in 1 .. k : SubSeq(t, 1, k)[i] = t[i]
  <2>1. /\ SubSeq(t, 1, k) \in Seq(Lines)
        /\ Len(SubSeq(t, 1, k)) = IF 1 <= k THEN k - 1 + 1 ELSE 0
        /\ \A i \in 1 .. k - 1 + 1 : SubSeq(t, 1, k)[i] = t[1 + i - 1]
    BY <1>1, <1>2, SubSeqProperties
  <2> QED
    BY <1>1, <2>1
<1>4. /\ Joined(s, t, k) \in Seq(Lines)
      /\ Len(Joined(s, t, k)) = Len(s) + k
      /\ \A i \in 1 .. Len(s) + k : Joined(s, t, k)[i] =
           IF i <= Len(s) THEN s[i] ELSE SubSeq(t, 1, k)[i - Len(s)]
  BY <1>3, ConcatProperties DEF Joined
<1>5. \A n \in 1 .. k : Joined(s, t, k)[Len(s) + n] = t[n]
  <2> SUFFICES ASSUME NEW n \in 1 .. k PROVE Joined(s, t, k)[Len(s) + n] = t[n]
    OBVIOUS
  <2>1. Len(s) + n \in 1 .. Len(s) + k /\ ~(Len(s) + n <= Len(s)) /\ (Len(s) + n) - Len(s) = n
    BY <1>1
  <2> QED
    BY <1>3, <1>4, <2>1
<1> QED
  BY <1>1, <1>4, <1>5

(* What is joined without a repetition has none.                            *)
LEMMA JoinedOnce ==
  ASSUME NEW s \in Seq(Lines), NEW t \in Seq(Lines), NEW k \in 0 .. Len(t),
         Once(s), Once(t),
         \A m \in 1 .. Len(s) : \A n \in 1 .. Len(t) : s[m] # t[n]
  PROVE  Once(Joined(s, t, k))
<1> DEFINE r == Joined(s, t, k)
<1>1. /\ Len(r) = Len(s) + k /\ Len(s) \in Nat /\ Len(t) \in Nat
      /\ \A n \in 1 .. Len(s) : r[n] = s[n]
      /\ \A n \in 1 .. k : r[Len(s) + n] = t[n]
  BY JoinedLines
<1> HIDE DEF r
<1>2. \A i \in 1 .. Len(r) : i \notin 1 .. Len(s) =>
        i - Len(s) \in 1 .. k /\ i - Len(s) \in 1 .. Len(t) /\ r[i] = t[i - Len(s)]
  <2> SUFFICES ASSUME NEW i \in 1 .. Len(r), i \notin 1 .. Len(s)
               PROVE  i - Len(s) \in 1 .. k /\ i - Len(s) \in 1 .. Len(t) /\ r[i] = t[i - Len(s)]
    OBVIOUS
  <2>1. i - Len(s) \in 1 .. k /\ i - Len(s) \in 1 .. Len(t) /\ i = Len(s) + (i - Len(s))
    BY <1>1
  <2> QED
    BY <1>1, <2>1
<1>3. ASSUME NEW i \in 1 .. Len(r), NEW j \in 1 .. Len(r), r[i] = r[j]
      PROVE  i = j
  <2>1. CASE i \in 1 .. Len(s) /\ j \in 1 .. Len(s)
    BY <1>1, <1>3, <2>1 DEF Once
  <2>2. CASE i \notin 1 .. Len(s) /\ j \notin 1 .. Len(s)
    <3>1. i - Len(s) = j - Len(s)
      BY <1>2, <1>3, <2>2 DEF Once
    <3> QED
      BY <1>1, <3>1
  <2>3. CASE i \in 1 .. Len(s) /\ j \notin 1 .. Len(s)
    BY <1>1, <1>2, <1>3, <2>3
  <2>4. CASE i \notin 1 .. Len(s) /\ j \in 1 .. Len(s)
    BY <1>1, <1>2, <1>3, <2>4
  <2> QED
    BY <2>1, <2>2, <2>3, <2>4
<1> QED
  BY <1>3 DEF r, Once

(* A result tells its lines, or counts them among those left out.           *)
LEMMA Reporting ==
  ASSUME matched \in Seq(Lines), capped \subseteq Lines, NEW lines \in Seq(Lines),
         NEW room \in Nat, Report(lines, room)
  PROVE  /\ \E k \in 0 .. Len(lines) : matched' = Joined(matched, lines, k)
         /\ matched' \in Seq(Lines) /\ capped' \subseteq Lines
         /\ Told \subseteq Told' /\ capped \subseteq capped'
         /\ \A n \in 1 .. Len(lines) : lines[n] \in Told' \cup capped'
<1> DEFINE k == IF Len(lines) < room THEN Len(lines) ELSE room
<1>1. Len(lines) \in Nat /\ \A n \in 1 .. Len(lines) : lines[n] \in Lines
  BY LenProperties, ElementOfSeq
<1>2. k \in 0 .. Len(lines)
  BY <1>1
<1>3. matched' = Joined(matched, lines, k) /\ capped' = capped \cup { lines[n] : n \in k + 1 .. Len(lines) }
  BY DEF Report, Joined
<1> HIDE DEF k
<1>4. capped' \subseteq Lines
  BY <1>1, <1>2, <1>3
<1>5. /\ matched' \in Seq(Lines)
      /\ Len(matched') = Len(matched) + k /\ Len(matched) \in Nat
      /\ \A n \in 1 .. Len(matched) : matched'[n] = matched[n]
      /\ \A n \in 1 .. k : matched'[Len(matched) + n] = lines[n]
  BY <1>2, <1>3, JoinedLines
<1>6. DOMAIN matched = 1 .. Len(matched) /\ DOMAIN matched' = 1 .. Len(matched) + k
  BY <1>5, LenProperties
<1>7. ASSUME NEW n \in DOMAIN matched
      PROVE  matched[n] \in Told'
  <2>1. n \in DOMAIN matched' /\ matched'[n] = matched[n]
    BY <1>2, <1>5, <1>6
  <2> QED
    BY <2>1 DEF Told
<1>8. ASSUME NEW n \in 1 .. Len(lines)
      PROVE  lines[n] \in Told' \cup capped'
  <2>1. CASE n \in k + 1 .. Len(lines)
    BY <1>3, <2>1
  <2>2. CASE n \in 1 .. k
    <3>1. Len(matched) + n \in DOMAIN matched' /\ matched'[Len(matched) + n] = lines[n]
      BY <1>2, <1>5, <1>6, <2>2
    <3> QED
      BY <3>1 DEF Told
  <2> QED
    BY <1>1, <1>2, <2>1, <2>2
<1>9. Told \subseteq Told' /\ capped \subseteq capped'
  BY <1>3, <1>7 DEF Told
<1> QED
  BY <1>2, <1>3, <1>4, <1>5, <1>8, <1>9

-------------------------------------------------------------------------------
(* Where the watcher may be; that an event log is always there.             *)
Watching ==
  /\ path \in used \cup {Null}
  /\ type = "eventlog" => path \in Inodes /\ inode = path /\ ~shrunk

\* The lines that may be read whole.
Whole == IF half THEN Len(content) - 1 ELSE Len(content)

(* The position in lines: of a file, those that begin before it.            *)
LEMMA Positions ==
  ASSUME TypeOK
  PROVE  /\ Len(content) \in Nat /\ Size \in Nat /\ Newest \in Int
         /\ type = "file" => Newest = Size
         /\ last_pos \in Nat /\ Position \in Nat /\ Tell \in Nat
         /\ Whole \in 0 .. Len(content) /\ New = Slice(content, Seen, Whole)
         /\ MatchCap \in Nat /\ MatchCap - 1 \in Nat /\ MatchCap - 0 = MatchCap
<1>1. /\ Len(content) \in Nat /\ (half => Len(content) >= 1)
      /\ half \in BOOLEAN /\ last_pos \in Nat /\ oldest \in Nat \ {0}
  <2>1. content \in Seq(Lines) /\ (half => content # <<>>)
    BY DEF TypeOK
  <2>2. Len(content) \in Nat /\ (half => Len(content) # 0)
    BY <2>1, LenProperties, EmptySeq
  <2> QED
    BY <2>2 DEF TypeOK
<1>2. Size \in Nat
  BY <1>1 DEF Size
<1>3. Newest \in Int /\ (type = "file" => Newest = Size)
  BY <1>1, <1>2 DEF Newest
<1>4. Position \in Nat /\ Tell \in Nat
  BY <1>1, <1>3 DEF Position, Tell
<1>5. Whole \in 0 .. Len(content) /\ New = Slice(content, Seen, Whole)
  BY <1>1 DEF Whole, New, Slice
<1> QED
  BY <1>1, <1>2, <1>3, <1>4, <1>5, LogAssumption

(* Which lines the position has passed.                                     *)
LEMMA SeenLines ==
  ASSUME type \in {"file", "eventlog"}, last_pos \in Nat, oldest \in Nat
  PROVE  /\ Seen \in Nat
         /\ \A n \in Nat \ {0} :
              n <= Seen <=> IF type = "file" THEN 2 * n - 1 <= last_pos ELSE oldest + n - 1 <= last_pos
<1>1. CASE type = "file"
  BY <1>1 DEF Seen
<1>2. CASE type # "file"
  BY <1>2 DEF Seen
<1> QED
  BY <1>1, <1>2

(* A slice that starts with the first line is the log cut there.            *)
LEMMA CutLines ==
  ASSUME NEW s \in Seq(Lines), NEW n \in 0 .. Len(s)
  PROVE  /\ SubSeq(s, 1, n) \in Seq(Lines) /\ Len(SubSeq(s, 1, n)) = n
         /\ \A i \in 1 .. n : SubSeq(s, 1, n)[i] = s[i]
<1>1. Len(s) \in Nat /\ \A i \in 1 .. Len(s) : s[i] \in Lines
  BY LenProperties, ElementOfSeq
<1>2. \A i \in 1 .. n : s[i] \in Lines
  BY <1>1
<1>3. /\ SubSeq(s, 1, n) \in Seq(Lines)
      /\ Len(SubSeq(s, 1, n)) = IF 1 <= n THEN n - 1 + 1 ELSE 0
      /\ \A i \in 1 .. n - 1 + 1 : SubSeq(s, 1, n)[i] = s[1 + i - 1]
  BY <1>1, <1>2, SubSeqProperties
<1> QED
  BY <1>1, <1>3

\* Every step keeps an event log in its place.
LEMMA KeepsWatching ==
  ASSUME TypeOK, Watching, [Next]_vars
  PROVE  Watching'
<1> USE LogAssumption DEF TypeOK, Watching, file, watcher, Of, Replace, Disturb, Resized
<1>1. CASE Write
  BY <1>1 DEF Write
<1>2. CASE Finish
  BY <1>2 DEF Finish
<1>3. CASE Rotate
  BY <1>3 DEF Rotate
<1>4. CASE Reuse
  BY <1>4 DEF Reuse
<1>5. CASE Truncate
  BY <1>5 DEF Truncate
<1>6. CASE Remove
  BY <1>6 DEF Remove
<1>7. CASE Wrap
  BY <1>7 DEF Wrap
<1>8. CASE Clear
  BY <1>8 DEF Clear
<1>9. CASE Stat
  BY <1>9 DEF Stat
<1>10. CASE Reads
  BY <1>10 DEF Reads, Read, ReadSpoilt, ReadEvents, EventsSpoilt, ReadOn
<1>11. CASE ReadFails
  BY <1>11 DEF ReadFails
<1>12. CASE OpenEvents
  BY <1>12 DEF OpenEvents
<1>13. CASE UNCHANGED vars
  BY <1>13 DEF vars
<1> QED
  BY <1>1, <1>2, <1>3, <1>4, <1>5, <1>6, <1>7, <1>8, <1>9, <1>10, <1>11, <1>12, <1>13
     DEF Next, Owner, Check

(* A check that reads: from which line on, and what of it is reported.      *)
LEMMA Reading ==
  ASSUME TypeOK, Reads
  PROVE  /\ type' = type /\ path \in Inodes /\ st # <<>> /\ st' = <<>> /\ last_pos' = Tell
         /\ disguised' = (disguised \/ GrownBack)
         /\ UNCHANGED <<path, content, half, oldest, written, disturbed, used, inode, raced, shrunk, before>>
         /\ Seen \in Nat /\ Slice(content, Seen, Whole) \in Seq(Lines)
         /\ \/ MatchRaises
            \/ /\ Match
               /\ \E room \in Nat : Report(Slice(content, Seen, Whole), room)
<1>1. \E kind \in {"file", "eventlog"} : ReadOn(kind) /\ (Match \/ MatchRaises)
  BY DEF Reads, Read, ReadSpoilt, ReadEvents, EventsSpoilt
<1>2. /\ UNCHANGED file /\ path \in Inodes /\ st # <<>> /\ st' = <<>> /\ last_pos' = Tell
      /\ disguised' = (disguised \/ GrownBack) /\ UNCHANGED <<inode, raced, shrunk>>
      /\ Match \/ MatchRaises
  BY <1>1 DEF ReadOn, TypeOK
<1>3. Seen \in Nat
  BY <1>1, SeenLines DEF ReadOn, TypeOK
<1>4. Slice(content, Seen, Whole) \in Seq(Lines)
  BY <1>3, Positions, SliceLines DEF TypeOK
<1>5. Match => \E room \in Nat : Report(Slice(content, Seen, Whole), room)
  BY Positions DEF Match
<1>6. UNCHANGED before
  BY <1>2 DEF Match, MatchRaises
<1> QED
  BY <1>2, <1>3, <1>4, <1>5, <1>6 DEF file

\* Every step keeps the types.
LEMMA KeepsType ==
  ASSUME TypeOK, Watching, [Next]_vars
  PROVE  TypeOK'
<1>1. CASE Write
  <2>0. half' \in BOOLEAN /\ (half' => type = "file")
    <3>1. half' \in IF type = "file" THEN BOOLEAN ELSE {FALSE}
      BY <1>1 DEF Write
    <3>2. CASE type = "file"
      BY <3>1, <3>2
    <3>3. CASE type # "file"
      BY <3>1, <3>3
    <3> QED
      BY <3>2, <3>3
  <2>1. /\ written + 1 \in Lines /\ path \in Inodes /\ written + 1 \in 0 .. MaxLines
        /\ content' = Append(content, written + 1) /\ written' = written + 1
        /\ UNCHANGED <<type, path, oldest, disturbed, used, raced, shrunk, disguised>>
        /\ UNCHANGED watcher
    BY <1>1, LogAssumption DEF Write, Lines, TypeOK
  <2>2. content' \in Seq(Lines) /\ Len(content') = Len(content) + 1
    BY <2>1, AppendProperties DEF TypeOK
  <2>3. content' # <<>>
    BY <2>2, LenProperties, EmptySeq
  <2> QED
    BY <2>0, <2>1, <2>2, <2>3, LogAssumption DEF watcher, reports, TypeOK
<1>2. CASE Finish
  BY <1>2 DEF Finish, watcher, reports, TypeOK
<1>3. CASE Rotate \/ Reuse
  <2>1. /\ UNCHANGED <<type, written, oldest>> /\ UNCHANGED watcher
        /\ disturbed' = disturbed + 1 /\ disturbed < MaxDisturbed /\ type = "file"
        /\ path' \in Inodes /\ used' = used \cup {path'}
        /\ content' = <<>> /\ half' = FALSE
        /\ {raced', shrunk', disguised'} \subseteq BOOLEAN
    BY <1>3 DEF Rotate, Reuse, Replace, Disturb, Of, Resized, TypeOK
  <2>2. content' \in Seq(Lines)
    BY <2>1, EmptySeq
  <2>3. half' \in BOOLEAN /\ ~half'
    BY <2>1
  <2>4. disturbed' \in 0 .. MaxDisturbed
    BY <2>1, LogAssumption DEF TypeOK
  <2> QED
    BY <2>1, <2>2, <2>3, <2>4, LogAssumption DEF watcher, reports, TypeOK
<1>4. CASE Truncate
  <2>1. PICK n \in 0 .. Len(content) :
               /\ content' = SubSeq(content, 1, n)
               /\ half' \in IF n = 0 THEN {FALSE} ELSE BOOLEAN
    BY <1>4 DEF Truncate
  <2>2. content' \in Seq(Lines) /\ Len(content') = n
    BY <2>1, CutLines DEF TypeOK
  <2>3. half' => content' # <<>>
    BY <2>1, <2>2, EmptySeq
  <2>4. path \in Inodes
    <3> SUFFICES ASSUME path = Null PROVE FALSE
      BY DEF TypeOK
    <3>1. Len(content) = 0 /\ ~half
      BY EmptySeq DEF TypeOK
    <3>2. Size = 0 /\ Size' < Size
      BY <1>4, <3>1 DEF Truncate, Size
    <3>3. n = 0 /\ ~half'
      BY <2>1, <3>1
    <3>4. Len(content') = 0
      BY <2>2, <3>3
    <3>5. Size' = 2 * Len(content') - 0
      BY <3>3 DEF Size
    <3> QED
      BY <3>2, <3>4, <3>5
  <2>5. /\ UNCHANGED <<type, path, written, oldest, used>> /\ UNCHANGED watcher
        /\ disturbed' = disturbed + 1 /\ disturbed < MaxDisturbed /\ type = "file"
        /\ {raced', shrunk', disguised'} \subseteq BOOLEAN
    BY <1>4 DEF Truncate, Disturb, Of, Resized, TypeOK
  <2>6. half' \in BOOLEAN
    BY <2>1
  <2> QED
    BY <2>2, <2>3, <2>4, <2>5, <2>6, LogAssumption DEF watcher, reports, TypeOK
<1>5. CASE Remove
  <2>1. /\ UNCHANGED <<type, written, oldest, used>> /\ UNCHANGED watcher
        /\ disturbed' = disturbed + 1 /\ disturbed < MaxDisturbed
        /\ path' = Null /\ content' = <<>> /\ half' = FALSE
        /\ {raced', shrunk', disguised'} \subseteq BOOLEAN
    BY <1>5 DEF Remove, Disturb, TypeOK
  <2>2. content' \in Seq(Lines)
    BY <2>1, EmptySeq
  <2>3. half' \in BOOLEAN /\ ~half'
    BY <2>1
  <2>4. disturbed' \in 0 .. MaxDisturbed
    BY <2>1, LogAssumption DEF TypeOK
  <2> QED
    BY <2>1, <2>2, <2>3, <2>4, LogAssumption DEF watcher, reports, TypeOK
<1>6. CASE Wrap
  <2>1. Tail(content) \in Seq(Lines) /\ oldest + 1 \in Nat \ {0} /\ type = "eventlog" /\ path # Null
    BY <1>6, HeadTailProperties DEF Wrap, Disturb, Of, Watching, TypeOK
  <2> QED
    BY <1>6, <2>1, LogAssumption DEF Wrap, Disturb, watcher, reports, TypeOK
<1>7. CASE Clear
  <2>1. <<>> \in Seq(Lines)
    BY EmptySeq
  <2> QED
    BY <1>7, <2>1, LogAssumption DEF Clear, Disturb, Of, watcher, reports, TypeOK
<1>8. CASE Stat
  <2>1. path \in Inodes /\ path \in used /\ UNCHANGED file
    BY <1>8 DEF Stat, Watching, TypeOK
  <2>2. Size \in Nat /\ Position \in Nat
    BY Positions
  <2>3. st' \in Seq(Nat) /\ Len(st') <= 1
    BY <1>8, <2>2 DEF Stat
  <2>4. matched' \in Seq(Lines) /\ before' \subseteq Lines
    <3>1. Told \subseteq Lines
      <4>1. DOMAIN matched = 1 .. Len(matched) /\ \A n \in 1 .. Len(matched) : matched[n] \in Lines
        BY LenProperties, ElementOfSeq DEF TypeOK
      <4> QED
        BY <4>1 DEF Told
    <3> QED
      BY <1>8, <3>1, EmptySeq DEF Stat, Again, TypeOK
  <2>5. {raced', shrunk', disguised'} \subseteq BOOLEAN
    BY <1>8 DEF Stat, TypeOK
  <2> QED
    BY <1>8, <2>1, <2>2, <2>3, <2>4, <2>5, LogAssumption DEF Stat, file, TypeOK
<1>9. CASE Reads
  <2>1. /\ matched' \in Seq(Lines) /\ capped' \subseteq Lines
        /\ split' \subseteq Lines /\ lost' \subseteq Lines
    <3>1. \A n \in 1 .. Len(content) : content[n] \in Lines
      BY ElementOfSeq DEF TypeOK
    <3>2. CASE MatchRaises
      BY <3>1, <3>2, <1>9, Reading DEF MatchRaises, TypeOK
    <3>3. CASE Match /\ \E room \in Nat : Report(Slice(content, Seen, Whole), room)
      <4>1. matched' \in Seq(Lines) /\ capped' \subseteq Lines
        BY <1>9, <3>3, Reading, Reporting DEF TypeOK
      <4>2. half => Len(content) \in 1 .. Len(content)
        BY EmptySeq DEF TypeOK
      <4> QED
        BY <3>1, <3>3, <4>1, <4>2 DEF Match, TypeOK
    <3> QED
      BY <1>9, <3>2, <3>3, Reading
  <2>2. /\ type' = type /\ path \in Inodes /\ st # <<>> /\ st' = <<>> /\ last_pos' = Tell
        /\ disguised' = (disguised \/ GrownBack)
        /\ UNCHANGED <<path, content, half, oldest, written, disturbed, used, inode, raced, shrunk, before>>
    BY <1>9, Reading
  <2>3. st' \in Seq(Nat) /\ Len(st') <= 1
    BY <2>2, EmptySeq
  <2>4. last_pos' \in Nat
    BY <2>2, Positions
  <2>5. disguised' \in BOOLEAN /\ inode # Null
    BY <2>2 DEF TypeOK
  <2> QED
    BY <2>1, <2>2, <2>3, <2>4, <2>5 DEF TypeOK
<1>10. CASE ReadFails
  BY <1>10, EmptySeq DEF ReadFails, file, reports, TypeOK
<1>11. CASE OpenEvents
  BY <1>11, LogAssumption DEF OpenEvents, file, reports, Watching, TypeOK
<1>12. CASE UNCHANGED vars
  BY <1>12 DEF vars, TypeOK
<1> QED
  BY <1>1, <1>2, <1>3, <1>4, <1>5, <1>6, <1>7, <1>8, <1>9, <1>10, <1>11, <1>12
     DEF Next, Owner, Check

-------------------------------------------------------------------------------
(* Every line is written once, and only lines that were written are told.   *)
Sound ==
  /\ \A n \in 1 .. Len(matched) : matched[n] <= written
  /\ Once(content)
  /\ \A n \in 1 .. Len(content) : content[n] <= written

\* Where a check is not raced, what lies past the position was not told.
Fresh ==
  ~raced \/ type = "eventlog" =>
    /\ Once(matched)
    /\ type = "file" /\ st # <<>> => path = inode /\ last_pos <= Size
    /\ \A n \in 1 .. Len(content) : (path = inode => n > Seen) =>
         \A m \in 1 .. Len(matched) : content[n] # matched[m]

\* What was fresh stays so where log and position stay.
LEMMA FreshSame ==
  ASSUME TypeOK, Sound, Fresh,
         UNCHANGED <<type, path, content, oldest, written, raced, inode, last_pos, matched>>,
         half' = half \/ ~half', type = "file" => st' = st \/ st' = <<>>
  PROVE  Sound' /\ Fresh'
<1>1. Size <= Size'
  BY Positions DEF Size, TypeOK
<1>2. {Size, last_pos, Len(content)} \subseteq Nat
  BY Positions
<1>3. Size' \in Int
  BY <1>2 DEF Size
<1>4. last_pos <= Size => last_pos <= Size'
  BY <1>1, <1>2, <1>3
<1>5. Seen' = Seen
  BY DEF Seen
<1> QED
  BY <1>4, <1>5 DEF Sound, Fresh, Once

(* A log that loses all its lines, or the last of them, holds nothing new.  *)
LEMMA FreshCut ==
  ASSUME TypeOK, Sound, Fresh, NEW k \in 0 .. Len(content), content' = SubSeq(content, 1, k),
         UNCHANGED <<type, written, inode, last_pos, matched, st>>,
         k = 0 \/ (path' = path /\ oldest' = oldest), raced' = (raced \/ st # <<>>)
  PROVE  Sound' /\ Fresh'
<1>1. /\ Len(content') = k /\ Len(content) \in Nat
      /\ \A i \in 1 .. k : content'[i] = content[i] /\ i \in 1 .. Len(content)
  BY CutLines, Positions DEF TypeOK
<1>2. Sound'
  BY <1>1 DEF Sound, Once
<1>3. k # 0 => Seen' = Seen /\ path' = path
  BY DEF Seen
<1>4. ASSUME ~raced' \/ type' = "eventlog"
      PROVE  /\ Once(matched')
             /\ type' = "file" /\ st' # <<>> => path' = inode' /\ last_pos' <= Size'
             /\ \A n \in 1 .. Len(content') : (path' = inode' => n > Seen') =>
                   \A m \in 1 .. Len(matched') : content'[n] # matched'[m]
  <2>1. ~raced \/ type = "eventlog"
    BY <1>4
  <2>2. type' = "file" => st' = <<>>
    BY <1>4
  <2>3. Once(matched')
    BY <2>1 DEF Fresh, Once
  <2>4. \A n \in 1 .. Len(content') : (path' = inode' => n > Seen') =>
           \A m \in 1 .. Len(matched') : content'[n] # matched'[m]
    <3>1. CASE k = 0
      BY <1>1, <3>1
    <3>2. CASE k # 0
      BY <1>1, <1>3, <2>1, <3>2 DEF Fresh
    <3> QED
      BY <3>1, <3>2
  <2> QED
    BY <2>2, <2>3, <2>4
<1> QED
  BY <1>2, <1>4 DEF Fresh

\* A line that is written is new.
LEMMA FreshWritten ==
  ASSUME TypeOK, Sound, Fresh, Write
  PROVE  Sound' /\ Fresh'
<1> DEFINE c == content
<1> DEFINE d == Append(c, written + 1)
<1>1. /\ path \in Inodes /\ written + 1 \in Lines /\ content' = d /\ ~half
      /\ UNCHANGED <<type, path, oldest, raced, inode, last_pos, st, matched>>
      /\ written' = written + 1 /\ written \in Nat /\ c \in Seq(Lines)
  BY LogAssumption DEF Write, TypeOK, Lines, watcher, reports
<1>2. /\ Len(c) \in Nat /\ Len(d) = Len(c) + 1 /\ d[Len(c) + 1] = written + 1
      /\ \A n \in 1 .. Len(c) : d[n] = c[n]
  <2> HIDE DEF c
  <2> QED
    BY <1>1, AppendProperties, LenProperties
<1>3. \A m \in 1 .. Len(matched) : matched[m] <= written /\ matched[m] \in Lines
  BY ElementOfSeq DEF TypeOK, Sound
<1>4. Once(c) /\ \A n \in 1 .. Len(c) : c[n] <= written /\ c[n] \in Lines
  BY <1>1, ElementOfSeq DEF Sound
<1>5. {last_pos, Size} \subseteq Nat
  BY Positions
<1>6. last_pos <= Size => last_pos <= Size'
  <2>1. Size = 2 * Len(c)
    BY <1>1, <1>2 DEF Size
  <2>2. Size' = 2 * Len(d) - (IF half' THEN 1 ELSE 0)
    BY <1>1 DEF Size
  <2> HIDE DEF c, d
  <2> QED
    BY <1>2, <1>5, <2>1, <2>2
<1>7. Seen' = Seen
  BY <1>1 DEF Seen
<1> HIDE DEF c, d
<1>8. \A n \in 1 .. Len(d) : n \in 1 .. Len(c) \/ n = Len(c) + 1
  BY <1>2
<1>9. Once(d) /\ \A n \in 1 .. Len(d) : d[n] <= written + 1
  BY <1>1, <1>2, <1>4, <1>8 DEF Once, Lines
<1>10. \A m \in 1 .. Len(matched) : matched[m] <= written + 1 /\ matched[m] # written + 1
  BY <1>1, <1>3 DEF Lines
<1>11. Sound'
  BY <1>1, <1>9, <1>10 DEF Sound
<1>12. ASSUME ~raced' \/ type' = "eventlog", NEW n \in 1 .. Len(d), path' = inode' => n > Seen',
              NEW m \in 1 .. Len(matched)
       PROVE  d[n] # matched[m]
  <2>1. CASE n = Len(c) + 1
    BY <1>2, <1>10, <2>1
  <2>2. CASE n \in 1 .. Len(c)
    <3>1. c[n] # matched[m]
      BY <1>1, <1>7, <1>12, <2>2 DEF Fresh, c
    <3> QED
      BY <1>2, <2>2, <3>1
  <2> QED
    BY <1>8, <2>1, <2>2
<1>13. ~raced' \/ type' = "eventlog" =>
         Once(matched') /\ (type' = "file" /\ st' # <<>> => path' = inode' /\ last_pos' <= Size')
  BY <1>1, <1>6 DEF Fresh, Once
<1> QED
  BY <1>1, <1>11, <1>12, <1>13 DEF Fresh

\* An event log that wraps shifts its records and their numbers together.
LEMMA FreshWrapped ==
  ASSUME TypeOK, Watching, Sound, Fresh, Wrap
  PROVE  Sound' /\ Fresh'
<1> DEFINE c == content
<1>1. /\ type = "eventlog" /\ path = inode /\ c \in Seq(Lines) /\ c # <<>>
      /\ {oldest, last_pos} \subseteq Nat
  BY DEF Wrap, Disturb, Of, Watching, TypeOK
<1>2. /\ content' = Tail(c) /\ oldest' = oldest + 1
      /\ UNCHANGED <<type, written, path, inode, last_pos, st, matched>>
  BY <1>1 DEF Wrap, Disturb, watcher, reports
<1>3. Once(c) /\ \A n \in 1 .. Len(c) : c[n] <= written
  BY DEF Sound
<1>4. /\ Once(matched)
      /\ \A n \in 1 .. Len(c) : n > Seen => \A m \in 1 .. Len(matched) : c[n] # matched[m]
  BY <1>1 DEF Fresh
<1> HIDE DEF c
<1>5. /\ Len(c) \in Nat /\ Len(Tail(c)) = Len(c) - 1
      /\ \A n \in 1 .. Len(Tail(c)) : Tail(c)[n] = c[n + 1] /\ n + 1 \in 1 .. Len(c)
  BY <1>1, HeadTailProperties, LenProperties
<1>6. Once(Tail(c)) /\ \A n \in 1 .. Len(Tail(c)) : Tail(c)[n] <= written
  BY <1>3, <1>5 DEF Once
<1>7. Sound'
  BY <1>2, <1>6 DEF Sound
<1>8. \A n \in 1 .. Len(Tail(c)) : n > Seen' => n + 1 > Seen
  BY <1>1, <1>2, <1>5 DEF Seen
<1>9. \A n \in 1 .. Len(Tail(c)) : n > Seen' =>
        \A m \in 1 .. Len(matched) : Tail(c)[n] # matched[m]
  BY <1>4, <1>5, <1>8
<1>10. Once(matched') /\ type' # "file" /\ path' = inode'
  BY <1>1, <1>2, <1>4
<1>11. \A n \in 1 .. Len(content') : (path' = inode' => n > Seen') =>
         \A m \in 1 .. Len(matched') : content'[n] # matched'[m]
  BY <1>2, <1>9, <1>10
<1> QED
  BY <1>7, <1>10, <1>11 DEF Fresh

\* A stat begins where the last check ended, or anew in a file that was not told,
\* or whose lines are to be told again.
LEMMA FreshStat ==
  ASSUME TypeOK, Sound, Fresh, Stat
  PROVE  Sound' /\ Fresh'
<1>1. /\ type = "file" /\ inode' = path /\ last_pos' = Position
      /\ UNCHANGED <<type, path, content, half, oldest, written, raced>>
  BY DEF Stat, file
<1>2. {Size, last_pos, Position, Len(content)} \subseteq Nat
  BY Positions
<1>3. Size' = Size /\ Position <= Size
  BY <1>1, <1>2 DEF Size, Position
<1>4. CASE path = inode /\ Size < last_pos
  <2>1. Len(matched') = 0
    BY <1>4, EmptySeq DEF Stat, Again
  <2> QED
    BY <1>1, <1>3, <2>1 DEF Sound, Fresh, Once
<1>5. CASE ~(path = inode /\ Size < last_pos)
  <2>1. matched' = matched
    BY <1>5 DEF Stat, Again
  <2>2. Sound'
    BY <1>1, <2>1 DEF Sound
  <2>3. path = inode => Seen' = Seen
    BY <1>1, <1>5 DEF Seen, Position
  <2> QED
    BY <1>1, <1>3, <2>1, <2>2, <2>3 DEF Fresh
<1> QED
  BY <1>4, <1>5

(* A check that reads on from the lines it has told tells new ones.         *)
LEMMA ToldOnce ==
  ASSUME TypeOK, Sound, NEW p \in Nat, NEW q \in 0 .. Len(content), NEW room \in Nat,
         Report(Slice(content, p, q), room)
  PROVE  /\ \A m \in 1 .. Len(matched') : matched'[m] <= written
         /\ Once(matched) /\ (\A n \in 1 .. Len(content) : n > p =>
              \A m \in 1 .. Len(matched) : content[n] # matched[m]) => Once(matched')
<1> DEFINE c == content
<1> DEFINE r == Slice(c, p, q)
<1>1. c \in Seq(Lines) /\ matched \in Seq(Lines) /\ capped \subseteq Lines
  BY DEF TypeOK
<1>2. Once(c) /\ (\A n \in 1 .. Len(c) : c[n] <= written) /\ q \in 0 .. Len(c)
  BY DEF Sound
<1>3. Report(r, room)
  OBVIOUS
<1> HIDE DEF c
<1>4. /\ r \in Seq(Lines) /\ Len(c) \in Nat /\ Len(r) \in Nat
      /\ \A n \in 1 .. Len(r) : p + n \in 1 .. q /\ r[n] = c[p + n]
      /\ Once(r)
  BY <1>1, <1>2, SliceLines
<1> HIDE DEF r
<1>5. \A n \in 1 .. Len(r) : p + n \in 1 .. Len(c) /\ p + n > p
  BY <1>2, <1>4
<1>6. PICK k \in 0 .. Len(r) : matched' = Joined(matched, r, k)
  BY <1>1, <1>3, <1>4, Reporting
<1>7. /\ Len(matched') = Len(matched) + k /\ Len(matched) \in Nat
      /\ \A n \in 1 .. Len(matched) : matched'[n] = matched[n]
      /\ \A n \in 1 .. k : matched'[Len(matched) + n] = r[n]
  BY ONLY <1>1, <1>4, <1>6, JoinedLines
<1>8. ASSUME NEW m \in 1 .. Len(matched')
      PROVE  matched'[m] <= written
  <2>1. CASE m \in 1 .. Len(matched)
    BY <1>7, <2>1 DEF Sound
  <2>2. CASE m \notin 1 .. Len(matched)
    <3>1. /\ m - Len(matched) \in 1 .. k /\ m - Len(matched) \in 1 .. Len(r)
          /\ Len(matched) + (m - Len(matched)) = m
      BY <1>4, <1>7, <2>2
    <3>2. matched'[m] = c[p + (m - Len(matched))] /\ p + (m - Len(matched)) \in 1 .. Len(c)
      BY <1>4, <1>5, <1>7, <3>1
    <3> QED
      BY <1>2, <3>2
  <2> QED
    BY <2>1, <2>2
<1>9. ASSUME Once(matched), \A n \in 1 .. Len(c) : n > p =>
              \A m \in 1 .. Len(matched) : c[n] # matched[m]
      PROVE  Once(matched')
  <2>1. \A m \in 1 .. Len(matched) : \A n \in 1 .. Len(r) : matched[m] # r[n]
    BY <1>4, <1>5, <1>9
  <2> QED
    BY <1>1, <1>4, <1>6, <1>9, <2>1, JoinedOnce
<1> QED
  BY <1>8, <1>9 DEF c

(* The end of the log is past all of its lines.                             *)
LEMMA AllSeen ==
  ASSUME TypeOK, TypeOK', last_pos' = Tell, UNCHANGED <<type, content, half, oldest>>
  PROVE  \A n \in 1 .. Len(content) : n <= Seen'
<1>1. /\ {Len(content), oldest, last_pos, last_pos'} \subseteq Nat /\ Newest \in Int
      /\ last_pos' >= Newest
  <2>1. Len(content) \in Nat /\ Newest \in Int /\ last_pos \in Nat
    BY Positions
  <2>2. oldest \in Nat /\ last_pos' \in Nat
    BY DEF TypeOK
  <2>3. last_pos' >= Newest
    BY <2>1 DEF Tell
  <2> QED
    BY <2>1, <2>2, <2>3
<1> SUFFICES ASSUME NEW n \in 1 .. Len(content) PROVE n <= Seen'
  OBVIOUS
<1>2. IF type = "file" THEN 2 * n - 1 <= last_pos' ELSE oldest + n - 1 <= last_pos'
  <2>1. CASE type = "file"
    <3>1. Newest = 2 * Len(content) - (IF half THEN 1 ELSE 0)
      BY <2>1 DEF Newest, Size
    <3>2. Newest >= 2 * Len(content) - 1
      BY <1>1, <3>1
    <3> QED
      BY <1>1, <2>1, <3>2
  <2>2. CASE type # "file"
    BY <1>1, <2>2 DEF Newest
  <2> QED
    BY <2>1, <2>2
<1> QED
  BY <1>1, <1>2 DEF Seen

\* A check tells what is fresh, if anything, and sets the position past it.
LEMMA FreshReads ==
  ASSUME TypeOK, TypeOK', Watching, Sound, Fresh, Reads
  PROVE  Sound' /\ Fresh'
<1>1. /\ st # <<>> /\ st' = <<>> /\ last_pos' = Tell /\ Seen \in Nat
      /\ UNCHANGED <<type, path, content, half, oldest, written, inode, raced>>
      /\ \/ MatchRaises
         \/ \E room \in Nat : Report(Slice(content, Seen, Whole), room)
  BY Reading
<1>2. /\ \A m \in 1 .. Len(matched') : matched'[m] <= written
      /\ Once(matched) /\ (\A n \in 1 .. Len(content) : n > Seen =>
           \A m \in 1 .. Len(matched) : content[n] # matched[m]) => Once(matched')
  <2>1. CASE MatchRaises
    BY <2>1 DEF MatchRaises, Sound, Once
  <2>2. CASE \E room \in Nat : Report(Slice(content, Seen, Whole), room)
    BY <1>1, <2>2, Positions, ToldOnce
  <2> QED
    BY <1>1, <2>1, <2>2
<1>3. Sound'
  BY <1>1, <1>2 DEF Sound
<1>4. \A n \in 1 .. Len(content) : ~(n > Seen')
  <2>1. Seen' \in Nat /\ Len(content) \in Nat
    BY SeenLines, Positions, LogAssumption, <1>1 DEF Seen, TypeOK
  <2> QED
    BY <1>1, <2>1, AllSeen
<1>5. ASSUME ~raced \/ type = "eventlog"
      PROVE  path = inode /\ Once(matched')
  <2>1. path = inode
    BY <1>1, <1>5, LogAssumption DEF Fresh, Watching, TypeOK
  <2> QED
    BY <1>2, <1>5, <2>1 DEF Fresh
<1> QED
  BY <1>1, <1>3, <1>4, <1>5 DEF Fresh

\* Every step keeps fresh what a check will read.
LEMMA KeepsFresh ==
  ASSUME TypeOK, TypeOK', Watching, Sound, Fresh, [Next]_vars
  PROVE  Sound' /\ Fresh'
<1>1. content' = <<>> => 0 \in 0 .. Len(content) /\ content' = SubSeq(content, 1, 0)
  <2>1. SubSeq(content, 1, 0) \in Seq(Lines) /\ Len(SubSeq(content, 1, 0)) = 0 /\ Len(content) \in Nat
    BY CutLines, Positions DEF TypeOK
  <2> QED
    BY <2>1, EmptySeq
<1>2. CASE Rotate \/ Reuse \/ Remove \/ Clear
  <2>1. content' = <<>> /\ raced' = (raced \/ st # <<>>)
        /\ UNCHANGED <<type, written, inode, last_pos, matched, st>>
    BY <1>2 DEF Rotate, Reuse, Remove, Clear, Replace, Disturb, watcher, reports
  <2> QED
    BY <1>1, <2>1, FreshCut
<1>3. CASE Truncate
  <2>1. PICK n \in 0 .. Len(content) : content' = SubSeq(content, 1, n)
    BY <1>3 DEF Truncate
  <2>2. raced' = (raced \/ st # <<>>) /\ path' = path /\ oldest' = oldest
        /\ UNCHANGED <<type, written, inode, last_pos, matched, st>>
    BY <1>3 DEF Truncate, Disturb, watcher, reports
  <2> QED
    BY <2>1, <2>2, FreshCut
<1>4. CASE Finish
  BY <1>4, FreshSame DEF Finish, watcher, reports
<1>5. CASE ReadFails \/ OpenEvents
  BY <1>5, FreshSame DEF ReadFails, OpenEvents, file, reports
<1>6. CASE UNCHANGED vars
  BY <1>6, FreshSame DEF vars
<1> QED
  BY <1>2, <1>3, <1>4, <1>5, <1>6, FreshWritten, FreshWrapped, FreshStat, FreshReads
     DEF Next, Owner, Check

-------------------------------------------------------------------------------
\* The watcher is past what it has dealt with only, unless the file fell short of
\* its position, or an event log was cleared.
Kept ==
  ~disguised /\ ~shrunk /\ path = inode /\ path # Null => last_pos <= Newest /\ Passed

\* What is read stays read.
LEMMA KeptSame ==
  ASSUME TypeOK, Kept,
         UNCHANGED <<type, path, content, oldest, inode, last_pos, shrunk, disguised>>,
         UNCHANGED reports, half' = half \/ ~half'
  PROVE  Kept'
<1>1. {Size, last_pos, Len(content), oldest} \subseteq Nat /\ Newest \in Int
  BY Positions DEF TypeOK
<1>2. Size <= Size' /\ Size' \in Int
  BY <1>1 DEF Size, TypeOK
<1>3. Newest <= Newest' /\ Newest' \in Int
  BY <1>1, <1>2 DEF Newest
<1>4. Reported' = Reported /\ Seen' = Seen
  BY DEF Reported, Told, reports, Seen
<1> QED
  BY <1>1, <1>3, <1>4 DEF Kept, Passed

\* A line that is written lies past the position.
LEMMA KeptWritten ==
  ASSUME TypeOK, Kept, Write
  PROVE  Kept'
<1> DEFINE c == content
<1> DEFINE d == Append(c, written + 1)
<1>1. /\ written + 1 \in Lines /\ c \in Seq(Lines) /\ content' = d /\ ~half
      /\ UNCHANGED <<type, path, oldest, inode, last_pos, shrunk, disguised>> /\ UNCHANGED reports
  BY LogAssumption DEF Write, TypeOK, Lines, watcher
<1>2. {last_pos, oldest} \subseteq Nat /\ type \in {"file", "eventlog"}
  BY LogAssumption DEF TypeOK
<1>3. Reported' = Reported /\ Seen' = Seen
  BY <1>1 DEF Reported, Told, reports, Seen
<1>4. Newest = IF type = "file" THEN 2 * Len(c) ELSE oldest + Len(c) - 1
  <2>1. Size = 2 * Len(c) - 0
    BY <1>1 DEF Size
  <2>2. Len(c) \in Nat
    BY Positions
  <2> QED
    BY <2>1, <2>2 DEF Newest
<1>5. Newest' = IF type = "file" THEN 2 * Len(d) - (IF half' THEN 1 ELSE 0) ELSE oldest + Len(d) - 1
  BY <1>1 DEF Newest, Size
<1>6. /\ Len(c) \in Nat /\ Len(d) = Len(c) + 1
      /\ \A n \in 1 .. Len(c) : d[n] = c[n]
  <2> HIDE DEF c
  <2> QED
    BY <1>1, AppendProperties, LenProperties
<1>7. Seen \in Nat /\ \A n \in Nat \ {0} :
        n <= Seen <=> IF type = "file" THEN 2 * n - 1 <= last_pos ELSE oldest + n - 1 <= last_pos
  BY <1>2, SeenLines
<1>8. ASSUME ~disguised, ~shrunk, path # Null, path = inode
      PROVE  last_pos <= Newest' /\ Passed'
  <2>1. last_pos <= Newest /\ \A n \in 1 .. Len(c) : n <= Seen => c[n] \in Reported
    BY <1>8 DEF Kept, Passed
  <2> HIDE DEF c, d
  <2>2. last_pos <= Newest'
    BY <1>2, <1>4, <1>5, <1>6, <2>1
  <2>3. \A n \in 1 .. Len(d) : n <= Seen => n \in 1 .. Len(c)
    <3>1. ~(Len(c) + 1 <= Seen)
      <4>1. Len(c) + 1 \in Nat \ {0}
        BY <1>6
      <4>2. ~(IF type = "file" THEN 2 * (Len(c) + 1) - 1 <= last_pos ELSE oldest + (Len(c) + 1) - 1 <= last_pos)
        BY <1>2, <1>4, <1>6, <2>1
      <4> QED
        BY <1>7, <4>1, <4>2
    <3> QED
      BY <1>6, <1>7, <3>1
  <2>4. \A n \in 1 .. Len(d) : n <= Seen => d[n] \in Reported
    BY <1>6, <2>1, <2>3
  <2> QED
    BY <1>1, <1>3, <2>2, <2>4 DEF Passed
<1> QED
  BY <1>1, <1>8 DEF Kept

\* A file that is cut, or gets another one's place, falls short of the position or not.
LEMMA KeptResized ==
  ASSUME TypeOK, Kept, type = "file", Resized, NEW k \in 0 .. Len(content),
         content' = SubSeq(content, 1, k), k = 0 \/ path' = path,
         UNCHANGED <<type, oldest, inode, last_pos, reports>>
  PROVE  Kept'
<1>1. /\ Len(content') = k /\ Len(content) \in Nat
      /\ \A i \in 1 .. k : content'[i] = content[i] /\ i \in 1 .. Len(content)
  BY CutLines, Positions DEF TypeOK
<1>2. Reported' = Reported /\ Seen' = Seen
  BY DEF Reported, Told, reports, Seen
<1>3. Newest' = Size'
  BY DEF Newest
<1>4. ASSUME ~disguised', ~shrunk', path' = inode', path' # Null
      PROVE  last_pos' <= Newest' /\ Passed'
  <2>1. ~disguised /\ ~shrunk /\ ~(Size' < last_pos)
    BY <1>4 DEF Resized
  <2>2. last_pos <= Newest'
    <3>1. Size' \in Int
      BY <1>1 DEF Size
    <3>2. last_pos \in Nat
      BY DEF TypeOK
    <3> QED
      BY <1>3, <2>1, <3>1, <3>2
  <2>3. CASE k = 0
    BY <1>1, <2>2, <2>3 DEF Passed
  <2>4. CASE k # 0
    <3>1. path = inode /\ path # Null
      BY <1>4, <2>4
    <3>2. \A n \in 1 .. Len(content) : n <= Seen => content[n] \in Reported
      BY <2>1, <3>1 DEF Kept, Passed
    <3> QED
      BY <1>1, <1>2, <2>2, <3>2 DEF Passed
  <2> QED
    BY <2>3, <2>4
<1> QED
  BY <1>4 DEF Kept

\* A record that is overwritten takes its number along.
LEMMA KeptWrapped ==
  ASSUME TypeOK, Watching, Kept, Wrap
  PROVE  Kept'
<1> DEFINE c == content
<1>1. /\ type = "eventlog" /\ path = inode /\ path # Null /\ ~shrunk
      /\ c \in Seq(Lines) /\ c # <<>> /\ {oldest, last_pos} \subseteq Nat
  BY LogAssumption DEF Wrap, Disturb, Of, Watching, TypeOK
<1>2. /\ content' = Tail(c) /\ oldest' = oldest + 1
      /\ UNCHANGED <<type, path, inode, last_pos, disguised>> /\ UNCHANGED reports
  BY DEF Wrap, Disturb, watcher
<1>3. Reported' = Reported
  BY <1>2 DEF Reported, Told, reports
<1>4. Newest = oldest + Len(c) - 1 /\ Newest' = (oldest + 1) + Len(Tail(c)) - 1
  BY <1>1, <1>2 DEF Newest
<1> HIDE DEF c
<1>5. /\ Len(c) \in Nat /\ Len(Tail(c)) = Len(c) - 1
      /\ \A n \in 1 .. Len(Tail(c)) : Tail(c)[n] = c[n + 1] /\ n + 1 \in 1 .. Len(c)
  BY <1>1, HeadTailProperties, LenProperties
<1>6. \A n \in 1 .. Len(Tail(c)) : n <= Seen' => n + 1 <= Seen
  BY <1>1, <1>2, <1>5 DEF Seen
<1>7. ASSUME ~disguised
      PROVE  last_pos <= Newest' /\ Passed'
  <2>1. last_pos <= Newest /\ \A n \in 1 .. Len(c) : n <= Seen => c[n] \in Reported
    BY <1>1, <1>7 DEF Kept, Passed, c
  <2>2. last_pos <= Newest'
    BY <1>1, <1>4, <1>5, <2>1
  <2>3. \A n \in 1 .. Len(Tail(c)) : n <= Seen' => Tail(c)[n] \in Reported
    BY <1>5, <1>6, <2>1
  <2> QED
    BY <1>2, <1>3, <2>2, <2>3 DEF Passed
<1> QED
  BY <1>2, <1>7 DEF Kept

\* A stat passes nothing, unless the file fell short of the position and grew back.
LEMMA KeptStat ==
  ASSUME TypeOK, Kept, Stat
  PROVE  Kept'
<1>1. /\ type = "file" /\ path # Null /\ inode' = path /\ last_pos' = Position
      /\ disguised' = (disguised \/ GrownBack)
      /\ UNCHANGED <<type, path, content, half, oldest, capped, split, lost>>
  BY DEF Stat, file
<1>2. {Size, last_pos, Position, Len(content)} \subseteq Nat /\ Newest = Size
  BY <1>1, Positions
<1>3. Newest' = Size /\ Position <= Size
  BY <1>1, <1>2 DEF Newest, Size, Position
<1>4. Reported \subseteq Reported'
  <2>1. Told \subseteq Told' \cup before' /\ before \subseteq before'
    BY DEF Stat, Again, Told
  <2> QED
    BY <1>1, <2>1 DEF Reported
<1>5. ASSUME ~disguised'
      PROVE  Passed'
  <2>1. CASE path # inode \/ Size < last_pos
    <3>1. Seen' = 0
      <4>1. last_pos' = 0
        BY <1>1, <2>1 DEF Position
      <4> QED
        BY <1>1, <4>1 DEF Seen
    <3> QED
      BY <1>1, <1>2, <3>1 DEF Passed
  <2>2. CASE path = inode /\ ~(Size < last_pos)
    <3>1. Seen' = Seen
      BY <1>1, <2>2 DEF Position, Seen
    <3>2. ~disguised /\ ~shrunk
      <4>1. ~disguised /\ ~GrownBack
        BY <1>1, <1>5
      <4>2. Size >= last_pos
        BY <1>2, <2>2
      <4> QED
        BY <2>2, <4>1, <4>2 DEF GrownBack
    <3>3. Passed
      BY <1>1, <2>2, <3>2 DEF Kept
    <3> QED
      BY <1>1, <1>4, <2>2, <3>1, <3>3 DEF Passed
  <2> QED
    BY <2>1, <2>2
<1> QED
  BY <1>1, <1>3, <1>5 DEF Kept

(* A check has dealt with all that lies past the position.                  *)
LEMMA ReadAll ==
  ASSUME TypeOK, Reads
  PROVE  /\ Reported \subseteq Reported'
         /\ \A n \in 1 .. Len(content) : n > Seen /\ last_pos < Newest => content[n] \in Reported'
<1> DEFINE r == Slice(content, Seen, Whole)
<1>1. /\ Seen \in Nat /\ r \in Seq(Lines) /\ UNCHANGED before
      /\ MatchRaises \/ (Match /\ \E room \in Nat : Report(r, room))
  BY Reading
<1>2. /\ Whole \in 0 .. Len(content) /\ {Len(content), last_pos} \subseteq Nat /\ Newest \in Int
      /\ content \in Seq(Lines) /\ matched \in Seq(Lines) /\ capped \subseteq Lines
  BY Positions DEF TypeOK
<1>3. \A n \in 1 .. Whole : n > Seen => \E m \in 1 .. Len(r) : r[m] = content[n]
  BY <1>1, <1>2, SliceLines
<1> HIDE DEF r
<1>4. CASE MatchRaises
  <2>1. UNCHANGED <<matched, before, capped, split>>
        /\ lost' = lost \cup { content[n] : n \in Seen + 1 .. Len(content) }
    BY <1>4 DEF MatchRaises
  <2>2. Reported \subseteq Reported'
    BY <2>1 DEF Reported, Told
  <2>3. \A n \in 1 .. Len(content) : n > Seen => n \in Seen + 1 .. Len(content)
    BY <1>1, <1>2
  <2> QED
    BY <2>1, <2>2, <2>3 DEF Reported
<1>5. CASE Match /\ \E room \in Nat : Report(r, room)
  <2>1. /\ Told \subseteq Told' /\ capped \subseteq capped'
        /\ \A m \in 1 .. Len(r) : r[m] \in Told' \cup capped'
    BY <1>1, <1>2, <1>5, Reporting
  <2>2. /\ UNCHANGED <<before, lost>>
        /\ split' = IF half /\ Newest > last_pos THEN split \cup {content[Len(content)]} ELSE split
    BY <1>5 DEF Match
  <2>3. Reported \subseteq Reported'
    BY <2>1, <2>2 DEF Reported
  <2>4. ASSUME NEW n \in 1 .. Len(content), n > Seen, last_pos < Newest
        PROVE  content[n] \in Reported'
    <3>1. CASE n \in 1 .. Whole
      BY <1>3, <2>1, <2>4, <3>1 DEF Reported
    <3>2. CASE n \notin 1 .. Whole
      <4>1. half /\ n = Len(content)
        BY <1>2, <3>2 DEF Whole
      <4> QED
        BY <1>2, <2>2, <2>4, <4>1 DEF Reported
    <3> QED
      BY <3>1, <3>2
  <2> QED
    BY <2>3, <2>4
<1> QED
  BY <1>1, <1>4, <1>5

\* A check passes only what it deals with.
LEMMA KeptReads ==
  ASSUME TypeOK, TypeOK', Kept, Reads
  PROVE  Kept'
<1>1. /\ last_pos' = Tell /\ disguised' = (disguised \/ GrownBack)
      /\ UNCHANGED <<type, path, content, half, oldest, inode, shrunk>>
  BY Reading
<1>2. /\ Reported \subseteq Reported'
      /\ \A n \in 1 .. Len(content) : n > Seen /\ last_pos < Newest => content[n] \in Reported'
  BY ReadAll
<1>3. Newest' = Newest /\ Newest \in Int /\ {last_pos, last_pos', Len(content)} \subseteq Nat
  BY <1>1, Positions DEF Newest, Size, TypeOK
<1>4. ASSUME ~disguised, ~shrunk, path = inode, path # Null
      PROVE  last_pos' = Newest /\ \A n \in 1 .. Len(content) : content[n] \in Reported'
  <2>1. last_pos <= Newest /\ \A n \in 1 .. Len(content) : n <= Seen => content[n] \in Reported
    BY <1>4 DEF Kept, Passed
  <2>2. last_pos' = Newest
    BY <1>1, <1>3, <2>1 DEF Tell
  <2>3. Seen \in Nat
    BY Reading
  <2>4. \A n \in 1 .. Len(content) : n <= Seen \/ n > Seen
    BY <2>3
  <2>5. last_pos = Newest => \A n \in 1 .. Len(content) : n <= Seen
    <3>1. last_pos = Newest => Seen' = Seen
      BY <1>1, <2>2 DEF Seen
    <3> QED
      BY <1>1, <3>1, AllSeen
  <2>6. last_pos = Newest \/ last_pos < Newest
    BY <1>3, <2>1
  <2> QED
    BY <1>2, <2>1, <2>2, <2>4, <2>5, <2>6
<1>5. ~disguised' => ~disguised
  BY <1>1
<1>6. ASSUME ~disguised', ~shrunk', path' = inode', path' # Null
      PROVE  last_pos' <= Newest' /\ Passed'
  <2>1. last_pos' = Newest /\ \A n \in 1 .. Len(content) : content[n] \in Reported'
    BY <1>1, <1>4, <1>5, <1>6
  <2> QED
    BY <1>1, <1>3, <2>1 DEF Passed
<1> QED
  BY <1>6 DEF Kept

\* No step makes the watcher pass what was not dealt with.
LEMMA KeepsKept ==
  ASSUME TypeOK, TypeOK', Watching, Kept, [Next]_vars
  PROVE  Kept'
<1>1. CASE Rotate \/ Reuse
  <2>1. content' = <<>> /\ type = "file" /\ Resized
        /\ UNCHANGED <<type, oldest, inode, last_pos, reports>>
    BY <1>1 DEF Rotate, Reuse, Replace, Disturb, Of, watcher
  <2>2. 0 \in 0 .. Len(content) /\ content' = SubSeq(content, 1, 0)
    <3>1. SubSeq(content, 1, 0) \in Seq(Lines) /\ Len(SubSeq(content, 1, 0)) = 0 /\ Len(content) \in Nat
      BY CutLines, Positions DEF TypeOK
    <3> QED
      BY <2>1, <3>1, EmptySeq
  <2> QED
    BY <2>1, <2>2, KeptResized
<1>2. CASE Truncate
  <2>1. PICK n \in 0 .. Len(content) : content' = SubSeq(content, 1, n)
    BY <1>2 DEF Truncate
  <2>2. path' = path /\ type = "file" /\ Resized
        /\ UNCHANGED <<type, oldest, inode, last_pos, reports>>
    BY <1>2 DEF Truncate, Disturb, Of, watcher
  <2> QED
    BY <2>1, <2>2, KeptResized
<1>3. CASE Remove
  BY <1>3 DEF Remove, Kept
<1>4. CASE Clear
  <2>1. /\ type' = "eventlog" /\ oldest' = 1 /\ content' = <<>> /\ last_pos' = last_pos
        /\ disguised' = (disguised \/ last_pos # 0)
    BY <1>4 DEF Clear, Disturb, Of, watcher
  <2>2. Len(content') = 0
    BY <2>1, EmptySeq
  <2>3. Newest' = 0
    BY <2>1, <2>2 DEF Newest
  <2> QED
    <3>1. ASSUME ~disguised'
          PROVE  last_pos' <= Newest'
      <4>1. last_pos = 0
        BY <2>1, <3>1
      <4> QED
        BY <2>1, <2>3, <4>1
    <3>2. Passed'
      BY <2>2 DEF Passed
    <3> QED
      BY <3>1, <3>2 DEF Kept
<1>5. CASE Finish
  BY <1>5, KeptSame DEF Finish, watcher
<1>6. CASE ReadFails \/ OpenEvents
  BY <1>6, KeptSame DEF ReadFails, OpenEvents, file
<1>7. CASE UNCHANGED vars
  BY <1>7, KeptSame DEF vars, reports
<1> QED
  BY <1>1, <1>2, <1>3, <1>4, <1>5, <1>6, <1>7, KeptWritten, KeptWrapped, KeptStat, KeptReads
     DEF Next, Owner, Check

-------------------------------------------------------------------------------
Inductive == TypeOK /\ Watching /\ Sound /\ Fresh /\ Kept

\* The watcher starts before the first line, or past the newest record.
LEMMA InductiveInit == Init => Inductive
<1> SUFFICES ASSUME Init PROVE Inductive
  OBVIOUS
<1> DEFINE first == [n \in 1 .. written |-> n]
<1>1. /\ type \in Types /\ path \in Inodes \cup {Null} /\ inode = path /\ used = {path} \ {Null}
      /\ written \in 0 .. 1 /\ (path = Null => written = 0)
      /\ content = first
      /\ half \in BOOLEAN /\ (half => type # "eventlog" /\ written = 1)
      /\ type = "eventlog" => path \in Inodes /\ last_pos = written /\ capped = 1 .. written
      /\ type # "eventlog" => last_pos = 0 /\ capped = {}
  <2>1. CASE type = "eventlog"
    BY <2>1, LogAssumption DEF Init, InitEvents
  <2>2. CASE type # "eventlog"
    <3>1. written \in 0 .. 1 /\ (path = Null => written = 0)
      BY <2>2 DEF Init, InitFile
    <3>2. half \in IF written = 1 THEN BOOLEAN ELSE {FALSE}
      BY <2>2 DEF Init, InitFile
    <3>3. half \in BOOLEAN /\ (half => written = 1)
      <4>1. CASE written = 1
        BY <3>2, <4>1
      <4>2. CASE written # 1
        BY <3>2, <4>2
      <4> QED
        BY <4>1, <4>2
    <3> QED
      BY <2>2, <3>1, <3>3 DEF Init, InitFile
  <2> QED
    BY <2>1, <2>2
<1>2. /\ matched = <<>> /\ st = <<>> /\ oldest = 1 /\ disturbed = 0
      /\ before = {} /\ split = {} /\ lost = {}
      /\ raced = FALSE /\ shrunk = FALSE /\ disguised = FALSE
  BY DEF Init
<1>3. written \in Nat /\ written \in 0 .. MaxLines /\ \A n \in 1 .. written : n \in Lines
  BY <1>1, LogAssumption DEF Lines
<1>4. first \in Seq(Lines) /\ Len(first) = written /\ \A n \in 1 .. written : first[n] = n
  <2>1. first \in [1 .. written -> Lines]
    BY <1>3
  <2> QED
    BY <1>3, <2>1
<1> HIDE DEF first
<1>5. Len(matched) = 0 /\ matched \in Seq(Lines) /\ st \in Seq(Nat) /\ Len(st) = 0
  BY <1>2, EmptySeq
<1>6. TypeOK
  <2>1. path = Null => content = <<>>
    BY <1>1, <1>4, EmptySeq
  <2>2. half => type = "file" /\ content # <<>>
    <3>1. half => type = "file" /\ Len(first) = 1
      BY <1>1, <1>4, LogAssumption
    <3>2. content # <<>> \/ Len(first) = 0
      BY <1>1, EmptySeq
    <3> QED
      BY <3>1, <3>2
  <2>3. last_pos \in Nat /\ capped \subseteq Lines
    BY <1>1, <1>3
  <2>4. disturbed \in 0 .. MaxDisturbed /\ oldest \in Nat \ {0}
    BY <1>2, LogAssumption
  <2>5. {raced, shrunk, disguised} \subseteq BOOLEAN
    BY <1>2
  <2>6. before \cup capped \cup split \cup lost \subseteq Lines
    BY <1>2, <2>3
  <2>7. used \subseteq Inodes /\ inode \in used \cup {Null}
    BY <1>1
  <2> QED
    BY <1>1, <1>2, <1>3, <1>4, <1>5, <2>1, <2>2, <2>3, <2>4, <2>5, <2>6, <2>7 DEF TypeOK
<1>7. Watching
  BY <1>1, <1>2 DEF Watching
<1>8. Sound /\ Once(matched)
  BY <1>1, <1>3, <1>4, <1>5 DEF Sound, Once
<1>9. Fresh
  BY <1>2, <1>5, <1>8 DEF Fresh
<1>10. Kept
  <2>1. CASE type = "eventlog"
    <3>1. \A n \in 1 .. Len(content) : content[n] \in Reported
      BY <1>1, <1>4, <2>1 DEF Reported
    <3>2. Newest = written
      BY <1>1, <1>2, <1>3, <1>4, <2>1 DEF Newest
    <3> QED
      BY <1>1, <1>3, <2>1, <3>1, <3>2 DEF Kept, Passed
  <2>2. CASE type = "file"
    <3>1. last_pos = 0 /\ Newest \in Nat
      BY <1>1, <1>6, <2>2, Positions
    <3>2. Seen = 0
      BY <2>2, <3>1 DEF Seen
    <3> QED
      BY <1>1, <1>3, <1>4, <3>1, <3>2 DEF Kept, Passed
  <2> QED
    BY <1>1, <2>1, <2>2, LogAssumption
<1> QED
  BY <1>6, <1>7, <1>8, <1>9, <1>10 DEF Inductive

\* Every step keeps the inductive invariant.
LEMMA InductiveNext == Inductive /\ [Next]_vars => Inductive'
<1> SUFFICES ASSUME Inductive, [Next]_vars PROVE Inductive'
  OBVIOUS
<1>1. TypeOK /\ Watching /\ Sound /\ Fresh /\ Kept
  BY DEF Inductive
<1>2. TypeOK'
  BY <1>1, KeepsType
<1> QED
  BY <1>1, <1>2, KeepsWatching, KeepsFresh, KeepsKept DEF Inductive

\* So it is one.
LEMMA Invariance == Spec => []Inductive
<1> QED
  BY InductiveInit, InductiveNext, PTL DEF Spec

(* The monitor's variables have their types.                                *)
THEOREM Typing == Spec => []TypeOK
<1>1. Inductive => TypeOK
  BY DEF Inductive
<1> QED
  BY <1>1, Invariance, PTL

(* No line is reported twice by checks that are not raced, but once more    *)
(* for every stat that finds the file shorter than the position; no event  *)
(* ever.                                                                   *)
THEOREM ReportsOnce == Spec => []OnceUnlessRaced
<1>1. Inductive => OnceUnlessRaced
  BY LenProperties DEF Inductive, TypeOK, Fresh, Once, OnceUnlessRaced
<1> QED
  BY <1>1, Invariance, PTL

(* No line is left unread behind the position, whatever raises when, unless *)
(* the file fell short of it since the last stat, or before one unseen.     *)
THEOREM LeavesNothing == Spec => []NothingSkipped
<1>1. Inductive => NothingSkipped
  <2> SUFFICES ASSUME Inductive, ~disguised, ~shrunk PROVE Passed
    BY DEF NothingSkipped
  <2>1. Kept /\ TypeOK
    BY DEF Inductive
  <2>2. CASE path = Null
    BY <2>1, <2>2, EmptySeq DEF TypeOK, Passed
  <2>3. CASE path # Null
    BY <2>1, <2>3 DEF Kept, Passed
  <2> QED
    BY <2>2, <2>3
<1> QED
  BY <1>1, Invariance, PTL

===============================================================================
