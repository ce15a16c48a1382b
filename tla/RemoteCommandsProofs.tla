------------------------- MODULE RemoteCommandsProofs -------------------------
(***************************************************************************)
(* The rate limit holds for every window, limit and load.  The list the    *)
(* code keeps was pruned at some earlier second, so it still contains      *)
(* every timestamp that any later second can count as recent; and what a   *)
(* window that reaches the present contains is in that list.               *)
(***************************************************************************)
EXTENDS RemoteCommands, FiniteSetTheorems, SequenceTheorems, TLAPS

RateTyped == now \in Nat /\ admitted \subseteq Timestamp /\ IsFiniteSet(admitted)

\* The pruned list is enough, and short enough.
RecentCovers ==
  /\ recent \subseteq admitted
  /\ \A r \in admitted : r.time <= now
  /\ \A r \in admitted : now - r.time < Window => r \in recent
  /\ Cardinality(recent) <= MaxPerWindow

RateInductive == RateTyped /\ RecentCovers /\ RateBound

\* No command was admitted yet.
LEMMA RateInit == Init => RateInductive
BY FS_EmptySet, CommandsAssumption DEF Init, RateInductive, RateTyped, RecentCovers, RateBound

\* Pruning the list keeps it what it is.
LEMMA FreshCovers ==
  ASSUME RateInductive
  PROVE  /\ Fresh \subseteq recent /\ IsFiniteSet(Fresh)
         /\ Cardinality(Fresh) \in Nat /\ Cardinality(Fresh) <= MaxPerWindow
         /\ \A r \in admitted : now - r.time < Window => r \in Fresh
<1>1. IsFiniteSet(recent) /\ Fresh \subseteq recent
  BY FS_Subset DEF RateInductive, RateTyped, RecentCovers, Fresh
<1>2. IsFiniteSet(Fresh) /\ Cardinality(Fresh) <= Cardinality(recent)
      /\ Cardinality(Fresh) \in Nat /\ Cardinality(recent) \in Nat
  BY <1>1, FS_Subset, FS_CardinalityType
<1> QED
  BY <1>1, <1>2, CommandsAssumption DEF RateInductive, RecentCovers, Fresh

\* Every step keeps what was admitted in the last window in the list.
LEMMA RateStep == RateInductive /\ [Next]_vars => RateInductive'
<1> SUFFICES ASSUME RateInductive, [Next]_vars PROVE RateInductive'
  OBVIOUS
<1> USE DEF RateInductive
<1>1. CASE Tick
  <2>1. now \in Nat /\ now' = now + 1 /\ \A r \in admitted : r.time \in Nat
    BY <1>1 DEF Tick, RateTyped, Timestamp
  <2> QED
    BY <1>1, <2>1, CommandsAssumption DEF Tick, RateTyped, RecentCovers, RateBound, InWindow
<1>2. CASE Admit
  <2> DEFINE r == [serial |-> Cardinality(admitted), time |-> now]
  <2>1. Cardinality(admitted) \in Nat /\ now \in Nat
    BY FS_CardinalityType DEF RateTyped
  <2>2. /\ r \in Timestamp /\ r.time = now
        /\ admitted' = admitted \cup {r} /\ recent' = Fresh \cup {r} /\ now' = now
        /\ Cardinality(Fresh) < MaxPerWindow
    BY <1>2, <2>1, FreshCovers, CommandsAssumption DEF Admit, Limited, Timestamp
  <2> HIDE DEF r
  <2>3. RateTyped'
    BY <2>2, FS_AddElement DEF RateTyped
  <2>4. IsFiniteSet(recent') /\ Cardinality(recent') \in Nat /\ Cardinality(recent') <= MaxPerWindow
    <3>1. IsFiniteSet(Fresh \cup {r})
          /\ (Cardinality(Fresh \cup {r}) = Cardinality(Fresh)
              \/ Cardinality(Fresh \cup {r}) = Cardinality(Fresh) + 1)
      BY FreshCovers, FS_AddElement
    <3> QED
      BY <3>1, <2>2, FreshCovers, CommandsAssumption
  <2>5. RecentCovers'
    BY <2>1, <2>2, <2>4, FreshCovers DEF RecentCovers
  <2>6. ASSUME NEW q \in admitted' PROVE Cardinality(InWindow(q.time)') <= MaxPerWindow
    <3>1. q.time \in Nat /\ q.time <= now /\ \A x \in admitted' : x.time \in Nat
      BY <2>1, <2>2, <2>3, <2>6 DEF RateTyped, RecentCovers, Timestamp
    <3>2. CASE now < q.time + Window
      <4>1. InWindow(q.time)' \subseteq recent'
        BY <3>1, <3>2, <2>1, <2>2, FreshCovers, CommandsAssumption DEF InWindow
      <4> QED
        BY <4>1, <2>4, FS_Subset, FS_CardinalityType, CommandsAssumption
    <3>3. CASE now >= q.time + Window
      <4>1. q \in admitted
        BY <2>2, <2>6, <3>1, <3>3, CommandsAssumption
      <4>2. InWindow(q.time)' = InWindow(q.time)
        BY <2>2, <3>1, <3>3, CommandsAssumption DEF InWindow
      <4> QED
        BY <4>1, <4>2 DEF RateBound
    <3> QED
      BY <3>1, <3>2, <3>3, <2>1, CommandsAssumption
  <2> QED
    BY <2>3, <2>5, <2>6 DEF RateBound
<1>3. CASE Reject
  <2>1. recent' = Fresh /\ admitted' = admitted /\ now' = now
    BY <1>3 DEF Reject
  <2> QED
    BY <2>1, FreshCovers DEF RateTyped, RecentCovers, RateBound, InWindow
<1>4. CASE UNCHANGED <<now, recent, admitted>>
  BY <1>4 DEF RateTyped, RecentCovers, RateBound, InWindow
<1> QED
  BY <1>1, <1>2, <1>3, <1>4
  DEF Next, Turn, vars, Fetch, Take, NotADict, NotAName, Refuse, Run, RunEnds, Report, BatchDone

\* No window of 60 seconds sees more than the limit, for every load.
THEOREM RateLimited == Spec => []RateBound
<1>1. RateInductive => RateBound
  BY DEF RateInductive
<1> QED
  BY <1>1, RateInit, RateStep, PTL DEF Spec

-------------------------------------------------------------------------------
(* The type invariant.  command_log is cut to its last LogCap results.     *)
InHand == {"execute", "allow", "run", "send"}

\* The log holds its last results.
LEMMA KeptType ==
  ASSUME NEW l \in Seq(Result)
  PROVE  Kept(l) \in Seq(Result) /\ Len(Kept(l)) <= LogCap
<1> DEFINE m == IF Len(l) > LogCap THEN Len(l) - LogCap + 1 ELSE 1
<1>1. Len(l) \in Nat /\ LogCap \in Nat /\ \A i \in 1 .. Len(l) : l[i] \in Result
  BY LenProperties, ElementOfSeq, CommandsAssumption
<1>2. m \in Int /\ m >= 1 /\ Len(l) - m + 1 <= LogCap
  BY <1>1
<1> HIDE DEF m
<1>3. \A i \in m .. Len(l) : l[i] \in Result
  BY <1>1, <1>2
<1>4. /\ SubSeq(l, m, Len(l)) \in Seq(Result)
      /\ Len(SubSeq(l, m, Len(l))) = IF m <= Len(l) THEN Len(l) - m + 1 ELSE 0
  BY <1>1, <1>2, <1>3, SubSeqProperties
<1>5. Kept(l) = SubSeq(l, m, Len(l))
  BY DEF Kept, m
<1> QED
  BY <1>1, <1>2, <1>4, <1>5

(* What _log() returns with is typed. *)
LEMMA LogType ==
  ASSUME TypeOK, pc \in InHand, NEW s \in Statuses, Log(s)
  PROVE  /\ log' \in Seq(Result) /\ Len(log') <= LogCap
         /\ results' \in Seq(Result) /\ pc' = "send"
         /\ Len(results') = Len(results) + 1
         /\ \A i \in 1 .. Len(results) : results'[i] = results[i]
<1> DEFINE r == [command |-> C, status |-> s]
<1>1. current # <<>> /\ current \in Seq(Commands)
  BY DEF TypeOK, InHand
<1>2. C \in Commands
  BY <1>1, EmptySeq, ElementOfSeq DEF C
<1>3. r \in Result
  BY <1>2 DEF Result
<1>4. log' = Kept(Append(log, r)) /\ results' = Append(results, r) /\ pc' = "send"
  BY DEF Log
<1>5. log \in Seq(Result) /\ results \in Seq(Result)
  BY DEF TypeOK
<1> HIDE DEF r
<1>6. /\ Append(log, r) \in Seq(Result) /\ Append(results, r) \in Seq(Result)
      /\ Len(Append(results, r)) = Len(results) + 1
      /\ \A i \in 1 .. Len(results) : Append(results, r)[i] = results[i]
  BY ONLY <1>3, <1>5, AppendProperties
<1>7. log' \in Seq(Result) /\ Len(log') <= LogCap
  BY <1>4, <1>6, KeptType
<1> QED
  BY <1>4, <1>6, <1>7

\* An execute() that logs is in hand with its command.
Logs == pc \in InHand /\ \E s \in Statuses : Log(s)

\* Three actions end in the log, and touch nothing else.
LEMMA LoggingActions ==
  ASSUME Reject \/ Refuse \/ RunEnds
  PROVE  /\ Logs /\ pc # "send"
         /\ recent' = Fresh \/ recent' = recent
         /\ UNCHANGED <<now, batch, current, admitted, fetched, sent, dropped>>
<1>1. CASE Reject
  BY <1>1 DEF Reject, Logs, InHand, Statuses
<1>2. CASE Refuse
  BY <1>2 DEF Refuse, Logs, InHand, Statuses
<1>3. CASE RunEnds
  BY <1>3 DEF RunEnds, Logs, InHand, Statuses
<1> QED
  BY <1>1, <1>2, <1>3

\* Where every command is, and what the backend has been told.
Tally ==
  /\ fetched = Len(sent) + Len(current) + Len(batch) + dropped
  /\ Len(current) = IF pc \in InHand THEN 1 ELSE 0
  /\ pc = "wait" => batch = <<>>
  /\ Len(results) = Len(sent) + (IF pc = "send" THEN 1 ELSE 0)
  /\ \A i \in 1 .. Len(sent) : sent[i] = results[i]

\* Every step keeps the types.
LEMMA TypeStep == TypeOK /\ Tally /\ [Next]_vars => TypeOK'
<1> SUFFICES ASSUME TypeOK, Tally, [Next]_vars PROVE TypeOK'
  OBVIOUS
<1> USE DEF TypeOK
<1>1. CASE Tick
  BY <1>1 DEF Tick
<1>2. CASE Fetch
  <2>1. PICK n \in 1 .. MaxBatch : \E b \in [1 .. n -> Commands] :
          batch' = b /\ fetched' = fetched + n
    BY <1>2 DEF Fetch
  <2>2. batch' \in Seq(Commands)
    BY <2>1, CommandsAssumption
  <2> QED
    BY <1>2, <2>1, <2>2, CommandsAssumption DEF Fetch
<1>3. CASE Take
  <2>1. Head(batch) \in Commands /\ Tail(batch) \in Seq(Commands)
    BY <1>3, HeadTailProperties DEF Take
  <2> QED
    BY <1>3, <2>1 DEF Take
<1>4. CASE NotADict \/ NotAName
  <2>1. /\ pc' = "wait" /\ batch' = <<>> /\ current' = <<>> /\ dropped' = dropped + 1 + Len(batch)
        /\ UNCHANGED <<now, recent, log, admitted, fetched, results, sent>>
    BY <1>4 DEF NotADict, NotAName, Abort
  <2>2. Len(batch) \in Nat /\ <<>> \in Seq(Commands)
    BY LenProperties, EmptySeq
  <2> QED
    BY <2>1, <2>2
<1>5. CASE Admit
  <2> DEFINE r == [serial |-> Cardinality(admitted), time |-> now]
  <2>1. r \in Timestamp
    BY FS_CardinalityType DEF Timestamp
  <2>2. recent' = Fresh \cup {r} /\ admitted' = admitted \cup {r}
    BY <1>5 DEF Admit
  <2>3. Fresh \subseteq recent /\ IsFiniteSet(Fresh)
    BY FS_Subset DEF Fresh
  <2> HIDE DEF r
  <2>4. /\ recent' \subseteq Timestamp /\ IsFiniteSet(recent')
        /\ admitted' \subseteq Timestamp /\ IsFiniteSet(admitted')
    BY <2>1, <2>2, <2>3, FS_AddElement
  <2> QED
    BY <1>5, <2>4 DEF Admit
<1>6. CASE Reject \/ Refuse \/ RunEnds
  <2>1. Fresh \subseteq recent /\ IsFiniteSet(Fresh)
    BY FS_Subset DEF Fresh
  <2>2. /\ Logs /\ recent' \subseteq recent /\ IsFiniteSet(recent')
        /\ UNCHANGED <<now, batch, current, admitted, fetched, sent, dropped>>
    BY <1>6, <2>1, LoggingActions
  <2>3. /\ log' \in Seq(Result) /\ Len(log') <= LogCap
        /\ results' \in Seq(Result) /\ pc' = "send"
    BY <2>2, LogType DEF Logs
  <2>4. current # <<>>
    BY <2>2 DEF Logs, InHand
  <2> QED
    BY <2>2, <2>3, <2>4
<1>7. CASE Run
  BY <1>7 DEF Run
<1>8. CASE BatchDone
  BY <1>8 DEF BatchDone
<1>9. CASE UNCHANGED vars
  BY <1>9 DEF vars
<1>10. CASE Report
  <2>1. Len(results) \in 1 .. Len(results)
    BY <1>10, LenProperties DEF Report, Tally
  <2>2. results[Len(results)] \in Result
    BY <2>1, ElementOfSeq
  <2>3. sent' \in Seq(Result)
    BY <1>10, <2>2, AppendProperties DEF Report
  <2> QED
    BY <1>10, <2>3 DEF Report
<1> QED
  BY <1>1, <1>2, <1>3, <1>4, <1>5, <1>6, <1>7, <1>8, <1>9, <1>10 DEF Next, Turn

\* Every step keeps the tally.
LEMMA TallyStep == TypeOK /\ Tally /\ [Next]_vars => Tally'
<1> SUFFICES ASSUME TypeOK, Tally, [Next]_vars PROVE Tally'
  OBVIOUS
<1> USE DEF Tally
<1>1. /\ batch \in Seq(Commands) /\ current \in Seq(Commands)
      /\ results \in Seq(Result) /\ sent \in Seq(Result)
      /\ Len(batch) \in Nat /\ Len(current) \in Nat /\ Len(results) \in Nat /\ Len(sent) \in Nat
      /\ fetched \in Nat /\ dropped \in Nat /\ Len(<<>>) = 0
  BY LenProperties, EmptySeq DEF TypeOK
<1>2. CASE Fetch
  <2>1. PICK n \in 1 .. MaxBatch : \E b \in [1 .. n -> Commands] :
          batch' = b /\ fetched' = fetched + n
    BY <1>2 DEF Fetch
  <2>2. n \in Nat /\ Len(batch') = n
    BY <2>1, CommandsAssumption
  <2>3. /\ pc = "wait" /\ pc' = "batch"
        /\ UNCHANGED <<current, results, sent, dropped>>
    BY <1>2 DEF Fetch
  <2> QED
    BY <1>1, <2>1, <2>2, <2>3 DEF InHand
<1>3. CASE Take
  <2>1. /\ batch # <<>> /\ batch' = Tail(batch) /\ current' = <<Head(batch)>>
        /\ pc = "batch" /\ pc' = "execute"
        /\ UNCHANGED <<fetched, results, sent, dropped>>
    BY <1>3 DEF Take
  <2>2. Len(batch') = Len(batch) - 1 /\ Len(current') = 1
    BY <1>1, <2>1, HeadTailProperties
  <2> QED
    BY <1>1, <2>1, <2>2 DEF InHand
<1>4. CASE NotADict \/ NotAName
  <2>1. /\ pc \in {"execute", "allow"} /\ pc' = "wait"
        /\ dropped' = dropped + 1 + Len(batch) /\ batch' = <<>> /\ current' = <<>>
        /\ UNCHANGED <<fetched, results, sent>>
    BY <1>4 DEF NotADict, NotAName, Abort
  <2>2. Len(current) = 1 /\ Len(results) = Len(sent)
    BY <2>1 DEF InHand
  <2>3. pc' \notin InHand /\ Len(batch') = 0 /\ Len(current') = 0
    BY <1>1, <2>1 DEF InHand
  <2>4. fetched' = Len(sent') + Len(current') + Len(batch') + dropped'
    <3>1. fetched = Len(sent) + 1 + Len(batch) + dropped
      BY <2>2
    <3>2. Len(sent') = Len(sent) /\ fetched' = fetched /\ dropped' = dropped + 1 + Len(batch)
      BY <2>1
    <3> HIDE DEF Tally
    <3> QED
      BY <1>1, <2>3, <3>1, <3>2
  <2>5. Len(results') = Len(sent') + (IF pc' = "send" THEN 1 ELSE 0)
    BY <1>1, <2>1, <2>2
  <2>6. \A i \in 1 .. Len(sent') : sent'[i] = results'[i]
    BY <2>1
  <2> QED
    BY <2>1, <2>3, <2>4, <2>5, <2>6
<1>5. CASE Admit
  BY <1>1, <1>5 DEF Admit, InHand
<1>6. CASE Reject \/ Refuse \/ RunEnds
  <2>1. /\ Logs /\ pc # "send"
        /\ UNCHANGED <<batch, current, fetched, sent, dropped>>
    BY <1>6, LoggingActions
  <2>2. /\ pc \in InHand /\ pc' = "send" /\ Len(results') = Len(results) + 1
        /\ \A i \in 1 .. Len(results) : results'[i] = results[i]
    BY <2>1, LogType DEF Logs
  <2> QED
    BY <1>1, <2>1, <2>2 DEF InHand
<1>7. CASE Report
  <2>1. /\ pc = "send" /\ pc' = "batch" /\ current' = <<>>
        /\ sent' = Append(sent, results[Len(results)])
        /\ UNCHANGED <<batch, fetched, results, dropped>>
    BY <1>7 DEF Report
  <2>2. Len(results) = Len(sent) + 1 /\ results[Len(results)] \in Result
    BY <1>1, <2>1, ElementOfSeq
  <2>3. /\ Len(sent') = Len(sent) + 1 /\ sent'[Len(sent) + 1] = results[Len(sent) + 1]
        /\ \A i \in 1 .. Len(sent) : sent'[i] = sent[i]
    BY <1>1, <2>1, <2>2, AppendProperties
  <2>4. Len(current) = 1 /\ pc' \notin InHand /\ Len(current') = 0
    BY <1>1, <2>1 DEF InHand
  <2>5. \A i \in 1 .. Len(sent') : sent'[i] = results'[i]
    BY <1>1, <2>1, <2>2, <2>3
  <2>6. fetched' = Len(sent') + Len(current') + Len(batch') + dropped'
    <3>1. /\ fetched = Len(sent) + 1 + Len(batch) + dropped
          /\ fetched' = fetched /\ dropped' = dropped /\ Len(batch') = Len(batch)
      BY <2>1, <2>4
    <3> HIDE DEF Tally
    <3> QED
      BY <1>1, <2>3, <2>4, <3>1
  <2>7. Len(results') = Len(sent') + (IF pc' = "send" THEN 1 ELSE 0)
    <3>1. Len(results') = Len(results) /\ pc' # "send"
      BY <2>1
    <3> HIDE DEF Tally
    <3> QED
      BY <1>1, <2>2, <2>3, <3>1
  <2>8. /\ Len(current') = IF pc' \in InHand THEN 1 ELSE 0
        /\ pc' = "wait" => batch' = <<>>
    BY <2>1, <2>4
  <2> QED
    BY ONLY <2>5, <2>6, <2>7, <2>8 DEF Tally
<1>8. CASE Tick \/ Run \/ BatchDone \/ UNCHANGED vars
  BY <1>1, <1>8 DEF Tick, Run, BatchDone, vars, InHand
<1> QED
  BY <1>2, <1>3, <1>4, <1>5, <1>6, <1>7, <1>8 DEF Next, Turn

\* It holds at the start.
LEMMA TallyInit == Init => TypeOK /\ Tally
BY EmptySeq, FS_EmptySet, CommandsAssumption DEF Init, TypeOK, Tally, InHand

\* So it is an invariant.
LEMMA Tallied == Spec => [](TypeOK /\ Tally)
BY TallyInit, TypeStep, TallyStep, PTL DEF Spec

(* The type invariant: what is reported is what execute() logged, so that  *)
(* the list it is taken from is never empty.                               *)
THEOREM Typing == Spec => []TypeOK
BY Tallied, PTL

(* No command is lost track of, and results go out once, in order.         *)
THEOREM Accounting == Spec => []Accounted
<1>1. TypeOK /\ Tally => Accounted
  <2> SUFFICES ASSUME TypeOK, Tally PROVE sent = SubSeq(results, 1, Len(sent))
    BY DEF Tally, Accounted
  <2>1. /\ sent \in Seq(Result) /\ results \in Seq(Result)
        /\ Len(sent) \in Nat /\ Len(results) \in Nat /\ Len(sent) <= Len(results)
    BY LenProperties DEF TypeOK, Tally
  <2>2. \A i \in 1 .. Len(sent) : results[i] \in Result
    BY <2>1, ElementOfSeq
  <2>3. /\ SubSeq(results, 1, Len(sent)) \in Seq(Result)
        /\ Len(SubSeq(results, 1, Len(sent))) = Len(sent)
        /\ \A i \in 1 .. Len(sent) : SubSeq(results, 1, Len(sent))[i] = results[i]
    BY <2>1, <2>2, SubSeqProperties
  <2> DEFINE p == SubSeq(results, 1, Len(sent))
  <2> HIDE DEF p
  <2>4. \A i \in 1 .. Len(sent) : sent[i] = p[i]
    BY <2>3 DEF Tally, p
  <2> QED
    BY <2>1, <2>3, <2>4, SeqEqual DEF p
<1> QED
  BY <1>1, Tallied, PTL
===============================================================================
