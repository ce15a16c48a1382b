------------------------- MODULE CollectionLoopProofs --------------------------
(***************************************************************************)
(* The time budget of the collection loop: how long a cycle takes by the   *)
(* step it is at, and what follows for the health endpoint, the timers and *)
(* a shutdown, whatever the intervals, timeouts and batch size are.        *)
(***************************************************************************)
EXTENDS CollectionLoop, FiniteSetTheorems, TLAPS

(* A batch is as long as its entries: less one entry, less one timeout.     *)
LEMMA Product ==
  /\ \A a, p \in Nat : a * p \in Nat /\ (a - 1) * p + p = a * p
  /\ \A a, b, p \in Nat : a <= b => a * p <= b * p
<1>1. ASSUME NEW a \in Nat, NEW p \in Nat
      PROVE  a * p \in Nat
  OBVIOUS
<1>2. ASSUME NEW a \in Nat, NEW p \in Nat
      PROVE  (a - 1) * p + p = a * p
  OBVIOUS
<1>3. ASSUME NEW a \in Nat, NEW b \in Nat, NEW p \in Nat, a <= b
      PROVE  a * p <= b * p
  <2>1. b - a \in Nat /\ a * p \in Nat /\ b * p \in Nat
    BY <1>1, <1>3
  <2>2. (b - a) * p \in Nat
    BY <1>1, <2>1
  <2>3. b * p = (b - a) * p + a * p
    OBVIOUS
  <2> QED
    BY <2>1, <2>2, <2>3
<1> QED
  BY <1>1, <1>2, <1>3

(* 2 ^ n counts the subsets of 1 .. n.                                      *)
LEMMA PowerNat == \A n \in Nat : 2 ^ n \in Nat
<1> SUFFICES ASSUME NEW n \in Nat PROVE 2 ^ n \in Nat
  OBVIOUS
<1>1. IsFiniteSet(1 .. n) /\ Cardinality(1 .. n) = n
  BY FS_Interval
<1>2. IsFiniteSet(SUBSET (1 .. n)) /\ Cardinality(SUBSET (1 .. n)) = 2 ^ n
  BY <1>1, FS_SUBSET
<1> QED
  BY <1>2, FS_CardinalityType

(* The backoff never exceeds its maximum.                                   *)
LEMMA BackoffRange ==
  ASSUME failures \in Nat
  PROVE  Backoff \in Nat /\ Backoff <= MaxBackoff
<1>1. 2 ^ failures \in Nat /\ MaxBackoff \in Nat
  BY PowerNat, LoopAssumption
<1> QED
  BY <1>1 DEF Backoff, Least

\* The code's numbers are natural numbers, and so are their sums.
LEMMA Parameters ==
  /\ MetricInterval \in Nat /\ HeartbeatInterval \in Nat /\ InventoryInterval \in Nat
  /\ LogInterval \in Nat /\ RetryInterval \in Nat
  /\ CollectTime \in Nat /\ PostTimeout \in Nat /\ BatchSize \in Nat /\ MaxBackoff \in Nat
  /\ StaleAfter \in Nat /\ Start \in Nat /\ MaxFailures \in Nat /\ Null \notin Nat
  /\ FlushMax \in Nat /\ CycleMax \in Nat
<1>1. BatchSize \in Nat /\ PostTimeout \in Nat
  BY LoopAssumption
<1>2. FlushMax \in Nat
  BY <1>1, Product DEF FlushMax
<1> QED
  BY <1>2, LoopAssumption DEF CycleMax

-------------------------------------------------------------------------------
(* Where there is a cycle, and what has happened without one.               *)
Counted ==
  /\ pc = "register" => cycles = 0
  /\ pc \in Cycle => errors < cycles
  /\ pc \in Cycle \cup {"wait"} => cycles > 0
  /\ cycles = 0 => store.at = Null /\ \A t \in Timers : last[t] = 0
  /\ pc \in {"final", "stopped"} => stopAt # Null

\* Every step keeps the types, given that a cycle in progress is not yet an error.
LEMMA KeepsType ==
  ASSUME TypeOK, Counted, [Next]_vars
  PROVE  TypeOK'
<1> USE Parameters DEF TypeOK, Counted, Timers, Untimed, Quiet, NoPost, Post, Takes,
        Answered, Unanswered, Least, Goto, Reset, Cycle, Places
<1>1. CASE Register
  BY <1>1 DEF Register
<1>2. CASE Begin
  BY <1>2 DEF Begin
<1>3. CASE Collect
  BY <1>3 DEF Collect
<1>4. CASE Evaluate
  BY <1>4 DEF Evaluate
<1>5. CASE SendMetrics
  BY <1>5 DEF SendMetrics
<1>6. CASE Heartbeat
  BY <1>6 DEF Heartbeat
<1>7. CASE Inventory
  BY <1>7 DEF Inventory
<1>8. CASE Logs
  BY <1>8 DEF Logs
<1>9. CASE NoRetry
  BY <1>9 DEF NoRetry
<1>10. CASE Retry
  BY <1>10 DEF Retry
<1>11. CASE FlushPost
  BY <1>11 DEF FlushPost
<1>12. CASE FlushDone
  BY <1>12, BackoffRange DEF FlushDone
<1>13. CASE Health
  BY <1>13 DEF Health, Update
<1>14. CASE Fail
  <2>1. DOMAIN store = {"at", "cycles", "errors"}
    OBVIOUS
  <2>2. store' \in [at : Nat \cup {Null}, cycles : Nat, errors : Nat]
    BY <1>14, <2>1 DEF Fail, Update
  <2>3. /\ pc \in Cycle /\ pc' = "wait" /\ errors' = errors + 1
        /\ UNCHANGED <<cycles, stopAt, stopIn, failures, now, last, nextRetry, posts>>
        /\ previous' = Null
    BY <1>14, LoopAssumption DEF Fail, Raises, Stages
  <2>4. clock' \in Nat /\ clock <= clock'
    BY <1>14 DEF Fail, Raises
  <2> QED
    BY <2>2, <2>3, <2>4
<1>15. CASE Wait
  BY <1>15 DEF Wait
<1>16. CASE Leave
  BY <1>16 DEF Leave
<1>17. CASE Stop
  BY <1>17 DEF Stop
<1>18. CASE Signal
  BY <1>18 DEF Signal
<1>19. CASE Elsewhere
  BY <1>19 DEF Elsewhere
<1>20. CASE UNCHANGED vars
  BY <1>20 DEF vars
<1> QED
  BY <1>1, <1>2, <1>3, <1>4, <1>5, <1>6, <1>7, <1>8, <1>9, <1>10, <1>11, <1>12, <1>13,
     <1>14, <1>15, <1>16, <1>17, <1>18, <1>19, <1>20 DEF Next, Main

\* Both updates of the health store stamp the start of the cycle.
LEMMA StampsNow ==
  ASSUME TypeOK, Health \/ Fail
  PROVE  store'.at = now
<1>1. DOMAIN store = {"at", "cycles", "errors"}
  BY DEF TypeOK
<1> QED
  BY <1>1 DEF Health, Fail, Update

\* Every step keeps what is known of the count of cycles.
LEMMA KeepsCount ==
  ASSUME TypeOK, Counted, [Next]_vars
  PROVE  Counted'
<1> USE Parameters DEF TypeOK, Counted, Timers, Untimed, Quiet, NoPost, Post, Takes,
        Answered, Unanswered, Goto, Reset, Cycle, Places
<1>1. CASE Register
  BY <1>1 DEF Register
<1>2. CASE Begin
  BY <1>2 DEF Begin
<1>3. CASE Collect
  BY <1>3 DEF Collect
<1>4. CASE Evaluate
  BY <1>4 DEF Evaluate
<1>5. CASE SendMetrics
  BY <1>5 DEF SendMetrics
<1>6. CASE Heartbeat
  BY <1>6 DEF Heartbeat
<1>7. CASE Inventory
  BY <1>7 DEF Inventory
<1>8. CASE Logs
  BY <1>8 DEF Logs
<1>9. CASE NoRetry
  BY <1>9 DEF NoRetry
<1>10. CASE Retry
  BY <1>10 DEF Retry
<1>11. CASE FlushPost
  BY <1>11 DEF FlushPost
<1>12. CASE FlushDone
  BY <1>12 DEF FlushDone
<1>13. CASE Health
  BY <1>13 DEF Health
<1>14. CASE Fail
  <2>1. /\ pc \in Cycle /\ pc' = "wait" /\ errors' = errors + 1 /\ cycles' = cycles
        /\ UNCHANGED <<stopAt, last>>
    BY <1>14, LoopAssumption DEF Fail, Raises, Stages
  <2> QED
    BY <2>1
<1>15. CASE Wait
  BY <1>15 DEF Wait
<1>16. CASE Leave
  BY <1>16 DEF Leave
<1>17. CASE Stop
  BY <1>17 DEF Stop
<1>18. CASE Signal
  BY <1>18 DEF Signal
<1>19. CASE Elsewhere
  BY <1>19 DEF Elsewhere
<1>20. CASE UNCHANGED vars
  BY <1>20 DEF vars
<1> QED
  BY <1>1, <1>2, <1>3, <1>4, <1>5, <1>6, <1>7, <1>8, <1>9, <1>10, <1>11, <1>12, <1>13,
     <1>14, <1>15, <1>16, <1>17, <1>18, <1>19, <1>20 DEF Next, Main

-------------------------------------------------------------------------------
(* What a cycle has spent at most by the step it is at, since its `now`; a  *)
(* signal that ends the wait does so at any second of it.                   *)
Rest(k) == k * PostTimeout

Spent ==
  [collect   |-> 0,
   evaluate  |-> CollectTime,
   metrics   |-> CollectTime + PostTimeout,
   heartbeat |-> CollectTime + 2 * PostTimeout,
   inventory |-> CollectTime + 3 * PostTimeout,
   logs      |-> 2 * CollectTime + 4 * PostTimeout,
   retry     |-> CycleMax - FlushMax,
   flush     |-> CycleMax - Rest(posts),
   health    |-> CycleMax,
   wait      |-> IF stopAt = Null THEN CycleMax ELSE PeriodMax,
   begin     |-> PeriodMax]

Timed == cycles > 0 /\ pc \in Cycle \cup {"wait", "begin"} => clock - now <= Spent[pc]

(* The fields of Spent, for the provers.                                    *)
LEMMA SpentAt ==
  /\ Spent["collect"] = 0
  /\ Spent["evaluate"] = CollectTime
  /\ Spent["metrics"] = CollectTime + PostTimeout
  /\ Spent["heartbeat"] = CollectTime + 2 * PostTimeout
  /\ Spent["inventory"] = CollectTime + 3 * PostTimeout
  /\ Spent["logs"] = 2 * CollectTime + 4 * PostTimeout
  /\ Spent["retry"] = 2 * CollectTime + 5 * PostTimeout
  /\ Spent["flush"] = CycleMax - Rest(posts)
  /\ Spent["health"] = CycleMax
  /\ Spent["wait"] = IF stopAt = Null THEN CycleMax ELSE PeriodMax
  /\ Spent["begin"] = PeriodMax
<1> QED
  BY Parameters DEF Spent, CycleMax

\* The budget of each step, in the state after.
LEMMA SpentThen ==
  /\ Spent'["collect"] = 0
  /\ Spent'["evaluate"] = CollectTime
  /\ Spent'["metrics"] = CollectTime + PostTimeout
  /\ Spent'["heartbeat"] = CollectTime + 2 * PostTimeout
  /\ Spent'["inventory"] = CollectTime + 3 * PostTimeout
  /\ Spent'["logs"] = 2 * CollectTime + 4 * PostTimeout
  /\ Spent'["retry"] = 2 * CollectTime + 5 * PostTimeout
  /\ Spent'["flush"] = CycleMax - Rest(posts')
  /\ Spent'["health"] = CycleMax
  /\ Spent'["wait"] = IF stopAt' = Null THEN CycleMax ELSE PeriodMax
  /\ Spent'["begin"] = PeriodMax
<1> QED
  BY Parameters DEF Spent, CycleMax

\* What is left of a flush is at most a whole one.
LEMMA RestRange ==
  ASSUME TypeOK
  PROVE  Rest(posts) \in Nat /\ Rest(posts) <= FlushMax
<1>1. posts \in Nat /\ posts <= BatchSize /\ BatchSize \in Nat /\ PostTimeout \in Nat
  BY Parameters DEF TypeOK
<1> QED
  BY <1>1, Product DEF Rest, FlushMax

\* Each POST of a flush takes a timeout off what is left of it.
LEMMA FlushPostRest ==
  ASSUME TypeOK, FlushPost
  PROVE  Rest(posts') + PostTimeout = Rest(posts)
<1>1. posts \in Nat /\ PostTimeout \in Nat /\ posts' = posts - 1
  BY Parameters DEF TypeOK, FlushPost
<1> QED
  BY <1>1, Product DEF Rest

\* The budget changes with the flush's POSTs and the signal only.
LEMMA SameSpent ==
  ASSUME UNCHANGED <<posts, stopAt>>
  PROVE  Spent' = Spent
<1> QED
  BY DEF Spent, Rest

\* No step takes a cycle over its budget.
LEMMA KeepsTime ==
  ASSUME TypeOK, TypeOK', Counted, Timed, [Next]_vars
  PROVE  Timed'
<1>a. /\ {clock, now, clock', now'} \subseteq Nat
      /\ cycles \in Nat /\ pc \in Places
      /\ pc \in Cycle \cup {"wait"} => cycles > 0
      /\ pc = "register" => cycles = 0
  BY DEF TypeOK, Counted
<1>b. Rest(posts) \in Nat /\ Rest(posts) <= FlushMax
  BY RestRange
<1>c. CycleMax = 2 * CollectTime + 5 * PostTimeout + FlushMax /\ PeriodMax = CycleMax + MetricInterval
  BY DEF CycleMax, PeriodMax
<1>d. posts = 0 => Rest(posts) = 0
  BY Parameters DEF Rest
<1>e. posts' \in Nat /\ Rest(posts') \in Nat /\ Rest(posts') <= FlushMax
  <2>1. posts' \in Nat /\ posts' <= BatchSize /\ BatchSize \in Nat /\ PostTimeout \in Nat
    BY Parameters DEF TypeOK
  <2> QED
    BY <2>1, Product DEF Rest, FlushMax
<1> HIDE DEF Spent, Rest, FlushMax, CycleMax, PeriodMax
<1> USE Parameters, SpentAt, SpentThen, <1>a, <1>b, <1>c, <1>d, <1>e
    DEF Timed, Untimed, Quiet, NoPost, Post, Takes, Goto, Cycle, Places
<1>1. CASE Register
  BY <1>1 DEF Register
<1>2. CASE Begin
  BY <1>2 DEF Begin
<1>3. CASE Collect
  BY <1>3 DEF Collect
<1>4. CASE Evaluate
  BY <1>4 DEF Evaluate
<1>5. CASE SendMetrics
  BY <1>5 DEF SendMetrics
<1>6. CASE Heartbeat
  BY <1>6 DEF Heartbeat
<1>7. CASE Inventory
  BY <1>7 DEF Inventory
<1>8. CASE Logs
  BY <1>8 DEF Logs
<1>9. CASE NoRetry
  BY <1>9 DEF NoRetry
<1>10. CASE Retry
  BY <1>10 DEF Retry
<1>11. CASE FlushPost
  <2>1. Rest(posts') + PostTimeout = Rest(posts)
    BY <1>11, FlushPostRest
  <2>2. clock' <= clock + PostTimeout /\ pc' = pc /\ now' = now /\ cycles' = cycles
    BY <1>11 DEF FlushPost
  <2>3. CASE pc = "flush"
    <3>1. clock - now <= CycleMax - Rest(posts)
      BY <2>3
    <3>2. clock' - now <= CycleMax - Rest(posts')
      BY <2>1, <2>2, <3>1
    <3> QED
      BY <2>2, <2>3, <3>2
  <2>4. CASE pc = "final"
    BY <2>2, <2>4
  <2> QED
    BY <1>11, <2>3, <2>4 DEF FlushPost
<1>12. CASE FlushDone
  BY <1>12 DEF FlushDone
<1>13. CASE Health
  BY <1>13 DEF Health
<1>14. CASE Fail
  <2>1. pc \in Stages /\ pc' = "wait" /\ UNCHANGED <<cycles, now, stopAt>>
    BY <1>14, LoopAssumption DEF Fail, Raises
  <2>2. clock' - clock <= CollectTime
    BY <1>14 DEF Fail, Raises
  <2>3. pc \in {"collect", "evaluate", "metrics", "inventory"} /\ cycles > 0
    BY <2>1 DEF Stages
  <2>4. clock - now <= CollectTime + 4 * PostTimeout
    BY <2>3
  <2> QED
    BY <2>1, <2>2, <2>4
<1>15. CASE Wait
  BY <1>15 DEF Wait
<1>16. CASE Leave
  BY <1>16 DEF Leave
<1>17. CASE Stop
  BY <1>17 DEF Stop
<1>18. CASE Signal
  <2>1. CASE pc = "wait"
    BY <1>18, <2>1 DEF Signal
  <2>2. CASE pc # "wait"
    <3>1. UNCHANGED <<clock, now, pc, cycles, posts>>
      BY <1>18, <2>2 DEF Signal
    <3>2. Rest(posts') = Rest(posts)
      BY <3>1 DEF Rest
    <3>3. \A p \in Cycle \cup {"begin"} : Spent'[p] = Spent[p]
      BY <3>2
    <3> QED
      BY <2>2, <3>1, <3>3
  <2> QED
    BY <2>1, <2>2
<1>19. CASE Elsewhere
  <2>1. UNCHANGED <<clock, now, pc, cycles, posts, stopAt>>
    BY <1>19 DEF Elsewhere
  <2> QED
    BY <2>1, SameSpent
<1>20. CASE UNCHANGED vars
  BY <1>20, SameSpent DEF vars
<1> QED
  BY <1>1, <1>2, <1>3, <1>4, <1>5, <1>6, <1>7, <1>8, <1>9, <1>10, <1>11, <1>12, <1>13,
     <1>14, <1>15, <1>16, <1>17, <1>18, <1>19, <1>20 DEF Next, Main

-------------------------------------------------------------------------------
(* The health stamp is the start of this cycle at its end, and until then   *)
(* that of the cycle before; only the first cycle finds none.              *)
Stamped ==
  /\ store.at # Null =>
       /\ pc \in {"wait", "begin"} => store.at = now /\ cycles # 0
       /\ pc \in Cycle => store.at = previous /\ now - store.at <= PeriodMax
  /\ store.at = Null =>
       /\ pc = "register" => clock = Start
       /\ pc = "begin" => cycles = 0 /\ clock - Start <= PostTimeout
       /\ pc \in Cycle => previous = Null /\ now - Start <= PostTimeout
       /\ pc # "wait"

\* No step leaves a stamp of another cycle.
LEMMA KeepsStamp ==
  ASSUME TypeOK, TypeOK', Counted, Timed, Stamped, [Next]_vars
  PROVE  Stamped'
<1>a. /\ {clock, now, clock', Start, PostTimeout} \subseteq Nat /\ pc \in Places
      /\ PeriodMax \in Nat /\ cycles \in Nat /\ Null \notin Nat
      /\ pc = "register" => cycles = 0
      /\ cycles = 0 => store.at = Null
      /\ pc \in Cycle => cycles # 0
      /\ store.at \in Nat \cup {Null}
  BY Parameters DEF TypeOK, Counted, PeriodMax
<1>b. pc = "begin" /\ cycles > 0 => clock - now <= PeriodMax
  BY SpentAt DEF Timed
<1> HIDE DEF PeriodMax
<1> USE <1>a DEF Stamped, Untimed, Quiet, NoPost, Goto, Cycle, Places
<1>1. CASE Register
  BY <1>1 DEF Register, Post, Takes
<1>2. CASE Begin
  <2>1. /\ pc = "begin" /\ pc' = "collect" /\ now' = clock /\ store' = store
        /\ previous' = IF cycles = 0 THEN Null ELSE now
    BY <1>2 DEF Begin
  <2>2. store.at # Null => store'.at = previous' /\ now' - store'.at <= PeriodMax
    BY <1>b, <2>1
  <2>3. store.at = Null => previous' = Null /\ now' - Start <= PostTimeout
    BY <2>1
  <2> QED
    BY <2>1, <2>2, <2>3
<1>3. CASE Collect
  BY <1>3 DEF Collect
<1>4. CASE Evaluate
  BY <1>4 DEF Evaluate
<1>5. CASE SendMetrics
  BY <1>5 DEF SendMetrics
<1>6. CASE Heartbeat
  BY <1>6 DEF Heartbeat
<1>7. CASE Inventory
  BY <1>7 DEF Inventory
<1>8. CASE Logs
  BY <1>8 DEF Logs
<1>9. CASE NoRetry
  BY <1>9 DEF NoRetry
<1>10. CASE Retry
  BY <1>10 DEF Retry
<1>11. CASE FlushPost
  BY <1>11 DEF FlushPost
<1>12. CASE FlushDone
  BY <1>12 DEF FlushDone
<1>13. CASE Health
  <2>1. pc' = "wait" /\ now' = now /\ store'.at = now /\ cycles' = cycles /\ pc \in Cycle
    BY <1>13, StampsNow DEF Health
  <2> QED
    BY <2>1
<1>14. CASE Fail
  <2>1. pc' = "wait" /\ now' = now /\ store'.at = now /\ cycles' = cycles /\ pc \in Cycle
    BY <1>14, StampsNow, LoopAssumption DEF Fail, Raises, Stages
  <2> QED
    BY <2>1
<1>15. CASE Wait
  BY <1>15 DEF Wait
<1>16. CASE Leave
  BY <1>16 DEF Leave
<1>17. CASE Stop
  BY <1>17 DEF Stop
<1>18. CASE Signal
  BY <1>18 DEF Signal
<1>19. CASE Elsewhere
  BY <1>19 DEF Elsewhere
<1>20. CASE UNCHANGED vars
  BY <1>20 DEF vars
<1> QED
  BY <1>1, <1>2, <1>3, <1>4, <1>5, <1>6, <1>7, <1>8, <1>9, <1>10, <1>11, <1>12, <1>13,
     <1>14, <1>15, <1>16, <1>17, <1>18, <1>19, <1>20 DEF Next, Main

-------------------------------------------------------------------------------
(* What a signal has waited for by the step the main thread is at.          *)
Before(p) ==
  CASE p \in Cycle     -> CycleMax
    [] p = "register" -> PostTimeout
    [] OTHER          -> 0

Signalled ==
  stopAt # Null =>
    /\ pc \in Cycle => stopIn \in Cycle /\ stopAt >= now
    /\ pc = "register" => stopIn = "register" /\ clock = stopAt
    /\ pc \in {"wait", "begin"} => clock - stopAt <= Before(stopIn)
    /\ pc = "final" => clock - stopAt <= Before(stopIn) + FlushMax - Rest(posts)
    /\ pc = "stopped" => clock - stopAt <= Before(stopIn) + FlushMax

\* What a signal may have waited for, step by step.
LEMMA BeforeAt ==
  /\ \A p \in Cycle : Before(p) = CycleMax
  /\ Before("register") = PostTimeout
  /\ \A p \in Places \cup {Null} : Before(p) \in Nat
<1> QED
  BY Parameters DEF Before, Cycle, Places

\* No step makes a signal wait for more than that.
LEMMA KeepsSignal ==
  ASSUME TypeOK, TypeOK', Counted, Timed, Signalled, [Next]_vars
  PROVE  Signalled'
<1>a. /\ {clock, now, posts, clock'} \subseteq Nat /\ pc \in Places
      /\ stopAt \in Nat \cup {Null} /\ stopIn \in Places \cup {Null}
      /\ stopAt' \in Nat \cup {Null} /\ stopIn' \in Places \cup {Null}
      /\ now <= clock
  BY DEF TypeOK
<1>b. Rest(posts) \in Nat /\ Rest(posts) <= FlushMax /\ (posts = 0 => Rest(posts) = 0)
  BY RestRange, Parameters DEF Rest
<1>c. posts' \in Nat /\ Rest(posts') \in Nat /\ Rest(posts') <= FlushMax
  <2>1. posts' \in Nat /\ posts' <= BatchSize /\ BatchSize \in Nat /\ PostTimeout \in Nat
    BY Parameters DEF TypeOK
  <2> QED
    BY <2>1, Product DEF Rest, FlushMax
<1>d. /\ pc \in Cycle => clock - now <= Spent[pc]
      /\ pc \in {"final", "stopped"} => stopAt # Null
  BY DEF Timed, Counted
<1>e. Before(stopIn) \in Nat
  BY <1>a, BeforeAt
<1>f. CycleMax = 2 * CollectTime + 5 * PostTimeout + FlushMax
  BY DEF CycleMax
<1> HIDE DEF Rest, FlushMax, CycleMax, PeriodMax, Before
<1> USE Parameters, BeforeAt, <1>a, <1>b, <1>c, <1>d, <1>e
    DEF Signalled, Untimed, Quiet, NoPost, Post, Takes, Goto, Cycle, Places
<1>1. CASE Register
  BY <1>1 DEF Register
<1>2. CASE Begin
  BY <1>2 DEF Begin
<1>3. CASE Collect
  BY <1>3 DEF Collect
<1>4. CASE Evaluate
  BY <1>4 DEF Evaluate
<1>5. CASE SendMetrics
  BY <1>5 DEF SendMetrics
<1>6. CASE Heartbeat
  BY <1>6 DEF Heartbeat
<1>7. CASE Inventory
  BY <1>7 DEF Inventory
<1>8. CASE Logs
  BY <1>8 DEF Logs
<1>9. CASE NoRetry
  BY <1>9 DEF NoRetry
<1>10. CASE Retry
  BY <1>10 DEF Retry
<1>11. CASE FlushPost
  <2>1. Rest(posts') + PostTimeout = Rest(posts)
    BY <1>11, FlushPostRest
  <2>2. clock' <= clock + PostTimeout /\ UNCHANGED <<pc, now, stopAt, stopIn>>
    BY <1>11 DEF FlushPost
  <2>3. CASE pc = "flush"
    BY <1>11, <2>2, <2>3 DEF FlushPost
  <2>4. CASE pc = "final"
    BY <1>11, <2>1, <2>2, <2>4
  <2> QED
    BY <1>11, <2>3, <2>4 DEF FlushPost
<1>12. CASE FlushDone
  BY <1>12 DEF FlushDone
<1>13. CASE Health
  <2>1. pc = "health" /\ pc' = "wait" /\ UNCHANGED <<clock, now, stopAt, stopIn>>
    BY <1>13 DEF Health
  <2>2. clock - now <= CycleMax
    BY <2>1, SpentAt
  <2> QED
    BY <2>1, <2>2
<1>14. CASE Fail
  <2>1. pc \in Stages /\ pc' = "wait" /\ UNCHANGED <<now, stopAt, stopIn>>
    BY <1>14, LoopAssumption DEF Fail, Raises
  <2>2. clock' - clock <= CollectTime
    BY <1>14 DEF Fail, Raises
  <2>3. pc \in {"collect", "evaluate", "metrics", "inventory"}
    BY <2>1 DEF Stages
  <2>4. clock - now <= CollectTime + 3 * PostTimeout
    BY <2>3, SpentAt
  <2>5. clock' - now <= 2 * CollectTime + 3 * PostTimeout
    BY ONLY <1>a, <2>2, <2>4, Parameters
  <2>6. 2 * CollectTime + 3 * PostTimeout <= CycleMax
    BY ONLY <1>f, Parameters
  <2>7. ASSUME stopAt # Null
        PROVE  clock' - stopAt <= Before(stopIn)
    <3>1. stopIn \in Cycle /\ stopAt >= now /\ stopAt \in Nat
      BY <2>3, <2>7
    <3>2. Before(stopIn) = CycleMax
      BY ONLY <3>1, BeforeAt
    <3>3. clock' - stopAt <= CycleMax
      BY ONLY <1>a, <2>5, <2>6, <3>1, Parameters
    <3> QED
      BY ONLY <3>2, <3>3
  <2> QED
    BY <2>1, <2>7
<1>15. CASE Wait
  BY <1>15 DEF Wait
<1>16. CASE Leave
  BY <1>16 DEF Leave
<1>17. CASE Stop
  BY <1>17 DEF Stop
<1>18. CASE Signal
  BY <1>18 DEF Signal
<1>19. CASE Elsewhere
  BY <1>19 DEF Elsewhere
<1>20. CASE UNCHANGED vars
  BY <1>20 DEF vars
<1> QED
  BY <1>1, <1>2, <1>3, <1>4, <1>5, <1>6, <1>7, <1>8, <1>9, <1>10, <1>11, <1>12, <1>13,
     <1>14, <1>15, <1>16, <1>17, <1>18, <1>19, <1>20 DEF Next, Main

-------------------------------------------------------------------------------
(* Where a cycle is past a timer: it was reset in this cycle, or it did not *)
(* ask for anything, and its share of the cycle was not spent.             *)
Past ==
  [heartbeat |-> {"inventory", "logs", "retry", "flush", "health", "wait", "begin"},
   inventory |-> {"logs", "retry", "flush", "health", "wait", "begin"},
   logs      |-> {"retry", "flush", "health", "wait", "begin"},
   retry     |-> {"health", "wait", "begin"}]

Skipped(t) == now - last[t] < Longest[t] /\ clock - now <= Spent[pc] - Share[t]

Checked ==
  errors = 0 /\ cycles > 0 => \A t \in Timers :
    pc \in Past[t] => last[t] = 0 \/ last[t] = now \/ Skipped(t)

\* The backoff counts from the flush's `now`.
BacksOff == nextRetry <= last["retry"] + MaxBackoff

\* The longest rest of each timer and its share of a cycle.
LEMMA Shares ==
  /\ Longest["heartbeat"] = HeartbeatInterval /\ Share["heartbeat"] = PostTimeout
  /\ Longest["inventory"] = InventoryInterval /\ Share["inventory"] = CollectTime + PostTimeout
  /\ Longest["logs"] = LogInterval /\ Share["logs"] = PostTimeout
  /\ Longest["retry"] \in Nat /\ Share["retry"] = FlushMax
  /\ RetryInterval <= Longest["retry"] /\ MaxBackoff <= Longest["retry"]
<1> QED
  BY Parameters DEF Longest, Share

\* They are natural numbers.
LEMMA SharesNat == \A t \in Timers : Longest[t] \in Nat /\ Share[t] \in Nat
<1> QED
  BY Parameters, Shares DEF Timers

\* No step puts a flush off by more than the longest backoff.
LEMMA KeepsBackoff ==
  ASSUME TypeOK, BacksOff, [Next]_vars
  PROVE  BacksOff'
<1>a. {nextRetry, now, last["retry"], last["heartbeat"], last["inventory"], last["logs"]} \subseteq Nat
      /\ last \in [Timers -> Nat] /\ last["retry"] <= now
  BY DEF TypeOK, Timers
<1> USE Parameters, <1>a DEF BacksOff, Untimed, Reset, Timers
<1>1. CASE Register
  BY <1>1 DEF Register
<1>2. CASE Begin
  BY <1>2 DEF Begin
<1>3. CASE Collect
  BY <1>3 DEF Collect
<1>4. CASE Evaluate
  BY <1>4 DEF Evaluate
<1>5. CASE SendMetrics
  BY <1>5 DEF SendMetrics
<1>6. CASE Heartbeat
  BY <1>6 DEF Heartbeat
<1>7. CASE Inventory
  BY <1>7 DEF Inventory
<1>8. CASE Logs
  BY <1>8 DEF Logs
<1>9. CASE NoRetry
  BY <1>9 DEF NoRetry
<1>10. CASE Retry
  BY <1>10 DEF Retry
<1>11. CASE FlushPost
  BY <1>11 DEF FlushPost
<1>12. CASE FlushDone
  <2>1. nextRetry' = now + Backoff /\ last'["retry"] = now
    BY <1>12 DEF FlushDone
  <2>2. Backoff \in Nat /\ Backoff <= MaxBackoff
    BY BackoffRange DEF TypeOK
  <2> QED
    BY <2>1, <2>2
<1>13. CASE Health
  BY <1>13 DEF Health
<1>14. CASE Fail
  BY <1>14 DEF Fail
<1>15. CASE Wait
  BY <1>15 DEF Wait
<1>16. CASE Leave
  BY <1>16 DEF Leave
<1>17. CASE Stop
  BY <1>17 DEF Stop
<1>18. CASE Signal
  BY <1>18 DEF Signal
<1>19. CASE Elsewhere
  BY <1>19 DEF Elsewhere
<1>20. CASE UNCHANGED vars
  BY <1>20 DEF vars
<1> QED
  BY <1>1, <1>2, <1>3, <1>4, <1>5, <1>6, <1>7, <1>8, <1>9, <1>10, <1>11, <1>12, <1>13,
     <1>14, <1>15, <1>16, <1>17, <1>18, <1>19, <1>20 DEF Next, Main

(* No step of a cycle takes longer than the budget says.                    *)
LEMMA Pace ==
  ASSUME TypeOK, TypeOK', Counted, [Next]_vars, cycles > 0,
         pc \in Cycle \cup {"wait", "begin"}, pc' \in Cycle \cup {"wait", "begin"},
         errors' = 0, now' = now
  PROVE  clock' - clock <= Spent'[pc'] - Spent[pc] \/ pc' = "collect"
<1>a. {clock, clock', posts, posts', errors} \subseteq Nat /\ pc \in Places
  BY DEF TypeOK
<1>b. Rest(posts) \in Nat /\ Rest(posts) <= FlushMax /\ (posts = 0 => Rest(posts) = 0)
  BY RestRange, Parameters DEF Rest
<1>c. Rest(posts') \in Nat /\ Rest(posts') <= FlushMax
  <2>1. {posts'} \subseteq Nat /\ posts' <= BatchSize /\ BatchSize \in Nat /\ PostTimeout \in Nat
    BY Parameters DEF TypeOK
  <2> QED
    BY <2>1, Product DEF Rest, FlushMax
<1>d. CycleMax = 2 * CollectTime + 5 * PostTimeout + FlushMax /\ PeriodMax = CycleMax + MetricInterval
  BY DEF CycleMax, PeriodMax
<1>e. \A p \in Cycle \cup {"wait", "begin"} : Spent[p] \in Int
  BY <1>b, <1>d, SpentAt, Parameters DEF Cycle
<1> HIDE DEF Rest, FlushMax, CycleMax, PeriodMax, Spent
<1> USE Parameters, SpentAt, SpentThen, <1>a, <1>b, <1>c, <1>d, <1>e
    DEF Untimed, Quiet, NoPost, Post, Takes, Goto, Cycle, Places
<1>1. CASE Register
  BY <1>1 DEF Register
<1>2. CASE Begin
  BY <1>2 DEF Begin
<1>3. CASE Collect
  BY <1>3 DEF Collect
<1>4. CASE Evaluate
  BY <1>4 DEF Evaluate
<1>5. CASE SendMetrics
  BY <1>5 DEF SendMetrics
<1>6. CASE Heartbeat
  BY <1>6 DEF Heartbeat
<1>7. CASE Inventory
  BY <1>7 DEF Inventory
<1>8. CASE Logs
  BY <1>8 DEF Logs
<1>9. CASE NoRetry
  BY <1>9 DEF NoRetry
<1>10. CASE Retry
  BY <1>10 DEF Retry
<1>11. CASE FlushPost
  <2>1. Rest(posts') + PostTimeout = Rest(posts)
    BY <1>11, FlushPostRest
  <2>2. clock' <= clock + PostTimeout /\ pc' = pc /\ pc = "flush"
    BY <1>11 DEF FlushPost
  <2> QED
    BY <2>1, <2>2
<1>12. CASE FlushDone
  BY <1>12 DEF FlushDone
<1>13. CASE Health
  BY <1>13 DEF Health
<1>14. CASE Fail
  BY <1>14 DEF Fail
<1>15. CASE Wait
  BY <1>15 DEF Wait
<1>16. CASE Leave
  BY <1>16 DEF Leave
<1>17. CASE Stop
  BY <1>17 DEF Stop
<1>18. CASE Signal
  <2>1. CASE pc = "wait"
    BY <1>18, <2>1 DEF Signal
  <2>2. CASE pc # "wait"
    <3>1. UNCHANGED <<clock, pc, posts>>
      BY <1>18, <2>2 DEF Signal
    <3>2. Rest(posts') = Rest(posts)
      BY <3>1 DEF Rest
    <3>3. \A p \in Cycle \cup {"begin"} : Spent'[p] = Spent[p]
      BY <3>2
    <3> QED
      BY <2>2, <3>1, <3>3
  <2> QED
    BY <2>1, <2>2
<1>19. CASE Elsewhere
  <2>1. UNCHANGED <<clock, pc, posts, stopAt>>
    BY <1>19 DEF Elsewhere
  <2> QED
    BY <2>1, SameSpent
<1>20. CASE UNCHANGED vars
  BY <1>20, SameSpent DEF vars
<1> QED
  BY <1>1, <1>2, <1>3, <1>4, <1>5, <1>6, <1>7, <1>8, <1>9, <1>10, <1>11, <1>12, <1>13,
     <1>14, <1>15, <1>16, <1>17, <1>18, <1>19, <1>20 DEF Next, Main

\* A timer that was passed over stays so, as the cycle goes on within its budget.
LEMMA StillSkipped ==
  ASSUME TypeOK, TypeOK', NEW t \in Timers,
         pc \in Cycle \cup {"wait", "begin"}, pc' \in Cycle \cup {"wait", "begin"},
         now' = now, last'[t] = last[t], clock' - clock <= Spent'[pc'] - Spent[pc],
         last[t] = 0 \/ last[t] = now \/ Skipped(t)
  PROVE  last'[t] = 0 \/ last'[t] = now' \/ Skipped(t)'
<1>1. {clock, clock', now, last[t]} \subseteq Nat
  BY DEF TypeOK
<1>2. Spent[pc] \in Int /\ Share[t] \in Int
  <2>1. CycleMax \in Int /\ PeriodMax \in Int /\ Rest(posts) \in Int
    BY Parameters, RestRange DEF PeriodMax
  <2> QED
    BY <2>1, SpentAt, SharesNat, Parameters DEF Cycle
<1>3. PICK s \in Int : s = Spent'[pc']
  <2>1. {posts'} \subseteq Nat /\ PostTimeout \in Nat /\ CycleMax \in Int /\ PeriodMax \in Int
    BY Parameters DEF TypeOK, PeriodMax
  <2>2. Rest(posts') \in Nat
    BY <2>1, Product DEF Rest
  <2>3. Spent'[pc'] \in Int
    BY <2>1, <2>2, SpentThen, Parameters DEF Cycle
  <2> QED
    BY <2>3
<1>4. clock - now <= Spent[pc] - Share[t] => clock' - now <= s - Share[t]
  <2>1. clock' - clock <= s - Spent[pc]
    BY <1>3
  <2> QED
    BY ONLY <1>1, <1>2, <1>3, <2>1
<1>5. Skipped(t) => now - last[t] < Longest[t] /\ clock' - now <= Spent'[pc'] - Share[t]
  BY <1>3, <1>4 DEF Skipped
<1> QED
  BY <1>5 DEF Skipped

\* Every step leaves each timer it has passed reset, or not due.
LEMMA KeepsChecked ==
  ASSUME TypeOK, TypeOK', Counted, Timed, BacksOff, Checked, [Next]_vars
  PROVE  Checked'
<1> SUFFICES ASSUME errors' = 0, cycles' > 0, NEW t \in Timers, pc' \in Past[t]
             PROVE  last'[t] = 0 \/ last'[t] = now' \/ Skipped(t)'
  BY DEF Checked
<1>a. /\ {clock, clock', now, errors, cycles, nextRetry, last[t]} \subseteq Nat /\ pc \in Places
      /\ pc \in Cycle \cup {"wait"} => cycles > 0
      /\ pc = "register" => cycles = 0
      /\ last \in [Timers -> Nat]
  BY DEF TypeOK, Counted
<1>b. /\ t \in {"heartbeat", "inventory", "logs", "retry"}
      /\ Past[t] \subseteq (Cycle \ {"collect"}) \cup {"wait", "begin"}
      /\ Past["heartbeat"] = {"inventory", "logs", "retry", "flush", "health", "wait", "begin"}
      /\ Past["inventory"] = {"logs", "retry", "flush", "health", "wait", "begin"}
      /\ Past["logs"] = {"retry", "flush", "health", "wait", "begin"}
      /\ Past["retry"] = {"health", "wait", "begin"}
  BY DEF Timers, Past, Cycle
<1>c. errors = 0 /\ ~Fail /\ ~Begin /\ ~Register
  <2>1. ~Fail /\ ~Begin
    BY <1>a, <1>b DEF Fail, Begin, Goto
  <2>2. ~Register
    BY <1>a DEF Register, Goto, Quiet
  <2>3. errors' = errors
    BY <2>1, <2>2 DEF Quiet, Collect, Evaluate, SendMetrics, Heartbeat, Inventory, Logs, NoRetry,
         Retry, FlushPost, FlushDone, Health, Wait, Leave, Stop, Signal, Elsewhere, vars, Next, Main
  <2> QED
    BY <2>1, <2>2, <2>3
<1>d. now' = now /\ cycles' = cycles
  BY <1>c DEF Untimed, Quiet, Collect, Evaluate, SendMetrics, Heartbeat, Inventory, Logs, NoRetry,
       Retry, FlushPost, FlushDone, Health, Wait, Leave, Stop, Signal, Elsewhere, vars, Next, Main
<1>1. CASE pc \in Past[t] /\ last'[t] = last[t]
  <2>1. last[t] = 0 \/ last[t] = now \/ Skipped(t)
    BY <1>1, <1>c, <1>d DEF Checked
  <2>2. clock' - clock <= Spent'[pc'] - Spent[pc]
    BY <1>1, <1>b, <1>d, Pace
  <2> QED
    BY <1>1, <1>b, <1>d, <2>1, <2>2, StillSkipped
<1>2. CASE last'[t] = now
  BY <1>2, <1>d
<1>3. CASE Heartbeat /\ last'[t] # now
  <2>1. pc = "heartbeat" /\ pc' = "inventory" /\ t = "heartbeat"
    BY <1>3, <1>b DEF Heartbeat, Goto
  <2>2. last' = last /\ clock' = clock /\ now - last["heartbeat"] < HeartbeatInterval
    BY <1>3, <1>a, <2>1, Parameters DEF Heartbeat, Reset, Due, NoPost
  <2>3. clock - now <= Spent["heartbeat"]
    BY <1>d, <2>1, <1>a DEF Timed, Cycle
  <2> QED
    BY <1>a, <1>d, <2>1, <2>2, <2>3, SpentAt, SpentThen, Shares, Parameters DEF Skipped
<1>4. CASE Inventory /\ pc \notin Past[t] /\ last'[t] # now
  <2>1. pc = "inventory" /\ pc' = "logs" /\ t = "inventory"
    BY <1>4, <1>b DEF Inventory, Goto
  <2>2. last' = last /\ clock' = clock /\ now - last["inventory"] < InventoryInterval
    BY <1>4, <1>a, <2>1, Parameters DEF Inventory, Reset, Due, NoPost
  <2>3. clock - now <= Spent["inventory"]
    BY <1>d, <2>1, <1>a DEF Timed, Cycle
  <2> QED
    BY <1>a, <1>d, <2>1, <2>2, <2>3, SpentAt, SpentThen, Shares, Parameters DEF Skipped
<1>5. CASE Logs /\ pc \notin Past[t] /\ last'[t] # now
  <2>1. pc = "logs" /\ pc' = "retry" /\ t = "logs"
    BY <1>5, <1>b DEF Logs, Goto
  <2>2. last' = last /\ clock' = clock /\ now - last["logs"] < LogInterval
    BY <1>5, <1>a, <2>1, Parameters DEF Logs, Reset, Due, NoPost
  <2>3. clock - now <= Spent["logs"]
    BY <1>d, <2>1, <1>a DEF Timed, Cycle
  <2> QED
    BY <1>a, <1>d, <2>1, <2>2, <2>3, SpentAt, SpentThen, Shares, Parameters DEF Skipped
<1>6. CASE NoRetry /\ pc \notin Past[t]
  <2>1. pc = "retry" /\ pc' = "health" /\ t = "retry" /\ last' = last /\ clock' = clock
    BY <1>6, <1>b DEF NoRetry, Goto, Untimed, NoPost
  <2>2. now - last["retry"] < RetryInterval \/ now < nextRetry
    BY <1>6, <1>a, <2>1, Parameters DEF NoRetry, RetryDue, Due
  <2>3. now - last["retry"] < Longest["retry"]
    BY <1>a, <2>1, <2>2, Parameters, Shares DEF BacksOff
  <2>4. clock - now <= Spent["retry"]
    BY <1>d, <2>1, <1>a DEF Timed, Cycle
  <2>5. Spent'["health"] = Spent["retry"] + FlushMax /\ Spent["retry"] \in Int
    BY SpentAt, SpentThen, Parameters DEF CycleMax
  <2> QED
    BY <1>a, <1>d, <2>1, <2>3, <2>4, <2>5, Shares, Parameters DEF Skipped
<1>7. pc \in Past[t] \/ Heartbeat \/ Inventory \/ Logs \/ NoRetry \/ FlushDone
  BY <1>a, <1>b, <1>c, <1>d DEF Goto, Collect, Evaluate, SendMetrics, Retry, FlushPost, Health,
       Wait, Leave, Stop, Signal, Elsewhere, vars, Next, Main
<1>8. last' = last \/ Heartbeat \/ Inventory \/ Logs \/ FlushDone
  BY <1>c DEF Untimed, Collect, Evaluate, SendMetrics, NoRetry, Retry, FlushPost, Health, Wait,
       Leave, Stop, Signal, Elsewhere, vars, Next, Main
<1>9. CASE FlushDone
  <2>1. pc = "flush" /\ pc' = "health" /\ last' = [last EXCEPT !["retry"] = now]
    BY <1>9 DEF FlushDone, Goto, Reset
  <2> QED
    BY <1>1, <1>2, <1>a, <1>b, <2>1
<1>10. pc \in Past[t] => last'[t] = last[t] \/ FlushDone
  <2>1. CASE Heartbeat
    BY <2>1, <1>b DEF Heartbeat, Goto
  <2>2. CASE Inventory
    BY <2>2, <1>a, <1>b DEF Inventory, Goto, Reset
  <2>3. CASE Logs
    BY <2>3, <1>a, <1>b DEF Logs, Goto, Reset
  <2> QED
    BY <1>8, <2>1, <2>2, <2>3
<1> QED
  BY <1>1, <1>2, <1>3, <1>4, <1>5, <1>6, <1>7, <1>9, <1>10, <1>b

\* No step makes a timer later than its cadence.
LEMMA KeepsCadence ==
  ASSUME TypeOK, TypeOK', Counted, Timed, Checked, Cadence, [Next]_vars
  PROVE  Cadence'
<1> SUFFICES ASSUME errors' = 0, NEW t \in Timers
             PROVE  \/ last'[t] = 0
                    \/ now' - last'[t] <= PeriodMax
                    \/ now' - last'[t] < Longest[t] + PeriodMax - Share[t]
  BY DEF Cadence
<1>a. /\ {clock, now, now', errors, cycles, last[t]} \subseteq Nat
      /\ last \in [Timers -> Nat]
      /\ Longest[t] \in Nat /\ Share[t] \in Nat /\ PeriodMax \in Nat
      /\ cycles = 0 => last[t] = 0
  BY SharesNat, Parameters DEF TypeOK, Counted, PeriodMax
<1>b. errors = 0
  <2>1. CASE Fail
    BY <2>1, <1>a DEF Fail
  <2>2. CASE ~Fail
    BY <2>2 DEF Quiet, Register, Begin, Collect, Evaluate, SendMetrics, Heartbeat, Inventory, Logs,
         NoRetry, Retry, FlushPost, FlushDone, Health, Wait, Leave, Stop, Signal, Elsewhere, vars,
         Next, Main
  <2> QED
    BY <2>1, <2>2
<1>c. \/ last[t] = 0
      \/ now - last[t] <= PeriodMax
      \/ now - last[t] < Longest[t] + PeriodMax - Share[t]
  BY <1>b DEF Cadence
<1>1. CASE Begin
  <2>1. pc = "begin" /\ now' = clock /\ last' = last
    BY <1>1 DEF Begin, Goto
  <2>2. pc \in Past[t]
    BY <2>1 DEF Past, Timers
  <2>3. CASE cycles = 0
    BY <1>a, <2>1, <2>3
  <2>4. CASE cycles > 0
    <3>1. clock - now <= PeriodMax
      BY <2>1, <2>4, SpentAt DEF Timed
    <3>2. \/ last[t] = 0
          \/ last[t] = now
          \/ now - last[t] < Longest[t] /\ clock - now <= PeriodMax - Share[t]
      <4>1. last[t] = 0 \/ last[t] = now \/ Skipped(t)
        BY <1>b, <2>2, <2>4 DEF Checked
      <4>2. Spent[pc] = PeriodMax
        BY <2>1, SpentAt
      <4> QED
        BY <4>1, <4>2 DEF Skipped
    <3>3. \/ last[t] = 0
          \/ clock - last[t] <= PeriodMax
          \/ clock - last[t] < Longest[t] + PeriodMax - Share[t]
      BY ONLY <1>a, <3>1, <3>2
    <3> QED
      BY <2>1, <3>3
  <2> QED
    BY <1>a, <2>3, <2>4
<1>2. CASE ~Begin
  <2>1. now' = now
    BY <1>2 DEF Untimed, Register, Collect, Evaluate, SendMetrics, Heartbeat, Inventory, Logs,
         NoRetry, Retry, FlushPost, FlushDone, Health, Fail, Wait, Leave, Stop, Signal, Elsewhere,
         vars, Next, Main
  <2>2. last'[t] = last[t] \/ last'[t] = now
    BY <1>2, <1>a DEF Untimed, Reset, Register, Collect, Evaluate, SendMetrics, Heartbeat, Inventory,
         Logs, NoRetry, Retry, FlushPost, FlushDone, Health, Fail, Wait, Leave, Stop, Signal,
         Elsewhere, vars, Next, Main
  <2>3. CASE last'[t] = last[t]
    BY <1>c, <2>1, <2>3
  <2>4. CASE last'[t] = now
    <3>1. now - now <= PeriodMax
      BY <1>a
    <3> QED
      BY <2>1, <2>4, <3>1
  <2> QED
    BY <2>2, <2>3, <2>4
<1> QED
  BY <1>1, <1>2

-------------------------------------------------------------------------------
Budget ==
  TypeOK /\ Counted /\ Timed /\ Stamped /\ Signalled /\ BacksOff /\ Checked /\ Cadence

\* The agent starts within the budget.
LEMMA BudgetInit == Init => Budget
<1> SUFFICES ASSUME Init PROVE Budget
  OBVIOUS
<1>1. TypeOK
  BY Parameters DEF Init, TypeOK, Places, NoStatus, Timers
<1>2. Counted /\ Timed /\ Stamped /\ Signalled
  BY DEF Init, Counted, Timed, Stamped, Signalled, Cycle, NoStatus, Timers
<1>3. BacksOff /\ Checked /\ Cadence
  BY Parameters DEF Init, BacksOff, Checked, Cadence, Timers
<1> QED
  BY <1>1, <1>2, <1>3 DEF Budget

\* Every step keeps it.
LEMMA KeepsBudget == Budget /\ [Next]_vars => Budget'
<1> SUFFICES ASSUME Budget, [Next]_vars PROVE Budget'
  OBVIOUS
<1>1. TypeOK /\ Counted /\ Timed /\ Stamped /\ Signalled /\ BacksOff /\ Checked /\ Cadence
  BY DEF Budget
<1>2. TypeOK' /\ Counted'
  BY <1>1, KeepsType, KeepsCount
<1> QED
  BY <1>1, <1>2, KeepsTime, KeepsStamp, KeepsSignal, KeepsBackoff, KeepsChecked, KeepsCadence
     DEF Budget

\* So it is an invariant.
LEMMA InBudget == Spec => []Budget
<1> QED
  BY BudgetInit, KeepsBudget, PTL DEF Spec

(* The loop's variables have their types, and errors are counted cycles.    *)
THEOREM Typing == Spec => []TypeOK
<1>1. Budget => TypeOK
  BY DEF Budget
<1> QED
  BY <1>1, InBudget, PTL

(* No timer waits longer than its interval and a cycle without its part.    *)
THEOREM InTime == Spec => []Cadence
<1>1. Budget => Cadence
  BY DEF Budget
<1> QED
  BY <1>1, InBudget, PTL

(* The endpoint answers by the start of the last cycle that has ended, which *)
(* is bounded: whatever the limit, the timeouts and the batch size are.     *)
THEOREM Alive == Spec => []HealthIsPace
<1>1. ASSUME Budget
      PROVE  HealthIsPace
  <2> SUFFICES ASSUME pc \in Cycle \cup {"wait", "begin"}
               PROVE  IF LastEnded = Null
                      THEN ~Healthy /\ clock - Start <= PostTimeout + CycleMax
                      ELSE /\ Healthy <=> clock - LastEnded <= StaleAfter
                           /\ clock - LastEnded <=
                                IF pc \in Cycle THEN PeriodMax + CycleMax ELSE PeriodMax
    BY DEF HealthIsPace
  <2>1. /\ {clock, now, cycles, Start, PostTimeout} \subseteq Nat /\ store.at \in Nat \cup {Null}
        /\ CycleMax \in Nat /\ PeriodMax \in Nat /\ CycleMax <= PeriodMax /\ StaleAfter \in Nat
        /\ Null \notin Nat
        /\ pc \in Cycle => cycles > 0
        /\ store.at # Null => cycles > 0
        /\ pc \in {"wait", "begin"} => pc \notin Cycle
    BY <1>1, Parameters DEF Budget, TypeOK, Counted, PeriodMax, Cycle
  <2>2. /\ store.at # Null /\ pc \in {"wait", "begin"} => store.at = now /\ cycles # 0
        /\ store.at # Null /\ pc \in Cycle => store.at = previous /\ now - store.at <= PeriodMax
        /\ store.at = Null /\ pc = "begin" => cycles = 0 /\ clock - Start <= PostTimeout
        /\ store.at = Null /\ pc \in Cycle => previous = Null /\ now - Start <= PostTimeout
        /\ store.at = Null => pc # "wait"
    BY <1>1 DEF Budget, Stamped
  <2>3. cycles > 0 => clock - now <= Spent[pc]
    BY <1>1 DEF Budget, Timed
  <2>4. pc \in Cycle => Spent[pc] <= CycleMax
    <3>1. Rest(posts) \in Nat /\ FlushMax \in Nat
      BY <1>1, RestRange, Parameters DEF Budget
    <3>2. CycleMax = 2 * CollectTime + 5 * PostTimeout + FlushMax
      BY DEF CycleMax
    <3> HIDE DEF CycleMax, FlushMax, Rest
    <3> QED
      BY <3>1, <3>2, <2>1, SpentAt, Parameters DEF Cycle
  <2>5. pc \in {"wait", "begin"} => Spent[pc] <= PeriodMax
    BY <2>1, SpentAt
  <2>6. Spent[pc] \in Int
    <3>1. Rest(posts) \in Nat
      BY <1>1, RestRange DEF Budget
    <3> QED
      BY <3>1, <2>1, SpentAt, Parameters DEF Cycle
  <2>7. LastEnded = store.at
    BY <2>1, <2>2 DEF LastEnded
  <2>8. CASE store.at = Null
    <3>1. clock - Start <= PostTimeout + CycleMax
      BY <2>1, <2>2, <2>3, <2>4, <2>6, <2>8
    <3> QED
      BY <2>7, <2>8, <3>1 DEF Healthy
  <2>9. CASE store.at # Null /\ pc \in Cycle
    <3>1. clock - store.at <= PeriodMax + CycleMax
      BY <2>1, <2>2, <2>3, <2>4, <2>6, <2>9
    <3> QED
      BY <2>7, <2>9, <3>1 DEF Healthy
  <2>10. CASE store.at # Null /\ pc \in {"wait", "begin"}
    <3>1. clock - store.at <= PeriodMax
      BY <2>1, <2>2, <2>3, <2>5, <2>6, <2>10
    <3> QED
      BY <2>1, <2>7, <2>10, <3>1 DEF Healthy
  <2> QED
    BY <2>8, <2>9, <2>10
<1> QED
  BY <1>1, InBudget, PTL

(* A signal waits for what is left of a cycle and a flush, no longer.       *)
THEOREM Prompt == Spec => []StopsWithin
<1>1. ASSUME Budget
      PROVE  StopsWithin
  <2> SUFFICES ASSUME pc = "stopped"
               PROVE  clock - stopAt <= FlushMax + Before(stopIn)
    BY DEF StopsWithin, Before
  <2>1. stopAt # Null /\ clock - stopAt <= Before(stopIn) + FlushMax
    BY <1>1 DEF Budget, Counted, Signalled
  <2>2. Before(stopIn) \in Nat /\ FlushMax \in Nat
    BY <1>1, BeforeAt, Parameters DEF Budget, TypeOK
  <2> QED
    BY <2>1, <2>2
<1> QED
  BY <1>1, InBudget, PTL

===============================================================================
