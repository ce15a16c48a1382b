---------------------------- MODULE CollectionLoop ----------------------------
(***************************************************************************)
(* main.py's run_collection_loop with what it drives: the timers of        *)
(* heartbeat, inventory, logs and retry flush, the sender's backoff, the   *)
(* health snapshot, the shutdown event.                                    *)
(*                                                                         *)
(* What a cycle collects, and what is in the retry queue, are left out: a  *)
(* step of the cycle takes time, may raise, and a POST fails or not.  The  *)
(* clock is time.time(), which does not go backwards here.                 *)
(***************************************************************************)
EXTENDS Integers, FiniteSets

CONSTANTS
  MetricInterval, HeartbeatInterval, InventoryInterval, LogInterval, RetryInterval,
  CollectTime,      \* the longest that collectors and checks take
  PostTimeout,      \* the longest a POST takes
  BatchSize,        \* the 50 of flush_retry_queue()
  MaxBackoff,       \* max_backoff_seconds
  Failing,          \* the steps of a cycle that may raise
  StaleAfter,       \* the 300 seconds of the health endpoint
  StopTimeout,      \* TimeoutStopSec of the unit
  Start,            \* the second the agent starts at: past every interval
  Null,             \* Python's None
  MaxCycles,        \* bound: cycles begun
  MaxFailures       \* bound: failures told apart; 2^MaxFailures >= MaxBackoff

Stages == {"collect", "evaluate", "metrics", "inventory"}

ASSUME LoopAssumption ==
  /\ {MetricInterval, HeartbeatInterval, InventoryInterval, LogInterval, RetryInterval,
      CollectTime, PostTimeout, BatchSize, MaxBackoff, StaleAfter, StopTimeout, Start,
      MaxCycles, MaxFailures} \subseteq Nat
  /\ Failing \subseteq Stages
  /\ Null \notin Nat
  /\ \A i \in {HeartbeatInterval, InventoryInterval, LogInterval, RetryInterval} : i <= Start

VARIABLES
  clock,            \* time.time()
  pc,               \* where the main thread is
  now,              \* the cycle's `now`
  last,             \* last_heartbeat, last_inventory, last_log_check, last_retry_flush
  nextRetry,        \* next_retry_attempt_at
  posts,            \* entries a flush has still to post
  failures,         \* _consecutive_failures, shared with the daemon threads
  cycles, errors,   \* cycle_count, cycle_errors
  store,            \* health.status_store
  stopAt,           \* when the shutdown event was set, or Null
  stopIn,           \* history: where the main thread was then
  previous          \* history: in a cycle, when the one before it began, or Null

vars == <<clock, pc, now, last, nextRetry, posts, failures, cycles, errors, store,
          stopAt, stopIn, previous>>

Timers == {"heartbeat", "inventory", "logs", "retry"}

Cycle == {"collect", "evaluate", "metrics", "heartbeat", "inventory", "logs", "retry",
          "flush", "health"}
Places == Cycle \cup {"register", "begin", "wait", "final", "stopped"}

TypeOK ==
  /\ {clock, now, nextRetry, posts, failures, cycles, errors} \subseteq Nat
  /\ pc \in Places
  /\ last \in [Timers -> Nat]
  /\ store \in [at : Nat \cup {Null}, cycles : Nat, errors : Nat]
  /\ stopAt \in Nat \cup {Null}
  /\ stopIn \in Places \cup {Null}
  /\ previous \in Nat \cup {Null}
  /\ posts <= BatchSize /\ now <= clock /\ errors <= cycles
  /\ \A t \in Timers : last[t] <= now

\* _StatusStore.__init__(), update() with some of its fields
NoStatus == [at |-> Null, cycles |-> 0, errors |-> 0]
Update(fields) == store' = [f \in DOMAIN store |-> IF f \in DOMAIN fields THEN fields[f] ELSE store[f]]

Init ==
  /\ clock = Start /\ now = 0 /\ nextRetry = 0
  /\ pc = "register"
  /\ last = [t \in Timers |-> 0]
  /\ posts = 0
  /\ failures = 0
  /\ cycles = 0 /\ errors = 0
  /\ store = NoStatus
  /\ stopAt = Null /\ stopIn = Null
  /\ previous = Null

-------------------------------------------------------------------------------
Least(a, b) == IF a < b THEN a ELSE b

\* MetricSender.backoff_seconds
Backoff == IF failures = 0 THEN 0 ELSE Least(2 ^ failures, MaxBackoff)

Takes(d) == \E s \in 0 .. d : clock' = clock + s

\* The outcome of a POST in _post(), or of a GET in _get().
Answered == failures' = 0
Unanswered == failures' = Least(failures + 1, MaxFailures)

Post == Takes(PostTimeout) /\ (Answered \/ Unanswered)

NoPost == UNCHANGED <<clock, failures>>

Quiet == UNCHANGED <<cycles, errors, store, stopAt, stopIn, previous>>
Untimed == UNCHANGED <<now, last, nextRetry, posts>>

Goto(from, to) == pc = from /\ pc' = to

\* register_agent(), if auto_register is enabled
Register ==
  /\ Goto("register", "begin")
  /\ Post \/ NoPost
  /\ Untimed /\ Quiet

\* while not shutdown_event.is_set(), and the top of a cycle.
Begin ==
  /\ Goto("begin", "collect")
  /\ stopAt = Null
  /\ cycles < MaxCycles
  /\ now' = clock
  /\ cycles' = cycles + 1
  /\ previous' = IF cycles = 0 THEN Null ELSE now
  /\ UNCHANGED <<clock, last, nextRetry, posts, failures, errors, store, stopAt, stopIn>>

Collect ==
  /\ Goto("collect", "evaluate")
  /\ Takes(CollectTime)
  /\ UNCHANGED failures /\ Untimed /\ Quiet

\* Alerts are sent if there are any.
Evaluate ==
  /\ Goto("evaluate", "metrics")
  /\ Post \/ NoPost
  /\ Untimed /\ Quiet

SendMetrics ==
  /\ Goto("metrics", "heartbeat")
  /\ Post
  /\ Untimed /\ Quiet

Due(timer, interval) == now - last[timer] >= interval

Reset(timer) == last' = [last EXCEPT ![timer] = now]

Heartbeat ==
  /\ Goto("heartbeat", "inventory")
  /\ \/ Due("heartbeat", HeartbeatInterval) /\ Post /\ Reset("heartbeat")
     \/ ~Due("heartbeat", HeartbeatInterval) /\ NoPost /\ UNCHANGED last
  /\ UNCHANGED <<now, nextRetry, posts>> /\ Quiet

\* get_inventory() takes its time, too.
Inventory ==
  /\ Goto("inventory", "logs")
  /\ \/ /\ Due("inventory", InventoryInterval)
        /\ Takes(CollectTime + PostTimeout) /\ (Answered \/ Unanswered)
        /\ Reset("inventory")
     \/ ~Due("inventory", InventoryInterval) /\ NoPost /\ UNCHANGED last
  /\ UNCHANGED <<now, nextRetry, posts>> /\ Quiet

\* check_logs() catches its exceptions; results are sent if there are any.
Logs ==
  /\ Goto("logs", "retry")
  /\ \/ Due("logs", LogInterval) /\ (Post \/ NoPost) /\ Reset("logs")
     \/ ~Due("logs", LogInterval) /\ NoPost /\ UNCHANGED last
  /\ UNCHANGED <<now, nextRetry, posts>> /\ Quiet

RetryDue == Due("retry", RetryInterval) /\ now >= nextRetry

NoRetry ==
  /\ Goto("retry", "health")
  /\ ~RetryDue
  /\ NoPost /\ Untimed /\ Quiet

\* Mutant: a batch of one entry more.
RetryMore ==
  /\ Goto("retry", "flush")
  /\ RetryDue
  /\ posts' \in 0 .. BatchSize + 1
  /\ UNCHANGED <<now, last, nextRetry>> /\ NoPost /\ Quiet

\* flush_retry_queue() takes a batch from the queue, perhaps an empty one.
Retry ==
  /\ Goto("retry", "flush")
  /\ RetryDue
  /\ posts' \in 0 .. BatchSize
  /\ UNCHANGED <<now, last, nextRetry>> /\ NoPost /\ Quiet

\* Mutant: an entry is posted until it is accepted.
FlushUntilSent ==
  /\ pc \in {"flush", "final"} /\ posts > 0
  /\ Takes(PostTimeout)
  /\ \/ Answered /\ posts' = posts - 1
     \/ Unanswered /\ posts' = posts
  /\ UNCHANGED <<pc, now, last, nextRetry>> /\ Quiet

FlushPost ==
  /\ pc \in {"flush", "final"} /\ posts > 0
  /\ Post
  /\ posts' = posts - 1
  /\ UNCHANGED <<pc, now, last, nextRetry>> /\ Quiet

\* Mutant: the backoff counts from the end of the flush.
FlushDoneLate ==
  /\ Goto("flush", "health")
  /\ posts = 0
  /\ Reset("retry")
  /\ nextRetry' = clock + Backoff
  /\ UNCHANGED <<now, posts>> /\ NoPost /\ Quiet

FlushDone ==
  /\ Goto("flush", "health")
  /\ posts = 0
  /\ Reset("retry")
  /\ nextRetry' = now + Backoff
  /\ UNCHANGED <<now, posts>> /\ NoPost /\ Quiet

Health ==
  /\ Goto("health", "wait")
  /\ Update([at |-> now, cycles |-> cycles, errors |-> errors])
  /\ previous' = Null
  /\ UNCHANGED <<cycles, errors, stopAt, stopIn>> /\ NoPost /\ Untimed

\* Something the cycle calls raises, after some time.
Raises ==
  /\ pc \in Failing
  /\ pc = "inventory" => Due("inventory", InventoryInterval)
  /\ Takes(CollectTime)

\* Mutant: a failed cycle is not a sign of life.
FailUnseen ==
  /\ Raises
  /\ pc' = "wait"
  /\ errors' = errors + 1
  /\ Update([errors |-> errors + 1])
  /\ previous' = Null
  /\ UNCHANGED <<cycles, stopAt, stopIn, failures>> /\ Untimed

\* The except of the loop: so much for the other steps of the cycle.
Fail ==
  /\ Raises
  /\ pc' = "wait"
  /\ errors' = errors + 1
  /\ Update([at |-> now, errors |-> errors + 1])
  /\ previous' = Null
  /\ UNCHANGED <<cycles, stopAt, stopIn, failures>> /\ Untimed

\* Mutant: time.sleep() in place of shutdown_event.wait().
WaitAsleep ==
  /\ Goto("wait", "begin")
  /\ clock' = clock + MetricInterval
  /\ UNCHANGED failures /\ Untimed /\ Quiet

\* shutdown_event.wait(metric_interval)
Wait ==
  /\ Goto("wait", "begin")
  /\ clock' = IF stopAt = Null THEN clock + MetricInterval ELSE clock
  /\ UNCHANGED failures /\ Untimed /\ Quiet

\* The loop is left: the last flush.
Leave ==
  /\ Goto("begin", "final")
  /\ stopAt # Null
  /\ posts' \in 0 .. BatchSize
  /\ UNCHANGED <<now, last, nextRetry>> /\ NoPost /\ Quiet

Stop ==
  /\ Goto("final", "stopped")
  /\ posts = 0
  /\ NoPost /\ Untimed /\ Quiet

\* SIGTERM or SIGINT; while the thread waits, at some second of the wait.
Signal ==
  /\ pc # "stopped" /\ stopAt = Null
  /\ IF pc = "wait" THEN \E s \in 0 .. MetricInterval : clock' = clock + s ELSE UNCHANGED clock
  /\ stopAt' = clock'
  /\ stopIn' = pc
  /\ UNCHANGED <<pc, failures, cycles, errors, store, previous>> /\ Untimed

\* A daemon thread's POST or GET has an outcome.
Elsewhere ==
  /\ pc # "stopped"
  /\ Answered \/ Unanswered
  /\ UNCHANGED <<clock, pc>> /\ Untimed /\ Quiet

\* What the health endpoint answers.
Healthy == store.at # Null /\ clock - store.at <= StaleAfter

Main ==
  \/ Register \/ Begin \/ Collect \/ Evaluate \/ SendMetrics \/ Heartbeat \/ Inventory \/ Logs
  \/ NoRetry \/ Retry \/ FlushPost \/ FlushDone \/ Health \/ Fail \/ Wait
  \/ Leave \/ Stop

Next == Main \/ Signal \/ Elsewhere

Spec == Init /\ [][Next]_vars

\* The main thread runs: every step of it is over after a bounded time.
FairSpec == Spec /\ WF_vars(Main)
-------------------------------------------------------------------------------
FlushMax == BatchSize * PostTimeout
CycleMax == 2 * CollectTime + 5 * PostTimeout + FlushMax
PeriodMax == CycleMax + MetricInterval

\* What a timer can ask for, and the time that its part of a cycle may take.
Longest ==
  [heartbeat |-> HeartbeatInterval, inventory |-> InventoryInterval, logs |-> LogInterval,
   retry |-> IF RetryInterval < MaxBackoff THEN MaxBackoff ELSE RetryInterval]

Share ==
  [heartbeat |-> PostTimeout, inventory |-> CollectTime + PostTimeout, logs |-> PostTimeout,
   retry |-> FlushMax]

(* Heartbeats, inventories, log checks and flushes of an agent whose cycles *)
(* do not raise are no further apart than one period, or the interval and   *)
(* one period without the like, however long POSTs and flushes take: a      *)
(* timer is looked at once a cycle.  A flush that outlasts the backoff      *)
(* adds nothing, for the backoff counts from the cycle's start.            *)
Cadence ==
  errors = 0 => \A t \in Timers :
    \/ last[t] = 0
    \/ now - last[t] <= PeriodMax
    \/ now - last[t] < Longest[t] + PeriodMax - Share[t]

\* When the last cycle that has ended began.
LastEnded == IF pc \in Cycle THEN previous ELSE IF cycles = 0 THEN Null ELSE now

(* The endpoint calls an agent healthy exactly if the last cycle that has   *)
(* ended, with or without an exception, began at most 300 seconds ago       *)
(* (health.py:51).  An agent that works is called unhealthy in its first    *)
(* cycle, in one that is under way for long, and after one that itself was *)
(* longer, as one with a flush of 50 timeouts is; a cycle within the limit *)
(* ends the alarm, whatever was before it.  What the endpoint looks at is  *)
(* never older than a period, and a cycle if one is under way.             *)
HealthIsPace ==
  pc \in Cycle \cup {"wait", "begin"} =>
    IF LastEnded = Null
    THEN ~Healthy /\ clock - Start <= PostTimeout + CycleMax
    ELSE /\ Healthy <=> clock - LastEnded <= StaleAfter
         /\ clock - LastEnded <= IF pc \in Cycle THEN PeriodMax + CycleMax ELSE PeriodMax

(* A signal is answered within what the step it interrupts leaves of its    *)
(* cycle, and a flush; the wait between cycles is cut short.                *)
StopsWithin ==
  pc = "stopped" =>
    clock - stopAt <= FlushMax + CASE stopIn \in Cycle     -> CycleMax
                                   [] stopIn = "register" -> PostTimeout
                                   [] OTHER               -> 0

\* Once signalled the agent stops, whatever raises or fails.
Stops == stopAt # Null ~> pc = "stopped"

(* "Give the agent time to flush its retry queue and finish an in-flight    *)
(* cycle on SIGTERM before systemd escalates to SIGKILL.  TimeoutStopSec=20" *)
(* (deploy/python-agent.service:15).  Violated: the last flush alone may    *)
(* take 50 timeouts.                                                       *)
StopsInTime == pc = "stopped" => clock - stopAt <= StopTimeout
===============================================================================
