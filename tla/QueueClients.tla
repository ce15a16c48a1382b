----------------------------- MODULE QueueClients -----------------------------
(***************************************************************************)
(* The retry queue under arbitrary callers: every thread enqueues, and the *)
(* threads in Consumers dequeue batches, drop the entries they delivered   *)
(* and requeue the others.  It shows what the queue promises by itself,    *)
(* whatever the sender above it does (Delivery is the real caller).        *)
(***************************************************************************)
EXTENDS RetryQueue, FiniteSets

CONSTANTS
  Consumers,    \* threads that dequeue and requeue
  MaxClock      \* bound: number of enqueues

ASSUME ClientAssumption ==
  /\ Consumers \subseteq Threads /\ IsFiniteSet(Consumers)
  /\ MaxClock \in Nat

VARIABLES
  up,           \* the process runs
  at,           \* where each thread is: outside, in requeue()'s loop, in _save()
  hands,        \* the entries a consumer has dequeued and not yet given back
  clock         \* time.time(), one tick per enqueue

clientVars == <<queue, file, holder, writing, up, at, hands, clock>>

\* enqueue() makes room but requeue() does not: the list outgrows max_size, never
\* by more than one batch per consumer.
ClientTypeOK ==
  /\ QueueTypeOK
  /\ Len(queue) <= MaxSize + Cardinality(Consumers) * BatchSize
  /\ up \in BOOLEAN
  /\ at \in [Threads -> {"idle", "requeue", "save"}]
  /\ hands \in [Threads -> Seq(Entry)]
  /\ clock \in Nat

ClientInit ==
  /\ QueueInit
  /\ up = TRUE
  /\ at = [t \in Threads |-> "idle"]
  /\ hands = [t \in Threads |-> <<>>]
  /\ clock = 0

Go(t, from, to) == at[t] = from /\ at' = [at EXCEPT ![t] = to]

CallEnqueue(t, p) ==
  /\ up /\ clock < MaxClock
  /\ Go(t, "idle", "save")
  /\ Enqueue(t, p, clock)
  /\ clock' = clock + 1
  /\ UNCHANGED <<up, hands>>

CallDequeue(t) ==
  /\ up /\ hands[t] = <<>>
  /\ Go(t, "idle", "save")
  /\ Dequeue(t, BatchSize)
  /\ hands' = [hands EXCEPT ![t] = Front(queue, BatchSize)]
  /\ UNCHANGED <<up, clock>>

\* Mutant: clear() does not save.
CallClearUnsaved(t) ==
  /\ up /\ at[t] = "idle" /\ holder = Nobody
  /\ queue' = <<>>
  /\ UNCHANGED <<file, holder, writing, up, at, hands, clock>>

CallClear(t) ==
  /\ up
  /\ Go(t, "idle", "save")
  /\ Clear(t)
  /\ UNCHANGED <<up, hands, clock>>

\* The caller is done with one of its entries and will not give it back.
Settle(t, i) ==
  /\ up /\ at[t] = "idle"
  /\ hands' = [hands EXCEPT ![t] = SubSeq(@, 1, i - 1) \o SubSeq(@, i + 1, Len(@))]
  /\ UNCHANGED <<queueVars, up, at, clock>>

CallRequeue(t) ==
  /\ up /\ hands[t] # <<>>
  /\ Go(t, "idle", "requeue")
  /\ RequeueBegin(t)
  /\ UNCHANGED <<up, hands, clock>>

RequeueNext(t) ==
  /\ up /\ at[t] = "requeue" /\ hands[t] # <<>>
  /\ RequeueEntry(t, Head(hands[t]))
  /\ hands' = [hands EXCEPT ![t] = Tail(@)]
  /\ UNCHANGED <<up, at, clock>>

RequeueEnd(t) ==
  /\ up /\ hands[t] = <<>>
  /\ Go(t, "requeue", "save")
  /\ UNCHANGED <<queueVars, up, hands, clock>>

BeginSave(t) ==
  /\ up /\ at[t] = "save"
  /\ SaveOpen(t)
  /\ UNCHANGED <<up, at, hands, clock>>

EndSave(t) ==
  /\ up
  /\ Go(t, "save", "idle")
  /\ SaveReturn(t)
  /\ UNCHANGED <<up, hands, clock>>

Kill ==
  /\ up
  /\ up' = FALSE
  /\ Vanish
  /\ at' = [t \in Threads |-> "idle"]
  /\ hands' = [t \in Threads |-> <<>>]
  /\ UNCHANGED clock

Restart ==
  /\ ~up
  /\ up' = TRUE
  /\ Load
  /\ UNCHANGED <<at, hands, clock>>

ClientNext ==
  \/ \E t \in Threads :
       \/ \E p \in Payloads : CallEnqueue(t, p)
       \/ CallClear(t)
       \/ BeginSave(t)
       \/ EndSave(t)
  \/ \E t \in Consumers :
       \/ CallDequeue(t)
       \/ \E i \in DOMAIN hands[t] : Settle(t, i)
       \/ CallRequeue(t)
       \/ RequeueNext(t)
       \/ RequeueEnd(t)
  \/ Kill
  \/ Restart

ClientSpec == ClientInit /\ [][ClientNext]_clientVars

-------------------------------------------------------------------------------
(* The lock hands every entry to one caller: an entry is never both queued *)
(* and in a consumer's hands, nor twice in either.  (Each enqueue has its  *)
(* own timestamp here, so a timestamp names an entry.)                     *)
Places ==
  { <<Nobody, i>> : i \in DOMAIN queue }
    \cup UNION { { <<t, i>> : i \in DOMAIN hands[t] } : t \in Threads }

EntryAt(place) ==
  IF place[1] = Nobody THEN queue[place[2]] ELSE hands[place[1]][place[2]]

EntryOnce ==
  \A a, b \in Places : EntryAt(a).timestamp = EntryAt(b).timestamp => a = b

(* Among entries that were never retried the queue is first-in first-out,  *)
(* and what has been retried stands before all of them: no amount of       *)
(* concurrent enqueueing lets a new entry overtake a retried one.          *)
RetriedFirst ==
  \A i, j \in DOMAIN queue :
    i < j /\ queue[i].retries = 0 =>
      queue[j].retries = 0 /\ queue[i].timestamp < queue[j].timestamp

(* Whenever no method is running, a restart would find exactly the queue   *)
(* that is in memory, provided the disk takes every write.                 *)
FileInSync ==
  Persist /\ ~DiskFaults /\ up /\ holder = Nobody => file = queue
===============================================================================
