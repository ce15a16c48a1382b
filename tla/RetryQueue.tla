------------------------------ MODULE RetryQueue ------------------------------
(***************************************************************************)
(* retry_queue.py: the queue of payloads whose POST failed, shared by all  *)
(* threads of the agent behind one lock and written to a JSON file on      *)
(* every change.                                                           *)
(*                                                                         *)
(* The module holds the queue's state and one action per step a caller     *)
(* takes inside a method; QueueClients and Delivery close the system.      *)
(* A method runs with the lock held: it changes the list, then _save()     *)
(* opens the file with mode "w" (which truncates it), then writes it.  The *)
(* process can die between any two of these steps.                         *)
(***************************************************************************)
EXTENDS Integers, Sequences

CONSTANTS
  Threads,      \* threads that call the queue
  Nobody,       \* the holder of a free lock
  Payloads,     \* what is queued; only its identity matters
  MaxSize,      \* max_size
  BatchSize,    \* dequeue()'s batch_size
  RetryLimit,   \* the 5 of requeue()
  Persist,      \* is persist_path set?
  DiskFaults    \* may opening or writing the file fail?

ASSUME QueueAssumption ==
  /\ MaxSize \in Nat \ {0}
  /\ BatchSize \in Nat \ {0}
  /\ RetryLimit \in Nat \ {0}
  /\ Persist \in BOOLEAN
  /\ DiskFaults \in BOOLEAN
  /\ Nobody \notin Threads

VARIABLES
  queue,        \* self.queue
  file,         \* what _load() makes of the file: a missing, truncated or
                \* half-written file loads as the empty queue
  holder,       \* the thread holding self.lock, or Nobody
  writing       \* the holder has opened the file and not yet written it

queueVars == <<queue, file, holder, writing>>

Entry == [payload : Payloads, timestamp : Nat, retries : Nat]

QueueTypeOK ==
  /\ queue \in Seq(Entry)
  /\ file \in Seq(Entry)
  /\ holder \in Threads \cup {Nobody}
  /\ writing \in BOOLEAN
  /\ writing => holder # Nobody

QueueInit ==
  /\ queue = <<>>
  /\ file = <<>>
  /\ holder = Nobody
  /\ writing = FALSE

-------------------------------------------------------------------------------
(* The list operations of the methods. *)

NewEntry(p, now) == [payload |-> p, timestamp |-> now, retries |-> 0]

\* The payloads that have an entry in the sequence s.
Contents(s) == { s[i].payload : i \in DOMAIN s }

Overflows(q) == Len(q) >= MaxSize

\* Mutant: enqueue() without its size check.
PushUnbounded(q, e) == Append(q, e)

Push(q, e) == Append(IF Overflows(q) THEN Tail(q) ELSE q, e)

\* Mutant: dequeue() keeps the last entry of the batch it returns.
RestOverlap(q, n) == SubSeq(q, n, Len(q))

\* queue[:n] and queue[n:]
Front(q, n) == SubSeq(q, 1, IF n < Len(q) THEN n ELSE Len(q))
Rest(q, n) == SubSeq(q, n + 1, Len(q))

\* Mutant: the retry count runs the wrong way.
RetriedDown(e) == [e EXCEPT !.retries = @ - 1]

Retried(e) == [e EXCEPT !.retries = @ + 1]

\* Mutant: a retried entry joins the end of the queue.
PutBackLast(q, e) ==
  IF Retried(e).retries < RetryLimit THEN Append(q, Retried(e)) ELSE q

\* One turn of requeue()'s loop: an entry below the limit goes to the front,
\* any other is forgotten.
PutBack(q, e) ==
  IF Retried(e).retries < RetryLimit THEN <<Retried(e)>> \o q ELSE q

-------------------------------------------------------------------------------
(* The methods, as steps of thread t. *)

Lock(t) == holder = Nobody /\ holder' = t

Enqueue(t, p, now) ==
  /\ Lock(t)
  /\ queue' = Push(queue, NewEntry(p, now))
  /\ UNCHANGED <<file, writing>>

Dequeue(t, n) ==
  /\ Lock(t)
  /\ queue' = Rest(queue, n)
  /\ UNCHANGED <<file, writing>>

Clear(t) ==
  /\ Lock(t)
  /\ queue' = <<>>
  /\ UNCHANGED <<file, writing>>

RequeueBegin(t) ==
  /\ Lock(t)
  /\ UNCHANGED <<queue, file, writing>>

RequeueEntry(t, e) ==
  /\ holder = t
  /\ queue' = PutBack(queue, e)
  /\ UNCHANGED <<file, holder, writing>>

(* _save(), the last call of every method above, then the lock's release.  *)
(* Its exceptions are logged and swallowed: a failed open leaves the file  *)
(* as it was, a failed write leaves it truncated.                          *)

SaveOpen(t) ==
  /\ Persist /\ holder = t /\ ~writing
  /\ file' = <<>>
  /\ writing' = TRUE
  /\ UNCHANGED <<queue, holder>>

SaveWrite(t) ==
  /\ holder = t /\ writing
  /\ file' = queue
  /\ writing' = FALSE
  /\ holder' = Nobody
  /\ UNCHANGED queue

SaveFail(t) ==
  /\ Persist /\ DiskFaults /\ holder = t
  /\ writing' = FALSE
  /\ holder' = Nobody
  /\ UNCHANGED <<queue, file>>

SaveSkip(t) ==
  /\ ~Persist /\ holder = t
  /\ holder' = Nobody
  /\ UNCHANGED <<queue, file, writing>>

SaveReturn(t) == SaveWrite(t) \/ SaveFail(t) \/ SaveSkip(t)

(* The process dies: memory and locks are gone, the file stays as it is. *)
Vanish ==
  /\ queue' = <<>>
  /\ holder' = Nobody
  /\ writing' = FALSE
  /\ UNCHANGED file

(* __init__(): load what an earlier process left. *)
Load ==
  /\ queue' = file
  /\ UNCHANGED <<file, holder, writing>>
===============================================================================
