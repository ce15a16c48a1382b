------------------------------- MODULE Delivery -------------------------------
(***************************************************************************)
(* How a payload travels from a thread of the agent to the backend:        *)
(* sender.py's _post() and flush_retry_queue() over the retry queue, the   *)
(* main thread's collection loop and final flush, the daemon threads       *)
(* (discovery, remote commands) that post at the same time, and the death  *)
(* and restart of the process.                                             *)
(*                                                                         *)
(* A payload stands for one call of a send_*() method.  When the main      *)
(* thread flushes is left open here (CollectionLoop has the timers), and   *)
(* entries carry no time, which only get_stats() reads.                    *)
(***************************************************************************)
EXTENDS RetryQueue

CONSTANTS
  Main,         \* the thread that runs run_collection_loop()
  NoPayload,    \* a thread that posts nothing
  Unsendable,   \* payloads with a NaN in them: json.dump() writes it, requests refuses it
  Unencodable,  \* payloads with a value of a type JSON lacks (a set, bytes, a
                \* datetime); one with a NaN as well is what json.dumps() meets first
  MayStop,      \* may a signal ask the agent to stop?
  MaxStarts     \* bound: number of times the process is started

ASSUME DeliveryAssumption ==
  /\ Main \in Threads
  /\ NoPayload \notin Payloads
  /\ Unsendable \subseteq Payloads
  /\ Unencodable \subseteq Payloads
  /\ MayStop \in BOOLEAN
  /\ MaxStarts \in Nat \ {0}

VARIABLES
  phase,        \* the process: in the loop, in its last flush, or not running
  pc,           \* where each thread is in _post() or in the queue's methods
  job,          \* the data of the _post() each thread is in
  flushing,     \* is the main thread inside flush_retry_queue()?
  batch,        \* flush_retry_queue()'s entries still to be posted
  failed,       \* flush_retry_queue()'s `failed`
  submitted,    \* history: payloads some thread has sent
  charge,       \* history: what this process was given, by its threads or its file
  accepted,     \* history: payloads a POST of which the backend took
  evicted,      \* history: payloads enqueue() popped from a full queue
  refused,      \* history: payloads that _post() raised on
  starts        \* number of times the process was started

vars == <<queue, file, holder, writing, phase, pc, job, flushing, batch, failed,
          submitted, charge, accepted, evicted, refused, starts>>

flushVars == <<flushing, batch, failed>>
histVars == <<submitted, charge, accepted, evicted, refused>>

TypeOK ==
  /\ QueueTypeOK
  /\ phase \in {"loop", "closing", "down"}
  /\ pc \in [Threads -> {"idle", "post", "enqueue", "requeue", "save"}]
  /\ job \in [Threads -> Payloads \cup {NoPayload}]
  /\ flushing \in BOOLEAN
  /\ batch \in Seq(Entry)
  /\ failed \in Seq(Entry)
  /\ submitted \in SUBSET Payloads
  /\ charge \in SUBSET Payloads
  /\ accepted \in SUBSET Payloads
  /\ evicted \in SUBSET Payloads
  /\ refused \in SUBSET Payloads
  /\ starts \in Nat

Init ==
  /\ QueueInit
  /\ phase = "loop"
  /\ pc = [t \in Threads |-> "idle"]
  /\ job = [t \in Threads |-> NoPayload]
  /\ flushing = FALSE /\ batch = <<>> /\ failed = <<>>
  /\ submitted = {} /\ charge = {} /\ accepted = {} /\ evicted = {} /\ refused = {}
  /\ starts = 1

-------------------------------------------------------------------------------
Goto(t, from, to) == pc[t] = from /\ pc' = [pc EXCEPT ![t] = to]

Flushing(t) == t = Main /\ flushing

\* What enqueue() pops to make room.
Popped(q) == IF Overflows(q) THEN {Head(q).payload} ELSE {}

\* A send_*() method builds its payload and calls _post().  The main thread
\* does so in its loop only; a daemon thread also after the signal, until the
\* interpreter exits.
Send(t, p) ==
  /\ phase # "down"
  /\ t = Main => phase = "loop" /\ ~flushing
  /\ p \notin submitted
  /\ Goto(t, "idle", "post")
  /\ job' = [job EXCEPT ![t] = p]
  /\ submitted' = submitted \cup {p}
  /\ charge' = charge \cup {p}
  /\ UNCHANGED <<queueVars, phase, flushVars, accepted, evicted, refused, starts>>

PostOk(t) ==
  /\ Goto(t, "post", "idle")
  /\ job[t] \notin Unsendable \cup Unencodable
  /\ job' = [job EXCEPT ![t] = NoPayload]
  /\ batch' = IF Flushing(t) THEN Tail(batch) ELSE batch
  /\ accepted' = accepted \cup {job[t]}
  /\ UNCHANGED <<queueVars, phase, flushing, failed, submitted, charge, evicted, refused, starts>>

\* A RequestException: the backend never took the data, or requests could not
\* make JSON of it (InvalidJSONError) ...
PostRejected(t) ==
  /\ Goto(t, "post", "enqueue")
  /\ job[t] \notin Unencodable
  /\ UNCHANGED <<queueVars, phase, job, flushVars, histVars, starts>>

\* ... or it did, and its answer came too late or was not JSON.
PostUnacknowledged(t) ==
  /\ Goto(t, "post", "enqueue")
  /\ job[t] \notin Unsendable \cup Unencodable
  /\ accepted' = accepted \cup {job[t]}
  /\ UNCHANGED <<queueVars, phase, job, flushVars, submitted, charge, evicted, refused, starts>>

PostError(t) == PostRejected(t) \/ PostUnacknowledged(t)

\* json.dumps() raises a TypeError before a byte is sent.  The except branch
\* names RequestException only, so it leaves _post(), and nothing is enqueued:
\* the caller's loop logs it and the payload is gone.
PostRaises(t) ==
  /\ Goto(t, "post", "idle")
  /\ job[t] \in Unencodable
  /\ job' = [job EXCEPT ![t] = NoPayload]
  /\ refused' = refused \cup {job[t]}
  /\ UNCHANGED <<queueVars, phase, flushVars, submitted, charge, accepted, evicted, starts>>

\* Mutant: a flush does not enqueue what it failed to post, as if that were
\* requeue()'s business alone.
EnqueueFailedOnce(t) ==
  /\ IF Flushing(t)
     THEN /\ Goto(t, "enqueue", "idle")
          /\ failed' = Append(failed, Head(batch)) /\ batch' = Tail(batch)
          /\ UNCHANGED <<queueVars, evicted>>
     ELSE /\ Goto(t, "enqueue", "save")
          /\ Enqueue(t, job[t], 0) /\ evicted' = evicted \cup Popped(queue)
          /\ UNCHANGED <<batch, failed>>
  /\ job' = [job EXCEPT ![t] = NoPayload]
  /\ UNCHANGED <<phase, flushing, submitted, charge, accepted, refused, starts>>

\* Mutant: enqueue() does not save.
EnqueueFailedUnsaved(t) ==
  /\ holder = Nobody
  /\ Goto(t, "enqueue", "idle")
  /\ queue' = Push(queue, NewEntry(job[t], 0)) /\ evicted' = evicted \cup Popped(queue)
  /\ job' = [job EXCEPT ![t] = NoPayload]
  /\ batch' = IF Flushing(t) THEN Tail(batch) ELSE batch
  /\ failed' = IF Flushing(t) THEN Append(failed, Head(batch)) ELSE failed
  /\ UNCHANGED <<file, holder, writing, phase, flushing, submitted, charge, accepted,
                 refused, starts>>

\* The except branch: whatever the caller, the data is enqueued.  A flush then
\* finds the status not "ok" and keeps the entry for requeue().
EnqueueFailed(t) ==
  /\ Goto(t, "enqueue", "save")
  /\ Enqueue(t, job[t], 0)
  /\ job' = [job EXCEPT ![t] = NoPayload]
  /\ evicted' = evicted \cup Popped(queue)
  /\ batch' = IF Flushing(t) THEN Tail(batch) ELSE batch
  /\ failed' = IF Flushing(t) THEN Append(failed, Head(batch)) ELSE failed
  /\ UNCHANGED <<phase, flushing, submitted, charge, accepted, refused, starts>>

SaveBegin(t) ==
  /\ pc[t] = "save"
  /\ SaveOpen(t)
  /\ UNCHANGED <<phase, pc, job, flushVars, histVars, starts>>

SaveEnd(t) ==
  /\ Goto(t, "save", "idle")
  /\ SaveReturn(t)
  /\ UNCHANGED <<phase, job, flushVars, histVars, starts>>

-------------------------------------------------------------------------------
(* flush_retry_queue(), which only the main thread calls. *)

\* Mutant: a flush leaves the queue alone until there is a full batch.
BeginFullFlush ==
  /\ ~flushing
  /\ Goto(Main, "idle", "save")
  /\ LET n == IF Len(queue) >= BatchSize THEN BatchSize ELSE 0
     IN  Dequeue(Main, n) /\ batch' = Front(queue, n)
  /\ flushing' = TRUE
  /\ UNCHANGED <<job, failed, histVars, starts>>

BeginFlush ==
  /\ ~flushing
  /\ Goto(Main, "idle", "save")
  /\ Dequeue(Main, BatchSize)
  /\ flushing' = TRUE
  /\ batch' = Front(queue, BatchSize)
  /\ UNCHANGED <<job, failed, histVars, starts>>

\* In the loop, when the timers allow it.
RetryFlush ==
  /\ phase = "loop" /\ phase' = "loop"
  /\ BeginFlush

\* After the loop saw the shutdown event: one batch and no more.
FinalFlush ==
  /\ MayStop /\ starts < MaxStarts
  /\ phase = "loop" /\ phase' = "closing"
  /\ BeginFlush

FlushPost ==
  /\ flushing /\ batch # <<>>
  /\ Goto(Main, "idle", "post")
  /\ job' = [job EXCEPT ![Main] = Head(batch).payload]
  /\ UNCHANGED <<queueVars, phase, flushVars, histVars, starts>>

FlushRequeue ==
  /\ flushing /\ batch = <<>> /\ failed # <<>>
  /\ Goto(Main, "idle", "requeue")
  /\ RequeueBegin(Main)
  /\ UNCHANGED <<phase, job, flushVars, histVars, starts>>

RequeueOne ==
  /\ pc[Main] = "requeue" /\ failed # <<>>
  /\ RequeueEntry(Main, Head(failed))
  /\ failed' = Tail(failed)
  /\ UNCHANGED <<phase, pc, job, flushing, batch, histVars, starts>>

RequeueSave ==
  /\ failed = <<>>
  /\ Goto(Main, "requeue", "save")
  /\ UNCHANGED <<queueVars, phase, job, flushVars, histVars, starts>>

FlushReturn ==
  /\ flushing /\ batch = <<>> /\ failed = <<>> /\ pc[Main] = "idle"
  /\ flushing' = FALSE
  /\ UNCHANGED <<queueVars, phase, pc, job, batch, failed, histVars, starts>>

-------------------------------------------------------------------------------
(* The process ends and is started again. *)

Gone ==
  /\ Vanish
  /\ phase' = "down"
  /\ pc' = [t \in Threads |-> "idle"]
  /\ job' = [t \in Threads |-> NoPayload]
  /\ flushing' = FALSE /\ batch' = <<>> /\ failed' = <<>>
  /\ UNCHANGED <<histVars, starts>>

\* main() returns; nobody joins the daemon threads, which stop where they are.
Exit ==
  /\ phase = "closing" /\ ~flushing /\ pc[Main] = "idle"
  /\ Gone

\* SIGKILL, the end of systemd's TimeoutStopSec, power loss.
Crash ==
  /\ phase # "down" /\ starts < MaxStarts
  /\ Gone

Start ==
  /\ phase = "down"
  /\ phase' = "loop"
  /\ starts' = starts + 1
  /\ Load
  /\ charge' = Contents(file)
  /\ UNCHANGED <<pc, job, flushVars, submitted, accepted, evicted, refused>>

PostEnds(t) == PostOk(t) \/ PostError(t) \/ PostRaises(t)

Next ==
  \/ \E t \in Threads :
       \/ \E p \in Payloads : Send(t, p)
       \/ PostOk(t)
       \/ PostRejected(t)
       \/ PostUnacknowledged(t)
       \/ PostRaises(t)
       \/ EnqueueFailed(t)
       \/ SaveBegin(t)
       \/ SaveEnd(t)
  \/ RetryFlush
  \/ FinalFlush
  \/ FlushPost
  \/ FlushRequeue
  \/ RequeueOne
  \/ RequeueSave
  \/ FlushReturn
  \/ Exit
  \/ Crash
  \/ Start

Spec == Init /\ [][Next]_vars

(* A POST ends, by its timeout at the latest; a thread in a queue method    *)
(* finishes it; a thread that waits for the lock gets it in the end, since *)
(* holders release it and the other thread rests between its uses; and the *)
(* main loop keeps flushing (the backoff never exceeds five minutes).      *)
(* Nothing obliges a thread to send or the process to stop.                *)
Fairness ==
  /\ \A t \in Threads :
       /\ WF_vars(PostEnds(t))
       /\ SF_vars(EnqueueFailed(t))
       /\ WF_vars(SaveBegin(t) \/ SaveEnd(t))
  /\ SF_vars(RetryFlush)
  /\ SF_vars(FlushRequeue)
  /\ WF_vars(FlushPost \/ RequeueOne \/ RequeueSave \/ FlushReturn)

FairSpec == Spec /\ Fairness

-------------------------------------------------------------------------------
(* One batch is the most by which the queue outgrows max_size: requeue()    *)
(* ignores max_size, but what it puts back was taken out first, and no     *)
(* thread enqueues beyond max_size meanwhile.                              *)
QueueWithinSlack == Len(queue) <= MaxSize + BatchSize

\* Payloads the running process can still deliver.
Posting == { job[t] : t \in Threads } \ {NoPayload}
InHand == Contents(batch) \cup Contents(failed) \cup Posting
Live == Contents(queue) \cup InHand

(* What the running process can lose: each payload its threads sent or its  *)
(* file held was taken by the backend, was evicted from a full queue, is   *)
(* still somewhere in memory, or is one that JSON cannot express, which    *)
(* _post() drops on the spot.  This holds in spite of the retry limit,     *)
(* since a failed retry enqueues a fresh copy.                             *)
Conserved ==
  /\ phase # "down" => charge \subseteq accepted \cup evicted \cup refused \cup Live
  /\ refused \subseteq Unencodable

(* What a crash can cost, on a disk that takes every write and but for the  *)
(* instant in which a save has emptied the file and not written it yet: a  *)
(* payload that is neither settled nor in the file is in the hands of a    *)
(* thread, or is the one that enqueue() is just adding.                    *)
Adding == IF holder # Nobody /\ queue # <<>> THEN {queue[Len(queue)].payload} ELSE {}

CrashLosesOnlyHands ==
  (phase # "down" /\ Persist /\ ~DiskFaults /\ ~writing) =>
    charge \subseteq accepted \cup evicted \cup refused \cup Contents(file) \cup InHand \cup Adding

(* Why the two hold, as one inductive invariant: who holds the lock, what   *)
(* each thread posts, what a flush has in its hands, that the agent holds  *)
(* only what it was given, that what JSON cannot express never gets into   *)
(* the queue or its file (every save would fail from then on), and that    *)
(* every entry kept for requeue() has a settled payload or a fresh copy in *)
(* the queue.                                                              *)
LockDiscipline ==
  /\ \A t \in Threads : holder = t <=> pc[t] \in {"requeue", "save"}
  /\ \A t \in Threads : pc[t] = "requeue" => t = Main
  /\ phase = "down" => ~flushing /\ \A t \in Threads : pc[t] = "idle"

JobDiscipline ==
  /\ \A t \in Threads : job[t] # NoPayload <=> pc[t] \in {"post", "enqueue"}
  /\ flushing /\ job[Main] # NoPayload => batch # <<>> /\ job[Main] = Head(batch).payload

FlushDiscipline ==
  /\ ~flushing => batch = <<>> /\ failed = <<>> /\ pc[Main] # "requeue"
  /\ pc[Main] = "requeue" => batch = <<>>
  /\ Len(batch) + Len(failed) <= BatchSize
  /\ (batch # <<>> \/ failed # <<>>) /\ pc[Main] # "requeue" => Len(queue) <= MaxSize
  /\ Len(queue) + (IF pc[Main] = "requeue" THEN Len(failed) ELSE 0) <= MaxSize + BatchSize
  /\ Len(file) <= MaxSize + BatchSize

FailedCovered == Contents(failed) \subseteq accepted \cup evicted \cup Contents(queue)

NothingInvented ==
  /\ Live \cup Contents(file) \subseteq charge
  /\ charge \cup accepted \cup evicted \cup refused \subseteq submitted

NeverQueued ==
  /\ (accepted \cup evicted \cup Contents(queue) \cup Contents(file) \cup Contents(batch)
       \cup Contents(failed)) \cap Unencodable = {}
  /\ \A t \in Threads : pc[t] = "enqueue" => job[t] \notin Unencodable

Inductive ==
  /\ LockDiscipline
  /\ JobDiscipline
  /\ FlushDiscipline
  /\ NothingInvented
  /\ NeverQueued
  /\ FailedCovered
  /\ Conserved

(* If from some time on no POST fails that could succeed, every payload     *)
(* that can be sent reaches the backend or was evicted: the flushes drain  *)
(* the queue.  One that can never be sent fails in every flush, multiplies *)
(* and fills the queue, but does not keep the others from the front of it. *)
Drains ==
  (<>[][\A t \in Threads : PostError(t) => job[t] \in Unsendable]_vars) =>
    \A p \in Payloads \ (Unsendable \cup Unencodable) : (p \in charge) ~> (p \in accepted \cup evicted)

-------------------------------------------------------------------------------
(* The abstract view: the state of each payload as Outbox sees it. *)

Held == IF phase = "down" THEN Contents(file) ELSE Live

StatusOf(p) ==
  IF p \notin submitted THEN "new"
  ELSE IF p \in accepted THEN "delivered"
  ELSE IF p \in evicted THEN "discarded"
  ELSE IF p \in refused THEN "refused"
  ELSE IF p \in Held THEN "pending" ELSE "lost"

Promise == INSTANCE Outbox
  WITH status <- [p \in Payloads |-> StatusOf(p)], up <- phase # "down"

(* Delivery implements Outbox: a payload that was sent stays pending until  *)
(* the backend takes it, a full queue evicts it or, when JSON cannot       *)
(* express it, its POST raises; the death of the process is all that loses *)
(* any other, and no later step revives what is lost.                      *)
KeepsPromise == Promise!Spec

-------------------------------------------------------------------------------
(* What the repository says of the agent, and its code does not do.        *)

(* The tests: an entry whose retries reach the limit is dropped. *)
GivesUp ==
  /\ pc[Main] = "requeue" /\ failed # <<>> /\ failed' = Tail(failed)
  /\ Retried(Head(failed)).retries >= RetryLimit

DroppedAtLimit == [][GivesUp => Head(failed).payload \notin Live']_vars
===============================================================================
