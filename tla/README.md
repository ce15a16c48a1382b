# A TLA+ verification of the monitoring agent

The agent is a Python process that collects metrics of its host, evaluates
triggers, posts everything to a backend over HTTP, and queues what it could not
post. This directory holds TLA+ models of its parts, TLC configurations that
check them on small instances, and TLAPS proofs of what matters most for all
instances. The models are translated from the code; where the code and a text
of the repository disagree the models follow the code, and the disagreement is
listed below.

    tlc -workers 2 -config <run>.cfg <module>.tla     check a run
    tlapm <module>Proofs.tla                          check the proofs

`PROJECT.json` lists the runs, the lines of code each definition stands for,
the hazards, and for each property a mutation of the code that breaks it.

## The system

| part | state it keeps | operations | what makes it correct |
|---|---|---|---|
| retry queue (`retry_queue.py`) | list of entries, JSON file, lock | `enqueue`, `dequeue`, `requeue`, `clear`, `_save`, `_load` | bounded; an entry is in one place; the file follows the list |
| sender (`sender.py`) | failure counter (shared by all threads) | `_post`, `_get`, `flush_retry_queue`, `backoff_seconds` | nothing that JSON can express is lost by the running process; the queue drains |
| collection loop (`main.py`, `run_collection_loop`) | four timers, next retry, cycle counters, shutdown event | registration, a cycle with ten steps, the wait, the last flush | no timer is starved; failures end one cycle only; it stops when asked |
| trigger engine (`triggers/engine.py`) | per trigger name: firing, pending_since | `evaluate` | alerts neither early, nor late, nor lost |
| remote commands (`remote/commands.py`, `_remote_command_loop`) | timestamps of the last minute, log of results | fetch, `execute` with its rate limit, report | the limit holds in every window; every command is accounted for |
| plugin loader (`plugins/loader.py`) | last run and last result of each plugin | `run_all`, `reload` | at most one run per interval; one plugin does not cost another its turn |
| log monitor (`collectors/log_monitor.py`) | per file: inode, position; per event log: last record | `check_logs` | no line or event twice, none skipped |
| I/O checks (`_run_io_checks`, HTTP, DNS, ICMP, services) | futures, thread pools | fork, join | an answer for each target, in order, in bounded time |
| discovery (`_discovery_loop`, `collectors/discovery.py`) | futures, thread pool | scan hosts, probe ports, report | complete reports; the thread survives; the process ends |
| health endpoint (`health.py`) | status store | update, GET | the answer follows the pace of the cycles |
| host collectors (`collectors/*_metrics.py`, inventory) | counters of disks and interfaces, kept by `main.py` | read | rates account for every byte |
| configuration, logging, example plugins, deployment | none while running | | constants of the models, or nothing |

How they interact. The main thread runs the cycle: collectors, then the I/O
checks (each check on a thread of its own, each of these with a pool of
workers), then plugins, triggers, and up to five POSTs: alerts, metrics,
heartbeat, inventory, log events. It also flushes the retry queue, in the loop
when two timers allow it and once more after the loop. Two daemon threads,
discovery and remote commands, post on their own. All threads share one sender,
its failure counter (without a lock) and its retry queue (behind a lock). The
health endpoint's threads read a status store that the main thread writes.
SIGTERM and SIGINT set an event that the loops look at. When the main thread
returns, nobody joins the daemon threads, but the interpreter joins the workers
of every pool. systemd kills the process 20 seconds after SIGTERM.

What is hard in it:

- three threads enqueue while the main thread has a batch out of the queue;
- the file is truncated, then written, and the process may end in between;
- a POST may be accepted and still count as failed, or raise an exception that
  nothing between it and the top of its thread's loop expects;
- a flush both re-enqueues (in `_post`) and requeues what failed;
- timers, backoff and the health stamp are compared with the start of a cycle
  that may last minutes;
- a trigger's hold time spans calls, some of which see no value, or raise;
- a log file changes between a `stat` and the `open` that follows it, and an event
  log between its opening and the read; positions are set before the lines read
  are matched, and may stand within a line;
- rates are differences of counters whose devices come and go, and whose
  readings fail or are lost with their cycle;
- pools give results back in any order, raise, and outlive their callers;
- exceptions leave loops half done: in a cycle, in `evaluate`, in a batch of
  commands.

## The modules

| module | stands for | composed of |
|---|---|---|
| `RetryQueue` | the queue: list, file, lock, a step per operation | |
| `QueueClients` | any number of threads that call it in any order, with crashes | `RetryQueue` |
| `Delivery` | `_post`, `flush_retry_queue`, main and daemon threads, crash, exit, restart | `RetryQueue` |
| `Outbox` | abstract: what becomes of each payload | implemented by `Delivery` |
| `CollectionLoop` | the main thread's cycle, timers, backoff, health store, shutdown | |
| `TriggerEngine` | `evaluate`, one step per trigger | |
| `RemoteCommands` | the polling thread, the limiter, `execute`, the log | |
| `PluginLoader` | `run_all`, the cache, `reload` | |
| `MetricCycle` | a cycle's readings of counters, its plugins, its payload | `PluginLoader` |
| `LogMonitor` | one watched file or event log, the monitor and the log's owner | |
| `IoChecks` | fork and join of checks and targets | |
| `Discovery` | the discovery thread, its pools, the end of the process | |
| `RetryQueueProofs` | theorems about the queue's operations, its callers and the sender | `Delivery`, `QueueClients` |
| `TriggerEngineProofs`, `RemoteCommandsProofs`, `CollectionLoopProofs`, `LogMonitorProofs`, `MetricCycleProofs`, `IoChecksProofs`, `DiscoveryProofs` | theorems | the modules they name |
| `MC...` | values of constants for TLC | the modules they name |

**RetryQueue.** `queue` is `self.queue`, `file` what `_load()` would make of the
file: a missing, truncated or half-written file loads as the empty list.
`holder` is who holds the lock and `writing` whether `_save()` has opened the
file, which empties it. Each method takes the lock and changes the list in one
step; `requeue()` has one step per entry. `_save()` has two, each of which may
fail when `DiskFaults` is set, and then releases the lock. `Push` pops the head
of a full queue, `PutBack` adds a retry and drops the entry at the limit.
`Vanish` and `Load` are the death of the process and the next `__init__`.

**QueueClients.** `at[t]` is where a thread is (outside, in `requeue()`'s loop,
saving), `hands[t]` what a consumer has dequeued and not given back. Its names
(`ClientInit`, `ClientNext`, ...) differ from `Delivery`'s so that one module can
extend both.

**Delivery.** A payload is one call of a `send_*` method; only its identity
matters. `pc[t]` is where thread `t` is: outside, in the POST, about to
enqueue, in `requeue()`'s loop, or saving. `PostOk`, `PostRejected`,
`PostUnacknowledged` and `PostRaises` are the outcomes of a POST. The third is
one the backend took and whose reply came late, was lost, or was no JSON
(`resp.json()` raises within the `try`). A payload in `Unsendable` is one that
`requests` refuses, such as a metric that is NaN: each of its POSTs fails as a
`RequestException` and the payload is queued. One in `Unencodable` has a value
of a type that JSON lacks (a set, bytes or datetime, from a plugin or from a
YAML file): `requests` raises a `TypeError`, which the `except` of `_post` does
not name. `PostRaises` is this exception leaving `_post`: nothing is enqueued,
the loop of the thread logs it, and the payload is gone (`refused`). `batch`
and `failed` are the flush's locals. A failed POST of the flush goes through
`_post` and thereby through `enqueue()`, *and* through `requeue()`. The history
variables `submitted`, `accepted`, `evicted` and `refused` record what was sent,
taken, popped and raised on, and `charge` what the running process answers for:
what its threads sent and what its file held when it started. When flushes
happen is left open here; `CollectionLoop` has the timers.

**Outbox.** Each payload is new, pending, delivered, discarded, refused or lost.
Only those that JSON cannot express are ever refused, and none of these is
delivered or discarded. `lost` is only reached by `Die`, which may lose any of
those that are pending: how much a crash costs is the subject of
`CrashLosesOnlyHands`, not of the refinement. `StatusOf` in `Delivery` is the
refinement mapping.

**CollectionLoop.** One action per step of a cycle. `Takes(d)` lets the clock
advance by up to `d`; a POST succeeds or fails and sets `failures`, which
`Elsewhere` lets other threads change at any step. `Fail` is the `except` of
the loop, from each step that may raise. `store` is the health endpoint's status
store, of which `Health` updates all fields and `Fail` some; `previous` is when the
cycle before the one under way began, which is what the endpoint goes by. `Register` is the
POST before the loop. `Signal` may come anywhere, also at
any second of the wait.

**TriggerEngine.** `at` is the trigger `evaluate` has come to. A trigger's
value is chosen in each call, or missing. `Null` stands for whatever is not a
number where one belongs: `threshold: null` in an ordering (`TurnRaises`), a
null hold time (`HoldRaises`), a null recovery threshold (`RecoverRaises`); a
message template may not format (`FireRaises`), and a key may be no string
(`TurnRaises`). Each leaves `evaluate` by an exception: the alerts it had
gathered are lost (`unsaid`), and what it has written to `self.state` stays.
With what `_validate_triggers()` raises on there is no engine (`Validated`).
`told` and `unsaid` count problems and recoveries by name; `seen` is a history
of what each call found.

**RemoteCommands.** A command is what the code tells apart: not a dict, without
a usable name, forbidden, not on the PATH, or running; the last may never end,
since the backend may send a null timeout. `recent` is the limiter's list and
`admitted` everything ever put into it. `Abort` is the loop's `except`, which
drops what is left of the batch.

**PluginLoader.** `state` is `_state`, `began` a history of when each plugin's
last run began. Two files may claim a name; the later wins. `invalid` are the
plugins whose `PLUGIN_INTERVAL` is no number, in the files as they were loaded
last: the comparison at `loader.py:82` stands outside the `try`, so that
`TurnRaises` ends `run_all()` for all of them.

**MetricCycle.** `RunAll` runs `PluginLoader`'s actions as one stage of the
cycle; the stages before it read the counters of disks and interfaces, the one
after it sends. A rate stands for the bytes it is the difference of. `Look` is
psutil, which hides a counter that starts anew unless it saw the device gone
(`nowrap`); `Unplug` and `Plug` are the host. Devices come and go only between
cycles, and counters grow only when they are read: a counter is read once a
cycle, so nothing could tell the difference. `Raise` leaves a cycle at any stage
but in `run_all`, which lets out only `RunAllRaises`; a reading that was remembered before is not undone.
`first` and `told` are histories: the first reading since a disk is there, and
what the rates sent of it add up to.

**LogMonitor.** Files are named by inodes, which may be used again. `content` is
the lines of the file at the path, numbered as they were written, and `half`
says that the last of them is not written to its end yet; positions and sizes
of a file count half lines. `Stat` is the `os.stat` and what follows from it,
`Read` the `open`, the loop over lines and the matching, and the owner (`Write`,
`Finish`, `Rotate`, `Reuse`, `Truncate` to any smaller size, `Remove`) acts
between them. The position is set before the lines are matched. A pattern that
is no string raises then: in `ReadSpoilt` the position has moved on and the
lines are `lost`. `ReadFails` raises before that and changes nothing. A half
line that is read counts as `split`: its halves are matched apart, and a pattern
across them is missed. The watcher of an event log remembers the number of the
last record it has seen (`last_pos` again); `OpenEvents` opens the log and
`ReadEvents` reads past that number, or its matching raises (`EventsSpoilt`),
while the log overwrites its oldest records (`Wrap`) or is cleared (`Clear`).
`matched` are the lines reported since a truncation was last noticed, `before`
those reported earlier: what a truncation leaves is read again from the start.
`shrunk` records that since the last stat the file fell short of the position,
and `disguised` that it had grown back when it was looked at, or that an event
log was cleared: nothing the monitor looks at could show either.

**IoChecks, Discovery.** A pool takes targets in the order of submission with a
bounded number of workers; probes end in any order, in an answer or, for the
faults that `HttpProbe`, `DnsProbe` and `PingProbe` name, in an exception. `Gather`
takes futures in order and `Yield` as they complete, as the code does; leaving
a `with ThreadPoolExecutor` waits for every probe. A second passes only when no
thread can go on: `Waits` says so of a check, `Tick` of `Discovery` of its pool.
The ports of the services scan are distinct, as the keys of a dict are; `ByPort`
is the sort by port.

## The runs

Passing runs:

| run | states | what it asks |
|---|---|---|
| `queue_clients` | 72 thousand | `EntryOnce`, `RetriedFirst`, `FileInSync` with two threads that call everything; its `ClientTypeOK` bounds the size of the queue |
| `delivery_faults` | 1.6 million | `QueueWithinSlack`, `Conserved`, `Inductive`, and that `Delivery` implements `Outbox` (`KeepsPromise`), with network and disk failures, a payload that JSON cannot express, and two restarts |
| `delivery_drains` | 374 thousand | `CrashLosesOnlyHands` and, under fairness, `Drains`, past a payload that fails at every POST and one whose POST raises |
| `trigger_engine` | 158 thousand | `ToldIsState`, `FiresWhenHeld`, `FiresOnlyIfHeld`, `Inductive` for two triggers of one name that can raise in three ways, one with a null threshold, and a sound one after them |
| `remote_commands` | 45 thousand | `RateBound`, `Accounted`, and under fairness `PollsAgain` |
| `collection_loop` | 2.0 million | `Cadence`, `HealthIsPace`, `StopsWithin`, and under fairness `Stops` |
| `log_monitor` | 385 thousand | `OnceUnlessRaced`, `NothingSkipped`, and under fairness `Tailed` |
| `plugins` | 648 thousand | `RatesAddUp`, `AtMostOncePerInterval`, `EveryPluginAnswers` in the cycle of `MetricCycle` |
| `io_checks` | 26 thousand | `EveryTargetAnswers`, `WithinWaves` |
| `discovery` | 272 thousand | `ReportsComplete`, `ExitsWithin`, and under fairness `GoesOn` |

All of them but `delivery_drains` check their module's type invariant, too. Two
runs are expected to fail, each a finding:

- `dropped_at_limit`: a test says an entry at its retry limit is dropped
  (`tests/test_retry_queue.py:51`). `requeue()` drops it, but `_post` has
  queued a fresh copy of the same payload with no retries on it. Nothing is
  ever given up, and each failed flush doubles the copies until the queue's
  limit evicts something else.
- `stops_in_time`: the unit file says `TimeoutStopSec=20` gives the agent time
  to flush (`deploy/python-agent.service:15`). The last flush posts up to 50
  entries that may take a timeout of 10 seconds each.

Bounds, and why they are enough:

- Two threads and two payloads besides those that cannot be sent (`Delivery`): a third thread can do nothing to
  the queue that a second at another moment does not. A queue of two and a
  batch of two make eviction, a queue over its limit and a batch of more than
  one entry happen; retry limits of two and three let an entry be retried and
  dropped. Three starts let a file written by one process be loaded, changed
  and loaded again. What holds in the run is proved for every size.
- `queue_clients` gives every enqueue a time of its own, up to `MaxClock` of
  seven: both consumers can hold a full batch while the queue refills.
- `trigger_engine`: hold times of none and two seconds and a null one, steps of
  one and two, four seconds; a trigger can be met, unmet, missing, held, fired
  and recovered and then pend again. Of the two triggers named `disk`, one fires
  and the other, whose own hold time is null, recovers it: they exercise what a
  shared name does. The sound trigger stands last, where `ToldIsState` says that
  none of its alerts is lost.
- `remote_commands`: a limit of two in a window of three, three commands in
  batches of up to two and four seconds, so that a window can be full, slide
  and admit again.
- `collection_loop`: `Start` is past all intervals as the epoch is. Intervals of
  one to three with steps of up to a second let timers be due in any
  combination and in a cycle that is late, and a backoff of two put off a flush
  that the interval of one allows; three cycles are enough to see a heartbeat or
  a flush skipped and made up, as late as `Cadence` lets it be. `StaleAfter` is half
  of what a cycle may take, so that the endpoint's alarm goes off during a long
  cycle as it does in the code, whose flush of up to 500 seconds exceeds the
  limit of 300. `MaxFailures` makes the backoff reach its cap.
- `stops_in_time` uses the numbers of `config.yaml` and the unit.
- `log_monitor`: three inodes, three lines, two disturbances of any kind: enough
  for a rotation and a truncation between the stat and the open of one check, for
  a truncation that leaves a line and a half, and for an event log that wraps, is
  cleared and fills up again. The cap of two is the code's 50.
- `plugins`: two files of one name, up to five cycles, in which a disk can be read,
  leave, be missed, come back and be read twice; an interface with traffic and
  one (`lo`) that is always there; an interval that may be no number, in the files
  at the start or after the `reload()`.
- `delivery_drains`: a queue of three, two payloads and one that fails at every
  POST, so that its copies come to fill what the batch leaves; and one whose
  POST raises.
- `io_checks`, `discovery`: more targets than workers, subnets that overlap and
  exceed the cap, a port list that is empty, every fault a target can have.

Deadlock is checked in every run but those with a bounded clock or number of
cycles, where the model stops at the bound, and those in which the agent stops.

## Fairness

- `Delivery`: a POST ends, by its timeout at the latest; the holder of the lock
  goes on. A thread that waits for the lock gets it when it is free again and
  again (strong fairness of `EnqueueFailed` and `FlushRequeue`): holders keep it
  for a list operation and a save, and rest between uses. `RetryFlush` is
  strongly fair since the main thread comes back to its timers and the backoff
  is at most five minutes: `Cadence` of `collection_loop` says how soon. `Drains` also assumes that from some time on no POST
  fails but those of unsendable payloads. No fairness makes a thread send or the process stop.
- `CollectionLoop`: the main thread goes on. Nothing makes a signal come.
- `RemoteCommands`: the thread goes on, and a process that has a timeout or
  terminates ends. `PollsAgain` excludes the one that has and does neither.
- `LogMonitor`: the monitor goes on (weak fairness of `Check`), and a log that is
  there can be opened and read now and then (strong fairness of `Reads`: not every
  check fails before it has read). Whether matching raises is left open: it may do
  so each time. The owner need do nothing.
- `Discovery`: the thread and the workers go on and jobs end, as each has a
  timeout.

## What is proved

For every value of the constants that satisfies the named assumptions
(`QueueAssumption`, `ClientAssumption`, `DeliveryAssumption`,
`TriggerAssumption`, `CommandsAssumption`, `LoopAssumption`, `LogAssumption`,
`PluginAssumption`, `MetricAssumption`, `ChecksAssumption`,
`DiscoveryAssumption`: sizes and durations are natural numbers,
positive where the code needs it, model values are distinct from what they stand
beside, configurations are of the shape the code reads, and there are finitely
many consumers and interfaces):

| theorem | statement |
|---|---|
| `RetryQueueProofs!Typing` | every reachable state is well typed |
| `RetryQueueProofs!Soundness` | `Inductive` is an invariant |
| `RetryQueueProofs!BoundedQueue` | the queue has at most `MaxSize + BatchSize` entries |
| `RetryQueueProofs!NoSilentLoss` | what the running process was given is accepted, evicted or in its memory, or is a payload that JSON cannot express and that `_post` raised on |
| `RetryQueueProofs!BoundedLoss` | with a working disk and outside the instant between the emptying of the file and its writing, a crash costs what threads have in hand or are just enqueueing |
| `RetryQueueProofs!Refinement` | `Delivery` implements `Outbox`: of what JSON can express, only the death of the process loses anything |
| `TriggerEngineProofs!Typing`, `!Soundness` | types; the engine's memory agrees with what its calls saw |
| `TriggerEngineProofs!NeverLate` | a trigger met for its hold time fires in that call, whatever raises |
| `TriggerEngineProofs!NeverEarly` | it starts to fire only then |
| `TriggerEngineProofs!Told` | problems and recoveries of each name alternate, counting those an exception lost; none is lost of a name whose triggers, and those after them, have nothing that can raise |
| `TriggerEngineProofs!RecoveryCheckExact` | the warning about a recovery threshold is given exactly when there is no value between the two |
| `RemoteCommandsProofs!RateLimited` | no window sees more commands than the limit |
| `RemoteCommandsProofs!Typing`, `!Accounting` | types; every command fetched is sent, dropped with its batch or in hand, and results are sent once and in order |
| `RetryQueueProofs!ClientTyping` | with any number of consumers the queue has at most `MaxSize` entries and a batch for each |
| `RetryQueueProofs!Synced` | the file is the queue when nobody is inside a method |
| `RetryQueueProofs!OnePlace`, `!InTurn` | an entry is in one place; none that is new stands before one that was retried |
| `CollectionLoopProofs!Typing`, `!InTime` | types; no timer is later than its interval, or the backoff, and a period without its own share |
| `CollectionLoopProofs!Alive` | whatever its limit is, the health endpoint calls an agent healthy exactly if the last cycle that ended began within it; no such start is older than a period and a cycle |
| `CollectionLoopProofs!Prompt` | a signal ends the loop within the rest of a cycle and a flush |
| `LogMonitorProofs!Typing`, `!ReportsOnce` | types; no line is reported twice unless a check was raced or the file has been found truncated since, no event ever |
| `LogMonitorProofs!LeavesNothing` | every line of the watched file up to the position is accounted for, unless the file fell short of the position and no stat has seen it, or could |
| `MetricCycleProofs!Answers`, `!Spaced` | each plugin's latest run is in the results; runs are an interval apart (an action property) |
| `MetricCycleProofs!CycleTyping`, `!AddUp` | types; the rates account for every byte, none of a disk is negative, none is understated (an action property) |
| `IoChecksProofs!Typing`, `!Answering` | types, with no more probes than workers; every target's answer is in its place, or its check's error says that one spoilt it |
| `IoChecksProofs!InWaves` | checks take no longer than their waves of targets, or their services one after the other |
| `DiscoveryProofs!Typing`, `!Exiting` | types, with no more jobs than workers; the process ends within the waves of jobs a pool still has |
| `DiscoveryProofs!Reporting` | reports have every host found up, up to the cap, and every port in order (an action property) |

The arguments.

*Delivery.* `Conserved` alone is not inductive. When `requeue()` drops an entry
at its limit the payload must be found elsewhere: `FailedCovered` says that
each entry in `failed` has a settled payload or a copy in the queue, which is
what `_post`'s `enqueue` put there. That copy cannot have left meanwhile,
except by eviction, because only the main thread dequeues and it is in its
flush: this needs `LockDiscipline` (who is inside which method), `JobDiscipline`
(a flush's POST is of its batch's head) and `FlushDiscipline`, which also counts:
while a batch is out the queue is within `MaxSize`, so what `requeue()` puts
back exceeds it by at most the batch. `NeverQueued` keeps out what JSON cannot
express: its POST raises before `enqueue()`, so that neither the queue nor the
file ever has it, and every save can be written. `BoundedLoss` adds `FileSynced`:
the file equals the queue whenever the lock is free, and while a method has not
saved yet lacks only the entry that it adds. `Refinement` rests on
`StatusByCharge`: while the process runs, what it holds of unsettled payloads
is exactly its charge, so a step that leaves the history variables alone
changes no payload's status. The first part of `RetryQueueProofs` states what the
list operations do to lengths, contents and timestamps, each once; both sets of
callers use it.

*TriggerEngine.* `PendingIsFirstMet` says that `pending_since` is the first time
a trigger was met since it was last found unmet. A call's visit adds one finding
to `seen` and moves `pending_since` accordingly; `Visited` says that a trigger
has at most one finding per call. `ShortOfHold` says that what this call met and
left quiet is short of its hold time, from which `NeverLate` follows.
`AlertsBehind` and `AlertsUpToDate` say that the list under construction brings
the counts of what was told and lost up to date; a raise moves the list to the
lost, which only triggers that stand before the one that raised, or it, can
miss.

*RemoteCommands.* `RecentCovers` says that whatever was admitted within the last
window is still in the limiter's list; as no more than the limit are in the list
after an admission, no window that ends now has more, and earlier windows have
not changed.

Its `Accounted` needs `Tally`: where in a batch each result is, so that
`results` is never empty when the last one is sent. Without it not even the
types are inductive.

*QueueClients.* Four invariants carry each other. `Exclusive` says that who is
inside a method holds the lock, and that a file is only open when there is a
path to it (`writing => Persist`), without which `FileInSync` could break at the
end of a save that never began. `Counted` says that while consumers hold
entries the queue keeps no room for them: it is at most `MaxSize` and a batch
for every consumer, less what they hold. `Unique`, `Past` and `InOrder` speak of
timestamps: those in the queue and in hands are distinct and older than the
clock, fresh entries stand behind retried ones and in order. `EntryOnce` and
`RetriedFirst` follow.

*CollectionLoop.* All its properties are budgets: `Timed` says what a cycle has
spent at most by each step. From it, `Stamped` bounds how old the health stamp
is and what the endpoint answers by it (`Alive`), and `Signalled` how long a signal
has waited. For `Cadence`, `Checked` says of
each timer that the cycle has passed that it was reset, or was not due *and* its
own share of the cycle is unspent, which is why the bound is the period less
that share. `BacksOff` says that the next flush is never put off by more than
the longest backoff, counted from the last flush's cycle. `errors <= cycles`
needs `Counted`: the cycle in progress has not failed yet. `2^n` is the backoff's
power; as there is no induction to compute it, `PowerNat` shows that it is the
number of subsets of `1 .. n`.

*LogMonitor.* Two halves. `Sound` and `Fresh`: lines are distinct and only written
ones are told, and where no check was raced, what lies past the position that the
next check reads from was not told since a truncation was last noticed:
`ReportsOnce`. That a check leaves nothing past its position (`AllSeen`) is what
makes it fresh again. `Kept`: unless the file fell short of the position (`shrunk`,
until the next stat) or has done so in disguise, the position is within the log
and each line up to it is accounted for: `LeavesNothing`. A stat that finds the
file shorter starts it over, so that `Kept` holds again with nothing passed
(`KeptStat`); a read passes all the lines there, and each was told, capped, split
or lost with a raise (`ReadAll`, `KeptReads`). `Watching` says that an event log
is always there and never shrinks.

*MetricCycle.* For plugins, every step of a cycle is one of `run_all()`'s or lets
time go by (`CycleSteps`); `Remembers` says that what `_state` tells of a plugin is
its last run. For rates, `Balanced` says of each device that what was told of it
and is pending is the last reading less the first, or less if a cycle raised;
`Sampled` that a disk is remembered exactly while it is there and was read, since
psutil must have seen it gone before it comes back; `Networked` that the total has
not shrunk since its reading unless an interface left. The total is a fold over a
set: `SumSteps`, `SumAnyFirst` and `SumGrows` unfold it, show that its order does
not matter, and that it grows with counters and interfaces.

*IoChecks.* `Inv` says the same of each check, so that a step has to be looked at
for the one check it moves (`StaysSound`, `OneCheckMoves`). `Collected` and `Asked`
say that `results` holds what was gathered so far, each answer at its own place,
and what is still to come is untouched; `Pinged` and `Raised` say which targets can
have raised, so that at the end a check either has them all or was spoilt. For the
time, `InOrder` says that a pool has started a prefix of its targets and `Manned`
that it has no more running than workers. `OnTime` is then a budget for each
target: the `i`-th has started by `(i - 1) \div Width` times the slowest, and it
is kept because a second passes only when the pool is full. That the first target
still waiting can afford this second is a pigeonhole argument (`OneWaveAhead`): if
all the workers are busy, one of the targets that run is a full width before it,
and that one's own budget has not run out. For services the budget of the `i`-th
is the sum of the times of those before it (`UpTo`).

*Discovery.* The same budgets, counted from the main thread's end, with the age of
each job in place of its start (`OnTime`, `OneWaveAhead`); `NoneLeft` gives the
bound once nothing waits or runs. Nothing is submitted after the end, so that the
pool's jobs stay those they were. For the reports, `Gathered` says that `found` has
each job that was yielded and is to be reported once, in some order, so that it
and the set of those jobs are of one size (`HostsReported`). `ByPortSorts` is the
sort: as ports differ, the number of entries with a smaller port is different for
each entry and below their number, so that each place is taken by exactly one
entry (`OneToOne`), and places and ports grow together.

Recursion over data has no induction rule here, but what is needed of `UpTo` and
of the library's `FlattenSeq` is proved: that the recursive functions exist, and
what they return, by taking the least number for which the claim fails (`HasMin`,
from the well-foundedness of `<` on the natural numbers) and stepping below it.

Induction on finite sets is done with the lemma `Smallest`: a set of subsets of
a finite set has a least element, so that the least set for which a claim fails
may be taken and a member of it left out. It is stated for a set of sets, since
the library's induction theorems, which take the claim as a parameter, cannot be
used.

What the proofs found in the models: an interface of the name `"net"`, the tag
of the total, would have mixed up `MetricCycle`'s histories, which
`MetricAssumption` now excludes as it did for disks; `LogMonitor` starts with up to
one line, so that `MaxLines` must not be zero; a list of ports that names one
twice, which no dict can, would break `Discovery`'s `ReportsComplete`.

Only model-checked, and why:

- all liveness (`Drains`, `Stops`, `PollsAgain`, `Tailed`, `GoesOn`): the proof
  system has no rules for fairness. `Exiting` says how long the process lives on
  once its main thread has ended, not that it ends; likewise `Prompt` and
  `InWaves` bound the time that passes;
- `DroppedAtLimit` and `StopsInTime`, which the code does not keep.

## What the models show besides

Places where the code does what a reader would not expect, and which the models
contain as they are:

- A payload with a value of a type that JSON lacks is dropped by an exception out
  of `_post` (`sender.py:133` names `RequestException` only) and logged; in the
  cycle it takes the rest of the cycle along, every time.
- A payload with a NaN stays queued for good. Each flush that takes
  it puts a copy behind and the old entry in front, so that it comes to hold the
  place of others, which a full queue evicts; it does not keep a batch from
  getting past it (`Drains`).
- A flush posts every entry to `/api/metrics`, whatever it was (`sender.py:164`);
  the queue does not record the path.
- `requeue()` ignores `max_size` and inserts at the front one by one, so that a
  failed batch comes back reversed: `queue[0]`, which `get_stats()` takes for
  the oldest entry, need not be (`retry_queue.py:44`).
- `dequeue()` saves the shortened queue before the batch is posted: a crash
  in a flush loses up to 50 entries. `CrashLosesOnlyHands` says exactly this.
- The file is truncated before it is written: a process that ends in between
  leaves nothing to load. A daemon thread that saves when the main thread
  returns is enough for this. No property bounds this loss, which is of the
  whole queue: `CrashLosesOnlyHands` excludes the instant.
- A save that fails leaves an old file behind, and a restart brings back what was
  delivered or dropped since.
- The health endpoint calls an agent unhealthy whose last cycle began more than
  300 seconds ago (`health.py:51`); a flush of 50 timeouts takes 500. After such a
  cycle the stamp is stale when it is set, and the alarm goes on until a cycle
  that is quick enough has ended (`HealthIsPace`): while a backend that does not
  answer makes every cycle long, a working agent is unhealthy all the time.
- The backoff is counted from the start of the cycle, before the flush whose
  failures it backs off from (`main.py:393`).
- `heartbeat` is 10 seconds in `config.yaml` and a cycle 30: heartbeats come
  once per cycle.
- A cycle that raises updates the health store's errors but not its count of
  cycles, and skips everything after the step that raised. If a collector
  raises in every cycle the agent stays healthy and sends nothing.
- A missing metric leaves `pending_since` alone: the gap counts as held.
- A null `recovery_threshold` makes `evaluate` raise in every cycle in which the
  trigger fires and its condition is unmet, a null `threshold` in every cycle in
  which its metric is there, a null hold time in every cycle in which its condition is met
  and it does not fire. Alerts of the triggers before it are lost, though the
  engine remembers them as told.
- A command that is no dict, or whose name is no string, ends its batch; the
  backend hears of none of the rest.
- A log that is truncated and grows past its old size between two checks is
  read from the old position. One that is found truncated is read from the
  start: lines that the truncation left are reported again.
- A line that is read while it is being written is matched in two halves, and a
  pattern across them is missed. A pattern that is no string makes each check
  that reads something raise, after the position was set: no line of this log is
  reported, unless every line read matches an earlier pattern.
- A log that does not exist when the agent starts is never watched. What is
  written to a file between the last check and its rotation is never reported.
- A cleared Windows event log is not reported from until its numbers exceed the
  last one seen (`log_monitor.py:286`). The branch that matches a pattern to an
  event's level cannot be reached: the level's name contains the pattern, which
  the branch before has looked for.
- A rate is told per nominal interval, whatever time lies between the readings:
  it is too high by as much as the cycle was late, or by whole intervals when a
  reading failed. A cycle that raises after a reading takes its interval's bytes
  along. The bandwidth is negative when an interface has left.
- The `read_bytes` and `write_bytes` of a disk are its counts of operations
  (`disk_metrics.py:29`); its rates are of bytes.
- `plugins.directory` of the configuration is never read: `main.py:245` looks for
  `plufgins`. A configuration without `retry` ends the agent with a `KeyError`
  (`main.py:223`), and its `retry.max_retries` is not passed on.
- icmplib is probed once and never used: the branch ends in `and False`
  (`icmp_check.py:149`).
- `reload()` forgets when plugins last ran. A plugin whose `PLUGIN_INTERVAL` is no
  number ends every `run_all()`, and with it the cycle.
- Sixteen workers: a check of more targets takes several timeouts, and the
  cycle waits for it.
- The process waits for the workers of a scan, though the discovery thread is a
  daemon. A host of two subnets is scanned and reported twice. `ports: {}`
  makes the services scan raise in every cycle.

## What is not modelled

- The contents of payloads, headers, messages, log lines and reports.
- A clock that is set back, on which hold times, intervals and limits depend.
- The host collectors but for the counters of disks and interfaces: they read
  psutil, nvidia-smi, docker or the package lists and keep nothing; to the cycle
  they are a step that takes time and may raise.
- The HTTP server of the health endpoint, `get_stats`,
  `run_collector(force=...)`, which nothing in the agent uses, loading of configuration and logging, installation scripts.

## Plan

Done, in this order: `RetryQueue` and `QueueClients`; `Delivery` with `Outbox`
and its proofs; `TriggerEngine` and its proofs; `RemoteCommands` and its rate
bound; `CollectionLoop`; `LogMonitor`; `PluginLoader`; `IoChecks`; `Discovery`;
`MetricCycle` with the counters of disks and interfaces; unsendable payloads in
`Delivery`; event logs in `LogMonitor`; the cadence of all timers and the
registration in `CollectionLoop`; payloads that JSON cannot express, null
thresholds and hold times, intervals that are no number, half-written lines,
truncation to any size and patterns that raise; the health endpoint with limits
that a cycle exceeds.

Next, for the models: an abstract specification of a tailed log for
`LogMonitor`; a clock that is set back in `TriggerEngine`.

Done, for the proofs: the invariants of `Delivery` and its refinement of `Outbox`;
`TriggerEngine`; `RemoteCommands`; `QueueClients`; `CollectionLoop`; `LogMonitor`;
`PluginLoader` and `MetricCycle`; `IoChecks`; `Discovery`. Every safety property
of a passing run is a theorem.
