------------------------------- MODULE Discovery -------------------------------
(***************************************************************************)
(* main.py's _discovery_loop, a daemon thread, with discover_network and   *)
(* discover_services, which probe hosts and ports with a pool of workers.  *)
(*                                                                         *)
(* A job is a host or a port; whether it answers is up to the network.     *)
(* What follows the main thread's end is the interpreter's doing: a pool   *)
(* takes no more jobs, its workers are joined once they have done those it *)
(* has, and then the process ends, daemon threads or not.                  *)
(***************************************************************************)
EXTENDS Integers, SequencesExt

CONSTANTS
  Configs,          \* the configurations
  MaxHosts,         \* MAX_HOSTS_PER_SCAN
  MaxWorkers,       \* DEFAULT_MAX_WORKERS, for hosts
  PortWorkers,      \* the 16 of discover_services()
  JobTime           \* the longest a job takes, in seconds

\* A subnet has its hosts in order, or is invalid.
Subnet == [valid : BOOLEAN, hosts : Seq(Nat)]
Config == [network : BOOLEAN, subnets : Seq(Subnet), services : BOOLEAN, ports : Seq(Nat)]

\* The ports are the keys of a dict.
Keys(s) == \A m, n \in DOMAIN s : m # n => s[m] # s[n]

ASSUME DiscoveryAssumption ==
  /\ Configs \subseteq Config
  /\ \A c \in Configs : Keys(c.ports)
  /\ {MaxHosts, JobTime} \subseteq Nat
  /\ {MaxWorkers, PortWorkers} \subseteq Nat \ {0}

VARIABLES
  config,
  pc,               \* where the thread is
  jobs,             \* what was submitted to the pool
  outcome,          \* of each job
  age,              \* for how long it has run
  found,            \* the jobs as_completed() has yielded that are reported
  yielded,          \* the jobs as_completed() has yielded
  sent,             \* the last reports
  stopping,         \* shutdown_event
  left,             \* seconds since the main thread ended, or Never
  exited            \* the process has ended

vars == <<config, pc, jobs, outcome, age, found, yielded, sent, stopping, left, exited>>

Never == -1
Outcomes == {"up", "down", "raised"}
NoReport == [entries |-> <<>>, truncated |-> FALSE]

Running == { i \in DOMAIN jobs : outcome[i] = "running" }
Waiting == { i \in DOMAIN jobs : outcome[i] = "waiting" }

\* Mutant: one worker.
WorkersOne == 1

Workers == IF pc = "probe" THEN PortWorkers ELSE MaxWorkers

TypeOK ==
  /\ config \in Configs
  /\ pc \in {"begin", "network", "scan", "services", "probe", "wait", "ended"}
  /\ jobs \in Seq(Nat)
  /\ outcome \in [DOMAIN jobs -> Outcomes \cup {"waiting", "running"}]
  /\ age \in [DOMAIN jobs -> 0 .. JobTime]
  /\ found \in Seq(DOMAIN jobs)
  /\ yielded \subseteq DOMAIN jobs
  /\ sent \in [{"network", "services"} -> [entries : Seq(Nat \X BOOLEAN), truncated : BOOLEAN]]
  /\ stopping \in BOOLEAN /\ left \in Nat \cup {Never} /\ exited \in BOOLEAN
  /\ yielded \cap (Running \cup Waiting) = {}
  /\ Cardinality(Running) <= Workers

Init ==
  /\ config \in Configs
  /\ pc = "begin"
  /\ jobs = <<>> /\ outcome = <<>> /\ age = <<>> /\ found = <<>> /\ yielded = {}
  /\ sent = [r \in {"network", "services"} |-> NoReport]
  /\ stopping = FALSE /\ left = Never /\ exited = FALSE

-------------------------------------------------------------------------------
Least(a, b) == IF a < b THEN a ELSE b

Goto(from, to) == ~exited /\ pc = from /\ pc' = to
NoPool == UNCHANGED <<jobs, outcome, age, found, yielded>>
Untouched == UNCHANGED <<config, stopping, left, exited>>

\* while not shutdown_event.is_set()
Begin ==
  /\ Goto("begin", IF stopping THEN "ended" ELSE "network")
  /\ NoPool /\ UNCHANGED sent /\ Untouched

\* shutdown_event.wait(interval)
Wait ==
  /\ Goto("wait", "begin")
  /\ NoPool /\ UNCHANGED sent /\ Untouched

\* Mutant: the exception ends the thread.
RaiseEnds ==
  /\ \/ Goto("network", "ended") /\ config.network
     \/ Goto("services", "ended") /\ config.services
  /\ NoPool /\ UNCHANGED sent /\ Untouched

\* Something raises before the pool is there: so much for this cycle.
Raise ==
  /\ \/ Goto("network", "wait") /\ config.network
     \/ Goto("services", "wait") /\ config.services
  /\ NoPool /\ UNCHANGED sent /\ Untouched

Disabled ==
  /\ \/ Goto("network", "services") /\ ~config.network
     \/ Goto("services", "wait") /\ ~config.services
  /\ NoPool /\ UNCHANGED sent /\ Untouched

Enumerated ==
  FlattenSeq([n \in DOMAIN config.subnets |->
    IF config.subnets[n].valid THEN config.subnets[n].hosts ELSE <<>>])

Truncated == Len(Enumerated) > MaxHosts

Hosts == SubSeq(Enumerated, 1, Least(MaxHosts, Len(Enumerated)))

\* A pool without workers cannot be made, and none takes jobs at the end.
Submit(list) ==
  /\ list # <<>> /\ left = Never
  /\ jobs' = list
  /\ outcome' = [i \in DOMAIN list |-> "waiting"]
  /\ age' = [i \in DOMAIN list |-> 0]
  /\ found' = <<>> /\ yielded' = {}

ScanHosts ==
  /\ Goto("network", "scan") /\ config.network
  /\ Submit(Hosts)
  /\ UNCHANGED sent /\ Untouched

\* Without a host there is no pool, and the report is empty.
NoHosts ==
  /\ Goto("network", "services") /\ config.network
  /\ Hosts = <<>>
  /\ sent' = [sent EXCEPT !["network"] = NoReport]
  /\ NoPool /\ Untouched

ProbePorts ==
  /\ Goto("services", "probe") /\ config.services
  /\ Submit(config.ports)
  /\ UNCHANGED sent /\ Untouched

\* Mutant: the pool grows with the jobs.
TakeAny ==
  /\ ~exited /\ Waiting # {}
  /\ outcome' = [outcome EXCEPT ![Min(Waiting)] = "running"]
  /\ UNCHANGED <<config, pc, jobs, age, found, yielded, sent, stopping, left, exited>>

\* A worker takes the job that was submitted first.
Take ==
  /\ ~exited /\ Waiting # {} /\ Cardinality(Running) < Workers
  /\ outcome' = [outcome EXCEPT ![Min(Waiting)] = "running"]
  /\ UNCHANGED <<config, pc, jobs, age, found, yielded, sent, stopping, left, exited>>

Answer ==
  /\ ~exited
  /\ \E i \in Running, end \in Outcomes :
       /\ outcome' = [outcome EXCEPT ![i] = end]
       /\ age' = [age EXCEPT ![i] = 0]
  /\ UNCHANGED <<config, pc, jobs, found, yielded, sent, stopping, left, exited>>

\* Mutant: a job that raises ends the gathering.
YieldRaises ==
  /\ ~exited /\ pc \in {"scan", "probe"}
  /\ \E i \in DOMAIN jobs \ (yielded \cup Running \cup Waiting) :
       IF outcome[i] = "raised" THEN yielded' = DOMAIN jobs \ (Running \cup Waiting) /\ UNCHANGED found
       ELSE /\ yielded' = yielded \cup {i}
            /\ found' = IF pc = "probe" \/ outcome[i] = "up" THEN Append(found, i) ELSE found
  /\ UNCHANGED <<config, pc, jobs, outcome, age, sent, stopping, left, exited>>

\* as_completed() yields a job: a host counts if it is up, a port in any case.
Yield ==
  /\ ~exited /\ pc \in {"scan", "probe"}
  /\ \E i \in DOMAIN jobs \ (yielded \cup Running \cup Waiting) :
       /\ yielded' = yielded \cup {i}
       /\ found' = IF pc = "probe" \/ outcome[i] = "up" THEN Append(found, i) ELSE found
  /\ UNCHANGED <<config, pc, jobs, outcome, age, sent, stopping, left, exited>>

Entries(of) == [n \in DOMAIN of |-> <<jobs[of[n]], outcome[of[n]] = "up">>]

\* The report of a scan.
SendHosts ==
  /\ Goto("scan", "services")
  /\ yielded = DOMAIN jobs
  /\ sent' = [sent EXCEPT !["network"] = [entries |-> Entries(found), truncated |-> Truncated]]
  /\ NoPool /\ Untouched

\* Mutant: the ports as they were probed.
SendUnsorted ==
  /\ Goto("probe", "wait")
  /\ yielded = DOMAIN jobs
  /\ sent' = [sent EXCEPT !["services"].entries = Entries(found)]
  /\ NoPool /\ Untouched

\* In the order of their ports: before an entry stand those of a smaller port.
ByPort(entries) ==
  LET smaller(i) == { j \in DOMAIN entries : entries[j][1] < entries[i][1] }
  IN  [n \in DOMAIN entries |->
        entries[CHOOSE i \in DOMAIN entries : Cardinality(smaller(i)) = n - 1]]

\* results.sort() by port.
SendPorts ==
  /\ Goto("probe", "wait")
  /\ yielded = DOMAIN jobs
  /\ sent' = [sent EXCEPT !["services"].entries = ByPort(Entries(found))]
  /\ NoPool /\ Untouched

\* SIGTERM or SIGINT: the event is set.
Signal ==
  /\ ~stopping /\ stopping' = TRUE
  /\ UNCHANGED <<config, pc, jobs, outcome, age, found, yielded, sent, left, exited>>

\* The main thread ends.
Leave ==
  /\ stopping /\ left = Never
  /\ left' = 0
  /\ UNCHANGED <<config, pc, jobs, outcome, age, found, yielded, sent, stopping, exited>>

Exit ==
  /\ left # Never /\ ~exited
  /\ Running \cup Waiting = {}
  /\ exited' = TRUE
  /\ UNCHANGED <<config, pc, jobs, outcome, age, found, yielded, sent, stopping, left>>

\* A second passes, in which no job exceeds its time and no worker rests.
Tick ==
  /\ ~exited
  /\ Running # {} /\ (Waiting = {} \/ Cardinality(Running) = Workers)
  /\ \A i \in Running : age[i] < JobTime
  /\ age' = [i \in DOMAIN age |-> IF i \in Running THEN age[i] + 1 ELSE age[i]]
  /\ left' = IF left = Never THEN Never ELSE left + 1
  /\ UNCHANGED <<config, pc, jobs, outcome, found, yielded, sent, stopping, exited>>

Thread ==
  \/ Begin \/ Wait \/ Raise \/ Disabled \/ ScanHosts \/ NoHosts \/ ProbePorts
  \/ Yield \/ SendHosts \/ SendPorts

Next == Thread \/ Take \/ Answer \/ Tick \/ Signal \/ Leave \/ Exit

Spec == Init /\ [][Next]_vars

\* Threads run, and jobs end, by their timeouts at the latest.
FairSpec == Spec /\ WF_vars(Thread) /\ WF_vars(Take) /\ WF_vars(Answer)
-------------------------------------------------------------------------------
\* The report of a scan: the first MaxHosts hosts, an entry for each scan that
\* found its host up and for no other, and whether there were more hosts.
HostsComplete(report) ==
  LET up == { i \in DOMAIN jobs : outcome[i] = "up" } IN
    /\ Len(jobs) = Least(MaxHosts, Len(Enumerated))
    /\ \A i \in DOMAIN jobs : jobs[i] = Enumerated[i]
    /\ Len(report.entries) = Cardinality(up)
    /\ \A h \in ToSet(jobs) :
         Cardinality({ n \in DOMAIN report.entries : report.entries[n] = <<h, TRUE>> })
           = Cardinality({ i \in up : jobs[i] = h })
    /\ report.truncated <=> Len(jobs) < Len(Enumerated)

\* The report on services: every port once, in ascending order, each open only
\* if its own probe succeeded.
PortsComplete(report) ==
  /\ Len(report.entries) = Len(config.ports)
  /\ \A n \in 1 .. Len(report.entries) - 1 : report.entries[n][1] < report.entries[n + 1][1]
  /\ \A i \in DOMAIN jobs : <<jobs[i], outcome[i] = "up">> \in ToSet(report.entries)

(* The order in which jobs end, and those that raise, leave no trace in a   *)
(* report: none is lost, none takes another's place, none is told twice.    *)
ReportsComplete ==
  [][/\ pc = "scan" /\ pc' = "services" => HostsComplete(sent'["network"])
     /\ pc = "probe" /\ pc' = "wait" => PortsComplete(sent'["services"])]_vars

(* The process ends, after its main thread, within the waves of jobs that a  *)
(* pool still has: the workers are joined, the daemon thread is not.        *)
ExitsWithin ==
  LET waves(n, workers) == (n + workers - 1) \div workers
  IN  left <= JobTime * Max({waves(Len(Hosts), MaxWorkers), waves(Len(config.ports), PortWorkers)})

(* No exception ends discovery: the thread comes back to its loop until the  *)
(* event is set.                                                            *)
GoesOn == []~stopping => []<>(pc = "begin")
===============================================================================
