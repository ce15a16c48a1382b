-------------------------------- MODULE IoChecks -------------------------------
(***************************************************************************)
(* main.py's _run_io_checks and the four checks it runs, each on a thread  *)
(* of its own.  The dns, http and icmp checks probe their targets with a   *)
(* pool of workers; the services check asks for one service after another. *)
(*                                                                         *)
(* Of an answer only its target is kept.  A probe ends within a time of    *)
(* its target's, and whether it raises is up to the target.  A thread that *)
(* can go on does so before time passes.                                   *)
(***************************************************************************)
EXTENDS Integers, Sequences, FiniteSetsExt

CONSTANTS
  Configs,          \* the configurations: of each kind of check, its targets
  Width             \* the most workers of a pool: 16 in the code

Pooled == {"dns", "http", "icmp"}
Kinds == Pooled \cup {"services"}

\* "target": not of the expected type.  "argument": a value of it is of no use.
\* "foreign": a service without a name, or of another platform.
Faults == {"none", "argument", "target", "foreign"}
Target == [fault : Faults, most : Nat]

ASSUME ChecksAssumption ==
  /\ \A c \in Configs : c \in [Kinds -> Seq(Target)]
  /\ Width \in Nat \ {0}

Report(end, of) == [end |-> end, of |-> of]

VARIABLES
  config,           \* the targets
  time,             \* seconds since the call
  task,             \* the future of each check
  probe,            \* the future of each target
  started,          \* when its probe began
  gathered,         \* the futures whose result a check has taken
  results,          \* the targets its answers are of
  checks            \* what _run_io_checks has returned

vars == <<config, time, task, probe, started, gathered, results, checks>>

Indices(k) == DOMAIN config[k]
Count(k) == Len(config[k])

TypeOK ==
  /\ config \in Configs
  /\ time \in Nat
  /\ task \in [Kinds -> {"idle", "running", "raising", "raised", "returned"}]
  /\ \A k \in Kinds :
       /\ probe[k] \in [Indices(k) -> {"waiting", "running", "answered", "raised"}]
       /\ started[k] \in [Indices(k) -> Nat]
       /\ gathered[k] \in 0 .. Count(k)
       /\ results[k] \in Seq(0 .. Count(k)) /\ Len(results[k]) <= Count(k)
       /\ checks[k].end \in {"none", "absent", "error", "answers"}
       /\ checks[k].of \in Seq(1 .. Count(k))
       /\ Cardinality({ i \in Indices(k) : probe[k][i] = "running" }) <= Width

\* icmp starts from an error entry for every target, dns and http from None.
Fresh(k) ==
  CASE k = "icmp" -> [i \in Indices(k) |-> i]
    [] k = "services" -> <<>>
    [] OTHER -> [i \in Indices(k) |-> 0]

Each(value) == [k \in Kinds |-> value]
EachTarget(value) == [k \in Kinds |-> [i \in Indices(k) |-> value]]

Init ==
  /\ config \in Configs
  /\ time = 0
  /\ task = Each("idle")
  /\ probe = EachTarget("waiting") /\ started = EachTarget(0)
  /\ gathered = Each(0) /\ results = [k \in Kinds |-> Fresh(k)]
  /\ checks = Each(Report("none", <<>>))

-------------------------------------------------------------------------------
Running(k) == { i \in Indices(k) : probe[k][i] = "running" }
Waiting(k) == { i \in Indices(k) : probe[k][i] = "waiting" }
Over(k, i) == probe[k][i] \in {"answered", "raised"}
Ended(k) == task[k] \in {"raised", "returned"} \/ Count(k) = 0

\* A check of no targets is not submitted.  The icmp check looks at all its
\* targets before it pings one.
Submit(k) ==
  /\ task[k] = "idle" /\ Count(k) > 0
  /\ task' = [task EXCEPT ![k] =
       IF k = "icmp" /\ \E i \in Indices(k) : config[k][i].fault = "target"
       THEN "raised" ELSE "running"]
  /\ UNCHANGED <<config, time, probe, started, gathered, results, checks>>

Least(a, b) == IF a < b THEN a ELSE b

\* Mutant: a pool of one worker.
WorkersOne(k) == Least(1, Count(k))

\* Mutant: a worker more than the width.
WorkersMore(k) == Least(Width + 1, Count(k))

\* ThreadPoolExecutor(max_workers=min(16, len(targets)))
Workers(k) == Least(Width, Count(k))

\* A worker of the pool takes the target that was submitted first.
Take(k) ==
  /\ k \in Pooled /\ task[k] \in {"running", "raising"}
  /\ Waiting(k) # {} /\ Cardinality(Running(k)) < Workers(k)
  /\ LET i == Min(Waiting(k)) IN
       /\ probe' = [probe EXCEPT ![k][i] = "running"]
       /\ started' = [started EXCEPT ![k][i] = time]
  /\ UNCHANGED <<config, time, task, gathered, results, checks>>

\* A probe ends: in an answer, whatever it says, or in an exception.
Ends(k, i, raises) ==
  /\ probe[k][i] = "running"
  /\ probe' = [probe EXCEPT ![k][i] = IF raises THEN "raised" ELSE "answered"]
  /\ UNCHANGED <<config, time, task, started, gathered, results, checks>>

\* The _check_one()s raise at a target that is no dict.  A timeout, a refusal and
\* an unexpected reply are answers.
HttpProbe(i) == Ends("http", i, config["http"][i].fault = "target")
DnsProbe(i) == Ends("dns", i, config["dns"][i].fault = "target")

\* A ping raises at a timeout that is no number, if there is a binary to call.
PingProbe(i) ==
  \/ Ends("icmp", i, FALSE)
  \/ config["icmp"][i].fault = "argument" /\ Ends("icmp", i, TRUE)

\* Mutant: results in the order in which the probes end.
GatherCompleted(k) ==
  /\ k \in Pooled /\ task[k] = "running"
  /\ gathered[k] < Count(k)
  /\ \E i \in Indices(k) :
       /\ Over(k, i) /\ \A j \in 1 .. gathered[k] : results[k][j] # i
       /\ IF probe[k][i] = "raised" /\ k # "icmp"
          THEN task' = [task EXCEPT ![k] = "raising"] /\ UNCHANGED <<gathered, results>>
          ELSE /\ results' = [results EXCEPT ![k][gathered[k] + 1] = i]
               /\ gathered' = [gathered EXCEPT ![k] = @ + 1]
               /\ UNCHANGED task
  /\ UNCHANGED <<config, time, probe, started, checks>>

\* The check takes the next future's result.  A raise ends the dns and http
\* checks, and stays in its target's entry in the icmp check.
Gather(k) ==
  /\ k \in Pooled /\ task[k] = "running"
  /\ gathered[k] < Count(k)
  /\ LET i == gathered[k] + 1 IN
       /\ Over(k, i)
       /\ IF probe[k][i] = "raised" /\ k # "icmp"
          THEN task' = [task EXCEPT ![k] = "raising"] /\ UNCHANGED <<gathered, results>>
          ELSE /\ results' = [results EXCEPT ![k][i] = i]
               /\ gathered' = [gathered EXCEPT ![k] = i]
               /\ UNCHANGED task
  /\ UNCHANGED <<config, time, probe, started, checks>>

\* The end of `with ThreadPoolExecutor` waits for every probe, also for a raise.
LeavePool(k) ==
  /\ k \in Pooled
  /\ \A i \in Indices(k) : Over(k, i)
  /\ \/ task[k] = "raising" /\ task' = [task EXCEPT ![k] = "raised"]
     \/ /\ task[k] = "running" /\ gathered[k] = Count(k)
        /\ task' = [task EXCEPT ![k] = "returned"]
  /\ UNCHANGED <<config, time, probe, started, gathered, results, checks>>

\* The services check asks for the next service, if there is one to ask for.
Ask ==
  /\ task["services"] = "running"
  /\ Running("services") = {} /\ Waiting("services") # {}
  /\ LET i == Min(Waiting("services")) IN
       CASE config["services"][i].fault = "target" ->
              /\ task' = [task EXCEPT !["services"] = "raised"]
              /\ UNCHANGED <<probe, started>>
         [] config["services"][i].fault = "foreign" ->
              /\ probe' = [probe EXCEPT !["services"][i] = "answered"]
              /\ UNCHANGED <<task, started>>
         [] OTHER ->
              /\ probe' = [probe EXCEPT !["services"][i] = "running"]
              /\ started' = [started EXCEPT !["services"][i] = time]
              /\ UNCHANGED task
  /\ UNCHANGED <<config, time, gathered, results, checks>>

\* systemctl has answered, failed, or run into its timeout.
Told ==
  /\ \E i \in Running("services") :
       /\ probe' = [probe EXCEPT !["services"][i] = "answered"]
       /\ results' = [results EXCEPT !["services"] = Append(@, i)]
  /\ UNCHANGED <<config, time, task, started, gathered, checks>>

AskedAll ==
  /\ task["services"] = "running"
  /\ \A i \in Indices("services") : Over("services", i)
  /\ task' = [task EXCEPT !["services"] = "returned"]
  /\ UNCHANGED <<config, time, probe, started, gathered, results, checks>>

\* _run_io_checks has taken every check's result, and returns.  The next cycle
\* calls it again.
Return ==
  /\ \A k \in Kinds : Ended(k)
  /\ checks' = [k \in Kinds |->
       CASE Count(k) = 0 -> Report("absent", <<>>)
         [] task[k] = "raised" -> Report("error", <<>>)
         [] OTHER -> Report("answers", results[k])]
  /\ time' = 0
  /\ task' = Each("idle")
  /\ probe' = EachTarget("waiting") /\ started' = EachTarget(0)
  /\ gathered' = Each(0) /\ results' = [k \in Kinds |-> Fresh(k)]
  /\ UNCHANGED config

Step ==
  \/ \E k \in Kinds : Submit(k) \/ Take(k) \/ Gather(k) \/ LeavePool(k)
  \/ Ask \/ AskedAll

\* A check's thread waits for a probe, and no worker of its pool can take one.
Waits(k) ==
  /\ Running(k) # {}
  /\ k \in Pooled =>
       /\ Waiting(k) = {} \/ Cardinality(Running(k)) = Workers(k)
       /\ task[k] = "running" => ~Over(k, gathered[k] + 1)

\* A second passes: none of the threads can go on, no probe exceeds its time.
Tick ==
  /\ \A k \in Kinds : Ended(k) \/ Waits(k)
  /\ \E k \in Kinds : ~Ended(k)
  /\ \A k \in Kinds : \A i \in Running(k) : time - started[k][i] < config[k][i].most
  /\ time' = time + 1
  /\ UNCHANGED <<config, task, probe, started, gathered, results, checks>>

Next ==
  \/ Step \/ Told \/ Return \/ Tick
  \/ \E i \in Indices("http") : HttpProbe(i)
  \/ \E i \in Indices("dns") : DnsProbe(i)
  \/ \E i \in Indices("icmp") : PingProbe(i)

Spec == Init /\ [][Next]_vars
-------------------------------------------------------------------------------
Good(k) == { i \in Indices(k) : config[k][i].fault # "foreign" }

\* A target that is not of the expected type costs its check all the answers.
Spoilt(k) == \E i \in Indices(k) : config[k][i].fault = "target"

Slowest(k) == Max({0} \cup { config[k][i].most : i \in Indices(k) })

\* How long the first n targets of a check take, one after the other.
UpTo(k) ==
  LET sum[n \in 0 .. Count(k)] == IF n = 0 THEN 0 ELSE sum[n - 1] + config[k][n].most
  IN  sum

Together(k) == UpTo(k)[Count(k)]
Waves(k) == (Count(k) + Width - 1) \div Width

\* The members of a set of numbers, each once, in ascending order.
InOrderOnce(s, S) ==
  /\ { s[n] : n \in DOMAIN s } = S
  /\ \A m, n \in DOMAIN s : m < n => s[m] < s[n]

(* Whatever the order in which probes end, a check reports of every target  *)
(* once and in the order of the configuration, at the place of its own:     *)
(* one whose probe raises in the icmp check, too.  Only a target of the     *)
(* wrong type spoils its check, and no check spoils another.                *)
EveryTargetAnswers ==
  \A k \in Kinds : checks[k].end # "none" /\ Count(k) > 0 =>
    IF Spoilt(k) THEN checks[k].end = "error"
    ELSE /\ checks[k].end = "answers"
         /\ k # "services" => checks[k].of = [i \in Indices(k) |-> i]
         /\ k = "services" => InOrderOnce(checks[k].of, Good(k))

(* The checks take as long as the slowest of them: services one after the   *)
(* other, the targets of the others in waves of the pool's width.           *)
WithinWaves ==
  \A k \in Kinds : task[k] \in {"running", "raising"} =>
    time <= IF k = "services" THEN Together(k) ELSE Waves(k) * Slowest(k)
===============================================================================
