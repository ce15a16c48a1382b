------------------------------ MODULE MetricCycle ------------------------------
(***************************************************************************)
(* The metrics part of main.py's cycle: the counters of disks and network  *)
(* interfaces are read, then the plugins run, then the payload is sent; an  *)
(* exception leaves the cycle.  Of the payload only the rates matter:      *)
(* differences of two readings, told per MetricInterval, so that a rate is *)
(* the bytes it stands for.                                                *)
(*                                                                         *)
(* Counters are psutil's: while a device is there they grow; one that was  *)
(* gone when psutil looked starts anew when it returns, one that psutil    *)
(* did not miss goes on (nowrap).  Devices come and go between cycles, and *)
(* counters grow before they are read: nothing else looks at them.         *)
(***************************************************************************)
EXTENDS PluginLoader, Functions, FiniteSets

CONSTANTS
  Disks, Nics,
  Removable,        \* the devices that may come and go
  MetricInterval,   \* the nominal interval
  CollectTime,      \* the longest that what precedes the reading takes
  Busy,             \* bound: the devices with traffic
  MaxGrowth,        \* bound: bytes between two readings
  MaxUnplugged,     \* bound: devices that leave
  Null              \* Python's None

ASSUME MetricAssumption ==
  /\ Removable \cup Busy \subseteq Disks \cup Nics
  /\ Disks \cap Nics = {} /\ "net" \notin Disks \cup Nics /\ IsFiniteSet(Nics)
  /\ {MetricInterval, CollectTime, MaxGrowth, MaxUnplugged} \subseteq Nat
  /\ Null \notin Int

VARIABLES
  stage,            \* where the cycle is
  counters,         \* the bytes of the devices that are there
  prevDisk,         \* prev_disk_io_counters, the empty function for None
  prevNet,          \* prev_net_counters
  rates,            \* the rates in this cycle's payload
  gone,             \* the devices that left since psutil looked
  unplugged,        \* devices that left so far
  told,             \* history: what the rates sent add up to
  first,            \* history: the first reading since a disk is there, and of the network
  spoiled,          \* history: whose rates were lost with a cycle that raised
  left,             \* history: an interface left since the last reading of the network
  readAt            \* history: the time of the last reading of the disks, or Null

plugins == <<invalid, state, running, todo, results, reloads, began>>
readings == <<prevDisk, prevNet, first, readAt>>
sums == <<told, spoiled>>
devices == <<counters, gone, unplugged, left>>
cycleVars == <<vars, stage, readings, sums, devices, rates>>

Items == Disks \cup {"net"}
Partial(f, S, T) == DOMAIN f \subseteq S /\ f \in [DOMAIN f -> T]
There(S) == S \cap DOMAIN counters
None == <<>>

CycleTypeOK ==
  /\ TypeOK
  /\ stage \in {"wait", "disks", "network", "plugins", "send"}
  /\ Partial(counters, Disks \cup Nics, Nat)
  /\ Partial(prevDisk, Disks, Nat) /\ prevNet \in Nat \cup {Null}
  /\ Partial(rates, Items, Int) /\ Partial(first, Items, Nat)
  /\ gone \subseteq Removable \ DOMAIN counters
  /\ unplugged \in 0 .. MaxUnplugged
  /\ told \in [Items -> Int] /\ spoiled \subseteq Items /\ left \in BOOLEAN
  /\ readAt \in 0 .. clock \cup {Null}
  /\ running => stage = "plugins"

CycleInit ==
  /\ Init
  /\ stage = "disks"
  /\ counters = [d \in Disks \cup Nics |-> 0]
  /\ prevDisk = None /\ prevNet = Null
  /\ rates = None
  /\ gone = {} /\ unplugged = 0
  /\ told = [x \in Items |-> 0]
  /\ first = None /\ spoiled = {} /\ left = FALSE /\ readAt = Null

-------------------------------------------------------------------------------
Goto(from, to) == stage = from /\ stage' = to

Takes(d) == \E s \in 0 .. d : clock' = clock + s

\* psutil looks at the counters of S.
Look(S) ==
  /\ \E growth \in [There(S \cap Busy) -> 0 .. MaxGrowth] :
       counters' = [d \in DOMAIN counters |->
                      counters[d] + IF d \in DOMAIN growth THEN growth[d] ELSE 0]
  /\ gone' = gone \ S
  /\ UNCHANGED unplugged

\* Mutant: disks that are gone are remembered.
IoMerged ==
  [d \in DOMAIN prevDisk \cup There(Disks) |->
     IF d \in There(Disks) THEN counters'[d] ELSE prevDisk[d]]

\* psutil.disk_io_counters(perdisk=True)
Io == Restrict(counters', There(Disks))

\* psutil.net_io_counters(): the sum over the interfaces that are there.
Total == FoldFunctionOnSet(+, 0, counters, There(Nics))

Remember(reading) ==
  first' = [x \in DOMAIN first \cup DOMAIN reading |->
              IF x \in DOMAIN first THEN first[x] ELSE reading[x]]

\* get_disk_io_metrics(): a rate for every disk that was there last time, too.
ReadDisks ==
  /\ Goto("disks", "network")
  /\ Takes(CollectTime)
  /\ Look(Disks)
  /\ rates' = [d \in There(Disks) \cap DOMAIN prevDisk |-> counters'[d] - prevDisk[d]]
  /\ prevDisk' = Io
  /\ Remember(Restrict(counters', There(Disks)))
  /\ readAt' = clock'
  /\ UNCHANGED <<prevNet, left, sums, plugins>>

\* get_network_metrics(): a rate of all interfaces together.
ReadNetwork ==
  /\ Goto("network", "plugins")
  /\ Look(Nics)
  /\ rates' = IF prevNet = Null THEN rates
              ELSE [x \in DOMAIN rates \cup {"net"} |->
                      IF x = "net" THEN Total' - prevNet ELSE rates[x]]
  /\ prevNet' = Total'
  /\ Remember([x \in {"net"} |-> Total'])
  /\ left' = FALSE
  /\ UNCHANGED <<clock, prevDisk, readAt, sums, plugins>>

\* The rest of the payload: checks, and run_all().
RunAll ==
  /\ stage = "plugins"
  /\ \/ Cycle /\ UNCHANGED stage
     \/ \E n \in Names : (Serve(n) \/ Run(n)) /\ UNCHANGED stage
     \/ Return /\ stage' = "send"
  /\ UNCHANGED <<readings, sums, devices, rates>>

\* An exception leaves the cycle, and the payload is gone.
Abandon ==
  /\ stage' = "wait"
  /\ spoiled' = spoiled \cup DOMAIN rates
  /\ rates' = None
  /\ UNCHANGED <<readings, told>>

\* run_all() lets none out but that of an interval.
RunAllRaises ==
  /\ stage = "plugins"
  /\ \E n \in Names : TurnRaises(n)
  /\ Abandon
  /\ UNCHANGED devices

\* evaluate() returns, and send_metrics() sends or queues the payload.
Send ==
  /\ Goto("send", "wait")
  /\ told' = [x \in Items |-> told[x] + IF x \in DOMAIN rates THEN rates[x] ELSE 0]
  /\ rates' = None
  /\ UNCHANGED <<clock, plugins, readings, devices, spoiled>>

\* Anything else raises; a collector that does leaves what it remembers of the
\* last reading.
Raise ==
  /\ stage # "wait" /\ ~running
  /\ \/ stage = "network" /\ Look(Nics)
     \/ UNCHANGED <<counters, gone, unplugged>>
  /\ Abandon
  /\ UNCHANGED <<clock, plugins, left>>

\* shutdown_event.wait(metric_interval), to its end.
Wait ==
  /\ Goto("wait", "disks")
  /\ clock + MetricInterval <= MaxTime
  /\ clock' = clock + MetricInterval
  /\ UNCHANGED <<plugins, readings, sums, devices, rates>>

\* Nothing calls reload() yet; it belongs between two cycles.
ReloadPlugins ==
  /\ stage = "wait"
  /\ Reload
  /\ UNCHANGED <<stage, readings, sums, devices, rates>>

Unplug(d) ==
  /\ stage = "wait" /\ unplugged < MaxUnplugged
  /\ d \in There(Removable)
  /\ counters' = Restrict(counters, DOMAIN counters \ {d})
  /\ gone' = gone \cup {d}
  /\ unplugged' = unplugged + 1
  /\ left' = (left \/ d \in Nics)
  /\ told' = [x \in Items |-> IF x = d THEN 0 ELSE told[x]]
  /\ first' = Restrict(first, DOMAIN first \ {d})
  /\ spoiled' = spoiled \ {d}
  /\ UNCHANGED <<vars, stage, prevDisk, prevNet, readAt, rates>>

Plug(d) ==
  /\ stage = "wait"
  /\ d \in Removable \ (DOMAIN counters \cup gone)
  /\ counters' = [x \in DOMAIN counters \cup {d} |-> IF x = d THEN 0 ELSE counters[x]]
  /\ UNCHANGED <<vars, stage, readings, sums, rates, gone, unplugged, left>>

CycleNext ==
  \/ ReadDisks \/ ReadNetwork \/ RunAll \/ RunAllRaises \/ Send \/ Raise \/ Wait \/ ReloadPlugins
  \/ \E d \in Removable : Unplug(d) \/ Plug(d)

CycleSpec == CycleInit /\ [][CycleNext]_cycleVars
-------------------------------------------------------------------------------
Reading(x) == IF x = "net" THEN Total ELSE counters[x]

\* What was told of a disk since it is there, and of the network, is what its
\* counter grew by; less if a cycle raised after its reading.
AddsUp ==
  stage \in {"plugins", "send"} => \A x \in Items :
    LET sum == told[x] + IF x \in DOMAIN rates THEN rates[x] ELSE 0 IN
      /\ x \in DOMAIN first \ spoiled => sum = Reading(x) - first[x]
      /\ x \in DOMAIN first \ {"net"} => sum <= Reading(x) - first[x]

\* A bandwidth is negative only if an interface left, a disk's rate never.
NeverBackwards ==
  \A x \in DOMAIN rates' : rates'[x] < 0 => x = "net" /\ (left \/ rates' = rates)

\* A difference that is told as MetricInterval's took that long, or longer.
NeverUnderstated ==
  readAt # Null /\ readAt' # readAt => readAt' - readAt >= MetricInterval

(* The rates of a payload are differences of counters over the nominal      *)
(* interval (main.py:318, 324).  They account for every byte, through disks *)
(* that come and go and readings that fail, but for those of a cycle that   *)
(* raises after the reading; none of a disk is negative, and none is less   *)
(* than the true rate.                                                     *)
RatesAddUp == [][AddsUp' /\ NeverBackwards /\ NeverUnderstated]_cycleVars
===============================================================================
