------------------------------ MODULE PluginLoader -----------------------------
(***************************************************************************)
(* plugins/loader.py: the plugins found in a directory, run in each cycle  *)
(* by run_all(), which caches the result of a plugin with an interval.     *)
(*                                                                         *)
(* The directory is a sequence of files in listing order.  A result is     *)
(* what matters of it: when its run began, and how it ended.  time.time()  *)
(* does not go backwards here.                                             *)
(***************************************************************************)
EXTENDS Integers, Sequences

CONSTANTS
  Files,            \* the directory: see File
  Careless,         \* the names whose PLUGIN_INTERVAL may be something else than a number
  RunTime,          \* bound: seconds a plugin runs
  MaxStep,          \* bound: seconds between two cycles
  MaxTime,          \* bound: the last cycle
  MaxReloads        \* bound: calls of reload()

\* `interval` is 0 for None; a file that does not load, or has no collect(), is skipped.
File == [name : STRING, interval : Nat, loads : BOOLEAN]

ASSUME PluginAssumption ==
  /\ Files \in Seq(File)
  /\ Careless \subseteq STRING
  /\ RunTime \in Nat /\ MaxStep \in Nat /\ MaxTime \in Nat /\ MaxReloads \in Nat

Loaded == { k \in DOMAIN Files : Files[k].loads }
Names == { Files[k].name : k \in Loaded }

\* A later file takes the name of an earlier one.
FileOf(n) == CHOOSE k \in Loaded : Files[k].name = n /\ \A j \in Loaded : Files[j].name = n => j <= k
Interval(n) == Files[FileOf(n)].interval

Ends == {"value", "none", "error"}
Never == -1

VARIABLES
  clock,            \* time.time()
  invalid,          \* the plugins loaded with an interval that is no number
  state,            \* _state: last_run, and last_result's end and the start of its run
  running,          \* in run_all()
  todo,             \* the plugins run_all() has still to come to
  results,          \* what run_all() has gathered: the start of the run it came from
  reloads,
  began             \* history: when the last run of each plugin since reload() began

vars == <<clock, invalid, state, running, todo, results, reloads, began>>

NoResult == [last_run |-> 0, end |-> "none", from |-> Never]

TypeOK ==
  /\ clock \in Nat
  /\ invalid \subseteq Names \cap Careless
  /\ state \in [Names -> [last_run : Nat, end : Ends, from : Nat \cup {Never}]]
  /\ running \in BOOLEAN
  /\ todo \subseteq Names
  /\ results \in [Names -> Nat \cup {Never}]
  /\ reloads \in 0 .. MaxReloads
  /\ began \in [Names -> Nat \cup {Never}]
  /\ \A n \in Names : state[n].from <= clock /\ state[n].last_run <= clock

\* The epoch is long ago: no plugin is within its interval of last_run = 0.
Longest == CHOOSE i \in {0} \cup { Interval(n) : n \in Names } : \A n \in Names : Interval(n) <= i

Init ==
  /\ clock = Longest
  /\ invalid \in SUBSET (Names \cap Careless)
  /\ state = [n \in Names |-> NoResult]
  /\ running = FALSE /\ todo = {}
  /\ results = [n \in Names |-> Never]
  /\ reloads = 0
  /\ began = [n \in Names |-> Never]

-------------------------------------------------------------------------------
\* run_all() is called.
Cycle ==
  /\ ~running /\ running' = TRUE
  /\ \E d \in 0 .. MaxStep : clock + d <= MaxTime /\ clock' = clock + d
  /\ todo' = Names
  /\ results' = [n \in Names |-> Never]
  /\ UNCHANGED <<invalid, state, reloads, began>>

\* run_all() comes to n, whose interval can be compared with.
Turn(n) ==
  /\ running /\ n \in todo \ invalid
  /\ todo' = todo \ {n}
  /\ UNCHANGED <<running, invalid>>

\* It cannot: the comparison raises before the plugin is run, and ends run_all().
TurnRaises(n) ==
  /\ running /\ n \in todo \cap invalid
  /\ running' = FALSE /\ todo' = {}
  /\ UNCHANGED <<clock, invalid, state, results, reloads, began>>

\* Not due: the cached result stands.
Cached(n) == Interval(n) # 0 /\ clock - state[n].last_run < Interval(n)

\* run_all() leaves None out.
Gather(n, end, from) ==
  results' = IF end = "none" THEN results ELSE [results EXCEPT ![n] = from]

Serve(n) ==
  /\ Turn(n)
  /\ Cached(n)
  /\ Gather(n, state[n].end, state[n].from)
  /\ UNCHANGED <<clock, state, reloads, began>>

\* Mutant: only a run that succeeds counts.
RunCountsSuccess(n) ==
  /\ Turn(n)
  /\ ~Cached(n)
  /\ \E end \in Ends, d \in 0 .. RunTime :
       /\ clock' = clock + d
       /\ state' = [state EXCEPT ![n] =
            [last_run |-> IF end = "error" THEN @.last_run ELSE clock,
             end |-> end, from |-> clock]]
       /\ Gather(n, end, clock)
  /\ began' = [began EXCEPT ![n] = clock]
  /\ UNCHANGED reloads

\* Mutant: what a plugin raises ends run_all().
RunPropagates(n) ==
  /\ running /\ n \in todo \ invalid /\ UNCHANGED <<running, invalid>>
  /\ ~Cached(n)
  /\ \E end \in Ends, d \in 0 .. RunTime :
       /\ clock' = clock + d
       /\ todo' = IF end = "error" THEN {} ELSE todo \ {n}
       /\ state' = [state EXCEPT ![n] = [last_run |-> clock, end |-> end, from |-> clock]]
       /\ Gather(n, end, clock)
  /\ began' = [began EXCEPT ![n] = clock]
  /\ UNCHANGED reloads

\* Mutant: the stamp is taken a second into the run.
RunStampedLate(n) ==
  /\ Turn(n)
  /\ ~Cached(n)
  /\ \E end \in Ends, d \in 0 .. RunTime :
       /\ clock' = clock + d
       /\ state' = [state EXCEPT ![n] = [last_run |-> clock + 1, end |-> end, from |-> clock]]
       /\ Gather(n, end, clock)
  /\ began' = [began EXCEPT ![n] = clock]
  /\ UNCHANGED reloads

\* The plugin runs; what it raises is its result.
Run(n) ==
  /\ Turn(n)
  /\ ~Cached(n)
  /\ \E end \in Ends, d \in 0 .. RunTime :
       /\ clock' = clock + d
       /\ state' = [state EXCEPT ![n] = [last_run |-> clock, end |-> end, from |-> clock]]
       /\ Gather(n, end, clock)
  /\ began' = [began EXCEPT ![n] = clock]
  /\ UNCHANGED reloads

\* run_all() returns.
Return ==
  /\ running /\ todo = {}
  /\ running' = FALSE
  /\ UNCHANGED <<clock, invalid, state, todo, results, reloads, began>>

\* reload(): the same files, some edited, with no memory of their runs.
Reload ==
  /\ ~running
  /\ reloads < MaxReloads
  /\ reloads' = reloads + 1
  /\ invalid' \in SUBSET (Names \cap Careless)
  /\ state' = [n \in Names |-> NoResult]
  /\ began' = [n \in Names |-> Never]
  /\ UNCHANGED <<clock, running, todo, results>>

Next ==
  \/ Cycle \/ Return \/ Reload
  \/ \E n \in Names : Serve(n) \/ Run(n) \/ TurnRaises(n)

Spec == Init /\ [][Next]_vars
-------------------------------------------------------------------------------
(* "run at most once every 60s, cached in between" (README.md:96): two runs *)
(* of a plugin begin an interval apart, whether they succeed or not, unless *)
(* a reload() between them forgot the first.                               *)
AtMostOncePerInterval ==
  [][\A n \in Names :
       began'[n] # began[n] /\ began[n] # Never /\ began'[n] # Never =>
         began'[n] - began[n] >= Interval(n)]_vars

(* Whatever a plugin raises, returns or has cached, it keeps no other from  *)
(* its turn: when run_all() returns, the latest run of each is in the      *)
(* results, unless it ended in None.  What can keep others from theirs is  *)
(* an interval that is no number: run_all() does not return then.          *)
EveryPluginAnswers ==
  running /\ todo = {} => \A n \in Names :
    IF state[n].end = "none" THEN results[n] = Never ELSE results[n] = began[n]
===============================================================================
