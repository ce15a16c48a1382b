----------------------------- MODULE TriggerEngine -----------------------------
(***************************************************************************)
(* triggers/engine.py: evaluate() compares each configured trigger with a  *)
(* metrics payload and returns the alerts to send.  A trigger fires once   *)
(* its condition has held for `for` seconds and recovers at a threshold of *)
(* its own; what it remembers between calls is kept under its name.        *)
(*                                                                         *)
(* One step is one turn of evaluate()'s loop.  The main thread is the only *)
(* caller.  An exception leaves evaluate(): its list of alerts is lost,    *)
(* what it wrote to self.state is not.  Null stands for None and for       *)
(* whatever else in a trigger's numbers is no number.                      *)
(***************************************************************************)
EXTENDS Integers, Sequences

CONSTANTS
  Config,       \* the configured triggers, in order
  Values,       \* the numbers a metric can be
  Null,         \* Python's None
  MaxStep,      \* bound: seconds between two calls
  MaxClock      \* bound: the last call

Ordering == {">", ">=", "<", "<="}

\* keyed: can its key be split, its operator and its name be looked up?
Trigger ==
  [name : STRING, keyed : BOOLEAN, op : STRING, threshold : Int \cup {Null},
   recovery : Int \cup {Null}, hold : Nat \cup {Null}, wellFormatted : BOOLEAN]

\* With any other configuration _validate_triggers() raises, and no engine exists.
Validated(trigger) ==
  trigger.op \in Ordering /\ trigger.recovery # Null => trigger.threshold # Null

ASSUME TriggerAssumption ==
  /\ Config \in Seq(Trigger)
  /\ \A i \in DOMAIN Config : Validated(Config[i])
  /\ Values \subseteq Int
  /\ Null \notin Int
  /\ MaxStep \in Nat /\ MaxClock \in Nat

VARIABLES
  state,        \* self.state, by name
  now,          \* time.time() at the last call of evaluate()
  at,           \* the trigger evaluate() has come to; 0 outside evaluate()
  alerts,       \* how many alerts of each kind evaluate()'s list has for each name
  told,         \* history: how many evaluate() returned
  unsaid,       \* history: how many were lost with an exception
  seen          \* history: what each call found of each trigger, met or unmet

vars == <<state, now, at, alerts, told, unsaid, seen>>

Names == { Config[i].name : i \in DOMAIN Config }
Events == {"problem", "recovery"}
Counts == [Names -> [Events -> Nat]]
Findings == [trigger : DOMAIN Config, time : Nat, found : {"met", "unmet"}]

TypeOK ==
  /\ state \in [Names -> [firing : BOOLEAN, pending_since : Nat \cup {Null}]]
  /\ now \in Nat
  /\ at \in 0 .. Len(Config) + 1
  /\ alerts \in Counts
  /\ told \in Counts
  /\ unsaid \in Counts
  /\ seen \subseteq Findings

NoneYet == [e \in Events |-> 0]
NoAlerts == [n \in Names |-> NoneYet]

Init ==
  /\ state = [n \in Names |-> [firing |-> FALSE, pending_since |-> Null]]
  /\ now = 0
  /\ at = 0
  /\ alerts = NoAlerts
  /\ told = NoAlerts
  /\ unsaid = NoAlerts
  /\ seen = {}

-------------------------------------------------------------------------------
(* op_func(value, x); with None for x, equality has an answer and an        *)
(* ordering raises TypeError.                                              *)
Compare(op, v, x) ==
  CASE op = ">"  -> v > x
    [] op = ">=" -> v >= x
    [] op = "<"  -> v < x
    [] op = "<=" -> v <= x
    [] op = "==" -> v = x
    [] op = "!=" -> v # x

Raises(op, x) == op \in Ordering /\ x = Null

Known(op) == op \in Ordering \cup {"==", "!="}

\* _validate_triggers() warns of a recovery threshold that does not loosen the other.
Loosens(op, threshold, recovery) ==
  CASE op \in {">", ">="} -> recovery <= threshold
    [] op \in {"<", "<="} -> recovery >= threshold
    [] OTHER               -> TRUE

T == Config[at]
S == state[T.name]

Found(f) == seen' = seen \cup {[trigger |-> at, time |-> now, found |-> f]}

Remember(firing, since) ==
  state' = [state EXCEPT ![T.name] = [firing |-> firing, pending_since |-> since]]

With(event) == [alerts EXCEPT ![T.name][event] = @ + 1]

Alert(event) == alerts' = With(event)

Plus(a, b) == [n \in Names |-> [e \in Events |-> a[n][e] + b[n][e]]]

\* The loop goes on, or an exception ends it and loses the list `lost`.
Continue == at' = at + 1 /\ UNCHANGED <<now, told, unsaid>>

Raise(lost) ==
  /\ at' = 0
  /\ alerts' = NoAlerts
  /\ unsaid' = Plus(unsaid, lost)
  /\ UNCHANGED <<now, told>>

\* evaluate() is called, with the clock read once.
Call ==
  /\ at = 0
  /\ \E d \in 1 .. MaxStep : now + d <= MaxClock /\ now' = now + d
  /\ at' = 1
  /\ UNCHANGED <<state, alerts, told, unsaid, seen>>

Evaluating == at \in DOMAIN Config

\* The trigger's key is no string, or its threshold no number: the metric is
\* not looked up, or not compared.
TurnRaises ==
  /\ Evaluating
  /\ ~T.keyed \/ Raises(T.op, T.threshold)
  /\ Raise(alerts)
  /\ UNCHANGED <<state, seen>>

\* The metric is missing or not a number, or the operator is unknown.
Skip ==
  /\ Evaluating /\ T.keyed
  /\ Continue
  /\ UNCHANGED <<state, alerts, seen>>

Compared(v, result) ==
  /\ Evaluating /\ T.keyed /\ Known(T.op) /\ ~Raises(T.op, T.threshold)
  /\ Compare(T.op, v, T.threshold) = result

Met(v) == Compared(v, TRUE) /\ Found("met")

Unmet(v) == Compared(v, FALSE) /\ Found("unmet")

Since == IF S.pending_since = Null THEN now ELSE S.pending_since

\* Mutant: an alert is due only after its hold time is over.
DueLate == now - Since > T.hold

Due == now - Since >= T.hold

Wait(v) ==
  /\ Met(v)
  /\ S.firing \/ (T.hold # Null /\ ~Due)
  /\ Remember(S.firing, Since)
  /\ Continue
  /\ UNCHANGED alerts

\* The hold time is no number: pending_since was set, nothing fires.
HoldRaises(v) ==
  /\ Met(v) /\ ~S.firing /\ T.hold = Null
  /\ Remember(FALSE, Since)
  /\ Raise(alerts)

Fires(v) == Met(v) /\ ~S.firing /\ T.hold # Null /\ Due

Fire(v) ==
  /\ Fires(v) /\ T.wellFormatted
  /\ Remember(TRUE, Since)
  /\ Alert("problem")
  /\ Continue

\* message_template.format() raises, after "firing" was set.
FireRaises(v) ==
  /\ Fires(v) /\ ~T.wellFormatted
  /\ Remember(TRUE, Since)
  /\ Raise(With("problem"))

\* Mutant: a dip does not reset the hold time.
RestKeepsPending(v) ==
  /\ Unmet(v)
  /\ S.firing => ~Raises(T.op, T.recovery) /\ Compare(T.op, v, T.recovery)
  /\ Continue
  /\ UNCHANGED <<state, alerts>>

\* Nothing to tell: the trigger was quiet, or it fires and its metric is still
\* on the wrong side of the recovery threshold.
Rest(v) ==
  /\ Unmet(v)
  /\ S.firing => ~Raises(T.op, T.recovery) /\ Compare(T.op, v, T.recovery)
  /\ Remember(S.firing, Null)
  /\ Continue
  /\ UNCHANGED alerts

\* Mutant: a recovery deletes the trigger's state.
RecoverForgets(v) ==
  /\ Unmet(v)
  /\ S.firing /\ ~Raises(T.op, T.recovery) /\ ~Compare(T.op, v, T.recovery)
  /\ state' = [n \in Names \ {T.name} |-> state[n]]
  /\ Alert("recovery")
  /\ Continue

\* Mutant: a recovery is not told.
RecoverUntold(v) ==
  /\ Unmet(v)
  /\ S.firing /\ ~Raises(T.op, T.recovery) /\ ~Compare(T.op, v, T.recovery)
  /\ Remember(FALSE, Null)
  /\ Continue
  /\ UNCHANGED alerts

Recover(v) ==
  /\ Unmet(v)
  /\ S.firing /\ ~Raises(T.op, T.recovery) /\ ~Compare(T.op, v, T.recovery)
  /\ Remember(FALSE, Null)
  /\ Alert("recovery")
  /\ Continue

\* recovery_threshold is null: None takes part in an ordering.
RecoverRaises(v) ==
  /\ Unmet(v)
  /\ S.firing /\ Raises(T.op, T.recovery)
  /\ Remember(TRUE, Null)
  /\ Raise(alerts)

\* evaluate() returns its alerts, which the main thread sends.
Return ==
  /\ at = Len(Config) + 1
  /\ at' = 0
  /\ told' = Plus(told, alerts)
  /\ alerts' = NoAlerts
  /\ UNCHANGED <<state, now, unsaid, seen>>

Next ==
  \/ Call
  \/ TurnRaises
  \/ Skip
  \/ \E v \in Values :
       \/ Wait(v)
       \/ HoldRaises(v)
       \/ Fire(v)
       \/ FireRaises(v)
       \/ Rest(v)
       \/ Recover(v)
       \/ RecoverRaises(v)
  \/ Return

Spec == Init /\ [][Next]_vars
-------------------------------------------------------------------------------
\* Trigger i can make evaluate() raise.
MayRaise(i) ==
  \/ ~Config[i].keyed
  \/ Raises(Config[i].op, Config[i].threshold)
  \/ Config[i].hold = Null
  \/ ~Config[i].wellFormatted
  \/ Raises(Config[i].op, Config[i].recovery)

\* No alert under name n is lost: none that may raise stands at or after it.
Safe(n) ==
  \A i, j \in DOMAIN Config : Config[i].name = n /\ i <= j => ~MayRaise(j)

OwnName(i) == \A j \in DOMAIN Config : Config[j].name = Config[i].name => j = i

Saw(i, t, f) == [trigger |-> i, time |-> t, found |-> f] \in seen

\* Trigger i was met at t and no call has found it unmet since.
MetSince(i, t) ==
  /\ Saw(i, t, "met")
  /\ \A f \in seen : f.trigger = i /\ f.time >= t => f.found # "unmet"

Open(count) == count["problem"] - count["recovery"]

(* Between calls, every problem a trigger raised has been followed by its   *)
(* recovery, but for the one that the engine believes open: none is raised *)
(* twice, none taken back twice, by triggers that share a name neither.    *)
(* What the server misses of this is what was in the list of a call that   *)
(* an exception ended, and of a trigger that cannot raise and has none     *)
(* after it that can, it misses nothing.                                   *)
ToldIsState ==
  at = 0 => \A n \in Names :
    /\ Open(told[n]) + Open(unsaid[n]) = IF state[n].firing THEN 1 ELSE 0
    /\ Safe(n) => unsaid[n] = NoneYet

(* The hold time is not exceeded: a trigger that this call found met, and   *)
(* that has been met for `hold` seconds with no call finding it unmet,      *)
(* fires in this call, even when another trigger raises.                   *)
FiresWhenHeld ==
  at = 0 => \A i \in DOMAIN Config :
    /\ OwnName(i) /\ Config[i].hold # Null
    /\ Saw(i, now, "met")
    /\ \E t \in 0 .. now - Config[i].hold : MetSince(i, t)
    => state[Config[i].name].firing

(* A noisy sample pages nobody: a trigger starts to fire only when it has   *)
(* been met for `hold` seconds with no call finding it unmet in between,   *)
(* and never when its hold time is no number.                              *)
FiresOnlyIfHeld ==
  [][\A i \in DOMAIN Config :
       OwnName(i) /\ ~state[Config[i].name].firing /\ state'[Config[i].name].firing
       => Config[i].hold # Null /\ \E t \in 0 .. now - Config[i].hold : MetSince(i, t)']_vars
-------------------------------------------------------------------------------
(* The invariant behind the proofs.                                         *)

\* An alert of the call in progress is of a trigger it has been at.
AlertsBehind ==
  \A n \in Names : alerts[n] # NoneYet => \E i \in DOMAIN Config : Config[i].name = n /\ i < at

\* With these alerts, what was told is up to date but for what was lost.
AlertsUpToDate ==
  \A n \in Names :
    /\ Open(told[n]) + Open(unsaid[n]) + Open(alerts[n]) = IF state[n].firing THEN 1 ELSE 0
    /\ Safe(n) => unsaid[n] = NoneYet

\* The calls so far, each of which visits a trigger once.
Visited ==
  /\ \A f \in seen : f.time <= now
  /\ at # 0 => \A f \in seen : f.time = now => f.trigger < at

\* Trigger i was met at p and never between its last unmet and p; or not at all.
FirstMet(i, p) ==
  /\ p # Null => MetSince(i, p)
  /\ \A f \in seen : f.trigger = i /\ MetSince(i, f.time) => p # Null /\ p <= f.time

\* pending_since is the first time a trigger was met since it was last unmet.
PendingIsFirstMet ==
  \A i \in DOMAIN Config : OwnName(i) => FirstMet(i, state[Config[i].name].pending_since)

\* Whatever this call met and left quiet is still short of its hold time.
ShortOfHold ==
  \A i \in DOMAIN Config : OwnName(i) /\ Config[i].hold # Null /\ Saw(i, now, "met") =>
    \/ state[Config[i].name].firing
    \/ /\ state[Config[i].name].pending_since # Null
       /\ now - state[Config[i].name].pending_since < Config[i].hold

\* What each call wrote about the triggers agrees with what the calls saw.
Inductive ==
  Visited /\ PendingIsFirstMet /\ ShortOfHold /\ AlertsBehind /\ AlertsUpToDate
===============================================================================
