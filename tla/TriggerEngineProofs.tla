------------------------- MODULE TriggerEngineProofs --------------------------
(***************************************************************************)
(* For every configuration and every sequence of calls: the engine's state *)
(* is well typed, holds a trigger for neither more nor less than its hold  *)
(* time, and accounts for every alert: those told and those an exception   *)
(* lost, which are none of a trigger that cannot raise and has none after  *)
(* it that can.                                                            *)
(*                                                                         *)
(* The inductive invariant relates self.state to the history `seen`:       *)
(* pending_since is the first time the trigger was met since it was last   *)
(* unmet.                                                                  *)
(***************************************************************************)
EXTENDS TriggerEngine, TLAPS

LEMMA ConfigTyped ==
  ASSUME NEW i \in DOMAIN Config
  PROVE  /\ Config[i] \in Trigger
         /\ Config[i].name \in Names
         /\ Config[i].hold \in Nat \cup {Null}
         /\ i \in Nat /\ i >= 1 /\ i <= Len(Config)
<1>1. Config \in Seq(Trigger)
  BY TriggerAssumption
<1>2. Config[i] \in Trigger /\ i \in 1 .. Len(Config) /\ Len(Config) \in Nat
  BY <1>1
<1> QED
  BY <1>2 DEF Trigger, Names

(* A turn of the loop that finds its trigger f, remembers what a turn may   *)
(* and either goes on or raises keeps the types.                           *)
LEMMA RememberTyped ==
  ASSUME TypeOK, Evaluating, NEW b \in BOOLEAN, NEW p \in Nat \cup {Null}, Remember(b, p)
  PROVE  state' \in [Names -> [firing : BOOLEAN, pending_since : Nat \cup {Null}]]
<1>1. T.name \in Names
  BY ConfigTyped DEF Evaluating, T
<1> QED
  BY <1>1 DEF TypeOK, Remember

LEMMA FoundTyped ==
  ASSUME TypeOK, Evaluating, NEW f \in {"met", "unmet"}, Found(f)
  PROVE  seen' \subseteq Findings
BY DEF TypeOK, Evaluating, Found, Findings

(* What the counts of alerts are made of, and how they add up.              *)
LEMMA CountsAdd ==
  ASSUME NEW c \in [Events -> Nat], NEW d \in [Events -> Nat]
  PROVE  /\ Open(c) \in Int /\ Open(NoneYet) = 0 /\ NoneYet \in [Events -> Nat]
         /\ [e \in Events |-> c[e] + d[e]] \in [Events -> Nat]
         /\ Open([e \in Events |-> c[e] + d[e]]) = Open(c) + Open(d)
         /\ \A e \in Events : [c EXCEPT ![e] = @ + 1] \in [Events -> Nat]
         /\ Open([c EXCEPT !["problem"] = @ + 1]) = Open(c) + 1
         /\ Open([c EXCEPT !["recovery"] = @ + 1]) = Open(c) - 1
         /\ \A e \in Events : [c EXCEPT ![e] = @ + 1] # NoneYet
<1>1. "problem" \in Events /\ "recovery" \in Events
  BY DEF Events
<1>2. c["problem"] \in Nat /\ c["recovery"] \in Nat /\ d["problem"] \in Nat /\ d["recovery"] \in Nat
  BY <1>1
<1>3. ASSUME NEW e \in Events PROVE [c EXCEPT ![e] = @ + 1][e] # NoneYet[e]
  BY DEF NoneYet
<1> QED
  BY <1>1, <1>2, <1>3 DEF Open, NoneYet

LEMMA WithTyped ==
  ASSUME TypeOK, Evaluating, NEW e \in Events
  PROVE  /\ With(e) \in Counts /\ alerts \in Counts
         /\ With(e)[T.name] = [alerts[T.name] EXCEPT ![e] = @ + 1]
         /\ \A n \in Names : n # T.name => With(e)[n] = alerts[n]
<1>1. T.name \in Names /\ alerts[T.name] \in [Events -> Nat]
  BY ConfigTyped DEF Evaluating, T, TypeOK, Counts
<1>2. [alerts[T.name] EXCEPT ![e] = @ + 1] \in [Events -> Nat]
  BY <1>1, CountsAdd
<1> QED
  BY <1>1, <1>2 DEF With, TypeOK, Counts

LEMMA PlusTyped ==
  ASSUME NEW a \in Counts, NEW b \in Counts
  PROVE  /\ Plus(a, b) \in Counts
         /\ \A n \in Names : Open(Plus(a, b)[n]) = Open(a[n]) + Open(b[n])
         /\ \A n \in Names : a[n] = NoneYet /\ b[n] = NoneYet => Plus(a, b)[n] = NoneYet
<1>1. ASSUME NEW n \in Names
      PROVE  /\ Plus(a, b)[n] = [e \in Events |-> a[n][e] + b[n][e]]
             /\ a[n] \in [Events -> Nat] /\ b[n] \in [Events -> Nat]
  BY DEF Plus, Counts
<1>2. ASSUME NEW n \in Names
      PROVE  /\ Plus(a, b)[n] \in [Events -> Nat]
             /\ Open(Plus(a, b)[n]) = Open(a[n]) + Open(b[n])
  <2> DEFINE c == a[n]
             d == b[n]
  <2>1. c \in [Events -> Nat] /\ d \in [Events -> Nat]
    BY <1>1
  <2>2. Plus(a, b)[n] = [e \in Events |-> c[e] + d[e]]
    BY <1>1
  <2> HIDE DEF c, d
  <2>3. /\ [e \in Events |-> c[e] + d[e]] \in [Events -> Nat]
        /\ Open([e \in Events |-> c[e] + d[e]]) = Open(c) + Open(d)
    BY <2>1, CountsAdd
  <2> QED
    BY <2>2, <2>3 DEF c, d
<1>3. ASSUME NEW n \in Names, a[n] = NoneYet, b[n] = NoneYet
      PROVE  Plus(a, b)[n] = NoneYet
  BY <1>1, <1>3 DEF NoneYet
<1> QED
  BY <1>2, <1>3 DEF Plus, Counts

LEMMA TurnTyped ==
  ASSUME TypeOK, Evaluating, Continue \/ (\E l \in Counts : Raise(l)),
         alerts' = alerts \/ alerts' = NoAlerts \/ (\E e \in Events : Alert(e))
  PROVE  /\ at' \in 0 .. Len(Config) + 1 /\ now' \in Nat
         /\ told' \in Counts /\ unsaid' \in Counts /\ alerts' \in Counts
<1>1. at \in Nat /\ at >= 1 /\ at <= Len(Config) /\ Len(Config) \in Nat
  BY ConfigTyped, TriggerAssumption DEF Evaluating, T
<1>2. at' \in 0 .. Len(Config) + 1 /\ now' \in Nat /\ told' \in Counts
  BY <1>1 DEF TypeOK, Continue, Raise
<1>3. alerts' \in Counts
  <2>1. NoneYet \in [Events -> Nat]
    BY DEF NoneYet
  <2>2. NoAlerts \in Counts
    BY <2>1 DEF NoAlerts, Counts
  <2>3. \A e \in Events : Alert(e) => alerts' \in Counts
    BY WithTyped DEF Alert
  <2> QED
    BY <2>2, <2>3 DEF TypeOK
<1>4. unsaid' \in Counts
  BY PlusTyped DEF TypeOK, Continue, Raise
<1> QED
  BY <1>2, <1>3, <1>4

LEMMA SinceTyped ==
  ASSUME TypeOK, Evaluating
  PROVE  /\ T.name \in Names /\ S.firing \in BOOLEAN
         /\ S.pending_since \in Nat \cup {Null}
         /\ Since \in Nat
<1>1. T.name \in Names
  BY ConfigTyped DEF Evaluating, T
<1>2. S \in [firing : BOOLEAN, pending_since : Nat \cup {Null}]
  BY <1>1 DEF TypeOK, S
<1> QED
  BY <1>1, <1>2 DEF Since, TypeOK

\* The state is well typed whatever the configuration and the metrics.
THEOREM Typing == Spec => []TypeOK
<1>1. Init => TypeOK
  BY TriggerAssumption DEF Init, TypeOK, NoAlerts, NoneYet, Counts
<1>2. TypeOK /\ [Next]_vars => TypeOK'
  <2> SUFFICES ASSUME TypeOK, [Next]_vars PROVE TypeOK'
    OBVIOUS
  <2> DEFINE Turned == /\ at' \in 0 .. Len(Config) + 1 /\ now' \in Nat
                       /\ told' \in Counts /\ unsaid' \in Counts /\ alerts' \in Counts
  <2>1. CASE Call
    <3>1. Len(Config) \in Nat /\ MaxStep \in Nat
      BY TriggerAssumption
    <3> QED
      BY <2>1, <3>1 DEF Call, TypeOK
  <2>2. CASE TurnRaises
    <3>1. Evaluating /\ Raise(alerts) /\ alerts \in Counts /\ alerts' = NoAlerts
      BY <2>2 DEF TurnRaises, TypeOK, Raise
    <3>2. Turned
      BY <3>1, TurnTyped
    <3> QED
      BY <2>2, <3>2 DEF TurnRaises, TypeOK
  <2>3. CASE Skip
    <3>1. Turned
      BY <2>3, TurnTyped DEF Skip
    <3> QED
      BY <2>3, <3>1 DEF Skip, TypeOK
  <2>4. ASSUME NEW v \in Values, Wait(v) \/ HoldRaises(v) \/ Fire(v) \/ FireRaises(v)
        PROVE  TypeOK'
    <3>1. Evaluating /\ Found("met")
      BY <2>4 DEF Wait, HoldRaises, Fire, FireRaises, Fires, Met, Compared
    <3>2. seen' \subseteq Findings
      BY <3>1, FoundTyped
    <3>3. PICK b \in BOOLEAN : Remember(b, Since)
      BY <2>4, <3>1, SinceTyped DEF Wait, HoldRaises, Fire, FireRaises
    <3>4. state' \in [Names -> [firing : BOOLEAN, pending_since : Nat \cup {Null}]]
      BY <3>1, <3>3, SinceTyped, RememberTyped
    <3>5. \A e \in Events : With(e) \in Counts /\ alerts \in Counts
      BY <3>1, WithTyped
    <3>6. Turned
      BY <2>4, <3>1, <3>5, TurnTyped DEF Wait, HoldRaises, Fire, FireRaises, Raise, Events
    <3> QED
      BY <3>2, <3>4, <3>6 DEF TypeOK
  <2>5. ASSUME NEW v \in Values, Rest(v) \/ Recover(v) \/ RecoverRaises(v) PROVE TypeOK'
    <3>1. Evaluating /\ Found("unmet")
      BY <2>5 DEF Rest, Recover, RecoverRaises, Unmet, Compared
    <3>2. seen' \subseteq Findings
      BY <3>1, FoundTyped
    <3>3. PICK b \in BOOLEAN : Remember(b, Null)
      BY <2>5, <3>1, SinceTyped DEF Rest, Recover, RecoverRaises
    <3>4. state' \in [Names -> [firing : BOOLEAN, pending_since : Nat \cup {Null}]]
      BY <3>1, <3>3, RememberTyped
    <3>5. \A e \in Events : With(e) \in Counts /\ alerts \in Counts
      BY <3>1, WithTyped
    <3>6. Turned
      BY <2>5, <3>1, <3>5, TurnTyped DEF Rest, Recover, RecoverRaises, Raise, Events
    <3> QED
      BY <3>2, <3>4, <3>6 DEF TypeOK
  <2>6. CASE Return
    <3>1. Len(Config) \in Nat
      BY TriggerAssumption
    <3>2. told' \in Counts
      BY <2>6, PlusTyped DEF Return, TypeOK
    <3>3. alerts' \in Counts
      BY <2>6 DEF Return, NoAlerts, NoneYet, Counts
    <3> QED
      BY <2>6, <3>1, <3>2, <3>3 DEF Return, TypeOK
  <2>7. CASE UNCHANGED vars
    BY <2>7 DEF vars, TypeOK
  <2> QED
    BY <2>1, <2>2, <2>3, <2>4, <2>5, <2>6, <2>7 DEF Next
<1> QED
  BY <1>1, <1>2, PTL DEF Spec
-------------------------------------------------------------------------------
(* What the calls saw.                                                      *)

\* A turn adds one finding, about the trigger it is at, and about no other.
LEMMA FoundAdds ==
  ASSUME NEW f, Found(f)
  PROVE  \A i, t, g : Saw(i, t, g)' <=> Saw(i, t, g) \/ (i = at /\ t = now /\ g = f)
BY DEF Found, Saw

\* The trigger of a turn has no finding yet in this call.
LEMMA NotYetSeen ==
  ASSUME TypeOK, Visited, Evaluating
  PROVE  /\ \A t, g : Saw(at, t, g) => t \in Nat /\ t <= now /\ t # now
         /\ at # 0
<1>1. at \in Nat /\ at >= 1
  BY ConfigTyped DEF Evaluating
<1>2. ASSUME NEW t, NEW g, Saw(at, t, g) PROVE t \in Nat /\ t <= now /\ t # now
  BY <1>1, <1>2 DEF Saw, Visited, TypeOK, Findings
<1> QED
  BY <1>1, <1>2

\* A turn keeps the order of the visits.
LEMMA TurnVisited ==
  ASSUME TypeOK, Visited, Evaluating, NEW f, Found(f),
         Continue \/ (\E l \in Counts : Raise(l))
  PROVE  Visited'
<1>1. at \in Nat /\ at >= 1 /\ now \in Nat
  BY ConfigTyped DEF Evaluating, TypeOK
<1>2. \A g \in seen : g.time \in Nat /\ g.trigger \in Nat
  BY ConfigTyped DEF TypeOK, Findings
<1> QED
  BY <1>1, <1>2 DEF Visited, Found, Continue, Raise

(* A turn that finds its trigger met keeps what is known of every trigger   *)
(* when it remembers Since, and fires if the hold time is over.            *)
LEMMA MetTurn ==
  ASSUME TypeOK, Visited, PendingIsFirstMet, ShortOfHold, Evaluating,
         Found("met"), NEW b \in BOOLEAN, Remember(b, Since), now' = now,
         T.hold # Null => b \/ now - Since < T.hold
  PROVE  PendingIsFirstMet' /\ ShortOfHold'
<1> USE DEF OwnName
<1>1. /\ T.name \in Names /\ S.pending_since \in Nat \cup {Null} /\ Since \in Nat
      /\ now \in Nat /\ Null \notin Nat
  BY SinceTyped, TriggerAssumption DEF TypeOK
<1>2. state'[T.name] = [firing |-> b, pending_since |-> Since]
  BY <1>1 DEF Remember, TypeOK
<1>3. \A i \in DOMAIN Config : OwnName(i) /\ i # at => state'[Config[i].name] = state[Config[i].name]
  BY <1>1, ConfigTyped DEF Remember, TypeOK, Evaluating, T
<1>4. \A g \in seen : g \in Findings /\ g = [trigger |-> g.trigger, time |-> g.time, found |-> g.found]
  BY DEF TypeOK, Findings
<1>5. seen' = seen \cup {[trigger |-> at, time |-> now, found |-> "met"]}
  BY DEF Found
<1>6. ASSUME NEW i, NEW t, MetSince(i, t)' PROVE MetSince(i, t) \/ (i = at /\ t = now)
  BY <1>6, <1>5 DEF MetSince, Saw
<1>7. ASSUME NEW i, NEW t, MetSince(i, t) PROVE MetSince(i, t)'
  BY <1>7, <1>5 DEF MetSince, Saw
<1>8. ASSUME NEW i, NEW t, i = at, t = now PROVE MetSince(i, t)'
  <2>1. Saw(i, t, "met")'
    BY <1>5, <1>8 DEF Saw
  <2>2. ASSUME NEW g \in seen, g.trigger = i, g.time >= t PROVE FALSE
    <3>1. Saw(at, g.time, g.found)
      BY <2>2, <1>4, <1>8 DEF Saw
    <3> QED
      BY <3>1, <2>2, <1>1, <1>8, NotYetSeen
  <2> QED
    BY <2>1, <2>2, <1>5 DEF MetSince
<1>9. PendingIsFirstMet'
  <2> SUFFICES ASSUME NEW i \in DOMAIN Config, OwnName(i)
               PROVE  FirstMet(i, state[Config[i].name].pending_since)'
    BY DEF PendingIsFirstMet
  <2>1. CASE i # at
    <3>1. state'[Config[i].name] = state[Config[i].name]
      BY <2>1, <1>3
    <3>2. \A f \in seen' : f.trigger = i => f \in seen
      BY <2>1, <1>5
    <3> QED
      BY <3>1, <3>2, <2>1, <1>6, <1>7 DEF PendingIsFirstMet, FirstMet
  <2>2. CASE i = at
    <3>1. Config[i].name = T.name /\ state[Config[i].name] = S
      BY <2>2 DEF T, S
    <3>2. state'[Config[i].name].pending_since = Since /\ Since # Null
      BY <3>1, <1>2, <1>1
    <3>3. CASE S.pending_since = Null
      <4>1. Since = now
        BY <3>3 DEF Since
      <4>2. ASSUME NEW f \in seen', f.trigger = i, MetSince(i, f.time)' PROVE f.time = now
        <5>1. CASE f \in seen
          <6>1. ~MetSince(i, f.time)
            BY <5>1, <4>2, <3>1, <3>3 DEF PendingIsFirstMet, FirstMet
          <6> QED
            BY <6>1, <4>2, <1>6
        <5> QED
          BY <5>1, <1>5
      <4> QED
        BY <4>1, <4>2, <3>2, <2>2, <1>8, <1>1 DEF FirstMet
    <3>4. CASE S.pending_since # Null
      <4>1. Since = S.pending_since /\ MetSince(i, Since)
        BY <3>4, <3>1 DEF Since, PendingIsFirstMet, FirstMet
      <4>2. Since <= now
        BY <4>1, <2>2, NotYetSeen DEF MetSince
      <4>3. ASSUME NEW f \in seen', f.trigger = i, MetSince(i, f.time)' PROVE Since <= f.time
        <5>1. CASE f \in seen /\ MetSince(i, f.time)
          BY <5>1, <4>3, <4>1, <3>1 DEF PendingIsFirstMet, FirstMet
        <5>2. CASE f.time = now
          BY <5>2, <4>2
        <5> QED
          BY <5>1, <5>2, <4>3, <1>5, <1>6
      <4> QED
        BY <4>1, <4>3, <3>2, <1>7 DEF FirstMet
    <3> QED
      BY <3>3, <3>4
  <2> QED
    BY <2>1, <2>2
<1>10. ShortOfHold'
  <2> SUFFICES ASSUME NEW i \in DOMAIN Config, OwnName(i), Config[i].hold # Null,
                      Saw(i, now, "met")'
               PROVE  \/ state'[Config[i].name].firing
                      \/ /\ state'[Config[i].name].pending_since # Null
                         /\ now - state'[Config[i].name].pending_since < Config[i].hold
    BY DEF ShortOfHold
  <2>1. CASE i # at
    BY <2>1, <1>3, FoundAdds DEF ShortOfHold
  <2>2. CASE i = at
    BY <2>2, <1>1, <1>2 DEF T
  <2> QED
    BY <2>1, <2>2
<1> QED
  BY <1>9, <1>10

\* A turn that finds its trigger unmet keeps it when it resets pending_since.
LEMMA UnmetTurn ==
  ASSUME TypeOK, Visited, PendingIsFirstMet, ShortOfHold, Evaluating,
         Found("unmet"), NEW b \in BOOLEAN, Remember(b, Null), now' = now
  PROVE  PendingIsFirstMet' /\ ShortOfHold'
<1> USE DEF OwnName
<1>1. T.name \in Names /\ now \in Nat
  BY SinceTyped DEF TypeOK
<1>2. state'[T.name] = [firing |-> b, pending_since |-> Null]
  BY <1>1 DEF Remember, TypeOK
<1>3. \A i \in DOMAIN Config : OwnName(i) /\ i # at => state'[Config[i].name] = state[Config[i].name]
  BY <1>1, ConfigTyped DEF Remember, TypeOK, Evaluating, T
<1>4. seen' = seen \cup {[trigger |-> at, time |-> now, found |-> "unmet"]}
  BY DEF Found
<1>5. ASSUME NEW i, NEW t, i # at PROVE MetSince(i, t)' <=> MetSince(i, t)
  BY <1>5, <1>4 DEF MetSince, Saw
<1>6. ASSUME NEW i, NEW t, i = at PROVE ~MetSince(i, t)'
  <2>1. Saw(i, t, "met")' => t \in Nat /\ t <= now
    BY NotYetSeen, <1>4, <1>6 DEF Saw
  <2> DEFINE u == [trigger |-> at, time |-> now, found |-> "unmet"]
  <2>2. u \in seen' /\ u.trigger = at /\ u.time = now /\ u.found = "unmet"
    BY <1>4
  <2> HIDE DEF u
  <2>3. t \in Nat /\ t <= now => u.time >= t
    BY <2>2, <1>1
  <2> QED
    BY <2>1, <2>2, <2>3, <1>6 DEF MetSince
<1>7. PendingIsFirstMet'
  <2> SUFFICES ASSUME NEW i \in DOMAIN Config, OwnName(i)
               PROVE  FirstMet(i, state[Config[i].name].pending_since)'
    BY DEF PendingIsFirstMet
  <2>1. CASE i # at
    BY <2>1, <1>3, <1>4, <1>5 DEF PendingIsFirstMet, FirstMet
  <2>2. CASE i = at
    BY <2>2, <1>2, <1>6 DEF T, FirstMet
  <2> QED
    BY <2>1, <2>2
<1>8. ShortOfHold'
  <2> SUFFICES ASSUME NEW i \in DOMAIN Config, OwnName(i), Config[i].hold # Null,
                      Saw(i, now, "met")'
               PROVE  \/ state'[Config[i].name].firing
                      \/ /\ state'[Config[i].name].pending_since # Null
                         /\ now - state'[Config[i].name].pending_since < Config[i].hold
    BY DEF ShortOfHold
  <2>1. i # at
    BY NotYetSeen, FoundAdds, <1>1
  <2> QED
    BY <2>1, <1>3, FoundAdds DEF ShortOfHold
<1> QED
  BY <1>7, <1>8
-------------------------------------------------------------------------------
(* Alerts.                                                                  *)

\* What a turn remembers of its trigger, and of no other, about firing.
LEMMA RememberFiring ==
  ASSUME TypeOK, Evaluating, NEW b, NEW p, Remember(b, p)
  PROVE  /\ T.name \in Names /\ S.firing \in BOOLEAN /\ S = state[T.name]
         /\ state'[T.name].firing = b
         /\ \A n \in Names : n # T.name => state'[n].firing = state[n].firing
<1>1. T.name \in Names
  BY ConfigTyped DEF Evaluating, T
<1> QED
  BY <1>1 DEF Remember, TypeOK, S

\* A turn that changes a trigger's firing alerts of it, and stays up to date.
LEMMA AlertTurn ==
  ASSUME TypeOK, AlertsBehind, AlertsUpToDate, Evaluating, Continue,
         NEW b \in BOOLEAN, NEW p, Remember(b, p),
         \/ alerts' = alerts /\ b = S.firing
         \/ Alert("problem") /\ b /\ ~S.firing
         \/ Alert("recovery") /\ ~b /\ S.firing
  PROVE  AlertsBehind' /\ AlertsUpToDate'
<1>1. T.name \in Names /\ told' = told /\ unsaid' = unsaid /\ at \in Nat /\ at' = at + 1
  BY ConfigTyped DEF Evaluating, T, Continue
<1>2. ASSUME NEW n \in Names, n # T.name PROVE alerts'[n] = alerts[n]
  BY <1>2, WithTyped DEF Alert, Events
<1>3. AlertsBehind'
  <2> SUFFICES ASSUME NEW n \in Names, alerts'[n] # NoneYet
               PROVE  \E i \in DOMAIN Config : Config[i].name = n /\ i < at'
    BY DEF AlertsBehind
  <2>1. CASE n = T.name
    BY <2>1, <1>1 DEF Evaluating, T
  <2>2. CASE n # T.name
    <3>1. PICK i \in DOMAIN Config : Config[i].name = n /\ i < at
      BY <2>2, <1>2 DEF AlertsBehind
    <3> QED
      BY <3>1, <1>1, ConfigTyped
  <2> QED
    BY <2>1, <2>2
<1>4. ASSUME NEW n \in Names
      PROVE  Open(told[n]) + Open(unsaid[n]) + Open(alerts'[n])
               = IF state'[n].firing THEN 1 ELSE 0
  <2>1. /\ Open(told[n]) \in Int /\ Open(unsaid[n]) \in Int /\ Open(alerts[n]) \in Int
        /\ alerts[n] \in [Events -> Nat]
    BY CountsAdd DEF TypeOK, Counts
  <2>2. Open(told[n]) + Open(unsaid[n]) + Open(alerts[n]) = IF state[n].firing THEN 1 ELSE 0
    BY DEF AlertsUpToDate
  <2>3. CASE n # T.name
    BY <2>2, <2>3, <1>2, RememberFiring
  <2>4. CASE n = T.name
    <3>1. state'[n].firing = b /\ S = state[n] /\ S.firing \in BOOLEAN
      BY <2>4, RememberFiring
    <3>2. CASE alerts' = alerts /\ b = S.firing
      BY <3>1, <3>2, <2>2
    <3>3. CASE Alert("problem") /\ b /\ ~S.firing
      <4>1. Open(alerts'[n]) = Open(alerts[n]) + 1
        BY <3>3, <2>1, <2>4, CountsAdd, WithTyped DEF Alert, Events
      <4> QED
        BY <4>1, <3>1, <3>3, <2>1, <2>2
    <3>4. CASE Alert("recovery") /\ ~b /\ S.firing
      <4>1. Open(alerts'[n]) = Open(alerts[n]) - 1
        BY <3>4, <2>1, <2>4, CountsAdd, WithTyped DEF Alert, Events
      <4> QED
        BY <4>1, <3>1, <3>4, <2>1, <2>2
    <3> QED
      BY <3>2, <3>3, <3>4
  <2> QED
    BY <2>3, <2>4
<1> QED
  BY <1>1, <1>3, <1>4 DEF AlertsUpToDate, Safe, MayRaise, Raises

(* An exception loses the alerts of triggers that are not safe, and         *)
(* accounts for them, one that its own trigger could not add included.     *)
LEMMA RaiseTurn ==
  ASSUME TypeOK, AlertsBehind, AlertsUpToDate, Evaluating, MayRaise(at),
         \/ /\ Raise(alerts)
            /\ \A n \in Names : state'[n].firing = state[n].firing
         \/ /\ Raise(With("problem")) /\ ~S.firing /\ state'[T.name].firing
            /\ \A n \in Names : n # T.name => state'[n].firing = state[n].firing
  PROVE  AlertsBehind' /\ AlertsUpToDate'
<1>1. /\ T.name \in Names /\ told' = told /\ at \in Nat /\ at \in DOMAIN Config
      /\ S = state[T.name] /\ told \in Counts /\ unsaid \in Counts /\ alerts \in Counts
  BY ConfigTyped DEF Evaluating, T, S, Raise, TypeOK
<1>2. \A n \in Names : alerts'[n] = NoneYet
  BY DEF Raise, NoAlerts
<1>3. ASSUME NEW n \in Names, Safe(n)
      PROVE  alerts[n] = NoneYet /\ n # T.name /\ unsaid[n] = NoneYet
  BY <1>1, <1>3, ConfigTyped DEF AlertsBehind, AlertsUpToDate, Safe, T
<1>4. PICK l \in Counts :
        /\ unsaid' = Plus(unsaid, l)
        /\ \A n \in Names : n # T.name => l[n] = alerts[n]
        /\ \/ l[T.name] = alerts[T.name] /\ state'[T.name].firing = state[T.name].firing
           \/ /\ Open(l[T.name]) = Open(alerts[T.name]) + 1
              /\ ~state[T.name].firing /\ state'[T.name].firing
  <2>1. CASE Raise(alerts) /\ \A n \in Names : state'[n].firing = state[n].firing
    BY <1>1, <2>1 DEF Raise
  <2>2. CASE Raise(With("problem")) /\ ~S.firing /\ state'[T.name].firing
    <3>1. /\ With("problem") \in Counts
          /\ With("problem")[T.name] = [alerts[T.name] EXCEPT !["problem"] = @ + 1]
          /\ \A n \in Names : n # T.name => With("problem")[n] = alerts[n]
      BY WithTyped DEF Events
    <3>2. Open(With("problem")[T.name]) = Open(alerts[T.name]) + 1
      BY <1>1, <3>1, CountsAdd DEF Counts
    <3> QED
      BY <1>1, <2>2, <3>1, <3>2 DEF Raise
  <2> QED
    BY <2>1, <2>2
<1>5. \A n \in Names : n # T.name => state'[n].firing = state[n].firing
  OBVIOUS
<1>6. ASSUME NEW n \in Names
      PROVE  Open(told[n]) + Open(unsaid'[n]) + Open(alerts'[n])
               = IF state'[n].firing THEN 1 ELSE 0
  <2>1. /\ Open(told[n]) \in Int /\ Open(unsaid[n]) \in Int /\ Open(alerts[n]) \in Int
        /\ Open(l[n]) \in Int /\ Open(NoneYet) = 0
    BY <1>1, CountsAdd DEF Counts
  <2>2. Open(unsaid'[n]) = Open(unsaid[n]) + Open(l[n])
    BY <1>1, <1>4, PlusTyped
  <2>3. Open(told[n]) + Open(unsaid[n]) + Open(alerts[n]) = IF state[n].firing THEN 1 ELSE 0
    BY DEF AlertsUpToDate
  <2>4. /\ n # T.name => l[n] = alerts[n] /\ state'[n].firing = state[n].firing
        /\ n = T.name => \/ l[n] = alerts[n] /\ state'[n].firing = state[n].firing
                         \/ /\ Open(l[n]) = Open(alerts[n]) + 1
                            /\ ~state[n].firing /\ state'[n].firing
    BY <1>4, <1>5
  <2> QED
    BY <1>2, <2>1, <2>2, <2>3, <2>4
<1>7. ASSUME NEW n \in Names, Safe(n) PROVE unsaid'[n] = NoneYet
  <2>1. l[n] = NoneYet /\ unsaid[n] = NoneYet
    BY <1>3, <1>4, <1>7
  <2> QED
    BY <1>1, <1>4, <2>1, PlusTyped
<1>8. AlertsBehind'
  BY <1>2 DEF AlertsBehind
<1> QED
  BY <1>1, <1>6, <1>7, <1>8 DEF AlertsUpToDate, Safe, MayRaise, Raises

LEMMA InductiveInit == Init => Inductive
<1> SUFFICES ASSUME Init PROVE Inductive
  OBVIOUS
<1>1. \A i \in DOMAIN Config : Config[i].name \in Names
  BY ConfigTyped
<1>2. Visited /\ ShortOfHold
  BY DEF Init, Visited, ShortOfHold, Saw
<1>3. PendingIsFirstMet
  BY <1>1 DEF Init, PendingIsFirstMet, FirstMet
<1>4. AlertsBehind /\ AlertsUpToDate
  <2>1. Open(NoneYet) = 0
    BY DEF Open, NoneYet, Events
  <2> QED
    BY <2>1 DEF Init, AlertsBehind, AlertsUpToDate, NoAlerts
<1> QED
  BY <1>2, <1>3, <1>4 DEF Inductive

LEMMA InductiveStep == TypeOK /\ Inductive /\ [Next]_vars => Inductive'
<1> SUFFICES ASSUME TypeOK, Inductive, [Next]_vars PROVE Inductive'
  OBVIOUS
<1>1. CASE Call
  <2>1. now' \in Nat /\ now \in Nat /\ now' > now /\ at' = 1
    BY <1>1, TriggerAssumption DEF Call, TypeOK
  <2>2. \A f \in seen : f \in Findings /\ f.time \in Nat /\ f.time < now'
    BY <2>1 DEF Inductive, Visited, TypeOK, Findings
  <2>3. Visited'
    BY <1>1, <2>1, <2>2 DEF Call, Visited
  <2>4. ShortOfHold'
    BY <1>1, <2>1, <2>2 DEF Call, ShortOfHold, Saw
  <2>5. PendingIsFirstMet'
    BY <1>1 DEF Call, Inductive, PendingIsFirstMet, FirstMet, MetSince, Saw
  <2>6. AlertsBehind' /\ AlertsUpToDate'
    <3>1. at = 0 /\ UNCHANGED <<state, alerts, told, unsaid>>
      BY <1>1 DEF Call
    <3>2. \A n \in Names : alerts[n] = NoneYet
      BY <3>1, ConfigTyped DEF Inductive, AlertsBehind
    <3> QED
      BY <3>1, <3>2 DEF Inductive, AlertsBehind, AlertsUpToDate, Safe, MayRaise, Raises
  <2> QED
    BY <2>3, <2>4, <2>5, <2>6 DEF Inductive
<1>2. CASE Skip
  <2>1. /\ Evaluating /\ at \in Nat /\ at' = at + 1
        /\ UNCHANGED <<state, alerts, seen, now, told, unsaid>>
    BY <1>2, ConfigTyped DEF Skip, Continue, Evaluating
  <2>2. Visited'
    <3>1. \A f \in seen : f.trigger \in Nat
      BY ConfigTyped DEF TypeOK, Findings
    <3>2. at # 0
      BY <2>1, ConfigTyped DEF Evaluating
    <3> QED
      BY <2>1, <3>1, <3>2 DEF Inductive, Visited
  <2>3. PendingIsFirstMet' /\ ShortOfHold'
    BY <2>1 DEF Inductive, PendingIsFirstMet, FirstMet, MetSince, Saw, OwnName, ShortOfHold
  <2>4. AlertsBehind'
    BY <2>1, ConfigTyped DEF Inductive, AlertsBehind
  <2>5. AlertsUpToDate'
    BY <2>1 DEF Inductive, AlertsUpToDate, Safe, MayRaise, Raises
  <2> QED
    BY <2>2, <2>3, <2>4, <2>5 DEF Inductive
<1>3. CASE TurnRaises
  <2>1. /\ Evaluating /\ MayRaise(at) /\ Raise(alerts) /\ at' = 0
        /\ UNCHANGED <<state, seen, now>>
    BY <1>3 DEF TurnRaises, MayRaise, T, Raise
  <2>2. Visited' /\ PendingIsFirstMet' /\ ShortOfHold'
    BY <2>1 DEF Inductive, Visited, PendingIsFirstMet, FirstMet, MetSince, Saw, OwnName, ShortOfHold
  <2>3. AlertsBehind' /\ AlertsUpToDate'
    BY <2>1, RaiseTurn DEF Inductive
  <2> QED
    BY <2>2, <2>3 DEF Inductive
<1>4. ASSUME NEW v \in Values, Wait(v) \/ HoldRaises(v) \/ Fire(v) \/ FireRaises(v)
      PROVE  Inductive'
  <2>1. /\ Evaluating /\ Found("met") /\ now' = now
        /\ Continue \/ Raise(alerts) \/ Raise(With("problem"))
    BY <1>4 DEF Wait, HoldRaises, Fire, FireRaises, Fires, Met, Compared, Continue, Raise
  <2>2. Visited'
    BY <2>1, TurnVisited, WithTyped DEF Inductive, Events
  <2>3. S.firing \in BOOLEAN /\ Since \in Nat /\ now \in Nat /\ T.hold \in Nat \cup {Null}
    BY <2>1, SinceTyped, ConfigTyped DEF TypeOK, Evaluating, T
  <2>4. PICK b \in BOOLEAN :
          /\ Remember(b, Since)
          /\ T.hold # Null => b \/ now - Since < T.hold
          /\ \/ Wait(v) /\ b = S.firing
             \/ HoldRaises(v) /\ b = S.firing
             \/ Fire(v) /\ b
             \/ FireRaises(v) /\ b
    <3>1. CASE Wait(v)
      BY <3>1, <2>3 DEF Wait, Due
    <3>2. CASE Fire(v)
      BY <3>2 DEF Fire
    <3>3. CASE FireRaises(v)
      BY <3>3 DEF FireRaises
    <3>4. CASE HoldRaises(v)
      BY <3>4, <2>3 DEF HoldRaises
    <3> QED
      BY <1>4, <3>1, <3>2, <3>3, <3>4
  <2>5. PendingIsFirstMet' /\ ShortOfHold'
    BY <2>1, <2>4, MetTurn DEF Inductive
  <2>6. /\ T.name \in Names /\ S = state[T.name] /\ state'[T.name].firing = b
        /\ \A n \in Names : n # T.name => state'[n].firing = state[n].firing
    BY <2>1, <2>4, RememberFiring
  <2>7. AlertsBehind' /\ AlertsUpToDate'
    <3>1. CASE FireRaises(v) /\ b
      <4>1. Raise(With("problem")) /\ MayRaise(at) /\ ~S.firing
        BY <3>1 DEF FireRaises, Fires, MayRaise, T
      <4> QED
        BY <2>1, <2>6, <3>1, <4>1, RaiseTurn DEF Inductive
    <3>2. CASE HoldRaises(v) /\ b = S.firing
      <4>1. Raise(alerts) /\ MayRaise(at)
        BY <3>2 DEF HoldRaises, MayRaise, T
      <4> QED
        BY <2>1, <2>6, <3>2, <4>1, RaiseTurn DEF Inductive
    <3>3. CASE Wait(v) /\ b = S.firing
      BY <2>1, <2>4, <3>3, AlertTurn DEF Inductive, Wait
    <3>4. CASE Fire(v) /\ b
      BY <2>1, <2>4, <3>4, AlertTurn DEF Inductive, Fire, Fires
    <3> QED
      BY <2>4, <3>1, <3>2, <3>3, <3>4
  <2> QED
    BY <2>2, <2>5, <2>7 DEF Inductive
<1>5. ASSUME NEW v \in Values, Rest(v) \/ Recover(v) \/ RecoverRaises(v) PROVE Inductive'
  <2>1. Evaluating /\ Found("unmet") /\ now' = now /\ (Continue \/ Raise(alerts))
    BY <1>5 DEF Rest, Recover, RecoverRaises, Unmet, Compared, Continue, Raise
  <2>2. Visited'
    BY <2>1, TurnVisited DEF Inductive, TypeOK
  <2>3. S.firing \in BOOLEAN
    BY <2>1, SinceTyped
  <2>4. PICK b \in BOOLEAN :
          /\ Remember(b, Null)
          /\ \/ Rest(v) /\ b = S.firing
             \/ Recover(v) /\ ~b /\ S.firing
             \/ RecoverRaises(v) /\ b = S.firing
    BY <1>5, <2>3 DEF Rest, Recover, RecoverRaises
  <2>5. PendingIsFirstMet' /\ ShortOfHold'
    BY <2>1, <2>4, UnmetTurn DEF Inductive
  <2>6. /\ T.name \in Names /\ S = state[T.name] /\ state'[T.name].firing = b
        /\ \A n \in Names : n # T.name => state'[n].firing = state[n].firing
    BY <2>1, <2>4, RememberFiring
  <2>7. AlertsBehind' /\ AlertsUpToDate'
    <3>1. CASE RecoverRaises(v) /\ b = S.firing
      <4>1. Raise(alerts) /\ MayRaise(at)
        BY <3>1 DEF RecoverRaises, MayRaise, T
      <4> QED
        BY <2>1, <2>6, <3>1, <4>1, RaiseTurn DEF Inductive
    <3>2. CASE Rest(v) /\ b = S.firing
      BY <2>1, <2>4, <3>2, AlertTurn DEF Inductive, Rest
    <3>3. CASE Recover(v) /\ ~b /\ S.firing
      BY <2>1, <2>4, <3>3, AlertTurn DEF Inductive, Recover
    <3> QED
      BY <2>4, <3>1, <3>2, <3>3
  <2> QED
    BY <2>2, <2>5, <2>7 DEF Inductive
<1>6. CASE Return
  <2>1. PendingIsFirstMet' /\ ShortOfHold'
    BY <1>6 DEF Return, Inductive, PendingIsFirstMet, ShortOfHold, FirstMet, MetSince, Saw, OwnName
  <2>2. Visited'
    BY <1>6 DEF Return, Inductive, Visited
  <2>3. AlertsBehind'
    BY <1>6 DEF Return, AlertsBehind, NoAlerts
  <2>4. ASSUME NEW n \in Names
        PROVE  Open(told'[n]) + Open(unsaid'[n]) + Open(alerts'[n])
                 = IF state'[n].firing THEN 1 ELSE 0
    <3>1. /\ told' = Plus(told, alerts) /\ unsaid' = unsaid /\ state' = state
          /\ alerts'[n] = NoneYet
      BY <1>6 DEF Return, NoAlerts
    <3>2. /\ Open(told[n]) \in Int /\ Open(unsaid[n]) \in Int /\ Open(alerts[n]) \in Int
          /\ Open(NoneYet) = 0
      BY CountsAdd DEF TypeOK, Counts
    <3>3. Open(told'[n]) = Open(told[n]) + Open(alerts[n])
      BY <3>1, PlusTyped DEF TypeOK
    <3>4. Open(told[n]) + Open(unsaid[n]) + Open(alerts[n]) = IF state[n].firing THEN 1 ELSE 0
      BY DEF Inductive, AlertsUpToDate
    <3> QED
      BY <3>1, <3>2, <3>3, <3>4
  <2>5. AlertsUpToDate'
    BY <1>6, <2>4 DEF Return, Inductive, AlertsUpToDate, Safe, MayRaise, Raises
  <2> QED
    BY <2>1, <2>2, <2>3, <2>5 DEF Inductive
<1>7. CASE UNCHANGED vars
  BY <1>7 DEF vars, Inductive, Visited, PendingIsFirstMet, ShortOfHold, AlertsBehind,
              AlertsUpToDate, FirstMet, MetSince, Saw, OwnName, Safe, MayRaise, Raises
<1> QED
  BY <1>1, <1>2, <1>3, <1>4, <1>5, <1>6, <1>7 DEF Next

\* The invariant holds for every configuration.
THEOREM Soundness == Spec => []Inductive
<1> QED
  BY InductiveInit, InductiveStep, Typing, PTL DEF Spec

(* A trigger met for its hold time fires in the call that finds it so,      *)
(* whatever other triggers do, an exception included.                      *)
THEOREM NeverLate == Spec => []FiresWhenHeld
<1>1. TypeOK /\ Inductive => FiresWhenHeld
  <2> SUFFICES ASSUME TypeOK, Inductive, NEW i \in DOMAIN Config, OwnName(i),
                      Config[i].hold # Null, Saw(i, now, "met"),
                      ~state[Config[i].name].firing,
                      NEW t \in 0 .. now - Config[i].hold, MetSince(i, t)
               PROVE  FALSE
    BY DEF FiresWhenHeld
  <2>1. /\ state[Config[i].name].pending_since \in Nat \cup {Null}
        /\ Config[i].hold \in Nat /\ now \in Nat
    BY ConfigTyped DEF TypeOK
  <2>2. state[Config[i].name].pending_since <= t /\ state[Config[i].name].pending_since # Null
    BY DEF Inductive, PendingIsFirstMet, FirstMet, MetSince, Saw
  <2>3. now - state[Config[i].name].pending_since < Config[i].hold
    BY DEF Inductive, ShortOfHold
  <2> QED
    BY <2>1, <2>2, <2>3
<1> QED
  BY <1>1, Soundness, Typing, PTL

(* Every problem told is followed by one recovery, every recovery by one    *)
(* problem, but for the alerts that exceptions lost; and no exception loses *)
(* those of a trigger that cannot raise and has none after it that can.    *)
THEOREM Told == Spec => []ToldIsState
<1>1. TypeOK /\ Inductive => ToldIsState
  <2> SUFFICES ASSUME TypeOK, Inductive, at = 0, NEW n \in Names
               PROVE  /\ Open(told[n]) + Open(unsaid[n]) = IF state[n].firing THEN 1 ELSE 0
                      /\ Safe(n) => unsaid[n] = NoneYet
    BY DEF ToldIsState
  <2>1. alerts[n] = NoneYet
    BY ConfigTyped DEF Inductive, AlertsBehind
  <2>2. Open(told[n]) \in Int /\ Open(unsaid[n]) \in Int /\ Open(NoneYet) = 0
    BY CountsAdd DEF TypeOK, Counts
  <2> QED
    BY <2>1, <2>2 DEF Inductive, AlertsUpToDate
<1> QED
  BY <1>1, Soundness, Typing, PTL

(* A trigger starts to fire only after it was met for its hold time.        *)
THEOREM NeverEarly == Spec => FiresOnlyIfHeld
<1> DEFINE Held ==
      \A i \in DOMAIN Config :
        OwnName(i) /\ ~state[Config[i].name].firing /\ state'[Config[i].name].firing
        => Config[i].hold # Null /\ \E t \in 0 .. now - Config[i].hold : MetSince(i, t)'
<1>1. TypeOK /\ Inductive /\ Inductive' /\ [Next]_vars => [Held]_vars
  <2> SUFFICES ASSUME TypeOK, Inductive, Inductive', Next,
                      NEW i \in DOMAIN Config, OwnName(i),
                      ~state[Config[i].name].firing, state'[Config[i].name].firing
               PROVE  Config[i].hold # Null /\ \E t \in 0 .. now - Config[i].hold : MetSince(i, t)'
    OBVIOUS
  <2>1. PICK v \in Values : Fire(v) \/ FireRaises(v)
    <3>1. ~(\E v \in Values : Wait(v) \/ HoldRaises(v) \/ Rest(v) \/ Recover(v) \/ RecoverRaises(v))
      <4> SUFFICES ASSUME NEW v \in Values,
                          Wait(v) \/ HoldRaises(v) \/ Rest(v) \/ Recover(v) \/ RecoverRaises(v)
                   PROVE  FALSE
        OBVIOUS
      <4>1. Evaluating
        BY DEF Wait, HoldRaises, Met, Rest, Recover, RecoverRaises, Unmet, Compared
      <4>2. PICK b, p : Remember(b, p) /\ (b = S.firing \/ b = FALSE \/ (b = TRUE /\ S.firing))
        BY DEF Wait, HoldRaises, Rest, Recover, RecoverRaises
      <4>3. T.name \in Names /\ Config[i].name \in Names
        BY <4>1, ConfigTyped DEF Evaluating, T
      <4> QED
        BY <4>2, <4>3 DEF Remember, TypeOK, S
    <3>2. ~(Call \/ TurnRaises \/ Skip \/ Return)
      BY DEF Call, TurnRaises, Skip, Return
    <3> QED
      BY <3>1, <3>2 DEF Next
  <2>2. Evaluating /\ T.hold # Null /\ Due /\ Remember(TRUE, Since)
    BY <2>1 DEF Fire, FireRaises, Fires, Met, Compared
  <2>3. /\ T.name \in Names /\ Since \in Nat /\ now \in Nat /\ T.hold \in Nat
        /\ Config[i].name \in Names
    BY <2>2, SinceTyped, ConfigTyped DEF TypeOK, Evaluating, T
  <2>4. Config[i].name = T.name /\ i = at
    BY <2>2, <2>3 DEF Remember, TypeOK, OwnName, Evaluating, T
  <2>5. state'[Config[i].name].pending_since = Since /\ Since # Null
    BY <2>2, <2>3, <2>4, TriggerAssumption DEF Remember, TypeOK
  <2>6. MetSince(i, state[Config[i].name].pending_since)'
    BY <2>5 DEF Inductive, PendingIsFirstMet, FirstMet, OwnName
  <2>7. Since \in 0 .. now - Config[i].hold
    BY <2>2, <2>3, <2>4 DEF Due, T
  <2> QED
    BY <2>2, <2>4, <2>5, <2>6, <2>7 DEF MetSince, Saw, T
<1>2. Spec => [][Held]_vars
  BY <1>1, Typing, Soundness, PTL DEF Spec
<1> QED
  BY <1>2 DEF FiresOnlyIfHeld

(* The warning of _validate_triggers() is exact for orderings.  A recovery  *)
(* threshold that loosens the other recovers no trigger at a value at which *)
(* it fires; one that does not leaves a firing trigger no value to rest at, *)
(* as if there were but one threshold.                                     *)
THEOREM RecoveryCheckExact ==
  ASSUME NEW op \in Ordering, NEW threshold \in Int, NEW recovery \in Int
  PROVE  /\ Loosens(op, threshold, recovery) <=>
              \A v \in Int : Compare(op, v, threshold) => Compare(op, v, recovery)
         /\ ~Loosens(op, threshold, recovery) =>
              \A v \in Int : ~Compare(op, v, threshold) => ~Compare(op, v, recovery)
<1>1. CASE op = ">"
  <2>1. threshold + 1 \in Int /\ Compare(op, threshold + 1, threshold)
    BY <1>1 DEF Compare
  <2>2. (\A v \in Int : Compare(op, v, threshold) => Compare(op, v, recovery))
          => threshold + 1 > recovery
    BY <2>1, <1>1 DEF Compare
  <2> QED
    BY <1>1, <2>2 DEF Loosens, Compare
<1>2. CASE op = ">="
  <2>1. Compare(op, threshold, threshold)
    BY <1>2 DEF Compare
  <2> QED
    BY <1>2, <2>1 DEF Loosens, Compare
<1>3. CASE op = "<"
  <2>1. threshold - 1 \in Int /\ Compare(op, threshold - 1, threshold)
    BY <1>3 DEF Compare
  <2>2. (\A v \in Int : Compare(op, v, threshold) => Compare(op, v, recovery))
          => threshold - 1 < recovery
    BY <2>1, <1>3 DEF Compare
  <2> QED
    BY <1>3, <2>2 DEF Loosens, Compare
<1>4. CASE op = "<="
  <2>1. Compare(op, threshold, threshold)
    BY <1>4 DEF Compare
  <2> QED
    BY <1>4, <2>1 DEF Loosens, Compare
<1> QED
  BY <1>1, <1>2, <1>3, <1>4 DEF Ordering
===============================================================================
