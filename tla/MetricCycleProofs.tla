-------------------------- MODULE MetricCycleProofs ---------------------------
(***************************************************************************)
(* The plugins of PluginLoader in the cycles of MetricCycle: when run_all() *)
(* returns, each has had its turn, and none runs before its interval is    *)
(* over.  The rest of a cycle may raise wherever it likes: it does nothing *)
(* to the plugins but let time go by.                                      *)
(*                                                                         *)
(* And the rates of a cycle account for every byte: for any number of      *)
(* disks and interfaces that come and go, and whatever raises.             *)
(***************************************************************************)
EXTENDS MetricCycle, FiniteSetTheorems, WellFoundedInduction, TLAPS

(* Of sets of subsets of a finite set one is smallest: induction on finite  *)
(* sets, for properties that are written out.                              *)
LEMMA Smallest ==
  ASSUME NEW S, IsFiniteSet(S), NEW F, \A X \in F : X \subseteq S, F # {}
  PROVE  \E X \in F : \A Y \in F : ~(Y \subseteq X /\ Y # X)
<1>1. FiniteSubsetsOf(S) = SUBSET S
  BY FS_FiniteSubsetsOfFinite
<1>2. IsWellFoundedOn(StrictSubsetOrdering(S), SUBSET S)
  BY <1>1, FS_StrictSubsetOrderingWellFounded
<1>3. F \subseteq SUBSET S
  OBVIOUS
<1>4. \E X \in F : \A Y \in F : ~ (<<Y, X>> \in StrictSubsetOrdering(S))
  BY <1>2, <1>3, WFMin
<1> QED
  BY <1>3, <1>4 DEF StrictSubsetOrdering

(* A finite set of numbers has a greatest one.                              *)
LEMMA HasMax ==
  ASSUME NEW S \in SUBSET Nat, IsFiniteSet(S), S # {}
  PROVE  \E m \in S : \A k \in S : k <= m
<1> DEFINE Topped(X) == \E m \in X : \A k \in X : k <= m
<1> DEFINE F == { X \in SUBSET S : X # {} /\ ~Topped(X) }
<1>1. F = {} => Topped(S)
  OBVIOUS
<1>2. SUFFICES ASSUME F # {} PROVE FALSE
  BY <1>1
<1>3. \A X \in F : X \in SUBSET S /\ X # {} /\ ~Topped(X)
  OBVIOUS
<1>4. \A X \in SUBSET S : X # {} /\ ~Topped(X) => X \in F
  OBVIOUS
<1> HIDE DEF F
<1>5. PICK X \in F : \A Y \in F : ~(Y \subseteq X /\ Y # X)
  <2>1. (\A X \in F : X \subseteq S) /\ F # {} /\ IsFiniteSet(S)
    BY <1>2, <1>3
  <2> QED
    BY ONLY <2>1, Smallest
<1>6. PICK x \in X : TRUE
  BY <1>3
<1>7. CASE X = {x}
  <2>1. x \in Nat /\ \A k \in X : k = x
    BY <1>3, <1>6, <1>7
  <2>2. Topped(X)
    BY <1>6, <2>1
  <2> QED
    BY <1>5, <1>3, <2>2
<1>8. CASE X # {x}
  <2>1. X \ {x} # {} /\ X \ {x} \in SUBSET S /\ X \ {x} \subseteq X /\ X \ {x} # X
    BY <1>3, <1>6, <1>8
  <2>2. PICK m \in X \ {x} : \A k \in X \ {x} : k <= m
    BY <1>4, <1>5, <2>1
  <2>3. m \in Nat /\ x \in Nat /\ \A k \in X : k \in Nat
    BY <1>3, <1>6, <2>2
  <2>4. \A k \in X : k = x \/ k <= m
    BY <2>2
  <2>5. Topped(X)
    <3>1. CASE x <= m
      BY <2>2, <2>4, <3>1
    <3>2. CASE m <= x
      BY <1>6, <2>3, <2>4, <3>2
    <3> QED
      BY <2>3, <3>1, <3>2
  <2> QED
    BY <1>3, <2>5
<1> QED
  BY <1>7, <1>8

-------------------------------------------------------------------------------
(* What the counters f of a set of interfaces add up to, as the fold of     *)
(* Functions.tla computes it: one interface after the other, in an order   *)
(* of its own choice.                                                      *)
Sum(f, S) == FoldFunctionOnSet(+, 0, f, S)

Pick(S) == CHOOSE x \in S : TRUE

\* g is the fold's recursive function on the subsets of S.
Iterates(g, f, S) ==
  g = [X \in SUBSET S |-> IF X = {} THEN 0 ELSE f[Pick(X)] + g[X \ {Pick(X)}]]

\* The fold is a function's value at the whole set.
LEMMA SumIterates ==
  ASSUME NEW f, NEW S
  PROVE  Sum(f, S) = (CHOOSE g : Iterates(g, f, S))[S]
<1> QED
  BY DEF Sum, FoldFunctionOnSet, MapThenFoldSet, Iterates, Pick

(* Two such functions agree where both are defined.                         *)
LEMMA IteratesAgree ==
  ASSUME NEW f, NEW S, NEW T, IsFiniteSet(T), T \subseteq S,
         NEW g, Iterates(g, f, S), NEW h, Iterates(h, f, T)
  PROVE  \A X \in SUBSET T : g[X] = h[X]
<1> DEFINE F == { X \in SUBSET T : g[X] # h[X] }
<1>1. SUFFICES ASSUME F # {} PROVE FALSE
  OBVIOUS
<1>2. \A X \in F : X \subseteq T /\ g[X] # h[X]
  OBVIOUS
<1>3. \A X \in SUBSET T : g[X] # h[X] => X \in F
  OBVIOUS
<1> HIDE DEF F
<1>4. PICK X \in F : \A Y \in F : ~(Y \subseteq X /\ Y # X)
  BY <1>1, <1>2, Smallest
<1>5. X \in SUBSET T /\ X \in SUBSET S /\ g[X] # h[X]
  BY <1>2, <1>4
<1>6. X # {}
  BY <1>5 DEF Iterates
<1>7. Pick(X) \in X
  BY <1>6 DEF Pick
<1>8. X \ {Pick(X)} \subseteq X /\ X \ {Pick(X)} # X
  BY <1>7
<1>9. g[X \ {Pick(X)}] = h[X \ {Pick(X)}]
  BY <1>3, <1>4, <1>5, <1>8
<1>10. /\ g[X] = f[Pick(X)] + g[X \ {Pick(X)}]
       /\ h[X] = f[Pick(X)] + h[X \ {Pick(X)}]
  BY <1>5, <1>6 DEF Iterates
<1> QED
  BY <1>5, <1>9, <1>10

(* A finite set has such a function.                                        *)
LEMMA IteratesExists ==
  ASSUME NEW f, NEW S, IsFiniteSet(S)
  PROVE  \E g : Iterates(g, f, S)
<1> DEFINE G(X) == CHOOSE g : Iterates(g, f, X)
<1> DEFINE F == { X \in SUBSET S : ~ \E g : Iterates(g, f, X) }
<1>1. SUFFICES ASSUME F # {} PROVE FALSE
  OBVIOUS
<1>2. \A X \in F : X \subseteq S /\ ~ \E g : Iterates(g, f, X)
  OBVIOUS
<1>3. \A X \in SUBSET S : X \notin F => \E g : Iterates(g, f, X)
  OBVIOUS
<1> HIDE DEF F
<1>4. PICK T \in F : \A Y \in F : ~(Y \subseteq T /\ Y # T)
  BY <1>1, <1>2, Smallest
<1>5. T \subseteq S /\ ~ \E g : Iterates(g, f, T)
  BY <1>2, <1>4
<1>6. ASSUME NEW R \in SUBSET T, R # T
      PROVE  Iterates(G(R), f, R) /\ IsFiniteSet(R)
  <2>1. \E g : Iterates(g, f, R)
    BY <1>3, <1>4, <1>5, <1>6
  <2> QED
    BY <1>5, <2>1, FS_Subset
<1> HIDE DEF G
<1> DEFINE h == [X \in SUBSET T |->
                   IF X = {} THEN 0 ELSE f[Pick(X)] + G(X \ {Pick(X)})[X \ {Pick(X)}]]
<1>7. ASSUME NEW R \in SUBSET T, R # T
      PROVE  h[R] = G(R)[R]
  <2>1. CASE R = {}
    <3>1. G(R)[R] = 0
      BY <1>6, <1>7, <2>1 DEF Iterates
    <3> QED
      BY <2>1, <3>1
  <2>2. CASE R # {}
    <3> DEFINE Q == R \ {Pick(R)}
    <3>1. Pick(R) \in R
      BY <2>2 DEF Pick
    <3>2. Q \in SUBSET T /\ Q # T /\ Q \subseteq R
      BY <1>7, <3>1
    <3>3. Iterates(G(R), f, R) /\ Iterates(G(Q), f, Q) /\ IsFiniteSet(Q)
      BY <1>6, <1>7, <3>2
    <3>4. h[R] = f[Pick(R)] + G(Q)[Q]
      BY <2>2
    <3>5. G(R)[R] = f[Pick(R)] + G(R)[Q]
      BY <2>2, <3>3 DEF Iterates
    <3> HIDE DEF Q
    <3>6. G(R)[Q] = G(Q)[Q]
      BY <3>2, <3>3, IteratesAgree
    <3> QED
      BY <3>4, <3>5, <3>6
  <2> QED
    BY <2>1, <2>2
<1>8. ASSUME NEW X \in SUBSET T
      PROVE  h[X] = IF X = {} THEN 0 ELSE f[Pick(X)] + h[X \ {Pick(X)}]
  <2>1. CASE X = {}
    BY <2>1
  <2>2. CASE X # {}
    <3>1. Pick(X) \in X
      BY <2>2 DEF Pick
    <3>2. X \ {Pick(X)} \in SUBSET T /\ X \ {Pick(X)} # T
      BY <3>1
    <3>3. h[X \ {Pick(X)}] = G(X \ {Pick(X)})[X \ {Pick(X)}]
      BY <1>7, <3>2
    <3>4. h[X] = f[Pick(X)] + G(X \ {Pick(X)})[X \ {Pick(X)}]
      BY <2>2
    <3> QED
      BY <2>2, <3>3, <3>4
  <2> QED
    BY <2>1, <2>2
<1>9. h = [X \in SUBSET T |-> h[X]]
  OBVIOUS
<1> HIDE DEF h
<1>10. h = [X \in SUBSET T |-> IF X = {} THEN 0 ELSE f[Pick(X)] + h[X \ {Pick(X)}]]
  BY <1>8, <1>9
<1> QED
  BY <1>5, <1>10 DEF Iterates

\* The fold takes one interface, and then the others.
LEMMA SumSteps ==
  ASSUME NEW f, NEW S, IsFiniteSet(S)
  PROVE  Sum(f, S) = IF S = {} THEN 0 ELSE f[Pick(S)] + Sum(f, S \ {Pick(S)})
<1> DEFINE R == S \ {Pick(S)}
<1> DEFINE G(X) == CHOOSE g : Iterates(g, f, X)
<1>1. IsFiniteSet(R) /\ R \subseteq S
  BY FS_Subset
<1> HIDE DEF R
<1>2. Iterates(G(S), f, S) /\ Iterates(G(R), f, R)
  BY <1>1, IteratesExists
<1>3. Sum(f, S) = G(S)[S] /\ Sum(f, R) = G(R)[R]
  BY SumIterates
<1> HIDE DEF G
<1>4. G(S)[R] = G(R)[R]
  BY <1>1, <1>2, IteratesAgree
<1>5. G(S)[S] = IF S = {} THEN 0 ELSE f[Pick(S)] + G(S)[R]
  BY <1>2 DEF Iterates, R
<1> QED
  BY <1>3, <1>4, <1>5 DEF R

\* Numbers add up to a number.
LEMMA SumNat ==
  ASSUME NEW f, NEW S, IsFiniteSet(S), \A x \in S : f[x] \in Nat
  PROVE  Sum(f, S) \in Nat
<1> DEFINE F == { X \in SUBSET S : Sum(f, X) \notin Nat }
<1>1. SUFFICES ASSUME F # {} PROVE FALSE
  OBVIOUS
<1>2. \A X \in F : X \subseteq S /\ Sum(f, X) \notin Nat
  OBVIOUS
<1>3. \A X \in SUBSET S : X \notin F => Sum(f, X) \in Nat
  OBVIOUS
<1> HIDE DEF F
<1>4. PICK X \in F : \A Y \in F : ~(Y \subseteq X /\ Y # X)
  BY <1>1, <1>2, Smallest
<1>5. X \subseteq S /\ IsFiniteSet(X) /\ Sum(f, X) \notin Nat
  BY <1>2, <1>4, FS_Subset
<1>6. Sum(f, X) = IF X = {} THEN 0 ELSE f[Pick(X)] + Sum(f, X \ {Pick(X)})
  BY <1>5, SumSteps
<1>7. X # {}
  BY <1>5, <1>6
<1>8. Pick(X) \in X
  BY <1>7 DEF Pick
<1>9. Sum(f, X \ {Pick(X)}) \in Nat
  BY <1>3, <1>4, <1>5, <1>8
<1>10. f[Pick(X)] \in Nat
  BY <1>5, <1>8
<1>11. \A a, b \in Nat : a + b \in Nat
  OBVIOUS
<1> QED
  BY <1>5, <1>6, <1>7, <1>9, <1>10, <1>11

(* The order does not matter: any interface may be counted first.           *)
LEMMA SumAnyFirst ==
  ASSUME NEW f, NEW S, IsFiniteSet(S), \A x \in S : f[x] \in Nat, NEW x \in S
  PROVE  Sum(f, S) = f[x] + Sum(f, S \ {x})
<1> DEFINE Any(X) == \A y \in X : Sum(f, X) = f[y] + Sum(f, X \ {y})
<1> DEFINE F == { X \in SUBSET S : ~Any(X) }
<1>1. F = {} => Any(S)
  OBVIOUS
<1>2. SUFFICES ASSUME F # {} PROVE FALSE
  BY <1>1
<1>3. \A X \in F : X \subseteq S /\ ~Any(X)
  OBVIOUS
<1>4. \A X \in SUBSET S : X \notin F => Any(X)
  OBVIOUS
<1> HIDE DEF F
<1>5. PICK X \in F : \A Y \in F : ~(Y \subseteq X /\ Y # X)
  BY <1>2, <1>3, Smallest
<1>6. X \subseteq S /\ IsFiniteSet(X)
  BY <1>3, <1>5, FS_Subset
<1>7. PICK y \in X : Sum(f, X) # f[y] + Sum(f, X \ {y})
  BY <1>3, <1>5
<1> DEFINE p == Pick(X)
<1>8. p \in X
  BY <1>7 DEF Pick
<1>9. Sum(f, X) = f[p] + Sum(f, X \ {p})
  BY <1>6, <1>7, SumSteps
<1> HIDE DEF p
<1>10. p # y
  BY <1>7, <1>9
<1>11. \A z \in X : X \ {z} \in SUBSET S /\ X \ {z} \subseteq X /\ X \ {z} # X
  BY <1>6
<1>12. \A z \in X : Any(X \ {z})
  BY <1>4, <1>5, <1>11
<1>13. Sum(f, X \ {p}) = f[y] + Sum(f, (X \ {p}) \ {y})
  BY <1>7, <1>8, <1>10, <1>12
<1>14. Sum(f, X \ {y}) = f[p] + Sum(f, (X \ {y}) \ {p})
  BY <1>7, <1>8, <1>10, <1>12
<1>15. (X \ {p}) \ {y} = (X \ {y}) \ {p}
  OBVIOUS
<1>16. Sum(f, (X \ {y}) \ {p}) \in Nat
  <2>1. IsFiniteSet((X \ {y}) \ {p}) /\ (X \ {y}) \ {p} \subseteq S
    BY <1>6, FS_Subset
  <2> QED
    BY <2>1, SumNat
<1>17. f[p] \in Nat /\ f[y] \in Nat
  BY <1>6, <1>7, <1>8
<1>18. \A a, b, c \in Nat : a + (b + c) = b + (a + c)
  OBVIOUS
<1> QED
  BY <1>7, <1>9, <1>13, <1>14, <1>15, <1>16, <1>17, <1>18

(* Counters that grow, and interfaces that come, add up to no less.         *)
LEMMA SumGrows ==
  ASSUME NEW S, NEW T, IsFiniteSet(T), S \subseteq T,
         NEW f, NEW g, \A x \in S : f[x] \in Nat /\ f[x] <= g[x], \A x \in T : g[x] \in Nat
  PROVE  Sum(f, S) <= Sum(g, T)
<1> DEFINE F == { X \in SUBSET T : ~(Sum(f, S \cap X) <= Sum(g, X)) }
<1>1. F = {} => Sum(f, S) <= Sum(g, T)
  <2>1. S \cap T = S
    OBVIOUS
  <2> QED
    BY <2>1
<1>2. SUFFICES ASSUME F # {} PROVE FALSE
  BY <1>1
<1>3. \A X \in F : X \subseteq T /\ ~(Sum(f, S \cap X) <= Sum(g, X))
  OBVIOUS
<1>4. \A X \in SUBSET T : X \notin F => Sum(f, S \cap X) <= Sum(g, X)
  OBVIOUS
<1> HIDE DEF F
<1>5. PICK X \in F : \A Y \in F : ~(Y \subseteq X /\ Y # X)
  <2>1. (\A X \in F : X \subseteq T) /\ F # {} /\ IsFiniteSet(T)
    BY <1>2, <1>3
  <2> QED
    BY ONLY <2>1, Smallest
<1>6. X \subseteq T /\ IsFiniteSet(X) /\ IsFiniteSet(S \cap X)
  BY <1>3, <1>5, FS_Subset
<1>7. CASE X = {}
  <2>1. S \cap X = {} /\ Sum(f, {}) = 0 /\ Sum(g, {}) = 0
    BY <1>7, FS_EmptySet, SumSteps
  <2> QED
    BY <1>3, <1>5, <1>7, <2>1
<1>8. CASE X # {}
  <2>1. PICK x \in X : TRUE
    BY <1>8
  <2> DEFINE Y == X \ {x}
  <2>2. Sum(g, X) = g[x] + Sum(g, Y)
    BY <1>6, <2>1, SumAnyFirst
  <2>3. Sum(f, S \cap Y) <= Sum(g, Y)
    BY <1>4, <1>5, <1>6, <2>1
  <2>4. Sum(f, S \cap Y) \in Nat /\ Sum(g, Y) \in Nat
    <3>1. IsFiniteSet(Y) /\ IsFiniteSet(S \cap Y) /\ Y \subseteq T
      BY <1>6, FS_Subset
    <3> QED
      BY <3>1, SumNat
  <2>5. g[x] \in Nat
    BY <1>6, <2>1
  <2>6. CASE x \in S
    <3>1. x \in S \cap X /\ (S \cap X) \ {x} = S \cap Y
      BY <2>1, <2>6
    <3>2. Sum(f, S \cap X) = f[x] + Sum(f, S \cap Y)
      BY <1>6, <3>1, SumAnyFirst
    <3>3. f[x] \in Nat /\ f[x] <= g[x]
      BY <2>6
    <3>4. \A a, b, c, d \in Nat : a <= b /\ c <= d => a + c <= b + d
      OBVIOUS
    <3> HIDE DEF Y
    <3>5. Sum(f, S \cap X) <= Sum(g, X)
      BY <2>2, <2>3, <2>4, <2>5, <3>2, <3>3, <3>4
    <3> QED
      BY <1>3, <1>5, <3>5
  <2>7. CASE x \notin S
    <3>1. S \cap X = S \cap Y
      BY <2>7
    <3>2. \A b, c, d \in Nat : c <= d => c <= b + d
      OBVIOUS
    <3> HIDE DEF Y
    <3>3. Sum(f, S \cap X) <= Sum(g, X)
      BY <2>2, <2>3, <2>4, <2>5, <3>1, <3>2
    <3> QED
      BY <1>3, <1>5, <3>3
  <2> QED
    BY <2>6, <2>7
<1> QED
  BY <1>7, <1>8

-------------------------------------------------------------------------------
(* The interval of every plugin is a number, and one of them the longest.   *)
LEMMA LoadedFinite == Loaded \subseteq Nat /\ IsFiniteSet(Loaded)
<1>1. Files \in Seq(File) /\ Len(Files) \in Nat /\ DOMAIN Files = 1 .. Len(Files)
  BY PluginAssumption
<1>2. Loaded \subseteq 1 .. Len(Files)
  BY <1>1 DEF Loaded
<1>3. IsFiniteSet(1 .. Len(Files))
  BY <1>1, FS_Interval
<1>4. 1 .. Len(Files) \subseteq Nat
  BY <1>1
<1>5. IsFiniteSet(Loaded)
  BY ONLY <1>2, <1>3, FS_Subset
<1> QED
  BY <1>2, <1>4, <1>5

\* Every plugin has a file, and its interval is a number.
LEMMA Intervals == \A n \in Names : Interval(n) \in Nat
<1> SUFFICES ASSUME NEW n \in Names PROVE Interval(n) \in Nat
  OBVIOUS
<1> DEFINE S == { k \in Loaded : Files[k].name = n }
<1>1. S # {} /\ S \in SUBSET Nat /\ IsFiniteSet(S)
  BY LoadedFinite, FS_Subset DEF Names
<1>2. PICK m \in S : \A k \in S : k <= m
  BY <1>1, HasMax
<1>3. FileOf(n) \in Loaded
  BY <1>2 DEF FileOf
<1>4. Files[FileOf(n)] \in File
  BY <1>3, PluginAssumption DEF Loaded
<1> QED
  BY <1>4 DEF Interval, File

\* So is the longest of them.
LEMMA LongestNat == Longest \in Nat
<1> DEFINE T == { Interval(n) : n \in Names }
<1> DEFINE f == [k \in Loaded |-> Interval(Files[k].name)]
<1>1. f \in Surjection(Loaded, T)
  <2>1. \A k \in Loaded : Files[k].name \in Names
    BY DEF Names
  <2>2. f \in [Loaded -> T]
    BY <2>1
  <2>3. \A i \in T : \E k \in Loaded : f[k] = i
    BY DEF Names
  <2> QED
    BY <2>2, <2>3 DEF Surjection
<1>2. IsFiniteSet(T)
  BY <1>1, LoadedFinite, FS_Surjection
<1>3. IsFiniteSet({0} \cup T) /\ {0} \cup T # {}
  BY <1>2, FS_Singleton, FS_Union
<1>4. {0} \cup T \in SUBSET Nat
  BY Intervals
<1>5. PICK m \in {0} \cup T : \A i \in {0} \cup T : i <= m
  BY <1>3, <1>4, HasMax
<1>6. \A n \in Names : Interval(n) <= m
  BY <1>5
<1>7. Longest \in {0} \cup T
  BY <1>5, <1>6 DEF Longest
<1> QED
  BY <1>4, <1>7

-------------------------------------------------------------------------------
(* What a cycle does to the plugins is a step of run_all(), or nothing, for *)
(* some time.                                                              *)
Lapse == clock' \in Nat /\ clock <= clock' /\ UNCHANGED plugins

PluginStep ==
  \/ Cycle \/ Return \/ Reload \/ Lapse
  \/ \E n \in Names : Serve(n) \/ Run(n) \/ TurnRaises(n)

\* Every step of a cycle is one of the plugins, or lets time go by.
LEMMA CycleSteps ==
  ASSUME clock \in Nat, [CycleNext]_cycleVars
  PROVE  PluginStep
<1> USE DEF PluginStep
<1>1. CASE ReadDisks
  BY <1>1, MetricAssumption DEF ReadDisks, Takes, Lapse
<1>2. CASE ReadNetwork
  BY <1>2 DEF ReadNetwork, Lapse
<1>3. CASE RunAll
  BY <1>3 DEF RunAll
<1>4. CASE Send
  BY <1>4 DEF Send, Lapse
<1>5. CASE Raise
  BY <1>5 DEF Raise, Lapse
<1>6. CASE Wait
  BY <1>6, MetricAssumption DEF Wait, Lapse
<1>7. CASE ReloadPlugins
  BY <1>7 DEF ReloadPlugins
<1>8. CASE \E d \in Removable : Unplug(d) \/ Plug(d)
  BY <1>8 DEF Unplug, Plug, Lapse, plugins, vars
<1>9. CASE RunAllRaises
  BY <1>9 DEF RunAllRaises
<1>10. CASE UNCHANGED cycleVars
  BY <1>10 DEF cycleVars, Lapse, plugins, vars
<1> QED
  BY <1>1, <1>2, <1>3, <1>4, <1>5, <1>6, <1>7, <1>8, <1>9, <1>10 DEF CycleNext

\* Every such step keeps the types of the plugins' state.
LEMMA PluginTyping ==
  ASSUME TypeOK, PluginStep
  PROVE  TypeOK'
<1> USE DEF TypeOK, Ends, Never
<1>1. CASE Cycle
  BY <1>1, PluginAssumption DEF Cycle
<1>2. CASE Return
  BY <1>2 DEF Return
<1>3. CASE Reload
  BY <1>3, PluginAssumption DEF Reload, NoResult
<1>4. ASSUME NEW n \in Names, Serve(n)
      PROVE  TypeOK'
  BY <1>4 DEF Serve, Turn, Gather
<1>5. ASSUME NEW n \in Names, Run(n)
      PROVE  TypeOK'
  <2>1. PICK end \in Ends, d \in 0 .. RunTime :
          /\ clock' = clock + d
          /\ state' = [state EXCEPT ![n] = [last_run |-> clock, end |-> end, from |-> clock]]
          /\ Gather(n, end, clock)
    BY <1>5 DEF Run
  <2>2. clock' \in Nat /\ clock <= clock'
    BY <2>1, PluginAssumption
  <2>3. results' \in [Names -> Nat \cup {Never}]
    BY <2>1 DEF Gather
  <2>4. state' \in [Names -> [last_run : Nat, end : Ends, from : Nat \cup {Never}]]
    BY <2>1
  <2>5. \A m \in Names : state'[m].from <= clock' /\ state'[m].last_run <= clock'
    BY <2>1, <2>2
  <2> QED
    BY <1>5, <2>2, <2>3, <2>4, <2>5 DEF Run, Turn
<1>6. ASSUME NEW n \in Names, TurnRaises(n)
      PROVE  TypeOK'
  BY <1>6 DEF TurnRaises
<1>7. CASE Lapse
  BY <1>7 DEF Lapse, plugins
<1> QED
  BY <1>1, <1>2, <1>3, <1>4, <1>5, <1>6, <1>7 DEF PluginStep

\* They hold at the start.
LEMMA PluginTypingInit == CycleInit => TypeOK
<1> SUFFICES ASSUME CycleInit PROVE TypeOK
  OBVIOUS
<1>1. clock \in Nat /\ reloads \in 0 .. MaxReloads
  BY LongestNat, PluginAssumption DEF CycleInit, Init
<1>2. NoResult \in [last_run : Nat, end : Ends, from : Nat \cup {Never}]
  BY DEF NoResult, Ends, Never
<1>3. /\ state = [n \in Names |-> NoResult] /\ running = FALSE /\ todo = {}
      /\ results = [n \in Names |-> Never] /\ began = [n \in Names |-> Never]
      /\ invalid \subseteq Names \cap Careless
  BY DEF CycleInit, Init
<1>4. \A n \in Names : state[n].from <= clock /\ state[n].last_run <= clock
  BY <1>1, <1>3 DEF NoResult, Never
<1> QED
  BY <1>1, <1>2, <1>3, <1>4 DEF TypeOK

-------------------------------------------------------------------------------
(* What _state tells of a plugin is its last run; while run_all() runs, a   *)
(* plugin that had its turn has its answer, and one that waits has none.   *)
Answered(n) == IF state[n].end = "none" THEN results[n] = Never ELSE results[n] = began[n]

Remembers ==
  /\ \A n \in Names :
       /\ state[n].from = began[n]
       /\ began[n] # Never => state[n].last_run = began[n]
  /\ running => \A n \in Names : IF n \in todo THEN results[n] = Never ELSE Answered(n)

PluginInv == TypeOK /\ Remembers

\* Every such step keeps what _state tells.
LEMMA RemembersStep ==
  ASSUME PluginInv, PluginStep
  PROVE  Remembers'
<1> USE DEF PluginInv, TypeOK, Remembers, Answered, Never
<1>1. CASE Cycle
  BY <1>1 DEF Cycle
<1>2. CASE Return
  BY <1>2 DEF Return
<1>3. CASE Reload
  BY <1>3 DEF Reload, NoResult
<1>4. ASSUME NEW n \in Names, Serve(n)
      PROVE  Remembers'
  BY <1>4 DEF Serve, Turn, Gather
<1>5. ASSUME NEW n \in Names, Run(n)
      PROVE  Remembers'
  <2>1. PICK end \in Ends, d \in 0 .. RunTime :
          /\ state' = [state EXCEPT ![n] = [last_run |-> clock, end |-> end, from |-> clock]]
          /\ Gather(n, end, clock)
    BY <1>5 DEF Run
  <2>2. /\ running /\ n \in todo /\ todo' = todo \ {n} /\ running' = running
        /\ began' = [began EXCEPT ![n] = clock]
    BY <1>5 DEF Run, Turn
  <2>3. \A m \in Names \ {n} : state'[m] = state[m] /\ began'[m] = began[m] /\ results'[m] = results[m]
    BY <2>1, <2>2 DEF Gather
  <2>4. /\ state'[n].from = clock /\ state'[n].last_run = clock /\ state'[n].end = end
        /\ began'[n] = clock
        /\ IF end = "none" THEN results'[n] = Never ELSE results'[n] = clock
    BY <2>1, <2>2 DEF Gather
  <2> QED
    BY <2>2, <2>3, <2>4
<1>6. ASSUME NEW n \in Names, TurnRaises(n)
      PROVE  Remembers'
  BY <1>6 DEF TurnRaises
<1>7. CASE Lapse
  BY <1>7 DEF Lapse, plugins
<1> QED
  BY <1>1, <1>2, <1>3, <1>4, <1>5, <1>6, <1>7 DEF PluginStep

\* It is so at the start.
LEMMA RemembersInit == CycleInit => Remembers
<1> QED
  BY DEF CycleInit, Init, Remembers, NoResult

\* So it is an invariant.
LEMMA Remembered == CycleSpec => []PluginInv
<1>1. CycleInit => PluginInv
  BY PluginTypingInit, RemembersInit DEF PluginInv
<1>2. PluginInv /\ [CycleNext]_cycleVars => PluginInv'
  <2> SUFFICES ASSUME PluginInv, [CycleNext]_cycleVars PROVE PluginInv'
    OBVIOUS
  <2>1. clock \in Nat /\ TypeOK
    BY DEF PluginInv, TypeOK
  <2>2. PluginStep
    BY <2>1, CycleSteps
  <2> QED
    BY <2>1, <2>2, PluginTyping, RemembersStep DEF PluginInv
<1> QED
  BY <1>1, <1>2, PTL DEF CycleSpec

(* When run_all() returns, the latest run of every plugin is in its results *)
(* unless it ended in None, whatever any of them raised or has cached.     *)
THEOREM Answers == CycleSpec => []EveryPluginAnswers
<1>1. PluginInv => EveryPluginAnswers
  BY DEF PluginInv, Remembers, Answered, EveryPluginAnswers
<1> QED
  BY <1>1, Remembered, PTL

(* Two runs of a plugin begin an interval apart, unless a reload() between  *)
(* them forgot the first, whatever the rest of the cycles does.            *)
THEOREM Spaced == CycleSpec => AtMostOncePerInterval
<1> DEFINE Apart == \A n \in Names :
              began'[n] # began[n] /\ began[n] # Never /\ began'[n] # Never =>
                began'[n] - began[n] >= Interval(n)
<1>1. PluginInv /\ [CycleNext]_cycleVars => [Apart]_vars
  <2> SUFFICES ASSUME PluginInv, [CycleNext]_cycleVars, NEW n \in Names,
                      began'[n] # began[n], began[n] # Never, began'[n] # Never
               PROVE  began'[n] - began[n] >= Interval(n)
    OBVIOUS
  <2>1. clock \in Nat /\ state[n].last_run = began[n] /\ began[n] \in Nat /\ began[n] <= clock
    BY DEF PluginInv, TypeOK, Remembers
  <2>2. Interval(n) \in Nat
    BY Intervals
  <2>3. PluginStep
    BY <2>1, CycleSteps
  <2>4. Run(n)
    <3>1. ~(Cycle \/ Return \/ Lapse)
      BY DEF Cycle, Return, Lapse, plugins
    <3>2. ~Reload
      BY DEF Reload
    <3>3. \A m \in Names : ~Serve(m) /\ ~TurnRaises(m)
      BY DEF Serve, TurnRaises
    <3>4. \A m \in Names : Run(m) => m = n
      BY DEF Run, PluginInv, TypeOK
    <3> QED
      BY <2>3, <3>1, <3>2, <3>3, <3>4 DEF PluginStep
  <2>5. began'[n] = clock /\ ~Cached(n)
    BY <2>4 DEF Run, PluginInv, TypeOK
  <2>6. Interval(n) = 0 \/ clock - began[n] >= Interval(n)
    BY <2>1, <2>2, <2>5 DEF Cached
  <2> QED
    BY <2>1, <2>2, <2>5, <2>6
<1> QED
  BY <1>1, Remembered, PTL DEF CycleSpec, AtMostOncePerInterval

-------------------------------------------------------------------------------
(* The interfaces that are there are finitely many.                         *)
LEMMA NicsFinite == IsFiniteSet(There(Nics))
<1> QED
  BY MetricAssumption, FS_Intersection DEF There

(* A look at counters lets those grow that are looked at, and none shrink.  *)
LEMMA Looking ==
  ASSUME Partial(counters, Disks \cup Nics, Nat), NEW S, Look(S)
  PROVE  /\ Partial(counters', Disks \cup Nics, Nat)
         /\ DOMAIN counters' = DOMAIN counters
         /\ \A d \in DOMAIN counters : counters[d] <= counters'[d]
         /\ \A d \in DOMAIN counters \ S : counters'[d] = counters[d]
         /\ gone' = gone \ S /\ unplugged' = unplugged
<1>1. PICK growth \in [There(S \cap Busy) -> 0 .. MaxGrowth] :
        counters' = [d \in DOMAIN counters |->
                       counters[d] + IF d \in DOMAIN growth THEN growth[d] ELSE 0]
  BY DEF Look
<1> DEFINE more(d) == IF d \in DOMAIN growth THEN growth[d] ELSE 0
<1>2. \A d \in DOMAIN counters : more(d) \in Nat /\ counters[d] \in Nat
  BY MetricAssumption DEF Partial
<1>3. \A d \in DOMAIN counters \ S : more(d) = 0
  BY DEF There
<1>4. DOMAIN counters' = DOMAIN counters /\ \A d \in DOMAIN counters : counters'[d] = counters[d] + more(d)
  BY <1>1
<1>5. counters' = [d \in DOMAIN counters |-> counters'[d]]
  BY <1>1
<1> HIDE DEF more
<1>6. \A d \in DOMAIN counters :
        /\ counters'[d] \in Nat /\ counters[d] <= counters'[d]
        /\ d \notin S => counters'[d] = counters[d]
  BY <1>2, <1>3, <1>4
<1>7. gone' = gone \ S /\ unplugged' = unplugged
  BY DEF Look
<1> QED
  BY <1>4, <1>5, <1>6, <1>7 DEF Partial

(* What the interfaces add up to is a number, and grows with them.          *)
LEMMA TotalNat ==
  ASSUME Partial(counters, Disks \cup Nics, Nat)
  PROVE  Total \in Nat
<1>1. \A d \in There(Nics) : counters[d] \in Nat
  BY DEF There, Partial
<1>2. Total = Sum(counters, There(Nics))
  BY DEF Total, Sum
<1> QED
  BY <1>1, <1>2, NicsFinite, SumNat

\* The total grows with counters and with interfaces.
LEMMA TotalGrows ==
  ASSUME Partial(counters, Disks \cup Nics, Nat), Partial(counters', Disks \cup Nics, Nat),
         \A d \in There(Nics) : d \in DOMAIN counters' /\ counters[d] <= counters'[d]
  PROVE  {Total, Total'} \subseteq Nat /\ Total <= Total'
<1> DEFINE T == Nics \cap DOMAIN counters'
<1>1. IsFiniteSet(T) /\ There(Nics) \subseteq T
  BY MetricAssumption, FS_Intersection DEF There
<1>2. \A d \in There(Nics) : counters[d] \in Nat /\ counters[d] <= counters'[d]
  BY DEF There, Partial
<1>3. \A d \in T : counters'[d] \in Nat
  BY DEF Partial
<1>4. Total = Sum(counters, There(Nics)) /\ Total' = Sum(counters', T)
  BY DEF Total, Sum, There, FoldFunctionOnSet, MapThenFoldSet
<1> HIDE DEF T
<1>5. Sum(counters, There(Nics)) <= Sum(counters', T)
  BY ONLY <1>1, <1>2, <1>3, SumGrows
<1>6. Sum(counters', T) \in Nat
  BY <1>1, <1>3, SumNat
<1> QED
  BY <1>4, <1>5, <1>6, TotalNat

-------------------------------------------------------------------------------
(* Readings are functions of devices to numbers.                            *)
LEMMA Restricted ==
  ASSUME NEW f, NEW S, NEW R, NEW T, Partial(f, S, T), R \subseteq DOMAIN f
  PROVE  Partial(Restrict(f, R), S, T) /\ DOMAIN Restrict(f, R) = R
         /\ \A x \in R : Restrict(f, R)[x] = f[x]
<1> QED
  BY DEF Partial, Restrict

\* The first reading of a device is kept.
LEMMA Remembering ==
  ASSUME Partial(first, Items, Nat), NEW reading, Partial(reading, Items, Nat), Remember(reading)
  PROVE  /\ Partial(first', Items, Nat)
         /\ DOMAIN first' = DOMAIN first \cup DOMAIN reading
         /\ \A x \in DOMAIN first : first'[x] = first[x]
         /\ \A x \in DOMAIN reading \ DOMAIN first : first'[x] = reading[x]
<1> QED
  BY DEF Partial, Remember

\* What a cycle has read, remembered and told: the part of CycleTypeOK that is not
\* about plugins.
Typed ==
  /\ stage \in {"wait", "disks", "network", "plugins", "send"}
  /\ Partial(counters, Disks \cup Nics, Nat)
  /\ Partial(prevDisk, Disks, Nat) /\ prevNet \in Nat \cup {Null}
  /\ Partial(rates, Items, Int) /\ Partial(first, Items, Nat)
  /\ gone \subseteq Removable \ DOMAIN counters
  /\ unplugged \in 0 .. MaxUnplugged
  /\ told \in [Items -> Int] /\ spoiled \subseteq Items /\ left \in BOOLEAN

\* What reading the disks does.
LEMMA DisksTyped ==
  ASSUME Typed, ReadDisks
  PROVE  /\ Typed'
         /\ DOMAIN counters' = DOMAIN counters
         /\ \A d \in DOMAIN counters : counters[d] <= counters'[d]
         /\ \A d \in Nics \cap DOMAIN counters : counters'[d] = counters[d]
         /\ DOMAIN prevDisk' = There(Disks)
         /\ \A d \in There(Disks) : prevDisk'[d] = counters'[d]
         /\ gone' = gone \ Disks
         /\ DOMAIN rates' = There(Disks) \cap DOMAIN prevDisk
         /\ \A d \in DOMAIN rates' : rates'[d] = counters'[d] - prevDisk[d]
         /\ DOMAIN first' = DOMAIN first \cup There(Disks)
         /\ \A x \in DOMAIN first : first'[x] = first[x]
         /\ \A x \in There(Disks) \ DOMAIN first : first'[x] = counters'[x]
         /\ stage = "disks" /\ stage' = "network"
         /\ UNCHANGED <<prevNet, left, told, spoiled>>
<1>1. /\ Partial(counters', Disks \cup Nics, Nat)
      /\ DOMAIN counters' = DOMAIN counters
      /\ \A d \in DOMAIN counters : counters[d] <= counters'[d]
      /\ \A d \in DOMAIN counters \ Disks : counters'[d] = counters[d]
      /\ gone' = gone \ Disks /\ unplugged' = unplugged
  BY Looking DEF ReadDisks, Typed
<1> DEFINE r == Restrict(counters', There(Disks))
<1>2. /\ Partial(r, Items, Nat) /\ Partial(r, Disks, Nat) /\ DOMAIN r = There(Disks)
      /\ \A d \in There(Disks) : r[d] = counters'[d]
  <2>1. There(Disks) \subseteq DOMAIN counters' /\ There(Disks) \subseteq Disks
    BY <1>1 DEF There
  <2> QED
    BY <1>1, <2>1, Restricted DEF Partial, Items
<1>3. prevDisk' = r /\ Remember(r)
  BY DEF ReadDisks, Io
<1> HIDE DEF r
<1>4. /\ Partial(first', Items, Nat)
      /\ DOMAIN first' = DOMAIN first \cup There(Disks)
      /\ \A x \in DOMAIN first : first'[x] = first[x]
      /\ \A x \in There(Disks) \ DOMAIN first : first'[x] = counters'[x]
  BY <1>2, <1>3, Remembering DEF Typed
<1>5. rates' = [d \in There(Disks) \cap DOMAIN prevDisk |-> counters'[d] - prevDisk[d]]
  BY DEF ReadDisks
<1>6. \A d \in There(Disks) \cap DOMAIN prevDisk : counters'[d] - prevDisk[d] \in Int
  BY <1>1 DEF Typed, Partial, There
<1>7. Partial(rates', Items, Int)
  BY <1>5, <1>6 DEF Partial, Items, There
<1>8. /\ stage = "disks" /\ stage' = "network"
      /\ UNCHANGED <<prevNet, left, told, spoiled>>
  BY DEF ReadDisks, Goto, sums
<1>9. gone' \subseteq Removable \ DOMAIN counters'
  BY <1>1 DEF Typed
<1>10. Partial(prevDisk', Disks, Nat)
  BY <1>2, <1>3
<1>11. Typed'
  BY <1>1, <1>4, <1>7, <1>8, <1>9, <1>10 DEF Typed
<1>12. \A d \in Nics \cap DOMAIN counters : counters'[d] = counters[d]
  BY <1>1, MetricAssumption
<1> QED
  BY <1>1, <1>2, <1>3, <1>4, <1>5, <1>8, <1>11, <1>12

\* What reading the network does.
LEMMA NetworkTyped ==
  ASSUME Typed, ReadNetwork
  PROVE  /\ Typed' /\ {Total, Total'} \subseteq Nat /\ Total <= Total'
         /\ DOMAIN counters' = DOMAIN counters
         /\ \A d \in There(Disks) : counters'[d] = counters[d]
         /\ gone' = gone \ Nics
         /\ prevNet = Null => rates' = rates
         /\ prevNet # Null => /\ DOMAIN rates' = DOMAIN rates \cup {"net"}
                              /\ rates'["net"] = Total' - prevNet
                              /\ \A x \in DOMAIN rates \ {"net"} : rates'[x] = rates[x]
         /\ prevNet' = Total'
         /\ DOMAIN first' = DOMAIN first \cup {"net"}
         /\ \A x \in DOMAIN first : first'[x] = first[x]
         /\ "net" \notin DOMAIN first => first'["net"] = Total'
         /\ stage = "network" /\ stage' = "plugins"
         /\ UNCHANGED <<prevDisk, told, spoiled>>
<1>1. /\ Partial(counters', Disks \cup Nics, Nat)
      /\ DOMAIN counters' = DOMAIN counters
      /\ \A d \in DOMAIN counters : counters[d] <= counters'[d]
      /\ \A d \in DOMAIN counters \ Nics : counters'[d] = counters[d]
      /\ gone' = gone \ Nics /\ unplugged' = unplugged
  BY Looking DEF ReadNetwork, Typed
<1>2. {Total, Total'} \subseteq Nat /\ Total <= Total'
  BY <1>1, TotalGrows DEF Typed, There
<1>3. \A d \in There(Disks) : counters'[d] = counters[d]
  BY <1>1, MetricAssumption DEF There
<1>4. PICK n : n = Total'
  OBVIOUS
<1>5. /\ rates' = IF prevNet = Null THEN rates
                  ELSE [x \in DOMAIN rates \cup {"net"} |->
                          IF x = "net" THEN n - prevNet ELSE rates[x]]
      /\ prevNet' = n /\ Remember([x \in {"net"} |-> n]) /\ left' = FALSE
      /\ stage = "network" /\ stage' = "plugins"
      /\ UNCHANGED <<prevDisk, told, spoiled>>
  BY <1>4 DEF ReadNetwork, Goto, sums
<1>6. n \in Nat /\ "net" \in Items
  BY <1>2, <1>4 DEF Items
<1>7. Partial([x \in {"net"} |-> n], Items, Nat)
  BY <1>6 DEF Partial
<1>8. /\ Partial(first', Items, Nat)
      /\ DOMAIN first' = DOMAIN first \cup {"net"}
      /\ \A x \in DOMAIN first : first'[x] = first[x]
      /\ "net" \notin DOMAIN first => first'["net"] = n
  <2> DEFINE r == [x \in {"net"} |-> n]
  <2>1. Partial(first, Items, Nat) /\ Partial(r, Items, Nat) /\ Remember(r)
    BY <1>5, <1>7 DEF Typed
  <2>2. DOMAIN r = {"net"} /\ r["net"] = n
    OBVIOUS
  <2> HIDE DEF r
  <2> QED
    BY <2>1, <2>2, Remembering
<1>9. CASE prevNet = Null
  <2>1. rates' = rates
    BY <1>5, <1>9
  <2> QED
    BY <1>1, <1>2, <1>3, <1>4, <1>5, <1>6, <1>8, <1>9, <2>1 DEF Typed
<1>10. CASE prevNet # Null
  <2>1. n - prevNet \in Int
    BY <1>6, <1>10 DEF Typed
  <2>2. /\ Partial(rates', Items, Int) /\ DOMAIN rates' = DOMAIN rates \cup {"net"}
        /\ rates'["net"] = n - prevNet
        /\ \A x \in DOMAIN rates \ {"net"} : rates'[x] = rates[x]
    BY <1>5, <1>6, <1>10, <2>1 DEF Typed, Partial
  <2> QED
    BY <1>1, <1>2, <1>3, <1>4, <1>5, <1>6, <1>8, <1>10, <2>2 DEF Typed
<1> QED
  BY <1>9, <1>10

-------------------------------------------------------------------------------
\* What a disk is remembered with is what it was when it was read last.
Sampled ==
  /\ stage \in {"wait", "disks"} => rates = None
  /\ stage = "network" => DOMAIN rates \subseteq Disks
  /\ DOMAIN prevDisk \subseteq DOMAIN counters \cup gone
  /\ DOMAIN first \cap Disks = DOMAIN prevDisk \cap DOMAIN counters
  /\ \A d \in DOMAIN prevDisk \cap DOMAIN counters :
       /\ prevDisk[d] <= counters[d]
       /\ stage \in {"network", "plugins", "send"} => prevDisk[d] = counters[d]
  /\ DOMAIN rates \cap Disks \subseteq DOMAIN first
  /\ \A d \in DOMAIN rates \cap Disks : rates[d] >= 0

\* So is the network; while no interface leaves, it has only grown since.
Networked ==
  /\ prevNet # Null <=> "net" \in DOMAIN first
  /\ stage \in {"plugins", "send"} => prevNet # Null /\ prevNet = Total
  /\ prevNet # Null /\ ~left => prevNet <= Total

Pending(x) == IF x \in DOMAIN rates THEN rates[x] ELSE 0
Last(x) == IF x = "net" THEN prevNet ELSE prevDisk[x]

\* What was told of a device, and is about to be, is what it grew by from its first
\* reading to its last.
Balanced ==
  \A x \in Items :
    /\ x \notin DOMAIN first => told[x] = 0 /\ x \notin DOMAIN rates
    /\ x \in DOMAIN first \ spoiled => told[x] + Pending(x) = Last(x) - first[x]
    /\ x \in DOMAIN first \ {"net"} => told[x] + Pending(x) <= Last(x) - first[x]

\* Reading the disks makes what they grew by pending.
LEMMA AfterDisks ==
  ASSUME Typed, Sampled, Networked, Balanced, ReadDisks
  PROVE  Typed' /\ Sampled' /\ Networked' /\ Balanced'
<1> USE MetricAssumption
<1>1. /\ Typed'
      /\ DOMAIN counters' = DOMAIN counters
      /\ \A d \in DOMAIN counters : counters[d] <= counters'[d]
      /\ \A d \in Nics \cap DOMAIN counters : counters'[d] = counters[d]
      /\ DOMAIN prevDisk' = There(Disks)
      /\ \A d \in There(Disks) : prevDisk'[d] = counters'[d]
      /\ gone' = gone \ Disks
      /\ DOMAIN rates' = There(Disks) \cap DOMAIN prevDisk
      /\ \A d \in DOMAIN rates' : rates'[d] = counters'[d] - prevDisk[d]
      /\ DOMAIN first' = DOMAIN first \cup There(Disks)
      /\ \A x \in DOMAIN first : first'[x] = first[x]
      /\ \A x \in There(Disks) \ DOMAIN first : first'[x] = counters'[x]
      /\ stage = "disks" /\ stage' = "network"
      /\ UNCHANGED <<prevNet, left, told, spoiled>>
  BY DisksTyped
<1>2. /\ rates = None /\ DOMAIN rates = {}
      /\ DOMAIN first \cap Disks = DOMAIN prevDisk \cap DOMAIN counters
      /\ DOMAIN prevDisk \subseteq Disks
      /\ \A d \in There(Disks) \cap DOMAIN prevDisk : prevDisk[d] <= counters[d]
  BY <1>1 DEF Sampled, None, Typed, Partial, There
<1>3. /\ \A d \in There(Disks) : {counters[d], counters'[d]} \subseteq Nat
      /\ \A d \in DOMAIN prevDisk : prevDisk[d] \in Nat
      /\ \A x \in DOMAIN first : first[x] \in Nat
      /\ \A x \in Items : told[x] \in Int
  BY <1>1 DEF Typed, Partial, There
<1>4. There(Disks) \cap DOMAIN prevDisk = DOMAIN first \cap Disks
  BY <1>2 DEF There
<1>5. \A d \in DOMAIN rates' : rates'[d] >= 0 /\ rates'[d] \in Int
  <2> SUFFICES ASSUME NEW d \in DOMAIN rates'
               PROVE  rates'[d] >= 0 /\ rates'[d] \in Int
    OBVIOUS
  <2>1. d \in There(Disks) /\ d \in DOMAIN prevDisk
    BY <1>1
  <2>2. PICK a \in Nat, b \in Nat, c \in Nat :
          a = prevDisk[d] /\ b = counters[d] /\ c = counters'[d]
    BY <1>3, <2>1
  <2>3. a <= b /\ b <= c
    BY <1>1, <1>2, <2>1, <2>2 DEF There
  <2>4. rates'[d] = c - a
    BY <1>1, <2>2
  <2> QED
    BY <2>3, <2>4
<1>6. Sampled'
  <2>1. DOMAIN first' \cap Disks = There(Disks)
    BY <1>1, <1>4 DEF There
  <2>2. \A d \in There(Disks) : prevDisk'[d] <= counters'[d]
    BY <1>1, <1>3
  <2>3. DOMAIN prevDisk' \cap DOMAIN counters' = There(Disks)
    BY <1>1 DEF There
  <2>4. DOMAIN rates' \subseteq Disks
    BY <1>1 DEF There
  <2> QED
    BY <1>1, <1>4, <1>5, <2>1, <2>2, <2>3, <2>4 DEF Sampled, There
<1>7. Networked'
  <2>1. {Total, Total'} \subseteq Nat /\ Total <= Total'
    BY <1>1, TotalGrows DEF Typed, There
  <2>2. "net" \in DOMAIN first' <=> "net" \in DOMAIN first
    BY <1>1 DEF There
  <2>3. prevNet # Null => prevNet \in Nat
    BY DEF Typed
  <2> QED
    BY <1>1, <2>1, <2>2, <2>3 DEF Networked
<1>8. ASSUME NEW x \in Items
      PROVE  /\ x \notin DOMAIN first' => told'[x] = 0 /\ x \notin DOMAIN rates'
             /\ x \in DOMAIN first' \ spoiled' => told'[x] + Pending(x)' = Last(x)' - first'[x]
             /\ x \in DOMAIN first' \ {"net"} => told'[x] + Pending(x)' <= Last(x)' - first'[x]
  <2>1. CASE x \notin DOMAIN first'
    BY <1>1, <1>4, <2>1 DEF Balanced
  <2>2. CASE x = "net" /\ x \in DOMAIN first'
    <3>1. x \in DOMAIN first /\ first'[x] = first[x] /\ x \notin DOMAIN rates'
      BY <1>1, <2>2 DEF There
    <3>2. Pending(x)' = 0 /\ Pending(x) = 0
      BY <1>2, <3>1 DEF Pending
    <3>3. Last(x)' = prevNet /\ Last(x) = prevNet
      BY <1>1, <2>2 DEF Last
    <3> QED
      BY <1>1, <2>2, <3>1, <3>2, <3>3 DEF Balanced
  <2>3. CASE x \in Disks /\ x \in DOMAIN first
    <3>1. x \in There(Disks) /\ x \in DOMAIN prevDisk /\ x \in DOMAIN rates' /\ x # "net"
      BY <1>1, <1>4, <2>3
    <3>2. PICK a \in Nat, c \in Nat, f \in Nat, t \in Int :
            a = prevDisk[x] /\ c = counters'[x] /\ f = first[x] /\ t = told[x]
      BY <1>3, <2>3, <3>1
    <3>3. /\ x \notin spoiled => t + 0 = a - f
          /\ t + 0 <= a - f
      BY <1>2, <2>3, <3>1, <3>2 DEF Balanced, Pending, Last
    <3>4. told'[x] = t /\ Pending(x)' = c - a /\ Last(x)' = c /\ first'[x] = f
      BY <1>1, <2>3, <3>1, <3>2 DEF Pending, Last
    <3> QED
      BY <1>1, <2>3, <3>1, <3>3, <3>4
  <2>4. CASE x \in DOMAIN first' /\ x \notin DOMAIN first
    <3>1. x \in There(Disks) /\ x \notin DOMAIN rates' /\ x # "net"
      BY <1>1, <1>4, <2>4 DEF There
    <3>2. PICK c \in Nat : c = counters'[x]
      BY <1>3, <3>1
    <3>3. told'[x] = 0 /\ Pending(x)' = 0 /\ Last(x)' = c /\ first'[x] = c
      BY <1>1, <2>4, <3>1, <3>2 DEF Pending, Last, Balanced
    <3> QED
      BY <2>4, <3>3
  <2> QED
    BY <2>1, <2>2, <2>3, <2>4 DEF Items
<1>9. Balanced'
  BY <1>8 DEF Balanced, Items
<1> QED
  BY <1>1, <1>6, <1>7, <1>9

\* So does reading the network.
LEMMA AfterNetwork ==
  ASSUME Typed, Sampled, Networked, Balanced, ReadNetwork
  PROVE  Typed' /\ Sampled' /\ Networked' /\ Balanced'
<1> USE MetricAssumption
<1>1. /\ Typed' /\ {Total, Total'} \subseteq Nat /\ Total <= Total'
      /\ DOMAIN counters' = DOMAIN counters
      /\ \A d \in There(Disks) : counters'[d] = counters[d]
      /\ gone' = gone \ Nics
      /\ prevNet = Null => rates' = rates
      /\ prevNet # Null => /\ DOMAIN rates' = DOMAIN rates \cup {"net"}
                           /\ rates'["net"] = Total' - prevNet
                           /\ \A x \in DOMAIN rates \ {"net"} : rates'[x] = rates[x]
      /\ prevNet' = Total'
      /\ DOMAIN first' = DOMAIN first \cup {"net"}
      /\ \A x \in DOMAIN first : first'[x] = first[x]
      /\ "net" \notin DOMAIN first => first'["net"] = Total'
      /\ stage = "network" /\ stage' = "plugins"
      /\ UNCHANGED <<prevDisk, told, spoiled>>
  BY NetworkTyped
<1>2. /\ DOMAIN rates \subseteq Disks /\ "net" \notin DOMAIN rates
      /\ DOMAIN rates \ {"net"} = DOMAIN rates
      /\ DOMAIN prevDisk \subseteq Disks
      /\ DOMAIN rates' \cap Disks = DOMAIN rates \cap Disks
      /\ \A d \in Disks \cap DOMAIN rates : rates'[d] = rates[d]
  <2>1. DOMAIN rates \subseteq Disks /\ "net" \notin DOMAIN rates /\ DOMAIN prevDisk \subseteq Disks
    BY <1>1 DEF Sampled, Typed, Partial
  <2>2. prevNet = Null \/ (DOMAIN rates' = DOMAIN rates \cup {"net"} /\ prevNet # Null)
    BY <1>1
  <2>3. DOMAIN rates' \cap Disks = DOMAIN rates \cap Disks
    BY <1>1, <2>2
  <2>4. \A d \in Disks \cap DOMAIN rates : rates'[d] = rates[d]
    BY <1>1, <2>1
  <2> QED
    BY <2>1, <2>3, <2>4
<1>3. PICK n \in Nat : n = Total' /\ Total <= n
  BY <1>1
<1>4. Sampled'
  <2>1. DOMAIN first' \cap Disks = DOMAIN first \cap Disks
    BY <1>1
  <2>2. DOMAIN prevDisk \subseteq DOMAIN counters' \cup gone'
    BY <1>1, <1>2 DEF Sampled
  <2>3. \A d \in DOMAIN prevDisk \cap DOMAIN counters :
          prevDisk[d] <= counters'[d] /\ prevDisk[d] = counters'[d]
    BY <1>1, <1>2 DEF Sampled, There
  <2>4. DOMAIN rates \cap Disks \subseteq DOMAIN first /\ \A d \in DOMAIN rates \cap Disks : rates[d] >= 0
    BY DEF Sampled
  <2>5. DOMAIN first \cap Disks = DOMAIN prevDisk \cap DOMAIN counters
    BY DEF Sampled
  <2> QED
    BY <1>1, <1>2, <2>1, <2>2, <2>3, <2>4, <2>5 DEF Sampled
<1>5. Networked'
  <2>1. prevNet' # Null
    BY <1>1, <1>3
  <2>2. prevNet' = Total' /\ Total' <= Total' /\ "net" \in DOMAIN first'
    BY <1>1, <1>3
  <2> QED
    BY <2>1, <2>2 DEF Networked
<1>6. ASSUME NEW x \in Items
      PROVE  /\ x \notin DOMAIN first' => told'[x] = 0 /\ x \notin DOMAIN rates'
             /\ x \in DOMAIN first' \ spoiled' => told'[x] + Pending(x)' = Last(x)' - first'[x]
             /\ x \in DOMAIN first' \ {"net"} => told'[x] + Pending(x)' <= Last(x)' - first'[x]
  <2>1. CASE x \in Disks
    <3>1. x # "net" /\ (x \in DOMAIN first' <=> x \in DOMAIN first) /\ told'[x] = told[x]
      BY <1>1, <2>1
    <3>2. Last(x)' = Last(x) /\ Last(x) = prevDisk[x]
      BY <1>1, <3>1 DEF Last
    <3>3. x \in DOMAIN rates' <=> x \in DOMAIN rates
      BY <1>2, <2>1
    <3>4. Pending(x)' = Pending(x)
      BY <1>2, <2>1, <3>3 DEF Pending
    <3> QED
      BY <1>1, <1>6, <3>1, <3>2, <3>3, <3>4 DEF Balanced
  <2>2. CASE x = "net" /\ x \in DOMAIN first
    <3>1. PICK t \in Int, f \in Nat, p \in Nat : t = told[x] /\ f = first[x] /\ p = prevNet
      BY <1>6, <2>2 DEF Typed, Partial, Networked
    <3>2. prevNet # Null
      BY <2>2 DEF Networked
    <3>3. Pending(x) = 0 /\ Last(x) = p
      BY <1>2, <2>2, <3>1 DEF Pending, Last
    <3>4. x \notin spoiled => t + 0 = p - f
      BY <1>6, <2>2, <3>1, <3>3 DEF Balanced
    <3>5. x \in DOMAIN first' /\ told'[x] = t /\ first'[x] = f /\ spoiled' = spoiled
      BY <1>1, <2>2, <3>1
    <3>6. Pending(x)' = n - p /\ Last(x)' = n
      BY <1>1, <1>3, <2>2, <3>1, <3>2 DEF Pending, Last
    <3> QED
      BY <2>2, <3>4, <3>5, <3>6
  <2>3. CASE x = "net" /\ x \notin DOMAIN first
    <3>1. prevNet = Null /\ told[x] = 0 /\ x \notin DOMAIN rates
      BY <1>6, <2>3 DEF Networked, Balanced
    <3>2. /\ x \in DOMAIN first' /\ told'[x] = 0 /\ first'[x] = n
          /\ Pending(x)' = 0 /\ Last(x)' = n
      BY <1>1, <1>3, <2>3, <3>1 DEF Pending, Last
    <3> QED
      BY <2>3, <3>2
  <2> QED
    BY <2>1, <2>2, <2>3 DEF Items
<1>7. Balanced'
  BY <1>6 DEF Balanced, Items
<1> QED
  BY <1>1, <1>4, <1>5, <1>7

\* Most steps change nothing that is read or told.
Quiet == UNCHANGED <<prevDisk, prevNet, first, told, spoiled, counters, gone, unplugged, left, rates>>

\* A step that reads and tells nothing changes no balance.
LEMMA AfterQuiet ==
  ASSUME Typed, Sampled, Networked, Balanced, Quiet,
         \/ stage' = stage
         \/ stage = "plugins" /\ stage' = "send"
         \/ stage = "wait" /\ stage' = "disks"
  PROVE  Typed' /\ Sampled' /\ Networked' /\ Balanced'
<1> USE DEF Quiet
<1>1. Typed'
  BY DEF Typed, Partial
<1>2. Sampled'
  BY DEF Sampled
<1>3. Total' = Total
  BY DEF Total, There, FoldFunctionOnSet, MapThenFoldSet
<1>4. Networked'
  BY <1>3 DEF Networked
<1>5. Balanced'
  BY DEF Balanced, Pending, Last, Items
<1> QED
  BY <1>1, <1>2, <1>4, <1>5

\* What was pending is told.
LEMMA AfterSend ==
  ASSUME Typed, Sampled, Networked, Balanced, Send
  PROVE  Typed' /\ Sampled' /\ Networked' /\ Balanced'
<1>1. /\ stage = "send" /\ stage' = "wait" /\ rates' = <<>>
      /\ told' = [x \in Items |-> told[x] + IF x \in DOMAIN rates THEN rates[x] ELSE 0]
      /\ UNCHANGED <<prevDisk, prevNet, first, spoiled, counters, gone, unplugged, left>>
  BY DEF Send, Goto, devices, readings, None
<1>2. DOMAIN rates' = {}
  BY <1>1
<1>3. \A x \in Items : Pending(x) \in Int /\ told[x] \in Int
  BY DEF Typed, Partial, Pending
<1>4. \A x \in Items : told'[x] = told[x] + Pending(x) /\ told'[x] \in Int
  BY <1>1, <1>3 DEF Pending
<1>5. told' \in [Items -> Int]
  BY <1>1, <1>4
<1>6. Partial(rates', Items, Int)
  BY <1>1, <1>2 DEF Partial
<1>7. Typed'
  BY <1>1, <1>5, <1>6 DEF Typed, Partial
<1>8. Sampled'
  BY <1>1, <1>2 DEF Sampled, None
<1>9. Total' = Total
  BY <1>1 DEF Total, There, FoldFunctionOnSet, MapThenFoldSet
<1>10. Networked'
  BY <1>1, <1>9 DEF Networked
<1>11. ASSUME NEW x \in Items
       PROVE  /\ x \notin DOMAIN first' => told'[x] = 0 /\ x \notin DOMAIN rates'
              /\ x \in DOMAIN first' \ spoiled' => told'[x] + Pending(x)' = Last(x)' - first'[x]
              /\ x \in DOMAIN first' \ {"net"} => told'[x] + Pending(x)' <= Last(x)' - first'[x]
  <2>1. Pending(x)' = 0 /\ Last(x)' = Last(x) /\ first' = first /\ spoiled' = spoiled
    BY <1>1, <1>2 DEF Pending, Last
  <2>2. told'[x] + 0 = told[x] + Pending(x) /\ x \notin DOMAIN rates'
    BY <1>2, <1>3, <1>4
  <2>3. x \notin DOMAIN first => told[x] = 0 /\ Pending(x) = 0
    BY DEF Balanced, Pending
  <2> QED
    BY <1>4, <2>1, <2>2, <2>3 DEF Balanced
<1>12. Balanced'
  BY <1>11 DEF Balanced, Items
<1> QED
  BY <1>7, <1>8, <1>10, <1>12

\* A cycle that raises spoils what was pending, and nothing else.
Abandoned ==
  /\ stage # "wait" /\ Abandon
  /\ Look(Nics) \/ UNCHANGED <<counters, gone, unplugged>>
  /\ left' = left

\* Both ways to abandon a cycle do no more.
LEMMA Abandons ==
  ASSUME Raise \/ RunAllRaises
  PROVE  Abandoned
<1> QED
  BY DEF Raise, RunAllRaises, Abandoned, devices

\* What was read stays in balance with what is told.
LEMMA AfterRaise ==
  ASSUME Typed, Sampled, Networked, Balanced, Abandoned
  PROVE  Typed' /\ Sampled' /\ Networked' /\ Balanced'
<1> USE MetricAssumption
<1>1. /\ stage # "wait" /\ stage' = "wait" /\ rates' = <<>>
      /\ spoiled' = spoiled \cup DOMAIN rates
      /\ UNCHANGED <<prevDisk, prevNet, first, told, left>>
  BY DEF Abandoned, Abandon, readings, None
<1>2. /\ Partial(counters', Disks \cup Nics, Nat)
      /\ DOMAIN counters' = DOMAIN counters
      /\ \A d \in DOMAIN counters : counters[d] <= counters'[d]
      /\ gone' \subseteq gone /\ gone \cap Disks \subseteq gone' /\ unplugged' = unplugged
  <2>1. CASE Look(Nics)
    <3>1. /\ Partial(counters', Disks \cup Nics, Nat)
          /\ DOMAIN counters' = DOMAIN counters
          /\ \A d \in DOMAIN counters : counters[d] <= counters'[d]
          /\ gone' = gone \ Nics /\ unplugged' = unplugged
      BY <2>1, Looking DEF Typed
    <3> QED
      BY <3>1, MetricAssumption
  <2>2. CASE UNCHANGED <<counters, gone, unplugged>>
    BY <2>2 DEF Typed, Partial
  <2> QED
    BY <2>1, <2>2 DEF Abandoned
<1>3. DOMAIN rates' = {} /\ Partial(rates', Items, Int)
  BY <1>1 DEF Partial
<1>4. Typed'
  <2>1. spoiled' \subseteq Items
    BY <1>1 DEF Typed, Partial
  <2>2. gone' \subseteq Removable \ DOMAIN counters'
    BY <1>2 DEF Typed
  <2> QED
    BY <1>1, <1>2, <1>3, <2>1, <2>2 DEF Typed
<1>5. Sampled'
  <2>1. DOMAIN prevDisk \subseteq DOMAIN counters' \cup gone'
    BY <1>2 DEF Typed, Partial, Sampled
  <2>2. \A d \in DOMAIN prevDisk \cap DOMAIN counters : prevDisk[d] <= counters'[d]
    <3> SUFFICES ASSUME NEW d \in DOMAIN prevDisk, d \in DOMAIN counters
                 PROVE  prevDisk[d] <= counters'[d]
      OBVIOUS
    <3>1. PICK a \in Nat, b \in Nat, c \in Nat :
            a = prevDisk[d] /\ b = counters[d] /\ c = counters'[d]
      BY <1>2 DEF Typed, Partial
    <3>2. a <= b /\ b <= c
      BY <1>2, <3>1 DEF Sampled
    <3> QED
      BY <3>1, <3>2
  <2> QED
    BY <1>1, <1>2, <1>3, <2>1, <2>2 DEF Sampled, None
<1>6. Networked'
  <2>1. {Total, Total'} \subseteq Nat /\ Total <= Total'
    BY <1>2, TotalGrows DEF Typed, There
  <2>2. prevNet # Null => prevNet \in Nat
    BY DEF Typed
  <2> QED
    BY <1>1, <2>1, <2>2 DEF Networked
<1>7. ASSUME NEW x \in Items
      PROVE  /\ x \notin DOMAIN first' => told'[x] = 0 /\ x \notin DOMAIN rates'
             /\ x \in DOMAIN first' \ spoiled' => told'[x] + Pending(x)' = Last(x)' - first'[x]
             /\ x \in DOMAIN first' \ {"net"} => told'[x] + Pending(x)' <= Last(x)' - first'[x]
  <2>1. /\ Pending(x)' = 0 /\ Last(x)' = Last(x) /\ first' = first /\ told' = told
        /\ x \notin DOMAIN rates'
    BY <1>1, <1>3 DEF Pending, Last
  <2>2. x \notin DOMAIN first => told[x] = 0
    BY DEF Balanced
  <2>3. CASE x \in DOMAIN first \ spoiled'
    <3>1. x \notin spoiled /\ Pending(x) = 0
      BY <1>1, <2>3 DEF Pending
    <3> QED
      BY <2>1, <2>3, <3>1 DEF Balanced
  <2>4. CASE x \in DOMAIN first /\ x \in spoiled'
    <3>1. x = "net" \/ x \in Disks
      BY DEF Items
    <3>2. CASE x \in Disks
      <4>1. x # "net" /\ x \in DOMAIN prevDisk
        BY <2>4, <3>2 DEF Sampled
      <4>2. PICK t \in Int, q \in Int, l \in Nat, f \in Nat :
              t = told[x] /\ q = Pending(x) /\ l = prevDisk[x] /\ f = first[x]
        BY <1>7, <2>4, <4>1 DEF Typed, Partial, Pending
      <4>3. q >= 0
        BY <3>2, <4>2 DEF Pending, Sampled
      <4>4. t + q <= l - f
        BY <1>7, <2>4, <4>1, <4>2 DEF Balanced, Last
      <4>5. t + 0 <= l - f
        BY <4>3, <4>4
      <4> QED
        BY <2>1, <2>4, <4>1, <4>2, <4>5 DEF Last
    <3> QED
      BY <2>1, <2>4, <3>1, <3>2
  <2> QED
    BY <2>1, <2>2, <2>3, <2>4
<1>8. Balanced'
  BY <1>7 DEF Balanced, Items
<1> QED
  BY <1>4, <1>5, <1>6, <1>8

\* A disk that leaves is forgotten; an interface that leaves takes its count along.
LEMMA AfterUnplug ==
  ASSUME Typed, Sampled, Networked, Balanced, NEW d \in Removable, Unplug(d)
  PROVE  Typed' /\ Sampled' /\ Networked' /\ Balanced'
<1> USE MetricAssumption
<1>1. /\ stage = "wait" /\ unplugged < MaxUnplugged /\ d \in DOMAIN counters
      /\ gone' = gone \cup {d} /\ unplugged' = unplugged + 1
      /\ left' = (left \/ d \in Nics)
      /\ told' = [x \in Items |-> IF x = d THEN 0 ELSE told[x]]
      /\ spoiled' = spoiled \ {d}
      /\ UNCHANGED <<stage, prevDisk, prevNet, rates>>
      /\ counters' = Restrict(counters, DOMAIN counters \ {d})
      /\ first' = Restrict(first, DOMAIN first \ {d})
  BY DEF Unplug, There
<1>2. /\ Partial(counters', Disks \cup Nics, Nat)
      /\ DOMAIN counters' = DOMAIN counters \ {d}
      /\ \A x \in DOMAIN counters \ {d} : counters'[x] = counters[x]
  <2> DEFINE R == DOMAIN counters \ {d}
  <2>1. Partial(counters, Disks \cup Nics, Nat) /\ R \subseteq DOMAIN counters
    BY DEF Typed
  <2>2. counters' = Restrict(counters, R)
    BY <1>1
  <2> HIDE DEF R
  <2>3. /\ Partial(counters', Disks \cup Nics, Nat) /\ DOMAIN counters' = R
        /\ \A x \in R : counters'[x] = counters[x]
    BY ONLY <2>1, <2>2, Restricted
  <2> QED
    BY <2>3 DEF R
<1>3. /\ Partial(first', Items, Nat)
      /\ DOMAIN first' = DOMAIN first \ {d}
      /\ \A x \in DOMAIN first \ {d} : first'[x] = first[x]
  <2> DEFINE R == DOMAIN first \ {d}
  <2>1. Partial(first, Items, Nat) /\ R \subseteq DOMAIN first
    BY DEF Typed
  <2>2. first' = Restrict(first, R)
    BY <1>1
  <2> HIDE DEF R
  <2>3. /\ Partial(first', Items, Nat) /\ DOMAIN first' = R
        /\ \A x \in R : first'[x] = first[x]
    BY ONLY <2>1, <2>2, Restricted
  <2> QED
    BY <2>3 DEF R
<1>4. d # "net" /\ rates = None /\ DOMAIN rates = {}
  BY <1>1 DEF Sampled, None
<1>5. Typed'
  <2>1. told' \in [Items -> Int] /\ spoiled' \subseteq Items /\ left' \in BOOLEAN
    BY <1>1 DEF Typed
  <2>2. unplugged' \in 0 .. MaxUnplugged
    BY <1>1 DEF Typed
  <2>3. gone' \subseteq Removable \ DOMAIN counters'
    BY <1>1, <1>2 DEF Typed
  <2> QED
    BY <1>1, <1>2, <1>3, <2>1, <2>2, <2>3 DEF Typed
<1>6. Sampled'
  <2>1. DOMAIN prevDisk \subseteq DOMAIN counters' \cup gone'
    BY <1>1, <1>2 DEF Sampled
  <2>2. DOMAIN first' \cap Disks = DOMAIN prevDisk \cap DOMAIN counters'
    BY <1>2, <1>3 DEF Sampled
  <2>3. \A x \in DOMAIN prevDisk \cap DOMAIN counters' : prevDisk[x] <= counters'[x]
    BY <1>2 DEF Sampled
  <2> QED
    BY <1>1, <1>4, <2>1, <2>2, <2>3 DEF Sampled
<1>7. Networked'
  <2>1. CASE d \in Nics
    BY <1>1, <1>3, <1>4, <2>1 DEF Networked
  <2>2. CASE d \notin Nics
    <3>1. \A x \in There(Nics) : x \in DOMAIN counters' /\ counters[x] <= counters'[x]
      BY <1>2, <2>2 DEF There, Typed, Partial
    <3>2. {Total, Total'} \subseteq Nat /\ Total <= Total'
      BY <1>2, <3>1, TotalGrows DEF Typed
    <3>3. prevNet # Null => prevNet \in Nat
      BY DEF Typed
    <3>4. PICK a \in Nat, b \in Nat : a = Total /\ b = Total' /\ a <= b
      BY <3>2
    <3>5. prevNet' # Null /\ ~left' => prevNet' <= b
      <4>1. ~left' => ~left
        BY <1>1
      <4>2. prevNet # Null /\ ~left => prevNet <= a
        BY <3>4 DEF Networked
      <4>3. prevNet # Null /\ ~left' => prevNet <= b
        BY <3>3, <3>4, <4>1, <4>2
      <4> QED
        BY <1>1, <4>3
    <3>6. prevNet' # Null <=> "net" \in DOMAIN first'
      BY <1>1, <1>3, <1>4 DEF Networked
    <3> QED
      BY <1>1, <3>4, <3>5, <3>6 DEF Networked
  <2> QED
    BY <2>1, <2>2
<1>8. ASSUME NEW x \in Items
      PROVE  /\ x \notin DOMAIN first' => told'[x] = 0 /\ x \notin DOMAIN rates'
             /\ x \in DOMAIN first' \ spoiled' => told'[x] + Pending(x)' = Last(x)' - first'[x]
             /\ x \in DOMAIN first' \ {"net"} => told'[x] + Pending(x)' <= Last(x)' - first'[x]
  <2>1. Pending(x)' = Pending(x) /\ Last(x)' = Last(x) /\ x \notin DOMAIN rates'
    BY <1>1, <1>4 DEF Pending, Last
  <2>2. CASE x = d
    BY <1>1, <1>3, <1>8, <2>1, <2>2
  <2>3. CASE x # d
    <3>1. /\ told'[x] = told[x]
          /\ x \in DOMAIN first' <=> x \in DOMAIN first
          /\ x \in DOMAIN first => first'[x] = first[x]
          /\ x \in spoiled' <=> x \in spoiled
      BY <1>1, <1>3, <1>8, <2>3
    <3> QED
      BY <2>1, <3>1 DEF Balanced
  <2> QED
    BY <2>2, <2>3
<1>9. Balanced'
  BY <1>8 DEF Balanced, Items
<1> QED
  BY <1>5, <1>6, <1>7, <1>9

\* A device that comes starts at zero, and was not remembered.
LEMMA AfterPlug ==
  ASSUME Typed, Sampled, Networked, Balanced, NEW d \in Removable, Plug(d)
  PROVE  Typed' /\ Sampled' /\ Networked' /\ Balanced'
<1> USE MetricAssumption
<1>1. /\ stage = "wait" /\ d \notin DOMAIN counters /\ d \notin gone /\ d \in Disks \cup Nics
      /\ counters' = [x \in DOMAIN counters \cup {d} |-> IF x = d THEN 0 ELSE counters[x]]
      /\ UNCHANGED <<stage, prevDisk, prevNet, first, told, spoiled, gone, unplugged, left, rates>>
  BY DEF Plug, readings, sums
<1>2. /\ Partial(counters', Disks \cup Nics, Nat)
      /\ DOMAIN counters' = DOMAIN counters \cup {d}
      /\ \A x \in DOMAIN counters : counters'[x] = counters[x]
  BY <1>1 DEF Typed, Partial
<1>3. Typed'
  BY <1>1, <1>2 DEF Typed, Partial
<1>4. Sampled'
  <2>1. d \notin DOMAIN prevDisk
    BY <1>1 DEF Sampled
  <2>2. DOMAIN prevDisk \cap DOMAIN counters' = DOMAIN prevDisk \cap DOMAIN counters
    BY <1>2, <2>1
  <2> QED
    BY <1>1, <1>2, <2>2 DEF Sampled
<1>5. Networked'
  <2>1. \A x \in There(Nics) : x \in DOMAIN counters' /\ counters[x] <= counters'[x]
    BY <1>2 DEF There, Typed, Partial
  <2>2. {Total, Total'} \subseteq Nat /\ Total <= Total'
    BY <1>2, <2>1, TotalGrows DEF Typed
  <2>3. prevNet # Null => prevNet \in Nat
    BY DEF Typed
  <2> QED
    BY <1>1, <2>2, <2>3 DEF Networked
<1>6. Balanced'
  BY <1>1 DEF Balanced, Pending, Last, Items
<1> QED
  BY <1>3, <1>4, <1>5, <1>6

\* Every step keeps the balance.
LEMMA AfterStep ==
  ASSUME Typed, Sampled, Networked, Balanced, [CycleNext]_cycleVars
  PROVE  Typed' /\ Sampled' /\ Networked' /\ Balanced'
<1>1. CASE RunAll
  BY <1>1, AfterQuiet DEF RunAll, Quiet, readings, sums, devices
<1>2. CASE Wait
  BY <1>2, AfterQuiet DEF Wait, Goto, Quiet, readings, sums, devices
<1>3. CASE ReloadPlugins
  BY <1>3, AfterQuiet DEF ReloadPlugins, Quiet, readings, sums, devices
<1>4. CASE UNCHANGED cycleVars
  BY <1>4, AfterQuiet DEF cycleVars, Quiet, readings, sums, devices
<1>5. CASE \E d \in Removable : Unplug(d) \/ Plug(d)
  BY <1>5, AfterUnplug, AfterPlug
<1> QED
  BY <1>1, <1>2, <1>3, <1>4, <1>5, AfterDisks, AfterNetwork, AfterSend, AfterRaise,
     Abandons DEF CycleNext

\* The disks are read an interval apart, and run_all() has its place in a cycle.
Timed ==
  /\ readAt \in 0 .. clock \cup {Null}
  /\ readAt # Null /\ stage = "disks" => readAt + MetricInterval <= clock
  /\ running => stage = "plugins"

\* Every step keeps the readings an interval apart.
LEMMA TimedStep ==
  ASSUME TypeOK, Timed, [CycleNext]_cycleVars
  PROVE  Timed'
<1> USE DEF Timed
<1>1. clock \in Nat /\ MetricInterval \in Nat /\ Null \notin Int
  BY MetricAssumption DEF TypeOK
<1>2. PluginStep
  BY <1>1, CycleSteps
<1>3. clock' \in Nat /\ clock <= clock'
  <2>1. ASSUME NEW n \in Names, Run(n)
        PROVE  clock' \in Nat /\ clock <= clock'
    BY <1>1, <2>1, PluginAssumption DEF Run
  <2>2. CASE Cycle
    BY <1>1, <2>2, PluginAssumption DEF Cycle
  <2> QED
    BY <1>1, <1>2, <2>1, <2>2 DEF PluginStep, Return, Reload, Serve, TurnRaises, Lapse
<1>4. PICK now \in Nat : now = clock' /\ clock <= now
  BY <1>3
<1>5. CASE ReadDisks
  <2>1. stage = "disks" /\ stage' = "network" /\ readAt' = now /\ running' = running
    BY <1>4, <1>5 DEF ReadDisks, Goto, plugins
  <2> QED
    BY <1>4, <2>1
<1>6. CASE readAt' = readAt /\ ~(stage' = "disks" /\ stage # "disks")
  <2>1. readAt' \in 0 .. clock' \cup {Null}
    BY <1>1, <1>4, <1>6
  <2>2. readAt' # Null /\ stage' = "disks" => readAt' + MetricInterval <= clock'
    BY <1>1, <1>4, <1>6
  <2>3. running' => stage' = "plugins"
    <3>1. CASE RunAll
      BY <3>1 DEF RunAll, Cycle, Return, Serve, Run, Turn
    <3>2. CASE RunAllRaises
      BY <3>2 DEF RunAllRaises, TurnRaises
    <3>3. CASE ~RunAll /\ ~RunAllRaises /\ CycleNext
      BY <1>5, <1>6, <3>3 DEF CycleNext, ReadNetwork, Send, Raise, Wait, ReloadPlugins, Reload,
           Unplug, Plug, Goto, plugins, vars, ReadDisks
    <3>4. CASE UNCHANGED cycleVars
      BY <3>4 DEF cycleVars, vars
    <3> QED
      BY <3>1, <3>2, <3>3, <3>4
  <2> QED
    BY <2>1, <2>2, <2>3
<1>7. CASE Wait
  <2>1. stage = "wait" /\ stage' = "disks" /\ now = clock + MetricInterval
        /\ readAt' = readAt /\ running' = running
    BY <1>4, <1>7 DEF Wait, Goto, readings, plugins
  <2> QED
    BY <1>1, <1>4, <2>1
<1> QED
  BY <1>5, <1>6, <1>7 DEF CycleNext, RunAll, RunAllRaises, Abandon, ReadNetwork, Send, Raise, ReloadPlugins, Unplug, Plug,
     Goto, readings, cycleVars

CycleInv == PluginInv /\ Typed /\ Sampled /\ Networked /\ Balanced /\ Timed

\* The first cycle starts with nothing read or told.
LEMMA CycleInvInit == CycleInit => CycleInv
<1> SUFFICES ASSUME CycleInit PROVE CycleInv
  OBVIOUS
<1> USE MetricAssumption
<1>1. PluginInv /\ clock \in Nat
  BY PluginTypingInit, RemembersInit DEF PluginInv, TypeOK
<1>2. /\ stage = "disks" /\ counters = [d \in Disks \cup Nics |-> 0]
      /\ prevDisk = <<>> /\ prevNet = Null /\ rates = <<>> /\ gone = {} /\ unplugged = 0
      /\ told = [x \in Items |-> 0] /\ first = <<>> /\ spoiled = {} /\ left = FALSE
      /\ readAt = Null /\ running = FALSE
  BY DEF CycleInit, None, Init
<1>3. DOMAIN prevDisk = {} /\ DOMAIN rates = {} /\ DOMAIN first = {} /\ rates = None
  BY <1>2 DEF None
<1>4. \A T : Partial(<<>>, Disks, T) /\ Partial(<<>>, Items, T)
  BY DEF Partial
<1>5. Typed
  <2>1. Partial(counters, Disks \cup Nics, Nat) /\ told \in [Items -> Int]
    BY <1>2 DEF Partial
  <2>2. Partial(prevDisk, Disks, Nat) /\ Partial(rates, Items, Int) /\ Partial(first, Items, Nat)
    BY <1>2, <1>4
  <2>3. 0 \in 0 .. MaxUnplugged
    OBVIOUS
  <2> QED
    BY <1>2, <2>1, <2>2, <2>3 DEF Typed
<1>6. Sampled
  BY <1>2, <1>3 DEF Sampled
<1>7. Networked
  BY <1>2, <1>3 DEF Networked
<1>8. Balanced
  BY <1>2, <1>3 DEF Balanced
<1>9. Timed
  BY <1>2 DEF Timed
<1> QED
  BY <1>1, <1>5, <1>6, <1>7, <1>8, <1>9 DEF CycleInv

\* So the inductive invariant is one.
LEMMA CycleInvariance == CycleSpec => []CycleInv
<1>1. CycleInv /\ [CycleNext]_cycleVars /\ PluginInv' => CycleInv'
  BY AfterStep, TimedStep DEF CycleInv, PluginInv
<1> QED
  BY <1>1, CycleInvInit, Remembered, PTL DEF CycleSpec

(* What is read, remembered and told has its type; run_all() has its place. *)
THEOREM CycleTyping == CycleSpec => []CycleTypeOK
<1>1. CycleInv => CycleTypeOK
  BY DEF CycleInv, PluginInv, Typed, Timed, CycleTypeOK
<1> QED
  BY <1>1, CycleInvariance, PTL

(* The rates account for every byte, and none is less than the true one;    *)
(* whatever comes and goes, and whichever readings fail.                   *)
THEOREM AddUp == CycleSpec => RatesAddUp
<1>1. CycleInv => AddsUp
  <2> SUFFICES ASSUME CycleInv, stage \in {"plugins", "send"}, NEW x \in Items
               PROVE  LET sum == told[x] + IF x \in DOMAIN rates THEN rates[x] ELSE 0 IN
                        /\ x \in DOMAIN first \ spoiled => sum = Reading(x) - first[x]
                        /\ x \in DOMAIN first \ {"net"} => sum <= Reading(x) - first[x]
    BY DEF AddsUp
  <2>1. x \in DOMAIN first => Reading(x) = Last(x)
    BY DEF CycleInv, Items, Reading, Last, Sampled, Networked
  <2>2. /\ x \in DOMAIN first \ spoiled => told[x] + Pending(x) = Last(x) - first[x]
        /\ x \in DOMAIN first \ {"net"} => told[x] + Pending(x) <= Last(x) - first[x]
    BY DEF CycleInv, Balanced
  <2> QED
    BY <2>1, <2>2 DEF Pending
<1>2. CycleInv /\ [CycleNext]_cycleVars => [NeverBackwards]_cycleVars
  <2> SUFFICES ASSUME CycleInv, [CycleNext]_cycleVars PROVE NeverBackwards
    OBVIOUS
  <2>1. Typed' /\ Sampled' /\ Networked' /\ Balanced' /\ Typed /\ Networked /\ Sampled
    BY AfterStep DEF CycleInv
  <2>2. \A x \in DOMAIN rates' : rates'[x] < 0 => x = "net"
    BY <2>1 DEF Typed, Sampled, Partial, Items
  <2>3. CASE ReadNetwork /\ prevNet # Null /\ ~left
    <3>1. /\ {Total, Total'} \subseteq Nat /\ Total <= Total'
          /\ rates'["net"] = Total' - prevNet
      BY <2>1, <2>3, NetworkTyped
    <3>2. PICK a \in Nat, b \in Nat, c \in Nat : a = prevNet /\ b = Total /\ c = Total'
      BY <2>1, <2>3, <3>1 DEF Typed
    <3>3. a <= b /\ b <= c /\ rates'["net"] = c - a
      BY <2>1, <2>3, <3>1, <3>2 DEF Networked
    <3>4. ~(rates'["net"] < 0)
      BY <3>3
    <3> QED
      BY <2>2, <3>4 DEF NeverBackwards
  <2>4. CASE ReadNetwork /\ prevNet = Null
    BY <2>2, <2>4 DEF ReadNetwork, NeverBackwards
  <2>5. CASE ReadDisks
    <3>1. "net" \notin DOMAIN rates'
      BY <2>1, <2>5, DisksTyped, MetricAssumption DEF There
    <3> QED
      BY <2>2, <3>1 DEF NeverBackwards
  <2>6. CASE rates' = rates \/ rates' = <<>>
    BY <2>2, <2>6 DEF NeverBackwards
  <2> QED
    BY <2>2, <2>3, <2>4, <2>5, <2>6 DEF CycleNext, RunAll, RunAllRaises, Abandon, Send, Raise, Wait,
       ReloadPlugins, Unplug, Plug, None, cycleVars, NeverBackwards
<1>3. CycleInv /\ [CycleNext]_cycleVars => [NeverUnderstated]_cycleVars
  <2> SUFFICES ASSUME CycleInv, [CycleNext]_cycleVars, readAt # Null, readAt' # readAt
               PROVE  readAt' - readAt >= MetricInterval
    BY DEF NeverUnderstated
  <2>1. ReadDisks
    BY DEF CycleNext, RunAll, RunAllRaises, Abandon, ReadNetwork, Send, Raise, Wait, ReloadPlugins, Unplug, Plug,
       readings, cycleVars
  <2>2. PICK d \in 0 .. CollectTime : readAt' = clock + d
    BY <2>1 DEF ReadDisks, Takes
  <2>3. clock \in Nat /\ readAt \in Nat /\ readAt + MetricInterval <= clock
        /\ MetricInterval \in Nat /\ CollectTime \in Nat
    BY <2>1, MetricAssumption DEF ReadDisks, Goto, CycleInv, PluginInv, TypeOK, Timed
  <2>4. PICK before \in Nat, i \in Nat, now \in Nat : before = readAt /\ i = MetricInterval /\ now = clock
    BY <2>3
  <2>5. d \in Nat /\ before + i <= now /\ readAt' - readAt = (now + d) - before
    BY <2>2, <2>3, <2>4
  <2>6. (now + d) - before >= i
    BY <2>4, <2>5
  <2> QED
    BY <2>4, <2>5, <2>6
<1>4. CycleSpec => []AddsUp
  BY <1>1, CycleInvariance, PTL
<1>5. AddsUp' /\ [NeverBackwards]_cycleVars /\ [NeverUnderstated]_cycleVars =>
        [AddsUp' /\ NeverBackwards /\ NeverUnderstated]_cycleVars
  OBVIOUS
<1> QED
  BY <1>2, <1>3, <1>4, <1>5, CycleInvariance, PTL DEF CycleSpec, RatesAddUp

===============================================================================
