--------------------------- MODULE LifecycleProofs ---------------------------
(***************************************************************************)
(* ModuleManager implements Lifecycle, for every set of modules, every     *)
(* configuration and every choice of failures.                             *)
(*                                                                         *)
(* The mapping sees running_modules as a set, and no stack.  A leaf that   *)
(* is listed before and after a step could only break the promise by       *)
(* getting effects in it; one that leaves the list, only by keeping some,  *)
(* which EffectsAreTracked excludes.                                       *)
(***************************************************************************)
EXTENDS ModuleManagerProofs

\* A leaf gets effects only by a start() or a reconfiguration, and both choose
\* modules that are not listed (module.py:153-167, module.py:198-203).
LEMMA EffectsAtStart ==
  ASSUME TypeOK, [Next]_vars, NEW m \in Leaf, m \in inForce', m \notin inForce
  PROVE  m \notin Range(running)
<1>k. Leaf \cap Session = {}
  BY KindsAssumption DEF Nesting
<1>1. CASE Reconfigure
  <2>1. PICK p \in Replaceable(Reconfigurable) :
          inForce' = (inForce \ {p[1]}) \cup {p[2]}
    BY <1>1 DEF Reconfigure
  <2>2. p[2] \notin Range(running)
    BY DEF Replaceable
  <2> QED  BY <2>1, <2>2
<1>2. ASSUME NEW n \in wanted, StartLeaf(n) \/ StartFails(n)
      PROVE  m \notin Range(running)
  <2>1. n \notin Range(running)
    BY <1>2 DEF StartLeaf, StartFails, ToStart
  <2>2. inForce' \subseteq inForce \cup {n}
    BY <1>2 DEF StartLeaf, StartFails
  <2> QED  BY <2>1, <2>2
<1>3. ASSUME NEW n \in wanted, StartNesting(n)
      PROVE  FALSE
  <2>1. inForce' \subseteq inForce \cup Session
    BY <1>3 DEF StartNesting
  <2> QED  BY <1>k, <2>1
<1>4. ASSUME NEW i \in DOMAIN running,
             \/ StopLeaf(i) \/ StopLeafFails(i)
             \/ StopNesting(i) \/ StopLauncherAgain(i)
      PROVE  FALSE
  BY <1>4 DEF StopLeaf, StopLeafFails, StopNesting, StopLauncherAgain
<1>5. CASE \/ ReconfigureRaises \/ StartReturns \/ StartRaises \/ StopReturns
           \/ StopRaises \/ Finish \/ AttachFails \/ TaskEnds
  BY <1>5 DEF ReconfigureRaises, StartReturns, StartRaises, StopReturns,
              StopRaises, Finish, AttachFails, TaskEnds
<1>6. CASE Environment
  BY <1>6 DEF Environment, Event, LockCommand, Unlock, Attach, Detach,
              Shutdown, Flip
<1>7. CASE UNCHANGED vars
  BY <1>7 DEF vars
<1> QED
  BY <1>1, <1>2, <1>3, <1>4, <1>5, <1>6, <1>7 DEF Next, MainThread

\* Nothing is listed at first, and nothing in force.
LEMMA LifeInit == Init => Life!Init
<1> SUFFICES ASSUME Init PROVE Life!Init
  OBVIOUS
<1>1. running = <<>> /\ inForce = {}
  BY DEF Init
<1>2. Range(running) = {}
  BY <1>1 DEF Range
<1> QED  BY <1>1, <1>2 DEF Life!Init

\* Every step is a step of each leaf's life.
LEMMA LifeStep ==
  TypeOK /\ EffectsAreTracked /\ [Next]_vars /\ EffectsAreTracked'
    => Life!Next
<1> SUFFICES ASSUME TypeOK, EffectsAreTracked, [Next]_vars,
                    EffectsAreTracked', NEW m \in Leaf
             PROVE  \/ Life!Start(m) \/ Life!Stop(m)
                    \/ Life!StopFails(m) \/ Life!Rests(m)
  BY DEF Life!Next
<1>1. /\ m \in inForce => m \in Range(running)
      /\ m \in inForce' => m \in Range(running)'
  BY DEF EffectsAreTracked
<1>2. m \in inForce' /\ m \notin inForce => m \notin Range(running)
  BY EffectsAtStart
<1>3. CASE m \notin Range(running) /\ m \in Range(running)'
  BY <1>3 DEF Life!Start
<1>4. CASE m \notin Range(running) /\ m \notin Range(running)'
  BY <1>1, <1>4 DEF Life!Rests
<1>5. CASE m \in Range(running) /\ m \notin Range(running)'
  BY <1>1, <1>5 DEF Life!Stop
<1>6. CASE m \in Range(running) /\ m \in Range(running)'
  BY <1>2, <1>6 DEF Life!StopFails, Life!Rests
<1> QED  BY <1>3, <1>4, <1>5, <1>6

\* However updates nest and whatever raises, each leaf module is started only
\* while it is not tracked, tracked from then on even if start() has raised,
\* and untracked only without effects (module.py:21-33).
THEOREM Implements == Spec => LeavesLive
<1>1. Spec => [](TypeOK /\ EffectsAreTracked)
  BY TypeCorrect, Tracked, PTL
<1>2. TypeOK /\ EffectsAreTracked /\ [Next]_vars /\ EffectsAreTracked'
        => [Life!Next]_Life!vars
  BY LifeStep
<1> QED  BY <1>1, <1>2, LifeInit, PTL DEF Spec, LeavesLive, Life!Spec
=============================================================================
