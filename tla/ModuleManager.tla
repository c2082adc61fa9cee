---------------------------- MODULE ModuleManager ----------------------------
(***************************************************************************)
(* The module machinery of Blankie (src/blankie/module.py), with the       *)
(* module classes that call back into it: sessions and per-session         *)
(* launchers (session.py), and the lock module (modules/lock.py with       *)
(* lock() and unlock() of __init__.py).                                    *)
(*                                                                         *)
(* update() computes the modules wanted in the present circumstances and   *)
(* starts and stops modules, one at a time, until the running ones match.  *)
(* It runs on the main thread only, but it is re-entrant: starting or      *)
(* stopping a session, a launcher or the lock module calls update() again. *)
(* The nested calls are modelled by an explicit stack of activations of    *)
(* start_stop_modules; every action is what the main thread does between   *)
(* two calls or returns of update().  An import or a constructor that      *)
(* raises inside update() is not modelled, an evaluation that raises is.   *)
(*                                                                         *)
(* The order in which the selectors list the wanted modules is abstracted: *)
(* wanted is a set, and any start order is allowed in which dependencies   *)
(* come first.  The order of running_modules, which decides the order of   *)
(* stopping, is kept.                                                      *)
(***************************************************************************)
EXTENDS Naturals, FiniteSets, SequencesExt

CONSTANTS
  Plain,           \* modules whose start() and stop() do not call update()
  Session,         \* session modules
  Launcher,        \* PerSessionModuleLauncher modules
  Lock,            \* the lock module
  PerSession,      \* <<launcher, session>>: the modules launchers request
  Requires,        \* modules to their dependencies, transitively
  Core,            \* what core_selector requests
  Config,          \* Config[idle, locked]: what the user's config requests
  Reconfigurable,  \* <<old, new>>: reconfigure() returns True
  Misfit           \* <<old, new>>: reconfigure() raises

CONSTANTS          \* what may go wrong, and how often
  MayFailStart,    \* modules whose start() may raise
  MayFailStop,     \* modules whose stop() may raise
  ConfigMayRaise,  \* whether evaluating the configuration may raise
  MaxFailures,     \* bound: failures in a behaviour
  MaxFlips         \* bound: changes of the circumstances during one task

Leaf == Plain \cup PerSession
Nesting == Session \cup Launcher \cup {Lock}
ModuleSpec == Leaf \cup Nesting

ASSUME KindsAssumption ==
  /\ PerSession \subseteq Launcher \X Session
  /\ Leaf \cap Nesting = {}
  /\ Session \cap Launcher = {}
  /\ Lock \notin Session \cup Launcher
  /\ Plain \cap PerSession = {}

ASSUME SelectionAssumption ==
  /\ Requires \in [ModuleSpec -> SUBSET Plain]
  /\ \A m \in ModuleSpec :
       /\ m \notin Requires[m]
       /\ \A d \in Requires[m] : Requires[d] \subseteq Requires[m]
  /\ Core \subseteq Plain \cup Launcher
  /\ Config \in [BOOLEAN \X BOOLEAN -> SUBSET (Plain \cup Launcher \cup {Lock})]
  /\ Reconfigurable \subseteq Leaf \X Leaf
  /\ Misfit \subseteq Leaf \X Leaf

ASSUME FailureAssumption ==
  /\ MayFailStart \subseteq Leaf \cup Session
  /\ MayFailStop \subseteq Leaf
  /\ ConfigMayRaise \in BOOLEAN
  /\ MaxFailures \in Nat
  /\ MaxFlips \in Nat

VARIABLES
  wanted,        \* wanted_modules, of the last update()
  running,       \* running_modules, in start order
  inForce,       \* leaf and session modules with effects, maybe partial ones
  selectors,     \* launchers whose selector is registered
  sessionSpecs,  \* session_specs
  locked,        \* state.locked
  lockLoaded,    \* lock.py was imported: the 50-lock selector is registered
  shuttingDown,  \* the 95-shutdown selector is registered
  idle,          \* whether the idle time has passed an on_idle threshold
  fresh,         \* no change of idle since the config was last evaluated
  stack,         \* activations of start_stop_modules, above the event task
  raising,       \* an exception is propagating to the activation on top
  failures,      \* failures so far (history, for the bound)
  faulted,       \* something failed during the present task
  flips,         \* changes of idle during this task (history, for the bound)
  steady,        \* so far the configuration has not raised, nor come to
                 \* request other launchers, or the lock, in the middle of
                 \* a task because of the time (history)
  outcome        \* how the last task ended: ok, fault (something failed
                 \* in it), or error (an exception without any new failure)

selection == <<selectors, sessionSpecs, locked, shuttingDown>>
world == <<idle, fresh, flips>>
faults == <<failures, faulted, steady>>
vars == <<wanted, running, inForce, selection, lockLoaded, world, stack,
          raising, faults, outcome>>

(***************************************************************************)
(* The stack.  An activation is in its loop ("loop"), or inside the        *)
(* start() or stop() of a module that has called update().  The bottom     *)
(* frame is the event task: "attach" has an exception handler, "undo" is   *)
(* what that handler runs.                                                 *)
(***************************************************************************)
Frame == [op : {"task", "attach", "undo", "loop", "start", "stop"},
          mod : ModuleSpec, at : Nat \ {0}, errors : SUBSET ModuleSpec]

Task(op, m) == [op |-> op, mod |-> m, at |-> 1, errors |-> {}]
Loop(errors) == [op |-> "loop", mod |-> Lock, at |-> 1, errors |-> errors]

Top == stack[Len(stack)]
Below == SubSeq(stack, 1, Len(stack) - 1)
WithTop(frame) == [stack EXCEPT ![Len(stack)] = frame]
\* Mutated: the index is one too low.
CallingFromZero(op, m, i) ==
  [op |-> op, mod |-> m, at |-> i - 1, errors |-> Top.errors]
Calling(op, m, i) == [op |-> op, mod |-> m, at |-> i, errors |-> Top.errors]

StoppingIn(st) == {st[k].mod : k \in {k \in DOMAIN st : st[k].op = "stop"}}
Stopping == StoppingIn(stack)

(***************************************************************************)
(* update(): run the selectors, in the state the caller leaves, then enter *)
(* a new activation.  When the configuration raises, wanted_modules is     *)
(* left as far as it was built, which is what the core selector listed     *)
(* before it, and the exception goes to the caller.                        *)
(***************************************************************************)
WithDependencies(S) == S \cup UNION {Requires[m] : m \in S}

\* Mutated: the lock selector is missing.
LockUnselected == {}
LockSelected == IF lockLoaded /\ locked THEN {Lock} ELSE {}

\* Configurator.selector: the configuration looks at the clock and the lock.
ConfigSelected == Config[idle, locked]

\* per_session_selector, of every launcher
Launched ==
  {c \in PerSession : c[1] \in selectors /\ c[2] \in Range(running)}

Requested ==
  Core \cup ConfigSelected \cup sessionSpecs \cup Launched \cup LockSelected

Selected == IF shuttingDown THEN {} ELSE WithDependencies(Requested)

\* A failure is possible, and is counted.
Fail ==
  /\ failures < MaxFailures
  /\ failures' = failures + 1
  /\ faulted' = TRUE

\* Mutated: only the outermost update() runs the selectors.
UpdateOnce(frames) ==
  /\ lockLoaded' = (lockLoaded \/ Lock \in ConfigSelected')
  /\ wanted' = IF Len(frames) = 1 THEN Selected' ELSE wanted
  /\ stack' = Append(frames, Loop({}))
  /\ raising' = FALSE
  /\ fresh' = TRUE
  /\ UNCHANGED faults

Update(frames) ==
  \/ /\ lockLoaded' =
          (lockLoaded \/ (~shuttingDown' /\ Lock \in ConfigSelected'))
     /\ wanted' = Selected'
     /\ stack' = Append(frames, Loop({}))
     /\ raising' = FALSE
     /\ fresh' = TRUE
     /\ UNCHANGED faults
  \/ /\ ConfigMayRaise
     /\ Fail
     /\ steady' = FALSE
     /\ wanted' = Core
     /\ stack' = frames
     /\ raising' = TRUE
     /\ UNCHANGED <<lockLoaded, fresh>>
-----------------------------------------------------------------------------
(***************************************************************************)
(* do_one_module(), in the activation on top of the stack.                 *)
(***************************************************************************)
InLoop == stack # <<>> /\ ~raising /\ Top.op = "loop"

\* 1. Reconfiguration: old runs and is not wanted, new is the reverse.
Replaceable(pairs) ==
  {p \in pairs : /\ p[1] \in Range(running) \ wanted
                 /\ p[2] \in wanted \ Range(running)}

Reconfigure ==
  /\ InLoop
  /\ \E p \in Replaceable(Reconfigurable), i \in DOMAIN running :
       /\ running[i] = p[1]
       /\ running' = [running EXCEPT ![i] = p[2]]
       /\ inForce' = (inForce \ {p[1]}) \cup {p[2]}
  /\ UNCHANGED <<wanted, selection, lockLoaded, world, stack, raising, faults,
                 outcome>>

ReconfigureRaises ==
  /\ InLoop
  /\ Replaceable(Misfit) # {}
  /\ stack' = Below
  /\ raising' = TRUE
  /\ UNCHANGED <<wanted, running, inForce, selection, lockLoaded, world,
                 faults, outcome>>

\* 2. Stopping, in reverse order of starting.
\* Mutated: modules that failed to stop are tried again at once.
UnwantedAgain == {i \in DOMAIN running : running[i] \notin wanted}
Unwanted ==
  {i \in DOMAIN running : running[i] \notin wanted \cup Top.errors}

\* Mutated: in the order of starting.
ToStopForward(i) ==
  /\ InLoop
  /\ Replaceable(Reconfigurable \cup Misfit) = {}
  /\ i \in Unwanted
  /\ \A j \in Unwanted : j >= i

ToStop(i) ==
  /\ InLoop
  /\ Replaceable(Reconfigurable \cup Misfit) = {}
  /\ i \in Unwanted
  /\ \A j \in Unwanted : j <= i

\* Mutated: the module stays on the list while it is being stopped.
OffListAfter(i) == running
OffList(i) == RemoveAt(running, i)

\* The caller of stop() puts the module back and remembers the error.
StopFailed(m) ==
  /\ stack' = WithTop(Loop(Top.errors \cup {m}))
  /\ raising' = FALSE

StopLeaf(i) ==
  /\ ToStop(i)
  /\ running[i] \in Leaf
  /\ running' = OffList(i)
  /\ inForce' = inForce \ {running[i]}
  /\ UNCHANGED <<wanted, selection, lockLoaded, world, stack, raising, faults,
                 outcome>>

StopLeafFails(i) ==
  /\ ToStop(i)
  /\ running[i] \in MayFailStop
  /\ Fail
  /\ inForce' \in {inForce, inForce \ {running[i]}}
  /\ StopFailed(running[i])
  /\ UNCHANGED <<wanted, running, selection, lockLoaded, world, steady, outcome>>

\* Session.stop, PerSessionModuleLauncher.stop, LockModule.stop
StopNesting(i) ==
  LET m == running[i] IN
  /\ ToStop(i)
  /\ m \in Nesting
  /\ m \in Launcher => m \in selectors
  /\ running' = OffList(i)
  /\ selectors' = selectors \ {m}
  /\ locked' = (locked /\ m # Lock)
  /\ UNCHANGED <<sessionSpecs, shuttingDown, inForce, idle, flips, outcome>>
  /\ Update(WithTop(Calling("stop", m, i)))

\* Mutated: del selectors[key] is taken for the end of a successful stop.
StopLauncherForgets(i) ==
  /\ ToStop(i)
  /\ running[i] \in Launcher \ selectors
  /\ running' = OffList(i)
  /\ StopFailed(running[i])
  /\ UNCHANGED <<wanted, inForce, selection, lockLoaded, world, faults, outcome>>

\* del selectors[key] raises KeyError: the selector is not registered.
StopLauncherAgain(i) ==
  /\ ToStop(i)
  /\ running[i] \in Launcher \ selectors
  /\ StopFailed(running[i])
  /\ UNCHANGED <<wanted, running, inForce, selection, lockLoaded, world,
                 faults, outcome>>

\* 3. Starting.
\* Mutated: what has effects, not what is listed, is taken for running.
ToStartIneffective(m) ==
  /\ InLoop
  /\ Replaceable(Reconfigurable \cup Misfit) = {}
  /\ Unwanted = {}
  /\ m \in wanted
  /\ m \in Range(running) => m \in Leaf \ inForce
  /\ Requires[m] \cap wanted \subseteq Range(running)

ToStart(m) ==
  /\ InLoop
  /\ Replaceable(Reconfigurable \cup Misfit) = {}
  /\ Unwanted = {}
  /\ m \in wanted \ Range(running)
  /\ Requires[m] \cap wanted \subseteq Range(running)

StartLeaf(m) ==
  /\ ToStart(m)
  /\ m \in Leaf
  /\ running' = Append(running, m)
  /\ inForce' = inForce \cup {m}
  /\ UNCHANGED <<wanted, selection, lockLoaded, world, stack, raising, faults,
                 outcome>>

StartFails(m) ==
  /\ ToStart(m)
  /\ m \in MayFailStart
  /\ Fail
  /\ running' = Append(running, m)
  /\ inForce' \in {inForce, inForce \cup ({m} \cap Leaf)}
  /\ stack' = Below
  /\ raising' = TRUE
  /\ UNCHANGED <<wanted, selection, lockLoaded, world, steady, outcome>>

\* Session.start, PerSessionModuleLauncher.start, LockModule.start
StartNesting(m) ==
  /\ ToStart(m)
  /\ m \in Nesting
  /\ running' = Append(running, m)
  /\ selectors' = selectors \cup ({m} \cap Launcher)
  /\ inForce' = inForce \cup ({m} \cap Session)
  /\ locked' = (locked \/ m = Lock)
  /\ UNCHANGED <<sessionSpecs, shuttingDown, idle, flips, outcome>>
  /\ Update(WithTop(Calling("start", m, 1)))

\* There is no more work to do: return, or report the failed stops.
Finish ==
  /\ InLoop
  /\ Replaceable(Reconfigurable \cup Misfit) = {}
  /\ Unwanted = {}
  /\ wanted \subseteq Range(running)
  /\ stack' = Below
  /\ raising' = (Top.errors # {})
  /\ UNCHANGED <<wanted, running, inForce, selection, lockLoaded, world,
                 faults, outcome>>
-----------------------------------------------------------------------------
(***************************************************************************)
(* The nested update() has returned, or raised, into start() or stop().    *)
(***************************************************************************)
InCall(op) == stack # <<>> /\ Top.op = op

MoveToEnd(m) ==
  IF m \in wanted /\ m \in Range(running)
  THEN Append(RemoveFirst(running, m), m) ELSE running

\* The module just started goes to the end, behind its dependents.
StartReturns ==
  /\ InCall("start")
  /\ ~raising
  /\ running' = MoveToEnd(Top.mod)
  /\ stack' = WithTop(Loop(Top.errors))
  /\ UNCHANGED <<wanted, inForce, selection, lockLoaded, world, raising,
                 faults, outcome>>

StartRaises ==
  /\ InCall("start")
  /\ raising
  /\ stack' = Below
  /\ UNCHANGED <<wanted, running, inForce, selection, lockLoaded, world,
                 raising, faults, outcome>>

\* A session releases what it holds after its own nested update.
StopReturns ==
  /\ InCall("stop")
  /\ ~raising
  /\ inForce' = inForce \ ({Top.mod} \cap Session)
  /\ stack' = WithTop(Loop(Top.errors))
  /\ UNCHANGED <<wanted, running, selection, lockLoaded, world,
                 raising, faults, outcome>>

\* Mutated: a module that failed to stop is forgotten.
PutBackNever(i, m) == running
PutBack(i, m) ==
  InsertAt(running, IF i <= Len(running) THEN i ELSE Len(running) + 1, m)

StopRaises ==
  /\ InCall("stop")
  /\ raising
  /\ running' = PutBack(Top.at, Top.mod)
  /\ StopFailed(Top.mod)
  /\ UNCHANGED <<wanted, inForce, selection, lockLoaded, world, faults,
                 outcome>>
-----------------------------------------------------------------------------
(***************************************************************************)
(* The tasks of the event loop, which runs one at a time.                  *)
(***************************************************************************)
BeginTask == stack = <<>>

\* An event (idle, unidle, power, timer, reload) that calls update().
Event ==
  /\ BeginTask
  /\ UNCHANGED <<running, inForce, selection, idle, flips, outcome>>
  /\ Update(<<Task("task", Lock)>>)

\* The lock command, or a remote instance's; ignored when already locked.
LockCommand ==
  /\ BeginTask
  /\ ~locked
  /\ locked' = TRUE
  /\ UNCHANGED <<running, inForce, selectors, sessionSpecs, shuttingDown, idle,
                 flips, outcome>>
  /\ Update(<<Task("task", Lock)>>)

\* The unlock command, or the exit of a screen locker.
Unlock ==
  /\ BeginTask
  /\ locked' = FALSE
  /\ UNCHANGED <<running, inForce, selectors, sessionSpecs, shuttingDown, idle,
                 flips, outcome>>
  /\ Update(<<Task("task", Lock)>>)

Attach(s) ==
  /\ BeginTask
  /\ s \notin sessionSpecs
  /\ sessionSpecs' = sessionSpecs \cup {s}
  /\ UNCHANGED <<running, inForce, selectors, locked, shuttingDown, idle,
                 flips, outcome>>
  /\ Update(<<Task("attach", s)>>)

\* The update of attach() raised: detach again, and re-raise.
AttachFails ==
  /\ InCall("attach")
  /\ raising
  /\ sessionSpecs' = sessionSpecs \ {Top.mod}
  /\ UNCHANGED <<running, inForce, selectors, locked, shuttingDown, idle,
                 flips, outcome>>
  /\ Update(WithTop(Task("undo", Top.mod)))

Detach(s) ==
  /\ BeginTask
  /\ s \in sessionSpecs
  /\ sessionSpecs' = sessionSpecs \ {s}
  /\ UNCHANGED <<running, inForce, selectors, locked, shuttingDown, idle,
                 flips, outcome>>
  /\ Update(<<Task("task", Lock)>>)

\* shutdown(): register the selector that clears the list, and update.
Shutdown ==
  /\ BeginTask
  /\ shuttingDown' = TRUE
  /\ UNCHANGED <<running, inForce, selectors, sessionSpecs, locked, idle,
                 flips, outcome>>
  /\ Update(<<Task("task", Lock)>>)

\* The event loop survives the failure of a task.
TaskEnds ==
  /\ Len(stack) = 1
  /\ Top.op \in {"task", "undo"} \/ (Top.op = "attach" /\ ~raising)
  /\ stack' = <<>>
  /\ raising' = FALSE
  /\ faulted' = FALSE
  /\ flips' = 0
  /\ outcome' = IF faulted THEN "fault"
                ELSE IF raising \/ Top.op = "undo" THEN "error" ELSE "ok"
  /\ UNCHANGED <<wanted, running, inForce, selection, lockLoaded, idle, fresh,
                 failures, steady>>

\* The configuration requests the launchers and the lock as before.
SameMind == ConfigSelected' \cap Nesting = ConfigSelected \cap Nesting

\* Time passes a threshold, or the user returns.
Flip ==
  /\ stack # <<>> => flips < MaxFlips
  /\ flips' = IF stack = <<>> THEN 0 ELSE flips + 1
  /\ idle' = ~idle
  /\ fresh' = FALSE
  /\ UNCHANGED <<wanted, running, inForce, selection, lockLoaded, stack,
                 raising, failures, faulted, outcome>>
  /\ steady' = (steady /\ (stack # <<>> => SameMind))
-----------------------------------------------------------------------------
\* The first update(), which daemon.start() calls, is the first Event.
Init ==
  /\ wanted = {}
  /\ running = <<>>
  /\ inForce = {}
  /\ selectors = {}
  /\ sessionSpecs = {}
  /\ locked = FALSE
  /\ lockLoaded = FALSE
  /\ shuttingDown = FALSE
  /\ idle = FALSE
  /\ fresh = FALSE
  /\ stack = <<>>
  /\ raising = FALSE
  /\ failures = 0
  /\ faulted = FALSE
  /\ steady = TRUE
  /\ flips = 0
  /\ outcome = "ok"

\* What the main thread does within a task.
MainThread ==
  \/ Reconfigure \/ ReconfigureRaises
  \/ \E i \in DOMAIN running :
       StopLeaf(i) \/ StopLeafFails(i) \/ StopNesting(i) \/ StopLauncherAgain(i)
  \/ \E m \in wanted : StartLeaf(m) \/ StartFails(m) \/ StartNesting(m)
  \/ StartReturns \/ StartRaises \/ StopReturns \/ StopRaises
  \/ Finish \/ AttachFails \/ TaskEnds

Environment ==
  \/ Event \/ LockCommand \/ Unlock \/ Shutdown
  \/ \E s \in Session : Attach(s) \/ Detach(s)
  \/ Flip

Next == MainThread \/ Environment

Spec == Init /\ [][Next]_vars

\* The main thread keeps running the task it is in; events need not come.
FairSpec == Spec /\ WF_vars(MainThread)
-----------------------------------------------------------------------------
TypeOK ==
  /\ wanted \subseteq ModuleSpec
  /\ running \in Seq(ModuleSpec)
  /\ inForce \subseteq Leaf \cup Session
  /\ selectors \subseteq Launcher
  /\ sessionSpecs \subseteq Session
  /\ locked \in BOOLEAN /\ lockLoaded \in BOOLEAN /\ shuttingDown \in BOOLEAN
  /\ idle \in BOOLEAN /\ fresh \in BOOLEAN
  /\ raising \in BOOLEAN /\ faulted \in BOOLEAN /\ steady \in BOOLEAN
  /\ stack \in Seq(Frame)
  /\ failures \in 0..MaxFailures
  /\ flips \in 0..MaxFlips
  /\ outcome \in {"ok", "fault", "error"}

\* The last task has ended, without an exception.
Settled == stack = <<>> /\ outcome = "ok"

\* running_modules over-approximates the modules whose effects are in force:
\* whatever start or stop has failed, the module stays on the list, so that a
\* later update can stop it (module.py:69-73).  A session keeps its device
\* open until the nested update of its stop() returns.
EffectsAreTracked ==
  /\ selectors \cup (inForce \cap Leaf) \subseteq Range(running)
  /\ inForce \cap Session \subseteq Range(running) \cup Stopping

\* When a task has ended without an exception, running_modules is what the
\* selectors would select now, though they were last evaluated by some nested
\* update, with modules not yet started or not yet stopped (module.py:135-138).
UpToDate ==
  Settled /\ fresh => Range(running) = Selected

\* A launcher runs its module in every running session, however the starts and
\* stops of launchers and sessions nest (session.py:82-83).
LaunchersLaunch ==
  Settled => \A c \in PerSession :
               {c[1], c[2]} \subseteq Range(running) => c \in Range(running)

\* A per-session module is in force only while its session is, at least in
\* the middle of its stop(); whatever failed before (session.py:35-39).
SessionOutlivesChildren ==
  \A c \in PerSession \cap inForce : c[2] \in Range(running) \cup Stopping

\* What survives every failure, raising reconfiguration and configuration.
UpToDateAndNested == UpToDate /\ SessionOutlivesChildren

\* What a module depends on is running as long as it is (module.py:205-209).
DependenciesRunning ==
  \A m \in inForce : Requires[m] \subseteq Range(running)

\* No module is listed, and would be stopped, twice, although a module being
\* stopped is off the list while nested updates run (module.py:173-193).
NoDuplicates == IsInjective(running)

\* Each module is stopped once, and before what it depends on
\* (module.py:173-175, module.py:205-209).
ListIsOrdered == NoDuplicates /\ DependenciesRunning

\* The lock is released on request only: no sequence of nested updates stops
\* the lock module while the system is locked (lock.py:20-24).
LockHolds == [][locked /\ ~locked' => stack = <<>> \/ shuttingDown]_vars

\* Launchers on the list that an earlier stop() left without a selector: the
\* nested update raised after the selector was removed (session.py:113-115).
Lost == (Launcher \cap Range(running)) \ selectors

\* A task in which nothing new fails converges whatever failed to start or to
\* stop before, without an exception (module.py:28-31, module.py:135-138): the
\* modules it stops again tolerate it.  Only a launcher that has lost its
\* selector does not, whose stop() raises KeyError ever after (session.py:114).
CleanTaskSucceeds == outcome = "error" => Lost # {}

\* Every update ends, whatever modules fail to stop again and again
\* (module.py:187-191).
UpdatesEnd == []<>(stack = <<>>)

\* A module is off the list while it is being stopped, so that re-entrant
\* updates do not try to stop it again (module.py:173-175), whatever starts and
\* stops fail.  It can be listed again, and stopped again, once a configuration
\* has raised, or has changed its mind about a launcher or the lock in the
\* middle of a task, for the nested update may then want it back.
NoReentrantStop ==
  steady => \A j, k \in DOMAIN stack :
    (stack[j].op = "stop" /\ stack[k].op = "stop" /\ stack[j].mod = stack[k].mod)
      => j = k

\* Each leaf module lives as module.py:21-33 promises: it is started only when
\* it is not tracked, tracked whether start() succeeds or not, and tracked until
\* a stop() succeeds, however updates nest and whatever raises.
Life == INSTANCE Lifecycle WITH Module <- Leaf,
                                tracked <- Range(running) \cap Leaf,
                                on <- inForce \cap Leaf
LeavesLive == Life!Spec
=============================================================================
