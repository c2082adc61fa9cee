------------------------------- MODULE Lifecycle -------------------------------
(***************************************************************************)
(* What module.py promises to, and demands of, each module (the comments   *)
(* on Module.start and Module.stop, src/blankie/module.py:21-33).          *)
(***************************************************************************)
CONSTANT Module

VARIABLES
  tracked,  \* the modules in running_modules
  on        \* the modules with effects, maybe partial ones

vars == <<tracked, on>>

TypeOK == tracked \subseteq Module /\ on \subseteq tracked

Init == tracked = {} /\ on = {}

\* start() is only called for a module that is not tracked.  If it raises,
\* the module is tracked all the same, whatever of its effects is in force.
Start(m) == m \notin tracked /\ m \in tracked'

\* stop() has succeeded, and left no effects.
Stop(m) == m \in tracked /\ m \notin tracked' /\ m \notin on'

\* stop() has raised, perhaps after undoing the effects; it will be retried.
StopFails(m) == m \in tracked /\ m \in tracked' /\ m \notin on'

Rests(m) == (m \in tracked <=> m \in tracked') /\ (m \in on <=> m \in on')

\* A reconfiguration stops one module and starts another in one step.
Next == \A m \in Module : Start(m) \/ Stop(m) \/ StopFails(m) \/ Rests(m)

Spec == Init /\ [][Next]_vars
=============================================================================
