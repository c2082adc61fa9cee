------------------------------- MODULE Logind -------------------------------
(***************************************************************************)
(* How Blankie delays suspending (modules/logind.py over modules/dbus.py   *)
(* and modules/glib.py), with systemd-logind at the other end.             *)
(*                                                                         *)
(* The GLib thread receives the PrepareForSleep signals and takes the      *)
(* inhibitor lock; the main thread reconfigures the system and releases    *)
(* the lock.  Both use the attribute inhibitor_lock without a mutex, so    *)
(* each of its reads and writes is a step.  start() and stop() of the      *)
(* module wait while the GLib thread runs setup() and teardown().          *)
(*                                                                         *)
(* logind is modelled by its interface: it sends a signal before sleeping  *)
(* and after waking up, sleeps when no delay lock is held or when its      *)
(* timeout has expired, and refuses a lock while it is about to sleep.     *)
(* Nothing of Blankie runs while the system is asleep.                     *)
(***************************************************************************)
EXTENDS Naturals, Sequences

CONSTANTS
  DelayMayExpire,  \* whether Blankie may take longer than InhibitDelayMaxSec
  UpdateMayRaise,  \* whether module.update() may raise
  MaxSleeps        \* bound: suspends in a behaviour

ASSUME SwitchAssumption ==
  {DelayMayExpire, UpdateMayRaise} \subseteq BOOLEAN
ASSUME SleepAssumption == MaxSleeps \in Nat

VARIABLES
  os,         \* awake, preparing to sleep, or asleep
  expired,    \* it went to sleep because the timeout had expired
  held,       \* how many delay locks it has given Blankie
  sleeps,     \* suspends so far (history, for the bound)
  receiver,   \* handle_sleep_signal is connected
  signals,    \* PrepareForSleep signals on their way to it
  glib,       \* where the GLib thread is
  main,       \* where the main thread is
  up,         \* the logind module is running: setup() has succeeded
  queue,      \* tasks for the main thread: handle_enter_sleep, _exit_sleep
  inhibitor,  \* inhibitor_lock is not None
  sleeping,   \* state.sleeping
  applied,    \* the value of it to which the modules are reconfigured
  raised,     \* the last update() has raised (history)
  rested,     \* the last suspend or resume found Blankie at rest (history)
  delayed     \* the last suspend found its lock held (history)

system == <<os, expired, sleeps, rested, delayed>>
vars == <<system, held, receiver, signals, glib, main, up, queue, inhibitor,
          sleeping, applied, raised>>

Running == os # "asleep"

\* Blankie has handled all that logind has told it.
AtRest == signals = <<>> /\ queue = <<>> /\ glib = "idle" /\ main = "idle"
-----------------------------------------------------------------------------
\* logind and the kernel.
Prepare ==
  /\ os = "awake"
  /\ sleeps < MaxSleeps
  /\ os' = "preparing"
  /\ sleeps' = sleeps + 1
  /\ rested' = AtRest
  /\ delayed' = (held = 1)
  /\ signals' = IF receiver THEN Append(signals, TRUE) ELSE signals
  /\ UNCHANGED <<expired, held, receiver, glib, main, up, queue, inhibitor,
                 sleeping, applied, raised>>

Suspend ==
  /\ os = "preparing"
  /\ held = 0 \/ DelayMayExpire
  /\ os' = "asleep"
  /\ expired' = (held # 0)
  /\ UNCHANGED <<held, sleeps, rested, delayed, receiver, signals, glib, main,
                 up, queue, inhibitor, sleeping, applied, raised>>

Resume ==
  /\ os = "asleep"
  /\ os' = "awake"
  /\ rested' = AtRest
  /\ signals' = IF receiver THEN Append(signals, FALSE) ELSE signals
  /\ UNCHANGED <<expired, held, sleeps, delayed, receiver, glib, main, up,
                 queue, inhibitor, sleeping, applied, raised>>

Refused == os = "preparing"
-----------------------------------------------------------------------------
(***************************************************************************)
(* The GLib thread: handle_sleep_signal, inhibit, setup, teardown.         *)
(***************************************************************************)
\* Mutated: the lock is taken whether it is held or not.
DispatchUnchecked ==
  /\ Running
  /\ glib = "idle"
  /\ signals # <<>>
  /\ signals' = Tail(signals)
  /\ IF Head(signals)
     THEN queue' = Append(queue, "enter") /\ UNCHANGED glib
     ELSE glib' = "inhibit" /\ UNCHANGED queue
  /\ UNCHANGED <<system, held, receiver, main, up, inhibitor, sleeping,
                 applied, raised>>

\* Mutated: the lock is not taken again.
DispatchOnly ==
  /\ Running
  /\ glib = "idle"
  /\ signals # <<>>
  /\ signals' = Tail(signals)
  /\ queue' = Append(queue, IF Head(signals) THEN "enter" ELSE "exit")
  /\ UNCHANGED <<system, held, receiver, glib, main, up, inhibitor, sleeping,
                 applied, raised>>

Dispatch ==
  /\ Running
  /\ glib = "idle"
  /\ signals # <<>>
  /\ signals' = Tail(signals)
  /\ \/ /\ Head(signals)
        /\ queue' = Append(queue, "enter")
        /\ UNCHANGED glib
     \/ /\ ~Head(signals) /\ inhibitor
        /\ queue' = Append(queue, "exit")
        /\ UNCHANGED glib
     \/ /\ ~Head(signals) /\ ~inhibitor
        /\ glib' = "inhibit"
        /\ UNCHANGED queue
  /\ UNCHANGED <<system, held, receiver, main, up, inhibitor, sleeping,
                 applied, raised>>

\* inhibit(): the exception of a refused call ends the handler.
Inhibit ==
  /\ Running
  /\ glib = "inhibit"
  /\ IF Refused THEN glib' = "idle" /\ UNCHANGED held
                ELSE glib' = "take" /\ held' = held + 1
  /\ UNCHANGED <<system, receiver, signals, main, up, queue, inhibitor,
                 sleeping, applied, raised>>

TakeLock ==
  /\ Running
  /\ glib = "take"
  /\ inhibitor' = TRUE
  /\ queue' = Append(queue, "exit")
  /\ glib' = "idle"
  /\ UNCHANGED <<system, held, receiver, signals, main, up, sleeping, applied,
                 raised>>

\* setup(), while start() waits.  A refusal ends the daemon's start, and
\* shutdown() stops the module.
Setup ==
  /\ Running
  /\ glib = "idle"
  /\ main = "starting"
  /\ receiver' = TRUE
  /\ IF Refused
     THEN main' = "stopping" /\ UNCHANGED <<held, inhibitor>>
     ELSE main' = "idle" /\ held' = held + 1 /\ inhibitor' = TRUE
  /\ up' = (main' = "idle")
  /\ UNCHANGED <<system, signals, glib, queue, sleeping, applied, raised>>

\* Mutated: the lock is left to the end of the process.
TeardownReceiver ==
  /\ Running
  /\ glib = "idle"
  /\ main = "stopping"
  /\ receiver' = FALSE
  /\ signals' = <<>>
  /\ up' = FALSE
  /\ main' = "idle"
  /\ UNCHANGED <<system, held, glib, queue, inhibitor, sleeping, applied,
                 raised>>

\* teardown(), while stop() waits.
Teardown ==
  /\ Running
  /\ glib = "idle"
  /\ main = "stopping"
  /\ receiver' = FALSE
  /\ signals' = <<>>
  /\ held' = IF inhibitor THEN held - 1 ELSE held
  /\ inhibitor' = FALSE
  /\ up' = FALSE
  /\ main' = "idle"
  /\ UNCHANGED <<system, glib, queue, sleeping, applied, raised>>

GLibThread == Dispatch \/ Inhibit \/ TakeLock \/ Setup \/ Teardown
-----------------------------------------------------------------------------
(***************************************************************************)
(* The main thread: start, stop, handle_enter_sleep, handle_exit_sleep.    *)
(***************************************************************************)
Start ==
  /\ Running
  /\ main = "off"
  /\ main' = "starting"
  /\ UNCHANGED <<system, held, receiver, signals, glib, up, queue, inhibitor,
                 sleeping, applied, raised>>

Stop ==
  /\ Running
  /\ main = "idle"
  /\ up
  /\ main' = "stopping"
  /\ UNCHANGED <<system, held, receiver, signals, glib, up, queue, inhibitor,
                 sleeping, applied, raised>>

Task(name) ==
  /\ Running
  /\ main = "idle"
  /\ queue # <<>>
  /\ Head(queue) = name
  /\ queue' = Tail(queue)

EnterSleep ==
  /\ Task("enter")
  /\ sleeping' = TRUE
  /\ main' = "entering"
  /\ UNCHANGED <<system, held, receiver, signals, glib, up, inhibitor,
                 applied, raised>>

\* Mutated: the flag is not reset.
ExitNoReset ==
  /\ Task("exit")
  /\ main' = "exiting"
  /\ UNCHANGED <<system, held, receiver, signals, glib, up, inhibitor,
                 sleeping, applied, raised>>

ExitSleep ==
  /\ Task("exit")
  /\ sleeping' = FALSE
  /\ main' = "exiting"
  /\ UNCHANGED <<system, held, receiver, signals, glib, up, inhibitor,
                 applied, raised>>

\* Mutated: the modules are left as they are.
UpdateNothing ==
  /\ Running
  /\ main \in {"entering", "exiting"}
  /\ main' = IF main = "entering" THEN "check" ELSE "idle"
  /\ UNCHANGED <<system, held, receiver, signals, glib, up, queue, inhibitor,
                 sleeping, applied, raised>>

\* module.update() within either.  If it raises, the task ends there.
Update ==
  /\ Running
  /\ main \in {"entering", "exiting"}
  /\ \/ /\ applied' = sleeping
        /\ raised' = FALSE
        /\ main' = IF main = "entering" THEN "check" ELSE "idle"
     \/ /\ UpdateMayRaise
        /\ applied' \in {applied, sleeping}
        /\ raised' = TRUE
        /\ main' = "idle"
  /\ UNCHANGED <<system, held, receiver, signals, glib, up, queue, inhibitor,
                 sleeping>>

Check ==
  /\ Running
  /\ main = "check"
  /\ main' = IF inhibitor THEN "close" ELSE "idle"
  /\ UNCHANGED <<system, held, receiver, signals, glib, up, queue, inhibitor,
                 sleeping, applied, raised>>

\* Mutated: the descriptor is forgotten, not closed.
CloseNot ==
  /\ Running
  /\ main = "close"
  /\ main' = "clear"
  /\ UNCHANGED <<system, held, receiver, signals, glib, up, queue, inhibitor,
                 sleeping, applied, raised>>

\* uninhibit()
Close ==
  /\ Running
  /\ main = "close"
  /\ held' = held - 1
  /\ main' = "clear"
  /\ UNCHANGED <<system, receiver, signals, glib, up, queue, inhibitor,
                 sleeping, applied, raised>>

Clear ==
  /\ Running
  /\ main = "clear"
  /\ inhibitor' = FALSE
  /\ main' = "idle"
  /\ UNCHANGED <<system, held, receiver, signals, glib, up, queue, sleeping,
                 applied, raised>>

MainThread ==
  EnterSleep \/ ExitSleep \/ Update \/ Check \/ Close \/ Clear
-----------------------------------------------------------------------------
Init ==
  /\ os = "awake"
  /\ expired = FALSE
  /\ held = 0
  /\ sleeps = 0
  /\ receiver = FALSE
  /\ signals = <<>>
  /\ glib = "idle"
  /\ main = "off"
  /\ up = FALSE
  /\ queue = <<>>
  /\ inhibitor = FALSE
  /\ sleeping = FALSE
  /\ applied = FALSE
  /\ raised = FALSE
  /\ rested = TRUE
  /\ delayed = FALSE

Next ==
  \/ Prepare \/ Suspend \/ Resume
  \/ GLibThread
  \/ Start \/ Stop \/ MainThread

Spec == Init /\ [][Next]_vars

\* Both threads run as long as the system does, and logind suspends it when no
\* lock is held.  It need not end a delay, and nobody need suspend the system,
\* wake it up, or stop the daemon.
FairSpec ==
  /\ Spec
  /\ WF_vars(GLibThread)
  /\ WF_vars(MainThread)
  /\ WF_vars(held = 0 /\ Suspend)
-----------------------------------------------------------------------------
TypeOK ==
  /\ os \in {"awake", "preparing", "asleep"}
  /\ held \in 0..1
  /\ sleeps \in 0..MaxSleeps
  /\ signals \in Seq(BOOLEAN)
  /\ glib \in {"idle", "inhibit", "take"}
  /\ main \in {"off", "starting", "idle", "entering", "exiting", "check",
               "close", "clear", "stopping"}
  /\ queue \in Seq({"enter", "exit"})
  /\ expired \in BOOLEAN /\ receiver \in BOOLEAN /\ up \in BOOLEAN
  /\ inhibitor \in BOOLEAN /\ sleeping \in BOOLEAN /\ applied \in BOOLEAN
  /\ raised \in BOOLEAN /\ rested \in BOOLEAN /\ delayed \in BOOLEAN

\* The two threads, which share inhibitor_lock without a mutex, never lose a
\* descriptor and never close one twice: logind sees a lock exactly if the
\* attribute has it, but for the steps in which it is taken or released
\* (modules/logind.py:47-67).
LockIsTracked ==
  held = IF glib = "take" \/ (inhibitor /\ main # "clear") THEN 1 ELSE 0

\* A stopped module holds no lock, and takes none, whatever signals and tasks
\* were under way (modules/logind.py:34-44).
StoppedHoldsNothing ==
  main \notin {"off", "starting", "stopping"} /\ ~up => held = 0

\* The system sleeps in the configuration for sleep, if it began to prepare
\* while Blankie was at rest and held the lock, and logind's patience was not
\* at an end (modules/logind.py:2-3, modules/logind.py:86-92).  What earlier
\* suspends did, how late Blankie was for them, and which updates raised, does
\* not matter.
AsleepIsConfigured ==
  os = "asleep" /\ up /\ main # "stopping" /\ ~expired /\ rested /\ delayed =>
    applied

\* The module "reliably lock[s] the system when it goes to sleep"
\* (modules/logind.py:2): AsleepIsConfigured, whether Blankie, at rest, had its
\* lock or not.
ReliablyConfigured ==
  os = "asleep" /\ up /\ main # "stopping" /\ ~expired /\ rested => applied

\* Blankie does not keep the system from sleeping: each delay ends without the
\* help of the timeout, unless the update for that sleep has raised before the
\* lock could be released (modules/logind.py:85-92).
SleepProceeds == <>[](os = "preparing") => <>[]raised

\* Once the system stays awake, it does not remain configured for sleep
\* unless the update for the resume has raised, however late Blankie was and
\* however fast the suspends followed each other; and even then, state.sleeping
\* is reset (modules/logind.py:94-97).
ResumeIsApplied ==
  <>[](os = "awake" /\ up) => <>[](~sleeping /\ (applied => raised))

\* Once the system stays awake, it is ready to be delayed again, if the resume
\* found Blankie at rest, whatever happened before
\* (modules/logind.py:74-78).
InhibitedAgain == <>[](os = "awake" /\ up) => <>[](held = 1 \/ ~rested)
=============================================================================
