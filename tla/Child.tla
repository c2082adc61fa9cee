-------------------------------- MODULE Child --------------------------------
(***************************************************************************)
(* A module that runs a child process, with the thread that waits for its  *)
(* end: the screen lockers i3lock and physlock, xbacklight, and the two    *)
(* that listen to their child, upower and xss ("monitor" stands for both,  *)
(* without the lines they read).                                           *)
(*                                                                         *)
(* The main thread takes one task after another: it wants the module to    *)
(* run or not to, by lock() and unlock() for a locker, and starts or stops *)
(* it; or it handles the end of a process.  Meanwhile processes end and    *)
(* their readers queue the notice.  The module machinery is that of        *)
(* module.py, for one module: a module whose stop() raises is put back on  *)
(* the list, one whose start() raises stays on it.                         *)
(*                                                                         *)
(* The programs are external: i3lock daemonizes, physlock leaves the VTs   *)
(* locked when it is terminated, xbacklight fades the screen, slowly.      *)
(***************************************************************************)
EXTENDS Naturals, Sequences

CONSTANTS
  Kinds,     \* which of the modules
  MaxStarts  \* bound: processes in a behaviour

Locker == {"i3lock", "physlock"}
Process == 1..MaxStarts
None == 0

ASSUME KindsAssumption == Kinds \subseteq Locker \cup {"xbacklight", "monitor"}
ASSUME MaxStartsAssumption == MaxStarts \in Nat \ {0}

VARIABLES
  kind,     \* the module, which never changes
  wanted,   \* whether it is wanted; for a locker, state.locked
  listed,   \* whether it is in running_modules
  known,    \* the process that the module knows: i3lock_inner_pid, a Popen
  thread,   \* the process of the reader thread that the module knows
  saved,    \* whether the brightness is saved
  main,     \* where the main thread is
  notices,  \* exited processes, in the queued calls of the handler
  alive,    \* processes that run
  doomed,   \* processes that got SIGTERM
  readers,  \* processes to which a running reader thread is connected
  dark,     \* VT switching is disabled, or the screen faded
  stuck,    \* "physlock -L" failed, and nothing has enabled VT switching
            \* since (history)
  started   \* processes so far

own == <<known, thread, saved>>
world == <<alive, doomed, readers, dark, stuck, started>>
vars == <<kind, wanted, listed, own, main, notices, world>>
-----------------------------------------------------------------------------
\* update(), at the end of the task
Update(w) ==
  /\ wanted' = w
  /\ listed' = w
  /\ main' = CASE w /\ ~listed -> "start"
               [] ~w /\ listed -> "stop"
               [] OTHER -> "free"

\* lock(), unlock(), or another reason to run the module or not
Ask(w) ==
  /\ main = "free"
  /\ w /\ ~listed => started < MaxStarts
  /\ Update(w)
  /\ UNCHANGED <<kind, own, notices, world>>

Put(where) == main' = where

\* start() raises and has no process; only xbacklight has done something.
StartRaises ==
  /\ main = "start"
  /\ Put("free")
  /\ saved' \in {saved, kind = "xbacklight"}
  /\ UNCHANGED <<kind, wanted, listed, known, thread, notices, world>>

\* The process is known and has a reader.
Know(p) ==
  /\ known' = p
  /\ thread' = p
  /\ readers' = readers \cup {p}
  /\ Put("free")

\* start() runs the program.
Spawn ==
  LET p == started + 1 IN
  /\ main = "start"
  /\ known = None
  /\ started' = p
  /\ alive' = alive \cup {p}
  /\ dark' = (dark \/ kind \in {"physlock", "xbacklight"})
  /\ saved' = (saved \/ kind = "xbacklight")
  /\ \/ kind # "i3lock" /\ Know(p)
     \/ kind = "i3lock" /\ Put("find") /\ UNCHANGED <<known, thread, readers>>
  /\ UNCHANGED <<kind, wanted, listed, notices, doomed, stuck>>

\* i3lock has forked.  If it has exited since, start() raises, before or after
\* it takes down the PID.
Find ==
  /\ main = "find"
  /\ \/ started \in alive /\ Know(started)
     \/ /\ started \notin alive
        /\ known' \in {known, started}
        /\ Put("free")
        /\ UNCHANGED <<thread, readers>>
  /\ UNCHANGED <<kind, wanted, listed, saved, notices, alive, doomed, dark,
                 stuck, started>>

\* Where stop() goes on when no process is known
WithoutProcess == IF kind = "xbacklight" THEN "cleanup" ELSE "free"

\* Mutated: the process is left to its fate.
StopWithoutSignal ==
  /\ main = "stop"
  /\ Put(IF known # None THEN "kill" ELSE WithoutProcess)
  /\ UNCHANGED <<kind, wanted, listed, own, notices, world>>

\* Mutated: stop() does not ask whether a process is known.
StopUnchecked ==
  /\ main = "stop"
  /\ Put("kill") /\ doomed' = doomed \cup {known}
  /\ UNCHANGED <<kind, wanted, listed, own, notices, alive, readers, dark,
                 stuck, started>>

\* stop(), up to the signal
Stop ==
  /\ main = "stop"
  /\ IF known = None
     THEN Put(WithoutProcess) /\ UNCHANGED doomed
     ELSE Put("kill") /\ doomed' = doomed \cup {known}
  /\ UNCHANGED <<kind, wanted, listed, own, notices, alive, readers, dark,
                 stuck, started>>

\* Mutated: nobody waits for the end of the process.
KillAtOnce ==
  /\ main = "kill"
  /\ known' = None
  /\ Put("cleanup")
  /\ UNCHANGED <<kind, wanted, listed, thread, saved, notices, world>>

\* The process has ended, after the signal.
Killed ==
  /\ main = "kill"
  /\ known \notin alive
  /\ known' = None
  /\ Put("join")
  /\ UNCHANGED <<kind, wanted, listed, thread, saved, notices, world>>

\* There may be no thread to join, when start() has raised: stop() raises too.
Join ==
  /\ main = "join"
  /\ \/ /\ thread = None
        /\ listed' = TRUE
        /\ Put("free")
        /\ UNCHANGED thread
     \/ /\ thread # None /\ thread \notin readers
        /\ thread' = None
        /\ Put("cleanup")
        /\ UNCHANGED listed
  /\ UNCHANGED <<kind, wanted, known, saved, notices, world>>

\* The rest of stop(): physlock -L, or the brightness is restored, for as long
\* as no process fades the screen.
Cleanup ==
  /\ main = "cleanup"
  /\ Put("free")
  /\ saved' = FALSE
  /\ \/ /\ dark' = CASE kind = "physlock" -> FALSE
                     [] kind = "xbacklight" /\ saved -> alive # {}
                     [] OTHER -> dark
        /\ stuck' = FALSE
        /\ UNCHANGED listed
     \/ /\ kind = "physlock"
        /\ listed' = TRUE
        /\ stuck' = TRUE
        /\ UNCHANGED dark
  /\ UNCHANGED <<kind, wanted, known, thread, notices, alive, doomed, readers,
                 started>>

\* xbacklight_handle_exit does not know which process has ended.
Waiting == IF kind = "xbacklight" /\ known # None THEN "wait" ELSE "free"

\* Mutated: the handler does not compare the PIDs.
HandleAnyExit ==
  /\ main = "free" /\ notices # <<>>
  /\ notices' = Tail(notices)
  /\ IF kind # "xbacklight" /\ known # None THEN known' = None /\ Update(FALSE)
     ELSE /\ Put(Waiting)
          /\ UNCHANGED <<wanted, listed, known>>
  /\ UNCHANGED <<kind, thread, saved, world>>

\* i3lock_handle_exit, physlock_handle_exit, xbacklight_handle_exit
HandleExit ==
  /\ main = "free" /\ notices # <<>>
  /\ notices' = Tail(notices)
  /\ IF kind # "xbacklight" /\ Head(notices) = known
     THEN known' = None /\ Update(FALSE)
     ELSE /\ Put(Waiting)
          /\ UNCHANGED <<wanted, listed, known>>
  /\ UNCHANGED <<kind, thread, saved, world>>

\* The handler of xbacklight has waited for the process it knows.
Waited ==
  /\ main = "wait"
  /\ known \notin alive
  /\ known' = None
  /\ Put("free")
  /\ UNCHANGED <<kind, wanted, listed, thread, saved, notices, world>>

\* A process ends, by itself or by the signal.
Exit(p) ==
  /\ p \in alive
  /\ alive' = alive \ {p}
  /\ dark' = (dark /\ (kind = "physlock" => p \in doomed))
  /\ stuck' = (stuck /\ dark')
  /\ UNCHANGED <<kind, wanted, listed, own, main, notices, doomed, readers,
                 started>>

\* Mutated: the end of file is not reported.
ReaderEndsSilently(p) ==
  /\ p \in readers \ alive
  /\ readers' = readers \ {p}
  /\ UNCHANGED <<kind, wanted, listed, own, main, notices, alive, doomed, dark,
                 stuck, started>>

\* A reader thread comes to the end of file.
ReaderEnds(p) ==
  /\ p \in readers \ alive
  /\ readers' = readers \ {p}
  /\ notices' = IF kind = "monitor" THEN notices ELSE Append(notices, p)
  /\ UNCHANGED <<kind, wanted, listed, own, main, alive, doomed, dark, stuck,
                 started>>
-----------------------------------------------------------------------------
Init ==
  /\ kind \in Kinds
  /\ wanted = FALSE /\ listed = FALSE
  /\ known = None /\ thread = None /\ saved = FALSE
  /\ main = "free" /\ notices = <<>>
  /\ alive = {} /\ doomed = {} /\ readers = {}
  /\ dark = FALSE /\ stuck = FALSE
  /\ started = 0

Proceed ==
  StartRaises \/ Spawn \/ Find \/ Stop \/ Killed \/ Join \/ Cleanup \/ Waited

Next ==
  \/ \E w \in BOOLEAN : Ask(w)
  \/ Proceed \/ HandleExit
  \/ \E p \in Process : Exit(p) \/ ReaderEnds(p)

Spec == Init /\ [][Next]_vars

\* A process that got SIGTERM ends, and so does a fade; the main thread takes
\* its tasks in turn.
FairSpec ==
  /\ Spec
  /\ WF_vars(Proceed) /\ SF_vars(HandleExit)
  /\ \A p \in Process :
       /\ WF_vars((p \in doomed \/ kind = "xbacklight") /\ Exit(p))
       /\ WF_vars(ReaderEnds(p))
-----------------------------------------------------------------------------
TypeOK ==
  /\ kind \in Kinds
  /\ wanted \in BOOLEAN /\ listed \in BOOLEAN
  /\ known \in Process \cup {None} /\ thread \in Process \cup {None}
  /\ saved \in BOOLEAN
  /\ main \in {"free", "start", "find", "stop", "kill", "join", "cleanup",
               "wait"}
  /\ main \in {"kill", "wait"} => known # None
  /\ notices \in Seq(Process)
  /\ alive \subseteq Process /\ doomed \subseteq Process
  /\ readers \subseteq Process
  /\ dark \in BOOLEAN /\ stuck \in BOOLEAN
  /\ started \in 0..MaxStarts

\* A module that was stopped, at once or after stops that raised, has left no
\* process, no thread (but xbacklight's may be about to end), and the screen lit
\* (module.py:28-31, i3lock.py:73-93, xbacklight.py:76-92).  VT switching is
\* enabled again too, except after a stop() in which "physlock -L" failed: the
\* next stop() finds no process and does not repeat it (physlock.py:47-52), as
\* module.py:28-31 demands; a later physlock repairs it.
StoppedIsGone ==
  main = "free" /\ ~listed =>
    /\ alive = {} /\ known = None /\ (dark => stuck)
    /\ readers = {} \/ kind = "xbacklight"

\* The end of a locker unlocks the system only when no locker runs, although
\* the notice of an earlier one may come late (i3lock.py:99-111).
UnlockOnlyByOwnExit ==
  [][wanted /\ ~wanted' /\ notices' # notices => alive = {}]_vars

\* The end of a locker that has a reader is noticed (i3lock.py:93-97).
ExitIsNoticed ==
  \A p \in Process :
    kind \in Locker /\ known = p /\ thread = p /\ p \notin alive ~> known # p

\* The main thread is not held up forever by a process or a thread that it
\* waits for (i3lock.py:77-88, physlock.py:46-51, xbacklight.py:98-100).
MainIsFreed == main # "free" ~> main = "free"
=============================================================================
