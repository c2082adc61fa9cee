----------------------------- MODULE ChildProofs -----------------------------
(***************************************************************************)
(* Proofs about Child, for every set of kinds and number of processes: a   *)
(* module that was stopped has left nothing behind.                        *)
(*                                                                         *)
(* The invariant has a part for each variable that stop() relies on.  At   *)
(* most one process runs, and the module knows it, but while start() looks *)
(* for it; its reader thread is the one that stop() joins; and the screen  *)
(* is dark only where stop() will see to it.  Exits that were noticed are  *)
(* of processes that have ended, so that none is taken for a new one.      *)
(***************************************************************************)
EXTENDS Child, SequenceTheorems, TLAPS

\* Processes whose exit is in the past
Gone == (1..started) \ (alive \cup readers)

\* Where the main thread is, and what it knows there
Places ==
  /\ main \in {"start", "find", "wait"} => listed
  /\ main \in {"stop", "kill", "join", "cleanup"} => ~listed
  /\ main \in {"start", "find", "join", "cleanup"} => known = None
  /\ main = "start" => started < MaxStarts
  /\ main = "find" => kind = "i3lock" /\ started # 0 /\ started \notin doomed
  /\ main = "wait" => kind = "xbacklight"

\* At most one process runs, and new ones are new.
Processes ==
  /\ alive \subseteq {known} \cup (IF main = "find" THEN {started} ELSE {})
  /\ alive \cup readers \cup doomed \subseteq 1..started
  /\ known <= started
  /\ known \in doomed => main = "kill"
  /\ notices \in Seq(Gone)

\* stop() joins the only reader thread; only i3lock may have none.
Threads ==
  /\ kind # "xbacklight" =>
       \A p \in readers : p = thread /\ (p = known \/ main = "join")
  /\ kind # "i3lock" /\ (known # None \/ main = "join") => thread # None

\* The screen is dark only where stop() will light it.
Screen ==
  dark => \/ /\ kind = "physlock"
             /\ stuck \/ known \in alive \/ main \in {"kill", "join", "cleanup"}
          \/ kind = "xbacklight" /\ saved

IInv == TypeOK /\ StoppedIsGone /\ Places /\ Processes /\ Threads /\ Screen

LEMMA MoreNotices ==
  ASSUME NEW S, NEW T, S \subseteq T, NEW q \in Seq(S)
  PROVE  q \in Seq(T)
BY ElementOfSeq, IsASeq

\* The invariant holds before the module is started.
LEMMA InvInit == Init => IInv
<1> SUFFICES ASSUME Init PROVE IInv
  OBVIOUS
<1>1. notices \in Seq(Process) /\ notices \in Seq(Gone)
  BY DEF Init
<1>2. /\ kind \in Kinds /\ main = "free" /\ started = 0
      /\ known = None /\ thread = None
      /\ alive = {} /\ doomed = {} /\ readers = {}
      /\ ~wanted /\ ~listed /\ ~saved /\ ~dark /\ ~stuck
  BY DEF Init
<1>3. /\ wanted \in BOOLEAN /\ listed \in BOOLEAN /\ saved \in BOOLEAN
      /\ dark \in BOOLEAN /\ stuck \in BOOLEAN
  BY Zenon DEF Init
<1>4. 0 \in 0..MaxStarts
  BY MaxStartsAssumption
<1>5. TypeOK
  BY <1>1, <1>2, <1>3, <1>4 DEF TypeOK
<1>6. StoppedIsGone /\ Places /\ Processes /\ Threads /\ Screen
  BY <1>1, <1>2 DEF StoppedIsGone, Places, Processes, Threads, Screen, None
<1> QED
  BY <1>5, <1>6 DEF IInv

\* What the queue of notices and the bound on processes allow each step
LEMMA Facts ==
  ASSUME IInv
  PROVE  /\ started \in Nat /\ started <= MaxStarts /\ MaxStarts \in Nat \ {0}
         /\ None \notin Process /\ 1..started \subseteq Process
         /\ notices # <<>> => /\ Head(notices) \in Gone
                             /\ Tail(notices) \in Seq(Gone)
                             /\ Tail(notices) \in Seq(Process)
<1>1. /\ started \in Nat /\ started <= MaxStarts /\ MaxStarts \in Nat \ {0}
      /\ None \notin Process /\ 1..started \subseteq Process
  BY MaxStartsAssumption DEF IInv, TypeOK, None, Process
<1>2. ASSUME notices # <<>>
      PROVE  /\ Head(notices) \in Gone /\ Tail(notices) \in Seq(Gone)
             /\ Tail(notices) \in Seq(Process)
  BY <1>2, HeadTailProperties DEF IInv, TypeOK, Processes
<1> QED
  BY <1>1, <1>2

\* Steps that start a process, or fail to
LEMMA InvStart ==
  ASSUME IInv, (\E w \in BOOLEAN : Ask(w)) \/ StartRaises \/ Spawn \/ Find
  PROVE  IInv'
<1> USE Facts
<1>1. CASE \E w \in BOOLEAN : Ask(w)
  BY <1>1
  DEF IInv, TypeOK, StoppedIsGone, Places, Processes, Threads, Screen, Gone,
      Ask, Update, own, world
<1>2. CASE StartRaises
  BY <1>2
  DEF IInv, TypeOK, StoppedIsGone, Places, Processes, Threads, Screen, Gone,
      StartRaises, Put, world
<1>3. CASE Spawn
  <2> DEFINE p == started + 1
  <2>1. /\ main = "start" /\ known = None /\ started < MaxStarts /\ listed
        /\ started' = p /\ alive' = alive \cup {p}
    BY <1>3 DEF IInv, Places, Spawn
  <2>2. p \in Process /\ p \notin doomed /\ p \notin readers
    BY <2>1 DEF IInv, Processes, Process
  <2>3. alive = {}
    BY <2>1 DEF IInv, Processes
  <2> HIDE DEF p
  <2>4. notices' \in Seq(Gone)'
    <3>1. Gone \subseteq Gone'
      <4>1. 1..started \subseteq 1..started' /\ p \notin 1..started
        BY <2>1 DEF p
      <4>2. readers' \in {readers, readers \cup {p}}
        BY <1>3, <2>1 DEF Spawn, Know, p
      <4> QED
        BY <2>1, <4>1, <4>2 DEF Gone
    <3> QED
      BY <1>3, <3>1, MoreNotices DEF IInv, Processes, Spawn
  <2>5. TypeOK'
    <3>1. started' \in 0..MaxStarts
      BY <2>1 DEF p
    <3>2. /\ alive' \subseteq Process /\ readers' \subseteq Process
          /\ known' \in Process \cup {None} /\ thread' \in Process \cup {None}
      BY <1>3, <2>1, <2>2 DEF IInv, TypeOK, Spawn, Know, p
    <3>3. main' \in {"free", "find"}
      BY <1>3 DEF Spawn, Know, Put
    <3>4. UNCHANGED <<kind, wanted, listed, notices, doomed, stuck>>
      BY <1>3 DEF Spawn
    <3>5. dark' \in BOOLEAN /\ saved' \in BOOLEAN
      BY <1>3 DEF Spawn
    <3> QED
      BY <3>1, <3>2, <3>3, <3>4, <3>5 DEF IInv, TypeOK
  <2>6. /\ UNCHANGED <<kind, listed, doomed, stuck>>
        /\ dark' => dark \/ kind \in {"physlock", "xbacklight"}
        /\ kind = "xbacklight" => saved'
    BY <1>3 DEF Spawn
  <2>7. started' \in Nat /\ p <= started' /\ p # 0 /\ p \in 1..started'
        /\ 1..started \subseteq 1..started' /\ p \notin 1..started
    BY <2>1 DEF p
  <2>8. CASE kind # "i3lock" /\ Know(p)
    <3>1. /\ known' = p /\ thread' = p /\ readers' = readers \cup {p}
          /\ main' = "free"
      BY <2>8 DEF Know, Put
    <3>2. p # None
      BY <2>2
    <3>3. kind # "xbacklight" => readers = {}
      BY <2>1 DEF IInv, Processes, Threads
    <3>4. StoppedIsGone' /\ Places'
      BY <2>1, <2>6, <3>1 DEF StoppedIsGone, Places
    <3>5. Processes'
      BY <2>1, <2>2, <2>3, <2>4, <2>6, <2>7, <3>1 DEF IInv, Processes
    <3>6. Threads'
      BY <2>6, <3>1, <3>2, <3>3 DEF Threads
    <3>7. Screen'
      BY <2>1, <2>6, <3>1 DEF IInv, Screen
    <3> QED
      BY <2>5, <3>4, <3>5, <3>6, <3>7 DEF IInv
  <2>9. CASE /\ kind = "i3lock" /\ Put("find")
             /\ UNCHANGED <<known, thread, readers>>
    <3>1. /\ kind = "i3lock" /\ main' = "find"
          /\ UNCHANGED <<known, thread, readers>>
      BY <2>9 DEF Put
    <3>2. StoppedIsGone' /\ Places'
      BY <2>1, <2>2, <2>6, <2>7, <3>1 DEF StoppedIsGone, Places
    <3>3. Processes'
      BY <2>1, <2>2, <2>3, <2>4, <2>6, <2>7, <3>1 DEF IInv, Processes, None
    <3>4. Threads'
      BY <2>1, <2>6, <3>1 DEF IInv, Threads
    <3>5. Screen'
      BY <2>6, <3>1 DEF IInv, Screen
    <3> QED
      BY <2>5, <3>2, <3>3, <3>4, <3>5 DEF IInv
  <2> QED
    BY <1>3, <2>8, <2>9 DEF Spawn, p
<1>4. CASE Find
  BY <1>4
  DEF IInv, TypeOK, StoppedIsGone, Places, Processes, Threads, Screen, Gone,
      Find, Know, Put
<1> QED
  BY <1>1, <1>2, <1>3, <1>4

\* Steps that stop the module
LEMMA InvStop ==
  ASSUME IInv, Stop \/ Killed \/ Join \/ Cleanup
  PROVE  IInv'
<1> USE Facts
<1>1. CASE Stop
  <2>1. /\ main = "stop" /\ ~listed
        /\ UNCHANGED <<kind, wanted, listed, known, thread, saved, notices,
                       alive, readers, dark, stuck, started>>
    BY <1>1 DEF IInv, Places, Stop, own
  <2>2. CASE known = None
    <3>1. doomed' = doomed /\ main' = IF kind = "xbacklight" THEN "cleanup"
                                     ELSE "free"
      BY <1>1, <2>2 DEF Stop, WithoutProcess, Put
    <3>2. alive = {} /\ (kind # "xbacklight" => readers = {} /\ (dark => stuck))
      BY <2>1, <2>2 DEF IInv, Processes, Threads, Screen
    <3>3. StoppedIsGone' /\ Places' /\ Processes'
      BY <2>1, <2>2, <3>1, <3>2 DEF IInv, StoppedIsGone, Places, Processes, Gone
    <3>4. TypeOK' /\ Threads' /\ Screen'
      BY <2>1, <2>2, <3>1, <3>2 DEF IInv, TypeOK, Threads, Screen
    <3> QED
      BY <3>3, <3>4 DEF IInv
  <2>3. CASE known # None
    <3>1. doomed' = doomed \cup {known} /\ main' = "kill"
      BY <1>1, <2>3 DEF Stop, Put
    <3>2. known \in Process /\ known \in 1..started
      BY <2>3 DEF IInv, TypeOK, Processes, Process
    <3>3. StoppedIsGone' /\ Places' /\ Processes'
      BY <2>1, <3>1, <3>2 DEF IInv, StoppedIsGone, Places, Processes, Gone
    <3>4. TypeOK' /\ Threads' /\ Screen'
      BY <2>1, <2>3, <3>1, <3>2 DEF IInv, TypeOK, Threads, Screen
    <3> QED
      BY <3>3, <3>4 DEF IInv
  <2> QED
    BY <2>2, <2>3
<1>2. CASE Killed
  <2>1. /\ main = "kill" /\ main' = "join" /\ known' = None /\ ~listed
        /\ known # None /\ alive = {}
        /\ UNCHANGED <<kind, wanted, listed, thread, saved, notices, alive,
                       doomed, readers, dark, stuck, started>>
    BY <1>2 DEF IInv, TypeOK, Places, Processes, Killed, Put, world
  <2>2. None <= started
    BY DEF None
  <2>3. StoppedIsGone' /\ Places' /\ Processes'
    BY <2>1, <2>2 DEF IInv, StoppedIsGone, Places, Processes, Gone
  <2>4. TypeOK' /\ Threads' /\ Screen'
    BY <2>1 DEF IInv, TypeOK, Threads, Screen
  <2> QED
    BY <2>3, <2>4 DEF IInv
<1>3. CASE Join
  <2>1. /\ main = "join" /\ known = None /\ ~listed /\ alive = {}
        /\ UNCHANGED <<kind, wanted, known, saved, notices, alive, doomed,
                       readers, dark, stuck, started>>
    BY <1>3 DEF IInv, Places, Processes, Join, world
  <2>2. /\ thread' \in {thread, None} /\ main' \in {"free", "cleanup"}
        /\ listed' \in BOOLEAN
        /\ main' = "free" => kind = "i3lock" /\ thread = None /\ listed'
        /\ main' = "cleanup" => thread \notin readers /\ ~listed'
    <3>1. CASE thread = None /\ listed' = TRUE /\ main' = "free" /\ thread' = thread
      BY <2>1, <3>1 DEF IInv, Threads
    <3>2. CASE /\ thread # None /\ thread \notin readers /\ thread' = None
               /\ main' = "cleanup" /\ listed' = listed
      BY <2>1, <3>2 DEF IInv, TypeOK
    <3> QED
      BY <1>3, <3>1, <3>2, Zenon DEF Join, Put
  <2>3. kind # "xbacklight" => readers = {}
    BY <2>1, <2>2 DEF IInv, TypeOK, Threads, Processes
  <2>4. StoppedIsGone' /\ Places' /\ Processes'
    BY <2>1, <2>2, <2>3 DEF IInv, StoppedIsGone, Places, Processes, Gone
  <2>5. TypeOK'
    BY <2>1, <2>2 DEF IInv, TypeOK
  <2>6. Threads' /\ Screen'
    BY <2>1, <2>2, <2>3 DEF IInv, Threads, Screen
  <2> QED
    BY <2>4, <2>5, <2>6 DEF IInv
<1>4. CASE Cleanup
  BY <1>4
  DEF IInv, TypeOK, StoppedIsGone, Places, Processes, Threads, Screen, Gone,
      Cleanup, Put
<1> QED
  BY <1>1, <1>2, <1>3, <1>4

\* Steps that end a process, or handle its end
LEMMA InvEnd ==
  ASSUME IInv,
         \/ HandleExit \/ Waited
         \/ \E p \in Process : Exit(p) \/ ReaderEnds(p)
  PROVE  IInv'
<1> USE Facts
<1>1. CASE HandleExit
  <2>1. /\ main = "free" /\ notices # <<>> /\ notices' = Tail(notices)
        /\ UNCHANGED <<kind, thread, saved, alive, doomed, readers, dark,
                       stuck, started>>
    BY <1>1 DEF HandleExit, world
  <2>2. CASE kind # "xbacklight" /\ Head(notices) = known
    <3>1. known \in Gone /\ known # None /\ listed /\ alive = {}
      BY <2>1, <2>2 DEF IInv, StoppedIsGone, Processes, Gone
    <3>2. known' = None /\ ~wanted' /\ ~listed' /\ main' = "stop"
      BY <1>1, <2>2, <3>1 DEF HandleExit, Update
    <3>3. readers = {} /\ None <= started
      BY <2>1, <2>2, <3>1 DEF IInv, Threads, Gone, None
    <3>4. StoppedIsGone' /\ Places' /\ Processes'
      BY <2>1, <3>1, <3>2, <3>3
      DEF IInv, StoppedIsGone, Places, Processes, Gone
    <3>5. wanted' \in BOOLEAN /\ listed' \in BOOLEAN
      BY <1>1, <2>2 DEF HandleExit, Update
    <3>6. TypeOK' /\ Threads' /\ Screen'
      BY <2>1, <2>2, <3>1, <3>2, <3>3, <3>5 DEF IInv, TypeOK, Threads, Screen
    <3> QED
      BY <3>4, <3>6 DEF IInv
  <2>3. CASE ~(kind # "xbacklight" /\ Head(notices) = known)
    <3>1. /\ UNCHANGED <<wanted, listed, known>>
          /\ main' \in {"free", "wait"}
          /\ main' = "wait" => kind = "xbacklight" /\ known # None
      BY <1>1, <2>3 DEF HandleExit, Waiting, Put
    <3>2. main' = "wait" => listed
      BY <2>1, <3>1 DEF IInv, StoppedIsGone
    <3>3. StoppedIsGone' /\ Places' /\ Processes'
      BY <2>1, <3>1, <3>2 DEF IInv, StoppedIsGone, Places, Processes, Gone
    <3>4. TypeOK' /\ Threads' /\ Screen'
      BY <2>1, <3>1 DEF IInv, TypeOK, Threads, Screen
    <3> QED
      BY <3>3, <3>4 DEF IInv
  <2> QED
    BY <2>2, <2>3
<1>2. CASE Waited
  <2>1. /\ main = "wait" /\ main' = "free" /\ known' = None /\ listed
        /\ kind = "xbacklight" /\ alive = {}
        /\ UNCHANGED <<kind, wanted, listed, thread, saved, notices, alive,
                       doomed, readers, dark, stuck, started>>
    BY <1>2 DEF IInv, Places, Processes, Waited, Put, world
  <2>2. None <= started
    BY DEF None
  <2>3. StoppedIsGone' /\ Places' /\ Processes'
    BY <2>1, <2>2 DEF IInv, StoppedIsGone, Places, Processes, Gone
  <2>4. TypeOK' /\ Threads' /\ Screen'
    BY <2>1 DEF IInv, TypeOK, Threads, Screen
  <2> QED
    BY <2>3, <2>4 DEF IInv
<1>3. ASSUME NEW p \in Process, Exit(p)
      PROVE  IInv'
  <2>1. Gone \subseteq Gone'
    BY <1>3 DEF Exit, Gone
  <2>2. notices' \in Seq(Gone)'
    BY <1>3, <2>1, MoreNotices DEF IInv, Processes, Exit
  <2> QED
    BY <1>3, <2>2
    DEF IInv, TypeOK, StoppedIsGone, Places, Processes, Threads, Screen, Exit,
        own
<1>4. ASSUME NEW p \in Process, ReaderEnds(p)
      PROVE  IInv'
  <2>1. Gone \subseteq Gone' /\ p \in Gone'
    BY <1>4 DEF IInv, Processes, ReaderEnds, Gone
  <2>2. notices \in Seq(Gone') /\ notices \in Seq(Process)
    BY <2>1, MoreNotices DEF IInv, TypeOK, Processes
  <2>3. notices' \in Seq(Gone') /\ notices' \in Seq(Process)
    BY <1>4, <2>1, <2>2, AppendProperties DEF ReaderEnds
  <2> QED
    BY <1>4, <2>3
    DEF IInv, TypeOK, StoppedIsGone, Places, Processes, Threads, Screen,
        ReaderEnds, own
<1> QED
  BY <1>1, <1>2, <1>3, <1>4

LEMMA InvStep == IInv /\ [Next]_vars => IInv'
<1> SUFFICES ASSUME IInv, [Next]_vars PROVE IInv'
  OBVIOUS
<1>1. CASE UNCHANGED vars
  BY <1>1
  DEF IInv, TypeOK, StoppedIsGone, Places, Processes, Threads, Screen, Gone,
      vars, own, world
<1> QED
  BY <1>1, InvStart, InvStop, InvEnd DEF Next, Proceed

\* A stopped module has left no process and no known PID behind, no reader but
\* xbacklight's, and the screen lit, whatever start() or stop() has raised, and
\* whichever processes have ended by themselves.  It has left VT switching
\* disabled only if its last "physlock -L" failed, which no stop() repeats
\* (module.py:28-31, i3lock.py:73-93, physlock.py:46-52, xbacklight.py:76-92).
THEOREM Stopped == Spec => []StoppedIsGone
<1>1. Spec => []IInv
  BY InvInit, InvStep, PTL DEF Spec
<1>2. IInv => StoppedIsGone
  BY DEF IInv
<1> QED
  BY <1>1, <1>2, PTL

\* Every state is well typed; the main thread waits only for a known process.
THEOREM TypeCorrect == Spec => []TypeOK
<1>1. Spec => []IInv
  BY InvInit, InvStep, PTL DEF Spec
<1>2. IInv => TypeOK
  BY DEF IInv
<1> QED
  BY <1>1, <1>2, PTL

\* A notice that comes late unlocks nothing: the end of a locker unlocks the
\* system only when no locker runs (i3lock.py:99-111).
THEOREM LateNotices == Spec => UnlockOnlyByOwnExit
<1>1. Spec => []IInv
  BY InvInit, InvStep, PTL DEF Spec
<1>2. IInv /\ [Next]_vars
        => [wanted /\ ~wanted' /\ notices' # notices => alive = {}]_vars
  <2> SUFFICES ASSUME IInv, Next, wanted, ~wanted', notices' # notices
               PROVE  alive = {}
    OBVIOUS
  <2>1. HandleExit
    BY DEF Next, Proceed, Ask, StartRaises, Spawn, Find, Stop, Killed, Join,
           Cleanup, Waited, Exit, ReaderEnds
  <2>2. known = Head(notices) /\ known \in Gone /\ main = "free"
    BY <2>1, Facts DEF HandleExit
  <2> QED
    BY <2>2 DEF IInv, Processes, Gone
<1> QED
  BY <1>1, <1>2, PTL DEF Spec, UnlockOnlyByOwnExit
=============================================================================
