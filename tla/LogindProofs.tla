---------------------------- MODULE LogindProofs ----------------------------
(***************************************************************************)
(* Proofs about Logind, for any number of suspends.                        *)
(*                                                                         *)
(* The two threads never touch inhibitor_lock at the same time: the GLib   *)
(* thread does so only while the attribute is None, from the moment it has *)
(* seen that; the main thread only while it is not, from the moment it has *)
(* seen that; and each can only make an end of its own turn.  Unless the   *)
(* module is running or being stopped, no signal reaches the GLib thread.  *)
(*                                                                         *)
(* A suspend that finds Blankie at rest and its lock held is delayed until *)
(* the update for it has been made, or until the delay expires.            *)
(***************************************************************************)
EXTENDS Logind, SequenceTheorems, TLAPS

\* The turns of the two threads.
Turns ==
  /\ glib # "idle" => ~inhibitor
  /\ main \in {"close", "clear"} => inhibitor
  /\ main \in {"off", "starting"} => ~up
  /\ ~up /\ main # "stopping" =>
       ~inhibitor /\ glib = "idle" /\ signals = <<>> /\ ~receiver

IInv == TypeOK /\ LockIsTracked /\ Turns

(***************************************************************************)
(* A suspend that found Blankie at rest and its lock held: the lock is     *)
(* held while the signal, the task and the update for it are under way,    *)
(* and released only after an update that did not raise.                   *)
(***************************************************************************)
Delaying ==
  /\ inhibitor /\ glib = "idle"
  /\ \/ signals = <<TRUE>> /\ queue = <<>> /\ main = "idle"
     \/ signals = <<>> /\ queue = <<"enter">> /\ main = "idle"
     \/ signals = <<>> /\ queue = <<>> /\ main = "entering" /\ sleeping
     \/ signals = <<>> /\ queue = <<>> /\ main = "idle"
     \/ /\ signals = <<>> /\ queue = <<>>
        /\ main \in {"check", "close", "clear"} /\ applied

LetSleep == AtRest /\ ~inhibitor /\ applied

Round ==
  /\ up \/ main = "stopping" => receiver
  /\ rested /\ delayed /\ up /\ main # "stopping" =>
       /\ os = "preparing" => Delaying \/ LetSleep
       /\ os = "asleep" /\ ~expired =>
            LetSleep \/ (main = "clear" /\ applied)

LEMMA TaskAppended ==
  \A q \in Seq({"enter", "exit"}) :
    /\ Append(q, "enter") \in Seq({"enter", "exit"})
    /\ Append(q, "exit") \in Seq({"enter", "exit"})
BY AppendProperties

\* The invariant holds before the module is started.
LEMMA InvInit == Init => IInv
<1> SUFFICES ASSUME Init PROVE IInv
  OBVIOUS
<1>1. signals \in Seq(BOOLEAN) /\ queue \in Seq({"enter", "exit"})
  BY DEF Init
<1>2. sleeps \in 0..MaxSleeps
  BY SleepAssumption DEF Init
<1>3. TypeOK
  <2>1. os = "awake" /\ held = 0 /\ glib = "idle" /\ main = "off"
    BY DEF Init
  <2>2. /\ expired \in BOOLEAN /\ receiver \in BOOLEAN /\ up \in BOOLEAN
        /\ inhibitor \in BOOLEAN /\ sleeping \in BOOLEAN
        /\ applied \in BOOLEAN /\ raised \in BOOLEAN
        /\ rested \in BOOLEAN /\ delayed \in BOOLEAN
    BY Zenon DEF Init
  <2> QED
    BY <1>1, <1>2, <2>1, <2>2 DEF TypeOK
<1>4. LockIsTracked
  BY DEF Init, LockIsTracked
<1>5. Turns
  BY DEF Init, Turns
<1> QED
  BY <1>3, <1>4, <1>5 DEF IInv

\* What logind and the kernel do leaves the lock and the threads alone.
LEMMA InvSystem ==
  ASSUME IInv, Prepare \/ Suspend \/ Resume
  PROVE  IInv'
<1> USE DEF IInv, TypeOK, LockIsTracked, Turns, system
<1>1. CASE Prepare
  <2>1. signals' \in Seq(BOOLEAN)
    BY <1>1, AppendProperties DEF Prepare
  <2>2. sleeps' \in 0..MaxSleeps
    BY <1>1, SleepAssumption DEF Prepare
  <2>3. receiver \/ signals' = signals
    BY <1>1 DEF Prepare
  <2>4. os' = "preparing"
    BY <1>1 DEF Prepare
  <2>5. rested' \in BOOLEAN /\ delayed' \in BOOLEAN
    BY <1>1, Zenon DEF Prepare, AtRest
  <2> QED
    BY <1>1, <2>1, <2>2, <2>3, <2>4, <2>5 DEF Prepare
<1>2. CASE Suspend
  BY <1>2 DEF Suspend
<1>3. CASE Resume
  <2>1. os' = "awake" /\ (receiver \/ signals' = signals)
    BY <1>3 DEF Resume
  <2>2. signals' \in Seq(BOOLEAN)
    BY <1>3, AppendProperties DEF Resume
  <2>3. rested' \in BOOLEAN
    BY <1>3, Zenon DEF Resume, AtRest
  <2> QED
    BY <1>3, <2>1, <2>2, <2>3 DEF Resume
<1> QED
  BY <1>1, <1>2, <1>3

\* The GLib thread takes a lock only where there is none.
LEMMA InvGLib ==
  ASSUME IInv, GLibThread
  PROVE  IInv'
<1> USE DEF IInv, TypeOK, LockIsTracked, Turns, system
<1>1. CASE Dispatch
  <2>1. signals' \in Seq(BOOLEAN)
    BY <1>1, HeadTailProperties DEF Dispatch
  <2>5. queue' \in {queue, Append(queue, "enter"), Append(queue, "exit")}
    BY <1>1 DEF Dispatch
  <2>6. queue' \in Seq({"enter", "exit"})
    BY <2>5, TaskAppended, Zenon
  <2>2. ~inhibitor \/ glib' = glib
    BY <1>1 DEF Dispatch
  <2>3. glib' \in {glib, "inhibit"} /\ glib = "idle"
    BY <1>1 DEF Dispatch
  <2>4. /\ up \/ main = "stopping"
        /\ UNCHANGED <<os, expired, sleeps, rested, delayed, held, receiver,
                       main, up, inhibitor, sleeping, applied, raised>>
    BY <1>1 DEF Dispatch
  <2> QED
    BY <2>1, <2>6, <2>2, <2>3, <2>4
<1>2. CASE Inhibit
  BY <1>2 DEF Inhibit
<1>3. CASE TakeLock
  <2>1. queue' \in Seq({"enter", "exit"})
    BY <1>3, AppendProperties DEF TakeLock
  <2> QED
    BY <1>3, <2>1 DEF TakeLock
<1>4. CASE Setup
  <2>1. held = 0 /\ ~inhibitor /\ glib = "idle"
    BY <1>4 DEF Setup
  <2>2. CASE Refused
    <3>1. /\ main' = "stopping" /\ receiver' = TRUE
          /\ UNCHANGED <<os, expired, sleeps, rested, delayed, held, signals,
                         glib, queue, inhibitor, sleeping, applied, raised>>
      BY <1>4, <2>2 DEF Setup
    <3>2. up' \in BOOLEAN
      BY <1>4, Zenon DEF Setup
    <3> QED
      BY <2>1, <3>1, <3>2
  <2>3. CASE ~Refused
    <3>1. /\ main' = "idle" /\ receiver' = TRUE /\ held' = 1
          /\ inhibitor' = TRUE
          /\ UNCHANGED <<os, expired, sleeps, rested, delayed, signals, glib,
                         queue, sleeping, applied, raised>>
      BY <1>4, <2>1, <2>3 DEF Setup
    <3>2. up' = TRUE
      BY <1>4, <3>1, Zenon DEF Setup
    <3> QED
      BY <2>1, <3>1, <3>2
  <2> QED
    BY <2>2, <2>3
<1>5. CASE Teardown
  <2>1. signals' \in Seq(BOOLEAN)
    BY <1>5 DEF Teardown
  <2>2. held' = 0
    BY <1>5 DEF Teardown
  <2>3. glib' = "idle" /\ main' = "idle" /\ inhibitor' = FALSE
    BY <1>5 DEF Teardown
  <2>4. receiver' = FALSE /\ up' = FALSE
    BY <1>5 DEF Teardown
  <2>5. UNCHANGED <<os, expired, sleeps, rested, delayed, queue, sleeping,
                    applied, raised>>
    BY <1>5 DEF Teardown
  <2>6. /\ expired' \in BOOLEAN /\ receiver' \in BOOLEAN /\ up' \in BOOLEAN
        /\ inhibitor' \in BOOLEAN /\ sleeping' \in BOOLEAN
        /\ applied' \in BOOLEAN /\ raised' \in BOOLEAN
        /\ rested' \in BOOLEAN /\ delayed' \in BOOLEAN
    BY <2>3, <2>4, <2>5, Zenon
  <2>7. /\ os' \in {"awake", "preparing", "asleep"} /\ sleeps' \in 0..MaxSleeps
        /\ queue' \in Seq({"enter", "exit"})
    BY <2>5
  <2>8. LockIsTracked'
    BY <2>2, <2>3
  <2>9. signals' = <<>>
    BY <1>5 DEF Teardown
  <2>10. Turns'
    BY <2>3, <2>4, <2>9
  <2> QED
    BY <2>1, <2>2, <2>3, <2>6, <2>7, <2>8, <2>10
<1> QED
  BY <1>1, <1>2, <1>3, <1>4, <1>5 DEF GLibThread

\* The main thread releases a lock only where there is one.
LEMMA InvMain ==
  ASSUME IInv, Start \/ Stop \/ MainThread
  PROVE  IInv'
<1> USE DEF IInv, TypeOK, LockIsTracked, Turns, system
<1>1. CASE Start
  BY <1>1 DEF Start
<1>2. CASE Stop
  BY <1>2 DEF Stop
<1>3. CASE EnterSleep
  BY <1>3, HeadTailProperties DEF EnterSleep, Task
<1>4. CASE ExitSleep
  BY <1>4, HeadTailProperties DEF ExitSleep, Task
<1>5. CASE Update
  BY <1>5 DEF Update
<1>6. CASE Check
  BY <1>6 DEF Check
<1>7. CASE Close
  BY <1>7 DEF Close
<1>8. CASE Clear
  BY <1>8 DEF Clear
<1> QED
  BY <1>1, <1>2, <1>3, <1>4, <1>5, <1>6, <1>7, <1>8 DEF MainThread

LEMMA InvStep == IInv /\ [Next]_vars => IInv'
<1> SUFFICES ASSUME IInv, [Next]_vars PROVE IInv'
  OBVIOUS
<1>1. CASE UNCHANGED vars
  BY <1>1 DEF IInv, TypeOK, LockIsTracked, Turns, vars, system
<1> QED
  BY <1>1, InvSystem, InvGLib, InvMain DEF Next

\* What logind and the kernel do begins a suspend, which finds the lock held,
\* lets the system sleep, which it may when the lock is released, or ends it.
LEMMA RoundSystem ==
  ASSUME IInv, Round, Prepare \/ Suspend \/ Resume
  PROVE  Round'
<1> USE DEF IInv, TypeOK, LockIsTracked, Turns, Round, AtRest, Delaying,
            LetSleep, system
<1>0. \A e : Append(<<>>, e) = <<e>>
  OBVIOUS
<1>1. CASE Prepare
  <2>1. /\ os' = "preparing"
        /\ rested' = AtRest
        /\ delayed' = (held = 1)
        /\ signals' = IF receiver THEN Append(signals, TRUE) ELSE signals
    BY <1>1, Zenon DEF Prepare
  <2>2. UNCHANGED <<receiver, glib, main, up, queue, inhibitor, sleeping,
                    applied>>
    BY <1>1 DEF Prepare
  <2>3. ASSUME rested', delayed' PROVE Delaying'
    <3>1. AtRest /\ held = 1
      BY <2>1, <2>3, Zenon
    <3>2. inhibitor /\ receiver
      BY <3>1
    <3>3. signals' = <<TRUE>>
      BY <1>0, <2>1, <3>1, <3>2, Zenon
    <3> QED
      BY <2>2, <3>1, <3>2, <3>3
  <2> QED
    BY <2>1, <2>2, <2>3
<1>2. CASE Suspend
  <2>1. /\ os = "preparing" /\ os' = "asleep"
        /\ expired' = (held # 0)
    BY <1>2, Zenon DEF Suspend
  <2>2. UNCHANGED <<held, rested, delayed, receiver, signals, glib, main, up,
                    queue, inhibitor, sleeping, applied>>
    BY <1>2 DEF Suspend
  <2>3. ~expired' => held = 0
    BY <2>1, Zenon
  <2>5. rested' = rested /\ delayed' = delayed /\ up' = up
    BY <2>2
  <2>4. held = 0 /\ Delaying => main = "clear" /\ applied
    <3>1. Delaying => inhibitor /\ glib = "idle" /\ (main = "clear" => applied)
      BY Zenon DEF Delaying
    <3>2. held = 0 /\ inhibitor => main = "clear"
      BY DEF LockIsTracked
    <3> QED
      BY <3>1, <3>2, Zenon
  <2>6. rested /\ delayed /\ up /\ main # "stopping" => Delaying \/ LetSleep
    BY <2>1 DEF Round
  <2>7. LetSleep => LetSleep'
    BY <2>2
  <2>8. ~expired' /\ rested' /\ delayed' /\ up' /\ main' # "stopping" =>
          LetSleep' \/ (main' = "clear" /\ applied')
    BY <2>2, <2>3, <2>4, <2>6, <2>7, Zenon
  <2>9. up' \/ main' = "stopping" => receiver'
    BY <2>2
  <2>10. os' = "asleep"
    BY <2>1
  <2> HIDE DEF Delaying, LetSleep
  <2> QED
    BY <2>8, <2>9, <2>10, Zenon DEF Round
<1>3. CASE Resume
  BY <1>3 DEF Resume
<1> QED
  BY <1>1, <1>2, <1>3

\* The GLib thread handles the one signal there is.
LEMMA RoundGLib ==
  ASSUME IInv, Round, GLibThread
  PROVE  Round'
<1> USE DEF IInv, TypeOK, LockIsTracked, Turns, Round, AtRest, Delaying,
            LetSleep, system
<1>0. \A e : Head(<<e>>) = e /\ Tail(<<e>>) = <<>> /\ Append(<<>>, e) = <<e>>
  OBVIOUS
<1>1. CASE Dispatch
  BY <1>0, <1>1 DEF Dispatch, Running
<1>2. CASE Inhibit
  BY <1>2 DEF Inhibit, Refused, Running
<1>3. CASE TakeLock
  <2>1. glib = "take" /\ os # "asleep" /\ os' = os
    BY <1>3 DEF TakeLock, Running
  <2>2. UNCHANGED <<rested, delayed, up, main, receiver>>
    BY <1>3 DEF TakeLock
  <2>3. receiver
    BY <2>1
  <2> QED
    BY <2>1, <2>2, <2>3
<1>4. CASE Setup
  <2>1. /\ receiver' = TRUE /\ os' = os /\ os # "asleep"
    BY <1>4 DEF Setup, Running
  <2>2. \/ main' = "stopping"
        \/ os # "preparing"
    BY <1>4 DEF Setup, Refused
  <2> QED
    BY <2>1, <2>2
<1>5. CASE Teardown
  BY <1>5 DEF Teardown
<1> QED
  BY <1>1, <1>2, <1>3, <1>4, <1>5 DEF GLibThread

\* The main thread handles the one task there is.
LEMMA RoundMain ==
  ASSUME IInv, Round, Start \/ Stop \/ MainThread
  PROVE  Round'
<1> USE DEF IInv, TypeOK, LockIsTracked, Turns, Round, AtRest, Delaying,
            LetSleep, system, Running
<1>0. \A e : Head(<<e>>) = e /\ Tail(<<e>>) = <<>>
  OBVIOUS
<1>1. CASE Start
  BY <1>1 DEF Start
<1>2. CASE Stop
  BY <1>2 DEF Stop
<1>3. CASE EnterSleep
  BY <1>0, <1>3 DEF EnterSleep, Task
<1>4. CASE ExitSleep
  <2>1. queue # <<>> /\ Head(queue) = "exit" /\ os # "asleep" /\ main = "idle"
    BY <1>4 DEF ExitSleep, Task
  <2>2. UNCHANGED <<os, rested, delayed, up, receiver>>
    BY <1>4 DEF ExitSleep
  <2>3. queue # <<"enter">>
    BY <1>0, <2>1
  <2>4. ~Delaying /\ ~LetSleep
    BY <2>1, <2>3
  <2>5. os = "preparing" => ~(rested /\ delayed /\ up /\ main # "stopping")
    BY <2>4, Zenon DEF Round
  <2>6. main' = "exiting"
    BY <1>4 DEF ExitSleep
  <2>7. ~(os' = "preparing" /\ rested' /\ delayed' /\ up' /\ main' # "stopping")
    BY <2>1, <2>2, <2>5, Zenon
  <2>8. up' \/ main' = "stopping" => receiver'
    BY <2>2, <2>6
  <2>9. os' # "asleep"
    BY <2>1, <2>2
  <2> HIDE DEF Delaying, LetSleep
  <2> QED
    BY <2>7, <2>8, <2>9, Zenon DEF Round
<1>5. CASE Update
  <2>1. /\ main \in {"entering", "exiting"}
        /\ UNCHANGED <<os, expired, rested, delayed, receiver, signals, glib, up,
                       queue, inhibitor, sleeping>>
    BY <1>5 DEF Update
  <2>2. \/ main' = "idle"
        \/ main = "entering" /\ main' = "check" /\ applied' = sleeping
    BY <1>5 DEF Update
  <2>3. os # "asleep"
    BY <1>5 DEF Update
  <2> QED
    BY <2>1, <2>2, <2>3
<1>6. CASE Check
  BY <1>6 DEF Check
<1>7. CASE Close
  BY <1>7 DEF Close
<1>8. CASE Clear
  BY <1>8 DEF Clear
<1> QED
  BY <1>1, <1>2, <1>3, <1>4, <1>5, <1>6, <1>7, <1>8 DEF MainThread

LEMMA RoundStep == IInv /\ Round /\ [Next]_vars => Round'
<1> SUFFICES ASSUME IInv, Round, [Next]_vars PROVE Round'
  OBVIOUS
<1>1. CASE UNCHANGED vars
  BY <1>1 DEF Round, AtRest, Delaying, LetSleep, vars, system
<1> QED
  BY <1>1, RoundSystem, RoundGLib, RoundMain DEF Next

\* Every state is well typed: in particular logind never sees two locks of
\* Blankie, nor one released that is not held (modules/logind.py:47-67).
THEOREM TypeCorrect == Spec => []TypeOK
<1>1. Spec => []IInv
  BY InvInit, InvStep, PTL DEF Spec
<1>2. IInv => TypeOK
  BY DEF IInv
<1> QED
  BY <1>1, <1>2, PTL

\* The unsynchronised threads never lose a descriptor and never close one
\* twice (modules/logind.py:47-67).
THEOREM Tracked == Spec => []LockIsTracked
<1>1. Spec => []IInv
  BY InvInit, InvStep, PTL DEF Spec
<1>2. IInv => LockIsTracked
  BY DEF IInv
<1> QED
  BY <1>1, <1>2, PTL

\* A stopped module holds no lock, and takes none, whatever signals and tasks
\* were under way (modules/logind.py:34-44).
THEOREM Released == Spec => []StoppedHoldsNothing
<1>1. Spec => []IInv
  BY InvInit, InvStep, PTL DEF Spec
<1>2. IInv => StoppedHoldsNothing
  BY DEF IInv, TypeOK, LockIsTracked, Turns, StoppedHoldsNothing
<1> QED
  BY <1>1, <1>2, PTL

\* The system sleeps in the configuration for sleep whenever the suspend found
\* Blankie at rest and its lock held and did not expire, whatever came before,
\* and though updates may raise (modules/logind.py:2-3,
\* modules/logind.py:86-92).
THEOREM Configured == Spec => []AsleepIsConfigured
<1>1. Init => Round
  BY DEF Init, Round
<1>2. IInv /\ Round /\ [Next]_vars => Round'
  BY RoundStep
<1>3. Round => AsleepIsConfigured
  BY DEF Round, LetSleep, AsleepIsConfigured
<1> QED
  BY <1>1, <1>2, <1>3, InvInit, InvStep, PTL DEF Spec
=============================================================================
