---------------------------- MODULE DaemonProofs ----------------------------
(***************************************************************************)
(* Proofs about Daemon, for any numbers of clients and signals, and any    *)
(* backlog: no wake lock is left behind, whatever the threads do.          *)
(*                                                                         *)
(* The argument follows a connection: it comes out of the backlog once,    *)
(* and is registered as long as its handler thread lives; its handler      *)
(* waits exactly as long as it has one task, in the queue or under way,    *)
(* which attaches or detaches its wake lock.  What interrupt_requests has  *)
(* copied is every thread that may hold a wake lock, because the main      *)
(* thread, which interrupts, is also the one that attaches.                *)
(***************************************************************************)
EXTENDS Daemon, SequenceTheorems, TLAPS

\* Where the main thread runs a task, or what stop() consists of
Busy == {"run", "stop", "interrupt", "cut", "ping", "blocked", "join"}

\* A handler waits for the end of a task, and a wake lock is attached once.
Awaited(t) ==
  t[1] # "stop" =>
    /\ handler[t[2]] = "waiting"
    /\ t[1] = "command" <=> t[2] \notin WakeLock
    /\ t[1] = "attach" => t[2] \notin sessions

\* Each client waits for one task, in the queue or under way.
Queued == \A i \in DOMAIN queue : Awaited(queue[i])

Apart ==
  \A i, j \in DOMAIN queue :
    i # j /\ queue[i][1] # "stop" => queue[i][2] # queue[j][2]

Running ==
  main \in Busy /\ ~final =>
    /\ Awaited(task)
    /\ task[1] # "stop" => \A i \in DOMAIN queue : queue[i][2] # task[2]

Ending == final => main \in (Busy \ {"run"}) \cup {"exited"}

Tasks == Queued /\ Apart /\ Running /\ Ending

\* Who was not registered has no handler thread yet, and comes once.
Arrivals ==
  /\ \A i \in DOMAIN backlog :
       backlog[i] # Ping => handler[backlog[i]] = "connected"
  /\ \A i, j \in DOMAIN backlog :
       i # j /\ backlog[i] # Ping => backlog[i] # backlog[j]
  /\ accepter = "register" =>
       /\ incoming \in Client /\ handler[incoming] = "connected"
       /\ \A i \in DOMAIN backlog : backlog[i] # incoming

\* Every handler thread is registered, and gets into the snapshot.
Registrations ==
  /\ \A c \in Client :
       handler[c] \notin {"none", "connected", "ended"} => c \in requests
  /\ main = "cut" =>
       \A c \in WakeLock : handler[c] = "held" => c \in snapshot

\* Only clients that came for a wake lock hold one.
Holders == \A c \in Client : handler[c] = "held" => c \in WakeLock

IInv ==
  /\ Holders
  /\ TypeOK /\ NoLeakedWakeLock /\ HolderHasLock /\ HoldersAreInterrupted
  /\ Tasks /\ Arrivals /\ Registrations

LEMMA Appended ==
  ASSUME NEW S, NEW q \in Seq(S), NEW x \in S
  PROVE  /\ Append(q, x) \in Seq(S)
         /\ DOMAIN Append(q, x) = DOMAIN q \cup {Len(q) + 1}
         /\ Len(q) + 1 \notin DOMAIN q
         /\ \A i \in DOMAIN q : Append(q, x)[i] = q[i]
         /\ Append(q, x)[Len(q) + 1] = x
OBVIOUS

LEMMA Taken ==
  ASSUME NEW S, NEW q \in Seq(S), q # <<>>
  PROVE  /\ Head(q) \in S /\ Tail(q) \in Seq(S)
         /\ 1 \in DOMAIN q /\ Head(q) = q[1]
         /\ \A i \in DOMAIN Tail(q) :
              /\ i + 1 \in DOMAIN q /\ i + 1 # 1
              /\ Tail(q)[i] = q[i + 1]
         /\ \A i, j \in DOMAIN Tail(q) : i # j => i + 1 # j + 1
OBVIOUS

LEMMA TaskParts ==
  ASSUME NEW t \in Task
  PROVE  \/ t = <<"stop", Signal>> /\ t[1] = "stop" /\ t[2] = Signal
         \/ /\ t[1] \in {"command", "attach", "detach"}
            /\ t[2] \in Client /\ t[2] # Signal
BY ClientAssumption DEF Task

LEMMA InvInit == Init => IInv
<1> SUFFICES ASSUME Init PROVE IInv
  OBVIOUS
<1>1. /\ queue = <<>> /\ backlog = <<>> /\ queue \in Seq(Task)
      /\ backlog \in Seq(Client \cup {Ping})
      /\ DOMAIN queue = {} /\ DOMAIN backlog = {}
  BY DEF Init
<1>2. Flags
  BY Zenon DEF Init, Flags
<1>3. signals \in 0..MaxSignals
  BY BoundAssumption DEF Init
<1>4. TypeOK
  <2>1. task \in Task
    BY DEF Init, Task
  <2>2. handler \in [Client -> Place]
    BY DEF Init, Place
  <2>3. /\ requests = {} /\ snapshot = {} /\ said = {} /\ left = {}
        /\ shut = {} /\ sessions = {}
    BY DEF Init
  <2>4. main = "test" /\ accepter = "test" /\ incoming = Ping
    BY DEF Init
  <2> QED
    BY <1>1, <1>2, <1>3, <2>1, <2>2, <2>3, <2>4 DEF TypeOK
<1>5. NoLeakedWakeLock /\ HolderHasLock /\ HoldersAreInterrupted
  BY ClientAssumption DEF Init, NoLeakedWakeLock, HolderHasLock, HoldersAreInterrupted,
    Client
<1>6. Arrivals /\ Registrations
  BY <1>1 DEF Init, Arrivals, Registrations
<1>8. Holders
  BY DEF Init, Holders
<1>7. Tasks
  BY <1>1 DEF Init, Tasks, Queued, Apart, Running, Ending, Busy
<1> QED
  BY <1>4, <1>5, <1>6, <1>7, <1>8 DEF IInv

\* Nobody stops waiting, or becomes a holder.
LEMMA AwaitedStill ==
  ASSUME UNCHANGED sessions,
         \A c \in Client : handler[c] = "waiting" => handler'[c] = "waiting"
  PROVE  \A t \in Task : Awaited(t) => Awaited(t)'
BY TaskParts DEF Awaited

\* A thread queues a task, and waits for it; or a signal handler does.
LEMMA TasksEnqueue ==
  ASSUME IInv, NEW t \in Task, queue' = Append(queue, t),
         UNCHANGED <<main, task, final, sessions>>,
         Awaited(t)',
         \A c \in Client : handler[c] = "waiting" => handler'[c] = "waiting",
         t[1] # "stop" => handler[t[2]] # "waiting"
  PROVE  Tasks'
<1> DEFINE n == Len(queue) + 1
<1>1. /\ queue' \in Seq(Task) /\ DOMAIN queue' = DOMAIN queue \cup {n}
      /\ n \notin DOMAIN queue /\ queue'[n] = t
      /\ \A i \in DOMAIN queue : queue'[i] = queue[i] /\ queue[i] \in Task
  BY Appended DEF IInv, TypeOK
<1> HIDE DEF n
<1>2. \A u \in Task : Awaited(u) => Awaited(u)'
  BY AwaitedStill, Zenon
<1>3. Queued'
  BY <1>1, <1>2 DEF IInv, Tasks, Queued
<1>4. \A u \in Task : Awaited(u) /\ (t[1] # "stop" \/ u[1] # "stop")
                        => t[2] # u[2]
  BY TaskParts DEF Awaited
<1>5. Apart'
  BY <1>1, <1>4 DEF IInv, Tasks, Apart, Queued
<1>6. Running'
  <2>1. SUFFICES ASSUME main \in Busy, ~final
                 PROVE  /\ Awaited(task)'
                        /\ task[1] # "stop" =>
                             \A i \in DOMAIN queue' : queue'[i][2] # task[2]
    BY DEF Running, Busy
  <2>2. /\ task \in Task /\ Awaited(task)
        /\ task[1] # "stop" => \A i \in DOMAIN queue : queue[i][2] # task[2]
    BY <2>1 DEF IInv, TypeOK, Tasks, Running
  <2>3. task' = task
    OBVIOUS
  <2> QED
    BY <1>1, <1>2, <1>4, <2>2, <2>3
<1>7. Ending'
  BY DEF IInv, Tasks, Ending, Busy
<1> QED
  BY <1>3, <1>5, <1>6, <1>7 DEF Tasks

\* The main thread has done with the task of one client.
LEMMA TasksServed ==
  ASSUME IInv, main \in Busy, ~final, main' = "test",
         task[1] # "stop", UNCHANGED <<queue, final>>,
         \A c \in Client : c # task[2] =>
           handler'[c] = handler[c] /\ (c \in sessions' <=> c \in sessions)
  PROVE  Tasks'
<1>1. \A i \in DOMAIN queue : queue[i] \in Task /\ queue[i][2] # task[2]
  BY DEF IInv, TypeOK, Tasks, Running
<1>2. ASSUME NEW i \in DOMAIN queue PROVE Awaited(queue[i])'
  <2>1. Awaited(queue[i]) /\ queue[i] \in Task
    BY <1>1 DEF IInv, Tasks, Queued
  <2> QED
    BY <1>1, <2>1, TaskParts DEF Awaited
<1>3. queue' = queue /\ final' = final
  OBVIOUS
<1>4. Queued'
  BY <1>2, <1>3, Zenon DEF Queued
<1>5. Apart'
  BY <1>3 DEF IInv, Tasks, Apart
<1>6. Running' /\ Ending'
  BY <1>3 DEF Running, Ending, Busy
<1> QED
  BY <1>4, <1>5, <1>6 DEF Tasks

\* A step of a handler that is not waiting, and does not begin to
LEMMA TasksOthers ==
  ASSUME IInv, UNCHANGED <<main, task, queue, final, sessions>>,
         \A c \in Client : handler[c] = "waiting" => handler'[c] = "waiting"
  PROVE  Tasks'
<1>1. \A t \in Task : Awaited(t) => Awaited(t)'
  BY AwaitedStill, Zenon
<1>2. \A i \in DOMAIN queue : queue[i] \in Task
  BY DEF IInv, TypeOK
<1>3. main \in Busy /\ ~final => task \in Task /\ Awaited(task)
  BY DEF IInv, TypeOK, Tasks, Running
<1> QED
  BY <1>1, <1>2, <1>3 DEF IInv, Tasks, Queued, Apart, Running, Ending, Busy

-----------------------------------------------------------------------------
LEMMA FlagsStep ==
  ASSUME Flags, Next PROVE Flags'
<1>1. CASE Enter \/ Take \/ Wait \/ LeaveLoop \/ RunCommand \/ RunAttach \/ RunDetach
  BY <1>1, Zenon DEF Flags, Enter, Take, Wait, LeaveLoop, RunCommand, RunAttach,
    RunDetach, server
<1>2. CASE Stop \/ Interrupt \/ Cut \/ SendPing \/ MissPing \/ Join
  BY <1>2, Zenon DEF Flags, Stop, Interrupt, Cut, SendPing, MissPing, Join, server,
    socket
<1>3. CASE AcceptThread
  BY <1>3, Zenon DEF Flags, AcceptThread, AcceptTest, Accept, Register, loop,
    server
<1>4. CASE \E c \in Client : Handler(c)
  BY <1>4, Zenon DEF Flags, Handler, Read, Check, Call, Release, Close, loop,
    server
<1>5. CASE Environment
  BY <1>5, Zenon DEF Flags, Environment, HandleSignal, Connect, Say, Leave,
    Replace, loop, server
<1> QED
  BY <1>1, <1>2, <1>3, <1>4, <1>5, Zenon DEF Next, MainThread

\* The task that the main thread takes, or has taken
LEMMA TaskTaken ==
  ASSUME IInv, Take
  PROVE  /\ queue # <<>> /\ task' \in Task /\ queue' \in Seq(Task)
         /\ Awaited(task') /\ 1 \in DOMAIN queue /\ task' = queue[1]
         /\ \A i \in DOMAIN queue' :
              /\ i + 1 \in DOMAIN queue /\ i + 1 # 1
              /\ queue'[i] = queue[i + 1]
         /\ \A i, j \in DOMAIN queue' : i # j => i + 1 # j + 1
BY Taken DEF Take, IInv, TypeOK, Tasks, Queued

LEMMA TypeMain ==
  ASSUME IInv, MainThread, Flags'
  PROVE  TypeOK'
<1> USE DEF IInv, TypeOK
<1>1. CASE Enter
  BY <1>1 DEF Enter, server, socket, clients
<1>2. CASE Take
  BY <1>2, TaskTaken DEF Take, server, socket, clients
<1>3. CASE Wait
  BY <1>3 DEF Wait, server, socket, clients
<1>4. CASE LeaveLoop
  BY <1>4 DEF LeaveLoop, server, socket, clients
<1>5. CASE RunCommand
  BY <1>5 DEF RunCommand, Goes, Place, server, socket, clients
<1>6. CASE RunAttach
  <2>1. task[2] \in WakeLock
    BY <1>6, TaskParts DEF RunAttach, Tasks, Running, Awaited, Busy, Ending
  <2> QED
    BY <1>6, <2>1 DEF RunAttach, Goes, Place, server, socket, clients
<1>7. CASE RunDetach
  BY <1>7 DEF RunDetach, Goes, Place, server, socket, clients
<1>8. CASE Stop
  BY <1>8 DEF Stop, Return, Place, server, socket, clients
<1>9. CASE Interrupt
  BY <1>9 DEF Interrupt, socket, clients
<1>10. CASE Cut
  BY <1>10 DEF Cut, server, socket, clients
<1>11. CASE SendPing
  <2>a. /\ backlog' \in {backlog, Append(backlog, Ping)}
        /\ main' \in {"join", "blocked"}
    BY <1>11 DEF SendPing
  <2>b. Append(backlog, Ping) \in Seq(Client \cup {Ping})
    OBVIOUS
  <2>1. backlog' \in Seq(Client \cup {Ping}) /\ main' \in {"join", "blocked"}
    BY <2>a, <2>b
  <2> QED
    BY <1>11, <2>1 DEF SendPing, server, clients
<1>12. CASE Join
  BY <1>12 DEF Join, Return, Place, socket, clients
<1>13. CASE MissPing
  BY <1>13 DEF MissPing, Return, Place, server, socket, clients
<1> QED
  BY <1>1, <1>2, <1>3, <1>4, <1>5, <1>6, <1>7, <1>8, <1>9, <1>10, <1>11, <1>12,
    <1>13
    DEF MainThread

LEMMA TypeOthers ==
  ASSUME IInv, AcceptThread \/ (\E c \in Client : Handler(c)) \/ Environment, Flags'
  PROVE  TypeOK'
<1> USE DEF IInv, TypeOK
<1>1. CASE AcceptTest
  BY <1>1 DEF AcceptTest, loop, server, clients
<1>2. CASE Accept
  BY <1>2, Taken DEF Accept, loop, server, clients
<1>3. CASE Register
  BY <1>3 DEF Register, Arrivals, Goes, Place, loop, server, clients
<1>4. ASSUME NEW c \in Client, Handler(c) PROVE TypeOK'
  <2>1. CASE Read(c) \/ Check(c) \/ Close(c)
    BY <2>1 DEF Read, Check, Close, Goes, Place, loop, server, socket, clients
  <2>2. CASE Call(c) \/ Release(c)
    <3>1. PICK t \in Task : queue' = Append(queue, t)
      <4>1. CASE Call(c)
        <5>1. <<IF c \in WakeLock THEN "attach" ELSE "command", c>> \in Task
          BY DEF Task
        <5> QED
          BY <4>1, <5>1 DEF Call, Enqueue
      <4>2. CASE Release(c)
        BY <4>2 DEF Release, Enqueue, Task
      <4> QED
        BY <2>2, <4>1, <4>2
    <3>2. queue' \in Seq(Task)
      BY <3>1, Appended
    <3> QED
      BY <2>2, <3>2 DEF Call, Release, Goes, Place, server, socket, clients
  <2> QED
    BY <1>4, <2>1, <2>2 DEF Handler
<1>5. CASE HandleSignal
  <2>1. queue' \in Seq(Task)
    <3>1. <<"stop", Signal>> \in Task
      BY DEF Task
    <3>2. \A t \in Task : Append(queue, t) \in Seq(Task)
      BY Appended
    <3> QED
      BY <1>5, <3>1, <3>2, Zenon DEF HandleSignal, Enqueue
  <2> QED
    BY <1>5, <2>1, BoundAssumption DEF HandleSignal, server, socket, clients
<1>6. ASSUME NEW c \in Client, Connect(c) \/ Say(c) \/ Leave(c) PROVE TypeOK'
  <2>1. CASE Connect(c)
    <3>1. backlog' \in Seq(Client \cup {Ping})
      BY <2>1 DEF Connect
    <3>2. handler' \in [Client -> Place]
      BY <2>1 DEF Connect, Goes, Place
    <3> QED
      BY <2>1, <3>1, <3>2 DEF Connect, loop, server, clients
  <2>2. CASE Say(c) \/ Leave(c)
    BY <2>2 DEF Say, Leave, loop, server, socket
  <2> QED
    BY <1>6, <2>1, <2>2
<1>7. CASE Replace
  BY <1>7 DEF Replace, loop, server, socket, clients
<1> QED
  BY <1>1, <1>2, <1>3, <1>4, <1>5, <1>6, <1>7 DEF AcceptThread, Environment

-----------------------------------------------------------------------------
\* stop() ends, and the main thread has done with its task.
LEMMA TasksReturn ==
  ASSUME IInv, main \in Busy, Return, UNCHANGED <<task, queue, final, sessions>>
  PROVE  Tasks'
<1>1. CASE final
  <2>1. \A c \in Client : handler'[c] = handler[c]
    BY <1>1 DEF Return
  <2>2. \A t \in Task : Awaited(t) => Awaited(t)'
    BY <2>1, AwaitedStill
  <2>3. \A i \in DOMAIN queue : queue[i] \in Task
    BY DEF IInv, TypeOK
  <2> QED
    BY <1>1, <2>2, <2>3 DEF Return, IInv, Tasks, Queued, Apart, Running, Ending, Busy
<1>2. CASE ~final
  <2>1. task \in Task /\ main' = "test"
    BY <1>2 DEF Return, IInv, TypeOK
  <2>2. CASE task[1] # "stop"
    <3>1. \A c \in Client : c # task[2] => handler'[c] = handler[c]
      BY <2>1 DEF Return
    <3> QED
      BY <1>2, <2>1, <2>2, <3>1, TasksServed
  <2>3. CASE task[1] = "stop"
    <3>1. \A c \in Client : handler'[c] = handler[c]
      BY <2>3 DEF Return
    <3>2. \A t \in Task : Awaited(t) => Awaited(t)'
      BY <3>1, AwaitedStill
    <3>3. \A i \in DOMAIN queue : queue[i] \in Task
      BY DEF IInv, TypeOK
    <3> QED
      BY <1>2, <2>1, <3>2, <3>3
        DEF IInv, Tasks, Queued, Apart, Running, Ending, Busy
  <2> QED
    BY <2>2, <2>3
<1> QED
  BY <1>1, <1>2

LEMMA TasksMain ==
  ASSUME IInv, MainThread
  PROVE  Tasks'
<1>1. CASE Enter \/ Wait \/ LeaveLoop
  <2>1. UNCHANGED <<queue, handler, sessions>> /\ ~final
    BY <1>1 DEF Enter, Wait, LeaveLoop, IInv, Tasks, Ending, Busy
  <2>2. Queued' /\ Apart'
    BY <2>1 DEF IInv, Tasks, Queued, Apart, Awaited
  <2>3. Running' /\ Ending'
    BY <1>1, <2>1 DEF Enter, Wait, LeaveLoop, Running, Ending, Busy
  <2> QED
    BY <2>2, <2>3 DEF Tasks
<1>2. CASE Take
  <2>1. UNCHANGED <<handler, sessions, final>> /\ ~final /\ main' \in {"stop", "run"}
    BY <1>2 DEF Take, IInv, Tasks, Ending, Busy
  <2>2. \A t \in Task : Awaited(t) => Awaited(t)'
    BY <2>1, AwaitedStill
  <2>3. Queued'
    <3>1. ASSUME NEW i \in DOMAIN queue' PROVE Awaited(queue[i])'
      <4>1. /\ queue'[i] = queue[i + 1] /\ i + 1 \in DOMAIN queue
            /\ queue[i + 1] \in Task /\ Awaited(queue[i + 1])
        BY <1>2, TaskTaken DEF IInv, TypeOK, Tasks, Queued
      <4>2. queue'[i] \in Task /\ Awaited(queue'[i])
        BY <4>1
      <4> QED
        BY <4>2, <2>1 DEF Awaited
    <3> QED
      BY <3>1, Zenon DEF Queued
  <2>4. Apart'
    BY <1>2, TaskTaken DEF IInv, Tasks, Apart
  <2>5. Running'
    <3>1. Awaited(task)'
      <4>1. Awaited(task') /\ task' \in Task
        BY <1>2, TaskTaken
      <4> QED
        BY <4>1, <2>1 DEF Awaited
    <3>2. task'[1] # "stop" => \A i \in DOMAIN queue' : queue'[i][2] # task'[2]
      BY <1>2, TaskTaken DEF IInv, Tasks, Apart
    <3> QED
      BY <3>1, <3>2 DEF Running
  <2>6. Ending'
    BY <2>1 DEF Ending
  <2> QED
    BY <2>3, <2>4, <2>5, <2>6 DEF Tasks
<1>3. CASE RunCommand \/ RunAttach \/ RunDetach
  <2>1. main = "run" /\ main' = "test" /\ task[1] # "stop" /\ main \in Busy /\ ~final
    BY <1>3 DEF RunCommand, RunAttach, RunDetach, Busy, IInv, Tasks, Ending
  <2>2. UNCHANGED <<queue, final>>
    BY <1>3 DEF RunCommand, RunAttach, RunDetach
  <2>3. \A c \in Client : c # task[2] =>
          handler'[c] = handler[c] /\ (c \in sessions' <=> c \in sessions)
    BY <1>3 DEF RunCommand, RunAttach, RunDetach, Goes, IInv, TypeOK
  <2> QED
    BY <2>1, <2>2, <2>3, TasksServed
<1>4. CASE Stop
  <2>1. CASE main' = "interrupt" /\ UNCHANGED handler
    <3>1. UNCHANGED <<queue, final, sessions, task, handler>> /\ main \in Busy
      BY <1>4, <2>1 DEF Stop, Busy
    <3> QED
      BY <2>1, <3>1
        DEF IInv, Tasks, Queued, Apart, Running, Ending, Busy, Awaited
  <2>2. CASE Return
    BY <1>4, <2>2, TasksReturn DEF Stop, Busy
  <2> QED
    BY <1>4, <2>1, <2>2 DEF Stop
<1>5. CASE Interrupt \/ Cut \/ SendPing
  <2>1. /\ UNCHANGED <<queue, final, sessions, task, handler>> /\ main \in Busy
        /\ main' \in Busy \ {"run"}
    BY <1>5 DEF Interrupt, Cut, SendPing, Busy
  <2> QED
    BY <2>1 DEF IInv, Tasks, Queued, Apart, Running, Ending, Busy, Awaited
<1>6. CASE Join
  BY <1>6, TasksReturn DEF Join, Busy
<1>7. CASE MissPing
  <2>1. main \in Busy /\ UNCHANGED <<queue, final, sessions, task>>
    BY <1>7 DEF MissPing, Busy
  <2>2. CASE main' = "join" /\ UNCHANGED handler
    BY <2>1, <2>2 DEF IInv, Tasks, Queued, Apart, Running, Ending, Busy, Awaited
  <2>3. CASE Return
    BY <2>1, <2>3, TasksReturn
  <2> QED
    BY <1>7, <2>2, <2>3 DEF MissPing
<1> QED
  BY <1>1, <1>2, <1>3, <1>4, <1>5, <1>6, <1>7 DEF MainThread

LEMMA TasksHandler ==
  ASSUME IInv, NEW c \in Client, Handler(c)
  PROVE  Tasks'
<1>1. CASE Read(c) \/ Check(c) \/ Close(c)
  <2>1. /\ UNCHANGED <<main, task, queue, final, sessions>>
        /\ \A d \in Client : handler[d] = "waiting" => handler'[d] = "waiting"
    BY <1>1 DEF Read, Check, Close, Goes, loop, IInv, TypeOK
  <2> QED
    BY <2>1, TasksOthers
<1>2. CASE Call(c) \/ Release(c)
  <2>1. PICK kind \in {"command", "attach", "detach"} :
          /\ queue' = Append(queue, <<kind, c>>)
          /\ kind = "command" <=> c \notin WakeLock
          /\ kind = "attach" => c \notin sessions
    <3>1. CASE Call(c)
      BY <3>1 DEF Call, Enqueue, IInv, NoLeakedWakeLock
    <3>2. CASE Release(c)
      BY <3>2 DEF Release, Enqueue, IInv, Holders
    <3> QED
      BY <1>2, <3>1, <3>2
  <2>2. <<kind, c>> \in Task /\ <<kind, c>>[1] # "stop"
    BY DEF Task
  <2>3. /\ handler[c] # "waiting" /\ handler'[c] = "waiting"
        /\ \A d \in Client : handler[d] = "waiting" => handler'[d] = "waiting"
        /\ UNCHANGED <<main, task, final, sessions>>
    BY <1>2 DEF Call, Release, Goes, IInv, TypeOK
  <2>4. Awaited(<<kind, c>>)'
    BY <2>1, <2>3 DEF Awaited
  <2> QED
    BY <2>1, <2>2, <2>3, <2>4, TasksEnqueue
<1> QED
  BY <1>1, <1>2 DEF Handler

LEMMA TasksRest ==
  ASSUME IInv, AcceptThread \/ Environment
  PROVE  Tasks'
<1>1. CASE HandleSignal
  <2>1. CASE main = "locked" /\ main' = "stuck" /\ UNCHANGED queue
    <3>1. UNCHANGED <<queue, handler, sessions, final>> /\ ~final
      BY <1>1, <2>1 DEF HandleSignal, IInv, Tasks, Ending, Busy
    <3> QED
      BY <2>1, <3>1 DEF IInv, Tasks, Queued, Apart, Running, Ending, Busy, Awaited
  <2>2. CASE Enqueue(<<"stop", Signal>>) /\ UNCHANGED main
    <3> DEFINE t == <<"stop", Signal>>
    <3>1. /\ t \in Task /\ t[1] = "stop" /\ queue' = Append(queue, t)
          /\ UNCHANGED <<main, task, final, sessions, handler>>
      BY <1>1, <2>2 DEF HandleSignal, Enqueue, Task
    <3>2. Awaited(t)'
      BY DEF Awaited
    <3> HIDE DEF t
    <3> QED
      BY <3>1, <3>2, TasksEnqueue
  <2> QED
    BY <1>1, <2>1, <2>2 DEF HandleSignal
<1>2. CASE AcceptThread \/ Replace \/ \E c \in Client : Connect(c) \/ Say(c) \/ Leave(c)
  <2>1. /\ UNCHANGED <<main, task, queue, final, sessions>>
        /\ \A d \in Client : handler[d] = "waiting" => handler'[d] = "waiting"
    BY <1>2 DEF AcceptThread, AcceptTest, Accept, Register, Replace, Connect, Say,
      Leave, Goes, loop, IInv, TypeOK, Arrivals
  <2> QED
    BY <2>1, TasksOthers
<1> QED
  BY <1>1, <1>2 DEF Environment

-----------------------------------------------------------------------------
\* What the end of stop() does to the handlers
LEMMA ReturnWakes ==
  ASSUME IInv, main \in Busy, Return, NEW c \in Client
  PROVE  \/ handler'[c] = handler[c]
         \/ handler[c] = "waiting" /\ handler'[c] = "served" /\ c \notin sessions
BY DEF Return, IInv, TypeOK, Tasks, Running, Awaited

\* What a step of the main thread does to the handlers, and to their wake locks
LEMMA MainWakes ==
  ASSUME IInv, MainThread, NEW c \in Client
  PROVE  \/ handler'[c] = handler[c] /\ (c \in sessions' <=> c \in sessions)
         \/ handler[c] = "waiting" /\ handler'[c] = "served" /\ c \notin sessions'
         \/ /\ ~closing /\ UNCHANGED closing /\ main = "run" /\ main' = "test"
            /\ handler[c] = "waiting" /\ handler'[c] = "held"
            /\ c \in sessions' /\ c \in WakeLock
<1>1. CASE Enter \/ Take \/ Wait \/ LeaveLoop
  BY <1>1 DEF Enter, Take, Wait, LeaveLoop
<1>2. CASE RunCommand \/ RunAttach \/ RunDetach
  <2>1. /\ Awaited(task) /\ task[1] # "stop" /\ task \in Task
        /\ task[2] \in Client
    BY <1>2, TaskParts DEF RunCommand, RunAttach, RunDetach, IInv, TypeOK, Tasks,
      Running, Ending, Busy
  <2>2. task[2] \notin WakeLock => task[2] \notin sessions
    BY DEF IInv, TypeOK
  <2> QED
    BY <1>2, <2>1, <2>2 DEF RunCommand, RunAttach, RunDetach, Goes, Awaited, server,
      IInv, TypeOK
<1>3. CASE Stop \/ MissPing \/ Join
  BY <1>3, ReturnWakes DEF Stop, MissPing, Join, Busy
<1>4. CASE Interrupt \/ Cut \/ SendPing
  BY <1>4 DEF Interrupt, Cut, SendPing
<1> QED
  BY <1>1, <1>2, <1>3, <1>4 DEF MainThread

\* What the other steps do to them
LEMMA OthersWake ==
  ASSUME IInv, AcceptThread \/ (\E d \in Client : Handler(d)) \/ Environment,
         NEW c \in Client
  PROVE  /\ UNCHANGED <<sessions, closing, snapshot>>
         /\ main' = main \/ (main = "locked" /\ main' = "stuck")
         /\ shut' = shut
         /\ \/ handler'[c] = handler[c]
            \/ handler[c] # "waiting" /\ c \notin sessions
               /\ handler'[c] \notin {"held", "connected"}
            \/ handler[c] = "held" /\ handler'[c] = "waiting"
            \/ handler[c] = "none" /\ handler'[c] = "connected" /\ c \notin sessions
<1>1. CASE AcceptThread
  BY <1>1 DEF AcceptThread, AcceptTest, Accept, Register, Goes, loop, server, IInv,
    TypeOK, Arrivals, NoLeakedWakeLock
<1>2. ASSUME NEW d \in Client, Handler(d)
      PROVE  /\ UNCHANGED <<sessions, closing, snapshot, main, shut>>
             /\ \/ handler'[c] = handler[c]
                \/ handler[c] # "waiting" /\ c \notin sessions
                   /\ handler'[c] \notin {"held", "connected"}
                \/ handler[c] = "held" /\ handler'[c] = "waiting"
  BY <1>2 DEF Handler, Read, Check, Call, Release, Close, Goes, loop, server, IInv,
    TypeOK, NoLeakedWakeLock
<1>3. CASE Environment
  BY <1>3 DEF Environment, HandleSignal, Enqueue, Connect, Say, Leave, Replace, Goes,
    loop, server, IInv, TypeOK, NoLeakedWakeLock
<1> QED
  BY <1>1, <1>2, <1>3

LEMMA LocksStep ==
  ASSUME IInv, Next, TypeOK'
  PROVE  NoLeakedWakeLock' /\ HolderHasLock' /\ Holders'
<1> USE DEF IInv, TypeOK, NoLeakedWakeLock, HolderHasLock, Holders, Client
<1>1. CASE MainThread
  BY <1>1, MainWakes
<1>2. CASE AcceptThread \/ (\E d \in Client : Handler(d)) \/ Environment
  BY <1>2, OthersWake
<1> QED
  BY <1>1, <1>2 DEF Next

LEMMA ArrivalsOthers ==
  ASSUME Arrivals, UNCHANGED backlog,
         accepter' # "register" \/ UNCHANGED <<accepter, incoming>>,
         TypeOK,
         \A c \in Client : handler[c] = "connected" => handler'[c] = "connected"
  PROVE  Arrivals'
BY DEF Arrivals, TypeOK

LEMMA ArrivalsStep ==
  ASSUME IInv, Next
  PROVE  Arrivals'
<1>1. CASE MainThread /\ ~SendPing
  <2>1. UNCHANGED <<backlog, accepter, incoming>>
    BY <1>1 DEF MainThread, Enter, Take, Wait, LeaveLoop, RunCommand, RunAttach,
      RunDetach, Stop, Interrupt, Cut, MissPing, Join, socket
  <2>2. \A c \in Client : handler[c] = "connected" => handler'[c] = "connected"
    BY <1>1, MainWakes
  <2> QED
    BY <2>1, <2>2, ArrivalsOthers DEF IInv
<1>2. CASE SendPing
  <2>1. UNCHANGED <<accepter, incoming, handler>>
    BY <1>2 DEF SendPing
  <2>2. CASE UNCHANGED backlog
    BY <2>1, <2>2, ArrivalsOthers DEF IInv
  <2>3. CASE backlog' = Append(backlog, Ping)
    <3>1. /\ DOMAIN backlog' = DOMAIN backlog \cup {Len(backlog) + 1}
          /\ backlog'[Len(backlog) + 1] = Ping
          /\ \A i \in DOMAIN backlog : backlog'[i] = backlog[i]
      BY <2>3, Appended DEF IInv, TypeOK
    <3>2. Ping \notin Client
      BY ClientAssumption
    <3> QED
      BY <2>1, <3>1, <3>2 DEF IInv, Arrivals
  <2> QED
    BY <1>2, <2>2, <2>3 DEF SendPing
<1>3. CASE AcceptTest
  BY <1>3, ArrivalsOthers DEF AcceptTest, IInv
<1>4. CASE Accept
  <2>1. /\ backlog # <<>> /\ backlog' = Tail(backlog) /\ incoming' = backlog[1]
        /\ accepter' = IF incoming' = Ping THEN "test" ELSE "register"
        /\ UNCHANGED handler
    BY <1>4, Taken DEF Accept, IInv, TypeOK
  <2>2. /\ 1 \in DOMAIN backlog /\ backlog[1] \in Client \cup {Ping}
        /\ \A i \in DOMAIN backlog' :
             i + 1 \in DOMAIN backlog /\ i + 1 # 1 /\ backlog'[i] = backlog[i + 1]
        /\ \A i, j \in DOMAIN backlog' : i # j => i + 1 # j + 1
    BY <2>1, Taken DEF IInv, TypeOK
  <2> QED
    BY <2>1, <2>2 DEF IInv, Arrivals
<1>5. CASE Register
  BY <1>5 DEF Register, Goes, IInv, TypeOK, Arrivals
<1>6. ASSUME NEW c \in Client, Handler(c)
      PROVE  Arrivals'
  <2>1. UNCHANGED <<backlog, accepter, incoming>>
    BY <1>6 DEF Handler, Read, Check, Call, Release, Close, socket
  <2>2. \A d \in Client : handler[d] = "connected" => handler'[d] = "connected"
    BY <1>6 DEF Handler, Read, Check, Call, Release, Close, Goes, IInv, TypeOK
  <2> QED
    BY <2>1, <2>2, ArrivalsOthers DEF IInv
<1>7. ASSUME NEW c \in Client, Connect(c)
      PROVE  Arrivals'
  <2>1. /\ DOMAIN backlog' = DOMAIN backlog \cup {Len(backlog) + 1}
        /\ backlog'[Len(backlog) + 1] = c
        /\ \A i \in DOMAIN backlog : backlog'[i] = backlog[i]
    BY <1>7, Appended DEF Connect, IInv, TypeOK
  <2>2. /\ UNCHANGED <<accepter, incoming>> /\ handler[c] = "none"
        /\ handler'[c] = "connected" /\ c # Ping
        /\ \A d \in Client : d # c => handler'[d] = handler[d]
    BY <1>7, ClientAssumption DEF Connect, Goes, IInv, TypeOK
  <2> QED
    BY <2>1, <2>2 DEF IInv, Arrivals, TypeOK
<1>8. CASE HandleSignal \/ Replace \/ \E c \in Client : Say(c) \/ Leave(c)
  BY <1>8, ArrivalsOthers DEF HandleSignal, Replace, Say, Leave, socket, IInv
<1> QED
  BY <1>1, <1>2, <1>3, <1>4, <1>5, <1>6, <1>7, <1>8
    DEF Next, AcceptThread, Environment

LEMMA RegistrationsStep ==
  ASSUME IInv, Next, TypeOK'
  PROVE  Registrations' /\ HoldersAreInterrupted'
<1> DEFINE Living == {"none", "connected", "ended"}
<1>1. CASE MainThread
  <2>1. UNCHANGED requests
    BY <1>1 DEF MainThread, Enter, Take, Wait, LeaveLoop, RunCommand, RunAttach,
      RunDetach, Stop, Interrupt, Cut, SendPing, MissPing, Join
  <2>2. \A c \in Client : handler'[c] \notin Living => c \in requests'
    BY <1>1, <2>1, MainWakes DEF IInv, Registrations
  <2>3. CASE Interrupt
    BY <2>2, <2>3 DEF Interrupt, IInv, Registrations, HoldersAreInterrupted, Client
  <2>4. CASE Cut
    BY <2>2, <2>4 DEF Cut, server, IInv, Registrations, HoldersAreInterrupted, Client
  <2>5. CASE ~Interrupt /\ ~Cut
    <3>1. /\ main # "cut" /\ main' # "cut" /\ UNCHANGED <<closing, shut>>
      BY <1>1, <2>5 DEF MainThread, Enter, Take, Wait, LeaveLoop, RunCommand,
        RunAttach, RunDetach, Stop, Return, SendPing, MissPing, Join, server
    <3> QED
      BY <1>1, <2>2, <3>1, MainWakes
        DEF IInv, Registrations, HoldersAreInterrupted, Client
  <2> QED
    BY <2>3, <2>4, <2>5
<1>2. CASE AcceptThread \/ (\E d \in Client : Handler(d)) \/ Environment
  <2>1. \A c \in Client : handler'[c] \notin Living => c \in requests'
    <3>1. CASE AcceptThread
      BY <3>1 DEF AcceptThread, AcceptTest, Accept, Register, Goes, IInv,
        Registrations, TypeOK
    <3>2. ASSUME NEW d \in Client, Handler(d), NEW c \in Client
          PROVE  handler'[c] \notin Living => c \in requests'
      BY <3>2 DEF Handler, Read, Check, Call, Release, Close, Goes, IInv,
        Registrations, TypeOK
    <3>3. CASE Environment
      BY <3>3 DEF Environment, HandleSignal, Connect, Say, Leave, Replace, Goes,
        IInv, Registrations, TypeOK
    <3> QED
      BY <1>2, <3>1, <3>2, <3>3
  <2> QED
    BY <1>2, <2>1, OthersWake
      DEF IInv, Registrations, HoldersAreInterrupted, Client
<1> QED
  BY <1>1, <1>2 DEF Next

LEMMA InvStep == IInv /\ [Next]_vars => IInv'
<1> SUFFICES ASSUME IInv, [Next]_vars PROVE IInv'
  OBVIOUS
<1>1. CASE Next
  <2>1. TypeOK'
    BY <1>1, FlagsStep, TypeMain, TypeOthers DEF Next, IInv, TypeOK
  <2>2. Tasks'
    BY <1>1, TasksMain, TasksHandler, TasksRest DEF Next
  <2> QED
    BY <1>1, <2>1, <2>2, LocksStep, ArrivalsStep, RegistrationsStep DEF IInv
<1>2. CASE UNCHANGED vars
  <2>1. UNCHANGED <<main, task, queue, stopping, final, signals, accepter, incoming,
                    backlog, replaced, serverUp, closing, requests, snapshot,
                    handler, said, left, shut, sessions>>
    BY <1>2 DEF vars, loop, server, socket, clients
  <2> QED
    <3>1. Flags'
      BY <2>1, Zenon DEF IInv, TypeOK, Flags
    <3>2. TypeOK'
      BY <2>1, <3>1 DEF IInv, TypeOK
    <3>3. Tasks'
      BY <2>1, TasksOthers
    <3>4. Arrivals' /\ Registrations'
      BY <2>1 DEF IInv, Arrivals, Registrations
    <3>5. (NoLeakedWakeLock /\ HolderHasLock /\ HoldersAreInterrupted /\ Holders)'
      BY <2>1 DEF IInv, NoLeakedWakeLock, HolderHasLock, HoldersAreInterrupted, Holders
    <3> QED
      BY <3>2, <3>3, <3>4, <3>5 DEF IInv
<1> QED
  BY <1>1, <1>2

LEMMA Invariance == Spec => []IInv
BY InvInit, InvStep, PTL DEF Spec

\* The wake locks that are attached are those of the clients that hold one, or
\* whose attaching or detaching the main thread has yet to do: whichever way
\* the client, the server and the main thread part (modules/server.py:101-142).
THEOREM WakeLocks == Spec => []WakeLocksMatchHolders
<1>1. IInv => WakeLocksMatchHolders
  BY DEF IInv, WakeLocksMatchHolders
<1> QED
  BY <1>1, Invariance, PTL

\* No handler goes on holding its client once the server has interrupted the
\* requests, of however many threads (modules/server.py:80-82, 103-104, 212-225).
THEOREM Interrupted == Spec => []HoldersAreInterrupted
<1>1. IInv => HoldersAreInterrupted
  BY DEF IInv
<1> QED
  BY <1>1, Invariance, PTL
=============================================================================
