------------------------------- MODULE Daemon -------------------------------
(***************************************************************************)
(* The threads of the Blankie daemon: the event loop and its shutdown      *)
(* (daemon.py), the accept thread and the handler threads of the command   *)
(* socket (modules/server.py), and the command-line clients at the other   *)
(* end (server.py).                                                        *)
(*                                                                         *)
(* Each client connects once, with one command.  Of the commands, "stop"   *)
(* and "wake-lock" are modelled, all others are alike: the main thread     *)
(* runs them in one step.  Of the modules, shutdown() stops the server, or *)
(* fails before it reaches it.  The two critical sections of the queue in  *)
(* the loop, queue.empty() and queue.get(), are one: only the main thread  *)
(* takes tasks out, or sets stopping.                                      *)
(***************************************************************************)
EXTENDS Naturals, FiniteSets, Sequences

CONSTANTS
  Query,            \* clients that send an ordinary command
  WakeLock,         \* clients that take a wake lock
  Stopper,          \* clients that send "stop"
  Ping,             \* the server-shutdown-ping connection
  Signal,           \* stands for a SIGINT or SIGTERM
  Backlog,          \* how many connections may wait to be accepted
  MaxSignals,       \* bound: signals in a behaviour
  AttachMayFail,    \* whether the update() of attach() may raise
  ShutdownMayFail,  \* whether the update() of shutdown() may raise
  MayBeReplaced     \* whether another daemon may be started

Client == Query \cup WakeLock \cup Stopper

ASSUME ClientAssumption ==
  /\ Query \cap WakeLock = {}
  /\ (Query \cup WakeLock) \cap Stopper = {}
  /\ {Ping, Signal} \cap Client = {}

ASSUME BoundAssumption ==
  /\ Backlog \in Nat \ {0}
  /\ MaxSignals \in Nat
  /\ {AttachMayFail, ShutdownMayFail, MayBeReplaced} \subseteq BOOLEAN

VARIABLES
  main,       \* where the main thread is; it has the queue's mutex in "locked"
  task,       \* what it runs, or ran last
  queue,      \* tasks, of which <<"stop", Signal>> comes from a signal
  stopping,   \* EventLoop.stopping
  final,      \* the event loop has ended, start() calls stop() once more
  signals,    \* signals so far (history, for the bound)
  accepter,   \* where the accept thread is
  incoming,   \* the connection it has accepted last
  backlog,    \* connections waiting to be accepted
  replaced,   \* the socket's path now leads to another daemon
  serverUp,   \* the server module is running
  closing,    \* SocketServer.stopping
  requests,   \* SocketServer.requests
  snapshot,   \* the copy of it in interrupt_requests
  handler,    \* where the handler thread of each client is
  said,       \* clients that have sent their command
  left,       \* clients that have exited, or closed their end
  shut,       \* clients whose connection was shut down by the daemon
  sessions    \* session_specs: the clients whose wake lock is attached

loop == <<main, task, queue, stopping, final>>
server == <<serverUp, closing, snapshot>>
socket == <<accepter, incoming, backlog>>
clients == <<said, left>>
vars == <<loop, signals, socket, replaced, server, requests, handler, clients,
          shut, sessions>>

Task == ({"command", "attach", "detach"} \X Client) \cup {<<"stop", Signal>>}

\* A thread can take the mutex, to put a task: EventLoop.call.
MutexFree == main \notin {"locked", "stuck"}

Enqueue(t) ==
  /\ MutexFree
  /\ queue' = Append(queue, t)

Goes(c, place) == handler' = [handler EXCEPT ![c] = place]
-----------------------------------------------------------------------------
(***************************************************************************)
(* The main thread: EventLoop.run.                                         *)
(***************************************************************************)
Enter ==
  /\ main = "test" \/ (main = "waiting" /\ queue # <<>>)
  /\ main' = "locked"
  /\ UNCHANGED <<task, queue, stopping, final, signals, socket, replaced,
                 server, requests, handler, clients, shut, sessions>>

Take ==
  /\ main = "locked"
  /\ queue # <<>>
  /\ task' = Head(queue)
  /\ queue' = Tail(queue)
  /\ main' = IF task' = <<"stop", Signal>> \/ task'[2] \in Stopper
             THEN "stop" ELSE "run"
  /\ UNCHANGED <<stopping, final, signals, socket, replaced, server, requests,
                 handler, clients, shut, sessions>>

Wait ==
  /\ main = "locked"
  /\ queue = <<>>
  /\ ~stopping
  /\ main' = "waiting"
  /\ UNCHANGED <<task, queue, stopping, final, signals, socket, replaced,
                 server, requests, handler, clients, shut, sessions>>

LeaveLoop ==
  /\ main = "locked"
  /\ queue = <<>>
  /\ stopping
  /\ final' = TRUE
  /\ main' = "stop"
  /\ UNCHANGED <<task, queue, stopping, signals, socket, replaced, server,
                 requests, handler, clients, shut, sessions>>

\* server_run_command: whatever happens, the handler is woken up.
RunCommand ==
  /\ main = "run"
  /\ task[1] = "command"
  /\ Goes(task[2], "served")
  /\ main' = "test"
  /\ UNCHANGED <<task, queue, stopping, final, signals, socket, replaced,
                 server, requests, clients, shut, sessions>>

\* Mutated: the handler is not woken up when attaching fails.
RunAttachNoFinally ==
  /\ main = "run"
  /\ task[1] = "attach"
  /\ \/ /\ closing
        /\ Goes(task[2], "served")
        /\ UNCHANGED sessions
     \/ /\ ~closing
        /\ sessions' = sessions \cup {task[2]}
        /\ Goes(task[2], "held")
     \/ /\ ~closing
        /\ AttachMayFail
        /\ UNCHANGED <<handler, sessions>>
  /\ main' = "test"
  /\ UNCHANGED <<task, queue, stopping, final, signals, socket, replaced,
                 server, requests, clients, shut>>

\* The attach() of server_wake_lock: nothing when the server is stopping, and
\* nothing remains when the update fails.
RunAttach ==
  /\ main = "run"
  /\ task[1] = "attach"
  /\ \/ /\ closing \/ AttachMayFail
        /\ Goes(task[2], "served")
        /\ UNCHANGED sessions
     \/ /\ ~closing
        /\ sessions' = sessions \cup {task[2]}
        /\ Goes(task[2], "held")
  /\ main' = "test"
  /\ UNCHANGED <<task, queue, stopping, final, signals, socket, replaced,
                 server, requests, clients, shut>>

\* The detach() of server_wake_lock.  It leaves session_specs first.
RunDetach ==
  /\ main = "run"
  /\ task[1] = "detach"
  /\ sessions' = sessions \ {task[2]}
  /\ Goes(task[2], "served")
  /\ main' = "test"
  /\ UNCHANGED <<task, queue, stopping, final, signals, socket, replaced,
                 server, requests, clients, shut>>
-----------------------------------------------------------------------------
(***************************************************************************)
(* The main thread: stop(), as a task or at the end of start(), shutdown() *)
(* and ServerModule.stop.                                                  *)
(***************************************************************************)
\* stop() returns: to the loop, waking the client up that asked for it, or to
\* the exit of the process.
Return ==
  /\ main' = IF final THEN "exited" ELSE "test"
  /\ handler' = [c \in Client |->
       IF ~final /\ task = <<"command", c>> THEN "served" ELSE handler[c]]

\* Mutated: the decision to exit comes after the cleanup.
StopCleansFirst ==
  /\ main = "stop"
  /\ \/ /\ serverUp
        /\ main' = "interrupt"
        /\ stopping' = TRUE
        /\ UNCHANGED handler
     \/ /\ ~serverUp
        /\ stopping' = TRUE
        /\ Return
     \/ /\ ShutdownMayFail
        /\ UNCHANGED stopping
        /\ Return
  /\ UNCHANGED <<task, queue, final, signals, socket, replaced, server,
                 requests, clients, shut, sessions>>

Stop ==
  /\ main = "stop"
  /\ stopping' = TRUE
  /\ \/ /\ serverUp
        /\ main' = "interrupt"
        /\ UNCHANGED handler
     \/ /\ ~serverUp \/ ShutdownMayFail
        /\ Return
  /\ UNCHANGED <<task, queue, final, signals, socket, replaced, server,
                 requests, clients, shut, sessions>>

\* interrupt_requests: the critical section.
Interrupt ==
  /\ main = "interrupt"
  /\ closing' = TRUE
  /\ snapshot' = requests
  /\ main' = "cut"
  /\ UNCHANGED <<task, queue, stopping, final, signals, socket, replaced,
                 serverUp, requests, handler, clients, shut, sessions>>

Cut ==
  /\ main = "cut"
  /\ shut' = shut \cup snapshot
  /\ main' = "ping"
  /\ UNCHANGED <<task, queue, stopping, final, signals, socket, replaced,
                 server, requests, handler, clients, sessions>>

\* notify('server-shutdown-ping'): connect() blocks on a full backlog.
SendPing ==
  /\ main = "blocked" \/ (main = "ping" /\ ~replaced)
  /\ IF Len(backlog) < Backlog
     THEN main' = "join" /\ backlog' = Append(backlog, Ping)
     ELSE main' = "blocked" /\ UNCHANGED backlog
  /\ UNCHANGED <<task, queue, stopping, final, signals, accepter, incoming,
                 replaced, server, requests, handler, clients, shut, sessions>>

\* It goes to the other daemon, or fails as that one is starting, or is gone:
\* the UserError leaves the server running, and shutdown() at once.
MissPing ==
  /\ main = "ping"
  /\ replaced
  /\ \/ main' = "join" /\ UNCHANGED handler
     \/ Return
  /\ UNCHANGED <<task, queue, stopping, final, signals, socket, replaced,
                 server, requests, clients, shut, sessions>>

Join ==
  /\ main = "join"
  /\ accepter = "ended"
  /\ serverUp' = FALSE
  /\ Return
  /\ UNCHANGED <<task, queue, stopping, final, signals, socket, replaced,
                 closing, snapshot, requests, clients, shut, sessions>>

\* signal_stop runs in the main thread, between two steps of what it does or
\* in the middle of a wait.  The mutex of queue.Queue is not re-entrant.
HandleSignal ==
  /\ signals < MaxSignals
  /\ main \notin {"exited", "stuck"}
  /\ signals' = signals + 1
  /\ \/ /\ main = "locked"
        /\ main' = "stuck"
        /\ UNCHANGED queue
     \/ /\ Enqueue(<<"stop", Signal>>)
        /\ UNCHANGED main
  /\ UNCHANGED <<task, stopping, final, socket, replaced, server, requests,
                 handler, clients, shut, sessions>>

MainThread ==
  \/ Enter \/ Take \/ Wait \/ LeaveLoop
  \/ RunCommand \/ RunAttach \/ RunDetach
  \/ Stop \/ Interrupt \/ Cut \/ SendPing \/ MissPing \/ Join
-----------------------------------------------------------------------------
(***************************************************************************)
(* The accept thread: server_thread_func, handle_request of socketserver,  *)
(* process_request.                                                        *)
(***************************************************************************)
Alive == main # "exited"

AcceptTest ==
  /\ Alive
  /\ accepter = "test"
  /\ accepter' = IF closing THEN "ended" ELSE "accept"
  /\ UNCHANGED <<loop, signals, incoming, backlog, replaced, server, requests,
                 handler, clients, shut, sessions>>

\* The handler of a ping returns at once.
Accept ==
  /\ Alive
  /\ accepter = "accept"
  /\ backlog # <<>>
  /\ incoming' = Head(backlog)
  /\ backlog' = Tail(backlog)
  /\ accepter' = IF incoming' = Ping THEN "test" ELSE "register"
  /\ UNCHANGED <<loop, signals, replaced, server, requests, handler, clients,
                 shut, sessions>>

\* Mutated: the request is not recorded.
RegisterNot ==
  /\ Alive
  /\ accepter = "register"
  /\ Goes(incoming, "reading")
  /\ accepter' = "test"
  /\ UNCHANGED <<loop, signals, incoming, backlog, replaced, server, requests,
                 clients, shut, sessions>>

Register ==
  /\ Alive
  /\ accepter = "register"
  /\ requests' = requests \cup {incoming}
  /\ Goes(incoming, "reading")
  /\ accepter' = "test"
  /\ UNCHANGED <<loop, signals, incoming, backlog, replaced, server, clients,
                 shut, sessions>>

AcceptThread == AcceptTest \/ Accept \/ Register
-----------------------------------------------------------------------------
(***************************************************************************)
(* The handler thread of client c: server_reader, server_wake_lock,        *)
(* process_request_thread.                                                 *)
(***************************************************************************)
\* A connection that ends before the line does carries no command.
Read(c) ==
  /\ Alive
  /\ handler[c] = "reading"
  /\ \/ c \in said /\ Goes(c, "read")
     \/ c \in (left \cup shut) \ said /\ Goes(c, "served")
  /\ UNCHANGED <<loop, signals, socket, replaced, server, requests, clients,
                 shut, sessions>>

Check(c) ==
  /\ Alive
  /\ handler[c] = "read"
  /\ Goes(c, IF closing THEN "served" ELSE "checked")
  /\ UNCHANGED <<loop, signals, socket, replaced, server, requests, clients,
                 shut, sessions>>

Call(c) ==
  /\ Alive
  /\ handler[c] = "checked"
  /\ Enqueue(<<IF c \in WakeLock THEN "attach" ELSE "command", c>>)
  /\ Goes(c, "waiting")
  /\ UNCHANGED <<main, task, stopping, final, signals, socket, replaced,
                 server, requests, clients, shut, sessions>>

\* Mutated: the handler does not notice that its client hangs up.
ReleaseOnShutdown(c) ==
  /\ Alive
  /\ handler[c] = "held"
  /\ c \in shut
  /\ Enqueue(<<"detach", c>>)
  /\ Goes(c, "waiting")
  /\ UNCHANGED <<main, task, stopping, final, signals, socket, replaced,
                 server, requests, clients, shut, sessions>>

\* Mutated: a reset connection ends the handler without detaching.
ReleaseUnguarded(c) ==
  /\ Alive
  /\ handler[c] = "held"
  /\ \/ /\ c \in shut
        /\ Enqueue(<<"detach", c>>)
        /\ Goes(c, "waiting")
     \/ /\ c \in left
        /\ Goes(c, "served")
        /\ UNCHANGED queue
  /\ UNCHANGED <<main, task, stopping, final, signals, socket, replaced,
                 server, requests, clients, shut, sessions>>

\* The acknowledgement cannot be written, or the wait for EOF is over.
Release(c) ==
  /\ Alive
  /\ handler[c] = "held"
  /\ c \in left \cup shut
  /\ Enqueue(<<"detach", c>>)
  /\ Goes(c, "waiting")
  /\ UNCHANGED <<main, task, stopping, final, signals, socket, replaced,
                 server, requests, clients, shut, sessions>>

Close(c) ==
  /\ Alive
  /\ handler[c] = "served"
  /\ requests' = requests \ {c}
  /\ Goes(c, "ended")
  /\ UNCHANGED <<loop, signals, socket, replaced, server, clients, shut,
                 sessions>>

Handler(c) == Read(c) \/ Check(c) \/ Call(c) \/ Release(c) \/ Close(c)
-----------------------------------------------------------------------------
(***************************************************************************)
(* The clients, and a second daemon.                                       *)
(***************************************************************************)
Connect(c) ==
  /\ Alive
  /\ ~replaced
  /\ handler[c] = "none"
  /\ Len(backlog) < Backlog
  /\ backlog' = Append(backlog, c)
  /\ Goes(c, "connected")
  /\ UNCHANGED <<loop, signals, accepter, incoming, replaced, server, requests,
                 clients, shut, sessions>>

Say(c) ==
  /\ Alive
  /\ handler[c] # "none"
  /\ c \notin said \cup left \cup shut
  /\ said' = said \cup {c}
  /\ UNCHANGED <<loop, signals, socket, replaced, server, requests, handler,
                 left, shut, sessions>>

\* Nobody notices that a client leaves when it has sent all it had to.
Leave(c) ==
  /\ Alive
  /\ handler[c] # "none"
  /\ c \notin left
  /\ c \in said => c \in WakeLock
  /\ left' = left \cup {c}
  /\ UNCHANGED <<loop, signals, socket, replaced, server, requests, handler,
                 said, shut, sessions>>

\* Another daemon's ServerModule.start removes the socket and binds its own.
Replace ==
  /\ MayBeReplaced
  /\ ~replaced
  /\ replaced' = TRUE
  /\ UNCHANGED <<loop, signals, socket, server, requests, handler, clients,
                 shut, sessions>>

Environment ==
  \/ HandleSignal
  \/ \E c \in Client : Connect(c) \/ Say(c) \/ Leave(c)
  \/ Replace
-----------------------------------------------------------------------------
\* The daemon has started, with the server module running.
Init ==
  /\ main = "test"
  /\ task = <<"stop", Signal>>
  /\ queue = <<>>
  /\ stopping = FALSE
  /\ final = FALSE
  /\ signals = 0
  /\ accepter = "test"
  /\ incoming = Ping
  /\ backlog = <<>>
  /\ replaced = FALSE
  /\ serverUp = TRUE
  /\ closing = FALSE
  /\ requests = {}
  /\ snapshot = {}
  /\ handler = [c \in Client |-> "none"]
  /\ said = {}
  /\ left = {}
  /\ shut = {}
  /\ sessions = {}

Next ==
  \/ MainThread
  \/ AcceptThread
  \/ \E c \in Client : Handler(c)
  \/ Environment

Spec == Init /\ [][Next]_vars

\* Every thread runs as long as it can; no client or signal need come, and no
\* client need say anything or leave.
FairSpec ==
  /\ Spec
  /\ WF_vars(MainThread)
  /\ WF_vars(AcceptThread)
  /\ \A c \in Client : WF_vars(Handler(c))
-----------------------------------------------------------------------------
Place == {"none", "connected", "reading", "read", "checked", "waiting", "held",
          "served", "ended"}

Flags == {stopping, final, replaced, serverUp, closing} \subseteq BOOLEAN

TypeOK ==
  /\ main \in {"test", "locked", "waiting", "run", "stop", "interrupt", "cut",
               "ping", "blocked", "join", "exited", "stuck"}
  /\ task \in Task
  /\ queue \in Seq(Task)
  /\ Flags
  /\ signals \in 0..MaxSignals
  /\ accepter \in {"test", "accept", "register", "ended"}
  /\ incoming \in Client \cup {Ping}
  /\ backlog \in Seq(Client \cup {Ping})
  /\ handler \in [Client -> Place]
  /\ requests \subseteq Client
  /\ snapshot \subseteq Client
  /\ said \subseteq Client
  /\ left \subseteq Client
  /\ shut \subseteq Client
  /\ sessions \subseteq WakeLock

\* A wake lock is attached only as long as a thread is there to detach it:
\* however the client, the server and the main thread part, none is left
\* behind, which would keep the system from ever becoming idle
\* (modules/server.py:119-138).
NoLeakedWakeLock ==
  \A c \in sessions : handler[c] \in {"held", "waiting"}

\* Once the server has interrupted the requests, every wake lock's connection
\* is shut, and every one still to come is refused: no handler can go on
\* holding its client (modules/server.py:80-82, 103-104, 212-225).
HoldersAreInterrupted ==
  closing /\ main # "cut" =>
    \A c \in WakeLock : handler[c] = "held" => c \in shut

\* A client that was told "Wake lock acquired" has it: the wake lock is
\* attached until the connection ends (modules/server.py:105-106, 119-122).
HolderHasLock ==
  \A c \in WakeLock : handler[c] = "held" => c \in sessions

\* The wake locks that are attached and those that clients hold are the same.
WakeLocksMatchHolders == TypeOK /\ NoLeakedWakeLock /\ HolderHasLock

\* stop, by a command or by a signal, ends the process (daemon.py:169-170),
\* however the cleanup fails, unless it hangs: a signal met the loop with the
\* mutex of the queue (daemon.py:63, 31), the ping went to another daemon
\* (modules/server.py:53, 56), or it waits for a thread that does not accept
\* any more (server.py:24).
Hung ==
  \/ main = "stuck"
  \/ main = "join" /\ replaced
  \/ main = "blocked" /\ accepter = "ended"
StopRequested ==
  \/ stopping
  \/ \E i \in DOMAIN queue :
       queue[i] = <<"stop", Signal>> \/ queue[i][2] \in Stopper
StopEndsDaemon == StopRequested ~> (main = "exited" \/ []Hung)

\* A handler that waits for the main thread goes on: every task is run to the
\* setting of its event, or the process ends, or it hangs as it stops
\* (modules/server.py:91-93).
WaitsEnd ==
  \A c \in Client : handler[c] = "waiting" ~>
    (handler[c] # "waiting" \/ main = "exited" \/ []Hung)

\* The wake lock of a client that has gone is released, or the process ends,
\* or it hangs as it stops (modules/server.py:124-138).
WakeLocksEnd ==
  \A c \in WakeLock : c \in sessions /\ c \in left ~>
    (c \notin sessions \/ main = "exited" \/ []Hung)
=============================================================================
