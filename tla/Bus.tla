--------------------------------- MODULE Bus ---------------------------------
(***************************************************************************)
(* The bus between instances of Blankie: bus_server, with its handlers of  *)
(* connections and their receiving threads, and the bus clients, each with *)
(* its thread.  The messages that the server passes on are left out: they  *)
(* change nothing here.  What the packets join, leave and welcome add up   *)
(* to is kept.                                                             *)
(*                                                                         *)
(* Connections are numbered.  TCP is external: it keeps the order, and a   *)
(* connection may break, which loses what was not read; a send to the      *)
(* other end of a broken one may raise, or not, and so may its shutdown.   *)
(***************************************************************************)
EXTENDS Naturals, SequencesExt

CONSTANTS
  Client,     \* the instances, by their instance_id
  MaxConns,   \* bound: connections
  MaxBreaks,  \* bound: connections that break
  MaxStops    \* bound: stops of the server

Conn == 1..MaxConns
None == 0

ASSUME ClientAssumption == IsFiniteSet(Client)
ASSUME BoundsAssumption ==
  MaxConns \in Nat \ {0} /\ MaxBreaks \in Nat /\ MaxStops \in Nat

VARIABLES
  server,     \* the module: up, down, in its stop(), or that has raised
  clients,    \* instances to their registered connections
  named,      \* connections whose handler has an instance_id
  open,       \* connections whose socket the server has not closed
  receiving,  \* connections with a receiving thread of the server
  tasks,      \* the queue of the server's main thread
  owner,      \* connections to their clients
  broken,     \* connections that broke
  upstream,   \* connections to the hellos under way: the challenges they meet
  socket,     \* clients to their connections: self.socket
  inbox,      \* clients to the packets on their way to the main thread, each
              \* with its connection
  view,       \* clients to the instances that they were told of
  spoilt,     \* instances of which a hello, a join or a leave was cut short
              \* by an exception (history)
  stops       \* stops of the server (history, for the bound)

handlers == <<clients, named, open, receiving>>
net == <<owner, broken>>
ends == <<socket, inbox, view>>
vars == <<server, handlers, tasks, net, upstream, ends, spoilt, stops>>

Registered == {clients[i] : i \in Client} \ {None}
Task(op, c, d) == [op |-> op, conn |-> c, challenge |-> d]
Packet(c, type, ids) == [conn |-> c, type |-> type, ids |-> ids]
-----------------------------------------------------------------------------
\* Sending: what inboxes become when the packet goes to connections S
Sent(S, type, ids, boxes) ==
  [i \in Client |->
     IF \E c \in S : owner[c] = i /\ c \notin broken
     THEN Append(boxes[i], Packet(socket[i], type, ids))
     ELSE boxes[i]]

\* broadcast: it ends early when a send raises.
Broadcast(S, type, ids, boxes) ==
  {[ok |-> TRUE, inbox |-> Sent(S, type, ids, boxes)]} \cup
    {[ok |-> FALSE, inbox |-> Sent(R, type, ids, boxes)] :
       R \in {R \in SUBSET S : broken \cap S # {}}}

\* stop() of a handler, up to the broadcast
Leave(c) ==
  IF c \in named
  THEN Broadcast(Registered \ {c}, "leave", {owner[c]}, inbox)
  ELSE {[ok |-> TRUE, inbox |-> inbox]}

Unregistered(c) ==
  [i \in Client |-> IF c \in named /\ owner[c] = i THEN None ELSE clients[i]]

\* A connection that was reset may no longer be shut down: an ENOTCONN.
MayNotShut(c) == c \in open \cap broken

\* The rest of stop(), unless the shutdown raises: the receiving thread ends,
\* and queues a task.
Closed(c) ==
  /\ named' = named \ {c}
  /\ open' = open \ {c}
  /\ receiving' = receiving \ {c}
Stopped(c) == IF c \in receiving THEN <<Task("stop", c, None)>> ELSE <<>>

\* Mutated: the client stays registered.
StopHandlerKeeps(c, rest) ==
  \E b \in Leave(c) :
    /\ inbox' = b.inbox
    /\ spoilt' = IF b.ok THEN spoilt ELSE spoilt \cup {owner[c]}
    /\ IF b.ok THEN Closed(c) /\ tasks' = rest \o Stopped(c)
       ELSE tasks' = rest /\ UNCHANGED <<named, open, receiving>>
    /\ UNCHANGED clients

\* The client that stop() would unregister is not there: a KeyError.
AlreadyUnregistered(c) == c \in named /\ clients[owner[c]] = None

\* stop() of a handler, which may raise when it is called again
StopHandler(c, rest) ==
  \/ /\ AlreadyUnregistered(c)
     /\ tasks' = rest
     /\ UNCHANGED <<handlers, inbox, spoilt>>
  \/ /\ ~AlreadyUnregistered(c)
     /\ clients' = Unregistered(c)
     /\ \E b \in Leave(c) :
          /\ inbox' = b.inbox
          /\ spoilt' = IF b.ok THEN spoilt ELSE spoilt \cup {owner[c]}
          /\ IF b.ok THEN Closed(c) /\ tasks' = rest \o Stopped(c)
             ELSE tasks' = rest /\ UNCHANGED <<named, open, receiving>>
  \/ /\ ~AlreadyUnregistered(c)
     /\ MayNotShut(c)
     /\ clients' = Unregistered(c)
     /\ \E b \in Leave(c) : b.ok /\ inbox' = b.inbox
     /\ named' = named \ {c}
     /\ tasks' = rest
     /\ UNCHANGED <<open, receiving, spoilt>>
-----------------------------------------------------------------------------
\* The server: the accepting thread, the receiving threads, the main thread

\* A client is accepted; its thread goes on to read.
Connect(i) ==
  LET c == Len(owner) + 1 IN
  /\ server = "up"
  /\ socket[i] = None
  /\ c \in Conn
  /\ owner' = Append(owner, i)
  /\ socket' = [socket EXCEPT ![i] = c]
  /\ open' = open \cup {c}
  /\ tasks' = Append(tasks, Task("socket", c, None))
  /\ UNCHANGED <<server, clients, named, receiving, broken, upstream, inbox,
                 view, spoilt, stops>>

NextTask(op, c) ==
  /\ server # "stopping"
  /\ tasks # <<>>
  /\ Head(tasks).op = op /\ Head(tasks).conn = c

\* handle_socket; the receiving thread sends the challenge.
HandleSocket(c) ==
  /\ NextTask("socket", c)
  /\ tasks' = Tail(tasks)
  /\ receiving' = receiving \cup {c}
  /\ inbox' = Sent({c}, "challenge", {}, inbox)
  /\ UNCHANGED <<server, clients, named, open, net, upstream, socket, view,
                 spoilt, stops>>

\* recv_loop
ReceiveHello(c) ==
  /\ c \in receiving
  /\ upstream[c] # <<>>
  /\ upstream' = [upstream EXCEPT ![c] = Tail(@)]
  /\ tasks' = Append(tasks, Task("hello", c, Head(upstream[c])))
  /\ UNCHANGED <<server, handlers, net, ends, spoilt, stops>>

ReceiveEnd(c) ==
  /\ c \in receiving \cap broken
  /\ upstream[c] = <<>>
  /\ receiving' = receiving \ {c}
  /\ tasks' = Append(tasks, Task("stop", c, None))
  /\ UNCHANGED <<server, clients, named, open, net, upstream, ends, spoilt,
                 stops>>

\* Of two connections of one instance the older one is stopped.
Evict(old) ==
  IF old = None THEN {[ok |-> TRUE, inbox |-> inbox]}
  ELSE Leave(old)

\* Mutated: the newcomer is told of itself only.
WelcomeAlone(c) == {owner[c]}
WelcomeList(c) == {i \in Client : clients[i] # None} \cup {owner[c]}

\* The rest of hello: register, join, welcome
Join(c, boxes) ==
  {IF ~b.ok THEN b
   ELSE [ok |-> TRUE,
         inbox |-> Sent({c}, "welcome", WelcomeList(c), b.inbox)] :
     b \in Broadcast(Registered \ {c, clients[owner[c]]}, "join",
                     {owner[c]}, boxes)}

\* Who does not meet the challenge stays connected.
RefuseHello(c) ==
  /\ NextTask("hello", c)
  /\ Head(tasks).challenge # c
  /\ tasks' = Tail(tasks)
  /\ UNCHANGED <<server, handlers, net, upstream, ends, spoilt, stops>>

\* Mutated: an instance that is registered is refused.
HandleHelloOnce(c) ==
  /\ NextTask("hello", c)
  /\ Head(tasks).challenge = c
  /\ tasks' = Tail(tasks)
  /\ IF clients[owner[c]] # None
     THEN UNCHANGED <<clients, named, inbox, spoilt>>
     ELSE \E b \in Join(c, inbox) :
            /\ named' = named \cup {c}
            /\ clients' = [clients EXCEPT ![owner[c]] = c]
            /\ inbox' = b.inbox
            /\ spoilt' = IF b.ok THEN spoilt ELSE spoilt \cup {owner[c]}
  /\ UNCHANGED <<server, open, receiving, net, upstream, socket, view, stops>>

HandleHello(c) ==
  LET old == clients[owner[c]] IN
  /\ NextTask("hello", c)
  /\ Head(tasks).challenge = c
  /\ \/ \E e \in Evict(old) :
          /\ e.ok => MayNotShut(old)
          /\ named' = (IF e.ok THEN named \ {old} ELSE named) \cup {c}
          /\ clients' = Unregistered(old)
          /\ inbox' = e.inbox
          /\ spoilt' = spoilt \cup {owner[c]}
          /\ tasks' = Tail(tasks)
          /\ UNCHANGED <<open, receiving>>
     \/ \E e \in Evict(old) : \E b \in Join(c, e.inbox) :
          /\ e.ok
          /\ named' = (named \ {old}) \cup {c}
          /\ open' = open \ {old}
          /\ receiving' = receiving \ {old}
          /\ clients' = [clients EXCEPT ![owner[c]] = c]
          /\ inbox' = b.inbox
          /\ spoilt' = IF b.ok THEN spoilt ELSE spoilt \cup {owner[c]}
          /\ tasks' = Tail(tasks) \o Stopped(old)
  /\ UNCHANGED <<server, net, upstream, socket, view, stops>>

\* The receiving thread has called stop() of its handler.
HandleEnd(c) ==
  /\ NextTask("stop", c)
  /\ StopHandler(c, Tail(tasks))
  /\ UNCHANGED <<server, net, upstream, socket, view, stops>>

\* start() of the server, and stop(), which may raise and be called again
Start ==
  /\ server = "down"
  /\ server' = "up"
  /\ UNCHANGED <<handlers, tasks, net, upstream, ends, spoilt, stops>>

Stop ==
  /\ \/ server = "up" /\ stops < MaxStops /\ stops' = stops + 1
     \/ server = "raised" /\ UNCHANGED stops
  /\ server' = "stopping"
  /\ UNCHANGED <<handlers, tasks, net, upstream, ends, spoilt>>

StopNext ==
  /\ server = "stopping"
  /\ \/ /\ Registered = {}
        /\ server' = "down"
        /\ UNCHANGED <<handlers, tasks, inbox, spoilt>>
     \/ \E c \in Registered :
          /\ StopHandler(c, tasks)
          /\ server' = IF c \in open' THEN "raised" ELSE "stopping"
  /\ UNCHANGED <<net, upstream, socket, view, stops>>
-----------------------------------------------------------------------------
\* The clients, and the network

Break(c) ==
  /\ c \in 1..Len(owner) \ broken
  /\ Cardinality(broken) < MaxBreaks
  /\ broken' = broken \cup {c}
  /\ UNCHANGED <<server, handlers, tasks, owner, upstream, ends, spoilt,
                 stops>>

\* thread_func of the client comes to the end of the connection, broken or
\* closed.  Packets of a broken one may be lost.
ReadEnd(i) ==
  LET c == socket[i] IN
  /\ c # None
  /\ c \in broken \/ c \notin open
  /\ socket' = [socket EXCEPT ![i] = None]
  /\ \E k \in 0..Len(inbox[i]) :
       /\ \A j \in k+1..Len(inbox[i]) :
            c \in broken /\ inbox[i][j].conn = c
       /\ inbox' = [inbox EXCEPT ![i] =
                      Append(SubSeq(@, 1, k), Packet(c, "disconnect", {}))]
  /\ UNCHANGED <<server, handlers, tasks, net, upstream, view, spoilt, stops>>

\* handle_packet: the hello goes to the connection of the moment.
HandleChallenge(i) ==
  /\ inbox[i] # <<>>
  /\ Head(inbox[i]).type = "challenge"
  /\ inbox' = [inbox EXCEPT ![i] = Tail(@)]
  /\ upstream' = [c \in Conn |->
       IF c = socket[i] /\ c \notin broken
       THEN Append(upstream[c], Head(inbox[i]).conn)
       ELSE upstream[c]]
  /\ UNCHANGED <<server, handlers, tasks, net, socket, view, spoilt, stops>>

\* What the modules on the client learn
HandlePacket(i) ==
  LET p == Head(inbox[i]) IN
  /\ inbox[i] # <<>>
  /\ p.type # "challenge"
  /\ inbox' = [inbox EXCEPT ![i] = Tail(@)]
  /\ view' = [view EXCEPT ![i] =
       CASE p.type = "welcome" -> p.ids
         [] p.type = "join" -> @ \cup p.ids
         [] p.type = "leave" -> @ \ p.ids
         [] p.type = "disconnect" -> {}]
  /\ UNCHANGED <<server, handlers, tasks, net, upstream, socket, spoilt,
                 stops>>
-----------------------------------------------------------------------------
Init ==
  /\ server = "down"
  /\ clients = [i \in Client |-> None]
  /\ named = {} /\ open = {} /\ receiving = {}
  /\ tasks = <<>>
  /\ owner = <<>> /\ broken = {}
  /\ upstream = [c \in Conn |-> <<>>]
  /\ socket = [i \in Client |-> None]
  /\ inbox = [i \in Client |-> <<>>]
  /\ view = [i \in Client |-> {}]
  /\ spoilt = {}
  /\ stops = 0

Serve ==
  \/ \E c \in Conn : HandleSocket(c) \/ RefuseHello(c) \/ HandleHello(c)
                       \/ HandleEnd(c)
  \/ StopNext
Receive(c) == ReceiveHello(c) \/ ReceiveEnd(c)
Listen(i) == HandleChallenge(i) \/ HandlePacket(i)

Next ==
  \/ Serve \/ Start \/ Stop
  \/ \E c \in Conn : Receive(c) \/ Break(c)
  \/ \E i \in Client : Connect(i) \/ ReadEnd(i) \/ Listen(i)

Spec == Init /\ [][Next]_vars

\* Every thread goes on, a client tries to connect again and again, and the
\* server is started again.
FairSpec ==
  /\ Spec
  /\ WF_vars(Serve) /\ WF_vars(Start)
  /\ WF_vars(server = "raised" /\ Stop)
  /\ \A c \in Conn : WF_vars(Receive(c))
  /\ \A i \in Client :
       WF_vars(Connect(i)) /\ WF_vars(ReadEnd(i)) /\ WF_vars(Listen(i))
-----------------------------------------------------------------------------
PacketSet ==
  [conn : Conn, type : {"challenge", "welcome", "join", "leave", "disconnect"},
   ids : SUBSET Client]

TypeOK ==
  /\ server \in {"up", "down", "stopping", "raised"}
  /\ clients \in [Client -> Conn \cup {None}]
  /\ named \subseteq Conn /\ open \subseteq Conn /\ receiving \subseteq open
  /\ tasks \in Seq([op : {"socket", "hello", "stop"}, conn : Conn,
                    challenge : Conn \cup {None}])
  /\ owner \in Seq(Client) /\ Len(owner) <= MaxConns
  /\ broken \subseteq Conn
  /\ upstream \in [Conn -> Seq(Conn)]
  /\ socket \in [Client -> Conn \cup {None}]
  /\ inbox \in [Client -> Seq(PacketSet)]
  /\ view \in [Client -> SUBSET Client]
  /\ spoilt \subseteq Client
  /\ stops \in 0..MaxStops

\* A registered connection is one of that instance, identified and open, and
\* an identified one is registered, unless an exception has cut short a hello,
\* a join or a leave of that very instance (bus_server.py:74-80, 98-110,
\* 149-154).
RegistryIsTrue ==
  /\ \A i \in Client :
       LET c == clients[i] IN
       c # None => owner[c] = i /\ c \in named \cap open
  /\ \A c \in named : clients[owner[c]] = c \/ owner[c] \in spoilt

\* The server's variables are well typed, and its registry is true.
RegistryInv == TypeOK /\ RegistryIsTrue

\* Any two that are connected have been told of each other, once all is quiet,
\* unless an exception has cut short a hello, a join or a leave of one of the
\* two (bus_server.py:98-105, 149-162, bus_client.py:54-63).
Quiet ==
  /\ server = "up"
  /\ tasks = <<>>
  /\ \A c \in Conn : upstream[c] = <<>> /\ c \notin receiving \cap broken
  /\ \A i \in Client : socket[i] \in open \ broken /\ inbox[i] = <<>>

ViewsAgree == Quiet => \A i, j \in Client \ spoilt : j \in view[i]

\* Who is not connected believes in nobody (bus_client.py:58-63).
NoGhosts ==
  \A i \in Client : socket[i] = None /\ inbox[i] = <<>> => view[i] = {}

\* What clients believe of each other is true.
ViewsAreTrue == ViewsAgree /\ NoGhosts

\* A client always gets registered again, unless it does not get a connection,
\* or an exception has cut short a hello, a join or a leave of its own: what
\* happens to others, a refused hello, and the connection that is still
\* registered do not stop it (bus_client.py:46-68, bus_server.py:134-162).
Rejoins ==
  \A i \in Client :
    <>[](socket[i] = None) \/ <>(i \in spoilt) \/ []<>(clients[i] # None)
=============================================================================
