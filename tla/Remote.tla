-------------------------------- MODULE Remote --------------------------------
(***************************************************************************)
(* Two instances of Blankie that share a bus: what remote_sender sends,    *)
(* what remote_receiver and the remote session make of it, with lock(),    *)
(* unlock() and get_idle_since() of __init__.py.                           *)
(*                                                                         *)
(* The bus is what Bus.tla describes, without its failures: a queue of     *)
(* packets for each instance, in the order in which the server sent them   *)
(* and the main thread handles them; a connection that breaks loses the    *)
(* last of them, and ends with leave for the other and disconnect.         *)
(* An idle_since is a small number, the higher the later.  A handler may   *)
(* raise where it asks the sessions (xprintidle fails) or starts modules.  *)
(***************************************************************************)
EXTENDS Integers, SequencesExt

CONSTANTS
  Node,     \* the two instances
  MaxInput, \* bound: the latest time of an input
  MaxMoves, \* bound: what users and networks do
  MaxCalm   \* bound: what they do if they are calm

ASSUME NodeAssumption == IsFiniteSet(Node) /\ Cardinality(Node) = 2
ASSUME BoundsAssumption ==
  MaxInput \in Nat \ {0} /\ MaxMoves \in Nat /\ MaxCalm \in Nat

Other(n) == CHOOSE o \in Node : o # n

Unset == -2             \* math.nan: a session that is ignored
NegInf == -1            \* -math.inf: about to go to sleep
Inf == MaxInput + 1     \* math.inf: a session in use, or a wake lock
Time == NegInf..Inf

\* The local sessions: idle, one in use (X11's input, a wake lock), or none
Uses == {"idle", "busy", "none"}

VARIABLES
  calm,     \* users and networks wait until all is quiet (never changes)
  input,    \* the time of the latest local input
  use,      \* what the local sessions are
  sleeping, \* state.sleeping
  locked,   \* state.locked
  online,   \* whether the bus client is connected
  queue,    \* packets on their way to an instance
  attached, \* whether the remote session is attached
  view,     \* its idle_since
  sent,     \* last_idle_since
  told,     \* last_locked
  dead,     \* whether the timer was not scheduled again
  unheard,  \* who missed a report, or a message of whose was lost, because
            \* a handler raised (history)
  used,     \* some instance was in use, or had no session (history)
  moves     \* what users and networks have done (history, for the bound)

people == <<input, use, sleeping, used>>
world == <<calm, people, online, moves>>
session == <<attached, view>>
sender == <<sent, told>>
harm == <<dead, unheard>>
vars == <<world, locked, queue, session, sender, harm>>
-----------------------------------------------------------------------------
\* The latest idle_since of the local sessions
Local(n) ==
  CASE use[n] = "idle" -> input[n]
    [] use[n] = "busy" -> Inf
    [] OTHER -> Unset

IdleTimes(n) ==
  ({Local(n)} \cup IF attached[n] THEN {view[n]} ELSE {}) \ {Unset}

\* Mutated: the session that was idle longest counts.
OldestIdleSince(n) ==
  IF sleeping[n] THEN NegInf
  ELSE IF IdleTimes(n) = {} THEN Inf ELSE Min(IdleTimes(n))

\* get_idle_since()
IdleSince(n) ==
  IF sleeping[n] THEN NegInf
  ELSE IF IdleTimes(n) = {} THEN Inf ELSE Max(IdleTimes(n))

Idle(t) == [type |-> "idle_since", time |-> t]
Note(type) == [type |-> type, time |-> 0]
LockNote(b) == Note(IF b THEN "lock" ELSE "unlock")

\* Mutated: a newcomer is not told that the system is locked.
LockUpdateOnChange(n, force) ==
  IF told[n] # locked[n] THEN <<LockNote(locked[n])>> ELSE <<>>

\* What update() of remote_sender sends
LockUpdate(n, force) ==
  IF (force /\ locked[n]) \/ told[n] # locked[n]
  THEN <<LockNote(locked[n])>> ELSE <<>>

Messages(n, force) ==
  (IF force \/ sent[n] # IdleSince(n) THEN <<Idle(IdleSince(n))>> ELSE <<>>)
    \o LockUpdate(n, force)

\* Messages reach who is registered with the server; who cannot send them does
\* not try again.
Relayed(n, messages) ==
  IF online[n] /\ online[Other(n)] THEN messages ELSE <<>>

\* Mutated: the lock state that was sent is not remembered.
UpdateForgets(n, force) ==
  /\ queue' = [m \in Node |->
       IF m = n THEN IF force THEN Tail(queue[n]) ELSE queue[n]
       ELSE queue[m] \o Relayed(n, Messages(n, force))]
  /\ sent' = [sent EXCEPT ![n] = IdleSince(n)]
  /\ UNCHANGED told

\* update() of remote_sender, forced by the first packet of the queue
Update(n, force) ==
  /\ queue' = [m \in Node |->
       IF m = n THEN IF force THEN Tail(queue[n]) ELSE queue[n]
       ELSE queue[m] \o Relayed(n, Messages(n, force))]
  /\ sent' = [sent EXCEPT ![n] = IdleSince(n)]
  /\ told' = [told EXCEPT ![n] = locked[n]]

\* handle_timer, every five seconds
Timer(n) ==
  /\ ~dead[n]
  /\ Messages(n, FALSE) # <<>>
  /\ Update(n, FALSE)
  /\ UNCHANGED <<world, locked, session, harm>>

Misses(n) == unheard' = unheard \cup {n}

\* update() raises in get_idle_since(), before it sends anything, and leaves
\* schedule_timer out.
TimerRaises(n) ==
  /\ ~dead[n]
  /\ dead' = [dead EXCEPT ![n] = TRUE]
  /\ Misses(n)
  /\ UNCHANGED <<world, locked, queue, session, sender>>

Packet(n, types) == queue[n] # <<>> /\ Head(queue[n]).type \in types
Received(n) == queue' = [queue EXCEPT ![n] = Tail(@)]

\* Mutated: who was there before is not told again.
GreetOnWelcome(n) ==
  /\ Packet(n, {"welcome", "join"})
  /\ IF Head(queue[n]).type = "welcome" THEN Update(n, TRUE)
     ELSE Received(n) /\ UNCHANGED sender
  /\ UNCHANGED <<world, locked, session, harm>>

\* remote_sender.bus_packet
Greet(n) ==
  /\ Packet(n, {"welcome", "join"})
  /\ Update(n, TRUE)
  /\ UNCHANGED <<world, locked, session, harm>>

\* update() raises in get_idle_since().
GreetRaises(n) ==
  /\ Packet(n, {"welcome", "join"})
  /\ Received(n)
  /\ Misses(n)
  /\ UNCHANGED <<world, locked, session, sender, dead>>

\* remote_receiver.bus_packet attaches the session for the first message, and
\* bus_packet of the session handles every message.  When lock() or unlock()
\* raises in reconfigure(), it has set state.locked.
ReceiveMessage(n) ==
  LET packet == Head(queue[n]) IN
  /\ Packet(n, {"idle_since", "lock", "unlock"})
  /\ Received(n)
  /\ attached' = [attached EXCEPT ![n] = TRUE]
  /\ view' = IF packet.type # "idle_since" THEN view
             ELSE [view EXCEPT ![n] = packet.time]
  /\ locked' = IF packet.type = "idle_since" THEN locked
               ELSE [locked EXCEPT ![n] = (packet.type = "lock")]
  /\ UNCHANGED <<world, sender, harm>>

\* attach() raises in update(), and has removed the session again.
AttachRaises(n) ==
  /\ Packet(n, {"idle_since", "lock", "unlock"})
  /\ ~attached[n]
  /\ Received(n)
  /\ Misses(Other(n))
  /\ UNCHANGED <<world, locked, session, sender, dead>>

\* The session object stays in module_instances, with its idle_since.  When
\* detach() raises in update(), it has removed the session.
ReceiveEnd(n) ==
  /\ Packet(n, {"leave", "disconnect"})
  /\ Received(n)
  /\ attached' = [attached EXCEPT ![n] = FALSE]
  /\ UNCHANGED <<world, locked, view, sender, harm>>
-----------------------------------------------------------------------------
\* Nothing is on its way, and no timer will send anything.
Quiet ==
  \A n \in Node : queue[n] = <<>> /\ (dead[n] \/ Messages(n, FALSE) = <<>>)

Move ==
  /\ calm => Quiet
  /\ moves < IF calm THEN MaxCalm ELSE MaxMoves
  /\ moves' = moves + 1

Connect(n) ==
  /\ Move
  /\ ~online[n]
  /\ online' = [online EXCEPT ![n] = TRUE]
  /\ queue' = [m \in Node |->
       CASE m = n -> Append(queue[m], Note("welcome"))
         [] m # n /\ online[m] -> Append(queue[m], Note("join"))
         [] OTHER -> queue[m]]
  /\ UNCHANGED <<calm, people, locked, session, sender, harm>>

Disconnect(n) ==
  /\ Move
  /\ online[n]
  /\ online' = [online EXCEPT ![n] = FALSE]
  /\ \E k \in 0..Len(queue[n]) :
       queue' = [m \in Node |->
         CASE m = n -> Append(SubSeq(queue[m], 1, k), Note("disconnect"))
           [] m # n /\ online[m] -> Append(queue[m], Note("leave"))
           [] OTHER -> queue[m]]
  /\ UNCHANGED <<calm, people, locked, session, sender, harm>>

\* Input of a user, who starts or stops to use a session, attaches the first
\* or detaches the last.  An X11 session is in use after input until it is
\* idle; a TTY never is.
Use(n, t, u) ==
  /\ Move
  /\ t >= input[n]
  /\ t # input[n] \/ u # use[n]
  /\ input' = [input EXCEPT ![n] = t]
  /\ use' = [use EXCEPT ![n] = u]
  /\ used' = (used \/ u # "idle")
  /\ UNCHANGED <<calm, sleeping, online, locked, queue, session, sender, harm>>

\* logind: handle_enter_sleep and handle_exit_sleep
Sleep(n) ==
  /\ Move
  /\ sleeping' = [sleeping EXCEPT ![n] = ~@]
  /\ UNCHANGED <<calm, input, use, used, online, locked, queue, session,
                 sender, harm>>

\* lock() and unlock()
SetLock(n) ==
  /\ Move
  /\ locked' = [locked EXCEPT ![n] = ~@]
  /\ UNCHANGED <<calm, people, online, queue, session, sender, harm>>
-----------------------------------------------------------------------------
Init ==
  /\ calm \in BOOLEAN
  /\ input = [n \in Node |-> 0] /\ use = [n \in Node |-> "idle"]
  /\ used = FALSE
  /\ sleeping = [n \in Node |-> FALSE]
  /\ locked = [n \in Node |-> FALSE]
  /\ online = [n \in Node |-> FALSE]
  /\ queue = [n \in Node |-> <<>>]
  /\ attached = [n \in Node |-> FALSE]
  /\ view = [n \in Node |-> Unset]
  /\ sent = [n \in Node |-> 0] /\ told = [n \in Node |-> FALSE]
  /\ dead = [n \in Node |-> FALSE] /\ unheard = {}
  /\ moves = 0

Handle(n) ==
  \/ Greet(n) \/ GreetRaises(n)
  \/ ReceiveMessage(n) \/ AttachRaises(n) \/ ReceiveEnd(n)

Next ==
  \E n \in Node :
    \/ Timer(n) \/ TimerRaises(n) \/ Handle(n)
    \/ Connect(n) \/ Disconnect(n) \/ SetLock(n) \/ Sleep(n)
    \/ \E t \in 0..MaxInput, u \in Uses : Use(n, t, u)

Spec == Init /\ [][Next]_vars

\* The main threads handle the packets, and their timers.
FairSpec == Spec /\ \A n \in Node : WF_vars(Handle(n)) /\ WF_vars(Timer(n))
-----------------------------------------------------------------------------
Connected == \A n \in Node : online[n]

TypeOK ==
  /\ calm \in BOOLEAN /\ used \in BOOLEAN
  /\ input \in [Node -> 0..MaxInput] /\ use \in [Node -> Uses]
  /\ sleeping \in [Node -> BOOLEAN]
  /\ locked \in [Node -> BOOLEAN] /\ online \in [Node -> BOOLEAN]
  /\ attached \in [Node -> BOOLEAN]
  /\ view \in [Node -> Time \cup {Unset}]
  /\ sent \in [Node -> Time] /\ told \in [Node -> BOOLEAN]
  /\ dead \in [Node -> BOOLEAN] /\ unheard \subseteq Node
  /\ moves \in Nat

\* An instance that has left, or that nobody hears any more, has no session
\* when all packets are handled (remote_receiver.py:29-39).
GhostsLeave ==
  \A n \in Node : queue[n] = <<>> /\ ~Connected => ~attached[n]

\* Who is connected knows what the other believes about the idle time, once
\* all is quiet (remote_sender.py:43-59, session/remote.py:21-24), unless a
\* handler raised while the other told it.
ViewsAreCurrent ==
  Quiet /\ Connected =>
    \A n \in Node :
      Other(n) \notin unheard =>
        attached[n] /\ view[n] = IdleSince(Other(n))

\* What an instance believes of the other is true.
ViewsAreTrue == TypeOK /\ GhostsLeave /\ ViewsAreCurrent

\* The instances agree about the idle time, where none goes to sleep and no
\* handler raised; it is not before that of the local sessions of either, nor
\* after the latest input, but it may stay inf after a session was in use or
\* none was there: then each repeats what it has from the other
\* (remote_sender.py:51-59, __init__.py:50-65).
IdleIsShared ==
  Quiet /\ Connected /\ unheard = {} /\ (\A n \in Node : ~sleeping[n]) =>
    \E t \in Time :
      /\ \A n \in Node : IdleSince(n) = t /\ t >= Local(n)
      /\ IF t = Inf THEN used ELSE \E n \in Node : t <= input[n]

\* Nothing about locks is on its way, or will be sent.
LocksQuiet ==
  \A n \in Node :
    /\ dead[n] \/ told[n] = locked[n]
    /\ \A i \in 1..Len(queue[n]) : queue[n][i].type = "idle_since"

\* Among calm users, the instances are locked together: a lock that happened
\* while they were apart is made good (remote_sender.py:61-67), unless a
\* handler raised on the way.
LocksAgree ==
  LocksQuiet /\ Connected /\ calm /\ unheard = {} =>
    \A m, n \in Node : locked[m] = locked[n]

\* Among calm users, the packets that packets cause come to an end, but for
\* reports of an instance without a session of its own: those may cross those
\* of the other for ever, with inf the one way, and a time the other.
Settles ==
  calm => []<>(Quiet \/ (LocksQuiet /\ \E n \in Node : use[n] = "none"))
=============================================================================
