------------------------------ MODULE BusProofs ------------------------------
(***************************************************************************)
(* Proofs about Bus, for every set of instances and every number of        *)
(* connections: the registry of the server is true, and so is, in the end, *)
(* what the clients are told of each other.                                *)
(*                                                                         *)
(* The argument follows the one challenge of a connection, from the task   *)
(* that accepts the connection to the hello that identifies it: until then *)
(* it is in exactly one place, unless the connection is broken or closed.  *)
(***************************************************************************)
EXTENDS Bus, SequenceTheorems, TLAPS

Has(q, v) == \E k \in 1..Len(q) : q[k] = v
Once(q, v) == \A j, k \in 1..Len(q) : q[j] = v /\ q[k] = v => j = k

\* No v comes after a u.
NotAfter(q, u, v) ==
  \A j, k \in 1..Len(q) : q[j] = u /\ q[k] = v => k <= j
-----------------------------------------------------------------------------
\* What is true of a sequence that gets longer or shorter by one

LEMMA AppendIs ==
  ASSUME NEW S, NEW q \in Seq(S), NEW x \in S
  PROVE  /\ Append(q, x) \in Seq(S) /\ Len(q) \in Nat
         /\ Len(Append(q, x)) = Len(q) + 1
         /\ Append(q, x)[Len(q) + 1] = x
         /\ \A k \in 1..Len(q) : Append(q, x)[k] = q[k]
         /\ \A k \in 1..Len(Append(q, x)) :
              \/ k \in 1..Len(q) /\ Append(q, x)[k] = q[k]
              \/ k = Len(q) + 1 /\ Append(q, x)[k] = x
BY AppendProperties, LenProperties

LEMMA TailIs ==
  ASSUME NEW S, NEW q \in Seq(S), q # <<>>
  PROVE  /\ Head(q) \in S /\ Tail(q) \in Seq(S) /\ Head(q) = q[1]
         /\ Len(q) \in Nat \ {0} /\ Len(Tail(q)) = Len(q) - 1
         /\ \A k \in 1..Len(Tail(q)) : k + 1 \in 1..Len(q) /\ Tail(q)[k] = q[k+1]
         /\ \A k \in 1..Len(q) :
              k = 1 \/ (k - 1 \in 1..Len(Tail(q)) /\ Tail(q)[k-1] = q[k])
BY HeadTailProperties, EmptySeq

LEMMA Wider ==
  ASSUME NEW S, NEW T, S \subseteq T, NEW q \in Seq(S)
  PROVE  q \in Seq(T)
OBVIOUS

LEMMA HasAppend ==
  ASSUME NEW S, NEW q \in Seq(S), NEW x \in S, NEW v
  PROVE  /\ Has(Append(q, x), v) <=> Has(q, v) \/ x = v
         /\ Once(q, v) /\ (x = v => ~Has(q, v)) => Once(Append(q, x), v)
         /\ \A u : NotAfter(q, u, v) /\ (x = v => ~Has(q, u)) =>
              NotAfter(Append(q, x), u, v)
<1> DEFINE s == Append(q, x)
<1>1. /\ Len(q) \in Nat /\ Len(s) = Len(q) + 1 /\ s[Len(q) + 1] = x
      /\ \A k \in 1..Len(q) : k \in 1..Len(s) /\ s[k] = q[k]
      /\ \A k \in 1..Len(s) :
           \/ k \in 1..Len(q) /\ s[k] = q[k]
           \/ k = Len(q) + 1 /\ s[k] = x
  BY AppendIs
<1> HIDE DEF s
<1>2. Has(s, v) <=> Has(q, v) \/ x = v
  <2>1. Len(q) + 1 \in 1..Len(s)
    BY <1>1
  <2> QED BY <1>1, <2>1 DEF Has
<1>3. ASSUME Once(q, v), x = v => ~Has(q, v) PROVE Once(s, v)
  BY <1>1, <1>3 DEF Once, Has
<1>4. ASSUME NEW u, NotAfter(q, u, v), x = v => ~Has(q, u)
      PROVE  NotAfter(s, u, v)
  <2> SUFFICES ASSUME NEW j \in 1..Len(s), NEW k \in 1..Len(s), s[j] = u, s[k] = v
               PROVE  k <= j
    BY DEF NotAfter
  <2>1. CASE j \in 1..Len(q) /\ k \in 1..Len(q)
    BY <1>1, <1>4, <2>1 DEF NotAfter
  <2>2. CASE j = Len(q) + 1
    BY <1>1, <2>2
  <2>3. CASE j \in 1..Len(q) /\ k = Len(q) + 1
    BY <1>1, <1>4, <2>3 DEF Has
  <2> QED BY <1>1, <2>1, <2>2, <2>3
<1> QED BY <1>2, <1>3, <1>4 DEF s

LEMMA HasTail ==
  ASSUME NEW S, NEW q \in Seq(S), q # <<>>, NEW v
  PROVE  /\ Has(q, v) <=> Head(q) = v \/ Has(Tail(q), v)
         /\ Once(q, v) => /\ Once(Tail(q), v)
                          /\ Head(q) = v => ~Has(Tail(q), v)
         /\ \A u : NotAfter(q, u, v) =>
              /\ NotAfter(Tail(q), u, v)
              /\ Head(q) = u => ~Has(Tail(q), v)
<1> DEFINE s == Tail(q)
<1>1. /\ Len(q) \in Nat \ {0} /\ Len(s) = Len(q) - 1 /\ Head(q) = q[1]
      /\ \A k \in 1..Len(s) : k + 1 \in 1..Len(q) /\ s[k] = q[k+1]
      /\ \A k \in 1..Len(q) : k = 1 \/ (k - 1 \in 1..Len(s) /\ s[k-1] = q[k])
  BY TailIs
<1> HIDE DEF s
<1>2. Has(q, v) <=> Head(q) = v \/ Has(s, v)
  <2>1. 1 \in 1..Len(q)
    BY <1>1
  <2>2. Has(s, v) => Has(q, v)
    BY <1>1 DEF Has
  <2>3. Head(q) = v => Has(q, v)
    BY <1>1, <2>1 DEF Has
  <2>4. Has(q, v) => Head(q) = v \/ Has(s, v)
    BY <1>1 DEF Has
  <2> QED BY <2>2, <2>3, <2>4
<1>3. ASSUME Once(q, v) PROVE Once(s, v) /\ (Head(q) = v => ~Has(s, v))
  <2>1. ASSUME NEW j \in 1..Len(s), NEW k \in 1..Len(s), s[j] = v, s[k] = v
        PROVE  j = k
    <3>1. j + 1 = k + 1
      BY <1>1, <1>3, <2>1 DEF Once
    <3> QED BY <3>1
  <2>2. ASSUME Head(q) = v, NEW k \in 1..Len(s), s[k] = v PROVE FALSE
    <3>1. 1 \in 1..Len(q) /\ k + 1 \in 1..Len(q) /\ q[1] = v /\ q[k+1] = v
      BY <1>1, <2>2
    <3>2. 1 = k + 1
      BY <1>3, <3>1 DEF Once
    <3> QED BY <3>2
  <2> QED BY <2>1, <2>2 DEF Once, Has
<1>4. ASSUME NEW u, NotAfter(q, u, v)
      PROVE  NotAfter(s, u, v) /\ (Head(q) = u => ~Has(s, v))
  <2>1. ASSUME NEW j \in 1..Len(s), NEW k \in 1..Len(s), s[j] = u, s[k] = v
        PROVE  k <= j
    <3>1. j + 1 \in 1..Len(q) /\ k + 1 \in 1..Len(q) /\ q[j+1] = u /\ q[k+1] = v
      BY <1>1, <2>1
    <3>2. k + 1 <= j + 1
      BY <1>4, <3>1 DEF NotAfter
    <3> QED BY <3>2
  <2>2. ASSUME Head(q) = u, NEW k \in 1..Len(s), s[k] = v PROVE FALSE
    <3>1. 1 \in 1..Len(q) /\ k + 1 \in 1..Len(q) /\ q[1] = u /\ q[k+1] = v
      BY <1>1, <2>2
    <3>2. k + 1 <= 1
      BY <1>4, <3>1 DEF NotAfter
    <3> QED BY <3>2
  <2> QED BY <2>1, <2>2 DEF NotAfter, Has
<1> QED BY <1>2, <1>3, <1>4 DEF s

LEMMA HasPrefix ==
  ASSUME NEW S, NEW q \in Seq(S), NEW k \in 0..Len(q), NEW v
  PROVE  /\ SubSeq(q, 1, k) \in Seq(S)
         /\ Has(SubSeq(q, 1, k), v) => Has(q, v)
         /\ Once(q, v) => Once(SubSeq(q, 1, k), v)
         /\ (\A j \in k+1..Len(q) : q[j] # v) =>
              (Has(q, v) => Has(SubSeq(q, 1, k), v))
<1> DEFINE s == SubSeq(q, 1, k)
<1>1. Len(q) \in Nat /\ \A j \in 1..k : q[j] \in S
  BY ElementOfSeq, LenProperties
<1>2. s \in Seq(S) /\ Len(s) = k /\ \A j \in 1..k : s[j] = q[j]
  BY <1>1, SubSeqProperties
<1>3. \A j \in 1..k : j \in 1..Len(q)
  BY <1>1
<1> HIDE DEF s
<1>4. Has(s, v) => Has(q, v)
  BY <1>2, <1>3 DEF Has
<1>5. Once(q, v) => Once(s, v)
  BY <1>2, <1>3 DEF Once
<1>6. ASSUME \A j \in k+1..Len(q) : q[j] # v, Has(q, v) PROVE Has(s, v)
  <2>1. PICK j \in 1..Len(q) : q[j] = v
    BY <1>6 DEF Has
  <2>2. j \in 1..k
    BY <1>1, <1>6, <2>1
  <2> QED BY <1>2, <2>1, <2>2 DEF Has
<1> QED BY <1>2, <1>4, <1>5, <1>6 DEF s
-----------------------------------------------------------------------------
\* The inductive invariant

Accepted == 1..Len(owner)

TaskSet ==
  [op : {"socket", "hello", "stop"}, conn : Conn, challenge : Conn \cup {None}]

\* The tasks and the packets of the first n connections
Tasks(n) ==
  {t \in TaskSet : t.conn \in 1..n /\ (t.op # "hello" => t.challenge = None)}
Packets(n) ==
  {p \in PacketSet : p.conn \in 1..n /\ (p.type = "challenge" => p.ids = {})}
Boxes == [Client -> Seq(Packets(Len(owner)))]

\* A client holds its last connection until that one is broken or closed.
LinkInv ==
  /\ tasks \in Seq(Tasks(Len(owner)))
  /\ inbox \in Boxes
  /\ open \subseteq Accepted /\ broken \subseteq Accepted /\ named \subseteq open
  /\ \A i \in Client :
       socket[i] # None => socket[i] \in Accepted /\ owner[socket[i]] = i
  /\ \A c \in open \ broken : socket[owner[c]] = c
  /\ \A c \in Conn \ Accepted : upstream[c] = <<>>

\* Where the challenge of a connection may be: not sent yet, on its way to the
\* client, met by a hello on its way back, or by one that is to be handled.
Challenge(c) == Packet(c, "challenge", {})
Arrival(c) == Task("socket", c, None)
Hello(c) == Task("hello", c, c)
End(c) == Task("stop", c, None)

Arrives(c) == Has(tasks, Arrival(c))
Challenged(c) == Has(inbox[owner[c]], Challenge(c))
Answers(c) == Has(upstream[c], c)
Knocks(c) == Has(tasks, Hello(c))
Ends(c) == Has(tasks, End(c))

\* It is there once, and no hello comes after the end of its connection.
Alone(c) ==
  /\ Once(tasks, Arrival(c)) /\ Once(inbox[owner[c]], Challenge(c))
  /\ Once(upstream[c], c) /\ Once(tasks, Hello(c))
  /\ NotAfter(tasks, End(c), Hello(c))

\* It is in one place only, and nowhere once the connection is identified.
Staged(c) ==
  /\ Arrives(c) => ~Challenged(c) /\ ~Answers(c) /\ ~Knocks(c) /\ c \notin named
  /\ Challenged(c) => ~Answers(c) /\ ~Knocks(c) /\ c \notin named
  /\ Answers(c) => ~Knocks(c) /\ c \notin named
  /\ Knocks(c) => c \notin named

\* It is somewhere until then, while the connection lasts.
Awaited(c) ==
  c \in open \ (broken \cup named) =>
    Arrives(c) \/ Challenged(c) \/ Answers(c) \/ Knocks(c)

\* A connection that is closed, or about to be, expects no hello.
Ended(c) ==
  /\ Arrives(c) => c \in open \ receiving /\ ~Ends(c)
  /\ c \in receiving => ~Ends(c)
  /\ Ends(c) /\ c \in open => c \in broken /\ ~Answers(c)
  /\ c \notin open => ~Answers(c) /\ ~Knocks(c) /\ (c \in broken \/ ~Challenged(c))

TokenInv ==
  \A c \in Accepted : Alone(c) /\ Staged(c) /\ Awaited(c) /\ Ended(c)
-----------------------------------------------------------------------------
\* Tasks and packets

LEMMA Distinct ==
  ASSUME NEW c, NEW d
  PROVE  /\ Arrival(c) # Hello(d) /\ Arrival(c) # End(d) /\ Hello(c) # End(d)
         /\ Arrival(c) = Arrival(d) => c = d
         /\ Hello(c) = Hello(d) => c = d
         /\ End(c) = End(d) => c = d
         /\ Challenge(c) = Challenge(d) => c = d
<1>1. /\ Arrival(c).op = "socket" /\ Hello(d).op = "hello" /\ End(d).op = "stop"
      /\ Hello(c).op = "hello"
      /\ Arrival(c).conn = c /\ Arrival(d).conn = d
      /\ Hello(c).conn = c /\ Hello(d).conn = d
      /\ End(c).conn = c /\ End(d).conn = d
      /\ Challenge(c).conn = c /\ Challenge(d).conn = d
  BY DEF Arrival, Hello, End, Challenge, Task, Packet
<1> QED BY <1>1

LEMMA TasksMore ==
  ASSUME NEW n, NEW q \in Seq(Tasks(n)), NEW x \in Tasks(n), NEW c
  PROVE  /\ Append(q, x) \in Seq(Tasks(n))
         /\ Has(Append(q, x), Arrival(c)) <=> Has(q, Arrival(c)) \/ x = Arrival(c)
         /\ Has(Append(q, x), Hello(c)) <=> Has(q, Hello(c)) \/ x = Hello(c)
         /\ Has(Append(q, x), End(c)) <=> Has(q, End(c)) \/ x = End(c)
         /\ Once(q, Arrival(c)) /\ (x = Arrival(c) => ~Has(q, Arrival(c))) =>
              Once(Append(q, x), Arrival(c))
         /\ Once(q, Hello(c)) /\ (x = Hello(c) => ~Has(q, Hello(c))) =>
              Once(Append(q, x), Hello(c))
         /\ NotAfter(q, End(c), Hello(c)) /\ (x = Hello(c) => ~Has(q, End(c))) =>
              NotAfter(Append(q, x), End(c), Hello(c))
BY HasAppend, AppendIs

LEMMA TasksLess ==
  ASSUME NEW n, NEW q \in Seq(Tasks(n)), q # <<>>, NEW c
  PROVE  /\ Head(q) \in Tasks(n) /\ Tail(q) \in Seq(Tasks(n))
         /\ Has(q, Arrival(c)) <=> Head(q) = Arrival(c) \/ Has(Tail(q), Arrival(c))
         /\ Has(q, Hello(c)) <=> Head(q) = Hello(c) \/ Has(Tail(q), Hello(c))
         /\ Has(q, End(c)) <=> Head(q) = End(c) \/ Has(Tail(q), End(c))
         /\ Once(q, Arrival(c)) =>
              /\ Once(Tail(q), Arrival(c))
              /\ Head(q) = Arrival(c) => ~Has(Tail(q), Arrival(c))
         /\ Once(q, Hello(c)) =>
              /\ Once(Tail(q), Hello(c))
              /\ Head(q) = Hello(c) => ~Has(Tail(q), Hello(c))
         /\ NotAfter(q, End(c), Hello(c)) =>
              /\ NotAfter(Tail(q), End(c), Hello(c))
              /\ Head(q) = End(c) => ~Has(Tail(q), Hello(c))
BY HasTail, TailIs

LEMMA TaskIn ==
  ASSUME NEW n \in Nat, n <= MaxConns, NEW c \in 1..n
  PROVE  /\ c \in Conn
         /\ Arrival(c) \in Tasks(n) /\ End(c) \in Tasks(n)
         /\ \A d \in Conn : Task("hello", c, d) \in Tasks(n)
<1>1. c \in Conn
  BY BoundsAssumption DEF Conn
<1> QED BY <1>1 DEF Tasks, TaskSet, Arrival, End, Task

\* The next task is the one that its operation and its connection tell.
LEMMA NextTaskIs ==
  ASSUME LinkInv, NEW op, NEW c, NextTask(op, c)
  PROVE  /\ tasks # <<>> /\ c \in Accepted
         /\ op = "socket" => Head(tasks) = Arrival(c)
         /\ op = "stop" => Head(tasks) = End(c)
         /\ op = "hello" =>
              /\ Head(tasks).challenge = c => Head(tasks) = Hello(c)
              /\ \A d : Head(tasks) # Arrival(d) /\ Head(tasks) # End(d)
              /\ Head(tasks).challenge # c => \A d : Head(tasks) # Hello(d)
<1> DEFINE t == Head(tasks)
<1>1. tasks # <<>> /\ t.op = op /\ t.conn = c
  BY DEF NextTask
<1>2. t \in Tasks(Len(owner))
  BY <1>1, TasksLess DEF LinkInv
<1>3. /\ t.conn \in Accepted /\ (t.op # "hello" => t.challenge = None)
      /\ t = [op |-> t.op, conn |-> t.conn, challenge |-> t.challenge]
  BY <1>2 DEF Tasks, TaskSet, Accepted
<1> HIDE DEF t
<1>4. \A d : /\ Arrival(d).op = "socket" /\ End(d).op = "stop"
             /\ Hello(d).challenge = d /\ Hello(d).conn = d
  BY DEF Arrival, Hello, End, Task
<1>5. op = "hello" =>
        /\ \A d : t # Arrival(d) /\ t # End(d)
        /\ t.challenge # c => \A d : t # Hello(d)
  BY <1>1, <1>4 DEF t
<1>6. op = "hello" /\ t.challenge = c => t = Hello(c)
  BY <1>1, <1>3 DEF Hello, Task, t
<1>7. op = "socket" => t = Arrival(c)
  BY <1>1, <1>3 DEF Arrival, Task, t
<1>8. op = "stop" => t = End(c)
  BY <1>1, <1>3 DEF End, Task, t
<1> QED BY <1>1, <1>3, <1>5, <1>6, <1>7, <1>8 DEF t
-----------------------------------------------------------------------------
\* Sending

\* Packets other than challenges have been sent, to clients with connections.
Informs(old, new) ==
  /\ new \in Boxes
  /\ \A i \in Client : socket[i] = None => new[i] = old[i]
  /\ \A i \in Client, c \in Conn :
       /\ Has(new[i], Challenge(c)) <=> Has(old[i], Challenge(c))
       /\ Once(old[i], Challenge(c)) => Once(new[i], Challenge(c))

LEMMA InformsNone ==
  ASSUME NEW b \in Boxes
  PROVE  Informs(b, b)
BY DEF Informs

LEMMA InformsMore ==
  ASSUME NEW a, NEW b, NEW c, Informs(a, b), Informs(b, c)
  PROVE  Informs(a, c)
BY DEF Informs

LEMMA SentIs ==
  ASSUME TypeOK, LinkInv, NEW S \in SUBSET open, NEW boxes \in Boxes,
         NEW type \in {"challenge", "welcome", "join", "leave"},
         NEW ids \in SUBSET Client, type = "challenge" => ids = {}
  PROVE  /\ Sent(S, type, ids, boxes) \in Boxes
         /\ \A i \in Client :
              IF \E c \in S : owner[c] = i /\ c \notin broken
              THEN /\ socket[i] \in S \ broken /\ owner[socket[i]] = i
                   /\ Packet(socket[i], type, ids) \in Packets(Len(owner))
                   /\ Sent(S, type, ids, boxes)[i] =
                        Append(boxes[i], Packet(socket[i], type, ids))
              ELSE Sent(S, type, ids, boxes)[i] = boxes[i]
<1>1. ASSUME NEW i \in Client, NEW c \in S, owner[c] = i, c \notin broken
      PROVE  socket[i] = c
  BY <1>1 DEF LinkInv
<1>2. ASSUME NEW c \in open PROVE Packet(c, type, ids) \in Packets(Len(owner))
  BY DEF LinkInv, Packets, PacketSet, Packet, TypeOK, Accepted
<1>3. ASSUME NEW i \in Client
      PROVE  /\ boxes[i] \in Seq(Packets(Len(owner)))
             /\ \A c \in open : Append(boxes[i], Packet(c, type, ids))
                                  \in Seq(Packets(Len(owner)))
  BY <1>2, AppendIs DEF Boxes
<1>4. Sent(S, type, ids, boxes) \in Boxes
  BY <1>1, <1>3 DEF Sent, Boxes
<1>5. ASSUME NEW i \in Client
      PROVE  Sent(S, type, ids, boxes)[i] =
               IF \E c \in S : owner[c] = i /\ c \notin broken
               THEN Append(boxes[i], Packet(socket[i], type, ids))
               ELSE boxes[i]
  BY DEF Sent
<1> QED BY <1>1, <1>2, <1>4, <1>5

LEMMA SentInforms ==
  ASSUME TypeOK, LinkInv, NEW S \in SUBSET open, NEW boxes \in Boxes,
         NEW type \in {"welcome", "join", "leave"}, NEW ids \in SUBSET Client
  PROVE  Informs(boxes, Sent(S, type, ids, boxes))
<1> DEFINE new == Sent(S, type, ids, boxes)
<1>1. /\ new \in Boxes
      /\ \A i \in Client :
           \/ new[i] = boxes[i]
           \/ /\ socket[i] \in S
              /\ Packet(socket[i], type, ids) \in Packets(Len(owner))
              /\ new[i] = Append(boxes[i], Packet(socket[i], type, ids))
  <2>1. type \in {"challenge", "welcome", "join", "leave"} /\ type # "challenge"
    OBVIOUS
  <2>2. /\ new \in Boxes
        /\ \A i \in Client :
             IF \E c \in S : owner[c] = i /\ c \notin broken
             THEN /\ socket[i] \in S \ broken /\ owner[socket[i]] = i
                  /\ Packet(socket[i], type, ids) \in Packets(Len(owner))
                  /\ new[i] = Append(boxes[i], Packet(socket[i], type, ids))
             ELSE new[i] = boxes[i]
    BY <2>1, SentIs
  <2> HIDE DEF new
  <2> QED BY <2>2
<1>2. ASSUME NEW c, NEW d PROVE Packet(c, type, ids) # Challenge(d)
  BY DEF Packet, Challenge
<1> HIDE DEF new
<1>3. None \notin S
  BY DEF TypeOK, Conn, None
<1>4. ASSUME NEW i \in Client, NEW d
      PROVE  /\ Has(new[i], Challenge(d)) <=> Has(boxes[i], Challenge(d))
             /\ Once(boxes[i], Challenge(d)) => Once(new[i], Challenge(d))
  <2>1. CASE new[i] = boxes[i]
    BY <2>1
  <2>2. CASE new[i] # boxes[i]
    <3>1. boxes[i] \in Seq(Packets(Len(owner)))
      BY DEF Boxes
    <3>2. PICK p \in Packets(Len(owner)) :
            new[i] = Append(boxes[i], p) /\ p # Challenge(d)
      BY <1>1, <1>2, <2>2
    <3> QED BY <3>1, <3>2, HasAppend
  <2> QED BY <2>1, <2>2
<1> QED BY <1>1, <1>3, <1>4 DEF Informs, new

\* What boxes become when a packet about k goes to some connections, or to none
Partly(type, k, boxes) ==
  {boxes} \cup {Sent(R, type, {k}, boxes) : R \in SUBSET open}

LEMMA BroadcastIs ==
  ASSUME TypeOK, LinkInv, NEW S \in SUBSET open, NEW boxes \in Boxes,
         NEW type \in {"welcome", "join", "leave"}, NEW k \in Client,
         NEW b \in Broadcast(S, type, {k}, boxes)
  PROVE  /\ b.ok \in BOOLEAN
         /\ Informs(boxes, b.inbox) /\ b.inbox \in Partly(type, k, boxes)
         /\ b.ok => b.inbox = Sent(S, type, {k}, boxes)
<1> DEFINE ids == {k}
<1>1. \/ b.ok = TRUE /\ b.inbox = Sent(S, type, ids, boxes)
      \/ \E R \in SUBSET S : b.ok = FALSE /\ b.inbox = Sent(R, type, ids, boxes)
  BY DEF Broadcast
<1>2. \A R \in SUBSET S : Informs(boxes, Sent(R, type, ids, boxes))
  BY SentInforms
<1>3. \A R \in SUBSET S : Sent(R, type, ids, boxes) \in Partly(type, k, boxes)
  BY DEF Partly
<1> QED BY <1>1, <1>2, <1>3

\* Whoever is registered has an open connection of its own.
LEMMA RegisteredIs ==
  ASSUME TypeOK, LinkInv, RegistryIsTrue
  PROVE  /\ Registered \subseteq named /\ Registered \subseteq open
         /\ None \notin Registered /\ None \notin open
         /\ \A c \in Registered : owner[c] \in Client /\ clients[owner[c]] = c
         /\ \A c \in open : c \in Accepted /\ c \in Conn /\ owner[c] \in Client
         /\ \A i \in Client : clients[i] # None => clients[i] \in Registered
<1>1. \A c \in Accepted : owner[c] \in Client
  BY ElementOfSeq DEF TypeOK, Accepted
<1> QED BY <1>1 DEF TypeOK, LinkInv, RegistryIsTrue, Registered, Conn, None

LEMMA LeaveIs ==
  ASSUME TypeOK, LinkInv, RegistryIsTrue, NEW c \in Accepted, NEW b \in Leave(c)
  PROVE  /\ b.ok \in BOOLEAN
         /\ Informs(inbox, b.inbox)
         /\ b.inbox \in Partly("leave", owner[c], inbox)
         /\ b.ok => b.inbox =
              IF c \in named
              THEN Sent(Registered \ {c}, "leave", {owner[c]}, inbox) ELSE inbox
<1>1. owner[c] \in Client
  BY ElementOfSeq DEF TypeOK, Accepted
<1>2. inbox \in Boxes
  BY DEF LinkInv
<1>3. CASE c \in named
  <2>1. Registered \ {c} \in SUBSET open
    BY <1>1, RegisteredIs
  <2>2. b \in Broadcast(Registered \ {c}, "leave", {owner[c]}, inbox)
    BY <1>3 DEF Leave
  <2> QED BY <1>1, <1>2, <1>3, <2>1, <2>2, BroadcastIs
<1>4. CASE c \notin named
  <2>1. b.ok = TRUE /\ b.inbox = inbox
    BY <1>4 DEF Leave
  <2>2. Informs(inbox, inbox) /\ inbox \in Partly("leave", owner[c], inbox)
    BY <1>2, InformsNone DEF Partly
  <2> QED BY <1>4, <2>1, <2>2
<1> QED BY <1>3, <1>4

LEMMA JoinIs ==
  ASSUME TypeOK, LinkInv, RegistryIsTrue, NEW c \in open, NEW boxes \in Boxes,
         NEW b \in Join(c, boxes)
  PROVE  /\ b.ok \in BOOLEAN
         /\ Informs(boxes, b.inbox)
         /\ ~b.ok => b.inbox \in Partly("join", owner[c], boxes)
         /\ b.ok => \E told \in Boxes :
              /\ told = Sent(Registered \ {c, clients[owner[c]]}, "join",
                             {owner[c]}, boxes)
              /\ b.inbox = Sent({c}, "welcome", WelcomeList(c), told)
<1> DEFINE S == Registered \ {c, clients[owner[c]]}
<1>1. /\ S \in SUBSET open /\ owner[c] \in Client
      /\ WelcomeList(c) \in SUBSET Client /\ {c} \in SUBSET open
  BY RegisteredIs DEF WelcomeList
<1>2. PICK a \in Broadcast(S, "join", {owner[c]}, boxes) :
        b = IF ~a.ok THEN a
            ELSE [ok |-> TRUE, inbox |-> Sent({c}, "welcome", WelcomeList(c), a.inbox)]
  BY DEF Join
<1> HIDE DEF S
<1>3. /\ a.ok \in BOOLEAN /\ Informs(boxes, a.inbox)
      /\ a.inbox \in Partly("join", owner[c], boxes)
      /\ a.ok => a.inbox = Sent(S, "join", {owner[c]}, boxes)
  BY <1>1, BroadcastIs
<1>4. a.inbox \in Boxes
  BY <1>3 DEF Informs
<1>5. Informs(a.inbox, Sent({c}, "welcome", WelcomeList(c), a.inbox))
  BY <1>1, <1>4, SentInforms
<1>6. CASE a.ok
  <2>1. /\ b.ok = TRUE
        /\ b.inbox = Sent({c}, "welcome", WelcomeList(c), a.inbox)
    BY <1>2, <1>6
  <2>2. Informs(boxes, b.inbox)
    BY <1>3, <1>5, <2>1, InformsMore
  <2> QED BY <1>3, <1>4, <1>6, <2>1, <2>2 DEF S
<1>7. CASE ~a.ok
  BY <1>2, <1>3, <1>7
<1> QED BY <1>3, <1>6, <1>7
-----------------------------------------------------------------------------
\* What the server does to its handlers

LEMMA StoppedIs ==
  ASSUME TypeOK, LinkInv, NEW c, c \in receiving => c \in Accepted,
         NEW rest \in Seq(Tasks(Len(owner)))
  PROVE  rest \o Stopped(c) = IF c \in receiving THEN Append(rest, End(c)) ELSE rest
<1>1. CASE c \in receiving
  <2>1. Len(owner) \in Nat /\ Len(owner) <= MaxConns /\ c \in 1..Len(owner)
    BY <1>1, LenProperties DEF TypeOK, Accepted
  <2>2. End(c) \in Tasks(Len(owner))
    BY <2>1, TaskIn
  <2>3. Stopped(c) = <<End(c)>>
    BY <1>1 DEF Stopped, End
  <2> QED BY <1>1, <2>2, <2>3, AppendIsConcat
<1>2. CASE c \notin receiving
  <2>1. Stopped(c) = <<>>
    BY <1>2 DEF Stopped
  <2> QED BY <1>2, <2>1, ConcatEmptySeq
<1> QED BY <1>1, <1>2

\* stop() of a handler is cut short, or it closes its connection, or that one
\* is broken and does not let itself be shut down.
StopCut(c, rest) ==
  /\ UNCHANGED <<named, open, receiving>> /\ tasks' = rest
  /\ clients' \in {clients, Unregistered(c)}
  /\ owner[c] \in spoilt'
  /\ inbox' \in Partly("leave", owner[c], inbox)

StopDone(c, rest) ==
  /\ clients' = Unregistered(c)
  /\ inbox' = IF c \in named
              THEN Sent(Registered \ {c}, "leave", {owner[c]}, inbox)
              ELSE inbox
  /\ \/ /\ Closed(c)
        /\ tasks' = IF c \in receiving THEN Append(rest, End(c)) ELSE rest
     \/ /\ named' = named \ {c} /\ UNCHANGED <<open, receiving>>
        /\ tasks' = rest /\ c \in broken

LEMMA StopIs ==
  ASSUME TypeOK, LinkInv, RegistryIsTrue, NEW c \in Accepted,
         NEW rest \in Seq(Tasks(Len(owner))), StopHandler(c, rest)
  PROVE  /\ Informs(inbox, inbox')
         /\ spoilt' \subseteq Client /\ spoilt \subseteq spoilt'
         /\ StopCut(c, rest) \/ StopDone(c, rest)
<1>0. inbox \in Boxes /\ spoilt \subseteq Client /\ owner[c] \in Client
  BY ElementOfSeq DEF LinkInv, TypeOK, Accepted
<1>1. CASE /\ AlreadyUnregistered(c) /\ tasks' = rest
           /\ UNCHANGED <<handlers, inbox, spoilt>>
  <2>1. clients[owner[c]] # c /\ c \in named
    BY <1>1, RegisteredIs DEF AlreadyUnregistered, LinkInv
  <2>2. owner[c] \in spoilt'
    BY <1>1, <2>1 DEF RegistryIsTrue
  <2>3. Informs(inbox, inbox') /\ inbox' \in Partly("leave", owner[c], inbox)
    BY <1>0, <1>1, InformsNone DEF Partly
  <2> QED BY <1>0, <1>1, <2>2, <2>3 DEF handlers, StopCut
<1>a. ASSUME NEW b \in Leave(c)
      PROVE  /\ b.ok \in BOOLEAN
             /\ Informs(inbox, b.inbox)
             /\ b.inbox \in Partly("leave", owner[c], inbox)
             /\ b.ok => b.inbox =
                  IF c \in named
                  THEN Sent(Registered \ {c}, "leave", {owner[c]}, inbox)
                  ELSE inbox
  BY LeaveIs
<1>2. CASE /\ clients' = Unregistered(c)
           /\ \E b \in Leave(c) :
                /\ inbox' = b.inbox
                /\ spoilt' = IF b.ok THEN spoilt ELSE spoilt \cup {owner[c]}
                /\ IF b.ok THEN Closed(c) /\ tasks' = rest \o Stopped(c)
                   ELSE tasks' = rest /\ UNCHANGED <<named, open, receiving>>
  <2>1. PICK b \in Leave(c) :
          /\ inbox' = b.inbox
          /\ spoilt' = IF b.ok THEN spoilt ELSE spoilt \cup {owner[c]}
          /\ IF b.ok THEN Closed(c) /\ tasks' = rest \o Stopped(c)
             ELSE tasks' = rest /\ UNCHANGED <<named, open, receiving>>
    BY <1>2
  <2>2. c \in receiving => c \in Accepted
    OBVIOUS
  <2>3. rest \o Stopped(c) = IF c \in receiving THEN Append(rest, End(c)) ELSE rest
    BY <2>2, StoppedIs
  <2>4. CASE b.ok
    BY <1>0, <1>2, <1>a, <2>1, <2>3, <2>4 DEF StopDone
  <2>5. CASE ~b.ok
    BY <1>0, <1>2, <1>a, <2>1, <2>5 DEF StopCut
  <2> QED BY <2>4, <2>5
<1>3. CASE /\ MayNotShut(c) /\ clients' = Unregistered(c)
           /\ \E b \in Leave(c) : b.ok /\ inbox' = b.inbox
           /\ named' = named \ {c} /\ tasks' = rest
           /\ UNCHANGED <<open, receiving, spoilt>>
  BY <1>0, <1>3, <1>a DEF StopDone, MayNotShut
<1> QED BY <1>1, <1>2, <1>3 DEF StopHandler

\* A hello identifies the connection, and evicts the older one, unless it is
\* cut short.
HelloCut(c, old) ==
  /\ owner[c] \in spoilt' /\ old # None
  /\ \/ named' = named \cup {c}
     \/ named' = (named \ {old}) \cup {c} /\ old \in broken
  /\ clients' = Unregistered(old)
  /\ inbox' \in Partly("leave", owner[c], inbox)
  /\ tasks' = Tail(tasks) /\ UNCHANGED <<open, receiving>>

HelloDone(c, old) ==
  /\ named' = (named \ {old}) \cup {c}
  /\ open' = open \ {old} /\ receiving' = receiving \ {old}
  /\ clients' = [clients EXCEPT ![owner[c]] = c]
  /\ tasks' = IF old \in receiving THEN Append(Tail(tasks), End(old))
              ELSE Tail(tasks)
  /\ \E left \in Boxes :
       /\ left = IF old = None THEN inbox
                 ELSE Sent(Registered \ {old}, "leave", {owner[c]}, inbox)
       /\ \/ owner[c] \in spoilt' /\ inbox' \in Partly("join", owner[c], left)
          \/ \E told \in Boxes :
               /\ told = Sent(Registered \ {c, old}, "join", {owner[c]}, left)
               /\ inbox' = Sent({c}, "welcome", WelcomeList(c), told)

LEMMA HelloIs ==
  ASSUME TypeOK, LinkInv, RegistryIsTrue, NEW c \in open, c \notin named,
         HandleHello(c), NEW old, old = clients[owner[c]]
  PROVE  /\ Informs(inbox, inbox')
         /\ spoilt' \subseteq Client /\ spoilt \subseteq spoilt'
         /\ old # None => /\ old \in Registered /\ old \in named
                          /\ owner[old] = owner[c] /\ old # c
         /\ HelloCut(c, old) \/ HelloDone(c, old)
<1>0. /\ inbox \in Boxes /\ spoilt \subseteq Client
      /\ c \in Accepted /\ owner[c] \in Client /\ NextTask("hello", c)
  BY RegisteredIs DEF LinkInv, TypeOK, HandleHello
<1>1. old # None => /\ old \in Registered /\ old \in Accepted /\ old \in named
                    /\ owner[old] = owner[c] /\ old # c
  BY <1>0, RegisteredIs DEF RegistryIsTrue
<1>2. ASSUME NEW e \in Evict(old)
      PROVE  /\ e.ok \in BOOLEAN /\ Informs(inbox, e.inbox)
             /\ ~e.ok => old # None
             /\ e.inbox \in Partly("leave", owner[c], inbox)
             /\ e.ok => e.inbox = IF old = None THEN inbox
                                  ELSE Sent(Registered \ {old}, "leave",
                                            {owner[c]}, inbox)
  <2>1. CASE old = None
    <3>1. e.ok = TRUE /\ e.inbox = inbox
      BY <1>2, <2>1 DEF Evict
    <3>2. Informs(inbox, inbox) /\ inbox \in Partly("leave", owner[c], inbox)
      BY <1>0, InformsNone DEF Partly
    <3> QED BY <2>1, <3>1, <3>2
  <2>2. CASE old # None
    <3>1. e \in Leave(old)
      BY <1>2, <2>2 DEF Evict
    <3> QED BY <1>1, <2>2, <3>1, LeaveIs
  <2> QED BY <2>1, <2>2
<1>3. Tail(tasks) \o Stopped(old) =
        IF old \in receiving THEN Append(Tail(tasks), End(old)) ELSE Tail(tasks)
  <2>1. Tail(tasks) \in Seq(Tasks(Len(owner)))
    BY <1>0, NextTaskIs, TasksLess DEF LinkInv
  <2>2. old \in receiving => old \in Accepted
    BY DEF TypeOK, LinkInv
  <2> QED BY <2>1, <2>2, StoppedIs
<1>4. CASE \E e \in Evict(old) :
             /\ e.ok => MayNotShut(old)
             /\ named' = (IF e.ok THEN named \ {old} ELSE named) \cup {c}
             /\ clients' = Unregistered(old)
             /\ inbox' = e.inbox
             /\ spoilt' = spoilt \cup {owner[c]}
             /\ tasks' = Tail(tasks)
             /\ UNCHANGED <<open, receiving>>
  <2>1. PICK e \in Evict(old) :
          /\ e.ok => MayNotShut(old)
          /\ named' = (IF e.ok THEN named \ {old} ELSE named) \cup {c}
          /\ inbox' = e.inbox
    BY <1>4
  <2>2. MayNotShut(old) => old # None /\ old \in broken
    BY RegisteredIs DEF MayNotShut
  <2>3. /\ old # None
        /\ \/ named' = named \cup {c}
           \/ named' = (named \ {old}) \cup {c} /\ old \in broken
    BY <1>2, <2>1, <2>2
  <2> QED BY <1>0, <1>1, <1>2, <1>4, <2>1, <2>3 DEF HelloCut
<1>5. CASE \E e \in Evict(old) : \E b \in Join(c, e.inbox) :
             /\ e.ok
             /\ named' = (named \ {old}) \cup {c}
             /\ open' = open \ {old}
             /\ receiving' = receiving \ {old}
             /\ clients' = [clients EXCEPT ![owner[c]] = c]
             /\ inbox' = b.inbox
             /\ spoilt' = IF b.ok THEN spoilt ELSE spoilt \cup {owner[c]}
             /\ tasks' = Tail(tasks) \o Stopped(old)
  <2>a. PICK e \in Evict(old) : \E b \in Join(c, e.inbox) :
          /\ e.ok
          /\ inbox' = b.inbox
          /\ spoilt' = IF b.ok THEN spoilt ELSE spoilt \cup {owner[c]}
    BY <1>5
  <2>1. PICK b \in Join(c, e.inbox) :
          /\ e.ok
          /\ inbox' = b.inbox
          /\ spoilt' = IF b.ok THEN spoilt ELSE spoilt \cup {owner[c]}
    BY <2>a
  <2>2. /\ Informs(inbox, e.inbox) /\ e.inbox \in Boxes
        /\ e.inbox = IF old = None THEN inbox
                     ELSE Sent(Registered \ {old}, "leave", {owner[c]}, inbox)
    BY <1>2, <2>1 DEF Informs
  <2>3. /\ b.ok \in BOOLEAN /\ Informs(e.inbox, b.inbox)
        /\ ~b.ok => b.inbox \in Partly("join", owner[c], e.inbox)
        /\ b.ok => \E told \in Boxes :
             /\ told = Sent(Registered \ {c, old}, "join", {owner[c]}, e.inbox)
             /\ b.inbox = Sent({c}, "welcome", WelcomeList(c), told)
    BY <2>2, JoinIs
  <2>4. Informs(inbox, inbox')
    BY <2>1, <2>2, <2>3, InformsMore
  <2>5. /\ spoilt' \subseteq Client /\ spoilt \subseteq spoilt'
        /\ ~b.ok => owner[c] \in spoilt'
    BY <1>0, <2>1
  <2>6. \E left \in Boxes :
          /\ left = IF old = None THEN inbox
                    ELSE Sent(Registered \ {old}, "leave", {owner[c]}, inbox)
          /\ \/ owner[c] \in spoilt' /\ inbox' \in Partly("join", owner[c], left)
             \/ \E told \in Boxes :
                  /\ told = Sent(Registered \ {c, old}, "join", {owner[c]}, left)
                  /\ inbox' = Sent({c}, "welcome", WelcomeList(c), told)
    BY <2>1, <2>2, <2>3, <2>5
  <2>7. HelloDone(c, old)
    BY <1>3, <1>5, <2>6 DEF HelloDone
  <2> QED BY <1>1, <2>4, <2>5, <2>7
<1> QED BY <1>4, <1>5 DEF HandleHello
-----------------------------------------------------------------------------
\* Types, and who holds which connection

\* A hello that meets the challenge comes to an open connection, once.
LEMMA HelloOpen ==
  ASSUME TypeOK, LinkInv, TokenInv, NEW c, HandleHello(c)
  PROVE  /\ c \in open /\ c \notin named /\ c \in Accepted
         /\ tasks # <<>> /\ Head(tasks) = Hello(c) /\ Knocks(c)
<1>1. NextTask("hello", c) /\ Head(tasks).challenge = c
  BY DEF HandleHello
<1>2. c \in Accepted /\ tasks # <<>> /\ Head(tasks) = Hello(c)
  BY <1>1, NextTaskIs
<1>3. Knocks(c)
  BY <1>2, TasksLess DEF LinkInv, Knocks
<1> QED BY <1>2, <1>3 DEF TokenInv, Staged, Ended

\* The types that LinkInv does not tell
Rest ==
  /\ server \in {"up", "down", "stopping", "raised"}
  /\ clients \in [Client -> Conn \cup {None}]
  /\ receiving \subseteq open
  /\ owner \in Seq(Client) /\ Len(owner) <= MaxConns
  /\ upstream \in [Conn -> Seq(Conn)]
  /\ socket \in [Client -> Conn \cup {None}]
  /\ view \in [Client -> SUBSET Client]
  /\ spoilt \subseteq Client
  /\ stops \in 0..MaxStops

LEMMA TypeParts ==
  /\ TypeOK => Rest
  /\ Rest /\ LinkInv => TypeOK
<1>1. TypeOK => Rest
  BY DEF TypeOK, Rest
<1>2. ASSUME Rest, LinkInv PROVE TypeOK
  <2>1. /\ Len(owner) \in Nat /\ Accepted \subseteq Conn
    BY <1>2, LenProperties, BoundsAssumption DEF Rest, Accepted, Conn
  <2>2. tasks \in Seq(TaskSet)
    <3>1. Tasks(Len(owner)) \subseteq TaskSet
      BY DEF Tasks
    <3> QED BY <1>2, <3>1, Wider DEF LinkInv
  <2>3. inbox \in [Client -> Seq(PacketSet)]
    <3>1. Packets(Len(owner)) \subseteq PacketSet
      BY DEF Packets
    <3>2. \A i \in Client : inbox[i] \in Seq(PacketSet)
      BY <1>2, <3>1, Wider DEF LinkInv, Boxes
    <3> QED BY <1>2, <3>2 DEF LinkInv, Boxes
  <2> QED BY <1>2, <2>1, <2>2, <2>3 DEF Rest, LinkInv, TypeOK, TaskSet
<1> QED BY <1>1, <1>2

LEMMA TypePartsNext == (Rest /\ LinkInv => TypeOK)'
BY TypeParts, PTL

\* The server's steps, which change handlers, tasks and inboxes
LEMMA ServerLinks ==
  ASSUME TypeOK, LinkInv, UNCHANGED <<net, upstream, socket, view, stops>>,
         Informs(inbox, inbox') \/ inbox' \in Boxes,
         tasks' \in Seq(Tasks(Len(owner))),
         open' \subseteq open, named' \subseteq open', receiving' \subseteq open',
         clients' \in [Client -> Conn \cup {None}],
         server' \in {"up", "down", "stopping", "raised"}, spoilt' \subseteq Client
  PROVE  Rest' /\ LinkInv'
<1>1. Rest /\ owner' = owner /\ broken' = broken
  BY TypeParts DEF net
<1>2. Rest'
  BY <1>1 DEF Rest
<1>3. inbox' \in Boxes
  BY DEF Informs
<1>4. Boxes' = Boxes /\ Accepted' = Accepted
  BY <1>1 DEF Boxes, Accepted
<1> QED BY <1>1, <1>2, <1>3, <1>4 DEF LinkInv

LEMMA StopLinks ==
  ASSUME TypeOK, LinkInv, RegistryIsTrue, NEW c \in Accepted,
         NEW rest \in Seq(Tasks(Len(owner))), StopHandler(c, rest),
         UNCHANGED <<net, upstream, socket, view, stops>>,
         server' \in {"up", "down", "stopping", "raised"}
  PROVE  Rest' /\ LinkInv'
<1>1. /\ Informs(inbox, inbox') /\ spoilt' \subseteq Client
      /\ clients' \in {clients, Unregistered(c)}
      /\ \/ /\ named' \in {named, named \ {c}} /\ UNCHANGED <<open, receiving>>
            /\ tasks' = rest
         \/ /\ Closed(c)
            /\ tasks' = IF c \in receiving THEN Append(rest, End(c)) ELSE rest
  BY StopIs DEF StopCut, StopDone
<1>2. Append(rest, End(c)) \in Seq(Tasks(Len(owner)))
  <2>1. Len(owner) \in Nat /\ Len(owner) <= MaxConns /\ c \in 1..Len(owner)
    BY LenProperties DEF TypeOK, Accepted
  <2> QED BY <2>1, TaskIn, AppendIs
<1>3. clients' \in [Client -> Conn \cup {None}]
  BY <1>1 DEF TypeOK, Unregistered
<1>4. open' \subseteq open /\ named' \subseteq open' /\ receiving' \subseteq open'
  BY <1>1 DEF Closed, TypeOK, LinkInv
<1>5. tasks' \in Seq(Tasks(Len(owner)))
  BY <1>1, <1>2
<1> QED BY <1>1, <1>3, <1>4, <1>5, ServerLinks

LEMMA LinkStep ==
  ASSUME TypeOK, LinkInv, RegistryIsTrue, TokenInv, [Next]_vars
  PROVE  Rest' /\ LinkInv'
<1>0. /\ Len(owner) \in Nat /\ Len(owner) <= MaxConns /\ Rest
      /\ \A c \in Accepted : c \in Conn /\ owner[c] \in Client
      /\ \A i \in Client : inbox[i] \in Seq(Packets(Len(owner)))
      /\ \A c \in Conn : upstream[c] \in Seq(Conn)
  <2>1. Len(owner) \in Nat /\ Len(owner) <= MaxConns /\ Rest
    BY LenProperties, TypeParts DEF TypeOK
  <2>2. \A c \in Accepted : c \in Conn /\ owner[c] \in Client
    BY <2>1, ElementOfSeq, BoundsAssumption DEF TypeOK, Accepted, Conn
  <2> QED BY <2>1, <2>2 DEF TypeOK, LinkInv, Boxes
<1>a. tasks # <<>> => Tail(tasks) \in Seq(Tasks(Len(owner)))
  BY TasksLess DEF LinkInv
<1>1. ASSUME NEW c \in Conn, HandleSocket(c) PROVE Rest' /\ LinkInv'
  <2>1. /\ NextTask("socket", c) /\ tasks' = Tail(tasks)
        /\ receiving' = receiving \cup {c}
        /\ inbox' = Sent({c}, "challenge", {}, inbox)
        /\ UNCHANGED <<server, clients, named, open, net, upstream, socket, view,
                       spoilt, stops>>
    BY <1>1 DEF HandleSocket
  <2>2. tasks # <<>> /\ c \in Accepted /\ Arrives(c)
    <3>1. tasks # <<>> /\ c \in Accepted /\ Head(tasks) = Arrival(c)
      BY <2>1, NextTaskIs
    <3> QED BY <3>1, TasksLess DEF LinkInv, Arrives
  <2>3. c \in open
    BY <2>2 DEF TokenInv, Ended
  <2>4. inbox' \in Boxes
    <3>1. {c} \in SUBSET open /\ inbox \in Boxes
      BY <2>3 DEF LinkInv
    <3> QED BY <2>1, <3>1, SentIs
  <2>5. /\ named' \subseteq open' /\ receiving' \subseteq open'
        /\ clients' \in [Client -> Conn \cup {None}] /\ spoilt' \subseteq Client
        /\ server' \in {"up", "down", "stopping", "raised"}
    BY <2>1, <2>3 DEF TypeOK, LinkInv
  <2> QED BY <1>a, <2>1, <2>2, <2>4, <2>5, ServerLinks
<1>2. ASSUME NEW c \in Conn, RefuseHello(c) PROVE Rest' /\ LinkInv'
  <2>1. /\ tasks # <<>> /\ tasks' = Tail(tasks)
        /\ UNCHANGED <<server, handlers, net, upstream, ends, spoilt, stops>>
    BY <1>2 DEF RefuseHello, NextTask
  <2>2. /\ Informs(inbox, inbox') /\ open' \subseteq open /\ named' \subseteq open'
        /\ receiving' \subseteq open' /\ clients' \in [Client -> Conn \cup {None}]
        /\ spoilt' \subseteq Client /\ server' \in {"up", "down", "stopping", "raised"}
        /\ UNCHANGED <<net, upstream, socket, view, stops>>
    BY <2>1, InformsNone DEF TypeOK, LinkInv, handlers, ends
  <2> QED BY <1>a, <2>1, <2>2, ServerLinks
<1>3. ASSUME NEW c \in Conn, HandleHello(c) PROVE Rest' /\ LinkInv'
  <2> DEFINE old == clients[owner[c]]
  <2>1. /\ c \in open /\ c \notin named /\ c \in Accepted /\ tasks # <<>>
        /\ UNCHANGED <<server, net, upstream, socket, view, stops>>
    BY <1>3, HelloOpen DEF HandleHello
  <2>2. owner[c] \in Client /\ old \in Conn \cup {None}
    BY <1>0, <2>1 DEF TypeOK
  <2>3. old # None => old \in Accepted /\ old # c
    BY <2>1, <2>2, RegisteredIs DEF LinkInv
  <2> HIDE DEF old
  <2>4. /\ Informs(inbox, inbox') /\ spoilt' \subseteq Client
        /\ \/ /\ named' \subseteq named \cup {c} /\ clients' = Unregistered(old)
              /\ tasks' = Tail(tasks) /\ UNCHANGED <<open, receiving>>
           \/ /\ named' = (named \ {old}) \cup {c}
              /\ open' = open \ {old} /\ receiving' = receiving \ {old}
              /\ clients' = [clients EXCEPT ![owner[c]] = c]
              /\ tasks' = IF old \in receiving THEN Append(Tail(tasks), End(old))
                          ELSE Tail(tasks)
    <3>1. /\ Informs(inbox, inbox') /\ spoilt' \subseteq Client
          /\ HelloCut(c, old) \/ HelloDone(c, old)
      BY <1>3, <2>1, HelloIs DEF old
    <3> QED BY <3>1 DEF HelloCut, HelloDone
  <2>5. old \in receiving => old # None
    BY DEF TypeOK, Conn, None
  <2>6. old \in receiving =>
          Append(Tail(tasks), End(old)) \in Seq(Tasks(Len(owner)))
    BY <1>0, <1>a, <2>1, <2>3, <2>5, TaskIn, AppendIs DEF Accepted
  <2>7. tasks' \in Seq(Tasks(Len(owner)))
    BY <1>a, <2>1, <2>4, <2>6
  <2>8. c # old
    BY <2>1, <2>3 DEF TypeOK, Conn, None
  <2>9. open' \subseteq open /\ named' \subseteq open' /\ receiving' \subseteq open'
    BY <2>1, <2>4, <2>8 DEF TypeOK, LinkInv
  <2>10. clients' \in [Client -> Conn \cup {None}]
    BY <1>0, <2>1, <2>2, <2>4 DEF TypeOK, Unregistered
  <2> QED BY <2>1, <2>4, <2>7, <2>9, <2>10, ServerLinks DEF TypeOK
<1>4. ASSUME NEW c \in Conn, HandleEnd(c) PROVE Rest' /\ LinkInv'
  <2>1. /\ NextTask("stop", c) /\ StopHandler(c, Tail(tasks))
        /\ UNCHANGED <<server, net, upstream, socket, view, stops>>
    BY <1>4 DEF HandleEnd
  <2>2. c \in Accepted /\ tasks # <<>>
    BY <2>1, NextTaskIs
  <2> QED BY <1>a, <2>1, <2>2, StopLinks DEF TypeOK
<1>5. ASSUME StopNext PROVE Rest' /\ LinkInv'
  <2>1. UNCHANGED <<net, upstream, socket, view, stops>>
    BY <1>5 DEF StopNext
  <2>2. CASE server' = "down" /\ UNCHANGED <<handlers, tasks, inbox, spoilt>>
    <3>1. /\ Informs(inbox, inbox') /\ open' \subseteq open /\ named' \subseteq open'
          /\ receiving' \subseteq open' /\ clients' \in [Client -> Conn \cup {None}]
          /\ spoilt' \subseteq Client /\ tasks' \in Seq(Tasks(Len(owner)))
      BY <2>2, InformsNone DEF TypeOK, LinkInv, handlers
    <3> QED BY <2>1, <2>2, <3>1, ServerLinks
  <2>3. ASSUME NEW c \in Registered, StopHandler(c, tasks),
               server' = IF c \in open' THEN "raised" ELSE "stopping"
        PROVE  Rest' /\ LinkInv'
    BY <2>1, <2>3, RegisteredIs, StopLinks DEF LinkInv
  <2> QED BY <1>5, <2>2, <2>3 DEF StopNext
<1>6. ASSUME Start \/ Stop PROVE Rest' /\ LinkInv'
  <2>1. /\ UNCHANGED <<handlers, tasks, net, upstream, ends, spoilt>>
        /\ server' \in {"up", "down", "stopping", "raised"}
        /\ stops' \in 0..MaxStops
    BY <1>6, BoundsAssumption DEF Start, Stop, TypeOK
  <2>2. Rest'
    BY <1>0, <2>1 DEF Rest, handlers, net, ends
  <2>3. LinkInv'
    BY <2>1 DEF LinkInv, handlers, net, ends, Boxes, Accepted
  <2> QED BY <2>2, <2>3
<1>7. ASSUME NEW i \in Client, Connect(i) PROVE Rest' /\ LinkInv'
  <2> DEFINE n == Len(owner)
             c == n + 1
  <2>1. /\ socket[i] = None /\ c \in Conn
        /\ owner' = Append(owner, i)
        /\ socket' = [socket EXCEPT ![i] = c]
        /\ open' = open \cup {c}
        /\ tasks' = Append(tasks, Arrival(c))
        /\ UNCHANGED <<server, clients, named, receiving, broken, upstream, inbox,
                       view, spoilt, stops>>
    BY <1>7 DEF Connect, Arrival
  <2>2. /\ owner' \in Seq(Client) /\ Len(owner') = c /\ owner'[c] = i
        /\ \A d \in Accepted : owner'[d] = owner[d]
    BY <2>1, AppendIs DEF TypeOK, Accepted
  <2>3. c <= MaxConns /\ c \in Nat /\ c \in 1..c /\ n \in Nat
    BY <1>0, <2>1 DEF Conn
  <2> HIDE DEF c
  <2>4. Accepted' = Accepted \cup {c} /\ c \notin Accepted
    BY <1>0, <2>2, <2>3 DEF Accepted, c
  <2>5. tasks' \in Seq(Tasks(c))
    <3>1. Tasks(n) \subseteq Tasks(c)
      BY <2>3 DEF Tasks, c
    <3>2. tasks \in Seq(Tasks(c)) /\ Arrival(c) \in Tasks(c)
      BY <2>3, <3>1, Wider, TaskIn DEF LinkInv
    <3> QED BY <2>1, <3>2, AppendIs
  <2>6. inbox' \in Boxes'
    <3>1. Packets(n) \subseteq Packets(c)
      BY <2>3 DEF Packets, c
    <3>2. \A j \in Client : inbox[j] \in Seq(Packets(c))
      BY <1>0, <3>1, Wider
    <3> QED BY <2>1, <2>2, <3>2 DEF LinkInv, Boxes
  <2>7. Rest'
    BY <1>0, <2>1, <2>2, <2>3 DEF Rest
  <2>8. \A d \in (open \ broken)' : (socket[owner[d]])' = d
    <3>1. ASSUME NEW d \in open \ broken PROVE socket'[owner'[d]] = d
      <4>1. d \in Accepted /\ socket[owner[d]] = d /\ d # None
        BY DEF LinkInv, TypeOK, Conn, None
      <4>2. owner[d] # i /\ owner[d] \in Client
        BY <1>0, <2>1, <4>1
      <4> QED BY <1>0, <2>1, <2>2, <4>1, <4>2 DEF TypeOK
    <3>2. socket'[owner'[c]] = c
      BY <2>1, <2>2 DEF TypeOK
    <3> QED BY <2>1, <3>1, <3>2
  <2>9. \A j \in Client :
          socket'[j] # None => socket'[j] \in Accepted' /\ owner'[socket'[j]] = j
    <3>1. socket'[i] = c /\ \A j \in Client \ {i} : socket'[j] = socket[j]
      BY <2>1 DEF TypeOK
    <3> QED BY <2>2, <2>4, <3>1 DEF LinkInv
  <2>10. tasks' \in Seq(Tasks(Len(owner')))
    BY <2>2, <2>5
  <2> QED BY <2>1, <2>4, <2>6, <2>7, <2>8, <2>9, <2>10 DEF LinkInv
<1>8. ASSUME NEW c \in Conn, ReceiveHello(c) PROVE Rest' /\ LinkInv'
  <2>1. /\ c \in receiving /\ upstream[c] # <<>>
        /\ upstream' = [upstream EXCEPT ![c] = Tail(@)]
        /\ tasks' = Append(tasks, Task("hello", c, Head(upstream[c])))
        /\ UNCHANGED <<server, handlers, net, ends, spoilt, stops>>
    BY <1>8 DEF ReceiveHello
  <2>2. /\ c \in Accepted /\ Head(upstream[c]) \in Conn
        /\ Tail(upstream[c]) \in Seq(Conn)
    BY <1>0, <2>1, TailIs DEF LinkInv
  <2>3. tasks' \in Seq(Tasks(Len(owner)))
    BY <1>0, <2>1, <2>2, TaskIn, AppendIs DEF LinkInv, Accepted
  <2>4. upstream' \in [Conn -> Seq(Conn)]
    BY <2>1, <2>2 DEF TypeOK
  <2>5. Rest'
    BY <1>0, <2>1, <2>4 DEF Rest, handlers, net, ends
  <2>6. \A d \in Conn \ Accepted : upstream'[d] = <<>>
    BY <2>1, <2>2 DEF LinkInv, TypeOK
  <2> QED BY <2>1, <2>3, <2>5, <2>6
          DEF LinkInv, handlers, net, ends, Boxes, Accepted
<1>9. ASSUME NEW c \in Conn, ReceiveEnd(c) PROVE Rest' /\ LinkInv'
  <2>1. /\ c \in broken /\ receiving' = receiving \ {c}
        /\ tasks' = Append(tasks, End(c))
        /\ UNCHANGED <<server, clients, named, open, net, upstream, ends, spoilt,
                       stops>>
    BY <1>9 DEF ReceiveEnd, End
  <2>2. c \in Accepted
    BY <2>1 DEF LinkInv
  <2>3. tasks' \in Seq(Tasks(Len(owner)))
    BY <1>0, <2>1, <2>2, TaskIn, AppendIs DEF LinkInv, Accepted
  <2>4. Rest'
    BY <1>0, <2>1 DEF Rest, net, ends
  <2> QED BY <2>1, <2>3, <2>4 DEF LinkInv, net, ends, Boxes, Accepted
<1>10. ASSUME NEW c \in Conn, Break(c) PROVE Rest' /\ LinkInv'
  <2>1. /\ c \in Accepted /\ broken' = broken \cup {c}
        /\ UNCHANGED <<server, handlers, tasks, owner, upstream, ends, spoilt, stops>>
    BY <1>10 DEF Break, Accepted
  <2>2. Rest'
    BY <1>0, <2>1 DEF Rest, handlers, ends
  <2> QED BY <2>1, <2>2 DEF LinkInv, handlers, ends, Boxes, Accepted
<1>11. ASSUME NEW i \in Client, ReadEnd(i) PROVE Rest' /\ LinkInv'
  <2> DEFINE c == socket[i]
  <2>1. /\ c # None /\ (c \in broken \/ c \notin open)
        /\ socket' = [socket EXCEPT ![i] = None]
        /\ UNCHANGED <<server, handlers, tasks, net, upstream, view, spoilt, stops>>
    BY <1>11 DEF ReadEnd
  <2>2. PICK k \in 0..Len(inbox[i]) :
          inbox' = [inbox EXCEPT ![i] =
                      Append(SubSeq(@, 1, k), Packet(c, "disconnect", {}))]
    BY <1>11 DEF ReadEnd
  <2>3. Packet(c, "disconnect", {}) \in Packets(Len(owner))
    BY <1>0, <2>1 DEF LinkInv, Packets, PacketSet, Packet, Accepted
  <2>4. SubSeq(inbox[i], 1, k) \in Seq(Packets(Len(owner)))
    BY <1>0, HasPrefix
  <2>5. Append(SubSeq(inbox[i], 1, k), Packet(c, "disconnect", {}))
          \in Seq(Packets(Len(owner)))
    BY <2>3, <2>4, AppendIs
  <2>6. inbox' \in Boxes
    BY <2>2, <2>5 DEF LinkInv, Boxes
  <2>7. Rest'
    BY <1>0, <2>1 DEF Rest, handlers, net
  <2>8. \A j \in Client : socket'[j] = IF j = i THEN None ELSE socket[j]
    BY <2>1 DEF TypeOK
  <2>9. \A d \in open \ broken : socket'[owner[d]] = d
    BY <1>0, <2>1, <2>8 DEF LinkInv
  <2> QED BY <2>1, <2>6, <2>7, <2>8, <2>9 DEF LinkInv, handlers, net, Boxes, Accepted
<1>b. ASSUME NEW i \in Client, inbox[i] # <<>>, inbox' = [inbox EXCEPT ![i] = Tail(@)]
      PROVE  inbox' \in Boxes /\ Head(inbox[i]) \in Packets(Len(owner))
  <2>1. /\ Tail(inbox[i]) \in Seq(Packets(Len(owner)))
        /\ Head(inbox[i]) \in Packets(Len(owner))
    BY <1>0, <1>b, TailIs
  <2> QED BY <1>b, <2>1 DEF LinkInv, Boxes
<1>12. ASSUME NEW i \in Client, HandleChallenge(i) PROVE Rest' /\ LinkInv'
  <2>1. /\ inbox[i] # <<>> /\ inbox' = [inbox EXCEPT ![i] = Tail(@)]
        /\ upstream' = [c \in Conn |->
             IF c = socket[i] /\ c \notin broken
             THEN Append(upstream[c], Head(inbox[i]).conn)
             ELSE upstream[c]]
        /\ UNCHANGED <<server, handlers, tasks, net, socket, view, spoilt, stops>>
    BY <1>12 DEF HandleChallenge
  <2>2. inbox' \in Boxes /\ Head(inbox[i]).conn \in Conn
    BY <1>b, <2>1 DEF Packets, PacketSet
  <2>3. \A c \in Conn : Append(upstream[c], Head(inbox[i]).conn) \in Seq(Conn)
    BY <1>0, <2>2, AppendIs
  <2>4. upstream' \in [Conn -> Seq(Conn)]
    BY <1>0, <2>1, <2>3
  <2>5. \A c \in Conn \ Accepted : upstream'[c] = <<>>
    <3>1. socket[i] # None => socket[i] \in Accepted
      BY DEF LinkInv
    <3>2. None \notin Conn
      BY DEF Conn, None
    <3> QED BY <2>1, <3>1, <3>2 DEF LinkInv
  <2>6. Rest'
    BY <1>0, <2>1, <2>4 DEF Rest, handlers, net
  <2> QED BY <2>1, <2>2, <2>5, <2>6 DEF LinkInv, handlers, net, Boxes, Accepted
<1>13. ASSUME NEW i \in Client, HandlePacket(i) PROVE Rest' /\ LinkInv'
  <2> DEFINE p == Head(inbox[i])
  <2>1. /\ inbox[i] # <<>> /\ inbox' = [inbox EXCEPT ![i] = Tail(@)]
        /\ p.type # "challenge"
        /\ view' = [view EXCEPT ![i] =
             CASE p.type = "welcome" -> p.ids
               [] p.type = "join" -> @ \cup p.ids
               [] p.type = "leave" -> @ \ p.ids
               [] p.type = "disconnect" -> {}]
        /\ UNCHANGED <<server, handlers, tasks, net, upstream, socket, spoilt, stops>>
    BY <1>13 DEF HandlePacket
  <2>2. /\ inbox' \in Boxes /\ p.ids \in SUBSET Client
        /\ p.type \in {"challenge", "welcome", "join", "leave", "disconnect"}
    BY <1>b, <2>1 DEF Packets, PacketSet
  <2>3. view' \in [Client -> SUBSET Client]
    <3>1. view[i] \in SUBSET Client
      BY DEF TypeOK
    <3> HIDE DEF p
    <3>2. CASE p.type = "welcome"
      BY <2>1, <2>2, <3>1, <3>2 DEF TypeOK
    <3>3. CASE p.type = "join"
      BY <2>1, <2>2, <3>1, <3>3 DEF TypeOK
    <3>4. CASE p.type = "leave"
      BY <2>1, <2>2, <3>1, <3>4 DEF TypeOK
    <3>5. CASE p.type = "disconnect"
      BY <2>1, <2>2, <3>1, <3>5 DEF TypeOK
    <3> QED BY <2>1, <2>2, <3>2, <3>3, <3>4, <3>5
  <2>4. Rest'
    BY <1>0, <2>1, <2>3 DEF Rest, handlers, net
  <2> QED BY <2>1, <2>2, <2>4 DEF LinkInv, handlers, net, Boxes, Accepted
<1>14. CASE UNCHANGED vars
  BY <1>0, <1>14 DEF Rest, LinkInv, vars, handlers, net, ends, Boxes, Accepted
<1> QED BY <1>1, <1>2, <1>3, <1>4, <1>5, <1>6, <1>7, <1>8, <1>9, <1>10, <1>11,
           <1>12, <1>13, <1>14 DEF Next, Serve, Receive, Listen
-----------------------------------------------------------------------------
\* The way of the challenge

\* The queue without its first task
LEMMA Popped ==
  ASSUME LinkInv, TokenInv, tasks # <<>>, NEW d \in Accepted
  PROVE  /\ Has(Tail(tasks), Arrival(d)) <=> Arrives(d) /\ Head(tasks) # Arrival(d)
         /\ Has(Tail(tasks), Hello(d)) <=> Knocks(d) /\ Head(tasks) # Hello(d)
         /\ Has(Tail(tasks), End(d)) => Ends(d)
         /\ Head(tasks) = Arrival(d) => Arrives(d)
         /\ Head(tasks) = Hello(d) => Knocks(d)
         /\ Head(tasks) = End(d) => Ends(d) /\ ~Has(Tail(tasks), Hello(d))
         /\ Once(Tail(tasks), Arrival(d)) /\ Once(Tail(tasks), Hello(d))
         /\ NotAfter(Tail(tasks), End(d), Hello(d))
<1>1. /\ Once(tasks, Arrival(d)) /\ Once(tasks, Hello(d))
      /\ NotAfter(tasks, End(d), Hello(d))
  BY DEF TokenInv, Alone
<1>2. tasks \in Seq(Tasks(Len(owner)))
  BY DEF LinkInv
<1> QED BY <1>1, <1>2, TasksLess DEF Arrives, Knocks, Ends

\* A connection is closed when it is identified, or expects no hello.
LEMMA StopTokens ==
  ASSUME TypeOK, LinkInv, RegistryIsTrue, TokenInv, UNCHANGED <<net, upstream>>,
         NEW c \in Accepted, NEW rest \in Seq(Tasks(Len(owner))),
         StopHandler(c, rest),
         \A d \in Accepted :
           /\ Once(rest, Arrival(d)) /\ Once(rest, Hello(d))
           /\ NotAfter(rest, End(d), Hello(d))
           /\ Has(rest, Arrival(d)) <=> Arrives(d)
           /\ Has(rest, Hello(d)) <=> Knocks(d)
           /\ Has(rest, End(d)) => Ends(d),
         \/ c \in named
         \/ /\ c \notin receiving /\ ~Arrives(c) /\ ~Knocks(c) /\ ~Answers(c)
            /\ c \in broken \/ ~Challenged(c)
  PROVE  TokenInv'
<1>0. /\ owner' = owner /\ broken' = broken /\ upstream' = upstream
      /\ Accepted' = Accepted
  BY DEF net, Accepted
<1>1. /\ Informs(inbox, inbox')
      /\ \/ /\ named' = named \/ (named' = named \ {c} /\ c \in broken)
            /\ UNCHANGED <<open, receiving>> /\ tasks' = rest
         \/ /\ Closed(c)
            /\ tasks' = IF c \in receiving THEN Append(rest, End(c)) ELSE rest
  BY StopIs DEF StopCut, StopDone
<1> SUFFICES ASSUME NEW d \in Accepted
             PROVE  Alone(d)' /\ Staged(d)' /\ Awaited(d)' /\ Ended(d)'
  BY <1>0 DEF TokenInv
<1>2. d \in Conn /\ owner[d] \in Client /\ c \in Conn
  BY ElementOfSeq, BoundsAssumption DEF TypeOK, Accepted, Conn
<1>3. Alone(d) /\ Staged(d) /\ Awaited(d) /\ Ended(d) /\ Staged(c)
  BY DEF TokenInv
<1>4. /\ Challenged(d)' <=> Challenged(d)
      /\ Answers(d)' <=> Answers(d)
      /\ Once(inbox'[owner[d]], Challenge(d)) /\ Once(upstream'[d], d)
  BY <1>0, <1>1, <1>2, <1>3 DEF Informs, Challenged, Answers, Alone
<1>5. CASE /\ named' = named \/ (named' = named \ {c} /\ c \in broken)
           /\ UNCHANGED <<open, receiving>> /\ tasks' = rest
  <2>1. /\ Arrives(d)' <=> Arrives(d)
        /\ Knocks(d)' <=> Knocks(d)
        /\ Ends(d)' => Ends(d)
    BY <1>5 DEF Arrives, Knocks, Ends
  <2>2. Alone(d)'
    BY <1>0, <1>4, <1>5 DEF Alone
  <2> QED BY <1>0, <1>3, <1>4, <1>5, <2>1, <2>2 DEF Staged, Awaited, Ended
<1>6. CASE /\ Closed(c)
           /\ tasks' = IF c \in receiving THEN Append(rest, End(c)) ELSE rest
  <2>1. End(c) \in Tasks(Len(owner))
    <3>1. Len(owner) \in Nat /\ Len(owner) <= MaxConns
      BY LenProperties DEF TypeOK
    <3> QED BY <3>1, TaskIn DEF Accepted
  <2>2. /\ Arrives(d)' <=> Arrives(d)
        /\ Knocks(d)' <=> Knocks(d)
        /\ Ends(d)' => Ends(d) \/ d = c
        /\ Once(tasks', Arrival(d)) /\ Once(tasks', Hello(d))
        /\ NotAfter(tasks', End(d), Hello(d))
    <3>1. CASE c \in receiving
      <4>1. tasks' = Append(rest, End(c))
        BY <1>6, <3>1
      <4>2. /\ End(c) # Arrival(d) /\ End(c) # Hello(d) /\ (End(c) = End(d) => d = c)
        BY Distinct
      <4> QED BY <2>1, <4>1, <4>2, TasksMore DEF Arrives, Knocks, Ends
    <3>2. CASE c \notin receiving
      BY <1>6, <3>2 DEF Arrives, Knocks, Ends
    <3> QED BY <3>1, <3>2
  <2>3. Alone(d)'
    BY <1>0, <1>4, <2>2 DEF Alone
  <2>4. /\ named' = named \ {c} /\ open' = open \ {c}
        /\ receiving' = receiving \ {c}
    BY <1>6 DEF Closed
  <2>5. d = c => ~Arrives(d) /\ ~Knocks(d) /\ ~Answers(d) /\ (d \in broken \/ ~Challenged(d))
    BY <1>3 DEF Staged
  <2>6. Staged(d)'
    BY <1>3, <1>4, <2>2, <2>4 DEF Staged
  <2>7. Awaited(d)'
    BY <1>0, <1>3, <1>4, <2>2, <2>4 DEF Awaited
  <2>8. Ended(d)'
    BY <1>0, <1>3, <1>4, <2>2, <2>4, <2>5 DEF Ended
  <2> QED BY <2>3, <2>6, <2>7, <2>8
<1> QED BY <1>1, <1>5, <1>6

LEMMA HelloTokens ==
  ASSUME TypeOK, LinkInv, RegistryIsTrue, TokenInv, NEW c \in Conn, HandleHello(c)
  PROVE  TokenInv'
<1> DEFINE old == clients[owner[c]]
           rest == Tail(tasks)
<1>0. /\ owner' = owner /\ broken' = broken /\ upstream' = upstream
      /\ Accepted' = Accepted
  BY DEF HandleHello, net, Accepted
<1>1. /\ c \in open /\ c \notin named /\ c \in Accepted
      /\ tasks # <<>> /\ Head(tasks) = Hello(c) /\ Knocks(c)
  BY HelloOpen
<1>2. /\ Informs(inbox, inbox')
      /\ old # None => old \in Registered /\ old # c
      /\ \/ /\ \/ named' = named \cup {c}
               \/ named' = (named \ {old}) \cup {c} /\ old \in broken
            /\ tasks' = rest
            /\ UNCHANGED <<open, receiving>>
         \/ /\ named' = (named \ {old}) \cup {c}
            /\ open' = open \ {old} /\ receiving' = receiving \ {old}
            /\ tasks' = IF old \in receiving THEN Append(rest, End(old)) ELSE rest
  <2>1. /\ Informs(inbox, inbox')
        /\ old # None => old \in Registered /\ old # c
        /\ HelloCut(c, old) \/ HelloDone(c, old)
    BY <1>1, HelloIs
  <2> QED BY <2>1 DEF HelloCut, HelloDone
<1> HIDE DEF old
<1> SUFFICES ASSUME NEW d \in Accepted
             PROVE  Alone(d)' /\ Staged(d)' /\ Awaited(d)' /\ Ended(d)'
  BY <1>0 DEF TokenInv
<1>3. d \in Conn /\ owner[d] \in Client
  BY ElementOfSeq, BoundsAssumption DEF TypeOK, Accepted, Conn
<1>4. Alone(d) /\ Staged(d) /\ Awaited(d) /\ Ended(d)
  BY DEF TokenInv
<1>5. /\ Challenged(d)' <=> Challenged(d)
      /\ Answers(d)' <=> Answers(d)
      /\ Once(inbox'[owner[d]], Challenge(d)) /\ Once(upstream'[d], d)
  BY <1>0, <1>2, <1>3, <1>4 DEF Informs, Challenged, Answers, Alone
<1>6. /\ Has(rest, Arrival(d)) <=> Arrives(d)
      /\ Has(rest, Hello(d)) <=> Knocks(d) /\ d # c
      /\ Has(rest, End(d)) => Ends(d)
      /\ Once(rest, Arrival(d)) /\ Once(rest, Hello(d))
      /\ NotAfter(rest, End(d), Hello(d))
  BY <1>1, Popped, Distinct
<1>7. None \notin receiving /\ None \notin open /\ None \notin named /\ d # None
  BY <1>3 DEF TypeOK, Conn, None
<1>8. old \in named \/ old = None
  BY <1>2, RegisteredIs
<1>9. rest \in Seq(Tasks(Len(owner)))
  BY <1>1, TasksLess DEF LinkInv
<1> HIDE DEF rest
<1>10. /\ Arrives(d)' <=> Arrives(d)
       /\ Knocks(d)' <=> Knocks(d) /\ d # c
       /\ Ends(d)' => Ends(d) \/ (d = old /\ d \notin open')
       /\ Once(tasks', Arrival(d)) /\ Once(tasks', Hello(d))
       /\ NotAfter(tasks', End(d), Hello(d))
  <2>1. CASE tasks' = rest
    BY <1>6, <2>1 DEF Arrives, Knocks, Ends
  <2>2. CASE /\ old \in receiving /\ open' = open \ {old}
             /\ tasks' = Append(rest, End(old))
    <3>1. End(old) \in Tasks(Len(owner))
      <4>1. Len(owner) \in Nat /\ Len(owner) <= MaxConns
        BY LenProperties DEF TypeOK
      <4>2. old \in Accepted
        BY <2>2 DEF TypeOK, LinkInv
      <4> QED BY <4>1, <4>2, TaskIn DEF Accepted
    <3>2. End(old) # Arrival(d) /\ End(old) # Hello(d) /\ (End(old) = End(d) => d = old)
      BY Distinct
    <3> QED BY <1>6, <1>9, <2>2, <3>1, <3>2, TasksMore DEF Arrives, Knocks, Ends
  <2> QED BY <1>2, <2>1, <2>2
<1>11. Alone(d)'
  BY <1>0, <1>5, <1>10 DEF Alone
<1>12. d = c \/ d = old => ~Arrives(d) /\ ~Answers(d) /\ ~Challenged(d)
  BY <1>1, <1>4, <1>7, <1>8 DEF Staged
<1>13. d = old => ~Knocks(d)
  BY <1>4, <1>7, <1>8 DEF Staged
<1>14. \/ /\ \/ named' = named \cup {c}
             \/ named' = (named \ {old}) \cup {c} /\ old \in broken
          /\ open' = open /\ receiving' = receiving
       \/ /\ named' = (named \ {old}) \cup {c}
          /\ open' = open \ {old} /\ receiving' = receiving \ {old}
  BY <1>2
<1>15. Staged(d)'
  BY <1>4, <1>5, <1>10, <1>12, <1>14 DEF Staged
<1>16. Awaited(d)'
  BY <1>0, <1>4, <1>5, <1>10, <1>14 DEF Awaited
<1>17. receiving' \subseteq receiving /\ receiving' \subseteq open'
  BY <1>14 DEF TypeOK
<1>18. d \notin open' => d \notin open \/ d = old
  BY <1>14
<1>19. d \in open' => d \in open /\ (Ends(d)' => Ends(d))
  BY <1>10, <1>14
<1>20. Arrives(d)' => d \in (open \ receiving)' /\ ~Ends(d)'
  BY <1>4, <1>10, <1>12, <1>17, <1>18, <1>19 DEF Ended
<1>21. d \in receiving' => ~Ends(d)'
  BY <1>4, <1>17, <1>19 DEF Ended
<1>22. Ends(d)' /\ d \in open' => d \in broken' /\ ~Answers(d)'
  BY <1>0, <1>4, <1>5, <1>19 DEF Ended
<1>23. d \notin open' =>
         ~Answers(d)' /\ ~Knocks(d)' /\ (d \in broken' \/ ~Challenged(d)')
  BY <1>0, <1>4, <1>5, <1>10, <1>12, <1>13, <1>18 DEF Ended
<1>24. Ended(d)'
  BY <1>20, <1>21, <1>22, <1>23 DEF Ended
<1> QED BY <1>11, <1>15, <1>16, <1>24

\* What the step of a handler, or of a client, leaves where it was
LEMMA Parts ==
  ASSUME TypeOK, LinkInv, TokenInv, NEW d \in Accepted
  PROVE  /\ d \in Conn /\ owner[d] \in Client /\ d # None
         /\ Len(owner) \in Nat /\ Len(owner) <= MaxConns
         /\ tasks \in Seq(Tasks(Len(owner)))
         /\ inbox[owner[d]] \in Seq(Packets(Len(owner)))
         /\ upstream[d] \in Seq(Conn)
         /\ receiving \subseteq open
         /\ Arrival(d) \in Tasks(Len(owner)) /\ End(d) \in Tasks(Len(owner))
         /\ Alone(d) /\ Staged(d) /\ Awaited(d) /\ Ended(d)
<1>1. Len(owner) \in Nat /\ Len(owner) <= MaxConns
  BY LenProperties DEF TypeOK
<1>2. d \in Conn /\ owner[d] \in Client /\ d # None
  BY <1>1, ElementOfSeq, BoundsAssumption DEF TypeOK, Accepted, Conn, None
<1>3. Arrival(d) \in Tasks(Len(owner)) /\ End(d) \in Tasks(Len(owner))
  BY <1>1, TaskIn DEF Accepted
<1> QED BY <1>1, <1>2, <1>3 DEF TypeOK, LinkInv, Boxes, TokenInv

LEMMA SameTokens ==
  ASSUME TokenInv, UNCHANGED <<named, open, receiving, tasks, net, upstream, inbox>>
  PROVE  TokenInv'
BY DEF TokenInv, Alone, Staged, Awaited, Ended, Arrives, Challenged, Answers,
       Knocks, Ends, Accepted, net

\* The challenge of a connection is on its way once its thread has started.
LEMMA SocketTokens ==
  ASSUME TypeOK, LinkInv, TokenInv, NEW c \in Conn, HandleSocket(c)
  PROVE  TokenInv'
<1>0. /\ owner' = owner /\ broken' = broken /\ upstream' = upstream
      /\ Accepted' = Accepted /\ named' = named /\ open' = open
      /\ receiving' = receiving \cup {c} /\ tasks' = Tail(tasks)
      /\ inbox' = Sent({c}, "challenge", {}, inbox)
  BY DEF HandleSocket, net, Accepted
<1>1. tasks # <<>> /\ c \in Accepted /\ Head(tasks) = Arrival(c) /\ Arrives(c)
  <2>1. tasks # <<>> /\ c \in Accepted /\ Head(tasks) = Arrival(c)
    BY NextTaskIs DEF HandleSocket
  <2> QED BY <2>1, Popped
<1>2. /\ c \in open \ receiving /\ c \notin named
      /\ ~Challenged(c) /\ ~Answers(c) /\ ~Knocks(c) /\ ~Ends(c)
  BY <1>1 DEF TokenInv, Staged, Ended
<1> SUFFICES ASSUME NEW d \in Accepted
             PROVE  Alone(d)' /\ Staged(d)' /\ Awaited(d)' /\ Ended(d)'
  BY <1>0 DEF TokenInv
<1>3. /\ d \in Conn /\ owner[d] \in Client
      /\ inbox[owner[d]] \in Seq(Packets(Len(owner)))
      /\ Alone(d) /\ Staged(d) /\ Awaited(d) /\ Ended(d)
  BY Parts
<1>4. /\ Challenged(d)' <=> Challenged(d) \/ (d = c /\ c \notin broken)
      /\ Once(inbox'[owner[d]], Challenge(d))
  <2>1. {c} \in SUBSET open /\ inbox \in Boxes
    BY <1>2 DEF LinkInv
  <2>2. IF owner[c] = owner[d] /\ c \notin broken
        THEN /\ socket[owner[d]] = c
             /\ Packet(c, "challenge", {}) \in Packets(Len(owner))
             /\ inbox'[owner[d]] = Append(inbox[owner[d]], Challenge(c))
        ELSE inbox'[owner[d]] = inbox[owner[d]]
    <3>1. "challenge" \in {"challenge", "welcome", "join", "leave"}
          /\ {} \in SUBSET Client
      OBVIOUS
    <3>2. \A i \in Client :
            IF \E e \in {c} : owner[e] = i /\ e \notin broken
            THEN /\ socket[i] \in {c} \ broken /\ owner[socket[i]] = i
                 /\ Packet(socket[i], "challenge", {}) \in Packets(Len(owner))
                 /\ inbox'[i] = Append(inbox[i], Packet(socket[i], "challenge", {}))
            ELSE inbox'[i] = inbox[i]
      <4> DEFINE new == Sent({c}, "challenge", {}, inbox)
      <4>1. \A i \in Client :
              IF \E e \in {c} : owner[e] = i /\ e \notin broken
              THEN /\ socket[i] \in {c} \ broken /\ owner[socket[i]] = i
                   /\ Packet(socket[i], "challenge", {}) \in Packets(Len(owner))
                   /\ new[i] = Append(inbox[i], Packet(socket[i], "challenge", {}))
              ELSE new[i] = inbox[i]
        BY <2>1, <3>1, SentIs
      <4> HIDE DEF new
      <4>2. inbox' = new
        BY <1>0 DEF new
      <4> QED BY <4>1, <4>2
    <3>3. CASE owner[c] = owner[d] /\ c \notin broken
      BY <1>3, <3>2, <3>3 DEF Challenge
    <3>4. CASE ~(owner[c] = owner[d] /\ c \notin broken)
      BY <1>3, <3>2, <3>4
    <3> QED BY <3>3, <3>4
  <2>3. Challenge(c) = Challenge(d) <=> c = d
    BY Distinct
  <2>4. CASE owner[c] = owner[d] /\ c \notin broken
    <3>1. /\ Challenge(c) \in Packets(Len(owner))
          /\ inbox'[owner[d]] = Append(inbox[owner[d]], Challenge(c))
      BY <2>2, <2>4 DEF Challenge
    <3>2. /\ Has(inbox'[owner[d]], Challenge(d)) <=> Challenged(d) \/ c = d
          /\ Once(inbox'[owner[d]], Challenge(d))
      BY <1>2, <1>3, <2>3, <3>1, HasAppend DEF Challenged, Alone
    <3> QED BY <1>0, <2>4, <3>2 DEF Challenged
  <2>5. CASE ~(owner[c] = owner[d] /\ c \notin broken)
    BY <1>0, <1>3, <2>2, <2>5 DEF Challenged, Alone
  <2> QED BY <2>4, <2>5
<1>5. /\ Arrives(d)' <=> Arrives(d) /\ d # c
      /\ Knocks(d)' <=> Knocks(d)
      /\ Ends(d)' => Ends(d)
      /\ Answers(d)' <=> Answers(d)
      /\ Once(tasks', Arrival(d)) /\ Once(tasks', Hello(d))
      /\ NotAfter(tasks', End(d), Hello(d))
  <2>1. /\ Has(tasks', Arrival(d)) <=> Arrives(d) /\ Arrival(c) # Arrival(d)
        /\ Has(tasks', Hello(d)) <=> Knocks(d) /\ Arrival(c) # Hello(d)
        /\ Has(tasks', End(d)) => Ends(d)
        /\ Once(tasks', Arrival(d)) /\ Once(tasks', Hello(d))
        /\ NotAfter(tasks', End(d), Hello(d))
    BY <1>0, <1>1, Popped
  <2>2. Arrival(c) # Hello(d) /\ (Arrival(c) = Arrival(d) <=> c = d)
    BY Distinct
  <2> QED BY <1>0, <2>1, <2>2 DEF Arrives, Knocks, Ends, Answers
<1>6. Alone(d)'
  BY <1>0, <1>3, <1>4, <1>5 DEF Alone
<1>7. Staged(d)'
  BY <1>0, <1>2, <1>3, <1>4, <1>5 DEF Staged
<1>8. Awaited(d)'
  BY <1>0, <1>2, <1>3, <1>4, <1>5 DEF Awaited
<1>9. Ended(d)'
  BY <1>0, <1>2, <1>3, <1>4, <1>5 DEF Ended
<1> QED BY <1>6, <1>7, <1>8, <1>9

LEMMA RefuseTokens ==
  ASSUME LinkInv, TokenInv, NEW c \in Conn, RefuseHello(c)
  PROVE  TokenInv'
<1>0. /\ UNCHANGED <<owner, broken, upstream, named, open, receiving, inbox>>
      /\ Accepted' = Accepted /\ tasks' = Tail(tasks)
  BY DEF RefuseHello, net, handlers, ends, Accepted
<1>1. /\ tasks # <<>>
      /\ \A d : /\ Head(tasks) # Arrival(d) /\ Head(tasks) # End(d)
                /\ Head(tasks) # Hello(d)
  BY NextTaskIs DEF RefuseHello
<1> SUFFICES ASSUME NEW d \in Accepted
             PROVE  Alone(d)' /\ Staged(d)' /\ Awaited(d)' /\ Ended(d)'
  BY <1>0 DEF TokenInv
<1>2. Alone(d) /\ Staged(d) /\ Awaited(d) /\ Ended(d)
  BY DEF TokenInv
<1>3. /\ Arrives(d)' <=> Arrives(d)
      /\ Knocks(d)' <=> Knocks(d)
      /\ Ends(d)' => Ends(d)
      /\ Answers(d)' <=> Answers(d)
      /\ Challenged(d)' <=> Challenged(d)
      /\ Alone(d)'
  <2>1. /\ Has(tasks', Arrival(d)) <=> Arrives(d)
        /\ Has(tasks', Hello(d)) <=> Knocks(d)
        /\ Has(tasks', End(d)) => Ends(d)
        /\ Once(tasks', Arrival(d)) /\ Once(tasks', Hello(d))
        /\ NotAfter(tasks', End(d), Hello(d))
    BY <1>0, <1>1, Popped
  <2> QED BY <1>0, <1>2, <2>1 DEF Arrives, Knocks, Ends, Answers, Challenged, Alone
<1> QED BY <1>0, <1>2, <1>3 DEF Staged, Awaited, Ended

\* The receiving thread has ended when its connection is to be closed.
LEMMA EndTokens ==
  ASSUME TypeOK, LinkInv, RegistryIsTrue, TokenInv, NEW c \in Conn, HandleEnd(c)
  PROVE  TokenInv'
<1> DEFINE rest == Tail(tasks)
<1>1. /\ StopHandler(c, rest) /\ UNCHANGED <<net, upstream>>
      /\ tasks # <<>> /\ c \in Accepted /\ Head(tasks) = End(c)
  BY NextTaskIs DEF HandleEnd
<1>2. rest \in Seq(Tasks(Len(owner)))
  BY <1>1, TasksLess DEF LinkInv
<1>3. \A d \in Accepted :
        /\ Once(rest, Arrival(d)) /\ Once(rest, Hello(d))
        /\ NotAfter(rest, End(d), Hello(d))
        /\ Has(rest, Arrival(d)) <=> Arrives(d)
        /\ Has(rest, Hello(d)) <=> Knocks(d)
        /\ Has(rest, End(d)) => Ends(d)
  BY <1>1, Popped, Distinct
<1>4. Ends(c) /\ ~Knocks(c)
  BY <1>1, <1>3, Popped
<1> HIDE DEF rest
<1>5. /\ c \notin receiving /\ ~Arrives(c) /\ ~Answers(c)
      /\ c \in broken \/ ~Challenged(c)
  BY <1>1, <1>4 DEF TokenInv, Ended
<1> QED BY <1>1, <1>2, <1>3, <1>4, <1>5, StopTokens

\* stop() of the server closes connections that are identified.
LEMMA StopNextTokens ==
  ASSUME TypeOK, LinkInv, RegistryIsTrue, TokenInv, StopNext
  PROVE  TokenInv'
<1>1. UNCHANGED <<net, upstream>>
  BY DEF StopNext
<1>2. CASE UNCHANGED <<handlers, tasks, inbox>>
  BY <1>1, <1>2, SameTokens DEF handlers
<1>3. ASSUME NEW c \in Registered, StopHandler(c, tasks) PROVE TokenInv'
  <2>1. c \in named /\ c \in Accepted /\ tasks \in Seq(Tasks(Len(owner)))
    BY RegisteredIs DEF LinkInv
  <2>2. \A d \in Accepted :
          /\ Once(tasks, Arrival(d)) /\ Once(tasks, Hello(d))
          /\ NotAfter(tasks, End(d), Hello(d))
          /\ Has(tasks, Arrival(d)) <=> Arrives(d)
          /\ Has(tasks, Hello(d)) <=> Knocks(d)
          /\ Has(tasks, End(d)) => Ends(d)
    BY DEF TokenInv, Alone, Arrives, Knocks, Ends
  <2> QED BY <1>1, <1>3, <2>1, <2>2, StopTokens
<1> QED BY <1>2, <1>3 DEF StopNext

\* A new connection is accepted when its task has been queued.
LEMMA ConnectTokens ==
  ASSUME TypeOK, LinkInv, TokenInv, NEW i \in Client, Connect(i),
         NEW c, c = Len(owner) + 1
  PROVE  TokenInv'
<1> DEFINE n == Len(owner)
<1>1. /\ c \in Conn
      /\ owner' = Append(owner, i)
      /\ open' = open \cup {c}
      /\ tasks' = Append(tasks, Arrival(c))
      /\ UNCHANGED <<named, receiving, broken, upstream, inbox>>
  BY DEF Connect, Arrival
<1>2. /\ n \in Nat /\ Len(owner') = c /\ owner'[c] = i
      /\ \A d \in Accepted : owner'[d] = owner[d]
  BY <1>1, AppendIs DEF TypeOK, Accepted
<1>3. /\ Accepted' = Accepted \cup {c} /\ c \notin Accepted
      /\ c \in Nat /\ c <= MaxConns /\ c \in 1..c /\ 1..n \subseteq 1..c
  BY <1>1, <1>2 DEF Accepted, Conn
<1>4. /\ \A k \in 1..Len(tasks) : tasks[k] \in Tasks(n)
      /\ \A k \in 1..Len(inbox[i]) : inbox[i][k] \in Packets(n)
      /\ upstream[c] = <<>> /\ c \notin named /\ c \notin receiving
      /\ c \notin broken /\ c \notin open
  <2>1. inbox[i] \in Seq(Packets(n))
    BY DEF LinkInv, Boxes
  <2> QED BY <1>1, <1>3, <2>1, ElementOfSeq DEF LinkInv, TypeOK
<1>5. tasks \in Seq(Tasks(c)) /\ Arrival(c) \in Tasks(c)
  <2>1. Tasks(n) \subseteq Tasks(c)
    BY <1>3 DEF Tasks
  <2> QED BY <1>3, <2>1, Wider, TaskIn DEF LinkInv
<1> HIDE DEF n
<1>6. ASSUME NEW d \in Accepted
      PROVE  Alone(d)' /\ Staged(d)' /\ Awaited(d)' /\ Ended(d)'
  <2>1. /\ Alone(d) /\ Staged(d) /\ Awaited(d) /\ Ended(d)
        /\ d # c /\ owner'[d] = owner[d]
    BY <1>2, <1>3 DEF TokenInv
  <2>2. Arrival(c) # Arrival(d) /\ Arrival(c) # Hello(d) /\ Arrival(c) # End(d)
    BY <2>1, Distinct
  <2>3. /\ Arrives(d)' <=> Arrives(d)
        /\ Knocks(d)' <=> Knocks(d)
        /\ Ends(d)' <=> Ends(d)
        /\ Once(tasks', Arrival(d)) /\ Once(tasks', Hello(d))
        /\ NotAfter(tasks', End(d), Hello(d))
    BY <1>1, <1>5, <2>1, <2>2, TasksMore DEF Arrives, Knocks, Ends, Alone
  <2>4. /\ Challenged(d)' <=> Challenged(d)
        /\ Answers(d)' <=> Answers(d)
    BY <1>1, <2>1 DEF Challenged, Answers
  <2>5. Alone(d)'
    BY <1>1, <2>1, <2>3 DEF Alone
  <2> QED BY <1>1, <2>1, <2>3, <2>4, <2>5 DEF Staged, Awaited, Ended
<1>7. Alone(c)' /\ Staged(c)' /\ Awaited(c)' /\ Ended(c)'
  <2>1. Arrival(c).conn = c /\ Hello(c).conn = c /\ End(c).conn = c /\ Challenge(c).conn = c
    BY DEF Arrival, Hello, End, Challenge, Task, Packet
  <2>2. /\ \A t \in Tasks(n) : t.conn # c
        /\ \A p \in Packets(n) : p.conn # c
    BY <1>3 DEF Tasks, Packets, Accepted, n
  <2>3. /\ ~Has(tasks, Arrival(c)) /\ ~Has(tasks, Hello(c)) /\ ~Has(tasks, End(c))
        /\ ~Has(inbox[i], Challenge(c))
    BY <1>4, <2>1, <2>2 DEF Has
  <2>4. ~Has(upstream[c], c)
    BY <1>4, EmptySeq DEF Has
  <2>5. Arrival(c) # Hello(c) /\ Arrival(c) # End(c)
    BY Distinct
  <2>6. Arrives(c)' /\ ~Knocks(c)' /\ ~Ends(c)'
    BY <1>1, <1>5, <2>3, <2>5, TasksMore DEF Arrives, Knocks, Ends
  <2>7. ~Challenged(c)' /\ ~Answers(c)'
    BY <1>1, <1>2, <2>3, <2>4 DEF Challenged, Answers
  <2>8. /\ Once(tasks, Arrival(c)) /\ Once(tasks, Hello(c)) /\ Once(inbox[i], Challenge(c))
        /\ Once(upstream[c], c) /\ NotAfter(tasks, End(c), Hello(c))
    BY <2>3, <2>4 DEF Once, NotAfter, Has
  <2>9. /\ Once(tasks', Arrival(c)) /\ Once(tasks', Hello(c))
        /\ NotAfter(tasks', End(c), Hello(c))
    BY <1>1, <1>5, <2>3, <2>5, <2>8, TasksMore
  <2>10. Alone(c)'
    BY <1>1, <1>2, <2>8, <2>9 DEF Alone
  <2>11. c \in open' /\ c \notin receiving' /\ c \notin named'
    BY <1>1, <1>4
  <2> QED BY <2>6, <2>7, <2>10, <2>11 DEF Staged, Awaited, Ended
<1> QED BY <1>3, <1>6, <1>7 DEF TokenInv

\* The hello comes to the queue from the thread that receives.
LEMMA ReceiveTokens ==
  ASSUME TypeOK, LinkInv, TokenInv, NEW c \in Conn, ReceiveHello(c)
  PROVE  TokenInv'
<1> DEFINE e == Head(upstream[c])
           x == Task("hello", c, e)
<1>1. /\ c \in receiving /\ upstream[c] # <<>>
      /\ upstream' = [upstream EXCEPT ![c] = Tail(@)]
      /\ tasks' = Append(tasks, x)
      /\ UNCHANGED <<owner, broken, named, open, receiving, inbox>>
      /\ Accepted' = Accepted
  BY DEF ReceiveHello, handlers, net, ends, Accepted
<1>2. c \in Accepted /\ upstream[c] \in Seq(Conn) /\ e \in Conn
  <2>1. c \in Accepted /\ upstream[c] \in Seq(Conn)
    BY <1>1 DEF TypeOK, LinkInv
  <2> QED BY <1>1, <2>1, TailIs
<1>3. x \in Tasks(Len(owner)) /\ tasks \in Seq(Tasks(Len(owner))) /\ ~Ends(c)
  <2>1. Len(owner) \in Nat /\ Len(owner) <= MaxConns
    BY LenProperties DEF TypeOK
  <2> QED BY <1>1, <1>2, <2>1, TaskIn DEF LinkInv, TokenInv, Ended, Accepted
<1>4. ASSUME NEW d
      PROVE  x # Arrival(d) /\ x # End(d) /\ (x = Hello(d) <=> d = c /\ e = c)
  <2>1. x.op = "hello" /\ x.conn = c /\ x.challenge = e
    BY DEF Task
  <2>2. /\ Arrival(d).op = "socket" /\ End(d).op = "stop"
        /\ Hello(d).conn = d /\ Hello(d).challenge = d
    BY DEF Arrival, End, Hello, Task
  <2> QED BY <2>1, <2>2 DEF Hello
<1>5. \A d \in Conn : upstream'[d] = IF d = c THEN Tail(upstream[c]) ELSE upstream[d]
  BY <1>1 DEF TypeOK
<1> HIDE DEF x, e
<1> SUFFICES ASSUME NEW d \in Accepted
             PROVE  Alone(d)' /\ Staged(d)' /\ Awaited(d)' /\ Ended(d)'
  BY <1>1 DEF TokenInv
<1>6. d \in Conn /\ Alone(d) /\ Staged(d) /\ Awaited(d) /\ Ended(d)
  BY Parts
<1>7. /\ Answers(d) <=> Answers(d)' \/ x = Hello(d)
      /\ x = Hello(d) => ~Answers(d)'
      /\ Once(upstream'[d], d)
  <2>1. CASE d = c
    <3>1. /\ Has(upstream[c], c) <=> e = c \/ Has(Tail(upstream[c]), c)
          /\ Once(upstream[c], c) =>
               Once(Tail(upstream[c]), c) /\ (e = c => ~Has(Tail(upstream[c]), c))
      BY <1>1, <1>2, HasTail DEF e
    <3>2. Once(upstream[c], c)
      BY <1>6, <2>1 DEF Alone
    <3> QED BY <1>4, <1>5, <1>6, <2>1, <3>1, <3>2 DEF Answers
  <2>2. CASE d # c
    BY <1>4, <1>5, <1>6, <2>2 DEF Answers, Alone
  <2> QED BY <2>1, <2>2
<1>8. x = Hello(d) => ~Knocks(d) /\ ~Ends(d)
  BY <1>3, <1>4, <1>6, <1>7 DEF Staged
<1>9. /\ Arrives(d)' <=> Arrives(d)
      /\ Knocks(d)' <=> Knocks(d) \/ x = Hello(d)
      /\ Ends(d)' <=> Ends(d)
      /\ Once(tasks', Arrival(d)) /\ Once(tasks', Hello(d))
      /\ NotAfter(tasks', End(d), Hello(d))
  BY <1>1, <1>3, <1>4, <1>6, <1>8, TasksMore DEF Arrives, Knocks, Ends, Alone
<1>10. Challenged(d)' <=> Challenged(d)
  BY <1>1 DEF Challenged
<1>11. Alone(d)'
  BY <1>1, <1>6, <1>7, <1>9 DEF Alone
<1>12. Staged(d)'
  BY <1>1, <1>6, <1>7, <1>9, <1>10 DEF Staged
<1>13. Awaited(d)'
  BY <1>1, <1>6, <1>7, <1>9, <1>10 DEF Awaited
<1>14. Ended(d)'
  BY <1>1, <1>6, <1>7, <1>9, <1>10 DEF Ended
<1> QED BY <1>11, <1>12, <1>13, <1>14

\* The thread ends when nothing is left to be read.
LEMMA ReceiveEndTokens ==
  ASSUME TypeOK, LinkInv, TokenInv, NEW c \in Conn, ReceiveEnd(c)
  PROVE  TokenInv'
<1>1. /\ c \in receiving /\ c \in broken /\ upstream[c] = <<>>
      /\ receiving' = receiving \ {c}
      /\ tasks' = Append(tasks, End(c))
      /\ UNCHANGED <<owner, broken, named, open, upstream, inbox>>
      /\ Accepted' = Accepted
  BY DEF ReceiveEnd, net, ends, Accepted, End
<1>2. c \in Accepted /\ c \in open /\ ~Arrives(c) /\ ~Answers(c)
  <2>1. c \in Accepted /\ c \in open
    BY <1>1 DEF TypeOK, LinkInv
  <2>2. ~Answers(c)
    BY <1>1, EmptySeq DEF Answers, Has
  <2> QED BY <1>1, <2>1, <2>2 DEF TokenInv, Ended
<1> SUFFICES ASSUME NEW d \in Accepted
             PROVE  Alone(d)' /\ Staged(d)' /\ Awaited(d)' /\ Ended(d)'
  BY <1>1 DEF TokenInv
<1>3. d \in Conn /\ Alone(d) /\ Staged(d) /\ Awaited(d) /\ Ended(d)
  BY Parts
<1>4. End(c) # Arrival(d) /\ End(c) # Hello(d) /\ (End(c) = End(d) <=> c = d)
  BY Distinct
<1>5. End(c) \in Tasks(Len(owner)) /\ tasks \in Seq(Tasks(Len(owner)))
  BY <1>2, Parts
<1>6. /\ Arrives(d)' <=> Arrives(d)
      /\ Knocks(d)' <=> Knocks(d)
      /\ Ends(d)' <=> Ends(d) \/ d = c
      /\ Once(tasks', Arrival(d)) /\ Once(tasks', Hello(d))
      /\ NotAfter(tasks', End(d), Hello(d))
  BY <1>1, <1>3, <1>4, <1>5, TasksMore DEF Arrives, Knocks, Ends, Alone
<1>7. (Challenged(d)' <=> Challenged(d)) /\ (Answers(d)' <=> Answers(d))
  BY <1>1 DEF Challenged, Answers
<1>8. Alone(d)'
  BY <1>1, <1>3, <1>6 DEF Alone
<1>9. Staged(d)' /\ Awaited(d)'
  BY <1>1, <1>3, <1>6, <1>7 DEF Staged, Awaited
<1>10. Ended(d)'
  BY <1>1, <1>2, <1>3, <1>6, <1>7 DEF Ended
<1> QED BY <1>8, <1>9, <1>10

LEMMA BreakTokens ==
  ASSUME TokenInv, NEW c \in Conn, Break(c)
  PROVE  TokenInv'
<1>1. /\ broken' = broken \cup {c} /\ Accepted' = Accepted
      /\ UNCHANGED <<owner, named, open, receiving, tasks, upstream, inbox>>
  BY DEF Break, handlers, ends, Accepted
<1> SUFFICES ASSUME NEW d \in Accepted
             PROVE  Alone(d)' /\ Staged(d)' /\ Awaited(d)' /\ Ended(d)'
  BY <1>1 DEF TokenInv
<1>2. Alone(d) /\ Staged(d) /\ Awaited(d) /\ Ended(d)
  BY DEF TokenInv
<1>3. /\ Arrives(d)' <=> Arrives(d)
      /\ Knocks(d)' <=> Knocks(d)
      /\ Ends(d)' <=> Ends(d)
      /\ Answers(d)' <=> Answers(d)
      /\ Challenged(d)' <=> Challenged(d)
      /\ Alone(d)'
  BY <1>1, <1>2 DEF Arrives, Knocks, Ends, Answers, Challenged, Alone
<1> QED BY <1>1, <1>2, <1>3 DEF Staged, Awaited, Ended

\* What a client has not read of its connection's end may be lost.
LEMMA ReadEndTokens ==
  ASSUME TypeOK, LinkInv, TokenInv, NEW i \in Client, ReadEnd(i)
  PROVE  TokenInv'
<1>1. /\ socket[i] \in broken \/ socket[i] \notin open
      /\ UNCHANGED <<owner, broken, named, open, receiving, tasks, upstream>>
      /\ Accepted' = Accepted
  BY DEF ReadEnd, handlers, net, Accepted
<1>2. PICK k \in 0..Len(inbox[i]) :
        inbox' = [inbox EXCEPT ![i] =
                    Append(SubSeq(@, 1, k), Packet(socket[i], "disconnect", {}))]
  BY DEF ReadEnd
<1> DEFINE p == Packet(socket[i], "disconnect", {})
           q == SubSeq(inbox[i], 1, k)
<1>3. /\ inbox[i] \in Seq(Packets(Len(owner))) /\ inbox'[i] = Append(q, p)
      /\ \A j \in Client \ {i} : inbox'[j] = inbox[j]
  BY <1>2 DEF LinkInv, Boxes
<1>4. p \in Packets(Len(owner))
  <2>1. socket[i] \in Accepted
    BY DEF ReadEnd, LinkInv
  <2>2. socket[i] \in Conn
    BY <2>1, Parts
  <2> QED BY <2>1, <2>2 DEF Packets, PacketSet, Packet, Accepted
<1>5. ASSUME NEW d PROVE p # Challenge(d)
  BY DEF Packet, Challenge
<1> HIDE DEF p
<1> SUFFICES ASSUME NEW d \in Accepted
             PROVE  Alone(d)' /\ Staged(d)' /\ Awaited(d)' /\ Ended(d)'
  BY <1>1 DEF TokenInv
<1>6. /\ owner[d] \in Client
      /\ Alone(d) /\ Staged(d) /\ Awaited(d) /\ Ended(d)
  BY Parts
<1>7. (Challenged(d)' => Challenged(d)) /\ Once(inbox'[owner[d]], Challenge(d))
  <2>1. CASE owner[d] = i
    <3>1. /\ q \in Seq(Packets(Len(owner)))
          /\ Has(q, Challenge(d)) => Has(inbox[i], Challenge(d))
          /\ Once(inbox[i], Challenge(d)) => Once(q, Challenge(d))
      BY <1>3, HasPrefix
    <3> HIDE DEF q
    <3>2. /\ Has(inbox'[i], Challenge(d)) => Has(inbox[i], Challenge(d))
          /\ Once(inbox[i], Challenge(d)) => Once(inbox'[i], Challenge(d))
      BY <1>3, <1>4, <1>5, <3>1, HasAppend
    <3> QED BY <1>1, <1>6, <2>1, <3>2 DEF Challenged, Alone
  <2>2. CASE owner[d] # i
    BY <1>1, <1>3, <1>6, <2>2 DEF Challenged, Alone
  <2> QED BY <2>1, <2>2
<1>8. /\ Arrives(d)' <=> Arrives(d)
      /\ Knocks(d)' <=> Knocks(d)
      /\ Ends(d)' <=> Ends(d)
      /\ Answers(d)' <=> Answers(d)
      /\ Alone(d)'
  BY <1>1, <1>6, <1>7 DEF Arrives, Knocks, Ends, Answers, Alone
<1>9. d \in open \ broken => (Challenged(d)' <=> Challenged(d))
  <2>1. d \in open \ broken => owner[d] # i
    BY <1>1 DEF LinkInv
  <2> QED BY <1>1, <1>3, <1>6, <2>1 DEF Challenged
<1>10. Staged(d)' /\ Awaited(d)'
  BY <1>1, <1>6, <1>7, <1>8, <1>9 DEF Staged, Awaited
<1>11. Ended(d)'
  BY <1>1, <1>6, <1>7, <1>8 DEF Ended
<1> QED BY <1>8, <1>10, <1>11

\* The hello goes to the connection of the moment, or to none.
LEMMA ChallengeTokens ==
  ASSUME TypeOK, LinkInv, TokenInv, NEW i \in Client, HandleChallenge(i)
  PROVE  TokenInv'
<1> DEFINE e == Head(inbox[i]).conn
           s == socket[i]
<1>1. /\ inbox[i] # <<>> /\ Head(inbox[i]).type = "challenge"
      /\ inbox' = [inbox EXCEPT ![i] = Tail(@)]
      /\ upstream' = [c \in Conn |->
           IF c = s /\ c \notin broken THEN Append(upstream[c], e) ELSE upstream[c]]
      /\ UNCHANGED <<owner, broken, named, open, receiving, tasks>>
      /\ Accepted' = Accepted
  BY DEF HandleChallenge, handlers, net, Accepted
<1>2. /\ inbox[i] \in Seq(Packets(Len(owner))) /\ inbox'[i] = Tail(inbox[i])
      /\ \A j \in Client \ {i} : inbox'[j] = inbox[j]
  BY <1>1 DEF LinkInv, Boxes
<1>3. e \in Conn /\ Head(inbox[i]) = Challenge(e)
  <2>1. Head(inbox[i]) \in Packets(Len(owner))
    BY <1>1, <1>2, TailIs
  <2> QED BY <1>1, <2>1 DEF Packets, PacketSet, Challenge, Packet
<1> HIDE DEF e
<1> SUFFICES ASSUME NEW d \in Accepted
             PROVE  Alone(d)' /\ Staged(d)' /\ Awaited(d)' /\ Ended(d)'
  BY <1>1 DEF TokenInv
<1>4. /\ d \in Conn /\ owner[d] \in Client /\ d # None /\ upstream[d] \in Seq(Conn)
      /\ Alone(d) /\ Staged(d) /\ Awaited(d) /\ Ended(d)
  BY Parts
<1>5. /\ Challenged(d) <=> Challenged(d)' \/ (owner[d] = i /\ e = d)
      /\ owner[d] = i /\ e = d => ~Challenged(d)'
      /\ Once(inbox'[owner[d]], Challenge(d))
  <2>1. CASE owner[d] = i
    <3>1. /\ Has(inbox[i], Challenge(d)) <=>
               Challenge(e) = Challenge(d) \/ Has(inbox'[i], Challenge(d))
          /\ Once(inbox[i], Challenge(d)) =>
               /\ Once(inbox'[i], Challenge(d))
               /\ Challenge(e) = Challenge(d) => ~Has(inbox'[i], Challenge(d))
      BY <1>1, <1>2, <1>3, HasTail
    <3>2. Challenge(e) = Challenge(d) <=> e = d
      BY Distinct
    <3>3. Once(inbox[i], Challenge(d))
      BY <1>4, <2>1 DEF Alone
    <3> QED BY <1>1, <2>1, <3>1, <3>2, <3>3 DEF Challenged
  <2>2. CASE owner[d] # i
    BY <1>1, <1>2, <1>4, <2>2 DEF Challenged, Alone
  <2> QED BY <2>1, <2>2
<1>6. d = s => owner[d] = i
  BY <1>4 DEF LinkInv
<1>7. /\ Answers(d)' <=> Answers(d) \/ (d = s /\ d \notin broken /\ e = d)
      /\ Once(upstream'[d], d)
  <2>1. CASE d = s /\ d \notin broken
    <3>1. upstream'[d] = Append(upstream[d], e)
      BY <1>1, <1>4, <2>1
    <3>2. e = d => ~Answers(d)
      BY <1>4, <1>5, <1>6, <2>1 DEF Staged
    <3>3. Once(upstream[d], d)
      BY <1>4 DEF Alone
    <3> QED BY <1>3, <1>4, <2>1, <3>1, <3>2, <3>3, HasAppend DEF Answers
  <2>2. CASE ~(d = s /\ d \notin broken)
    <3>1. upstream'[d] = upstream[d]
      BY <1>1, <1>4, <2>2
    <3> QED BY <1>4, <2>2, <3>1 DEF Answers, Alone
  <2> QED BY <2>1, <2>2
<1>8. /\ Arrives(d)' <=> Arrives(d)
      /\ Knocks(d)' <=> Knocks(d)
      /\ Ends(d)' <=> Ends(d)
      /\ Alone(d)'
  BY <1>1, <1>4, <1>5, <1>7 DEF Arrives, Knocks, Ends, Alone
<1>9. d \in open \ broken /\ owner[d] = i => d = s
  BY DEF LinkInv
<1> HIDE DEF s
<1>10. Staged(d)'
  BY <1>1, <1>4, <1>5, <1>6, <1>7, <1>8 DEF Staged
<1>11. Awaited(d)'
  BY <1>1, <1>4, <1>5, <1>6, <1>7, <1>8, <1>9 DEF Awaited
<1>12. Ended(d)'
  BY <1>1, <1>4, <1>5, <1>6, <1>7, <1>8 DEF Ended
<1> QED BY <1>8, <1>10, <1>11, <1>12

LEMMA PacketTokens ==
  ASSUME TypeOK, LinkInv, TokenInv, NEW i \in Client, HandlePacket(i)
  PROVE  TokenInv'
<1>1. /\ inbox[i] # <<>> /\ Head(inbox[i]).type # "challenge"
      /\ inbox' = [inbox EXCEPT ![i] = Tail(@)]
      /\ UNCHANGED <<owner, broken, named, open, receiving, tasks, upstream>>
      /\ Accepted' = Accepted
  BY DEF HandlePacket, handlers, net, Accepted
<1>2. /\ inbox[i] \in Seq(Packets(Len(owner))) /\ inbox'[i] = Tail(inbox[i])
      /\ \A j \in Client \ {i} : inbox'[j] = inbox[j]
  BY <1>1 DEF LinkInv, Boxes
<1>3. \A d : Head(inbox[i]) # Challenge(d)
  BY <1>1 DEF Challenge, Packet
<1> SUFFICES ASSUME NEW d \in Accepted
             PROVE  Alone(d)' /\ Staged(d)' /\ Awaited(d)' /\ Ended(d)'
  BY <1>1 DEF TokenInv
<1>4. /\ owner[d] \in Client
      /\ Alone(d) /\ Staged(d) /\ Awaited(d) /\ Ended(d)
  BY Parts
<1>5. (Challenged(d)' <=> Challenged(d)) /\ Once(inbox'[owner[d]], Challenge(d))
  <2>1. CASE owner[d] = i
    <3>1. /\ Has(inbox'[i], Challenge(d)) <=> Has(inbox[i], Challenge(d))
          /\ Once(inbox[i], Challenge(d)) => Once(inbox'[i], Challenge(d))
      BY <1>1, <1>2, <1>3, HasTail
    <3> QED BY <1>1, <1>4, <2>1, <3>1 DEF Challenged, Alone
  <2>2. CASE owner[d] # i
    BY <1>1, <1>2, <1>4, <2>2 DEF Challenged, Alone
  <2> QED BY <2>1, <2>2
<1>6. /\ Arrives(d)' <=> Arrives(d)
      /\ Knocks(d)' <=> Knocks(d)
      /\ Ends(d)' <=> Ends(d)
      /\ Answers(d)' <=> Answers(d)
      /\ Alone(d)'
  BY <1>1, <1>4, <1>5 DEF Arrives, Knocks, Ends, Answers, Alone
<1> QED BY <1>1, <1>4, <1>5, <1>6 DEF Staged, Awaited, Ended

LEMMA TokenStep ==
  ASSUME TypeOK, LinkInv, RegistryIsTrue, TokenInv, [Next]_vars
  PROVE  TokenInv'
<1>1. ASSUME NEW c \in Conn,
             HandleSocket(c) \/ RefuseHello(c) \/ HandleHello(c) \/ HandleEnd(c)
      PROVE  TokenInv'
  BY <1>1, SocketTokens, RefuseTokens, HelloTokens, EndTokens
<1>2. ASSUME NEW c \in Conn, ReceiveHello(c) \/ ReceiveEnd(c) \/ Break(c)
      PROVE  TokenInv'
  BY <1>2, ReceiveTokens, ReceiveEndTokens, BreakTokens
<1>3. ASSUME NEW i \in Client, Connect(i) PROVE TokenInv'
  BY <1>3, ConnectTokens
<1>4. ASSUME NEW i \in Client, ReadEnd(i) \/ HandleChallenge(i) \/ HandlePacket(i)
      PROVE  TokenInv'
  BY <1>4, ReadEndTokens, ChallengeTokens, PacketTokens
<1>5. ASSUME Start \/ Stop \/ UNCHANGED vars PROVE TokenInv'
  BY <1>5, SameTokens DEF Start, Stop, vars, handlers, ends
<1> QED BY <1>1, <1>2, <1>3, <1>4, <1>5, StopNextTokens
        DEF Next, Serve, Receive, Listen
-----------------------------------------------------------------------------
\* The registry

LEMMA StopRegistry ==
  ASSUME TypeOK, LinkInv, RegistryIsTrue, owner' = owner, NEW c \in Accepted,
         NEW rest \in Seq(Tasks(Len(owner))), StopHandler(c, rest)
  PROVE  RegistryIsTrue'
<1>1. /\ spoilt \subseteq spoilt'
      /\ \/ /\ UNCHANGED <<named, open>>
            /\ clients' \in {clients, Unregistered(c)} /\ owner[c] \in spoilt'
         \/ /\ named' = named \ {c} /\ open' \in {open, open \ {c}}
            /\ clients' = Unregistered(c)
  BY StopIs DEF StopCut, StopDone, Closed
<1>2. ASSUME NEW j \in Client
      PROVE  /\ clients'[j] \in {clients[j], None}
             /\ owner[c] # j => clients'[j] = clients[j]
             /\ clients' = Unregistered(c) =>
                  clients'[j] = IF c \in named /\ owner[c] = j THEN None
                                ELSE clients[j]
  BY <1>1 DEF Unregistered
<1>3. ASSUME NEW j \in Client, clients'[j] # None
      PROVE  owner[clients'[j]] = j /\ clients'[j] \in named' \cap open'
  <2>1. /\ clients'[j] = clients[j] /\ owner[clients[j]] = j
        /\ clients[j] \in named \cap open
    BY <1>2, <1>3 DEF RegistryIsTrue
  <2>2. clients' = Unregistered(c) => clients[j] # c
    BY <1>2, <1>3, <2>1
  <2> QED BY <1>1, <2>1, <2>2
<1>4. ASSUME NEW d \in named', owner[d] \notin spoilt'
      PROVE  clients'[owner[d]] = d
  <2>1. d \in named /\ owner[d] \in Client /\ clients[owner[d]] = d
    BY <1>1, <1>4, RegisteredIs DEF RegistryIsTrue, LinkInv
  <2>2. CASE owner[c] \in spoilt'
    BY <1>2, <1>4, <2>1, <2>2
  <2>3. CASE owner[c] \notin spoilt'
    <3>1. d # c /\ clients' = Unregistered(c) /\ owner[c] \notin spoilt
      BY <1>1, <1>4, <2>3
    <3>2. c \in named => clients[owner[c]] = c
      BY <3>1 DEF RegistryIsTrue
    <3> QED BY <1>2, <2>1, <3>1, <3>2
  <2> QED BY <2>2, <2>3
<1> QED BY <1>3, <1>4 DEF RegistryIsTrue

LEMMA HelloRegistry ==
  ASSUME TypeOK, LinkInv, RegistryIsTrue, TokenInv, NEW c \in Conn, HandleHello(c)
  PROVE  RegistryIsTrue'
<1> DEFINE old == clients[owner[c]]
<1>0. /\ c \in open /\ c \notin named /\ owner[c] \in Client /\ c # None
      /\ owner' = owner
  <2>1. c \in open /\ c \notin named
    BY HelloOpen
  <2>2. owner[c] \in Client /\ c # None
    BY <2>1, RegisteredIs
  <2> QED BY <2>1, <2>2 DEF HandleHello, net
<1>1. /\ spoilt \subseteq spoilt'
      /\ old # None => old \in named /\ owner[old] = owner[c] /\ old # c
      /\ HelloCut(c, old) \/ HelloDone(c, old)
  BY <1>0, HelloIs
<1>2. /\ \A j \in Client :
           clients[j] # None => owner[clients[j]] = j /\ clients[j] \in named \cap open
      /\ \A d \in named : /\ owner[d] \in Client
                          /\ clients[owner[d]] = d \/ owner[d] \in spoilt
  BY RegisteredIs DEF RegistryIsTrue, LinkInv
<1>3. CASE HelloCut(c, old)
  <2>1. /\ owner[c] \in spoilt' /\ UNCHANGED open
        /\ named \ {old} \subseteq named' /\ named' \subseteq named \cup {c}
        /\ \A j \in Client : clients'[j] = IF j = owner[c] THEN None ELSE clients[j]
    BY <1>1, <1>3 DEF HelloCut, Unregistered
  <2>2. ASSUME NEW j \in Client, clients'[j] # None
        PROVE  owner[clients'[j]] = j /\ clients'[j] \in named' \cap open'
    <3>1. j # owner[c] /\ clients'[j] = clients[j]
      BY <2>1, <2>2
    <3>2. old = None => old \notin named
      BY DEF TypeOK, Conn, None
    <3>3. clients[j] # old
      BY <1>1, <1>2, <2>2, <3>1, <3>2
    <3> QED BY <1>2, <2>1, <2>2, <3>1, <3>3
  <2>3. ASSUME NEW d \in named', owner[d] \notin spoilt'
        PROVE  clients'[owner[d]] = d
    BY <1>1, <1>2, <2>1, <2>3
  <2> QED BY <1>0, <2>2, <2>3 DEF RegistryIsTrue
<1>4. CASE HelloDone(c, old)
  <2>1. /\ named' = (named \ {old}) \cup {c} /\ open' = open \ {old}
        /\ \A j \in Client : clients'[j] = IF j = owner[c] THEN c ELSE clients[j]
    BY <1>4 DEF HelloDone, TypeOK
  <2>2. ASSUME NEW j \in Client, clients'[j] # None
        PROVE  owner[clients'[j]] = j /\ clients'[j] \in named' \cap open'
    <3>1. CASE j = owner[c]
      <4>1. c # old
        BY <1>0, <1>1
      <4> QED BY <1>0, <2>1, <3>1, <4>1
    <3>2. CASE j # owner[c]
      <4>1. clients'[j] = clients[j] /\ clients[j] # old
        BY <1>1, <1>2, <2>1, <2>2, <3>2
      <4> QED BY <1>2, <2>1, <2>2, <4>1
    <3> QED BY <3>1, <3>2
  <2>3. ASSUME NEW d \in named', owner[d] \notin spoilt'
        PROVE  clients'[owner[d]] = d
    <3>1. CASE d = c
      BY <1>0, <2>1, <3>1
    <3>2. CASE d # c
      <4>1. d \in named /\ d # old /\ clients[owner[d]] = d
        BY <1>1, <1>2, <2>1, <2>3, <3>2
      <4>2. owner[d] # owner[c]
        BY <4>1
      <4> QED BY <1>2, <2>1, <4>1, <4>2
    <3> QED BY <3>1, <3>2
  <2> QED BY <1>0, <2>2, <2>3 DEF RegistryIsTrue
<1> QED BY <1>1, <1>3, <1>4

LEMMA RegistryStep ==
  ASSUME TypeOK, LinkInv, RegistryIsTrue, TokenInv, [Next]_vars
  PROVE  RegistryIsTrue'
<1>1. ASSUME UNCHANGED <<clients, named, open, owner, spoilt>>
      PROVE  RegistryIsTrue'
  BY <1>1 DEF RegistryIsTrue, Registered
<1>2. ASSUME NEW c \in Conn, HandleHello(c) PROVE RegistryIsTrue'
  BY <1>2, HelloRegistry
<1>3. ASSUME NEW c \in Conn, HandleEnd(c) PROVE RegistryIsTrue'
  <2>1. /\ StopHandler(c, Tail(tasks)) /\ owner' = owner
        /\ tasks # <<>> /\ c \in Accepted
    BY <1>3, NextTaskIs DEF HandleEnd, net
  <2>2. Tail(tasks) \in Seq(Tasks(Len(owner)))
    BY <2>1, TasksLess DEF LinkInv
  <2> QED BY <2>1, <2>2, StopRegistry
<1>4. ASSUME StopNext PROVE RegistryIsTrue'
  <2>1. owner' = owner
    BY <1>4 DEF StopNext, net
  <2>2. CASE UNCHANGED <<handlers, tasks, inbox, spoilt>>
    BY <1>1, <2>1, <2>2 DEF handlers
  <2>3. ASSUME NEW c \in Registered, StopHandler(c, tasks) PROVE RegistryIsTrue'
    <3>1. c \in Accepted /\ tasks \in Seq(Tasks(Len(owner)))
      BY RegisteredIs DEF LinkInv
    <3> QED BY <2>1, <2>3, <3>1, StopRegistry
  <2> QED BY <1>4, <2>2, <2>3 DEF StopNext
<1>5. ASSUME NEW i \in Client, Connect(i) PROVE RegistryIsTrue'
  <2>1. /\ UNCHANGED <<clients, named, spoilt>> /\ open \subseteq open'
        /\ owner' = Append(owner, i)
    BY <1>5 DEF Connect
  <2>2. \A d \in Accepted : owner'[d] = owner[d]
    BY <2>1, AppendIs DEF TypeOK, Accepted
  <2>3. open \subseteq Accepted
    BY DEF LinkInv
  <2>4. \A j \in Client : clients'[j] # None =>
          owner'[clients'[j]] = j /\ clients'[j] \in named' \cap open'
    BY <2>1, <2>2, <2>3 DEF RegistryIsTrue
  <2>5. \A d \in named' : clients'[owner'[d]] = d \/ owner'[d] \in spoilt'
    BY <2>1, <2>2, <2>3 DEF RegistryIsTrue, LinkInv
  <2> QED BY <2>4, <2>5 DEF RegistryIsTrue
<1>6. ASSUME NEW c \in Conn, HandleSocket(c) \/ RefuseHello(c) \/ Receive(c) \/ Break(c)
      PROVE  RegistryIsTrue'
  BY <1>1, <1>6 DEF HandleSocket, RefuseHello, Receive, ReceiveHello, ReceiveEnd,
                    Break, handlers, net
<1>7. ASSUME NEW i \in Client, ReadEnd(i) \/ Listen(i) PROVE RegistryIsTrue'
  BY <1>1, <1>7 DEF ReadEnd, Listen, HandleChallenge, HandlePacket, handlers, net
<1>8. ASSUME Start \/ Stop \/ UNCHANGED vars PROVE RegistryIsTrue'
  BY <1>1, <1>8 DEF Start, Stop, vars, handlers, net
<1> QED BY <1>2, <1>3, <1>4, <1>5, <1>6, <1>7, <1>8 DEF Next, Serve
-----------------------------------------------------------------------------
\* What a client believes, once it will have read its packets

\* Who is not connected has been told of the end of its connection, last.
LeftInv ==
  \A i \in Client : socket[i] = None =>
    IF inbox[i] = <<>> THEN view[i] = {}
    ELSE inbox[i][Len(inbox[i])].type = "disconnect"

\* A packet tells that j is there, or says nothing of j; otherwise it tells
\* that j is not there.
Yes(p, j) == p.type \in {"welcome", "join"} /\ j \in p.ids
Silent(p, j) ==
  p.type = "challenge" \/ (p.type \in {"join", "leave"} /\ j \notin p.ids)

\* The last packet that is not silent counts, or else what was known.
Believes(v, q, j) ==
  \/ \E k \in 1..Len(q) : Yes(q[k], j) /\ \A l \in k+1..Len(q) : Silent(q[l], j)
  \/ j \in v /\ \A k \in 1..Len(q) : Silent(q[k], j)

\* What the client knows when it has read the packet
Told(v, p) ==
  CASE p.type = "welcome" -> p.ids
    [] p.type = "join" -> v \cup p.ids
    [] p.type = "leave" -> v \ p.ids
    [] p.type = "disconnect" -> {}
    [] p.type = "challenge" -> v

\* Whoever is registered, on a connection that works, will believe in those
\* that are registered, unless an exception has spoilt one of the two.
BeliefInv ==
  \A i, j \in Client \ spoilt :
    clients[i] # None /\ clients[i] \notin broken =>
      (Believes(view[i], inbox[i], j) <=> clients[j] # None)

LEMMA BelievesAppend ==
  ASSUME NEW S, NEW q \in Seq(S), NEW p \in S, NEW v, NEW j
  PROVE  Believes(v, Append(q, p), j) <=>
           Yes(p, j) \/ (Silent(p, j) /\ Believes(v, q, j))
<1> DEFINE s == Append(q, p)
           n == Len(q)
<1>1. /\ n \in Nat /\ Len(s) = n + 1 /\ s[n + 1] = p
      /\ \A k \in 1..n : k \in 1..Len(s) /\ s[k] = q[k]
      /\ \A k \in 1..Len(s) : k \in 1..n \/ k = n + 1
  BY AppendIs
<1> HIDE DEF s, n
<1>2. ASSUME NEW k \in 1..n
      PROVE  (\A l \in k+1..Len(s) : Silent(s[l], j)) <=>
               Silent(p, j) /\ \A l \in k+1..n : Silent(q[l], j)
  <2>1. \A l \in k+1..n : l \in k+1..Len(s) /\ s[l] = q[l]
    BY <1>1
  <2>2. \A l \in k+1..Len(s) : l \in k+1..n \/ l = n + 1
    BY <1>1
  <2>3. n + 1 \in k+1..Len(s)
    BY <1>1
  <2> QED BY <1>1, <2>1, <2>2, <2>3
<1>3. (\A l \in (n+1)+1..Len(s) : Silent(s[l], j)) /\ n + 1 \in 1..Len(s)
  BY <1>1
<1>4. (\A k \in 1..Len(s) : Silent(s[k], j)) <=>
        Silent(p, j) /\ \A k \in 1..n : Silent(q[k], j)
  BY <1>1, <1>3
<1>5. (\E k \in 1..Len(s) : Yes(s[k], j) /\ \A l \in k+1..Len(s) : Silent(s[l], j))
        <=> \/ Yes(p, j)
            \/ /\ Silent(p, j)
               /\ \E k \in 1..n : Yes(q[k], j) /\ \A l \in k+1..n : Silent(q[l], j)
  <2>1. ASSUME NEW k \in 1..Len(s), Yes(s[k], j),
               \A l \in k+1..Len(s) : Silent(s[l], j), ~Yes(p, j)
        PROVE  /\ Silent(p, j)
               /\ \E m \in 1..n : Yes(q[m], j) /\ \A l \in m+1..n : Silent(q[l], j)
    <3>1. k \in 1..n
      BY <1>1, <2>1
    <3> QED BY <1>1, <1>2, <2>1, <3>1
  <2>2. ASSUME Yes(p, j)
        PROVE  \E k \in 1..Len(s) : Yes(s[k], j) /\ \A l \in k+1..Len(s) : Silent(s[l], j)
    BY <1>1, <1>3, <2>2
  <2>3. ASSUME NEW k \in 1..n, Yes(q[k], j), \A l \in k+1..n : Silent(q[l], j),
               Silent(p, j)
        PROVE  \E m \in 1..Len(s) : Yes(s[m], j) /\ \A l \in m+1..Len(s) : Silent(s[l], j)
    BY <1>1, <1>2, <2>3
  <2> QED BY <2>1, <2>2, <2>3
<1>6. Believes(v, s, j) <=> Yes(p, j) \/ (Silent(p, j) /\ Believes(v, q, j))
  BY <1>4, <1>5 DEF Believes, n
<1> QED BY <1>6 DEF s

LEMMA BelievesTail ==
  ASSUME NEW q \in Seq(PacketSet), q # <<>>, NEW v, NEW j
  PROVE  Believes(Told(v, Head(q)), Tail(q), j) <=> Believes(v, q, j)
<1> DEFINE p == Head(q)
           s == Tail(q)
           m == Len(q)
           n == Len(s)
<1>1. /\ p \in PacketSet /\ m \in Nat \ {0} /\ n = m - 1 /\ q[1] = p
      /\ \A k \in 1..n : k + 1 \in 1..m /\ s[k] = q[k+1]
      /\ \A k \in 1..m : k = 1 \/ (k - 1 \in 1..n /\ s[k-1] = q[k])
  BY TailIs
<1>2. j \in Told(v, p) <=> Yes(p, j) \/ (Silent(p, j) /\ j \in v)
  <2>1. p.type \in {"challenge", "welcome", "join", "leave", "disconnect"}
    BY <1>1 DEF PacketSet
  <2> HIDE DEF p
  <2>2. CASE p.type = "challenge"
    BY <2>2 DEF Told, Yes, Silent
  <2>3. CASE p.type = "welcome"
    BY <2>3 DEF Told, Yes, Silent
  <2>4. CASE p.type = "join"
    BY <2>4 DEF Told, Yes, Silent
  <2>5. CASE p.type = "leave"
    BY <2>5 DEF Told, Yes, Silent
  <2>6. CASE p.type = "disconnect"
    BY <2>6 DEF Told, Yes, Silent
  <2> QED BY <2>1, <2>2, <2>3, <2>4, <2>5, <2>6
<1> HIDE DEF p, s, m, n
<1>3. ASSUME NEW a \in Int, a >= 1
      PROVE  (\A l \in a..n : Silent(s[l], j)) <=> \A l \in a+1..m : Silent(q[l], j)
  <2>1. \A l \in a..n : l + 1 \in a+1..m /\ s[l] = q[l+1]
    BY <1>1, <1>3
  <2>2. \A l \in a+1..m : l - 1 \in a..n /\ s[l-1] = q[l]
    BY <1>1, <1>3
  <2> QED BY <2>1, <2>2
<1>4. (\A k \in 1..m : Silent(q[k], j)) <=>
        Silent(p, j) /\ \A k \in 1..n : Silent(s[k], j)
  <2>1. \A k \in 1..m : k = 1 \/ k \in 1+1..m
    BY <1>1
  <2>2. 1 \in 1..m /\ \A k \in 1+1..m : k \in 1..m
    BY <1>1
  <2> QED BY <1>1, <1>3, <2>1, <2>2
<1>5. (\E k \in 1..m : Yes(q[k], j) /\ \A l \in k+1..m : Silent(q[l], j))
        <=> \/ Yes(p, j) /\ \A k \in 1..n : Silent(s[k], j)
            \/ \E k \in 1..n : Yes(s[k], j) /\ \A l \in k+1..n : Silent(s[l], j)
  <2>1. ASSUME NEW k \in 1..m, Yes(q[k], j), \A l \in k+1..m : Silent(q[l], j)
        PROVE  \/ Yes(p, j) /\ \A i \in 1..n : Silent(s[i], j)
               \/ \E i \in 1..n : Yes(s[i], j) /\ \A l \in i+1..n : Silent(s[l], j)
    <3>1. CASE k = 1
      BY <1>1, <1>3, <2>1, <3>1
    <3>2. CASE k # 1
      <4>1. k - 1 \in 1..n /\ s[k-1] = q[k] /\ (k - 1) + 1 = k /\ k \in Int /\ k >= 1
        BY <1>1, <3>2
      <4>2. \A l \in (k-1)+1..n : Silent(s[l], j)
        BY <1>3, <2>1, <4>1
      <4> QED BY <2>1, <4>1, <4>2
    <3> QED BY <3>1, <3>2
  <2>2. ASSUME Yes(p, j), \A k \in 1..n : Silent(s[k], j)
        PROVE  \E k \in 1..m : Yes(q[k], j) /\ \A l \in k+1..m : Silent(q[l], j)
    <3>1. \A l \in 1+1..m : Silent(q[l], j)
      BY <1>3, <2>2
    <3> QED BY <1>1, <2>2, <3>1
  <2>3. ASSUME NEW k \in 1..n, Yes(s[k], j), \A l \in k+1..n : Silent(s[l], j)
        PROVE  \E i \in 1..m : Yes(q[i], j) /\ \A l \in i+1..m : Silent(q[l], j)
    <3>1. k + 1 \in 1..m /\ q[k+1] = s[k] /\ k + 1 \in Int /\ k + 1 >= 1
      BY <1>1
    <3>2. \A l \in (k+1)+1..m : Silent(q[l], j)
      BY <1>3, <2>3, <3>1
    <3> QED BY <2>3, <3>1, <3>2
  <2> QED BY <2>1, <2>2, <2>3
<1>6. Believes(Told(v, p), s, j) <=> Believes(v, q, j)
  BY <1>2, <1>4, <1>5 DEF Believes, m, n
<1> QED BY <1>6 DEF p, s

\* What those believe who are told, and those who are not
Reached(S, i) == \E c \in S : owner[c] = i /\ c \notin broken

\* What a packet of each type tells
LEMMA Tells ==
  ASSUME NEW s, NEW ids, NEW j
  PROVE  /\ Yes(Packet(s, "welcome", ids), j) <=> j \in ids
         /\ ~Silent(Packet(s, "welcome", ids), j)
         /\ Yes(Packet(s, "join", ids), j) <=> j \in ids
         /\ Silent(Packet(s, "join", ids), j) <=> j \notin ids
         /\ ~Yes(Packet(s, "leave", ids), j)
         /\ Silent(Packet(s, "leave", ids), j) <=> j \notin ids
         /\ ~Yes(Packet(s, "challenge", ids), j)
         /\ Silent(Packet(s, "challenge", ids), j)
BY DEF Yes, Silent, Packet

\* What i will believe of j when it has read its packets of the boxes
WillBelieve(boxes, i, j) == Believes(view[i], boxes[i], j)

LEMMA SentBelieves ==
  ASSUME NEW S, NEW boxes, NEW type, NEW ids, NEW i, NEW j, NEW p,
         TypeOK, LinkInv, S \subseteq open, boxes \in Boxes, ids \subseteq Client,
         type \in {"challenge", "welcome", "join", "leave"},
         type = "challenge" => ids = {}, i \in Client,
         p = Packet(socket[i], type, ids)
  PROVE  WillBelieve(Sent(S, type, ids, boxes), i, j) <=>
           IF Reached(S, i) THEN Yes(p, j) \/ (Silent(p, j) /\ WillBelieve(boxes, i, j))
           ELSE WillBelieve(boxes, i, j)
<1> DEFINE old == boxes[i]
           q == Sent(S, type, ids, boxes)[i]
           v == view[i]
<1>1. IF Reached(S, i) THEN p \in Packets(Len(owner)) /\ q = Append(old, p)
      ELSE q = old
  <2>1. S \in SUBSET open /\ ids \in SUBSET Client
    OBVIOUS
  <2>2. /\ Sent(S, type, ids, boxes) \in Boxes
        /\ \A k \in Client :
             IF \E c \in S : owner[c] = k /\ c \notin broken
             THEN /\ socket[k] \in S \ broken /\ owner[socket[k]] = k
                  /\ Packet(socket[k], type, ids) \in Packets(Len(owner))
                  /\ Sent(S, type, ids, boxes)[k] =
                       Append(boxes[k], Packet(socket[k], type, ids))
             ELSE Sent(S, type, ids, boxes)[k] = boxes[k]
    BY <2>1, SentIs
  <2> QED BY <2>2 DEF Reached
<1>2. old \in Seq(Packets(Len(owner)))
  BY DEF Boxes
<1> HIDE DEF old, q, v
<1>3. Reached(S, i) =>
        (Believes(v, Append(old, p), j) <=>
           Yes(p, j) \/ (Silent(p, j) /\ Believes(v, old, j)))
  BY <1>1, <1>2, BelievesAppend
<1>4. Believes(v, q, j) <=>
        IF Reached(S, i) THEN Yes(p, j) \/ (Silent(p, j) /\ Believes(v, old, j))
        ELSE Believes(v, old, j)
  BY <1>1, <1>3
<1> QED BY <1>4 DEF WillBelieve, old, q, v

LEMMA WelcomeBelieves ==
  ASSUME NEW S, NEW boxes, NEW ids, NEW i, NEW j,
         TypeOK, LinkInv, S \subseteq open, boxes \in Boxes, ids \subseteq Client,
         i \in Client
  PROVE  WillBelieve(Sent(S, "welcome", ids, boxes), i, j) <=>
           IF Reached(S, i) THEN j \in ids
           ELSE WillBelieve(boxes, i, j)
<1> DEFINE p == Packet(socket[i], "welcome", ids)
<1> HIDE DEF p
<1>1. WillBelieve(Sent(S, "welcome", ids, boxes), i, j) <=>
        IF Reached(S, i) THEN Yes(p, j) \/ (Silent(p, j) /\ WillBelieve(boxes, i, j))
        ELSE WillBelieve(boxes, i, j)
  BY SentBelieves DEF p
<1> QED BY <1>1, Tells DEF p

LEMMA JoinBelieves ==
  ASSUME NEW S, NEW boxes, NEW ids, NEW i, NEW j,
         TypeOK, LinkInv, S \subseteq open, boxes \in Boxes, ids \subseteq Client,
         i \in Client
  PROVE  WillBelieve(Sent(S, "join", ids, boxes), i, j) <=>
           IF Reached(S, i) THEN j \in ids \/ WillBelieve(boxes, i, j)
           ELSE WillBelieve(boxes, i, j)
<1> DEFINE p == Packet(socket[i], "join", ids)
<1> HIDE DEF p
<1>1. WillBelieve(Sent(S, "join", ids, boxes), i, j) <=>
        IF Reached(S, i) THEN Yes(p, j) \/ (Silent(p, j) /\ WillBelieve(boxes, i, j))
        ELSE WillBelieve(boxes, i, j)
  BY SentBelieves DEF p
<1> QED BY <1>1, Tells DEF p

LEMMA LeaveBelieves ==
  ASSUME NEW S, NEW boxes, NEW ids, NEW i, NEW j,
         TypeOK, LinkInv, S \subseteq open, boxes \in Boxes, ids \subseteq Client,
         i \in Client
  PROVE  WillBelieve(Sent(S, "leave", ids, boxes), i, j) <=>
           IF Reached(S, i) THEN j \notin ids /\ WillBelieve(boxes, i, j)
           ELSE WillBelieve(boxes, i, j)
<1> DEFINE p == Packet(socket[i], "leave", ids)
<1> HIDE DEF p
<1>1. WillBelieve(Sent(S, "leave", ids, boxes), i, j) <=>
        IF Reached(S, i) THEN Yes(p, j) \/ (Silent(p, j) /\ WillBelieve(boxes, i, j))
        ELSE WillBelieve(boxes, i, j)
  BY SentBelieves DEF p
<1> QED BY <1>1, Tells DEF p

\* A packet about k, whoever gets it, tells nothing of others.
LEMMA PartlyBelieves ==
  ASSUME TypeOK, LinkInv, NEW k \in Client, NEW type \in {"join", "leave"},
         NEW boxes \in Boxes, NEW new \in Partly(type, k, boxes),
         NEW i \in Client, NEW j, j # k
  PROVE  WillBelieve(new, i, j) <=> WillBelieve(boxes, i, j)
<1> DEFINE ids == {k}
<1>1. ids \subseteq Client /\ j \notin ids
  OBVIOUS
<1>2. new = boxes \/ \E S \in SUBSET open : new = Sent(S, type, ids, boxes)
  BY DEF Partly
<1> HIDE DEF ids
<1>3. ASSUME NEW S, S \subseteq open
      PROVE  WillBelieve(Sent(S, type, ids, boxes), i, j) <=> WillBelieve(boxes, i, j)
  <2>1. CASE type = "join"
    <3>1. WillBelieve(Sent(S, "join", ids, boxes), i, j) <=>
            IF Reached(S, i) THEN j \in ids \/ WillBelieve(boxes, i, j)
            ELSE WillBelieve(boxes, i, j)
      BY <1>1, <1>3, JoinBelieves
    <3> QED BY <1>1, <2>1, <3>1
  <2>2. CASE type = "leave"
    <3>1. WillBelieve(Sent(S, "leave", ids, boxes), i, j) <=>
            IF Reached(S, i) THEN j \notin ids /\ WillBelieve(boxes, i, j)
            ELSE WillBelieve(boxes, i, j)
      BY <1>1, <1>3, LeaveBelieves
    <3> QED BY <1>1, <2>2, <3>1
  <2> QED BY <2>1, <2>2
<1> QED BY <1>2, <1>3

LEMMA BeliefSame ==
  ASSUME BeliefInv, spoilt \subseteq spoilt', UNCHANGED <<clients, view>>,
         broken \subseteq broken',
         \A i \in Client :
           clients[i] # None /\ clients[i] \notin broken => inbox'[i] = inbox[i]
  PROVE  BeliefInv'
<1> SUFFICES ASSUME NEW i \in Client \ spoilt', NEW j \in Client \ spoilt',
                    clients'[i] # None, clients'[i] \notin broken'
             PROVE  Believes(view'[i], inbox'[i], j) <=> clients'[j] # None
  BY DEF BeliefInv, Believes, Yes, Silent
<1>1. clients[i] # None /\ clients[i] \notin broken
  OBVIOUS
<1>2. Believes(view[i], inbox[i], j) <=> clients[j] # None
  BY <1>1 DEF BeliefInv
<1> QED BY <1>1, <1>2

\* The others are told that the one is gone whose connection is closed.
LEMMA StopBelief ==
  ASSUME TypeOK, LinkInv, RegistryIsTrue, BeliefInv,
         UNCHANGED <<owner, broken, view>>, NEW c \in Accepted,
         NEW rest \in Seq(Tasks(Len(owner))), StopHandler(c, rest)
  PROVE  BeliefInv'
<1> SUFFICES ASSUME NEW i \in Client \ spoilt', NEW j \in Client \ spoilt',
                    clients'[i] # None, clients'[i] \notin broken'
             PROVE  Believes(view'[i], inbox'[i], j) <=> clients'[j] # None
  BY DEF BeliefInv, Believes, Yes, Silent
<1>0. /\ i \in Client /\ j \in Client /\ i \notin spoilt /\ j \notin spoilt
      /\ owner[c] \in Client /\ inbox \in Boxes
      /\ StopCut(c, rest) \/ StopDone(c, rest)
  <2>1. owner[c] \in Client
    BY ElementOfSeq DEF TypeOK, Accepted
  <2> QED BY <2>1, StopIs DEF LinkInv
<1>a. CASE StopCut(c, rest)
  <2>1. /\ i # owner[c] /\ j # owner[c]
        /\ \A k \in Client \ {owner[c]} : clients'[k] = clients[k]
        /\ inbox' \in Partly("leave", owner[c], inbox)
    BY <1>0, <1>a DEF StopCut, Unregistered
  <2>2. clients[i] # None /\ clients[i] \notin broken /\ clients'[j] = clients[j]
    BY <1>0, <2>1
  <2>3. WillBelieve(inbox, i, j) <=> clients[j] # None
    BY <1>0, <2>2 DEF BeliefInv, WillBelieve
  <2>4. WillBelieve(inbox', i, j) <=> WillBelieve(inbox, i, j)
    BY <1>0, <2>1, PartlyBelieves
  <2> QED BY <2>2, <2>3, <2>4 DEF WillBelieve
<1>b. CASE StopDone(c, rest)
 <2>1. /\ clients' = Unregistered(c)
       /\ inbox' = IF c \in named
                   THEN Sent(Registered \ {c}, "leave", {owner[c]}, inbox)
                   ELSE inbox
   BY <1>b DEF StopDone
 <2>2. /\ \A k \in Client : clients'[k] = IF c \in named /\ owner[c] = k THEN None
                                          ELSE clients[k]
       /\ clients[i] # None /\ clients[i] \notin broken
   BY <2>1 DEF Unregistered
 <2>3. Believes(view[i], inbox[i], j) <=> clients[j] # None
   BY <1>0, <2>2 DEF BeliefInv
 <2>4. CASE c \notin named
   BY <2>1, <2>2, <2>3, <2>4
 <2>5. CASE c \in named
   <3> DEFINE S == Registered \ {c}
              ids == {owner[c]}
   <3>1. ids \in SUBSET Client /\ S \in SUBSET open /\ inbox \in Boxes
     BY <2>5, RegisteredIs DEF LinkInv
   <3>2. Reached(S, i)
     <4>1. owner[c] # i
       BY <2>2, <2>5
     <4>2. clients[i] \in Registered /\ owner[clients[i]] = i
       BY <2>2, RegisteredIs DEF RegistryIsTrue
     <4> QED BY <2>2, <4>1, <4>2 DEF Reached
   <3>3. inbox' = Sent(S, "leave", ids, inbox)
     BY <2>1, <2>5
   <3> HIDE DEF S, ids
   <3>4. WillBelieve(Sent(S, "leave", ids, inbox), i, j) <=>
           j \notin ids /\ WillBelieve(inbox, i, j)
     BY <3>1, <3>2, LeaveBelieves
   <3>5. WillBelieve(inbox', i, j) <=> j \notin ids /\ WillBelieve(inbox, i, j)
     BY <3>3, <3>4
   <3> QED BY <2>2, <2>3, <2>5, <3>5 DEF ids, WillBelieve
 <2> QED BY <2>4, <2>5
<1> QED BY <1>0, <1>a, <1>b

\* The others are told of the newcomer, and it is told of them.
LEMMA HelloBelief ==
  ASSUME TypeOK, LinkInv, RegistryIsTrue, TokenInv, BeliefInv,
         NEW c \in Conn, HandleHello(c)
  PROVE  BeliefInv'
<1> DEFINE old == clients[owner[c]]
<1>0. /\ c \in open /\ c \notin named /\ owner[c] \in Client /\ c # None
      /\ UNCHANGED <<owner, broken, view>> /\ inbox \in Boxes
  <2>1. c \in open /\ c \notin named
    BY HelloOpen
  <2>2. owner[c] \in Client /\ c # None
    BY <2>1, RegisteredIs
  <2> QED BY <2>1, <2>2 DEF HandleHello, net, LinkInv
<1> SUFFICES ASSUME NEW i \in Client \ spoilt', NEW j \in Client \ spoilt',
                    clients'[i] # None, clients'[i] \notin broken'
             PROVE  Believes(view'[i], inbox'[i], j) <=> clients'[j] # None
  BY DEF BeliefInv, Believes, Yes, Silent
<1>1. /\ i \in Client /\ j \in Client /\ i \notin spoilt /\ j \notin spoilt
      /\ old # None => /\ old \in Registered /\ old \in named
                       /\ owner[old] = owner[c] /\ old # c
      /\ HelloCut(c, old) \/ HelloDone(c, old)
  BY <1>0, HelloIs
<1>2. CASE HelloCut(c, old)
  <2>1. /\ i # owner[c] /\ j # owner[c]
        /\ \A k \in Client \ {owner[c]} : clients'[k] = clients[k]
        /\ inbox' \in Partly("leave", owner[c], inbox)
    BY <1>1, <1>2 DEF HelloCut, Unregistered
  <2>2. clients[i] # None /\ clients[i] \notin broken /\ clients'[j] = clients[j]
    BY <1>0, <1>1, <2>1
  <2>3. WillBelieve(inbox, i, j) <=> clients[j] # None
    BY <1>1, <2>2 DEF BeliefInv, WillBelieve
  <2>4. WillBelieve(inbox', i, j) <=> WillBelieve(inbox, i, j)
    BY <1>0, <1>1, <2>1, PartlyBelieves
  <2> QED BY <1>0, <2>2, <2>3, <2>4 DEF WillBelieve
<1>3. CASE HelloDone(c, old)
  <2>0. clients' = [clients EXCEPT ![owner[c]] = c]
    BY <1>3 DEF HelloDone
  <2>1. PICK left \in Boxes :
          /\ left = IF old = None THEN inbox
                    ELSE Sent(Registered \ {old}, "leave", {owner[c]}, inbox)
          /\ \/ owner[c] \in spoilt' /\ inbox' \in Partly("join", owner[c], left)
             \/ \E told \in Boxes :
                  /\ told = Sent(Registered \ {c, old}, "join", {owner[c]}, left)
                  /\ inbox' = Sent({c}, "welcome", WelcomeList(c), told)
    BY <1>3 DEF HelloDone
  <2>2. /\ \A k \in Client : clients'[k] = IF k = owner[c] THEN c ELSE clients[k]
        /\ WelcomeList(c) \in SUBSET Client
        /\ j \in WelcomeList(c) <=> clients'[j] # None
    BY <1>0, <1>1, <2>0 DEF TypeOK, WelcomeList
  <2>3. /\ Registered \ {old} \subseteq open
        /\ Registered \ {c, old} \subseteq open /\ {c} \subseteq open
        /\ {owner[c]} \subseteq Client
    BY <1>0, RegisteredIs
  <2>4. j # owner[c] => (WillBelieve(left, i, j) <=> WillBelieve(inbox, i, j))
    <3> DEFINE R == Registered \ {old}
               ids == {owner[c]}
    <3>1. /\ left = IF old = None THEN inbox ELSE Sent(R, "leave", ids, inbox)
          /\ R \subseteq open /\ ids \subseteq Client /\ (j # owner[c] => j \notin ids)
      BY <2>1, <2>3
    <3> HIDE DEF R, ids
    <3>2. WillBelieve(Sent(R, "leave", ids, inbox), i, j) <=>
            IF Reached(R, i) THEN j \notin ids /\ WillBelieve(inbox, i, j)
            ELSE WillBelieve(inbox, i, j)
      BY <1>0, <1>1, <3>1, LeaveBelieves
    <3> QED BY <3>1, <3>2
  <2>5. i # owner[c] =>
          /\ clients[i] # None /\ clients[i] \notin broken
          /\ WillBelieve(inbox, i, j) <=> clients[j] # None
    BY <1>0, <1>1, <2>2 DEF BeliefInv, WillBelieve
  <2>6. ASSUME owner[c] \in spoilt', inbox' \in Partly("join", owner[c], left)
        PROVE  WillBelieve(inbox', i, j) <=> clients'[j] # None
    <3>1. i # owner[c] /\ j # owner[c]
      BY <2>6
    <3>2. WillBelieve(inbox', i, j) <=> WillBelieve(left, i, j)
      BY <1>0, <1>1, <2>6, <3>1, PartlyBelieves
    <3> QED BY <1>1, <2>2, <2>4, <2>5, <3>1, <3>2
  <2>7. ASSUME NEW told \in Boxes,
               told = Sent(Registered \ {c, old}, "join", {owner[c]}, left),
               inbox' = Sent({c}, "welcome", WelcomeList(c), told)
        PROVE  WillBelieve(inbox', i, j) <=> clients'[j] # None
    <3>1. WillBelieve(inbox', i, j) <=>
            IF Reached({c}, i) THEN j \in WelcomeList(c) ELSE WillBelieve(told, i, j)
      <4> DEFINE S == {c}
                 ids == WelcomeList(c)
      <4>1. S \subseteq open /\ ids \subseteq Client /\ inbox' = Sent(S, "welcome", ids, told)
        BY <2>2, <2>3, <2>7
      <4> HIDE DEF S, ids
      <4>2. WillBelieve(Sent(S, "welcome", ids, told), i, j) <=>
              IF Reached(S, i) THEN j \in ids ELSE WillBelieve(told, i, j)
        BY <1>1, <2>7, <4>1, WelcomeBelieves
      <4> QED BY <4>1, <4>2 DEF S, ids
    <3>2. CASE i = owner[c]
      <4>1. Reached({c}, i)
        BY <1>0, <2>2, <3>2 DEF Reached
      <4> QED BY <2>2, <3>1, <4>1
    <3>3. CASE i # owner[c]
      <4> DEFINE S == Registered \ {c, old}
                 ids == {owner[c]}
      <4>1. /\ clients[i] # None /\ clients[i] \notin broken /\ clients[i] \in Registered
            /\ owner[clients[i]] = i /\ clients[i] \in named
        BY <1>1, <2>5, <3>3, RegisteredIs DEF RegistryIsTrue
      <4>2. Reached(S, i) /\ ~Reached({c}, i)
        BY <1>0, <1>1, <3>3, <4>1 DEF Reached
      <4>3. S \subseteq open /\ ids \subseteq Client /\ told = Sent(S, "join", ids, left)
        BY <2>3, <2>7
      <4> HIDE DEF S, ids
      <4>4. WillBelieve(Sent(S, "join", ids, left), i, j) <=>
              IF Reached(S, i) THEN j \in ids \/ WillBelieve(left, i, j)
              ELSE WillBelieve(left, i, j)
        BY <1>1, <2>1, <4>3, JoinBelieves
      <4>5. WillBelieve(told, i, j) <=> j \in ids \/ WillBelieve(left, i, j)
        BY <4>2, <4>3, <4>4
      <4>6. j \in ids <=> j = owner[c]
        BY DEF ids
      <4>7. WillBelieve(told, i, j) <=> clients'[j] # None
        BY <1>0, <1>1, <2>2, <2>4, <2>5, <3>3, <4>5, <4>6
      <4> QED BY <3>1, <4>2, <4>7
    <3> QED BY <3>2, <3>3
  <2>8. WillBelieve(inbox', i, j) <=> clients'[j] # None
    BY <2>1, <2>6, <2>7
  <2> QED BY <1>0, <2>8 DEF WillBelieve
<1> QED BY <1>1, <1>2, <1>3

LEMMA SocketBelief ==
  ASSUME TypeOK, LinkInv, TokenInv, BeliefInv, NEW c \in Conn, HandleSocket(c)
  PROVE  BeliefInv'
<1> DEFINE S == {c}
           none == {}
<1>0. /\ UNCHANGED <<clients, broken, view, spoilt>>
      /\ inbox' = Sent(S, "challenge", none, inbox)
  BY DEF HandleSocket, net
<1>1. S \subseteq open /\ none \subseteq Client /\ inbox \in Boxes
  <2>1. tasks # <<>> /\ c \in Accepted /\ Head(tasks) = Arrival(c)
    BY NextTaskIs DEF HandleSocket
  <2>2. Arrives(c)
    BY <2>1, Popped
  <2> QED BY <2>1, <2>2 DEF TokenInv, Ended, LinkInv
<1> SUFFICES ASSUME NEW i \in Client \ spoilt', NEW j \in Client \ spoilt',
                    clients'[i] # None, clients'[i] \notin broken'
             PROVE  Believes(view'[i], inbox'[i], j) <=> clients'[j] # None
  BY DEF BeliefInv, Believes, Yes, Silent
<1>2. WillBelieve(inbox, i, j) <=> clients[j] # None
  BY <1>0 DEF BeliefInv, WillBelieve
<1> DEFINE p == Packet(socket[i], "challenge", none)
<1>3. ~Yes(p, j) /\ Silent(p, j)
  BY Tells
<1>4. none = {}
  OBVIOUS
<1> HIDE DEF S, none, p
<1>5. WillBelieve(Sent(S, "challenge", none, inbox), i, j) <=>
        IF Reached(S, i) THEN Yes(p, j) \/ (Silent(p, j) /\ WillBelieve(inbox, i, j))
        ELSE WillBelieve(inbox, i, j)
  BY <1>1, <1>4, SentBelieves DEF p
<1>6. WillBelieve(inbox', i, j) <=> WillBelieve(inbox, i, j)
  BY <1>0, <1>3, <1>5
<1> QED BY <1>0, <1>2, <1>6 DEF WillBelieve

\* What has been read is known.
ListenIs(i) ==
  /\ inbox[i] # <<>>
  /\ inbox' = [inbox EXCEPT ![i] = Tail(@)]
  /\ view' = [view EXCEPT ![i] = Told(@, Head(inbox[i]))]
  /\ UNCHANGED <<server, handlers, tasks, net, socket, spoilt, stops>>

LEMMA Listens ==
  ASSUME TypeOK, NEW i \in Client, Listen(i)
  PROVE  ListenIs(i)
<1> DEFINE p == Head(inbox[i])
<1>1. inbox[i] # <<>>
  BY DEF Listen, HandleChallenge, HandlePacket
<1>2. p.type \in {"challenge", "welcome", "join", "leave", "disconnect"}
  <2>1. inbox[i] \in Seq(PacketSet)
    BY DEF TypeOK
  <2>2. p \in PacketSet
    BY <1>1, <2>1, TailIs
  <2> QED BY <2>2 DEF PacketSet
<1>3. CASE HandleChallenge(i)
  <2>1. Told(view[i], p) = view[i]
    BY <1>3 DEF HandleChallenge, Told
  <2> HIDE DEF p
  <2>2. [view EXCEPT ![i] = Told(@, p)] = view
    BY <2>1 DEF TypeOK
  <2> QED BY <1>3, <2>2 DEF HandleChallenge, ListenIs, p
<1>4. CASE HandlePacket(i)
  <2>1. /\ p.type # "challenge"
        /\ view' = [view EXCEPT ![i] =
             CASE p.type = "welcome" -> p.ids
               [] p.type = "join" -> @ \cup p.ids
               [] p.type = "leave" -> @ \ p.ids
               [] p.type = "disconnect" -> {}]
    BY <1>4 DEF HandlePacket
  <2> HIDE DEF p
  <2>2. Told(view[i], p) = CASE p.type = "welcome" -> p.ids
                             [] p.type = "join" -> view[i] \cup p.ids
                             [] p.type = "leave" -> view[i] \ p.ids
                             [] p.type = "disconnect" -> {}
    <3>1. CASE p.type = "welcome"
      BY <3>1 DEF Told
    <3>2. CASE p.type = "join"
      BY <3>2 DEF Told
    <3>3. CASE p.type = "leave"
      BY <3>3 DEF Told
    <3>4. CASE p.type = "disconnect"
      BY <3>4 DEF Told
    <3> QED BY <1>2, <2>1, <3>1, <3>2, <3>3, <3>4
  <2>3. view' = [view EXCEPT ![i] = Told(@, p)]
    BY <2>1, <2>2
  <2> QED BY <1>4, <2>3 DEF HandlePacket, ListenIs, p
<1> QED BY <1>3, <1>4 DEF Listen

LEMMA ListenBelief ==
  ASSUME TypeOK, BeliefInv, NEW i \in Client, Listen(i)
  PROVE  BeliefInv'
<1>0. /\ ListenIs(i) /\ UNCHANGED <<clients, broken, spoilt>>
      /\ inbox[i] \in Seq(PacketSet)
  BY Listens DEF ListenIs, handlers, net, TypeOK
<1>1. /\ inbox[i] # <<>> /\ inbox'[i] = Tail(inbox[i])
      /\ view'[i] = Told(view[i], Head(inbox[i]))
      /\ \A k \in Client \ {i} : inbox'[k] = inbox[k] /\ view'[k] = view[k]
  BY <1>0 DEF ListenIs, TypeOK
<1> SUFFICES ASSUME NEW k \in Client \ spoilt', NEW j \in Client \ spoilt',
                    clients'[k] # None, clients'[k] \notin broken'
             PROVE  Believes(view'[k], inbox'[k], j) <=> clients'[j] # None
  BY DEF BeliefInv, Believes, Yes, Silent
<1>2. Believes(view[k], inbox[k], j) <=> clients[j] # None
  BY <1>0 DEF BeliefInv
<1>3. CASE k # i
  BY <1>0, <1>1, <1>2, <1>3
<1>4. CASE k = i
  <2> DEFINE q == inbox[i]
             v == view[i]
  <2>1. q \in Seq(PacketSet) /\ q # <<>> /\ inbox'[i] = Tail(q) /\ view'[i] = Told(v, Head(q))
    BY <1>0, <1>1
  <2> HIDE DEF q, v
  <2>2. Believes(Told(v, Head(q)), Tail(q), j) <=> Believes(v, q, j)
    BY <2>1, BelievesTail
  <2>3. Believes(view'[i], inbox'[i], j) <=> Believes(v, q, j)
    BY <2>1, <2>2
  <2> QED BY <1>0, <1>2, <1>4, <2>3 DEF q, v
<1> QED BY <1>3, <1>4

LEMMA BeliefStep ==
  ASSUME TypeOK, LinkInv, RegistryIsTrue, TokenInv, BeliefInv, [Next]_vars
  PROVE  BeliefInv'
<1>1. ASSUME NEW c \in Conn, HandleSocket(c) \/ HandleHello(c) PROVE BeliefInv'
  BY <1>1, SocketBelief, HelloBelief
<1>2. ASSUME NEW c \in Conn, HandleEnd(c) PROVE BeliefInv'
  <2>1. /\ StopHandler(c, Tail(tasks)) /\ UNCHANGED <<owner, broken, view>>
        /\ tasks # <<>> /\ c \in Accepted
    BY <1>2, NextTaskIs DEF HandleEnd, net
  <2>2. Tail(tasks) \in Seq(Tasks(Len(owner)))
    BY <2>1, TasksLess DEF LinkInv
  <2> QED BY <2>1, <2>2, StopBelief
<1>3. ASSUME StopNext PROVE BeliefInv'
  <2>1. UNCHANGED <<owner, broken, view>>
    BY <1>3 DEF StopNext, net
  <2>2. CASE UNCHANGED <<handlers, tasks, inbox, spoilt>>
    BY <2>1, <2>2, BeliefSame DEF handlers
  <2>3. ASSUME NEW c \in Registered, StopHandler(c, tasks) PROVE BeliefInv'
    <3>1. c \in Accepted /\ tasks \in Seq(Tasks(Len(owner)))
      BY RegisteredIs DEF LinkInv
    <3> QED BY <2>1, <2>3, <3>1, StopBelief
  <2> QED BY <1>3, <2>2, <2>3 DEF StopNext
<1>4. ASSUME NEW i \in Client, ReadEnd(i) PROVE BeliefInv'
  <2>1. /\ UNCHANGED <<clients, view, broken, spoilt>>
        /\ socket[i] \in broken \/ socket[i] \notin open
        /\ \A k \in Client \ {i} : inbox'[k] = inbox[k]
    BY <1>4 DEF ReadEnd, handlers, net, LinkInv, Boxes
  <2>2. clients[i] # None /\ clients[i] \notin broken => socket[i] = clients[i]
    BY DEF RegistryIsTrue, LinkInv
  <2>3. clients[i] # None => clients[i] \in open
    BY DEF RegistryIsTrue
  <2>4. \A k \in Client :
          clients[k] # None /\ clients[k] \notin broken => inbox'[k] = inbox[k]
    BY <2>1, <2>2, <2>3
  <2> QED BY <2>1, <2>4, BeliefSame
<1>5. ASSUME NEW i \in Client, Listen(i) PROVE BeliefInv'
  BY <1>5, ListenBelief
<1>6. ASSUME NEW i \in Client, Connect(i) PROVE BeliefInv'
  BY <1>6, BeliefSame DEF Connect
<1>7. ASSUME NEW c \in Conn, RefuseHello(c) \/ Receive(c) \/ Break(c) PROVE BeliefInv'
  <2>1. UNCHANGED <<clients, view, inbox, spoilt>> /\ broken \subseteq broken'
    BY <1>7 DEF RefuseHello, Receive, ReceiveHello, ReceiveEnd, Break, handlers, net, ends
  <2> QED BY <2>1, BeliefSame
<1>8. ASSUME Start \/ Stop \/ UNCHANGED vars PROVE BeliefInv'
  <2>1. UNCHANGED <<clients, view, inbox, spoilt, broken>>
    BY <1>8 DEF Start, Stop, vars, handlers, net, ends
  <2> QED BY <2>1, BeliefSame
<1> QED BY <1>1, <1>2, <1>3, <1>4, <1>5, <1>6, <1>7, <1>8 DEF Next, Serve
-----------------------------------------------------------------------------
\* The end of a connection is the last that a client is told of it.

LEMMA LeftSent ==
  ASSUME LeftInv, UNCHANGED <<socket, view>>,
         \A i \in Client : socket[i] = None => inbox'[i] = inbox[i]
  PROVE  LeftInv'
BY DEF LeftInv

LEMMA LeftStop ==
  ASSUME TypeOK, LinkInv, RegistryIsTrue, LeftInv, UNCHANGED <<socket, view>>,
         NEW c \in Accepted, NEW rest \in Seq(Tasks(Len(owner))),
         StopHandler(c, rest)
  PROVE  LeftInv'
<1>1. Informs(inbox, inbox')
  BY StopIs
<1> QED BY <1>1, LeftSent DEF Informs

LEMMA LeftSocket ==
  ASSUME TypeOK, LinkInv, TokenInv, LeftInv, NEW c \in Conn, HandleSocket(c)
  PROVE  LeftInv'
<1>1. /\ UNCHANGED <<socket, view>>
      /\ inbox' = Sent({c}, "challenge", {}, inbox)
  BY DEF HandleSocket
<1>2. c \in open
  <2>1. tasks # <<>> /\ c \in Accepted /\ Head(tasks) = Arrival(c)
    BY NextTaskIs DEF HandleSocket
  <2>2. Arrives(c)
    BY <2>1, Popped
  <2> QED BY <2>1, <2>2 DEF TokenInv, Ended
<1>3. c \notin broken => socket[owner[c]] = c /\ c # None
  BY <1>2 DEF LinkInv, Conn, None
<1>4. \A i \in Client : socket[i] = None => inbox'[i] = inbox[i]
  BY <1>1, <1>3 DEF Sent
<1> QED BY <1>1, <1>4, LeftSent

LEMMA LeftListen ==
  ASSUME TypeOK, LeftInv, NEW i \in Client, Listen(i)
  PROVE  LeftInv'
<1> DEFINE q == inbox[i]
           s == Tail(q)
           p == Head(q)
<1>1. /\ UNCHANGED socket /\ q \in Seq(PacketSet) /\ q # <<>>
      /\ inbox'[i] = s /\ view'[i] = Told(view[i], p)
      /\ \A k \in Client \ {i} : inbox'[k] = inbox[k] /\ view'[k] = view[k]
  BY Listens DEF ListenIs, TypeOK
<1>2. /\ Len(q) \in Nat \ {0} /\ s \in Seq(PacketSet) /\ Len(s) = Len(q) - 1
      /\ q[1] = p
      /\ \A k \in 1..Len(s) : s[k] = q[k+1]
  BY <1>1, TailIs
<1>3. s = <<>> <=> Len(s) = 0
  BY <1>2, EmptySeq
<1> HIDE DEF q, s, p
<1>4. socket[i] = None =>
        IF s = <<>> THEN p.type = "disconnect" ELSE s[Len(s)].type = "disconnect"
  <2> SUFFICES ASSUME socket[i] = None
               PROVE  IF s = <<>> THEN p.type = "disconnect"
                      ELSE s[Len(s)].type = "disconnect"
    OBVIOUS
  <2>1. q[Len(q)].type = "disconnect"
    BY <1>1 DEF LeftInv, q
  <2>2. CASE s = <<>>
    <3>1. Len(q) = 1
      BY <1>2, <1>3, <2>2
    <3> QED BY <1>2, <2>1, <2>2, <3>1
  <2>3. CASE s # <<>>
    <3>1. Len(s) \in 1..Len(s) /\ Len(s) + 1 = Len(q)
      BY <1>2, <1>3, <2>3
    <3>2. s[Len(s)] = q[Len(q)]
      BY <1>2, <3>1
    <3> QED BY <2>1, <2>3, <3>2
  <2> QED BY <2>2, <2>3
<1>5. p.type = "disconnect" => Told(view[i], p) = {}
  BY DEF Told
<1>6. socket'[i] = None => IF inbox'[i] = <<>> THEN view'[i] = {}
                           ELSE inbox'[i][Len(inbox'[i])].type = "disconnect"
  BY <1>1, <1>4, <1>5
<1> QED BY <1>1, <1>6 DEF LeftInv

LEMMA LeftEnd ==
  ASSUME TypeOK, LeftInv, NEW i \in Client, ReadEnd(i)
  PROVE  LeftInv'
<1>1. /\ UNCHANGED view /\ socket' = [socket EXCEPT ![i] = None]
      /\ \E k \in 0..Len(inbox[i]) :
           inbox' = [inbox EXCEPT ![i] =
                       Append(SubSeq(@, 1, k), Packet(socket[i], "disconnect", {}))]
  BY DEF ReadEnd
<1>2. PICK k \in 0..Len(inbox[i]) :
        inbox' = [inbox EXCEPT ![i] =
                    Append(SubSeq(@, 1, k), Packet(socket[i], "disconnect", {}))]
  BY <1>1
<1> DEFINE q == SubSeq(inbox[i], 1, k)
           p == Packet(socket[i], "disconnect", {})
<1>3. q \in Seq(PacketSet \cup {p}) /\ p \in PacketSet \cup {p}
  <2>1. inbox[i] \in Seq(PacketSet)
    BY DEF TypeOK
  <2>2. inbox[i] \in Seq(PacketSet \cup {p})
    BY <2>1, Wider
  <2> QED BY <2>2, HasPrefix
<1>4. p.type = "disconnect"
  BY DEF Packet
<1>5. /\ inbox'[i] = Append(q, p)
      /\ \A j \in Client \ {i} : inbox'[j] = inbox[j] /\ socket'[j] = socket[j]
  BY <1>1, <1>2 DEF TypeOK
<1> HIDE DEF q, p
<1>6. inbox'[i] # <<>> /\ inbox'[i][Len(inbox'[i])] = p
  <2> DEFINE s == Append(q, p)
  <2>1. Len(s) = Len(q) + 1 /\ Len(q) \in Nat /\ s[Len(q) + 1] = p /\ s \in Seq(PacketSet \cup {p})
    BY <1>3, AppendIs
  <2> HIDE DEF s
  <2>2. s # <<>> /\ s[Len(s)] = p
    BY <2>1, EmptySeq
  <2> QED BY <1>5, <2>2 DEF s
<1>7. \A j \in Client \ {i} : socket'[j] = None =>
        IF inbox'[j] = <<>> THEN view'[j] = {}
        ELSE inbox'[j][Len(inbox'[j])].type = "disconnect"
  BY <1>1, <1>5 DEF LeftInv
<1> QED BY <1>4, <1>6, <1>7 DEF LeftInv

LEMMA LeftStep ==
  ASSUME TypeOK, LinkInv, RegistryIsTrue, TokenInv, LeftInv, [Next]_vars
  PROVE  LeftInv'
<1>1. ASSUME NEW c \in Conn, HandleSocket(c) PROVE LeftInv'
  BY <1>1, LeftSocket
<1>2. ASSUME NEW c \in Conn, HandleHello(c) PROVE LeftInv'
  <2>1. c \in open /\ c \notin named
    BY <1>2, HelloOpen
  <2>2. Informs(inbox, inbox')
    BY <1>2, <2>1, HelloIs
  <2> QED BY <1>2, <2>2, LeftSent DEF Informs, HandleHello
<1>3. ASSUME NEW c \in Conn, HandleEnd(c) PROVE LeftInv'
  <2>1. /\ StopHandler(c, Tail(tasks)) /\ UNCHANGED <<socket, view>>
        /\ tasks # <<>> /\ c \in Accepted
    BY <1>3, NextTaskIs DEF HandleEnd
  <2>2. Tail(tasks) \in Seq(Tasks(Len(owner)))
    BY <2>1, TasksLess DEF LinkInv
  <2> QED BY <2>1, <2>2, LeftStop
<1>4. ASSUME StopNext PROVE LeftInv'
  <2>1. UNCHANGED <<socket, view>>
    BY <1>4 DEF StopNext
  <2>2. CASE UNCHANGED <<handlers, tasks, inbox, spoilt>>
    BY <2>1, <2>2, LeftSent
  <2>3. ASSUME NEW c \in Registered, StopHandler(c, tasks) PROVE LeftInv'
    <3>1. c \in Accepted /\ tasks \in Seq(Tasks(Len(owner)))
      BY RegisteredIs DEF LinkInv
    <3> QED BY <2>1, <2>3, <3>1, LeftStop
  <2> QED BY <1>4, <2>2, <2>3 DEF StopNext
<1>5. ASSUME NEW i \in Client, ReadEnd(i) PROVE LeftInv'
  BY <1>5, LeftEnd
<1>6. ASSUME NEW i \in Client, Listen(i) PROVE LeftInv'
  BY <1>6, LeftListen
<1>7. ASSUME NEW i \in Client, Connect(i) PROVE LeftInv'
  <2>1. /\ UNCHANGED <<view, inbox>> /\ socket' = [socket EXCEPT ![i] = Len(owner) + 1]
        /\ Len(owner) + 1 \in Conn
    BY <1>7 DEF Connect
  <2>2. socket'[i] # None /\ \A j \in Client \ {i} : socket'[j] = socket[j]
    BY <2>1 DEF TypeOK, Conn, None
  <2> QED BY <2>1, <2>2 DEF LeftInv
<1>8. ASSUME NEW c \in Conn, RefuseHello(c) \/ Receive(c) \/ Break(c) PROVE LeftInv'
  <2>1. UNCHANGED <<socket, view, inbox>>
    BY <1>8 DEF RefuseHello, Receive, ReceiveHello, ReceiveEnd, Break, handlers, net, ends
  <2> QED BY <2>1, LeftSent
<1>9. ASSUME Start \/ Stop \/ UNCHANGED vars PROVE LeftInv'
  <2>1. UNCHANGED <<socket, view, inbox>>
    BY <1>9 DEF Start, Stop, vars, handlers, net, ends
  <2> QED BY <2>1, LeftSent
<1> QED BY <1>1, <1>2, <1>3, <1>4, <1>5, <1>6, <1>7, <1>8, <1>9 DEF Next, Serve
-----------------------------------------------------------------------------
\* The invariant, and the theorems

IInv ==
  /\ TypeOK /\ LinkInv
  /\ RegistryIsTrue
  /\ TokenInv
  /\ LeftInv
  /\ BeliefInv

LEMMA InvInit == Init => IInv
<1> SUFFICES ASSUME Init PROVE IInv
  OBVIOUS
<1>1. /\ owner = <<>> /\ Len(owner) = 0 /\ Accepted = {} /\ tasks = <<>>
      /\ \A i \in Client : inbox[i] = <<>> /\ socket[i] = None /\ view[i] = {}
      /\ \A i \in Client : clients[i] = None
  BY EmptySeq DEF Init, Accepted
<1>2. Rest
  <2>1. owner \in Seq(Client) /\ Len(owner) <= MaxConns /\ stops \in 0..MaxStops
    BY <1>1, BoundsAssumption, EmptySeq DEF Init
  <2>2. upstream \in [Conn -> Seq(Conn)]
    BY EmptySeq DEF Init
  <2>3. /\ clients \in [Client -> Conn \cup {None}]
        /\ socket \in [Client -> Conn \cup {None}]
        /\ view \in [Client -> SUBSET Client]
    BY DEF Init
  <2> QED BY <2>1, <2>2, <2>3 DEF Init, Rest
<1>3. LinkInv
  BY <1>1, EmptySeq DEF Init, LinkInv, Boxes
<1>4. TypeOK
  BY <1>2, <1>3, TypeParts
<1>5. RegistryIsTrue
  BY <1>1 DEF Init, RegistryIsTrue
<1>6. TokenInv /\ LeftInv /\ BeliefInv
  BY <1>1 DEF TokenInv, LeftInv, BeliefInv
<1> QED BY <1>3, <1>4, <1>5, <1>6 DEF IInv

LEMMA InvStep == IInv /\ [Next]_vars => IInv'
<1> SUFFICES ASSUME IInv, [Next]_vars PROVE IInv'
  OBVIOUS
<1>1. TypeOK /\ LinkInv /\ RegistryIsTrue /\ TokenInv /\ LeftInv /\ BeliefInv
  BY DEF IInv
<1>2. Rest' /\ LinkInv'
  BY <1>1, LinkStep
<1>3. (Rest /\ LinkInv => TypeOK)'
  BY TypePartsNext
<1>4. RegistryIsTrue' /\ TokenInv' /\ LeftInv' /\ BeliefInv'
  BY <1>1, RegistryStep, TokenStep, LeftStep, BeliefStep
<1> QED BY <1>2, <1>3, <1>4 DEF IInv

LEMMA Invariance == Spec => []IInv
BY InvInit, InvStep, PTL DEF Spec

\* Whatever breaks, and whoever stops what in which order: a registered
\* connection is an open one of the instance it is registered for, and an
\* identified one is registered, unless an exception - of a send, of the
\* shutdown of a reset connection, of a second stop - has cut short a hello, a
\* join or a leave of that very instance (bus_server.py:74-80, 98-110, 134-162).
THEOREM Registry == Spec => []RegistryInv
<1>1. IInv => RegistryInv
  BY DEF IInv, RegistryInv
<1> QED BY <1>1, Invariance, PTL

LEMMA QuietAgrees == IInv => ViewsAgree
<1> SUFFICES ASSUME IInv, Quiet, NEW i \in Client \ spoilt,
                    NEW j \in Client \ spoilt
             PROVE  j \in view[i]
  BY DEF ViewsAgree
<1>1. TypeOK /\ LinkInv /\ RegistryIsTrue /\ TokenInv /\ BeliefInv
  BY DEF IInv
<1>2. ASSUME NEW k \in Client \ spoilt
      PROVE  clients[k] # None /\ clients[k] \notin broken
  <2> DEFINE c == socket[k]
  <2>1. /\ c \in open /\ c \notin broken /\ c \in Accepted /\ c # None /\ owner[c] = k
    BY <1>1 DEF Quiet, LinkInv, TypeOK, Conn, None
  <2>2. ~Arrives(c) /\ ~Knocks(c) /\ ~Challenged(c) /\ ~Answers(c)
    <3>1. c \in Conn
      BY <1>1, <2>1 DEF TypeOK
    <3>2. tasks = <<>> /\ inbox[owner[c]] = <<>> /\ upstream[c] = <<>>
      BY <2>1, <3>1 DEF Quiet
    <3> HIDE DEF c
    <3> QED BY <3>2, EmptySeq DEF Arrives, Knocks, Challenged, Answers, Has
  <2> HIDE DEF c
  <2>3. c \in named
    BY <1>1, <2>1, <2>2 DEF TokenInv, Awaited
  <2>4. clients[owner[c]] = c
    BY <1>1, <2>1, <2>3, RegisteredIs DEF RegistryIsTrue
  <2> QED BY <2>1, <2>4
<1>3. inbox[i] = <<>>
  BY DEF Quiet
<1>4. Believes(view[i], inbox[i], j)
  BY <1>1, <1>2 DEF BeliefInv
<1>5. Believes(view[i], <<>>, j)
  BY <1>3, <1>4
<1> QED BY <1>5, EmptySeq DEF Believes

\* Once all is quiet, any two instances have been told of each other, unless an
\* exception has cut short a hello, a join or a leave of one of the two; one
\* that is not connected believes in nobody, whatever was lost
\* (bus_server.py:98-105, 149-162, bus_client.py:54-63).
THEOREM BusViews == Spec => []ViewsAreTrue
<1>1. IInv => NoGhosts
  BY DEF IInv, LeftInv, NoGhosts
<1>2. IInv => ViewsAreTrue
  BY <1>1, QuietAgrees DEF ViewsAreTrue
<1> QED BY <1>2, Invariance, PTL
=============================================================================
