---------------------------- MODULE RemoteProofs ----------------------------
(***************************************************************************)
(* Proofs about Remote, for every bound on times and moves, and for every  *)
(* number of packets under way: what two instances believe of each other   *)
(* is true, and among calm users they are locked together.                 *)
(*                                                                         *)
(* The arguments are about what is still under way.  Who has not been told *)
(* the latest idle_since has the packet that tells it in its queue, or the *)
(* other has one in its own that makes it tell; a session that must go has *)
(* its end in the queue, with no message behind it; and while the locks    *)
(* differ, what will make them agree is under way, and nothing else is.    *)
(***************************************************************************)
EXTENDS Remote, SequenceTheorems, FiniteSetTheorems, TLAPS

Greeting == {"welcome", "join"}
Report == {"idle_since"}
Locking == {"lock", "unlock"}
Ending == {"leave", "disconnect"}

Packets ==
  [type : Greeting \cup Report \cup Locking \cup Ending, time : Time]

Queues == queue \in [Node -> Seq(Packets)]

Carries(q, T) == \E i \in 1..Len(q) : q[i].type \in T

\* No message comes after the last end of a session.
Ended(q) ==
  \A i \in 1..Len(q) :
    q[i].type \in Report \cup Locking =>
      \E j \in i+1..Len(q) : q[j].type \in Ending

\* The last report is of t, and the session lives on.
Latest(q, t) ==
  \E i \in 1..Len(q) :
    /\ q[i] = Idle(t)
    /\ \A j \in i+1..Len(q) : q[j].type \notin Report \cup Ending

\* All reports are of times in S.
Reports(q, S) ==
  \A i \in 1..Len(q) : q[i].type \in Report => q[i].time \in S
-----------------------------------------------------------------------------
\* What is true of a queue, when packets are sent and when one is handled

LEMMA CarriesMore ==
  ASSUME NEW q \in Seq(Packets), NEW r \in Seq(Packets), NEW T
  PROVE  Carries(q \o r, T) <=> Carries(q, T) \/ Carries(r, T)
<1> DEFINE s == q \o r
<1>2. Len(q) \in Nat /\ Len(r) \in Nat
  BY LenProperties
<1>0. /\ Len(s) = Len(q) + Len(r)
      /\ \A i \in 1..Len(s) : s[i] = IF i <= Len(q) THEN q[i] ELSE r[i - Len(q)]
  BY ConcatProperties
<1>1. /\ Len(s) = Len(q) + Len(r)
      /\ \A i \in 1..Len(q) : s[i] = q[i]
      /\ \A i \in 1..Len(r) : s[Len(q) + i] = r[i]
      /\ \A i \in 1..Len(s) :
           \/ i \in 1..Len(q)
           \/ i - Len(q) \in 1..Len(r) /\ s[i] = r[i - Len(q)]
  BY <1>0, <1>2
<1> HIDE DEF s
<1>3. Carries(s, T) => Carries(q, T) \/ Carries(r, T)
  BY <1>1 DEF Carries
<1>4. Carries(q, T) => Carries(s, T)
  BY <1>1, <1>2 DEF Carries
<1>5. ASSUME NEW i \in 1..Len(r), r[i].type \in T PROVE Carries(s, T)
  <2>1. Len(q) + i \in 1..Len(s) /\ s[Len(q) + i] = r[i]
    BY <1>1, <1>2
  <2> QED BY <2>1, <1>5 DEF Carries
<1> QED BY <1>3, <1>4, <1>5 DEF Carries, s

LEMMA CarriesOne ==
  ASSUME NEW p \in Packets, NEW T
  PROVE  <<p>> \in Seq(Packets) /\ (Carries(<<p>>, T) <=> p.type \in T)
BY DEF Carries

LEMMA CarriesLast ==
  ASSUME NEW q \in Seq(Packets), NEW p \in Packets, NEW T
  PROVE  Carries(Append(q, p), T) <=> Carries(q, T) \/ p.type \in T
<1>1. Append(q, p) = q \o <<p>>
  BY AppendIsConcat
<1>2. Carries(q \o <<p>>, T) <=> Carries(q, T) \/ Carries(<<p>>, T)
  BY CarriesOne, CarriesMore
<1> QED BY <1>1, <1>2, CarriesOne

LEMMA CarriesNone ==
  ASSUME NEW T
  PROVE  <<>> \in Seq(Packets) /\ ~Carries(<<>>, T)
BY DEF Carries

LEMMA CarriesFirst ==
  ASSUME NEW q \in Seq(Packets), q # <<>>, NEW T
  PROVE  /\ Head(q) \in Packets /\ Tail(q) \in Seq(Packets)
         /\ Carries(q, T) <=> Head(q).type \in T \/ Carries(Tail(q), T)
<1>1. /\ Head(q) \in Packets /\ Tail(q) \in Seq(Packets)
      /\ Head(q) = q[1] /\ Len(q) \in Nat \ {0} /\ Len(Tail(q)) = Len(q) - 1
      /\ \A i \in 1..Len(Tail(q)) : Tail(q)[i] = q[i+1]
  BY HeadTailProperties, EmptySeq
<1>2. \A i \in 1..Len(q) :
        i = 1 \/ (i - 1 \in 1..Len(Tail(q)) /\ q[i] = Tail(q)[i - 1])
  BY <1>1
<1>3. Carries(q, T) => Head(q).type \in T \/ Carries(Tail(q), T)
  BY <1>1, <1>2 DEF Carries
<1>4. Head(q).type \in T => Carries(q, T)
  BY <1>1 DEF Carries
<1>5. ASSUME NEW i \in 1..Len(Tail(q)), Tail(q)[i].type \in T
      PROVE  Carries(q, T)
  <2>1. i + 1 \in 1..Len(q) /\ q[i+1].type \in T
    BY <1>1, <1>5
  <2> QED BY <2>1 DEF Carries
<1> QED BY <1>1, <1>3, <1>4, <1>5 DEF Carries

LEMMA ReportsMore ==
  ASSUME NEW q \in Seq(Packets), NEW r \in Seq(Packets), NEW S,
         Reports(q, S), Reports(r, S)
  PROVE  Reports(q \o r, S)
<1> SUFFICES ASSUME NEW i \in 1..Len(q \o r), (q \o r)[i].type \in Report
             PROVE  (q \o r)[i].time \in S
  BY DEF Reports
<1>1. /\ Len(q) \in Nat /\ Len(r) \in Nat
      /\ Len(q \o r) = Len(q) + Len(r)
      /\ (q \o r)[i] = IF i <= Len(q) THEN q[i] ELSE r[i - Len(q)]
  BY ConcatProperties, LenProperties
<1>2. CASE i <= Len(q)
  BY <1>1, <1>2 DEF Reports
<1>3. CASE i > Len(q)
  <2>1. i - Len(q) \in 1..Len(r) /\ (q \o r)[i] = r[i - Len(q)]
    BY <1>1, <1>3
  <2> QED BY <2>1 DEF Reports
<1> QED BY <1>1, <1>2, <1>3

LEMMA ReportsLess ==
  ASSUME NEW q \in Seq(Packets), NEW S, Reports(q, S)
  PROVE  /\ q # <<>> => Reports(Tail(q), S)
         /\ \A k \in 0..Len(q) : Reports(SubSeq(q, 1, k), S)
<1>1. ASSUME q # <<>> PROVE Reports(Tail(q), S)
  <2>1. /\ Len(q) \in Nat /\ Len(Tail(q)) = Len(q) - 1
        /\ \A i \in 1..Len(Tail(q)) : Tail(q)[i] = q[i+1]
    BY <1>1, HeadTailProperties, LenProperties
  <2>2. \A i \in 1..Len(Tail(q)) : i + 1 \in 1..Len(q)
    BY <2>1
  <2> QED BY <2>1, <2>2 DEF Reports
<1>2. ASSUME NEW k \in 0..Len(q) PROVE Reports(SubSeq(q, 1, k), S)
  <2>1. /\ Len(q) \in Nat
        /\ \A i \in 1..k : q[i] \in Packets
    BY ElementOfSeq, LenProperties
  <2>2. /\ Len(SubSeq(q, 1, k)) = k
        /\ \A i \in 1..k : SubSeq(q, 1, k)[i] = q[i]
    BY <2>1, SubSeqProperties
  <2> QED BY <2>1, <2>2 DEF Reports
<1> QED BY <1>1, <1>2

LEMMA EndedLast ==
  ASSUME NEW q \in Seq(Packets), NEW p \in Packets,
         p.type \in Ending \/ (Ended(q) /\ p.type \in Greeting)
  PROVE  Ended(Append(q, p))
<1> DEFINE s == Append(q, p)
<1>1. /\ Len(s) = Len(q) + 1 /\ s[Len(q) + 1] = p
      /\ \A i \in 1..Len(q) : s[i] = q[i]
  BY AppendProperties
<1>2. Len(q) \in Nat
  BY LenProperties
<1> HIDE DEF s
<1> SUFFICES ASSUME NEW i \in 1..Len(s), s[i].type \in Report \cup Locking
             PROVE  \E j \in i+1..Len(s) : s[j].type \in Ending
  BY DEF Ended, s
<1>3. i \in 1..Len(q)
  BY <1>1, <1>2 DEF Report, Locking, Ending, Greeting
<1>4. CASE p.type \in Ending
  BY <1>1, <1>2, <1>3, <1>4
<1>5. CASE Ended(q)
  <2>1. PICK j \in i+1..Len(q) : q[j].type \in Ending
    BY <1>1, <1>3, <1>5 DEF Ended
  <2> QED BY <1>1, <1>2, <1>3, <2>1
<1> QED BY <1>4, <1>5

LEMMA EndedTail ==
  ASSUME NEW q \in Seq(Packets), q # <<>>, Ended(q)
  PROVE  Ended(Tail(q))
<1>1. /\ Len(q) \in Nat \ {0} /\ Len(Tail(q)) = Len(q) - 1
      /\ \A i \in 1..Len(Tail(q)) : Tail(q)[i] = q[i+1]
  BY HeadTailProperties, EmptySeq
<1> SUFFICES ASSUME NEW i \in 1..Len(Tail(q)),
                    Tail(q)[i].type \in Report \cup Locking
             PROVE  \E j \in i+1..Len(Tail(q)) : Tail(q)[j].type \in Ending
  BY DEF Ended
<1>2. PICK j \in i+2..Len(q) : q[j].type \in Ending
  BY <1>1 DEF Ended
<1>3. j - 1 \in i+1..Len(Tail(q)) /\ Tail(q)[j - 1] = q[j]
  BY <1>1
<1> QED BY <1>2, <1>3

LEMMA EndedFirst ==
  ASSUME NEW q \in Seq(Packets), q # <<>>, Ended(q),
         Head(q).type \in Report \cup Locking
  PROVE  Carries(Tail(q), Ending)
<1>1. /\ Len(q) \in Nat \ {0} /\ Len(Tail(q)) = Len(q) - 1 /\ Head(q) = q[1]
      /\ \A i \in 1..Len(Tail(q)) : Tail(q)[i] = q[i+1]
  BY HeadTailProperties, EmptySeq
<1>2. PICK j \in 2..Len(q) : q[j].type \in Ending
  BY <1>1 DEF Ended
<1>3. j - 1 \in 1..Len(Tail(q)) /\ Tail(q)[j - 1] = q[j]
  BY <1>1
<1> QED BY <1>2, <1>3 DEF Carries

LEMMA LatestMore ==
  ASSUME NEW q \in Seq(Packets), NEW r \in Seq(Packets), NEW t,
         \/ Latest(r, t)
         \/ Latest(q, t) /\ ~Carries(r, Report \cup Ending)
  PROVE  Latest(q \o r, t)
<1> DEFINE s == q \o r
<1>1. Len(q) \in Nat /\ Len(r) \in Nat
  BY LenProperties
<1>2. /\ Len(s) = Len(q) + Len(r)
      /\ \A i \in 1..Len(s) : s[i] = IF i <= Len(q) THEN q[i] ELSE r[i - Len(q)]
  BY ConcatProperties
<1> HIDE DEF s
<1>3. CASE Latest(r, t)
  <2>1. PICK i \in 1..Len(r) :
          /\ r[i] = Idle(t)
          /\ \A j \in i+1..Len(r) : r[j].type \notin Report \cup Ending
    BY <1>3 DEF Latest
  <2>2. Len(q) + i \in 1..Len(s) /\ s[Len(q) + i] = Idle(t)
    BY <1>1, <1>2, <2>1
  <2>3. ASSUME NEW j \in Len(q) + i + 1..Len(s)
        PROVE  s[j].type \notin Report \cup Ending
    <3>1. s[j] = r[j - Len(q)] /\ j - Len(q) \in i+1..Len(r)
      BY <1>1, <1>2
    <3> QED BY <2>1, <3>1
  <2> QED BY <2>2, <2>3 DEF Latest, s
<1>4. CASE Latest(q, t) /\ ~Carries(r, Report \cup Ending)
  <2>1. PICK i \in 1..Len(q) :
          /\ q[i] = Idle(t)
          /\ \A j \in i+1..Len(q) : q[j].type \notin Report \cup Ending
    BY <1>4 DEF Latest
  <2>2. i \in 1..Len(s) /\ s[i] = Idle(t)
    BY <1>1, <1>2, <2>1
  <2>3. ASSUME NEW j \in i+1..Len(s)
        PROVE  s[j].type \notin Report \cup Ending
    <3>1. CASE j <= Len(q)
      BY <1>1, <1>2, <2>1, <3>1
    <3>2. CASE j > Len(q)
      <4>1. s[j] = r[j - Len(q)] /\ j - Len(q) \in 1..Len(r)
        BY <1>1, <1>2, <3>2
      <4> QED BY <1>4, <4>1 DEF Carries
    <3> QED BY <1>1, <3>1, <3>2
  <2> QED BY <2>2, <2>3 DEF Latest, s
<1> QED BY <1>3, <1>4

LEMMA LatestFirst ==
  ASSUME NEW q \in Seq(Packets), q # <<>>, NEW t, Latest(q, t)
  PROVE  \/ Latest(Tail(q), t)
         \/ Head(q) = Idle(t) /\ ~Carries(Tail(q), Report \cup Ending)
<1>1. /\ Len(q) \in Nat \ {0} /\ Len(Tail(q)) = Len(q) - 1 /\ Head(q) = q[1]
      /\ \A i \in 1..Len(Tail(q)) : Tail(q)[i] = q[i+1]
  BY HeadTailProperties, EmptySeq
<1>2. PICK i \in 1..Len(q) :
        /\ q[i] = Idle(t)
        /\ \A j \in i+1..Len(q) : q[j].type \notin Report \cup Ending
  BY DEF Latest
<1>3. CASE i = 1
  BY <1>1, <1>2, <1>3 DEF Carries
<1>4. CASE i # 1
  <2>1. i - 1 \in 1..Len(Tail(q)) /\ Tail(q)[i - 1] = Idle(t)
    BY <1>1, <1>2, <1>4
  <2>2. ASSUME NEW j \in i..Len(Tail(q))
        PROVE  Tail(q)[j].type \notin Report \cup Ending
    <3>1. Tail(q)[j] = q[j+1] /\ j + 1 \in i+1..Len(q)
      BY <1>1, <1>2
    <3> QED BY <1>2, <3>1
  <2>3. i - 1 + 1 = i
    BY <1>2
  <2> QED BY <2>1, <2>2, <2>3 DEF Latest
<1> QED BY <1>3, <1>4
-----------------------------------------------------------------------------
\* The two instances

LEMMA TwoNodes ==
  /\ \A n \in Node : Other(n) \in Node /\ Other(n) # n /\ Other(Other(n)) = n
  /\ \A m, n \in Node : m = n \/ m = Other(n)
<1> SUFFICES ASSUME NEW n \in Node
             PROVE  /\ Other(n) \in Node /\ Other(n) # n /\ Other(Other(n)) = n
                    /\ \A m \in Node : m = n \/ m = Other(n)
  OBVIOUS
<1>1. IsFiniteSet(Node \ {n}) /\ Cardinality(Node \ {n}) = 1
  BY NodeAssumption, FS_RemoveElement
<1>2. PICK o : Node \ {n} = {o}
  BY <1>1, FS_Singleton
<1>3. o \in Node /\ o # n /\ \A m \in Node : m = n \/ m = o
  BY <1>2
<1>4. Other(n) = o
  BY <1>3 DEF Other
<1>5. Other(o) = n
  BY <1>3 DEF Other
<1> QED BY <1>3, <1>4, <1>5

LEMMA MaxOfTwo ==
  ASSUME NEW s \in Int, NEW t \in Int
  PROVE  Max({s, t}) = IF s >= t THEN s ELSE t
<1>1. CASE s >= t
  <2> SUFFICES ASSUME NEW m \in {s, t}, \A x \in {s, t} : m >= x PROVE m = s
    BY <1>1 DEF Max
  <2> QED BY <1>1
<1>2. CASE ~(s >= t)
  <2> SUFFICES ASSUME NEW m \in {s, t}, \A x \in {s, t} : m >= x PROVE m = t
    BY <1>2 DEF Max
  <2> QED BY <1>2
<1> QED BY <1>1, <1>2
-----------------------------------------------------------------------------
\* The inductive invariant

\* An instance that has left, or is left, has no session, or the end of it is
\* in the queue behind every message.
GhostInv ==
  ~Connected =>
    \A n \in Node :
      Ended(queue[n]) /\ (attached[n] => Carries(queue[n], Ending))

\* An instance knows what the other sent last, or it is in the queue, or the
\* other is about to be told to send it again.
Knows(n) ==
  \/ Carries(queue[Other(n)], Greeting)
  \/ Latest(queue[n], sent[Other(n)])
  \/ /\ attached[n] /\ view[n] = sent[Other(n)]
     /\ ~Carries(queue[n], Report \cup Ending)

ViewInv == Connected => \A n \in Node : Other(n) \notin unheard => Knows(n)

\* Nobody believes in an input that is later than all there were, or in use
\* where there was none.
Past ==
  {t \in Time \cup {Unset} :
     IF t = Inf THEN used ELSE \E m \in Node : t <= input[m]}

PastInv ==
  \A n \in Node :
    /\ use[n] # "idle" => used
    /\ sent[n] \in Past /\ view[n] \in Past
    /\ Reports(queue[n], Past)

\* What will make an instance lock, or unlock, is under way.
LockType(v) == IF v THEN "lock" ELSE "unlock"

WillLearn(n, v) ==
  \/ Carries(queue[n], {LockType(v)})
  \/ /\ locked[Other(n)] = v
     /\ told[Other(n)] # v \/ (v /\ Carries(queue[Other(n)], Greeting))

\* All will be locked, or all will be unlocked.
Agreed(v) ==
  \A n \in Node :
    /\ ~Carries(queue[n], {LockType(~v)})
    /\ locked[n] # v =>
         /\ told[n] = locked[n]
         /\ v \/ ~Carries(queue[n], Greeting)
         /\ WillLearn(n, v)

LockInv ==
  calm /\ unheard = {} =>
    IF Connected THEN \E v \in BOOLEAN : Agreed(v)
    ELSE \A n \in Node : ~Carries(queue[n], Locking)

TypeInv ==
  /\ TypeOK /\ Queues
  /\ \A n \in Node : dead[n] => n \in unheard

IInv == TypeInv /\ GhostInv /\ ViewInv /\ PastInv /\ LockInv
-----------------------------------------------------------------------------
\* What is sent

LEMMA TimeType ==
  /\ Inf \in Time /\ NegInf \in Time /\ 0 \in Time /\ Time \subseteq Int
  /\ Unset \in Int /\ Unset \notin Time /\ NegInf < 0 /\ Unset < 0
  /\ 0..MaxInput \subseteq Time \ {Inf}
BY BoundsAssumption DEF Time, Inf, NegInf, Unset

LEMMA LocalIs ==
  ASSUME TypeInv, NEW n \in Node
  PROVE  /\ Local(n) \in Time \cup {Unset} /\ input[n] \in 0..MaxInput
         /\ \/ use[n] = "idle" /\ Local(n) = input[n]
            \/ use[n] = "busy" /\ Local(n) = Inf
            \/ use[n] = "none" /\ Local(n) = Unset
<1>1. use[n] \in Uses /\ input[n] \in 0..MaxInput
  BY DEF TypeInv, TypeOK
<1>2. CASE use[n] = "idle"
  BY <1>1, <1>2, TimeType DEF Local
<1>3. CASE use[n] = "busy"
  BY <1>1, <1>3, TimeType DEF Local
<1>4. CASE use[n] = "none"
  BY <1>1, <1>4, TimeType DEF Local
<1> QED BY <1>1, <1>2, <1>3, <1>4 DEF Uses

\* get_idle_since() is the later one of the local time and of that of the
\* remote session, where there is either, but before a sleep.
LEMMA IdleSinceIs ==
  ASSUME TypeInv, NEW n \in Node
  PROVE  /\ IdleSince(n) \in Time
         /\ ~sleeping[n] => IdleSince(n) >= Local(n)
         /\ ~sleeping[n] /\ attached[n] /\ view[n] # Unset =>
              IdleSince(n) >= view[n]
         /\ \/ IdleSince(n) = NegInf
            \/ IdleSince(n) = Local(n) /\ use[n] # "none"
            \/ IdleSince(n) = view[n]
            \/ IdleSince(n) = Inf /\ use[n] = "none"
<1>1. /\ Local(n) \in Time \cup {Unset} /\ view[n] \in Time \cup {Unset}
      /\ Local(n) # Unset => use[n] # "none"
      /\ Local(n) = Unset => use[n] = "none"
  BY LocalIs, TimeType DEF TypeInv, TypeOK
<1>2. CASE sleeping[n]
  <2>1. IdleSince(n) = NegInf
    BY <1>2 DEF IdleSince
  <2> QED BY <1>2, <2>1, TimeType
<1>3. CASE ~sleeping[n] /\ Local(n) = Unset /\ ~(attached[n] /\ view[n] # Unset)
  <2>1. IdleTimes(n) = {}
    BY <1>3 DEF IdleTimes
  <2>2. IdleSince(n) = Inf
    BY <1>3, <2>1 DEF IdleSince
  <2>3. Inf >= Unset
    BY BoundsAssumption DEF Inf, Unset
  <2> QED BY <1>1, <1>3, <2>2, <2>3, TimeType
<1>4. ASSUME ~sleeping[n], NEW x \in Time, NEW y \in Time, IdleTimes(n) = {x, y}
      PROVE  IdleSince(n) = IF x >= y THEN x ELSE y
  <2>1. x \in Int /\ y \in Int
    BY TimeType
  <2>2. IdleSince(n) = Max({x, y})
    BY <1>4 DEF IdleSince
  <2> QED BY <2>1, <2>2, MaxOfTwo
<1>5. CASE ~sleeping[n] /\ Local(n) # Unset /\ ~(attached[n] /\ view[n] # Unset)
  <2>1. Local(n) \in Time /\ IdleTimes(n) = {Local(n), Local(n)}
    BY <1>1, <1>5 DEF IdleTimes
  <2>2. IdleSince(n) = Local(n)
    BY <1>4, <1>5, <2>1
  <2>3. Local(n) >= Local(n)
    <3>1. Local(n) \in Int
      BY <2>1, TimeType
    <3> QED BY <3>1
  <2>4. use[n] # "none"
    BY <1>1, <1>5
  <2>5. IdleSince(n) \in Time /\ IdleSince(n) >= Local(n)
    BY <2>1, <2>2, <2>3
  <2> QED BY <1>5, <2>2, <2>4, <2>5, Zenon
<1>6. CASE ~sleeping[n] /\ Local(n) = Unset /\ attached[n] /\ view[n] # Unset
  <2>1. view[n] \in Time /\ IdleTimes(n) = {view[n], view[n]}
    BY <1>1, <1>6 DEF IdleTimes
  <2>2. IdleSince(n) = view[n]
    BY <1>4, <1>6, <2>1
  <2>3. view[n] >= Unset /\ view[n] >= view[n]
    BY <2>1 DEF Time, NegInf, Unset
  <2> QED BY <1>1, <1>6, <2>1, <2>2, <2>3
<1>7. CASE ~sleeping[n] /\ Local(n) # Unset /\ attached[n] /\ view[n] # Unset
  <2>1. /\ Local(n) \in Time /\ view[n] \in Time
        /\ IdleTimes(n) = {Local(n), view[n]}
    BY <1>1, <1>7 DEF IdleTimes
  <2>2. IdleSince(n) = IF Local(n) >= view[n] THEN Local(n) ELSE view[n]
    BY <1>4, <1>7, <2>1
  <2>3. /\ IdleSince(n) >= Local(n) /\ IdleSince(n) >= view[n]
        /\ IdleSince(n) = Local(n) \/ IdleSince(n) = view[n]
    <3>1. Local(n) \in Int /\ view[n] \in Int
      BY <2>1, TimeType
    <3> QED BY <2>2, <3>1
  <2>4. IdleSince(n) \in Time
    BY <2>1, <2>3
  <2>5. use[n] # "none"
    BY <1>1, <1>7
  <2> QED BY <2>3, <2>4, <2>5
<1> QED BY <1>2, <1>3, <1>5, <1>6, <1>7

\* update() reports the idle time when it must, and only then; and the lock
\* when it must, and never another one.
LEMMA MessagesAre ==
  ASSUME TypeInv, NEW n \in Node, NEW force \in BOOLEAN
  PROVE  LET M == Messages(n, force) IN
         /\ M \in Seq(Packets)
         /\ ~Carries(M, Greeting \cup Ending)
         /\ \/ Latest(M, IdleSince(n))
            \/ ~Carries(M, Report) /\ ~force /\ sent[n] = IdleSince(n)
         /\ \A i \in 1..Len(M) :
              M[i].type \in Report => M[i].time = IdleSince(n)
         /\ \A v \in BOOLEAN :
              Carries(M, {LockType(v)}) <=>
                /\ locked[n] = v
                /\ (force /\ v) \/ told[n] # v
         /\ M = <<>> => told[n] = locked[n] /\ sent[n] = IdleSince(n)
<1> DEFINE R == IF force \/ sent[n] # IdleSince(n) THEN <<Idle(IdleSince(n))>>
                ELSE <<>>
           L == LockUpdate(n, force)
<1>1. IdleSince(n) \in Time
  BY IdleSinceIs
<1>2. Idle(IdleSince(n)) \in Packets
  BY <1>1 DEF Packets, Idle, Report
<1>3. LockNote(locked[n]) \in Packets /\ LockNote(locked[n]).type = LockType(locked[n])
  BY TimeType DEF Packets, LockNote, Note, Locking, LockType
<1>4. /\ R \in Seq(Packets)
      /\ \/ R = <<Idle(IdleSince(n))>>
         \/ R = <<>> /\ ~force /\ sent[n] = IdleSince(n)
  BY <1>2
<1>5. /\ L \in Seq(Packets)
      /\ L = <<LockNote(locked[n])>> \/ L = <<>>
      /\ L # <<>> <=> (force /\ locked[n]) \/ told[n] # locked[n]
  BY <1>3 DEF LockUpdate
<1>6. Messages(n, force) = R \o L
  BY DEF Messages
<1> HIDE DEF R, L
<1>7. Messages(n, force) \in Seq(Packets)
  BY <1>4, <1>5, <1>6, ConcatProperties
<1>8. ASSUME NEW T
      PROVE  Carries(Messages(n, force), T) <=>
               \/ R # <<>> /\ "idle_since" \in T
               \/ L # <<>> /\ LockType(locked[n]) \in T
  <2>1. Carries(Messages(n, force), T) <=> Carries(R, T) \/ Carries(L, T)
    BY <1>4, <1>5, <1>6, CarriesMore
  <2>2. Carries(R, T) <=> R # <<>> /\ "idle_since" \in T
    BY <1>2, <1>4, CarriesOne, CarriesNone DEF Idle
  <2>3. Carries(L, T) <=> L # <<>> /\ LockType(locked[n]) \in T
    BY <1>3, <1>5, CarriesOne, CarriesNone
  <2> QED BY <2>1, <2>2, <2>3
<1>9. LockType(locked[n]) \in Locking
  BY DEF LockType, Locking
<1>10. ~Carries(Messages(n, force), Greeting \cup Ending)
  <2>1. /\ "idle_since" \notin Greeting \cup Ending
        /\ LockType(locked[n]) \notin Greeting \cup Ending
    BY <1>9 DEF Greeting, Ending, Locking
  <2> QED BY <1>8, <2>1
<1>11. \/ Latest(Messages(n, force), IdleSince(n))
       \/ ~Carries(Messages(n, force), Report) /\ ~force /\ sent[n] = IdleSince(n)
  <2>1. CASE R = <<Idle(IdleSince(n))>>
    <3>1. Latest(R, IdleSince(n))
      BY <2>1 DEF Latest
    <3>2. ~Carries(L, Report \cup Ending)
      <4>1. LockType(locked[n]) \notin Report \cup Ending
        BY <1>9 DEF Report, Ending, Locking
      <4> QED BY <1>3, <1>5, <4>1, CarriesOne, CarriesNone
    <3> QED BY <1>4, <1>5, <1>6, <3>1, <3>2, LatestMore
  <2>2. CASE R = <<>> /\ ~force /\ sent[n] = IdleSince(n)
    <3>1. ~Carries(Messages(n, force), Report)
      <4>1. LockType(locked[n]) \notin Report
        BY <1>9 DEF Report, Locking
      <4> QED BY <1>8, <2>2, <4>1
    <3> QED BY <2>2, <3>1
  <2> QED BY <1>4, <2>1, <2>2
<1>12. ASSUME NEW i \in 1..Len(Messages(n, force)),
              Messages(n, force)[i].type \in Report
       PROVE  Messages(n, force)[i].time = IdleSince(n)
  <2>1. (R \o L)[i] = IF i <= Len(R) THEN R[i] ELSE L[i - Len(R)]
    BY <1>4, <1>5, <1>6, ConcatProperties
  <2>2. Len(R \o L) = Len(R) + Len(L) /\ Len(R) \in Nat /\ Len(L) \in Nat
    BY <1>4, <1>5, ConcatProperties, LenProperties
  <2>3. ASSUME i <= Len(R) PROVE R[i] = Idle(IdleSince(n))
    BY <1>4, <1>6, <2>2, <2>3
  <2>4. ASSUME i > Len(R)
        PROVE  L[i - Len(R)].type = LockType(locked[n])
    BY <1>3, <1>5, <1>6, <2>2, <2>4
  <2> QED BY <1>6, <1>9, <1>12, <2>1, <2>2, <2>3, <2>4 DEF Report, Locking, Idle
<1>13. ASSUME NEW v \in BOOLEAN
       PROVE  Carries(Messages(n, force), {LockType(v)}) <=>
                locked[n] = v /\ ((force /\ v) \/ told[n] # v)
  <2>1. Carries(Messages(n, force), {LockType(v)}) <=>
          L # <<>> /\ LockType(locked[n]) = LockType(v)
    <3>1. "idle_since" \notin {LockType(v)}
      BY DEF LockType
    <3> QED BY <1>8, <3>1
  <2>2. LockType(locked[n]) = LockType(v) <=> locked[n] = v
    BY DEF LockType, TypeInv, TypeOK
  <2> QED BY <1>5, <2>1, <2>2
<1>14. Messages(n, force) = <<>> => told[n] = locked[n] /\ sent[n] = IdleSince(n)
  <2> SUFFICES ASSUME Messages(n, force) = <<>>
               PROVE  R = <<>> /\ L = <<>>
    BY <1>4, <1>5
  <2> QED BY <1>4, <1>5, <1>6, ConcatEqualIffEmpty
<1> QED BY <1>7, <1>10, <1>11, <1>12, <1>13, <1>14

\* update() handles the packet that forced it, and sends to the other.
LEMMA UpdateIs ==
  ASSUME TypeInv, NEW n \in Node, NEW force \in BOOLEAN, Update(n, force),
         force => queue[n] # <<>>
  PROVE  /\ Queues'
         /\ queue'[n] = IF force THEN Tail(queue[n]) ELSE queue[n]
         /\ queue'[Other(n)] =
              IF Connected THEN queue[Other(n)] \o Messages(n, force)
              ELSE queue[Other(n)]
         /\ sent' = [sent EXCEPT ![n] = IdleSince(n)]
         /\ told' = [told EXCEPT ![n] = locked[n]]
<1> DEFINE o == Other(n)
           M == Messages(n, force)
<1>1. o \in Node /\ o # n /\ \A m \in Node : m = n \/ m = o
  BY TwoNodes
<1>2. queue \in [Node -> Seq(Packets)] /\ M \in Seq(Packets)
  BY MessagesAre DEF TypeInv, Queues
<1>3. Relayed(n, M) = IF Connected THEN M ELSE <<>>
  BY <1>1 DEF Relayed, Connected
<1>4. queue' = [m \in Node |->
        IF m = n THEN IF force THEN Tail(queue[n]) ELSE queue[n]
        ELSE queue[m] \o Relayed(n, M)]
  BY DEF Update
<1> HIDE DEF o, M
<1>5. queue'[n] = IF force THEN Tail(queue[n]) ELSE queue[n]
  BY <1>4
<1>6. queue'[o] = queue[o] \o Relayed(n, M)
  BY <1>1, <1>4
<1>7. queue'[o] = IF Connected THEN queue[o] \o M ELSE queue[o]
  BY <1>1, <1>2, <1>3, <1>6, ConcatEmptySeq
<1>8. queue'[n] \in Seq(Packets)
  BY <1>2, <1>5, HeadTailProperties
<1>9. queue'[o] \in Seq(Packets)
  BY <1>1, <1>2, <1>7, ConcatProperties
<1>10. Queues'
  BY <1>1, <1>4, <1>8, <1>9 DEF Queues
<1> QED BY <1>5, <1>7, <1>10 DEF Update, o, M

\* A connection that begins tells both ends, and one that breaks too.
LEMMA ConnectIs ==
  ASSUME TypeInv, NEW n \in Node, Connect(n)
  PROVE  /\ Queues'
         /\ online' = [online EXCEPT ![n] = TRUE] /\ ~online[n]
         /\ queue'[n] = Append(queue[n], Note("welcome"))
         /\ queue'[Other(n)] =
              IF online[Other(n)] THEN Append(queue[Other(n)], Note("join"))
              ELSE queue[Other(n)]
<1>1. /\ Other(n) \in Node /\ Other(n) # n
      /\ \A m \in Node : m = n \/ m = Other(n)
  BY TwoNodes
<1>2. queue' = [m \in Node |->
        CASE m = n -> Append(queue[m], Note("welcome"))
          [] m # n /\ online[m] -> Append(queue[m], Note("join"))
          [] OTHER -> queue[m]]
  BY DEF Connect
<1>3. /\ queue'[n] = Append(queue[n], Note("welcome"))
      /\ queue'[Other(n)] =
           IF online[Other(n)] THEN Append(queue[Other(n)], Note("join"))
           ELSE queue[Other(n)]
  BY <1>1, <1>2
<1>4. Note("welcome") \in Packets /\ Note("join") \in Packets
  BY TimeType DEF Note, Packets, Greeting
<1>5. queue[n] \in Seq(Packets) /\ queue[Other(n)] \in Seq(Packets)
  BY <1>1 DEF TypeInv, Queues
<1>6. queue'[n] \in Seq(Packets) /\ queue'[Other(n)] \in Seq(Packets)
  BY <1>3, <1>4, <1>5, AppendProperties
<1>7. Queues'
  BY <1>1, <1>2, <1>6 DEF Queues
<1> QED BY <1>3, <1>7 DEF Connect

LEMMA DisconnectIs ==
  ASSUME TypeInv, NEW n \in Node, Disconnect(n)
  PROVE  /\ Queues'
         /\ online' = [online EXCEPT ![n] = FALSE] /\ online[n]
         /\ \E k \in 0..Len(queue[n]) :
              queue'[n] = Append(SubSeq(queue[n], 1, k), Note("disconnect"))
         /\ queue'[Other(n)] =
              IF online[Other(n)] THEN Append(queue[Other(n)], Note("leave"))
              ELSE queue[Other(n)]
<1>1. /\ Other(n) \in Node /\ Other(n) # n
      /\ \A m \in Node : m = n \/ m = Other(n)
  BY TwoNodes
<1>2. PICK k \in 0..Len(queue[n]) :
        queue' = [m \in Node |->
          CASE m = n -> Append(SubSeq(queue[m], 1, k), Note("disconnect"))
            [] m # n /\ online[m] -> Append(queue[m], Note("leave"))
            [] OTHER -> queue[m]]
  BY DEF Disconnect
<1>3. /\ queue'[n] = Append(SubSeq(queue[n], 1, k), Note("disconnect"))
      /\ queue'[Other(n)] =
           IF online[Other(n)] THEN Append(queue[Other(n)], Note("leave"))
           ELSE queue[Other(n)]
  BY <1>1, <1>2
<1>4. Note("disconnect") \in Packets /\ Note("leave") \in Packets
  BY TimeType DEF Note, Packets, Ending
<1>5. queue[n] \in Seq(Packets) /\ queue[Other(n)] \in Seq(Packets)
  BY <1>1 DEF TypeInv, Queues
<1>6. SubSeq(queue[n], 1, k) \in Seq(Packets)
  BY <1>5, ElementOfSeq, LenProperties, SubSeqProperties
<1>7. queue'[n] \in Seq(Packets) /\ queue'[Other(n)] \in Seq(Packets)
  BY <1>3, <1>4, <1>5, <1>6, AppendProperties
<1>8. Queues'
  BY <1>1, <1>2, <1>7 DEF Queues
<1> QED BY <1>3, <1>8 DEF Disconnect

\* The handlers of other packets take one.
LEMMA ReceivedIs ==
  ASSUME TypeInv, NEW n \in Node, queue[n] # <<>>, Received(n)
  PROVE  /\ Queues'
         /\ queue'[n] = Tail(queue[n])
         /\ queue'[Other(n)] = queue[Other(n)]
         /\ Head(queue[n]) \in Packets
<1>1. Other(n) \in Node /\ Other(n) # n
  BY TwoNodes
<1>2. Tail(queue[n]) \in Seq(Packets) /\ Head(queue[n]) \in Packets
  BY HeadTailProperties DEF TypeInv, Queues
<1> QED BY <1>1, <1>2 DEF TypeInv, Queues, Received

LEMMA TypeInit == Init => TypeInv
<1> SUFFICES ASSUME Init PROVE TypeInv
  OBVIOUS
<1>1. /\ input \in [Node -> 0..MaxInput] /\ use \in [Node -> Uses]
      /\ view \in [Node -> Time \cup {Unset}] /\ sent \in [Node -> Time]
      /\ moves \in Nat /\ Queues
  BY TimeType, BoundsAssumption DEF Init, Queues, Uses
<1>2. /\ calm \in BOOLEAN /\ used \in BOOLEAN
      /\ sleeping \in [Node -> BOOLEAN] /\ locked \in [Node -> BOOLEAN]
      /\ online \in [Node -> BOOLEAN] /\ attached \in [Node -> BOOLEAN]
      /\ told \in [Node -> BOOLEAN] /\ dead \in [Node -> BOOLEAN]
  BY DEF Init
<1>3. unheard \subseteq Node /\ \A n \in Node : dead[n] => n \in unheard
  BY DEF Init
<1> QED BY <1>1, <1>2, <1>3 DEF TypeInv, TypeOK

LEMMA TypeStep == TypeInv /\ [Next]_vars => TypeInv'
<1> SUFFICES ASSUME TypeInv, [Next]_vars PROVE TypeInv'
  OBVIOUS
<1> USE DEF TypeInv
<1>1. ASSUME NEW n \in Node, Timer(n) PROVE TypeInv'
  <2>1. Queues' /\ IdleSince(n) \in Time
    BY <1>1, UpdateIs, IdleSinceIs DEF Timer
  <2> QED BY <1>1, <2>1 DEF Timer, Update, TypeOK, world, people, session, harm
<1>2. ASSUME NEW n \in Node, Greet(n) PROVE TypeInv'
  <2>1. Queues' /\ IdleSince(n) \in Time
    BY <1>2, UpdateIs, IdleSinceIs DEF Greet, Packet
  <2> QED BY <1>2, <2>1 DEF Greet, Update, TypeOK, world, people, session, harm
<1>3. ASSUME NEW n \in Node, ReceiveMessage(n) PROVE TypeInv'
  <2>1. Queues' /\ Head(queue[n]) \in Packets
    BY <1>3, ReceivedIs DEF ReceiveMessage, Packet
  <2>2. Head(queue[n]).time \in Time
    BY <2>1 DEF Packets
  <2>3. locked' \in [Node -> BOOLEAN] /\ view' \in [Node -> Time \cup {Unset}]
    BY <1>3, <2>2 DEF ReceiveMessage, TypeOK
  <2> QED BY <1>3, <2>1, <2>3
          DEF ReceiveMessage, TypeOK, world, people, sender, harm
<1>4. ASSUME NEW n \in Node, ReceiveEnd(n) PROVE TypeInv'
  <2>1. Queues'
    BY <1>4, ReceivedIs DEF ReceiveEnd, Packet
  <2> QED BY <1>4, <2>1 DEF ReceiveEnd, TypeOK, world, people, sender, harm
<1>5. Move => moves' \in Nat
  BY DEF Move, TypeOK
<1>6. ASSUME NEW n \in Node, Connect(n) PROVE TypeInv'
  <2>1. Queues'
    BY <1>6, ConnectIs
  <2> QED BY <1>5, <1>6, <2>1 DEF Connect, TypeOK, people, session, sender, harm
<1>7. ASSUME NEW n \in Node, Disconnect(n) PROVE TypeInv'
  <2>1. Queues'
    BY <1>7, DisconnectIs
  <2> QED BY <1>5, <1>7, <2>1
          DEF Disconnect, TypeOK, people, session, sender, harm
<1>8. ASSUME NEW n \in Node, SetLock(n) PROVE TypeInv'
  BY <1>5, <1>8 DEF SetLock, TypeOK, Queues, people, session, sender, harm
<1>9. ASSUME NEW n \in Node, NEW t \in 0..MaxInput, NEW u \in Uses, Use(n, t, u)
      PROVE  TypeInv'
  <2>1. (used \/ u # "idle") \in BOOLEAN
    OBVIOUS
  <2> QED BY <1>5, <1>9, <2>1 DEF Use, TypeOK, Queues, session, sender, harm
<1>10. ASSUME NEW n \in Node, Sleep(n) PROVE TypeInv'
  BY <1>5, <1>10 DEF Sleep, TypeOK, Queues, session, sender, harm
<1>11. ASSUME NEW n \in Node, TimerRaises(n) PROVE TypeInv'
  BY <1>11 DEF TimerRaises, Misses, TypeOK, Queues, world, people, session, sender
<1>12. ASSUME NEW n \in Node, GreetRaises(n) PROVE TypeInv'
  <2>1. Queues'
    BY <1>12, ReceivedIs DEF GreetRaises, Packet
  <2> QED BY <1>12, <2>1
          DEF GreetRaises, Misses, TypeOK, world, people, session, sender
<1>13. ASSUME NEW n \in Node, AttachRaises(n) PROVE TypeInv'
  <2>1. Queues'
    BY <1>13, ReceivedIs DEF AttachRaises, Packet
  <2> QED BY <1>13, <2>1, TwoNodes
          DEF AttachRaises, Misses, TypeOK, world, people, session, sender
<1>14. CASE UNCHANGED vars
  BY <1>14 DEF vars, world, people, session, sender, harm, TypeOK, Queues
<1> QED BY <1>1, <1>2, <1>3, <1>4, <1>6, <1>7, <1>8, <1>9, <1>10, <1>11, <1>12,
           <1>13, <1>14 DEF Next, Handle
-----------------------------------------------------------------------------
\* A session goes when the instances are no longer connected: no message can
\* come after the packet that ends it.
LEMMA GhostStep ==
  ASSUME TypeInv, GhostInv, [Next]_vars
  PROVE  GhostInv'
<1> DEFINE Fades(n) ==
      Ended(queue[n]) /\ (attached[n] => Carries(queue[n], Ending))
<1>1. \A n \in Node : queue[n] \in Seq(Packets)
  BY DEF TypeInv, Queues
<1> SUFFICES ASSUME ~Connected' PROVE \A m \in Node : Fades(m)'
  BY DEF GhostInv
<1>2. ASSUME UNCHANGED <<queue, attached, online>> PROVE \A m \in Node : Fades(m)'
  BY <1>2 DEF GhostInv, Connected
<1>3. ASSUME NEW n \in Node, NEW force \in BOOLEAN, Update(n, force),
             force => Packet(n, Greeting), UNCHANGED <<online, attached>>
      PROVE  \A m \in Node : Fades(m)'
  <2>1. ~Connected
    BY <1>3 DEF Connected
  <2>2. /\ queue'[n] = IF force THEN Tail(queue[n]) ELSE queue[n]
        /\ queue'[Other(n)] = queue[Other(n)]
    BY <1>3, <2>1, UpdateIs DEF Packet
  <2>3. Fades(n) /\ Fades(Other(n))
    BY <2>1, TwoNodes DEF GhostInv
  <2>4. CASE force
    <3>1. Ended(Tail(queue[n]))
      BY <1>1, <1>3, <2>3, <2>4, EndedTail DEF Packet
    <3>2. attached[n] => Carries(Tail(queue[n]), Ending)
      BY <1>1, <1>3, <2>3, <2>4, CarriesFirst DEF Packet, Greeting, Ending
    <3>3. Fades(n)' /\ Fades(Other(n))'
      BY <1>3, <2>2, <2>3, <2>4, <3>1, <3>2
    <3> QED BY <3>3, TwoNodes
  <2>5. CASE ~force
    <3>1. Fades(n)' /\ Fades(Other(n))'
      BY <1>3, <2>2, <2>3, <2>5
    <3> QED BY <3>1, TwoNodes
  <2> QED BY <2>4, <2>5
<1>4. ASSUME NEW n \in Node, Timer(n) PROVE \A m \in Node : Fades(m)'
  BY <1>3, <1>4 DEF Timer, world, session
<1>5. ASSUME NEW n \in Node, Greet(n) PROVE \A m \in Node : Fades(m)'
  BY <1>3, <1>5 DEF Greet, world, session, Greeting
<1>6. ASSUME NEW n \in Node, ReceiveMessage(n) PROVE \A m \in Node : Fades(m)'
  <2>1. Fades(n) /\ Fades(Other(n))
    BY <1>6, TwoNodes DEF GhostInv, Connected, ReceiveMessage, world
  <2>2. queue'[n] = Tail(queue[n]) /\ queue'[Other(n)] = queue[Other(n)]
    BY <1>6, ReceivedIs DEF ReceiveMessage, Packet
  <2>3. Ended(Tail(queue[n])) /\ Carries(Tail(queue[n]), Ending)
    BY <1>1, <1>6, <2>1, EndedTail, EndedFirst
       DEF ReceiveMessage, Packet, Report, Locking
  <2>4. attached'[Other(n)] = attached[Other(n)]
    BY <1>6, TwoNodes DEF ReceiveMessage, TypeInv, TypeOK
  <2>5. Fades(n)' /\ Fades(Other(n))'
    BY <2>1, <2>2, <2>3, <2>4
  <2> QED BY <2>5, TwoNodes
<1>7. ASSUME NEW n \in Node, ReceiveEnd(n) PROVE \A m \in Node : Fades(m)'
  <2>1. Fades(n) /\ Fades(Other(n))
    BY <1>7, TwoNodes DEF GhostInv, Connected, ReceiveEnd, world
  <2>2. queue'[n] = Tail(queue[n]) /\ queue'[Other(n)] = queue[Other(n)]
    BY <1>7, ReceivedIs DEF ReceiveEnd, Packet
  <2>3. Ended(Tail(queue[n]))
    BY <1>1, <1>7, <2>1, EndedTail DEF ReceiveEnd, Packet
  <2>4. ~attached'[n] /\ attached'[Other(n)] = attached[Other(n)]
    BY <1>7, TwoNodes DEF ReceiveEnd, TypeInv, TypeOK
  <2>5. Fades(n)' /\ Fades(Other(n))'
    BY <2>1, <2>2, <2>3, <2>4
  <2> QED BY <2>5, TwoNodes
<1>8. ASSUME NEW n \in Node, Connect(n) PROVE \A m \in Node : Fades(m)'
  <2>1. ~Connected /\ ~online[Other(n)]
    BY <1>8, TwoNodes, ConnectIs DEF Connected, TypeInv, TypeOK
  <2>2. Fades(n) /\ Fades(Other(n))
    BY <2>1, TwoNodes DEF GhostInv
  <2>3. /\ queue'[n] = Append(queue[n], Note("welcome"))
        /\ queue'[Other(n)] = queue[Other(n)]
    BY <1>8, <2>1, ConnectIs
  <2>4. Note("welcome") \in Packets /\ Note("welcome").type \in Greeting
    BY TimeType DEF Note, Packets, Greeting
  <2>5. Ended(queue'[n])
    BY <1>1, <2>2, <2>3, <2>4, EndedLast
  <2>6. Carries(queue[n], Ending) => Carries(queue'[n], Ending)
    BY <1>1, <2>3, <2>4, CarriesLast
  <2>7. Fades(n)' /\ Fades(Other(n))'
    BY <1>8, <2>2, <2>3, <2>5, <2>6 DEF Connect, session
  <2> QED BY <2>7, TwoNodes
<1>9. ASSUME NEW n \in Node, Disconnect(n) PROVE \A m \in Node : Fades(m)'
  <2>1. ASSUME NEW q \in Seq(Packets), NEW type \in Ending
        PROVE  /\ Ended(Append(q, Note(type)))
               /\ Carries(Append(q, Note(type)), Ending)
    <3>1. Note(type) \in Packets /\ Note(type).type \in Ending
      BY TimeType DEF Note, Packets, Ending
    <3> QED BY <3>1, EndedLast, CarriesLast
  <2>2. PICK k \in 0..Len(queue[n]) :
          queue'[n] = Append(SubSeq(queue[n], 1, k), Note("disconnect"))
    BY <1>9, DisconnectIs
  <2>3. SubSeq(queue[n], 1, k) \in Seq(Packets)
    BY <1>1, ElementOfSeq, LenProperties, SubSeqProperties
  <2>4. Fades(n)'
    BY <2>1, <2>2, <2>3 DEF Ending
  <2>5. CASE online[Other(n)]
    <3>1. queue'[Other(n)] = Append(queue[Other(n)], Note("leave"))
      BY <1>9, <2>5, DisconnectIs
    <3>2. Fades(Other(n))'
      BY <1>1, <2>1, <3>1, TwoNodes DEF Ending
    <3> QED BY <2>4, <3>2, TwoNodes
  <2>6. CASE ~online[Other(n)]
    <3>1. queue'[Other(n)] = queue[Other(n)]
      BY <1>9, <2>6, DisconnectIs
    <3>2. Fades(Other(n))
      BY <2>6, TwoNodes DEF GhostInv, Connected
    <3>3. Fades(Other(n))'
      BY <1>9, <3>1, <3>2 DEF Disconnect, session
    <3> QED BY <2>4, <3>3, TwoNodes
  <2> QED BY <2>5, <2>6
<1>10. ASSUME NEW n \in Node, SetLock(n) PROVE \A m \in Node : Fades(m)'
  BY <1>2, <1>10 DEF SetLock, session
<1>11. ASSUME NEW n \in Node, NEW t \in 0..MaxInput, NEW u \in Uses, Use(n, t, u)
       PROVE  \A m \in Node : Fades(m)'
  BY <1>2, <1>11 DEF Use, session
<1>12. ASSUME NEW n \in Node, Sleep(n) PROVE \A m \in Node : Fades(m)'
  BY <1>2, <1>12 DEF Sleep, session
<1>13. ASSUME NEW n \in Node, TimerRaises(n) PROVE \A m \in Node : Fades(m)'
  BY <1>2, <1>13 DEF TimerRaises, world, session
<1>14. ASSUME NEW n \in Node, GreetRaises(n) \/ AttachRaises(n)
       PROVE  \A m \in Node : Fades(m)'
  <2>1. /\ queue[n] # <<>> /\ Received(n) /\ UNCHANGED <<online, attached>>
        /\ Head(queue[n]).type \notin Ending
    BY <1>14 DEF GreetRaises, AttachRaises, Packet, world, session, Ending
  <2>2. Fades(n) /\ Fades(Other(n))
    BY <2>1, TwoNodes DEF GhostInv, Connected
  <2>3. queue'[n] = Tail(queue[n]) /\ queue'[Other(n)] = queue[Other(n)]
    BY <2>1, ReceivedIs
  <2>4. /\ Ended(Tail(queue[n]))
        /\ Carries(queue[n], Ending) => Carries(Tail(queue[n]), Ending)
    BY <1>1, <2>1, <2>2, EndedTail, CarriesFirst
  <2>5. Fades(n)' /\ Fades(Other(n))'
    BY <2>1, <2>2, <2>3, <2>4
  <2> QED BY <2>5, TwoNodes
<1>15. CASE UNCHANGED vars
  BY <1>2, <1>15 DEF vars, world, session
<1> QED BY <1>4, <1>5, <1>6, <1>7, <1>8, <1>9, <1>10, <1>11, <1>12, <1>13,
           <1>14, <1>15 DEF Next, Handle

\* What the other has sent last is known, or it will be: nothing that is
\* handled or sent in between puts an older value in its place.
LEMMA ViewStep ==
  ASSUME TypeInv, ViewInv, [Next]_vars
  PROVE  ViewInv'
<1>1. \A n \in Node : queue[n] \in Seq(Packets)
  BY DEF TypeInv, Queues
<1> DEFINE Heard(n) == Other(n) \notin unheard => Knows(n)
<1> SUFFICES ASSUME Connected' PROVE \A m \in Node : Heard(m)'
  BY DEF ViewInv
<1>2. ASSUME UNCHANGED <<queue, attached, view, sent, online>>,
             unheard \subseteq unheard'
      PROVE  \A m \in Node : Heard(m)'
  BY <1>2 DEF ViewInv, Connected, Knows
<1>3. ASSUME NEW n \in Node, NEW force \in BOOLEAN, Update(n, force),
             force => Packet(n, Greeting),
             UNCHANGED <<online, attached, view, unheard>>
      PROVE  \A m \in Node : Heard(m)'
  <2> DEFINE o == Other(n)
             M == Messages(n, force)
  <2>1. o \in Node /\ o # n /\ Other(o) = n
    BY TwoNodes
  <2>2. Connected /\ Heard(n) /\ Heard(o)
    BY <1>3, <2>1 DEF Connected, ViewInv
  <2>3. /\ queue'[n] = IF force THEN Tail(queue[n]) ELSE queue[n]
        /\ queue'[o] = queue[o] \o M
        /\ sent'[n] = IdleSince(n) /\ sent'[o] = sent[o]
    BY <1>3, <2>1, <2>2, UpdateIs DEF Packet, TypeInv, TypeOK
  <2>4. M \in Seq(Packets) /\ ~Carries(M, Greeting \cup Ending)
    BY MessagesAre
  <2>5. \/ Latest(M, IdleSince(n))
        \/ ~Carries(M, Report) /\ ~force /\ sent[n] = IdleSince(n)
    BY MessagesAre
  <2> HIDE DEF o, M
  <2>6. ASSUME o \notin unheard PROVE Knows(n)'
    <3>1. CASE Carries(queue[o], Greeting)
      <4>1. Carries(queue'[o], Greeting)
        BY <1>1, <2>1, <2>3, <2>4, <3>1, CarriesMore
      <4> QED BY <4>1 DEF Knows, o
    <3>2. CASE Latest(queue[n], sent[o])
      <4>1. ASSUME force PROVE Latest(Tail(queue[n]), sent[o])
        <5>1. Head(queue[n]) # Idle(sent[o]) /\ queue[n] # <<>>
          BY <1>3, <4>1 DEF Packet, Greeting, Idle
        <5> QED BY <1>1, <3>2, <5>1, LatestFirst
      <4>2. Latest(queue'[n], sent'[o])
        BY <2>3, <3>2, <4>1
      <4> QED BY <4>2 DEF Knows, o
    <3>3. CASE /\ attached[n] /\ view[n] = sent[o]
               /\ ~Carries(queue[n], Report \cup Ending)
      <4>1. ASSUME force PROVE ~Carries(Tail(queue[n]), Report \cup Ending)
        BY <1>1, <1>3, <3>3, <4>1, CarriesFirst DEF Packet
      <4>2. ~Carries(queue'[n], Report \cup Ending)
        BY <2>3, <3>3, <4>1
      <4> QED BY <1>3, <2>3, <3>3, <4>2 DEF Knows, o
    <3> QED BY <2>2, <2>6, <3>1, <3>2, <3>3 DEF Knows, o
  <2>7. ASSUME n \notin unheard PROVE Knows(o)'
    <3>1. CASE Latest(M, IdleSince(n))
      <4>1. Latest(queue'[o], sent'[n])
        BY <1>1, <2>1, <2>3, <2>4, <3>1, LatestMore
      <4> QED BY <2>1, <4>1 DEF Knows
    <3>2. CASE ~Carries(M, Report) /\ ~force /\ sent[n] = IdleSince(n)
      <4>1. queue'[n] = queue[n] /\ sent'[n] = sent[n]
        BY <2>3, <3>2
      <4>2. ~Carries(M, Report \cup Ending)
        BY <2>4, <3>2 DEF Carries
      <4>3. CASE Carries(queue[n], Greeting)
        BY <2>1, <4>1, <4>3 DEF Knows
      <4>4. CASE Latest(queue[o], sent[n])
        <5>1. Latest(queue'[o], sent'[n])
          BY <1>1, <2>1, <2>3, <2>4, <4>1, <4>2, <4>4, LatestMore
        <5> QED BY <2>1, <5>1 DEF Knows
      <4>5. CASE /\ attached[o] /\ view[o] = sent[n]
                 /\ ~Carries(queue[o], Report \cup Ending)
        <5>1. ~Carries(queue'[o], Report \cup Ending)
          BY <1>1, <2>1, <2>3, <2>4, <4>2, <4>5, CarriesMore
        <5> QED BY <1>3, <2>1, <4>1, <4>5, <5>1 DEF Knows
      <4> QED BY <2>1, <2>2, <2>7, <4>3, <4>4, <4>5 DEF Knows
    <3> QED BY <2>5, <3>1, <3>2
  <2>8. Heard(n)' /\ Heard(o)'
    BY <1>3, <2>1, <2>6, <2>7 DEF o
  <2> QED BY <2>8, TwoNodes DEF o
<1>4. ASSUME NEW n \in Node, Timer(n) PROVE \A m \in Node : Heard(m)'
  BY <1>3, <1>4 DEF Timer, world, session, harm
<1>5. ASSUME NEW n \in Node, Greet(n) PROVE \A m \in Node : Heard(m)'
  BY <1>3, <1>5 DEF Greet, world, session, harm, Greeting
<1>6. ASSUME NEW n \in Node, queue[n] # <<>>, Received(n),
             unheard \subseteq unheard', UNCHANGED <<online, sent>>,
             Head(queue[n]).type \notin Greeting \/ n \in unheard',
             \A m \in Node \ {n} :
               attached'[m] = attached[m] /\ view'[m] = view[m],
             \/ Other(n) \in unheard'
             \/ \A t \in Time : Head(queue[n]) = Idle(t) =>
                  attached'[n] /\ view'[n] = t,
             Head(queue[n]).type \notin Report \cup Ending =>
               (attached[n] => attached'[n]) /\ view'[n] = view[n]
      PROVE  \A m \in Node : Heard(m)'
  <2> DEFINE o == Other(n)
  <2>1. o \in Node /\ o # n /\ Other(o) = n
    BY TwoNodes
  <2>2. Connected /\ Heard(n) /\ Heard(o)
    BY <1>6, <2>1 DEF Connected, ViewInv
  <2>3. queue'[n] = Tail(queue[n]) /\ queue'[o] = queue[o]
    BY <1>6, ReceivedIs
  <2>4. sent[o] \in Time
    BY <2>1 DEF TypeInv, TypeOK
  <2> HIDE DEF o
  <2>5. ASSUME o \notin unheard' PROVE Knows(n)'
    <3>0. Knows(n)
      BY <1>6, <2>2, <2>5 DEF o
    <3>1. CASE Carries(queue[o], Greeting)
      BY <2>3, <3>1 DEF Knows, o
    <3>2. CASE Latest(queue[n], sent[o])
      <4>1. CASE Latest(Tail(queue[n]), sent[o])
        BY <1>6, <2>3, <4>1 DEF Knows, o
      <4>2. CASE /\ Head(queue[n]) = Idle(sent[o])
                 /\ ~Carries(Tail(queue[n]), Report \cup Ending)
        <5>1. attached'[n] /\ view'[n] = sent[o]
          BY <1>6, <2>4, <2>5, <4>2 DEF o
        <5> QED BY <1>6, <2>3, <4>2, <5>1 DEF Knows, o
      <4> QED BY <1>1, <1>6, <3>2, <4>1, <4>2, LatestFirst
    <3>3. CASE /\ attached[n] /\ view[n] = sent[o]
               /\ ~Carries(queue[n], Report \cup Ending)
      <4>1. /\ Head(queue[n]).type \notin Report \cup Ending
            /\ ~Carries(Tail(queue[n]), Report \cup Ending)
        BY <1>1, <1>6, <3>3, CarriesFirst
      <4> QED BY <1>6, <2>3, <3>3, <4>1 DEF Knows, o
    <3> QED BY <3>0, <3>1, <3>2, <3>3 DEF Knows, o
  <2>6. ASSUME n \notin unheard' PROVE Knows(o)'
    <3>0. Knows(o)
      BY <1>6, <2>1, <2>2, <2>6
    <3>1. Carries(queue[n], Greeting) => Carries(queue'[n], Greeting)
      BY <1>1, <1>6, <2>3, <2>6, CarriesFirst
    <3>2. attached'[o] = attached[o] /\ view'[o] = view[o]
      BY <1>6, <2>1
    <3> QED BY <1>6, <2>1, <2>3, <3>0, <3>1, <3>2 DEF Knows
  <2>7. Heard(n)' /\ Heard(o)'
    BY <2>1, <2>5, <2>6 DEF o
  <2> QED BY <2>7, TwoNodes DEF o
<1>7. ASSUME NEW n \in Node, ReceiveMessage(n) PROVE \A m \in Node : Heard(m)'
  <2>1. /\ queue[n] # <<>> /\ Received(n) /\ UNCHANGED <<online, sent, unheard>>
        /\ Head(queue[n]).type \in Report \cup Locking
    BY <1>7 DEF ReceiveMessage, Packet, world, sender, harm, Report, Locking
  <2>2. Head(queue[n]).type \notin Greeting \cup Ending
    BY <2>1 DEF Greeting, Ending, Report, Locking
  <2>3. \A m \in Node \ {n} : attached'[m] = attached[m] /\ view'[m] = view[m]
    BY <1>7 DEF ReceiveMessage, TypeInv, TypeOK
  <2>4. attached'[n]
    BY <1>7 DEF ReceiveMessage, TypeInv, TypeOK
  <2>5. \A t \in Time : Head(queue[n]) = Idle(t) => view'[n] = t
    BY <1>7 DEF ReceiveMessage, TypeInv, TypeOK, Idle
  <2>6. Head(queue[n]).type \notin Report => view'[n] = view[n]
    BY <1>7 DEF ReceiveMessage, Report
  <2> QED BY <1>6, <2>1, <2>2, <2>3, <2>4, <2>5, <2>6
<1>8. ASSUME NEW n \in Node, ReceiveEnd(n) PROVE \A m \in Node : Heard(m)'
  <2>1. /\ queue[n] # <<>> /\ Received(n) /\ UNCHANGED <<online, sent, unheard>>
        /\ Head(queue[n]).type \in Ending
    BY <1>8 DEF ReceiveEnd, Packet, world, sender, harm, Ending
  <2>2. Head(queue[n]).type \notin Greeting
    BY <2>1 DEF Greeting, Ending
  <2>3. \A m \in Node \ {n} : attached'[m] = attached[m] /\ view'[m] = view[m]
    BY <1>8 DEF ReceiveEnd, TypeInv, TypeOK
  <2>4. \A t \in Time : Head(queue[n]) # Idle(t)
    BY <2>1 DEF Ending, Idle
  <2> QED BY <1>6, <2>1, <2>2, <2>3, <2>4
<1>9. ASSUME NEW n \in Node, Connect(n) PROVE \A m \in Node : Heard(m)'
  <2>1. online[Other(n)] /\ Other(n) \in Node /\ Other(Other(n)) = n
    BY <1>9, TwoNodes, ConnectIs DEF Connected, TypeInv, TypeOK
  <2>2. /\ queue'[n] = Append(queue[n], Note("welcome"))
        /\ queue'[Other(n)] = Append(queue[Other(n)], Note("join"))
    BY <1>9, <2>1, ConnectIs
  <2>3. /\ Note("welcome") \in Packets /\ Note("welcome").type \in Greeting
        /\ Note("join") \in Packets /\ Note("join").type \in Greeting
    BY TimeType DEF Note, Packets, Greeting
  <2>4. Carries(queue'[n], Greeting) /\ Carries(queue'[Other(n)], Greeting)
    BY <1>1, <2>1, <2>2, <2>3, CarriesLast
  <2>5. Knows(n)' /\ Knows(Other(n))'
    BY <2>1, <2>4 DEF Knows
  <2> QED BY <2>5, TwoNodes
<1>10. ASSUME NEW n \in Node, Disconnect(n) PROVE FALSE
  BY <1>10, DisconnectIs DEF Connected, TypeInv, TypeOK
<1>11. ASSUME NEW n \in Node, SetLock(n) PROVE \A m \in Node : Heard(m)'
  BY <1>2, <1>11 DEF SetLock, session, sender, harm
<1>12. ASSUME NEW n \in Node, NEW t \in 0..MaxInput, NEW u \in Uses, Use(n, t, u)
       PROVE  \A m \in Node : Heard(m)'
  BY <1>2, <1>12 DEF Use, session, sender, harm
<1>13. ASSUME NEW n \in Node, Sleep(n) PROVE \A m \in Node : Heard(m)'
  BY <1>2, <1>13 DEF Sleep, session, sender, harm
<1>14. ASSUME NEW n \in Node, TimerRaises(n) PROVE \A m \in Node : Heard(m)'
  BY <1>2, <1>14 DEF TimerRaises, Misses, world, session, sender
<1>15. ASSUME NEW n \in Node, GreetRaises(n) PROVE \A m \in Node : Heard(m)'
  <2>1. /\ queue[n] # <<>> /\ Received(n) /\ UNCHANGED <<online, sent, session>>
        /\ Head(queue[n]).type \in Greeting /\ unheard' = unheard \cup {n}
    BY <1>15 DEF GreetRaises, Misses, Packet, world, sender, Greeting
  <2>2. \A t \in Time : Head(queue[n]) # Idle(t)
    BY <2>1 DEF Greeting, Idle
  <2> QED BY <1>6, <2>1, <2>2 DEF session
<1>16. ASSUME NEW n \in Node, AttachRaises(n) PROVE \A m \in Node : Heard(m)'
  <2>1. /\ queue[n] # <<>> /\ Received(n) /\ UNCHANGED <<online, sent, session>>
        /\ Head(queue[n]).type \notin Greeting
        /\ unheard' = unheard \cup {Other(n)}
    BY <1>16 DEF AttachRaises, Misses, Packet, world, sender, Greeting
  <2> QED BY <1>6, <2>1 DEF session
<1>17. CASE UNCHANGED vars
  BY <1>2, <1>17 DEF vars, world, session, sender, harm
<1> QED BY <1>4, <1>5, <1>7, <1>8, <1>9, <1>10, <1>11, <1>12, <1>13, <1>14,
           <1>15, <1>16, <1>17 DEF Next, Handle

\* No report makes an instance believe in an input that never was, nor in a use
\* that never was, not even one that comes back to who sent it.
LEMMA PastStep ==
  ASSUME TypeInv, PastInv, [Next]_vars
  PROVE  PastInv'
<1>1. \A n \in Node : queue[n] \in Seq(Packets)
  BY DEF TypeInv, Queues
<1> DEFINE Fine(n) == /\ use[n] # "idle" => used
                      /\ sent[n] \in Past /\ view[n] \in Past
                      /\ Reports(queue[n], Past)
<1> SUFFICES \A m \in Node : Fine(m)'
  BY DEF PastInv
<1>4. \A m \in Node : Fine(m)
  BY DEF PastInv
<1>5. ASSUME NEW n \in Node PROVE IdleSince(n) \in Past
  <2>1. /\ IdleSince(n) \in Time
        /\ \/ IdleSince(n) = NegInf
           \/ IdleSince(n) = Local(n) /\ use[n] # "none"
           \/ IdleSince(n) = view[n]
           \/ IdleSince(n) = Inf /\ use[n] = "none"
    BY IdleSinceIs
  <2>2. input[n] \in 0..MaxInput
    BY LocalIs
  <2>3. CASE IdleSince(n) = NegInf
    <3>1. NegInf <= input[n] /\ NegInf # Inf
      BY <2>2, TimeType, BoundsAssumption DEF NegInf, Inf
    <3> QED BY <2>1, <2>3, <3>1 DEF Past
  <2>4. CASE use[n] = "idle" /\ IdleSince(n) = Local(n)
    <3>1. IdleSince(n) = input[n] /\ input[n] # Inf /\ input[n] <= input[n]
      BY <2>2, <2>4, LocalIs, TimeType
    <3> QED BY <2>1, <3>1 DEF Past
  <2>5. CASE use[n] # "idle" /\ IdleSince(n) = Inf
    BY <1>4, <2>1, <2>5 DEF Past
  <2>6. CASE IdleSince(n) = view[n]
    BY <1>4, <2>6
  <2> QED BY <2>1, <2>3, <2>4, <2>5, <2>6, LocalIs
<1>6. ASSUME NEW n \in Node, NEW force \in BOOLEAN, Update(n, force),
             force => queue[n] # <<>>, UNCHANGED <<input, use, used, view>>
      PROVE  \A m \in Node : Fine(m)'
  <2> DEFINE M == Messages(n, force)
  <2>1. /\ queue'[n] = IF force THEN Tail(queue[n]) ELSE queue[n]
        /\ \/ queue'[Other(n)] = queue[Other(n)] \o M
           \/ queue'[Other(n)] = queue[Other(n)]
        /\ sent' = [sent EXCEPT ![n] = IdleSince(n)]
    BY <1>6, UpdateIs
  <2>2. M \in Seq(Packets) /\ Reports(M, Past)
    BY <1>5, MessagesAre DEF Reports
  <2>3. Reports(queue'[n], Past)
    BY <1>1, <1>4, <1>6, <2>1, ReportsLess
  <2>4. Reports(queue'[Other(n)], Past)
    BY <1>1, <1>4, <2>1, <2>2, TwoNodes, ReportsMore
  <2>5. \A m \in Node : sent'[m] \in Past
    BY <1>4, <1>5, <2>1 DEF TypeInv, TypeOK
  <2>6. Past' = Past
    BY <1>6 DEF Past
  <2>7. \A m \in Node : Reports(queue'[m], Past)
    BY <2>3, <2>4, TwoNodes
  <2> QED BY <1>4, <1>6, <2>5, <2>6, <2>7
<1>7. ASSUME NEW n \in Node, Timer(n) PROVE \A m \in Node : Fine(m)'
  BY <1>6, <1>7 DEF Timer, world, people, session
<1>8. ASSUME NEW n \in Node, Greet(n) PROVE \A m \in Node : Fine(m)'
  BY <1>6, <1>8 DEF Greet, world, people, session, Packet
<1>9. ASSUME NEW n \in Node, queue[n] # <<>>, Received(n),
             UNCHANGED <<input, use, used, sent>>,
             \A m \in Node : view'[m] \in Past
      PROVE  \A m \in Node : Fine(m)'
  <2>1. queue'[n] = Tail(queue[n]) /\ queue'[Other(n)] = queue[Other(n)]
    BY <1>9, ReceivedIs
  <2>2. Reports(queue'[n], Past)
    BY <1>1, <1>4, <1>9, <2>1, ReportsLess
  <2>3. \A m \in Node : Reports(queue'[m], Past)
    BY <1>4, <2>1, <2>2, TwoNodes
  <2>4. Past' = Past
    BY <1>9 DEF Past
  <2> QED BY <1>4, <1>9, <2>3, <2>4
<1>10. ASSUME NEW n \in Node, ReceiveMessage(n) PROVE \A m \in Node : Fine(m)'
  <2>1. ASSUME Head(queue[n]).type = "idle_since"
        PROVE  Head(queue[n]).time \in Past
    <3>1. queue[n] # <<>> /\ Head(queue[n]) = queue[n][1] /\ 1 \in 1..Len(queue[n])
      BY <1>1, <1>10, EmptySeq DEF ReceiveMessage, Packet
    <3> QED BY <1>4, <2>1, <3>1 DEF Reports, Report
  <2>2. \A m \in Node : view'[m] \in Past
    BY <1>4, <1>10, <2>1 DEF ReceiveMessage, TypeInv, TypeOK
  <2> QED BY <1>9, <1>10, <2>2 DEF ReceiveMessage, Packet, world, people, sender
<1>11. ASSUME NEW n \in Node, ReceiveEnd(n) PROVE \A m \in Node : Fine(m)'
  BY <1>4, <1>9, <1>11 DEF ReceiveEnd, Packet, world, people, sender
<1>12. ASSUME UNCHANGED <<input, use, used, sent, view>>,
              \A m \in Node : Reports(queue'[m], Past)
       PROVE  \A m \in Node : Fine(m)'
  <2>1. Past' = Past
    BY <1>12 DEF Past
  <2> QED BY <1>4, <1>12, <2>1
<1>13. ASSUME NEW q \in Seq(Packets), Reports(q, Past),
              NEW type \in Greeting \cup Ending
       PROVE  Reports(Append(q, Note(type)), Past)
  <2>1. Note(type) \in Packets /\ Note(type).type \notin Report
    BY TimeType DEF Note, Packets, Greeting, Ending, Report
  <2>2. <<Note(type)>> \in Seq(Packets) /\ Reports(<<Note(type)>>, Past)
    BY <2>1 DEF Reports
  <2> QED BY <1>13, <2>1, <2>2, AppendIsConcat, ReportsMore
<1>14. ASSUME NEW n \in Node, Connect(n) PROVE \A m \in Node : Fine(m)'
  <2>1. Reports(queue'[n], Past)
    <3>1. queue'[n] = Append(queue[n], Note("welcome"))
      BY <1>14, ConnectIs
    <3> QED BY <1>1, <1>4, <1>13, <3>1 DEF Greeting
  <2>2. Reports(queue'[Other(n)], Past)
    BY <1>1, <1>4, <1>13, <1>14, ConnectIs, TwoNodes DEF Greeting
  <2> QED BY <1>12, <1>14, <2>1, <2>2, TwoNodes
          DEF Connect, people, session, sender
<1>15. ASSUME NEW n \in Node, Disconnect(n) PROVE \A m \in Node : Fine(m)'
  <2>1. PICK k \in 0..Len(queue[n]) :
          queue'[n] = Append(SubSeq(queue[n], 1, k), Note("disconnect"))
    BY <1>15, DisconnectIs
  <2>2. SubSeq(queue[n], 1, k) \in Seq(Packets)
    BY <1>1, ElementOfSeq, LenProperties, SubSeqProperties
  <2>3. Reports(SubSeq(queue[n], 1, k), Past)
    BY <1>1, <1>4, ReportsLess
  <2>4. Reports(queue'[n], Past)
    BY <1>13, <2>1, <2>2, <2>3 DEF Ending
  <2>5. Reports(queue'[Other(n)], Past)
    BY <1>1, <1>4, <1>13, <1>15, DisconnectIs, TwoNodes DEF Ending
  <2> QED BY <1>12, <1>15, <2>4, <2>5, TwoNodes
          DEF Disconnect, people, session, sender
<1>16. ASSUME NEW n \in Node, SetLock(n) PROVE \A m \in Node : Fine(m)'
  BY <1>4, <1>12, <1>16 DEF SetLock, people, session, sender
<1>17. ASSUME NEW n \in Node, NEW t \in 0..MaxInput, NEW u \in Uses, Use(n, t, u)
       PROVE  \A m \in Node : Fine(m)'
  <2>1. /\ input' = [input EXCEPT ![n] = t] /\ t >= input[n]
        /\ use' = [use EXCEPT ![n] = u]
        /\ UNCHANGED <<sent, view, queue>>
    BY <1>17 DEF Use, session, sender
  <2>2. used' <=> used \/ u # "idle"
    BY <1>17 DEF Use
  <2>3. \A m \in Node : /\ input[m] \in Nat /\ input'[m] \in Nat
                         /\ input[m] <= input'[m]
    BY <2>1, BoundsAssumption DEF TypeInv, TypeOK
  <2>4. ASSUME NEW p \in Past PROVE p \in Past'
    <3>1. p \in Time \cup {Unset} /\ p \in Int
      BY TimeType DEF Past
    <3>2. CASE p = Inf
      BY <2>2, <3>1, <3>2 DEF Past
    <3>3. CASE p # Inf
      <4>1. PICK m \in Node : p <= input[m]
        BY <3>3 DEF Past
      <4>2. p <= input'[m]
        BY <2>3, <3>1, <4>1
      <4> QED BY <3>1, <3>3, <4>2 DEF Past
    <3> QED BY <3>2, <3>3
  <2>5. ASSUME NEW q, Reports(q, Past) PROVE Reports(q, Past')
    BY <2>4, <2>5 DEF Reports
  <2>6. ASSUME NEW m \in Node, use'[m] # "idle" PROVE used'
    <3>1. CASE m = n
      BY <2>1, <2>2, <2>6, <3>1 DEF TypeInv, TypeOK
    <3>2. CASE m # n
      <4>1. use[m] # "idle"
        BY <2>1, <2>6, <3>2 DEF TypeInv, TypeOK
      <4> QED BY <1>4, <2>2, <4>1
    <3> QED BY <3>1, <3>2
  <2> QED BY <1>4, <2>1, <2>4, <2>5, <2>6
<1>18. ASSUME NEW n \in Node, Sleep(n) PROVE \A m \in Node : Fine(m)'
  BY <1>4, <1>12, <1>18 DEF Sleep, session, sender
<1>19. ASSUME NEW n \in Node, TimerRaises(n) PROVE \A m \in Node : Fine(m)'
  BY <1>4, <1>12, <1>19 DEF TimerRaises, world, people, session, sender
<1>20. ASSUME NEW n \in Node, GreetRaises(n) PROVE \A m \in Node : Fine(m)'
  BY <1>4, <1>9, <1>20 DEF GreetRaises, Packet, world, people, session, sender
<1>21. ASSUME NEW n \in Node, AttachRaises(n) PROVE \A m \in Node : Fine(m)'
  BY <1>4, <1>9, <1>21 DEF AttachRaises, Packet, world, people, session, sender
<1>22. CASE UNCHANGED vars
  BY <1>4, <1>12, <1>22 DEF vars, world, people, session, sender
<1> QED BY <1>7, <1>8, <1>10, <1>11, <1>14, <1>15, <1>16, <1>17, <1>18, <1>19,
           <1>20, <1>21, <1>22 DEF Next, Handle

\* Once all is quiet, nobody has anything to learn, and none whose handlers
\* did not raise has anything to tell.
LEMMA QuietIs ==
  ASSUME TypeInv, Quiet, NEW n \in Node, n \notin unheard
  PROVE  told[n] = locked[n] /\ sent[n] = IdleSince(n)
<1>1. ~dead[n]
  BY DEF TypeInv
<1>2. Messages(n, FALSE) = <<>>
  BY <1>1 DEF Quiet
<1> QED BY <1>2, MessagesAre

LEMMA QuietLocks ==
  ASSUME TypeInv, Quiet, unheard = {}
  PROVE  LocksQuiet
<1>1. \A n \in Node : told[n] = locked[n] /\ queue[n] = <<>>
  BY QuietIs DEF Quiet
<1> QED BY <1>1 DEF LocksQuiet

LEMMA QuietAgrees ==
  ASSUME TypeInv, LocksQuiet, unheard = {},
         NEW v \in BOOLEAN, Agreed(v), NEW n \in Node
  PROVE  locked[n] = v
<1> SUFFICES ASSUME locked[n] # v PROVE FALSE
  OBVIOUS
<1>1. WillLearn(n, v)
  BY DEF Agreed
<1>2. Other(n) \in Node
  BY TwoNodes
<1>3. /\ ~Carries(queue[n], {LockType(v)})
      /\ ~Carries(queue[Other(n)], Greeting)
  <2>1. "idle_since" \notin Greeting \cup {LockType(v)}
    BY DEF Greeting, LockType
  <2> QED BY <1>2, <2>1 DEF LocksQuiet, Carries
<1>4. told[Other(n)] = locked[Other(n)]
  BY <1>2 DEF LocksQuiet, TypeInv
<1> QED BY <1>1, <1>3, <1>4 DEF WillLearn

\* While the locks differ, what will make them agree is under way, and nothing
\* that would make them differ again; users wait until all is quiet.
LEMMA LockStep ==
  ASSUME TypeInv, LockInv, [Next]_vars
  PROVE  LockInv'
<1> DEFINE Free == \A m \in Node : ~Carries(queue[m], Locking)
           Fine == IF Connected THEN \E v \in BOOLEAN : Agreed(v) ELSE Free
<1>1. \A n \in Node : queue[n] \in Seq(Packets)
  BY DEF TypeInv, Queues
<1>2. calm' = calm /\ unheard \subseteq unheard'
  <2>1. calm' = calm
    BY DEF Next, Handle, Timer, TimerRaises, Greet, GreetRaises,
           ReceiveMessage, AttachRaises, ReceiveEnd, Connect, Disconnect,
           SetLock, Use, Sleep, vars, world
  <2>2. unheard \subseteq unheard'
    BY DEF Next, Handle, Timer, TimerRaises, Greet, GreetRaises,
           ReceiveMessage, AttachRaises, ReceiveEnd, Connect, Disconnect,
           SetLock, Use, Sleep, Misses, vars, harm
  <2> QED BY <2>1, <2>2
<1> SUFFICES ASSUME calm, unheard' = {}, unheard = {}, Fine PROVE Fine'
  BY <1>2 DEF LockInv
<1>3. /\ locked \in [Node -> BOOLEAN] /\ told \in [Node -> BOOLEAN]
      /\ online \in [Node -> BOOLEAN]
  BY DEF TypeInv, TypeOK
<1>4. \A v \in BOOLEAN : LockType(v) \in Locking /\ LockType(v) \notin Greeting
                        /\ LockType(v) # LockType(~v)
  BY DEF LockType, Locking, Greeting
<1>5. ASSUME UNCHANGED <<queue, online, locked, told>> PROVE Fine'
  BY <1>5 DEF Connected, Agreed, WillLearn
<1>6. ASSUME NEW n \in Node, NEW force \in BOOLEAN, Update(n, force),
             force => Packet(n, Greeting), UNCHANGED <<online, locked>>
      PROVE  Fine'
  <2> DEFINE o == Other(n)
             M == Messages(n, force)
  <2>1. o \in Node /\ o # n /\ Other(o) = n /\ \A m \in Node : m = n \/ m = o
    BY TwoNodes
  <2>2. /\ queue'[n] = IF force THEN Tail(queue[n]) ELSE queue[n]
        /\ queue'[o] = IF Connected THEN queue[o] \o M ELSE queue[o]
        /\ told'[n] = locked[n] /\ told'[o] = told[o]
    BY <1>3, <1>6, <2>1, UpdateIs DEF Packet
  <2>3. Connected' = Connected
    BY <1>6 DEF Connected
  <2>4. /\ M \in Seq(Packets) /\ ~Carries(M, Greeting \cup Ending)
        /\ \A v \in BOOLEAN : Carries(M, {LockType(v)}) <=>
             locked[n] = v /\ ((force /\ v) \/ told[n] # v)
    BY MessagesAre
  <2> HIDE DEF o, M
  <2>5. ASSUME NEW T
        PROVE  Carries(queue'[n], T) => Carries(queue[n], T)
    BY <1>1, <1>6, <2>2, CarriesFirst DEF Packet
  <2>6. CASE ~Connected
    <3>1. Free
      BY <2>6
    <3>2. ~Carries(queue'[n], Locking) /\ ~Carries(queue'[o], Locking)
      BY <2>1, <2>2, <2>5, <2>6, <3>1
    <3> QED BY <2>1, <2>3, <2>6, <3>2
  <2>7. CASE Connected
    <3>1. PICK v \in BOOLEAN : Agreed(v)
      BY <2>7
    <3>2. \A T : Carries(queue'[o], T) <=> Carries(queue[o], T) \/ Carries(M, T)
      BY <1>1, <2>1, <2>2, <2>4, <2>7, CarriesMore
    <3>3. locked[n] # v => told[n] = locked[n] /\ (force => v)
      <4>1. force => Carries(queue[n], Greeting)
        BY <1>1, <1>6, CarriesFirst DEF Packet
      <4> QED BY <3>1, <4>1 DEF Agreed
    <3>4. ~Carries(M, {LockType(~v)})
      BY <1>3, <2>4, <3>3
    <3>5. /\ ~Carries(queue'[n], {LockType(~v)})
          /\ ~Carries(queue'[o], {LockType(~v)})
      BY <2>1, <2>5, <3>1, <3>2, <3>4 DEF Agreed
    <3>6. ASSUME locked[n] # v
          PROVE  /\ told'[n] = locked[n]
                 /\ v \/ ~Carries(queue'[n], Greeting)
                 /\ WillLearn(n, v)'
      <4>1. v \/ ~Carries(queue[n], Greeting)
        BY <3>1, <3>6 DEF Agreed
      <4>2. \/ Carries(queue[n], {LockType(v)})
            \/ /\ locked[o] = v
               /\ told[o] # v \/ (v /\ Carries(queue[o], Greeting))
        BY <3>1, <3>6 DEF Agreed, WillLearn, o
      <4>3. Carries(queue[n], {LockType(v)}) => Carries(queue'[n], {LockType(v)})
        <5>1. CASE force
          <6>1. Head(queue[n]).type \notin {LockType(v)} /\ queue[n] # <<>>
            BY <1>4, <1>6, <5>1 DEF Packet
          <6> QED BY <1>1, <2>2, <5>1, <6>1, CarriesFirst
        <5>2. CASE ~force
          BY <2>2, <5>2
        <5> QED BY <5>1, <5>2
      <4>4. Carries(queue[o], Greeting) => Carries(queue'[o], Greeting)
        BY <3>2
      <4>5. \/ Carries(queue'[n], {LockType(v)})
            \/ /\ locked'[o] = v
               /\ told'[o] # v \/ (v /\ Carries(queue'[o], Greeting))
        BY <1>6, <2>2, <4>2, <4>3, <4>4
      <4> QED BY <2>2, <2>5, <4>1, <4>5 DEF WillLearn, o
    <3>7. ASSUME locked[o] # v
          PROVE  /\ told'[o] = locked[o]
                 /\ v \/ ~Carries(queue'[o], Greeting)
                 /\ WillLearn(o, v)'
      <4>1. told[o] = locked[o] /\ (v \/ ~Carries(queue[o], Greeting))
        BY <2>1, <3>1, <3>7 DEF Agreed
      <4>2. ~Carries(M, Greeting)
        BY <2>4 DEF Carries
      <4>3. \/ Carries(queue[o], {LockType(v)})
            \/ /\ locked[n] = v
               /\ told[n] # v \/ (v /\ Carries(queue[n], Greeting))
        BY <2>1, <3>1, <3>7 DEF Agreed, WillLearn
      <4>4. CASE Carries(queue[o], {LockType(v)})
        BY <2>2, <3>2, <4>1, <4>2, <4>4 DEF WillLearn
      <4>5. CASE locked[n] = v /\ told[n] # v
        <5>1. Carries(M, {LockType(v)})
          BY <2>4, <4>5
        <5> QED BY <2>2, <3>2, <4>1, <4>2, <5>1 DEF WillLearn
      <4>6. CASE locked[n] = v /\ v /\ Carries(queue[n], Greeting)
        <5>1. CASE force
          <6>1. Carries(M, {LockType(v)})
            BY <2>4, <4>6, <5>1
          <6> QED BY <2>2, <3>2, <4>1, <4>2, <6>1 DEF WillLearn
        <5>2. CASE ~force
          <6>1. locked'[n] = v /\ v /\ Carries(queue'[n], Greeting)
            BY <1>6, <2>2, <4>6, <5>2
          <6> QED BY <2>1, <2>2, <3>2, <4>1, <4>2, <6>1 DEF WillLearn
        <5> QED BY <5>1, <5>2
      <4> QED BY <4>3, <4>4, <4>5, <4>6
    <3>8. Agreed(v)'
      BY <1>6, <2>1, <3>5, <3>6, <3>7 DEF Agreed
    <3> QED BY <2>3, <2>7, <3>8
  <2> QED BY <2>6, <2>7
<1>7. ASSUME NEW n \in Node, Timer(n) PROVE Fine'
  BY <1>6, <1>7 DEF Timer, world
<1>8. ASSUME NEW n \in Node, Greet(n) PROVE Fine'
  BY <1>6, <1>8 DEF Greet, world, Greeting
<1>9. ASSUME NEW n \in Node, queue[n] # <<>>, Received(n),
             Head(queue[n]).type \notin Greeting, UNCHANGED <<online, told>>,
             \/ Head(queue[n]).type \notin Locking /\ locked' = locked
             \/ \E b \in BOOLEAN :
                  /\ Head(queue[n]).type = LockType(b)
                  /\ locked' = [locked EXCEPT ![n] = b]
      PROVE  Fine'
  <2> DEFINE o == Other(n)
  <2>1. o \in Node /\ o # n /\ Other(o) = n /\ \A m \in Node : m = n \/ m = o
    BY TwoNodes
  <2>2. queue'[n] = Tail(queue[n]) /\ queue'[o] = queue[o]
    BY <1>9, ReceivedIs
  <2>3. Connected' = Connected
    BY <1>9 DEF Connected
  <2> HIDE DEF o
  <2>4. ASSUME NEW T
        PROVE  Carries(queue[n], T) <=>
                 Head(queue[n]).type \in T \/ Carries(queue'[n], T)
    BY <1>1, <1>9, <2>2, CarriesFirst
  <2>5. CASE ~Connected
    <3>1. ~Carries(queue'[n], Locking) /\ ~Carries(queue'[o], Locking)
      BY <2>1, <2>2, <2>4, <2>5
    <3> QED BY <2>1, <2>3, <2>5, <3>1
  <2>6. CASE Connected
    <3>1. PICK v \in BOOLEAN : Agreed(v)
      BY <2>6
    <3>2. ~Carries(queue[n], {LockType(~v)}) /\ ~Carries(queue[o], {LockType(~v)})
      BY <2>1, <3>1 DEF Agreed
    <3>3. Head(queue[n]).type # LockType(~v)
      BY <2>4, <3>2
    <3>4. \/ Head(queue[n]).type # LockType(v) /\ locked' = locked
          \/ locked' = [locked EXCEPT ![n] = v]
      BY <1>4, <1>9, <3>3
    <3>5. locked'[o] = locked[o] /\ (locked'[n] = locked[n] \/ locked'[n] = v)
      BY <1>3, <2>1, <3>4
    <3>6. /\ ~Carries(queue'[n], {LockType(~v)})
          /\ ~Carries(queue'[o], {LockType(~v)})
      BY <2>2, <2>4, <3>2
    <3>7. ASSUME locked'[n] # v
          PROVE  /\ told'[n] = locked'[n]
                 /\ v \/ ~Carries(queue'[n], Greeting)
                 /\ WillLearn(n, v)'
      <4>1. locked' = locked /\ Head(queue[n]).type # LockType(v)
        BY <1>3, <3>4, <3>7
      <4>2. /\ told[n] = locked[n]
            /\ v \/ ~Carries(queue[n], Greeting)
            /\ WillLearn(n, v)
        BY <3>1, <3>7, <4>1 DEF Agreed
      <4>3. Carries(queue[n], {LockType(v)}) => Carries(queue'[n], {LockType(v)})
        BY <2>4, <4>1
      <4>4. WillLearn(n, v)'
        BY <1>9, <2>2, <4>1, <4>2, <4>3 DEF WillLearn, o
      <4> QED BY <1>9, <2>4, <4>1, <4>2, <4>4
    <3>8. ASSUME locked'[o] # v
          PROVE  /\ told'[o] = locked'[o]
                 /\ v \/ ~Carries(queue'[o], Greeting)
                 /\ WillLearn(o, v)'
      <4>1. /\ told[o] = locked[o]
            /\ v \/ ~Carries(queue[o], Greeting)
            /\ WillLearn(o, v)
        BY <2>1, <3>1, <3>5, <3>8 DEF Agreed
      <4>2. Carries(queue[n], Greeting) => Carries(queue'[n], Greeting)
        BY <1>9, <2>4
      <4>3. WillLearn(o, v)'
        BY <1>9, <2>1, <2>2, <3>5, <4>1, <4>2 DEF WillLearn
      <4> QED BY <1>9, <2>2, <3>5, <4>1, <4>3
    <3>9. Agreed(v)'
      BY <2>1, <3>6, <3>7, <3>8 DEF Agreed
    <3> QED BY <2>3, <2>6, <3>9
  <2> QED BY <2>5, <2>6
<1>10. ASSUME NEW n \in Node, ReceiveMessage(n) PROVE Fine'
  <2>1. /\ queue[n] # <<>> /\ Received(n) /\ UNCHANGED <<online, told>>
        /\ Head(queue[n]).type \in {"idle_since", "lock", "unlock"}
    BY <1>10 DEF ReceiveMessage, Packet, world, sender
  <2>2. CASE Head(queue[n]).type = "idle_since"
    <3>1. locked' = locked
      BY <1>10, <2>2 DEF ReceiveMessage
    <3> QED BY <1>9, <2>1, <2>2, <3>1 DEF Greeting, Locking
  <2>3. CASE Head(queue[n]).type = "lock"
    <3>1. locked' = [locked EXCEPT ![n] = TRUE] /\ LockType(TRUE) = "lock"
      BY <1>10, <2>3 DEF ReceiveMessage, LockType
    <3> QED BY <1>9, <2>1, <2>3, <3>1 DEF Greeting
  <2>4. CASE Head(queue[n]).type = "unlock"
    <3>1. locked' = [locked EXCEPT ![n] = FALSE] /\ LockType(FALSE) = "unlock"
      BY <1>10, <2>4 DEF ReceiveMessage, LockType
    <3> QED BY <1>9, <2>1, <2>4, <3>1 DEF Greeting
  <2> QED BY <2>1, <2>2, <2>3, <2>4
<1>11. ASSUME NEW n \in Node, ReceiveEnd(n) PROVE Fine'
  <2>1. /\ queue[n] # <<>> /\ Received(n) /\ UNCHANGED <<online, told, locked>>
        /\ Head(queue[n]).type \in {"leave", "disconnect"}
    BY <1>11 DEF ReceiveEnd, Packet, world, sender
  <2> QED BY <1>9, <2>1 DEF Greeting, Locking
<1>12. ASSUME Move
       PROVE  Quiet /\ LocksQuiet /\ \A m \in Node : queue[m] = <<>>
  <2>1. Quiet
    BY <1>12 DEF Move
  <2> QED BY <2>1, QuietLocks DEF Quiet
<1>13. ASSUME NEW n \in Node, Connect(n) PROVE Fine'
  <2>1. Quiet
    BY <1>12, <1>13 DEF Connect
  <2>2. /\ Note("welcome") \in Packets /\ Note("welcome").type = "welcome"
        /\ Note("join") \in Packets /\ Note("join").type = "join"
    BY TimeType DEF Note, Packets, Greeting
  <2>3. ASSUME NEW m \in Node, NEW T, T \subseteq Locking
        PROVE  ~Carries(queue'[m], T)
    <3>1. ~Carries(queue[m], T) /\ queue[m] = <<>>
      BY <2>1, CarriesNone DEF Quiet
    <3>2. "welcome" \notin T /\ "join" \notin T
      BY <2>3 DEF Locking
    <3>3. /\ ~Carries(Append(queue[m], Note("welcome")), T)
          /\ ~Carries(Append(queue[m], Note("join")), T)
      <4>1. queue[m] \in Seq(Packets)
        BY <1>1
      <4>2. ~Carries(Append(queue[m], Note("welcome")), T)
        BY <2>2, <3>1, <3>2, <4>1, CarriesLast
      <4>3. ~Carries(Append(queue[m], Note("join")), T)
        BY <2>2, <3>1, <3>2, <4>1, CarriesLast
      <4> QED BY <4>2, <4>3
    <3>4. CASE m = n
      <4>1. queue'[m] = Append(queue[m], Note("welcome"))
        BY <1>13, <3>4, ConnectIs
      <4> QED BY <3>3, <4>1
    <3>5. CASE m = Other(n)
      <4>1. queue'[m] = Append(queue[m], Note("join")) \/ queue'[m] = queue[m]
        BY <1>13, <3>5, ConnectIs
      <4>3. CASE queue'[m] = Append(queue[m], Note("join"))
        BY <3>3, <4>3
      <4>4. CASE queue'[m] = queue[m]
        BY <3>1, <4>4
      <4> QED BY <4>1, <4>3, <4>4
    <3> QED BY <3>4, <3>5, TwoNodes
  <2>4. CASE ~Connected'
    BY <2>3, <2>4
  <2>5. CASE Connected'
    <3>1. PICK v \in BOOLEAN : v = \E m \in Node : locked[m]
      OBVIOUS
    <3>2. /\ online[Other(n)] /\ Other(n) \in Node /\ Other(n) # n
          /\ Other(Other(n)) = n
      BY <1>3, <1>13, <2>5, TwoNodes, ConnectIs DEF Connected
    <3>3. /\ queue'[n] = Append(queue[n], Note("welcome"))
          /\ queue'[Other(n)] = Append(queue[Other(n)], Note("join"))
      BY <1>13, <3>2, ConnectIs
    <3>4. \A m \in Node : Carries(queue'[m], Greeting)
      <4>1. Carries(queue'[n], Greeting) /\ Carries(queue'[Other(n)], Greeting)
        BY <1>1, <2>2, <3>2, <3>3, CarriesLast DEF Greeting
      <4> QED BY <4>1, TwoNodes
    <3>5. locked' = locked /\ told' = told
      BY <1>13 DEF Connect, sender
    <3>6. ASSUME NEW m \in Node, locked[m] # v
          PROVE  v /\ locked[Other(m)] /\ ~locked[m]
      BY <1>3, <3>1, <3>6, TwoNodes
    <3>7. ASSUME NEW m \in Node PROVE ~Carries(queue'[m], {LockType(~v)})
      <4>1. {LockType(~v)} \subseteq Locking
        BY <1>4, <3>1
      <4> QED BY <2>3, <4>1
    <3>8. ASSUME NEW m \in Node, locked[m] # v
          PROVE  told[m] = locked[m] /\ v /\ WillLearn(m, v)'
      <4>1. told[m] = locked[m]
        BY <2>1, QuietIs
      <4>2. /\ v /\ locked'[Other(m)] = v
            /\ Carries(queue'[Other(m)], Greeting)
        BY <1>3, <3>1, <3>4, <3>5, <3>6, <3>8, TwoNodes
      <4> QED BY <4>1, <4>2 DEF WillLearn
    <3>9. Agreed(v)'
      BY <3>5, <3>7, <3>8 DEF Agreed
    <3> QED BY <2>5, <3>1, <3>9
  <2> QED BY <2>4, <2>5
<1>14. ASSUME NEW n \in Node, Disconnect(n) PROVE Fine'
  <2>1. Quiet
    BY <1>12, <1>14 DEF Disconnect
  <2>2. ~Connected'
    BY <1>3, <1>14, DisconnectIs DEF Connected
  <2>3. \A m \in Node : queue[m] = <<>>
    BY <2>1 DEF Quiet
  <2>4. ASSUME NEW type \in Ending
        PROVE  ~Carries(Append(<<>>, Note(type)), Locking)
    <3>1. /\ Note(type) \in Packets /\ Note(type).type \notin Locking
          /\ <<>> \in Seq(Packets)
      BY TimeType DEF Note, Packets, Ending, Locking
    <3> QED BY <3>1, CarriesLast, CarriesNone
  <2>5. ~Carries(queue'[n], Locking)
    <3>1. PICK k \in 0..Len(queue[n]) :
            queue'[n] = Append(SubSeq(queue[n], 1, k), Note("disconnect"))
      BY <1>14, DisconnectIs
    <3>2. SubSeq(queue[n], 1, k) = <<>>
      BY <2>3, <3>1, SubSeqEmpty
    <3> QED BY <2>4, <3>1, <3>2 DEF Ending
  <2>6. ~Carries(queue'[Other(n)], Locking)
    <3>1. \/ queue'[Other(n)] = Append(queue[Other(n)], Note("leave"))
          \/ queue'[Other(n)] = queue[Other(n)]
      BY <1>14, DisconnectIs
    <3>2. queue[Other(n)] = <<>>
      BY <2>3, TwoNodes
    <3> QED BY <2>4, <3>1, <3>2, CarriesNone DEF Ending
  <2> QED BY <2>2, <2>5, <2>6, TwoNodes
<1>15. ASSUME NEW n \in Node, SetLock(n) PROVE Fine'
  <2>1. Quiet /\ LocksQuiet /\ UNCHANGED <<online, queue, told>>
    BY <1>12, <1>15 DEF SetLock, sender
  <2>2. Connected' = Connected
    BY <2>1 DEF Connected
  <2>3. CASE ~Connected
    BY <2>1, <2>2, <2>3
  <2>4. CASE Connected
    <3>1. PICK w \in BOOLEAN : Agreed(w)
      BY <2>4
    <3>2. \A m \in Node : locked[m] = w /\ told[m] = w
      BY <2>1, <3>1, QuietAgrees, QuietIs
    <3>3. locked' = [locked EXCEPT ![n] = ~w]
      BY <1>15, <3>2 DEF SetLock
    <3>4. \A m \in Node : \A T : ~Carries(queue'[m], T)
      BY <2>1, CarriesNone DEF Quiet
    <3>5. PICK v \in BOOLEAN : v = ~w
      OBVIOUS
    <3>6. ASSUME NEW m \in Node, locked'[m] # v
          PROVE  told'[m] = locked'[m] /\ WillLearn(m, v)'
      <4>1. m # n /\ m = Other(n) /\ Other(m) = n
        BY <1>3, <3>3, <3>5, <3>6, TwoNodes
      <4>2. locked'[m] = w /\ told'[m] = w
        BY <1>3, <2>1, <3>2, <3>3, <4>1
      <4>3. locked'[Other(m)] = v /\ told'[Other(m)] # v
        BY <1>3, <2>1, <3>2, <3>3, <3>5, <4>1
      <4> QED BY <4>2, <4>3 DEF WillLearn
    <3>7. Agreed(v)'
      BY <3>4, <3>6 DEF Agreed
    <3> QED BY <2>2, <2>4, <3>7
  <2> QED BY <2>3, <2>4
<1>16. ASSUME NEW n \in Node, NEW t \in 0..MaxInput, NEW u \in Uses, Use(n, t, u)
       PROVE  Fine'
  BY <1>5, <1>16 DEF Use, sender
<1>17. ASSUME NEW n \in Node, Sleep(n) PROVE Fine'
  BY <1>5, <1>17 DEF Sleep, sender
<1>18. ASSUME NEW n \in Node, TimerRaises(n) \/ GreetRaises(n) \/ AttachRaises(n)
       PROVE  FALSE
  BY <1>18, TwoNodes DEF TimerRaises, GreetRaises, AttachRaises, Misses
<1>19. CASE UNCHANGED vars
  BY <1>5, <1>19 DEF vars, world, sender
<1> QED BY <1>7, <1>8, <1>10, <1>11, <1>13, <1>14, <1>15, <1>16, <1>17, <1>18,
           <1>19 DEF Next, Handle
-----------------------------------------------------------------------------
LEMMA InvInit == Init => IInv
<1> SUFFICES ASSUME Init PROVE IInv
  OBVIOUS
<1>1. /\ \A n \in Node : /\ queue[n] = <<>> /\ ~attached[n] /\ view[n] = Unset
                           /\ input[n] = 0 /\ use[n] = "idle" /\ sent[n] = 0
      /\ Node # {}
  BY NodeAssumption, FS_EmptySet DEF Init
<1>2. TypeInv
  BY TypeInit
<1>3. \A n \in Node : ~online[n]
  BY DEF Init
<1>4. ~Connected
  BY <1>1, <1>3 DEF Connected
<1>5. GhostInv
  BY <1>1 DEF GhostInv, Ended
<1>6. ViewInv
  BY <1>4 DEF ViewInv
<1>7. PastInv
  <2>1. 0 # Inf /\ Unset # Inf /\ Unset <= 0 /\ 0 \in Time
    BY BoundsAssumption, TimeType DEF Unset, Inf
  <2>2. 0 \in Past /\ Unset \in Past
    BY <1>1, <2>1 DEF Past
  <2> QED BY <1>1, <2>2 DEF PastInv, Reports
<1>8. LockInv
  BY <1>1, <1>4, CarriesNone DEF LockInv
<1> QED BY <1>2, <1>5, <1>6, <1>7, <1>8 DEF IInv

LEMMA InvStep == IInv /\ [Next]_vars => IInv'
BY TypeStep, GhostStep, ViewStep, PastStep, LockStep DEF IInv

LEMMA Invariance == Spec => []IInv
BY InvInit, InvStep, PTL DEF Spec

\* For any bounds, what an instance believes of the other is true: an instance
\* that has left has no session once all packets are handled, and who is
\* connected has the idle time of the other, once all is quiet, unless a handler
\* raised while the other told it
\* (remote_receiver.py:29-39, remote_sender.py:43-59, session/remote.py:21-24).
THEOREM Views == Spec => []ViewsAreTrue
<1>1. IInv => ViewsAreTrue
  <2> SUFFICES ASSUME IInv PROVE ViewsAreTrue
    OBVIOUS
  <2> USE DEF IInv
  <2>1. GhostsLeave
    BY CarriesNone DEF GhostsLeave, GhostInv
  <2>2. ViewsAreCurrent
    <3> SUFFICES ASSUME Quiet, Connected, NEW n \in Node, Other(n) \notin unheard
                 PROVE  attached[n] /\ view[n] = IdleSince(Other(n))
      BY DEF ViewsAreCurrent
    <3>1. Other(n) \in Node
      BY TwoNodes
    <3>2. queue[n] = <<>> /\ queue[Other(n)] = <<>>
      BY <3>1 DEF Quiet
    <3>3. sent[Other(n)] = IdleSince(Other(n))
      BY <3>1, QuietIs
    <3>4. ~Carries(queue[Other(n)], Greeting)
      BY <3>2, CarriesNone
    <3>5. ~Latest(queue[n], sent[Other(n)])
      BY <3>2 DEF Latest
    <3> QED BY <3>3, <3>4, <3>5 DEF ViewInv, Knows
  <2> QED BY <2>1, <2>2 DEF ViewsAreTrue, TypeInv
<1> QED BY <1>1, Invariance, PTL

\* For any bounds, and any number of reports under way, two connected
\* instances agree on the idle time once all is quiet, in use or not, where
\* none goes to sleep and no handler raised.  The time is not before that of the
\* local sessions of either, nor after the latest input: no report of an input
\* that never was is passed to and fro, but inf may be, after a session was in
\* use or none was there (remote_sender.py:51-59, __init__.py:50-65).
THEOREM Shared == Spec => []IdleIsShared
<1>1. ViewsAreTrue /\ IInv => IdleIsShared
  <2> SUFFICES ASSUME ViewsAreTrue, IInv, Quiet, Connected, unheard = {},
                      \A n \in Node : ~sleeping[n]
               PROVE  \E t \in Time :
                        /\ \A n \in Node : IdleSince(n) = t /\ t >= Local(n)
                        /\ IF t = Inf THEN used
                           ELSE \E n \in Node : t <= input[n]
    BY DEF IdleIsShared
  <2>1. TypeInv
    BY DEF IInv
  <2>2. ASSUME NEW n \in Node
        PROVE  /\ IdleSince(n) >= IdleSince(Other(n))
               /\ IdleSince(n) >= Local(n) /\ IdleSince(n) \in Time
    <3>1. Other(n) \in Node
      BY TwoNodes
    <3>2. attached[n] /\ view[n] = IdleSince(Other(n))
      BY <3>1 DEF ViewsAreTrue, ViewsAreCurrent
    <3>3. view[n] # Unset
      BY <2>1, <3>1, <3>2, IdleSinceIs, TimeType
    <3> QED BY <2>1, <3>2, <3>3, IdleSinceIs
  <2>3. PICK n \in Node : TRUE
    BY NodeAssumption, FS_EmptySet
  <2> DEFINE t == IdleSince(n)
  <2>4. Other(n) \in Node /\ Other(Other(n)) = n
    BY TwoNodes
  <2>5. t = IdleSince(Other(n))
    <3>1. IdleSince(n) \in Int /\ IdleSince(Other(n)) \in Int
      BY <2>2, <2>4, TimeType
    <3>2. /\ IdleSince(n) >= IdleSince(Other(n))
          /\ IdleSince(Other(n)) >= IdleSince(n)
      BY <2>2, <2>4
    <3> QED BY <3>1, <3>2
  <2>6. \A m \in Node : IdleSince(m) = t /\ t >= Local(m)
    BY <2>2, <2>5, TwoNodes
  <2>7. t \in Past
    <3>1. view[Other(n)] = t
      BY <2>4 DEF ViewsAreTrue, ViewsAreCurrent
    <3> QED BY <2>4, <3>1 DEF IInv, PastInv
  <2>8. IF t = Inf THEN used ELSE \E m \in Node : t <= input[m]
    BY <2>7 DEF Past
  <2> HIDE DEF t
  <2> QED BY <2>2, <2>6, <2>8 DEF t
<1>2. Spec => []ViewsAreTrue
  BY Views
<1> QED BY <1>1, <1>2, Invariance, PTL

\* For any bounds, connected instances of calm users are locked together once
\* nothing about locks is under way, also those that were locked while they
\* were apart, unless a handler raised (remote_sender.py:61-67).
THEOREM Locks == Spec => []LocksAgree
<1>1. IInv => LocksAgree
  <2> SUFFICES ASSUME IInv, LocksQuiet, Connected, calm, unheard = {},
                      NEW m \in Node, NEW n \in Node
               PROVE  locked[m] = locked[n]
    BY DEF LocksAgree
  <2>1. PICK v \in BOOLEAN : Agreed(v)
    BY DEF IInv, LockInv
  <2> QED BY <2>1, QuietAgrees DEF IInv
<1> QED BY <1>1, Invariance, PTL
=============================================================================
