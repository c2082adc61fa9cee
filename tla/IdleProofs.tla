----------------------------- MODULE IdleProofs -----------------------------
(***************************************************************************)
(* Proofs about Idle, for every set of sessions and of thresholds: what is *)
(* believed of idle sessions is true, and the timer is in time.            *)
(***************************************************************************)
EXTENDS Idle, SequenceTheorems, FiniteSetTheorems, WellFoundedInduction, TLAPS

\* What a set of numbers has a least one of, and a finite one a greatest one.

LEMMA LeastNumber ==
  ASSUME NEW T \in SUBSET Nat, T # {}
  PROVE  \E m \in T : \A n \in T : m <= n
<1>1. PICK m \in T : \A n \in T : ~(<<n, m>> \in OpToRel(<, Nat))
  BY NatLessThanWellFounded, WFMin
<1>2. \A n \in T : ~(n < m)
  BY <1>1 DEF OpToRel
<1> QED BY <1>2

LEMMA MinIs ==
  ASSUME NEW S \in SUBSET Int, S # {}, \A n \in S : n >= -1
  PROVE  Min(S) \in S /\ \A n \in S : Min(S) <= n
<1> DEFINE T == {n \in Nat : n - 1 \in S}
<1>1. T \in SUBSET Nat /\ T # {}
  <2>1. PICK n : n \in S
    OBVIOUS
  <2>2. n + 1 \in Nat /\ (n + 1) - 1 = n
    BY <2>1
  <2>3. n + 1 \in T
    BY <2>1, <2>2
  <2> QED BY <2>3
<1>2. PICK m \in T : \A n \in T : m <= n
  BY <1>1, LeastNumber
<1>3. m - 1 \in S
  OBVIOUS
<1>4. ASSUME NEW n \in S PROVE m - 1 <= n
  <2>1. n + 1 \in Nat /\ (n + 1) - 1 = n
    OBVIOUS
  <2>2. n + 1 \in T
    BY <2>1
  <2> QED BY <1>2, <2>1, <2>2
<1> QED BY <1>3, <1>4 DEF Min

LEMMA MaxIs ==
  ASSUME NEW S \in SUBSET Nat, S # {}, IsFiniteSet(S)
  PROVE  Max(S) \in S /\ \A n \in S : n <= Max(S)
<1>1. PICK k \in Nat : ExistsBijection(1..k, S)
  BY FS_CardinalityType
<1>2. PICK f \in [1..k -> S] : \A x \in S : \E i \in 1..k : f[i] = x
  BY <1>1 DEF ExistsBijection, Bijection, Surjection
<1> DEFINE Bounded(n) == \E x \in S : \A i \in 1..n : f[i] <= x
           T == {n \in 0..k : ~Bounded(n)}
<1>3. ASSUME T # {} PROVE FALSE
  <2>1. T \in SUBSET Nat
    OBVIOUS
  <2>2. PICK n \in T : \A m \in T : n <= m
    BY <1>3, <2>1, LeastNumber
  <2>3. Bounded(0)
    <3>1. \A i \in 1..0 : FALSE
      OBVIOUS
    <3> QED BY <3>1
  <2>4. n \in 1..k
    BY <2>3
  <2>5. n - 1 \in 0..k /\ ~(n <= n - 1)
    BY <2>4
  <2>6. n - 1 \notin T
    BY <2>2, <2>5
  <2>7. Bounded(n - 1)
    BY <2>5, <2>6
  <2>8. PICK x \in S : \A i \in 1..(n - 1) : f[i] <= x
    BY <2>7
  <2>9. f[n] \in S /\ f[n] \in Nat /\ x \in Nat
    BY <2>4
  <2>10. ASSUME NEW i \in 1..n
         PROVE  f[i] \in Nat /\ (i = n \/ i \in 1..(n - 1))
    <3>1. i \in 1..k /\ (i = n \/ i \in 1..(n - 1))
      BY <2>4
    <3> QED BY <3>1
  <2>11. CASE f[n] <= x
    BY <2>8, <2>10, <2>11
  <2>12. CASE x <= f[n]
    <3>1. \A i \in 1..n : f[i] <= f[n]
      BY <2>8, <2>9, <2>10, <2>12
    <3> QED BY <2>9, <3>1
  <2> QED BY <2>9, <2>11, <2>12
<1>4. Bounded(k)
  BY <1>3
<1>5. \E x \in S : \A n \in S : n <= x
  BY <1>2, <1>4
<1> QED BY <1>5 DEF Max
-----------------------------------------------------------------------------
\* The inductive invariant

Lines == {"on", "off"}

\* The lines of xss that are under way say what the screen saver has done: the
\* last one is "off" unless it is on.  A session that never came has none.
SaverInv ==
  \A s \in X11 :
    /\ s \in saver => s \in attached
    /\ s \notin attached \cup detached => s \notin idle /\ events[s] = <<>>
    /\ s \in attached \ (saver \cup detached) =>
         IF events[s] = <<>> THEN s \notin idle
         ELSE events[s][Len(events[s])] = "off"

\* The idle time of an idle session has been measured, and is at least the
\* true one.
MeasuredInv ==
  \A s \in X11 \cap attached \cap idle :
    /\ ~sleeping => idleSince[s] # Unknown
    /\ s \notin detached => idleSince[s] = Unknown \/ age[s] <= idleSince[s]

\* Where displays do not come back under their old names, what is attached was
\* never detached, and the cached times are true.
CacheInv ==
  ~MayReattach => attached \cap detached \cap Device = {} /\ CacheIsCurrent

\* A threshold that was passed in the last update() still is, or the input
\* that ended it has been noticed and is on its way.
PassedInv ==
  ~MayReattach /\ ~sleeping =>
    \A t \in passed, s \in attached :
      /\ s \in X11 =>
           s \in idle /\ (t <= age[s] \/ "off" \in Range(events[s]))
      /\ s \in watching => t <= age[s]
-----------------------------------------------------------------------------
LEMMA ForeverIs ==
  /\ Forever \in Thresholds /\ Forever \in Nat \ {0}
  /\ \A t \in Thresholds : t \in Nat \ {0} /\ t <= Forever
BY MaxIs, ThresholdsAssumption DEF Forever

LEMMA Kinds ==
  /\ \A s \in X11 : s \in Device /\ s \in Session /\ s \notin TTY
  /\ \A s \in TTY : s \in Device /\ s \in Session /\ s \notin X11
  /\ \A s \in Session : s \in X11 \/ s \in TTY \/ s \in WakeLock
  /\ \A s \in WakeLock : s \notin Device
BY KindsAssumption DEF Device, Session

\* get_idle_since() of a session
LEMMA IdleOfIs ==
  ASSUME TypeOK, NEW s \in Session
  PROVE  /\ IdleOf(s) \in -1..Forever
         /\ s \in TTY => IdleOf(s) = age[s]
         /\ s \in X11 /\ s \in idle => IdleOf(s) = idleSince[s]
         /\ s \notin TTY /\ s \notin idle => IdleOf(s) = -1
<1>1. /\ \A d \in Device : age[d] \in 0..Forever
      /\ \A x \in X11 : idleSince[x] \in -1..Forever
      /\ idle \subseteq X11
  BY DEF TypeOK, Unknown
<1> QED BY <1>1, Kinds, ForeverIs DEF IdleOf, Never

\* get_idle_since() is the latest of those of the sessions.
LEMMA IdleTimeIs ==
  TypeOK =>
    /\ IdleTime \in -1..Forever
    /\ sleeping => IdleTime = Forever
    /\ ~sleeping /\ attached = {} => IdleTime = -1
    /\ ~sleeping /\ attached # {} => \E s \in attached : IdleTime = IdleOf(s)
    /\ ~sleeping => \A s \in attached : IdleTime <= IdleOf(s)
<1> SUFFICES ASSUME TypeOK
             PROVE  /\ IdleTime \in -1..Forever
                    /\ sleeping => IdleTime = Forever
                    /\ ~sleeping /\ attached = {} => IdleTime = -1
                    /\ ~sleeping /\ attached # {} =>
                         \E s \in attached : IdleTime = IdleOf(s)
                    /\ ~sleeping => \A s \in attached : IdleTime <= IdleOf(s)
  OBVIOUS
<1>1. CASE sleeping
  BY <1>1, ForeverIs DEF IdleTime
<1>2. CASE ~sleeping /\ attached = {}
  BY <1>2, ForeverIs DEF IdleTime, Never
<1>3. CASE ~sleeping /\ attached # {}
  <2> DEFINE S == {IdleOf(s) : s \in attached}
  <2>1. \A s \in attached : IdleOf(s) \in -1..Forever
    BY IdleOfIs DEF TypeOK
  <2>2. S \in SUBSET Int /\ S # {} /\ \A n \in S : n >= -1
    BY <1>3, <2>1, ForeverIs
  <2> HIDE DEF S
  <2>3. Min(S) \in S /\ \A n \in S : Min(S) <= n
    BY <2>2, MinIs
  <2>4. IdleTime = Min(S)
    BY <1>3 DEF IdleTime, S
  <2>5. \A n \in S : \E s \in attached : n = IdleOf(s)
    BY DEF S
  <2>6. \A s \in attached : IdleOf(s) \in S
    BY DEF S
  <2>7. PICK s \in attached : IdleTime = IdleOf(s)
    BY <2>3, <2>4, <2>5
  <2>8. \A r \in attached : IdleTime <= IdleOf(r)
    BY <2>3, <2>4, <2>6
  <2>9. IdleTime \in -1..Forever
    BY <2>1, <2>7
  <2> QED BY <1>3, <2>7, <2>8, <2>9
<1> QED BY <1>1, <1>2, <1>3 DEF TypeOK

IdleTimes ==
  /\ IdleTime \in -1..Forever
  /\ sleeping => IdleTime = Forever
  /\ ~sleeping /\ attached = {} => IdleTime = -1
  /\ ~sleeping /\ attached # {} => \E s \in attached : IdleTime = IdleOf(s)
  /\ ~sleeping => \A s \in attached : IdleTime <= IdleOf(s)
  /\ \A s \in Session :
       /\ IdleOf(s) \in -1..Forever
       /\ s \in TTY => IdleOf(s) = age[s]
       /\ s \in X11 /\ s \in idle => IdleOf(s) = idleSince[s]
       /\ s \notin TTY /\ s \notin idle => IdleOf(s) = -1

LEMMA IdleTimesNow == TypeOK => IdleTimes
BY IdleTimeIs, IdleOfIs DEF IdleTimes

LEMMA IdleTimesNext == TypeOK' => IdleTimes'
BY IdleTimesNow, PTL

\* update() reads the idle times that it has not cached.
LEMMA UpdateIs ==
  ASSUME NEW h, NEW known \in [X11 -> Unknown..Forever], Update(h, known),
         age' \in [Device -> 0..Forever], idle' \subseteq X11
  PROVE  /\ idleSince' \in [X11 -> Unknown..Forever]
         /\ \A s \in X11 :
              idleSince'[s] =
                IF s \in attached' /\ s \in idle' /\ ~sleeping' /\ known[s] = Unknown
                THEN age'[s] ELSE known[s]
         /\ passed' = {t \in asked : t <= IdleTime'}
         /\ task' = <<h>> /\ lag' = 0
<1>1. \A s \in X11 : age'[s] \in 0..Forever /\ known[s] \in Unknown..Forever
  BY Kinds
<1>2. idleSince' = [s \in X11 |->
        IF s \in attached' \cap idle' /\ ~sleeping' /\ known[s] = Unknown
        THEN age'[s] ELSE known[s]]
  BY DEF Update, Measured
<1>3. 0..Forever \subseteq Unknown..Forever
  BY ForeverIs DEF Unknown
<1>4. idleSince' \in [X11 -> Unknown..Forever]
  BY <1>1, <1>2, <1>3
<1> QED BY <1>2, <1>4 DEF Update

LEMMA InvalidatedIs ==
  ASSUME TypeOK, NEW S
  PROVE  /\ Invalidated(S) \in [X11 -> Unknown..Forever]
         /\ \A s \in X11 :
              Invalidated(S)[s] = IF s \in S THEN Unknown ELSE idleSince[s]
<1>1. \A s \in X11 : idleSince[s] \in Unknown..Forever
  BY DEF TypeOK
<1>2. Unknown \in Unknown..Forever
  BY ForeverIs DEF Unknown
<1> QED BY <1>1, <1>2 DEF Invalidated

\* timer_start_next() waits for the next threshold.
LEMMA StartNextIs ==
  ASSUME TypeOK, NEW S \in SUBSET Thresholds, NEW ws \in SUBSET Timer
  PROVE  /\ StartNext(S, ws) \subseteq Timer
         /\ \A w \in ws : w.of # S => w \in StartNext(S, ws)
         /\ IdleTime >= 0 /\ (\E t \in S : IdleTime < t) =>
              \E w \in StartNext(S, ws) :
                /\ w.of = S
                /\ \A t \in S : IdleTime < t => w.left <= t - IdleTime + 1
<1> DEFINE later == {t \in S : IdleTime < t}
           next == [of |-> S, left |-> Min(later) - IdleTime + 1, held |-> TRUE]
<1>1. IdleTime \in -1..Forever
  BY IdleTimeIs
<1>2. ASSUME IdleTime >= 0, later # {}
      PROVE  /\ next \in Timer
             /\ \A t \in S : IdleTime < t => next.left <= t - IdleTime + 1
  <2>1. later \in SUBSET Int /\ \A t \in later : t >= -1
    <3>1. \A t \in later : t \in Nat
      BY ForeverIs
    <3> QED BY <3>1
  <2>2. Min(later) \in later /\ \A t \in later : Min(later) <= t
    BY <1>2, <2>1, MinIs
  <2> HIDE DEF later
  <2>3. Min(later) \in S /\ IdleTime < Min(later)
    BY <2>2 DEF later
  <2>4. Min(later) \in Nat /\ Min(later) <= Forever
    BY <2>3, ForeverIs
  <2>5. Min(later) - IdleTime + 1 \in 0..Forever + 1
    BY <1>1, <1>2, <2>3, <2>4, ForeverIs
  <2>6. next \in Timer
    BY <2>5 DEF Timer
  <2>7. ASSUME NEW t \in S, IdleTime < t PROVE next.left <= t - IdleTime + 1
    <3>1. t \in later /\ t \in Nat
      BY <2>7, ForeverIs DEF later
    <3> QED BY <1>1, <2>2, <2>4, <3>1
  <2> QED BY <2>6, <2>7
<1>3. StartNext(S, ws) =
        Cancel(S, ws) \cup (IF IdleTime < 0 \/ later = {} THEN {} ELSE {next})
  BY DEF StartNext
<1> HIDE DEF next, later
<1>4. /\ Cancel(S, ws) \subseteq ws
      /\ \A w \in ws : w.of # S => w \in Cancel(S, ws)
  BY DEF Cancel
<1>5. StartNext(S, ws) \subseteq Timer
  BY <1>1, <1>2, <1>3, <1>4
<1>6. ASSUME IdleTime >= 0, NEW t \in S, IdleTime < t
      PROVE  \E w \in StartNext(S, ws) :
               /\ w.of = S
               /\ \A u \in S : IdleTime < u => w.left <= u - IdleTime + 1
  <2>1. later # {}
    BY <1>6 DEF later
  <2>2. next \in StartNext(S, ws) /\ next.of = S
    BY <1>1, <1>3, <1>6, <2>1 DEF next
  <2> QED BY <1>2, <1>6, <2>1, <2>2
<1> QED BY <1>3, <1>4, <1>5, <1>6

LEMMA CancelIs ==
  ASSUME NEW S, NEW ws
  PROVE  /\ Cancel(S, ws) \subseteq ws
         /\ \A w \in ws : w.of # S => w \in Cancel(S, ws)
BY DEF Cancel

\* What the tasks have in common: they bring the cached times up to date.
Evaluates ==
  /\ task = <<>>
  /\ \E h \in SUBSET Thresholds, known \in [X11 -> Unknown..Forever] :
       /\ Update(h, known)
       /\ \A s \in X11 : known[s] \in {Unknown, idleSince[s]}
  /\ UNCHANGED <<given, xTimeout, timer>>

\* However update() ends, it leaves the sessions and what it has evaluated.
LEMMA EndTaskIs == Apply \/ ApplyRaises => EndTask
BY DEF Apply, ApplyRaises

LEMMA TaskIs ==
  ASSUME TypeOK
  PROVE  /\ \A s \in X11 : XssEvent(s) => Evaluates
         /\ \A s \in TTY : TTYEvent(s) => Evaluates
         /\ \A S \in fired : TimerDone(S) => Evaluates
         /\ \A s \in Session : Attach(s) \/ Detach(s) => Evaluates
         /\ Sleep \/ Unlock => Evaluates
<1>1. idleSince \in [X11 -> Unknown..Forever] /\ {} \in SUBSET Thresholds
  BY DEF TypeOK
<1>2. \A S : /\ Invalidated(S) \in [X11 -> Unknown..Forever]
             /\ \A s \in X11 : Invalidated(S)[s] \in {Unknown, idleSince[s]}
  BY InvalidatedIs
<1>3. ASSUME NEW s \in X11, XssEvent(s) PROVE Evaluates
  <2>1. /\ task = <<>> /\ Update({}, Invalidated({s}))
        /\ UNCHANGED <<given, xTimeout, timer>>
    BY <1>3 DEF XssEvent, BeginTask, timers
  <2> QED BY <1>1, <1>2, <2>1 DEF Evaluates
<1>4. ASSUME NEW s \in TTY, TTYEvent(s) PROVE Evaluates
  <2>1. /\ task = <<>> /\ Update({}, idleSince)
        /\ UNCHANGED <<given, xTimeout, timer>>
    BY <1>4 DEF TTYEvent, BeginTask, timers
  <2> QED BY <1>1, <2>1 DEF Evaluates
<1>5. ASSUME NEW S \in fired, TimerDone(S) PROVE Evaluates
  <2>1. /\ task = <<>> /\ Update(S, Invalidated(attached))
        /\ UNCHANGED <<given, xTimeout, timer>>
    BY <1>5 DEF TimerDone, BeginTask
  <2>2. S \in SUBSET Thresholds
    BY DEF TypeOK
  <2> QED BY <1>2, <2>1, <2>2 DEF Evaluates
<1>6. ASSUME NEW s \in Session, Attach(s) PROVE Evaluates
  <2>1. /\ task = <<>> /\ Update({}, idleSince)
        /\ UNCHANGED <<given, xTimeout, timer>>
    BY <1>6 DEF Attach, BeginTask, timers
  <2> QED BY <1>1, <2>1 DEF Evaluates
<1>7. ASSUME NEW s \in Session, Detach(s) PROVE Evaluates
  <2>1. /\ task = <<>> /\ Update({}, idleSince)
        /\ UNCHANGED <<given, xTimeout, timer>>
    BY <1>7 DEF Detach, BeginTask, timers
  <2> QED BY <1>1, <2>1 DEF Evaluates
<1>8. ASSUME Sleep PROVE Evaluates
  <2>1. /\ task = <<>> /\ Update({}, idleSince)
        /\ UNCHANGED <<given, xTimeout, timer>>
    BY <1>8 DEF Sleep, BeginTask, timers
  <2> QED BY <1>1, <2>1 DEF Evaluates
<1>9. ASSUME Unlock PROVE Evaluates
  <2>1. /\ task = <<>> /\ Update({}, Invalidated(attached))
        /\ UNCHANGED <<given, xTimeout, timer>>
    BY <1>9 DEF Unlock, BeginTask, timers
  <2> QED BY <1>1, <1>2, <2>1 DEF Evaluates
<1> QED BY <1>3, <1>4, <1>5, <1>6, <1>7, <1>8, <1>9
-----------------------------------------------------------------------------
\* The variables but those of update() and of the timers
Seats ==
  /\ around \subseteq Session /\ asked \subseteq Thresholds
  /\ mayRaise \in BOOLEAN
  /\ age \in [Device -> 0..Forever]
  /\ saver \subseteq X11
  /\ attached \subseteq Session /\ detached \subseteq Session
  /\ idle \subseteq X11
  /\ events \in [X11 -> Seq(Lines)]
  /\ watching \subseteq TTY /\ ttyEvents \subseteq TTY
  /\ sleeping \in BOOLEAN

Results ==
  /\ idleSince \in [X11 -> Unknown..Forever]
  /\ passed \subseteq Thresholds
  /\ task \in {<<>>} \cup {<<S>> : S \in SUBSET Thresholds}
  /\ lag \in 0..MaxLag

Alarms ==
  /\ xTimeout \in 0..Forever
  /\ timer \subseteq Thresholds
  /\ waiting \subseteq Timer
  /\ fired \subseteq SUBSET Thresholds
  /\ skipped \subseteq Thresholds
  /\ harm \in {"none", "stale", "unarmed"}

LEMMA TypeParts == TypeOK <=> Seats /\ Results /\ Alarms
BY DEF TypeOK, Seats, Results, Alarms, Lines

LEMMA TypeInit == Init => TypeOK
<1> SUFFICES ASSUME Init PROVE TypeOK
  OBVIOUS
<1>1. /\ around \subseteq Session /\ asked \subseteq Thresholds
      /\ mayRaise \in BOOLEAN
  BY CasesAssumption DEF Init
<1>2. Seats
  <2>1. <<>> \in Seq(Lines)
    OBVIOUS
  <2>2. events \in [X11 -> Seq(Lines)] /\ sleeping \in BOOLEAN
    BY <2>1 DEF Init
  <2>3. age \in [Device -> 0..Forever]
    BY ForeverIs DEF Init
  <2> QED BY <1>1, <2>2, <2>3 DEF Init, Seats
<1>3. Unknown \in Unknown..Forever
  BY ForeverIs DEF Unknown
<1>4. Results
  BY <1>3, BoundsAssumption DEF Init, Results
<1>5. Alarms
  BY ForeverIs DEF Init, Alarms
<1> QED BY <1>2, <1>4, <1>5, TypeParts

\* Sessions come and go, and are used, and lines come and are handled.
LEMMA SeatsStep == TypeOK /\ [Next]_vars => Seats'
<1> SUFFICES ASSUME TypeOK, [Next]_vars PROVE Seats'
  OBVIOUS
<1>0. Seats
  BY TypeParts
<1>1. ASSUME NEW s \in X11, XssEvent(s) PROVE Seats'
  <2>1. Tail(events[s]) \in Seq(Lines)
    BY <1>0, <1>1, HeadTailProperties DEF XssEvent, Seats
  <2> QED BY <1>0, <1>1, <2>1 DEF XssEvent, Seats, given, user, seats
<1>2. ASSUME NEW s \in TTY, TTYEvent(s) PROVE Seats'
  BY <1>0, <1>2 DEF TTYEvent, Seats, given, user, seats
<1>3. ASSUME NEW S \in fired, TimerDone(S) PROVE Seats'
  BY <1>0, <1>3 DEF TimerDone, Seats, given, user, seats, lines
<1>4. ASSUME NEW s \in Session, Attach(s) PROVE Seats'
  <2>1. PICK a \in 0..Forever :
          age' = [d \in Device |-> IF d = s THEN a ELSE age[d]]
    BY <1>4 DEF Attach
  <2>2. age' \in [Device -> 0..Forever]
    BY <1>0, <2>1 DEF Seats
  <2> QED BY <1>0, <1>4, <2>2 DEF Attach, Seats, given
<1>5. ASSUME NEW s \in Session, Detach(s) PROVE Seats'
  <2>1. PICK n \in 0..MaxEvents :
          events' = [x \in X11 |->
                       IF x # s THEN events[x]
                       ELSE SubSeq(events[x], 1, Min({n, Len(events[x])}))]
    BY <1>5 DEF Detach
  <2>2. ASSUME NEW x \in X11
        PROVE  SubSeq(events[x], 1, Min({n, Len(events[x])})) \in Seq(Lines)
    <3>1. events[x] \in Seq(Lines) /\ Len(events[x]) \in Nat /\ n \in Nat
      BY <1>0, BoundsAssumption, LenProperties DEF Seats
    <3>2. /\ Min({n, Len(events[x])}) \in {n, Len(events[x])}
          /\ Min({n, Len(events[x])}) <= Len(events[x])
      <4> DEFINE S == {n, Len(events[x])}
      <4>1. S \in SUBSET Int /\ S # {} /\ \A i \in S : i >= -1
        BY <3>1
      <4> HIDE DEF S
      <4>2. Min(S) \in S /\ \A i \in S : Min(S) <= i
        BY <4>1, MinIs
      <4> QED BY <4>2 DEF S
    <3>3. Min({n, Len(events[x])}) \in 0..Len(events[x])
      BY <3>1, <3>2
    <3> DEFINE k == Min({n, Len(events[x])})
    <3> HIDE DEF k
    <3>4. k \in 0..Len(events[x])
      BY <3>3 DEF k
    <3>5. \A i \in 1..k : events[x][i] \in Lines
      BY <3>1, <3>4, ElementOfSeq
    <3>6. SubSeq(events[x], 1, k) \in Seq(Lines)
      BY <3>4, <3>5, SubSeqProperties
    <3> QED BY <3>6 DEF k
  <2>3. events' \in [X11 -> Seq(Lines)]
    BY <1>0, <2>1, <2>2 DEF Seats
  <2>4. age' \in [Device -> 0..Forever]
    BY <1>0, <1>5, ForeverIs DEF Detach, Seats
  <2> QED BY <1>0, <1>5, <2>3, <2>4 DEF Detach, Seats, given
<1>6. ASSUME Sleep PROVE Seats'
  BY <1>0, <1>6 DEF Sleep, Seats, given, user, seats, lines
<1>7. ASSUME Unlock PROVE Seats'
  BY <1>0, <1>7 DEF Unlock, Seats, given, user, seats, lines
<1>8. ASSUME EndTask PROVE Seats'
  BY <1>0, <1>8 DEF EndTask, Seats, given, user, seats, lines
<1>9. ASSUME Tick PROVE Seats'
  <2>1. \A n \in 0..Forever : Older(n) \in 0..Forever
    BY ForeverIs DEF Older, Unknown
  <2>2. age' \in [Device -> 0..Forever]
    BY <1>0, <1>9, <2>1, ForeverIs DEF Tick, Seats
  <2> QED BY <1>0, <1>9, <2>2 DEF Tick, Seats, given, seats, lines
<1>10. ASSUME NEW s \in Device, Input(s) PROVE Seats'
  <2>1. ASSUME s \in saver PROVE Append(events[s], "off") \in Seq(Lines)
    BY <1>0, <2>1, AppendProperties DEF Seats, Lines
  <2>2. events' \in [X11 -> Seq(Lines)]
    BY <1>0, <1>10, <2>1 DEF Input, Seats
  <2>3. age' \in [Device -> 0..Forever]
    BY <1>0, <1>10, ForeverIs DEF Input, Seats
  <2> QED BY <1>0, <1>10, <2>2, <2>3 DEF Input, Seats, given, seats
<1>11. ASSUME NEW s \in X11, SaverStarts(s) PROVE Seats'
  <2>1. Append(events[s], "on") \in Seq(Lines)
    BY <1>0, AppendProperties DEF Seats, Lines
  <2> QED BY <1>0, <1>11, <2>1 DEF SaverStarts, Seats, given, seats
<1>12. ASSUME Fire PROVE Seats'
  BY <1>0, <1>12 DEF Fire, Seats, given, user, seats, lines
<1>13. CASE UNCHANGED vars
  BY <1>0, <1>13 DEF vars, Seats, given, user, seats, lines
<1> QED BY <1>1, <1>2, <1>3, <1>4, <1>5, <1>6, <1>7, <1>8, <1>9, <1>10,
           <1>11, <1>12, <1>13, EndTaskIs DEF Next

LEMMA ResultsStep == TypeOK /\ Seats' /\ [Next]_vars => Results'
<1> SUFFICES ASSUME TypeOK, Seats', [Next]_vars PROVE Results'
  OBVIOUS
<1>0. Results
  BY TypeParts
<1>1. ASSUME Evaluates PROVE Results'
  <2>1. PICK h \in SUBSET Thresholds, known \in [X11 -> Unknown..Forever] :
          Update(h, known)
    BY <1>1 DEF Evaluates
  <2>2. /\ idleSince' \in [X11 -> Unknown..Forever]
        /\ passed' \subseteq asked /\ task' = <<h>> /\ lag' = 0
    BY <2>1, UpdateIs DEF Seats
  <2>3. asked \subseteq Thresholds
    BY DEF TypeOK
  <2> QED BY <2>2, <2>3, BoundsAssumption DEF Results
<1>2. ASSUME EndTask PROVE Results'
  BY <1>0, <1>2, BoundsAssumption DEF EndTask, Results
<1>3. ASSUME Tick PROVE Results'
  <2>1. \A n \in Unknown..Forever : Older(n) \in Unknown..Forever
    BY ForeverIs DEF Older, Unknown
  <2>2. idleSince' \in [X11 -> Unknown..Forever]
    BY <1>0, <1>3, <2>1 DEF Tick, Results
  <2>3. lag' \in 0..MaxLag
    BY <1>0, <1>3, BoundsAssumption DEF Tick, Results
  <2> QED BY <1>0, <1>3, <2>2, <2>3 DEF Tick, Results
<1>4. ASSUME NEW s \in Device, Input(s) PROVE Results'
  BY <1>0, <1>4 DEF Input, Results
<1>5. ASSUME NEW s \in X11, SaverStarts(s) PROVE Results'
  BY <1>0, <1>5 DEF SaverStarts, Results
<1>6. ASSUME Fire PROVE Results'
  BY <1>0, <1>6 DEF Fire, Results
<1>7. CASE UNCHANGED vars
  BY <1>0, <1>7 DEF vars, Results
<1> QED BY <1>1, <1>2, <1>3, <1>4, <1>5, <1>6, <1>7, TaskIs,
           EndTaskIs DEF Next

LEMMA AlarmsStep == TypeOK /\ Seats' /\ [Next]_vars => Alarms'
<1> SUFFICES ASSUME TypeOK, Seats', [Next]_vars PROVE Alarms'
  OBVIOUS
<1>0. Alarms
  BY TypeParts
<1>2. ASSUME NEW S \in fired, TimerDone(S) PROVE Alarms'
  <2>1. UNCHANGED <<xTimeout, timer, skipped, harm>> /\ fired' \subseteq fired
    BY <1>2 DEF TimerDone
  <2>2. ASSUME NEW w \in Timer PROVE [w EXCEPT !.held = @ /\ w.of # S] \in Timer
    BY DEF Timer
  <2>3. waiting' \subseteq Timer
    BY <1>0, <1>2, <2>2 DEF TimerDone, Alarms
  <2> QED BY <1>0, <2>1, <2>3 DEF Alarms
<1>3. ASSUME Apply \/ ApplyRaises PROVE Alarms'
  <2>1. Schedule \in SUBSET Thresholds /\ Wanted \in SUBSET Thresholds
    BY DEF TypeOK, Schedule, Wanted
  <2>2. Cancel(timer, waiting) \in SUBSET Timer
    BY <1>0, CancelIs DEF Alarms
  <2>3. Synchronized \in SUBSET Timer
    BY <1>0, <2>1, <2>2, StartNextIs DEF Alarms, Synchronized
  <2>4. task # <<>> => task[1] \in SUBSET Thresholds
    BY DEF TypeOK
  <2>5. EndTask /\ fired' = fired
    BY <1>3, EndTaskIs DEF EndTask
  <2>6. StartNext(task[1], Synchronized) \subseteq Timer
    BY <2>3, <2>4, <2>5, StartNextIs DEF EndTask
  <2>7. XSetTime \in 0..Forever
    <3>1. \A t \in Schedule : t \in Nat /\ t <= Forever
      BY <2>1, ForeverIs
    <3>2. ASSUME Schedule # {} PROVE Min(Schedule) \in Schedule
      <4>1. Schedule \in SUBSET Int /\ \A t \in Schedule : t >= -1
        BY <3>1
      <4> QED BY <3>2, <4>1, MinIs
    <3> QED BY <3>1, <3>2, ForeverIs DEF XSetTime
  <2>8. GoneBy \subseteq Thresholds
    BY <2>1 DEF GoneBy
  <2>9. /\ timer' \in {timer, {}, Wanted}
        /\ skipped' \in {skipped, {}, GoneBy}
        /\ xTimeout' \in {xTimeout, 0, XSetTime}
        /\ waiting' \in {waiting, Cancel(timer, waiting), Synchronized,
                         StartNext(task[1], Synchronized)}
        /\ harm' \in {"none", "stale", "unarmed", harm}
    <3>1. CASE Apply
      BY <3>1 DEF Apply
    <3>2. CASE ApplyRaises
      <4>1. PICK where \in {"begin", "start", "end"} : Raises(where)
        BY <3>2 DEF ApplyRaises
      <4>2. harm' \in {"none", "stale", "unarmed", harm}
        BY <3>2 DEF ApplyRaises
      <4> QED BY <4>1, <4>2 DEF Raises
    <3> QED BY <1>3, <3>1, <3>2
  <2>10. timer' \subseteq Thresholds /\ skipped' \subseteq Thresholds
    BY <1>0, <2>1, <2>8, <2>9 DEF Alarms
  <2>11. waiting' \subseteq Timer
    BY <1>0, <2>2, <2>3, <2>6, <2>9 DEF Alarms
  <2>12. xTimeout' \in 0..Forever
    BY <1>0, <2>7, <2>9, ForeverIs DEF Alarms
  <2>13. harm' \in {"none", "stale", "unarmed"}
    BY <1>0, <2>9 DEF Alarms
  <2> QED BY <1>0, <2>5, <2>10, <2>11, <2>12, <2>13 DEF Alarms
<1>4. ASSUME Tick PROVE Alarms'
  <2>1. UNCHANGED <<xTimeout, timer, fired, skipped, harm>>
    BY <1>4 DEF Tick
  <2>2. ASSUME NEW w \in Timer
        PROVE  [w EXCEPT !.left = Max({0, @ - 1})] \in Timer
    <3>1. w.left \in Nat /\ w.left <= Forever + 1
      BY ForeverIs DEF Timer
    <3>2. Max({0, w.left - 1}) \in 0..Forever + 1
      BY <3>1, ForeverIs DEF Max
    <3> QED BY <3>2 DEF Timer
  <2>3. waiting' \subseteq Timer
    BY <1>0, <1>4, <2>2 DEF Tick, Alarms
  <2> QED BY <1>0, <2>1, <2>3 DEF Alarms
<1>5. ASSUME Fire PROVE Alarms'
  <2>1. PICK w \in waiting :
          waiting' = waiting \ {w} /\ fired' = fired \cup {w.of}
    BY <1>5 DEF Fire
  <2>2. w.of \in SUBSET Thresholds
    BY <1>0 DEF Alarms, Timer
  <2> QED BY <1>0, <1>5, <2>1, <2>2 DEF Fire, Alarms
<1>6. ASSUME UNCHANGED <<xTimeout, timer, waiting, fired, skipped, harm>>
      PROVE  Alarms'
  BY <1>0, <1>6 DEF Alarms
<1>7. ASSUME NEW s \in X11, XssEvent(s) PROVE Alarms'
  BY <1>6, <1>7 DEF XssEvent, timers
<1>8. ASSUME NEW s \in TTY, TTYEvent(s) PROVE Alarms'
  BY <1>6, <1>8 DEF TTYEvent, timers
<1>9. ASSUME NEW s \in Session, Attach(s) \/ Detach(s) PROVE Alarms'
  BY <1>6, <1>9 DEF Attach, Detach, timers
<1>10. ASSUME Sleep \/ Unlock PROVE Alarms'
  BY <1>6, <1>10 DEF Sleep, Unlock, timers
<1>11. ASSUME NEW s \in Device, Input(s) PROVE Alarms'
  BY <1>6, <1>11 DEF Input, timers
<1>12. ASSUME NEW s \in X11, SaverStarts(s) PROVE Alarms'
  BY <1>6, <1>12 DEF SaverStarts, timers
<1>13. CASE UNCHANGED vars
  BY <1>6, <1>13 DEF vars, timers
<1> QED BY <1>2, <1>3, <1>4, <1>5, <1>7, <1>8, <1>9, <1>10, <1>11, <1>12,
           <1>13 DEF Next

LEMMA TypeStep == TypeOK /\ [Next]_vars => TypeOK'
<1> SUFFICES ASSUME TypeOK, [Next]_vars PROVE TypeOK'
  OBVIOUS
<1>1. Seats' /\ Results' /\ Alarms'
  BY SeatsStep, ResultsStep, AlarmsStep
<1> QED BY <1>1 DEF TypeOK, Seats, Results, Alarms, Lines
-----------------------------------------------------------------------------
\* The lines follow the screen saver, which goes out when a session does.
LEMMA SaverStep ==
  ASSUME TypeOK, SaverInv, [Next]_vars
  PROVE  SaverInv'
<1> DEFINE Followed(s) ==
      /\ s \in saver => s \in attached
      /\ s \notin attached \cup detached => s \notin idle /\ events[s] = <<>>
      /\ s \in attached \ (saver \cup detached) =>
           IF events[s] = <<>> THEN s \notin idle
           ELSE events[s][Len(events[s])] = "off"
<1>0. /\ \A x \in X11 : Followed(x)
      /\ \A x \in X11 : events[x] \in Seq(Lines)
  BY DEF SaverInv, TypeOK, Lines
<1> SUFFICES \A x \in X11 : Followed(x)'
  BY DEF SaverInv
<1>1. ASSUME UNCHANGED <<attached, detached, saver, idle, events>>
      PROVE  \A x \in X11 : Followed(x)'
  BY <1>0, <1>1
<1>2. ASSUME NEW s \in X11, XssEvent(s) PROVE \A x \in X11 : Followed(x)'
  <2>1. /\ UNCHANGED <<attached, detached, saver>> /\ events[s] # <<>>
        /\ events' = [events EXCEPT ![s] = Tail(@)]
        /\ idle' = IF Head(events[s]) = "off" THEN idle \ {s} ELSE idle \cup {s}
    BY <1>2 DEF XssEvent, user, seats
  <2>2. \A x \in X11 \ {s} : events'[x] = events[x] /\ (x \in idle' <=> x \in idle)
    BY <2>1 DEF TypeOK
  <2>3. /\ events'[s] = Tail(events[s]) /\ Len(events[s]) \in Nat \ {0}
        /\ Head(events[s]) = events[s][1]
        /\ Len(Tail(events[s])) = Len(events[s]) - 1
        /\ \A i \in 1..Len(Tail(events[s])) : Tail(events[s])[i] = events[s][i+1]
    BY <1>0, <2>1, HeadTailProperties, EmptySeq DEF TypeOK
  <2>4. ASSUME s \in attached' \ (saver' \cup detached')
        PROVE  IF events'[s] = <<>> THEN s \notin idle'
               ELSE events'[s][Len(events'[s])] = "off"
    <3>1. events[s][Len(events[s])] = "off"
      BY <1>0, <2>1, <2>4
    <3>2. CASE events'[s] = <<>>
      <4>1. Len(events[s]) = 1
        <5>1. Tail(events[s]) = <<>>
          BY <2>3, <3>2
        <5>2. Len(Tail(events[s])) = Len(<<>>)
          BY <5>1
        <5>3. Len(Tail(events[s])) = 0
          BY <5>2
        <5> QED BY <2>3, <5>3
      <4>2. Head(events[s]) = "off"
        BY <2>3, <3>1, <4>1
      <4>3. s \notin idle'
        BY <2>1, <4>2
      <4> QED BY <3>2, <4>3
    <3>3. CASE events'[s] # <<>>
      <4>1. Tail(events[s]) \in Seq(Lines)
        BY <1>0, <2>1, HeadTailProperties
      <4>2. Len(Tail(events[s])) \in Nat \ {0}
        BY <2>3, <3>3, <4>1, EmptySeq
      <4> QED BY <2>3, <3>1, <3>3, <4>2
    <3> QED BY <3>2, <3>3
  <2>5. Followed(s)'
    BY <1>0, <2>1, <2>4
  <2> QED BY <1>0, <2>1, <2>2, <2>5
<1>3. ASSUME NEW s \in Session, Attach(s) PROVE \A x \in X11 : Followed(x)'
  <2>1. /\ attached' = attached \cup {s} /\ s \notin attached
        /\ UNCHANGED <<saver, detached, idle, events>>
    BY <1>3 DEF Attach
  <2> QED BY <1>0, <2>1
<1>4. ASSUME NEW s \in Session, Detach(s) PROVE \A x \in X11 : Followed(x)'
  <2>1. /\ attached' = attached \ {s} /\ detached' = detached \cup {s}
        /\ saver' = saver \ {s} /\ idle' = idle
        /\ \A x \in X11 : x # s => events'[x] = events[x]
    BY <1>4 DEF Detach
  <2> QED BY <1>0, <2>1
<1>5. ASSUME NEW s \in Device, Input(s) PROVE \A x \in X11 : Followed(x)'
  <2>1. /\ UNCHANGED <<attached, detached, idle>> /\ s \in attached
        /\ saver' = saver \ {s}
        /\ events' = IF s \in saver THEN [events EXCEPT ![s] = Append(@, "off")]
                     ELSE events
    BY <1>5 DEF Input, seats
  <2>2. \A x \in X11 : x # s => events'[x] = events[x]
    BY <2>1 DEF TypeOK
  <2>3. \A x \in X11 : x # s => Followed(x)'
    BY <1>0, <2>1, <2>2
  <2>4. CASE s \in saver
    <3>1. s \in X11 /\ events'[s] = Append(events[s], "off")
      BY <2>1, <2>4 DEF TypeOK
    <3>2. /\ events'[s] # <<>> /\ Len(events'[s]) = Len(events[s]) + 1
          /\ events'[s][Len(events[s]) + 1] = "off"
      BY <1>0, <3>1, AppendProperties DEF Lines
    <3> QED BY <2>1, <2>3, <3>2
  <2>5. CASE s \notin saver
    BY <1>0, <2>1, <2>3, <2>5
  <2> QED BY <2>4, <2>5
<1>6. ASSUME NEW s \in X11, SaverStarts(s) PROVE \A x \in X11 : Followed(x)'
  <2>1. /\ UNCHANGED <<attached, detached, idle>> /\ s \in attached
        /\ saver' = saver \cup {s}
        /\ events' = [events EXCEPT ![s] = Append(@, "on")]
    BY <1>6 DEF SaverStarts, seats
  <2>2. \A x \in X11 : x # s => events'[x] = events[x]
    BY <2>1 DEF TypeOK
  <2> QED BY <1>0, <2>1, <2>2
<1>7. ASSUME NEW s \in TTY, TTYEvent(s) PROVE \A x \in X11 : Followed(x)'
  BY <1>1, <1>7 DEF TTYEvent, user, seats
<1>8. ASSUME NEW S \in fired, TimerDone(S) PROVE \A x \in X11 : Followed(x)'
  BY <1>1, <1>8 DEF TimerDone, user, seats, lines
<1>9. ASSUME Sleep \/ Unlock PROVE \A x \in X11 : Followed(x)'
  BY <1>1, <1>9 DEF Sleep, Unlock, user, seats, lines
<1>10. ASSUME EndTask \/ Tick \/ Fire PROVE \A x \in X11 : Followed(x)'
  BY <1>1, <1>10 DEF EndTask, Tick, Fire, user, seats, lines
<1>11. CASE UNCHANGED vars
  BY <1>1, <1>11 DEF vars, user, seats, lines
<1> QED BY <1>2, <1>3, <1>4, <1>5, <1>6, <1>7, <1>8, <1>9, <1>10, <1>11,
           EndTaskIs DEF Next

\* Who becomes idle is measured then, and a measured time goes on with the
\* true one, unless input makes that one smaller.
LEMMA MeasuredStep ==
  ASSUME TypeOK, SaverInv, MeasuredInv, TypeOK', [Next]_vars
  PROVE  MeasuredInv'
<1> DEFINE Known(s) ==
      /\ ~sleeping => idleSince[s] # Unknown
      /\ s \notin detached => idleSince[s] = Unknown \/ age[s] <= idleSince[s]
      Idles(s) == s \in attached /\ s \in idle
<1>0. /\ \A x \in X11 : Idles(x) => Known(x)
      /\ \A x \in X11 : /\ age[x] \in 0..Forever /\ age'[x] \in 0..Forever
                         /\ idleSince[x] \in Unknown..Forever
                         /\ idleSince'[x] \in Unknown..Forever
  BY Kinds DEF MeasuredInv, TypeOK
<1> SUFFICES \A x \in X11 : Idles(x)' => Known(x)'
  BY DEF MeasuredInv
<1>a. /\ idleSince \in [X11 -> Unknown..Forever]
      /\ \A S : Invalidated(S) \in [X11 -> Unknown..Forever]
      /\ \A S : \A x \in X11 :
           Invalidated(S)[x] = IF x \in S THEN Unknown ELSE idleSince[x]
  BY InvalidatedIs DEF TypeOK
\* A task measures what is not known.
<1>1. ASSUME NEW h, NEW known \in [X11 -> Unknown..Forever], Update(h, known),
             \A x \in X11 : known[x] \in {Unknown, idleSince[x]},
             \A x \in X11 : Idles(x)' /\ x \notin detached' =>
               \/ known[x] = Unknown
               \/ Idles(x) /\ x \notin detached /\ age'[x] = age[x]
      PROVE  \A x \in X11 : Idles(x)' => Known(x)'
  <2>1. \A x \in X11 :
          idleSince'[x] =
            IF x \in attached' /\ x \in idle' /\ ~sleeping' /\ known[x] = Unknown
            THEN age'[x] ELSE known[x]
    BY <1>1, UpdateIs DEF TypeOK
  <2> SUFFICES ASSUME NEW x \in X11, Idles(x)' PROVE Known(x)'
    OBVIOUS
  <2>2. age'[x] # Unknown
    BY <1>0, ForeverIs DEF Unknown
  <2>3. ~sleeping' => idleSince'[x] # Unknown
    BY <2>1, <2>2
  <2>4. ASSUME x \notin detached', idleSince'[x] # Unknown
        PROVE  age'[x] <= idleSince'[x]
    <3>1. CASE known[x] = Unknown
      BY <1>0, <2>1, <2>4, <3>1
    <3>2. CASE known[x] # Unknown
      <4>1. Idles(x) /\ x \notin detached /\ age'[x] = age[x]
        BY <1>1, <2>4, <3>2
      <4>2. idleSince'[x] = idleSince[x]
        BY <1>1, <2>1, <3>2
      <4> QED BY <1>0, <2>4, <4>1, <4>2
    <3> QED BY <3>1, <3>2
  <2> QED BY <2>3, <2>4
<1>2. ASSUME NEW s \in X11, XssEvent(s)
      PROVE  \A x \in X11 : Idles(x)' => Known(x)'
  <2>1. /\ UNCHANGED <<attached, detached, age>> /\ Update({}, Invalidated({s}))
        /\ idle' = IF Head(events[s]) = "off" THEN idle \ {s} ELSE idle \cup {s}
    BY <1>2 DEF XssEvent, user, seats
  <2>2. \A x \in X11 : Idles(x)' /\ x # s => Idles(x) /\ age'[x] = age[x]
    BY <2>1
  <2>3. \A x \in X11 : Invalidated({s})[x] \in {Unknown, idleSince[x]}
    BY <1>a
  <2>4. Invalidated({s})[s] = Unknown
    BY <1>a
  <2>5. ASSUME NEW x \in X11, Idles(x)' /\ x \notin detached'
        PROVE  \/ Invalidated({s})[x] = Unknown
               \/ Idles(x) /\ x \notin detached /\ age'[x] = age[x]
    BY <2>1, <2>2, <2>4, <2>5
  <2> QED BY <1>1, <1>a, <2>1, <2>3, <2>5
<1>3. ASSUME UNCHANGED <<attached, detached, idle, age>>,
             \/ \E h : Update(h, idleSince)
             \/ \E h : Update(h, Invalidated(attached))
      PROVE  \A x \in X11 : Idles(x)' => Known(x)'
  <2>1. \A x \in X11 : Invalidated(attached)[x] \in {Unknown, idleSince[x]}
    BY <1>a
  <2> QED BY <1>1, <1>3, <1>a, <2>1
<1>4. ASSUME NEW s \in TTY, TTYEvent(s)
      PROVE  \A x \in X11 : Idles(x)' => Known(x)'
  BY <1>3, <1>4 DEF TTYEvent, user, seats
<1>5. ASSUME NEW S \in fired, TimerDone(S)
      PROVE  \A x \in X11 : Idles(x)' => Known(x)'
  BY <1>3, <1>5 DEF TimerDone, user, seats
<1>6. ASSUME Sleep \/ Unlock PROVE \A x \in X11 : Idles(x)' => Known(x)'
  BY <1>3, <1>6 DEF Sleep, Unlock, user, seats
<1>7. ASSUME NEW s \in Session, Attach(s)
      PROVE  \A x \in X11 : Idles(x)' => Known(x)'
  <2>1. /\ attached' = attached \cup {s} /\ s \notin attached
        /\ UNCHANGED <<detached, idle>> /\ Update({}, idleSince)
        /\ \A x \in X11 : x # s => age'[x] = age[x]
    BY <1>7, Kinds DEF Attach
  <2>2. s \in X11 /\ s \notin detached => s \notin idle
    BY <2>1 DEF SaverInv
  <2> QED BY <1>1, <1>a, <2>1, <2>2
<1>8. ASSUME NEW s \in Session, Detach(s)
      PROVE  \A x \in X11 : Idles(x)' => Known(x)'
  <2>1. /\ attached' = attached \ {s} /\ detached' = detached \cup {s}
        /\ UNCHANGED idle /\ Update({}, idleSince)
        /\ \A x \in X11 : x # s => age'[x] = age[x]
    BY <1>8, Kinds DEF Detach
  <2> QED BY <1>1, <1>a, <2>1
<1>9. ASSUME UNCHANGED <<attached, detached, idle, sleeping>>,
             \A x \in X11 : Known(x) => Known(x)'
      PROVE  \A x \in X11 : Idles(x)' => Known(x)'
  BY <1>0, <1>9
<1>10. ASSUME Tick PROVE \A x \in X11 : Idles(x)' => Known(x)'
  <2>1. UNCHANGED <<attached, detached, idle, sleeping>>
    BY <1>10 DEF Tick, seats
  <2>2. ASSUME NEW x \in X11, x \in attached
        PROVE  /\ idleSince'[x] = Older(idleSince[x])
               /\ age'[x] = Older(age[x])
    BY <1>10, <2>2, Kinds DEF Tick
  <2>3. ASSUME NEW x \in X11, x \in attached, Known(x) PROVE Known(x)'
    <3>1. /\ age[x] \in 0..Forever /\ idleSince[x] \in Unknown..Forever
          /\ Forever \in Nat
      BY <1>0, ForeverIs
    <3> QED BY <2>1, <2>2, <2>3, <3>1 DEF Older, Unknown
  <2> QED BY <1>0, <2>1, <2>3
<1>11. ASSUME NEW s \in Device, Input(s)
       PROVE  \A x \in X11 : Idles(x)' => Known(x)'
  <2>1. /\ UNCHANGED <<attached, detached, idle, sleeping, idleSince>>
        /\ age' = [age EXCEPT ![s] = 0]
    BY <1>11 DEF Input, seats
  <2>2. \A x \in X11 : age'[x] = age[x] \/ age'[x] = 0
    BY <2>1, Kinds DEF TypeOK
  <2>3. ASSUME NEW x \in X11, Known(x) PROVE Known(x)'
    <3>1. /\ age[x] \in 0..Forever /\ idleSince[x] \in Unknown..Forever
          /\ Forever \in Nat
      BY <1>0, ForeverIs
    <3> QED BY <2>1, <2>2, <2>3, <3>1 DEF Unknown
  <2> QED BY <1>9, <2>1, <2>3
<1>12. ASSUME UNCHANGED <<attached, detached, idle, sleeping, idleSince, age>>
       PROVE  \A x \in X11 : Idles(x)' => Known(x)'
  BY <1>0, <1>12
<1>13. ASSUME NEW s \in X11, SaverStarts(s)
       PROVE  \A x \in X11 : Idles(x)' => Known(x)'
  BY <1>12, <1>13 DEF SaverStarts, seats
<1>14. ASSUME EndTask \/ Fire PROVE \A x \in X11 : Idles(x)' => Known(x)'
  BY <1>12, <1>14 DEF EndTask, Fire, user, seats
<1>15. CASE UNCHANGED vars
  BY <1>12, <1>15 DEF vars, user, seats
<1> QED BY <1>2, <1>4, <1>5, <1>6, <1>7, <1>8, <1>10, <1>11, <1>13, <1>14,
           <1>15, EndTaskIs DEF Next

LEMMA OffAppended ==
  ASSUME NEW q \in Seq(Lines), NEW l \in Lines
  PROVE  "off" \in Range(Append(q, l)) <=> "off" \in Range(q) \/ l = "off"
<1>1. /\ Append(q, l) \in Seq(Lines) /\ Len(Append(q, l)) = Len(q) + 1
      /\ \A i \in 1..Len(q) : Append(q, l)[i] = q[i]
      /\ Append(q, l)[Len(q) + 1] = l
      /\ Len(q) \in Nat
  BY AppendProperties, LenProperties
<1>2. /\ Range(q) = {q[i] : i \in 1..Len(q)}
      /\ Range(Append(q, l)) = {Append(q, l)[i] : i \in 1..Len(q) + 1}
  BY <1>1, RangeEquality
<1>3. \A i \in 1..Len(q) + 1 : i \in 1..Len(q) \/ i = Len(q) + 1
  BY <1>1
<1>4. "off" \in Range(Append(q, l)) => "off" \in Range(q) \/ l = "off"
  BY <1>1, <1>2, <1>3
<1>5. ASSUME "off" \in Range(q) PROVE "off" \in Range(Append(q, l))
  <2>1. PICK i \in 1..Len(q) : q[i] = "off"
    BY <1>2, <1>5
  <2>2. i \in 1..Len(q) + 1 /\ Append(q, l)[i] = "off"
    BY <1>1, <2>1
  <2> QED BY <1>2, <2>2
<1>6. l = "off" => "off" \in Range(Append(q, l))
  <2>1. Len(q) + 1 \in 1..Len(q) + 1
    BY <1>1
  <2> QED BY <1>1, <1>2, <2>1
<1> QED BY <1>4, <1>5, <1>6

LEMMA OffLast ==
  ASSUME NEW q \in Seq(Lines), q # <<>>, q[Len(q)] = "off"
  PROVE  "off" \in Range(q)
<1>1. Len(q) \in 1..Len(q)
  BY EmptySeq
<1> QED BY <1>1, RangeEquality

\* A task leaves a cached time, or the true one, or none.
LEMMA EvaluatedIs ==
  ASSUME TypeOK, TypeOK', Evaluates, NEW x \in X11
  PROVE  idleSince'[x] \in {Unknown, idleSince[x], age'[x]}
<1>1. PICK h \in SUBSET Thresholds, known \in [X11 -> Unknown..Forever] :
        /\ Update(h, known)
        /\ \A s \in X11 : known[s] \in {Unknown, idleSince[s]}
  BY DEF Evaluates
<1>2. idleSince'[x] =
        IF x \in attached' /\ x \in idle' /\ ~sleeping' /\ known[x] = Unknown
        THEN age'[x] ELSE known[x]
  BY <1>1, UpdateIs DEF TypeOK
<1>3. known[x] \in {Unknown, idleSince[x]}
  BY <1>1
<1> QED BY <1>2, <1>3

\* The cached time stays true until there is input, which the lines will tell
\* of: the screen saver was on, or an "off" was under way.
LEMMA CacheStep ==
  ASSUME TypeOK, SaverInv, CacheInv, TypeOK', [Next]_vars
  PROVE  CacheInv'
<1> DEFINE Told(s) == "off" \in Range(events[s])
           True(s) == idleSince[s] \in {Unknown, age[s]} \/ Told(s)
           Idles(s) == s \in attached /\ s \in idle
           Cached == \A s \in X11 : Idles(s) => True(s)
<1> SUFFICES ASSUME ~MayReattach
             PROVE  /\ attached' \cap detached' \cap Device = {}
                    /\ CacheIsCurrent'
  BY DEF CacheInv
<1>0. /\ attached \cap detached \cap Device = {} /\ Cached
      /\ \A x \in X11 : events[x] \in Seq(Lines)
      /\ \A x \in X11 : x \in Device
  BY Kinds DEF CacheInv, CacheIsCurrent, TypeOK, Lines
<1>1. attached' \cap detached' \cap Device = {}
  <2>1. \A s \in Session : Attach(s) => attached' \cap detached' \cap Device = {}
    BY <1>0 DEF Attach
  <2>2. \A s \in Session : Detach(s) => attached' \cap detached' \cap Device = {}
    BY <1>0 DEF Detach
  <2>3. \/ UNCHANGED <<attached, detached>>
        \/ \E s \in Session : Attach(s) \/ Detach(s)
    BY DEF Next, Apply, ApplyRaises, EndTask, XssEvent, TTYEvent, TimerDone,
           Sleep, Unlock, Tick, Fire, Input, SaverStarts, vars, seats
  <2> QED BY <1>0, <2>1, <2>2, <2>3
<1>2. ASSUME Evaluates,
             \A x \in X11 : Idles(x)' => Idles(x) /\ age'[x] = age[x]
                                        /\ events'[x] = events[x]
      PROVE  Cached'
  <2>1. \A x \in X11 : idleSince'[x] \in {Unknown, idleSince[x], age'[x]}
    BY <1>2, EvaluatedIs
  <2> QED BY <1>0, <1>2, <2>1
<1>3. ASSUME NEW s \in X11, XssEvent(s) PROVE Cached'
  <2>1. /\ UNCHANGED <<attached, detached, age>> /\ Update({}, Invalidated({s}))
        /\ idle' = IF Head(events[s]) = "off" THEN idle \ {s} ELSE idle \cup {s}
        /\ events' = [events EXCEPT ![s] = Tail(@)]
    BY <1>3 DEF XssEvent, user, seats
  <2>2. \A x \in X11 : idleSince'[x] \in {Unknown, idleSince[x], age'[x]}
    BY <1>3, TaskIs, EvaluatedIs
  <2>3. idleSince'[s] \in {Unknown, age'[s]}
    <3>1. /\ Invalidated({s}) \in [X11 -> Unknown..Forever]
          /\ Invalidated({s})[s] = Unknown
      BY InvalidatedIs
    <3> QED BY <2>1, <3>1, UpdateIs DEF TypeOK
  <2>4. \A x \in X11 : x # s /\ Idles(x)' => Idles(x) /\ events'[x] = events[x]
    BY <2>1 DEF TypeOK
  <2> QED BY <1>0, <2>1, <2>2, <2>3, <2>4
<1>4. ASSUME NEW s \in TTY, TTYEvent(s) PROVE Cached'
  BY <1>2, <1>4, TaskIs DEF TTYEvent, user, seats
<1>5. ASSUME NEW S \in fired, TimerDone(S) PROVE Cached'
  BY <1>2, <1>5, TaskIs DEF TimerDone, user, seats, lines
<1>6. ASSUME Sleep \/ Unlock PROVE Cached'
  BY <1>2, <1>6, TaskIs DEF Sleep, Unlock, user, seats, lines
<1>7. ASSUME NEW s \in Session, Attach(s) PROVE Cached'
  <2>1. /\ attached' = attached \cup {s} /\ s \notin attached
        /\ UNCHANGED <<idle, events>>
        /\ \A x \in X11 : x # s => age'[x] = age[x]
    BY <1>7, Kinds DEF Attach
  <2>2. s \in X11 => s \notin idle
    BY <1>0, <1>7, <2>1 DEF SaverInv, Attach
  <2> QED BY <1>2, <1>7, <2>1, <2>2, TaskIs
<1>8. ASSUME NEW s \in Session, Detach(s) PROVE Cached'
  <2>1. /\ attached' = attached \ {s} /\ UNCHANGED idle
        /\ \A x \in X11 : x # s => age'[x] = age[x] /\ events'[x] = events[x]
    BY <1>8, Kinds DEF Detach
  <2> QED BY <1>2, <1>8, <2>1, TaskIs
<1>9. ASSUME Tick PROVE Cached'
  <2>1. UNCHANGED <<attached, idle, events>>
    BY <1>9 DEF Tick, seats, lines
  <2>2. ASSUME NEW x \in X11, x \in attached
        PROVE  /\ idleSince'[x] = Older(idleSince[x])
               /\ age'[x] = Older(age[x])
    BY <1>9, <2>2, Kinds DEF Tick
  <2>3. Older(Unknown) = Unknown
    BY DEF Older
  <2> QED BY <1>0, <2>1, <2>2, <2>3
<1>10. ASSUME NEW s \in Device, Input(s) PROVE Cached'
  <2>1. /\ UNCHANGED <<attached, idle, idleSince>> /\ s \in attached
        /\ age' = [age EXCEPT ![s] = 0]
        /\ events' = IF s \in saver THEN [events EXCEPT ![s] = Append(@, "off")]
                     ELSE events
    BY <1>10 DEF Input, seats
  <2>2. \A x \in X11 : x # s => age'[x] = age[x] /\ events'[x] = events[x]
    BY <2>1, Kinds DEF TypeOK
  <2>3. ASSUME s \in X11, s \in idle PROVE Told(s)'
    <3>1. CASE s \in saver
      <4>1. events'[s] = Append(events[s], "off")
        BY <2>1, <2>3, <3>1 DEF TypeOK
      <4>2. "off" \in Range(Append(events[s], "off"))
        BY <1>0, <2>3, OffAppended DEF Lines
      <4> QED BY <4>1, <4>2
    <3>2. CASE s \notin saver
      <4>1. s \notin detached
        BY <1>0, <2>1
      <4>2. events[s] # <<>> /\ events[s][Len(events[s])] = "off"
        BY <2>1, <2>3, <3>2, <4>1 DEF SaverInv
      <4>3. Told(s)
        BY <1>0, <2>3, <4>2, OffLast
      <4> QED BY <2>1, <3>2, <4>3
    <3> QED BY <3>1, <3>2
  <2> QED BY <1>0, <2>1, <2>2, <2>3
<1>11. ASSUME NEW s \in X11, SaverStarts(s) PROVE Cached'
  <2>1. /\ UNCHANGED <<attached, idle, idleSince, age>>
        /\ events' = [events EXCEPT ![s] = Append(@, "on")]
    BY <1>11 DEF SaverStarts, seats
  <2>2. \A x \in X11 : events'[x] = events[x] \/ events'[x] = Append(events[x], "on")
    BY <2>1 DEF TypeOK
  <2>3. ASSUME NEW x \in X11, Told(x) PROVE Told(x)'
    <3>1. "off" \in Range(Append(events[x], "on"))
      BY <1>0, <2>3, OffAppended DEF Lines
    <3> QED BY <2>2, <2>3, <3>1
  <2> QED BY <1>0, <2>1, <2>3
<1>12. ASSUME UNCHANGED <<attached, idle, idleSince, age, events>> PROVE Cached'
  BY <1>0, <1>12
<1>13. ASSUME EndTask \/ Fire PROVE Cached'
  BY <1>12, <1>13 DEF EndTask, Fire, user, seats, lines
<1>14. ASSUME UNCHANGED vars PROVE Cached'
  <2>1. UNCHANGED <<attached, idle, idleSince, age, events>>
    BY <1>14 DEF vars, user, seats, lines
  <2> QED BY <1>12, <2>1
<1> HIDE DEF Cached
<1>15. Cached'
  BY <1>3, <1>4, <1>5, <1>6, <1>7, <1>8, <1>9, <1>10, <1>11, <1>13, <1>14,
     EndTaskIs DEF Next
<1>16. CacheIsCurrent'
  BY <1>15 DEF Cached, CacheIsCurrent
<1> QED BY <1>1, <1>16

\* A threshold passes only for sessions that have been idle for that long, and
\* the first input is noticed.
LEMMA PassedStep ==
  ASSUME TypeOK, SaverInv, CacheInv, PassedInv, TypeOK', CacheInv', [Next]_vars
  PROVE  PassedInv'
<1> DEFINE Holds(t, s) ==
      /\ s \in X11 =>
           s \in idle /\ (t <= age[s] \/ "off" \in Range(events[s]))
      /\ s \in watching => t <= age[s]
           Passed == \A t \in passed, s \in attached : Holds(t, s)
<1> SUFFICES ASSUME ~MayReattach, ~sleeping' PROVE Passed'
  BY DEF PassedInv
<1>0. /\ ~sleeping => Passed
      /\ attached \subseteq Session /\ watching \subseteq TTY
      /\ \A x \in X11 : events[x] \in Seq(Lines) /\ age[x] \in 0..Forever
      /\ \A x \in TTY : age[x] \in 0..Forever
      /\ passed \subseteq Nat
  BY Kinds, ForeverIs DEF PassedInv, TypeOK, Lines
<1>1. ASSUME Evaluates PROVE Passed'
  <2> SUFFICES ASSUME NEW t \in passed', NEW s \in attached' PROVE Holds(t, s)'
    OBVIOUS
  <2>1. t \in asked /\ t <= IdleTime'
    BY <1>1, UpdateIs DEF Evaluates, TypeOK
  <2>2. t \in Nat \ {0}
    BY <2>1, ForeverIs DEF TypeOK
  <2>3. IdleTimes' /\ s \in Session
    BY IdleTimesNext DEF TypeOK
  <2>4. /\ IdleTime' \in -1..Forever
        /\ IdleTime' <= IdleOf(s)'
        /\ s \in TTY => IdleOf(s)' = age'[s]
        /\ s \in X11 /\ s \in idle' => IdleOf(s)' = idleSince'[s]
        /\ s \notin TTY /\ s \notin idle' => IdleOf(s)' = -1
    BY <2>3 DEF IdleTimes
  <2>5. s \in TTY \/ s \in idle'
    BY <2>1, <2>2, <2>4
  <2>6. ASSUME s \in X11
        PROVE  s \in idle' /\ (t <= age'[s] \/ "off" \in Range(events'[s]))
    <3>1. s \in idle' /\ IdleOf(s)' = idleSince'[s]
      BY <2>4, <2>5, <2>6, Kinds
    <3>2. t <= idleSince'[s]
      <4>1. idleSince'[s] \in Unknown..Forever
        BY <2>6 DEF TypeOK
      <4> QED BY <2>1, <2>2, <2>4, <3>1, <4>1 DEF Unknown
    <3>3. idleSince'[s] # Unknown
      BY <2>2, <3>2 DEF Unknown
    <3>4. idleSince'[s] \in {Unknown, age'[s]} \/ "off" \in Range(events'[s])
      BY <2>6, <3>1 DEF CacheInv, CacheIsCurrent
    <3> QED BY <3>1, <3>2, <3>3, <3>4
  <2>7. ASSUME s \in watching' PROVE t <= age'[s]
    <3>1. s \in TTY /\ age'[s] \in 0..Forever
      BY <2>7, Kinds DEF TypeOK
    <3> QED BY <2>1, <2>2, <2>4, <3>1
  <2> QED BY <2>6, <2>7
<1>2. ASSUME ~sleeping,
             UNCHANGED <<passed, attached, idle, watching, age, events>>
      PROVE  Passed'
  BY <1>0, <1>2
<1>3. ASSUME Tick PROVE Passed'
  <2>1. /\ UNCHANGED <<passed, attached, idle, watching, events, sleeping>>
        /\ \A x \in Device : x \in attached => age'[x] = Older(age[x])
    BY <1>3 DEF Tick, seats, lines
  <2>2. \A x \in Device : x \in attached => age[x] <= age'[x]
    <3>1. \A n \in 0..Forever : n <= Older(n)
      BY ForeverIs DEF Older, Unknown
    <3> QED BY <2>1, <3>1 DEF TypeOK
  <2> SUFFICES ASSUME NEW t \in passed, NEW s \in attached PROVE Holds(t, s)'
    BY <2>1
  <2>3. Holds(t, s)
    BY <1>0, <2>1
  <2>4. /\ s \in X11 \/ s \in watching => s \in Device
        /\ t \in Nat /\ \A x \in Device : age[x] \in Nat /\ age'[x] \in Nat
    BY <1>0, Kinds, ForeverIs DEF TypeOK
  <2> QED BY <2>1, <2>2, <2>3, <2>4
<1>4. ASSUME NEW r \in Device, Input(r) PROVE Passed'
  <2>1. /\ UNCHANGED <<passed, attached, idle, sleeping>> /\ r \in attached
        /\ age' = [age EXCEPT ![r] = 0]
        /\ events' = IF r \in saver THEN [events EXCEPT ![r] = Append(@, "off")]
                     ELSE events
        /\ watching' = watching \ {r}
    BY <1>4 DEF Input, seats
  <2>2. \A x \in X11 : x # r => age'[x] = age[x] /\ events'[x] = events[x]
    BY <2>1, Kinds DEF TypeOK
  <2>3. \A x \in watching' : x # r /\ x \in watching /\ age'[x] = age[x]
    BY <1>0, <2>1, Kinds DEF TypeOK
  <2>4. ASSUME r \in X11, r \in idle PROVE "off" \in Range(events'[r])
    <3>1. CASE r \in saver
      <4>1. events'[r] = Append(events[r], "off")
        BY <2>1, <2>4, <3>1 DEF TypeOK
      <4>2. "off" \in Range(Append(events[r], "off"))
        BY <1>0, <2>4, OffAppended DEF Lines
      <4> QED BY <4>1, <4>2
    <3>2. CASE r \notin saver
      <4>1. r \notin detached
        BY <2>1 DEF CacheInv
      <4>2. events[r] # <<>> /\ events[r][Len(events[r])] = "off"
        BY <2>1, <2>4, <3>2, <4>1 DEF SaverInv
      <4>3. "off" \in Range(events[r])
        BY <1>0, <2>4, <4>2, OffLast
      <4> QED BY <2>1, <3>2, <4>3
    <3> QED BY <3>1, <3>2
  <2> SUFFICES ASSUME NEW t \in passed, NEW s \in attached PROVE Holds(t, s)'
    BY <2>1
  <2>5. Holds(t, s)
    BY <1>0, <2>1
  <2> QED BY <2>1, <2>2, <2>3, <2>4, <2>5
<1>5. ASSUME NEW r \in X11, SaverStarts(r) PROVE Passed'
  <2>1. /\ UNCHANGED <<passed, attached, idle, watching, age, sleeping>>
        /\ events' = [events EXCEPT ![r] = Append(@, "on")]
    BY <1>5 DEF SaverStarts, seats
  <2>2. \A x \in X11 : events'[x] = events[x] \/ events'[x] = Append(events[x], "on")
    BY <2>1 DEF TypeOK
  <2>3. ASSUME NEW x \in X11, "off" \in Range(events[x])
        PROVE  "off" \in Range(events'[x])
    <3>1. "off" \in Range(Append(events[x], "on"))
      BY <1>0, <2>3, OffAppended DEF Lines
    <3> QED BY <2>2, <2>3, <3>1
  <2> QED BY <1>0, <2>1, <2>3
<1>6. ASSUME EndTask \/ Fire PROVE Passed'
  <2>1. UNCHANGED <<passed, attached, idle, watching, age, events, sleeping>>
    BY <1>6 DEF EndTask, Fire, user, seats, lines
  <2> QED BY <1>2, <2>1
<1>7. ASSUME UNCHANGED vars PROVE Passed'
  <2>1. UNCHANGED <<passed, attached, idle, watching, age, events, sleeping>>
    BY <1>7 DEF vars, user, seats, lines
  <2> QED BY <1>2, <2>1
<1> HIDE DEF Passed
<1> QED BY <1>1, <1>3, <1>4, <1>5, <1>6, <1>7, TaskIs, EndTaskIs
        DEF Next
-----------------------------------------------------------------------------
\* The parts of the invariant that hold however long a task takes
IInv == TypeOK /\ SaverInv /\ MeasuredInv /\ CacheInv /\ PassedInv

LEMMA InvInit == Init => IInv
<1> SUFFICES ASSUME Init PROVE IInv
  OBVIOUS
<1>1. TypeOK
  BY TypeInit
<1>2. attached = {} /\ saver = {} /\ passed = {} /\ idle = {}
  BY DEF Init
<1>3. SaverInv
  BY DEF Init, SaverInv
<1>4. MeasuredInv
  BY <1>2 DEF MeasuredInv
<1>5. CacheInv
  BY <1>2 DEF CacheInv, CacheIsCurrent
<1>6. PassedInv
  BY <1>2 DEF PassedInv
<1> QED BY <1>1, <1>3, <1>4, <1>5, <1>6 DEF IInv

LEMMA InvStep == IInv /\ [Next]_vars => IInv'
<1> SUFFICES ASSUME IInv, [Next]_vars PROVE IInv'
  OBVIOUS
<1>0. TypeOK /\ SaverInv /\ MeasuredInv /\ CacheInv /\ PassedInv
  BY DEF IInv
<1>1. TypeOK'
  BY <1>0, TypeStep
<1>2. SaverInv'
  BY <1>0, SaverStep
<1>3. MeasuredInv'
  BY <1>0, <1>1, MeasuredStep
<1>4. CacheInv'
  BY <1>0, <1>1, CacheStep
<1>5. PassedInv'
  BY <1>0, <1>1, <1>4, PassedStep
<1> QED BY <1>1, <1>2, <1>3, <1>4, <1>5 DEF IInv

LEMMA Invariance == Spec => []IInv
<1>1. Init => IInv
  BY InvInit
<1>2. IInv /\ [Next]_vars => IInv'
  BY InvStep
<1> QED BY <1>1, <1>2, PTL DEF Spec

\* Where no display comes back under its old name, what is believed of idle
\* sessions is true: the idle time cached of an X11 session is the true one
\* unless the line that tells otherwise is under way, and once every line has
\* been handled no threshold is in effect that some session has not been idle
\* for (session/x11.py, xss.py, tty_idle.py, timer.py).
THEOREM Known ==
  ASSUME MayReattach = FALSE
  PROVE  Spec => []IdleIsKnown
<1>1. IInv => IdleIsKnown
  <2> SUFFICES ASSUME IInv PROVE IdleIsKnown
    OBVIOUS
  <2>1. TypeOK /\ CacheIsCurrent /\ PassedInv
    BY DEF IInv, CacheInv
  <2>2. ASSUME ~sleeping, \A s \in X11 : events[s] = <<>>,
               NEW t \in passed, NEW s \in attached, s \in X11 \cup watching
        PROVE  t <= age[s]
    <3>1. ~("off" \in Range(<<>>))
      <4>1. DOMAIN <<>> = {}
        OBVIOUS
      <4> QED BY <4>1 DEF Range
    <3> QED BY <2>1, <2>2, <3>1 DEF PassedInv
  <2>3. IdleIsTrue
    BY <2>2 DEF IdleIsTrue
  <2> QED BY <2>1, <2>3 DEF IdleIsKnown
<1> QED BY <1>1, Invariance, PTL
-----------------------------------------------------------------------------
\* What the timers wait for.  The idle time of a device is bounded by the time
\* for which it counts as idle, or will when it is measured.
Bound(s) ==
  IF s \in idle /\ idleSince[s] # Unknown THEN idleSince[s] ELSE age[s]

\* The timer w fires soon after the threshold t at the latest, counting with
\* the idle time of one device.
InTime(w) ==
  detached = {} =>
    \E r \in attached \cap Device : \A t \in timer \ skipped :
      w.left = 0 \/ w.left <= t - Bound(r) + 1

\* The running module has a timer, or its task is queued or under way.
ServedInv ==
  timer # {} =>
    \/ timer \in fired \/ task = <<timer>>
    \/ harm = "unarmed"
    \/ timer \subseteq skipped
    \/ \E w \in waiting : w.of = timer /\ InTime(w)

\* Nothing is ahead of a system that goes to sleep.
AsleepInv == sleeping => Schedule = {}

TimerInv == ServedInv /\ AsleepInv

LEMMA BoundIs ==
  ASSUME TypeOK
  PROVE  /\ \A s \in Device : Bound(s) \in Nat /\ age[s] \in Nat
         /\ ~sleeping => \A s \in attached \cap Device : IdleTime <= Bound(s)
<1>1. /\ \A d \in Device : age[d] \in Nat
      /\ \A x \in X11 : idleSince[x] \in Int /\ idleSince[x] >= -1
      /\ idle \subseteq X11 /\ attached \subseteq Session
      /\ IdleTimes
  BY IdleTimesNow, ForeverIs DEF TypeOK, Unknown
<1>2. \A s \in Device : Bound(s) \in Nat
  BY <1>1 DEF Bound, Unknown
<1>3. ASSUME ~sleeping, NEW s \in attached \cap Device PROVE IdleTime <= Bound(s)
  <2>1. IdleTime <= IdleOf(s) /\ IdleTime \in Int /\ IdleOf(s) \in Int
    BY <1>1, <1>3, ForeverIs DEF IdleTimes
  <2>2. IdleOf(s) <= Bound(s)
    <3>1. CASE s \in TTY
      BY <1>1, <1>3, <3>1, Kinds DEF IdleTimes, Bound
    <3>2. CASE s \in X11 /\ s \in idle
      <4>1. IdleOf(s) = idleSince[s]
        BY <1>1, <3>2, Kinds DEF IdleTimes
      <4> QED BY <1>1, <1>3, <3>2, <4>1 DEF Bound, Unknown
    <3>3. CASE s \in X11 /\ s \notin idle
      <4>1. IdleOf(s) = -1
        BY <1>1, <3>3, Kinds DEF IdleTimes
      <4> QED BY <1>2, <1>3, <4>1
    <3> QED BY <1>3, <3>1, <3>2, <3>3 DEF Device
  <2> QED BY <1>2, <1>3, <2>1, <2>2
<1> QED BY <1>1, <1>2, <1>3

LEMMA BoundNow == TypeOK => \A s \in Device : Bound(s) \in Nat
BY BoundIs

LEMMA BoundNext == TypeOK' => (\A s \in Device : Bound(s) \in Nat)'
BY BoundNow, PTL

\* Only time makes idle times longer, and a session that leaves or comes again.
LEMMA BoundEvaluates ==
  ASSUME TypeOK, SaverInv, MeasuredInv, TypeOK', Evaluates, Next,
         detached' = {}, NEW r \in attached \cap Device
  PROVE  r \in attached' /\ detached = {} /\ Bound(r)' <= Bound(r)
<1>1. /\ task = <<>> /\ task' # <<>>
      /\ \A x \in X11 : idleSince'[x] \in {Unknown, idleSince[x], age'[x]}
  BY EvaluatedIs, UpdateIs DEF Evaluates, Update
<1>2. detached = {} /\ r \in attached' /\ age'[r] = age[r]
  <2>1. \A s \in Session : Detach(s) => FALSE
    BY DEF Detach
  <2>2. ASSUME NEW s \in Session, Attach(s)
        PROVE  detached = {} /\ r \in attached' /\ age'[r] = age[r]
    BY <2>2, Kinds DEF Attach
  <2>3. ASSUME UNCHANGED <<attached, detached, age>>
        PROVE  detached = {} /\ r \in attached' /\ age'[r] = age[r]
    BY <2>3
  <2>4. \/ \E s \in Session : Attach(s) \/ Detach(s)
        \/ UNCHANGED <<attached, detached, age>>
    BY <1>1 DEF Next, Apply, ApplyRaises, EndTask, XssEvent, TTYEvent, TimerDone,
                Sleep, Unlock, Tick, Fire, Input, SaverStarts, user, seats
  <2> QED BY <2>1, <2>2, <2>3, <2>4
<1>3. ASSUME r \in X11, r \in idle', r \notin idle
      PROVE  idleSince'[r] \in {Unknown, age'[r]}
  <2>1. PICK s \in X11 : XssEvent(s) /\ s = r
    <3>1. \/ \E s \in X11 : XssEvent(s)
          \/ idle' = idle
      BY <1>1 DEF Next, Apply, ApplyRaises, EndTask, TTYEvent, TimerDone, Attach,
                  Detach, Sleep, Unlock, Tick, Fire, Input, SaverStarts
    <3>2. PICK s \in X11 : XssEvent(s)
      BY <1>3, <3>1
    <3>3. idle' \subseteq idle \cup {s}
      BY <3>2 DEF XssEvent
    <3> QED BY <1>3, <3>2, <3>3
  <2>2. Update({}, Invalidated({r}))
    BY <2>1 DEF XssEvent
  <2>3. /\ Invalidated({r}) \in [X11 -> Unknown..Forever]
        /\ Invalidated({r})[r] = Unknown
    BY <1>3, InvalidatedIs
  <2> QED BY <1>3, <2>2, <2>3, UpdateIs DEF TypeOK
<1>4. /\ Bound(r) \in Nat /\ age[r] \in Nat /\ idle \subseteq X11
      /\ idle' \subseteq X11
  BY BoundIs DEF TypeOK
<1>5. age[r] <= Bound(r)
  <2>1. ASSUME r \in idle, idleSince[r] # Unknown PROVE age[r] <= idleSince[r]
    BY <1>2, <1>4, <2>1 DEF MeasuredInv
  <2> QED BY <1>4, <2>1 DEF Bound
<1>6. CASE r \in idle' /\ idleSince'[r] # Unknown
  <2>1. Bound(r)' = idleSince'[r]
    BY <1>6 DEF Bound
  <2>2. CASE idleSince'[r] = age'[r]
    BY <1>2, <1>5, <2>1, <2>2
  <2>3. CASE idleSince'[r] # age'[r]
    <3>1. r \in X11 /\ r \in idle /\ idleSince'[r] = idleSince[r]
      <4>1. r \in X11
        BY <1>4, <1>6
      <4>2. idleSince'[r] = idleSince[r]
        BY <1>1, <1>6, <2>3, <4>1
      <4> QED BY <1>3, <1>6, <2>3, <4>1, <4>2
    <3>2. Bound(r) = idleSince[r]
      BY <1>6, <3>1 DEF Bound
    <3> QED BY <1>2, <1>4, <2>1, <3>1, <3>2
  <2> QED BY <2>2, <2>3
<1>7. CASE ~(r \in idle' /\ idleSince'[r] # Unknown)
  <2>1. Bound(r)' = age'[r]
    BY <1>7 DEF Bound
  <2> QED BY <1>2, <1>5, <2>1
<1> QED BY <1>2, <1>6, <1>7

\* The timers run down with the time.
LEMMA InTimeGoesOn ==
  ASSUME TypeOK, TypeOK', UNCHANGED <<timer, skipped>>, NEW d \in {0, 1},
         detached' = {} => detached = {},
         detached' = {} => \A r \in attached \cap Device :
           r \in attached' /\ Bound(r)' <= Bound(r) + d,
         NEW w, NEW v, w.left \in Nat, v.left \in Nat,
         v.left = 0 \/ v.left <= w.left - d, InTime(w)
  PROVE  InTime(v)'
<1> SUFFICES ASSUME detached' = {}
             PROVE  \E r \in attached' \cap Device : \A t \in timer \ skipped :
                      v.left = 0 \/ v.left <= t - Bound(r)' + 1
  BY DEF InTime
<1>1. PICK r \in attached \cap Device : \A t \in timer \ skipped :
        w.left = 0 \/ w.left <= t - Bound(r) + 1
  BY DEF InTime
<1>2. r \in attached' \cap Device /\ Bound(r)' <= Bound(r) + d
  OBVIOUS
<1>3. Bound(r) \in Nat /\ Bound(r)' \in Nat
  <2>1. \A s \in Device : Bound(s) \in Nat
    BY BoundIs
  <2>2. \A s \in Device : Bound(s)' \in Nat
    BY BoundNext
  <2> QED BY <2>1, <2>2
<1>4. ASSUME NEW t \in timer \ skipped
      PROVE  v.left = 0 \/ v.left <= t - Bound(r)' + 1
  <2>1. w.left = 0 \/ w.left <= t - Bound(r) + 1
    BY <1>1
  <2>2. t \in Nat
    BY ForeverIs DEF TypeOK
  <2> QED BY <1>2, <1>3, <2>1, <2>2
<1> QED BY <1>2, <1>4

LEMMA ServedGoesOn ==
  ASSUME TypeOK, TypeOK', ServedInv, UNCHANGED <<timer, skipped, harm>>,
         NEW d \in {0, 1},
         detached' = {} => detached = {},
         detached' = {} => \A r \in attached \cap Device :
           r \in attached' /\ Bound(r)' <= Bound(r) + d,
         timer \in fired => timer \in fired' \/ task' = <<timer>>,
         task = <<timer>> => task' = <<timer>>,
         \A w \in waiting :
           \/ w.of \in fired'
           \/ \E v \in waiting' : /\ v.of = w.of
                                  /\ v.left = 0 \/ v.left <= w.left - d
  PROVE  ServedInv'
<1>1. /\ \A w \in waiting : w.left \in Nat
      /\ \A w \in waiting' : w.left \in Nat
  <2>1. \A w \in Timer : w.left \in Nat
    BY ForeverIs DEF Timer
  <2> QED BY <2>1 DEF TypeOK
<1>2. ASSUME NEW w \in waiting, w.of = timer, InTime(w), w.of \notin fired'
      PROVE  \E v \in waiting' : v.of = timer /\ InTime(v)'
  <2>1. PICK v \in waiting' : /\ v.of = timer
                              /\ v.left = 0 \/ v.left <= w.left - d
    BY <1>2
  <2>2. w.left \in Nat /\ v.left \in Nat
    BY <1>1
  <2>3. InTime(v)'
    BY <1>2, <2>1, <2>2, InTimeGoesOn
  <2> QED BY <2>1, <2>3
<1> QED BY <1>2 DEF ServedInv

\* A task leaves the timers, and its evaluation makes no idle time longer.
LEMMA TimerEvaluates ==
  ASSUME IInv, ServedInv, TypeOK', Evaluates, Next
  PROVE  TimerInv'
<1>0. /\ TypeOK /\ SaverInv /\ MeasuredInv
      /\ task = <<>> /\ task' # <<>> /\ UNCHANGED <<asked, timer>>
      /\ passed' = {t \in asked : t <= IdleTime'}
  BY DEF IInv, Evaluates, Update, given
<1>1. AsleepInv'
  <2>1. sleeping' => IdleTime' = Forever
    BY IdleTimesNext DEF IdleTimes
  <2>2. asked \subseteq Thresholds /\ \A t \in Thresholds : t <= Forever
    BY <1>0, ForeverIs DEF TypeOK
  <2> QED BY <1>0, <2>1, <2>2 DEF AsleepInv, Schedule
<1>2. /\ detached' = {} => detached = {}
      /\ detached' = {} => \A r \in attached \cap Device :
           r \in attached' /\ Bound(r)' <= Bound(r)
  <2>1. detached \subseteq detached'
    BY <1>0 DEF Next, Apply, ApplyRaises, EndTask, XssEvent, TTYEvent, TimerDone,
                Attach, Detach, Sleep, Unlock, Tick, Fire, Input, SaverStarts,
                seats
  <2> QED BY <1>0, <2>1, BoundEvaluates
<1>3. \A r \in attached \cap Device : Bound(r) \in Nat
  BY <1>0, BoundIs
<1>4. UNCHANGED <<skipped, harm>>
  BY <1>0 DEF Next, Apply, ApplyRaises, EndTask, XssEvent, TTYEvent, TimerDone,
              Attach, Detach, Sleep, Unlock, Tick, Fire, Input, SaverStarts,
              timers
<1>5. ASSUME fired' = fired \/ \E S \in fired : fired' = fired \ {S} /\ task' = <<S>>,
             \A w \in waiting :
               \E v \in waiting' : v.of = w.of /\ v.left = w.left
      PROVE  ServedInv'
  <2>1. \A w \in waiting : w.left \in Nat
    <3>1. \A w \in Timer : w.left \in Nat
      BY ForeverIs DEF Timer
    <3> QED BY <1>0, <3>1 DEF TypeOK
  <2>2. timer \in fired => timer \in fired' \/ task' = <<timer>>
    BY <1>5
  <2>3. \A w \in waiting :
          \E v \in waiting' : v.of = w.of /\ (v.left = 0 \/ v.left <= w.left - 0)
    BY <1>5, <2>1
  <2>4. detached' = {} => \A r \in attached \cap Device :
          r \in attached' /\ Bound(r)' <= Bound(r) + 0
    BY <1>2, <1>3
  <2>5. task # <<timer>>
    BY <1>0
  <2> QED BY <1>0, <1>2, <1>4, <2>2, <2>3, <2>4, <2>5, ServedGoesOn
<1>6. \/ UNCHANGED <<waiting, fired>>
      \/ \E S \in fired : TimerDone(S)
  BY <1>0 DEF Next, Apply, ApplyRaises, EndTask, XssEvent, TTYEvent, Attach,
              Detach, Sleep, Unlock, Tick, Fire, Input, SaverStarts, timers
<1>7. ASSUME NEW S \in fired, TimerDone(S) PROVE ServedInv'
  <2>1. /\ task' = <<S>> /\ fired' = fired \ {S}
        /\ waiting' = {[w EXCEPT !.held = @ /\ w.of # S] : w \in waiting}
    BY <1>7 DEF TimerDone, Update
  <2>2. ASSUME NEW w \in waiting
        PROVE  \E v \in waiting' : v.of = w.of /\ v.left = w.left
    <3> DEFINE v == [w EXCEPT !.held = @ /\ w.of # S]
    <3>1. v \in waiting'
      BY <2>1
    <3>2. v.of = w.of /\ v.left = w.left
      BY <1>0 DEF TypeOK, Timer
    <3> QED BY <3>1, <3>2
  <2> QED BY <1>5, <2>1, <2>2
<1>8. ServedInv'
  BY <1>5, <1>6, <1>7
<1> QED BY <1>1, <1>8 DEF TimerInv

\* A timer that is started for the wanted module is in time for the thresholds
\* that have not gone by.
LEMMA Armed ==
  ASSUME TypeOK, AsleepInv, Wanted # {}, GoneBy # Wanted,
         NEW ws \in SUBSET Timer
  PROVE  \E w \in StartNext(Wanted, ws) :
           /\ w.of = Wanted
           /\ \E r \in attached \cap Device : \A t \in Wanted \ GoneBy :
                w.left <= t - Bound(r) + 1
<1>1. /\ IdleTimes /\ attached \subseteq Session /\ idle \subseteq X11
      /\ Wanted \in SUBSET Thresholds /\ \A t \in Thresholds : t \in Nat
      /\ IdleTime \in Int /\ Forever \in Nat
      /\ \A s \in Session : IdleOf(s) \in -1..Forever
  BY IdleTimesNow, ForeverIs DEF TypeOK, Wanted, Schedule, IdleTimes
<1>2. IdleTime >= 0 /\ ~sleeping /\ attached # {}
  <2>1. IdleTime >= 0 /\ Schedule # {}
    BY DEF Wanted
  <2> QED BY <1>1, <2>1 DEF AsleepInv, IdleTimes
<1>3. PICK r \in attached : IdleTime = IdleOf(r)
  BY <1>1, <1>2 DEF IdleTimes
<1>4. r \in Device /\ Bound(r) = IdleTime
  <2>1. CASE r \in TTY
    BY <1>1, <1>3, <2>1, Kinds DEF IdleTimes, Bound, Device
  <2>2. CASE r \in X11 /\ r \in idle
    <3>1. IdleTime = idleSince[r] /\ idleSince[r] # Unknown
      BY <1>1, <1>2, <1>3, <2>2, Kinds DEF IdleTimes, Unknown
    <3> QED BY <2>2, <3>1, Kinds DEF Bound
  <2>3. CASE r \notin TTY /\ r \notin idle
    <3>1. IdleOf(r) = -1
      BY <1>1, <2>3 DEF IdleTimes
    <3> QED BY <1>2, <1>3, <3>1
  <2> QED BY <1>1, <2>1, <2>2, <2>3
<1>5. \A t \in Wanted : t \notin GoneBy <=> IdleTime < t
  BY <1>1 DEF GoneBy
<1>6. \E t \in Wanted : IdleTime < t
  BY <1>5 DEF GoneBy
<1>7. PICK w \in StartNext(Wanted, ws) :
        /\ w.of = Wanted
        /\ \A t \in Wanted : IdleTime < t => w.left <= t - IdleTime + 1
  BY <1>1, <1>2, <1>6, StartNextIs
<1> QED BY <1>3, <1>4, <1>5, <1>7

\* Some timer of ws serves the module with schedule S, of which K have gone by.
Served(ws, S, K) ==
  \E w \in ws :
    /\ w.of = S
    /\ detached = {} =>
         \E r \in attached \cap Device : \A t \in S \ K :
           w.left = 0 \/ w.left <= t - Bound(r) + 1

\* The rest of update() and of timer_handle_done leaves the running module with
\* a timer, unless it raises.
LEMMA TimerApplies ==
  ASSUME TypeOK, TimerInv, Apply \/ ApplyRaises
  PROVE  TimerInv'
<1>0. /\ task # <<>> /\ task' = <<>>
      /\ UNCHANGED <<asked, passed, sleeping, detached, fired, attached, age>>
      /\ UNCHANGED <<idle, idleSince>>
      /\ ServedInv /\ AsleepInv
  BY EndTaskIs DEF EndTask, user, given, seats, TimerInv
<1>1. AsleepInv'
  BY <1>0 DEF AsleepInv, Schedule
<1> SUFFICES ServedInv'
  BY <1>1 DEF TimerInv
<1>2. ASSUME NEW S, NEW K, NEW ws, timer' = S, skipped' = K, waiting' = ws,
             S = {} \/ S \in fired \/ harm' = "unarmed" \/ S \subseteq K
               \/ Served(ws, S, K)
      PROVE  ServedInv'
  <2>1. \A r : Bound(r)' = Bound(r)
    BY <1>0 DEF Bound
  <2>2. ASSUME Served(ws, S, K)
        PROVE  \E w \in waiting' : w.of = timer' /\ InTime(w)'
    BY <1>0, <1>2, <2>1, <2>2 DEF InTime, Served
  <2> QED BY <1>0, <1>2, <2>2 DEF ServedInv
<1>3. /\ Wanted \in SUBSET Thresholds /\ waiting \in SUBSET Timer
      /\ task[1] \in SUBSET Thresholds
      /\ Cancel(timer, waiting) \in SUBSET Timer
  <2>1. Wanted \in SUBSET Thresholds /\ waiting \in SUBSET Timer
    BY DEF Wanted, Schedule, TypeOK
  <2>2. task[1] \in SUBSET Thresholds
    BY <1>0 DEF TypeOK
  <2> QED BY <2>1, <2>2, CancelIs
<1>4. Synchronized \in SUBSET Timer
  BY <1>3, StartNextIs DEF Synchronized
<1>5. ASSUME NEW ws \in SUBSET Timer, Wanted # {}
      PROVE  Wanted \subseteq GoneBy \/ Served(StartNext(Wanted, ws), Wanted, GoneBy)
  <2>1. CASE GoneBy = Wanted
    BY <2>1
  <2>2. CASE GoneBy # Wanted
    BY <1>0, <1>5, <2>2, Armed DEF Served
  <2> QED BY <2>1, <2>2
\* The module that keeps running
<1>6. ASSUME timer # {}, task # <<timer>>
      PROVE  \/ timer \in fired \/ harm = "unarmed" \/ timer \subseteq skipped
             \/ Served(waiting, timer, skipped)
  <2>1. ASSUME NEW w \in waiting, w.of = timer, InTime(w)
        PROVE  Served(waiting, timer, skipped)
    BY <2>1 DEF InTime, Served
  <2> QED BY <1>0, <1>6, <2>1 DEF ServedInv
<1>7. CASE Apply
  <2>1. /\ timer' = Wanted
        /\ waiting' = IF task = <<{}>> THEN Synchronized
                      ELSE StartNext(task[1], Synchronized)
        /\ skipped' = IF Wanted \in {{}, task[1]} \/ Wanted # timer
                      THEN GoneBy ELSE skipped
        /\ harm' = IF Wanted \in {{}, task[1]} \/ Wanted # timer
                   THEN "none" ELSE harm
    BY <1>7 DEF Apply
  <2>2. ASSUME Wanted # task[1], NEW w \in Synchronized, w.of = Wanted
        PROVE  w \in waiting'
    BY <1>3, <1>4, <2>1, <2>2, StartNextIs
  <2>3. CASE Wanted # {} /\ Wanted = task[1]
    <3>1. waiting' = StartNext(Wanted, Synchronized) /\ skipped' = GoneBy
      BY <2>1, <2>3
    <3> QED BY <1>2, <1>4, <1>5, <2>1, <2>3, <3>1
  <2>4. CASE Wanted # {} /\ Wanted # task[1] /\ Wanted # timer
    <3>1. skipped' = GoneBy
      BY <2>1, <2>4
    <3>2. Synchronized = StartNext(Wanted, Cancel(timer, waiting))
      BY <2>4 DEF Synchronized
    <3>3. Served(Synchronized, Wanted, GoneBy) => Served(waiting', Wanted, GoneBy)
      BY <2>2, <2>4 DEF Served
    <3> QED BY <1>2, <1>3, <1>5, <2>1, <2>4, <3>1, <3>2, <3>3
  <2>5. CASE Wanted # {} /\ Wanted # task[1] /\ Wanted = timer
    <3>1. skipped' = skipped /\ harm' = harm /\ task # <<timer>> /\ timer' = timer
      BY <2>1, <2>5
    <3>2. Synchronized = waiting
      BY <2>5 DEF Synchronized
    <3>3. Served(waiting, timer, skipped) => Served(waiting', timer, skipped)
      BY <2>2, <2>5, <3>2 DEF Served
    <3> QED BY <1>2, <1>6, <2>5, <3>1, <3>3
  <2>6. CASE Wanted = {}
    BY <1>2, <2>1, <2>6
  <2> QED BY <2>3, <2>4, <2>5, <2>6
<1>8. CASE ApplyRaises
  <2>1. PICK where \in {"begin", "start", "end"} :
          /\ Raises(where)
          /\ harm' = IF timer' = timer /\ timer # {}
                     THEN CASE task = <<timer>> -> "unarmed"
                            [] OTHER -> IF where = "end" \/ harm = "unarmed"
                                        THEN harm ELSE "stale"
                     ELSE IF where = "end" THEN "none" ELSE "stale"
    BY <1>8 DEF ApplyRaises
  <2>2. \/ timer' = timer /\ waiting' = waiting /\ skipped' = skipped
        \/ timer' = {}
        \/ /\ timer' = Wanted /\ skipped' = GoneBy
           /\ waiting' = StartNext(Wanted, Cancel(timer, waiting))
    BY <2>1 DEF Raises, Synchronized
  <2>3. CASE timer' = timer /\ waiting' = waiting /\ skipped' = skipped
    <3>1. CASE timer # {} /\ task = <<timer>>
      <4>1. harm' = "unarmed"
        BY <2>1, <2>3, <3>1
      <4> QED BY <1>2, <4>1
    <3>2. CASE timer # {} /\ task # <<timer>>
      <4>1. harm = "unarmed" => harm' = "unarmed"
        BY <2>1, <2>3, <3>2
      <4> QED BY <1>2, <1>6, <2>3, <3>2, <4>1
    <3>3. CASE timer = {}
      BY <1>2, <2>3, <3>3
    <3> QED BY <3>1, <3>2, <3>3
  <2>4. CASE /\ timer' = Wanted /\ skipped' = GoneBy
             /\ waiting' = StartNext(Wanted, Cancel(timer, waiting))
    <3>1. CASE Wanted = {}
      BY <1>2, <2>4, <3>1
    <3>2. CASE Wanted # {}
      BY <1>2, <1>3, <1>5, <2>4, <3>2
    <3> QED BY <3>1, <3>2
  <2>5. CASE timer' = {}
    BY <1>2, <2>5
  <2> QED BY <2>2, <2>3, <2>4, <2>5
<1> QED BY <1>7, <1>8

LEMMA TimerStep ==
  ASSUME IInv, TimerInv, IInv', [Next]_vars
  PROVE  TimerInv'
<1>0. /\ TypeOK /\ TypeOK' /\ ServedInv /\ AsleepInv
      /\ \A w \in waiting : w.left \in Nat
      /\ \A r \in Device : Bound(r) \in Nat /\ age[r] \in Nat
      /\ \A x \in X11 : idleSince[x] \in Int
      /\ idle \subseteq X11
  <2>1. TypeOK /\ TypeOK' /\ ServedInv /\ AsleepInv
    BY DEF IInv, TimerInv
  <2>2. \A w \in Timer : w.left \in Nat
    BY ForeverIs DEF Timer
  <2>3. \A x \in X11 : idleSince[x] \in Int
    BY <2>1, ForeverIs DEF TypeOK, Unknown
  <2> QED BY <2>1, <2>2, <2>3, BoundIs DEF TypeOK
<1>1. ASSUME UNCHANGED <<asked, passed, sleeping, timer, skipped, harm>>,
             UNCHANGED <<attached, detached, task>>,
             NEW d \in {0, 1},
             \A r \in attached \cap Device : Bound(r)' <= Bound(r) + d,
             timer \in fired => timer \in fired',
             \A w \in waiting :
               \/ w.of \in fired'
               \/ \E v \in waiting' : /\ v.of = w.of
                                      /\ v.left = 0 \/ v.left <= w.left - d
      PROVE  TimerInv'
  <2>1. AsleepInv'
    BY <1>0, <1>1 DEF AsleepInv, Schedule
  <2>2. ServedInv'
    BY <1>0, <1>1, ServedGoesOn
  <2> QED BY <2>1, <2>2 DEF TimerInv
<1>2. \A w \in waiting : w.left <= w.left - 0
  BY <1>0
<1>3. ASSUME UNCHANGED <<asked, passed, sleeping, timer, skipped, harm>>,
             UNCHANGED <<attached, detached, task, waiting, fired>>,
             UNCHANGED <<age, idle, idleSince>>
      PROVE  TimerInv'
  <2>1. \A r \in attached \cap Device : Bound(r)' <= Bound(r) + 0
    BY <1>0, <1>3 DEF Bound
  <2> QED BY <1>1, <1>2, <1>3, <2>1
<1>4. ASSUME NEW s \in X11, SaverStarts(s) PROVE TimerInv'
  BY <1>3, <1>4 DEF SaverStarts, given, seats, timers
<1>5. ASSUME UNCHANGED vars PROVE TimerInv'
  BY <1>3, <1>5 DEF vars, given, user, seats, timers
<1>6. ASSUME Tick PROVE TimerInv'
  <2>1. /\ UNCHANGED <<asked, passed, sleeping, timer, skipped, harm>>
        /\ UNCHANGED <<attached, detached, task, fired, idle>>
        /\ \A s \in Device : s \in attached => age'[s] = Older(age[s])
        /\ \A s \in X11 : idleSince'[s] = Older(idleSince[s])
        /\ waiting' = {[w EXCEPT !.left = Max({0, @ - 1})] : w \in waiting}
    BY <1>6 DEF Tick, given, seats
  <2>2. ASSUME NEW r \in attached \cap Device PROVE Bound(r)' <= Bound(r) + 1
    <3>1. \A n \in -1..Forever : Older(n) <= n + 1
      BY ForeverIs DEF Older, Unknown
    <3>2. \A n \in 0..Forever : Older(n) # -1
      BY ForeverIs DEF Older, Unknown
    <3>3. /\ age'[r] = Older(age[r]) /\ age[r] \in -1..Forever
          /\ \A x \in X11 : idleSince[x] \in -1..Forever
      <4>1. age[r] \in 0..Forever
        BY <1>0, <2>2 DEF TypeOK
      <4> QED BY <1>0, <2>1, <2>2, <4>1 DEF TypeOK, Unknown
    <3>4. ASSUME r \in idle
          PROVE  /\ idleSince'[r] <= idleSince[r] + 1
                 /\ idleSince[r] = -1 => idleSince'[r] = -1
                 /\ idleSince[r] # -1 => idleSince'[r] # -1
      <4>1. idleSince'[r] = Older(idleSince[r]) /\ idleSince[r] \in -1..Forever
        BY <1>0, <2>1, <3>3, <3>4
      <4>2. Older(-1) = -1
        BY DEF Older, Unknown
      <4> QED BY <3>1, <3>2, <4>1, <4>2
    <3>5. CASE r \in idle /\ idleSince[r] # Unknown
      <4>1. Bound(r) = idleSince[r] /\ Bound(r)' = idleSince'[r]
        BY <2>1, <3>4, <3>5 DEF Bound, Unknown
      <4> QED BY <3>4, <3>5, <4>1
    <3>6. CASE ~(r \in idle /\ idleSince[r] # Unknown)
      <4>1. Bound(r) = age[r] /\ Bound(r)' = age'[r]
        BY <2>1, <3>4, <3>6 DEF Bound, Unknown
      <4> QED BY <3>1, <3>3, <4>1
    <3> QED BY <3>5, <3>6
  <2>3. ASSUME NEW w \in waiting
        PROVE  \E v \in waiting' : /\ v.of = w.of
                                   /\ v.left = 0 \/ v.left <= w.left - 1
    <3> DEFINE v == [w EXCEPT !.left = Max({0, @ - 1})]
    <3>1. v \in waiting'
      BY <2>1
    <3>2. v.of = w.of /\ v.left = Max({0, w.left - 1}) /\ w.left \in Nat
      BY <1>0 DEF TypeOK, Timer
    <3>3. v.left = 0 \/ v.left <= w.left - 1
      <4>1. CASE w.left = 0
        <5>1. Max({0, w.left - 1}) = 0
          BY <4>1 DEF Max
        <5> QED BY <3>2, <5>1
      <4>2. CASE w.left > 0
        <5>1. Max({0, w.left - 1}) = w.left - 1
          BY <3>2, <4>2 DEF Max
        <5> QED BY <3>2, <5>1
      <4> QED BY <3>2, <4>1, <4>2
    <3> HIDE DEF v
    <3> QED BY <3>1, <3>2, <3>3
  <2> QED BY <1>1, <2>1, <2>2, <2>3
<1>7. ASSUME NEW r \in Device, Input(r) PROVE TimerInv'
  <2>1. /\ UNCHANGED <<asked, passed, sleeping, timer, skipped, harm>>
        /\ UNCHANGED <<attached, detached, task, fired, waiting, idle>>
        /\ UNCHANGED idleSince /\ age' = [age EXCEPT ![r] = 0]
    BY <1>7 DEF Input, given, seats, timers
  <2>2. ASSUME NEW q \in attached \cap Device PROVE Bound(q)' <= Bound(q) + 0
    <3>1. age'[q] = age[q] \/ age'[q] = 0
      BY <1>0, <2>1, <2>2 DEF TypeOK
    <3> QED BY <1>0, <2>1, <2>2, <3>1 DEF Bound
  <2> QED BY <1>1, <1>2, <2>1, <2>2
<1>8. ASSUME Fire PROVE TimerInv'
  <2>1. /\ UNCHANGED <<asked, passed, sleeping, timer, skipped, harm>>
        /\ UNCHANGED <<attached, detached, task, age, idle, idleSince>>
        /\ \E w \in waiting : /\ waiting' = waiting \ {w}
                              /\ fired' = fired \cup {w.of}
    BY <1>8 DEF Fire, given, user, seats
  <2>2. \A q \in attached \cap Device : Bound(q)' <= Bound(q) + 0
    BY <1>0, <2>1 DEF Bound
  <2>3. ASSUME NEW w \in waiting
        PROVE  \/ w.of \in fired'
               \/ \E v \in waiting' : /\ v.of = w.of
                                      /\ v.left = 0 \/ v.left <= w.left - 0
    BY <1>2, <2>1
  <2> QED BY <1>1, <2>1, <2>2, <2>3
<1>9. ASSUME Evaluates, Next PROVE TimerInv'
  BY <1>0, <1>9, TimerEvaluates
<1>10. ASSUME Apply \/ ApplyRaises PROVE TimerInv'
  BY <1>0, <1>10, TimerApplies
<1> QED BY <1>0, <1>4, <1>5, <1>6, <1>7, <1>8, <1>9, <1>10, TaskIs DEF Next

\* The running timer module has a timer or a task of its timer, and this timer
\* fires soon after the next threshold at the latest, however long tasks take
\* and whichever of them end with an exception: but for an exception in the
\* task of its own timer (timer.py:66), and thresholds that went by before it
\* was started (timer.py:45).  A timer that update() or timer_handle_done leaves
\* running was started for an idle time at least as long (timer.py:38-68).
THEOREM OnTime == Spec => []TimerIsInTime
<1>1. Init => TimerInv
  <2> SUFFICES ASSUME Init PROVE TimerInv
    OBVIOUS
  <2>1. timer = {} /\ ~sleeping
    BY DEF Init
  <2> QED BY <2>1 DEF TimerInv, ServedInv, AsleepInv
<1>2. IInv /\ IInv' /\ TimerInv /\ [Next]_vars => TimerInv'
  BY TimerStep
<1>3. IInv /\ TimerInv => TimerIsInTime
  <2> SUFFICES ASSUME IInv, TimerInv, task = <<>>, timer # {}, timer \notin fired,
                      harm # "unarmed", ~(timer \subseteq skipped)
               PROVE  \E w \in waiting :
                        /\ w.of = timer
                        /\ \A t \in timer \ skipped :
                             detached = {} /\ IdleTime < t =>
                               w.left <= t - IdleTime + 1
    BY DEF TimerIsInTime
  <2>1. TypeOK /\ IdleTimes /\ Forever \in Nat
    BY IdleTimesNow, ForeverIs DEF IInv
  <2>2. PICK w \in waiting : w.of = timer /\ InTime(w)
    BY DEF TimerInv, ServedInv
  <2>3. ASSUME NEW t \in timer \ skipped, detached = {}, IdleTime < t
        PROVE  w.left <= t - IdleTime + 1
    <3>1. PICK r \in attached \cap Device : w.left = 0 \/ w.left <= t - Bound(r) + 1
      BY <2>2, <2>3 DEF InTime
    <3>2. IdleTime \in Int /\ t \in Nat /\ t <= Forever
      BY <2>1, ForeverIs DEF IdleTimes, TypeOK
    <3>3. ~sleeping
      BY <2>1, <2>3, <3>2 DEF IdleTimes
    <3>4. IdleTime <= Bound(r) /\ Bound(r) \in Nat
      BY <2>1, <3>3, BoundIs
    <3>5. w.left \in Nat
      BY <2>1 DEF TypeOK, Timer
    <3> QED BY <2>3, <3>1, <3>2, <3>4, <3>5
  <2> QED BY <2>2, <2>3
<1> QED BY <1>1, <1>2, <1>3, Invariance, PTL DEF Spec
=============================================================================
