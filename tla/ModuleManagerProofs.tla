------------------------- MODULE ModuleManagerProofs -------------------------
(***************************************************************************)
(* Proofs about ModuleManager, for every set of modules, configuration,    *)
(* choice of the modules that fail, and number of failures.                *)
(*                                                                         *)
(* Whatever fails: TypeOK; running_modules over-approximates the effects   *)
(* in force; a task that ends without an exception has converged; and no   *)
(* stop is re-entered before the configuration has been unsteady.          *)
(*                                                                         *)
(* What failures can break is proved under hypotheses on the constants,    *)
(* which stand in the theorems: as long as the configuration does not      *)
(* raise, the lock is held; as long as reconfigurations do not raise, a    *)
(* task in which nothing new fails does not either; and as long as nothing *)
(* fails, launchers serve their sessions, and modules are listed once and  *)
(* after their dependencies.                                               *)
(***************************************************************************)
EXTENDS ModuleManager, SequenceTheorems, WellFoundedInduction, TLAPS

(***************************************************************************)
(* Sequences: what the operations on running_modules keep.                 *)
(***************************************************************************)

\* Appending, as start does, adds one element to the list.
LEMMA AppendRange ==
  ASSUME NEW S, NEW s \in Seq(S), NEW e \in S
  PROVE  /\ Append(s, e) \in Seq(S)
         /\ Range(Append(s, e)) = Range(s) \cup {e}
<1>1. Append(s, e) \in Seq(S) /\ Append(s, e) = s \o <<e>> /\ <<e>> \in Seq(S)
  BY AppendIsConcat, AppendProperties
<1>2. Range(<<e>>) = {e}
  BY <1>1 DEF Range
<1>3. Range(s \o <<e>>) = Range(s) \cup Range(<<e>>)
  BY <1>1, RangeConcatenation
<1> QED  BY <1>1, <1>2, <1>3

\* A part of a list has elements of the list.
LEMMA SubSeqRange ==
  ASSUME NEW S, NEW s \in Seq(S), NEW m \in 1..Len(s)+1, NEW n \in 0..Len(s)
  PROVE  /\ SubSeq(s, m, n) \in Seq(S)
         /\ Len(SubSeq(s, m, n)) = IF m <= n THEN n - m + 1 ELSE 0
         /\ \A j \in m..n : s[j] \in Range(SubSeq(s, m, n))
         /\ Range(SubSeq(s, m, n)) \subseteq Range(s)
<1>1. \A j \in m..n : s[j] \in S
  BY ElementOfSeq
<1>2. /\ SubSeq(s, m, n) \in Seq(S)
      /\ Len(SubSeq(s, m, n)) = IF m <= n THEN n - m + 1 ELSE 0
      /\ \A j \in 1..n-m+1 : SubSeq(s, m, n)[j] = s[m+j-1]
  BY <1>1, SubSeqProperties
<1>3. ASSUME NEW j \in m..n
      PROVE  s[j] \in Range(SubSeq(s, m, n))
  <2>1. j - m + 1 \in 1..n-m+1 /\ m + (j - m + 1) - 1 = j
    OBVIOUS
  <2>2. SubSeq(s, m, n)[j - m + 1] = s[j]
    BY <1>2, <2>1
  <2>3. j - m + 1 \in DOMAIN SubSeq(s, m, n)
    BY <1>2, <2>1, LenProperties
  <2> QED  BY <2>2, <2>3 DEF Range
<1>4. ASSUME NEW j \in DOMAIN SubSeq(s, m, n)
      PROVE  SubSeq(s, m, n)[j] \in Range(s)
  <2>1. j \in 1..n-m+1
    BY <1>2, LenProperties
  <2>2. m+j-1 \in DOMAIN s
    BY <2>1, LenProperties
  <2> QED  BY <1>2, <2>1, <2>2 DEF Range
<1> QED  BY <1>2, <1>3, <1>4 DEF Range

\* Removing one occurrence, as stop does, loses no other module, and adds none.
LEMMA RemoveAtRange ==
  ASSUME NEW S, NEW s \in Seq(S), NEW i \in 1..Len(s)
  PROVE  /\ RemoveAt(s, i) \in Seq(S)
         /\ Range(s) \ {s[i]} \subseteq Range(RemoveAt(s, i))
         /\ Range(RemoveAt(s, i)) \subseteq Range(s)
<1> DEFINE a == SubSeq(s, 1, i-1)
           b == SubSeq(s, i+1, Len(s))
<1>0. Len(s) \in Nat /\ DOMAIN s = 1..Len(s)
  BY LenProperties
<1>1. /\ a \in Seq(S) /\ Range(a) \subseteq Range(s)
      /\ \A j \in 1..i-1 : s[j] \in Range(a)
  BY <1>0, SubSeqRange
<1>2. /\ b \in Seq(S) /\ Range(b) \subseteq Range(s)
      /\ \A j \in i+1..Len(s) : s[j] \in Range(b)
  BY <1>0, SubSeqRange
<1>3. RemoveAt(s, i) = a \o b
  BY DEF RemoveAt
<1> HIDE DEF a, b
<1>4. RemoveAt(s, i) \in Seq(S) /\ Range(RemoveAt(s, i)) = Range(a) \cup Range(b)
  BY <1>1, <1>2, <1>3, ConcatProperties, RangeConcatenation
<1>5. ASSUME NEW j \in DOMAIN s, s[j] # s[i]
      PROVE  s[j] \in Range(a) \cup Range(b)
  BY <1>0, <1>1, <1>2, <1>5
<1>6. Range(s) \ {s[i]} \subseteq Range(a) \cup Range(b)
  BY <1>5 DEF Range
<1> QED  BY <1>1, <1>2, <1>4, <1>6

\* Inserting, as a failed stop does, adds one element and loses none.
LEMMA InsertAtRange ==
  ASSUME NEW S, NEW s \in Seq(S), NEW i \in 1..Len(s)+1, NEW e \in S
  PROVE  /\ InsertAt(s, i, e) \in Seq(S)
         /\ Range(InsertAt(s, i, e)) = Range(s) \cup {e}
<1> DEFINE a == SubSeq(s, 1, i-1)
           b == SubSeq(s, i, Len(s))
           c == a \o <<e>>
<1>0. Len(s) \in Nat /\ DOMAIN s = 1..Len(s)
  BY LenProperties
<1>1. /\ a \in Seq(S) /\ Range(a) \subseteq Range(s)
      /\ \A j \in 1..i-1 : s[j] \in Range(a)
  BY <1>0, SubSeqRange
<1>2. /\ b \in Seq(S) /\ Range(b) \subseteq Range(s)
      /\ \A j \in i..Len(s) : s[j] \in Range(b)
  BY <1>0, SubSeqRange
<1>3. InsertAt(s, i, e) = c \o b
  BY DEF InsertAt
<1>4. <<e>> \in Seq(S) /\ Range(<<e>>) = {e}
  BY DEF Range
<1> HIDE DEF a, b
<1>5. c \in Seq(S) /\ Range(c) = Range(a) \cup Range(<<e>>)
  <2>1. a \in Seq(S) /\ <<e>> \in Seq(S)
    BY <1>1, <1>4
  <2> QED  BY <2>1, ConcatProperties, RangeConcatenation
<1> HIDE DEF c
<1>6. c \o b \in Seq(S) /\ Range(c \o b) = Range(c) \cup Range(b)
  BY <1>2, <1>5, ConcatProperties, RangeConcatenation
<1>7. ASSUME NEW j \in DOMAIN s
      PROVE  s[j] \in Range(a) \cup Range(b)
  BY <1>0, <1>1, <1>2
<1>8. Range(s) \subseteq Range(a) \cup Range(b)
  BY <1>7 DEF Range
<1> QED  BY <1>1, <1>2, <1>3, <1>4, <1>5, <1>6, <1>8

\* Removing the first occurrence, as the end of start does.
LEMMA RemoveFirstRange ==
  ASSUME NEW S, NEW s \in Seq(S), NEW e \in Range(s)
  PROVE  /\ RemoveFirst(s, e) \in Seq(S)
         /\ Range(s) \ {e} \subseteq Range(RemoveFirst(s, e))
         /\ Range(RemoveFirst(s, e)) \subseteq Range(s)
         /\ \E i \in 1..Len(s) : s[i] = e /\ RemoveFirst(s, e) = RemoveAt(s, i)
<1> DEFINE I == {i \in 1..Len(s) : s[i] = e}
<1>0. Len(s) \in Nat /\ DOMAIN s = 1..Len(s)
  BY LenProperties
<1>1. PICK i0 \in 1..Len(s) : s[i0] = e
  BY <1>0 DEF Range
<1>2. I \subseteq Nat /\ I # {}
  BY <1>0, <1>1
<1>3. PICK x \in I : \A y \in I : ~(<<y, x>> \in OpToRel(<, Nat))
  BY <1>2, WFMin, NatLessThanWellFounded
<1>4. \A y \in I : x <= y
  <2>1. ASSUME NEW y \in Nat, NEW z \in Nat, y < z
        PROVE  <<y, z>> \in OpToRel(<, Nat)
    BY <2>1 DEF OpToRel
  <2>2. x \in Nat
    BY <1>2
  <2>3. ASSUME NEW y \in I  PROVE x <= y
    <3>1. y \in Nat
      BY <1>2
    <3>2. ~(y < x)
      BY <1>3, <2>1, <2>2, <3>1
    <3> QED  BY <2>2, <3>1, <3>2
  <2> QED  BY <2>3
<1>5. Min(I) \in I
  BY <1>3, <1>4 DEF Min
<1>6. RemoveFirst(s, e) = RemoveAt(s, Min(I))
  BY <1>1, <1>2 DEF RemoveFirst, SelectInSeq
<1>7. Min(I) \in 1..Len(s) /\ s[Min(I)] = e
  BY <1>5
<1> QED  BY <1>6, <1>7, RemoveAtRange

\* Replacing one occurrence, as a reconfiguration does.
LEMMA ReplaceRange ==
  ASSUME NEW S, NEW s \in Seq(S), NEW i \in DOMAIN s, NEW e \in S
  PROVE  /\ [s EXCEPT ![i] = e] \in Seq(S)
         /\ (Range(s) \ {s[i]}) \cup {e} \subseteq Range([s EXCEPT ![i] = e])
         /\ Range([s EXCEPT ![i] = e]) \subseteq Range(s) \cup {e}
<1> DEFINE t == [s EXCEPT ![i] = e]
<1>1. DOMAIN s = 1..Len(s) /\ t \in Seq(S) /\ DOMAIN t = DOMAIN s
  BY LenProperties, ExceptSeq
<1>2. \A j \in DOMAIN s : t[j] = IF j = i THEN e ELSE s[j]
  BY <1>1
<1> HIDE DEF t
<1>3. /\ (Range(s) \ {s[i]}) \cup {e} \subseteq Range(t)
      /\ Range(t) \subseteq Range(s) \cup {e}
  BY <1>1, <1>2 DEF Range
<1> QED  BY <1>1, <1>3 DEF t

\* PutBack is an insertion, at the end when the list has become shorter.
LEMMA PutBackRange ==
  ASSUME NEW S, running \in Seq(S), NEW i \in Nat \ {0}, NEW m \in S
  PROVE  /\ PutBack(i, m) \in Seq(S)
         /\ Range(PutBack(i, m)) = Range(running) \cup {m}
<1> DEFINE j == IF i <= Len(running) THEN i ELSE Len(running) + 1
<1>1. j \in 1..Len(running)+1
  BY LenProperties
<1>2. PutBack(i, m) = InsertAt(running, j, m)
  BY DEF PutBack
<1> QED  BY <1>1, <1>2, InsertAtRange

(***************************************************************************)
(* The stack: which modules are being stopped after each way of changing   *)
(* it.                                                                     *)
(***************************************************************************)

\* A frame pushed adds to Stopping what it stops itself.
LEMMA StoppingOfAppend ==
  ASSUME NEW st \in Seq(Frame), NEW f \in Frame
  PROVE  /\ StoppingIn(st) \subseteq StoppingIn(Append(st, f))
         /\ f.op # "stop" => StoppingIn(Append(st, f)) \subseteq StoppingIn(st)
<1>1. /\ DOMAIN st = 1..Len(st) /\ Len(st) \in Nat
      /\ DOMAIN Append(st, f) = 1..Len(st)+1
  BY LenProperties, AppendProperties
<1>2. \A k \in DOMAIN st : k \in DOMAIN Append(st, f) /\ Append(st, f)[k] = st[k]
  BY <1>1, AppendProperties
<1>3. Append(st, f)[Len(st)+1] = f
  BY AppendProperties
<1>4. ASSUME NEW k \in DOMAIN Append(st, f), k \notin DOMAIN st
      PROVE  Append(st, f)[k] = f
  BY <1>1, <1>3, <1>4
<1> QED  BY <1>2, <1>4 DEF StoppingIn

\* The top frame, and the stack without it.
LEMMA StackTop ==
  ASSUME stack \in Seq(Frame), stack # <<>>
  PROVE  /\ Len(stack) \in Nat \ {0}
         /\ Top \in Frame
         /\ Below \in Seq(Frame)
         /\ \A m : m \in Stopping
                 => m \in StoppingIn(Below) \/ (Top.op = "stop" /\ m = Top.mod)
         /\ StoppingIn(Below) \subseteq Stopping
         /\ Top.op = "stop" => Top.mod \in Stopping
<1>1. Len(stack) \in Nat \ {0} /\ DOMAIN stack = 1..Len(stack)
  BY EmptySeq, LenProperties
<1>2. Top \in Frame
  BY <1>1, ElementOfSeq DEF Top
<1>3. /\ Below \in Seq(Frame)
      /\ Len(Below) = Len(stack) - 1
      /\ \A k \in 1..Len(stack)-1 : Below[k] = stack[k]
  <2>1. \A k \in 1..Len(stack)-1 : stack[k] \in Frame
    BY <1>1, ElementOfSeq
  <2> QED  BY <1>1, <2>1, SubSeqProperties DEF Below
<1>4. ASSUME NEW k \in DOMAIN stack, stack[k].op = "stop", k # Len(stack)
      PROVE  stack[k].mod \in StoppingIn(Below)
  <2>1. k \in DOMAIN Below /\ Below[k] = stack[k]
    BY <1>1, <1>3, <1>4, LenProperties
  <2> QED  BY <1>4, <2>1 DEF StoppingIn
<1>5. ASSUME NEW m \in Stopping
      PROVE  m \in StoppingIn(Below) \/ (Top.op = "stop" /\ m = Top.mod)
  BY <1>1, <1>4, <1>5 DEF Stopping, StoppingIn, Top
<1>6. ASSUME NEW k \in DOMAIN Below, Below[k].op = "stop"
      PROVE  Below[k].mod \in Stopping
  <2>1. k \in DOMAIN stack /\ Below[k] = stack[k]
    BY <1>1, <1>3, LenProperties
  <2> QED  BY <1>6, <2>1 DEF Stopping, StoppingIn
<1>7. StoppingIn(Below) \subseteq Stopping
  BY <1>6 DEF StoppingIn
<1>8. Top.op = "stop" => Top.mod \in Stopping
  BY <1>1 DEF Top, Stopping, StoppingIn
<1> QED  BY <1>1, <1>2, <1>3, <1>5, <1>7, <1>8

\* Changing the top frame keeps what the others stop.
LEMMA StoppingOfWithTop ==
  ASSUME stack \in Seq(Frame), stack # <<>>, NEW f \in Frame
  PROVE  /\ WithTop(f) \in Seq(Frame)
         /\ WithTop(f) # <<>>
         /\ f.op = "stop" => f.mod \in StoppingIn(WithTop(f))
         /\ \A m : m \in Stopping
                 => m \in StoppingIn(WithTop(f)) \/ (Top.op = "stop" /\ m = Top.mod)
         /\ \A m : m \in StoppingIn(WithTop(f))
                 => m \in Stopping \/ (f.op = "stop" /\ m = f.mod)
<1>1. Len(stack) \in Nat \ {0} /\ DOMAIN stack = 1..Len(stack)
  BY EmptySeq, LenProperties
<1>2. /\ WithTop(f) \in Seq(Frame)
      /\ DOMAIN WithTop(f) = DOMAIN stack
      /\ \A k \in DOMAIN stack :
           WithTop(f)[k] = IF k = Len(stack) THEN f ELSE stack[k]
  BY <1>1, ExceptSeq DEF WithTop
<1>3. WithTop(f) # <<>>
  BY <1>1, <1>2, EmptySeq
<1>4. f.op = "stop" => f.mod \in StoppingIn(WithTop(f))
  BY <1>1, <1>2 DEF StoppingIn
<1>5. ASSUME NEW m \in Stopping
      PROVE  m \in StoppingIn(WithTop(f)) \/ (Top.op = "stop" /\ m = Top.mod)
  BY <1>1, <1>2, <1>5 DEF Stopping, StoppingIn, Top
<1>6. ASSUME NEW m \in StoppingIn(WithTop(f))
      PROVE  m \in Stopping \/ (f.op = "stop" /\ m = f.mod)
  BY <1>2, <1>6 DEF Stopping, StoppingIn
<1> QED  BY <1>2, <1>3, <1>4, <1>5, <1>6

(***************************************************************************)
(* Type correctness.                                                       *)
(***************************************************************************)

\* The frames the actions push are frames.
LEMMA FrameTypes ==
  /\ \A op \in {"task", "attach", "undo"}, m \in ModuleSpec : Task(op, m) \in Frame
  /\ \A E \in SUBSET ModuleSpec : Loop(E) \in Frame
  /\ \A op \in {"start", "stop"}, m \in ModuleSpec, i \in Nat \ {0} :
       Top.errors \subseteq ModuleSpec => Calling(op, m, i) \in Frame
<1> Lock \in ModuleSpec
  BY DEF ModuleSpec, Nesting
<1> QED  BY DEF Frame, Loop, Task, Calling

\* update() keeps the types, whoever calls it.
LEMMA UpdateType ==
  ASSUME TypeOK, NEW frames \in Seq(Frame), Update(frames),
         running' \in Seq(ModuleSpec), selectors' \subseteq Launcher,
         sessionSpecs' \subseteq Session, locked' \in BOOLEAN,
         shuttingDown' \in BOOLEAN, idle' \in BOOLEAN
  PROVE  /\ wanted' \subseteq ModuleSpec
         /\ lockLoaded' \in BOOLEAN
         /\ stack' \in Seq(Frame)
         /\ raising' \in BOOLEAN
         /\ fresh' \in BOOLEAN
         /\ failures' \in 0..MaxFailures
         /\ faulted' \in BOOLEAN
         /\ steady' \in BOOLEAN
<1>1. Core \subseteq ModuleSpec
  BY SelectionAssumption DEF ModuleSpec, Leaf, Nesting
<1>2. Selected' \subseteq ModuleSpec
  <2>1. ConfigSelected' \subseteq ModuleSpec
    <3>1. Config \in [BOOLEAN \X BOOLEAN -> SUBSET (Plain \cup Launcher \cup {Lock})]
      BY SelectionAssumption
    <3>2. <<idle', locked'>> \in BOOLEAN \X BOOLEAN
      OBVIOUS
    <3>3. ConfigSelected' \subseteq Plain \cup Launcher \cup {Lock}
      BY <3>1, <3>2, Zenon DEF ConfigSelected
    <3> QED  BY <3>3 DEF ModuleSpec, Leaf, Nesting
  <2>2. Requested' \subseteq ModuleSpec
    BY <1>1, <2>1 DEF Requested, Launched, LockSelected, ModuleSpec, Leaf, Nesting
  <2>3. \A m \in ModuleSpec : Requires[m] \subseteq ModuleSpec
    BY SelectionAssumption DEF ModuleSpec, Leaf
  <2>4. WithDependencies(Requested)' \subseteq ModuleSpec
    BY <2>2, <2>3 DEF WithDependencies
  <2> QED  BY <2>4 DEF Selected
<1>3. Append(frames, Loop({})) \in Seq(Frame)
  BY FrameTypes, AppendProperties
<1>4. failures' \in 0..MaxFailures /\ faulted' \in BOOLEAN /\ steady' \in BOOLEAN
  <2>1. CASE UNCHANGED faults
    BY <2>1 DEF TypeOK, faults
  <2>2. CASE Fail /\ steady' = FALSE
    <3>1. failures' \in 0..MaxFailures
      BY <2>2, FailureAssumption DEF TypeOK, Fail
    <3>2. faulted' = TRUE /\ steady' = FALSE
      BY <2>2, Zenon DEF Fail
    <3> QED  BY <3>1, <3>2, Zenon
  <2>3. UNCHANGED faults \/ (Fail /\ steady' = FALSE)
    BY Zenon DEF Update
  <2> QED  BY <2>1, <2>2, <2>3, Zenon
<1>5. wanted' \subseteq ModuleSpec /\ stack' \in Seq(Frame)
  BY <1>1, <1>2, <1>3 DEF Update
<1>6. lockLoaded' \in BOOLEAN /\ raising' \in BOOLEAN /\ fresh' \in BOOLEAN
  BY Zenon DEF Update, TypeOK
<1> QED  BY <1>4, <1>5, <1>6

\* Every action keeps the types.
LEMMA TypeStep == TypeOK /\ [Next]_vars => TypeOK'
<1> SUFFICES ASSUME TypeOK, [Next]_vars
             PROVE  TypeOK'
  OBVIOUS
<1> Lock \in ModuleSpec /\ Leaf \subseteq ModuleSpec /\ Session \subseteq ModuleSpec
  BY DEF ModuleSpec, Nesting
<1>a. ASSUME stack # <<>>
      PROVE  /\ Top \in Frame
             /\ Below \in Seq(Frame)
             /\ \A f \in Frame : WithTop(f) \in Seq(Frame)
  BY <1>a, StackTop, StoppingOfWithTop DEF TypeOK
<1>b. ASSUME stack # <<>>
      PROVE  /\ \A E \in SUBSET ModuleSpec : WithTop(Loop(E)) \in Seq(Frame)
             /\ Top.errors \subseteq ModuleSpec
             /\ Top.mod \in ModuleSpec
             /\ Top.at \in Nat \ {0}
  BY <1>a, <1>b, FrameTypes DEF Frame
<1>c. /\ Len(running) \in Nat
      /\ DOMAIN running = 1..Len(running)
      /\ \A i \in DOMAIN running : running[i] \in ModuleSpec
  BY LenProperties, ElementOfSeq DEF TypeOK
<1>d. InLoop => stack # <<>>
  BY DEF InLoop
<1>e. \A m : ToStart(m) => m \in ModuleSpec /\ InLoop
  BY DEF ToStart, TypeOK
<1>f. \A i : ToStop(i) => i \in DOMAIN running /\ InLoop
  BY DEF ToStop, Unwanted
<1>1. CASE Reconfigure
  BY <1>1, ReplaceRange, SelectionAssumption
  DEF Reconfigure, Replaceable, TypeOK, selection, world, faults
<1>2. CASE ReconfigureRaises
  BY <1>2, <1>a, <1>d DEF ReconfigureRaises, TypeOK, selection, world, faults
<1>3. ASSUME NEW i \in DOMAIN running, StopLeaf(i)
      PROVE  TypeOK'
  BY <1>3, <1>c, RemoveAtRange DEF StopLeaf, OffList, TypeOK, selection, world, faults
<1>4. ASSUME NEW i \in DOMAIN running, StopLeafFails(i)
      PROVE  TypeOK'
  <2>1. stack' \in Seq(Frame) /\ raising' \in BOOLEAN
    BY <1>4, <1>b, <1>c, <1>d, <1>f DEF StopLeafFails, StopFailed
  <2>2. failures' \in 0..MaxFailures /\ faulted' \in BOOLEAN
    BY <1>4, FailureAssumption DEF StopLeafFails, Fail, TypeOK
  <2>3. inForce' \subseteq Leaf \cup Session
    BY <1>4 DEF StopLeafFails, TypeOK
  <2> QED  BY <1>4, <2>1, <2>2, <2>3 DEF StopLeafFails, TypeOK, selection, world
<1>5. ASSUME NEW i \in DOMAIN running, StopNesting(i)
      PROVE  TypeOK'
  <2> DEFINE f == Calling("stop", running[i], i)
  <2>1. f \in Frame /\ WithTop(f) \in Seq(Frame)
    <3>1. stack # <<>> /\ i \in Nat \ {0} /\ running[i] \in ModuleSpec
      BY <1>5, <1>c, <1>d, <1>f DEF StopNesting
    <3> QED  BY <1>a, <1>b, <3>1, FrameTypes
  <2>2. running' \in Seq(ModuleSpec)
    BY <1>5, <1>c, RemoveAtRange DEF StopNesting, OffList, TypeOK
  <2>3. /\ selectors' \subseteq Launcher /\ sessionSpecs' \subseteq Session
        /\ shuttingDown' \in BOOLEAN /\ idle' \in BOOLEAN
        /\ inForce' = inForce /\ flips' = flips /\ outcome' = outcome
    BY <1>5 DEF StopNesting, TypeOK
  <2>4. locked' \in BOOLEAN
    BY <1>5 DEF StopNesting
  <2>5. Update(WithTop(f))
    BY <1>5 DEF StopNesting
  <2> QED  BY <2>1, <2>2, <2>3, <2>4, <2>5, UpdateType DEF TypeOK
<1>6. ASSUME NEW i \in DOMAIN running, StopLauncherAgain(i)
      PROVE  TypeOK'
  BY <1>6, <1>b, <1>c, <1>d, <1>f
  DEF StopLauncherAgain, StopFailed, TypeOK, selection, world, faults
<1>7. ASSUME NEW m \in wanted, StartLeaf(m)
      PROVE  TypeOK'
  BY <1>7, <1>e, AppendRange DEF StartLeaf, TypeOK, selection, world, faults
<1>8. ASSUME NEW m \in wanted, StartFails(m)
      PROVE  TypeOK'
  <2>1. failures' \in 0..MaxFailures /\ faulted' \in BOOLEAN
    BY <1>8, FailureAssumption DEF StartFails, Fail, TypeOK
  <2>2. running' \in Seq(ModuleSpec) /\ stack' \in Seq(Frame)
    BY <1>8, <1>a, <1>d, <1>e, AppendRange DEF StartFails, TypeOK
  <2>3. inForce' \subseteq Leaf \cup Session
    BY <1>8 DEF StartFails, TypeOK
  <2> QED  BY <1>8, <2>1, <2>2, <2>3 DEF StartFails, TypeOK, selection, world
<1>9. ASSUME NEW m \in wanted, StartNesting(m)
      PROVE  TypeOK'
  <2> DEFINE f == Calling("start", m, 1)
  <2>1. f \in Frame /\ WithTop(f) \in Seq(Frame)
    BY <1>9, <1>a, <1>b, <1>d, <1>e, FrameTypes DEF StartNesting
  <2>2. running' \in Seq(ModuleSpec)
    BY <1>9, <1>e, AppendRange DEF StartNesting, TypeOK
  <2>3. /\ selectors' \subseteq Launcher /\ sessionSpecs' \subseteq Session
        /\ shuttingDown' \in BOOLEAN /\ idle' \in BOOLEAN
        /\ inForce' \subseteq Leaf \cup Session
        /\ flips' = flips /\ outcome' = outcome
    BY <1>9 DEF StartNesting, TypeOK
  <2>4. locked' \in BOOLEAN
    BY <1>9 DEF StartNesting
  <2>5. Update(WithTop(f))
    BY <1>9 DEF StartNesting
  <2> QED  BY <2>1, <2>2, <2>3, <2>4, <2>5, UpdateType DEF TypeOK
<1>10. CASE StartReturns
  <2>1. running' \in Seq(ModuleSpec)
    <3>1. CASE Top.mod \in wanted /\ Top.mod \in Range(running)
      <4>1. RemoveFirst(running, Top.mod) \in Seq(ModuleSpec)
        BY <3>1, RemoveFirstRange DEF TypeOK
      <4> QED  BY <1>10, <3>1, <4>1, AppendRange DEF StartReturns, MoveToEnd, TypeOK
    <3>2. CASE ~(Top.mod \in wanted /\ Top.mod \in Range(running))
      BY <1>10, <3>2 DEF StartReturns, MoveToEnd, TypeOK
    <3> QED  BY <3>1, <3>2
  <2>2. stack' \in Seq(Frame)
    BY <1>10, <1>b DEF StartReturns, InCall
  <2> QED  BY <1>10, <2>1, <2>2 DEF StartReturns, TypeOK, selection, world, faults
<1>11. CASE StartRaises
  BY <1>11, <1>a DEF StartRaises, InCall, TypeOK, selection, world, faults
<1>12. CASE StopReturns
  BY <1>12, <1>b DEF StopReturns, InCall, TypeOK, selection, world, faults
<1>13. CASE StopRaises
  <2>1. running' \in Seq(ModuleSpec)
    BY <1>13, PutBackRange, <1>b DEF StopRaises, InCall, TypeOK
  <2>2. stack' \in Seq(Frame) /\ raising' \in BOOLEAN
    BY <1>13, <1>b DEF StopRaises, StopFailed, InCall
  <2> QED  BY <1>13, <2>1, <2>2 DEF StopRaises, TypeOK, selection, world, faults
<1>14. CASE Finish
  BY <1>14, <1>a, <1>d DEF Finish, TypeOK, selection, world, faults
<1>15. CASE AttachFails \/ Event \/ LockCommand \/ Unlock \/ Shutdown
            \/ \E s \in Session : Attach(s) \/ Detach(s)
  <2>1. PICK frames \in Seq(Frame) : Update(frames)
    <3>1. CASE AttachFails
      BY <1>a, <1>b, <3>1, FrameTypes DEF AttachFails, InCall
    <3>2. CASE ~AttachFails
      <4>1. PICK op \in {"task", "attach"}, m \in ModuleSpec :
              Update(<<Task(op, m)>>)
        BY <1>15, <3>2 DEF Event, LockCommand, Unlock, Shutdown, Attach, Detach
      <4>2. Task(op, m) \in Frame
        BY FrameTypes
      <4>3. <<Task(op, m)>> \in Seq(Frame)
        <5> HIDE DEF Task
        <5> QED  BY <4>2
      <4> QED  BY <4>1, <4>3
    <3> QED  BY <3>1, <3>2
  <2>2. /\ running' = running /\ inForce' = inForce /\ selectors' = selectors
        /\ idle' = idle /\ flips' = flips /\ outcome' = outcome
    BY <1>15 DEF AttachFails, Event, LockCommand, Unlock, Shutdown, Attach, Detach,
                 selection
  <2>3. sessionSpecs' \subseteq Session
    BY <1>15 DEF AttachFails, Event, LockCommand, Unlock, Shutdown, Attach, Detach,
                 selection, TypeOK
  <2>4. locked' \in BOOLEAN /\ shuttingDown' \in BOOLEAN
    BY <1>15 DEF AttachFails, Event, LockCommand, Unlock, Shutdown, Attach, Detach,
                 selection, TypeOK
  <2> QED  BY <2>1, <2>2, <2>3, <2>4, UpdateType DEF TypeOK
<1>16. CASE TaskEnds
  <2>1. flips' \in 0..MaxFlips
    BY <1>16, FailureAssumption DEF TaskEnds
  <2>2. stack' \in Seq(Frame) /\ raising' \in BOOLEAN /\ faulted' \in BOOLEAN
    <3>1. stack' = <<>> /\ raising' = FALSE /\ faulted' = FALSE
      BY <1>16, Zenon DEF TaskEnds
    <3>2. <<>> \in Seq(Frame)
      BY EmptySeq
    <3> QED  BY <3>1, <3>2, Zenon
  <2>3. outcome' \in {"ok", "fault", "error"}
    BY <1>16, Zenon DEF TaskEnds
  <2> QED  BY <1>16, <2>1, <2>2, <2>3 DEF TaskEnds, TypeOK, selection
<1>17. CASE Flip
  <2>1. flips' \in 0..MaxFlips
    BY <1>17, FailureAssumption DEF Flip, TypeOK
  <2>2. idle' \in BOOLEAN /\ fresh' \in BOOLEAN
    BY <1>17 DEF Flip
  <2> QED  BY <1>17, <2>1, <2>2 DEF Flip, TypeOK, selection, faults
<1>18. CASE UNCHANGED vars
  BY <1>18 DEF vars, TypeOK, selection, world, faults
<1> QED
  BY <1>1, <1>2, <1>3, <1>4, <1>5, <1>6, <1>7, <1>8, <1>9, <1>10, <1>11, <1>12,
     <1>13, <1>14, <1>15, <1>16, <1>17, <1>18 DEF Next, MainThread, Environment

\* Every state has the types the declarations state, whatever fails.
THEOREM TypeCorrect == Spec => []TypeOK
<1>1. Init => TypeOK
  <2>1. Init => failures \in 0..MaxFailures /\ flips \in 0..MaxFlips
    BY FailureAssumption DEF Init
  <2>2. Init => running \in Seq(ModuleSpec) /\ stack \in Seq(Frame)
    BY DEF Init
  <2> QED  BY <2>1, <2>2 DEF Init, TypeOK
<1> QED  BY <1>1, TypeStep, PTL DEF Spec

(***************************************************************************)
(* running_modules over-approximates the effects in force.  The invariant  *)
(* is inductive with TypeOK: each action that drops a module from the list *)
(* also drops its effects, or pushes a frame that is stopping it.          *)
(***************************************************************************)

\* update() itself changes no effect, and keeps what is being stopped.
LEMMA UpdateStopping ==
  ASSUME NEW frames \in Seq(Frame), Update(frames)
  PROVE  StoppingIn(frames) = Stopping'
<1>1. Loop({}) \in Frame /\ Loop({}).op # "stop"
  BY FrameTypes DEF Loop
<1>2. stack' = frames \/ stack' = Append(frames, Loop({}))
  BY DEF Update
<1> QED  BY <1>1, <1>2, StoppingOfAppend DEF Stopping

\* Every action keeps the effects tracked.
LEMMA TrackedStep ==
  TypeOK /\ EffectsAreTracked /\ [Next]_vars => EffectsAreTracked'
<1> SUFFICES ASSUME TypeOK, EffectsAreTracked, [Next]_vars
             PROVE  EffectsAreTracked'
  OBVIOUS
<1> USE DEF EffectsAreTracked
<1>k. /\ Leaf \cap Session = {} /\ Leaf \cap Launcher = {}
      /\ Session \cap Launcher = {} /\ Lock \notin Leaf \cup Session \cup Launcher
      /\ Lock \in ModuleSpec /\ Leaf \cup Session \cup Launcher \subseteq ModuleSpec
  BY KindsAssumption DEF Nesting, ModuleSpec
<1>r. /\ DOMAIN running = 1..Len(running)
      /\ \A i \in DOMAIN running : running[i] \in ModuleSpec /\ i \in Nat \ {0}
      /\ \A i \in DOMAIN running :
           /\ RemoveAt(running, i) \in Seq(ModuleSpec)
           /\ Range(running) \ {running[i]} \subseteq Range(RemoveAt(running, i))
      /\ \A m \in ModuleSpec : Range(Append(running, m)) = Range(running) \cup {m}
  BY LenProperties, ElementOfSeq, RemoveAtRange, AppendRange DEF TypeOK
<1>t. ASSUME stack # <<>>
      PROVE  /\ Top.errors \subseteq ModuleSpec /\ Top.mod \in ModuleSpec
             /\ Top.at \in Nat \ {0}
             /\ Below \in Seq(Frame)
             /\ Top.op # "stop" => Stopping \subseteq StoppingIn(Below)
             /\ \A f \in Frame :
                  /\ WithTop(f) \in Seq(Frame)
                  /\ f.op = "stop" => f.mod \in StoppingIn(WithTop(f))
                  /\ Top.op # "stop" => Stopping \subseteq StoppingIn(WithTop(f))
                  /\ Stopping \ {Top.mod} \subseteq StoppingIn(WithTop(f))
  BY <1>t, StackTop, StoppingOfWithTop DEF TypeOK, Frame
<1>l. InLoop => stack # <<>> /\ Top.op # "stop"
  BY DEF InLoop
<1>s. ASSUME NEW i \in DOMAIN running, ToStop(i)
      PROVE  InLoop
  BY <1>s DEF ToStop
<1>m. \A m : ToStart(m) => m \in ModuleSpec /\ InLoop
  BY DEF ToStart, TypeOK
<1>1. CASE Reconfigure
  <2>1. PICK p \in Replaceable(Reconfigurable), i \in DOMAIN running :
          /\ running[i] = p[1]
          /\ running' = [running EXCEPT ![i] = p[2]]
          /\ inForce' = (inForce \ {p[1]}) \cup {p[2]}
    BY <1>1 DEF Reconfigure
  <2>2. p[1] \in Leaf /\ p[2] \in Leaf
    BY SelectionAssumption DEF Replaceable
  <2>3. (Range(running) \ {p[1]}) \cup {p[2]} \subseteq Range(running')
    <3>1. running \in Seq(ModuleSpec) /\ p[2] \in ModuleSpec
      BY <1>k, <2>2 DEF TypeOK
    <3>2. (Range(running) \ {running[i]}) \cup {p[2]}
            \subseteq Range([running EXCEPT ![i] = p[2]])
      BY <3>1, ReplaceRange
    <3> QED  BY <2>1, <3>2
  <2>4. selectors' = selectors /\ Stopping' = Stopping /\ selectors \subseteq Launcher
    BY <1>1 DEF Reconfigure, selection, Stopping, TypeOK
  <2> QED  BY <1>k, <2>1, <2>2, <2>3, <2>4
<1>2. CASE ReconfigureRaises \/ Finish
  BY <1>2, <1>l, <1>t DEF ReconfigureRaises, Finish, selection, Stopping
<1>3. ASSUME NEW i \in DOMAIN running, StopLeaf(i)
      PROVE  EffectsAreTracked'
  BY <1>3, <1>k, <1>r DEF StopLeaf, OffList, selection, Stopping, TypeOK
<1>4. ASSUME NEW i \in DOMAIN running, StopLeafFails(i) \/ StopLauncherAgain(i)
      PROVE  EffectsAreTracked'
  <2>1. Stopping \subseteq Stopping'
    BY <1>4, <1>l, <1>r, <1>s, <1>t, FrameTypes
    DEF StopLeafFails, StopLauncherAgain, StopFailed, Stopping
  <2>2. running' = running /\ selectors' = selectors /\ inForce' \subseteq inForce
    BY <1>4 DEF StopLeafFails, StopLauncherAgain, selection
  <2> QED  BY <2>1, <2>2
<1>5. ASSUME NEW i \in DOMAIN running, StopNesting(i)
      PROVE  EffectsAreTracked'
  <2> DEFINE f == Calling("stop", running[i], i)
  <2>1. stack # <<>> /\ Top.op # "stop"
    BY <1>5, <1>l, <1>s DEF StopNesting
  <2>2. f \in Frame /\ f.op = "stop" /\ f.mod = running[i]
    BY <1>r, <1>t, <2>1, FrameTypes DEF Calling
  <2>3. Stopping \cup {running[i]} \subseteq StoppingIn(WithTop(f))
    BY <1>t, <2>1, <2>2
  <2>4. StoppingIn(WithTop(f)) \subseteq Stopping'
    BY <1>5, <1>t, <2>1, <2>2, UpdateStopping DEF StopNesting
  <2>5. /\ running' = RemoveAt(running, i) /\ running[i] \in Nesting
        /\ selectors' = selectors \ {running[i]} /\ inForce' = inForce
    BY <1>5 DEF StopNesting, OffList
  <2>6. running[i] \notin Leaf
    BY <2>5, KindsAssumption
  <2> QED  BY <1>r, <2>3, <2>4, <2>5, <2>6
<1>6. ASSUME NEW m \in wanted, StartLeaf(m)
      PROVE  EffectsAreTracked'
  BY <1>6, <1>m, <1>r DEF StartLeaf, selection, Stopping
<1>7. ASSUME NEW m \in wanted, StartFails(m)
      PROVE  EffectsAreTracked'
  <2>1. Stopping \subseteq Stopping'
    BY <1>7, <1>l, <1>m, <1>t DEF StartFails, Stopping
  <2>2. /\ Range(running') = Range(running) \cup {m} /\ selectors' = selectors
        /\ inForce' \subseteq inForce \cup {m}
    BY <1>7, <1>m, <1>r DEF StartFails, selection
  <2> QED  BY <2>1, <2>2
<1>8. ASSUME NEW m \in wanted, StartNesting(m)
      PROVE  EffectsAreTracked'
  <2> DEFINE f == Calling("start", m, 1)
  <2>1. stack # <<>> /\ Top.op # "stop" /\ m \in ModuleSpec
    BY <1>8, <1>l, <1>m DEF StartNesting
  <2>2. f \in Frame
    BY <1>t, <2>1, FrameTypes
  <2>3. Stopping \subseteq StoppingIn(WithTop(f)) /\ WithTop(f) \in Seq(Frame)
    BY <1>t, <2>1, <2>2
  <2>4. StoppingIn(WithTop(f)) \subseteq Stopping'
    BY <1>8, <2>3, UpdateStopping DEF StartNesting
  <2>5. /\ Range(running') = Range(running) \cup {m}
        /\ selectors' \subseteq selectors \cup {m} /\ inForce' \subseteq inForce \cup {m}
    BY <1>8, <1>r, <2>1 DEF StartNesting
  <2> QED  BY <2>3, <2>4, <2>5
<1>9. CASE StartReturns
  <2>1. Stopping \subseteq Stopping'
    BY <1>9, <1>t, FrameTypes DEF StartReturns, InCall, Stopping
  <2>2. Range(running) \subseteq Range(running')
    <3>1. CASE Top.mod \in wanted /\ Top.mod \in Range(running)
      <4>1. /\ RemoveFirst(running, Top.mod) \in Seq(ModuleSpec)
            /\ Range(running) \ {Top.mod}
                 \subseteq Range(RemoveFirst(running, Top.mod))
        BY <3>1, RemoveFirstRange DEF TypeOK
      <4> QED  BY <1>9, <1>t, <3>1, <4>1, AppendRange
        DEF StartReturns, MoveToEnd, InCall
    <3>2. CASE ~(Top.mod \in wanted /\ Top.mod \in Range(running))
      BY <1>9, <3>2 DEF StartReturns, MoveToEnd
    <3> QED  BY <3>1, <3>2
  <2>3. selectors' = selectors /\ inForce' = inForce
    BY <1>9 DEF StartReturns, selection
  <2> QED  BY <2>1, <2>2, <2>3
<1>10. CASE StartRaises
  BY <1>10, <1>t DEF StartRaises, InCall, selection, Stopping
<1>11. CASE StopReturns
  <2>1. Stopping \ {Top.mod} \subseteq Stopping'
    BY <1>11, <1>t, FrameTypes DEF StopReturns, InCall, Stopping
  <2>2. /\ running' = running /\ selectors' = selectors
        /\ inForce' = inForce \ ({Top.mod} \cap Session)
    BY <1>11 DEF StopReturns, selection
  <2> QED  BY <2>1, <2>2
<1>12. CASE StopRaises
  <2>1. Stopping \ {Top.mod} \subseteq Stopping'
    BY <1>12, <1>t, FrameTypes DEF StopRaises, StopFailed, InCall, Stopping
  <2>2. Range(running) \cup {Top.mod} \subseteq Range(running')
    <3>1. /\ running \in Seq(ModuleSpec) /\ Top.mod \in ModuleSpec
          /\ Top.at \in Nat \ {0}
      BY <1>12, <1>t DEF StopRaises, InCall, TypeOK
    <3>2. running' = PutBack(Top.at, Top.mod)
      BY <1>12 DEF StopRaises
    <3>3. Range(PutBack(Top.at, Top.mod)) = Range(running) \cup {Top.mod}
      BY <3>1, PutBackRange
    <3> QED  BY <3>2, <3>3
  <2>3. selectors' = selectors /\ inForce' = inForce
    BY <1>12 DEF StopRaises, selection
  <2> QED  BY <2>1, <2>2, <2>3
<1>13. CASE AttachFails
  <2>1. Task("undo", Top.mod) \in Frame
    BY <1>13, <1>t, FrameTypes DEF AttachFails, InCall
  <2>2. Stopping \subseteq Stopping'
    BY <1>13, <1>t, <2>1, UpdateStopping DEF AttachFails, InCall
  <2>3. running' = running /\ selectors' = selectors /\ inForce' = inForce
    BY <1>13 DEF AttachFails
  <2> QED  BY <2>2, <2>3
<1>14. CASE Event \/ LockCommand \/ Unlock \/ Shutdown
            \/ \E s \in Session : Attach(s) \/ Detach(s)
  <2>1. Stopping = {}
    <3>1. stack = <<>>
      BY <1>14 DEF Event, LockCommand, Unlock, Shutdown, Attach, Detach, BeginTask
    <3> QED  BY <3>1 DEF Stopping, StoppingIn
  <2>2. running' = running /\ selectors' = selectors /\ inForce' = inForce
    BY <1>14 DEF Event, LockCommand, Unlock, Shutdown, Attach, Detach, selection
  <2> QED  BY <2>1, <2>2
<1>15. CASE TaskEnds
  <2>1. Stopping = {}
    <3>1. Len(stack) = 1 /\ Top.op # "stop"
      BY <1>15 DEF TaskEnds
    <3>2. DOMAIN stack = 1..1
      BY <3>1, LenProperties DEF TypeOK
    <3> QED  BY <3>1, <3>2 DEF Stopping, StoppingIn, Top
  <2>2. running' = running /\ selectors' = selectors /\ inForce' = inForce
    BY <1>15 DEF TaskEnds, selection
  <2> QED  BY <2>1, <2>2
<1>16. CASE Flip \/ UNCHANGED vars
  BY <1>16 DEF Flip, vars, selection, Stopping
<1> QED
  BY <1>1, <1>2, <1>3, <1>4, <1>5, <1>6, <1>7, <1>8, <1>9, <1>10, <1>11, <1>12,
     <1>13, <1>14, <1>15, <1>16 DEF Next, MainThread, Environment

\* Whatever starts and stops fail, and however the updates nest, a module with
\* effects in force is in running_modules, or in the middle of its stop().
THEOREM Tracked == Spec => []EffectsAreTracked
<1>1. Init => EffectsAreTracked
  BY DEF Init, EffectsAreTracked
<1> QED  BY <1>1, TypeCorrect, TrackedStep, PTL DEF Spec

(***************************************************************************)
(* What a step does to the list and to the stack.  Whichever action it is, *)
(* a step runs the selectors (Updates); or it leaves wanted_modules and    *)
(* what the selectors look at, and the loop goes on (Goes), an exception   *)
(* leaves an activation (Raises), a failed stop is recorded (Records), a   *)
(* nested update has returned (Resumes), or an activation or the task ends *)
(* (Finish, TaskEnds).                                                     *)
(***************************************************************************)
EventOps == {"task", "attach", "undo"}

\* The bottom frame is the event task.
Grounded(st) == st # <<>> => st[1].op \in EventOps

\* A frame in which nothing has failed to stop, and no attach() was undone.
Unspoilt(f) == f.op # "undo" /\ (f.op \in {"task", "attach"} \/ f.errors = {})
Spotless(st) == \A k \in DOMAIN st : Unspoilt(st[k])
Clean == ~raising /\ Spotless(stack)

Unselected ==
  /\ UNCHANGED <<wanted, lockLoaded, selectors, sessionSpecs, locked,
                 shuttingDown>>
  /\ UNCHANGED <<idle, fresh>> \/ fresh' = FALSE
  /\ Range(running) \cap Session \subseteq Range(running')

SameSessions == Range(running') \cap Session = Range(running) \cap Session

Goes ==
  /\ UNCHANGED <<stack, raising, outcome>>
  /\ running' = running \/ InLoop
  /\ SameSessions

Raises ==
  /\ stack # <<>> /\ Top.op \in {"loop", "start"}
  /\ stack' = Below /\ raising' = TRUE /\ outcome' = outcome

Records ==
  /\ stack # <<>> /\ Top.op \in {"loop", "stop"}
  /\ \E m \in ModuleSpec : stack' = WithTop(Loop(Top.errors \cup {m}))
  /\ raising' = FALSE /\ outcome' = outcome

Resumes ==
  /\ stack # <<>> /\ Top.op \in {"start", "stop"} /\ ~raising
  /\ stack' = WithTop(Loop(Top.errors))
  /\ UNCHANGED <<raising, outcome>>
  /\ SameSessions

Updates ==
  \E frames \in Seq(Frame) :
    frames # <<>> /\ Grounded(frames) /\ Update(frames) /\ outcome' = outcome

\* Pushing, popping and replacing a frame that is not the task keeps the task.
LEMMA GroundedStack ==
  ASSUME stack \in Seq(Frame), stack # <<>>, Grounded(stack)
  PROVE  /\ \A f \in Frame :
              f.op \in EventOps \/ Top.op \notin EventOps
                => Grounded(WithTop(f)) /\ WithTop(f) # <<>>
         /\ Top.op \notin EventOps => Grounded(Below) /\ Below # <<>>
<1>1. Len(stack) \in Nat \ {0} /\ DOMAIN stack = 1..Len(stack)
  BY EmptySeq, LenProperties
<1>2. Top.op \notin EventOps => Len(stack) # 1
  BY DEF Top, Grounded
<1>3. ASSUME NEW f \in Frame, f.op \in EventOps \/ Top.op \notin EventOps
      PROVE  Grounded(WithTop(f)) /\ WithTop(f) # <<>>
  <2>1. \A k \in DOMAIN stack : WithTop(f)[k] = IF k = Len(stack) THEN f ELSE stack[k]
    BY <1>1 DEF WithTop
  <2>2. WithTop(f)[1] = IF Len(stack) = 1 THEN f ELSE stack[1]
    BY <1>1, <2>1
  <2>3. WithTop(f) # <<>>
    BY <1>3, StoppingOfWithTop
  <2> QED  BY <1>2, <1>3, <2>2, <2>3 DEF Grounded
<1>4. ASSUME Top.op \notin EventOps
      PROVE  Grounded(Below) /\ Below # <<>>
  <2>1. \A k \in 1..Len(stack)-1 : stack[k] \in Frame
    BY <1>1, ElementOfSeq
  <2>2. Len(Below) = Len(stack) - 1 /\ \A k \in 1..Len(stack)-1 : Below[k] = stack[k]
    BY <1>1, <2>1, SubSeqProperties DEF Below
  <2>3. 1 \in 1..Len(stack)-1
    BY <1>1, <1>2, <1>4
  <2>4. Below # <<>>
    BY <2>2, <2>3, EmptySeq
  <2> QED  BY <2>2, <2>3, <2>4 DEF Grounded
<1> QED  BY <1>3, <1>4

\* A new activation on top of a stack keeps the task.
LEMMA GroundedPush ==
  ASSUME NEW st \in Seq(Frame), st # <<>>, Grounded(st), NEW f \in Frame
  PROVE  Grounded(Append(st, f))
<1>1. Len(st) \in Nat \ {0} /\ Append(st, f)[1] = st[1]
  BY EmptySeq, LenProperties, AppendProperties
<1> QED  BY <1>1 DEF Grounded

\* A stack is spotless if its top frame is unspoilt and the rest is spotless.
LEMMA SpotlessStack ==
  ASSUME stack \in Seq(Frame), stack # <<>>
  PROVE  /\ Unspoilt(Top) /\ Spotless(Below) => Spotless(stack)
         /\ \A f \in Frame :
              Spotless(WithTop(f)) =>
                Unspoilt(f) /\ (Unspoilt(Top) => Spotless(stack))
<1>1. Len(stack) \in Nat \ {0} /\ DOMAIN stack = 1..Len(stack)
  BY EmptySeq, LenProperties
<1>2. /\ DOMAIN Below = 1..Len(stack)-1
      /\ \A k \in 1..Len(stack)-1 : Below[k] = stack[k]
  <2>1. \A k \in 1..Len(stack)-1 : stack[k] \in Frame
    BY <1>1, ElementOfSeq
  <2> QED  BY <1>1, <2>1, SubSeqProperties, LenProperties DEF Below
<1>3. ASSUME Unspoilt(Top), \A k \in 1..Len(stack)-1 : Unspoilt(stack[k])
      PROVE  Spotless(stack)
  <2>1. ASSUME NEW k \in DOMAIN stack PROVE Unspoilt(stack[k])
    BY <1>1, <1>3, <2>1 DEF Top
  <2> QED  BY <2>1 DEF Spotless
<1>4. ASSUME Spotless(Below)
      PROVE  \A k \in 1..Len(stack)-1 : Unspoilt(stack[k])
  BY <1>2, <1>4 DEF Spotless
<1>5. ASSUME NEW f \in Frame, Spotless(WithTop(f))
      PROVE  Unspoilt(f) /\ \A k \in 1..Len(stack)-1 : Unspoilt(stack[k])
  <2>1. /\ DOMAIN WithTop(f) = DOMAIN stack
        /\ \A k \in DOMAIN stack :
             WithTop(f)[k] = IF k = Len(stack) THEN f ELSE stack[k]
    BY <1>1 DEF WithTop
  <2> QED  BY <1>1, <1>5, <2>1 DEF Spotless
<1> QED  BY <1>3, <1>4, <1>5

\* Every step is of one of these kinds.
LEMMA StepKinds ==
  ASSUME TypeOK, Grounded(stack), [Next]_vars
  PROVE  \/ Updates
         \/ /\ Unselected
            /\ Goes \/ Raises \/ Records \/ Resumes \/ Finish \/ TaskEnds
<1>k. /\ Leaf \cap Session = {} /\ Lock \in ModuleSpec
  BY KindsAssumption DEF Nesting, ModuleSpec
<1>r. /\ running \in Seq(ModuleSpec)
      /\ \A i \in DOMAIN running :
           /\ running[i] \in ModuleSpec /\ i \in 1..Len(running) /\ i \in Nat \ {0}
  BY LenProperties, ElementOfSeq DEF TypeOK
<1>t. ASSUME stack # <<>>
      PROVE  /\ Top.errors \subseteq ModuleSpec /\ Top.mod \in ModuleSpec
             /\ Top.at \in Nat \ {0}
             /\ \A f \in Frame :
                  /\ WithTop(f) \in Seq(Frame)
                  /\ f.op \in EventOps \/ Top.op \notin EventOps
                       => Grounded(WithTop(f)) /\ WithTop(f) # <<>>
  BY <1>t, StackTop, StoppingOfWithTop, GroundedStack DEF TypeOK, Frame
<1>l. InLoop => stack # <<>> /\ Top.op = "loop" /\ ~raising
  BY DEF InLoop
<1>s. ASSUME NEW i \in DOMAIN running, ToStop(i)
      PROVE  InLoop
  BY <1>s DEF ToStop
<1>m. \A m : ToStart(m) => m \in ModuleSpec /\ InLoop
  BY DEF ToStart, TypeOK
<1>1. CASE Reconfigure
  <2>1. PICK p \in Replaceable(Reconfigurable), i \in DOMAIN running :
          running[i] = p[1] /\ running' = [running EXCEPT ![i] = p[2]]
    BY <1>1 DEF Reconfigure
  <2>2. p[1] \in Leaf /\ p[2] \in Leaf /\ p[2] \in ModuleSpec
    BY SelectionAssumption DEF Replaceable, ModuleSpec
  <2>3. /\ (Range(running) \ {running[i]}) \cup {p[2]}
             \subseteq Range([running EXCEPT ![i] = p[2]])
        /\ Range([running EXCEPT ![i] = p[2]]) \subseteq Range(running) \cup {p[2]}
    <3>1. running \in Seq(ModuleSpec) /\ i \in DOMAIN running /\ p[2] \in ModuleSpec
      BY <1>r, <2>2
    <3>2. (Range(running) \ {running[i]}) \cup {p[2]}
            \subseteq Range([running EXCEPT ![i] = p[2]])
      BY <3>1, ReplaceRange
    <3>3. Range([running EXCEPT ![i] = p[2]]) \subseteq Range(running) \cup {p[2]}
      BY <3>1, ReplaceRange
    <3> QED  BY <3>2, <3>3
  <2>4. SameSessions
    BY <1>k, <2>1, <2>2, <2>3 DEF SameSessions
  <2>5. InLoop
    BY <1>1 DEF Reconfigure
  <2> QED  BY <1>1, <2>4, <2>5
    DEF Reconfigure, Goes, Unselected, SameSessions, selection, world
<1>2. CASE ReconfigureRaises
  BY <1>2, <1>l DEF ReconfigureRaises, Raises, Unselected, selection, world
<1>3. ASSUME NEW i \in DOMAIN running, StopLeaf(i)
      PROVE  Unselected /\ Goes
  <2>1. /\ Range(running) \ {running[i]} \subseteq Range(RemoveAt(running, i))
        /\ Range(RemoveAt(running, i)) \subseteq Range(running)
    BY <1>r, RemoveAtRange
  <2>2. running' = RemoveAt(running, i) /\ running[i] \in Leaf /\ InLoop
    BY <1>3, <1>s DEF StopLeaf, OffList
  <2>3. SameSessions
    BY <1>k, <2>1, <2>2 DEF SameSessions
  <2> QED  BY <1>3, <2>2, <2>3
    DEF StopLeaf, Goes, Unselected, SameSessions, selection, world
<1>4. ASSUME NEW i \in DOMAIN running, StopLeafFails(i) \/ StopLauncherAgain(i)
      PROVE  Unselected /\ Records
  <2>1. StopFailed(running[i]) /\ running' = running /\ InLoop /\ outcome' = outcome
    BY <1>4, <1>s DEF StopLeafFails, StopLauncherAgain
  <2>2. Records
    BY <1>l, <1>r, <2>1 DEF StopFailed, Records
  <2> QED  BY <1>4, <2>1, <2>2
    DEF StopLeafFails, StopLauncherAgain, Unselected, selection, world
<1>5. ASSUME NEW i \in DOMAIN running, StopNesting(i)
      PROVE  Updates
  <2> DEFINE f == Calling("stop", running[i], i)
  <2>1. stack # <<>> /\ Top.op = "loop"
    BY <1>5, <1>l, <1>s DEF StopNesting
  <2>2. f \in Frame
    BY <1>r, <1>t, <2>1, FrameTypes
  <2>3. WithTop(f) \in Seq(Frame) /\ WithTop(f) # <<>> /\ Grounded(WithTop(f))
    BY <1>t, <2>1, <2>2 DEF EventOps
  <2>4. Update(WithTop(f)) /\ outcome' = outcome
    BY <1>5 DEF StopNesting
  <2> QED  BY <2>3, <2>4 DEF Updates
<1>6. ASSUME NEW m \in wanted, StartLeaf(m)
      PROVE  Unselected /\ Goes
  <2>1. Range(running') = Range(running) \cup {m} /\ m \in Leaf /\ InLoop
    BY <1>6, <1>m, <1>r, AppendRange DEF StartLeaf
  <2>2. SameSessions
    BY <1>k, <2>1 DEF SameSessions
  <2> QED  BY <1>6, <2>1, <2>2
    DEF StartLeaf, Goes, Unselected, SameSessions, selection, world
<1>7. ASSUME NEW m \in wanted, StartFails(m)
      PROVE  Unselected /\ Raises
  <2>1. Range(running') = Range(running) \cup {m} /\ InLoop
    BY <1>7, <1>m, <1>r, AppendRange DEF StartFails
  <2> QED  BY <1>7, <1>l, <2>1 DEF StartFails, Raises, Unselected, selection, world
<1>8. ASSUME NEW m \in wanted, StartNesting(m)
      PROVE  Updates
  <2> DEFINE f == Calling("start", m, 1)
  <2>1. stack # <<>> /\ Top.op = "loop" /\ m \in ModuleSpec
    BY <1>8, <1>l, <1>m DEF StartNesting
  <2>2. f \in Frame
    BY <1>t, <2>1, FrameTypes
  <2>3. WithTop(f) \in Seq(Frame) /\ WithTop(f) # <<>> /\ Grounded(WithTop(f))
    BY <1>t, <2>1, <2>2 DEF EventOps
  <2>4. Update(WithTop(f)) /\ outcome' = outcome
    BY <1>8 DEF StartNesting
  <2> QED  BY <2>3, <2>4 DEF Updates
<1>9. CASE StartReturns
  <2>1. Range(running') = Range(running)
    <3>1. CASE Top.mod \in wanted /\ Top.mod \in Range(running)
      <4>1. /\ RemoveFirst(running, Top.mod) \in Seq(ModuleSpec)
            /\ Range(running) \ {Top.mod}
                 \subseteq Range(RemoveFirst(running, Top.mod))
            /\ Range(RemoveFirst(running, Top.mod)) \subseteq Range(running)
        BY <1>r, <3>1, RemoveFirstRange
      <4>2. Top.mod \in ModuleSpec
        BY <1>9, <1>t DEF StartReturns, InCall
      <4>3. Range(Append(RemoveFirst(running, Top.mod), Top.mod))
              = Range(RemoveFirst(running, Top.mod)) \cup {Top.mod}
        BY <4>1, <4>2, AppendRange
      <4>4. running' = Append(RemoveFirst(running, Top.mod), Top.mod)
        BY <1>9, <3>1 DEF StartReturns, MoveToEnd
      <4> QED  BY <3>1, <4>1, <4>3, <4>4
    <3>2. CASE ~(Top.mod \in wanted /\ Top.mod \in Range(running))
      BY <1>9, <3>2 DEF StartReturns, MoveToEnd
    <3> QED  BY <3>1, <3>2
  <2> QED  BY <1>9, <2>1
    DEF StartReturns, InCall, Resumes, SameSessions, Unselected, selection, world
<1>10. CASE StartRaises
  BY <1>10, Zenon DEF StartRaises, InCall, Raises, Unselected, selection, world
<1>11. CASE StopReturns
  BY <1>11 DEF StopReturns, InCall, Resumes, SameSessions, Unselected, selection,
               world
<1>12. CASE StopRaises
  <2>1. Range(PutBack(Top.at, Top.mod)) = Range(running) \cup {Top.mod}
    BY <1>12, <1>r, <1>t, PutBackRange DEF StopRaises, InCall
  <2>2. running' = PutBack(Top.at, Top.mod)
    BY <1>12 DEF StopRaises
  <2>3. Range(running) \cap Session \subseteq Range(running')
    BY <2>1, <2>2
  <2>4. Records
    BY <1>12, <1>t DEF StopRaises, StopFailed, InCall, Records
  <2> QED  BY <1>12, <2>3, <2>4 DEF StopRaises, Unselected, selection, world
<1>13. CASE Finish
  BY <1>13 DEF Finish, Unselected, selection, world
<1>14. CASE AttachFails
  <2>1. Task("undo", Top.mod) \in Frame /\ Task("undo", Top.mod).op \in EventOps
    BY <1>14, <1>t, FrameTypes DEF AttachFails, InCall, Task, EventOps
  <2>2. Update(WithTop(Task("undo", Top.mod))) /\ outcome' = outcome /\ stack # <<>>
    BY <1>14 DEF AttachFails, InCall
  <2> QED  BY <1>t, <2>1, <2>2 DEF Updates
<1>15. CASE Event \/ LockCommand \/ Unlock \/ Shutdown
            \/ \E s \in Session : Attach(s) \/ Detach(s)
  <2>1. PICK op \in {"task", "attach"}, m \in ModuleSpec :
          Update(<<Task(op, m)>>) /\ outcome' = outcome
    BY <1>15, <1>k
    DEF Event, LockCommand, Unlock, Shutdown, Attach, Detach, ModuleSpec, Nesting
  <2>2. Task(op, m) \in Frame /\ Task(op, m).op \in EventOps
    BY FrameTypes DEF Task, EventOps
  <2>3. <<Task(op, m)>> \in Seq(Frame) /\ <<Task(op, m)>>[1].op \in EventOps
    <3> HIDE DEF Task
    <3> QED  BY <2>2
  <2>4. <<Task(op, m)>> # <<>>
    OBVIOUS
  <2> QED  BY <2>1, <2>3, <2>4 DEF Updates, Grounded
<1>16. CASE TaskEnds
  BY <1>16 DEF TaskEnds, Unselected, selection
<1>17. CASE Flip
  BY <1>17 DEF Flip, Goes, Unselected, SameSessions, selection, faults
<1>18. CASE UNCHANGED vars
  BY <1>18 DEF vars, Goes, Unselected, SameSessions, selection, world
<1> QED
  BY <1>1, <1>2, <1>3, <1>4, <1>5, <1>6, <1>7, <1>8, <1>9, <1>10, <1>11, <1>12,
     <1>13, <1>14, <1>15, <1>16, <1>17, <1>18 DEF Next, MainThread, Environment

(***************************************************************************)
(* What has been selected.  While nothing has gone wrong in a task,        *)
(* wanted_modules is what the selectors would list now, unless the idle    *)
(* state has changed since.  When an update has returned, the list is what *)
(* it wanted.                                                              *)
(***************************************************************************)
Current == stack # <<>> /\ Clean /\ fresh => wanted = Selected

Returned == stack # <<>> /\ Top.op # "loop" /\ ~raising => Range(running) = wanted

\* A launcher's module is wanted only in a running session.
SessionsRun == \A c \in PerSession \cap wanted : c[2] \in Range(running)

SelectionInv ==
  Grounded(stack) /\ Current /\ Returned /\ SessionsRun /\ UpToDate

\* The configuration requests no session, and no per-session module itself.
LEMMA ConfigType ==
  ASSUME NEW i, NEW l, i \in BOOLEAN, l \in BOOLEAN
  PROVE  Config[i, l] \subseteq Plain \cup Launcher \cup {Lock}
<1>1. \A c \in BOOLEAN \X BOOLEAN :
        Config[c] \subseteq Plain \cup Launcher \cup {Lock}
  BY SelectionAssumption
<1>2. <<i, l>> \in BOOLEAN \X BOOLEAN
  OBVIOUS
<1> QED  BY <1>1, <1>2, Zenon

\* Only launchers request per-session modules, and only in running sessions.
LEMMA SelectedLaunched == TypeOK => PerSession \cap Selected \subseteq Launched
<1> SUFFICES ASSUME TypeOK PROVE PerSession \cap Selected \subseteq Launched
  OBVIOUS
<1>1. /\ PerSession \cap (Plain \cup Launcher \cup Session \cup {Lock}) = {}
      /\ Launcher \cup Session \cup {Lock} \cup Plain \cup PerSession = ModuleSpec
  BY KindsAssumption DEF ModuleSpec, Leaf, Nesting
<1>2. /\ Core \subseteq Plain \cup Launcher
      /\ ConfigSelected \subseteq Plain \cup Launcher \cup {Lock}
      /\ \A m \in ModuleSpec : Requires[m] \subseteq Plain
  <2>1. idle \in BOOLEAN /\ locked \in BOOLEAN
    BY Zenon DEF TypeOK
  <2>2. ConfigSelected \subseteq Plain \cup Launcher \cup {Lock}
    BY <2>1, ConfigType, Zenon DEF ConfigSelected
  <2>3. \A m \in ModuleSpec : Requires[m] \subseteq Plain
    BY SelectionAssumption
  <2> QED  BY <2>2, <2>3, SelectionAssumption
<1>3. LockSelected \subseteq {Lock} /\ sessionSpecs \subseteq Session
  BY DEF LockSelected, TypeOK
<1>4. Launched \subseteq PerSession
  BY DEF Launched
<1>5. Requested \subseteq ModuleSpec /\ PerSession \cap Requested \subseteq Launched
  BY <1>1, <1>2, <1>3, <1>4 DEF Requested
<1>6. PerSession \cap WithDependencies(Requested) \subseteq Launched
  BY <1>1, <1>2, <1>5 DEF WithDependencies
<1> QED  BY <1>6 DEF Selected

LEMMA SelectedLaunchedNext == (TypeOK => PerSession \cap Selected \subseteq Launched)'
BY SelectedLaunched, PTL

\* What the selectors look at: besides the sessions that run, nothing of the list.
LEMMA SelectedKept ==
  ASSUME Unselected, SameSessions, idle' = idle
  PROVE  Selected' = Selected
<1>1. \A c \in PerSession : c[2] \in Session
  BY KindsAssumption
<1>2. Launched' = Launched
  BY <1>1 DEF Launched, Unselected, SameSessions
<1>3. ConfigSelected' = ConfigSelected /\ LockSelected' = LockSelected
  BY DEF ConfigSelected, LockSelected, Unselected
<1>4. Requested' = Requested
  BY <1>2, <1>3 DEF Requested, Unselected
<1> QED  BY <1>4 DEF Selected, Unselected, WithDependencies

\* A successful update enters a new activation, with what is selected now; a
\* failed one has found the core modules only, and raises.
LEMMA UpdateEffect ==
  ASSUME NEW frames \in Seq(Frame), frames # <<>>, Grounded(frames), Update(frames)
  PROVE  /\ stack' # <<>> /\ Grounded(stack)'
         /\ \/ wanted' = Selected' /\ Top' = Loop({}) /\ fresh' = TRUE
            \/ wanted' = Core /\ raising' = TRUE
<1>1. Loop({}) \in Frame
  BY FrameTypes
<1>2. CASE stack' = frames /\ raising' = TRUE /\ wanted' = Core
  BY <1>2 DEF Grounded
<1>3. CASE /\ stack' = Append(frames, Loop({})) /\ wanted' = Selected'
           /\ fresh' = TRUE
  <2>1. Grounded(Append(frames, Loop({})))
    BY <1>1, GroundedPush
  <2>2. /\ Len(Append(frames, Loop({}))) = Len(frames) + 1
        /\ Append(frames, Loop({}))[Len(frames) + 1] = Loop({})
        /\ Append(frames, Loop({})) # <<>>
    <3>1. /\ Append(frames, Loop({})) \in Seq(Frame)
          /\ Len(Append(frames, Loop({}))) = Len(frames) + 1
          /\ Append(frames, Loop({}))[Len(frames) + 1] = Loop({})
          /\ Len(frames) \in Nat
      BY <1>1, AppendProperties, LenProperties
    <3>2. Len(<<>>) = 0
      OBVIOUS
    <3> QED  BY <3>1, <3>2
  <2> QED  BY <1>3, <2>1, <2>2 DEF Grounded, Top
<1> QED  BY <1>2, <1>3 DEF Update

\* The frame that replaces the top one is on top.
LEMMA TopReplaced ==
  ASSUME stack \in Seq(Frame), stack # <<>>, NEW f \in Frame
  PROVE  /\ WithTop(f) \in Seq(Frame) /\ Len(WithTop(f)) = Len(stack)
         /\ WithTop(f)[Len(stack)] = f
<1>1. Len(stack) \in Nat \ {0} /\ DOMAIN stack = 1..Len(stack)
  BY EmptySeq, LenProperties
<1>2. /\ WithTop(f) \in Seq(Frame)
      /\ DOMAIN WithTop(f) = DOMAIN stack
      /\ WithTop(f)[Len(stack)] = f
  BY <1>1, ExceptSeq DEF WithTop
<1> QED  BY <1>1, <1>2, LenProperties

\* A session's own update comes before its modules lose the session: no step
\* takes a session off the list and leaves its modules wanted.
LEMMA SessionsRunStep ==
  ASSUME TypeOK, TypeOK', SessionsRun, Updates \/ Unselected
  PROVE  SessionsRun'
<1>1. CASE Updates
  <2>1. PICK frames \in Seq(Frame) :
          frames # <<>> /\ Grounded(frames) /\ Update(frames)
    BY <1>1 DEF Updates
  <2>2. CASE wanted' = Selected'
    <3>1. PerSession \cap wanted' \subseteq Launched'
      BY <2>2, SelectedLaunchedNext
    <3> QED  BY <3>1 DEF SessionsRun, Launched
  <2>3. CASE wanted' = Core
    <3>1. PerSession \cap Core = {}
      BY KindsAssumption, SelectionAssumption DEF Leaf, Nesting
    <3> QED  BY <2>3, <3>1 DEF SessionsRun
  <2> QED  BY <2>1, <2>2, <2>3, UpdateEffect
<1>2. CASE Unselected
  <2>1. \A c \in PerSession : c[2] \in Session
    BY KindsAssumption
  <2> QED  BY <1>2, <2>1 DEF SessionsRun, Unselected
<1> QED  BY <1>1, <1>2

\* An activation ends when the list is what is wanted, but for failed stops.
LEMMA FinishedList ==
  ASSUME Finish, Top.errors = {}
  PROVE  Range(running) = wanted /\ running' = running /\ wanted' = wanted
<1>1. \A i \in DOMAIN running : running[i] \in wanted
  BY DEF Finish, Unwanted
<1>2. Range(running) \subseteq wanted
  BY <1>1 DEF Range
<1> QED  BY <1>2 DEF Finish

\* What has been selected stays true, or is selected anew.
LEMMA SelectionStep ==
  ASSUME TypeOK, TypeOK', SelectionInv, [Next]_vars
  PROVE  SelectionInv'
<1> USE DEF SelectionInv
<1>a. stack \in Seq(Frame)
  BY DEF TypeOK
<1>b. ASSUME stack # <<>>
      PROVE  /\ Top \in Frame /\ Top.errors \subseteq ModuleSpec
             /\ \A E \in SUBSET ModuleSpec :
                  /\ Loop(E) \in Frame /\ Loop(E).op = "loop" /\ Loop(E).errors = E
                  /\ Top.op \notin EventOps => Grounded(WithTop(Loop(E)))
                  /\ WithTop(Loop(E)) # <<>>
                  /\ Spotless(WithTop(Loop(E))) =>
                       E = {} /\ (Unspoilt(Top) => Spotless(stack))
  <2>1. Top \in Frame /\ Top.errors \subseteq ModuleSpec
    BY <1>a, <1>b, StackTop DEF Frame
  <2>2. ASSUME NEW E \in SUBSET ModuleSpec
        PROVE  /\ Loop(E) \in Frame /\ Loop(E).op = "loop" /\ Loop(E).errors = E
               /\ Top.op \notin EventOps => Grounded(WithTop(Loop(E)))
               /\ WithTop(Loop(E)) # <<>>
               /\ Spotless(WithTop(Loop(E))) =>
                    E = {} /\ (Unspoilt(Top) => Spotless(stack))
    <3>1. Loop(E) \in Frame /\ Loop(E).op = "loop" /\ Loop(E).errors = E
      BY FrameTypes DEF Loop
    <3>2. Top.op \notin EventOps => Grounded(WithTop(Loop(E)))
      BY <1>a, <1>b, <3>1, GroundedStack
    <3>3. WithTop(Loop(E)) # <<>>
      BY <1>a, <1>b, <3>1, StoppingOfWithTop
    <3>4. Spotless(WithTop(Loop(E))) =>
            Unspoilt(Loop(E)) /\ (Unspoilt(Top) => Spotless(stack))
      BY <1>a, <1>b, <3>1, SpotlessStack
    <3> QED  BY <3>1, <3>2, <3>3, <3>4 DEF Unspoilt
  <2> QED  BY <2>1, <2>2
<1>1. ASSUME Updates PROVE SelectionInv'
  <2>1. PICK frames \in Seq(Frame) :
          frames # <<>> /\ Grounded(frames) /\ Update(frames)
    BY <1>1 DEF Updates
  <2>2. /\ stack' # <<>> /\ Grounded(stack)'
        /\ \/ wanted' = Selected' /\ Top' = Loop({}) /\ fresh' = TRUE
           \/ wanted' = Core /\ raising' = TRUE
    BY <2>1, UpdateEffect
  <2>3. Top' = Loop({}) => Top'.op = "loop"
    BY DEF Loop
  <2>4. Current' /\ Returned'
    BY <2>2, <2>3 DEF Current, Returned, Clean
  <2>5. UpToDate'
    BY <2>2 DEF UpToDate, Settled
  <2> QED  BY <1>1, <2>2, <2>4, <2>5, SessionsRunStep
<1>2. ASSUME Unselected, Goes PROVE SelectionInv'
  <2>1. stack' = stack /\ raising' = raising /\ outcome' = outcome /\ SameSessions
    BY <1>2 DEF Goes
  <2>2. ASSUME fresh' = TRUE PROVE Selected' = Selected /\ fresh = TRUE
    BY <1>2, <2>1, <2>2, SelectedKept DEF Unselected
  <2>3. Clean' = Clean
    BY <2>1 DEF Clean
  <2>4. Current'
    BY <1>2, <2>1, <2>2, <2>3 DEF Current, Unselected, TypeOK
  <2>5. Returned' /\ Grounded(stack)'
    BY <1>2, <2>1 DEF Returned, Goes, InLoop, Unselected, Top, Grounded
  <2>6. UpToDate'
    <3>1. stack = <<>> => running' = running
      BY <1>2 DEF Goes, InLoop
    <3> QED  BY <2>1, <2>2, <3>1 DEF UpToDate, Settled, TypeOK
  <2> QED  BY <1>2, <2>4, <2>5, <2>6, SessionsRunStep
<1>3. ASSUME Unselected, Raises PROVE SelectionInv'
  <2>1. stack # <<>> /\ Top.op \notin EventOps /\ stack' = Below /\ raising' = TRUE
    BY <1>3 DEF Raises, EventOps
  <2>2. Grounded(stack)' /\ stack' # <<>>
    BY <1>a, <2>1, GroundedStack DEF Grounded
  <2> QED  BY <1>3, <2>1, <2>2, SessionsRunStep
    DEF Current, Returned, Clean, UpToDate, Settled
<1>4. ASSUME Unselected, Records PROVE SelectionInv'
  <2>1. PICK m \in ModuleSpec : stack' = WithTop(Loop(Top.errors \cup {m}))
    BY <1>4 DEF Records
  <2>2. /\ stack # <<>> /\ Top.op \notin EventOps
        /\ Top.errors \cup {m} \subseteq ModuleSpec /\ Top.errors \cup {m} # {}
    BY <1>4, <1>b DEF Records, EventOps
  <2>3. Grounded(stack)' /\ stack' # <<>> /\ ~Spotless(stack')
    BY <1>b, <2>1, <2>2 DEF Grounded
  <2>4. Top' = Loop(Top.errors \cup {m}) /\ Top'.op = "loop"
    <3>1. /\ stack' \in Seq(Frame) /\ Len(stack') = Len(stack)
          /\ stack'[Len(stack)] = Loop(Top.errors \cup {m})
      BY <1>a, <1>b, <2>1, <2>2, TopReplaced
    <3> QED  BY <3>1 DEF Top, Loop
  <2> QED  BY <1>4, <2>3, <2>4, SessionsRunStep
    DEF Current, Returned, Clean, UpToDate, Settled
<1>5. ASSUME Unselected, Resumes PROVE SelectionInv'
  <2>1. /\ stack # <<>> /\ Top.op \notin EventOps /\ Top.op # "undo" /\ ~raising
        /\ raising' = raising /\ stack' = WithTop(Loop(Top.errors)) /\ SameSessions
    BY <1>5 DEF Resumes, EventOps
  <2>2. Grounded(stack)' /\ stack' # <<>>
    BY <1>b, <2>1 DEF Grounded
  <2>3. Clean' => Clean
    BY <1>b, <2>1 DEF Clean, Unspoilt
  <2>4. Top'.op = "loop"
    <3>1. /\ stack' \in Seq(Frame) /\ Len(stack') = Len(stack)
          /\ stack'[Len(stack)] = Loop(Top.errors)
      BY <1>a, <1>b, <2>1, TopReplaced
    <3> QED  BY <3>1 DEF Top, Loop
  <2>5. ASSUME fresh' = TRUE PROVE Selected' = Selected /\ fresh = TRUE
    BY <1>5, <2>1, <2>5, SelectedKept DEF Unselected
  <2>6. Current'
    BY <1>5, <2>1, <2>3, <2>5 DEF Current, Unselected, TypeOK
  <2> QED  BY <1>5, <2>2, <2>4, <2>6, SessionsRunStep
    DEF Returned, UpToDate, Settled
<1>6. ASSUME Unselected, Finish PROVE SelectionInv'
  <2>1. /\ stack # <<>> /\ Top.op = "loop" /\ ~raising /\ stack' = Below
        /\ raising' = (Top.errors # {}) /\ running' = running
    BY <1>6 DEF Finish, InLoop
  <2>2. Grounded(stack)' /\ stack' # <<>>
    BY <1>a, <2>1, GroundedStack DEF Grounded, EventOps
  <2>3. ASSUME ~raising' PROVE Top.errors = {} /\ Unspoilt(Top)
    BY <2>1, <2>3 DEF Unspoilt
  <2>4. Clean' => Clean
    BY <1>a, <2>1, <2>3, SpotlessStack DEF Clean
  <2>5. SameSessions
    BY <2>1 DEF SameSessions
  <2>6. ASSUME fresh' = TRUE PROVE Selected' = Selected /\ fresh = TRUE
    BY <1>6, <2>5, <2>6, SelectedKept DEF Unselected
  <2>7. Current'
    BY <1>6, <2>1, <2>4, <2>6 DEF Current, Unselected, TypeOK
  <2>8. Returned'
    BY <1>6, <2>3, FinishedList DEF Returned
  <2> QED  BY <1>6, <2>2, <2>7, <2>8, SessionsRunStep DEF UpToDate, Settled
<1>7. ASSUME Unselected, TaskEnds PROVE SelectionInv'
  <2>1. stack' = <<>> /\ running' = running /\ SameSessions
    BY <1>7 DEF TaskEnds, SameSessions
  <2>2. Grounded(stack)' /\ Current' /\ Returned'
    BY <2>1 DEF Grounded, Current, Returned
  <2>3. UpToDate'
    <3>1. ASSUME outcome' = "ok", fresh' = TRUE PROVE Range(running') = Selected'
      <4>1. /\ Len(stack) = 1 /\ ~raising
            /\ Top.op \in {"task", "attach"}
        BY <1>7, <3>1 DEF TaskEnds
      <4>2. Clean
        BY <1>a, <4>1, LenProperties DEF Clean, Spotless, Unspoilt, Top
      <4>3. stack # <<>>
        BY <4>1
      <4>4. Range(running) = wanted
        BY <4>1, <4>3 DEF Returned
      <4>5. Selected' = Selected /\ fresh = TRUE
        BY <1>7, <2>1, <3>1, SelectedKept DEF Unselected, TaskEnds
      <4> QED  BY <2>1, <4>2, <4>3, <4>4, <4>5 DEF Current
    <3> QED  BY <3>1 DEF UpToDate, Settled, TypeOK
  <2> QED  BY <1>7, <2>2, <2>3, SessionsRunStep
<1> QED  BY <1>1, <1>2, <1>3, <1>4, <1>5, <1>6, <1>7, StepKinds

(***************************************************************************)
(* Which modules come to be listed, or in force, and which sessions leave. *)
(***************************************************************************)
Listed == Range(running) \cup Stopping

\* Nothing is listed that was not wanted; no leaf is started that is not wanted;
\* and a session that leaves the list is being stopped, until its stop returns.
LEMMA ListedStep ==
  ASSUME TypeOK, [Next]_vars
  PROVE  /\ Listed' \subseteq Listed \cup wanted
         /\ inForce' \cap Leaf \subseteq inForce \cup wanted
         /\ Session \cap Listed \subseteq Listed' \/ StopReturns
<1> USE DEF Listed
<1>k. /\ Leaf \cap Session = {} /\ Leaf \cap Nesting = {}
      /\ Lock \in ModuleSpec /\ Leaf \cup Session \subseteq ModuleSpec
  BY KindsAssumption DEF Nesting, ModuleSpec
<1>r. /\ running \in Seq(ModuleSpec)
      /\ DOMAIN running = 1..Len(running)
      /\ \A i \in DOMAIN running :
           /\ running[i] \in ModuleSpec /\ running[i] \in Range(running)
           /\ i \in Nat \ {0}
      /\ \A i \in DOMAIN running :
           /\ Range(running) \ {running[i]} \subseteq Range(RemoveAt(running, i))
           /\ Range(RemoveAt(running, i)) \subseteq Range(running)
      /\ \A m \in ModuleSpec : Range(Append(running, m)) = Range(running) \cup {m}
  <2>1. running \in Seq(ModuleSpec) /\ DOMAIN running = 1..Len(running)
    BY LenProperties DEF TypeOK
  <2>2. \A i \in DOMAIN running :
           /\ running[i] \in ModuleSpec /\ running[i] \in Range(running)
           /\ i \in Nat \ {0}
    BY <2>1, ElementOfSeq DEF Range
  <2> QED  BY <2>1, <2>2, RemoveAtRange, AppendRange
<1>t. ASSUME stack # <<>>
      PROVE  /\ Top.errors \subseteq ModuleSpec /\ Top.mod \in ModuleSpec
             /\ Top.at \in Nat \ {0}
             /\ Top.op # "stop" => Stopping = StoppingIn(Below)
             /\ Top.op = "stop" => Top.mod \in Stopping
             /\ \A f \in Frame :
                  /\ WithTop(f) \in Seq(Frame)
                  /\ f.op = "stop" => f.mod \in StoppingIn(WithTop(f))
                  /\ Top.op # "stop" => Stopping \subseteq StoppingIn(WithTop(f))
                  /\ Stopping \ {Top.mod} \subseteq StoppingIn(WithTop(f))
                  /\ StoppingIn(WithTop(f)) \subseteq Stopping \cup {f.mod}
                  /\ f.op # "stop" => StoppingIn(WithTop(f)) \subseteq Stopping
  BY <1>t, StackTop, StoppingOfWithTop DEF TypeOK, Frame
<1>l. InLoop => stack # <<>> /\ Top.op # "stop"
  BY DEF InLoop
<1>s. ASSUME NEW i \in DOMAIN running, ToStop(i)
      PROVE  InLoop
  BY <1>s DEF ToStop
<1>m. \A m \in wanted : m \in ModuleSpec
  BY DEF TypeOK
<1>n. \A m : ToStart(m) => InLoop
  BY DEF ToStart
<1>e. \A E \in SUBSET ModuleSpec : Loop(E) \in Frame /\ Loop(E).op # "stop"
  BY FrameTypes DEF Loop
<1>1. CASE Reconfigure
  <2>1. PICK p \in Replaceable(Reconfigurable), i \in DOMAIN running :
          /\ running[i] = p[1] /\ running' = [running EXCEPT ![i] = p[2]]
          /\ inForce' = (inForce \ {p[1]}) \cup {p[2]}
    BY <1>1 DEF Reconfigure
  <2>2. p[1] \in Leaf /\ p[2] \in Leaf /\ p[2] \in ModuleSpec /\ p[2] \in wanted
    BY SelectionAssumption DEF Replaceable, ModuleSpec
  <2>3. /\ (Range(running) \ {running[i]}) \cup {p[2]}
             \subseteq Range([running EXCEPT ![i] = p[2]])
        /\ Range([running EXCEPT ![i] = p[2]]) \subseteq Range(running) \cup {p[2]}
    <3>1. running \in Seq(ModuleSpec) /\ i \in DOMAIN running /\ p[2] \in ModuleSpec
      BY <1>r, <2>2
    <3>2. (Range(running) \ {running[i]}) \cup {p[2]}
            \subseteq Range([running EXCEPT ![i] = p[2]])
      BY <3>1, ReplaceRange
    <3>3. Range([running EXCEPT ![i] = p[2]]) \subseteq Range(running) \cup {p[2]}
      BY <3>1, ReplaceRange
    <3> QED  BY <3>2, <3>3
  <2>4. Stopping' = Stopping
    BY <1>1 DEF Reconfigure, Stopping
  <2> QED  BY <1>k, <2>1, <2>2, <2>3, <2>4
<1>2. CASE ReconfigureRaises \/ Finish
  BY <1>2, <1>l, <1>t DEF ReconfigureRaises, Finish, Stopping
<1>3. ASSUME NEW i \in DOMAIN running, StopLeaf(i)
      PROVE  /\ Listed' \subseteq Listed /\ inForce' \subseteq inForce
             /\ Session \cap Listed \subseteq Listed'
  BY <1>3, <1>k, <1>r DEF StopLeaf, OffList, Stopping
<1>4. ASSUME NEW i \in DOMAIN running, StopLeafFails(i) \/ StopLauncherAgain(i)
      PROVE  /\ Listed' \subseteq Listed /\ inForce' \subseteq inForce
             /\ Session \cap Listed \subseteq Listed'
  <2>1. /\ InLoop /\ running' = running /\ inForce' \subseteq inForce
        /\ stack' = WithTop(Loop(Top.errors \cup {running[i]}))
    BY <1>4, <1>s DEF StopLeafFails, StopLauncherAgain, StopFailed
  <2>2. Top.errors \cup {running[i]} \subseteq ModuleSpec
    BY <1>l, <1>r, <1>t, <2>1
  <2>3. Stopping' = Stopping
    BY <1>e, <1>l, <1>t, <2>1, <2>2 DEF Stopping
  <2> QED  BY <2>1, <2>3
<1>5. ASSUME NEW i \in DOMAIN running, StopNesting(i)
      PROVE  /\ Listed' \subseteq Listed /\ inForce' \subseteq inForce
             /\ Session \cap Listed \subseteq Listed'
  <2> DEFINE f == Calling("stop", running[i], i)
  <2>1. stack # <<>> /\ Top.op # "stop"
    BY <1>5, <1>l, <1>s DEF StopNesting
  <2>2. f \in Frame /\ f.op = "stop" /\ f.mod = running[i]
    BY <1>r, <1>t, <2>1, FrameTypes DEF Calling
  <2>3. /\ WithTop(f) \in Seq(Frame)
        /\ Stopping \cup {running[i]} \subseteq StoppingIn(WithTop(f))
        /\ StoppingIn(WithTop(f)) \subseteq Stopping \cup {running[i]}
    BY <1>t, <2>1, <2>2
  <2>4. StoppingIn(WithTop(f)) = Stopping'
    BY <1>5, <2>3, UpdateStopping DEF StopNesting
  <2>5. running' = RemoveAt(running, i) /\ inForce' = inForce
    BY <1>5 DEF StopNesting, OffList
  <2> QED  BY <1>r, <2>3, <2>4, <2>5
<1>6. ASSUME NEW m \in wanted, StartLeaf(m) \/ StartFails(m) \/ StartNesting(m)
      PROVE  /\ Listed' \subseteq Listed \cup wanted
             /\ inForce' \cap Leaf \subseteq inForce \cup wanted
             /\ Listed \subseteq Listed'
  <2>1. /\ InLoop /\ m \in ModuleSpec /\ running' = Append(running, m)
        /\ inForce' \cap Leaf \subseteq inForce \cup {m}
    BY <1>6, <1>m, <1>n DEF StartLeaf, StartFails, StartNesting
  <2>2. Range(running') = Range(running) \cup {m}
    BY <1>r, <2>1
  <2>3. Stopping' = Stopping
    <3>1. CASE StartLeaf(m)
      BY <3>1 DEF StartLeaf, Stopping
    <3>2. CASE StartFails(m)
      BY <1>l, <1>t, <2>1, <3>2 DEF StartFails, Stopping
    <3>3. CASE StartNesting(m)
      <4> DEFINE f == Calling("start", m, 1)
      <4>1. f \in Frame /\ f.op # "stop"
        <5>1. Top.errors \subseteq ModuleSpec /\ 1 \in Nat \ {0}
          BY <1>l, <1>t, <2>1
        <5>2. f \in Frame
          BY <2>1, <5>1, FrameTypes
        <5> QED  BY <5>2 DEF Calling
      <4>2. StoppingIn(WithTop(f)) = Stopping /\ WithTop(f) \in Seq(Frame)
        BY <1>l, <1>t, <2>1, <4>1
      <4>3. StoppingIn(WithTop(f)) = Stopping'
        BY <3>3, <4>2, UpdateStopping DEF StartNesting
      <4> QED  BY <4>2, <4>3
    <3> QED  BY <1>6, <3>1, <3>2, <3>3
  <2> QED  BY <2>1, <2>2, <2>3
<1>9. CASE StartReturns
  <2>1. Range(running') = Range(running)
    <3>1. CASE Top.mod \in wanted /\ Top.mod \in Range(running)
      <4>1. /\ RemoveFirst(running, Top.mod) \in Seq(ModuleSpec)
            /\ Range(running) \ {Top.mod}
                 \subseteq Range(RemoveFirst(running, Top.mod))
            /\ Range(RemoveFirst(running, Top.mod)) \subseteq Range(running)
        BY <1>r, <3>1, RemoveFirstRange
      <4>2. Range(Append(RemoveFirst(running, Top.mod), Top.mod))
              = Range(RemoveFirst(running, Top.mod)) \cup {Top.mod}
        BY <1>m, <3>1, <4>1, AppendRange
      <4>3. running' = Append(RemoveFirst(running, Top.mod), Top.mod)
        BY <1>9, <3>1 DEF StartReturns, MoveToEnd
      <4> QED  BY <3>1, <4>1, <4>2, <4>3
    <3>2. CASE ~(Top.mod \in wanted /\ Top.mod \in Range(running))
      BY <1>9, <3>2 DEF StartReturns, MoveToEnd
    <3> QED  BY <3>1, <3>2
  <2>2. Stopping' = Stopping
    BY <1>9, <1>e, <1>t DEF StartReturns, InCall, Stopping
  <2>3. inForce' = inForce
    BY <1>9 DEF StartReturns
  <2> QED  BY <2>1, <2>2, <2>3
<1>10. CASE StartRaises
  BY <1>10, <1>t DEF StartRaises, InCall, Stopping
<1>11. CASE StopReturns
  <2>1. stack # <<>> /\ stack' = WithTop(Loop(Top.errors))
    BY <1>11 DEF StopReturns, InCall
  <2>2. Stopping' \subseteq Stopping
    BY <1>e, <1>t, <2>1 DEF Stopping
  <2> QED  BY <1>11, <2>2 DEF StopReturns
<1>12. CASE StopRaises
  <2>1. /\ stack # <<>> /\ Top.op = "stop" /\ running' = PutBack(Top.at, Top.mod)
        /\ stack' = WithTop(Loop(Top.errors \cup {Top.mod})) /\ inForce' = inForce
    BY <1>12 DEF StopRaises, StopFailed, InCall
  <2>2. Range(PutBack(Top.at, Top.mod)) = Range(running) \cup {Top.mod}
    <3>1. /\ running \in Seq(ModuleSpec) /\ Top.mod \in ModuleSpec
          /\ Top.at \in Nat \ {0}
      BY <1>r, <1>t, <2>1
    <3> QED  BY <3>1, PutBackRange
  <2>3. Top.errors \cup {Top.mod} \subseteq ModuleSpec /\ Top.mod \in Stopping
    BY <1>t, <2>1
  <2>4. Stopping \ {Top.mod} \subseteq Stopping' /\ Stopping' \subseteq Stopping
    BY <1>e, <1>t, <2>1, <2>3 DEF Stopping
  <2> QED  BY <2>1, <2>2, <2>3, <2>4
<1>13. CASE AttachFails
  <2>1. stack # <<>> /\ Top.op # "stop"
    BY <1>13 DEF AttachFails, InCall
  <2>2. Task("undo", Top.mod) \in Frame /\ Task("undo", Top.mod).op # "stop"
    BY <1>t, <2>1, FrameTypes DEF Task
  <2>3. /\ StoppingIn(WithTop(Task("undo", Top.mod))) = Stopping
        /\ WithTop(Task("undo", Top.mod)) \in Seq(Frame)
    BY <1>t, <2>1, <2>2
  <2>4. StoppingIn(WithTop(Task("undo", Top.mod))) = Stopping'
    BY <1>13, <2>3, UpdateStopping DEF AttachFails
  <2> QED  BY <1>13, <2>3, <2>4 DEF AttachFails
<1>14. CASE Event \/ LockCommand \/ Unlock \/ Shutdown
            \/ \E s \in Session : Attach(s) \/ Detach(s)
  <2>1. PICK op \in {"task", "attach"}, m \in ModuleSpec : Update(<<Task(op, m)>>)
    BY <1>14, <1>k DEF Event, LockCommand, Unlock, Shutdown, Attach, Detach
  <2>2. Task(op, m) \in Frame /\ Task(op, m).op # "stop"
    BY FrameTypes DEF Task
  <2>3. /\ <<Task(op, m)>> \in Seq(Frame)
        /\ StoppingIn(<<Task(op, m)>>) = {}
    <3> HIDE DEF Task
    <3> QED  BY <2>2 DEF StoppingIn
  <2>4. Stopping' = {}
    BY <2>1, <2>3, UpdateStopping
  <2>5. Stopping = {}
    <3>1. stack = <<>>
      BY <1>14 DEF Event, LockCommand, Unlock, Shutdown, Attach, Detach, BeginTask
    <3> QED  BY <3>1 DEF Stopping, StoppingIn
  <2>6. running' = running /\ inForce' = inForce
    BY <1>14 DEF Event, LockCommand, Unlock, Shutdown, Attach, Detach, selection
  <2> QED  BY <2>4, <2>5, <2>6
<1>15. CASE TaskEnds
  <2>1. Stopping = {}
    <3>1. Len(stack) = 1 /\ Top.op # "stop"
      BY <1>15 DEF TaskEnds
    <3>2. DOMAIN stack = 1..1
      BY <3>1, LenProperties DEF TypeOK
    <3> QED  BY <3>1, <3>2 DEF Stopping, StoppingIn, Top
  <2>2. Stopping' = {}
    BY <1>15 DEF TaskEnds, Stopping, StoppingIn
  <2>3. running' = running /\ inForce' = inForce
    BY <1>15 DEF TaskEnds
  <2> QED  BY <2>1, <2>2, <2>3
<1>16. CASE Flip \/ UNCHANGED vars
  BY <1>16 DEF Flip, vars, Stopping
<1> QED
  BY <1>1, <1>2, <1>3, <1>4, <1>5, <1>6, <1>9, <1>10, <1>11, <1>12,
     <1>13, <1>14, <1>15, <1>16 DEF Next, MainThread, Environment

\* A per-session module that is in force has its session, as the session's own
\* update, in which the module is not wanted, comes before it is released.
LEMMA NestedStep ==
  ASSUME TypeOK, EffectsAreTracked, SelectionInv, SessionOutlivesChildren,
         [Next]_vars
  PROVE  SessionOutlivesChildren'
<1>k. /\ \A c \in PerSession : c[2] \in Session
      /\ PerSession \subseteq Leaf
  BY KindsAssumption DEF Leaf
<1>1. /\ inForce' \cap Leaf \subseteq inForce \cup wanted
      /\ Session \cap Listed \subseteq Listed' \/ StopReturns
  BY ListedStep
<1>2. SUFFICES ASSUME NEW c \in PerSession, c \in inForce'
               PROVE  c[2] \in Listed'
  BY <1>2 DEF SessionOutlivesChildren, Listed
<1>3. c \in inForce \/ c \in wanted
  BY <1>k, <1>1, <1>2
<1>4. c[2] \in Listed
  BY <1>3 DEF SessionOutlivesChildren, SelectionInv, SessionsRun, Listed
<1>5. CASE StopReturns
  <2>1. /\ stack # <<>> /\ Top.op = "stop" /\ ~raising /\ running' = running
        /\ inForce' \subseteq inForce
    BY <1>5 DEF StopReturns, InCall
  <2>2. Range(running) = wanted
    BY <2>1 DEF SelectionInv, Returned
  <2>3. c \in Range(running)
    BY <1>2, <1>k, <2>1 DEF EffectsAreTracked
  <2>4. c[2] \in Range(running)
    BY <2>2, <2>3 DEF SelectionInv, SessionsRun
  <2> QED  BY <2>1, <2>4 DEF Listed
<1>6. CASE ~StopReturns
  BY <1>1, <1>4, <1>6, <1>k
<1> QED  BY <1>5, <1>6

LEMMA SelectionAlways == Spec => [](TypeOK /\ EffectsAreTracked /\ SelectionInv)
<1>1. Init => SelectionInv
  BY DEF Init, SelectionInv, Grounded, Current, Returned, SessionsRun, UpToDate,
         Settled
<1>2. TypeOK /\ TypeOK' /\ SelectionInv /\ [Next]_vars => SelectionInv'
  BY SelectionStep
<1> QED  BY <1>1, <1>2, TypeCorrect, Tracked, PTL DEF Spec

\* Whatever has failed, and whatever has changed on the way: when a task ends
\* without an exception, running_modules is what the selectors would list now
\* (module.py:135-138), and a per-session module is in force only while its
\* session is, or is in the middle of its stop (session.py:35-39).
THEOREM Converges == Spec => []UpToDateAndNested
<1>1. Init => SessionOutlivesChildren
  BY DEF Init, SessionOutlivesChildren
<1>2. TypeOK /\ EffectsAreTracked /\ SelectionInv /\ SessionOutlivesChildren
        /\ [Next]_vars => SessionOutlivesChildren'
  BY NestedStep
<1>3. SelectionInv /\ SessionOutlivesChildren => UpToDateAndNested
  BY DEF SelectionInv, UpToDateAndNested
<1> QED  BY <1>1, <1>2, <1>3, SelectionAlways, PTL DEF Spec

(***************************************************************************)
(* The lock, as long as no evaluation of the configuration raises: the     *)
(* selector of lock.py lists the lock module in every update of a locked   *)
(* system, and it is registered once the module has been loaded.           *)
(***************************************************************************)
LockLoaded == Lock \in Listed \cup wanted => lockLoaded
LockWanted == locked /\ lockLoaded /\ ~shuttingDown => Lock \in wanted

\* A locked system wants the lock module, and what wants it has loaded it.
LEMMA LockSelectedOnly ==
  TypeOK =>
    /\ Lock \in Selected => Lock \in ConfigSelected \cup LockSelected /\ ~shuttingDown
    /\ lockLoaded /\ locked /\ ~shuttingDown => Lock \in Selected
<1> SUFFICES ASSUME TypeOK
             PROVE  /\ Lock \in Selected =>
                         Lock \in ConfigSelected \cup LockSelected /\ ~shuttingDown
                    /\ lockLoaded /\ locked /\ ~shuttingDown => Lock \in Selected
  OBVIOUS
<1>1. /\ Lock \notin Plain \cup Launcher \cup Session \cup PerSession
      /\ Launcher \cup Session \cup {Lock} \cup Plain \cup PerSession = ModuleSpec
  BY KindsAssumption DEF ModuleSpec, Leaf, Nesting
<1>2. idle \in BOOLEAN /\ locked \in BOOLEAN
  BY Zenon DEF TypeOK
<1>3. ConfigSelected \subseteq Plain \cup Launcher \cup {Lock}
  BY <1>2, ConfigType, Zenon DEF ConfigSelected
<1>4. /\ Core \subseteq Plain \cup Launcher
      /\ \A m \in ModuleSpec : Requires[m] \subseteq Plain
  BY SelectionAssumption
<1>5. LockSelected \subseteq {Lock} /\ sessionSpecs \subseteq Session
      /\ Launched \subseteq PerSession
  BY DEF LockSelected, TypeOK, Launched
<1>6. /\ Requested \subseteq ModuleSpec
      /\ Lock \in Requested => Lock \in ConfigSelected \cup LockSelected
      /\ LockSelected \subseteq Requested
  BY <1>1, <1>3, <1>4, <1>5 DEF Requested
<1>7. /\ Lock \in WithDependencies(Requested) => Lock \in ConfigSelected \cup LockSelected
      /\ LockSelected \subseteq WithDependencies(Requested)
  BY <1>1, <1>4, <1>6 DEF WithDependencies
<1> QED  BY <1>7 DEF Selected, LockSelected

LEMMA LockSelectedOnlyNext ==
  (TypeOK =>
    /\ Lock \in Selected => Lock \in ConfigSelected \cup LockSelected /\ ~shuttingDown
    /\ lockLoaded /\ locked /\ ~shuttingDown => Lock \in Selected)'
BY LockSelectedOnly, PTL

\* Every update keeps it so.
LEMMA LockStep ==
  ASSUME ConfigMayRaise = FALSE \/ steady', TypeOK, TypeOK', Grounded(stack), LockLoaded,
         LockWanted, [Next]_vars
  PROVE  LockLoaded' /\ LockWanted'
<1>1. Listed' \subseteq Listed \cup wanted
  BY ListedStep
<1>2. CASE Updates
  <2>1. PICK frames \in Seq(Frame) : Update(frames)
    BY <1>2 DEF Updates
  <2>2. /\ wanted' = Selected'
        /\ lockLoaded' = (lockLoaded \/ (~shuttingDown' /\ Lock \in ConfigSelected'))
    BY <2>1 DEF Update
  <2>3. /\ Lock \in Selected' =>
             Lock \in ConfigSelected' \cup LockSelected' /\ ~shuttingDown'
        /\ lockLoaded' /\ locked' /\ ~shuttingDown' => Lock \in Selected'
    BY LockSelectedOnlyNext
  <2>4. Lock \in LockSelected' => lockLoaded'
    BY DEF LockSelected
  <2>5. lockLoaded => lockLoaded'
    BY <2>2
  <2> QED  BY <1>1, <2>2, <2>3, <2>4, <2>5 DEF LockLoaded, LockWanted
<1>3. CASE Unselected
  BY <1>1, <1>3 DEF Unselected, LockLoaded, LockWanted
<1> QED  BY <1>2, <1>3, StepKinds

\* As long as no evaluation of the configuration raises, no sequence of updates
\* and failures unlocks a locked system in the middle of a task, unless Blankie
\* is shutting down (lock.py:20-24, module.py:233).
THEOREM LockHeld ==
  ASSUME ConfigMayRaise = FALSE
  PROVE  Spec => LockHolds
<1>1. Init => LockLoaded /\ LockWanted
  BY DEF Init, LockLoaded, LockWanted, Listed, Stopping, StoppingIn, Range
<1>2. TypeOK /\ TypeOK' /\ SelectionInv /\ LockLoaded /\ LockWanted
        /\ [Next]_vars => LockLoaded' /\ LockWanted'
  BY LockStep DEF SelectionInv
<1>3. TypeOK /\ LockLoaded /\ LockWanted /\ [Next]_vars
        => [locked /\ ~locked' => stack = <<>> \/ shuttingDown]_vars
  <2> SUFFICES ASSUME TypeOK, LockLoaded, LockWanted, Next,
                      locked, ~locked', stack # <<>>, ~shuttingDown
               PROVE  FALSE
    OBVIOUS
  <2>1. ~BeginTask /\ locked' # locked
    BY DEF BeginTask
  <2>2. PICK i \in DOMAIN running : StopNesting(i)
    BY <2>1 DEF Next, MainThread, Environment, selection, Reconfigure,
           ReconfigureRaises, StopLeaf, StopLeafFails, StopLauncherAgain,
           StartLeaf, StartFails, StartNesting, StartReturns, StartRaises,
           StopReturns, StopRaises, Finish, AttachFails, TaskEnds, Event,
           LockCommand, Unlock, Attach, Detach, Shutdown, Flip
  <2>3. running[i] = Lock /\ Lock \notin wanted
    BY <2>2 DEF StopNesting, ToStop, Unwanted
  <2>4. Lock \in Range(running)
    BY <2>3 DEF Range
  <2> QED  BY <2>3, <2>4 DEF LockLoaded, LockWanted, Listed
<1> QED  BY <1>1, <1>2, <1>3, SelectionAlways, PTL DEF Spec, LockHolds

(***************************************************************************)
(* The order of the list, as long as nothing fails: no start, no stop, no  *)
(* reconfiguration and no configuration.  Then no update raises by itself, *)
(* each module is listed once, and the launchers that are listed are those *)
(* whose selector is registered.                                           *)
(***************************************************************************)

\* What removing one element leaves, in order.
LEMMA RemoveAtElements ==
  ASSUME NEW S, NEW s \in Seq(S), NEW i \in 1..Len(s)
  PROVE  /\ RemoveAt(s, i) \in Seq(S)
         /\ Len(RemoveAt(s, i)) = Len(s) - 1
         /\ \A j \in 1..Len(s)-1 : RemoveAt(s, i)[j] = IF j < i THEN s[j] ELSE s[j+1]
<1> DEFINE a == SubSeq(s, 1, i-1)
           b == SubSeq(s, i+1, Len(s))
<1>0. Len(s) \in Nat /\ DOMAIN s = 1..Len(s) /\ \A j \in 1..Len(s) : s[j] \in S
  BY LenProperties, ElementOfSeq
<1>1. a \in Seq(S) /\ Len(a) = i-1 /\ \A j \in 1..i-1 : a[j] = s[j]
  <2>1. \A j \in 1..i-1 : s[j] \in S
    BY <1>0
  <2>2. /\ a \in Seq(S) /\ Len(a) = IF 1 <= i-1 THEN (i-1) - 1 + 1 ELSE 0
        /\ \A j \in 1..(i-1)-1+1 : a[j] = s[1+j-1]
    BY <1>0, <2>1, SubSeqProperties
  <2> QED  BY <2>2
<1>2. /\ b \in Seq(S) /\ Len(b) = Len(s) - i
      /\ \A j \in 1..Len(s)-i : b[j] = s[i+j]
  <2>1. \A j \in i+1..Len(s) : s[j] \in S
    BY <1>0
  <2>2. /\ b \in Seq(S) /\ Len(b) = IF i+1 <= Len(s) THEN Len(s) - (i+1) + 1 ELSE 0
        /\ \A j \in 1..Len(s)-(i+1)+1 : b[j] = s[(i+1)+j-1]
    BY <1>0, <2>1, SubSeqProperties
  <2>3. /\ Len(s) - (i+1) + 1 = Len(s) - i
        /\ \A j \in 1..Len(s)-i : (i+1)+j-1 = i+j
        /\ ~(i+1 <= Len(s)) => Len(s) - i = 0
    <3>1. i \in Int /\ Len(s) \in Int /\ i <= Len(s)
      BY <1>0
    <3>2. Len(s) - (i+1) + 1 = Len(s) - i
      BY <3>1
    <3>3. \A j \in 1..Len(s)-i : (i+1)+j-1 = i+j
      BY <3>1
    <3>4. ~(i+1 <= Len(s)) => Len(s) - i = 0
      BY <3>1
    <3> QED  BY <3>2, <3>3, <3>4
  <2> HIDE DEF b
  <2>4. Len(b) = Len(s) - i
    BY <1>0, <2>2, <2>3
  <2>5. \A j \in 1..Len(s)-i : b[j] = s[i+j]
    BY <2>2, <2>3
  <2> QED  BY <2>2, <2>4, <2>5
<1>3. RemoveAt(s, i) = a \o b
  BY DEF RemoveAt
<1> HIDE DEF a, b
<1>4. /\ a \o b \in Seq(S) /\ Len(a \o b) = Len(a) + Len(b)
      /\ \A j \in 1..Len(a)+Len(b) :
           (a \o b)[j] = IF j <= Len(a) THEN a[j] ELSE b[j - Len(a)]
  BY <1>1, <1>2, ConcatProperties
<1>5. ASSUME NEW j \in 1..Len(s)-1
      PROVE  (a \o b)[j] = IF j < i THEN s[j] ELSE s[j+1]
  <2>1. CASE j < i
    BY <1>0, <1>1, <1>2, <1>4, <2>1
  <2>2. CASE ~(j < i)
    <3>1. j - (i-1) \in 1..Len(s)-i /\ i + (j - (i-1)) = j + 1
      BY <1>0, <2>2
    <3>2. (a \o b)[j] = b[j - (i-1)] /\ b[j - (i-1)] = s[i + (j - (i-1))]
      BY <1>0, <1>1, <1>2, <1>4, <2>2, <3>1
    <3> QED  BY <2>2, <3>1, <3>2
  <2> QED  BY <2>1, <2>2
<1> QED  BY <1>0, <1>1, <1>2, <1>3, <1>4, <1>5

\* Once each: appending a new element, replacing one by a new one, removing one.
LEMMA OnceAppend ==
  ASSUME NEW S, NEW s \in Seq(S), NEW e \in S, IsInjective(s), e \notin Range(s)
  PROVE  IsInjective(Append(s, e))
<1>1. /\ DOMAIN s = 1..Len(s) /\ Len(s) \in Nat
      /\ DOMAIN Append(s, e) = 1..Len(s)+1
      /\ \A j \in 1..Len(s) : Append(s, e)[j] = s[j] /\ s[j] # e
      /\ Append(s, e)[Len(s)+1] = e
  <2>1. DOMAIN s = 1..Len(s) /\ Len(s) \in Nat
    BY LenProperties
  <2>2. \A j \in 1..Len(s) : s[j] # e
    BY <2>1 DEF Range
  <2> QED  BY <2>1, <2>2, AppendProperties
<1>2. \A j, k \in 1..Len(s) : s[j] = s[k] => j = k
  BY <1>1 DEF IsInjective
<1>3. ASSUME NEW j \in 1..Len(s)+1, NEW k \in 1..Len(s)+1,
             Append(s, e)[j] = Append(s, e)[k]
      PROVE  j = k
  <2>1. (j \in 1..Len(s) \/ j = Len(s)+1) /\ (k \in 1..Len(s) \/ k = Len(s)+1)
    BY <1>1
  <2> QED  BY <1>1, <1>2, <1>3, <2>1
<1> QED  BY <1>1, <1>3 DEF IsInjective

LEMMA OnceReplace ==
  ASSUME NEW S, NEW s \in Seq(S), NEW e \in S, NEW i \in DOMAIN s, IsInjective(s),
         e \notin Range(s)
  PROVE  /\ IsInjective([s EXCEPT ![i] = e])
         /\ s[i] \notin Range([s EXCEPT ![i] = e])
<1> DEFINE t == [s EXCEPT ![i] = e]
<1>1. DOMAIN t = DOMAIN s /\ \A j \in DOMAIN s : t[j] = IF j = i THEN e ELSE s[j]
  OBVIOUS
<1>2. \A j \in DOMAIN s : s[j] # e
  BY DEF Range
<1> HIDE DEF t
<1> QED  BY <1>1, <1>2 DEF IsInjective, Range, t

LEMMA OnceRemove ==
  ASSUME NEW S, NEW s \in Seq(S), NEW i \in 1..Len(s), IsInjective(s)
  PROVE  /\ IsInjective(RemoveAt(s, i))
         /\ Range(RemoveAt(s, i)) = Range(s) \ {s[i]}
<1> DEFINE t == RemoveAt(s, i)
           at(j) == IF j < i THEN j ELSE j+1
<1>1. /\ DOMAIN s = 1..Len(s) /\ DOMAIN t = 1..Len(s)-1 /\ Len(s) \in Nat
      /\ \A j \in 1..Len(s)-1 : t[j] = IF j < i THEN s[j] ELSE s[j+1]
  BY RemoveAtElements, LenProperties
<1>2. \A j \in 1..Len(s)-1 : at(j) \in 1..Len(s) /\ at(j) # i /\ t[j] = s[at(j)]
  BY <1>1
<1>3. \A j, k \in 1..Len(s)-1 : at(j) = at(k) => j = k
  BY <1>1
<1>4. Range(s) \ {s[i]} \subseteq Range(t) /\ Range(t) \subseteq Range(s)
  BY RemoveAtRange
<1> HIDE DEF t, at
<1>5. ASSUME NEW j \in DOMAIN t, NEW k \in DOMAIN t, t[j] = t[k]
      PROVE  j = k
  BY <1>1, <1>2, <1>3, <1>5 DEF IsInjective
<1>6. s[i] \notin Range(t)
  BY <1>1, <1>2 DEF IsInjective, Range
<1>7. Range(t) = Range(s) \ {s[i]}
  BY <1>4, <1>6
<1> QED  BY <1>5, <1>7 DEF IsInjective, t

\* A frame in which nothing has failed, and which only a module that calls
\* update() has entered.
Sound(f) == Unspoilt(f) /\ (f.op \in {"start", "stop"} => f.mod \in Nesting)
AllSound(st) == \A k \in DOMAIN st : Sound(st[k])

Faultless == ~raising /\ AllSound(stack)
Once == IsInjective(running) /\ selectors = Launcher \cap Range(running)

LEMMA SoundStack ==
  ASSUME stack \in Seq(Frame), stack # <<>>, AllSound(stack)
  PROVE  /\ Sound(Top) /\ AllSound(Below)
         /\ \A f \in Frame : Sound(f) => AllSound(WithTop(f))
<1>1. Len(stack) \in Nat \ {0} /\ DOMAIN stack = 1..Len(stack)
  BY EmptySeq, LenProperties
<1>2. /\ DOMAIN Below = 1..Len(stack)-1
      /\ \A k \in 1..Len(stack)-1 : Below[k] = stack[k]
  <2>1. \A k \in 1..Len(stack)-1 : stack[k] \in Frame
    BY <1>1, ElementOfSeq
  <2> QED  BY <1>1, <2>1, SubSeqProperties, LenProperties DEF Below
<1>3. Sound(Top)
  BY <1>1 DEF AllSound, Top
<1>4. AllSound(Below)
  BY <1>1, <1>2 DEF AllSound
<1>5. ASSUME NEW f \in Frame, Sound(f)
      PROVE  AllSound(WithTop(f))
  <2>1. /\ DOMAIN WithTop(f) = DOMAIN stack
        /\ \A k \in DOMAIN stack :
             WithTop(f)[k] = IF k = Len(stack) THEN f ELSE stack[k]
    BY <1>1 DEF WithTop
  <2> QED  BY <1>5, <2>1 DEF AllSound
<1> QED  BY <1>3, <1>4, <1>5

LEMMA SoundPush ==
  ASSUME NEW st \in Seq(Frame), AllSound(st), NEW f \in Frame, Sound(f)
  PROVE  AllSound(Append(st, f))
<1>1. /\ DOMAIN st = 1..Len(st) /\ Len(st) \in Nat
      /\ DOMAIN Append(st, f) = 1..Len(st)+1
      /\ \A k \in 1..Len(st) : Append(st, f)[k] = st[k]
      /\ Append(st, f)[Len(st)+1] = f
  BY LenProperties, AppendProperties
<1>2. ASSUME NEW k \in 1..Len(st)+1 PROVE Sound(Append(st, f)[k])
  BY <1>1 DEF AllSound
<1> QED  BY <1>1, <1>2 DEF AllSound

\* The actions in which something fails, or that follow a failure.
Failing ==
  \/ ReconfigureRaises
  \/ \E i \in DOMAIN running : StopLeafFails(i) \/ StopLauncherAgain(i)
  \/ \E m \in wanted : StartFails(m)
  \/ StartRaises \/ StopRaises \/ AttachFails

LEMMA NothingFails ==
  ASSUME MaxFailures = 0, Misfit = {}, TypeOK, Faultless, Once
  PROVE  ~Fail /\ ~Failing
<1>1. ~Fail
  <2>1. failures \in 0..0
    BY DEF TypeOK
  <2> QED  BY <2>1 DEF Fail
<1>2. ~ReconfigureRaises
  BY DEF ReconfigureRaises, Replaceable
<1>3. ASSUME NEW i \in DOMAIN running, StopLeafFails(i) \/ StopLauncherAgain(i)
      PROVE  FALSE
  <2>1. running[i] \in Launcher \ selectors
    BY <1>1, <1>3 DEF StopLeafFails, StopLauncherAgain
  <2> QED  BY <2>1 DEF Once, Range
<1>4. \A m : ~StartFails(m)
  BY <1>1 DEF StartFails
<1>5. ~StartRaises /\ ~StopRaises /\ ~AttachFails
  BY DEF Faultless, StartRaises, StopRaises, AttachFails
<1> QED  BY <1>1, <1>2, <1>3, <1>4, <1>5 DEF Failing

\* An update that does not fail, of a sound caller.
LEMMA SoundUpdate ==
  ASSUME ~Fail, NEW frames \in Seq(Frame), AllSound(frames), Update(frames)
  PROVE  Faultless' /\ wanted' = Selected'
<1>1. Loop({}) \in Frame /\ Sound(Loop({}))
  BY FrameTypes DEF Loop, Sound, Unspoilt
<1>2. stack' = Append(frames, Loop({})) /\ raising' = FALSE /\ wanted' = Selected'
  BY DEF Update
<1>3. AllSound(stack')
  BY <1>1, <1>2, SoundPush
<1> QED  BY <1>2, <1>3 DEF Faultless

\* As long as nothing fails, nothing is listed twice or raises.
LEMMA FaultlessStep ==
  ASSUME MaxFailures = 0, Misfit = {}, TypeOK, Faultless, Once,
         outcome # "error", [Next]_vars
  PROVE  Faultless' /\ Once' /\ outcome' # "error"
<1>f. ~Fail /\ ~Failing
  BY NothingFails
<1>k. /\ Leaf \cap Launcher = {} /\ Lock \notin Launcher /\ Lock \in ModuleSpec
      /\ Launcher \subseteq Nesting
  BY KindsAssumption DEF Nesting, ModuleSpec
<1>r. /\ running \in Seq(ModuleSpec) /\ DOMAIN running = 1..Len(running)
      /\ \A i \in DOMAIN running : running[i] \in ModuleSpec /\ i \in Nat \ {0}
  BY LenProperties, ElementOfSeq DEF TypeOK
<1>t. ASSUME stack # <<>>
      PROVE  /\ Top.errors \subseteq ModuleSpec /\ Top.mod \in ModuleSpec
             /\ Sound(Top) /\ AllSound(Below)
             /\ \A f \in Frame :
                  /\ WithTop(f) \in Seq(Frame)
                  /\ Sound(f) => AllSound(WithTop(f))
  BY <1>t, StackTop, StoppingOfWithTop, SoundStack DEF TypeOK, Frame, Faultless
<1>l. InLoop => stack # <<>> /\ Top.op = "loop" /\ Top.errors = {}
  BY <1>t DEF InLoop, Sound, Unspoilt
<1>s. \A i : ToStop(i) => InLoop /\ i \in DOMAIN running
  BY DEF ToStop, Unwanted
<1>m. \A m : ToStart(m) => m \in ModuleSpec /\ m \notin Range(running) /\ InLoop
  BY DEF ToStart, TypeOK
<1>1. CASE Reconfigure
  <2>1. PICK p \in Replaceable(Reconfigurable), i \in DOMAIN running :
          running[i] = p[1] /\ running' = [running EXCEPT ![i] = p[2]]
    BY <1>1 DEF Reconfigure
  <2>2. /\ p[1] \in Leaf /\ p[2] \in Leaf /\ p[2] \in ModuleSpec
        /\ p[2] \notin Range(running)
    BY SelectionAssumption DEF Replaceable, ModuleSpec
  <2>3. IsInjective(running')
    BY <1>r, <2>1, <2>2, OnceReplace DEF Once
  <2>4. (Range(running) \ {running[i]}) \cup {p[2]}
          \subseteq Range([running EXCEPT ![i] = p[2]])
    <3>1. running \in Seq(ModuleSpec) /\ i \in DOMAIN running /\ p[2] \in ModuleSpec
      BY <1>r, <2>2
    <3> QED  BY <3>1, ReplaceRange
  <2>5. Range([running EXCEPT ![i] = p[2]]) \subseteq Range(running) \cup {p[2]}
    <3>1. running \in Seq(ModuleSpec) /\ i \in DOMAIN running /\ p[2] \in ModuleSpec
      BY <1>r, <2>2
    <3> QED  BY <3>1, ReplaceRange
  <2>6. Launcher \cap Range(running') = Launcher \cap Range(running)
    BY <1>k, <2>1, <2>2, <2>4, <2>5
  <2>7. UNCHANGED <<selectors, stack, raising, outcome>>
    BY <1>1 DEF Reconfigure, selection
  <2> QED  BY <2>3, <2>6, <2>7 DEF Once, Faultless
<1>3. ASSUME NEW i \in DOMAIN running, StopLeaf(i)
      PROVE  Faultless' /\ Once' /\ outcome' # "error"
  <2>1. /\ running' = RemoveAt(running, i) /\ running[i] \in Leaf
        /\ UNCHANGED <<selectors, stack, raising, outcome>>
    BY <1>3 DEF StopLeaf, OffList, selection
  <2>2. /\ IsInjective(RemoveAt(running, i))
        /\ Range(RemoveAt(running, i)) = Range(running) \ {running[i]}
    BY <1>r, OnceRemove DEF Once
  <2> QED  BY <1>k, <2>1, <2>2 DEF Once, Faultless
<1>5. ASSUME NEW i \in DOMAIN running, StopNesting(i)
      PROVE  Faultless' /\ Once' /\ outcome' # "error"
  <2> DEFINE f == Calling("stop", running[i], i)
  <2>1. InLoop /\ running[i] \in Nesting
    BY <1>5, <1>s DEF StopNesting
  <2>2. f \in Frame
    BY <1>l, <1>r, <1>t, <2>1, FrameTypes
  <2>3. Sound(f)
    BY <1>l, <2>1 DEF Calling, Sound, Unspoilt
  <2>4. Faultless'
    <3>1. WithTop(f) \in Seq(Frame) /\ AllSound(WithTop(f))
      BY <1>l, <1>t, <2>1, <2>2, <2>3
    <3>2. Update(WithTop(f))
      BY <1>5 DEF StopNesting
    <3> QED  BY <1>f, <3>1, <3>2, SoundUpdate
  <2>5. /\ running' = RemoveAt(running, i) /\ selectors' = selectors \ {running[i]}
        /\ outcome' = outcome
    BY <1>5 DEF StopNesting, OffList
  <2>6. /\ IsInjective(RemoveAt(running, i))
        /\ Range(RemoveAt(running, i)) = Range(running) \ {running[i]}
    BY <1>r, OnceRemove DEF Once
  <2> QED  BY <2>4, <2>5, <2>6 DEF Once
<1>6. ASSUME NEW m \in wanted, StartLeaf(m)
      PROVE  Faultless' /\ Once' /\ outcome' # "error"
  <2>1. /\ running' = Append(running, m) /\ m \in Leaf /\ m \in ModuleSpec
        /\ m \notin Range(running)
        /\ UNCHANGED <<selectors, stack, raising, outcome>>
    BY <1>6, <1>m DEF StartLeaf, selection
  <2>2. /\ IsInjective(Append(running, m))
        /\ Range(Append(running, m)) = Range(running) \cup {m}
    BY <1>r, <2>1, AppendRange, OnceAppend DEF Once
  <2> QED  BY <1>k, <2>1, <2>2 DEF Once, Faultless
<1>8. ASSUME NEW m \in wanted, StartNesting(m)
      PROVE  Faultless' /\ Once' /\ outcome' # "error"
  <2> DEFINE f == Calling("start", m, 1)
  <2>1. /\ InLoop /\ m \in Nesting /\ m \in ModuleSpec /\ m \notin Range(running)
    BY <1>8, <1>m DEF StartNesting
  <2>2. f \in Frame
    BY <1>l, <1>t, <2>1, FrameTypes
  <2>3. Sound(f)
    BY <1>l, <2>1 DEF Calling, Sound, Unspoilt
  <2>4. Faultless'
    <3>1. WithTop(f) \in Seq(Frame) /\ AllSound(WithTop(f))
      BY <1>l, <1>t, <2>1, <2>2, <2>3
    <3>2. Update(WithTop(f))
      BY <1>8 DEF StartNesting
    <3> QED  BY <1>f, <3>1, <3>2, SoundUpdate
  <2>5. /\ running' = Append(running, m) /\ selectors' = selectors \cup ({m} \cap Launcher)
        /\ outcome' = outcome
    BY <1>8 DEF StartNesting
  <2>6. /\ IsInjective(Append(running, m))
        /\ Range(Append(running, m)) = Range(running) \cup {m}
    BY <1>r, <2>1, AppendRange, OnceAppend DEF Once
  <2> QED  BY <2>4, <2>5, <2>6 DEF Once
<1>9. CASE StartReturns
  <2>1. IsInjective(running') /\ Range(running') = Range(running)
    <3>1. CASE Top.mod \in wanted /\ Top.mod \in Range(running)
      <4>1. PICK i \in 1..Len(running) :
              running[i] = Top.mod /\ RemoveFirst(running, Top.mod) = RemoveAt(running, i)
        BY <1>r, <3>1, RemoveFirstRange
      <4>2. /\ RemoveAt(running, i) \in Seq(ModuleSpec)
            /\ IsInjective(RemoveAt(running, i))
            /\ Range(RemoveAt(running, i)) = Range(running) \ {Top.mod}
        BY <1>r, <4>1, OnceRemove, RemoveAtRange DEF Once
      <4>3. Top.mod \in ModuleSpec
        BY <1>9, <1>t DEF StartReturns, InCall
      <4>4. /\ IsInjective(Append(RemoveAt(running, i), Top.mod))
            /\ Range(Append(RemoveAt(running, i), Top.mod))
                 = Range(RemoveAt(running, i)) \cup {Top.mod}
        BY <4>2, <4>3, AppendRange, OnceAppend
      <4>5. running' = Append(RemoveAt(running, i), Top.mod)
        BY <1>9, <3>1, <4>1 DEF StartReturns, MoveToEnd
      <4> QED  BY <3>1, <4>2, <4>4, <4>5
    <3>2. CASE ~(Top.mod \in wanted /\ Top.mod \in Range(running))
      BY <1>9, <3>2 DEF StartReturns, MoveToEnd, Once
    <3> QED  BY <3>1, <3>2
  <2>2. /\ stack' = WithTop(Loop(Top.errors)) /\ stack # <<>> /\ Top.op = "start"
        /\ UNCHANGED <<selectors, raising, outcome>>
    BY <1>9 DEF StartReturns, InCall, selection
  <2>3. Sound(Loop(Top.errors)) /\ Loop(Top.errors) \in Frame
    BY <1>t, <2>2, FrameTypes DEF Sound, Unspoilt, Loop
  <2> QED  BY <1>t, <2>1, <2>2, <2>3 DEF Once, Faultless
<1>11. CASE StopReturns
  <2>1. /\ stack' = WithTop(Loop(Top.errors)) /\ stack # <<>> /\ Top.op = "stop"
        /\ UNCHANGED <<running, selectors, raising, outcome>>
    BY <1>11 DEF StopReturns, InCall, selection
  <2>2. Sound(Loop(Top.errors)) /\ Loop(Top.errors) \in Frame
    BY <1>t, <2>1, FrameTypes DEF Sound, Unspoilt, Loop
  <2> QED  BY <1>t, <2>1, <2>2 DEF Once, Faultless
<1>12. CASE Finish
  <2>1. /\ stack' = Below /\ raising' = (Top.errors # {}) /\ InLoop
        /\ UNCHANGED <<running, selectors, outcome>>
    BY <1>12 DEF Finish, selection
  <2> QED  BY <1>l, <1>t, <2>1 DEF Once, Faultless
<1>15. CASE Event \/ LockCommand \/ Unlock \/ Shutdown
            \/ \E s \in Session : Attach(s) \/ Detach(s)
  <2>1. PICK op \in {"task", "attach"}, m \in ModuleSpec : Update(<<Task(op, m)>>)
    BY <1>15, <1>k
    DEF Event, LockCommand, Unlock, Shutdown, Attach, Detach, ModuleSpec, Nesting
  <2>2. Task(op, m) \in Frame /\ Sound(Task(op, m))
    BY FrameTypes DEF Task, Sound, Unspoilt
  <2>3. <<Task(op, m)>> \in Seq(Frame) /\ AllSound(<<Task(op, m)>>)
    <3> HIDE DEF Task
    <3> QED  BY <2>2 DEF AllSound
  <2>4. running' = running /\ selectors' = selectors /\ outcome' = outcome
    BY <1>15 DEF Event, LockCommand, Unlock, Shutdown, Attach, Detach, selection
  <2> QED  BY <1>f, <2>1, <2>3, <2>4, SoundUpdate DEF Once
<1>16. CASE TaskEnds
  <2>1. stack' = <<>> /\ raising' = FALSE /\ UNCHANGED <<running, selectors>>
    BY <1>16 DEF TaskEnds, selection
  <2>2. stack # <<>> /\ ~raising
    BY <1>16 DEF TaskEnds, Faultless
  <2>3. Top.op # "undo"
    BY <1>t, <2>2 DEF Sound, Unspoilt
  <2>4. outcome' # "error"
    BY <1>16, <2>2, <2>3 DEF TaskEnds
  <2> QED  BY <2>1, <2>4 DEF Once, Faultless, AllSound
<1>17. CASE Flip \/ UNCHANGED vars
  BY <1>17 DEF Flip, vars, selection, faults, Once, Faultless
<1> QED
  BY <1>f, <1>1, <1>3, <1>5, <1>6, <1>8, <1>9, <1>11, <1>12, <1>15, <1>16, <1>17
  DEF Next, MainThread, Environment, Failing

\* While a task runs, what the registered launchers request in the running
\* sessions is wanted, unless Blankie is shutting down.
Served ==
  stack # <<>> => IF shuttingDown THEN wanted = {} ELSE Launched \subseteq wanted

\* Between two tasks, a launcher has its module in every running session.
LaunchedBetween ==
  stack = <<>> => \A c \in PerSession :
                    {c[1], c[2]} \subseteq Range(running) => c \in Range(running)

\* What is selected includes what the launchers request.
LEMMA SelectedServes ==
  IF shuttingDown THEN Selected = {} ELSE Launched \subseteq Selected
BY DEF Selected, WithDependencies, Requested

LEMMA SelectedServesNext ==
  (IF shuttingDown THEN Selected = {} ELSE Launched \subseteq Selected)'
BY SelectedServes, PTL

\* As long as nothing fails, every step runs the selectors, or leaves them, and
\* the sessions in which the launchers are served, alone.
LEMMA ServedStep ==
  ASSUME MaxFailures = 0, Misfit = {}, TypeOK, SelectionInv, Faultless, Once,
         outcome # "error", Served, LaunchedBetween, [Next]_vars
  PROVE  Served' /\ LaunchedBetween'
<1> USE DEF SelectionInv
<1>f. ~Fail /\ Faultless'
  BY NothingFails, FaultlessStep
<1>a. stack \in Seq(Frame)
  BY DEF TypeOK
<1>p. \A c \in PerSession : c[1] \in Launcher /\ c[2] \in Session
  BY KindsAssumption
<1>e. ASSUME stack # <<>>, NEW E \in SUBSET ModuleSpec
      PROVE  Loop(E) \in Frame /\ WithTop(Loop(E)) # <<>>
  <2>1. Loop(E) \in Frame
    BY FrameTypes DEF Loop
  <2> QED  BY <1>a, <1>e, <2>1, StoppingOfWithTop
<1>b. stack # <<>> => Top.errors \subseteq ModuleSpec
  BY <1>a, StackTop DEF Frame
<1>1. CASE Updates
  <2>1. PICK frames \in Seq(Frame) :
          frames # <<>> /\ Grounded(frames) /\ Update(frames)
    BY <1>1 DEF Updates
  <2>2. stack' # <<>>
    BY <2>1, UpdateEffect
  <2>3. wanted' = Selected'
    BY <1>f, <2>1 DEF Update
  <2> QED  BY <2>2, <2>3, SelectedServesNext DEF Served, LaunchedBetween
<1>2. ASSUME Unselected, SameSessions PROVE Launched' = Launched
  BY <1>p, <1>2 DEF Launched, Unselected, SameSessions
<1>3. CASE Unselected /\ Goes
  <2>1. stack = <<>> => running' = running
    BY <1>3 DEF Goes, InLoop
  <2> QED  BY <1>2, <1>3, <2>1 DEF Served, LaunchedBetween, Unselected, Goes
<1>4. CASE Unselected /\ Resumes
  <2>1. stack # <<>> /\ stack' # <<>> /\ SameSessions
    BY <1>b, <1>e, <1>4 DEF Resumes
  <2> QED  BY <1>2, <1>4, <2>1 DEF Served, LaunchedBetween, Unselected
<1>5. CASE Unselected /\ Finish
  <2>1. stack # <<>> /\ Top.op = "loop" /\ stack' = Below /\ running' = running
    BY <1>5 DEF Finish, InLoop
  <2>2. stack' # <<>>
    BY <1>a, <2>1, GroundedStack DEF EventOps
  <2>3. SameSessions
    BY <2>1 DEF SameSessions
  <2> QED  BY <1>2, <1>5, <2>1, <2>2, <2>3 DEF Served, LaunchedBetween, Unselected
<1>6. CASE Unselected /\ TaskEnds
  <2>1. stack # <<>> /\ Top.op # "loop" /\ stack' = <<>> /\ running' = running
    <3>1. Len(stack) = 1 /\ stack' = <<>> /\ running' = running
      BY <1>6 DEF TaskEnds
    <3>2. Top.op # "loop"
      BY <1>6 DEF TaskEnds
    <3> QED  BY <3>1, <3>2
  <2>2. Range(running) = wanted
    BY <1>6, <2>1 DEF Returned, Faultless
  <2>3. ASSUME NEW c \in PerSession, {c[1], c[2]} \subseteq Range(running)
        PROVE  c \in Range(running)
    <3>1. ~shuttingDown /\ Launched \subseteq wanted
      BY <2>1, <2>2, <2>3 DEF Served
    <3>2. c[1] \in selectors
      BY <1>p, <2>3 DEF Once
    <3> QED  BY <2>2, <2>3, <3>1, <3>2 DEF Launched
  <2> QED  BY <2>1, <2>3 DEF Served, LaunchedBetween
<1>7. CASE Raises
  BY <1>f, <1>7 DEF Raises, Faultless
<1>8. CASE Records
  <2>1. PICK m \in ModuleSpec : stack' = WithTop(Loop(Top.errors \cup {m}))
    BY <1>8 DEF Records
  <2>2. Top.errors \cup {m} \in SUBSET ModuleSpec /\ stack # <<>>
    BY <1>b, <1>8 DEF Records
  <2>3. Loop(Top.errors \cup {m}) \in Frame
    BY <1>e, <2>2
  <2>4. /\ stack' \in Seq(Frame) /\ Len(stack') = Len(stack)
        /\ stack'[Len(stack)] = Loop(Top.errors \cup {m})
    BY <1>a, <2>1, <2>2, <2>3, TopReplaced
  <2>5. Len(stack) \in DOMAIN stack'
    BY <1>a, <2>2, <2>4, EmptySeq, LenProperties
  <2>6. Sound(Loop(Top.errors \cup {m}))
    BY <1>f, <2>4, <2>5 DEF Faultless, AllSound
  <2> QED  BY <2>6 DEF Sound, Unspoilt, Loop
<1> QED
  BY <1>1, <1>3, <1>4, <1>5, <1>6, <1>7, <1>8, StepKinds

\* What holds as long as nothing fails.
OrderlyInv ==
  Faultless /\ Once /\ outcome # "error" /\ Served /\ LaunchedBetween

LEMMA OrderlyAlways ==
  ASSUME MaxFailures = 0, Misfit = {}
  PROVE  Spec => [](TypeOK /\ SelectionInv /\ OrderlyInv)
<1>1. Init => OrderlyInv
  BY DEF Init, OrderlyInv, Faultless, AllSound, Once, IsInjective, Served,
         LaunchedBetween, Range
<1>2. TypeOK /\ SelectionInv /\ OrderlyInv /\ [Next]_vars => OrderlyInv'
  BY FaultlessStep, ServedStep DEF OrderlyInv
<1> QED  BY <1>1, <1>2, SelectionAlways, PTL DEF Spec

\* If nothing fails, every launcher has its module in every running session when
\* a task ends, however the starts and stops of launchers and sessions nest
\* (session.py:82-83).
THEOREM LaunchersServe ==
  ASSUME MaxFailures = 0, Misfit = {}
  PROVE  Spec => []LaunchersLaunch
<1>1. OrderlyInv => LaunchersLaunch
  BY DEF OrderlyInv, LaunchersLaunch, LaunchedBetween, Settled
<1> QED  BY <1>1, OrderlyAlways, PTL

(***************************************************************************)
(* Tasks in which nothing new fails, after any failures.  A launcher that  *)
(* has lost its selector stays on the list without it, and while there is  *)
(* none, only a new failure makes an update raise.                         *)
(***************************************************************************)

\* No step gives a launcher that lost its selector the selector again, or takes
\* it off the list.
LEMMA LostStep ==
  ASSUME TypeOK, [Next]_vars
  PROVE  Lost \subseteq Lost'
<1>k. /\ Leaf \cap Launcher = {} /\ Lock \notin Launcher /\ Lock \in ModuleSpec
      /\ Leaf \cup Session \cup Launcher \subseteq ModuleSpec
  BY KindsAssumption DEF Nesting, ModuleSpec
<1>r. /\ running \in Seq(ModuleSpec) /\ DOMAIN running = 1..Len(running)
      /\ \A i \in DOMAIN running : running[i] \in ModuleSpec /\ i \in Nat \ {0}
      /\ \A i \in DOMAIN running :
           Range(running) \ {running[i]} \subseteq Range(RemoveAt(running, i))
      /\ \A m \in ModuleSpec : Range(Append(running, m)) = Range(running) \cup {m}
  <2>1. running \in Seq(ModuleSpec)
    BY DEF TypeOK
  <2>2. DOMAIN running = 1..Len(running)
    BY <2>1, LenProperties
  <2>3. \A i \in DOMAIN running : running[i] \in ModuleSpec /\ i \in Nat \ {0}
    BY <2>1, <2>2, ElementOfSeq
  <2>4. \A i \in DOMAIN running :
          Range(running) \ {running[i]} \subseteq Range(RemoveAt(running, i))
    BY <2>1, <2>2, RemoveAtRange
  <2>5. \A m \in ModuleSpec : Range(Append(running, m)) = Range(running) \cup {m}
    BY <2>1, AppendRange
  <2> QED  BY <2>1, <2>2, <2>3, <2>4, <2>5
<1>t. ASSUME stack # <<>>
      PROVE  Top.mod \in ModuleSpec /\ Top.at \in Nat \ {0}
  <2>1. Top \in Frame
    BY <1>t, StackTop DEF TypeOK
  <2> QED  BY <2>1 DEF Frame
<1>m. \A m : ToStart(m) => m \in ModuleSpec /\ m \notin Range(running)
  BY DEF ToStart, TypeOK
<1>0. ASSUME running' = running, selectors' = selectors
      PROVE  Lost \subseteq Lost'
  BY <1>0 DEF Lost
<1>1. CASE Reconfigure
  <2>1. PICK p \in Replaceable(Reconfigurable), i \in DOMAIN running :
          running[i] = p[1] /\ running' = [running EXCEPT ![i] = p[2]]
    BY <1>1 DEF Reconfigure
  <2>2. p[1] \in Leaf /\ p[2] \in Leaf /\ p[2] \in ModuleSpec
    BY SelectionAssumption DEF Replaceable, ModuleSpec
  <2>3. (Range(running) \ {running[i]}) \cup {p[2]}
          \subseteq Range([running EXCEPT ![i] = p[2]])
    <3>1. running \in Seq(ModuleSpec) /\ i \in DOMAIN running /\ p[2] \in ModuleSpec
      BY <1>r, <2>2
    <3> QED  BY <3>1, ReplaceRange
  <2>4. selectors' = selectors
    BY <1>1 DEF Reconfigure, selection
  <2> QED  BY <1>k, <2>1, <2>2, <2>3, <2>4 DEF Lost
<1>2. ASSUME NEW i \in DOMAIN running, StopLeaf(i)
      PROVE  Lost \subseteq Lost'
  <2>1. /\ running' = RemoveAt(running, i) /\ running[i] \in Leaf
        /\ selectors' = selectors
    BY <1>2 DEF StopLeaf, OffList, selection
  <2> QED  BY <1>k, <1>r, <2>1 DEF Lost
<1>3. ASSUME NEW i \in DOMAIN running, StopNesting(i)
      PROVE  Lost \subseteq Lost'
  <2>1. /\ running' = RemoveAt(running, i)
        /\ selectors' = selectors \ {running[i]}
        /\ running[i] \in Launcher => running[i] \in selectors
    BY <1>3 DEF StopNesting, OffList
  <2> QED  BY <1>r, <2>1 DEF Lost
<1>4. ASSUME NEW m \in wanted, StartLeaf(m) \/ StartFails(m) \/ StartNesting(m)
      PROVE  Lost \subseteq Lost'
  <2>1. /\ running' = Append(running, m) /\ m \in ModuleSpec
        /\ m \notin Range(running) /\ selectors' \subseteq selectors \cup {m}
    BY <1>4, <1>m DEF StartLeaf, StartFails, StartNesting, selection
  <2> QED  BY <1>r, <2>1 DEF Lost
<1>5. CASE StartReturns
  <2>1. selectors' = selectors /\ running' = MoveToEnd(Top.mod) /\ stack # <<>>
    BY <1>5 DEF StartReturns, InCall, selection
  <2>2. CASE Top.mod \in wanted /\ Top.mod \in Range(running)
    <3> DEFINE s == RemoveFirst(running, Top.mod)
    <3>1. s \in Seq(ModuleSpec) /\ Range(running) \ {Top.mod} \subseteq Range(s)
      BY <1>r, <2>2, RemoveFirstRange
    <3>2. running' = Append(s, Top.mod)
      BY <2>1, <2>2 DEF MoveToEnd
    <3> HIDE DEF s
    <3>3. Range(Append(s, Top.mod)) = Range(s) \cup {Top.mod}
      BY <1>t, <2>1, <3>1, AppendRange
    <3> QED  BY <2>1, <3>1, <3>2, <3>3 DEF Lost
  <2>3. CASE ~(Top.mod \in wanted /\ Top.mod \in Range(running))
    BY <1>0, <2>1, <2>3 DEF MoveToEnd
  <2> QED  BY <2>2, <2>3
<1>6. CASE StopRaises
  <2>1. /\ selectors' = selectors /\ running' = PutBack(Top.at, Top.mod)
        /\ stack # <<>>
    BY <1>6 DEF StopRaises, InCall, selection
  <2>2. Range(PutBack(Top.at, Top.mod)) = Range(running) \cup {Top.mod}
    <3>1. running \in Seq(ModuleSpec) /\ Top.mod \in ModuleSpec /\ Top.at \in Nat \ {0}
      BY <1>r, <1>t, <2>1
    <3> QED  BY <3>1, PutBackRange
  <2> QED  BY <2>1, <2>2 DEF Lost
<1>7. ASSUME NEW i \in DOMAIN running, StopLeafFails(i) \/ StopLauncherAgain(i)
      PROVE  Lost \subseteq Lost'
  BY <1>0, <1>7 DEF StopLeafFails, StopLauncherAgain, selection
<1>8. CASE ReconfigureRaises \/ StartRaises \/ StopReturns \/ Finish \/ TaskEnds
  BY <1>0, <1>8
  DEF ReconfigureRaises, StartRaises, StopReturns, Finish, TaskEnds, selection
<1>9. CASE AttachFails \/ Event \/ LockCommand \/ Unlock \/ Shutdown
           \/ \E s \in Session : Attach(s) \/ Detach(s)
  BY <1>0, <1>9
  DEF AttachFails, Event, LockCommand, Unlock, Shutdown, Attach, Detach, selection
<1>10. CASE Flip \/ UNCHANGED vars
  BY <1>0, <1>10 DEF Flip, vars, selection
<1> QED
  BY <1>1, <1>2, <1>3, <1>4, <1>5, <1>6, <1>7, <1>8, <1>9, <1>10
  DEF Next, MainThread, Environment

\* A step in which nothing fails, of a task in which nothing has failed.
LEMMA FaultlessKept ==
  ASSUME TypeOK, Faultless, ~Fail, ~Failing, [Next]_vars
  PROVE  Faultless' /\ (outcome' = "error" => outcome = "error")
<1>k. Lock \in ModuleSpec /\ Session \subseteq ModuleSpec
  BY DEF Nesting, ModuleSpec
<1>r. \A i \in DOMAIN running : running[i] \in ModuleSpec /\ i \in Nat \ {0}
  BY LenProperties, ElementOfSeq DEF TypeOK
<1>t. ASSUME stack # <<>>
      PROVE  /\ Top.errors \subseteq ModuleSpec /\ Sound(Top) /\ AllSound(Below)
             /\ \A f \in Frame :
                  /\ WithTop(f) \in Seq(Frame)
                  /\ Sound(f) => AllSound(WithTop(f))
  BY <1>t, StackTop, StoppingOfWithTop, SoundStack DEF TypeOK, Frame, Faultless
<1>l. InLoop => stack # <<>> /\ Top.op = "loop" /\ Top.errors = {}
  BY <1>t DEF InLoop, Sound, Unspoilt
<1>1. ASSUME NEW op \in {"start", "stop"}, NEW m \in Nesting, NEW i \in Nat \ {0},
             InLoop, Update(WithTop(Calling(op, m, i)))
      PROVE  Faultless'
  <2> DEFINE f == Calling(op, m, i)
  <2>1. f \in Frame
    BY <1>1, <1>l, <1>t, FrameTypes DEF ModuleSpec
  <2>2. Sound(f)
    BY <1>1, <1>l DEF Calling, Sound, Unspoilt
  <2>3. WithTop(f) \in Seq(Frame) /\ AllSound(WithTop(f))
    BY <1>1, <1>l, <1>t, <2>1, <2>2
  <2> HIDE DEF f
  <2> QED  BY <1>1, <2>3, SoundUpdate DEF f
<1>2. ASSUME NEW i \in DOMAIN running, StopNesting(i)
      PROVE  Faultless' /\ outcome' = outcome
  <2>1. /\ InLoop /\ running[i] \in Nesting /\ outcome' = outcome
        /\ Update(WithTop(Calling("stop", running[i], i)))
    BY <1>2 DEF StopNesting, ToStop
  <2> QED  BY <1>1, <1>r, <2>1
<1>3. ASSUME NEW m \in wanted, StartNesting(m)
      PROVE  Faultless' /\ outcome' = outcome
  <2>1. /\ InLoop /\ m \in Nesting /\ outcome' = outcome
        /\ Update(WithTop(Calling("start", m, 1)))
    BY <1>3 DEF StartNesting, ToStart
  <2> QED  BY <1>1, <2>1
<1>4. CASE StartReturns \/ StopReturns
  <2>1. /\ stack' = WithTop(Loop(Top.errors)) /\ stack # <<>>
        /\ Top.op \in {"start", "stop"} /\ UNCHANGED <<raising, outcome>>
    BY <1>4 DEF StartReturns, StopReturns, InCall
  <2>2. Sound(Loop(Top.errors)) /\ Loop(Top.errors) \in Frame
    BY <1>t, <2>1, FrameTypes DEF Sound, Unspoilt, Loop
  <2> QED  BY <1>t, <2>1, <2>2 DEF Faultless
<1>5. CASE Finish
  <2>1. stack' = Below /\ raising' = (Top.errors # {}) /\ InLoop /\ outcome' = outcome
    BY <1>5 DEF Finish
  <2> QED  BY <1>l, <1>t, <2>1 DEF Faultless
<1>6. CASE Event \/ LockCommand \/ Unlock \/ Shutdown
           \/ \E s \in Session : Attach(s) \/ Detach(s)
  <2>1. PICK op \in {"task", "attach"}, m \in ModuleSpec :
          Update(<<Task(op, m)>>) /\ outcome' = outcome
    BY <1>6, <1>k DEF Event, LockCommand, Unlock, Shutdown, Attach, Detach
  <2>2. Task(op, m) \in Frame /\ Sound(Task(op, m))
    BY FrameTypes DEF Task, Sound, Unspoilt
  <2>3. <<Task(op, m)>> \in Seq(Frame) /\ AllSound(<<Task(op, m)>>)
    <3> HIDE DEF Task
    <3> QED  BY <2>2 DEF AllSound
  <2> QED  BY <2>1, <2>3, SoundUpdate
<1>7. CASE TaskEnds
  <2>1. stack' = <<>> /\ raising' = FALSE /\ stack # <<>> /\ ~raising
    BY <1>7 DEF TaskEnds, Faultless
  <2>2. Top.op # "undo"
    BY <1>t, <2>1 DEF Sound, Unspoilt
  <2>3. outcome' # "error"
    BY <1>7, <2>1, <2>2 DEF TaskEnds
  <2> QED  BY <2>1, <2>3 DEF Faultless, AllSound
<1>8. CASE Reconfigure \/ (\E i \in DOMAIN running : StopLeaf(i))
           \/ (\E m \in wanted : StartLeaf(m)) \/ Flip \/ UNCHANGED vars
  BY <1>8 DEF Reconfigure, StopLeaf, StartLeaf, Flip, vars, Faultless
<1> QED
  BY <1>2, <1>3, <1>4, <1>5, <1>6, <1>7, <1>8
  DEF Next, MainThread, Environment, Failing

\* What has failed in a task is remembered until the task ends.
LEMMA FaultRemembered ==
  [Next]_vars =>
    \/ TaskEnds
    \/ outcome' = outcome /\ (faulted' = faulted \/ faulted' = TRUE)
<1> SUFFICES ASSUME [Next]_vars, ~TaskEnds
             PROVE  outcome' = outcome /\ (faulted' = faulted \/ faulted' = TRUE)
  OBVIOUS
<1>1. ASSUME NEW frames, Update(frames)
      PROVE  faulted' = faulted \/ faulted' = TRUE
  BY <1>1 DEF Update, Fail, faults
<1>2. CASE Reconfigure \/ ReconfigureRaises \/ StartReturns \/ StartRaises
           \/ StopReturns \/ StopRaises \/ Finish \/ Flip \/ UNCHANGED vars
  BY <1>2
  DEF Reconfigure, ReconfigureRaises, StartReturns, StartRaises, StopReturns,
      StopRaises, Finish, Flip, vars, faults
<1>3. ASSUME NEW i \in DOMAIN running,
             StopLeaf(i) \/ StopLeafFails(i) \/ StopNesting(i) \/ StopLauncherAgain(i)
      PROVE  outcome' = outcome /\ (faulted' = faulted \/ faulted' = TRUE)
  BY <1>1, <1>3
  DEF StopLeaf, StopLeafFails, StopNesting, StopLauncherAgain, Fail, faults
<1>4. ASSUME NEW m \in wanted, StartLeaf(m) \/ StartFails(m) \/ StartNesting(m)
      PROVE  outcome' = outcome /\ (faulted' = faulted \/ faulted' = TRUE)
  BY <1>1, <1>4 DEF StartLeaf, StartFails, StartNesting, Fail, faults
<1>5. CASE AttachFails \/ Event \/ LockCommand \/ Unlock \/ Shutdown
           \/ \E s \in Session : Attach(s) \/ Detach(s)
  BY <1>1, <1>5 DEF AttachFails, Event, LockCommand, Unlock, Shutdown, Attach, Detach
<1> QED
  BY <1>2, <1>3, <1>4, <1>5 DEF Next, MainThread, Environment

\* An exception without a new failure is the work of a lost selector.
Excused ==
  /\ ~faulted /\ Lost = {} => Faultless
  /\ outcome = "error" => Lost # {}

LEMMA ExcusedStep ==
  ASSUME Misfit = {}, TypeOK, Excused, [Next]_vars
  PROVE  Excused'
<1>1. Lost \subseteq Lost'
  BY LostStep
<1>2. CASE Lost # {}
  <2>1. Lost' # {}
    BY <1>1, <1>2
  <2> QED  BY <2>1 DEF Excused
<1>3. CASE Lost = {} /\ ~TaskEnds /\ faulted'
  <2>1. outcome' = outcome
    BY <1>3, FaultRemembered
  <2>2. outcome' # "error"
    BY <1>3, <2>1 DEF Excused
  <2> QED  BY <1>3, <2>2 DEF Excused
<1>4. CASE TaskEnds /\ faulted
  <2>1. stack' = <<>> /\ raising' = FALSE /\ outcome' = "fault"
    BY <1>4, Zenon DEF TaskEnds
  <2>2. Faultless'
    BY <2>1 DEF Faultless, AllSound
  <2> QED  BY <2>1, <2>2 DEF Excused
<1>5. CASE Lost = {} /\ ~faulted /\ (TaskEnds \/ ~faulted')
  <2>1. Faultless /\ outcome # "error"
    BY <1>5 DEF Excused
  <2>2. ~Fail
    BY <1>5 DEF Fail, TaskEnds
  <2>3. ~Failing
    <3>1. ~ReconfigureRaises
      BY DEF ReconfigureRaises, Replaceable
    <3>2. ASSUME NEW i \in DOMAIN running, StopLeafFails(i) \/ StopLauncherAgain(i)
          PROVE  FALSE
      <4>1. running[i] \in Launcher \ selectors
        BY <2>2, <3>2 DEF StopLeafFails, StopLauncherAgain
      <4> QED  BY <1>5, <4>1 DEF Lost, Range
    <3>3. \A m : ~StartFails(m)
      BY <2>2 DEF StartFails
    <3>4. ~StartRaises /\ ~StopRaises /\ ~AttachFails
      BY <2>1 DEF Faultless, StartRaises, StopRaises, AttachFails
    <3> QED  BY <3>1, <3>2, <3>3, <3>4 DEF Failing
  <2>4. Faultless' /\ outcome' # "error"
    BY <2>1, <2>2, <2>3, FaultlessKept
  <2> QED  BY <2>4 DEF Excused
<1>6. CASE Lost = {} /\ ~TaskEnds /\ faulted /\ ~faulted'
  BY <1>6, FaultRemembered
<1> QED  BY <1>2, <1>3, <1>4, <1>5, <1>6

\* However many starts, stops and configurations have failed, a task in which
\* nothing new fails ends without an exception, unless a launcher has lost its
\* selector (module.py:28-31, session.py:113-115), if no reconfiguration raises.
THEOREM CleanTasksSucceed ==
  ASSUME Misfit = {}
  PROVE  Spec => []CleanTaskSucceeds
<1>1. Init => Excused
  BY DEF Init, Excused, Faultless, AllSound
<1>2. TypeOK /\ Excused /\ [Next]_vars => Excused'
  BY ExcusedStep
<1>3. Excused => CleanTaskSucceeds
  BY DEF Excused, CleanTaskSucceeds
<1> QED  BY <1>1, <1>2, <1>3, TypeCorrect, PTL DEF Spec

(***************************************************************************)
(* Dependencies.  As long as nothing fails, what a listed leaf module      *)
(* depends on is listed before it: stopping in reverse order then never    *)
(* takes a module from under another.                                      *)
(***************************************************************************)

\* A session has no dependencies; a module that reconfigure() replaces is
\* nobody's dependency, and one that it puts in its place has none.  In the
\* source only dbus, logind and remote_sender have dependencies, and only xset
\* and xbacklight reconfigure.
Independent ==
  /\ \A s \in Session : Requires[s] = {}
  /\ \A p \in Reconfigurable :
       Requires[p[2]] = {} /\ \A m \in ModuleSpec : p[1] \notin Requires[m]

Closed == \A m \in wanted : Requires[m] \subseteq wanted
Fed == \A m \in Range(running) \cap Leaf : Requires[m] \subseteq Range(running)
Ordered(s) ==
  \A j, k \in DOMAIN s : s[j] \in Leaf /\ s[k] \in Requires[s[j]] => k < j

\* The dependencies of what is selected are selected.
LEMMA SelectedClosed ==
  TypeOK => \A m \in Selected : Requires[m] \subseteq Selected
<1> SUFFICES ASSUME TypeOK PROVE \A m \in Selected : Requires[m] \subseteq Selected
  OBVIOUS
<1>1. /\ Core \subseteq ModuleSpec /\ sessionSpecs \subseteq ModuleSpec
      /\ Launched \subseteq ModuleSpec /\ LockSelected \subseteq ModuleSpec
  BY SelectionAssumption
  DEF TypeOK, Launched, LockSelected, ModuleSpec, Leaf, Nesting
<1>2. ConfigSelected \subseteq ModuleSpec
  <2>1. idle \in BOOLEAN /\ locked \in BOOLEAN
    BY Zenon DEF TypeOK
  <2>2. ConfigSelected \subseteq Plain \cup Launcher \cup {Lock}
    BY <2>1, ConfigType, Zenon DEF ConfigSelected
  <2> QED  BY <2>2 DEF ModuleSpec, Leaf, Nesting
<1>3. Requested \subseteq ModuleSpec
  BY <1>1, <1>2 DEF Requested
<1>4. \A m \in ModuleSpec : \A d \in Requires[m] : Requires[d] \subseteq Requires[m]
  BY SelectionAssumption
<1>5. \A m \in WithDependencies(Requested) :
        Requires[m] \subseteq WithDependencies(Requested)
  BY <1>3, <1>4 DEF WithDependencies
<1> QED  BY <1>5 DEF Selected

LEMMA SelectedClosedNext ==
  (TypeOK => \A m \in Selected : Requires[m] \subseteq Selected)'
BY SelectedClosed, PTL

\* Removing keeps the order; so does appending what nothing listed depends on.
LEMMA OrderedRemove ==
  ASSUME NEW s \in Seq(ModuleSpec), NEW i \in 1..Len(s), Ordered(s)
  PROVE  Ordered(RemoveAt(s, i))
<1> DEFINE t == RemoveAt(s, i)
           at(j) == IF j < i THEN j ELSE j+1
<1>1. /\ DOMAIN s = 1..Len(s) /\ DOMAIN t = 1..Len(s)-1 /\ Len(s) \in Nat
      /\ \A j \in 1..Len(s)-1 : t[j] = IF j < i THEN s[j] ELSE s[j+1]
  BY RemoveAtElements, LenProperties
<1>2. \A j \in 1..Len(s)-1 : at(j) \in 1..Len(s) /\ t[j] = s[at(j)]
  BY <1>1
<1>3. \A j, k \in 1..Len(s)-1 : at(k) < at(j) => k < j
  BY <1>1
<1> HIDE DEF t, at
<1>4. Ordered(t)
  BY <1>1, <1>2, <1>3 DEF Ordered
<1> QED  BY <1>4 DEF t

LEMMA OrderedAppend ==
  ASSUME NEW s \in Seq(ModuleSpec), NEW e \in ModuleSpec, Ordered(s),
         \A m \in Range(s) \cap Leaf : e \notin Requires[m]
  PROVE  Ordered(Append(s, e))
<1>1. /\ DOMAIN s = 1..Len(s) /\ Len(s) \in Nat
      /\ DOMAIN Append(s, e) = 1..Len(s)+1
      /\ \A j \in 1..Len(s) : Append(s, e)[j] = s[j]
      /\ Append(s, e)[Len(s)+1] = e
  BY LenProperties, AppendProperties
<1>2. e \notin Requires[e]
  BY SelectionAssumption
<1>3. \A j \in 1..Len(s) : s[j] \in Range(s)
  BY <1>1 DEF Range
<1>4. ASSUME NEW j \in 1..Len(s)+1, NEW k \in 1..Len(s)+1,
             Append(s, e)[j] \in Leaf, Append(s, e)[k] \in Requires[Append(s, e)[j]]
      PROVE  k < j
  <2>1. (j \in 1..Len(s) \/ j = Len(s)+1) /\ (k \in 1..Len(s) \/ k = Len(s)+1)
    BY <1>1
  <2>2. CASE j \in 1..Len(s) /\ k \in 1..Len(s)
    BY <1>1, <1>4, <2>2 DEF Ordered
  <2>3. CASE j \in 1..Len(s) /\ k = Len(s)+1
    BY <1>1, <1>3, <1>4, <2>3
  <2>4. CASE j = Len(s)+1
    <3>1. k # Len(s)+1
      BY <1>1, <1>2, <1>4, <2>4
    <3> QED  BY <1>1, <2>1, <2>4, <3>1
  <2> QED  BY <2>1, <2>2, <2>3, <2>4
<1> QED  BY <1>1, <1>4 DEF Ordered

\* As long as nothing fails, no step takes a dependency from under its module.
LEMMA OrderStep ==
  ASSUME MaxFailures = 0, Misfit = {}, Independent, TypeOK, TypeOK',
         Grounded(stack), Faultless, Once, Closed, Fed, Ordered(running),
         [Next]_vars
  PROVE  Closed' /\ Fed' /\ Ordered(running')
<1>f. ~Fail /\ ~Failing
  BY NothingFails
<1>k. /\ Leaf \cap Nesting = {} /\ Lock \in Nesting /\ Leaf \subseteq ModuleSpec
      /\ \A m \in ModuleSpec : Requires[m] \cap Nesting = {}
  BY KindsAssumption, SelectionAssumption DEF Nesting, ModuleSpec, Leaf
<1>r. /\ running \in Seq(ModuleSpec) /\ DOMAIN running = 1..Len(running)
      /\ \A i \in DOMAIN running :
           running[i] \in ModuleSpec /\ running[i] \in Range(running)
  BY LenProperties, ElementOfSeq DEF TypeOK, Range
<1>t. ASSUME stack # <<>>
      PROVE  Top.mod \in ModuleSpec /\ Sound(Top)
  BY <1>t, StackTop, SoundStack DEF TypeOK, Frame, Faultless
<1>c. Closed'
  <2>1. CASE Updates
    <3>1. wanted' = Selected'
      BY <1>f, <2>1 DEF Updates, Update
    <3> QED  BY <3>1, SelectedClosedNext DEF Closed
  <2>2. CASE Unselected
    BY <2>2 DEF Unselected, Closed
  <2> QED  BY <2>1, <2>2, StepKinds
<1>x. ASSUME NEW i \in DOMAIN running,
             \A m \in Range(running) \cap Leaf :
               m # running[i] => running[i] \notin Requires[m]
      PROVE  /\ Ordered(RemoveAt(running, i))
             /\ Range(RemoveAt(running, i)) = Range(running) \ {running[i]}
             /\ \A m \in Range(RemoveAt(running, i)) \cap Leaf :
                  Requires[m] \subseteq Range(RemoveAt(running, i))
  <2>1. Ordered(RemoveAt(running, i))
    BY <1>r, OrderedRemove
  <2>2. Range(RemoveAt(running, i)) = Range(running) \ {running[i]}
    BY <1>r, OnceRemove DEF Once
  <2> QED  BY <1>x, <2>1, <2>2 DEF Fed
<1>1. CASE Reconfigure
  <2>1. PICK p \in Replaceable(Reconfigurable), i \in DOMAIN running :
          running[i] = p[1] /\ running' = [running EXCEPT ![i] = p[2]]
    BY <1>1 DEF Reconfigure
  <2>2. /\ p[1] \in Leaf /\ p[2] \in Leaf /\ p[2] \in ModuleSpec
        /\ p[2] \notin Range(running) /\ Requires[p[2]] = {}
        /\ \A m \in ModuleSpec : p[1] \notin Requires[m]
    BY SelectionAssumption DEF Replaceable, ModuleSpec, Independent
  <2>3. (Range(running) \ {running[i]}) \cup {p[2]} \subseteq Range(running')
    <3>1. running \in Seq(ModuleSpec) /\ i \in DOMAIN running /\ p[2] \in ModuleSpec
      BY <1>r, <2>2
    <3>2. (Range(running) \ {running[i]}) \cup {p[2]}
            \subseteq Range([running EXCEPT ![i] = p[2]])
      BY <3>1, ReplaceRange
    <3> QED  BY <2>1, <3>2
  <2>4. Range(running') \subseteq Range(running) \cup {p[2]}
    <3>1. running \in Seq(ModuleSpec) /\ i \in DOMAIN running /\ p[2] \in ModuleSpec
      BY <1>r, <2>2
    <3>2. Range([running EXCEPT ![i] = p[2]]) \subseteq Range(running) \cup {p[2]}
      BY <3>1, ReplaceRange
    <3> QED  BY <2>1, <3>2
  <2>5. Fed'
    <3>1. ASSUME NEW m \in Range(running') \cap Leaf
          PROVE  Requires[m] \subseteq Range(running')
      BY <1>k, <2>1, <2>2, <2>3, <2>4 DEF Fed
    <3> QED  BY <3>1 DEF Fed
  <2>6. /\ DOMAIN running' = DOMAIN running
        /\ \A j \in DOMAIN running :
             running'[j] = IF j = i THEN p[2] ELSE running[j]
    BY <2>1
  <2>7. ASSUME NEW j \in DOMAIN running, NEW k \in DOMAIN running,
               running'[j] \in Leaf, running'[k] \in Requires[running'[j]]
        PROVE  k < j
    <3>1. j # i
      BY <2>2, <2>6, <2>7
    <3>2. Requires[running[j]] \subseteq Range(running)
      BY <1>r, <2>6, <2>7, <3>1 DEF Fed
    <3>3. k # i
      BY <2>2, <2>6, <2>7, <3>1, <3>2
    <3> QED  BY <2>6, <2>7, <3>1, <3>3 DEF Ordered
  <2> QED  BY <1>c, <2>5, <2>6, <2>7 DEF Ordered
<1>3. ASSUME NEW i \in DOMAIN running, StopLeaf(i)
      PROVE  Fed' /\ Ordered(running')
  <2>1. /\ running' = RemoveAt(running, i) /\ running[i] \notin wanted
        /\ \A j \in Unwanted : j <= i
        /\ InLoop
    BY <1>3 DEF StopLeaf, OffList, ToStop, Unwanted
  <2>2. Top.errors = {}
    BY <1>t, <2>1 DEF InLoop, Sound, Unspoilt
  <2>3. ASSUME NEW m \in Range(running) \cap Leaf, running[i] \in Requires[m]
        PROVE  FALSE
    <3>1. PICK j \in DOMAIN running : running[j] = m
      BY DEF Range
    <3>2. i < j
      BY <2>3, <3>1 DEF Ordered
    <3>3. m \in wanted
      BY <1>r, <2>1, <2>2, <3>1, <3>2 DEF Unwanted
    <3> QED  BY <2>1, <2>3, <3>3 DEF Closed
  <2> QED  BY <1>x, <2>1, <2>3 DEF Fed
<1>5. ASSUME NEW i \in DOMAIN running, StopNesting(i)
      PROVE  Fed' /\ Ordered(running')
  <2>1. running' = RemoveAt(running, i) /\ running[i] \in Nesting
    BY <1>5 DEF StopNesting, OffList
  <2>2. \A m \in Range(running) \cap Leaf : running[i] \notin Requires[m]
    BY <1>k, <2>1
  <2> QED  BY <1>x, <2>1, <2>2 DEF Fed
<1>6. ASSUME NEW m \in wanted, StartLeaf(m) \/ StartNesting(m)
      PROVE  Fed' /\ Ordered(running')
  <2>1. /\ running' = Append(running, m) /\ m \in ModuleSpec
        /\ m \notin Range(running) /\ Requires[m] \cap wanted \subseteq Range(running)
    BY <1>6 DEF StartLeaf, StartNesting, ToStart, TypeOK
  <2>2. Range(running') = Range(running) \cup {m}
    BY <1>r, <2>1, AppendRange
  <2>3. Requires[m] \subseteq Range(running)
    BY <2>1 DEF Closed
  <2>4. Fed'
    BY <2>2, <2>3 DEF Fed
  <2>5. \A l \in Range(running) \cap Leaf : m \notin Requires[l]
    BY <2>1 DEF Fed
  <2>6. Ordered(Append(running, m))
    BY <1>r, <2>1, <2>5, OrderedAppend
  <2> QED  BY <2>1, <2>4, <2>6
<1>9. CASE StartReturns
  <2>1. CASE Top.mod \in wanted /\ Top.mod \in Range(running)
    <3>1. PICK i \in 1..Len(running) :
            running[i] = Top.mod /\ RemoveFirst(running, Top.mod) = RemoveAt(running, i)
      BY <1>r, <2>1, RemoveFirstRange
    <3>2. Top.mod \in Nesting /\ Top.mod \in ModuleSpec
      BY <1>9, <1>t DEF StartReturns, InCall, Sound
    <3>3. \A m \in Leaf : Top.mod \notin Requires[m]
      BY <1>k, <3>2
    <3> DEFINE s == RemoveAt(running, i)
    <3>4. /\ Ordered(s) /\ Range(s) = Range(running) \ {Top.mod}
          /\ \A m \in Range(s) \cap Leaf : Requires[m] \subseteq Range(s)
      BY <1>r, <1>x, <3>1, <3>3
    <3>5. s \in Seq(ModuleSpec)
      BY <1>r, RemoveAtRange
    <3> HIDE DEF s
    <3>6. Ordered(Append(s, Top.mod))
      BY <3>2, <3>3, <3>4, <3>5, OrderedAppend
    <3>7. Range(Append(s, Top.mod)) = Range(s) \cup {Top.mod}
      BY <3>2, <3>5, AppendRange
    <3>8. running' = Append(s, Top.mod)
      BY <1>9, <2>1, <3>1 DEF StartReturns, MoveToEnd, s
    <3>9. Fed'
      BY <1>k, <3>2, <3>4, <3>7, <3>8 DEF Fed
    <3> QED  BY <1>c, <3>6, <3>8, <3>9
  <2>2. CASE ~(Top.mod \in wanted /\ Top.mod \in Range(running))
    BY <1>9, <1>c, <2>2 DEF StartReturns, MoveToEnd, Fed
  <2> QED  BY <2>1, <2>2
<1>16. CASE \/ StopReturns \/ Finish \/ TaskEnds \/ Environment \/ UNCHANGED vars
  <2>1. running' = running
    BY <1>16 DEF StopReturns, Finish, TaskEnds, Environment, Event, LockCommand,
           Unlock, Shutdown, Attach, Detach, Flip, vars
  <2> QED  BY <1>c, <2>1 DEF Fed
<1> QED
  BY <1>c, <1>f, <1>1, <1>3, <1>5, <1>6, <1>9, <1>16 DEF Next, MainThread, Failing

\* As long as nothing fails, each module is listed, and will be stopped, once;
\* and what a module in force depends on is running, at each point of each
\* update (module.py:173-175, module.py:205-209).
THEOREM StopsInOrder ==
  ASSUME MaxFailures = 0, Misfit = {}, Independent
  PROVE  Spec => []ListIsOrdered
<1>1. Init => Closed /\ Fed /\ Ordered(running)
  BY DEF Init, Closed, Fed, Ordered, Range
<1>2. TypeOK /\ TypeOK' /\ SelectionInv /\ OrderlyInv
        /\ Closed /\ Fed /\ Ordered(running) /\ [Next]_vars
        => Closed' /\ Fed' /\ Ordered(running)'
  BY OrderStep DEF SelectionInv, OrderlyInv
<1>3. TypeOK /\ EffectsAreTracked /\ OrderlyInv /\ Fed => ListIsOrdered
  <2> SUFFICES ASSUME TypeOK, EffectsAreTracked, OrderlyInv, Fed
               PROVE  ListIsOrdered
    OBVIOUS
  <2>1. ASSUME NEW m \in inForce PROVE Requires[m] \subseteq Range(running)
    <3>1. CASE m \in Leaf
      BY <3>1 DEF EffectsAreTracked, Fed
    <3>2. CASE m \in Session
      BY <3>2 DEF Independent
    <3> QED  BY <3>1, <3>2 DEF TypeOK
  <2> QED  BY <2>1
    DEF ListIsOrdered, DependenciesRunning, NoDuplicates, OrderlyInv, Once
<1> QED  BY <1>1, <1>2, <1>3, OrderlyAlways, SelectionAlways, PTL DEF Spec

(***************************************************************************)
(* Stopping once, whatever starts, stops and reconfigurations fail: in a   *)
(* task, and while the configuration is steady, what decides whether a     *)
(* session, a launcher or the lock module is wanted changes at most once,  *)
(* when the system becomes locked.                                         *)
(***************************************************************************)

\* What is wanted, of the modules that call update().
WantedSteady ==
  stack # <<>> =>
    IF shuttingDown THEN wanted = {} ELSE
      /\ wanted \cap Session = sessionSpecs
      /\ wanted \cap Launcher = Launcher \cap (Core \cup ConfigSelected)
      /\ Lock \in wanted <=> Lock \in ConfigSelected \cup LockSelected

\* A session and the lock module are listed once, and not while being stopped.  A
\* launcher being stopped is not wanted, and has no selector to remove, unless
\* it has come to be wanted because the system is locked now.
ListedOnce(s) ==
  \A j, k \in DOMAIN s : s[j] = s[k] /\ s[j] \in Session \cup {Lock} => j = k

StopsOnce(st) ==
  \A j, k \in DOMAIN st :
    (st[j].op = "stop" /\ st[k].op = "stop" /\ st[j].mod = st[k].mod) => j = k

OffTheList ==
  \A x \in Stopping :
    /\ x \in Nesting
    /\ x \in Session \cup {Lock} => x \notin wanted \cup Range(running)
    /\ x \in Launcher => \/ x \notin wanted \cup selectors
                         \/ ~shuttingDown /\ locked /\ x \in wanted

LockQuiet == Lock \in Stopping => shuttingDown \/ ~locked

SteeredInv ==
  WantedSteady /\ ListedOnce(running) /\ StopsOnce(stack) /\ OffTheList /\ LockQuiet

LEMMA ListedOnceAppend ==
  ASSUME NEW s \in Seq(ModuleSpec), NEW e \in ModuleSpec, ListedOnce(s),
         e \in Session \cup {Lock} => e \notin Range(s)
  PROVE  ListedOnce(Append(s, e))
<1>1. /\ DOMAIN s = 1..Len(s) /\ Len(s) \in Nat
      /\ DOMAIN Append(s, e) = 1..Len(s)+1
      /\ \A j \in 1..Len(s) : Append(s, e)[j] = s[j]
      /\ Append(s, e)[Len(s)+1] = e
  BY LenProperties, AppendProperties
<1>2. \A j \in 1..Len(s) : s[j] \in Range(s)
  BY <1>1 DEF Range
<1>3. ASSUME NEW j \in 1..Len(s)+1, NEW k \in 1..Len(s)+1,
             Append(s, e)[j] = Append(s, e)[k], Append(s, e)[j] \in Session \cup {Lock}
      PROVE  j = k
  <2>1. (j \in 1..Len(s) \/ j = Len(s)+1) /\ (k \in 1..Len(s) \/ k = Len(s)+1)
    BY <1>1
  <2>2. CASE j \in 1..Len(s) /\ k \in 1..Len(s)
    BY <1>1, <1>3, <2>2 DEF ListedOnce
  <2>3. CASE j = Len(s)+1
    BY <1>1, <1>2, <1>3, <2>1, <2>3
  <2>4. CASE k = Len(s)+1
    BY <1>1, <1>2, <1>3, <2>1, <2>4
  <2> QED  BY <2>1, <2>2, <2>3, <2>4
<1> QED  BY <1>1, <1>3 DEF ListedOnce

LEMMA ListedOnceRemove ==
  ASSUME NEW s \in Seq(ModuleSpec), NEW i \in 1..Len(s), ListedOnce(s)
  PROVE  /\ ListedOnce(RemoveAt(s, i))
         /\ s[i] \in Session \cup {Lock} => s[i] \notin Range(RemoveAt(s, i))
<1> DEFINE t == RemoveAt(s, i)
           at(j) == IF j < i THEN j ELSE j+1
<1>1. /\ DOMAIN s = 1..Len(s) /\ DOMAIN t = 1..Len(s)-1 /\ Len(s) \in Nat
      /\ \A j \in 1..Len(s)-1 : t[j] = IF j < i THEN s[j] ELSE s[j+1]
  BY RemoveAtElements, LenProperties
<1>2. \A j \in 1..Len(s)-1 : at(j) \in 1..Len(s) /\ at(j) # i /\ t[j] = s[at(j)]
  BY <1>1
<1>3. \A j, k \in 1..Len(s)-1 : at(j) = at(k) => j = k
  BY <1>1
<1> HIDE DEF t, at
<1>4. ListedOnce(t)
  BY <1>1, <1>2, <1>3 DEF ListedOnce
<1>5. s[i] \in Session \cup {Lock} => s[i] \notin Range(t)
  BY <1>1, <1>2 DEF ListedOnce, Range
<1> QED  BY <1>4, <1>5 DEF t

LEMMA ListedOnceReplace ==
  ASSUME NEW s \in Seq(ModuleSpec), NEW i \in DOMAIN s, NEW e \in Leaf, ListedOnce(s)
  PROVE  ListedOnce([s EXCEPT ![i] = e])
<1> DEFINE t == [s EXCEPT ![i] = e]
<1>1. DOMAIN t = DOMAIN s /\ \A j \in DOMAIN s : t[j] = IF j = i THEN e ELSE s[j]
  OBVIOUS
<1>2. e \notin Session \cup {Lock}
  BY KindsAssumption DEF Nesting
<1> HIDE DEF t
<1>3. ListedOnce(t)
  BY <1>1, <1>2 DEF ListedOnce
<1> QED  BY <1>3 DEF t

\* What putting back gives, in order.
LEMMA ListedOnceInsert ==
  ASSUME NEW s \in Seq(ModuleSpec), NEW i \in 1..Len(s)+1, NEW e \in ModuleSpec,
         ListedOnce(s), e \in Session \cup {Lock} => e \notin Range(s)
  PROVE  ListedOnce(InsertAt(s, i, e))
<1> DEFINE a == SubSeq(s, 1, i-1)
           b == SubSeq(s, i, Len(s))
<1>0. Len(s) \in Nat /\ DOMAIN s = 1..Len(s) /\ \A j \in 1..Len(s) : s[j] \in ModuleSpec
  BY LenProperties, ElementOfSeq
<1>1. a \in Seq(ModuleSpec) /\ Len(a) = i-1 /\ \A j \in 1..i-1 : a[j] = s[j]
  <2>1. \A j \in 1..i-1 : s[j] \in ModuleSpec
    BY <1>0
  <2>2. /\ a \in Seq(ModuleSpec)
        /\ Len(a) = IF 1 <= i-1 THEN (i-1) - 1 + 1 ELSE 0
        /\ \A j \in 1..(i-1)-1+1 : a[j] = s[1+j-1]
    BY <1>0, <2>1, SubSeqProperties
  <2> QED  BY <2>2
<1>2. /\ b \in Seq(ModuleSpec) /\ Len(b) = Len(s) - i + 1
      /\ \A j \in 1..Len(s)-i+1 : b[j] = s[i+j-1]
  <2>1. \A j \in i..Len(s) : s[j] \in ModuleSpec
    BY <1>0
  <2>2. /\ b \in Seq(ModuleSpec) /\ Len(b) = IF i <= Len(s) THEN Len(s) - i + 1 ELSE 0
        /\ \A j \in 1..Len(s)-i+1 : b[j] = s[i+j-1]
    BY <1>0, <2>1, SubSeqProperties
  <2>3. ~(i <= Len(s)) => Len(s) - i + 1 = 0
    BY <1>0
  <2> QED  BY <2>2, <2>3
<1>3. InsertAt(s, i, e) = (a \o <<e>>) \o b
  BY DEF InsertAt
<1> HIDE DEF a, b
<1>4. /\ a \o <<e>> \in Seq(ModuleSpec) /\ Len(a \o <<e>>) = i
      /\ \A j \in 1..i : (a \o <<e>>)[j] = IF j < i THEN s[j] ELSE e
  <2>1. <<e>> \in Seq(ModuleSpec) /\ Len(<<e>>) = 1 /\ <<e>>[1] = e
    OBVIOUS
  <2>2. /\ a \o <<e>> \in Seq(ModuleSpec) /\ Len(a \o <<e>>) = Len(a) + Len(<<e>>)
        /\ \A j \in 1..Len(a)+Len(<<e>>) :
             (a \o <<e>>)[j] = IF j <= Len(a) THEN a[j] ELSE <<e>>[j - Len(a)]
    BY <1>1, <2>1, ConcatProperties
  <2>3. Len(a \o <<e>>) = i
    BY <1>1, <2>1, <2>2
  <2>4. ASSUME NEW j \in 1..i
        PROVE  (a \o <<e>>)[j] = IF j < i THEN s[j] ELSE e
    <3>1. CASE j < i
      BY <1>1, <2>1, <2>2, <3>1
    <3>2. CASE j = i
      <4>1. j \in 1..Len(a)+Len(<<e>>) /\ ~(j <= Len(a)) /\ j - Len(a) = 1
        BY <1>0, <1>1, <2>1, <3>2
      <4>2. (a \o <<e>>)[j] = <<e>>[j - Len(a)]
        BY <2>2, <4>1
      <4>3. (a \o <<e>>)[j] = e
        BY <2>1, <4>1, <4>2, Zenon
      <4>4. ~(j < i)
        BY <3>2
      <4> QED  BY <4>3, <4>4
    <3>3. j < i \/ j = i
      BY <1>0
    <3> QED  BY <3>1, <3>2, <3>3, Zenon
  <2> QED  BY <2>2, <2>3, <2>4
<1> DEFINE d == a \o <<e>>
           t == d \o b
<1> HIDE DEF d
<1>5. /\ t \in Seq(ModuleSpec) /\ Len(t) = Len(s) + 1
      /\ \A j \in 1..Len(s)+1 :
           t[j] = IF j < i THEN s[j] ELSE IF j = i THEN e ELSE s[j-1]
  <2>1. /\ t \in Seq(ModuleSpec) /\ Len(t) = Len(d) + Len(b)
        /\ \A j \in 1..Len(d)+Len(b) :
             t[j] = IF j <= Len(d) THEN d[j] ELSE b[j - Len(d)]
    BY <1>2, <1>4, ConcatProperties DEF d
  <2>2. Len(d) = i /\ \A j \in 1..i : d[j] = IF j < i THEN s[j] ELSE e
    BY <1>4 DEF d
  <2> HIDE DEF t
  <2>3. Len(t) = Len(s) + 1
    BY <1>0, <1>2, <2>1, <2>2
  <2>4. ASSUME NEW j \in 1..Len(s)+1
        PROVE  t[j] = IF j < i THEN s[j] ELSE IF j = i THEN e ELSE s[j-1]
    <3>1. CASE j <= i
      BY <1>0, <1>2, <2>1, <2>2, <3>1
    <3>2. CASE j > i
      <4>1. j - i \in 1..Len(s)-i+1 /\ i + (j - i) - 1 = j - 1
        BY <1>0, <3>2
      <4>2. t[j] = b[j - i] /\ b[j - i] = s[i + (j - i) - 1]
        BY <1>0, <1>2, <2>1, <2>2, <3>2, <4>1
      <4> QED  BY <3>2, <4>1, <4>2
    <3> QED  BY <3>1, <3>2
  <2> QED  BY <2>1, <2>3, <2>4
<1> HIDE DEF t
<1>6. DOMAIN t = 1..Len(s)+1 /\ \A j \in 1..Len(s) : s[j] \in Range(s)
  BY <1>0, <1>5, LenProperties DEF Range
<1> DEFINE of(j) == IF j < i THEN j ELSE j-1
<1>7. \A j \in 1..Len(s)+1 : j # i => of(j) \in 1..Len(s) /\ t[j] = s[of(j)]
  BY <1>0, <1>5
<1>8. \A j, k \in 1..Len(s)+1 : j # i /\ k # i /\ of(j) = of(k) => j = k
  BY <1>0
<1>9. i \in 1..Len(s)+1 /\ t[i] = e
  BY <1>0, <1>5
<1> HIDE DEF of
<1>10. ASSUME NEW j \in 1..Len(s)+1, NEW k \in 1..Len(s)+1, t[j] = t[k],
              t[j] \in Session \cup {Lock}
       PROVE  j = k
  <2>1. CASE j # i /\ k # i
    BY <1>0, <1>7, <1>8, <1>10, <2>1 DEF ListedOnce
  <2>2. CASE j = i \/ k = i
    BY <1>6, <1>7, <1>9, <1>10, <2>2
  <2> QED  BY <2>1, <2>2
<1>11. ListedOnce(t)
  BY <1>6, <1>10 DEF ListedOnce
<1> QED  BY <1>3, <1>11 DEF t, d

\* The stack: no module is being stopped twice.
LEMMA StopsOnceStack ==
  ASSUME stack \in Seq(Frame), stack # <<>>, StopsOnce(stack)
  PROVE  /\ StopsOnce(Below)
         /\ \A f \in Frame :
              /\ f.op # "stop" \/ f.mod \notin Stopping => StopsOnce(WithTop(f))
              /\ Top.op = "stop" /\ f.op # "stop"
                   => Top.mod \notin StoppingIn(WithTop(f))
<1>1. Len(stack) \in Nat \ {0} /\ DOMAIN stack = 1..Len(stack)
  BY EmptySeq, LenProperties
<1>2. /\ DOMAIN Below = 1..Len(stack)-1
      /\ \A k \in 1..Len(stack)-1 : Below[k] = stack[k]
  <2>1. \A k \in 1..Len(stack)-1 : stack[k] \in Frame
    BY <1>1, ElementOfSeq
  <2> QED  BY <1>1, <2>1, SubSeqProperties, LenProperties DEF Below
<1>3. StopsOnce(Below)
  <2>1. \A k \in DOMAIN Below : k \in DOMAIN stack /\ Below[k] = stack[k]
    BY <1>1, <1>2
  <2> QED  BY <2>1 DEF StopsOnce
<1>4. ASSUME NEW f \in Frame
      PROVE  /\ f.op # "stop" \/ f.mod \notin Stopping => StopsOnce(WithTop(f))
             /\ Top.op = "stop" /\ f.op # "stop"
                  => Top.mod \notin StoppingIn(WithTop(f))
  <2>1. /\ DOMAIN WithTop(f) = DOMAIN stack
        /\ \A k \in DOMAIN stack :
             WithTop(f)[k] = IF k = Len(stack) THEN f ELSE stack[k]
    BY <1>1 DEF WithTop
  <2>2. \A k \in DOMAIN stack : stack[k].op = "stop" => stack[k].mod \in Stopping
    BY DEF Stopping, StoppingIn
  <2>3. Len(stack) \in DOMAIN stack
    BY <1>1
  <2>4. f.op # "stop" \/ f.mod \notin Stopping => StopsOnce(WithTop(f))
    BY <2>1, <2>2 DEF StopsOnce
  <2>5. Top.op = "stop" /\ f.op # "stop" => Top.mod \notin StoppingIn(WithTop(f))
    BY <2>1, <2>3 DEF StopsOnce, StoppingIn, Top
  <2> QED  BY <2>4, <2>5
<1> QED  BY <1>3, <1>4

LEMMA StopsOncePush ==
  ASSUME NEW st \in Seq(Frame), NEW f \in Frame, f.op # "stop", StopsOnce(st)
  PROVE  StopsOnce(Append(st, f))
<1>1. /\ DOMAIN st = 1..Len(st) /\ Len(st) \in Nat
      /\ DOMAIN Append(st, f) = 1..Len(st)+1
      /\ \A k \in 1..Len(st) : Append(st, f)[k] = st[k]
      /\ Append(st, f)[Len(st)+1] = f
  BY LenProperties, AppendProperties
<1>2. \A k \in 1..Len(st)+1 : Append(st, f)[k].op = "stop" =>
        k \in DOMAIN st /\ Append(st, f)[k] = st[k]
  BY <1>1
<1> QED  BY <1>1, <1>2 DEF StopsOnce

\* Of the modules that call update(), what is selected.
LEMMA SelectedNesting ==
  TypeOK =>
    IF shuttingDown THEN Selected = {} ELSE
      /\ Selected \cap Session = sessionSpecs
      /\ Selected \cap Launcher = Launcher \cap (Core \cup ConfigSelected)
      /\ Lock \in Selected <=> Lock \in ConfigSelected \cup LockSelected
<1> SUFFICES ASSUME TypeOK, ~shuttingDown
             PROVE  /\ Selected \cap Session = sessionSpecs
                    /\ Selected \cap Launcher = Launcher \cap (Core \cup ConfigSelected)
                    /\ Lock \in Selected <=> Lock \in ConfigSelected \cup LockSelected
  BY DEF Selected
<1>1. /\ Lock \notin Plain \cup Launcher \cup Session \cup PerSession
      /\ Session \cap (Plain \cup Launcher \cup PerSession) = {}
      /\ Launcher \cap (Plain \cup PerSession) = {}
      /\ Launcher \cup Session \cup {Lock} \cup Plain \cup PerSession = ModuleSpec
  BY KindsAssumption DEF ModuleSpec, Leaf, Nesting
<1>2. idle \in BOOLEAN /\ locked \in BOOLEAN
  BY Zenon DEF TypeOK
<1>3. ConfigSelected \subseteq Plain \cup Launcher \cup {Lock}
  BY <1>2, ConfigType, Zenon DEF ConfigSelected
<1>4. /\ Core \subseteq Plain \cup Launcher
      /\ \A m \in ModuleSpec : Requires[m] \subseteq Plain
  BY SelectionAssumption
<1>5. LockSelected \subseteq {Lock} /\ sessionSpecs \subseteq Session
      /\ Launched \subseteq PerSession
  BY DEF LockSelected, TypeOK, Launched
<1>6. /\ Requested \subseteq ModuleSpec
      /\ Requested \cap Session = sessionSpecs
      /\ Requested \cap Launcher = Launcher \cap (Core \cup ConfigSelected)
      /\ Lock \in Requested <=> Lock \in ConfigSelected \cup LockSelected
  BY <1>1, <1>3, <1>4, <1>5 DEF Requested
<1>7. /\ Requested \subseteq WithDependencies(Requested)
      /\ WithDependencies(Requested) \subseteq Requested \cup Plain
  BY <1>4, <1>6 DEF WithDependencies
<1>8. Selected = WithDependencies(Requested)
  BY DEF Selected
<1> QED  BY <1>1, <1>6, <1>7, <1>8

LEMMA SelectedNestingNext ==
  (TypeOK =>
    IF shuttingDown THEN Selected = {} ELSE
      /\ Selected \cap Session = sessionSpecs
      /\ Selected \cap Launcher = Launcher \cap (Core \cup ConfigSelected)
      /\ Lock \in Selected <=> Lock \in ConfigSelected \cup LockSelected)'
BY SelectedNesting, PTL

\* An update selects anew.
LEMMA SteadyUpdate ==
  ASSUME steady', TypeOK', NEW frames \in Seq(Frame), Update(frames)
  PROVE  WantedSteady' /\ (shuttingDown' => wanted' = {})
<1>1. wanted' = Selected'
  BY DEF Update
<1> QED  BY <1>1, SelectedNestingNext DEF WantedSteady

\* If the system was not locked or unlocked for it, an update within a task wants
\* of the modules that call update() what was wanted before.
LEMMA SameUpdate ==
  ASSUME steady', TypeOK', NEW frames \in Seq(Frame), Update(frames),
         stack # <<>>, WantedSteady, idle' = idle, shuttingDown' = shuttingDown,
         sessionSpecs' \subseteq sessionSpecs
  PROVE  /\ wanted' \cap Session \subseteq wanted
         /\ locked' = locked =>
              wanted' \cap (Launcher \cup {Lock}) = wanted \cap (Launcher \cup {Lock})
<1>1. /\ wanted' = Selected'
      /\ lockLoaded' = (lockLoaded \/ (~shuttingDown' /\ Lock \in ConfigSelected'))
  BY DEF Update
<1>2. CASE shuttingDown
  BY <1>2, SteadyUpdate DEF WantedSteady
<1>3. CASE ~shuttingDown
  <2>1. /\ wanted \cap Session = sessionSpecs
        /\ wanted \cap Launcher = Launcher \cap (Core \cup ConfigSelected)
        /\ Lock \in wanted <=> Lock \in ConfigSelected \cup LockSelected
    BY <1>3 DEF WantedSteady
  <2>2. /\ wanted' \cap Session = sessionSpecs'
        /\ wanted' \cap Launcher = Launcher \cap (Core \cup ConfigSelected')
        /\ Lock \in wanted' <=> Lock \in ConfigSelected' \cup LockSelected'
    BY <1>1, <1>3, SelectedNestingNext
  <2>3. wanted' \cap Session \subseteq wanted
    BY <2>1, <2>2
  <2>4. ASSUME locked' = locked
        PROVE  wanted' \cap (Launcher \cup {Lock}) = wanted \cap (Launcher \cup {Lock})
    <3>1. ConfigSelected' = ConfigSelected
      BY <2>4 DEF ConfigSelected
    <3>2. Lock \in ConfigSelected' \cup LockSelected'
            <=> Lock \in ConfigSelected \cup LockSelected
      BY <1>1, <1>3, <2>4, <3>1 DEF LockSelected
    <3> QED  BY <2>1, <2>2, <3>1, <3>2
  <2> QED  BY <2>3, <2>4
<1> QED  BY <1>2, <1>3

\* A step that runs no selector, and lists no session or lock module but one
\* that is wanted, or the one whose stop() has raised.
LEMMA SteadyList ==
  ASSUME UNCHANGED <<wanted, selection, lockLoaded, idle>>, stack # <<>>,
         WantedSteady, OffTheList, LockQuiet, Stopping' \subseteq Stopping,
         \A x \in Session \cup {Lock} :
           x \in Range(running') =>
             x \in Range(running) \/ x \in wanted \/ x \notin Stopping'
  PROVE  WantedSteady' /\ OffTheList' /\ LockQuiet'
<1>1. ConfigSelected' = ConfigSelected /\ LockSelected' = LockSelected
  BY DEF ConfigSelected, LockSelected, selection
<1>2. WantedSteady'
  BY <1>1 DEF WantedSteady, selection
<1>3. OffTheList'
  BY DEF OffTheList, selection
<1> QED  BY <1>2, <1>3 DEF LockQuiet, selection

\* Time passes, but not so that a launcher or the lock module comes or goes.
LEMMA SteadyFlip ==
  ASSUME steady', TypeOK, Flip, WantedSteady
  PROVE  WantedSteady'
<1>1. CASE stack = <<>>
  BY <1>1 DEF Flip, WantedSteady
<1>2. CASE stack # <<>>
  <2>4. ConfigSelected' \cap Nesting = ConfigSelected \cap Nesting
    BY <1>2, Zenon DEF Flip, SameMind
  <2>5. LockSelected' = LockSelected
    BY DEF Flip, LockSelected, selection
  <2>6. UNCHANGED <<stack, shuttingDown, wanted, sessionSpecs>>
    BY DEF Flip, selection
  <2>7. Launcher \subseteq Nesting /\ Lock \in Nesting
    BY DEF Nesting
  <2>8. /\ Launcher \cap (Core \cup ConfigSelected')
             = Launcher \cap (Core \cup ConfigSelected)
        /\ Lock \in ConfigSelected' \cup LockSelected'
             <=> Lock \in ConfigSelected \cup LockSelected
    BY <2>4, <2>5, <2>7
  <2> HIDE DEF ConfigSelected, LockSelected
  <2> QED  BY <2>6, <2>8 DEF WantedSteady
<1> QED  BY <1>1, <1>2

\* Whatever fails, no step stops again what is being stopped.
LEMMA SteeredStep ==
  ASSUME steady', TypeOK, TypeOK', LockLoaded, SteeredInv,
         [Next]_vars
  PROVE  SteeredInv'
<1> USE DEF SteeredInv
<1>k. /\ Nesting = Session \cup Launcher \cup {Lock} /\ Lock \in ModuleSpec
      /\ Leaf \cap (Session \cup {Lock}) = {} /\ Lock \notin Session \cup Launcher
      /\ Session \cap Launcher = {} /\ Nesting \subseteq ModuleSpec
  BY KindsAssumption DEF Nesting, ModuleSpec
<1>r. /\ running \in Seq(ModuleSpec) /\ DOMAIN running = 1..Len(running)
      /\ \A i \in DOMAIN running :
           /\ running[i] \in ModuleSpec /\ running[i] \in Range(running)
           /\ i \in Nat \ {0}
  BY LenProperties, ElementOfSeq DEF TypeOK, Range
<1>t. ASSUME stack # <<>>
      PROVE  /\ Top.errors \subseteq ModuleSpec /\ Top.mod \in ModuleSpec
             /\ Top.at \in Nat \ {0}
             /\ StopsOnce(Below) /\ StoppingIn(Below) \subseteq Stopping
             /\ Top.op = "stop" => Top.mod \in Stopping
             /\ \A f \in Frame :
                  /\ WithTop(f) \in Seq(Frame)
                  /\ f.op # "stop" =>
                       /\ StopsOnce(WithTop(f))
                       /\ StoppingIn(WithTop(f)) \subseteq Stopping
                       /\ Top.op = "stop" => Top.mod \notin StoppingIn(WithTop(f))
                  /\ f.op = "stop" /\ f.mod \notin Stopping =>
                       /\ StopsOnce(WithTop(f))
                       /\ StoppingIn(WithTop(f)) \subseteq Stopping \cup {f.mod}
  BY <1>t, StackTop, StoppingOfWithTop, StopsOnceStack DEF TypeOK, Frame
<1>l. InLoop => stack # <<>> /\ Top.op = "loop"
  BY DEF InLoop
<1>s. \A i : ToStop(i) => InLoop /\ running[i] \notin wanted
  BY DEF ToStop, Unwanted
<1>m. \A m : ToStart(m) => /\ InLoop /\ m \in ModuleSpec /\ m \in wanted
                           /\ m \notin Range(running)
  BY DEF ToStart, TypeOK
<1>e. \A E \in SUBSET ModuleSpec : Loop(E) \in Frame /\ Loop(E).op # "stop"
  BY FrameTypes DEF Loop
<1>p. ASSUME NEW frames \in Seq(Frame), StopsOnce(frames), Update(frames)
      PROVE  StopsOnce(stack') /\ Stopping' = StoppingIn(frames)
  <2>1. stack' = Append(frames, Loop({}))
    BY <1>p DEF Update
  <2> QED  BY <1>e, <1>p, <2>1, StopsOncePush, UpdateStopping
<1>1. CASE Reconfigure
  <2>1. PICK p \in Replaceable(Reconfigurable), i \in DOMAIN running :
          running[i] = p[1] /\ running' = [running EXCEPT ![i] = p[2]]
    BY <1>1 DEF Reconfigure
  <2>2. p[2] \in Leaf /\ p[2] \in ModuleSpec
    BY SelectionAssumption DEF Replaceable, ModuleSpec
  <2>3. Range([running EXCEPT ![i] = p[2]]) \subseteq Range(running) \cup {p[2]}
    <3>1. running \in Seq(ModuleSpec) /\ i \in DOMAIN running /\ p[2] \in ModuleSpec
      BY <1>r, <2>2
    <3> QED  BY <3>1, ReplaceRange
  <2>4. ListedOnce([running EXCEPT ![i] = p[2]])
    BY <1>r, <2>2, ListedOnceReplace
  <2>5. /\ UNCHANGED <<wanted, selection, lockLoaded, idle>> /\ stack' = stack
        /\ stack # <<>> /\ Stopping' = Stopping
    BY <1>1, <1>l DEF Reconfigure, Stopping, world
  <2>6. \A x \in Session \cup {Lock} : x \in Range(running') => x \in Range(running)
    BY <1>k, <2>1, <2>2, <2>3
  <2> QED  BY <2>1, <2>4, <2>5, <2>6, SteadyList
<1>3. ASSUME NEW i \in DOMAIN running, StopLeaf(i)
      PROVE  SteeredInv'
  <2>1. running' = RemoveAt(running, i)
    BY <1>3 DEF StopLeaf, OffList
  <2>2. ListedOnce(RemoveAt(running, i))
    BY <1>r, ListedOnceRemove
  <2>3. Range(RemoveAt(running, i)) \subseteq Range(running)
    BY <1>r, RemoveAtRange
  <2>4. /\ UNCHANGED <<wanted, selection, lockLoaded, idle>> /\ stack' = stack
        /\ stack # <<>> /\ Stopping' = Stopping
    BY <1>3, <1>l, <1>s DEF StopLeaf, Stopping, world
  <2> QED  BY <2>1, <2>2, <2>3, <2>4, SteadyList
<1>4. ASSUME NEW i \in DOMAIN running, StopLeafFails(i) \/ StopLauncherAgain(i)
      PROVE  SteeredInv'
  <2>1. /\ InLoop /\ running' = running
        /\ stack' = WithTop(Loop(Top.errors \cup {running[i]}))
        /\ UNCHANGED <<wanted, selection, lockLoaded, idle>>
    BY <1>4, <1>s DEF StopLeafFails, StopLauncherAgain, StopFailed, world
  <2>2. Top.errors \cup {running[i]} \subseteq ModuleSpec /\ stack # <<>>
    BY <1>l, <1>r, <1>t, <2>1
  <2>3. StopsOnce(stack') /\ Stopping' \subseteq Stopping
    BY <1>e, <1>t, <2>1, <2>2 DEF Stopping
  <2> QED  BY <2>1, <2>2, <2>3, SteadyList
<1>5. ASSUME NEW i \in DOMAIN running, StopNesting(i)
      PROVE  SteeredInv'
  <2> DEFINE m == running[i]
             f == Calling("stop", m, i)
  <2>1. /\ stack # <<>> /\ m \in Nesting /\ m \notin wanted /\ m \in Range(running)
        /\ m \in Launcher => m \in selectors
        /\ running' = RemoveAt(running, i) /\ selectors' = selectors \ {m}
        /\ sessionSpecs' = sessionSpecs /\ shuttingDown' = shuttingDown
        /\ idle' = idle /\ Update(WithTop(f))
    BY <1>5, <1>l, <1>r, <1>s DEF StopNesting, OffList
  <2>2. locked' = (locked /\ m # Lock)
    BY <1>5 DEF StopNesting
  <2>3. m \notin Stopping
    BY <1>k, <2>1 DEF OffTheList
  <2>4. f \in Frame /\ f.op = "stop" /\ f.mod = m
    BY <1>r, <1>t, <2>1, FrameTypes DEF Calling
  <2> HIDE DEF f, m
  <2>5. StopsOnce(stack') /\ Stopping' \subseteq Stopping \cup {m}
    BY <1>p, <1>t, <2>1, <2>3, <2>4
  <2>6. /\ ListedOnce(running') /\ Range(running') \subseteq Range(running)
        /\ m \in Session \cup {Lock} => m \notin Range(running')
    BY <1>r, <2>1, ListedOnceRemove, RemoveAtRange DEF m
  <2>7. ~shuttingDown => locked' = locked
    <3> SUFFICES ASSUME ~shuttingDown, m = Lock, locked PROVE FALSE
      BY <2>2, Zenon DEF TypeOK
    <3>1. lockLoaded
      BY <2>1 DEF LockLoaded, Listed
    <3> QED  BY <2>1, <3>1 DEF WantedSteady, LockSelected
  <2>8. /\ wanted' \cap Nesting \subseteq wanted
        /\ ~shuttingDown => wanted' \cap Launcher = wanted \cap Launcher
    <3>1. WithTop(f) \in Seq(Frame)
      BY <1>t, <2>1, <2>4
    <3>2. shuttingDown => wanted' = {}
      BY <2>1, <3>1, SteadyUpdate
    <3>3. /\ wanted' \cap Session \subseteq wanted
          /\ locked' = locked =>
               wanted' \cap (Launcher \cup {Lock}) = wanted \cap (Launcher \cup {Lock})
      BY <2>1, <3>1, SameUpdate
    <3> QED  BY <1>k, <2>7, <3>2, <3>3
  <2>9. OffTheList'
    <3>1. ASSUME NEW x \in Stopping'
          PROVE  /\ x \in Nesting
                 /\ x \in Session \cup {Lock} => x \notin wanted' \cup Range(running')
                 /\ x \in Launcher => \/ x \notin wanted' \cup selectors'
                                      \/ ~shuttingDown' /\ locked' /\ x \in wanted'
      <4>1. CASE x = m
        BY <1>k, <2>1, <2>6, <2>8, <4>1
      <4>2. CASE x \in Stopping
        <5>1. x \in Session \cup {Lock} => x \notin wanted' \cup Range(running')
          BY <1>k, <2>6, <2>8, <4>2 DEF OffTheList
        <5>2. x \in Launcher => \/ x \notin wanted' \cup selectors'
                                \/ ~shuttingDown' /\ locked' /\ x \in wanted'
          BY <1>k, <2>1, <2>7, <2>8, <4>2 DEF OffTheList
        <5> QED  BY <4>2, <5>1, <5>2 DEF OffTheList
      <4> QED  BY <2>5, <4>1, <4>2
    <3> QED  BY <3>1 DEF OffTheList
  <2>10. LockQuiet'
    BY <2>1, <2>2, <2>5 DEF LockQuiet
  <2>11. WantedSteady'
    <3>1. WithTop(f) \in Seq(Frame)
      BY <1>t, <2>1, <2>4
    <3> QED  BY <2>1, <3>1, SteadyUpdate
  <2> QED  BY <2>5, <2>6, <2>9, <2>10, <2>11
<1>6. ASSUME NEW m \in wanted, StartLeaf(m) \/ StartFails(m)
      PROVE  SteeredInv'
  <2>1. /\ InLoop /\ m \in ModuleSpec /\ m \notin Range(running)
        /\ running' = Append(running, m)
        /\ UNCHANGED <<wanted, selection, lockLoaded, idle>>
        /\ stack' = stack \/ stack' = Below
    BY <1>6, <1>m DEF StartLeaf, StartFails, world
  <2>2. ListedOnce(Append(running, m))
    BY <1>r, <2>1, ListedOnceAppend
  <2>3. Range(Append(running, m)) = Range(running) \cup {m}
    BY <1>r, <2>1, AppendRange
  <2>4. StopsOnce(stack') /\ Stopping' \subseteq Stopping
    BY <1>l, <1>t, <2>1 DEF Stopping
  <2> QED  BY <1>l, <2>1, <2>2, <2>3, <2>4, SteadyList
<1>8. ASSUME NEW m \in wanted, StartNesting(m)
      PROVE  SteeredInv'
  <2> DEFINE f == Calling("start", m, 1)
  <2>1. /\ stack # <<>> /\ m \in Nesting /\ m \in ModuleSpec /\ m \notin Range(running)
        /\ running' = Append(running, m)
        /\ selectors' = selectors \cup ({m} \cap Launcher)
        /\ sessionSpecs' = sessionSpecs /\ shuttingDown' = shuttingDown
        /\ idle' = idle /\ Update(WithTop(f))
    BY <1>8, <1>l, <1>m DEF StartNesting
  <2>2. locked' = (locked \/ m = Lock)
    BY <1>8 DEF StartNesting
  <2>3. f \in Frame /\ f.op # "stop"
    <3>1. f \in Frame
      BY <1>t, <2>1, FrameTypes
    <3> QED  BY <3>1 DEF Calling
  <2> HIDE DEF f
  <2>4. WithTop(f) \in Seq(Frame)
    BY <1>t, <2>1, <2>3
  <2>5. StopsOnce(stack') /\ Stopping' \subseteq Stopping
    BY <1>p, <1>t, <2>1, <2>3
  <2>6. /\ ListedOnce(running') /\ Range(running') = Range(running) \cup {m}
    BY <1>r, <2>1, ListedOnceAppend, AppendRange
  <2>7. ~shuttingDown
    BY <2>1 DEF WantedSteady
  <2>8. /\ wanted' \cap Session \subseteq wanted
        /\ locked' = locked =>
             wanted' \cap (Launcher \cup {Lock}) = wanted \cap (Launcher \cup {Lock})
    BY <2>1, <2>4, SameUpdate
  <2>9. locked /\ locked' => locked' = locked
    BY Zenon DEF TypeOK
  <2>10. m # Lock => locked' = locked
    BY <2>2, Zenon DEF TypeOK
  <2>11. locked' # locked => locked'
    BY <2>2, Zenon DEF TypeOK
  <2>12. OffTheList'
    <3>1. ASSUME NEW x \in Stopping'
          PROVE  /\ x \in Nesting
                 /\ x \in Session \cup {Lock} => x \notin wanted' \cup Range(running')
                 /\ x \in Launcher => \/ x \notin wanted' \cup selectors'
                                      \/ ~shuttingDown' /\ locked' /\ x \in wanted'
      <4>1. x \in Stopping
        BY <2>5
      <4>2. x \in Session \cup {Lock} => x \notin wanted' \cup Range(running')
        BY <2>6, <2>8, <2>10, <4>1 DEF OffTheList
      <4>3. ASSUME x \in Launcher
            PROVE  \/ x \notin wanted' \cup selectors'
                   \/ ~shuttingDown' /\ locked' /\ x \in wanted'
        <5>1. CASE x \notin wanted \cup selectors
          BY <2>1, <2>7, <2>8, <2>11, <4>3, <5>1
        <5>2. CASE locked /\ x \in wanted
          <6>1. locked'
            BY <2>2, <5>2
          <6> QED  BY <2>1, <2>7, <2>8, <2>9, <4>3, <5>2, <6>1
        <5> QED  BY <4>1, <4>3, <5>1, <5>2 DEF OffTheList
      <4> QED  BY <4>1, <4>2, <4>3 DEF OffTheList
    <3> QED  BY <3>1 DEF OffTheList
  <2>13. LockQuiet'
    BY <2>1, <2>5, <2>10 DEF LockQuiet, OffTheList
  <2>14. WantedSteady'
    BY <2>1, <2>4, SteadyUpdate
  <2> QED  BY <2>5, <2>6, <2>12, <2>13, <2>14
<1>9. CASE StartReturns
  <2>1. /\ stack # <<>> /\ stack' = WithTop(Loop(Top.errors))
        /\ UNCHANGED <<wanted, selection, lockLoaded, idle>>
    BY <1>9 DEF StartReturns, InCall, world
  <2>2. StopsOnce(stack') /\ Stopping' \subseteq Stopping
    BY <1>e, <1>t, <2>1 DEF Stopping
  <2>3. ListedOnce(running') /\ Range(running') \subseteq Range(running)
    <3>1. CASE Top.mod \in wanted /\ Top.mod \in Range(running)
      <4>1. PICK i \in 1..Len(running) :
              running[i] = Top.mod /\ RemoveFirst(running, Top.mod) = RemoveAt(running, i)
        BY <1>r, <3>1, RemoveFirstRange
      <4> DEFINE s == RemoveAt(running, i)
      <4>2. /\ s \in Seq(ModuleSpec) /\ ListedOnce(s) /\ Range(s) \subseteq Range(running)
            /\ Top.mod \in Session \cup {Lock} => Top.mod \notin Range(s)
        BY <1>r, <4>1, ListedOnceRemove, RemoveAtRange
      <4>3. Top.mod \in ModuleSpec
        BY <1>t, <2>1
      <4>4. running' = Append(s, Top.mod)
        BY <1>9, <3>1, <4>1 DEF StartReturns, MoveToEnd
      <4> HIDE DEF s
      <4>5. /\ ListedOnce(Append(s, Top.mod))
            /\ Range(Append(s, Top.mod)) = Range(s) \cup {Top.mod}
        BY <4>2, <4>3, ListedOnceAppend, AppendRange
      <4> QED  BY <3>1, <4>2, <4>4, <4>5
    <3>2. CASE ~(Top.mod \in wanted /\ Top.mod \in Range(running))
      BY <1>9, <3>2 DEF StartReturns, MoveToEnd
    <3> QED  BY <3>1, <3>2
  <2> QED  BY <2>1, <2>2, <2>3, SteadyList
<1>11. CASE StopReturns
  <2>1. /\ stack # <<>> /\ stack' = WithTop(Loop(Top.errors)) /\ running' = running
        /\ UNCHANGED <<wanted, selection, lockLoaded, idle>>
    BY <1>11 DEF StopReturns, InCall, world
  <2>2. StopsOnce(stack') /\ Stopping' \subseteq Stopping
    BY <1>e, <1>t, <2>1 DEF Stopping
  <2> QED  BY <2>1, <2>2, SteadyList
<1>12. CASE StopRaises
  <2>1. /\ stack # <<>> /\ Top.op = "stop" /\ running' = PutBack(Top.at, Top.mod)
        /\ stack' = WithTop(Loop(Top.errors \cup {Top.mod}))
        /\ UNCHANGED <<wanted, selection, lockLoaded, idle>>
    BY <1>12 DEF StopRaises, StopFailed, InCall, world
  <2>2. /\ Top.mod \in ModuleSpec /\ Top.at \in Nat \ {0}
        /\ Top.errors \cup {Top.mod} \subseteq ModuleSpec
    BY <1>t, <2>1
  <2>3. Range(PutBack(Top.at, Top.mod)) = Range(running) \cup {Top.mod}
    BY <1>r, <2>2, PutBackRange
  <2>4. /\ StopsOnce(stack') /\ Stopping' \subseteq Stopping
        /\ Top.mod \notin Stopping'
    BY <1>e, <1>t, <2>1, <2>2 DEF Stopping
  <2>5. Top.mod \in Session \cup {Lock} => Top.mod \notin Range(running)
    BY <1>t, <2>1 DEF OffTheList
  <2>6. ListedOnce(PutBack(Top.at, Top.mod))
    <3> DEFINE i == IF Top.at <= Len(running) THEN Top.at ELSE Len(running) + 1
    <3>1. i \in 1..Len(running)+1
      BY <1>r, <2>2, LenProperties
    <3>2. PutBack(Top.at, Top.mod) = InsertAt(running, i, Top.mod)
      BY DEF PutBack
    <3> HIDE DEF i
    <3> QED  BY <1>r, <2>2, <2>5, <3>1, <3>2, ListedOnceInsert
  <2>7. \A x \in Session \cup {Lock} :
          x \in Range(running') => x \in Range(running) \/ x \notin Stopping'
    BY <2>1, <2>3, <2>4
  <2> QED  BY <2>1, <2>4, <2>6, <2>7, SteadyList
<1>13. CASE Finish \/ ReconfigureRaises \/ StartRaises
  <2>1. /\ stack # <<>> /\ stack' = Below /\ running' = running
        /\ UNCHANGED <<wanted, selection, lockLoaded, idle>>
    BY <1>13, <1>l DEF Finish, ReconfigureRaises, StartRaises, InCall, world
  <2>2. StopsOnce(stack') /\ Stopping' \subseteq Stopping
    BY <1>t, <2>1 DEF Stopping
  <2> QED  BY <2>1, <2>2, SteadyList
<1>14. CASE AttachFails
  <2> DEFINE f == Task("undo", Top.mod)
  <2>1. /\ stack # <<>> /\ sessionSpecs' \subseteq sessionSpecs
        /\ UNCHANGED <<running, selectors, locked, shuttingDown, idle>>
        /\ Update(WithTop(f))
    BY <1>14 DEF AttachFails, InCall
  <2>2. f \in Frame /\ f.op # "stop"
    BY <1>t, <2>1, FrameTypes DEF Task
  <2> HIDE DEF f
  <2>3. WithTop(f) \in Seq(Frame)
    BY <1>t, <2>1, <2>2
  <2>4. StopsOnce(stack') /\ Stopping' \subseteq Stopping
    BY <1>p, <1>t, <2>1, <2>2
  <2>5. /\ wanted' \cap Session \subseteq wanted
        /\ wanted' \cap (Launcher \cup {Lock}) = wanted \cap (Launcher \cup {Lock})
    BY <2>1, <2>3, SameUpdate
  <2>6. OffTheList'
    BY <2>1, <2>4, <2>5 DEF OffTheList
  <2>7. WantedSteady'
    BY <2>1, <2>3, SteadyUpdate
  <2> QED  BY <2>1, <2>4, <2>6, <2>7 DEF LockQuiet
<1>15. CASE Event \/ LockCommand \/ Unlock \/ Shutdown
            \/ \E s \in Session : Attach(s) \/ Detach(s)
  <2>1. PICK op \in {"task", "attach"}, m \in ModuleSpec : Update(<<Task(op, m)>>)
    BY <1>15, <1>k DEF Event, LockCommand, Unlock, Shutdown, Attach, Detach
  <2>2. Task(op, m) \in Frame /\ Task(op, m).op # "stop"
    BY FrameTypes DEF Task
  <2>3. <<Task(op, m)>> \in Seq(Frame) /\ StoppingIn(<<Task(op, m)>>) = {}
        /\ StopsOnce(<<Task(op, m)>>)
    <3> HIDE DEF Task
    <3> QED  BY <2>2 DEF StoppingIn, StopsOnce
  <2>4. running' = running
    BY <1>15 DEF Event, LockCommand, Unlock, Shutdown, Attach, Detach
  <2>5. StopsOnce(stack') /\ Stopping' = {}
    BY <1>p, <2>1, <2>3
  <2>6. WantedSteady'
    BY <2>1, <2>3, SteadyUpdate
  <2> QED  BY <2>4, <2>5, <2>6 DEF OffTheList, LockQuiet
<1>16. CASE TaskEnds
  <2>1. stack' = <<>> /\ running' = running
    BY <1>16 DEF TaskEnds
  <2>2. Stopping' = {} /\ StopsOnce(stack')
    BY <2>1 DEF Stopping, StoppingIn, StopsOnce
  <2> QED  BY <2>1, <2>2 DEF WantedSteady, OffTheList, LockQuiet
<1>17. CASE Flip
  <2>1. UNCHANGED <<wanted, running, selectors, locked, shuttingDown, stack>>
    BY <1>17 DEF Flip, selection
  <2>2. Stopping' = Stopping
    BY <2>1 DEF Stopping
  <2> QED  BY <1>17, <2>1, <2>2, SteadyFlip DEF OffTheList, LockQuiet
<1>18. CASE UNCHANGED vars
  BY <1>18 DEF vars, selection, world, WantedSteady, OffTheList, LockQuiet, Stopping,
               ConfigSelected, LockSelected
<1> QED
  BY <1>1, <1>3, <1>4, <1>5, <1>6, <1>8, <1>9, <1>11, <1>12, <1>13, <1>14, <1>15,
     <1>16, <1>17, <1>18 DEF Next, MainThread, Environment

\* What has been unsteady stays so.
LEMMA SteadyBefore ==
  ASSUME [Next]_vars, steady'
  PROVE  steady
<1>1. ASSUME NEW frames, Update(frames)
      PROVE  steady
  BY <1>1 DEF Update, faults
<1>2. CASE Reconfigure \/ ReconfigureRaises \/ StartReturns \/ StartRaises
           \/ StopReturns \/ StopRaises \/ Finish \/ TaskEnds \/ UNCHANGED vars
  BY <1>2
  DEF Reconfigure, ReconfigureRaises, StartReturns, StartRaises, StopReturns,
      StopRaises, Finish, TaskEnds, vars, faults
<1>3. CASE Flip
  BY <1>3, Zenon DEF Flip
<1>4. ASSUME NEW i \in DOMAIN running,
             StopLeaf(i) \/ StopLeafFails(i) \/ StopNesting(i) \/ StopLauncherAgain(i)
      PROVE  steady
  BY <1>1, <1>4 DEF StopLeaf, StopLeafFails, StopNesting, StopLauncherAgain, faults
<1>5. ASSUME NEW m \in wanted, StartLeaf(m) \/ StartFails(m) \/ StartNesting(m)
      PROVE  steady
  BY <1>1, <1>5 DEF StartLeaf, StartFails, StartNesting, faults
<1>6. CASE AttachFails \/ Event \/ LockCommand \/ Unlock \/ Shutdown
           \/ \E s \in Session : Attach(s) \/ Detach(s)
  BY <1>1, <1>6 DEF AttachFails, Event, LockCommand, Unlock, Shutdown, Attach, Detach
<1> QED
  BY <1>2, <1>3, <1>4, <1>5, <1>6 DEF Next, MainThread, Environment

\* Whatever starts, stops and reconfigurations fail, a module being stopped is
\* not stopped again by the updates its stop() makes, until a configuration has
\* raised or has changed its mind within a task (module.py:173-175,
\* module.py:187-191).
THEOREM StoppedOnce == Spec => []NoReentrantStop
<1> DEFINE Steered == steady => LockLoaded /\ LockWanted /\ SteeredInv
<1>1. Init => Steered
  BY DEF Init, LockLoaded, LockWanted, Listed, Stopping, StoppingIn, Range,
         SteeredInv, WantedSteady, ListedOnce, StopsOnce, OffTheList, LockQuiet
<1>2. TypeOK /\ TypeOK' /\ SelectionInv /\ Steered /\ [Next]_vars => Steered'
  <2> SUFFICES ASSUME TypeOK, TypeOK', SelectionInv, Steered, [Next]_vars, steady'
               PROVE  LockLoaded' /\ LockWanted' /\ SteeredInv'
    OBVIOUS
  <2>1. LockLoaded /\ LockWanted /\ SteeredInv
    BY SteadyBefore
  <2>2. Grounded(stack)
    BY DEF SelectionInv
  <2>3. LockLoaded' /\ LockWanted'
    BY <2>1, <2>2, LockStep
  <2>4. SteeredInv'
    BY <2>1, SteeredStep
  <2> QED  BY <2>3, <2>4
<1>3. Steered => NoReentrantStop
  BY DEF SteeredInv, StopsOnce, NoReentrantStop
<1> HIDE DEF Steered
<1> QED  BY <1>1, <1>2, <1>3, SelectionAlways, PTL DEF Spec
=============================================================================
