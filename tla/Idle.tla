--------------------------------- MODULE Idle ---------------------------------
(***************************************************************************)
(* How Blankie learns that the user is idle, or no longer: sessions and    *)
(* their idle times (session/x11.py, session/tty.py, session/wake_lock.py, *)
(* get_idle_since of __init__.py), the events of xss and tty_idle, the     *)
(* thresholds of the configuration (config.py), and the timer (timer.py).  *)
(*                                                                         *)
(* A tick is a whole number of seconds, and everything else happens        *)
(* between two ticks.  A real idle time is therefore some fraction more    *)
(* than the age, a whole number, which stands for it: "idle_seconds <      *)
(* idle_time" is t <= age, and "idle_time < timeout" is age < t.           *)
(*                                                                         *)
(* X is external: its screen saver turns on when the session has been idle *)
(* for the time that xset has set, and off when there is input.  xset and  *)
(* xprintidle do not fail here, and the configuration function does not    *)
(* raise: it is other modules that make update() raise, and when.          *)
(***************************************************************************)
EXTENDS Integers, SequencesExt

CONSTANTS
  X11, TTY, WakeLock,  \* sessions by their kind
  Thresholds,   \* idle times
  Cases,        \* sessions that may come, with thresholds of the configuration,
                \* and whether modules may fail, which makes update() raise
  MayReattach,  \* whether a detached session may be attached again
  MaxLag,       \* bound: ticks while the main thread runs one task
  MaxEvents     \* bound: events of one X11 session under way

Session == X11 \cup TTY \cup WakeLock
Device == X11 \cup TTY

ASSUME KindsAssumption ==
  X11 \cap TTY = {} /\ WakeLock \cap Device = {}
ASSUME ThresholdsAssumption ==
  Thresholds # {} /\ IsFiniteSet(Thresholds) /\ Thresholds \subseteq Nat \ {0}
ASSUME CasesAssumption ==
  Cases \subseteq (SUBSET Session) \X (SUBSET Thresholds) \X BOOLEAN
ASSUME BoundsAssumption ==
  /\ MayReattach \in BOOLEAN
  /\ MaxLag \in Nat /\ MaxEvents \in Nat

Forever == Max(Thresholds)  \* longer idle times make no difference
Never == -1                 \* the idle time of who cannot become idle
Unknown == -1               \* the idle_since that invalidate() leaves

VARIABLES
  around,     \* the sessions that may come, which never changes
  asked,      \* the thresholds of the configuration, which never changes
  mayRaise,   \* whether modules may fail, which never changes
  age,        \* device sessions to the time since their last input, or 0
              \* while they are not attached
  saver,      \* X11 sessions whose screen saver is on
  xTimeout,   \* the time set by xset, or 0
  attached,   \* session_specs
  detached,   \* sessions that were detached (history)
  idle,       \* X11 sessions with the idle flag
  idleSince,  \* X11Session.idle_since, as the age it makes
  events,     \* X11 sessions to the lines of xss that are not handled yet
  watching,   \* TTY sessions whose inotify thread waits in read()
  ttyEvents,  \* TTY sessions with a queued tty_idle_handle_event
  sleeping,   \* state.sleeping
  passed,     \* thresholds for which is_idle_for was true in the last update
  timer,      \* the schedule of the running TimerModule, {} when none is
  waiting,    \* the threading.Timers that wait: of which module, how long yet,
              \* and whether its self.timer is it
  fired,      \* schedules of the modules with a queued timer_handle_done
  skipped,    \* thresholds of the running TimerModule that had gone by when
              \* it last started a timer (history)
  harm,       \* what update() has done to the running TimerModule by raising:
              \* "stale" if it has not synchronized the modules, "unarmed" if
              \* timer_handle_done has not started the next timer (history)
  task,       \* <<>>, or the task in which update() applies the configuration:
              \* <<schedule>> in timer_handle_done of that module, else <<{}>>
  lag         \* ticks during the task

user == <<age, saver>>
given == <<around, asked, mayRaise>>
seats == <<attached, detached>>
lines == <<events, watching, ttyEvents>>
timers == <<timer, waiting, fired, skipped, harm>>
vars == <<given, user, xTimeout, seats, idle, idleSince, lines, sleeping,
          passed, timers, task, lag>>
-----------------------------------------------------------------------------
\* get_idle_since() of a session, as an idle time
IdleOf(s) ==
  CASE s \in TTY -> age[s]
    [] s \in idle -> idleSince[s]
    [] OTHER -> Never

\* time.time() - blankie.get_idle_since()
IdleTime ==
  CASE sleeping -> Forever
    [] ~sleeping /\ attached = {} -> Never
    [] OTHER -> Min({IdleOf(s) : s \in attached})

Invalidated(S) == [s \in X11 |-> IF s \in S THEN Unknown ELSE idleSince[s]]

\* The idle sessions that xprintidle must be run for, when asked
Measured(known) ==
  [s \in X11 |->
     IF s \in attached' \cap idle' /\ ~sleeping' /\ known[s] = Unknown
     THEN age'[s] ELSE known[s]]

\* update(): Configurator.selector evaluates the configuration.
Update(handler, known) ==
  /\ idleSince' = Measured(known)
  /\ passed' = {t \in asked : t <= IdleTime'}
  /\ task' = <<handler>>
  /\ lag' = 0

\* get_schedule(): the thresholds that is_idle_for was false for
Schedule == asked \ passed

\* TimerModule.stop, and timer_cancel in general, of the module with schedule S
Cancel(S, ws) == {w \in ws : ~(w.of = S /\ w.held)}

\* timer_start_next() of the module with schedule S
StartNext(S, ws) ==
  LET later == {t \in S : IdleTime < t} IN
  Cancel(S, ws) \cup
    IF IdleTime < 0 \/ later = {} THEN {}
    ELSE {[of |-> S, left |-> Min(later) - IdleTime + 1, held |-> TRUE]}

\* The selector wants the timer module while the system can become idle.
Wanted == IF IdleTime >= 0 THEN Schedule ELSE {}

\* The time of the wanted xset module, 0 without one
XSetTime == IF Schedule = {} THEN 0 ELSE Min(Schedule)

\* start_stop_modules(): a timer module with another schedule is another one.
Synchronized ==
  IF Wanted = timer THEN waiting ELSE StartNext(Wanted, Cancel(timer, waiting))

GoneBy == {t \in Wanted : t <= IdleTime}

EndTask ==
  /\ task # <<>> /\ task' = <<>> /\ lag' = 0
  /\ UNCHANGED <<given, user, seats, idle, idleSince, lines, sleeping, passed,
                 fired>>

\* Mutated: after it has fired, the timer leaves the rest to update().
ApplyOnce ==
  LET renewed == Wanted \in {{}, task[1]} \/ Wanted # timer IN
  /\ EndTask
  /\ timer' = Wanted
  /\ waiting' = Synchronized
  /\ skipped' = IF renewed THEN GoneBy ELSE skipped
  /\ harm' = IF renewed THEN "none" ELSE harm
  /\ xTimeout' = XSetTime

\* The rest of update(), after which timer_handle_done starts the next timer,
\* of its own module, which may no longer be the running one.
Apply ==
  LET renewed == Wanted \in {{}, task[1]} \/ Wanted # timer IN
  /\ EndTask
  /\ timer' = Wanted
  /\ waiting' = IF task = <<{}>> THEN Synchronized
                ELSE StartNext(task[1], Synchronized)
  /\ skipped' = IF renewed THEN GoneBy ELSE skipped
  /\ harm' = IF renewed THEN "none" ELSE harm
  /\ xTimeout' = XSetTime

\* What is left when some module raises in the rest of update(): in "begin",
\* before it has stopped modules; in "start", when it has stopped those of other
\* thresholds, and perhaps started the xset module; in "end", when only errors
\* from stopping other modules are left to be raised.
Raises(where) ==
  CASE where = "begin" ->
         UNCHANGED <<timer, waiting, skipped, xTimeout>>
    [] where = "start" ->
         /\ timer' = IF Wanted = timer THEN timer ELSE {}
         /\ waiting' = IF Wanted = timer THEN waiting
                       ELSE Cancel(timer, waiting)
         /\ skipped' = IF Wanted = timer THEN skipped ELSE {}
         /\ \/ xTimeout' = XSetTime
            \/ xTimeout' = 0 /\ xTimeout # XSetTime
    [] where = "end" ->
         /\ timer' = Wanted
         /\ waiting' = Synchronized
         /\ skipped' = IF Wanted = timer THEN skipped ELSE GoneBy
         /\ xTimeout' = XSetTime

\* The exception also leaves timer_handle_done, if it is running, which has set
\* its self.timer to None and does not start the next timer.
ApplyRaises ==
  /\ mayRaise
  /\ EndTask
  /\ \E where \in {"begin", "start", "end"} :
       /\ Raises(where)
       /\ harm' = IF timer' = timer /\ timer # {}
                  THEN CASE task = <<timer>> -> "unarmed"
                         [] OTHER -> IF where = "end" \/ harm = "unarmed"
                                     THEN harm ELSE "stale"
                  ELSE IF where = "end" THEN "none" ELSE "stale"
-----------------------------------------------------------------------------
\* The tasks of the main thread, up to the evaluation of the configuration
BeginTask == task = <<>>

\* Mutated: the cached time is kept.
XssEventCached(s) ==
  /\ BeginTask
  /\ events[s] # <<>>
  /\ events' = [events EXCEPT ![s] = Tail(@)]
  /\ idle' = IF Head(events[s]) = "off" THEN idle \ {s} ELSE idle \cup {s}
  /\ UNCHANGED <<given, user, xTimeout, seats, watching, ttyEvents, sleeping,
                 timers>>
  /\ Update({}, idleSince)

\* xss_handle_event, which also comes for a session detached in the meantime
XssEvent(s) ==
  /\ BeginTask
  /\ events[s] # <<>>
  /\ events' = [events EXCEPT ![s] = Tail(@)]
  /\ idle' = IF Head(events[s]) = "off" THEN idle \ {s} ELSE idle \cup {s}
  /\ UNCHANGED <<given, user, xTimeout, seats, watching, ttyEvents, sleeping,
                 timers>>
  /\ Update({}, Invalidated({s}))

TTYEvent(s) ==
  /\ BeginTask
  /\ s \in ttyEvents
  /\ ttyEvents' = ttyEvents \ {s}
  /\ UNCHANGED <<given, user, xTimeout, seats, idle, events, watching,
                 sleeping, timers>>
  /\ Update({}, idleSince)

\* timer_handle_done, up to update(): a newer timer in self.timer is forgotten,
\* not cancelled.
TimerDone(S) ==
  /\ BeginTask
  /\ S \in fired
  /\ fired' = fired \ {S}
  /\ waiting' = {[w EXCEPT !.held = @ /\ w.of # S] : w \in waiting}
  /\ UNCHANGED <<given, user, xTimeout, seats, idle, lines, sleeping, timer,
                 skipped, harm>>
  /\ Update(S, Invalidated(attached))

\* attach(), with the start of the session, of its xss and of its tty_idle
Attach(s) ==
  /\ BeginTask
  /\ s \in around \ attached
  /\ s \in detached \cap Device => MayReattach
  /\ attached' = attached \cup {s}
  /\ \E a \in 0..Forever :
       age' = [d \in Device |-> IF d = s THEN a ELSE age[d]]
  /\ watching' = watching \cup ({s} \cap TTY)
  /\ UNCHANGED <<given, saver, xTimeout, detached, idle, events, ttyEvents,
                 sleeping, timers>>
  /\ Update({}, idleSince)

\* detach(): lines that xss has written, and nobody read, are lost.  An event
\* of the old inotify thread will be found stale.
Detach(s) ==
  /\ BeginTask
  /\ s \in attached
  /\ attached' = attached \ {s}
  /\ detached' = detached \cup {s}
  /\ watching' = watching \ {s}
  /\ ttyEvents' = ttyEvents \ {s}
  /\ \E n \in 0..MaxEvents :
       events' = [x \in X11 |->
                    IF x # s THEN events[x]
                    ELSE SubSeq(events[x], 1, Min({n, Len(events[x])}))]
  /\ age' = [d \in Device |-> IF d = s THEN 0 ELSE age[d]]
  /\ saver' = saver \ {s}
  /\ UNCHANGED <<given, xTimeout, idle, sleeping, timers>>
  /\ Update({}, idleSince)

\* handle_enter_sleep and handle_exit_sleep of logind
Sleep ==
  /\ BeginTask
  /\ sleeping' = ~sleeping
  /\ UNCHANGED <<given, user, xTimeout, seats, idle, lines, timers>>
  /\ Update({}, idleSince)

Unlock ==
  /\ BeginTask
  /\ UNCHANGED <<given, user, xTimeout, seats, idle, lines, sleeping, timers>>
  /\ Update({}, Invalidated(attached))
-----------------------------------------------------------------------------
\* Time, the user, X, and the threads that wait for them
Older(n) == IF n = Unknown \/ n = Forever THEN n ELSE n + 1

Tick ==
  /\ task # <<>> => lag < MaxLag
  /\ lag' = IF task = <<>> THEN 0 ELSE lag + 1
  /\ age' = [s \in Device |-> IF s \in attached THEN Older(age[s]) ELSE 0]
  /\ idleSince' = [s \in X11 |-> Older(idleSince[s])]
  /\ waiting' = {[w EXCEPT !.left = Max({0, @ - 1})] : w \in waiting}
  /\ UNCHANGED <<given, saver, xTimeout, seats, idle, lines, sleeping, passed,
                 timer, fired, skipped, harm, task>>

\* The inotify thread ends when it has read one batch of events.
Input(s) ==
  /\ s \in attached
  /\ s \in saver => Len(events[s]) < MaxEvents
  /\ age' = [age EXCEPT ![s] = 0]
  /\ saver' = saver \ {s}
  /\ events' = IF s \in saver THEN [events EXCEPT ![s] = Append(@, "off")]
               ELSE events
  /\ watching' = watching \ {s}
  /\ ttyEvents' = ttyEvents \cup ({s} \cap watching)
  /\ UNCHANGED <<given, xTimeout, seats, idle, idleSince, sleeping, passed,
                 timers, task, lag>>

SaverStarts(s) ==
  /\ s \in attached \ saver
  /\ xTimeout > 0 /\ age[s] >= xTimeout
  /\ Len(events[s]) < MaxEvents
  /\ saver' = saver \cup {s}
  /\ events' = [events EXCEPT ![s] = Append(@, "on")]
  /\ UNCHANGED <<given, age, xTimeout, seats, idle, idleSince, watching,
                 ttyEvents, sleeping, passed, timers, task, lag>>

\* A threading.Timer queues its task; it can no longer be canceled.
Fire ==
  /\ \E w \in waiting :
       /\ w.left = 0
       /\ waiting' = waiting \ {w}
       /\ fired' = fired \cup {w.of}
  /\ UNCHANGED <<given, user, xTimeout, seats, idle, idleSince, lines,
                 sleeping, passed, timer, skipped, harm, task, lag>>
-----------------------------------------------------------------------------
Init ==
  /\ \E c \in Cases : around = c[1] /\ asked = c[2] /\ mayRaise = c[3]
  /\ age = [s \in Device |-> 0]
  /\ saver = {}
  /\ xTimeout = 0
  /\ attached = {} /\ detached = {}
  /\ idle = {}
  /\ idleSince = [s \in X11 |-> Unknown]
  /\ events = [s \in X11 |-> <<>>]
  /\ watching = {} /\ ttyEvents = {}
  /\ sleeping = FALSE
  /\ passed = {}
  /\ timer = {} /\ waiting = {} /\ fired = {}
  /\ skipped = {} /\ harm = "none"
  /\ task = <<>> /\ lag = 0

Next ==
  \/ Apply \/ ApplyRaises
  \/ \E s \in X11 : XssEvent(s)
  \/ \E s \in TTY : TTYEvent(s)
  \/ \E S \in fired : TimerDone(S)
  \/ \E s \in Session : Attach(s) \/ Detach(s)
  \/ Sleep \/ Unlock
  \/ Tick \/ Fire
  \/ \E s \in Device : Input(s)
  \/ \E s \in X11 : SaverStarts(s)

Spec == Init /\ [][Next]_vars

\* Time passes, X and the timers are on time in the end, and the main thread
\* runs its tasks in the order in which they were queued.
FairSpec ==
  /\ Spec
  /\ SF_vars(Tick) /\ WF_vars(Fire)
  /\ \A s \in X11 : SF_vars(SaverStarts(s))
  /\ WF_vars(Apply \/ ApplyRaises)
  /\ \A s \in X11 : SF_vars(XssEvent(s))
  /\ SF_vars(\E S \in fired : TimerDone(S))
-----------------------------------------------------------------------------
Timer == [of : SUBSET Thresholds, left : 0..Forever+1, held : BOOLEAN]

TypeOK ==
  /\ around \subseteq Session /\ asked \subseteq Thresholds
  /\ mayRaise \in BOOLEAN
  /\ age \in [Device -> 0..Forever]
  /\ saver \subseteq X11
  /\ xTimeout \in 0..Forever
  /\ attached \subseteq Session /\ detached \subseteq Session
  /\ idle \subseteq X11
  /\ idleSince \in [X11 -> Unknown..Forever]
  /\ events \in [X11 -> Seq({"on", "off"})]
  /\ watching \subseteq TTY /\ ttyEvents \subseteq TTY
  /\ sleeping \in BOOLEAN
  /\ passed \subseteq Thresholds
  /\ timer \subseteq Thresholds
  /\ waiting \subseteq Timer
  /\ fired \subseteq SUBSET Thresholds
  /\ skipped \subseteq Thresholds
  /\ harm \in {"none", "stale", "unarmed"}
  /\ task \in {<<>>} \cup {<<S>> : S \in SUBSET Thresholds}
  /\ lag \in 0..MaxLag

\* The cached idle time of an X11 session is the true one, unless a line that
\* will invalidate it is on its way (session/x11.py:33-45, xss.py:74-92).
CacheIsCurrent ==
  \A s \in X11 \cap attached \cap idle :
    idleSince[s] \in {Unknown, age[s]} \/ "off" \in Range(events[s])

\* When nothing is left to be handled, no threshold is in effect that some
\* session has not been idle for.  A TTY whose inotify thread has ended is not
\* included (xss.py:74-92, tty_idle.py:54-59, timer.py:61-68).
IdleIsTrue ==
  /\ task = <<>> /\ ~sleeping /\ ttyEvents = {}
  /\ \A s \in X11 : events[s] = <<>>
  => \A t \in passed, s \in attached :
       s \in X11 \cup watching => t <= age[s]

\* What is believed of idle sessions is true.
IdleIsKnown == TypeOK /\ CacheIsCurrent /\ IdleIsTrue

AllIdleFor(t) ==
  attached # {} /\ \A s \in attached : s \in Device /\ age[s] >= t

\* Every threshold that passes is noticed, unless some session is used before,
\* or update() raised and kept the modules from being synchronized, or the next
\* timer from being started (timer.py:66), or the threshold went by while the
\* task ran that found it ahead, between config.py:93 and timer.py:45 (of what
\* timer.py:1-4 and config.py:96-101 say, what the code holds).
IdleIsNoticed ==
  \A t \in Thresholds :
    t \in asked /\ AllIdleFor(t)
      ~> t \in passed \/ ~AllIdleFor(t) \/ t \in skipped \/ harm # "none"

\* The running timer module has a timer or a task of its timer, although
\* stopped timer modules have timers and tasks of their own, unless update()
\* raised in the task of its last timer, or each of its thresholds had gone by
\* when it started the timer.  And this timer fires soon after the next of the
\* others at the latest, unless a session was detached and made those that
\* remain idle at once (timer.py:38-68).
TimerIsInTime ==
  task = <<>> /\ timer # {} =>
    \/ timer \in fired
    \/ harm = "unarmed"
    \/ timer \subseteq skipped
    \/ \E w \in waiting :
         /\ w.of = timer
         /\ \A t \in timer \ skipped :
              detached = {} /\ IdleTime < t => w.left <= t - IdleTime + 1
=============================================================================
