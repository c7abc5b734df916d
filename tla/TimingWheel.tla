----------------------------- MODULE TimingWheel -----------------------------
(***************************************************************************)
(* The timing wheel (crates/timing-wheel/src/lib.rs): threads call         *)
(* deadline, one thread calls poll in a loop and hands the expired values  *)
(* to its caller.                                                          *)
(*                                                                         *)
(* Time is in microseconds since `start`, ticks are intervals of           *)
(* TickInterval.  The mutex sys protects everything but the clock, so the  *)
(* body of deadline and one iteration of poll's loop are one action each;  *)
(* Condvar::wait releases the mutex, so the poller asleep is a state.      *)
(* The values are timers that are set once: the only user passes tokens of *)
(* Reactor::next_token.  The vectors and the heap are sets.                *)
(***************************************************************************)
EXTENDS Naturals, FiniteSets, FiniteSetsExt, Functions

CONSTANTS Timers,        \* the values
          TickInterval,  \* tick_interval, in microseconds
          MaxDeadline,   \* bound: deadlines are 0..MaxDeadline
          MaxTime,       \* bound: the clock stops here
          Never          \* wake-up time of a wait without timeout

ASSUME TimersAssumption == IsFiniteSet(Timers)
ASSUME TickIntervalAssumption == TickInterval \in Nat \ {0}
ASSUME MaxDeadlineAssumption == MaxDeadline \in Nat
\* The clock runs long enough for the last timer, oversleeping included.
ASSUME MaxTimeAssumption == MaxTime \in Nat /\ MaxTime >= MaxDeadline + 2 * TickInterval
ASSUME NeverAssumption == Never \notin Nat

VARIABLES now,            \* Instant::now() - start
          ticks,          \* sys.ticks: the tick of the last poll
          priority_queue, \* sys.priority_queue: slots
          timers,         \* sys.timers: slot -> timers
          counter,        \* sys.counter
          poller,         \* the poll thread: "poll", "sleep" or "deliver"
          wakeAt,         \* when its wait_timeout ends
          notified,       \* notify_one reached it while it slept
          events,         \* expired timers its caller has not drained yet
          asked,          \* history: timer -> deadline it was set with
          refused,        \* history: timers deadline returned None for
          fired           \* history: timers poll put into events

sys  == <<ticks, priority_queue, timers, counter>>
wait == <<poller, wakeAt, notified>>
hist == <<asked, refused, fired>>
vars == <<now, sys, wait, events, hist>>

Live == UNION Range(timers)

-----------------------------------------------------------------------------
Init == /\ now = 0
        /\ ticks = 0 /\ priority_queue = {} /\ counter = 0
        /\ timers = [s \in {} |-> {}]
        /\ poller = "poll" /\ wakeAt = Never /\ notified = FALSE
        /\ events = {}
        /\ asked = [v \in {} |-> 0] /\ refused = {} /\ fired = {}

\* Mutant of SlotOf: rounded down.
SlotRoundedDown(d) == d \div TickInterval

\* The tick at which a deadline expires: rounded up.
SlotOf(d) == (d + TickInterval - 1) \div TickInterval

At(s) == IF s \in DOMAIN timers THEN timers[s] ELSE {}

\* Mutant of Insert: the counter is increased for a new slot only.
InsertCountsSlots(s, v) ==
  /\ timers' = [x \in DOMAIN timers \cup {s} |-> At(x) \cup (IF x = s THEN {v} ELSE {})]
  /\ priority_queue' = priority_queue \cup {s}
  /\ counter' = IF s \in DOMAIN timers THEN counter ELSE counter + 1

\* Mutant of Insert: the slot's vector is replaced, not extended.
InsertReplaces(s, v) ==
  /\ timers' = [x \in DOMAIN timers \cup {s} |-> IF x = s THEN {v} ELSE timers[x]]
  /\ priority_queue' = priority_queue \cup {s}
  /\ counter' = counter + 1

Insert(s, v) ==
  /\ timers' = [x \in DOMAIN timers \cup {s} |-> At(x) \cup (IF x = s THEN {v} ELSE {})]
  /\ priority_queue' = priority_queue \cup {s}
  /\ counter' = counter + 1

\* deadline(d, v); Accepted(d) is whether it returns Some.
Accepted(d) == SlotOf(d) > ticks

\* Mutant of Notify: deadline does not notify the poll thread.
NotifyNobody == UNCHANGED notified

\* notify_one reaches the poll thread if it is waiting.
Notify == notified' = (notified \/ poller = "sleep")

Deadline(v, d) ==
  /\ v \notin DOMAIN asked
  /\ asked' = [x \in DOMAIN asked \cup {v} |-> IF x = v THEN d ELSE asked[x]]
  /\ IF Accepted(d)
     THEN /\ Insert(SlotOf(d), v)
          /\ Notify
          /\ UNCHANGED refused
     ELSE /\ refused' = refused \cup {v}
          /\ UNCHANGED <<priority_queue, timers, counter, notified>>
  /\ UNCHANGED <<now, ticks, poller, wakeAt, events, fired>>

\* Mutant of IsDue: a slot is popped one tick early.
IsDueEarly(s, tick) == s <= tick + 1

IsDue(s, tick) == s <= tick

(***************************************************************************)
(* One iteration of poll's loop: read the clock, pop every slot that is    *)
(* due; return if that yielded timers, otherwise wait for the next slot or *)
(* for a notification.                                                     *)
(***************************************************************************)
Poll ==
  LET tick    == now \div TickInterval
      expired == {s \in priority_queue : IsDue(s, tick)}
      left    == priority_queue \ expired
      batch   == UNION {timers[s] : s \in expired \cap DOMAIN timers}
  IN
  /\ poller = "poll"
  /\ ticks' = tick
  /\ priority_queue' = left
  /\ timers' = Restrict(timers, DOMAIN timers \ expired)
  /\ counter' = counter - Cardinality(batch)
  /\ events' = events \cup batch
  /\ fired' = fired \cup batch
  /\ poller' = IF batch # {} THEN "deliver" ELSE "sleep"
  /\ wakeAt' = IF batch # {} \/ left = {} THEN Never
               ELSE now + (Min(left) - tick) * TickInterval
  /\ notified' = FALSE
  /\ UNCHANGED <<now, asked, refused>>

\* The wait ends: timeout, notification or a spurious wake-up.
WakeUp ==
  /\ poller = "sleep"
  /\ poller' = "poll" /\ notified' = FALSE
  /\ UNCHANGED <<now, sys, wakeAt, events, hist>>

\* The caller of poll drains one expired timer; after the last it polls again.
Drain(v) ==
  /\ poller = "deliver" /\ v \in events
  /\ events' = events \ {v}
  /\ poller' = IF events = {v} THEN "poll" ELSE "deliver"
  /\ UNCHANGED <<now, sys, wakeAt, notified, hist>>

Tick == /\ now < MaxTime
        /\ now' = now + 1
        /\ UNCHANGED <<sys, wait, events, hist>>

Next == \/ \E v \in Timers, d \in 0 .. MaxDeadline : Deadline(v, d)
        \/ Poll \/ WakeUp \/ Tick
        \/ \E v \in Timers : Drain(v)

Spec == Init /\ [][Next]_vars

WaitOver == notified \/ (wakeAt # Never /\ now >= wakeAt)

\* The clock advances, the poll thread runs whenever its wait is over.
Fairness == /\ WF_vars(Tick) /\ WF_vars(Poll)
            /\ WF_vars(WaitOver /\ WakeUp)
            /\ \A v \in Timers : WF_vars(Drain(v))

FairSpec == Spec /\ Fairness

-----------------------------------------------------------------------------
TypeOK == /\ now \in 0 .. MaxTime
          /\ ticks \in Nat /\ priority_queue \in SUBSET Nat
          /\ timers \in [DOMAIN timers -> SUBSET Timers] /\ DOMAIN timers \subseteq Nat
          /\ counter \in Nat
          /\ poller \in {"poll", "sleep", "deliver"}
          /\ wakeAt \in Nat \cup {Never}
          /\ notified \in BOOLEAN
          /\ events \subseteq Timers
          /\ DOMAIN asked \subseteq Timers
          /\ asked \in [DOMAIN asked -> 0 .. MaxDeadline]
          /\ refused \subseteq Timers /\ fired \subseteq Timers

\* The heap, the slot map and the alive counter agree: every slot of the heap
\* has timers and every timer has its slot in the heap, so none can be skipped
\* by poll, and counter (usize) never underflows.
SlotsAgree ==
  /\ priority_queue = DOMAIN timers
  /\ \A s \in DOMAIN timers : timers[s] # {}
  /\ \A s, x \in DOMAIN timers : s # x => timers[s] \cap timers[x] = {}
  /\ counter = Cardinality(Live)

\* A timer that was set is in exactly one place: waiting in a slot, refused by
\* deadline or fired by poll.
OnePlace ==
  /\ DOMAIN asked = Live \cup refused \cup fired
  /\ Live \cap refused = {} /\ Live \cap fired = {}
  /\ refused \cap fired = {} /\ events \subseteq fired

\* The wheel keeps account of its timers: heap, slots and counter agree, and no
\* timer that was set gets lost or fires twice.
Accounting == SlotsAgree /\ OnePlace

\* A timer sits in the slot of the first tick at or after its deadline.
FirstTickAfter ==
  \A s \in DOMAIN timers : \A v \in timers[s] :
     /\ s * TickInterval >= asked[v]
     /\ s * TickInterval < asked[v] + TickInterval

\* The poll thread never sleeps past a timer: unless it was notified, it wakes
\* within one tick after the earliest slot, also when that slot was added while
\* it slept or just before it fell asleep.
SleepsNoLongerThanNeeded ==
  (poller = "sleep" /\ ~notified) =>
     \A s \in priority_queue :
        wakeAt # Never /\ wakeAt < s * TickInterval + TickInterval

Service == INSTANCE TimerService WITH
  Deadlines <- 0 .. MaxDeadline,
  status <- [v \in Timers |-> IF v \in fired THEN "fired"
                              ELSE IF v \in refused THEN "refused"
                              ELSE IF v \in Live THEN "armed" ELSE "new"],
  due    <- [v \in Timers |-> IF v \in DOMAIN asked THEN asked[v] ELSE 0]

\* The wheel keeps the promise of TimerService: it refuses only expired
\* deadlines, fires every timer once, not early, and does fire it.
ImplementsTimerService == Service!Spec

\* Its safety part alone.
ImplementsTimerServiceSafety == Service!Safety
=============================================================================
