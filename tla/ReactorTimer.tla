---------------------------- MODULE ReactorTimer ----------------------------
(***************************************************************************)
(* The timer half of the reactor (crates/n3io/src/reactor.rs) and the      *)
(* Timeout future built on it (crates/n3io/src/timeout.rs), composed with  *)
(* the timing wheel.                                                       *)
(*                                                                         *)
(* A timer is a token with an entry in io_readable_stats: Deadline until   *)
(* it is first polled, then Timer(waker) while its token is in the wheel,  *)
(* then Timeout.  Three threads meet: a task that polls the future, any    *)
(* thread that makes the wrapped future ready, and timing_wheel_ticks.     *)
(* The entry is unlocked while poll_timeout inserts into the wheel, so the *)
(* timer can expire in between.                                            *)
(***************************************************************************)
EXTENDS TimingWheel

CONSTANT Tasks     \* tasks of the executor

ASSUME TasksAssumption == Tasks # {}

VARIABLES stats,    \* timer -> IoState, for the timers that have an entry
          deadline, \* timer -> the deadline given to Reactor::deadline
          pc,       \* where the owner of each Timeout future is
          poller_of,\* timer -> the task that polled it last
          inner,    \* timers whose wrapped future is ready
          woken,    \* <<timer, task>>: the task was woken for that timer's future
          ticks_pc  \* "run", or "panicked" at the unreachable! of the tick loop

rvars == <<stats, deadline, pc, poller_of, inner, woken, ticks_pc>>
allvars == <<vars, rvars>>

Pending  == [kind |-> "Deadline"]
Expired  == [kind |-> "Timeout"]
TimerOf(t) == [kind |-> "Timer", task |-> t]
IoState  == {Pending, Expired} \cup {TimerOf(t) : t \in Tasks}

Present == DOMAIN stats
SetState(v, s) == stats' = [stats EXCEPT ![v] = s]
Goto(v, l) == pc' = [pc EXCEPT ![v] = l]

\* Labels: "new", "pending" (poll returned Pending), "insert" (unlocked, about to
\* call wheel.deadline), "armed" or "late" (it returned Some or None, not yet
\* relocked), "value" or "timedout" (the future's result), "dropped", "panicked".
Labels == {"none", "new", "pending", "insert", "armed", "late",
           "value", "timedout", "dropped", "panicked"}

-----------------------------------------------------------------------------
RInit == /\ Init
         /\ stats = [v \in {} |-> Pending]
         /\ deadline = [v \in Timers |-> 0]
         /\ pc = [v \in Timers |-> "none"]
         /\ poller_of \in [Timers -> {CHOOSE t \in Tasks : TRUE}]
         /\ inner = {} /\ woken = {} /\ ticks_pc = "run"

\* timeout_with: Reactor::deadline creates the entry; nothing is in the wheel.
Create(v, d) ==
  /\ pc[v] = "none"
  /\ stats' = [x \in Present \cup {v} |-> IF x = v THEN Pending ELSE stats[x]]
  /\ deadline' = [deadline EXCEPT ![v] = d]
  /\ Goto(v, "new")
  /\ UNCHANGED <<vars, poller_of, inner, woken, ticks_pc>>

\* Mutant of FirstPoll: the entry becomes Timer after the wheel has the token.
FirstPollLate(v, t) == UNCHANGED stats

\* What poll_timeout stores in the entry on its first poll, and on later ones.
FirstPoll(v, t) == SetState(v, TimerOf(t))

\* Mutant of NextPoll: the waker is not updated.
NextPollKeeps(v, t) == UNCHANGED stats

NextPoll(v, t) == SetState(v, TimerOf(t))

(***************************************************************************)
(* Timeout::poll by task t: the wrapped future first; if that is pending,  *)
(* poll_timeout up to the first unlock.                                    *)
(***************************************************************************)
PollTimeout(v, t) ==
  /\ pc[v] \in {"new", "pending"}
  /\ woken' = woken \ ({v} \X Tasks)
  /\ poller_of' = [poller_of EXCEPT ![v] = t]
  /\ \/ v \in inner /\ Goto(v, "value") /\ UNCHANGED stats
     \/ v \notin inner /\ stats[v] = Expired /\ Goto(v, "timedout") /\ UNCHANGED stats
     \/ v \notin inner /\ stats[v] = Pending /\ FirstPoll(v, t) /\ Goto(v, "insert")
     \/ /\ v \notin inner /\ stats[v].kind = "Timer"
        /\ NextPoll(v, t) /\ Goto(v, "pending")
  /\ UNCHANGED <<vars, deadline, inner, ticks_pc>>

\* timing_wheel.deadline(deadline, timer), with the entry unlocked.
InsertTimer(v) ==
  /\ pc[v] = "insert"
  /\ Deadline(v, deadline[v])
  /\ Goto(v, IF Accepted(deadline[v]) THEN "armed" ELSE "late")
  /\ UNCHANGED <<stats, deadline, poller_of, inner, woken, ticks_pc>>

\* poll_timeout after the relock.
Relock(v) ==
  /\ pc[v] \in {"armed", "late"}
  /\ \/ v \notin Present /\ Goto(v, "panicked") /\ UNCHANGED stats
     \/ v \in Present /\ pc[v] = "late" /\ SetState(v, Expired) /\ Goto(v, "timedout")
     \/ /\ v \in Present /\ pc[v] = "armed" /\ UNCHANGED stats
        /\ \/ stats[v] = Expired /\ Goto(v, "timedout")
           \/ stats[v].kind = "Timer" /\ Goto(v, "pending")
           \/ stats[v] = Pending /\ Goto(v, "panicked")
  /\ UNCHANGED <<vars, deadline, poller_of, inner, woken, ticks_pc>>

\* The wrapped future becomes ready and wakes the task that polled it last.
InnerReady(v) ==
  /\ pc[v] \notin {"none", "value", "timedout", "dropped"} /\ v \notin inner
  /\ inner' = inner \cup {v}
  /\ woken' = IF pc[v] = "new" THEN woken ELSE woken \cup {<<v, poller_of[v]>>}
  /\ UNCHANGED <<vars, stats, deadline, pc, poller_of, ticks_pc>>

\* Drop of Timeout: deregister_timer removes the entry; a token in the wheel
\* stays there.  The owner holds the future, so it is not being polled.
DropTimer(v) ==
  /\ pc[v] \in {"new", "pending", "value", "timedout"}
  /\ stats' = Restrict(stats, Present \ {v})
  /\ Goto(v, "dropped")
  /\ UNCHANGED <<vars, deadline, poller_of, inner, woken, ticks_pc>>

(***************************************************************************)
(* timing_wheel_ticks: one token of the batch.  An entry that is still     *)
(* there becomes Timeout and its waker is called; the code declares it     *)
(* impossible that it is in another state than Timer.                      *)
(***************************************************************************)
\* Mutant of WakeTimer: the waker is dropped without a call.
DropWaker(v) == UNCHANGED woken

WakeTimer(v) == woken' = woken \cup {<<v, stats[v].task>>}

RaiseTimeout(v) ==
  /\ ticks_pc = "run"
  /\ Drain(v)
  /\ IF v \notin Present
     THEN UNCHANGED <<stats, woken, ticks_pc>>
     ELSE /\ SetState(v, Expired)
          /\ IF stats[v].kind = "Timer"
             THEN WakeTimer(v) /\ UNCHANGED ticks_pc
             ELSE ticks_pc' = "panicked" /\ UNCHANGED woken
  /\ UNCHANGED <<deadline, pc, poller_of, inner>>

WheelRuns == (Poll \/ WakeUp \/ Tick) /\ UNCHANGED rvars

RNext == \/ \E v \in Timers, d \in 0 .. MaxDeadline : Create(v, d)
         \/ \E v \in Timers, t \in Tasks : PollTimeout(v, t)
         \/ \E v \in Timers : \/ InsertTimer(v) \/ Relock(v) \/ InnerReady(v)
                              \/ DropTimer(v) \/ RaiseTimeout(v)
         \/ WheelRuns

RSpec == RInit /\ [][RNext]_allvars

\* A started poll runs on, a woken task polls again, the tick thread runs.
RFairness ==
  /\ \A v \in Timers : /\ WF_allvars(InsertTimer(v)) /\ WF_allvars(Relock(v))
                       /\ WF_allvars(RaiseTimeout(v))
                       /\ WF_allvars(<<v, poller_of[v]>> \in woken /\ PollTimeout(v, poller_of[v]))
  /\ WF_allvars(Tick /\ UNCHANGED rvars)
  /\ WF_allvars(Poll /\ UNCHANGED rvars)
  /\ WF_allvars(WaitOver /\ WakeUp /\ UNCHANGED rvars)

RFairSpec == RSpec /\ RFairness

-----------------------------------------------------------------------------
RTypeOK == /\ TypeOK
           /\ Present \subseteq Timers /\ stats \in [Present -> IoState]
           /\ deadline \in [Timers -> 0 .. MaxDeadline]
           /\ pc \in [Timers -> Labels]
           /\ poller_of \in [Timers -> Tasks]
           /\ inner \subseteq Timers /\ woken \subseteq Timers \X Tasks
           /\ ticks_pc \in {"run", "panicked"}

\* Neither the expect and unreachable! arms of poll_timeout nor the one of
\* timing_wheel_ticks is reached: the wheel returns a token once, only after
\* the entry became Timer, and a dropped timer's token finds no entry.
NoPanic == ticks_pc = "run" /\ \A v \in Timers : pc[v] # "panicked"

\* A task waiting for a timeout will be told: the entry holds the waker of the
\* task that polled last and the token is in the wheel or in the batch of the
\* tick thread, or the timer has fired and that task was woken since its poll.
NoLostTimeout ==
  \A v \in Timers : pc[v] = "pending" =>
     \/ stats[v] = TimerOf(poller_of[v]) /\ v \in Live \cup events
     \/ stats[v] = Expired /\ <<v, poller_of[v]>> \in woken

\* Timeout never reports TimedOut before its deadline.
NotEarly == \A v \in Timers : pc[v] = "timedout" => now >= deadline[v]

\* Every Timeout future that was polled ends, even if the wrapped future never
\* gets ready and the timer expired while poll_timeout was between its locks.
TimeoutEnds == \A v \in Timers : pc[v] = "pending" ~> pc[v] \in {"value", "timedout", "dropped"}
=============================================================================
