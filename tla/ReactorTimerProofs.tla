-------------------------- MODULE ReactorTimerProofs --------------------------
(***************************************************************************)
(* The safety of the Timeout future for any number of timers, tasks, and   *)
(* any tick interval and deadlines: no unreachable! arm is reached, no     *)
(* waiting task is forgotten and no timeout is reported early, whatever    *)
(* the tick thread does while the entry is unlocked.                       *)
(***************************************************************************)
EXTENDS ReactorTimer, TimingWheelProofs

-----------------------------------------------------------------------------
\* The entry has the waker of the last poll and the tick thread will find it.
Waits(v) == stats[v] = TimerOf(poller_of[v]) /\ v \in Live \cup events

\* Where the owner of a future is tells what its entry holds.
EntryFits(v) ==
  /\ v \in Present <=> pc[v] \notin {"none", "dropped"}
  /\ pc[v] = "new" => stats[v] = Pending
  /\ pc[v] \in {"insert", "late"} => stats[v] = TimerOf(poller_of[v])
  /\ pc[v] = "armed" => v \notin refused /\ (Waits(v) \/ stats[v] = Expired)
  /\ pc[v] = "timedout" => stats[v] = Expired

\* It tells as well what the wheel knows of the timer; and a token comes out of
\* the wheel only when the entry has a waker.
WheelFits(v) ==
  /\ pc[v] \in {"none", "new", "insert"} => v \notin DOMAIN asked
  /\ v \in DOMAIN asked => asked[v] = deadline[v]
  /\ pc[v] = "late" => v \in refused
  /\ v \in Present /\ v \in Live \cup events => stats[v].kind = "Timer"

\* A timer that the wheel refused or fired, or whose entry says so, is over.
IsOver(v) ==
  v \in fired \cup refused \/ (v \in Present /\ stats[v] = Expired) => deadline[v] <= now

\* The inductive invariant.
TimerFits(v) == EntryFits(v) /\ WheelFits(v) /\ IsOver(v)
RInv == /\ IInv /\ RTypeOK /\ NoPanic /\ NoLostTimeout
        /\ \A v \in Timers : TimerFits(v)

\* One timer's share of NoPanic and NoLostTimeout.
NotLost(v) == /\ pc[v] # "panicked"
              /\ pc[v] = "pending" =>
                   Waits(v) \/ (stats[v] = Expired /\ <<v, poller_of[v]>> \in woken)

LEMMA RInvParts ==
  RInv <=> /\ IInv /\ RTypeOK /\ ticks_pc = "run"
           /\ \A v \in Timers : TimerFits(v) /\ NotLost(v)
BY DEF RInv, NoPanic, NoLostTimeout, NotLost, Waits

-----------------------------------------------------------------------------
\* The three kinds of entries are different.
LEMMA Kinds ==
  /\ Pending.kind = "Deadline" /\ Expired.kind = "Timeout"
  /\ \A t : TimerOf(t).kind = "Timer" /\ TimerOf(t).task = t
  /\ Pending # Expired /\ \A t : TimerOf(t) # Pending /\ TimerOf(t) # Expired
  /\ Pending \in IoState /\ Expired \in IoState
  /\ \A t \in Tasks : TimerOf(t) \in IoState
  /\ \A s \in IoState : s.kind = "Timer" => \E t \in Tasks : s = TimerOf(t)
  /\ \A s \in IoState : s = Pending \/ s = Expired \/ s.kind = "Timer"
<1>1. Pending.kind = "Deadline" /\ Expired.kind = "Timeout"
  BY DEF Pending, Expired
<1>2. \A t : TimerOf(t).kind = "Timer" /\ TimerOf(t).task = t
  BY DEF TimerOf
<1>3. Pending # Expired /\ \A t : TimerOf(t) # Pending /\ TimerOf(t) # Expired
  BY <1>1, <1>2
<1>4. /\ Pending \in IoState /\ Expired \in IoState
      /\ \A t \in Tasks : TimerOf(t) \in IoState
      /\ \A s \in IoState : s = Pending \/ s = Expired \/ \E t \in Tasks : s = TimerOf(t)
  BY DEF IoState
<1> QED BY <1>1, <1>2, <1>3, <1>4

\* What deadline does to a timer.
LEMMA DeadlinePlaces ==
  ASSUME IInv, NEW v \in Timers, NEW d \in 0 .. MaxDeadline, Deadline(v, d)
  PROVE  /\ v \notin DOMAIN asked /\ DOMAIN asked' = DOMAIN asked \cup {v} /\ asked'[v] = d
         /\ \A u \in DOMAIN asked : asked'[u] = asked[u]
         /\ UNCHANGED <<now, events, fired>>
         /\ Accepted(d) => Live' = Live \cup {v} /\ refused' = refused
         /\ ~ Accepted(d) => Live' = Live /\ refused' = refused \cup {v} /\ d <= now
<1>1. /\ v \notin DOMAIN asked
      /\ asked' = [x \in DOMAIN asked \cup {v} |-> IF x = v THEN d ELSE asked[x]]
      /\ UNCHANGED <<now, events, fired>>
  BY DEF Deadline
<1>2. ASSUME Accepted(d) PROVE Live' = Live \cup {v} /\ refused' = refused
  <2>1. Insert(SlotOf(d), v) /\ UNCHANGED refused
    BY <1>2 DEF Deadline
  <2>2. v \notin Live
    BY <1>1 DEF IInv, OnePlace
  <2>3. SlotOf(d) \in Nat
    BY RoundUp, MaxDeadlineAssumption
  <2> QED BY <2>1, <2>2, <2>3, InsertKeepsSlots DEF IInv
<1>3. ASSUME ~ Accepted(d) PROVE Live' = Live /\ refused' = refused \cup {v} /\ d <= now
  BY <1>3, RefusedIsOver DEF Deadline, Live
<1> QED BY <1>1, <1>2, <1>3

\* What every other step of the wheel does to the timers.
LEMMA PollPlaces ==
  ASSUME IInv, Poll
  PROVE  /\ UNCHANGED <<now, asked, refused>>
         /\ \A v : v \in Live' \cup events' <=> v \in Live \cup events
         /\ \A v \in fired' : v \in fired \/ (v \in DOMAIN asked /\ asked[v] <= now)
<1>1. /\ events' = events \cup Batch /\ fired' = fired \cup Batch
      /\ Live' = Live \ Batch /\ Batch \subseteq Live
  BY PollTakesSlots
<1>2. \A v \in Batch : v \in DOMAIN asked /\ asked[v] <= now
  BY BatchIsOver
<1> QED BY <1>1, <1>2 DEF Poll

LEMMA DrainPlaces ==
  ASSUME IInv, NEW v, Drain(v)
  PROVE  /\ UNCHANGED <<now, asked, refused, fired>> /\ Live' = Live
         /\ events' = events \ {v} /\ v \in events /\ v \notin Live
         /\ v \in fired /\ v \notin refused
BY DEF Drain, sys, hist, Live, IInv, OnePlace

LEMMA QuietPlaces ==
  ASSUME IInv, WakeUp \/ Tick \/ UNCHANGED vars
  PROVE  UNCHANGED <<asked, refused, fired, Live, events>> /\ now' >= now
<1>1. now \in Nat
  BY MaxTimeAssumption DEF IInv, TypeOK
<1> QED BY <1>1 DEF WakeUp, Tick, vars, sys, hist, Live

-----------------------------------------------------------------------------
LEMMA RInvInit == RInit => RInv
<1> SUFFICES ASSUME RInit PROVE RInv
  OBVIOUS
<1>1. IInv
  BY IInvInit DEF RInit
<1>2. Present = {}
  BY DEF RInit, Present
<1>3. (CHOOSE t \in Tasks : TRUE) \in Tasks
  BY TasksAssumption
<1>4. RTypeOK
  <2>1. poller_of \in [Timers -> Tasks]
    BY <1>3 DEF RInit
  <2>2. deadline \in [Timers -> 0 .. MaxDeadline] /\ pc \in [Timers -> Labels]
    BY MaxDeadlineAssumption DEF RInit, Labels
  <2>3. stats \in [Present -> IoState]
    BY <1>2 DEF RInit, Present
  <2> QED BY <1>1, <1>2, <2>1, <2>2, <2>3 DEF RInit, RTypeOK, IInv
<1>5. ASSUME NEW v \in Timers PROVE TimerFits(v) /\ NotLost(v)
  <2>1. pc[v] = "none" /\ v \notin Present /\ DOMAIN asked = {} /\ fired = {} /\ refused = {}
    BY <1>2 DEF RInit, Init
  <2> QED BY <2>1 DEF TimerFits, EntryFits, WheelFits, IsOver, NotLost
<1> QED BY <1>1, <1>4, <1>5, RInvParts DEF RInit

-----------------------------------------------------------------------------
\* A step that does not concern timer u: its future, entry and token stay as
\* they are, its task may be woken and, if its time is over, the wheel fires it.
Undisturbed(u) ==
  /\ u \in Present' <=> u \in Present
  /\ u \in Present => stats'[u] = stats[u]
  /\ pc'[u] = pc[u] /\ poller_of'[u] = poller_of[u] /\ deadline'[u] = deadline[u]
  /\ <<u, poller_of[u]>> \in woken => <<u, poller_of[u]>> \in woken'
  /\ u \in DOMAIN asked' <=> u \in DOMAIN asked
  /\ u \in DOMAIN asked => asked'[u] = asked[u]
  /\ u \in refused' <=> u \in refused
  /\ u \in Live' \cup events' <=> u \in Live \cup events
  /\ u \in fired' => u \in fired \/ (u \in DOMAIN asked /\ asked[u] <= now)
  /\ now' \in Nat /\ now' >= now

LEMMA UndisturbedFits ==
  ASSUME RInv, NEW u \in Timers, Undisturbed(u)
  PROVE  TimerFits(u)' /\ NotLost(u)'
<1>1. TimerFits(u) /\ NotLost(u)
  BY RInvParts
<1>2. now \in Nat /\ now' \in Nat /\ now' >= now /\ deadline[u] \in Nat
  BY MaxTimeAssumption, MaxDeadlineAssumption DEF RInv, RTypeOK, TypeOK, Undisturbed
<1>3. Waits(u) /\ u \in Present => Waits(u)'
  BY DEF Waits, Undisturbed
<1>4. EntryFits(u)'
  BY <1>1, <1>3 DEF TimerFits, EntryFits, Undisturbed
<1>5. WheelFits(u)'
  BY <1>1 DEF TimerFits, WheelFits, Undisturbed
<1>6. IsOver(u)'
  <2>1. u \in fired' => u \in fired \/ deadline[u] <= now
    BY <1>1 DEF TimerFits, WheelFits, Undisturbed
  <2> QED BY <1>1, <1>2, <2>1 DEF TimerFits, IsOver, Undisturbed
<1>7. NotLost(u)'
  BY <1>1, <1>3 DEF TimerFits, EntryFits, NotLost, Undisturbed
<1> QED BY <1>4, <1>5, <1>6, <1>7 DEF TimerFits

\* If a step of timer v keeps the wheel's invariant and the types, leaves the
\* others undisturbed and keeps v's own share, it keeps the invariant.
LEMMA OneTimer ==
  ASSUME RInv, NEW v \in Timers, IInv', RTypeOK', ticks_pc' = "run",
         \A u \in Timers \ {v} : Undisturbed(u),
         TimerFits(v)', NotLost(v)'
  PROVE  RInv'
<1>1. ASSUME NEW u \in Timers PROVE TimerFits(u)' /\ NotLost(u)'
  BY UndisturbedFits
<1> QED BY <1>1, RInvParts DEF RInv, NoPanic, NoLostTimeout, NotLost, Waits

\* A step that does not touch the wheel.
LEMMA WheelStill ==
  ASSUME RInv, UNCHANGED vars
  PROVE  /\ IInv' /\ TypeOK' /\ now \in Nat
         /\ UNCHANGED <<now, asked, refused, fired, events, Live>>
<1>1. IInv'
  BY WheelStep DEF RInv
<1>2. UNCHANGED <<now, asked, refused, fired, events, Live>>
  BY DEF vars, sys, hist, Live
<1>3. now \in Nat
  BY MaxTimeAssumption DEF RInv, RTypeOK, TypeOK
<1> QED BY <1>1, <1>2, <1>3 DEF IInv

\* timeout_with.
LEMMA CreateStep ==
  ASSUME RInv, NEW v \in Timers, NEW d \in 0 .. MaxDeadline, Create(v, d)
  PROVE  RInv'
<1>1. /\ pc[v] = "none" /\ UNCHANGED <<vars, poller_of, inner, woken, ticks_pc>>
      /\ stats' = [x \in Present \cup {v} |-> IF x = v THEN Pending ELSE stats[x]]
      /\ deadline' = [deadline EXCEPT ![v] = d] /\ pc' = [pc EXCEPT ![v] = "new"]
  BY DEF Create, Goto
<1>2. RTypeOK /\ TimerFits(v) /\ IInv
  BY DEF RInv
<1>3. Present' = Present \cup {v}
  BY <1>1 DEF Present
<1>4. /\ IInv' /\ TypeOK' /\ now \in Nat
      /\ UNCHANGED <<now, asked, refused, fired, events, Live>>
  BY <1>1, WheelStill
<1>5. RTypeOK'
  <2>1. stats' \in [Present' -> IoState]
    BY <1>1, <1>2, <1>3, Kinds DEF RTypeOK
  <2>2. deadline' \in [Timers -> 0 .. MaxDeadline] /\ pc' \in [Timers -> Labels]
    BY <1>1, <1>2 DEF RTypeOK, Labels
  <2> QED BY <1>1, <1>2, <1>3, <1>4, <2>1, <2>2 DEF RTypeOK
<1>6. ASSUME NEW u \in Timers \ {v} PROVE Undisturbed(u)
  BY <1>1, <1>2, <1>3, <1>4 DEF Undisturbed, RTypeOK
<1>7. /\ pc'[v] = "new" /\ v \in Present' /\ stats'[v] = Pending /\ v \notin DOMAIN asked
      /\ v \notin refused /\ v \notin fired /\ v \notin Live /\ v \notin events
  BY <1>1, <1>2, <1>3 DEF TimerFits, WheelFits, RTypeOK, IInv, OnePlace
<1>8. TimerFits(v)' /\ NotLost(v)'
  BY <1>4, <1>7, Kinds DEF TimerFits, EntryFits, WheelFits, IsOver, NotLost
<1> QED BY <1>1, <1>4, <1>5, <1>6, <1>8, OneTimer DEF RInv, NoPanic

\* poll: the wrapped future is ready, the timeout is over, or the waker is
\* stored; every case leaves the entry as the new label says.
LEMMA PollTimeoutStep ==
  ASSUME RInv, NEW v \in Timers, NEW t \in Tasks, PollTimeout(v, t)
  PROVE  RInv'
<1>1. /\ pc[v] \in {"new", "pending"} /\ woken' = woken \ ({v} \X Tasks)
      /\ poller_of' = [poller_of EXCEPT ![v] = t]
      /\ UNCHANGED <<vars, deadline, inner, ticks_pc>>
  BY DEF PollTimeout
<1>2. RTypeOK /\ TimerFits(v) /\ IInv /\ NotLost(v) /\ ticks_pc = "run"
  BY RInvParts
<1>3. /\ IInv' /\ TypeOK' /\ now \in Nat
      /\ UNCHANGED <<now, asked, refused, fired, events, Live>>
  BY <1>1, WheelStill
<1>4. v \in Present /\ stats[v] \in IoState
  BY <1>1, <1>2 DEF TimerFits, EntryFits, RTypeOK
<1>5. \/ pc' = [pc EXCEPT ![v] = "value"] /\ stats' = stats
      \/ pc' = [pc EXCEPT ![v] = "timedout"] /\ stats' = stats /\ stats[v] = Expired
      \/ /\ pc' = [pc EXCEPT ![v] = "insert"] /\ stats[v] = Pending
         /\ stats' = [stats EXCEPT ![v] = TimerOf(t)]
      \/ /\ pc' = [pc EXCEPT ![v] = "pending"] /\ stats[v].kind = "Timer"
         /\ stats' = [stats EXCEPT ![v] = TimerOf(t)]
  BY DEF PollTimeout, FirstPoll, NextPoll, SetState, Goto
<1>6. Present' = Present
  BY <1>5 DEF Present
<1>7. RTypeOK'
  <2>1. stats' \in [Present' -> IoState]
    BY <1>2, <1>5, <1>6, Kinds DEF RTypeOK
  <2>2. pc' \in [Timers -> Labels]
    BY <1>2, <1>5 DEF RTypeOK, Labels
  <2> QED BY <1>1, <1>2, <1>3, <1>6, <2>1, <2>2 DEF RTypeOK
<1>8. ASSUME NEW u \in Timers \ {v} PROVE Undisturbed(u)
  <2>1. u \in Present => stats'[u] = stats[u]
    BY <1>2, <1>5 DEF RTypeOK
  <2>2. pc'[u] = pc[u]
    BY <1>2, <1>5 DEF RTypeOK
  <2>3. poller_of'[u] = poller_of[u]
    BY <1>1, <1>2 DEF RTypeOK
  <2>4. <<u, poller_of[u]>> \in woken => <<u, poller_of[u]>> \in woken'
    BY <1>1
  <2> QED BY <1>1, <1>3, <1>6, <2>1, <2>2, <2>3, <2>4 DEF Undisturbed
<1>9. poller_of'[v] = t
  BY <1>1, <1>2 DEF RTypeOK
<1>10. CASE pc' = [pc EXCEPT ![v] = "value"] /\ stats' = stats
  <2>1. pc'[v] = "value"
    BY <1>2, <1>10 DEF RTypeOK
  <2> QED BY <1>1, <1>2, <1>3, <1>4, <1>6, <1>7, <1>8, <1>10, <2>1, OneTimer
          DEF TimerFits, EntryFits, WheelFits, IsOver, NotLost
<1>11. CASE pc' = [pc EXCEPT ![v] = "timedout"] /\ stats' = stats /\ stats[v] = Expired
  <2>1. pc'[v] = "timedout" /\ pc[v] # "new"
    BY <1>2, <1>11, Kinds DEF RTypeOK, TimerFits, EntryFits
  <2> QED BY <1>1, <1>2, <1>3, <1>4, <1>6, <1>7, <1>8, <1>11, <2>1, OneTimer
          DEF TimerFits, EntryFits, WheelFits, IsOver, NotLost
<1>12. CASE /\ pc' = [pc EXCEPT ![v] = "insert"] /\ stats[v] = Pending
            /\ stats' = [stats EXCEPT ![v] = TimerOf(t)]
  <2>1. pc'[v] = "insert" /\ stats'[v] = TimerOf(t)
    BY <1>2, <1>4, <1>12 DEF RTypeOK, Present
  <2>2. pc[v] = "new"
    BY <1>1, <1>2, <1>12, Kinds DEF NotLost, Waits
  <2>3. v \notin DOMAIN asked /\ v \notin fired /\ v \notin refused
    BY <1>2, <2>2 DEF TimerFits, WheelFits, IInv, OnePlace
  <2>4. TimerFits(v)' /\ NotLost(v)'
    BY <1>1, <1>2, <1>3, <1>4, <1>6, <1>9, <2>1, <2>3, Kinds
    DEF TimerFits, EntryFits, WheelFits, IsOver, NotLost
  <2> QED BY <1>1, <1>2, <1>3, <1>7, <1>8, <2>4, OneTimer
<1>13. CASE /\ pc' = [pc EXCEPT ![v] = "pending"] /\ stats[v].kind = "Timer"
            /\ stats' = [stats EXCEPT ![v] = TimerOf(t)]
  <2>1. pc'[v] = "pending" /\ stats'[v] = TimerOf(t)
    BY <1>2, <1>4, <1>13 DEF RTypeOK, Present
  <2>2. pc[v] = "pending" /\ Waits(v)
    BY <1>1, <1>2, <1>13, Kinds DEF TimerFits, EntryFits, NotLost
  <2>3. Waits(v)'
    BY <1>3, <1>9, <2>1, <2>2 DEF Waits
  <2>4. TimerFits(v)' /\ NotLost(v)'
    BY <1>1, <1>2, <1>3, <1>4, <1>6, <2>1, <2>2, <2>3, Kinds
    DEF TimerFits, EntryFits, WheelFits, IsOver, NotLost
  <2> QED BY <1>1, <1>2, <1>3, <1>7, <1>8, <2>4, OneTimer
<1> QED BY <1>5, <1>10, <1>11, <1>12, <1>13

\* The insertion into the wheel, with the entry unlocked.
LEMMA InsertTimerStep ==
  ASSUME RInv, NEW v \in Timers, InsertTimer(v)
  PROVE  RInv'
<1>1. /\ pc[v] = "insert" /\ Deadline(v, deadline[v])
      /\ pc' = [pc EXCEPT ![v] = IF Accepted(deadline[v]) THEN "armed" ELSE "late"]
      /\ UNCHANGED <<stats, deadline, poller_of, inner, woken, ticks_pc>>
  BY DEF InsertTimer, Goto
<1>2. RTypeOK /\ TimerFits(v) /\ IInv /\ NotLost(v) /\ ticks_pc = "run"
  BY RInvParts
<1> DEFINE d == deadline[v]
<1>3. d \in 0 .. MaxDeadline /\ d \in Nat /\ now \in Nat
  BY <1>2, MaxDeadlineAssumption, MaxTimeAssumption DEF RTypeOK, TypeOK
<1>4. IInv'
  BY <1>1, <1>2, <1>3, WheelStep DEF Next
<1>5. /\ v \notin DOMAIN asked /\ DOMAIN asked' = DOMAIN asked \cup {v} /\ asked'[v] = d
      /\ \A u \in DOMAIN asked : asked'[u] = asked[u]
      /\ UNCHANGED <<now, events, fired>>
      /\ Accepted(d) => Live' = Live \cup {v} /\ refused' = refused
      /\ ~ Accepted(d) => Live' = Live /\ refused' = refused \cup {v} /\ d <= now
  BY <1>1, <1>2, <1>3, DeadlinePlaces
<1>6. Present' = Present /\ v \in Present /\ stats[v] = TimerOf(poller_of[v])
  BY <1>1, <1>2 DEF Present, TimerFits, EntryFits
<1>7. RTypeOK'
  <2>1. pc' \in [Timers -> Labels]
    BY <1>1, <1>2 DEF RTypeOK, Labels
  <2>2. TypeOK'
    BY <1>4 DEF IInv
  <2> QED BY <1>1, <1>2, <1>6, <2>1, <2>2 DEF RTypeOK
<1>8. ASSUME NEW u \in Timers \ {v} PROVE Undisturbed(u)
  <2>1. pc'[u] = pc[u]
    BY <1>1, <1>2 DEF RTypeOK
  <2> QED BY <1>1, <1>3, <1>5, <1>6, <2>1 DEF Undisturbed
<1>9. v \notin fired /\ v \notin refused /\ v \notin events
  BY <1>2, <1>5 DEF IInv, OnePlace
<1>10. CASE Accepted(d)
  <2>1. pc'[v] = "armed" /\ v \in Live' /\ v \notin refused'
    BY <1>1, <1>2, <1>5, <1>9, <1>10 DEF RTypeOK
  <2>2. TimerFits(v)' /\ NotLost(v)'
    BY <1>1, <1>5, <1>6, <1>9, <2>1, Kinds
    DEF TimerFits, EntryFits, WheelFits, IsOver, NotLost, Waits
  <2> QED BY <1>1, <1>2, <1>4, <1>7, <1>8, <2>2, OneTimer
<1>11. CASE ~ Accepted(d)
  <2>1. pc'[v] = "late" /\ v \in refused' /\ d <= now
    BY <1>1, <1>2, <1>5, <1>11 DEF RTypeOK
  <2>2. TimerFits(v)' /\ NotLost(v)'
    BY <1>1, <1>5, <1>6, <1>9, <2>1, Kinds
    DEF TimerFits, EntryFits, WheelFits, IsOver, NotLost, Waits
  <2> QED BY <1>1, <1>2, <1>4, <1>7, <1>8, <2>2, OneTimer
<1> QED BY <1>10, <1>11

\* The end of poll_timeout: the entry is there, and it is not Deadline.
LEMMA RelockStep ==
  ASSUME RInv, NEW v \in Timers, Relock(v)
  PROVE  RInv'
<1>1. /\ pc[v] \in {"armed", "late"}
      /\ UNCHANGED <<vars, deadline, poller_of, inner, woken, ticks_pc>>
  BY DEF Relock
<1>2. RTypeOK /\ TimerFits(v) /\ IInv /\ NotLost(v) /\ ticks_pc = "run"
  BY RInvParts
<1>3. /\ IInv' /\ TypeOK' /\ now \in Nat
      /\ UNCHANGED <<now, asked, refused, fired, events, Live>>
  BY <1>1, WheelStill
<1>4. v \in Present
  BY <1>1, <1>2 DEF TimerFits, EntryFits
<1>5. pc[v] = "armed" => (Waits(v) \/ stats[v] = Expired)
  BY <1>2 DEF TimerFits, EntryFits
<1>6. \/ /\ pc[v] = "late" /\ pc' = [pc EXCEPT ![v] = "timedout"]
         /\ stats' = [stats EXCEPT ![v] = Expired]
      \/ /\ pc[v] = "armed" /\ pc' = [pc EXCEPT ![v] = "timedout"]
         /\ stats[v] = Expired /\ stats' = stats
      \/ /\ pc[v] = "armed" /\ pc' = [pc EXCEPT ![v] = "pending"]
         /\ Waits(v) /\ stats' = stats
  BY <1>4, <1>5, Kinds DEF Relock, SetState, Goto, Waits
<1>7. Present' = Present
  BY <1>6 DEF Present
<1>8. RTypeOK'
  <2>1. stats' \in [Present' -> IoState]
    BY <1>2, <1>6, <1>7, Kinds DEF RTypeOK
  <2>2. pc' \in [Timers -> Labels]
    BY <1>2, <1>6 DEF RTypeOK, Labels
  <2> QED BY <1>1, <1>2, <1>3, <1>7, <2>1, <2>2 DEF RTypeOK
<1>9. ASSUME NEW u \in Timers \ {v} PROVE Undisturbed(u)
  <2>1. pc'[u] = pc[u] /\ (u \in Present => stats'[u] = stats[u])
    BY <1>2, <1>6 DEF RTypeOK
  <2> QED BY <1>1, <1>3, <1>7, <2>1 DEF Undisturbed
<1>10. CASE /\ pc[v] = "late" /\ pc' = [pc EXCEPT ![v] = "timedout"]
            /\ stats' = [stats EXCEPT ![v] = Expired]
  <2>1. pc'[v] = "timedout" /\ stats'[v] = Expired /\ v \in refused
    BY <1>2, <1>4, <1>10 DEF RTypeOK, Present, TimerFits, WheelFits
  <2>2. deadline[v] <= now /\ v \notin Live /\ v \notin events
    BY <1>2, <2>1 DEF TimerFits, IsOver, IInv, OnePlace
  <2>3. TimerFits(v)' /\ NotLost(v)'
    BY <1>1, <1>2, <1>3, <1>4, <1>7, <2>1, <2>2
    DEF TimerFits, EntryFits, WheelFits, IsOver, NotLost
  <2> QED BY <1>1, <1>2, <1>3, <1>8, <1>9, <2>3, OneTimer
<1>11. CASE /\ pc[v] = "armed" /\ pc' = [pc EXCEPT ![v] = "timedout"]
            /\ stats[v] = Expired /\ stats' = stats
  <2>1. pc'[v] = "timedout"
    BY <1>2, <1>11 DEF RTypeOK
  <2>2. TimerFits(v)' /\ NotLost(v)'
    BY <1>1, <1>2, <1>3, <1>4, <1>7, <1>11, <2>1
    DEF TimerFits, EntryFits, WheelFits, IsOver, NotLost
  <2> QED BY <1>1, <1>2, <1>3, <1>8, <1>9, <2>2, OneTimer
<1>12. CASE /\ pc[v] = "armed" /\ pc' = [pc EXCEPT ![v] = "pending"]
            /\ Waits(v) /\ stats' = stats
  <2>1. pc'[v] = "pending"
    BY <1>2, <1>12 DEF RTypeOK
  <2>2. Waits(v)'
    BY <1>1, <1>3, <1>12 DEF Waits
  <2>3. TimerFits(v)' /\ NotLost(v)'
    BY <1>1, <1>2, <1>3, <1>4, <1>7, <1>12, <2>1, <2>2
    DEF TimerFits, EntryFits, WheelFits, IsOver, NotLost
  <2> QED BY <1>1, <1>2, <1>3, <1>8, <1>9, <2>3, OneTimer
<1> QED BY <1>6, <1>10, <1>11, <1>12

\* The wrapped future gets ready.
LEMMA InnerReadyStep ==
  ASSUME RInv, NEW v \in Timers, InnerReady(v)
  PROVE  RInv'
<1>1. /\ UNCHANGED <<vars, stats, deadline, pc, poller_of, ticks_pc>>
      /\ inner' = inner \cup {v}
      /\ woken' = IF pc[v] = "new" THEN woken ELSE woken \cup {<<v, poller_of[v]>>}
  BY DEF InnerReady
<1>2. RTypeOK /\ ticks_pc = "run"
  BY RInvParts
<1>3. /\ IInv' /\ TypeOK' /\ now \in Nat
      /\ UNCHANGED <<now, asked, refused, fired, events, Live>>
  BY <1>1, WheelStill
<1>4. Present' = Present
  BY <1>1 DEF Present
<1>5. RTypeOK'
  <2>1. <<v, poller_of[v]>> \in Timers \X Tasks
    BY <1>2 DEF RTypeOK
  <2> QED BY <1>1, <1>2, <1>3, <1>4, <2>1 DEF RTypeOK
<1>6. ASSUME NEW u \in Timers PROVE Undisturbed(u)
  BY <1>1, <1>3, <1>4 DEF Undisturbed
<1> QED BY <1>1, <1>2, <1>3, <1>5, <1>6, UndisturbedFits, OneTimer

\* The future is dropped; its token may still be in the wheel.
LEMMA DropTimerStep ==
  ASSUME RInv, NEW v \in Timers, DropTimer(v)
  PROVE  RInv'
<1>1. /\ pc[v] \in {"new", "pending", "value", "timedout"}
      /\ UNCHANGED <<vars, deadline, poller_of, inner, woken, ticks_pc>>
      /\ stats' = [x \in Present \ {v} |-> stats[x]]
      /\ pc' = [pc EXCEPT ![v] = "dropped"]
  BY DEF DropTimer, Restrict, Goto
<1>2. RTypeOK /\ TimerFits(v) /\ ticks_pc = "run"
  BY RInvParts
<1>3. /\ IInv' /\ TypeOK' /\ now \in Nat
      /\ UNCHANGED <<now, asked, refused, fired, events, Live>>
  BY <1>1, WheelStill
<1>4. Present' = Present \ {v}
  BY <1>1 DEF Present
<1>5. RTypeOK'
  <2>1. stats' \in [Present' -> IoState]
    BY <1>1, <1>2, <1>4 DEF RTypeOK
  <2>2. pc' \in [Timers -> Labels]
    BY <1>1, <1>2 DEF RTypeOK, Labels
  <2> QED BY <1>1, <1>2, <1>3, <1>4, <2>1, <2>2 DEF RTypeOK
<1>6. ASSUME NEW u \in Timers \ {v} PROVE Undisturbed(u)
  <2>1. pc'[u] = pc[u] /\ (u \in Present => stats'[u] = stats[u])
    BY <1>1, <1>2 DEF RTypeOK
  <2> QED BY <1>1, <1>3, <1>4, <2>1 DEF Undisturbed
<1>7. pc'[v] = "dropped" /\ v \notin Present'
  BY <1>1, <1>2, <1>4 DEF RTypeOK
<1>8. TimerFits(v)' /\ NotLost(v)'
  BY <1>1, <1>2, <1>3, <1>7 DEF TimerFits, EntryFits, WheelFits, IsOver, NotLost
<1> QED BY <1>1, <1>2, <1>3, <1>5, <1>6, <1>8, OneTimer

\* The tick thread raises the timeout of a timer, at most once and only when the
\* entry holds a waker; the owner may be before or after its relock, or gone.
LEMMA RaiseTimeoutStep ==
  ASSUME RInv, NEW v \in Timers, RaiseTimeout(v)
  PROVE  RInv'
<1>1. /\ Drain(v) /\ UNCHANGED <<deadline, pc, poller_of, inner>>
      /\ v \notin Present => UNCHANGED <<stats, woken, ticks_pc>>
      /\ v \in Present =>
           /\ stats' = [stats EXCEPT ![v] = Expired]
           /\ stats[v].kind = "Timer" =>
                woken' = woken \cup {<<v, stats[v].task>>} /\ ticks_pc' = ticks_pc
  BY DEF RaiseTimeout, SetState, WakeTimer
<1>2. RTypeOK /\ TimerFits(v) /\ IInv /\ NotLost(v) /\ ticks_pc = "run"
  BY RInvParts
<1>3. IInv'
  BY <1>1, <1>2, WheelStep DEF Next
<1>4. /\ UNCHANGED <<now, asked, refused, fired>> /\ Live' = Live
      /\ events' = events \ {v} /\ v \in events /\ v \notin Live
      /\ v \in fired /\ v \notin refused
  BY <1>1, <1>2, DrainPlaces
<1>5. now \in Nat
  BY <1>2, MaxTimeAssumption DEF RTypeOK, TypeOK
<1>6. v \in DOMAIN asked /\ deadline[v] <= now
  BY <1>2, <1>4 DEF IInv, OnePlace, TimerFits, IsOver
<1>7. v \in Present => stats[v].kind = "Timer"
  BY <1>2, <1>4 DEF TimerFits, WheelFits
<1>8. Present' = Present
  BY <1>1 DEF Present
<1>9. ticks_pc' = "run"
  BY <1>1, <1>2, <1>7
<1>10. RTypeOK'
  <2>1. stats' \in [Present' -> IoState]
    BY <1>1, <1>2, <1>8, Kinds DEF RTypeOK
  <2>2. woken' \subseteq Timers \X Tasks
    <3>1. CASE v \in Present
      <4>1. PICK t \in Tasks : stats[v] = TimerOf(t)
        BY <1>2, <1>7, <3>1, Kinds DEF RTypeOK
      <4> QED BY <1>1, <1>2, <1>7, <3>1, <4>1, Kinds DEF RTypeOK
    <3> QED BY <1>1, <1>2, <3>1 DEF RTypeOK
  <2> QED BY <1>1, <1>2, <1>3, <1>8, <1>9, <2>1, <2>2 DEF RTypeOK, IInv
<1>11. ASSUME NEW u \in Timers \ {v} PROVE Undisturbed(u)
  <2>1. u \in Present => stats'[u] = stats[u]
    BY <1>1, <1>2 DEF RTypeOK
  <2>2. woken \subseteq woken'
    BY <1>1, <1>7
  <2> QED BY <1>1, <1>4, <1>5, <1>8, <2>1, <2>2 DEF Undisturbed
<1>12. CASE v \notin Present
  <2>1. TimerFits(v)' /\ NotLost(v)'
    BY <1>1, <1>2, <1>4, <1>6, <1>8, <1>12
    DEF TimerFits, EntryFits, WheelFits, IsOver, NotLost
  <2> QED BY <1>2, <1>3, <1>9, <1>10, <1>11, <2>1, OneTimer
<1>13. CASE v \in Present
  <2>1. stats'[v] = Expired
    BY <1>1, <1>2, <1>13 DEF Present
  <2>2. pc[v] \in {"armed", "pending", "value"}
    BY <1>2, <1>4, <1>6, <1>7, <1>13, Kinds
    DEF TimerFits, EntryFits, WheelFits, NotLost, RTypeOK, Labels
  <2>3. pc[v] = "pending" => <<v, poller_of[v]>> \in woken'
    <3>1. pc[v] = "pending" => stats[v] = TimerOf(poller_of[v])
      BY <1>2, <1>7, <1>13, Kinds DEF NotLost, Waits
    <3> QED BY <1>1, <1>7, <1>13, <3>1, Kinds
  <2>4. TimerFits(v)' /\ NotLost(v)'
    BY <1>1, <1>2, <1>4, <1>6, <1>8, <1>13, <2>1, <2>2, <2>3
    DEF TimerFits, EntryFits, WheelFits, IsOver, NotLost
  <2> QED BY <1>2, <1>3, <1>9, <1>10, <1>11, <2>4, OneTimer
<1> QED BY <1>12, <1>13

\* The poll thread of the wheel and the clock disturb no future.
LEMMA WheelRunsStep ==
  ASSUME RInv, WheelRuns \/ UNCHANGED allvars
  PROVE  RInv'
<1>1. UNCHANGED rvars /\ (Poll \/ WakeUp \/ Tick \/ UNCHANGED vars)
  BY DEF WheelRuns, allvars
<1>2. RTypeOK /\ IInv /\ ticks_pc = "run" /\ \A v \in Timers : TimerFits(v)
  BY RInvParts
<1>3. IInv'
  BY <1>1, <1>2, WheelStep DEF Next
<1>4. Present' = Present
  BY <1>1 DEF Present, rvars
<1>5. RTypeOK'
  BY <1>1, <1>2, <1>3, <1>4 DEF RTypeOK, IInv, rvars
<1>6. now \in Nat /\ now' \in Nat
  BY <1>2, <1>3, MaxTimeAssumption DEF IInv, TypeOK
<1>7. ASSUME NEW u \in Timers PROVE Undisturbed(u)
  <2>1. CASE Poll
    <3>1. /\ UNCHANGED <<now, asked, refused>>
          /\ u \in Live' \cup events' <=> u \in Live \cup events
          /\ u \in fired' => u \in fired \/ (u \in DOMAIN asked /\ asked[u] <= now)
      BY <1>2, <2>1, PollPlaces
    <3> QED BY <1>1, <1>4, <1>6, <3>1 DEF Undisturbed, rvars
  <2>2. CASE WakeUp \/ Tick \/ UNCHANGED vars
    <3>1. UNCHANGED <<asked, refused, fired, Live, events>> /\ now' >= now
      BY <1>2, <2>2, QuietPlaces
    <3> QED BY <1>1, <1>4, <1>6, <3>1 DEF Undisturbed, rvars
  <2> QED BY <1>1, <2>1, <2>2
<1>8. \A u \in Timers : TimerFits(u)' /\ NotLost(u)'
  BY <1>7, UndisturbedFits
<1> QED BY <1>1, <1>2, <1>3, <1>5, <1>8, RInvParts
        DEF RInv, NoPanic, NoLostTimeout, NotLost, Waits, rvars

\* The invariant holds in every reachable state.
LEMMA RInvariance == RSpec => []RInv
<1>1. RInv /\ [RNext]_allvars => RInv'
  BY CreateStep, PollTimeoutStep, InsertTimerStep, RelockStep, InnerReadyStep,
     DropTimerStep, RaiseTimeoutStep, WheelRunsStep DEF RNext
<1> QED BY <1>1, RInvInit, PTL DEF RSpec

-----------------------------------------------------------------------------
\* Type correctness of the reactor's timers with the wheel they use, for every
\* set of timers and tasks.
THEOREM TimersTypeCorrect == RSpec => []RTypeOK
<1>1. RInv => RTypeOK
  BY DEF RInv
<1> QED BY <1>1, RInvariance, PTL

\* The arms that reactor.rs declares unreachable, two in poll_timeout and one in
\* timing_wheel_ticks, are: a token leaves the wheel once, after its entry got
\* a waker, and the entry outlives the poll that relocks it.
THEOREM TimersNeverPanic == RSpec => []NoPanic
<1>1. RInv => NoPanic
  BY DEF RInv
<1> QED BY <1>1, RInvariance, PTL

\* A task that waits for a timeout is known to the entry and its token to the
\* wheel, or the timer fired and the task was woken: nothing is lost between
\* the two locks of poll_timeout, nor when another task takes over the future.
THEOREM TimeoutIsNotLost == RSpec => []NoLostTimeout
<1>1. RInv => NoLostTimeout
  BY DEF RInv
<1> QED BY <1>1, RInvariance, PTL

\* No Timeout future reports TimedOut before its deadline, whether the wheel
\* fired the timer or refused to take it.
THEOREM TimeoutIsNotEarly == RSpec => []NotEarly
<1>1. RInv => NotEarly
  <2> SUFFICES ASSUME RInv, NEW v \in Timers, pc[v] = "timedout" PROVE now >= deadline[v]
    BY DEF NotEarly
  <2>1. RTypeOK /\ TimerFits(v)
    BY DEF RInv
  <2>2. v \in Present /\ stats[v] = Expired
    BY <2>1 DEF TimerFits, EntryFits
  <2>3. deadline[v] <= now
    BY <2>1, <2>2 DEF TimerFits, IsOver
  <2>4. deadline[v] \in Nat /\ now \in Nat
    BY <2>1, MaxDeadlineAssumption, MaxTimeAssumption DEF RTypeOK, TypeOK
  <2> QED BY <2>3, <2>4
<1> QED BY <1>1, RInvariance, PTL
=============================================================================
