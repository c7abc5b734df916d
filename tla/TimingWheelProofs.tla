-------------------------- MODULE TimingWheelProofs --------------------------
(***************************************************************************)
(* The safety of the timing wheel for any number of timers, any tick       *)
(* interval and any deadlines: it keeps account of its timers, they sit in *)
(* the right slot, its thread does not oversleep, and it implements the    *)
(* safety part of TimerService.                                            *)
(***************************************************************************)
EXTENDS TimingWheel, FiniteSetTheorems, WellFoundedInduction, TLAPS

-----------------------------------------------------------------------------
\* The stored tick has begun.
TickRead == ticks * TickInterval <= now

\* The inductive invariant.
IInv == /\ TypeOK /\ SlotsAgree /\ OnePlace
        /\ FirstTickAfter /\ SleepsNoLongerThanNeeded /\ TickRead

-----------------------------------------------------------------------------
\* Arithmetic of ticks: rounding down, rounding up, and multiples.
LEMMA RoundDown ==
  ASSUME NEW t \in Nat \ {0}, NEW n \in Nat
  PROVE  /\ n \div t \in Nat
         /\ (n \div t) * t <= n
         /\ n < (n \div t) * t + t
OBVIOUS

LEMMA RoundUp ==
  ASSUME NEW d \in Nat
  PROVE  /\ SlotOf(d) \in Nat
         /\ SlotOf(d) * TickInterval >= d
         /\ SlotOf(d) * TickInterval < d + TickInterval
<1>1. ASSUME NEW t \in Nat \ {0}
      PROVE  /\ (d + t - 1) \div t \in Nat
             /\ ((d + t - 1) \div t) * t >= d
             /\ ((d + t - 1) \div t) * t < d + t
  OBVIOUS
<1> QED BY <1>1, TickIntervalAssumption DEF SlotOf

LEMMA Multiples ==
  ASSUME NEW t \in Nat, NEW a \in Nat, NEW b \in Nat, a <= b
  PROVE  /\ a * t \in Nat /\ b * t \in Nat /\ a * t <= b * t
         /\ b - a \in Nat /\ (b - a) * t = b * t - a * t
OBVIOUS

\* The top of a heap of numbers is its least element.
LEMMA MinIsLeast ==
  ASSUME NEW S \in SUBSET Nat, S # {}
  PROVE  Min(S) \in S /\ \A y \in S : Min(S) <= y
<1>1. PICK m \in S : \A y \in S : ~(<<y, m>> \in OpToRel(<, Nat))
  BY WFMin, NatLessThanWellFounded
<1>2. \A y \in S : ~ (y < m)
  BY <1>1 DEF OpToRel
<1>3. \A y \in S : m <= y
  BY <1>2
<1> QED BY <1>3 DEF Min

-----------------------------------------------------------------------------
\* The timers that wait are those of some slot.
LEMMA LiveTimers == \A v : v \in Live <=> \E s \in DOMAIN timers : v \in timers[s]
BY DEF Live, Range

\* There are finitely many of them.
LEMMA LiveIsFinite ==
  ASSUME TypeOK
  PROVE  /\ Live \subseteq Timers /\ IsFiniteSet(Live)
         /\ Cardinality(Live) \in Nat
<1>1. Live \subseteq Timers
  BY LiveTimers DEF TypeOK
<1> QED BY <1>1, TimersAssumption, FS_Subset, FS_CardinalityType

\* Inserting a timer adds it to its slot and to nothing else.
LEMMA InsertKeepsSlots ==
  ASSUME TypeOK, SlotsAgree, NEW s \in Nat, NEW v \in Timers, v \notin Live, Insert(s, v)
  PROVE  /\ timers' \in [DOMAIN timers' -> SUBSET Timers]
         /\ DOMAIN timers' = DOMAIN timers \cup {s}
         /\ \A x \in DOMAIN timers' : \A w :
              w \in timers'[x] <=> (w \in At(x) \/ (x = s /\ w = v))
         /\ Live' = Live \cup {v}
         /\ counter' \in Nat
         /\ SlotsAgree'
<1>1. /\ timers' = [x \in DOMAIN timers \cup {s} |-> At(x) \cup (IF x = s THEN {v} ELSE {})]
      /\ priority_queue' = priority_queue \cup {s} /\ counter' = counter + 1
  BY DEF Insert
<1>2. \A x : At(x) = IF x \in DOMAIN timers THEN timers[x] ELSE {}
  BY DEF At
<1>3. \A x : At(x) \in SUBSET Timers
  BY <1>2 DEF TypeOK
<1>4. DOMAIN timers' = DOMAIN timers \cup {s}
  BY <1>1
<1>5. \A x \in DOMAIN timers' : timers'[x] = At(x) \cup (IF x = s THEN {v} ELSE {})
  BY <1>1
<1>6. timers' \in [DOMAIN timers' -> SUBSET Timers]
  BY <1>1, <1>3, <1>4
<1>7. \A x \in DOMAIN timers' : \A w :
        w \in timers'[x] <=> (w \in At(x) \/ (x = s /\ w = v))
  BY <1>5
<1>8. \A w : w \in Live' <=> \E x \in DOMAIN timers' : w \in timers'[x]
  BY DEF Live, Range
<1>9. \A w : w \in Live' <=> w \in Live \/ w = v
  BY <1>2, <1>4, <1>7, <1>8, LiveTimers
<1>10. Live' = Live \cup {v}
  BY <1>9
<1>11. Cardinality(Live') = Cardinality(Live) + 1
  BY <1>10, LiveIsFinite, FS_AddElement
<1>12. counter' = Cardinality(Live') /\ counter' \in Nat
  BY <1>1, <1>11 DEF SlotsAgree, TypeOK
<1>13. ASSUME NEW x \in DOMAIN timers', NEW y \in DOMAIN timers', x # y
       PROVE  timers'[x] \cap timers'[y] = {}
  <2>1. At(x) \cap At(y) = {}
    BY <1>2, <1>13 DEF SlotsAgree
  <2>2. v \notin At(x) /\ v \notin At(y)
    BY <1>2, LiveTimers
  <2> QED BY <1>7, <1>13, <2>1, <2>2
<1>14. \A x \in DOMAIN timers' : timers'[x] # {}
  BY <1>2, <1>4, <1>7 DEF SlotsAgree
<1>15. priority_queue' = DOMAIN timers'
  BY <1>1, <1>4 DEF SlotsAgree
<1> QED BY <1>4, <1>6, <1>7, <1>10, <1>12, <1>13, <1>14, <1>15 DEF SlotsAgree

-----------------------------------------------------------------------------
\* The invariant holds initially.
LEMMA IInvInit == Init => IInv
<1> SUFFICES ASSUME Init PROVE IInv
  OBVIOUS
<1>1. Live = {}
  BY LiveTimers DEF Init
<1>2. TypeOK
  <2>1. 0 \in 0 .. MaxTime
    BY MaxTimeAssumption
  <2>2. timers \in [DOMAIN timers -> SUBSET Timers] /\ DOMAIN timers = {}
    BY DEF Init
  <2>3. asked \in [DOMAIN asked -> 0 .. MaxDeadline] /\ DOMAIN asked = {}
    BY DEF Init
  <2> QED BY <2>1, <2>2, <2>3 DEF Init, TypeOK
<1>3. SlotsAgree
  BY <1>1, FS_EmptySet DEF Init, SlotsAgree
<1>4. OnePlace
  BY <1>1 DEF Init, OnePlace
<1>5. FirstTickAfter
  BY DEF Init, FirstTickAfter
<1>6. SleepsNoLongerThanNeeded
  BY DEF Init, SleepsNoLongerThanNeeded
<1>7. TickRead
  BY TickIntervalAssumption DEF Init, TickRead
<1> QED BY <1>2, <1>3, <1>4, <1>5, <1>6, <1>7 DEF IInv

\* deadline keeps it, whether it accepts the timer or not.
LEMMA DeadlineStep ==
  ASSUME IInv, NEW v \in Timers, NEW d \in 0 .. MaxDeadline, Deadline(v, d)
  PROVE  IInv'
<1>1. /\ v \notin DOMAIN asked
      /\ asked' = [x \in DOMAIN asked \cup {v} |-> IF x = v THEN d ELSE asked[x]]
      /\ UNCHANGED <<now, ticks, poller, wakeAt, events, fired>>
  BY DEF Deadline
<1>2. TypeOK /\ SlotsAgree /\ OnePlace /\ FirstTickAfter /\ SleepsNoLongerThanNeeded /\ TickRead
  BY DEF IInv
<1>3. v \notin Live /\ v \notin refused /\ v \notin fired
  BY <1>1, <1>2 DEF OnePlace
<1>4. /\ DOMAIN asked' = DOMAIN asked \cup {v} /\ asked'[v] = d
      /\ \A x \in DOMAIN asked : asked'[x] = asked[x]
      /\ asked' \in [DOMAIN asked' -> 0 .. MaxDeadline] /\ DOMAIN asked' \subseteq Timers
  BY <1>1, <1>2 DEF TypeOK
<1>5. TickRead'
  BY <1>1, <1>2 DEF TickRead
<1>6. CASE Accepted(d)
  <2> DEFINE slot == SlotOf(d)
  <2>1. Insert(slot, v) /\ Notify /\ UNCHANGED refused
    BY <1>6 DEF Deadline
  <2>2. /\ slot \in Nat /\ slot * TickInterval >= d
        /\ slot * TickInterval < d + TickInterval
    BY RoundUp, MaxDeadlineAssumption
  <2> HIDE DEF slot
  <2>3. /\ timers' \in [DOMAIN timers' -> SUBSET Timers]
        /\ DOMAIN timers' = DOMAIN timers \cup {slot}
        /\ \A x \in DOMAIN timers' : \A w :
             w \in timers'[x] <=> (w \in At(x) \/ (x = slot /\ w = v))
        /\ Live' = Live \cup {v} /\ counter' \in Nat /\ SlotsAgree'
    BY <1>2, <1>3, <2>1, <2>2, InsertKeepsSlots
  <2>4. priority_queue' = priority_queue \cup {slot}
    BY <2>1 DEF Insert
  <2>5. notified' \in BOOLEAN /\ (poller = "sleep" => notified')
    BY <1>2, <2>1 DEF Notify, TypeOK
  <2>6. TypeOK'
    BY <1>1, <1>2, <1>4, <2>1, <2>2, <2>3, <2>4, <2>5 DEF TypeOK
  <2>7. OnePlace'
    BY <1>1, <1>2, <1>3, <1>4, <2>1, <2>3 DEF OnePlace
  <2>8. SleepsNoLongerThanNeeded'
    BY <1>1, <2>5 DEF SleepsNoLongerThanNeeded
  <2>9. ASSUME NEW s \in DOMAIN timers', NEW w \in timers'[s]
        PROVE  s * TickInterval >= asked'[w] /\ s * TickInterval < asked'[w] + TickInterval
    <3>1. CASE s = slot /\ w = v
      BY <1>4, <2>2, <3>1
    <3>2. CASE w \in At(s)
      <4>1. s \in DOMAIN timers /\ w \in timers[s]
        BY <3>2 DEF At
      <4>2. w \in DOMAIN asked
        BY <1>2, <4>1, LiveTimers DEF OnePlace
      <4>3. s * TickInterval >= asked[w] /\ s * TickInterval < asked[w] + TickInterval
        BY <1>2, <4>1 DEF FirstTickAfter
      <4> QED BY <1>4, <4>2, <4>3
    <3> QED BY <2>3, <2>9, <3>1, <3>2
  <2>10. FirstTickAfter'
    BY <2>9 DEF FirstTickAfter
  <2> QED BY <1>5, <2>3, <2>6, <2>7, <2>8, <2>10 DEF IInv
<1>7. CASE ~ Accepted(d)
  <2>1. /\ refused' = refused \cup {v}
        /\ UNCHANGED <<priority_queue, timers, counter, notified>>
    BY <1>7 DEF Deadline
  <2>2. Live' = Live
    BY <2>1 DEF Live
  <2>3. TypeOK'
    BY <1>1, <1>2, <1>4, <2>1 DEF TypeOK
  <2>4. SlotsAgree'
    BY <1>2, <2>1, <2>2 DEF SlotsAgree
  <2>5. OnePlace'
    BY <1>1, <1>2, <1>3, <1>4, <2>1, <2>2 DEF OnePlace
  <2>6. \A s \in DOMAIN timers : \A w \in timers[s] : asked'[w] = asked[w]
    BY <1>2, <1>4, LiveTimers DEF OnePlace
  <2>7. FirstTickAfter'
    BY <1>2, <2>1, <2>6 DEF FirstTickAfter
  <2>8. SleepsNoLongerThanNeeded'
    BY <1>1, <1>2, <2>1 DEF SleepsNoLongerThanNeeded
  <2> QED BY <1>5, <2>3, <2>4, <2>5, <2>7, <2>8 DEF IInv
<1> QED BY <1>6, <1>7

\* What one iteration of poll takes out: whole slots, each of them expired.
Batch == UNION {timers[s] : s \in {x \in priority_queue : IsDue(x, now \div TickInterval)} \cap DOMAIN timers}

LEMMA PollTakesSlots ==
  ASSUME IInv, Poll, NEW tick, tick = now \div TickInterval
  PROVE  /\ tick \in Nat /\ tick * TickInterval <= now
         /\ now < tick * TickInterval + TickInterval
         /\ ticks' = tick
         /\ DOMAIN timers' = {s \in DOMAIN timers : s > tick}
         /\ priority_queue' = DOMAIN timers'
         /\ \A s \in DOMAIN timers' : timers'[s] = timers[s]
         /\ \A v : v \in Batch <=> \E s \in DOMAIN timers : s <= tick /\ v \in timers[s]
         /\ counter' = counter - Cardinality(Batch)
         /\ events' = events \cup Batch /\ fired' = fired \cup Batch
         /\ Live' = Live \ Batch /\ Batch \subseteq Live
<1>1. now \in Nat /\ TickInterval \in Nat \ {0} /\ DOMAIN timers \subseteq Nat
  BY TickIntervalAssumption, MaxTimeAssumption DEF IInv, TypeOK
<1>2. tick \in Nat /\ tick * TickInterval <= now /\ now < tick * TickInterval + TickInterval
  BY <1>1, RoundDown
<1> DEFINE due == {x \in priority_queue : IsDue(x, tick)}
<1>3. Batch = UNION {timers[s] : s \in due \cap DOMAIN timers}
  BY DEF Batch
<1>4. /\ ticks' = tick /\ priority_queue' = priority_queue \ due
      /\ timers' = Restrict(timers, DOMAIN timers \ due)
      /\ counter' = counter - Cardinality(Batch)
      /\ events' = events \cup Batch /\ fired' = fired \cup Batch
  BY <1>3 DEF Poll
<1>5. priority_queue = DOMAIN timers
  BY DEF IInv, SlotsAgree
<1>6. \A s \in DOMAIN timers : s \in due <=> s <= tick
  BY <1>5 DEF IsDue
<1>7. DOMAIN timers' = DOMAIN timers \ due /\ \A s \in DOMAIN timers' : timers'[s] = timers[s]
  BY <1>4 DEF Restrict
<1>8. DOMAIN timers' = {s \in DOMAIN timers : s > tick}
  BY <1>1, <1>2, <1>6, <1>7
<1>9. priority_queue' = DOMAIN timers'
  BY <1>4, <1>5, <1>7
<1>10. \A v : v \in Batch <=> \E s \in DOMAIN timers : s <= tick /\ v \in timers[s]
  BY <1>3, <1>6
<1>11. \A v : v \in Live' <=> \E s \in DOMAIN timers' : v \in timers'[s]
  BY DEF Live, Range
<1>12. Batch \subseteq Live
  BY <1>10, LiveTimers
<1>13. \A s, x \in DOMAIN timers : s # x => timers[s] \cap timers[x] = {}
  BY DEF IInv, SlotsAgree
<1>14. \A v : v \in Live' <=> v \in Live /\ v \notin Batch
  <2>1. ASSUME NEW v, v \in Live' PROVE v \in Live /\ v \notin Batch
    <3>1. PICK s \in DOMAIN timers' : v \in timers'[s]
      BY <2>1, <1>11
    <3>2. s \in DOMAIN timers /\ v \in timers[s] /\ s \notin due
      BY <1>7, <3>1
    <3>3. \A x \in DOMAIN timers : v \in timers[x] => x = s
      BY <1>13, <3>2
    <3> QED BY <1>6, <1>10, <3>2, <3>3, LiveTimers
  <2>2. ASSUME NEW v, v \in Live, v \notin Batch PROVE v \in Live'
    <3>1. PICK s \in DOMAIN timers : v \in timers[s]
      BY <2>2, LiveTimers
    <3>2. s \notin due
      BY <1>6, <1>10, <2>2, <3>1
    <3> QED BY <1>7, <1>11, <3>1, <3>2
  <2> QED BY <2>1, <2>2
<1>15. Live' = Live \ Batch
  BY <1>14
<1> QED BY <1>2, <1>4, <1>7, <1>8, <1>9, <1>10, <1>12, <1>15

\* poll keeps the invariant; in particular the wait it computes ends within one
\* tick after the earliest slot that is left.
LEMMA PollStep == ASSUME IInv, Poll PROVE IInv'
<1> DEFINE tick == now \div TickInterval
<1>1. /\ tick \in Nat /\ tick * TickInterval <= now
      /\ now < tick * TickInterval + TickInterval
      /\ ticks' = tick
      /\ DOMAIN timers' = {s \in DOMAIN timers : s > tick}
      /\ priority_queue' = DOMAIN timers'
      /\ \A s \in DOMAIN timers' : timers'[s] = timers[s]
      /\ \A v : v \in Batch <=> \E s \in DOMAIN timers : s <= tick /\ v \in timers[s]
      /\ counter' = counter - Cardinality(Batch)
      /\ events' = events \cup Batch /\ fired' = fired \cup Batch
      /\ Live' = Live \ Batch /\ Batch \subseteq Live
  BY PollTakesSlots
<1>2. /\ poller' = IF Batch # {} THEN "deliver" ELSE "sleep"
      /\ wakeAt' = IF Batch # {} \/ priority_queue' = {} THEN Never
                   ELSE now + (Min(priority_queue') - tick) * TickInterval
      /\ notified' = FALSE /\ UNCHANGED <<now, asked, refused>>
  BY DEF Poll, Batch
<1> HIDE DEF tick
<1>3. TypeOK /\ SlotsAgree /\ OnePlace /\ FirstTickAfter /\ TickRead
  BY DEF IInv
<1>4. now \in Nat /\ TickInterval \in Nat /\ DOMAIN timers \subseteq Nat
  BY <1>3, TickIntervalAssumption, MaxTimeAssumption DEF TypeOK
<1>5. Batch \subseteq Timers /\ IsFiniteSet(Live)
  BY <1>1, <1>3, LiveIsFinite
<1>6. counter' = Cardinality(Live') /\ counter' \in Nat
  <2>1. Live \cap Batch = Batch /\ IsFiniteSet(Live') /\ Cardinality(Live') = Cardinality(Live) - Cardinality(Live \cap Batch)
    BY <1>1, <1>5, FS_Difference
  <2>2. Cardinality(Live') \in Nat
    BY <2>1, FS_CardinalityType
  <2> QED BY <1>1, <1>3, <2>1, <2>2 DEF SlotsAgree
<1>7. SlotsAgree'
  BY <1>1, <1>3, <1>6 DEF SlotsAgree
<1>8. OnePlace'
  BY <1>1, <1>2, <1>3 DEF OnePlace
<1>9. FirstTickAfter'
  BY <1>1, <1>2, <1>3 DEF FirstTickAfter
<1>10. TickRead'
  BY <1>1, <1>2 DEF TickRead
<1>11. priority_queue' \in SUBSET Nat /\ \A s \in priority_queue' : s > tick
  BY <1>1, <1>4
<1>12. ASSUME Batch = {}, priority_queue' # {}
       PROVE  /\ wakeAt' \in Nat
              /\ \A s \in priority_queue' : wakeAt' < s * TickInterval + TickInterval
  <2> DEFINE least == Min(priority_queue')
  <2>1. least \in priority_queue' /\ \A s \in priority_queue' : least <= s
    BY <1>11, <1>12, MinIsLeast
  <2>2. wakeAt' = now + (least - tick) * TickInterval
    BY <1>2, <1>12
  <2>3. least \in Nat /\ tick <= least
    BY <1>1, <1>11, <2>1
  <2> HIDE DEF least
  <2>4. /\ least * TickInterval \in Nat /\ tick * TickInterval \in Nat
        /\ tick * TickInterval <= least * TickInterval
        /\ (least - tick) * TickInterval = least * TickInterval - tick * TickInterval
    BY <1>1, <1>4, <2>3, Multiples
  <2>5. wakeAt' \in Nat /\ wakeAt' < least * TickInterval + TickInterval
    BY <1>1, <1>4, <2>2, <2>4
  <2>6. \A s \in priority_queue' : s * TickInterval \in Nat /\ least * TickInterval <= s * TickInterval
    BY <1>4, <1>11, <2>1, <2>3, Multiples
  <2> QED BY <1>4, <2>4, <2>5, <2>6
<1>13. SleepsNoLongerThanNeeded'
  BY <1>2, <1>12, NeverAssumption DEF SleepsNoLongerThanNeeded
<1>14. TypeOK'
  <2>1. timers' \in [DOMAIN timers' -> SUBSET Timers] /\ DOMAIN timers' \subseteq Nat
    <3>1. \A s \in DOMAIN timers : timers[s] \in SUBSET Timers
      BY <1>3 DEF TypeOK
    <3>2. timers' = [s \in DOMAIN timers' |-> timers'[s]]
      BY DEF Poll, Restrict
    <3>3. \A s \in DOMAIN timers' : timers'[s] \in SUBSET Timers
      BY <1>1, <3>1
    <3> QED BY <1>1, <1>4, <3>2, <3>3
  <2>2. wakeAt' \in Nat \cup {Never}
    BY <1>2, <1>12
  <2>3. events' \subseteq Timers /\ fired' \subseteq Timers
    BY <1>1, <1>3, <1>5 DEF TypeOK
  <2> QED BY <1>1, <1>2, <1>3, <1>6, <1>11, <2>1, <2>2, <2>3 DEF TypeOK
<1> QED BY <1>7, <1>8, <1>9, <1>10, <1>13, <1>14 DEF IInv

\* The other steps do not touch the slots.
LEMMA OtherStep ==
  ASSUME IInv, WakeUp \/ Tick \/ (\E v \in Timers : Drain(v)) \/ UNCHANGED vars
  PROVE  IInv'
<1>1. UNCHANGED <<sys, hist>> /\ now' \in 0 .. MaxTime /\ now' >= now
  BY MaxTimeAssumption DEF IInv, TypeOK, WakeUp, Tick, Drain, vars
<1>2. Live' = Live
  BY <1>1 DEF Live, sys
<1>3. events' \subseteq events /\ wakeAt' = wakeAt
  BY DEF WakeUp, Tick, Drain, vars, wait
<1>4. poller' \in {"poll", "sleep", "deliver"} /\ notified' \in BOOLEAN
  BY DEF IInv, TypeOK, WakeUp, Tick, Drain, vars, wait
<1>5. poller' = "sleep" => poller = "sleep" /\ notified' = notified
  BY DEF WakeUp, Tick, Drain, vars, wait
<1>6. TypeOK'
  BY <1>1, <1>3, <1>4 DEF IInv, TypeOK, sys, hist
<1>7. SlotsAgree' /\ OnePlace' /\ FirstTickAfter'
  BY <1>1, <1>2, <1>3 DEF IInv, SlotsAgree, OnePlace, FirstTickAfter, sys, hist
<1>8. SleepsNoLongerThanNeeded'
  BY <1>1, <1>3, <1>5 DEF IInv, SleepsNoLongerThanNeeded, sys
<1>9. TickRead'
  <2>1. ticks \in Nat /\ TickInterval \in Nat /\ now \in Nat /\ now' \in Nat
    BY <1>1, TickIntervalAssumption, MaxTimeAssumption DEF IInv, TypeOK
  <2>2. ticks * TickInterval \in Nat /\ ticks * TickInterval <= now /\ ticks' = ticks
    BY <1>1, <2>1, Multiples DEF IInv, TickRead, sys
  <2> QED BY <1>1, <2>1, <2>2 DEF TickRead
<1> QED BY <1>6, <1>7, <1>8, <1>9 DEF IInv

\* Every step keeps the invariant.
LEMMA WheelStep == IInv /\ [Next]_vars => IInv'
BY DeadlineStep, PollStep, OtherStep DEF Next

\* The invariant holds in every reachable state.
LEMMA Invariance == Spec => []IInv
BY IInvInit, WheelStep, PTL DEF Spec

-----------------------------------------------------------------------------
\* Type correctness: the wheel holds what lib.rs declares, for every set of
\* values, tick interval and deadline; counter (usize) stays a natural number.
THEOREM TypeCorrect == Spec => []TypeOK
<1>1. IInv => TypeOK
  BY DEF IInv
<1> QED BY <1>1, Invariance, PTL

\* Heap, slots and counter agree after any sequence of deadline and poll
\* (lib.rs:69-108, 111-155), and a timer that was set is waiting, refused or
\* fired, never two of these and never gone.
THEOREM AccountsForEveryTimer == Spec => []Accounting
<1>1. IInv => Accounting
  BY DEF IInv, Accounting
<1> QED BY <1>1, Invariance, PTL

\* A timer waits in the slot of the first tick at or after its deadline: it is
\* never popped early, and at most one tick late.
THEOREM RightSlot == Spec => []FirstTickAfter
<1>1. IInv => FirstTickAfter
  BY DEF IInv
<1> QED BY <1>1, Invariance, PTL

\* The poll thread does not sleep past a timer, however deadline interleaves
\* with its computing the wait and falling asleep on the condition variable.
THEOREM NeverOversleeps == Spec => []SleepsNoLongerThanNeeded
<1>1. IInv => SleepsNoLongerThanNeeded
  BY DEF IInv
<1> QED BY <1>1, Invariance, PTL

-----------------------------------------------------------------------------
\* deadline refuses a timer only if its deadline is over.
LEMMA RefusedIsOver ==
  ASSUME IInv, NEW d \in 0 .. MaxDeadline, ~ Accepted(d)
  PROVE  d <= now
<1>1. /\ SlotOf(d) \in Nat /\ SlotOf(d) * TickInterval >= d
      /\ d \in Nat /\ now \in Nat /\ ticks \in Nat /\ TickInterval \in Nat
  BY RoundUp, MaxDeadlineAssumption, MaxTimeAssumption, TickIntervalAssumption DEF IInv, TypeOK
<1>2. SlotOf(d) <= ticks
  BY <1>1 DEF Accepted
<1>3. /\ SlotOf(d) * TickInterval \in Nat /\ ticks * TickInterval \in Nat
      /\ SlotOf(d) * TickInterval <= ticks * TickInterval
  BY <1>1, <1>2, Multiples
<1> QED BY <1>1, <1>3 DEF IInv, TickRead

\* poll takes out only timers whose deadline is over.
LEMMA BatchIsOver ==
  ASSUME IInv, Poll, NEW v \in Batch
  PROVE  /\ v \in Live /\ v \in DOMAIN asked /\ v \notin fired /\ v \notin refused
         /\ asked[v] <= now
<1> DEFINE tick == now \div TickInterval
<1>1. /\ tick \in Nat /\ tick * TickInterval <= now
      /\ \A x : x \in Batch <=> \E s \in DOMAIN timers : s <= tick /\ x \in timers[s]
      /\ Batch \subseteq Live
  BY PollTakesSlots
<1> HIDE DEF tick
<1>2. TypeOK /\ OnePlace /\ FirstTickAfter
  BY DEF IInv
<1>3. v \in Live /\ v \in DOMAIN asked /\ v \notin fired /\ v \notin refused
  BY <1>1, <1>2 DEF OnePlace
<1>4. PICK s \in DOMAIN timers : s <= tick /\ v \in timers[s]
  BY <1>1
<1>5. s * TickInterval >= asked[v]
  BY <1>2, <1>4 DEF FirstTickAfter
<1>6. asked[v] \in Nat /\ s \in Nat /\ now \in Nat /\ TickInterval \in Nat
  BY <1>2, <1>3, <1>4, MaxDeadlineAssumption, MaxTimeAssumption, TickIntervalAssumption DEF TypeOK
<1>7. s * TickInterval \in Nat /\ tick * TickInterval \in Nat /\ s * TickInterval <= tick * TickInterval
  BY <1>1, <1>4, <1>6, Multiples
<1> QED BY <1>1, <1>3, <1>5, <1>6, <1>7

-----------------------------------------------------------------------------
\* The refinement mapping: what a user of the service sees of a timer.
Status == [v \in Timers |-> IF v \in fired THEN "fired"
                            ELSE IF v \in refused THEN "refused"
                            ELSE IF v \in Live THEN "armed" ELSE "new"]
Due    == [v \in Timers |-> IF v \in DOMAIN asked THEN asked[v] ELSE 0]

\* deadline sets a timer; what it refuses has expired.
LEMMA DeadlineSets ==
  ASSUME IInv, NEW v \in Timers, NEW d \in 0 .. MaxDeadline, Deadline(v, d)
  PROVE  Service!Set(v, d)
<1>1. /\ v \notin DOMAIN asked
      /\ asked' = [x \in DOMAIN asked \cup {v} |-> IF x = v THEN d ELSE asked[x]]
      /\ UNCHANGED <<now, ticks, fired>>
  BY DEF Deadline
<1>2. TypeOK /\ SlotsAgree /\ OnePlace /\ TickRead
  BY DEF IInv
<1>3. v \notin Live /\ v \notin refused /\ v \notin fired
  BY <1>1, <1>2 DEF OnePlace
<1>4. Status[v] = "new"
  BY <1>3 DEF Status
<1>5. Due' = [Due EXCEPT ![v] = d]
  BY <1>1 DEF Due
<1>6. CASE Accepted(d)
  <2>1. Insert(SlotOf(d), v) /\ UNCHANGED refused
    BY <1>6 DEF Deadline
  <2>2. SlotOf(d) \in Nat
    BY RoundUp, MaxDeadlineAssumption
  <2>3. Live' = Live \cup {v}
    BY <1>2, <1>3, <2>1, <2>2, InsertKeepsSlots
  <2>4. Status' = [Status EXCEPT ![v] = "armed"]
    BY <1>1, <1>3, <2>1, <2>3 DEF Status
  <2> QED BY <1>1, <1>4, <1>5, <2>4 DEF Service!Set, Status, Due
<1>7. CASE ~ Accepted(d)
  <2>1. refused' = refused \cup {v} /\ UNCHANGED timers
    BY <1>7 DEF Deadline
  <2>2. Live' = Live
    BY <2>1 DEF Live
  <2>3. Status' = [Status EXCEPT ![v] = "refused"]
    BY <1>1, <1>3, <2>1, <2>2 DEF Status
  <2>4. d <= now
    BY <1>7, RefusedIsOver
  <2> QED BY <1>1, <1>4, <1>5, <2>3, <2>4 DEF Service!Set, Status, Due
<1> QED BY <1>6, <1>7

\* poll fires the timers of its batch, all of them expired, or changes nothing
\* the user sees.
LEMMA PollFires ==
  ASSUME IInv, Poll
  PROVE  (\E B \in SUBSET Timers : Service!Fire(B)) \/ UNCHANGED Service!vars
<1> DEFINE tick == now \div TickInterval
<1>1. /\ tick \in Nat /\ tick * TickInterval <= now
      /\ \A v : v \in Batch <=> \E s \in DOMAIN timers : s <= tick /\ v \in timers[s]
      /\ fired' = fired \cup Batch
      /\ Live' = Live \ Batch /\ Batch \subseteq Live
  BY PollTakesSlots
<1> HIDE DEF tick
<1>2. UNCHANGED <<now, asked, refused>>
  BY DEF Poll
<1>3. TypeOK /\ OnePlace /\ FirstTickAfter
  BY DEF IInv
<1>4. Batch \in SUBSET Timers
  BY <1>1, <1>3, LiveIsFinite
<1>5. Status' = [v \in Timers |-> IF v \in Batch THEN "fired" ELSE Status[v]]
  BY <1>1, <1>2 DEF Status
<1>6. Due' = Due
  BY <1>2 DEF Due
<1>7. \A v \in Batch : Status[v] = "armed" /\ Due[v] <= now
  BY <1>4, BatchIsOver DEF Status, Due
<1>8. CASE Batch # {}
  <2>1. PICK B \in SUBSET Timers : B = Batch
    BY <1>4
  <2>2. \A v \in B : Service!Expired(v)
    BY <1>7, <2>1 DEF Service!Expired, Status, Due
  <2>3. Service!Fire(B)
    BY <1>2, <1>5, <1>6, <1>8, <2>1, <2>2 DEF Service!Fire, Status, Due
  <2> QED BY <2>3
<1>9. CASE Batch = {}
  <2>1. Status' = Status
    BY <1>5, <1>9 DEF Status
  <2> QED BY <1>2, <1>6, <2>1 DEF Service!vars, Status, Due
<1> QED BY <1>8, <1>9

\* Everything else lets time pass or is not seen.
LEMMA OtherIsUnseen ==
  ASSUME IInv, WakeUp \/ Tick \/ (\E v \in Timers : Drain(v)) \/ UNCHANGED vars
  PROVE  Service!TimePasses \/ UNCHANGED Service!vars
<1>1. UNCHANGED <<timers, hist>> /\ (now' = now \/ now' = now + 1)
  BY DEF WakeUp, Tick, Drain, vars, sys
<1>2. Status' = Status /\ Due' = Due
  BY <1>1 DEF Status, Due, Live, hist
<1>3. now \in Nat
  BY MaxTimeAssumption DEF IInv, TypeOK
<1>4. CASE now' = now
  BY <1>2, <1>4 DEF Service!vars, Status, Due
<1>5. CASE now' = now + 1
  <2>1. now' > now
    BY <1>3, <1>5
  <2> QED BY <1>2, <2>1 DEF Service!TimePasses, Status, Due
<1> QED BY <1>1, <1>4, <1>5

\* The wheel of lib.rs implements the safety of a timer facility: deadline
\* refuses only what has expired, and every timer fires at most once and not
\* before its deadline.
THEOREM TimerServiceSafety == Spec => ImplementsTimerServiceSafety
<1>1. Init => Service!Init
  <2> SUFFICES ASSUME Init PROVE Service!Init
    OBVIOUS
  <2>1. Live = {}
    BY LiveTimers DEF Init
  <2> QED BY <2>1 DEF Init, Service!Init
<1>2. IInv /\ [Next]_vars => [Service!Next]_(Service!vars)
  <2> SUFFICES ASSUME IInv, [Next]_vars PROVE [Service!Next]_(Service!vars)
    OBVIOUS
  <2>1. ASSUME NEW v \in Timers, NEW d \in 0 .. MaxDeadline, Deadline(v, d)
        PROVE  Service!Next
    BY <2>1, DeadlineSets DEF Service!Next
  <2>2. ASSUME Poll PROVE Service!Next \/ UNCHANGED Service!vars
    BY <2>2, PollFires DEF Service!Next
  <2>3. ASSUME WakeUp \/ Tick \/ (\E v \in Timers : Drain(v)) \/ UNCHANGED vars
        PROVE  Service!Next \/ UNCHANGED Service!vars
    BY <2>3, OtherIsUnseen DEF Service!Next
  <2> QED BY <2>1, <2>2, <2>3 DEF Next
<1> QED BY <1>1, <1>2, Invariance, PTL DEF Spec, ImplementsTimerServiceSafety, Service!Safety
=============================================================================
