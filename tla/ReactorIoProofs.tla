--------------------------- MODULE ReactorIoProofs ---------------------------
(***************************************************************************)
(* Proofs about ReactorIo, for every set of tasks, every number of tokens  *)
(* and every set of interests.                                             *)
(***************************************************************************)
EXTENDS ReactorIo, TLAPS

-----------------------------------------------------------------------------
\* The waker of an entry belongs to a task.
LEMMA WakerOwner ==
  ASSUME NEW e, IsWaker(e)
  PROVE  \E u \in Tasks : stats[e] = WakerOf(u) /\ WakerTask(e) = u
BY DEF IsWaker, WakerTask, WakerOf

\* waker.wake() keeps woken a function on the tasks and only sets it.
LEMMA WakeFromType ==
  ASSUME NEW e, woken \in [Tasks -> BOOLEAN], WakeFrom(e)
  PROVE  woken' \in [Tasks -> BOOLEAN]
BY WakerOwner DEF WakeFrom

\* The state of one entry is replaced; the others keep theirs.
LEMMA SetStateType ==
  ASSUME NEW e \in Present, NEW s \in IoState, stats \in [Present -> IoState], SetState(e, s)
  PROVE  /\ DOMAIN stats' = Present
         /\ stats' \in [Present -> IoState]
         /\ stats'[e] = s
         /\ \A x \in Present : x # e => stats'[x] = stats[x]
BY DEF SetState, Present

\* The entries of a token in range.
LEMMA EntriesOfType ==
  ASSUME NEW k \in Tokens, NEW I \in SUBSET Dirs
  PROVE  EntriesOf(k, I) \subseteq Entries
BY DEF EntriesOf, Entries

LEMMA StatesAreStates == /\ None \in IoState /\ Ready \in IoState /\ Shutdown \in IoState
                         /\ \A t \in Tasks : WakerOf(t) \in IoState
BY DEF IoState

\* The four kinds of states differ.
LEMMA StatesDiffer ==
  /\ None # Ready /\ None # Shutdown /\ Ready # Shutdown
  /\ \A t : WakerOf(t) \notin {None, Ready, Shutdown}
  /\ \A t, u : WakerOf(t) = WakerOf(u) => t = u
BY DEF None, Ready, Shutdown, WakerOf

\* The initial state is of the right type.
LEMMA TypeInit == Init => TypeOK
BY MaxTokenAssumption DEF Init, TypeOK, Present, IoState, Entries, Tokens, Dirs

\* Every step keeps the type.
LEMMA TypeStep == TypeOK /\ [Next]_vars => TypeOK'
<1> SUFFICES ASSUME TypeOK, [Next]_vars PROVE TypeOK'
  OBVIOUS
<1> USE StatesAreStates DEF TypeOK
<1>1. ASSUME NEW t \in Tasks, NEW e \in Entries, PollIo(t, e) PROVE TypeOK'
  <2>1. stats' \in [Present -> IoState] /\ DOMAIN stats' = Present
    BY <1>1, SetStateType DEF PollIo, Unlocked, Present
  <2> QED BY <1>1, <2>1 DEF PollIo, Present
<1>2. ASSUME NEW t \in Tasks, IoCompletes(t) PROVE TypeOK'
  BY <1>2 DEF IoCompletes, Present
<1>3. ASSUME NEW t \in Tasks, IoWouldBlock(t) PROVE TypeOK'
  BY <1>3 DEF IoWouldBlock, Present
<1>4. ASSUME NEW t \in Tasks, Relock(t) PROVE TypeOK'
  <2>1. stats' \in [Present -> IoState] /\ DOMAIN stats' = Present
    BY <1>4, SetStateType DEF Relock, Present
  <2> QED BY <1>4, <2>1 DEF Relock, Present
<1>5. ASSUME NEW t \in Tasks, Cancel(t) PROVE TypeOK'
  BY <1>5 DEF Cancel, Present
<1>6. ASSUME NEW I \in Interests, Register(I) PROVE TypeOK'
  <2>1. NewEntries(token_gen, I) \subseteq Entries
    BY <1>6, EntriesOfType, MaxTokenAssumption, InterestsAssumption
       DEF Register, NewEntries, Tokens
  <2>2. /\ DOMAIN stats' = Present \cup NewEntries(token_gen, I)
        /\ stats' \in [Present \cup NewEntries(token_gen, I) -> IoState]
    BY <1>6 DEF Register, Present
  <2>3. EntriesOf(token_gen, I) = NewEntries(token_gen, I)
    BY DEF NewEntries
  <2>4. token_gen' \in 0 .. MaxToken
    BY <1>6, MaxTokenAssumption DEF Register
  <2> QED BY <1>6, <2>1, <2>2, <2>3, <2>4 DEF Register, Present
<1>7. CASE RegisterFails
  BY <1>7, MaxTokenAssumption DEF RegisterFails, Present
<1>8. ASSUME NEW k \in Tokens, Deregister(k) PROVE TypeOK'
  <2>1. /\ DOMAIN stats' = Present \ EntriesOf(k, Dirs)
        /\ stats' \in [Present \ EntriesOf(k, Dirs) -> IoState]
    BY <1>8 DEF Deregister, Restrict, Present
  <2> QED BY <1>8, <2>1 DEF Deregister, Present
<1>9. ASSUME NEW k \in Tokens, NEW I \in ShutdownInterests, ShutdownCall(k, I) PROVE TypeOK'
  BY <1>9, EntriesOfType, ShutdownInterestsAssumption DEF ShutdownCall, Present
<1>10. ASSUME NEW e \in Entries, ShutdownStep(e) PROVE TypeOK'
  <2>1. stats' \in [Present -> IoState] /\ DOMAIN stats' = Present
    BY <1>10, SetStateType DEF ShutdownStep, Present
  <2>2. woken' \in [Tasks -> BOOLEAN]
    BY <1>10, WakeFromType DEF ShutdownStep, ShutdownWakes
  <2> QED BY <1>10, <2>1, <2>2 DEF ShutdownStep, Present
<1>11. ASSUME NEW S \in SUBSET Tokens, PollEvents(S) PROVE TypeOK'
  BY <1>11 DEF PollEvents, Present
<1>12. ASSUME NEW e \in Entries, HandleEvent(e) PROVE TypeOK'
  <2>1. stats' \in [Present -> IoState] /\ DOMAIN stats' = Present
    BY <1>12, SetStateType DEF HandleEvent, MarksReady, Present
  <2>2. woken' \in [Tasks -> BOOLEAN]
    BY <1>12, WakeFromType DEF HandleEvent
  <2> QED BY <1>12, <2>1, <2>2 DEF HandleEvent, Present
<1>13. ASSUME NEW e \in Entries, Arrive(e) PROVE TypeOK'
  BY <1>13 DEF Arrive, Present
<1>14. CASE EventLoopEnds
  BY <1>14 DEF EventLoopEnds, Present
<1>15. CASE UNCHANGED vars
  BY <1>15 DEF vars, Present
<1> QED
  BY <1>1, <1>2, <1>3, <1>4, <1>5, <1>6, <1>7, <1>8, <1>9, <1>10, <1>11, <1>12, <1>13, <1>14,
     <1>15
     DEF Next, TaskStep, ReactorStep

\* Type correctness of the reactor's I/O half.
THEOREM TypeCorrect == Spec => []TypeOK
BY TypeInit, TypeStep, PTL DEF Spec

-----------------------------------------------------------------------------
(***************************************************************************)
(* The inductive invariant.  An entry whose handle is not shared belongs   *)
(* to the one task that is inside poll_io on it or waits for it, and only  *)
(* events and shutdown touch it besides; what tasks do to each other on    *)
(* the shared entries does not reach it.                                   *)
(***************************************************************************)
Busy(t) == pc[t] # "idle"

\* Task t is at work on an entry of its own.
Alone(t) == Busy(t) /\ ~Shared(op[t])

Exclusive == \A t, u \in Tasks : (t # u /\ Alone(t) /\ Busy(u)) => op[t] # op[u]

Owned == \A t \in Tasks : Busy(t) => op[t] \in Present

\* While a task is between its locks no waker is stored in its entry.
Unparked == \A t \in Tasks :
              (pc[t] \in {"io", "relock"} /\ ~Shared(op[t])) =>
                 stats[op[t]] \in {None, Ready, Shutdown}

\* Between WouldBlock and the relock, readiness is recorded or on its way.
Noticed == \A t \in Tasks :
             (pc[t] = "relock" /\ op[t] \in level /\ ~Shared(op[t])) =>
                EdgeInFlight(op[t]) \/ stats[op[t]] \in {Ready, Shutdown}

IInv == TypeOK /\ Exclusive /\ Owned /\ Unparked /\ Noticed /\ PanicsOnlyIfShared /\ NoLostWakeup

\* waker.wake() wakes the task the entry holds and nobody loses a wake-up.
LEMMA WakeFromWakes ==
  ASSUME NEW e, woken \in [Tasks -> BOOLEAN], WakeFrom(e)
  PROVE  \A t \in Tasks : /\ woken[t] => woken'[t]
                          /\ (e \in Present /\ stats[e] = WakerOf(t)) => woken'[t]
<1>1. CASE IsWaker(e)
  <2>1. PICK u \in Tasks : stats[e] = WakerOf(u) /\ WakerTask(e) = u
    BY <1>1, WakerOwner
  <2>2. woken' = [woken EXCEPT ![u] = TRUE]
    BY <1>1, <2>1 DEF WakeFrom
  <2> QED BY <2>1, <2>2, StatesDiffer
<1>2. CASE ~IsWaker(e)
  BY <1>2 DEF WakeFrom, IsWaker
<1> QED BY <1>1, <1>2

LEMMA InvInit == Init => IInv
BY TypeInit DEF Init, IInv, Exclusive, Owned, Unparked, Noticed, PanicsOnlyIfShared, NoLostWakeup, Busy, Alone, Shared

\* Every step keeps the inductive invariant.
LEMMA InvStep == IInv /\ [Next]_vars => IInv'
<1> SUFFICES ASSUME IInv, [Next]_vars PROVE IInv'
  OBVIOUS
<1>t. TypeOK'
  BY TypeStep DEF IInv
<1> DEFINE Rest == Exclusive /\ Owned /\ Unparked /\ Noticed /\ PanicsOnlyIfShared /\ NoLostWakeup
<1> SUFFICES Rest'
  BY <1>t DEF IInv
<1> USE StatesDiffer DEF IInv, TypeOK
<1>1. ASSUME NEW t \in Tasks, NEW e \in Entries, PollIo(t, e) PROVE Rest'
  <2>1. Shared(e) \/ \A u \in Tasks \ {t} : Busy(u) => op[u] # e
    BY <1>1 DEF PollIo, MayUse, Using, Busy
  <2>2. /\ op' = [op EXCEPT ![t] = e] /\ woken' = [woken EXCEPT ![t] = FALSE]
        /\ pc' = [pc EXCEPT ![t] = pc'[t]] /\ pc'[t] \in {"io", "idle"}
    BY <1>1 DEF PollIo
  <2>3. /\ Present' = Present /\ \A x \in Present : x # e => stats'[x] = stats[x]
        /\ e \in Present /\ (pc'[t] = "io" => stats'[e] = None)
    BY <1>1 DEF PollIo, Unlocked, SetState, Present
  <2>4. UNCHANGED <<level, armed, events>>
    BY <1>1 DEF PollIo
  <2>5. Exclusive' /\ Owned' /\ PanicsOnlyIfShared'
    BY <2>1, <2>2, <2>3 DEF Exclusive, Owned, PanicsOnlyIfShared, Busy, Alone, Shared
  <2>6. Unparked' /\ Noticed'
    BY <2>1, <2>2, <2>3, <2>4 DEF Owned, Unparked, Noticed, Busy, Alone, Shared, EdgeInFlight
  <2>7. NoLostWakeup'
    BY <2>1, <2>2, <2>3, <2>4 DEF NoLostWakeup, Busy, Alone, Shared, EdgeInFlight
  <2> QED BY <2>5, <2>6, <2>7
<1>2. ASSUME NEW t \in Tasks, IoCompletes(t) PROVE Rest'
  BY <1>2 DEF IoCompletes, Exclusive, Owned, Unparked, Noticed, PanicsOnlyIfShared, NoLostWakeup,
     Busy, Alone, Shared, EdgeInFlight, Present
<1>3. ASSUME NEW t \in Tasks, IoWouldBlock(t) PROVE Rest'
  BY <1>3 DEF IoWouldBlock, Exclusive, Owned, Unparked, Noticed, PanicsOnlyIfShared, NoLostWakeup,
     Busy, Alone, Shared, EdgeInFlight, Present
<1>4. ASSUME NEW t \in Tasks, Relock(t) PROVE Rest'
  <2>1. op[t] \in Present /\ (IsWaker(op[t]) => Shared(op[t]))
    BY <1>4 DEF Relock, Owned, Unparked, Busy, IsWaker
  <2>2. \A u \in Tasks \ {t} : Alone(u) => op[u] # op[t]
    BY <1>4 DEF Relock, Exclusive, Busy
  <2>3. /\ pc[t] = "relock" /\ pc' = [pc EXCEPT ![t] = pc'[t]]
        /\ UNCHANGED <<level, armed, events, op, woken>>
    BY <1>4 DEF Relock
  <2>4. /\ Present' = Present /\ \A x \in Present : x # op[t] => stats'[x] = stats[x]
        /\ \/ pc'[t] = "pending" /\ stats'[op[t]] = WakerOf(t) /\ stats[op[t]] = None
           \/ pc'[t] = "io" /\ stats'[op[t]] = None
           \/ pc'[t] = "idle"
           \/ pc'[t] = "panicked" /\ Shared(op[t])
    BY <1>4, <2>1 DEF Relock, Parkable, SetState, Present
  <2>5. Exclusive' /\ Owned' /\ PanicsOnlyIfShared'
    BY <2>1, <2>2, <2>3, <2>4 DEF Exclusive, Owned, PanicsOnlyIfShared, Busy, Alone, Shared
  <2>6. Unparked' /\ Noticed'
    BY <2>1, <2>2, <2>3, <2>4
       DEF Owned, Unparked, Noticed, Busy, Alone, Shared, EdgeInFlight
  <2>7. NoLostWakeup'
    BY <2>1, <2>2, <2>3, <2>4 DEF Noticed, NoLostWakeup, Busy, Alone, Shared, EdgeInFlight
  <2> QED BY <2>5, <2>6, <2>7
<1>5. ASSUME NEW t \in Tasks, Cancel(t) PROVE Rest'
  BY <1>5 DEF Cancel, Exclusive, Owned, Unparked, Noticed, PanicsOnlyIfShared, NoLostWakeup,
     Busy, Alone, Shared, EdgeInFlight, Present
<1>6. ASSUME NEW I \in Interests, Register(I) PROVE Rest'
  <2>1. /\ Present \subseteq Present' /\ \A x \in Present : stats'[x] = stats[x]
        /\ UNCHANGED <<events, pc, op, woken>>
        /\ armed \subseteq armed' /\ \A x \in level' \ level : x \in armed'
    BY <1>6 DEF Register, Present
  <2>2. Exclusive' /\ Owned' /\ PanicsOnlyIfShared' /\ Unparked'
    BY <2>1 DEF Exclusive, Owned, PanicsOnlyIfShared, Unparked, Busy, Alone, Shared
  <2>3. Noticed' /\ NoLostWakeup'
    BY <2>1 DEF Owned, Noticed, NoLostWakeup, Busy, Alone, Shared, EdgeInFlight
  <2> QED BY <2>2, <2>3
<1>7. CASE RegisterFails
  BY <1>7 DEF RegisterFails, Exclusive, Owned, Unparked, Noticed, PanicsOnlyIfShared, NoLostWakeup,
     Busy, Alone, Shared, EdgeInFlight, Present
<1>8. ASSUME NEW k \in Tokens, Deregister(k) PROVE Rest'
  <2> DEFINE gone == EntriesOf(k, Dirs)
  <2>1. \A t \in Tasks : Busy(t) => op[t] \notin gone
    BY <1>8 DEF Deregister, Busy, Alone, Shared
  <2>2. /\ Present' = Present \ gone /\ \A x \in Present \ gone : stats'[x] = stats[x]
        /\ UNCHANGED <<events, pc, op, woken>>
        /\ armed' = armed \ gone /\ level' = level \ gone
    BY <1>8 DEF Deregister, Restrict, Present
  <2> HIDE DEF gone
  <2>3. Exclusive' /\ Owned' /\ PanicsOnlyIfShared' /\ Unparked'
    BY <2>1, <2>2 DEF Exclusive, Owned, PanicsOnlyIfShared, Unparked, Busy, Alone, Shared
  <2>4. Noticed' /\ NoLostWakeup'
    BY <2>1, <2>2 DEF Owned, Noticed, NoLostWakeup, Busy, Alone, Shared, EdgeInFlight
  <2> QED BY <2>3, <2>4
<1>9. ASSUME NEW k \in Tokens, NEW I \in ShutdownInterests, ShutdownCall(k, I) PROVE Rest'
  BY <1>9 DEF ShutdownCall, Exclusive, Owned, Unparked, Noticed, PanicsOnlyIfShared, NoLostWakeup,
     Busy, Alone, Shared, EdgeInFlight, Present
<1>10. ASSUME NEW e \in Entries, ShutdownStep(e) PROVE Rest'
  <2>1. CASE e \in Present
    <3>1. /\ Present' = Present /\ stats'[e] = Shutdown
          /\ \A x \in Present : x # e => stats'[x] = stats[x]
          /\ UNCHANGED <<level, armed, events, pc, op>>
      BY <1>10, <2>1 DEF ShutdownStep, SetState, Present
    <3>2. \A t \in Tasks : /\ woken[t] => woken'[t]
                           /\ stats[e] = WakerOf(t) => woken'[t]
      BY <1>10, <2>1, WakeFromWakes DEF ShutdownStep, ShutdownWakes
    <3>3. woken' \in [Tasks -> BOOLEAN]
      BY <1>t
    <3>4. Exclusive' /\ Owned' /\ PanicsOnlyIfShared' /\ Unparked' /\ Noticed'
      BY <3>1 DEF Exclusive, Owned, PanicsOnlyIfShared, Unparked, Noticed, Busy, Alone, Shared, EdgeInFlight
    <3>5. NoLostWakeup'
      BY <3>1, <3>2, <3>3 DEF NoLostWakeup, EdgeInFlight
    <3> QED BY <3>4, <3>5
  <2>2. CASE e \notin Present
    BY <1>10, <2>2 DEF ShutdownStep, Exclusive, Owned, Unparked, Noticed, PanicsOnlyIfShared,
       NoLostWakeup, Busy, Alone, Shared, EdgeInFlight, Present
  <2> QED BY <2>1, <2>2
<1>11. ASSUME NEW S \in SUBSET Tokens, PollEvents(S) PROVE Rest'
  BY <1>11 DEF PollEvents, Exclusive, Owned, Unparked, Noticed, PanicsOnlyIfShared, NoLostWakeup,
     Busy, Alone, Shared, EdgeInFlight, Present
<1>12. ASSUME NEW e \in Entries, HandleEvent(e) PROVE Rest'
  <2>1. CASE MarksReady(e)
    <3>1. /\ Present' = Present /\ stats'[e] = Ready /\ e \in Present
          /\ \A x \in Present : x # e => stats'[x] = stats[x]
          /\ events' = events \ {e} /\ UNCHANGED <<level, armed, pc, op>>
      BY <1>12, <2>1 DEF HandleEvent, MarksReady, SetState, Present
    <3>2. \A t \in Tasks : /\ woken[t] => woken'[t]
                           /\ stats[e] = WakerOf(t) => woken'[t]
      BY <1>12, <2>1, <3>1, WakeFromWakes DEF HandleEvent
    <3>3. woken' \in [Tasks -> BOOLEAN]
      BY <1>t
    <3>4. Exclusive' /\ Owned' /\ PanicsOnlyIfShared' /\ Unparked'
      BY <3>1 DEF Exclusive, Owned, PanicsOnlyIfShared, Unparked, Busy, Alone, Shared
    <3>5. Noticed'
      BY <3>1 DEF Owned, Noticed, Busy, Alone, Shared, EdgeInFlight
    <3>6. NoLostWakeup'
      BY <3>1, <3>2, <3>3 DEF NoLostWakeup, EdgeInFlight
    <3> QED BY <3>4, <3>5, <3>6
  <2>2. CASE ~MarksReady(e)
    <3>1. /\ events' = events \ {e} /\ UNCHANGED <<stats, level, armed, pc, op, woken>>
          /\ e \in Present => stats[e] = Shutdown
      BY <1>12, <2>2 DEF HandleEvent, MarksReady
    <3>2. Exclusive' /\ Owned' /\ PanicsOnlyIfShared' /\ Unparked'
      BY <3>1 DEF Exclusive, Owned, PanicsOnlyIfShared, Unparked, Busy, Alone, Shared, Present
    <3>3. Noticed' /\ NoLostWakeup'
      BY <3>1 DEF Owned, Noticed, NoLostWakeup, Busy, Alone, Shared, EdgeInFlight, Present
    <3> QED BY <3>2, <3>3
  <2> QED BY <2>1, <2>2
<1>13. ASSUME NEW e \in Entries, Arrive(e) PROVE Rest'
  BY <1>13 DEF Arrive, Exclusive, Owned, Unparked, Noticed, PanicsOnlyIfShared, NoLostWakeup,
     Busy, Alone, Shared, EdgeInFlight, Present
<1>14. CASE EventLoopEnds
  BY <1>14 DEF EventLoopEnds, Exclusive, Owned, Unparked, Noticed, PanicsOnlyIfShared,
     NoLostWakeup, Busy, Alone, Shared, EdgeInFlight, Present
<1>15. CASE UNCHANGED vars
  BY <1>15 DEF vars, Exclusive, Owned, Unparked, Noticed, PanicsOnlyIfShared, NoLostWakeup,
     Busy, Alone, Shared, EdgeInFlight, Present
<1> QED
  BY <1>1, <1>2, <1>3, <1>4, <1>5, <1>6, <1>7, <1>8, <1>9, <1>10, <1>11, <1>12, <1>13, <1>14,
     <1>15
     DEF Next, TaskStep, ReactorStep

\* No task that waits on an entry of its own is forgotten, whatever handles are
\* shared beside it: no readiness slips between WouldBlock and the stored waker.
THEOREM IoIsNoticed == Spec => []NoLostWakeup
<1>1. IInv /\ [Next]_vars => IInv'
  BY InvStep
<1>2. IInv => NoLostWakeup
  BY DEF IInv
<1> QED BY <1>1, <1>2, InvInit, PTL DEF Spec

\* The arms of poll_io that are declared impossible (reactor.rs:442 and 482) are
\* reached on the entries of a shared handle only, where two tasks do reach them.
THEOREM PanicNeedsSharing == Spec => []PanicsOnlyIfShared
<1>1. IInv /\ [Next]_vars => IInv'
  BY InvStep
<1>2. IInv => PanicsOnlyIfShared
  BY DEF IInv
<1> QED BY <1>1, <1>2, InvInit, PTL DEF Spec

\* Shutdown is final, with or without shared handles.
THEOREM ShutdownFinal == Spec => ShutdownIsFinal
<1> DEFINE Stays == \A e \in Present : (stats[e] = Shutdown /\ e \in DOMAIN stats')
                                          => stats'[e] = Shutdown
<1>1. TypeOK /\ [Next]_vars => [Stays]_vars
  <2> SUFFICES ASSUME TypeOK, [Next]_vars PROVE Stays
    OBVIOUS
  <2> USE StatesDiffer DEF TypeOK, Present
  <2>1. ASSUME NEW t \in Tasks, TaskStep(t) PROVE Stays
    BY <2>1 DEF TaskStep, PollIo, IoCompletes, IoWouldBlock, Relock, Cancel, Parkable, SetState
  <2>2. ASSUME NEW I \in Interests, Register(I) PROVE Stays
    BY <2>2 DEF Register
  <2>3. ASSUME NEW k \in Tokens, Deregister(k) PROVE Stays
    BY <2>3 DEF Deregister, Restrict
  <2>4. ASSUME NEW e \in Entries, ShutdownStep(e) PROVE Stays
    BY <2>4 DEF ShutdownStep, SetState
  <2>5. ASSUME NEW e \in Entries, HandleEvent(e) PROVE Stays
    BY <2>5 DEF HandleEvent, MarksReady, SetState
  <2>6. CASE UNCHANGED stats
    BY <2>6
  <2> QED
    BY <2>1, <2>2, <2>3, <2>4, <2>5, <2>6
       DEF Next, ReactorStep, RegisterFails, ShutdownCall, PollEvents, EventLoopEnds,
           Arrive, vars
<1> QED BY <1>1, TypeCorrect, PTL DEF Spec, ShutdownIsFinal

-----------------------------------------------------------------------------
(***************************************************************************)
(* Refinement: ReactorIo implements the safety part of AsyncIo.            *)
(***************************************************************************)
Sleeps(t) == pc[t] = "pending" /\ ~woken[t] /\ ~Shared(op[t])
WaitOf    == [t \in Tasks |-> IF Sleeps(t) THEN op[t] ELSE <<>>]
ShutSet   == {e \in Present : stats[e] = Shutdown}

\* The marker of a task that is awake is no entry.
LEMMA NotAnEntry == <<>> \notin Entries
BY DEF Entries

\* Who is asleep in AsyncIo: the task, on its own entry.
LEMMA WaitOfTask ==
  ASSUME TypeOK, NEW t \in Tasks
  PROVE  /\ Sleeps(t) => WaitOf[t] = op[t] /\ WaitOf[t] # <<>>
         /\ ~Sleeps(t) => WaitOf[t] = <<>>
BY NotAnEntry DEF WaitOf, TypeOK

\* A step that wakes no sleeper, puts nobody to sleep, shuts nothing and takes
\* no readiness from a sleeper is a step of the environment, or a stutter.
LEMMA EnvironmentStep ==
  ASSUME TypeOK, TypeOK',
         \A t \in Tasks : Sleeps(t)' = Sleeps(t) /\ (Sleeps(t) => op'[t] = op[t]),
         ShutSet' \subseteq ShutSet,
         \A t \in Tasks : Sleeps(t) /\ op[t] \in level => op[t] \in level'
  PROVE  AsyncPromise!Environment
<1>1. WaitOf' = WaitOf
  BY DEF WaitOf
<1>2. level' \in SUBSET Entries
  BY DEF TypeOK
<1>3. \A t \in Tasks : WaitOf[t] \in level => WaitOf[t] \in level'
  BY WaitOfTask, NotAnEntry DEF TypeOK
<1> QED BY <1>1, <1>2, <1>3 DEF AsyncPromise!Environment, WaitOf, ShutSet, Sleeps

\* A step in which one task is woken or finishes and nothing else changes.
LEMMA ReleaseStep ==
  ASSUME TypeOK, TypeOK', NEW t \in Tasks,
         \A u \in Tasks \ {t} : Sleeps(u)' = Sleeps(u) /\ (Sleeps(u) => op'[u] = op[u]),
         ~Sleeps(t)', ShutSet' = ShutSet, level' = level
  PROVE  [AsyncPromise!Release(t)]_(AsyncPromise!vars)
<1>1. WaitOf' = [WaitOf EXCEPT ![t] = <<>>]
  BY DEF WaitOf
<1>2. CASE Sleeps(t)
  BY <1>1, <1>2, WaitOfTask DEF AsyncPromise!Release, WaitOf, ShutSet, Sleeps
<1>3. CASE ~Sleeps(t)
  <2>1. WaitOf' = WaitOf
    BY <1>1, <1>3, WaitOfTask DEF WaitOf
  <2> QED BY <2>1 DEF AsyncPromise!vars, WaitOf, ShutSet, Sleeps
<1> QED BY <1>2, <1>3

LEMMA AsyncInit == Init => AsyncPromise!Init
BY DEF Init, AsyncPromise!Init, Present

\* Every step of the reactor is one of AsyncIo or a stutter.
LEMMA AsyncStep ==
  IInv /\ IInv' /\ [Next]_vars => [AsyncPromise!Next]_(AsyncPromise!vars)
<1> SUFFICES ASSUME IInv, IInv', [Next]_vars
             PROVE  [AsyncPromise!Next]_(AsyncPromise!vars)
  OBVIOUS
<1> DEFINE Abstract == [AsyncPromise!Next]_(AsyncPromise!vars)
<1>t. TypeOK /\ TypeOK'
  BY DEF IInv
<1>e. AsyncPromise!Environment => Abstract
  BY DEF AsyncPromise!Next
<1>r. \A t \in Tasks : [AsyncPromise!Release(t)]_(AsyncPromise!vars) => Abstract
  BY DEF AsyncPromise!Next
<1> HIDE DEF Abstract
<1>1. ASSUME NEW t \in Tasks, NEW e \in Entries, PollIo(t, e) PROVE Abstract
  <2>1. \A u \in Tasks \ {t} : Sleeps(u)' = Sleeps(u) /\ (Sleeps(u) => op'[u] = op[u])
    BY <1>1, <1>t DEF PollIo, Sleeps, TypeOK
  <2>2. ~Sleeps(t)' /\ level' = level
    BY <1>1, <1>t DEF PollIo, Sleeps, TypeOK
  <2>3. ShutSet' = ShutSet
    BY <1>1, <1>t, StatesDiffer DEF PollIo, Unlocked, SetState, ShutSet, Present
  <2> QED BY <1>t, <1>r, <2>1, <2>2, <2>3, ReleaseStep
<1>2. ASSUME NEW t \in Tasks, IoCompletes(t) PROVE Abstract
  <2>1. \A u \in Tasks : Sleeps(u)' = Sleeps(u) /\ op'[u] = op[u]
    BY <1>2, <1>t DEF IoCompletes, Sleeps, TypeOK
  <2>2. \A u \in Tasks : Sleeps(u) => op[u] # op[t]
    BY <1>2 DEF IoCompletes, Sleeps, IInv, Exclusive, Busy, Alone
  <2>3. \A u \in Tasks : Sleeps(u) /\ op[u] \in level => op[u] \in level'
    BY <1>2, <2>2 DEF IoCompletes
  <2>4. ShutSet' \subseteq ShutSet
    BY <1>2 DEF IoCompletes, ShutSet, Present
  <2> QED BY <1>t, <1>e, <2>1, <2>3, <2>4, EnvironmentStep
<1>3. ASSUME NEW t \in Tasks, IoWouldBlock(t) PROVE Abstract
  <2>1. \A u \in Tasks \ {t} : Sleeps(u)' = Sleeps(u) /\ (Sleeps(u) => op'[u] = op[u])
    BY <1>3, <1>t DEF IoWouldBlock, Sleeps, TypeOK
  <2>2. ~Sleeps(t)' /\ level' = level /\ ShutSet' = ShutSet
    BY <1>3, <1>t DEF IoWouldBlock, Sleeps, TypeOK, ShutSet, Present
  <2> QED BY <1>t, <1>r, <2>1, <2>2, ReleaseStep
<1>4. ASSUME NEW t \in Tasks, Relock(t) PROVE Abstract
  <2>1. \A u \in Tasks \ {t} : Sleeps(u)' = Sleeps(u) /\ (Sleeps(u) => op'[u] = op[u])
    BY <1>4, <1>t DEF Relock, Sleeps, TypeOK
  <2>2. level' = level /\ op' = op /\ ~Sleeps(t)
    BY <1>4 DEF Relock, Sleeps
  <2>3. ShutSet' = ShutSet
    BY <1>4, <1>t, StatesDiffer DEF Relock, Parkable, SetState, ShutSet, Present
  <2>4. CASE ~Sleeps(t)'
    BY <1>t, <1>r, <2>1, <2>2, <2>3, <2>4, ReleaseStep
  <2>5. CASE Sleeps(t)'
    <3> DEFINE unshut == Entries \ ShutSet
    <3>1. PICK e \in unshut : op[t] = e
      BY <1>4, <1>t, <2>5, StatesDiffer
         DEF Relock, Parkable, Sleeps, TypeOK, ShutSet, IInv, Unparked
    <3>2. \A u \in Tasks : WaitOf[u] # e
      <4>1. \A u \in Tasks : Sleeps(u) => op[u] # e
        BY <1>4, <2>2, <3>1 DEF Relock, Sleeps, IInv, Exclusive, Busy, Alone
      <4> QED BY <1>t, <4>1, WaitOfTask, NotAnEntry
    <3>3. WaitOf' = [WaitOf EXCEPT ![t] = e]
      BY <2>1, <2>2, <2>5, <3>1 DEF WaitOf
    <3>4. WaitOf[t] = <<>>
      BY <1>t, <2>2, WaitOfTask
    <3>5. AsyncPromise!Sleep(t, e)
      BY <2>2, <2>3, <3>2, <3>3, <3>4
         DEF AsyncPromise!Sleep, WaitOf, ShutSet, Sleeps
    <3>6. \E x \in Entries : AsyncPromise!Sleep(t, x)
      BY <3>5
    <3>7. AsyncPromise!Next
      BY <3>6 DEF AsyncPromise!Next
    <3> QED BY <3>7 DEF Abstract
  <2> QED BY <2>4, <2>5
<1>5. ASSUME NEW t \in Tasks, Cancel(t) PROVE Abstract
  <2>1. \A u \in Tasks \ {t} : Sleeps(u)' = Sleeps(u) /\ (Sleeps(u) => op'[u] = op[u])
    BY <1>5, <1>t DEF Cancel, Sleeps, TypeOK
  <2>2. ~Sleeps(t)' /\ level' = level /\ ShutSet' = ShutSet
    BY <1>5, <1>t DEF Cancel, Sleeps, TypeOK, ShutSet, Present
  <2> QED BY <1>t, <1>r, <2>1, <2>2, ReleaseStep
<1>6. ASSUME NEW I \in Interests, Register(I) PROVE Abstract
  <2>1. \A u \in Tasks : Sleeps(u)' = Sleeps(u) /\ op'[u] = op[u]
    BY <1>6 DEF Register, Sleeps
  <2>2. \A u \in Tasks : Sleeps(u) /\ op[u] \in level => op[u] \in level'
    BY <1>6 DEF Register
  <2>3. ShutSet' \subseteq ShutSet
    BY <1>6, StatesDiffer DEF Register, ShutSet, Present
  <2> QED BY <1>t, <1>e, <2>1, <2>2, <2>3, EnvironmentStep
<1>7. ASSUME NEW k \in Tokens, Deregister(k) PROVE Abstract
  <2>1. \A u \in Tasks : Sleeps(u)' = Sleeps(u) /\ op'[u] = op[u]
    BY <1>7 DEF Deregister, Sleeps
  <2>2. \A u \in Tasks : Sleeps(u) /\ op[u] \in level => op[u] \in level'
    BY <1>7 DEF Deregister, Sleeps
  <2>3. ShutSet' \subseteq ShutSet
    BY <1>7 DEF Deregister, Restrict, ShutSet, Present
  <2> QED BY <1>t, <1>e, <2>1, <2>2, <2>3, EnvironmentStep
<1>8. ASSUME NEW e \in Entries, ShutdownStep(e), e \in Present PROVE Abstract
  <2>1. level' = level /\ pc' = pc /\ op' = op
    BY <1>8 DEF ShutdownStep
  <2>2. ShutSet' = ShutSet \cup {e}
    BY <1>8, <1>t DEF ShutdownStep, SetState, ShutSet, Present
  <2>3. \A t \in Tasks : /\ woken[t] => woken'[t]
                         /\ stats[e] = WakerOf(t) => woken'[t]
    BY <1>8, <1>t, WakeFromWakes DEF ShutdownStep, ShutdownWakes, TypeOK
  <2>4. \A t \in Tasks : WaitOf[t] = e => ~Sleeps(t)'
    BY <1>8, <1>t, <2>1, <2>3, WaitOfTask, NotAnEntry DEF IInv, NoLostWakeup, Sleeps
  <2>5. \A t \in Tasks : ~Sleeps(t) => ~Sleeps(t)'
    BY <2>1, <2>3 DEF Sleeps
  <2> DEFINE released == {t \in Tasks : ~Sleeps(t)'}
  <2>6. WaitOf' = [t \in Tasks |-> IF WaitOf[t] = e \/ t \in released
                                   THEN <<>> ELSE WaitOf[t]]
    BY <2>1, <2>4, <2>5 DEF WaitOf
  <2>7. AsyncPromise!Shut(e)
    BY <2>1, <2>2, <2>6 DEF AsyncPromise!Shut, WaitOf, ShutSet, Sleeps
  <2> QED BY <2>7 DEF Abstract, AsyncPromise!Next
<1>9. ASSUME NEW e \in Entries, HandleEvent(e) PROVE Abstract
  <2>1. level' = level /\ pc' = pc /\ op' = op
    BY <1>9 DEF HandleEvent
  <2>2. ShutSet' = ShutSet
    BY <1>9, <1>t, StatesDiffer DEF HandleEvent, MarksReady, SetState, ShutSet, Present
  <2>3. CASE MarksReady(e) /\ IsWaker(e)
    <3>1. PICK u \in Tasks : woken' = [woken EXCEPT ![u] = TRUE]
      BY <1>9, <2>3, WakerOwner DEF HandleEvent, WakeFrom
    <3>2. ~Sleeps(u)' /\ \A t \in Tasks \ {u} : Sleeps(t)' = Sleeps(t)
      BY <1>t, <2>1, <3>1 DEF Sleeps, TypeOK
    <3> QED BY <1>t, <1>r, <2>1, <2>2, <3>2, ReleaseStep
  <2>4. CASE ~(MarksReady(e) /\ IsWaker(e))
    <3>1. woken' = woken
      BY <1>9, <2>4 DEF HandleEvent, WakeFrom
    <3>2. \A t \in Tasks : Sleeps(t)' = Sleeps(t)
      BY <2>1, <3>1 DEF Sleeps
    <3> QED BY <1>t, <1>e, <2>1, <2>2, <3>2, EnvironmentStep
  <2> QED BY <2>3, <2>4
<1>10. ASSUME NEW e \in Entries, Arrive(e) PROVE Abstract
  <2>1. \A u \in Tasks : Sleeps(u)' = Sleeps(u) /\ op'[u] = op[u]
    BY <1>10 DEF Arrive, Sleeps
  <2>2. \A u \in Tasks : Sleeps(u) /\ op[u] \in level => op[u] \in level'
    BY <1>10 DEF Arrive
  <2>3. ShutSet' \subseteq ShutSet
    BY <1>10 DEF Arrive, ShutSet, Present
  <2> QED BY <1>t, <1>e, <2>1, <2>2, <2>3, EnvironmentStep
<1>11. ASSUME UNCHANGED <<stats, level, pc, op, woken>> PROVE Abstract
  <2>1. \A u \in Tasks : Sleeps(u)' = Sleeps(u) /\ op'[u] = op[u]
    BY <1>11 DEF Sleeps
  <2>2. ShutSet' \subseteq ShutSet /\ level' = level
    BY <1>11 DEF ShutSet, Present
  <2> QED BY <1>t, <1>e, <2>1, <2>2, EnvironmentStep
<1>12. ASSUME NEW e \in Entries, ShutdownStep(e), e \notin Present PROVE Abstract
  BY <1>11, <1>12 DEF ShutdownStep
<1> HIDE DEF Abstract
<1>13. Abstract
  BY <1>1, <1>2, <1>3, <1>4, <1>5, <1>6, <1>7, <1>8, <1>9, <1>10, <1>11, <1>12
     DEF Next, TaskStep, ReactorStep, RegisterFails, ShutdownCall, PollEvents, EventLoopEnds,
         vars
<1> QED BY <1>13 DEF Abstract

\* For entries that are not shared the reactor implements the safety part of
\* AsyncIo: nobody falls asleep on an entry that is shut, two tasks never sleep on
\* one entry, shutdown releases the sleeper in the same step, and readiness is not
\* taken from a sleeper.
THEOREM AsyncIoSafety == Spec => ImplementsAsyncIoSafety
<1>1. IInv /\ [Next]_vars => IInv'
  BY InvStep
<1>2. IInv /\ IInv' /\ [Next]_vars => [AsyncPromise!Next]_(AsyncPromise!vars)
  BY AsyncStep
<1> QED
  BY <1>1, <1>2, InvInit, AsyncInit, PTL
     DEF Spec, ImplementsAsyncIoSafety, AsyncPromise!Safety
=============================================================================
