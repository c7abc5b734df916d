------------------------------ MODULE ReactorIo ------------------------------
(***************************************************************************)
(* The I/O half of the reactor (crates/n3io/src/reactor.rs).               *)
(*                                                                         *)
(* A source registered with the reactor has a token and, for each          *)
(* direction of its interest, an entry in io_readable_stats or             *)
(* io_writable_stats.  The two maps are one function here: stats, indexed  *)
(* by entries <<token, direction>>; an absent key is outside its domain.   *)
(* Tasks of a thread pool run poll_io on entries, a dedicated thread runs  *)
(* io_events_loop, and any thread may call shutdown.  Every critical       *)
(* section of an entry's lock is one action; what runs between an unlock   *)
(* and the next lock (the I/O operation itself) is an action of its own,   *)
(* so the steps of all threads interleave there.                           *)
(*                                                                         *)
(* The kernel is modelled as mio uses it: edge-triggered epoll.            *)
(***************************************************************************)
EXTENDS Naturals, FiniteSets, Functions

CONSTANTS Tasks,      \* asynchronous tasks that run I/O operations
          MaxToken,   \* bound: tokens 0..MaxToken-1 are handed out
          Interests,  \* the interest sets sources are registered with
          ShutdownInterests, \* the interest sets shutdown is called with
          SharedDirs, \* directions whose handle is cloned into several tasks
          MaxPollEvents \* sources reported by one poll.poll (Events::with_capacity)

Dirs == {"readable", "writable"}

ASSUME TasksAssumption == IsFiniteSet(Tasks)
ASSUME MaxTokenAssumption == MaxToken \in Nat \ {0}
ASSUME InterestsAssumption == Interests \subseteq (SUBSET Dirs)
ASSUME ShutdownInterestsAssumption == ShutdownInterests \subseteq (SUBSET Dirs)
ASSUME SharedDirsAssumption == SharedDirs \subseteq Dirs
ASSUME MaxPollEventsAssumption == MaxPollEvents \in Nat \ {0}

Tokens  == 0 .. (MaxToken - 1)
Entries == Tokens \X Dirs

VARIABLES stats,      \* entry -> IoState, for the entries present in the maps
          token_gen,  \* the next token
          level,      \* kernel: entries whose operation would not block now
          armed,      \* kernel: entries with an edge epoll has not reported yet
          events,     \* the batch io_events_loop still has to handle
          pc,         \* where each task is in poll_io
          op,         \* the entry each task works on
          woken,      \* the executor was asked to poll the task again
          closing,    \* entries an in-progress shutdown still has to replace
          looping     \* io_events_loop has not ended

vars == <<stats, token_gen, level, armed, events, pc, op, woken, closing, looping>>

-----------------------------------------------------------------------------
None     == [kind |-> "None"]
Ready    == [kind |-> "Ready"]
Shutdown == [kind |-> "Shutdown"]
WakerOf(t) == [kind |-> "Waker", task |-> t]

IoState == {None, Ready, Shutdown} \cup {WakerOf(t) : t \in Tasks}

Present == DOMAIN stats
IsWaker(e) == e \in Present /\ stats[e] \in {WakerOf(u) : u \in Tasks}
WakerTask(e) == stats[e].task

\* The entries of a source whose file descriptor the kernel watches.
EntriesOf(k, I) == {k} \X I

\* Task t is inside an operation on entry e (polled and not yet finished).
Using(t, e) == pc[t] # "idle" /\ op[t] = e

\* The borrow rules: `&mut` halves are polled by one task at a time; a handle
\* behind an Arc (SharedDirs) is polled by every task that holds a clone.
Shared(e) == e[2] \in SharedDirs

MayUse(t, e) == Shared(e) \/ \A u \in Tasks \ {t} : ~Using(u, e)

\* waker.wake(): schedules the task the entry holds, if it holds one.
WakeFrom(e) == IF IsWaker(e)
               THEN woken' = [woken EXCEPT ![WakerTask(e)] = TRUE]
               ELSE UNCHANGED woken

SetState(e, s) == stats' = [stats EXCEPT ![e] = s]

-----------------------------------------------------------------------------
Init == /\ stats = [e \in {} |-> None]
        /\ token_gen = 0
        /\ level = {} /\ armed = {} /\ events = {}
        /\ pc = [t \in Tasks |-> "idle"]
        /\ op \in [Tasks -> {<<0, "readable">>}]
        /\ woken = [t \in Tasks |-> FALSE]
        /\ closing = {}
        /\ looping = TRUE

(***************************************************************************)
(* register: next_token inserts the entries, registry.register either      *)
(* watches the source (whose current readiness is the first edge) or       *)
(* fails, and drop_token removes the entries again.                        *)
(***************************************************************************)
\* Mutant of NewEntries: a writable entry only for sources that are not readable.
NewEntriesEither(k, I) ==
  EntriesOf(k, IF "readable" \in I THEN {"readable"} ELSE I)

NewEntries(k, I) == EntriesOf(k, I)

Register(I) ==
  /\ token_gen < MaxToken
  /\ token_gen' = token_gen + 1
  /\ stats' = [e \in Present \cup NewEntries(token_gen, I) |->
                 IF e \in Present THEN stats[e] ELSE None]
  /\ \E L \in SUBSET EntriesOf(token_gen, I) :
       level' = level \cup L /\ armed' = armed \cup L
  /\ UNCHANGED <<events, pc, op, woken, closing, looping>>

RegisterFails ==
  /\ token_gen < MaxToken
  /\ token_gen' = token_gen + 1
  /\ UNCHANGED <<stats, level, armed, events, pc, op, woken, closing, looping>>

(***************************************************************************)
(* deregister: called by Drop of the source, when no handle is left that   *)
(* an operation or a shutdown could run on.  An event of the source may    *)
(* already be in the batch.                                                *)
(***************************************************************************)
Deregister(k) ==
  LET gone == EntriesOf(k, Dirs) IN
  /\ gone \cap Present # {}
  /\ \A t \in Tasks : pc[t] = "idle" \/ op[t] \notin gone
  /\ closing \cap gone = {}
  /\ stats' = Restrict(stats, Present \ gone)
  /\ level' = level \ gone
  /\ armed' = armed \ gone
  /\ UNCHANGED <<token_gen, events, pc, op, woken, closing, looping>>

\* Mutant of Unlocked: poll_io leaves the waker of the last poll in the entry.
UnlockedKeepsWaker(s) == IF s = Ready THEN None ELSE s

\* The state poll_io leaves in the entry while the operation runs.
Unlocked(s) == None

(***************************************************************************)
(* poll_io, up to the unlock.  A task polls a new operation, polls its     *)
(* pending operation because it was woken, or polls it for another reason  *)
(* (a sibling future of the same task was woken).                          *)
(***************************************************************************)
PollIo(t, e) ==
  /\ pc[t] = "idle" \/ (pc[t] = "pending" /\ op[t] = e)
  /\ e \in Present
  /\ MayUse(t, e)
  /\ op' = [op EXCEPT ![t] = e]
  /\ woken' = [woken EXCEPT ![t] = FALSE]
  /\ \/ /\ stats[e] # Shutdown
        /\ SetState(e, Unlocked(stats[e]))
        /\ pc' = [pc EXCEPT ![t] = "io"]
     \/ /\ stats[e] = Shutdown
        /\ pc' = [pc EXCEPT ![t] = "idle"]
        /\ UNCHANGED stats
  /\ UNCHANGED <<token_gen, level, armed, events, closing, looping>>

\* io_f succeeds (or fails for good): poll_io returns; data may be left over.
IoCompletes(t) ==
  /\ pc[t] = "io" /\ op[t] \in level
  /\ level' \in {level, level \ {op[t]}}
  /\ pc' = [pc EXCEPT ![t] = "idle"]
  /\ UNCHANGED <<stats, token_gen, armed, events, op, woken, closing, looping>>

\* io_f reports WouldBlock; the entry is not locked yet.
IoWouldBlock(t) ==
  /\ pc[t] = "io" /\ op[t] \notin level
  /\ pc' = [pc EXCEPT ![t] = "relock"]
  /\ UNCHANGED <<stats, token_gen, level, armed, events, op, woken, closing, looping>>

\* Mutant of Parkable: the waker is stored over an event that came in between.
ParkableIfReady(s) == s \in {None, Ready}

Parkable(s) == s = None

(***************************************************************************)
(* poll_io after WouldBlock, under the entry's lock again: park on a quiet *)
(* entry, retry if an event came in between, fail if it was shut down.     *)
(* The last case are the arms the code calls impossible: expect and        *)
(* unreachable!("multi-thread call `poll_io` on same io").                 *)
(***************************************************************************)
Relock(t) ==
  LET e == op[t] IN
  /\ pc[t] = "relock"
  /\ \/ /\ e \in Present /\ Parkable(stats[e])
        /\ SetState(e, WakerOf(t))
        /\ pc' = [pc EXCEPT ![t] = "pending"]
     \/ /\ e \in Present /\ stats[e] = Ready
        /\ SetState(e, None)
        /\ pc' = [pc EXCEPT ![t] = "io"]
     \/ /\ e \in Present /\ stats[e] = Shutdown
        /\ pc' = [pc EXCEPT ![t] = "idle"]
        /\ UNCHANGED stats
     \/ /\ e \notin Present \/ IsWaker(e)
        /\ pc' = [pc EXCEPT ![t] = "panicked"]
        /\ UNCHANGED stats
  /\ UNCHANGED <<token_gen, level, armed, events, op, woken, closing, looping>>

\* The future is dropped while pending (a Timeout expired, a select was won by
\* another branch); the entry keeps the task's waker.
Cancel(t) ==
  /\ pc[t] = "pending"
  /\ pc' = [pc EXCEPT ![t] = "idle"]
  /\ UNCHANGED <<stats, token_gen, level, armed, events, op, woken, closing, looping>>

(***************************************************************************)
(* shutdown(io, interests): a call replaces the readable entry, then the   *)
(* writable one, each under its own lock; a missing entry ends the call.   *)
(***************************************************************************)
ShutdownCall(k, I) ==
  /\ closing = {}
  /\ EntriesOf(k, Dirs) \cap Present # {}
  /\ closing' = EntriesOf(k, I)
  /\ UNCHANGED <<stats, token_gen, level, armed, events, pc, op, woken, looping>>

ReadableFirst(e, S) == e[2] = "writable" => <<e[1], "readable">> \notin S

\* Mutant of ShutdownWakes: shutdown replaces the waker and does not call it.
ShutdownForgets(e) == UNCHANGED woken

ShutdownWakes(e) == WakeFrom(e)

ShutdownStep(e) ==
  /\ e \in closing /\ ReadableFirst(e, closing)
  /\ \/ /\ e \in Present
        /\ SetState(e, Shutdown)
        /\ ShutdownWakes(e)
        /\ closing' = closing \ {e}
     \/ /\ e \notin Present
        /\ closing' = {}
        /\ UNCHANGED <<stats, woken>>
  /\ UNCHANGED <<token_gen, level, armed, events, pc, op, looping>>

(***************************************************************************)
(* io_events_loop: poll.poll fetches a batch, then each event's readable   *)
(* and writable part is handled under the lock of its entry.  An error of  *)
(* poll.poll ends the loop, and nothing starts it again.                   *)
(***************************************************************************)
PollEvents(S) ==
  /\ looping /\ events = {}
  /\ S # {} /\ Cardinality(S) <= MaxPollEvents
  /\ \A k \in S : \E e \in armed : e[1] = k
  /\ events' = {e \in armed : e[1] \in S}
  /\ armed' = armed \ events'
  /\ UNCHANGED <<stats, token_gen, level, pc, op, woken, closing, looping>>

EventLoopEnds ==
  /\ looping /\ events = {}
  /\ looping' = FALSE
  /\ UNCHANGED <<stats, token_gen, level, armed, events, pc, op, woken, closing>>

\* Mutant of MarksReady: an event overwrites Shutdown as well.
MarksReadyAlways(e) == e \in Present

MarksReady(e) == e \in Present /\ stats[e] # Shutdown

HandleEvent(e) ==
  /\ e \in events /\ ReadableFirst(e, events)
  /\ events' = events \ {e}
  /\ IF MarksReady(e)
     THEN SetState(e, Ready) /\ WakeFrom(e)
     ELSE UNCHANGED <<stats, woken>>
  /\ UNCHANGED <<token_gen, level, armed, pc, op, closing, looping>>

\* Data or buffer space arrives, or the peer closes: edge-triggered epoll
\* reports it even when the operation would already not block.
Arrive(e) ==
  /\ e \in Present
  /\ level' = level \cup {e}
  /\ armed' = armed \cup {e}
  /\ UNCHANGED <<stats, token_gen, events, pc, op, woken, closing, looping>>

-----------------------------------------------------------------------------
TaskStep(t) == \/ \E e \in Entries : PollIo(t, e)
               \/ IoCompletes(t) \/ IoWouldBlock(t) \/ Relock(t) \/ Cancel(t)

ReactorStep == \/ \E S \in SUBSET Tokens : PollEvents(S)
               \/ EventLoopEnds
               \/ \E e \in Entries : HandleEvent(e)

Next == \/ \E t \in Tasks : TaskStep(t)
        \/ \E I \in Interests : Register(I)
        \/ RegisterFails
        \/ \E k \in Tokens : Deregister(k)
        \/ \E k \in Tokens, I \in ShutdownInterests : ShutdownCall(k, I)
        \/ \E e \in Entries : ShutdownStep(e)
        \/ ReactorStep
        \/ \E e \in Entries : Arrive(e)

Spec == Init /\ [][Next]_vars

\* What a running or woken task does next; the executor never abandons it.
Proceed(t) == \/ woken[t] /\ pc[t] = "pending" /\ PollIo(t, op[t])
              \/ IoCompletes(t) \/ IoWouldBlock(t) \/ Relock(t)

\* Threads of the pool, the event loop (until it ends) and a started shutdown
\* call run on; epoll reports its ready list in FIFO order, so no source is passed over
\* for ever.
Fairness == /\ \A t \in Tasks : WF_vars(Proceed(t))
            /\ \A e \in Entries : WF_vars(HandleEvent(e))
            /\ \A e \in Entries : WF_vars(ShutdownStep(e))
            /\ \A k \in Tokens :
                 SF_vars(\E S \in SUBSET Tokens : k \in S /\ PollEvents(S))

FairSpec == Spec /\ Fairness

-----------------------------------------------------------------------------
TypeOK == /\ Present \subseteq Entries
          /\ stats \in [Present -> IoState]
          /\ token_gen \in 0 .. MaxToken
          /\ level \subseteq Present /\ armed \subseteq Present
          /\ events \subseteq Entries /\ closing \subseteq Entries
          /\ pc \in [Tasks -> {"idle", "io", "relock", "pending", "panicked"}]
          /\ op \in [Tasks -> Entries]
          /\ woken \in [Tasks -> BOOLEAN]
          /\ looping \in BOOLEAN

\* What the assertions of poll_io say (reactor.rs:442 and 482): no task runs into
\* an arm that the code declares impossible.
NoPanic == \A t \in Tasks : pc[t] # "panicked"

\* Only a handle that several tasks share can get there: on any other entry nobody
\* removes the entry or stores another waker in it between the unlock and the
\* relock of poll_io (reactor.rs:436-442), whatever happens to the shared ones.
PanicsOnlyIfShared == \A t \in Tasks : pc[t] = "panicked" => Shared(op[t])

\* The reactor owes a wake-up for e: an edge is on its way to io_events_loop.
EdgeInFlight(e) == e \in armed \cup events

\* A task that got Poll::Pending on an entry only its handle reaches, and has not
\* been woken, is the one the entry will wake, and if the source became ready in the meantime (before the waker
\* was stored, while the batch was handled, ...) the event is still to come:
\* no readiness slips between io_f's WouldBlock and the stored waker.
NoLostWakeup ==
  \A t \in Tasks : (pc[t] = "pending" /\ ~woken[t] /\ ~Shared(op[t])) =>
     /\ op[t] \in Present /\ stats[op[t]] = WakerOf(t)
     /\ op[t] \in level => EdgeInFlight(op[t])

\* Shutdown is final: no event, no poll_io and no later call puts an entry
\* back to a state in which an operation could park on it.
ShutdownIsFinal ==
  [][\A e \in Present : (stats[e] = Shutdown /\ e \in DOMAIN stats')
                           => stats'[e] = Shutdown]_vars

\* poll_io's documented promise (reactor.rs:405-407): the task whose operation
\* returned Pending is notified when the object becomes ready, so it does not
\* stay parked for ever on a source that stays ready while the event loop runs.
NotifiedWhenReady ==
  []looping => \A t \in Tasks : ~<>[](pc[t] = "pending" /\ op[t] \in level)

-----------------------------------------------------------------------------
\* A task sleeps on an entry of its own from its Pending to its wake-up.
AsyncPromise == INSTANCE AsyncIo WITH
  NoEntry <- <<>>,
  ready   <- level,
  shut    <- {e \in Present : stats[e] = Shutdown},
  wait    <- [t \in Tasks |-> IF pc[t] = "pending" /\ ~woken[t] /\ ~Shared(op[t])
                              THEN op[t] ELSE <<>>]

\* For entries that are not shared the reactor implements the promise of AsyncIo:
\* nobody falls asleep on an entry that is shut, shutdown releases the sleeper in
\* the same step, and a sleeper whose entry is ready is released eventually, the
\* last as long as io_events_loop (reactor.rs:143-152) does not end.
ImplementsAsyncIo == AsyncPromise!Safety /\ ([]looping => AsyncPromise!Promise)

\* Its safety part alone.
ImplementsAsyncIoSafety == AsyncPromise!Safety
=============================================================================
