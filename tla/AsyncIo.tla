------------------------------- MODULE AsyncIo -------------------------------
(***************************************************************************)
(* What an asynchronous I/O layer promises to the tasks that use it, with  *)
(* no reactor in sight: a task sleeps on an entry (a direction of a        *)
(* source), an entry becomes ready or is shut down, sleepers are released. *)
(* ReactorIo implements it.                                                *)
(***************************************************************************)
CONSTANTS Tasks,    \* tasks
          Entries,  \* directions of sources
          NoEntry   \* the task is awake (not an entry)

VARIABLES ready,    \* entries whose operation would complete
          shut,     \* entries that were shut down
          wait      \* task -> the entry it sleeps on, or NoEntry

vars == <<ready, shut, wait>>

Init == ready = {} /\ shut = {} /\ wait = [t \in Tasks |-> NoEntry]

\* A task goes to sleep on an entry: alone, and never on one that is shut.
Sleep(t, e) ==
  /\ wait[t] = NoEntry
  /\ e \notin shut
  /\ \A u \in Tasks : wait[u] # e
  /\ wait' = [wait EXCEPT ![t] = e]
  /\ UNCHANGED <<ready, shut>>

\* A sleeper is released, because its entry is ready or for no reason.
Release(t) ==
  /\ wait[t] # NoEntry
  /\ wait' = [wait EXCEPT ![t] = NoEntry]
  /\ UNCHANGED <<ready, shut>>

\* Shutting an entry down releases its sleeper at once (and may wake others).
Shut(e) ==
  /\ shut' = shut \cup {e}
  /\ \E S \in SUBSET Tasks :
       wait' = [t \in Tasks |-> IF wait[t] = e \/ t \in S THEN NoEntry ELSE wait[t]]
  /\ UNCHANGED ready

\* Entries become ready, are consumed, come and go; what a sleeper waits for
\* is not consumed by somebody else.
Environment ==
  /\ ready' \in SUBSET Entries
  /\ shut' \in SUBSET shut
  /\ \A t \in Tasks : wait[t] \in ready => wait[t] \in ready'
  /\ UNCHANGED wait

Next == \/ \E t \in Tasks, e \in Entries : Sleep(t, e)
        \/ \E t \in Tasks : Release(t)
        \/ \E e \in Entries : Shut(e)
        \/ Environment

\* The promise: a task that sleeps on a ready entry is released.
Notify(t) == wait[t] \in ready /\ Release(t)

Safety  == Init /\ [][Next]_vars
Promise == \A t \in Tasks : WF_vars(Notify(t))
Spec    == Safety /\ Promise
=============================================================================
