----------------------------- MODULE TimerService -----------------------------
(***************************************************************************)
(* What a timer facility promises: a timer that is set is refused only if  *)
(* its deadline has passed, fires once, never before its deadline, and     *)
(* does fire.  TimingWheel implements it.                                  *)
(***************************************************************************)
EXTENDS Naturals

CONSTANTS Timers,     \* timer identities; each is set at most once
          Deadlines   \* the deadlines they are set with

VARIABLES now,        \* the clock
          status,     \* timer -> "new", "armed", "refused" or "fired"
          due         \* timer -> its deadline (0 while it is new)

vars == <<now, status, due>>

Init == /\ now = 0
        /\ status = [v \in Timers |-> "new"]
        /\ due = [v \in Timers |-> 0]

TimePasses == now' > now /\ UNCHANGED <<status, due>>

Set(v, d) ==
  /\ status[v] = "new"
  /\ due' = [due EXCEPT ![v] = d]
  /\ \/ status' = [status EXCEPT ![v] = "armed"]
     \/ d <= now /\ status' = [status EXCEPT ![v] = "refused"]
  /\ UNCHANGED now

Expired(v) == status[v] = "armed" /\ due[v] <= now

\* A batch of expired timers fires.
Fire(B) ==
  /\ B # {} /\ \A v \in B : Expired(v)
  /\ status' = [v \in Timers |-> IF v \in B THEN "fired" ELSE status[v]]
  /\ UNCHANGED <<now, due>>

Next == \/ TimePasses
        \/ \E v \in Timers, d \in Deadlines : Set(v, d)
        \/ \E B \in SUBSET Timers : Fire(B)

Safety == Init /\ [][Next]_vars

\* An expired timer fires.
Fires(v) == Expired(v) ~> status[v] = "fired"

Spec == Safety /\ \A v \in Timers : Fires(v)
=============================================================================
