-------------------------------- MODULE Duplex --------------------------------
(***************************************************************************)
(* What a tunnel promises its two applications, with no proxy in sight: a  *)
(* byte stream each way.  A direction is named by the end that sends.      *)
(* An end may finish, and a fault may break a direction, in any step.  A   *)
(* half close does not survive: once one direction is over, the tunnel     *)
(* cuts the other.  Tunnel implements it.                                  *)
(***************************************************************************)
EXTENDS Sequences, SequencesExt

CONSTANT Ends      \* the two ends

VARIABLES sent,      \* end -> what it sent
          got,       \* end -> what the opposite end received of that
          finished,  \* ends that will not send again
          cut,       \* directions the tunnel takes no more data for
          broken,    \* directions that may lose data
          ended      \* directions whose receiver saw the end of the stream

vars == <<sent, got, finished, cut, broken, ended>>

Init == /\ sent = [e \in Ends |-> <<>>] /\ got = sent
        /\ finished = {} /\ cut = {} /\ broken = {} /\ ended = {}

\* f' is f, longer at e.
Longer(f, g, e) == /\ IsStrictPrefix(f[e], g[e])
                   /\ g = [f EXCEPT ![e] = g[e]]

\* What is sent into a cut direction is lost.
Send(e) == /\ e \notin finished
           /\ Longer(sent, sent', e)
           /\ e \in cut => e \in broken'
           /\ UNCHANGED <<got, cut, ended>>

\* In order, without gaps, nothing invented, and nothing after the end.
Deliver(e) == /\ e \notin ended
              /\ Longer(got, got', e)
              /\ IsPrefix(got'[e], sent[e])
              /\ UNCHANGED <<sent, cut, ended>>

Cut(e) == /\ \E f \in Ends \ {e} : f \in finished \cup cut \cup broken
          /\ cut' = cut \cup {e}
          /\ UNCHANGED <<sent, got, ended>>

\* The receiver of an unbroken direction sees the end after the last byte.
End(e) == /\ e \in broken \/ (got[e] = sent[e] /\ e \in finished \cup cut)
          /\ ended' = ended \cup {e}
          /\ UNCHANGED <<sent, got, cut>>

\* An end that cannot be reached: the other one will find its direction broken.
Refuse(e) == /\ sent[e] = <<>> /\ Ends \ {e} \subseteq broken'
             /\ cut' = cut \cup {e}
             /\ UNCHANGED <<sent, got, ended>>

Pass == UNCHANGED <<sent, got, cut, ended>>

Next == /\ finished \subseteq finished' /\ broken \subseteq broken'
        /\ \/ \E e \in Ends : Send(e) \/ Deliver(e) \/ Cut(e) \/ End(e) \/ Refuse(e)
           \/ Pass

Spec == Init /\ [][Next]_vars
=============================================================================
