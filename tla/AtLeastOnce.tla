---------------------------- MODULE AtLeastOnce ----------------------------
(***************************************************************************)
(* What the event pipeline promises to whoever commits an event: it is     *)
(* kept until somebody has received it, and is received any number of      *)
(* times.                                                                  *)
(***************************************************************************)
CONSTANT Events

VARIABLES
  status,    \* "none", "kept" or "gone"
  received   \* events that have been received

channelVars == <<status, received>>

Init == status = [e \in Events |-> "none"] /\ received = {}

Send(e) ==
  /\ status[e] = "none"
  /\ status' = [status EXCEPT ![e] = "kept"]
  /\ UNCHANGED received

Receive(e) ==
  /\ status[e] = "kept"
  /\ received' = received \cup {e}
  /\ UNCHANGED status

\* Events are forgotten once they have been received.
Forget(es) ==
  /\ \A e \in es : status[e] = "kept" /\ e \in received
  /\ status' = [e \in Events |-> IF e \in es THEN "gone" ELSE status[e]]
  /\ UNCHANGED received

Next == (\E e \in Events : Send(e) \/ Receive(e)) \/ (\E es \in SUBSET Events : Forget(es))

Spec == Init /\ [][Next]_channelVars
=============================================================================
