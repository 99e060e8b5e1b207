------------------------------ MODULE Endpoint ------------------------------
(***************************************************************************)
(* An endpoint as its user sees it, with no thread and no queue: it binds  *)
(* its port or fails, shows the tasks that reach it in the order they      *)
(* came, and ends.  EndpointProcess implements this specification.         *)
(***************************************************************************)
EXTENDS Naturals, Sequences

CONSTANTS
  Tasks,        \* what a datagram of the right size can say
  MaxArrivals   \* bound: past it nothing arrives

VARIABLES
  status,    \* "starting", "up", "stopping", "failing" or one of Ended
  waiting,   \* the tasks that reached it and are not shown, oldest first
  shown      \* the tasks it has shown, oldest first

endpointVars == <<status, waiting, shown>>

Ended == {"EXIT_SUCCESS", "EXIT_FAILURE"}

Init == status = "starting" /\ waiting = <<>> /\ shown = <<>>

Become(from, to) == status = from /\ status' = to

Bind == Become("starting", "up") /\ UNCHANGED <<waiting, shown>>

\* Another process holds the port, or the system refuses for other reasons.
Refused == Become("starting", "failing") /\ UNCHANGED <<waiting, shown>>

\* The socket takes datagrams until the process ends.
Arrive(t) ==
  /\ status \in {"up", "stopping"}
  /\ Len(waiting) + Len(shown) < MaxArrivals
  /\ waiting' = Append(waiting, t)
  /\ UNCHANGED <<status, shown>>

Show ==
  /\ waiting # <<>>
  /\ shown' = Append(shown, Head(waiting))
  /\ waiting' = Tail(waiting)
  /\ UNCHANGED status

Stop == Become("up", "stopping") /\ UNCHANGED <<waiting, shown>>

\* An endpoint that stops gives up the newest tasks, never one in between.
Discard ==
  /\ status = "stopping"
  /\ \E n \in 0..Len(waiting) : waiting' = SubSeq(waiting, 1, n)
  /\ UNCHANGED <<status, shown>>

End ==
  /\ waiting = <<>>
  /\ Become("stopping", "EXIT_SUCCESS") \/ Become("failing", "EXIT_FAILURE")
  /\ UNCHANGED <<waiting, shown>>

Next == Bind \/ Refused \/ (\E t \in Tasks : Arrive(t)) \/ Show \/ Stop \/ Discard \/ End

SafeSpec == Init /\ [][Next]_endpointVars

\* It starts, shows what came, and ends once it was told to stop.
Spec ==
  /\ SafeSpec
  /\ WF_endpointVars(Bind \/ Refused) /\ WF_endpointVars(Show) /\ WF_endpointVars(End)
=============================================================================
