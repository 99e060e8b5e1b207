------------------------------- MODULE Mailbox -------------------------------
(***************************************************************************)
(* What an event stream promises to the object that owns it and to the     *)
(* threads that post to it (src/core/event_stream.hpp), with no mutex, no  *)
(* condition variable and no thread: a first-in first-out mailbox that is  *)
(* opened once, closed once, and silent once its closing call returned.    *)
(* EventStream implements this specification.                              *)
(***************************************************************************)
EXTENDS Sequences

CONSTANT Events

VARIABLES
  phase,    \* "standby", "running" or "shutdown"
  pending,  \* the accepted events nobody took yet, oldest first
  current,  \* the event being handled, a sequence of length at most one
  handled,  \* the events whose handler returned, oldest first
  quiet     \* the closing call returned (or the mailbox never ran)

mailboxVars == <<phase, pending, current, handled, quiet>>

Init ==
  /\ phase = "standby"
  /\ pending = <<>>
  /\ current = <<>>
  /\ handled = <<>>
  /\ quiet = FALSE

Open ==
  /\ phase = "standby"
  /\ phase' = "running"
  /\ UNCHANGED <<pending, current, handled, quiet>>

\* Only a running mailbox accepts an event; a post at another time is lost,
\* which is a stuttering step here.
Post(e) ==
  /\ phase = "running"
  /\ pending' = Append(pending, e)
  /\ UNCHANGED <<phase, current, handled, quiet>>

Take ==
  /\ current = <<>>
  /\ pending # <<>>
  /\ current' = <<Head(pending)>>
  /\ pending' = Tail(pending)
  /\ UNCHANGED <<phase, handled, quiet>>

Handle ==
  /\ current # <<>>
  /\ handled' = handled \o current
  /\ current' = <<>>
  /\ UNCHANGED <<phase, pending, quiet>>

\* Closing discards what nobody took, and is immediately quiet if the mailbox
\* never ran.
Close ==
  /\ phase # "shutdown"
  /\ phase' = "shutdown"
  /\ pending' = <<>>
  /\ quiet' = (phase = "standby")
  /\ UNCHANGED <<current, handled>>

\* The closing call returns only after the last handler returned.
Quiesce ==
  /\ phase = "shutdown"
  /\ ~quiet
  /\ current = <<>>
  /\ quiet' = TRUE
  /\ UNCHANGED <<phase, pending, current, handled>>

Next ==
  \/ Open
  \/ \E e \in Events : Post(e)
  \/ Take
  \/ Handle
  \/ Close
  \/ Quiesce

SafeSpec == Init /\ [][Next]_mailboxVars

\* An accepted event is taken and handled, and closing ends, whatever else
\* happens; opening, posting and closing are the users' choice.
Fairness ==
  /\ WF_mailboxVars(Take)
  /\ WF_mailboxVars(Handle)
  /\ WF_mailboxVars(Quiesce)

Spec == SafeSpec /\ Fairness
=============================================================================
