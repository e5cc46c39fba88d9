---------------------------- MODULE MessageQueue ----------------------------
(***************************************************************************)
(* What the messages of a remote peer are to the rest of a peer thread     *)
(* (the inbox of PeerConnection): they are delivered one by one, whole and *)
(* in the order in which they were sent, until the connection ends.  When  *)
(* one has been delivered that is not whole, nothing more is promised.     *)
(***************************************************************************)
EXTENDS Naturals, Sequences

CONSTANT Messages

VARIABLES
  queue,      \* messages that were sent and not delivered
  delivered,  \* messages that were delivered, the last one perhaps not whole
  status      \* "open", "ended", or "broken"

vars == <<queue, delivered, status>>

Init == queue = <<>> /\ delivered = <<>> /\ status = "open"

Send ==
  /\ \E m \in Messages : queue' = Append(queue, m)
  /\ UNCHANGED <<delivered, status>>

Deliver ==
  /\ status = "open"
  /\ queue # <<>>
  /\ delivered' = Append(delivered, Head(queue))
  /\ queue' = Tail(queue)
  /\ status' \in {"open", "broken"}

End ==
  /\ status # "ended"
  /\ status' = "ended"
  /\ UNCHANGED <<queue, delivered>>

Next == Send \/ Deliver \/ End

Spec == Init /\ [][Next]_vars
=============================================================================
