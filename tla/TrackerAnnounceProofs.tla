------------------------ MODULE TrackerAnnounceProofs ------------------------
(***************************************************************************)
(* Proofs about TrackerAnnounce: what the tracker gets (Requests) and what *)
(* is bounded (Bounds), for any answers, any number of descriptors and any *)
(* faults.                                                                 *)
(***************************************************************************)
EXTENDS TrackerAnnounce, SequenceTheorems, TLAPS

\* The type invariant, variable by variable.
Types ==
  /\ tpc \in {"request", "connect", "send", "recv", "parse", "peers", "check",
              "sleep", "exit", "crashed", "killed"}
  /\ supported \in BOOLEAN /\ started \in BOOLEAN
  /\ completed \in BOOLEAN /\ tcompleted \in BOOLEAN
  /\ event \in {"NONE", "STARTED", "COMPLETED"}
  /\ interval \in Nat /\ peers \in Nat /\ buff \in Nat /\ total_recv \in Nat
  /\ avail \in Nat /\ hasty \in Nat
  /\ accepted \in Nat /\ talked \in Nat /\ announces \in Nat
  /\ fds \in 0 .. MaxFds
  /\ addr \in 1 .. Addresses + 1
  /\ total_sent \in 0 .. ReqLen
  /\ wire \in Seq(Nat)
  /\ link \in {"none", "up", "closed", "dead", "broken"}
  /\ answer \subseteq Answers
  /\ got \in Seq({"NONE", "STARTED", "COMPLETED"})

\* The pointer buff and the counter move together, and what is sent so far is
\* the request up to the pointer.
Sent ==
  /\ total_sent = buff
  /\ Len(wire) = buff
  /\ RequestInOrder

\* The tracker has not got a request yet as long as the first one is not made,
\* and when the one that says STARTED has yet to reach it.
Unheard ==
  /\ ~started => tpc = "request"
  /\ ~started => got = <<>>
  /\ event = "STARTED" /\ tpc = "connect" => got = <<>>
  /\ event = "STARTED" /\ tpc \in {"send", "recv"} /\ answer = {} => got = <<>>

\* The announce under way may yet end with a sleep of 0 seconds.
MayHaste ==
  \/ tpc \in {"send", "recv", "parse"}
  \/ tpc \in {"peers", "check", "sleep"} /\ interval = 0

\* Every sleep of 0 seconds has had a connection of its own, and every
\* connection still has its descriptor.
Spent ==
  /\ total_recv <= Buff
  /\ accepted + talked <= fds
  /\ hasty <= accepted
  /\ MayHaste => hasty < accepted

IInv == Types /\ Sent /\ Unheard /\ StartedFirst /\ Spent

LEMMA TypesAreTypeOK == TypeOK <=> Types
  BY DEF TypeOK, Types

LEMMA InitIInv == Init => IInv
<1> SUFFICES ASSUME Init PROVE IInv
  OBVIOUS
<1>1. Types
  <2>1. /\ supported \in BOOLEAN /\ started \in BOOLEAN
        /\ completed \in BOOLEAN /\ tcompleted \in BOOLEAN
    BY DEF Init
  <2>2. wire \in Seq(Nat) /\ got \in Seq({"NONE", "STARTED", "COMPLETED"})
    BY DEF Init
  <2>3. /\ interval \in Nat /\ peers \in Nat /\ buff \in Nat
        /\ total_recv \in Nat /\ avail \in Nat /\ hasty \in Nat
        /\ accepted \in Nat /\ talked \in Nat /\ announces \in Nat
        /\ fds \in 0 .. MaxFds /\ addr \in 1 .. Addresses + 1
        /\ total_sent \in 0 .. ReqLen
    BY AnnounceAssumption DEF Init
  <2>4. /\ tpc = "request" /\ event = "NONE" /\ link = "none"
        /\ answer \subseteq Answers
    BY DEF Init
  <2> QED BY <2>1, <2>2, <2>3, <2>4 DEF Types
<1>2. Sent /\ Unheard /\ StartedFirst /\ Spent
  BY AnnounceAssumption
     DEF Init, Sent, RequestInOrder, Unheard, StartedFirst, Spent, MayHaste
<1> QED BY <1>1, <1>2 DEF IInv

\* What is added to wire is the part of the request behind the pointer.
LEMMA SentUnits ==
  ASSUME NEW w \in Seq(Nat), NEW b \in Nat, NEW n \in Nat, Len(w) = b,
         \A i \in 1 .. Len(w) : w[i] = i
  PROVE  LET v == w \o [i \in 1 .. n |-> b + i]
         IN  v \in Seq(Nat) /\ Len(v) = b + n /\ \A i \in 1 .. Len(v) : v[i] = i
<1> DEFINE t == [i \in 1 .. n |-> b + i]
<1>1. t \in Seq(Nat) /\ Len(t) = n
  <2>1. t \in [1 .. n -> Nat]
    OBVIOUS
  <2> QED BY <2>1, SeqDef, LenProperties
<1>2. w \o t \in Seq(Nat) /\ Len(w \o t) = b + n
  BY <1>1, ConcatProperties
<1>3. ASSUME NEW i \in 1 .. b + n PROVE (w \o t)[i] = i
  <2>1. CASE i <= b
    <3>1. (w \o t)[i] = IF i <= Len(w) THEN w[i] ELSE t[i - Len(w)]
      BY <1>1, ConcatProperties
    <3> QED BY <3>1, <2>1
  <2>2. CASE i > b
    <3>1. (w \o t)[i] = t[i - b]
      <4>1. (w \o t)[i] = IF i <= Len(w) THEN w[i] ELSE t[i - Len(w)]
        BY <1>1, ConcatProperties
      <4> QED BY <4>1, <2>2
    <3> QED BY <3>1, <2>2
  <2> QED BY <2>1, <2>2
<1> QED BY <1>2, <1>3

\* What the connection to a peer takes, and what it may change.
LEMMA PeerTakes ==
  ASSUME next_peer
  PROVE  /\ peers > 0 /\ peers' = peers - 1
         /\ \/ fds' = fds /\ talked' = talked
            \/ fds < MaxFds /\ fds' = fds + 1 /\ talked' = talked + 1
            \/ fds + 1 < MaxFds /\ fds' = fds + 2 /\ talked' = talked + 1
         /\ completed' = completed \/ completed' \in {completed, TRUE}
  BY Zenon DEF next_peer

-----------------------------------------------------------------------------
(* The type invariant. *)

LEMMA StepTypes ==
  ASSUME IInv, [Next]_vars
  PROVE  Types'
<1> USE AnnounceAssumption DEF Types, loop, connection, history
<1>0. Types /\ Sent
  BY DEF IInv
<1>1. CASE create_tracker_request
  BY <1>0, <1>1 DEF create_tracker_request
<1>2. CASE not_connected
  BY <1>0, <1>2 DEF not_connected, Retries
<1>3. CASE next_address
  BY <1>0, <1>3 DEF next_address
<1>4. CASE connected
  BY <1>0, <1>4 DEF connected
<1>5. ASSUME NEW n \in 1 .. ReqLen, send_some(n) PROVE Types'
  <2>1. wire' \in Seq(Nat)
    BY <1>0, <1>5, SentUnits DEF send_some, Sends, Sent, RequestInOrder
  <2> QED BY <1>0, <1>5, <2>1 DEF send_some, Sends
<1>6. CASE all_sent
  BY <1>0, <1>6 DEF all_sent
<1>7. CASE send_fails
  BY <1>0, <1>7 DEF send_fails, Retries
<1>8. ASSUME NEW n \in 1 .. Buff, recv_some(n) PROVE Types'
  BY <1>0, <1>8 DEF recv_some
<1>9. CASE recv_fails
  BY <1>0, <1>9 DEF recv_fails, Retries
<1>10. CASE recv_ends
  BY <1>0, <1>10 DEF recv_ends
<1>11. CASE status_not_ok
  BY <1>0, <1>11 DEF status_not_ok, Retries
<1>12. CASE answer_crashes
  BY <1>0, <1>12 DEF answer_crashes
<1>13. CASE answer_parsed
  BY <1>0, <1>13 DEF answer_parsed, Answer
<1>14. CASE answer_garbled
  BY <1>0, <1>14 DEF answer_garbled, Answer
<1>15. CASE next_peer
  <2>1. completed' \in BOOLEAN
    <3>1. completed \in BOOLEAN
      BY <1>0
    <3> QED BY <3>1, <1>15, PeerTakes, Zenon
  <2>2. UNCHANGED <<tpc, supported, started, tcompleted, event, interval, addr,
                    announces, connection, got, accepted, hasty>>
    BY <1>15 DEF next_peer
  <2>3. peers' \in Nat /\ talked' \in Nat /\ fds' \in 0 .. MaxFds
    BY <1>0, <1>15, PeerTakes
  <2> QED BY <1>0, <2>1, <2>2, <2>3
<1>16. CASE no_more_peers
  BY <1>0, <1>16 DEF no_more_peers
<1>17. CASE tracker_check
  BY <1>0, <1>17 DEF tracker_check
<1>18. CASE tracker_wakes
  BY <1>0, <1>18 DEF tracker_wakes
<1>19. CASE tracker_answers
  BY <1>0, <1>19 DEF tracker_answers
<1>20. CASE tracker_sends
  BY <1>0, <1>20 DEF tracker_sends
<1>21. CASE tracker_closes
  BY <1>0, <1>21 DEF tracker_closes
<1>22. CASE connection_breaks
  BY <1>0, <1>22 DEF connection_breaks
<1>23. CASE UNCHANGED vars
  BY <1>0, <1>23 DEF vars
<1> QED
  BY <1>1, <1>2, <1>3, <1>4, <1>5, <1>6, <1>7, <1>8, <1>9, <1>10, <1>11, <1>12,
     <1>13, <1>14, <1>15, <1>16, <1>17, <1>18, <1>19, <1>20, <1>21, <1>22, <1>23
     DEF Next, ThreadRuns, TrackerRuns

-----------------------------------------------------------------------------
(* The request. *)

\* A step begins a request, sends some of it, or leaves it alone.
LEMMA StepRequest ==
  ASSUME [Next]_vars
  PROVE  \/ connected
         \/ \E n \in 1 .. ReqLen : send_some(n)
         \/ UNCHANGED <<total_sent, buff, wire>>
  BY DEF Next, ThreadRuns, TrackerRuns, vars, connection, create_tracker_request,
         not_connected, next_address, all_sent, send_fails, recv_some,
         recv_fails, recv_ends, status_not_ok, answer_crashes, answer_parsed,
         answer_garbled, next_peer, no_more_peers, tracker_check, tracker_wakes,
         tracker_answers, tracker_sends, tracker_closes, connection_breaks

LEMMA StepSent ==
  ASSUME IInv, [Next]_vars
  PROVE  Sent'
<1> USE DEF Sent, RequestInOrder
<1>0. Types /\ Sent
  BY DEF IInv
<1>1. CASE connected
  BY <1>1 DEF connected
<1>2. ASSUME NEW n \in 1 .. ReqLen, send_some(n) PROVE Sent'
  <2>1. n \in Nat /\ wire \in Seq(Nat) /\ buff \in Nat /\ Len(wire) = buff
    BY <1>0, AnnounceAssumption DEF Types
  <2>2. /\ total_sent' = total_sent + n /\ buff' = buff + n
        /\ wire' = wire \o [i \in 1 .. n |-> buff + i]
    BY <1>2 DEF send_some, Sends
  <2> QED BY <1>0, <2>1, <2>2, SentUnits
<1>3. CASE UNCHANGED <<total_sent, buff, wire>>
  BY <1>0, <1>3
<1> QED BY <1>1, <1>2, <1>3, StepRequest

\* What a step does to the events: one is chosen, or the tracker gets one, or
\* what the events of the requests depend on stays, or narrows.
LEMMA StepEvents ==
  ASSUME [Next]_vars
  PROVE  \/ create_tracker_request
         \/ connected
         \/ tracker_answers
         \/ /\ UNCHANGED <<started, event, got>>
            /\ tpc = "request" => tpc' = "request"
            /\ tpc' = "request" => tpc \in {"request", "sleep"}
            /\ tpc' = "connect" => tpc = "connect"
            /\ tpc' \in {"send", "recv"} => /\ tpc \in {"send", "recv"}
                                           /\ answer' = answer
  BY DEF Next, ThreadRuns, TrackerRuns, vars, loop, connection, history, Retries,
         not_connected, next_address, send_some, Sends, all_sent, send_fails,
         recv_some, recv_fails, recv_ends, status_not_ok, answer_crashes,
         answer_parsed, answer_garbled, next_peer, no_more_peers, tracker_check,
         tracker_wakes, tracker_sends, tracker_closes, connection_breaks, InUse

LEMMA StepUnheard ==
  ASSUME IInv, [Next]_vars
  PROVE  Unheard' /\ StartedFirst'
<1> USE DEF Unheard, StartedFirst
<1>0. Types /\ Unheard /\ StartedFirst
  BY DEF IInv
<1>1. CASE create_tracker_request
  BY <1>0, <1>1 DEF create_tracker_request, history, Types
<1>2. CASE connected
  BY <1>0, <1>2 DEF connected, loop
<1>3. CASE tracker_answers
  <2>1. /\ tpc \in {"send", "recv"} /\ answer = {} /\ answer' # {}
        /\ got' = Append(got, event) /\ UNCHANGED <<tpc, started, event>>
    BY <1>3 DEF tracker_answers, InUse, loop
  <2>2. Unheard'
    BY <1>0, <2>1
  <2>3. StartedFirst'
    <3>1. CASE event = "STARTED"
      BY <1>0, <2>1, <3>1
    <3>2. CASE event # "STARTED"
      <4>1. got \in Seq({"NONE", "STARTED", "COMPLETED"}) /\ event \in {"NONE", "STARTED", "COMPLETED"}
        BY <1>0 DEF Types
      <4>2. /\ Len(got') = Len(got) + 1 /\ got'[Len(got) + 1] = event
            /\ \A i \in 1 .. Len(got) : got'[i] = got[i]
        BY <2>1, <4>1, AppendProperties
      <4> QED BY <1>0, <3>2, <4>1, <4>2, LenProperties
    <3> QED BY <3>1, <3>2
  <2> QED BY <2>2, <2>3
<1>4. CASE /\ UNCHANGED <<started, event, got>>
           /\ tpc = "request" => tpc' = "request"
           /\ tpc' = "request" => tpc \in {"request", "sleep"}
           /\ tpc' = "connect" => tpc = "connect"
           /\ tpc' \in {"send", "recv"} => /\ tpc \in {"send", "recv"}
                                          /\ answer' = answer
  BY <1>0, <1>4
<1> QED BY <1>1, <1>2, <1>3, <1>4, StepEvents

-----------------------------------------------------------------------------
(* What is bounded. *)

\* A step that opens or counts nothing, and after which the announce under way
\* can end with a sleep of 0 seconds only if it could before.
Quiet ==
  /\ UNCHANGED <<total_recv, fds, accepted, talked, hasty>>
  /\ MayHaste' => MayHaste

LEMMA StepQuiet ==
  ASSUME Types, [Next]_vars
  PROVE  \/ connected
         \/ \E n \in 1 .. Buff : recv_some(n)
         \/ next_peer
         \/ tracker_wakes
         \/ Quiet
<1> USE AnnounceAssumption DEF Quiet, MayHaste, loop, connection, history
<1>1. CASE create_tracker_request \/ not_connected \/ next_address
  BY <1>1 DEF create_tracker_request, not_connected, next_address, Retries
<1>2. CASE (\E n \in 1 .. ReqLen : send_some(n)) \/ all_sent \/ send_fails
  BY <1>2 DEF send_some, Sends, all_sent, send_fails, Retries
<1>3. CASE recv_fails \/ recv_ends \/ status_not_ok \/ answer_crashes
  BY <1>3 DEF recv_fails, recv_ends, status_not_ok, answer_crashes, Retries
<1>4. CASE answer_parsed \/ answer_garbled
  BY <1>4 DEF answer_parsed, answer_garbled
<1>5. CASE no_more_peers \/ tracker_check
  BY <1>5 DEF no_more_peers, tracker_check
<1>6. CASE TrackerRuns \/ connection_breaks
  BY <1>6 DEF TrackerRuns, tracker_answers, tracker_sends, tracker_closes,
              connection_breaks
<1>7. CASE UNCHANGED vars
  BY <1>7 DEF vars
<1> QED
  BY <1>1, <1>2, <1>3, <1>4, <1>5, <1>6, <1>7 DEF Next, ThreadRuns

LEMMA StepSpent ==
  ASSUME IInv, [Next]_vars
  PROVE  Spent'
<1> USE DEF Spent
<1>0. Types /\ Spent
  BY DEF IInv
<1>1. CASE connected
  BY <1>0, <1>1, AnnounceAssumption DEF connected, history, Types
<1>2. ASSUME NEW n \in 1 .. Buff, recv_some(n) PROVE Spent'
  <2>1. /\ total_recv' = total_recv + n /\ n <= Buff - total_recv
        /\ UNCHANGED <<tpc, interval, fds, accepted, talked, hasty>>
    BY <1>2 DEF recv_some, loop, history
  <2> QED BY <1>0, <2>1, AnnounceAssumption DEF Types, MayHaste
<1>3. CASE next_peer
  <2>1. UNCHANGED <<tpc, interval, total_recv, accepted, hasty>>
    BY <1>3 DEF next_peer, connection
  <2> QED BY <1>0, <1>3, <2>1, PeerTakes DEF Types, MayHaste
<1>4. CASE tracker_wakes
  BY <1>0, <1>4 DEF tracker_wakes, loop, connection, Types, MayHaste
<1>5. CASE Quiet
  BY <1>0, <1>5 DEF Quiet
<1> QED BY <1>0, <1>1, <1>2, <1>3, <1>4, <1>5, StepQuiet

-----------------------------------------------------------------------------
LEMMA StepIInv == IInv /\ [Next]_vars => IInv'
  BY StepTypes, StepSent, StepUnheard, StepSpent DEF IInv

THEOREM AlwaysIInv == Spec => []IInv
<1> QED BY InitIInv, StepIInv, PTL DEF Spec

\* However send divides a request, what the tracker gets of it is its beginning,
\* in order; and it hears STARTED with the first request it gets or never.
THEOREM RequestsInOrder == Spec => []Requests
<1>1. IInv => Requests
  BY DEF IInv, Sent, Requests
<1> QED BY <1>1, AlwaysIInv, PTL

\* Whatever the tracker answers and whatever fails, an answer stays in its
\* buffer, and the descriptors the process may open bound the connections it
\* makes and the announces it makes without a pause.
THEOREM BoundsHold == Spec => []Bounds
<1>1. IInv => Bounds
  <2> SUFFICES ASSUME IInv PROVE Bounds
    OBVIOUS
  <2>1. TypeOK
    BY TypesAreTypeOK DEF IInv
  <2>2. InsideBuffer /\ ConnectionsBounded /\ HasteBounded
    BY AnnounceAssumption
       DEF IInv, Types, Spent, InsideBuffer, ConnectionsBounded, HasteBounded
  <2> QED BY <2>1, <2>2 DEF Bounds
<1> QED BY <1>1, AlwaysIInv, PTL

-----------------------------------------------------------------------------
(* An announce is finite.                                                  *)

\* From tracker_connect to the parsed answer.
Announcing == tpc \in {"connect", "send", "recv", "parse"}

\* Steps of the thread until then at most: an address, a unit sent, a unit
\* received, and the ends of the three loops.
AnnounceLeft ==
  CASE tpc = "connect" -> Addresses + 1 - addr + ReqLen + Buff + 3
    [] tpc = "send" -> ReqLen - total_sent + Buff + 2
    [] tpc = "recv" -> Buff - total_recv + 1
    [] OTHER -> 0

Over == tpc' \in {"check", "peers", "crashed", "killed"}

\* What a step does to that.
Shortens ==
  Announcing =>
    /\ Over \/ (Announcing' /\ AnnounceLeft' <= AnnounceLeft)
    /\ ThreadRuns => Over \/ AnnounceLeft' < AnnounceLeft

LEMMA AnnounceLeftNat ==
  ASSUME IInv
  PROVE  AnnounceLeft \in Nat
<1>1. /\ Addresses \in Nat /\ ReqLen \in Nat /\ Buff \in Nat
      /\ addr \in 1 .. Addresses + 1 /\ total_sent \in 0 .. ReqLen
      /\ total_recv \in Nat /\ total_recv <= Buff
  BY AnnounceAssumption DEF IInv, Types, Spent
<1> QED BY <1>1 DEF AnnounceLeft

\* The steps of the thread.
LEMMA ThreadShortens ==
  ASSUME IInv, Announcing, ThreadRuns
  PROVE  Over \/ (Announcing' /\ AnnounceLeft' < AnnounceLeft)
<1>1. /\ Addresses \in Nat /\ ReqLen \in Nat \ {0} /\ Buff \in Nat \ {0}
      /\ addr \in 1 .. Addresses + 1 /\ total_sent \in 0 .. ReqLen
      /\ total_recv \in Nat /\ total_recv <= Buff
  BY AnnounceAssumption DEF IInv, Types, Spent
<1>2. CASE tpc = "connect"
  <2>1. not_connected \/ next_address \/ connected
    BY <1>2 DEF ThreadRuns, create_tracker_request, send_some, Sends, all_sent,
                send_fails, recv_some, recv_fails, recv_ends, status_not_ok,
                answer_crashes, answer_parsed, answer_garbled, next_peer,
                no_more_peers, tracker_check, tracker_wakes
  <2>2. CASE not_connected
    BY <2>2 DEF not_connected, Retries, Over
  <2>3. CASE next_address
    <3>1. tpc' = "connect" /\ addr' = addr + 1
      BY <1>2, <2>3 DEF next_address
    <3> QED BY <1>1, <1>2, <3>1 DEF AnnounceLeft, Announcing
  <2>4. CASE connected
    <3>1. tpc' = "send" /\ total_sent' = 0
      BY <2>4 DEF connected
    <3> QED BY <1>1, <1>2, <3>1 DEF AnnounceLeft, Announcing
  <2> QED BY <2>1, <2>2, <2>3, <2>4
<1>3. CASE tpc = "send"
  <2>1. (\E k \in 1 .. ReqLen : send_some(k)) \/ all_sent \/ send_fails
    BY <1>3 DEF ThreadRuns, create_tracker_request, not_connected, next_address,
                connected, recv_some, recv_fails, recv_ends, status_not_ok,
                answer_crashes, answer_parsed, answer_garbled, next_peer,
                no_more_peers, tracker_check, tracker_wakes
  <2>2. ASSUME NEW k \in 1 .. ReqLen, send_some(k)
        PROVE  Announcing' /\ AnnounceLeft' < AnnounceLeft
    <3>1. tpc' = "send" /\ total_sent' = total_sent + k
      BY <1>3, <2>2 DEF send_some, Sends
    <3> QED BY <1>1, <1>3, <3>1 DEF AnnounceLeft, Announcing
  <2>3. CASE all_sent
    <3>1. tpc' = "recv" /\ total_recv' = total_recv
      BY <2>3 DEF all_sent, connection
    <3> QED BY <1>1, <1>3, <3>1 DEF AnnounceLeft, Announcing
  <2>4. CASE send_fails
    BY <2>4 DEF send_fails, Retries, Over
  <2> QED BY <2>1, <2>2, <2>3, <2>4
<1>4. CASE tpc = "recv"
  <2>1. (\E k \in 1 .. Buff : recv_some(k)) \/ recv_fails \/ recv_ends
    BY <1>4 DEF ThreadRuns, create_tracker_request, not_connected, next_address,
                connected, send_some, Sends, all_sent, send_fails,
                status_not_ok, answer_crashes, answer_parsed, answer_garbled,
                next_peer, no_more_peers, tracker_check, tracker_wakes
  <2>2. ASSUME NEW k \in 1 .. Buff, recv_some(k)
        PROVE  Announcing' /\ AnnounceLeft' < AnnounceLeft
    <3>1. tpc' = "recv" /\ total_recv' = total_recv + k
      BY <1>4, <2>2 DEF recv_some
    <3> QED BY <1>1, <1>4, <3>1 DEF AnnounceLeft, Announcing
  <2>3. CASE recv_fails
    BY <2>3 DEF recv_fails, Retries, Over
  <2>4. CASE recv_ends
    <3>1. tpc' = "parse"
      BY <2>4 DEF recv_ends
    <3> QED BY <1>1, <1>4, <3>1 DEF AnnounceLeft, Announcing
  <2> QED BY <2>1, <2>2, <2>3, <2>4
<1>5. CASE tpc = "parse"
  <2>1. status_not_ok \/ answer_crashes \/ answer_parsed \/ answer_garbled
    BY <1>5 DEF ThreadRuns, create_tracker_request, not_connected, next_address,
                connected, send_some, Sends, all_sent, send_fails, recv_some,
                recv_fails, recv_ends, next_peer, no_more_peers,
                tracker_check, tracker_wakes
  <2>2. tpc' \in {"check", "peers", "crashed"}
    BY <2>1 DEF status_not_ok, answer_crashes, answer_parsed, answer_garbled,
                Retries
  <2> QED BY <2>2 DEF Over
<1> QED BY <1>2, <1>3, <1>4, <1>5 DEF Announcing

\* The steps of the tracker and of the network.
LEMMA OthersKeep ==
  ASSUME TrackerRuns \/ connection_breaks
  PROVE  tpc' = tpc /\ AnnounceLeft' = AnnounceLeft
<1>1. UNCHANGED <<tpc, addr, total_sent, total_recv>>
  BY DEF TrackerRuns, tracker_answers, tracker_sends, tracker_closes,
         connection_breaks
<1> QED BY <1>1 DEF AnnounceLeft

\* An announce takes at most Addresses + ReqLen + Buff + 4 steps of the thread,
\* however long the tracker's answer is, however it comes and whatever breaks:
\* each step brings it nearer to its end, and no step of the tracker sets it
\* back.  The thread may still wait for the tracker.
THEOREM AnnounceIsFinite ==
  Spec => [](AnnounceLeft \in Nat) /\ [][Shortens]_vars
<1>1. IInv => AnnounceLeft \in Nat
  BY AnnounceLeftNat
<1>2. ASSUME IInv, IInv', Next, Announcing
      PROVE  /\ Over \/ (Announcing' /\ AnnounceLeft' <= AnnounceLeft)
             /\ ThreadRuns => Over \/ AnnounceLeft' < AnnounceLeft
  <2>1. AnnounceLeft \in Nat
    BY <1>2, AnnounceLeftNat
  <2>2. CASE ThreadRuns
    <3>1. Over \/ (Announcing' /\ AnnounceLeft' < AnnounceLeft)
      BY <1>2, <2>2, ThreadShortens
    <3>2. AnnounceLeft' \in Int
      <4>1. /\ addr' \in Nat /\ total_sent' \in Nat /\ total_recv' \in Nat
            /\ Addresses \in Nat /\ ReqLen \in Nat /\ Buff \in Nat
        BY <1>2, AnnounceAssumption DEF IInv, Types
      <4> QED BY <4>1 DEF AnnounceLeft
    <3> QED BY <2>1, <3>1, <3>2
  <2>3. CASE ~ThreadRuns
    <3>1. tpc' = tpc /\ AnnounceLeft' = AnnounceLeft
      BY <1>2, <2>3, OthersKeep DEF Next
    <3> QED BY <1>2, <2>1, <2>3, <3>1 DEF Announcing
  <2> QED BY <2>2, <2>3
<1>3. IInv /\ IInv' /\ [Next]_vars => [Shortens]_vars
  BY <1>2 DEF Shortens
<1> QED BY <1>1, <1>3, AlwaysIInv, PTL DEF Spec
=============================================================================
