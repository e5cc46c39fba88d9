--------------------------- MODULE TrackerAnnounce ---------------------------
(***************************************************************************)
(* The announce that BtDownload takes in one step, in its parts: the       *)
(* connection, the request sent in pieces, the answer received and parsed  *)
(* (src/tracker_announce.cpp, src/tracker_resp_parser.cpp), within the     *)
(* loop of periodic_announce (src/bt_downloader.cpp).  No path closes the  *)
(* socket of an announce once it is connected, nor does a peer thread      *)
(* close what it has opened, and the limit on open descriptors is part of  *)
(* the model.  The tracker is external: it takes whole requests, and may   *)
(* close or break the connection at any time.                              *)
(***************************************************************************)
EXTENDS Integers, Sequences

CONSTANTS
  Addresses,     \* addresses the name of the tracker has
  ReqLen,        \* units of a request
  Buff,          \* units of the buffer for the answer
  Answers,       \* what the tracker may answer
  MaxFds,        \* descriptors the process may still open at the start
  Faults,        \* what may go wrong
  MaxAnnounces,  \* bound: announces
  TRACKER_RETRY_INTERVAL

FaultKinds == {"connect",  \* getaddrinfo, socket or connect fails
               "cut",      \* the tracker closes before the end of its answer
               "reset"}    \* the connection breaks

\* An answer: whether the status is 200, the units of the header and of the
\* body, the Content-Length (0 when there is none), the interval (0 when there
\* is none, as with a failure reason), and how many peers there are.
Answer == [ok : BOOLEAN, header : Nat \ {0}, body : Nat, length : Nat,
           interval : Nat, peers : Nat]

ASSUME AnnounceAssumption ==
  /\ Addresses \in Nat
  /\ ReqLen \in Nat \ {0}
  /\ Buff \in Nat \ {0}
  /\ Answers \subseteq Answer
  /\ MaxFds \in Nat
  /\ Faults \subseteq FaultKinds
  /\ MaxAnnounces \in Nat
  /\ TRACKER_RETRY_INTERVAL \in Nat \ {0}

VARIABLES
  tpc,         \* where the tracker thread is
  supported,   \* the URL of the tracker has the scheme http
  started,     \* local variable
  completed,   \* sh.completed
  tcompleted,  \* local variable completed
  event,       \* of the request
  interval,    \* local variable
  peers,       \* peers of the answer not connected to yet
  fds,         \* descriptors that are open
  addr,        \* the address tracker_connect has come to
  total_sent,
  buff,        \* units of the request before the pointer buff
  total_recv,
  wire,        \* units of the request that were sent, in order
  link,        \* the connection: "none", "up", "closed", "dead", "broken"
  answer,      \* the tracker's answer, if any: at most one
  avail,       \* units of it that the tracker has sent
  announces,   \* requests made so far
  got,         \* history: events of the requests the tracker got
  accepted,    \* history: connections the tracker accepted
  talked,      \* history: peers that accepted a connection
  hasty        \* history: times the thread slept for 0 seconds

loop == <<started, completed, tcompleted, event, interval, peers, announces>>
connection == <<total_sent, buff, total_recv, wire, link, answer, avail>>
history == <<got, accepted, talked, hasty>>
vars == <<tpc, supported, loop, fds, addr, connection, history>>

Init ==
  /\ tpc = "request"
  /\ supported \in BOOLEAN
  /\ started = FALSE
  /\ completed = FALSE
  /\ tcompleted = FALSE
  /\ event = "NONE"
  /\ interval = 0
  /\ peers = 0
  /\ fds = 0
  /\ addr = 1
  /\ total_sent = 0
  /\ buff = 0
  /\ total_recv = 0
  /\ wire = <<>>
  /\ link = "none"
  /\ answer = {}
  /\ avail = 0
  /\ announces = 0
  /\ got = <<>>
  /\ accepted = 0
  /\ talked = 0
  /\ hasty = 0

\* Mutant: interval keeps what the last answer said.
RetriesAtOnce ==
  /\ tpc' = "check"
  /\ peers' = 0
  /\ UNCHANGED <<started, completed, tcompleted, event, announces, interval>>

\* tracker_announce returns NULL: the thread will retry.
Retries ==
  /\ tpc' = "check"
  /\ interval' = TRACKER_RETRY_INTERVAL
  /\ peers' = 0
  /\ UNCHANGED <<started, completed, tcompleted, event, announces>>

-----------------------------------------------------------------------------
(* periodic_announce: the request. *)

\* Mutant: every request says so until an announce has succeeded.
started_until_answered ==
  /\ tpc = "request"
  /\ announces < MaxAnnounces
  /\ announces' = announces + 1
  /\ started' = (interval # 0)
  /\ event' = IF started THEN "NONE" ELSE "STARTED"
  /\ tpc' = "connect"
  /\ addr' = 1
  /\ UNCHANGED <<supported, completed, tcompleted, interval, peers, fds,
                 connection, history>>

create_tracker_request ==
  /\ tpc = "request"
  /\ announces < MaxAnnounces
  /\ announces' = announces + 1
  /\ started' = TRUE
  /\ tcompleted' = completed
  /\ event' = IF ~tcompleted /\ completed THEN "COMPLETED"
              ELSE IF ~started THEN "STARTED"
              ELSE "NONE"
  /\ tpc' = "connect"
  /\ addr' = 1
  /\ UNCHANGED <<supported, completed, interval, peers, fds, connection,
                 history>>

-----------------------------------------------------------------------------
(* tracker_connect. *)

\* https, a name that is not found, or no address left.
not_connected ==
  /\ tpc = "connect"
  /\ ~supported \/ "connect" \in Faults \/ addr > Addresses
  /\ Retries
  /\ UNCHANGED <<supported, fds, addr, connection, history>>

\* Mutant: the loop does not end with the list.
next_address_past_end ==
  /\ tpc = "connect"
  /\ supported
  /\ "connect" \in Faults \/ fds = MaxFds
  /\ addr' = addr + 1
  /\ UNCHANGED <<tpc, supported, loop, fds, connection, history>>

\* Mutant: with it, a descriptor is closed that was not opened here.
next_address_closes_other ==
  /\ tpc = "connect"
  /\ addr <= Addresses
  /\ fds > 0
  /\ fds' = fds - 1
  /\ addr' = addr + 1
  /\ UNCHANGED <<tpc, supported, loop, connection, history>>

\* socket or connect fails, and connect's socket is closed.
next_address ==
  /\ tpc = "connect"
  /\ supported
  /\ addr <= Addresses
  /\ "connect" \in Faults \/ fds = MaxFds
  /\ addr' = addr + 1
  /\ UNCHANGED <<tpc, supported, loop, fds, connection, history>>

connected ==
  /\ tpc = "connect"
  /\ supported
  /\ addr <= Addresses
  /\ fds < MaxFds
  /\ fds' = fds + 1
  /\ accepted' = accepted + 1
  /\ tpc' = "send"
  /\ link' = "up"
  /\ total_sent' = 0
  /\ buff' = 0
  /\ total_recv' = 0
  /\ wire' = <<>>
  /\ answer' = {}
  /\ avail' = 0
  /\ UNCHANGED <<supported, loop, addr, got, talked, hasty>>

-----------------------------------------------------------------------------
(* tracker_send_all. *)

\* One send of n units.
Sends(n, moved) ==
  /\ tpc = "send"
  /\ link \in {"up", "closed"}
  /\ total_sent < ReqLen
  /\ n \in 1 .. ReqLen - total_sent
  /\ total_sent' = total_sent + n
  /\ buff' = buff + moved
  /\ wire' = wire \o [i \in 1 .. n |-> buff + i]
  /\ link' \in IF link = "up" THEN {"up"} ELSE {"closed", "dead"}
  /\ UNCHANGED <<tpc, supported, loop, fds, addr, total_recv, answer, avail,
                 history>>

\* Mutant: buff stays where it is.
send_some_again(n) == Sends(n, 0)

send_some(n) == Sends(n, n)

all_sent ==
  /\ tpc = "send"
  /\ total_sent >= ReqLen
  /\ tpc' = "recv"
  /\ UNCHANGED <<supported, loop, fds, addr, connection, history>>

\* send returns -1, or SIGPIPE ends the process.  The socket stays open.
send_fails ==
  /\ tpc = "send"
  /\ total_sent < ReqLen
  /\ \/ link = "broken" /\ Retries
     \/ link = "dead" /\ tpc' = "killed" /\ UNCHANGED loop
  /\ UNCHANGED <<supported, fds, addr, connection, history>>

-----------------------------------------------------------------------------
(* tracker_recv_resp, content_from_tracker_resp and tracker_resp_parse. *)

\* Mutant: recv may fill the whole buffer each time.
recv_overruns(n) ==
  /\ tpc = "recv"
  /\ n \in 1 .. avail - total_recv
  /\ n <= Buff
  /\ total_recv' = total_recv + n
  /\ UNCHANGED <<tpc, supported, loop, fds, addr, total_sent, buff, wire, link,
                 answer, avail, history>>

recv_some(n) ==
  /\ tpc = "recv"
  /\ n \in 1 .. avail - total_recv
  /\ n <= Buff - total_recv
  /\ total_recv' = total_recv + n
  /\ UNCHANGED <<tpc, supported, loop, fds, addr, total_sent, buff, wire, link,
                 answer, avail, history>>

recv_fails ==
  /\ tpc = "recv"
  /\ link = "broken"
  /\ total_recv < Buff
  /\ Retries
  /\ UNCHANGED <<supported, fds, addr, connection, history>>

\* Mutant: the end of the connection is not the end of the answer.
recv_until_full ==
  /\ tpc = "recv"
  /\ total_recv = Buff
  /\ tpc' = "parse"
  /\ UNCHANGED <<supported, loop, fds, addr, connection, history>>

\* recv returns 0: the tracker has closed, or the buffer is full.
recv_ends ==
  /\ tpc = "recv"
  /\ total_recv = Buff \/ (link \in {"closed", "dead"} /\ total_recv = avail)
  /\ tpc' = "parse"
  /\ UNCHANGED <<supported, loop, fds, addr, connection, history>>

\* The first line is not HTTP/1.x 200 OK, or not all of it has come.
status_not_ok ==
  /\ tpc = "parse"
  /\ total_recv > 0
  /\ \E a \in answer : ~a.ok \/ total_recv < a.header
  /\ Retries
  /\ UNCHANGED <<supported, fds, addr, connection, history>>

\* Without a line, or without the empty line at the end of the header, strtok
\* returns NULL, which is used.  Without a Content-Length the content is empty,
\* and its value is NULL, which is asserted not to be.
answer_crashes ==
  /\ tpc = "parse"
  /\ \/ total_recv = 0
     \/ \E a \in answer : a.ok /\ (total_recv < a.header \/ a.length = 0)
  /\ tpc' = "crashed"
  /\ UNCHANGED <<supported, loop, fds, addr, connection, history>>

answer_parsed ==
  /\ tpc = "parse"
  /\ \E a \in answer :
       /\ a.ok /\ a.length > 0
       /\ total_recv >= a.header + a.length
       /\ interval' = a.interval
       /\ peers' = a.peers
  /\ tpc' = "peers"
  /\ UNCHANGED <<supported, started, completed, tcompleted, event, announces,
                 fds, addr, connection, history>>

\* The content is longer than what was received: the rest is whatever the
\* buffer and what lies behind it hold, and the parser reads on in it.
answer_garbled ==
  /\ tpc = "parse"
  /\ \E a \in answer :
       /\ a.ok /\ a.length > 0
       /\ total_recv \in a.header .. a.header + a.length - 1
       /\ \/ tpc' = "crashed" /\ UNCHANGED <<interval, peers>>
          \/ /\ tpc' = "peers"
             /\ interval' \in {0, a.interval}
             /\ peers' \in 0 .. a.peers
  /\ UNCHANGED <<supported, started, completed, tcompleted, event, announces,
                 fds, addr, connection, history>>

-----------------------------------------------------------------------------
(* periodic_announce: the peers of the answer, and the end of a turn. *)

\* create_peer_connection for the next peer, until its thread has ended.  The
\* thread leaves open its socket and, after the handshake, its queue, and may
\* complete the torrent, which takes a handshake.
next_peer ==
  /\ tpc = "peers"
  /\ peers > 0
  /\ peers' = peers - 1
  /\ \/ /\ UNCHANGED <<fds, talked, completed>>
     \/ /\ fds < MaxFds
        /\ fds' = fds + 1
        /\ talked' = talked + 1
        /\ UNCHANGED completed
     \/ /\ fds + 1 < MaxFds
        /\ fds' = fds + 2
        /\ talked' = talked + 1
        /\ completed' \in {completed, TRUE}
  /\ UNCHANGED <<tpc, supported, started, tcompleted, event, interval,
                 announces, addr, connection, got, accepted, hasty>>

no_more_peers ==
  /\ tpc = "peers"
  /\ peers = 0
  /\ tpc' = "check"
  /\ UNCHANGED <<supported, loop, fds, addr, connection, history>>

tracker_check ==
  /\ tpc = "check"
  /\ tpc' = IF completed THEN "exit" ELSE "sleep"
  /\ UNCHANGED <<supported, loop, fds, addr, connection, history>>

tracker_wakes ==
  /\ tpc = "sleep"
  /\ tpc' = "request"
  /\ hasty' = IF interval = 0 THEN hasty + 1 ELSE hasty
  /\ UNCHANGED <<supported, loop, fds, addr, connection, got, accepted, talked>>

ThreadRuns ==
  \/ create_tracker_request
  \/ not_connected \/ next_address \/ connected
  \/ \E n \in 1 .. ReqLen : send_some(n)
  \/ all_sent \/ send_fails
  \/ \E n \in 1 .. Buff : recv_some(n)
  \/ recv_fails \/ recv_ends
  \/ status_not_ok \/ answer_crashes \/ answer_parsed \/ answer_garbled
  \/ next_peer \/ no_more_peers \/ tracker_check \/ tracker_wakes

-----------------------------------------------------------------------------
(* The tracker. *)

InUse == tpc \in {"send", "recv"} /\ link = "up"

AnswerLen(a) == a.header + a.body

tracker_answers ==
  /\ InUse
  /\ Len(wire) >= ReqLen
  /\ answer = {}
  /\ \E a \in Answers : answer' = {a}
  /\ got' = Append(got, event)
  /\ UNCHANGED <<tpc, supported, loop, fds, addr, total_sent, buff, total_recv,
                 wire, link, avail, accepted, talked, hasty>>

tracker_sends ==
  /\ InUse
  /\ \E a \in answer : avail < AnswerLen(a)
  /\ avail' = avail + 1
  /\ UNCHANGED <<tpc, supported, loop, fds, addr, total_sent, buff, total_recv,
                 wire, link, answer, history>>

\* The tracker closes the connection when it has answered, at the latest after
\* its own timeout; or earlier.
tracker_closes ==
  /\ InUse
  /\ "cut" \in Faults \/ \E a \in answer : avail = AnswerLen(a)
  /\ link' = "closed"
  /\ UNCHANGED <<tpc, supported, loop, fds, addr, total_sent, buff, total_recv,
                 wire, answer, avail, history>>

connection_breaks ==
  /\ InUse
  /\ "reset" \in Faults
  /\ link' = "broken"
  /\ UNCHANGED <<tpc, supported, loop, fds, addr, total_sent, buff, total_recv,
                 wire, answer, avail, history>>

TrackerRuns == tracker_answers \/ tracker_sends \/ tracker_closes

Next == ThreadRuns \/ TrackerRuns \/ connection_breaks

Spec == Init /\ [][Next]_vars

\* The thread is scheduled, and the tracker answers and then closes.
FairSpec == Spec /\ WF_vars(ThreadRuns) /\ WF_vars(TrackerRuns)

-----------------------------------------------------------------------------
TypeOK ==
  /\ tpc \in {"request", "connect", "send", "recv", "parse", "peers", "check",
              "sleep", "exit", "crashed", "killed"}
  /\ {supported, started, completed, tcompleted} \subseteq BOOLEAN
  /\ event \in {"NONE", "STARTED", "COMPLETED"}
  /\ {interval, peers, buff, total_recv, avail, hasty} \subseteq Nat
  /\ {accepted, talked, announces} \subseteq Nat
  /\ fds \in 0 .. MaxFds
  /\ addr \in 1 .. Addresses + 1
  /\ total_sent \in 0 .. ReqLen
  /\ wire \in Seq(Nat)
  /\ link \in {"none", "up", "closed", "dead", "broken"}
  /\ answer \subseteq Answers
  /\ got \in Seq({"NONE", "STARTED", "COMPLETED"})

\* What tracker_send_all gives to the connection, however send divides it, is
\* the request from its beginning: nothing twice, nothing left out.
RequestInOrder == \A i \in 1 .. Len(wire) : wire[i] = i

\* The tracker hears STARTED at most once, and before anything else: if the
\* first announce does not reach it, never.
StartedFirst == \A i \in 1 .. Len(got) : got[i] = "STARTED" => i = 1

\* What the tracker gets: whole requests, with their events in order.
Requests == RequestInOrder /\ StartedFirst

\* recv never writes behind the buffer, however long the answer is and however
\* it arrives (the first argument and the length in tracker_recv_resp).
InsideBuffer == total_recv <= Buff

\* The program can make no more than MaxFds connections in its life, to the
\* tracker and to peers together: each leaves a descriptor open.
ConnectionsBounded == accepted + talked <= MaxFds

\* An interval of 0, from an answer with a failure reason for instance, makes
\* the loop announce without a pause, but only as long as descriptors last:
\* a failed announce always waits.
HasteBounded == hasty <= MaxFds

\* What is bounded: every variable by its type, the buffer, the connections
\* of the program's life, and the announces without a pause.
Bounds == TypeOK /\ InsideBuffer /\ ConnectionsBounded /\ HasteBounded

\* An announce ends, whatever the tracker sends, once the tracker has closed
\* the connection.
AnnounceEnds ==
  tpc = "connect" ~> tpc \in {"check", "peers", "crashed", "killed"}
=============================================================================
