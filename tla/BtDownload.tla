----------------------------- MODULE BtDownload -----------------------------
(***************************************************************************)
(* The tracker thread, periodic_announce of src/bt_downloader.cpp, with    *)
(* the peer threads it creates (module PeerConnection).  It announces,     *)
(* connects to each peer of the answer in turn, waiting for each thread to *)
(* end, and either stops, the download being complete, or sleeps and       *)
(* announces again.  The main thread only joins the tracker thread.        *)
(***************************************************************************)
EXTENDS PeerConnection

CONSTANT MaxPeers   \* bound: peers in one answer of the tracker

ASSUME MaxPeersAssumption == MaxPeers \in Nat \ {0}

VARIABLES
  tpc,          \* where the tracker thread is
  started,      \* the local variable of that name
  tcompleted,   \* the local variable completed: sh.completed last time
  event,        \* the event of the latest announce request
  peers         \* peers of the latest answer not yet connected to

tracker == <<tpc, started, tcompleted, event, peers>>
btVars == <<vars, tracker>>

TrackerStates == {"announce", "peers", "check", "sleep", "exit"}
Events == {"NONE", "STARTED", "COMPLETED"}

BtInit ==
  /\ Init
  /\ tpc = "announce"
  /\ started = FALSE
  /\ tcompleted = completed
  /\ event = "NONE"
  /\ peers = 0

\* The request: COMPLETED overrides STARTED.  started is set whether or
\* not the tracker ever receives the announce.
create_tracker_request ==
  /\ tpc = "announce"
  /\ started' = TRUE
  /\ tcompleted' = completed
  /\ event' = IF ~tcompleted /\ completed THEN "COMPLETED"
              ELSE IF ~started THEN "STARTED"
              ELSE "NONE"
  /\ UNCHANGED vars

announce_ok(n) ==
  /\ create_tracker_request
  /\ tpc' = "peers"
  /\ peers' = n

\* No connection, a failed send or receive, an answer that does not parse.
announce_fails ==
  /\ "fail" \in Faults
  /\ create_tracker_request
  /\ tpc' = "check"
  /\ UNCHANGED peers

\* create_peer_connection: the next peer of the list.
\* Mutant: the end of the list is missed by one.
next_peer_past_end ==
  /\ tpc = "peers"
  /\ peers >= 0
  /\ peers' = peers - 1
  /\ peer_connection_create
  /\ UNCHANGED <<tpc, started, tcompleted, event>>

next_peer ==
  /\ tpc = "peers"
  /\ peers > 0
  /\ peers' = peers - 1
  /\ peer_connection_create
  /\ UNCHANGED <<tpc, started, tcompleted, event>>

\* pthread_create fails.
next_peer_fails ==
  /\ "fail" \in Faults
  /\ tpc = "peers"
  /\ pc = "none"
  /\ peers > 0
  /\ peers' = peers - 1
  /\ UNCHANGED <<vars, tpc, started, tcompleted, event>>

\* Mutant: the last thread of the list is not joined.
no_more_peers_unjoined ==
  /\ tpc = "peers"
  /\ peers = 0
  /\ tpc' = "check"
  /\ UNCHANGED <<vars, started, tcompleted, event, peers>>

no_more_peers ==
  /\ tpc = "peers"
  /\ pc = "none"
  /\ peers = 0
  /\ tpc' = "check"
  /\ UNCHANGED <<vars, started, tcompleted, event, peers>>

\* Mutants: the loop has no break, or breaks after the first piece.
never_breaks ==
  /\ tpc = "check"
  /\ tpc' = "sleep"
  /\ UNCHANGED <<vars, started, tcompleted, event, peers>>

breaks_early ==
  /\ tpc = "check"
  /\ tpc' = IF pieces_left < NumPieces THEN "exit" ELSE "sleep"
  /\ UNCHANGED <<vars, started, tcompleted, event, peers>>

\* sh.completed is read without the mutex.
tracker_check ==
  /\ tpc = "check"
  /\ tpc' = IF completed THEN "exit" ELSE "sleep"
  /\ UNCHANGED <<vars, started, tcompleted, event, peers>>

tracker_wakes ==
  /\ tpc = "sleep"
  /\ tpc' = "announce"
  /\ UNCHANGED <<vars, started, tcompleted, event, peers>>

TrackerRuns ==
  \/ \E n \in 0 .. MaxPeers : announce_ok(n)
  \/ announce_fails
  \/ next_peer \/ next_peer_fails \/ no_more_peers
  \/ tracker_check
  \/ tracker_wakes

\* After the exit the process is gone, and nothing runs.
BtNext ==
  \/ TrackerRuns
  \/ (ThreadRuns \/ RemoteRuns) /\ UNCHANGED tracker

BtSpec == BtInit /\ [][BtNext]_btVars

(***************************************************************************)
(* Fairness: both threads are scheduled, and the tracker now and then      *)
(* answers with some peer.                                                 *)
(***************************************************************************)
BtFairSpec ==
  /\ BtSpec
  /\ WF_btVars(TrackerRuns)
  /\ SF_btVars(\E n \in 1 .. MaxPeers : announce_ok(n))
  /\ SF_btVars(next_peer)
  /\ ThreadFairness
  /\ RemoteFairness

-----------------------------------------------------------------------------
\* The variables of both threads keep their types; the list of peers is not
\* read past its end.
BtTypeOK ==
  /\ TypeOK
  /\ tpc \in TrackerStates
  /\ started \in BOOLEAN
  /\ tcompleted \in BOOLEAN
  /\ event \in Events
  /\ peers \in 0 .. MaxPeers

\* A peer thread lives only while the tracker thread waits in its list of
\* peers (peer_connection_create joins), so that the reads of sh.completed
\* without the mutex never race with the write of a peer thread.
JoinedBeforeCheck == pc # "none" => tpc = "peers"

\* The program ends only with every piece verified, the files renamed to
\* their final names and no peer thread left (the break of periodic_announce).
ExitMeansComplete ==
  tpc = "exit" =>
    /\ Have = Piece
    /\ AllBlocks \subseteq good
    /\ ~mapped
    /\ pc = "none"

\* The branch that announces COMPLETED is never taken: sh.completed turns
\* true in the loop over the peers, and the loop over the announces ends
\* before the next one.
CompletedNeverAnnounced == event # "COMPLETED"

\* With a tracker that answers now and then and a remote peer that has every
\* piece, says so, and keeps answering, the download comes to its end and the
\* program with it, despite corrupt blocks and failed connections.
ProgramEnds == <>(tpc = "exit")

\* "re-announcing to tracker again in N seconds", as it prints after each
\* answer: from there it comes to the next announce, unless the program ends.
AnnouncesAgain ==
  tpc = "peers" ~> tpc \in {"announce", "exit"} \/ pc = "killed"
=============================================================================
