-------------------------- MODULE BtDownloadProofs --------------------------
(***************************************************************************)
(* Proofs about the tracker thread and the peer threads together.  The     *)
(* program projected to a peer connection is a run of PeerConnection, so   *)
(* its invariant Inv holds here too; on top of it BtInv says when the      *)
(* tracker thread may find the download complete.                          *)
(***************************************************************************)
EXTENDS BtDownload, PeerConnectionProofs

USE ConstantsAssumption, MaxPeersAssumption

\* sh.completed turns TRUE only under the list of peers.
BtInv ==
  /\ tpc \in TrackerStates
  /\ started \in BOOLEAN
  /\ tcompleted \in BOOLEAN
  /\ event \in Events
  /\ peers \in 0 .. MaxPeers
  /\ JoinedBeforeCheck
  /\ tpc \in {"announce", "sleep"} => ~completed
  /\ tpc = "exit" => completed
  /\ CompletedNeverAnnounced

\* A peer thread that runs has not ended; the remote peer alone changes
\* neither the thread nor sh.completed.
LEMMA PeerSteps ==
  ASSUME Inv
  PROVE  /\ ThreadRuns => pc # "none"
         /\ RemoteRuns => UNCHANGED <<pc, completed>>
<1>1. ThreadRuns => pc # "none"
  BY DEF ThreadRuns, peer_connect_ok, peer_connect_fails, handshake_ok,
     handshake_fails, setup_ok, setup_fails, NoMoreMessages, recv_keepalive,
     recv_choke, recv_unchoke, recv_have, recv_bitfield, recv_request,
     recv_refused, recv_piece, skip_requests, send_requests,
     show_not_interested, check_completed, Receive
<1>2. RemoteRuns => UNCHANGED <<pc, completed>>
  BY DEF RemoteRuns, RemoteSends, RemoteUnchokes, RemoteChokes,
     RemoteAnswers, RemoteCorrupts, Answer, RemoteGetsPiece, RemoteRequests,
     RemoteKeepsAlive, RemoteRefused, RemoteCloses, RemoteClosesInMessage,
     RemoteClosesInBlock, shared
<1> QED BY <1>1, <1>2

\* Projected to the variables of PeerConnection, a step of the program is a
\* step of it: the tracker thread only creates peer threads.
LEMMA PeerImplementation == BtSpec => Spec
<1>1. BtInit => Init
  BY DEF BtInit
<1>2. [BtNext]_btVars => [Next]_vars
  BY DEF BtNext, TrackerRuns, announce_ok, announce_fails,
     create_tracker_request, next_peer, next_peer_fails, no_more_peers,
     tracker_check, tracker_wakes, Next, btVars
<1> QED BY <1>1, <1>2, PTL DEF BtSpec, Spec

\* The program starts before the first announce, with no peer thread.
LEMMA BtInvInitially == BtInit => BtInv
<1> SUFFICES ASSUME BtInit PROVE BtInv
  OBVIOUS
<1>1. /\ tpc = "announce" /\ pc = "none" /\ event = "NONE"
      /\ completed = FALSE /\ tcompleted = FALSE /\ started = FALSE
  BY DEF BtInit, Init, SharedInit
<1>2. peers \in 0 .. MaxPeers
  BY DEF BtInit
<1> QED BY <1>1, <1>2 DEF BtInv, TrackerStates, Events, JoinedBeforeCheck,
           CompletedNeverAnnounced

\* Steps of the tracker thread and of the peer threads keep both in order.
LEMMA BtStepKeepsInv ==
  ASSUME Inv, BtInv, [BtNext]_btVars
  PROVE  BtInv'
<1> USE DEF BtInv, JoinedBeforeCheck, CompletedNeverAnnounced
<1>1. completed \in BOOLEAN
  BY DEF Inv, TypeOK
<1>2. ASSUME create_tracker_request
      PROVE  /\ tpc = "announce" /\ pc = "none" /\ ~completed
             /\ UNCHANGED <<pc, completed>>
             /\ started' \in BOOLEAN /\ tcompleted' \in BOOLEAN
             /\ event' \in {"NONE", "STARTED"}
  BY <1>1, <1>2 DEF create_tracker_request, vars, shared
<1>3. ASSUME NEW n \in 0 .. MaxPeers, announce_ok(n)
      PROVE  BtInv'
  BY <1>2, <1>3 DEF announce_ok, TrackerStates, Events
<1>4. CASE announce_fails
  BY <1>2, <1>4 DEF announce_fails, TrackerStates, Events
<1>5. CASE next_peer
  BY <1>5 DEF next_peer, peer_connection_create, shared
<1>6. CASE next_peer_fails
  BY <1>6 DEF next_peer_fails, vars, shared
<1>7. CASE no_more_peers
  BY <1>7 DEF no_more_peers, vars, shared, TrackerStates
<1>8. CASE tracker_check
  BY <1>1, <1>8 DEF tracker_check, vars, shared, TrackerStates
<1>9. CASE tracker_wakes
  BY <1>9 DEF tracker_wakes, vars, shared, TrackerStates
<1>10. CASE ThreadRuns /\ UNCHANGED tracker
  BY <1>10, PeerSteps DEF tracker
<1>11. CASE RemoteRuns /\ UNCHANGED tracker
  BY <1>11, PeerSteps DEF tracker
<1>12. CASE UNCHANGED btVars
  BY <1>12 DEF btVars, vars, shared, tracker
<1> QED BY <1>3, <1>4, <1>5, <1>6, <1>7, <1>8, <1>9, <1>10, <1>11, <1>12
        DEF BtNext, TrackerRuns

\* The invariants of the peer connection and of the tracker thread hold
\* together in every run of the program.
THEOREM BtInvariance == BtSpec => [](Inv /\ BtInv)
<1>1. BtSpec => []Inv
  BY PeerImplementation, Invariance, PTL
<1>2. BtInit => BtInv
  BY BtInvInitially
<1>3. Inv /\ BtInv /\ [BtNext]_btVars => BtInv'
  BY BtStepKeepsInv
<1> QED BY <1>1, <1>2, <1>3, PTL DEF BtSpec

\* The variables of both threads keep their types, for any number of pieces,
\* blocks and peers; the list of peers is not read past its end.
THEOREM BtTypeCorrect == BtSpec => []BtTypeOK
<1>1. Inv /\ BtInv => BtTypeOK
  BY DEF Inv, BtInv, BtTypeOK
<1> QED BY <1>1, BtInvariance, PTL

\* The unlocked reads of sh.completed never race with a peer thread.
THEOREM JoinedFirst == BtSpec => []JoinedBeforeCheck
<1>1. BtInv => JoinedBeforeCheck
  BY DEF BtInv
<1> QED BY <1>1, BtInvariance, PTL

\* The announce of the completed event is never sent.
THEOREM CompletedUnannounced == BtSpec => []CompletedNeverAnnounced
<1>1. BtInv => CompletedNeverAnnounced
  BY DEF BtInv
<1> QED BY <1>1, BtInvariance, PTL

\* The program ends only with every piece verified on disk, the files under
\* their final names and no peer thread left.
THEOREM ExitIsComplete == BtSpec => []ExitMeansComplete
<1>1. Inv /\ BtInv => ExitMeansComplete
  <2> SUFFICES ASSUME Inv, BtInv, tpc = "exit"
               PROVE  /\ Have = Piece /\ AllBlocks \subseteq good
                      /\ ~mapped /\ pc = "none"
    BY DEF ExitMeansComplete
  <2>1. completed /\ pc = "none"
    BY DEF BtInv, JoinedBeforeCheck
  <2>2. Have = Piece /\ ~mapped
    BY <2>1, NoneLeft DEF Inv, PiecesLeftCounts, Have
  <2>3. AllBlocks \subseteq good
    BY <2>2 DEF Inv, HaveVerified, AllBlocks
  <2> QED BY <2>1, <2>2, <2>3
<1> QED BY <1>1, BtInvariance, PTL

\* Over all the connections of the program, remote peers that never choke lose
\* none of our requests: what a thread waits for is asked for or on its way.
THEOREM NothingLostByProgram ==
  ASSUME "choke" \notin Faults
  PROVE  BtSpec => []NothingLost
<1>1. Spec => []NothingLost
  BY NothingIsLost
<1>2. BtSpec => Spec
  BY PeerImplementation
<1> QED BY <1>1, <1>2

\* Over all the connections of the program, remote peers that have every piece,
\* never choke and ask nothing of us never leave a peer thread, and with it the
\* tracker thread that joins it, with nothing to go on with.
THEOREM ProgramGoesOn ==
  ASSUME SeedsOnly
  PROVE  BtSpec => []GoesOn
<1>1. Spec => []GoesOn
  BY SeedsKeepGoing
<1>2. BtSpec => Spec
  BY PeerImplementation
<1> QED BY <1>1, <1>2

\* The whole program, its tracker thread and all the peer threads of all its
\* announces, is one download as the abstract specification states it.
THEOREM ProgramIsDownload == BtSpec => ImplementsDownload
<1>1. BtSpec => Spec
  BY PeerImplementation
<1>2. Spec => ImplementsDownload
  BY Implementation
<1> QED BY <1>1, <1>2
=============================================================================
