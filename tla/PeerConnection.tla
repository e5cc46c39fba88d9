--------------------------- MODULE PeerConnection ---------------------------
(***************************************************************************)
(* One thread of src/peer_connection.cpp downloading from one remote peer, *)
(* the part of torrent_info that it shares with the tracker thread, and    *)
(* the remote peer as its environment.  Threads run one at a time          *)
(* (peer_connection_create joins the thread it creates), so the shared     *)
(* state outlives the connections and the other variables belong to the    *)
(* current one.                                                            *)
(*                                                                         *)
(* A block is one 16 KiB request.  Its bytes are abstracted to one bit:    *)
(* whether the mapped file holds the bytes the metainfo describes.         *)
(***************************************************************************)
EXTENDS Integers, Sequences, FiniteSets

CONSTANTS
  NumPieces,   \* torrent->pieces.size()
  NumBlocks,   \* blocks of each piece, as piece_request_create cuts it
  OnDisk,      \* blocks the files found at start-up may already hold
  Faults,      \* what the network and the remote peer may do, see below
  MaxInbox,    \* bound: messages waiting in the socket's receive buffer
  MaxBad       \* bound: corrupt blocks and refused messages sent

(***************************************************************************)
(* "fail"    connect, handshake or mq_open fails                           *)
(* "close"   the remote peer closes, perhaps in the middle of a message    *)
(* "choke"   the remote peer chokes, dropping requests it has not answered *)
(* "corrupt" the remote peer answers with bytes that fail the SHA1 check   *)
(* "partial" the remote peer does not have every piece at the start        *)
(* "have"    the remote peer obtains pieces and announces them             *)
(* "request" the remote peer asks for a block of ours                      *)
(* "keep"    the remote peer sends a KEEPALIVE                             *)
(* "refuse"  the remote peer sends what peer_msg_recv refuses (a CANCEL)   *)
(***************************************************************************)
AllFaults == {"fail", "close", "choke", "corrupt", "partial", "have",
              "request", "keep", "refuse"}

Piece == 0 .. NumPieces - 1
Blocks(p) == 0 .. NumBlocks[p] - 1
BlocksOf(p) == {p} \X Blocks(p)
AllBlocks == UNION {BlocksOf(p) : p \in Piece}

ASSUME ConstantsAssumption ==
  /\ NumPieces \in Nat \ {0}
  /\ NumBlocks \in [Piece -> Nat \ {0}]
  /\ OnDisk \subseteq AllBlocks
  /\ Faults \subseteq AllFaults
  /\ MaxInbox \in Nat \ {0}
  /\ MaxBad \in Nat

VARIABLES
  \* torrent_info, shared with the tracker thread
  pieces_state,    \* sh.pieces_state
  pieces_left,     \* sh.pieces_left
  completed,       \* sh.completed
  good,            \* blocks whose bytes in the files are the right ones
  mapped,          \* files are mapped under their .incomplete names
  \* the peer thread and its conn_state
  pc,              \* where the thread is
  choked,          \* local.choked
  interested,      \* local.interested
  peer_have,       \* pieces the remote peer announced
  local_have,      \* our pieces when the connection started
  peer_requests,   \* whether the queue of the remote peer's requests has any
  local_requests,  \* our outstanding piece_requests
  \* the remote peer and the connection to it
  open,            \* the remote peer has not closed
  inbox,           \* messages received and not read yet
  asked,           \* blocks requested that the remote peer has not answered
  rchoking,        \* the remote peer is choking us
  rhave,           \* pieces the remote peer has
  bad              \* corrupt blocks and refused messages sent so far

shared == <<pieces_state, pieces_left, completed, good, mapped>>
conn == <<choked, interested, peer_have, local_have, peer_requests,
          local_requests>>
remote == <<open, asked, rchoking, rhave, bad>>
vars == <<shared, pc, conn, remote, inbox>>

PieceStates == {"NOT_REQUESTED", "REQUESTED", "HAVE"}

ThreadStates == {"none", "connect", "handshake", "setup", "recv", "request",
                 "check", "killed"}

PieceRequests == [piece_index : Piece, missing : SUBSET Nat, blocks_left : Int]

Message ==
  [type : {"KEEPALIVE", "CHOKE", "UNCHOKE", "REQUEST", "REFUSED"}]
    \cup [type : {"HAVE"}, piece : Piece]
    \cup [type : {"BITFIELD"}, have : SUBSET Piece]
    \cup [type : {"PIECE"}, piece : Piece, block : Nat,
          data : {"good", "bad", "cut"}]

-----------------------------------------------------------------------------
(***************************************************************************)
(* Start-up: torrent_init.  A file already at the final path keeps its     *)
(* bytes (open has no O_TRUNC), but no piece counts as HAVE.               *)
(***************************************************************************)
SharedInit ==
  /\ pieces_state = [p \in Piece |-> "NOT_REQUESTED"]
  /\ pieces_left = NumPieces
  /\ completed = FALSE
  /\ good \in SUBSET OnDisk
  /\ mapped = TRUE

Init ==
  /\ SharedInit
  /\ pc = "none"
  /\ choked = TRUE
  /\ interested = FALSE
  /\ peer_have = {}
  /\ local_have = {}
  /\ peer_requests = FALSE
  /\ local_requests = {}
  /\ open = FALSE
  /\ inbox = <<>>
  /\ asked = {}
  /\ rchoking = TRUE
  /\ rhave = {}
  /\ bad = 0

\* pthread_exit, or the process killed: conn_state goes, the pieces stay.
\* Nobody reads the socket again, so the wire is reset with it.
ThreadEnds(to) ==
  /\ pc' = to
  /\ choked' = TRUE
  /\ interested' = FALSE
  /\ peer_have' = {}
  /\ local_have' = {}
  /\ peer_requests' = FALSE
  /\ local_requests' = {}
  /\ open' = FALSE
  /\ inbox' = <<>>
  /\ asked' = {}
  /\ rchoking' = TRUE
  /\ rhave' = {}
  /\ UNCHANGED bad

\* peer_send_buff.  Once the remote peer has closed, send still succeeds
\* until its reset arrives, then fails, or raises SIGPIPE, which nothing
\* in the program ignores or handles.
SendResults == IF open THEN {"sent"} ELSE {"sent", "failed", "sigpipe"}

-----------------------------------------------------------------------------
peer_connection_create ==
  /\ pc = "none"
  /\ pc' = "connect"
  /\ UNCHANGED <<shared, conn, remote, inbox>>

peer_connect_ok ==
  /\ pc = "connect"
  /\ pc' = "handshake"
  /\ UNCHANGED <<shared, conn, remote, inbox>>

peer_connect_fails ==
  /\ pc = "connect"
  /\ "fail" \in Faults
  /\ ThreadEnds("none")
  /\ UNCHANGED shared

\* The remote peer may follow its handshake with its bitfield.
handshake_ok ==
  /\ pc = "handshake"
  /\ pc' = "setup"
  /\ open' = TRUE
  /\ \E have \in IF "partial" \in Faults THEN SUBSET Piece ELSE {Piece} :
       /\ rhave' = have
       /\ inbox' \in {<<[type |-> "BITFIELD", have |-> have]>>}
                       \cup (IF have = {} THEN {<<>>} ELSE {})
  /\ UNCHANGED <<shared, conn, asked, rchoking, bad>>

handshake_fails ==
  /\ pc = "handshake"
  /\ "fail" \in Faults
  /\ ThreadEnds("none")
  /\ UNCHANGED shared

\* mq_open, conn_state_init, the initial bitfield (always empty) and
\* unchoke, whose result is ignored.
setup_ok ==
  /\ pc = "setup"
  /\ pc' = "recv"
  /\ local_have' = {p \in Piece : pieces_state[p] = "HAVE"}
  /\ UNCHANGED <<shared, choked, interested, peer_have, peer_requests,
                 local_requests, remote, inbox>>

setup_fails ==
  /\ pc = "setup"
  /\ \/ "fail" \in Faults /\ ThreadEnds("none")
     \/ "failed" \in SendResults /\ ThreadEnds("none")
     \/ "sigpipe" \in SendResults /\ ThreadEnds("killed")
  /\ UNCHANGED shared

-----------------------------------------------------------------------------
(***************************************************************************)
(* process_queued_msgs: peer_msg_recv and process_msg for each message in  *)
(* the receive buffer.  peer_msg_buff_nonempty does not tell a connection  *)
(* that the remote peer closed from one where nothing has arrived.         *)
(***************************************************************************)
Receive(type) ==
  /\ pc = "recv"
  /\ inbox # <<>>
  /\ Head(inbox).type = type
  /\ inbox' = Tail(inbox)

NoMoreMessages ==
  /\ pc = "recv"
  /\ inbox = <<>>
  /\ pc' = "request"
  /\ UNCHANGED <<shared, conn, remote, inbox>>

\* A send that leaves the thread where it is, unless it kills the process.
SendOne(result) ==
  /\ result \in SendResults
  /\ pc' = IF result = "sigpipe" THEN "killed" ELSE pc

show_interested ==
  \E result \in {"sent", "failed", "sigpipe"} :
    /\ SendOne(result)
    /\ interested' = (interested \/ result = "sent")

recv_keepalive ==
  /\ Receive("KEEPALIVE")
  /\ UNCHANGED <<shared, pc, conn, remote>>

\* Mutants: a choke that gives the piece back, or forgets the request.
ChokeGivesBack ==
  /\ Receive("CHOKE")
  /\ choked' = TRUE
  /\ pieces_state' = [p \in Piece |->
                        IF \E r \in local_requests : r.piece_index = p
                          THEN "NOT_REQUESTED" ELSE pieces_state[p]]
  /\ UNCHANGED <<pieces_left, completed, good, mapped, pc, interested,
                 peer_have, local_have, peer_requests, local_requests, remote>>

ChokeForgets ==
  /\ Receive("CHOKE")
  /\ choked' = TRUE
  /\ local_requests' = {}
  /\ UNCHANGED <<shared, pc, interested, peer_have, local_have,
                 peer_requests, remote>>

recv_choke ==
  /\ Receive("CHOKE")
  /\ choked' = TRUE
  /\ UNCHANGED <<shared, pc, interested, peer_have, local_have,
                 peer_requests, local_requests, remote>>

recv_unchoke ==
  /\ Receive("UNCHOKE")
  /\ choked' = FALSE
  /\ UNCHANGED <<shared, pc, interested, peer_have, local_have,
                 peer_requests, local_requests, remote>>

\* The condition asks for a piece that we already had.
recv_have ==
  LET p == Head(inbox).piece
  IN /\ Receive("HAVE")
     /\ IF ~interested /\ p \in local_have
          THEN show_interested
          ELSE UNCHANGED <<pc, interested>>
     /\ peer_have' = peer_have \cup {p}
     /\ UNCHANGED <<shared, choked, local_have, peer_requests,
                    local_requests, remote>>

recv_bitfield ==
  LET have == Head(inbox).have
  IN /\ Receive("BITFIELD")
     /\ peer_have' = have
     /\ IF \E p \in have : pieces_state[p] # "HAVE"
          THEN show_interested
          ELSE UNCHANGED <<pc, interested>>
     /\ UNCHANGED <<shared, choked, local_have, peer_requests,
                    local_requests, remote>>

recv_request ==
  /\ Receive("REQUEST")
  /\ peer_requests' = TRUE
  /\ UNCHANGED <<shared, pc, choked, interested, peer_have, local_have,
                 local_requests, remote>>

\* peer_msg_recv returns -1 and the thread exits.
recv_refused ==
  /\ pc = "recv"
  /\ inbox # <<>>
  /\ Head(inbox).type = "REFUSED"
  /\ ThreadEnds("none")
  /\ UNCHANGED shared

(***************************************************************************)
(* MSG_PIECE: peer_msg_recv_piece writes the bytes into the mapped files   *)
(* before anything looks at local_requests.  A block cut short by a close  *)
(* is only logged and goes on as a whole one.                              *)
(***************************************************************************)
Written(p, b, data) ==
  CASE data = "good" -> good \cup {<<p, b>>}
    [] data = "bad" -> good \ {<<p, b>>}
    [] data = "cut" -> good

\* Mutant: only one block of the piece is hashed.
VerifiesOneBlock(p, content) == BlocksOf(p) \cap content # {}

torrent_sha1_verify(p, content) == BlocksOf(p) \subseteq content

\* Mutants: completion is looked for before the counter goes down, or with
\* one piece still missing.
CompletesLate(p) ==
  LET done == pieces_left = 0
  IN /\ pieces_state' = [pieces_state EXCEPT ![p] = "HAVE"]
     /\ pieces_left' = IF done THEN 0 ELSE pieces_left - 1
     /\ completed' = (completed \/ done)
     /\ mapped' = (mapped /\ ~done)
     /\ \E result \in {"sent", "failed", "sigpipe"} : SendOne(result)

CompletesEarly(p) ==
  LET done == pieces_left - 1 <= 1
  IN /\ pieces_state' = [pieces_state EXCEPT ![p] = "HAVE"]
     /\ pieces_left' = pieces_left - 1
     /\ completed' = (completed \/ done)
     /\ mapped' = (mapped /\ ~done)
     /\ \E result \in {"sent", "failed", "sigpipe"} : SendOne(result)

\* Includes torrent_complete: each file is renamed and unmapped.
handle_piece_dnld_completion(p) ==
  LET fresh == pieces_state[p] # "HAVE"
      left == IF fresh THEN pieces_left - 1 ELSE pieces_left
      done == fresh /\ left = 0
  IN /\ pieces_state' = [pieces_state EXCEPT ![p] = "HAVE"]
     /\ pieces_left' = left
     /\ completed' = (completed \/ done)
     /\ mapped' = (mapped /\ ~done)
     /\ \E result \in {"sent", "failed", "sigpipe"} : SendOne(result)

\* Mutants: a bad piece is counted as missing once more, or stays REQUESTED.
NotValidCounts(p) ==
  /\ pieces_state' = [pieces_state EXCEPT ![p] = "NOT_REQUESTED"]
  /\ pieces_left' = pieces_left + 1
  /\ UNCHANGED <<completed, mapped, pc>>

NotValidKept(p) ==
  UNCHANGED <<pieces_state, pieces_left, completed, mapped, pc>>

piece_not_valid(p) ==
  /\ pieces_state' = [pieces_state EXCEPT ![p] = "NOT_REQUESTED"]
  /\ UNCHANGED <<pieces_left, completed, mapped, pc>>

\* Mutant: the block is counted and not marked as completed.
GotUnmarked(r, b) ==
  IF b \in Blocks(r.piece_index)
    THEN [r EXCEPT !.blocks_left = @ - 1]
    ELSE r

\* blocks_left counts the messages that match, not the blocks that are new.
GotBlock(r, b) ==
  IF b \in Blocks(r.piece_index)
    THEN [piece_index |-> r.piece_index, missing |-> r.missing \ {b},
          blocks_left |-> r.blocks_left - 1]
    ELSE r

\* Mutant: the request of a finished piece is not removed.
KeepsRequest(p, b) ==
  IF \E r \in local_requests : r.piece_index = p
    THEN \E r \in local_requests :
           /\ r.piece_index = p
           /\ local_requests' =
                (local_requests \ {r}) \cup {GotBlock(r, b)}
           /\ IF GotBlock(r, b).blocks_left = 0
                THEN IF torrent_sha1_verify(p, good')
                       THEN handle_piece_dnld_completion(p)
                       ELSE piece_not_valid(p)
                ELSE UNCHANGED <<pieces_state, pieces_left, completed,
                                 mapped, pc>>
    ELSE UNCHANGED <<pieces_state, pieces_left, completed, mapped, pc,
                     local_requests>>

process_piece_msg(p, b) ==
  IF \E r \in local_requests : r.piece_index = p
    THEN \E r \in local_requests :
           /\ r.piece_index = p
           /\ IF GotBlock(r, b).blocks_left = 0
                THEN /\ local_requests' = local_requests \ {r}
                     /\ IF torrent_sha1_verify(p, good')
                          THEN handle_piece_dnld_completion(p)
                          ELSE piece_not_valid(p)
                ELSE /\ local_requests' =
                          (local_requests \ {r}) \cup {GotBlock(r, b)}
                     /\ UNCHANGED <<pieces_state, pieces_left, completed,
                                    mapped, pc>>
    ELSE UNCHANGED <<pieces_state, pieces_left, completed, mapped, pc,
                     local_requests>>

recv_piece ==
  LET m == Head(inbox)
  IN /\ Receive("PIECE")
     /\ good' = Written(m.piece, m.block, m.data)
     /\ process_piece_msg(m.piece, m.block)
     /\ UNCHANGED <<choked, interested, peer_have, local_have,
                    peer_requests, remote>>

-----------------------------------------------------------------------------
(***************************************************************************)
(* The rest of the loop: ask for the next piece, then look at sh.completed *)
(***************************************************************************)
\* torrent_next_request: the first NOT_REQUESTED piece that the remote peer
\* has, or else the last REQUESTED one (left over by an earlier connection).
Wanted(state) == {p \in peer_have : pieces_state[p] = state}

\* Mutants: the second choice is any piece the remote peer has, or there is
\* no second choice.
AsksAgain(p) ==
  IF Wanted("NOT_REQUESTED") # {}
    THEN /\ p \in Wanted("NOT_REQUESTED")
         /\ \A q \in Wanted("NOT_REQUESTED") : p <= q
    ELSE /\ Wanted("REQUESTED") # {}
         /\ p \in peer_have
         /\ \A q \in peer_have : q <= p

NeverRetries(p) ==
  /\ p \in Wanted("NOT_REQUESTED")
  /\ \A q \in Wanted("NOT_REQUESTED") : p <= q

torrent_next_request(p) ==
  IF Wanted("NOT_REQUESTED") # {}
    THEN /\ p \in Wanted("NOT_REQUESTED")
         /\ \A q \in Wanted("NOT_REQUESTED") : p <= q
    ELSE /\ p \in Wanted("REQUESTED")
         /\ \A q \in Wanted("REQUESTED") : q <= p

NothingToRequest ==
  Wanted("NOT_REQUESTED") = {} /\ Wanted("REQUESTED") = {}

MayRequest == ~peer_requests /\ ~choked /\ interested

skip_requests ==
  /\ pc = "request"
  /\ ~MayRequest \/ local_requests # {}
  /\ pc' = "check"
  /\ UNCHANGED <<shared, conn, remote, inbox>>

piece_request_create(p) ==
  [piece_index |-> p, missing |-> Blocks(p), blocks_left |-> NumBlocks[p]]

\* A remote peer that is choking us may ignore requests.
Arrives(p) ==
  IF ~open THEN {asked}
  ELSE IF rchoking THEN {asked \cup kept : kept \in SUBSET BlocksOf(p)}
  ELSE {asked \cup BlocksOf(p)}

\* PEER_NUM_OUTSTANDING_REQUESTS is 1.  A piece stays REQUESTED when
\* sending the request fails.
send_requests ==
  /\ pc = "request"
  /\ MayRequest
  /\ local_requests = {}
  /\ \E p \in Piece :
       /\ torrent_next_request(p)
       /\ pieces_state' = [pieces_state EXCEPT ![p] = "REQUESTED"]
       /\ \/ /\ local_requests' = {piece_request_create(p)}
             /\ asked' \in Arrives(p)
             /\ pc' = "check"
             /\ UNCHANGED <<choked, interested, peer_have, local_have,
                            peer_requests, open, rchoking, rhave, bad, inbox>>
          \/ "failed" \in SendResults /\ ThreadEnds("none")
          \/ "sigpipe" \in SendResults /\ ThreadEnds("killed")
  /\ UNCHANGED <<pieces_left, completed, good, mapped>>

\* Mutant: local.interested is not reset.
StaysInterested ==
  /\ pc = "request"
  /\ MayRequest
  /\ local_requests = {}
  /\ NothingToRequest
  /\ pc' = "check"
  /\ UNCHANGED <<shared, conn, remote, inbox>>

show_not_interested ==
  /\ pc = "request"
  /\ MayRequest
  /\ local_requests = {}
  /\ NothingToRequest
  /\ \E result \in SendResults :
       /\ interested' = (result # "sent")
       /\ pc' = IF result = "sigpipe" THEN "killed" ELSE "check"
  /\ UNCHANGED <<shared, choked, peer_have, local_have, peer_requests,
                 local_requests, remote, inbox>>

check_completed ==
  /\ pc = "check"
  /\ UNCHANGED shared
  /\ IF completed
       THEN ThreadEnds("none")
       ELSE /\ pc' = "recv"
            /\ UNCHANGED <<conn, remote, inbox>>

-----------------------------------------------------------------------------
(***************************************************************************)
(* The remote peer: it keeps to the protocol, answers each request at most *)
(* once, and only for blocks that were asked for.                          *)
(***************************************************************************)
RemoteSends(m) ==
  /\ open
  /\ Len(inbox) < MaxInbox
  /\ inbox' = Append(inbox, m)
  /\ UNCHANGED <<shared, pc, conn>>

RemoteUnchokes ==
  /\ rchoking
  /\ rchoking' = FALSE
  /\ RemoteSends([type |-> "UNCHOKE"])
  /\ UNCHANGED <<open, asked, rhave, bad>>

\* A request still on its way may survive the choke.
RemoteChokes ==
  /\ "choke" \in Faults
  /\ ~rchoking
  /\ rchoking' = TRUE
  /\ asked' \in SUBSET asked
  /\ RemoteSends([type |-> "CHOKE"])
  /\ UNCHANGED <<open, rhave, bad>>

Answer(p, b, data) ==
  /\ <<p, b>> \in asked
  /\ ~rchoking
  /\ asked' = asked \ {<<p, b>>}
  /\ RemoteSends([type |-> "PIECE", piece |-> p, block |-> b, data |-> data])
  /\ UNCHANGED <<rchoking, rhave>>

RemoteAnswers ==
  \E pb \in asked : /\ Answer(pb[1], pb[2], "good")
                    /\ UNCHANGED <<open, bad>>

RemoteCorrupts ==
  \E pb \in asked : /\ "corrupt" \in Faults
                    /\ bad < MaxBad
                    /\ bad' = bad + 1
                    /\ Answer(pb[1], pb[2], "bad")
                    /\ UNCHANGED open

RemoteGetsPiece ==
  /\ "have" \in Faults
  /\ \E p \in Piece \ rhave :
       /\ rhave' = rhave \cup {p}
       /\ RemoteSends([type |-> "HAVE", piece |-> p])
  /\ UNCHANGED <<open, asked, rchoking, bad>>

RemoteRequests ==
  /\ "request" \in Faults
  /\ ~peer_requests
  /\ RemoteSends([type |-> "REQUEST"])
  /\ UNCHANGED remote

RemoteKeepsAlive ==
  /\ "keep" \in Faults
  /\ RemoteSends([type |-> "KEEPALIVE"])
  /\ UNCHANGED remote

RemoteRefused ==
  /\ "refuse" \in Faults
  /\ bad < MaxBad
  /\ bad' = bad + 1
  /\ RemoteSends([type |-> "REFUSED"])
  /\ UNCHANGED <<open, asked, rchoking, rhave>>

RemoteCloses ==
  /\ "close" \in Faults
  /\ open
  /\ open' = FALSE
  /\ asked' = {}
  /\ UNCHANGED <<shared, pc, conn, inbox, rchoking, rhave, bad>>

\* The connection breaks inside the last two bytes of a message, which
\* peer_msg_buff_nonempty takes for whole: peer_msg_recv refuses it, unless
\* the bytes that are missing are those of a block.
RemoteClosesInMessage ==
  /\ "close" \in Faults
  /\ open
  /\ Len(inbox) < MaxInbox
  /\ open' = FALSE
  /\ asked' = {}
  /\ inbox' = Append(inbox, [type |-> "REFUSED"])
  /\ UNCHANGED <<shared, pc, conn, rchoking, rhave, bad>>

RemoteClosesInBlock ==
  /\ "close" \in Faults
  /\ open
  /\ ~rchoking
  /\ Len(inbox) < MaxInbox
  /\ open' = FALSE
  /\ asked' = {}
  /\ \E pb \in asked :
       inbox' = Append(inbox, [type |-> "PIECE", piece |-> pb[1],
                               block |-> pb[2], data |-> "cut"])
  /\ UNCHANGED <<shared, pc, conn, rchoking, rhave, bad>>

-----------------------------------------------------------------------------
ThreadRuns ==
  \/ peer_connect_ok \/ peer_connect_fails
  \/ handshake_ok \/ handshake_fails
  \/ setup_ok \/ setup_fails
  \/ NoMoreMessages
  \/ recv_keepalive \/ recv_choke \/ recv_unchoke \/ recv_have
  \/ recv_bitfield \/ recv_request \/ recv_refused \/ recv_piece
  \/ skip_requests \/ send_requests \/ show_not_interested
  \/ check_completed

RemoteRuns ==
  \/ RemoteUnchokes \/ RemoteChokes
  \/ RemoteAnswers \/ RemoteCorrupts
  \/ RemoteGetsPiece \/ RemoteRequests
  \/ RemoteKeepsAlive \/ RemoteRefused
  \/ RemoteCloses \/ RemoteClosesInMessage \/ RemoteClosesInBlock

Next == peer_connection_create \/ ThreadRuns \/ RemoteRuns

Spec == Init /\ [][Next]_vars

(***************************************************************************)
(* Fairness.  The thread is scheduled; nothing it waits for blocks for     *)
(* ever.  A connection that can be set up is, now and then, and the remote *)
(* peer in time unchokes and answers with the right bytes.                 *)
(***************************************************************************)
ThreadFairness ==
  /\ WF_vars(ThreadRuns)
  /\ SF_vars(peer_connect_ok)
  /\ SF_vars(handshake_ok)
  /\ SF_vars(setup_ok)

RemoteFairness == WF_vars(RemoteUnchokes) /\ WF_vars(RemoteAnswers)

-----------------------------------------------------------------------------
\* Counters, flags and tables keep their types; pieces_left in particular
\* stays a number of pieces.
TypeOK ==
  /\ pieces_state \in [Piece -> PieceStates]
  /\ pieces_left \in 0 .. NumPieces
  /\ completed \in BOOLEAN
  /\ good \subseteq AllBlocks
  /\ mapped \in BOOLEAN
  /\ pc \in ThreadStates
  /\ choked \in BOOLEAN
  /\ interested \in BOOLEAN
  /\ peer_have \subseteq Piece
  /\ local_have \subseteq Piece
  /\ peer_requests \in BOOLEAN
  /\ local_requests \subseteq PieceRequests
  /\ open \in BOOLEAN
  /\ inbox \in Seq(Message)
  /\ asked \subseteq AllBlocks
  /\ rchoking \in BOOLEAN
  /\ rhave \subseteq Piece
  /\ bad \in 0 .. MaxBad

Have == {p \in Piece : pieces_state[p] = "HAVE"}

\* The counter that ends the download agrees with the table of pieces
\* across connections, and the files are renamed and unmapped exactly when
\* it reaches zero (handle_piece_dnld_completion, torrent_complete).
PiecesLeftCounts ==
  /\ pieces_left = Cardinality(Piece \ Have)
  /\ completed <=> pieces_left = 0
  /\ mapped <=> ~completed

\* At most one piece is outstanding, it is marked REQUESTED in the shared
\* table, and its counter is the number of blocks still missing, so that
\* the unsigned blocks_left never passes below zero and the SHA1 check never
\* runs early (process_piece_msg, send_requests).
OutstandingRequest ==
  /\ \A r, s \in local_requests : r = s
  /\ \A r \in local_requests :
       /\ pieces_state[r.piece_index] = "REQUESTED"
       /\ r.missing \subseteq Blocks(r.piece_index)
       /\ r.missing # {}
       /\ r.blocks_left = Cardinality(r.missing)

\* The blocks the thread waits for.
Missing ==
  {pb \in AllBlocks : \E r \in local_requests : /\ r.piece_index = pb[1]
                                              /\ pb[2] \in r.missing}

\* The answers in the receive buffer, and the block each one carries.
Answers == {i \in DOMAIN inbox : inbox[i].type = "PIECE"}
BlockAt(i) == <<inbox[i].piece, inbox[i].block>>

\* Whatever the remote peer may still answer is a block that the thread is
\* waiting for, once: no answer lands in a piece already verified or in
\* files already unmapped (peer_msg_recv_piece writes without looking).
AnswersExpected ==
  /\ asked \subseteq Missing
  /\ \A i \in Answers : BlockAt(i) \in Missing \ asked
  /\ \A i, j \in Answers : BlockAt(i) = BlockAt(j) => i = j

\* A piece marked HAVE holds the bytes the metainfo describes, whatever was
\* corrupted, cut or requested again on the way (torrent_sha1_verify).
HaveVerified == \A p \in Have : BlocksOf(p) \subseteq good

\* Nothing is outstanding after completion: no verification reads files
\* that torrent_complete unmapped.
QuietAfterCompletion == completed => local_requests = {} /\ asked = {}

\* When the thread is done with an iteration, unchoked and interested, and
\* the remote peer asked nothing of it, it has a request outstanding
\* (send_requests asks or says it is not interested).
NeverIdle ==
  pc = "check" /\ open /\ MayRequest => local_requests # {}

\* Every block awaited is still with the remote peer or in the receive
\* buffer.  It fails when the remote peer chokes: requests have no timeout
\* and are not repeated on the same connection.
NothingLost == open => Missing \subseteq asked \cup {BlockAt(i) : i \in Answers}

\* A connection always has something to go on with: a message to read, an
\* answer or the unchoke to come, or a piece that it may ask for.  This needs
\* a remote peer that has every piece, says so, and neither chokes nor asks
\* for a block of ours.
UnderWay ==
  open /\ ~completed =>
    \/ inbox # <<>>
    \/ rchoking
    \/ asked # {}
    \/ /\ MayRequest
       /\ local_requests = {}
       /\ \E p \in Piece : torrent_next_request(p)

\* With such a remote peer the thread never waits for what cannot come.
GoesOn == NothingLost /\ UnderWay

\* No step takes a piece back, and no step of a connection undoes what an
\* earlier connection downloaded.
HaveStable == [][Have \subseteq Have']_vars

\* A piece is abandoned as REQUESTED only by the end of a connection: while
\* the thread lives, giving up a request means that the piece was verified
\* or is free to be requested again.
RequestResolved ==
  [][\A r \in local_requests :
       pc' \notin {"none", "killed"} =>
         \/ \E s \in local_requests' : s.piece_index = r.piece_index
         \/ pieces_state'[r.piece_index] \in {"HAVE", "NOT_REQUESTED"}]_vars

\* The download as the abstract specification states it.
D == INSTANCE Download WITH have <- Have, complete <- completed,
                            Content <- [p \in Piece |-> BlocksOf(p)]
ImplementsDownload == D!Spec
=============================================================================
