----------------------- MODULE PeerConnectionProofs -----------------------
(***************************************************************************)
(* Proofs, for every value of the constants, of the safety properties of   *)
(* PeerConnection.  None of them is inductive alone: the counter needs to  *)
(* know that a piece being verified is not HAVE yet, which needs the       *)
(* outstanding request, which needs the answers in flight to be for it.    *)
(* Their conjunction Inv is inductive.                                     *)
(***************************************************************************)
EXTENDS PeerConnection, FiniteSetTheorems, WellFoundedInduction, TLAPS

Inv ==
  /\ TypeOK
  /\ PiecesLeftCounts
  /\ OutstandingRequest
  /\ AnswersExpected
  /\ HaveVerified

USE ConstantsAssumption

-----------------------------------------------------------------------------
(* Facts about the operators. *)

\* The set of pieces and any set of blocks of a piece are finite.
LEMMA FiniteBlocks ==
  /\ IsFiniteSet(Piece)
  /\ Cardinality(Piece) = NumPieces
  /\ \A p \in Piece : /\ IsFiniteSet(Blocks(p))
                      /\ Cardinality(Blocks(p)) = NumBlocks[p]
                      /\ Blocks(p) # {}
                      /\ Blocks(p) \subseteq Nat
<1>1. IsFiniteSet(Piece) /\ Cardinality(Piece) = NumPieces
  BY FS_Interval DEF Piece
<1>2. ASSUME NEW p \in Piece
      PROVE  /\ IsFiniteSet(Blocks(p))
             /\ Cardinality(Blocks(p)) = NumBlocks[p]
             /\ Blocks(p) # {}
             /\ Blocks(p) \subseteq Nat
  <2>1. NumBlocks[p] \in Nat \ {0}
    BY <1>2
  <2>2. IsFiniteSet(Blocks(p)) /\ Cardinality(Blocks(p)) = NumBlocks[p]
    BY <2>1, FS_Interval DEF Blocks
  <2>3. 0 \in Blocks(p) /\ Blocks(p) \subseteq Nat
    BY <2>1 DEF Blocks
  <2> QED BY <2>2, <2>3
<1> QED BY <1>1, <1>2

\* A pair is a block exactly when its second half is a block of its first.
LEMMA BlockPairs ==
  /\ \A p \in Piece : \A b \in Blocks(p) : <<p, b>> \in AllBlocks
  /\ \A p \in Piece : BlocksOf(p) \subseteq AllBlocks
  /\ \A pb \in AllBlocks : /\ pb[1] \in Piece
                           /\ pb[2] \in Blocks(pb[1])
                           /\ pb = <<pb[1], pb[2]>>
  /\ \A p \in Piece : \A pb : pb \in BlocksOf(p) <=>
       \E b \in Blocks(p) : pb = <<p, b>>
BY DEF AllBlocks, BlocksOf

\* What a message of each type carries.
LEMMA Messages ==
  \A m \in Message :
    /\ m.type = "PIECE" =>
         m.piece \in Piece /\ m.block \in Nat /\ m.data \in {"good", "bad", "cut"}
    /\ m.type = "HAVE" => m.piece \in Piece
    /\ m.type = "BITFIELD" => m.have \subseteq Piece
BY DEF Message

-----------------------------------------------------------------------------
(* What is kept by steps that leave the part of the state it is about alone. *)

\* The counter and the content of the files depend on the shared state only.
LEMMA SharedKept ==
  ASSUME PiecesLeftCounts, HaveVerified, UNCHANGED shared
  PROVE  PiecesLeftCounts' /\ HaveVerified'
BY DEF PiecesLeftCounts, HaveVerified, Have, shared

\* The outstanding request stays consistent while the table marks it.
LEMMA RequestKept ==
  ASSUME OutstandingRequest, UNCHANGED <<pieces_state, local_requests>>
  PROVE  OutstandingRequest'
BY DEF OutstandingRequest

\* A new connection starts with nothing outstanding and nothing in flight.
LEMMA ConnectionReset ==
  ASSUME NEW to \in {"none", "killed"}, ThreadEnds(to), TypeOK
  PROVE  /\ OutstandingRequest'
         /\ AnswersExpected'
         /\ pieces_state' \in [Piece -> PieceStates] /\ pieces_left' \in 0 .. NumPieces
            /\ completed' \in BOOLEAN /\ good' \subseteq AllBlocks
            /\ mapped' \in BOOLEAN
            => TypeOK'
<1>1. OutstandingRequest'
  BY DEF ThreadEnds, OutstandingRequest
<1>2. AnswersExpected'
  <2>1. Answers' = {} /\ asked' = {}
    BY DEF ThreadEnds, Answers
  <2> QED BY <2>1 DEF AnswersExpected
<1>3. ASSUME pieces_state' \in [Piece -> PieceStates],
             pieces_left' \in 0 .. NumPieces, completed' \in BOOLEAN,
             good' \subseteq AllBlocks, mapped' \in BOOLEAN
      PROVE  TypeOK'
  <2>1. inbox' \in Seq(Message)
    BY DEF ThreadEnds
  <2> QED BY <1>3, <2>1 DEF ThreadEnds, TypeOK, ThreadStates
<1> QED BY <1>1, <1>2, <1>3

\* pthread_exit, at whatever point, leaves the shared state consistent.
LEMMA ThreadEndsKeepsInv ==
  ASSUME Inv, NEW to \in {"none", "killed"}, ThreadEnds(to), UNCHANGED shared
  PROVE  Inv'
<1>1. TypeOK'
  BY ConnectionReset DEF Inv, TypeOK, shared
<1> QED BY <1>1, ConnectionReset, SharedKept DEF Inv

\* Reading a message leaves the other answers where they are.
LEMMA TailKeepsAnswers ==
  ASSUME TypeOK, AnswersExpected, inbox # <<>>, inbox' = Tail(inbox),
         UNCHANGED <<asked, local_requests>>
  PROVE  AnswersExpected'
<1>1. \A i \in DOMAIN inbox' :
        i \in Nat /\ i + 1 \in DOMAIN inbox /\ inbox'[i] = inbox[i + 1]
  BY DEF TypeOK
<1>2. \A i \in Answers' : /\ i \in Nat
                          /\ i + 1 \in Answers
                          /\ BlockAt(i)' = BlockAt(i + 1)
  BY <1>1 DEF Answers, BlockAt
<1>3. Missing' = Missing
  BY DEF Missing
<1> QED BY <1>2, <1>3 DEF AnswersExpected

\* A message that is no answer changes nothing about the answers.
LEMMA MessageKeepsAnswers ==
  ASSUME TypeOK, AnswersExpected, NEW m, m.type # "PIECE",
         inbox' = Append(inbox, m), asked' \subseteq asked,
         UNCHANGED local_requests
  PROVE  AnswersExpected'
<1>1. \A i \in DOMAIN inbox' :
        \/ i \in DOMAIN inbox /\ inbox'[i] = inbox[i]
        \/ inbox'[i] = m
  BY DEF TypeOK
<1>2. \A i \in Answers' : i \in Answers /\ BlockAt(i)' = BlockAt(i)
  BY <1>1 DEF Answers, BlockAt
<1>3. Missing' = Missing
  BY DEF Missing
<1> QED BY <1>2, <1>3 DEF AnswersExpected

\* An answer moves a block from asked to the receive buffer.
LEMMA AnswerKeepsAnswers ==
  ASSUME TypeOK, AnswersExpected, NEW pb \in asked, NEW m,
         m.piece = pb[1], m.block = pb[2],
         inbox' = Append(inbox, m), asked' \subseteq asked \ {pb},
         UNCHANGED local_requests
  PROVE  AnswersExpected'
<1>0. pb = <<pb[1], pb[2]>>
  BY BlockPairs DEF TypeOK
<1>1. \A i \in DOMAIN inbox' :
        \/ i \in DOMAIN inbox /\ inbox'[i] = inbox[i]
        \/ i = Len(inbox) + 1 /\ inbox'[i] = m
  BY DEF TypeOK
<1>2. ASSUME NEW i \in Answers'
      PROVE  \/ i \in Answers /\ BlockAt(i)' = BlockAt(i)
             \/ i = Len(inbox) + 1 /\ BlockAt(i)' = pb
  <2>1. i \in DOMAIN inbox' /\ inbox'[i].type = "PIECE"
    BY DEF Answers
  <2>2. CASE i \in DOMAIN inbox /\ inbox'[i] = inbox[i]
    BY <2>1, <2>2 DEF Answers, BlockAt
  <2>3. CASE i = Len(inbox) + 1 /\ inbox'[i] = m
    BY <1>0, <2>3 DEF BlockAt
  <2> QED BY <1>1, <2>1, <2>2, <2>3
<1>3. Missing' = Missing
  BY DEF Missing
<1>4. \A i \in Answers : BlockAt(i) \in Missing \ asked
  BY DEF AnswersExpected
<1>5. asked \subseteq Missing /\ pb \notin asked'
  BY DEF AnswersExpected
<1>6. \A i \in Answers' : BlockAt(i)' \in Missing' \ asked'
  BY <1>2, <1>3, <1>4, <1>5
<1>7. \A i, j \in Answers' : BlockAt(i)' = BlockAt(j)' => i = j
  BY <1>2, <1>4 DEF AnswersExpected
<1> QED BY <1>3, <1>5, <1>6, <1>7 DEF AnswersExpected

-----------------------------------------------------------------------------
(* The initial states, and the actions one by one. *)

\* torrent_init leaves the shared state consistent.
LEMMA InitEstablishesInv == Init => Inv
<1> SUFFICES ASSUME Init PROVE Inv
  OBVIOUS
<1>1. inbox \in Seq(Message) /\ NumPieces \in 0 .. NumPieces
  BY DEF Init
<1>2. TypeOK
  <2>1. /\ pieces_state \in [Piece -> PieceStates]
        /\ good \subseteq AllBlocks
    BY DEF Init, SharedInit, PieceStates
  <2>2. bad \in 0 .. MaxBad
    BY DEF Init
  <2> QED BY <1>1, <2>1, <2>2 DEF Init, SharedInit, TypeOK, ThreadStates
<1>3. PiecesLeftCounts
  <2>1. Have = {}
    BY DEF Init, SharedInit, Have
  <2>2. Piece \ Have = Piece
    BY <2>1
  <2> QED BY <2>2, FiniteBlocks DEF Init, SharedInit, PiecesLeftCounts
<1>4. OutstandingRequest
  BY DEF Init, OutstandingRequest
<1>5. AnswersExpected
  BY DEF Init, AnswersExpected, Answers
<1>6. HaveVerified
  BY DEF Init, SharedInit, HaveVerified, Have
<1> QED BY <1>2, <1>3, <1>4, <1>5, <1>6 DEF Inv

\* Steps of the thread that read no message and ask for nothing.
LEMMA QuietStepsKeepInv ==
  ASSUME Inv,
         \/ peer_connection_create \/ peer_connect_ok \/ peer_connect_fails
         \/ handshake_fails \/ setup_ok \/ setup_fails
         \/ NoMoreMessages \/ skip_requests \/ show_not_interested
         \/ check_completed
  PROVE  Inv'
<1> USE DEF Inv
<1>1. CASE /\ UNCHANGED <<shared, local_requests, remote, inbox, choked,
                        peer_have, peer_requests>>
           /\ pc' \in ThreadStates /\ interested' \in BOOLEAN
           /\ local_have' \subseteq Piece
  <2>1. TypeOK'
    BY <1>1 DEF TypeOK, shared, remote
  <2>2. OutstandingRequest'
    BY <1>1, RequestKept DEF shared
  <2>3. AnswersExpected'
    BY <1>1 DEF AnswersExpected, Answers, BlockAt, Missing, remote
  <2> QED BY <1>1, <2>1, <2>2, <2>3, SharedKept
<1>2. CASE \E to \in {"none", "killed"} : ThreadEnds(to) /\ UNCHANGED shared
  BY <1>2, ThreadEndsKeepsInv
<1>3. CASE peer_connection_create
  BY <1>1, <1>3 DEF peer_connection_create, conn, ThreadStates, TypeOK
<1>4. CASE peer_connect_ok
  BY <1>1, <1>4 DEF peer_connect_ok, conn, ThreadStates, TypeOK
<1>5. CASE peer_connect_fails
  BY <1>2, <1>5 DEF peer_connect_fails
<1>6. CASE handshake_fails
  BY <1>2, <1>6 DEF handshake_fails
<1>7. CASE setup_ok
  BY <1>1, <1>7 DEF setup_ok, ThreadStates, TypeOK
<1>8. CASE setup_fails
  BY <1>2, <1>8 DEF setup_fails
<1>9. CASE NoMoreMessages
  BY <1>1, <1>9 DEF NoMoreMessages, conn, ThreadStates, TypeOK
<1>10. CASE skip_requests
  BY <1>1, <1>10 DEF skip_requests, conn, ThreadStates, TypeOK
<1>11. CASE show_not_interested
  <2>1. pc' \in ThreadStates
    BY <1>11 DEF show_not_interested, ThreadStates
  <2>2. interested' \in BOOLEAN
    BY <1>11 DEF show_not_interested
  <2> QED BY <1>1, <1>11, <2>1, <2>2 DEF show_not_interested, TypeOK
<1>12. CASE check_completed
  BY <1>1, <1>2, <1>12 DEF check_completed, conn, ThreadStates, TypeOK
<1> QED BY <1>3, <1>4, <1>5, <1>6, <1>7, <1>8, <1>9, <1>10, <1>11, <1>12

\* The handshake opens a connection with at most a bitfield on its way.
LEMMA HandshakeKeepsInv ==
  ASSUME Inv, handshake_ok
  PROVE  Inv'
<1> USE DEF Inv
<1>1. PICK have \in SUBSET Piece :
        /\ rhave' = have
        /\ inbox' \in {<<[type |-> "BITFIELD", have |-> have]>>, <<>>}
  BY DEF handshake_ok
<1>2. inbox' \in Seq(Message) /\ Answers' = {}
  <2>1. CASE inbox' = <<>>
    BY <2>1 DEF Answers
  <2>2. CASE inbox' = <<[type |-> "BITFIELD", have |-> have]>>
    <3>1. [type |-> "BITFIELD", have |-> have] \in Message
      BY DEF Message
    <3> QED BY <2>2, <3>1 DEF Answers
  <2> QED BY <1>1, <2>1, <2>2
<1>3. TypeOK'
  BY <1>1, <1>2 DEF handshake_ok, TypeOK, shared, conn, ThreadStates
<1>4. OutstandingRequest'
  BY RequestKept DEF handshake_ok, shared, conn
<1>5. AnswersExpected'
  BY <1>2 DEF handshake_ok, conn, AnswersExpected, Missing
<1> QED BY <1>3, <1>4, <1>5, SharedKept DEF handshake_ok

\* Messages of the remote peer that are no answers.
LEMMA PlainMessagesKeepInv ==
  ASSUME Inv,
         \/ recv_keepalive \/ recv_choke \/ recv_unchoke \/ recv_have
         \/ recv_bitfield \/ recv_request \/ recv_refused
  PROVE  Inv'
<1> USE DEF Inv
<1>1. CASE /\ inbox # <<>> /\ inbox' = Tail(inbox)
           /\ UNCHANGED <<shared, local_requests, remote, local_have>>
           /\ pc' \in ThreadStates /\ interested' \in BOOLEAN
           /\ choked' \in BOOLEAN /\ peer_requests' \in BOOLEAN
           /\ peer_have' \subseteq Piece
  <2>1. TypeOK'
    BY <1>1 DEF TypeOK, shared, remote
  <2>2. OutstandingRequest'
    BY <1>1, RequestKept DEF shared
  <2>3. AnswersExpected'
    BY <1>1, TailKeepsAnswers DEF remote
  <2> QED BY <1>1, <2>1, <2>2, <2>3, SharedKept
<1>2. inbox # <<>> => Head(inbox) \in Message
  BY DEF TypeOK
<1>3. CASE recv_keepalive
  BY <1>1, <1>3 DEF recv_keepalive, Receive, conn, TypeOK
<1>4. CASE recv_choke
  BY <1>1, <1>4 DEF recv_choke, Receive, TypeOK
<1>5. CASE recv_unchoke
  BY <1>1, <1>5 DEF recv_unchoke, Receive, TypeOK
<1>6. CASE recv_request
  BY <1>1, <1>6 DEF recv_request, Receive, TypeOK
<1>7. pc \in ThreadStates /\ interested \in BOOLEAN /\ "killed" \in ThreadStates
  BY DEF TypeOK, ThreadStates
<1>8. show_interested => pc' \in ThreadStates /\ interested' \in BOOLEAN
  BY <1>7 DEF show_interested, SendOne
<1>9. CASE recv_have
  <2>1. pc' \in ThreadStates /\ interested' \in BOOLEAN
    BY <1>7, <1>8, <1>9 DEF recv_have
  <2>2. peer_have' \subseteq Piece
    BY <1>2, <1>9, Messages DEF recv_have, Receive, TypeOK
  <2> QED BY <1>1, <1>9, <2>1, <2>2 DEF recv_have, Receive, TypeOK
<1>10. CASE recv_bitfield
  <2>1. pc' \in ThreadStates /\ interested' \in BOOLEAN
    BY <1>7, <1>8, <1>10 DEF recv_bitfield
  <2>2. peer_have' \subseteq Piece
    BY <1>2, <1>10, Messages DEF recv_bitfield, Receive
  <2> QED BY <1>1, <1>10, <2>1, <2>2 DEF recv_bitfield, Receive, TypeOK
<1>11. CASE recv_refused
  BY <1>11, ThreadEndsKeepsInv DEF recv_refused
<1> QED BY <1>3, <1>4, <1>5, <1>6, <1>9, <1>10, <1>11

\* The remote peer sends, or closes.
LEMMA RemoteKeepsInv ==
  ASSUME Inv, RemoteRuns
  PROVE  Inv'
<1> USE DEF Inv
<1>1. CASE /\ UNCHANGED <<shared, pc, conn>>
           /\ open' \in BOOLEAN /\ asked' \subseteq asked
           /\ rchoking' \in BOOLEAN /\ rhave' \subseteq Piece
           /\ bad' \in 0 .. MaxBad
           /\ inbox' \in Seq(Message)
           /\ AnswersExpected'
  <2>1. TypeOK'
    BY <1>1 DEF TypeOK, shared, conn
  <2>2. OutstandingRequest'
    BY <1>1, RequestKept DEF shared, conn
  <2> QED BY <1>1, <2>1, <2>2, SharedKept
<1>2. ASSUME NEW m \in Message, m.type # "PIECE", RemoteSends(m),
             asked' \subseteq asked,
             rchoking' \in BOOLEAN, rhave' \subseteq Piece,
             UNCHANGED open, bad' \in 0 .. MaxBad
      PROVE  Inv'
  <2>1. inbox' \in Seq(Message)
    BY <1>2 DEF RemoteSends, TypeOK
  <2>2. AnswersExpected'
    BY <1>2, MessageKeepsAnswers DEF RemoteSends, conn
  <2> QED BY <1>1, <1>2, <2>1, <2>2 DEF RemoteSends, TypeOK
<1>3. ASSUME NEW pb \in asked, NEW data \in {"good", "bad", "cut"},
             inbox' = Append(inbox, [type |-> "PIECE", piece |-> pb[1],
                                     block |-> pb[2], data |-> data]),
             asked' \subseteq asked \ {pb},
             UNCHANGED <<shared, pc, conn, rchoking, rhave>>,
             open' \in BOOLEAN, bad' \in 0 .. MaxBad
      PROVE  Inv'
  <2> DEFINE m == [type |-> "PIECE", piece |-> pb[1], block |-> pb[2],
                   data |-> data]
  <2>1. pb[1] \in Piece /\ pb[2] \in Nat
    BY BlockPairs, FiniteBlocks DEF TypeOK
  <2>2. m \in Message
    BY <2>1 DEF Message
  <2>3. inbox' \in Seq(Message)
    BY <1>3, <2>2 DEF TypeOK
  <2>4. AnswersExpected'
    BY <1>3, AnswerKeepsAnswers DEF conn
  <2> QED BY <1>1, <1>3, <2>3, <2>4 DEF TypeOK
<1>4. /\ [type |-> "UNCHOKE"] \in Message /\ [type |-> "CHOKE"] \in Message
      /\ [type |-> "REQUEST"] \in Message /\ [type |-> "REFUSED"] \in Message
      /\ [type |-> "KEEPALIVE"] \in Message
      /\ \A p \in Piece : [type |-> "HAVE", piece |-> p] \in Message
  BY DEF Message
<1>5. rhave \subseteq Piece /\ rchoking \in BOOLEAN /\ bad \in 0 .. MaxBad
  BY DEF TypeOK
<1>6. CASE RemoteUnchokes
  BY <1>2, <1>4, <1>5, <1>6 DEF RemoteUnchokes
<1>7. CASE RemoteChokes
  BY <1>2, <1>4, <1>5, <1>7 DEF RemoteChokes
<1>8. CASE RemoteGetsPiece
  <2>1. PICK p \in Piece : /\ rhave' = rhave \cup {p}
                           /\ RemoteSends([type |-> "HAVE", piece |-> p])
    BY <1>8 DEF RemoteGetsPiece
  <2> QED BY <1>2, <1>4, <1>5, <1>8, <2>1 DEF RemoteGetsPiece
<1>9. CASE RemoteRequests
  BY <1>2, <1>4, <1>5, <1>9 DEF RemoteRequests, remote
<1>10. CASE RemoteKeepsAlive
  BY <1>2, <1>4, <1>5, <1>10 DEF RemoteKeepsAlive, remote
<1>15. CASE RemoteRefused
  <2>1. bad' \in 0 .. MaxBad
    BY <1>15, ConstantsAssumption DEF RemoteRefused, TypeOK
  <2>2. /\ RemoteSends([type |-> "REFUSED"])
        /\ UNCHANGED <<open, asked, rchoking, rhave>>
    BY <1>15 DEF RemoteRefused
  <2> QED BY <1>2, <1>4, <1>5, <2>1, <2>2
<1>11. CASE RemoteAnswers
  <2>1. PICK pb \in asked : Answer(pb[1], pb[2], "good") /\ UNCHANGED <<open, bad>>
    BY <1>11 DEF RemoteAnswers
  <2>2. pb = <<pb[1], pb[2]>>
    BY BlockPairs DEF TypeOK
  <2> QED BY <1>3, <2>1, <2>2 DEF Answer, RemoteSends, TypeOK
<1>12. CASE RemoteCorrupts
  <2>1. PICK pb \in asked : /\ bad < MaxBad /\ bad' = bad + 1
                            /\ Answer(pb[1], pb[2], "bad")
                            /\ UNCHANGED open
    BY <1>12 DEF RemoteCorrupts
  <2>2. pb = <<pb[1], pb[2]>> /\ bad' \in 0 .. MaxBad
    BY <2>1, BlockPairs DEF TypeOK
  <2> QED BY <1>3, <2>1, <2>2 DEF Answer, RemoteSends, TypeOK
<1>13. CASE RemoteCloses
  <2>1. AnswersExpected'
    BY <1>13 DEF RemoteCloses, AnswersExpected, Answers, BlockAt, Missing, conn
  <2> QED BY <1>1, <1>13, <2>1 DEF RemoteCloses, TypeOK
<1>16. CASE RemoteClosesInMessage
  <2>1. inbox' \in Seq(Message)
    BY <1>4, <1>16 DEF RemoteClosesInMessage, TypeOK
  <2>2. AnswersExpected'
    BY <1>4, <1>16, MessageKeepsAnswers DEF RemoteClosesInMessage, conn
  <2> QED BY <1>1, <1>16, <2>1, <2>2 DEF RemoteClosesInMessage, TypeOK
<1>14. CASE RemoteClosesInBlock
  <2>1. PICK pb \in asked :
          inbox' = Append(inbox, [type |-> "PIECE", piece |-> pb[1],
                                  block |-> pb[2], data |-> "cut"])
    BY <1>14 DEF RemoteClosesInBlock
  <2> QED BY <1>3, <1>14, <2>1 DEF RemoteClosesInBlock, TypeOK
<1> QED BY <1>6, <1>7, <1>8, <1>9, <1>10, <1>11, <1>12, <1>13, <1>14,
        <1>15, <1>16 DEF RemoteRuns

\* A new request is for a piece that is not HAVE, so that the counter and
\* the verified pieces do not notice it.
LEMMA SendRequestsKeepsInv ==
  ASSUME Inv, send_requests
  PROVE  Inv'
<1> USE DEF Inv
<1>1. PICK p \in Piece :
        /\ torrent_next_request(p)
        /\ pieces_state' = [pieces_state EXCEPT ![p] = "REQUESTED"]
        /\ \/ /\ local_requests' = {piece_request_create(p)}
              /\ asked' \in Arrives(p)
              /\ pc' = "check"
              /\ UNCHANGED <<choked, interested, peer_have, local_have,
                             peer_requests, open, rchoking, rhave, bad, inbox>>
           \/ \E to \in {"none", "killed"} : ThreadEnds(to)
  BY DEF send_requests
<1>2. UNCHANGED <<pieces_left, completed, good, mapped>> /\ local_requests = {}
  BY DEF send_requests
<1>3. pieces_state[p] # "HAVE"
  BY <1>1 DEF torrent_next_request, Wanted
<1>4. pieces_state' \in [Piece -> PieceStates] /\ pieces_state'[p] = "REQUESTED"
  BY <1>1 DEF TypeOK, PieceStates
<1>5. Have' = Have
  BY <1>1, <1>3, <1>4 DEF Have, TypeOK
<1>6. PiecesLeftCounts' /\ HaveVerified'
  BY <1>2, <1>5 DEF PiecesLeftCounts, HaveVerified
<1>7. CASE \E to \in {"none", "killed"} : ThreadEnds(to)
  BY <1>2, <1>4, <1>6, <1>7, ConnectionReset DEF TypeOK
<1>8. CASE /\ local_requests' = {piece_request_create(p)}
           /\ asked' \in Arrives(p)
           /\ pc' = "check"
           /\ UNCHANGED <<choked, interested, peer_have, local_have,
                          peer_requests, open, rchoking, rhave, bad, inbox>>
  <2>1. asked = {} /\ Answers = {}
    BY <1>2 DEF AnswersExpected, Missing
  <2>2. asked' \subseteq BlocksOf(p)
    BY <1>8, <2>1 DEF Arrives
  <2>3. BlocksOf(p) \subseteq Missing'
    BY <1>8, BlockPairs DEF Missing, piece_request_create
  <2>4. AnswersExpected'
    BY <1>8, <2>1, <2>2, <2>3 DEF AnswersExpected, Answers
  <2>5. OutstandingRequest'
    BY <1>4, <1>8, FiniteBlocks DEF OutstandingRequest, piece_request_create
  <2>6. piece_request_create(p) \in PieceRequests
    BY FiniteBlocks DEF piece_request_create, PieceRequests
  <2>7. TypeOK'
    BY <1>2, <1>4, <1>8, <2>2, <2>6, BlockPairs DEF TypeOK, ThreadStates
  <2> QED BY <1>6, <2>4, <2>5, <2>7
<1> QED BY <1>1, <1>7, <1>8

\* Gaining a piece takes one from the counter; the files are handed over
\* with the last one.
LEMMA CompletionKeepsCount ==
  ASSUME TypeOK, PiecesLeftCounts, NEW p \in Piece, pieces_state[p] # "HAVE",
         handle_piece_dnld_completion(p)
  PROVE  /\ PiecesLeftCounts'
         /\ Have' = Have \cup {p}
         /\ pieces_state' \in [Piece -> PieceStates]
         /\ pieces_left' \in 0 .. NumPieces
         /\ completed' \in BOOLEAN
         /\ mapped' \in BOOLEAN
<1>1. /\ pieces_state' = [pieces_state EXCEPT ![p] = "HAVE"]
      /\ pieces_left' = pieces_left - 1
      /\ completed' = (completed \/ pieces_left - 1 = 0)
      /\ mapped' = (mapped /\ ~(pieces_left - 1 = 0))
  BY DEF handle_piece_dnld_completion
<1>2. /\ pieces_state' \in [Piece -> PieceStates]
      /\ Have' = Have \cup {p}
      /\ p \in Piece \ Have
  BY <1>1 DEF TypeOK, Have, PieceStates
<1>3. IsFiniteSet(Piece \ Have) /\ Piece \ Have' = (Piece \ Have) \ {p}
  BY <1>2, FiniteBlocks, FS_Subset
<1>4. Cardinality(Piece \ Have') = Cardinality(Piece \ Have) - 1
  <2> DEFINE S == Piece \ Have
  <2>1. IsFiniteSet(S) /\ p \in S /\ Piece \ Have' = S \ {p}
    BY <1>2, <1>3
  <2> HIDE DEF S
  <2>2. Cardinality(S \ {p}) = Cardinality(S) - 1
    BY <2>1, FS_RemoveElement
  <2> QED BY <2>1, <2>2 DEF S
<1>5. Cardinality(Piece \ Have) \in Nat /\ Cardinality(Piece \ Have) # 0
  BY <1>2, <1>3, FS_CardinalityType, FS_EmptySet
<1>6. pieces_left' = Cardinality(Piece \ Have') /\ pieces_left' \in 0 .. NumPieces
  BY <1>1, <1>4, <1>5 DEF PiecesLeftCounts, TypeOK
<1>7. ~completed /\ mapped
  BY <1>5 DEF PiecesLeftCounts
<1>8. /\ completed' \in BOOLEAN /\ mapped' \in BOOLEAN
      /\ completed' <=> pieces_left' = 0
      /\ mapped' <=> ~completed'
  BY <1>1, <1>7
<1> QED BY <1>2, <1>6, <1>8 DEF PiecesLeftCounts

\* What is known when an answer is at the head of the receive buffer.
LEMMA AnswerAtHead ==
  ASSUME Inv, Receive("PIECE")
  PROVE  LET m == Head(inbox)
         IN \E r \in local_requests :
              /\ r.piece_index = m.piece /\ m.piece \in Piece
              /\ m.block \in r.missing
              /\ <<m.piece, m.block>> \in Missing \ asked
              /\ m.data \in {"good", "bad", "cut"}
              /\ 1 \in Answers /\ BlockAt(1) = <<m.piece, m.block>>
<1>1. Head(inbox) \in Message /\ 1 \in DOMAIN inbox /\ Head(inbox) = inbox[1]
  BY DEF Inv, TypeOK, Receive
<1>2. 1 \in Answers /\ BlockAt(1) = <<Head(inbox).piece, Head(inbox).block>>
  BY <1>1 DEF Receive, Answers, BlockAt
<1>3. <<Head(inbox).piece, Head(inbox).block>> \in Missing \ asked
  BY <1>2 DEF Inv, AnswersExpected
<1>4. Head(inbox).piece \in Piece /\ Head(inbox).data \in {"good", "bad", "cut"}
  BY <1>1, Messages DEF Receive
<1> QED BY <1>2, <1>3, <1>4 DEF Missing

\* Writing a block, counting it, and verifying the piece it completes.
LEMMA RecvPieceKeepsInv ==
  ASSUME Inv, recv_piece
  PROVE  Inv'
<1> USE DEF Inv
<1> DEFINE m == Head(inbox)
           p == m.piece
           b == m.block
<1>1. Receive("PIECE") /\ inbox # <<>> /\ inbox' = Tail(inbox)
  BY DEF recv_piece, Receive
<1>2. PICK r \in local_requests :
        /\ r.piece_index = p /\ p \in Piece /\ b \in r.missing
        /\ <<p, b>> \in Missing \ asked
        /\ m.data \in {"good", "bad", "cut"}
        /\ 1 \in Answers /\ BlockAt(1) = <<p, b>>
  BY <1>1, AnswerAtHead
<1>3. local_requests = {r} /\ r \in PieceRequests
  BY DEF OutstandingRequest, TypeOK
<1>4. /\ pieces_state[p] = "REQUESTED"
      /\ r.missing \subseteq Blocks(p) /\ r.blocks_left = Cardinality(r.missing)
  BY <1>2 DEF OutstandingRequest
<1>5. IsFiniteSet(r.missing)
  BY <1>2, <1>4, FiniteBlocks, FS_Subset
<1> DEFINE g == [piece_index |-> r.piece_index, missing |-> r.missing \ {b},
                 blocks_left |-> r.blocks_left - 1]
<1>6. GotBlock(r, b) = g
  BY <1>2, <1>4 DEF GotBlock
<1>7. /\ g \in PieceRequests /\ g.piece_index = p
      /\ g.missing = r.missing \ {b}
      /\ g.blocks_left = r.blocks_left - 1
  BY <1>2, <1>3 DEF PieceRequests
<1>8. IsFiniteSet(g.missing) /\ g.blocks_left = Cardinality(g.missing)
  <2>1. /\ IsFiniteSet(r.missing \ {b})
        /\ Cardinality(r.missing \ {b}) = Cardinality(r.missing) - 1
    BY <1>2, <1>5, FS_RemoveElement
  <2> QED BY <1>4, <1>7, <2>1
<1>9. /\ good' \subseteq AllBlocks
      /\ \A pb : pb # <<p, b>> => (pb \in good' <=> pb \in good)
  <2>1. good' = Written(p, b, m.data)
    BY DEF recv_piece
  <2>2. <<p, b>> \in AllBlocks
    BY <1>2, <1>4, BlockPairs
  <2> QED BY <1>2, <2>1, <2>2 DEF Written, TypeOK
<1>10. \A q \in Have : BlocksOf(q) \subseteq good'
  <2>1. p \notin Have
    BY <1>4 DEF Have
  <2>2. \A q \in Have : \A pb \in BlocksOf(q) : pb # <<p, b>>
    BY <2>1 DEF BlocksOf
  <2> QED BY <1>9, <2>2 DEF HaveVerified
<1>11. \A i \in Answers' : /\ i \in Nat /\ i + 1 \in Answers
                          /\ BlockAt(i)' = BlockAt(i + 1)
                          /\ BlockAt(i + 1) # <<p, b>>
  <2>1. \A i \in DOMAIN inbox' :
          i \in Nat \ {0} /\ i + 1 \in DOMAIN inbox /\ inbox'[i] = inbox[i + 1]
    BY <1>1 DEF TypeOK
  <2>2. \A i \in Answers' : /\ i \in Nat \ {0} /\ i + 1 \in Answers
                           /\ BlockAt(i)' = BlockAt(i + 1)
    BY <2>1 DEF Answers, BlockAt
  <2> QED BY <1>2, <2>2 DEF AnswersExpected
<1>12. UNCHANGED <<choked, interested, peer_have, local_have, peer_requests,
                  open, asked, rchoking, rhave, bad>>
  BY DEF recv_piece, remote
<1>13. inbox' \in Seq(Message)
  BY <1>1 DEF TypeOK
<1>14. process_piece_msg(p, b)
  BY DEF recv_piece
<1>15. CASE g.blocks_left # 0
  <2>1. /\ local_requests' = {g}
        /\ UNCHANGED <<pieces_state, pieces_left, completed, mapped, pc>>
    BY <1>2, <1>3, <1>6, <1>14, <1>15 DEF process_piece_msg
  <2>2. TypeOK'
    BY <1>7, <1>9, <1>12, <1>13, <2>1 DEF TypeOK
  <2>3. OutstandingRequest'
    BY <1>4, <1>7, <1>8, <1>15, <2>1, FS_EmptySet DEF OutstandingRequest
  <2>4. Missing \ {<<p, b>>} \subseteq Missing'
    <3> SUFFICES ASSUME NEW pb \in Missing, pb # <<p, b>>
                 PROVE  pb \in Missing'
      OBVIOUS
    <3>1. pb \in AllBlocks /\ pb[1] = p /\ pb[2] \in r.missing
      BY <1>2, <1>3 DEF Missing
    <3>2. pb[2] # b
      BY <3>1, BlockPairs
    <3> QED BY <1>7, <2>1, <3>1, <3>2 DEF Missing
  <2>5. AnswersExpected'
    BY <1>2, <1>11, <1>12, <2>4 DEF AnswersExpected
  <2>6. Have' = Have /\ PiecesLeftCounts' /\ HaveVerified'
    BY <1>10, <2>1 DEF PiecesLeftCounts, HaveVerified, Have
  <2> QED BY <2>2, <2>3, <2>5, <2>6
<1>16. CASE g.blocks_left = 0
  <2>1. /\ local_requests' = {}
        /\ IF torrent_sha1_verify(p, good')
             THEN handle_piece_dnld_completion(p)
             ELSE piece_not_valid(p)
    BY <1>2, <1>3, <1>6, <1>14, <1>16 DEF process_piece_msg
  <2>2. Missing \subseteq {<<p, b>>}
    <3>1. r.missing \ {b} = {}
      BY <1>7, <1>8, <1>16, FS_EmptySet
    <3> QED BY <1>2, <1>3, <3>1, BlockPairs DEF Missing
  <2>3. asked' = {} /\ Answers' = {}
    BY <1>2, <1>11, <1>12, <2>2 DEF AnswersExpected
  <2>4. OutstandingRequest' /\ AnswersExpected'
    BY <2>1, <2>3 DEF OutstandingRequest, AnswersExpected
  <2>5. /\ PiecesLeftCounts' /\ HaveVerified'
        /\ pieces_state' \in [Piece -> PieceStates]
        /\ pieces_left' \in 0 .. NumPieces
        /\ completed' \in BOOLEAN /\ mapped' \in BOOLEAN
        /\ pc' \in ThreadStates
    <3>1. CASE torrent_sha1_verify(p, good')
      <4>1. handle_piece_dnld_completion(p)
        BY <2>1, <3>1
      <4>2. pc' \in ThreadStates
        BY <4>1 DEF handle_piece_dnld_completion, SendOne, TypeOK, ThreadStates
      <4>3. pieces_state[p] # "HAVE"
        BY <1>4
      <4>4. Have' = Have \cup {p}
        BY <1>2, <4>1, <4>3, CompletionKeepsCount
      <4>5. HaveVerified'
        BY <1>10, <3>1, <4>4 DEF HaveVerified, torrent_sha1_verify
      <4> QED BY <1>2, <4>1, <4>2, <4>3, <4>5, CompletionKeepsCount
    <3>2. CASE ~torrent_sha1_verify(p, good')
      <4>1. /\ pieces_state' = [pieces_state EXCEPT ![p] = "NOT_REQUESTED"]
            /\ UNCHANGED <<pieces_left, completed, mapped, pc>>
        BY <2>1, <3>2 DEF piece_not_valid
      <4>2. Have' = Have /\ pieces_state' \in [Piece -> PieceStates]
        BY <1>2, <1>4, <4>1 DEF Have, TypeOK, PieceStates
      <4> QED BY <1>10, <4>1, <4>2
              DEF PiecesLeftCounts, HaveVerified, TypeOK
    <3> QED BY <3>1, <3>2
  <2>6. TypeOK'
    BY <1>9, <1>12, <1>13, <2>1, <2>3, <2>5 DEF TypeOK
  <2> QED BY <2>4, <2>5, <2>6
<1> QED BY <1>15, <1>16

-----------------------------------------------------------------------------
(* The specification. *)

\* The invariant is inductive.
LEMMA StepKeepsInv ==
  ASSUME Inv, [Next]_vars
  PROVE  Inv'
<1>1. CASE peer_connection_create
  BY <1>1, QuietStepsKeepInv
<1>2. CASE ThreadRuns
  BY <1>2, QuietStepsKeepInv, HandshakeKeepsInv, PlainMessagesKeepInv,
     RecvPieceKeepsInv, SendRequestsKeepsInv DEF ThreadRuns
<1>3. CASE RemoteRuns
  BY <1>3, RemoteKeepsInv
<1>4. CASE UNCHANGED vars
  BY <1>4 DEF vars, shared, conn, remote, Inv, TypeOK, PiecesLeftCounts, Have,
     OutstandingRequest, AnswersExpected, Answers, BlockAt, Missing,
     HaveVerified
<1> QED BY <1>1, <1>2, <1>3, <1>4 DEF Next

\* Every state of every run, across connections, satisfies the invariant.
THEOREM Invariance == Spec => []Inv
<1>1. Init => Inv
  BY InitEstablishesInv
<1>2. Inv /\ [Next]_vars => Inv'
  BY StepKeepsInv
<1> QED BY <1>1, <1>2, PTL DEF Spec

\* The variables keep their types: the counters stay in their ranges.
THEOREM TypeCorrect == Spec => []TypeOK
<1>1. Inv => TypeOK
  BY DEF Inv
<1> QED BY <1>1, Invariance, PTL

\* sh.pieces_left counts the pieces that are not HAVE, across all
\* connections, and the files are handed over exactly when it is zero.
THEOREM PiecesLeftIsExact == Spec => []PiecesLeftCounts
<1>1. Inv => PiecesLeftCounts
  BY DEF Inv
<1> QED BY <1>1, Invariance, PTL

\* The outstanding request is REQUESTED in the shared table and blocks_left
\* counts the blocks it misses.
THEOREM RequestIsConsistent == Spec => []OutstandingRequest
<1>1. Inv => OutstandingRequest
  BY DEF Inv
<1> QED BY <1>1, Invariance, PTL

\* Every answer in flight is for a block the thread waits for.
THEOREM AnswersAreExpected == Spec => []AnswersExpected
<1>1. Inv => AnswersExpected
  BY DEF Inv
<1> QED BY <1>1, Invariance, PTL

\* A piece marked HAVE has the right content on disk.
THEOREM HaveIsVerified == Spec => []HaveVerified
<1>1. Inv => HaveVerified
  BY DEF Inv
<1> QED BY <1>1, Invariance, PTL

\* No piece is left exactly when every piece is there.
LEMMA NoneLeft ==
  ASSUME NEW S \in SUBSET Piece
  PROVE  Cardinality(Piece \ S) = 0 <=> S = Piece
<1>1. IsFiniteSet(Piece \ S)
  BY FiniteBlocks, FS_Subset
<1>2. Cardinality(Piece \ S) = 0 <=> Piece \ S = {}
  BY <1>1, FS_EmptySet
<1> QED BY <1>2

\* After completion nothing is outstanding that could be written to, or
\* verified in, the files that torrent_complete unmapped.
THEOREM QuietWhenCompleted == Spec => []QuietAfterCompletion
<1>1. Inv => QuietAfterCompletion
  <2> SUFFICES ASSUME Inv, completed
               PROVE  local_requests = {} /\ asked = {}
    BY DEF QuietAfterCompletion
  <2>1. Have = Piece
    BY NoneLeft DEF Inv, PiecesLeftCounts, Have
  <2>2. local_requests = {}
    BY <2>1 DEF Inv, TypeOK, OutstandingRequest, Have, PieceRequests
  <2>3. Missing = {}
    BY <2>2 DEF Missing
  <2> QED BY <2>2, <2>3 DEF Inv, AnswersExpected
<1> QED BY <1>1, Invariance, PTL

-----------------------------------------------------------------------------
(* What a step may do to the pieces and to the content of the files. *)

\* An answer changes the content of one piece that is not HAVE, and may
\* turn that piece into one that is.
LEMMA RecvPieceEffect ==
  ASSUME Inv, recv_piece
  PROVE  \E p \in Piece \ Have :
           /\ \A q \in Have : BlocksOf(q) \cap good' = BlocksOf(q) \cap good
           /\ \/ UNCHANGED <<Have, completed>>
              \/ /\ Have' = Have \cup {p}
                 /\ BlocksOf(p) \subseteq good'
<1> DEFINE m == Head(inbox)
           p == m.piece
           b == m.block
<1>1. PICK r \in local_requests :
        /\ r.piece_index = p /\ p \in Piece
        /\ m.data \in {"good", "bad", "cut"}
  BY AnswerAtHead DEF recv_piece
<1>2. pieces_state[p] = "REQUESTED" /\ p \in Piece \ Have
  BY <1>1 DEF Inv, OutstandingRequest, Have
<1>3. \A q \in Have : BlocksOf(q) \cap good' = BlocksOf(q) \cap good
  <2>1. \A pb : pb # <<p, b>> => (pb \in good' <=> pb \in good)
    BY <1>1 DEF recv_piece, Written
  <2>2. \A q \in Have : \A pb \in BlocksOf(q) : pb # <<p, b>>
    BY <1>2 DEF BlocksOf
  <2> QED BY <2>1, <2>2
<1>4. \/ UNCHANGED <<pieces_state, completed>>
      \/ torrent_sha1_verify(p, good') /\ handle_piece_dnld_completion(p)
      \/ piece_not_valid(p)
  BY DEF recv_piece, process_piece_msg
<1>5. CASE UNCHANGED <<pieces_state, completed>>
  BY <1>2, <1>3, <1>5 DEF Have
<1>6. CASE torrent_sha1_verify(p, good') /\ handle_piece_dnld_completion(p)
  <2>1. Have' = Have \cup {p}
    BY <1>1, <1>2, <1>6, CompletionKeepsCount DEF Inv
  <2> QED BY <1>2, <1>3, <1>6, <2>1 DEF torrent_sha1_verify
<1>7. CASE piece_not_valid(p)
  <2>1. UNCHANGED <<Have, completed>>
    BY <1>1, <1>2, <1>7 DEF piece_not_valid, Have, Inv, TypeOK
  <2> QED BY <1>2, <1>3, <2>1
<1> QED BY <1>4, <1>5, <1>6, <1>7

\* No other step changes what the download has.
LEMMA OtherStepsChangeNothing ==
  ASSUME Inv, [Next]_vars, ~recv_piece
  PROVE  UNCHANGED <<Have, good, completed>>
<1>1. CASE UNCHANGED shared
  BY <1>1 DEF shared, Have
<1>2. CASE send_requests
  <2>1. PICK p \in Piece :
          /\ torrent_next_request(p)
          /\ pieces_state' = [pieces_state EXCEPT ![p] = "REQUESTED"]
    BY <1>2 DEF send_requests
  <2>2. pieces_state[p] # "HAVE"
    BY <2>1 DEF torrent_next_request, Wanted
  <2>3. Have' = Have
    BY <2>1, <2>2 DEF Have, Inv, TypeOK
  <2> QED BY <1>2, <2>3 DEF send_requests
<1>3. CASE peer_connection_create
  BY <1>1, <1>3 DEF peer_connection_create
<1>4. CASE ThreadRuns /\ ~send_requests
  <2>1. UNCHANGED shared
    BY <1>4 DEF ThreadRuns, peer_connect_ok, peer_connect_fails, handshake_ok,
       handshake_fails, setup_ok, setup_fails, NoMoreMessages, recv_keepalive,
       recv_choke, recv_unchoke, recv_have, recv_bitfield, recv_request,
       recv_refused, skip_requests, show_not_interested, check_completed
  <2> QED BY <1>1, <2>1
<1>5. CASE RemoteRuns
  <2>1. UNCHANGED shared
    BY <1>5 DEF RemoteRuns, RemoteSends, RemoteUnchokes, RemoteChokes,
       RemoteAnswers, RemoteCorrupts, Answer, RemoteGetsPiece, RemoteRequests,
       RemoteKeepsAlive, RemoteRefused, RemoteCloses, RemoteClosesInMessage,
       RemoteClosesInBlock
  <2> QED BY <1>1, <2>1
<1>6. CASE UNCHANGED vars
  BY <1>1, <1>6 DEF vars
<1> QED BY <1>2, <1>3, <1>4, <1>5, <1>6 DEF Next

\* No step, of this connection or of a later one, takes a piece back.
THEOREM PiecesAreKept == Spec => HaveStable
<1>1. Inv /\ [Next]_vars => [Have \subseteq Have']_vars
  BY RecvPieceEffect, OtherStepsChangeNothing
<1> QED BY <1>1, Invariance, PTL DEF Spec, HaveStable

\* The connection implements the download that module Download describes.
THEOREM Implementation == Spec => ImplementsDownload
<1>1. Init => D!Init
  BY DEF Init, SharedInit, Have, D!Init
<1>2. Inv /\ Inv' /\ [Next]_vars => [D!Next]_(D!vars)
  <2> SUFFICES ASSUME Inv, Inv', [Next]_vars
               PROVE  D!Next \/ UNCHANGED <<Have, good, completed>>
    BY DEF D!vars
  <2>1. CASE ~recv_piece
    BY <2>1, OtherStepsChangeNothing
  <2>2. CASE recv_piece
    <3>1. PICK p \in Piece \ Have :
            /\ \A q \in Have : BlocksOf(q) \cap good' = BlocksOf(q) \cap good
            /\ \/ UNCHANGED <<Have, completed>>
               \/ /\ Have' = Have \cup {p}
                  /\ BlocksOf(p) \subseteq good'
      BY <2>2, RecvPieceEffect
    <3>2. ~completed /\ (completed' <=> Have' = Piece) /\ completed' \in BOOLEAN
      <4>1. completed <=> Have = Piece
        BY NoneLeft DEF Inv, PiecesLeftCounts, Have
      <4>2. completed' <=> Have' = Piece
        <5>1. /\ pieces_left' = Cardinality(Piece \ Have')
              /\ completed' <=> pieces_left' = 0
          BY DEF Inv, PiecesLeftCounts
        <5>2. Have' \in SUBSET Piece
          BY DEF Have
        <5> QED BY <5>1, <5>2, NoneLeft
      <4> QED BY <3>1, <4>1, <4>2 DEF Inv, TypeOK
    <3>3. D!Overwrite
      BY <3>1 DEF D!Overwrite, Have
    <3>4. D!Gain \/ UNCHANGED <<Have, completed>>
      BY <3>1, <3>2 DEF D!Gain
    <3> QED BY <3>2, <3>3, <3>4 DEF D!Next
  <2> QED BY <2>1, <2>2
<1> QED BY <1>1, <1>2, Invariance, PTL DEF Spec, ImplementsDownload, D!Spec

-----------------------------------------------------------------------------
(* Requests. *)

\* Only an answer or the end of the connection takes a request away.
LEMMA RequestsChange ==
  ASSUME Inv, [Next]_vars, ~recv_piece
  PROVE  \/ UNCHANGED local_requests
         \/ local_requests = {}
         \/ pc' \in {"none", "killed"}
<1>1. CASE send_requests
  BY <1>1 DEF send_requests
<1>2. CASE ThreadRuns /\ ~send_requests
  BY <1>2 DEF ThreadRuns, peer_connect_ok, peer_connect_fails, handshake_ok,
     handshake_fails, setup_ok, setup_fails, NoMoreMessages, recv_keepalive,
     recv_choke, recv_unchoke, recv_have, recv_bitfield, recv_request,
     recv_refused, skip_requests, show_not_interested, check_completed,
     ThreadEnds, conn
<1>3. CASE RemoteRuns
  BY <1>3 DEF RemoteRuns, RemoteSends, RemoteUnchokes, RemoteChokes,
     RemoteAnswers, RemoteCorrupts, Answer, RemoteGetsPiece, RemoteRequests,
     RemoteKeepsAlive, RemoteRefused, RemoteCloses, RemoteClosesInMessage,
     RemoteClosesInBlock, conn
<1>4. CASE peer_connection_create
  BY <1>4 DEF peer_connection_create, conn
<1>5. CASE UNCHANGED vars
  BY <1>5 DEF vars, conn
<1> QED BY <1>1, <1>2, <1>3, <1>4, <1>5 DEF Next

\* While the thread lives, a request that is given up left its piece HAVE
\* or NOT_REQUESTED.
THEOREM RequestsAreResolved == Spec => RequestResolved
<1> DEFINE Resolved ==
      \A r \in local_requests :
        pc' \notin {"none", "killed"} =>
          \/ \E s \in local_requests' : s.piece_index = r.piece_index
          \/ pieces_state'[r.piece_index] \in {"HAVE", "NOT_REQUESTED"}
<1>1. ASSUME Inv, [Next]_vars
      PROVE  Resolved
  <2>1. CASE ~recv_piece
    BY <1>1, <2>1, RequestsChange
  <2>2. CASE recv_piece
    <3> DEFINE m == Head(inbox)
    <3>1. PICK r \in local_requests :
            r.piece_index = m.piece /\ m.piece \in Piece /\ m.block \in r.missing
      BY <1>1, <2>2, AnswerAtHead DEF recv_piece
    <3>2. local_requests = {r}
      BY <1>1 DEF Inv, OutstandingRequest
    <3>3. process_piece_msg(m.piece, m.block)
      BY <2>2 DEF recv_piece
    <3>4. CASE GotBlock(r, m.block).blocks_left # 0
      <4>1. local_requests' = {GotBlock(r, m.block)}
        BY <3>1, <3>2, <3>3, <3>4 DEF process_piece_msg
      <4>2. GotBlock(r, m.block).piece_index = r.piece_index
        BY DEF GotBlock
      <4> QED BY <3>2, <4>1, <4>2
    <3>5. CASE GotBlock(r, m.block).blocks_left = 0
      <4>1. \/ handle_piece_dnld_completion(m.piece)
            \/ piece_not_valid(m.piece)
        BY <3>1, <3>2, <3>3, <3>5 DEF process_piece_msg
      <4>2. pieces_state'[m.piece] \in {"HAVE", "NOT_REQUESTED"}
        BY <1>1, <3>1, <4>1
           DEF handle_piece_dnld_completion, piece_not_valid, Inv, TypeOK
      <4> QED BY <3>1, <3>2, <4>2
    <3> QED BY <3>4, <3>5
  <2> QED BY <2>1, <2>2
<1>2. Inv /\ [Next]_vars => [Resolved]_vars
  BY <1>1
<1> QED BY <1>2, Invariance, PTL DEF Spec, RequestResolved

\* After its round of requests the thread is not left waiting for nothing.
THEOREM NeverWaitsForNothing == Spec => []NeverIdle
<1>1. Init => NeverIdle
  BY DEF Init, NeverIdle
<1>2. ASSUME Inv, NeverIdle, [Next]_vars
      PROVE  NeverIdle'
  <2> SUFFICES ASSUME pc' = "check", open', MayRequest'
               PROVE  local_requests' # {}
    BY DEF NeverIdle
  <2>1. CASE skip_requests
    BY <2>1 DEF skip_requests, MayRequest, conn
  <2>2. CASE send_requests
    BY <2>2 DEF send_requests, ThreadEnds
  <2>3. CASE show_not_interested
    BY <2>3 DEF show_not_interested, SendResults, MayRequest, remote
  <2>4. CASE recv_piece
    BY <2>4 DEF recv_piece, Receive, process_piece_msg, SendOne,
       handle_piece_dnld_completion, piece_not_valid
  <2>5. CASE ThreadRuns /\ ~skip_requests /\ ~send_requests
               /\ ~show_not_interested /\ ~recv_piece
    BY <2>5 DEF ThreadRuns, peer_connect_ok, peer_connect_fails, handshake_ok,
       handshake_fails, setup_ok, setup_fails, NoMoreMessages, recv_keepalive,
       recv_choke, recv_unchoke, recv_have, recv_bitfield, recv_request,
       recv_refused, check_completed, Receive, show_interested, SendOne,
       ThreadEnds
  <2>6. CASE UNCHANGED <<pc, conn>> /\ (open' => open)
    BY <1>2, <2>6 DEF NeverIdle, MayRequest, conn
  <2>7. CASE RemoteRuns
    <3>1. UNCHANGED <<pc, conn>> /\ (open' => open)
      BY <2>7 DEF RemoteRuns, RemoteSends, RemoteUnchokes, RemoteChokes,
         RemoteAnswers, RemoteCorrupts, Answer, RemoteGetsPiece,
         RemoteRequests, RemoteKeepsAlive, RemoteRefused, RemoteCloses,
         RemoteClosesInMessage, RemoteClosesInBlock, remote
    <3> QED BY <2>6, <3>1
  <2>8. CASE peer_connection_create
    BY <2>8 DEF peer_connection_create
  <2>9. CASE UNCHANGED vars
    BY <2>6, <2>9 DEF vars, remote
  <2> QED BY <1>2, <2>1, <2>2, <2>3, <2>4, <2>5, <2>7, <2>8, <2>9 DEF Next
<1>3. Inv /\ NeverIdle /\ [Next]_vars => NeverIdle'
  BY <1>2
<1> QED BY <1>1, <1>3, Invariance, PTL DEF Spec

-----------------------------------------------------------------------------
(* Blocks that are waited for. *)

\* Until the remote peer unchokes us the thread takes itself for choked.
Unheard ==
  rchoking => /\ choked
              /\ \A i \in DOMAIN inbox : inbox[i].type # "UNCHOKE"

\* A connection begins without requests.
Fresh == pc \in {"none", "connect", "handshake"} => local_requests = {}

Awaited == NothingLost /\ Unheard /\ Fresh

\* A connection that ended waits for nothing.
LEMMA EndAwaitsNothing ==
  ASSUME NEW to \in {"none", "killed"}, ThreadEnds(to)
  PROVE  Awaited'
BY DEF ThreadEnds, Awaited, NothingLost, Unheard, Fresh

\* Steps that leave the messages, the requests and who chokes as they are.
LEMMA QuietStepsAwait ==
  ASSUME Awaited,
         UNCHANGED <<asked, inbox, local_requests, rchoking, choked>>,
         open' => open,
         pc' \in {"none", "connect", "handshake"} =>
           pc \in {"none", "connect", "handshake"}
  PROVE  Awaited'
BY DEF Awaited, NothingLost, Unheard, Fresh, Missing, Answers, BlockAt

\* Reading a message that is no answer.
LEMMA PlainMessagesAwait ==
  ASSUME TypeOK, Awaited, inbox # <<>>, inbox' = Tail(inbox),
         Head(inbox).type # "PIECE",
         UNCHANGED <<asked, local_requests, rchoking, open>>,
         choked' = choked \/ choked' \/ Head(inbox).type = "UNCHOKE",
         pc' \in {pc, "killed"}
  PROVE  Awaited'
<1>1. /\ \A i \in DOMAIN inbox' :
           i \in Nat /\ i + 1 \in DOMAIN inbox /\ inbox'[i] = inbox[i + 1]
      /\ \A i \in DOMAIN inbox : i = 1 \/ i - 1 \in DOMAIN inbox'
      /\ \A i \in DOMAIN inbox : i \in Nat
      /\ Head(inbox) = inbox[1] /\ 1 \in DOMAIN inbox
  BY DEF TypeOK
<1>2. ASSUME NEW i \in Answers
      PROVE  i - 1 \in Answers' /\ BlockAt(i - 1)' = BlockAt(i)
  <2>1. i # 1 /\ i \in DOMAIN inbox /\ i \in Nat
    BY <1>1 DEF Answers
  <2>2. i - 1 \in DOMAIN inbox' /\ i - 1 + 1 = i
    BY <1>1, <2>1
  <2>3. inbox'[i - 1] = inbox[i]
    BY <1>1, <2>2
  <2> QED BY <2>2, <2>3 DEF Answers, BlockAt
<1>3. Missing' = Missing
  BY DEF Missing
<1>4. NothingLost'
  BY <1>2, <1>3 DEF Awaited, NothingLost
<1>5. Unheard'
  BY <1>1 DEF Awaited, Unheard
<1>6. Fresh'
  BY DEF Awaited, Fresh
<1> QED BY <1>4, <1>5, <1>6 DEF Awaited

\* A message on its way loses no answer that is.
LEMMA SentMessagesAwait ==
  ASSUME TypeOK, Awaited, NEW m, inbox' = Append(inbox, m),
         UNCHANGED <<pc, conn>>,
         open' => open,
         rchoking' => rchoking /\ m.type # "UNCHOKE",
         \/ asked' = asked
         \/ ~open'
         \/ \E pb \in asked : /\ asked' = asked \ {pb}
                              /\ m.type = "PIECE"
                              /\ pb = <<m.piece, m.block>>
  PROVE  Awaited'
<1>1. /\ \A i \in DOMAIN inbox : i \in DOMAIN inbox' /\ inbox'[i] = inbox[i]
      /\ Len(inbox) + 1 \in DOMAIN inbox' /\ inbox'[Len(inbox) + 1] = m
      /\ \A i \in DOMAIN inbox' : i \in DOMAIN inbox \/ inbox'[i] = m
  BY DEF TypeOK
<1>2. \A i \in Answers : i \in Answers' /\ BlockAt(i)' = BlockAt(i)
  BY <1>1 DEF Answers, BlockAt
<1>3. Missing' = Missing
  BY DEF Missing, conn
<1>4. NothingLost'
  <2>1. CASE asked' = asked \/ ~open'
    BY <1>2, <1>3, <2>1 DEF Awaited, NothingLost
  <2>2. ASSUME NEW pb \in asked, asked' = asked \ {pb},
               m.type = "PIECE", pb = <<m.piece, m.block>>
        PROVE  NothingLost'
    <3>1. \E i \in Answers' : BlockAt(i)' = pb
      BY <1>1, <2>2 DEF Answers, BlockAt
    <3> QED BY <1>2, <1>3, <2>2, <3>1 DEF Awaited, NothingLost
  <2> QED BY <2>1, <2>2
<1>5. Unheard'
  BY <1>1 DEF Awaited, Unheard, conn
<1>6. Fresh'
  BY DEF Awaited, Fresh, conn
<1> QED BY <1>4, <1>5, <1>6 DEF Awaited

\* The block of an answer that is read is no longer waited for.
LEMMA RecvPieceAwaits ==
  ASSUME Inv, Awaited, recv_piece
  PROVE  Awaited'
<1> DEFINE m == Head(inbox)
           p == m.piece
           b == m.block
<1>1. /\ Receive("PIECE") /\ inbox # <<>> /\ inbox' = Tail(inbox)
      /\ inbox \in Seq(Message) /\ pc = "recv"
  BY DEF recv_piece, Receive, Inv, TypeOK
<1>2. PICK r \in local_requests :
        r.piece_index = p /\ p \in Piece /\ b \in r.missing
  BY <1>1, AnswerAtHead
<1>3. local_requests = {r} /\ r.missing \subseteq Blocks(p)
  BY <1>2 DEF Inv, OutstandingRequest
<1>4. UNCHANGED <<choked, open, asked, rchoking>> /\ process_piece_msg(p, b)
  BY DEF recv_piece, remote
<1>5. pc' \in {pc, "killed"}
  BY <1>4 DEF process_piece_msg, handle_piece_dnld_completion, SendOne,
              piece_not_valid
<1>6. Missing' \subseteq Missing \ {<<p, b>>}
  <2>1. GotBlock(r, b).missing = r.missing \ {b} /\ GotBlock(r, b).piece_index = p
    BY <1>2, <1>3 DEF GotBlock
  <2>2. local_requests' = {} \/ local_requests' = {GotBlock(r, b)}
    BY <1>2, <1>3, <1>4 DEF process_piece_msg
  <2>3. ASSUME NEW pb \in Missing'
        PROVE  pb \in Missing /\ pb # <<p, b>>
    <3>1. /\ pb \in AllBlocks
          /\ \E s \in local_requests' : s.piece_index = pb[1] /\ pb[2] \in s.missing
      BY DEF Missing
    <3>2. pb[1] = p /\ pb[2] \in r.missing \ {b}
      BY <2>1, <2>2, <3>1
    <3> QED BY <1>2, <1>3, <3>1, <3>2 DEF Missing
  <2> QED BY <2>3
<1>7. /\ \A i \in DOMAIN inbox' :
           i \in Nat /\ i + 1 \in DOMAIN inbox /\ inbox'[i] = inbox[i + 1]
      /\ \A i \in DOMAIN inbox : i = 1 \/ i - 1 \in DOMAIN inbox'
      /\ \A i \in DOMAIN inbox : i \in Nat
      /\ Head(inbox) = inbox[1]
  BY <1>1
<1>8. ASSUME NEW i \in Answers, BlockAt(i) # <<p, b>>
      PROVE  i - 1 \in Answers' /\ BlockAt(i - 1)' = BlockAt(i)
  <2>1. i # 1 /\ i \in DOMAIN inbox /\ i \in Nat
    BY <1>7, <1>8 DEF Answers, BlockAt
  <2>2. i - 1 \in DOMAIN inbox' /\ i - 1 + 1 = i
    BY <1>7, <2>1
  <2>3. inbox'[i - 1] = inbox[i]
    BY <1>7, <2>2
  <2> QED BY <2>2, <2>3 DEF Answers, BlockAt
<1>9. NothingLost'
  BY <1>4, <1>6, <1>8 DEF Awaited, NothingLost
<1>10. Unheard'
  BY <1>4, <1>7 DEF Awaited, Unheard
<1>11. Fresh'
  BY <1>1, <1>5 DEF Fresh
<1> QED BY <1>9, <1>10, <1>11 DEF Awaited

\* A request is sent only after an unchoke, and without a choke since all of
\* it reaches the remote peer.
LEMMA SendRequestsAwaits ==
  ASSUME Inv, Awaited, send_requests
  PROVE  Awaited'
<1>1. PICK p \in Piece :
        \/ /\ local_requests' = {piece_request_create(p)}
           /\ asked' \in Arrives(p)
           /\ pc' = "check"
           /\ UNCHANGED <<choked, open, rchoking, inbox>>
        \/ \E to \in {"none", "killed"} : ThreadEnds(to)
  BY DEF send_requests
<1>2. CASE \E to \in {"none", "killed"} : ThreadEnds(to)
  BY <1>2, EndAwaitsNothing
<1>3. CASE /\ local_requests' = {piece_request_create(p)}
           /\ asked' \in Arrives(p)
           /\ pc' = "check"
           /\ UNCHANGED <<choked, open, rchoking, inbox>>
  <2>1. ~rchoking
    BY DEF send_requests, MayRequest, Awaited, Unheard
  <2>2. Missing' \subseteq BlocksOf(p)
    <3> SUFFICES ASSUME NEW pb \in Missing'
                 PROVE  pb \in BlocksOf(p)
      OBVIOUS
    <3>1. pb \in AllBlocks /\ pb[1] = p /\ pb[2] \in Blocks(p)
      BY <1>3 DEF Missing, piece_request_create
    <3> QED BY <3>1, BlockPairs
  <2>3. NothingLost'
    BY <1>3, <2>1, <2>2 DEF Arrives, NothingLost
  <2> QED BY <1>3, <2>3 DEF Awaited, Unheard, Fresh
<1> QED BY <1>1, <1>2, <1>3

\* No step of the thread, or of a remote peer that does not choke, loses a
\* block.
LEMMA StepAwaits ==
  ASSUME "choke" \notin Faults, Inv, Awaited, [Next]_vars
  PROVE  Awaited'
<1> USE DEF conn, remote
<1>1. TypeOK
  BY DEF Inv
<1>2. CASE \E to \in {"none", "killed"} : ThreadEnds(to)
  BY <1>2, EndAwaitsNothing
<1>3. CASE \/ peer_connection_create \/ peer_connect_ok \/ setup_ok
           \/ NoMoreMessages \/ skip_requests \/ show_not_interested
           \/ check_completed \/ UNCHANGED vars
  <2>1. \/ \E to \in {"none", "killed"} : ThreadEnds(to)
        \/ /\ UNCHANGED <<asked, inbox, local_requests, rchoking, choked, open>>
           /\ pc' \in {"none", "connect", "handshake"} =>
                pc \in {"none", "connect", "handshake"}
    BY <1>3 DEF peer_connection_create, peer_connect_ok, setup_ok,
       NoMoreMessages, skip_requests, show_not_interested, check_completed, vars
  <2> QED BY <1>2, <2>1, QuietStepsAwait
<1>4. CASE peer_connect_fails \/ handshake_fails \/ setup_fails \/ recv_refused
  BY <1>2, <1>4 DEF peer_connect_fails, handshake_fails, setup_fails,
                    recv_refused
<1>5. CASE handshake_ok
  <2>1. /\ pc = "handshake" /\ pc' = "setup"
        /\ UNCHANGED <<choked, local_requests, rchoking>>
        /\ \E have : \/ inbox' = <<[type |-> "BITFIELD", have |-> have]>>
                     \/ inbox' = <<>>
    BY <1>5 DEF handshake_ok
  <2>2. Missing' = {}
    BY <2>1 DEF Awaited, Fresh, Missing
  <2>3. \A i \in DOMAIN inbox' : inbox'[i].type # "UNCHOKE"
    BY <2>1
  <2> QED BY <2>1, <2>2, <2>3 DEF Awaited, NothingLost, Unheard, Fresh
<1>6. CASE \/ recv_keepalive \/ recv_choke \/ recv_unchoke \/ recv_have
           \/ recv_bitfield \/ recv_request
  <2>1. /\ inbox # <<>> /\ inbox' = Tail(inbox)
        /\ Head(inbox).type # "PIECE"
        /\ UNCHANGED <<asked, local_requests, rchoking, open>>
        /\ choked' = choked \/ choked' \/ Head(inbox).type = "UNCHOKE"
        /\ pc' \in {pc, "killed"}
    BY <1>6 DEF recv_keepalive, recv_choke, recv_unchoke, recv_have,
       recv_bitfield, recv_request, Receive, show_interested, SendOne
  <2> QED BY <1>1, <2>1, PlainMessagesAwait
<1>7. CASE recv_piece
  BY <1>7, RecvPieceAwaits
<1>8. CASE send_requests
  BY <1>8, SendRequestsAwaits
<1>9. CASE RemoteUnchokes
  BY <1>1, <1>9, SentMessagesAwait DEF RemoteUnchokes, RemoteSends
<1>10. CASE RemoteGetsPiece
  <2>1. PICK p : RemoteSends([type |-> "HAVE", piece |-> p])
    BY <1>10 DEF RemoteGetsPiece
  <2>2. UNCHANGED <<asked, open, rchoking>>
    BY <1>10 DEF RemoteGetsPiece
  <2> QED BY <1>1, <2>1, <2>2, SentMessagesAwait DEF RemoteSends
<1>11. CASE RemoteRequests \/ RemoteKeepsAlive \/ RemoteRefused
  <2>1. PICK m \in {[type |-> "REQUEST"], [type |-> "KEEPALIVE"],
                    [type |-> "REFUSED"]} : RemoteSends(m)
    BY <1>11 DEF RemoteRequests, RemoteKeepsAlive, RemoteRefused
  <2>2. UNCHANGED <<asked, open, rchoking>> /\ m.type # "UNCHOKE"
    BY <1>11, <2>1 DEF RemoteRequests, RemoteKeepsAlive, RemoteRefused
  <2> QED BY <1>1, <2>1, <2>2, SentMessagesAwait DEF RemoteSends
<1>12. CASE RemoteAnswers \/ RemoteCorrupts
  <2>1. PICK pb \in asked, data \in {"good", "bad"} :
          Answer(pb[1], pb[2], data) /\ UNCHANGED open
    BY <1>12 DEF RemoteAnswers, RemoteCorrupts
  <2>2. pb = <<pb[1], pb[2]>>
    BY <1>1, BlockPairs DEF TypeOK
  <2>3. /\ inbox' = Append(inbox, [type |-> "PIECE", piece |-> pb[1],
                                   block |-> pb[2], data |-> data])
        /\ asked' = asked \ {pb}
        /\ UNCHANGED <<pc, conn, rchoking, open>>
    BY <2>1, <2>2 DEF Answer, RemoteSends
  <2> QED BY <1>1, <2>2, <2>3, SentMessagesAwait
<1>13. CASE RemoteCloses
  BY <1>13 DEF RemoteCloses, Awaited, NothingLost, Unheard, Fresh
<1>14. CASE RemoteClosesInMessage
  BY <1>1, <1>14, SentMessagesAwait DEF RemoteClosesInMessage
<1>15. CASE RemoteClosesInBlock
  <2>1. PICK pb \in asked :
          inbox' = Append(inbox, [type |-> "PIECE", piece |-> pb[1],
                                  block |-> pb[2], data |-> "cut"])
    BY <1>15 DEF RemoteClosesInBlock
  <2> QED BY <1>1, <1>15, <2>1, SentMessagesAwait DEF RemoteClosesInBlock
<1>16. ~RemoteChokes
  BY DEF RemoteChokes
<1> QED BY <1>3, <1>4, <1>5, <1>6, <1>7, <1>8, <1>9, <1>10, <1>11, <1>12,
        <1>13, <1>14, <1>15, <1>16 DEF Next, ThreadRuns, RemoteRuns

\* A remote peer that never chokes loses none of our requests: while the
\* connection is open, each block that is waited for is with it or on its way,
\* whatever else it sends, corrupts, refuses, or asks for (process_piece_msg,
\* send_requests).  Requests have no timeout, so a choke does lose them.
THEOREM NothingIsLost ==
  ASSUME "choke" \notin Faults
  PROVE  Spec => []NothingLost
<1>1. Init => Awaited
  BY DEF Init, Awaited, NothingLost, Unheard, Fresh
<1>2. Inv /\ Awaited /\ [Next]_vars => Awaited'
  BY StepAwaits
<1>3. Awaited => NothingLost
  BY DEF Awaited
<1> QED BY <1>1, <1>2, <1>3, Invariance, PTL DEF Spec

-----------------------------------------------------------------------------
(* A connection to a remote peer with every piece goes on.                 *)

\* The first of a set of pieces, and the last.
LEMMA LeastElement ==
  ASSUME NEW S \in SUBSET Nat, S # {}
  PROVE  \E x \in S : \A y \in S : x <= y
<1> DEFINE R == OpToRel(<, Nat)
<1>1. IsWellFoundedOn(R, Nat)
  BY NatLessThanWellFounded
<1>2. ASSUME NEW x \in Nat, NEW y \in Nat, y < x PROVE <<y, x>> \in R
  BY <1>2 DEF OpToRel
<1> HIDE DEF R
<1>3. PICK x \in S : \A y \in S : <<y, x>> \notin R
  BY <1>1, WFMin
<1>4. ASSUME NEW y \in S PROVE x <= y
  <2>1. x \in Nat /\ y \in Nat
    OBVIOUS
  <2>2. ~(y < x)
    BY <1>2, <1>3, <2>1
  <2> QED BY <2>1, <2>2
<1> QED BY <1>4

LEMMA GreatestElement ==
  ASSUME NEW n \in Nat, NEW S \in SUBSET (0 .. n - 1), S # {}
  PROVE  \E x \in S : \A y \in S : y <= x
<1> DEFINE T == {n - 1 - x : x \in S}
<1>1. T \subseteq Nat
  <2>1. ASSUME NEW x \in S PROVE n - 1 - x \in Nat
    <3>1. x \in 0 .. n - 1
      OBVIOUS
    <3> QED BY <3>1
  <2> QED BY <2>1
<1>2. T # {}
  OBVIOUS
<1>3. PICK t \in T : \A u \in T : t <= u
  <2> HIDE DEF T
  <2> QED BY <1>1, <1>2, LeastElement
<1>4. PICK x \in S : t = n - 1 - x
  OBVIOUS
<1>5. ASSUME NEW y \in S PROVE y <= x
  <2>1. n - 1 - y \in T
    OBVIOUS
  <2>2. t <= n - 1 - y
    BY <1>3, <2>1
  <2>3. x \in 0 .. n - 1 /\ y \in 0 .. n - 1
    OBVIOUS
  <2> QED BY <1>4, <2>2, <2>3
<1> QED BY <1>5

\* What torrent_next_request chooses from is never left without a choice.
LEMMA ChoiceExists ==
  ASSUME TypeOK, ~NothingToRequest
  PROVE  \E p \in Piece : torrent_next_request(p)
<1>1. /\ \A state : Wanted(state) \subseteq 0 .. NumPieces - 1
      /\ NumPieces \in Nat
  BY DEF TypeOK, Wanted, Piece
<1>2. CASE Wanted("NOT_REQUESTED") # {}
  <2>1. Wanted("NOT_REQUESTED") \in SUBSET Nat
    BY <1>1
  <2>2. PICK p \in Wanted("NOT_REQUESTED") :
          \A q \in Wanted("NOT_REQUESTED") : p <= q
    BY <1>2, <2>1, LeastElement
  <2>3. p \in Piece
    BY <1>1 DEF Piece
  <2> QED BY <1>2, <2>2, <2>3 DEF torrent_next_request
<1>3. CASE Wanted("NOT_REQUESTED") = {}
  <2>1. Wanted("REQUESTED") # {} /\ Wanted("REQUESTED") \in SUBSET (0 .. NumPieces - 1)
    BY <1>1, <1>3 DEF NothingToRequest
  <2>2. PICK p \in Wanted("REQUESTED") : \A q \in Wanted("REQUESTED") : q <= p
    BY <1>1, <2>1, GreatestElement
  <2>3. p \in Piece
    BY <1>1 DEF Piece
  <2> QED BY <1>3, <2>2, <2>3 DEF torrent_next_request
<1> QED BY <1>2, <1>3

\* The remote peer has every piece and asks for nothing.
SeedsOnly == {"choke", "partial", "request"} \cap Faults = {}

Coming(type) == \E i \in DOMAIN inbox : inbox[i].type = type

\* What such a remote peer sends, and what is known of it.
SeedMessages ==
  \A i \in DOMAIN inbox :
    /\ inbox[i].type \notin {"REQUEST", "CHOKE", "HAVE"}
    /\ inbox[i].type = "BITFIELD" => inbox[i].have = Piece

Early == {"none", "connect", "handshake"}

SeedKnown ==
  /\ peer_have = Piece \/ Coming("BITFIELD")
  /\ choked => rchoking \/ Coming("UNCHOKE")
  /\ peer_have = Piece => interested \/ completed

SeedInv ==
  /\ SeedMessages
  /\ ~peer_requests
  /\ pc \in Early => ~open /\ rchoking /\ peer_have = {}
  /\ open => rhave = Piece /\ SeedKnown

\* When nothing more comes, a piece that we lack can be asked for.
LEMMA SeedUnderWay == Inv /\ NothingLost /\ SeedInv => UnderWay
<1> SUFFICES ASSUME Inv, NothingLost, SeedInv, open, ~completed,
                    inbox = <<>>, ~rchoking, asked = {}
             PROVE  /\ MayRequest
                    /\ local_requests = {}
                    /\ \E p \in Piece : torrent_next_request(p)
  BY DEF UnderWay
<1>1. DOMAIN inbox = {}
  OBVIOUS
<1>2. peer_have = Piece /\ MayRequest
  BY <1>1 DEF SeedInv, SeedKnown, Coming, MayRequest
<1>3. local_requests = {}
  <2>1. Missing = {}
    BY <1>1 DEF NothingLost, Answers
  <2>2. ASSUME NEW r \in local_requests PROVE FALSE
    <3>1. /\ r.piece_index \in Piece /\ r.missing # {}
          /\ r.missing \subseteq Blocks(r.piece_index)
      BY DEF Inv, TypeOK, PieceRequests, OutstandingRequest
    <3>2. PICK b \in r.missing : <<r.piece_index, b>> \in BlocksOf(r.piece_index)
      BY <3>1 DEF BlocksOf
    <3>3. <<r.piece_index, b>> \in Missing
      BY <3>1, <3>2 DEF Missing, AllBlocks
    <3> QED BY <2>1, <3>3
  <2> QED BY <2>2
<1>4. ~NothingToRequest
  <2>1. PICK p \in Piece : pieces_state[p] # "HAVE"
    <3>1. Have # Piece
      BY NoneLeft DEF Inv, PiecesLeftCounts, Have
    <3> QED BY <3>1 DEF Have
  <2>2. pieces_state[p] \in {"NOT_REQUESTED", "REQUESTED"}
    BY <2>1 DEF Inv, TypeOK, PieceStates
  <2> QED BY <1>2, <2>2 DEF NothingToRequest, Wanted
<1> QED BY <1>2, <1>3, <1>4, ChoiceExists DEF Inv

\* A connection that ended is no longer open.
LEMMA SeedEnds ==
  ASSUME NEW to \in {"none", "killed"}, ThreadEnds(to)
  PROVE  SeedInv'
<1>1. /\ inbox' = <<>> /\ peer_requests' = FALSE /\ open' = FALSE
      /\ rchoking' = TRUE /\ peer_have' = {}
  BY DEF ThreadEnds
<1>2. DOMAIN inbox' = {}
  BY <1>1
<1> QED BY <1>1, <1>2 DEF SeedInv, SeedMessages

\* A turn that reads nothing and learns nothing.
LEMMA SeedQuiet ==
  ASSUME SeedInv,
         UNCHANGED <<choked, interested, peer_have, peer_requests, open, inbox,
                     rchoking, rhave>>,
         completed => completed',
         pc' \in Early => pc \in Early
  PROVE  SeedInv'
BY DEF SeedInv, SeedMessages, SeedKnown, Coming

\* Reading a message of a remote peer with every piece.
LEMMA SeedReads ==
  ASSUME TypeOK, SeedInv, inbox # <<>>, inbox' = Tail(inbox), pc = "recv",
         pc' \in {pc, "killed"},
         UNCHANGED <<peer_requests, open, rchoking, rhave>>,
         completed => completed',
         \/ Head(inbox).type = "BITFIELD" /\ peer_have' = Piece
            /\ (open => interested' \/ completed') /\ choked' = choked
         \/ Head(inbox).type = "UNCHOKE" /\ choked' = FALSE
            /\ UNCHANGED <<peer_have, interested>>
         \/ Head(inbox).type \notin {"BITFIELD", "UNCHOKE"}
            /\ UNCHANGED <<choked, peer_have, interested>>
  PROVE  SeedInv'
<1>1. /\ \A i \in DOMAIN inbox' :
           i + 1 \in DOMAIN inbox /\ inbox'[i] = inbox[i + 1]
      /\ \A i \in DOMAIN inbox :
           i = 1 \/ (i - 1 \in DOMAIN inbox' /\ inbox'[i - 1] = inbox[i])
      /\ Head(inbox) = inbox[1]
  <2>1. inbox \in Seq(Message)
    BY DEF TypeOK
  <2>2. ASSUME NEW i \in DOMAIN inbox'
        PROVE  i + 1 \in DOMAIN inbox /\ inbox'[i] = inbox[i + 1]
    BY <2>1
  <2>3. ASSUME NEW i \in DOMAIN inbox, i # 1
        PROVE  i - 1 \in DOMAIN inbox' /\ inbox'[i - 1] = inbox[i]
    <3>1. i \in 1 .. Len(inbox) /\ Len(inbox) \in Nat
      BY <2>1
    <3>2. i - 1 \in 1 .. Len(inbox) - 1 /\ Len(inbox') = Len(inbox) - 1
      BY <2>1, <2>3, <3>1
    <3>3. i - 1 \in DOMAIN inbox'
      BY <2>1, <3>2
    <3> QED BY <2>1, <3>1, <3>2, <3>3
  <2> QED BY <2>1, <2>2, <2>3
<1>2. SeedMessages'
  BY <1>1 DEF SeedInv, SeedMessages
<1>3. ASSUME NEW type, Coming(type), Head(inbox).type # type
      PROVE  Coming(type)'
  BY <1>1, <1>3 DEF Coming
<1>4. ASSUME open PROVE SeedKnown'
  BY <1>3, <1>4 DEF SeedInv, SeedKnown
<1> QED BY <1>2, <1>4 DEF SeedInv, Early

\* A message that such a remote peer sends.
LEMMA SeedSends ==
  ASSUME TypeOK, SeedInv, NEW m,
         m.type \in {"UNCHOKE", "PIECE", "KEEPALIVE", "REFUSED"},
         inbox' = Append(inbox, m),
         UNCHANGED <<pc, conn, shared, rhave>>,
         open' => open,
         rchoking' = rchoking \/ m.type = "UNCHOKE",
         pc \in Early => rchoking'
  PROVE  SeedInv'
<1>1. /\ \A i \in DOMAIN inbox : i \in DOMAIN inbox' /\ inbox'[i] = inbox[i]
      /\ Len(inbox) + 1 \in DOMAIN inbox' /\ inbox'[Len(inbox) + 1] = m
      /\ \A i \in DOMAIN inbox' : i \in DOMAIN inbox \/ inbox'[i] = m
  BY DEF TypeOK
<1>2. SeedMessages'
  BY <1>1 DEF SeedInv, SeedMessages
<1>3. \A type : Coming(type) => Coming(type)'
  BY <1>1 DEF Coming
<1>4. m.type = "UNCHOKE" => Coming("UNCHOKE")'
  BY <1>1 DEF Coming
<1>5. ASSUME open PROVE SeedKnown'
  BY <1>3, <1>4, <1>5 DEF SeedInv, SeedKnown, conn, shared
<1> QED BY <1>2, <1>5 DEF SeedInv, Early, conn

LEMMA StepSeed ==
  ASSUME SeedsOnly, Inv, SeedInv, [Next]_vars
  PROVE  SeedInv'
<1> USE DEF Early
<1>1. /\ TypeOK /\ Piece # {}
      /\ "choke" \notin Faults /\ "partial" \notin Faults /\ "request" \notin Faults
  <2>1. 0 \in Piece
    BY DEF Piece
  <2> QED BY <2>1 DEF Inv, SeedsOnly
<1>2. CASE \E to \in {"none", "killed"} : ThreadEnds(to)
  BY <1>2, SeedEnds
<1>3. CASE \/ peer_connection_create \/ peer_connect_ok \/ setup_ok
           \/ NoMoreMessages \/ skip_requests \/ send_requests
           \/ check_completed \/ UNCHANGED vars
  <2>1. \/ \E to \in {"none", "killed"} : ThreadEnds(to)
        \/ /\ UNCHANGED <<choked, interested, peer_have, peer_requests, open,
                          inbox, rchoking, rhave, completed>>
           /\ pc' \in Early => pc \in Early
    BY <1>3 DEF peer_connection_create, peer_connect_ok, setup_ok,
       NoMoreMessages, skip_requests, send_requests, check_completed, vars,
       shared, conn, remote
  <2> QED BY <1>2, <2>1, SeedQuiet
<1>4. CASE peer_connect_fails \/ handshake_fails \/ setup_fails \/ recv_refused
  BY <1>2, <1>4 DEF peer_connect_fails, handshake_fails, setup_fails,
                    recv_refused
<1>5. CASE show_not_interested
  <2>1. /\ UNCHANGED <<choked, peer_have, peer_requests, open, inbox, rchoking,
                       rhave, completed>>
        /\ pc' \in {"killed", "check"}
        /\ NothingToRequest
    BY <1>5 DEF show_not_interested, remote, shared
  <2>2. ASSUME peer_have = Piece PROVE completed
    <3>1. Have = Piece
      BY <1>1, <2>1, <2>2 DEF NothingToRequest, Wanted, Have, TypeOK, PieceStates
    <3> QED BY <3>1, NoneLeft DEF Inv, PiecesLeftCounts, Have
  <2> QED BY <2>1, <2>2 DEF SeedInv, SeedMessages, SeedKnown, Coming
<1>6. CASE handshake_ok
  <2>1. /\ pc = "handshake" /\ pc' = "setup" /\ rhave' = Piece
        /\ inbox' = <<[type |-> "BITFIELD", have |-> Piece]>>
        /\ UNCHANGED <<choked, interested, peer_have, peer_requests, completed,
                       rchoking>>
    BY <1>1, <1>6 DEF handshake_ok, shared, conn
  <2>2. /\ rchoking /\ peer_have = {} /\ ~peer_requests
    BY <2>1 DEF SeedInv
  <2>3. /\ 1 \in DOMAIN inbox' /\ inbox'[1] = [type |-> "BITFIELD", have |-> Piece]
        /\ \A i \in DOMAIN inbox' : i = 1
    BY <2>1
  <2>4. SeedMessages' /\ Coming("BITFIELD")'
    BY <2>3 DEF SeedMessages, Coming
  <2> QED BY <1>1, <2>1, <2>2, <2>4 DEF SeedInv, SeedKnown
<1>7. CASE recv_keepalive \/ recv_unchoke
  <2>1. /\ pc = "recv" /\ inbox # <<>> /\ inbox' = Tail(inbox) /\ pc' = pc
        /\ UNCHANGED <<peer_have, interested, peer_requests, open, rchoking,
                       rhave, completed>>
        /\ \/ Head(inbox).type = "UNCHOKE" /\ choked' = FALSE
           \/ Head(inbox).type = "KEEPALIVE" /\ choked' = choked
    BY <1>7 DEF recv_keepalive, recv_unchoke, Receive, shared, conn, remote
  <2> QED BY <1>1, <2>1, SeedReads
<1>8. CASE recv_bitfield
  <2>1. /\ pc = "recv" /\ inbox # <<>> /\ inbox' = Tail(inbox)
        /\ Head(inbox).type = "BITFIELD" /\ peer_have' = Head(inbox).have
        /\ pc' \in {pc, "killed"}
        /\ UNCHANGED <<choked, peer_requests, open, rchoking, rhave, completed>>
    BY <1>8 DEF recv_bitfield, Receive, show_interested, SendOne, shared, remote
  <2>2. Head(inbox).have = Piece
    <3>1. Head(inbox) = inbox[1] /\ 1 \in DOMAIN inbox
      BY <1>1, <2>1 DEF TypeOK
    <3> QED BY <2>1, <3>1 DEF SeedInv, SeedMessages
  <2>3. ASSUME open PROVE interested' \/ completed'
    <3>1. CASE \E p \in Piece : pieces_state[p] # "HAVE"
      BY <1>8, <2>2, <2>3, <3>1
         DEF recv_bitfield, show_interested, SendOne, SendResults
    <3>2. CASE ~\E p \in Piece : pieces_state[p] # "HAVE"
      <4>1. Have = Piece
        BY <3>2 DEF Have
      <4> QED BY <2>1, <4>1, NoneLeft DEF Inv, PiecesLeftCounts, Have
    <3> QED BY <3>1, <3>2
  <2> QED BY <1>1, <2>1, <2>2, <2>3, SeedReads
<1>9. CASE recv_piece
  <2>1. /\ pc = "recv" /\ inbox # <<>> /\ inbox' = Tail(inbox)
        /\ Head(inbox).type = "PIECE"
        /\ UNCHANGED <<choked, interested, peer_have, peer_requests, open,
                       rchoking, rhave>>
    BY <1>9 DEF recv_piece, Receive, remote
  <2>2. pc' \in {pc, "killed"} /\ (completed => completed')
    BY <1>9 DEF recv_piece, process_piece_msg, handle_piece_dnld_completion,
       piece_not_valid, SendOne
  <2> QED BY <1>1, <2>1, <2>2, SeedReads
<1>10. ~(recv_choke \/ recv_have \/ recv_request)
  <2>1. ASSUME inbox # <<>>
        PROVE  Head(inbox) = inbox[1] /\ 1 \in DOMAIN inbox
    BY <1>1, <2>1 DEF TypeOK
  <2>2. inbox # <<>> => Head(inbox).type \notin {"CHOKE", "HAVE", "REQUEST"}
    BY <2>1 DEF SeedInv, SeedMessages
  <2> QED BY <2>2 DEF recv_choke, recv_have, recv_request, Receive
<1>11. CASE RemoteUnchokes
  <2>1. pc \notin Early
    BY <1>11 DEF RemoteUnchokes, RemoteSends, SeedInv
  <2>2. /\ inbox' = Append(inbox, [type |-> "UNCHOKE"])
        /\ UNCHANGED <<pc, conn, shared, rhave, open>>
    BY <1>11 DEF RemoteUnchokes, RemoteSends
  <2>3. [type |-> "UNCHOKE"].type = "UNCHOKE"
    OBVIOUS
  <2> QED BY <1>1, <2>1, <2>2, <2>3, SeedSends
<1>12. CASE RemoteAnswers \/ RemoteCorrupts
  <2>1. PICK pb \in asked, data \in {"good", "bad"} :
          Answer(pb[1], pb[2], data) /\ UNCHANGED open
    BY <1>12 DEF RemoteAnswers, RemoteCorrupts
  <2>2. /\ inbox' = Append(inbox, [type |-> "PIECE", piece |-> pb[1],
                                   block |-> pb[2], data |-> data])
        /\ UNCHANGED <<pc, conn, shared, rhave, rchoking, open>>
    BY <2>1 DEF Answer, RemoteSends
  <2> QED BY <1>1, <2>2, SeedSends DEF SeedInv
<1>13. CASE RemoteKeepsAlive \/ RemoteRefused
  <2>1. PICK m \in {[type |-> "KEEPALIVE"], [type |-> "REFUSED"]} : RemoteSends(m)
    BY <1>13 DEF RemoteKeepsAlive, RemoteRefused
  <2>2. /\ UNCHANGED <<pc, conn, shared, rhave, rchoking, open>>
        /\ inbox' = Append(inbox, m)
    BY <1>13, <2>1 DEF RemoteKeepsAlive, RemoteRefused, RemoteSends, remote
  <2> QED BY <1>1, <2>2, SeedSends DEF SeedInv
<1>14. CASE RemoteCloses
  BY <1>14 DEF RemoteCloses, SeedInv, SeedMessages, conn
<1>15. CASE RemoteClosesInMessage
  <2>1. /\ inbox' = Append(inbox, [type |-> "REFUSED"]) /\ open' = FALSE
        /\ UNCHANGED <<pc, conn, shared, rhave, rchoking>>
    BY <1>15 DEF RemoteClosesInMessage
  <2> QED BY <1>1, <2>1, SeedSends DEF SeedInv
<1>16. CASE RemoteClosesInBlock
  <2>1. PICK pb \in asked :
          inbox' = Append(inbox, [type |-> "PIECE", piece |-> pb[1],
                                  block |-> pb[2], data |-> "cut"])
    BY <1>16 DEF RemoteClosesInBlock
  <2>2. open' = FALSE /\ UNCHANGED <<pc, conn, shared, rhave, rchoking>>
    BY <1>16 DEF RemoteClosesInBlock
  <2> QED BY <1>1, <2>1, <2>2, SeedSends DEF SeedInv
<1>17. ~(RemoteChokes \/ RemoteRequests)
  BY <1>1 DEF RemoteChokes, RemoteRequests
<1>18. ~RemoteGetsPiece
  BY DEF RemoteGetsPiece, RemoteSends, SeedInv
<1> QED BY <1>3, <1>4, <1>5, <1>6, <1>7, <1>8, <1>9, <1>10, <1>11, <1>12,
        <1>13, <1>14, <1>15, <1>16, <1>17, <1>18 DEF Next, ThreadRuns, RemoteRuns

\* A remote peer that has every piece, says so, never chokes and asks nothing
\* of us never leaves the thread with nothing to go on with, however often it
\* corrupts a block, sends what is refused, or closes: until the download is
\* complete there is a message to read, an answer or the unchoke to come, or a
\* piece that the thread may ask for.  None of it can be lost on the way.
THEOREM SeedsKeepGoing ==
  ASSUME SeedsOnly
  PROVE  Spec => []GoesOn
<1>1. "choke" \notin Faults
  BY DEF SeedsOnly
<1>2. Init => SeedInv
  BY DEF Init, SeedInv, SeedMessages, Early
<1>3. Inv /\ SeedInv /\ [Next]_vars => SeedInv'
  BY StepSeed
<1>4. Inv /\ NothingLost /\ SeedInv => GoesOn
  BY SeedUnderWay DEF GoesOn
<1>5. Spec => []NothingLost
  BY <1>1, NothingIsLost
<1> QED BY <1>2, <1>3, <1>4, <1>5, Invariance, PTL DEF Spec
=============================================================================
