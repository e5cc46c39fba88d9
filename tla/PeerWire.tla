------------------------------ MODULE PeerWire ------------------------------
(***************************************************************************)
(* How a peer thread takes messages off the byte stream of its connection  *)
(* (src/peer_msg.cpp): the handshake, peer_msg_buff_nonempty, which tests  *)
(* whether a message has arrived, and peer_msg_recv, which then reads it   *)
(* field by field.  The test is satisfied two bytes before the end of a    *)
(* message; a recv waits for bytes that are missing until its timeout, and *)
(* the one that reads the bytes of a block ignores that it failed.         *)
(* The remote peer is external; what it sends is well formed.              *)
(***************************************************************************)
EXTENDS Integers, Sequences

CONSTANTS
  HANDSHAKE,          \* bytes of a handshake
  PEER_REQUEST_SIZE,  \* bytes of a block
  BITFIELD_NUM_BYTES, \* bytes of a bitfield
  Messages,           \* what the remote peer sends
  MaxMessages,        \* bound: messages it sends
  Faults              \* what may go wrong

FaultKinds == {"timeout",   \* a recv waits for PEER_CONNECT_TIMEOUT_SEC
               "close",     \* the connection ends, perhaps inside a message
               "stranger"}  \* the handshake is of another protocol

\* mems are the stretches of the files a block is written to: where each ends
\* in the block.
Kinds == {"KEEPALIVE", "CHOKE", "HAVE", "BITFIELD", "REQUEST", "PIECE",
          "CANCEL", "PORT", "OTHER"}
Message == [kind : Kinds, len : Nat, mems : Seq(Nat \ {0})]

\* The length makes a KEEPALIVE, and a PIECE is as long as the block that
\* begins where it says.
WellFormed(m) ==
  /\ m.kind = "KEEPALIVE" <=> m.len = 0
  /\ m.kind = "PIECE" =>
       /\ m.mems # <<>>
       /\ \A i, j \in 1 .. Len(m.mems) : i < j => m.mems[i] < m.mems[j]
       /\ m.mems[Len(m.mems)] = m.len - (1 + 2 * 4)

ASSUME WireAssumption ==
  /\ HANDSHAKE \in Nat \ {0}
  /\ PEER_REQUEST_SIZE \in Nat \ {0}
  /\ BITFIELD_NUM_BYTES \in Nat \ {0}
  /\ Messages \subseteq Message
  /\ \A m \in Messages : WellFormed(m)
  /\ MaxMessages \in Nat
  /\ Faults \subseteq FaultKinds

VARIABLES
  sent,     \* messages the remote peer has sent
  ends,     \* where each of them ends in the stream
  arrived,  \* bytes that have arrived
  link,     \* the remote peer: "open", or "closed", and no byte follows
  pc,       \* "handshake", "test", "recv", "process"; "ended", or "lost" when
            \* it reads a length that is not one
  read,     \* bytes taken off the stream
  field,    \* the field that is read
  got,      \* bytes of the message that have been read, or given up
  handled,  \* messages given to process_msg
  damaged   \* a block was not read to its end

remote == <<sent, ends, arrived, link>>
reader == <<pc, read, field, got, handled, damaged>>
vars == <<remote, reader>>

\* Bytes up to the end of message k.
EndOf(k) == IF k = 0 THEN HANDSHAKE ELSE ends[k]
Available == arrived - read
Current == sent[handled + 1]

Init ==
  /\ sent = <<>>
  /\ ends = <<>>
  /\ arrived = 0
  /\ link = "open"
  /\ pc = "handshake"
  /\ read = 0
  /\ field = 1
  /\ got = 0
  /\ handled = 0
  /\ damaged = FALSE

-----------------------------------------------------------------------------
\* Of the messages without a case of their own, len is 1: CANCEL is one.
msg_length(kind) ==
  CASE kind = "KEEPALIVE" -> 0
    [] kind = "PIECE" -> 1 + 2 * 4 + PEER_REQUEST_SIZE
    [] kind = "BITFIELD" -> 1 + BITFIELD_NUM_BYTES
    [] kind = "REQUEST" -> 1 + 3 * 4
    [] kind \in {"HAVE", "PORT"} -> 1 + 4
    [] OTHER -> 1

valid_len(m) ==
  IF m.kind = "PIECE"
    THEN m.len \in 1 + 2 * 4 + 1 .. 1 + 2 * 4 + PEER_REQUEST_SIZE
    ELSE m.len = msg_length(m.kind)

\* peer_msg_recv returns 0.  It has no reader for a CANCEL: one of the length
\* that valid_len asks for ends the process, with assert(0).
Accepted(m) == m.kind \notin {"OTHER", "CANCEL"} /\ valid_len(m)

\* Where the recvs of one message end in it: the length, the type, and what
\* peer_msg_recv_pastlen and peer_msg_recv_piece read after it.
FieldEnds(m) ==
  CASE m.len = 0 -> <<4>>
    [] m.len > 0 /\ (~Accepted(m) \/ m.len = 1) -> <<4, 5>>
    [] m.len > 1 /\ Accepted(m) /\ m.kind = "PIECE" ->
         <<4, 5, 9, 13>> \o [i \in 1 .. Len(m.mems) |-> 13 + m.mems[i]]
    [] m.len > 1 /\ Accepted(m) /\ m.kind # "PIECE" -> <<4, 5, 4 + m.len>>

\* The recvs of a block, whose failures peer_msg_recv_piece ignores.
OfBlock(m, f) == m.kind = "PIECE" /\ f > 4

-----------------------------------------------------------------------------
(* The reader. *)

\* peer_recv_handshake, one recv or several.
recv_handshake(n) ==
  /\ pc = "handshake"
  /\ n \in 1 .. Available
  /\ read + n <= HANDSHAKE
  /\ read' = read + n
  /\ pc' = IF read' < HANDSHAKE THEN "handshake" ELSE "test"
  /\ UNCHANGED <<remote, field, got, handled, damaged>>

handshake_fails ==
  /\ pc = "handshake"
  /\ \/ Available = 0 /\ (link = "closed" \/ "timeout" \in Faults)
     \/ "stranger" \in Faults /\ arrived >= HANDSHAKE
  /\ pc' = "ended"
  /\ UNCHANGED <<remote, read, field, got, handled, damaged>>

\* Mutants: the length of the message is not compared; a whole length more is
\* asked for.
AnyBytes == Available >= 4
MoreThanWhole == Available >= 4 /\ Available > 4 + Current.len

\* peer_msg_buff_nonempty, when the stream is at the beginning of a message.
peer_msg_buff_nonempty == Available >= 4 /\ Available >= Current.len + 2

test ==
  /\ pc = "test"
  /\ read = EndOf(handled)
  /\ handled < Len(sent)
  /\ peer_msg_buff_nonempty
  /\ pc' = "recv"
  /\ field' = 1
  /\ got' = 0
  /\ UNCHANGED <<remote, read, handled, damaged>>

\* It takes bytes of a block for the length of a message.
test_lost ==
  /\ pc = "test"
  /\ read # EndOf(handled)
  /\ Available >= 4
  /\ pc' = "lost"
  /\ UNCHANGED <<remote, read, field, got, handled, damaged>>

\* Mutant: one recv too many.
AdvancesPastEnd ==
  /\ got' = FieldEnds(Current)[field]
  /\ field' = field + 1
  /\ pc' = IF field <= Len(FieldEnds(Current)) THEN "recv"
           ELSE IF Accepted(Current) THEN "process"
           ELSE "ended"

\* The field has been read, or left as it is: the next one, process_msg, or
\* the end of the thread when the message is not accepted.
Advances ==
  /\ got' = FieldEnds(Current)[field]
  /\ field' = field + 1
  /\ pc' = IF field < Len(FieldEnds(Current)) THEN "recv"
           ELSE IF Accepted(Current) THEN "process"
           ELSE "ended"

\* Mutant: peer_recv_buff is content with what one recv returns.
recv_once(n) ==
  /\ pc = "recv"
  /\ n \in 1 .. Available
  /\ got + n <= FieldEnds(Current)[field]
  /\ read' = read + n
  /\ Advances
  /\ UNCHANGED <<remote, handled, damaged>>

\* One recv of peer_recv_buff.
recv_some(n) ==
  /\ pc = "recv"
  /\ n \in 1 .. Available
  /\ got + n <= FieldEnds(Current)[field]
  /\ read' = read + n
  /\ IF got + n = FieldEnds(Current)[field]
       THEN Advances
       ELSE got' = got + n /\ UNCHANGED <<pc, field>>
  /\ UNCHANGED <<remote, handled, damaged>>

\* Mutant: no failure is noticed.
recv_fails_ignored ==
  /\ pc = "recv"
  /\ Available = 0
  /\ link = "closed" \/ "timeout" \in Faults
  /\ Advances
  /\ UNCHANGED <<remote, read, handled, damaged>>

\* recv returns 0 at the end of the connection, or -1 after its timeout.
recv_fails ==
  /\ pc = "recv"
  /\ Available = 0
  /\ link = "closed" \/ "timeout" \in Faults
  /\ IF OfBlock(Current, field)
       THEN Advances /\ damaged' = TRUE
       ELSE pc' = "ended" /\ UNCHANGED <<field, got, damaged>>
  /\ UNCHANGED <<remote, read, handled>>

process_msg ==
  /\ pc = "process"
  /\ handled' = handled + 1
  /\ pc' = "test"
  /\ UNCHANGED <<remote, read, field, got, damaged>>

ReaderRuns ==
  \/ \E n \in 1 .. Available : recv_handshake(n) \/ recv_some(n)
  \/ handshake_fails \/ test \/ test_lost \/ recv_fails \/ process_msg

-----------------------------------------------------------------------------
(* The remote peer and the network. *)

peer_sends ==
  /\ link = "open"
  /\ Len(sent) < MaxMessages
  /\ \E m \in Messages :
       /\ sent' = Append(sent, m)
       /\ ends' = Append(ends, EndOf(Len(sent)) + 4 + m.len)
  /\ UNCHANGED <<arrived, link, reader>>

bytes_arrive(n) ==
  /\ link = "open"
  /\ n \in 1 .. EndOf(Len(sent)) - arrived
  /\ arrived' = arrived + n
  /\ UNCHANGED <<sent, ends, link, reader>>

closes ==
  /\ "close" \in Faults
  /\ link = "open"
  /\ link' = "closed"
  /\ UNCHANGED <<sent, ends, arrived, reader>>

Next ==
  \/ ReaderRuns
  \/ peer_sends
  \/ \E n \in 1 .. EndOf(Len(sent)) - arrived : bytes_arrive(n)
  \/ closes

Spec == Init /\ [][Next]_vars

\* The thread is scheduled, and what was sent arrives.
FairSpec ==
  /\ Spec
  /\ WF_vars(ReaderRuns)
  /\ WF_vars(\E n \in 1 .. EndOf(Len(sent)) - arrived : bytes_arrive(n))

-----------------------------------------------------------------------------
TypeOK ==
  /\ sent \in Seq(Messages)
  /\ ends \in Seq(Nat)
  /\ Len(ends) = Len(sent)
  /\ arrived \in 0 .. EndOf(Len(sent))
  /\ link \in {"open", "closed"}
  /\ pc \in {"handshake", "test", "recv", "process", "ended", "lost"}
  /\ read \in 0 .. arrived
  /\ handled \in 0 .. Len(sent)
  /\ damaged \in BOOLEAN
  /\ pc = "recv" => /\ field \in 1 .. Len(FieldEnds(Current))
                    /\ got \in 0 .. FieldEnds(Current)[field] - 1

\* The thread stands at the beginning of a message whenever it looks for the
\* next one: fields, tests and lengths agree about where a message ends,
\* unless the recv of a block has failed before.
InStep == pc \in {"test", "process"} /\ ~damaged =>
  read = EndOf(IF pc = "test" THEN handled ELSE handled + 1)

\* The thread waits inside a message, where it does nothing else for up to
\* PEER_CONNECT_TIMEOUT_SEC, for no more than the last two bytes of it.
WaitsForTwo == pc = "recv" /\ ~damaged => arrived >= EndOf(handled + 1) - 2

\* Where the thread is in the stream: inside one message, field by field, at
\* its beginning when it looks for the next one, and not waiting for long.
Position == TypeOK /\ InStep /\ WaitsForTwo

\* Every message that is accepted is handled once its bytes have arrived, if
\* those before it are accepted as well and the thread neither gives up nor
\* has lost its place in the stream.
EveryMessageHandled ==
  \A k \in 1 .. MaxMessages :
    (/\ k <= Len(sent)
     /\ arrived >= EndOf(k)
     /\ \A i \in 1 .. k : i <= Len(sent) => Accepted(sent[i]))
      ~> handled >= k \/ pc \in {"ended", "lost"} \/ damaged

\* To the rest of the thread the stream is a queue of whole messages.
Queue == INSTANCE MessageQueue WITH
  queue <- SubSeq(sent, handled + 1, Len(sent)),
  delivered <- SubSeq(sent, 1, handled),
  status <- IF pc = "ended" THEN "ended"
            ELSE IF pc = "lost" \/ (damaged /\ pc = "test") THEN "broken"
            ELSE "open"

ImplementsQueue == Queue!Spec
=============================================================================
