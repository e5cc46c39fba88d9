-------------------------- MODULE PeerWireProofs --------------------------
(***************************************************************************)
(* Theorems about PeerWire: the reader keeps its place in the stream of    *)
(* bytes for every set of messages, every bound and every fault, and what  *)
(* it does is what a queue of whole messages allows.                       *)
(***************************************************************************)
EXTENDS PeerWire, SequenceTheorems, TLAPS

\* What was sent, and where each message ends in the stream.
Stream ==
  /\ sent \in Seq(Messages)
  /\ ends \in Seq(Nat)
  /\ Len(ends) = Len(sent)
  /\ \A k \in 1 .. Len(sent) :
       /\ EndOf(k) = EndOf(k - 1) + 4 + sent[k].len
       /\ EndOf(k - 1) + 4 + sent[k].len <= EndOf(Len(sent))
  /\ \A k \in 0 .. Len(sent) : EndOf(k) \in Nat

\* A field is being read, and is not all read.
InField ==
  pc = "recv" => /\ field \in 1 .. Len(FieldEnds(Current))
                 /\ got \in 0 .. FieldEnds(Current)[field] - 1

Types ==
  /\ arrived \in 0 .. EndOf(Len(sent))
  /\ link \in {"open", "closed"}
  /\ pc \in {"handshake", "test", "recv", "process", "ended", "lost"}
  /\ read \in 0 .. arrived
  /\ handled \in 0 .. Len(sent)
  /\ damaged \in BOOLEAN
  /\ InField

\* The place of the thread in the stream: as many bytes past the beginning of
\* a message as it has read of it, and fewer once it has given up a block.
At(place) ==
  /\ ~damaged => read = place
  /\ damaged => read < place

Place ==
  /\ pc = "handshake" => read < HANDSHAKE /\ handled = 0 /\ ~damaged
  /\ pc = "test" => At(EndOf(handled))
  /\ pc = "recv" => handled < Len(sent) /\ At(EndOf(handled) + got)
  /\ pc = "process" => /\ handled < Len(sent)
                       /\ Accepted(Current)
                       /\ At(EndOf(handled + 1))
  /\ pc = "lost" => damaged

\* A message is read when all of it has arrived but two bytes.
Arrived == pc = "recv" => arrived >= EndOf(handled + 1) - 2

IInv == Stream /\ Types /\ Place /\ Arrived

-----------------------------------------------------------------------------
(* The fields of a message. *)

\* The recvs of a message end one after the other and inside it, the last one,
\* when the message is accepted, where the message does; only a block that is
\* accepted has recvs whose failures are ignored.
LEMMA FieldsFit ==
  ASSUME NEW m \in Messages
  PROVE  /\ m.len \in Nat
         /\ FieldEnds(m) \in Seq(Nat)
         /\ Len(FieldEnds(m)) >= 1
         /\ \A i \in 1 .. Len(FieldEnds(m)) : FieldEnds(m)[i] > 0
         /\ \A i \in 1 .. Len(FieldEnds(m)) - 1 :
              FieldEnds(m)[i] < FieldEnds(m)[i + 1]
         /\ \A i \in 1 .. Len(FieldEnds(m)) : FieldEnds(m)[i] <= 4 + m.len
         /\ Accepted(m) => FieldEnds(m)[Len(FieldEnds(m))] = 4 + m.len
         /\ \A f \in 1 .. Len(FieldEnds(m)) : OfBlock(m, f) => Accepted(m)
<1> DEFINE F == FieldEnds(m)
<1>1. /\ m \in Message
      /\ WellFormed(m)
  BY WireAssumption
<1>2. /\ m.len \in Nat
      /\ m.mems \in Seq(Nat \ {0})
      /\ m.kind \in Kinds
  BY <1>1 DEF Message
<1>3. CASE m.len = 0
  <2>1. F = <<4>>
    BY <1>3 DEF FieldEnds
  <2> QED
    BY <1>1, <1>2, <1>3, <2>1 DEF OfBlock
<1>4. CASE m.len > 0 /\ (~Accepted(m) \/ m.len = 1)
  <2>1. F = <<4, 5>>
    BY <1>2, <1>4 DEF FieldEnds
  <2> QED
    BY <1>2, <1>4, <2>1 DEF OfBlock
<1>5. CASE m.len > 1 /\ Accepted(m) /\ m.kind # "PIECE"
  <2>1. F = <<4, 5, 4 + m.len>>
    BY <1>2, <1>5 DEF FieldEnds
  <2> QED
    BY <1>2, <1>5, <2>1 DEF OfBlock
<1>6. CASE m.len > 1 /\ Accepted(m) /\ m.kind = "PIECE"
  <2> DEFINE Block == [i \in 1 .. Len(m.mems) |-> 13 + m.mems[i]]
             Head4 == <<4, 5, 9, 13>>
  <2>1. F = Head4 \o Block
    BY <1>2, <1>6 DEF FieldEnds
  <2>2. /\ Len(m.mems) \in Nat
        /\ \A i \in 1 .. Len(m.mems) : m.mems[i] \in Nat \ {0}
    BY <1>2
  <2>3. /\ Block \in Seq(Nat)
        /\ Len(Block) = Len(m.mems)
        /\ \A i \in 1 .. Len(m.mems) : Block[i] = 13 + m.mems[i]
    BY <2>2
  <2>4. /\ Head4 \in Seq(Nat)
        /\ Len(Head4) = 4
        /\ Head4[1] = 4 /\ Head4[2] = 5 /\ Head4[3] = 9 /\ Head4[4] = 13
    OBVIOUS
  <2> HIDE DEF Block, Head4
  <2>5. /\ Head4 \o Block \in Seq(Nat)
        /\ Len(Head4 \o Block) = Len(Head4) + Len(Block)
        /\ \A i \in 1 .. Len(Head4) + Len(Block) : (Head4 \o Block)[i] =
             IF i <= Len(Head4) THEN Head4[i] ELSE Block[i - Len(Head4)]
    <3>1. Head4 \in Seq(Nat) /\ Block \in Seq(Nat)
      BY <2>3, <2>4
    <3> QED
      BY ONLY <3>1, ConcatProperties, Zenon
  <2> DEFINE n == Len(m.mems)
             e(j) == m.mems[j]
  <2>6. /\ n \in Nat /\ n >= 1
        /\ \A i, j \in 1 .. n : i < j => e(i) < e(j)
        /\ e(n) = m.len - 9
        /\ \A j \in 1 .. n : e(j) \in Nat \ {0}
    BY <1>1, <1>2, <1>6, <2>2, EmptySeq DEF WellFormed
  <2>7. /\ F \in Seq(Nat)
        /\ Len(F) = 4 + n
        /\ F[1] = 4 /\ F[2] = 5 /\ F[3] = 9 /\ F[4] = 13
        /\ \A j \in 1 .. n : F[4 + j] = 13 + e(j)
    <3>1. /\ Len(Head4) = 4 /\ Len(Block) = n
          /\ \A i \in 1 .. 4 + n : F[i] =
               IF i <= 4 THEN Head4[i] ELSE Block[i - 4]
      BY <2>1, <2>3, <2>4, <2>5
    <3>2. \A j \in 1 .. n : Block[j] = 13 + e(j)
      BY <2>3
    <3>3. F \in Seq(Nat) /\ Len(F) = 4 + n
      BY <2>1, <2>5, <3>1
    <3> HIDE DEF F, n, e
    <3>4. F[1] = 4 /\ F[2] = 5 /\ F[3] = 9 /\ F[4] = 13
      BY <2>4, <2>6, <3>1
    <3>5. \A j \in 1 .. n : F[4 + j] = 13 + e(j)
      BY <2>6, <3>1, <3>2
    <3> QED
      BY <3>3, <3>4, <3>5
  <2>8. OfBlock(m, 5) /\ Accepted(m)
    BY <1>6 DEF OfBlock
  <2> HIDE DEF F, n, e
  <2>9. \A i \in 1 .. Len(F) : i \in 1 .. 4 \/ \E j \in 1 .. n : i = 4 + j
    <3> SUFFICES ASSUME NEW i \in 1 .. Len(F), i > 4
                 PROVE  \E j \in 1 .. n : i = 4 + j
      BY <2>6, <2>7
    <3>1. i - 4 \in 1 .. n /\ i = 4 + (i - 4)
      BY <2>6, <2>7
    <3> QED
      BY <3>1
  <2>10. \A i \in 1 .. Len(F) : F[i] > 0
    <3> SUFFICES ASSUME NEW i \in 1 .. Len(F)
                 PROVE  F[i] > 0
      OBVIOUS
    <3>1. CASE i \in 1 .. 4
      <4>1. i = 1 \/ i = 2 \/ i = 3 \/ i = 4
        BY <3>1
      <4> QED
        BY <2>7, <4>1
    <3>2. CASE \E j \in 1 .. n : i = 4 + j
      <4>1. PICK j \in 1 .. n : i = 4 + j
        BY <3>2
      <4>2. e(j) \in Nat
        BY <2>6
      <4> QED
        BY <2>7, <4>1, <4>2
    <3> QED
      BY <2>9, <3>1, <3>2
  <2>11. \A i \in 1 .. Len(F) - 1 : F[i] < F[i + 1]
    <3> SUFFICES ASSUME NEW i \in 1 .. Len(F) - 1
                 PROVE  F[i] < F[i + 1]
      OBVIOUS
    <3>1. CASE i < 4
      <4>1. i = 1 \/ i = 2 \/ i = 3
        BY <2>6, <2>7, <3>1
      <4> QED
        BY <2>7, <4>1
    <3>2. CASE i = 4
      <4>1. F[4 + 1] = 13 + e(1) /\ e(1) > 0
        BY <2>6, <2>7
      <4> QED
        BY <2>6, <2>7, <3>2, <4>1
    <3>3. CASE i > 4
      <4>1. PICK j \in 1 .. n : i = 4 + j
        BY <2>6, <2>7, <2>9, <3>3
      <4>2. j + 1 \in 1 .. n /\ i + 1 = 4 + (j + 1)
        BY <2>6, <2>7, <4>1
      <4>3. F[i] = 13 + e(j) /\ F[i + 1] = 13 + e(j + 1)
        BY <2>7, <4>1, <4>2
      <4>4. e(j) < e(j + 1)
        BY <2>6, <4>2
      <4> QED
        BY <2>6, <4>2, <4>3, <4>4
    <3> QED
      BY <2>6, <2>7, <3>1, <3>2, <3>3
  <2>12. F[Len(F)] = 4 + m.len
    <3>1. F[Len(F)] = 13 + e(n)
      BY <2>6, <2>7
    <3> QED
      BY <1>2, <2>6, <3>1
  <2>13. Len(F) >= 1
    BY <2>6, <2>7
  <2>14. \A i \in 1 .. Len(F) : F[i] <= 4 + m.len
    <3> SUFFICES ASSUME NEW i \in 1 .. Len(F)
                 PROVE  F[i] <= 4 + m.len
      OBVIOUS
    <3>0. 13 + e(n) = 4 + m.len /\ e(n) \in Nat
      BY <1>2, <2>6
    <3>1. CASE i \in 1 .. 4
      <4>1. i = 1 \/ i = 2 \/ i = 3 \/ i = 4
        BY <3>1
      <4> QED
        <5>1. F[i] \in {4, 5, 9, 13}
          BY <2>7, <4>1
        <5> QED
          BY <3>0, <5>1
    <3>2. CASE \E j \in 1 .. n : i = 4 + j
      <4>1. PICK j \in 1 .. n : i = 4 + j
        BY <3>2
      <4>2. e(j) \in Nat /\ e(j) <= e(n)
        <5>1. CASE j = n
          BY <2>6, <5>1
        <5>2. CASE j < n
          <6>1. j \in 1 .. n /\ n \in 1 .. n
            BY <2>6
          <6>2. e(j) < e(n) /\ e(j) \in Nat
            BY <2>6, <5>2, <6>1
          <6> QED
            BY <3>0, <6>2
        <5> QED
          BY <2>6, <5>1, <5>2
      <4>3. F[i] = 13 + e(j)
        BY <2>7, <4>1
      <4> QED
        BY <3>0, <4>2, <4>3
    <3> QED
      BY <2>9, <3>1, <3>2
  <2> QED
    BY <1>2, <2>7, <2>8, <2>10, <2>11, <2>12, <2>13, <2>14 DEF F
<1> QED
  BY <1>2, <1>3, <1>4, <1>5, <1>6

\* The message that is read is one that was sent, and the next that ends.
LEMMA CurrentFits ==
  ASSUME Stream, handled \in Nat, handled < Len(sent)
  PROVE  /\ Current \in Messages
         /\ Current.len \in Nat
         /\ EndOf(handled) \in Nat
         /\ EndOf(handled + 1) = EndOf(handled) + 4 + Current.len
         /\ EndOf(handled + 1) <= EndOf(Len(sent))
         /\ EndOf(Len(sent)) \in Nat
<1>1. Len(sent) \in Nat
  BY DEF Stream
<1>2. handled + 1 \in 1 .. Len(sent) /\ handled \in 0 .. Len(sent)
  BY <1>1
<1>3. Current \in Messages
  BY <1>2 DEF Stream, Current
<1>4. /\ EndOf(handled + 1) = EndOf(handled + 1 - 1) + 4 + Current.len
      /\ EndOf(handled + 1) <= EndOf(Len(sent))
  BY <1>2 DEF Stream, Current
<1>5. handled + 1 - 1 = handled
  OBVIOUS
<1>6. EndOf(handled) \in Nat /\ EndOf(Len(sent)) \in Nat
  BY <1>1, <1>2 DEF Stream
<1> QED
  BY <1>3, <1>4, <1>5, <1>6, FieldsFit

\* When a field is done with, the thread is at the end of it: in front of the
\* next field, or, after the last field of a message that is accepted, at the
\* end of the message.
LEMMA AdvancesFits ==
  ASSUME IInv, pc = "recv", Advances,
         UNCHANGED <<sent, handled>>
  PROVE  /\ pc' \in {"recv", "process", "ended"}
         /\ got' = FieldEnds(Current)[field]
         /\ got' \in Nat /\ got < got'
         /\ pc' = "recv" =>
              /\ field' \in 1 .. Len(FieldEnds(Current)')
              /\ got' \in 0 .. (FieldEnds(Current)[field])' - 1
         /\ pc' = "process" => Accepted(Current) /\ got' = 4 + Current.len
         /\ OfBlock(Current, field) => pc' # "ended"
<1> DEFINE F == FieldEnds(Current)
<1>1. handled \in Nat /\ handled < Len(sent)
  BY DEF IInv, Types, InField, Place
<1>2. Current \in Messages
  BY <1>1, CurrentFits DEF IInv
<1>3. Current' = Current /\ F' = F
  BY DEF Current, FieldEnds, Accepted, valid_len, msg_length
<1>4. /\ Current.len \in Nat
      /\ F \in Seq(Nat)
      /\ Len(F) >= 1
      /\ \A i \in 1 .. Len(F) - 1 : F[i] < F[i + 1]
      /\ Accepted(Current) => F[Len(F)] = 4 + Current.len
      /\ \A f \in 1 .. Len(F) : OfBlock(Current, f) => Accepted(Current)
  BY <1>2, FieldsFit
<1>5. field \in 1 .. Len(F) /\ got \in 0 .. F[field] - 1
  BY DEF IInv, Types, InField
<1>6. /\ got' = F[field]
      /\ field' = field + 1
      /\ pc' = IF field < Len(F) THEN "recv"
               ELSE IF Accepted(Current) THEN "process" ELSE "ended"
  BY DEF Advances
<1>7. (FieldEnds(Current)[field])' = F[field']
  BY <1>3
<1>8. FieldEnds(Current)' = F
  BY <1>3
<1> HIDE DEF F
<1>9. Len(F) \in Nat /\ F[field] \in Nat
  BY <1>4, <1>5
<1>10. got' \in Nat /\ got < got'
  BY <1>5, <1>6, <1>9
<1>11. ASSUME field < Len(F)
       PROVE  field' \in 1 .. Len(F) /\ got' \in 0 .. F[field'] - 1
  <2>1. field \in 1 .. Len(F) - 1 /\ field + 1 \in 1 .. Len(F)
    BY <1>5, <1>9, <1>11
  <2>2. F[field] < F[field + 1] /\ F[field + 1] \in Nat
    BY <1>4, <2>1
  <2> QED
    BY <1>6, <1>9, <2>1, <2>2
<1>12. ASSUME ~(field < Len(F))
       PROVE  field = Len(F)
  BY <1>5, <1>9, <1>12
<1> QED
  BY <1>4, <1>5, <1>6, <1>7, <1>8, <1>10, <1>11, <1>12 DEF F

-----------------------------------------------------------------------------
(* The inductive invariant. *)

LEMMA InitIInv == Init => IInv
<1> SUFFICES ASSUME Init PROVE IInv
  OBVIOUS
<1>1. HANDSHAKE \in Nat \ {0}
  BY WireAssumption
<1>2. Stream
  BY <1>1 DEF Init, Stream, EndOf
<1>3. Types
  <2>1. Len(sent) = 0 /\ EndOf(Len(sent)) = HANDSHAKE
    BY DEF Init, EndOf
  <2> QED
    <3>1. /\ arrived = 0 /\ read = 0 /\ handled = 0
          /\ damaged \in BOOLEAN
          /\ link = "open" /\ pc = "handshake"
      BY DEF Init
    <3>2. arrived \in 0 .. EndOf(Len(sent)) /\ read \in 0 .. arrived
      BY <1>1, <2>1, <3>1
    <3>3. handled \in 0 .. Len(sent)
      BY <2>1, <3>1
    <3> QED
      BY <3>1, <3>2, <3>3 DEF Types, InField
<1>4. Place /\ Arrived
  BY <1>1 DEF Init, Place, Arrived
<1> QED
  BY <1>2, <1>3, <1>4 DEF IInv

\* What the reader does leaves what was sent as it is.
LEMMA StreamStays ==
  ASSUME IInv, UNCHANGED <<sent, ends>>
  PROVE  /\ Stream'
         /\ \A k : EndOf(k)' = EndOf(k)
         /\ UNCHANGED Len(sent)
BY DEF IInv, Stream, EndOf

\* The reader takes no byte that has not arrived, and leaves its place only by
\* as many bytes as it has read.
LEMMA ReaderKeepsIInv ==
  ASSUME IInv, ReaderRuns
  PROVE  IInv'
<1>1. UNCHANGED remote
  BY DEF ReaderRuns, recv_handshake, recv_some, handshake_fails, test,
         test_lost, recv_fails, process_msg
<1>2. /\ Stream'
      /\ \A k : EndOf(k)' = EndOf(k)
      /\ UNCHANGED <<sent, ends, arrived, link>>
  BY <1>1, StreamStays DEF remote
<1>3. /\ Len(sent) \in Nat
      /\ EndOf(Len(sent)) \in Nat
      /\ arrived \in 0 .. EndOf(Len(sent))
      /\ link \in {"open", "closed"}
      /\ read \in 0 .. arrived
      /\ handled \in 0 .. Len(sent)
      /\ damaged \in BOOLEAN
  <2>1. Len(sent) \in Nat
    BY DEF IInv, Stream
  <2> QED
    BY <2>1 DEF IInv, Types, InField, Stream
<1>4. ASSUME NEW n \in 1 .. Available, recv_handshake(n)
      PROVE  IInv'
  <2>1. /\ pc = "handshake"
        /\ read + n <= HANDSHAKE
        /\ read' = read + n
        /\ pc' = IF read' < HANDSHAKE THEN "handshake" ELSE "test"
        /\ UNCHANGED <<handled, damaged>>
    BY <1>4 DEF recv_handshake
  <2>2. handled = 0 /\ ~damaged
    BY <2>1 DEF IInv, Place
  <2>3. read' \in 0 .. arrived
    BY <1>3, <2>1 DEF Available
  <2>4. Types'
    BY <1>2, <1>3, <2>1, <2>3 DEF Types, InField
  <2>5. EndOf(handled)' = HANDSHAKE
    BY <2>1, <2>2 DEF EndOf
  <2>6. HANDSHAKE \in Nat
    BY WireAssumption
  <2>7. Place'
    BY <1>3, <2>1, <2>2, <2>3, <2>5, <2>6 DEF Place, At
  <2>8. Arrived'
    BY <2>1 DEF Arrived
  <2> QED
    BY <1>2, <2>4, <2>7, <2>8 DEF IInv
<1>5. ASSUME NEW n \in 1 .. Available, recv_some(n)
      PROVE  IInv'
  <2>1. /\ pc = "recv"
        /\ got + n <= FieldEnds(Current)[field]
        /\ read' = read + n
        /\ IF got + n = FieldEnds(Current)[field]
             THEN Advances
             ELSE got' = got + n /\ UNCHANGED <<pc, field>>
        /\ UNCHANGED <<handled, damaged>>
    BY <1>5 DEF recv_some
  <2>2. read' \in 0 .. arrived
    BY <1>3, <2>1 DEF Available
  <2>3. /\ handled < Len(sent)
        /\ handled \in Nat
        /\ At(EndOf(handled) + got)
        /\ arrived >= EndOf(handled + 1) - 2
    BY <1>3, <2>1 DEF IInv, Place, Arrived
  <2>4. /\ Current \in Messages
        /\ Current.len \in Nat
        /\ EndOf(handled) \in Nat
        /\ EndOf(handled + 1) = EndOf(handled) + 4 + Current.len
    BY <2>3, CurrentFits DEF IInv
  <2>5. /\ field \in 1 .. Len(FieldEnds(Current))
        /\ got \in 0 .. FieldEnds(Current)[field] - 1
    BY <2>1 DEF IInv, Types, InField
  <2>6. Current' = Current
    BY <1>2, <2>1 DEF Current
  <2>7. /\ EndOf(handled)' = EndOf(handled)
        /\ EndOf(handled + 1)' = EndOf(handled + 1)
    BY <1>2, <2>1 DEF EndOf
  <2>8. FieldEnds(Current)' = FieldEnds(Current)
    BY <2>6 DEF FieldEnds, Accepted, valid_len, msg_length
  <2>9. FieldEnds(Current)[field] \in Nat
    <3>1. FieldEnds(Current) \in Seq(Nat)
      BY <2>4, FieldsFit
    <3> QED
      BY <2>5, <3>1
  <2>10. Arrived'
    BY <1>2, <2>3, <2>7 DEF Arrived
  <2>11. /\ got' = got + n
         /\ got' \in Nat
         /\ pc' \in {"recv", "process", "ended"}
         /\ pc' = "recv" =>
              /\ field' \in 1 .. Len(FieldEnds(Current)')
              /\ got' \in 0 .. (FieldEnds(Current)[field])' - 1
         /\ pc' = "process" => Accepted(Current) /\ got' = 4 + Current.len
    <3>1. CASE got + n = FieldEnds(Current)[field]
      BY <1>2, <2>1, <3>1, AdvancesFits
    <3>2. CASE got + n # FieldEnds(Current)[field]
      <4>1. /\ got' = got + n
            /\ pc' = "recv"
            /\ field' = field
        BY <2>1, <3>2
      <4>2. (FieldEnds(Current)[field])' = FieldEnds(Current)[field]
        BY <2>8, <4>1
      <4>3. got + n \in 0 .. FieldEnds(Current)[field] - 1
        BY <2>1, <2>5, <2>9, <3>2
      <4> QED
        BY <2>5, <2>8, <4>1, <4>2, <4>3
    <3> QED
      BY <3>1, <3>2
  <2>12. Types'
    <3>1. InField'
      BY <2>11 DEF InField
    <3> QED
      BY <1>2, <1>3, <2>1, <2>2, <2>11, <3>1 DEF Types
  <2>13. /\ ~damaged => read' = EndOf(handled) + got'
         /\ damaged => read' < EndOf(handled) + got'
    <3>1. got \in Nat /\ n \in Nat /\ read \in Nat
      BY <1>3, <2>5, <2>9 DEF Available
    <3>2. read' = read + n /\ got' = got + n /\ EndOf(handled) \in Nat
      BY <2>1, <2>4, <2>11
    <3>3. /\ ~damaged => read = EndOf(handled) + got
          /\ damaged => read < EndOf(handled) + got
      BY <2>3 DEF At
    <3>4. CASE ~damaged
      BY <3>1, <3>2, <3>3, <3>4
    <3>5. CASE damaged
      BY <3>1, <3>2, <3>3, <3>5
    <3> QED
      BY <3>4, <3>5
  <2>14. Place'
    <3>1. pc' = "process" =>
            /\ ~damaged => read' = EndOf(handled + 1)
            /\ damaged => read' < EndOf(handled + 1)
      BY <2>4, <2>11, <2>13
    <3>2. Accepted(Current)' = Accepted(Current)
      BY <2>6 DEF Accepted, valid_len, msg_length
    <3> QED
      BY <1>2, <2>1, <2>3, <2>7, <2>11, <2>13, <3>1, <3>2 DEF Place, At
  <2> QED
    BY <1>2, <2>10, <2>12, <2>14 DEF IInv
<1>6. CASE recv_fails
  <2>1. /\ pc = "recv"
        /\ IF OfBlock(Current, field)
             THEN Advances /\ damaged' = TRUE
             ELSE pc' = "ended" /\ UNCHANGED <<field, got, damaged>>
        /\ UNCHANGED <<read, handled>>
    BY <1>6 DEF recv_fails
  <2>2. CASE ~OfBlock(Current, field)
    <3>1. pc' = "ended" /\ UNCHANGED <<read, handled, damaged>>
      BY <2>1, <2>2
    <3>2. Types'
      BY <1>2, <1>3, <3>1 DEF Types, InField
    <3> QED
      BY <1>2, <3>1, <3>2 DEF IInv, Place, Arrived
  <2>3. CASE OfBlock(Current, field)
    <3>1. Advances /\ damaged' /\ UNCHANGED <<read, handled>>
      BY <2>1, <2>3
    <3>2. /\ handled < Len(sent)
          /\ handled \in Nat
          /\ At(EndOf(handled) + got)
          /\ arrived >= EndOf(handled + 1) - 2
      BY <1>3, <2>1 DEF IInv, Place, Arrived
    <3>3. /\ Current.len \in Nat
          /\ EndOf(handled) \in Nat
          /\ EndOf(handled + 1) = EndOf(handled) + 4 + Current.len
      BY <3>2, CurrentFits DEF IInv
    <3>4. got \in Nat
      <4>1. /\ field \in 1 .. Len(FieldEnds(Current))
            /\ got \in 0 .. FieldEnds(Current)[field] - 1
        BY <2>1 DEF IInv, Types, InField
      <4> QED
        BY <4>1
    <3>5. /\ got' \in Nat /\ got < got'
          /\ pc' \in {"recv", "process"}
          /\ pc' = "recv" =>
               /\ field' \in 1 .. Len(FieldEnds(Current)')
               /\ got' \in 0 .. (FieldEnds(Current)[field])' - 1
          /\ pc' = "process" => Accepted(Current) /\ got' = 4 + Current.len
      BY <1>2, <2>1, <2>3, <3>1, AdvancesFits
    <3>6. Types'
      <4>1. InField'
        BY <3>5 DEF InField
      <4> QED
        BY <1>2, <1>3, <3>1, <3>5, <4>1 DEF Types
    <3>7. read' < EndOf(handled) + got'
      <4>1. read <= EndOf(handled) + got
        BY <1>3, <3>2, <3>3, <3>4 DEF At
      <4> QED
        BY <1>3, <3>1, <3>3, <3>4, <3>5, <4>1
    <3>8. /\ EndOf(handled)' = EndOf(handled)
          /\ EndOf(handled + 1)' = EndOf(handled + 1)
      BY <1>2, <3>1 DEF EndOf
    <3>9. Place'
      <4>1. pc' = "process" => read' < EndOf(handled + 1)
        BY <3>3, <3>5, <3>7
      <4>2. Accepted(Current)' = Accepted(Current)
        BY <1>2, <3>1 DEF Current, Accepted, valid_len, msg_length
      <4> QED
        BY <1>2, <3>1, <3>2, <3>5, <3>7, <3>8, <4>1, <4>2 DEF Place, At
    <3>10. Arrived'
      BY <1>2, <3>2, <3>8 DEF Arrived
    <3> QED
      BY <1>2, <3>6, <3>9, <3>10 DEF IInv
  <2> QED
    BY <2>2, <2>3
<1>7. CASE handshake_fails
  <2>1. pc' = "ended" /\ UNCHANGED <<read, handled, damaged>>
    BY <1>7 DEF handshake_fails
  <2>2. Types'
    BY <1>2, <1>3, <2>1 DEF Types, InField
  <2> QED
    BY <1>2, <2>1, <2>2 DEF IInv, Place, Arrived
<1>8. CASE test
  <2>1. /\ pc = "test"
        /\ read = EndOf(handled)
        /\ handled < Len(sent)
        /\ Available >= Current.len + 2
        /\ pc' = "recv" /\ field' = 1 /\ got' = 0
        /\ UNCHANGED <<read, handled, damaged>>
    BY <1>8 DEF test, peer_msg_buff_nonempty
  <2>2. /\ Current \in Messages
        /\ Current.len \in Nat
        /\ EndOf(handled) \in Nat
        /\ EndOf(handled + 1) = EndOf(handled) + 4 + Current.len
    BY <1>3, <2>1, CurrentFits DEF IInv
  <2>3. ~damaged
    BY <1>3, <2>1, <2>2 DEF IInv, Place, At
  <2>4. FieldEnds(Current)' = FieldEnds(Current)
    BY <1>2, <2>1 DEF Current, FieldEnds, Accepted, valid_len, msg_length
  <2>5. /\ FieldEnds(Current) \in Seq(Nat)
        /\ Len(FieldEnds(Current)) >= 1
        /\ FieldEnds(Current)[1] > 0
    BY <2>2, FieldsFit
  <2>6. 1 \in 1 .. Len(FieldEnds(Current)) /\ FieldEnds(Current)[1] \in Nat
    BY <2>5
  <2>7. (FieldEnds(Current)[field])' = FieldEnds(Current)[1]
    BY <2>1, <2>4
  <2>8. Types'
    <3>1. InField'
      BY <2>1, <2>4, <2>5, <2>6, <2>7 DEF InField
    <3> QED
      BY <1>2, <1>3, <2>1, <3>1 DEF Types
  <2>9. /\ EndOf(handled)' = EndOf(handled)
        /\ EndOf(handled + 1)' = EndOf(handled + 1)
    BY <1>2, <2>1 DEF EndOf
  <2>10. Place'
    BY <1>2, <2>1, <2>2, <2>3, <2>9 DEF Place, At
  <2>11. Arrived'
    <3>1. arrived \in Nat /\ arrived - EndOf(handled) >= Current.len + 2
      BY <1>3, <2>1 DEF Available
    <3>2. arrived >= EndOf(handled + 1) - 2
      BY <2>2, <3>1
    <3> QED
      BY <1>2, <2>9, <3>2 DEF Arrived
  <2> QED
    BY <1>2, <2>8, <2>10, <2>11 DEF IInv
<1>9. CASE test_lost
  <2>1. /\ pc = "test"
        /\ read # EndOf(handled)
        /\ pc' = "lost"
        /\ UNCHANGED <<read, handled, damaged>>
    BY <1>9 DEF test_lost
  <2>2. damaged
    BY <2>1 DEF IInv, Place, At
  <2>3. Types'
    BY <1>2, <1>3, <2>1 DEF Types, InField
  <2> QED
    BY <1>2, <2>1, <2>2, <2>3 DEF IInv, Place, Arrived
<1>10. CASE process_msg
  <2>1. /\ pc = "process"
        /\ handled' = handled + 1
        /\ pc' = "test"
        /\ UNCHANGED <<read, damaged>>
    BY <1>10 DEF process_msg
  <2>2. handled < Len(sent) /\ At(EndOf(handled + 1))
    BY <2>1 DEF IInv, Place
  <2>3. Types'
    BY <1>2, <1>3, <2>1, <2>2 DEF Types, InField
  <2>4. EndOf(handled)' = EndOf(handled + 1)
    BY <1>2, <2>1 DEF EndOf
  <2>5. Place'
    BY <2>1, <2>2, <2>4 DEF Place, At
  <2>6. Arrived'
    BY <2>1 DEF Arrived
  <2> QED
    BY <1>2, <2>3, <2>5, <2>6 DEF IInv
<1> QED
  BY <1>4, <1>5, <1>6, <1>7, <1>8, <1>9, <1>10 DEF ReaderRuns

\* Bytes that arrive, the end of the connection, and a step of nothing leave
\* the place of the thread as it is.
LEMMA NetworkKeepsIInv ==
  ASSUME IInv,
         UNCHANGED <<sent, ends, reader>>,
         arrived' \in arrived .. EndOf(Len(sent)),
         link' \in {"open", "closed"}
  PROVE  IInv'
<1>1. /\ Stream'
      /\ UNCHANGED <<sent, pc, read, field, got, handled, damaged>>
      /\ \A k : EndOf(k)' = EndOf(k)
  BY StreamStays DEF reader
<1>2. /\ Current' = Current
      /\ FieldEnds(Current)' = FieldEnds(Current)
      /\ (FieldEnds(Current)[field])' = FieldEnds(Current)[field]
      /\ Accepted(Current)' = Accepted(Current)
  BY <1>1 DEF Current, FieldEnds, Accepted, valid_len, msg_length
<1>3. Len(sent) \in Nat /\ EndOf(Len(sent)) \in Nat
  BY DEF IInv, Stream
<1>4. EndOf(Len(sent))' = EndOf(Len(sent))
  BY <1>1 DEF EndOf
<1>5. Types'
  BY <1>1, <1>2, <1>3, <1>4 DEF IInv, Types, InField
<1>6. /\ EndOf(handled)' = EndOf(handled)
      /\ EndOf(handled + 1)' = EndOf(handled + 1)
  BY <1>1 DEF EndOf
<1>7. Place'
  BY <1>1, <1>2, <1>6 DEF IInv, Place, At
<1>8. Arrived'
  <2>1. pc = "recv" => EndOf(handled + 1) \in Nat
    <3>1. pc = "recv" => handled < Len(sent)
      BY DEF IInv, Place
    <3>2. handled \in Nat /\ Stream
      BY <1>3 DEF IInv, Types
    <3> QED
      BY <1>3, <3>1, <3>2, CurrentFits
  <2>2. arrived \in Nat
    BY <1>3 DEF IInv, Types, InField
  <2> QED
    BY <1>1, <1>3, <1>6, <2>1, <2>2 DEF IInv, Arrived
<1> QED
  BY <1>1, <1>5, <1>7, <1>8 DEF IInv

\* One more message: those before it end where they did.
LEMMA SendsKeepsIInv ==
  ASSUME IInv, peer_sends
  PROVE  IInv'
<1>1. PICK m \in Messages :
        /\ sent' = Append(sent, m)
        /\ ends' = Append(ends, EndOf(Len(sent)) + 4 + m.len)
        /\ UNCHANGED <<arrived, link, pc, read, field, got, handled, damaged>>
  BY DEF peer_sends, reader
<1>a. Len(sent) \in Nat
  BY DEF IInv, Stream
<1>b. PICK N \in Nat : N = Len(sent)
  BY <1>a
<1> DEFINE end == EndOf(N) + 4 + m.len
<1>2. /\ sent \in Seq(Messages)
      /\ ends \in Seq(Nat)
      /\ Len(ends) = N
      /\ Len(sent) = N
      /\ EndOf(N) \in Nat
      /\ \A k \in 1 .. N : /\ EndOf(k) = EndOf(k - 1) + 4 + sent[k].len
                           /\ EndOf(k - 1) + 4 + sent[k].len <= EndOf(N)
      /\ \A k \in 0 .. N : EndOf(k) \in Nat
  BY <1>b DEF IInv, Stream
<1>3. m.len \in Nat /\ end \in Nat /\ EndOf(N) <= end
  BY <1>2, FieldsFit
<1> HIDE DEF end
<1>4. /\ sent' \in Seq(Messages)
      /\ Len(sent') = N + 1
      /\ \A k \in 1 .. N : sent'[k] = sent[k]
      /\ sent'[N + 1] = m
  <2>1. /\ Append(sent, m) \in Seq(Messages)
        /\ Len(Append(sent, m)) = Len(sent) + 1
        /\ \A i \in 1 .. Len(sent) : Append(sent, m)[i] = sent[i]
        /\ Append(sent, m)[Len(sent) + 1] = m
    BY <1>2, AppendProperties
  <2> QED
    BY <1>1, <1>2, <2>1
<1>5. /\ ends' \in Seq(Nat)
      /\ Len(ends') = N + 1
      /\ \A k \in 1 .. N : ends'[k] = ends[k]
      /\ ends'[N + 1] = end
  <2>1. ends' = Append(ends, end)
    BY <1>1, <1>2 DEF end
  <2>2. /\ Append(ends, end) \in Seq(Nat)
        /\ Len(Append(ends, end)) = Len(ends) + 1
        /\ \A i \in 1 .. Len(ends) : Append(ends, end)[i] = ends[i]
        /\ Append(ends, end)[Len(ends) + 1] = end
    BY <1>2, <1>3, AppendProperties
  <2> QED
    BY <1>2, <2>1, <2>2
<1>6. /\ \A k \in 0 .. N : EndOf(k)' = EndOf(k)
      /\ EndOf(N + 1)' = end
  <2>1. \A k \in 0 .. N : EndOf(k)' = EndOf(k)
    BY <1>2, <1>5 DEF EndOf
  <2>2. N + 1 # 0
    BY <1>2
  <2> QED
    BY <1>5, <2>1, <2>2 DEF EndOf
<1>7. Stream'
  <2>1. EndOf(Len(sent))' = end
    BY <1>4, <1>6 DEF EndOf
  <2>2. \A k \in 0 .. N + 1 : EndOf(k)' \in Nat
    <3> SUFFICES ASSUME NEW k \in 0 .. N + 1
                 PROVE  EndOf(k)' \in Nat
      OBVIOUS
    <3>1. k \in 0 .. N \/ k = N + 1
      BY <1>2
    <3> QED
      BY <1>2, <1>3, <1>6, <3>1
  <2>3. \A k \in 1 .. N + 1 :
          /\ EndOf(k)' = EndOf(k - 1)' + 4 + sent'[k].len
          /\ EndOf(k - 1)' + 4 + sent'[k].len <= end
    <3> SUFFICES ASSUME NEW k \in 1 .. N + 1
                 PROVE  /\ EndOf(k)' = EndOf(k - 1)' + 4 + sent'[k].len
                        /\ EndOf(k - 1)' + 4 + sent'[k].len <= end
      OBVIOUS
    <3>1. CASE k \in 1 .. N
      <4>1. k \in 0 .. N /\ k - 1 \in 0 .. N
        BY <1>2, <3>1
      <4>2. EndOf(k)' = EndOf(k) /\ EndOf(k - 1)' = EndOf(k - 1)
        BY <1>6, <4>1
      <4>3. sent'[k] = sent[k]
        BY <1>4, <3>1
      <4>4. /\ EndOf(k) = EndOf(k - 1) + 4 + sent[k].len
            /\ EndOf(k - 1) + 4 + sent[k].len <= EndOf(N)
            /\ EndOf(k) \in Nat
        BY <1>2, <3>1, <4>1
      <4> QED
        BY <1>2, <1>3, <4>2, <4>3, <4>4
    <3>2. CASE k = N + 1
      <4>1. EndOf(k)' = end
        BY <1>6, <3>2 DEF EndOf
      <4>2. EndOf(k - 1)' = EndOf(N)
        <5>1. k - 1 = N /\ N \in 0 .. N
          BY <1>2, <3>2
        <5>2. EndOf(k - 1)' = EndOf(k - 1)
          BY <1>6, <5>1
        <5> QED
          BY <5>1, <5>2
      <4> QED
        BY <1>3, <1>4, <3>2, <4>1, <4>2 DEF end
    <3> QED
      BY <1>2, <3>1, <3>2
  <2> QED
    BY <1>4, <1>5, <2>1, <2>2, <2>3 DEF Stream
<1>8. Types
  BY DEF IInv
<1>9. handled \in 0 .. N /\ handled \in Nat
  BY <1>2, <1>8 DEF Types, InField
<1>10. EndOf(handled)' = EndOf(handled)
  <2>1. EndOf(handled)' = (IF handled' = 0 THEN HANDSHAKE ELSE ends'[handled'])
    BY DEF EndOf
  <2> QED
    BY <1>1, <1>2, <1>5, <1>9, <2>1 DEF EndOf
<1>11. handled < N =>
         /\ Current' = Current
         /\ EndOf(handled + 1)' = EndOf(handled + 1)
  <2> SUFFICES ASSUME handled < N
               PROVE  /\ Current' = Current
                      /\ EndOf(handled + 1)' = EndOf(handled + 1)
    OBVIOUS
  <2>1. handled + 1 \in 1 .. N /\ handled + 1 # 0
    BY <1>2, <1>9
  <2>2. sent'[handled + 1] = sent[handled + 1]
    BY <1>4, <2>1
  <2>3. ends'[handled + 1] = ends[handled + 1]
    BY <1>5, <2>1
  <2> QED
    BY <1>1, <2>1, <2>2, <2>3 DEF Current, EndOf
<1>12. handled < N =>
         /\ FieldEnds(Current)' = FieldEnds(Current)
         /\ (FieldEnds(Current)[field])' = FieldEnds(Current)[field]
         /\ Accepted(Current)' = Accepted(Current)
  BY <1>1, <1>11 DEF FieldEnds, Accepted, valid_len, msg_length
<1>13. pc \in {"recv", "process"} => handled < N
  BY <1>2 DEF IInv, Place
<1>14. EndOf(Len(sent))' = end
  BY <1>4, <1>6 DEF EndOf
<1>15. arrived \in 0 .. end
  BY <1>2, <1>3, <1>8 DEF Types, InField
<1>16. Types'
  <2>1. InField'
    BY <1>1, <1>8, <1>12, <1>13 DEF Types, InField
  <2>2. handled' \in 0 .. Len(sent') /\ arrived' \in 0 .. EndOf(Len(sent))'
    BY <1>1, <1>2, <1>4, <1>9, <1>14, <1>15
  <2> QED
    BY <1>1, <1>8, <2>1, <2>2 DEF Types
<1>17. Place'
  BY <1>1, <1>2, <1>4, <1>9, <1>10, <1>11, <1>12, <1>13 DEF IInv, Place, At
<1>18. Arrived'
  BY <1>1, <1>11, <1>13 DEF IInv, Arrived
<1> QED
  BY <1>7, <1>16, <1>17, <1>18 DEF IInv

LEMMA NextIInv == IInv /\ [Next]_vars => IInv'
<1> SUFFICES ASSUME IInv, [Next]_vars PROVE IInv'
  OBVIOUS
<1>1. /\ Len(sent) \in Nat /\ EndOf(Len(sent)) \in Nat
      /\ arrived \in 0 .. EndOf(Len(sent))
      /\ link \in {"open", "closed"}
  BY DEF IInv, Stream, Types, InField
<1>2. CASE ReaderRuns
  BY <1>2, ReaderKeepsIInv
<1>3. CASE peer_sends
  BY <1>3, SendsKeepsIInv
<1>4. ASSUME NEW n \in 1 .. EndOf(Len(sent)) - arrived, bytes_arrive(n)
      PROVE  IInv'
  BY <1>1, <1>4, NetworkKeepsIInv DEF bytes_arrive
<1>5. CASE closes
  BY <1>1, <1>5, NetworkKeepsIInv DEF closes
<1>6. CASE UNCHANGED vars
  BY <1>1, <1>6, NetworkKeepsIInv DEF vars, remote
<1> QED
  BY <1>2, <1>3, <1>4, <1>5, <1>6 DEF Next

\* The strengthening of Position that every step keeps.
THEOREM AlwaysIInv == Spec => []IInv
<1>1. Init => IInv
  BY InitIInv
<1>2. IInv /\ [Next]_vars => IInv'
  BY NextIInv
<1> QED
  BY <1>1, <1>2, PTL DEF Spec

\* Whatever messages the remote peer sends, and wherever the network cuts the
\* bytes, the thread looks for a message at the beginning of one and gives
\* process_msg one that ends where the thread stands, unless it has given up a
\* block; and it waits inside a message for the last two bytes of it at most
\* (peer_msg_buff_nonempty, peer_msg_recv).
THEOREM KeepsItsPlace == Spec => []Position
<1>1. IInv => Position
  <2> SUFFICES ASSUME IInv PROVE Position
    OBVIOUS
  <2>1. TypeOK
    BY DEF IInv, Stream, Types, InField, TypeOK
  <2>2. InStep
    BY DEF IInv, Place, At, InStep
  <2>3. WaitsForTwo
    BY DEF IInv, Arrived, WaitsForTwo
  <2> QED
    BY <2>1, <2>2, <2>3 DEF Position
<1> QED
  BY <1>1, AlwaysIInv, PTL

-----------------------------------------------------------------------------
(* The stream is a queue of whole messages. *)

\* What a message more does to the sequences that have and have not been
\* delivered.
LEMMA QueueGrows ==
  ASSUME NEW S, NEW s \in Seq(S), NEW e \in S, NEW h \in 0 .. Len(s)
  PROVE  /\ SubSeq(Append(s, e), h + 1, Len(Append(s, e)))
              = Append(SubSeq(s, h + 1, Len(s)), e)
         /\ SubSeq(Append(s, e), 1, h) = SubSeq(s, 1, h)
<1> DEFINE t == Append(s, e)
           n == Len(s)
           old == SubSeq(s, h + 1, n)
           new == SubSeq(t, h + 1, n + 1)
<1>1. /\ n \in Nat
      /\ h \in Nat /\ h <= n
      /\ \A i \in 1 .. n : s[i] \in S
  BY ElementOfSeq, LenProperties
<1>2. /\ t \in Seq(S)
      /\ Len(t) = n + 1
      /\ \A i \in 1 .. n : t[i] = s[i]
      /\ t[n + 1] = e
  BY AppendProperties
<1> HIDE DEF t, n
<1>3. /\ old \in Seq(S)
      /\ Len(old) = n - h
      /\ \A i \in 1 .. n - h : old[i] = s[h + i]
  <2>1. \A i \in h + 1 .. n : s[i] \in S
    BY <1>1
  <2>2. /\ old \in Seq(S)
        /\ Len(old) = IF h + 1 <= n THEN n - (h + 1) + 1 ELSE 0
        /\ \A i \in 1 .. n - (h + 1) + 1 : old[i] = s[h + 1 + i - 1]
    BY <1>1, <2>1, SubSeqProperties
  <2> HIDE DEF old
  <2>3. \A i \in 1 .. n - h : i \in 1 .. n - (h + 1) + 1 /\ h + 1 + i - 1 = h + i
    BY <1>1
  <2> QED
    BY <1>1, <2>2, <2>3
<1>4. /\ new \in Seq(S)
      /\ Len(new) = n + 1 - h
      /\ \A i \in 1 .. n + 1 - h : new[i] = t[h + i]
  <2>1. \A i \in h + 1 .. n + 1 : t[i] \in S
    BY <1>1, <1>2, ElementOfSeq
  <2>2. /\ new \in Seq(S)
        /\ Len(new) = IF h + 1 <= n + 1 THEN n + 1 - (h + 1) + 1 ELSE 0
        /\ \A i \in 1 .. n + 1 - (h + 1) + 1 : new[i] = t[h + 1 + i - 1]
    BY <1>1, <2>1, SubSeqProperties
  <2> HIDE DEF new
  <2>3. \A i \in 1 .. n + 1 - h :
          i \in 1 .. n + 1 - (h + 1) + 1 /\ h + 1 + i - 1 = h + i
    BY <1>1
  <2> QED
    BY <1>1, <2>2, <2>3
<1> HIDE DEF old, new
<1>5. /\ Append(old, e) \in Seq(S)
      /\ Len(Append(old, e)) = n - h + 1
      /\ \A i \in 1 .. n - h : Append(old, e)[i] = old[i]
      /\ Append(old, e)[n - h + 1] = e
  BY <1>3, AppendProperties
<1>6. ASSUME NEW i \in 1 .. n + 1 - h
      PROVE  new[i] = Append(old, e)[i]
  <2>1. CASE i \in 1 .. n - h
    <3>1. h + i \in 1 .. n
      BY <1>1, <2>1
    <3> QED
      BY <1>2, <1>3, <1>4, <1>5, <2>1, <3>1
  <2>2. CASE i = n - h + 1
    <3>1. h + i = n + 1
      BY <1>1, <2>2
    <3> QED
      BY <1>2, <1>4, <1>5, <2>2, <3>1
  <2>3. i \in 1 .. n - h \/ i = n - h + 1
    BY <1>1
  <2> QED
    BY <2>1, <2>2, <2>3
<1>7. new = Append(old, e)
  <2>1. Len(new) = Len(Append(old, e)) /\ Len(new) = n + 1 - h
    BY <1>1, <1>4, <1>5
  <2> QED
    BY <1>4, <1>5, <1>6, <2>1, SeqEqual
<1>8. SubSeq(t, 1, h) = SubSeq(s, 1, h)
  <2>1. \A i \in 1 .. h : t[i] = s[i] /\ s[i] \in S
    BY <1>1, <1>2
  <2>2. /\ SubSeq(t, 1, h) \in Seq(S)
        /\ Len(SubSeq(t, 1, h)) = IF 1 <= h THEN h - 1 + 1 ELSE 0
        /\ \A i \in 1 .. h - 1 + 1 : SubSeq(t, 1, h)[i] = t[1 + i - 1]
    BY <1>1, <2>1, SubSeqProperties
  <2>3. /\ SubSeq(s, 1, h) \in Seq(S)
        /\ Len(SubSeq(s, 1, h)) = IF 1 <= h THEN h - 1 + 1 ELSE 0
        /\ \A i \in 1 .. h - 1 + 1 : SubSeq(s, 1, h)[i] = s[1 + i - 1]
    BY <1>1, <2>1, SubSeqProperties
  <2> DEFINE u == SubSeq(t, 1, h)
             v == SubSeq(s, 1, h)
  <2>4. /\ u \in Seq(S) /\ v \in Seq(S)
        /\ Len(u) = h /\ Len(v) = h
    BY <1>1, <2>2, <2>3
  <2>5. ASSUME NEW i \in 1 .. h
        PROVE  u[i] = v[i]
    <3>1. i \in 1 .. h - 1 + 1 /\ 1 + i - 1 = i
      BY <1>1
    <3> QED
      BY <2>1, <2>2, <2>3, <3>1
  <2> HIDE DEF u, v
  <2>6. u = v
    BY <2>4, <2>5, SeqEqual
  <2> QED
    BY <2>6 DEF u, v
<1> QED
  BY <1>2, <1>7, <1>8 DEF t, n, old, new

\* What process_msg does to them.
LEMMA QueueMoves ==
  ASSUME NEW S, NEW s \in Seq(S), NEW h \in Nat, h < Len(s)
  PROVE  /\ SubSeq(s, h + 1, Len(s)) # <<>>
         /\ Head(SubSeq(s, h + 1, Len(s))) = s[h + 1]
         /\ Tail(SubSeq(s, h + 1, Len(s))) = SubSeq(s, h + 1 + 1, Len(s))
         /\ SubSeq(s, 1, h + 1) = Append(SubSeq(s, 1, h), s[h + 1])
<1> DEFINE n == Len(s)
<1>1. /\ n \in Nat
      /\ h + 1 \in 1 .. n
      /\ n \in h + 1 .. n
      /\ 1 \in 1 .. n /\ h + 1 \in 1 .. n
      /\ h + 1 - 1 = h
      /\ \A i \in 1 .. n : s[i] \in S
  BY ElementOfSeq, LenProperties
<1> HIDE DEF n
<1>2. /\ Head(SubSeq(s, h + 1, n)) = s[h + 1]
      /\ Tail(SubSeq(s, h + 1, n)) = SubSeq(s, h + 1 + 1, n)
  BY <1>1, HeadTailOfSubSeq DEF n
<1>3. SubSeq(s, h + 1, n) # <<>>
  <2>1. \A i \in h + 1 .. n : s[i] \in S
    BY <1>1
  <2>2. Len(SubSeq(s, h + 1, n)) = IF h + 1 <= n THEN n - (h + 1) + 1 ELSE 0
    BY <1>1, <2>1, SubSeqProperties
  <2>3. Len(SubSeq(s, h + 1, n)) # 0
    BY <1>1, <2>2
  <2> QED
    BY <2>3, EmptySeq
<1>4. SubSeq(s, 1, h + 1) = SubSeq(s, 1, h) \o <<s[h + 1]>>
  <2>1. SubSeq(s, 1, h + 1) = SubSeq(s, 1, h + 1 - 1) \o <<s[h + 1]>>
    BY <1>1, SubSeqRecursiveSecond DEF n
  <2> QED
    BY <1>1, <2>1
<1>5. SubSeq(s, 1, h) \in Seq(S) /\ s[h + 1] \in S
  <2>1. \A i \in 1 .. h : s[i] \in S
    BY <1>1
  <2> QED
    BY <1>1, <2>1, SubSeqProperties
<1>6. Append(SubSeq(s, 1, h), s[h + 1]) = SubSeq(s, 1, h) \o <<s[h + 1]>>
  BY <1>5, AppendIsConcat
<1> QED
  BY <1>2, <1>3, <1>4, <1>6 DEF n

\* The state of the queue.
queue == SubSeq(sent, handled + 1, Len(sent))
delivered == SubSeq(sent, 1, handled)
status ==
  IF pc = "ended" THEN "ended"
  ELSE IF pc = "lost" \/ (damaged /\ pc = "test") THEN "broken"
  ELSE "open"

\* A step of the thread that handles no message is none of the queue, or the
\* end of it.
LEMMA NoDelivery ==
  ASSUME UNCHANGED <<sent, handled>>,
         status' = status \/ (status # "ended" /\ status' = "ended")
  PROVE  [Queue!Next]_(Queue!vars)
<1>1. queue' = queue /\ delivered' = delivered
  BY DEF queue, delivered
<1> QED
  BY <1>1 DEF Queue!Next, Queue!End, Queue!vars, queue, delivered, status

LEMMA NextIsOfTheQueue ==
  ASSUME IInv, [Next]_vars
  PROVE  [Queue!Next]_(Queue!vars)
<1>1. /\ sent \in Seq(Messages)
      /\ Len(sent) \in Nat
      /\ handled \in 0 .. Len(sent)
      /\ damaged \in BOOLEAN
  <2>1. sent \in Seq(Messages) /\ Len(sent) \in Nat
    BY DEF IInv, Stream
  <2> QED
    BY <2>1 DEF IInv, Types, InField
<1>2. CASE peer_sends
  <2>1. PICK m \in Messages : sent' = Append(sent, m)
    BY <1>2 DEF peer_sends
  <2>2. UNCHANGED <<handled, pc, damaged>>
    BY <1>2 DEF peer_sends, reader
  <2>3. queue' = Append(queue, m) /\ delivered' = delivered
    BY <1>1, <2>1, <2>2, QueueGrows DEF queue, delivered
  <2>4. status' = status
    BY <2>2 DEF status
  <2> QED
    BY <2>3, <2>4 DEF Queue!Next, Queue!Send, queue, delivered, status
<1>3. CASE process_msg
  <2>1. /\ pc = "process" /\ pc' = "test"
        /\ handled' = handled + 1
        /\ UNCHANGED <<sent, damaged>>
    BY <1>3 DEF process_msg, remote
  <2>2. handled \in Nat /\ handled < Len(sent)
    BY <1>1, <2>1 DEF IInv, Place
  <2>3. /\ queue # <<>>
        /\ queue' = Tail(queue)
        /\ delivered' = Append(delivered, Head(queue))
    BY <1>1, <2>1, <2>2, QueueMoves DEF queue, delivered
  <2>4. status = "open" /\ status' \in {"open", "broken"}
    BY <2>1 DEF status
  <2> QED
    BY <2>3, <2>4 DEF Queue!Next, Queue!Deliver, queue, delivered, status
<1>4. ASSUME NEW n \in 1 .. Available, recv_handshake(n)
      PROVE  [Queue!Next]_(Queue!vars)
  <2>1. /\ pc = "handshake"
        /\ pc' \in {"handshake", "test"}
        /\ UNCHANGED <<sent, handled, damaged>>
    BY <1>4 DEF recv_handshake, remote
  <2>2. ~damaged
    BY <2>1 DEF IInv, Place
  <2>3. status = "open" /\ status' = "open"
    BY <2>1, <2>2 DEF status
  <2> QED
    BY <2>1, <2>3, NoDelivery
<1>5. ASSUME NEW n \in 1 .. Available, recv_some(n)
      PROVE  [Queue!Next]_(Queue!vars)
  <2>1. /\ pc = "recv"
        /\ Advances \/ pc' = pc
        /\ UNCHANGED <<sent, handled>>
    BY <1>5 DEF recv_some, remote
  <2>2. pc' \in {"recv", "process", "ended"}
    BY <2>1, AdvancesFits
  <2>3. status = "open" /\ status' \in {"open", "ended"}
    BY <2>1, <2>2 DEF status
  <2> QED
    BY <2>1, <2>3, NoDelivery
<1>6. CASE recv_fails
  <2>1. /\ pc = "recv"
        /\ Advances \/ pc' = "ended"
        /\ UNCHANGED <<sent, handled>>
    BY <1>6 DEF recv_fails, remote
  <2>2. pc' \in {"recv", "process", "ended"}
    BY <2>1, AdvancesFits
  <2>3. status = "open" /\ status' \in {"open", "ended"}
    BY <2>1, <2>2 DEF status
  <2> QED
    BY <2>1, <2>3, NoDelivery
<1>7. CASE handshake_fails
  <2>1. /\ pc = "handshake" /\ pc' = "ended"
        /\ UNCHANGED <<sent, handled>>
    BY <1>7 DEF handshake_fails, remote
  <2>2. status = "open" /\ status' = "ended"
    BY <2>1 DEF status
  <2> QED
    BY <2>1, <2>2, NoDelivery
<1>8. CASE test
  <2>1. /\ pc = "test" /\ pc' = "recv"
        /\ read = EndOf(handled)
        /\ UNCHANGED <<sent, handled, damaged>>
    BY <1>8 DEF test, remote
  <2>2. EndOf(handled) \in Nat
    BY <1>1 DEF IInv, Stream
  <2>3. ~damaged
    BY <1>1, <2>1, <2>2 DEF IInv, Place, At
  <2>4. status = "open" /\ status' = "open"
    BY <2>1, <2>3 DEF status
  <2> QED
    BY <2>1, <2>4, NoDelivery
<1>9. CASE test_lost
  <2>1. /\ pc = "test" /\ pc' = "lost"
        /\ read # EndOf(handled)
        /\ UNCHANGED <<sent, handled>>
    BY <1>9 DEF test_lost, remote
  <2>2. damaged
    BY <1>1, <2>1 DEF IInv, Place, At
  <2>3. status = "broken" /\ status' = "broken"
    BY <2>1, <2>2 DEF status
  <2> QED
    BY <2>1, <2>3, NoDelivery
<1>10. ASSUME UNCHANGED <<sent, reader>>
       PROVE  [Queue!Next]_(Queue!vars)
  <2>1. UNCHANGED <<sent, handled>> /\ status' = status
    BY <1>10 DEF reader, status
  <2> QED
    BY <2>1, NoDelivery
<1>11. CASE closes \/ UNCHANGED vars
  BY <1>10, <1>11 DEF closes, vars, remote
<1>12. ASSUME NEW n \in 1 .. EndOf(Len(sent)) - arrived, bytes_arrive(n)
       PROVE  [Queue!Next]_(Queue!vars)
  BY <1>10, <1>12 DEF bytes_arrive
<1> QED
  BY <1>2, <1>3, <1>4, <1>5, <1>6, <1>7, <1>8, <1>9, <1>11, <1>12
     DEF Next, ReaderRuns

\* To the rest of the thread the stream is a queue: process_msg gets what the
\* remote peer sent, whole, once each and in order, until the thread ends or
\* has given up a block, for every set of messages and every way in which the
\* network cuts, delays or ends the bytes.
THEOREM ReadsAsAQueue == Spec => ImplementsQueue
<1>1. Init => Queue!Init
  <2> SUFFICES ASSUME Init PROVE Queue!Init
    OBVIOUS
  <2>1. sent = <<>> /\ handled = 0 /\ pc = "handshake" /\ damaged = FALSE
    BY DEF Init
  <2>2. Len(sent) = 0
    BY <2>1
  <2>3. queue = <<>> /\ delivered = <<>>
    BY <2>1, <2>2, SubSeqEmpty DEF queue, delivered
  <2>4. status = "open"
    BY <2>1 DEF status
  <2> QED
    BY <2>3, <2>4 DEF Queue!Init, queue, delivered, status
<1>2. IInv /\ [Next]_vars => [Queue!Next]_(Queue!vars)
  BY NextIsOfTheQueue
<1> QED
  BY <1>1, <1>2, AlwaysIInv, PTL DEF Spec, ImplementsQueue, Queue!Spec

-----------------------------------------------------------------------------
(* A message that has arrived is read.                                     *)

\* The next message has arrived whole, and the thread stands in it.
Whole == handled < Len(sent) /\ arrived >= EndOf(handled + 1) /\ ~damaged

\* The thread is not held up.
Runs ==
  \/ pc = "handshake" /\ Available > 0
  \/ pc = "test" /\ read = EndOf(handled) /\ peer_msg_buff_nonempty
  \/ pc = "recv" /\ Available > 0
  \/ pc = "process"

\* Steps that the thread still takes for that message at most.
StepsLeft ==
  2 * (EndOf(handled + 1) - read)
  + CASE pc \in {"handshake", "test"} -> 2
      [] pc = "recv" -> 1
      [] pc = "process" -> 0

\* The thread is in front of the end of a message that has arrived.
LEMMA WholeFacts ==
  ASSUME IInv, Whole
  PROVE  /\ Current \in Messages /\ Current.len \in Nat
         /\ handled \in Nat /\ read \in Nat /\ arrived \in Nat
         /\ EndOf(handled) \in Nat
         /\ EndOf(handled + 1) = EndOf(handled) + 4 + Current.len
         /\ EndOf(handled + 1) <= arrived
         /\ pc = "handshake" => read < HANDSHAKE /\ EndOf(handled) = HANDSHAKE
         /\ pc = "test" => read = EndOf(handled)
         /\ pc = "recv" =>
              /\ field \in 1 .. Len(FieldEnds(Current))
              /\ FieldEnds(Current)[field] \in Nat
              /\ FieldEnds(Current)[field] <= 4 + Current.len
              /\ got \in 0 .. FieldEnds(Current)[field] - 1
              /\ read = EndOf(handled) + got
         /\ pc = "process" => read = EndOf(handled + 1)
         /\ pc # "lost"
<1>1. /\ handled \in Nat /\ handled < Len(sent)
      /\ arrived \in 0 .. EndOf(Len(sent)) /\ read \in 0 .. arrived
  BY DEF IInv, Types, Whole
<1>2. /\ Current \in Messages /\ Current.len \in Nat
      /\ EndOf(handled) \in Nat /\ EndOf(Len(sent)) \in Nat
      /\ EndOf(handled + 1) = EndOf(handled) + 4 + Current.len
  BY <1>1, CurrentFits DEF IInv
<1>3. arrived \in Nat /\ read \in Nat
  BY <1>1, <1>2
<1>4. /\ pc = "handshake" => read < HANDSHAKE /\ handled = 0
      /\ pc = "test" => read = EndOf(handled)
      /\ pc = "recv" => read = EndOf(handled) + got
      /\ pc = "process" => read = EndOf(handled + 1)
      /\ pc # "lost"
  BY DEF IInv, Place, At, Whole
<1>5. ASSUME pc = "recv"
      PROVE  /\ field \in 1 .. Len(FieldEnds(Current))
             /\ FieldEnds(Current)[field] \in Nat
             /\ FieldEnds(Current)[field] <= 4 + Current.len
             /\ got \in 0 .. FieldEnds(Current)[field] - 1
  <2>1. /\ field \in 1 .. Len(FieldEnds(Current))
        /\ got \in 0 .. FieldEnds(Current)[field] - 1
    BY <1>5 DEF IInv, Types, InField
  <2>2. /\ FieldEnds(Current) \in Seq(Nat)
        /\ FieldEnds(Current)[field] <= 4 + Current.len
    BY <1>2, <2>1, FieldsFit
  <2> QED
    BY <2>1, <2>2
<1>6. handled = 0 => EndOf(handled) = HANDSHAKE
  BY DEF EndOf
<1> QED
  BY <1>1, <1>2, <1>3, <1>4, <1>5, <1>6 DEF Whole

LEMMA WholeRuns ==
  ASSUME IInv, Whole, pc # "ended"
  PROVE  Runs /\ StepsLeft \in Nat
<1>1. pc \in {"handshake", "test", "recv", "process"}
  BY WholeFacts DEF IInv, Types
<1>2. HANDSHAKE \in Nat
  BY WireAssumption
<1>3. CASE pc = "handshake"
  <2>1. /\ read \in Nat /\ arrived \in Nat /\ EndOf(handled + 1) \in Nat
        /\ read < EndOf(handled) /\ EndOf(handled) < EndOf(handled + 1)
        /\ EndOf(handled + 1) <= arrived /\ EndOf(handled) \in Nat
    BY <1>2, <1>3, WholeFacts
  <2>2. Available > 0
    BY <2>1 DEF Available
  <2>3. StepsLeft = 2 * (EndOf(handled + 1) - read) + 2
    BY <1>3 DEF StepsLeft
  <2> QED
    BY <1>3, <2>1, <2>2, <2>3 DEF Runs
<1>4. CASE pc = "test"
  <2>1. /\ read \in Nat /\ arrived \in Nat /\ EndOf(handled + 1) \in Nat
        /\ Current.len \in Nat /\ EndOf(handled) \in Nat
        /\ EndOf(handled + 1) = EndOf(handled) + 4 + Current.len
        /\ read = EndOf(handled) /\ EndOf(handled + 1) <= arrived
    BY <1>4, WholeFacts
  <2>2. peer_msg_buff_nonempty
    <3>1. Available = arrived - read /\ arrived - read >= 4 + Current.len
      BY <2>1 DEF Available
    <3> QED
      BY <2>1, <3>1 DEF peer_msg_buff_nonempty
  <2>3. StepsLeft = 2 * (EndOf(handled + 1) - read) + 2
    BY <1>4 DEF StepsLeft
  <2>4. StepsLeft \in Nat
    BY <2>1, <2>3
  <2>5. Runs
    BY <1>4, <2>1, <2>2 DEF Runs
  <2> QED
    BY <2>4, <2>5
<1>5. CASE pc = "recv"
  <2>1. /\ read \in Nat /\ arrived \in Nat /\ EndOf(handled + 1) \in Nat
        /\ read < EndOf(handled + 1) /\ EndOf(handled + 1) <= arrived
    <3>1. /\ read = EndOf(handled) + got
          /\ got \in 0 .. FieldEnds(Current)[field] - 1
          /\ FieldEnds(Current)[field] \in Nat
          /\ FieldEnds(Current)[field] <= 4 + Current.len
      BY <1>5, WholeFacts
    <3>2. /\ Current.len \in Nat /\ EndOf(handled) \in Nat
          /\ EndOf(handled + 1) = EndOf(handled) + 4 + Current.len
          /\ arrived \in Nat /\ EndOf(handled + 1) <= arrived
      BY WholeFacts
    <3> QED
      BY <3>1, <3>2
  <2>2. Available > 0
    BY <2>1 DEF Available
  <2>3. StepsLeft = 2 * (EndOf(handled + 1) - read) + 1
    BY <1>5 DEF StepsLeft
  <2> QED
    BY <1>5, <2>1, <2>2, <2>3 DEF Runs
<1>6. CASE pc = "process"
  BY <1>6, WholeFacts DEF Runs, StepsLeft
<1> QED
  BY <1>1, <1>3, <1>4, <1>5, <1>6

\* The end of the message is where it was.
LEMMA WholeStays ==
  ASSUME IInv, Whole, UNCHANGED <<sent, ends, handled>>
  PROVE  /\ EndOf(handled + 1)' = EndOf(handled + 1)
         /\ EndOf(handled)' = EndOf(handled)
         /\ Current' = Current
BY DEF EndOf, Current

\* A step of the thread brings it nearer to the end of the message.
LEMMA WholeStep ==
  ASSUME IInv, IInv', Whole, Accepted(Current), ReaderRuns, pc # "handshake"
  PROVE  /\ pc' \notin {"ended", "lost"} /\ damaged' = FALSE
         /\ handled' = handled + 1 \/ (handled' = handled /\ StepsLeft' < StepsLeft)
<1>0. UNCHANGED remote
  BY DEF ReaderRuns, recv_handshake, recv_some, handshake_fails, test,
         test_lost, recv_fails, process_msg
<1>1. ~damaged
  BY DEF Whole
<1>2. ASSUME NEW k \in 1 .. Available, recv_some(k)
      PROVE  /\ pc' \notin {"ended", "lost"} /\ damaged' = FALSE
             /\ handled' = handled /\ StepsLeft' < StepsLeft
  <2>1. /\ pc = "recv" /\ read' = read + k /\ damaged' = FALSE
        /\ UNCHANGED <<remote, handled>>
    BY <1>1, <1>2 DEF recv_some
  <2>2. pc' \in {"recv", "process"}
    <3>1. CASE Advances
      <4>1. pc' \in {"recv", "process"} \/ field >= Len(FieldEnds(Current))
        BY <3>1 DEF Advances
      <4> QED
        BY <3>1 DEF Advances
    <3>2. CASE ~Advances
      BY <1>2, <2>1, <3>2 DEF recv_some
    <3> QED
      BY <3>1, <3>2
  <2>3. EndOf(handled + 1)' = EndOf(handled + 1)
    BY <2>1, WholeStays DEF remote
  <2>4. /\ read \in Nat /\ k \in Nat \ {0} /\ EndOf(handled + 1) \in Nat
    BY <1>2, WholeFacts DEF Available
  <2> QED
    BY <2>1, <2>2, <2>3, <2>4 DEF StepsLeft
<1>3. CASE test
  <2>1. /\ pc = "test" /\ pc' = "recv" /\ read' = read /\ damaged' = FALSE
        /\ UNCHANGED <<remote, handled>>
    BY <1>1, <1>3 DEF test
  <2>2. EndOf(handled + 1)' = EndOf(handled + 1)
    BY <2>1, WholeStays DEF remote
  <2>3. read \in Nat /\ EndOf(handled + 1) \in Nat
    BY WholeFacts
  <2> QED
    BY <2>1, <2>2, <2>3 DEF StepsLeft
<1>4. CASE process_msg
  BY <1>1, <1>4 DEF process_msg
<1>5. ~test_lost
  BY WholeFacts DEF test_lost
<1>6. ~recv_fails
  <2>1. pc = "recv" => Available > 0
    BY WholeRuns DEF Runs
  <2> QED
    BY <2>1 DEF recv_fails
<1>7. ~handshake_fails /\ \A k \in 1 .. Available : ~recv_handshake(k)
  BY DEF handshake_fails, recv_handshake
<1> QED
  BY <1>2, <1>3, <1>4, <1>5, <1>6, <1>7 DEF ReaderRuns

\* What no step does to a message that has arrived, once the handshakes have
\* been exchanged.
Kept ==
  Whole /\ Accepted(Current) /\ pc \notin {"handshake", "ended"} =>
    /\ pc' \notin {"ended", "lost"}
    /\ \/ handled' = handled + 1
       \/ Whole' /\ (Accepted(Current))' /\ StepsLeft' <= StepsLeft
    /\ ReaderRuns => handled' = handled + 1 \/ StepsLeft' < StepsLeft

\* A message that has arrived whole is handled after finitely many steps of
\* the thread.  Until then the thread is never held up, waiting for a byte, and
\* every step it takes comes nearer to the end of the message; and once the
\* handshakes are through nothing takes an acceptable message away: neither a
\* timeout nor the end of the connection reaches the thread before it has
\* handled what has arrived (peer_msg_buff_nonempty, peer_msg_recv).
THEOREM WholeMessagesAreRead ==
  Spec => /\ [](Whole /\ pc # "ended" => Runs /\ StepsLeft \in Nat)
          /\ [][Kept]_vars
<1>1. IInv => (Whole /\ pc # "ended" => Runs /\ StepsLeft \in Nat)
  BY WholeRuns
<1>2. ASSUME IInv, IInv', [Next]_vars
      PROVE  [Kept]_vars
  <2> SUFFICES ASSUME Next, Whole, Accepted(Current),
                      pc \notin {"handshake", "ended"}
               PROVE  /\ pc' \notin {"ended", "lost"}
                      /\ \/ handled' = handled + 1
                         \/ Whole' /\ (Accepted(Current))' /\ StepsLeft' <= StepsLeft
                      /\ ReaderRuns => handled' = handled + 1 \/ StepsLeft' < StepsLeft
    BY <1>2 DEF Kept
  <2>1. CASE ReaderRuns
    <3>1. UNCHANGED remote
      BY <2>1 DEF ReaderRuns, recv_handshake, recv_some, handshake_fails, test,
         test_lost, recv_fails, process_msg
    <3>2. /\ pc' \notin {"ended", "lost"} /\ damaged' = FALSE
          /\ \/ handled' = handled + 1
             \/ handled' = handled /\ StepsLeft' < StepsLeft
      BY <1>2, <2>1, WholeStep
    <3>3. CASE handled' = handled + 1
      BY <3>2, <3>3
    <3>4. CASE handled' = handled /\ StepsLeft' < StepsLeft
      <4>1. /\ EndOf(handled + 1)' = EndOf(handled + 1)
            /\ Current' = Current
        BY <1>2, <3>1, <3>4, WholeStays DEF remote
      <4>2. Whole' /\ (Accepted(Current))'
        BY <3>1, <3>2, <3>4, <4>1
           DEF Whole, remote, Accepted, valid_len, msg_length
      <4>3. StepsLeft \in Nat
        BY <1>2, WholeRuns
      <4>4. StepsLeft' \in Int
        <5>1. pc' \in {"handshake", "test", "recv", "process"}
          BY <1>2, <3>2 DEF IInv, Types
        <5>2. EndOf(handled + 1)' \in Int
          BY <1>2, <4>1, WholeFacts
        <5>3. arrived' \in Nat /\ read' \in 0 .. arrived'
          BY <1>2, <3>1, WholeFacts DEF IInv, Types, remote
        <5> QED
          BY <5>1, <5>2, <5>3 DEF StepsLeft
      <4> QED
        BY <3>2, <3>4, <4>2, <4>3, <4>4
    <3> QED
      BY <3>2, <3>3, <3>4
  <2>2. CASE ~ReaderRuns
    <3>. \/ peer_sends \/ closes
         \/ \E k \in 1 .. EndOf(Len(sent)) - arrived : bytes_arrive(k)
      BY <2>2 DEF Next
    <3>0. /\ sent \in Seq(Messages) /\ ends \in Seq(Nat) /\ Len(ends) = Len(sent)
          /\ handled \in Nat /\ handled < Len(sent)
          /\ arrived \in Nat /\ read \in Nat
          /\ EndOf(handled + 1) \in Nat /\ EndOf(handled + 1) <= arrived
      <4>1. /\ sent \in Seq(Messages) /\ ends \in Seq(Nat)
            /\ Len(ends) = Len(sent) /\ handled < Len(sent)
        BY <1>2 DEF IInv, Stream, Whole
      <4>2. /\ handled \in Nat /\ arrived \in Nat /\ read \in Nat
            /\ EndOf(handled) \in Nat /\ Current.len \in Nat
            /\ EndOf(handled + 1) = EndOf(handled) + 4 + Current.len
            /\ EndOf(handled + 1) <= arrived
        BY <1>2, WholeFacts
      <4> QED
        BY <4>1, <4>2
    <3>1. UNCHANGED reader /\ arrived' \in Nat /\ arrived' >= arrived
      <4>1. CASE peer_sends \/ closes
        BY <3>0, <4>1 DEF peer_sends, closes
      <4>2. ASSUME NEW k \in 1 .. EndOf(Len(sent)) - arrived, bytes_arrive(k)
            PROVE  UNCHANGED reader /\ arrived' \in Nat /\ arrived' >= arrived
        <5>1. EndOf(Len(sent)) \in Nat
          BY <1>2, <3>0 DEF IInv, Stream
        <5>2. k \in Nat
          BY <3>0, <5>1
        <5> QED
          BY <3>0, <4>2, <5>2 DEF bytes_arrive
      <4> QED
        BY <4>1, <4>2
    <3>2. /\ Len(sent') >= Len(sent) /\ Len(sent') \in Nat
          /\ sent'[handled + 1] = sent[handled + 1]
          /\ ends'[handled + 1] = ends[handled + 1]
      <4>1. CASE UNCHANGED <<sent, ends>>
        BY <3>0, <4>1
      <4>2. CASE peer_sends
        <5>1. /\ \E m \in Messages : sent' = Append(sent, m)
              /\ \E e : ends' = Append(ends, e)
          BY <4>2 DEF peer_sends
        <5>2. handled + 1 \in 1 .. Len(sent)
          BY <3>0
        <5> QED
          BY <3>0, <5>1, <5>2, AppendProperties
      <4> QED
        BY <4>1, <4>2 DEF closes, bytes_arrive
    <3>3. Current' = Current /\ EndOf(handled + 1)' = EndOf(handled + 1)
      BY <3>0, <3>1, <3>2 DEF Current, EndOf, reader
    <3>4. Whole' /\ (Accepted(Current))' /\ StepsLeft' = StepsLeft
      <4>1. Whole'
        BY <3>0, <3>1, <3>2, <3>3 DEF Whole, reader
      <4>2. (Accepted(Current))'
        BY <3>3 DEF Accepted, valid_len, msg_length
      <4>3. StepsLeft' = StepsLeft
        BY <3>1, <3>3 DEF StepsLeft, reader
      <4> QED
        BY <4>1, <4>2, <4>3
    <3>5. StepsLeft \in Nat /\ pc' \notin {"ended", "lost"}
      BY <1>2, <3>1, WholeRuns, WholeFacts DEF reader
    <3> QED
      BY <2>2, <3>4, <3>5
  <2> QED
    BY <2>1, <2>2
<1> QED
  BY <1>1, <1>2, AlwaysIInv, PTL DEF Spec
=============================================================================
