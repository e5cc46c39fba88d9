------------------------- MODULE PieceRequestProofs -------------------------
(***************************************************************************)
(* Proofs, for every split of the torrent into files, of what              *)
(* piece_request_create returns.  That every stretch lies inside its file  *)
(* needs nothing; that the stretches are the piece needs two things of the *)
(* torrent, named here: a size that unsigned can count, and pieces that    *)
(* are a whole number of blocks.                                           *)
(***************************************************************************)
EXTENDS PieceRequest, SequenceTheorems, FiniteSetTheorems, TLAPS

\* What a modulus leaves alone.
LEMMA NoReduction ==
  ASSUME NEW a \in Nat, NEW b \in Nat, a < b
  PROVE  a % b = a
OBVIOUS

USE LayoutsAssumption

\* piece_length * index does not wrap.
NoWrap == \A l \in Layouts : Total(l) <= UINT

\* piece_length is a multiple of PEER_REQUEST_SIZE.
Multiples == {k * PEER_REQUEST_SIZE : k \in Nat}
WholeBlocks == PieceLength \in Multiples

\* The place in the files is a byte of a file, or the end of the last one.
Place ==
  /\ file <= NumFiles => offset < layout.size[file]
  /\ file > NumFiles => offset = 0
  /\ phase = "skip" => offset = 0
  /\ phase = "fill" => blocks # <<>>

FilesInv == TypeOK /\ Place /\ InsideFiles

\* What a layout is made of.
LEMMA LayoutFacts ==
  ASSUME NEW l \in Layouts
  PROVE  /\ Len(l.size) \in Nat \ {0}
         /\ \A i \in 1 .. Len(l.size) : l.size[i] \in Nat \ {0}
         /\ \A i \in 1 .. Len(l.size) + 1 : l.start[i] \in Nat
         /\ l.start[1] = 0
         /\ \A i \in 1 .. Len(l.size) : l.start[i + 1] = l.start[i] + l.size[i]
BY DEF IsLayout

\* piece_request_create starts at the first byte of the first file.
LEMMA FilesInvInitially == Init => FilesInv
<1> SUFFICES ASSUME Init PROVE FilesInv
  OBVIOUS
<1>1. layout \in Layouts /\ NumFiles \in Nat \ {0} /\ Total(layout) \in Nat
      /\ layout.size[1] \in Nat \ {0}
  BY LayoutFacts DEF Init, NumFiles, Total
<1>2. index \in Nat /\ skip \in Nat
  BY <1>1 DEF Init
<1>3. TypeOK
  BY <1>1, <1>2 DEF Init, TypeOK
<1> QED BY <1>1, <1>3 DEF Init, FilesInv, Place, InsideFiles

\* One turn of the loop that fills a block.
LEMMA FillFacts ==
  ASSUME FilesInv, block_fills
  PROVE  \E size \in Nat \ {0} :
           /\ size <= PEER_REQUEST_SIZE - curr
           /\ offset + size <= layout.size[file]
           /\ \/ /\ offset' = offset + size /\ file' = file
                 /\ offset' < layout.size[file]
              \/ /\ offset' = 0 /\ file' = file + 1
                 /\ offset + size = layout.size[file]
           /\ left' = (left - size) % SIZE
           /\ curr' = curr + size
           /\ mems' = Append(mems, [file |-> file, from |-> offset,
                                    size |-> size, block |-> Len(blocks)])
<1>1. /\ file \in 1 .. NumFiles /\ offset \in Nat /\ offset < layout.size[file]
      /\ layout.size[file] \in Nat /\ curr \in Nat /\ curr < PEER_REQUEST_SIZE
  <2>1. /\ file \in 1 .. NumFiles /\ curr < PEER_REQUEST_SIZE /\ curr \in Nat
        /\ layout \in Layouts /\ offset \in Nat
    BY DEF block_fills, FilesInv, TypeOK
  <2>2. offset < layout.size[file]
    BY <2>1 DEF FilesInv, Place
  <2>3. layout.size[file] \in Nat
    BY <2>1, LayoutFacts DEF NumFiles
  <2> QED BY <2>1, <2>2, <2>3
<1>2. PICK rest \in Nat \ {0} : rest = layout.size[file] - offset
  BY <1>1
<1>3. PICK room \in Nat \ {0} : room = PEER_REQUEST_SIZE - curr
  BY <1>1
<1>4. CASE rest > room
  <2>1. /\ offset' = offset + room /\ file' = file
        /\ left' = (left - room) % SIZE /\ curr' = curr + room
        /\ mems' = Append(mems, [file |-> file, from |-> offset,
                                 size |-> room, block |-> Len(blocks)])
    BY <1>2, <1>3, <1>4 DEF block_fills
  <2>2. room <= PEER_REQUEST_SIZE - curr /\ offset + room <= layout.size[file]
        /\ offset + room < layout.size[file]
    BY <1>1, <1>2, <1>3, <1>4
  <2> QED BY <2>1, <2>2
<1>5. CASE ~(rest > room)
  <2>1. /\ offset' = 0 /\ file' = file + 1
        /\ left' = (left - rest) % SIZE /\ curr' = curr + rest
        /\ mems' = Append(mems, [file |-> file, from |-> offset,
                                 size |-> rest, block |-> Len(blocks)])
    BY <1>2, <1>3, <1>5 DEF block_fills
  <2>2. rest <= PEER_REQUEST_SIZE - curr /\ offset + rest = layout.size[file]
        /\ offset + rest <= layout.size[file]
    BY <1>1, <1>2, <1>3, <1>5
  <2> QED BY <2>1, <2>2
<1> QED BY <1>4, <1>5

\* No turn of a loop leaves the files.
LEMMA FilesInvStep ==
  ASSUME FilesInv, [Next]_vars
  PROVE  FilesInv'
<1> USE DEF FilesInv
<1>1. /\ NumFiles \in Nat \ {0} /\ file \in 1 .. NumFiles + 1
      /\ offset \in Nat /\ left \in Nat /\ curr \in 0 .. PEER_REQUEST_SIZE
      /\ \A i \in 1 .. NumFiles : layout.size[i] \in Nat \ {0}
  BY LayoutFacts DEF TypeOK, NumFiles
<1>2. CASE skip_file
  <2>1. UNCHANGED <<layout, index, left, curr, blocks, mems>>
        /\ NumFiles' = NumFiles
    BY <1>2 DEF skip_file, NumFiles
  <2>2. CASE layout.size[file] > skip
    <3>1. /\ offset' = skip /\ phase' = "blocks" /\ UNCHANGED <<skip, file>>
          /\ file \in 1 .. NumFiles /\ skip \in Nat
      BY <1>1, <1>2, <2>2 DEF skip_file, TypeOK
    <3>2. Place'
      BY <1>1, <2>1, <2>2, <3>1 DEF Place
    <3>3. TypeOK'
      BY <1>1, <2>1, <3>1 DEF TypeOK
    <3>4. InsideFiles'
      BY <2>1 DEF InsideFiles
    <3> QED BY <3>2, <3>3, <3>4
  <2>3. CASE ~(layout.size[file] > skip)
    <3>1. /\ file \in 1 .. NumFiles /\ file' = file + 1 /\ skip' \in Nat
          /\ phase = "skip" /\ UNCHANGED <<offset, phase>>
      BY <1>1, <1>2, <2>3 DEF skip_file, TypeOK
    <3>2. offset' = 0
      BY <1>2, <3>1 DEF skip_file, TypeOK, Place
    <3>3. TypeOK'
      <4>1. file' \in 1 .. NumFiles' + 1 /\ offset' \in Nat /\ phase' = phase
        BY <1>1, <2>1, <3>1, <3>2
      <4> QED BY <2>1, <3>1, <4>1 DEF TypeOK
    <3>4. Place'
      <4>1. file' <= NumFiles' => file' \in 1 .. NumFiles
        BY <1>1, <2>1, <3>1
      <4>2. file' <= NumFiles' => layout'.size[file'] > 0
        BY <1>1, <2>1, <4>1
      <4> QED BY <2>1, <3>1, <3>2, <4>2 DEF Place
    <3>5. InsideFiles'
      BY <2>1 DEF InsideFiles
    <3> QED BY <3>3, <3>4, <3>5
  <2> QED BY <2>2, <2>3
<1>3. CASE skip_ends
  BY <1>3 DEF skip_ends, TypeOK, Place, InsideFiles, NumFiles
<1>4. CASE block_starts
  <2>1. /\ UNCHANGED <<layout, index, skip, file, offset, left, mems>>
        /\ NumFiles' = NumFiles
        /\ phase' = "fill" /\ curr' = 0
    BY <1>4 DEF block_starts, NumFiles
  <2>2. blocks' \in Seq([begin : Nat, len : Nat]) /\ blocks' # <<>>
    <3>1. (PieceLength - left) % SIZE \in Nat
      BY <1>1
    <3> QED BY <3>1, <1>4 DEF block_starts, TypeOK
  <2>3. Place'
    BY <2>1, <2>2 DEF Place
  <2> QED BY <1>1, <2>1, <2>2, <2>3 DEF TypeOK, InsideFiles
<1>5. CASE block_fills
  <2>1. PICK size \in Nat \ {0} :
          /\ size <= PEER_REQUEST_SIZE - curr
          /\ offset + size <= layout.size[file]
          /\ \/ /\ offset' = offset + size /\ file' = file
                /\ offset' < layout.size[file]
             \/ /\ offset' = 0 /\ file' = file + 1
          /\ left' = (left - size) % SIZE
          /\ curr' = curr + size
          /\ mems' = Append(mems, [file |-> file, from |-> offset,
                                   size |-> size, block |-> Len(blocks)])
    BY <1>5, FillFacts
  <2>2. /\ UNCHANGED <<layout, index, phase, skip, blocks>>
        /\ NumFiles' = NumFiles
        /\ file \in 1 .. NumFiles /\ phase = "fill"
    BY <1>1, <1>5 DEF block_fills, NumFiles
  <2>3. left' \in Nat /\ curr' \in 0 .. PEER_REQUEST_SIZE
    BY <1>1, <2>1
  <2>4. /\ mems' \in Seq([file : 1 .. NumFiles, from : Nat, size : Nat \ {0},
                          block : Nat])
        /\ Len(mems') = Len(mems) + 1
        /\ \A j \in 1 .. Len(mems) : mems'[j] = mems[j]
        /\ mems'[Len(mems) + 1] = [file |-> file, from |-> offset,
                                   size |-> size, block |-> Len(blocks)]
    BY <1>1, <2>1, <2>2 DEF TypeOK
  <2>5. TypeOK'
    <3>1. file' \in 1 .. NumFiles' + 1 /\ offset' \in Nat
      BY <1>1, <2>1, <2>2
    <3>2. mems' \in Seq([file : 1 .. NumFiles', from : Nat, size : Nat \ {0},
                         block : Nat])
      BY <2>2, <2>4
    <3> QED BY <2>2, <2>3, <3>1, <3>2 DEF TypeOK
  <2>6. Place'
    <3>1. CASE offset' = offset + size /\ file' = file /\ offset' < layout.size[file]
      BY <1>1, <2>2, <3>1 DEF Place
    <3>2. CASE offset' = 0 /\ file' = file + 1
      BY <1>1, <2>2, <3>2 DEF Place
    <3> QED BY <2>1, <3>1, <3>2
  <2>7. InsideFiles'
    <3> SUFFICES ASSUME NEW j \in 1 .. Len(mems')
                 PROVE  mems'[j].from + mems'[j].size
                          <= layout.size[mems'[j].file]
      BY <2>2 DEF InsideFiles
    <3>1. CASE j \in 1 .. Len(mems)
      BY <2>4, <3>1 DEF InsideFiles
    <3>2. CASE j = Len(mems) + 1
      BY <2>1, <2>4, <3>2
    <3> QED BY <2>4, <3>1, <3>2 DEF TypeOK
  <2> QED BY <2>5, <2>6, <2>7
<1>6. CASE block_ends
  <2>1. /\ UNCHANGED <<layout, index, skip, file, offset, left, curr, mems>>
        /\ phase' = "blocks" /\ phase # "skip"
    BY <1>6 DEF block_ends
  <2>2. blocks' \in Seq([begin : Nat, len : Nat])
    <3> DEFINE Block == [begin : Nat, len : Nat]
               n == Len(blocks)
               ended == [blocks[n] EXCEPT !.len = curr]
    <3>1. blocks \in Seq(Block) /\ n \in 1 .. Len(blocks) /\ curr \in Nat
      <4>1. blocks # <<>> /\ blocks \in Seq(Block)
        BY <1>6 DEF block_ends, TypeOK, Place
      <4> QED BY <1>1, <4>1
    <3>2. blocks' = [blocks EXCEPT ![n] = ended]
      BY <1>6 DEF block_ends
    <3> HIDE DEF Block, ended, n
    <3>3. blocks[n] \in Block
      BY <3>1
    <3>4. ended \in Block
      BY <3>1, <3>3 DEF Block, ended
    <3>5. blocks' \in Seq(Block)
      BY <3>1, <3>2, <3>4, ExceptSeq
    <3> QED BY <3>5 DEF Block
  <2> QED BY <2>1, <2>2 DEF TypeOK, Place, InsideFiles, NumFiles
<1>7. CASE no_more_blocks
  BY <1>7 DEF no_more_blocks, TypeOK, Place, InsideFiles, NumFiles
<1>8. CASE UNCHANGED vars
  BY <1>8 DEF vars, TypeOK, Place, InsideFiles, NumFiles
<1> QED BY <1>2, <1>3, <1>4, <1>5, <1>6, <1>7, <1>8 DEF Next

\* The place in the files stays in the files, whatever the piece length.
THEOREM FilesInvariance == Spec => []FilesInv
<1>1. Init => FilesInv
  BY FilesInvInitially
<1>2. FilesInv /\ [Next]_vars => FilesInv'
  BY FilesInvStep
<1> QED BY <1>1, <1>2, PTL DEF Spec

\* No stretch reaches outside the file it maps, whatever the piece length.
THEOREM StretchesInsideFiles == Spec => []InsideFiles
<1>1. FilesInv => InsideFiles
  BY DEF FilesInv
<1> QED BY <1>1, FilesInvariance, PTL

-----------------------------------------------------------------------------
(* Pieces of whole blocks. *)

\* What is left of a positive number of blocks after taking one.
LEMMA TakeBlock ==
  ASSUME NEW n \in Multiples, n # 0
  PROVE  /\ n \in Nat /\ n >= PEER_REQUEST_SIZE
         /\ n - PEER_REQUEST_SIZE \in Multiples
<1>1. PICK k \in Nat : n = k * PEER_REQUEST_SIZE
  BY DEF Multiples
<1>2. k # 0
  BY <1>1
<1>3. k - 1 \in Nat /\ n = (k - 1) * PEER_REQUEST_SIZE + PEER_REQUEST_SIZE
  BY <1>1, <1>2
<1>4. (k - 1) * PEER_REQUEST_SIZE \in Nat
  BY <1>3
<1>5. n - PEER_REQUEST_SIZE = (k - 1) * PEER_REQUEST_SIZE
  BY <1>3, <1>4
<1> QED BY <1>3, <1>4, <1>5 DEF Multiples

\* While skipping, the bytes passed and the bytes to skip add up to the
\* start of the piece; then the place in the files is as far into the piece
\* as left says, and what is left of the block and the piece is whole.
Position == layout.start[file] + offset

FirstByte == index * PieceLength

CutInv ==
  /\ left <= PieceLength
  /\ FirstByte < Total(layout)
  /\ phase = "skip" =>
       /\ layout.start[file] + skip = FirstByte
       /\ left = PieceLength
       /\ mems = <<>>
  /\ phase # "skip" => Position = FirstByte + (PieceLength - left)
  /\ phase = "blocks" => file > NumFiles \/ left \in Multiples
  /\ phase = "fill" => left + curr \in Multiples \ {0}
  /\ mems # <<>> => After(mems[Len(mems)]) = Position
  /\ mems = <<>> => left = PieceLength
  /\ Contiguous
  /\ BeginInPiece

\* piece_length * index is the first byte of the piece.
LEMMA CutInvInitially ==
  ASSUME NoWrap, WholeBlocks, Init
  PROVE  CutInv
<1>1. /\ layout \in Layouts /\ index \in Nat /\ Total(layout) \in Nat
      /\ Total(layout) <= UINT /\ layout.start[1] = 0
      /\ index * PieceLength < Total(layout)
  BY LayoutFacts DEF Init, Total, NoWrap
<1>2. index * PieceLength \in Nat /\ PieceLength * index = index * PieceLength
  BY <1>1
<1>3. skip = FirstByte
  <2>1. index * PieceLength < UINT
    BY <1>1, <1>2
  <2>2. (index * PieceLength) % UINT = index * PieceLength
    BY <1>2, <2>1, NoReduction
  <2> QED BY <1>2, <2>2 DEF Init, FirstByte
<1> QED BY <1>1, <1>2, <1>3 DEF Init, CutInv, Contiguous, BeginInPiece, FirstByte

\* Taking a stretch moves the place in the files by as much as it takes.
LEMMA FillMoves ==
  ASSUME FilesInv, CutInv, block_fills
  PROVE  \E size \in Nat \ {0} :
           /\ left' = left - size /\ left' \in Nat
           /\ curr' = curr + size /\ left' + curr' = left + curr
           /\ layout' = layout /\ index' = index /\ blocks' = blocks
           /\ phase' = phase /\ phase = "fill"
           /\ Position' = Position + size
           /\ mems' = Append(mems, [file |-> file, from |-> offset,
                                    size |-> size, block |-> Len(blocks)])
<1>1. PICK size \in Nat \ {0} :
        /\ size <= PEER_REQUEST_SIZE - curr
        /\ \/ /\ offset' = offset + size /\ file' = file
           \/ /\ offset' = 0 /\ file' = file + 1
              /\ offset + size = layout.size[file]
        /\ left' = (left - size) % SIZE
        /\ curr' = curr + size
        /\ mems' = Append(mems, [file |-> file, from |-> offset,
                                 size |-> size, block |-> Len(blocks)])
  BY FillFacts
<1>2. /\ layout' = layout /\ index' = index /\ blocks' = blocks
      /\ phase' = phase /\ phase = "fill"
      /\ file \in 1 .. NumFiles
      /\ layout \in Layouts /\ left \in Nat /\ curr \in Nat /\ offset \in Nat
  BY DEF block_fills, FilesInv, TypeOK
<1>3. left + curr \in Multiples /\ left + curr # 0
  BY <1>2 DEF CutInv
<1>4. left + curr >= PEER_REQUEST_SIZE
  BY <1>3, TakeBlock
<1>5. left - size \in Nat /\ left - size < SIZE
  <2>1. left <= PieceLength
    BY DEF CutInv
  <2>2. size <= PEER_REQUEST_SIZE - curr
    BY <1>1
  <2>3. left >= PEER_REQUEST_SIZE - curr
    BY <1>2, <1>4
  <2>4. left - size >= 0 /\ left - size \in Int
    BY <1>2, <2>2, <2>3
  <2>5. left - size < left /\ left < SIZE
    BY <1>2, <2>1
  <2> QED BY <1>2, <2>4, <2>5
<1>6. left' = left - size
  BY <1>1, <1>5, NoReduction
<1>7. /\ layout.start[file] \in Nat /\ layout.size[file] \in Nat
      /\ layout.start[file + 1] = layout.start[file] + layout.size[file]
  <2>1. Len(layout.size) \in Nat /\ file \in 1 .. Len(layout.size)
        /\ file \in 1 .. Len(layout.size) + 1
    BY <1>2, LayoutFacts DEF NumFiles
  <2> QED BY <1>2, <2>1, LayoutFacts
<1>8. Position' = Position + size
  <2>1. CASE offset' = offset + size /\ file' = file
    BY <1>2, <1>7, <2>1 DEF Position
  <2>2. CASE offset' = 0 /\ file' = file + 1 /\ offset + size = layout.size[file]
    BY <1>2, <1>7, <2>2 DEF Position
  <2> QED BY <1>1, <2>1, <2>2
<1>9. left' \in Nat /\ left' + curr' = left + curr
  <2>1. curr' = curr + size
    BY <1>1
  <2> QED BY <1>2, <1>5, <1>6, <2>1
<1> QED BY <1>1, <1>2, <1>6, <1>8, <1>9

\* Every turn of a loop keeps the place, the bytes left and the stretches
\* in step.
LEMMA CutInvStep ==
  ASSUME NoWrap, WholeBlocks, FilesInv, FilesInv', CutInv, [Next]_vars
  PROVE  CutInv'
<1> USE DEF FirstByte
<1>1. /\ layout \in Layouts /\ NumFiles \in Nat \ {0} /\ index \in Nat
      /\ file \in 1 .. NumFiles + 1
      /\ offset \in Nat /\ left \in Nat /\ curr \in 0 .. PEER_REQUEST_SIZE
      /\ skip \in Nat /\ index * PieceLength \in Nat
      /\ phase = "skip" => offset = 0
      /\ layout.start[file] \in Nat
  <2>1. /\ layout \in Layouts /\ index \in Nat /\ file \in 1 .. NumFiles + 1
        /\ offset \in Nat /\ left \in Nat /\ curr \in 0 .. PEER_REQUEST_SIZE
        /\ skip \in Nat /\ (phase = "skip" => offset = 0)
    BY DEF FilesInv, TypeOK, Place
  <2>2. NumFiles \in Nat \ {0} /\ layout.start[file] \in Nat
    BY <2>1, LayoutFacts DEF NumFiles
  <2>3. index * PieceLength \in Nat
    BY <2>1
  <2> QED BY <2>1, <2>2, <2>3
<1>2. CASE skip_file
  <2>1. /\ UNCHANGED <<layout, index, left, curr, blocks, mems>>
        /\ phase = "skip" /\ file \in 1 .. NumFiles
        /\ layout.start[file + 1] = layout.start[file] + layout.size[file]
        /\ layout.size[file] \in Nat /\ NumFiles' = NumFiles
    BY <1>1, <1>2, LayoutFacts DEF skip_file, NumFiles
  <2>2. CASE layout.size[file] > skip
    <3>1. offset' = skip /\ phase' = "blocks" /\ file' = file
      BY <1>2, <2>2 DEF skip_file
    <3> QED BY <1>1, <2>1, <3>1
            DEF CutInv, Position, Contiguous, BeginInPiece, WholeBlocks
  <2>3. CASE ~(layout.size[file] > skip)
    <3>1. /\ skip' = skip - layout.size[file] /\ file' = file + 1
          /\ phase' = phase
      BY <1>2, <2>3 DEF skip_file
    <3>2. layout.start[file] + skip = FirstByte
      BY <2>1 DEF CutInv
    <3>3. layout.start[file + 1] + (skip - layout.size[file]) = FirstByte
      BY <1>1, <2>1, <3>2
    <3> QED BY <1>1, <2>1, <3>1, <3>3 DEF CutInv, Contiguous, BeginInPiece
  <2> QED BY <2>2, <2>3
<1>3. CASE skip_ends
  <2>1. /\ UNCHANGED <<layout, index, skip, file, offset, left, blocks, mems>>
        /\ phase = "skip" /\ phase' = "blocks" /\ NumFiles' = NumFiles
    BY <1>3 DEF skip_ends, NumFiles
  <2>2. skip = 0
    <3>1. CASE file > NumFiles
      <4>1. file = Len(layout.size) + 1
        BY <1>1, <3>1 DEF NumFiles
      <4> QED BY <1>1, <2>1, <4>1 DEF CutInv, Total
    <3> QED BY <1>3, <3>1 DEF skip_ends
  <2> QED BY <1>1, <2>1, <2>2
          DEF CutInv, Position, Contiguous, BeginInPiece, WholeBlocks
<1>4. CASE block_starts
  <2>1. /\ UNCHANGED <<layout, index, skip, file, offset, left, mems>>
        /\ phase = "blocks" /\ phase' = "fill" /\ NumFiles' = NumFiles
        /\ curr' = 0 /\ left # 0 /\ file <= NumFiles
    BY <1>4 DEF block_starts, NumFiles
  <2>2. left \in Multiples
    BY <1>1, <2>1 DEF CutInv
  <2>3. BeginInPiece'
    <3> DEFINE begin == (PieceLength - left) % SIZE
    <3>1. begin \in Nat /\ begin < PieceLength
      BY <1>1, <2>1 DEF CutInv
    <3> HIDE DEF begin
    <3>2. blocks' = Append(blocks, [begin |-> begin, len |-> 0])
      BY <1>4 DEF block_starts, begin
    <3>3. blocks \in Seq([begin : Nat, len : Nat])
      BY DEF FilesInv, TypeOK
    <3> QED BY <3>1, <3>2, <3>3 DEF CutInv, BeginInPiece
  <2> QED BY <1>1, <2>1, <2>2, <2>3 DEF CutInv, Position, Contiguous, First, After
<1>5. CASE block_fills
  <2>1. PICK size \in Nat \ {0} :
          /\ left' = left - size /\ left' \in Nat
          /\ left' + curr' = left + curr
          /\ layout' = layout /\ index' = index /\ blocks' = blocks
          /\ phase' = phase /\ phase = "fill"
          /\ Position' = Position + size
          /\ mems' = Append(mems, [file |-> file, from |-> offset,
                                   size |-> size, block |-> Len(blocks)])
    BY <1>5, FillMoves
  <2> DEFINE m == [file |-> file, from |-> offset, size |-> size,
                   block |-> Len(blocks)]
  <2>2. First(m) = Position /\ After(m) = Position + size
    BY DEF First, After, Position
  <2>3. mems \in Seq([file : 1 .. NumFiles, from : Nat, size : Nat \ {0},
                      block : Nat])
    BY DEF FilesInv, TypeOK
  <2> HIDE DEF m
  <2>4. mems' = Append(mems, m)
    BY <2>1 DEF m
  <2>5. /\ mems' # <<>> /\ Len(mems') = Len(mems) + 1 /\ Len(mems) \in Nat
        /\ \A j \in 1 .. Len(mems) : mems'[j] = mems[j]
        /\ mems'[Len(mems) + 1] = m
    BY <2>3, <2>4
  <2>6. Contiguous'
    <3>1. mems'[1] = (IF mems = <<>> THEN m ELSE mems[1])
      BY <2>3, <2>5
    <3>2. First(mems[1])' = FirstByte'
      <4>1. CASE mems = <<>>
        <5>1. Position = FirstByte
          BY <1>1, <2>1, <4>1 DEF CutInv
        <5> QED BY <2>1, <2>2, <3>1, <4>1, <5>1 DEF First
      <4>2. CASE mems # <<>>
        BY <2>1, <3>1, <4>2 DEF CutInv, Contiguous, First
      <4> QED BY <4>1, <4>2
    <3>3. ASSUME NEW j \in 1 .. Len(mems') - 1
          PROVE  (After(mems[j]) = First(mems[j + 1]))'
      <4>1. CASE j = Len(mems)
        <5>1. mems # <<>> /\ mems'[j] = mems[j] /\ mems'[j + 1] = m
          BY <2>3, <2>5, <4>1
        <5>2. After(mems[j]) = First(m)
          BY <2>2, <4>1, <5>1 DEF CutInv
        <5> QED BY <2>1, <5>1, <5>2 DEF After, First
      <4>2. CASE j # Len(mems)
        <5>1. j \in 1 .. Len(mems) - 1 /\ mems'[j] = mems[j]
              /\ mems'[j + 1] = mems[j + 1]
          BY <2>5, <4>2
        <5> QED BY <2>1, <5>1 DEF CutInv, Contiguous, After, First
      <4> QED BY <4>1, <4>2
    <3> QED BY <3>2, <3>3 DEF Contiguous
  <2>7. (After(mems[Len(mems)]) = Position)'
    BY <2>1, <2>2, <2>5 DEF First, After
  <2>8. (Position = FirstByte + (PieceLength - left))'
    <3>1. Position = FirstByte + (PieceLength - left)
      BY <2>1 DEF CutInv
    <3>2. FirstByte' = FirstByte /\ FirstByte \in Int
      BY <1>1, <2>1
    <3>3. Position' = Position + size /\ left' = left - size /\ left \in Int
      BY <1>1, <2>1
    <3> HIDE DEF FirstByte
    <3> QED BY <3>1, <3>2, <3>3
  <2>9. left' <= PieceLength
    BY <1>1, <2>1 DEF CutInv
  <2>10. left' + curr' \in Multiples \ {0} /\ phase' = "fill"
    BY <2>1 DEF CutInv
  <2>11. (FirstByte < Total(layout))'
    BY <2>1 DEF CutInv
  <2>12. BeginInPiece'
    BY <2>1 DEF CutInv, BeginInPiece
  <2>13. mems' # <<>>
    BY <2>5
  <2> HIDE DEF FirstByte
  <2> QED BY <2>6, <2>7, <2>8, <2>9, <2>10, <2>11, <2>12, <2>13 DEF CutInv
<1>6. CASE block_ends
  <2>1. /\ UNCHANGED <<layout, index, skip, file, offset, left, curr, mems>>
        /\ phase = "fill" /\ phase' = "blocks" /\ NumFiles' = NumFiles
    BY <1>6 DEF block_ends, NumFiles
  <2>2. file > NumFiles \/ left \in Multiples
    <3>1. CASE curr >= PEER_REQUEST_SIZE
      <4>1. left + curr \in Multiples /\ left + curr # 0
        BY <2>1 DEF CutInv
      <4>2. curr = PEER_REQUEST_SIZE
        BY <1>1, <3>1
      <4>3. (left + curr) - PEER_REQUEST_SIZE \in Multiples
        BY <4>1, TakeBlock
      <4>4. (left + curr) - PEER_REQUEST_SIZE = left
        BY <1>1, <4>2
      <4> QED BY <4>3, <4>4
    <3> QED BY <1>6, <3>1 DEF block_ends
  <2>3. BeginInPiece'
    <3>1. blocks' = [blocks EXCEPT ![Len(blocks)].len = curr]
      BY <1>6 DEF block_ends
    <3>2. blocks \in Seq([begin : Nat, len : Nat])
          /\ blocks' \in Seq([begin : Nat, len : Nat])
      BY DEF FilesInv, TypeOK
    <3>3. \A k \in 1 .. Len(blocks') :
            k \in 1 .. Len(blocks) /\ blocks'[k].begin = blocks[k].begin
      BY <3>1, <3>2
    <3> QED BY <3>3 DEF CutInv, BeginInPiece
  <2> QED BY <1>1, <2>1, <2>2, <2>3 DEF CutInv, Position, Contiguous, First, After
<1>7. CASE no_more_blocks
  BY <1>7 DEF no_more_blocks, CutInv, Position, Contiguous, BeginInPiece,
                  First, After, NumFiles
<1>8. CASE UNCHANGED vars
  BY <1>8 DEF vars, CutInv, Position, Contiguous, BeginInPiece, NumFiles,
                  First, After
<1> QED BY <1>2, <1>3, <1>4, <1>5, <1>6, <1>7, <1>8 DEF Next

\* In a torrent that unsigned can count, whose pieces are a whole number of
\* blocks, the stretches that are downloaded and verified follow each other
\* from the first byte of the piece (next_block_request, skip_until_index).
THEOREM StretchesContiguous ==
  ASSUME NoWrap, WholeBlocks
  PROVE  Spec => []Contiguous
<1>1. Init => CutInv
  BY CutInvInitially
<1>2. FilesInv /\ FilesInv' /\ CutInv /\ [Next]_vars => CutInv'
  BY CutInvStep
<1>3. CutInv => Contiguous
  BY DEF CutInv
<1> QED BY <1>1, <1>2, <1>3, FilesInvariance, PTL DEF Spec

\* Under the same two conditions every request begins inside its piece.
THEOREM RequestsBeginInPiece ==
  ASSUME NoWrap, WholeBlocks
  PROVE  Spec => []BeginInPiece
<1>1. Init => CutInv
  BY CutInvInitially
<1>2. FilesInv /\ FilesInv' /\ CutInv /\ [Next]_vars => CutInv'
  BY CutInvStep
<1>3. CutInv => BeginInPiece
  BY DEF CutInv
<1> QED BY <1>1, <1>2, <1>3, FilesInvariance, PTL DEF Spec

-----------------------------------------------------------------------------
(* The end of a piece, and its blocks. *)

\* A set of numbers up to n that has with each number the next is empty:
\* induction towards n, for the numbers in which something fails.
LEMMA PassedOn ==
  ASSUME NEW n \in Nat, NEW B \in SUBSET (1 .. n), \A i \in B : i + 1 \in B
  PROVE  B = {}
<1> SUFFICES ASSUME B # {} PROVE FALSE
  OBVIOUS
<1> DEFINE S == 1 .. n
           T == {i .. n : i \in B}
<1>1. IsWellFoundedOn(StrictSubsetOrdering(S), FiniteSubsetsOf(S))
  BY FS_StrictSubsetOrderingWellFounded
<1>2. T \subseteq FiniteSubsetsOf(S) /\ T # {}
  <2>1. \A i \in B : IsFiniteSet(i .. n) /\ i .. n \subseteq S
    BY FS_Interval
  <2> QED BY <2>1 DEF FiniteSubsetsOf
<1>3. PICK x \in T : \A y \in T : ~(<<y, x>> \in StrictSubsetOrdering(S))
  <2> HIDE DEF T, S
  <2> QED BY <1>1, <1>2, WFMin
<1>4. PICK i \in B : x = i .. n
  OBVIOUS
<1>5. i + 1 \in B /\ i \in 1 .. n
  OBVIOUS
<1>6. /\ (i + 1) .. n \in T
      /\ (i + 1) .. n \in SUBSET S /\ i .. n \in SUBSET S
      /\ (i + 1) .. n \subseteq i .. n
      /\ (i + 1) .. n # i .. n
  <2>1. (i + 1) .. n \in T
    BY <1>5
  <2>2. i \in i .. n /\ i \notin (i + 1) .. n /\ (i + 1) .. n \subseteq i .. n
    BY <1>5
  <2>3. i .. n \subseteq S
    BY <1>5
  <2> HIDE DEF T
  <2> QED BY <2>1, <2>2, <2>3
<1>7. <<(i + 1) .. n, i .. n>> \in StrictSubsetOrdering(S)
  BY <1>6 DEF StrictSubsetOrdering
<1> QED BY <1>3, <1>4, <1>6, <1>7

\* A sequence of numbers none of which is above the next ends at its greatest.
LEMMA Climbs ==
  ASSUME NEW n \in Nat, NEW s, \A j \in 1 .. n : s[j] \in Nat,
         \A j \in 1 .. n - 1 : s[j] <= s[j + 1]
  PROVE  \A j \in 1 .. n : s[j] <= s[n]
<1> DEFINE B == {j \in 1 .. n : s[j] > s[n]}
<1>1. ASSUME NEW j \in B
      PROVE  j + 1 \in B
  <2>1. j \in 1 .. n /\ s[j] > s[n] /\ s[j] \in Nat /\ s[n] \in Nat
    OBVIOUS
  <2>2. j # n
    BY <2>1
  <2>3. j \in 1 .. n - 1 /\ j + 1 \in 1 .. n
    BY <2>1, <2>2
  <2>4. s[j] <= s[j + 1] /\ s[j + 1] \in Nat
    BY <2>3
  <2>5. s[j + 1] > s[n]
    BY <2>1, <2>4
  <2> QED BY <2>3, <2>5
<1>2. B \in SUBSET (1 .. n)
  OBVIOUS
<1>3. B = {}
  <2> HIDE DEF B
  <2> QED BY <1>1, <1>2, PassedOn
<1>4. ASSUME NEW j \in 1 .. n
      PROVE  s[j] <= s[n]
  <2>1. ~(s[j] > s[n]) /\ s[j] \in Nat /\ s[n] \in Nat
    BY <1>3
  <2> QED BY <2>1
<1> QED BY <1>4

\* No file starts behind the end of the torrent.
LEMMA StartsInside ==
  ASSUME NEW l \in Layouts
  PROVE  \A i \in 1 .. Len(l.size) + 1 : l.start[i] <= Total(l)
<1> DEFINE n == Len(l.size) + 1
           s == l.start
<1>1. /\ n \in Nat
      /\ \A j \in 1 .. n : s[j] \in Nat
      /\ \A j \in 1 .. n - 1 : l.size[j] \in Nat /\ s[j + 1] = s[j] + l.size[j]
  BY LayoutFacts
<1>2. ASSUME NEW j \in 1 .. n - 1
      PROVE  s[j] <= s[j + 1]
  <2> HIDE DEF n, s
  <2>1. l.size[j] \in Nat /\ s[j + 1] = s[j] + l.size[j]
    BY <1>1
  <2>2. s[j] \in Nat
    BY <1>1
  <2> QED BY <2>1, <2>2
<1>3. \A j \in 1 .. n : s[j] <= s[n]
  <2> HIDE DEF n, s
  <2> QED BY <1>1, <1>2, Climbs
<1> QED BY <1>3 DEF Total

\* A place in the files is not behind the end of the torrent, and at it once
\* the files are used up.
LEMMA PlaceInside ==
  ASSUME NEW l \in Layouts, NEW f \in 1 .. Len(l.size) + 1, NEW o \in Nat,
         f <= Len(l.size) => o < l.size[f],
         f > Len(l.size) => o = 0
  PROVE  /\ l.start[f] + o \in Nat
         /\ Total(l) \in Nat
         /\ l.start[f] + o <= Total(l)
         /\ f > Len(l.size) => l.start[f] + o = Total(l)
<1>1. Len(l.size) \in Nat /\ l.start[f] \in Nat /\ Total(l) \in Nat
  BY LayoutFacts DEF Total
<1>2. CASE f > Len(l.size)
  <2>1. f = Len(l.size) + 1 /\ o = 0
    BY <1>1, <1>2
  <2> QED BY <1>1, <2>1 DEF Total
<1>3. CASE ~(f > Len(l.size))
  <2>1. f \in 1 .. Len(l.size) /\ f + 1 \in 1 .. Len(l.size) + 1
    BY <1>1, <1>3
  <2>2. /\ l.start[f + 1] = l.start[f] + l.size[f]
        /\ l.size[f] \in Nat /\ o < l.size[f]
        /\ l.start[f + 1] <= Total(l) /\ l.start[f + 1] \in Nat
    BY <1>1, <2>1, LayoutFacts, StartsInside
  <2>3. l.start[f] + o \in Nat
    BY <1>1
  <2>4. l.start[f] + o <= l.start[f + 1]
    BY <1>1, <2>2
  <2>5. l.start[f] + o <= Total(l)
    BY <1>1, <2>2, <2>3, <2>4
  <2> QED BY <1>1, <1>3, <2>3, <2>5
<1> QED BY <1>2, <1>3

\* Where block k begins, by the reference definition.
Begin(k) == (k - 1) * PEER_REQUEST_SIZE

LEMMA Begins ==
  /\ Begin(1) = 0
  /\ \A k \in Nat : Begin(k) \in Int /\ Begin(k + 1) = Begin(k) + PEER_REQUEST_SIZE
  /\ \A k \in Nat \ {0} : Begin(k) \in Nat
  /\ \A j, k \in Nat : j < k => Begin(j) + PEER_REQUEST_SIZE <= Begin(k)
<1>1. \A k \in Nat : Begin(k) \in Int /\ Begin(k + 1) = Begin(k) + PEER_REQUEST_SIZE
  BY DEF Begin
<1>2. \A k \in Nat \ {0} : Begin(k) \in Nat
  BY DEF Begin
<1>3. ASSUME NEW j \in Nat, NEW k \in Nat, j < k
      PROVE  Begin(j) + PEER_REQUEST_SIZE <= Begin(k)
  <2>1. PICK d \in Nat : k - 1 = j + d
    BY <1>3
  <2>2. (j + d) * PEER_REQUEST_SIZE = j * PEER_REQUEST_SIZE + d * PEER_REQUEST_SIZE
    OBVIOUS
  <2>3. d * PEER_REQUEST_SIZE \in Nat /\ j * PEER_REQUEST_SIZE \in Nat
    OBVIOUS
  <2>4. Begin(j) + PEER_REQUEST_SIZE = j * PEER_REQUEST_SIZE
    BY DEF Begin
  <2> QED BY <2>1, <2>2, <2>3, <2>4 DEF Begin
<1> QED BY <1>1, <1>2, <1>3 DEF Begin

Taken == PieceLength - left

\* No stretch reaches beyond the end of the piece.
StretchesEnd == \A j \in 1 .. Len(mems) : After(mems[j]) <= EndOfPiece

\* The blocks before the last one are whole, each begins where the one before
\* it ends, and together they are what has been taken of the piece.
BlocksInv ==
  /\ \A k \in 1 .. Len(blocks) : blocks[k].begin = Begin(k)
  /\ \A k \in 1 .. Len(blocks) - 1 : blocks[k].len = PEER_REQUEST_SIZE
  /\ phase = "skip" => blocks = <<>>
  /\ phase = "fill" => Taken = Begin(Len(blocks)) + curr
  /\ phase \in {"blocks", "done"} =>
       IF blocks = <<>>
         THEN Taken = 0
         ELSE /\ Taken = Begin(Len(blocks)) + blocks[Len(blocks)].len
              /\ blocks[Len(blocks)].len <= PEER_REQUEST_SIZE
              /\ file <= NumFiles => blocks[Len(blocks)].len = PEER_REQUEST_SIZE
  /\ phase = "done" => left = 0 \/ file > NumFiles
  /\ StretchesEnd

LEMMA StretchesStay ==
  ASSUME StretchesEnd, UNCHANGED <<layout, index, mems>>
  PROVE  StretchesEnd'
BY DEF StretchesEnd, After, First, EndOfPiece, Total

LEMMA BlocksInvInitially == Init => BlocksInv
BY DEF Init, BlocksInv, StretchesEnd, Taken

\* Each turn of a loop adds to the last block what it takes of the piece.
LEMMA BlocksInvStep ==
  ASSUME FilesInv, FilesInv', CutInv, CutInv', BlocksInv, [Next]_vars
  PROVE  BlocksInv'
<1> DEFINE n == Len(blocks)
<1>1. /\ left \in Nat /\ curr \in 0 .. PEER_REQUEST_SIZE /\ n \in Nat
      /\ blocks \in Seq([begin : Nat, len : Nat])
      /\ left <= PieceLength
      /\ Taken \in Nat
  <2>1. /\ left \in Nat /\ curr \in 0 .. PEER_REQUEST_SIZE
        /\ blocks \in Seq([begin : Nat, len : Nat])
    BY DEF FilesInv, TypeOK
  <2>2. left <= PieceLength
    BY DEF CutInv
  <2> QED BY <2>1, <2>2 DEF Taken
<1>2. CASE skip_file
  <2>1. /\ UNCHANGED <<layout, index, left, blocks, mems>>
        /\ phase = "skip" /\ phase' \in {"skip", "blocks"}
    BY <1>2 DEF skip_file
  <2>2. blocks = <<>> /\ Taken = 0
    BY <1>1, <2>1 DEF BlocksInv, CutInv, Taken
  <2>3. Taken' = Taken /\ EndOfPiece' = EndOfPiece
    BY <2>1 DEF Taken, EndOfPiece
  <2>4. StretchesEnd'
    BY <2>1, StretchesStay DEF BlocksInv
  <2> QED BY <2>1, <2>2, <2>3, <2>4 DEF BlocksInv
<1>3. CASE skip_ends
  <2>1. /\ UNCHANGED <<layout, index, left, blocks, mems>>
        /\ phase = "skip" /\ phase' = "blocks"
    BY <1>3 DEF skip_ends
  <2>2. blocks = <<>> /\ Taken = 0
    BY <1>1, <2>1 DEF BlocksInv, CutInv, Taken
  <2>3. Taken' = Taken /\ EndOfPiece' = EndOfPiece
    BY <2>1 DEF Taken, EndOfPiece
  <2>4. StretchesEnd'
    BY <2>1, StretchesStay DEF BlocksInv
  <2> QED BY <2>1, <2>2, <2>3, <2>4 DEF BlocksInv
<1>4. CASE block_starts
  <2> DEFINE new == [begin |-> (PieceLength - left) % SIZE, len |-> 0]
  <2>1. /\ UNCHANGED <<layout, index, file, left, mems>>
        /\ phase = "blocks" /\ phase' = "fill" /\ curr' = 0
        /\ file <= NumFiles /\ left # 0
        /\ blocks' = Append(blocks, new)
    BY <1>4 DEF block_starts
  <2>2. Taken = Begin(n + 1)
    <3>1. CASE blocks = <<>>
      <4>1. n = 0 /\ Taken = 0
        BY <2>1, <3>1 DEF BlocksInv
      <4> QED BY <4>1, Begins
    <3>2. CASE blocks # <<>>
      <4>1. Taken = Begin(n) + PEER_REQUEST_SIZE
        BY <2>1, <3>2 DEF BlocksInv
      <4> QED BY <1>1, <4>1, Begins
    <3> QED BY <3>1, <3>2
  <2>3. new.begin = Taken /\ new \in [begin : Nat, len : Nat]
    <3>1. Taken < SIZE
      BY <1>1 DEF Taken
    <3>2. (PieceLength - left) % SIZE = Taken
      BY <1>1, <3>1, NoReduction DEF Taken
    <3> QED BY <1>1, <3>2
  <2> HIDE DEF new
  <2>4. /\ Len(blocks') = n + 1
        /\ \A k \in 1 .. n : blocks'[k] = blocks[k]
        /\ blocks'[n + 1] = new
    BY <1>1, <2>1, <2>3, AppendProperties
  <2> HIDE DEF n
  <2>5. \A k \in 1 .. Len(blocks') : blocks'[k].begin = Begin(k)
    <3> SUFFICES ASSUME NEW k \in 1 .. n + 1
                 PROVE  blocks'[k].begin = Begin(k)
      BY <2>4
    <3>1. CASE k \in 1 .. n
      BY <2>4, <3>1 DEF BlocksInv, n
    <3>2. CASE k = n + 1
      BY <2>2, <2>3, <2>4, <3>2
    <3> QED BY <1>1, <3>1, <3>2
  <2>6. \A k \in 1 .. Len(blocks') - 1 : blocks'[k].len = PEER_REQUEST_SIZE
    <3> SUFFICES ASSUME NEW k \in 1 .. n
                 PROVE  blocks[k].len = PEER_REQUEST_SIZE
      <4>1. Len(blocks') - 1 = n
        BY <1>1, <2>4
      <4> QED BY <2>4, <4>1
    <3>1. CASE k \in 1 .. n - 1
      BY <3>1 DEF BlocksInv, n
    <3>2. CASE k = n
      <4>1. blocks # <<>>
        BY <1>1, <3>2 DEF n
      <4> QED BY <2>1, <3>2, <4>1 DEF BlocksInv, n
    <3> QED BY <1>1, <3>1, <3>2
  <2>7. Taken' = Begin(n + 1) + 0 /\ EndOfPiece' = EndOfPiece
    BY <1>1, <2>1, <2>2 DEF Taken, EndOfPiece
  <2>8. Taken' = Begin(Len(blocks')) + curr'
    BY <2>1, <2>4, <2>7
  <2>9. StretchesEnd'
    BY <2>1, StretchesStay DEF BlocksInv
  <2> QED BY <2>1, <2>5, <2>6, <2>8, <2>9 DEF BlocksInv, Begin
<1>5. CASE block_fills
  <2>1. PICK size \in Nat \ {0} :
          /\ left' = left - size /\ left' \in Nat
          /\ curr' = curr + size
          /\ layout' = layout /\ index' = index /\ blocks' = blocks
          /\ phase' = phase /\ phase = "fill"
          /\ Position' = Position + size
          /\ mems' = Append(mems, [file |-> file, from |-> offset,
                                   size |-> size, block |-> Len(blocks)])
    BY <1>5, FillMoves
  <2>2. curr' \in Nat
    BY DEF FilesInv, TypeOK
  <2>3. Taken' = Begin(n) + curr'
    <3>1. Taken = Begin(n) + curr /\ Begin(n) \in Int
      BY <1>1, <2>1, Begins DEF BlocksInv
    <3>2. Taken = PieceLength - left /\ Taken' = PieceLength - left'
      BY DEF Taken
    <3>3. left \in Nat /\ curr \in Int /\ PieceLength \in Int
      BY <1>1
    <3>4. left - size = left' /\ left' \in Int
      BY <2>1
    <3>5. PieceLength - (left - size) = (PieceLength - left) + size
      BY <3>3
    <3>6. (Begin(n) + curr) + size = Begin(n) + (curr + size)
      BY <3>1, <3>3
    <3> QED BY <2>1, <3>1, <3>2, <3>4, <3>5, <3>6
  <2> DEFINE m == [file |-> file, from |-> offset, size |-> size,
                   block |-> Len(blocks)]
  <2>4. After(m) = Position'
    BY <2>1 DEF After, First, Position
  <2>5. Position' <= EndOfPiece
    <3>1. /\ layout' \in Layouts /\ offset' \in Nat
          /\ file' \in 1 .. Len(layout'.size) + 1
          /\ file' <= Len(layout'.size) => offset' < layout'.size[file']
          /\ file' > Len(layout'.size) => offset' = 0
      BY DEF FilesInv, TypeOK, Place, NumFiles
    <3>2. /\ Position' \in Nat /\ Total(layout) \in Nat
          /\ Position' <= Total(layout)
      BY <2>1, <3>1, PlaceInside DEF Position
    <3>3. Position' = index * PieceLength + (PieceLength - left')
      BY <2>1 DEF CutInv, FirstByte
    <3>4. /\ index \in Nat
          /\ index * PieceLength \in Nat
          /\ (index + 1) * PieceLength = index * PieceLength + PieceLength
      BY DEF FilesInv, TypeOK
    <3>5. Position' <= (index + 1) * PieceLength
      BY <2>1, <3>3, <3>4
    <3> QED BY <3>2, <3>5 DEF EndOfPiece
  <2>6. mems \in Seq([file : 1 .. NumFiles, from : Nat, size : Nat \ {0},
                      block : Nat])
    BY DEF FilesInv, TypeOK
  <2> HIDE DEF m
  <2>7. mems' = Append(mems, m)
    BY <2>1 DEF m
  <2>8. /\ Len(mems') = Len(mems) + 1 /\ Len(mems) \in Nat
        /\ \A j \in 1 .. Len(mems) : mems'[j] = mems[j]
        /\ mems'[Len(mems) + 1] = m
    BY <2>6, <2>7
  <2>9. EndOfPiece' = EndOfPiece /\ \A x : After(x)' = After(x)
    BY <2>1 DEF EndOfPiece, Total, After, First
  <2>10. \A j \in 1 .. Len(mems') : After(mems'[j]) <= EndOfPiece
    <3> SUFFICES ASSUME NEW j \in 1 .. Len(mems) + 1
                 PROVE  After(mems'[j]) <= EndOfPiece
      BY <2>8
    <3>1. CASE j \in 1 .. Len(mems)
      BY <2>8, <3>1 DEF BlocksInv, StretchesEnd
    <3>2. CASE j = Len(mems) + 1
      BY <2>4, <2>5, <2>8, <3>2
    <3> QED BY <2>8, <3>1, <3>2
  <2>11. StretchesEnd'
    BY <2>1, <2>9, <2>10 DEF StretchesEnd, After, First
  <2>12. Taken' = Begin(Len(blocks')) + curr'
    BY <2>1, <2>3
  <2> QED BY <2>1, <2>11, <2>12 DEF BlocksInv, Begin
<1>6. CASE block_ends
  <2>1. /\ UNCHANGED <<layout, index, file, left, curr, mems>>
        /\ phase = "fill" /\ phase' = "blocks"
        /\ curr >= PEER_REQUEST_SIZE \/ file > NumFiles
        /\ blocks' = [blocks EXCEPT ![Len(blocks)].len = curr]
    BY <1>6 DEF block_ends
  <2>2. blocks # <<>> /\ n \in 1 .. Len(blocks)
    BY <1>1, <2>1 DEF FilesInv, Place
  <2>3. /\ Len(blocks') = n
        /\ blocks' # <<>>
        /\ blocks'[n].len = curr
        /\ \A k \in 1 .. n : blocks'[k].begin = blocks[k].begin
        /\ \A k \in 1 .. n - 1 : blocks'[k].len = blocks[k].len
    <3>1. /\ Len(blocks') = n /\ blocks' # <<>>
          /\ blocks'[n] = [blocks[n] EXCEPT !.len = curr]
          /\ \A k \in 1 .. n - 1 : blocks'[k] = blocks[k]
      <4> HIDE DEF n
      <4>1. /\ blocks \in Seq([begin : Nat, len : Nat]) /\ n \in 1 .. Len(blocks)
            /\ n = Len(blocks)
        BY <1>1, <2>2 DEF n
      <4> DEFINE e == [blocks[n] EXCEPT !.len = curr]
      <4>2. blocks' = [blocks EXCEPT ![n] = e]
        BY <2>1, <4>1
      <4>3. e \in [begin : Nat, len : Nat]
        <5>1. blocks[n] \in [begin : Nat, len : Nat]
          BY <4>1, ElementOfSeq
        <5>2. curr \in Nat
          BY <1>1
        <5> QED BY <5>1, <5>2
      <4> HIDE DEF e
      <4>4. /\ Len(blocks') = Len(blocks) /\ blocks'[n] = e
            /\ \A k \in 1 .. n - 1 : blocks'[k] = blocks[k]
        BY <4>1, <4>2, <4>3, ExceptSeq
      <4>5. Len(blocks') = n /\ n # 0
        BY <4>1, <4>4
      <4>6. blocks' # <<>>
        BY <4>5
      <4> QED BY <4>4, <4>5, <4>6 DEF e
    <3>2. blocks[n] \in [begin : Nat, len : Nat]
      BY <1>1, <2>2, ElementOfSeq
    <3>3. blocks'[n].len = curr /\ blocks'[n].begin = blocks[n].begin
      BY <3>1, <3>2
    <3> HIDE DEF n
    <3>4. \A k \in 1 .. n : k = n \/ k \in 1 .. n - 1
      BY <1>1
    <3> QED BY <3>1, <3>3, <3>4
  <2>4. Taken' = Begin(n) + curr /\ EndOfPiece' = EndOfPiece
    BY <2>1 DEF BlocksInv, Taken, EndOfPiece
  <2>5. curr <= PEER_REQUEST_SIZE /\ (file <= NumFiles => curr = PEER_REQUEST_SIZE)
    <3>1. NumFiles \in Nat /\ file \in Nat
      BY LayoutFacts DEF FilesInv, TypeOK, NumFiles
    <3> QED BY <1>1, <2>1, <3>1
  <2>6. StretchesEnd'
    BY <2>1, StretchesStay DEF BlocksInv
  <2>7. /\ \A k \in 1 .. n : blocks'[k].begin = Begin(k)
        /\ \A k \in 1 .. n - 1 : blocks'[k].len = PEER_REQUEST_SIZE
    BY <2>3 DEF BlocksInv
  <2>8. (file <= NumFiles)' = (file <= NumFiles)
    BY <2>1 DEF NumFiles
  <2> HIDE DEF n
  <2> QED BY <2>1, <2>3, <2>4, <2>5, <2>6, <2>7, <2>8 DEF BlocksInv, Begin
<1>7. CASE no_more_blocks
  <2>1. /\ UNCHANGED <<layout, index, file, left, blocks, mems>>
        /\ phase = "blocks" /\ phase' = "done"
        /\ left = 0 \/ file > NumFiles
    BY <1>7 DEF no_more_blocks
  <2>2. Taken' = Taken /\ EndOfPiece' = EndOfPiece /\ NumFiles' = NumFiles
    BY <2>1 DEF Taken, EndOfPiece, NumFiles
  <2>3. StretchesEnd'
    BY <2>1, StretchesStay DEF BlocksInv
  <2> QED BY <2>1, <2>2, <2>3 DEF BlocksInv
<1>8. CASE UNCHANGED vars
  <2>1. /\ UNCHANGED <<layout, index, phase, file, left, curr, blocks, mems>>
        /\ Taken' = Taken /\ NumFiles' = NumFiles
    BY <1>8 DEF vars, Taken, NumFiles
  <2>2. StretchesEnd'
    BY <2>1, StretchesStay DEF BlocksInv
  <2> QED BY <2>1, <2>2 DEF BlocksInv
<1> QED BY <1>2, <1>3, <1>4, <1>5, <1>6, <1>7, <1>8 DEF Next

\* When no block is left the place in the files is the end of the piece, or of
\* the torrent if that comes first.
LEMMA CutIsWhole ==
  ASSUME FilesInv, CutInv, BlocksInv
  PROVE  Cut
<1>1. /\ left \in Nat /\ index \in Nat /\ index * PieceLength \in Nat
      /\ (index + 1) * PieceLength = index * PieceLength + PieceLength
      /\ blocks \in Seq([begin : Nat, len : Nat])
      /\ Len(blocks) \in Nat
      /\ left <= PieceLength
      /\ FirstByte < Total(layout)
      /\ FirstByte = index * PieceLength
  <2>1. /\ left \in Nat /\ index \in Nat
        /\ blocks \in Seq([begin : Nat, len : Nat])
    BY DEF FilesInv, TypeOK
  <2>2. left <= PieceLength /\ FirstByte < Total(layout)
    BY DEF CutInv
  <2> QED BY <2>1, <2>2 DEF FirstByte
<1>2. /\ Position \in Nat /\ Total(layout) \in Nat
      /\ Position <= Total(layout)
      /\ file > NumFiles => Position = Total(layout)
  <2>1. /\ layout \in Layouts /\ offset \in Nat
        /\ file \in 1 .. Len(layout.size) + 1
        /\ file <= Len(layout.size) => offset < layout.size[file]
        /\ file > Len(layout.size) => offset = 0
    BY DEF FilesInv, TypeOK, Place, NumFiles
  <2> QED BY <2>1, PlaceInside DEF Position, NumFiles
<1>3. ASSUME phase = "done"
      PROVE  /\ Position = EndOfPiece
             /\ mems # <<>> /\ blocks # <<>>
             /\ EndOfPiece - index * PieceLength = Taken
  <2>1. Position = FirstByte + (PieceLength - left)
    BY <1>3 DEF CutInv
  <2>2. Position <= (index + 1) * PieceLength
    BY <1>1, <2>1
  <2>3. CASE left = 0
    <3>1. Position = EndOfPiece
      <4>1. Position = (index + 1) * PieceLength
        BY <1>1, <2>1, <2>3, LayoutsAssumption
      <4>2. (index + 1) * PieceLength < Total(layout)
              \/ (index + 1) * PieceLength = Total(layout)
        BY <1>2, <4>1
      <4> QED BY <4>1, <4>2 DEF EndOfPiece
    <3>2. mems # <<>> /\ Taken # 0
      BY <2>3 DEF CutInv, Taken
    <3> QED BY <1>1, <1>3, <2>1, <3>1, <3>2 DEF BlocksInv, Taken
  <2>4. CASE file > NumFiles
    <3>1. Position = EndOfPiece
      BY <1>1, <1>2, <2>2, <2>4 DEF EndOfPiece
    <3>2. Taken # 0
      BY <1>1, <1>2, <2>1, <2>4 DEF Taken
    <3>3. mems # <<>>
      BY <3>2 DEF CutInv, Taken
    <3> QED BY <1>1, <1>3, <2>1, <3>1, <3>2, <3>3 DEF BlocksInv, Taken
  <2> QED BY <1>3, <2>3, <2>4 DEF BlocksInv
<1>4. CoversPiece
  <2>1. mems # <<>> => After(mems[Len(mems)]) = Position
    BY DEF CutInv
  <2> QED BY <1>3, <2>1 DEF CoversPiece, BlocksInv, StretchesEnd
<1>5. BlocksAligned
  <2> SUFFICES ASSUME phase = "done", NEW k \in 1 .. Len(blocks)
               PROVE  LET rest == EndOfPiece - index * PieceLength
                                    - blocks[k].begin
                      IN /\ blocks[k].begin = (k - 1) * PEER_REQUEST_SIZE
                         /\ blocks[k].len = IF rest < PEER_REQUEST_SIZE
                                              THEN rest ELSE PEER_REQUEST_SIZE
    BY DEF BlocksAligned
  <2> DEFINE n == Len(blocks)
  <2>1. /\ blocks[k].begin = Begin(k) /\ k \in Nat \ {0} /\ Begin(k) \in Nat
        /\ EndOfPiece - index * PieceLength = Taken
    <3>1. k \in Nat \ {0} /\ blocks[k].begin = Begin(k)
      BY <1>1 DEF BlocksInv
    <3>2. Begin(k) \in Nat
      BY <3>1, Begins
    <3> QED BY <1>3, <3>1, <3>2
  <2>2. /\ Taken = Begin(n) + blocks[n].len
        /\ blocks[n].len <= PEER_REQUEST_SIZE
        /\ blocks[n].len \in Nat
        /\ n \in Nat \ {0} /\ Begin(n) \in Nat
    <3>1. n \in Nat \ {0} /\ n \in 1 .. Len(blocks)
      BY <1>1, <1>3
    <3>2. blocks[n] \in [begin : Nat, len : Nat]
      BY <1>1, <3>1, ElementOfSeq
    <3>3. Begin(n) \in Nat
      BY <3>1, Begins
    <3> QED BY <1>3, <3>1, <3>2, <3>3 DEF BlocksInv
  <2>3. blocks[k].len = IF Taken - Begin(k) < PEER_REQUEST_SIZE
                          THEN Taken - Begin(k) ELSE PEER_REQUEST_SIZE
    <3> HIDE DEF n
    <3>1. CASE k = n
      BY <2>1, <2>2, <3>1
    <3>2. CASE k # n
      <4>1. k \in 1 .. n - 1 /\ k < n
        BY <2>2, <3>2 DEF n
      <4>2. blocks[k].len = PEER_REQUEST_SIZE
        BY <4>1 DEF BlocksInv, n
      <4>3. Begin(k) + PEER_REQUEST_SIZE <= Begin(n)
        BY <2>1, <2>2, <4>1, Begins
      <4>4. Taken - Begin(k) >= PEER_REQUEST_SIZE
        <5>1. Taken >= Begin(n) /\ Taken \in Nat
          BY <2>2
        <5>2. /\ Begin(n) \in Nat /\ Begin(k) \in Nat
              /\ PEER_REQUEST_SIZE \in Nat
          BY <2>1, <2>2, LayoutsAssumption
        <5> QED BY <4>3, <5>1, <5>2
      <4>5. ~(Taken - Begin(k) < PEER_REQUEST_SIZE)
        <5>1. Taken \in Nat /\ Begin(k) \in Nat /\ PEER_REQUEST_SIZE \in Nat
          BY <2>1, <2>2, LayoutsAssumption
        <5> QED BY <4>4, <5>1
      <4> QED BY <4>2, <4>5
    <3> QED BY <3>1, <3>2
  <2> QED BY <2>1, <2>3 DEF Begin
<1> QED BY <1>4, <1>5 DEF Cut, FilesInv

\* Under the same two conditions the piece is cut as the reference definition
\* says: the stretches reach its end, or the end of the torrent, and no
\* further; blocks begin PEER_REQUEST_SIZE apart, and all but the torrent's
\* last one are whole (next_block_request).
THEOREM CutAsDefined ==
  ASSUME NoWrap, WholeBlocks
  PROVE  Spec => []Cut
<1>1. Init => CutInv /\ BlocksInv
  BY CutInvInitially, BlocksInvInitially
<1>2. FilesInv /\ FilesInv' /\ CutInv /\ [Next]_vars => CutInv'
  BY CutInvStep
<1>3. FilesInv /\ FilesInv' /\ CutInv /\ CutInv' /\ BlocksInv /\ [Next]_vars
        => BlocksInv'
  BY BlocksInvStep
<1>4. FilesInv /\ CutInv /\ BlocksInv => Cut
  BY CutIsWhole
<1> QED BY <1>1, <1>2, <1>3, <1>4, FilesInvariance, PTL DEF Spec

-----------------------------------------------------------------------------
(* The loops end. *)

\* Bytes of the torrent behind the place in the files.
Ahead == Total(layout) - (layout.start[file] + offset)

\* Turns that are left at most: three for each byte, and those that take none.
TurnsLeft ==
  3 * Ahead + (CASE phase = "skip" -> 3
                 [] phase = "blocks" -> 2
                 [] phase = "fill" -> IF curr = 0 THEN 1 ELSE 3
                 [] phase = "done" -> 0)

\* A block is begun only where there is a file to take it from.
TakesSome == phase = "fill" /\ curr = 0 => file <= NumFiles

LEMMA AheadIsNat == FilesInv => Ahead \in Nat
<1> SUFFICES ASSUME FilesInv PROVE Ahead \in Nat
  OBVIOUS
<1>1. /\ layout \in Layouts /\ file \in 1 .. Len(layout.size) + 1 /\ offset \in Nat
      /\ file <= Len(layout.size) => offset < layout.size[file]
      /\ file > Len(layout.size) => offset = 0
  BY DEF FilesInv, TypeOK, Place, NumFiles
<1>2. /\ layout.start[file] + offset \in Nat /\ Total(layout) \in Nat
      /\ layout.start[file] + offset <= Total(layout)
  BY <1>1, PlaceInside
<1> QED BY <1>2 DEF Ahead

\* What a turn of a loop over the files leaves ahead.
LEMMA AheadFalls ==
  ASSUME FilesInv, FilesInv', layout' = layout, file \in 1 .. NumFiles,
         NEW k \in Nat,
         \/ file' = file /\ offset' = offset + k
         \/ file' = file + 1 /\ offset' = 0 /\ offset + k = layout.size[file]
  PROVE  Ahead' = Ahead - k
<1>1. /\ layout.start[file] \in Nat /\ layout.size[file] \in Nat
      /\ layout.start[file + 1] = layout.start[file] + layout.size[file]
      /\ offset \in Nat /\ Total(layout) \in Nat
  <2>1. layout \in Layouts /\ offset \in Nat
    BY DEF FilesInv, TypeOK
  <2>2. file \in 1 .. Len(layout.size)
    BY DEF NumFiles
  <2>3. Len(layout.size) \in Nat
    BY <2>1, LayoutFacts
  <2>4. /\ file \in 1 .. Len(layout.size) + 1
        /\ Len(layout.size) + 1 \in 1 .. Len(layout.size) + 1
    BY <2>2, <2>3
  <2>5. /\ layout.start[file] \in Nat
        /\ layout.start[Len(layout.size) + 1] \in Nat
    BY <2>1, <2>4, LayoutFacts
  <2>6. /\ layout.size[file] \in Nat
        /\ layout.start[file + 1] = layout.start[file] + layout.size[file]
    BY <2>1, <2>2, LayoutFacts
  <2> QED BY <2>1, <2>5, <2>6 DEF Total
<1>2. Ahead' = Total(layout) - (layout.start[file'] + offset')
  BY DEF Ahead
<1>3. layout.start[file'] + offset' = layout.start[file] + offset + k
  <2>1. CASE file' = file /\ offset' = offset + k
    BY <1>1, <2>1
  <2>2. CASE file' = file + 1 /\ offset' = 0 /\ offset + k = layout.size[file]
    BY <1>1, <2>2
  <2> QED BY <2>1, <2>2
<1> QED BY <1>1, <1>2, <1>3 DEF Ahead

\* A turn that moves the place goes on in the same files.
LEMMA TurnsFall ==
  ASSUME FilesInv, FilesInv', TakesSome, Next, Ahead \in Nat, Ahead' \in Nat
  PROVE  TurnsLeft' < TurnsLeft
<1> USE DEF TurnsLeft
<1>1. Ahead \in Nat /\ Ahead' \in Nat
  OBVIOUS
<1>2. CASE skip_file
  <2>1. /\ file \in 1 .. NumFiles /\ layout' = layout /\ phase = "skip"
        /\ offset = 0 /\ layout.size[file] \in Nat \ {0} /\ skip \in Nat
    BY <1>2, LayoutFacts DEF skip_file, FilesInv, TypeOK, Place, NumFiles
  <2>2. CASE layout.size[file] > skip
    <3>1. offset' = offset + skip /\ file' = file /\ phase' = "blocks"
      BY <1>2, <2>1, <2>2 DEF skip_file
    <3>2. Ahead' = Ahead - skip
      BY <2>1, <3>1, AheadFalls
    <3> QED BY <1>1, <2>1, <3>1, <3>2
  <2>3. CASE ~(layout.size[file] > skip)
    <3>1. offset' = 0 /\ file' = file + 1 /\ phase' = phase
      BY <1>2, <2>1, <2>3 DEF skip_file
    <3>2. Ahead' = Ahead - layout.size[file]
      BY <2>1, <3>1, AheadFalls
    <3> QED BY <1>1, <2>1, <3>1, <3>2
  <2> QED BY <2>2, <2>3
<1>3. CASE block_fills
  <2>1. PICK size \in Nat \ {0} :
          /\ \/ /\ offset' = offset + size /\ file' = file
             \/ /\ offset' = 0 /\ file' = file + 1
                /\ offset + size = layout.size[file]
          /\ curr' = curr + size
    BY <1>3, FillFacts
  <2>2. /\ file \in 1 .. NumFiles /\ layout' = layout
        /\ phase = "fill" /\ phase' = "fill" /\ curr \in Nat
    BY <1>3 DEF block_fills, FilesInv, TypeOK
  <2>3. Ahead' = Ahead - size
    BY <2>1, <2>2, AheadFalls
  <2>4. curr' # 0
    BY <2>1, <2>2
  <2> QED BY <1>1, <2>1, <2>2, <2>3, <2>4
<1>4. ASSUME UNCHANGED <<layout, file, offset>>
      PROVE  Ahead' = Ahead
  BY <1>4 DEF Ahead, Total
<1>5. CASE skip_ends
  BY <1>1, <1>4, <1>5 DEF skip_ends
<1>6. CASE block_starts
  BY <1>1, <1>4, <1>6 DEF block_starts
<1>7. CASE block_ends
  <2>1. phase = "fill" /\ phase' = "blocks" /\ Ahead' = Ahead
    BY <1>4, <1>7 DEF block_ends
  <2>2. curr # 0
    <3>1. curr \in Nat /\ PEER_REQUEST_SIZE \in Nat \ {0}
      BY DEF FilesInv, TypeOK
    <3>2. file \in Int /\ NumFiles \in Int
      BY LayoutFacts DEF FilesInv, TypeOK, NumFiles
    <3> QED BY <1>7, <3>1, <3>2 DEF block_ends, TakesSome
  <2> QED BY <1>1, <2>1, <2>2
<1>8. CASE no_more_blocks
  BY <1>1, <1>4, <1>8 DEF no_more_blocks
<1> QED BY <1>2, <1>3, <1>5, <1>6, <1>7, <1>8 DEF Next

\* Of the turns that are left every turn of a loop uses one up, whatever the
\* layout, the piece length and the size of a block, and although left may
\* wrap around: no call of piece_request_create goes on for ever ("otherwise
\* it will lead to an infinite loop").
THEOREM LoopsRunOut ==
  Spec => [](TurnsLeft \in Nat) /\ [][TurnsLeft' < TurnsLeft]_vars
<1>1. Init => TakesSome
  BY DEF Init, TakesSome
<1>2. FilesInv /\ FilesInv' /\ TakesSome /\ [Next]_vars => TakesSome'
  <2> SUFFICES ASSUME FilesInv, FilesInv', TakesSome, [Next]_vars
               PROVE  TakesSome'
    OBVIOUS
  <2>1. CASE block_starts
    BY <2>1 DEF block_starts, TakesSome, NumFiles
  <2>2. CASE block_fills
    <3>1. PICK size \in Nat \ {0} : curr' = curr + size
      BY <2>2, FillFacts
    <3>2. curr \in Nat
      BY DEF FilesInv, TypeOK
    <3> QED BY <3>1, <3>2 DEF TakesSome
  <2>3. CASE skip_file \/ skip_ends \/ block_ends \/ no_more_blocks
    BY <2>3 DEF skip_file, skip_ends, block_ends, no_more_blocks, TakesSome
  <2>4. CASE UNCHANGED vars
    BY <2>4 DEF vars, TakesSome, NumFiles
  <2> QED BY <2>1, <2>2, <2>3, <2>4 DEF Next
<1>3. FilesInv => Ahead \in Nat /\ TurnsLeft \in Nat
  <2> SUFFICES ASSUME FilesInv PROVE Ahead \in Nat /\ TurnsLeft \in Nat
    OBVIOUS
  <2>1. Ahead \in Nat
    BY AheadIsNat
  <2>2. phase \in {"skip", "blocks", "fill", "done"} /\ curr \in Nat
    BY DEF FilesInv, TypeOK
  <2> QED BY <2>1, <2>2 DEF TurnsLeft
<1>4. ASSUME FilesInv, FilesInv', TakesSome, [Next]_vars,
             Ahead \in Nat, (Ahead \in Nat)'
      PROVE  [TurnsLeft' < TurnsLeft]_vars
  <2>1. CASE Next
    <3>1. Ahead' \in Nat
      BY <1>4 DEF Ahead
    <3> QED BY <1>4, <2>1, <3>1, TurnsFall
  <2>2. CASE UNCHANGED vars
    BY <2>2
  <2> QED BY <1>4, <2>1, <2>2
<1> QED BY <1>1, <1>2, <1>3, <1>4, FilesInvariance, PTL DEF Spec
=============================================================================
