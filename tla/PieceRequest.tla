---------------------------- MODULE PieceRequest ----------------------------
(***************************************************************************)
(* piece_request_create of src/piece_request.cpp: it cuts a piece into     *)
(* blocks of PEER_REQUEST_SIZE bytes and each block into the stretches of  *)
(* mapped files (file_mem) that hold it.  Downloads write through the      *)
(* result and torrent_sha1_verify reads through it.  One action is one     *)
(* turn of one of its loops.                                               *)
(***************************************************************************)
EXTENDS Integers, Sequences

CONSTANTS
  Layouts,            \* the ways the torrent may be split into files
  PieceLength,        \* torrent->piece_length
  PEER_REQUEST_SIZE,  \* bytes in a block
  UINT,               \* 2^(width of unsigned)
  SIZE                \* 2^(width of size_t)

\* A layout has the size of each file and where it starts in the torrent.
\* populate_files_from_list leaves out the files that are empty.
IsLayout(l) ==
  LET n == Len(l.size)
  IN /\ l = [size |-> l.size, start |-> l.start]
     /\ l.size \in Seq(Nat \ {0})
     /\ n > 0
     /\ l.start \in [1 .. n + 1 -> Nat]
     /\ l.start[1] = 0
     /\ \A i \in 1 .. n : l.start[i + 1] = l.start[i] + l.size[i]

ASSUME LayoutsAssumption ==
  /\ \A l \in Layouts : IsLayout(l)
  /\ PieceLength \in Nat \ {0}
  /\ PEER_REQUEST_SIZE \in Nat \ {0}
  /\ UINT \in Nat \ {0}
  /\ SIZE \in Nat \ {0}
  /\ PieceLength < SIZE

VARIABLES
  layout,    \* the files of the torrent
  index,     \* the piece
  phase,     \* the loop that runs: "skip", "blocks", "fill", or "done"
  skip,      \* skip_until_index: bytes of earlier pieces still to skip
  file,      \* files_vec_index, counted from 1
  offset,    \* bytes of that file used up
  left,      \* bytes of the piece not cut yet
  curr,      \* curr_size: bytes of the current block
  blocks,    \* block_requests: where each begins in the piece, its length
  mems       \* the file_mems of all blocks in order

vars == <<layout, index, phase, skip, file, offset, left, curr, blocks, mems>>

NumFiles == Len(layout.size)
Total(l) == l.start[Len(l.size) + 1]

Init ==
  /\ layout \in Layouts
  /\ index \in {i \in 0 .. Total(layout) - 1 : i * PieceLength < Total(layout)}
  /\ phase = "skip"
  /\ skip = (PieceLength * index) % UINT
  /\ file = 1
  /\ offset = 0
  /\ left = PieceLength
  /\ curr = 0
  /\ blocks = <<>>
  /\ mems = <<>>

\* The loop of skip_until_index over the files.
skip_file ==
  /\ phase = "skip"
  /\ skip > 0
  /\ file <= NumFiles
  /\ IF layout.size[file] > skip
       THEN /\ offset' = skip
            /\ phase' = "blocks"
            /\ UNCHANGED <<skip, file>>
       ELSE /\ skip' = skip - layout.size[file]
            /\ file' = file + 1
            /\ UNCHANGED <<offset, phase>>
  /\ UNCHANGED <<layout, index, left, curr, blocks, mems>>

skip_ends ==
  /\ phase = "skip"
  /\ skip = 0 \/ file > NumFiles
  /\ phase' = "blocks"
  /\ UNCHANGED <<layout, index, skip, file, offset, left, curr, blocks, mems>>

\* Mutant: begin counts from the start of the file.
begin_in_file ==
  /\ phase = "blocks"
  /\ left # 0
  /\ file <= NumFiles
  /\ blocks' = Append(blocks, [begin |-> offset, len |-> 0])
  /\ curr' = 0
  /\ phase' = "fill"
  /\ UNCHANGED <<layout, index, skip, file, offset, left, mems>>

\* next_block_request, up to its loop.
block_starts ==
  /\ phase = "blocks"
  /\ left # 0
  /\ file <= NumFiles
  /\ blocks' = Append(blocks,
                      [begin |-> (PieceLength - left) % SIZE, len |-> 0])
  /\ curr' = 0
  /\ phase' = "fill"
  /\ UNCHANGED <<layout, index, skip, file, offset, left, mems>>

\* Mutants of the loop: a file that ends with the block is not left; what was
\* used of the file is not subtracted; offset is not reset; left stays.
Fills(rest, within, reset, taken) ==
  LET room == PEER_REQUEST_SIZE - curr
      size == IF rest > room THEN room ELSE rest
  IN /\ phase = "fill"
     /\ file <= NumFiles
     /\ curr < PEER_REQUEST_SIZE
     /\ IF rest > room \/ (within /\ rest = room)
          THEN offset' = offset + size /\ UNCHANGED file
          ELSE offset' = (IF reset THEN 0 ELSE offset) /\ file' = file + 1
     /\ left' = IF taken THEN (left - size) % SIZE ELSE left
     /\ mems' = Append(mems, [file |-> file, from |-> offset,
                              size |-> size, block |-> Len(blocks)])
     /\ curr' = curr + size
     /\ UNCHANGED <<layout, index, phase, skip, blocks>>

file_not_left == Fills(layout.size[file] - offset, TRUE, TRUE, TRUE)
used_not_subtracted == Fills(layout.size[file], FALSE, TRUE, TRUE)
offset_not_reset == Fills(layout.size[file] - offset, FALSE, FALSE, TRUE)
left_not_counted == Fills(layout.size[file] - offset, FALSE, TRUE, FALSE)

\* One turn of its loop takes a stretch of one file.
block_fills ==
  /\ phase = "fill"
  /\ file <= NumFiles
  /\ curr < PEER_REQUEST_SIZE
  /\ LET rest == layout.size[file] - offset
         room == PEER_REQUEST_SIZE - curr
         size == IF rest > room THEN room ELSE rest
     IN /\ IF rest > room
             THEN offset' = offset + size /\ UNCHANGED file
             ELSE offset' = 0 /\ file' = file + 1
        /\ left' = (left - size) % SIZE
        /\ mems' = Append(mems, [file |-> file, from |-> offset,
                                 size |-> size, block |-> Len(blocks)])
        /\ curr' = curr + size
  /\ UNCHANGED <<layout, index, phase, skip, blocks>>

block_ends ==
  /\ phase = "fill"
  /\ curr >= PEER_REQUEST_SIZE \/ file > NumFiles
  /\ blocks' = [blocks EXCEPT ![Len(blocks)].len = curr]
  /\ phase' = "blocks"
  /\ UNCHANGED <<layout, index, skip, file, offset, left, curr, mems>>

\* Mutant: the check of files_vec_index is left out.
files_not_checked ==
  /\ phase = "blocks"
  /\ left = 0
  /\ phase' = "done"
  /\ UNCHANGED <<layout, index, skip, file, offset, left, curr, blocks, mems>>

\* next_block_request returns NULL.
no_more_blocks ==
  /\ phase = "blocks"
  /\ left = 0 \/ file > NumFiles
  /\ phase' = "done"
  /\ UNCHANGED <<layout, index, skip, file, offset, left, curr, blocks, mems>>

Next ==
  \/ skip_file \/ skip_ends
  \/ block_starts \/ block_fills \/ block_ends
  \/ no_more_blocks

Spec == Init /\ [][Next]_vars
FairSpec == Spec /\ WF_vars(Next)

-----------------------------------------------------------------------------
\* The variables keep their types; no file_mem is empty.
TypeOK ==
  /\ layout \in Layouts
  /\ index \in Nat
  /\ phase \in {"skip", "blocks", "fill", "done"}
  /\ skip \in Nat
  /\ file \in 1 .. NumFiles + 1
  /\ offset \in Nat
  /\ left \in Nat
  /\ curr \in 0 .. PEER_REQUEST_SIZE
  /\ blocks \in Seq([begin : Nat, len : Nat])
  /\ mems \in Seq([file : 1 .. NumFiles, from : Nat, size : Nat \ {0},
                   block : Nat])

\* First byte of a stretch, and the byte after its last, in the torrent.
First(m) == layout.start[m.file] + m.from
After(m) == First(m) + m.size

\* Every stretch lies inside the file it is in: writing a block or verifying
\* a piece stays inside the mapping.
InsideFiles ==
  \A j \in 1 .. Len(mems) :
    mems[j].from + mems[j].size <= layout.size[mems[j].file]

\* The stretches of a piece follow each other without a gap or an overlap,
\* from the first byte of the piece, across the boundaries of blocks and
\* files: what the SHA1 is computed over is the piece.
Contiguous ==
  /\ mems # <<>> => First(mems[1]) = index * PieceLength
  /\ \A j \in 1 .. Len(mems) - 1 : After(mems[j]) = First(mems[j + 1])

\* The stretches stay inside the piece, and at the end they reach its end
\* or the end of the torrent.
EndOfPiece ==
  LET a == (index + 1) * PieceLength
      b == Total(layout)
  IN IF a < b THEN a ELSE b

CoversPiece ==
  /\ \A j \in 1 .. Len(mems) : After(mems[j]) <= EndOfPiece
  /\ phase = "done" => mems # <<>> /\ After(mems[Len(mems)]) = EndOfPiece

\* A finished block is what the reference definition says: blocks begin
\* PEER_REQUEST_SIZE apart, and only the last one of the torrent is short.
BlocksAligned ==
  phase = "done" =>
    \A k \in 1 .. Len(blocks) :
      LET rest == EndOfPiece - index * PieceLength - blocks[k].begin
      IN /\ blocks[k].begin = (k - 1) * PEER_REQUEST_SIZE
         /\ blocks[k].len = IF rest < PEER_REQUEST_SIZE
                              THEN rest ELSE PEER_REQUEST_SIZE

\* How the piece is cut: variables of their types, stretches that are all of
\* it, and blocks where the reference definition puts them.
Cut == TypeOK /\ CoversPiece /\ BlocksAligned

\* Every request begins inside its piece ("begin: specifying the zero-based
\* byte offset within the piece", src/peer_msg.h:32), while the piece is cut as
\* well as at the end.  This needs a piece length of whole blocks.
BeginInPiece == \A k \in 1 .. Len(blocks) : blocks[k].begin < PieceLength

\* The loops end ("otherwise it will lead to an infinite loop").
Terminates == <>(phase = "done")
=============================================================================
