--------------------------- MODULE MCBtDownload ---------------------------
(* Values of the constants of BtDownload for TLC. *)
EXTENDS BtDownload

\* Two pieces, the first of two blocks, the last a short one.
MCNumBlocks == [p \in 0 .. NumPieces - 1 |-> IF p = 0 THEN 2 ELSE 1]

\* One block was on disk before the program started.
MCOnDisk == {<<0, 1>>}
=============================================================================
