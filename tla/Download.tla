------------------------------ MODULE Download ------------------------------
(***************************************************************************)
(* What a download promises, without connections: pieces are gained one at *)
(* a time, a piece only when its content is the right one, content of a    *)
(* piece that was gained stays as it is, and the download is complete when *)
(* the last piece is gained.                                               *)
(***************************************************************************)
EXTENDS Naturals

CONSTANTS
  Piece,          \* the pieces of the torrent
  Content         \* the blocks that make up each piece

VARIABLES
  have,           \* pieces gained
  good,           \* blocks with the right bytes on disk
  complete        \* the files have been handed over

vars == <<have, good, complete>>

Init ==
  /\ have = {}
  /\ complete = FALSE

\* Blocks of pieces not gained yet may come and go.
Overwrite ==
  \A p \in have : Content[p] \cap good' = Content[p] \cap good

Gain ==
  \E p \in Piece \ have :
    /\ have' = have \cup {p}
    /\ Content[p] \subseteq good'
    /\ complete' = (have' = Piece)

Next ==
  /\ ~complete
  /\ Overwrite
  /\ Gain \/ UNCHANGED <<have, complete>>

Spec == Init /\ [][Next]_vars
=============================================================================
