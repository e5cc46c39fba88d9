--------------------------- MODULE MCPieceRequest ---------------------------
(* Values of the constants of PieceRequest for TLC. *)
EXTENDS PieceRequest

CONSTANTS MaxFiles, MaxSize   \* bounds: files in a torrent, bytes in a file

RECURSIVE Sum(_, _)
Sum(s, n) == IF n = 0 THEN 0 ELSE s[n] + Sum(s, n - 1)

\* Every torrent of at most MaxFiles files of at most MaxSize bytes.
MCLayouts ==
  UNION {{[size |-> s, start |-> [i \in 1 .. n + 1 |-> Sum(s, i - 1)]] :
            s \in [1 .. n -> 1 .. MaxSize]} : n \in 1 .. MaxFiles}
=============================================================================
