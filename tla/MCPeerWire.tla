----------------------------- MODULE MCPeerWire -----------------------------
(* Values of the constants of PeerWire for TLC. *)
EXTENDS PeerWire

Of(kind, len) == [kind |-> kind, len |-> len, mems |-> <<>>]

\* A block in two files, one in one file, and messages of each other length.
Good ==
  {Of("KEEPALIVE", 0), Of("CHOKE", 1), Of("HAVE", 5),
   [kind |-> "PIECE", len |-> 12, mems |-> <<1, 3>>],
   [kind |-> "PIECE", len |-> 11, mems |-> <<2>>]}

\* What the code has no reader for, or another length.
MCMessages ==
  Good \cup {Of("BITFIELD", 2), Of("REQUEST", 13), Of("CANCEL", 13),
             Of("CANCEL", 1), Of("PORT", 3), Of("OTHER", 2)}
=============================================================================
