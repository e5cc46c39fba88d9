------------------------- MODULE MCTrackerAnnounce -------------------------
(* Values of the constants of TrackerAnnounce for TLC. *)
EXTENDS TrackerAnnounce

\* A good answer, one with a failure reason, an error, one without a
\* Content-Length, and one longer than a buffer of 4 units.
MCAnswers ==
  {[ok |-> TRUE, header |-> 1, body |-> 2, length |-> 2, interval |-> 30, peers |-> 1],
   [ok |-> TRUE, header |-> 1, body |-> 1, length |-> 1, interval |-> 0, peers |-> 0],
   [ok |-> FALSE, header |-> 1, body |-> 0, length |-> 0, interval |-> 0, peers |-> 0],
   [ok |-> TRUE, header |-> 2, body |-> 1, length |-> 0, interval |-> 0, peers |-> 0],
   [ok |-> TRUE, header |-> 2, body |-> 3, length |-> 3, interval |-> 30, peers |-> 2]}
============================================================================
