---------------------------- MODULE MCDnldFile ----------------------------
(* Values of the constants of DnldFile for TLC. *)
EXTENDS DnldFile, Sequences

\* A file without bytes between two others.
MCLength == <<2, 0, 1>>
=============================================================================
