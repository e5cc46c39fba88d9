------------------------------ MODULE DnldFile ------------------------------
(***************************************************************************)
(* The files of a torrent on disk (src/dnld_file.cpp and the parts of      *)
(* src/torrent_info.cpp that create and complete them).  A file is created *)
(* under its final name, mapped, and renamed to path.incomplete; when all  *)
(* pieces are verified the files are renamed back one by one.  Nobody      *)
(* notices a rename that fails: after a first one the data goes under the  *)
(* final name, and the second one looks for path.incomplete all the same.  *)
(* A file that cannot be created or mapped is left out, which moves the    *)
(* data of those behind it.  The process may die at any time and be        *)
(* started again; it remembers nothing.                                    *)
(*                                                                         *)
(* Files consist of whole pieces here; PieceRequest has pieces that span   *)
(* files, PeerConnection what happens to one piece.                        *)
(***************************************************************************)
EXTENDS Integers, FiniteSets

CONSTANTS
  Length,       \* per file, in the order of the list: its pieces, maybe 0
  Faults,       \* what may go wrong, in any session and with any file
  MaxSessions   \* bound: how often the program is started

FaultKinds == {"open",      \* open, ftruncate or fstat fails
               "mmap",
               "hide",      \* the rename to path.incomplete fails
               "publish"}   \* the rename from path.incomplete fails

Files == DOMAIN Length

\* A torrent has a file at least.
ASSUME FileAssumption ==
  /\ Cardinality(Files) \in Nat \ {0}
  /\ Files = 1 .. Cardinality(Files)
  /\ Length \in [Files -> Nat]
  /\ Faults \subseteq FaultKinds
  /\ MaxSessions \in Nat

VARIABLES
  final,      \* the file under its final name: {} or {its correct pieces}
  part,       \* the file under path.incomplete, likewise
  pc,         \* "down", "open", "rename", "running", "complete", "ended"
  next,       \* the file that is created or completed
  files,      \* torrent->files
  mapped,     \* the name the mapped file has: "none", "final", "part"
  have,       \* pieces of the torrent that are verified
  sessions,   \* starts of the program
  age,        \* history: starts since the file was whole under its final
              \* name, and Old when something wrong has been written to it
  shown,      \* history: what the last rename to path.incomplete came to:
              \* "no", or it failed, and the name was free ("alone") or that
              \* of a file of an earlier session ("beside")
  unnamed     \* history: files of the session whose last rename has failed

disk == <<final, part>>
vars == <<disk, pc, next, files, mapped, have, sessions, age, shown, unnamed>>

Whole(f) == 1 .. Length[f]
Old == 2

\* The pieces of the files fs that lie before file f, and how many they are.
Before(f, fs) == UNION {{g} \X Whole(g) : g \in {h \in fs : h < f}}
Start(f, fs) == Cardinality(Before(f, fs))
Pieces == 1 .. Start(Cardinality(Files) + 1, Files)

\* Where skip_until_index finds piece p when the torrent's files are fs: in no
\* file when they are too few.
Place(p, fs) ==
  {<<f, p - Start(f, fs)>> :
     f \in {g \in fs : p \in Start(g, fs) + 1 .. Start(g, fs) + Length[g]}}

Init ==
  /\ final = [f \in Files |-> {}]
  /\ part = [f \in Files |-> {}]
  /\ pc = "down"
  /\ next = 1
  /\ files = {}
  /\ mapped = [f \in Files |-> "none"]
  /\ have = {}
  /\ sessions = 0
  /\ age = [f \in Files |-> Old]
  /\ shown = [f \in Files |-> "no"]
  /\ unnamed = {}

-----------------------------------------------------------------------------
start ==
  /\ pc \in {"down", "ended"}
  /\ sessions < MaxSessions
  /\ pc' = "open"
  /\ next' = 1
  /\ sessions' = sessions + 1
  /\ age' = [f \in Files |-> IF age[f] < Old THEN age[f] + 1 ELSE Old]
  /\ unnamed' = {}
  /\ UNCHANGED <<disk, files, mapped, have, shown>>

(* create_and_open, for one file of the list after the other. *)

\* Mutant: the loop takes one turn too many.
AdvancesPastEnd ==
  IF next > Cardinality(Files)
    THEN pc' = "running" /\ UNCHANGED next
    ELSE pc' = "open" /\ next' = next + 1

\* The next file of the list, or the download begins.
Advances ==
  IF next = Cardinality(Files)
    THEN pc' = "running" /\ UNCHANGED next
    ELSE pc' = "open" /\ next' = next + 1

\* The file is left out.
open_fails ==
  /\ pc = "open"
  /\ "open" \in Faults
  /\ final' \in {final, [final EXCEPT ![next] = IF @ = {} THEN {{}} ELSE @]}
  /\ Advances
  /\ UNCHANGED <<part, files, mapped, have, sessions, age, shown, unnamed>>

\* mmap fails for a file without bytes as well, which then is complete.
mmap_fails ==
  /\ pc = "open"
  /\ "mmap" \in Faults \/ Length[next] = 0
  /\ final' = [final EXCEPT ![next] = IF @ = {} THEN {{}} ELSE @]
  /\ Advances
  /\ UNCHANGED <<part, files, mapped, have, sessions, age, shown, unnamed>>

\* What a file has that is opened: all it had.
Opens(content) ==
  /\ pc = "open"
  /\ Length[next] > 0
  /\ final' = [final EXCEPT ![next] = content]
  /\ mapped' = [mapped EXCEPT ![next] = "final"]
  /\ files' = files \cup {next}
  /\ pc' = "rename"
  /\ UNCHANGED <<part, next, have, sessions, age, shown, unnamed>>

\* Mutant: O_TRUNC.
open_truncates == Opens({{}})

open_and_map == Opens(IF final[next] = {} THEN {{}} ELSE final[next])

\* Mutant: the file keeps its name.
rename_forgotten ==
  /\ pc = "rename"
  /\ Advances
  /\ UNCHANGED <<disk, files, mapped, have, sessions, age, shown, unnamed>>

\* path.incomplete of an earlier session is replaced.
rename_incomplete ==
  /\ pc = "rename"
  /\ part' = [part EXCEPT ![next] = final[next]]
  /\ final' = [final EXCEPT ![next] = {}]
  /\ mapped' = [mapped EXCEPT ![next] = "part"]
  /\ shown' = [shown EXCEPT ![next] = "no"]
  /\ Advances
  /\ UNCHANGED <<files, have, sessions, age, unnamed>>

\* The file keeps its final name, and path.incomplete what it was.
rename_fails ==
  /\ pc = "rename"
  /\ "hide" \in Faults
  /\ shown' = [shown EXCEPT ![next] = IF part[next] = {} THEN "alone" ELSE "beside"]
  /\ Advances
  /\ UNCHANGED <<disk, files, mapped, have, sessions, age, unnamed>>

-----------------------------------------------------------------------------
(* The download: a piece is written where the files that are there put it, *)
(* and verified by what is read from that place.                           *)

Write(f, content) ==
  IF mapped[f] = "part"
    THEN part' = [part EXCEPT ![f] = {content}] /\ UNCHANGED final
    ELSE final' = [final EXCEPT ![f] = {content}] /\ UNCHANGED part

Content(f) ==
  CHOOSE c \in IF mapped[f] = "part" THEN part[f] ELSE final[f] : TRUE

valid_piece(p) ==
  /\ pc = "running"
  /\ p \notin have
  /\ \E place \in Place(p, files) :
       LET f == place[1] i == place[2]
       IN IF place \in Place(p, Files)
            THEN Write(f, Content(f) \cup {i}) /\ UNCHANGED age
            ELSE /\ Write(f, Content(f) \ {i})
                 /\ age' = [age EXCEPT ![f] = Old]
  /\ have' = have \cup {p}
  /\ UNCHANGED <<pc, next, files, mapped, sessions, shown, unnamed>>

corrupt_piece(p) ==
  /\ pc = "running"
  /\ p \notin have
  /\ \E place \in Place(p, files) :
       LET f == place[1] i == place[2]
       IN /\ Write(f, Content(f) \ {i})
          /\ age' = [age EXCEPT ![f] = Old]
  /\ UNCHANGED <<pc, next, files, mapped, have, sessions, shown, unnamed>>

\* Mutant: completion with a piece missing.
completes_early ==
  /\ pc = "running"
  /\ Cardinality(have) + 1 >= Cardinality(Pieces)
  /\ pc' = "complete"
  /\ UNCHANGED <<disk, next, files, mapped, have, sessions, age, shown, unnamed>>

\* torrent_complete, which then completes file by file.
torrent_complete ==
  /\ pc = "running"
  /\ have = Pieces
  /\ pc' = "complete"
  /\ UNCHANGED <<disk, next, files, mapped, have, sessions, age, shown, unnamed>>

\* The file whose turn it is in torrent_complete.
Completes(f) ==
  /\ pc = "complete"
  /\ mapped[f] # "none"
  /\ \A g \in Files : mapped[g] # "none" => f <= g
  /\ mapped' = [mapped EXCEPT ![f] = "none"]
  /\ UNCHANGED <<pc, next, files, have, sessions, shown>>

\* complete of one file: the rename, and close_and_free.  What is renamed is
\* what path.incomplete names, be it the mapped file or that of an earlier
\* session, which then replaces the mapped one; without it the file has its
\* final name already.
complete(f) ==
  /\ Completes(f)
  /\ IF part[f] = {}
       THEN UNCHANGED disk
       ELSE /\ final' = [final EXCEPT ![f] = part[f]]
            /\ part' = [part EXCEPT ![f] = {}]
  /\ age' = [age EXCEPT ![f] = IF final'[f] = {Whole(f)} THEN 0 ELSE Old]
  /\ UNCHANGED unnamed

\* Nobody notices when the rename fails.
complete_fails(f) ==
  /\ "publish" \in Faults
  /\ part[f] # {}
  /\ Completes(f)
  /\ unnamed' = unnamed \cup {f}
  /\ UNCHANGED <<disk, age>>

\* The program ends.
ends ==
  /\ pc = "complete"
  /\ \A f \in Files : mapped[f] = "none"
  /\ pc' = "ended"
  /\ files' = {}
  /\ have' = {}
  /\ UNCHANGED <<disk, next, mapped, sessions, age, shown, unnamed>>

\* The process dies.  What it wrote to its mapped files stays in them.
crash ==
  /\ pc \notin {"down", "ended"}
  /\ pc' = "down"
  /\ files' = {}
  /\ have' = {}
  /\ mapped' = [f \in Files |-> "none"]
  /\ UNCHANGED <<disk, next, sessions, age, shown, unnamed>>

Runs ==
  \/ open_fails \/ mmap_fails \/ open_and_map
  \/ rename_incomplete \/ rename_fails
  \/ torrent_complete
  \/ \E f \in Files : complete(f) \/ complete_fails(f)
  \/ ends

Next ==
  \/ start
  \/ Runs
  \/ \E p \in Pieces : valid_piece(p) \/ corrupt_piece(p)
  \/ crash

Spec == Init /\ [][Next]_vars

-----------------------------------------------------------------------------
TypeOK ==
  /\ final \in [Files -> SUBSET SUBSET Nat]
  /\ part \in [Files -> SUBSET SUBSET Nat]
  /\ \A f \in Files : \A c \in final[f] \cup part[f] : c \subseteq Whole(f)
  /\ \A f \in Files : Cardinality(final[f]) <= 1 /\ Cardinality(part[f]) <= 1
  /\ pc \in {"down", "open", "rename", "running", "complete", "ended"}
  /\ next \in Files
  /\ files \subseteq Files
  /\ mapped \in [Files -> {"none", "final", "part"}]
  /\ have \subseteq Pieces
  /\ sessions \in 0 .. MaxSessions
  /\ age \in [Files -> 0 .. Old]
  /\ shown \in [Files -> {"no", "alone", "beside"}]
  /\ unnamed \subseteq Files

\* When the program has ended by itself, every file that has bytes is whole
\* under one of its names, wherever earlier sessions died, whatever files could
\* not be created then and whatever renames failed unnoticed; it is under its
\* final name, and no path.incomplete is left, unless the last rename failed.
\* The one exception is a file that could not be hidden while path.incomplete
\* of an earlier session stood beside it: the last rename replaces it by that.
EndsWhole ==
  pc = "ended" => \A f \in Files : Length[f] > 0 =>
    \/ shown[f] = "beside" /\ f \notin unnamed
    \/ /\ Whole(f) \in final[f] \cup part[f]
       /\ f \notin unnamed => final[f] = {Whole(f)} /\ part[f] = {}

\* "torrent completed" is printed when every file is whole under one of its
\* names.  (Violated.)
CompletedIsWhole ==
  pc = "ended" =>
    \A f \in Files : Length[f] > 0 => Whole(f) \in final[f] \cup part[f]

\* Whoever looks at a final name finds nothing, a file with none of the data
\* yet, or the whole file, never one that is being downloaded or that a crash
\* left unfinished, unless the last session that opened it could not hide it.
FinalNeverPartial ==
  \A f \in Files : shown[f] = "no" => \A c \in final[f] : c \in {{}, Whole(f)}

\* What is on the disk: names with contents of their types, none unfinished.
Names == TypeOK /\ FinalNeverPartial

\* A file that was whole under its final name when it was completed survives
\* the next start of the program, and a crash of that session, under one of
\* its names, whichever renames fail, as long as nothing corrupt is written to
\* it.  (The start after that replaces it.)
SurvivesOneStart ==
  \A f \in Files : age[f] < Old => Whole(f) \in final[f] \cup part[f]
=============================================================================
