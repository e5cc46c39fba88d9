--------------------------- MODULE DnldFileProofs ---------------------------
(***************************************************************************)
(* Proofs about DnldFile: what is found under the names of the files,      *)
(* whole or not, through any number of sessions, crashes and failures, for *)
(* any list of files.                                                      *)
(***************************************************************************)
EXTENDS DnldFile, FunctionTheorems, FiniteSetTheorems, TLAPS

N == Cardinality(Files)

\* A name of file f is not used, or is that of a file with some of its pieces.
Held(f, name) == name = {} \/ \E c \in SUBSET Whole(f) : name = {c}

\* What the mapped file f is on the disk.
Disk(f) == IF mapped[f] = "part" THEN part[f] ELSE final[f]

\* Every file that has bytes could be created.
AllThere == \A f \in Files : Length[f] > 0 => f \in files

\* The type invariant, with the contents of the names spelled out.
Types ==
  /\ final \in [Files -> SUBSET SUBSET Nat]
  /\ part \in [Files -> SUBSET SUBSET Nat]
  /\ \A f \in Files : Held(f, final[f]) /\ Held(f, part[f])
  /\ pc \in {"down", "open", "rename", "running", "complete", "ended"}
  /\ next \in Files
  /\ files \subseteq Files
  /\ mapped \in [Files -> {"none", "final", "part"}]
  /\ have \subseteq Pieces
  /\ sessions \in 0 .. MaxSessions
  /\ age \in [Files -> 0 .. Old]
  /\ shown \in [Files -> {"no", "alone", "beside"}]
  /\ unnamed \subseteq Files

\* Which files are open when, and under which of their names.
Session ==
  /\ pc \in {"down", "ended"} =>
       files = {} /\ \A f \in Files : mapped[f] = "none"
  /\ pc \in {"down", "ended", "open", "rename"} => have = {}
  /\ pc \in {"open", "rename", "running"} =>
       \A f \in Files : f \in files <=> mapped[f] # "none"
  /\ pc = "open" => \A f \in files : f < next
  /\ pc = "rename" => mapped[next] = "final" /\ \A f \in files : f <= next
  /\ \A f \in Files :
       /\ mapped[f] # "none" => Length[f] > 0 /\ Disk(f) # {}
       /\ mapped[f] = "part" => shown[f] = "no"
       /\ mapped[f] = "final" => shown[f] # "no" \/ (pc = "rename" /\ f = next)
       /\ shown[f] = "alone" => part[f] = {}
       /\ f \in unnamed => pc \in {"complete", "down", "ended"} /\ mapped[f] = "none"

\* A verified piece has a place, and is there when no file is missing.
Verified ==
  pc = "running" =>
    /\ \A p \in have : Place(p, files) # {}
    /\ AllThere =>
         \A f \in files : \A i \in Whole(f) :
           Start(f, Files) + i \in have => Disk(f) = {Content(f)} /\ i \in Content(f)

\* When all pieces are verified, every file is whole, and stays so while the
\* files get their final names.
Published ==
  pc \in {"complete", "ended"} =>
    \A f \in Files : Length[f] > 0 =>
      /\ mapped[f] # "none" => Disk(f) = {Whole(f)}
      /\ mapped[f] = "none" =>
           \/ shown[f] = "beside" /\ f \notin unnamed
           \/ /\ Whole(f) \in final[f] \cup part[f]
              /\ f \notin unnamed => final[f] = {Whole(f)} /\ part[f] = {}

\* A file that was completed has its final name until the next start, and what
\* the session renames it to until the one after that.
Kept ==
  \A f \in Files :
    /\ age[f] = 0 => /\ pc \in {"complete", "down", "ended"}
                     /\ mapped[f] = "none"
                     /\ final[f] = {Whole(f)}
    /\ age[f] = 1 =>
         /\ mapped[f] # "none" => Disk(f) = {Whole(f)}
         /\ mapped[f] = "none" => Whole(f) \in final[f] \cup part[f]
         /\ mapped[f] = "none" /\ pc \in {"open", "rename"} => final[f] = {Whole(f)}

IInv == Types /\ Session /\ Verified /\ Published /\ FinalNeverPartial /\ Kept

-----------------------------------------------------------------------------
(* Where the pieces are. *)

LEMMA FileFacts ==
  /\ N \in Nat \ {0} /\ Files = 1 .. N /\ IsFiniteSet(Files)
  /\ \A f \in Files : /\ f \in Nat /\ Length[f] \in Nat
                      /\ Whole(f) \subseteq Nat
                      /\ IsFiniteSet(Whole(f)) /\ Cardinality(Whole(f)) = Length[f]
<1>1. N \in Nat \ {0} /\ Files = 1 .. N
  BY FileAssumption DEF N
<1>2. IsFiniteSet(Files)
  BY <1>1, FS_Interval
<1>3. ASSUME NEW f \in Files
      PROVE  /\ f \in Nat /\ Length[f] \in Nat
             /\ Whole(f) \subseteq Nat
             /\ IsFiniteSet(Whole(f)) /\ Cardinality(Whole(f)) = Length[f]
  <2>1. Length[f] \in Nat
    BY FileAssumption
  <2>2. 1 \in Int /\ Length[f] \in Int
    BY <2>1
  <2>3. IsFiniteSet(1 .. Length[f]) /\ Cardinality(1 .. Length[f]) = Length[f]
    <3> HIDE FileAssumption
    <3>1. Length[f] - 1 + 1 = Length[f] /\ (1 > Length[f] <=> Length[f] = 0)
      BY <2>1
    <3> QED BY <2>1, <2>2, <3>1, FS_Interval
  <2> QED BY <1>1, <2>1, <2>3 DEF Whole
<1> QED BY <1>1, <1>2, <1>3

\* The pieces before a file are finitely many, so that Start counts them.
LEMMA StartCounts ==
  ASSUME NEW fs \in SUBSET Files, NEW f \in Nat
  PROVE  IsFiniteSet(Before(f, fs)) /\ Start(f, fs) \in Nat
<1> DEFINE G == {h \in fs : h < f}
           S == {{g} \X Whole(g) : g \in G}
           F == [g \in G |-> {g} \X Whole(g)]
<1>1. IsFiniteSet(G)
  BY FileFacts, FS_Subset
<1>2. F \in Surjection(G, S)
  BY DEF Surjection
<1>3. IsFiniteSet(S)
  BY <1>1, <1>2, FS_Surjection
<1>4. \A g \in G : IsFiniteSet({g} \X Whole(g))
  BY FileFacts, FS_Singleton, FS_Product
<1>5. IsFiniteSet(UNION S)
  BY <1>3, <1>4, FS_UNION
<1>6. IsFiniteSet(Before(f, fs))
  BY <1>5 DEF Before
<1> QED BY <1>6, FS_CardinalityType DEF Start

LEMMA BeforeHas ==
  ASSUME NEW fs, NEW f, NEW x
  PROVE  x \in Before(f, fs) <=> \E g \in fs : g < f /\ x \in {g} \X Whole(g)
  BY DEF Before

\* Each file has room for its pieces before any later one begins.
LEMMA RangesFit ==
  ASSUME NEW fs \in SUBSET Files, NEW g \in fs, NEW h \in Nat, g < h
  PROVE  Start(g, fs) + Length[g] <= Start(h, fs)
<1> DEFINE B == Before(g, fs)
           W == {g} \X Whole(g)
           E == Before(h, fs)
<1>1. g \in Files /\ g \in Nat /\ \A k \in fs : k \in Nat
  BY FileFacts
<1>2. IsFiniteSet(B) /\ IsFiniteSet(E) /\ Cardinality(B) \in Nat /\ Cardinality(E) \in Nat
  BY <1>1, StartCounts DEF Start
<1>3. IsFiniteSet(W) /\ Cardinality(W) = Length[g]
  <2>1. IsFiniteSet({g}) /\ Cardinality({g}) = 1
    BY FS_Singleton
  <2>2. IsFiniteSet(Whole(g)) /\ Cardinality(Whole(g)) = Length[g] /\ Length[g] \in Nat
    BY <1>1, FileFacts
  <2>3. IsFiniteSet(W) /\ Cardinality(W) = 1 * Length[g]
    BY <2>1, <2>2, FS_Product
  <2> QED BY <2>2, <2>3
<1>4. B \cap W = {}
  <2>1. ASSUME NEW x \in B, x \in W PROVE FALSE
    <3>1. PICK k \in fs : k < g /\ x \in {k} \X Whole(k)
      BY <2>1, BeforeHas
    <3>2. x[1] = k /\ x[1] = g
      BY <2>1, <3>1
    <3> QED BY <1>1, <3>1, <3>2
  <2> QED BY <2>1
<1>5. B \cup W \subseteq E
  <2>1. ASSUME NEW x \in B PROVE x \in E
    <3>1. PICK k \in fs : k < g /\ x \in {k} \X Whole(k)
      BY <2>1, BeforeHas
    <3> QED BY <1>1, <3>1, BeforeHas
  <2>2. ASSUME NEW x \in W PROVE x \in E
    BY <1>1, <2>2, BeforeHas
  <2> QED BY <2>1, <2>2
<1>6. Cardinality(B \cup W) = Cardinality(B) + Length[g]
  <2>1. Cardinality(B \cup W) = Cardinality(B) + Cardinality(W) - Cardinality(B \cap W)
    BY <1>2, <1>3, FS_Union
  <2>2. Cardinality(B \cap W) = 0
    BY <1>4, FS_EmptySet
  <2>3. Length[g] \in Nat
    BY <1>1, FileFacts
  <2> QED BY <1>2, <1>3, <2>1, <2>2, <2>3
<1>7. Cardinality(B \cup W) <= Cardinality(E)
  BY <1>2, <1>5, FS_Subset
<1> QED BY <1>6, <1>7 DEF Start

\* A file that is missing leaves less room than the torrent has pieces.
LEMMA MissingLess ==
  ASSUME NEW fs \in SUBSET Files, NEW f \in Files \ fs, Length[f] > 0
  PROVE  Start(N + 1, fs) < Start(N + 1, Files)
<1> DEFINE B == Before(N + 1, fs)
           E == Before(N + 1, Files)
<1>1. N + 1 \in Nat /\ f \in Nat /\ f < N + 1 /\ 1 \in Whole(f)
  BY FileFacts DEF Whole
<1>2. IsFiniteSet(B) /\ IsFiniteSet(E) /\ Cardinality(B) \in Nat /\ Cardinality(E) \in Nat
  BY <1>1, StartCounts DEF Start
<1>3. B \subseteq E
  BY BeforeHas
<1>4. <<f, 1>> \in E
  <2>1. <<f, 1>> \in {f} \X Whole(f)
    BY <1>1
  <2> QED BY <1>1, <2>1, BeforeHas
<1>5. <<f, 1>> \notin B
  <2>1. ASSUME NEW g \in fs, <<f, 1>> \in {g} \X Whole(g) PROVE FALSE
    BY <2>1
  <2> QED BY <2>1, BeforeHas
<1>6. Cardinality(B) <= Cardinality(E) /\ (Cardinality(E) = Cardinality(B) => E = B)
  BY <1>2, <1>3, FS_Subset
<1> QED BY <1>2, <1>4, <1>5, <1>6 DEF Start

\* Files without bytes take no room.
LEMMA SameStart ==
  ASSUME NEW fs \in SUBSET Files, \A f \in Files : Length[f] > 0 => f \in fs, NEW g
  PROVE  Start(g, fs) = Start(g, Files)
<1>1. \A f \in Files \ fs : Whole(f) = {}
  BY FileFacts DEF Whole
<1>2. Before(g, fs) = Before(g, Files)
  <2>1. ASSUME NEW x \in Before(g, Files) PROVE x \in Before(g, fs)
    <3>1. PICK h \in Files : h < g /\ x \in {h} \X Whole(h)
      BY <2>1, BeforeHas
    <3>2. h \in fs
      BY <1>1, <3>1
    <3> QED BY <3>1, <3>2, BeforeHas
  <2>2. Before(g, fs) \subseteq Before(g, Files)
    BY BeforeHas
  <2> QED BY <2>1, <2>2
<1> QED BY <1>2 DEF Start

LEMMA PlaceHas ==
  ASSUME NEW fs \in SUBSET Files, NEW p \in Int, NEW place \in Place(p, fs)
  PROVE  /\ place[1] \in fs /\ place[2] \in Whole(place[1])
         /\ p = Start(place[1], fs) + place[2]
         /\ p <= Start(N + 1, fs)
         /\ place = <<place[1], place[2]>>
<1>1. PICK g \in fs : /\ p \in Start(g, fs) + 1 .. Start(g, fs) + Length[g]
                      /\ place = <<g, p - Start(g, fs)>>
  BY DEF Place
<1>2. g \in Nat /\ Length[g] \in Nat /\ Start(g, fs) \in Nat /\ N + 1 \in Nat
  BY FileFacts, StartCounts
<1>3. Start(N + 1, fs) \in Nat /\ Start(g, fs) + Length[g] <= Start(N + 1, fs)
  <2>1. g < N + 1
    BY FileFacts
  <2> QED BY <1>2, <2>1, StartCounts, RangesFit
<1> QED BY <1>1, <1>2, <1>3 DEF Whole

-----------------------------------------------------------------------------
(* The start of a session. *)

LEMMA InitIInv == Init => IInv
<1> SUFFICES ASSUME Init PROVE IInv
  OBVIOUS
<1>1. /\ pc = "down" /\ next = 1 /\ files = {} /\ have = {} /\ sessions = 0
      /\ unnamed = {}
      /\ final \in [Files -> SUBSET SUBSET Nat] /\ part \in [Files -> SUBSET SUBSET Nat]
      /\ mapped \in [Files -> {"none", "final", "part"}]
      /\ age \in [Files -> 0 .. Old]
      /\ shown \in [Files -> {"no", "alone", "beside"}]
      /\ \A f \in Files : /\ final[f] = {} /\ part[f] = {}
                          /\ mapped[f] = "none" /\ age[f] = 2
  BY DEF Init, Old
<1>2. 1 \in Files /\ 0 \in 0 .. MaxSessions
  BY FileFacts, FileAssumption
<1>3. Types
  BY <1>1, <1>2 DEF Types, Held
<1>4. Session /\ Verified /\ Published /\ FinalNeverPartial /\ Kept
  BY <1>1 DEF Session, Verified, Published, FinalNeverPartial, Kept
<1> QED BY <1>3, <1>4 DEF IInv

LEMMA StartStep ==
  ASSUME IInv, start
  PROVE  IInv'
<1>1. /\ pc \in {"down", "ended"} /\ pc' = "open" /\ next' = 1 /\ unnamed' = {}
      /\ sessions < MaxSessions /\ sessions' = sessions + 1
      /\ UNCHANGED <<final, part, files, mapped, have, shown>>
      /\ age' = [f \in Files |-> IF age[f] < Old THEN age[f] + 1 ELSE Old]
  BY DEF start, disk
<1>2. Types /\ Session /\ FinalNeverPartial /\ Kept
  BY DEF IInv
<1>3. /\ age' \in [Files -> 0 .. Old]
      /\ \A f \in Files : age'[f] # 0 /\ (age'[f] = 1 => age[f] = 0)
  <2>1. \A f \in Files : age[f] \in 0 .. 2
    BY <1>2 DEF Types, Old
  <2> QED BY <1>1, <2>1 DEF Old
<1>4. Types'
  <2>1. next' \in Files /\ sessions' \in 0 .. MaxSessions
    BY <1>1, <1>2, FileFacts, FileAssumption DEF Types
  <2> QED BY <1>1, <1>2, <1>3, <2>1 DEF Types, Held
<1>5. Session'
  BY <1>1, <1>2 DEF Session
<1>6. Verified' /\ Published' /\ FinalNeverPartial'
  BY <1>1, <1>2 DEF Verified, Published, FinalNeverPartial
<1>7. Kept'
  BY <1>1, <1>2, <1>3 DEF Kept, Session
<1> QED BY <1>4, <1>5, <1>6, <1>7 DEF IInv

LEMMA Advancing ==
  ASSUME Types, Advances
  PROVE  /\ next' \in Files
         /\ pc' \in {"open", "running"}
         /\ pc' = "open" => next' = next + 1
         /\ next \in Nat /\ \A f \in Files : f \in Nat
<1>1. next \in Files
  BY DEF Types
<1> QED BY <1>1, FileFacts DEF Advances, N

\* A file that is left out may be created, empty, but loses nothing.
LEMMA LeftOutStep ==
  ASSUME IInv, open_fails \/ mmap_fails
  PROVE  IInv'
<1>1. /\ pc = "open" /\ Advances
      /\ UNCHANGED <<part, files, mapped, have, sessions, age, shown, unnamed>>
      /\ \/ final' = final
         \/ final' = [final EXCEPT ![next] = IF @ = {} THEN {{}} ELSE @]
  BY Zenon DEF open_fails, mmap_fails
<1>2. Types /\ Session /\ FinalNeverPartial /\ Kept
  BY DEF IInv
<1>3. /\ next' \in Files /\ pc' \in {"open", "running"}
      /\ pc' = "open" => next' = next + 1
      /\ next \in Nat /\ \A f \in Files : f \in Nat
  BY <1>1, <1>2, Advancing
<1>4. /\ final' \in [Files -> SUBSET SUBSET Nat]
      /\ \A f \in Files :
           \/ final'[f] = final[f]
           \/ f = next /\ final[f] = {} /\ final'[f] = {{}}
  BY <1>1, <1>2 DEF Types
<1>5. mapped[next] = "none" /\ next \in Files
  BY <1>1, <1>2, <1>3 DEF Types, Session
<1>6. Types'
  <2>1. \A f \in Files : Held(f, final'[f])
    BY <1>2, <1>4 DEF Types, Held
  <2> QED BY <1>1, <1>2, <1>3, <1>4, <2>1 DEF Types, Held
<1>7. Session'
  <2>1. \A f \in Files : mapped[f] # "none" => Disk(f)' = Disk(f)
    BY <1>1, <1>4, <1>5 DEF Disk
  <2> QED BY <1>1, <1>2, <1>3, <1>4, <2>1 DEF Types, Session
<1>8. Verified' /\ Published' /\ FinalNeverPartial'
  BY <1>1, <1>2, <1>3, <1>4 DEF Session, Verified, Published, FinalNeverPartial
<1>9. Kept'
  BY <1>1, <1>2, <1>3, <1>4, <1>5 DEF Kept, Disk
<1> QED BY <1>6, <1>7, <1>8, <1>9 DEF IInv

LEMMA OpenStep ==
  ASSUME IInv, open_and_map
  PROVE  IInv'
<1>1. /\ pc = "open" /\ pc' = "rename" /\ Length[next] > 0
      /\ final' = [final EXCEPT ![next] = IF final[next] = {} THEN {{}} ELSE final[next]]
      /\ mapped' = [mapped EXCEPT ![next] = "final"]
      /\ files' = files \cup {next}
      /\ UNCHANGED <<part, next, have, sessions, age, shown, unnamed>>
  BY DEF open_and_map, Opens
<1>2. Types /\ Session /\ FinalNeverPartial /\ Kept
  BY DEF IInv
<1>3. /\ next \in Files /\ mapped[next] = "none"
      /\ \A f \in Files : f \in Nat
  BY <1>1, <1>2, FileFacts DEF Types, Session
<1>4. /\ final' \in [Files -> SUBSET SUBSET Nat]
      /\ mapped' \in [Files -> {"none", "final", "part"}]
      /\ mapped'[next] = "final"
      /\ final'[next] = IF final[next] = {} THEN {{}} ELSE final[next]
      /\ \A f \in Files : f # next => final'[f] = final[f] /\ mapped'[f] = mapped[f]
  BY <1>1, <1>2, <1>3 DEF Types
<1>5. Types'
  <2>1. \A f \in Files : Held(f, final'[f])
    <3>1. Held(next, final'[next])
      <4>1. Held(next, final[next])
        BY <1>2, <1>3 DEF Types
      <4>2. CASE final[next] = {}
        BY <1>4, <4>2 DEF Held
      <4>3. CASE final[next] # {}
        BY <1>4, <4>1, <4>3
      <4> QED BY <4>2, <4>3
    <3>2. ASSUME NEW f \in Files, f # next PROVE Held(f, final'[f])
      BY <1>2, <1>4, <3>2 DEF Types
    <3> QED BY <3>1, <3>2
  <2> QED BY <1>1, <1>2, <1>3, <1>4, <2>1 DEF Types, Held
<1>6. /\ Disk(next)' = final'[next]
      /\ \A f \in Files : f # next => Disk(f)' = Disk(f)
  BY <1>1, <1>3, <1>4 DEF Disk
<1>7. Session'
  <2>1. \A f \in files' : f <= next
    BY <1>1, <1>2, <1>3 DEF Types, Session
  <2>2. \A f \in Files : f \in files' <=> mapped'[f] # "none"
    BY <1>1, <1>2, <1>3, <1>4 DEF Session
  <2>3. ASSUME NEW f \in Files, mapped'[f] # "none"
        PROVE  Length[f] > 0 /\ Disk(f)' # {}
    <3>1. CASE f = next
      BY <1>1, <1>4, <1>6, <3>1
    <3>2. CASE f # next
      BY <1>2, <1>4, <1>6, <2>3, <3>2 DEF Session
    <3> QED BY <3>1, <3>2
  <2>4. \A f \in Files : mapped'[f] = "part" => shown[f] = "no"
    BY <1>2, <1>4 DEF Session
  <2>5. \A f \in Files : mapped'[f] = "final" => shown[f] # "no" \/ f = next
    BY <1>1, <1>2, <1>4 DEF Session
  <2>6. \A f \in Files : (shown[f] = "alone" => part[f] = {}) /\ f \notin unnamed
    BY <1>1, <1>2 DEF Session
  <2> QED BY <1>1, <1>2, <1>4, <2>1, <2>2, <2>3, <2>4, <2>5, <2>6 DEF Session
<1>8. Verified' /\ Published' /\ FinalNeverPartial'
  BY <1>1, <1>2, <1>3, <1>4 DEF Verified, Published, FinalNeverPartial
<1>9. Kept'
  BY <1>1, <1>2, <1>3, <1>4, <1>6 DEF Kept
<1> QED BY <1>5, <1>7, <1>8, <1>9 DEF IInv

\* The first rename, done or failed.
LEMMA RenameStep ==
  ASSUME IInv, rename_incomplete \/ rename_fails
  PROVE  IInv'
<1>1. /\ pc = "rename" /\ Advances
      /\ \/ /\ part' = [part EXCEPT ![next] = final[next]]
            /\ final' = [final EXCEPT ![next] = {}]
            /\ mapped' = [mapped EXCEPT ![next] = "part"]
            /\ shown' = [shown EXCEPT ![next] = "no"]
         \/ /\ UNCHANGED <<final, part, mapped>>
            /\ shown' = [shown EXCEPT ![next] =
                           IF part[next] = {} THEN "alone" ELSE "beside"]
      /\ UNCHANGED <<files, have, sessions, age, unnamed>>
  BY DEF rename_incomplete, rename_fails, disk
<1>2. Types /\ Session /\ FinalNeverPartial /\ Kept
  BY DEF IInv
<1>3. /\ next' \in Files /\ pc' \in {"open", "running"}
      /\ pc' = "open" => next' = next + 1
      /\ next \in Nat /\ \A f \in Files : f \in Nat
  BY <1>1, <1>2, Advancing
<1>4. next \in Files /\ mapped[next] = "final"
  BY <1>1, <1>2 DEF Types, Session
<1>5. /\ final' \in [Files -> SUBSET SUBSET Nat]
      /\ part' \in [Files -> SUBSET SUBSET Nat]
      /\ mapped' \in [Files -> {"none", "final", "part"}]
      /\ shown' \in [Files -> {"no", "alone", "beside"}]
      /\ \A f \in Files : f # next =>
           /\ final'[f] = final[f] /\ part'[f] = part[f]
           /\ mapped'[f] = mapped[f] /\ shown'[f] = shown[f]
      /\ \/ /\ part'[next] = final[next] /\ final'[next] = {}
            /\ mapped'[next] = "part" /\ shown'[next] = "no"
         \/ /\ part'[next] = part[next] /\ final'[next] = final[next]
            /\ mapped'[next] = mapped[next]
            /\ shown'[next] = IF part[next] = {} THEN "alone" ELSE "beside"
  BY <1>1, <1>2, <1>4 DEF Types
<1>6. Types'
  <2>1. /\ \A f \in Files : Held(f, final[f]) /\ Held(f, part[f])
        /\ \A f \in Files : Held(f, {})
    BY <1>2 DEF Types, Held
  <2>2. \A f \in Files : Held(f, final'[f]) /\ Held(f, part'[f])
    BY <1>5, <2>1
  <2> QED BY <1>1, <1>2, <1>3, <1>5, <2>2 DEF Types, Held
<1>7. \A f \in Files : Disk(f)' = Disk(f) \/ mapped[f] = "none"
  BY <1>4, <1>5 DEF Disk
<1>8. Session'
  <2>1. \A f \in Files : f \in files <=> mapped'[f] # "none"
    BY <1>1, <1>2, <1>4, <1>5 DEF Session
  <2>2. pc' = "open" => \A f \in files : f < next'
    BY <1>1, <1>2, <1>3 DEF Types, Session
  <2>3. ASSUME NEW f \in Files
        PROVE  /\ mapped'[f] # "none" => Length[f] > 0 /\ Disk(f)' # {}
               /\ mapped'[f] = "part" => shown'[f] = "no"
               /\ mapped'[f] = "final" => shown'[f] # "no"
               /\ shown'[f] = "alone" => part'[f] = {}
               /\ f \notin unnamed
    <3>1. CASE f = next
      BY <1>1, <1>2, <1>4, <1>5, <1>7, <3>1 DEF Session
    <3>2. CASE f # next
      BY <1>1, <1>2, <1>5, <1>7, <3>2 DEF Session
    <3> QED BY <3>1, <3>2
  <2> QED BY <1>1, <1>2, <1>3, <2>1, <2>2, <2>3 DEF Session
<1>9. Verified' /\ Published' /\ FinalNeverPartial'
  BY <1>1, <1>2, <1>3, <1>5 DEF Session, Verified, Published, FinalNeverPartial
<1>10. Kept'
  BY <1>1, <1>2, <1>3, <1>4, <1>5, <1>7 DEF Kept
<1> QED BY <1>6, <1>8, <1>9, <1>10 DEF IInv

-----------------------------------------------------------------------------
(* The download. *)

LEMMA ContentOf ==
  ASSUME Types, Session, NEW f \in Files, mapped[f] # "none"
  PROVE  Content(f) \in SUBSET Whole(f) /\ Disk(f) = {Content(f)}
<1>1. PICK c \in SUBSET Whole(f) : Disk(f) = {c}
  BY DEF Types, Session, Held, Disk
<1>2. Content(f) = CHOOSE d \in {c} : TRUE
  BY <1>1 DEF Content, Disk
<1>3. Content(f) = c
  BY <1>2
<1> QED BY <1>1, <1>3

\* A write goes to one file, under the name that it has in the session.
LEMMA Writing ==
  ASSUME Types, Session, pc = "running",
         NEW f \in files, NEW content \in SUBSET Whole(f), Write(f, content),
         mapped' = mapped
  PROVE  /\ final' \in [Files -> SUBSET SUBSET Nat]
         /\ part' \in [Files -> SUBSET SUBSET Nat]
         /\ \A g \in Files : Held(g, final'[g]) /\ Held(g, part'[g])
         /\ \A g \in Files : IF shown[g] = "no" THEN final'[g] = final[g]
                                            ELSE part'[g] = part[g]
         /\ Disk(f)' = {content}
         /\ \A g \in Files : g # f => final'[g] = final[g] /\ part'[g] = part[g]
         /\ \A g \in Files : g # f => Disk(g)' = Disk(g)
<1>1. f \in Files /\ mapped[f] # "none" /\ content \in SUBSET Nat
  BY FileFacts DEF Types, Session
<1>2. CASE mapped[f] = "part"
  <2>1. part' = [part EXCEPT ![f] = {content}] /\ final' = final /\ shown[f] = "no"
    BY <1>1, <1>2 DEF Write, Session
  <2>2. part'[f] = {content} /\ \A g \in Files : g # f => part'[g] = part[g]
    BY <1>1, <2>1 DEF Types
  <2> QED BY <1>1, <1>2, <2>1, <2>2 DEF Types, Held, Disk
<1>3. CASE mapped[f] = "final"
  <2>1. final' = [final EXCEPT ![f] = {content}] /\ part' = part /\ shown[f] # "no"
    BY <1>1, <1>3 DEF Write, Session
  <2>2. final'[f] = {content} /\ \A g \in Files : g # f => final'[g] = final[g]
    BY <1>1, <2>1 DEF Types
  <2> QED BY <1>1, <1>3, <2>1, <2>2 DEF Types, Held, Disk
<1> QED BY <1>1, <1>2, <1>3 DEF Types

\* A place belongs to one piece only.
LEMMA PlaceOnce ==
  ASSUME NEW f \in Files, NEW g \in Files, NEW i \in Whole(f), NEW j \in Whole(g),
         Start(f, Files) + i = Start(g, Files) + j
  PROVE  f = g /\ i = j
<1>1. /\ f \in Nat /\ g \in Nat /\ i \in 1 .. Length[f] /\ j \in 1 .. Length[g]
      /\ Length[f] \in Nat /\ Length[g] \in Nat
  BY FileFacts DEF Whole
<1>2. Start(f, Files) \in Nat /\ Start(g, Files) \in Nat
  BY <1>1, StartCounts
<1>3. /\ f < g => Start(f, Files) + Length[f] <= Start(g, Files)
      /\ g < f => Start(g, Files) + Length[g] <= Start(f, Files)
  BY <1>1, RangesFit
<1> QED BY <1>1, <1>2, <1>3

\* What the two kinds of piece have in common: the file f gets content, which
\* differs from what it had in piece i only, and is what it was or is not called
\* whole any more.
LEMMA PieceStep ==
  ASSUME IInv, pc = "running", NEW p \in Pieces, p \notin have,
         NEW f \in files, NEW i \in Whole(f), p = Start(f, files) + i,
         NEW content \in {Content(f) \cup {i}, Content(f) \ {i}}, Write(f, content),
         UNCHANGED <<pc, next, files, mapped, sessions, shown, unnamed>>,
         \/ have' = have
         \/ have' = have \cup {p} /\ (AllThere => content = Content(f) \cup {i}),
         \/ age' = age /\ content = Content(f) \cup {i}
         \/ age' = [age EXCEPT ![f] = Old]
  PROVE  IInv'
<1>0. Types /\ Session /\ Verified /\ FinalNeverPartial /\ Kept
  BY DEF IInv
<1>1. f \in Files /\ mapped[f] # "none"
  BY <1>0 DEF Types, Session
<1>2. Content(f) \in SUBSET Whole(f) /\ Disk(f) = {Content(f)}
  BY <1>0, <1>1, ContentOf
<1>3. content \in SUBSET Whole(f)
  BY <1>2
<1>4. /\ final' \in [Files -> SUBSET SUBSET Nat]
      /\ part' \in [Files -> SUBSET SUBSET Nat]
      /\ \A g \in Files : Held(g, final'[g]) /\ Held(g, part'[g])
      /\ \A g \in Files : IF shown[g] = "no" THEN final'[g] = final[g]
                                         ELSE part'[g] = part[g]
      /\ Disk(f)' = {content}
      /\ \A g \in Files : g # f => final'[g] = final[g] /\ part'[g] = part[g]
      /\ \A g \in Files : g # f => Disk(g)' = Disk(g)
  BY <1>0, <1>3, Writing
<1>5. /\ age' \in [Files -> 0 .. Old]
      /\ \A g \in Files : g # f => age'[g] = age[g]
      /\ age'[f] = 2 \/ (age'[f] = age[f] /\ content = Content(f) \cup {i})
  BY <1>0, <1>1 DEF Types, Old
<1>6. Types'
  BY <1>0, <1>4, <1>5 DEF Types, Held
<1>7. Session'
  BY <1>0, <1>4 DEF Session
<1>8. Verified'
  <2>1. \A q \in have' : Place(q, files') # {}
    <3>1. Start(f, files) \in Nat /\ Length[f] \in Nat /\ i \in 1 .. Length[f]
      BY <1>0, <1>1, FileFacts, StartCounts DEF Types, Whole
    <3>2. p \in Start(f, files) + 1 .. Start(f, files) + Length[f]
      BY <3>1
    <3>3. <<f, p - Start(f, files)>> \in Place(p, files)
      BY <3>2 DEF Place
    <3> QED BY <1>0, <3>3 DEF Verified
  <2>2. ASSUME AllThere, NEW g \in files, NEW j \in Whole(g), Start(g, Files) + j \in have'
        PROVE  Disk(g)' = {Content(g)'} /\ j \in Content(g)'
    <3>1. g \in Files /\ mapped'[g] # "none" /\ Start(f, files) = Start(f, Files)
      BY <1>0, <2>2, SameStart DEF Types, Session, AllThere
    <3>2. Disk(g)' = {Content(g)'}
      <4>1. Types' /\ Session' => Disk(g)' = {Content(g)'}
        <5>1. ASSUME Types', Session' PROVE Disk(g)' = {Content(g)'}
          <6>1. PICK c \in SUBSET Whole(g) : Disk(g)' = {c}
            BY <3>1, <5>1 DEF Types, Session, Held, Disk
          <6>2. Content(g)' = CHOOSE d \in {c} : TRUE
            BY <6>1 DEF Content, Disk
          <6> QED BY <6>1, <6>2
        <5> QED BY <5>1
      <4> QED BY <1>6, <1>7, <4>1
    <3>3. CASE Start(g, Files) + j = p
      <4>1. g = f /\ j = i
        BY <1>1, <3>1, <3>3, PlaceOnce
      <4>2. content = Content(f) \cup {i}
        BY <2>2, <3>3
      <4> QED BY <1>4, <3>2, <4>1, <4>2
    <3>4. CASE Start(g, Files) + j # p
      <4>1. Start(g, Files) + j \in have
        BY <2>2, <3>4
      <4>2. Disk(g) = {Content(g)} /\ j \in Content(g)
        BY <1>0, <2>2, <4>1 DEF Verified
      <4>3. CASE g = f
        <5>1. j # i
          BY <3>1, <3>4, <4>3
        <5> QED BY <1>4, <3>2, <4>2, <4>3, <5>1
      <4>4. CASE g # f
        BY <1>4, <3>1, <3>2, <4>2, <4>4
      <4> QED BY <4>3, <4>4
    <3> QED BY <3>3, <3>4
  <2>3. AllThere' => AllThere
    BY DEF AllThere
  <2> QED BY <2>1, <2>2, <2>3 DEF Verified
<1>9. Published' /\ FinalNeverPartial'
  BY <1>0, <1>4 DEF Published, FinalNeverPartial
<1>10. Kept'
  <2>1. age'[f] = 1 => Disk(f)' = {Whole(f)}
    <3>1. ASSUME age'[f] = 1 PROVE Disk(f)' = {Whole(f)}
      <4>1. age[f] = 1 /\ content = Content(f) \cup {i}
        BY <1>5, <3>1
      <4>2. {Content(f)} = {Whole(f)}
        BY <1>0, <1>1, <1>2, <4>1 DEF Kept
      <4>3. content = Whole(f)
        BY <4>1, <4>2
      <4> QED BY <1>4, <4>3
    <3> QED BY <3>1
  <2>2. age'[f] # 0
    BY <1>0, <1>1, <1>5 DEF Kept
  <2> QED BY <1>0, <1>1, <1>4, <1>5, <2>1, <2>2 DEF Kept
<1> QED BY <1>6, <1>7, <1>8, <1>9, <1>10 DEF IInv

LEMMA ValidStep ==
  ASSUME IInv, NEW p \in Pieces, valid_piece(p)
  PROVE  IInv'
<1>0. Types
  BY DEF IInv
<1>1. PICK place \in Place(p, files) :
        LET f == place[1] i == place[2]
        IN IF place \in Place(p, Files)
             THEN Write(f, Content(f) \cup {i}) /\ UNCHANGED age
             ELSE Write(f, Content(f) \ {i}) /\ age' = [age EXCEPT ![f] = Old]
  BY DEF valid_piece
<1> DEFINE f == place[1]
           i == place[2]
<1>2. p \in Int /\ files \in SUBSET Files
  BY <1>0 DEF Pieces, Types
<1>3. f \in files /\ i \in Whole(f) /\ p = Start(f, files) + i /\ place = <<f, i>>
  BY <1>2, PlaceHas
<1>4. AllThere => place \in Place(p, Files)
  <2>1. ASSUME AllThere PROVE place \in Place(p, Files)
    <3>1. Start(f, files) = Start(f, Files) /\ Start(f, files) \in Nat
      BY <1>2, <1>3, <2>1, SameStart, StartCounts, FileFacts DEF AllThere
    <3>2. f \in Files /\ p - Start(f, Files) = i
          /\ p \in Start(f, Files) + 1 .. Start(f, Files) + Length[f]
      BY <1>2, <1>3, <3>1, FileFacts DEF Whole
    <3>3. place = <<f, p - Start(f, Files)>>
      BY <1>3, <3>2
    <3> QED BY <3>2, <3>3 DEF Place
  <2> QED BY <2>1
<1>5. /\ pc = "running" /\ p \notin have /\ have' = have \cup {p}
      /\ UNCHANGED <<pc, next, files, mapped, sessions, shown, unnamed>>
  BY DEF valid_piece
<1>6. CASE place \in Place(p, Files)
  <2>1. Write(f, Content(f) \cup {i}) /\ age' = age
    BY <1>1, <1>6
  <2> HIDE DEF f, i
  <2> QED BY <1>3, <1>5, <2>1, PieceStep
<1>7. CASE place \notin Place(p, Files)
  <2>1. Write(f, Content(f) \ {i}) /\ age' = [age EXCEPT ![f] = Old] /\ ~AllThere
    BY <1>1, <1>4, <1>7
  <2> HIDE DEF f, i
  <2> QED BY <1>3, <1>5, <2>1, PieceStep
<1> QED BY <1>6, <1>7

LEMMA CorruptStep ==
  ASSUME IInv, NEW p \in Pieces, corrupt_piece(p)
  PROVE  IInv'
<1>0. Types
  BY DEF IInv
<1>1. PICK place \in Place(p, files) :
        LET f == place[1] i == place[2]
        IN Write(f, Content(f) \ {i}) /\ age' = [age EXCEPT ![f] = Old]
  BY DEF corrupt_piece
<1> DEFINE f == place[1]
           i == place[2]
<1>2. p \in Int /\ files \in SUBSET Files
  BY <1>0 DEF Pieces, Types
<1>3. f \in files /\ i \in Whole(f) /\ p = Start(f, files) + i
  BY <1>2, PlaceHas
<1>4. /\ pc = "running" /\ p \notin have /\ have' = have
      /\ UNCHANGED <<pc, next, files, mapped, sessions, shown, unnamed>>
  BY DEF corrupt_piece
<1>5. Write(f, Content(f) \ {i}) /\ age' = [age EXCEPT ![f] = Old]
  BY <1>1
<1> HIDE DEF f, i
<1> QED BY <1>3, <1>4, <1>5, PieceStep

-----------------------------------------------------------------------------
(* The end of a session. *)

\* All pieces can be verified only if all files are there: with one missing,
\* the last piece has no place.
LEMMA AllVerified ==
  ASSUME Types, Session, Verified, pc = "running", have = Pieces
  PROVE  \A f \in Files : Length[f] > 0 => mapped[f] # "none" /\ Disk(f) = {Whole(f)}
<1>1. files \in SUBSET Files /\ N + 1 \in Nat /\ N + 1 = Cardinality(Files) + 1
  BY FileFacts DEF Types, N
<1>2. Start(N + 1, Files) \in Nat /\ Start(N + 1, files) \in Nat
      /\ Pieces = 1 .. Start(N + 1, Files)
  BY <1>1, StartCounts DEF Pieces
<1>3. AllThere
  <2>1. ASSUME NEW f \in Files, Length[f] > 0, f \notin files PROVE FALSE
    <3>1. Start(N + 1, files) < Start(N + 1, Files)
      BY <1>1, <2>1, MissingLess
    <3>2. Start(N + 1, Files) \in have
      BY <1>2, <3>1
    <3>3. PICK place : place \in Place(Start(N + 1, Files), files)
      BY <3>2 DEF Verified
    <3>4. Start(N + 1, Files) <= Start(N + 1, files)
      BY <1>1, <1>2, <3>3, PlaceHas
    <3> QED BY <1>2, <3>1, <3>4
  <2> QED BY <2>1 DEF AllThere
<1>4. ASSUME NEW f \in Files, Length[f] > 0
      PROVE  mapped[f] # "none" /\ Disk(f) = {Whole(f)}
  <2>1. f \in files /\ mapped[f] # "none"
    BY <1>3, <1>4 DEF AllThere, Session
  <2>2. ASSUME NEW i \in Whole(f) PROVE Disk(f) = {Content(f)} /\ i \in Content(f)
    <3>1. f \in Nat /\ f < N + 1 /\ Length[f] \in Nat /\ i \in 1 .. Length[f]
      BY FileFacts DEF Whole
    <3>2. Start(f, Files) \in Nat /\ Start(f, Files) + Length[f] <= Start(N + 1, Files)
      BY <1>1, <3>1, StartCounts, RangesFit
    <3>3. Start(f, Files) + i \in have
      BY <1>2, <3>1, <3>2
    <3> QED BY <1>3, <2>1, <3>3 DEF Verified
  <2>3. 1 \in Whole(f)
    BY <1>4, FileFacts DEF Whole
  <2>4. Content(f) \in SUBSET Whole(f)
    BY <2>1, ContentOf
  <2> QED BY <2>1, <2>2, <2>3, <2>4
<1> QED BY <1>4

LEMMA TorrentCompleteStep ==
  ASSUME IInv, torrent_complete
  PROVE  IInv'
<1>1. /\ pc = "running" /\ have = Pieces /\ pc' = "complete"
      /\ UNCHANGED <<final, part, next, files, mapped, have, sessions, age, shown, unnamed>>
  BY DEF torrent_complete, disk
<1>2. Types /\ Session /\ Verified /\ FinalNeverPartial /\ Kept
  BY DEF IInv
<1>3. Types' /\ Verified' /\ FinalNeverPartial'
  <2>1. Types'
    BY <1>1, <1>2 DEF Types, Held
  <2>2. Verified'
    BY <1>1 DEF Verified
  <2>3. FinalNeverPartial'
    BY <1>1, <1>2 DEF FinalNeverPartial
  <2> QED BY <2>1, <2>2, <2>3
<1>4. Session'
  BY <1>1, <1>2 DEF Session, Disk
<1>5. Published'
  BY <1>1, <1>2, AllVerified DEF Published, Disk
<1>6. Kept'
  BY <1>1, <1>2 DEF Kept, Disk
<1> QED BY <1>3, <1>4, <1>5, <1>6 DEF IInv

LEMMA CompleteStep ==
  ASSUME IInv, NEW f \in Files, complete(f)
  PROVE  IInv'
<1>1. /\ pc = "complete" /\ mapped[f] # "none"
      /\ mapped' = [mapped EXCEPT ![f] = "none"]
      /\ UNCHANGED <<pc, next, files, have, sessions, shown, unnamed>>
      /\ IF part[f] = {}
           THEN UNCHANGED <<final, part>>
           ELSE /\ final' = [final EXCEPT ![f] = part[f]]
                /\ part' = [part EXCEPT ![f] = {}]
      /\ age' = [age EXCEPT ![f] = IF final'[f] = {Whole(f)} THEN 0 ELSE Old]
  BY DEF complete, Completes, disk
<1>2. Types /\ Session /\ Published /\ FinalNeverPartial /\ Kept
  BY DEF IInv
<1>3. Length[f] > 0 /\ Disk(f) = {Whole(f)}
  BY <1>1, <1>2 DEF Session, Published
<1>4. /\ final' \in [Files -> SUBSET SUBSET Nat]
      /\ part' \in [Files -> SUBSET SUBSET Nat]
      /\ mapped' \in [Files -> {"none", "final", "part"}]
      /\ age' \in [Files -> 0 .. Old]
      /\ mapped'[f] = "none" /\ age'[f] = IF final'[f] = {Whole(f)} THEN 0 ELSE 2
      /\ final'[f] = IF part[f] = {} THEN final[f] ELSE part[f]
      /\ part'[f] = {}
      /\ \A g \in Files : g # f =>
           /\ final'[g] = final[g] /\ part'[g] = part[g]
           /\ mapped'[g] = mapped[g] /\ age'[g] = age[g]
           /\ Disk(g)' = Disk(g)
  BY <1>1, <1>2 DEF Types, Old, Disk
<1>5. shown[f] # "beside" => final'[f] = {Whole(f)}
  <2>1. CASE mapped[f] = "part"
    BY <1>3, <1>4, <2>1 DEF Disk
  <2>2. CASE mapped[f] = "final"
    <3>1. shown[f] = "alone" => part[f] = {}
      BY <1>2 DEF Session
    <3>2. shown[f] \in {"alone", "beside"}
      BY <1>1, <1>2, <2>2 DEF Types, Session
    <3> QED BY <1>3, <1>4, <2>2, <3>1, <3>2 DEF Disk
  <2> QED BY <1>1, <1>2, <2>1, <2>2 DEF Types
<1>6. Types'
  <2>1. \A g \in Files : Held(g, final'[g]) /\ Held(g, part'[g])
    <3>1. Held(f, final'[f]) /\ Held(f, part'[f])
      <4>1. Held(f, final[f]) /\ Held(f, part[f])
        BY <1>2 DEF Types
      <4>2. final'[f] = final[f] \/ final'[f] = part[f]
        BY <1>4
      <4> QED BY <1>4, <4>1, <4>2 DEF Held
    <3>2. \A g \in Files : g # f => Held(g, final'[g]) /\ Held(g, part'[g])
      BY <1>2, <1>4 DEF Types
    <3> QED BY <3>1, <3>2
  <2> QED BY <1>1, <1>2, <1>4, <2>1 DEF Types, Held
<1>7. Session' /\ Verified'
  BY <1>1, <1>2, <1>4 DEF Session, Verified
<1>8. Published' /\ FinalNeverPartial'
  <2>1. f \notin unnamed
    BY <1>1, <1>2 DEF Session
  <2> QED BY <1>1, <1>2, <1>4, <1>5, <2>1 DEF Published, FinalNeverPartial
<1>9. Kept'
  <2>1. /\ age'[f] = 0 => final'[f] = {Whole(f)}
        /\ age'[f] # 1
    BY <1>4
  <2> QED BY <1>1, <1>2, <1>4, <2>1 DEF Kept
<1> QED BY <1>6, <1>7, <1>8, <1>9 DEF IInv

LEMMA CompleteFailsStep ==
  ASSUME IInv, NEW f \in Files, complete_fails(f)
  PROVE  IInv'
<1>1. /\ pc = "complete" /\ mapped[f] # "none" /\ part[f] # {}
      /\ mapped' = [mapped EXCEPT ![f] = "none"]
      /\ unnamed' = unnamed \cup {f}
      /\ UNCHANGED <<final, part, pc, next, files, have, sessions, age, shown>>
  BY DEF complete_fails, Completes, disk
<1>2. Types /\ Session /\ Published /\ FinalNeverPartial /\ Kept
  BY DEF IInv
<1>3. Length[f] > 0 /\ Disk(f) = {Whole(f)}
  BY <1>1, <1>2 DEF Session, Published
<1>4. /\ mapped' \in [Files -> {"none", "final", "part"}]
      /\ mapped'[f] = "none"
      /\ \A g \in Files : g # f => mapped'[g] = mapped[g] /\ Disk(g)' = Disk(g)
  BY <1>1, <1>2 DEF Types, Disk
<1>5. Whole(f) \in final[f] \cup part[f]
  BY <1>3 DEF Disk
<1>6. Types' /\ FinalNeverPartial'
  <2>1. Types'
    BY <1>1, <1>2, <1>4 DEF Types, Held
  <2> QED BY <1>1, <1>2, <2>1 DEF FinalNeverPartial
<1>7. Session' /\ Verified'
  <2>1. Session'
    BY <1>1, <1>2, <1>4 DEF Session
  <2> QED BY <1>1, <2>1 DEF Verified
<1>8. Published' /\ Kept'
  BY <1>1, <1>2, <1>4, <1>5 DEF Published, Kept
<1> QED BY <1>6, <1>7, <1>8 DEF IInv

LEMMA EndsStep ==
  ASSUME IInv, ends
  PROVE  IInv'
<1>1. /\ pc = "complete" /\ pc' = "ended" /\ files' = {} /\ have' = {}
      /\ \A f \in Files : mapped[f] = "none"
      /\ UNCHANGED <<final, part, next, mapped, sessions, age, shown, unnamed>>
  BY DEF ends, disk
<1>2. Types /\ Session /\ Published /\ FinalNeverPartial /\ Kept
  BY DEF IInv
<1>3. Types'
  BY <1>1, <1>2 DEF Types, Held
<1>4. Session'
  BY <1>1, <1>2 DEF Session, Disk
<1>5. Verified' /\ Published' /\ FinalNeverPartial'
  BY <1>1, <1>2 DEF Verified, Published, FinalNeverPartial
<1>6. Kept'
  BY <1>1, <1>2 DEF Kept, Disk
<1> QED BY <1>3, <1>4, <1>5, <1>6 DEF IInv

LEMMA CrashStep ==
  ASSUME IInv, crash
  PROVE  IInv'
<1>1. /\ pc \notin {"down", "ended"} /\ pc' = "down" /\ files' = {} /\ have' = {}
      /\ mapped' = [f \in Files |-> "none"]
      /\ UNCHANGED <<final, part, next, sessions, age, shown, unnamed>>
  BY DEF crash, disk
<1>2. Types /\ Session /\ FinalNeverPartial /\ Kept
  BY DEF IInv
<1>3. mapped' \in [Files -> {"none", "final", "part"}] /\ \A f \in Files : mapped'[f] = "none"
  BY <1>1
<1>4. Types'
  BY <1>1, <1>2, <1>3 DEF Types, Held
<1>5. Session'
  BY <1>1, <1>2, <1>3 DEF Session
<1>6. Verified' /\ Published' /\ FinalNeverPartial'
  BY <1>1, <1>2 DEF Verified, Published, FinalNeverPartial
<1>7. Kept'
  <2>1. \A f \in Files :
          /\ age[f] = 0 => mapped[f] = "none" /\ final[f] = {Whole(f)}
          /\ age[f] = 1 => Whole(f) \in final[f] \cup part[f]
    <3>1. \A f \in Files : Disk(f) = {Whole(f)} => Whole(f) \in final[f] \cup part[f]
      BY DEF Disk
    <3> QED BY <1>2, <3>1 DEF Kept
  <2> QED BY <1>1, <1>3, <2>1 DEF Kept
<1> QED BY <1>4, <1>5, <1>6, <1>7 DEF IInv

-----------------------------------------------------------------------------
LEMMA StepIInv == IInv /\ [Next]_vars => IInv'
<1> SUFFICES ASSUME IInv, [Next]_vars PROVE IInv'
  OBVIOUS
<1>1. CASE UNCHANGED vars
  <2>1. UNCHANGED <<final, part, pc, next, files, mapped, have, sessions, age, shown, unnamed>>
    BY <1>1 DEF vars, disk
  <2>2. /\ \A f \in Files : Disk(f)' = Disk(f) /\ Content(f)' = Content(f)
        /\ AllThere' <=> AllThere
    BY <2>1 DEF Disk, Content, AllThere
  <2>3. Types' /\ Session'
    BY <2>1, <2>2 DEF IInv, Types, Held, Session
  <2>4. Published' /\ FinalNeverPartial' /\ Kept'
    BY <2>1, <2>2 DEF IInv, Published, FinalNeverPartial, Kept
  <2>5. Verified'
    BY <2>1, <2>2 DEF IInv, Types, Verified
  <2> QED BY <2>3, <2>4, <2>5 DEF IInv
<1> QED
  BY <1>1, StartStep, LeftOutStep, OpenStep, RenameStep, ValidStep, CorruptStep,
     TorrentCompleteStep, CompleteStep, CompleteFailsStep, EndsStep, CrashStep
     DEF Next, Runs

THEOREM AlwaysIInv == Spec => []IInv
<1> QED BY InitIInv, StepIInv, PTL DEF Spec

\* Under a final name there is never a part of a file, through any sessions and
\* crashes, unless the rename to path.incomplete failed when it was last opened.
THEOREM NamesAreWhole == Spec => []Names
<1>1. IInv => Names
  <2> SUFFICES ASSUME IInv PROVE Names
    OBVIOUS
  <2>1. Types /\ FinalNeverPartial
    BY DEF IInv
  <2>2. ASSUME NEW f \in Files, NEW name, Held(f, name)
        PROVE  Cardinality(name) <= 1 /\ \A c \in name : c \subseteq Whole(f)
    <3>1. CASE name = {}
      BY <3>1, FS_EmptySet
    <3>2. ASSUME NEW c \in SUBSET Whole(f), name = {c}
          PROVE  Cardinality(name) <= 1 /\ \A d \in name : d \subseteq Whole(f)
      <4>1. Cardinality({c}) = 1
        BY FS_Singleton
      <4>2. Cardinality(name) = 1
        BY <3>2, <4>1
      <4> QED BY <3>2, <4>2
    <3> QED BY <2>2, <3>1, <3>2 DEF Held
  <2>3. TypeOK
    BY <2>1, <2>2 DEF Types, TypeOK
  <2> QED BY <2>1, <2>3 DEF Names
<1> QED BY <1>1, AlwaysIInv, PTL

\* A session that ends by itself leaves every file whole, whatever earlier ones
\* left behind and whichever files could not be created, mapped or renamed,
\* except one that stood beside an older path.incomplete and could not replace it.
THEOREM SessionsEndWhole == Spec => []EndsWhole
<1>1. IInv => EndsWhole
  BY DEF IInv, Session, Published, EndsWhole
<1> QED BY <1>1, AlwaysIInv, PTL

\* A completed file is on the disk, whole, until the second start after it.
THEOREM CompletedFilesSurvive == Spec => []SurvivesOneStart
<1>1. IInv => SurvivesOneStart
  <2> SUFFICES ASSUME IInv, NEW f \in Files, age[f] < Old
               PROVE  Whole(f) \in final[f] \cup part[f]
    BY DEF SurvivesOneStart
  <2>1. age[f] \in 0 .. 2 /\ age[f] < 2
    BY DEF IInv, Types, Old
  <2>2. age[f] = 0 \/ age[f] = 1
    BY <2>1
  <2> QED BY <2>2 DEF IInv, Kept, Disk
<1> QED BY <1>1, AlwaysIInv, PTL
=============================================================================
