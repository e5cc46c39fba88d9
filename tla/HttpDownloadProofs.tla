------------------------- MODULE HttpDownloadProofs -------------------------
(***************************************************************************)
(* Proofs about HttpDownload: the ranges are the file, and the merge       *)
(* begins only when every byte has been received, for any number of        *)
(* threads and any interleaving of their counting with the adding up.      *)
(***************************************************************************)
EXTENDS HttpDownload, TLAPS

\* The server tells each thread the size and the main thread at least none that
\* is too small, it honours ranges, and there is a byte for each thread.
Honest ==
  /\ UnknownSizes = {}
  /\ \A s \in UnknownTotals : s = 0 \/ s >= Size
  /\ "no_range" \notin Faults
  /\ thread_count <= Size

\* Where the range of thread k begins, or the file ends.
Bound(k) == IF k = thread_count THEN Size ELSE RangeBegin(k, Size)

\* What the server sends to thread t.
Part(t) == [from |-> RangeBegin(t, Size), len |-> RangeLen(t)]

\* Products by the size of a range.
LEMMA Products ==
  ASSUME NEW a \in Nat, NEW b \in Nat, NEW q \in Nat, a < b
  PROVE  /\ a * q \in Nat
         /\ b * q \in Nat
         /\ (a + 1) * q = a * q + q
         /\ (a + 1) * q <= b * q
<1>1. PICK d \in Nat : b = (a + 1) + d
  <2>1. b - (a + 1) \in Nat /\ b = (a + 1) + (b - (a + 1))
    OBVIOUS
  <2> QED BY <2>1
<1>2. (a + 1) * q = a * q + q
  OBVIOUS
<1>3. b * q = (a + 1) * q + d * q
  BY <1>1
<1>4. a * q \in Nat /\ b * q \in Nat /\ d * q \in Nat /\ (a + 1) * q \in Nat
  OBVIOUS
<1> QED BY <1>2, <1>3, <1>4

\* The quotient.
LEMMA Quotient ==
  ASSUME Honest
  PROVE  /\ Size \div thread_count \in Nat \ {0}
         /\ thread_count * (Size \div thread_count) <= Size
  BY HttpAssumption DEF Honest

\* The ranges follow each other from the first byte of the file to its last,
\* none is empty, and the answer to the request of a thread is its range.
THEOREM RangesAreTheFile ==
  ASSUME Honest
  PROVE  /\ Bound(0) = 0
         /\ Bound(thread_count) = Size
         /\ \A t \in Threads :
              /\ Bound(t) \in Nat
              /\ Bound(t + 1) <= Size
              /\ Bound(t + 1) = Bound(t) + RangeLen(t)
              /\ RangeLen(t) \in Nat \ {0}
              /\ Replies(t) = {Part(t)}
              /\ \A u \in Threads : t < u => Bound(t + 1) <= Bound(u)
<1> DEFINE q == Size \div thread_count
<1>1. q \in Nat \ {0} /\ thread_count * q <= Size
  BY Quotient
<1>2. thread_count \in Nat \ {0} /\ Size \in Nat /\ SIZE \in Nat /\ Size < SIZE
      /\ thread_count <= Size
  BY HttpAssumption DEF Honest
<1>3. \A k \in Nat : RangeBegin(k, Size) = k * q
  BY DEF RangeBegin
<1> HIDE DEF q
<1>4. Bound(0) = 0 /\ Bound(thread_count) = Size
  BY <1>1, <1>2, <1>3 DEF Bound
<1>5. ASSUME NEW t \in Threads
      PROVE  /\ Bound(t) \in Nat
             /\ Bound(t + 1) <= Size
             /\ Bound(t + 1) = Bound(t) + RangeLen(t)
             /\ RangeLen(t) \in Nat \ {0}
             /\ Replies(t) = {Part(t)}
             /\ \A u \in Threads : t < u => Bound(t + 1) <= Bound(u)
  <2>1. t \in Nat /\ t < thread_count /\ t + 1 \in Nat
    BY <1>2 DEF Threads
  <2>2. /\ t * q \in Nat /\ (t + 1) * q = t * q + q
        /\ (t + 1) * q <= thread_count * q /\ thread_count * q \in Nat
    BY <2>1, <1>1, <1>2, Products
  <2>3. Bound(t) = t * q
    BY <2>1, <1>2, <1>3 DEF Bound
  <2>4. RangeLen(t) = Bound(t + 1) - Bound(t)
    <3>1. CASE t = thread_count - 1
      BY <3>1, <2>1, <1>2, <1>3, <2>3 DEF RangeLen, Bound
    <3>2. CASE t # thread_count - 1
      BY <3>2, <2>1, <1>2, <1>3, <2>3 DEF RangeLen, Bound
    <3> QED BY <3>1, <3>2
  <2>5. Bound(t + 1) \in Nat /\ t * q + q <= Bound(t + 1) /\ Bound(t + 1) <= Size
    <3>1. CASE t = thread_count - 1
      <4>1. Bound(t + 1) = Size
        BY <3>1, <2>1, <1>2 DEF Bound
      <4> QED BY <4>1, <2>2, <1>1, <1>2
    <3>2. CASE t # thread_count - 1
      <4>1. Bound(t + 1) = (t + 1) * q
        BY <3>2, <2>1, <1>2, <1>3 DEF Bound
      <4> QED BY <4>1, <2>2, <1>1, <1>2
    <3> QED BY <3>1, <3>2
  <2>6. RangeLen(t) \in Nat \ {0} /\ Bound(t + 1) = Bound(t) + RangeLen(t)
    BY <1>1, <2>2, <2>3, <2>4, <2>5
  <2>7. Replies(t) = {Part(t)}
    <3>1. Replies(t) = {Reply(RangeBegin(t, Size), RangeEnd(t, Size))}
      BY DEF Replies, Honest
    <3>2. RangeBegin(t, Size) = t * q /\ t * q < Size
      BY <1>1, <1>2, <1>3, <2>1, <2>2, <2>5
    <3>3. CASE t = thread_count - 1
      <4>1. RangeEnd(t, Size) = Size /\ Bound(t + 1) = Size
        BY <3>3, <2>1, <1>2 DEF RangeEnd, Bound
      <4>2. RangeLen(t) = Size - 1 - t * q + 1
        BY <4>1, <2>3, <2>4, <1>2, <2>2
      <4> QED BY <3>1, <3>2, <4>1, <4>2, <1>2, <2>2 DEF Reply, Part
    <3>4. CASE t # thread_count - 1
      <4>1. Bound(t + 1) = t * q + q
        BY <3>4, <2>1, <2>2, <1>2, <1>3 DEF Bound
      <4>2. RangeEnd(t, Size) = (t * q + q - 1) % SIZE
        BY <3>4, <1>3, <2>1 DEF RangeEnd, q
      <4>3. t * q + q - 1 \in 0 .. SIZE - 1
        BY <4>1, <1>1, <1>2, <2>2, <2>5
      <4>4. RangeEnd(t, Size) = t * q + q - 1
        BY <4>2, <4>3, <1>2
      <4>5. t * q + q - 1 < Size /\ t * q <= t * q + q - 1
        BY <4>1, <1>1, <1>2, <2>2, <2>5
      <4>6. RangeLen(t) = (t * q + q - 1) - t * q + 1
        BY <4>1, <2>3, <2>4, <1>1, <2>2
      <4> QED BY <3>1, <3>2, <4>4, <4>5, <4>6 DEF Reply, Part
    <3> QED BY <3>3, <3>4
  <2>8. ASSUME NEW u \in Threads, t < u
        PROVE  Bound(t + 1) <= Bound(u)
    <3>1. u \in Nat /\ u < thread_count
      BY <1>2 DEF Threads
    <3>2. (t + 1) * q <= u * q
      BY <2>1, <2>8, <3>1, <1>1, Products
    <3> QED BY <3>1, <3>2, <2>1, <2>8, <1>2, <1>3 DEF Bound
  <2> QED BY <2>2, <2>3, <2>5, <2>6, <2>7, <2>8
<1> QED BY <1>4, <1>5

-----------------------------------------------------------------------------
\* What a thread's counters have to do with its place and its part.
Counting ==
  \A t \in Threads :
    /\ disk[t] <= written[t] /\ written[t] <= count[t]
    /\ count[t] <= RangeLen(t)
    /\ tpc[t] \in {"first", "body", "write"} \/ count[t] > 0
         => named[t] # "no" /\ part[t] = Part(t)
    /\ named[t] = "lost" => "open" \in Faults
    /\ tpc[t] \in {"none", "start", "first"} => count[t] = 0
    /\ tpc[t] = "body" /\ named[t] = "made" => written[t] = count[t]
    /\ tpc[t] = "ended" /\ named[t] = "made" => disk[t] = count[t]

\* The sum so far is at most the ranges of the threads added, and as much
\* only if each of them has received its range.
Adding ==
  mpc \in {"size", "sum"} =>
    /\ n <= Bound(next)
    /\ n = Bound(next) => \A t \in Threads : t < next => count[t] = RangeLen(t)

\* The bar waits for the size or for more, or in vain, and no thread runs before
\* it does.
Waiting ==
  IF mpc = "size" THEN \A t \in Threads : tpc[t] = "none"
                  ELSE total = 0 \/ total >= Size

Received_all == \A t \in Threads : count[t] = RangeLen(t)

\* Nothing is merged before everything has been received, and what is merged
\* of a part was on disk.
Merging ==
  /\ mpc \in {"merge", "done"} => Received_all
  /\ \A t \in Threads : copied[t] > 0 => Received_all /\ copied[t] <= disk[t]

Types ==
  /\ tpc \in [Threads -> {"none", "start", "first", "body", "write", "ended"}]
  /\ named \in [Threads -> {"no", "made", "lost"}]
  /\ part \in [Threads -> [from : 0 .. Size, len : 0 .. Size]]
  /\ count \in [Threads -> Nat]
  /\ written \in [Threads -> Nat]
  /\ disk \in [Threads -> Nat]
  /\ mpc \in {"size", "sum", "merge", "done", "endless", "crashed"}
  /\ total \in 0 .. SIZE - 1
  /\ prev \in Nat
  /\ n \in Nat
  /\ next \in 0 .. thread_count
  /\ copied \in [Threads -> Nat]

HInv == Types /\ Counting /\ Adding /\ Waiting /\ Merging

\* What the bounds are, without their arithmetic.
LEMMA Bounds ==
  ASSUME Honest
  PROVE  /\ thread_count \in Nat \ {0} /\ Size \in Nat /\ SIZE \in Nat /\ Size < SIZE
         /\ Threads = 0 .. thread_count - 1
         /\ Bound(0) = 0
         /\ Bound(thread_count) = Size
         /\ \A t \in Threads : /\ Bound(t) \in Nat
                               /\ Bound(t + 1) = Bound(t) + RangeLen(t)
                               /\ RangeLen(t) \in Nat \ {0}
                               /\ Part(t) \in [from : 0 .. Size, len : 0 .. Size]
                               /\ Part(t).len = RangeLen(t)
                               /\ Part(t).from = Bound(t)
                               /\ Replies(t) = {Part(t)}
<1>1. thread_count \in Nat \ {0} /\ Size \in Nat /\ SIZE \in Nat /\ Size < SIZE
  BY HttpAssumption
<1>2. \A t \in Threads : RangeBegin(t, Size) = Bound(t)
  BY <1>1 DEF Threads, Bound
<1>3. \A t \in Threads : /\ Bound(t) \in 0 .. Size /\ RangeLen(t) \in 1 .. Size
                         /\ Bound(t) + RangeLen(t) <= Size
  BY <1>1, RangesAreTheFile
<1>4. \A t \in Threads : /\ Part(t) \in [from : 0 .. Size, len : 0 .. Size]
                         /\ Part(t).len = RangeLen(t)
                         /\ Part(t).from = Bound(t)
  BY <1>2, <1>3 DEF Part
<1> QED BY <1>1, <1>4, RangesAreTheFile DEF Threads

\* The invariant holds at the start.
LEMMA HInvInit ==
  ASSUME Honest, Init
  PROVE  HInv
<1>1. Types
  BY Bounds DEF Init, Types
<1>2. Counting
  <2>1. \A t \in Threads : /\ disk[t] = 0 /\ written[t] = 0 /\ count[t] = 0
                           /\ tpc[t] = "none" /\ named[t] = "no"
    BY DEF Init
  <2>2. \A t \in Threads : RangeLen(t) \in Nat
    BY Bounds
  <2> QED BY <2>1, <2>2 DEF Counting
<1>3. Merging /\ Waiting /\ Adding
  <2>1. \A t \in Threads : copied[t] = 0 /\ tpc[t] = "none"
    BY DEF Init
  <2>2. mpc = "size" /\ n = 0 /\ next = 0
    BY DEF Init
  <2>3. Adding
    BY <2>2, Bounds DEF Adding
  <2> QED BY <2>1, <2>2, <2>3 DEF Merging, Waiting
<1> QED BY <1>1, <1>2, <1>3 DEF HInv

\* A step of a thread that counts up within its range leaves what the main
\* thread knows as it was.
LEMMA CountUp ==
  ASSUME Honest, HInv, Counting', Types',
         \A t \in Threads : count[t] <= count'[t],
         \A t \in Threads : disk[t] <= disk'[t],
         NEW v \in Threads, tpc[v] # "none",
         UNCHANGED <<mpc, n, next, total, copied>>
  PROVE  Adding' /\ Waiting' /\ Merging'
<1>1. \A t \in Threads : count[t] = RangeLen(t) => count'[t] = RangeLen(t)
  <2>1. ASSUME NEW t \in Threads, count[t] = RangeLen(t)
        PROVE  count'[t] = RangeLen(t)
    <3>1. count[t] <= count'[t] /\ count'[t] <= RangeLen(t)
      BY <2>1 DEF Counting
    <3>2. count[t] \in Nat /\ count'[t] \in Nat
      BY DEF HInv, Types
    <3> QED BY <2>1, <3>1, <3>2
  <2> QED BY <2>1
<1>2. Adding'
  <2>1. Bound(next)' = Bound(next)
    BY DEF Bound
  <2> QED BY <1>1, <2>1 DEF HInv, Adding
<1>3. Waiting'
  BY DEF HInv, Waiting
<1>4. Merging'
  <2>1. Received_all => Received_all'
    BY <1>1 DEF Received_all
  <2>2. \A t \in Threads : copied[t] <= disk[t] => copied[t] <= disk'[t]
    BY DEF HInv, Types
  <2> QED BY <2>1, <2>2 DEF HInv, Merging
<1> QED BY <1>2, <1>3, <1>4

\* What file_write does to a file that is there, and to one that is not.
LEMMA FileWritten ==
  ASSUME Types, NEW t \in Threads, NEW k \in Nat, written[t] <= k,
         disk[t] <= written[t], file_write(t, k)
  PROVE  \E d \in Nat, w \in Nat :
           /\ d <= w /\ w <= k /\ disk[t] <= d
           /\ named[t] = "made" => w = k
           /\ disk' = [disk EXCEPT ![t] = d]
           /\ written' = [written EXCEPT ![t] = w]
<1>1. disk[t] \in Nat /\ written[t] \in Nat
  BY DEF Types
<1>2. CASE named[t] = "made"
  <2>1. PICK d \in {disk[t], written[t], k} : disk' = [disk EXCEPT ![t] = d]
    BY <1>2 DEF file_write
  <2>2. d \in Nat /\ d <= k /\ disk[t] <= d /\ k <= k
    BY <1>1, <2>1
  <2>3. written' = [written EXCEPT ![t] = k]
    BY <1>2 DEF file_write
  <2> QED BY <2>1, <2>2, <2>3
<1>3. CASE named[t] # "made"
  <2>1. disk' = disk /\ written' = written
    BY <1>3 DEF file_write
  <2>2. disk' = [disk EXCEPT ![t] = disk[t]] /\ written' = [written EXCEPT ![t] = written[t]]
    BY <2>1 DEF Types
  <2>3. disk[t] <= written[t] /\ written[t] <= k /\ disk[t] <= disk[t]
    BY <1>1
  <2> QED BY <1>1, <1>3, <2>2, <2>3
<1> QED BY <1>2, <1>3

\* The steps of a thread.
LEMMA ThreadStep ==
  ASSUME Honest, HInv, NEW t \in Threads, download_it(t)
  PROVE  HInv'
<1> USE DEF HInv
<1>1. /\ count[t] \in Nat /\ written[t] \in Nat /\ disk[t] \in Nat
      /\ RangeLen(t) \in Nat \ {0}
      /\ disk[t] <= written[t] /\ written[t] <= count[t] /\ count[t] <= RangeLen(t)
      /\ Part(t) \in [from : 0 .. Size, len : 0 .. Size] /\ Part(t).len = RangeLen(t)
  BY Bounds DEF Types, Counting
<1>2. CASE init_fails(t)
  <2>1. Types'
    BY <1>2 DEF init_fails, Moves, Types, progress
  <2>2. Counting'
    BY <1>2 DEF init_fails, Moves, Types, Counting
  <2> QED BY <1>2, <2>1, <2>2, CountUp DEF init_fails, Moves, progress, Types
<1>3. CASE send_range_request(t)
  <2>1. part' = [part EXCEPT ![t] = Part(t)] /\ tpc[t] = "start"
        /\ tpc' = [tpc EXCEPT ![t] = "first"]
        /\ \E f \in {"made", "lost"} :
             /\ named' = [named EXCEPT ![t] = f]
             /\ f = "lost" => "open" \in Faults
        /\ UNCHANGED <<count, written, disk, mpc, total, prev, n, next, copied>>
    <3>1. PICK r \in Replies(t) : part' = [part EXCEPT ![t] = r]
      BY <1>3 DEF send_range_request
    <3>2. r = Part(t)
      BY <3>1, Bounds
    <3> QED BY <1>3, <3>1, <3>2 DEF send_range_request, opens_file, Moves, progress
  <2>2. Types'
    BY <1>1, <2>1 DEF Types
  <2>3. Counting'
    BY <2>1 DEF Types, Counting
  <2> QED BY <2>1, <2>2, <2>3, CountUp DEF Types
<1>4. CASE send_range_fails(t)
  <2>1. Types'
    BY <1>4 DEF send_range_fails, opens_file, Moves, Types, progress
  <2>2. Counting'
    <3>1. /\ tpc[t] = "start" /\ tpc' = [tpc EXCEPT ![t] = "ended"]
          /\ \E f \in {"made", "lost"} :
             /\ named' = [named EXCEPT ![t] = f]
             /\ f = "lost" => "open" \in Faults
          /\ UNCHANGED <<part, count, written, disk>>
      BY <1>4 DEF send_range_fails, opens_file, Moves
    <3>2. count[t] = 0 /\ disk[t] = 0
      BY <1>1, <3>1 DEF Counting
    <3> QED BY <3>1, <3>2 DEF Types, Counting
  <2> QED BY <1>4, <2>1, <2>2, CountUp DEF send_range_fails, Moves, progress, Types
<1>5. CASE recv_first(t)
  <2>1. PICK k \in Received(t) :
          /\ file_write(t, k)
          /\ count' = [count EXCEPT ![t] = k]
    BY <1>5 DEF recv_first
  <2>2. /\ tpc[t] = "first" /\ tpc' = [tpc EXCEPT ![t] = "body"]
        /\ UNCHANGED <<named, part, mpc, total, prev, n, next, copied>>
    BY <1>5 DEF recv_first, Moves, progress
  <2>3. count[t] = 0 /\ named[t] # "no" /\ part[t] = Part(t)
    BY <2>2 DEF Counting
  <2>4. k \in Nat /\ k <= RangeLen(t)
    BY <1>1, <2>1, <2>3, HttpAssumption DEF Received
  <2>5. PICK d \in Nat, w \in Nat :
           /\ d <= w /\ w <= k /\ disk[t] <= d
           /\ named[t] = "made" => w = k
           /\ disk' = [disk EXCEPT ![t] = d]
           /\ written' = [written EXCEPT ![t] = w]
    BY <1>1, <2>1, <2>3, <2>4, FileWritten
  <2>6. Types'
    BY <2>1, <2>2, <2>4, <2>5 DEF Types
  <2>7. Counting'
    BY <2>1, <2>2, <2>3, <2>4, <2>5 DEF Types, Counting
  <2>8. \A u \in Threads : count[u] <= count'[u] /\ disk[u] <= disk'[u]
    BY <2>1, <2>3, <2>4, <2>5 DEF Types
  <2> QED BY <2>2, <2>6, <2>7, <2>8, CountUp
<1>6. CASE recv_first_fails(t)
  <2>1. Types'
    BY <1>6 DEF recv_first_fails, Moves, Types, progress
  <2>2. Counting'
    BY <1>6 DEF recv_first_fails, Moves, Types, Counting
  <2> QED BY <1>6, <2>1, <2>2, CountUp DEF recv_first_fails, Moves, progress, Types
<1>7. CASE recv_no_header(t)
  <2>1. Types'
    BY <1>7 DEF recv_no_header, Moves, Types, progress
  <2>2. Counting'
    BY <1>7 DEF recv_no_header, Moves, Types, Counting
  <2>3. mpc' = "crashed" /\ UNCHANGED <<count, disk, total, copied>>
        /\ tpc[t] = "first"
    BY <1>7 DEF recv_no_header, Moves, progress
  <2>4. Waiting'
    BY <2>3 DEF Waiting
  <2>5. Merging'
    BY <2>3 DEF Merging, Received_all
  <2> QED BY <2>1, <2>2, <2>3, <2>4, <2>5 DEF Adding
<1>8. CASE recv_counts(t)
  <2>1. PICK k \in Received(t) \ {0} : count' = [count EXCEPT ![t] = @ + k]
    BY <1>8 DEF recv_counts
  <2>2. /\ tpc[t] = "body" /\ tpc' = [tpc EXCEPT ![t] = "write"]
        /\ UNCHANGED <<named, part, written, disk, mpc, total, prev, n, next, copied>>
    BY <1>8 DEF recv_counts, Moves, progress
  <2>3. named[t] # "no" /\ part[t] = Part(t)
    BY <2>2 DEF Counting
  <2>4. k \in Nat /\ count[t] + k <= RangeLen(t)
    BY <1>1, <2>1, <2>3, HttpAssumption DEF Received
  <2>5. Types'
    BY <2>1, <2>2, <2>4 DEF Types
  <2>6. Counting'
    BY <2>1, <2>2, <2>3, <2>4 DEF Types, Counting
  <2>7. \A u \in Threads : count[u] <= count'[u] /\ disk[u] <= disk'[u]
    BY <2>1, <2>2, <2>4 DEF Types
  <2> QED BY <2>2, <2>5, <2>6, <2>7, CountUp
<1>9. CASE recv_writes(t)
  <2>1. /\ tpc[t] = "write" /\ tpc' = [tpc EXCEPT ![t] = "body"]
        /\ file_write(t, count[t])
        /\ UNCHANGED <<named, part, count, mpc, total, prev, n, next, copied>>
    BY <1>9 DEF recv_writes, Moves, progress
  <2>2. named[t] # "no" /\ part[t] = Part(t)
    BY <2>1 DEF Counting
  <2>3. PICK d \in Nat, w \in Nat :
           /\ d <= w /\ w <= count[t] /\ disk[t] <= d
           /\ named[t] = "made" => w = count[t]
           /\ disk' = [disk EXCEPT ![t] = d]
           /\ written' = [written EXCEPT ![t] = w]
    BY <1>1, <2>1, FileWritten
  <2>4. Types'
    BY <1>1, <2>1, <2>3 DEF Types
  <2>5. Counting'
    BY <1>1, <2>1, <2>2, <2>3 DEF Types, Counting
  <2>6. \A u \in Threads : count[u] <= count'[u] /\ disk[u] <= disk'[u]
    BY <2>1, <2>3 DEF Types
  <2> QED BY <2>1, <2>4, <2>5, <2>6, CountUp
<1>10. CASE file_close(t)
  <2>1. /\ tpc[t] = "body" /\ tpc' = [tpc EXCEPT ![t] = "ended"]
        /\ disk' = [disk EXCEPT ![t] = written[t]]
        /\ UNCHANGED <<named, part, count, written, mpc, total, prev, n, next, copied>>
    BY <1>10 DEF file_close, Moves, progress
  <2>2. Types'
    BY <1>1, <2>1 DEF Types
  <2>3. Counting'
    BY <1>1, <2>1 DEF Types, Counting
  <2>4. \A u \in Threads : count[u] <= count'[u] /\ disk[u] <= disk'[u]
    BY <1>1, <2>1 DEF Types
  <2> QED BY <2>1, <2>2, <2>3, <2>4, CountUp
<1> QED BY <1>2, <1>3, <1>4, <1>5, <1>6, <1>7, <1>8, <1>9, <1>10 DEF download_it

\* The sum of the counters read so far: one more counter, or a new turn.
LEMMA AddingStep ==
  ASSUME Honest, HInv, add_counter \/ not_complete
  PROVE  Adding'
<1> USE DEF HInv
<1>1. CASE add_counter
  <2>1. /\ mpc = "sum" /\ next \in Threads
        /\ n' = n + count[next] /\ next' = next + 1 /\ UNCHANGED count
    BY <1>1, Bounds DEF add_counter, Types
  <2>2. /\ n \in Nat /\ count[next] \in Nat /\ count[next] <= RangeLen(next)
        /\ Bound(next) \in Nat /\ RangeLen(next) \in Nat
        /\ Bound(next + 1) = Bound(next) + RangeLen(next)
        /\ n <= Bound(next)
    BY <2>1, Bounds DEF Types, Counting, Adding
  <2>3. n' <= Bound(next)'
    BY <2>1, <2>2 DEF Bound
  <2>4. ASSUME n' = Bound(next)', NEW t \in Threads, t < next'
        PROVE  count'[t] = RangeLen(t)
    <3>1. n = Bound(next) /\ count[next] = RangeLen(next)
      <4>1. Bound(next)' = Bound(next + 1)
        BY <2>1 DEF Bound
      <4> QED BY <2>1, <2>2, <2>4, <4>1
    <3>2. t < next \/ t = next
      BY <2>1, <2>4, Bounds
    <3> QED BY <2>1, <3>1, <3>2 DEF Adding
  <2> QED BY <2>3, <2>4 DEF Adding
<1>2. CASE not_complete
  <2>1. n' = 0 /\ next' = 0
    BY <1>2 DEF not_complete, StartOver
  <2>2. Bound(next)' = 0
    BY <2>1, Bounds DEF Bound
  <2>3. \A t \in Threads : ~(t < next')
    BY <2>1, Bounds
  <2> QED BY <2>1, <2>2, <2>3 DEF Adding
<1> QED BY <1>1, <1>2

\* The sum reaches the size only when every thread has received its range.
LEMMA CompleteReceived ==
  ASSUME Honest, HInv, complete
  PROVE  Received_all
<1>1. mpc = "sum" /\ next = thread_count /\ n >= total /\ total > 0
  BY DEF complete, StartOver
<1>2. n = Bound(next)
  <2>1. total >= Size
    <3>1. total \in Nat
      BY Bounds DEF HInv, Types
    <3> QED BY <1>1, <3>1 DEF HInv, Waiting
  <2>2. n <= Bound(next)
    BY <1>1 DEF HInv, Adding
  <2>3. n \in Nat /\ total \in Nat
    BY Bounds DEF HInv, Types
  <2> QED BY <1>1, <2>1, <2>2, <2>3, Bounds
<1>3. \A t \in Threads : t < next
  BY <1>1, HttpAssumption DEF Threads
<1> QED BY <1>1, <1>2, <1>3 DEF HInv, Adding, Received_all

\* The steps of the main thread and of the clock.
LEMMA MainStep ==
  ASSUME Honest, HInv, download_file \/ second_passes
  PROVE  HInv'
<1> USE DEF HInv
<1>1. CASE get_file_size
  <2>1. /\ mpc = "size" /\ mpc' = "sum" /\ tpc' = [t \in Threads |-> "start"]
        /\ UNCHANGED <<named, part, count, written, disk, prev, n, next, copied>>
    BY <1>1 DEF get_file_size
  <2>2. total' \in 0 .. SIZE - 1 /\ (total' = 0 \/ total' >= Size)
    <3>1. total' \in {Size, SIZE - 1} \cup UnknownTotals
      BY <1>1 DEF get_file_size, Honest
    <3> QED BY <3>1, Bounds, HttpAssumption DEF Honest
  <2>3. Types'
    BY <2>1, <2>2 DEF Types
  <2>4. Counting'
    BY <2>1 DEF Counting, Waiting
  <2>5. Waiting'
    BY <2>1, <2>2 DEF Waiting
  <2>6. Merging'
    BY <2>1 DEF Merging, Received_all
  <2>7. Adding'
    BY <2>1 DEF Adding, Bound
  <2> QED BY <2>3, <2>4, <2>5, <2>6, <2>7
<1>2. CASE add_counter
  <2>1. Types'
    <3>1. /\ next \in Threads /\ n' = n + count[next] /\ next' = next + 1
          /\ UNCHANGED <<tpc, named, part, count, written, disk, mpc, total,
                         prev, copied>>
      BY <1>2, Bounds DEF add_counter, Types
    <3>2. n \in Nat /\ count[next] \in Nat
      BY <3>1 DEF Types
    <3>3. n' \in Nat
      BY <3>1, <3>2
    <3>4. next' \in 0 .. thread_count
      BY <3>1, HttpAssumption DEF Threads
    <3> QED BY <3>1, <3>3, <3>4 DEF Types
  <2>2. Counting' /\ Waiting' /\ Merging'
    BY <1>2 DEF add_counter, Counting, Waiting, Merging, Received_all
  <2> QED BY <1>2, <2>1, <2>2, AddingStep
<1>3. CASE not_complete
  <2>1. Types'
    BY <1>3, Bounds DEF not_complete, StartOver, Types
  <2>2. Counting' /\ Waiting' /\ Merging'
    BY <1>3 DEF not_complete, Counting, Waiting, Merging, Received_all
  <2> QED BY <1>3, <2>1, <2>2, AddingStep
<1>4. CASE complete
  <2>1. Received_all
    BY <1>4, CompleteReceived
  <2>2. /\ mpc' \in {"merge", "done"} /\ mpc = "sum" /\ next' = 0
        /\ UNCHANGED <<tpc, named, part, count, written, disk, total, prev, n, copied>>
    BY <1>4 DEF complete, StartOver
  <2>3. Types'
    BY <2>2, Bounds DEF Types
  <2>4. Counting' /\ Waiting' /\ Merging'
    BY <2>1, <2>2 DEF Counting, Waiting, Merging, Received_all
  <2> QED BY <2>2, <2>3, <2>4 DEF Adding
<1>5. CASE merge_part \/ merge_unmade
  <2>1. /\ mpc = "merge" /\ next \in Threads
        /\ UNCHANGED <<tpc, named, part, count, written, disk, total, prev, n>>
        /\ next' \in {next, next + 1} /\ mpc' \in {"merge", "crashed"}
        /\ \/ copied' = [copied EXCEPT ![next] = disk[next]]
           \/ UNCHANGED copied
    BY <1>5, Bounds DEF merge_part, merge_unmade, Types
  <2>2. Received_all
    BY <2>1 DEF Merging
  <2>3. Types'
    <3>1. disk[next] \in Nat /\ next' \in 0 .. thread_count
      BY <2>1, HttpAssumption DEF Types, Threads
    <3>2. copied' \in [Threads -> Nat]
      BY <2>1, <3>1 DEF Types
    <3> QED BY <2>1, <3>1, <3>2 DEF Types
  <2>4. Counting' /\ Waiting'
    BY <2>1 DEF Counting, Waiting
  <2>5. Merging'
    BY <2>1, <2>2 DEF Merging, Received_all, Types
  <2> QED BY <2>1, <2>3, <2>4, <2>5 DEF Adding
<1>6. CASE merge_ends
  <2>1. /\ mpc = "merge" /\ mpc' = "done"
        /\ UNCHANGED <<tpc, named, part, count, written, disk, total, prev, n,
                       next, copied>>
    BY <1>6 DEF merge_ends, progress
  <2>2. Types'
    BY <2>1 DEF Types
  <2>3. Counting' /\ Waiting' /\ Merging'
    BY <2>1 DEF Counting, Waiting, Merging, Received_all
  <2> QED BY <2>1, <2>2, <2>3 DEF Adding
<1>8. CASE endless_bar \/ merge_unopened
  <2>1. /\ mpc \in {"sum", "merge"} /\ mpc' \in {"endless", "crashed"}
        /\ UNCHANGED <<tpc, named, part, count, written, disk, total, prev, n,
                       next, copied>>
    BY <1>8 DEF endless_bar, merge_unopened, progress
  <2>2. Types'
    BY <2>1 DEF Types
  <2>3. Counting' /\ Waiting' /\ Merging'
    BY <2>1 DEF Counting, Waiting, Merging, Received_all
  <2> QED BY <2>1, <2>2, <2>3 DEF Adding
<1>7. CASE second_passes
  <2>1. UNCHANGED <<tpc, named, part, count, written, disk, mpc, total, prev, n,
                    next, copied>>
    BY <1>7 DEF second_passes
  <2>2. Types'
    BY <2>1 DEF Types
  <2>3. Counting' /\ Waiting' /\ Merging' /\ Adding'
    BY <2>1 DEF Counting, Waiting, Merging, Received_all, Adding, Bound
  <2> QED BY <2>2, <2>3
<1> QED BY <1>1, <1>2, <1>3, <1>4, <1>5, <1>6, <1>7, <1>8 DEF download_file

\* HInv is an invariant of the specification.
LEMMA HttpInvariance ==
  ASSUME Honest
  PROVE  Spec => []HInv
<1>1. Init => HInv
  BY HInvInit
<1>2. HInv /\ [Next]_vars => HInv'
  <2> SUFFICES ASSUME HInv, [Next]_vars PROVE HInv'
    OBVIOUS
  <2>1. CASE \E t \in Threads : download_it(t)
    BY <2>1, ThreadStep
  <2>2. CASE download_file \/ second_passes
    BY <2>2, MainStep
  <2>3. CASE UNCHANGED vars
    BY <2>3 DEF vars, progress, HInv, Types, Counting, Adding, Waiting, Merging,
                Received_all, Bound
  <2> QED BY <2>1, <2>2, <2>3 DEF Next
<1> QED BY <1>1, <1>2, PTL DEF Spec

\* "[Complete]" and the merge come only after every byte, whatever the order
\* in which the counters grow and are read, and whichever threads fail.
THEOREM CompleteIsReceived ==
  ASSUME Honest
  PROVE  Spec => []CompleteMeansReceived
<1>1. HInv => CompleteMeansReceived
  BY DEF HInv, Merging, Received_all, CompleteMeansReceived
<1> QED BY <1>1, HttpInvariance, PTL

\* merge_file comes to no part that its thread has not tried to open: fopen
\* returns NULL only for one that the thread could not open either.
THEOREM PartsAreOpened ==
  ASSUME Honest
  PROVE  Spec => []PartsOpenedBeforeMerge
<1>1. ASSUME HInv
      PROVE  PartsOpenedBeforeMerge
  <2>1. ASSUME mpc = "merge", NEW t \in next .. thread_count - 1
        PROVE  named[t] # "no"
    <3>1. t \in Threads
      BY <1>1, Bounds DEF HInv, Types
    <3>2. count[t] > 0
      <4>1. count[t] = RangeLen(t) /\ RangeLen(t) \in Nat \ {0}
        BY <1>1, <2>1, <3>1, Bounds DEF HInv, Merging, Received_all
      <4> QED BY <4>1
    <3> QED BY <1>1, <3>1, <3>2 DEF HInv, Counting
  <2> QED BY <2>1 DEF PartsOpenedBeforeMerge
<1> QED BY <1>1, HttpInvariance, PTL

\* The merged file has no byte twice, and none before an earlier one.
THEOREM MergedInOrder ==
  ASSUME Honest
  PROVE  Spec => []PartsInOrder
<1>1. ASSUME HInv
      PROVE  PartsInOrder
  <2>1. ASSUME NEW t \in Threads, NEW u \in Threads, t < u, copied[u] > 0
        PROVE  part[t].from + copied[t] <= part[u].from
    <3>1. Received_all
      BY <1>1, <2>1 DEF HInv, Merging
    <3>2. /\ count[t] = RangeLen(t) /\ count[u] = RangeLen(u)
          /\ part[t] = Part(t) /\ part[u] = Part(u)
      BY <1>1, <3>1, Bounds DEF HInv, Counting, Received_all
    <3>3. copied[t] <= RangeLen(t)
      <4>1. copied[t] \in Nat /\ disk[t] \in Nat /\ written[t] \in Nat
            /\ RangeLen(t) \in Nat
        BY <1>1, Bounds DEF HInv, Types
      <4>2. copied[t] > 0 => copied[t] <= disk[t]
        BY <1>1 DEF HInv, Merging
      <4>3. disk[t] <= written[t] /\ written[t] <= count[t]
        BY <1>1 DEF HInv, Counting
      <4> QED BY <3>2, <4>1, <4>2, <4>3
    <3>4. Bound(t + 1) <= Bound(u) /\ Bound(t + 1) = Bound(t) + RangeLen(t)
      BY <2>1, RangesAreTheFile
    <3>5. /\ Bound(t) \in Nat /\ RangeLen(t) \in Nat /\ Bound(u) \in Nat
          /\ copied[t] \in Nat
      BY <1>1, Bounds DEF HInv, Types
    <3>6. Part(t).from = Bound(t) /\ Part(u).from = Bound(u)
      BY <2>1, Bounds
    <3>7. Bound(t) + copied[t] <= Bound(u)
      <4>1. Bound(t + 1) \in Int
        BY <3>4, <3>5
      <4> QED BY <3>3, <3>4, <3>5, <4>1
    <3> QED BY <3>2, <3>6, <3>7
  <2> QED BY <2>1 DEF PartsInOrder
<1> QED BY <1>1, HttpInvariance, PTL

\* What merge_file copies of a part whose thread has closed its file is the
\* whole range.
THEOREM ClosedPartsWhole ==
  ASSUME Honest
  PROVE  Spec => ClosedPartMergedWhole
<1>1. ASSUME HInv, [Next]_vars, NEW t \in Threads,
             mpc = "merge", next = t, next' = t + 1, tpc[t] = "ended",
             named[t] = "made"
      PROVE  copied'[t] = RangeLen(t)
  <2>1. t \in Nat /\ next' # next
    BY <1>1, HttpAssumption DEF Threads
  <2>2. merge_part
    <3>1. ASSUME NEW u \in Threads, download_it(u)
          PROVE  UNCHANGED next
      BY <3>1 DEF download_it, init_fails, send_range_request, send_range_fails,
                  recv_first, recv_first_fails, recv_no_header, recv_counts,
                  recv_writes, file_close, progress
    <3>2. ~(UNCHANGED vars)
      BY <2>1 DEF vars, progress
    <3>3. ~second_passes /\ ~get_file_size /\ ~add_counter /\ ~not_complete
          /\ ~complete /\ ~endless_bar
      BY <1>1 DEF second_passes, get_file_size, add_counter, not_complete, complete,
                  endless_bar
    <3>4. ~merge_ends /\ ~merge_unopened
      BY <2>1 DEF merge_ends, merge_unopened, progress
    <3>5. ~merge_unmade
      BY <1>1 DEF merge_unmade
    <3> QED BY <1>1, <2>1, <3>1, <3>2, <3>3, <3>4, <3>5 DEF Next, download_file
  <2>3. copied' = [copied EXCEPT ![t] = disk[t]]
    BY <1>1, <2>1, <2>2 DEF merge_part
  <2>4. disk[t] = count[t] /\ count[t] = RangeLen(t)
    BY <1>1 DEF HInv, Counting, Merging, Received_all
  <2> QED BY <2>3, <2>4, <1>1 DEF HInv, Types
<1>2. HInv /\ [Next]_vars =>
        [\A t \in Threads :
           mpc = "merge" /\ next = t /\ next' = t + 1
             /\ tpc[t] = "ended" /\ named[t] = "made"
             => copied'[t] = RangeLen(t)]_vars
  BY <1>1
<1> QED BY <1>2, HttpInvariance, PTL DEF Spec, ClosedPartMergedWhole

\* late is a Boolean.
LEMMA LateIsBoolean == Spec => [](late \in BOOLEAN)
<1>1. Init => late \in BOOLEAN
  BY DEF Init
<1>2. late \in BOOLEAN /\ [Next]_vars => (late \in BOOLEAN)'
  <2> SUFFICES ASSUME [Next]_vars PROVE late' = late \/ late' = TRUE
    OBVIOUS
  <2>1. ASSUME NEW t \in Threads, download_it(t)
        PROVE  late' = late
    BY <2>1 DEF download_it, init_fails, send_range_request, send_range_fails,
                recv_first, recv_first_fails, recv_no_header, recv_counts,
                recv_writes, file_close, progress
  <2>2. CASE download_file
    BY <2>2 DEF download_file, get_file_size, add_counter, not_complete, complete,
                endless_bar, merge_unopened, merge_part, merge_unmade,
                merge_ends, progress
  <2>3. CASE second_passes
    BY <2>3 DEF second_passes
  <2>4. CASE UNCHANGED vars
    BY <2>4 DEF vars, progress
  <2> QED BY <2>1, <2>2, <2>3, <2>4 DEF Next
<1> QED BY <1>1, <1>2, PTL DEF Spec

\* The types of HttpDownload: no thread counts more than its part, nor writes
\* more than it counted, nor is more copied than the file has.
THEOREM HttpTypeCorrect ==
  ASSUME Honest
  PROVE  Spec => []TypeOK
<1>1. ASSUME HInv, late \in BOOLEAN
      PROVE  TypeOK
  <2>1. ASSUME NEW t \in Threads
        PROVE  /\ count[t] \in 0 .. Size /\ written[t] \in 0 .. Size
               /\ disk[t] \in 0 .. Size /\ copied[t] \in 0 .. Size
               /\ disk[t] <= written[t] /\ written[t] <= count[t]
               /\ count[t] <= part[t].len
    <3>1. /\ count[t] \in Nat /\ written[t] \in Nat /\ disk[t] \in Nat
          /\ copied[t] \in Nat /\ Size \in Nat /\ part[t].len \in Nat
      BY <1>1, Bounds DEF HInv, Types
    <3>2. /\ disk[t] <= written[t] /\ written[t] <= count[t]
          /\ count[t] <= RangeLen(t)
          /\ count[t] > 0 => part[t] = Part(t)
      BY <1>1 DEF HInv, Counting
    <3>3. RangeLen(t) \in Nat /\ RangeLen(t) <= Size /\ Part(t).len = RangeLen(t)
      BY Bounds
    <3>4. copied[t] > 0 => copied[t] <= disk[t]
      BY <1>1 DEF HInv, Merging
    <3>5. count[t] <= part[t].len
      BY <3>1, <3>2, <3>3
    <3> QED BY <3>1, <3>2, <3>3, <3>4, <3>5
  <2>2. /\ count \in [Threads -> 0 .. Size] /\ written \in [Threads -> 0 .. Size]
        /\ disk \in [Threads -> 0 .. Size] /\ copied \in [Threads -> 0 .. Size]
    BY <1>1, <2>1 DEF HInv, Types
  <2> QED BY <1>1, <2>1, <2>2 DEF HInv, Types, TypeOK
<1> QED BY <1>1, HttpInvariance, LateIsBoolean, PTL

-----------------------------------------------------------------------------
(* The end of a download that has received everything.                     *)

\* The bar has shown less than the size, and each turn begins at 0.
Turning ==
  /\ mpc = "size" => n = 0 /\ next = 0 /\ prev = 0
  /\ mpc = "sum" => (total > 0 => prev < total) /\ (next = 0 => n = 0)

\* What a step of a thread leaves to the main thread.
LEMMA ThreadKeepsSum ==
  ASSUME NEW t \in Threads, download_it(t)
  PROVE  /\ UNCHANGED progress
         /\ mpc' = mpc \/ (mpc' = "crashed" /\ tpc[t] = "first")
BY DEF download_it, init_fails, send_range_request, send_range_fails,
       recv_first, recv_first_fails, recv_no_header, recv_counts,
       recv_writes, file_close, progress, Moves

LEMMA TurningInvariance ==
  ASSUME Honest
  PROVE  Spec => []Turning
<1>1. Init => Turning
  BY DEF Init, Turning
<1>2. HInv /\ Turning /\ [Next]_vars => Turning'
  <2> SUFFICES ASSUME HInv, Turning, [Next]_vars PROVE Turning'
    OBVIOUS
  <2>1. ASSUME NEW t \in Threads, download_it(t)
        PROVE  Turning'
    BY <2>1, ThreadKeepsSum DEF Turning, progress
  <2>2. CASE get_file_size
    <3>3. n = 0 /\ next = 0 /\ prev = 0
      BY <2>2 DEF get_file_size, Turning
    <3> QED BY <2>2, <3>3 DEF get_file_size, Turning
  <2>3. CASE add_counter
    <3>1. next + 1 # 0
      BY Bounds DEF HInv, Types
    <3> QED BY <2>3, <3>1 DEF add_counter, Turning
  <2>4. CASE not_complete
    <3>1. total > 0 => prev' < total
      BY <2>4 DEF not_complete, Turning, HInv, Types
    <3> QED BY <2>4, <3>1 DEF not_complete, StartOver, Turning
  <2>5. CASE complete \/ endless_bar \/ merge_unopened \/ merge_part \/ merge_unmade
             \/ merge_ends
    <3>1. mpc' \in {"merge", "done", "endless", "crashed"}
      BY <2>5 DEF complete, endless_bar, merge_unopened, merge_part, merge_unmade,
                  merge_ends
    <3> QED BY <3>1 DEF Turning
  <2>6. CASE second_passes
    BY <2>6 DEF second_passes, Turning
  <2>7. CASE UNCHANGED vars
    BY <2>7 DEF vars, progress, Turning
  <2> QED BY <2>1, <2>2, <2>3, <2>4, <2>5, <2>6, <2>7 DEF Next, download_file
<1> QED BY <1>1, <1>2, HttpInvariance, PTL DEF Spec

\* Every thread has received its range, the size is known and a second has
\* passed, or the files are being merged.
EverythingIn ==
  /\ Received_all
  /\ mpc = "merge" \/ (mpc = "sum" /\ total = Size /\ late)

\* Steps the main thread still takes at most: those of a turn that began
\* before everything was received, those of the next one, and the merge.
StepsLeft ==
  CASE mpc = "merge" -> thread_count - next
    [] mpc = "sum" /\ n = Bound(next) -> 2 * thread_count + 1 - next
    [] OTHER -> 3 * thread_count + 2 - next

\* The merge has come to its end, or to a file that cannot be opened.
Ended == mpc = "done" \/ (mpc = "crashed" /\ "open" \in Faults)

\* What a step does to that.
Ends ==
  EverythingIn =>
    /\ Ended' \/ (EverythingIn' /\ StepsLeft' <= StepsLeft)
    /\ download_file => Ended' \/ StepsLeft' < StepsLeft

LEMMA StepsLeftNat ==
  ASSUME Honest, HInv
  PROVE  StepsLeft \in Nat
<1>1. next \in 0 .. thread_count /\ thread_count \in Nat
  BY Bounds DEF HInv, Types
<1> QED BY <1>1 DEF StepsLeft

\* The steps of the threads that are still to end.
LEMMA ThreadEnds ==
  ASSUME Honest, HInv, HInv', EverythingIn, NEW t \in Threads, download_it(t)
  PROVE  EverythingIn' /\ StepsLeft' = StepsLeft /\ mpc' = mpc
<1>1. tpc[t] # "first"
  <2>1. count[t] = RangeLen(t) /\ RangeLen(t) # 0
    BY Bounds DEF EverythingIn, Received_all
  <2> QED BY <2>1 DEF HInv, Counting
<1>2. mpc' = mpc /\ UNCHANGED progress
  BY <1>1, ThreadKeepsSum
<1>3. Received_all'
  <2>1. \A u \in Threads : count[u] = RangeLen(u) /\ count'[u] <= RangeLen(u)
    BY DEF EverythingIn, Received_all, HInv, Counting
  <2>2. \A u \in Threads : count'[u] >= count[u]
    <3>1. CASE recv_counts(t)
      <4>1. PICK k \in Received(t) : count' = [count EXCEPT ![t] = @ + k]
        BY <3>1 DEF recv_counts
      <4>2. k \in Nat /\ count \in [Threads -> Nat]
        BY HttpAssumption DEF Received, HInv, Types
      <4> QED BY <4>1, <4>2
    <3>2. CASE ~recv_counts(t)
      <4>1. UNCHANGED count
        BY <1>1, <3>2
           DEF download_it, init_fails, send_range_request, send_range_fails,
               recv_first, recv_first_fails, recv_no_header, recv_writes,
               file_close, progress, Moves
      <4>2. count \in [Threads -> Nat]
        BY DEF HInv, Types
      <4> QED BY <4>1, <4>2
    <3> QED BY <3>1, <3>2
  <2>3. \A u \in Threads : count'[u] \in Nat /\ count[u] \in Nat
    BY DEF HInv, Types
  <2> QED BY <2>1, <2>2, <2>3 DEF Received_all
<1>4. StepsLeft' = StepsLeft
  BY <1>2 DEF StepsLeft, Bound, progress
<1> QED BY <1>2, <1>3, <1>4 DEF EverythingIn, progress

\* The steps of the main thread.
LEMMA MainEnds ==
  ASSUME Honest, HInv, HInv', Turning, EverythingIn, download_file
  PROVE  Ended' \/ (EverythingIn' /\ StepsLeft' < StepsLeft)
<1>1. /\ next \in 0 .. thread_count /\ thread_count \in Nat \ {0}
      /\ n \in Nat /\ Size \in Nat
  BY Bounds DEF HInv, Types
<1>2. CASE add_counter
  <2>1. /\ mpc = "sum" /\ next \in Threads
        /\ n' = n + count[next] /\ next' = next + 1
        /\ UNCHANGED <<count, mpc, total, late>>
    BY <1>1, <1>2 DEF add_counter, Threads
  <2>2. /\ count[next] = RangeLen(next)
        /\ Bound(next + 1) = Bound(next) + RangeLen(next)
        /\ Bound(next) \in Nat /\ RangeLen(next) \in Nat
    BY <2>1, Bounds DEF EverythingIn, Received_all
  <2>3. Bound(next)' = Bound(next + 1)
    BY <2>1 DEF Bound
  <2>4. n' = Bound(next)' <=> n = Bound(next)
    BY <1>1, <2>1, <2>2, <2>3
  <2>5. StepsLeft' < StepsLeft
    BY <1>1, <2>1, <2>4 DEF StepsLeft
  <2> QED BY <2>1, <2>5 DEF EverythingIn, Received_all
<1>3. CASE not_complete
  <2>1. /\ mpc = "sum" /\ next = thread_count /\ n' = 0 /\ next' = 0
        /\ n = prev \/ ~late \/ n < total
        /\ UNCHANGED <<count, mpc, total, late>>
    BY <1>3 DEF not_complete, StartOver
  <2>2. prev < total /\ total = Size /\ late
    <3>1. total = Size /\ late /\ Size > 0
      BY <2>1, HttpAssumption DEF EverythingIn, Honest
    <3> QED BY <2>1, <3>1 DEF Turning
  <2>3. n # Bound(next)
    BY <1>1, <2>1, <2>2, Bounds
  <2>4. n' = Bound(next)'
    BY <2>1, Bounds DEF Bound
  <2>5. StepsLeft' < StepsLeft
    BY <1>1, <2>1, <2>3, <2>4 DEF StepsLeft
  <2> QED BY <2>1, <2>5 DEF EverythingIn, Received_all
<1>4. CASE complete
  <2>1. /\ mpc = "sum" /\ next = thread_count /\ next' = 0
        /\ mpc' \in {"done", "merge"} /\ UNCHANGED count
    BY <1>4 DEF complete, StartOver
  <2>2. mpc' = "merge" => StepsLeft' < StepsLeft
    BY <1>1, <2>1 DEF StepsLeft
  <2> QED BY <2>1, <2>2 DEF EverythingIn, Received_all, Ended
<1>5. CASE merge_part \/ merge_unmade
  <2>1. mpc = "merge" /\ next \in Threads /\ UNCHANGED count
    BY <1>1, <1>5 DEF merge_part, merge_unmade, Threads
  <2>2. \/ mpc' = "merge" /\ next' = next + 1
        \/ mpc' = "crashed" /\ named[next] # "made"
    BY <1>5, <2>1 DEF merge_part, merge_unmade
  <2>3. named[next] # "made" => "open" \in Faults
    <3>1. count[next] > 0
      <4>1. count[next] = RangeLen(next) /\ RangeLen(next) \in Nat \ {0}
        BY <2>1, Bounds DEF EverythingIn, Received_all
      <4> QED BY <4>1
    <3>2. named[next] # "no"
      BY <2>1, <3>1 DEF HInv, Counting
    <3> QED BY <2>1, <3>2 DEF HInv, Types, Counting
  <2>4. CASE mpc' = "merge" /\ next' = next + 1
    <3>1. StepsLeft' < StepsLeft
      BY <1>1, <2>1, <2>4 DEF StepsLeft
    <3> QED BY <2>1, <2>4, <3>1 DEF EverythingIn, Received_all
  <2> QED BY <2>2, <2>3, <2>4 DEF Ended
<1>6. CASE merge_ends \/ merge_unopened
  BY <1>6 DEF merge_ends, merge_unopened, Ended
<1>8. ~endless_bar
  <2>1. Size > 0
    BY HttpAssumption DEF Honest
  <2> QED BY <2>1 DEF endless_bar, EverythingIn
<1>7. ~get_file_size
  BY DEF get_file_size, EverythingIn
<1> QED BY <1>2, <1>3, <1>4, <1>5, <1>6, <1>7, <1>8 DEF download_file

\* Once every thread has received its range, the size is known and a second
\* has passed, the main thread needs at most 3 * thread_count + 2 steps to the
\* end of the merge, or to a file that cannot be opened, whatever the sum was
\* when the last byte came: the turn in which the counters still grew may miss
\* the size, the next one does not, and is not taken for one without progress.
THEOREM DownloadIsFinite ==
  ASSUME Honest
  PROVE  Spec => [](EverythingIn => StepsLeft \in Nat) /\ [][Ends]_vars
<1>1. HInv => StepsLeft \in Nat
  BY StepsLeftNat
<1>2. ASSUME HInv, HInv', Turning, Next, EverythingIn
      PROVE  /\ Ended' \/ (EverythingIn' /\ StepsLeft' <= StepsLeft)
             /\ download_file => Ended' \/ StepsLeft' < StepsLeft
  <2>1. StepsLeft \in Nat
    BY <1>2, StepsLeftNat
  <2>2. CASE download_file
    <3>1. StepsLeft' \in Nat
      <4>1. next' \in 0 .. thread_count /\ thread_count \in Nat
        BY <1>2, Bounds DEF HInv, Types
      <4> QED BY <4>1 DEF StepsLeft
    <3> QED BY <1>2, <2>1, <2>2, <3>1, MainEnds
  <2>3. CASE ~download_file
    <3>1. CASE \E t \in Threads : download_it(t)
      BY <1>2, <2>1, <2>3, <3>1, ThreadEnds
    <3>2. CASE second_passes
      <4>1. UNCHANGED <<count, mpc, total, n, next>> /\ mpc = "sum" /\ late'
        BY <3>2 DEF second_passes
      <4>2. StepsLeft' = StepsLeft
        BY <4>1 DEF StepsLeft, Bound
      <4> QED BY <1>2, <2>1, <2>3, <4>1, <4>2 DEF EverythingIn, Received_all
    <3> QED BY <1>2, <2>3, <3>1, <3>2 DEF Next
  <2> QED BY <2>2, <2>3
<1>3. HInv /\ HInv' /\ Turning /\ [Next]_vars => [Ends]_vars
  BY <1>2 DEF Ends
<1> QED BY <1>1, <1>3, HttpInvariance, TurningInvariance, PTL DEF Spec
=============================================================================
