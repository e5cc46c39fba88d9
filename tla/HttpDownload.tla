---------------------------- MODULE HttpDownload ----------------------------
(***************************************************************************)
(* The HTTP downloader: http_downloader::download_file creates detached    *)
(* threads that each download a byte range into a file of its own          *)
(* (http_multi_threads_downloader::download_it), adds up their counters in *)
(* a loop until they reach the size (progress_bar::print_progress) and     *)
(* merges the files (merge_file).  Nothing but the counters tells the main *)
(* thread how far the others are.  They are read and written without       *)
(* synchronisation; the build (-g, no optimisation) reads them afresh in   *)
(* each turn, and a size_t is not torn.                                    *)
(***************************************************************************)
EXTENDS Integers

CONSTANTS
  thread_count,  \* number of threads and of ranges
  Size,          \* bytes of the file on the server
  Chunk,         \* most bytes of the file one recv returns
  UnknownSizes,  \* what file_size_ of a thread may be instead: 0 when the
                 \* first recv did not bring Content-Length, garbage when the
                 \* query failed
  UnknownTotals, \* likewise for the query of the main thread
  SIZE,          \* 2^(width of size_t)
  Faults         \* what may go wrong

FaultKinds == {"connect",    \* connecting fails, for a query or for the range
               "short",      \* recv ends before the end of the range
               "open",       \* a part or the merged file cannot be opened
               "no_header",  \* the first recv does not hold the whole header
               "no_range"}   \* the server ignores the range

ASSUME HttpAssumption ==
  /\ thread_count \in Nat \ {0}
  /\ Size \in Nat
  /\ Chunk \in Nat \ {0}
  /\ SIZE \in Nat \ {0}
  /\ Size < SIZE
  /\ UnknownSizes \subseteq 0 .. SIZE - 1
  /\ UnknownTotals \subseteq 0 .. SIZE - 1
  /\ Faults \subseteq FaultKinds

Threads == 0 .. thread_count - 1

VARIABLES
  tpc,     \* per thread: "none", "start", "first", "body", "write", "ended"
  named,   \* dest_file_name_temp_: "no", or it is set and file.open has
           \* "made" the file or failed ("lost")
  part,    \* what the server sends: first byte and number of bytes
  count,   \* downloaded_size_
  written, \* bytes that the fstream took
  disk,    \* bytes of them that are in the file
  mpc,     \* main thread: "size", "sum", "merge", "done", "endless" in the
           \* loop of run, or the process has "crashed"
  total,   \* total_ of the progress bar
  prev,    \* prev of print_progress
  n,       \* n of print_progress
  next,    \* position of the iterator over the threads
  late,    \* a second has passed since the bar started
  copied   \* bytes of each part that merge_file copied

progress == <<total, prev, n, next, late, copied>>
vars == <<tpc, named, part, count, written, disk, mpc, progress>>

-----------------------------------------------------------------------------
(* gen_range_header: the bounds of a range, both included. *)

\* Mutant: an end that is one too far.
RangeEndIncludesNext(t, size) ==
  IF t = thread_count - 1 THEN size ELSE (t + 1) * (size \div thread_count)

RangeBegin(t, size) == t * (size \div thread_count)

RangeEnd(t, size) ==
  IF t = thread_count - 1
    THEN size
    ELSE (RangeBegin(t, size) + size \div thread_count - 1) % SIZE

\* The server cuts a range that ends behind the file, and has nothing of the
\* file to send for one that begins there.
Reply(b, e) ==
  IF b < Size /\ b <= e
    THEN [from |-> b, len |-> (IF e < Size THEN e ELSE Size - 1) - b + 1]
    ELSE [from |-> 0, len |-> 0]

Replies(t) ==
  {Reply(RangeBegin(t, s), RangeEnd(t, s)) : s \in {Size} \cup UnknownSizes}
    \cup (IF "no_range" \in Faults THEN {[from |-> 0, len |-> Size]} ELSE {})

-----------------------------------------------------------------------------
Init ==
  /\ tpc = [t \in Threads |-> "none"]
  /\ named = [t \in Threads |-> "no"]
  /\ part = [t \in Threads |-> [from |-> 0, len |-> 0]]
  /\ count = [t \in Threads |-> 0]
  /\ written = [t \in Threads |-> 0]
  /\ disk = [t \in Threads |-> 0]
  /\ mpc = "size"
  /\ total = 0
  /\ prev = 0
  /\ n = 0
  /\ next = 0
  /\ late = FALSE
  /\ copied = [t \in Threads |-> 0]

Moves(t, from, to) ==
  /\ mpc # "crashed"
  /\ tpc[t] = from
  /\ tpc' = [tpc EXCEPT ![t] = to]

(* The steps of download_it. *)

\* init fails, and nothing has been named.
init_fails(t) ==
  /\ "connect" \in Faults
  /\ Moves(t, "start", "ended")
  /\ UNCHANGED <<named, part, count, written, disk, mpc, progress>>

\* Mutant: the file is not named before its first bytes come.
send_range_unnamed(t) ==
  /\ Moves(t, "start", "first")
  /\ \E r \in Replies(t) : part' = [part EXCEPT ![t] = r]
  /\ UNCHANGED <<named, count, written, disk, mpc, progress>>

\* gen_file_name_temp and file.open, which nobody asks whether it succeeded.
opens_file(t) ==
  \E f \in {"made"} \cup (IF "open" \in Faults THEN {"lost"} ELSE {}) :
    named' = [named EXCEPT ![t] = f]

\* The query, the range request, the name and the file.
send_range_request(t) ==
  /\ Moves(t, "start", "first")
  /\ opens_file(t)
  /\ \E r \in Replies(t) : part' = [part EXCEPT ![t] = r]
  /\ UNCHANGED <<count, written, disk, mpc, progress>>

\* Nobody looks whether it was sent: the file is opened all the same, and
\* then recv fails.
send_range_fails(t) ==
  /\ "connect" \in Faults
  /\ Moves(t, "start", "ended")
  /\ opens_file(t)
  /\ UNCHANGED <<part, count, written, disk, mpc, progress>>

\* What one recv may bring of a part.
Received(t) == {k \in 0 .. Chunk : count[t] + k <= part[t].len}

\* The fstream keeps what it was given in its buffer, or writes out what it
\* had before, or everything; one without a file does nothing.
file_write(t, upto) ==
  \/ /\ named[t] = "made"
     /\ written' = [written EXCEPT ![t] = upto]
     /\ \E d \in {disk[t], written[t], upto} : disk' = [disk EXCEPT ![t] = d]
  \/ /\ named[t] # "made"
     /\ UNCHANGED <<written, disk>>

\* Mutant: the header is counted.
first_counts_header(t) ==
  /\ Moves(t, "first", "body")
  /\ \E k \in Received(t) :
       /\ file_write(t, k)
       /\ count' = [count EXCEPT ![t] = k + 1]
  /\ UNCHANGED <<named, part, mpc, progress>>

\* The rest of the first recv behind the header is written, then counted,
\* whether or not there is a file.
recv_first(t) ==
  /\ Moves(t, "first", "body")
  /\ \E k \in Received(t) :
       /\ file_write(t, k)
       /\ count' = [count EXCEPT ![t] = k]
  /\ UNCHANGED <<named, part, mpc, progress>>

\* The first recv is an error: the file stays empty.
recv_first_fails(t) ==
  /\ "short" \in Faults
  /\ Moves(t, "first", "ended")
  /\ UNCHANGED <<named, part, count, written, disk, mpc, progress>>

\* Without the end of the header strstr returns NULL, and that is written.
recv_no_header(t) ==
  /\ "no_header" \in Faults
  /\ Moves(t, "first", "ended")
  /\ mpc' = "crashed"
  /\ UNCHANGED <<named, part, count, written, disk, progress>>

\* The loop counts what it received ...
recv_counts(t) ==
  /\ Moves(t, "body", "write")
  /\ \E k \in Received(t) \ {0} : count' = [count EXCEPT ![t] = @ + k]
  /\ UNCHANGED <<named, part, written, disk, mpc, progress>>

\* ... before it writes it.
recv_writes(t) ==
  /\ Moves(t, "write", "body")
  /\ file_write(t, count[t])
  /\ UNCHANGED <<named, part, count, mpc, progress>>

\* recv returns 0 or an error, and the file is closed.
file_close(t) ==
  /\ count[t] = part[t].len \/ "short" \in Faults
  /\ Moves(t, "body", "ended")
  /\ disk' = [disk EXCEPT ![t] = written[t]]
  /\ UNCHANGED <<named, part, count, written, mpc, progress>>

download_it(t) ==
  \/ init_fails(t) \/ send_range_request(t) \/ send_range_fails(t)
  \/ recv_first(t) \/ recv_first_fails(t) \/ recv_no_header(t)
  \/ recv_counts(t) \/ recv_writes(t) \/ file_close(t)

-----------------------------------------------------------------------------
(* download_file in the main thread. *)

\* get_file_size returns size_t -1 when it cannot connect; the threads are
\* created whatever it returns.
get_file_size ==
  /\ mpc = "size"
  /\ total' \in {Size} \cup UnknownTotals
                \cup (IF "connect" \in Faults THEN {SIZE - 1} ELSE {})
  /\ tpc' = [t \in Threads |-> "start"]
  /\ mpc' = "sum"
  /\ UNCHANGED <<named, part, count, written, disk, prev, n, next, late, copied>>

\* time(&now) - old is no longer 0.
second_passes ==
  /\ mpc = "sum"
  /\ ~late
  /\ late' = TRUE
  /\ UNCHANGED <<tpc, named, part, count, written, disk, mpc, total, prev, n,
                 next, copied>>

\* One turn of the inner loop of print_progress.
add_counter ==
  /\ mpc = "sum"
  /\ next < thread_count
  /\ n' = n + count[next]
  /\ next' = next + 1
  /\ UNCHANGED <<tpc, named, part, count, written, disk, mpc, total, prev,
                 late, copied>>

\* The sum is there; the iterator starts over, in print_progress or in
\* merge_file.
StartOver ==
  /\ next = thread_count
  /\ next' = 0

\* Mutants of the next two: n is not reset between two turns; the bar is
\* complete one byte late; one byte early.
not_complete_n_kept ==
  /\ mpc = "sum"
  /\ StartOver
  /\ n = prev \/ ~late \/ n < total
  /\ prev' = IF n # prev /\ late THEN n ELSE prev
  /\ UNCHANGED <<tpc, named, part, count, written, disk, mpc, total, n, late,
                 copied>>

complete_late ==
  /\ mpc = "sum"
  /\ StartOver
  /\ n # prev /\ late /\ n > total /\ total > 0
  /\ mpc' = IF thread_count = 1 THEN "done" ELSE "merge"
  /\ UNCHANGED <<tpc, named, part, count, written, disk, total, prev, n, late,
                 copied>>

complete_early ==
  /\ mpc = "sum"
  /\ StartOver
  /\ n # prev /\ late /\ n + 1 >= total /\ total > 0
  /\ mpc' = IF thread_count = 1 THEN "done" ELSE "merge"
  /\ UNCHANGED <<tpc, named, part, count, written, disk, total, prev, n, late,
                 copied>>

\* print_progress goes on: without looking at the sum if it is the same as
\* before or no second has passed.
not_complete ==
  /\ mpc = "sum"
  /\ StartOver
  /\ n = prev \/ ~late \/ n < total
  /\ prev' = IF n # prev /\ late THEN n ELSE prev
  /\ n' = 0
  /\ UNCHANGED <<tpc, named, part, count, written, disk, mpc, total, late,
                 copied>>

\* run divides by total_ = 0, and prints that it has come infinitely far.
endless_bar ==
  /\ mpc = "sum"
  /\ next = thread_count
  /\ n # prev /\ late /\ total = 0
  /\ mpc' = "endless"
  /\ UNCHANGED <<tpc, named, part, count, written, disk, progress>>

\* "[Complete]": merge_file begins, and has nothing to do for one thread.
complete ==
  /\ mpc = "sum"
  /\ StartOver
  /\ n # prev /\ late /\ n >= total /\ total > 0
  /\ mpc' = IF thread_count = 1 THEN "done" ELSE "merge"
  /\ UNCHANGED <<tpc, named, part, count, written, disk, total, prev, n, late,
                 copied>>

\* The test of fopen does not notice NULL: without the merged file the process
\* dies of the first byte, or of fclose.
merge_unopened ==
  /\ mpc = "merge"
  /\ next = 0
  /\ "open" \in Faults
  /\ mpc' = "crashed"
  /\ UNCHANGED <<tpc, named, part, count, written, disk, progress>>

\* merge_file copies one part up to where its file ends by now, and unlinks it.
merge_part ==
  /\ mpc = "merge"
  /\ next < thread_count
  /\ named[next] = "made"
  /\ copied' = [copied EXCEPT ![next] = disk[next]]
  /\ next' = next + 1
  /\ UNCHANGED <<tpc, named, part, count, written, disk, mpc, total, prev, n, late>>

\* A part that its thread has not made: fopen returns NULL, or finds a file of
\* an earlier run that could not be opened for writing.
merge_unmade ==
  /\ mpc = "merge"
  /\ next < thread_count
  /\ \/ named[next] # "made" /\ mpc' = "crashed" /\ UNCHANGED next
     \/ named[next] = "lost" /\ next' = next + 1 /\ UNCHANGED mpc
  /\ UNCHANGED <<tpc, named, part, count, written, disk, total, prev, n, late,
                 copied>>

merge_ends ==
  /\ mpc = "merge"
  /\ next = thread_count
  /\ mpc' = "done"
  /\ UNCHANGED <<tpc, named, part, count, written, disk, progress>>

download_file ==
  \/ get_file_size \/ add_counter \/ not_complete \/ endless_bar \/ complete
  \/ merge_unopened \/ merge_part \/ merge_unmade \/ merge_ends

Next ==
  \/ \E t \in Threads : download_it(t)
  \/ download_file
  \/ second_passes

Spec == Init /\ [][Next]_vars

\* The threads are scheduled, the server goes on sending, and time passes.
FairSpec ==
  /\ Spec
  /\ \A t \in Threads : WF_vars(download_it(t))
  /\ WF_vars(download_file)
  /\ WF_vars(second_passes)

-----------------------------------------------------------------------------
\* The variables keep their types, and no thread counts more than its part,
\* nor writes more than it counted.
TypeOK ==
  /\ tpc \in [Threads -> {"none", "start", "first", "body", "write", "ended"}]
  /\ named \in [Threads -> {"no", "made", "lost"}]
  /\ part \in [Threads -> [from : 0 .. Size, len : 0 .. Size]]
  /\ count \in [Threads -> 0 .. Size]
  /\ written \in [Threads -> 0 .. Size]
  /\ disk \in [Threads -> 0 .. Size]
  /\ \A t \in Threads :
       disk[t] <= written[t] /\ written[t] <= count[t] /\ count[t] <= part[t].len
  /\ mpc \in {"size", "sum", "merge", "done", "endless", "crashed"}
  /\ total \in 0 .. SIZE - 1
  /\ prev \in Nat
  /\ n \in Nat
  /\ next \in 0 .. thread_count
  /\ late \in BOOLEAN
  /\ copied \in [Threads -> 0 .. Size]

\* The bytes of the file that a thread's range is for.
RangeLen(t) ==
  (IF t = thread_count - 1 THEN Size ELSE RangeBegin(t + 1, Size))
    - RangeBegin(t, Size)

\* "[Complete]" is printed, and the merge begins, only when every thread has
\* received its whole range: counters that are read one after the other
\* while they grow, and threads that failed, never add up to the size; a main
\* thread that was told no size never gets there.
CompleteMeansReceived ==
  mpc \in {"merge", "done"} => \A t \in Threads : count[t] = RangeLen(t)

\* The merge comes to no part whose thread has not named and opened its file,
\* although nothing but a sum of counters holds it back: what is missing then,
\* so that fopen returns the NULL that "< 0" does not notice, is what file.open
\* failed to make.
PartsOpenedBeforeMerge ==
  mpc = "merge" => \A t \in next .. thread_count - 1 : named[t] # "no"

\* No byte is merged twice or out of order.
PartsInOrder ==
  \A t, u \in Threads :
    t < u /\ copied[u] > 0 => part[t].from + copied[t] <= part[u].from

\* A part whose thread has closed its file, if it had one, is merged whole,
\* however short the server cut an answer.
ClosedPartMergedWhole ==
  [][\A t \in Threads :
       mpc = "merge" /\ next = t /\ next' = t + 1
         /\ tpc[t] = "ended" /\ named[t] = "made"
         => copied'[t] = RangeLen(t)]_vars

\* When the size is known and every thread has received its whole range, the
\* counters are found to add up to it, in whatever order they grew and were
\* read, and the download comes to its end, unless a file could not be opened.
DownloadEnds ==
  total = Size /\ (\A t \in Threads : count[t] = RangeLen(t))
    ~> mpc = "done" \/ (mpc = "crashed" /\ "open" \in Faults)

\* "merge file done": the bytes of the file are all in the merged one.
Merged(t) ==
  part[t].from .. part[t].from
                    + (IF thread_count = 1 THEN disk[t] ELSE copied[t]) - 1

MergedWhole ==
  mpc = "done" => UNION {Merged(t) : t \in Threads} = 0 .. Size - 1
=============================================================================
