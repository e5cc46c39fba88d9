# A verification project for daobell

daobell downloads files by BitTorrent, HTTP and FTP. This directory holds TLA+
models of its BitTorrent core, from the tracker's announce to the files on disk,
and of its HTTP and FTP downloaders, the TLC runs that check them on small
instances, and proofs, checked by TLAPS, that hold for every value of their
constants.
Everything is translated from the C++ under `src/`; file names below are
relative to `src/src/`.

## The system

| Part | Code | State it keeps | Operations | What makes it correct |
|---|---|---|---|---|
| Torrent, shared by all threads | `torrent_info.*` | `sh.pieces_state`, `sh.pieces_left`, `sh.completed` under `sh_mutex`; the mapped files | `torrent_init`, `torrent_make_bitfield`, `torrent_next_request`, `torrent_sha1_verify`, `torrent_complete` | counter, table and flag agree; a piece that is HAVE is verified and stays so |
| Peer connection thread | `peer_connection.*` | `conn_state`: choked, interested, `peer_have`, `local_have`, `peer_requests`, `local_requests` | connect, handshake, one handler per message, `send_requests`, `show_not_interested` | it writes only blocks it waits for, counts them right, and gives no piece up for good |
| Tracker thread | `bt_downloader.cpp` | `started`, `completed`, the peers of an answer | announce, create and join a peer thread for each peer, break or sleep | it ends exactly when the download is complete, and no thread is left |
| Piece request | `piece_request.*` | position in the files while a piece is cut | `skip_until_index`, `next_block_request`, `piece_request_create` | the blocks are the piece: in order, without gap or overlap, inside the files |
| Peer wire protocol | `peer_msg.*` | the place in the byte stream | handshake, `peer_msg_buff_nonempty`, receive field by field, send | messages are read whole and in step |
| Downloaded files | `dnld_file.*` | mapping and name of each file, across starts of the program | `create_and_open`, `complete`, `close_and_free` | a final name never shows an unfinished file; a session that ends leaves whole files |
| Tracker announce | `tracker_announce.*`, `tracker_resp_parser.*` | one socket per announce, an answer buffer | connect, send, receive, parse | the request goes out whole, the buffer holds, an announce ends |
| HTTP downloader | `http_downloader.*`, `http_multi_threads_downloader.*`, `progress_bar.h` | bytes counted per thread, temporary files | threads for byte ranges, progress loop, merge | the ranges are the file; the merge starts after the writes |
| FTP downloader | `ftp_downloader.cpp` | control and data sockets, bytes written | one session: login, PASV, CWD, SIZE, RETR, QUIT | sockets are closed on every path; success means a whole file; nobody waits for ever |
| Bencode | `bencode_*` | none | parse, encode | encode after parse gives the bytes back (the info hash needs it) |
| SHA1, URL parsers, peer id, logging | | none of interest | | |
| `useless/`, `test/` | | not built; unit tests | | |

The main thread (`bt_download`) reads the metainfo, starts the tracker thread
and joins it. The tracker thread announces; for each peer of the answer it
calls `peer_connection_create`, which creates a thread **and joins it**. So one
peer thread runs at a time, its argument stays alive meanwhile, and the
tracker thread reads `sh.completed` (without the mutex) between them. The
peer threads share `torrent_info` only through time: what one leaves
behind, the next one finds. The remote peers act concurrently with all of it
through the socket.

The HTTP and FTP downloaders are parts of their own (`main.cpp` does not call
them). The FTP downloader is one thread and one session. The HTTP downloader's
main thread creates detached threads, each of which downloads a byte range into
its own file, adds up their counters until they reach the size, and merges the
files. Nothing is joined and nothing is locked: the counters are all that the
main thread knows.

What is hard here: a remote peer that closes, chokes, corrupts or falls silent
at any point; pieces left REQUESTED by a connection that ended; blocks that are
written before they are checked; a counter and a table that must agree across
connections; a join that waits for a thread that may never end; the arithmetic
of cutting pieces across files; counters that are read while they grow, and
that run ahead of the bytes they count; byte streams that arrive in any division
and stop anywhere (messages of peers, the tracker's answer, answers of an FTP
server); descriptors that are never closed; a process that dies between two
renames and starts again with an empty memory; two parsers and an encoder that
must agree to the byte.

## The modules

| Module | Models |
|---|---|
| `Download` | what a download promises, without connections: pieces are gained one at a time, only with the right content, content of a gained piece stays, complete with the last piece |
| `PeerConnection` | the peer thread, the shared torrent, the remote peer and the socket |
| `BtDownload` | the tracker thread composed with `PeerConnection` (EXTENDS) |
| `PieceRequest` | the cutting of a piece, one action per turn of a loop |
| `HttpDownload` | the HTTP downloader: its threads, the progress loop, the merge |
| `TrackerAnnounce` | the announce that `BtDownload` takes in one step, in its parts, with the descriptors that stay open |
| `MessageQueue` | what a remote peer's messages are to the rest of a thread: delivered whole and in order |
| `PeerWire` | how a peer thread takes messages off the byte stream |
| `DnldFile` | the files on disk across failures, crashes and restarts |
| `FtpDownload` | an FTP session against a server and a network |
| `Bencode` | both parsers, the dictionary and the encoder |
| `MCBtDownload`, `MCPieceRequest`, `MCTrackerAnnounce`, `MCPeerWire`, `MCDnldFile`, `MCBencode` | values of constants for TLC |
| `PeerConnectionProofs`, `BtDownloadProofs`, `PieceRequestProofs`, `HttpDownloadProofs`, `TrackerAnnounceProofs`, `PeerWireProofs`, `DnldFileProofs`, `FtpDownloadProofs` | theorems and proofs about the module each is named after |

### PeerConnection

The variables carry the names of the fields of `torrent_info::sh` and
`conn_state`. `pc` is the place in `peer_connection`: `connect`, `handshake`,
`setup` (queue, `conn_state_init`, bitfield, unchoke), then the loop, `recv`
(`process_queued_msgs`), `request` (`send_requests`) and `check`
(`sh.completed`). `none` is no thread, and `killed` a process that SIGPIPE
ended. Each message type has its action, which does everything `process_msg`
does for it, sends included.

- **Bytes.** A block is one request. `good` is the set of blocks whose bytes
  in the mapped files are the right ones; `torrent_sha1_verify` is true of a
  piece when all its blocks are in `good`. A block arrives `good`, `bad`, or
  `cut`: `peer_msg_recv_piece` ignores that its `recv` failed half-way, and the
  message is counted as a whole one. A cut block leaves `good` as it was: the
  bytes that did arrive are right ones.
- **Sends.** While the remote peer is there a send succeeds. After it closed,
  a send may succeed, fail, or raise SIGPIPE, which nothing handles.
- **The socket.** `inbox` holds whole messages. `peer_msg_buff_nonempty`
  passes a message when all but two of its bytes are there; a close in those
  two makes `peer_msg_recv` fail (`RemoteClosesInMessage`), or cuts a block
  (`RemoteClosesInBlock`). A closed connection with an empty buffer looks like
  one where nothing has arrived, and the thread goes on polling it.
- **The remote peer** is the environment: it keeps to the protocol and answers
  a request at most once, and only what was asked. `Faults` says what else it
  and the network may do. A request that is sent while the peer is choking us
  may be dropped or kept; a choke drops any subset of what is asked.
- **The end of a thread** (`ThreadEnds`) resets `conn_state` and the socket.
  The code closes neither socket nor message queue, but nobody reads
  them again.
- `local_requests.remove(*piece_it++)` followed by the loop's `++piece_it`
  steps past the end of the list. The list has one element
  (`PEER_NUM_OUTSTANDING_REQUESTS` is 1), and incrementing the end of an empty
  `std::list` of libstdc++ yields the end again, so the loop ends; the model
  takes that outcome.

### BtDownload

`create_tracker_request` is the part of the loop up to the announce, shared by
`announce_ok(n)` (an answer with n peers) and `announce_fails`. `next_peer` is
`create_peer_connection`; it waits for `pc = "none"`, which is the join.
`tracker_check` is the unlocked read, `break` or `sleep`.

### PieceRequest

Constants give the piece length, the block size, and the moduli of `unsigned`
(the product `piece_length * index` wraps) and of `size_t` (`left` wraps below
zero). A layout is the size of each file and where it starts; empty files are
left out, for `mmap` refuses them and `populate_files_from_list` then drops
them. `mems` is the concatenation of the `file_mems` of all blocks.

### HttpDownload

`tpc` is a thread's place in `download_it`, `mpc` the main thread's in
`download_file`. Of the bytes only their number is kept: `count`
(`downloaded_size_`), `written` (given to the `std::fstream`) and `disk` (in the
file); `part` is what the server sends a thread. Each `recv` of the loop is two
steps, for the code counts before it writes; the stream then keeps bytes back
until it is closed. `print_progress` reads one counter per step
(`add_counter`), and then goes on (`not_complete`) or prints "[Complete]"
(`complete`). `merge_part` copies what a part's file holds at the moment its end
is reached. The query, the range request, naming and opening of the file are one
step of a thread: in between it touches nothing the main thread can see. Faults
are connections that fail, answers that end early, files that cannot be opened,
a header that does not come with the first `recv` (`strstr` returns NULL, and the
process crashes), and a server that ignores ranges. A part whose file was not
opened (`lost`) is counted and not written; the merge then finds no file, and the
NULL of `fopen` crashes the process, or it finds one of an earlier run
(`merge_unmade`). Sizes may be unknown, to the threads (`UnknownSizes`)
or to the main thread (`UnknownTotals`): with a size of 0 the bar divides by it
and draws for ever (`endless_bar`). The program is built without optimisation,
so the counters are read afresh in every turn.

### TrackerAnnounce

`tpc` is the place in `periodic_announce` and in what it calls: `request`,
`connect`, `send`, `recv`, `parse`, `peers`, `check`, `sleep`. Lengths are in
small units: `total_sent`, the pointer `buff` and the remaining length advance
with each `send`, and `wire` records which units went out. The answer has a
header and a body and may be longer than the buffer (`Buff`); it arrives in any
division, may be cut anywhere, and the connection may break. A cut before the
first line, or before the end of the header, makes `strtok_r` return NULL, which
is then used: `answer_crashes`. Whether the body that was received parses is the
tracker's doing (`answer_garbled`, `answer_parsed`). `fds` counts open
descriptors: no path closes a connected announce socket (the only `close` is
behind a parse failure that never returns NULL), nor does a peer thread close
its socket and queue.

### PeerWire and MessageQueue

`sent` is what the remote peer sends, `ends` where each of its messages ends in
the stream, `arrived` and `read` are counts of bytes. The remote peer's messages
are `WellFormed`: only a KEEPALIVE has length 0, and a PIECE is as long as the
block it answers. For a CANCEL `peer_msg_recv` has an `assert(0)`, which
ends everything; the model ends the thread. `test` is `peer_msg_buff_nonempty`, satisfied two bytes before the end of a
message; then `recv_some` reads the fields one after the other (`FieldEnds` says
where in the message each ends, the stretches of a block in its files included),
one `recv` at a time. A `recv` that finds nothing fails when the connection is closed or its
timeout is over; `peer_msg_recv_piece` ignores that (`damaged`), every other
caller ends the thread. After a damaged block the thread may take the rest of it
for a length (`lost`: what happens then depends on the bytes, and nothing is
said of it). `ImplementsQueue` is the refinement: the messages not yet handled
are the queue, and the inbox of `PeerConnection` is such a queue.

### DnldFile

`final` and `part` are the files on disk under their two names, `{}` or the set
of pieces that are right in them; files consist of whole pieces here, and a file starts
where those before it (`Before`) end. `files` is
`torrent->files`: a file that cannot be created or mapped is left out, and
`Place` then puts the pieces of those behind it elsewhere, where they verify
against what they overwrite. `rename_fails` is the first rename failing, in any
session and for any file; nobody notices, the data goes under the final name,
and `complete` renames `path.incomplete` all the same, if an earlier session left
one. `valid_piece` and `corrupt_piece` are what a peer
thread does to one piece. `crash` may come between any two steps; `start` knows
nothing of earlier sessions. `age`, `shown` (what the first rename came to) and
`unnamed` (the second one failed) are history variables.

### FtpDownload

`pc` and `at` say where `download_it` is and with which command. Answers may
come in up to `MaxParts` parts, and one `recv` returns any number of the parts
that are there (`Reads`); only the answer to PASV is looked at. The server
answers in order, ends a transfer with an answer of its own, refuses commands,
gives up an idle session, or is cut off. The first `send` after its close
succeeds and may provoke a reset, the next raises SIGPIPE.

### Bencode

The recursion of `parse` is a stack, so that each step reads one token as the
code does. `reader` says which of the two overloads reads: of the stream (where
a failed extraction sets a state) or of the pointer (which is not told where the
text ends). A text that the code was not made for may crash it with a null
pointer, make a list loop for ever, or lead it outside of the text; the model
has these as ends of their own, and `Uninitialised` for the number that a stream at
its end leaves unread. `encode` writes the value and reads it again, or dies of a
null pointer in it (`encode_crashes`).

## The runs

| Run | Question | Bounds |
|---|---|---|
| `BtSafety` | does the shared state survive everything a sequence of remote peers may do, is the whole a `Download`, and is the tracker thread's view of it right? | 2 pieces of 2 and 1 blocks, one block on disk before, 2 messages in the buffer, 2 corrupt blocks or refused messages, 2 peers in an answer, all nine faults |
| `BtEnds` | does the download complete and the program end, with seeds that answer? | 3 pieces, 2 corrupt blocks or refused messages, no closes, no chokes |
| `BtReannounce` | violated: does the promised announce come? | 1 piece, closes only |
| `PieceCut` | are the blocks the piece? | up to 3 files of 1 to 7 bytes, pieces of 4 bytes, blocks of 2, `unsigned` just large enough for the largest torrent (21 bytes) |
| `AnnounceFaults` | what does the tracker get, what stays bounded, and does every announce end? | 2 addresses, requests of 2 units, a buffer of 4, five kinds of answers, 5 announces, 3 descriptors; failing connects, cuts and resets |
| `WireFaults` | does the thread stay in step with the messages, and is every one handled? | 2 messages out of eleven, blocks of 2 and 3 bytes in one or two files, every division of the bytes; timeouts, closes, strangers |
| `DnldRestart` | what is on disk after crashes, restarts and failures? | files of 2, 0 and 1 pieces, 4 starts of the program; files that cannot be created, mapped or renamed, in any session |
| `DnldStale` | violated: is every file whole when "torrent completed" is printed? | the same files, 2 starts, first renames that fail |
| `HttpFaults` | does the progress loop wait for every byte, is the merge in order, does it end? | 3 threads, 4 bytes (ranges of 1, 1 and 2), up to 2 bytes per `recv`; failing connections and files, short answers, late headers, a size the main thread is not told |
| `HttpMergeEarly` | violated: is the merged file whole? | 2 threads, 5 bytes, no faults |
| `FtpFaults` | are the sockets closed, is a success a whole file, who waits for whom, and does the session end? | a file of 2 pieces, answers in up to 2 parts, all five faults |
| `BencodeRoundTrip` | do the parsers and the encoder undo one another? | both parsers; canonical texts up to two levels deep with five keys, all texts of up to five of eight characters, keys that are out of order, doubled, or hold a NUL |

Why the bounds are enough to be interesting: two pieces make the first choice of
`torrent_next_request` differ from its second, a piece of two blocks makes the
order of answers, half-finished pieces and the last block matter, a block that
is right before it arrives makes a cut block indistinguishable
from a good one, and one more corrupt block than a piece has tries makes
verification fail again after a retry. Connections are not bounded: the
search covers any number of them. Three files of up to 7 bytes put zero, one
and two file boundaries in a block and let files start and end at every
position of a piece.

Three ranges of which the last is longer show the rest of the division, and
ranges that come in more than one `recv` let counters be read half-way. Two messages
are one to lose step in and one to notice it with. Three descriptors run out
within five announces; four starts are one to complete a file, two to lose it
and one more. A key of each length and order, numbers with one digit, two digits
and a sign, and every pair of values reach all branches of both parsers.

Deadlock is not checked where the system really stops: after SIGPIPE or a crash,
after the program's exit or its last start, when `piece_request_create`,
`download_file` or `download_it` has returned, when the remote peer has sent its
last message, when a text is read. The liveness properties say where it may not.

### Properties

`BtSafety`: `BtTypeOK`; `PiecesLeftCounts` (counter, table, flag and mapping
agree), `OutstandingRequest` (one request, REQUESTED, its counter exact and never
past zero), `AnswersExpected` (what is in flight is awaited, once, so the write
before the check is harmless), `HaveVerified`, `QuietAfterCompletion` (no
verification reads unmapped files), `NeverIdle`, `RequestResolved` (an action
property), `ImplementsDownload`, the refinement of `Download` with `have` the
pieces in state HAVE, `JoinedBeforeCheck`, `ExitMeansComplete`
and `CompletedNeverAnnounced`. `BtEnds`:
`GoesOn` (`NothingLost`: what is awaited is asked for or on its way; `UnderWay`:
there is always a message to read, an answer or the unchoke to come, or a piece to
ask for), `ProgramEnds`. `PieceCut`: `InsideFiles`, `Contiguous`, `Cut`
(`CoversPiece`, and `BlocksAligned` against the textbook definition of the
blocks), `Terminates`.

`AnnounceFaults`: `Requests` (the request goes out once and in order, STARTED at
most once and first), `Bounds` (`InsideBuffer`; `ConnectionsBounded`: the program
can make only as many connections in its life as it may open descriptors;
`HasteBounded`: nothing else bounds the announces that an interval of 0 makes
without a pause), `AnnounceEnds`. `WireFaults`: `Position` (`InStep`;
`WaitsForTwo`: the thread blocks inside a message for no more than its last two
bytes), `ImplementsQueue`, `EveryMessageHandled`. `DnldRestart`: `EndsWhole`
(but for a file that could not be hidden beside a `.incomplete` of an earlier
session), `Names` (`FinalNeverPartial`, of files that could be hidden), `SurvivesOneStart` (a completed file outlives the
next start and its crash; the one after that replaces it).

`HttpFaults`: `CompleteMeansReceived` (a sum of counters that is of no single
moment never reaches the size early), `PartsOpenedBeforeMerge` (the merge comes to no
part before its thread has named and opened it; a file the system did not open is
what is left for `fopen` to fail on), `PartsInOrder`, `ClosedPartMergedWhole`,
`DownloadEnds`. `FtpFaults`: `Sockets`
(`SocketsClosed`), `SuccessMeansWhole`, `MutualWait` (client and server wait for
one another in two cases and no others), `Ends`. `BencodeRoundTrip`: `RoundTrip`
(`WritesWhatWasRead` at every moment of the parse, `SameWhenReadAgain`),
`CanonicalIsRead`.

Where an invariant is a conjunction, the type invariant of the module is its
first conjunct, and each of the other conjuncts has a mutant of its own.

Beside the definition each property's mutant breaks, the modules keep the
mutant: an operator that is the code with one plausible mistake (a counter
tested before it is decremented, a request that a choke drops, a loop without
its check of the files). Each property has one that TLC finds.

### Fairness

The threads are scheduled (weak fairness of the peer thread's steps and of the
tracker thread's). Connect, handshake, set-up, a non-empty answer of the tracker
and the creation of a thread succeed now and then (strong fairness): without
it a network that always fails keeps any client from finishing. The remote peer
in time unchokes and answers with good bytes (weak fairness); corrupt blocks
and refused messages are bounded, so they cannot go on for ever. Nothing is
assumed of peers that close or choke: with them completion does
fail, for the reasons in the next section. `HttpDownload` assumes that its threads
are scheduled, that the server goes on sending, and that time passes.
`TrackerAnnounce` assumes that the tracker answers or at least closes, for
without it `recv`, which has no timeout there, waits for ever; `FtpDownload` that
the server works and gives up an idle session, for the same reason; `PeerWire`
that what was sent arrives.

## What the checks show about the code

- **A closed connection stops the program** (`BtReannounce`). The tracker
  thread prints "re-announcing to tracker again in N seconds"
  (`bt_downloader.cpp:111-112`) and then joins the peer threads. When the
  remote peer closes, `recv` with `MSG_PEEK` returns 0, and
  `peer_msg_buff_nonempty` answers "nothing yet" (`peer_msg.cpp:486`). The
  thread polls for ever with nobody to talk to, unless it still sends
  something, and the announce never comes.
- **The HTTP merge does not wait for the bytes** (`HttpMergeEarly`).
  `download_it` counts bytes before it writes them, and they stay in the stream's
  buffer until it is closed. With the last counter the main thread prints
  "[Complete]", copies the parts as they are and unlinks them.
- **A stale `.incomplete` replaces a completed file** (`DnldStale`). The result of
  the first rename is ignored (`dnld_file.cpp:47`). If it fails in a session
  that finds `path.incomplete` of one that crashed, the data goes to the file under
  its final name; all pieces are verified, `complete` puts the unfinished file over
  the whole one (`:81`), and "torrent completed" is printed.

Found by reading, while the models were written; the models take these as they
are, and no run is kept for them:

- A piece length that is not a multiple of 16 KiB breaks the cut:
  `next_block_request` takes 16 KiB whatever is left of the piece
  (`piece_request.cpp:73`), `left` wraps below zero, the blocks run on to the end
  of the torrent and `begin` leaves the piece. `RequestsBeginInPiece` is proved
  under `WholeBlocks` only.
- A HAVE shows interest only in pieces we already had (`peer_connection.cpp:381`);
  a remote peer's REQUEST stops our own for good (`:592`); a choke loses the
  outstanding request without a retry (`GoesOn` fails when "choke" is added
  to `BtEnds`); the info_hash of the remote handshake is not compared (`:132`).
- The COMPLETED event is dead code (`CompletedNeverAnnounced`); STARTED is lost
  when the first announce fails; an interval of 0 announces without a pause.
- A tracker that closes without an answer, or inside the header, crashes the
  program instead of being asked again (`tracker_announce.cpp:157`); a chunked
  answer is looked for as "chuncked" (`:169`) and not decoded.
- The `close` at `tracker_announce.cpp:259` is never reached, so that each
  announce leaves a descriptor open, and each peer thread two.
- A file that cannot be created or mapped is left out of `torrent->files`, and
  the bytes of those behind it go to the wrong places, where they verify; the
  session never completes. Starting the program again after a completed download
  hides the files as `.incomplete`, and starting it twice loses them. `complete`
  cuts a path at the first ".incomplete" in it, the directories included.
- `ftp_downloader::download_it` returns 0 after an error as after a "226"
  (`ftp_downloader.cpp:235`): the answer is not looked at, nor is `fopen`'s.
- A torrent whose keys are not sorted, or whose numbers begin with zeros, is
  encoded differently from its file and so gets another info_hash. A text that
  ends early makes the parsers loop for ever or use a null pointer.
- A null pointer that the parser put into a list or dictionary is not tested by
  the encoder (`bencode_encoder.cpp:70`, `:85`), which dies of it, and a key is written up
  to its first NUL (`:84`).
- A message CANCEL of length 1 passes `valid_len` and meets `assert(0)`
  (`peer_msg.cpp:448`): it ends the program.
- An empty file, or a thread that fails, keeps the HTTP progress loop spinning;
  with more threads than bytes every range is the whole file. Without
  Content-Length in the first `recv` the size is taken for 0: the main thread
  then divides by it, and the loop that draws the bar never ends
  (`progress_bar.h:57-60`); a thread asks for another range than its own, and the counters
  may reach the size early.
- `file.open` of a part is not tested (`http_multi_threads_downloader.cpp:232`), its bytes
  are counted all the same, and the merge meets a NULL that `< 0` does not notice
  (`http_downloader.cpp:77`).

## What is proved

All theorems hold for every value of the constants that satisfies the named
assumptions of the modules: at least one piece with at least one block in each
and a positive inbox (`PeerConnection`), at least one file (`DnldFile`), lengths
that are not 0, messages that are `WellFormed` (`PeerWire`). A theorem that needs
more says so: `NoWrap` and `WholeBlocks`, `Honest`, a remote peer that does not
choke, or `SeedsOnly`. Each inductive invariant was first checked by TLC, on the bounds of the
run of its module.

`PeerConnectionProofs`. The invariant is

    Inv == TypeOK /\ PiecesLeftCounts /\ OutstandingRequest
                  /\ AnswersExpected /\ HaveVerified

and it is inductive as it stands, but no part alone is. `HaveVerified` needs
`AnswersExpected` and `OutstandingRequest`: an answer is for a block that is
awaited, its piece is REQUESTED and so not HAVE, and writing it cannot
spoil a verified piece. `PiecesLeftCounts` needs `OutstandingRequest`
so that the piece gained was not HAVE before and the counter goes down by exactly
one. The lemmas follow the actions: what a thread's end, a plain message, an
answer, a new request and a received piece do to each conjunct. From `Inv`:
`TypeCorrect`, `PiecesLeftIsExact`, `RequestIsConsistent`, `AnswersAreExpected`,
`HaveIsVerified`, `QuietWhenCompleted`, `PiecesAreKept`, `RequestsAreResolved`,
`NeverWaitsForNothing` and `Implementation`
(`Spec => ImplementsDownload`: initial states map to initial states; a received
piece maps to `Gain` or to a change of content outside the pieces gained; every
other step stutters).

`NothingIsLost` needs two facts more than `Inv`: while the remote peer is choking,
no UNCHOKE of it is on its way and the thread knows that it is choked
(`Unheard`), so that no request meets a peer that would drop it; and a connection
begins without requests (`Fresh`). Of the nine faults only "choke" is excluded, for
with it the property is false: a choke drops what was asked.

`SeedsKeepGoing` is the safety part of completion: under `SeedsOnly` (remote peers
that have every piece, never choke and ask nothing of us; they may still corrupt
blocks, send what is refused, and close) the thread always has something to go on
with until the download is complete. `SeedInv` keeps what such a peer has said
or has still on its way: its bitfield is known or coming, a peer that no longer
chokes has an UNCHOKE known or coming, a thread that has the bitfield is
interested. When none of that is left to come, a
piece is lacking (`PiecesLeftCounts`), and `torrent_next_request` has a choice
(`ChoiceExists`), for every nonempty set of numbers has a least one and, if it is
bounded, a greatest (`LeastElement`, `GreatestElement`, from the well-foundedness
of `<`). Each exclusion is needed: with any one of the three faults
added to `BtEnds` TLC finds `GoesOn` violated, and each is a hazard of the code.

`BtDownloadProofs`. The lemma `PeerImplementation` says what the shape of `BtNext`
makes plain, that a step of the program, projected, is a step or a stutter of
`PeerConnection`. With it the invariant above holds
of the program, and one about the tracker thread gives `BtTypeCorrect`,
`JoinedFirst`, `CompletedUnannounced` and `ExitIsComplete`; `NothingIsLost`
and `SeedsKeepGoing` carry over as `NothingLostByProgram` and `ProgramGoesOn`, and
`ProgramIsDownload` composes the two refinements: the whole program is a `Download`.

`PieceRequestProofs`. `StretchesInsideFiles` needs no condition: the invariant
is that the place in the files is a byte of a file or the end of the last.
`StretchesContiguous` and `RequestsBeginInPiece` hold under `NoWrap` (the
torrent fits `unsigned`) and `WholeBlocks` (the piece length is a multiple of
the block size), the two conditions whose failure the hazards are about. The
invariant `CutInv` ties the place in the files to `left`, keeps `left` plus the
current block a multiple of the block size, and the last stretch at the place.

`HttpDownloadProofs`. `Honest` says that the threads know the size, ranges are
honoured and there is a byte for each thread; the main thread may be told 0 or
too large a size, connections and files may fail and answers may end early. `RangesAreTheFile` is the arithmetic: the ranges follow each other from
the first byte to the last. It lets the invariant `HInv` do without sums over
threads: after `k` counters `n` is at most the beginning of range `k`, and
equal to it only if each of those threads has received its range, which stays
true because no thread counts past its range. With the last counter the bound
is the size, so `CompleteIsReceived`; from it `PartsAreOpened` (a thread that
received something has named its file and opened it, or the system refused), `MergedInOrder` and `ClosedPartsWhole`.

`CutAsDefined` (the rest of `Cut`, under the same two conditions) needs that no file
starts behind the end of the torrent, which is an induction over the files.
Induction with an operator as its parameter is out of the provers' reach, so
`PassedOn` states it about sets: a subset of `1 .. n` that has with each number the
next is empty. It follows from the well-foundedness of strict inclusion among
finite subsets; `Climbs` uses it with the set of places where something
fails. `BlocksInv` then says that the blocks so far are whole, each beginning where
the one before it ends, and are what has been taken of the piece.

`TrackerAnnounceProofs`. `RequestsInOrder` needs that the pointer, the counter and
the units sent agree (`Sent`), and that until the first announce is heard nothing
has been (`Unheard`). `BoundsHold` rests on `Spent`: each connection has a
descriptor of its own that is still open, each sleep of 0 seconds a connection of
its own, and an announce that may yet end in such a sleep has not used its
connection up.

`PeerWireProofs`. In the invariant `Place` ties what is read to the ends of the
messages: up to the end of the last message between two, and as far into the
current one as its fields go in it, or less once a block was given up.
`FieldsFit` is what makes it work: for every kind of message that is accepted the
`recv`s end one after the other inside it, the last where its length says.
From it `KeepsItsPlace`, and `ReadsAsAQueue`, the refinement of `MessageQueue`: a
message that is sent is added at the end, one that is handled is the first, a
thread that ends or loses its place ends or breaks the queue, and everything else
stutters.

`DnldFileProofs`. `StartCounts`, `RangesFit` and `PlaceOnce` show that the files have
ranges of pieces without overlap, for any number of files, by counting the pieces
before each; `MissingLess` that a session in which a file was left out has
no place for the last piece, and so never completes. The invariant follows a file
through a session: which name it is open under (`Session`), that verified pieces are
in it if none is missing (`Verified`), that it is whole while files get their final
names (`Published`), and what is left of it one start later (`Kept`). From it
`NamesAreWhole`, `SessionsEndWhole` and `CompletedFilesSurvive`. The one exception in
`SessionsEndWhole` is the file of the run `DnldStale`; what completion does to it
is not a whole file, so `CompletedFilesSurvive` says nothing of it.

`FtpDownloadProofs`. The invariant has the sockets of each place in `download_it`
(`Place`, which gives `AllSocketsClosed`), the order of the commands that are still
with the server (`Queue`), how far data connection and transfer have come with them
(`Service`), and what has been said of the end of the transfer (`Said`). The 226
is said only when everything was sent, and the loop ends only with the data
connection, so `SuccessfulTransferIsWhole`; and whenever `download_it` waits,
something is with the server or on its way back, unless the answer it waits for was
read with an earlier one: `WaitingIsExplained`.

Each sequential component has a loop whose end is a liveness property. Liveness
itself needs fairness and ENABLED, but that no run of steps goes on
for ever does not: it is a number that stays a natural number and falls with each
step, and that is proved. Together with the guards, which a reader can see to be
exhaustive, and fairness it gives the liveness property that TLC checks.

- `LoopsRunOut` (`PieceRequest`): `TurnsLeft` counts three turns for each byte behind
  the place in the files. It falls with every step, for every layout and even where
  `left` wraps around; a turn that takes nothing would break it, and the invariant
  `TakesSome` excludes one.
- `SessionIsFinite` (`FtpDownload`): `WorkLeft` counts the turns of `download_it`, the
  bytes it has not received, and what the server and the network can still do.
  It falls with every step of anyone, under all faults, so that the session ends
  or waits.
- `AnnounceIsFinite` (`TrackerAnnounce`): `AnnounceLeft` counts addresses, units to
  send and units that fit the buffer. It falls with every step of the thread and no
  step of the tracker raises it.
- `DownloadIsFinite` (`HttpDownload`): from the moment when every range has
  been received the progress loop may finish a turn in which counters still grew and
  needs one more, in which the sum is the size. That turn is not taken for one
  without progress because the bar has shown less so far (`Turning`), and the merge
  comes to no part without a file, unless one could not be opened.
- `WholeMessagesAreRead` (`PeerWire`): a message that has arrived whole never holds
  the thread up, each step comes nearer to its end (`StepsLeft`), and nothing
  that happens meanwhile, a timeout, a close or more messages, takes it away if it
  is one that is accepted.

Only model-checked:

- liveness (`ProgramEnds`, `Terminates`, `DownloadEnds`, `AnnounceEnds`,
  `EveryMessageHandled`, `Ends`, `CanonicalIsRead`), which needs fairness and
  ENABLED, and they are out of the prover's reach (of `ProgramEnds` it is `GoesOn`
  that is proved, and no number that falls: corrupt blocks and failed connections may
  repeat, and only the bounds of the run end them);
- `RoundTrip` of `Bencode`: its value and text are recursive data, read and written
  by RECURSIVE operators, in whose modules the SMT backend is lost; what they
  compute for every text would be an induction over data.

Every other property that a passing run checks is stated by a theorem.

## Not modelled

- SHA1: a fixed numeric algorithm with test vectors; the models take a digest to
  match exactly when the bytes are the right ones.
- URL parsing, the peer id and the text of a request or of a log line: string
  handling without state. `TrackerAnnounce` and `HttpDownload` start from a URL
  that has been parsed.
- Which keys of the metainfo are read, and `create_pieces_vector`: straight
  copying out of the dictionary that `Bencode` reads.
- `peer_msg_send_piece` and the upload side: the requests of a remote peer are
  queued, and nothing answers them; no thread starts with a socket it was given.
- Printing of bencoded values; `useless/`, an earlier implementation that is not
  built; the unit tests.
