---------------------------- MODULE FtpDownload ----------------------------
(***************************************************************************)
(* ftp_downloader::download_it (src/ftp_downloader.cpp): one FTP session   *)
(* in passive mode.  It sends a command, takes whatever one recv returns   *)
(* for the answer, and goes on without looking at it; only after PASV does *)
(* it look for "227 Entering Passive Mode" at the start of what it read.   *)
(* The control connection is a stream: an answer may arrive in parts, and  *)
(* one recv may return several.  Server and network are external.          *)
(***************************************************************************)
EXTENDS Integers, Sequences

CONSTANTS
  Size,      \* pieces of the file that the server sends one by one
  MaxParts,  \* bound: segments in which an answer may arrive
  Faults     \* what may go wrong

FaultKinds == {"local",    \* socket, gethostbyname, connect or fopen fails
               "refused",  \* the server answers a command with an error
               "cut",      \* the server ends a transfer before its end
               "close",    \* the server closes an idle session
               "reset"}    \* a connection breaks

ASSUME FtpAssumption ==
  /\ Size \in Nat
  /\ MaxParts \in Nat \ {0}
  /\ Faults \subseteq FaultKinds

\* The answers in the order in which download_it waits for them.  "DATA" is
\* the second one to RETR, at the end of the transfer.
Script == <<"WELCOME", "USER", "PASS", "PASV", "CWD", "SIZE", "RETR", "DATA",
            "QUIT">>
Answers == {Script[i] : i \in 1 .. 9}
Login == {"WELCOME", "USER", "PASS", "PASV"}
Transfer == {"CWD", "SIZE", "RETR"}
After(c) == Script[1 + CHOOSE i \in 1 .. 8 : Script[i] = c]

VARIABLES
  pc,         \* where download_it is
  at,         \* the command it sends, or whose answer it waits for
  open,       \* its sockets that are open
  port,       \* it has found the port of the data connection
  received,   \* pieces of the file written
  heard,      \* answers it has read to their end, with what they said
  conn,       \* control connection: "none", "up", "fin" after the server's
              \* close, "dead" when a send has been answered by a reset, "rst"
  commands,   \* commands the server has not answered yet
  replies,    \* parts of answers that download_it has not read yet
  data,       \* data connection: "none", "listen", "open", "closed", "rst"
  transfer,   \* "none", "running", "done", "cut", "refused"
  sent        \* pieces of the file the server has sent

client == <<pc, at, open, port, received, heard>>
service == <<data, transfer, sent>>
server == <<conn, commands, replies, service>>
vars == <<client, server>>

\* "killed" by SIGPIPE, "crashed" by an exception or a null FILE.
Ended == {"failed", "done", "killed", "crashed"}

Init ==
  /\ pc = "socket"
  /\ at = "WELCOME"
  /\ open = {}
  /\ port = FALSE
  /\ received = 0
  /\ heard = {}
  /\ conn = "none"
  /\ commands = <<>>
  /\ replies = <<>>
  /\ data = "none"
  /\ transfer = "none"
  /\ sent = 0

-----------------------------------------------------------------------------
(* What the steps of the client are made of. *)

\* An error path: close some sockets and return -1.
Fails(closed) ==
  /\ pc' = "failed"
  /\ open' = open \ closed
  /\ UNCHANGED <<at, port, received, heard, server>>

\* send of one command.  The first one after the server's close is lost and
\* will be answered by a reset; from then on send raises SIGPIPE.
Sends(closed) ==
  /\ pc = "send"
  /\ \/ /\ conn = "up"
        /\ pc' = "recv"
        /\ commands' = Append(commands, at)
        /\ UNCHANGED <<at, open, port, received, heard, conn, replies, service>>
     \/ /\ conn = "fin"
        /\ pc' = "recv"
        /\ conn' \in {"fin", "dead"}
        /\ UNCHANGED <<at, open, port, received, heard, commands, replies,
                       service>>
     \/ /\ conn = "dead"
        /\ pc' = "killed"
        /\ UNCHANGED <<at, open, port, received, heard, server>>
     \/ conn = "rst" /\ Fails(closed)

\* One recv returns the first n parts that are there: none only when the
\* server has closed, which download_it takes for an answer as well.
Reads(n) ==
  /\ pc = "recv"
  /\ n = 0 => replies = <<>> /\ conn \in {"fin", "dead"}
  /\ heard' = heard \cup
       {[to |-> replies[i].to, ok |-> replies[i].ok] :
          i \in {j \in 1 .. n : replies[j].last}}
  /\ replies' = SubSeq(replies, n + 1, Len(replies))
  /\ UNCHANGED <<received, conn, commands, service>>

CannotRead(closed) ==
  /\ pc = "recv"
  /\ conn = "rst"
  /\ replies = <<>>
  /\ Fails(closed)

-----------------------------------------------------------------------------
(* download_it. *)

open_ctrl ==
  /\ pc = "socket"
  /\ \/ /\ pc' = "connect"
        /\ open' = {"ctrl"}
        /\ UNCHANGED <<at, port, received, heard, server>>
     \/ "local" \in Faults /\ Fails({})

\* gethostbyname and connect.  The server greets whoever connects.
connect_ctrl ==
  /\ pc = "connect"
  /\ \/ /\ pc' = "recv"
        /\ conn' = "up"
        /\ commands' = <<at>>
        /\ UNCHANGED <<at, open, port, received, heard, replies, service>>
     \/ "local" \in Faults /\ Fails({"ctrl"})

login_send == at \in Login /\ Sends({"ctrl"})

login_recv ==
  /\ at \in Login \ {"PASV"}
  /\ \/ /\ \E n \in 0 .. Len(replies) : Reads(n)
        /\ pc' = "send"
        /\ at' = After(at)
        /\ UNCHANGED <<open, port>>
     \/ CannotRead({"ctrl"})

\* What was read begins with "227 Entering Passive Mode".
Passive(n) ==
  /\ n > 0
  /\ replies[1].to = "PASV"
  /\ replies[1].ok
  /\ replies[1].part = 1

\* The answer to PASV and the port in it.  The beginning of the answer alone
\* may have fewer than six numbers, which throws, or fewer digits.
pasv_recv ==
  /\ at = "PASV"
  /\ \/ \E n \in 0 .. Len(replies) :
          /\ Reads(n)
          /\ \/ /\ pc' = "data_socket"
                /\ port' = Passive(n)
             \/ /\ Passive(n)
                /\ n = 1 /\ ~replies[1].last
                /\ pc' \in {"data_socket", "crashed"}
                /\ port' = FALSE
          /\ UNCHANGED <<at, open>>
     \/ CannotRead({"ctrl"})

open_data ==
  /\ pc = "data_socket"
  /\ \/ /\ pc' = "data_connect"
        /\ open' = open \cup {"data"}
        /\ UNCHANGED <<at, port, received, heard, server>>
     \/ "local" \in Faults /\ Fails({"ctrl"})

\* Without the right port nobody accepts the connection.
connect_data ==
  /\ pc = "data_connect"
  /\ \/ /\ port
        /\ data = "listen"
        /\ data' = "open"
        /\ pc' = "send"
        /\ at' = After(at)
        /\ UNCHANGED <<open, port, received, heard, conn, commands, replies,
                       transfer, sent>>
     \/ /\ ~port \/ data # "listen" \/ "local" \in Faults
        /\ Fails({"ctrl", "data"})

\* Mutant: an error path that closes one socket only.
transfer_send_leaks == at \in Transfer /\ Sends({"ctrl"})

transfer_send == at \in Transfer /\ Sends({"ctrl", "data"})

transfer_recv ==
  /\ at \in Transfer
  /\ \/ /\ \E n \in 0 .. Len(replies) : Reads(n)
        /\ IF at = "RETR"
             THEN pc' = "fopen" /\ UNCHANGED at
             ELSE pc' = "send" /\ at' = After(at)
        /\ UNCHANGED <<open, port>>
     \/ CannotRead({"ctrl", "data"})

\* fopen is not checked.
open_file ==
  /\ pc = "fopen"
  /\ \/ pc' = "fetch"
     \/ "local" \in Faults /\ pc' = "crashed"
  /\ UNCHANGED <<at, open, port, received, heard, server>>

fetch ==
  /\ pc = "fetch"
  /\ received < sent
  /\ received' = received + 1
  /\ UNCHANGED <<pc, at, open, port, heard, server>>

\* The loop ends: added is what the last turn counts.
FetchEnds(over, added) ==
  /\ pc = "fetch"
  /\ over
  /\ pc' = "recv"
  /\ at' = "DATA"
  /\ open' = open \ {"data"}
  /\ received' = received + added
  /\ UNCHANGED <<port, heard, server>>

DataOver == data = "rst" \/ (data = "closed" /\ received = sent)

\* Mutants: the loop ends when recv has less than it asked for; it goes on
\* until recv fails; rt is added first.
fetch_ends_when_short == FetchEnds(received > 0 \/ DataOver, 0)
fetch_ends_on_error == FetchEnds(data = "rst", 0)
fetch_adds_rt == FetchEnds(DataOver, 1)

\* recv returns 0 at the end of the data, or fails: "get file done".
fetch_ends == FetchEnds(DataOver, 0)

\* The answer at the end of the transfer.
data_recv ==
  /\ at = "DATA"
  /\ \/ /\ \E n \in 0 .. Len(replies) : Reads(n)
        /\ pc' = "send"
        /\ at' = "QUIT"
        /\ UNCHANGED <<open, port>>
     \/ CannotRead({"ctrl"})

\* Mutant: QUIT is not sent.
quit_unsent ==
  /\ at = "QUIT"
  /\ pc = "send"
  /\ pc' = "recv"
  /\ UNCHANGED <<at, open, port, received, heard, server>>

quit_send == at = "QUIT" /\ Sends({"ctrl"})

quit_recv ==
  /\ at = "QUIT"
  /\ \/ /\ \E n \in 0 .. Len(replies) : Reads(n)
        /\ pc' = "done"
        /\ open' = open \ {"ctrl"}
        /\ UNCHANGED <<at, port>>
     \/ CannotRead({"ctrl"})

ClientNext ==
  \/ open_ctrl \/ connect_ctrl \/ login_send \/ login_recv \/ pasv_recv
  \/ open_data \/ connect_data \/ transfer_send \/ transfer_recv
  \/ open_file \/ fetch \/ fetch_ends \/ data_recv \/ quit_send \/ quit_recv

-----------------------------------------------------------------------------
(* The server, as the comments of download_it describe its answers, and    *)
(* the network.                                                            *)

\* An answer in k parts.
Answer(c, ok, k) ==
  [i \in 1 .. k |-> [to |-> c, ok |-> ok, part |-> i, last |-> i = k]]

\* What a command does.  A refused RETR may leave the data connection open.
Serves(c, ok) ==
  \/ /\ c = "PASV" /\ ok
     /\ data' = "listen"
     /\ UNCHANGED <<transfer, sent>>
  \/ /\ c = "RETR" /\ ok
     /\ data = "open"
     /\ transfer' = "running"
     /\ UNCHANGED <<data, sent>>
  \/ /\ c = "RETR" /\ ~ok
     /\ transfer' = "refused"
     /\ data' \in {data, IF data = "open" THEN "closed" ELSE data}
     /\ UNCHANGED sent
  \/ /\ c \notin {"PASV", "RETR"} \/ (c = "PASV" /\ ~ok)
     /\ UNCHANGED service

server_answers ==
  /\ conn = "up"
  /\ transfer # "running"
  /\ commands # <<>>
  /\ \E ok \in BOOLEAN, k \in 1 .. MaxParts :
       /\ ok \/ "refused" \in Faults
            \/ (Head(commands) = "RETR" /\ data # "open")
       /\ Serves(Head(commands), ok)
       /\ replies' = replies \o Answer(Head(commands), ok, k)
  /\ commands' = Tail(commands)
  /\ conn' = IF Head(commands) = "QUIT" THEN "fin" ELSE "up"
  /\ UNCHANGED client

server_sends ==
  /\ conn = "up"
  /\ transfer = "running"
  /\ sent < Size
  /\ sent' = sent + 1
  /\ UNCHANGED <<client, conn, commands, replies, data, transfer>>

\* The transfer ends, and an answer says how.
server_ends_transfer ==
  /\ conn = "up"
  /\ transfer = "running"
  /\ sent = Size \/ "cut" \in Faults
  /\ transfer' = IF sent = Size THEN "done" ELSE "cut"
  /\ data' = "closed"
  /\ \E k \in 1 .. MaxParts :
       replies' = replies \o Answer("DATA", sent = Size, k)
  /\ UNCHANGED <<client, conn, commands, sent>>

\* The server's idle timeout.
server_closes ==
  /\ "close" \in Faults
  /\ conn = "up"
  /\ commands = <<>>
  /\ transfer # "running"
  /\ conn' = "fin"
  /\ data' = CASE data = "open" -> "closed"
               [] data = "listen" -> "none"
               [] OTHER -> data
  /\ UNCHANGED <<client, commands, replies, transfer, sent>>

\* The connections break, or only the data connection does.
connections_break ==
  /\ "reset" \in Faults
  /\ conn = "up"
  /\ conn' = "rst"
  /\ data' = CASE data = "listen" -> "none"
               [] data \in {"open", "closed"} /\ "data" \in open -> "rst"
               [] OTHER -> data
  /\ transfer' = IF transfer = "running" THEN "cut" ELSE transfer
  /\ UNCHANGED <<client, commands, replies, sent>>

data_breaks ==
  /\ "reset" \in Faults
  /\ "data" \in open
  /\ data \in {"open", "closed"}
  /\ data' = "rst"
  /\ IF transfer = "running"
       THEN /\ transfer' = "cut"
            /\ replies' = replies \o Answer("DATA", FALSE, 1)
       ELSE UNCHANGED <<transfer, replies>>
  /\ UNCHANGED <<client, conn, commands, sent>>

ServerNext == server_answers \/ server_sends \/ server_ends_transfer

Next ==
  \/ ClientNext
  \/ ServerNext
  \/ server_closes
  \/ connections_break
  \/ data_breaks

Spec == Init /\ [][Next]_vars

\* download_it runs, the server works, and it does not keep an idle session
\* for ever.
FairSpec ==
  Spec /\ WF_vars(ClientNext) /\ WF_vars(ServerNext) /\ WF_vars(server_closes)

-----------------------------------------------------------------------------
TypeOK ==
  /\ pc \in {"socket", "connect", "send", "recv", "data_socket",
             "data_connect", "fopen", "fetch"} \cup Ended
  /\ at \in Answers
  /\ open \subseteq {"ctrl", "data"}
  /\ port \in BOOLEAN
  /\ received \in 0 .. Size
  /\ heard \subseteq [to : Answers, ok : BOOLEAN]
  /\ conn \in {"none", "up", "fin", "dead", "rst"}
  /\ commands \in Seq(Answers)
  /\ replies \in Seq([to : Answers, ok : BOOLEAN, part : 1 .. MaxParts,
                      last : BOOLEAN])
  /\ data \in {"none", "listen", "open", "closed", "rst"}
  /\ transfer \in {"none", "running", "done", "cut", "refused"}
  /\ sent \in 0 .. Size

\* Whichever of its many error paths download_it returns through, both
\* sockets are closed: none stays open, and none of them is forgotten because
\* the data connection exists only between PASV and the end of the transfer.
SocketsClosed == pc \in {"failed", "done"} => open = {}

\* What download_it holds: variables of their types, and no socket in the end.
Sockets == TypeOK /\ SocketsClosed

\* The server's word that the transfer succeeded, read whenever it may have
\* come, means that the file is whole: the loop ends at the end of the data.
\* Only a data connection that breaks after its last byte was sent, which the
\* loop does not tell from the end, may leave less.
SuccessMeansWhole ==
  /\ pc \in {"send", "recv", "done"}
  /\ at \in {"DATA", "QUIT"}
  /\ [to |-> "DATA", ok |-> TRUE] \in heard
  /\ data # "rst"
  => received = Size

\* download_it and the server wait for one another only when an answer that
\* download_it waits for was read with an earlier one, at the end of the
\* transfer, or will not come because RETR was refused.  Answers in parts,
\* which put it behind the server, never stop it.
MutualWait ==
  /\ conn = "up" /\ commands = <<>> /\ transfer # "running"
  /\ \/ pc = "recv" /\ replies = <<>>
     \/ pc = "fetch" /\ received = sent /\ data = "open"
  => \/ transfer = "refused"
     \/ at = "DATA" /\ \E h \in heard : h.to = "DATA"

\* download_it always returns or is ended, once the server gives up waiting.
Ends == <>(pc \in Ended)
=============================================================================
