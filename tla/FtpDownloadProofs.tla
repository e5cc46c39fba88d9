-------------------------- MODULE FtpDownloadProofs --------------------------
(***************************************************************************)
(* Proofs about FtpDownload: no path leaves a socket open, the server's    *)
(* word means a whole file, and when the client and the server may wait    *)
(* for one another, for any size, any parts of answers and any faults.     *)
(***************************************************************************)
EXTENDS FtpDownload, SequenceTheorems, TLAPS

\* The place of an answer, or of its command, in the script.
Rank(c) == CHOOSE i \in 1 .. 9 : Script[i] = c

\* The server has yet to take the command c.
Pending(c) ==
  \/ Rank(at) < Rank(c)
  \/ at = c /\ pc = "send"
  \/ \E i \in 1 .. Len(commands) : commands[i] = c

\* Where download_it is with which command, and the sockets it has there.
Place ==
  /\ pc \in {"socket", "connect"} => at = "WELCOME"
  /\ pc \in {"data_socket", "data_connect"} => at = "PASV"
  /\ pc \in {"fopen", "fetch"} => at = "RETR"
  /\ pc = "send" => at \notin {"WELCOME", "DATA"}
  /\ pc = "socket" => open = {}
  /\ pc \in {"connect", "data_socket"} => "data" \notin open
  /\ pc \in {"send", "recv"} /\ at \in Login \cup {"DATA", "QUIT"} => "data" \notin open
  /\ SocketsClosed

\* The server has the commands in the order of the script, each once, and none
\* that is still to be sent.
Queue ==
  /\ \A i, j \in 1 .. Len(commands) : i < j => Rank(commands[i]) < Rank(commands[j])
  /\ \A i \in 1 .. Len(commands) :
       /\ commands[i] # "DATA"
       /\ Rank(commands[i]) <= Rank(at)
       /\ pc = "send" => Rank(commands[i]) < Rank(at)

\* The data connection and the transfer, as PASV and RETR have come to them.
Service ==
  /\ Pending("PASV") => data = "none"
  /\ Pending("RETR") => transfer = "none"
  /\ conn = "up" /\ ~Pending("RETR") => transfer # "none"
  /\ transfer = "running" => data = "open"
  /\ conn = "up" /\ transfer \in {"done", "cut"} => data \in {"closed", "rst"}
  /\ transfer = "done" => sent = Size
  /\ at \in {"DATA", "QUIT"} => data = "rst" \/ (data = "closed" /\ received = sent)

\* What the parts r say, to a client that has heard h, about the end of the
\* transfer: SaysWhole that all of it was sent, SaysOver that it has ended.
SaysWhole(r, h) ==
  \/ [to |-> "DATA", ok |-> TRUE] \in h
  \/ \E i \in 1 .. Len(r) : r[i].to = "DATA" /\ r[i].ok
SaysOver(r, h) ==
  \/ \E x \in h : x.to = "DATA"
  \/ \E i \in 1 .. Len(r) : r[i].to = "DATA" /\ r[i].last

\* What has been said about the end of the transfer, and that there is
\* something to wait for.
Said ==
  /\ SaysWhole(replies, heard) => transfer = "done"
  /\ conn = "up" /\ transfer \in {"done", "cut"} => SaysOver(replies, heard)
  /\ conn = "up" /\ pc = "recv" /\ at # "DATA" => commands # <<>> \/ replies # <<>>

IInv == TypeOK /\ Place /\ Queue /\ Service /\ Said

-----------------------------------------------------------------------------
(* The script. *)

LEMMA ScriptTable ==
  /\ Script[1] = "WELCOME" /\ Script[2] = "USER" /\ Script[3] = "PASS"
  /\ Script[4] = "PASV" /\ Script[5] = "CWD" /\ Script[6] = "SIZE"
  /\ Script[7] = "RETR" /\ Script[8] = "DATA" /\ Script[9] = "QUIT"
  BY DEF Script

LEMMA AnswersTable ==
  Answers = {"WELCOME", "USER", "PASS", "PASV", "CWD", "SIZE", "RETR", "DATA",
             "QUIT"}
<1>1. \A i \in 1 .. 9 : i = 1 \/ i = 2 \/ i = 3 \/ i = 4 \/ i = 5 \/ i = 6
                        \/ i = 7 \/ i = 8 \/ i = 9
  OBVIOUS
<1> QED BY <1>1, ScriptTable DEF Answers

\* Script is one to one, so that it has one place for every answer.
LEMMA ScriptOnce ==
  ASSUME NEW i \in 1 .. 9, NEW j \in 1 .. 9, Script[i] = Script[j]
  PROVE  i = j
<1>1. \A k \in 1 .. 9 : k = 1 \/ k = 2 \/ k = 3 \/ k = 4 \/ k = 5 \/ k = 6
                        \/ k = 7 \/ k = 8 \/ k = 9
  OBVIOUS
<1> QED BY <1>1, ScriptTable

LEMMA RankOf ==
  ASSUME NEW i \in 1 .. 9
  PROVE  /\ Rank(Script[i]) = i
         /\ i # 9 => After(Script[i]) = Script[i + 1]
<1>1. Rank(Script[i]) = i
  BY ScriptOnce DEF Rank
<1>2. ASSUME i # 9 PROVE After(Script[i]) = Script[i + 1]
  <2>1. i \in 1 .. 8
    BY <1>2
  <2>2. (CHOOSE k \in 1 .. 8 : Script[k] = Script[i]) = i
    <3>1. \A k \in 1 .. 8 : Script[k] = Script[i] => k = i
      BY ScriptOnce
    <3> QED BY <2>1, <3>1
  <2>3. After(Script[i]) = Script[1 + i]
    BY <2>2 DEF After
  <2> QED BY <2>1, <2>3
<1> QED BY <1>1, <1>2

LEMMA RankTable ==
  /\ Rank("WELCOME") = 1 /\ Rank("USER") = 2 /\ Rank("PASS") = 3
  /\ Rank("PASV") = 4 /\ Rank("CWD") = 5 /\ Rank("SIZE") = 6
  /\ Rank("RETR") = 7 /\ Rank("DATA") = 8 /\ Rank("QUIT") = 9
  BY RankOf, ScriptTable

LEMMA AfterTable ==
  /\ After("WELCOME") = "USER" /\ After("USER") = "PASS"
  /\ After("PASS") = "PASV" /\ After("PASV") = "CWD"
  /\ After("CWD") = "SIZE" /\ After("SIZE") = "RETR"
  <1>1. 1 \in 1 .. 9 /\ 2 \in 1 .. 9 /\ 3 \in 1 .. 9 /\ 4 \in 1 .. 9
        /\ 5 \in 1 .. 9 /\ 6 \in 1 .. 9
    OBVIOUS
  <1>2. /\ After(Script[1]) = Script[2] /\ After(Script[2]) = Script[3]
        /\ After(Script[3]) = Script[4] /\ After(Script[4]) = Script[5]
        /\ After(Script[5]) = Script[6] /\ After(Script[6]) = Script[7]
    BY <1>1, RankOf
  <1> QED BY <1>2, ScriptTable

LEMMA RankOnce ==
  /\ \A c \in Answers : Rank(c) \in 1 .. 9
  /\ \A c, d \in Answers : Rank(c) = Rank(d) => c = d
  BY AnswersTable, RankTable

-----------------------------------------------------------------------------
(* The answers. *)

Parts == [to : Answers, ok : BOOLEAN, part : 1 .. MaxParts, last : BOOLEAN]

LEMMA AnswerParts ==
  ASSUME NEW c \in Answers, NEW ok \in BOOLEAN, NEW k \in 1 .. MaxParts
  PROVE  /\ Answer(c, ok, k) \in Seq(Parts)
         /\ Len(Answer(c, ok, k)) = k
         /\ \A i \in 1 .. k : /\ Answer(c, ok, k)[i].to = c
                              /\ Answer(c, ok, k)[i].ok = ok
                              /\ Answer(c, ok, k)[i].last <=> i = k
<1>1. k \in Nat /\ 1 .. k \subseteq 1 .. MaxParts
  BY FtpAssumption
<1>2. Answer(c, ok, k) \in [1 .. k -> Parts]
  BY <1>1 DEF Answer, Parts
<1>3. Answer(c, ok, k) \in Seq(Parts) /\ Len(Answer(c, ok, k)) = k
  BY <1>1, <1>2, SeqDef, LenProperties
<1>4. ASSUME NEW i \in 1 .. k
      PROVE  /\ Answer(c, ok, k)[i].to = c
             /\ Answer(c, ok, k)[i].ok = ok
             /\ Answer(c, ok, k)[i].last <=> i = k
  <2>1. Answer(c, ok, k)[i] = [to |-> c, ok |-> ok, part |-> i, last |-> i = k]
    BY DEF Answer
  <2>2. CASE i = k
    <3>1. (i = k) = TRUE
      BY <2>2
    <3>2. Answer(c, ok, k)[i] = [to |-> c, ok |-> ok, part |-> i, last |-> TRUE]
      BY <2>1, <3>1, Zenon
    <3> QED BY <2>2, <3>2
  <2>3. CASE i # k
    <3>1. (i = k) = FALSE
      BY <2>3
    <3>2. Answer(c, ok, k)[i] = [to |-> c, ok |-> ok, part |-> i, last |-> FALSE]
      BY <2>1, <3>1, Zenon
    <3> QED BY <2>3, <3>2
  <2> QED BY <2>2, <2>3
<1> QED BY <1>3, <1>4

LEMMA Reading ==
  ASSUME TypeOK, NEW n \in 0 .. Len(replies), Reads(n)
  PROVE  /\ replies' \in Seq(Parts)
         /\ heard' \subseteq [to : Answers, ok : BOOLEAN]
         /\ SaysWhole(replies', heard') => SaysWhole(replies, heard)
         /\ SaysOver(replies, heard) => SaysOver(replies', heard')
<1>0. replies \in Seq(Parts) /\ heard \subseteq [to : Answers, ok : BOOLEAN]
  BY DEF TypeOK, Parts
<1> DEFINE m == Len(replies)
           said(i) == [to |-> replies[i].to, ok |-> replies[i].ok]
<1>1. /\ replies' = SubSeq(replies, n + 1, m)
      /\ heard' = heard \cup {said(i) : i \in {j \in 1 .. n : replies[j].last}}
  BY DEF Reads
<1>2. m \in Nat /\ n \in Nat /\ n <= m
  BY <1>0, LenProperties
<1>3. \A i \in 1 .. m : replies[i] \in Parts
  BY <1>0, LenProperties
<1>4. /\ replies' \in Seq(Parts) /\ Len(replies') = m - n
      /\ \A i \in 1 .. m - n : replies'[i] = replies[n + i]
  <2>1. CASE n + 1 <= m
    <3>1. n + 1 \in 1 .. m + 1 /\ m \in n .. m
      BY <1>2, <2>1
    <3> QED BY <1>0, <1>1, <1>2, <3>1, SubSeqProperties
  <2>2. CASE n + 1 > m
    <3>1. n + 1 \in 1 .. m + 1 /\ m \in n .. m
      BY <1>2, <2>2
    <3> QED BY <1>0, <1>1, <1>2, <3>1, SubSeqProperties
  <2> QED BY <1>2, <2>1, <2>2
<1>5. heard' \subseteq [to : Answers, ok : BOOLEAN]
  <2>1. \A i \in 1 .. n : said(i) \in [to : Answers, ok : BOOLEAN]
    BY <1>2, <1>3 DEF Parts
  <2> QED BY <1>0, <1>1, <2>1
<1>6. ASSUME SaysWhole(replies', heard') PROVE SaysWhole(replies, heard)
  <2>1. CASE [to |-> "DATA", ok |-> TRUE] \in heard'
    <3>1. CASE [to |-> "DATA", ok |-> TRUE] \in heard
      BY <3>1 DEF SaysWhole
    <3>2. CASE [to |-> "DATA", ok |-> TRUE] \notin heard
      <4>1. PICK i \in 1 .. n : said(i) = [to |-> "DATA", ok |-> TRUE]
        BY <1>1, <2>1, <3>2
      <4>2. replies[i].to = "DATA" /\ replies[i].ok /\ i \in 1 .. m
        BY <1>2, <4>1
      <4> QED BY <4>2 DEF SaysWhole
    <3> QED BY <3>1, <3>2
  <2>2. ASSUME NEW i \in 1 .. Len(replies'), replies'[i].to = "DATA", replies'[i].ok
        PROVE  SaysWhole(replies, heard)
    <3>1. n + i \in 1 .. m /\ replies[n + i].to = "DATA" /\ replies[n + i].ok
      BY <1>2, <1>4, <2>2
    <3> QED BY <3>1 DEF SaysWhole
  <2> QED BY <1>6, <2>1, <2>2 DEF SaysWhole
<1>7. ASSUME SaysOver(replies, heard) PROVE SaysOver(replies', heard')
  <2>1. ASSUME NEW x \in heard, x.to = "DATA" PROVE SaysOver(replies', heard')
    BY <1>1, <2>1 DEF SaysOver
  <2>2. ASSUME NEW i \in 1 .. m, replies[i].to = "DATA", replies[i].last
        PROVE  SaysOver(replies', heard')
    <3>1. CASE i <= n
      <4>1. said(i) \in heard' /\ said(i).to = "DATA"
        BY <1>1, <1>2, <2>2, <3>1
      <4> QED BY <4>1 DEF SaysOver
    <3>2. CASE i > n
      <4>1. i - n \in 1 .. m - n /\ replies'[i - n] = replies[i]
        BY <1>2, <1>4, <3>2
      <4> QED BY <1>4, <2>2, <4>1 DEF SaysOver
    <3> QED BY <1>2, <3>1, <3>2
  <2> QED BY <1>7, <2>1, <2>2 DEF SaysOver
<1> QED BY <1>4, <1>5, <1>6, <1>7

LEMMA Adding ==
  ASSUME TypeOK, NEW c \in Answers, NEW ok \in BOOLEAN, NEW k \in 1 .. MaxParts,
         replies' = replies \o Answer(c, ok, k)
  PROVE  /\ replies' \in Seq(Parts)
         /\ replies' # <<>>
         /\ SaysWhole(replies', heard) => SaysWhole(replies, heard) \/ (c = "DATA" /\ ok)
         /\ SaysOver(replies, heard) => SaysOver(replies', heard)
         /\ c = "DATA" => SaysOver(replies', heard)
<1> DEFINE m == Len(replies)
           a == Answer(c, ok, k)
<1>0. replies \in Seq(Parts) /\ m \in Nat
  BY LenProperties DEF TypeOK, Parts
<1>1. /\ a \in Seq(Parts) /\ Len(a) = k /\ k \in Nat /\ k >= 1
      /\ \A i \in 1 .. k : a[i].to = c /\ a[i].ok = ok /\ (a[i].last <=> i = k)
  BY AnswerParts, FtpAssumption
<1> HIDE DEF a
<1>2. /\ replies' \in Seq(Parts) /\ Len(replies') = m + k
      /\ \A i \in 1 .. m : replies'[i] = replies[i]
      /\ \A i \in 1 .. k : replies'[m + i] = a[i]
  <2>1. replies' = replies \o a
    BY DEF a
  <2>2. /\ replies' \in Seq(Parts) /\ Len(replies') = m + k
        /\ \A i \in 1 .. m + k : replies'[i] = IF i <= m THEN replies[i] ELSE a[i - m]
    <3>1. /\ replies \o a \in Seq(Parts) /\ Len(replies \o a) = m + Len(a)
          /\ \A i \in 1 .. m + Len(a) :
               (replies \o a)[i] = IF i <= m THEN replies[i] ELSE a[i - m]
      <4>1. replies \in Seq(Parts) /\ a \in Seq(Parts)
        BY <1>0, <1>1
      <4> QED BY ONLY <4>1, ConcatProperties
    <3> QED BY <1>1, <2>1, <3>1
  <2> QED BY <1>0, <1>1, <2>2
<1>3. replies' # <<>>
  BY <1>0, <1>1, <1>2
<1>4. ASSUME SaysWhole(replies', heard)
      PROVE  SaysWhole(replies, heard) \/ (c = "DATA" /\ ok)
  <2>1. ASSUME NEW i \in 1 .. Len(replies'), replies'[i].to = "DATA", replies'[i].ok
        PROVE  SaysWhole(replies, heard) \/ (c = "DATA" /\ ok)
    <3>1. CASE i <= m
      <4>1. i \in 1 .. m /\ replies[i].to = "DATA" /\ replies[i].ok
        BY <1>0, <1>2, <2>1, <3>1
      <4> QED BY <4>1 DEF SaysWhole
    <3>2. CASE i > m
      <4>1. i - m \in 1 .. k /\ replies'[i] = a[i - m]
        BY <1>0, <1>1, <1>2, <3>2
      <4> QED BY <1>1, <2>1, <4>1
    <3> QED BY <1>0, <3>1, <3>2
  <2> QED BY <1>4, <2>1 DEF SaysWhole
<1>5. ASSUME SaysOver(replies, heard) PROVE SaysOver(replies', heard)
  <2>1. ASSUME NEW i \in 1 .. m, replies[i].to = "DATA", replies[i].last
        PROVE  SaysOver(replies', heard)
    <3>1. i \in 1 .. Len(replies') /\ replies'[i] = replies[i]
      BY <1>0, <1>1, <1>2
    <3> QED BY <2>1, <3>1 DEF SaysOver
  <2> QED BY <1>5, <2>1 DEF SaysOver
<1>6. ASSUME c = "DATA" PROVE SaysOver(replies', heard)
  <2>1. m + k \in 1 .. Len(replies') /\ replies'[m + k] = a[k]
    BY <1>0, <1>1, <1>2
  <2>2. a[k].to = "DATA" /\ a[k].last
    BY <1>1, <1>6
  <2> QED BY <2>1, <2>2 DEF SaysOver
<1> QED BY <1>2, <1>3, <1>4, <1>5, <1>6

-----------------------------------------------------------------------------
(* What a step does to the parts of the state. *)

ServerSteps ==
  \/ server_answers \/ server_sends \/ server_ends_transfer \/ server_closes
  \/ connections_break \/ data_breaks

LEMMA ServerLeavesClient == ServerSteps => UNCHANGED client
  BY DEF ServerSteps, server_answers, server_sends, server_ends_transfer,
         server_closes, connections_break, data_breaks

\* send: the command is in the server's queue, or lost.
LEMMA Sending ==
  ASSUME NEW closed, Sends(closed)
  PROVE  /\ pc = "send"
         /\ \/ pc' \in {"recv", "killed"} /\ open' = open
            \/ pc' = "failed" /\ open' = open \ closed
         /\ \/ conn = "up" /\ conn' = "up" /\ pc' = "recv" /\ commands' = Append(commands, at)
            \/ conn # "up" /\ conn' # "up" /\ UNCHANGED commands
         /\ conn' \in {conn, "fin", "dead"}
         /\ UNCHANGED <<at, port, received, heard, replies, service>>
  BY DEF Sends, Fails, server

\* recv: some parts are read, and the server is left alone.
LEMMA Receiving ==
  ASSUME TypeOK, NEW n \in 0 .. Len(replies), Reads(n)
  PROVE  /\ pc = "recv"
         /\ replies' \in Seq(Parts)
         /\ heard' \subseteq [to : Answers, ok : BOOLEAN]
         /\ SaysWhole(replies', heard') => SaysWhole(replies, heard)
         /\ SaysOver(replies, heard) => SaysOver(replies', heard')
         /\ UNCHANGED <<received, conn, commands, service>>
  BY Reading DEF Reads

\* An error path that leaves the server alone.
LEMMA Failing ==
  ASSUME NEW closed, CannotRead(closed) \/ Fails(closed)
  PROVE  /\ pc' = "failed" /\ open' = open \ closed
         /\ UNCHANGED <<at, port, received, heard, server>>
  BY DEF CannotRead, Fails

LEMMA InitIInv == Init => IInv
<1> SUFFICES ASSUME Init PROVE IInv
  OBVIOUS
<1>1. TypeOK
  <2>1. port \in BOOLEAN
    BY DEF Init
  <2>2. commands \in Seq(Answers)
    BY DEF Init
  <2>3. replies \in Seq([to : Answers, ok : BOOLEAN, part : 1 .. MaxParts, last : BOOLEAN])
    BY DEF Init
  <2>4. /\ pc = "socket" /\ at \in Answers /\ open = {} /\ received \in 0 .. Size
        /\ heard = {} /\ conn = "none" /\ data = "none" /\ transfer = "none"
        /\ sent \in 0 .. Size
    BY FtpAssumption, AnswersTable DEF Init
  <2> QED BY <2>1, <2>2, <2>3, <2>4 DEF TypeOK
<1>2. Place
  BY DEF Init, Place, SocketsClosed
<1>3. commands = <<>> /\ Len(commands) = 0 /\ Len(replies) = 0
  BY DEF Init
<1>4. Queue
  BY <1>3 DEF Queue
<1>5. Service
  BY <1>3, RankTable DEF Init, Service, Pending
<1>6. Said
  BY <1>3 DEF Init, Said, SaysWhole, SaysOver
<1> QED BY <1>1, <1>2, <1>4, <1>5, <1>6 DEF IInv

-----------------------------------------------------------------------------
(* Where download_it is. *)

\* The part of the type invariant that only the client changes.
ClientTypes ==
  /\ pc \in {"socket", "connect", "send", "recv", "data_socket",
             "data_connect", "fopen", "fetch"} \cup Ended
  /\ at \in Answers
  /\ open \subseteq {"ctrl", "data"}
  /\ port \in BOOLEAN

LEMMA StepPlace ==
  ASSUME TypeOK, Place, [Next]_vars
  PROVE  ClientTypes' /\ Place'
<1> USE DEF Ended, ClientTypes, Place, SocketsClosed
<1>0. /\ ClientTypes /\ Place
      /\ Login = {"WELCOME", "USER", "PASS", "PASV"}
      /\ Transfer = {"CWD", "SIZE", "RETR"}
  BY DEF TypeOK, Login, Transfer
<1>1. CASE open_ctrl
  BY <1>0, <1>1 DEF open_ctrl, Fails
<1>2. CASE connect_ctrl
  BY <1>0, <1>2 DEF connect_ctrl, Fails
<1>3. CASE login_send
  BY <1>0, <1>3, Sending DEF login_send
<1>4. CASE login_recv
  <2>1. CASE CannotRead({"ctrl"})
    <3>1. pc = "recv" /\ at \in Login
      BY <1>4, <2>1 DEF login_recv, CannotRead
    <3> QED BY <1>0, <2>1, <3>1, Failing
  <2>2. CASE ~CannotRead({"ctrl"})
    <3>1. /\ at \in {"WELCOME", "USER", "PASS"} /\ pc' = "send" /\ at' = After(at)
          /\ UNCHANGED <<open, port>> /\ pc = "recv"
      BY <1>0, <1>4, <2>2 DEF login_recv, Reads
    <3>2. at' \in {"USER", "PASS", "PASV"}
      BY <3>1, AfterTable
    <3> QED BY <1>0, <3>1, <3>2, AnswersTable
  <2> QED BY <2>1, <2>2
<1>5. CASE pasv_recv
  <2>1. CASE CannotRead({"ctrl"})
    <3>1. pc = "recv" /\ at \in Login
      BY <1>0, <1>5, <2>1 DEF pasv_recv, CannotRead
    <3> QED BY <1>0, <2>1, <3>1, Failing
  <2>2. CASE ~CannotRead({"ctrl"})
    <3>1. port' \in BOOLEAN
      BY <1>5, <2>2 DEF pasv_recv, Passive
    <3>2. /\ at = "PASV" /\ pc = "recv" /\ pc' \in {"data_socket", "crashed"}
          /\ UNCHANGED <<at, open>>
      BY <1>5, <2>2 DEF pasv_recv, Reads
    <3> QED BY <1>0, <3>1, <3>2
  <2> QED BY <2>1, <2>2
<1>6. CASE open_data
  BY <1>0, <1>6 DEF open_data, Fails
<1>7. CASE connect_data
  BY <1>0, <1>7, AfterTable, AnswersTable DEF connect_data, Fails
<1>8. CASE transfer_send
  BY <1>0, <1>8, Sending DEF transfer_send
<1>9. CASE transfer_recv
  <2>1. CASE CannotRead({"ctrl", "data"})
    BY <1>0, <2>1, Failing
  <2>2. CASE ~CannotRead({"ctrl", "data"})
    <3>1. /\ at \in Transfer /\ pc = "recv" /\ UNCHANGED <<open, port>>
          /\ IF at = "RETR" THEN pc' = "fopen" /\ at' = at
                            ELSE pc' = "send" /\ at' = After(at)
      BY <1>9, <2>2 DEF transfer_recv, Reads
    <3>2. at # "RETR" => at' \in {"SIZE", "RETR"}
      BY <1>0, <3>1, AfterTable
    <3> QED BY <1>0, <3>1, <3>2, AnswersTable
  <2> QED BY <2>1, <2>2
<1>10. CASE open_file
  BY <1>0, <1>10 DEF open_file
<1>11. CASE fetch
  BY <1>0, <1>11 DEF fetch
<1>12. CASE fetch_ends
  BY <1>0, <1>12, AnswersTable DEF fetch_ends, FetchEnds
<1>13. CASE data_recv
  <2>1. CASE CannotRead({"ctrl"})
    <3>1. pc = "recv" /\ at = "DATA"
      BY <1>13, <2>1 DEF data_recv, CannotRead
    <3> QED BY <1>0, <2>1, <3>1, Failing
  <2>2. CASE ~CannotRead({"ctrl"})
    <3>1. /\ at = "DATA" /\ pc = "recv" /\ pc' = "send" /\ at' = "QUIT"
          /\ UNCHANGED <<open, port>>
      BY <1>13, <2>2 DEF data_recv, Reads
    <3> QED BY <1>0, <3>1, AnswersTable
  <2> QED BY <2>1, <2>2
<1>14. CASE quit_send
  BY <1>0, <1>14, Sending DEF quit_send
<1>15. CASE quit_recv
  <2>1. CASE CannotRead({"ctrl"})
    <3>1. pc = "recv" /\ at = "QUIT"
      BY <1>15, <2>1 DEF quit_recv, CannotRead
    <3> QED BY <1>0, <2>1, <3>1, Failing
  <2>2. CASE ~CannotRead({"ctrl"})
    <3>1. /\ at = "QUIT" /\ pc = "recv" /\ pc' = "done"
          /\ open' = open \ {"ctrl"} /\ UNCHANGED <<at, port>>
      BY <1>15, <2>2 DEF quit_recv, Reads
    <3> QED BY <1>0, <3>1
  <2> QED BY <2>1, <2>2
<1>16. CASE ServerSteps \/ UNCHANGED vars
  BY <1>0, <1>16, ServerLeavesClient DEF client, vars
<1> QED
  BY <1>1, <1>2, <1>3, <1>4, <1>5, <1>6, <1>7, <1>8, <1>9, <1>10, <1>11, <1>12,
     <1>13, <1>14, <1>15, <1>16
     DEF Next, ClientNext, ServerNext, ServerSteps

-----------------------------------------------------------------------------
(* What the client does to the rest: it is connected, it sends a command,  *)
(* or it goes on.                                                          *)

Begins ==
  /\ pc = "connect" /\ pc' = "recv"
  /\ conn' = "up"
  /\ commands' = <<at>>
  /\ UNCHANGED <<at, received, heard, replies, service>>

Issues ==
  /\ pc = "send" /\ pc' = "recv"
  /\ conn = "up"
  /\ commands' = Append(commands, at)
  /\ UNCHANGED <<at, received, heard, conn, replies, service>>

\* To the next command or not, and never back.
Advances ==
  \/ at' = at /\ pc' # "send"
  \/ pc # "send" /\ pc' = "send" /\ Rank(at') = Rank(at) + 1 /\ at' # "DATA"
  \/ pc = "fetch" /\ pc' = "recv" /\ at' = "DATA" /\ Rank(at') = Rank(at) + 1

Goes ==
  /\ Advances
  /\ pc = "send" \/ (pc' = "recv" /\ at' # "DATA") => conn' # "up"
  /\ conn' \in {conn, "fin", "dead"}
  /\ UNCHANGED <<commands, transfer, sent>>
  /\ data' = data \/ (data = "listen" /\ data' = "open" /\ at' = "CWD")
  /\ received' = received \/ (received < sent /\ received' = received + 1 /\ at' = "RETR")
  /\ at' \in {"DATA", "QUIT"} => at \in {"DATA", "QUIT"} \/ DataOver
  /\ replies' \in Seq(Parts)
  /\ heard' \subseteq [to : Answers, ok : BOOLEAN]
  /\ SaysWhole(replies', heard') => SaysWhole(replies, heard)
  /\ SaysOver(replies, heard) => SaysOver(replies', heard')

\* A step of the client that is an error path goes on.
LEMMA FailingGoes ==
  ASSUME TypeOK, NEW closed, CannotRead(closed) \/ Fails(closed),
         pc = "send" => conn # "up"
  PROVE  Goes
<1>1. /\ pc' = "failed"
      /\ UNCHANGED <<at, received, heard, conn, commands, replies, data, transfer, sent>>
  BY Failing DEF server, service
<1>2. replies \in Seq(Parts) /\ heard \subseteq [to : Answers, ok : BOOLEAN]
  BY DEF TypeOK, Parts
<1> QED BY <1>1, <1>2 DEF Goes, Advances, SaysWhole, SaysOver

\* So does one that reads and then comes to the next command, or stays.
LEMMA ReceivingGoes ==
  ASSUME TypeOK, NEW n \in 0 .. Len(replies), Reads(n),
         \/ at' = at /\ pc' \notin {"send", "recv"}
         \/ pc' = "send" /\ Rank(at') = Rank(at) + 1 /\ at' # "DATA",
         at' = "QUIT" => at \in {"DATA", "QUIT"}
  PROVE  Goes
<1>1. /\ pc = "recv"
      /\ UNCHANGED <<received, conn, commands, data, transfer, sent>>
  BY Receiving DEF service
<1>2. at' = "DATA" => at = "DATA"
  OBVIOUS
<1> QED BY <1>1, <1>2, Receiving DEF Goes, Advances

LEMMA SendingGoes ==
  ASSUME TypeOK, Place, NEW closed, Sends(closed)
  PROVE  Issues \/ Goes
<1>1. replies \in Seq(Parts) /\ heard \subseteq [to : Answers, ok : BOOLEAN]
  BY DEF TypeOK, Parts
<1>2. /\ pc = "send" /\ at # "DATA"
      /\ pc' \in {"recv", "killed", "failed"}
      /\ UNCHANGED <<at, received, heard, replies, data, transfer, sent>>
  BY Sending DEF service, Place
<1>3. CASE conn = "up"
  BY <1>3, Sending DEF Issues
<1>4. CASE conn # "up"
  <2>1. conn' # "up" /\ conn' \in {conn, "fin", "dead"} /\ UNCHANGED commands
    BY <1>4, Sending
  <2> QED BY <1>1, <1>2, <2>1 DEF Goes, Advances, SaysWhole, SaysOver
<1> QED BY <1>3, <1>4

LEMMA ClientEffect ==
  ASSUME TypeOK, Place, ClientNext
  PROVE  Begins \/ Issues \/ Goes
<1>0. /\ replies \in Seq(Parts) /\ heard \subseteq [to : Answers, ok : BOOLEAN]
      /\ Login = {"WELCOME", "USER", "PASS", "PASV"}
      /\ Transfer = {"CWD", "SIZE", "RETR"}
  BY DEF TypeOK, Parts, Login, Transfer
<1>1. CASE open_ctrl
  <2>1. CASE Fails({})
    BY <1>1, <2>1, FailingGoes DEF open_ctrl
  <2>2. CASE ~Fails({})
    BY <1>0, <1>1, <2>2
       DEF open_ctrl, server, service, Goes, Advances, SaysWhole, SaysOver, Place
  <2> QED BY <2>1, <2>2
<1>2. CASE connect_ctrl
  <2>1. CASE Fails({"ctrl"})
    BY <1>2, <2>1, FailingGoes DEF connect_ctrl
  <2>2. CASE ~Fails({"ctrl"})
    BY <1>2, <2>2 DEF connect_ctrl, Begins
  <2> QED BY <2>1, <2>2
<1>3. CASE login_send \/ transfer_send \/ quit_send
  BY <1>3, SendingGoes DEF login_send, transfer_send, quit_send
<1>4. CASE login_recv
  <2>1. CASE CannotRead({"ctrl"})
    BY <1>4, <2>1, FailingGoes DEF CannotRead
  <2>2. CASE ~CannotRead({"ctrl"})
    <3>1. PICK n \in 0 .. Len(replies) : Reads(n)
      BY <1>4, <2>2 DEF login_recv
    <3>2. at \in {"WELCOME", "USER", "PASS"} /\ pc' = "send" /\ at' = After(at)
      BY <1>0, <1>4, <2>2 DEF login_recv
    <3>3. at' \in {"USER", "PASS", "PASV"} /\ Rank(at') = Rank(at) + 1
      BY <3>2, AfterTable, RankTable
    <3> QED BY <3>1, <3>2, <3>3, ReceivingGoes
  <2> QED BY <2>1, <2>2
<1>5. CASE pasv_recv
  <2>1. CASE CannotRead({"ctrl"})
    BY <1>5, <2>1, FailingGoes DEF CannotRead
  <2>2. CASE ~CannotRead({"ctrl"})
    <3>1. PICK n \in 0 .. Len(replies) : Reads(n)
      BY <1>5, <2>2 DEF pasv_recv
    <3>2. at = "PASV" /\ pc' \in {"data_socket", "crashed"} /\ at' = at
      BY <1>5, <2>2 DEF pasv_recv
    <3> QED BY <3>1, <3>2, ReceivingGoes
  <2> QED BY <2>1, <2>2
<1>6. CASE open_data
  <2>1. CASE Fails({"ctrl"})
    BY <1>6, <2>1, FailingGoes DEF open_data
  <2>2. CASE ~Fails({"ctrl"})
    BY <1>0, <1>6, <2>2
       DEF open_data, server, service, Goes, Advances, SaysWhole, SaysOver, Place
  <2> QED BY <2>1, <2>2
<1>7. CASE connect_data
  <2>1. CASE Fails({"ctrl", "data"})
    BY <1>7, <2>1, FailingGoes DEF connect_data
  <2>2. CASE ~Fails({"ctrl", "data"})
    <3>1. /\ pc = "data_connect" /\ at = "PASV" /\ pc' = "send" /\ at' = After(at)
          /\ data = "listen" /\ data' = "open"
          /\ UNCHANGED <<received, heard, conn, commands, replies, transfer, sent>>
      BY <1>7, <2>2 DEF connect_data, Place
    <3>2. at' = "CWD" /\ Rank(at') = Rank(at) + 1
      BY <3>1, AfterTable, RankTable
    <3> QED BY <1>0, <3>1, <3>2 DEF Goes, Advances, SaysWhole, SaysOver
  <2> QED BY <2>1, <2>2
<1>9. CASE transfer_recv
  <2>1. CASE CannotRead({"ctrl", "data"})
    BY <1>9, <2>1, FailingGoes DEF CannotRead
  <2>2. CASE ~CannotRead({"ctrl", "data"})
    <3>1. PICK n \in 0 .. Len(replies) : Reads(n)
      BY <1>9, <2>2 DEF transfer_recv
    <3>2. /\ at \in {"CWD", "SIZE", "RETR"}
          /\ IF at = "RETR" THEN pc' = "fopen" /\ at' = at
                            ELSE pc' = "send" /\ at' = After(at)
      BY <1>0, <1>9, <2>2 DEF transfer_recv
    <3>3. at # "RETR" => at' \in {"SIZE", "RETR"} /\ Rank(at') = Rank(at) + 1
      BY <3>2, AfterTable, RankTable
    <3> QED BY <3>1, <3>2, <3>3, ReceivingGoes
  <2> QED BY <2>1, <2>2
<1>10. CASE open_file
  BY <1>0, <1>10
     DEF open_file, server, service, Goes, Advances, SaysWhole, SaysOver, Place
<1>11. CASE fetch
  BY <1>0, <1>11
     DEF fetch, server, service, Goes, Advances, SaysWhole, SaysOver, Place
<1>12. CASE fetch_ends
  <2>1. received' = received
    BY <1>12 DEF fetch_ends, FetchEnds, TypeOK
  <2>2. at = "RETR" /\ Rank("DATA") = Rank("RETR") + 1
    BY <1>12, RankTable DEF fetch_ends, FetchEnds, Place
  <2> QED BY <1>0, <1>12, <2>1, <2>2
     DEF fetch_ends, FetchEnds, server, service, Goes, Advances, SaysWhole, SaysOver
<1>13. CASE data_recv
  <2>1. CASE CannotRead({"ctrl"})
    BY <1>13, <2>1, FailingGoes DEF CannotRead
  <2>2. CASE ~CannotRead({"ctrl"})
    <3>1. PICK n \in 0 .. Len(replies) : Reads(n)
      BY <1>13, <2>2 DEF data_recv
    <3>2. at = "DATA" /\ pc' = "send" /\ at' = "QUIT" /\ Rank(at') = Rank(at) + 1
      BY <1>13, <2>2, RankTable DEF data_recv
    <3> QED BY <3>1, <3>2, ReceivingGoes
  <2> QED BY <2>1, <2>2
<1>14. CASE quit_recv
  <2>1. CASE CannotRead({"ctrl"})
    BY <1>14, <2>1, FailingGoes DEF CannotRead
  <2>2. CASE ~CannotRead({"ctrl"})
    <3>1. PICK n \in 0 .. Len(replies) : Reads(n)
      BY <1>14, <2>2 DEF quit_recv
    <3>2. at = "QUIT" /\ pc' = "done" /\ at' = at
      BY <1>14, <2>2 DEF quit_recv
    <3> QED BY <3>1, <3>2, ReceivingGoes
  <2> QED BY <2>1, <2>2
<1> QED
  BY <1>1, <1>2, <1>3, <1>4, <1>5, <1>6, <1>7, <1>9, <1>10, <1>11, <1>12,
     <1>13, <1>14
     DEF ClientNext

-----------------------------------------------------------------------------
(* The type invariant. *)

LEMMA ServerTypes ==
  ASSUME TypeOK, Queue, ServerSteps
  PROVE  /\ conn' \in {"none", "up", "fin", "dead", "rst"}
         /\ commands' \in Seq(Answers)
         /\ replies' \in Seq(Parts)
         /\ data' \in {"none", "listen", "open", "closed", "rst"}
         /\ transfer' \in {"none", "running", "done", "cut", "refused"}
         /\ sent' \in 0 .. Size
<1>0. /\ commands \in Seq(Answers) /\ replies \in Seq(Parts)
      /\ conn \in {"none", "up", "fin", "dead", "rst"}
      /\ data \in {"none", "listen", "open", "closed", "rst"}
      /\ transfer \in {"none", "running", "done", "cut", "refused"}
      /\ sent \in 0 .. Size
  BY DEF TypeOK, Parts
<1>1. CASE server_answers
  <2>1. PICK ok \in BOOLEAN, k \in 1 .. MaxParts :
          /\ Serves(Head(commands), ok)
          /\ replies' = replies \o Answer(Head(commands), ok, k)
    BY <1>1 DEF server_answers
  <2>2. commands # <<>> /\ commands' = Tail(commands)
        /\ conn' = IF Head(commands) = "QUIT" THEN "fin" ELSE "up"
    BY <1>1 DEF server_answers
  <2>3. Head(commands) \in Answers /\ commands' \in Seq(Answers)
    BY <1>0, <2>2, HeadTailProperties
  <2>4. replies' \in Seq(Parts)
    BY <2>1, <2>3, Adding
  <2>5. /\ data' \in {"none", "listen", "open", "closed", "rst"}
        /\ transfer' \in {"none", "running", "done", "cut", "refused"}
        /\ sent' \in 0 .. Size
    BY <1>0, <2>1 DEF Serves, service
  <2> QED BY <2>2, <2>3, <2>4, <2>5
<1>2. CASE server_sends
  BY <1>0, <1>2, FtpAssumption DEF server_sends
<1>3. CASE server_ends_transfer
  <2>1. PICK k \in 1 .. MaxParts : replies' = replies \o Answer("DATA", sent = Size, k)
    BY <1>3 DEF server_ends_transfer
  <2>2. (sent = Size) \in BOOLEAN /\ "DATA" \in Answers
    BY AnswersTable
  <2>3. replies' \in Seq(Parts)
    BY <2>1, <2>2, Adding
  <2> QED BY <1>0, <1>3, <2>3 DEF server_ends_transfer
<1>4. CASE server_closes
  BY <1>0, <1>4 DEF server_closes
<1>5. CASE connections_break
  BY <1>0, <1>5 DEF connections_break
<1>6. CASE data_breaks
  <2>1. replies' \in Seq(Parts)
    <3>1. CASE transfer = "running"
      <4>1. "DATA" \in Answers /\ FALSE \in BOOLEAN /\ 1 \in 1 .. MaxParts
        BY AnswersTable, FtpAssumption
      <4>2. replies' = replies \o Answer("DATA", FALSE, 1)
        BY <1>6, <3>1 DEF data_breaks
      <4> QED BY <4>1, <4>2, Adding
    <3>2. CASE transfer # "running"
      BY <1>0, <1>6, <3>2 DEF data_breaks
    <3> QED BY <3>1, <3>2
  <2> QED BY <1>0, <1>6, <2>1 DEF data_breaks
<1> QED BY <1>1, <1>2, <1>3, <1>4, <1>5, <1>6 DEF ServerSteps

LEMMA StepTypes ==
  ASSUME IInv, [Next]_vars
  PROVE  TypeOK' /\ Place'
<1>0. TypeOK /\ Place /\ Queue
  BY DEF IInv
<1>1. ClientTypes' /\ Place'
  BY <1>0, StepPlace
<1>2. CASE ClientNext
  <2>1. CASE Begins
    <3>1. commands' \in Seq(Answers)
      <4>1. at \in Answers /\ commands' = <<at>>
        BY <1>0, <2>1 DEF TypeOK, Begins
      <4> QED BY <4>1
    <3> QED BY <1>0, <1>1, <2>1, <3>1 DEF TypeOK, ClientTypes, Begins, service
  <2>2. CASE Issues
    <3>1. commands' \in Seq(Answers)
      BY <1>0, <2>2, AppendProperties DEF TypeOK, Issues
    <3> QED BY <1>0, <1>1, <2>2, <3>1 DEF TypeOK, ClientTypes, Issues, service
  <2>3. CASE Goes
    <3>1. received' \in 0 .. Size
      BY <1>0, <2>3, FtpAssumption DEF TypeOK, Goes
    <3> QED BY <1>0, <1>1, <2>3, <3>1 DEF TypeOK, ClientTypes, Goes, Parts
  <2> QED BY <1>0, <1>2, <2>1, <2>2, <2>3, ClientEffect
<1>3. CASE ServerSteps
  <2>1. UNCHANGED <<received, heard>>
    BY <1>3, ServerLeavesClient DEF client
  <2> QED BY <1>0, <1>1, <1>3, <2>1, ServerTypes DEF TypeOK, ClientTypes, Parts
<1>4. CASE UNCHANGED vars
  BY <1>0, <1>1, <1>4 DEF vars, client, server, service, TypeOK, ClientTypes
<1> QED BY <1>1, <1>2, <1>3, <1>4 DEF Next, ServerNext, ServerSteps

-----------------------------------------------------------------------------
(* The queue of the server. *)

\* A command that the server takes is the first one and leaves the queue.
LEMMA Taking ==
  ASSUME TypeOK, commands # <<>>
  PROVE  /\ Len(commands) \in Nat \ {0}
         /\ Head(commands) = commands[1]
         /\ \A i \in 1 .. Len(commands) : commands[i] \in Answers
         /\ Len(Tail(commands)) = Len(commands) - 1
         /\ \A i \in 1 .. Len(commands) - 1 : Tail(commands)[i] = commands[i + 1]
<1>1. commands \in Seq(Answers)
  BY DEF TypeOK
<1> QED BY <1>1, HeadTailProperties, LenProperties

LEMMA StepQueue ==
  ASSUME IInv, [Next]_vars
  PROVE  Queue'
<1>0. TypeOK /\ Place /\ Queue
  BY DEF IInv
<1>1. /\ at \in Answers /\ commands \in Seq(Answers) /\ Len(commands) \in Nat
      /\ Rank(at) \in 1 .. 9
      /\ \A i \in 1 .. Len(commands) : commands[i] \in Answers /\ Rank(commands[i]) \in 1 .. 9
  BY <1>0, RankOnce, LenProperties DEF TypeOK
<1>2. CASE ClientNext
  <2>1. CASE Begins
    <3>1. at = "WELCOME" /\ Len(commands') = 1 /\ commands'[1] = at /\ at' = at /\ pc' # "send"
      BY <1>0, <2>1 DEF Begins, Place
    <3> QED BY <1>1, <3>1 DEF Queue
  <2>2. CASE Issues
    <3>1. /\ Len(commands') = Len(commands) + 1
          /\ commands'[Len(commands) + 1] = at
          /\ \A i \in 1 .. Len(commands) : commands'[i] = commands[i]
      BY <1>1, <2>2, AppendProperties DEF Issues
    <3>2. pc = "send" /\ pc' = "recv" /\ at' = at /\ at # "DATA"
      BY <1>0, <2>2 DEF Issues, Place
    <3>3. \A i \in 1 .. Len(commands') : i \in 1 .. Len(commands) \/ i = Len(commands) + 1
      BY <1>1, <3>1
    <3>4. \A i \in 1 .. Len(commands) :
            commands[i] # "DATA" /\ Rank(commands[i]) < Rank(at)
      BY <1>0, <3>2 DEF Queue
    <3>5. \A i, j \in 1 .. Len(commands') : i < j => Rank(commands'[i]) < Rank(commands'[j])
      <4> SUFFICES ASSUME NEW i \in 1 .. Len(commands'), NEW j \in 1 .. Len(commands'), i < j
                   PROVE  Rank(commands'[i]) < Rank(commands'[j])
        OBVIOUS
      <4>1. i \in 1 .. Len(commands)
        BY <1>1, <3>1
      <4>2. CASE j \in 1 .. Len(commands)
        BY <1>0, <3>1, <4>1, <4>2 DEF Queue
      <4>3. CASE j = Len(commands) + 1
        BY <3>1, <3>4, <4>1, <4>3
      <4> QED BY <3>3, <4>2, <4>3
    <3>6. \A i \in 1 .. Len(commands') :
            commands'[i] # "DATA" /\ Rank(commands'[i]) <= Rank(at)
      <4> SUFFICES ASSUME NEW i \in 1 .. Len(commands')
                   PROVE  commands'[i] # "DATA" /\ Rank(commands'[i]) <= Rank(at)
        OBVIOUS
      <4>1. CASE i \in 1 .. Len(commands)
        BY <1>1, <3>1, <3>4, <4>1
      <4>2. CASE i = Len(commands) + 1
        BY <1>1, <3>1, <3>2, <4>2
      <4> QED BY <3>3, <4>1, <4>2
    <3> QED BY <3>2, <3>5, <3>6 DEF Queue
  <2>3. CASE Goes
    <3>1. /\ commands' = commands
          /\ Rank(at) <= Rank(at') /\ (pc' = "send" => Rank(at) < Rank(at'))
      BY <1>1, <2>3 DEF Goes, Advances
    <3>2. Rank(at') \in Int
      BY <1>1, <2>3 DEF Goes, Advances
    <3> QED BY <1>0, <1>1, <3>1, <3>2 DEF Queue
  <2> QED BY <1>0, <1>2, <2>1, <2>2, <2>3, ClientEffect
<1>3. CASE server_answers
  <2>1. UNCHANGED <<pc, at>> /\ commands # <<>> /\ commands' = Tail(commands)
    BY <1>3 DEF server_answers, client
  <2>2. /\ Len(commands') = Len(commands) - 1
        /\ \A i \in 1 .. Len(commands) - 1 : commands'[i] = commands[i + 1]
    BY <1>0, <2>1, Taking
  <2> QED BY <1>0, <1>1, <2>1, <2>2 DEF Queue
<1>4. CASE UNCHANGED <<pc, at, commands>>
  BY <1>0, <1>4 DEF Queue
<1>5. ClientNext \/ server_answers \/ UNCHANGED <<pc, at, commands>>
  BY DEF Next, ServerNext, server_sends, server_ends_transfer, server_closes,
         connections_break, data_breaks, vars, client, server
<1> QED BY <1>2, <1>3, <1>4, <1>5

-----------------------------------------------------------------------------
(* The data connection and the transfer. *)

\* A command stays pending until the server takes it, as long as the session
\* is up, and never becomes pending again.
LEMMA PendingShrinks ==
  ASSUME TypeOK, Place, Queue, [Next]_vars, NEW c \in {"PASV", "RETR"}
  PROVE  /\ Pending(c)' => Pending(c)
         /\ conn' = "up" /\ Pending(c) =>
              Pending(c)' \/ (server_answers /\ Head(commands) = c)
         /\ server_answers /\ Head(commands) = c => Pending(c) /\ ~Pending(c)'
<1>1. /\ at \in Answers /\ commands \in Seq(Answers) /\ Len(commands) \in Nat
      /\ Rank(at) \in 1 .. 9 /\ c \in Answers /\ c # "DATA" /\ Rank(c) \in {4, 7}
      /\ \A i \in 1 .. Len(commands) : commands[i] \in Answers /\ Rank(commands[i]) \in 1 .. 9
      /\ \A d, e \in Answers : Rank(d) = Rank(e) => d = e
  BY RankOnce, RankTable, AnswersTable, LenProperties DEF TypeOK
<1>2. CASE ClientNext
  <2>1. CASE Begins
    <3>1. at = "WELCOME" /\ at' = at /\ Rank(at) = 1
      BY <2>1, RankTable DEF Begins, Place
    <3>2. ~server_answers
      BY <2>1 DEF Begins, server_answers, client
    <3> QED BY <1>1, <3>1, <3>2 DEF Pending
  <2>2. CASE Issues
    <3>1. /\ Len(commands') = Len(commands) + 1
          /\ commands'[Len(commands) + 1] = at
          /\ \A i \in 1 .. Len(commands) : commands'[i] = commands[i]
      BY <1>1, <2>2, AppendProperties DEF Issues
    <3>2. pc = "send" /\ pc' = "recv" /\ at' = at
      BY <2>2 DEF Issues
    <3>3. ~server_answers
      BY <3>2 DEF server_answers, client
    <3> QED BY <1>1, <3>1, <3>2, <3>3 DEF Pending
  <2>3. CASE Goes
    <3>1. commands' = commands /\ Advances /\ (pc = "send" => conn' # "up")
      BY <2>3 DEF Goes
    <3>2. at' \in Answers
      BY StepPlace DEF ClientTypes
    <3>3. CASE at' = at /\ pc' # "send"
      <4>1. server_answers => commands' # commands
        <5>1. ASSUME server_answers PROVE commands' # commands
          <6>1. commands # <<>> /\ commands' = Tail(commands)
            BY <5>1 DEF server_answers
          <6>2. Len(commands') = Len(commands) - 1
            BY <6>1, Taking
          <6> QED BY <1>1, <6>2
        <5> QED BY <5>1
      <4> QED BY <1>1, <3>1, <3>3, <4>1 DEF Pending
    <3>4. CASE /\ pc # "send" /\ Rank(at') = Rank(at) + 1
               /\ (pc' = "send" /\ at' # "DATA") \/ at' = "DATA"
      <4>1. ~server_answers
        BY <1>1, <3>4 DEF server_answers, client
      <4>2. Rank(at') = Rank(c) => at' = c
        BY <1>1, <3>2
      <4>3. Rank("DATA") = 8
        BY RankTable
      <4> QED BY <1>1, <3>1, <3>4, <4>1, <4>2, <4>3 DEF Pending
    <3> QED BY <3>1, <3>3, <3>4 DEF Advances
  <2> QED BY <1>2, <2>1, <2>2, <2>3, ClientEffect
<1>3. CASE server_answers
  <2>1. UNCHANGED <<pc, at>> /\ commands # <<>> /\ commands' = Tail(commands)
    BY <1>3 DEF server_answers, client
  <2>2. /\ Len(commands') = Len(commands) - 1 /\ Head(commands) = commands[1]
        /\ Len(commands) # 0
        /\ \A i \in 1 .. Len(commands) - 1 : commands'[i] = commands[i + 1]
    BY <2>1, Taking
  <2>3. Pending(c)' => Pending(c)
    BY <1>1, <2>1, <2>2 DEF Pending
  <2>4. ASSUME Pending(c), Head(commands) # c PROVE Pending(c)'
    <3>1. ASSUME NEW i \in 1 .. Len(commands), commands[i] = c PROVE Pending(c)'
      <4>1. i # 1 /\ i - 1 \in 1 .. Len(commands) - 1 /\ commands'[i - 1] = commands[i]
        BY <1>1, <2>2, <2>4, <3>1
      <4> QED BY <2>2, <3>1, <4>1 DEF Pending
    <3> QED BY <2>1, <2>4, <3>1 DEF Pending
  <2>5. ASSUME Head(commands) = c PROVE Pending(c) /\ ~Pending(c)'
    <3>1. 1 \in 1 .. Len(commands) /\ commands[1] = c
      BY <1>1, <2>2, <2>5
    <3>2. Rank(c) <= Rank(at) /\ (pc = "send" => Rank(c) < Rank(at))
      BY <3>1 DEF Queue
    <3>3. \A i \in 1 .. Len(commands) - 1 : Rank(c) < Rank(commands[i + 1])
      BY <1>1, <3>1 DEF Queue
    <3>4. \A i \in 1 .. Len(commands) - 1 : commands'[i] # c
      BY <1>1, <2>2, <3>3
    <3> QED BY <1>1, <2>1, <2>2, <3>1, <3>2, <3>4 DEF Pending
  <2> QED BY <1>3, <2>3, <2>4, <2>5
<1>4. CASE ~server_answers /\ UNCHANGED <<pc, at, commands>>
  BY <1>4 DEF Pending
<1>5. ClientNext \/ server_answers \/ UNCHANGED <<pc, at, commands>>
  BY DEF Next, ServerNext, server_sends, server_ends_transfer, server_closes,
         connections_break, data_breaks, vars, client, server
<1> QED BY <1>2, <1>3, <1>4, <1>5

\* The three facts above, for both commands.
PendingFacts ==
  /\ Pending("PASV")' => Pending("PASV")
  /\ Pending("RETR")' => Pending("RETR")
  /\ conn' = "up" /\ Pending("RETR") =>
       Pending("RETR")' \/ (server_answers /\ Head(commands) = "RETR")
  /\ server_answers /\ Head(commands) = "PASV" => Pending("PASV") /\ ~Pending("PASV")'
  /\ server_answers /\ Head(commands) = "RETR" => Pending("RETR") /\ ~Pending("RETR")'

LEMMA StepService ==
  ASSUME IInv, [Next]_vars
  PROVE  Service'
<1> DEFINE P == Pending("PASV")
           R == Pending("RETR")
<1>0. TypeOK /\ Place /\ Queue /\ Service
  BY DEF IInv
<1>1. PendingFacts
  BY <1>0, PendingShrinks DEF PendingFacts
<1>2. /\ P' => P
      /\ R' => R
      /\ conn' = "up" /\ R => R' \/ (server_answers /\ Head(commands) = "RETR")
      /\ server_answers /\ Head(commands) = "PASV" => P /\ ~P'
      /\ server_answers /\ Head(commands) = "RETR" => R /\ ~R'
  BY <1>1 DEF PendingFacts
<1>3. /\ P => data = "none"
      /\ R => transfer = "none"
      /\ conn = "up" /\ ~R => transfer # "none"
      /\ transfer = "running" => data = "open"
      /\ conn = "up" /\ transfer \in {"done", "cut"} => data \in {"closed", "rst"}
      /\ transfer = "done" => sent = Size
      /\ at \in {"DATA", "QUIT"} => data = "rst" \/ (data = "closed" /\ received = sent)
  BY <1>0 DEF Service
<1>4. SUFFICES
        /\ P' => data' = "none"
        /\ R' => transfer' = "none"
        /\ conn' = "up" /\ ~R' => transfer' # "none"
        /\ transfer' = "running" => data' = "open"
        /\ conn' = "up" /\ transfer' \in {"done", "cut"} => data' \in {"closed", "rst"}
        /\ transfer' = "done" => sent' = Size
        /\ at' \in {"DATA", "QUIT"} =>
             data' = "rst" \/ (data' = "closed" /\ received' = sent')
  BY DEF Service
<1>5. CASE ClientNext
  <2>0. ~(server_answers /\ Head(commands) = "RETR") \/ (R /\ ~R')
    BY <1>2
  <2>1. CASE Begins
    <3>1. at = "WELCOME" /\ UNCHANGED <<at, data, transfer, sent, received>>
      BY <1>0, <2>1 DEF Begins, Place, service
    <3>2. R /\ R'
      BY <3>1, RankTable DEF Pending
    <3> QED BY <1>2, <1>3, <3>1, <3>2
  <2>2. CASE Issues
    <3>1. conn = "up" /\ UNCHANGED <<at, data, transfer, sent, received>>
      BY <2>2 DEF Issues, service
    <3>2. ~server_answers
      BY <2>2 DEF Issues, server_answers, client
    <3> QED BY <1>2, <1>3, <3>1, <3>2
  <2>3. CASE Goes
    <3>1. ~server_answers
      <4>1. ASSUME server_answers PROVE FALSE
        <5>1. commands # <<>> /\ commands' = Tail(commands)
          BY <4>1 DEF server_answers
        <5>2. Len(commands') = Len(commands) - 1 /\ Len(commands) \in Nat
          BY <1>0, <5>1, Taking
        <5>3. commands' = commands
          BY <2>3 DEF Goes
        <5> QED BY <5>2, <5>3
      <4> QED BY <4>1
    <3>2. /\ conn' = "up" => conn = "up"
          /\ UNCHANGED <<transfer, sent>>
          /\ data' = data \/ (data = "listen" /\ data' = "open" /\ at' = "CWD")
          /\ received' = received \/ at' = "RETR"
          /\ at' \in {"DATA", "QUIT"} =>
               at \in {"DATA", "QUIT"} \/ data = "rst" \/ (data = "closed" /\ received = sent)
      BY <2>3 DEF Goes, DataOver
    <3> QED BY <1>2, <1>3, <3>1, <3>2
  <2> QED BY <1>0, <1>5, <2>1, <2>2, <2>3, ClientEffect
<1>6. CASE server_answers
  <2>1. /\ conn = "up" /\ transfer # "running" /\ UNCHANGED <<at, received>>
        /\ conn' \in {"up", "fin"}
    BY <1>6 DEF server_answers, client
  <2>2. PICK ok \in BOOLEAN : Serves(Head(commands), ok)
    BY <1>6 DEF server_answers
  <2>3. CASE Head(commands) = "PASV" /\ ok
    <3>1. data' = "listen" /\ UNCHANGED <<transfer, sent>>
      BY <2>2, <2>3 DEF Serves, service
    <3> QED BY <1>2, <1>3, <1>6, <2>1, <2>3, <3>1
  <2>4. CASE Head(commands) = "RETR" /\ ok
    <3>1. data = "open" /\ transfer' = "running" /\ UNCHANGED <<data, sent>>
      BY <2>2, <2>4 DEF Serves, service
    <3> QED BY <1>2, <1>3, <1>6, <2>1, <2>4, <3>1
  <2>5. CASE Head(commands) = "RETR" /\ ~ok
    <3>1. /\ transfer' = "refused" /\ UNCHANGED sent
          /\ data' \in {data, IF data = "open" THEN "closed" ELSE data}
      BY <2>2, <2>5 DEF Serves, service
    <3> QED BY <1>2, <1>3, <1>6, <2>1, <2>5, <3>1
  <2>6. CASE Head(commands) # "RETR" /\ (Head(commands) # "PASV" \/ ~ok)
    <3>1. UNCHANGED <<data, transfer, sent>>
      BY <2>2, <2>6 DEF Serves, service
    <3> QED BY <1>2, <1>3, <2>1, <2>6, <3>1
  <2> QED BY <2>3, <2>4, <2>5, <2>6
<1>7. ASSUME ~server_answers, ServerSteps PROVE UNCHANGED <<at, received>> /\ (conn' = "up" => conn = "up")
  BY <1>7, ServerLeavesClient
     DEF client, ServerSteps, server_sends, server_ends_transfer, server_closes,
         connections_break, data_breaks
<1>8. CASE ~server_answers /\ server_sends
  <2>1. conn = "up" /\ transfer = "running" /\ UNCHANGED <<conn, data, transfer>>
    BY <1>8 DEF server_sends
  <2> QED BY <1>2, <1>3, <1>7, <1>8, <2>1 DEF ServerSteps
<1>9. CASE ~server_answers /\ server_ends_transfer
  <2>1. /\ conn = "up" /\ transfer = "running" /\ data' = "closed" /\ sent' = sent
        /\ transfer' = IF sent = Size THEN "done" ELSE "cut"
    BY <1>9 DEF server_ends_transfer
  <2> QED BY <1>2, <1>3, <1>7, <1>9, <2>1 DEF ServerSteps
<1>10. CASE ~server_answers /\ server_closes
  <2>1. /\ conn = "up" /\ transfer # "running" /\ conn' = "fin" /\ UNCHANGED <<transfer, sent>>
        /\ data' = IF data = "open" THEN "closed" ELSE IF data = "listen" THEN "none" ELSE data
    BY <1>10 DEF server_closes
  <2> QED BY <1>2, <1>3, <1>7, <1>10, <2>1 DEF ServerSteps
<1>11. CASE ~server_answers /\ connections_break
  <2>1. /\ conn' = "rst" /\ UNCHANGED sent
        /\ transfer' = IF transfer = "running" THEN "cut" ELSE transfer
        /\ data = "none" => data' = "none"
        /\ data = "rst" => data' = "rst"
        /\ data = "closed" => data' \in {"closed", "rst"}
    BY <1>11 DEF connections_break
  <2> QED BY <1>2, <1>3, <1>7, <1>11, <2>1 DEF ServerSteps
<1>12. CASE ~server_answers /\ data_breaks
  <2>1. /\ data \in {"open", "closed"} /\ data' = "rst" /\ UNCHANGED <<conn, sent>>
        /\ transfer' = IF transfer = "running" THEN "cut" ELSE transfer
    BY <1>12 DEF data_breaks
  <2> QED BY <1>2, <1>3, <1>7, <1>12, <2>1 DEF ServerSteps
<1>13. CASE UNCHANGED vars
  <2>1. UNCHANGED <<pc, at, received, conn, commands, data, transfer, sent>>
    BY <1>13 DEF vars, client, server, service
  <2>2. (P <=> P') /\ (R <=> R')
    BY <2>1 DEF Pending
  <2> QED BY <1>3, <2>1, <2>2
<1> QED
  BY <1>5, <1>6, <1>8, <1>9, <1>10, <1>11, <1>12, <1>13
     DEF Next, ServerNext

-----------------------------------------------------------------------------
(* What is said about the end of the transfer. *)

LEMMA StepSaid ==
  ASSUME IInv, [Next]_vars
  PROVE  Said'
<1> DEFINE W == SaysWhole(replies, heard)
           O == SaysOver(replies, heard)
<1>0. TypeOK /\ Place /\ Queue /\ Service
  BY DEF IInv
<1>1. /\ W => transfer = "done"
      /\ conn = "up" /\ transfer \in {"done", "cut"} => O
      /\ conn = "up" /\ pc = "recv" /\ at # "DATA" => commands # <<>> \/ replies # <<>>
  BY DEF IInv, Said
<1>2. SUFFICES
        /\ W' => transfer' = "done"
        /\ conn' = "up" /\ transfer' \in {"done", "cut"} => O'
        /\ conn' = "up" /\ pc' = "recv" /\ at' # "DATA" => commands' # <<>> \/ replies' # <<>>
  BY DEF Said
<1>3. CASE ClientNext
  <2>1. CASE Begins
    <3>1. /\ (W <=> W') /\ UNCHANGED transfer /\ commands' = <<at>> /\ at = "WELCOME"
      BY <1>0, <2>1 DEF Begins, service, Place
    <3>2. transfer = "none"
      BY <1>0, <3>1, RankTable DEF Service, Pending
    <3>3. commands' # <<>>
      BY <3>1
    <3> QED BY <1>1, <3>1, <3>2, <3>3
  <2>2. CASE Issues
    <3>1. /\ (W <=> W') /\ (O <=> O') /\ UNCHANGED transfer /\ conn = "up"
      BY <2>2 DEF Issues, service
    <3>2. commands' # <<>>
      <4>1. commands \in Seq(Answers) /\ at \in Answers /\ commands' = Append(commands, at)
        BY <1>0, <2>2 DEF Issues, TypeOK
      <4>2. Len(commands') = Len(commands) + 1 /\ Len(commands) \in Nat
        BY <4>1, AppendProperties, LenProperties
      <4> QED BY <4>2
    <3> QED BY <1>1, <3>1, <3>2
  <2>3. CASE Goes
    <3>1. /\ W' => W
          /\ O => O'
          /\ UNCHANGED transfer
          /\ conn' = "up" => conn = "up"
          /\ pc' = "recv" /\ at' # "DATA" => conn' # "up"
      BY <2>3 DEF Goes
    <3> QED BY <1>1, <3>1
  <2> QED BY <1>0, <1>3, <2>1, <2>2, <2>3, ClientEffect
<1>4. CASE server_answers
  <2>1. /\ conn = "up" /\ commands # <<>> /\ UNCHANGED heard
    BY <1>4 DEF server_answers, client
  <2>2. PICK ok \in BOOLEAN, k \in 1 .. MaxParts :
          /\ Serves(Head(commands), ok)
          /\ replies' = replies \o Answer(Head(commands), ok, k)
    BY <1>4 DEF server_answers
  <2>3. Head(commands) \in Answers /\ Head(commands) # "DATA"
    <3>1. 1 \in 1 .. Len(commands) /\ Head(commands) = commands[1] /\ commands[1] \in Answers
      BY <1>0, <2>1, Taking
    <3> QED BY <1>0, <3>1 DEF Queue
  <2>4. /\ replies' # <<>>
        /\ SaysWhole(replies', heard) => SaysWhole(replies, heard)
        /\ SaysOver(replies, heard) => SaysOver(replies', heard)
    BY <1>0, <2>2, <2>3, Adding
  <2>5. (W' => W) /\ (O => O')
    BY <2>1, <2>4
  <2>6. CASE Head(commands) = "RETR"
    <3>1. transfer = "none"
      BY <1>0, <1>4, <2>6, PendingShrinks DEF Service
    <3>2. transfer' \in {"running", "refused"}
      BY <2>2, <2>6 DEF Serves, service
    <3> QED BY <1>1, <2>4, <2>5, <3>1, <3>2
  <2>7. CASE Head(commands) # "RETR"
    <3>1. transfer' = transfer
      BY <2>2, <2>7 DEF Serves, service
    <3> QED BY <1>1, <2>1, <2>4, <2>5, <3>1
  <2> QED BY <2>6, <2>7
<1>5. CASE server_sends
  <2>1. /\ UNCHANGED <<pc, at, heard, conn, commands, replies, transfer>>
    BY <1>5 DEF server_sends, client
  <2> QED BY <1>1, <2>1
<1>6. CASE server_ends_transfer
  <2>1. /\ conn = "up" /\ transfer = "running" /\ UNCHANGED heard
        /\ transfer' = IF sent = Size THEN "done" ELSE "cut"
    BY <1>6 DEF server_ends_transfer, client
  <2>2. PICK k \in 1 .. MaxParts : replies' = replies \o Answer("DATA", sent = Size, k)
    BY <1>6 DEF server_ends_transfer
  <2>3. (sent = Size) \in BOOLEAN /\ "DATA" \in Answers
    BY AnswersTable
  <2>4. /\ replies' # <<>>
        /\ SaysWhole(replies', heard) => SaysWhole(replies, heard) \/ sent = Size
        /\ SaysOver(replies', heard)
    BY <1>0, <2>2, <2>3, Adding
  <2>5. (W' => W \/ sent = Size) /\ O'
    BY <2>1, <2>4
  <2> QED BY <1>1, <2>1, <2>4, <2>5
<1>7. CASE server_closes \/ connections_break
  <2>1. /\ UNCHANGED <<heard, replies>> /\ conn' # "up"
        /\ transfer = "done" => transfer' = "done"
    BY <1>7 DEF server_closes, connections_break, client
  <2>2. W' <=> W
    BY <2>1
  <2> QED BY <1>1, <2>1, <2>2
<1>8. CASE data_breaks
  <2>1. UNCHANGED <<pc, at, heard, conn, commands>>
    BY <1>8 DEF data_breaks, client
  <2>2. CASE transfer = "running"
    <3>1. "DATA" \in Answers /\ FALSE \in BOOLEAN /\ 1 \in 1 .. MaxParts
      BY AnswersTable, FtpAssumption
    <3>2. transfer' = "cut" /\ replies' = replies \o Answer("DATA", FALSE, 1)
      BY <1>8, <2>2 DEF data_breaks
    <3>3. /\ replies' # <<>>
          /\ SaysWhole(replies', heard) => SaysWhole(replies, heard)
          /\ SaysOver(replies', heard)
      BY <1>0, <3>1, <3>2, Adding
    <3>4. (W' => W) /\ O'
      BY <2>1, <3>3
    <3> QED BY <1>1, <2>2, <3>2, <3>3, <3>4
  <2>3. CASE transfer # "running"
    <3>1. UNCHANGED <<transfer, replies>>
      BY <1>8, <2>3 DEF data_breaks
    <3>2. (W' <=> W) /\ (O' <=> O)
      BY <2>1, <3>1
    <3> QED BY <1>1, <2>1, <3>1, <3>2
  <2> QED BY <2>2, <2>3
<1>9. CASE UNCHANGED vars
  <2>1. UNCHANGED <<pc, at, heard, conn, commands, replies, transfer>>
    BY <1>9 DEF vars, client, server, service
  <2>2. (W' <=> W) /\ (O' <=> O)
    BY <2>1
  <2> QED BY <1>1, <2>1, <2>2
<1> QED
  BY <1>3, <1>4, <1>5, <1>6, <1>7, <1>8, <1>9 DEF Next, ServerNext

-----------------------------------------------------------------------------
LEMMA StepIInv == IInv /\ [Next]_vars => IInv'
  BY StepTypes, StepQueue, StepService, StepSaid DEF IInv

THEOREM AlwaysIInv == Spec => []IInv
<1> QED BY InitIInv, StepIInv, PTL DEF Spec

\* download_it returns with both its sockets closed, through every error path
\* and whatever the server and the network do.
THEOREM AllSocketsClosed == Spec => []Sockets
<1>1. IInv => Sockets
  BY DEF IInv, Place, Sockets
<1> QED BY <1>1, AlwaysIInv, PTL

\* When the server has said that the transfer succeeded, and the data connection
\* did not break after its last byte, the file has as many bytes as the server's.
THEOREM SuccessfulTransferIsWhole == Spec => []SuccessMeansWhole
<1>1. IInv => SuccessMeansWhole
  <2> SUFFICES ASSUME IInv, at \in {"DATA", "QUIT"}, data # "rst",
                      [to |-> "DATA", ok |-> TRUE] \in heard
               PROVE  received = Size
    BY DEF SuccessMeansWhole
  <2>1. transfer = "done"
    BY DEF IInv, Said, SaysWhole
  <2> QED BY <2>1 DEF IInv, Service
<1> QED BY <1>1, AlwaysIInv, PTL

\* Both sides wait only after a refused RETR, or when the answer at the end of
\* the transfer was read with another one.
THEOREM WaitingIsExplained == Spec => []MutualWait
<1>1. IInv => MutualWait
  <2> SUFFICES ASSUME IInv, conn = "up", commands = <<>>, transfer # "running",
                      \/ pc = "recv" /\ replies = <<>>
                      \/ pc = "fetch" /\ received = sent /\ data = "open"
               PROVE  \/ transfer = "refused"
                      \/ at = "DATA" /\ \E h \in heard : h.to = "DATA"
    BY DEF MutualWait
  <2>1. Len(commands) = 0 /\ transfer \in {"none", "running", "done", "cut", "refused"}
    BY DEF IInv, TypeOK
  <2>2. CASE pc = "recv" /\ replies = <<>>
    <3>1. at = "DATA" /\ Len(replies) = 0
      BY <2>2 DEF IInv, Said
    <3>2. ~Pending("RETR")
      BY <2>1, <2>2, <3>1, RankTable DEF Pending
    <3>3. transfer # "none"
      BY <3>2 DEF IInv, Service
    <3> QED BY <2>1, <3>1, <3>3 DEF IInv, Said, SaysOver
  <2>3. CASE pc = "fetch" /\ received = sent /\ data = "open"
    <3>1. at = "RETR"
      BY <2>3 DEF IInv, Place
    <3>2. ~Pending("RETR")
      BY <2>1, <2>3, <3>1, RankTable DEF Pending
    <3> QED BY <2>1, <2>3, <3>2 DEF IInv, Service
  <2> QED BY <2>2, <2>3
<1> QED BY <1>1, AlwaysIInv, PTL
-----------------------------------------------------------------------------
(* A session has an end. *)

\* Turns that download_it has left for a command, and for all of them.
Stage(p) ==
  CASE p = "socket" -> 5
    [] p \in {"connect", "send"} -> 4
    [] p = "recv" -> 3
    [] p \in {"data_socket", "fopen"} -> 2
    [] OTHER -> 1
Turns(p, c) == IF p \in Ended THEN 0 ELSE 5 * (9 - Rank(c)) + Stage(p)

One(b) == IF b THEN 1 ELSE 0

\* Steps that are left to the server and to the network.
ServerLeft ==
  3 * Len(commands) + One(transfer = "running") + One(conn \in {"none", "up"})
  + One(data # "rst") + (Size - sent)

\* Steps that are left of the session at most.
WorkLeft == 5 * Turns(pc, at) + ServerLeft + (Size - received)

LEMMA StageTable ==
  /\ Stage("socket") = 5 /\ Stage("connect") = 4 /\ Stage("send") = 4
  /\ Stage("recv") = 3 /\ Stage("data_socket") = 2 /\ Stage("fopen") = 2
  /\ Stage("data_connect") = 1 /\ Stage("fetch") = 1
BY DEF Stage

LEMMA TurnsAreNat ==
  ASSUME TypeOK
  PROVE  /\ Turns(pc, at) \in Nat
         /\ pc \notin Ended => /\ Turns(pc, at) = 5 * (9 - Rank(at)) + Stage(pc)
                               /\ Stage(pc) \in 1 .. 5
         /\ Rank(at) \in 1 .. 9
<1>1. Rank(at) \in 1 .. 9
  BY RankOnce DEF TypeOK
<1>2. ASSUME pc \notin Ended PROVE Stage(pc) \in 1 .. 5
  BY <1>2, StageTable DEF TypeOK
<1> QED BY <1>1, <1>2 DEF Turns

LEMMA WorkIsNat == TypeOK => ServerLeft \in Nat /\ WorkLeft \in Nat
<1> SUFFICES ASSUME TypeOK PROVE ServerLeft \in Nat /\ WorkLeft \in Nat
  OBVIOUS
<1>1. /\ Len(commands) \in Nat /\ Size - sent \in Nat /\ Size - received \in Nat
  BY FtpAssumption DEF TypeOK
<1>2. ServerLeft \in Nat
  BY <1>1 DEF ServerLeft, One
<1> QED BY <1>1, <1>2, TurnsAreNat DEF WorkLeft

\* A turn of download_it that ends or comes nearer to the end.
Comes == received' = received /\ Turns(pc', at') < Turns(pc, at)

LEMMA FailingComes ==
  ASSUME TypeOK, NEW closed, CannotRead(closed) \/ Fails(closed), pc \notin Ended
  PROVE  Comes
<1>1. pc' = "failed" /\ received' = received
  BY Failing
<1>2. Turns(pc', at') = 0
  BY <1>1 DEF Turns, Ended
<1>3. Turns(pc, at) \in Nat /\ Turns(pc, at) > 0
  BY TurnsAreNat
<1> QED BY <1>1, <1>2, <1>3 DEF Comes

\* It ends, or goes on with the same command, or with the next.
LEMMA NearerComes ==
  ASSUME TypeOK, pc \notin Ended, received' = received,
         \/ pc' \in Ended
         \/ pc' \notin Ended /\ at' = at /\ Stage(pc') \in Nat /\ Stage(pc') < Stage(pc)
         \/ pc' \notin Ended /\ Rank(at') = Rank(at) + 1 /\ Stage(pc') \in 1 .. 5
            /\ Stage(pc') < 5
  PROVE  Comes
<1>1. /\ Turns(pc, at) = 5 * (9 - Rank(at)) + Stage(pc)
      /\ Stage(pc) \in 1 .. 5 /\ Rank(at) \in 1 .. 9
  BY TurnsAreNat
<1>2. CASE pc' \in Ended
  BY <1>1, <1>2 DEF Comes, Turns
<1>3. CASE pc' \notin Ended
  <2>1. Turns(pc', at') = 5 * (9 - Rank(at')) + Stage(pc')
    BY <1>3 DEF Turns
  <2>2. CASE at' = at /\ Stage(pc') \in Nat /\ Stage(pc') < Stage(pc)
    BY <1>1, <2>1, <2>2 DEF Comes
  <2>3. CASE Rank(at') = Rank(at) + 1 /\ Stage(pc') \in 1 .. 5 /\ Stage(pc') < 5
    BY <1>1, <2>1, <2>3 DEF Comes
  <2> QED BY <1>3, <2>2, <2>3
<1> QED BY <1>2, <1>3


LEMMA ClientComes ==
  ASSUME TypeOK, Place, ClientNext
  PROVE  Comes \/ (pc' = pc /\ at' = at /\ received' = received + 1)
<1>0. /\ Login = {"WELCOME", "USER", "PASS", "PASV"}
      /\ Transfer = {"CWD", "SIZE", "RETR"}
      /\ \A p \in {"socket", "connect", "send", "recv", "data_socket",
                   "data_connect", "fopen", "fetch"} : p \notin Ended
      /\ {"failed", "done", "killed", "crashed"} = Ended
  BY DEF Login, Transfer, Ended
<1>1. CASE open_ctrl
  <2>1. CASE Fails({})
    BY <1>0, <1>1, <2>1, FailingComes DEF open_ctrl
  <2>2. CASE ~Fails({})
    <3>1. pc = "socket" /\ pc' = "connect" /\ at' = at /\ received' = received
      BY <1>1, <2>2 DEF open_ctrl
    <3> QED BY <1>0, <3>1, StageTable, NearerComes
  <2> QED BY <2>1, <2>2
<1>2. CASE connect_ctrl
  <2>1. CASE Fails({"ctrl"})
    BY <1>0, <1>2, <2>1, FailingComes DEF connect_ctrl
  <2>2. CASE ~Fails({"ctrl"})
    <3>1. pc = "connect" /\ pc' = "recv" /\ at' = at /\ received' = received
      BY <1>2, <2>2 DEF connect_ctrl
    <3> QED BY <1>0, <3>1, StageTable, NearerComes
  <2> QED BY <2>1, <2>2
<1>3. CASE login_send \/ transfer_send \/ quit_send
  <2>1. PICK closed \in SUBSET {"ctrl", "data"} : Sends(closed)
    BY <1>3 DEF login_send, transfer_send, quit_send
  <2>2. /\ pc = "send" /\ at' = at /\ received' = received
        /\ pc' \in {"recv", "killed", "failed"}
    BY <2>1, Sending
  <2> QED BY <1>0, <2>2, StageTable, NearerComes
<1>4. CASE login_recv
  <2>0. pc = "recv" /\ pc \notin Ended
    BY <1>4 DEF login_recv, Reads, CannotRead, Ended
  <2>1. CASE CannotRead({"ctrl"})
    BY <1>4, <2>0, <2>1, FailingComes
  <2>2. CASE ~CannotRead({"ctrl"})
    <3>1. PICK n \in 0 .. Len(replies) : Reads(n)
      BY <1>4, <2>2 DEF login_recv
    <3>2. received' = received
      BY <3>1 DEF Reads
    <3>3. at \in {"WELCOME", "USER", "PASS"} /\ pc' = "send" /\ at' = After(at)
      BY <1>0, <1>4, <2>2 DEF login_recv
    <3>4. Rank(at') = Rank(at) + 1
      BY <3>3, AfterTable, RankTable
    <3> QED BY <2>0, <3>2, <3>3, <3>4, StageTable, NearerComes DEF Ended
  <2> QED BY <2>1, <2>2
<1>5. CASE pasv_recv
  <2>0. pc = "recv" /\ pc \notin Ended
    BY <1>5 DEF pasv_recv, Reads, CannotRead, Ended
  <2>1. CASE CannotRead({"ctrl"})
    BY <1>5, <2>0, <2>1, FailingComes
  <2>2. CASE ~CannotRead({"ctrl"})
    <3>1. PICK n \in 0 .. Len(replies) : Reads(n)
      BY <1>5, <2>2 DEF pasv_recv
    <3>2. received' = received
      BY <3>1 DEF Reads
    <3>3. pc' \in {"data_socket", "crashed"} /\ at' = at
      BY <1>5, <2>2 DEF pasv_recv
    <3> QED BY <1>0, <2>0, <3>2, <3>3, StageTable, NearerComes
  <2> QED BY <2>1, <2>2
<1>6. CASE open_data
  <2>1. CASE Fails({"ctrl"})
    BY <1>0, <1>6, <2>1, FailingComes DEF open_data
  <2>2. CASE ~Fails({"ctrl"})
    <3>1. /\ pc = "data_socket" /\ pc' = "data_connect" /\ at' = at
          /\ received' = received
      BY <1>6, <2>2 DEF open_data
    <3> QED BY <1>0, <3>1, StageTable, NearerComes
  <2> QED BY <2>1, <2>2
<1>7. CASE connect_data
  <2>1. CASE Fails({"ctrl", "data"})
    BY <1>0, <1>7, <2>1, FailingComes DEF connect_data
  <2>2. CASE ~Fails({"ctrl", "data"})
    <3>1. /\ pc = "data_connect" /\ at = "PASV" /\ pc' = "send" /\ at' = After(at)
          /\ received' = received
      BY <1>7, <2>2 DEF connect_data, Place
    <3>2. Rank(at') = Rank(at) + 1
      BY <3>1, AfterTable, RankTable
    <3> QED BY <1>0, <3>1, <3>2, StageTable, NearerComes
  <2> QED BY <2>1, <2>2
<1>8. CASE transfer_recv
  <2>0. pc = "recv" /\ pc \notin Ended
    BY <1>8 DEF transfer_recv, Reads, CannotRead, Ended
  <2>1. CASE CannotRead({"ctrl", "data"})
    BY <1>8, <2>0, <2>1, FailingComes
  <2>2. CASE ~CannotRead({"ctrl", "data"})
    <3>1. PICK n \in 0 .. Len(replies) : Reads(n)
      BY <1>8, <2>2 DEF transfer_recv
    <3>2. received' = received
      BY <3>1 DEF Reads
    <3>3. /\ at \in {"CWD", "SIZE", "RETR"}
          /\ IF at = "RETR" THEN pc' = "fopen" /\ at' = at
                            ELSE pc' = "send" /\ at' = After(at)
      BY <1>0, <1>8, <2>2 DEF transfer_recv
    <3>4. at # "RETR" => Rank(at') = Rank(at) + 1
      BY <3>3, AfterTable, RankTable
    <3> QED BY <1>0, <2>0, <3>2, <3>3, <3>4, StageTable, NearerComes
  <2> QED BY <2>1, <2>2
<1>9. CASE open_file
  <2>1. /\ pc = "fopen" /\ pc' \in {"fetch", "crashed"} /\ at' = at
        /\ received' = received
    BY <1>9 DEF open_file
  <2> QED BY <1>0, <2>1, StageTable, NearerComes
<1>10. CASE fetch
  BY <1>10 DEF fetch
<1>11. CASE fetch_ends
  <2>1. /\ pc = "fetch" /\ pc' = "recv" /\ at = "RETR" /\ at' = "DATA"
        /\ received' = received
    BY <1>11 DEF fetch_ends, FetchEnds, Place, TypeOK
  <2>2. Rank(at') = Rank(at) + 1
    BY <2>1, RankTable
  <2> QED BY <1>0, <2>1, <2>2, StageTable, NearerComes
<1>12. CASE data_recv
  <2>0. pc = "recv" /\ pc \notin Ended
    BY <1>12 DEF data_recv, Reads, CannotRead, Ended
  <2>1. CASE CannotRead({"ctrl"})
    BY <1>12, <2>0, <2>1, FailingComes
  <2>2. CASE ~CannotRead({"ctrl"})
    <3>1. PICK n \in 0 .. Len(replies) : Reads(n)
      BY <1>12, <2>2 DEF data_recv
    <3>2. received' = received
      BY <3>1 DEF Reads
    <3>3. at = "DATA" /\ pc' = "send" /\ at' = "QUIT"
      BY <1>12, <2>2 DEF data_recv
    <3>4. Rank(at') = Rank(at) + 1
      BY <3>3, RankTable
    <3> QED BY <1>0, <2>0, <3>2, <3>3, <3>4, StageTable, NearerComes
  <2> QED BY <2>1, <2>2
<1>13. CASE quit_recv
  <2>0. pc = "recv" /\ pc \notin Ended
    BY <1>13 DEF quit_recv, Reads, CannotRead, Ended
  <2>1. CASE CannotRead({"ctrl"})
    BY <1>13, <2>0, <2>1, FailingComes
  <2>2. CASE ~CannotRead({"ctrl"})
    <3>1. PICK n \in 0 .. Len(replies) : Reads(n)
      BY <1>13, <2>2 DEF quit_recv
    <3>2. received' = received
      BY <3>1 DEF Reads
    <3>3. pc' = "done"
      BY <1>13, <2>2 DEF quit_recv
    <3> QED BY <1>0, <2>0, <3>2, <3>3, NearerComes
  <2> QED BY <2>1, <2>2
<1> QED
  BY <1>1, <1>2, <1>3, <1>4, <1>5, <1>6, <1>7, <1>8, <1>9, <1>10, <1>11,
     <1>12, <1>13
     DEF ClientNext

\* What a turn of download_it leaves to the server: one command more at most,
\* or the connection.
LEMMA ClientLeaves ==
  ASSUME TypeOK, TypeOK', Place, ClientNext
  PROVE  ServerLeft' <= ServerLeft + 4 /\ ((pc' = pc) => ServerLeft' <= ServerLeft)
<1>1. /\ commands \in Seq(Answers) /\ Len(commands) \in Nat
      /\ sent \in Int /\ Size \in Int
  BY FtpAssumption DEF TypeOK
<1>2. CASE Begins
  <2>1. Len(commands') = 1 /\ pc' # pc
    BY <1>2 DEF Begins
  <2>2. UNCHANGED <<data, transfer, sent>>
    BY <1>2 DEF Begins, service
  <2> QED BY <1>1, <2>1, <2>2 DEF ServerLeft, One
<1>3. CASE Issues
  <2>1. Len(commands') = Len(commands) + 1 /\ pc' # pc
    BY <1>1, <1>3, AppendProperties DEF Issues, TypeOK
  <2>2. UNCHANGED <<data, transfer, sent, conn>>
    BY <1>3 DEF Issues, service
  <2> QED BY <1>1, <2>1, <2>2 DEF ServerLeft, One
<1>4. CASE Goes
  <2>1. /\ conn' \in {conn, "fin", "dead"}
        /\ UNCHANGED <<commands, transfer, sent>>
        /\ data' = data \/ data = "listen"
    BY <1>4 DEF Goes
  <2> QED BY <1>1, <2>1 DEF ServerLeft, One
<1> QED BY <1>2, <1>3, <1>4, ClientEffect

LEMMA ServerFalls ==
  ASSUME TypeOK, TypeOK', Service, ServerSteps
  PROVE  ServerLeft' < ServerLeft
<1>0. /\ commands \in Seq(Answers) /\ Len(commands) \in Nat /\ Len(commands') \in Nat
      /\ sent \in Int /\ Size \in Int
  BY FtpAssumption DEF TypeOK
<1>1. CASE server_answers
  <2>1. Len(commands') = Len(commands) - 1
    BY <1>0, <1>1, HeadTailProperties DEF server_answers
  <2>2. sent' = sent /\ conn = "up"
    BY <1>1 DEF server_answers, Serves, service
  <2> QED BY <1>0, <2>1, <2>2 DEF ServerLeft, One
<1>2. CASE server_sends
  BY <1>0, <1>2 DEF server_sends, ServerLeft, One
<1>3. CASE server_ends_transfer
  <2>1. /\ transfer = "running" /\ transfer' # "running"
        /\ data # "rst"
        /\ UNCHANGED <<conn, commands, sent>>
    BY <1>3 DEF server_ends_transfer, Service
  <2> QED BY <1>0, <2>1 DEF ServerLeft, One
<1>4. CASE server_closes
  BY <1>0, <1>4 DEF server_closes, ServerLeft, One
<1>5. CASE connections_break
  BY <1>0, <1>5 DEF connections_break, ServerLeft, One
<1>6. CASE data_breaks
  <2>1. /\ data # "rst" /\ data' = "rst"
        /\ transfer' = "running" => transfer = "running"
        /\ UNCHANGED <<conn, commands, sent>>
    BY <1>6 DEF data_breaks
  <2> QED BY <1>0, <2>1 DEF ServerLeft, One
<1> QED BY <1>1, <1>2, <1>3, <1>4, <1>5, <1>6 DEF ServerSteps

\* A session is finite: of the steps left to download_it, to the server and to
\* the network every step of any of them uses up at least one, whatever the
\* faults.  So download_it cannot go on for ever: it ends, or it waits for
\* something that does not come.
THEOREM SessionIsFinite ==
  Spec => [](WorkLeft \in Nat) /\ [][WorkLeft' < WorkLeft]_vars
<1>1. IInv => WorkLeft \in Nat
  BY WorkIsNat DEF IInv
<1>2. ASSUME IInv, IInv', [Next]_vars
      PROVE  [WorkLeft' < WorkLeft]_vars
  <2>1. TypeOK /\ TypeOK' /\ Place /\ Service
    BY <1>2 DEF IInv
  <2>2. /\ Turns(pc, at) \in Nat /\ ServerLeft \in Nat
        /\ received \in Int /\ received' \in Int /\ Size \in Int
        /\ ServerLeft' \in Int
    <3>1. Turns(pc, at) \in Nat /\ ServerLeft \in Nat
      BY <2>1, TurnsAreNat, WorkIsNat
    <3>2. /\ received \in Int /\ received' \in Int /\ Size \in Int
          /\ sent' \in Int /\ commands' \in Seq(Answers)
      BY <2>1, FtpAssumption DEF TypeOK
    <3>3. Len(commands') \in Nat
      BY <3>2
    <3>4. ServerLeft' \in Int
      BY <3>2, <3>3 DEF ServerLeft, One
    <3> QED BY <3>1, <3>2, <3>4
  <2>3. Turns(pc', at') \in Int
    <3>1. Rank(at') \in 1 .. 9
      BY <2>1, RankOnce DEF TypeOK
    <3>2. Stage(pc') \in 1 .. 5
      BY DEF Stage
    <3> QED BY <3>1, <3>2 DEF Turns
  <2>4. CASE ClientNext
    <3>1. CASE Comes
      <4>1. ServerLeft' <= ServerLeft + 4
        BY <2>1, <2>4, ClientLeaves
      <4> QED BY <2>2, <2>3, <3>1, <4>1 DEF Comes, WorkLeft
    <3>2. CASE pc' = pc /\ at' = at /\ received' = received + 1
      <4>1. ServerLeft' <= ServerLeft
        BY <2>1, <2>4, <3>2, ClientLeaves
      <4> QED BY <2>2, <3>2, <4>1 DEF WorkLeft
    <3> QED BY <2>1, <2>4, <3>1, <3>2, ClientComes
  <2>5. CASE ServerSteps
    <3>1. ServerLeft' < ServerLeft
      BY <2>1, <2>5, ServerFalls
    <3>2. UNCHANGED <<pc, at, received>>
      BY <2>5, ServerLeavesClient DEF client
    <3> QED BY <2>2, <3>1, <3>2 DEF WorkLeft
  <2>6. CASE UNCHANGED vars
    BY <2>6
  <2> QED BY <1>2, <2>4, <2>5, <2>6 DEF Next, ServerNext, ServerSteps
<1> QED BY <1>1, <1>2, AlwaysIInv, PTL DEF Spec
=============================================================================
