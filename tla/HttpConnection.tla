----------------------------- MODULE HttpConnection -----------------------------
(*******************************************************************************)
(* One worker of the HTTP server and the connections it serves in detail: the  *)
(* class Client and handle_communication, with the log lines of the worker and *)
(* of the parent and the end of both.  HttpServer has the other half: several  *)
(* workers, with a connection as a whole.                                      *)
(*                                                                             *)
(* What a client sends is a sequence of parts: a request is a "head" and an    *)
(* "end", the rest of the headers up to their blank line; a POST goes on with  *)
(* the header of its one "part", some "data" and the closing "boundary".  A    *)
(* read takes any of the parts that have arrived and fit its buffer.  Data     *)
(* does not begin like a request, and what is in memory after the headers that *)
(* receive_headers copies does not look like one more field: it gives parse no *)
(* terminating zero.                                                           *)
(*******************************************************************************)
EXTENDS HttpLogger, SequencesExt

CONSTANTS
  Dialogues,        \* the sequences of requests a client may have for a connection
  MaxConnections,   \* bound of the connections the parent hands over
  BufferSize,       \* parts that fit _buffer, 1024 bytes
  FilebufSize       \* parts that fit filebuf, 16384 bytes

Requests ==
  [asks : {"POST", "script", "page", "missing", "root", "unknown"}, data : Nat, keep_alive : BOOLEAN]

ASSUME ConnectionAssumption ==
  /\ Dialogues \subseteq Seq(Requests)
  /\ {MaxConnections, BufferSize, FilebufSize} \subseteq Nat

VARIABLES
  worker,       \* where the worker is; names with log_ are its calls of mq_send
  should_stop,  \* the worker's _should_stop
  client,       \* the worker's Client object: _is_open and the state of _ssl
  request,      \* number of the request it has parsed, 0 for one it could not parse
  remainder,    \* _remainder
  curlength,    \* of handle_post, in parts
  file,         \* what handle_post has appended to the file for this connection
  dialogue,     \* the requests of the connection's client
  asked,        \* how many of them it has sent
  wire,         \* the parts on their way to the worker
  answers,      \* the answers written for it
  left,         \* whether the client has closed its end
  parent,       \* where the parent is
  pair,         \* what the worker's end of its pair holds: a descriptor, the end of file
  available,    \* whether the worker is announced
  passed        \* number of connections handed over

upload_vars == <<remainder, curlength, file>>
client_vars == <<dialogue, asked, wire, answers, left>>
parent_vars == <<parent, pair, available, passed>>
vars == <<worker, should_stop, client, request, upload_vars, client_vars, parent_vars, logger_vars>>

(* Parts of request i; the data of a POST is numbered.                         *)
Part(i, kind) == [of |-> i, is |-> kind, number |-> 0]
Data(i) == [k \in 1 .. dialogue[i].data |-> [of |-> i, is |-> "data", number |-> k]]
Body(i) ==
  IF dialogue[i].asks = "POST"
    THEN <<Part(i, "part")>> \o Data(i) \o <<Part(i, "boundary")>> ELSE <<>>
Request(i) == <<Part(i, "head"), Part(i, "end")>> \o Body(i)

Kinds == {"created", "cut upload", "output", "cut output", "page", "not found", "index", "cut answer"}

AfterLog ==
  [log_waiting |-> "recvmsg", log_no_fd |-> "check", log_refused |-> "refused",
   log_accepted |-> "log_connected", log_connected |-> "receive_headers",
   log_request |-> "respond"]

AfterParentLog ==
  [log_round |-> "accept", log_sent |-> "log_round", log_error |-> "log_shutdown",
   log_shutdown |-> "kill", log_killed |-> "stop_logger"]

TypeOK ==
  /\ LoggerTypeOK
  /\ worker \in DOMAIN AfterLog \cup
       {"check", "recvmsg", "SSL_accept", "refused", "receive_headers", "respond", "handle_post",
        "upload", "created", "execute_script", "keep_alive", "announce", "ended", "dead"}
  /\ parent \in DOMAIN AfterParentLog \cup
       {"accept", "kill", "waitpid", "stop_logger", "wait_logger", "done"}
  /\ {should_stop, left, available} \subseteq BOOLEAN
  /\ client \in [is_open : BOOLEAN, ssl : {"none", "handshake", "live", "freed", "corrupt"}]
  /\ request \in 0 .. Len(dialogue)
  /\ Range(answers) \subseteq Kinds
  /\ pair \subseteq {"descriptor", "end of file"}

Init ==
  /\ LoggerInit
  /\ worker = "check"
  /\ should_stop = FALSE
  /\ client = [is_open |-> FALSE, ssl |-> "none"]
  /\ request = 0
  /\ remainder = <<>> /\ curlength = 0 /\ file = <<>>
  /\ dialogue = <<>> /\ asked = 0 /\ wire = <<>> /\ answers = <<>> /\ left = FALSE
  /\ parent = "log_round" /\ pair = {} /\ available = TRUE /\ passed = 0

-------------------------------------------------------------------------------
(* The client: it asks one thing at a time, reads what it is answered, and may *)
(* leave whenever it likes, with only a part of its request sent.  The rest of *)
(* an answer that is cut off it waits for.                                     *)

AnswerCut == "cut answer" \in Range(answers)

Ask ==
  /\ client.ssl = "live"
  /\ ~left
  /\ asked = Len(answers)
  /\ ~AnswerCut
  /\ asked < Len(dialogue)
  /\ asked' = asked + 1
  /\ wire' = wire \o Request(asked + 1)
  /\ UNCHANGED <<worker, should_stop, client, request, upload_vars, dialogue, answers, left,
                 parent_vars, logger_vars>>

Leave ==
  /\ client.is_open
  /\ ~left
  /\ left' = TRUE
  /\ \E n \in 0 .. Len(wire) : wire' = SubSeq(wire, 1, n)
  /\ UNCHANGED <<worker, should_stop, client, request, upload_vars, dialogue, asked, answers,
                 parent_vars, logger_vars>>

-------------------------------------------------------------------------------
(* The worker.                                                                 *)

Goes(from, to) == worker = from /\ worker' = to

WorkerLogs ==
  /\ worker \in DOMAIN AfterLog
  /\ mq_send
  /\ worker' = AfterLog[worker]
  /\ UNCHANGED <<should_stop, client, request, upload_vars, client_vars, parent_vars,
                 logger, logger_stop>>

CheckStop ==
  /\ Goes("check", IF should_stop THEN "ended" ELSE "log_waiting")
  /\ UNCHANGED <<should_stop, client, request, upload_vars, client_vars, parent_vars, logger_vars>>

(* recv_fd: a connection, or the end of file, which is no control message.     *)
RecvFd ==
  /\ \/ /\ "descriptor" \in pair
        /\ Goes("recvmsg", "SSL_accept")
        /\ pair' = pair \ {"descriptor"}
        /\ client' = [is_open |-> TRUE, ssl |-> "handshake"]
     \/ /\ pair = {"end of file"}
        /\ Goes("recvmsg", "log_no_fd")
        /\ UNCHANGED <<pair, client>>
  /\ UNCHANGED <<should_stop, request, upload_vars, client_vars, parent, available, passed, logger_vars>>

(* The constructor of Client.                                                  *)
Accept ==
  /\ \/ Goes("SSL_accept", "log_accepted") /\ client' = [client EXCEPT !.ssl = "live"]
     \/ Goes("SSL_accept", "log_refused") /\ UNCHANGED client
  /\ UNCHANGED <<should_stop, request, upload_vars, client_vars, parent_vars, logger_vars>>

\* Mutant of close: without the test of _is_open.
close_Always(c) ==
  [is_open |-> FALSE, ssl |-> IF c.ssl \in {"handshake", "live"} THEN "freed" ELSE "corrupt"]

(* Client::close of the object c: SSL_free and close of the socket.            *)
close(c) ==
  IF ~c.is_open THEN c
  ELSE [is_open |-> FALSE, ssl |-> IF c.ssl \in {"handshake", "live"} THEN "freed" ELSE "corrupt"]

Refused ==
  /\ Goes("refused", "announce")
  /\ client' = close(client)
  /\ UNCHANGED <<should_stop, request, upload_vars, client_vars, parent_vars, logger_vars>>

(* What SSL_read gives: the first n parts, at most size of them.               *)
Arrives(n, size) == n \in 1 .. Len(wire) /\ n <= size

HungUp == wire = <<>> /\ left

\* Mutant of Unparsed: the Request object of the last round is used again.
Unparsed_Last == request

(* The number of a Request object to which nothing has been parsed.            *)
Unparsed == 0

(* The request whose headers the part ends; parse keeps its fields.            *)
parse(part) == part.of

(* map::at throws in parse, if the first line does not begin with a method.    *)
Throws(read, i) == read[1].is # "head" \/ dialogue[parse(read[i])].asks = "unknown"

(* receive_headers and Request::parse.  Without a blank line in what one read  *)
(* gives the request keeps the fields of a new one, and _type no value at all. *)
ReceiveHeaders ==
  /\ worker = "receive_headers"
  /\ \E n \in 1 .. BufferSize :
       LET read   == SubSeq(wire, 1, n)
           blanks == {i \in DOMAIN read : read[i].is = "end"}
       IN /\ Arrives(n, BufferSize)
          /\ wire' = SubSeq(wire, n + 1, Len(wire))
          /\ \/ /\ blanks = {}
                /\ worker' = "log_request"
                /\ request' = Unparsed
                /\ remainder' = <<>>
             \/ \E i \in blanks :
                /\ \A j \in blanks : i <= j
                /\ remainder' = SubSeq(read, i + 1, n)
                /\ IF Throws(read, i)
                     THEN worker' = "dead" /\ UNCHANGED request
                     ELSE worker' = "log_request" /\ request' = parse(read[i])
  /\ UNCHANGED <<should_stop, client, curlength, file, dialogue, asked, answers, left,
                 parent_vars, logger_vars>>

(* SSL_read fails: receive_headers closes, and so does its caller.             *)
GivesUp ==
  /\ Goes("receive_headers", "announce")
  /\ client' = close(close(client))
  /\ UNCHANGED <<request, upload_vars, client_vars, pair, available, passed, logger_vars>>

PeerCloses == HungUp /\ GivesUp /\ UNCHANGED <<should_stop, parent>>

(* Client::send of an answer, whether the client is still there or not.        *)
Send(kind) == answers' = Append(answers, kind)

(* Everything but POST is answered like GET, without a path by the index.      *)
asks == IF request = 0 THEN "root" ELSE dialogue[request].asks

keep_alive == request # 0 /\ dialogue[request].keep_alive

(* Where the worker calls SSL_write, and SSL_shutdown, which writes too.       *)
Writing ==
  \/ worker \in {"created", "execute_script"}
  \/ worker = "respond" /\ asks \notin {"POST", "script"}

Closing ==
  \/ worker = "receive_headers" /\ HungUp
  \/ worker = "keep_alive" /\ ~keep_alive

(* SIGPIPE, when the client has closed its socket.                             *)
BrokenPipe ==
  /\ left
  /\ Writing \/ Closing
  /\ worker' = "dead"
  /\ UNCHANGED <<should_stop, client, request, upload_vars, client_vars, parent_vars, logger_vars>>

(* The value of _type in a request that was not parsed is undefined: unless it *)
(* is that of a method, map::at throws; POST leads to a search in an empty     *)
(* remainder, whose result is not looked at.                                   *)
DiesUnparsed ==
  /\ request = 0
  /\ worker \in {"log_request", "respond"}
  /\ worker' = "dead"
  /\ UNCHANGED <<should_stop, client, request, upload_vars, client_vars, parent_vars, logger_vars>>

PageFor(a) == CASE a = "page" -> "page" [] a = "missing" -> "not found" [] OTHER -> "index"

Respond ==
  /\ \/ asks = "POST" /\ Goes("respond", "handle_post") /\ UNCHANGED answers
     \/ asks = "script" /\ Goes("respond", "execute_script") /\ UNCHANGED answers
     \/ /\ asks \notin {"POST", "script"}
        /\ Goes("respond", "keep_alive")
        /\ Send(PageFor(asks))
  /\ UNCHANGED <<should_stop, client, request, upload_vars, dialogue, asked, wire, left,
                 parent_vars, logger_vars>>

(* execute_script: fork, and the output until the pipe's end; or no answer at  *)
(* all, when pipe fails.                                                       *)
ExecuteScript ==
  /\ Goes("execute_script", "keep_alive")
  /\ Send("output") \/ UNCHANGED answers
  /\ UNCHANGED <<should_stop, client, request, upload_vars, dialogue, asked, wire, left,
                 parent_vars, logger_vars>>

\* Mutant of FirstLength: the part's header is counted twice.
FirstLength_Twice == Len(remainder) + 1

\* Mutant of FirstLength: the part's header is not counted.
FirstLength_DataOnly == Len(remainder) - 1

(* curlength after the parts of the body that came with the headers.           *)
FirstLength == Len(remainder)

(* The beginning of handle_post: what follows the part's header is written,    *)
(* the closing boundary included.  The header has to have come with those of   *)
(* the request: the search for it is not looked at, and the process dies.      *)
HandlePost ==
  /\ \/ remainder = <<>> /\ Goes("handle_post", "dead") /\ UNCHANGED <<file, curlength>>
     \/ /\ remainder # <<>>
        /\ Goes("handle_post", "upload")
        /\ file' = file \o Tail(remainder)
        /\ curlength' = FirstLength
  /\ UNCHANGED <<should_stop, client, request, remainder, client_vars, parent_vars, logger_vars>>

Expects == worker = "upload" /\ curlength < Len(Body(request))

\* Mutant of Written: a read that holds the closing boundary is not written.
Written_NotLast(read) == IF \E i \in DOMAIN read : read[i].is = "boundary" THEN <<>> ELSE read

(* Of a read with the closing boundary handle_post leaves out the end.         *)
Written(read) == IF \E i \in DOMAIN read : read[i].is = "boundary" THEN Front(read) ELSE read

(* One round of the loop of handle_post, or its end.  With the boundary found  *)
(* it searches on in what filebuf held before, which is undefined: if that     *)
(* looks like the header of one more part, the process may die of it.          *)
Upload ==
  /\ \/ \E n \in 1 .. FilebufSize :
          LET read == SubSeq(wire, 1, n) IN
          /\ Expects
          /\ Arrives(n, FilebufSize)
          /\ wire' = SubSeq(wire, n + 1, Len(wire))
          /\ file' = file \o Written(read)
          /\ curlength' = curlength + n
          /\ \/ Goes("upload", "upload")
             \/ read[n].is = "boundary" /\ Goes("upload", "dead")
     \/ /\ Goes("upload", "created")
        /\ Expects => HungUp
        /\ UNCHANGED <<wire, file, curlength>>
  /\ UNCHANGED <<should_stop, client, request, remainder, dialogue, asked, answers, left,
                 parent_vars, logger_vars>>

(* The answer is 201 in any case; "cut upload" tells the 201 to an upload that *)
(* SIGQUIT, or the client itself, has cut off.                                 *)
Created ==
  /\ Goes("created", "keep_alive")
  /\ Send(IF curlength < Len(Body(request)) THEN "cut upload" ELSE "created")
  /\ UNCHANGED <<should_stop, client, request, upload_vars, dialogue, asked, wire, left,
                 parent_vars, logger_vars>>

KeepAlive ==
  /\ IF keep_alive
       THEN Goes("keep_alive", "log_connected") /\ UNCHANGED client
       ELSE Goes("keep_alive", "announce") /\ client' = close(client)
  /\ UNCHANGED <<should_stop, request, upload_vars, client_vars, parent_vars, logger_vars>>

Announce ==
  /\ Goes("announce", "check")
  /\ available' = TRUE
  /\ UNCHANGED <<should_stop, client, request, upload_vars, client_vars, parent, pair, passed,
                 logger_vars>>

WorkerStep ==
  \/ CheckStop \/ RecvFd \/ Accept \/ Refused
  \/ ReceiveHeaders \/ PeerCloses \/ DiesUnparsed \/ BrokenPipe \/ Respond \/ ExecuteScript
  \/ HandlePost \/ Upload \/ Created \/ KeepAlive \/ Announce

-------------------------------------------------------------------------------
(* The parent.                                                                 *)

ParentGoes(from, to) == parent = from /\ parent' = to

ParentLogs ==
  /\ parent \in DOMAIN AfterParentLog
  /\ mq_send
  /\ parent' = AfterParentLog[parent]
  /\ UNCHANGED <<worker, should_stop, client, request, upload_vars, client_vars,
                 pair, available, passed, logger, logger_stop>>

(* accept, and the hand-over to the worker that has announced itself.          *)
PassConnection ==
  /\ ParentGoes("accept", "log_sent")
  /\ available
  /\ available' = FALSE
  /\ passed < MaxConnections
  /\ passed' = passed + 1
  /\ pair' = pair \cup {"descriptor"}
  /\ dialogue' \in Dialogues
  /\ asked' = 0 /\ wire' = <<>> /\ answers' = <<>> /\ left' = FALSE
  /\ request' = 0 /\ remainder' = <<>> /\ curlength' = 0 /\ file' = <<>>
  /\ UNCHANGED <<worker, should_stop, client, logger_vars>>

(* SIGINT while it waits in accept.  HttpServer has the other moments.         *)
Sigint ==
  /\ ParentGoes("accept", "log_error")
  /\ UNCHANGED <<worker, should_stop, client, request, upload_vars, client_vars,
                 pair, available, passed, logger_vars>>

(* The worker's end of SIGQUIT: EINTR in a call in which the worker sleeps, in *)
(* SSL_write too, when the client does not read and the socket's buffer is     *)
(* full: nobody looks at its result.  What is on the wire may still be on its  *)
(* way then.                                                                   *)
Interrupted ==
  \/ /\ \/ worker \in DOMAIN AfterLog /\ Full /\ worker' = AfterLog[worker]
        \/ pair = {} /\ Goes("recvmsg", "log_no_fd")
        \/ Goes("SSL_accept", "log_refused")
        \/ Expects /\ Goes("upload", "created")
        \/ left /\ Goes("receive_headers", "dead")
     /\ UNCHANGED <<client, request, upload_vars, client_vars>>
  \/ Goes("receive_headers", "announce")
       /\ client' = close(close(client))
       /\ UNCHANGED <<request, upload_vars, client_vars>>
  \/ Goes("execute_script", "keep_alive")
       /\ Send("cut output")
       /\ UNCHANGED <<client, request, upload_vars, dialogue, asked, wire, left>>
  \/ /\ Writing
     /\ worker' = "keep_alive"
     /\ Send("cut answer")
     /\ UNCHANGED <<client, request, upload_vars, dialogue, asked, wire, left>>

\* Mutant of ClosedPair: the parent's end stays open.
ClosedPair_Not == pair

ClosedPair == pair \cup {"end of file"}

(* One round of the shutdown: the parent closes its end of the pair and sends  *)
(* SIGQUIT, whose handler runs in the worker wherever that is.                 *)
Kill ==
  /\ ParentGoes("kill", "waitpid")
  /\ pair' = ClosedPair
  /\ should_stop' = TRUE
  /\ \/ UNCHANGED <<worker, client, request, upload_vars, client_vars>>
     \/ Interrupted
  /\ UNCHANGED <<available, passed, logger_vars>>

\* Mutant of WorkerEnded: the parent does not wait for the worker.
WorkerEnded_Unchecked == TRUE

WorkerEnded == worker \in {"ended", "dead"}

Waitpid ==
  /\ ParentGoes("waitpid", "log_killed")
  /\ WorkerEnded
  /\ UNCHANGED <<worker, should_stop, client, request, upload_vars, client_vars,
                 pair, available, passed, logger_vars>>

(* One second later the parent stops the logger and waits for it.              *)
StopLogger ==
  /\ ParentGoes("stop_logger", "wait_logger")
  /\ SigquitLogger
  /\ UNCHANGED <<worker, should_stop, client, request, upload_vars, client_vars,
                 pair, available, passed>>

WaitLogger ==
  /\ ParentGoes("wait_logger", "done")
  /\ logger = "ended"
  /\ UNCHANGED <<worker, should_stop, client, request, upload_vars, client_vars,
                 pair, available, passed, logger_vars>>

ParentStep == ParentLogs \/ PassConnection \/ Kill \/ Waitpid \/ StopLogger \/ WaitLogger

-------------------------------------------------------------------------------
LoggerRuns ==
  LoggerStep /\ UNCHANGED <<worker, should_stop, client, request, upload_vars, client_vars, parent_vars>>

Next == Ask \/ Leave \/ WorkerLogs \/ WorkerStep \/ ParentStep \/ Sigint \/ LoggerRuns

Spec == Init /\ [][Next]_vars

(* The operating system runs every process that can run, and mq_send of one    *)
(* that waits for room returns some day although others send too.              *)
Fairness ==
  /\ SF_vars(WorkerLogs)
  /\ WF_vars(WorkerStep)
  /\ SF_vars(ParentLogs)
  /\ WF_vars(Kill \/ Waitpid \/ StopLogger \/ WaitLogger)
  /\ WF_vars(LoggerRuns)

FairSpec == Spec /\ Fairness

-------------------------------------------------------------------------------
(* Properties.                                                                 *)

UsesSsl == {"SSL_accept", "receive_headers", "respond", "execute_script", "handle_post", "upload",
            "created"}

(* The TLS session is freed once, whichever of the constructor, receive_headers *)
(* and the loop closes it, no call uses it after that, and the worker takes    *)
(* the next connection only when it has freed the last one's.                  *)
SessionsEndOnce ==
  /\ client.ssl # "corrupt"
  /\ worker \in UsesSsl => client.is_open /\ client.ssl \in {"handshake", "live"}
  /\ worker \in {"announce", "check", "recvmsg", "ended"} => client.ssl \in {"none", "freed"}

(* A keep-alive connection stays in step: receive_headers begins to read where *)
(* a request begins, however the parts of the ones before were split over      *)
(* reads and whatever curlength has counted, unless SIGQUIT cut an upload off. *)
UploadCut == "cut upload" \in Range(answers)
CutOff == should_stop /\ UploadCut

InStep ==
  worker = "receive_headers" /\ wire # <<>> /\ ~CutOff => wire[1].is = "head"

StoredAt(i, p) ==
  \A k \in 1 .. dialogue[i].data : p + k \in DOMAIN file /\ file[p + k] = Data(i)[k]

Before(x, y) == x.of < y.of \/ (x.of = y.of /\ x.number < y.number)

(* An upload for which 201 was written after curlength had counted all of it   *)
(* is in the file in one piece, with no part of its data missing, and nothing  *)
(* in the file is doubled or out of order.  The 201 of an upload that was cut  *)
(* off says nothing.                                                           *)
UploadsAreStored ==
  /\ \A i \in DOMAIN answers :
       answers[i] = "created" => \E p \in 0 .. Len(file) : StoredAt(i, p)
  /\ \A j, k \in DOMAIN file :
       j < k /\ file[j].is = "data" /\ file[k].is = "data" => Before(file[j], file[k])

(* The answer to each request is the one it asks for.  Only a request that was *)
(* not parsed gets the index instead, as the last answer of the connection.    *)
(* SIGQUIT may cut the output of a script, which is answered as if it were all *)
(* of it; any answer, of which the client gets a part and then no other        *)
(* answer; or an upload, after which the connection is out of step, and has at *)
(* most one more answer, which nobody has asked for.                           *)
Expected(a) == CASE a = "POST" -> "created" [] a = "script" -> "output" [] OTHER -> PageFor(a)

Fits(i) ==
  \/ answers[i] = "index" /\ request = 0 /\ i = Len(answers)
  \/ answers[i] = "cut answer" /\ should_stop /\ i = Len(answers)
  \/ answers[i] = "cut output" /\ should_stop /\ dialogue[i].asks = "script"
  \/ answers[i] = "cut upload" /\ (should_stop \/ left) /\ dialogue[i].asks = "POST"
  \/ answers[i] = Expected(dialogue[i].asks)

AnswersFit ==
  /\ ~CutOff => Len(answers) <= asked
  /\ \A i \in DOMAIN answers : Fits(i)

(* Whoever waits for room in /logger is heard: the logger is told to stop only *)
(* after the worker has ended and the parent has sent its last line.           *)
SendersAreHeard ==
  worker \in DOMAIN AfterLog \/ parent \in DOMAIN AfterParentLog =>
    ~logger_stop /\ logger # "ended"

(* The inductive invariant behind these.  Types: every part on its way belongs *)
(* to a request that has been asked.                                           *)
Parts == [of : Nat, is : {"head", "end", "part", "data", "boundary"}, number : Nat]
AskedParts == {x \in Parts : x.of \in 1 .. asked}

DataTypes ==
  /\ dialogue \in Dialogues \cup {<<>>}
  /\ asked \in 0 .. Len(dialogue) /\ asked <= Len(answers) + 1
  /\ {wire, remainder, file} \subseteq Seq(AskedParts)
  /\ answers \in Seq(Kinds)
  /\ request \in 0 .. asked
  /\ curlength \in Nat

(* The Client object is open just while the worker talks to its client.        *)
Between == {"check", "log_waiting", "recvmsg", "log_no_fd", "announce", "ended"}
Refusing == {"SSL_accept", "log_refused", "refused"}

Session ==
  /\ client.ssl # "corrupt"
  /\ client.is_open <=> client.ssl \in {"handshake", "live"}
  /\ worker \in Between => ~client.is_open
  /\ worker \in Refusing => client.ssl = "handshake"
  /\ worker \notin Between \cup Refusing \cup {"dead"} => client.ssl = "live"

(* A connection that has just been handed over finds nothing of the last one.  *)
Fresh == asked = 0 /\ wire = <<>> /\ answers = <<>> /\ request = 0

Passing ==
  /\ available \/ "descriptor" \in pair => worker \in Between \ {"announce"}
  /\ available => "descriptor" \notin pair
  /\ "descriptor" \in pair \/ worker = "SSL_accept" => Fresh

(* What the worker does next fits the request it has parsed.                   *)
OnItsWay ==
  /\ worker \in {"handle_post", "upload", "created"} => request # 0 /\ asks = "POST"
  /\ worker = "execute_script" => asks = "script"
  /\ worker \in {"log_request", "respond"} => asks # "unknown"
  /\ worker = "created" /\ curlength < Len(Body(request)) => left \/ should_stop

(* What is on the wire comes after the first p parts of the last request, and  *)
(* is all that does, if the client has not left.                               *)
Follows(p) ==
  /\ \A k \in DOMAIN wire : p + k <= Len(Request(asked)) /\ wire[k] = Request(asked)[p + k]
  /\ ~left => p + Len(wire) = Len(Request(asked))

Idle ==
  \/ worker \in {"log_accepted", "log_connected", "receive_headers"}
  \/ worker = "keep_alive" /\ request # 0

InTurn ==
  /\ Len(answers) <= asked
  /\ AnswerCut => Len(answers) = asked
  /\ Idle /\ wire # <<>> => Follows(0) /\ Len(answers) < asked
  /\ worker \in {"log_request", "respond", "handle_post", "execute_script", "upload", "created"} =>
       Len(answers) < asked /\ request \in {0, asked}
  /\ worker \in {"log_request", "respond", "handle_post"} /\ request # 0 =>
       /\ Follows(2 + Len(remainder))
       /\ \A k \in DOMAIN remainder :
            2 + k <= Len(Request(asked)) /\ remainder[k] = Request(asked)[2 + k]
  /\ worker = "execute_script" => wire = <<>>
  /\ worker = "upload" => Follows(2 + curlength)
  /\ worker = "created" =>
       \/ wire = <<>> /\ (left \/ curlength = Len(Body(request)))
       \/ should_stop /\ curlength < Len(Body(request)) /\ Follows(2 + curlength)

(* Of the upload in work the file holds, from p on, what has been read; the    *)
(* boundary may be left out.                                                   *)
Uploaded(p) ==
  /\ \A j \in DOMAIN file :
       IF j <= p THEN file[j].of < request
       ELSE j - p + 1 <= Len(Body(request)) /\ file[j] = Body(request)[j - p + 1]
  /\ \/ Len(file) = p + curlength - 1
     \/ Len(file) = p + curlength - 2 /\ curlength = Len(Body(request))

Storing ==
  /\ Idle /\ wire # <<>> => \A j \in DOMAIN file : file[j].of < asked
  /\ worker \in {"log_request", "respond", "handle_post"} /\ request # 0 =>
       \A j \in DOMAIN file : file[j].of < asked
  /\ worker \in {"upload", "created"} => \E p \in 0 .. Len(file) : Uploaded(p)

(* An index that stands for another answer is the connection's last.           *)
NotParsed ==
  (\E i \in DOMAIN answers :
     answers[i] = "index" /\ ~(i <= asked /\ dialogue[i].asks = "root"))
    => request = 0 /\ (worker \in {"keep_alive", "dead"} \/ ~client.is_open)

(* After an upload that was cut off no request is parsed any more: the client  *)
(* has gone, or what comes next is the rest of the upload.                     *)
Astray ==
  UploadCut /\ client.is_open /\ worker # "dead" =>
    /\ ~AnswerCut
    /\ \/ should_stop /\ request = 0 /\ worker \in {"log_request", "respond", "keep_alive"}
       \/ Idle /\ IF wire = <<>> THEN left ELSE should_stop /\ wire[1].is # "head"

(* The parent goes on to the logger when the worker has ended, and there is    *)
(* one SIGQUIT.                                                                *)
Ending ==
  /\ parent \in {"log_killed", "stop_logger", "wait_logger", "done"} => WorkerEnded
  /\ should_stop <=> parent \in {"waitpid", "log_killed", "stop_logger", "wait_logger", "done"}
  /\ logger_stop => parent \in {"wait_logger", "done"}
  /\ logger = "ended" => logger_stop

IInv ==
  /\ TypeOK /\ DataTypes
  /\ Session /\ Passing /\ OnItsWay
  /\ ~UploadCut => InTurn /\ Storing
  /\ NotParsed /\ Astray /\ AnswersFit /\ UploadsAreStored
  /\ Ending

(* A client that has asked gets its answer, or the connection closed, if the   *)
(* process does not die: it never waits for a worker that waits for it.  Only  *)
(* a script is sometimes not answered, when pipe fails; and when SIGQUIT has   *)
(* cut an answer on a connection that is kept alive, the worker waits for the  *)
(* next request and the client for the rest.                                   *)
Answered == asked = Len(answers) /\ ~AnswerCut

WaitsForTheRest == AnswerCut /\ should_stop /\ dialogue[asked].keep_alive

RequestsEnd ==
  asked > Len(answers) /\ dialogue[asked].asks # "script"
    ~> Answered \/ WaitsForTheRest \/ ~client.is_open \/ worker = "dead"

(* The shutdown gets past the worker, wherever SIGQUIT finds it, if the client *)
(* leaves some day.                                                            *)
WorkerIsReaped ==
  WF_vars(Leave) => (parent = "waitpid" ~> parent = "stop_logger")
===============================================================================
