-------------------------- MODULE HttpConnectionProofs --------------------------
(*******************************************************************************)
(* Proofs about HttpConnection, for any dialogues, buffers and log, any number *)
(* of connections and any way the reads split what the clients send.           *)
(*******************************************************************************)
EXTENDS HttpConnection, CommonLemmas

-------------------------------------------------------------------------------
(* The calls of mq_send, one after the other.                                  *)

LEMMA LogLabels ==
  /\ DOMAIN AfterLog = {"log_waiting", "log_no_fd", "log_refused", "log_accepted",
                        "log_connected", "log_request"}
  /\ AfterLog["log_waiting"] = "recvmsg" /\ AfterLog["log_no_fd"] = "check"
  /\ AfterLog["log_refused"] = "refused" /\ AfterLog["log_accepted"] = "log_connected"
  /\ AfterLog["log_connected"] = "receive_headers" /\ AfterLog["log_request"] = "respond"
BY DEF AfterLog

LEMMA ParentLogLabels ==
  /\ DOMAIN AfterParentLog = {"log_round", "log_sent", "log_error", "log_shutdown", "log_killed"}
  /\ AfterParentLog["log_round"] = "accept" /\ AfterParentLog["log_sent"] = "log_round"
  /\ AfterParentLog["log_error"] = "log_shutdown" /\ AfterParentLog["log_shutdown"] = "kill"
  /\ AfterParentLog["log_killed"] = "stop_logger"
BY DEF AfterParentLog

-------------------------------------------------------------------------------
(* The session.                                                                *)

(* Closing twice does what closing once does, and frees the session once.      *)
LEMMA CloseOnce ==
  ASSUME Session, client \in [is_open : BOOLEAN, ssl : {"none", "handshake", "live", "freed", "corrupt"}]
  PROVE  /\ close(close(client)) = close(client)
         /\ ~close(client).is_open
         /\ close(client).ssl \in {"none", "freed"}
         /\ close(client) \in [is_open : BOOLEAN, ssl : {"none", "handshake", "live", "freed", "corrupt"}]
BY DEF close, Session

(* The client object with its session established.                             *)
LEMMA SessionIsLive ==
  ASSUME client \in [is_open : BOOLEAN, ssl : {"none", "handshake", "live", "freed", "corrupt"}],
         client' = [client EXCEPT !.ssl = "live"]
  PROVE  /\ client'.is_open = client.is_open
         /\ client'.ssl = "live"
         /\ client' \in [is_open : BOOLEAN, ssl : {"none", "handshake", "live", "freed", "corrupt"}]
OBVIOUS

LEMMA SessionNext ==
  ASSUME TypeOK, Session, [Next]_vars
  PROVE  Session'
<1> USE LogLabels
<1>0. client \in [is_open : BOOLEAN, ssl : {"none", "handshake", "live", "freed", "corrupt"}]
  BY DEF TypeOK
<1>1. CASE UNCHANGED <<worker, client>>
  BY <1>1 DEF Session
<1>2. CASE WorkerLogs
  BY <1>2 DEF WorkerLogs, Session, Between, Refusing
<1>3. CASE CheckStop
  BY <1>3 DEF CheckStop, Goes, Session, Between, Refusing
<1>4. CASE RecvFd
  <2>1. CASE client' = [is_open |-> TRUE, ssl |-> "handshake"] /\ Goes("recvmsg", "SSL_accept")
    <3>1. client'.is_open = TRUE /\ client'.ssl = "handshake"
      BY <2>1
    <3>2. QED
      BY <2>1, <3>1 DEF Goes, Session, Between, Refusing
  <2>2. CASE Goes("recvmsg", "log_no_fd") /\ UNCHANGED client
    BY <2>2 DEF Goes, Session, Between, Refusing
  <2>3. QED
    BY <1>4, <2>1, <2>2 DEF RecvFd
<1>5. CASE Accept
  <2>1. CASE client' = [client EXCEPT !.ssl = "live"] /\ Goes("SSL_accept", "log_accepted")
    <3>1. client'.is_open = client.is_open /\ client'.ssl = "live"
      BY <1>0, <2>1, SessionIsLive
    <3>2. QED
      BY <2>1, <3>1 DEF Goes, Session, Between, Refusing
  <2>2. CASE Goes("SSL_accept", "log_refused") /\ UNCHANGED client
    BY <2>2 DEF Goes, Session, Between, Refusing
  <2>3. QED
    BY <1>5, <2>1, <2>2 DEF Accept
<1>6. CASE Refused \/ PeerCloses
  BY <1>0, <1>6, CloseOnce DEF Refused, PeerCloses, GivesUp, Goes, Session, Between, Refusing
<1>7. CASE DiesUnparsed \/ BrokenPipe \/ Respond \/ ExecuteScript
  BY <1>7 DEF DiesUnparsed, BrokenPipe, Writing, Closing, Respond, ExecuteScript, Goes,
              Session, Between, Refusing
<1>12. CASE ReceiveHeaders
  <2>1. worker = "receive_headers" /\ worker' \in {"log_request", "dead"} /\ UNCHANGED client
    BY <1>12 DEF ReceiveHeaders
  <2>2. QED
    BY <2>1 DEF Session, Between, Refusing
<1>8. CASE HandlePost \/ Upload \/ Created \/ Announce
  BY <1>8 DEF HandlePost, Upload, Created, Announce, Goes, Session, Between, Refusing
<1>9. CASE KeepAlive
  BY <1>0, <1>9, CloseOnce DEF KeepAlive, Goes, Session, Between, Refusing
<1>10. CASE Kill
  <2>1. CASE UNCHANGED <<worker, client>>
    BY <2>1 DEF Session
  <2>2. CASE Interrupted
    BY <1>0, <2>2, CloseOnce DEF Interrupted, Writing, Goes, Session, Between, Refusing
  <2>3. QED
    BY <1>10, <2>1, <2>2 DEF Kill
<1>11. QED
  BY <1>1, <1>2, <1>3, <1>4, <1>5, <1>6, <1>7, <1>8, <1>9, <1>10, <1>12
     DEF Next, WorkerStep, ParentStep, Ask, Leave, ParentLogs, PassConnection, Waitpid, StopLogger,
         WaitLogger, Sigint, LoggerRuns, vars

-------------------------------------------------------------------------------
(* The end of the worker and of the logger.                                    *)

LEMMA EndedStays ==
  ASSUME WorkerEnded, [Next]_vars
  PROVE  WorkerEnded'
<1> USE LogLabels DEF WorkerEnded
<1>1. CASE UNCHANGED worker
  BY <1>1
<1>2. CASE WorkerStep \/ WorkerLogs
  BY <1>2 DEF WorkerStep, WorkerLogs, CheckStop, RecvFd, Accept, Refused, ReceiveHeaders, PeerCloses,
              GivesUp, DiesUnparsed, BrokenPipe, Writing, Closing, Respond, ExecuteScript, HandlePost,
              Upload, Created, KeepAlive, Announce, Goes
<1>3. CASE Kill
  BY <1>3 DEF Kill, Interrupted, Writing, Goes, Expects
<1>4. QED
  BY <1>1, <1>2, <1>3
     DEF Next, ParentStep, Ask, Leave, ParentLogs, PassConnection, Waitpid, StopLogger,
         WaitLogger, Sigint, LoggerRuns, vars

LEMMA EndingNext ==
  ASSUME TypeOK, Ending, [Next]_vars
  PROVE  Ending'
<1> USE ParentLogLabels DEF Ending
<1>1. WorkerEnded => WorkerEnded'
  BY EndedStays
<1>2. CASE UNCHANGED <<parent, should_stop, logger_vars>>
  BY <1>1, <1>2 DEF logger_vars
<1>3. CASE ParentLogs
  BY <1>1, <1>3 DEF ParentLogs
<1>4. CASE PassConnection \/ Kill \/ Waitpid \/ StopLogger \/ WaitLogger \/ Sigint
  BY <1>1, <1>4 DEF PassConnection, Kill, Waitpid, StopLogger, WaitLogger, Sigint, ParentGoes,
                    SigquitLogger, logger_vars
<1>5. CASE LoggerRuns
  BY <1>1, <1>5 DEF LoggerRuns, LoggerStep, CheckLogger, ReceiveLine, WriteLine, parent_vars
<1>6. CASE WorkerLogs
  BY <1>1, <1>6 DEF WorkerLogs, parent_vars
<1>7. QED
  BY <1>2, <1>3, <1>4, <1>5, <1>6
     DEF Next, WorkerStep, ParentStep, Ask, Leave, CheckStop, RecvFd, Accept, Refused, ReceiveHeaders,
         PeerCloses, GivesUp, DiesUnparsed, BrokenPipe, Respond, ExecuteScript, HandlePost, Upload,
         Created, KeepAlive, Announce, vars, parent_vars, logger_vars

-------------------------------------------------------------------------------
(* What clients send.                                                          *)

LEMMA DialogueTypes ==
  ASSUME DataTypes
  PROVE  /\ dialogue \in Seq(Requests)
         /\ Len(dialogue) \in Nat
         /\ asked \in Nat /\ request \in Nat /\ curlength \in Nat
         /\ \A i \in 1 .. asked : i \in 1 .. Len(dialogue) /\ dialogue[i] \in Requests
         /\ wire \in Seq(AskedParts) /\ remainder \in Seq(AskedParts) /\ file \in Seq(AskedParts)
<1>1. dialogue \in Seq(Requests)
  BY ConnectionAssumption, EmptySeq DEF DataTypes
<1>2. Len(dialogue) \in Nat
  BY <1>1, LenProperties
<1>3. \A i \in 1 .. asked : i \in 1 .. Len(dialogue)
  BY <1>2 DEF DataTypes
<1>4. QED
  BY <1>1, <1>2, <1>3, ElementOfSeq DEF DataTypes

(* The parts of a body: the part's header, the numbered data, the boundary.    *)
LEMMA BodyParts ==
  ASSUME dialogue \in Seq(Requests), NEW i \in 1 .. Len(dialogue)
  PROVE  /\ Body(i) \in Seq(Parts) /\ Len(Body(i)) \in Nat
         /\ dialogue[i].asks # "POST" => Len(Body(i)) = 0
         /\ dialogue[i].asks = "POST" =>
              /\ Len(Body(i)) = dialogue[i].data + 2
              /\ Body(i)[1].is = "part"
              /\ Body(i)[Len(Body(i))].is = "boundary"
              /\ \A k \in 1 .. dialogue[i].data : Body(i)[1 + k] = Data(i)[k]
         /\ \A k \in 1 .. Len(Body(i)) : Body(i)[k].of = i /\ Body(i)[k].is \notin {"head", "end"}
         /\ \A k \in 1 .. Len(Body(i)) : Body(i)[k].is = "boundary" => k = Len(Body(i))
         /\ \A k \in 1 .. Len(Body(i)) :
              Body(i)[k].is = "data" => Body(i)[k] = [of |-> i, is |-> "data", number |-> k - 1]
<1>1. dialogue[i] \in Requests /\ i \in Nat /\ Len(dialogue) \in Nat
  BY ElementOfSeq, LenProperties
<1>2. dialogue[i].data \in Nat
  BY <1>1 DEF Requests
<1>3. /\ Part(i, "part") \in Parts /\ Part(i, "part").is = "part" /\ Part(i, "part").of = i
      /\ Part(i, "boundary") \in Parts /\ Part(i, "boundary").is = "boundary"
      /\ Part(i, "boundary").of = i
  BY <1>1 DEF Part, Parts
<1>4. /\ Data(i) \in Seq(Parts) /\ Len(Data(i)) = dialogue[i].data
      /\ \A k \in 1 .. dialogue[i].data :
           Data(i)[k] = [of |-> i, is |-> "data", number |-> k]
  <2>1. \A k \in 1 .. dialogue[i].data :
          [of |-> i, is |-> "data", number |-> k] \in Parts
    BY <1>1, <1>2 DEF Parts
  <2>2. Data(i) \in [1 .. dialogue[i].data -> Parts]
    BY <2>1 DEF Data
  <2>3. Data(i) \in Seq(Parts)
    BY <1>2, <2>2, SeqDef
  <2>4. Len(Data(i)) = dialogue[i].data
    BY <1>2, <2>2, <2>3, LenProperties
  <2>5. QED
    BY <2>3, <2>4 DEF Data
<1>5. CASE dialogue[i].asks # "POST"
  <2>1. Body(i) = <<>>
    BY <1>5 DEF Body
  <2>2. QED
    BY <1>5, <2>1, EmptySeq
<1>6. CASE dialogue[i].asks = "POST"
  <2>1. Body(i) = <<Part(i, "part")>> \o Data(i) \o <<Part(i, "boundary")>>
    BY <1>6 DEF Body
  <2>2. /\ Body(i) \in Seq(Parts)
        /\ Len(Body(i)) = Len(Data(i)) + 2
        /\ Body(i)[1] = Part(i, "part")
        /\ \A k \in 1 .. Len(Data(i)) : Body(i)[1 + k] = Data(i)[k]
        /\ Body(i)[Len(Data(i)) + 2] = Part(i, "boundary")
    <3>1. /\ Data(i) \in Seq(Parts)
          /\ Part(i, "part") \in Parts /\ Part(i, "boundary") \in Parts
      BY <1>3, <1>4
    <3>2. QED
      BY <2>1, <3>1, Framed
  <2>3. ASSUME NEW k \in 1 .. Len(Body(i))
        PROVE  /\ Body(i)[k].of = i /\ Body(i)[k].is \notin {"head", "end"}
               /\ Body(i)[k].is = "boundary" => k = Len(Body(i))
               /\ Body(i)[k].is = "data" => Body(i)[k] = [of |-> i, is |-> "data", number |-> k - 1]
    <3>1. k = 1 \/ k = Len(Body(i)) \/ \E l \in 1 .. dialogue[i].data : k = 1 + l
      <4>1. k - 1 \in 1 .. dialogue[i].data \/ k = 1 \/ k = dialogue[i].data + 2
        BY <1>2, <1>4, <2>2
      <4>2. QED
        BY <1>4, <2>2, <4>1
    <3>2. CASE k = 1 \/ k = Len(Body(i))
      <4>1. Body(i)[k] = Part(i, "part") \/ (Body(i)[k] = Part(i, "boundary") /\ k = Len(Body(i)))
        BY <1>2, <1>4, <2>2, <3>2
      <4>2. QED
        BY <1>3, <4>1
    <3>3. ASSUME NEW l \in 1 .. dialogue[i].data, k = 1 + l
          PROVE  Body(i)[k] = [of |-> i, is |-> "data", number |-> k - 1]
      <4>1. Body(i)[k] = [of |-> i, is |-> "data", number |-> l]
        BY <1>2, <1>4, <2>2, <3>3
      <4>2. l = k - 1
        BY <1>2, <3>3
      <4>3. QED
        BY <4>1, <4>2
    <3>4. QED
      BY <3>1, <3>2, <3>3
  <2>4. Len(Body(i)) = dialogue[i].data + 2 /\ Len(Body(i)) \in Nat
    BY <1>2, <1>4, <2>2
  <2>5. Body(i)[1].is = "part" /\ Body(i)[Len(Body(i))].is = "boundary"
    BY <1>3, <2>2
  <2>6. \A k \in 1 .. dialogue[i].data : Body(i)[1 + k] = Data(i)[k]
    BY <1>4, <2>2
  <2>7. QED
    BY <1>6, <2>2, <2>3, <2>4, <2>5, <2>6
<1>7. QED
  BY <1>5, <1>6

LEMMA RequestParts ==
  ASSUME dialogue \in Seq(Requests), NEW i \in 1 .. Len(dialogue)
  PROVE  /\ Request(i) \in Seq(Parts)
         /\ Len(Request(i)) = 2 + Len(Body(i)) /\ Len(Body(i)) \in Nat
         /\ Request(i)[1].is = "head" /\ Request(i)[2].is = "end"
         /\ \A k \in 1 .. Len(Body(i)) : Request(i)[2 + k] = Body(i)[k]
         /\ \A k \in 1 .. Len(Request(i)) : Request(i)[k].of = i
         /\ \A k \in 1 .. Len(Request(i)) : Request(i)[k].is = "end" <=> k = 2
<1>1. i \in Nat
  BY LenProperties
<1>2. /\ Body(i) \in Seq(Parts) /\ Len(Body(i)) \in Nat
      /\ \A k \in 1 .. Len(Body(i)) : Body(i)[k].of = i /\ Body(i)[k].is # "end"
  BY BodyParts
<1>3. /\ Part(i, "head") \in Parts /\ Part(i, "head").is = "head" /\ Part(i, "head").of = i
      /\ Part(i, "end") \in Parts /\ Part(i, "end").is = "end" /\ Part(i, "end").of = i
  BY <1>1 DEF Part, Parts
<1>4. ASSUME NEW h \in Seq(Parts), Len(h) = 2, NEW b \in Seq(Parts)
      PROVE  /\ h \o b \in Seq(Parts)
             /\ Len(h \o b) = 2 + Len(b) /\ Len(b) \in Nat
             /\ (h \o b)[1] = h[1] /\ (h \o b)[2] = h[2]
             /\ \A k \in 1 .. Len(b) : (h \o b)[2 + k] = b[k]
  <2>1. /\ h \o b \in Seq(Parts)
        /\ Len(h \o b) = Len(h) + Len(b) /\ Len(b) \in Nat
        /\ \A k \in 1 .. Len(h) : (h \o b)[k] = h[k]
        /\ \A k \in 1 .. Len(b) : (h \o b)[Len(h) + k] = b[k]
    BY Joined
  <2>2. 1 \in 1 .. Len(h) /\ 2 \in 1 .. Len(h)
    BY <1>4
  <2>3. QED
    BY <1>4, <2>1, <2>2
<1>5. /\ <<Part(i, "head"), Part(i, "end")>> \in Seq(Parts)
      /\ Len(<<Part(i, "head"), Part(i, "end")>>) = 2
      /\ <<Part(i, "head"), Part(i, "end")>>[1] = Part(i, "head")
      /\ <<Part(i, "head"), Part(i, "end")>>[2] = Part(i, "end")
  BY <1>3
<1>6. Request(i) = <<Part(i, "head"), Part(i, "end")>> \o Body(i)
  BY DEF Request
<1>7. /\ Request(i) \in Seq(Parts)
      /\ Len(Request(i)) = 2 + Len(Body(i))
      /\ Request(i)[1] = Part(i, "head") /\ Request(i)[2] = Part(i, "end")
      /\ \A k \in 1 .. Len(Body(i)) : Request(i)[2 + k] = Body(i)[k]
  BY <1>2, <1>4, <1>5, <1>6
<1>8. ASSUME NEW k \in 1 .. Len(Request(i))
      PROVE  Request(i)[k].of = i /\ (Request(i)[k].is = "end" <=> k = 2)
  <2>1. k = 1 \/ k = 2 \/ (k - 2 \in 1 .. Len(Body(i)) /\ 2 + (k - 2) = k /\ k # 2)
    BY <1>2, <1>7
  <2>2. CASE k - 2 \in 1 .. Len(Body(i)) /\ 2 + (k - 2) = k /\ k # 2
    BY <1>2, <1>7, <2>2
  <2>3. CASE k = 1 \/ k = 2
    BY <1>3, <1>7, <2>3
  <2>4. QED
    BY <2>1, <2>2, <2>3
<1>9. QED
  BY <1>2, <1>3, <1>7, <1>8

(* Requests stay what they are while their client has the connection.          *)
LEMMA SameRequests ==
  ASSUME UNCHANGED dialogue
  PROVE  /\ UNCHANGED asked => Request(asked)' = Request(asked)
         /\ asked' = asked + 1 => Request(asked)' = Request(asked + 1)
         /\ UNCHANGED request => Body(request)' = Body(request) /\ asks' = asks
         /\ request' = asked => Body(request)' = Body(asked)
BY DEF Request, Body, Data, Part, asks

-------------------------------------------------------------------------------
(* What a step does to a connection: most steps only take the worker on.       *)

Kept == UNCHANGED <<request, upload_vars, client_vars>>

Moves ==
  \/ worker' = worker
  \/ worker' \in Between \cup {"dead"}
  \/ worker \in Between \cup Refusing /\ worker' \in Refusing
  \/ worker = "SSL_accept" /\ worker' = "log_accepted"
  \/ worker \in {"log_accepted", "log_connected"} /\ worker' \in {"log_connected", "receive_headers"}
  \/ worker = "log_request" /\ worker' = "respond"
  \/ worker = "respond" /\ asks = "POST" /\ worker' = "handle_post"
  \/ worker = "respond" /\ asks = "script" /\ worker' = "execute_script"
  \/ worker = "execute_script" /\ worker' = "keep_alive"
  \/ worker = "upload" /\ worker' = "created" /\ (Expects => HungUp \/ should_stop')
  \/ worker = "keep_alive" /\ request # 0 /\ worker' = "log_connected"

StartsUpload ==
  /\ worker = "handle_post" /\ worker' = "upload"
  /\ remainder # <<>>
  /\ file' = file \o Tail(remainder)
  /\ curlength' = Len(remainder)
  /\ UNCHANGED <<request, remainder, client_vars>>

ReadsOn(n) ==
  /\ worker = "upload" /\ worker' \in {"upload", "dead"}
  /\ Expects
  /\ n \in 1 .. Len(wire)
  /\ wire' = SubSeq(wire, n + 1, Len(wire))
  /\ file' = file \o Written(SubSeq(wire, 1, n))
  /\ curlength' = curlength + n
  /\ UNCHANGED <<request, remainder, dialogue, asked, answers, left>>

Answers(kind) ==
  /\ worker' = "keep_alive"
  /\ Send(kind)
  /\ UNCHANGED <<request, upload_vars, dialogue, asked, wire, left>>
  /\ \/ worker = "respond" /\ asks \notin {"POST", "script"} /\ kind = PageFor(asks)
     \/ worker = "execute_script" /\ kind = "output"
     \/ worker = "execute_script" /\ kind = "cut output" /\ should_stop'
     \/ worker = "created" /\ kind = "cut upload" /\ curlength < Len(Body(request))
     \/ worker = "created" /\ kind = "created" /\ ~(curlength < Len(Body(request)))
     \/ Writing /\ kind = "cut answer" /\ parent = "kill" /\ should_stop'

LEMMA NextCases ==
  ASSUME [Next]_vars
  PROVE  /\ \/ Kept /\ Moves
            \/ Ask \/ Leave \/ PassConnection \/ ReceiveHeaders \/ StartsUpload
            \/ \E n \in Nat : ReadsOn(n)
            \/ \E kind : Answers(kind)
         /\ should_stop => should_stop'
<1> USE LogLabels DEF Kept
<1>1. CASE UNCHANGED vars
  BY <1>1 DEF vars, Moves
<1>2. CASE Ask \/ Leave
  BY <1>2 DEF Ask, Leave
<1>3. CASE WorkerLogs
  BY <1>3 DEF WorkerLogs, Moves, Between, Refusing
<1>4. CASE CheckStop \/ RecvFd \/ Accept \/ Refused \/ PeerCloses
  <2>1. /\ Kept /\ UNCHANGED should_stop
        /\ \/ worker' \in {"ended", "log_waiting", "log_no_fd", "announce"}
           \/ worker \in {"recvmsg", "SSL_accept"} /\ worker' \in {"SSL_accept", "log_refused"}
           \/ worker = "SSL_accept" /\ worker' = "log_accepted"
    <3>1. CASE CheckStop \/ Refused \/ PeerCloses
      BY <3>1 DEF CheckStop, Refused, PeerCloses, GivesUp, Goes
    <3>2. CASE RecvFd
      BY <3>2, Zenon DEF RecvFd, Goes
    <3>3. CASE Accept
      BY <3>3, Zenon DEF Accept, Goes
    <3>4. QED
      BY <1>4, <3>1, <3>2, <3>3
  <2>2. QED
    BY <2>1 DEF Moves, Between, Refusing
<1>5. CASE ReceiveHeaders
  BY <1>5 DEF ReceiveHeaders
<1>6. CASE DiesUnparsed \/ BrokenPipe \/ KeepAlive \/ Announce
  BY <1>6 DEF DiesUnparsed, BrokenPipe, KeepAlive, keep_alive, Announce, Goes, Moves, Between
<1>7. CASE Respond
  <2>1. CASE asks = "POST" /\ Goes("respond", "handle_post") /\ UNCHANGED answers
    BY <1>7, <2>1 DEF Respond, Goes, Moves, client_vars
  <2>2. CASE asks = "script" /\ Goes("respond", "execute_script") /\ UNCHANGED answers
    BY <1>7, <2>2 DEF Respond, Goes, Moves, client_vars
  <2>3. CASE asks \notin {"POST", "script"} /\ Goes("respond", "keep_alive") /\ Send(PageFor(asks))
    <3>1. Answers(PageFor(asks))
      BY <1>7, <2>3 DEF Respond, Goes, Answers
    <3>2. QED
      BY <1>7, <3>1 DEF Respond
  <2>4. QED
    BY <1>7, <2>1, <2>2, <2>3 DEF Respond
<1>8. CASE ExecuteScript
  <2>1. CASE Send("output")
    <3>1. Answers("output")
      BY <1>8, <2>1 DEF ExecuteScript, Goes, Answers
    <3>2. QED
      BY <1>8, <3>1 DEF ExecuteScript
  <2>2. CASE UNCHANGED answers
    BY <1>8, <2>2 DEF ExecuteScript, Goes, Moves, client_vars
  <2>3. QED
    BY <1>8, <2>1, <2>2 DEF ExecuteScript
<1>9. CASE HandlePost
  <2>1. CASE Goes("handle_post", "dead") /\ UNCHANGED <<file, curlength>>
    BY <1>9, <2>1 DEF HandlePost, Goes, Moves, upload_vars
  <2>2. CASE Goes("handle_post", "upload")
    BY <1>9, <2>2 DEF HandlePost, Goes, StartsUpload, FirstLength
  <2>3. QED
    BY <1>9, <2>1, <2>2 DEF HandlePost
<1>10. CASE Upload
  <2>1. ASSUME NEW n \in 1 .. FilebufSize,
               Expects,
               Arrives(n, FilebufSize),
               wire' = SubSeq(wire, n + 1, Len(wire)),
               file' = file \o Written(SubSeq(wire, 1, n)),
               curlength' = curlength + n,
               Goes("upload", "upload") \/ Goes("upload", "dead"),
               UNCHANGED <<should_stop, request, remainder, dialogue, asked, answers, left>>
        PROVE  n \in Nat /\ ReadsOn(n)
    BY <2>1 DEF ReadsOn, Goes, Arrives
  <2>2. CASE Goes("upload", "created") /\ (Expects => HungUp) /\ UNCHANGED <<wire, file, curlength>>
    BY <1>10, <2>2 DEF Upload, Goes, Moves, upload_vars, client_vars
  <2>3. QED
    BY <1>10, <2>1, <2>2 DEF Upload
<1>11. CASE Created
  <2>1. Answers(IF curlength < Len(Body(request)) THEN "cut upload" ELSE "created")
    BY <1>11 DEF Created, Goes, Answers
  <2>2. QED
    BY <1>11, <2>1 DEF Created
<1>12. CASE ParentLogs \/ Waitpid \/ StopLogger \/ WaitLogger \/ Sigint \/ LoggerRuns
  BY <1>12 DEF ParentLogs, Waitpid, StopLogger, WaitLogger, Sigint, LoggerRuns, Moves
<1>13. CASE PassConnection
  BY <1>13 DEF PassConnection
<1>14. CASE Kill
  <2>1. should_stop'
    BY <1>14 DEF Kill
  <2>2. CASE UNCHANGED <<worker, client, request, upload_vars, client_vars>>
    BY <2>1, <2>2 DEF Moves
  <2>3. CASE Interrupted
    <3>1. CASE UNCHANGED <<request, upload_vars, client_vars>> /\ worker' # "keep_alive"
      BY <2>1, <2>3, <3>1 DEF Interrupted, Goes, Moves, Between, Refusing, Expects
    <3>2. CASE /\ Goes("execute_script", "keep_alive")
               /\ Send("cut output")
               /\ UNCHANGED <<client, request, upload_vars, dialogue, asked, wire, left>>
      <4>1. Answers("cut output")
        BY <2>1, <3>2 DEF Goes, Answers
      <4>2. QED
        BY <2>1, <4>1
    <3>4. CASE /\ Writing
               /\ worker' = "keep_alive"
               /\ Send("cut answer")
               /\ UNCHANGED <<client, request, upload_vars, dialogue, asked, wire, left>>
      <4>1. Answers("cut answer")
        BY <1>14, <2>1, <3>4 DEF Kill, ParentGoes, Answers
      <4>2. QED
        BY <2>1, <4>1
    <3>3. QED
      BY <2>3, <3>1, <3>2, <3>4 DEF Interrupted, Goes
  <2>4. QED
    BY <1>14, <2>2, <2>3 DEF Kill
<1>15. QED
  BY <1>1, <1>2, <1>3, <1>4, <1>5, <1>6, <1>7, <1>8, <1>9, <1>10, <1>11, <1>12, <1>13, <1>14
     DEF Next, WorkerStep, ParentStep

-------------------------------------------------------------------------------
(* Types.                                                                      *)

LEMMA SeqGrows ==
  ASSUME NEW S, NEW T, S \subseteq T
  PROVE  Seq(S) \subseteq Seq(T)
OBVIOUS

(* A sequence of parts of requests that have been asked.                       *)
LEMMA OfAsked ==
  ASSUME NEW n \in Nat, NEW s \in Seq(Parts), \A k \in 1 .. Len(s) : s[k].of \in 1 .. n
  PROVE  s \in Seq({x \in Parts : x.of \in 1 .. n})
<1>1. \A k \in 1 .. Len(s) : s[k] \in {x \in Parts : x.of \in 1 .. n}
  BY ElementOfSeq
<1>2. QED
  BY <1>1, LenProperties

LEMMA WrittenParts ==
  ASSUME NEW S, NEW r \in Seq(S), Len(r) # 0
  PROVE  /\ Written(r) \in Seq(S)
         /\ \A k \in 1 .. Len(Written(r)) : Written(r)[k] = r[k]
         /\ Len(Written(r)) \in Nat /\ Len(Written(r)) <= Len(r)
         /\ IF \E k \in 1 .. Len(r) : r[k].is = "boundary"
              THEN Len(Written(r)) = Len(r) - 1 ELSE Len(Written(r)) = Len(r)
<1>1. Len(r) \in Nat /\ Len(r) - 1 \in 0 .. Len(r) /\ DOMAIN r = 1 .. Len(r)
  BY LenProperties
<1>2. /\ Front(r) \in Seq(S) /\ Len(Front(r)) = Len(r) - 1
      /\ \A k \in 1 .. Len(r) - 1 : Front(r)[k] = r[k]
  BY <1>1, CutInTwo DEF Front
<1>3. Written(r) = IF \E k \in 1 .. Len(r) : r[k].is = "boundary" THEN Front(r) ELSE r
  BY <1>1 DEF Written
<1>4. CASE \E k \in 1 .. Len(r) : r[k].is = "boundary"
  <2>1. Written(r) = Front(r)
    BY <1>3, <1>4
  <2>2. /\ Written(r) \in Seq(S) /\ Len(Written(r)) = Len(r) - 1
        /\ \A k \in 1 .. Len(r) - 1 : Written(r)[k] = r[k]
    BY <1>2, <2>1
  <2>3. Len(r) - 1 \in Nat /\ Len(r) - 1 <= Len(r)
    BY <1>1
  <2>4. QED
    BY <1>4, <2>2, <2>3
<1>5. CASE ~(\E k \in 1 .. Len(r) : r[k].is = "boundary")
  <2>1. Written(r) = r
    BY <1>3, <1>5
  <2>2. QED
    BY <1>1, <1>5, <2>1
<1>6. QED
  BY <1>4, <1>5

LEMMA AsksTypes ==
  ASSUME DataTypes
  PROVE  /\ asks \in {"POST", "script", "page", "missing", "root", "unknown"}
         /\ request = 0 => asks = "root"
         /\ request # 0 => request \in 1 .. Len(dialogue) /\ asks = dialogue[request].asks
<1>1. request # 0 => request \in 1 .. Len(dialogue) /\ dialogue[request] \in Requests
  BY DialogueTypes DEF DataTypes
<1>2. request # 0 => dialogue[request].asks \in {"POST", "script", "page", "missing", "root", "unknown"}
  BY <1>1 DEF Requests
<1>3. QED
  BY <1>1, <1>2 DEF asks

LEMMA Pages ==
  /\ PageFor("page") = "page" /\ PageFor("missing") = "not found" /\ PageFor("root") = "index"
  /\ PageFor("unknown") = "index"
  /\ Expected("POST") = "created" /\ Expected("script") = "output"
  /\ \A a \in {"page", "missing", "root", "unknown"} : Expected(a) = PageFor(a)
BY DEF PageFor, Expected

LEMMA DataTypesNext ==
  ASSUME TypeOK, DataTypes, [Next]_vars
  PROVE  DataTypes'
<1>1. CASE Kept
  BY <1>1 DEF Kept, upload_vars, client_vars, DataTypes, AskedParts
<1>2. CASE Ask
  <2>1. /\ asked + 1 \in 1 .. Len(dialogue) /\ asked \in Nat
        /\ dialogue \in Seq(Requests)
    BY <1>2, DialogueTypes DEF Ask, DataTypes
  <2>2. /\ asked' = asked + 1 /\ wire' = wire \o Request(asked + 1)
        /\ UNCHANGED <<dialogue, request, remainder, curlength, file, answers>>
        /\ asked = Len(answers)
    BY <1>2 DEF Ask, upload_vars
  <2>3. AskedParts' = {x \in Parts : x.of \in 1 .. asked + 1}
    BY <2>2 DEF AskedParts
  <2>4. Request(asked + 1) \in Seq(Parts)
        /\ \A k \in 1 .. Len(Request(asked + 1)) : Request(asked + 1)[k].of = asked + 1
    BY <2>1, RequestParts
  <2>5. Request(asked + 1) \in Seq(AskedParts')
    <3>1. asked + 1 \in Nat
          /\ \A k \in 1 .. Len(Request(asked + 1)) : Request(asked + 1)[k].of \in 1 .. asked + 1
      BY <2>1, <2>4
    <3>2. QED
      BY <2>3, <2>4, <3>1, OfAsked
  <2>6. AskedParts \subseteq AskedParts'
    BY <2>1, <2>3 DEF AskedParts, Parts
  <2>7. {wire, remainder, file} \subseteq Seq(AskedParts')
    BY <2>6, SeqGrows DEF DataTypes
  <2>8. wire' \in Seq(AskedParts')
    BY <2>2, <2>5, <2>7, Joined
  <2>9. QED
    BY <2>1, <2>2, <2>7, <2>8 DEF DataTypes
<1>3. CASE Leave
  <2>1. \A n \in 0 .. Len(wire) : SubSeq(wire, 1, n) \in Seq(AskedParts)
    BY CutInTwo, DialogueTypes
  <2>2. wire' \in Seq(AskedParts)
    BY <1>3, <2>1 DEF Leave
  <2>3. QED
    BY <1>3, <2>2 DEF Leave, upload_vars, DataTypes, AskedParts
<1>4. CASE PassConnection
  <2>1. dialogue' \in Seq(Requests) /\ Len(dialogue') \in Nat
    BY <1>4, ConnectionAssumption DEF PassConnection
  <2>2. QED
    BY <1>4, <2>1, EmptySeq DEF PassConnection, DataTypes
<1>5. CASE ReceiveHeaders
  <2>1. PICK n \in 1 .. BufferSize :
          /\ n \in 1 .. Len(wire)
          /\ wire' = SubSeq(wire, n + 1, Len(wire))
          /\ \/ request' = 0 /\ remainder' = <<>>
             \/ \E i \in DOMAIN SubSeq(wire, 1, n) :
                  /\ request' = SubSeq(wire, 1, n)[i].of \/ UNCHANGED request
                  /\ remainder' = SubSeq(SubSeq(wire, 1, n), i + 1, n)
    BY <1>5 DEF ReceiveHeaders, Arrives, Unparsed, parse
  <2> DEFINE read == SubSeq(wire, 1, n)
  <2>2. /\ read \in Seq(AskedParts) /\ Len(read) = n /\ DOMAIN read = 1 .. n
        /\ wire' \in Seq(AskedParts)
    BY <2>1, DialogueTypes, CutInTwo
  <2> HIDE DEF read
  <2>4. ASSUME NEW i \in 1 .. n, request' = read[i].of \/ UNCHANGED request,
               remainder' = SubSeq(read, i + 1, n)
        PROVE  request' \in 0 .. asked /\ remainder' \in Seq(AskedParts)
    <3>1. read[i] \in AskedParts
      BY <2>2, <2>4, ElementOfSeq
    <3>2. read[i].of \in 1 .. asked
      BY <3>1 DEF AskedParts
    <3>3. i \in 0 .. Len(read)
      BY <2>1, <2>2
    <3>4. SubSeq(read, i + 1, n) \in Seq(AskedParts)
      BY <2>2, <3>3, CutInTwo
    <3>5. request \in 0 .. asked
      BY DEF DataTypes
    <3>6. QED
      BY <2>4, <3>2, <3>4, <3>5, DialogueTypes
  <2>5. request' \in 0 .. asked /\ remainder' \in Seq(AskedParts)
    <3>1. \/ request' = 0 /\ remainder' = <<>>
          \/ \E i \in 1 .. n : /\ request' = read[i].of \/ UNCHANGED request
                               /\ remainder' = SubSeq(read, i + 1, n)
      BY <2>1, <2>2 DEF read
    <3>2. CASE request' = 0 /\ remainder' = <<>>
      BY <3>2, DialogueTypes, EmptySeq
    <3>3. QED
      BY <2>4, <3>1, <3>2
  <2>6. QED
    BY <1>5, <2>2, <2>5 DEF ReceiveHeaders, DataTypes, AskedParts
<1>6. CASE StartsUpload
  <2>1. Tail(remainder) \in Seq(AskedParts) /\ Len(remainder) \in Nat
    BY <1>6, DialogueTypes, QueueTypes DEF StartsUpload
  <2>2. file \o Tail(remainder) \in Seq(AskedParts)
    BY <2>1, DialogueTypes, Joined
  <2>3. QED
    BY <1>6, <2>1, <2>2 DEF StartsUpload, client_vars, DataTypes, AskedParts
<1>7. ASSUME NEW n \in Nat, ReadsOn(n)
      PROVE  DataTypes'
  <2>1. n \in 0 .. Len(wire) /\ n # 0 /\ Len(wire) \in Nat
    BY <1>7, DialogueTypes, LenProperties DEF ReadsOn
  <2>2. SubSeq(wire, 1, n) \in Seq(AskedParts) /\ Len(SubSeq(wire, 1, n)) # 0
        /\ SubSeq(wire, n + 1, Len(wire)) \in Seq(AskedParts)
    BY <2>1, DialogueTypes, CutInTwo
  <2>3. Written(SubSeq(wire, 1, n)) \in Seq(AskedParts)
    BY <2>2, WrittenParts
  <2>4. file \o Written(SubSeq(wire, 1, n)) \in Seq(AskedParts)
    BY <2>3, DialogueTypes, Joined
  <2>5. QED
    BY <1>7, <2>2, <2>4 DEF ReadsOn, DataTypes, AskedParts
<1>8. ASSUME NEW kind, Answers(kind)
      PROVE  DataTypes'
  <2>1. kind \in Kinds
    <3>1. asks \notin {"POST", "script"} => PageFor(asks) \in Kinds
      BY AsksTypes, Pages DEF Kinds
    <3>2. QED
      BY <1>8, <3>1 DEF Answers, Kinds
  <2>2. answers \in Seq(Kinds) /\ Len(answers) \in Nat
    BY LenProperties DEF DataTypes
  <2>3. Append(answers, kind) \in Seq(Kinds) /\ Len(Append(answers, kind)) = Len(answers) + 1
    BY <2>1, <2>2, QueueTypes
  <2>4. answers' \in Seq(Kinds) /\ Len(answers') = Len(answers) + 1
    BY <1>8, <2>2, <2>3 DEF Answers, Send
  <2>5. asked <= Len(answers') + 1
    BY <2>2, <2>4, DialogueTypes DEF DataTypes
  <2>6. QED
    BY <1>8, <2>4, <2>5 DEF Answers, upload_vars, DataTypes, AskedParts
<1>9. QED
  BY <1>1, <1>2, <1>3, <1>4, <1>5, <1>6, <1>7, <1>8, NextCases

(* Which steps change what else there is.                                      *)
LEMMA Frames ==
  ASSUME [Next]_vars
  PROVE  /\ WorkerLogs \/ ParentLogs \/ LoggerRuns \/ StopLogger \/ UNCHANGED logger_vars
         /\ \/ ParentLogs \/ PassConnection \/ Kill \/ Waitpid \/ StopLogger \/ WaitLogger \/ Sigint
            \/ UNCHANGED parent
         /\ RecvFd \/ PassConnection \/ Kill \/ UNCHANGED pair
         /\ Announce \/ PassConnection \/ UNCHANGED available
         /\ RecvFd \/ Accept \/ Refused \/ PeerCloses \/ KeepAlive \/ Kill \/ UNCHANGED client
         /\ Kill \/ UNCHANGED should_stop
         /\ Leave \/ PassConnection \/ UNCHANGED left
<1>1. CASE UNCHANGED vars
  BY <1>1 DEF vars, parent_vars, client_vars
<1>2. CASE Ask \/ Leave
  BY <1>2 DEF Ask, Leave, parent_vars
<1>3. CASE WorkerLogs \/ ParentLogs \/ LoggerRuns
  BY <1>3 DEF WorkerLogs, ParentLogs, LoggerRuns, parent_vars, client_vars
<1>4. CASE CheckStop \/ RecvFd \/ Accept \/ Refused \/ ReceiveHeaders \/ PeerCloses \/ DiesUnparsed
           \/ BrokenPipe
  BY <1>4 DEF CheckStop, RecvFd, Accept, Refused, ReceiveHeaders, PeerCloses, GivesUp, DiesUnparsed,
              BrokenPipe, parent_vars, client_vars
<1>5. CASE Respond \/ ExecuteScript \/ HandlePost \/ Upload \/ Created \/ KeepAlive \/ Announce
  BY <1>5 DEF Respond, ExecuteScript, HandlePost, Upload, Created, KeepAlive, Announce, parent_vars,
              client_vars
<1>6. CASE PassConnection
  BY <1>6 DEF PassConnection
<1>7. CASE Waitpid \/ StopLogger \/ WaitLogger \/ Sigint
  BY <1>7 DEF Waitpid, StopLogger, WaitLogger, Sigint, client_vars
<1>8. CASE Kill
  <2>1. UNCHANGED left
    BY <1>8 DEF Kill, Interrupted, client_vars
  <2>2. QED
    BY <1>8, <2>1 DEF Kill
<1>9. QED
  BY <1>1, <1>2, <1>3, <1>4, <1>5, <1>6, <1>7, <1>8 DEF Next, WorkerStep, ParentStep

LEMMA ClientTypes ==
  ASSUME TypeOK, Session, [Next]_vars
  PROVE  client' \in [is_open : BOOLEAN, ssl : {"none", "handshake", "live", "freed", "corrupt"}]
<1>1. client \in [is_open : BOOLEAN, ssl : {"none", "handshake", "live", "freed", "corrupt"}]
  BY DEF TypeOK
<1>2. CASE UNCHANGED client
  BY <1>1, <1>2
<1>3. CASE RecvFd
  <2>1. client' = [is_open |-> TRUE, ssl |-> "handshake"] \/ UNCHANGED client
    BY <1>3, Zenon DEF RecvFd
  <2>2. [is_open |-> TRUE, ssl |-> "handshake"] \in
          [is_open : BOOLEAN, ssl : {"none", "handshake", "live", "freed", "corrupt"}]
    OBVIOUS
  <2>3. QED
    BY <1>1, <2>1, <2>2
<1>4. CASE Accept
  BY <1>1, <1>4, SessionIsLive DEF Accept
<1>5. CASE Refused \/ PeerCloses \/ KeepAlive
  BY <1>1, <1>5, CloseOnce DEF Refused, PeerCloses, GivesUp, KeepAlive
<1>6. CASE Kill
  BY <1>1, <1>6, CloseOnce DEF Kill, Interrupted
<1>7. QED
  BY <1>2, <1>3, <1>4, <1>5, <1>6, Frames

LEMMA LogTypes ==
  ASSUME TypeOK, [Next]_vars
  PROVE  LoggerTypeOK'
<1> USE LogAssumption DEF LoggerTypeOK
<1>1. LoggerTypeOK
  BY DEF TypeOK
<1>2. CASE UNCHANGED logger_vars
  BY <1>1, <1>2 DEF logger_vars
<1>3. CASE WorkerLogs \/ ParentLogs
  BY <1>1, <1>3 DEF WorkerLogs, ParentLogs, mq_send, Full
<1>4. CASE LoggerRuns
  BY <1>1, <1>4 DEF LoggerRuns, LoggerStep, CheckLogger, ReceiveLine, WriteLine
<1>5. CASE StopLogger
  BY <1>1, <1>5 DEF StopLogger, SigquitLogger
<1>6. QED
  BY <1>2, <1>3, <1>4, <1>5, Frames

LEMMA TypeOKNext ==
  ASSUME TypeOK, DataTypes, Session, [Next]_vars
  PROVE  TypeOK'
<1> USE LogLabels, ParentLogLabels
<1>1. worker' \in DOMAIN AfterLog \cup
         {"check", "recvmsg", "SSL_accept", "refused", "receive_headers", "respond", "handle_post",
          "upload", "created", "execute_script", "keep_alive", "announce", "ended", "dead"}
  <2>1. CASE Ask \/ Leave \/ PassConnection
    BY <2>1 DEF Ask, Leave, PassConnection, TypeOK
  <2>2. CASE Moves
    BY <2>2 DEF Moves, Between, Refusing, TypeOK
  <2>3. CASE ReceiveHeaders \/ StartsUpload \/ (\E n \in Nat : ReadsOn(n)) \/ \E kind : Answers(kind)
    BY <2>3 DEF ReceiveHeaders, Goes, StartsUpload, ReadsOn, Answers
  <2>4. QED
    BY <2>1, <2>2, <2>3, NextCases
<1>2. parent' \in DOMAIN AfterParentLog \cup
        {"accept", "kill", "waitpid", "stop_logger", "wait_logger", "done"}
  <2>1. CASE ParentLogs
    BY <2>1 DEF ParentLogs
  <2>2. CASE PassConnection \/ Kill \/ Waitpid \/ StopLogger \/ WaitLogger \/ Sigint
    BY <2>2 DEF PassConnection, Kill, Waitpid, StopLogger, WaitLogger, Sigint, ParentGoes
  <2>3. CASE UNCHANGED parent
    BY <2>3 DEF TypeOK
  <2>4. QED
    BY <2>1, <2>2, <2>3, Frames
<1>3. should_stop' \in BOOLEAN /\ left' \in BOOLEAN /\ available' \in BOOLEAN
  BY Frames DEF TypeOK, Kill, Leave, PassConnection, Announce
<1>4. pair' \subseteq {"descriptor", "end of file"}
  <2>1. pair' \subseteq pair \cup {"descriptor", "end of file"}
    <3>1. CASE RecvFd
      BY <3>1, Zenon DEF RecvFd
    <3>2. CASE PassConnection \/ Kill \/ UNCHANGED pair
      BY <3>2 DEF PassConnection, Kill, ClosedPair
    <3>3. QED
      BY <3>1, <3>2, Frames
  <2>2. QED
    BY <2>1 DEF TypeOK
<1>5. DataTypes'
  BY DataTypesNext
<1>6. request' \in 0 .. Len(dialogue')
  <2>1. request' \in 0 .. asked' /\ asked' \in 0 .. Len(dialogue')
    BY <1>5 DEF DataTypes
  <2>2. QED
    BY <2>1
<1>7. \A x \in Range(answers') : x \in Kinds
  BY <1>5, QueueTypes DEF DataTypes, Range
<1>8. QED
  BY <1>1, <1>2, <1>3, <1>4, <1>6, <1>7, ClientTypes, LogTypes DEF TypeOK

-------------------------------------------------------------------------------
(* The hand-over, and what the worker does for the request it has parsed.      *)

LEMMA PassingNext ==
  ASSUME TypeOK, DataTypes, Session, Passing, [Next]_vars
  PROVE  Passing'
<1> USE LogLabels DEF Passing
<1>1. ASSUME UNCHANGED <<pair, available>>, Fresh => Fresh',
             worker' = worker
               \/ (worker' # "SSL_accept" /\ (worker \in Between \ {"announce"} => worker' \in Between \ {"announce"}))
      PROVE  Passing'
  BY <1>1
<1>2. CASE Kept /\ UNCHANGED <<pair, available>> /\ ~RecvFd
  <2>1. Fresh => Fresh'
    BY <1>2 DEF Kept, client_vars, Fresh
  <2>2. worker' = worker
          \/ (worker' # "SSL_accept" /\ (worker \in Between \ {"announce"} => worker' \in Between \ {"announce"}))
    <3>1. CASE UNCHANGED worker
      BY <3>1
    <3>2. CASE WorkerLogs \/ CheckStop \/ Accept \/ Refused \/ PeerCloses \/ DiesUnparsed \/ BrokenPipe
      BY <3>2 DEF WorkerLogs, CheckStop, Accept, Refused, PeerCloses, GivesUp, DiesUnparsed, BrokenPipe,
                  Writing, Closing, Goes, Between
    <3>3. CASE Respond \/ ExecuteScript \/ ReceiveHeaders \/ HandlePost \/ Upload \/ Created \/ KeepAlive
      BY <3>3 DEF Respond, ExecuteScript, ReceiveHeaders, HandlePost, Upload, Created, KeepAlive, Goes,
                  Between
    <3>4. CASE Kill
      BY <3>4 DEF Kill, Interrupted, Writing, Goes, Between, Expects
    <3>5. CASE Announce
      BY <3>5 DEF Announce, Goes, Between
    <3>6. QED
      BY <1>2, <3>1, <3>2, <3>3, <3>4, <3>5
         DEF Next, WorkerStep, ParentStep, Ask, Leave, ParentLogs, PassConnection, Waitpid, StopLogger,
             WaitLogger, Sigint, LoggerRuns, vars
  <2>3. QED
    BY <1>1, <1>2, <2>1, <2>2
<1>3. CASE RecvFd
  <2>1. CASE "descriptor" \in pair /\ Goes("recvmsg", "SSL_accept") /\ pair' = pair \ {"descriptor"}
    <3>1. Fresh'
      BY <1>3, <2>1 DEF RecvFd, client_vars, Fresh
    <3>2. QED
      BY <1>3, <2>1, <3>1 DEF RecvFd, Goes
  <2>2. CASE pair = {"end of file"} /\ Goes("recvmsg", "log_no_fd") /\ UNCHANGED pair
    BY <1>3, <2>2 DEF RecvFd, Goes, Between
  <2>3. QED
    BY <1>3, <2>1, <2>2, Zenon DEF RecvFd
<1>4. CASE Announce
  BY <1>4 DEF Announce, Goes, Between
<1>5. CASE PassConnection
  BY <1>5 DEF PassConnection, Fresh
<1>6. CASE Ask
  BY <1>6 DEF Ask, parent_vars, Session, Between, Refusing
<1>7. CASE Leave
  <2>1. ASSUME Fresh
        PROVE  Fresh'
    <3>1. PICK n \in 0 .. Len(wire) : wire' = SubSeq(wire, 1, n)
      BY <1>7 DEF Leave
    <3>2. wire = <<>> /\ Len(wire) = 0
      BY <2>1, EmptySeq DEF Fresh
    <3>3. wire' \in Seq(AskedParts) /\ Len(wire') = 0
      BY <3>1, <3>2, DialogueTypes, CutInTwo
    <3>4. wire' = <<>>
      BY <3>3, EmptySeq
    <3>5. QED
      BY <1>7, <2>1, <3>4 DEF Leave, Fresh
  <2>2. QED
    BY <1>1, <1>7, <2>1 DEF Leave, parent_vars
<1>8. CASE Kill
  <2>1. worker' = worker
          \/ (worker' # "SSL_accept" /\ (worker \in Between \ {"announce"} => worker' \in Between \ {"announce"}))
    BY <1>8 DEF Kill, Interrupted, Writing, Goes, Between, Expects
  <2>2. Fresh /\ worker' = "SSL_accept" => Fresh'
    BY <1>8 DEF Kill, Interrupted, Writing, Goes, client_vars, Fresh, Expects
  <2>3. Fresh /\ "descriptor" \in pair => Fresh'
    BY <1>8, LogLabels DEF Kill, Interrupted, Writing, Goes, client_vars, Fresh, Expects, Between
  <2>4. "descriptor" \in pair' => "descriptor" \in pair
    BY <1>8 DEF Kill, ClosedPair
  <2>5. QED
    BY <1>8, <2>1, <2>2, <2>3, <2>4 DEF Kill
<1>9. CASE ReceiveHeaders \/ StartsUpload \/ (\E n \in Nat : ReadsOn(n)) \/ \E kind : Answers(kind)
  <2>1. worker \notin Between \cup {"SSL_accept"} /\ worker' \notin Between \cup {"SSL_accept"}
        /\ ~RecvFd /\ ~Announce /\ ~PassConnection
    BY <1>9 DEF ReceiveHeaders, Goes, StartsUpload, ReadsOn, Answers, Writing, Between, RecvFd,
                Announce, PassConnection
  <2>2. QED
    BY <1>8, <2>1, Frames
<1>10. QED
  BY <1>2, <1>3, <1>4, <1>5, <1>6, <1>7, <1>8, <1>9, NextCases, Frames

LEMMA OnItsWayNext ==
  ASSUME TypeOK, DataTypes, OnItsWay, Passing, Session, [Next]_vars
  PROVE  OnItsWay'
<1>1. should_stop => should_stop'
  BY NextCases
<1>2. CASE Kept /\ Moves
  <2>1. UNCHANGED <<request, curlength, left, dialogue, wire>> /\ asks' = asks
        /\ Body(request)' = Body(request)
    BY <1>2, SameRequests DEF Kept, upload_vars, client_vars
  <2>2. asks = "POST" => request # 0
    BY DEF asks
  <2>3. QED
    BY <1>1, <1>2, <2>1, <2>2 DEF OnItsWay, Moves, Between, Refusing, Expects, HungUp
<1>3. CASE Ask \/ Leave
  <2>1. UNCHANGED <<worker, request, curlength, dialogue>> /\ (left => left')
    BY <1>3 DEF Ask, Leave, upload_vars
  <2>2. asks' = asks /\ Body(request)' = Body(request)
    BY <2>1, SameRequests
  <2>3. QED
    BY <1>1, <2>1, <2>2 DEF OnItsWay
<1>4. CASE PassConnection
  <2>1. worker' = worker /\ worker \in Between
    BY <1>4 DEF PassConnection, Passing
  <2>2. QED
    BY <2>1 DEF OnItsWay, Between
<1>5. CASE \E kind : Answers(kind)
  BY <1>5 DEF Answers, OnItsWay
<1>8. CASE ReceiveHeaders
  <2>1. PICK n \in 1 .. BufferSize :
          \/ worker' = "log_request" /\ request' = 0
          \/ worker' = "dead"
          \/ \E i \in DOMAIN SubSeq(wire, 1, n) :
               /\ worker' = "log_request" /\ request' = SubSeq(wire, 1, n)[i].of
               /\ dialogue[SubSeq(wire, 1, n)[i].of].asks # "unknown"
    BY <1>8 DEF ReceiveHeaders, Throws, parse, Unparsed
  <2>2. UNCHANGED dialogue
    BY <1>8 DEF ReceiveHeaders
  <2>3. worker' = "dead" \/ (worker' = "log_request" /\ asks' # "unknown")
    BY <2>1, <2>2 DEF asks
  <2>4. QED
    BY <2>3 DEF OnItsWay
<1>6. CASE StartsUpload \/ \E n \in Nat : ReadsOn(n)
  <2>1. /\ UNCHANGED <<request, dialogue>> /\ worker' \in {"upload", "dead"}
        /\ worker \in {"handle_post", "upload"}
    BY <1>6 DEF StartsUpload, ReadsOn, client_vars
  <2>2. asks' = asks
    BY <2>1, SameRequests
  <2>3. QED
    BY <2>1, <2>2 DEF OnItsWay
<1>7. QED
  BY <1>2, <1>3, <1>4, <1>5, <1>6, <1>8, NextCases

LEMMA AnswerAdded ==
  ASSUME DataTypes, NEW kind \in Kinds, answers' = Append(answers, kind)
  PROVE  /\ Range(answers') = Range(answers) \cup {kind}
         /\ Len(answers') = Len(answers) + 1 /\ Len(answers) \in Nat
         /\ DOMAIN answers = 1 .. Len(answers) /\ DOMAIN answers' = 1 .. Len(answers) + 1
         /\ \A i \in 1 .. Len(answers) : answers'[i] = answers[i]
         /\ answers'[Len(answers) + 1] = kind
<1>1. answers \in Seq(Kinds)
  BY DEF DataTypes
<1>2. QED
  BY <1>1, AppendRange, AppendProperties, LenProperties

LEMMA SentKind ==
  ASSUME DataTypes, NEW kind, Answers(kind)
  PROVE  kind \in Kinds /\ answers' = Append(answers, kind)
<1>1. asks \notin {"POST", "script"} => PageFor(asks) \in Kinds
  BY AsksTypes, Pages DEF Kinds
<1>2. QED
  BY <1>1 DEF Answers, Send, Kinds

(* Only sending an answer changes the answers.                                 *)
LEMMA AnswersChange ==
  ASSUME DataTypes, [Next]_vars, ~PassConnection
  PROVE  \/ UNCHANGED answers
         \/ \E kind \in Kinds : Answers(kind) /\ answers' = Append(answers, kind)
<1>1. ASSUME NEW kind, Answers(kind)
      PROVE  kind \in Kinds /\ answers' = Append(answers, kind)
  BY <1>1, SentKind
<1>2. CASE Kept \/ Ask \/ Leave \/ ReceiveHeaders \/ StartsUpload \/ \E n \in Nat : ReadsOn(n)
  BY <1>2 DEF Kept, client_vars, Ask, Leave, ReceiveHeaders, StartsUpload, ReadsOn
<1>3. QED
  BY <1>1, <1>2, NextCases

(* An upload that was cut off stays so.                                        *)
LEMMA UploadCutStays ==
  ASSUME DataTypes, [Next]_vars, ~PassConnection, UploadCut
  PROVE  UploadCut'
<1>1. CASE UNCHANGED answers
  BY <1>1 DEF UploadCut
<1>2. ASSUME NEW kind \in Kinds, answers' = Append(answers, kind)
      PROVE  UploadCut'
  <2>1. Range(answers') = Range(answers) \cup {kind}
    BY <1>2, AnswerAdded
  <2>2. QED
    BY <2>1 DEF UploadCut
<1>3. QED
  BY <1>1, <1>2, AnswersChange

-------------------------------------------------------------------------------
(* What is on the wire.                                                        *)

LEMMA WireIsAsked ==
  ASSUME DataTypes
  PROVE  /\ Len(wire) \in Nat /\ DOMAIN wire = 1 .. Len(wire)
         /\ wire = <<>> <=> Len(wire) = 0
         /\ wire # <<>> => /\ asked \in 1 .. Len(dialogue)
                           /\ Request(asked) \in Seq(Parts) /\ Len(Request(asked)) \in Nat
<1>1. wire \in Seq(AskedParts)
  BY DialogueTypes
<1>2. Len(wire) \in Nat /\ DOMAIN wire = 1 .. Len(wire) /\ (wire = <<>> <=> Len(wire) = 0)
  BY <1>1, LenProperties, EmptySeq
<1>3. ASSUME wire # <<>>
      PROVE  asked \in 1 .. Len(dialogue)
  <2>1. 1 \in 1 .. Len(wire)
    BY <1>2, <1>3
  <2>2. wire[1].of \in 1 .. asked
    BY <1>1, <2>1, ElementOfSeq DEF AskedParts
  <2>3. QED
    BY <2>2, DialogueTypes DEF DataTypes
<1>4. QED
  BY <1>2, <1>3, DialogueTypes, RequestParts, LenProperties

(* Nothing comes after the last part of a request.                             *)
LEMMA NothingFollows ==
  ASSUME DataTypes, NEW p \in Nat, Follows(p),
         asked \in 1 .. Len(dialogue) => Len(Request(asked)) <= p
  PROVE  wire = <<>>
<1>1. SUFFICES ASSUME wire # <<>>
               PROVE  FALSE
  OBVIOUS
<1>2. 1 \in DOMAIN wire
  BY <1>1, WireIsAsked
<1>3. p + 1 <= Len(Request(asked))
  BY <1>2 DEF Follows
<1>4. QED
  BY <1>1, <1>3, WireIsAsked

(* A request that is no POST has been read when it has been parsed.            *)
LEMMA BodylessIsOver ==
  ASSUME DataTypes, InTurn, worker = "respond", request # 0, asks # "POST"
  PROVE  wire = <<>>
<1>1. request = asked /\ Follows(2 + Len(remainder))
  BY DEF InTurn
<1>2. request \in 1 .. Len(dialogue) /\ dialogue[request].asks # "POST"
  BY AsksTypes
<1>3. Len(Request(request)) = 2 + Len(Body(request)) /\ Len(Body(request)) = 0
  BY <1>2, DialogueTypes, RequestParts, BodyParts
<1>4. 2 + Len(remainder) \in Nat /\ 2 <= 2 + Len(remainder)
  BY DialogueTypes, LenProperties
<1>5. Len(Request(asked)) <= 2 + Len(remainder)
  BY <1>1, <1>3, <1>4
<1>6. QED
  BY <1>1, <1>4, <1>5, NothingFollows

LEMMA InTurnMoves ==
  ASSUME TypeOK, DataTypes, Passing, OnItsWay, InTurn, Kept, Moves, should_stop => should_stop'
  PROVE  InTurn'
<1>1. /\ UNCHANGED <<request, remainder, curlength, dialogue, asked, wire, answers, left>>
      /\ Request(asked)' = Request(asked) /\ Body(request)' = Body(request)
      /\ AnswerCut' <=> AnswerCut
  BY SameRequests DEF Kept, upload_vars, client_vars, AnswerCut
<1> DEFINE Ahead == {"log_request", "respond", "handle_post", "execute_script", "upload", "created"}
<1>2. Len(answers') <= asked' /\ (AnswerCut' => Len(answers') = asked')
  BY <1>1 DEF InTurn
<1>3. CASE worker' = worker
  BY <1>1, <1>3 DEF InTurn, Idle, Follows
<1>4. CASE worker' \in Between \cup Refusing \cup {"dead"}
  BY <1>2, <1>4 DEF InTurn, Idle, Between, Refusing
<1>5. CASE worker \in {"log_request", "respond"} /\ worker' \in {"respond", "handle_post"}
  BY <1>1, <1>2, <1>5 DEF InTurn, Idle, Follows
<1>6. CASE Idle' /\ wire = <<>> /\ worker' \notin Ahead
  BY <1>1, <1>2, <1>6, WireIsAsked DEF InTurn, Follows, Idle
<1>7. CASE Idle /\ Idle' /\ worker' \notin Ahead
  BY <1>1, <1>2, <1>7 DEF InTurn, Follows, Idle
<1>8. CASE worker = "SSL_accept" /\ worker' = "log_accepted"
  <2>1. wire = <<>>
    BY <1>8 DEF Passing, Fresh
  <2>2. QED
    BY <1>6, <1>8, <2>1 DEF Idle
<1>9. CASE worker = "respond" /\ asks = "script" /\ worker' = "execute_script"
  <2>1. request # 0
    BY <1>9 DEF asks
  <2>2. wire = <<>>
    BY <1>9, <2>1, BodylessIsOver
  <2>3. QED
    BY <1>1, <1>2, <1>9, <2>2 DEF InTurn, Idle
<1>10. CASE worker = "execute_script" /\ worker' = "keep_alive"
  <2>1. wire = <<>>
    BY <1>10 DEF InTurn
  <2>2. QED
    BY <1>1, <1>2, <1>10, <2>1, WireIsAsked DEF InTurn, Follows, Idle
<1>11. CASE worker = "upload" /\ worker' = "created" /\ (Expects => HungUp \/ should_stop')
  <2>1. request = asked /\ request \in 1 .. Len(dialogue) /\ Follows(2 + curlength)
        /\ Len(answers) < asked
    BY <1>11, AsksTypes DEF OnItsWay, InTurn
  <2>2. /\ Len(Request(asked)) = 2 + Len(Body(asked)) /\ Len(Body(asked)) \in Nat /\ curlength \in Nat
        /\ Len(wire) \in Nat /\ DOMAIN wire = 1 .. Len(wire) /\ (wire = <<>> <=> Len(wire) = 0)
    BY <2>1, RequestParts, DialogueTypes, WireIsAsked
  <2>3. ASSUME wire # <<>>
        PROVE  should_stop' /\ curlength < Len(Body(request))
    <3>1. 1 \in DOMAIN wire
      BY <2>2, <2>3
    <3>2. 2 + curlength + 1 <= 2 + Len(Body(asked))
      BY <2>1, <2>2, <3>1 DEF Follows
    <3>3. curlength < Len(Body(request))
      BY <2>1, <2>2, <3>2
    <3>4. Expects /\ ~HungUp
      BY <1>11, <2>3, <3>3 DEF Expects, HungUp
    <3>5. QED
      BY <1>11, <3>3, <3>4
  <2>4. ASSUME wire = <<>>, ~left
        PROVE  curlength = Len(Body(request))
    <3>1. 2 + curlength + Len(wire) = Len(Request(asked))
      BY <2>1, <2>4 DEF Follows
    <3>2. QED
      BY <2>1, <2>2, <2>4, <3>1
  <2>5. request' = asked' /\ Len(answers') < asked' /\ Follows(2 + curlength)'
    BY <1>1, <2>1 DEF Follows
  <2>6. QED
    BY <1>1, <1>2, <1>11, <2>3, <2>4, <2>5 DEF InTurn, Idle
<1>12. CASE worker = "keep_alive" /\ request # 0 /\ worker' = "log_connected"
  BY <1>7, <1>12 DEF Idle
<1>13. QED
  <2>1. CASE worker \in {"log_accepted", "log_connected"} /\ worker' \in {"log_connected", "receive_headers"}
    BY <1>7, <2>1 DEF Idle
  <2>2. CASE \/ worker = "log_request" /\ worker' = "respond"
             \/ worker = "respond" /\ worker' = "handle_post"
    <3>1. worker \in {"log_request", "respond"} /\ worker' \in {"respond", "handle_post"}
      BY <2>2
    <3>2. QED
      BY <1>5, <3>1
  <2>3. QED
    BY <1>3, <1>4, <1>8, <1>9, <1>10, <1>11, <1>12, <2>1, <2>2 DEF Moves

(* After a read what is left on the wire comes after what was read.            *)
LEMMA FollowsOn ==
  ASSUME DataTypes, NEW p \in Nat, NEW n \in 0 .. Len(wire), NEW q \in Nat, q = p + n, Follows(p)
  PROVE  /\ \A k \in DOMAIN SubSeq(wire, n + 1, Len(wire)) :
              /\ q + k <= Len(Request(asked))
              /\ SubSeq(wire, n + 1, Len(wire))[k] = Request(asked)[q + k]
         /\ ~left => q + Len(SubSeq(wire, n + 1, Len(wire))) = Len(Request(asked))
<1>1. /\ DOMAIN SubSeq(wire, n + 1, Len(wire)) = 1 .. Len(wire) - n
      /\ Len(SubSeq(wire, n + 1, Len(wire))) = Len(wire) - n
      /\ \A k \in 1 .. Len(wire) - n : SubSeq(wire, n + 1, Len(wire))[k] = wire[n + k]
  BY DialogueTypes, CutInTwo
<1>2. ASSUME NEW k \in 1 .. Len(wire) - n
      PROVE  q + k <= Len(Request(asked)) /\ wire[n + k] = Request(asked)[q + k]
  <2>1. n + k \in DOMAIN wire /\ p + (n + k) = q + k
    BY WireIsAsked
  <2>2. p + (n + k) <= Len(Request(asked)) /\ wire[n + k] = Request(asked)[p + (n + k)]
    BY <2>1 DEF Follows
  <2>3. QED
    BY <2>1, <2>2
<1>3. ~left => q + (Len(wire) - n) = Len(Request(asked))
  BY WireIsAsked DEF Follows
<1>4. QED
  BY <1>1, <1>2, <1>3

(* What a read holds after its first two parts.                                *)
LEMMA AfterHeaders ==
  ASSUME NEW S, NEW r \in Seq(S), NEW n \in Nat, Len(r) = n, n >= 2
  PROVE  /\ Len(SubSeq(r, 3, n)) = n - 2 /\ DOMAIN SubSeq(r, 3, n) = 1 .. n - 2
         /\ \A k \in 1 .. n - 2 : SubSeq(r, 3, n)[k] = r[2 + k]
<1>1. 2 \in 0 .. Len(r) /\ 2 + 1 = 3
  OBVIOUS
<1>2. /\ Len(SubSeq(r, 2 + 1, Len(r))) = Len(r) - 2
      /\ DOMAIN SubSeq(r, 2 + 1, Len(r)) = 1 .. Len(r) - 2
      /\ \A k \in 1 .. Len(r) - 2 : SubSeq(r, 2 + 1, Len(r))[k] = r[2 + k]
  BY <1>1, CutInTwo
<1>3. QED
  BY <1>1, <1>2

(* receive_headers takes the headers of the request that has been asked last,  *)
(* with the beginning of its body, or not even their end, or dies of what it   *)
(* reads.                                                                      *)
LEMMA HeadersRead ==
  ASSUME DataTypes, InTurn, ReceiveHeaders
  PROVE  /\ Len(answers) < asked /\ asked \in 1 .. Len(dialogue) /\ wire # <<>> /\ Follows(0)
         /\ \E n \in 1 .. Len(wire) :
              /\ wire' = SubSeq(wire, n + 1, Len(wire))
              /\ \/ worker' = "dead"
                 \/ worker' = "log_request" /\ request' = 0
                 \/ /\ worker' = "log_request" /\ request' = asked /\ n >= 2
                    /\ remainder' = SubSeq(SubSeq(wire, 1, n), 3, n)
<1>1. PICK n \in 1 .. Len(wire) :
        /\ wire' = SubSeq(wire, n + 1, Len(wire))
        /\ \/ worker' = "dead"
           \/ worker' = "log_request" /\ request' = 0
           \/ \E i \in DOMAIN SubSeq(wire, 1, n) :
                /\ worker' = "log_request"
                /\ SubSeq(wire, 1, n)[i].is = "end"
                /\ request' = SubSeq(wire, 1, n)[i].of
                /\ remainder' = SubSeq(SubSeq(wire, 1, n), i + 1, n)
  BY DEF ReceiveHeaders, Arrives, Unparsed, parse
<1>3. wire # <<>> /\ asked \in 1 .. Len(dialogue) /\ n \in 0 .. Len(wire)
  BY <1>1, WireIsAsked
<1>2. Follows(0) /\ Len(answers) < asked
  BY <1>3 DEF ReceiveHeaders, InTurn, Idle
<1>6. ASSUME NEW i \in DOMAIN SubSeq(wire, 1, n), SubSeq(wire, 1, n)[i].is = "end"
      PROVE  i = 2 /\ n >= 2 /\ SubSeq(wire, 1, n)[i].of = asked
  <2>1. i \in 1 .. n /\ SubSeq(wire, 1, n)[i] = wire[i] /\ i \in DOMAIN wire
    BY <1>3, <1>6, DialogueTypes, CutInTwo, WireIsAsked
  <2>2. 0 + i <= Len(Request(asked)) /\ wire[i] = Request(asked)[0 + i] /\ 0 + i = i
    BY <1>2, <2>1 DEF Follows
  <2>3. i \in 1 .. Len(Request(asked)) /\ wire[i] = Request(asked)[i]
    BY <1>3, <2>1, <2>2, WireIsAsked
  <2>4. Request(asked)[i].is = "end"
    BY <1>6, <2>1, <2>3
  <2>5. i = 2 /\ Request(asked)[i].of = asked
    BY <1>3, <2>3, <2>4, DialogueTypes, RequestParts
  <2>6. QED
    BY <2>1, <2>3, <2>5
<1>7. \/ worker' = "dead"
      \/ worker' = "log_request" /\ request' = 0
      \/ /\ worker' = "log_request" /\ request' = asked /\ n >= 2
         /\ remainder' = SubSeq(SubSeq(wire, 1, n), 3, n)
  <2>1. ASSUME NEW i \in DOMAIN SubSeq(wire, 1, n), SubSeq(wire, 1, n)[i].is = "end",
               request' = SubSeq(wire, 1, n)[i].of,
               remainder' = SubSeq(SubSeq(wire, 1, n), i + 1, n)
        PROVE  request' = asked /\ n >= 2 /\ remainder' = SubSeq(SubSeq(wire, 1, n), 3, n)
    <3>1. i = 2 /\ n >= 2 /\ SubSeq(wire, 1, n)[i].of = asked
      BY <1>6, <2>1
    <3>2. i + 1 = 3
      BY <3>1
    <3>3. QED
      BY <2>1, <3>1, <3>2
  <2>2. QED
    BY <1>1, <2>1
<1>8. QED
  BY <1>1, <1>2, <1>3, <1>7

LEMMA InTurnHeaders ==
  ASSUME DataTypes, InTurn, ReceiveHeaders
  PROVE  InTurn'
<1>1. PICK n \in 1 .. Len(wire) :
        /\ wire' = SubSeq(wire, n + 1, Len(wire))
        /\ \/ worker' = "dead"
           \/ worker' = "log_request" /\ request' = 0
           \/ /\ worker' = "log_request" /\ request' = asked /\ n >= 2
              /\ remainder' = SubSeq(SubSeq(wire, 1, n), 3, n)
  BY HeadersRead
<1>2. /\ Len(answers) < asked /\ asked \in 1 .. Len(dialogue) /\ wire # <<>> /\ Follows(0)
      /\ UNCHANGED <<dialogue, asked, answers, left>> /\ worker' \in {"dead", "log_request"}
      /\ Request(asked)' = Request(asked)
      /\ AnswerCut' <=> AnswerCut
  BY <1>1, HeadersRead, SameRequests DEF ReceiveHeaders, AnswerCut
<1>3. /\ Len(answers') <= asked' /\ Len(answers') < asked' /\ (AnswerCut' => Len(answers') = asked')
      /\ worker' = "log_request" => request' \in {0, asked'}
  BY <1>1, <1>2 DEF InTurn
<1>4. ASSUME request' = asked, n >= 2, remainder' = SubSeq(SubSeq(wire, 1, n), 3, n)
      PROVE  /\ \A k \in DOMAIN wire' :
                  /\ 2 + Len(remainder') + k <= Len(Request(asked)')
                  /\ wire'[k] = Request(asked)'[2 + Len(remainder') + k]
             /\ ~left' => 2 + Len(remainder') + Len(wire') = Len(Request(asked)')
             /\ \A k \in DOMAIN remainder' :
                  2 + k <= Len(Request(asked)') /\ remainder'[k] = Request(asked)'[2 + k]
  <2>1. /\ SubSeq(wire, 1, n) \in Seq(AskedParts) /\ Len(SubSeq(wire, 1, n)) = n
        /\ \A k \in 1 .. n : SubSeq(wire, 1, n)[k] = wire[k]
    BY DialogueTypes, CutInTwo, WireIsAsked
  <2>2. Len(remainder') = n - 2 /\ DOMAIN remainder' = 1 .. n - 2
        /\ \A k \in 1 .. n - 2 : remainder'[k] = SubSeq(wire, 1, n)[2 + k]
    <3>1. n \in Nat
      BY WireIsAsked
    <3>2. QED
      BY <1>4, <2>1, <3>1, AfterHeaders
  <2>3. n \in 0 .. Len(wire) /\ n \in Nat /\ n = 0 + n /\ 2 + Len(remainder') = n
    BY <1>4, <2>2, WireIsAsked
  <2>4. /\ \A k \in DOMAIN wire' :
             n + k <= Len(Request(asked)) /\ wire'[k] = Request(asked)[n + k]
        /\ ~left => n + Len(wire') = Len(Request(asked))
    BY <1>1, <1>2, <2>3, FollowsOn
  <2>5. ASSUME NEW k \in 1 .. n - 2
        PROVE  2 + k <= Len(Request(asked)) /\ remainder'[k] = Request(asked)[2 + k]
    <3>1. 2 + k \in 1 .. n /\ 2 + k \in DOMAIN wire /\ 0 + (2 + k) = 2 + k
      BY <1>4, <2>3, <2>5, WireIsAsked
    <3>2. 0 + (2 + k) <= Len(Request(asked)) /\ wire[2 + k] = Request(asked)[0 + (2 + k)]
      BY <1>2, <3>1 DEF Follows
    <3>3. remainder'[k] = wire[2 + k]
      BY <2>1, <2>2, <2>5, <3>1
    <3>4. QED
      BY <3>1, <3>2, <3>3
  <2>6. QED
    BY <1>2, <2>2, <2>3, <2>4, <2>5
<1>5. QED
  BY <1>1, <1>2, <1>3, <1>4 DEF InTurn, Idle, Follows

LEMMA InTurnAsk ==
  ASSUME TypeOK, DataTypes, Session, InTurn, Ask
  PROVE  InTurn'
<1>1. /\ client.ssl = "live" /\ asked = Len(answers) /\ asked < Len(dialogue)
      /\ ~AnswerCut /\ (AnswerCut' <=> AnswerCut)
      /\ asked' = asked + 1 /\ wire' = wire \o Request(asked + 1)
      /\ UNCHANGED <<worker, dialogue, request, remainder, answers>>
      /\ Request(asked)' = Request(asked + 1)
  BY SameRequests DEF Ask, upload_vars, AnswerCut
<1>2. asked \in Nat /\ Len(dialogue) \in Nat
  BY DialogueTypes
<1>3. Len(answers') < asked' /\ Len(answers') <= asked' /\ ~AnswerCut'
  BY <1>1, <1>2
<1>4. worker \notin Between \cup Refusing
        \cup {"log_request", "respond", "handle_post", "execute_script", "upload", "created"}
  BY <1>1, <1>2 DEF Session, InTurn, Between, Refusing
<1>5. ASSUME Idle
      PROVE  /\ \A k \in DOMAIN wire' :
                  0 + k <= Len(Request(asked)') /\ wire'[k] = Request(asked)'[0 + k]
             /\ 0 + Len(wire') = Len(Request(asked)')
  <2>1. wire = <<>>
    BY <1>1, <1>2, <1>5 DEF InTurn
  <2>2. Request(asked + 1) \in Seq(Parts)
    BY <1>1, <1>2, DialogueTypes, RequestParts
  <2>3. wire' = Request(asked + 1)
    BY <1>1, <2>1, <2>2
  <2>4. DOMAIN Request(asked + 1) = 1 .. Len(Request(asked + 1)) /\ Len(Request(asked + 1)) \in Nat
    BY <2>2, LenProperties
  <2>5. QED
    BY <1>1, <2>3, <2>4
<1>6. QED
  BY <1>1, <1>3, <1>4, <1>5 DEF InTurn, Idle, Follows

(* What a client that leaves cuts off.                                         *)
LEMMA LeaveCuts ==
  ASSUME DataTypes, Leave
  PROVE  /\ \A k \in DOMAIN wire' : k \in DOMAIN wire /\ wire'[k] = wire[k]
         /\ wire = <<>> => wire' = <<>>
<1>1. PICK n \in 0 .. Len(wire) : wire' = SubSeq(wire, 1, n)
  BY DEF Leave
<1>2. /\ wire' \in Seq(AskedParts) /\ Len(wire') = n /\ DOMAIN wire' = 1 .. n
      /\ \A k \in 1 .. n : wire'[k] = wire[k]
  BY <1>1, DialogueTypes, CutInTwo
<1>3. wire = <<>> => wire' = <<>>
  BY <1>2, WireIsAsked, EmptySeq
<1>4. QED
  BY <1>2, <1>3, WireIsAsked

LEMMA InTurnLeave ==
  ASSUME DataTypes, InTurn, Leave
  PROVE  InTurn'
<1>1. /\ UNCHANGED <<worker, should_stop, request, remainder, curlength, dialogue, asked, answers>>
      /\ Request(asked)' = Request(asked) /\ Body(request)' = Body(request)
      /\ left' /\ (AnswerCut' <=> AnswerCut)
  BY SameRequests DEF Leave, upload_vars, AnswerCut
<1>2. QED
  BY <1>1, LeaveCuts DEF InTurn, Idle, Follows

LEMMA InTurnUpload ==
  ASSUME DataTypes, OnItsWay, InTurn,
         StartsUpload \/ \E n \in Nat : ReadsOn(n)
  PROVE  InTurn'
<1>1. /\ UNCHANGED <<request, dialogue, asked, answers, left>> /\ worker' \in {"upload", "dead"}
      /\ worker \in {"handle_post", "upload"}
      /\ Request(asked)' = Request(asked)
      /\ AnswerCut' <=> AnswerCut
  BY SameRequests DEF StartsUpload, ReadsOn, client_vars, AnswerCut
<1>2. /\ Len(answers) < asked /\ request \in {0, asked} /\ request # 0
  BY <1>1 DEF InTurn, OnItsWay
<1>3. CASE StartsUpload
  <2>1. Follows(2 + Len(remainder)) /\ UNCHANGED wire /\ curlength' = Len(remainder)
    BY <1>2, <1>3 DEF StartsUpload, client_vars, InTurn
  <2>2. QED
    BY <1>1, <1>2, <2>1 DEF InTurn, Idle, Follows
<1>4. ASSUME NEW n \in Nat, ReadsOn(n)
      PROVE  InTurn'
  <2>1. /\ n \in 0 .. Len(wire) /\ curlength \in Nat /\ curlength' = curlength + n
        /\ wire' = SubSeq(wire, n + 1, Len(wire))
        /\ Follows(2 + curlength)
    BY <1>4, DialogueTypes, WireIsAsked DEF ReadsOn, InTurn
  <2>2. 2 + curlength \in Nat /\ 2 + curlength' \in Nat /\ 2 + curlength' = 2 + curlength + n
    BY <2>1
  <2>3. /\ \A k \in DOMAIN wire' :
             /\ 2 + curlength' + k <= Len(Request(asked))
             /\ wire'[k] = Request(asked)[2 + curlength' + k]
        /\ ~left => 2 + curlength' + Len(wire') = Len(Request(asked))
    BY <2>1, <2>2, FollowsOn
  <2>4. QED
    BY <1>1, <1>2, <2>3 DEF InTurn, Idle, Follows
<1>5. QED
  BY <1>3, <1>4

(* The answer that is sent is the one to the last request.                     *)
LEMMA AnswerInTurn ==
  ASSUME DataTypes, InTurn, Len(answers) < asked
  PROVE  asked = Len(answers) + 1
BY DialogueTypes, LenProperties DEF DataTypes

LEMMA InTurnAnswers ==
  ASSUME TypeOK, DataTypes, Ending, OnItsWay, InTurn,
         NEW kind \in Kinds, Answers(kind), answers' = Append(answers, kind), kind # "cut upload"
  PROVE  InTurn' /\ (Idle' => wire' = <<>>) /\ Len(answers) < asked
<1>1. /\ UNCHANGED <<request, dialogue, asked, wire, left>> /\ worker' = "keep_alive"
      /\ worker \in {"respond", "execute_script", "created"}
  BY DEF Answers, Writing
<1>2. /\ Len(answers) < asked /\ asked <= Len(answers) + 1 /\ Len(answers) \in Nat /\ asked \in Nat
      /\ Len(answers') = Len(answers) + 1
  BY <1>1, DialogueTypes, AnswerAdded DEF InTurn, DataTypes
<1>3. Len(answers') = asked' /\ Len(answers') <= asked'
  <2>1. asked' = asked
    BY <1>1
  <2>2. asked = Len(answers) + 1
    BY <1>2, AnswerInTurn
  <2>3. QED
    BY <1>2, <2>1, <2>2
<1>4. ASSUME request # 0
      PROVE  wire = <<>>
  <2>1. CASE worker = "respond"
    <3>1. asks # "POST"
      BY <2>1 DEF Answers, Writing
    <3>2. QED
      BY <1>4, <2>1, <3>1, BodylessIsOver
  <2>2. CASE worker = "execute_script"
    BY <2>2 DEF InTurn
  <2>3. CASE worker = "created"
    <3>1. ~should_stop \/ ~(curlength < Len(Body(request)))
      BY <2>3 DEF Answers, Ending
    <3>2. QED
      BY <2>3, <3>1 DEF InTurn
  <2>4. QED
    BY <1>1, <2>1, <2>2, <2>3
<1>5. Idle' => wire' = <<>>
  BY <1>1, <1>4 DEF Idle
<1>6. QED
  BY <1>1, <1>2, <1>3, <1>5 DEF InTurn

(* An answer sent in a connection that stays in step.                          *)
LEMMA SentInStep ==
  ASSUME DataTypes, NEW kind, Answers(kind), ~UploadCut'
  PROVE  kind \in Kinds /\ answers' = Append(answers, kind) /\ kind # "cut upload"
<1>1. kind \in Kinds /\ answers' = Append(answers, kind)
  BY SentKind
<1>2. Range(answers') = Range(answers) \cup {kind}
  BY <1>1, AnswerAdded
<1>3. QED
  BY <1>1, <1>2 DEF UploadCut

LEMMA InTurnNext ==
  ASSUME TypeOK, DataTypes, Session, Passing, OnItsWay, Ending, ~UploadCut => InTurn, ~UploadCut',
         [Next]_vars
  PROVE  InTurn'
<1>1. should_stop => should_stop'
  BY NextCases
<1>2. CASE PassConnection
  <2>1. /\ answers' = <<>> /\ wire' = <<>> /\ asked' = 0 /\ worker' \in Between
    BY <1>2 DEF PassConnection, Passing
  <2>2. Len(answers') = 0 /\ ~Idle'
    BY <2>1, EmptySeq DEF Idle, Between
  <2>3. QED
    BY <2>1, <2>2 DEF InTurn, Between
<1>3. CASE ~PassConnection
  <2>1. InTurn
    BY <1>3, UploadCutStays
  <2>3. ASSUME NEW kind, Answers(kind)
        PROVE  InTurn'
    <3>1. kind \in Kinds /\ answers' = Append(answers, kind) /\ kind # "cut upload"
      BY <2>3, SentInStep
    <3>2. QED
      BY <2>1, <2>3, <3>1, InTurnAnswers
  <2>4. QED
    BY <1>1, <1>3, <2>1, <2>3, NextCases, InTurnMoves, InTurnAsk, InTurnLeave, InTurnHeaders,
       InTurnUpload
<1>4. QED
  BY <1>2, <1>3

-------------------------------------------------------------------------------
(* What is in the file.                                                        *)

LEMMA FileIsAsked ==
  ASSUME DataTypes
  PROVE  /\ file \in Seq(AskedParts) /\ Len(file) \in Nat /\ DOMAIN file = 1 .. Len(file)
         /\ \A j \in DOMAIN file : file[j].of \in Nat /\ file[j].of <= asked
<1>1. file \in Seq(AskedParts) /\ Len(file) \in Nat /\ DOMAIN file = 1 .. Len(file)
  BY DialogueTypes, LenProperties
<1>2. \A j \in DOMAIN file : file[j] \in AskedParts
  BY <1>1, ElementOfSeq
<1>3. QED
  BY <1>1, <1>2 DEF AskedParts, Parts

(* The body of the request in work.                                            *)
LEMMA UploadBody ==
  ASSUME DataTypes, OnItsWay, InTurn,
         worker \in {"handle_post", "upload", "created"}
  PROVE  /\ request = asked /\ request \in 1 .. Len(dialogue) /\ dialogue[request].asks = "POST"
         /\ Len(Request(asked)) = 2 + Len(Body(request)) /\ Len(Body(request)) \in Nat
         /\ Len(Body(request)) = dialogue[request].data + 2 /\ dialogue[request].data \in Nat
         /\ \A k \in 1 .. Len(Body(request)) : Request(asked)[2 + k] = Body(request)[k]
         /\ Body(request)[Len(Body(request))].is = "boundary"
         /\ \A k \in 1 .. Len(Body(request)) :
              /\ Body(request)[k].of = request
              /\ Body(request)[k].is = "boundary" => k = Len(Body(request))
              /\ Body(request)[k].is = "data" => Body(request)[k].number = k - 1
         /\ \A k \in 1 .. dialogue[request].data : Body(request)[1 + k] = Data(request)[k]
<1>1. request = asked /\ request # 0 /\ asks = "POST"
  BY DEF InTurn, OnItsWay
<1>2. request \in 1 .. Len(dialogue) /\ dialogue[request].asks = "POST"
  BY <1>1, AsksTypes
<1>3. dialogue[request].data \in Nat
  BY <1>1, <1>2, DialogueTypes DEF Requests, DataTypes
<1>4. dialogue \in Seq(Requests)
  BY DialogueTypes
<1>5. \A k \in 1 .. Len(Body(request)) : Body(request)[k].is = "data" => Body(request)[k].number = k - 1
  <2>1. SUFFICES ASSUME NEW k \in 1 .. Len(Body(request)), Body(request)[k].is = "data"
                 PROVE  Body(request)[k].number = k - 1
    OBVIOUS
  <2>2. Body(request)[k] = [of |-> request, is |-> "data", number |-> k - 1]
    BY <1>2, <1>4, <2>1, BodyParts
  <2>3. QED
    BY <2>2
<1>6. /\ Len(Request(request)) = 2 + Len(Body(request)) /\ Len(Body(request)) \in Nat
      /\ \A k \in 1 .. Len(Body(request)) : Request(request)[2 + k] = Body(request)[k]
  BY <1>2, <1>4, RequestParts
<1>7. /\ Len(Body(request)) = dialogue[request].data + 2
      /\ Body(request)[Len(Body(request))].is = "boundary"
      /\ \A k \in 1 .. Len(Body(request)) :
           Body(request)[k].of = request /\ (Body(request)[k].is = "boundary" => k = Len(Body(request)))
      /\ \A k \in 1 .. dialogue[request].data : Body(request)[1 + k] = Data(request)[k]
  BY <1>2, <1>4, BodyParts
<1>8. QED
  BY <1>1, <1>2, <1>3, <1>5, <1>6, <1>7

(* handle_post begins with what came with the headers.                         *)
LEMMA FirstStored ==
  ASSUME DataTypes, OnItsWay, InTurn, Storing, StartsUpload
  PROVE  /\ \A j \in DOMAIN file' :
              IF j <= Len(file) THEN file'[j].of < request
              ELSE j - Len(file) + 1 <= Len(Body(request))
                     /\ file'[j] = Body(request)[j - Len(file) + 1]
         /\ Len(file') = Len(file) + curlength' - 1
         /\ Len(file) <= Len(file')
         /\ \A j \in DOMAIN file : j \in DOMAIN file' /\ file'[j] = file[j]
<1>1. /\ remainder \in Seq(AskedParts) /\ remainder # <<>> /\ curlength' = Len(remainder)
      /\ file' = file \o Tail(remainder)
      /\ file \in Seq(AskedParts) /\ Len(file) \in Nat /\ DOMAIN file = 1 .. Len(file)
  BY DialogueTypes, FileIsAsked DEF StartsUpload
<1>2. /\ Len(remainder) \in Nat \ {0} /\ DOMAIN remainder = 1 .. Len(remainder)
      /\ Tail(remainder) \in Seq(AskedParts) /\ Len(Tail(remainder)) = Len(remainder) - 1
      /\ \A k \in 1 .. Len(remainder) - 1 : Tail(remainder)[k] = remainder[k + 1]
  BY <1>1, HeadTailProperties, EmptySeq, LenProperties
<1>3. /\ Len(file') = Len(file) + (Len(remainder) - 1)
      /\ DOMAIN file' = 1 .. Len(file) + (Len(remainder) - 1)
      /\ \A j \in 1 .. Len(file) : file'[j] = file[j]
      /\ \A k \in 1 .. Len(remainder) - 1 : file'[Len(file) + k] = remainder[k + 1]
  BY <1>1, <1>2, Joined
<1>4. request = asked /\ Len(Request(asked)) = 2 + Len(Body(request)) /\ Len(Body(request)) \in Nat
      /\ \A k \in 1 .. Len(Body(request)) : Request(asked)[2 + k] = Body(request)[k]
  BY UploadBody DEF StartsUpload
<1>5. /\ \A k \in DOMAIN remainder :
           2 + k <= Len(Request(asked)) /\ remainder[k] = Request(asked)[2 + k]
      /\ \A j \in DOMAIN file : file[j].of < asked
  BY DEF StartsUpload, InTurn, Storing, OnItsWay
<1>6. ASSUME NEW j \in DOMAIN file', ~(j <= Len(file))
      PROVE  j - Len(file) + 1 <= Len(Body(request))
               /\ file'[j] = Body(request)[j - Len(file) + 1]
  <2>1. PICK k \in 1 .. Len(remainder) - 1 : k = j - Len(file)
    BY <1>1, <1>2, <1>3, <1>6
  <2>2. j = Len(file) + k /\ k + 1 = j - Len(file) + 1 /\ k + 1 \in DOMAIN remainder
    BY <1>1, <1>2, <1>3, <2>1
  <2>3. file'[j] = remainder[k + 1]
    BY <1>3, <2>1, <2>2
  <2>4. 2 + (k + 1) <= 2 + Len(Body(request)) /\ remainder[k + 1] = Request(asked)[2 + (k + 1)]
    BY <1>4, <1>5, <2>2
  <2>5. k + 1 \in 1 .. Len(Body(request))
    BY <1>4, <2>1, <2>4
  <2>6. remainder[k + 1] = Body(request)[k + 1]
    BY <1>4, <2>4, <2>5
  <2>7. QED
    BY <2>2, <2>3, <2>5, <2>6
<1>7. ASSUME NEW j \in DOMAIN file', j <= Len(file)
      PROVE  file'[j].of < request
  <2>1. j \in DOMAIN file /\ file'[j] = file[j]
    BY <1>1, <1>2, <1>3, <1>7
  <2>2. QED
    BY <1>4, <1>5, <2>1
<1>8. Len(file') = Len(file) + curlength' - 1 /\ Len(file) <= Len(file')
  BY <1>1, <1>2, <1>3
<1>9. \A j \in DOMAIN file : j \in DOMAIN file' /\ file'[j] = file[j]
  BY <1>1, <1>2, <1>3
<1>10. QED
  BY <1>6, <1>7, <1>8, <1>9

(* A round of its loop goes on with what it reads, but for the boundary.       *)
LEMMA ReadStored ==
  ASSUME DataTypes, OnItsWay, InTurn, NEW n \in Nat, ReadsOn(n),
         NEW p \in 0 .. Len(file), Uploaded(p)
  PROVE  /\ \A j \in DOMAIN file' :
              IF j <= p THEN file'[j].of < request
              ELSE j - p + 1 <= Len(Body(request)) /\ file'[j] = Body(request)[j - p + 1]
         /\ \/ Len(file') = p + curlength' - 1
            \/ Len(file') = p + curlength' - 2 /\ curlength' = Len(Body(request))
         /\ p \in 0 .. Len(file')
         /\ \A j \in DOMAIN file : j \in DOMAIN file' /\ file'[j] = file[j]
<1>1. /\ curlength < Len(Body(request)) /\ curlength' = curlength + n
      /\ n \in 0 .. Len(wire) /\ n # 0
      /\ file' = file \o Written(SubSeq(wire, 1, n))
      /\ file \in Seq(AskedParts) /\ Len(file) \in Nat /\ DOMAIN file = 1 .. Len(file)
      /\ curlength \in Nat /\ p \in Nat
  BY DialogueTypes, FileIsAsked, WireIsAsked DEF ReadsOn, Expects
<1>2. /\ request = asked /\ Len(Request(asked)) = 2 + Len(Body(request)) /\ Len(Body(request)) \in Nat
      /\ \A k \in 1 .. Len(Body(request)) : Request(asked)[2 + k] = Body(request)[k]
      /\ \A k \in 1 .. Len(Body(request)) : Body(request)[k].is = "boundary" => k = Len(Body(request))
  BY UploadBody DEF ReadsOn
<1>3. /\ SubSeq(wire, 1, n) \in Seq(AskedParts) /\ Len(SubSeq(wire, 1, n)) = n
      /\ \A k \in 1 .. n : SubSeq(wire, 1, n)[k] = wire[k]
  BY <1>1, DialogueTypes, CutInTwo
<1>4. ASSUME NEW k \in 1 .. n
      PROVE  curlength + k \in 1 .. Len(Body(request))
               /\ SubSeq(wire, 1, n)[k] = Body(request)[curlength + k]
  <2>1. k \in DOMAIN wire
    BY <1>1, WireIsAsked
  <2>2. 2 + curlength + k <= Len(Request(asked)) /\ wire[k] = Request(asked)[2 + curlength + k]
    BY <2>1 DEF ReadsOn, InTurn, Follows
  <2>3. curlength + k \in 1 .. Len(Body(request)) /\ 2 + curlength + k = 2 + (curlength + k)
    BY <1>1, <1>2, <2>2
  <2>4. QED
    BY <1>2, <1>3, <2>2, <2>3
<1> DEFINE w == Written(SubSeq(wire, 1, n))
<1>5. /\ w \in Seq(AskedParts) /\ Len(w) \in Nat /\ Len(w) <= n
      /\ \A k \in 1 .. Len(w) : w[k] = SubSeq(wire, 1, n)[k]
      /\ IF \E k \in 1 .. n : SubSeq(wire, 1, n)[k].is = "boundary"
           THEN Len(w) = n - 1 ELSE Len(w) = n
  BY <1>1, <1>3, WrittenParts
<1> HIDE DEF w
<1>6. \/ Len(w) = n
      \/ Len(w) = n - 1 /\ curlength + n = Len(Body(request))
  <2>1. ASSUME NEW k \in 1 .. n, SubSeq(wire, 1, n)[k].is = "boundary"
        PROVE  curlength + n = Len(Body(request))
    <3>1. /\ curlength + k \in 1 .. Len(Body(request))
          /\ Body(request)[curlength + k].is = "boundary"
      BY <1>4, <2>1
    <3>2. curlength + k = Len(Body(request))
      BY <1>2, <3>1
    <3>3. n \in 1 .. n
      BY <1>1
    <3>4. curlength + n \in 1 .. Len(Body(request))
      BY <1>4, <3>3
    <3>5. QED
      BY <1>1, <1>2, <3>2, <3>4
  <2>2. QED
    BY <1>5, <2>1
<1>7. Len(file) = p + curlength - 1
  BY <1>1, <1>2 DEF Uploaded
<1>8. /\ Len(file') = Len(file) + Len(w)
      /\ DOMAIN file' = 1 .. Len(file) + Len(w)
      /\ \A j \in 1 .. Len(file) : file'[j] = file[j]
      /\ \A k \in 1 .. Len(w) : file'[Len(file) + k] = w[k]
  <2>1. file' = file \o w
    BY <1>1 DEF w
  <2>2. /\ Len(file \o w) = Len(file) + Len(w)
        /\ DOMAIN (file \o w) = 1 .. Len(file) + Len(w)
        /\ \A j \in 1 .. Len(file) : (file \o w)[j] = file[j]
        /\ \A k \in 1 .. Len(w) : (file \o w)[Len(file) + k] = w[k]
    BY <1>1, <1>5, Joined
  <2>3. QED
    BY <2>1, <2>2
<1>9. ASSUME NEW j \in DOMAIN file', ~(j <= Len(file))
      PROVE  j - p + 1 <= Len(Body(request)) /\ file'[j] = Body(request)[j - p + 1] /\ ~(j <= p)
  <2>1. PICK k \in 1 .. Len(w) : j = Len(file) + k
    <3>1. j - Len(file) \in 1 .. Len(w) /\ j = Len(file) + (j - Len(file))
      BY <1>1, <1>5, <1>8, <1>9
    <3>2. QED
      BY <3>1
  <2>2. k \in 1 .. n /\ curlength + k = j - p + 1 /\ ~(j <= p)
    BY <1>1, <1>5, <1>7, <2>1
  <2>3. file'[j] = SubSeq(wire, 1, n)[k]
    BY <1>5, <1>8, <2>1
  <2>4. curlength + k <= Len(Body(request)) /\ file'[j] = Body(request)[curlength + k]
    BY <1>2, <1>4, <2>2, <2>3
  <2>5. QED
    BY <2>2, <2>4
<1>10. ASSUME NEW j \in DOMAIN file', j <= Len(file)
       PROVE  /\ file'[j] = file[j]
              /\ IF j <= p THEN file'[j].of < request
                 ELSE j - p + 1 <= Len(Body(request)) /\ file'[j] = Body(request)[j - p + 1]
  <2>1. j \in DOMAIN file /\ file'[j] = file[j]
    BY <1>1, <1>5, <1>8, <1>10
  <2>2. QED
    BY <2>1 DEF Uploaded
<1>11. \/ Len(file') = p + curlength' - 1
       \/ Len(file') = p + curlength' - 2 /\ curlength' = Len(Body(request))
  <2>1. Len(file') = p + curlength - 1 + Len(w) /\ curlength' = curlength + n
    BY <1>1, <1>7, <1>8
  <2>2. p \in Nat /\ curlength \in Nat /\ n \in Nat
    BY <1>1
  <2>3. CASE Len(w) = n
    BY <2>1, <2>2, <2>3
  <2>4. CASE Len(w) = n - 1 /\ curlength + n = Len(Body(request))
    <3>1. Len(file') = p + (curlength + n) - 2
      BY <2>1, <2>2, <2>4
    <3>2. QED
      BY <2>1, <2>4, <3>1
  <2>5. QED
    BY <1>6, <2>3, <2>4
<1>12. p \in 0 .. Len(file') /\ \A j \in DOMAIN file : j \in DOMAIN file' /\ file'[j] = file[j]
  BY <1>1, <1>5, <1>8
<1>13. QED
  BY <1>9, <1>10, <1>11, <1>12

LEMMA StoringNext ==
  ASSUME TypeOK, DataTypes, Passing, OnItsWay, Ending, ~UploadCut => InTurn /\ Storing, ~UploadCut',
         [Next]_vars
  PROVE  Storing'
<1>1. CASE PassConnection
  BY <1>1 DEF PassConnection, Passing, Storing, Idle, Between
<1> SUFFICES ASSUME ~PassConnection
             PROVE  Storing'
  BY <1>1
<1>2. InTurn /\ Storing
  BY UploadCutStays
<1>3. should_stop => should_stop'
  BY NextCases
<1>4. CASE Kept /\ Moves
  <2>1. /\ UNCHANGED <<request, curlength, dialogue, asked, wire, file>>
        /\ Body(request)' = Body(request)
    BY <1>4, SameRequests DEF Kept, upload_vars, client_vars
  <2>2. worker = "SSL_accept" \/ worker = "execute_script" => wire = <<>>
    BY <1>2 DEF Passing, Fresh, InTurn
  <2>3. Idle' /\ wire # <<>> => Idle
    BY <1>4, <2>1, <2>2 DEF Moves, Idle, Between, Refusing
  <2>4. worker' \in {"log_request", "respond", "handle_post"} =>
          worker \in {"log_request", "respond", "handle_post"}
    BY <1>4 DEF Moves, Between, Refusing
  <2>5. worker' \in {"upload", "created"} => worker \in {"upload", "created"}
    BY <1>4 DEF Moves, Between, Refusing
  <2>6. QED
    BY <1>2, <2>1, <2>3, <2>4, <2>5 DEF Storing, Uploaded
<1>5. CASE Ask
  <2>1. /\ UNCHANGED <<worker, request, file>> /\ asked' = asked + 1 /\ asked = Len(answers)
    BY <1>5 DEF Ask, upload_vars
  <2>2. worker \notin {"log_request", "respond", "handle_post", "upload", "created"}
    BY <1>2, <2>1, DialogueTypes DEF InTurn
  <2>3. \A j \in DOMAIN file' : file'[j].of < asked'
    BY <2>1, FileIsAsked, DialogueTypes
  <2>4. QED
    BY <2>1, <2>2, <2>3 DEF Storing
<1>6. CASE Leave
  <2>1. UNCHANGED <<worker, request, curlength, file, asked, dialogue>> /\ Body(request)' = Body(request)
    BY <1>6, SameRequests DEF Leave, upload_vars
  <2>2. QED
    BY <1>2, <1>6, <2>1, LeaveCuts DEF Storing, Idle, Uploaded
<1>7. CASE ReceiveHeaders
  <2>1. wire # <<>> /\ Idle /\ UNCHANGED <<asked, file>> /\ worker' \in {"log_request", "dead"}
    BY <1>2, <1>7, HeadersRead DEF ReceiveHeaders, Idle
  <2>2. QED
    BY <1>2, <2>1 DEF Storing, Idle
<1>8. CASE StartsUpload
  <2>1. /\ UNCHANGED <<request, dialogue>> /\ Body(request)' = Body(request) /\ worker' = "upload"
    BY <1>8, SameRequests DEF StartsUpload, client_vars
  <2>2. Len(file) \in 0 .. Len(file')
    BY <1>2, <1>8, FirstStored, FileIsAsked, DataTypesNext
  <2>3. QED
    BY <1>2, <1>8, <2>1, <2>2, FirstStored DEF Storing, Idle, Uploaded
<1>9. ASSUME NEW n \in Nat, ReadsOn(n)
      PROVE  Storing'
  <2>1. /\ UNCHANGED <<request, dialogue>> /\ Body(request)' = Body(request)
        /\ worker = "upload" /\ worker' \in {"upload", "dead"}
    BY <1>9, SameRequests DEF ReadsOn
  <2>2. PICK p \in 0 .. Len(file) : Uploaded(p)
    BY <1>2, <2>1 DEF Storing
  <2>3. p \in 0 .. Len(file')
    BY <1>2, <1>9, <2>2, ReadStored
  <2>4. \E q \in 0 .. Len(file') :
          /\ \A j \in DOMAIN file' :
               IF j <= q THEN file'[j].of < request'
               ELSE j - q + 1 <= Len(Body(request)') /\ file'[j] = Body(request)'[j - q + 1]
          /\ \/ Len(file') = q + curlength' - 1
             \/ Len(file') = q + curlength' - 2 /\ curlength' = Len(Body(request)')
    BY <1>2, <1>9, <2>1, <2>2, <2>3, ReadStored
  <2>5. QED
    BY <2>1, <2>4 DEF Storing, Idle, Uploaded
<1>10. ASSUME NEW kind, Answers(kind)
       PROVE  Storing'
  <2>1. kind \in Kinds /\ answers' = Append(answers, kind) /\ kind # "cut upload"
    BY <1>10, SentInStep
  <2>2. (Idle' => wire' = <<>>) /\ worker' = "keep_alive"
    BY <1>2, <1>10, <2>1, InTurnAnswers DEF Answers
  <2>3. QED
    BY <2>2 DEF Storing
<1>11. QED
  BY <1>4, <1>5, <1>6, <1>7, <1>8, <1>9, <1>10, NextCases

(* No upload and no script is at work after an upload that was cut off.        *)
LEMMA AtWorkInStep ==
  ASSUME Session, Astray, worker \in {"handle_post", "upload", "created", "execute_script"}
  PROVE  ~UploadCut
BY DEF Session, Astray, Between, Refusing, Idle

(* The data stays in order when a read is written.                             *)
LEMMA OrderKept ==
  ASSUME DataTypes, DataTypes', OnItsWay, InTurn, worker \in {"handle_post", "upload"},
         \A j, k \in DOMAIN file :
           j < k /\ file[j].is = "data" /\ file[k].is = "data" => Before(file[j], file[k]),
         \A j \in DOMAIN file : j \in DOMAIN file' /\ file'[j] = file[j],
         NEW p \in 0 .. Len(file),
         \A j \in DOMAIN file' :
           IF j <= p THEN file'[j].of < request
           ELSE j - p + 1 <= Len(Body(request)) /\ file'[j] = Body(request)[j - p + 1]
  PROVE  \A j, k \in DOMAIN file' :
           j < k /\ file'[j].is = "data" /\ file'[k].is = "data" => Before(file'[j], file'[k])
<1>1. SUFFICES ASSUME NEW j \in DOMAIN file', NEW k \in DOMAIN file',
                      j < k, file'[j].is = "data", file'[k].is = "data"
               PROVE  Before(file'[j], file'[k])
  OBVIOUS
<1>2. Len(file) \in Nat /\ DOMAIN file = 1 .. Len(file) /\ p \in Nat
  BY FileIsAsked
<1>3. Len(file') \in Nat /\ DOMAIN file' = 1 .. Len(file') /\ j \in Nat /\ k \in Nat /\ j >= 1 /\ k >= 1
  <2>1. file' \in Seq(AskedParts')
    BY DEF DataTypes
  <2>2. Len(file') \in Nat /\ DOMAIN file' = 1 .. Len(file')
    BY <2>1, LenProperties
  <2>3. QED
    BY <2>2
<1>4. CASE k <= p
  <2>1. j \in DOMAIN file /\ k \in DOMAIN file
    BY <1>1, <1>2, <1>3, <1>4
  <2>2. file'[j] = file[j] /\ file'[k] = file[k]
    BY <2>1
  <2>3. QED
    BY <1>1, <2>1, <2>2
<1>5. ASSUME NEW m \in DOMAIN file', ~(m <= p), file'[m].is = "data"
      PROVE  file'[m].of = request /\ file'[m].number = m - p
  <2>1. m - p + 1 \in 1 .. Len(Body(request)) /\ file'[m] = Body(request)[m - p + 1]
    <3>1. m \in Nat /\ Len(Body(request)) \in Nat
      BY <1>3, UploadBody
    <3>2. m - p + 1 <= Len(Body(request)) /\ file'[m] = Body(request)[m - p + 1]
      BY <1>5
    <3>3. QED
      BY <1>2, <1>5, <3>1, <3>2
  <2>2. PICK x \in 1 .. Len(Body(request)) : x = m - p + 1
    BY <2>1
  <2>3. file'[m] = Body(request)[x]
    BY <2>1, <2>2
  <2>4. Body(request)[x].of = request
          /\ (Body(request)[x].is = "data" => Body(request)[x].number = x - 1)
    BY UploadBody
  <2>5. x - 1 = m - p
    BY <1>2, <1>3, <2>2
  <2>6. QED
    BY <1>5, <2>3, <2>4, <2>5
<1>6. CASE ~(k <= p)
  <2>1. file'[k].of = request /\ file'[k].number = k - p
    BY <1>1, <1>5, <1>6
  <2>2. CASE j <= p
    <3>1. file'[j].of < file'[k].of
      BY <2>1, <2>2
    <3>2. QED
      BY <3>1 DEF Before
  <2>3. CASE ~(j <= p)
    <3>1. file'[j].of = request /\ file'[j].number = j - p
      BY <1>1, <1>5, <2>3
    <3>2. j - p < k - p
      BY <1>1, <1>2, <1>3
    <3>3. QED
      BY <2>1, <3>1, <3>2 DEF Before
  <2>4. QED
    BY <2>2, <2>3
<1>7. QED
  BY <1>4, <1>6

(* What is in the file of an upload that has got to its end.                   *)
LEMMA AllStored ==
  ASSUME DataTypes, OnItsWay, InTurn, worker = "created", ~(curlength < Len(Body(request))),
         NEW p \in 0 .. Len(file), Uploaded(p)
  PROVE  StoredAt(request, p)
<1>1. /\ Len(file) \in Nat /\ DOMAIN file = 1 .. Len(file) /\ p \in Nat /\ curlength \in Nat
      /\ Len(Body(request)) = dialogue[request].data + 2 /\ dialogue[request].data \in Nat
      /\ \A k \in 1 .. dialogue[request].data : Body(request)[1 + k] = Data(request)[k]
  BY FileIsAsked, DialogueTypes, UploadBody
<1>2. Len(file) >= p + dialogue[request].data
  <2>1. curlength >= dialogue[request].data + 2
    BY <1>1
  <2>2. Len(file) >= p + curlength - 2
    BY <1>1 DEF Uploaded
  <2>3. QED
    BY <1>1, <2>1, <2>2
<1>3. ASSUME NEW k \in 1 .. dialogue[request].data
      PROVE  p + k \in DOMAIN file /\ file[p + k] = Data(request)[k]
  <2>1. p + k \in DOMAIN file /\ ~(p + k <= p) /\ p + k - p + 1 = 1 + k
    BY <1>1, <1>2
  <2>2. file[p + k] = Body(request)[p + k - p + 1]
    BY <2>1 DEF Uploaded
  <2>3. QED
    BY <1>1, <2>1, <2>2
<1>4. QED
  BY <1>3 DEF StoredAt

LEMMA UploadsAreStoredNext ==
  ASSUME TypeOK, DataTypes, Session, OnItsWay, Astray, ~UploadCut => InTurn /\ Storing,
         UploadsAreStored, [Next]_vars
  PROVE  UploadsAreStored'
<1>1. CASE PassConnection
  BY <1>1 DEF PassConnection, UploadsAreStored
<1> SUFFICES ASSUME ~PassConnection
             PROVE  UploadsAreStored'
  BY <1>1
<1>2. /\ worker \in {"handle_post", "upload", "created"} => InTurn /\ Storing
      /\ \A i \in DOMAIN answers :
           answers[i] = "created" => \E p \in 0 .. Len(file) : StoredAt(i, p)
      /\ \A j, k \in DOMAIN file :
           j < k /\ file[j].is = "data" /\ file[k].is = "data" => Before(file[j], file[k])
  BY AtWorkInStep DEF UploadsAreStored
<1>3. DataTypes'
  BY DataTypesNext
<1>4. CASE UNCHANGED <<answers, dialogue, file>>
  <2>1. ASSUME NEW i \in DOMAIN answers, NEW p \in 0 .. Len(file), StoredAt(i, p)
        PROVE  StoredAt(i, p)'
    BY <1>4, <2>1 DEF StoredAt, Data
  <2>2. \A i \in DOMAIN answers' :
          answers'[i] = "created" => \E p \in 0 .. Len(file') : StoredAt(i, p)'
    BY <1>2, <1>4, <2>1
  <2>3. QED
    BY <1>2, <1>4, <2>2 DEF UploadsAreStored, Before
<1>5. ASSUME UNCHANGED <<answers, dialogue>>, worker \in {"handle_post", "upload"},
             \A j \in DOMAIN file : j \in DOMAIN file' /\ file'[j] = file[j],
             Len(file) <= Len(file'),
             NEW p \in 0 .. Len(file),
             \A j \in DOMAIN file' :
               IF j <= p THEN file'[j].of < request
               ELSE j - p + 1 <= Len(Body(request)) /\ file'[j] = Body(request)[j - p + 1]
      PROVE  UploadsAreStored'
  <2>1. \A j, k \in DOMAIN file' :
          j < k /\ file'[j].is = "data" /\ file'[k].is = "data" => Before(file'[j], file'[k])
    BY <1>2, <1>3, <1>5, OrderKept
  <2>2. ASSUME NEW i \in DOMAIN answers, NEW q \in 0 .. Len(file), StoredAt(i, q)
        PROVE  q \in 0 .. Len(file') /\ StoredAt(i, q)'
    <3>1. q \in 0 .. Len(file')
      <4>1. Len(file) \in Nat /\ Len(file') \in Nat
        BY <1>3, FileIsAsked, LenProperties DEF DataTypes
      <4>2. QED
        BY <1>5, <4>1
    <3>2. QED
      BY <1>5, <2>2, <3>1 DEF StoredAt, Data
  <2>3. \A i \in DOMAIN answers' :
          answers'[i] = "created" => \E q \in 0 .. Len(file') : StoredAt(i, q)'
    BY <1>2, <1>5, <2>2
  <2>4. QED
    BY <2>1, <2>3 DEF UploadsAreStored, Before
<1>6. CASE StartsUpload
  <2>1. Len(file) \in 0 .. Len(file)
    BY FileIsAsked
  <2>2. QED
    BY <1>2, <1>5, <1>6, <2>1, FirstStored DEF StartsUpload, client_vars
<1>7. ASSUME NEW n \in Nat, ReadsOn(n)
      PROVE  UploadsAreStored'
  <2>1. PICK p \in 0 .. Len(file) : Uploaded(p)
    BY <1>2, <1>7 DEF Storing, ReadsOn
  <2>2. Len(file) <= Len(file')
    <3>1. \A j \in DOMAIN file : j \in DOMAIN file'
      BY <1>2, <1>7, <2>1, ReadStored DEF ReadsOn
    <3>2. /\ Len(file) \in Nat /\ DOMAIN file = 1 .. Len(file)
          /\ Len(file') \in Nat /\ DOMAIN file' = 1 .. Len(file')
      BY <1>3, FileIsAsked, LenProperties DEF DataTypes
    <3>3. QED
      BY <3>1, <3>2
  <2>3. QED
    BY <1>2, <1>5, <1>7, <2>1, <2>2, ReadStored DEF ReadsOn
<1>8. ASSUME NEW kind, Answers(kind), answers' = Append(answers, kind), kind \in Kinds
      PROVE  UploadsAreStored'
  <2>1. UNCHANGED <<dialogue, file, request>>
    BY <1>8 DEF Answers, upload_vars
  <2>2. /\ DOMAIN answers = 1 .. Len(answers) /\ DOMAIN answers' = 1 .. Len(answers) + 1
        /\ \A i \in 1 .. Len(answers) : answers'[i] = answers[i]
        /\ answers'[Len(answers) + 1] = kind /\ Len(answers) \in Nat
    BY <1>8, AnswerAdded
  <2>3. ASSUME kind = "created"
        PROVE  \E p \in 0 .. Len(file) : StoredAt(Len(answers) + 1, p)
    <3>1. worker = "created" /\ ~(curlength < Len(Body(request)))
      BY <1>8, <2>3, AsksTypes, Pages DEF Answers
    <3>2. request = Len(answers) + 1
      BY <1>2, <3>1, AnswerInTurn DEF InTurn, OnItsWay
    <3>3. PICK p \in 0 .. Len(file) : Uploaded(p)
      BY <1>2, <3>1 DEF Storing
    <3>4. QED
      BY <1>2, <3>1, <3>2, <3>3, AllStored
  <2>4. ASSUME NEW i \in DOMAIN answers', answers'[i] = "created"
        PROVE  \E p \in 0 .. Len(file) : StoredAt(i, p)
    <3>1. i \in DOMAIN answers \/ i = Len(answers) + 1
      BY <2>2
    <3>2. QED
      BY <1>2, <2>2, <2>3, <2>4, <3>1
  <2>5. ASSUME NEW i \in DOMAIN answers', NEW p \in 0 .. Len(file), StoredAt(i, p)
        PROVE  StoredAt(i, p)'
    BY <2>1, <2>5 DEF StoredAt, Data
  <2>6. \A i \in DOMAIN answers' :
          answers'[i] = "created" => \E p \in 0 .. Len(file') : StoredAt(i, p)'
    BY <2>1, <2>4, <2>5
  <2>7. QED
    BY <1>2, <2>1, <2>6 DEF UploadsAreStored, Before
<1>9. QED
  <2>1. ASSUME NEW kind, Answers(kind)
        PROVE  UNCHANGED <<answers, dialogue, file>> \/ (kind \in Kinds /\ answers' = Append(answers, kind))
    <3>1. asks \notin {"POST", "script"} => PageFor(asks) \in Kinds
      BY AsksTypes, Pages DEF Kinds
    <3>2. QED
      BY <2>1, <3>1 DEF Answers, Send, Kinds, upload_vars
  <2>2. CASE Kept \/ Ask \/ Leave \/ ReceiveHeaders
    <3>1. UNCHANGED <<answers, dialogue, file>>
      BY <2>2 DEF Kept, Ask, Leave, ReceiveHeaders, upload_vars, client_vars
    <3>2. QED
      BY <1>4, <3>1
  <2>3. QED
    BY <1>4, <1>6, <1>7, <1>8, <2>1, <2>2, NextCases

-------------------------------------------------------------------------------
(* The answers.                                                                *)

LEMMA NothingAnswered == DOMAIN <<>> = {}
OBVIOUS

(* An index that stands for another answer.                                    *)
Misses == \E i \in DOMAIN answers : answers[i] = "index" /\ ~(i <= asked /\ dialogue[i].asks = "root")

(* While the worker serves a request there is none.                            *)
LEMMA NoneMissed ==
  ASSUME Session, NotParsed,
         worker \in {"receive_headers", "respond", "execute_script", "created"}
  PROVE  ~Misses
BY DEF Session, NotParsed, Misses, Between, Refusing

(* Which steps open and close the client.                                      *)
LEMMA StaysClosed ==
  ASSUME TypeOK, Session, Passing, [Next]_vars,
         answers # <<>>, request = 0, worker \in {"keep_alive", "dead"} \/ ~client.is_open
  PROVE  worker' \in {"keep_alive", "dead"} \/ ~client'.is_open \/ ReceiveHeaders \/ PassConnection
<1>0. client \in [is_open : BOOLEAN, ssl : {"none", "handshake", "live", "freed", "corrupt"}]
  BY DEF TypeOK
<1>1. CASE RecvFd
  <2>1. CASE "descriptor" \in pair
    BY <2>1 DEF Passing, Fresh
  <2>2. CASE "descriptor" \notin pair
    <3>1. worker = "recvmsg" /\ UNCHANGED client
      BY <1>1, <2>2 DEF RecvFd, Goes
    <3>2. QED
      BY <3>1
  <2>3. QED
    BY <2>1, <2>2
<1>2. CASE Accept
  BY <1>2 DEF Accept, Goes, Session, Refusing
<1>3. CASE Refused \/ PeerCloses \/ KeepAlive
  <2>1. CASE client' \in {close(client), close(close(client))}
    BY <1>0, <2>1, CloseOnce
  <2>2. ~keep_alive
    BY DEF keep_alive
  <2>3. QED
    BY <1>3, <2>1, <2>2 DEF Refused, PeerCloses, GivesUp, KeepAlive
<1>4. CASE Kill
  BY <1>0, <1>4, LogLabels, CloseOnce DEF Kill, Interrupted, Writing, Goes, Expects
<1>5. CASE UNCHANGED client /\ ~Kill /\ ~KeepAlive
  <2>1. CASE ~client.is_open
    BY <1>5, <2>1
  <2>2. CASE worker \in {"keep_alive", "dead"} /\ client.is_open
    <3>1. worker' \in {"keep_alive", "dead"}
      BY <1>5, <2>2, LogLabels
         DEF Next, WorkerStep, ParentStep, Ask, Leave, ParentLogs, PassConnection, Waitpid, StopLogger,
             WaitLogger, Sigint, LoggerRuns, vars, WorkerLogs, CheckStop, RecvFd, Accept, Refused,
             ReceiveHeaders, PeerCloses, GivesUp, DiesUnparsed, BrokenPipe, Respond, ExecuteScript,
             HandlePost, Upload, Created, Announce, Goes
    <3>2. QED
      BY <2>2, <3>1
  <2>3. QED
    BY <2>1, <2>2
<1>6. QED
  BY <1>1, <1>2, <1>3, <1>4, <1>5, Frames

LEMMA NotParsedNext ==
  ASSUME TypeOK, DataTypes, Session, Passing, OnItsWay, Ending, Astray, ~UploadCut => InTurn,
         NotParsed, [Next]_vars
  PROVE  NotParsed'
<1>1. CASE PassConnection
  <2>1. DOMAIN answers' = {}
    BY <1>1, NothingAnswered DEF PassConnection
  <2>2. QED
    BY <2>1 DEF NotParsed
<1>2. CASE ReceiveHeaders
  <2>1. ~Misses /\ UNCHANGED <<answers, dialogue, asked>>
    BY <1>2, NoneMissed DEF ReceiveHeaders
  <2>2. QED
    BY <2>1 DEF Misses, NotParsed
<1>3. CASE UNCHANGED <<answers, dialogue, request>> /\ asked' \in {asked, asked + 1}
           /\ ~ReceiveHeaders /\ ~PassConnection
  <2>1. \A i \in DOMAIN answers : i <= asked => i <= asked'
    <3>1. DOMAIN answers = 1 .. Len(answers) /\ Len(answers) \in Nat /\ asked \in Nat
      BY DialogueTypes, LenProperties DEF DataTypes
    <3>2. QED
      BY <1>3, <3>1
  <2>2. SUFFICES ASSUME Misses
                 PROVE  request = 0 /\ (worker' \in {"keep_alive", "dead"} \/ ~client'.is_open)
    BY <1>3, <2>1 DEF Misses, NotParsed
  <2>3. request = 0 /\ (worker \in {"keep_alive", "dead"} \/ ~client.is_open)
    BY <2>2 DEF Misses, NotParsed
  <2>4. answers # <<>>
    BY <2>2, NothingAnswered DEF Misses
  <2>5. QED
    BY <1>3, <2>3, <2>4, StaysClosed
<1>4. ASSUME NEW kind \in Kinds, Answers(kind), answers' = Append(answers, kind)
      PROVE  NotParsed'
  <2>1. ~Misses /\ UNCHANGED <<dialogue, request, asked>> /\ worker' = "keep_alive"
    BY <1>4, NoneMissed DEF Answers, Writing
  <2>2. /\ DOMAIN answers = 1 .. Len(answers) /\ DOMAIN answers' = 1 .. Len(answers) + 1
        /\ \A i \in 1 .. Len(answers) : answers'[i] = answers[i]
        /\ answers'[Len(answers) + 1] = kind /\ Len(answers) \in Nat
    BY <1>4, AnswerAdded
  <2>3. SUFFICES ASSUME NEW i \in DOMAIN answers', answers'[i] = "index",
                        ~(i <= asked /\ dialogue[i].asks = "root")
                 PROVE  request = 0
    BY <2>1 DEF NotParsed
  <2>4. i = Len(answers) + 1 /\ kind = "index"
    <3>1. ASSUME i \in 1 .. Len(answers)
          PROVE  FALSE
      <4>1. i \in DOMAIN answers /\ answers[i] = "index"
        BY <2>2, <2>3, <3>1
      <4>2. QED
        BY <2>1, <2>3, <4>1 DEF Misses
    <3>2. i \in 1 .. Len(answers) + 1
      BY <2>2, <2>3
    <3>3. i = Len(answers) + 1
      BY <2>2, <3>1, <3>2
    <3>4. QED
      BY <2>2, <2>3, <3>3
  <2>5. worker = "respond" /\ asks = "root"
    BY <1>4, <2>4, AsksTypes, Pages DEF Answers, OnItsWay
  <2>6. CASE UploadCut
    BY <2>5, <2>6 DEF Astray, Session, Between, Refusing, Idle
  <2>7. CASE ~UploadCut
    <3>1. i = asked /\ request \in {0, asked} /\ asked \in Nat
      BY <2>4, <2>5, <2>7, AnswerInTurn, DialogueTypes DEF InTurn
    <3>2. QED
      BY <2>3, <2>5, <3>1, AsksTypes
  <2>8. QED
    BY <2>6, <2>7
<1>5. QED
  <2>1. ASSUME NEW kind, Answers(kind)
        PROVE  kind \in Kinds /\ answers' = Append(answers, kind)
    BY <2>1, SentKind
  <2>2. CASE Kept \/ Ask \/ Leave \/ StartsUpload \/ \E n \in Nat : ReadsOn(n)
    <3>1. UNCHANGED <<answers, dialogue, request>> /\ asked' \in {asked, asked + 1}
      BY <2>2 DEF Kept, Ask, Leave, StartsUpload, ReadsOn, client_vars
    <3>2. QED
      BY <1>1, <1>2, <1>3, <3>1
  <2>3. QED
    BY <1>1, <1>2, <1>4, <2>1, <2>2, NextCases

(* A connection opens with nothing answered.                                   *)
LEMMA OpensFresh ==
  ASSUME TypeOK, Session, Passing, [Next]_vars, ~PassConnection, ~client.is_open, client'.is_open
  PROVE  answers = <<>>
<1>0. client \in [is_open : BOOLEAN, ssl : {"none", "handshake", "live", "freed", "corrupt"}]
  BY DEF TypeOK
<1>1. CASE RecvFd
  BY <1>1 DEF RecvFd, Passing, Fresh
<1>2. CASE Accept
  BY <1>2 DEF Accept, Goes, Session, Refusing
<1>3. CASE Refused \/ PeerCloses \/ KeepAlive
  <2>1. client' \in {client, close(client), close(close(client))}
    BY <1>3 DEF Refused, PeerCloses, GivesUp, KeepAlive
  <2>2. QED
    BY <1>0, <2>1, CloseOnce
<1>4. CASE Kill
  BY <1>0, <1>4, CloseOnce DEF Kill, Interrupted
<1>5. CASE UNCHANGED client
  BY <1>5
<1>6. QED
  BY <1>1, <1>2, <1>3, <1>4, <1>5, Frames

(* The first part on the wire stays the first one.                             *)
LEMMA FirstStays ==
  ASSUME DataTypes, wire # <<>>, Ask \/ Leave, wire' # <<>>
  PROVE  wire'[1] = wire[1]
<1>1. wire \in Seq(AskedParts) /\ Len(wire) \in Nat /\ 1 \in 1 .. Len(wire)
  BY WireIsAsked, DialogueTypes
<1>2. CASE Ask
  <2>1. asked + 1 \in 1 .. Len(dialogue) /\ dialogue \in Seq(Requests)
    BY <1>2, DialogueTypes DEF Ask
  <2>2. Request(asked + 1) \in Seq(Parts)
    BY <2>1, RequestParts
  <2>3. wire \in Seq(Parts)
    BY <1>1, SeqGrows DEF AskedParts
  <2>4. wire' = wire \o Request(asked + 1)
    BY <1>2 DEF Ask
  <2>5. QED
    BY <1>1, <2>2, <2>3, <2>4
<1>3. CASE Leave
  <2>1. PICK n \in 0 .. Len(wire) : wire' = SubSeq(wire, 1, n)
    BY <1>3 DEF Leave
  <2>2. /\ wire' \in Seq(AskedParts) /\ Len(wire') = n
        /\ \A k \in 1 .. n : wire'[k] = wire[k]
    BY <2>1, DialogueTypes, CutInTwo
  <2>3. n # 0
    BY <2>2, EmptySeq
  <2>4. 1 \in 1 .. n
    BY <1>1, <2>3
  <2>5. QED
    BY <2>2, <2>4
<1>4. QED
  BY <1>2, <1>3

(* What an answer does to a connection in which an upload is cut off, by it or *)
(* before it.                                                                  *)
LEMMA AstrayAnswers ==
  ASSUME TypeOK, DataTypes, Session, OnItsWay, Ending, Astray, ~UploadCut => InTurn,
         should_stop => should_stop',
         NEW kind \in Kinds, Answers(kind), answers' = Append(answers, kind), UploadCut'
  PROVE  Astray'
<1>1. /\ Range(answers') = Range(answers) \cup {kind}
      /\ UNCHANGED <<request, wire, left>> /\ worker' = "keep_alive"
      /\ worker \in {"respond", "execute_script", "created"}
  BY AnswerAdded DEF Answers, Writing
<1>2. CASE UploadCut
  <2>1. worker = "respond" /\ should_stop /\ request = 0 /\ ~AnswerCut
    BY <1>1, <1>2, AtWorkInStep DEF Astray, Session, Between, Refusing, Idle
  <2>2. kind # "cut answer"
    BY <2>1, AsksTypes, Pages DEF Answers, Ending
  <2>3. ~AnswerCut'
    BY <1>1, <2>1, <2>2 DEF AnswerCut
  <2>4. QED
    BY <1>1, <2>1, <2>3 DEF Astray
<1>3. CASE ~UploadCut
  <2>1. kind = "cut upload"
    BY <1>1, <1>3 DEF UploadCut
  <2>2. worker = "created" /\ curlength < Len(Body(request))
    BY <2>1, AsksTypes, Pages DEF Answers
  <2>3. /\ request # 0 /\ request = asked /\ Len(answers) < asked /\ ~AnswerCut
        /\ \/ wire = <<>> /\ (left \/ curlength = Len(Body(request)))
           \/ should_stop /\ Follows(2 + curlength)
    <3>1. Len(answers) \in Nat /\ asked \in Nat
      BY DialogueTypes, LenProperties DEF DataTypes
    <3>2. QED
      BY <1>3, <2>2, <3>1 DEF InTurn, OnItsWay
  <2>4. ~AnswerCut' /\ Idle'
    BY <1>1, <2>1, <2>3 DEF AnswerCut, Idle
  <2>5. /\ request \in 1 .. Len(dialogue) /\ dialogue \in Seq(Requests)
        /\ Len(Request(request)) = 2 + Len(Body(request)) /\ Len(Body(request)) \in Nat
        /\ \A k \in 1 .. Len(Body(request)) : Request(request)[2 + k] = Body(request)[k]
        /\ \A k \in 1 .. Len(Body(request)) : Body(request)[k].is \notin {"head", "end"}
        /\ curlength \in Nat
        /\ Len(wire) \in Nat /\ DOMAIN wire = 1 .. Len(wire) /\ (wire = <<>> <=> Len(wire) = 0)
    <3>1. request \in 1 .. Len(dialogue) /\ dialogue \in Seq(Requests)
      BY <2>3, DialogueTypes, AsksTypes
    <3>2. QED
      BY <3>1, DialogueTypes, RequestParts, BodyParts, WireIsAsked
  <2>6. wire = <<>> => left
    <3>1. ASSUME wire = <<>>, ~left, Follows(2 + curlength)
          PROVE  FALSE
      <4>1. 2 + curlength + Len(wire) = Len(Request(request))
        BY <2>3, <3>1 DEF Follows
      <4>2. QED
        BY <2>2, <2>5, <3>1, <4>1
    <3>2. curlength # Len(Body(request))
      BY <2>2, <2>5
    <3>3. QED
      BY <2>3, <3>1, <3>2
  <2>7. ASSUME wire # <<>>
        PROVE  should_stop /\ wire[1].is # "head"
    <3>1. should_stop /\ Follows(2 + curlength) /\ 1 \in DOMAIN wire
      BY <2>3, <2>5, <2>7
    <3>2. wire[1] = Request(request)[2 + curlength + 1]
      BY <2>3, <3>1 DEF Follows
    <3>3. curlength + 1 \in 1 .. Len(Body(request)) /\ 2 + curlength + 1 = 2 + (curlength + 1)
      BY <2>2, <2>5
    <3>4. wire[1] = Body(request)[curlength + 1]
      BY <2>5, <3>2, <3>3
    <3>5. QED
      BY <2>5, <3>1, <3>3, <3>4
  <2>8. QED
    BY <1>1, <2>4, <2>6, <2>7 DEF Astray
<1>4. QED
  BY <1>2, <1>3

LEMMA AstrayNext ==
  ASSUME TypeOK, DataTypes, Session, Passing, OnItsWay, Ending, Astray, ~UploadCut => InTurn,
         [Next]_vars
  PROVE  Astray'
<1>1. SUFFICES ASSUME UploadCut', client'.is_open, worker' # "dead"
               PROVE  Astray'
  BY DEF Astray
<1>2. ~PassConnection
  <2>1. PassConnection => DOMAIN answers' = {}
    BY NothingAnswered DEF PassConnection
  <2>2. QED
    BY <1>1, <2>1 DEF UploadCut, Range
<1>3. should_stop => should_stop'
  BY NextCases
<1>4. ASSUME NEW kind, Answers(kind)
      PROVE  Astray'
  BY <1>1, <1>3, <1>4, SentKind, AstrayAnswers
<1>5. SUFFICES ASSUME \/ Kept /\ Moves
                      \/ Ask \/ Leave \/ ReceiveHeaders \/ StartsUpload
                      \/ \E n \in Nat : ReadsOn(n)
               PROVE  Astray'
  BY <1>2, <1>4, NextCases
<1>6. UNCHANGED answers
  BY <1>5 DEF Kept, client_vars, Ask, Leave, ReceiveHeaders, StartsUpload, ReadsOn
<1>7. UploadCut /\ (AnswerCut' <=> AnswerCut)
  BY <1>1, <1>6 DEF UploadCut, AnswerCut
<1>8. client.is_open
  <2>1. answers # <<>>
    BY <1>7, NothingAnswered DEF UploadCut, Range
  <2>2. QED
    BY <1>1, <1>2, <2>1, OpensFresh
<1>9. worker' \notin Between /\ Session'
  BY <1>1, SessionNext DEF Session
<1>10. worker # "dead"
  BY <1>1, <1>5, <1>9, AtWorkInStep
     DEF Moves, Ask, Leave, ReceiveHeaders, StartsUpload, ReadsOn, Between, Refusing
<1>11. /\ ~AnswerCut
       /\ \/ should_stop /\ request = 0 /\ worker \in {"log_request", "respond", "keep_alive"}
          \/ Idle /\ IF wire = <<>> THEN left ELSE should_stop /\ wire[1].is # "head"
  BY <1>7, <1>8, <1>10 DEF Astray
<1>12. CASE Kept /\ Moves
  <2>1. UNCHANGED <<request, wire, left>>
    BY <1>12 DEF Kept, client_vars
  <2>2. CASE should_stop /\ request = 0 /\ worker \in {"log_request", "respond", "keep_alive"}
    <3>1. asks = "root"
      BY <2>2, AsksTypes
    <3>2. worker' \in {"log_request", "respond", "keep_alive"}
      BY <1>1, <1>9, <1>12, <2>2, <3>1 DEF Moves, Between, Refusing
    <3>3. QED
      BY <1>3, <1>7, <1>11, <2>1, <2>2, <3>2 DEF Astray
  <2>3. CASE Idle /\ IF wire = <<>> THEN left ELSE should_stop /\ wire[1].is # "head"
    <3>1. Idle'
      BY <1>1, <1>9, <1>12, <2>1, <2>3 DEF Moves, Idle, Between, Refusing
    <3>2. QED
      BY <1>3, <1>7, <1>11, <2>1, <2>3, <3>1 DEF Astray
  <2>4. QED
    BY <1>11, <2>2, <2>3
<1>13. CASE Ask \/ Leave
  <2>1. UNCHANGED <<worker, request, should_stop>> /\ (Idle' <=> Idle)
    BY <1>13 DEF Ask, Leave, Idle
  <2>2. CASE should_stop /\ request = 0 /\ worker \in {"log_request", "respond", "keep_alive"}
    BY <1>7, <1>11, <2>1, <2>2 DEF Astray
  <2>3. CASE Idle /\ IF wire = <<>> THEN left ELSE should_stop /\ wire[1].is # "head"
    <3>1. IF wire' = <<>> THEN left' ELSE should_stop' /\ wire'[1].is # "head"
      <4>1. CASE wire = <<>>
        <5>1. left /\ Leave => FALSE
          BY DEF Leave
        <5>2. left /\ Ask => FALSE
          BY DEF Ask
        <5>3. QED
          BY <1>13, <2>3, <4>1, <5>1, <5>2
      <4>2. CASE wire # <<>>
        <5>1. wire' # <<>> => wire'[1] = wire[1]
          BY <1>13, <4>2, FirstStays
        <5>2. wire' = <<>> => left'
          <6>1. CASE Leave
            BY <6>1 DEF Leave
          <6>2. CASE Ask
            <7>1. asked + 1 \in 1 .. Len(dialogue) /\ dialogue \in Seq(Requests)
              BY <6>2, DialogueTypes DEF Ask
            <7>2. Request(asked + 1) \in Seq(Parts) /\ wire \in Seq(Parts)
              BY <7>1, RequestParts, DialogueTypes, SeqGrows DEF AskedParts
            <7>3. wire' = wire \o Request(asked + 1)
              BY <6>2 DEF Ask
            <7>4. QED
              BY <4>2, <7>2, <7>3
          <6>3. QED
            BY <1>13, <6>1, <6>2
        <5>3. QED
          BY <2>1, <2>3, <4>2, <5>1, <5>2
      <4>3. QED
        BY <4>1, <4>2
    <3>2. QED
      BY <1>7, <1>11, <2>1, <2>3, <3>1 DEF Astray
  <2>4. QED
    BY <1>11, <2>2, <2>3
<1>14. CASE ReceiveHeaders
  <2>1. wire # <<>> /\ worker = "receive_headers" /\ UNCHANGED should_stop
    BY <1>14, WireIsAsked DEF ReceiveHeaders, Arrives
  <2>2. should_stop /\ wire[1].is # "head"
    BY <1>11, <2>1
  <2>3. PICK n \in 1 .. Len(wire) :
          \/ worker' = "log_request" /\ request' = 0
          \/ \E i \in DOMAIN SubSeq(wire, 1, n) :
                worker' = "log_request" /\ ~Throws(SubSeq(wire, 1, n), i)
    BY <1>1, <1>14 DEF ReceiveHeaders, Arrives, Unparsed
  <2>4. SubSeq(wire, 1, n)[1] = wire[1]
    <3>1. n \in 0 .. Len(wire) /\ 1 \in 1 .. n /\ wire \in Seq(AskedParts)
      BY WireIsAsked, DialogueTypes
    <3>2. QED
      BY <3>1, CutInTwo
  <2>5. worker' = "log_request" /\ request' = 0
    BY <2>2, <2>3, <2>4 DEF Throws
  <2>6. QED
    BY <1>7, <1>11, <2>1, <2>2, <2>5 DEF Astray
<1>15. CASE StartsUpload \/ \E n \in Nat : ReadsOn(n)
  BY <1>7, <1>15, AtWorkInStep DEF StartsUpload, ReadsOn
<1>16. QED
  BY <1>5, <1>12, <1>13, <1>14, <1>15

(* An answer fits for good once the worker has gone on, if it was whole.       *)
LEMMA FitsForGood ==
  ASSUME DataTypes, Session, NotParsed,
         worker \in {"receive_headers", "respond", "execute_script", "created"},
         NEW i \in DOMAIN answers, Fits(i)
  PROVE  \/ answers[i] = Expected(dialogue[i].asks)
         \/ answers[i] = "cut answer" /\ should_stop /\ i = Len(answers)
         \/ answers[i] = "cut output" /\ should_stop /\ dialogue[i].asks = "script"
         \/ answers[i] = "cut upload" /\ (should_stop \/ left) /\ dialogue[i].asks = "POST"
<1>1. SUFFICES ASSUME answers[i] = "index"
               PROVE  answers[i] = Expected(dialogue[i].asks)
  BY DEF Fits
<1>2. dialogue[i].asks = "root"
  BY <1>1, NoneMissed DEF Misses
<1>3. QED
  BY <1>1, <1>2, Pages

(* After an answer that was cut off there is no other.                         *)
LEMMA NoneAfterCut ==
  ASSUME DataTypes, Session, Astray, ~UploadCut => InTurn,
         worker \in {"respond", "execute_script", "created"}
  PROVE  ~AnswerCut
<1>1. CASE UploadCut
  BY <1>1 DEF Astray, Session, Between, Refusing
<1>2. CASE ~UploadCut
  <2>1. Len(answers) < asked /\ Len(answers) \in Nat /\ asked \in Nat /\ (AnswerCut => Len(answers) = asked)
    BY <1>2, DialogueTypes, LenProperties DEF InTurn, DataTypes
  <2>2. QED
    BY <2>1
<1>3. QED
  BY <1>1, <1>2

(* The answer that is sent fits.                                               *)
LEMMA SentFits ==
  ASSUME DataTypes, Session, OnItsWay, Ending, Astray, ~UploadCut => InTurn, should_stop => should_stop',
         NEW kind \in Kinds, Answers(kind)
  PROVE  \/ kind = Expected(dialogue[Len(answers) + 1].asks)
         \/ kind = "cut answer" /\ should_stop'
         \/ kind = "index" /\ request = 0
         \/ kind = "cut output" /\ should_stop' /\ dialogue[Len(answers) + 1].asks = "script"
         \/ kind = "cut upload" /\ (should_stop' \/ left) /\ dialogue[Len(answers) + 1].asks = "POST"
<1>1. worker \in {"respond", "execute_script", "created"} /\ (kind = "cut answer" => should_stop')
  BY AsksTypes, Pages DEF Answers, Writing
<1>2. SUFFICES ASSUME kind # "cut answer"
               PROVE  \/ kind = Expected(dialogue[Len(answers) + 1].asks)
                      \/ kind = "index" /\ request = 0
                      \/ kind = "cut output" /\ should_stop' /\ dialogue[Len(answers) + 1].asks = "script"
                      \/ kind = "cut upload" /\ (should_stop' \/ left) /\ dialogue[Len(answers) + 1].asks = "POST"
  BY <1>1
<1>3. CASE request = 0
  <2>1. asks = "root" /\ worker = "respond"
    BY <1>1, <1>3, AsksTypes DEF OnItsWay
  <2>2. QED
    BY <1>2, <1>3, <2>1, Pages DEF Answers
<1>4. CASE request # 0
  <2>1. ~UploadCut
    BY <1>1, <1>4 DEF Astray, Session, Between, Refusing, Idle
  <2>2. asked = Len(answers) + 1 /\ request = asked
    BY <1>1, <1>4, <2>1, AnswerInTurn DEF InTurn
  <2>3. asks = dialogue[Len(answers) + 1].asks
    BY <1>4, <2>2, AsksTypes
  <2>4. CASE worker = "respond"
    BY <1>2, <2>3, <2>4, AsksTypes, Pages DEF Answers
  <2>5. CASE worker = "execute_script"
    BY <1>2, <2>3, <2>5, Pages DEF Answers, OnItsWay
  <2>6. CASE worker = "created"
    BY <1>2, <2>3, <2>6, Pages DEF Answers, OnItsWay
  <2>7. QED
    BY <1>1, <2>4, <2>5, <2>6
<1>5. QED
  BY <1>3, <1>4

(* There are no more answers than requests, but after an upload cut off by     *)
(* SIGQUIT.                                                                    *)
LEMMA CountNext ==
  ASSUME TypeOK, DataTypes, Session, Passing, OnItsWay, Ending, Astray, ~UploadCut => InTurn, AnswersFit,
         [Next]_vars, ~CutOff'
  PROVE  Len(answers') <= asked'
<1>1. CASE ~UploadCut'
  BY <1>1, InTurnNext DEF InTurn
<1>2. CASE UploadCut'
  <2>1. ~should_stop /\ ~CutOff /\ Len(answers) <= asked /\ Len(answers) \in Nat /\ asked \in Nat
    BY <1>2, NextCases, DialogueTypes, LenProperties DEF CutOff, AnswersFit, DataTypes
  <2>2. CASE PassConnection
    BY <2>2, EmptySeq DEF PassConnection
  <2>3. ASSUME NEW kind, Answers(kind)
        PROVE  Len(answers') <= asked'
    <3>1. worker \in {"respond", "execute_script", "created"} /\ UNCHANGED asked
      BY <2>3 DEF Answers, Writing
    <3>2. ~UploadCut
      BY <2>1, <3>1 DEF Astray, Session, Between, Refusing, Idle
    <3>3. asked = Len(answers) + 1
      BY <3>1, <3>2, AnswerInTurn DEF InTurn
    <3>4. Len(answers') = Len(answers) + 1
      BY <2>3, SentKind, AnswerAdded
    <3>5. QED
      BY <2>1, <3>1, <3>3, <3>4
  <2>4. CASE Kept \/ Ask \/ Leave \/ ReceiveHeaders \/ StartsUpload \/ \E n \in Nat : ReadsOn(n)
    <3>1. UNCHANGED answers /\ asked' \in {asked, asked + 1}
      BY <2>4 DEF Kept, client_vars, Ask, Leave, ReceiveHeaders, StartsUpload, ReadsOn
    <3>2. QED
      BY <2>1, <3>1
  <2>5. QED
    BY <2>2, <2>3, <2>4, NextCases
<1>3. QED
  BY <1>1, <1>2

LEMMA AnswersFitNext ==
  ASSUME TypeOK, DataTypes, Session, Passing, OnItsWay, Ending, Astray, ~UploadCut => InTurn, NotParsed,
         AnswersFit, [Next]_vars
  PROVE  AnswersFit'
<1>1. ~CutOff' => Len(answers') <= asked'
  BY CountNext
<1>2. (should_stop => should_stop') /\ (left => left' \/ PassConnection)
  <2>1. Leave => left'
    BY DEF Leave
  <2>2. Leave \/ PassConnection \/ left' = left
    BY Frames
  <2>3. QED
    BY <2>1, <2>2, NextCases
<1>3. CASE PassConnection
  <2>1. DOMAIN answers' = {}
    BY <1>3, NothingAnswered DEF PassConnection
  <2>2. QED
    BY <1>1, <2>1 DEF AnswersFit
<1>4. CASE UNCHANGED <<answers, dialogue, request>> /\ ~PassConnection
  BY <1>1, <1>2, <1>4 DEF AnswersFit, Fits
<1>5. CASE ReceiveHeaders
  <2>1. UNCHANGED <<answers, dialogue, left, should_stop>> /\ worker = "receive_headers"
    BY <1>5 DEF ReceiveHeaders
  <2>2. ASSUME NEW i \in DOMAIN answers
        PROVE  Fits(i)'
    <3>1. Fits(i)
      BY <2>2 DEF AnswersFit
    <3>2. \/ answers[i] = Expected(dialogue[i].asks)
          \/ answers[i] = "cut answer" /\ should_stop /\ i = Len(answers)
          \/ answers[i] = "cut output" /\ should_stop /\ dialogue[i].asks = "script"
          \/ answers[i] = "cut upload" /\ (should_stop \/ left) /\ dialogue[i].asks = "POST"
      BY <2>1, <2>2, <3>1, FitsForGood
    <3>3. QED
      BY <2>1, <3>2 DEF Fits
  <2>3. QED
    BY <1>1, <2>1, <2>2 DEF AnswersFit
<1>6. ASSUME NEW kind \in Kinds, Answers(kind), answers' = Append(answers, kind)
      PROVE  AnswersFit'
  <2>1. UNCHANGED <<dialogue, request, left>> /\ worker \in {"respond", "execute_script", "created"}
    BY <1>6 DEF Answers, Writing
  <2>2. /\ Len(answers') = Len(answers) + 1
        /\ DOMAIN answers = 1 .. Len(answers) /\ DOMAIN answers' = 1 .. Len(answers) + 1
        /\ \A i \in 1 .. Len(answers) : answers'[i] = answers[i]
        /\ answers'[Len(answers) + 1] = kind /\ Len(answers) \in Nat
    BY <1>6, AnswerAdded
  <2>3. ASSUME NEW i \in DOMAIN answers
        PROVE  Fits(i)'
    <3>1. answers'[i] = answers[i] /\ Fits(i)
      BY <2>2, <2>3 DEF AnswersFit
    <3>2. answers[i] # "cut answer"
      BY <2>1, <2>3, NoneAfterCut DEF AnswerCut, Range
    <3>3. \/ answers[i] = Expected(dialogue[i].asks)
          \/ answers[i] = "cut output" /\ should_stop /\ dialogue[i].asks = "script"
          \/ answers[i] = "cut upload" /\ (should_stop \/ left) /\ dialogue[i].asks = "POST"
      BY <2>1, <2>3, <3>1, <3>2, FitsForGood
    <3>4. QED
      BY <1>2, <2>1, <3>1, <3>3 DEF Fits
  <2>4. ASSUME NEW i, i = Len(answers) + 1
        PROVE  Fits(i)'
    <3>1. answers'[i] = kind /\ i = Len(answers')
      BY <2>2, <2>4
    <3>2. \/ kind = Expected(dialogue[i].asks)
          \/ kind = "cut answer" /\ should_stop'
          \/ kind = "index" /\ request = 0
          \/ kind = "cut output" /\ should_stop' /\ dialogue[i].asks = "script"
          \/ kind = "cut upload" /\ (should_stop' \/ left) /\ dialogue[i].asks = "POST"
      BY <1>2, <1>6, <2>4, SentFits
    <3>3. QED
      BY <2>1, <3>1, <3>2 DEF Fits
  <2>5. \A i \in DOMAIN answers' : i \in DOMAIN answers \/ i = Len(answers) + 1
    BY <2>2
  <2>6. \A i \in DOMAIN answers' : Fits(i)'
    BY <2>3, <2>4, <2>5
  <2>7. QED
    BY <1>1, <2>6 DEF AnswersFit
<1>7. QED
  <2>1. ASSUME NEW kind, Answers(kind)
        PROVE  AnswersFit'
    BY <1>6, <2>1, SentKind
  <2>2. CASE Kept \/ Ask \/ Leave \/ StartsUpload \/ \E n \in Nat : ReadsOn(n)
    <3>1. UNCHANGED <<answers, dialogue, request>>
      BY <2>2 DEF Kept, Ask, Leave, StartsUpload, ReadsOn, client_vars
    <3>2. QED
      BY <1>3, <1>4, <3>1
  <2>3. QED
    BY <1>3, <1>5, <2>1, <2>2, NextCases

-------------------------------------------------------------------------------
(* The theorems.                                                               *)

LEMMA InitInv ==
  ASSUME Init
  PROVE  IInv
<1>1. /\ worker = "check" /\ should_stop = FALSE /\ request = 0 /\ remainder = <<>> /\ curlength = 0
      /\ file = <<>> /\ dialogue = <<>> /\ asked = 0 /\ wire = <<>> /\ answers = <<>> /\ left = FALSE
      /\ parent = "log_round" /\ pair = {} /\ available = TRUE
      /\ lines = 0 /\ logger = "check" /\ logger_stop = FALSE
      /\ client = [is_open |-> FALSE, ssl |-> "none"]
  BY DEF Init, LoggerInit
<1>2. /\ client \in [is_open : BOOLEAN, ssl : {"none", "handshake", "live", "freed", "corrupt"}]
      /\ ~client.is_open /\ client.ssl = "none"
  BY <1>1
<1>3. DOMAIN answers = {} /\ DOMAIN file = {} /\ Range(answers) = {}
  BY <1>1, NothingAnswered DEF Range
<1>4. TypeOK
  <2>1. LoggerTypeOK
    <3>1. 0 \in 0 .. LogMax
      BY LogAssumption
    <3>2. QED
      BY <1>1, <3>1 DEF LoggerTypeOK
  <2>2. request \in 0 .. Len(dialogue)
    BY <1>1, EmptySeq
  <2>3. QED
    BY <1>1, <1>2, <1>3, <2>1, <2>2, ParentLogLabels DEF TypeOK
<1>5. DataTypes
  <2>1. Len(dialogue) = 0 /\ Len(answers) = 0 /\ answers \in Seq(Kinds) /\ <<>> \in Seq(AskedParts)
    BY <1>1, EmptyQueue
  <2>2. QED
    BY <1>1, <2>1 DEF DataTypes
<1>6. Session /\ Passing /\ OnItsWay
  BY <1>1, <1>2 DEF Session, Passing, OnItsWay, Between, Refusing, Fresh
<1>7. InTurn /\ Storing /\ Astray
  <2>1. ~AnswerCut /\ ~UploadCut
    BY <1>3 DEF AnswerCut, UploadCut
  <2>2. QED
    BY <1>1, <2>1, EmptySeq DEF InTurn, Storing, Idle, Astray
<1>8. NotParsed
  BY <1>3 DEF NotParsed
<1>9. AnswersFit
  BY <1>1, <1>3, EmptySeq DEF AnswersFit
<1>10. UploadsAreStored
  BY <1>3 DEF UploadsAreStored
<1>11. Ending
  BY <1>1 DEF Ending
<1>12. QED
  BY <1>4, <1>5, <1>6, <1>7, <1>8, <1>9, <1>10, <1>11 DEF IInv

LEMMA StepInv ==
  ASSUME IInv, [Next]_vars
  PROVE  IInv'
<1> USE DEF IInv
<1>1. TypeOK' /\ DataTypes'
  BY TypeOKNext, DataTypesNext
<1>2. Session' /\ Passing' /\ OnItsWay'
  BY SessionNext, PassingNext, OnItsWayNext
<1>3. ~UploadCut' => InTurn' /\ Storing'
  BY InTurnNext, StoringNext
<1>4. NotParsed' /\ Astray' /\ AnswersFit' /\ UploadsAreStored'
  BY NotParsedNext, AstrayNext, AnswersFitNext, UploadsAreStoredNext
<1>5. Ending'
  BY EndingNext
<1>6. QED
  BY <1>1, <1>2, <1>3, <1>4, <1>5

(* The inductive invariant of a connection: the types, the session, the        *)
(* hand-over, and how the parts on the wire, what curlength has counted, the   *)
(* file and the answers go together.                                           *)
THEOREM ConnectionInvariance == Spec => []IInv
<1>1. Init => IInv
  BY InitInv
<1>2. IInv /\ [Next]_vars => IInv'
  BY StepInv
<1>3. QED
  BY <1>1, <1>2, PTL DEF Spec

(* Client::close frees a session once, no call uses it afterwards, and the     *)
(* worker has freed it before it takes the next connection.                    *)
THEOREM SessionsAreClosed == Spec => []SessionsEndOnce
<1>1. IInv => SessionsEndOnce
  BY LogLabels DEF IInv, TypeOK, Session, SessionsEndOnce, UsesSsl, Between, Refusing
<1>2. QED
  BY <1>1, ConnectionInvariance, PTL

(* receive_headers begins to read where a request begins.                      *)
THEOREM ConnectionInStep == Spec => []InStep
<1>1. IInv => InStep
  <2>1. SUFFICES ASSUME IInv, worker = "receive_headers", wire # <<>>, ~CutOff
                 PROVE  wire[1].is = "head"
    BY DEF InStep
  <2>2. ~UploadCut
    <3>1. client.is_open
      BY <2>1 DEF IInv, Session, Between, Refusing
    <3>2. QED
      BY <2>1, <3>1 DEF IInv, Astray, CutOff
  <2>3. DataTypes /\ Follows(0)
    BY <2>1, <2>2 DEF IInv, InTurn, Idle
  <2>4. 1 \in DOMAIN wire /\ asked \in 1 .. Len(dialogue) /\ dialogue \in Seq(Requests)
    BY <2>1, <2>3, WireIsAsked, DialogueTypes
  <2>5. wire[1] = Request(asked)[0 + 1] /\ 0 + 1 = 1
    BY <2>3, <2>4 DEF Follows
  <2>6. Request(asked)[1].is = "head"
    BY <2>4, RequestParts
  <2>7. QED
    BY <2>5, <2>6
<1>2. QED
  BY <1>1, ConnectionInvariance, PTL

(* An upload that is answered 201 after curlength has counted all of it is in  *)
(* the file in one piece, in order and without a part missing, however its     *)
(* parts were split over reads.  An upload that was cut off is answered 201    *)
(* too, and of that the theorem says nothing.                                  *)
THEOREM UploadStored == Spec => []UploadsAreStored
<1>1. IInv => UploadsAreStored
  BY DEF IInv
<1>2. QED
  BY <1>1, ConnectionInvariance, PTL

(* Every answer is the one to the request with its number, whole or, when      *)
(* SIGQUIT has cut it off, the last one the client gets; the index instead of  *)
(* it ends the connection.                                                     *)
THEOREM AnswersInTurn == Spec => []AnswersFit
<1>1. IInv => AnswersFit
  BY DEF IInv
<1>2. QED
  BY <1>1, ConnectionInvariance, PTL

(* Nobody waits for room in /logger after the logger has been told to stop.    *)
THEOREM LoggerOutlivesSenders == Spec => []SendersAreHeard
<1>1. IInv => SendersAreHeard
  BY LogLabels, ParentLogLabels DEF IInv, Ending, WorkerEnded, SendersAreHeard
<1>2. QED
  BY <1>1, ConnectionInvariance, PTL
===============================================================================
