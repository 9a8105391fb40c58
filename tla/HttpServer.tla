------------------------------- MODULE HttpServer -------------------------------
(*******************************************************************************)
(* The processes of http_server/core/Server.cpp: the parent, which accepts     *)
(* connections and passes each to a worker announced in the message queue      *)
(* /available, the workers, and the signals that stop them.                    *)
(*                                                                             *)
(* Worker i is the child of the i-th fork and stands for its pid too.  A call  *)
(* that may block is at "x" before the call and at "xing" asleep in it: only a *)
(* sleeping call is interrupted by a signal.  Logging is left out, and the TLS *)
(* handshake of a connection is part of its first read.                        *)
(*******************************************************************************)
EXTENDS Integers, Sequences, FiniteSets, Functions

CONSTANTS
  Connections,      \* the connections clients may open
  NoConnection,
  MaxConnections,   \* _max_connections: number of workers, capacity of /available
  Leftover,         \* entries an earlier run has left in /available
  MaxSigints,       \* how often SIGINT is sent to the parent
  ForkMayFail,      \* whether fork and socketpair may fail
  MayAbort          \* whether a process may end abnormally while it answers

ASSUME ServerAssumption ==
  /\ NoConnection \notin Connections
  /\ MaxConnections \in Nat \ {0}
  /\ Leftover \in 0 .. MaxConnections
  /\ MaxSigints \in Nat
  /\ {ForkMayFail, MayAbort} \subseteq BOOLEAN

Workers == 0 .. MaxConnections - 1
Stale   == MaxConnections   \* a dead pid: std::find returns the end of the vector

VARIABLES
  parent,       \* where the parent is
  index,        \* the i of its two loops over the workers
  new_socket,   \* the connection it is handing over
  pid,          \* the worker it hands it to
  should_stop,  \* _should_stop of the parent
  open_pairs,   \* workers i whose end _socket_pairs[i][0] the parent has open
  available,    \* the message queue /available
  worker,       \* where each worker is
  stop,         \* _should_stop of each worker
  channel,      \* descriptors on their way over a worker's socket pair
  serving,      \* the connection a worker serves
  backlog,      \* connections waiting for accept
  peer,         \* what the client of a connection has done last
  ended,        \* connections the server is through with
  sigints       \* SIGINTs sent so far

parent_vars == <<parent, index, new_socket, pid, should_stop, open_pairs>>
worker_vars == <<worker, stop, channel, serving>>
client_vars == <<backlog, peer>>
vars == <<parent_vars, worker_vars, client_vars, available, ended, sigints>>

ParentLabels ==
  {"fork", "announce", "check", "accept", "accepting", "receive", "receiving", "send",
   "refuse", "refusing", "quit", "wait", "done", "killed"}
WorkerLabels ==
  {"none", "start", "check", "recv", "recving", "read", "reading", "answer", "announce", "gone"}

TypeOK ==
  /\ parent \in ParentLabels
  /\ index \in 0 .. MaxConnections
  /\ new_socket \in Connections \cup {NoConnection}
  /\ pid \in 0 .. MaxConnections
  /\ should_stop \in BOOLEAN
  /\ open_pairs \subseteq Workers
  /\ available \in Seq(0 .. MaxConnections)
  /\ Len(available) <= MaxConnections
  /\ worker \in [Workers -> WorkerLabels]
  /\ stop \in [Workers -> BOOLEAN]
  /\ channel \in [Workers -> Seq(Connections)]
  /\ serving \in [Workers -> Connections \cup {NoConnection}]
  /\ backlog \in Seq(Connections)
  /\ peer \in [Connections -> {"absent", "idle", "asking", "gone"}]
  /\ ended \subseteq Connections
  /\ sigints \in 0 .. MaxSigints

Init ==
  /\ parent = "fork"
  /\ index = 0
  /\ new_socket = NoConnection
  /\ pid = 0
  /\ should_stop = FALSE
  /\ open_pairs = {}
  /\ available = [i \in 1 .. Leftover |-> Stale]
  /\ worker = [w \in Workers |-> "none"]
  /\ stop = [w \in Workers |-> FALSE]
  /\ channel = [w \in Workers |-> <<>>]
  /\ serving = [w \in Workers |-> NoConnection]
  /\ backlog = <<>>
  /\ peer = [c \in Connections |-> "absent"]
  /\ ended = {}
  /\ sigints = 0

Full == Len(available) = MaxConnections
Stopped == {"done", "killed"}   \* the parent no longer exists

-------------------------------------------------------------------------------
(* start_client_processes.                                                     *)

(* socketpair, whose failure ends the parent, and fork, whose failure leaves   *)
(* pid 0 in _client_processes and both ends of the pair open.                  *)
Fork ==
  /\ parent = "fork"
  /\ index < MaxConnections
  /\ open_pairs' = open_pairs \cup {index}
  /\ \/ /\ worker' = [worker EXCEPT ![index] = "start"]
        /\ parent' = "announce"
        /\ UNCHANGED index
     \/ /\ ForkMayFail
        /\ index' = index + 1
        /\ UNCHANGED <<worker, parent>>
     \/ /\ ForkMayFail
        /\ parent' = "killed"
        /\ UNCHANGED <<worker, index>>
  /\ UNCHANGED <<new_socket, pid, should_stop, available, stop, channel, serving,
                 client_vars, ended, sigints>>

AnnounceChild ==
  /\ parent = "announce"
  /\ ~Full
  /\ available' = Append(available, index)
  /\ index' = index + 1
  /\ parent' = "fork"
  /\ UNCHANGED <<new_socket, pid, should_stop, open_pairs, worker_vars,
                 client_vars, ended, sigints>>

Started ==
  /\ parent = "fork"
  /\ index = MaxConnections
  /\ parent' = "check"
  /\ UNCHANGED <<index, new_socket, pid, should_stop, open_pairs, worker_vars,
                 client_vars, available, ended, sigints>>

-------------------------------------------------------------------------------
(* The accept loop of run.                                                     *)

Check ==
  /\ parent = "check"
  /\ IF should_stop THEN parent' = "quit" /\ index' = 0
     ELSE parent' = "accept" /\ UNCHANGED index
  /\ UNCHANGED <<new_socket, pid, should_stop, open_pairs, worker_vars,
                 client_vars, available, ended, sigints>>

Accept ==
  /\ parent \in {"accept", "accepting"}
  /\ IF backlog = <<>>
       THEN /\ parent = "accept"
            /\ parent' = "accepting"
            /\ UNCHANGED <<new_socket, backlog>>
       ELSE /\ new_socket' = Head(backlog)
            /\ backlog' = Tail(backlog)
            /\ parent' = "receive"
  /\ UNCHANGED <<index, pid, should_stop, open_pairs, worker_vars, peer, available, ended,
                 sigints>>

(* mq_receive on /available.  It blocks: O_NONBLOCK in the attributes given to *)
(* mq_open has no effect.                                                      *)
Receive ==
  /\ parent \in {"receive", "receiving"}
  /\ IF available = <<>>
       THEN /\ parent = "receive"
            /\ parent' = "receiving"
            /\ UNCHANGED <<pid, available>>
       ELSE /\ pid' = Head(available)
            /\ available' = Tail(available)
            /\ parent' = "send"
  /\ UNCHANGED <<index, new_socket, should_stop, open_pairs, worker_vars,
                 client_vars, ended, sigints>>

(* Mutant of Send: client_index is always 0.                                   *)
Send_FirstWorker ==
  /\ parent = "send"
  /\ pid \in Workers
  /\ worker[0] # "gone"
  /\ channel' = [channel EXCEPT ![0] = Append(@, new_socket)]
  /\ new_socket' = NoConnection
  /\ parent' = "check"
  /\ UNCHANGED <<index, pid, should_stop, open_pairs, worker, stop, serving, client_vars,
                 available, ended, sigints>>

(* send_fd to a pair whose worker lives.  The parent keeps new_socket open.    *)
Send ==
  /\ parent = "send"
  /\ pid \in Workers
  /\ worker[pid] # "gone"
  /\ channel' = [channel EXCEPT ![pid] = Append(@, new_socket)]
  /\ new_socket' = NoConnection
  /\ parent' = "check"
  /\ UNCHANGED <<index, pid, should_stop, open_pairs, worker, stop, serving, client_vars,
                 available, ended, sigints>>

(* Mutants of AnnounceAgain: the mq_send is missing, or sends the descriptor.  *)
AnnounceAgain_Missing == UNCHANGED available
AnnounceAgain_Socket  == available' = Append(available, new_socket)

AnnounceAgain == available' = Append(available, pid)

(* Mutant of CloseNew: close(new_socket) is missing.                           *)
CloseNew_Missing == UNCHANGED ended /\ new_socket' = NoConnection

CloseNew == ended' = ended \cup {new_socket} /\ new_socket' = NoConnection

(* sendmsg fails: the worker is announced again and the connection closed.     *)
SendFails ==
  /\ parent = "send"
  /\ ~Full
  /\ AnnounceAgain
  /\ CloseNew
  /\ parent' = "check"
  /\ UNCHANGED <<index, pid, should_stop, open_pairs, worker_vars, client_vars, sigints>>

(* Nobody holds the other end: SIGPIPE.                                        *)
SendToTheDead ==
  /\ parent = "send"
  /\ pid \in Workers
  /\ worker[pid] = "gone"
  /\ parent' = "killed"
  /\ UNCHANGED <<index, new_socket, pid, should_stop, open_pairs, worker_vars, client_vars,
                 available, ended, sigints>>

(* client_index past the end of _socket_pairs: the int found there may be any  *)
(* descriptor, of a pair or of something that swallows the message.            *)
SendAstray ==
  /\ parent = "send"
  /\ pid = Stale
  /\ \/ /\ parent' = "killed"
        /\ UNCHANGED <<new_socket, channel>>
     \/ /\ parent' = "check"
        /\ new_socket' = NoConnection
        /\ \/ \E w \in open_pairs :
                /\ worker[w] \notin {"none", "gone"}
                /\ channel' = [channel EXCEPT ![w] = Append(@, new_socket)]
           \/ UNCHANGED channel
  /\ UNCHANGED <<index, pid, should_stop, open_pairs, worker, stop, serving, client_vars,
                 available, ended, sigints>>

(* mq_receive has failed, interrupted: the parent itself waits for the         *)
(* client's handshake, answers 503 and closes.                                 *)
Refuse ==
  /\ parent \in {"refuse", "refusing"}
  /\ IF peer[new_socket] = "idle"
       THEN /\ parent = "refuse"
            /\ parent' = "refusing"
            /\ UNCHANGED <<new_socket, ended>>
       ELSE /\ CloseNew
            /\ \/ parent' = "check"
               \/ MayAbort /\ parent' = "killed"
  /\ UNCHANGED <<index, pid, should_stop, open_pairs, worker_vars, client_vars, available,
                 sigints>>

-------------------------------------------------------------------------------
(* Signals and shutdown.                                                       *)

(* A worker that has no handler yet dies of the signal, one asleep in recvmsg  *)
(* or SSL_read is interrupted, any other only finds _should_stop set later.    *)
Dies(w)     == worker[w] = "start"
WakesUp(w)  == worker[w] = "recving" /\ channel[w] = <<>>
HangsUp(w)  == worker[w] = "reading" /\ peer[serving[w]] = "idle"
InFlight(w) == Range(channel[w])

(* The kernel closes what a process that ends has open or has not received.    *)
Vanishes(w) ==
  /\ worker' = [worker EXCEPT ![w] = "gone"]
  /\ serving' = [serving EXCEPT ![w] = NoConnection]
  /\ channel' = [channel EXCEPT ![w] = <<>>]
  /\ ended' = ended \cup InFlight(w) \cup ({serving[w]} \ {NoConnection})

(* SIGQUIT to the workers in S.                                                *)
Sigquit(S) ==
  /\ stop' = [w \in Workers |-> stop[w] \/ w \in S]
  /\ worker' = [w \in Workers |->
       CASE w \in S /\ Dies(w)    -> "gone"
         [] w \in S /\ WakesUp(w) -> "check"
         [] w \in S /\ HangsUp(w) -> "announce"
         [] OTHER                 -> worker[w]]
  /\ channel' = [w \in Workers |-> IF w \in S /\ Dies(w) THEN <<>> ELSE channel[w]]
  /\ serving' = [w \in Workers |-> IF w \in S /\ HangsUp(w) THEN NoConnection ELSE serving[w]]
  /\ ended' = ended \cup {serving[w] : w \in {v \in S : HangsUp(v)}}
                   \cup UNION {InFlight(w) : w \in {v \in S : Dies(v)}}

(* One round of the shutdown's loop up to waitpid; kill(0), for a worker that  *)
(* was not forked, signals every process of the group and ends the parent.     *)
Quit ==
  /\ parent = "quit"
  /\ open_pairs' = open_pairs \ {index}
  /\ IF worker[index] = "none"
       THEN Sigquit({w \in Workers : worker[w] # "none"}) /\ parent' = "killed"
       ELSE Sigquit({index}) /\ parent' = "wait"
  /\ UNCHANGED <<index, new_socket, pid, should_stop, client_vars, available, sigints>>

(* The rest of the round, after waitpid.                                       *)
NextChild ==
  IF index + 1 < MaxConnections
    THEN parent' = "quit" /\ index' = index + 1
    ELSE parent' = "done" /\ UNCHANGED index

(* Mutant of WaitEnds: the parent does not wait for the child.                 *)
WaitEnds_AtOnce ==
  /\ parent = "wait"
  /\ NextChild
  /\ UNCHANGED <<new_socket, pid, should_stop, open_pairs, worker_vars, client_vars,
                 available, ended, sigints>>

WaitEnds ==
  /\ parent = "wait"
  /\ worker[index] = "gone"
  /\ NextChild
  /\ UNCHANGED <<new_socket, pid, should_stop, open_pairs, worker_vars, client_vars,
                 available, ended, sigints>>

Asleep ==
  \/ parent = "accepting" /\ backlog = <<>>
  \/ parent = "receiving" /\ available = <<>>
  \/ parent = "refusing" /\ peer[new_socket] = "idle"
  \/ parent = "wait" /\ worker[index] # "gone"

(* What the handler and EINTR do to the parent in each place.                  *)
SigintParent ==
  \/ /\ parent \in {"fork", "announce"}   \* no handler yet
     /\ parent' = "killed"
     /\ UNCHANGED <<index, new_socket, should_stop>>
  \/ /\ parent \notin {"fork", "announce"} \cup Stopped
     /\ should_stop' = TRUE
     /\ \/ /\ parent = "accepting" /\ backlog = <<>>
           /\ parent' = "check"
           /\ UNCHANGED <<index, new_socket>>
        \/ /\ parent = "receiving" /\ available = <<>>
           /\ parent' = "refuse"
           /\ UNCHANGED <<index, new_socket>>
        \/ /\ parent = "refusing" /\ peer[new_socket] = "idle"
           /\ parent' = "check"
           /\ new_socket' = NoConnection
           /\ UNCHANGED index
        \/ /\ parent = "wait" /\ worker[index] # "gone"
           /\ NextChild
           /\ UNCHANGED new_socket
        \/ /\ ~Asleep
           /\ UNCHANGED <<parent, index, new_socket>>

(* SIGINT to the group, as the terminal sends it.                              *)
Sigint ==
  /\ sigints < MaxSigints
  /\ parent \notin Stopped
  /\ sigints' = sigints + 1
  /\ SigintParent
  /\ ended' = IF new_socket' = new_socket THEN ended ELSE ended \cup {new_socket}
  /\ UNCHANGED <<pid, open_pairs, worker_vars, client_vars, available>>

(* A worker has got SIGINT before it could ask to ignore it.                   *)
SigintWorker(w) ==
  /\ sigints > 0
  /\ worker[w] = "start"
  /\ Vanishes(w)
  /\ UNCHANGED <<parent_vars, stop, client_vars, available, sigints>>

-------------------------------------------------------------------------------
(* handle_communication.                                                       *)

Install(w) ==
  /\ worker[w] = "start"
  /\ worker' = [worker EXCEPT ![w] = "check"]
  /\ UNCHANGED <<parent_vars, stop, channel, serving, client_vars, available, ended, sigints>>

CheckStop(w) ==
  /\ worker[w] = "check"
  /\ IF stop[w]
       THEN Vanishes(w)
       ELSE /\ worker' = [worker EXCEPT ![w] = "recv"]
            /\ UNCHANGED <<serving, channel, ended>>
  /\ UNCHANGED <<parent_vars, stop, client_vars, available, sigints>>

(* Mutant of EndOfFile: w has not closed its own copy of the parent's end.     *)
EndOfFile_OwnCopy(w) ==
  /\ w \notin open_pairs \/ parent \in Stopped
  /\ \A v \in Workers : v >= w => worker[v] \in {"none", "gone"}

(* Nobody can write to w any more: workers forked after w have inherited the   *)
(* parent's end of its pair.                                                   *)
EndOfFile(w) ==
  /\ w \notin open_pairs \/ parent \in Stopped
  /\ \A v \in Workers : v > w => worker[v] \in {"none", "gone"}

(* Mutant of Continue: a worker that got no descriptor announces itself, too.  *)
Continue_Announces(w) == worker' = [worker EXCEPT ![w] = "announce"]

(* recv_fd has returned -1.                                                    *)
Continue(w) == worker' = [worker EXCEPT ![w] = "check"]

RecvFd(w) ==
  /\ worker[w] \in {"recv", "recving"}
  /\ \/ /\ channel[w] # <<>>
        /\ serving' = [serving EXCEPT ![w] = Head(channel[w])]
        /\ channel' = [channel EXCEPT ![w] = Tail(@)]
        /\ worker' = [worker EXCEPT ![w] = "read"]
     \/ /\ channel[w] = <<>>
        /\ EndOfFile(w)
        /\ Continue(w)
        /\ UNCHANGED <<serving, channel>>
     \/ /\ channel[w] = <<>>
        /\ ~EndOfFile(w)
        /\ worker[w] = "recv"
        /\ worker' = [worker EXCEPT ![w] = "recving"]
        /\ UNCHANGED <<serving, channel>>
  /\ UNCHANGED <<parent_vars, stop, client_vars, available, ended, sigints>>

(* Mutant of Close: the worker does not announce itself again.                 *)
Close_Silent(w) ==
  /\ worker' = [worker EXCEPT ![w] = "check"]
  /\ serving' = [serving EXCEPT ![w] = NoConnection]
  /\ ended' = ended \cup {serving[w]}

(* Client::close, after which the loop over the requests ends.                 *)
Close(w) ==
  /\ worker' = [worker EXCEPT ![w] = "announce"]
  /\ serving' = [serving EXCEPT ![w] = NoConnection]
  /\ ended' = ended \cup {serving[w]}

(* receive_headers.                                                            *)
Read(w) ==
  /\ worker[w] \in {"read", "reading"}
  /\ \/ /\ peer[serving[w]] = "asking"
        /\ worker' = [worker EXCEPT ![w] = "answer"]
        /\ UNCHANGED <<serving, ended>>
     \/ /\ peer[serving[w]] = "gone"
        /\ Close(w)
     \/ /\ peer[serving[w]] = "idle"
        /\ worker[w] = "read"
        /\ worker' = [worker EXCEPT ![w] = "reading"]
        /\ UNCHANGED <<serving, ended>>
  /\ UNCHANGED <<parent_vars, stop, channel, client_vars, available, sigints>>

(* The response, and keep-alive or close.                                      *)
Answer(w) ==
  /\ worker[w] = "answer"
  /\ peer' = [peer EXCEPT ![serving[w]] = IF @ = "asking" THEN "idle" ELSE @]
  /\ \/ /\ worker' = [worker EXCEPT ![w] = "read"]
        /\ UNCHANGED <<serving, ended>>
     \/ Close(w)
  /\ UNCHANGED <<parent_vars, stop, channel, backlog, available, sigints>>

(* SIGPIPE from a client that has left, in an answer or in the SSL_shutdown of *)
(* close; an exception while parsing.                                          *)
Abort(w) ==
  /\ MayAbort
  /\ \/ worker[w] = "answer"
     \/ worker[w] \in {"read", "reading"} /\ peer[serving[w]] = "gone"
  /\ Vanishes(w)
  /\ UNCHANGED <<parent_vars, stop, client_vars, available, sigints>>

Announce(w) ==
  /\ worker[w] = "announce"
  /\ ~Full
  /\ available' = Append(available, w)
  /\ worker' = [worker EXCEPT ![w] = "check"]
  /\ UNCHANGED <<parent_vars, stop, channel, serving, client_vars, ended, sigints>>

-------------------------------------------------------------------------------
(* Clients.  The workers, too, keep the listening socket open.                 *)

Connect(c) ==
  /\ peer[c] = "absent"
  /\ parent \notin Stopped \/ \E w \in Workers : worker[w] \notin {"none", "gone"}
  /\ peer' = [peer EXCEPT ![c] = "idle"]
  /\ backlog' = Append(backlog, c)
  /\ UNCHANGED <<parent_vars, worker_vars, available, ended, sigints>>

Ask(c) ==
  /\ peer[c] = "idle"
  /\ c \notin ended
  /\ peer' = [peer EXCEPT ![c] = "asking"]
  /\ UNCHANGED <<parent_vars, worker_vars, backlog, available, ended, sigints>>

Leave(c) ==
  /\ peer[c] \in {"idle", "asking"}
  /\ c \notin ended
  /\ peer' = [peer EXCEPT ![c] = "gone"]
  /\ UNCHANGED <<parent_vars, worker_vars, backlog, available, ended, sigints>>

-------------------------------------------------------------------------------
ParentStep ==
  \/ Fork \/ AnnounceChild \/ Started
  \/ Check \/ Accept \/ Receive
  \/ Send \/ SendFails \/ SendToTheDead \/ SendAstray \/ Refuse
  \/ Quit \/ WaitEnds

WorkerStep(w) ==
  \/ Install(w) \/ SigintWorker(w) \/ CheckStop(w) \/ RecvFd(w)
  \/ Read(w) \/ Answer(w) \/ Abort(w) \/ Announce(w)

Next ==
  \/ ParentStep
  \/ Sigint
  \/ \E w \in Workers : WorkerStep(w)
  \/ \E c \in Connections : Connect(c) \/ Ask(c) \/ Leave(c)

Spec == Init /\ [][Next]_vars

(* The operating system runs every process that can run; clients do not stay   *)
(* for ever.                                                                   *)
ProcessesRun  == WF_vars(ParentStep) /\ \A w \in Workers : WF_vars(WorkerStep(w))
ClientsLeave  == \A c \in Connections : WF_vars(Leave(c))
RunningSpec   == Spec /\ ProcessesRun
FairSpec      == Spec /\ ProcessesRun /\ ClientsLeave

-------------------------------------------------------------------------------
(* Properties.                                                                 *)

Live(w) == worker[w] \notin {"none", "gone"}
Busy(w) == worker[w] \in {"read", "reading", "answer"}

Truth(p) == IF p THEN 1 ELSE 0

Places(c) ==
  {<<"backlog", i>> : i \in {j \in DOMAIN backlog : backlog[j] = c}}
  \cup {<<"new_socket", 0>> : p \in {new_socket} \cap {c}}
  \cup {<<"channel", w>> : w \in {v \in Workers : c \in InFlight(v)}}
  \cup {<<"serving", w>> : w \in {v \in Workers : serving[v] = c}}
  \cup {<<"ended", 0>> : p \in ended \cap {c}}

(* The hand-over over three processes and two queues neither loses a           *)
(* connection nor gives it to two: each that has arrived is in one place.      *)
OnePlace ==
  \A c \in Connections : Cardinality(Places(c)) = Truth(peer[c] # "absent")

Free(w) ==
  /\ worker[w] \notin {"none", "announce"}
  /\ channel[w] = <<>>
  /\ serving[w] = NoConnection

(* Whom the parent may give a connection, now or after its next steps.         *)
Offered ==
  Range(available) \cup {w \in {pid} : parent = "send"} \cup {w \in {index} : parent = "announce"}

(* A worker is announced exactly while it is free, and once only: neither the  *)
(* hand-over nor a signal, a failed sendmsg or an interrupted mq_receive loses *)
(* a pid or announces it twice.                                                *)
AnnouncedWhenFree ==
  /\ IsInjective(available)
  /\ parent # "killed" => \A w \in Workers : Live(w) => (Free(w) <=> w \in Offered)

(* Once the server has started no mq_send on /available blocks, whatever an    *)
(* earlier run left there, forks failed, processes died and SIGINT cut short.  *)
AnnouncingNeverBlocks ==
  Full => /\ \A w \in Workers : worker[w] # "announce"
          /\ parent # "send"

(* A parent that has run to its end leaves no worker behind, if no second      *)
(* SIGINT has cut its waiting short.                                           *)
NoOrphans == parent = "done" => \A w \in Workers : ~Live(w)

(* The inductive invariant behind it: the loops' index is in range, whoever    *)
(* handles a connection has one, and the shutdown, which only a SIGINT begins, *)
(* has seen the end of every worker it has passed.                             *)
IndexInRange == parent \in {"announce", "quit", "wait"} => index < MaxConnections

Handing == {"receive", "receiving", "send", "refuse", "refusing"}

HandsFull ==
  /\ parent \in Handing => new_socket \in Connections
  /\ \A w \in Workers : Busy(w) => serving[w] \in Connections

ShutdownProgress ==
  /\ should_stop => sigints > 0
  /\ parent \in {"quit", "wait", "done"} => should_stop
  /\ parent \in {"quit", "wait"} => \A w \in 0 .. index - 1 : worker[w] = "gone"
  /\ parent = "done" => \A w \in Workers : worker[w] = "gone"

(* Entries that /available will still get from a worker or for it, one for     *)
(* each connection it has: with those there, and the one in the parent's hand, *)
(* they fit.  Until the server has started nobody has a connection.            *)
Owed ==
  [w \in Workers |-> Len(channel[w]) + Truth(Busy(w) \/ worker[w] = "announce")]

Room ==
  /\ Len(available) + Truth(parent = "send") + SumFunction(Owed) <= MaxConnections
  /\ parent \in {"fork", "announce"} => \A w \in Workers : Owed[w] = 0

IInv == TypeOK /\ IndexInRange /\ HandsFull /\ ShutdownProgress /\ Room

(* The connections as WorkerPool sees them.                                    *)
waiting == IF new_socket = NoConnection THEN backlog ELSE <<new_socket>> \o backlog
owner   == [w \in Workers |-> IF channel[w] = <<>> THEN serving[w] ELSE Head(channel[w])]

(* Connections are handed over in the order of their arrival, to workers that  *)
(* serve nobody else.                                                          *)
Pool == INSTANCE WorkerPool
HandsOverInOrder == Pool!Spec

(* The inductive invariant of the hand-over, when /available was empty at the  *)
(* start: besides AnnouncedWhenFree, which slots are still to be forked, where *)
(* a connection can be, and that none is anywhere before it arrives.           *)
OneAtATime ==
  \A w \in Workers :
    /\ serving[w] # NoConnection <=> Busy(w)
    /\ Len(channel[w]) <= 1
    /\ channel[w] # <<>> => worker[w] \in {"start", "check", "recv", "recving"}

YetToFork ==
  \A w \in Workers :
    /\ parent = "fork" /\ w >= index => worker[w] = "none"
    /\ parent = "announce" /\ w > index => worker[w] = "none"

OfferedAreFree ==
  /\ \A w \in Offered : w \in Workers /\ Free(w)
  /\ parent = "send" => pid \notin Range(available)
  /\ parent = "announce" => index \notin Range(available)

Here ==
  Range(backlog) \cup {new_socket} \cup ended
    \cup {serving[w] : w \in Workers} \cup UNION {InFlight(w) : w \in Workers}

NotYetHere == \A c \in Connections : peer[c] = "absent" => c \notin Here

HandsEmpty == parent \notin Handing \cup {"killed"} => new_socket = NoConnection

HandOver ==
  /\ AnnouncedWhenFree
  /\ OfferedAreFree
  /\ OneAtATime
  /\ YetToFork
  /\ NotYetHere
  /\ HandsEmpty

(* Every connection that arrives is dealt with, as long as clients leave some  *)
(* day, unless somebody stops the server.                                      *)
EveryConnectionEnds ==
  \A c \in Connections : peer[c] # "absent" ~> c \in ended \/ sigints > 0

(* Once run has left its loop the server stops: it kills each child process    *)
(* and waits for it.                                                           *)
ShutdownEnds == parent = "quit" ~> parent = "done"
===============================================================================
