---------------------------- MODULE HttpServerProofs ----------------------------
(*******************************************************************************)
(* Proofs about HttpServer, for any number of workers and connections, any     *)
(* leftovers in /available, and with all of its faults.                        *)
(*******************************************************************************)
EXTENDS HttpServer, CommonLemmas

TypeInv == TypeOK /\ IndexInRange /\ HandsFull

LEMMA InFlightType ==
  ASSUME TypeOK, NEW w \in Workers
  PROVE  InFlight(w) \subseteq Connections
<1>1. channel[w] \in Seq(Connections)
  BY DEF TypeOK
<1>2. QED
  BY <1>1, QueueTypes DEF InFlight, Range

(* A process that ends leaves everything else well typed.                      *)
LEMMA VanishesType ==
  ASSUME TypeInv, NEW w \in Workers, Vanishes(w)
  PROVE  /\ worker' \in [Workers -> WorkerLabels]
         /\ channel' \in [Workers -> Seq(Connections)]
         /\ serving' \in [Workers -> Connections \cup {NoConnection}]
         /\ ended' \subseteq Connections
         /\ \A v \in Workers : Busy(v)' => serving'[v] \in Connections
<1>1. InFlight(w) \subseteq Connections
  BY InFlightType DEF TypeInv
<1>2. /\ worker' \in [Workers -> WorkerLabels]
      /\ serving' \in [Workers -> Connections \cup {NoConnection}]
  BY DEF TypeInv, TypeOK, Vanishes, WorkerLabels
<1>3. channel' \in [Workers -> Seq(Connections)]
  BY EmptyQueue DEF TypeInv, TypeOK, Vanishes
<1>4. ended' \subseteq Connections
  BY <1>1 DEF TypeInv, TypeOK, Vanishes
<1>5. ASSUME NEW v \in Workers, Busy(v)'
      PROVE  serving'[v] \in Connections
  BY <1>5 DEF TypeInv, TypeOK, HandsFull, Handing, Busy, Vanishes
<1>6. QED
  BY <1>2, <1>3, <1>4, <1>5

LEMMA InitType == Init => TypeInv
<1>. SUFFICES ASSUME Init PROVE TypeInv
  OBVIOUS
<1>1. available \in Seq(0 .. MaxConnections) /\ Len(available) = Leftover
  BY ServerAssumption DEF Init, Stale
<1>2. channel \in [Workers -> Seq(Connections)] /\ backlog \in Seq(Connections)
  BY EmptyQueue DEF Init
<1>3. /\ worker \in [Workers -> WorkerLabels]
      /\ stop \in [Workers -> BOOLEAN]
      /\ serving \in [Workers -> Connections \cup {NoConnection}]
      /\ peer \in [Connections -> {"absent", "idle", "asking", "gone"}]
  BY DEF Init, WorkerLabels
<1>4. /\ 0 \in 0 .. MaxConnections
      /\ 0 \in 0 .. MaxSigints
      /\ Leftover <= MaxConnections
  BY ServerAssumption
<1>5. TypeOK
  BY <1>1, <1>2, <1>3, <1>4 DEF Init, TypeOK, ParentLabels
<1>6. IndexInRange /\ HandsFull
  BY DEF Init, IndexInRange, HandsFull, Handing, Busy
<1>7. QED
  BY <1>5, <1>6 DEF TypeInv

LEMMA ForkType ==
  ASSUME TypeInv, Fork
  PROVE  TypeInv'
<1>1. index \in Workers /\ index' \in 0 .. MaxConnections
  BY ServerAssumption DEF TypeInv, TypeOK, Fork, Workers
<1>2. worker' \in [Workers -> WorkerLabels]
  BY <1>1 DEF TypeInv, TypeOK, Fork, WorkerLabels
<1>3. TypeOK'
  BY <1>1, <1>2 DEF TypeInv, TypeOK, Fork, ParentLabels, client_vars
<1>4. IndexInRange' /\ HandsFull'
  BY <1>1 DEF TypeInv, TypeOK, IndexInRange, HandsFull, Handing, Busy, Fork, client_vars
<1>5. QED
  BY <1>3, <1>4 DEF TypeInv

LEMMA AnnounceChildType ==
  ASSUME TypeInv, AnnounceChild
  PROVE  TypeInv'
<1>1. TypeOK'
  BY QueueTypes, ServerAssumption
    DEF TypeInv, TypeOK, IndexInRange, HandsFull, Handing, AnnounceChild, ParentLabels, Full,
        Workers, worker_vars, client_vars
<1>2. IndexInRange' /\ HandsFull'
  BY
    DEF TypeInv, TypeOK, IndexInRange, HandsFull, Handing, Busy, AnnounceChild, ParentLabels,
        Full, Workers, worker_vars, client_vars
<1>3. QED
  BY <1>1, <1>2 DEF TypeInv

LEMMA StartedType ==
  ASSUME TypeInv, Started
  PROVE  TypeInv'
<1>1. TypeOK'
  BY
    DEF TypeInv, TypeOK, IndexInRange, HandsFull, Handing, Started, ParentLabels, worker_vars,
        client_vars
<1>2. IndexInRange' /\ HandsFull'
  BY
    DEF TypeInv, TypeOK, IndexInRange, HandsFull, Handing, Busy, Started, ParentLabels,
        worker_vars, client_vars
<1>3. QED
  BY <1>1, <1>2 DEF TypeInv

LEMMA CheckType ==
  ASSUME TypeInv, Check
  PROVE  TypeInv'
<1>1. TypeOK'
  BY ServerAssumption
    DEF TypeInv, TypeOK, IndexInRange, HandsFull, Handing, Check, ParentLabels, worker_vars,
        client_vars
<1>2. IndexInRange' /\ HandsFull'
  BY ServerAssumption
    DEF TypeInv, TypeOK, IndexInRange, HandsFull, Handing, Busy, Check, ParentLabels,
        worker_vars, client_vars
<1>3. QED
  BY <1>1, <1>2 DEF TypeInv

LEMMA AcceptType ==
  ASSUME TypeInv, Accept
  PROVE  TypeInv'
<1>1. backlog # <<>> => Head(backlog) \in Connections /\ Tail(backlog) \in Seq(Connections)
  BY QueueTypes DEF TypeInv, TypeOK
<1>2. TypeOK'
  BY <1>1 DEF TypeInv, TypeOK, Accept, ParentLabels, worker_vars
<1>3. IndexInRange' /\ HandsFull'
  BY <1>1 DEF TypeInv, TypeOK, IndexInRange, HandsFull, Handing, Busy, Accept, worker_vars
<1>4. QED
  BY <1>2, <1>3 DEF TypeInv

LEMMA ReceiveType ==
  ASSUME TypeInv, Receive
  PROVE  TypeInv'
<1>1. available # <<>> =>
        /\ Head(available) \in 0 .. MaxConnections
        /\ Tail(available) \in Seq(0 .. MaxConnections)
        /\ Len(Tail(available)) = Len(available) - 1
  BY QueueTypes DEF TypeInv, TypeOK
<1>2. Len(available) \in Nat
  BY QueueTypes DEF TypeInv, TypeOK
<1>3. pid' \in 0 .. MaxConnections
  BY <1>1 DEF TypeInv, TypeOK, Receive
<1>4. available' \in Seq(0 .. MaxConnections) /\ Len(available') <= MaxConnections
  <2>1. CASE UNCHANGED available
    BY <2>1 DEF TypeInv, TypeOK
  <2>2. CASE available # <<>> /\ available' = Tail(available)
    <3>1. /\ available' \in Seq(0 .. MaxConnections)
          /\ Len(available') = Len(available) - 1
      BY <1>1, <2>2
    <3>2. Len(available) <= MaxConnections
      BY DEF TypeInv, TypeOK
    <3>3. QED
      BY <1>2, <3>1, <3>2, ServerAssumption
  <2>3. QED
    BY <2>1, <2>2 DEF Receive
<1>5. TypeOK'
  BY <1>3, <1>4 DEF TypeInv, TypeOK, Receive, ParentLabels, worker_vars, client_vars
<1>6. IndexInRange' /\ HandsFull'
  BY DEF TypeInv, IndexInRange, HandsFull, Handing, Busy, Receive, worker_vars, client_vars
<1>7. QED
  BY <1>5, <1>6 DEF TypeInv

LEMMA SendType ==
  ASSUME TypeInv, Send
  PROVE  TypeInv'
<1>1. new_socket \in Connections
  BY DEF TypeInv, HandsFull, Handing, Send
<1>2. channel' \in [Workers -> Seq(Connections)]
  BY <1>1, QueueTypes DEF TypeInv, TypeOK, Send
<1>3. TypeOK'
  BY <1>2 DEF TypeInv, TypeOK, Send, ParentLabels, client_vars
<1>4. IndexInRange' /\ HandsFull'
  BY DEF TypeInv, IndexInRange, HandsFull, Handing, Busy, Send, client_vars
<1>5. QED
  BY <1>3, <1>4 DEF TypeInv

LEMMA SendFailsType ==
  ASSUME TypeInv, SendFails
  PROVE  TypeInv'
<1>1. TypeOK'
  BY QueueTypes, ServerAssumption
    DEF TypeInv, TypeOK, IndexInRange, HandsFull, Handing, SendFails, ParentLabels,
        AnnounceAgain, CloseNew, Full, worker_vars, client_vars
<1>2. IndexInRange' /\ HandsFull'
  BY
    DEF TypeInv, TypeOK, IndexInRange, HandsFull, Handing, Busy, SendFails, ParentLabels,
        AnnounceAgain, CloseNew, Full, worker_vars, client_vars
<1>3. QED
  BY <1>1, <1>2 DEF TypeInv

LEMMA SendToTheDeadType ==
  ASSUME TypeInv, SendToTheDead
  PROVE  TypeInv'
<1>1. TypeOK'
  BY
    DEF TypeInv, TypeOK, IndexInRange, HandsFull, Handing, SendToTheDead, ParentLabels,
        worker_vars, client_vars
<1>2. IndexInRange' /\ HandsFull'
  BY
    DEF TypeInv, TypeOK, IndexInRange, HandsFull, Handing, Busy, SendToTheDead, ParentLabels,
        worker_vars, client_vars
<1>3. QED
  BY <1>1, <1>2 DEF TypeInv

LEMMA SendAstrayType ==
  ASSUME TypeInv, SendAstray
  PROVE  TypeInv'
<1>1. new_socket \in Connections
  BY DEF TypeInv, HandsFull, Handing, SendAstray
<1>2. channel' \in [Workers -> Seq(Connections)]
  <2>1. CASE UNCHANGED channel
    BY <2>1 DEF TypeInv, TypeOK
  <2>2. ASSUME NEW w \in open_pairs, channel' = [channel EXCEPT ![w] = Append(@, new_socket)]
        PROVE  channel' \in [Workers -> Seq(Connections)]
    BY <1>1, <2>2, QueueTypes DEF TypeInv, TypeOK
  <2>3. QED
    BY <2>1, <2>2 DEF SendAstray
<1>3. TypeOK'
  BY <1>2 DEF TypeInv, TypeOK, SendAstray, ParentLabels, client_vars
<1>4. IndexInRange' /\ HandsFull'
  BY DEF TypeInv, IndexInRange, HandsFull, Handing, Busy, SendAstray, client_vars
<1>5. QED
  BY <1>3, <1>4 DEF TypeInv

LEMMA RefuseType ==
  ASSUME TypeInv, Refuse
  PROVE  TypeInv'
<1>1. TypeOK'
  BY
    DEF TypeInv, TypeOK, IndexInRange, HandsFull, Handing, Refuse, ParentLabels, CloseNew,
        worker_vars, client_vars
<1>2. IndexInRange' /\ HandsFull'
  BY
    DEF TypeInv, TypeOK, IndexInRange, HandsFull, Handing, Busy, Refuse, ParentLabels,
        CloseNew, worker_vars, client_vars
<1>3. QED
  BY <1>1, <1>2 DEF TypeInv

(* SIGQUIT interrupts workers, it gives none a connection.                     *)
LEMMA SigquitType ==
  ASSUME TypeInv, NEW S \in SUBSET Workers, Sigquit(S)
  PROVE  /\ stop' \in [Workers -> BOOLEAN]
         /\ worker' \in [Workers -> WorkerLabels]
         /\ channel' \in [Workers -> Seq(Connections)]
         /\ serving' \in [Workers -> Connections \cup {NoConnection}]
         /\ ended' \subseteq Connections
         /\ \A v \in Workers : Busy(v)' => serving'[v] \in Connections
<1>1. stop' \in [Workers -> BOOLEAN]
  BY DEF TypeInv, TypeOK, Sigquit
<1>2. worker' \in [Workers -> WorkerLabels]
  BY DEF TypeInv, TypeOK, Sigquit, WorkerLabels
<1>3. channel' \in [Workers -> Seq(Connections)]
  BY EmptyQueue DEF TypeInv, TypeOK, Sigquit
<1>4. serving' \in [Workers -> Connections \cup {NoConnection}]
  BY DEF TypeInv, TypeOK, Sigquit
<1>5. ended' \subseteq Connections
  <2>1. \A w \in S : HangsUp(w) => serving[w] \in Connections
    BY DEF TypeInv, HandsFull, Handing, HangsUp, Busy
  <2>2. \A w \in S : InFlight(w) \subseteq Connections
    BY InFlightType DEF TypeInv
  <2>3. QED
    BY <2>1, <2>2 DEF TypeInv, TypeOK, Sigquit
<1>6. ASSUME NEW v \in Workers, Busy(v)'
      PROVE  serving'[v] \in Connections
  <2>1. worker'[v] = worker[v] /\ ~(v \in S /\ HangsUp(v))
    BY <1>6 DEF Sigquit, Busy
  <2>2. serving'[v] = serving[v] /\ Busy(v)
    BY <1>6, <2>1 DEF Sigquit, Busy
  <2>3. QED
    BY <2>2 DEF TypeInv, HandsFull, Handing
<1>7. QED
  BY <1>1, <1>2, <1>3, <1>4, <1>5, <1>6

LEMMA QuitType ==
  ASSUME TypeInv, Quit
  PROVE  TypeInv'
<1>1. PICK S \in SUBSET Workers : Sigquit(S)
  <2>1. index \in Workers
    BY ServerAssumption DEF TypeInv, TypeOK, IndexInRange, Quit, Workers
  <2>2. QED
    BY <2>1 DEF Quit
<1>2. /\ stop' \in [Workers -> BOOLEAN]
      /\ worker' \in [Workers -> WorkerLabels]
      /\ channel' \in [Workers -> Seq(Connections)]
      /\ serving' \in [Workers -> Connections \cup {NoConnection}]
      /\ ended' \subseteq Connections
      /\ \A v \in Workers : Busy(v)' => serving'[v] \in Connections
  BY <1>1, SigquitType
<1>3. TypeOK'
  BY <1>2 DEF TypeInv, TypeOK, Quit, ParentLabels, client_vars
<1>4. IndexInRange' /\ HandsFull'
  BY <1>2 DEF TypeInv, IndexInRange, HandsFull, Handing, Quit, client_vars
<1>5. QED
  BY <1>3, <1>4 DEF TypeInv

LEMMA WaitEndsType ==
  ASSUME TypeInv, WaitEnds
  PROVE  TypeInv'
<1>1. TypeOK'
  BY ServerAssumption
    DEF TypeInv, TypeOK, IndexInRange, HandsFull, Handing, WaitEnds, ParentLabels, NextChild,
        worker_vars, client_vars
<1>2. IndexInRange' /\ HandsFull'
  BY ServerAssumption
    DEF TypeInv, TypeOK, IndexInRange, HandsFull, Handing, Busy, WaitEnds, ParentLabels,
        NextChild, worker_vars, client_vars
<1>3. QED
  BY <1>1, <1>2 DEF TypeInv

LEMMA SigintType ==
  ASSUME TypeInv, Sigint
  PROVE  TypeInv'
<1>1. parent' \in ParentLabels /\ should_stop' \in BOOLEAN
  BY DEF TypeInv, TypeOK, Sigint, SigintParent, NextChild, ParentLabels
<1>2. index' \in 0 .. MaxConnections
  BY ServerAssumption DEF TypeInv, TypeOK, Sigint, SigintParent, NextChild
<1>3. new_socket' \in Connections \cup {NoConnection}
  BY DEF TypeInv, TypeOK, Sigint, SigintParent
<1>4. ended' \subseteq Connections
  <2>1. new_socket' # new_socket => new_socket \in Connections
    BY DEF TypeInv, HandsFull, Handing, Sigint, SigintParent
  <2>2. QED
    BY <2>1 DEF TypeInv, TypeOK, Sigint
<1>5. sigints' \in 0 .. MaxSigints
  BY ServerAssumption DEF TypeInv, TypeOK, Sigint
<1>6. TypeOK'
  BY <1>1, <1>2, <1>3, <1>4, <1>5 DEF TypeInv, TypeOK, Sigint, worker_vars, client_vars
<1>7. IndexInRange'
  BY ServerAssumption DEF TypeInv, TypeOK, IndexInRange, Sigint, SigintParent, NextChild
<1>8. HandsFull'
  BY DEF TypeInv, HandsFull, Handing, Busy, Sigint, SigintParent, NextChild, worker_vars
<1>9. QED
  BY <1>6, <1>7, <1>8 DEF TypeInv

LEMMA InstallType ==
  ASSUME TypeInv, NEW w \in Workers, Install(w)
  PROVE  TypeInv'
<1>1. TypeOK'
  BY
    DEF TypeInv, TypeOK, IndexInRange, HandsFull, Handing, Install, WorkerLabels, parent_vars,
        client_vars
<1>2. IndexInRange' /\ HandsFull'
  BY
    DEF TypeInv, TypeOK, IndexInRange, HandsFull, Handing, Busy, Install, WorkerLabels,
        parent_vars, client_vars
<1>3. QED
  BY <1>1, <1>2 DEF TypeInv

LEMMA SigintWorkerType ==
  ASSUME TypeInv, NEW w \in Workers, SigintWorker(w)
  PROVE  TypeInv'
<1>1. TypeOK'
  BY VanishesType DEF TypeInv, TypeOK, SigintWorker, parent_vars, client_vars
<1>2. IndexInRange' /\ HandsFull'
  BY VanishesType DEF TypeInv, IndexInRange, HandsFull, Handing, SigintWorker, parent_vars
<1>3. QED
  BY <1>1, <1>2 DEF TypeInv

LEMMA AbortType ==
  ASSUME TypeInv, NEW w \in Workers, Abort(w)
  PROVE  TypeInv'
<1>1. TypeOK'
  BY VanishesType DEF TypeInv, TypeOK, Abort, parent_vars, client_vars
<1>2. IndexInRange' /\ HandsFull'
  BY VanishesType DEF TypeInv, IndexInRange, HandsFull, Handing, Abort, parent_vars
<1>3. QED
  BY <1>1, <1>2 DEF TypeInv

LEMMA CheckStopType ==
  ASSUME TypeInv, NEW w \in Workers, CheckStop(w)
  PROVE  TypeInv'
<1>1. CASE Vanishes(w)
  <2>1. TypeOK'
    BY <1>1, VanishesType DEF TypeInv, TypeOK, CheckStop, parent_vars, client_vars
  <2>2. IndexInRange' /\ HandsFull'
    BY <1>1, VanishesType DEF TypeInv, IndexInRange, HandsFull, Handing, CheckStop, parent_vars
  <2>3. QED
    BY <2>1, <2>2 DEF TypeInv
<1>2. CASE ~Vanishes(w)
  <2>1. TypeOK'
    BY <1>2 DEF TypeInv, TypeOK, CheckStop, WorkerLabels, parent_vars, client_vars
  <2>2. IndexInRange' /\ HandsFull'
    BY <1>2 DEF TypeInv, TypeOK, IndexInRange, HandsFull, Handing, Busy, CheckStop, parent_vars
  <2>3. QED
    BY <2>1, <2>2 DEF TypeInv
<1>3. QED
  BY <1>1, <1>2

LEMMA RecvFdType ==
  ASSUME TypeInv, NEW w \in Workers, RecvFd(w)
  PROVE  TypeInv'
<1>1. channel[w] # <<>> =>
        Head(channel[w]) \in Connections /\ Tail(channel[w]) \in Seq(Connections)
  BY QueueTypes DEF TypeInv, TypeOK
<1>2. worker' \in [Workers -> WorkerLabels]
  BY DEF TypeInv, TypeOK, RecvFd, Continue, WorkerLabels
<1>3. /\ channel' \in [Workers -> Seq(Connections)]
      /\ serving' \in [Workers -> Connections \cup {NoConnection}]
  BY <1>1 DEF TypeInv, TypeOK, RecvFd
<1>4. TypeOK'
  BY <1>2, <1>3 DEF TypeInv, TypeOK, RecvFd, parent_vars, client_vars
<1>5. ASSUME NEW v \in Workers, Busy(v)'
      PROVE  serving'[v] \in Connections
  BY <1>1, <1>5 DEF TypeInv, TypeOK, HandsFull, Handing, Busy, RecvFd, Continue
<1>6. IndexInRange' /\ HandsFull'
  BY <1>5 DEF TypeInv, IndexInRange, HandsFull, Handing, RecvFd, parent_vars
<1>7. QED
  BY <1>4, <1>6 DEF TypeInv

(* A worker that closes its connection gives it to nobody.                     *)
LEMMA CloseType ==
  ASSUME TypeInv, NEW w \in Workers, Busy(w), Close(w)
  PROVE  /\ worker' \in [Workers -> WorkerLabels]
         /\ serving' \in [Workers -> Connections \cup {NoConnection}]
         /\ ended' \subseteq Connections
         /\ \A v \in Workers : Busy(v)' => serving'[v] \in Connections
<1>1. serving[w] \in Connections
  BY DEF TypeInv, HandsFull, Handing
<1>2. QED
  BY <1>1 DEF TypeInv, TypeOK, HandsFull, Handing, Busy, Close, WorkerLabels

LEMMA ReadType ==
  ASSUME TypeInv, NEW w \in Workers, Read(w)
  PROVE  TypeInv'
<1>1. Busy(w) /\ serving[w] \in Connections
  BY DEF TypeInv, HandsFull, Handing, Busy, Read
<1>2. /\ worker' \in [Workers -> WorkerLabels]
      /\ serving' \in [Workers -> Connections \cup {NoConnection}]
      /\ ended' \subseteq Connections
      /\ \A v \in Workers : Busy(v)' => serving'[v] \in Connections
  <2>1. CASE Close(w)
    BY <1>1, <2>1, CloseType
  <2>2. CASE ~Close(w)
    BY <1>1, <2>2 DEF TypeInv, TypeOK, HandsFull, Handing, Busy, Read, WorkerLabels
  <2>3. QED
    BY <2>1, <2>2
<1>3. peer' \in [Connections -> {"absent", "idle", "asking", "gone"}]
  BY DEF TypeInv, TypeOK, Read, client_vars
<1>4. TypeOK'
  BY <1>2, <1>3 DEF TypeInv, TypeOK, Read, parent_vars, client_vars
<1>5. IndexInRange' /\ HandsFull'
  BY <1>2 DEF TypeInv, IndexInRange, HandsFull, Handing, Read, parent_vars
<1>6. QED
  BY <1>4, <1>5 DEF TypeInv

LEMMA AnswerType ==
  ASSUME TypeInv, NEW w \in Workers, Answer(w)
  PROVE  TypeInv'
<1>1. Busy(w) /\ serving[w] \in Connections
  BY DEF TypeInv, HandsFull, Handing, Busy, Answer
<1>2. /\ worker' \in [Workers -> WorkerLabels]
      /\ serving' \in [Workers -> Connections \cup {NoConnection}]
      /\ ended' \subseteq Connections
      /\ \A v \in Workers : Busy(v)' => serving'[v] \in Connections
  <2>1. CASE Close(w)
    BY <1>1, <2>1, CloseType
  <2>2. CASE ~Close(w)
    BY <1>1, <2>2 DEF TypeInv, TypeOK, HandsFull, Handing, Busy, Answer, WorkerLabels
  <2>3. QED
    BY <2>1, <2>2
<1>3. peer' \in [Connections -> {"absent", "idle", "asking", "gone"}]
  BY DEF TypeInv, TypeOK, Answer
<1>4. TypeOK'
  BY <1>2, <1>3 DEF TypeInv, TypeOK, Answer, parent_vars
<1>5. IndexInRange' /\ HandsFull'
  BY <1>2 DEF TypeInv, IndexInRange, HandsFull, Handing, Answer, parent_vars
<1>6. QED
  BY <1>4, <1>5 DEF TypeInv

LEMMA AnnounceType ==
  ASSUME TypeInv, NEW w \in Workers, Announce(w)
  PROVE  TypeInv'
<1>1. TypeOK'
  BY QueueTypes, ServerAssumption
    DEF TypeInv, TypeOK, IndexInRange, HandsFull, Handing, Announce, WorkerLabels, Full,
        Workers, parent_vars, client_vars
<1>2. IndexInRange' /\ HandsFull'
  BY
    DEF TypeInv, TypeOK, IndexInRange, HandsFull, Handing, Busy, Announce, WorkerLabels, Full,
        Workers, parent_vars, client_vars
<1>3. QED
  BY <1>1, <1>2 DEF TypeInv

LEMMA ConnectType ==
  ASSUME TypeInv, NEW c \in Connections, Connect(c)
  PROVE  TypeInv'
<1>1. TypeOK'
  BY QueueTypes
    DEF TypeInv, TypeOK, IndexInRange, HandsFull, Handing, Connect, parent_vars, worker_vars
<1>2. IndexInRange' /\ HandsFull'
  BY
    DEF TypeInv, TypeOK, IndexInRange, HandsFull, Handing, Busy, Connect, parent_vars,
        worker_vars
<1>3. QED
  BY <1>1, <1>2 DEF TypeInv

LEMMA AskType ==
  ASSUME TypeInv, NEW c \in Connections, Ask(c)
  PROVE  TypeInv'
<1>1. TypeOK'
  BY DEF TypeInv, TypeOK, IndexInRange, HandsFull, Handing, Ask, parent_vars, worker_vars
<1>2. IndexInRange' /\ HandsFull'
  BY DEF TypeInv, TypeOK, IndexInRange, HandsFull, Handing, Busy, Ask, parent_vars, worker_vars
<1>3. QED
  BY <1>1, <1>2 DEF TypeInv

LEMMA LeaveType ==
  ASSUME TypeInv, NEW c \in Connections, Leave(c)
  PROVE  TypeInv'
<1>1. TypeOK'
  BY DEF TypeInv, TypeOK, IndexInRange, HandsFull, Handing, Leave, parent_vars, worker_vars
<1>2. IndexInRange' /\ HandsFull'
  BY
    DEF TypeInv, TypeOK, IndexInRange, HandsFull, Handing, Busy, Leave, parent_vars,
        worker_vars
<1>3. QED
  BY <1>1, <1>2 DEF TypeInv

LEMMA StutterType ==
  ASSUME TypeInv, UNCHANGED vars
  PROVE  TypeInv'
BY
  DEF TypeInv, TypeOK, IndexInRange, HandsFull, Handing, Busy, vars, parent_vars, worker_vars,
      client_vars

LEMMA NextType ==
  ASSUME TypeInv, [Next]_vars
  PROVE  TypeInv'
<1>1. CASE ParentStep
  BY <1>1, ForkType, AnnounceChildType, StartedType, CheckType, AcceptType, ReceiveType,
     SendType, SendFailsType, SendToTheDeadType, SendAstrayType, RefuseType, QuitType,
     WaitEndsType
    DEF ParentStep
<1>2. CASE Sigint
  BY <1>2, SigintType
<1>3. ASSUME NEW w \in Workers, WorkerStep(w) PROVE TypeInv'
  BY <1>3, InstallType, SigintWorkerType, CheckStopType, RecvFdType, ReadType, AnswerType,
     AbortType, AnnounceType
    DEF WorkerStep
<1>4. ASSUME NEW c \in Connections, Connect(c) \/ Ask(c) \/ Leave(c) PROVE TypeInv'
  BY <1>4, ConnectType, AskType, LeaveType
<1>5. CASE UNCHANGED vars
  BY <1>5, StutterType
<1>6. QED
  BY <1>1, <1>2, <1>3, <1>4, <1>5 DEF Next

-------------------------------------------------------------------------------
(* The shutdown.                                                               *)

(* The last worker passed, or the next one to come.                            *)
LEMMA NextChildProgress ==
  ASSUME TypeInv, ShutdownProgress, parent = "wait", worker[index] = "gone",
         NextChild, UNCHANGED <<worker, should_stop, sigints>>
  PROVE  ShutdownProgress'
<1>1. index \in Workers
  BY ServerAssumption DEF TypeInv, TypeOK, IndexInRange, Workers
<1>2. \A w \in 0 .. index : worker[w] = "gone"
  BY <1>1 DEF ShutdownProgress, Workers
<1>3. QED
  BY <1>1, <1>2, ServerAssumption DEF ShutdownProgress, NextChild, Workers

(* Ended workers stay ended, and only then does the parent go on.              *)
LEMMA NextProgress ==
  ASSUME TypeInv, ShutdownProgress, MaxSigints <= 1, [Next]_vars
  PROVE  ShutdownProgress'
<1>1. CASE ParentStep
  <2>1. CASE Fork \/ AnnounceChild \/ Started \/ Accept \/ Receive \/ Send \/ SendFails
             \/ SendToTheDead \/ SendAstray \/ Refuse
    BY <2>1 DEF Fork, AnnounceChild, Started, Accept, Receive, Send, SendFails, SendToTheDead,
                SendAstray, Refuse, ShutdownProgress, worker_vars
  <2>2. CASE Check
    BY <2>2 DEF Check, ShutdownProgress, worker_vars
  <2>3. CASE Quit
    <3>1. \A w \in Workers : worker[w] = "gone" => worker'[w] = "gone"
      BY <2>3 DEF Quit, Sigquit, Dies, WakesUp, HangsUp
    <3>2. QED
      BY <2>3, <3>1, ServerAssumption
        DEF Quit, ShutdownProgress, TypeInv, TypeOK, IndexInRange, Workers
  <2>4. CASE WaitEnds
    BY <2>4, NextChildProgress DEF WaitEnds, worker_vars
  <2>5. QED
    BY <1>1, <2>1, <2>2, <2>3, <2>4 DEF ParentStep
<1>2. CASE Sigint
  <2>1. sigints = 0 /\ sigints' = 1
    BY <1>2, ServerAssumption DEF Sigint, TypeInv, TypeOK
  <2>2. ~should_stop /\ parent \notin {"quit", "wait", "done"}
    BY <2>1 DEF ShutdownProgress
  <2>3. parent' \notin {"quit", "wait", "done"}
    BY <1>2, <2>2 DEF Sigint, SigintParent
  <2>4. QED
    BY <2>1, <2>3 DEF ShutdownProgress
<1>3. ASSUME NEW v \in Workers, WorkerStep(v) PROVE ShutdownProgress'
  <2>1. UNCHANGED <<parent_vars, sigints>>
    BY <1>3
      DEF WorkerStep, Install, SigintWorker, CheckStop, RecvFd, Read, Answer, Abort, Announce
  <2>2. \A w \in Workers : worker[w] = "gone" => worker'[w] = "gone"
    BY <1>3 DEF WorkerStep, Install, SigintWorker, CheckStop, RecvFd, Read, Answer, Abort,
                Announce, Vanishes, Continue, Close, TypeInv, TypeOK
  <2>3. QED
    BY <2>1, <2>2, ServerAssumption
      DEF ShutdownProgress, parent_vars, TypeInv, TypeOK, IndexInRange, Workers
<1>4. CASE \E c \in Connections : Connect(c) \/ Ask(c) \/ Leave(c)
  BY <1>4 DEF Connect, Ask, Leave, ShutdownProgress, parent_vars, worker_vars
<1>5. CASE UNCHANGED vars
  BY <1>5 DEF ShutdownProgress, vars, parent_vars, worker_vars
<1>6. QED
  BY <1>1, <1>2, <1>3, <1>4, <1>5 DEF Next

-------------------------------------------------------------------------------
(* The room in /available.                                                     *)

LEMMA WorkersAreFinite == IsFiniteSet(Workers)
BY ServerAssumption, FS_Interval DEF Workers

LEMMA OwedType ==
  ASSUME TypeOK
  PROVE  /\ Owed \in [Workers -> Nat]
         /\ \A w \in Workers :
              /\ Len(channel[w]) \in Nat
              /\ Owed[w] = Len(channel[w]) + Truth(Busy(w) \/ worker[w] = "announce")
<1>1. ASSUME NEW w \in Workers PROVE Len(channel[w]) \in Nat
  <2>1. channel[w] \in Seq(Connections)
    BY DEF TypeOK
  <2>2. QED
    BY <2>1, LenProperties
<1>2. \A w \in Workers : Truth(Busy(w) \/ worker[w] = "announce") \in Nat
  BY DEF Truth
<1>3. \A w \in Workers : Len(channel[w]) + Truth(Busy(w) \/ worker[w] = "announce") \in Nat
  BY <1>1, <1>2
<1>4. QED
  BY <1>1, <1>3, Zenon DEF Owed

LEMMA OwedTypeNext == TypeOK' => Owed' \in [Workers -> Nat]
<1>1. SUFFICES ASSUME TypeOK' PROVE Owed' \in [Workers -> Nat]
  OBVIOUS
<1>2. ASSUME NEW w \in Workers PROVE Len(channel'[w]) \in Nat
  <2>1. channel'[w] \in Seq(Connections)
    BY <1>1 DEF TypeOK
  <2>2. QED
    BY <2>1, LenProperties
<1>3. \A w \in Workers : Truth(Busy(w) \/ worker[w] = "announce")' \in Nat
  BY DEF Truth
<1>4. \A w \in Workers : (Len(channel[w]) + Truth(Busy(w) \/ worker[w] = "announce"))' \in Nat
  BY <1>2, <1>3
<1>5. QED
  BY <1>4, Zenon DEF Owed

(* Who owes an entry besides those for its descriptors.                        *)
Engaged == {"read", "reading", "answer", "announce"}

LEMMA OwedIs ==
  ASSUME TypeOK, TypeOK', NEW w \in Workers
  PROVE  /\ Owed[w] = IF worker[w] \in Engaged THEN Len(channel[w]) + 1 ELSE Len(channel[w])
         /\ Owed'[w] = IF worker'[w] \in Engaged THEN Len(channel'[w]) + 1 ELSE Len(channel'[w])
         /\ Owed[w] \in Nat /\ Owed'[w] \in Nat
<1>1. Owed[w] \in Nat /\ Owed'[w] \in Nat /\ Len(channel[w]) \in Nat
  BY OwedType, OwedTypeNext
<1>2. Len(channel'[w]) \in Nat
  <2>1. channel'[w] \in Seq(Connections)
    BY DEF TypeOK
  <2>2. QED
    BY <2>1, LenProperties
<1>3. Owed[w] = IF worker[w] \in Engaged THEN Len(channel[w]) + 1 ELSE Len(channel[w])
  <2>1. Owed[w] = (Len(channel[w]) + Truth(Busy(w) \/ worker[w] = "announce"))
    BY Zenon DEF Owed
  <2>2. /\ worker[w] \in Engaged => Truth(Busy(w) \/ worker[w] = "announce") = 1
        /\ worker[w] \notin Engaged => Truth(Busy(w) \/ worker[w] = "announce") = 0
    BY DEF Truth, Busy, Engaged
  <2>3. QED
    BY <1>1, <2>1, <2>2
<1>4. Owed'[w] = IF worker'[w] \in Engaged THEN Len(channel'[w]) + 1 ELSE Len(channel'[w])
  <2>1. Owed'[w] = (Len(channel[w]) + Truth(Busy(w) \/ worker[w] = "announce"))'
    BY Zenon DEF Owed
  <2>2. /\ worker'[w] \in Engaged => Truth(Busy(w) \/ worker[w] = "announce")' = 1
        /\ worker'[w] \notin Engaged => Truth(Busy(w) \/ worker[w] = "announce")' = 0
    BY DEF Truth, Busy, Engaged
  <2>3. QED
    BY <1>2, <2>1, <2>2
<1>5. QED
  BY <1>1, <1>3, <1>4

(* If one worker at most owes more entries, and as many more as there are less *)
(* in /available and the parent's hand, there is still room for them.          *)
LEMMA OwedMoves ==
  ASSUME TypeInv, TypeInv', Room, NEW k \in Workers, NEW d \in Int,
         \A w \in Workers : Owed'[w] <= Owed[w] + (IF w = k THEN d ELSE 0),
         Len(available') + Truth(parent' = "send") + d
           <= Len(available) + Truth(parent = "send")
  PROVE  Len(available') + Truth(parent' = "send") + SumFunction(Owed') <= MaxConnections
<1>1. Owed \in [Workers -> Int] /\ Owed' \in [Workers -> Int]
  <2>1. Owed \in [Workers -> Nat] /\ Owed' \in [Workers -> Nat]
    BY OwedType, OwedTypeNext DEF TypeInv
  <2>2. QED
    BY <2>1
<1>2. /\ SumFunction(Owed) \in Int /\ SumFunction(Owed') \in Int
      /\ SumFunction(Owed') <= SumFunction(Owed) + d
  BY <1>1, WorkersAreFinite, SumGrows
<1>3. Len(available) \in Nat /\ Len(available') \in Nat /\ MaxConnections \in Nat
  BY ServerAssumption, LenProperties DEF TypeInv, TypeOK
<1>4. QED
  BY <1>2, <1>3 DEF Room, Truth

(* Nobody owes more, and there are not more entries.                           *)
LEMMA OwesNoMore ==
  ASSUME TypeInv, TypeInv', Room, \A w \in Workers : Owed'[w] <= Owed[w],
         Len(available') + Truth(parent' = "send")
           <= Len(available) + Truth(parent = "send"),
         parent' \in {"fork", "announce"} => parent \in {"fork", "announce"}
  PROVE  Room'
<1>1. /\ Owed \in [Workers -> Nat]
      /\ Owed' \in [Workers -> Nat]
  BY OwedType, OwedTypeNext DEF TypeInv
<1>2. parent' \in {"fork", "announce"} => \A w \in Workers : Owed'[w] = 0
  BY <1>1 DEF Room
<1>3. /\ 0 \in Workers /\ 0 \in Int
      /\ Len(available) \in Nat /\ Len(available') \in Nat
  BY ServerAssumption, LenProperties DEF TypeInv, TypeOK, Workers
<1>4. /\ \A w \in Workers : Owed'[w] <= Owed[w] + (IF w = 0 THEN 0 ELSE 0)
      /\ Len(available') + Truth(parent' = "send") + 0
           <= Len(available) + Truth(parent = "send")
  BY <1>1, <1>3 DEF Truth
<1>5. Len(available') + Truth(parent' = "send") + SumFunction(Owed') <= MaxConnections
  BY <1>3, <1>4, OwedMoves
<1>6. QED
  BY <1>2, <1>5 DEF Room

(* Owed where nothing is sent, read or announced.                              *)
LEMMA SameOwed ==
  ASSUME TypeInv, TypeInv', Room, UNCHANGED <<worker, channel>>,
         Len(available') + Truth(parent' = "send")
           <= Len(available) + Truth(parent = "send"),
         parent' \in {"fork", "announce"} => parent \in {"fork", "announce"}
  PROVE  Room'
<1>1. Owed' = Owed
  BY DEF Owed, Busy
<1>2. \A w \in Workers : Owed'[w] <= Owed[w]
  BY <1>1, OwedType DEF TypeInv
<1>3. QED
  BY <1>2, OwesNoMore

(* A descriptor is sent to w.                                                  *)
LEMMA OneMoreOwed ==
  ASSUME TypeInv, TypeInv', Room, NEW w \in Workers, NEW c \in Connections,
         channel' = [channel EXCEPT ![w] = Append(@, c)], UNCHANGED <<worker, available>>,
         parent = "send", parent' = "check"
  PROVE  Room'
<1>1. \A v \in Workers : Len(channel[v]) \in Nat /\ channel[v] \in Seq(Connections)
  BY OwedType DEF TypeInv, TypeOK
<1>2. \A v \in Workers :
        Len(channel'[v]) <= Len(channel[v]) + (IF v = w THEN 1 ELSE 0)
        /\ Len(channel'[v]) \in Nat
  <2>1. ASSUME NEW v \in Workers, v # w PROVE channel'[v] = channel[v]
    BY <2>1 DEF TypeInv, TypeOK
  <2>2. channel'[w] = Append(channel[w], c)
    BY DEF TypeInv, TypeOK
  <2>3. Len(channel'[w]) = Len(channel[w]) + 1
    BY <1>1, <2>2, QueueTypes
  <2>4. ASSUME NEW v \in Workers
        PROVE  Len(channel'[v]) <= Len(channel[v]) + (IF v = w THEN 1 ELSE 0)
               /\ Len(channel'[v]) \in Nat
    <3>1. CASE v = w
      BY <1>1, <2>3, <3>1
    <3>2. CASE v # w
      BY <1>1, <2>1, <3>2
    <3>3. QED
      BY <3>1, <3>2
  <2>5. QED
    BY <2>4
<1>3. ASSUME NEW v \in Workers PROVE Owed'[v] <= Owed[v] + (IF v = w THEN 1 ELSE 0)
  <2>1. worker'[v] = worker[v] /\ Len(channel[v]) \in Nat /\ Len(channel'[v]) \in Nat
        /\ Len(channel'[v]) <= Len(channel[v]) + (IF v = w THEN 1 ELSE 0)
    BY <1>1, <1>2
  <2>2. QED
    BY <2>1, OwedIs DEF TypeInv
<1>4. /\ Len(available') + Truth(parent' = "send") + 1
           <= Len(available) + Truth(parent = "send")
      /\ 1 \in Int
  <2>1. Len(available) \in Nat
    BY LenProperties DEF TypeInv, TypeOK
  <2>2. QED
    BY <2>1 DEF Truth
<1>5. Len(available') + Truth(parent' = "send") + SumFunction(Owed') <= MaxConnections
  BY <1>3, <1>4, OwedMoves
<1>6. QED
  BY <1>5 DEF Room

LEMMA ParentRoom ==
  ASSUME TypeInv, TypeInv', Room, ParentStep
  PROVE  Room'
<1>1. Len(available) \in Nat /\ Len(available') \in Nat
  BY LenProperties DEF TypeInv, TypeOK
<1>2. CASE Fork
  <2>1. \A w \in Workers : Owed'[w] <= Owed[w]
    <3>1. \A w \in Workers : Len(channel[w]) \in Nat
      BY OwedType DEF TypeInv
    <3>2. \A w \in Workers : channel'[w] = channel[w] /\ worker'[w] \in {worker[w], "start"}
      BY <1>2 DEF Fork, TypeInv, TypeOK
    <3>3. "start" \notin Engaged
      BY DEF Engaged
    <3>4. QED
      BY <3>1, <3>2, <3>3, OwedIs DEF TypeInv
  <2>2. available' = available /\ parent = "fork" /\ parent' # "send"
    BY <1>2 DEF Fork
  <2>3. QED
    BY <1>1, <2>1, <2>2, OwesNoMore DEF Truth
<1>3. CASE AnnounceChild
  <2>1. Owed' = Owed /\ parent' = "fork" /\ parent = "announce"
    BY <1>3 DEF AnnounceChild, worker_vars, Owed, Busy
  <2>2. \A w \in Workers : Owed'[w] = 0
    BY <2>1 DEF Room
  <2>3. SumFunction(Owed') = 0
    <3>1. Owed' \in [Workers -> {0}]
      BY <2>1, <2>2, OwedType DEF TypeInv
    <3>2. QED
      BY <3>1, WorkersAreFinite, SumOfZeros
  <2>4. Len(available') <= MaxConnections /\ MaxConnections \in Nat
    BY ServerAssumption DEF TypeInv, TypeOK
  <2>5. QED
    BY <1>1, <2>1, <2>2, <2>3, <2>4 DEF Room, Truth
<1>4. CASE Started \/ Check \/ Accept \/ SendToTheDead \/ Refuse \/ WaitEnds
  <2>1. UNCHANGED <<worker, channel, available>> /\ parent' # "send"
        /\ parent' \notin {"fork", "announce"}
    BY <1>4 DEF Started, Check, Accept, SendToTheDead, Refuse, WaitEnds, NextChild, worker_vars
  <2>2. QED
    BY <1>1, <2>1, SameOwed DEF Truth
<1>5. CASE Receive
  <2>1. UNCHANGED <<worker, channel>> /\ parent # "send" /\ parent' \notin {"fork", "announce"}
    BY <1>5 DEF Receive, worker_vars
  <2>2. Len(available') + Truth(parent' = "send") <= Len(available) + Truth(parent = "send")
    <3>1. available \in Seq(0 .. MaxConnections)
      BY DEF TypeInv, TypeOK
    <3>2. CASE available = <<>>
      BY <1>1, <1>5, <2>1, <3>2 DEF Receive, Truth
    <3>3. CASE available # <<>>
      <4>1. Len(available') = Len(available) - 1
        BY <1>5, <3>1, <3>3, QueueTypes DEF Receive
      <4>2. QED
        BY <1>1, <2>1, <4>1 DEF Truth
    <3>4. QED
      BY <3>2, <3>3
  <2>3. QED
    BY <2>1, <2>2, SameOwed
<1>6. CASE SendFails
  <2>1. UNCHANGED <<worker, channel>> /\ parent = "send" /\ parent' = "check"
        /\ available' = Append(available, pid)
    BY <1>6 DEF SendFails, AnnounceAgain, worker_vars
  <2>2. Len(available') = Len(available) + 1
    BY <2>1, QueueTypes DEF TypeInv, TypeOK
  <2>3. QED
    BY <1>1, <2>1, <2>2, SameOwed DEF Truth
<1>7. CASE Send
  <2>1. /\ new_socket \in Connections /\ pid \in Workers
        /\ channel' = [channel EXCEPT ![pid] = Append(@, new_socket)]
        /\ UNCHANGED <<worker, available>> /\ parent = "send" /\ parent' = "check"
    BY <1>7 DEF Send, TypeInv, HandsFull, Handing
  <2>2. QED
    BY <2>1, OneMoreOwed
<1>8. CASE SendAstray
  <2>1. UNCHANGED <<worker, available>> /\ parent = "send" /\ parent' \in {"check", "killed"}
    BY <1>8 DEF SendAstray
  <2>2. CASE UNCHANGED channel
    BY <1>1, <2>1, <2>2, SameOwed DEF Truth
  <2>3. CASE ~ UNCHANGED channel
    <3>1. parent' = "check"
          /\ \E w \in open_pairs : channel' = [channel EXCEPT ![w] = Append(@, new_socket)]
      BY <1>8, <2>3 DEF SendAstray
    <3>2. new_socket \in Connections /\ open_pairs \subseteq Workers
      BY <2>1 DEF TypeInv, TypeOK, HandsFull, Handing
    <3>3. QED
      BY <2>1, <3>1, <3>2, OneMoreOwed
  <2>4. QED
    BY <2>2, <2>3
<1>9. CASE Quit
  <2>1. PICK S \in SUBSET Workers : Sigquit(S)
    <3>1. index \in Workers
      BY <1>9, ServerAssumption DEF Quit, TypeInv, TypeOK, IndexInRange, Workers
    <3>2. QED
      BY <1>9, <3>1 DEF Quit
  <2>2. ASSUME NEW w \in Workers PROVE Owed'[w] <= Owed[w]
    <3>1. Len(channel[w]) \in Nat /\ Len(channel'[w]) <= Len(channel[w])
          /\ Len(channel'[w]) \in Nat
      BY <2>1, OwedType, EmptyQueue DEF Sigquit, TypeInv
    <3>2. worker'[w] \in Engaged => worker[w] \in Engaged
      BY <2>1 DEF Sigquit, HangsUp, WakesUp, Dies, Engaged
    <3>3. QED
      BY <3>1, <3>2, OwedIs DEF TypeInv
  <2>3. available' = available /\ parent' \notin {"send", "fork", "announce"}
    BY <1>9 DEF Quit
  <2>4. QED
    BY <1>1, <2>2, <2>3, OwesNoMore DEF Truth
<1>10. QED
  BY <1>2, <1>3, <1>4, <1>5, <1>6, <1>7, <1>8, <1>9 DEF ParentStep

(* A worker owes an entry from the descriptor to its announcement; only the     *)
(* announcement itself takes this off it.                                      *)
LEMMA WorkerRoom ==
  ASSUME TypeInv, TypeInv', Room, NEW w \in Workers, WorkerStep(w)
  PROVE  Room'
<1>1. /\ \A v \in Workers : Len(channel[v]) \in Nat /\ channel[v] \in Seq(Connections)
      /\ Len(available) \in Nat /\ available \in Seq(0 .. MaxConnections)
      /\ w \in 0 .. MaxConnections
  <2>1. TypeOK /\ available \in Seq(0 .. MaxConnections)
    BY DEF TypeInv, TypeOK
  <2>2. \A v \in Workers : Len(channel[v]) \in Nat /\ channel[v] \in Seq(Connections)
    BY <2>1, OwedType DEF TypeOK
  <2>3. w \in 0 .. MaxConnections
    BY ServerAssumption DEF Workers
  <2>4. QED
    BY <2>1, <2>2, <2>3, LenProperties
<1>2. parent' = parent
  BY
    DEF WorkerStep, Install, SigintWorker, CheckStop, RecvFd, Read, Answer, Abort, Announce,
        parent_vars
<1>3. CASE Announce(w)
  <2>1. /\ worker[w] = "announce" /\ channel' = channel
        /\ worker' = [worker EXCEPT ![w] = "check"] /\ available' = Append(available, w)
    BY <1>3 DEF Announce
  <2>2. \A v \in Workers : Owed'[v] <= Owed[v] + (IF v = w THEN -1 ELSE 0)
    <3>1. ASSUME NEW v \in Workers, v # w PROVE worker'[v] = worker[v]
      BY <2>1, <3>1 DEF TypeInv, TypeOK
    <3>2. worker'[w] = "check" /\ "announce" \in Engaged /\ "check" \notin Engaged
      BY <2>1 DEF TypeInv, TypeOK, Engaged
    <3>3. QED
      BY <1>1, <2>1, <3>1, <3>2, OwedIs DEF TypeInv
  <2>3. Len(available') = Len(available) + 1
    BY <1>1, <2>1, QueueTypes
  <2>4. Len(available') + Truth(parent' = "send") + (-1)
          <= Len(available) + Truth(parent = "send")
    BY <1>1, <1>2, <2>3 DEF Truth
  <2>5. Len(available') + Truth(parent' = "send") + SumFunction(Owed') <= MaxConnections
    BY <2>2, <2>4, OwedMoves
  <2>6. parent \notin {"fork", "announce"}
    <3>1. Owed[w] # 0
      BY <1>1, <2>1, OwedIs DEF TypeInv, Engaged
    <3>2. QED
      BY <3>1 DEF Room
  <2>7. QED
    BY <1>2, <2>5, <2>6 DEF Room
<1>4. CASE ~Announce(w)
  <2>1. /\ available' = available
        /\ \A v \in Workers : v # w => worker'[v] = worker[v] /\ channel'[v] = channel[v]
    BY <1>4
      DEF WorkerStep, Install, SigintWorker, CheckStop, RecvFd, Read, Answer, Abort, Vanishes,
          Continue, Close, TypeInv, TypeOK
  <2>2. Owed'[w] <= Owed[w]
    <3>1. CASE Install(w)
      <4>1. worker'[w] = "check" /\ channel' = channel
        BY <3>1 DEF Install, TypeInv, TypeOK
      <4>2. QED
        BY <1>1, <4>1, OwedIs DEF TypeInv, Engaged
    <3>2. CASE Vanishes(w)
      <4>1. worker'[w] = "gone" /\ channel'[w] = <<>>
        BY <3>2 DEF Vanishes, TypeInv, TypeOK
      <4>2. QED
        BY <1>1, <4>1, EmptyQueue, OwedIs DEF TypeInv, Engaged
    <3>3. CASE CheckStop(w) /\ ~Vanishes(w)
      <4>1. worker'[w] = "recv" /\ channel' = channel
        BY <3>3 DEF CheckStop, TypeInv, TypeOK
      <4>2. QED
        BY <1>1, <4>1, OwedIs DEF TypeInv, Engaged
    <3>4. CASE RecvFd(w)
      <4>1. CASE channel[w] # <<>>
        <5>1. worker'[w] = "read" /\ channel'[w] = Tail(channel[w])
          BY <3>4, <4>1 DEF RecvFd, TypeInv, TypeOK
        <5>2. Len(channel'[w]) = Len(channel[w]) - 1
          BY <1>1, <4>1, <5>1, QueueTypes
        <5>3. worker'[w] \in Engaged /\ worker[w] \notin Engaged
          BY <3>4, <5>1 DEF RecvFd, Engaged
        <5>4. QED
          BY <1>1, <5>2, <5>3, OwedIs DEF TypeInv
      <4>2. CASE channel[w] = <<>>
        <5>1. worker'[w] \notin Engaged /\ channel' = channel
          BY <3>4, <4>2 DEF RecvFd, Continue, TypeInv, TypeOK, Engaged
        <5>2. QED
          BY <1>1, <5>1, OwedIs DEF TypeInv
      <4>3. QED
        BY <4>1, <4>2
    <3>5. CASE Read(w) \/ Answer(w)
      <4>1. worker[w] \in Engaged /\ worker'[w] \in Engaged /\ channel' = channel
        BY <3>5 DEF Read, Answer, Close, TypeInv, TypeOK, Engaged
      <4>2. QED
        BY <1>1, <4>1, OwedIs DEF TypeInv
    <3>6. QED
      BY <1>4, <3>1, <3>2, <3>3, <3>4, <3>5 DEF WorkerStep, SigintWorker, Abort
  <2>3. ASSUME NEW v \in Workers PROVE Owed'[v] <= Owed[v]
    BY <1>1, <2>1, <2>2, OwedIs DEF TypeInv
  <2>4. QED
    BY <1>1, <1>2, <2>1, <2>3, OwesNoMore DEF Truth
<1>5. QED
  BY <1>3, <1>4

LEMMA InitRoom ==
  ASSUME Init
  PROVE  Room
<1>1. TypeOK /\ Len(available) = Leftover /\ parent # "send"
  BY InitType, ServerAssumption, LenProperties DEF Init, TypeInv
<1>2. \A w \in Workers : Owed[w] = 0
  <2>1. \A w \in Workers : channel[w] = <<>> /\ worker[w] = "none"
    BY DEF Init
  <2>2. \A w \in Workers : Truth(Busy(w) \/ worker[w] = "announce") = 0
    BY <2>1 DEF Busy, Truth
  <2>3. QED
    BY <1>1, <2>1, <2>2, EmptyQueue, OwedType
<1>3. SumFunction(Owed) = 0
  <2>1. Owed \in [Workers -> {0}]
    BY <1>1, <1>2, OwedType
  <2>2. QED
    BY <2>1, WorkersAreFinite, SumOfZeros
<1>4. QED
  BY <1>1, <1>2, <1>3, ServerAssumption DEF Room, Truth

LEMMA NextRoom ==
  ASSUME TypeInv, Room, [Next]_vars
  PROVE  Room'
<1>1. TypeInv' /\ Len(available) \in Nat
  BY NextType, LenProperties DEF TypeInv, TypeOK
<1>2. CASE Sigint
  <2>1. /\ UNCHANGED <<worker, channel, available>>
        /\ parent' = "send" => parent = "send"
        /\ parent' \in {"fork", "announce"} => parent \in {"fork", "announce"}
    BY <1>2 DEF Sigint, SigintParent, NextChild, worker_vars, Stopped
  <2>2. QED
    BY <1>1, <2>1, SameOwed DEF Truth
<1>3. CASE (\E c \in Connections : Connect(c) \/ Ask(c) \/ Leave(c)) \/ UNCHANGED vars
  <2>1. UNCHANGED <<worker, channel, available, parent>>
    BY <1>3 DEF Connect, Ask, Leave, vars, parent_vars, worker_vars
  <2>2. QED
    BY <1>1, <2>1, SameOwed DEF Truth
<1>4. CASE ParentStep
  BY <1>1, <1>4, ParentRoom
<1>5. CASE \E w \in Workers : WorkerStep(w)
  BY <1>1, <1>5, WorkerRoom
<1>6. QED
  BY <1>2, <1>3, <1>4, <1>5 DEF Next

(* A full /available leaves no room for what anybody owes.                     *)
LEMMA RoomIsEnough ==
  ASSUME TypeInv, Room
  PROVE  AnnouncingNeverBlocks
<1>1. Len(available) \in Nat /\ MaxConnections \in Nat /\ Owed \in [Workers -> Nat]
  BY OwedType, LenProperties, ServerAssumption DEF TypeInv, TypeOK
<1>2. ASSUME NEW w \in Workers PROVE SumFunction(Owed) \in Int /\ Owed[w] <= SumFunction(Owed)
  BY <1>1, WorkersAreFinite, SumIsMore
<1>3. 0 \in Workers
  BY ServerAssumption DEF Workers
<1>4. SUFFICES ASSUME Full PROVE (\A w \in Workers : worker[w] # "announce") /\ parent # "send"
  BY DEF AnnouncingNeverBlocks
<1>5. Truth(parent = "send") + SumFunction(Owed) <= 0
  BY <1>1, <1>2, <1>3, <1>4 DEF Room, Full, Truth
<1>6. parent # "send"
  BY <1>1, <1>2, <1>3, <1>5 DEF Truth
<1>7. ASSUME NEW w \in Workers, worker[w] = "announce" PROVE FALSE
  <2>1. Owed[w] = 0
    BY <1>1, <1>2, <1>5 DEF Truth
  <2>2. Len(channel[w]) \in Nat
        /\ Owed[w] = Len(channel[w]) + Truth(Busy(w) \/ worker[w] = "announce")
    BY OwedType DEF TypeInv
  <2>3. Truth(Busy(w) \/ worker[w] = "announce") = 1
    BY <1>7 DEF Truth
  <2>4. QED
    BY <2>1, <2>2, <2>3
<1>8. QED
  BY <1>6, <1>7

-------------------------------------------------------------------------------
(* Theorems.                                                                   *)

(* The types, with leftovers, failing forks and dying processes: the loops of  *)
(* Server.cpp stay within their vectors, and no process hands on or serves a   *)
(* connection it has not got.                                                  *)
THEOREM ServerTypes == Spec => [](TypeOK /\ IndexInRange /\ HandsFull)
<1>1. Init => TypeInv
  BY InitType
<1>2. TypeInv /\ [Next]_vars => TypeInv'
  BY NextType
<1>3. TypeInv => TypeOK /\ IndexInRange /\ HandsFull
  BY DEF TypeInv
<1>4. QED
  BY <1>1, <1>2, <1>3, PTL DEF Spec

(* With at most one SIGINT, the invariant of the shutdown.                     *)
THEOREM ServerInvariance ==
  ASSUME MaxSigints <= 1
  PROVE  Spec => []IInv
<1>1. Init => IInv
  BY InitType, InitRoom DEF IInv, TypeInv, ShutdownProgress, Init
<1>2. IInv /\ [Next]_vars => IInv'
  <2>1. SUFFICES ASSUME IInv, [Next]_vars PROVE IInv'
    OBVIOUS
  <2>2. TypeInv /\ ShutdownProgress /\ Room
    BY <2>1 DEF IInv, TypeInv
  <2>3. TypeInv' /\ ShutdownProgress' /\ Room'
    BY <2>1, <2>2, NextType, NextProgress, NextRoom
  <2>4. QED
    BY <2>3 DEF IInv, TypeInv
<1>3. QED
  BY <1>1, <1>2, PTL DEF Spec

(* With at most one SIGINT the parent's run returns only when all its workers  *)
(* have ended, however many there are and whatever failed.                     *)
THEOREM NoWorkerOutlivesServer ==
  ASSUME MaxSigints <= 1
  PROVE  Spec => []NoOrphans
<1>1. IInv => NoOrphans
  BY DEF IInv, ShutdownProgress, NoOrphans, Live
<1>2. Spec => []IInv
  BY ServerInvariance
<1>3. QED
  BY <1>1, <1>2, PTL

(* Nobody waits for room in /available once the server has started, whatever   *)
(* an earlier run has left there: each entry that is still to come stands for  *)
(* a descriptor sent for an entry that was taken out.                          *)
THEOREM AvailableHasRoom == Spec => []AnnouncingNeverBlocks
<1>1. Init => TypeInv /\ Room
  BY InitType, InitRoom
<1>2. TypeInv /\ Room /\ [Next]_vars => TypeInv' /\ Room'
  BY NextType, NextRoom
<1>3. TypeInv /\ Room => AnnouncingNeverBlocks
  BY RoomIsEnough
<1>4. QED
  BY <1>1, <1>2, <1>3, PTL DEF Spec
===============================================================================
