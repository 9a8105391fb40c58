--------------------------- MODULE HttpHandOverProofs ---------------------------
(*******************************************************************************)
(* HttpServer's invariant of the hand-over, and what follows from it, when     *)
(* /available is empty at the start.                                           *)
(*******************************************************************************)
EXTENDS HttpServerProofs

Inv == TypeInv /\ HandOver

(* The parts of HandOver about the workers.                                    *)
Offers == AnnouncedWhenFree /\ OfferedAreFree /\ OneAtATime /\ YetToFork

-------------------------------------------------------------------------------
(* What most steps do to the parts of the invariant.                           *)

LEMMA SameOffers ==
  ASSUME Inv, UNCHANGED <<available, worker, channel, serving, parent, pid, index>>
  PROVE  Offers'
<1>1. Offered' = Offered
  BY DEF Offered
<1>2. AnnouncedWhenFree'
  BY <1>1 DEF Inv, HandOver, AnnouncedWhenFree, Free, Live
<1>3. OfferedAreFree'
  BY <1>1 DEF Inv, HandOver, OfferedAreFree, Free
<1>4. OneAtATime' /\ YetToFork'
  BY DEF Inv, HandOver, OneAtATime, Busy, YetToFork
<1>5. QED
  BY <1>2, <1>3, <1>4 DEF Offers

(* Announcing one that is not announced yet.                                   *)
LEMMA Announcing ==
  ASSUME Inv, NEW w \in 0 .. MaxConnections, w \notin Range(available),
         available' = Append(available, w)
  PROVE  Range(available') = Range(available) \cup {w} /\ IsInjective(available')
<1> DEFINE Pids == 0 .. MaxConnections
<1>1. available \in Seq(Pids) /\ IsInjective(available) /\ w \in Pids
  BY DEF Inv, TypeInv, TypeOK, HandOver, AnnouncedWhenFree
<1> HIDE DEF Pids
<1>2. Range(Append(available, w)) = Range(available) \cup {w}
  BY <1>1, AppendRange
<1>3. IsInjective(Append(available, w))
  BY <1>1, AppendRange
<1>4. QED
  BY <1>2, <1>3

(* Steps of the parent that neither begin nor end an offer to a worker.        *)
LEMMA NoOffer ==
  ASSUME Inv, UNCHANGED <<available, worker, channel, serving>>,
         parent # "killed", parent' \notin {"fork", "announce", "send"},
         parent \in {"announce", "send"} => parent' = "killed"
  PROVE  Offers'
<1>1. Offered' = Range(available) /\ Offered' \subseteq Offered
  BY DEF Offered
<1>2. parent' # "killed" => Offered' = Offered
  BY DEF Offered
<1>3. AnnouncedWhenFree'
  BY <1>2 DEF Inv, HandOver, AnnouncedWhenFree, Free, Live
<1>4. OfferedAreFree'
  BY <1>1 DEF Inv, HandOver, OfferedAreFree, Free
<1>5. OneAtATime' /\ YetToFork'
  BY DEF Inv, HandOver, OneAtATime, Busy, YetToFork
<1>6. QED
  BY <1>3, <1>4, <1>5 DEF Offers

(* Steps of one worker that do not change whether it is free.                  *)
LEMMA WorkerMoves ==
  ASSUME Inv, NEW w \in Workers, UNCHANGED <<parent_vars, available>>,
         \A v \in Workers \ {w} : /\ worker'[v] = worker[v]
                                  /\ channel'[v] = channel[v]
                                  /\ serving'[v] = serving[v],
         worker[w] # "none",
         Live(w)' => Live(w),
         Free(w) => Free(w)',
         Live(w)' /\ Free(w)' => Free(w),
         serving'[w] # NoConnection <=> Busy(w)',
         Len(channel'[w]) <= 1,
         channel'[w] # <<>> => worker'[w] \in {"start", "check", "recv", "recving"}
  PROVE  Offers'
<1>1. Offered' = Offered
  BY DEF Offered, parent_vars
<1>2. \A v \in Workers \ {w} : /\ Live(v)' = Live(v)
                               /\ Free(v)' = Free(v)
                               /\ Busy(v)' = Busy(v)
  BY DEF Live, Free, Busy
<1>3. AnnouncedWhenFree'
  <2>1. IsInjective(available')
    BY DEF Inv, HandOver, AnnouncedWhenFree
  <2>2. ASSUME NEW v \in Workers, parent' # "killed", Live(v)'
        PROVE  Free(v)' <=> v \in Offered'
    <3>1. Free(v) <=> v \in Offered
      BY <1>2, <2>2 DEF Inv, HandOver, AnnouncedWhenFree, parent_vars
    <3>2. CASE v = w
      BY <1>1, <2>2, <3>1, <3>2
    <3>3. CASE v # w
      BY <1>1, <1>2, <3>1, <3>3
    <3>4. QED
      BY <3>2, <3>3
  <2>3. QED
    BY <2>1, <2>2 DEF AnnouncedWhenFree
<1>4. OfferedAreFree'
  BY <1>1, <1>2 DEF Inv, HandOver, OfferedAreFree, parent_vars
<1>5. OneAtATime'
  BY <1>2 DEF Inv, HandOver, OneAtATime
<1>6. YetToFork'
  BY DEF Inv, HandOver, YetToFork, parent_vars
<1>7. QED
  BY <1>3, <1>4, <1>5, <1>6 DEF Offers

(* Connections that move, and a client that has been here before.              *)
LEMMA NobodyNew ==
  ASSUME Inv, Here' \subseteq Here \cup {NoConnection},
         \A c \in Connections : peer'[c] = "absent" => peer[c] = "absent"
  PROVE  NotYetHere'
BY ServerAssumption DEF Inv, HandOver, NotYetHere

-------------------------------------------------------------------------------
(* The start.                                                                  *)

LEMMA InitHand ==
  ASSUME Leftover = 0, Init
  PROVE  Inv
<1>1. TypeInv
  BY InitType
<1>2. available = <<>> /\ Range(available) = {}
  BY DEF Init, Range
<1>3. Offered = {}
  BY <1>2 DEF Offered, Init
<1>4. Offers
  <2>1. \A w \in Workers : ~Live(w) /\ ~Busy(w)
    BY DEF Init, Live, Busy
  <2>2. AnnouncedWhenFree
    BY <1>2, <2>1 DEF AnnouncedWhenFree, IsInjective
  <2>3. OfferedAreFree /\ YetToFork
    BY <1>3 DEF OfferedAreFree, YetToFork, Init
  <2>4. OneAtATime
    BY <2>1 DEF OneAtATime, Init
  <2>5. QED
    BY <2>2, <2>3, <2>4 DEF Offers
<1>5. NotYetHere
  <2>1. Here \subseteq {NoConnection}
    BY DEF Here, InFlight, Range, Init
  <2>2. QED
    BY <2>1, ServerAssumption DEF NotYetHere
<1>6. HandsEmpty
  BY DEF HandsEmpty, Init
<1>7. QED
  BY <1>1, <1>4, <1>5, <1>6 DEF Inv, HandOver, Offers

(* A worker that is forked next has not been offered, nor given anything.      *)
LEMMA ForkHand ==
  ASSUME Inv, Fork
  PROVE  HandOver'
<1>1. index \in Workers /\ worker[index] = "none"
  BY ServerAssumption DEF Inv, TypeInv, TypeOK, HandOver, YetToFork, Fork, Workers
<1>2. index \notin Range(available) /\ channel[index] = <<>> /\ serving[index] = NoConnection
  BY <1>1 DEF Inv, HandOver, OfferedAreFree, Offered, Free, OneAtATime, Busy
<1>3. Offers'
  <2>1. CASE worker' = [worker EXCEPT ![index] = "start"] /\ parent' = "announce" /\ index' = index
    <3>1. Offered' = Offered \cup {index} /\ Offered = Range(available)
      BY <2>1 DEF Offered, Fork
    <3>2. \A w \in Workers : worker'[w] = IF w = index THEN "start" ELSE worker[w]
      BY <2>1 DEF Inv, TypeInv, TypeOK
    <3>3. AnnouncedWhenFree'
      BY <1>2, <3>1, <3>2 DEF Inv, HandOver, AnnouncedWhenFree, Free, Live, Fork
    <3>4. OfferedAreFree'
      BY <1>1, <1>2, <2>1, <3>1, <3>2 DEF Inv, HandOver, OfferedAreFree, Free, Fork
    <3>5. OneAtATime'
      BY <1>2, <3>2 DEF Inv, HandOver, OneAtATime, Busy, Fork
    <3>6. YetToFork'
      BY <1>1, <2>1, <3>2, ServerAssumption DEF Inv, HandOver, YetToFork, Fork, Workers
    <3>7. QED
      BY <3>3, <3>4, <3>5, <3>6 DEF Offers
  <2>2. CASE index' = index + 1 /\ UNCHANGED <<worker, parent>>
    <3>1. Offered' = Offered
      BY <2>2 DEF Offered, Fork
    <3>2. AnnouncedWhenFree' /\ OfferedAreFree'
      BY <2>2, <3>1 DEF Inv, HandOver, AnnouncedWhenFree, OfferedAreFree, Free, Live, Fork
    <3>3. OneAtATime'
      BY <2>2 DEF Inv, HandOver, OneAtATime, Busy, Fork
    <3>4. YetToFork'
      BY <1>1, <2>2, ServerAssumption DEF Inv, HandOver, YetToFork, Fork, Workers
    <3>5. QED
      BY <3>2, <3>3, <3>4 DEF Offers
  <2>3. CASE parent' = "killed" /\ UNCHANGED <<worker, index>>
    BY <2>3, NoOffer DEF Fork
  <2>4. QED
    BY <2>1, <2>2, <2>3 DEF Fork
<1>4. NotYetHere'
  BY NobodyNew DEF Fork, Here, InFlight, client_vars
<1>5. HandsEmpty'
  BY DEF Inv, HandOver, HandsEmpty, Handing, Fork
<1>6. QED
  BY <1>3, <1>4, <1>5 DEF HandOver, Offers

LEMMA AnnounceChildHand ==
  ASSUME Inv, AnnounceChild
  PROVE  HandOver'
<1>1. index \in Workers /\ index \notin Range(available) /\ parent = "announce"
  BY ServerAssumption
    DEF Inv, TypeInv, TypeOK, IndexInRange, HandOver, OfferedAreFree, AnnounceChild, Workers
<1>2. /\ Range(available') = Range(available) \cup {index}
      /\ IsInjective(available')
  <2>1. index \in 0 .. MaxConnections /\ available' = Append(available, index)
    BY DEF Inv, TypeInv, TypeOK, AnnounceChild
  <2>2. QED
    BY <1>1, <2>1, Announcing
<1>3. Offered' = Offered
  BY <1>1, <1>2 DEF Offered, AnnounceChild
<1>4. AnnouncedWhenFree' /\ OfferedAreFree'
  BY <1>1, <1>2, <1>3
    DEF Inv, HandOver, AnnouncedWhenFree, OfferedAreFree, Free, Live, AnnounceChild, worker_vars
<1>5. OneAtATime'
  BY DEF Inv, HandOver, OneAtATime, Busy, AnnounceChild, worker_vars
<1>6. YetToFork'
  BY <1>1, ServerAssumption DEF Inv, HandOver, YetToFork, AnnounceChild, Workers, worker_vars
<1>7. NotYetHere'
  BY NobodyNew DEF AnnounceChild, Here, InFlight, client_vars, worker_vars
<1>8. HandsEmpty'
  BY DEF Inv, HandOver, HandsEmpty, Handing, AnnounceChild
<1>9. QED
  BY <1>4, <1>5, <1>6, <1>7, <1>8 DEF HandOver

-------------------------------------------------------------------------------
(* The accept loop.                                                            *)

LEMMA StartedHand ==
  ASSUME Inv, Started
  PROVE  HandOver'
<1>1. Offers'
  BY NoOffer DEF Started, worker_vars
<1>2. NotYetHere'
  BY NobodyNew DEF Started, Here, InFlight, client_vars, worker_vars
<1>3. HandsEmpty'
  BY DEF Inv, HandOver, HandsEmpty, Handing, Started
<1>4. QED
  BY <1>1, <1>2, <1>3 DEF HandOver, Offers

LEMMA CheckHand ==
  ASSUME Inv, Check
  PROVE  HandOver'
<1>1. Offers'
  BY NoOffer DEF Check, worker_vars
<1>2. NotYetHere'
  BY NobodyNew DEF Check, Here, InFlight, client_vars, worker_vars
<1>3. HandsEmpty'
  BY DEF Inv, HandOver, HandsEmpty, Handing, Check
<1>4. QED
  BY <1>1, <1>2, <1>3 DEF HandOver, Offers

LEMMA AcceptHand ==
  ASSUME Inv, Accept
  PROVE  HandOver'
<1>1. Offers'
  BY NoOffer DEF Accept, worker_vars
<1>2. NotYetHere'
  <2>1. CASE backlog = <<>>
    BY <2>1, NobodyNew DEF Accept, Here, InFlight, worker_vars
  <2>2. CASE backlog # <<>>
    <3>1. Range(backlog) = {Head(backlog)} \cup Range(Tail(backlog))
      BY <2>2, HeadAndTail DEF Inv, TypeInv, TypeOK
    <3>2. QED
      BY <2>2, <3>1, NobodyNew DEF Accept, Here, InFlight, worker_vars
  <2>3. QED
    BY <2>1, <2>2
<1>3. HandsEmpty'
  BY DEF Inv, HandOver, HandsEmpty, Handing, Accept
<1>4. QED
  BY <1>1, <1>2, <1>3 DEF HandOver, Offers

(* The pid received is the one offer that has left /available.                 *)
LEMMA ReceiveHand ==
  ASSUME Inv, Receive
  PROVE  HandOver'
<1>1. Offers'
  <2>1. CASE available = <<>>
    BY <2>1, NoOffer DEF Receive, worker_vars
  <2>2. CASE available # <<>>
    <3>1. /\ Head(available) \in Range(available)
          /\ Range(Tail(available)) = Range(available) \ {Head(available)}
          /\ IsInjective(Tail(available))
      BY <2>2, TailDropsHead DEF Inv, TypeInv, TypeOK, HandOver, AnnouncedWhenFree
    <3>2. Offered' = Offered
      BY <2>2, <3>1 DEF Offered, Receive
    <3>3. AnnouncedWhenFree' /\ OfferedAreFree'
      BY <2>2, <3>1, <3>2
        DEF Inv, HandOver, AnnouncedWhenFree, OfferedAreFree, Free, Live, Receive, worker_vars
    <3>4. OneAtATime' /\ YetToFork'
      BY <2>2 DEF Inv, HandOver, OneAtATime, Busy, YetToFork, Receive, worker_vars
    <3>5. QED
      BY <3>3, <3>4 DEF Offers
  <2>3. QED
    BY <2>1, <2>2
<1>2. NotYetHere'
  BY NobodyNew DEF Receive, Here, InFlight, client_vars, worker_vars
<1>3. HandsEmpty'
  BY DEF Inv, HandOver, HandsEmpty, Handing, Receive
<1>4. QED
  BY <1>1, <1>2, <1>3 DEF HandOver, Offers

(* What Send does to the channel of the worker it has been offered.            *)
LEMMA SendChannel ==
  ASSUME Inv, Send
  PROVE  /\ pid \in Workers /\ Free(pid) /\ pid \notin Range(available)
         /\ worker[pid] \in {"start", "check", "recv", "recving"}
         /\ new_socket \in Connections
         /\ channel'[pid] = <<new_socket>>
         /\ \A v \in Workers \ {pid} : channel'[v] = channel[v]
<1>1. pid \in Workers /\ Free(pid) /\ pid \notin Range(available)
  BY DEF Inv, HandOver, OfferedAreFree, Offered, Send
<1>2. worker[pid] \in {"start", "check", "recv", "recving"}
  BY <1>1 DEF Inv, TypeInv, TypeOK, WorkerLabels, HandOver, OneAtATime, Busy, Free, Send
<1>3. new_socket \in Connections
  BY DEF Inv, TypeInv, HandsFull, Handing, Send
<1>4. \A v \in Workers : channel'[v] = IF v = pid THEN Append(channel[pid], new_socket) ELSE channel[v]
  BY <1>1 DEF Inv, TypeInv, TypeOK, Send
<1>5. Append(channel[pid], new_socket) = <<new_socket>>
  BY <1>1 DEF Free
<1>6. QED
  BY <1>1, <1>2, <1>3, <1>4, <1>5

LEMMA SendHand ==
  ASSUME Inv, Send
  PROVE  HandOver'
<1>1. /\ pid \in Workers /\ Free(pid) /\ pid \notin Range(available)
      /\ worker[pid] \in {"start", "check", "recv", "recving"}
      /\ channel'[pid] = <<new_socket>>
      /\ \A v \in Workers \ {pid} : channel'[v] = channel[v]
  BY SendChannel
<1>2. channel'[pid] # <<>> /\ Len(channel'[pid]) = 1 /\ Range(channel'[pid]) = {new_socket}
  BY <1>1 DEF Range
<1>3. Offered' = Range(available) /\ Offered = Range(available) \cup {pid}
  BY DEF Offered, Send
<1>4. AnnouncedWhenFree'
  BY <1>1, <1>2, <1>3 DEF Inv, HandOver, AnnouncedWhenFree, Free, Live, Send
<1>5. OfferedAreFree'
  BY <1>1, <1>3 DEF Inv, HandOver, OfferedAreFree, Free, Send
<1>6. OneAtATime'
  BY <1>1, <1>2 DEF Inv, HandOver, OneAtATime, Busy, Send
<1>7. YetToFork'
  BY DEF YetToFork, Send
<1>8. NotYetHere'
  <2>1. \A v \in Workers : InFlight(v)' \subseteq InFlight(v) \cup {new_socket}
    BY <1>1, <1>2 DEF InFlight
  <2>2. Here' \subseteq Here \cup {NoConnection}
    BY <2>1 DEF Here, Send, client_vars
  <2>3. QED
    BY <2>2, NobodyNew DEF Send, client_vars
<1>9. HandsEmpty'
  BY DEF HandsEmpty, Send
<1>10. QED
  BY <1>4, <1>5, <1>6, <1>7, <1>8, <1>9 DEF HandOver

LEMMA SendFailsHand ==
  ASSUME Inv, SendFails
  PROVE  HandOver'
<1>1. pid \notin Range(available)
  BY DEF Inv, HandOver, OfferedAreFree, SendFails
<1>2. /\ Range(available') = Range(available) \cup {pid}
      /\ IsInjective(available')
  <2>1. pid \in 0 .. MaxConnections /\ available' = Append(available, pid)
    BY DEF Inv, TypeInv, TypeOK, SendFails, AnnounceAgain
  <2>2. QED
    BY <1>1, <2>1, Announcing
<1>3. Offered' = Offered
  BY <1>2 DEF Offered, SendFails
<1>4. AnnouncedWhenFree' /\ OfferedAreFree'
  BY <1>2, <1>3
    DEF Inv, HandOver, AnnouncedWhenFree, OfferedAreFree, Free, Live, SendFails, worker_vars
<1>5. OneAtATime' /\ YetToFork'
  BY DEF Inv, HandOver, OneAtATime, Busy, YetToFork, SendFails, worker_vars
<1>6. NotYetHere'
  BY NobodyNew DEF SendFails, CloseNew, Here, InFlight, client_vars, worker_vars
<1>7. HandsEmpty'
  BY DEF HandsEmpty, SendFails, CloseNew
<1>8. QED
  BY <1>4, <1>5, <1>6, <1>7 DEF HandOver

LEMMA SendToTheDeadHand ==
  ASSUME Inv, SendToTheDead
  PROVE  HandOver'
<1>1. Offers'
  BY NoOffer DEF SendToTheDead, worker_vars
<1>2. NotYetHere'
  BY NobodyNew DEF SendToTheDead, Here, InFlight, client_vars, worker_vars
<1>3. HandsEmpty'
  BY DEF HandsEmpty, SendToTheDead
<1>4. QED
  BY <1>1, <1>2, <1>3 DEF HandOver, Offers

(* No pid of an earlier run is ever received.                                  *)
LEMMA NeverAstray ==
  ASSUME Inv
  PROVE  ~SendAstray
BY ServerAssumption DEF Inv, HandOver, OfferedAreFree, Offered, SendAstray, Stale, Workers

LEMMA RefuseHand ==
  ASSUME Inv, Refuse
  PROVE  HandOver'
<1>1. Offers'
  BY NoOffer DEF Refuse, worker_vars
<1>2. NotYetHere'
  BY NobodyNew DEF Refuse, CloseNew, Here, InFlight, client_vars, worker_vars
<1>3. HandsEmpty'
  BY DEF HandsEmpty, Handing, Refuse, CloseNew
<1>4. QED
  BY <1>1, <1>2, <1>3 DEF HandOver, Offers

-------------------------------------------------------------------------------
(* Signals and shutdown.                                                       *)

(* SIGQUIT makes no worker free and takes none that lives out of being so.     *)
LEMMA SigquitOffers ==
  ASSUME Inv, NEW S \in SUBSET Workers, Sigquit(S), available' = available,
         parent = "quit", parent' \in {"wait", "killed"}
  PROVE  Offers'
<1>1. Offered' = Range(available) /\ Offered = Range(available)
  BY DEF Offered
<1>2. ASSUME NEW w \in Workers
      PROVE  /\ Live(w)' => Live(w)
             /\ Free(w) => Free(w)'
             /\ Live(w)' /\ Free(w)' => Free(w)
             /\ serving'[w] # NoConnection <=> Busy(w)'
             /\ Len(channel'[w]) <= 1
             /\ channel'[w] # <<>> => worker'[w] \in {"start", "check", "recv", "recving"}
  <2>1. /\ serving[w] # NoConnection <=> Busy(w)
        /\ Len(channel[w]) <= 1
        /\ channel[w] # <<>> => worker[w] \in {"start", "check", "recv", "recving"}
    BY DEF Inv, HandOver, OneAtATime
  <2>2. CASE w \in S /\ Dies(w)
    <3>1. /\ worker'[w] = "gone"
          /\ channel'[w] = <<>>
          /\ serving'[w] = serving[w]
      <4>1. w \in S /\ Dies(w) /\ ~HangsUp(w)
        BY <2>2 DEF Dies, HangsUp
      <4>2. worker'[w] = "gone"
        BY <4>1 DEF Sigquit, Dies, WakesUp, HangsUp
      <4>3. channel'[w] = <<>>
        BY <4>1 DEF Sigquit
      <4>4. serving'[w] = serving[w]
        BY <4>1 DEF Sigquit
      <4>5. QED
        BY <4>2, <4>3, <4>4
    <3>2. QED
      BY <2>1, <2>2, <3>1, EmptyQueue DEF Dies, Live, Free, Busy
  <2>3. CASE w \in S /\ WakesUp(w)
    <3>1. worker'[w] = "check" /\ channel'[w] = channel[w] /\ serving'[w] = serving[w]
      BY <2>3 DEF Sigquit, Dies, WakesUp, HangsUp
    <3>2. QED
      BY <2>1, <2>3, <3>1 DEF WakesUp, Live, Free, Busy
  <2>4. CASE w \in S /\ HangsUp(w)
    <3>1. worker'[w] = "announce" /\ channel'[w] = channel[w] /\ serving'[w] = NoConnection
      BY <2>4 DEF Sigquit, Dies, WakesUp, HangsUp
    <3>2. QED
      BY <2>1, <2>4, <3>1 DEF HangsUp, Live, Free, Busy
  <2>5. CASE w \notin S \/ (~Dies(w) /\ ~WakesUp(w) /\ ~HangsUp(w))
    <3>1. worker'[w] = worker[w] /\ channel'[w] = channel[w] /\ serving'[w] = serving[w]
      BY <2>5 DEF Sigquit
    <3>2. QED
      BY <2>1, <3>1 DEF Live, Free, Busy
  <2>6. QED
    BY <2>2, <2>3, <2>4, <2>5
<1>3. AnnouncedWhenFree'
  BY <1>1, <1>2 DEF Inv, HandOver, AnnouncedWhenFree
<1>4. OfferedAreFree'
  BY <1>1, <1>2 DEF Inv, HandOver, OfferedAreFree
<1>5. OneAtATime'
  BY <1>2 DEF OneAtATime
<1>6. YetToFork'
  BY DEF YetToFork
<1>7. QED
  BY <1>3, <1>4, <1>5, <1>6 DEF Offers

LEMMA QuitHand ==
  ASSUME Inv, Quit
  PROVE  HandOver'
<1>1. PICK S \in SUBSET Workers : Sigquit(S)
  <2>1. index \in Workers
    BY ServerAssumption DEF Inv, TypeInv, TypeOK, IndexInRange, Quit, Workers
  <2>2. QED
    BY <2>1 DEF Quit
<1>2. Offers'
  BY <1>1, SigquitOffers DEF Quit
<1>3. NotYetHere'
  <2>1. \A w \in Workers : channel'[w] \in {<<>>, channel[w]} /\ serving'[w] \in {serving[w], NoConnection}
    BY <1>1 DEF Sigquit
  <2>2. \A w \in Workers : InFlight(w)' \subseteq InFlight(w)
    BY <2>1 DEF InFlight, Range
  <2>3. ended' \subseteq ended \cup {serving[w] : w \in Workers} \cup UNION {InFlight(w) : w \in Workers}
    BY <1>1 DEF Sigquit
  <2>4. Here' \subseteq Here \cup {NoConnection}
    BY <2>1, <2>2, <2>3 DEF Here, Quit, client_vars
  <2>5. QED
    BY <2>4, NobodyNew DEF Quit, client_vars
<1>4. HandsEmpty'
  BY DEF Inv, HandOver, HandsEmpty, Handing, Quit
<1>5. QED
  BY <1>2, <1>3, <1>4 DEF HandOver, Offers

LEMMA WaitEndsHand ==
  ASSUME Inv, WaitEnds
  PROVE  HandOver'
<1>1. parent = "wait" /\ parent' \in {"quit", "done"}
  BY DEF WaitEnds, NextChild
<1>2. Offers'
  BY <1>1, NoOffer DEF WaitEnds, worker_vars
<1>3. NotYetHere'
  BY NobodyNew DEF WaitEnds, Here, InFlight, client_vars, worker_vars
<1>4. HandsEmpty'
  BY <1>1 DEF Inv, HandOver, HandsEmpty, Handing, WaitEnds
<1>5. QED
  BY <1>2, <1>3, <1>4 DEF HandOver, Offers

LEMMA SigintHand ==
  ASSUME Inv, Sigint
  PROVE  HandOver'
<1>1. Offers'
  <2>1. CASE UNCHANGED <<parent, index>>
    BY <2>1, SameOffers DEF Sigint, worker_vars
  <2>2. CASE ~UNCHANGED <<parent, index>>
    <3>1. /\ parent # "killed" /\ parent' \notin {"fork", "announce", "send"}
          /\ parent \in {"announce", "send"} => parent' = "killed"
      BY <2>2 DEF Sigint, SigintParent, NextChild, Stopped
    <3>2. QED
      BY <3>1, NoOffer DEF Sigint, worker_vars
  <2>3. QED
    BY <2>1, <2>2
<1>2. NotYetHere'
  <2>1. new_socket' \in {new_socket, NoConnection}
    BY DEF Sigint, SigintParent
  <2>2. QED
    BY <2>1, NobodyNew DEF Sigint, Here, InFlight, client_vars, worker_vars
<1>3. HandsEmpty'
  BY DEF Inv, HandOver, HandsEmpty, Handing, Sigint, SigintParent, NextChild
<1>4. QED
  BY <1>1, <1>2, <1>3 DEF HandOver, Offers

-------------------------------------------------------------------------------
(* The workers.                                                                *)

(* What is left to show of a worker's step besides Offers.                     *)
LEMMA WorkerHand ==
  ASSUME Inv, Offers', UNCHANGED <<parent_vars, backlog>>,
         \A c \in Connections : peer'[c] = "absent" => peer[c] = "absent",
         NEW w \in Workers,
         \A v \in Workers : serving'[v] \in {serving[v], NoConnection} \cup InFlight(v),
         \A v \in Workers : InFlight(v)' \subseteq InFlight(v),
         ended' \subseteq ended \cup {serving[w]} \cup InFlight(w)
  PROVE  HandOver'
<1>1. Here' \subseteq Here \cup {NoConnection}
  BY DEF Here, parent_vars
<1>2. NotYetHere'
  BY <1>1, NobodyNew
<1>3. HandsEmpty'
  BY DEF Inv, HandOver, HandsEmpty, parent_vars
<1>4. QED
  BY <1>2, <1>3 DEF HandOver, Offers

(* A process that ends was not busy announcing itself.                         *)
LEMMA VanishesHand ==
  ASSUME Inv, NEW w \in Workers, Vanishes(w),
         worker[w] \in {"start", "check", "read", "reading", "answer"},
         UNCHANGED <<parent_vars, available, client_vars>>
  PROVE  HandOver'
<1>1. /\ worker'[w] = "gone" /\ channel'[w] = <<>> /\ serving'[w] = NoConnection
      /\ \A v \in Workers \ {w} : /\ worker'[v] = worker[v]
                                  /\ channel'[v] = channel[v]
                                  /\ serving'[v] = serving[v]
  BY DEF Inv, TypeInv, TypeOK, Vanishes
<1>2. Offers'
  BY <1>1, WorkerMoves, EmptyQueue DEF Live, Free, Busy
<1>3. \A v \in Workers : /\ serving'[v] \in {serving[v], NoConnection}
                        /\ InFlight(v)' \subseteq InFlight(v)
  BY <1>1 DEF InFlight, Range
<1>4. ended' \subseteq ended \cup {serving[w]} \cup InFlight(w)
  BY DEF Vanishes
<1>5. QED
  BY <1>2, <1>3, <1>4, WorkerHand DEF client_vars

(* A worker that only goes on to another place.                                *)
LEMMA GoesOn ==
  ASSUME Inv, NEW w \in Workers, NEW l \in WorkerLabels \ {"none", "announce"},
         worker' = [worker EXCEPT ![w] = l], worker[w] \notin {"none", "announce", "gone"},
         l \in {"read", "reading", "answer"} <=> Busy(w),
         channel[w] # <<>> => l \in {"start", "check", "recv", "recving"},
         UNCHANGED <<parent_vars, available, channel, serving>>
  PROVE  Offers'
<1>1. worker'[w] = l /\ \A v \in Workers \ {w} : worker'[v] = worker[v]
  BY DEF Inv, TypeInv, TypeOK
<1>2. serving[w] # NoConnection <=> Busy(w)
  BY DEF Inv, HandOver, OneAtATime
<1>3. Len(channel[w]) <= 1
  BY DEF Inv, HandOver, OneAtATime
<1>4. QED
  BY <1>1, <1>2, <1>3, WorkerMoves DEF Live, Free, Busy

LEMMA InstallHand ==
  ASSUME Inv, NEW w \in Workers, Install(w)
  PROVE  HandOver'
<1>1. Offers'
  BY GoesOn DEF Install, WorkerLabels, Busy
<1>2. QED
  BY <1>1, WorkerHand DEF Install, InFlight, client_vars

LEMMA SigintWorkerHand ==
  ASSUME Inv, NEW w \in Workers, SigintWorker(w)
  PROVE  HandOver'
BY VanishesHand DEF SigintWorker

LEMMA AbortHand ==
  ASSUME Inv, NEW w \in Workers, Abort(w)
  PROVE  HandOver'
BY VanishesHand DEF Abort

LEMMA CheckStopHand ==
  ASSUME Inv, NEW w \in Workers, CheckStop(w)
  PROVE  HandOver'
<1>1. CASE stop[w]
  BY <1>1, VanishesHand DEF CheckStop
<1>2. CASE ~stop[w]
  <2>1. Offers'
    BY <1>2, GoesOn DEF CheckStop, WorkerLabels, Busy
  <2>2. QED
    BY <1>2, <2>1, WorkerHand DEF CheckStop, InFlight, client_vars
<1>3. QED
  BY <1>1, <1>2

LEMMA RecvFdHand ==
  ASSUME Inv, NEW w \in Workers, RecvFd(w)
  PROVE  HandOver'
<1>1. CASE channel[w] = <<>>
  <2>1. PICK l \in {"check", "recving"} : worker' = [worker EXCEPT ![w] = l]
    BY <1>1 DEF RecvFd, Continue
  <2>2. Offers'
    BY <1>1, <2>1, GoesOn DEF RecvFd, WorkerLabels, Busy
  <2>3. QED
    BY <1>1, <2>2, WorkerHand DEF RecvFd, InFlight, client_vars
<1>2. CASE channel[w] # <<>>
  <2>1. channel[w] \in Seq(Connections) /\ Len(channel[w]) <= 1
    BY DEF Inv, TypeInv, TypeOK, HandOver, OneAtATime
  <2>2. /\ Head(channel[w]) \in Connections
        /\ Range(channel[w]) = {Head(channel[w])} \cup Range(Tail(channel[w]))
        /\ Tail(channel[w]) = <<>>
    BY <1>2, <2>1, HeadAndTail
  <2>3. /\ worker'[w] = "read" /\ channel'[w] = <<>> /\ serving'[w] = Head(channel[w])
        /\ \A v \in Workers \ {w} : /\ worker'[v] = worker[v]
                                    /\ channel'[v] = channel[v]
                                    /\ serving'[v] = serving[v]
    BY <1>2, <2>2 DEF Inv, TypeInv, TypeOK, RecvFd
  <2>4. Offers'
    BY <1>2, <2>2, <2>3, WorkerMoves, EmptyQueue, ServerAssumption DEF RecvFd, Live, Free, Busy
  <2>5. \A v \in Workers : /\ serving'[v] \in {serving[v], NoConnection} \cup InFlight(v)
                          /\ InFlight(v)' \subseteq InFlight(v)
    BY <2>2, <2>3 DEF InFlight, Range
  <2>6. QED
    BY <2>4, <2>5, WorkerHand DEF RecvFd, client_vars
<1>3. QED
  BY <1>1, <1>2

(* Client::close leads to the announcement, not yet to a free worker.          *)
LEMMA CloseHand ==
  ASSUME Inv, NEW w \in Workers, Busy(w), Close(w),
         UNCHANGED <<parent_vars, available, channel, backlog>>,
         \A c \in Connections : peer'[c] = "absent" => peer[c] = "absent"
  PROVE  HandOver'
<1>1. /\ worker'[w] = "announce" /\ serving'[w] = NoConnection
      /\ \A v \in Workers \ {w} : worker'[v] = worker[v] /\ serving'[v] = serving[v]
  BY DEF Inv, TypeInv, TypeOK, Close
<1>2. serving[w] # NoConnection /\ channel[w] = <<>>
  BY DEF Inv, HandOver, OneAtATime, Busy
<1>3. Offers'
  BY <1>1, <1>2, WorkerMoves, EmptyQueue DEF Live, Free, Busy
<1>4. \A v \in Workers : serving'[v] \in {serving[v], NoConnection}
  BY <1>1
<1>5. QED
  BY <1>3, <1>4, WorkerHand DEF Close, InFlight

LEMMA ReadHand ==
  ASSUME Inv, NEW w \in Workers, Read(w)
  PROVE  HandOver'
<1>1. Busy(w) /\ channel[w] = <<>>
  BY DEF Inv, HandOver, OneAtATime, Busy, Read
<1>2. CASE Close(w)
  BY <1>1, <1>2, CloseHand DEF Read, client_vars
<1>3. CASE ~Close(w)
  <2>1. PICK l \in {"answer", "reading"} : worker' = [worker EXCEPT ![w] = l]
    BY <1>3 DEF Read
  <2>2. Offers'
    BY <1>1, <1>3, <2>1, GoesOn DEF Read, WorkerLabels, Busy
  <2>3. QED
    BY <1>3, <2>2, WorkerHand DEF Read, InFlight, client_vars
<1>4. QED
  BY <1>2, <1>3

LEMMA AnswerHand ==
  ASSUME Inv, NEW w \in Workers, Answer(w)
  PROVE  HandOver'
<1>1. Busy(w) /\ channel[w] = <<>>
  BY DEF Inv, HandOver, OneAtATime, Busy, Answer
<1>2. \A c \in Connections : peer'[c] = "absent" => peer[c] = "absent"
  BY DEF Inv, TypeInv, TypeOK, Answer
<1>3. CASE Close(w)
  BY <1>1, <1>2, <1>3, CloseHand DEF Answer
<1>4. CASE ~Close(w)
  <2>1. Offers'
    BY <1>1, <1>4, GoesOn DEF Answer, WorkerLabels, Busy
  <2>2. QED
    BY <1>2, <1>4, <2>1, WorkerHand DEF Answer, InFlight
<1>5. QED
  BY <1>3, <1>4

(* The announcement: from now on the worker is free.                           *)
LEMMA AnnounceHand ==
  ASSUME Inv, NEW w \in Workers, Announce(w)
  PROVE  HandOver'
<1>1. w \notin Offered /\ channel[w] = <<>> /\ serving[w] = NoConnection
  BY DEF Inv, HandOver, OfferedAreFree, Free, OneAtATime, Busy, Announce
<1>2. /\ Range(available') = Range(available) \cup {w}
      /\ IsInjective(available')
  <2>1. w \in 0 .. MaxConnections /\ available' = Append(available, w)
    BY ServerAssumption DEF Announce, Workers
  <2>2. w \notin Range(available)
    BY <1>1 DEF Offered
  <2>3. QED
    BY <2>1, <2>2, Announcing
<1>3. /\ worker'[w] = "check"
      /\ \A v \in Workers \ {w} : worker'[v] = worker[v]
  BY DEF Inv, TypeInv, TypeOK, Announce
<1>4. Offered' = Offered \cup {w}
  BY <1>2 DEF Offered, Announce, parent_vars
<1>5. \A v \in Workers \ {w} : /\ Live(v)' = Live(v)
                               /\ Free(v)' = Free(v)
                               /\ Busy(v)' = Busy(v)
  BY <1>3 DEF Live, Free, Busy, Announce
<1>6. Free(w)' /\ ~Busy(w)'
  BY <1>1, <1>3 DEF Free, Busy, Announce
<1>7. AnnouncedWhenFree'
  BY <1>2, <1>4, <1>5, <1>6 DEF Inv, HandOver, AnnouncedWhenFree, Announce, parent_vars
<1>8. OfferedAreFree'
  BY <1>1, <1>2, <1>4, <1>5, <1>6
    DEF Inv, HandOver, OfferedAreFree, Offered, Announce, parent_vars
<1>9. OneAtATime'
  BY <1>1, <1>3, <1>5, <1>6, EmptyQueue DEF Inv, HandOver, OneAtATime, Announce
<1>10. YetToFork'
  BY <1>3 DEF Inv, HandOver, YetToFork, Announce, parent_vars
<1>11. Offers'
  BY <1>7, <1>8, <1>9, <1>10 DEF Offers
<1>12. QED
  BY <1>11, WorkerHand DEF Announce, InFlight, client_vars

-------------------------------------------------------------------------------
(* The clients.                                                                *)

LEMMA ConnectHand ==
  ASSUME Inv, NEW c \in Connections, Connect(c)
  PROVE  HandOver'
<1>1. Offers'
  BY SameOffers DEF Connect, parent_vars, worker_vars
<1>2. NotYetHere'
  <2>1. Range(backlog') = Range(backlog) \cup {c}
    BY AppendRange DEF Inv, TypeInv, TypeOK, Connect
  <2>2. Here' = Here \cup {c}
    BY <2>1 DEF Here, InFlight, Connect, parent_vars, worker_vars
  <2>3. \A d \in Connections : peer'[d] = "absent" => d # c /\ peer[d] = "absent"
    BY DEF Inv, TypeInv, TypeOK, Connect
  <2>4. QED
    BY <2>2, <2>3 DEF Inv, HandOver, NotYetHere
<1>3. HandsEmpty'
  BY DEF Inv, HandOver, HandsEmpty, Connect, parent_vars
<1>4. QED
  BY <1>1, <1>2, <1>3 DEF HandOver, Offers

LEMMA AskOrLeaveHand ==
  ASSUME Inv, NEW c \in Connections, Ask(c) \/ Leave(c)
  PROVE  HandOver'
<1>1. Offers'
  BY SameOffers DEF Ask, Leave, parent_vars, worker_vars
<1>2. NotYetHere'
  <2>1. Here' = Here
    BY DEF Here, InFlight, Ask, Leave, parent_vars, worker_vars
  <2>2. \A d \in Connections : peer'[d] = "absent" => peer[d] = "absent"
    BY DEF Inv, TypeInv, TypeOK, Ask, Leave
  <2>3. QED
    BY <2>1, <2>2, NobodyNew
<1>3. HandsEmpty'
  BY DEF Inv, HandOver, HandsEmpty, Ask, Leave, parent_vars
<1>4. QED
  BY <1>1, <1>2, <1>3 DEF HandOver, Offers

LEMMA StutterHand ==
  ASSUME Inv, UNCHANGED vars
  PROVE  HandOver'
<1>1. Offers'
  BY SameOffers DEF vars, parent_vars, worker_vars
<1>2. NotYetHere'
  BY NobodyNew DEF Here, InFlight, vars, parent_vars, worker_vars, client_vars
<1>3. HandsEmpty'
  BY DEF Inv, HandOver, HandsEmpty, vars, parent_vars
<1>4. QED
  BY <1>1, <1>2, <1>3 DEF HandOver, Offers

LEMMA NextHand ==
  ASSUME Inv, [Next]_vars
  PROVE  Inv'
<1>1. TypeInv'
  BY NextType DEF Inv
<1>2. HandOver'
  <2>1. CASE ParentStep
    BY <2>1, ForkHand, AnnounceChildHand, StartedHand, CheckHand, AcceptHand, ReceiveHand,
       SendHand, SendFailsHand, SendToTheDeadHand, NeverAstray, RefuseHand, QuitHand,
       WaitEndsHand
      DEF ParentStep
  <2>2. CASE Sigint
    BY <2>2, SigintHand
  <2>3. ASSUME NEW w \in Workers, WorkerStep(w) PROVE HandOver'
    BY <2>3, InstallHand, SigintWorkerHand, CheckStopHand, RecvFdHand, ReadHand, AnswerHand,
       AbortHand, AnnounceHand
      DEF WorkerStep
  <2>4. ASSUME NEW c \in Connections, Connect(c) \/ Ask(c) \/ Leave(c) PROVE HandOver'
    BY <2>4, ConnectHand, AskOrLeaveHand
  <2>5. CASE UNCHANGED vars
    BY <2>5, StutterHand
  <2>6. QED
    BY <2>1, <2>2, <2>3, <2>4, <2>5 DEF Next
<1>3. QED
  BY <1>1, <1>2 DEF Inv

-------------------------------------------------------------------------------
(* The theorems.                                                               *)

(* The invariant of the hand-over, for any number of workers, connections and  *)
(* signals, whatever fails.                                                    *)
THEOREM HandOverHolds ==
  ASSUME Leftover = 0
  PROVE  Spec => [](TypeInv /\ HandOver)
<1>1. Init => Inv
  BY InitHand
<1>2. Inv /\ [Next]_vars => Inv'
  BY NextHand
<1>3. Inv => TypeInv /\ HandOver
  BY DEF Inv
<1>4. QED
  BY <1>1, <1>2, <1>3, PTL DEF Spec

(* No pid is lost or announced twice: /available and the parent's hands hold   *)
(* each worker that is free exactly once, and no other that lives.             *)
THEOREM AnnouncedExactlyWhenFree ==
  ASSUME Leftover = 0
  PROVE  Spec => []AnnouncedWhenFree
<1>1. TypeInv /\ HandOver => AnnouncedWhenFree
  BY DEF HandOver
<1>2. Spec => [](TypeInv /\ HandOver)
  BY HandOverHolds
<1>3. QED
  BY <1>1, <1>2, PTL

PoolStep == [Pool!Next]_(Pool!pool_vars)

-------------------------------------------------------------------------------
(* HttpServer implements WorkerPool when /available is empty at the start: the *)
(* initial states are WorkerPool's, and every step is a step of it or none.    *)

LEMMA PoolInit ==
  ASSUME Leftover = 0, Init
  PROVE  Pool!Init
<1>1. waiting = <<>> /\ ended = {}
  BY DEF waiting, Init
<1>2. owner = [w \in Workers |-> NoConnection]
  BY DEF owner, Init
<1>3. QED
  BY <1>1, <1>2 DEF Pool!Init

LEMMA Stutters ==
  ASSUME waiting' = waiting, owner' = owner, ended' = ended
  PROVE  PoolStep
BY DEF PoolStep, Pool!pool_vars

LEMMA SameWaiting ==
  ASSUME UNCHANGED <<new_socket, backlog>>
  PROVE  waiting' = waiting
BY DEF waiting

LEMMA SameOwner ==
  ASSUME UNCHANGED <<channel, serving>>
  PROVE  owner' = owner
BY DEF owner

(* A worker owns the connection on its way to it or the one it serves.         *)
LEMMA OwnerOf ==
  ASSUME Inv, NEW w \in Workers
  PROVE  /\ channel[w] = <<>> => owner[w] = serving[w] /\ InFlight(w) = {}
         /\ channel[w] # <<>> => /\ serving[w] = NoConnection
                                /\ owner[w] \in Connections
                                /\ InFlight(w) = {owner[w]}
                                /\ owner[w] = Head(channel[w])
                                /\ Tail(channel[w]) = <<>>
<1>1. channel[w] \in Seq(Connections) /\ Len(channel[w]) <= 1
  BY DEF Inv, TypeInv, TypeOK, HandOver, OneAtATime
<1>2. CASE channel[w] = <<>>
  BY <1>2 DEF owner, InFlight, Range
<1>3. CASE channel[w] # <<>>
  <2>1. serving[w] = NoConnection
    BY <1>3 DEF Inv, HandOver, OneAtATime, Busy
  <2>2. owner[w] = Head(channel[w])
    BY <1>3 DEF owner
  <2>3. Head(channel[w]) \in Connections /\ Tail(channel[w]) = <<>>
    BY <1>1, <1>3
  <2>4. InFlight(w) = {Head(channel[w])}
    <3>1. Range(<<>>) = {}
      BY DEF Range
    <3>2. QED
      BY <1>1, <1>3, <2>3, <3>1, HeadAndTail DEF InFlight
  <2>5. QED
    BY <1>3, <2>1, <2>2, <2>3, <2>4
<1>4. QED
  BY <1>2, <1>3

(* A worker loses the connection it owns.                                      *)
LEMMA ReleasesOne ==
  ASSUME Inv, NEW w \in Workers, owner[w] # NoConnection,
         owner' = [owner EXCEPT ![w] = NoConnection],
         ended' = ended \cup {owner[w]},
         waiting' = waiting
  PROVE  PoolStep
<1>1. Pool!Release({w})
  BY DEF Pool!Release, owner
<1>2. QED
  BY <1>1 DEF PoolStep, Pool!Next

(* What the parent has in its hands is the first that waits.                   *)
LEMMA InHand ==
  ASSUME Inv, parent \in Handing
  PROVE  /\ new_socket \in Connections
         /\ new_socket # NoConnection
         /\ waiting # <<>>
         /\ Head(waiting) = new_socket
         /\ Tail(waiting) = backlog
<1>1. new_socket \in Connections /\ backlog \in Seq(Connections)
  BY DEF Inv, TypeInv, TypeOK, HandsFull
<1>2. new_socket # NoConnection
  BY <1>1, ServerAssumption
<1>3. QED
  BY <1>1, <1>2, HeadApart DEF waiting

(* The parent closes it.                                                       *)
LEMMA TurnsAway ==
  ASSUME Inv, parent \in Handing, CloseNew, UNCHANGED <<backlog, channel, serving>>
  PROVE  PoolStep
<1>1. waiting' = backlog
  BY DEF CloseNew, waiting
<1>2. Pool!TurnAway
  BY <1>1, InHand, SameOwner DEF Pool!TurnAway, CloseNew
<1>3. QED
  BY <1>2 DEF PoolStep, Pool!Next

-------------------------------------------------------------------------------
(* The parent.                                                                 *)

LEMMA AcceptPool ==
  ASSUME Inv, Accept
  PROVE  PoolStep
<1>1. owner' = owner /\ ended' = ended
  BY SameOwner DEF Accept, worker_vars
<1>2. waiting' = waiting
  <2>1. CASE backlog = <<>>
    BY <2>1, SameWaiting DEF Accept
  <2>2. CASE backlog # <<>>
    <3>1. new_socket = NoConnection /\ backlog \in Seq(Connections)
      BY DEF Inv, TypeInv, TypeOK, HandOver, HandsEmpty, Handing, Accept
    <3>2. Head(backlog) \in Connections /\ backlog = <<Head(backlog)>> \o Tail(backlog)
      BY <2>2, <3>1
    <3>3. Head(backlog) # NoConnection
      BY <3>2, ServerAssumption
    <3>4. QED
      BY <2>2, <3>1, <3>2, <3>3 DEF waiting, Accept
  <2>3. QED
    BY <2>1, <2>2
<1>3. QED
  BY <1>1, <1>2, Stutters

LEMMA SendPool ==
  ASSUME Inv, Send
  PROVE  PoolStep
<1>1. pid \in Workers /\ Free(pid)
  BY SendChannel
<1>2. waiting # <<>> /\ Head(waiting) = new_socket /\ waiting' = Tail(waiting)
  BY InHand DEF Send, Handing, waiting, client_vars
<1>3. owner[pid] = NoConnection
  BY <1>1 DEF owner, Free
<1>4. channel'[pid] = <<new_socket>> /\ \A w \in Workers \ {pid} : channel'[w] = channel[w]
  BY <1>1 DEF Send, Free, Inv, TypeInv, TypeOK
<1>5. owner' = [owner EXCEPT ![pid] = new_socket]
  <2>1. owner'[pid] = new_socket
    <3>1. <<new_socket>> # <<>> /\ Head(<<new_socket>>) = new_socket
      OBVIOUS
    <3>2. QED
      BY <1>1, <1>4, <3>1 DEF owner
  <2>2. \A w \in Workers \ {pid} : owner'[w] = owner[w]
    BY <1>4 DEF owner, Send
  <2>3. QED
    BY <1>1, <2>1, <2>2 DEF owner
<1>6. Pool!Assign(pid)
  BY <1>2, <1>3, <1>5 DEF Pool!Assign, Send
<1>7. QED
  BY <1>1, <1>6 DEF PoolStep, Pool!Next

LEMMA SigintPool ==
  ASSUME Inv, Sigint
  PROVE  PoolStep
<1>1. CASE new_socket' = new_socket
  BY <1>1, SameWaiting, SameOwner, Stutters DEF Sigint, worker_vars, client_vars
<1>2. CASE new_socket' # new_socket
  <2>1. parent = "refusing" /\ new_socket' = NoConnection
    BY <1>2 DEF Sigint, SigintParent
  <2>2. QED
    BY <1>2, <2>1, TurnsAway DEF Sigint, CloseNew, Handing, worker_vars, client_vars
<1>3. QED
  BY <1>1, <1>2

(* A signal to several workers: some lose the connection they own.             *)
LEMMA SigquitPool ==
  ASSUME Inv, NEW S \in SUBSET Workers, Sigquit(S), waiting' = waiting
  PROVE  PoolStep
<1> DEFINE Losers == {w \in S : owner[w] # NoConnection /\ (Dies(w) \/ HangsUp(w))}
<1>1. \A w \in S : Dies(w) => ~HangsUp(w) /\ serving[w] = NoConnection
  BY DEF Dies, HangsUp, Inv, HandOver, OneAtATime, Busy
<1>2. \A w \in S : HangsUp(w) => channel[w] = <<>> /\ serving[w] # NoConnection
  BY DEF HangsUp, Inv, HandOver, OneAtATime, Busy
<1>3. ended' = ended \cup {owner[w] : w \in Losers}
  <2>1. {serving[w] : w \in {v \in S : HangsUp(v)}}
          = {owner[w] : w \in {v \in Losers : HangsUp(v)}}
    BY <1>2, OwnerOf
  <2>2. UNION {InFlight(w) : w \in {v \in S : Dies(v)}}
          = {owner[w] : w \in {v \in Losers : Dies(v)}}
    <3>1. \A w \in S : Dies(w) =>
            InFlight(w) = IF owner[w] = NoConnection THEN {} ELSE {owner[w]}
      BY <1>1, OwnerOf, ServerAssumption
    <3>2. QED
      BY <3>1
  <2>3. QED
    BY <2>1, <2>2 DEF Sigquit
<1>4. owner' = [w \in Workers |-> IF w \in Losers THEN NoConnection ELSE owner[w]]
  <2>1. ASSUME NEW w \in Workers
        PROVE  owner'[w] = IF w \in Losers THEN NoConnection ELSE owner[w]
    <3>1. /\ channel'[w] = IF w \in S /\ Dies(w) THEN <<>> ELSE channel[w]
          /\ serving'[w] = IF w \in S /\ HangsUp(w) THEN NoConnection ELSE serving[w]
      BY DEF Sigquit
    <3>2. owner'[w] = IF channel'[w] = <<>> THEN serving'[w] ELSE Head(channel'[w])
      BY DEF owner
    <3>3. CASE w \in S /\ Dies(w)
      BY <1>1, <3>1, <3>2, <3>3, OwnerOf
    <3>4. CASE w \in S /\ HangsUp(w)
      BY <1>1, <1>2, <3>1, <3>2, <3>4, OwnerOf
    <3>5. CASE w \notin S \/ (~Dies(w) /\ ~HangsUp(w))
      BY <3>1, <3>2, <3>5, OwnerOf
    <3>6. QED
      BY <3>3, <3>4, <3>5
  <2>2. QED
    BY <2>1 DEF owner
<1>5. Pool!Release(Losers)
  BY <1>3, <1>4 DEF Pool!Release
<1>6. QED
  <2>1. Losers \in SUBSET Workers
    OBVIOUS
  <2>2. QED
    BY <1>5, <2>1 DEF PoolStep, Pool!Next

LEMMA QuitPool ==
  ASSUME Inv, Quit
  PROVE  PoolStep
<1>1. waiting' = waiting
  BY SameWaiting DEF Quit, client_vars
<1>2. index \in Workers
  BY ServerAssumption DEF Inv, TypeInv, TypeOK, IndexInRange, Quit, Workers
<1>3. \E S \in SUBSET Workers : Sigquit(S)
  BY <1>2 DEF Quit
<1>4. QED
  BY <1>1, <1>3, SigquitPool

-------------------------------------------------------------------------------
(* The workers.                                                                *)

LEMMA VanishesPool ==
  ASSUME Inv, NEW w \in Workers, Vanishes(w), UNCHANGED <<new_socket, backlog>>
  PROVE  PoolStep
<1>1. waiting' = waiting
  BY SameWaiting
<1>2. owner' = [owner EXCEPT ![w] = NoConnection]
  BY DEF owner, Vanishes, Inv, TypeInv, TypeOK
<1>3. CASE owner[w] = NoConnection
  <2>1. ended' = ended
    BY <1>3, OwnerOf, ServerAssumption DEF Vanishes
  <2>2. owner' = owner
    BY <1>2, <1>3 DEF owner
  <2>3. QED
    BY <1>1, <2>1, <2>2, Stutters
<1>4. CASE owner[w] # NoConnection
  <2>1. ended' = ended \cup {owner[w]}
    BY <1>4, OwnerOf DEF Vanishes
  <2>2. QED
    BY <1>1, <1>2, <1>4, <2>1, ReleasesOne
<1>5. QED
  BY <1>3, <1>4

LEMMA ClosePool ==
  ASSUME Inv, NEW w \in Workers, Busy(w), Close(w), UNCHANGED <<new_socket, backlog, channel>>
  PROVE  PoolStep
<1>1. channel[w] = <<>> /\ serving[w] # NoConnection
  BY DEF Inv, HandOver, OneAtATime, Busy
<1>2. owner[w] = serving[w]
  BY <1>1, OwnerOf
<1>3. owner' = [owner EXCEPT ![w] = NoConnection]
  BY <1>1 DEF owner, Close, Inv, TypeInv, TypeOK
<1>4. QED
  BY <1>1, <1>2, <1>3, SameWaiting, ReleasesOne DEF Close

LEMMA RecvFdPool ==
  ASSUME Inv, NEW w \in Workers, RecvFd(w)
  PROVE  PoolStep
<1>1. waiting' = waiting /\ ended' = ended
  BY SameWaiting DEF RecvFd, parent_vars, client_vars
<1>2. owner' = owner
  <2>1. CASE channel[w] = <<>>
    BY <2>1, SameOwner DEF RecvFd
  <2>2. CASE channel[w] # <<>>
    <3>1. channel'[w] = <<>> /\ serving'[w] = Head(channel[w])
      BY <2>2, OwnerOf DEF RecvFd, Inv, TypeInv, TypeOK
    <3>2. \A v \in Workers \ {w} : channel'[v] = channel[v] /\ serving'[v] = serving[v]
      BY <2>2 DEF RecvFd, Inv, TypeInv, TypeOK
    <3>3. QED
      BY <2>2, <3>1, <3>2 DEF owner
  <2>3. QED
    BY <2>1, <2>2
<1>3. QED
  BY <1>1, <1>2, Stutters

LEMMA WorkerPoolStep ==
  ASSUME Inv, NEW w \in Workers, WorkerStep(w)
  PROVE  PoolStep
<1>1. CASE Install(w) \/ Announce(w)
  BY <1>1, SameWaiting, SameOwner, Stutters DEF Install, Announce, parent_vars, client_vars
<1>2. CASE SigintWorker(w) \/ Abort(w)
  BY <1>2, VanishesPool DEF SigintWorker, Abort, parent_vars, client_vars
<1>3. CASE CheckStop(w)
  <2>1. CASE stop[w]
    BY <1>3, <2>1, VanishesPool DEF CheckStop, parent_vars, client_vars
  <2>2. CASE ~stop[w]
    BY <1>3, <2>2, SameWaiting, SameOwner, Stutters DEF CheckStop, parent_vars, client_vars
  <2>3. QED
    BY <2>1, <2>2
<1>4. CASE RecvFd(w)
  BY <1>4, RecvFdPool
<1>5. CASE Read(w) \/ Answer(w)
  <2>1. CASE Close(w)
    BY <1>5, <2>1, ClosePool DEF Read, Answer, Busy, parent_vars, client_vars
  <2>2. CASE ~Close(w)
    BY <1>5, <2>2, SameWaiting, SameOwner, Stutters DEF Read, Answer, parent_vars, client_vars
  <2>3. QED
    BY <2>1, <2>2
<1>6. QED
  BY <1>1, <1>2, <1>3, <1>4, <1>5 DEF WorkerStep

-------------------------------------------------------------------------------
(* The clients.                                                                *)

LEMMA ConnectPool ==
  ASSUME Inv, NEW c \in Connections, Connect(c)
  PROVE  PoolStep
<1>1. c \notin Here /\ backlog \in Seq(Connections)
  BY DEF Inv, TypeInv, TypeOK, HandOver, NotYetHere, Connect
<1>2. c \notin ended
  BY <1>1 DEF Here
<1>3. \A w \in Workers : owner[w] # c
  <2>1. SUFFICES ASSUME NEW w \in Workers PROVE owner[w] # c
    OBVIOUS
  <2>2. c # serving[w] /\ c \notin InFlight(w)
    BY <1>1 DEF Here
  <2>3. QED
    BY <2>2, OwnerOf
<1>4. (\A i \in DOMAIN waiting : waiting[i] # c) /\ waiting' = Append(waiting, c)
  <2>1. c \notin Range(backlog) /\ c # new_socket
    BY <1>1 DEF Here
  <2>2. CASE new_socket = NoConnection
    BY <2>1, <2>2 DEF waiting, Connect, parent_vars, Range
  <2>3. CASE new_socket # NoConnection
    <3>1. new_socket \in Connections
      BY <2>3 DEF Inv, TypeInv, TypeOK
    <3>2. waiting = <<new_socket>> \o backlog
      BY <2>3 DEF waiting
    <3>3. waiting' = <<new_socket>> \o Append(backlog, c)
      BY <2>3 DEF waiting, Connect, parent_vars
    <3>4. waiting' = Append(waiting, c)
      BY <1>1, <3>1, <3>2, <3>3, HeadApart
    <3>5. \A i \in DOMAIN waiting : waiting[i] \in {new_socket} \cup Range(backlog)
      BY <1>1, <3>1, <3>2, HeadApart
    <3>6. QED
      BY <2>1, <3>4, <3>5
  <2>4. QED
    BY <2>2, <2>3
<1>5. owner' = owner /\ ended' = ended
  BY SameOwner DEF Connect, worker_vars
<1>6. Pool!Arrive(c)
  BY <1>2, <1>3, <1>4, <1>5 DEF Pool!Arrive
<1>7. QED
  BY <1>6 DEF PoolStep, Pool!Next

-------------------------------------------------------------------------------
LEMMA NextPool ==
  ASSUME Inv, [Next]_vars
  PROVE  PoolStep
<1>1. CASE Fork \/ AnnounceChild \/ Started \/ Check \/ Receive \/ SendToTheDead \/ WaitEnds
  BY <1>1, SameWaiting, SameOwner, Stutters
    DEF Fork, AnnounceChild, Started, Check, Receive, SendToTheDead, WaitEnds, worker_vars,
        client_vars
<1>2. CASE SendFails
  BY <1>2, TurnsAway DEF SendFails, Handing, worker_vars, client_vars
<1>3. CASE Refuse
  <2>1. CASE peer[new_socket] = "idle"
    BY <1>3, <2>1, SameWaiting, SameOwner, Stutters DEF Refuse, worker_vars, client_vars
  <2>2. CASE peer[new_socket] # "idle"
    BY <1>3, <2>2, TurnsAway DEF Refuse, Handing, worker_vars, client_vars
  <2>3. QED
    BY <2>1, <2>2
<1>4. CASE ParentStep
  BY <1>1, <1>2, <1>3, <1>4, AcceptPool, SendPool, NeverAstray, QuitPool DEF ParentStep
<1>5. CASE Sigint
  BY <1>5, SigintPool
<1>6. ASSUME NEW w \in Workers, WorkerStep(w) PROVE PoolStep
  BY <1>6, WorkerPoolStep
<1>7. ASSUME NEW c \in Connections, Connect(c) \/ Ask(c) \/ Leave(c) PROVE PoolStep
  <2>1. CASE Connect(c)
    BY <2>1, ConnectPool
  <2>2. CASE Ask(c) \/ Leave(c)
    BY <2>2, SameWaiting, SameOwner, Stutters DEF Ask, Leave, parent_vars, worker_vars
  <2>3. QED
    BY <1>7, <2>1, <2>2
<1>8. CASE UNCHANGED vars
  BY <1>8, SameWaiting, SameOwner, Stutters DEF vars, parent_vars, worker_vars, client_vars
<1>9. QED
  BY <1>4, <1>5, <1>6, <1>7, <1>8 DEF Next

(* Connections are handed over in the order of their arrival, each to one      *)
(* worker that serves nobody else, or turned away, for any number of workers,  *)
(* connections and signals, whatever fails.                                    *)
THEOREM ImplementsWorkerPool ==
  ASSUME Leftover = 0
  PROVE  Spec => HandsOverInOrder
<1>1. Init => Pool!Init
  BY PoolInit
<1>2. Inv /\ [Next]_vars => [Pool!Next]_(Pool!pool_vars)
  BY NextPool DEF PoolStep
<1>3. Spec => []Inv
  BY HandOverHolds, PTL DEF Inv
<1>4. QED
  BY <1>1, <1>2, <1>3, PTL DEF Spec, HandsOverInOrder, Pool!Spec

-------------------------------------------------------------------------------
(* OnePlace, from what a step of WorkerPool does to the connections.           *)

(* No connection is twice among those that wait, those that are owned and      *)
(* those that have ended, and all that have arrived are there.                 *)
NoneTwice ==
  /\ IsInjective(waiting)
  /\ Range(waiting) \cap ended = {}
  /\ \A w \in Workers : owner[w] # NoConnection => owner[w] \notin Range(waiting) \cup ended
  /\ \A v, w \in Workers : owner[v] # NoConnection /\ owner[v] = owner[w] => v = w

NoneLost ==
  \A c \in Connections :
    peer[c] # "absent" => c \in Range(waiting) \cup ended \cup Range(owner)

(* What WorkerPool's queue and workers hold are connections.                   *)
LEMMA PoolTypes ==
  ASSUME Inv
  PROVE  /\ waiting \in Seq(Connections)
         /\ owner \in [Workers -> Connections \cup {NoConnection}]
         /\ NoConnection \notin ended \cup Range(waiting)
<1>1. new_socket \in Connections \cup {NoConnection} /\ backlog \in Seq(Connections)
  BY DEF Inv, TypeInv, TypeOK
<1>2. waiting \in Seq(Connections)
  BY <1>1, HeadApart DEF waiting
<1>3. \A w \in Workers : owner[w] \in Connections \cup {NoConnection}
  BY OwnerOf DEF Inv, TypeInv, TypeOK
<1>4. owner \in [Workers -> Connections \cup {NoConnection}]
  BY <1>3 DEF owner
<1>5. \A i \in DOMAIN waiting : waiting[i] \in Connections
  BY <1>2, QueueTypes
<1>6. NoConnection \notin Range(waiting)
  BY <1>5, ServerAssumption DEF Range
<1>7. NoConnection \notin ended
  BY ServerAssumption DEF Inv, TypeInv, TypeOK
<1>8. QED
  BY <1>2, <1>4, <1>6, <1>7

LEMMA InitNoneTwice ==
  ASSUME Init
  PROVE  NoneTwice /\ NoneLost
<1>1. waiting = <<>> /\ Range(waiting) = {} /\ ended = {}
  BY DEF waiting, Init, Range
<1>2. \A w \in Workers : owner[w] = NoConnection
  BY DEF owner, Init
<1>3. \A c \in Connections : peer[c] = "absent"
  BY DEF Init
<1>4. QED
  BY <1>1, <1>2, <1>3 DEF NoneTwice, NoneLost, IsInjective

(* A step of WorkerPool moves a connection from one place to another.          *)
LEMMA PoolMoves ==
  ASSUME Inv, Inv', NoneTwice, PoolStep
  PROVE  /\ NoneTwice'
         /\ Range(waiting) \cup ended \cup (Range(owner) \ {NoConnection})
              \subseteq Range(waiting') \cup ended' \cup Range(owner')
<1> DEFINE Held == Range(waiting) \cup ended \cup (Range(owner) \ {NoConnection})
<1>1. /\ waiting \in Seq(Connections) /\ owner \in [Workers -> Connections \cup {NoConnection}]
      /\ NoConnection \notin ended \cup Range(waiting)
  BY PoolTypes
<1>2. Range(owner) = {owner[w] : w \in Workers} /\ Range(owner') = {owner'[w] : w \in Workers}
  BY DEF owner, Range
<1>3. CASE UNCHANGED <<waiting, owner, ended>>
  BY <1>3 DEF NoneTwice
<1>4. ASSUME NEW c \in Connections, Pool!Arrive(c)
      PROVE  NoneTwice' /\ Held \subseteq Range(waiting') \cup ended' \cup Range(owner')
  <2>1. c \notin Range(waiting)
    BY <1>4 DEF Pool!Arrive, Range
  <2>2. Range(waiting') = Range(waiting) \cup {c} /\ IsInjective(waiting')
    BY <1>1, <1>4, <2>1, AppendRange DEF Pool!Arrive, NoneTwice
  <2>3. c \notin ended /\ owner' = owner /\ ended' = ended /\ \A w \in Workers : owner[w] # c
    BY <1>4 DEF Pool!Arrive
  <2>4. QED
    BY <2>2, <2>3 DEF NoneTwice
<1>5. ASSUME NEW w \in Workers, Pool!Assign(w)
      PROVE  NoneTwice' /\ Held \subseteq Range(waiting') \cup ended' \cup Range(owner')
  <2>1. /\ Head(waiting) \in Range(waiting)
        /\ Range(waiting') = Range(waiting) \ {Head(waiting)}
        /\ IsInjective(waiting')
    BY <1>1, <1>5, TailDropsHead DEF Pool!Assign, NoneTwice
  <2>2. /\ owner'[w] = Head(waiting) /\ ended' = ended
        /\ \A v \in Workers \ {w} : owner'[v] = owner[v]
    BY <1>1, <1>5 DEF Pool!Assign
  <2>3. owner[w] = NoConnection
    BY <1>5 DEF Pool!Assign
  <2>4. NoneTwice'
    BY <1>1, <2>1, <2>2 DEF NoneTwice
  <2>5. QED
    BY <1>2, <2>1, <2>2, <2>3, <2>4
<1>6. ASSUME NEW S \in SUBSET Workers, Pool!Release(S)
      PROVE  NoneTwice' /\ Held \subseteq Range(waiting') \cup ended' \cup Range(owner')
  <2>1. /\ ended' = ended \cup {owner[w] : w \in S} /\ waiting' = waiting
        /\ \A w \in S : owner[w] # NoConnection /\ owner'[w] = NoConnection
        /\ \A w \in Workers \ S : owner'[w] = owner[w]
    BY <1>6 DEF Pool!Release
  <2>2. NoneTwice'
    BY <2>1 DEF NoneTwice
  <2>3. QED
    BY <1>2, <2>1, <2>2
<1>7. CASE Pool!TurnAway
  <2>1. /\ Head(waiting) \in Range(waiting)
        /\ Range(waiting') = Range(waiting) \ {Head(waiting)}
        /\ IsInjective(waiting')
    BY <1>1, <1>7, TailDropsHead DEF Pool!TurnAway, NoneTwice
  <2>2. ended' = ended \cup {Head(waiting)} /\ owner' = owner
    BY <1>7 DEF Pool!TurnAway
  <2>3. NoneTwice'
    BY <2>1, <2>2 DEF NoneTwice
  <2>4. QED
    BY <2>1, <2>2, <2>3
<1>8. QED
  BY <1>3, <1>4, <1>5, <1>6, <1>7 DEF PoolStep, Pool!Next, Pool!pool_vars

(* The elements of two sequences joined.                                       *)
LEMMA RangeJoined ==
  ASSUME NEW q \in Seq(Connections), NEW x \in Connections
  PROVE  /\ Range(<<x>> \o q) = {x} \cup Range(q)
         /\ IsInjective(<<x>> \o q) => x \notin Range(q) /\ IsInjective(q)
<1> DEFINE s == <<x>> \o q
<1>1. s \in Seq(Connections) /\ s # <<>> /\ Head(s) = x /\ Tail(s) = q
  BY HeadApart
<1> HIDE DEF s
<1>2. Range(s) = {x} \cup Range(q)
  BY <1>1, HeadAndTail
<1>3. ASSUME IsInjective(s)
      PROVE  x \notin Range(q) /\ IsInjective(q)
  <2>1. Range(Tail(s)) = Range(s) \ {Head(s)} /\ IsInjective(Tail(s))
    BY <1>1, <1>3, TailDropsHead
  <2>2. QED
    BY <1>1, <2>1
<1>4. QED
  BY <1>2, <1>3 DEF s

(* Only Connect makes a connection arrive, at the end of the backlog.          *)
LEMMA ArrivedAreHeld ==
  ASSUME Inv, Inv', [Next]_vars, NEW c \in Connections, peer[c] = "absent", peer'[c] # "absent"
  PROVE  c \in Range(waiting')
<1>1. PICK d \in Connections : Connect(d) \/ Ask(d) \/ Leave(d) \/ \E w \in Workers : Answer(w)
  BY DEF Next, vars, client_vars, ParentStep, WorkerStep, Fork, AnnounceChild, Started, Check,
     Accept, Receive, Send, SendFails, SendToTheDead, SendAstray, Refuse, Quit, WaitEnds, Sigint,
     Install, SigintWorker, CheckStop, RecvFd, Read, Abort, Announce
<1>2. Connect(c)
  BY <1>1 DEF Inv, TypeInv, TypeOK, Connect, Ask, Leave, Answer
<1>3. c \in Range(backlog')
  BY <1>2, AppendRange DEF Inv, TypeInv, TypeOK, Connect
<1>4. CASE new_socket' = NoConnection
  BY <1>3, <1>4 DEF waiting
<1>5. CASE new_socket' # NoConnection
  <2>1. new_socket' \in Connections /\ backlog' \in Seq(Connections)
    BY <1>5 DEF Inv, TypeInv, TypeOK
  <2>2. waiting' = <<new_socket'>> \o backlog'
    BY <1>5 DEF waiting
  <2>3. QED
    BY <1>3, <2>1, <2>2, RangeJoined
<1>6. QED
  BY <1>4, <1>5

(* Where WorkerPool's state has a connection is where HttpServer's has it.     *)
LEMMA PlacesOfHeld ==
  ASSUME Inv, NoneTwice, NEW c \in Connections
  PROVE  /\ c \in Range(waiting) => new_socket = c \/ c \in Range(backlog)
         /\ new_socket = c => c \in Range(waiting) /\ c \notin Range(backlog)
         /\ c \in Range(backlog) => c \in Range(waiting)
         /\ IsInjective(backlog)
         /\ \A w \in Workers : /\ c \in InFlight(w) <=> owner[w] = c /\ channel[w] # <<>>
                               /\ serving[w] = c <=> owner[w] = c /\ channel[w] = <<>>
<1>1. c # NoConnection /\ backlog \in Seq(Connections)
  BY ServerAssumption DEF Inv, TypeInv, TypeOK
<1>2. \A w \in Workers : /\ c \in InFlight(w) <=> owner[w] = c /\ channel[w] # <<>>
                         /\ serving[w] = c <=> owner[w] = c /\ channel[w] = <<>>
  BY <1>1, OwnerOf
<1>3. CASE new_socket = NoConnection
  <2>1. waiting = backlog
    BY <1>3 DEF waiting
  <2>2. QED
    BY <1>1, <1>2, <1>3, <2>1 DEF NoneTwice
<1>4. CASE new_socket # NoConnection
  <2>1. waiting = <<new_socket>> \o backlog /\ new_socket \in Connections
    BY <1>4 DEF waiting, Inv, TypeInv, TypeOK
  <2>2. Range(waiting) = {new_socket} \cup Range(backlog)
    BY <1>1, <2>1, RangeJoined
  <2>3. new_socket \notin Range(backlog) /\ IsInjective(backlog)
    BY <1>1, <2>1, RangeJoined DEF NoneTwice
  <2>4. QED
    BY <1>2, <2>2, <2>3
<1>5. QED
  BY <1>3, <1>4

LEMMA EachInOnePlace ==
  ASSUME Inv, NoneTwice, NoneLost
  PROVE  OnePlace
<1>1. SUFFICES ASSUME NEW c \in Connections
               PROVE  Cardinality(Places(c)) = Truth(peer[c] # "absent")
  BY DEF OnePlace
<1> DEFINE queued  == {<<"backlog", i>> : i \in {j \in DOMAIN backlog : backlog[j] = c}}
           inHand  == {<<"new_socket", 0>> : p \in {new_socket} \cap {c}}
           sent    == {<<"channel", w>> : w \in {v \in Workers : c \in InFlight(v)}}
           served  == {<<"serving", w>> : w \in {v \in Workers : serving[v] = c}}
           through == {<<"ended", 0>> : p \in ended \cap {c}}
<1>2. Places(c) = queued \cup inHand \cup sent \cup served \cup through
  BY DEF Places
<1>3. /\ c \notin Range(backlog) => queued = {}
      /\ new_socket # c => inHand = {}
      /\ (\A w \in Workers : c \notin InFlight(w)) => sent = {}
      /\ (\A w \in Workers : serving[w] # c) => served = {}
      /\ c \notin ended => through = {}
  BY DEF Range
<1>4. c # NoConnection
  BY ServerAssumption
<1> HIDE DEF queued, inHand, sent, served, through
<1>5. CASE peer[c] = "absent"
  <2>1. c \notin Here
    BY <1>5 DEF Inv, HandOver, NotYetHere
  <2>2. Places(c) = {}
    BY <1>2, <1>3, <2>1 DEF Here
  <2>3. QED
    BY <1>5, <2>2, FS_EmptySet DEF Truth
<1>6. CASE peer[c] # "absent"
  <2>1. SUFFICES \E p : Places(c) = {p}
    BY <1>6, FS_Singleton DEF Truth
  <2>2. c \in Range(waiting) \cup ended \cup Range(owner)
    BY <1>6 DEF NoneLost
  <2>3. CASE c \in Range(waiting)
    <3>1. c \notin ended /\ \A w \in Workers : owner[w] # c
      BY <1>4, <2>3 DEF NoneTwice
    <3>2. sent = {} /\ served = {} /\ through = {}
      BY <1>3, <3>1, PlacesOfHeld
    <3>3. CASE new_socket = c
      <4>1. queued = {} /\ inHand = {<<"new_socket", 0>>}
        BY <1>3, <3>3, PlacesOfHeld DEF inHand
      <4>2. QED
        BY <1>2, <3>2, <4>1
    <3>4. CASE new_socket # c
      <4>1. c \in Range(backlog) /\ IsInjective(backlog) /\ inHand = {}
        BY <1>3, <2>3, <3>4, PlacesOfHeld
      <4>2. PICK i \in DOMAIN backlog : backlog[i] = c
        BY <4>1 DEF Range
      <4>3. {j \in DOMAIN backlog : backlog[j] = c} = {i}
        BY <4>1, <4>2 DEF IsInjective
      <4>4. queued = {<<"backlog", i>>}
        BY <4>3 DEF queued
      <4>5. QED
        BY <1>2, <3>2, <4>1, <4>4
    <3>5. QED
      BY <3>3, <3>4
  <2>4. CASE c \in ended
    <3>1. c \notin Range(waiting) /\ \A w \in Workers : owner[w] # c
      BY <1>4, <2>4 DEF NoneTwice
    <3>2. queued = {} /\ inHand = {} /\ sent = {} /\ served = {}
      BY <1>3, <3>1, PlacesOfHeld
    <3>3. through = {<<"ended", 0>>}
      BY <2>4 DEF through
    <3>4. QED
      BY <1>2, <3>2, <3>3
  <2>5. CASE c \in Range(owner)
    <3>1. PICK w \in Workers : owner[w] = c
      BY <2>5 DEF owner, Range
    <3>2. c \notin Range(waiting) \cup ended /\ \A v \in Workers : owner[v] = c => v = w
      BY <1>4, <3>1 DEF NoneTwice
    <3>3. queued = {} /\ inHand = {} /\ through = {}
      BY <1>3, <3>2, PlacesOfHeld
    <3>4. CASE channel[w] # <<>>
      <4>1. {v \in Workers : c \in InFlight(v)} = {w} /\ \A v \in Workers : serving[v] # c
        BY <3>1, <3>2, <3>4, PlacesOfHeld
      <4>2. sent = {<<"channel", w>>} /\ served = {}
        BY <1>3, <4>1 DEF sent
      <4>3. QED
        BY <1>2, <3>3, <4>2
    <3>5. CASE channel[w] = <<>>
      <4>1. {v \in Workers : serving[v] = c} = {w} /\ \A v \in Workers : c \notin InFlight(v)
        BY <3>1, <3>2, <3>5, PlacesOfHeld
      <4>2. served = {<<"serving", w>>} /\ sent = {}
        BY <1>3, <4>1 DEF served
      <4>3. QED
        BY <1>2, <3>3, <4>2
    <3>6. QED
      BY <3>4, <3>5
  <2>6. QED
    BY <2>2, <2>3, <2>4, <2>5
<1>7. QED
  BY <1>5, <1>6

LEMMA NextNoneTwice ==
  ASSUME Inv, Inv', NoneTwice, NoneLost, [Next]_vars
  PROVE  NoneTwice' /\ NoneLost'
<1>1. /\ NoneTwice'
      /\ Range(waiting) \cup ended \cup (Range(owner) \ {NoConnection})
           \subseteq Range(waiting') \cup ended' \cup Range(owner')
  BY NextPool, PoolMoves
<1>2. ASSUME NEW c \in Connections, peer'[c] # "absent"
      PROVE  c \in Range(waiting') \cup ended' \cup Range(owner')
  <2>1. CASE peer[c] = "absent"
    BY <1>2, <2>1, ArrivedAreHeld
  <2>2. CASE peer[c] # "absent"
    <3>1. c \in Range(waiting) \cup ended \cup Range(owner) /\ c # NoConnection
      BY <2>2, ServerAssumption DEF NoneLost
    <3>2. QED
      BY <1>1, <3>1
  <2>3. QED
    BY <2>1, <2>2
<1>3. NoneLost'
  BY <1>2 DEF NoneLost
<1>4. QED
  BY <1>1, <1>3

(* A connection is neither lost on its way from the backlog over the parent's  *)
(* hands and a socket pair to a worker, nor ever with two of them: each that   *)
(* has arrived is in exactly one place, for any number of workers, connections *)
(* and signals, whatever fails.                                                *)
THEOREM ConnectionsAreInOnePlace ==
  ASSUME Leftover = 0
  PROVE  Spec => []OnePlace
<1>1. Spec => []Inv
  BY HandOverHolds, PTL DEF Inv
<1>2. Init => NoneTwice /\ NoneLost
  BY InitNoneTwice
<1>3. Inv /\ Inv' /\ (NoneTwice /\ NoneLost) /\ [Next]_vars => (NoneTwice /\ NoneLost)'
  BY NextNoneTwice
<1>4. Inv /\ (NoneTwice /\ NoneLost) => OnePlace
  BY EachInOnePlace
<1>5. QED
  BY <1>1, <1>2, <1>3, <1>4, PTL DEF Spec
===============================================================================
