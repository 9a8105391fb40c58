------------------------------- MODULE WorkerPool -------------------------------
(*******************************************************************************)
(* What http_server/core/Server.cpp promises of its workers: connections are   *)
(* handed over in the order of their arrival, each to one worker that serves   *)
(* nobody else, or they are turned away; what has ended stays so.              *)
(*******************************************************************************)
EXTENDS Sequences

CONSTANTS Connections, Workers, NoConnection

VARIABLES
  waiting,   \* connections not yet handed over, in the order of their arrival
  owner,     \* [Workers -> Connections \cup {NoConnection}]
  ended      \* connections the server has closed

pool_vars == <<waiting, owner, ended>>

Init ==
  /\ waiting = <<>>
  /\ owner = [w \in Workers |-> NoConnection]
  /\ ended = {}

Arrive(c) ==
  /\ c \notin ended
  /\ \A i \in DOMAIN waiting : waiting[i] # c
  /\ \A w \in Workers : owner[w] # c
  /\ waiting' = Append(waiting, c)
  /\ UNCHANGED <<owner, ended>>

Assign(w) ==
  /\ waiting # <<>>
  /\ owner[w] = NoConnection
  /\ owner' = [owner EXCEPT ![w] = Head(waiting)]
  /\ waiting' = Tail(waiting)
  /\ UNCHANGED ended

TurnAway ==
  /\ waiting # <<>>
  /\ ended' = ended \cup {Head(waiting)}
  /\ waiting' = Tail(waiting)
  /\ UNCHANGED owner

(* Several workers at once lose their connections when a signal reaches all.   *)
Release(S) ==
  /\ \A w \in S : owner[w] # NoConnection
  /\ ended' = ended \cup {owner[w] : w \in S}
  /\ owner' = [w \in Workers |-> IF w \in S THEN NoConnection ELSE owner[w]]
  /\ UNCHANGED waiting

Next ==
  \/ \E c \in Connections : Arrive(c)
  \/ \E w \in Workers : Assign(w)
  \/ \E S \in SUBSET Workers : Release(S)
  \/ TurnAway

Spec == Init /\ [][Next]_pool_vars
===============================================================================
