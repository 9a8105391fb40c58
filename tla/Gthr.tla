---------------------------------- MODULE Gthr ----------------------------------
(*******************************************************************************)
(* The green-thread library of scheduler/gthr.c: the table of threads, the     *)
(* three scheduling algorithms, gt_create and gt_schedule.                     *)
(*                                                                             *)
(* A thread is its index in gt_table; thread 0 is the initial thread.  The     *)
(* fields of struct gt are functions on the threads.  gt_schedule is one step  *)
(* here: it arms the 500 us timer when it starts and is taken to end before    *)
(* that timer fires.  Statistics and their printing are left out.              *)
(*******************************************************************************)
EXTENDS Integers, FiniteSets

CONSTANTS
  MaxGThreads,   \* number of slots of gt_table
  MinPriority,   \* the largest priority number, the least urgent one
  IntMax         \* bound of the int counter skip_count, which stops there

MaxPriority == 0

ASSUME GthrAssumption ==
  /\ MaxGThreads \in Nat \ {0}
  /\ MinPriority \in Nat
  /\ IntMax \in Nat
  /\ MinPriority <= IntMax

Threads    == 0 .. MaxGThreads - 1
e_state    == {"Unused", "Running", "Ready", "Blocked"}
Algorithms == {"round_robin", "round_robin_prio", "lottery"}

VARIABLES
  state,            \* [Threads -> e_state]
  gt_current,       \* the thread the library takes to be executing
  priority,         \* [Threads -> MaxPriority .. MinPriority]
  skip_count,       \* [Threads -> 0 .. IntMax]
  tickets_lo,       \* lottery tickets of a thread: tickets_lo[t] .. tickets_hi[t]
  tickets_hi,
  total_tickets,    \* tickets handed out so far
  get_next_thread,  \* the algorithm chosen on the command line
  timer             \* whether SIGALRM has been armed

gt_fields == <<priority, tickets_lo, tickets_hi, total_tickets, get_next_thread>>
gt_vars   == <<state, gt_current, skip_count, timer, gt_fields>>

GthrTypeOK ==
  /\ state \in [Threads -> e_state]
  /\ gt_current \in Threads
  /\ priority \in [Threads -> MaxPriority .. MinPriority]
  /\ skip_count \in [Threads -> 0 .. IntMax]
  /\ tickets_lo \in [Threads -> Nat]
  /\ tickets_hi \in [Threads -> Nat]
  /\ total_tickets \in Nat
  /\ get_next_thread \in Algorithms
  /\ timer \in BOOLEAN

(*******************************************************************************)
(* The table after set_scheduling_algorithm and gt_init.  Nothing else runs    *)
(* before: the timer is armed by the first gt_schedule only.                   *)
(*******************************************************************************)
gt_init ==
  /\ state = [t \in Threads |-> IF t = 0 THEN "Running" ELSE "Unused"]
  /\ gt_current = 0
  /\ priority = [t \in Threads |-> MaxPriority]
  /\ skip_count = [t \in Threads |-> 0]
  /\ tickets_lo = [t \in Threads |-> MaxPriority]
  /\ tickets_hi = [t \in Threads |-> IF t = 0 THEN MinPriority ELSE 0]
  /\ total_tickets = MinPriority + 1
  /\ get_next_thread \in Algorithms
  /\ timer = FALSE

-------------------------------------------------------------------------------
(* gt_create: the first unused slot becomes a Ready thread.                    *)

Clamp(prio) ==
  IF prio < MaxPriority THEN MaxPriority
  ELSE IF prio > MinPriority THEN MinPriority ELSE prio

FreeSlots == {t \in Threads : state[t] = "Unused"}

\* Mutant of CreateIn: total_tickets grows by one too few.
CreateIn_SharesTicket(p, prio) ==
  /\ p \in FreeSlots
  /\ \A q \in FreeSlots : p <= q
  /\ priority' = [priority EXCEPT ![p] = Clamp(prio)]
  /\ skip_count' = [skip_count EXCEPT ![p] = 0]
  /\ tickets_lo' = [tickets_lo EXCEPT ![p] = total_tickets]
  /\ tickets_hi' = [tickets_hi EXCEPT ![p] = total_tickets + (MinPriority - Clamp(prio))]
  /\ total_tickets' = total_tickets + (MinPriority - Clamp(prio))
  /\ state' = [state EXCEPT ![p] = "Ready"]
  /\ UNCHANGED <<gt_current, get_next_thread, timer>>

CreateIn(p, prio) ==
  /\ p \in FreeSlots
  /\ \A q \in FreeSlots : p <= q
  /\ priority' = [priority EXCEPT ![p] = Clamp(prio)]
  /\ skip_count' = [skip_count EXCEPT ![p] = 0]
  /\ tickets_lo' = [tickets_lo EXCEPT ![p] = total_tickets]
  /\ tickets_hi' = [tickets_hi EXCEPT ![p] = total_tickets + (MinPriority - Clamp(prio))]
  /\ total_tickets' = total_tickets + (MinPriority - Clamp(prio)) + 1
  /\ state' = [state EXCEPT ![p] = "Ready"]
  /\ UNCHANGED <<gt_current, get_next_thread, timer>>

-------------------------------------------------------------------------------
(* The algorithms.  Each looks at slots in the cyclic order that starts after  *)
(* gt_current and leaves the chosen thread in p; st is the table's state.      *)

Slot(n) == (gt_current + n) % MaxGThreads   \* the n-th slot looked at

(* The loop of round_robin ends on a Ready thread, gt_current itself if it is   *)
(* Ready at once, or back on gt_current unless that is Blocked.                 *)
EndsRoundRobin(st, n) ==
  \/ st[Slot(n)] = "Ready"
  \/ n > 0 /\ Slot(n) = gt_current /\ st[gt_current] # "Blocked"

round_robin(st, p) ==
  \E n \in 0 .. MaxGThreads :
    /\ p = Slot(n)
    /\ EndsRoundRobin(st, n)
    /\ \A m \in 0 .. n - 1 : ~EndsRoundRobin(st, m)

(* A slot is looked at once per pass over the table, and each look that does   *)
(* not choose it adds one to its skip_count unless it is Blocked.              *)
Pass(n) == (n - 1) \div MaxGThreads
Looks(t, n) == Cardinality({m \in 1 .. n : Slot(m) = t})

Eligible(st, n) ==
  /\ st[Slot(n)] = "Ready"
  /\ priority[Slot(n)] - (skip_count[Slot(n)] + Pass(n)) <= MaxPriority

EndsPrio(st, n) ==
  \/ Eligible(st, n)
  \/ Slot(n) = gt_current /\ st[gt_current] # "Blocked"

\* Mutant of Skipped: skip_count is never incremented.
Skipped_NoAging(t, n) == skip_count[t]

Skipped(t, n) ==
  IF skip_count[t] + Looks(t, n) > IntMax THEN IntMax ELSE skip_count[t] + Looks(t, n)

\* Mutant of round_robin_prio: the chosen thread keeps its skip_count.
round_robin_prio_NoReset(st, p) ==
  \E n \in 1 .. MaxGThreads * (MinPriority + 1) :
    /\ p = Slot(n)
    /\ EndsPrio(st, n)
    /\ \A m \in 1 .. n - 1 : ~EndsPrio(st, m)
    /\ skip_count' = [t \in Threads |->
                        IF st[t] = "Blocked" THEN skip_count[t] ELSE Skipped(t, n)]

round_robin_prio(st, p) ==
  \E n \in 1 .. MaxGThreads * (MinPriority + 1) :
    /\ p = Slot(n)
    /\ EndsPrio(st, n)
    /\ \A m \in 1 .. n - 1 : ~EndsPrio(st, m)
    /\ skip_count' = [t \in Threads |->
                        IF t = p /\ Eligible(st, n) THEN 0
                        ELSE IF st[t] = "Blocked" THEN skip_count[t]
                        ELSE Skipped(t, n)]

Wins(st, t, ticket) ==
  /\ st[t] \in {"Ready", "Running"}
  /\ ticket \in tickets_lo[t] .. tickets_hi[t]

lottery(st, p) ==
  \E ticket \in 0 .. total_tickets - 1 :
    \/ /\ Wins(st, p, ticket)
       /\ \A q \in Threads : q < p => ~Wins(st, q, ticket)
    \/ /\ \A q \in Threads : ~Wins(st, q, ticket)
       /\ round_robin(st, p)

(* The call through the pointer get_next_thread.                               *)
GetNext(st, p) ==
  \/ get_next_thread = "round_robin" /\ round_robin(st, p) /\ UNCHANGED skip_count
  \/ get_next_thread = "round_robin_prio" /\ round_robin_prio(st, p)
  \/ get_next_thread = "lottery" /\ lottery(st, p) /\ UNCHANGED skip_count

(* What the algorithms return when they leave p in *thread: every way out of   *)
(* them returns true, the one back to gt_current included.                     *)
Found(p) == TRUE

-------------------------------------------------------------------------------
(* gt_schedule, called with the table's state st: gt_return has already        *)
(* released its slot when it calls.  With nobody to choose, an algorithm never  *)
(* returns and this step is disabled.                                          *)

\* Mutant of SwitchTo: the thread switched from stays Running.
SwitchTo_OldStaysRunning(st, p) ==
  /\ state' = [st EXCEPT ![p] = "Running"]
  /\ gt_current' = p

\* Mutant of SwitchTo: a Blocked thread switched from becomes Ready.
SwitchTo_UnblocksOld(st, p) ==
  /\ state' = [t \in Threads |->
                 IF t = p THEN "Running"
                 ELSE IF t = gt_current /\ st[t] # "Unused" THEN "Ready"
                 ELSE st[t]]
  /\ gt_current' = p

\* Mutant of SwitchTo: an ended thread switched from becomes Ready.
SwitchTo_RevivesOld(st, p) ==
  /\ state' = [t \in Threads |->
                 IF t = p THEN "Running"
                 ELSE IF t = gt_current /\ st[t] # "Blocked" THEN "Ready"
                 ELSE st[t]]
  /\ gt_current' = p

SwitchTo(st, p) ==
  /\ state' = [t \in Threads |->
                 IF t = p THEN "Running"
                 ELSE IF t = gt_current /\ st[t] \notin {"Unused", "Blocked"} THEN "Ready"
                 ELSE st[t]]
  /\ gt_current' = p

gt_schedule(st) ==
  /\ timer' = TRUE
  /\ \E p \in Threads :
       /\ GetNext(st, p)
       /\ IF Found(p) THEN SwitchTo(st, p)
          ELSE state' = st /\ UNCHANGED gt_current
  /\ UNCHANGED gt_fields
===============================================================================
