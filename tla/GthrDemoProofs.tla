----------------------------- MODULE GthrDemoProofs -----------------------------
(*******************************************************************************)
(* Proofs about GthrDemo, for any number of slots, priorities, threads and     *)
(* permits.                                                                    *)
(*******************************************************************************)
EXTENDS GthrDemo, CommonLemmas

-------------------------------------------------------------------------------
(* What the scheduling algorithms return.                                      *)

(* The chosen thread is Ready or Running, or it is gt_current, not Blocked.    *)
LEMMA ChosenThread ==
  ASSUME NEW st, NEW p \in Threads, GetNext(st, p)
  PROVE  \/ st[p] \in {"Ready", "Running"}
         \/ p = gt_current /\ st[p] # "Blocked"
<1>1. CASE round_robin(st, p)
  BY <1>1 DEF round_robin, EndsRoundRobin
<1>2. CASE round_robin_prio(st, p)
  BY <1>2 DEF round_robin_prio, EndsPrio, Eligible
<1>3. CASE lottery(st, p)
  BY <1>1, <1>3 DEF lottery, Wins
<1>4. QED
  BY <1>1, <1>2, <1>3 DEF GetNext

(* A sum of two indices goes at most once past the end of the table.            *)
LEMMA ModOnce ==
  ASSUME NEW N \in Nat \ {0}, NEW a \in N .. 2 * N - 1
  PROVE  a % N = a - N
<1>. DEFINE q == a \div N
            r == a % N
<1>1. /\ q \in Int
      /\ r \in 0 .. N - 1
      /\ a = N * q + r
  OBVIOUS
<1>2. q >= 1
  <2>1. SUFFICES ASSUME q <= 0 PROVE FALSE
    BY <1>1
  <2>2. N * q <= 0
    BY <1>1, <2>1
  <2>3. QED
    BY <1>1, <2>2
<1>3. q <= 1
  <2>1. SUFFICES ASSUME q >= 2 PROVE FALSE
    BY <1>1
  <2>2. N * q >= N * 2
    BY <1>1, <2>1
  <2>3. QED
    BY <1>1, <2>2
<1>4. q = 1
  BY <1>1, <1>2, <1>3
<1>5. QED
  BY <1>1, <1>4

(* The slots of one pass over the table are those after gt_current, then those *)
(* from the first one up to gt_current.                                        *)
LEMMA SlotInFirstPass ==
  ASSUME gt_current \in Threads, NEW n \in 0 .. MaxGThreads
  PROVE  Slot(n) = IF gt_current + n < MaxGThreads THEN gt_current + n
                   ELSE gt_current + n - MaxGThreads
<1>. DEFINE a == gt_current + n
<1>1. /\ MaxGThreads \in Nat \ {0}
      /\ a \in 0 .. 2 * MaxGThreads - 1
  BY GthrAssumption DEF Threads
<1>2. CASE a < MaxGThreads
  BY <1>1, <1>2 DEF Slot
<1>3. CASE a >= MaxGThreads
  <2>1. a \in MaxGThreads .. 2 * MaxGThreads - 1
    BY <1>1, <1>3
  <2>2. a % MaxGThreads = a - MaxGThreads
    BY <1>1, <2>1, ModOnce
  <2>3. Slot(n) = a % MaxGThreads
    BY DEF Slot
  <2>4. gt_current \in Int /\ n \in Int
    BY <1>1 DEF Threads
  <2>5. QED
    BY <1>1, <1>3, <2>2, <2>3, <2>4
<1>4. QED
  BY <1>1, <1>2, <1>3

(* skip_count keeps its type.                                                  *)
LEMMA SkipType ==
  ASSUME GthrTypeOK, NEW st, NEW p \in Threads, GetNext(st, p)
  PROVE  skip_count' \in [Threads -> 0 .. IntMax]
<1>1. CASE UNCHANGED skip_count
  BY <1>1 DEF GthrTypeOK
<1>2. CASE round_robin_prio(st, p)
  <2>1. PICK n \in 1 .. MaxGThreads * (MinPriority + 1) :
          skip_count' = [t \in Threads |->
                           IF t = p /\ Eligible(st, n) THEN 0
                           ELSE IF st[t] = "Blocked" THEN skip_count[t]
                           ELSE Skipped(t, n)]
    BY <1>2 DEF round_robin_prio
  <2>2. n \in Int
    BY <2>1, GthrAssumption
  <2>3. ASSUME NEW t \in Threads
        PROVE  Skipped(t, n) \in 0 .. IntMax
    <3>1. Looks(t, n) \in Nat
      <4>1. IsFiniteSet(1 .. n)
        BY <2>2, FS_Interval
      <4>2. {m \in 1 .. n : Slot(m) = t} \in SUBSET (1 .. n)
        OBVIOUS
      <4>3. QED
        BY <4>1, <4>2, FS_Subset, FS_CardinalityType DEF Looks
    <3>2. QED
      BY <3>1, GthrAssumption DEF Skipped, GthrTypeOK
  <2>4. QED
    BY <2>1, <2>3, GthrAssumption DEF GthrTypeOK
<1>3. QED
  BY <1>1, <1>2 DEF GetNext

(* Priority 0 makes the initial thread eligible at its first look, so a search *)
(* that finds it Ready ends there before it comes back to gt_current.          *)
LEMMA InitialThreadMet ==
  ASSUME GthrTypeOK, NEW st, NEW p \in Threads, GetNext(st, p),
         gt_current # 0, st[gt_current] = "Unused",
         st[0] = "Ready", priority[0] = MaxPriority
  PROVE  p # gt_current
<1>. DEFINE toZero == MaxGThreads - gt_current
<1>1. /\ MaxGThreads \in Nat \ {0}
      /\ gt_current \in 1 .. MaxGThreads - 1
      /\ 0 \in Threads
  BY GthrAssumption DEF GthrTypeOK, Threads
<1>2. gt_current \in Threads
  BY DEF GthrTypeOK
<1>3. /\ toZero \in 1 .. MaxGThreads - 1
      /\ Slot(toZero) = 0
  BY <1>1, <1>2, SlotInFirstPass
<1>4. ASSUME NEW n \in 1 .. toZero
      PROVE  Slot(n) # gt_current
  BY <1>1, <1>2, <1>3, SlotInFirstPass
<1>5. ASSUME round_robin(st, p)
      PROVE  p # gt_current
  <2>1. PICK n \in 0 .. MaxGThreads :
          /\ p = Slot(n)
          /\ EndsRoundRobin(st, n)
          /\ \A m \in 0 .. n - 1 : ~EndsRoundRobin(st, m)
    BY <1>5 DEF round_robin
  <2>2. EndsRoundRobin(st, toZero)
    BY <1>3 DEF EndsRoundRobin
  <2>3. n <= toZero
    BY <1>1, <1>3, <2>1, <2>2
  <2>4. CASE n = 0
    BY <2>1, <2>4 DEF EndsRoundRobin
  <2>5. CASE n # 0
    BY <1>1, <1>3, <1>4, <2>1, <2>3, <2>5
  <2>6. QED
    BY <2>4, <2>5
<1>6. ASSUME round_robin_prio(st, p)
      PROVE  p # gt_current
  <2>1. PICK n \in 1 .. MaxGThreads * (MinPriority + 1) :
          /\ p = Slot(n)
          /\ \A m \in 1 .. n - 1 : ~EndsPrio(st, m)
    BY <1>6 DEF round_robin_prio
  <2>2. EndsPrio(st, toZero)
    <3>1. toZero - 1 \in 0 .. MaxGThreads - 1
      BY <1>1, <1>3
    <3>2. Pass(toZero) = 0
      BY <1>1, <3>1 DEF Pass
    <3>3. skip_count[0] \in Nat
      BY <1>1 DEF GthrTypeOK
    <3>4. QED
      BY <1>3, <3>2, <3>3 DEF EndsPrio, Eligible, MaxPriority
  <2>3. n \in Int
    BY <2>1, GthrAssumption
  <2>4. n \in 1 .. toZero
    BY <1>1, <1>3, <2>1, <2>2, <2>3
  <2>5. QED
    BY <1>4, <2>1, <2>4
<1>7. CASE lottery(st, p)
  BY <1>5, <1>7 DEF lottery, Wins
<1>8. QED
  BY <1>5, <1>6, <1>7 DEF GetNext

(* What gt_schedule does to the table: it leaves exactly one thread Running,   *)
(* the one it switches to; it blocks, wakes, creates and ends nobody; it never *)
(* stays in a Blocked or ended thread; and the initial thread stays available. *)
LEMMA ScheduleTable ==
  ASSUME GthrTypeOK, priority[0] = MaxPriority,
         NEW st \in [Threads -> e_state], gt_schedule(st),
         st[gt_current] \in {"Running", "Blocked", "Unused"},
         \A t \in Threads : st[t] = "Running" => t = gt_current,
         gt_current # 0 => st[0] = "Ready",
         gt_current = 0 => st[0] = "Running"
  PROVE  /\ GthrTypeOK'
         /\ UNCHANGED gt_fields
         /\ state'[gt_current'] = "Running"
         /\ \A t \in Threads : state'[t] = "Running" => t = gt_current'
         /\ \A t \in Threads : state'[t] = "Blocked" <=> st[t] = "Blocked"
         /\ \A t \in Threads : state'[t] = "Unused" <=> st[t] = "Unused"
         /\ st[gt_current] # "Running" => gt_current' # gt_current
         /\ gt_current' # 0 => state'[0] = "Ready"
<1>1. PICK p \in Threads : GetNext(st, p) /\ SwitchTo(st, p)
  BY DEF gt_schedule, Found
<1>2. gt_current \in Threads /\ 0 \in Threads
  BY GthrAssumption DEF GthrTypeOK, Threads
<1>3. st[p] = "Ready" \/ (p = gt_current /\ st[p] = "Running")
  <2>1. st[p] \in {"Ready", "Running"} \/ (p = gt_current /\ st[p] = "Unused")
    BY <1>1, <1>2, ChosenThread DEF e_state
  <2>2. ~(p = gt_current /\ st[p] = "Unused")
    <3>1. SUFFICES ASSUME p = gt_current, st[p] = "Unused"
                   PROVE  FALSE
      OBVIOUS
    <3>2. gt_current # 0 /\ st[0] = "Ready"
      BY <3>1
    <3>3. QED
      BY <1>1, <3>1, <3>2, InitialThreadMet
  <2>3. QED
    BY <2>1, <2>2
<1>4. /\ gt_current' = p
      /\ state' = [t \in Threads |->
                    IF t = p THEN "Running"
                    ELSE IF t = gt_current /\ st[t] \notin {"Unused", "Blocked"} THEN "Ready"
                    ELSE st[t]]
  BY <1>1 DEF SwitchTo
<1>5. GthrTypeOK'
  <2>1. skip_count' \in [Threads -> 0 .. IntMax]
    BY <1>1, SkipType
  <2>2. state' \in [Threads -> e_state]
    BY <1>4 DEF e_state
  <2>3. QED
    BY <1>4, <2>1, <2>2 DEF gt_schedule, gt_fields, GthrTypeOK
<1>6. UNCHANGED gt_fields
  BY DEF gt_schedule
<1>7. QED
  BY <1>2, <1>3, <1>4, <1>5, <1>6 DEF e_state

-------------------------------------------------------------------------------
(* The queue of the semaphore.                                                 *)

LEMMA WaitingType ==
  ASSUME SemTypeOK
  PROVE  Waiting \subseteq Threads
BY ElementOfSeq DEF SemTypeOK, Waiting, Range

-------------------------------------------------------------------------------
(* The inductive invariant.                                                    *)

LEMMA InitInv ==
  ASSUME Init
  PROVE  IInv
<1>. USE DEF Init, gt_init, sem_init
<1>1. 0 \in Threads
  BY GthrAssumption DEF Threads
<1>2. queue = <<>> /\ DOMAIN queue = {} /\ Waiting = {}
  BY DEF Waiting, Range
<1>3. TypeOK
  <2>1. GthrTypeOK
    BY <1>1, GthrAssumption DEF GthrTypeOK, e_state, MaxPriority
  <2>2. SemTypeOK
    BY <1>2, DemoAssumption DEF SemTypeOK
  <2>3. QED
    BY <2>1, <2>2, DemoAssumption DEF TypeOK, Labels
<1>4. PermitsConserved
  <2>1. Holders = {}
    BY DEF Holders, Section
  <2>2. QED
    BY <2>1, FS_EmptySet, DemoAssumption DEF PermitsConserved
<1>5. WaitersAreBlocked
  BY <1>2 DEF WaitersAreBlocked, IsInjective
<1>6. RunningIsCurrent /\ InitialThreadReady /\ NoResurrection /\ WaitersInFirstSleep
  BY <1>1, <1>2
     DEF RunningIsCurrent, InitialThreadReady, NoResurrection, WaitersInFirstSleep
<1>7. QED
  BY <1>1, <1>2, <1>3, <1>4, <1>5, <1>6 DEF IInv

(* The set of holders follows pc and the queue alone, and so does its size.     *)
LEMMA HoldersUnchanged ==
  ASSUME IInv, UNCHANGED sem_vars,
         \A t \in Threads : pc'[t] \in Section <=> pc[t] \in Section
  PROVE  PermitsConserved' /\ Waiting' = Waiting /\ Holders' = Holders
<1>1. Waiting' = Waiting
  BY DEF Waiting, sem_vars
<1>2. Holders' = Holders
  BY <1>1 DEF Holders
<1>3. QED
  BY <1>1, <1>2 DEF IInv, PermitsConserved, sem_vars

(* A switch from the table st, which is state or state after an ended thread   *)
(* has released its slot.                                                      *)
LEMMA SwitchInv ==
  ASSUME IInv, UNCHANGED sem_vars,
         NEW st \in [Threads -> e_state], gt_schedule(st),
         \A t \in Threads : st[t] = state[t]
                           \/ (t = gt_current /\ t # 0 /\ t \notin Waiting /\ st[t] = "Unused")
  PROVE  /\ GthrTypeOK' /\ SemTypeOK'
         /\ priority'[0] = MaxPriority
         /\ RunningIsCurrent' /\ WaitersAreBlocked' /\ InitialThreadReady'
         /\ \A t \in Threads : state'[t] = "Unused" <=> st[t] = "Unused"
         /\ gt_current' \notin Waiting'
<1>1. /\ GthrTypeOK /\ SemTypeOK
      /\ priority[0] = MaxPriority
      /\ gt_current \in Threads /\ 0 \in Threads
  BY GthrAssumption DEF IInv, TypeOK, GthrTypeOK, Threads
<1>2. 0 \notin Waiting /\ state[0] # "Blocked"
  <2>1. 0 \notin Waiting
    BY DEF IInv, WaitersInFirstSleep
  <2>2. QED
    BY <1>1, <2>1 DEF IInv, WaitersAreBlocked
<1>3. /\ st[gt_current] \in {"Running", "Blocked", "Unused"}
      /\ \A t \in Threads : st[t] = "Running" => t = gt_current
      /\ gt_current # 0 => st[0] = "Ready"
      /\ gt_current = 0 => st[0] = "Running"
  BY <1>1, <1>2 DEF IInv, RunningIsCurrent, InitialThreadReady
<1>4. /\ GthrTypeOK'
      /\ UNCHANGED gt_fields
      /\ state'[gt_current'] = "Running"
      /\ \A t \in Threads : state'[t] = "Running" => t = gt_current'
      /\ \A t \in Threads : state'[t] = "Blocked" <=> st[t] = "Blocked"
      /\ \A t \in Threads : state'[t] = "Unused" <=> st[t] = "Unused"
      /\ st[gt_current] # "Running" => gt_current' # gt_current
      /\ gt_current' # 0 => state'[0] = "Ready"
  BY <1>1, <1>3, ScheduleTable
<1>5. Waiting' = Waiting /\ SemTypeOK' /\ queue' = queue
  BY <1>1 DEF Waiting, sem_vars, SemTypeOK
<1>6. \A t \in Threads : st[t] = "Blocked" <=> t \in Waiting
  BY DEF IInv, WaitersAreBlocked
<1>7. WaitersAreBlocked'
  BY <1>4, <1>5, <1>6 DEF IInv, WaitersAreBlocked
<1>8. gt_current' \notin Waiting'
  BY <1>4, <1>7 DEF WaitersAreBlocked, GthrTypeOK
<1>9. QED
  BY <1>1, <1>4, <1>5, <1>7, <1>8 DEF RunningIsCurrent, InitialThreadReady, gt_fields

(* gt_create takes an Unused slot, which is not that of the initial thread.    *)
LEMMA CreateThreadInv ==
  ASSUME IInv, CreateThread
  PROVE  IInv'
<1>1. /\ GthrTypeOK /\ SemTypeOK /\ pc \in [Threads -> Labels] /\ todo \in Seq(Int)
      /\ 0 \in Threads /\ gt_current = 0 /\ todo # <<>>
      /\ UNCHANGED <<sem_vars, exited, ticked>>
      /\ Waiting' = Waiting
  BY GthrAssumption DEF IInv, TypeOK, Threads, CreateThread, Waiting, sem_vars
<1>2. todo' \in Seq(Int) /\ Head(todo) \in Int
  BY <1>1, HeadTailProperties DEF CreateThread
<1>3. CASE UNCHANGED <<gt_vars, pc>>
  <2>1. UNCHANGED <<state, gt_current, priority, skip_count, tickets_lo, tickets_hi,
                    total_tickets, get_next_thread, timer, pc>>
    BY <1>3 DEF gt_vars, gt_fields
  <2>2. TypeOK'
    BY <1>1, <1>2, <2>1 DEF IInv, TypeOK, GthrTypeOK, SemTypeOK, sem_vars
  <2>3. PermitsConserved'
    BY <1>1, <2>1, HoldersUnchanged
  <2>4. QED
    BY <1>1, <2>1, <2>2, <2>3
       DEF IInv, RunningIsCurrent, WaitersAreBlocked, WaitersInFirstSleep,
           InitialThreadReady, NoResurrection, sem_vars
<1>4. ASSUME NEW p \in Threads, CreateIn(p, Head(todo)), pc' = [pc EXCEPT ![p] = "wait"]
      PROVE  IInv'
  <2>1. /\ state[p] = "Unused" /\ p # 0 /\ pc[p] = "none"
        /\ p \notin Waiting
    BY <1>1, <1>4
       DEF IInv, CreateIn, FreeSlots, RunningIsCurrent, WaitersAreBlocked, NoResurrection
  <2>2. state' = [state EXCEPT ![p] = "Ready"] /\ UNCHANGED <<gt_current, timer>>
    BY <1>4 DEF CreateIn
  <2>3. GthrTypeOK'
    <3>1. Clamp(Head(todo)) \in MaxPriority .. MinPriority
      BY <1>2, GthrAssumption DEF Clamp, MaxPriority
    <3>2. total_tickets \in Nat /\ MinPriority - Clamp(Head(todo)) \in Nat
      BY <1>1, <3>1, GthrAssumption DEF GthrTypeOK, MaxPriority
    <3>3. priority' \in [Threads -> MaxPriority .. MinPriority]
      BY <1>1, <1>4, <3>1 DEF CreateIn, GthrTypeOK
    <3>4. /\ tickets_lo' \in [Threads -> Nat]
          /\ tickets_hi' \in [Threads -> Nat]
          /\ total_tickets' \in Nat
      <4>1. /\ total_tickets + (MinPriority - Clamp(Head(todo))) \in Nat
            /\ total_tickets + (MinPriority - Clamp(Head(todo))) + 1 \in Nat
        BY <3>2
      <4>2. QED
        BY <1>1, <1>4, <3>2, <4>1 DEF CreateIn, GthrTypeOK
    <3>5. state' \in [Threads -> e_state] /\ skip_count' \in [Threads -> 0 .. IntMax]
      BY <1>1, <1>4, GthrAssumption DEF CreateIn, GthrTypeOK, e_state
    <3>6. QED
      BY <1>1, <1>4, <3>3, <3>4, <3>5 DEF CreateIn, GthrTypeOK
  <2>4. TypeOK'
    BY <1>1, <1>2, <1>4, <2>3 DEF IInv, TypeOK, SemTypeOK, Labels, sem_vars
  <2>5. priority'[0] = MaxPriority /\ pc'[0] = "none"
    BY <1>1, <1>4, <2>1 DEF IInv, CreateIn, GthrTypeOK
  <2>6. RunningIsCurrent' /\ InitialThreadReady'
    BY <1>1, <2>1, <2>2 DEF IInv, RunningIsCurrent, InitialThreadReady, GthrTypeOK
  <2>7. WaitersAreBlocked'
    BY <1>1, <2>1, <2>2 DEF IInv, WaitersAreBlocked, GthrTypeOK, sem_vars
  <2>8. WaitersInFirstSleep'
    BY <1>1, <1>4, <2>1, <2>2 DEF IInv, WaitersInFirstSleep, Sleeps
  <2>9. PermitsConserved'
    BY <1>1, <1>4, <2>1, HoldersUnchanged DEF Section
  <2>10. NoResurrection'
    BY <1>1, <1>4, <2>1, <2>2 DEF IInv, NoResurrection, GthrTypeOK
  <2>11. QED
    BY <1>1, <2>4, <2>5, <2>6, <2>7, <2>8, <2>9, <2>10 DEF IInv, sem_vars
<1>5. QED
  BY <1>3, <1>4 DEF CreateThread

(* The initial thread gives way: nothing but the table changes.                *)
LEMMA MainReturnsInv ==
  ASSUME IInv, MainReturns
  PROVE  IInv'
<1>1. /\ gt_schedule(state) /\ state \in [Threads -> e_state] /\ pc[0] = "none"
      /\ UNCHANGED <<sem_vars, todo, pc, ticked>>
      /\ exited' \in BOOLEAN
  BY DEF IInv, TypeOK, GthrTypeOK, MainReturns, Found
<1>2. /\ GthrTypeOK' /\ SemTypeOK' /\ priority'[0] = MaxPriority
      /\ RunningIsCurrent' /\ WaitersAreBlocked' /\ InitialThreadReady'
      /\ \A t \in Threads : state'[t] = "Unused" <=> state[t] = "Unused"
      /\ gt_current' \notin Waiting'
  BY <1>1, SwitchInv
<1>3. PermitsConserved' /\ Waiting' = Waiting
  BY <1>1, HoldersUnchanged
<1>4. WaitersInFirstSleep'
  BY <1>1, <1>2, <1>3 DEF IInv, WaitersInFirstSleep
<1>5. TypeOK' /\ NoResurrection'
  BY <1>1, <1>2 DEF IInv, TypeOK, NoResurrection
<1>6. QED
  BY <1>1, <1>2, <1>3, <1>4, <1>5 DEF IInv, sem_vars

(* An alarm switches likewise and marks the sleeper it has interrupted.        *)
LEMMA AlarmInv ==
  ASSUME IInv, Alarm
  PROVE  IInv'
<1>1. /\ gt_schedule(state) /\ state \in [Threads -> e_state] /\ gt_current \in Threads
      /\ ticked \in SUBSET Threads
      /\ UNCHANGED <<sem_vars, todo, exited, pc>>
      /\ ticked' = IF pc[gt_current] \in Sleeps THEN ticked \cup {gt_current} ELSE ticked
  BY DEF IInv, TypeOK, GthrTypeOK, Alarm
<1>2. /\ GthrTypeOK' /\ SemTypeOK' /\ priority'[0] = MaxPriority
      /\ RunningIsCurrent' /\ WaitersAreBlocked' /\ InitialThreadReady'
      /\ \A t \in Threads : state'[t] = "Unused" <=> state[t] = "Unused"
      /\ gt_current' \notin Waiting'
  BY <1>1, SwitchInv
<1>3. PermitsConserved' /\ Waiting' = Waiting
  BY <1>1, HoldersUnchanged
<1>4. WaitersInFirstSleep'
  BY <1>1, <1>2, <1>3 DEF IInv, WaitersInFirstSleep
<1>5. TypeOK' /\ NoResurrection'
  BY <1>1, <1>2 DEF IInv, TypeOK, NoResurrection
<1>6. QED
  BY <1>1, <1>2, <1>3, <1>4, <1>5 DEF IInv, sem_vars

(* A thread that ends was Running: it is at sem_wait, so it is not queued.     *)
LEMMA ReturnInv ==
  ASSUME IInv, NEW t \in Threads, Return(t)
  PROVE  IInv'
<1>. DEFINE st == [state EXCEPT ![t] = "Unused"]
<1>1. /\ gt_schedule(st) /\ gt_current = t /\ pc[t] = "wait"
      /\ state \in [Threads -> e_state] /\ st \in [Threads -> e_state]
      /\ pc \in [Threads -> Labels] /\ pc' = [pc EXCEPT ![t] = "none"]
      /\ UNCHANGED <<sem_vars, todo, exited, ticked>>
  BY DEF IInv, TypeOK, GthrTypeOK, Return, At, e_state
<1>2. t # 0 /\ t \notin Waiting /\ t \notin ticked
  BY <1>1 DEF IInv, WaitersInFirstSleep, Sleeps
<1>3. \A u \in Threads : st[u] = IF u = t THEN "Unused" ELSE state[u]
  BY <1>1
<1>4. /\ GthrTypeOK' /\ SemTypeOK' /\ priority'[0] = MaxPriority
      /\ RunningIsCurrent' /\ WaitersAreBlocked' /\ InitialThreadReady'
      /\ \A u \in Threads : state'[u] = "Unused" <=> st[u] = "Unused"
      /\ gt_current' \notin Waiting'
  BY <1>1, <1>2, <1>3, SwitchInv
<1>5. PermitsConserved' /\ Waiting' = Waiting
  BY <1>1, HoldersUnchanged DEF Section
<1>6. WaitersInFirstSleep'
  BY <1>1, <1>2, <1>4, <1>5 DEF IInv, WaitersInFirstSleep
<1>7. TypeOK'
  BY <1>1, <1>4 DEF IInv, TypeOK, Labels
<1>8. NoResurrection'
  BY <1>1, <1>3, <1>4 DEF IInv, NoResurrection
<1>9. pc'[0] = "none"
  BY <1>1, <1>2, GthrAssumption DEF IInv, Threads
<1>10. QED
  BY <1>1, <1>4, <1>5, <1>6, <1>7, <1>8, <1>9 DEF IInv, sem_vars

-------------------------------------------------------------------------------
(* The steps of f.                                                             *)

(* The two that touch neither the table nor the semaphore.                     *)
LEMMA BeginEndInv ==
  ASSUME IInv, NEW t \in Threads, Begin(t) \/ End(t)
  PROVE  IInv'
<1>1. /\ gt_current = t /\ pc[t] \in {"begin", "sleep1"}
      /\ pc \in [Threads -> Labels] /\ ticked \in SUBSET Threads
      /\ \/ pc' = [pc EXCEPT ![t] = "sleep1"]
         \/ pc' = [pc EXCEPT ![t] = "sleep2"] /\ t \in ticked
      /\ ticked' = ticked \ {t}
      /\ UNCHANGED <<gt_vars, sem_vars, todo, exited>>
  BY DEF IInv, TypeOK, Begin, End, At
<1>2. UNCHANGED <<state, gt_current, priority, skip_count, tickets_lo, tickets_hi,
                  total_tickets, get_next_thread, timer, value, queue, todo, exited>>
  BY <1>1 DEF gt_vars, gt_fields, sem_vars
<1>3. t # 0
  BY <1>1 DEF IInv
<1>4. pc' \in [Threads -> Labels] /\ pc'[t] \in Sleeps
      /\ \A u \in Threads \ {t} : pc'[u] = pc[u]
  BY <1>1 DEF Labels, Sleeps
<1>5. TypeOK'
  BY <1>1, <1>2, <1>4 DEF IInv, TypeOK, GthrTypeOK, SemTypeOK
<1>6. PermitsConserved' /\ Waiting' = Waiting
  BY <1>1, <1>4, HoldersUnchanged DEF Section, Sleeps
<1>7. WaitersInFirstSleep'
  <2>1. t \in Waiting => pc'[t] = "sleep1"
    BY <1>1 DEF IInv, WaitersInFirstSleep
  <2>2. Waiting \subseteq Threads
    BY WaitingType DEF IInv, TypeOK
  <2>3. QED
    BY <1>1, <1>2, <1>4, <1>6, <2>1, <2>2 DEF IInv, WaitersInFirstSleep
<1>8. NoResurrection' /\ pc'[0] = "none"
  BY <1>1, <1>2, <1>3, <1>4, GthrAssumption DEF IInv, NoResurrection, Sleeps, Threads
<1>9. QED
  BY <1>2, <1>5, <1>6, <1>7, <1>8
     DEF IInv, RunningIsCurrent, WaitersAreBlocked, InitialThreadReady

(* sem_wait takes a permit, and its caller becomes a holder, or queues it.     *)
LEMMA WaitInv ==
  ASSUME IInv, NEW t \in Threads, Wait(t)
  PROVE  IInv'
<1>1. /\ gt_current = t /\ pc[t] = "wait" /\ t # 0
      /\ GthrTypeOK /\ SemTypeOK /\ pc \in [Threads -> Labels]
      /\ pc' = [pc EXCEPT ![t] = "begin"]
      /\ sem_wait
      /\ UNCHANGED <<gt_current, skip_count, timer, priority, tickets_lo, tickets_hi,
                     total_tickets, get_next_thread, todo, exited, ticked>>
  BY DEF IInv, TypeOK, Wait, At, sem_wait, gt_fields
<1>2. t \notin Waiting /\ t \notin ticked /\ Waiting \subseteq Threads
  BY <1>1, WaitingType DEF IInv, WaitersInFirstSleep, Sleeps
<1>3. t \notin Holders /\ IsFiniteSet(Holders)
  <2>1. IsFiniteSet(Threads)
    BY FS_Interval, GthrAssumption DEF Threads
  <2>2. QED
    BY <1>1, <2>1, FS_Subset DEF Holders, Section
<1>4. /\ pc' \in [Threads -> Labels] /\ pc'[t] = "begin" /\ pc'[0] = "none"
      /\ \A u \in Threads \ {t} : pc'[u] = pc[u]
  BY <1>1, GthrAssumption DEF IInv, Labels, Threads
<1>5. CASE value > 0
  <2>1. value' = value - 1 /\ UNCHANGED <<queue, state>> /\ Waiting' = Waiting
    BY <1>1, <1>5 DEF sem_wait, Waiting
  <2>2. queue = <<>>
    BY <1>5 DEF IInv
  <2>3. TypeOK'
    BY <1>1, <1>4, <1>5, <2>1 DEF IInv, TypeOK, GthrTypeOK, SemTypeOK
  <2>4. Holders' = Holders \cup {t}
    BY <1>2, <1>4, <2>1 DEF Holders, Section
  <2>5. PermitsConserved'
    <3>1. Cardinality(Holders') = Cardinality(Holders) + 1
      BY <1>3, <2>4, FS_AddElement
    <3>2. Cardinality(Holders) \in Nat /\ value \in Nat
      BY <1>1, <1>3, FS_CardinalityType DEF SemTypeOK
    <3>3. QED
      BY <2>1, <3>1, <3>2 DEF IInv, PermitsConserved
  <2>6. WaitersInFirstSleep' /\ NoResurrection'
    BY <1>1, <1>2, <1>4, <2>1 DEF IInv, WaitersInFirstSleep, NoResurrection
  <2>7. QED
    BY <1>1, <1>4, <2>1, <2>2, <2>3, <2>5, <2>6
       DEF IInv, RunningIsCurrent, WaitersAreBlocked, InitialThreadReady
<1>6. CASE ~(value > 0)
  <2>1. /\ queue' = Append(queue, t) /\ state' = [state EXCEPT ![t] = "Blocked"]
        /\ UNCHANGED value
    BY <1>1, <1>6 DEF sem_wait
  <2>2. queue' \in Seq(Threads) /\ Waiting' = Waiting \cup {t} /\ IsInjective(queue')
    <3>1. IsInjective(queue)
      BY DEF IInv, WaitersAreBlocked
    <3>2. queue \in Seq(Threads)
      BY <1>1 DEF SemTypeOK
    <3>3. QED
      BY <1>2, <2>1, <3>1, <3>2, AppendRange, AppendProperties DEF Waiting
  <2>3. TypeOK'
    BY <1>1, <1>4, <2>1, <2>2 DEF IInv, TypeOK, GthrTypeOK, SemTypeOK, e_state
  <2>4. Holders' = Holders
    BY <1>1, <1>2, <1>4, <2>2 DEF Holders, Section
  <2>5. RunningIsCurrent' /\ InitialThreadReady'
    BY <1>1, <2>1, GthrAssumption
       DEF IInv, RunningIsCurrent, InitialThreadReady, GthrTypeOK, Threads
  <2>6. WaitersAreBlocked'
    BY <1>1, <2>1, <2>2 DEF IInv, WaitersAreBlocked, GthrTypeOK
  <2>7. WaitersInFirstSleep'
    BY <1>1, <1>2, <1>4, <2>2 DEF IInv, WaitersInFirstSleep
  <2>8. NoResurrection'
    BY <1>1, <1>4, <2>1 DEF IInv, NoResurrection, GthrTypeOK
  <2>9. QED
    BY <1>1, <1>4, <1>6, <2>1, <2>3, <2>4, <2>5, <2>6, <2>7, <2>8
       DEF IInv, PermitsConserved
<1>7. QED
  BY <1>5, <1>6

(* sem_post returns the permit of its caller, a holder since its first sleep   *)
(* is over, or hands it to the head of the queue.                              *)
LEMMA PostInv ==
  ASSUME IInv, NEW t \in Threads, Post(t)
  PROVE  IInv'
<1>1. /\ gt_current = t /\ pc[t] = "sleep2" /\ t # 0
      /\ GthrTypeOK /\ SemTypeOK /\ pc \in [Threads -> Labels] /\ ticked \in SUBSET Threads
      /\ pc' = [pc EXCEPT ![t] = "wait"]
      /\ ticked' = ticked \ {t}
      /\ sem_post
      /\ UNCHANGED <<gt_current, skip_count, timer, priority, tickets_lo, tickets_hi,
                     total_tickets, get_next_thread, todo, exited>>
  BY DEF IInv, TypeOK, Post, At, sem_post, gt_fields
<1>2. t \notin Waiting /\ Waiting \subseteq Threads
  BY <1>1, WaitingType DEF IInv, WaitersInFirstSleep
<1>3. t \in Holders /\ IsFiniteSet(Holders)
  <2>1. IsFiniteSet(Threads)
    BY FS_Interval, GthrAssumption DEF Threads
  <2>2. QED
    BY <1>1, <1>2, <2>1, FS_Subset DEF Holders, Section
<1>4. /\ pc' \in [Threads -> Labels] /\ pc'[t] = "wait" /\ pc'[0] = "none"
      /\ \A u \in Threads \ {t} : pc'[u] = pc[u]
  BY <1>1, GthrAssumption DEF IInv, Labels, Threads
<1>5. CASE queue = <<>>
  <2>1. value' = value + 1 /\ UNCHANGED <<queue, state>> /\ Waiting' = Waiting
    BY <1>1, <1>5 DEF sem_post, Waiting
  <2>2. TypeOK'
    BY <1>1, <1>4, <2>1 DEF IInv, TypeOK, GthrTypeOK, SemTypeOK
  <2>3. Holders' = Holders \ {t}
    BY <1>4, <2>1 DEF Holders, Section
  <2>4. PermitsConserved'
    <3>1. Cardinality(Holders') = Cardinality(Holders) - 1
      BY <1>3, <2>3, FS_RemoveElement
    <3>2. Cardinality(Holders) \in Nat /\ value \in Nat
      BY <1>1, <1>3, FS_CardinalityType DEF SemTypeOK
    <3>3. QED
      BY <2>1, <3>1, <3>2 DEF IInv, PermitsConserved
  <2>5. WaitersInFirstSleep' /\ NoResurrection'
    BY <1>1, <1>2, <1>4, <2>1 DEF IInv, WaitersInFirstSleep, NoResurrection
  <2>6. QED
    BY <1>1, <1>4, <1>5, <2>1, <2>2, <2>4, <2>5
       DEF IInv, RunningIsCurrent, WaitersAreBlocked, InitialThreadReady
<1>6. CASE queue # <<>>
  <2>. DEFINE h == Head(queue)
  <2>1. /\ queue' = Tail(queue) /\ state' = [state EXCEPT ![h] = "Ready"]
        /\ UNCHANGED value
    BY <1>1, <1>6 DEF sem_post
  <2>2. /\ h \in Waiting /\ h \in Threads /\ h # t
        /\ queue' \in Seq(Threads) /\ Waiting' = Waiting \ {h} /\ IsInjective(queue')
    <3>1. IsInjective(queue)
      BY DEF IInv, WaitersAreBlocked
    <3>2. queue \in Seq(Threads)
      BY <1>1 DEF SemTypeOK
    <3>3. QED
      BY <1>2, <1>6, <2>1, <3>1, <3>2, TailDropsHead, HeadTailProperties DEF Waiting
  <2>3. /\ state[h] = "Blocked" /\ pc[h] \in {"begin", "sleep1"}
        /\ h # 0
    BY <2>2 DEF IInv, WaitersAreBlocked, WaitersInFirstSleep
  <2>4. TypeOK'
    BY <1>1, <1>4, <2>1, <2>2 DEF IInv, TypeOK, GthrTypeOK, SemTypeOK, e_state
  <2>5. Holders' = (Holders \ {t}) \cup {h} /\ h \notin Holders
    BY <1>2, <1>4, <2>2, <2>3 DEF Holders, Section
  <2>6. PermitsConserved'
    <3>1. /\ IsFiniteSet(Holders \ {t})
          /\ Cardinality(Holders \ {t}) = Cardinality(Holders) - 1
      BY <1>3, FS_RemoveElement
    <3>2. Cardinality(Holders') = Cardinality(Holders \ {t}) + 1
      BY <2>5, <3>1, FS_AddElement
    <3>3. Cardinality(Holders') = Cardinality(Holders)
      BY <1>3, <3>1, <3>2, FS_CardinalityType
    <3>4. QED
      BY <2>1, <3>3 DEF IInv, PermitsConserved
  <2>7. RunningIsCurrent' /\ InitialThreadReady'
    <3>1. \A u \in Threads : state'[u] = IF u = h THEN "Ready" ELSE state[u]
      BY <1>1, <2>1, <2>2 DEF GthrTypeOK
    <3>2. RunningIsCurrent'
      BY <1>1, <2>2, <3>1 DEF IInv, RunningIsCurrent, GthrTypeOK
    <3>3. InitialThreadReady'
      BY <1>1, <2>3, <3>1, GthrAssumption DEF IInv, InitialThreadReady, Threads
    <3>4. QED
      BY <3>2, <3>3
  <2>8. WaitersAreBlocked'
    BY <1>1, <2>1, <2>2 DEF IInv, WaitersAreBlocked, GthrTypeOK
  <2>9. WaitersInFirstSleep'
    BY <1>1, <1>2, <1>4, <2>2 DEF IInv, WaitersInFirstSleep
  <2>10. NoResurrection'
    BY <1>1, <1>4, <2>1, <2>2, <2>3 DEF IInv, NoResurrection, GthrTypeOK
  <2>11. value' > 0 => queue' = <<>>
    BY <1>6, <2>1 DEF IInv
  <2>12. QED
    BY <1>1, <1>4, <2>1, <2>4, <2>6, <2>7, <2>8, <2>9, <2>10, <2>11 DEF IInv
<1>7. QED
  BY <1>5, <1>6

LEMMA NextInv ==
  ASSUME IInv, [Next]_vars
  PROVE  IInv'
<1>1. CASE CreateThread
  BY <1>1, CreateThreadInv
<1>2. CASE MainReturns
  BY <1>2, MainReturnsInv
<1>3. CASE Alarm
  BY <1>3, AlarmInv
<1>4. ASSUME NEW t \in Threads, Step(t) \/ Return(t)
      PROVE  IInv'
  BY <1>4, WaitInv, BeginEndInv, PostInv, ReturnInv DEF Step
<1>5. ASSUME UNCHANGED vars \/ \E t \in Threads : Abort(t)
      PROVE  IInv'
  <2>1. /\ UNCHANGED <<state, gt_current, skip_count, timer, priority, tickets_lo, tickets_hi,
                       total_tickets, get_next_thread, value, queue, todo, pc, ticked>>
        /\ exited' \in BOOLEAN
    BY <1>5 DEF Abort, vars, gt_vars, gt_fields, sem_vars, IInv, TypeOK
  <2>2. PermitsConserved' /\ Waiting' = Waiting
    BY <2>1, HoldersUnchanged DEF sem_vars
  <2>3. TypeOK'
    BY <2>1 DEF IInv, TypeOK, GthrTypeOK, SemTypeOK
  <2>4. QED
    BY <2>1, <2>2, <2>3
       DEF IInv, RunningIsCurrent, WaitersAreBlocked, WaitersInFirstSleep,
           InitialThreadReady, NoResurrection
<1>6. QED
  BY <1>1, <1>2, <1>3, <1>4, <1>5 DEF Next

-------------------------------------------------------------------------------
(* The invariants.                                                             *)

(* IInv holds in every state the program reaches, for any table size, number   *)
(* of priorities, list of creations and number of permits.                     *)
THEOREM Invariance == Spec => []IInv
<1>1. Init => IInv
  BY InitInv
<1>2. IInv /\ [Next]_vars => IInv'
  BY NextInv
<1>3. QED
  BY <1>1, <1>2, PTL DEF Spec

(* Every variable keeps its type: no slot index leaves the table, no priority  *)
(* its range and no skip_count its bound.                                      *)
THEOREM TypeCorrect == Spec => []TypeOK
<1>1. IInv => TypeOK
  BY DEF IInv
<1>2. QED
  BY <1>1, Invariance, PTL

(* gt_schedule leaves one thread Running, the one that executes.               *)
THEOREM RunningIsCurrentHolds == Spec => []RunningIsCurrent
<1>1. IInv => RunningIsCurrent
  BY DEF IInv
<1>2. QED
  BY <1>1, Invariance, PTL

(* The Blocked threads of the table are those of the semaphore's queue.        *)
THEOREM WaitersAreBlockedHolds == Spec => []WaitersAreBlocked
<1>1. IInv => WaitersAreBlocked
  BY DEF IInv
<1>2. QED
  BY <1>1, Invariance, PTL

(* The semaphore's value and the holders together are the initial permits.     *)
THEOREM PermitsAreConserved == Spec => []PermitsConserved
<1>1. IInv => PermitsConserved
  BY DEF IInv
<1>2. QED
  BY <1>1, Invariance, PTL

(* The initial thread can be switched to whenever another one executes.        *)
THEOREM InitialThreadIsReady == Spec => []InitialThreadReady
<1>1. IInv => InitialThreadReady
  BY DEF IInv
<1>2. QED
  BY <1>1, Invariance, PTL

(* No thread that has ended is switched to again.                              *)
THEOREM NoThreadResurrected == Spec => []NoResurrection
<1>1. IInv => NoResurrection
  BY DEF IInv
<1>2. QED
  BY <1>1, Invariance, PTL

-------------------------------------------------------------------------------
(* The permit.                                                                 *)

(* sem_wait makes its caller a holder only if nobody waits.                    *)
LEMMA WaitHolders ==
  ASSUME IInv, NEW t \in Threads, Wait(t), queue # <<>>
  PROVE  Holders' = Holders
<1>1. /\ gt_current = t /\ pc[t] = "wait" /\ queue' = Append(queue, t)
      /\ pc' = [pc EXCEPT ![t] = "begin"] /\ pc \in [Threads -> Labels]
      /\ queue \in Seq(Threads)
  BY DEF IInv, TypeOK, SemTypeOK, Wait, At, sem_wait
<1>2. Waiting' = Waiting \cup {t}
  BY <1>1, AppendRange DEF Waiting
<1>3. t \notin Holders
  BY <1>1 DEF Holders, Section
<1>4. QED
  BY <1>1, <1>2, <1>3 DEF Holders

(* sem_post makes the head of the queue a holder, and nobody else.             *)
LEMMA PostHolders ==
  ASSUME IInv, NEW t \in Threads, Post(t), queue # <<>>
  PROVE  Holders' \subseteq Holders \cup {Head(queue)}
<1>1. /\ pc' = [pc EXCEPT ![t] = "wait"] /\ pc \in [Threads -> Labels]
      /\ queue' = Tail(queue) /\ queue \in Seq(Threads) /\ IsInjective(queue)
  BY DEF IInv, TypeOK, SemTypeOK, WaitersAreBlocked, Post, sem_post
<1>2. Waiting' = Waiting \ {Head(queue)}
  BY <1>1, TailDropsHead DEF Waiting
<1>3. QED
  BY <1>1, <1>2 DEF Holders, Section

(* Whoever becomes a holder while others wait has been the first of them.      *)
THEOREM NobodyOvertakes == Spec => NoBarging
<1>. DEFINE InTurn == \A t \in Threads :
                        t \in Holders' \ Holders /\ queue # <<>> => t = Head(queue)
<1>1. ASSUME IInv, [Next]_vars, queue # <<>>
      PROVE  Holders' \subseteq Holders \cup {Head(queue)}
  <2>0. pc \in [Threads -> Labels]
    BY <1>1 DEF IInv, TypeOK
  <2>1. ASSUME UNCHANGED sem_vars,
               \A t \in Threads : pc'[t] \in Section <=> pc[t] \in Section
        PROVE  Holders' = Holders
    BY <1>1, <2>1, HoldersUnchanged
  <2>2. CASE CreateThread
    <3>1. CASE UNCHANGED pc
      BY <2>1, <2>2, <3>1 DEF CreateThread
    <3>2. ASSUME NEW p \in Threads, CreateIn(p, Head(todo)), pc' = [pc EXCEPT ![p] = "wait"]
          PROVE  Holders' = Holders
      <4>1. state[p] = "Unused" /\ p # 0
        BY <1>1, <2>2, <3>2
           DEF IInv, CreateThread, CreateIn, FreeSlots, RunningIsCurrent
      <4>2. pc[p] = "none"
        BY <1>1, <4>1 DEF IInv, NoResurrection
      <4>3. QED
        BY <2>0, <2>1, <2>2, <3>2, <4>2 DEF CreateThread, Section
    <3>3. QED
      BY <2>2, <3>1, <3>2 DEF CreateThread
  <2>3. CASE MainReturns \/ Alarm
    BY <2>1, <2>3 DEF MainReturns, Alarm
  <2>4. ASSUME NEW t \in Threads, Begin(t) \/ End(t) \/ Return(t) \/ Abort(t)
        PROVE  Holders' = Holders
    BY <2>0, <2>1, <2>4 DEF Begin, End, Return, Abort, At, Section
  <2>5. ASSUME NEW t \in Threads, Wait(t)
        PROVE  Holders' = Holders
    BY <1>1, <2>5, WaitHolders
  <2>6. ASSUME NEW t \in Threads, Post(t)
        PROVE  Holders' \subseteq Holders \cup {Head(queue)}
    BY <1>1, <2>6, PostHolders
  <2>7. CASE UNCHANGED vars
    BY <2>1, <2>7 DEF vars
  <2>8. QED
    BY <1>1, <2>2, <2>3, <2>4, <2>5, <2>6, <2>7 DEF Next, Step
<1>2. IInv /\ [Next]_vars => [InTurn]_vars
  BY <1>1
<1>3. Spec => [][InTurn]_vars
  BY <1>2, Invariance, PTL DEF Spec
<1>4. QED
  BY <1>3 DEF NoBarging

-------------------------------------------------------------------------------
(* The table from one step to the next.                                        *)

(* A switch leaves priorities and tickets alone and the same slots unused.     *)
LEMMA SwitchKeeps ==
  ASSUME IInv, MainReturns \/ Alarm
  PROVE  /\ UNCHANGED gt_fields
         /\ \A t \in Threads : state'[t] = "Unused" <=> state[t] = "Unused"
<1>1. gt_schedule(state) /\ UNCHANGED sem_vars /\ state \in [Threads -> e_state]
  BY DEF MainReturns, Alarm, IInv, TypeOK, GthrTypeOK
<1>2. \A t \in Threads : state'[t] = "Unused" <=> state[t] = "Unused"
  BY <1>1, SwitchInv
<1>3. QED
  BY <1>1, <1>2 DEF gt_schedule

(* The end of a thread releases its own slot only.                             *)
LEMMA ReturnKeeps ==
  ASSUME IInv, NEW t \in Threads, Return(t)
  PROVE  /\ UNCHANGED gt_fields
         /\ \A u \in Threads : state'[u] = "Unused" <=> u = t \/ state[u] = "Unused"
<1>. DEFINE st == [state EXCEPT ![t] = "Unused"]
<1>1. /\ gt_schedule(st) /\ gt_current = t /\ pc[t] = "wait"
      /\ state \in [Threads -> e_state] /\ st \in [Threads -> e_state]
      /\ UNCHANGED sem_vars
  BY DEF IInv, TypeOK, GthrTypeOK, Return, At, e_state
<1>2. t # 0 /\ t \notin Waiting
  BY <1>1 DEF IInv, WaitersInFirstSleep
<1>3. \A u \in Threads : st[u] = IF u = t THEN "Unused" ELSE state[u]
  BY <1>1
<1>4. \A u \in Threads : state'[u] = "Unused" <=> st[u] = "Unused"
  BY <1>1, <1>2, <1>3, SwitchInv
<1>5. QED
  BY <1>1, <1>3, <1>4 DEF gt_schedule

(* The steps of f, and the end of the process, leave both alone.               *)
LEMMA StepKeeps ==
  ASSUME IInv, (\E t \in Threads : Step(t) \/ Abort(t)) \/ UNCHANGED vars
  PROVE  /\ UNCHANGED <<gt_fields, skip_count>>
         /\ \A t \in Threads : state'[t] = "Unused" <=> state[t] = "Unused"
<1>0. /\ state \in [Threads -> e_state] /\ queue \in Seq(Threads)
      /\ state[gt_current] # "Unused" /\ gt_current \in Threads
  BY DEF IInv, TypeOK, GthrTypeOK, SemTypeOK, RunningIsCurrent
<1>1. ASSUME NEW t \in Threads, Wait(t)
      PROVE  /\ UNCHANGED <<gt_fields, skip_count>>
             /\ state' = state \/ state' = [state EXCEPT ![gt_current] = "Blocked"]
  BY <1>1 DEF Wait, sem_wait
<1>2. ASSUME NEW t \in Threads, Post(t)
      PROVE  /\ UNCHANGED <<gt_fields, skip_count>>
             /\ state' = state \/ (queue # <<>> /\ state' = [state EXCEPT ![Head(queue)] = "Ready"])
  BY <1>2 DEF Post, sem_post
<1>3. ASSUME NEW t \in Threads, Begin(t) \/ End(t) \/ Abort(t)
      PROVE  UNCHANGED <<gt_fields, skip_count, state>>
  BY <1>3 DEF Begin, End, Abort, gt_vars
<1>4. CASE UNCHANGED vars
  BY <1>4 DEF vars, gt_vars
<1>5. queue # <<>> => Head(queue) \in Threads /\ state[Head(queue)] # "Unused"
  <2>1. SUFFICES ASSUME queue # <<>>
                 PROVE  Head(queue) \in Threads /\ state[Head(queue)] # "Unused"
    OBVIOUS
  <2>2. Head(queue) \in Waiting /\ Head(queue) \in Threads
    BY <1>0, <2>1, HeadAndTail, QueueTypes DEF Waiting
  <2>3. QED
    BY <2>2 DEF IInv, WaitersAreBlocked
<1>6. QED
  BY <1>0, <1>1, <1>2, <1>3, <1>4, <1>5 DEF Step

-------------------------------------------------------------------------------
(* The tickets.                                                                *)

(* gt_create gives its slot the tickets from total_tickets on, at least one.   *)
LEMMA CreateTickets ==
  ASSUME IInv, NEW p \in Threads, NEW prio \in Int, CreateIn(p, prio), TicketsDisjoint
  PROVE  TicketsDisjoint'
<1>. DEFINE k == MinPriority - Clamp(prio)
<1>1. /\ state \in [Threads -> e_state] /\ tickets_lo \in [Threads -> Nat]
      /\ tickets_hi \in [Threads -> Nat] /\ total_tickets \in Nat
  BY DEF IInv, TypeOK, GthrTypeOK
<1>2. k \in Nat
  BY GthrAssumption DEF Clamp, MaxPriority
<1>. HIDE DEF k
<1>3. /\ tickets_lo' = [tickets_lo EXCEPT ![p] = total_tickets]
      /\ tickets_hi' = [tickets_hi EXCEPT ![p] = total_tickets + k]
      /\ total_tickets' = total_tickets + k + 1
      /\ state' = [state EXCEPT ![p] = "Ready"]
  BY DEF CreateIn, k
<1>4. ASSUME NEW t \in Threads, state'[t] # "Unused"
      PROVE  /\ tickets_lo'[t] <= tickets_hi'[t]
             /\ tickets_hi'[t] < total_tickets'
             /\ t # p => tickets_hi'[t] < tickets_lo'[p]
  <2>1. CASE t = p
    BY <1>1, <1>2, <1>3, <2>1
  <2>2. CASE t # p
    BY <1>1, <1>2, <1>3, <1>4, <2>2 DEF TicketsDisjoint
  <2>3. QED
    BY <2>1, <2>2
<1>5. ASSUME NEW t \in Threads \ {p}, NEW u \in Threads \ {p, t},
             state'[t] # "Unused", state'[u] # "Unused"
      PROVE  tickets_hi'[t] < tickets_lo'[u] \/ tickets_hi'[u] < tickets_lo'[t]
  BY <1>1, <1>3, <1>5 DEF TicketsDisjoint
<1>6. QED
  BY <1>4, <1>5 DEF TicketsDisjoint

(* No two threads own the same ticket, and no thread is without one.           *)
THEOREM TicketsAreDisjoint == Spec => []TicketsDisjoint
<1>1. Init => TicketsDisjoint
  <2>1. SUFFICES ASSUME Init PROVE TicketsDisjoint
    OBVIOUS
  <2>2. /\ \A t \in Threads : state[t] # "Unused" => t = 0
        /\ 0 \in Threads => tickets_lo[0] = 0 /\ tickets_hi[0] = MinPriority
        /\ total_tickets = MinPriority + 1
    BY <2>1 DEF Init, gt_init, MaxPriority
  <2>3. QED
    BY <2>2, GthrAssumption DEF TicketsDisjoint
<1>2. ASSUME IInv, TicketsDisjoint, [Next]_vars
      PROVE  TicketsDisjoint'
  <2>1. ASSUME UNCHANGED gt_fields,
               \A t \in Threads : state[t] = "Unused" => state'[t] = "Unused"
        PROVE  TicketsDisjoint'
    BY <1>2, <2>1 DEF TicketsDisjoint, gt_fields
  <2>2. CASE CreateThread
    <3>1. Head(todo) \in Int
      BY <1>2, <2>2, HeadTailProperties DEF IInv, TypeOK, CreateThread
    <3>2. CASE UNCHANGED gt_vars
      BY <2>1, <3>2 DEF gt_vars
    <3>3. QED
      BY <1>2, <2>2, <3>1, <3>2, CreateTickets DEF CreateThread
  <2>3. CASE MainReturns \/ Alarm
    BY <1>2, <2>1, <2>3, SwitchKeeps
  <2>4. CASE \E t \in Threads : Return(t)
    BY <1>2, <2>1, <2>4, ReturnKeeps
  <2>5. CASE (\E t \in Threads : Step(t) \/ Abort(t)) \/ UNCHANGED vars
    BY <1>2, <2>1, <2>5, StepKeeps
  <2>6. QED
    BY <1>2, <2>2, <2>3, <2>4, <2>5 DEF Next
<1>3. QED
  BY <1>1, <1>2, Invariance, PTL DEF Spec

-------------------------------------------------------------------------------
(* Aging.                                                                      *)

(* A search ends in its first pass over the table: at the initial thread, for  *)
(* which no skip is needed, or back at it when it is gt_current.               *)
LEMMA FirstPass ==
  ASSUME GthrTypeOK, NEW st, priority[0] = MaxPriority,
         gt_current # 0 => st[0] = "Ready",
         gt_current = 0 => st[0] = "Running"
  PROVE  LET toZero == MaxGThreads - gt_current IN
         /\ toZero \in 1 .. MaxGThreads
         /\ Slot(toZero) = 0
         /\ EndsPrio(st, toZero)
<1>. DEFINE toZero == MaxGThreads - gt_current
<1>1. /\ MaxGThreads \in Nat \ {0}
      /\ gt_current \in 0 .. MaxGThreads - 1
      /\ 0 \in Threads /\ gt_current \in Threads
  BY GthrAssumption DEF GthrTypeOK, Threads
<1>2. toZero \in 1 .. MaxGThreads /\ Slot(toZero) = 0
  BY <1>1, SlotInFirstPass
<1>3. EndsPrio(st, toZero)
  <2>1. CASE gt_current = 0
    BY <1>2, <2>1 DEF EndsPrio
  <2>2. CASE gt_current # 0
    <3>1. toZero - 1 \in 0 .. MaxGThreads - 1
      BY <1>1
    <3>2. Pass(toZero) = 0
      BY <1>1, <3>1 DEF Pass
    <3>3. skip_count[0] \in Nat
      BY <1>1 DEF GthrTypeOK
    <3>4. QED
      BY <1>2, <2>2, <3>2, <3>3 DEF EndsPrio, Eligible, MaxPriority
  <2>3. QED
    BY <2>1, <2>2
<1>4. QED
  BY <1>2, <1>3

(* In one pass over the table a slot is looked at once at most.                *)
LEMMA LooksOnce ==
  ASSUME gt_current \in Threads, NEW n \in 1 .. MaxGThreads, NEW t \in Threads
  PROVE  \/ Looks(t, n) = 0
         \/ Looks(t, n) = 1 /\ \E m \in 1 .. n : Slot(m) = t
<1>. DEFINE looks == {m \in 1 .. n : Slot(m) = t}
<1>0. MaxGThreads \in Nat \ {0}
  BY GthrAssumption
<1>1. ASSUME NEW m \in looks, NEW l \in looks
      PROVE  m = l
  BY <1>0, <1>1, SlotInFirstPass DEF Threads
<1>2. CASE looks = {}
  BY <1>2, FS_EmptySet DEF Looks
<1>3. CASE looks # {}
  <2>1. PICK m : m \in looks
    BY <1>3
  <2>2. looks = {m}
    BY <1>1, <2>1
  <2>3. Cardinality(looks) = 1
    BY <2>2, FS_Singleton
  <2>4. QED
    BY <2>1, <2>3 DEF Looks
<1>4. QED
  BY <1>2, <1>3

(* A search by priority leaves no Ready thread with more skips than its        *)
(* priority number: the look that would exceed it chooses the thread.          *)
LEMMA SearchAges ==
  ASSUME GthrTypeOK, NEW st, priority[0] = MaxPriority,
         NEW p \in Threads, round_robin_prio(st, p),
         st \in [Threads -> e_state],
         gt_current # 0 => st[0] = "Ready",
         gt_current = 0 => st[0] = "Running",
         \A u \in Threads : st[u] = "Running" => u = gt_current,
         NEW t \in Threads \ {0}, st[t] # "Unused",
         skip_count[t] <= priority[t]
  PROVE  skip_count'[t] <= priority[t]
<1>. DEFINE toZero == MaxGThreads - gt_current
<1>1. /\ MaxGThreads \in Nat \ {0}
      /\ gt_current \in 0 .. MaxGThreads - 1
      /\ gt_current \in Threads
      /\ skip_count[t] \in Nat /\ priority[t] \in Nat
  BY GthrAssumption DEF GthrTypeOK, Threads, MaxPriority
<1>2. /\ toZero \in 1 .. MaxGThreads
      /\ Slot(toZero) = 0
      /\ EndsPrio(st, toZero)
  BY FirstPass
<1>3. PICK n \in 1 .. MaxGThreads * (MinPriority + 1) :
        /\ p = Slot(n)
        /\ EndsPrio(st, n)
        /\ \A m \in 1 .. n - 1 : ~EndsPrio(st, m)
        /\ skip_count' = [u \in Threads |->
                            IF u = p /\ Eligible(st, n) THEN 0
                            ELSE IF st[u] = "Blocked" THEN skip_count[u]
                            ELSE Skipped(u, n)]
  BY DEF round_robin_prio
<1>4. n \in 1 .. MaxGThreads /\ n <= toZero
  <2>1. n \in Int /\ n >= 1
    BY <1>3, GthrAssumption
  <2>2. ~(toZero \in 1 .. n - 1)
    BY <1>2, <1>3
  <2>3. QED
    BY <1>1, <1>2, <2>1, <2>2
<1>5. ASSUME NEW m \in 1 .. n, Slot(m) = t
      PROVE  m # toZero /\ t # gt_current
  <2>1. m \in 0 .. MaxGThreads
    BY <1>1, <1>4
  <2>2. Slot(m) = IF gt_current + m < MaxGThreads THEN gt_current + m
                  ELSE gt_current + m - MaxGThreads
    BY <1>1, <2>1, SlotInFirstPass
  <2>3. QED
    BY <1>1, <1>2, <1>4, <1>5, <2>2
<1>6. ASSUME NEW m \in 1 .. n, Slot(m) = t, ~Eligible(st, m), st[t] # "Blocked"
      PROVE  skip_count[t] + 1 <= priority[t]
  <2>1. st[t] = "Ready"
    BY <1>5, <1>6 DEF e_state
  <2>2. Pass(m) = 0
    <3>1. m - 1 \in 0 .. MaxGThreads - 1
      BY <1>1, <1>4
    <3>2. QED
      BY <1>1, <3>1 DEF Pass
  <2>3. QED
    BY <1>1, <1>6, <2>1, <2>2 DEF Eligible, MaxPriority
<1>7. CASE t = p /\ Eligible(st, n)
  BY <1>1, <1>3, <1>7
<1>8. CASE st[t] = "Blocked"
  BY <1>1, <1>3, <1>8
<1>9. CASE ~(t = p /\ Eligible(st, n)) /\ st[t] # "Blocked"
  <2>1. skip_count'[t] = Skipped(t, n)
    BY <1>3, <1>9
  <2>2. Looks(t, n) = 0 \/ (Looks(t, n) = 1 /\ \E m \in 1 .. n : Slot(m) = t)
    BY <1>1, <1>4, LooksOnce
  <2>3. CASE Looks(t, n) = 0
    BY <1>1, <2>1, <2>3, GthrAssumption DEF Skipped
  <2>4. ASSUME NEW m \in 1 .. n, Slot(m) = t, Looks(t, n) = 1
        PROVE  skip_count'[t] <= priority[t]
    <3>1. ~Eligible(st, m)
      <4>1. CASE m = n
        BY <1>3, <1>9, <2>4, <4>1
      <4>2. CASE m # n
        <5>1. m \in 1 .. n - 1
          BY <1>4, <4>2
        <5>2. QED
          BY <1>3, <5>1 DEF EndsPrio
      <4>3. QED
        BY <4>1, <4>2
    <3>2. skip_count[t] + 1 <= priority[t]
      BY <1>6, <1>9, <2>4, <3>1
    <3>3. QED
      BY <1>1, <2>1, <2>4, <3>2, GthrAssumption DEF Skipped
  <2>5. QED
    BY <2>2, <2>3, <2>4
<1>10. QED
  BY <1>7, <1>8, <1>9

LEMMA Indices ==
  ASSUME GthrTypeOK
  PROVE  gt_current \in Threads /\ 0 \in Threads
BY GthrAssumption DEF GthrTypeOK, Threads

(* A switch from the table st, as in SwitchInv, keeps the bound of aging.      *)
LEMMA SwitchAges ==
  ASSUME IInv, AgingBound,
         NEW st \in [Threads -> e_state], gt_schedule(st),
         \A t \in Threads : st[t] = state[t]
                           \/ (t = gt_current /\ t # 0 /\ st[t] = "Unused"),
         NEW t \in Threads \ {0}, st[t] # "Unused"
  PROVE  skip_count'[t] <= priority'[t]
<1>1. PICK p \in Threads : GetNext(st, p)
  BY DEF gt_schedule
<1>2. skip_count[t] <= priority[t] /\ UNCHANGED priority
  BY DEF AgingBound, gt_schedule, gt_fields
<1>3. /\ GthrTypeOK /\ priority[0] = MaxPriority
      /\ gt_current \in Threads /\ 0 \in Threads
  <2>1. GthrTypeOK /\ priority[0] = MaxPriority
    BY DEF IInv, TypeOK
  <2>2. QED
    BY <2>1, Indices
<1>4. 0 \notin Waiting /\ state[0] # "Blocked"
  <2>1. 0 \notin Waiting
    BY DEF IInv, WaitersInFirstSleep
  <2>2. QED
    BY <1>3, <2>1 DEF IInv, WaitersAreBlocked
<1>5. /\ gt_current # 0 => st[0] = "Ready"
      /\ gt_current = 0 => st[0] = "Running"
      /\ \A u \in Threads : st[u] = "Running" => u = gt_current
  BY <1>3, <1>4 DEF IInv, RunningIsCurrent, InitialThreadReady
<1>6. CASE UNCHANGED skip_count
  BY <1>2, <1>6
<1>7. CASE \E q \in Threads : round_robin_prio(st, q)
  BY <1>2, <1>3, <1>5, <1>7, SearchAges
<1>8. QED
  BY <1>6, <1>7 DEF gt_schedule, GetNext

(* No thread is passed over more often than its priority number says.          *)
THEOREM AgingIsBounded == Spec => []AgingBound
<1>1. Init => AgingBound
  BY DEF Init, gt_init, AgingBound
<1>2. ASSUME IInv, AgingBound, [Next]_vars
      PROVE  AgingBound'
  <2>0. /\ state \in [Threads -> e_state] /\ skip_count \in [Threads -> 0 .. IntMax]
        /\ priority \in [Threads -> MaxPriority .. MinPriority] /\ todo \in Seq(Int)
    BY <1>2 DEF IInv, TypeOK, GthrTypeOK
  <2>1. ASSUME UNCHANGED <<gt_fields, skip_count>>,
               \A t \in Threads : state[t] = "Unused" => state'[t] = "Unused"
        PROVE  AgingBound'
    BY <1>2, <2>1 DEF AgingBound, gt_fields
  <2>2. CASE CreateThread
    <3>1. CASE UNCHANGED gt_vars
      BY <2>1, <3>1 DEF gt_vars
    <3>2. ASSUME NEW p \in Threads, CreateIn(p, Head(todo))
          PROVE  AgingBound'
      <4>1. Head(todo) \in Int
        BY <2>0, <2>2, HeadTailProperties DEF CreateThread
      <4>2. Clamp(Head(todo)) >= 0
        BY <4>1, GthrAssumption DEF Clamp, MaxPriority
      <4>3. /\ state' = [state EXCEPT ![p] = "Ready"]
            /\ skip_count' = [skip_count EXCEPT ![p] = 0]
            /\ priority' = [priority EXCEPT ![p] = Clamp(Head(todo))]
        BY <3>2 DEF CreateIn
      <4>4. ASSUME NEW t \in Threads \ {0}, state'[t] # "Unused"
            PROVE  skip_count'[t] <= priority'[t]
        BY <1>2, <2>0, <4>2, <4>3, <4>4 DEF AgingBound
      <4>5. QED
        BY <4>4 DEF AgingBound
    <3>3. QED
      BY <2>2, <3>1, <3>2 DEF CreateThread
  <2>3. CASE MainReturns \/ Alarm
    <3>1. gt_schedule(state)
      BY <2>3 DEF MainReturns, Alarm
    <3>2. ASSUME NEW t \in Threads \ {0}, state[t] # "Unused"
          PROVE  skip_count'[t] <= priority'[t]
      BY <1>2, <2>0, <3>1, <3>2, SwitchAges
    <3>3. \A t \in Threads : state'[t] = "Unused" <=> state[t] = "Unused"
      BY <1>2, <2>3, SwitchKeeps
    <3>4. QED
      BY <3>2, <3>3 DEF AgingBound
  <2>4. ASSUME NEW r \in Threads, Return(r)
        PROVE  AgingBound'
    <3>. DEFINE st == [state EXCEPT ![r] = "Unused"]
    <3>1. /\ gt_schedule(st) /\ gt_current = r /\ r # 0
          /\ st \in [Threads -> e_state]
          /\ \A u \in Threads : st[u] = IF u = r THEN "Unused" ELSE state[u]
      BY <1>2, <2>0, <2>4 DEF Return, At, IInv, e_state
    <3>2. ASSUME NEW t \in Threads \ {0}, st[t] # "Unused"
          PROVE  skip_count'[t] <= priority'[t]
      BY <1>2, <3>1, <3>2, SwitchAges
    <3>3. \A u \in Threads : state'[u] = "Unused" <=> u = r \/ state[u] = "Unused"
      BY <1>2, <2>4, ReturnKeeps
    <3>4. QED
      BY <3>1, <3>2, <3>3 DEF AgingBound
  <2>5. CASE (\E t \in Threads : Step(t) \/ Abort(t)) \/ UNCHANGED vars
    BY <1>2, <2>1, <2>5, StepKeeps
  <2>6. QED
    BY <1>2, <2>2, <2>3, <2>4, <2>5 DEF Next
<1>3. QED
  BY <1>1, <1>2, Invariance, PTL DEF Spec
===============================================================================
