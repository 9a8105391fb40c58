----------------------------- MODULE GthrStatsProofs -----------------------------
(*******************************************************************************)
(* Proofs about GthrStats: the arithmetic on struct timeval, and what the      *)
(* statistics of a thread say together, for any clock.                         *)
(*******************************************************************************)
EXTENDS GthrStats, GthrDemoProofs

-------------------------------------------------------------------------------
(* struct timeval.                                                             *)

(* The borrow and the carry keep a time normalised and its value right.        *)
LEMMA SubtractIsExact ==
  ASSUME NEW x \in Timeval, NEW y \in Timeval, Micros(y) <= Micros(x)
  PROVE  /\ timeval_subtract(x, y) \in Timeval
         /\ Micros(timeval_subtract(x, y)) = Micros(x) - Micros(y)
<1>. DEFINE d == timeval_subtract(x, y)
<1>1. /\ x.tv_sec \in Nat /\ x.tv_usec \in Nat /\ x.tv_usec < 1000000
      /\ y.tv_sec \in Nat /\ y.tv_usec \in Nat /\ y.tv_usec < 1000000
      /\ y.tv_sec * 1000000 + y.tv_usec <= x.tv_sec * 1000000 + x.tv_usec
  BY SMT DEF Timeval, Micros
<1>2. CASE x.tv_usec < y.tv_usec
  <2>1. d = [tv_sec |-> x.tv_sec - y.tv_sec - 1, tv_usec |-> x.tv_usec - y.tv_usec + 1000000]
    BY <1>2, SMT DEF timeval_subtract
  <2>2. /\ x.tv_sec - y.tv_sec - 1 \in Nat /\ x.tv_usec - y.tv_usec + 1000000 \in Nat
        /\ x.tv_usec - y.tv_usec + 1000000 < 1000000
    BY <1>1, <1>2, SMT
  <2>3. QED
    BY <1>1, <2>1, <2>2, SMT DEF Timeval, Micros
<1>3. CASE ~(x.tv_usec < y.tv_usec)
  <2>1. d = [tv_sec |-> x.tv_sec - y.tv_sec, tv_usec |-> x.tv_usec - y.tv_usec]
    BY <1>3, SMT DEF timeval_subtract
  <2>2. /\ x.tv_sec - y.tv_sec \in Nat /\ x.tv_usec - y.tv_usec \in Nat
        /\ x.tv_usec - y.tv_usec < 1000000
    BY <1>1, <1>3, SMT
  <2>3. QED
    BY <1>1, <2>1, <2>2, SMT DEF Timeval, Micros
<1>4. QED
  BY <1>2, <1>3

LEMMA AddIsExact ==
  ASSUME NEW x \in Timeval, NEW y \in Timeval
  PROVE  /\ timeval_add(x, y) \in Timeval
         /\ Micros(timeval_add(x, y)) = Micros(x) + Micros(y)
<1>. DEFINE s == timeval_add(x, y)
<1>1. /\ x.tv_sec \in Nat /\ x.tv_usec \in Nat /\ x.tv_usec < 1000000
      /\ y.tv_sec \in Nat /\ y.tv_usec \in Nat /\ y.tv_usec < 1000000
  BY SMT DEF Timeval
<1>2. CASE x.tv_usec + y.tv_usec >= 1000000
  <2>1. s = [tv_sec |-> x.tv_sec + y.tv_sec + 1, tv_usec |-> x.tv_usec + y.tv_usec - 1000000]
    BY <1>2, SMT DEF timeval_add
  <2>2. /\ x.tv_sec + y.tv_sec + 1 \in Nat /\ x.tv_usec + y.tv_usec - 1000000 \in Nat
        /\ x.tv_usec + y.tv_usec - 1000000 < 1000000
    BY <1>1, <1>2, SMT
  <2>3. QED
    BY <1>1, <2>1, <2>2, SMT DEF Timeval, Micros
<1>3. CASE ~(x.tv_usec + y.tv_usec >= 1000000)
  <2>1. s = [tv_sec |-> x.tv_sec + y.tv_sec, tv_usec |-> x.tv_usec + y.tv_usec]
    BY <1>3, SMT DEF timeval_add
  <2>2. /\ x.tv_sec + y.tv_sec \in Nat /\ x.tv_usec + y.tv_usec \in Nat
        /\ x.tv_usec + y.tv_usec < 1000000
    BY <1>1, <1>3, SMT
  <2>3. QED
    BY <1>1, <2>1, <2>2, SMT DEF Timeval, Micros
<1>4. QED
  BY <1>2, <1>3

(* The comparison of seconds and then microseconds orders times by their value. *)
LEMMA ShorterIsLess ==
  ASSUME NEW x \in Timeval, NEW y \in Timeval
  PROVE  /\ Shorter(x, y) <=> Micros(x) < Micros(y)
         /\ x = zero <=> Micros(x) = 0
         /\ Micros(x) \in Nat
<1>1. /\ x.tv_sec \in Nat /\ x.tv_usec \in Nat /\ x.tv_usec < 1000000
      /\ y.tv_sec \in Nat /\ y.tv_usec \in Nat /\ y.tv_usec < 1000000
      /\ x = [tv_sec |-> x.tv_sec, tv_usec |-> x.tv_usec]
  BY SMT DEF Timeval
<1>2. Shorter(x, y) <=> Micros(x) < Micros(y)
  BY <1>1, SMT DEF Shorter, Micros
<1>3. Micros(x) \in Nat /\ (Micros(x) = 0 <=> x.tv_sec = 0 /\ x.tv_usec = 0)
  BY <1>1, SMT DEF Micros
<1>4. QED
  BY <1>1, <1>2, <1>3, SMT DEF zero

-------------------------------------------------------------------------------
(* The statistics of one thread.                                               *)

Fits(s) ==
  /\ Micros(s.min) <= Micros(s.max)
  /\ Micros(s.max) <= Micros(s.total)
  /\ Micros(s.total) <= s.count * Micros(s.max)

LEMMA Product ==
  ASSUME NEW n \in Nat, NEW a \in Nat, NEW b \in Nat, NEW c \in Nat, NEW e \in Nat,
         a <= n * b, b <= c, e <= c
  PROVE  a + e <= (n + 1) * c
<1>1. n * b <= n * c
  OBVIOUS
<1>2. (n + 1) * c = n * c + c
  OBVIOUS
<1>3. n * b \in Nat /\ n * c \in Nat
  OBVIOUS
<1>4. QED
  BY <1>1, <1>2, <1>3

(* One slice more: the total grows by it, and the extremes still fit.          *)
LEMMA SliceKeeps ==
  ASSUME NEW s \in Slices, NEW tv \in Timeval, Fits(s)
  PROVE  /\ WithSlice(s, tv) \in Slices
         /\ Micros(WithSlice(s, tv).total) = Micros(s.total) + Micros(tv)
         /\ Fits(WithSlice(s, tv))
<1>. DEFINE r == WithSlice(s, tv)
<1>1. /\ s.total \in Timeval /\ s.count \in Nat /\ s.min \in Timeval /\ s.max \in Timeval
  BY DEF Slices
<1>2. /\ r.total = timeval_add(s.total, tv) /\ r.count = s.count + 1
      /\ r.min = Shortest(s.min, tv) /\ r.max = Longest(s.max, tv)
      /\ r = [total |-> r.total, count |-> r.count, min |-> r.min, max |-> r.max]
  BY DEF WithSlice
<1>. HIDE DEF r
<1>3. r.total \in Timeval /\ Micros(r.total) = Micros(s.total) + Micros(tv)
  BY <1>1, <1>2, AddIsExact
<1>4. /\ r.min \in {s.min, tv} /\ r.max \in {s.max, tv}
      /\ r.min \in Timeval /\ r.max \in Timeval
  BY <1>1, <1>2 DEF Shortest, Longest
<1>5. r \in Slices
  BY <1>1, <1>2, <1>3, <1>4 DEF Slices
<1>6. /\ Micros(s.total) \in Nat /\ Micros(tv) \in Nat
      /\ Micros(s.min) \in Nat /\ Micros(s.max) \in Nat
      /\ Micros(r.min) \in Nat /\ Micros(r.max) \in Nat
  BY <1>1, <1>4, ShorterIsLess
<1>7. Micros(s.max) <= Micros(r.max) /\ Micros(tv) <= Micros(r.max)
  <2>1. CASE s.max = zero
    BY <1>1, <1>2, <1>6, <2>1, ShorterIsLess DEF Longest
  <2>2. CASE s.max # zero
    BY <1>1, <1>2, <1>6, <2>2, ShorterIsLess DEF Longest
  <2>3. QED
    BY <2>1, <2>2
<1>8. Micros(r.min) <= Micros(r.max)
  BY <1>4, <1>6, <1>7 DEF Fits
<1>9. Micros(r.max) <= Micros(r.total)
  BY <1>3, <1>4, <1>6 DEF Fits
<1>10. Micros(r.total) <= r.count * Micros(r.max)
  <2>1. Micros(s.total) <= s.count * Micros(s.max)
    BY DEF Fits
  <2>2. Micros(s.total) + Micros(tv) <= (s.count + 1) * Micros(r.max)
    BY <1>1, <1>6, <1>7, <2>1, Product
  <2>3. QED
    BY <1>2, <1>3, <2>2
<1>11. QED
  BY <1>3, <1>5, <1>8, <1>9, <1>10 DEF Fits, r

ThreadStats ==
  [creation_time : Timeval, last_state_change : Timeval, running : Slices, waiting : Slices]

(* What holds of a thread's statistics s at the time tv.                       *)
Accounts(s) ==
  Micros(s.running.total) + Micros(s.waiting.total)
    = Micros(s.last_state_change) - Micros(s.creation_time)

Consistent(s, tv) ==
  /\ s \in ThreadStats
  /\ Accounts(s)
  /\ Fits(s.running) /\ Fits(s.waiting)
  /\ Micros(s.last_state_change) <= Micros(tv)

(* A change of state, unless it is out of Unused with an old last change.      *)
LEMMA UpdateKeeps ==
  ASSUME NEW s, Consistent(s, now), now \in Timeval, NEW from, NEW to,
         from = to \/ from \in {"Running", "Ready", "Blocked"} \/ s.last_state_change = now
  PROVE  Consistent(update_thread_state(s, from, to), now)
<1>. DEFINE r == update_thread_state(s, from, to)
            elapsed == timeval_subtract(now, s.last_state_change)
<1>1. /\ s.creation_time \in Timeval /\ s.last_state_change \in Timeval
      /\ s.running \in Slices /\ s.waiting \in Slices
      /\ s.running.total \in Timeval /\ s.waiting.total \in Timeval
  BY DEF Consistent, ThreadStats, Slices
<1>2. /\ elapsed \in Timeval
      /\ Micros(elapsed) = Micros(now) - Micros(s.last_state_change)
  BY <1>1, SubtractIsExact DEF Consistent
<1>. HIDE DEF elapsed
<1>3. /\ Micros(now) \in Nat /\ Micros(s.last_state_change) \in Nat
      /\ Micros(s.creation_time) \in Nat
      /\ Micros(s.running.total) \in Nat /\ Micros(s.waiting.total) \in Nat
  BY <1>1, ShorterIsLess
<1>4. CASE from = to
  BY <1>4 DEF update_thread_state
<1>5. CASE from # to
  <2>1. r = [s EXCEPT !.last_state_change = now,
                      !.running = IF from = "Running" THEN WithSlice(@, elapsed) ELSE @,
                      !.waiting = IF from \in {"Ready", "Blocked"} THEN WithSlice(@, elapsed) ELSE @]
    BY <1>5 DEF update_thread_state, elapsed
  <2>2. /\ r.creation_time = s.creation_time /\ r.last_state_change = now
        /\ r.running = IF from = "Running" THEN WithSlice(s.running, elapsed) ELSE s.running
        /\ r.waiting = IF from \in {"Ready", "Blocked"} THEN WithSlice(s.waiting, elapsed)
                       ELSE s.waiting
        /\ r = [creation_time |-> r.creation_time, last_state_change |-> r.last_state_change,
                running |-> r.running, waiting |-> r.waiting]
    BY <2>1 DEF Consistent, ThreadStats
  <2>. HIDE DEF r
  <2>3. /\ r.running \in Slices /\ Fits(r.running)
        /\ Micros(r.running.total)
             = Micros(s.running.total) + (IF from = "Running" THEN Micros(elapsed) ELSE 0)
    <3>1. CASE from = "Running"
      BY <1>1, <1>2, <2>2, <3>1, SliceKeeps DEF Consistent
    <3>2. CASE from # "Running"
      BY <1>1, <1>3, <2>2, <3>2 DEF Consistent
    <3>3. QED
      BY <3>1, <3>2
  <2>4. /\ r.waiting \in Slices /\ Fits(r.waiting)
        /\ Micros(r.waiting.total)
             = Micros(s.waiting.total)
               + (IF from \in {"Ready", "Blocked"} THEN Micros(elapsed) ELSE 0)
    <3>1. CASE from \in {"Ready", "Blocked"}
      BY <1>1, <1>2, <2>2, <3>1, SliceKeeps DEF Consistent
    <3>2. CASE from \notin {"Ready", "Blocked"}
      BY <1>1, <1>3, <2>2, <3>2 DEF Consistent
    <3>3. QED
      BY <3>1, <3>2
  <2>5. r \in ThreadStats
    BY <1>1, <2>2, <2>3, <2>4 DEF ThreadStats
  <2>6. Accounts(r)
    <3>1. Accounts(s)
      BY DEF Consistent
    <3>2. CASE from = "Running"
      BY <1>2, <1>3, <2>2, <2>3, <2>4, <3>1, <3>2 DEF Accounts
    <3>3. CASE from \in {"Ready", "Blocked"}
      BY <1>2, <1>3, <2>2, <2>3, <2>4, <3>1, <3>3 DEF Accounts
    <3>4. CASE from \notin {"Running", "Ready", "Blocked"}
      BY <1>3, <1>5, <2>2, <2>3, <2>4, <3>1, <3>4 DEF Accounts
    <3>5. QED
      BY <3>2, <3>3, <3>4
  <2>7. QED
    BY <1>3, <2>2, <2>3, <2>4, <2>5, <2>6 DEF Consistent, r
<1>6. QED
  BY <1>4, <1>5

-------------------------------------------------------------------------------
(* The invariant of all statistics and its steps.                              *)

AllConsistent ==
  /\ now \in Timeval
  /\ stats \in [Threads -> ThreadStats]
  /\ \A t \in Threads : Consistent(stats[t], now)

StatsInv == IInv /\ AllConsistent

(* A new thread's statistics, and those of a slot never used.                  *)
LEMMA FreshIsConsistent ==
  ASSUME now \in Timeval
  PROVE  /\ Consistent(init_thread_stats, now)
         /\ Consistent(StaticSlot, now)
<1>1. zero \in Timeval /\ Micros(zero) = 0
  BY SMT DEF zero, Timeval, Micros
<1>2. NoSlices \in Slices /\ Fits(NoSlices) /\ NoSlices.total = zero
  BY <1>1 DEF NoSlices, Slices, Fits
<1>3. Micros(now) \in Nat
  BY ShorterIsLess
<1>. HIDE DEF zero
<1>4. init_thread_stats \in ThreadStats /\ StaticSlot \in ThreadStats
  BY <1>1, <1>2 DEF init_thread_stats, StaticSlot, ThreadStats
<1>5. /\ init_thread_stats.running = NoSlices /\ init_thread_stats.waiting = NoSlices
      /\ init_thread_stats.creation_time = now /\ init_thread_stats.last_state_change = now
      /\ StaticSlot.running = NoSlices /\ StaticSlot.waiting = NoSlices
      /\ StaticSlot.creation_time = zero /\ StaticSlot.last_state_change = zero
  BY DEF init_thread_stats, StaticSlot
<1>6. Consistent(init_thread_stats, now)
  BY <1>1, <1>2, <1>3, <1>4, <1>5 DEF Consistent, Accounts
<1>7. Consistent(StaticSlot, now)
  BY <1>1, <1>2, <1>3, <1>4, <1>5 DEF Consistent, Accounts
<1>8. QED
  BY <1>6, <1>7

(* The clock moves on.                                                         *)
LEMMA TickKeeps ==
  ASSUME AllConsistent, Tick
  PROVE  AllConsistent'
<1>1. PICK us \in Durations : now' = timeval_add(now, FromMicros(us))
  BY DEF Tick
<1>. DEFINE d == FromMicros(us)
<1>2. us \in Nat
  BY StatsAssumption
<1>3. us \div 1000000 \in Nat /\ us % 1000000 \in Nat /\ us % 1000000 < 1000000
  BY <1>2, SMT
<1>4. d \in Timeval
  BY <1>3, SMT DEF Timeval, FromMicros
<1>. HIDE DEF d
<1>5. now \in Timeval /\ UNCHANGED stats
  BY DEF AllConsistent, Tick
<1>6. now' \in Timeval /\ Micros(now') = Micros(now) + Micros(d)
  BY <1>1, <1>4, <1>5, AddIsExact DEF d
<1>7. Micros(now) \in Nat /\ Micros(d) \in Nat
  BY <1>4, <1>5, ShorterIsLess
<1>8. ASSUME NEW t \in Threads
      PROVE  Consistent(stats'[t], now')
  <2>1. Consistent(stats[t], now) /\ stats'[t] = stats[t]
    BY <1>5 DEF AllConsistent
  <2>2. Micros(stats[t].last_state_change) \in Nat
    BY <2>1, <1>5, ShorterIsLess DEF Consistent, ThreadStats
  <2>3. QED
    BY <1>6, <1>7, <2>1, <2>2 DEF Consistent
<1>9. QED
  BY <1>5, <1>6, <1>8 DEF AllConsistent

(* gt_create.                                                                  *)
LEMMA CreatedKeeps ==
  ASSUME AllConsistent, Created, UNCHANGED now
  PROVE  AllConsistent'
<1>. DEFINE fresh == update_thread_state(init_thread_stats, "Unused", "Ready")
<1>1. Consistent(init_thread_stats, now) /\ init_thread_stats.last_state_change = now
  BY FreshIsConsistent DEF AllConsistent, init_thread_stats
<1>2. Consistent(fresh, now)
  BY <1>1, UpdateKeeps DEF AllConsistent
<1>. HIDE DEF fresh
<1>3. \A t \in Threads : stats'[t] = IF state[t] = "Unused" /\ state'[t] = "Ready"
                                     THEN fresh ELSE stats[t]
  BY DEF Created, fresh
<1>4. \A t \in Threads : Consistent(stats'[t], now')
  BY <1>2, <1>3 DEF AllConsistent
<1>5. stats' \in [Threads -> ThreadStats]
  BY <1>4 DEF Created, Consistent
<1>6. QED
  BY <1>4, <1>5 DEF AllConsistent

(* sem_wait and sem_post, which leave the Unused slots alone.                  *)
LEMMA UpdatedKeeps ==
  ASSUME AllConsistent, Updated, UNCHANGED now, state \in [Threads -> e_state],
         \A t \in Threads : state'[t] = "Unused" <=> state[t] = "Unused"
  PROVE  AllConsistent'
<1>1. ASSUME NEW t \in Threads
      PROVE  Consistent(stats'[t], now')
  <2>1. /\ Consistent(stats[t], now) /\ now \in Timeval
        /\ stats'[t] = update_thread_state(stats[t], state[t], state'[t])
    BY DEF AllConsistent, Updated
  <2>2. state[t] = state'[t] \/ state[t] \in {"Running", "Ready", "Blocked"}
    BY DEF e_state
  <2>3. QED
    BY <2>1, <2>2, UpdateKeeps
<1>2. stats' \in [Threads -> ThreadStats]
  BY <1>1 DEF Updated, Consistent
<1>3. QED
  BY <1>1, <1>2 DEF AllConsistent

(* gt_schedule called with the states st, which chooses a thread in use.       *)
LEMMA ScheduledKeeps ==
  ASSUME AllConsistent, NEW st \in [Threads -> e_state], Scheduled(st), UNCHANGED now,
         gt_current' \in Threads, st[gt_current'] # "Unused"
  PROVE  AllConsistent'
<1>1. ASSUME NEW t \in Threads
      PROVE  Consistent(stats'[t], now')
  <2>. DEFINE back == IF StepsBack(t, st) THEN update_thread_state(stats[t], st[t], "Ready")
                      ELSE stats[t]
              from == IF StepsBack(t, st) THEN "Ready" ELSE st[t]
  <2>1. stats'[t] = IF t = gt_current' THEN update_thread_state(back, from, "Running") ELSE back
    BY DEF Scheduled
  <2>2. Consistent(stats[t], now) /\ now \in Timeval /\ st[t] \in e_state
    BY DEF AllConsistent
  <2>3. Consistent(back, now)
    <3>1. CASE StepsBack(t, st)
      <4>1. st[t] \in {"Running", "Ready", "Blocked"}
        BY <2>2, <3>1 DEF StepsBack, e_state
      <4>2. QED
        BY <2>2, <3>1, <4>1, UpdateKeeps
    <3>2. CASE ~StepsBack(t, st)
      BY <2>2, <3>2
    <3>3. QED
      BY <3>1, <3>2
  <2>4. t = gt_current' => from \in {"Running", "Ready", "Blocked"}
    BY <2>2 DEF e_state
  <2>. HIDE DEF back, from
  <2>5. t = gt_current' => Consistent(update_thread_state(back, from, "Running"), now)
    BY <2>2, <2>3, <2>4, UpdateKeeps
  <2>6. QED
    BY <2>1, <2>3, <2>5
<1>2. stats' \in [Threads -> ThreadStats]
  BY <1>1 DEF Scheduled, Consistent
<1>3. QED
  BY <1>1, <1>2 DEF AllConsistent

(* A step of the program with its statistics is a step of the program.         *)
LEMMA StatsStep ==
  ASSUME [StatsNext]_stats_vars
  PROVE  [Next]_vars
BY DEF StatsNext, Next, Step, Counted, Tick, stats_vars

LEMMA StatsNextInv ==
  ASSUME StatsInv, [StatsNext]_stats_vars
  PROVE  StatsInv'
<1>1. IInv /\ IInv' /\ AllConsistent
  BY StatsStep, NextInv DEF StatsInv
<1>2. /\ state \in [Threads -> e_state] /\ gt_current' \in Threads
      /\ state'[gt_current'] # "Unused"
  <2>1. /\ state \in [Threads -> e_state] /\ gt_current \in Threads
        /\ state[gt_current] # "Unused"
    BY <1>1 DEF IInv, TypeOK, GthrTypeOK, RunningIsCurrent
  <2>2. (gt_current \in Threads /\ state[gt_current] # "Unused")'
    BY <1>1 DEF IInv, TypeOK, GthrTypeOK, RunningIsCurrent
  <2>3. QED
    BY <2>1, <2>2
<1>3. CASE CreateThread /\ Created /\ UNCHANGED now
  BY <1>1, <1>3, CreatedKeeps DEF StatsInv
<1>4. CASE (MainReturns \/ Alarm) /\ Scheduled(state) /\ UNCHANGED now
  <2>1. \A t \in Threads : state'[t] = "Unused" <=> state[t] = "Unused"
    BY <1>1, <1>4, SwitchKeeps
  <2>2. state[gt_current'] # "Unused"
    BY <1>2, <2>1
  <2>3. QED
    BY <1>1, <1>2, <1>4, <2>2, ScheduledKeeps DEF StatsInv
<1>5. ASSUME NEW t \in Threads, (Wait(t) \/ Post(t)) /\ Updated /\ UNCHANGED now
      PROVE  StatsInv'
  <2>1. \A u \in Threads : state'[u] = "Unused" <=> state[u] = "Unused"
    BY <1>1, <1>5, StepKeeps DEF Step
  <2>2. QED
    BY <1>1, <1>2, <1>5, <2>1, UpdatedKeeps DEF StatsInv
<1>6. ASSUME NEW t \in Threads, Return(t), Scheduled([state EXCEPT ![t] = "Unused"]),
             UNCHANGED now
      PROVE  StatsInv'
  <2>. DEFINE st == [state EXCEPT ![t] = "Unused"]
  <2>1. \A u \in Threads : state'[u] = "Unused" <=> u = t \/ state[u] = "Unused"
    BY <1>1, <1>6, ReturnKeeps
  <2>2. st \in [Threads -> e_state]
    BY <1>2 DEF e_state
  <2>3. st[gt_current'] # "Unused"
    BY <1>2, <2>1
  <2>. HIDE DEF st
  <2>4. QED
    BY <1>1, <1>2, <1>6, <2>2, <2>3, ScheduledKeeps DEF StatsInv, st
<1>7. CASE UNCHANGED <<now, stats>>
  BY <1>1, <1>7 DEF StatsInv, AllConsistent
<1>8. CASE Tick
  BY <1>1, <1>8, TickKeeps DEF StatsInv
<1>9. QED
  BY <1>3, <1>4, <1>5, <1>6, <1>7, <1>8 DEF StatsNext, Counted, stats_vars

LEMMA StatsInitInv ==
  ASSUME StatsInit
  PROVE  StatsInv
<1>1. IInv /\ now = zero
  BY InitInv DEF StatsInit
<1>2. now \in Timeval
  BY <1>1, SMT DEF zero, Timeval
<1>3. \A t \in Threads : Consistent(stats[t], now)
  BY <1>2, FreshIsConsistent DEF StatsInit
<1>4. stats \in [Threads -> ThreadStats]
  BY <1>3 DEF StatsInit, Consistent
<1>5. QED
  BY <1>1, <1>2, <1>3, <1>4 DEF StatsInv, AllConsistent

-------------------------------------------------------------------------------
(* The theorems.                                                               *)

(* The statistics invariant holds whatever the program and the clock do.       *)
THEOREM StatsInvariance == StatsSpec => []StatsInv
<1>1. StatsInit => StatsInv
  BY StatsInitInv
<1>2. StatsInv /\ [StatsNext]_stats_vars => StatsInv'
  BY StatsNextInv
<1>3. QED
  BY <1>1, <1>2, PTL DEF StatsSpec

(* timeval_subtract never borrows and timeval_add never carries wrongly: every *)
(* time that is kept is normalised, and none is negative.                      *)
THEOREM TimesAreNormalised == StatsSpec => []StatsTypeOK
<1>1. StatsInv => StatsTypeOK
  BY DEF StatsInv, AllConsistent, StatsTypeOK, ThreadStats
<1>2. QED
  BY <1>1, StatsInvariance, PTL

(* Running and waiting time add up to a thread's life so far.                  *)
THEOREM TimeIsAccounted == StatsSpec => []TimeAccounted
<1>1. StatsInv => TimeAccounted
  BY DEF StatsInv, AllConsistent, Consistent, Accounts, TimeAccounted
<1>2. QED
  BY <1>1, StatsInvariance, PTL

(* Minimum, maximum and number of the slices fit their total.                  *)
THEOREM ExtremesAreFit == StatsSpec => []ExtremesFit
<1>1. StatsInv => ExtremesFit
  BY DEF StatsInv, AllConsistent, Consistent, Fits, ExtremesFit
<1>2. QED
  BY <1>1, StatsInvariance, PTL

-------------------------------------------------------------------------------
(* The running time of all threads.                                            *)

(* What Ran is for a thread with the statistics s in the state st.             *)
RanOf(s, st, tv) ==
  Micros(s.running.total)
    + (IF st = "Running" THEN Micros(tv) - Micros(s.last_state_change) ELSE 0)

(* It is a time, and ending a thread that runs only takes from it.             *)
LEMMA RanIsNat ==
  ASSUME NEW tv \in Timeval, NEW s, Consistent(s, tv), NEW st
  PROVE  /\ RanOf(s, st, tv) \in Nat
         /\ RanOf(s, "Unused", tv) \in Nat
         /\ RanOf(s, "Unused", tv) <= RanOf(s, st, tv)
<1>1. s.running.total \in Timeval /\ s.last_state_change \in Timeval
  BY DEF Consistent, ThreadStats, Slices
<1>2. /\ Micros(s.running.total) \in Nat /\ Micros(s.last_state_change) \in Nat
      /\ Micros(tv) \in Nat /\ Micros(s.last_state_change) <= Micros(tv)
  BY <1>1, ShorterIsLess DEF Consistent
<1>3. QED
  BY <1>2 DEF RanOf

(* update_thread_state closes the slice that was open and opens one of length  *)
(* zero: it makes no running time and loses none.                              *)
LEMMA UpdateRan ==
  ASSUME NEW s, Consistent(s, now), now \in Timeval, NEW from, NEW to
  PROVE  RanOf(update_thread_state(s, from, to), to, now) = RanOf(s, from, now)
<1>. DEFINE r == update_thread_state(s, from, to)
            elapsed == timeval_subtract(now, s.last_state_change)
<1>1. CASE from = to
  BY <1>1 DEF update_thread_state
<1>2. CASE from # to
  <2>1. /\ s.last_state_change \in Timeval /\ s.running \in Slices
        /\ s.running.total \in Timeval
    BY DEF Consistent, ThreadStats, Slices
  <2>2. /\ elapsed \in Timeval
        /\ Micros(elapsed) = Micros(now) - Micros(s.last_state_change)
    BY <2>1, SubtractIsExact DEF Consistent
  <2>. HIDE DEF elapsed
  <2>3. /\ Micros(now) \in Nat /\ Micros(s.last_state_change) \in Nat
        /\ Micros(s.running.total) \in Nat
    BY <2>1, ShorterIsLess
  <2>4. r = [s EXCEPT !.last_state_change = now,
                      !.running = IF from = "Running" THEN WithSlice(@, elapsed) ELSE @,
                      !.waiting = IF from \in {"Ready", "Blocked"} THEN WithSlice(@, elapsed) ELSE @]
    BY <1>2 DEF update_thread_state, elapsed
  <2>5. /\ r.last_state_change = now
        /\ r.running = IF from = "Running" THEN WithSlice(s.running, elapsed) ELSE s.running
    BY <2>4 DEF Consistent, ThreadStats
  <2>. HIDE DEF r
  <2>6. Micros(r.running.total)
          = Micros(s.running.total) + (IF from = "Running" THEN Micros(elapsed) ELSE 0)
    <3>1. CASE from = "Running"
      BY <2>1, <2>2, <2>5, <3>1, SliceKeeps DEF Consistent
    <3>2. CASE from # "Running"
      BY <2>3, <2>5, <3>2
    <3>3. QED
      BY <3>1, <3>2
  <2>7. RanOf(r, to, now) = RanOf(s, from, now)
    BY <2>2, <2>3, <2>5, <2>6 DEF RanOf
  <2>8. QED
    BY <2>7 DEF r
<1>3. QED
  BY <1>1, <1>2

(* A switch from the table st gives and takes no running time.                 *)
LEMMA ScheduledRan ==
  ASSUME AllConsistent, NEW st \in [Threads -> e_state], Scheduled(st), gt_schedule(st),
         NEW t \in Threads, st[t] \in {state[t], "Unused"}, UNCHANGED now,
         gt_current' \in Threads, st[gt_current'] # "Unused"
  PROVE  RanOf(stats'[t], state'[t], now) <= RanOf(stats[t], state[t], now)
<1>. DEFINE back == IF StepsBack(t, st) THEN update_thread_state(stats[t], st[t], "Ready")
                    ELSE stats[t]
            from == IF StepsBack(t, st) THEN "Ready" ELSE st[t]
<1>1. stats'[t] = IF t = gt_current' THEN update_thread_state(back, from, "Running") ELSE back
  BY DEF Scheduled
<1>2. state'[t] = IF t = gt_current' THEN "Running" ELSE from
  BY DEF gt_schedule, SwitchTo, StepsBack, Found
<1>3. Consistent(stats[t], now) /\ now \in Timeval /\ st[t] \in e_state
  BY DEF AllConsistent
<1>4. Consistent(back, now) /\ RanOf(back, from, now) = RanOf(stats[t], st[t], now)
  <2>1. CASE StepsBack(t, st)
    <3>1. st[t] \in {"Running", "Ready", "Blocked"}
      BY <1>3, <2>1 DEF StepsBack, e_state
    <3>2. QED
      BY <1>3, <2>1, <3>1, UpdateKeeps, UpdateRan
  <2>2. CASE ~StepsBack(t, st)
    BY <1>3, <2>2
  <2>3. QED
    BY <2>1, <2>2
<1>. HIDE DEF back, from
<1>5. RanOf(stats'[t], state'[t], now) = RanOf(back, from, now)
  BY <1>1, <1>2, <1>3, <1>4, UpdateRan
<1>6. /\ RanOf(stats[t], "Unused", now) <= RanOf(stats[t], state[t], now)
      /\ RanOf(stats[t], state[t], now) \in Nat
  BY <1>3, RanIsNat
<1>7. QED
  BY <1>4, <1>5, <1>6

(* What a step of the program or of the clock does to the running times: only  *)
(* gt_current's grows, and by what the clock moves on.                         *)
RunsAlone ==
  /\ Micros(now) \in Nat /\ Micros(now') \in Nat /\ Micros(now) <= Micros(now')
  /\ \A t \in Threads :
       RanOf(stats'[t], state'[t], now')
         <= RanOf(stats[t], state[t], now)
            + (IF t = gt_current THEN Micros(now') - Micros(now) ELSE 0)

LEMMA NotMoreRan ==
  ASSUME AllConsistent, UNCHANGED now,
         \A t \in Threads : RanOf(stats'[t], state'[t], now) <= RanOf(stats[t], state[t], now)
  PROVE  RunsAlone
<1>1. Micros(now) \in Nat /\ now' = now /\ now \in Timeval
  BY ShorterIsLess DEF AllConsistent
<1>2. \A t \in Threads : RanOf(stats[t], state[t], now) \in Nat
  BY <1>1, RanIsNat DEF AllConsistent
<1>3. ASSUME NEW t \in Threads
      PROVE  RanOf(stats'[t], state'[t], now')
               <= RanOf(stats[t], state[t], now)
                  + (IF t = gt_current THEN Micros(now') - Micros(now) ELSE 0)
  <2>1. RanOf(stats'[t], state'[t], now') <= RanOf(stats[t], state[t], now)
    BY <1>1
  <2>2. (IF t = gt_current THEN Micros(now') - Micros(now) ELSE 0) = 0
    BY <1>1
  <2>3. QED
    BY <1>2, <2>1, <2>2
<1>4. QED
  BY <1>1, <1>3 DEF RunsAlone

LEMMA TickRan ==
  ASSUME StatsInv, Tick
  PROVE  RunsAlone
<1>1. AllConsistent /\ AllConsistent' /\ stats' = stats /\ state' = state
  BY TickKeeps DEF StatsInv, Tick, vars, gt_vars
<1>2. PICK us \in Durations : now' = timeval_add(now, FromMicros(us))
  BY DEF Tick
<1>. DEFINE d == FromMicros(us)
<1>3. us \in Nat
  BY StatsAssumption
<1>4. us \div 1000000 \in Nat /\ us % 1000000 \in Nat /\ us % 1000000 < 1000000
  BY <1>3, SMT
<1>5. d \in Timeval
  BY <1>4, SMT DEF Timeval, FromMicros
<1>. HIDE DEF d
<1>6. now \in Timeval /\ Micros(now') = Micros(now) + Micros(d)
  BY <1>1, <1>2, <1>5, AddIsExact DEF d, AllConsistent
<1>7. Micros(now) \in Nat /\ Micros(d) \in Nat
  BY <1>5, <1>6, ShorterIsLess
<1>8. ASSUME NEW t \in Threads
      PROVE  RanOf(stats'[t], state'[t], now')
               <= RanOf(stats[t], state[t], now)
                  + (IF t = gt_current THEN Micros(now') - Micros(now) ELSE 0)
  <2>1. state[t] = "Running" => t = gt_current
    BY DEF StatsInv, IInv, RunningIsCurrent
  <2>2. /\ Micros(stats[t].running.total) \in Nat
        /\ Micros(stats[t].last_state_change) \in Nat
    BY <1>1, ShorterIsLess DEF AllConsistent, ThreadStats, Slices
  <2>3. QED
    BY <1>1, <1>6, <1>7, <2>1, <2>2 DEF RanOf
<1>9. QED
  BY <1>6, <1>7, <1>8 DEF RunsAlone

LEMMA CreateRan ==
  ASSUME AllConsistent, CreateThread, Created, UNCHANGED now,
         state \in [Threads -> e_state]
  PROVE  RunsAlone
<1>. DEFINE fresh == update_thread_state(init_thread_stats, "Unused", "Ready")
<1>1. now \in Timeval /\ Consistent(init_thread_stats, now)
  BY FreshIsConsistent DEF AllConsistent
<1>2. RanOf(fresh, "Ready", now) = 0
  <2>1. Micros(zero) = 0 /\ "Unused" # "Running"
    BY SMT DEF Micros, zero
  <2>2. init_thread_stats.running.total = zero
    BY DEF init_thread_stats, NoSlices
  <2>3. RanOf(init_thread_stats, "Unused", now) = 0
    BY <2>1, <2>2 DEF RanOf
  <2>4. QED
    BY <1>1, <2>3, UpdateRan
<1>. HIDE DEF fresh
<1>3. ASSUME NEW t \in Threads
      PROVE  RanOf(stats'[t], state'[t], now) <= RanOf(stats[t], state[t], now)
  <2>1. stats'[t] = IF state[t] = "Unused" /\ state'[t] = "Ready" THEN fresh ELSE stats[t]
    BY DEF Created, fresh
  <2>2. state'[t] = state[t] \/ (state[t] = "Unused" /\ state'[t] = "Ready")
    BY DEF CreateThread, CreateIn, FreeSlots, gt_vars
  <2>3. RanOf(stats[t], state[t], now) \in Nat
    BY <1>1, RanIsNat DEF AllConsistent
  <2>4. QED
    BY <1>2, <2>1, <2>2, <2>3
<1>4. QED
  BY <1>3, NotMoreRan

LEMMA StepRunsAlone ==
  ASSUME StatsInv, [StatsNext]_stats_vars
  PROVE  RunsAlone
<1>1. IInv /\ IInv' /\ AllConsistent
  BY StatsStep, NextInv DEF StatsInv
<1>2. /\ state \in [Threads -> e_state] /\ gt_current' \in Threads
      /\ state'[gt_current'] # "Unused" /\ now \in Timeval
  <2>1. (gt_current \in Threads /\ state[gt_current] # "Unused")'
    BY <1>1 DEF IInv, TypeOK, GthrTypeOK, RunningIsCurrent
  <2>2. QED
    BY <1>1, <2>1 DEF IInv, TypeOK, GthrTypeOK, AllConsistent
<1>3. CASE CreateThread /\ Created /\ UNCHANGED now
  BY <1>1, <1>2, <1>3, CreateRan
<1>4. CASE (MainReturns \/ Alarm) /\ Scheduled(state) /\ UNCHANGED now
  <2>1. \A t \in Threads : state'[t] = "Unused" <=> state[t] = "Unused"
    BY <1>1, <1>4, SwitchKeeps
  <2>2. state[gt_current'] # "Unused" /\ gt_schedule(state)
    BY <1>2, <1>4, <2>1 DEF MainReturns, Alarm
  <2>3. \A t \in Threads : RanOf(stats'[t], state'[t], now) <= RanOf(stats[t], state[t], now)
    BY <1>1, <1>2, <1>4, <2>2, ScheduledRan
  <2>4. QED
    BY <1>1, <1>4, <2>3, NotMoreRan
<1>5. ASSUME NEW u \in Threads, (Wait(u) \/ Post(u)) /\ Updated /\ UNCHANGED now
      PROVE  RunsAlone
  <2>1. ASSUME NEW t \in Threads
        PROVE  RanOf(stats'[t], state'[t], now) <= RanOf(stats[t], state[t], now)
    <3>1. Consistent(stats[t], now)
      BY <1>1 DEF AllConsistent
    <3>2. stats'[t] = update_thread_state(stats[t], state[t], state'[t])
      BY <1>5 DEF Updated
    <3>3. RanOf(stats'[t], state'[t], now) = RanOf(stats[t], state[t], now)
      BY <1>2, <3>1, <3>2, UpdateRan
    <3>4. QED
      BY <1>2, <3>1, <3>3, RanIsNat
  <2>2. QED
    BY <1>1, <1>5, <2>1, NotMoreRan
<1>6. ASSUME NEW u \in Threads, Return(u), Scheduled([state EXCEPT ![u] = "Unused"]),
             UNCHANGED now
      PROVE  RunsAlone
  <2>. DEFINE st == [state EXCEPT ![u] = "Unused"]
  <2>1. \A t \in Threads : state'[t] = "Unused" <=> t = u \/ state[t] = "Unused"
    BY <1>1, <1>6, ReturnKeeps
  <2>2. st \in [Threads -> e_state] /\ gt_schedule(st)
    BY <1>2, <1>6 DEF e_state, Return
  <2>3. st[gt_current'] # "Unused"
    BY <1>2, <2>1
  <2>4. \A t \in Threads : st[t] \in {state[t], "Unused"}
    BY <1>2
  <2>. HIDE DEF st
  <2>5. \A t \in Threads : RanOf(stats'[t], state'[t], now) <= RanOf(stats[t], state[t], now)
    BY <1>1, <1>2, <1>6, <2>2, <2>3, <2>4, ScheduledRan DEF st
  <2>6. QED
    BY <1>1, <1>6, <2>5, NotMoreRan
<1>7. ASSUME UNCHANGED <<now, stats>>, state' = state
      PROVE  RunsAlone
  <2>1. \A t \in Threads : RanOf(stats'[t], state'[t], now) <= RanOf(stats[t], state[t], now)
    BY <1>1, <1>2, <1>7, RanIsNat DEF AllConsistent
  <2>2. QED
    BY <1>1, <1>7, <2>1, NotMoreRan
<1>8. CASE Tick
  BY <1>8, TickRan
<1>9. ASSUME NEW t \in Threads, Begin(t) \/ End(t) \/ Abort(t)
      PROVE  state' = state
  BY <1>9 DEF Begin, End, Abort, gt_vars
<1>10. UNCHANGED stats_vars => UNCHANGED <<now, stats>> /\ state' = state
  BY DEF stats_vars, vars, gt_vars
<1>11. QED
  BY <1>3, <1>4, <1>5, <1>6, <1>7, <1>8, <1>9, <1>10 DEF StatsNext, Counted

(* Ran is a function to the integers whose values RanOf gives.                 *)
LEMMA RanIs ==
  ASSUME AllConsistent
  PROVE  Ran \in [Threads -> Int] /\ \A t \in Threads : Ran[t] = RanOf(stats[t], state[t], now)
<1>1. \A t \in Threads : Ran[t] = RanOf(stats[t], state[t], now)
  BY DEF Ran, OpenSlice, RanOf
<1>2. \A t \in Threads : RanOf(stats[t], state[t], now) \in Nat
  BY RanIsNat DEF AllConsistent
<1>3. QED
  BY <1>1, <1>2 DEF Ran

LEMMA ThreadsFinite == IsFiniteSet(Threads)
BY FS_Interval, GthrAssumption DEF Threads

(* All threads together never run longer than the clock does: every slice that *)
(* ends is counted once, for the thread that ran, and one slice is open at a   *)
(* time.                                                                       *)
THEOREM OneProcessorHolds == StatsSpec => []OneProcessor
<1>1. StatsInit => OneProcessor
  <2>1. SUFFICES ASSUME StatsInit PROVE OneProcessor
    OBVIOUS
  <2>2. AllConsistent /\ now = zero
    <3>1. AllConsistent
      BY <2>1, StatsInitInv DEF StatsInv
    <3>2. QED
      BY <2>1, <3>1 DEF StatsInit
  <2>3. Micros(zero) = 0
    BY SMT DEF Micros, zero
  <2>4. \A t \in Threads : stats[t].running.total = zero /\ stats[t].last_state_change = zero
    <3>1. \A s \in {init_thread_stats, StaticSlot} :
            s.running.total = zero /\ s.last_state_change = zero
      BY <2>2 DEF init_thread_stats, StaticSlot, NoSlices
    <3>2. \A t \in Threads : stats[t] \in {init_thread_stats, StaticSlot}
      BY <2>1 DEF StatsInit
    <3>3. QED
      BY <3>1, <3>2
  <2>5. \A t \in Threads : Ran[t] = 0
    BY <2>2, <2>3, <2>4, RanIs DEF RanOf
  <2>6. Ran \in [Threads -> {0}]
    BY <2>5 DEF Ran
  <2>7. SumFunction(Ran) = 0
    BY <2>6, SumOfZeros, ThreadsFinite
  <2>8. QED
    BY <2>2, <2>3, <2>7 DEF OneProcessor
<1>2. StatsInv /\ OneProcessor /\ [StatsNext]_stats_vars => OneProcessor'
  <2>1. SUFFICES ASSUME StatsInv, OneProcessor, [StatsNext]_stats_vars PROVE OneProcessor'
    OBVIOUS
  <2>2. AllConsistent /\ AllConsistent' /\ gt_current \in Threads
    BY <2>1, StatsNextInv DEF StatsInv, IInv, TypeOK, GthrTypeOK
  <2>. DEFINE d == Micros(now') - Micros(now)
              f == Ran
              g == Ran'
  <2>3. /\ Micros(now) \in Nat /\ Micros(now') \in Nat /\ d \in Int
        /\ \A t \in Threads : RanOf(stats'[t], state'[t], now')
             <= RanOf(stats[t], state[t], now) + (IF t = gt_current THEN d ELSE 0)
    BY <2>1, StepRunsAlone DEF RunsAlone
  <2>4. f \in [Threads -> Int] /\ \A t \in Threads : f[t] = RanOf(stats[t], state[t], now)
    BY <2>2, RanIs
  <2>5. g \in [Threads -> Int] /\ \A t \in Threads : g[t] = RanOf(stats'[t], state'[t], now')
    <3>1. (Ran \in [Threads -> Int] /\ \A t \in Threads : Ran[t] = RanOf(stats[t], state[t], now))'
      BY <2>2, RanIs, PTL
    <3>2. QED
      BY <3>1
  <2>. HIDE DEF d, f, g
  <2>6. \A t \in Threads : g[t] <= f[t] + (IF t = gt_current THEN d ELSE 0)
    BY <2>3, <2>4, <2>5
  <2>7. /\ SumFunction(f) \in Int /\ SumFunction(g) \in Int
        /\ SumFunction(g) <= SumFunction(f) + d
    BY <2>2, <2>3, <2>4, <2>5, <2>6, SumGrows, ThreadsFinite
  <2>8. /\ SumFunction(f) <= Micros(now)
        /\ SumFunction(g) <= Micros(now') => OneProcessor'
    BY <2>1 DEF OneProcessor, f, g
  <2>9. Micros(now') = Micros(now) + d
    BY <2>3 DEF d
  <2>10. SumFunction(g) <= Micros(now')
    BY <2>3, <2>7, <2>8, <2>9
  <2>11. QED
    BY <2>8, <2>10
<1>3. QED
  BY <1>1, <1>2, StatsInvariance, PTL DEF StatsSpec
===============================================================================
