-------------------------------- MODULE GthrStats --------------------------------
(*******************************************************************************)
(* The program of GthrDemo with the statistics that update_thread_state keeps  *)
(* of every thread, over a clock.  Averages and variances, which are floating  *)
(* point, and last_run_time and last_wait_time, which nothing reads, are left  *)
(* out.  The calls of gettimeofday in one step of GthrDemo give one time.      *)
(*******************************************************************************)
EXTENDS GthrDemo, FiniteSetsExt

CONSTANTS
  Durations,   \* the microseconds the clock may move on between two steps
  MaxTime,     \* bound of the clock, in microseconds
  MaxCount     \* bound of run_count: a thread that reaches it is not preempted

ASSUME StatsAssumption ==
  /\ Durations \subseteq Nat
  /\ {MaxTime, MaxCount} \subseteq Nat

VARIABLES
  now,    \* the struct timeval gettimeofday gives, from the start of main on
  stats   \* the statistics fields of each thread's struct gt

stats_vars == <<vars, now, stats>>

-------------------------------------------------------------------------------
(* struct timeval.                                                             *)

Timeval == [tv_sec : Nat, tv_usec : {us \in Nat : us < 1000000}]

Micros(tv) == tv.tv_sec * 1000000 + tv.tv_usec   \* timeval_to_microseconds
zero       == [tv_sec |-> 0, tv_usec |-> 0]      \* init_timeval

FromMicros(us) == [tv_sec |-> us \div 1000000, tv_usec |-> us % 1000000]

Shorter(x, y) == x.tv_sec < y.tv_sec \/ (x.tv_sec = y.tv_sec /\ x.tv_usec < y.tv_usec)

\* Mutant of timeval_subtract: no borrow.
timeval_subtract_NoBorrow(x, y) ==
  [tv_sec |-> x.tv_sec - y.tv_sec, tv_usec |-> x.tv_usec - y.tv_usec]

timeval_subtract(x, y) ==
  IF x.tv_usec < y.tv_usec
    THEN [tv_sec |-> x.tv_sec - y.tv_sec - 1, tv_usec |-> x.tv_usec - y.tv_usec + 1000000]
    ELSE [tv_sec |-> x.tv_sec - y.tv_sec, tv_usec |-> x.tv_usec - y.tv_usec]

timeval_add(x, y) ==
  IF x.tv_usec + y.tv_usec >= 1000000
    THEN [tv_sec |-> x.tv_sec + y.tv_sec + 1, tv_usec |-> x.tv_usec + y.tv_usec - 1000000]
    ELSE [tv_sec |-> x.tv_sec + y.tv_sec, tv_usec |-> x.tv_usec + y.tv_usec]

-------------------------------------------------------------------------------
(* update_thread_state.  A thread's slices in one kind of state are counted    *)
(* together: total_running, run_count, min_run_time and max_run_time are the   *)
(* fields of running, those named after waiting the ones of waiting.           *)

NoSlices == [total |-> zero, count |-> 0, min |-> zero, max |-> zero]

\* Mutant of Longest: the comparison of update_running_stats for the minimum.
Longest_Swapped(max, tv) == IF max = zero \/ Shorter(tv, max) THEN tv ELSE max

(* update_running_stats takes zero for a value that is not there yet.          *)
Shortest(min, tv) == IF min = zero \/ Shorter(tv, min) THEN tv ELSE min
Longest(max, tv)  == IF max = zero \/ Shorter(max, tv) THEN tv ELSE max

WithSlice(slices, tv) ==
  [total |-> timeval_add(slices.total, tv), count |-> slices.count + 1,
   min |-> Shortest(slices.min, tv), max |-> Longest(slices.max, tv)]

\* Mutant of update_thread_state: the time in Blocked is not counted.
update_thread_state_NotBlocked(s, from, to) ==
  LET elapsed == timeval_subtract(now, s.last_state_change) IN
  IF from = to THEN s
  ELSE [s EXCEPT !.last_state_change = now,
                 !.running = IF from = "Running" THEN WithSlice(@, elapsed) ELSE @,
                 !.waiting = IF from = "Ready" THEN WithSlice(@, elapsed) ELSE @]

\* Mutant of update_thread_state: last_state_change moves with counted runs only.
update_thread_state_OldChange(s, from, to) ==
  LET elapsed == timeval_subtract(now, s.last_state_change) IN
  IF from = to THEN s
  ELSE [s EXCEPT !.last_state_change = IF from = "Running" THEN now ELSE @,
                 !.running = IF from = "Running" THEN WithSlice(@, elapsed) ELSE @,
                 !.waiting = IF from \in {"Ready", "Blocked"} THEN WithSlice(@, elapsed) ELSE @]

(* The fields s of a thread that goes from one state to another.               *)
update_thread_state(s, from, to) ==
  LET elapsed == timeval_subtract(now, s.last_state_change) IN
  IF from = to THEN s
  ELSE [s EXCEPT !.last_state_change = now,
                 !.running = IF from = "Running" THEN WithSlice(@, elapsed) ELSE @,
                 !.waiting = IF from \in {"Ready", "Blocked"} THEN WithSlice(@, elapsed) ELSE @]

init_thread_stats ==
  [creation_time |-> now, last_state_change |-> now, running |-> NoSlices, waiting |-> NoSlices]

(* gt_table is static memory, zero until a slot is used.                       *)
StaticSlot ==
  [creation_time |-> zero, last_state_change |-> zero, running |-> NoSlices, waiting |-> NoSlices]

(* gt_create: the statistics of the slots it takes.                            *)
Created ==
  stats' = [t \in Threads |->
              IF state[t] = "Unused" /\ state'[t] = "Ready"
                THEN update_thread_state(init_thread_stats, "Unused", "Ready")
                ELSE stats[t]]

(* The fields of t after gt_schedule's first update, which is for gt_current:  *)
(* none if that is Blocked or, by st, released.                                *)
StepsBack(t, st) == t = gt_current /\ st[t] \notin {"Unused", "Blocked"}

(* gt_schedule called with the table's states st, having chosen gt_current':   *)
(* the old thread is updated before the new one, and both may be the same.     *)
Scheduled(st) ==
  stats' = [t \in Threads |->
    LET back == IF StepsBack(t, st) THEN update_thread_state(stats[t], st[t], "Ready")
                ELSE stats[t]
        from == IF StepsBack(t, st) THEN "Ready" ELSE st[t]
    IN IF t = gt_current' THEN update_thread_state(back, from, "Running") ELSE back]

(* sem_wait and sem_post, which update the thread they block or wake.          *)
Updated == stats' = [t \in Threads |-> update_thread_state(stats[t], state[t], state'[t])]

-------------------------------------------------------------------------------
Counted(A) == stats[gt_current].running.count < MaxCount /\ A /\ UNCHANGED now

(* Time goes by between the steps.                                             *)
Tick ==
  \E us \in Durations :
    /\ Micros(now) + us <= MaxTime
    /\ now' = timeval_add(now, FromMicros(us))
    /\ UNCHANGED <<vars, stats>>

StatsInit ==
  /\ Init
  /\ now = zero
  /\ stats = [t \in Threads |-> IF t = 0 THEN init_thread_stats ELSE StaticSlot]

StatsNext ==
  \/ CreateThread /\ Created /\ UNCHANGED now
  \/ Counted(MainReturns /\ Scheduled(state))
  \/ Counted(Alarm /\ Scheduled(state))
  \/ \E t \in Threads :
       \/ (Wait(t) \/ Post(t)) /\ Updated /\ UNCHANGED now
       \/ (Begin(t) \/ End(t) \/ Abort(t)) /\ UNCHANGED <<now, stats>>
       \/ Counted(Return(t) /\ Scheduled([state EXCEPT ![t] = "Unused"]))
  \/ Tick

StatsSpec == StatsInit /\ [][StatsNext]_stats_vars

-------------------------------------------------------------------------------
(* Properties.                                                                 *)

Slices == [total : Timeval, count : Nat, min : Timeval, max : Timeval]

(* Every time in the statistics is a normalised struct timeval: what the       *)
(* borrow of timeval_subtract and the carry of timeval_add are for.            *)
StatsTypeOK ==
  /\ now \in Timeval
  /\ stats \in [Threads -> [creation_time : Timeval, last_state_change : Timeval,
                            running : Slices, waiting : Slices]]

(* No time is lost and none is counted twice: up to its last change of state   *)
(* a thread has been running or waiting ever since it was created.             *)
TimeAccounted ==
  \A t \in Threads :
    Micros(stats[t].running.total) + Micros(stats[t].waiting.total)
      = Micros(stats[t].last_state_change) - Micros(stats[t].creation_time)

(* The slice that has not been counted yet.                                    *)
OpenSlice(t) ==
  IF state[t] = "Running" THEN Micros(now) - Micros(stats[t].last_state_change) ELSE 0

(* How long each thread has run, the slice it is in included.                  *)
Ran == [t \in Threads |-> Micros(stats[t].running.total) + OpenSlice(t)]

(* There is one processor: the running times of all threads together are never *)
(* more than the time since gt_init.                                           *)
OneProcessor == SumFunction(Ran) <= Micros(now)

(* The extremes that gt_print_stats prints fit the total beside them.          *)
ExtremesFit ==
  \A t \in Threads : \A s \in {stats[t].running, stats[t].waiting} :
    /\ Micros(s.min) <= Micros(s.max)
    /\ Micros(s.max) <= Micros(s.total)
    /\ Micros(s.total) <= s.count * Micros(s.max)
===============================================================================
