-------------------------------- MODULE GthrDemo --------------------------------
(*******************************************************************************)
(* The program of scheduler/main.c: the initial thread creates threads that    *)
(* all run f and then waits in gt_return; every f loops over a section guarded *)
(* by one semaphore, and SIGALRM preempts whoever runs.                        *)
(*                                                                             *)
(* A thread is at one of                                                       *)
(*   "none"    no function: the initial thread and unused slots                *)
(*   "wait"    about to call sem_wait                                          *)
(*   "begin"   sem_wait has returned, BEGINNING is not printed yet             *)
(*   "sleep1"  in the sleep after BEGINNING                                    *)
(*   "sleep2"  in the sleep after END, sem_post is next                        *)
(* A sleep lasts 50 ms, a hundred periods of the timer, so that it never ends  *)
(* before a SIGALRM has interrupted it: ticked holds the sleepers that have    *)
(* been interrupted.                                                           *)
(*******************************************************************************)
EXTENDS GSemaphore

CONSTANTS
  Creates,        \* the priorities of the calls to gt_create, in order
  InitialValue,   \* the argument of sem_init
  MayReturn       \* whether a thread's function may return (f of main.c does not)

ASSUME DemoAssumption ==
  /\ Creates \in Seq(Int)
  /\ InitialValue \in Nat
  /\ MayReturn \in BOOLEAN

VARIABLES
  todo,     \* the calls to gt_create that main has still to make
  exited,   \* whether the process has ended
  pc,
  ticked

vars == <<gt_vars, sem_vars, todo, exited, pc, ticked>>

Labels  == {"none", "wait", "begin", "sleep1", "sleep2"}
Section == {"begin", "sleep1", "sleep2"}
Sleeps  == {"sleep1", "sleep2"}

TypeOK ==
  /\ GthrTypeOK
  /\ SemTypeOK
  /\ todo \in Seq(Int)
  /\ exited \in BOOLEAN
  /\ pc \in [Threads -> Labels]
  /\ ticked \in SUBSET Threads

Init ==
  /\ gt_init
  /\ sem_init(InitialValue)
  /\ todo = Creates
  /\ exited = FALSE
  /\ pc = [t \in Threads |-> "none"]
  /\ ticked = {}

-------------------------------------------------------------------------------
(* The initial thread.                                                         *)

(* One gt_create of main; it fails when the table is full or malloc does, and  *)
(* main does not look at the result.                                           *)
CreateThread ==
  /\ gt_current = 0
  /\ todo # <<>>
  /\ todo' = Tail(todo)
  /\ \/ \E p \in Threads :
          /\ CreateIn(p, Head(todo))
          /\ pc' = [pc EXCEPT ![p] = "wait"]
     \/ UNCHANGED <<gt_vars, pc>>
  /\ UNCHANGED <<sem_vars, exited, ticked>>

(* The loop of gt_return in the initial thread, which ends on a false result.  *)
MainReturns ==
  /\ gt_current = 0
  /\ todo = <<>>
  /\ ~exited
  /\ gt_schedule(state)
  /\ exited' = ~Found(gt_current')
  /\ UNCHANGED <<sem_vars, todo, pc, ticked>>

-------------------------------------------------------------------------------
(* The timer's signal, taken by whoever runs; it also interrupts its sleep.    *)

Alarm ==
  /\ timer
  /\ ~exited
  /\ gt_schedule(state)
  /\ ticked' = IF pc[gt_current] \in Sleeps THEN ticked \cup {gt_current} ELSE ticked
  /\ UNCHANGED <<sem_vars, todo, exited, pc>>

-------------------------------------------------------------------------------
(* The threads that run f.  Only the current thread takes a step, whatever its *)
(* state in the table.                                                         *)

At(t, label) == gt_current = t /\ pc[t] = label /\ ~exited

Wait(t) ==
  /\ At(t, "wait")
  /\ sem_wait
  /\ pc' = [pc EXCEPT ![t] = "begin"]
  /\ UNCHANGED <<todo, exited, ticked>>

(* Prints BEGINNING and starts the first sleep.                                *)
Begin(t) ==
  /\ At(t, "begin")
  /\ pc' = [pc EXCEPT ![t] = "sleep1"]
  /\ ticked' = ticked \ {t}
  /\ UNCHANGED <<gt_vars, sem_vars, todo, exited>>

(* The first sleep is over: prints END and starts the second one.              *)
End(t) ==
  /\ At(t, "sleep1")
  /\ t \in ticked
  /\ pc' = [pc EXCEPT ![t] = "sleep2"]
  /\ ticked' = ticked \ {t}
  /\ UNCHANGED <<gt_vars, sem_vars, todo, exited>>

Post(t) ==
  /\ At(t, "sleep2")
  /\ t \in ticked
  /\ sem_post
  /\ pc' = [pc EXCEPT ![t] = "wait"]
  /\ ticked' = ticked \ {t}
  /\ UNCHANGED <<todo, exited>>

(* The function returns into gt_stop, which is gt_return of a created thread.  *)
Return(t) ==
  /\ MayReturn
  /\ At(t, "wait")
  /\ pc' = [pc EXCEPT ![t] = "none"]
  /\ gt_schedule([state EXCEPT ![t] = "Unused"])
  /\ UNCHANGED <<sem_vars, todo, exited, ticked>>

(* gt_return frees a pointer that malloc has not returned: the saved rsp + 16, *)
(* one past the stack or inside it.  The allocator may end the process.        *)
Abort(t) ==
  /\ MayReturn
  /\ At(t, "wait")
  /\ exited' = TRUE
  /\ UNCHANGED <<gt_vars, sem_vars, todo, pc, ticked>>

Step(t) == Wait(t) \/ Begin(t) \/ End(t) \/ Post(t)

Next ==
  \/ CreateThread
  \/ MainReturns
  \/ Alarm
  \/ \E t \in Threads : Step(t) \/ Return(t) \/ Abort(t)

Spec == Init /\ [][Next]_vars

(* main gets through its creations; the timer keeps firing; a thread that is   *)
(* current again and again gets on with its straight-line code, each slice     *)
(* being 500 us long; and rand() leaves no Ready thread out for ever.          *)
Fairness ==
  /\ WF_vars(CreateThread)
  /\ WF_vars(MainReturns)
  /\ WF_vars(Alarm)
  /\ \A t \in Threads : SF_vars(Step(t))
  /\ \A t \in Threads : SF_vars(get_next_thread = "lottery" /\ Alarm /\ gt_current' = t)

FairSpec == Spec /\ Fairness

-------------------------------------------------------------------------------
(* Properties.                                                                 *)

(* The threads that passed sem_wait with a permit: taken at once, or handed to *)
(* them by the sem_post that removed them from the queue.                      *)
Holders == {t \in Threads : pc[t] \in Section} \ Waiting

(* Only gt_current is in state Running, and it is never Ready: update of the   *)
(* two threads in gt_schedule and the wake-up in sem_post keep the table in    *)
(* step with the thread that executes.                                         *)
RunningIsCurrent ==
  /\ state[gt_current] \in {"Running", "Blocked"}
  /\ \A t \in Threads : state[t] = "Running" => t = gt_current

(* The semaphore's queue and the table agree: the Blocked threads are those in *)
(* the queue, each once, although a thread that sem_wait has marked Blocked    *)
(* executes on until the next SIGALRM.                                         *)
WaitersAreBlocked ==
  /\ \A t \in Threads : state[t] = "Blocked" <=> t \in Waiting
  /\ IsInjective(queue)

(* Permits are neither lost nor made up by sem_wait, sem_post and the hand-off *)
(* to a queued thread, however the alarms fall.                                *)
PermitsConserved == value + Cardinality(Holders) = InitialValue

(* A slot is Unused exactly while no function runs in it: gt_schedule never    *)
(* resumes the thread that gt_return has just ended.                           *)
NoResurrection ==
  \A t \in Threads \ {0} : state[t] = "Unused" <=> pc[t] = "none"

(* The initial thread is there to be switched to whenever another one runs, so *)
(* that the algorithms' loops end also when gt_current is Blocked or Unused.   *)
InitialThreadReady == gt_current # 0 => state[0] = "Ready"

(* A winning ticket has one owner, and every owner's tickets can be drawn.     *)
TicketsDisjoint ==
  \A t \in Threads : state[t] # "Unused" =>
    /\ tickets_lo[t] <= tickets_hi[t]
    /\ tickets_hi[t] < total_tickets
    /\ \A u \in Threads \ {t} : state[u] # "Unused" =>
         tickets_hi[t] < tickets_lo[u] \/ tickets_hi[u] < tickets_lo[t]

(* Aging: a created thread is passed over at most as often as its priority     *)
(* number says before round_robin_prio chooses it.                             *)
AgingBound ==
  \A t \in Threads \ {0} : state[t] # "Unused" => skip_count[t] <= priority[t]

(* The inductive invariant behind the ones above.  It adds where the waiting   *)
(* threads are: one that executes on after sem_wait has been queued and marked *)
(* Blocked is out of its first sleep only after an alarm, and that alarm has   *)
(* switched to another thread, so it reaches END and sem_post only once woken. *)
WaitersInFirstSleep ==
  /\ \A t \in Waiting : pc[t] \in {"begin", "sleep1"}
  /\ gt_current \in Waiting => gt_current \notin ticked
  /\ \A t \in ticked : pc[t] \in Sleeps

IInv ==
  /\ TypeOK
  /\ priority[0] = MaxPriority
  /\ pc[0] = "none"
  /\ RunningIsCurrent
  /\ WaitersAreBlocked
  /\ WaitersInFirstSleep
  /\ value > 0 => queue = <<>>
  /\ PermitsConserved
  /\ InitialThreadReady
  /\ NoResurrection

(* Nobody overtakes the queue: a thread becomes a holder while others wait     *)
(* only by being the first of the queue.                                       *)
NoBarging ==
  [][\A t \in Threads : t \in Holders' \ Holders /\ queue # <<>> => t = Head(queue)]_vars

(* Every thread that waits for the semaphore gets it and runs.                 *)
WaitersAreServed ==
  \A t \in Threads : t \in Waiting ~> t \in Holders /\ gt_current = t

(* No thread starves: each Ready one runs again, under all three algorithms.   *)
ReadyThreadsRun ==
  \A t \in Threads : state[t] = "Ready" ~> state[t] = "Running"

(* What the names and comments of the semaphore promise: it blocks, so no more *)
(* threads are between BEGINNING and sem_post than it has permits.             *)
MutualExclusion ==
  Cardinality({t \in Threads : pc[t] \in Sleeps}) <= InitialValue

(* What gt_return says of the initial thread: it waits for the others to       *)
(* terminate, and exits then.                                                  *)
MainExits ==
  (todo = <<>> /\ \A t \in Threads \ {0} : state[t] = "Unused") ~> exited
===============================================================================
