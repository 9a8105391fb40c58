------------------------------- MODULE GSemaphore -------------------------------
(*******************************************************************************)
(* The counting semaphore of scheduler/g_semaphore.c over the FIFO of          *)
(* scheduler/g_queue.c.  Each operation runs with SIGALRM and SIGINT masked,   *)
(* so that no other thread runs before it ends: it is one step of gt_current.  *)
(*******************************************************************************)
EXTENDS Gthr, Sequences, Functions

VARIABLES
  value,   \* the semaphore's value
  queue    \* indices of the threads waiting, the first to be woken in front

sem_vars == <<value, queue>>

SemTypeOK ==
  /\ value \in Nat
  /\ queue \in Seq(Threads)

Waiting == Range(queue)

sem_init(initial_value) ==
  /\ value = initial_value
  /\ queue = <<>>

\* Mutant of sem_wait: the queued caller is not marked Blocked.
sem_wait_NotBlocked ==
  /\ IF value > 0
       THEN value' = value - 1 /\ UNCHANGED queue
       ELSE queue' = Append(queue, gt_current) /\ UNCHANGED value
  /\ UNCHANGED <<state, gt_current, skip_count, timer, gt_fields>>

(* Takes a permit, or queues the caller and marks it Blocked.  Either way the  *)
(* call returns to its caller: nothing here switches to another thread.        *)
sem_wait ==
  /\ IF value > 0
       THEN /\ value' = value - 1
            /\ UNCHANGED <<queue, state>>
       ELSE /\ queue' = Append(queue, gt_current)
            /\ state' = [state EXCEPT ![gt_current] = "Blocked"]
            /\ UNCHANGED value
  /\ UNCHANGED <<gt_current, skip_count, timer, gt_fields>>

\* Mutant of sem_post: the value grows also when a thread is woken.
sem_post_AlwaysAdds ==
  /\ value' = value + 1
  /\ IF queue = <<>>
       THEN UNCHANGED <<queue, state>>
       ELSE /\ queue' = Tail(queue)
            /\ state' = [state EXCEPT ![Head(queue)] = "Ready"]
  /\ UNCHANGED <<gt_current, skip_count, timer, gt_fields>>

(* Returns a permit, or hands it to the first thread of the queue.             *)
sem_post ==
  /\ IF queue = <<>>
       THEN /\ value' = value + 1
            /\ UNCHANGED <<queue, state>>
       ELSE /\ queue' = Tail(queue)
            /\ state' = [state EXCEPT ![Head(queue)] = "Ready"]
            /\ UNCHANGED value
  /\ UNCHANGED <<gt_current, skip_count, timer, gt_fields>>
===============================================================================
