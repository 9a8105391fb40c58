-------------------------------- MODULE GthrList --------------------------------
(*******************************************************************************)
(* The program of GthrDemo with the semaphore as it is in memory: struct       *)
(* semaphore_t with its value and its linked list.  Only sem_wait and sem_post *)
(* touch the list; every other step is that of GthrDemo.  Seen through Items   *)
(* this program is GthrDemo.                                                   *)
(*******************************************************************************)
EXTENDS Gthr, GQueue

CONSTANTS Creates, InitialValue   \* as in GthrDemo

VARIABLES value, todo, exited, pc, ticked

(* The threads run f of main.c, which never returns.                           *)
Demo == INSTANCE GthrDemo WITH queue <- Items, MayReturn <- FALSE

list_demo_vars == <<gt_vars, value, list_vars, todo, exited, pc, ticked>>

Init ==
  /\ queue_init
  /\ Demo!Init

\* Mutant of WaitInList: the last permit is not given away.
WaitInList_KeepsOne(t) ==
  /\ Demo!At(t, "wait")
  /\ IF value > 1
       THEN /\ value' = value - 1
            /\ UNCHANGED <<state, list_vars>>
       ELSE /\ queue_push(gt_current)
            /\ state' = [state EXCEPT ![gt_current] = "Blocked"]
            /\ UNCHANGED value
  /\ pc' = [pc EXCEPT ![t] = "begin"]
  /\ UNCHANGED <<gt_current, skip_count, timer, gt_fields, todo, exited, ticked>>

(* sem_wait.                                                                   *)
WaitInList(t) ==
  /\ Demo!At(t, "wait")
  /\ IF value > 0
       THEN /\ value' = value - 1
            /\ UNCHANGED <<state, list_vars>>
       ELSE /\ queue_push(gt_current)
            /\ state' = [state EXCEPT ![gt_current] = "Blocked"]
            /\ UNCHANGED value
  /\ pc' = [pc EXCEPT ![t] = "begin"]
  /\ UNCHANGED <<gt_current, skip_count, timer, gt_fields, todo, exited, ticked>>

\* Mutant of PostFromList: the thread taken from the list is not made Ready.
PostFromList_NoWakeUp(t) ==
  /\ Demo!At(t, "sleep2")
  /\ t \in ticked
  /\ IF queue_is_empty
       THEN /\ value' = value + 1
            /\ UNCHANGED list_vars
       ELSE /\ \E i \in Threads : queue_pop(i)
            /\ UNCHANGED value
  /\ pc' = [pc EXCEPT ![t] = "wait"]
  /\ ticked' = ticked \ {t}
  /\ UNCHANGED <<state, gt_current, skip_count, timer, gt_fields, todo, exited>>

(* sem_post.                                                                   *)
PostFromList(t) ==
  /\ Demo!At(t, "sleep2")
  /\ t \in ticked
  /\ IF queue_is_empty
       THEN /\ value' = value + 1
            /\ UNCHANGED <<state, list_vars>>
       ELSE /\ \E i \in Threads :
                 /\ queue_pop(i)
                 /\ state' = [state EXCEPT ![i] = "Ready"]
            /\ UNCHANGED value
  /\ pc' = [pc EXCEPT ![t] = "wait"]
  /\ ticked' = ticked \ {t}
  /\ UNCHANGED <<gt_current, skip_count, timer, gt_fields, todo, exited>>

(* The steps of GthrDemo that leave the semaphore alone.                       *)
Elsewhere(A) == UNCHANGED list_vars /\ A

Step(t) ==
  \/ WaitInList(t)
  \/ PostFromList(t)
  \/ Elsewhere(Demo!Begin(t))
  \/ Elsewhere(Demo!End(t))

Next ==
  \/ Elsewhere(Demo!CreateThread)
  \/ Elsewhere(Demo!MainReturns)
  \/ Elsewhere(Demo!Alarm)
  \/ \E t \in Threads : Step(t)

Spec == Init /\ [][Next]_list_demo_vars

(* The fairness of GthrDemo.                                                   *)
Fairness ==
  /\ WF_list_demo_vars(Elsewhere(Demo!CreateThread))
  /\ WF_list_demo_vars(Elsewhere(Demo!MainReturns))
  /\ WF_list_demo_vars(Elsewhere(Demo!Alarm))
  /\ \A t \in Threads : SF_list_demo_vars(Step(t))
  /\ \A t \in Threads :
       SF_list_demo_vars(get_next_thread = "lottery" /\ Elsewhere(Demo!Alarm) /\ gt_current' = t)

FairSpec == Spec /\ Fairness

-------------------------------------------------------------------------------
(* Properties.                                                                 *)

(* With its linked list the program does what it does with a FIFO sequence:    *)
(* queue_push and queue_pop, called with signals masked, are Append and the    *)
(* removal of the head, and queue_is_empty tells sem_post the truth.           *)
ImplementsDemo == Demo!Spec

(* Nobody overtakes the list: whoever gets a permit while threads wait is the  *)
(* one at its head, and no running thread is faster.                           *)
NoBarging == Demo!NoBarging

(* Every thread in the list gets the permit and runs.                          *)
WaitersAreServed == Demo!WaitersAreServed

(* No thread starves: each Ready one runs again, under all three algorithms.   *)
ReadyThreadsRun == Demo!ReadyThreadsRun
===============================================================================
