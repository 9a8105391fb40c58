------------------------------- MODULE GthrNested -------------------------------
(*******************************************************************************)
(* gt_schedule in its steps.  It unblocks SIGALRM and arms the timer before it *)
(* does anything else, so that a process that is held up for 500 us in it      *)
(* takes the next alarm there, and gt_alarm_handle calls it once more on the   *)
(* same stack.  The threads here only compute, as g of scheduler/main.c does.  *)
(* The search of an algorithm and each update of a state are one step.         *)
(*******************************************************************************)
EXTENDS Gthr, SequencesExt

CONSTANTS
  Creates,    \* the priorities of the calls to gt_create, in order
  MaxFrames   \* bound of the calls of gt_schedule that are open on one stack

VARIABLES
  todo,     \* the calls to gt_create that main has still to make
  cpu,      \* the thread on whose stack the processor executes
  frames,   \* of each stack: the calls of gt_schedule open on it, the first in front
  ctx       \* saved context of each thread: a stack and the calls open on it then

nested_vars == <<gt_vars, todo, cpu, frames, ctx>>

(* A call's next step with its variables p, old and new.                       *)
gt_schedule_steps == {"choose", "old", "new", "switch indicator", "gt_switch"}
Called == [at |-> "choose", p |-> gt_current, old |-> gt_current, new |-> gt_current]

Init ==
  /\ gt_init
  /\ todo = Creates
  /\ cpu = 0
  /\ frames = [t \in Threads |-> <<>>]
  /\ ctx = [t \in Threads |-> [stack |-> t, open |-> 0]]

(* main creates its threads, each to start on a stack of its own.              *)
CreateThread ==
  /\ todo # <<>>
  /\ todo' = Tail(todo)
  /\ \E p \in Threads : CreateIn(p, Head(todo))
  /\ UNCHANGED <<cpu, frames, ctx>>

-------------------------------------------------------------------------------
(* gt_schedule.                                                                *)

(* Called: gt_reset_sig, and p = gt_current.                                   *)
Call ==
  /\ timer' = TRUE
  /\ frames' = [frames EXCEPT ![cpu] = Append(@, Called)]
  /\ UNCHANGED <<state, gt_current, skip_count, gt_fields, todo, cpu, ctx>>

Yield == cpu = 0 /\ frames[0] = <<>> /\ todo = <<>> /\ Call   \* gt_return of main
Alarm == timer /\ Len(frames[cpu]) < MaxFrames /\ Call        \* gt_alarm_handle

At(step) == frames[cpu] # <<>> /\ Last(frames[cpu]).at = step
Frame    == Last(frames[cpu])

GoOn(frame) == frames' = [frames EXCEPT ![cpu] = Append(Front(@), frame)]

Choose ==
  /\ At("choose")
  /\ \E p \in Threads : GetNext(state, p) /\ GoOn([Frame EXCEPT !.p = p, !.at = "old"])
  /\ UNCHANGED <<state, gt_current, timer, gt_fields, todo, cpu, ctx>>

UpdateOld ==
  /\ At("old")
  /\ state' = IF state[gt_current] \in {"Unused", "Blocked"} THEN state
              ELSE [state EXCEPT ![gt_current] = "Ready"]
  /\ GoOn([Frame EXCEPT !.at = "new"])
  /\ UNCHANGED <<gt_current, skip_count, timer, gt_fields, todo, cpu, ctx>>

UpdateNew ==
  /\ At("new")
  /\ state' = [state EXCEPT ![Frame.p] = "Running"]
  /\ GoOn([Frame EXCEPT !.at = "switch indicator"])
  /\ UNCHANGED <<gt_current, skip_count, timer, gt_fields, todo, cpu, ctx>>

SwitchIndicator ==
  /\ At("switch indicator")
  /\ gt_current' = Frame.p
  /\ GoOn([Frame EXCEPT !.at = "gt_switch", !.old = gt_current, !.new = Frame.p])
  /\ UNCHANGED <<state, skip_count, timer, gt_fields, todo, cpu, ctx>>

(* Saves where it is in old and goes where new was saved: to the beginning of  *)
(* the thread's function, or out of the call of gt_schedule that saved it.     *)
(* What happens when that call has returned since is not followed.             *)
gt_switch ==
  /\ At("gt_switch")
  /\ ctx' = [ctx EXCEPT ![Frame.old] = [stack |-> cpu, open |-> Len(frames[cpu])]]
  /\ LET new == ctx'[Frame.new] IN
       /\ cpu' = new.stack
       /\ new.open > 0 => frames[new.stack][new.open].at = "gt_switch"
       /\ frames' = [frames EXCEPT ![new.stack] = SubSeq(@, 1, new.open - 1)]
  /\ UNCHANGED <<gt_vars, todo>>

Next ==
  \/ CreateThread
  \/ Yield
  \/ Alarm
  \/ Choose
  \/ UpdateOld
  \/ UpdateNew
  \/ SwitchIndicator
  \/ gt_switch

Spec == Init /\ [][Next]_nested_vars

-------------------------------------------------------------------------------
(* What gt_schedule's comments say: the context saved is that of the current   *)
(* thread.  A thread that is not executing has its own stack in its context.   *)
OwnContext == \A t \in Threads \ {cpu} : ctx[t].stack = t
===============================================================================
