--------------------------------- MODULE GQueue ---------------------------------
(*******************************************************************************)
(* The linked list of scheduler/g_queue.c, which a semaphore keeps its waiting *)
(* threads in.  A cell is an allocated struct queue_item; the memory of a cell *)
(* that is not allocated has no contents.  Running out of memory, which        *)
(* queue_push does not look for, is left out.                                  *)
(*******************************************************************************)
EXTENDS Sequences, Functions

CONSTANTS
  Cells,   \* what malloc may return for a queue_item
  NULL

ASSUME QueueAssumption == NULL \notin Cells

VARIABLES
  head, tail,   \* of struct queue_t
  thread_idx,   \* contents of the allocated cells
  next,
  chain         \* auxiliary: the cells from head on; nothing below reads it

list_vars == <<head, tail, thread_idx, next, chain>>

allocated == DOMAIN next

(* The numbers in the list, the oldest in front.                               *)
Items == [i \in DOMAIN chain |-> thread_idx[chain[i]]]

queue_init ==
  /\ head = NULL
  /\ tail = NULL
  /\ thread_idx = <<>>
  /\ next = <<>>
  /\ chain = <<>>

queue_is_empty == head = NULL

\* Mutant of Linked: the old last cell is not linked to the new one.
Linked_Not(c) == [d \in allocated \cup {c} |-> IF d = c THEN NULL ELSE next[d]]

(* The cells once c has been linked to the end.                                *)
Linked(c) ==
  [d \in allocated \cup {c} |->
     IF d = c THEN NULL ELSE IF d = tail /\ ~queue_is_empty THEN c ELSE next[d]]

queue_push(i) ==
  \E c \in Cells \ allocated :
    /\ thread_idx' = [d \in allocated \cup {c} |-> IF d = c THEN i ELSE thread_idx[d]]
    /\ next' = Linked(c)
    /\ head' = IF queue_is_empty THEN c ELSE head
    /\ tail' = c
    /\ chain' = Append(chain, c)

\* Mutant of TailAfterPop: tail is left on the freed cell.
TailAfterPop_Kept == tail

TailAfterPop == IF next[head] = NULL THEN NULL ELSE tail

\* Mutant of FreeHead: the cell is not freed.
FreeHead_Not == UNCHANGED <<thread_idx, next>>

FreeHead ==
  /\ thread_idx' = [d \in allocated \ {head} |-> thread_idx[d]]
  /\ next' = [d \in allocated \ {head} |-> next[d]]

\* Mutant of queue_pop: the cell that was pushed last is taken, as from a stack.
queue_pop_Newest(i) ==
  LET older == SubSeq(chain, 1, Len(chain) - 1)
      end   == IF older = <<>> THEN NULL ELSE older[Len(older)]
  IN /\ ~queue_is_empty
     /\ i = thread_idx[tail]
     /\ head' = IF older = <<>> THEN NULL ELSE head
     /\ tail' = end
     /\ thread_idx' = [d \in allocated \ {tail} |-> thread_idx[d]]
     /\ next' = [d \in allocated \ {tail} |-> IF d = end THEN NULL ELSE next[d]]
     /\ chain' = older

(* queue_pop of a list that is not empty, whose result is i.                   *)
queue_pop(i) ==
  /\ ~queue_is_empty
  /\ i = thread_idx[head]
  /\ head' = next[head]
  /\ tail' = TailAfterPop
  /\ FreeHead
  /\ chain' = Tail(chain)

-------------------------------------------------------------------------------
(* The pointers form one chain from head to tail: every push and pop, in every *)
(* order and with cells that are freed and allocated again, leaves no pointer  *)
(* to freed memory and no cycle; and the cells allocated are those in it, so   *)
(* that none is leaked and none freed while it is linked.                      *)
ListIsChain ==
  /\ IsInjective(chain)
  /\ chain = <<>> => head = NULL /\ tail = NULL
  /\ chain # <<>> => head = chain[1] /\ tail = chain[Len(chain)]
  /\ \A i \in DOMAIN chain :
       next[chain[i]] = IF i = Len(chain) THEN NULL ELSE chain[i + 1]
  /\ allocated = Range(chain)
  /\ DOMAIN thread_idx = Range(chain)
===============================================================================
