----------------------------- MODULE GthrListProofs -----------------------------
(*******************************************************************************)
(* Proofs about GQueue and GthrList: the linked list is a FIFO sequence, so    *)
(* that the program with the list implements the one with the sequence.        *)
(*******************************************************************************)
EXTENDS GthrList, CommonLemmas

(* What holds of the list between two operations.                              *)
ListInv ==
  /\ ListIsChain
  /\ chain \in Seq(Cells)
  /\ thread_idx \in [allocated -> Threads]

(* The list as a function on the positions.                                    *)
LEMMA ChainFacts ==
  ASSUME ListInv
  PROVE  /\ Len(chain) \in Nat
         /\ DOMAIN chain = 1 .. Len(chain)
         /\ chain = <<>> <=> Len(chain) = 0
         /\ \A i \in 1 .. Len(chain) : chain[i] \in Cells /\ chain[i] \in allocated
         /\ allocated = {chain[i] : i \in 1 .. Len(chain)}
         /\ \A i, j \in 1 .. Len(chain) : chain[i] = chain[j] => i = j
         /\ \A i \in 1 .. Len(chain) : thread_idx[chain[i]] \in Threads
<1>1. chain \in Seq(Cells) /\ thread_idx \in [allocated -> Threads] /\ IsInjective(chain)
      /\ allocated = Range(chain)
  BY DEF ListInv, ListIsChain
<1>2. /\ Len(chain) \in Nat
      /\ DOMAIN chain = 1 .. Len(chain)
      /\ chain = <<>> <=> Len(chain) = 0
  BY <1>1, LenProperties, EmptySeq
<1>3. /\ \A i \in 1 .. Len(chain) : chain[i] \in Cells
      /\ allocated = {chain[i] : i \in 1 .. Len(chain)}
  BY <1>1, <1>2, ElementOfSeq DEF Range
<1>4. \A i, j \in 1 .. Len(chain) : chain[i] = chain[j] => i = j
  BY <1>1, <1>2 DEF IsInjective
<1>5. \A i \in 1 .. Len(chain) : chain[i] \in allocated /\ thread_idx[chain[i]] \in Threads
  BY <1>1, <1>3
<1>6. QED
  BY <1>2, <1>3, <1>4, <1>5

(* The numbers in the list as a sequence, and what queue_is_empty says of it.  *)
LEMMA ItemsFacts ==
  ASSUME ListInv
  PROVE  /\ Items \in Seq(Threads)
         /\ Len(Items) = Len(chain)
         /\ \A i \in 1 .. Len(chain) : Items[i] = thread_idx[chain[i]]
         /\ queue_is_empty <=> Items = <<>>
<1>1. Items = [i \in 1 .. Len(chain) |-> thread_idx[chain[i]]]
  BY ChainFacts DEF Items
<1>2. Items \in [1 .. Len(chain) -> Threads] /\ Len(chain) \in Nat
  BY <1>1, ChainFacts
<1>3. Items \in Seq(Threads) /\ Len(Items) = Len(chain)
  BY <1>2, SeqDef, LenProperties
<1>4. Items = <<>> <=> chain = <<>>
  BY <1>3, ChainFacts, EmptySeq
<1>5. queue_is_empty <=> chain = <<>>
  <2>1. chain = <<>> => head = NULL
    BY DEF ListInv, ListIsChain
  <2>2. chain # <<>> => head = chain[1] /\ 1 \in 1 .. Len(chain)
    BY ChainFacts DEF ListInv, ListIsChain
  <2>3. QED
    BY <2>1, <2>2, ChainFacts, QueueAssumption DEF queue_is_empty
<1>6. QED
  BY <1>1, <1>3, <1>4, <1>5

(* A sequence is a function on the positions.                                  *)
LEMMA SequenceIsFunction ==
  ASSUME NEW S, NEW q \in Seq(S), NEW n \in Nat, Len(q) = n
  PROVE  DOMAIN q = 1 .. n /\ q = [k \in 1 .. n |-> q[k]]
<1>1. DOMAIN q = 1 .. n /\ q \in [1 .. n -> S]
  BY LenProperties
<1>2. QED
  BY <1>1

(* queue_push is Append, and leaves a chain.                                   *)
LEMMA PushAppends ==
  ASSUME ListInv, NEW i \in Threads, queue_push(i)
  PROVE  ListInv' /\ Items' = Append(Items, i)
<1>. DEFINE n == Len(chain)
<1>1. PICK c \in Cells \ allocated :
        /\ thread_idx' = [d \in allocated \cup {c} |-> IF d = c THEN i ELSE thread_idx[d]]
        /\ next' = Linked(c)
        /\ head' = IF queue_is_empty THEN c ELSE head
        /\ tail' = c
        /\ chain' = Append(chain, c)
  BY DEF queue_push
<1>2. /\ n \in Nat
      /\ \A k \in 1 .. n : chain[k] \in Cells /\ chain[k] \in allocated /\ chain[k] # c
      /\ allocated = {chain[k] : k \in 1 .. n}
      /\ \A k, l \in 1 .. n : chain[k] = chain[l] => k = l
  BY <1>1, ChainFacts
<1>3. /\ chain' \in Seq(Cells)
      /\ Len(chain') = n + 1
      /\ DOMAIN chain' = 1 .. n + 1
      /\ \A k \in 1 .. n : chain'[k] = chain[k]
      /\ chain'[n + 1] = c
      /\ chain' # <<>>
  <2>1. chain \in Seq(Cells)
    BY DEF ListInv
  <2>2. QED
    BY <1>1, <2>1, AppendProperties, LenProperties, EmptySeq
<1>. HIDE DEF n
<1>4. allocated' = allocated \cup {c}
  BY <1>1 DEF allocated, Linked
<1>5. thread_idx' \in [allocated' -> Threads] /\ DOMAIN thread_idx' = allocated'
  BY <1>1, <1>4 DEF ListInv
<1>6. Range(chain') = allocated' /\ IsInjective(chain')
  <2>1. Range(chain') = allocated'
    <3>1. Range(chain') = {chain'[k] : k \in 1 .. n + 1}
      BY <1>3 DEF Range
    <3>2. 1 .. n + 1 = (1 .. n) \cup {n + 1}
      BY <1>2
    <3>3. QED
      BY <1>2, <1>3, <1>4, <3>1, <3>2
  <2>2. ASSUME NEW k \in 1 .. n + 1, NEW l \in 1 .. n + 1, chain'[k] = chain'[l]
        PROVE  k = l
    <3>1. \A m \in 1 .. n + 1 : m = n + 1 \/ m \in 1 .. n
      BY <1>2
    <3>2. QED
      BY <1>2, <1>3, <2>2, <3>1
  <2>3. QED
    BY <1>3, <2>1, <2>2 DEF IsInjective
<1>7. queue_is_empty <=> n = 0
  BY ItemsFacts, ChainFacts, EmptySeq DEF n
<1>8. head' = chain'[1] /\ tail' = chain'[Len(chain')]
  <2>1. CASE n = 0
    BY <1>1, <1>3, <1>7, <2>1
  <2>2. CASE n # 0
    <3>1. 1 \in 1 .. n
      BY <1>2, <2>2
    <3>2. head = chain[1]
      BY <2>2, ChainFacts DEF ListInv, ListIsChain, n
    <3>3. QED
      BY <1>1, <1>3, <1>7, <2>2, <3>1, <3>2
  <2>3. QED
    BY <2>1, <2>2
<1>9. ASSUME NEW k \in 1 .. n + 1
      PROVE  next'[chain'[k]] = IF k = n + 1 THEN NULL ELSE chain'[k + 1]
  <2>1. CASE k = n + 1
    BY <1>1, <1>3, <2>1 DEF Linked
  <2>2. CASE k # n + 1
    <3>1. k \in 1 .. n /\ n # 0 /\ n \in 1 .. n
      BY <1>2, <2>2
    <3>2. /\ tail = chain[n]
          /\ next[chain[k]] = IF k = n THEN NULL ELSE chain[k + 1]
      BY <3>1, ChainFacts DEF ListInv, ListIsChain, n
    <3>3. next'[chain[k]] = IF chain[k] = tail THEN c ELSE next[chain[k]]
      BY <1>1, <1>2, <1>7, <3>1 DEF Linked
    <3>4. CASE k = n
      BY <1>3, <3>1, <3>2, <3>3, <3>4
    <3>5. CASE k # n
      <4>1. k + 1 \in 1 .. n /\ chain[k] # chain[n]
        BY <1>2, <3>1, <3>5
      <4>2. QED
        BY <1>3, <2>2, <3>1, <3>2, <3>3, <3>5, <4>1
    <3>6. QED
      BY <3>4, <3>5
  <2>3. QED
    BY <2>1, <2>2
<1>10. ListInv'
  <2>1. ListIsChain'
    BY <1>3, <1>5, <1>6, <1>8, <1>9 DEF ListIsChain
  <2>2. QED
    BY <1>3, <1>5, <2>1 DEF ListInv
<1>11. Items' = Append(Items, i)
  <2>1. /\ Items \in Seq(Threads) /\ Len(Items) = n
        /\ \A k \in 1 .. n : Items[k] = thread_idx[chain[k]]
    BY ItemsFacts DEF n
  <2>2. Items' = [k \in 1 .. n + 1 |-> thread_idx'[chain'[k]]]
    BY <1>3 DEF Items
  <2>3. /\ Append(Items, i) \in Seq(Threads)
        /\ DOMAIN Append(Items, i) = 1 .. n + 1
        /\ Append(Items, i) = [k \in 1 .. n + 1 |-> Append(Items, i)[k]]
        /\ \A k \in 1 .. n : Append(Items, i)[k] = Items[k]
        /\ Append(Items, i)[n + 1] = i
    <3>1. /\ Append(Items, i) \in Seq(Threads)
          /\ Len(Append(Items, i)) = n + 1
          /\ \A k \in 1 .. n : Append(Items, i)[k] = Items[k]
          /\ Append(Items, i)[n + 1] = i
      BY <2>1, AppendProperties
    <3>2. n + 1 \in Nat
      BY <1>2
    <3>3. QED
      BY <3>1, <3>2, SequenceIsFunction
  <2>4. ASSUME NEW k \in 1 .. n + 1
        PROVE  thread_idx'[chain'[k]] = Append(Items, i)[k]
    <3>1. CASE k = n + 1
      BY <1>1, <1>3, <2>3, <3>1
    <3>2. CASE k # n + 1
      <4>1. k \in 1 .. n
        BY <1>2, <3>2
      <4>2. QED
        BY <1>1, <1>2, <1>3, <2>1, <2>3, <4>1
    <3>3. QED
      BY <3>1, <3>2
  <2>5. [k \in 1 .. n + 1 |-> thread_idx'[chain'[k]]] = [k \in 1 .. n + 1 |-> Append(Items, i)[k]]
    BY <2>4, Zenon
  <2>6. QED
    BY <2>2, <2>3, <2>5, Zenon
<1>12. QED
  BY <1>10, <1>11

(* queue_pop gives the head and leaves the tail, which is a chain.             *)
LEMMA PopTakesHead ==
  ASSUME ListInv, NEW i \in Threads, queue_pop(i)
  PROVE  /\ ListInv'
         /\ Items # <<>>
         /\ i = Head(Items)
         /\ Items' = Tail(Items)
<1>. DEFINE n == Len(chain)
<1>1. /\ n \in Nat
      /\ \A k \in 1 .. n : chain[k] \in Cells /\ chain[k] \in allocated
      /\ allocated = {chain[k] : k \in 1 .. n}
      /\ \A k, l \in 1 .. n : chain[k] = chain[l] => k = l
  BY ChainFacts
<1>2. Items # <<>> /\ n # 0 /\ chain # <<>>
  BY ItemsFacts, ChainFacts, EmptySeq DEF queue_pop
<1>3. /\ chain' \in Seq(Cells)
      /\ Len(chain') = n - 1
      /\ DOMAIN chain' = 1 .. n - 1
      /\ \A k \in 1 .. n - 1 : chain'[k] = chain[k + 1]
  <2>1. chain \in Seq(Cells) /\ chain' = Tail(chain)
    BY DEF ListInv, queue_pop
  <2>2. QED
    BY <1>2, <2>1, HeadTailProperties, LenProperties
<1>4. /\ head = chain[1]
      /\ tail = chain[n]
      /\ \A k \in 1 .. n : next[chain[k]] = IF k = n THEN NULL ELSE chain[k + 1]
      /\ thread_idx \in [allocated -> Threads]
  BY <1>2, ChainFacts DEF ListInv, ListIsChain
<1>5. /\ thread_idx' = [d \in allocated \ {head} |-> thread_idx[d]]
      /\ next' = [d \in allocated \ {head} |-> next[d]]
      /\ head' = next[head]
      /\ tail' = IF next[head] = NULL THEN NULL ELSE tail
      /\ i = thread_idx[head]
  BY DEF queue_pop, FreeHead, TailAfterPop
<1>. HIDE DEF n
<1>6. allocated' = allocated \ {head}
  BY <1>5 DEF allocated
<1>7. thread_idx' \in [allocated' -> Threads] /\ DOMAIN thread_idx' = allocated'
  BY <1>4, <1>5, <1>6
<1>8. \A k \in 1 .. n - 1 : k \in 1 .. n /\ k + 1 \in 1 .. n /\ k + 1 # 1
  BY <1>1
<1>9. 1 \in 1 .. n /\ (n # 1 => 1 \in 1 .. n - 1 /\ n - 1 \in 1 .. n - 1)
  BY <1>1, <1>2
<1>10. Range(chain') = allocated' /\ IsInjective(chain')
  <2>1. Range(chain') \subseteq allocated'
    BY <1>1, <1>3, <1>4, <1>6, <1>8, <1>9 DEF Range
  <2>2. ASSUME NEW d \in allocated'
        PROVE  d \in Range(chain')
    <3>1. PICK k \in 1 .. n : d = chain[k]
      BY <1>1, <1>6, <2>2
    <3>2. k # 1
      BY <1>4, <1>6, <2>2, <3>1
    <3>3. k - 1 \in 1 .. n - 1 /\ (k - 1) + 1 = k
      BY <1>1, <3>2
    <3>4. chain'[k - 1] = d
      BY <1>3, <3>1, <3>3
    <3>5. QED
      BY <1>3, <3>3, <3>4 DEF Range
  <2>3. ASSUME NEW k \in 1 .. n - 1, NEW l \in 1 .. n - 1, chain'[k] = chain'[l]
        PROVE  k = l
    <3>1. k + 1 = l + 1
      BY <1>1, <1>3, <1>8, <2>3
    <3>2. QED
      BY <1>1, <3>1
  <2>4. QED
    BY <1>3, <2>1, <2>2, <2>3 DEF IsInjective
<1>11. n = 1 <=> chain' = <<>>
  BY <1>1, <1>3, EmptySeq
<1>12. next[head] = IF n = 1 THEN NULL ELSE chain'[1]
  BY <1>1, <1>3, <1>4, <1>9
<1>13. n # 1 => next[head] # NULL
  BY <1>1, <1>3, <1>8, <1>9, <1>12, QueueAssumption
<1>14. /\ n = 1 => head' = NULL /\ tail' = NULL
       /\ n # 1 => head' = chain'[1] /\ tail' = chain'[Len(chain')]
  <2>1. n # 1 => chain'[n - 1] = chain[n]
    BY <1>1, <1>3, <1>9
  <2>2. QED
    BY <1>3, <1>4, <1>5, <1>12, <1>13, <2>1
<1>15. ASSUME NEW k \in 1 .. n - 1
       PROVE  next'[chain'[k]] = IF k = n - 1 THEN NULL ELSE chain'[k + 1]
  <2>1. chain'[k] = chain[k + 1] /\ chain[k + 1] \in allocated \ {head}
    BY <1>1, <1>3, <1>4, <1>8, <1>9
  <2>2. next'[chain'[k]] = next[chain[k + 1]]
    BY <1>5, <2>1
  <2>3. next[chain[k + 1]] = IF k + 1 = n THEN NULL ELSE chain[k + 1 + 1]
    BY <1>4, <1>8
  <2>4. CASE k = n - 1
    BY <1>1, <2>2, <2>3, <2>4
  <2>5. CASE k # n - 1
    <3>1. k + 1 \in 1 .. n - 1 /\ k + 1 # n
      BY <1>1, <2>5
    <3>2. QED
      BY <1>3, <2>2, <2>3, <2>5, <3>1
  <2>6. QED
    BY <2>4, <2>5
<1>16. ListInv'
  <2>1. ListIsChain'
    BY <1>3, <1>7, <1>10, <1>11, <1>14, <1>15 DEF ListIsChain
  <2>2. QED
    BY <1>3, <1>7, <2>1 DEF ListInv
<1>17. i = Head(Items) /\ Items' = Tail(Items)
  <2>1. /\ Items \in Seq(Threads) /\ Len(Items) = n
        /\ \A k \in 1 .. n : Items[k] = thread_idx[chain[k]]
    BY ItemsFacts DEF n
  <2>2. Items' = [k \in 1 .. n - 1 |-> thread_idx'[chain'[k]]]
    BY <1>3 DEF Items
  <2>3. /\ Head(Items) = Items[1]
        /\ Tail(Items) \in Seq(Threads)
        /\ DOMAIN Tail(Items) = 1 .. n - 1
        /\ Tail(Items) = [k \in 1 .. n - 1 |-> Tail(Items)[k]]
        /\ \A k \in 1 .. n - 1 : Tail(Items)[k] = Items[k + 1]
    <3>1. /\ Head(Items) = Items[1]
          /\ Tail(Items) \in Seq(Threads)
          /\ Len(Tail(Items)) = n - 1
          /\ \A k \in 1 .. n - 1 : Tail(Items)[k] = Items[k + 1]
      BY <1>2, <2>1, HeadTailProperties
    <3>2. n - 1 \in Nat
      BY <1>1, <1>2
    <3>3. QED
      BY <3>1, <3>2, SequenceIsFunction
  <2>4. ASSUME NEW k \in 1 .. n - 1
        PROVE  thread_idx'[chain'[k]] = Tail(Items)[k]
    <3>1. chain'[k] = chain[k + 1] /\ chain[k + 1] \in allocated \ {head}
      BY <1>1, <1>3, <1>4, <1>8, <1>9
    <3>2. QED
      BY <1>5, <1>8, <2>1, <2>3, <3>1
  <2>5. [k \in 1 .. n - 1 |-> thread_idx'[chain'[k]]] = [k \in 1 .. n - 1 |-> Tail(Items)[k]]
    BY <2>4, Zenon
  <2>6. i = Head(Items)
    BY <1>4, <1>5, <1>9, <2>1, <2>3
  <2>7. QED
    BY <2>2, <2>3, <2>5, <2>6, Zenon
<1>18. QED
  BY <1>2, <1>16, <1>17

-------------------------------------------------------------------------------
(* The program.                                                                *)

(* gt_current is an index of the table, for queue_push to store.               *)
LInv == ListInv /\ gt_current \in Threads

LEMMA InitList ==
  ASSUME Init
  PROVE  LInv /\ Demo!Init
<1>1. chain = <<>> /\ next = <<>> /\ thread_idx = <<>> /\ head = NULL /\ tail = NULL
  BY DEF Init, queue_init
<1>2. ListIsChain
  BY <1>1 DEF ListIsChain, IsInjective, Range, allocated
<1>3. chain \in Seq(Cells) /\ thread_idx \in [allocated -> Threads]
  BY <1>1 DEF allocated
<1>4. gt_current \in Threads
  BY GthrAssumption DEF Init, Demo!Init, Demo!gt_init, Threads
<1>5. QED
  BY <1>2, <1>3, <1>4 DEF Init, LInv, ListInv

(* A switch goes to a slot of the table.                                       *)
LEMMA SwitchesInTable ==
  ASSUME NEW st, gt_current \in Threads, Demo!gt_schedule(st)
  PROVE  gt_current' \in Threads
BY DEF Demo!gt_schedule, Demo!SwitchTo, Demo!Threads, Threads

(* sem_wait with the list is sem_wait with the sequence.                       *)
LEMMA WaitImplements ==
  ASSUME LInv, NEW t \in Threads, WaitInList(t)
  PROVE  LInv' /\ Demo!Wait(t)
<1>1. CASE value > 0
  <2>1. UNCHANGED list_vars /\ Items' = Items
    BY <1>1 DEF WaitInList, list_vars, Items
  <2>2. LInv'
    BY <2>1 DEF LInv, ListInv, ListIsChain, allocated, list_vars, WaitInList
  <2>3. QED
    BY <1>1, <2>1, <2>2 DEF WaitInList, Demo!Wait, Demo!sem_wait, gt_fields, Demo!gt_fields
<1>2. CASE ~(value > 0)
  <2>1. ListInv' /\ Items' = Append(Items, gt_current)
    BY <1>2, PushAppends DEF WaitInList, LInv
  <2>2. QED
    BY <1>2, <2>1 DEF LInv, WaitInList, Demo!Wait, Demo!sem_wait, gt_fields, Demo!gt_fields
<1>3. QED
  BY <1>1, <1>2

(* sem_post with the list is sem_post with the sequence.                       *)
LEMMA PostImplements ==
  ASSUME LInv, NEW t \in Threads, PostFromList(t)
  PROVE  LInv' /\ Demo!Post(t)
<1>1. queue_is_empty <=> Items = <<>>
  BY ItemsFacts DEF LInv
<1>2. CASE queue_is_empty
  <2>1. UNCHANGED list_vars /\ Items' = Items
    BY <1>2 DEF PostFromList, list_vars, Items
  <2>2. LInv'
    BY <2>1 DEF LInv, ListInv, ListIsChain, allocated, list_vars, PostFromList
  <2>3. QED
    BY <1>1, <1>2, <2>1, <2>2 DEF PostFromList, Demo!Post, Demo!sem_post, gt_fields, Demo!gt_fields
<1>3. CASE ~queue_is_empty
  <2>1. PICK i \in Threads : queue_pop(i) /\ state' = [state EXCEPT ![i] = "Ready"]
    BY <1>3 DEF PostFromList
  <2>2. ListInv' /\ i = Head(Items) /\ Items' = Tail(Items)
    BY <2>1, PopTakesHead DEF LInv
  <2>3. QED
    BY <1>1, <1>3, <2>1, <2>2
       DEF LInv, PostFromList, Demo!Post, Demo!sem_post, gt_fields, Demo!gt_fields
<1>4. QED
  BY <1>2, <1>3

(* A step that leaves the list alone keeps the invariant.                      *)
LEMMA ElsewhereKeeps ==
  ASSUME LInv, UNCHANGED list_vars, gt_current' \in Threads
  PROVE  LInv'
BY DEF LInv, ListInv, ListIsChain, allocated, list_vars

LEMMA NextImplements ==
  ASSUME LInv, [Next]_list_demo_vars
  PROVE  LInv' /\ [Demo!Next]_Demo!vars
<1>1. CASE Elsewhere(Demo!CreateThread)
  <2>1. gt_current' = gt_current
    BY <1>1 DEF Elsewhere, Demo!CreateThread, Demo!CreateIn, Demo!gt_vars
  <2>2. QED
    BY <1>1, <2>1, ElsewhereKeeps DEF Elsewhere, Demo!Next, LInv
<1>2. CASE Elsewhere(Demo!MainReturns) \/ Elsewhere(Demo!Alarm)
  <2>1. gt_current' \in Threads
    BY <1>2, SwitchesInTable DEF Elsewhere, Demo!MainReturns, Demo!Alarm, LInv
  <2>2. QED
    BY <1>2, <2>1, ElsewhereKeeps DEF Elsewhere, Demo!Next
<1>3. ASSUME NEW t \in Threads, Step(t)
      PROVE  LInv' /\ Demo!Next
  <2>0. t \in Demo!Threads
    BY DEF Threads, Demo!Threads
  <2>1. CASE WaitInList(t)
    BY <2>0, <2>1, WaitImplements DEF Demo!Next, Demo!Step
  <2>2. CASE PostFromList(t)
    BY <2>0, <2>2, PostImplements DEF Demo!Next, Demo!Step
  <2>3. CASE Elsewhere(Demo!Begin(t)) \/ Elsewhere(Demo!End(t))
    <3>1. gt_current' = gt_current
      BY <2>3 DEF Elsewhere, Demo!Begin, Demo!End, Demo!gt_vars
    <3>2. QED
      BY <2>0, <2>3, <3>1, ElsewhereKeeps DEF Elsewhere, Demo!Next, Demo!Step, LInv
  <2>4. QED
    BY <1>3, <2>1, <2>2, <2>3 DEF Step
<1>4. CASE UNCHANGED list_demo_vars
  <2>1. UNCHANGED Demo!vars
    BY <1>4 DEF list_demo_vars, list_vars, gt_vars, gt_fields, Items,
                Demo!vars, Demo!gt_vars, Demo!gt_fields, Demo!sem_vars
  <2>2. LInv'
    BY <1>4, ElsewhereKeeps DEF list_demo_vars, gt_vars, LInv
  <2>3. QED
    BY <2>1, <2>2
<1>5. QED
  BY <1>1, <1>2, <1>3, <1>4 DEF Next

(* In every state the pointers form one chain of the allocated cells.          *)
THEOREM ListStaysChain == Spec => []ListIsChain
<1>1. Init => LInv
  BY InitList
<1>2. LInv /\ [Next]_list_demo_vars => LInv'
  BY NextImplements
<1>3. LInv => ListIsChain
  BY DEF LInv, ListInv
<1>4. QED
  BY <1>1, <1>2, <1>3, PTL DEF Spec

(* The program with the linked list implements the one with a FIFO sequence.   *)
THEOREM ListImplementsQueue == Spec => ImplementsDemo
<1>1. Init => LInv /\ Demo!Init
  BY InitList
<1>2. LInv /\ [Next]_list_demo_vars => LInv' /\ [Demo!Next]_Demo!vars
  BY NextImplements
<1>3. QED
  BY <1>1, <1>2, PTL DEF Spec, ImplementsDemo, Demo!Spec
===============================================================================
