-------------------------- MODULE ThreadPoolProofs --------------------------
(***************************************************************************)
(* What the blocking queue and the thread pool built on it keep true for    *)
(* every number of threads, workers and tasks and every capacity.           *)
(*                                                                         *)
(* The queue first.  ListShape is not inductive as it stands: that linking  *)
(* a node keeps the nodes distinct needs to know that a datum handed to a   *)
(* call in progress is in no other call and in no node, which is FreshArgs. *)
(* The typing of the pointers in turn needs ListShape (tail->next is        *)
(* written only when tail is a node), so the three are proved together as   *)
(* IInv.                                                                    *)
(*                                                                         *)
(* None of the pool's properties is inductive as it stands.  That a task    *)
(* runs once rests on the shape of the queue (a dequeued datum is in no     *)
(* node any more: IInv); that nobody is inside when the pool is freed rests *)
(* on where each thread may be (Placement) in each phase of the owner       *)
(* (Phases); and the queue's own invariant holds only because the owner     *)
(* destroys the queue when nobody is in it.  So all are proved together, as *)
(* PoolInv.                                                                 *)
(***************************************************************************)
EXTENDS ThreadPool, FiniteSetTheorems, SequenceTheorems, TLAPS

FreshArgs ==
  /\ \A t \in Threads : pc[t] \in {"enq", "enqWait"} => arg[t] \in Data
  /\ \A t, u \in Threads : (arg[t] = arg[u] /\ arg[t] # NULL) => t = u
  /\ \A t \in Threads : \A i \in 1..Len(linked) : linked[i] # arg[t]

IInv == TypeOK /\ ListShape /\ FreshArgs

ListTypeOK ==
  /\ head \in Data \union {NULL}
  /\ tail \in Data \union {NULL}
  /\ next \in [Data -> Data \union {NULL}]
  /\ current_size \in Nat
  /\ linked \in Seq(Data)
  /\ removed \in Seq(Data)

CallTypeOK ==
  /\ SignalTypeOK
  /\ alive \in BOOLEAN
  /\ pc \in [Threads -> PCs]
  /\ arg \in [Threads -> Data \union {NULL}]
  /\ caller \in [Threads -> {"user", "queue_clear", "queue_destroy"}]

(* Linking a node for a datum no node carries keeps the list well formed.   *)
LEMMA LinkKeepsShape ==
  ASSUME ListTypeOK, ListShape, NEW d \in Data,
         \A i \in 1..Len(linked) : linked[i] # d,
         LinkNode(d)
  PROVE  ListTypeOK' /\ ListShape'
<1> USE NullIsNoDatum
<1>1. ListTypeOK'
  <2>1. next' \in [Data -> Data \union {NULL}]
    BY DEF ListTypeOK, LinkNode
  <2>2. head' \in Data \union {NULL} /\ tail' \in Data \union {NULL}
    BY DEF ListTypeOK, LinkNode
  <2>3. current_size' \in Nat /\ linked' \in Seq(Data) /\ removed' \in Seq(Data)
    BY DEF ListTypeOK, LinkNode
  <2>4. QED BY <2>1, <2>2, <2>3 DEF ListTypeOK
<1>2. /\ Len(linked') = Len(linked) + 1
      /\ linked'[Len(linked) + 1] = d
      /\ \A i \in 1..Len(linked) : linked'[i] = linked[i]
      /\ removed' = removed
  BY DEF ListTypeOK, LinkNode
<1>3. (Len(removed) <= Len(linked) /\ current_size = Pending)'
  BY <1>2 DEF ListTypeOK, ListShape, queue_peek, LinkNode, Pending
<1>4. (\A i \in 1..Len(removed) : removed[i] = linked[i])'
  BY <1>2 DEF ListTypeOK, ListShape, queue_peek, Pending
<1>5. (\A i, j \in 1..Len(linked) : linked[i] = linked[j] => i = j)'
  BY <1>2 DEF ListTypeOK, ListShape, queue_peek, Pending
<1>6. (head = IF Pending = 0 THEN NULL ELSE linked[Len(removed) + 1])'
  BY <1>2 DEF ListTypeOK, ListShape, queue_peek, LinkNode, Pending
<1>7. (tail = IF Pending = 0 THEN NULL ELSE linked[Len(linked)])'
  BY <1>2 DEF ListTypeOK, ListShape, queue_peek, LinkNode, Pending
<1>8. (\A i \in (Len(removed) + 1)..Len(linked) :
         next[linked[i]] = IF i = Len(linked) THEN NULL ELSE linked[i + 1])'
  <2> SUFFICES ASSUME NEW i \in (Len(removed) + 1)..(Len(linked) + 1)
               PROVE  next'[linked'[i]] =
                        IF i = Len(linked) + 1 THEN NULL ELSE linked'[i + 1]
    BY <1>2
  <2>1. CASE i = Len(linked) + 1
    BY <2>1, <1>2 DEF ListTypeOK, ListShape, queue_peek, LinkNode, Pending
  <2>2. CASE i = Len(linked)
    <3>1. current_size # 0 /\ tail = linked[i] /\ tail \in Data /\ tail # d
      BY <2>2 DEF ListTypeOK, ListShape, queue_peek, Pending
    <3>2. QED BY <3>1, <2>2, <1>2 DEF ListTypeOK, LinkNode
  <2>3. CASE i < Len(linked)
    <3>1. /\ current_size # 0 /\ tail = linked[Len(linked)]
          /\ linked[i] \in Data /\ linked[i] # tail /\ linked[i] # d
      BY <2>3 DEF ListTypeOK, ListShape, queue_peek, Pending
    <3>2. next'[linked[i]] = next[linked[i]]
      BY <3>1 DEF ListTypeOK, LinkNode
    <3>3. next[linked[i]] = linked[i + 1] BY <2>3 DEF ListTypeOK, ListShape
    <3>4. linked'[i] = linked[i] /\ linked'[i + 1] = linked[i + 1]
      BY <2>3, <1>2 DEF ListTypeOK
    <3>5. QED BY <3>2, <3>3, <3>4, <2>3 DEF ListTypeOK
  <2>4. QED BY <2>1, <2>2, <2>3 DEF ListTypeOK
<1>9. QED BY <1>1, <1>3, <1>4, <1>5, <1>6, <1>7, <1>8 DEF ListShape, queue_peek

(* Unlinking the head of a list that is not empty keeps it well formed.     *)
LEMMA UnlinkKeepsShape ==
  ASSUME ListTypeOK, ListShape, current_size # 0, UnlinkHead
  PROVE  ListTypeOK' /\ ListShape'
<1> USE NullIsNoDatum
<1>1. /\ Len(removed) < Len(linked)
      /\ head = linked[Len(removed) + 1] /\ head \in Data
      /\ next[head] = IF Len(removed) + 1 = Len(linked) THEN NULL
                      ELSE linked[Len(removed) + 2]
  BY DEF ListTypeOK, ListShape, queue_peek, Pending
<1>2. /\ Len(removed') = Len(removed) + 1
      /\ removed'[Len(removed) + 1] = head
      /\ \A i \in 1..Len(removed) : removed'[i] = removed[i]
      /\ linked' = linked /\ next' = next
  BY <1>1 DEF ListTypeOK, UnlinkHead
<1>3. ListTypeOK'
  BY <1>1 DEF ListTypeOK, UnlinkHead
<1>4. (Len(removed) <= Len(linked) /\ current_size = Pending)'
  BY <1>1, <1>2 DEF ListTypeOK, ListShape, queue_peek, UnlinkHead, Pending
<1>5. (\A i \in 1..Len(removed) : removed[i] = linked[i])'
  BY <1>1, <1>2 DEF ListTypeOK, ListShape, queue_peek
<1>6. (head = IF Pending = 0 THEN NULL ELSE linked[Len(removed) + 1])'
  BY <1>1, <1>2 DEF ListTypeOK, UnlinkHead, Pending
<1>7. (tail = IF Pending = 0 THEN NULL ELSE linked[Len(linked)])'
  <2>1. linked \in Seq(Data) /\ Len(linked) \in Nat /\ Len(removed) \in Nat
    BY DEF ListTypeOK
  <2>2. tail = linked[Len(linked)]
    BY <1>1, <2>1 DEF ListShape, queue_peek, Pending
  <2>3. Len(removed) + 1 # Len(linked) => linked[Len(removed) + 2] \in Data
    BY <1>1, <2>1
  <2>4. QED BY <1>1, <1>2, <2>1, <2>2, <2>3 DEF UnlinkHead, Pending
<1>8. (\A i \in (Len(removed) + 1)..Len(linked) :
         next[linked[i]] = IF i = Len(linked) THEN NULL ELSE linked[i + 1])'
  BY <1>2 DEF ListTypeOK, ListShape, queue_peek
<1>9. (\A i, j \in 1..Len(linked) : linked[i] = linked[j] => i = j)'
  BY <1>2 DEF ListShape, queue_peek
<1>10. QED BY <1>3, <1>4, <1>5, <1>6, <1>7, <1>8, <1>9 DEF ListShape, queue_peek

(* The steps that leave the list alone.                                     *)
LEMMA QuietKeepsShape ==
  ASSUME ListTypeOK, ListShape, UNCHANGED listVars
  PROVE  ListTypeOK' /\ ListShape'
BY DEF ListTypeOK, ListShape, queue_peek, Pending, listVars

(* TypeOK is the typing of the list and that of the calls in progress.      *)
LEMMA TypeSplit == TypeOK <=> ListTypeOK /\ CallTypeOK
BY DEF TypeOK, ListTypeOK, CallTypeOK

(* pthread_cond_signal moves at most one sleeper, and only to resume.       *)
LEMMA CondSignalType ==
  ASSUME NEW waiters \in SUBSET Threads, NEW resume \in PCs,
         NEW p \in [Threads -> PCs], CondSignal(waiters, resume, p)
  PROVE  /\ pc' \in [Threads -> PCs]
         /\ \A t \in Threads : pc'[t] = p[t] \/ (t \in waiters /\ pc'[t] = resume)
BY DEF CondSignal

(* queue_init establishes the inductive invariant.                          *)
LEMMA InitIInv == Init => IInv
BY NullIsNoDatum
DEF Init, QueueInit, SignalInit, SignalTypeOK, IInv, TypeOK, ListShape, queue_peek,
    FreshArgs, Pending, PCs, ACTIVE, SHUTDOWN

(* Every step of every thread, and every signal, preserves it.              *)
LEMMA StepIInv == IInv /\ [Next]_vars => IInv'
<1> SUFFICES ASSUME IInv, [Next]_vars PROVE IInv'
  OBVIOUS
<1> USE NullIsNoDatum
<1>0. ListTypeOK /\ CallTypeOK /\ ListShape /\ FreshArgs
  BY TypeSplit DEF IInv
<1>a. ASSUME ListTypeOK' /\ ListShape', CallTypeOK', FreshArgs' PROVE IInv'
  BY <1>a, TypeSplit DEF IInv, TypeOK, ListTypeOK, CallTypeOK
<1>1. ASSUME NEW t \in Threads, EnqueueWait(t) PROVE IInv'
  <2>1. CallTypeOK' BY <1>0, <1>1 DEF EnqueueWait, CallTypeOK, PCs, SignalTypeOK
  <2>2. FreshArgs' BY <1>0, <1>1 DEF EnqueueWait, FreshArgs, CallTypeOK, listVars
  <2>3. QED BY <1>0, <1>1, <1>a, <2>1, <2>2, QuietKeepsShape DEF EnqueueWait
<1>2. ASSUME NEW t \in Threads, EnqueueLink(t) PROVE IInv'
  <2> DEFINE p == [pc EXCEPT ![t] = "idle"]
  <2>1. p \in [Threads -> PCs] /\ NotEmptyWaiters \in SUBSET Threads
    BY <1>0 DEF CallTypeOK, PCs, NotEmptyWaiters, At
  <2>2. CondSignal(NotEmptyWaiters, "deq", p) /\ "deq" \in PCs
    BY <1>2 DEF EnqueueLink, SignalNotEmpty, PCs
  <2> HIDE DEF p
  <2>3. /\ pc' \in [Threads -> PCs]
        /\ \A u \in Threads : pc'[u] = p[u] \/ pc'[u] = "deq"
    BY <2>1, <2>2, CondSignalType
  <2> USE DEF p
  <2>4. arg[t] \in Data /\ \A i \in 1..Len(linked) : linked[i] # arg[t]
    BY <1>0, <1>2 DEF EnqueueLink, FreshArgs
  <2>5. ListTypeOK' /\ ListShape'
    BY <1>0, <1>2, <2>4, LinkKeepsShape DEF EnqueueLink
  <2>6. CallTypeOK'
    BY <1>0, <1>2, <2>3 DEF EnqueueLink, CallTypeOK, SignalTypeOK
  <2>7. FreshArgs'
    <3>1. arg' = [arg EXCEPT ![t] = NULL] /\ linked' = Append(linked, arg[t])
      BY <1>2 DEF EnqueueLink, LinkNode
    <3>2. \A u \in Threads : pc'[u] \in {"enq", "enqWait"} =>
                               u # t /\ pc[u] \in {"enq", "enqWait"}
      BY <1>0, <2>3 DEF CallTypeOK
    <3>3. \A u \in Threads : \A i \in 1..Len(linked') : linked'[i] # arg'[u]
      <4> SUFFICES ASSUME NEW u \in Threads, NEW i \in 1..Len(linked')
                   PROVE  linked'[i] # arg'[u]
        OBVIOUS
      <4>1. CASE u = t
        BY <4>1, <3>1, <2>5, <1>0 DEF ListTypeOK, CallTypeOK
      <4>2. CASE u # t /\ i = Len(linked) + 1
        BY <4>2, <3>1, <2>4, <1>0 DEF ListTypeOK, CallTypeOK, FreshArgs
      <4>3. CASE u # t /\ i # Len(linked) + 1
        BY <4>3, <3>1, <1>0 DEF ListTypeOK, CallTypeOK, FreshArgs
      <4>4. QED BY <4>1, <4>2, <4>3
    <3>4. QED BY <1>0, <3>1, <3>2, <3>3 DEF FreshArgs, CallTypeOK
  <2>8. QED BY <1>a, <2>5, <2>6, <2>7
<1>3. ASSUME NEW t \in Threads, DequeueWait(t) PROVE IInv'
  <2>1. CallTypeOK' BY <1>0, <1>3 DEF DequeueWait, CallTypeOK, PCs, SignalTypeOK
  <2>2. FreshArgs' BY <1>0, <1>3 DEF DequeueWait, FreshArgs, CallTypeOK, listVars
  <2>3. QED BY <1>0, <1>3, <1>a, <2>1, <2>2, QuietKeepsShape DEF DequeueWait
<1>4. ASSUME NEW t \in Threads, DequeueShutdown(t) PROVE IInv'
  <2>1. CallTypeOK'
    BY <1>0, <1>4 DEF DequeueShutdown, CallTypeOK, PCs, SignalTypeOK, ReturnTo
  <2>2. FreshArgs'
    BY <1>0, <1>4 DEF DequeueShutdown, FreshArgs, CallTypeOK, listVars, ReturnTo
  <2>3. QED BY <1>0, <1>4, <1>a, <2>1, <2>2, QuietKeepsShape DEF DequeueShutdown
<1>5. ASSUME NEW t \in Threads, DequeueTake(t) PROVE IInv'
  <2> DEFINE p == [pc EXCEPT ![t] = ReturnTo(t)]
  <2>1. p \in [Threads -> PCs] /\ NotFullWaiters \in SUBSET Threads
    BY <1>0 DEF CallTypeOK, PCs, NotFullWaiters, At, ReturnTo
  <2>2. CondSignal(NotFullWaiters, "enq", p) /\ "enq" \in PCs
    BY <1>5 DEF DequeueTake, SignalNotFull, PCs
  <2> HIDE DEF p
  <2>3. /\ pc' \in [Threads -> PCs]
        /\ \A u \in Threads : pc'[u] = p[u] \/ (u \in NotFullWaiters /\ pc'[u] = "enq")
    BY <2>1, <2>2, CondSignalType
  <2> USE DEF p
  <2>4. ListTypeOK' /\ ListShape'
    BY <1>0, <1>5, UnlinkKeepsShape DEF DequeueTake, queue_is_empty
  <2>5. CallTypeOK'
    BY <1>0, <1>5, <2>3 DEF DequeueTake, CallTypeOK, SignalTypeOK
  <2>6. FreshArgs'
    BY <1>0, <1>5, <2>3
    DEF DequeueTake, UnlinkHead, FreshArgs, CallTypeOK, NotFullWaiters, At, ReturnTo
  <2>7. QED BY <1>a, <2>4, <2>5, <2>6
<1>6. ASSUME NEW t \in Threads, ClearTest(t) PROVE IInv'
  <2>1. CallTypeOK' BY <1>0, <1>6 DEF ClearTest, CallTypeOK, PCs, SignalTypeOK
  <2>2. FreshArgs' BY <1>0, <1>6 DEF ClearTest, FreshArgs, CallTypeOK, listVars
  <2>3. QED BY <1>0, <1>6, <1>a, <2>1, <2>2, QuietKeepsShape DEF ClearTest
<1>7. ASSUME NEW t \in Threads, NEW d \in Data, EnqueueCall(t, d) PROVE IInv'
  <2>1. CallTypeOK' BY <1>0, <1>7 DEF EnqueueCall, CallTypeOK, PCs, SignalTypeOK
  <2>2. FreshArgs'
    BY <1>0, <1>7 DEF EnqueueCall, Fresh, FreshArgs, CallTypeOK, listVars, ListTypeOK
  <2>3. QED BY <1>0, <1>7, <1>a, <2>1, <2>2, QuietKeepsShape DEF EnqueueCall
<1>8. ASSUME NEW t \in Threads, DequeueCall(t) \/ ClearCall(t) \/ DestroyCall(t)
      PROVE  IInv'
  <2>1. CallTypeOK'
    BY <1>0, <1>8
    DEF DequeueCall, ClearCall, DestroyCall, CallTypeOK, PCs, SignalTypeOK
  <2>2. FreshArgs'
    BY <1>0, <1>8
    DEF DequeueCall, ClearCall, DestroyCall, FreshArgs, CallTypeOK, listVars
  <2>3. QED BY <1>0, <1>8, <1>a, <2>1, <2>2, QuietKeepsShape
            DEF DequeueCall, ClearCall, DestroyCall
<1>9. ASSUME NEW t \in Threads, SpuriousWakeup(t) PROVE IInv'
  <2>1. CallTypeOK' BY <1>0, <1>9 DEF SpuriousWakeup, CallTypeOK, PCs, SignalTypeOK
  <2>2. FreshArgs' BY <1>0, <1>9 DEF SpuriousWakeup, FreshArgs, CallTypeOK, listVars
  <2>3. QED BY <1>0, <1>9, <1>a, <2>1, <2>2, QuietKeepsShape DEF SpuriousWakeup
<1>10. ASSUME DeliverSignal \/ UNCHANGED vars PROVE IInv'
  <2>1. UNCHANGED queueVars /\ signal_flag' \in {ACTIVE, SHUTDOWN}
    BY <1>0, <1>10
    DEF DeliverSignal, vars, queueVars, CallTypeOK, SignalTypeOK, signal_handler,
        signal_wait_thread
  <2>2. CallTypeOK' BY <1>0, <2>1 DEF CallTypeOK, SignalTypeOK, queueVars
  <2>3. FreshArgs' BY <1>0, <2>1 DEF FreshArgs, queueVars
  <2>4. UNCHANGED listVars BY <2>1 DEF queueVars, listVars
  <2>5. QED BY <1>0, <1>a, <2>2, <2>3, <2>4, QuietKeepsShape
<1>11. QED
  BY <1>1, <1>2, <1>3, <1>4, <1>5, <1>6, <1>7, <1>8, <1>9, <1>10
  DEF Next, ThreadStep, ThreadCall

(* The pointers stay pointers, the count stays a number.                    *)
THEOREM QueueTypeCorrect == Spec => []TypeOK
<1>1. Spec => []IInv BY InitIInv, StepIInv, PTL DEF Spec
<1>2. IInv => TypeOK BY DEF IInv
<1>3. QED BY <1>1, <1>2, PTL

(* The list of nodes is at every moment the data that were enqueued and not *)
(* dequeued, in order, with head, tail and current_size agreeing.           *)
THEOREM QueueShape == Spec => []ListShape
<1>1. Spec => []IInv BY InitIInv, StepIInv, PTL DEF Spec
<1>2. IInv => ListShape BY DEF IInv
<1>3. QED BY <1>1, <1>2, PTL

----------------------------------------------------------------------------
(* The capacity bound is inductive given the typing.                        *)
THEOREM QueueCapacity == Spec => []WithinCapacity
<1>1. Init => WithinCapacity
  BY MaxSizeNat DEF Init, QueueInit, WithinCapacity, QUEUE_UNBOUNDED
<1>2. TypeOK /\ WithinCapacity /\ [Next]_vars => WithinCapacity'
  <2> SUFFICES ASSUME TypeOK, WithinCapacity, [Next]_vars PROVE WithinCapacity'
    OBVIOUS
  <2> USE MaxSizeNat DEF WithinCapacity, TypeOK
  <2>1. ASSUME UNCHANGED current_size PROVE WithinCapacity'
    BY <2>1
  <2>2. ASSUME NEW t \in Threads, EnqueueLink(t) PROVE WithinCapacity'
    BY <2>2 DEF EnqueueLink, LinkNode, queue_is_full
  <2>3. ASSUME NEW t \in Threads, DequeueTake(t) PROVE WithinCapacity'
    BY <2>3 DEF DequeueTake, UnlinkHead, queue_is_empty
  <2>4. QED
    BY <2>1, <2>2, <2>3
    DEF Next, ThreadStep, ThreadCall, EnqueueWait, DequeueWait, DequeueShutdown,
        ClearTest, EnqueueCall, DequeueCall, ClearCall, DestroyCall,
        SpuriousWakeup, DeliverSignal, vars, queueVars, listVars
<1>3. QED BY <1>1, <1>2, QueueTypeCorrect, PTL DEF Spec

----------------------------------------------------------------------------
(* Counting threads.                                                        *)
LEMMA CountSubset ==
  ASSUME NEW S \in SUBSET Threads, NEW T \in SUBSET Threads, S \subseteq T
  PROVE  Cardinality(S) \in Nat /\ Cardinality(T) \in Nat
         /\ Cardinality(S) <= Cardinality(T)
<1>1. IsFiniteSet(S) /\ IsFiniteSet(T)
  BY ThreadsFinite, FS_Subset
<1>2. QED BY <1>1, FS_Subset, FS_CardinalityType

(* A thread that joins a set of threads is counted once ...                 *)
LEMMA CountAdd ==
  ASSUME NEW S \in SUBSET Threads, NEW w \in Threads, w \notin S
  PROVE  Cardinality(S) \in Nat /\ Cardinality(S \union {w}) = Cardinality(S) + 1
<1>1. IsFiniteSet(S) BY ThreadsFinite, FS_Subset
<1>2. QED BY <1>1, FS_AddElement, FS_CardinalityType

(* ... and so is one that leaves it.                                        *)
LEMMA CountRemove ==
  ASSUME NEW S \in SUBSET Threads, NEW t \in S
  PROVE  Cardinality(S) \in Nat /\ Cardinality(S \ {t}) = Cardinality(S) - 1
<1>1. IsFiniteSet(S) BY ThreadsFinite, FS_Subset
<1>2. QED BY <1>1, FS_RemoveElement, FS_CardinalityType

(* How the steps move threads between the places the counts are about.      *)
LEMMA LinkMoves ==
  ASSUME TypeOK, NEW t \in Threads, EnqueueLink(t)
  PROVE  /\ At("enq")' = At("enq") \ {t} /\ t \in At("enq")
         /\ At("enqWait")' = At("enqWait")
         /\ \/ At("deqWait") = {} /\ At("deqWait")' = {}
            \/ \E w \in At("deqWait") : w \notin At("deq")
                                      /\ At("deq")' = At("deq") \union {w}
<1> DEFINE p == [pc EXCEPT ![t] = "idle"]
<1>1. /\ pc \in [Threads -> PCs] /\ pc[t] = "enq"
      /\ p \in [Threads -> PCs] /\ p[t] = "idle"
      /\ \A u \in Threads : u # t => p[u] = pc[u]
      /\ CondSignal(At("deqWait"), "deq", p)
  BY DEF TypeOK, EnqueueLink, SignalNotEmpty, NotEmptyWaiters, PCs
<1> HIDE DEF p
<1>2. CASE At("deqWait") = {}
  BY <1>1, <1>2 DEF CondSignal, At
<1>3. CASE At("deqWait") # {}
  <2>1. PICK w \in At("deqWait") : pc' = [p EXCEPT ![w] = "deq"]
    BY <1>1, <1>3 DEF CondSignal
  <2>2. w \in Threads /\ w # t /\ pc[w] = "deqWait" BY <1>1 DEF At
  <2>3. /\ pc' \in [Threads -> PCs] /\ pc'[w] = "deq" /\ pc'[t] = "idle"
        /\ \A u \in Threads : u \notin {t, w} => pc'[u] = pc[u]
    BY <1>1, <2>1, <2>2 DEF PCs
  <2>4. At("enq")' = At("enq") \ {t} /\ t \in At("enq") BY <1>1, <2>2, <2>3 DEF At
  <2>5. At("enqWait")' = At("enqWait") BY <1>1, <2>2, <2>3 DEF At
  <2>6. w \notin At("deq") /\ At("deq")' = At("deq") \union {w} BY <1>1, <2>2, <2>3 DEF At
  <2>7. QED BY <2>4, <2>5, <2>6
<1>4. QED BY <1>2, <1>3

(* The same for queue_dequeue and the sleeping producers.                   *)
LEMMA TakeMoves ==
  ASSUME TypeOK, NEW t \in Threads, DequeueTake(t)
  PROVE  /\ At("deq")' = At("deq") \ {t} /\ t \in At("deq")
         /\ At("deqWait")' = At("deqWait")
         /\ \/ At("enqWait") = {} /\ At("enqWait")' = {}
            \/ \E w \in At("enqWait") : w \notin At("enq")
                                      /\ At("enq")' = At("enq") \union {w}
<1> DEFINE p == [pc EXCEPT ![t] = ReturnTo(t)]
<1>1. /\ pc \in [Threads -> PCs] /\ pc[t] = "deq"
      /\ p \in [Threads -> PCs] /\ p[t] \in {"idle", "clear"}
      /\ \A u \in Threads : u # t => p[u] = pc[u]
      /\ CondSignal(At("enqWait"), "enq", p)
  BY DEF TypeOK, DequeueTake, SignalNotFull, NotFullWaiters, PCs, ReturnTo
<1> HIDE DEF p
<1>2. CASE At("enqWait") = {}
  BY <1>1, <1>2 DEF CondSignal, At
<1>3. CASE At("enqWait") # {}
  <2>1. PICK w \in At("enqWait") : pc' = [p EXCEPT ![w] = "enq"]
    BY <1>1, <1>3 DEF CondSignal
  <2>2. w \in Threads /\ w # t /\ pc[w] = "enqWait" /\ w \notin At("enq")
    BY <1>1, <2>1 DEF At
  <2>3. \A u \in Threads : pc'[u] = IF u = w THEN "enq" ELSE p[u]
    BY <1>1, <2>1
  <2>4. At("enq")' = At("enq") \union {w}
    BY <1>1, <2>2, <2>3 DEF At
  <2>5. At("deq")' = At("deq") \ {t} /\ t \in At("deq") /\ At("deqWait")' = At("deqWait")
    BY <1>1, <2>2, <2>3 DEF At
  <2>6. QED BY <2>2, <2>4, <2>5
<1>4. QED BY <1>2, <1>3

(* No wakeup is lost: an item in the queue always has an awake consumer     *)
(* while another consumer sleeps.                                           *)
THEOREM QueueNoLostItem == Spec => []NoLostItem
<1>1. Init => NoLostItem
  BY DEF Init, QueueInit, NoLostItem, NotEmptyWaiters, At
<1>2. TypeOK /\ NoLostItem /\ [Next]_vars => NoLostItem'
  <2> SUFFICES ASSUME TypeOK, NoLostItem, [Next]_vars, NotEmptyWaiters' # {}
               PROVE  (Cardinality(At("deq")) >= current_size)'
    BY DEF NoLostItem
  <2>1. /\ At("deq") \in SUBSET Threads /\ At("deq")' \in SUBSET Threads
        /\ Cardinality(At("deq")) \in Nat /\ Cardinality(At("deq")') \in Nat
        /\ current_size \in Nat
    BY CountSubset DEF At, TypeOK
  <2>2. ASSUME NEW t \in Threads, EnqueueLink(t)
        PROVE  (Cardinality(At("deq")) >= current_size)'
    <3>1. PICK w \in At("deqWait") : w \notin At("deq")
                                  /\ At("deq")' = At("deq") \union {w}
      BY <2>2, LinkMoves DEF NotEmptyWaiters
    <3>2. Cardinality(At("deq")') = Cardinality(At("deq")) + 1
      BY <2>1, <3>1, CountAdd DEF At
    <3>3. current_size' = current_size + 1 /\ NotEmptyWaiters # {}
      BY <2>2, <3>1 DEF EnqueueLink, LinkNode, NotEmptyWaiters
    <3>4. QED BY <2>1, <3>2, <3>3 DEF NoLostItem
  <2>3. ASSUME NEW t \in Threads, DequeueTake(t)
        PROVE  (Cardinality(At("deq")) >= current_size)'
    <3>1. Cardinality(At("deq")') = Cardinality(At("deq")) - 1
      BY <2>1, <2>3, TakeMoves, CountRemove
    <3>2. current_size' = current_size - 1 /\ NotEmptyWaiters # {}
      BY <2>3, TakeMoves DEF DequeueTake, UnlinkHead, NotEmptyWaiters
    <3>3. QED BY <2>1, <3>1, <3>2 DEF NoLostItem
  <2>4. ASSUME NEW t \in Threads, DequeueWait(t) \/ DequeueShutdown(t)
        PROVE  (Cardinality(At("deq")) >= current_size)'
    BY <2>1, <2>4 DEF DequeueWait, DequeueShutdown, queue_is_empty, listVars
  <2>5. ASSUME At("deq") \subseteq At("deq")', NotEmptyWaiters' \subseteq NotEmptyWaiters,
               UNCHANGED current_size
        PROVE  (Cardinality(At("deq")) >= current_size)'
    <3>1. Cardinality(At("deq")) <= Cardinality(At("deq")')
      BY <2>1, <2>5, CountSubset
    <3>2. QED BY <2>1, <2>5, <3>1 DEF NoLostItem
  <2>6. ASSUME NEW t \in Threads,
               \/ EnqueueWait(t) \/ ClearTest(t) \/ DequeueCall(t) \/ ClearCall(t)
               \/ DestroyCall(t) \/ SpuriousWakeup(t)
               \/ \E d \in Data : EnqueueCall(t, d)
        PROVE  (Cardinality(At("deq")) >= current_size)'
    <3>1. /\ At("deq") \subseteq At("deq")'
          /\ NotEmptyWaiters' \subseteq NotEmptyWaiters
      BY <2>6
      DEF EnqueueWait, ClearTest, DequeueCall, ClearCall, DestroyCall,
          SpuriousWakeup, EnqueueCall, At, NotEmptyWaiters, TypeOK
    <3>2. UNCHANGED current_size
      BY <2>6
      DEF EnqueueWait, ClearTest, DequeueCall, ClearCall, DestroyCall,
          SpuriousWakeup, EnqueueCall, listVars
    <3>3. QED BY <2>5, <3>1, <3>2
  <2>7. ASSUME DeliverSignal \/ UNCHANGED vars
        PROVE  (Cardinality(At("deq")) >= current_size)'
    BY <2>5, <2>7 DEF DeliverSignal, vars, queueVars, At, NotEmptyWaiters
  <2>8. QED
    BY <2>2, <2>3, <2>4, <2>6, <2>7 DEF Next, ThreadStep, ThreadCall
<1>3. QED BY <1>1, <1>2, QueueTypeCorrect, PTL DEF Spec

(* The same for producers: a free place always has an awake producer while  *)
(* another producer sleeps.                                                 *)
THEOREM QueueNoLostPlace == Spec => []NoLostPlace
<1>1. Init => NoLostPlace
  BY DEF Init, QueueInit, NoLostPlace, NotFullWaiters, At
<1>2. TypeOK /\ NoLostPlace /\ [Next]_vars => NoLostPlace'
  <2> SUFFICES ASSUME TypeOK, NoLostPlace, [Next]_vars, NotFullWaiters' # {}
               PROVE  (Cardinality(At("enq")) + current_size >= MaxSize)'
    BY DEF NoLostPlace
  <2> USE MaxSizeNat
  <2>1. /\ At("enq") \in SUBSET Threads /\ At("enq")' \in SUBSET Threads
        /\ Cardinality(At("enq")) \in Nat /\ Cardinality(At("enq")') \in Nat
        /\ current_size \in Nat
    BY CountSubset DEF At, TypeOK
  <2>2. ASSUME NEW t \in Threads, EnqueueLink(t)
        PROVE  (Cardinality(At("enq")) + current_size >= MaxSize)'
    <3>1. Cardinality(At("enq")') = Cardinality(At("enq")) - 1
      BY <2>1, <2>2, LinkMoves, CountRemove
    <3>2. current_size' = current_size + 1 /\ NotFullWaiters # {}
      BY <2>2, LinkMoves DEF EnqueueLink, LinkNode, NotFullWaiters
    <3>3. QED BY <2>1, <3>1, <3>2 DEF NoLostPlace
  <2>3. ASSUME NEW t \in Threads, DequeueTake(t)
        PROVE  (Cardinality(At("enq")) + current_size >= MaxSize)'
    <3>1. PICK w \in At("enqWait") : w \notin At("enq")
                                  /\ At("enq")' = At("enq") \union {w}
      BY <2>3, TakeMoves DEF NotFullWaiters
    <3>2. Cardinality(At("enq")') = Cardinality(At("enq")) + 1
      BY <2>1, <3>1, CountAdd DEF At
    <3>3. current_size' = current_size - 1 /\ NotFullWaiters # {}
      BY <2>3, <3>1 DEF DequeueTake, UnlinkHead, NotFullWaiters
    <3>4. QED BY <2>1, <3>2, <3>3 DEF NoLostPlace
  <2>4. ASSUME NEW t \in Threads, EnqueueWait(t)
        PROVE  (Cardinality(At("enq")) + current_size >= MaxSize)'
    BY <2>1, <2>4 DEF EnqueueWait, queue_is_full, listVars
  <2>5. ASSUME At("enq") \subseteq At("enq")', NotFullWaiters' \subseteq NotFullWaiters,
               UNCHANGED current_size
        PROVE  (Cardinality(At("enq")) + current_size >= MaxSize)'
    <3>1. Cardinality(At("enq")) <= Cardinality(At("enq")')
      BY <2>1, <2>5, CountSubset
    <3>2. QED BY <2>1, <2>5, <3>1 DEF NoLostPlace
  <2>6. ASSUME NEW t \in Threads,
               \/ DequeueWait(t) \/ DequeueShutdown(t) \/ ClearTest(t)
               \/ DequeueCall(t) \/ ClearCall(t) \/ DestroyCall(t)
               \/ SpuriousWakeup(t) \/ \E d \in Data : EnqueueCall(t, d)
        PROVE  (Cardinality(At("enq")) + current_size >= MaxSize)'
    <3>1. /\ At("enq") \subseteq At("enq")'
          /\ NotFullWaiters' \subseteq NotFullWaiters
      BY <2>6
      DEF DequeueWait, DequeueShutdown, ClearTest, DequeueCall, ClearCall,
          DestroyCall, SpuriousWakeup, EnqueueCall, At, NotFullWaiters, TypeOK,
          ReturnTo
    <3>2. UNCHANGED current_size
      BY <2>6
      DEF DequeueWait, DequeueShutdown, ClearTest, DequeueCall, ClearCall,
          DestroyCall, SpuriousWakeup, EnqueueCall, listVars
    <3>3. QED BY <2>5, <3>1, <3>2
  <2>7. ASSUME DeliverSignal \/ UNCHANGED vars
        PROVE  (Cardinality(At("enq")) + current_size >= MaxSize)'
    BY <2>5, <2>7 DEF DeliverSignal, vars, queueVars, At, NotFullWaiters
  <2>8. QED
    BY <2>2, <2>3, <2>4, <2>6, <2>7 DEF Next, ThreadStep, ThreadCall
<1>3. QED BY <1>1, <1>2, QueueTypeCorrect, PTL DEF Spec

----------------------------------------------------------------------------
(* What remains of a sequence behind its first n elements is a sequence.    *)
LEMMA RestIsSeq ==
  ASSUME NEW S, NEW s \in Seq(S), NEW n \in Nat, n <= Len(s),
         NEW c, c = [i \in 1..(Len(s) - n) |-> s[n + i]]
  PROVE  /\ c \in Seq(S) /\ Len(c) = Len(s) - n
         /\ \A i \in 1..(Len(s) - n) : c[i] = s[n + i]
<1>1. Len(s) - n \in Nat BY LenProperties
<1>2. ASSUME NEW i \in 1..(Len(s) - n) PROVE s[n + i] \in S
  <2>1. n + i \in 1..Len(s) BY LenProperties
  <2>2. QED BY <2>1, ElementOfSeq
<1>3. c \in [1..(Len(s) - n) -> S] BY <1>2
<1>4. QED BY <1>1, <1>3, LenProperties

(* Linking a node puts its datum into the channel.                          *)
LEMMA LinkIsPut ==
  ASSUME IInv, NEW t \in Threads, EnqueueLink(t)
  PROVE  Fifo!Put(arg[t])
<1>1. /\ linked \in Seq(Data) /\ removed \in Seq(Data) /\ arg[t] \in Data
      /\ Len(removed) <= Len(linked) /\ current_size = Len(linked) - Len(removed)
      /\ \A i \in 1..Len(removed) : removed[i] = linked[i]
      /\ \A i \in 1..Len(linked) : linked[i] # arg[t]
  BY DEF IInv, TypeOK, ListShape, queue_peek, FreshArgs, EnqueueLink, Pending
<1>2. linked' = Append(linked, arg[t]) /\ removed' = removed
  BY DEF EnqueueLink, LinkNode
<1>3. Contents \in Seq(Data) /\ Len(Contents) = current_size
  BY <1>1, RestIsSeq DEF Contents, Pending
<1>4. MaxSize = 0 \/ Len(Contents) < MaxSize
  BY <1>1, <1>3, MaxSizeNat DEF EnqueueLink, queue_is_full, QUEUE_UNBOUNDED
<1>5. ~Fifo!Holds(Contents, arg[t]) /\ ~Fifo!Holds(removed, arg[t])
  BY <1>1 DEF Fifo!Holds, Contents, Pending
<1>6. Contents' = Append(Contents, arg[t])
  <2>1. Len(linked') = Len(linked) + 1 /\ Len(removed') = Len(removed)
    BY <1>1, <1>2
  <2>2. \A i \in 1..(Len(linked) + 1) :
          linked'[i] = IF i = Len(linked) + 1 THEN arg[t] ELSE linked[i]
    BY <1>1, <1>2
  <2>3. /\ Contents' \in Seq(Data) /\ Len(Contents') = Pending + 1
        /\ \A i \in 1..(Pending + 1) : Contents'[i] = linked'[Len(removed) + i]
    <3>1. linked' \in Seq(Data) /\ removed' = removed BY <1>1, <1>2
    <3>2. /\ Len(removed) \in Nat /\ Len(removed) <= Len(linked')
          /\ Len(linked') - Len(removed) = Pending + 1
      BY <1>1, <2>1 DEF Pending
    <3>3. Contents' = [i \in 1..(Len(linked') - Len(removed)) |-> linked'[Len(removed) + i]]
      BY <3>1 DEF Contents, Pending
    <3>4. QED BY <3>1, <3>2, <3>3, RestIsSeq
  <2>4. /\ Append(Contents, arg[t]) \in Seq(Data)
        /\ Len(Append(Contents, arg[t])) = Pending + 1
        /\ \A i \in 1..Pending : Append(Contents, arg[t])[i] = Contents[i]
        /\ Append(Contents, arg[t])[Pending + 1] = arg[t]
    BY <1>1, <1>3, AppendProperties DEF Pending
  <2>5. \A i \in 1..Pending : Contents[i] = linked[Len(removed) + i]
    BY DEF Contents
  <2>6. \A i \in 1..(Pending + 1) : Contents'[i] = Append(Contents, arg[t])[i]
    <3> SUFFICES ASSUME NEW i \in 1..(Pending + 1)
                 PROVE  Contents'[i] = Append(Contents, arg[t])[i]
      OBVIOUS
    <3>1. /\ Pending \in Nat /\ Len(removed) \in Nat /\ Len(linked) \in Nat
          /\ Len(removed) + Pending = Len(linked)
      BY <1>1 DEF Pending
    <3>2. Contents'[i] = linked'[Len(removed) + i] BY <2>3
    <3>3. CASE i = Pending + 1
      <4>1. Len(removed) + i = Len(linked) + 1 /\ Len(linked) + 1 \in 1..(Len(linked) + 1)
        BY <3>1, <3>3
      <4>2. linked'[Len(linked) + 1] = arg[t] BY <2>2, <4>1
      <4>3. QED BY <2>4, <3>2, <3>3, <4>1, <4>2
    <3>4. CASE i \in 1..Pending
      <4>1. Len(removed) + i \in 1..Len(linked) BY <1>1, <3>1, <3>4
      <4>2. linked'[Len(removed) + i] = linked[Len(removed) + i]
        BY <1>1, <2>2, <4>1
      <4>3. QED BY <2>4, <2>5, <3>2, <3>4, <4>2
    <3>5. i = Pending + 1 \/ i \in 1..Pending BY <3>1
    <3>6. QED BY <3>3, <3>4, <3>5
  <2>7. QED BY <2>3, <2>4, <2>6, SeqEqual
<1>7. QED BY <1>2, <1>4, <1>5, <1>6 DEF Fifo!Put

(* Unlinking the head takes the oldest datum from the channel.              *)
LEMMA UnlinkIsTake ==
  ASSUME IInv, NEW t \in Threads, DequeueTake(t)
  PROVE  Fifo!Take
<1>1. /\ linked \in Seq(Data) /\ removed \in Seq(Data)
      /\ Len(removed) < Len(linked) /\ head = linked[Len(removed) + 1]
  BY DEF IInv, TypeOK, ListShape, queue_peek, DequeueTake, Pending, queue_is_empty
<1>2. linked' = linked /\ removed' = Append(removed, head)
  BY DEF DequeueTake, UnlinkHead
<1>3. /\ Contents \in Seq(Data) /\ Len(Contents) = Pending /\ Pending > 0
      /\ Pending \in Nat
      /\ \A i \in 1..Pending : Contents[i] = linked[Len(removed) + i]
  BY <1>1 DEF Contents, Pending
<1>4. Contents # <<>> /\ Head(Contents) = head
  <2>1. Contents # <<>> /\ Contents[1] = head BY <1>1, <1>3
  <2>2. Head(Contents) = Contents[1] BY <1>3, <2>1
  <2>3. QED BY <2>1, <2>2
<1>5. Contents' = Tail(Contents)
  <2>1. Len(removed') = Len(removed) + 1
    BY <1>1, <1>2
  <2>2. /\ Contents' \in Seq(Data) /\ Len(Contents') = Pending - 1
        /\ \A i \in 1..(Pending - 1) : Contents'[i] = linked[Len(removed) + 1 + i]
    <3>1. /\ linked' = linked /\ Len(removed) \in Nat /\ Len(linked) \in Nat
          /\ Len(removed) + 1 <= Len(linked)
          /\ Len(linked) - (Len(removed) + 1) = Pending - 1
      BY <1>1, <1>2 DEF Pending
    <3>2. Contents' = [i \in 1..(Len(linked) - (Len(removed) + 1)) |->
                         linked[Len(removed) + 1 + i]]
      BY <2>1, <3>1 DEF Contents, Pending
    <3>3. QED BY <1>1, <3>1, <3>2, RestIsSeq
  <2>3. /\ Tail(Contents) \in Seq(Data) /\ Len(Tail(Contents)) = Pending - 1
        /\ \A i \in 1..(Pending - 1) : Tail(Contents)[i] = Contents[i + 1]
    BY <1>3, <1>4, HeadTailProperties
  <2>4. \A i \in 1..(Pending - 1) : Contents'[i] = Tail(Contents)[i]
    <3> SUFFICES ASSUME NEW i \in 1..(Pending - 1)
                 PROVE  Contents'[i] = Tail(Contents)[i]
      OBVIOUS
    <3>1. i + 1 \in 1..Pending /\ Len(removed) + 1 + i = Len(removed) + (i + 1)
      BY <1>1, <1>3
    <3>2. Contents'[i] = linked[Len(removed) + 1 + i] BY <2>2
    <3>3. Contents[i + 1] = linked[Len(removed) + (i + 1)] BY <1>3, <3>1
    <3>4. Tail(Contents)[i] = Contents[i + 1] BY <2>3
    <3>5. QED BY <3>1, <3>2, <3>3, <3>4
  <2>5. QED BY <2>2, <2>3, <2>4, SeqEqual
<1>6. QED BY <1>2, <1>4, <1>5 DEF Fifo!Take

(* The pointer list, with its blocked and woken threads, implements the     *)
(* FIFO channel: linking a node is Put of its datum, unlinking the head is  *)
(* Take, and every other step leaves the channel alone.                     *)
THEOREM QueueImplementsFifo == Spec => ImplementsFifo
<1>1. Init => Fifo!Init
  BY DEF Init, QueueInit, Fifo!Init, Contents, Pending
<1>2. IInv /\ [Next]_vars => [Fifo!Next]_<<Contents, removed>>
  <2> SUFFICES ASSUME IInv, [Next]_vars
               PROVE  Fifo!Next \/ UNCHANGED <<Contents, removed>>
    OBVIOUS
  <2>1. ASSUME UNCHANGED <<linked, removed>> PROVE UNCHANGED <<Contents, removed>>
    BY <2>1 DEF Contents, Pending
  <2>2. ASSUME NEW t \in Threads, EnqueueLink(t) PROVE Fifo!Next
    <3>1. arg[t] \in Data BY <2>2 DEF IInv, FreshArgs, EnqueueLink
    <3>2. QED BY <2>2, <3>1, LinkIsPut DEF Fifo!Next
  <2>3. ASSUME NEW t \in Threads, DequeueTake(t) PROVE Fifo!Next
    BY <2>3, UnlinkIsTake DEF Fifo!Next
  <2>4. QED
    BY <2>1, <2>2, <2>3
    DEF Next, ThreadStep, ThreadCall, EnqueueWait, DequeueWait, DequeueShutdown,
        ClearTest, EnqueueCall, DequeueCall, ClearCall, DestroyCall,
        SpuriousWakeup, DeliverSignal, vars, queueVars, listVars
<1>3. Spec => []IInv BY InitIInv, StepIInv, PTL DEF Spec
<1>4. QED BY <1>1, <1>2, <1>3, PTL DEF Spec, ImplementsFifo, Fifo!Spec

----------------------------------------------------------------------------
Others == Submitters \ {Owner}
Gone   == {"none", "exited"}

(* Where a thread may be in the queue's code: a worker only in              *)
(* queue_dequeue, a submitter only in queue_enqueue, the owner also in      *)
(* queue_destroy.                                                           *)
WorkersPlaced ==
  \A w \in Workers :
    IF routine[w] = "dequeue"
      THEN pc[w] \in {"deq", "deqWait"} /\ caller[w] = "user"
      ELSE pc[w] = "idle"

OthersPlaced == \A s \in Others : pc[s] \in {"idle", "enq", "enqWait"}

OwnerPlaced ==
  IF opc = "clear"
    THEN pc[Owner] \in {"clear", "deq", "deqWait"} /\ caller[Owner] = "queue_destroy"
    ELSE pc[Owner] \in {"idle", "enq", "enqWait"}

(* The workers that were started and those that were joined.                *)
Started ==
  /\ \A w \in Workers : routine[w] = "none" <=> w > created
  /\ \A w \in joined : routine[w] = "exited"
  /\ opc = "create" => created < ThreadCount

Placement == WorkersPlaced /\ OthersPlaced /\ OwnerPlaced /\ Started

(* What each phase of the owner has established: who is not in a call, and  *)
(* which workers have left thread_routine.                                  *)
NoCalls ==
  /\ opc \notin {"ready", "clear"} => pc[Owner] = "idle"
  /\ opc \in {"create", "ready"} => why = "user"
  /\ (opc \in {"create", "clear", "done"} \/ why # "user") =>
       \A s \in Others : pc[s] = "idle"

NoWorkers ==
  /\ opc = "broadcast" => jdx = 1
  /\ opc = "join" => \A w \in Workers : w < jdx => routine[w] \in Gone
  /\ opc \in {"clear", "done"} => \A w \in Workers : routine[w] \in Gone

Phases == NoCalls /\ NoWorkers /\ (alive <=> opc # "done")

(* A task that was dequeued is run, in the hands of one worker or, when the *)
(* queue is being cleared, discarded.                                       *)
Hands ==
  /\ \A w \in Workers :
       routine[w] = "process" => task[w] \in Data /\ Taken(task[w]) /\ ran[task[w]] = 0
  /\ \A v, w \in Workers :
       (routine[v] = "process" /\ routine[w] = "process" /\ task[v] = task[w]) => v = w
  /\ \A d \in Data : ran[d] <= 1 /\ (ran[d] = 1 => Taken(d))
  /\ opc \notin {"clear", "done"} =>
       \A d \in Data : Taken(d) =>
         ran[d] = 1 \/ \E w \in Workers : routine[w] = "process" /\ task[w] = d

PoolInv == PoolTypeOK /\ IInv /\ Placement /\ Phases /\ Hands

----------------------------------------------------------------------------
(* The threads are the workers, the owner and the other submitters.         *)
LEMMA WhoIsThere ==
  /\ Workers \subseteq Threads /\ Owner \in Threads /\ Others \subseteq Threads
  /\ Owner \notin Workers /\ Owner \notin Others
  /\ \A t \in Threads : t \in Workers \/ t = Owner \/ t \in Others
  /\ \A s \in Others : s \notin Workers
  /\ ThreadCount \in Nat /\ ThreadCount >= 2 /\ Workers = 1..ThreadCount
BY PoolConstants DEF Others, Submitters, Workers, MIN_THREADS

(* A thread that another one may have woken, and that did nothing itself.   *)
Resumes(t) ==
  \/ pc'[t] = pc[t]
  \/ pc[t] = "deqWait" /\ pc'[t] = "deq"
  \/ pc[t] = "enqWait" /\ pc'[t] = "enq"

(* Linking a node ends the call of the producer and wakes at most sleepers. *)
LEMMA LinkOthers ==
  ASSUME TypeOK, NEW t \in Threads, EnqueueLink(t)
  PROVE  pc'[t] = "idle" /\ \A u \in Threads \ {t} : Resumes(u)
<1> DEFINE p == [pc EXCEPT ![t] = "idle"]
<1>1. p \in [Threads -> PCs] /\ NotEmptyWaiters \in SUBSET Threads /\ "deq" \in PCs
  BY DEF TypeOK, PCs, NotEmptyWaiters, At
<1>2. CondSignal(NotEmptyWaiters, "deq", p)
  BY DEF EnqueueLink, SignalNotEmpty
<1>3. p[t] = "idle" /\ \A u \in Threads \ {t} : p[u] = pc[u]
  BY DEF TypeOK
<1> HIDE DEF p
<1>4. \A u \in Threads : pc'[u] = p[u] \/ (u \in NotEmptyWaiters /\ pc'[u] = "deq")
  BY <1>1, <1>2, CondSignalType
<1>5. t \notin NotEmptyWaiters
  BY DEF EnqueueLink, NotEmptyWaiters, At
<1>6. QED BY <1>3, <1>4, <1>5 DEF Resumes, NotEmptyWaiters, At

(* Unlinking the head does the same for the consumer.                       *)
LEMMA TakeOthers ==
  ASSUME TypeOK, NEW t \in Threads, DequeueTake(t)
  PROVE  pc'[t] = ReturnTo(t) /\ \A u \in Threads \ {t} : Resumes(u)
<1> DEFINE p == [pc EXCEPT ![t] = ReturnTo(t)]
<1>1. p \in [Threads -> PCs] /\ NotFullWaiters \in SUBSET Threads /\ "enq" \in PCs
  BY DEF TypeOK, PCs, NotFullWaiters, At, ReturnTo
<1>2. CondSignal(NotFullWaiters, "enq", p)
  BY DEF DequeueTake, SignalNotFull
<1>3. p[t] = ReturnTo(t) /\ \A u \in Threads \ {t} : p[u] = pc[u]
  BY DEF TypeOK
<1> HIDE DEF p
<1>4. \A u \in Threads : pc'[u] = p[u] \/ (u \in NotFullWaiters /\ pc'[u] = "enq")
  BY <1>1, <1>2, CondSignalType
<1>5. t \notin NotFullWaiters
  BY DEF DequeueTake, NotFullWaiters, At
<1>6. QED BY <1>3, <1>4, <1>5 DEF Resumes, NotFullWaiters, At

(* When the join loop is done on behalf of thread_pool_destroy, nobody is   *)
(* in a call of the queue.                                                  *)
LEMMA JoinedMeansIdle ==
  ASSUME PoolTypeOK, Placement, Phases, opc = "join", ~MoreToJoin
  PROVE  /\ \A w \in Workers : routine[w] \in Gone /\ pc[w] = "idle"
         /\ why # "user" => Quiescent
<1>1. \A w \in Workers : routine[w] \in Gone
  BY WhoIsThere DEF Phases, NoWorkers, MoreToJoin, PoolTypeOK
<1>2. \A w \in Workers : pc[w] = "idle"
  BY <1>1 DEF Placement, WorkersPlaced, Gone
<1>3. QED BY <1>1, <1>2, WhoIsThere DEF Phases, NoCalls, Quiescent

(* The broadcast of thread_pool_shutdown is as if every sleeper had woken   *)
(* up by itself.                                                            *)
LEMMA BroadcastKeepsQueue ==
  ASSUME IInv, Broadcast
  PROVE  IInv' /\ \A t \in Threads : Resumes(t)
<1>1. ListTypeOK /\ CallTypeOK /\ ListShape /\ FreshArgs
  BY TypeSplit DEF IInv
<1>2. /\ UNCHANGED <<listVars, alive, arg, caller, signal_flag>>
      /\ pc' = [t \in Threads |-> IF t \in NotEmptyWaiters THEN "deq" ELSE pc[t]]
  BY DEF Broadcast, WakeAll
<1>3. ListTypeOK' /\ ListShape' BY <1>1, <1>2, QuietKeepsShape
<1>4. CallTypeOK'
  BY <1>1, <1>2 DEF CallTypeOK, SignalTypeOK, PCs
<1>5. FreshArgs'
  BY <1>1, <1>2 DEF FreshArgs, CallTypeOK, listVars
<1>6. TypeOK' BY <1>3, <1>4 DEF TypeOK, ListTypeOK, CallTypeOK
<1>7. \A t \in Threads : Resumes(t)
  BY <1>2 DEF Resumes, NotEmptyWaiters, At
<1>8. QED BY <1>3, <1>5, <1>6, <1>7 DEF IInv

(* Every step of the pool but the broadcast is a step of the queue, or none.*)
LEMMA PoolStepIsQueueStep ==
  ASSUME PoolTypeOK, Placement, Phases, [PoolNext]_poolVars, ~Broadcast
  PROVE  [Next]_vars
<1> USE WhoIsThere
<1>1. ASSUME NEW w \in Workers, WorkerStep(w) PROVE [Next]_vars
  BY <1>1
  DEF WorkerStep, WorkerLoop, WorkerExit, WorkerWait, WorkerNull, WorkerTake,
      WorkerProcess, Next, ThreadStep, ThreadCall
<1>2. CASE DestroyStep
  BY <1>2 DEF DestroyStep, Next, ThreadStep
<1>3. CASE ShutdownReturns_ToDestroy
  <2>1. Quiescent BY <1>3, JoinedMeansIdle DEF ShutdownReturns_ToDestroy
  <2>2. QED BY <1>3, <2>1 DEF ShutdownReturns_ToDestroy, Next, ThreadCall
<1>4. CASE CreateWorker \/ Join \/ JoinInvalid \/ ShutdownReturns_ToUser
           \/ ShutdownReturns_ToCreate \/ CreateFails \/ OwnerShutdown \/ OwnerDestroy
  BY <1>4
  DEF CreateWorker, Join, JoinInvalid, ShutdownReturns_ToUser,
      ShutdownReturns_ToCreate, CreateFails, OwnerShutdown, OwnerDestroy
<1>5. ASSUME NEW s \in Submitters, AddTaskStep(s) \/ \E d \in Data : AddTask(s, d)
      PROVE  [Next]_vars
  BY <1>5 DEF AddTaskStep, AddTask, Next, ThreadStep, ThreadCall, Submitters
<1>6. CASE PoolSpurious \/ PoolSignal
  BY <1>6 DEF PoolSpurious, PoolSignal, Next
<1>7. CASE UNCHANGED poolVars
  BY <1>7 DEF poolVars
<1>8. QED BY <1>1, <1>2, <1>3, <1>4, <1>5, <1>6, <1>7 DEF PoolNext, OwnerStep

(* A step of the pool preserves the queue's inductive invariant.            *)
LEMMA PoolQueueInv ==
  ASSUME PoolInv, [PoolNext]_poolVars
  PROVE  IInv'
BY PoolStepIsQueueStep, BroadcastKeepsQueue, StepIInv DEF PoolInv

(* The typing of the pool's own variables.                                  *)
LEMMA PoolTypeStep ==
  ASSUME PoolInv, [PoolNext]_poolVars
  PROVE  PoolTypeOK'
<1> DEFINE OwnerTypes ==
             /\ opc \in OwnerPCs /\ why \in {"user", "create_failed", "destroy"}
             /\ jdx \in 1..(ThreadCount + 1) /\ created \in 0..ThreadCount
             /\ joined \in SUBSET Workers
           WorkerTypes ==
             /\ routine \in [Workers -> RoutinePCs]
             /\ task \in [Workers -> Data \union {NULL}]
             /\ ran \in [Data -> Nat]
<1>0. OwnerTypes /\ WorkerTypes /\ TypeOK
  BY DEF PoolInv, PoolTypeOK
<1>a. ASSUME OwnerTypes', WorkerTypes' PROVE PoolTypeOK'
  <2>1. TypeOK' BY PoolQueueInv DEF IInv
  <2>2. QED BY <1>a, <2>1 DEF PoolTypeOK
<1>b. ASSUME UNCHANGED ownerVars PROVE OwnerTypes'
  BY <1>0, <1>b DEF ownerVars
<1>c. ASSUME UNCHANGED workerVars PROVE WorkerTypes'
  BY <1>0, <1>c DEF workerVars
<1>1. ASSUME NEW w \in Workers, WorkerLoop(w) \/ WorkerExit(w) \/ WorkerNull(w)
      PROVE  PoolTypeOK'
  <2>1. WorkerTypes'
    BY <1>0, <1>1 DEF WorkerLoop, WorkerExit, WorkerNull, RoutinePCs
  <2>2. QED BY <1>1, <1>a, <1>b, <2>1 DEF WorkerLoop, WorkerExit, WorkerNull
<1>2. ASSUME NEW w \in Workers, WorkerTake(w) PROVE PoolTypeOK'
  <2>1. routine' \in [Workers -> RoutinePCs] /\ task' \in [Workers -> Data \union {NULL}]
    BY <1>0, <1>2 DEF WorkerTake, AfterTake, RoutinePCs, TypeOK
  <2>2. ran' = ran
    BY <1>0, <1>2 DEF WorkerTake
  <2>3. QED BY <1>0, <1>2, <1>a, <1>b, <2>1, <2>2 DEF WorkerTake
<1>3. ASSUME NEW w \in Workers, WorkerProcess(w) PROVE PoolTypeOK'
  <2>1. task[w] \in Data BY <1>3 DEF WorkerProcess, PoolInv, Hands
  <2>2. WorkerTypes' BY <1>0, <1>3, <2>1 DEF WorkerProcess, RoutinePCs
  <2>3. QED BY <1>3, <1>a, <1>b, <2>2 DEF WorkerProcess
<1>4. CASE CreateWorker
  <2>1. OwnerTypes' BY <1>0, <1>4, WhoIsThere DEF CreateWorker, OwnerPCs
  <2>2. WorkerTypes' BY <1>0, <1>4 DEF CreateWorker, RoutinePCs
  <2>3. QED BY <1>a, <2>1, <2>2
<1>5. CASE Join \/ JoinInvalid
  <2>1. jdx' \in 1..(ThreadCount + 1) /\ jdx \in Workers
    BY <1>0, <1>5, WhoIsThere DEF Join, JoinInvalid, MoreToJoin
  <2>2. OwnerTypes' BY <1>0, <1>5, <2>1 DEF Join, JoinInvalid, OwnerPCs
  <2>3. QED BY <1>5, <1>a, <1>c, <2>2 DEF Join, JoinInvalid
<1>6. CASE ShutdownReturns_ToUser \/ ShutdownReturns_ToCreate
           \/ ShutdownReturns_ToDestroy \/ CreateFails \/ OwnerShutdown \/ OwnerDestroy
           \/ Broadcast \/ DestroyStep
  <2>1. UNCHANGED <<created, joined, workerVars>> /\ jdx' \in {1, jdx}
        /\ opc' \in OwnerPCs /\ why' \in {why, "user", "create_failed", "destroy"}
    BY <1>6
    DEF ShutdownReturns_ToUser, ShutdownReturns_ToCreate, ShutdownReturns_ToDestroy,
        CreateFails, OwnerShutdown, OwnerDestroy, BeginShutdown, Broadcast,
        DestroyStep, OwnerPCs
  <2>2. OwnerTypes' BY <1>0, <2>1, WhoIsThere
  <2>3. QED BY <1>a, <1>c, <2>1, <2>2
<1>7. ASSUME UNCHANGED <<ownerVars, workerVars>> PROVE PoolTypeOK'
  BY <1>7, <1>a, <1>b, <1>c
<1>8. QED
  BY <1>1, <1>2, <1>3, <1>4, <1>5, <1>6, <1>7
  DEF PoolNext, OwnerStep, WorkerStep, WorkerWait, AddTaskStep, AddTask,
      PoolSpurious, PoolSignal, poolVars

----------------------------------------------------------------------------
(* A worker moves from one place in thread_routine to another; the others   *)
(* are woken at most.                                                       *)
LEMMA WorkerMoves ==
  ASSUME PoolInv, NEW w \in Workers, NEW r \in RoutinePCs \ {"none"},
         routine[w] \notin Gone, routine' = [routine EXCEPT ![w] = r],
         UNCHANGED <<ownerVars, alive>>,
         \A u \in Threads \ {w} : Resumes(u) /\ caller'[u] = caller[u],
         IF r = "dequeue" THEN pc'[w] \in {"deq", "deqWait"} /\ caller'[w] = "user"
                          ELSE pc'[w] = "idle"
  PROVE  Placement' /\ Phases'
<1>1. routine'[w] = r /\ \A v \in Workers \ {w} : routine'[v] = routine[v]
  BY DEF PoolInv, PoolTypeOK
<1>2. UNCHANGED <<opc, why, jdx, created, joined, alive>>
  BY DEF ownerVars
<1>3. Placement /\ Phases BY DEF PoolInv
<1>4. \A u \in Threads \ {w} : pc[u] = "idle" => pc'[u] = "idle"
  BY DEF Resumes
<1>5. WorkersPlaced'
  BY <1>1, <1>3, WhoIsThere DEF Placement, WorkersPlaced, Resumes
<1>6. OthersPlaced' /\ OwnerPlaced'
  BY <1>2, <1>3, WhoIsThere DEF Placement, OthersPlaced, OwnerPlaced, Resumes
<1>7. Started'
  BY <1>1, <1>2, <1>3 DEF Placement, Started, PoolInv, PoolTypeOK, Gone
<1>8. NoCalls'
  BY <1>2, <1>3, <1>4, WhoIsThere DEF Phases, NoCalls
<1>9. NoWorkers'
  BY <1>1, <1>2, <1>3 DEF Phases, NoWorkers
<1>10. QED BY <1>2, <1>3, <1>5, <1>6, <1>7, <1>8, <1>9 DEF Placement, Phases

(* A submitter moves, or nobody; the others are woken at most.              *)
LEMMA SubmitterMoves ==
  ASSUME PoolInv, NEW s \in Submitters,
         UNCHANGED <<ownerVars, routine, alive, caller>>,
         \A u \in Threads \ {s} : Resumes(u),
         \/ Resumes(s)
         \/ /\ pc[s] \in {"idle", "enq", "enqWait"} /\ pc'[s] \in {"idle", "enq", "enqWait"}
            /\ \/ pc'[s] = "idle" \/ pc[s] # "idle" \/ opc = "ready"
               \/ s # Owner /\ opc \in {"broadcast", "join"} /\ why = "user"
            /\ s = Owner => opc # "clear"
  PROVE  Placement' /\ Phases'
<1>1. UNCHANGED <<opc, why, jdx, created, joined, alive>>
  BY DEF ownerVars
<1>2. Placement /\ Phases BY DEF PoolInv
<1>3. s \in Threads /\ s \notin Workers /\ (s \in Others \/ s = Owner)
  BY WhoIsThere DEF Submitters
<1>4. WorkersPlaced'
  BY <1>2, <1>3, WhoIsThere DEF Placement, WorkersPlaced, Resumes
<1>5. OthersPlaced'
  BY <1>2, <1>3, WhoIsThere DEF Placement, OthersPlaced, Resumes
<1>6. OwnerPlaced'
  BY <1>1, <1>2, <1>3, WhoIsThere DEF Placement, OwnerPlaced, Resumes
<1>7. Started' /\ NoWorkers'
  BY <1>1, <1>2 DEF Placement, Started, Phases, NoWorkers
<1>8. NoCalls'
  <2>1. \A u \in Threads \ {s} : pc[u] = "idle" => pc'[u] = "idle"
    BY DEF Resumes
  <2>2. pc[s] = "idle" =>
          \/ pc'[s] = "idle" \/ opc = "ready"
          \/ s # Owner /\ opc \in {"broadcast", "join"} /\ why = "user"
    BY DEF Resumes
  <2>3. QED BY <1>1, <1>2, <1>3, <2>1, <2>2, WhoIsThere DEF Phases, NoCalls
<1>9. QED BY <1>1, <1>2, <1>4, <1>5, <1>6, <1>7, <1>8 DEF Placement, Phases

(* The owner moves; the others are woken at most.  What remains to be shown *)
(* is about the owner alone.                                                *)
LEMMA OwnerMoves ==
  ASSUME PoolInv, UNCHANGED routine,
         \A u \in Threads \ {Owner} : Resumes(u) /\ caller'[u] = caller[u]
  PROVE  /\ WorkersPlaced' /\ OthersPlaced'
         /\ \A s \in Others : pc[s] = "idle" => pc'[s] = "idle"
BY WhoIsThere DEF PoolInv, Placement, WorkersPlaced, OthersPlaced, Resumes

(* The steps of the workers keep every thread in its place.                 *)
LEMMA WorkerPlacement ==
  ASSUME PoolInv, NEW w \in Workers, WorkerStep(w)
  PROVE  Placement' /\ Phases'
<1>0. /\ TypeOK /\ WorkersPlaced /\ routine \in [Workers -> RoutinePCs] /\ w \in Threads
      /\ pc \in [Threads -> PCs] /\ caller \in [Threads -> {"user", "queue_clear", "queue_destroy"}]
  BY WhoIsThere DEF PoolInv, PoolTypeOK, Placement, TypeOK
<1>1. CASE WorkerLoop(w)
  <2>1. /\ routine' = [routine EXCEPT ![w] = "dequeue"] /\ routine[w] = "test"
        /\ UNCHANGED <<ownerVars, alive>>
        /\ pc' = [pc EXCEPT ![w] = "deq"] /\ caller' = [caller EXCEPT ![w] = "user"]
    BY <1>1 DEF WorkerLoop, DequeueCall
  <2>2. QED BY <1>0, <2>1, WorkerMoves DEF Resumes, Gone, RoutinePCs
<1>2. CASE WorkerExit(w)
  <2>1. /\ routine' = [routine EXCEPT ![w] = "exited"] /\ routine[w] = "test"
        /\ UNCHANGED <<ownerVars, alive, pc, caller>>
    BY <1>2 DEF WorkerExit, vars, queueVars
  <2>2. pc[w] = "idle" BY <1>0, <2>1 DEF WorkersPlaced
  <2>3. QED BY <2>1, <2>2, WorkerMoves DEF Resumes, Gone, RoutinePCs
<1>3. CASE WorkerWait(w)
  <2>1. /\ UNCHANGED <<ownerVars, alive, caller, routine>>
        /\ pc[w] = "deq" /\ pc' = [pc EXCEPT ![w] = "deqWait"]
    BY <1>3 DEF WorkerWait, DequeueWait, workerVars
  <2>2. routine[w] = "dequeue" /\ caller[w] = "user" BY <1>0, <2>1 DEF WorkersPlaced
  <2>3. routine' = [routine EXCEPT ![w] = "dequeue"] BY <1>0, <2>1, <2>2
  <2>4. QED BY <1>0, <2>1, <2>2, <2>3, WorkerMoves DEF Resumes, Gone, RoutinePCs
<1>4. CASE WorkerNull(w)
  <2>1. /\ UNCHANGED <<ownerVars, alive, caller>> /\ pc[w] = "deq"
        /\ pc' = [pc EXCEPT ![w] = ReturnTo(w)] /\ routine' = [routine EXCEPT ![w] = "test"]
    BY <1>4 DEF WorkerNull, DequeueShutdown
  <2>2. routine[w] = "dequeue" /\ ReturnTo(w) = "idle"
    BY <1>0, <2>1 DEF WorkersPlaced, ReturnTo
  <2>3. QED BY <1>0, <2>1, <2>2, WorkerMoves DEF Resumes, Gone, RoutinePCs
<1>5. CASE WorkerTake(w)
  <2>1. DequeueTake(w) /\ UNCHANGED <<ownerVars, alive, caller>>
        /\ routine' = [routine EXCEPT ![w] = "process"] /\ pc[w] = "deq"
    BY <1>5 DEF WorkerTake, AfterTake, DequeueTake
  <2>2. routine[w] = "dequeue" /\ ReturnTo(w) = "idle"
    BY <1>0, <2>1 DEF WorkersPlaced, ReturnTo
  <2>3. pc'[w] = "idle" /\ \A u \in Threads \ {w} : Resumes(u)
    BY <1>0, <2>1, <2>2, TakeOthers
  <2>4. QED BY <2>1, <2>2, <2>3, WorkerMoves DEF Gone, RoutinePCs
<1>6. CASE WorkerProcess(w)
  <2>1. /\ routine' = [routine EXCEPT ![w] = "test"] /\ routine[w] = "process"
        /\ UNCHANGED <<ownerVars, alive, pc, caller>>
    BY <1>6 DEF WorkerProcess, vars, queueVars
  <2>2. pc[w] = "idle" BY <1>0, <2>1 DEF WorkersPlaced
  <2>3. QED BY <2>1, <2>2, WorkerMoves DEF Resumes, Gone, RoutinePCs
<1>7. QED BY <1>1, <1>2, <1>3, <1>4, <1>5, <1>6 DEF WorkerStep

(* So do the submitters, the spurious wakeups and the signals.              *)
LEMMA OtherPlacement ==
  ASSUME PoolInv,
         \/ \E s \in Submitters : AddTaskStep(s) \/ \E d \in Data : AddTask(s, d)
         \/ PoolSpurious \/ PoolSignal \/ UNCHANGED poolVars
  PROVE  Placement' /\ Phases'
<1>0. /\ TypeOK /\ pc \in [Threads -> PCs] /\ Owner \in Submitters
      /\ \A s \in Submitters : s \in Threads
      /\ opc = "clear" => pc[Owner] \notin {"idle", "enq", "enqWait"}
  BY WhoIsThere, PoolConstants
  DEF PoolInv, PoolTypeOK, TypeOK, Submitters, Placement, OwnerPlaced
<1>1. ASSUME NEW s \in Submitters, EnqueueWait(s), UNCHANGED <<ownerVars, workerVars>>
      PROVE  Placement' /\ Phases'
  <2>1. /\ UNCHANGED <<alive, caller, routine>> /\ pc[s] = "enq"
        /\ pc' = [pc EXCEPT ![s] = "enqWait"]
    BY <1>1 DEF EnqueueWait, workerVars
  <2>2. QED BY <1>0, <1>1, <2>1, SubmitterMoves DEF Resumes
<1>2. ASSUME NEW s \in Submitters, EnqueueLink(s), UNCHANGED <<ownerVars, workerVars>>
      PROVE  Placement' /\ Phases'
  <2>1. UNCHANGED <<alive, caller, routine>> /\ pc[s] = "enq"
    BY <1>2 DEF EnqueueLink, workerVars
  <2>2. pc'[s] = "idle" /\ \A u \in Threads \ {s} : Resumes(u)
    BY <1>0, <1>2, LinkOthers
  <2>3. QED BY <1>0, <1>2, <2>1, <2>2, SubmitterMoves
<1>3. ASSUME NEW s \in Submitters, NEW d \in Data, AddTask(s, d)
      PROVE  Placement' /\ Phases'
  <2>1. /\ UNCHANGED <<ownerVars, alive, caller, routine>> /\ pc[s] = "idle"
        /\ pc' = [pc EXCEPT ![s] = "enq"]
        /\ \/ opc = "ready"
           \/ s # Owner /\ opc \in {"broadcast", "join"} /\ why = "user"
    BY <1>3 DEF AddTask, EnqueueCall, workerVars
  <2>2. QED BY <1>0, <2>1, SubmitterMoves DEF Resumes
<1>4. CASE PoolSpurious
  <2>1. UNCHANGED <<ownerVars, alive, caller, routine>> /\ \A u \in Threads : Resumes(u)
    BY <1>0, <1>4 DEF PoolSpurious, SpuriousWakeup, workerVars, Resumes
  <2>2. QED BY <1>0, <2>1, SubmitterMoves
<1>5. CASE PoolSignal \/ UNCHANGED poolVars
  <2>1. UNCHANGED <<ownerVars, alive, caller, routine>> /\ \A u \in Threads : Resumes(u)
    BY <1>5 DEF PoolSignal, DeliverSignal, poolVars, vars, queueVars, workerVars, Resumes
  <2>2. QED BY <1>0, <2>1, SubmitterMoves
<1>6. QED BY <1>1, <1>2, <1>3, <1>4, <1>5 DEF AddTaskStep

(* The steps of the owner establish what its next phase relies on.          *)
LEMMA OwnerPlacement ==
  ASSUME PoolInv, OwnerStep \/ CreateFails \/ OwnerShutdown \/ OwnerDestroy
  PROVE  Placement' /\ Phases'
<1>0. /\ TypeOK /\ pc \in [Threads -> PCs]
      /\ caller \in [Threads -> {"user", "queue_clear", "queue_destroy"}]
      /\ Placement /\ Phases /\ PoolTypeOK
  BY DEF PoolInv, PoolTypeOK, TypeOK
<1>1. CASE CreateWorker
  <2>1. UNCHANGED <<pc, caller, alive, why, jdx, joined>> /\ opc = "create"
        /\ created' = created + 1 /\ opc' \in {"create", "ready"}
        /\ routine' = [routine EXCEPT ![created + 1] = "test"]
        /\ (opc' = "create" => created + 1 # ThreadCount) /\ created < ThreadCount
    BY <1>1 DEF CreateWorker, vars, queueVars
  <2>2. created + 1 \in Workers /\ routine[created + 1] = "none"
        /\ pc[created + 1] = "idle"
    BY <1>0, <2>1, WhoIsThere DEF Placement, Started, WorkersPlaced, PoolTypeOK
  <2>3. WorkersPlaced'
    BY <1>0, <2>1, <2>2 DEF Placement, WorkersPlaced, PoolTypeOK
  <2>4. OthersPlaced' /\ OwnerPlaced'
    BY <1>0, <2>1 DEF Placement, OthersPlaced, OwnerPlaced
  <2>5. Started'
    <3>1. \A w \in Workers : routine'[w] = "none" <=> w > created'
      BY <1>0, <2>1, <2>2, WhoIsThere DEF Placement, Started, PoolTypeOK
    <3>2. \A w \in joined' : routine'[w] = "exited"
      BY <1>0, <2>1, <2>2 DEF Placement, Started, PoolTypeOK
    <3>3. opc' = "create" => created' < ThreadCount
      BY <1>0, <2>1, WhoIsThere DEF PoolTypeOK
    <3>4. QED BY <3>1, <3>2, <3>3 DEF Started
  <2>6. NoCalls' BY <1>0, <2>1 DEF Phases, NoCalls
  <2>7. NoWorkers' BY <2>1 DEF NoWorkers
  <2>8. QED BY <1>0, <2>1, <2>3, <2>4, <2>5, <2>6, <2>7 DEF Placement, Phases
<1>2. CASE Broadcast
  <2>1. /\ UNCHANGED <<caller, alive, why, jdx, created, joined, routine>>
        /\ opc = "broadcast" /\ opc' = "join"
    BY <1>2 DEF Broadcast, workerVars
  <2>2. \A t \in Threads : Resumes(t) BY <1>2, BroadcastKeepsQueue DEF PoolInv
  <2>3. WorkersPlaced' /\ OthersPlaced' /\ \A s \in Others : pc[s] = "idle" => pc'[s] = "idle"
    BY <2>1, <2>2, OwnerMoves
  <2>4. pc[Owner] = "idle" /\ pc'[Owner] = "idle"
    BY <1>0, <2>1, <2>2, WhoIsThere DEF Phases, NoCalls, Resumes
  <2>5. OwnerPlaced' /\ Started'
    BY <1>0, <2>1, <2>4 DEF OwnerPlaced, Placement, Started
  <2>6. NoCalls' BY <1>0, <2>1, <2>3, <2>4 DEF Phases, NoCalls
  <2>7. NoWorkers'
    <3>1. jdx = 1 BY <1>0, <2>1 DEF Phases, NoWorkers
    <3>2. QED BY <2>1, <3>1, WhoIsThere DEF NoWorkers
  <2>8. QED BY <1>0, <2>1, <2>3, <2>5, <2>6, <2>7 DEF Placement, Phases
<1>3. CASE Join \/ JoinInvalid
  <2>1. /\ UNCHANGED <<pc, caller, alive, why, created, routine>>
        /\ opc = "join" /\ jdx <= ThreadCount
        /\ \/ opc' = "join" /\ jdx' = jdx + 1
           \/ opc' = "crashed" /\ jdx' = jdx
        /\ \/ routine[jdx] = "exited" /\ joined' = joined \union {jdx}
           \/ ~(jdx <= created /\ jdx \notin joined) /\ joined' = joined
    BY <1>3 DEF Join, JoinInvalid, JoinReturns, Joinable, MoreToJoin, vars, queueVars,
                workerVars
  <2>2. jdx \in Workers BY <1>0, <2>1, WhoIsThere DEF PoolTypeOK
  <2>3. routine[jdx] \in Gone
    BY <1>0, <2>1, <2>2, WhoIsThere DEF Placement, Started, Gone, PoolTypeOK
  <2>4. WorkersPlaced' /\ OthersPlaced' /\ OwnerPlaced'
    BY <1>0, <2>1 DEF Placement, WorkersPlaced, OthersPlaced, OwnerPlaced
  <2>5. Started' BY <1>0, <2>1 DEF Placement, Started
  <2>6. NoCalls' BY <1>0, <2>1 DEF Phases, NoCalls
  <2>7. NoWorkers'
    BY <1>0, <2>1, <2>3, WhoIsThere DEF Phases, NoWorkers, PoolTypeOK
  <2>8. QED BY <1>0, <2>1, <2>4, <2>5, <2>6, <2>7 DEF Placement, Phases
<1>4. CASE DestroyStep
  <2>1. /\ UNCHANGED <<why, jdx, created, joined, routine, caller>> /\ opc = "clear"
        /\ opc' = IF alive' THEN "clear" ELSE "done"
        /\ ClearTest(Owner) \/ DequeueTake(Owner) \/ DequeueWait(Owner) \/ DequeueShutdown(Owner)
    BY <1>4 DEF DestroyStep, ClearTest, DequeueTake, DequeueWait, DequeueShutdown, workerVars
  <2>2. alive /\ caller[Owner] = "queue_destroy" /\ ReturnTo(Owner) = "clear"
    BY <1>0, <2>1 DEF Placement, OwnerPlaced, Phases, ReturnTo
  <2>3. /\ \A u \in Threads \ {Owner} : Resumes(u)
        /\ \/ alive' = TRUE /\ pc'[Owner] \in {"clear", "deq", "deqWait"}
           \/ alive' = FALSE /\ pc'[Owner] = "idle"
    <3>1. CASE DequeueTake(Owner)
      BY <1>0, <2>2, <3>1, TakeOthers, WhoIsThere DEF DequeueTake, TypeOK
    <3>2. CASE ClearTest(Owner)
      <4>1. pc' = [pc EXCEPT ![Owner] = IF current_size > 0 THEN "deq" ELSE "idle"]
        BY <3>2 DEF ClearTest
      <4>2. current_size \in Nat BY <1>0 DEF TypeOK
      <4>3. (current_size = 0 => alive' = FALSE) /\ (current_size # 0 => alive' = TRUE)
        BY <2>2, <3>2 DEF ClearTest
      <4>4. QED BY <1>0, <4>1, <4>2, <4>3, WhoIsThere DEF Resumes
    <3>3. CASE DequeueWait(Owner) \/ DequeueShutdown(Owner)
      BY <1>0, <2>2, <3>3, WhoIsThere DEF DequeueWait, DequeueShutdown, Resumes
    <3>4. QED BY <2>1, <3>1, <3>2, <3>3
  <2>4. WorkersPlaced' /\ OthersPlaced' /\ \A s \in Others : pc[s] = "idle" => pc'[s] = "idle"
    BY <2>1, <2>3, OwnerMoves
  <2>5. OwnerPlaced' /\ (alive' <=> opc' # "done") /\ opc' \in {"clear", "done"}
    BY <2>1, <2>2, <2>3 DEF OwnerPlaced
  <2>6. Started' BY <1>0, <2>1, <2>5 DEF Placement, Started
  <2>7. NoCalls' BY <1>0, <2>1, <2>3, <2>4, <2>5 DEF Phases, NoCalls
  <2>8. NoWorkers' BY <1>0, <2>1, <2>5 DEF Phases, NoWorkers
  <2>9. QED BY <2>4, <2>5, <2>6, <2>7, <2>8 DEF Placement, Phases
<1>5. CASE ShutdownReturns_ToUser \/ ShutdownReturns_ToCreate \/ CreateFails
           \/ OwnerShutdown \/ OwnerDestroy
  <2>1. /\ UNCHANGED <<pc, caller, alive, created, joined, routine>>
        /\ opc' \in {"ready", "broadcast"} /\ opc \in {"create", "ready", "join"}
        /\ opc' = "broadcast" => jdx' = 1
        /\ opc' = "ready" => why' = "user" /\ why = "user"
        /\ why' # "user" => (why # "user" \/ opc = "create" \/ \A s \in Submitters : pc[s] = "idle")
        /\ opc' = "broadcast" =>
             pc[Owner] = "idle" \/ opc # "ready" \/ \A s \in Submitters : pc[s] = "idle"
    BY <1>5
    DEF ShutdownReturns_ToUser, ShutdownReturns_ToCreate, CreateFails, OwnerShutdown,
        OwnerDestroy, BeginShutdown, vars, queueVars, workerVars
  <2>2. Owner \in Submitters /\ \A s \in Others : s \in Submitters
    BY PoolConstants DEF Others
  <2>3. WorkersPlaced' /\ OthersPlaced'
    BY <1>0, <2>1 DEF Placement, WorkersPlaced, OthersPlaced
  <2>4. OwnerPlaced'
    BY <1>0, <2>1 DEF Placement, OwnerPlaced
  <2>5. Started' BY <1>0, <2>1 DEF Placement, Started
  <2>6. NoCalls' BY <1>0, <2>1, <2>2 DEF Phases, NoCalls
  <2>7. NoWorkers' BY <2>1 DEF NoWorkers
  <2>8. QED BY <1>0, <2>1, <2>3, <2>4, <2>5, <2>6, <2>7 DEF Placement, Phases
<1>6. CASE ShutdownReturns_ToDestroy
  <2>1. /\ UNCHANGED <<alive, why, jdx, created, joined, routine>>
        /\ opc = "join" /\ ~MoreToJoin /\ why = "destroy" /\ opc' = "clear"
        /\ pc' = [pc EXCEPT ![Owner] = "clear"]
        /\ caller' = [caller EXCEPT ![Owner] = "queue_destroy"]
    BY <1>6 DEF ShutdownReturns_ToDestroy, DestroyCall, workerVars
  <2>2. Quiescent /\ \A w \in Workers : routine[w] \in Gone
    BY <1>0, <2>1, JoinedMeansIdle
  <2>3. /\ pc'[Owner] = "clear" /\ caller'[Owner] = "queue_destroy"
        /\ \A u \in Threads \ {Owner} : pc'[u] = pc[u] /\ caller'[u] = caller[u]
    BY <1>0, <2>1, WhoIsThere
  <2>4. WorkersPlaced' /\ OthersPlaced'
    BY <2>1, <2>3, OwnerMoves DEF Resumes
  <2>5. OwnerPlaced' BY <2>1, <2>3 DEF OwnerPlaced
  <2>6. Started' BY <1>0, <2>1 DEF Placement, Started
  <2>7. NoCalls' BY <2>1, <2>2, <2>3, WhoIsThere DEF NoCalls, Quiescent
  <2>8. NoWorkers' BY <2>1, <2>2 DEF NoWorkers
  <2>9. QED BY <1>0, <2>1, <2>4, <2>5, <2>6, <2>7, <2>8 DEF Placement, Phases
<1>7. QED BY <1>1, <1>2, <1>3, <1>4, <1>5, <1>6 DEF OwnerStep

----------------------------------------------------------------------------
(* What the dequeue hands out was never handed out before: this is where    *)
(* the pool relies on the queue being a queue.                              *)
LEMMA TakesFreshTask ==
  ASSUME PoolInv, NEW t \in Threads, DequeueTake(t)
  PROVE  /\ head \in Data /\ ~Taken(head)
         /\ \A d \in Data : Taken(d)' <=> Taken(d) \/ d = head
<1>1. /\ linked \in Seq(Data) /\ removed \in Seq(Data)
      /\ Len(removed) < Len(linked) /\ head = linked[Len(removed) + 1]
  BY DEF PoolInv, IInv, TypeOK, ListShape, queue_peek, DequeueTake, Pending, queue_is_empty
<1>a. /\ \A i \in 1..Len(removed) : removed[i] = linked[i]
      /\ \A i, j \in 1..Len(linked) : linked[i] = linked[j] => i = j
  BY DEF PoolInv, IInv, ListShape
<1>2. head \in Data /\ removed' = Append(removed, head)
  BY <1>1 DEF DequeueTake, UnlinkHead
<1>3. ~Taken(head)
  BY <1>1, <1>a DEF Taken
<1>4. /\ DOMAIN removed = 1..Len(removed) /\ DOMAIN removed' = 1..(Len(removed) + 1)
      /\ \A i \in 1..Len(removed) : removed'[i] = removed[i]
      /\ removed'[Len(removed) + 1] = head /\ Len(removed) \in Nat
  BY <1>1, <1>2
<1>5. \A d \in Data : Taken(d)' <=> Taken(d) \/ d = head
  BY <1>4 DEF Taken
<1>6. QED BY <1>2, <1>3, <1>5

(* Steps that move no task.                                                 *)
LEMMA QuietHands ==
  ASSUME PoolInv, UNCHANGED <<removed, task, ran>>,
         \A w \in Workers : (routine[w] = "process") <=> (routine'[w] = "process"),
         opc \in {"clear", "done"} => opc' \in {"clear", "done"}
  PROVE  Hands'
BY DEF PoolInv, Hands, Taken

(* Every dequeued task stays accounted for.                                 *)
LEMMA PoolHands ==
  ASSUME PoolInv, [PoolNext]_poolVars
  PROVE  Hands'
<1>0. /\ Hands /\ Placement /\ routine \in [Workers -> RoutinePCs]
      /\ task \in [Workers -> Data \union {NULL}] /\ ran \in [Data -> Nat]
  BY DEF PoolInv, PoolTypeOK
<1>1. ASSUME NEW w \in Workers, WorkerTake(w) PROVE Hands'
  <2>1. /\ head \in Data /\ ~Taken(head)
        /\ \A d \in Data : Taken(d)' <=> Taken(d) \/ d = head
    BY <1>1, TakesFreshTask, WhoIsThere DEF WorkerTake
  <2>2. /\ UNCHANGED <<ran, opc>> /\ task' = [task EXCEPT ![w] = head]
        /\ routine' = [routine EXCEPT ![w] = "process"] /\ pc[w] = "deq"
    BY <1>1 DEF WorkerTake, AfterTake, ownerVars, DequeueTake
  <2>3. routine[w] = "dequeue" BY <1>0, <2>2 DEF Placement, WorkersPlaced
  <2>4. ran[head] = 0 /\ \A v \in Workers : routine[v] = "process" => task[v] # head
    BY <1>0, <2>1 DEF Hands
  <2>5. /\ routine'[w] = "process" /\ task'[w] = head
        /\ \A v \in Workers \ {w} : routine'[v] = routine[v] /\ task'[v] = task[v]
    BY <1>0, <2>2
  <2>6. (\A v \in Workers : routine[v] = "process" =>
                              task[v] \in Data /\ Taken(task[v]) /\ ran[task[v]] = 0)'
    BY <1>0, <2>1, <2>2, <2>4, <2>5 DEF Hands
  <2>7. \A u, v \in Workers :
          (routine'[u] = "process" /\ routine'[v] = "process" /\ task'[u] = task'[v]) => u = v
    BY <1>0, <2>4, <2>5 DEF Hands
  <2>8. \A d \in Data : ran'[d] <= 1 /\ (ran'[d] = 1 => Taken(d)')
    BY <1>0, <2>1, <2>2 DEF Hands
  <2>9. opc' \notin {"clear", "done"} =>
          \A d \in Data : Taken(d)' =>
            ran'[d] = 1 \/ \E v \in Workers : routine'[v] = "process" /\ task'[v] = d
    <3> SUFFICES ASSUME opc \notin {"clear", "done"}, NEW d \in Data, Taken(d)', ran[d] # 1
                 PROVE  \E v \in Workers : routine'[v] = "process" /\ task'[v] = d
      BY <2>2
    <3>1. CASE d = head BY <2>5, <3>1
    <3>2. CASE Taken(d)
      <4>1. PICK v \in Workers : routine[v] = "process" /\ task[v] = d
        BY <1>0, <3>2 DEF Hands
      <4>2. v # w BY <2>3, <4>1
      <4>3. QED BY <2>5, <4>1, <4>2
    <3>3. QED BY <2>1, <3>1, <3>2
  <2>10. QED BY <2>6, <2>7, <2>8, <2>9 DEF Hands
<1>2. ASSUME NEW w \in Workers, WorkerProcess(w) PROVE Hands'
  <2>1. /\ UNCHANGED <<removed, opc>> /\ routine[w] = "process"
        /\ ran' = [ran EXCEPT ![task[w]] = @ + 1] /\ task' = [task EXCEPT ![w] = NULL]
        /\ routine' = [routine EXCEPT ![w] = "test"]
    BY <1>2 DEF WorkerProcess, vars, queueVars, ownerVars
  <2>2. task[w] \in Data /\ Taken(task[w]) /\ ran[task[w]] = 0
    BY <1>0, <2>1 DEF Hands
  <2>3. /\ routine'[w] = "test" /\ ran'[task[w]] = 1
        /\ \A v \in Workers \ {w} : routine'[v] = routine[v] /\ task'[v] = task[v]
        /\ \A d \in Data \ {task[w]} : ran'[d] = ran[d]
    BY <1>0, <2>1, <2>2
  <2>4. \A d \in Data : Taken(d)' <=> Taken(d)
    BY <2>1 DEF Taken
  <2>5. \A v \in Workers \ {w} : routine[v] = "process" => task[v] # task[w]
    BY <1>0, <2>1 DEF Hands
  <2>6. (\A v \in Workers : routine[v] = "process" =>
                              task[v] \in Data /\ Taken(task[v]) /\ ran[task[v]] = 0)'
    BY <1>0, <2>3, <2>4, <2>5 DEF Hands
  <2>7. \A u, v \in Workers :
          (routine'[u] = "process" /\ routine'[v] = "process" /\ task'[u] = task'[v]) => u = v
    BY <1>0, <2>3 DEF Hands
  <2>8. \A d \in Data : ran'[d] <= 1 /\ (ran'[d] = 1 => Taken(d)')
    BY <1>0, <2>2, <2>3, <2>4 DEF Hands
  <2>9. opc' \notin {"clear", "done"} =>
          \A d \in Data : Taken(d)' =>
            ran'[d] = 1 \/ \E v \in Workers : routine'[v] = "process" /\ task'[v] = d
    <3> SUFFICES ASSUME opc \notin {"clear", "done"}, NEW d \in Data, Taken(d), d # task[w],
                        ran[d] # 1
                 PROVE  \E v \in Workers : routine'[v] = "process" /\ task'[v] = d
      BY <2>1, <2>3, <2>4
    <3>1. PICK v \in Workers : routine[v] = "process" /\ task[v] = d
      BY <1>0 DEF Hands
    <3>2. QED BY <2>3, <3>1
  <2>10. QED BY <2>6, <2>7, <2>8, <2>9 DEF Hands
<1>3. CASE DestroyStep
  <2>1. opc = "clear" /\ opc' \in {"clear", "done"} /\ UNCHANGED <<task, ran, routine>>
    BY <1>3 DEF DestroyStep, workerVars
  <2>2. \A d \in Data : Taken(d) => Taken(d)'
    <3>1. CASE DequeueTake(Owner) BY <3>1, TakesFreshTask, WhoIsThere
    <3>2. CASE UNCHANGED removed BY <3>2 DEF Taken
    <3>3. QED
      BY <1>3, <3>1, <3>2
      DEF DestroyStep, ClearTest, DequeueWait, DequeueShutdown, listVars
  <2>3. QED BY <1>0, <2>1, <2>2 DEF Hands
<1>4. ASSUME NEW w \in Workers, WorkerLoop(w) \/ WorkerExit(w) \/ WorkerWait(w) \/ WorkerNull(w)
      PROVE  Hands'
  <2>1. UNCHANGED <<removed, task, ran, opc>>
    BY <1>4
    DEF WorkerLoop, WorkerExit, WorkerWait, WorkerNull, DequeueCall, DequeueWait,
        DequeueShutdown, listVars, vars, queueVars, ownerVars, workerVars
  <2>2. \/ UNCHANGED routine
        \/ /\ routine[w] \in {"test", "dequeue"}
           /\ \E r \in {"dequeue", "exited", "test"} : routine' = [routine EXCEPT ![w] = r]
    BY <1>0, <1>4
    DEF WorkerLoop, WorkerExit, WorkerWait, WorkerNull, DequeueShutdown, workerVars,
        Placement, WorkersPlaced
  <2>3. QED BY <1>0, <2>1, <2>2, QuietHands
<1>5. CASE CreateWorker
  <2>1. UNCHANGED <<removed, task, ran>> /\ opc = "create"
        /\ routine' = [routine EXCEPT ![created + 1] = "test"]
    BY <1>5 DEF CreateWorker, vars, queueVars
  <2>2. routine[created + 1] # "process"
    BY <1>0, <1>5, WhoIsThere DEF CreateWorker, Placement, Started, PoolInv, PoolTypeOK
  <2>3. QED BY <1>0, <2>1, <2>2, QuietHands
<1>6. CASE \/ Broadcast \/ Join \/ JoinInvalid \/ ShutdownReturns_ToUser
           \/ ShutdownReturns_ToCreate \/ ShutdownReturns_ToDestroy
           \/ CreateFails \/ OwnerShutdown \/ OwnerDestroy
  <2>1. UNCHANGED <<removed, task, ran, routine>> /\ opc \notin {"clear", "done"}
    BY <1>6
    DEF Broadcast, Join, JoinInvalid, ShutdownReturns_ToUser, ShutdownReturns_ToCreate,
        ShutdownReturns_ToDestroy, CreateFails, OwnerShutdown, OwnerDestroy,
        DestroyCall, listVars, vars, queueVars, workerVars
  <2>2. QED BY <2>1, QuietHands
<1>7. CASE \/ \E s \in Submitters : AddTaskStep(s) \/ \E d \in Data : AddTask(s, d)
           \/ PoolSpurious \/ PoolSignal \/ UNCHANGED poolVars
  <2>1. UNCHANGED <<removed, task, ran, routine, opc>>
    BY <1>7
    DEF AddTaskStep, AddTask, EnqueueWait, EnqueueLink, LinkNode, EnqueueCall,
        PoolSpurious, SpuriousWakeup, PoolSignal, DeliverSignal, poolVars, listVars,
        vars, queueVars, ownerVars, workerVars
  <2>2. QED BY <2>1, QuietHands
<1>8. QED
  BY <1>1, <1>2, <1>3, <1>4, <1>5, <1>6, <1>7 DEF PoolNext, OwnerStep, WorkerStep

----------------------------------------------------------------------------
(* signal_flag never goes back.                                             *)
LEMMA SignalStays ==
  ASSUME PoolInv, [PoolNext]_poolVars, signal_flag = SHUTDOWN
  PROVE  signal_flag' = SHUTDOWN
<1>1. CASE Broadcast BY <1>1 DEF Broadcast
<1>2. CASE ~Broadcast
  <2>1. [Next]_vars BY <1>2, PoolStepIsQueueStep DEF PoolInv
  <2>2. QED
    BY <2>1
    DEF Next, ThreadStep, ThreadCall, EnqueueWait, EnqueueLink, DequeueWait,
        DequeueShutdown, DequeueTake, ClearTest, EnqueueCall, DequeueCall, ClearCall,
        DestroyCall, SpuriousWakeup, DeliverSignal, signal_handler,
        signal_wait_thread, vars
<1>3. QED BY <1>1, <1>2

(* A pool whose threads have not been created satisfies the invariant.      *)
LEMMA InitPoolInv == PoolInit => PoolInv
<1> SUFFICES ASSUME PoolInit PROVE PoolInv
  OBVIOUS
<1> USE WhoIsThere DEF PoolInit
<1>1. IInv BY InitIInv
<1>2. PoolTypeOK BY <1>1 DEF PoolTypeOK, OwnerPCs, RoutinePCs, IInv
<1>3. Placement
  BY DEF Placement, WorkersPlaced, OthersPlaced, OwnerPlaced, Started, Init, QueueInit
<1>4. Phases
  BY DEF Phases, NoCalls, NoWorkers, Init, QueueInit
<1>5. Hands
  BY DEF Hands, Taken, Init, QueueInit
<1>6. QED BY <1>1, <1>2, <1>3, <1>4, <1>5 DEF PoolInv

(* Every step of the pool preserves the invariant.                          *)
LEMMA StepPoolInv == PoolInv /\ [PoolNext]_poolVars => PoolInv'
<1> SUFFICES ASSUME PoolInv, [PoolNext]_poolVars PROVE PoolInv'
  OBVIOUS
<1>1. Placement' /\ Phases'
  BY WorkerPlacement, OwnerPlacement, OtherPlacement DEF PoolNext
<1>2. QED
  BY <1>1, PoolTypeStep, PoolQueueInv, PoolHands DEF PoolInv

(* The pool's threads, its owner and its queue are at every moment in       *)
(* places that fit together; in particular the queue of a running pool is   *)
(* the well-formed queue of QueueShape although thread_pool_shutdown        *)
(* broadcasts on its condition variable behind its back.                    *)
THEOREM PoolInvariant == PoolSpec => []PoolInv
BY InitPoolInv, StepPoolInv, PTL DEF PoolSpec

(* A task is in the hands of at most one worker.                            *)
LEMMA OneHand ==
  ASSUME Hands, NEW d \in Data
  PROVE  Cardinality(InHand(d)) = IF InHand(d) = {} THEN 0 ELSE 1
<1>1. CASE InHand(d) = {} BY <1>1, FS_EmptySet
<1>2. CASE InHand(d) # {}
  <2>1. PICK w \in InHand(d) : TRUE BY <1>2
  <2>2. \A v \in InHand(d) : v = w
    BY <2>1 DEF Hands, InHand
  <2>3. InHand(d) = {w} BY <2>1, <2>2
  <2>4. QED BY <1>2, <2>3, FS_Singleton
<1>3. QED BY <1>1, <1>2

(* A task is executed at most once, however the workers race for the queue. *)
THEOREM PoolTaskOnce == PoolSpec => []TaskOnce
<1>1. PoolInv => TaskOnce
  <2> SUFFICES ASSUME PoolInv, NEW d \in Data
               PROVE  /\ ran[d] + Cardinality(InHand(d)) <= 1
                      /\ ran[d] + Cardinality(InHand(d)) > 0 => Taken(d)
    BY DEF TaskOnce
  <2>1. Hands /\ ran[d] \in Nat BY DEF PoolInv, PoolTypeOK
  <2>2. Cardinality(InHand(d)) = IF InHand(d) = {} THEN 0 ELSE 1
    BY <2>1, OneHand
  <2>3. InHand(d) # {} => ran[d] = 0 /\ Taken(d)
    BY <2>1 DEF Hands, InHand
  <2>4. ran[d] <= 1 /\ (ran[d] = 1 => Taken(d)) BY <2>1 DEF Hands
  <2>5. QED BY <2>1, <2>2, <2>3, <2>4
<1>2. QED BY <1>1, PoolInvariant, PTL

(* No accepted task disappears before thread_pool_destroy clears the queue. *)
THEOREM PoolNoTaskDropped == PoolSpec => []NoTaskDropped
<1>1. PoolInv => NoTaskDropped
  BY DEF PoolInv, Hands, NoTaskDropped, InHand
<1>2. QED BY <1>1, PoolInvariant, PTL

(* thread_pool_destroy frees the pool only when no thread is in its code,   *)
(* whatever was joined twice or never started.                              *)
THEOREM PoolFreedWhenIdle == PoolSpec => []FreedWhenIdle
<1>1. PoolInv => FreedWhenIdle
  <2> SUFFICES ASSUME PoolInv, ~alive
               PROVE  (\A w \in Workers : routine[w] \in {"none", "exited"}) /\ Quiescent
    BY DEF FreedWhenIdle
  <2>1. opc = "done" BY DEF PoolInv, Phases
  <2>2. \A w \in Workers : routine[w] \in {"none", "exited"} /\ pc[w] = "idle"
    BY <2>1 DEF PoolInv, Phases, NoWorkers, Gone, Placement, WorkersPlaced
  <2>3. pc[Owner] = "idle" /\ \A s \in Others : pc[s] = "idle"
    BY <2>1 DEF PoolInv, Phases, NoCalls
  <2>4. QED BY <2>2, <2>3, WhoIsThere DEF Quiescent
<1>2. QED BY <1>1, PoolInvariant, PTL
=============================================================================
