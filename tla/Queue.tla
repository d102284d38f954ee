------------------------------- MODULE Queue -------------------------------
(***************************************************************************)
(* libs/DSA/queue: the blocking FIFO queue.                                 *)
(*                                                                         *)
(* The queue is the linked list of the code: head, tail, one next pointer   *)
(* per node and current_size.  A node is named by the datum it carries; a   *)
(* datum stands for one call of queue_enqueue, so it is enqueued at most    *)
(* once.  Every section the code executes between pthread_mutex_lock and    *)
(* the matching unlock or pthread_cond_wait is one action, because all it   *)
(* touches is touched by others under the same mutex.  The exception is the *)
(* loop test of queue_clear, which reads current_size without the mutex: it *)
(* is an action of its own.                                                 *)
(*                                                                         *)
(* Failed allocations and NULL arguments return before anything is shared   *)
(* and change no state, so they are stuttering steps.                       *)
(***************************************************************************)
EXTENDS Signals, Naturals, Sequences, FiniteSets

CONSTANTS Threads,      \* the threads that call the queue
          Data,         \* the pointers that are enqueued
          MaxSize,      \* max_size given to queue_init
          NULL          \* no node, no datum

QUEUE_UNBOUNDED == 0

ASSUME ThreadsFinite == IsFiniteSet(Threads)
ASSUME MaxSizeNat == MaxSize \in Nat
ASSUME NullIsNoDatum == NULL \notin Data

VARIABLES
  head, tail, next,     \* the list
  current_size,         \* the number of nodes, as the code counts them
  alive,                \* FALSE once queue_destroy has freed the queue
  pc,                   \* where each thread is in a call
  arg,                  \* the datum a queue_enqueue in progress was given
  caller,               \* who called the queue_dequeue a thread is in
  linked,               \* history: data in the order their nodes were linked
  removed               \* history: data in the order they were dequeued

listVars  == <<head, tail, next, current_size, linked, removed>>
queueVars == <<head, tail, next, current_size, linked, removed,
               alive, pc, arg, caller>>
vars      == <<queueVars, signal_flag>>

(* "enq" and "deq" are about to take the mutex and test the loop condition, *)
(* for the first time or after a wakeup; "clear" is at the unlocked test.   *)
PCs == {"idle", "enq", "enqWait", "deq", "deqWait", "clear"}

TypeOK ==
  /\ SignalTypeOK
  /\ head \in Data \union {NULL}
  /\ tail \in Data \union {NULL}
  /\ next \in [Data -> Data \union {NULL}]
  /\ current_size \in Nat
  /\ alive \in BOOLEAN
  /\ pc \in [Threads -> PCs]
  /\ arg \in [Threads -> Data \union {NULL}]
  /\ caller \in [Threads -> {"user", "queue_clear", "queue_destroy"}]
  /\ linked \in Seq(Data)
  /\ removed \in Seq(Data)

(* queue_init: empty list, nobody inside.                                   *)
QueueInit ==
  /\ head = NULL /\ tail = NULL
  /\ next = [d \in Data |-> NULL]
  /\ current_size = 0
  /\ alive = TRUE
  /\ pc = [t \in Threads |-> "idle"]
  /\ arg = [t \in Threads |-> NULL]
  /\ caller = [t \in Threads |-> "user"]
  /\ linked = <<>> /\ removed = <<>>

----------------------------------------------------------------------------
(* Condition variables (POSIX).  The threads blocked on each of them, and   *)
(* where a blocked thread resumes.                                          *)
At(where)       == {t \in Threads : pc[t] = where}
NotEmptyWaiters == At("deqWait")
NotFullWaiters  == At("enqWait")

(* pthread_cond_signal(cv), after which the caller is at p: one of the      *)
(* blocked threads, if there is one, becomes runnable.                      *)
CondSignal(waiters, resume, p) ==
  IF waiters = {} THEN pc' = p
  ELSE \E w \in waiters : pc' = [p EXCEPT ![w] = resume]

(* A wakeup nobody asked for, which POSIX permits at any time.              *)
SpuriousWakeup(t) ==
  /\ pc[t] \in {"enqWait", "deqWait"}
  /\ pc' = [pc EXCEPT ![t] = IF pc[t] = "enqWait" THEN "enq" ELSE "deq"]
  /\ UNCHANGED <<listVars, alive, arg, caller, signal_flag>>

----------------------------------------------------------------------------
(* Mutant: off by one in the capacity test.                                 *)
queue_is_full_late == MaxSize # QUEUE_UNBOUNDED /\ current_size > MaxSize

queue_is_empty == current_size = 0
queue_is_full  == MaxSize # QUEUE_UNBOUNDED /\ current_size >= MaxSize
queue_peek     == head

(* Mutants: not_empty is signalled only on the transition from empty (as    *)
(* the comment of queue_t says), or not at all.                             *)
SignalNotEmpty_transition(p) ==
  IF current_size = 0 THEN CondSignal(NotEmptyWaiters, "deq", p) ELSE pc' = p
SignalNotEmpty_never(p) == pc' = p

(* The signal queue_enqueue sends for every node it links.                  *)
SignalNotEmpty(p) == CondSignal(NotEmptyWaiters, "deq", p)

(* Mutant: not_full is signalled only on the transition from full.          *)
SignalNotFull_transition(p) ==
  IF current_size = MaxSize THEN CondSignal(NotFullWaiters, "enq", p) ELSE pc' = p

(* The signal queue_dequeue sends for every node it unlinks.                *)
SignalNotFull(p) == CondSignal(NotFullWaiters, "enq", p)

(* Mutant: queue_dequeue does not look at signal_flag.                      *)
ShuttingDown_ignored == FALSE

ShuttingDown == signal_flag = SHUTDOWN

(* A datum no call has been given yet.                                      *)
Fresh(d) == (\A i \in DOMAIN linked : linked[i] # d) /\ (\A t \in Threads : arg[t] # d)

(* queue_enqueue up to pthread_mutex_lock.                                  *)
EnqueueCall(t, d) ==
  /\ alive /\ pc[t] = "idle" /\ Fresh(d)
  /\ pc' = [pc EXCEPT ![t] = "enq"]
  /\ arg' = [arg EXCEPT ![t] = d]
  /\ UNCHANGED <<listVars, alive, caller, signal_flag>>

(* The loop of queue_enqueue finds the queue full and waits.                *)
EnqueueWait(t) ==
  /\ pc[t] = "enq" /\ queue_is_full
  /\ pc' = [pc EXCEPT ![t] = "enqWait"]
  /\ UNCHANGED <<listVars, alive, arg, caller, signal_flag>>

(* Mutant: the node is linked in front of the head.                         *)
LinkNode_front(d) ==
  /\ head' = d /\ next' = [next EXCEPT ![d] = head]
  /\ tail' = IF current_size = 0 THEN d ELSE tail
  /\ current_size' = current_size + 1
  /\ linked' = Append(linked, d)
  /\ UNCHANGED removed

(* new_node becomes the tail, and the head too when the queue was empty.    *)
LinkNode(d) ==
  /\ IF current_size = 0
       THEN head' = d /\ next' = [next EXCEPT ![d] = NULL]
       ELSE head' = head /\ next' = [next EXCEPT ![d] = NULL, ![tail] = d]
  /\ tail' = d
  /\ current_size' = current_size + 1
  /\ linked' = Append(linked, d)
  /\ UNCHANGED removed

EnqueueLink(t) ==
  /\ pc[t] = "enq" /\ ~queue_is_full
  /\ LinkNode(arg[t])
  /\ SignalNotEmpty([pc EXCEPT ![t] = "idle"])
  /\ arg' = [arg EXCEPT ![t] = NULL]
  /\ UNCHANGED <<alive, caller, signal_flag>>

----------------------------------------------------------------------------
DequeueCall(t) ==
  /\ alive /\ pc[t] = "idle"
  /\ pc' = [pc EXCEPT ![t] = "deq"]
  /\ caller' = [caller EXCEPT ![t] = "user"]
  /\ UNCHANGED <<listVars, alive, arg, signal_flag>>

(* queue_dequeue returns to its caller: a user gets the datum that was at   *)
(* the head (the last of removed); queue_clear gives it to customfree and   *)
(* goes back to its loop test.                                              *)
ReturnTo(t) == IF caller[t] = "user" THEN "idle" ELSE "clear"

(* The loop of queue_dequeue finds nothing and waits ...                    *)
DequeueWait(t) ==
  /\ pc[t] = "deq" /\ queue_is_empty /\ ~ShuttingDown
  /\ pc' = [pc EXCEPT ![t] = "deqWait"]
  /\ UNCHANGED <<listVars, alive, arg, caller, signal_flag>>

(* ... or gives up with NULL because the program is shutting down.          *)
DequeueShutdown(t) ==
  /\ pc[t] = "deq" /\ queue_is_empty /\ ShuttingDown
  /\ pc' = [pc EXCEPT ![t] = ReturnTo(t)]
  /\ UNCHANGED <<listVars, alive, arg, caller, signal_flag>>

(* Mutants: tail is not reset with the last node; head stays where it is.   *)
UnlinkHead_keeps_tail ==
  /\ head' = next[head]
  /\ current_size' = current_size - 1
  /\ removed' = Append(removed, head)
  /\ UNCHANGED <<tail, next, linked>>

UnlinkHead_stays ==
  /\ current_size' = current_size - 1
  /\ removed' = Append(removed, head)
  /\ UNCHANGED <<head, tail, next, linked>>

(* head moves on; when it runs off the list, tail is reset too.             *)
UnlinkHead ==
  /\ head' = next[head]
  /\ tail' = IF next[head] = NULL THEN NULL ELSE tail
  /\ current_size' = current_size - 1
  /\ removed' = Append(removed, head)
  /\ UNCHANGED <<next, linked>>

DequeueTake(t) ==
  /\ pc[t] = "deq" /\ ~queue_is_empty
  /\ UnlinkHead
  /\ SignalNotFull([pc EXCEPT ![t] = ReturnTo(t)])
  /\ UNCHANGED <<alive, arg, caller, signal_flag>>

----------------------------------------------------------------------------
ClearCall(t) ==
  /\ alive /\ pc[t] = "idle"
  /\ pc' = [pc EXCEPT ![t] = "clear"]
  /\ caller' = [caller EXCEPT ![t] = "queue_clear"]
  /\ UNCHANGED <<listVars, alive, arg, signal_flag>>

(* queue_destroy starts with queue_clear.                                   *)
DestroyCall(t) ==
  /\ alive /\ pc[t] = "idle"
  /\ pc' = [pc EXCEPT ![t] = "clear"]
  /\ caller' = [caller EXCEPT ![t] = "queue_destroy"]
  /\ UNCHANGED <<listVars, alive, arg, signal_flag>>

(* while (queue->current_size > 0), without the mutex.                      *)
ClearTest(t) ==
  /\ pc[t] = "clear"
  /\ pc' = [pc EXCEPT ![t] = IF current_size > 0 THEN "deq" ELSE "idle"]
  /\ alive' = (alive /\ ~(current_size = 0 /\ caller[t] = "queue_destroy"))
  /\ UNCHANGED <<listVars, arg, caller, signal_flag>>

----------------------------------------------------------------------------
DeliverSignal ==
  /\ \E sig \in SIGNAL_LIST : signal_handler(sig) \/ signal_wait_thread(sig)
  /\ UNCHANGED queueVars

(* The steps of a thread that is inside a call, and the calls it may make.  *)
(* queue_destroy has no protection of its own: its caller sees to it that   *)
(* no thread is in a call (user_guide.md: "Be sure all producers and        *)
(* consumers terminate properly").                                          *)
Quiescent == \A u \in Threads : pc[u] = "idle"

ThreadStep(t) ==
  \/ EnqueueWait(t) \/ EnqueueLink(t)
  \/ DequeueWait(t) \/ DequeueShutdown(t) \/ DequeueTake(t)
  \/ ClearTest(t)

ThreadCall(t) ==
  \/ \E d \in Data : EnqueueCall(t, d)
  \/ DequeueCall(t) \/ ClearCall(t)
  \/ Quiescent /\ DestroyCall(t)

Init == SignalInit /\ QueueInit

Next ==
  \/ \E t \in Threads : ThreadStep(t) \/ ThreadCall(t) \/ SpuriousWakeup(t)
  \/ DeliverSignal

Spec == Init /\ [][Next]_vars

(* A runnable thread is eventually scheduled and gets the mutex.  Nothing   *)
(* is promised about calls, spurious wakeups or signals.                    *)
Fairness == \A t \in Threads : WF_vars(ThreadStep(t))

FairSpec == Spec /\ Fairness

----------------------------------------------------------------------------
(* The list the pointers spell is the data enqueued and not yet dequeued,   *)
(* oldest first: what was dequeued is a prefix of what was enqueued, head   *)
(* (what queue_peek shows) and tail are NULL exactly when the count is 0,   *)
(* and neither they nor a next pointer on the way ever leads to a node that *)
(* was freed.                                                               *)
Pending == Len(linked) - Len(removed)

ListShape ==
  /\ Len(removed) <= Len(linked)
  /\ current_size = Pending
  /\ \A i \in 1..Len(removed) : removed[i] = linked[i]
  /\ \A i, j \in 1..Len(linked) : linked[i] = linked[j] => i = j
  /\ queue_peek = IF Pending = 0 THEN NULL ELSE linked[Len(removed) + 1]
  /\ tail = IF Pending = 0 THEN NULL ELSE linked[Len(linked)]
  /\ \A i \in (Len(removed) + 1)..Len(linked) :
        next[linked[i]] = IF i = Len(linked) THEN NULL ELSE linked[i + 1]

(* A bounded queue never holds more than max_size nodes, however the woken  *)
(* and the newly arriving producers race for a freed place.                 *)
WithinCapacity == MaxSize # QUEUE_UNBOUNDED => current_size <= MaxSize

(* No lost wakeup.  While a consumer sleeps on not_empty, each item in the  *)
(* queue is matched by a consumer that is awake and will test the queue     *)
(* again; while a producer sleeps on not_full, each free place is matched   *)
(* by a producer that is awake.                                             *)
NoLostItem ==
  NotEmptyWaiters # {} => Cardinality(At("deq")) >= current_size

NoLostPlace ==
  NotFullWaiters # {} => Cardinality(At("enq")) + current_size >= MaxSize

(* A sleeping consumer does not coexist with an item for ever, nor a        *)
(* sleeping producer with a free place.                                     *)
WaitersServed ==
  /\ (NotEmptyWaiters # {} /\ ~queue_is_empty)
        ~> (NotEmptyWaiters = {} \/ queue_is_empty)
  /\ (NotFullWaiters # {} /\ ~queue_is_full)
        ~> (NotFullWaiters = {} \/ queue_is_full)

(* Once signal_flag is SHUTDOWN, every dequeue and every clear that is      *)
(* awake returns, whatever the other threads do.                            *)
ShutdownReturns ==
  \A t \in Threads :
    (signal_flag = SHUTDOWN /\ pc[t] \in {"deq", "clear"}) ~> (pc[t] = "idle")

(* queue_clear empties the queue and does not wait for more, which follows  *)
(* from what tech_spec.md says of all access to shared state, "protected by *)
(* `queue->mutex`".  It reads current_size without the mutex, and whoever   *)
(* takes the last item before its queue_dequeue leaves it asleep.           *)
ClearNeverWaits == \A t \in Threads : caller[t] = "queue_clear" => pc[t] # "deqWait"

----------------------------------------------------------------------------
(* The queue implements a FIFO channel.  Its content is the data linked and *)
(* not removed, which by ListShape is what a walk along the next pointers   *)
(* finds; what is taken from it is what head pointed to.                    *)
Contents == [i \in 1..Pending |-> linked[Len(removed) + i]]

Fifo == INSTANCE FifoChannel WITH Bound <- MaxSize, content <- Contents,
                                  taken <- removed

(* Every step of the queue is a step of the FIFO channel or leaves it alone.*)
ImplementsFifo == Fifo!Spec
=============================================================================
