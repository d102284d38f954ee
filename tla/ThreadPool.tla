---------------------------- MODULE ThreadPool ----------------------------
(***************************************************************************)
(* libs/Threading: the thread pool, on top of its unbounded task queue and  *)
(* the global signal_flag.  The queue steps are those of module Queue; a    *)
(* task_t is a datum of the queue.                                          *)
(*                                                                         *)
(* Workers 1..ThreadCount run thread_routine.  The owner creates the pool   *)
(* and calls thread_pool_shutdown and thread_pool_destroy; the owner and    *)
(* the other threads submit tasks.  thread_pool_shutdown only wakes and     *)
(* joins: signal_flag is set from outside, by a signal or by the program,   *)
(* at any time or never.                                                    *)
(*                                                                         *)
(* pthread_join on a handle that was already joined, or never filled in by  *)
(* pthread_create, is undefined; built against glibc it returns at once or  *)
(* crashes, and the model chooses.                                          *)
(***************************************************************************)
EXTENDS Queue

CONSTANTS ThreadCount,  \* thread_count given to thread_pool_create
          Owner         \* the thread that creates and destroys the pool

MIN_THREADS == 2
Workers     == 1..ThreadCount
Submitters  == Threads \ Workers

ASSUME PoolConstants ==
  /\ ThreadCount \in Nat /\ ThreadCount >= MIN_THREADS
  /\ Workers \subseteq Threads /\ Owner \in Submitters
  /\ MaxSize = QUEUE_UNBOUNDED

VARIABLES
  opc,          \* where the owner is in the pool's API
  why,          \* on whose behalf thread_pool_shutdown runs
  jdx,          \* idx of its join loop
  created,      \* how many workers pthread_create has started
  joined,       \* the workers that were joined
  routine,      \* where each worker is in thread_routine
  task,         \* the task a worker is processing
  ran           \* history: how often each task was executed

ownerVars  == <<opc, why, jdx, created, joined>>
workerVars == <<routine, task, ran>>
poolVars   == <<vars, ownerVars, workerVars>>

OwnerPCs    == {"create", "ready", "broadcast", "join", "clear", "done", "crashed"}
RoutinePCs  == {"none", "test", "dequeue", "process", "exited"}

PoolTypeOK ==
  /\ TypeOK
  /\ opc \in OwnerPCs
  /\ why \in {"user", "create_failed", "destroy"}
  /\ jdx \in 1..(ThreadCount + 1)
  /\ created \in 0..ThreadCount
  /\ joined \in SUBSET Workers
  /\ routine \in [Workers -> RoutinePCs]
  /\ task \in [Workers -> Data \union {NULL}]
  /\ ran \in [Data -> Nat]

(* thread_pool_create after its allocations succeeded, before its loop.     *)
PoolInit ==
  /\ Init
  /\ opc = "create" /\ why = "user" /\ jdx = 1 /\ created = 0 /\ joined = {}
  /\ routine = [w \in Workers |-> "none"]
  /\ task = [w \in Workers |-> NULL]
  /\ ran = [d \in Data |-> 0]

----------------------------------------------------------------------------
(* thread_pool_shutdown begins, called by the user, by thread_pool_destroy  *)
(* or by the failure path of thread_pool_create.                            *)
BeginShutdown(reason) ==
  /\ opc' = "broadcast" /\ why' = reason /\ jdx' = 1

(* One round of the loop of thread_pool_create.                             *)
CreateWorker ==
  /\ opc = "create" /\ created < ThreadCount
  /\ created' = created + 1
  /\ routine' = [routine EXCEPT ![created + 1] = "test"]
  /\ opc' = IF created + 1 = ThreadCount THEN "ready" ELSE "create"
  /\ UNCHANGED <<vars, why, jdx, joined, task, ran>>

CreateFails ==
  /\ opc = "create"
  /\ BeginShutdown("create_failed")
  /\ UNCHANGED <<vars, created, joined, workerVars>>

(* thread_pool_add_task.  The flag is tested here; the task is linked by a  *)
(* later step of queue_enqueue.  With the flag set, the call does nothing.  *)
(* Other threads may submit while the owner is in thread_pool_shutdown; no  *)
(* thread has the pool before it is created or after the owner destroys it. *)
AddTask(s, d) ==
  /\ \/ opc = "ready"
     \/ opc \in {"broadcast", "join"} /\ why = "user" /\ s # Owner
  /\ signal_flag # SHUTDOWN
  /\ EnqueueCall(s, d)
  /\ UNCHANGED <<ownerVars, workerVars>>

AddTaskStep(s) ==
  /\ EnqueueWait(s) \/ EnqueueLink(s)
  /\ UNCHANGED <<ownerVars, workerVars>>

----------------------------------------------------------------------------
OwnerShutdown ==
  /\ opc = "ready" /\ pc[Owner] = "idle"
  /\ BeginShutdown("user")
  /\ UNCHANGED <<vars, created, joined, workerVars>>

(* The program destroys the pool when no other thread is submitting.        *)
OwnerDestroy ==
  /\ opc = "ready" /\ \A s \in Submitters : pc[s] = "idle"
  /\ BeginShutdown("destroy")
  /\ UNCHANGED <<vars, created, joined, workerVars>>

MoreToJoin == jdx <= ThreadCount

(* Mutants: a join that does not wait; one signal instead of the broadcast. *)
JoinReturns_at_once(w) == routine[w] # "none"
WakeAll_one(waiters) == SignalNotEmpty(pc)

(* pthread_join of a worker returns once its routine has.                   *)
JoinReturns(w) == routine[w] = "exited"

Joinable(idx) == idx <= created /\ idx \notin joined

(* pthread_cond_broadcast under the queue's mutex.                          *)
WakeAll(waiters) == pc' = [t \in Threads |-> IF t \in waiters THEN "deq" ELSE pc[t]]

Broadcast ==
  /\ opc = "broadcast"
  /\ WakeAll(NotEmptyWaiters)
  /\ opc' = "join"
  /\ UNCHANGED <<listVars, alive, arg, caller, signal_flag, why, jdx, created,
                 joined, workerVars>>

Join ==
  /\ opc = "join" /\ MoreToJoin /\ Joinable(jdx)
  /\ JoinReturns(jdx)
  /\ joined' = joined \union {jdx}
  /\ jdx' = jdx + 1
  /\ UNCHANGED <<vars, opc, why, created, workerVars>>

JoinInvalid ==
  /\ opc = "join" /\ MoreToJoin /\ ~Joinable(jdx)
  /\ \/ jdx' = jdx + 1 /\ UNCHANGED opc
     \/ opc' = "crashed" /\ UNCHANGED jdx
  /\ UNCHANGED <<vars, why, created, joined, workerVars>>

(* thread_pool_shutdown returns: to the user, to the failure path of        *)
(* thread_pool_create, which goes on to thread_pool_destroy, or to          *)
(* thread_pool_destroy, which goes on to queue_destroy.                     *)
ShutdownReturns_ToUser ==
  /\ opc = "join" /\ ~MoreToJoin /\ why = "user"
  /\ opc' = "ready"
  /\ UNCHANGED <<vars, why, jdx, created, joined, workerVars>>

ShutdownReturns_ToCreate ==
  /\ opc = "join" /\ ~MoreToJoin /\ why = "create_failed"
  /\ BeginShutdown("destroy")
  /\ UNCHANGED <<vars, created, joined, workerVars>>

ShutdownReturns_ToDestroy ==
  /\ opc = "join" /\ ~MoreToJoin /\ why = "destroy"
  /\ opc' = "clear"
  /\ DestroyCall(Owner)
  /\ UNCHANGED <<why, jdx, created, joined, workerVars>>

(* queue_destroy discards the tasks that are left, with free().             *)
DestroyStep ==
  /\ opc = "clear"
  /\ \/ ClearTest(Owner) \/ DequeueTake(Owner)
     \/ DequeueWait(Owner) \/ DequeueShutdown(Owner)
  /\ opc' = IF alive' THEN "clear" ELSE "done"
  /\ UNCHANGED <<why, jdx, created, joined, workerVars>>

----------------------------------------------------------------------------
(* Mutant: the flag is tested again after the dequeue, and the task in hand *)
(* is forgotten.                                                            *)
AfterTake_retest == IF signal_flag = SHUTDOWN THEN "exited" ELSE "process"

(* thread_routine: its loop condition, and where it goes with a task.       *)
KeepRunning == signal_flag # SHUTDOWN
AfterTake   == "process"

WorkerLoop(w) ==
  /\ routine[w] = "test" /\ KeepRunning
  /\ DequeueCall(w)
  /\ routine' = [routine EXCEPT ![w] = "dequeue"]
  /\ UNCHANGED <<ownerVars, task, ran>>

WorkerExit(w) ==
  /\ routine[w] = "test" /\ ~KeepRunning
  /\ routine' = [routine EXCEPT ![w] = "exited"]
  /\ UNCHANGED <<vars, ownerVars, task, ran>>

WorkerWait(w) ==
  /\ DequeueWait(w)
  /\ UNCHANGED <<ownerVars, workerVars>>

WorkerNull(w) ==
  /\ DequeueShutdown(w)
  /\ routine' = [routine EXCEPT ![w] = "test"]
  /\ UNCHANGED <<ownerVars, task, ran>>

WorkerTake(w) ==
  /\ DequeueTake(w)
  /\ task' = [task EXCEPT ![w] = head]
  /\ routine' = [routine EXCEPT ![w] = AfterTake]
  /\ UNCHANGED <<ownerVars, ran>>

(* process_task: exe_function, then arg_free if there is one; free(task).   *)
WorkerProcess(w) ==
  /\ routine[w] = "process"
  /\ ran' = [ran EXCEPT ![task[w]] = @ + 1]
  /\ task' = [task EXCEPT ![w] = NULL]
  /\ routine' = [routine EXCEPT ![w] = "test"]
  /\ UNCHANGED <<vars, ownerVars>>

----------------------------------------------------------------------------
WorkerStep(w) ==
  \/ WorkerLoop(w) \/ WorkerExit(w) \/ WorkerWait(w) \/ WorkerNull(w)
  \/ WorkerTake(w) \/ WorkerProcess(w)

(* The steps of module Queue that are nobody's call.                        *)
PoolSpurious ==
  (\E t \in Threads : SpuriousWakeup(t)) /\ UNCHANGED <<ownerVars, workerVars>>

PoolSignal == DeliverSignal /\ UNCHANGED <<ownerVars, workerVars>>

OwnerStep ==
  \/ CreateWorker \/ Broadcast \/ Join \/ JoinInvalid \/ DestroyStep
  \/ ShutdownReturns_ToUser \/ ShutdownReturns_ToCreate \/ ShutdownReturns_ToDestroy

(* A crash ends the process.  The model only stops the owner: the steps the *)
(* other threads may still take make the properties no easier to satisfy.   *)
PoolNext ==
  \/ \E w \in Workers : WorkerStep(w)
  \/ OwnerStep \/ CreateFails \/ OwnerShutdown \/ OwnerDestroy
  \/ \E s \in Submitters : AddTaskStep(s) \/ \E d \in Data : AddTask(s, d)
  \/ PoolSpurious \/ PoolSignal

PoolSpec == PoolInit /\ [][PoolNext]_poolVars

(* Every thread that can run is scheduled, and a task function returns.     *)
PoolFairness ==
  /\ \A w \in Workers : WF_poolVars(WorkerStep(w))
  /\ \A s \in Submitters : WF_poolVars(AddTaskStep(s))
  /\ WF_poolVars(OwnerStep)

PoolFairSpec == PoolSpec /\ PoolFairness

----------------------------------------------------------------------------
Taken(d) == \E i \in DOMAIN removed : removed[i] = d
InHand(d) == {w \in Workers : routine[w] = "process" /\ task[w] = d}

(* A task accepted by the pool is executed at most once, is in the hands of *)
(* at most one worker, and never runs again once it ran.                    *)
TaskOnce ==
  \A d \in Data :
    /\ ran[d] + Cardinality(InHand(d)) <= 1
    /\ ran[d] + Cardinality(InHand(d)) > 0 => Taken(d)

(* A task the pool accepted is lost only by thread_pool_destroy: until the  *)
(* queue is being cleared, every dequeued task was run or is being run.     *)
NoTaskDropped ==
  opc \notin {"clear", "done"} =>
    \A d \in Data : Taken(d) => ran[d] = 1 \/ InHand(d) # {}

(* Nobody is in the pool's code when its queue and the pool are freed: all  *)
(* started workers have left thread_routine, no thread is in a queue call.  *)
FreedWhenIdle ==
  ~alive => /\ \A w \in Workers : routine[w] \in {"none", "exited"}
            /\ Quiescent

(* What thread_pool.h says of thread_pool_shutdown, "Waits for all tasks to *)
(* complete and joins all worker threads": when it returns, every task that *)
(* the pool accepted has been run.  The code joins workers that leave their *)
(* loop with tasks still in the queue.                                      *)
WaitsForAllTasks ==
  [][opc = "join" /\ opc' \in {"ready", "broadcast", "clear"}
       => \A i \in DOMAIN linked : ran[linked[i]] = 1]_poolVars

(* While the program is not shutting down, an accepted task is executed.    *)
AcceptedTaskRuns ==
  \A d \in Data :
    (\E i \in DOMAIN linked : linked[i] = d)
      ~> (ran[d] = 1 \/ signal_flag = SHUTDOWN \/ opc = "crashed")

(* A shutdown that begins after signal_flag was set gets all workers out of *)
(* the queue and returns; a destroy then also finishes.                     *)
ShutdownTerminates ==
  (opc = "broadcast" /\ signal_flag = SHUTDOWN)
    ~> (opc \in {"ready", "done", "crashed"})
=============================================================================
