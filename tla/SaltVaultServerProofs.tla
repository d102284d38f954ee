----------------------- MODULE SaltVaultServerProofs -----------------------
(***************************************************************************)
(* What the server and its main keep true for every command line, every     *)
(* configuration, every number of workers, jobs and addresses.              *)
(*                                                                         *)
(* The server never touches the pool but through its functions, so it       *)
(* inherits PoolInv.  What start_tcp_server leaves behind then depends on   *)
(* how far it got: ServerPhases ties its place in the code to the pool, the *)
(* socket manager, the listening socket and the call that failed.  What the *)
(* options ask for is kept, option by option, by Reading.                   *)
(***************************************************************************)
EXTENDS SaltVaultServer, ThreadPoolProofs

GotPool == {"resolve", "bind", "nonblock", "listen", "manager", "loop"}
Ended   == {"close", "destroy", "returned"}

BeforePool ==
  /\ spc = "idle" => opc = "create" /\ created = 0
  /\ spc \in {"idle", "pool"} => sock_mgr = "null" /\ open_fds = 0

Running ==
  spc \in GotPool =>
    /\ opc = "ready"
    /\ sock_mgr = IF spc = "loop" THEN "ready" ELSE "zero"
    /\ open_fds = IF spc \in {"resolve", "bind"} THEN 0 ELSE 1

(* From END on: which failure leaves what to clean up, and what is left.    *)
Closing ==
  spc = "close" =>
    /\ sock_mgr # "null" => opc = "ready"
    /\ sock_mgr \in {"null", IF failed = "loop" THEN "ready" ELSE "zero"}
    /\ open_fds = IF failed \in {"listen", "manager", "loop"} THEN 1 ELSE 0

Ending ==
  spc \in Ended =>
    /\ exit_code = "E_SUCCESS" => failed = "pool"
    /\ sock_mgr = "null" => /\ failed \in {"config", "pool"}
                            /\ opc = "done" \/ (opc = "create" /\ created = 0)
    /\ sock_mgr # "null" => failed \notin {"config", "pool"}
    /\ spc = "destroy" => sock_mgr = "freed"
    /\ (spc = "returned" /\ sock_mgr # "null") => opc = "done"
    /\ spc # "close" => open_fds = IF failed \in {"listen", "manager"} THEN 1 ELSE 0

(* The server never calls thread_pool_shutdown by itself, so a pool that is *)
(* ready has all its workers; and a worker ends on the signal only.         *)
PoolUse ==
  /\ opc \in {"broadcast", "join"} => why # "user"
  /\ (opc = "ready" \/ sock_mgr # "null") => created = ThreadCount

ExitedOnSignal ==
  \A w \in Workers : routine[w] = "exited" => signal_flag = SHUTDOWN

ServerPhases == BeforePool /\ Running /\ Closing /\ Ending /\ PoolUse

ServerInv == PoolInv /\ ServerTypeOK /\ ServerPhases /\ ExitedOnSignal

----------------------------------------------------------------------------
(* The steps of the server that are no steps of the pool.                   *)
OutsidePool ==
  \/ PoolCreated \/ PoolNull \/ Resolve \/ TryAddress \/ NoAddress
  \/ NonBlocking \/ Listen \/ sock_mgr_init \/ LoopFails
  \/ close_all_sockets \/ Return

(* The server's own steps are stuttering steps of the pool.                 *)
LEMMA OutsidePoolQuiet ==
  ASSUME OutsidePool
  PROVE  UNCHANGED poolVars
BY DEF OutsidePool, PoolCreated, PoolNull, Resolve, TryAddress, NoAddress,
       NonBlocking, Listen, sock_mgr_init, LoopFails, close_all_sockets, Return

(* Every step of the server and of main is a step of the pool, or none.     *)
LEMMA ServerStepIsPoolStep ==
  ASSUME [AppNext]_allVars
  PROVE  [PoolNext]_poolVars
<1>1. CASE OutsidePool BY <1>1, OutsidePoolQuiet
<1>2. CASE LoopDispatch \/ LoopDispatchStep
  BY <1>2, PoolConstants DEF LoopDispatch, LoopDispatchStep, PoolNext
<1>3. CASE DestroyPool \/ OwnerInPool
  BY <1>3 DEF DestroyPool, OwnerInPool, PoolNext
<1>4. CASE ServerOther BY <1>4 DEF ServerOther, PoolNext
<1>5. ASSUME NEW w \in Workers, ServerWorker(w) PROVE [PoolNext]_poolVars
  BY <1>5 DEF ServerWorker, PoolNext
<1>6. CASE AppStep
  BY <1>6
  DEF AppStep, MainArgs, NextOption, NoMoreOptions, CallServer, ServerReturns,
      start_tcp_server, serverVars
<1>7. CASE UNCHANGED allVars BY <1>7 DEF allVars, serverVars
<1>8. QED
  BY <1>1, <1>2, <1>3, <1>4, <1>5, <1>6, <1>7
  DEF AppNext, ServerNext, ServerStep, OutsidePool

(* The server uses its thread pool only as the pool's own specification     *)
(* allows, whatever fails around it: everything proved of the pool holds of *)
(* the pool of a running server.                                            *)
THEOREM ServerImplementsPool == AppSpec => PoolSpec
<1>1. AppInit => PoolInit BY DEF AppInit, ServerInit
<1>2. [AppNext]_allVars => [PoolNext]_poolVars BY ServerStepIsPoolStep
<1>3. QED BY <1>1, <1>2, PTL DEF AppSpec, PoolSpec

----------------------------------------------------------------------------
(* A worker leaves thread_routine only after signal_flag was set, and the   *)
(* flag is never cleared.                                                   *)
LEMMA ExitsStay ==
  ASSUME PoolInv, ExitedOnSignal, [PoolNext]_poolVars
  PROVE  ExitedOnSignal'
<1>0. routine \in [Workers -> RoutinePCs]
  BY DEF PoolInv, PoolTypeOK
<1>1. ASSUME \A w \in Workers : routine'[w] = "exited" => routine[w] = "exited"
      PROVE  ExitedOnSignal'
  BY <1>1, SignalStays DEF ExitedOnSignal
<1>2. ASSUME NEW w \in Workers, WorkerLoop(w) \/ WorkerNull(w) \/ WorkerTake(w) \/ WorkerProcess(w)
      PROVE  ExitedOnSignal'
  <2>1. \E r \in {"dequeue", "test", "process"} : routine' = [routine EXCEPT ![w] = r]
    BY <1>2 DEF WorkerLoop, WorkerNull, WorkerTake, WorkerProcess, AfterTake
  <2>2. QED BY <1>0, <1>1, <2>1
<1>3. ASSUME NEW w \in Workers, WorkerExit(w) PROVE ExitedOnSignal'
  <2>1. signal_flag = SHUTDOWN BY <1>3 DEF WorkerExit, KeepRunning
  <2>2. QED BY <2>1, SignalStays DEF ExitedOnSignal
<1>4. CASE CreateWorker
  <2>1. routine' = [routine EXCEPT ![created + 1] = "test"] BY <1>4 DEF CreateWorker
  <2>2. QED BY <1>0, <1>1, <2>1
<1>5. CASE UNCHANGED routine BY <1>1, <1>5
<1>6. QED
  BY <1>2, <1>3, <1>4, <1>5
  DEF PoolNext, OwnerStep, WorkerStep, WorkerWait, Broadcast, Join, JoinInvalid,
      DestroyStep, ShutdownReturns_ToUser, ShutdownReturns_ToCreate,
      ShutdownReturns_ToDestroy, CreateFails, OwnerShutdown, OwnerDestroy,
      AddTaskStep, AddTask, PoolSpurious, PoolSignal, poolVars, workerVars

----------------------------------------------------------------------------
(* What the server owns; the typing of its variables apart from the pool's. *)
SrvTypes ==
  /\ spc \in ServerPCs
  /\ exit_code \in {"E_SUCCESS", "E_FAILURE", "error"}
  /\ addrs \in 0..MaxAddrs /\ open_fds \in 0..1
  /\ sock_mgr \in {"null", "zero", "ready", "freed"}
  /\ failed \in {"none", "config", "pool", "getaddrinfo", "bind", "fcntl",
                 "listen", "manager", "loop"}

(* The steps on the way to the loop and out of it keep the phases.          *)
LEMMA OutsidePoolPhases ==
  ASSUME ServerInv, OutsidePool
  PROVE  SrvTypes' /\ ServerPhases'
<1>0. UNCHANGED <<opc, why, created>>
  BY OutsidePoolQuiet DEF poolVars, ownerVars
<1>1. SrvTypes /\ BeforePool /\ Running /\ Closing /\ Ending /\ PoolUse
  BY DEF ServerInv, ServerTypeOK, SrvTypes, ServerPhases
<1>2. CASE PoolCreated
  BY <1>0, <1>1, <1>2
  DEF PoolCreated, Goes, SrvTypes, ServerPCs, ServerPhases, BeforePool, Running,
      Closing, Ending, PoolUse, GotPool, Ended
<1>3. CASE PoolNull
  BY <1>0, <1>1, <1>3
  DEF PoolNull, Fails, SrvTypes, ServerPCs, ServerPhases, BeforePool, Running,
      Closing, Ending, PoolUse, GotPool, Ended
<1>4. CASE Resolve
  <2>1. addrs' \in 0..MaxAddrs
    BY <1>1, <1>4, ServerConstants DEF Resolve, SrvTypes
  <2>2. /\ spc = "resolve" /\ UNCHANGED <<open_fds, sock_mgr>>
        /\ \/ spc' = "bind" /\ exit_code' = "E_SUCCESS" /\ failed' = failed
           \/ spc' = "close" /\ exit_code' = "error" /\ failed' = "getaddrinfo"
    BY <1>4 DEF Resolve, Goes, Fails
  <2>3. QED
    BY <1>0, <1>1, <2>1, <2>2
    DEF SrvTypes, ServerPCs, ServerPhases, BeforePool, Running, Closing, Ending,
        PoolUse, GotPool, Ended
<1>5. CASE TryAddress
  <2>1. addrs' \in 0..MaxAddrs
    BY <1>1, <1>5, ServerConstants DEF TryAddress, SrvTypes
  <2>2. /\ spc = "bind" /\ UNCHANGED <<failed, sock_mgr>>
        /\ \/ UNCHANGED <<spc, exit_code, open_fds>>
           \/ spc' = "nonblock" /\ exit_code' = "E_SUCCESS" /\ open_fds' = open_fds + 1
    BY <1>5 DEF TryAddress, Goes
  <2>3. QED
    BY <1>0, <1>1, <2>1, <2>2
    DEF SrvTypes, ServerPCs, ServerPhases, BeforePool, Running, Closing, Ending,
        PoolUse, GotPool, Ended
<1>6. CASE NonBlocking \/ Listen
  BY <1>0, <1>1, <1>6
  DEF NonBlocking, Listen, Fails, Goes, SrvTypes, ServerPCs, ServerPhases, BeforePool,
      Running, Closing, Ending, PoolUse, GotPool, Ended
<1>7. CASE sock_mgr_init \/ LoopFails
  BY <1>0, <1>1, <1>7
  DEF sock_mgr_init, LoopFails, Fails, Goes, SrvTypes, ServerPCs, ServerPhases,
      BeforePool, Running, Closing, Ending, PoolUse, GotPool, Ended
<1>8. CASE close_all_sockets
  BY <1>0, <1>1, <1>8
  DEF close_all_sockets, SrvTypes, ServerPCs, ServerPhases, BeforePool, Running,
      Closing, Ending, PoolUse, GotPool, Ended
<1>9. CASE Return
  BY <1>0, <1>1, <1>9
  DEF Return, SrvTypes, ServerPCs, ServerPhases, BeforePool, Running, Closing, Ending,
      PoolUse, GotPool, Ended
<1>10. CASE NoAddress
  BY <1>0, <1>1, <1>10
  DEF NoAddress, Fails, SrvTypes, ServerPCs, ServerPhases, BeforePool, Running,
      Closing, Ending, PoolUse, GotPool, Ended
<1>11. QED
  BY <1>2, <1>3, <1>4, <1>10, <1>5, <1>6, <1>7, <1>8, <1>9 DEF OutsidePool

(* The steps inside the pool: the owner's change the phase of the pool only *)
(* where the server's phase leaves it open.                                 *)
LEMMA InsidePoolPhases ==
  ASSUME ServerInv, ServerNext, ~OutsidePool
  PROVE  SrvTypes' /\ ServerPhases'
<1>1. SrvTypes /\ BeforePool /\ Running /\ Closing /\ Ending /\ PoolUse
  BY DEF ServerInv, ServerTypeOK, SrvTypes, ServerPhases
<1>2. CASE LoopDispatch \/ LoopDispatchStep \/ ServerOther
  <2>1. UNCHANGED <<srvVars, ownerVars>>
    BY <1>2 DEF LoopDispatch, LoopDispatchStep, ServerOther, AddTask, AddTaskStep,
                PoolSpurious, PoolSignal
  <2>2. QED
    BY <1>1, <2>1
    DEF srvVars, ownerVars, SrvTypes, ServerPhases, BeforePool, Running, Closing,
        Ending, PoolUse
<1>3. ASSUME NEW w \in Workers, ServerWorker(w) PROVE SrvTypes' /\ ServerPhases'
  <2>1. /\ UNCHANGED <<ownerVars, exit_code, addrs, open_fds, sock_mgr, failed>>
        /\ spc' \in {spc, "undefined"}
    BY <1>3 DEF ServerWorker, WorkerStep, WorkerLoop, WorkerExit, WorkerWait,
                WorkerNull, WorkerTake, WorkerProcess
  <2>2. QED
    BY <1>1, <2>1
    DEF ownerVars, SrvTypes, ServerPCs, ServerPhases, BeforePool, Running, Closing,
        Ending, PoolUse, GotPool, Ended
<1>4. CASE DestroyPool \/ OwnerInPool
  <2>1. spc \in {"pool", "destroy"} /\ UNCHANGED srvVars
    BY <1>4 DEF DestroyPool, OwnerInPool
  <2>2. SrvTypes' /\ BeforePool' /\ Running' /\ Closing'
    BY <1>1, <2>1 DEF srvVars, SrvTypes, BeforePool, Running, Closing, GotPool
  <2>3. Ending'
    BY <1>1, <2>1 DEF srvVars, Ending, Ended
  <2>4. PoolUse'
    <3>1. CASE CreateWorker
      BY <1>1, <2>1, <3>1 DEF CreateWorker, PoolUse, srvVars, ServerInv, PoolInv, PoolTypeOK
    <3>2. CASE Broadcast \/ Join \/ JoinInvalid \/ ShutdownReturns_ToDestroy \/ DestroyStep
      <4>1. UNCHANGED <<why, created>> /\ opc \in {"broadcast", "join", "clear"}
            /\ opc' # "ready" /\ (opc' \in {"broadcast", "join"} => opc \in {"broadcast", "join"})
        BY <3>2 DEF Broadcast, Join, JoinInvalid, ShutdownReturns_ToDestroy, DestroyStep
      <4>2. QED BY <1>1, <2>1, <4>1 DEF PoolUse, srvVars
    <3>3. CASE ShutdownReturns_ToUser
      BY <1>1, <3>3 DEF ShutdownReturns_ToUser, PoolUse
    <3>4. CASE ShutdownReturns_ToCreate \/ CreateFails \/ OwnerDestroy
      BY <1>1, <2>1, <3>4
      DEF ShutdownReturns_ToCreate, CreateFails, OwnerDestroy, BeginShutdown, PoolUse, srvVars
    <3>5. QED
      BY <1>4, <3>1, <3>2, <3>3, <3>4 DEF DestroyPool, OwnerInPool, OwnerStep
  <2>5. QED BY <2>2, <2>3, <2>4 DEF ServerPhases
<1>5. QED BY <1>2, <1>3, <1>4 DEF ServerNext, ServerStep, OutsidePool

(* The invariant holds before main has done anything.                       *)
LEMMA InitServerInv == ServerInit => ServerInv
<1> SUFFICES ASSUME ServerInit PROVE ServerInv OBVIOUS
<1>1. PoolInv BY InitPoolInv DEF ServerInit
<1>2. ServerTypeOK
  BY <1>1, ServerConstants DEF ServerInit, ServerTypeOK, PoolInv, ServerPCs
<1>3. ServerPhases
  BY DEF ServerInit, PoolInit, ServerPhases, BeforePool, Running, Closing, Ending,
         PoolUse, GotPool, Ended
<1>4. ExitedOnSignal
  BY DEF ServerInit, PoolInit, ExitedOnSignal
<1>5. QED BY <1>1, <1>2, <1>3, <1>4 DEF ServerInv

(* Every step of the program preserves it.                                  *)
LEMMA StepServerInv == ServerInv /\ [AppNext]_allVars => ServerInv'
<1> SUFFICES ASSUME ServerInv, [AppNext]_allVars PROVE ServerInv'
  OBVIOUS
<1>1. PoolInv' /\ ExitedOnSignal'
  BY ServerStepIsPoolStep, StepPoolInv, ExitsStay DEF ServerInv
<1>2. ASSUME UNCHANGED serverVars PROVE SrvTypes' /\ ServerPhases'
  BY <1>2
  DEF ServerInv, ServerTypeOK, serverVars, poolVars, ownerVars, srvVars, SrvTypes,
      ServerPhases, BeforePool, Running, Closing, Ending, PoolUse
<1>3. CASE CallServer
  <2>1. /\ spc = "idle" /\ UNCHANGED <<opc, why, created, addrs, open_fds, sock_mgr>>
        /\ \/ spc' = "pool" /\ exit_code' = "E_SUCCESS" /\ failed' = failed
           \/ spc' = "close" /\ exit_code' = "E_FAILURE" /\ failed' = "config"
    BY <1>3
    DEF CallServer, start_tcp_server, Goes, Fails, poolVars, ownerVars
  <2>2. SrvTypes /\ ServerPhases
    BY DEF ServerInv, ServerTypeOK, SrvTypes
  <2>3. SrvTypes' /\ ServerPhases'
    BY <2>1, <2>2
    DEF SrvTypes, ServerPCs, ServerPhases, BeforePool, Running, Closing, Ending,
        PoolUse, GotPool, Ended
  <2>4. QED BY <1>1, <2>3 DEF ServerInv, ServerTypeOK, SrvTypes, PoolInv
<1>4. SrvTypes' /\ ServerPhases'
  BY <1>2, <1>3, OutsidePoolPhases, InsidePoolPhases
  DEF AppNext, AppStep, MainArgs, NextOption, NoMoreOptions, ServerReturns,
      ServerNext, ServerInv, allVars, SrvTypes, ServerTypeOK
<1>5. QED BY <1>1, <1>4 DEF ServerInv, ServerTypeOK, SrvTypes, PoolInv

(* However start_tcp_server ends, its place in the code, its pool, its      *)
(* socket manager and its listening socket fit together at every moment.    *)
THEOREM ServerInvariant == AppSpec => []ServerInv
<1>1. AppInit => ServerInv BY InitServerInv DEF AppInit
<1>2. QED BY <1>1, StepServerInv, PTL DEF AppSpec

(* When start_tcp_server returns, no worker is left, nobody is in the task  *)
(* queue, the listening socket is closed unless listen or sock_mgr_init     *)
(* failed, and the only failure it does not report is thread_pool_create's. *)
THEOREM ServerNothingLeftBehind == AppSpec => []NothingLeftBehind
<1>1. ServerInv => NothingLeftBehind
  <2> SUFFICES ASSUME ServerInv, spc = "returned"
               PROVE  /\ exit_code = "E_SUCCESS" => failed = "pool" /\ open_fds = 0
                      /\ \A w \in Workers : routine[w] \in {"none", "exited"}
                      /\ Quiescent
                      /\ open_fds = IF failed \in {"listen", "manager"} THEN 1 ELSE 0
    BY DEF NothingLeftBehind
  <2>1. Ending /\ PoolInv BY DEF ServerInv, ServerPhases
  <2>2. open_fds = IF failed \in {"listen", "manager"} THEN 1 ELSE 0
    BY <2>1 DEF Ending, Ended
  <2>3. exit_code = "E_SUCCESS" => failed = "pool"
    BY <2>1 DEF Ending, Ended
  <2>4. opc = "done" \/ (opc = "create" /\ created = 0)
    BY <2>1 DEF Ending, Ended
  <2>5. \A w \in Workers : routine[w] \in Gone
    <3>1. CASE opc = "done" BY <2>1, <3>1 DEF PoolInv, Phases, NoWorkers
    <3>2. CASE created = 0
      BY <2>1, <3>2, WhoIsThere DEF PoolInv, Placement, Started, Gone
    <3>3. QED BY <2>4, <3>1, <3>2
  <2>6. \A w \in Workers : pc[w] = "idle"
    BY <2>1, <2>5 DEF PoolInv, Placement, WorkersPlaced, Gone
  <2>7. pc[Owner] = "idle" /\ \A s \in Others : pc[s] = "idle"
    BY <2>1, <2>4 DEF PoolInv, Phases, NoCalls
  <2>8. Quiescent BY <2>6, <2>7, WhoIsThere DEF Quiescent
  <2>9. QED BY <2>2, <2>3, <2>5, <2>8 DEF Gone
<1>2. QED BY <1>1, ServerInvariant, PTL

(* A server that got its pool returns after the signal only: its clean-up   *)
(* waits for workers that nothing else ends.                                *)
THEOREM ServerReturnsOnlyOnSignal == AppSpec => []ReturnsOnlyOnSignal
<1>1. ServerInv => ReturnsOnlyOnSignal
  <2> SUFFICES ASSUME ServerInv, spc = "returned", sock_mgr # "null"
               PROVE  signal_flag = SHUTDOWN
    BY DEF ReturnsOnlyOnSignal, ServerInv
  <2>1. opc = "done" /\ created = ThreadCount
    BY DEF ServerInv, ServerPhases, Ending, PoolUse, Ended
  <2>2. 1 \in Workers BY WhoIsThere
  <2>3. routine[1] \in Gone
    BY <2>1, <2>2 DEF ServerInv, PoolInv, Phases, NoWorkers
  <2>4. routine[1] # "none"
    BY <2>1, <2>2, WhoIsThere DEF ServerInv, PoolInv, Placement, Started
  <2>5. QED BY <2>2, <2>3, <2>4 DEF ServerInv, ExitedOnSignal, Gone
<1>2. QED BY <1>1, ServerInvariant, PTL

----------------------------------------------------------------------------
(* What -h does not cut off from the command line.                          *)
Heeded ==
  {i \in DOMAIN given : \A j \in 1..i : given[j].opt # "h"}

(* The same as StartsAsAsked of the options in front of the first -h.       *)
HeedsFront ==
  (program = "salt_vault" /\ apc = "server") =>
    /\ \A i \in Heeded : given[i].opt # "?"
    /\ \A i, j \in Heeded : (given[i].opt \in {"p", "n"} /\ given[i].opt = given[j].opt) => i = j
    /\ \A i \in Heeded :
         /\ given[i].opt = "p" => config.port = given[i].arg
         /\ given[i].opt = "n" => config.num_threads = given[i].arg.value
    /\ (\A i \in Heeded : given[i].opt # "p") => config.port = DefaultOptions.p_value
    /\ (\A i \in Heeded : given[i].opt # "n") => config.num_threads = DefaultOptions.n_value
    /\ validate_config([config EXCEPT !.num_threads = MIN_NUM_THREADS,
                                      !.client_request = TRUE])

(* How many words of the command line getopt has returned.                  *)
Seen == Len(given) - Len(argv)

OptionsType == [n_flag : BOOLEAN, n_value : Int, p_flag : BOOLEAN, p_value : Text]

(* argv is the rest of the command line.                                    *)
CommandTyped ==
  /\ given \in Seq(CommandOption) /\ argv \in Seq(CommandOption)
  /\ options \in OptionsType
  /\ Len(argv) <= Len(given)
  /\ \A i \in 1..Len(argv) : argv[i] = given[Seen + i]

PortInRange(t) == str_to_int32(t) /\ t.value \in MIN_PORT_VALUE..MAX_PORT_VALUE

(* Before the loop of process_options nothing has been read.                *)
NothingRead == apc = "args" => Seen = 0 /\ options = DefaultOptions

(* While main goes on, the heeded words read so far were good, and options  *)
(* holds exactly what they ask for.                                         *)
SoFar == {i \in Heeded : i <= Seen}

ReadGood ==
  /\ \A i \in SoFar : given[i].opt # "?"
  /\ \A i, j \in SoFar :
       (given[i].opt \in {"p", "n"} /\ given[i].opt = given[j].opt) => i = j

ReadValues ==
  /\ \A i \in SoFar :
       /\ given[i].opt = "p" => options.p_flag /\ options.p_value = given[i].arg
       /\ given[i].opt = "n" => options.n_flag /\ options.n_value = given[i].arg.value
  /\ (\A i \in SoFar : given[i].opt # "p") => options.p_value = DefaultOptions.p_value
  /\ (\A i \in SoFar : given[i].opt # "n") => options.n_value = DefaultOptions.n_value
  /\ PortInRange(options.p_value)

Reading ==
  (program = "salt_vault" /\ apc \in {"options", "start"}) =>
    /\ ReadGood /\ ReadValues
    /\ apc = "options" => \A i \in 1..Seen : given[i].opt # "h"
    /\ apc = "start" => SoFar = Heeded

(* Words that are no options are remembered in extras.                      *)
NoExtra ==
  program = "salt_vault" =>
    /\ apc = "options" /\ ~extras => \A i \in 1..Seen : given[i].opt # "extra"
    /\ apc \in {"start", "server"} /\ ~AsksForHelp =>
         \A i \in DOMAIN given : given[i].opt # "extra"

OptionsInv == CommandTyped /\ NothingRead /\ Reading /\ HeedsFront /\ NoExtra

(* Nothing of main changes while the server runs.                           *)
LEMMA QuietKeepsOptions ==
  ASSUME OptionsInv, UNCHANGED <<program, given, argv, extras, options, config>>,
         apc' = apc \/ apc' = "exit"
  PROVE  OptionsInv'
<1>1. Seen' = Seen /\ Heeded' = Heeded /\ SoFar' = SoFar /\ AsksForHelp' = AsksForHelp
  BY DEF Seen, Heeded, SoFar, AsksForHelp
<1>2. CommandTyped' BY <1>1 DEF OptionsInv, CommandTyped
<1>3. NothingRead' BY <1>1 DEF OptionsInv, NothingRead
<1>4. Reading'
  BY <1>1 DEF OptionsInv, Reading, ReadGood, ReadValues, PortInRange
<1>5. HeedsFront' BY <1>1 DEF OptionsInv, HeedsFront
<1>6. NoExtra' BY <1>1 DEF OptionsInv, NoExtra
<1>7. QED BY <1>2, <1>3, <1>4, <1>5, <1>6 DEF OptionsInv

(* getopt moves on by one word.                                             *)
LEMMA NextWord ==
  ASSUME CommandTyped, argv # <<>>, argv' = Tail(argv), given' = given,
         options' \in OptionsType
  PROVE  /\ CommandTyped' /\ Seen' = Seen + 1 /\ Seen \in Nat
         /\ Seen + 1 \in DOMAIN given /\ Head(argv) = given[Seen + 1]
         /\ given[Seen + 1] \in CommandOption
<1>1. /\ given \in Seq(CommandOption) /\ argv \in Seq(CommandOption)
      /\ Len(argv) <= Len(given) /\ \A i \in 1..Len(argv) : argv[i] = given[Seen + i]
  BY DEF CommandTyped
<1>2. Len(argv) \in Nat /\ Len(argv) > 0 /\ Len(given) \in Nat
  BY <1>1
<1>3. /\ Tail(argv) \in Seq(CommandOption) /\ Len(Tail(argv)) = Len(argv) - 1
      /\ \A i \in 1..Len(Tail(argv)) : Tail(argv)[i] = argv[i + 1]
  BY <1>1, <1>2
<1>4. Seen' = Seen + 1 /\ Seen \in Nat BY <1>1, <1>2, <1>3 DEF Seen
<1>5. Seen + 1 \in DOMAIN given /\ DOMAIN given = 1..Len(given)
  BY <1>1, <1>2 DEF Seen
<1>6. Head(argv) = given[Seen + 1] BY <1>1, <1>2
<1>7. \A i \in 1..Len(Tail(argv)) : Tail(argv)[i] = given[Seen + 1 + i]
  BY <1>1, <1>2, <1>3, <1>4
<1>8. CommandTyped'
  BY <1>1, <1>2, <1>3, <1>4, <1>7 DEF CommandTyped
<1>9. QED BY <1>1, <1>4, <1>5, <1>6, <1>8

(* Without -h so far, every word read is heeded, and the next one is added  *)
(* unless it is -h.                                                         *)
LEMMA HeededGrows ==
  ASSUME CommandTyped, given' = given, Seen \in Nat, Seen' = Seen + 1,
         Seen + 1 \in DOMAIN given, \A i \in 1..Seen : given[i].opt # "h"
  PROVE  /\ SoFar = 1..Seen /\ Heeded' = Heeded
         /\ given[Seen + 1].opt # "h" => SoFar' = 1..(Seen + 1)
         /\ given[Seen + 1].opt = "h" => Heeded = 1..Seen /\ SoFar' = 1..Seen
<1>1. DOMAIN given = 1..Len(given) /\ Len(given) \in Nat BY DEF CommandTyped
<1>2. Heeded' = Heeded BY DEF Heeded
<1>3. SoFar = 1..Seen BY <1>1 DEF SoFar, Heeded
<1>4. ASSUME given[Seen + 1].opt # "h" PROVE SoFar' = 1..(Seen + 1)
  BY <1>1, <1>2, <1>4 DEF SoFar, Heeded
<1>5. ASSUME given[Seen + 1].opt = "h" PROVE Heeded = 1..Seen /\ SoFar' = 1..Seen
  <2>1. Heeded = 1..Seen BY <1>1, <1>5 DEF Heeded
  <2>2. QED BY <1>2, <2>1 DEF SoFar
<1>6. QED BY <1>2, <1>3, <1>4, <1>5

(* An option with its argument either is the first of its kind and good, or *)
(* ends main.                                                               *)
LEMMA OptionTaken ==
  ASSUME OptionsInv, apc = "options", argv # <<>>,
         NEW o, o = Head(argv), o.opt \in {"p", "n"},
         IF o.opt = "p" THEN process_p_option(o.arg) ELSE process_n_option(o.arg)
  PROVE  /\ options' \in OptionsType
         /\ parsed' = "E_SUCCESS" =>
              \/ /\ o.opt = "p" /\ ~options.p_flag /\ PortInRange(o.arg)
                 /\ options' = [options EXCEPT !.p_flag = TRUE, !.p_value = o.arg]
              \/ /\ o.opt = "n" /\ ~options.n_flag
                 /\ options' = [options EXCEPT !.n_flag = TRUE, !.n_value = o.arg.value]
<1>1. options \in OptionsType /\ o \in CommandOption
  BY DEF OptionsInv, CommandTyped
<1>2. o.arg \in Text /\ o.arg.value \in Int
  BY <1>1 DEF CommandOption, Text
<1>3. CASE o.opt = "p"
  <2>1. process_p_option(o.arg) BY <1>3
  <2>2. options' \in OptionsType
    BY <1>1, <1>2, <2>1 DEF process_p_option, OptionsType
  <2>3. parsed' = "E_SUCCESS" =>
          /\ ~options.p_flag /\ PortInRange(o.arg)
          /\ options' = [options EXCEPT !.p_flag = TRUE, !.p_value = o.arg]
    BY <2>1 DEF process_p_option, PortInRange
  <2>4. QED BY <1>3, <2>2, <2>3
<1>4. CASE o.opt = "n"
  <2>1. process_n_option(o.arg) BY <1>4
  <2>2. options' \in OptionsType
    BY <1>1, <1>2, <2>1 DEF process_n_option, OptionsType
  <2>3. parsed' = "E_SUCCESS" =>
          /\ ~options.n_flag
          /\ options' = [options EXCEPT !.n_flag = TRUE, !.n_value = o.arg.value]
    BY <2>1 DEF process_n_option
  <2>4. QED BY <1>4, <2>2, <2>3
<1>5. QED BY <1>3, <1>4

(* One round of the loop of process_options.                                *)
LEMMA NextOptionKeeps ==
  ASSUME OptionsInv, NextOption
  PROVE  OptionsInv'
<1> DEFINE o == Head(argv)
<1>1. /\ apc = "options" /\ argv # <<>> /\ argv' = Tail(argv)
      /\ UNCHANGED <<program, given, config>>
  BY DEF NextOption
<1>2. options \in OptionsType /\ CommandTyped /\ NothingRead /\ Reading
  BY DEF OptionsInv, CommandTyped
<1>3. options' \in OptionsType
  BY <1>1, <1>2, OptionTaken DEF NextOption
<1>4. /\ CommandTyped' /\ Seen' = Seen + 1 /\ Seen \in Nat
      /\ Seen + 1 \in DOMAIN given /\ o = given[Seen + 1] /\ o \in CommandOption
  BY <1>1, <1>2, <1>3, NextWord
<1>5. apc' \in {"options", "start", "exit"}
  BY <1>1 DEF NextOption, OptionsDone
<1>6. NothingRead' /\ HeedsFront'
  BY <1>5 DEF NothingRead, HeedsFront
<1>7. ASSUME program = "salt_vault", apc' # "exit"
      PROVE  Reading'
  <2>0. /\ ReadGood /\ ReadValues /\ \A i \in 1..Seen : given[i].opt # "h"
    BY <1>1, <1>2, <1>7 DEF Reading
  <2>1. /\ SoFar = 1..Seen /\ Heeded' = Heeded
        /\ o.opt # "h" => SoFar' = 1..(Seen + 1)
        /\ o.opt = "h" => Heeded = 1..Seen /\ SoFar' = 1..Seen
    BY <1>1, <1>2, <1>4, <2>0, HeededGrows
  <2>2. CASE o.opt = "h"
    <3>1. UNCHANGED <<options, given>> /\ apc' = "start" /\ SoFar' = SoFar
      BY <1>1, <1>7, <2>1, <2>2 DEF NextOption, OptionsDone
    <3>2. ReadGood' /\ ReadValues' /\ SoFar' = Heeded'
      BY <2>0, <2>1, <2>2, <3>1 DEF ReadGood, ReadValues, PortInRange
    <3>3. QED BY <3>1, <3>2 DEF Reading
  <2>3. CASE o.opt \in {"p", "n"}
    <3>1. /\ apc' = "options" /\ parsed' = "E_SUCCESS"
          /\ IF o.opt = "p" THEN process_p_option(o.arg) ELSE process_n_option(o.arg)
      BY <1>1, <1>7, <2>3 DEF NextOption
    <3>2. \/ /\ o.opt = "p" /\ ~options.p_flag /\ PortInRange(o.arg)
             /\ options' = [options EXCEPT !.p_flag = TRUE, !.p_value = o.arg]
          \/ /\ o.opt = "n" /\ ~options.n_flag
             /\ options' = [options EXCEPT !.n_flag = TRUE, !.n_value = o.arg.value]
      BY <1>1, <2>3, <3>1, OptionTaken
    <3>3. SoFar' = 1..(Seen + 1) /\ \A i \in SoFar' : i \in SoFar \/ i = Seen + 1
      BY <1>4, <2>1, <2>3
    <3>4. \A i \in SoFar : given[i].opt # o.opt
      BY <2>0, <2>3, <3>2 DEF ReadValues
    <3>5. ReadGood'
      BY <1>1, <1>4, <2>0, <2>3, <3>3, <3>4 DEF ReadGood
    <3>6. ReadValues'
      <4>1. CASE o.opt = "p"
        <5>1. /\ options'.p_flag /\ options'.p_value = o.arg
              /\ options'.n_flag = options.n_flag /\ options'.n_value = options.n_value
              /\ PortInRange(o.arg)
          BY <1>2, <3>2, <4>1 DEF OptionsType
        <5>2. QED
          BY <1>1, <1>4, <2>0, <2>1, <3>3, <3>4, <4>1, <5>1 DEF ReadValues, PortInRange
      <4>2. CASE o.opt = "n"
        <5>1. /\ options'.n_flag /\ options'.n_value = o.arg.value
              /\ options'.p_flag = options.p_flag /\ options'.p_value = options.p_value
          BY <1>2, <3>2, <4>2 DEF OptionsType
        <5>2. QED
          BY <1>1, <1>4, <2>0, <2>1, <3>3, <3>4, <4>2, <5>1 DEF ReadValues, PortInRange
      <4>3. QED BY <2>3, <4>1, <4>2
    <3>7. \A i \in 1..(Seen + 1) : given[i].opt # "h"
      BY <1>4, <2>0, <2>3
    <3>8. QED BY <1>1, <1>4, <3>1, <3>5, <3>6, <3>7 DEF Reading
  <2>4. CASE o.opt = "extra"
    <3>1. UNCHANGED <<options, given>> /\ apc' = "options"
      BY <1>1, <2>4 DEF NextOption
    <3>2. SoFar' = 1..(Seen + 1) /\ \A i \in SoFar' : i \in SoFar \/ i = Seen + 1
      BY <1>4, <2>1, <2>4
    <3>3. ReadGood'
      BY <1>4, <2>0, <2>4, <3>1, <3>2 DEF ReadGood
    <3>4. ReadValues'
      BY <1>4, <2>0, <2>1, <2>4, <3>1, <3>2 DEF ReadValues, PortInRange
    <3>5. \A i \in 1..(Seen + 1) : given[i].opt # "h"
      BY <1>4, <2>0, <2>4
    <3>6. QED BY <1>1, <1>4, <3>1, <3>3, <3>4, <3>5 DEF Reading
  <2>5. o.opt # "?"
    BY <1>1, <1>7 DEF NextOption
  <2>6. QED BY <1>1, <2>2, <2>3, <2>4, <2>5 DEF NextOption
<1>8. Reading' BY <1>1, <1>7 DEF Reading
<1>9. ASSUME program = "salt_vault" PROVE NoExtra'
  <2>1. CASE o.opt = "h"
    <3>1. AsksForHelp' /\ apc' # "options"
      BY <1>1, <1>4, <2>1 DEF NextOption, OptionsDone, AsksForHelp
    <3>2. QED BY <3>1 DEF NoExtra
  <2>2. CASE o.opt \in {"p", "n"}
    <3>1. extras' = extras /\ apc' \in {"options", "exit"} BY <1>1, <2>2 DEF NextOption
    <3>2. \A i \in 1..(Seen + 1) : i \in 1..Seen \/ i = Seen + 1 BY <1>4
    <3>3. ~extras => \A i \in 1..Seen : given[i].opt # "extra" BY <1>1, <1>9 DEF OptionsInv, NoExtra
    <3>4. ~extras => \A i \in 1..(Seen + 1) : given[i].opt # "extra" BY <1>4, <2>2, <3>2, <3>3
    <3>5. QED BY <1>1, <1>4, <3>1, <3>4 DEF NoExtra
  <2>3. CASE o.opt \in {"?", "extra"}
    <3>1. (apc' = "options" /\ extras') \/ apc' = "exit" BY <1>1, <2>3 DEF NextOption
    <3>2. QED BY <3>1 DEF NoExtra
  <2>4. QED BY <1>1, <2>1, <2>2, <2>3 DEF NextOption
<1>10. NoExtra' BY <1>1, <1>9 DEF NoExtra
<1>11. QED BY <1>4, <1>6, <1>8, <1>10 DEF OptionsInv

(* A port in the range is no well-known one.                                *)
LEMMA PortsAreHigh ==
  ASSUME NEW x \in MIN_PORT_VALUE..MAX_PORT_VALUE
  PROVE  x \notin 0..WELL_KNOWN_PORT_MAX
<1>1. \A low, high, top \in Int : top < low => \A y \in low..high : y \notin 0..top
  OBVIOUS
<1>2. /\ MIN_PORT_VALUE \in Int /\ WELL_KNOWN_PORT_MAX \in Int
      /\ WELL_KNOWN_PORT_MAX < MIN_PORT_VALUE
  BY DEF MIN_PORT_VALUE, WELL_KNOWN_PORT_MAX
<1>3. MAX_PORT_VALUE \in Int BY DEF MAX_PORT_VALUE
<1>4. QED BY <1>1, <1>2, <1>3

(* main calls the server with what it read.                                 *)
LEMMA CallServerKeeps ==
  ASSUME OptionsInv, CallServer
  PROVE  OptionsInv'
<1>1. /\ apc = "start" /\ apc' = "server"
      /\ UNCHANGED <<program, given, argv, options>>
      /\ program = "salt_vault" => config' = MainConfig
  BY DEF CallServer
<1>2. CommandTyped' /\ NothingRead' /\ Reading'
  BY <1>1 DEF OptionsInv, CommandTyped, NothingRead, Reading, Seen
<1>3. ASSUME program = "salt_vault" PROVE HeedsFront'
  <2>1. ReadGood /\ ReadValues /\ SoFar = Heeded
    BY <1>1, <1>3 DEF OptionsInv, Reading
  <2>2. /\ config' = MainConfig /\ config'.port = options.p_value
        /\ config'.num_threads = options.n_value
    BY <1>1, <1>3 DEF MainConfig
  <2>3. validate_config([config' EXCEPT !.num_threads = MIN_NUM_THREADS,
                                        !.client_request = TRUE])
    <3> DEFINE c == [config' EXCEPT !.num_threads = MIN_NUM_THREADS,
                                    !.client_request = TRUE]
    <3>1. PortInRange(options.p_value) BY <2>1 DEF ReadValues
    <3>2. options.p_value.value \notin 0..WELL_KNOWN_PORT_MAX
      <4>1. options.p_value.value \in MIN_PORT_VALUE..MAX_PORT_VALUE
        BY <3>1 DEF PortInRange
      <4>2. QED BY <4>1, PortsAreHigh
    <3>3. str_to_int32(options.p_value) BY <3>1 DEF PortInRange
    <3>4. /\ c.port = options.p_value /\ c.num_threads = 2 /\ c.backlog_size = 10
          /\ c.max_clients = 10 /\ c.timeout = 10
      BY <2>2 DEF MainConfig, MIN_NUM_THREADS
    <3>5. c.client_request = TRUE
      BY <2>2 DEF MainConfig
    <3> HIDE DEF c
    <3>6. /\ c.backlog_size \in MIN_BACKLOG..MAX_BACKLOG
          /\ c.timeout \in {-1} \union MIN_TIMEOUT..MAX_TIMEOUT
          /\ c.num_threads \in MIN_NUM_THREADS..MAX_NUM_THREADS
          /\ c.max_clients \in MIN_CLIENTS..MAX_CLIENTS
      BY <3>4
      DEF MIN_NUM_THREADS, MAX_NUM_THREADS, MIN_BACKLOG, MAX_BACKLOG, MIN_TIMEOUT,
          MAX_TIMEOUT, MIN_CLIENTS, MAX_CLIENTS
    <3>7. str_to_int32(c.port) /\ c.port.value \notin 0..WELL_KNOWN_PORT_MAX
      BY <3>2, <3>3, <3>4
    <3>8. c.client_request BY <3>5
    <3>9. validate_config(c) BY <3>6, <3>7, <3>8 DEF validate_config
    <3>10. QED BY <3>9 DEF c
  <2>4. Heeded' = Heeded BY <1>1 DEF Heeded
  <2>5. QED
    BY <1>1, <2>1, <2>2, <2>3, <2>4 DEF HeedsFront, ReadGood, ReadValues
<1>4. ASSUME program # "salt_vault" PROVE HeedsFront'
  <2>1. program' # "salt_vault" BY <1>1, <1>4
  <2>2. QED BY <2>1 DEF HeedsFront
<1>5. NoExtra' BY <1>1 DEF OptionsInv, NoExtra, AsksForHelp
<1>6. QED BY <1>2, <1>3, <1>4, <1>5 DEF OptionsInv

(* Entering and leaving the loop of process_options.                        *)
LEMMA LoopEndsKeep ==
  ASSUME OptionsInv, MainArgs \/ NoMoreOptions
  PROVE  OptionsInv'
<1>1. UNCHANGED <<program, given, argv, options, config>>
  BY DEF MainArgs, NoMoreOptions
<1>2. /\ CommandTyped' /\ Seen' = Seen /\ Heeded' = Heeded /\ SoFar' = SoFar
      /\ ReadGood' = ReadGood /\ ReadValues' = ReadValues
  BY <1>1 DEF OptionsInv, CommandTyped, Seen, SoFar, Heeded, ReadGood, ReadValues,
              PortInRange
<1>3. given \in Seq(CommandOption) /\ argv \in Seq(CommandOption)
  BY DEF OptionsInv, CommandTyped
<1>4. CASE MainArgs
  <2>1. apc = "args" /\ apc' \in {"options", "exit"}
    BY <1>4 DEF MainArgs
  <2>2. Seen = 0 /\ options = DefaultOptions
    BY <2>1 DEF OptionsInv, NothingRead
  <2>3. SoFar = {} BY <1>3, <2>2 DEF SoFar, Heeded
  <2>4. ReadGood BY <2>3 DEF ReadGood
  <2>5. PortInRange(options.p_value)
    <3>1. options.p_value = [digits |-> TRUE, rest |-> FALSE, fits |-> TRUE, value |-> 31337]
      BY <2>2 DEF DefaultOptions, Number
    <3>2. options.p_value.value \in MIN_PORT_VALUE..MAX_PORT_VALUE
      BY <3>1 DEF MIN_PORT_VALUE, MAX_PORT_VALUE
    <3>3. str_to_int32(options.p_value) BY <3>1 DEF str_to_int32
    <3>4. QED BY <3>2, <3>3 DEF PortInRange
  <2>6. ReadValues BY <2>2, <2>3, <2>5 DEF ReadValues
  <2>7. NoExtra' BY <1>2, <2>1, <2>2 DEF NoExtra
  <2>8. QED
    BY <1>2, <2>1, <2>2, <2>4, <2>6, <2>7
    DEF OptionsInv, NothingRead, Reading, HeedsFront
<1>5. CASE NoMoreOptions
  <2>1. apc = "options" /\ apc' \in {"start", "exit"} /\ argv = <<>>
    BY <1>5 DEF NoMoreOptions, OptionsDone
  <2>2. Seen = Len(given) BY <1>3, <2>1 DEF Seen
  <2>3. SoFar = Heeded BY <1>3, <2>2 DEF SoFar, Heeded
  <2>4. apc' = "start" => ~extras BY <1>5 DEF NoMoreOptions, OptionsDone
  <2>5. program = "salt_vault" /\ apc' = "start" => \A i \in DOMAIN given : given[i].opt # "extra"
    BY <1>3, <2>1, <2>2, <2>4 DEF OptionsInv, NoExtra
  <2>6. NoExtra' BY <1>1, <2>1, <2>5 DEF NoExtra
  <2>7. QED
    BY <1>1, <1>2, <2>1, <2>3, <2>6 DEF OptionsInv, NothingRead, Reading, HeedsFront
<1>6. QED BY <1>4, <1>5

(* Before the first option is read all values are the defaults.             *)
LEMMA InitOptionsInv == AppInit => OptionsInv
<1> SUFFICES ASSUME AppInit PROVE OptionsInv OBVIOUS
<1>1. given \in Seq(CommandOption) /\ argv = given /\ options = DefaultOptions
  BY CommandLineAssumption DEF AppInit
<1>2. Seen = 0 BY <1>1 DEF Seen
<1>3. CommandTyped
  BY <1>1, <1>2 DEF CommandTyped, OptionsType, DefaultOptions, Number, Text
<1>4. apc = IF program = "salt_vault" THEN "args" ELSE "start" BY DEF AppInit
<1>5. NoExtra BY <1>4 DEF NoExtra
<1>6. QED
  BY <1>1, <1>2, <1>3, <1>4, <1>5 DEF OptionsInv, NothingRead, Reading, HeedsFront

(* Reading one more option, or failing on it, preserves the invariant.      *)
LEMMA StepOptionsInv == OptionsInv /\ [AppNext]_allVars => OptionsInv'
<1> SUFFICES ASSUME OptionsInv, [AppNext]_allVars PROVE OptionsInv'
  OBVIOUS
<1>1. CASE ServerReturns BY <1>1, QuietKeepsOptions DEF ServerReturns
<1>2. CASE UNCHANGED appVars BY <1>2, QuietKeepsOptions DEF appVars
<1>3. QED
  BY <1>1, <1>2, NextOptionKeeps, CallServerKeeps, LoopEndsKeep
  DEF AppNext, AppStep, allVars

(* Without -h every word is in front of it.                                 *)
LEMMA NoHelpHeedsAll == OptionsInv => StartsAsAsked
<1> SUFFICES ASSUME OptionsInv, program = "salt_vault", apc = "server", ~AsksForHelp
             PROVE  StartsAsAsked
  BY DEF StartsAsAsked
<1>1. given \in Seq(CommandOption) /\ \A i \in DOMAIN given : given[i].opt # "h"
  BY DEF OptionsInv, CommandTyped, AsksForHelp
<1>2. Heeded = DOMAIN given
  <2>1. \A i \in DOMAIN given : \A j \in 1..i : j \in DOMAIN given BY <1>1
  <2>2. QED BY <1>1, <2>1 DEF Heeded
<1>3. \A i \in DOMAIN given : given[i].opt # "extra" /\ given[i].opt # "?"
  BY <1>2 DEF OptionsInv, NoExtra, HeedsFront
<1>4. \A i \in DOMAIN given : given[i].opt \in {"p", "n", "h", "?", "extra"}
  <2>1. \A i \in DOMAIN given : given[i] \in CommandOption BY <1>1
  <2>2. QED BY <2>1 DEF CommandOption
<1>5. \A i \in DOMAIN given : given[i].opt \in {"p", "n"} BY <1>1, <1>3, <1>4
<1>6. HeedsFront BY DEF OptionsInv
<1>7. QED BY <1>2, <1>5, <1>6 DEF StartsAsAsked, HeedsFront

(* For every command line without -h: salt_vault calls its server only when *)
(* all words are options that are known, well formed, in range and given    *)
(* once, and with the values they ask for or the defaults.                  *)
THEOREM SaltVaultStartsAsAsked == AppSpec => []StartsAsAsked
<1>1. OptionsInv => StartsAsAsked BY NoHelpHeedsAll
<1>2. QED BY <1>1, InitOptionsInv, StepOptionsInv, PTL DEF AppSpec
=============================================================================
