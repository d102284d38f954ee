----------------------------- MODULE TcpServer -----------------------------
(***************************************************************************)
(* libs/Networking/tcp_server, tcp_server.c: the life of start_tcp_server,  *)
(* composed with the thread pool it creates, feeds and destroys.            *)
(*                                                                         *)
(* The calling thread is the Owner of the pool.  Every call to the kernel   *)
(* or the allocator may fail, and the action that models it has an outcome  *)
(* for that.  The loop itself is module EventHandler; here it submits jobs  *)
(* and ends with an error, which are its only ends (its test of the shutdown*)
(* signal looks at a local variable that nothing assigns).                  *)
(*                                                                         *)
(* The accepted configurations have a pool of ThreadCount workers.          *)
(***************************************************************************)
EXTENDS ThreadPool, ServerConfig

CONSTANT MaxAddrs    \* bound: addresses getaddrinfo returns

ASSUME ServerConstants == MaxAddrs \in Nat \ {0} /\ Submitters = {Owner}

VARIABLES
  spc,          \* where start_tcp_server is
  exit_code,    \* its result so far
  addrs,        \* addresses initialize_server has not tried yet
  open_fds,     \* listening sockets that are open
  sock_mgr,     \* server.sock_mgr: NULL, zeroed, initialised or freed
  failed        \* history: the call whose failure ended the server

srvVars    == <<spc, exit_code, addrs, open_fds, sock_mgr, failed>>
serverVars == <<poolVars, srvVars>>

ServerPCs ==
  {"idle", "pool", "resolve", "bind", "nonblock", "listen", "manager", "loop",
   "close", "destroy", "returned", "undefined"}

ServerTypeOK ==
  /\ PoolTypeOK
  /\ spc \in ServerPCs
  /\ exit_code \in {"E_SUCCESS", "E_FAILURE", "error"}
  /\ addrs \in 0..MaxAddrs /\ open_fds \in 0..1
  /\ sock_mgr \in {"null", "zero", "ready", "freed"}
  /\ failed \in {"none", "config", "pool", "getaddrinfo", "bind", "fcntl",
                 "listen", "manager", "loop"}

ServerInit ==
  /\ PoolInit
  /\ spc = "idle" /\ exit_code = "E_FAILURE" /\ addrs = 0 /\ open_fds = 0
  /\ sock_mgr = "null" /\ failed = "none"

----------------------------------------------------------------------------
(* A call fails: goto END with an exit code.  A call succeeds.              *)
Fails(call, code) == spc' = "close" /\ exit_code' = code /\ failed' = call
Goes(next_pc) == spc' = next_pc /\ exit_code' = "E_SUCCESS" /\ UNCHANGED failed

(* start_tcp_server up to validate_config.                                  *)
start_tcp_server(config) ==
  /\ spc = "idle"
  /\ IF config.client_request /\ validate_config(config)
       THEN Goes("pool") ELSE Fails("config", "E_FAILURE")
  /\ UNCHANGED <<poolVars, addrs, open_fds, sock_mgr>>

(* thread_pool_create: it returns the pool, ...                             *)
PoolCreated ==
  /\ spc = "pool" /\ opc = "ready"
  /\ Goes("resolve") /\ sock_mgr' = "zero"
  /\ UNCHANGED <<poolVars, addrs, open_fds>>

(* ... or NULL, when an allocation fails before the first worker is started *)
(* or after it has cleaned up behind a failed pthread_create.  exit_code is *)
(* still what validate_config returned.                                     *)
PoolNull ==
  /\ spc = "pool" /\ (opc = "done" \/ (opc = "create" /\ created = 0))
  /\ Fails("pool", exit_code)
  /\ UNCHANGED <<poolVars, addrs, open_fds, sock_mgr>>

(* initialize_server: getaddrinfo, ...                                      *)
Resolve ==
  /\ spc = "resolve"
  /\ \/ Goes("bind") /\ addrs' \in 1..MaxAddrs
     \/ Fails("getaddrinfo", "error") /\ UNCHANGED addrs
  /\ UNCHANGED <<poolVars, open_fds, sock_mgr>>

(* Mutant: the socket that could not be bound is not closed.                *)
TryAddress_leaks ==
  /\ spc = "bind" /\ addrs > 0
  /\ addrs' = addrs - 1
  /\ \/ UNCHANGED <<spc, exit_code, failed, open_fds>>
     \/ Goes("nonblock") /\ open_fds' = open_fds + 1
     \/ UNCHANGED <<spc, exit_code, failed>> /\ open_fds' = open_fds + 1
  /\ UNCHANGED <<poolVars, sock_mgr>>

(* ... its loop over the addresses (create_socket or bind fails, and the    *)
(* socket is closed again, or both succeed), ...                            *)
TryAddress ==
  /\ spc = "bind" /\ addrs > 0
  /\ addrs' = addrs - 1
  /\ \/ UNCHANGED <<spc, exit_code, failed, open_fds>>
     \/ Goes("nonblock") /\ open_fds' = open_fds + 1
  /\ UNCHANGED <<poolVars, sock_mgr>>

NoAddress ==
  /\ spc = "bind" /\ addrs = 0
  /\ Fails("bind", "E_FAILURE")
  /\ UNCHANGED <<poolVars, addrs, open_fds, sock_mgr>>

(* ... set_fd_non_blocking, whose failure closes the socket, ...            *)
NonBlocking ==
  /\ spc = "nonblock"
  /\ \/ Goes("listen") /\ UNCHANGED open_fds
     \/ Fails("fcntl", "E_FAILURE") /\ open_fds' = open_fds - 1
  /\ UNCHANGED <<poolVars, addrs, sock_mgr>>

(* ... listen and sock_mgr_init, whose failures do not.                     *)
Listen ==
  /\ spc = "listen"
  /\ Goes("manager") \/ Fails("listen", "error")
  /\ UNCHANGED <<poolVars, addrs, open_fds, sock_mgr>>

sock_mgr_init ==
  /\ spc = "manager"
  /\ \/ Goes("loop") /\ sock_mgr' = "ready"
     \/ Fails("manager", "E_FAILURE") /\ UNCHANGED sock_mgr
  /\ UNCHANGED <<poolVars, addrs, open_fds>>

----------------------------------------------------------------------------
(* run_server_loop: a client's job goes to the pool, ...                    *)
LoopDispatch ==
  /\ spc = "loop" /\ \E d \in Data : AddTask(Owner, d)
  /\ UNCHANGED srvVars

LoopDispatchStep ==
  /\ spc = "loop" /\ AddTaskStep(Owner)
  /\ UNCHANGED srvVars

(* ... or poll or handle_connections fails.                                 *)
LoopFails ==
  /\ spc = "loop" /\ pc[Owner] = "idle"
  /\ Fails("loop", "E_FAILURE")
  /\ UNCHANGED <<poolVars, addrs, open_fds, sock_mgr>>

(* END: close_all_sockets, which closes what the manager holds and frees    *)
(* it, before thread_pool_destroy; both do nothing when they get NULL.      *)
close_all_sockets ==
  /\ spc = "close"
  /\ open_fds' = IF sock_mgr = "ready" THEN open_fds - 1 ELSE open_fds
  /\ sock_mgr' = IF sock_mgr = "null" THEN "null" ELSE "freed"
  /\ spc' = IF sock_mgr = "null" THEN "returned" ELSE "destroy"
  /\ UNCHANGED <<poolVars, exit_code, addrs, failed>>

(* Mutant: the pool is only told to stop; nobody waits for its workers.     *)
DestroyPool_async ==
  /\ spc = "destroy" /\ opc = "ready"
  /\ spc' = "returned"
  /\ UNCHANGED <<poolVars, exit_code, addrs, open_fds, sock_mgr, failed>>

DestroyPool ==
  /\ spc = "destroy" /\ OwnerDestroy
  /\ UNCHANGED srvVars

Return ==
  /\ spc = "destroy" /\ opc = "done"
  /\ spc' = "returned"
  /\ UNCHANGED <<poolVars, exit_code, addrs, open_fds, sock_mgr, failed>>

(* The owner's steps inside thread_pool_create and thread_pool_destroy.     *)
OwnerInPool ==
  /\ spc \in {"pool", "destroy"}
  /\ OwnerStep \/ (spc = "pool" /\ CreateFails)
  /\ UNCHANGED srvVars

----------------------------------------------------------------------------
(* A worker's step.  A job that returns its client to the socket manager    *)
(* after close_all_sockets locks a destroyed mutex and writes through NULL: *)
(* the behaviour is undefined from there.                                   *)
ServerWorker(w) ==
  /\ spc # "undefined"
  /\ WorkerStep(w)
  /\ spc' \in IF routine[w] = "process" /\ sock_mgr = "freed"
                THEN {spc, "undefined"} ELSE {spc}
  /\ UNCHANGED <<exit_code, addrs, open_fds, sock_mgr, failed>>

ServerStep ==
  \/ PoolCreated \/ PoolNull \/ Resolve \/ TryAddress \/ NoAddress
  \/ NonBlocking \/ Listen \/ sock_mgr_init \/ LoopDispatchStep
  \/ close_all_sockets \/ DestroyPool \/ OwnerInPool \/ Return

ServerOther == (PoolSpurious \/ PoolSignal) /\ UNCHANGED srvVars

ServerNext ==
  \/ ServerStep \/ LoopDispatch \/ LoopFails \/ ServerOther
  \/ \E w \in Workers : ServerWorker(w)

----------------------------------------------------------------------------
(* When start_tcp_server returns, its socket manager and its server context *)
(* go out of scope: no worker is left that could use them, nobody is in the *)
(* task queue, and no listening socket is open, but the one on which listen  *)
(* or sock_mgr_init failed.  Every failure is reported but one: E_SUCCESS   *)
(* means that thread_pool_create failed.                                    *)
NothingLeftBehind ==
  spc = "returned" =>
    /\ exit_code = "E_SUCCESS" => failed = "pool" /\ open_fds = 0
    /\ \A w \in Workers : routine[w] \in {"none", "exited"}
    /\ Quiescent
    /\ open_fds = IF failed \in {"listen", "manager"} THEN 1 ELSE 0

(* On SIGINT the server is to "Finish processing any ongoing tasks" before  *)
(* it closes its connections and cleans up (design_plan.md): no worker is   *)
(* in a task when close_all_sockets has freed the manager of the array.     *)
(* The workers are joined only after that.                                  *)
TasksFinishFirst ==
  signal_flag = SHUTDOWN /\ sock_mgr = "freed" =>
    \A w \in Workers : routine[w] # "process"

(* "Ensure proper cleanup of all resources, such as closed sockets"         *)
(* (design_plan.md), whatever call failed.  close_all_sockets closes what   *)
(* the manager holds, and the listening socket is put there last.           *)
NoSocketLeak == spc = "returned" => open_fds = 0

(* A start_tcp_server that got its pool does not return before signal_flag  *)
(* is SHUTDOWN, however it failed: thread_pool_destroy waits for workers    *)
(* that nothing else ends.                                                  *)
ReturnsOnlyOnSignal ==
  /\ ServerTypeOK
  /\ (spc = "returned" /\ sock_mgr # "null") => signal_flag = SHUTDOWN

(* A clean-up that begins with signal_flag SHUTDOWN ends, whatever jobs the *)
(* workers still have.  (A signal that comes later may come too late: after *)
(* the broadcast of thread_pool_shutdown nothing wakes a sleeping worker.)  *)
CleanupCompletes ==
  (spc = "close" /\ signal_flag = SHUTDOWN) ~> spc \in {"returned", "undefined"}
=============================================================================
