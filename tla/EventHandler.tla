---------------------------- MODULE EventHandler ----------------------------
(***************************************************************************)
(* libs/Networking/tcp_server: the poll loop (run_server_loop), the event   *)
(* handler and the socket manager, with the worker threads that hand a      *)
(* client back to the loop.                                                 *)
(*                                                                         *)
(* The socket manager is an array of pollfd entries.  Only the first        *)
(* fd_count are in use; an entry is its fd and its revents.  The main       *)
(* thread removes entries, the main thread and the workers append them.     *)
(* Sections under fd_mutex are one action; what the code reads or writes    *)
(* without the mutex is in an action of the thread that does it.            *)
(*                                                                         *)
(* The thread pool is what module ThreadPool shows it to be: a job it       *)
(* accepts is executed at most once, and no job is accepted once            *)
(* signal_flag is SHUTDOWN.                                                 *)
(*                                                                         *)
(* realloc may move the array and leaves the new entries uninitialised: the *)
(* model chooses their revents (sock_fd_add writes the fd before anything   *)
(* reads it).  poll on an array that was moved meanwhile writes its results *)
(* where nobody reads them, or into memory that has another owner by now.   *)
(* That, and an entry used through a pointer into the old array, ends the   *)
(* behaviour in "undefined", and nothing is claimed of what follows.        *)
(***************************************************************************)
EXTENDS Signals, Naturals, Sequences, FiniteSets

CONSTANTS
  Fds,           \* descriptors the kernel can give to clients (numbers)
  ServerFd,      \* the listening socket
  NoFd,          \* -1
  Capacity,      \* DEFAULT_FD_CAPACITY
  LogLength,     \* what snprintf returns for the connection log line
  JobResults,    \* what the application's process_job may return
  MaxConnects,   \* bound: connections clients make
  MaxSignals,    \* bound: signals delivered
  MaxFailures    \* bound: failures of calloc, realloc, accept4, fcntl, poll

ASSUME HandlerConstants ==
  /\ Fds \subseteq Nat /\ IsFiniteSet(Fds)
  /\ ServerFd \in Nat \ Fds /\ NoFd \notin Nat /\ 0 \notin Fds \union {ServerFd}
  /\ Capacity \in Nat \ {0} /\ LogLength \in Nat
  /\ JobResults \subseteq {"error", "closed"}
  /\ MaxConnects \in Nat /\ MaxSignals \in Nat /\ MaxFailures \in Nat

VARIABLES
  fd_arr, fd_count,      \* the socket manager; capacity is Len(fd_arr)
  fd_mutex,              \* "free", or "stuck" when an error path kept it
  freed,                 \* close_all_sockets has freed the array
  mpc,                   \* where the main thread is
  idx, local_fd_count,   \* of handle_connections (poll uses the latter too)
  moved,                 \* the array moved since the main thread read its address
  exit_code,             \* what handle_connections will return
  jobs,                  \* jobs of each client in the pool
  sock,                  \* each client socket as the kernel sees it
  backlog, connects,     \* connections waiting for accept4; made so far
  signals, failures      \* signals delivered and calls failed so far

arrVars  == <<fd_arr, fd_count, fd_mutex, freed, moved>>
loopVars == <<mpc, idx, local_fd_count, exit_code>>
netVars  == <<sock, backlog, connects>>
sigVars  == <<signal_flag, signals, failures>>
vars     == <<arrVars, loopVars, netVars, sigVars, jobs>>

Revents == {"none", "in", "err"}
Entry   == [fd : Fds \union {ServerFd, NoFd, 0}, revents : Revents]

TypeOK ==
  /\ SignalTypeOK /\ signals \in 0..MaxSignals /\ failures \in 0..MaxFailures
  /\ fd_arr \in Seq(Entry) /\ fd_count \in 0..Len(fd_arr)
  /\ fd_mutex \in {"free", "stuck"} /\ freed \in BOOLEAN /\ moved \in BOOLEAN
  /\ mpc \in {"loop", "poll", "handle", "scan", "entry", "drop", "remove",
              "close", "closed", "undefined"}
  /\ idx \in Nat /\ local_fd_count \in Nat
  /\ exit_code \in {"E_SUCCESS", "E_FAILURE", "poll_error"}
  /\ jobs \in [Fds -> Nat]
  /\ sock \in [Fds -> {"none", "idle", "data", "hup"}]
  /\ backlog \in 0..MaxConnects /\ connects \in 0..MaxConnects

(* The server's entry; the other slots are as calloc left them, as max_fds  *)
(* is still 0 when the loop that would fill them looks at it.               *)
sock_fd_arr_init ==
  fd_arr = [i \in 1..Capacity |->
              [fd |-> IF i = 1 THEN ServerFd ELSE 0, revents |-> "none"]]

(* After initialize_server and sock_mgr_init, before the loop.              *)
Init ==
  /\ SignalInit /\ signals = 0 /\ failures = 0
  /\ sock_fd_arr_init
  /\ fd_count = 1 /\ fd_mutex = "free" /\ freed = FALSE /\ moved = FALSE
  /\ mpc = "loop" /\ idx = 1 /\ local_fd_count = 1 /\ exit_code = "E_FAILURE"
  /\ jobs = [c \in Fds |-> 0]
  /\ sock = [c \in Fds |-> "none"]
  /\ backlog = 0 /\ connects = 0

----------------------------------------------------------------------------
(* A call to the C library or the kernel fails.                             *)
Fail == failures < MaxFailures /\ failures' = failures + 1 /\ UNCHANGED <<signal_flag, signals>>

Full == fd_count = Len(fd_arr)

(* sock_fd_increase_capacity: twice the slots, the new ones as realloc      *)
(* left them, the array at the old address or at another one.               *)
Grown(garbage) ==
  fd_arr \o [i \in 1..Len(fd_arr) |-> [fd |-> NoFd, revents |-> garbage[i]]]

Append_fd(arr, c) == [arr EXCEPT ![fd_count + 1].fd = c]

(* sock_fd_add, under the mutex.  revents of the slot is left as it is.     *)
sock_fd_add(c) ==
  /\ fd_mutex = "free"
  /\ fd_count' = fd_count + 1
  /\ IF ~Full
       THEN fd_arr' = Append_fd(fd_arr, c) /\ UNCHANGED moved
       ELSE /\ \E garbage \in [1..Len(fd_arr) -> Revents] :
                 fd_arr' = Append_fd(Grown(garbage), c)
            /\ moved' \in {moved, TRUE}
  /\ UNCHANGED <<fd_mutex, freed>>

(* realloc fails: the function returns with the mutex held.                 *)
sock_fd_add_fails ==
  /\ fd_mutex = "free" /\ Full /\ Fail
  /\ fd_mutex' = "stuck"
  /\ UNCHANGED <<fd_arr, fd_count, freed, moved>>

(* Mutant: the entry is cleared and the last one is not moved there.        *)
sock_fd_remove_no_move(i) ==
  /\ fd_mutex = "free"
  /\ fd_count' = fd_count - 1
  /\ fd_arr' = [fd_arr EXCEPT ![i] = [fd |-> NoFd, revents |-> "none"]]
  /\ UNCHANGED <<fd_mutex, freed, moved>>

(* sock_fd_remove: the last entry takes the place of the removed one.       *)
sock_fd_remove(i) ==
  /\ fd_mutex = "free"
  /\ IF i > fd_count
       THEN fd_mutex' = "stuck" /\ UNCHANGED <<fd_arr, fd_count>>
       ELSE /\ fd_count' = fd_count - 1
            /\ fd_arr' = [fd_arr EXCEPT
                 ![i] = fd_arr[fd_count],
                 ![fd_count] = [fd |-> NoFd, revents |-> "none"]]
            /\ UNCHANGED fd_mutex
  /\ UNCHANGED <<freed, moved>>

----------------------------------------------------------------------------
(* Mutant: the newest entry is left out.                                    *)
Snapshot_short ==
  /\ mpc = "loop" /\ fd_mutex = "free"
  /\ local_fd_count' = (IF fd_count > 1 THEN fd_count - 1 ELSE 1) /\ moved' = FALSE
  /\ mpc' = "poll"
  /\ UNCHANGED <<fd_arr, fd_count, fd_mutex, freed, idx, exit_code, netVars,
                 sigVars, jobs>>

(* run_server_loop.  Its test of the shutdown signal looks at a local       *)
(* variable that nothing assigns, so there is no step for it.               *)
Snapshot ==
  /\ mpc = "loop" /\ fd_mutex = "free"
  /\ local_fd_count' = fd_count /\ moved' = FALSE
  /\ mpc' = "poll"
  /\ UNCHANGED <<fd_arr, fd_count, fd_mutex, freed, idx, exit_code, netVars,
                 sigVars, jobs>>

(* What poll reports for a descriptor.                                      *)
EventOf(fd) ==
  CASE fd = NoFd     -> "none"
    [] fd = ServerFd -> IF backlog > 0 THEN "in" ELSE "none"
    [] OTHER         -> CASE sock[fd] = "data" -> "in"
                          [] sock[fd] = "idle" -> "none"
                          [] OTHER             -> "err"

SomethingReady == \E i \in 1..local_fd_count : EventOf(fd_arr[i].fd) # "none"

Polled == [i \in 1..Len(fd_arr) |->
             IF i <= local_fd_count
               THEN [fd_arr[i] EXCEPT !.revents = EventOf(fd_arr[i].fd)]
               ELSE fd_arr[i]]

PollReports ==
  /\ mpc = "poll" /\ SomethingReady
  /\ fd_arr' = IF moved THEN fd_arr ELSE Polled
  /\ mpc' = "handle"
  /\ UNCHANGED <<fd_count, fd_mutex, freed, moved, idx, local_fd_count,
                 exit_code, netVars, sigVars, jobs>>

PollTimeout ==
  /\ mpc = "poll" /\ ~SomethingReady
  /\ mpc' = "loop"
  /\ UNCHANGED <<arrVars, idx, local_fd_count, exit_code, netVars, sigVars, jobs>>

PollFails ==
  /\ mpc = "poll" /\ Fail
  /\ mpc' = "close" /\ exit_code' = "poll_error"
  /\ UNCHANGED <<arrVars, idx, local_fd_count, netVars, jobs>>

(* A signal; the thread that takes it may be the main one, whose poll it    *)
(* interrupts (EINTR): the loop continues.                                  *)
DeliverSignal ==
  /\ mpc # "undefined" /\ signals < MaxSignals /\ signals' = signals + 1
  /\ \E sig \in SIGNAL_LIST : signal_handler(sig) \/ signal_wait_thread(sig)
  /\ mpc' = mpc \/ (mpc = "poll" /\ mpc' = "loop")
  /\ UNCHANGED <<arrVars, idx, local_fd_count, exit_code, netVars, failures, jobs>>

----------------------------------------------------------------------------
(* handle_connections reads fd_count again, under the mutex ...             *)
HandleBegin ==
  /\ mpc = "handle" /\ fd_mutex = "free"
  /\ local_fd_count' = fd_count /\ idx' = 1 /\ exit_code' = "E_FAILURE"
  /\ mpc' = "scan"
  /\ UNCHANGED <<arrVars, netVars, sigVars, jobs>>

(* ... and, for one entry after the other, takes its address under the      *)
(* mutex and then looks at it without.                                      *)
FetchEntry ==
  /\ mpc = "scan" /\ idx <= local_fd_count /\ fd_mutex = "free"
  /\ moved' = FALSE /\ mpc' = "entry"
  /\ UNCHANGED <<fd_arr, fd_count, fd_mutex, freed, idx, local_fd_count, exit_code,
                 netVars, sigVars, jobs>>

(* The main thread's pointer is into an array that was moved meanwhile.     *)
UseFreedEntry ==
  /\ mpc \in {"poll", "entry", "drop"} /\ moved
  /\ mpc' = "undefined"
  /\ UNCHANGED <<arrVars, idx, local_fd_count, exit_code, netVars, sigVars, jobs>>

Scanning(revents) == mpc = "entry" /\ ~moved /\ fd_arr[idx].revents = revents
NextEntry == idx' = idx + 1 /\ mpc' = "scan"

(* A socket error: the descriptor is closed, then taken out of the entry.   *)
ScanError ==
  /\ Scanning("err") /\ mpc' = "drop"
  /\ sock' = [c \in Fds |-> IF c = fd_arr[idx].fd THEN "none" ELSE sock[c]]
  /\ UNCHANGED <<arrVars, idx, local_fd_count, exit_code, backlog, connects, sigVars, jobs>>

(* Mutant: the entry keeps the closed descriptor.                           *)
DropFd_kept ==
  /\ mpc = "drop" /\ ~moved /\ NextEntry
  /\ UNCHANGED <<arrVars, local_fd_count, exit_code, netVars, sigVars, jobs>>

DropFd ==
  /\ mpc = "drop" /\ ~moved /\ NextEntry
  /\ fd_arr' = [fd_arr EXCEPT ![idx].fd = NoFd]
  /\ UNCHANGED <<fd_count, fd_mutex, freed, moved, local_fd_count, exit_code, netVars,
                 sigVars, jobs>>

ScanSkip ==
  /\ Scanning("none") /\ NextEntry
  /\ UNCHANGED <<arrVars, local_fd_count, exit_code, netVars, sigVars, jobs>>

(* register_client: accept4 gives the lowest free descriptor.               *)
FreeFds    == {c \in Fds : sock[c] = "none"}
AcceptedFd == CHOOSE c \in FreeFds : \A d \in FreeFds : c <= d

(* Registered, unless the result of snprintf is taken for an error: then    *)
(* the client is closed, and its entry stays in the array.                  *)
Register ==
  /\ Scanning("in") /\ fd_arr[idx].fd = ServerFd /\ NextEntry
  /\ backlog > 0 /\ FreeFds # {}
  /\ backlog' = backlog - 1
  /\ sock_fd_add(AcceptedFd)
  /\ IF LogLength # 0
       THEN exit_code' = "E_FAILURE" /\ UNCHANGED sock
       ELSE exit_code' = "E_SUCCESS" /\ sock' = [sock EXCEPT ![AcceptedFd] = "idle"]
  /\ UNCHANGED <<local_fd_count, connects, sigVars, jobs>>

(* accept4 has no connection or no descriptor to give.                      *)
NothingToAccept ==
  /\ Scanning("in") /\ fd_arr[idx].fd = ServerFd /\ NextEntry
  /\ backlog = 0 \/ FreeFds = {}
  /\ exit_code' = "E_FAILURE"
  /\ UNCHANGED <<arrVars, local_fd_count, netVars, sigVars, jobs>>

(* The accepted client is closed again because it cannot be made            *)
(* non-blocking, or because its entry cannot be added.                      *)
RegisterFails ==
  /\ Scanning("in") /\ fd_arr[idx].fd = ServerFd /\ NextEntry
  /\ backlog > 0 /\ FreeFds # {}
  /\ backlog' = backlog - 1
  /\ (Fail /\ UNCHANGED arrVars) \/ sock_fd_add_fails
  /\ exit_code' = "E_FAILURE"
  /\ UNCHANGED <<local_fd_count, sock, connects, jobs>>

(* handle_client_event up to thread_pool_add_task ...                       *)
Dispatch ==
  /\ Scanning("in") /\ fd_arr[idx].fd \in Fds
  /\ signal_flag # SHUTDOWN
  /\ jobs' = [jobs EXCEPT ![fd_arr[idx].fd] = @ + 1]
  /\ mpc' = "remove"
  /\ UNCHANGED <<arrVars, idx, local_fd_count, exit_code, netVars, sigVars>>

(* ... which refuses the job, or the job cannot be allocated ...            *)
DispatchFails ==
  /\ Scanning("in") /\ fd_arr[idx].fd \in Fds /\ NextEntry
  /\ (signal_flag = SHUTDOWN /\ UNCHANGED sigVars) \/ Fail
  /\ exit_code' = "E_FAILURE"
  /\ UNCHANGED <<arrVars, local_fd_count, netVars, jobs>>

(* ... and, after the job was accepted, the removal of the entry.           *)
(* Mutant: the entry of a dispatched client stays.                          *)
Remove_skipped ==
  /\ mpc = "remove" /\ NextEntry
  /\ exit_code' = "E_SUCCESS"
  /\ UNCHANGED <<arrVars, local_fd_count, netVars, sigVars, jobs>>

Remove ==
  /\ mpc = "remove" /\ NextEntry
  /\ sock_fd_remove(idx)
  /\ exit_code' = IF idx > fd_count THEN "E_FAILURE" ELSE "E_SUCCESS"
  /\ UNCHANGED <<local_fd_count, netVars, sigVars, jobs>>

(* The result of the last entry that was handled decides on the server.     *)
ScanEnd ==
  /\ mpc = "scan" /\ idx > local_fd_count
  /\ mpc' = IF exit_code = "E_SUCCESS" THEN "loop" ELSE "close"
  /\ UNCHANGED <<arrVars, idx, local_fd_count, exit_code, netVars, sigVars, jobs>>

(* close_all_sockets takes no mutex.  thread_pool_destroy follows.          *)
CloseAll ==
  /\ mpc = "close"
  /\ sock' = [c \in Fds |->
                IF \E i \in 1..fd_count : fd_arr[i].fd = c THEN "none" ELSE sock[c]]
  /\ freed' = TRUE
  /\ mpc' = "closed"
  /\ UNCHANGED <<fd_arr, fd_count, fd_mutex, moved, idx, local_fd_count, exit_code,
                 backlog, connects, sigVars, jobs>>

----------------------------------------------------------------------------
(* process_client_request on a worker: the job may read what the client     *)
(* sent, and the client is closed or put back into the array.               *)
JobDone(c) == mpc # "undefined" /\ jobs[c] > 0 /\ jobs' = [jobs EXCEPT ![c] = @ - 1]

WorkerClose(c) ==
  /\ "closed" \in JobResults
  /\ JobDone(c)
  /\ sock' = [sock EXCEPT ![c] = "none"]
  /\ UNCHANGED <<arrVars, loopVars, backlog, connects, sigVars>>

WorkerReturn(c) ==
  /\ "error" \in JobResults /\ ~freed
  /\ JobDone(c)
  /\ sock' \in {sock, [sock EXCEPT ![c] = IF @ = "data" THEN "idle" ELSE @]}
  /\ (sock_fd_add(c) /\ UNCHANGED sigVars) \/ sock_fd_add_fails
  /\ UNCHANGED <<loopVars, backlog, connects>>

(* sock_fd_add after close_all_sockets: fd_arr is NULL.                     *)
WorkerUseFreed(c) ==
  /\ "error" \in JobResults /\ freed
  /\ JobDone(c)
  /\ mpc' = "undefined"
  /\ UNCHANGED <<arrVars, idx, local_fd_count, exit_code, netVars, sigVars>>

(* The clients, as long as the loop listens to them.                        *)
Listening == mpc \notin {"close", "closed", "undefined"}

Connect ==
  /\ Listening /\ connects < MaxConnects
  /\ connects' = connects + 1 /\ backlog' = backlog + 1
  /\ UNCHANGED <<arrVars, loopVars, sock, sigVars, jobs>>

Send(c) ==
  /\ Listening /\ sock[c] = "idle" /\ sock' = [sock EXCEPT ![c] = "data"]
  /\ UNCHANGED <<arrVars, loopVars, backlog, connects, sigVars, jobs>>

Hangup(c) ==
  /\ Listening /\ sock[c] \in {"idle", "data"} /\ sock' = [sock EXCEPT ![c] = "hup"]
  /\ UNCHANGED <<arrVars, loopVars, backlog, connects, sigVars, jobs>>

----------------------------------------------------------------------------
MainStep ==
  \/ Snapshot \/ PollReports \/ PollTimeout \/ PollFails \/ HandleBegin
  \/ FetchEntry \/ UseFreedEntry \/ ScanError \/ DropFd \/ ScanSkip
  \/ Register \/ NothingToAccept \/ RegisterFails
  \/ Dispatch \/ DispatchFails \/ Remove \/ ScanEnd \/ CloseAll

WorkerStep(c) == WorkerClose(c) \/ WorkerReturn(c) \/ WorkerUseFreed(c)

Next ==
  \/ MainStep \/ DeliverSignal \/ Connect
  \/ \E c \in Fds : WorkerStep(c) \/ Send(c) \/ Hangup(c)

Spec == Init /\ [][Next]_vars

(* The main thread runs: poll returns (when nothing is ready, after its     *)
(* timeout), and fd_mutex is held for a few instructions only.              *)
Fairness == WF_vars(MainStep)

FairSpec == Spec /\ Fairness

----------------------------------------------------------------------------
(* The entries in use that name client c, without the one the main thread   *)
(* is about to remove.                                                      *)
EntriesOf(c) == {i \in 1..fd_count : fd_arr[i].fd = c /\ ~(mpc = "remove" /\ i = idx)}

(* A client is polled by the loop or served by one worker, never both and   *)
(* never twice, although the worker may put it back into the array before   *)
(* the loop has removed it.  The state stays well typed under the swaps and *)
(* the growth of the array.                                                 *)
OneOwner ==
  /\ TypeOK
  /\ ~freed => \A c \in Fds : Cardinality(EntriesOf(c)) + jobs[c] <= 1

(* What poll looks at is open: no entry that was in use when the pass ended *)
(* names a descriptor that was closed and that the kernel may give to       *)
(* another client.  The entry that register_client leaves behind for a      *)
(* client it closed is never polled, because that pass ends the loop.       *)
PollsOnlyOpen ==
  mpc \in {"loop", "poll", "handle"} =>
    \A i \in 1..fd_count : fd_arr[i].fd \in Fds => sock[fd_arr[i].fd] # "none"

(* A client is not forgotten: until it is closed it is polled or served, so *)
(* swapping the last entry into a freed slot loses nobody.                  *)
NoClientLost ==
  (~freed /\ fd_mutex = "free") =>
    \A c \in Fds : sock[c] # "none" => EntriesOf(c) # {} \/ jobs[c] > 0

(* A client whose data waits is dispatched while the server runs, although  *)
(* an entry swapped into an already visited slot is skipped in that pass.   *)
ClientServed ==
  \A c \in Fds :
    (sock[c] = "data" /\ EntriesOf(c) # {})
      ~> (jobs[c] > 0 \/ sock[c] # "data" \/ fd_mutex = "stuck"
          \/ mpc \in {"close", "closed", "undefined"})

(* handle_connections: "Keep processing even when a new connection fails",  *)
(* "... even if an event cannot be handled": only poll ends the loop.       *)
KeepsProcessing == mpc = "close" => exit_code = "poll_error"

(* docs/design_plan.md: "Handle client disconnections or errors by closing  *)
(* sockets and removing them from the poll() list": between two entries of  *)
(* a pass no closed client is in the list.  register_client closes a client *)
(* that it has just put there.                                              *)
ClosedAreRemoved ==
  mpc = "scan" => \A i \in 1..fd_count : fd_arr[i].fd \in Fds => sock[fd_arr[i].fd] # "none"

(* run_server_loop: "It also checks for shutdown signals to gracefully      *)
(* terminate the server."                                                   *)
StopsOnSignal == signal_flag = SHUTDOWN ~> mpc \in {"closed", "undefined"}
=============================================================================
