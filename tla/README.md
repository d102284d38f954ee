# Verification of the cmake_template libraries

The repository is a C template with a set of libraries (`libs/`) and a sample
application (`apps/salt_vault`) built from them. The part with interesting
behaviour is the concurrent chain **signals → blocking queue → thread pool → TCP
server**, with the logger and the socket functions beside it, and below it the
pointer-based data structures. This project models that part in TLA+ and checks it
with TLC on small instances. With TLAPS it proves, for every value of the constants, the
safety of the whole chain and of the list, the hash table, the graph, the logger and
socket I/O (§5).

## 1. Inventory

| Component (`src/`) | State | Operations | Hard behaviour |
|---|---|---|---|
| `libs/Signals` | `signal_flag` (global, atomic) | handler, `signal_wait_thread` | set at any time, wakes no one |
| `libs/DSA/queue` | head, tail, nodes, `current_size`, mutex, two condition variables | init, enqueue, dequeue, peek, is_empty, is_full, clear, destroy | lost and stolen wakeups, capacity, shutdown, an unlocked test in clear |
| `libs/Threading` | task queue, worker threads | create, add_task, shutdown, destroy, `thread_routine` | flag tested before the enqueue and before the dequeue, broadcast against sleep, join twice, failed create |
| `libs/Networking/tcp_server` | pollfd array, `fd_count`, `fd_mutex`, listening socket | `run_server_loop`, `handle_connections`, `register_client`, `handle_client_event`, `process_client_request`, add / remove / grow / close | array shared by the loop and the workers, read outside the mutex, moved by realloc, swap removal during a scan, reuse of descriptors |
| `libs/DSA/linked_list` | doubly linked nodes, head, tail, size | push / pop / remove / peek by end, position or data, sort, clear, delete | head, tail, next and prev in step through any sequence of calls |
| `libs/DSA/hash_table` | chained buckets, one mutex | add, lookup, find, list, remove, clear, destroy | lookup without the lock, results larger than the buffer |
| `libs/DSA/adjacency_list`, `adjacency_matrix` | nodes and edges | add / remove node and edge, search | two-sided edges, rollback |
| `libs/DSA/vector`, `stack` | array, size, capacity | push, pop, insert, remove, resize | growth and bounds at `index == size` |
| `libs/Networking/tcp_server/tcp_server.c` | server context, exit code | `validate_config`, `initialize_server`, `start_tcp_server` | every call can fail with other things already set up; clean-up waits for workers |
| `libs/Logging`, `libs/IO/threadsafe_io` | `stdout_mutex`, console, log file | `message_log`, `log_system_info`, `ts_printf`, `ts_snprintf`, `ts_fprintf` | error paths that keep the mutex, two outputs in the same order |
| `libs/Networking/common` | none (sockets of the caller) | send / recv, once or in a loop | partial transfers, EAGAIN, EINTR, hang-up, repeated calls |
| `libs/Core`, `Math`, `Strings`, `System`, `Crypto` | none | wrappers and pure helpers | (mostly out of scope, §8) |
| `apps/salt_vault/server` | options | argument parsing, start of the server | order and repetition of options |

How they interact. `main` installs the signal handler and calls `start_tcp_server`,
which creates a thread pool, then runs the poll loop on the main thread. The loop
accepts clients into the pollfd array and gives a client with data to the pool as a
job, taking it out of the array. A worker gets the job from the pool's queue, runs
it, and closes the client or puts it back into the array. `signal_flag` is read by
`queue_dequeue`, `thread_pool_add_task` and `thread_routine`.

What makes each correct:

- *queue*: FIFO, never over capacity, no item lies beside a sleeping consumer for
  ever (nor a free place beside a sleeping producer), everybody awake returns after a
  shutdown;
- *thread pool*: an accepted task runs once, or stays in the queue because of a
  shutdown; a shutdown that follows the signal ends; nothing is freed under a thread
  that uses it;
- *event handler*: a client is polled or served, not both, not neither; a closed
  descriptor is in nobody's hands; a client with data is served;
- *hash table*: keys that collide do not disturb each other, a repeated key waits
  behind the first, and the lookup, which takes no lock, returns what was there;
- *graph*: an edge is in the lists of its ends and nowhere else, the counters agree,
  removal removes what it names, the searches reach what the edges lead to;
- *server*: what starts it is what was asked for; when `start_tcp_server` returns, no
  thread and no socket of it is left, and with a signal it does return;
- *logger*: console and file agree, the mutex is given back, the result tells what
  happened to the line;
- *socket I/O*: however the kernel cuts the stream, each message arrives whole in its
  own buffer, and the end of the other side is noticed;
- *linked list*: the chain is whole in both directions, the operations do what they
  would do to a sequence, and the list holds nothing that was freed.

`PROJECT.json` lists, under `hazards`, the places in the code where these can go
wrong, with the properties aimed at each.

## 2. Modules

    Signals ── Queue ──── ThreadPool ── TcpServer ── SaltVaultServer
       │                                ServerConfig ──┘
       └────── EventHandler
    Logging    SocketIO    LinkedList    HashTable    AdjacencyList ── Stack
    proofs: ThreadPoolProofs (queue and pool) ── SaltVaultServerProofs,
    EventHandlerProofs, LoggingProofs, SocketIOProofs, LinkedListProofs, HashTableProofs,
    AdjacencyListProofs
    abstract specifications: FifoChannel (Queue), DataList (LinkedList),
    NamedStore (HashTable)
    instances for TLC: MCQueue, MCThreadPool, MCEventHandler, MCSaltVaultServer,
    MCLogging, MCSocketIO, MCLinkedList, MCHashTable, MCAdjacencyList

**Signals.** `signal_flag`, `signal_handler(sig)` and `signal_wait_thread(sig)`. The
two differ on SIGHUP: the handler only reports it, the sigwait thread stores
`SHUTDOWN` first. A program uses one or the other; the models let a signal take
either way.

**Queue.** The list is represented by its pointers (`head`, `tail`, `next`) and
`current_size`. A node is named by the datum it carries; a datum stands for one call
of `queue_enqueue`, so it is used once. A code section between lock and unlock (or
`pthread_cond_wait`) is one action, because everything it touches is only touched
under the same mutex:

| Code | Action |
|---|---|
| `queue_enqueue` up to the lock | `EnqueueCall` |
| loop finds the queue full, sleeps on `not_full` | `EnqueueWait` |
| links the node, signals `not_empty` | `EnqueueLink` (`LinkNode`, `SignalNotEmpty`) |
| `queue_dequeue` up to the lock | `DequeueCall` |
| loop finds nothing: sleeps / gives up on SHUTDOWN | `DequeueWait` / `DequeueShutdown` |
| unlinks the head, signals `not_full` | `DequeueTake` (`UnlinkHead`, `SignalNotFull`) |
| `queue_clear`, `queue_destroy` | `ClearCall`, `DestroyCall`, and `ClearTest`, the unlocked loop test |

A thread asleep is one whose `pc` is `enqWait` or `deqWait`; `CondSignal` makes one
of them runnable, chosen freely, and `SpuriousWakeup` may do so at any time. A woken
thread competes for the mutex with everyone else. `linked` and `removed` are history
variables: the data in the order they went in and out. `queue_destroy` is called
when no other thread is in a call, as its user guide asks.

**ThreadPool** extends Queue and uses its actions as they are: a worker's steps are
`DequeueCall`, `DequeueWait`, `DequeueTake`, ..., `queue_destroy` is the same
`DestroyCall`/`ClearTest`/`DequeueTake` sequence. `opc` follows the owner through
create, shutdown (broadcast, then the joins one by one) and destroy; `why` says on
whose behalf `thread_pool_shutdown` runs. `routine` follows each worker in
`thread_routine`. `pthread_join` on a thread that was joined before or never created
is undefined: `JoinInvalid` returns or crashes. `ran` is history.

**EventHandler** has the socket manager (`fd_arr`, `fd_count`; the capacity is the
length of `fd_arr`), the main thread (`mpc`, `idx`, `local_fd_count`, `exit_code`),
the jobs in the pool and the sockets as the kernel sees them. A job is what
ThreadPool shows it to be: executed at most once, refused once the flag is set. One
pass of `handle_connections` is one step per entry; fetching the entry's address
under the mutex (`FetchEntry`) and using it afterwards are separate steps, so the
workers can grow the array in between; on a socket error the descriptor is closed
(`ScanError`) and then taken out of the entry (`DropFd`). `moved` records that: `poll` on the old
array loses its results (`PollReports` with `moved`); reading an entry of the old
array is undefined and ends the behaviour in `mpc = "undefined"`. So does a worker
that puts a client back after `close_all_sockets`. When realloc fails,
`sock_fd_add` returns without unlocking: `fd_mutex = "stuck"` disables every later
lock.

`LogLength` is what `snprintf` returns for the line that reports a new client.
`register_client` compares it with `E_SUCCESS`, so with the code as it is, where the
length is never 0, the first connection is closed, stays in the array and ends the
server (run `event_stale`, `LogLength = 49`). That would hide everything else the module
describes; the passing run therefore looks past that line with `LogLength = 0`, the value
the test accepts, at the loop, the array and the workers. The definitions are the same
in both, and `PollsOnlyOpen` is proved for every length: the pass that leaves a closed
descriptor in the array is the last one.

**TcpServer** extends ThreadPool: the thread in `start_tcp_server` is the pool's
`Owner`, and its steps in `thread_pool_create` and `thread_pool_destroy` are the pool's
own actions. `spc` follows it through validation (`ServerConfig`), pool, `getaddrinfo`,
the loop over addresses, `fcntl`, `listen`, `sock_mgr_init`, the loop and the clean-up;
each call has an outcome for its failure, which goes to `END` with the exit code the
code has at that point. The loop is abstracted to what concerns the life cycle: it
submits jobs and ends with an error (the details are EventHandler). A worker that still
runs a job after `close_all_sockets` may put its client back through freed memory; that
ends the behaviour in `spc = "undefined"`. `failed` is history: which call ended the
server.

**SaltVaultServer** puts `main` and `process_options` in front of it. The command line is
what `getopt` finds on it, with the argument of an option attached or in the next word
(which `argc` counts and `main` tests); a number is what `strtol` makes of the string (`Text`). `main`
passes NULL for `client_request`, so that its own server ends at the first check; so that
the rest is reached, a second program (`program = "other"`) calls the library with a
configuration of its own.

**Logging** has one action per call of the C library inside `message_log`, since each
may fail and leave by another way: format, `fopen`, the console, `fprintf`, `fclose`.
The `printf` calls are not tested: a line may miss the console and go on (`Prints`,
recorded in the history variable `lost`). What is printed to a FILE reaches the log when
it is closed. `why` is history: what made the last call of a thread leave early.
`fprintf` and `fclose` failures return with the mutex held (`Abandoned`). The thread
`Main` begins as `start_tcp_server` does, with `message_log("SESSION_START")`, then
`log_system_info`, which prints its box without the mutex, before the other threads
exist.

**SocketIO** is a connection with a sender and a receiver. A byte is named by its message
and its place, so that a byte in the wrong place shows. `send` and `recv` transfer any
part of what they are asked for; `EAGAIN`, `EINTR` and other errors are the same `-1` to
the code. `send_data` and `recv_data` transfer `sizeof` of a pointer (`PointerSize`),
whatever the message is. After a failure the caller may call again, which restarts the
message, or close. A first `send` to a receiver that has closed may succeed or fail with
ECONNRESET; one after that raises SIGPIPE. `cut` is history: a repeated call after part
of a message went through (or a short `send_data`, which nobody notices).

**LinkedList** is the list at the level of its pointers, used by one thread. `Walk`
is what a traversal from `head` finds, `Chain` the nodes it finds before NULL. `frees`
counts the calls of `custom_free` per datum. Every operation is called in every state.
`list_sort` leaves `tail` on the node that was last before, and `list_push_tail`,
`list_pop_tail` and `list_pop_head` then work with it: where nodes drop out of the list,
`status` becomes `cut` (`CutBehind`), and the list is used on. Where the code follows a
pointer to a freed node or NULL, the behaviour ends in `undefined` (`BadPointer`).

**HashTable.** Buckets of chained nodes (`table`, `next`, `key`). `add`, `remove`, `find`,
`list` and `clear` hold the lock throughout and are one action each. `hash_table_lookup`
takes no lock: `LookupBegin` reads the bucket, each node is a `LookupStep`, and the
locked operations may come in between. A lookup that reaches a freed node ends the
behaviour (`status = "freed_node"`), as do `find` and `list` when they have more results
than buckets, for which they allocate (`"overrun"`), or when that allocation failed
(`"no_results"`). `hash_table_init` may return a table without buckets, and any call with
it is undefined (`UseNoBuckets`). `hash_table_add` without memory for the node changes
nothing and returns `E_SUCCESS`; `given` is history, the data for which it did. The hash function is the constant
`Bucket`, any function; keys are compared by their first 50 characters, which is the
constant `Prefix`. What the table tells apart is the pair of the two: a key's name.
`seen` and `always` are history: what was in the table under the sought name at some
time, and at all times, since the lookup began.

**AdjacencyList.** Nodes with lists of edges, used by one thread; the lists are taken
for what `DataList` says of them. Nodes, like edges, are objects with an identity; each
has a datum, which others may have too. `named` holds the nodes with each datum in the
order of `node_list`, and `graph_find_node` finds the first of them (`FoundBy`), also
where the code looks for a node it already has. The loops (`remove_edges`, `VisitAll`,
`Traverse`) are recursive functions of the number of turns, over a record of the lists,
the counters and what was freed, or of the state of the traversal. Reading a freed edge
or node ends the behaviour in `undefined`. `custom_free` keeps what it is given, like the
functions of the tests, or frees it, as `adjacency_list.md` asks; `Init` chooses. The
rollback in `graph_add_edge` removes the first edge of its kind from the list, which is
the one that was just pushed to its head, so that `graph_add_edge_fails` changes nothing.

The code does not keep its lists whole through every call, and the module says exactly
which calls are the exceptions (`Gap`): `graph_remove_edge` for nodes without an edge
between them (`graph_find_edge` then returns the last edge it looked at, and that one is
removed); `graph_remove_edge` where directed and bidirectional edges are parallel
(`edge_compare` takes one for the other); `graph_remove_node` for the end of a directed
edge, which keeps pointing to the freed node, for a node with a bidirectional loop, which
is collected twice, or for one whose edges end at a node that a later one with the same
datum hides; `graph_clear` or `graph_destroy` after `graph_clear`; with a `custom_free`
that frees, any removal of a node and any clearing of a graph that is not empty, as the
node list has `custom_free` too and gives it the `node_t`; and a traversal that fails, for
want of memory or of room on the stack (`Stack`, with `MAX_STACK_SIZE` entries), because
destroying its stack or queue gives the nodes waiting there to `free`. Both traversals
follow `edge->node_2`, so a bidirectional edge is followed from its first node to its
second only. `Reach` follows it both ways, as the documentation calls it undirected.

**FifoChannel**, **DataList** and **NamedStore** are the abstract specifications: a
channel that is only appended to and taken from the front; a sequence with insertion,
removal, arrangement by key and clearing; a line of data for each name.

Failed allocations and NULL arguments that return before anything changed are
stuttering steps and have no action.

## 3. Runs

| Run | Instance | What it shows |
|---|---|---|
| `queue` | 3 threads, 4 data (interchangeable), `max_size` 2; 63 k states | `TypeOK`, `ListShape`, `WithinCapacity`, `NoLostItem`, `NoLostPlace`; implements `FifoChannel`; `WaitersServed`, `ShutdownReturns` |
| `pool` | 2 workers, owner and another submitter, 3 tasks; 31 k states | `TaskOnce`, `NoTaskDropped`, `FreedWhenIdle`; `AcceptedTaskRuns`, `ShutdownTerminates` |
| `event` | 2 client descriptors, 2 slots, 2 connections, 1 signal, 1 failing call; 104 k states | `OneOwner`, `PollsOnlyOpen`, `NoClientLost`; `ClientServed` |
| `server` | command lines of up to 3 options, 2 workers, 2 jobs, 2 addresses; 28 k states | `NothingLeftBehind`, `ReturnsOnlyOnSignal`, `StartsAsAsked`; `CleanupCompletes` |
| `log` | 2 threads, 3 calls; 254 k states | `LogsAgree`, `MutexKept`, `FailsWhole`; `LoggersReturn` |
| `sockio` | 3 messages, chunks of 2 bytes, 3 bytes on the way, 1 error; 62 k states | `StreamIntact`, `WithinBuffer`, `ResultsTell`; `HangupNoticed` |
| `list` | 4 data, two with equal keys, a size of up to 5; 16 k states | `ChainWhole`, `ChainEnds`, `FaultsConfined`; operations are those of `DataList` |
| `hash` | 2 buckets, 3 keys, 4 data (interchangeable), one lookup; 64 k states | `ChainsWhole`, `LookupRight`; implements `NamedStore` |
| `graph` | 3 nodes, 3 data, 3 edges (nodes and edges interchangeable), a stack of one entry; 152 k states | `CountsAgree`, `TraversalsReach`, `WholeOutsideGaps`, `RemovesWhatItShould` |

Each module's type invariant is a conjunct of one of its invariants (`OneOwner`,
`ReturnsOnlyOnSignal`, `MutexKept`, `WithinBuffer`, `ChainWhole`, `ChainsWhole`,
`CountsAgree`); the queue's, which has a theorem, is checked by name.

Three runs show places where the code and its own documents disagree (`findings` in
`PROJECT.json` quotes both sides):

| Run | What TLC finds |
|---|---|
| `pool_shutdown` | a worker leaves its loop on the signal, and `thread_pool_shutdown` returns, with an accepted task still in the queue |
| `event_stale` | the first client is closed as if its registration had failed, and its entry stays in the poll list |
| `event_stop` | a server without clients polls for ever after the shutdown signal |

### Claims

The modules state more of what headers, documents and tests say of the code, as the
definitions below. They have no run of their own: each is false, and TLC refutes it within
seconds when it takes the place of the properties in the configuration of the run named
here. The properties of the runs say what is true instead.

| Definition | Claim | Counterexample | Run |
|---|---|---|---|
| `ClearNeverWaits` | `queue/docs/tech_spec.md:138` "All access to shared state is protected by `queue->mutex`." | `queue_clear` sees an item, another consumer takes it, and the clearing thread sleeps in `queue_dequeue` | `queue` |
| `KeepsProcessing` | `event_handler.c:95` "Keep processing even when a new connection fails." | the first connection ends the server | `event_stale` |
| `HelpExits` | `option_handler.c:329` "-h        Print this help menu and exit." | `-p 8080 -h` starts the server | `server` |
| `TasksFinishFirst` | `tcp_server/docs/design_plan.md:58-60` "Finish processing any ongoing tasks." before "Properly close all client connections." | `close_all_sockets` frees the array while a worker is in a task | `server` |
| `NoSocketLeak` | `design_plan.md:39` "Ensure proper cleanup of all resources, such as closed sockets" | a failed `listen` or `sock_mgr_init` leaves the socket open | `server` |
| `ResultTells` | `runtime_log.h:82` "Returns E_SUCCESS on successful logging, or E_FAILURE if an error occurs." | a call with `show_time` is dropped exactly when the time was found (`get_timestamp` returns `true`); a log file that cannot be opened and a `printf` that fails are reported as success | `log` |
| `NothingDropped` | `linked_list.h:92` "pushes a new node onto the tail of list"; `linked_list_tests.c:801` expects the last node from `list_peek_tail` after a sort | after `list_sort`, `list_push_tail` and `list_pop_tail` cut the chain | `list` |
| `ReturnsUnfreed` | `linked_list.h:139` "pointer to popped node on success"; `linked_list_tests.c:423` reads it | `list_pop_position` gives an inner datum to `custom_free` and returns it | `list` |
| `AddedIsThere` | `hash_table.h:64` "adds an item to the table", with an exit code | `E_SUCCESS` without memory for the node | `hash` |
| `UndirectedReach` | `adjacency_list.md:52` "Adds an undirected (bidirectional) edge between A and C" | the search from C does not find A | `graph` |
| `RemovesBetween` | `adjacency_list.h:86` "Removes an edge between two nodes in the graph." | without one, another edge is removed | `graph` |
| `EdgesEndInGraph` | `adjacency_list.c:64` "Collects all edges connected to a given node." | a directed edge to the removed node stays in the list of its other node | `graph` |
| `DestroyFreesAll` | `adjacency_list.h:120` "Destroys the graph and frees all associated memory." | no edge is freed | `graph` |
| `DestroySafe` | `adjacency_list.md:103` "Ensure you have defined `custom_free` and `custom_compare` functions that know how to free your data" | with such a function each `node_t` is freed twice | `graph` |

Nothing in the repository is said against three more defects that the models contain:
`thread_pool_destroy` after a `thread_pool_shutdown` joins every worker twice
(`JoinInvalid`); a server that fails to start waits in `thread_pool_destroy` for a signal
(`ReturnsOnlyOnSignal`), for ever when it comes after the broadcast, and returns
`E_SUCCESS` when it got no pool (`NothingLeftBehind`); and a log file that cannot be
written or closed keeps `stdout_mutex` (`MutexKept`, `LoggersReturn`).

### Bounds

- *queue*: with two places and four data, two producers sleep on a full queue while
  the third thread empties it, and a producer that was woken finds its place taken by
  another; a signal too few is visible only there. For safety this is a preview of the
  proofs. The pool has the unbounded queue.
- *pool*: two workers is the minimum the code accepts. Three tasks let one be
  running, one be taken after the signal and one stay behind. The second submitter submits while
  the owner shuts down.
- *event*: with 2 slots (the code's default is 5) the array is full with one client
  and grows, once, for the second. Two descriptors and two connections give two
  clients at once and the reuse of a descriptor. `MaxSignals`, `MaxConnects` and
  `MaxFailures` are bounds of the model only.
- *server*: every argument lies on one side of a limit of the code and next to another
  on the other side; three options are enough to repeat one and to put `-h` between two.
  Two addresses let the first fail and the second succeed. Two jobs let one run while
  the other waits when the clean-up begins.
- *log*: a third line needs two others around it to show an order; the owner of a kept
  mutex can come back for it, and so can the other thread. Each of the failures may
  happen at each call.
- *sockio*: a message of five bytes takes two whole chunks and a bit, `send_data` sends
  one of two, and the last is exactly one chunk. The wire holds three bytes: more than a
  chunk and less than the first message, so that `send` is partial and the end of one
  message is received together with the beginning of the next.
- *list*: three nodes are needed to have one between two others, four for a merge of
  two halves of two. A size of five lets a list that was cut grow beyond the nodes it
  still has.

- *hash*: two keys collide and a third, in the other bucket, agrees with one of them in
  the compared characters. Four data make chains with inner nodes and repeated keys. One
  lookup is enough: lookups change nothing that another one reads.
- *graph*: three edges allow a triangle, loops, and two parallel edges beside a third;
  all combinations of directed and bidirectional ones occur. Two or three nodes may have
  the same datum; which datum it is does not matter (`View`). A stack of one entry is full as soon as the start node has two
  neighbours; the code's limit of 2000 differs in the size of the graph it takes only.
  Each traversal runs with every amount of memory up to what it needs.

`queue`, `hash` and `graph` use the symmetry of data (nodes and edges), which their
properties treat alike. `hash` and `graph` check safety only; in `queue` the reduction is
sound for liveness as well, as a permutation of the data changes neither which threads
can take a step nor what the properties say of a state. The other instances use none: they check
liveness, tell their threads apart, or order their data by key. `list` and `graph` leave
out of TLC's view what nothing can read any more: the links of nodes outside the list, and
the names of the data.

Deadlock is checked for the queue. It is switched off where the system really stops: a
destroyed pool, a server that has closed its sockets or waits on a stuck mutex, a
destroyed table or graph, and the list, whose freed data are not pushed again.

### Fairness

- *queue*: weak fairness of each thread's own steps: a runnable thread is scheduled
  and gets the mutex. Nothing is assumed about calls, signals or spurious wakeups.
- *pool*: the same for workers, submitters and the owner; that a worker's
  `WorkerProcess` happens means that task functions return.
- *event*: weak fairness of the main thread only. That poll ends when nothing is
  ready assumes a timeout (`salt_vault` configures 10 ms). A client whose worker puts it
  back during a call of poll is not in that call's array, so with an infinite timeout
  it would wait for somebody else's event.
- *server*: weak fairness of the thread in `start_tcp_server`, except for how long the
  loop runs, and of each worker; jobs return. Nothing is assumed about signals:
  `CleanupCompletes` is for a clean-up that begins with the signal set.
- *log*: weak fairness of each thread's steps. With a bounded number of calls a free mutex
  reaches everyone who waits.
- *sockio*: weak fairness of `send` and `recv` in a call that has begun. No fairness
  makes anybody call, close or consume.

Fairness is never used for a thread asleep on a condition variable: it moves only
when somebody signals it.

## 4. Why the properties look as they do

- `NoLostItem` counts: while a consumer sleeps there are at least as many awake
  consumers as items. "Some consumer is awake" is true as well and weaker: it holds
  in a queue that signals only on the transition from empty, as the comment of
  `queue_t` describes it, and that queue leaves items lying. `NoLostItem` fails for it
  (this is the mutant of the property).
- `OneOwner` does not count the entry the main thread is about to remove: between
  `thread_pool_add_task` and `sock_fd_remove` the worker may already have put the
  client back, and the client is then in the array twice until the removal.
- `NoTaskDropped` is about tasks that were dequeued: a worker that had passed the loop
  test when the signal came still runs the one it takes. Accepted tasks in the queue are
  dropped at a shutdown, against the words of `thread_pool.h` (`WaitsForAllTasks`).
- `LookupRight` is what remains of linearizability for a lookup without a lock: the
  answer fits some moment of the call. "Missing" is right unless an entry was there all
  the time.
- `NothingLeftBehind` and `ReturnsOnlyOnSignal` belong together: nothing is left behind
  *because* the clean-up waits for the workers, and that wait is also why a server that
  could not bind its port hangs. A clean-up that did not wait would satisfy the second
  wish and break the first (`DestroyPool_async`).
- `LogsAgree` compares the LOG_BOTH lines of the two logs (`SameOrder`) and lets the file
  be behind by one line, and then only with the mutex held: a line that reached the
  console and not the file is the last one ever logged (`OnlyLastMissing`). The console
  may lack lines whose own `printf` failed.
- `FailsWhole` is what a caller may rely on when `message_log` fails: it can log the line
  again without it being there twice. Of `E_SUCCESS` nothing of the kind is true.
- `StreamIntact` is about all bytes at once, received, in the buffer and on the way, and
  has `cut` as its premise: the repetition of a failed call is the one thing that the
  interface, which does not return how far it got, cannot support.
- `WholeOutsideGaps` has its exceptions as disjuncts; dropping any of them from `Gap`
  makes TLC find the corresponding defect.
- `TraversalsReach` bounds the traversals from above by undirected reachability and makes
  that exact for graphs of directed edges. What they find of bidirectional edges depends
  on which node was named first in `graph_add_edge`, and is claimed nowhere.
- `ChainWhole` and `ImplementsList` hold until nodes are dropped (`status`).
  `FaultsConfined` says that this takes a tail that is not the last node, that only
  `list_sort` makes one (an action property: the invariant "tail is the last node" is
  false), and that a datum is freed too early or twice only when it is taken from between
  two nodes by position. `ChainEnds` says what is left when all that has gone wrong: a
  chain that `list_clear` can free.

## 5. Proofs

Every module below extends the model and is checked by `tlapm` to the last leaf. The
theorems hold for every value of the constants that satisfies the assumptions named in
the model. Those say what kind of thing a constant is (`LoggingConstants`,
`SocketConstants`, `HandlerConstants`, `PoolConstants`, `ServerConstants`,
`CommandLineAssumption`, `NullIsNoDatum`, `MaxSizeNat`) and that threads, and the data of
a list, a table or a graph, are finitely many (`ThreadsFinite`, `ListConstants`,
`TableConstants`, `GraphConstants`, which also says that the stack has an entry at all);
the model's bounds on calls, signals, failures and connections are constants too, so that
the theorems are about any number of them.

| Module | Theorems | Inductive invariant |
|---|---|---|
| `ThreadPoolProofs` | `QueueTypeCorrect`, `QueueShape`, `QueueCapacity`, `QueueNoLostItem`, `QueueNoLostPlace`, `QueueImplementsFifo` | `IInv` |
| | `PoolTaskOnce`, `PoolNoTaskDropped`, `PoolFreedWhenIdle` | `PoolInv` |
| `SaltVaultServerProofs` | `ServerImplementsPool`, `ServerNothingLeftBehind`, `ServerReturnsOnlyOnSignal`, `SaltVaultStartsAsAsked` | `ServerInv`, `OptionsInv` |
| `EventHandlerProofs` | `HandlerOneOwner`, `HandlerNoClientLost`, `HandlerPollsOnlyOpen` | `HandlerInv` |
| `LoggingProofs` | `LoggerLogsAgree`, `LoggerMutexKept`, `LoggerFailsWhole` | `LogInv` |
| `SocketIOProofs` | `SocketStreamIntact`, `SocketWithinBuffer`, `SocketResultsTell` | `SockInv` |
| `LinkedListProofs` | `ListChainWhole`, `ListFaultsConfined`, `ListImplementsList`, `SortFacts` | `ListInv` |
| `HashTableProofs` | `TableChainsWhole`, `TableLookupRight`, `TableImplementsStore` | `TableInv` |
| `AdjacencyListProofs` | `GraphStaysSound`, `GraphCountsAgree`, `GraphWholeOutsideGaps`, `GraphRemovesWhatItShould`, `GraphTraversalsReach` | `GraphInv` |

A theorem named for a property of a run (`PoolTaskOnce` for `TaskOnce`) states that very
definition.

**Queue.** `IInv == TypeOK /\ ListShape /\ FreshArgs`. `ListShape`
ties the pointers to the history: the i-th pending datum's `next` is the (i+1)-th, the
last one's is NULL, `head` and `tail` are the ends. Linking a node keeps this only if
the node is not already in the chain, and that a thread asleep in `queue_enqueue` still
holds a datum nobody else has is `FreshArgs`. The types need the shape, because
`tail->next` is a write to a node only if `tail` is one; so the three are proved
together. `LinkKeepsShape` and `UnlinkKeepsShape` carry the two steps that change the
list, `QuietKeepsShape` all others; `StepIInv` has one case per action.

`QueueNoLostItem` and `QueueNoLostPlace` are inductive over `IInv`. They are counting
arguments: `LinkMoves` and `TakeMoves` say which threads move when a signal is sent,
and `CountAdd`, `CountRemove`, `CountSubset` what this does to the number of awake
threads. One signal per enqueue adds one item and, if somebody sleeps, one awake
consumer; a take removes one of each.

`QueueImplementsFifo` maps `content` to the pending part of the history, which
`ListShape` identifies with what a walk along the pointers finds. `LinkIsPut` and
`UnlinkIsTake` show that the two steps are `Put` and `Take`; every other step leaves
`content` and `taken` alone.

**Thread pool.** The pool's steps on its queue are the queue's, but the pool is not a
behaviour of the queue's own specification: `thread_pool_shutdown` broadcasts on the
queue's condition variable behind its back, and `queue_destroy` has the precondition that
nobody else is in a call, which the owner must be shown to keep. So the queue's invariant
is proved as part of `PoolInv`, with the queue's lemmas for the queue's steps.
Beside it stand `Placement` (where a thread may be in the queue's code, by what it is),
`Phases` (what each phase of create, shutdown and destroy has established about the
workers and the submitters) and `Hands` (a dequeued task was run, is in one worker's hands
or is discarded by the clear).
`FreedWhenIdle` rests on the join loop: in phase `join` the
workers below `jdx` are gone.

**Server.** `ServerImplementsPool` is a refinement with the identity as its mapping:
every step of `main`, `process_options` and `start_tcp_server` is a step of the pool or
leaves its variables alone, so `PoolInv` and the pool's theorems hold of the server.
`ServerPhases` then ties the place in `start_tcp_server` to what is set up at that point
and which call failed. `ReturnsOnlyOnSignal` needs besides that a worker ends on the
signal only (`ExitedOnSignal`) and that a pool whose creation succeeded has all its
workers. `StartsAsAsked` is about command lines of every length: `OptionsInv` says what
the options read so far have set, and that the others have their defaults.

**Event handler.** The properties need each other: the descriptor that `accept4` returns
is in no entry because no closed descriptor is (`Fresh`); a client that a worker puts back
is in no entry because it was served (`Owned`); and the entry that is removed is in use
because an entry behind `fd_count` to which the pass still comes says that nothing
happened (`Pass`). `Fresh` is inductive when the connection log call is taken for a
success. For any other length `register_client` closes the client and leaves its
descriptor in the array; then no client is ever registered for good, and the pass that
accepts one ends the server (`Aborted`). So `HandlerPollsOnlyOpen`, like the other
theorems, holds for every `LogLength`. Between the close of a descriptor and the end of
its entry (`ScanError`, `DropFd`) `Closed` says which one is meant.

**Logger.** `LogsAgree` rests on who holds the mutex and where (`Mutex`, `Places`,
`Files`), on each call having an identity (`Ids`) and on what each call has written by
where it is (`Progress`, `Behind`), where a line that `printf` did not get out is in
`lost`. Until the other threads are started only `Main` runs (`Session`), and so the
box stays together without a lock (`BoxFirst`). `FailsWhole` follows from
`Progress` and from who keeps the mutex: every exit that reports a failure comes before the
first write, or keeps the mutex.

**Socket I/O.** `StreamIntact` says that each byte of the stream follows the one before.
To conclude from it that a buffer whose length is reached holds a whole message takes an
induction over bytes; `InPlace` states instead, of every two bytes, what the later one is
by their distance. That is inductive by itself, and `Sender`, `Receiver` and `OnWire` keep
the positions within their messages.

**Linked list.** `WholeInv` says that, until an operation drops nodes, the walk from
`head` is a chain of different unfreed nodes, linked both ways (`Linked`), and that `tail`
is on it or freed (`Knows`), which is what is left of it after a sort. Each operation is shown,
on the pointers, to do one of four things to the sequence of nodes: insert, take out,
arrange by key, empty (`StepKinds`), or to drop nodes. One lemma each for insertion
(`InsertLinks`) and removal (`RemoveLinks`) covers both ends and the middle, and the
theorems follow from the four kinds. None of them says anything of a list after nodes were
dropped; `ChainEnds` does, and is checked by TLC only.

**Hash table.** `TableInv` says that every bucket is a chain of unfreed nodes that hash
there (`Whole`, `Homes`), and of a lookup under way that its node was freed, or that what
was in the table all the time is not behind it in the chain (`Walks`). The last is what
makes a lookup that returns "missing" right.

`TableImplementsStore` maps the line of a name to the data of that name in its bucket, in
the order of the chain (`HeldUnder`). `FromChain` identifies what the recursion along the
pointers finds with a filter of the chain that `TableInv` provides; `HeldAppend` and
`HeldWithout` say what adding at the end and taking out the first match do to the filter,
for the name in question and for the others that share the bucket. So `hash_table_add`,
`hash_table_remove` and `hash_table_clear` are `Add`, `Remove` and `Clear`
(`AddHolds`, `RemoveHolds`, `ClearHolds`), and the lookups and queries change no line.

**Graph.** The difficulty is that the graph does not stay whole: after one of the calls in
`Gap`, edges may be in one list and not in the other, and the next calls work on that.
`GraphInv` is what holds regardless. Every entry of a list is an edge that was allocated
and belongs in it (`Placed`); the counters agree (`Counted`); bidirectional edges that are
in the lists of both their ends are there in the same order (`Ordered`), because a new
edge is pushed to both heads and the rollback in `graph_remove_edge` puts back the first
of its kind; and in a list without freed edges bidirectional loops, which are in their list
twice, interleave only in the ways that `Nested` and `Enclosed` allow (`Tidy`). The last two are needed for the removal itself: the code finds an edge by
its first match in one list, removes the first match in the other list, and frees the edge
from the first. That both matches are the same edge is not in the code; it follows from
the order. `RemoveEdgeIs` lists the ways `graph_remove_edge` can end, and `DirectedKeeps`,
`RollbackKeeps` and `RemovedKeeps` show that each keeps the invariant.

`GraphRemovesWhatItShould` and `GraphWholeOutsideGaps` start from a whole graph. There the
removal ends with the edge cut out of the lists it is due in (`RemoveOne`), and if no
parallel edge has another kind of direction, it is the same edge in both (`NotMixedSame`), so
that the graph stays whole (`RemoveExact`). `graph_remove_node` is a loop of such removals
over the edges collected beforehand. Its invariant (`Advanced`) says that after i turns
exactly the first i collected edges are freed and the list of the node is what was
collected without them, in order; so the edge a turn frees is the one the turn was for
(`TurnExact`), and no turn meets a freed edge. Each turn looks its two nodes up by their
data, and finds these nodes because none of them is hidden (`Unsafe`).

`GraphTraversalsReach` treats a traversal as a walk in a set R that no edge leads out of
(`TraverseEnds`). While it goes well, what was visited was acted on or is waiting, once
each, and two pieces of memory were used for each (`Going`). Each turn acts on one more
node, so that after as many turns as there are nodes nothing is waiting; and what was acted
on contains the start and the neighbours of all its nodes. With R the reachable nodes this
is the theorem, as edges that are directed lead where the traversals go; with R all nodes of the graph it shows that a traversal that does not fail
frees nothing and reads nothing freed, which `GraphWholeOutsideGaps` needs. The stack is
too small only when `MAX_STACK_SIZE` nodes wait, at least one was acted on and one more is
to be pushed, which gives the bound in the property.

**Induction.** The induction theorems of the library take a predicate as parameter, which
the provers here cannot instantiate. The well-ordering of the numbers (`LeastNumber`, from
`WellFoundedInduction`) does not, and gives the same: of two walks along the
same links there is a first step at which they differ. `LinkedListProofs` proves from it
the recursion theorem for functions with a decreasing measure (`Recursion`), and with that
what `merge` and `merge_sort` return for lists of every length (`MergeFacts`, `SortFacts`).
To this end `merge` is written as a function of the pair of halves. `Iterated`, in
`AdjacencyListProofs`, is the same for loops: a recursive function of the number of turns
exists and satisfies its equation, from which an invariant of the loop body is an invariant
of every turn (`Climb`).

## 6. Model-checked only

- Liveness under fairness is outside what TLAPS proves: `WaitersServed`,
  `ShutdownReturns`, `AcceptedTaskRuns`, `ShutdownTerminates`, `ClientServed`,
  `CleanupCompletes`, `LoggersReturn`, `HangupNoticed`.
- `ChainEnds`, about a list after nodes were dropped from it.

Every other property of a passing run is stated by a theorem. Of the proofs' assumptions
TLC evaluates each on the instance of the run.

## 7. Plan

All parts chosen for modelling (§2) are modelled, checked and proved about: Signals, Queue,
ThreadPool, EventHandler, TcpServer, SaltVaultServer, Logging, SocketIO, LinkedList,
HashTable, AdjacencyList with Stack.

What could follow: a refinement that joins the two views of the server (the loop in
TcpServer stands for EventHandler without being shown to), the lists of the graph as
instances of LinkedList instead of `DataList`'s word, and the vector.

## 8. Not modelled

- `libs/Strings`, `libs/Core`, `libs/System`, the rest of `libs/Math` and of
  `libs/IO/file_io`: wrappers and helpers without state or concurrency. The getters of
  `libs/System` appear in Logging as uses of the mutex.
- `libs/Crypto` is vendored TweetNaCl with a thin wrapper: arithmetic, out of reach of
  TLC.
- `libs/DSA/vector` and `libs/DSA/adjacency_matrix`: sequential arrays that nothing in
  the repository calls. The bounds tests of the vector compare an index with `size` by
  `>` in places, so that `index == size` passes (`vector.c:205`); no property is stated
  about it.
- `stack_peek`, `stack_clear` on its own, `list_find_all_occurrences` (it builds a second
  list of the same data), `list_foreach_call` and `list_pick_random_item` (they change
  nothing).
- `PRINT_DEBUG`, which writes to the console of a debug build without the mutex, and
  all wording, colours and layout.
- `config.c`, `file_manager.c`, `session_manager.c`, `thread_routines.c` and the client
  are empty. The build files (CMake) are not code of the system.
